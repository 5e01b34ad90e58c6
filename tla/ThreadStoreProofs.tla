-------------------------- MODULE ThreadStoreProofs --------------------------
(***************************************************************************)
(* Proofs about ThreadStore.                                               *)
(***************************************************************************)
EXTENDS ThreadStore, FiniteSetTheorems, TLAPS

(* Sequences: the elements at some indices, in their order.                *)

Rank(I, i) == Cardinality({j \in I : j <= i})
Nth(I, k)  == CHOOSE i \in I : Rank(I, i) = k

LEMMA RankFacts ==
  ASSUME NEW n \in Nat, NEW I \in SUBSET (1 .. n)
  PROVE  /\ IsFiniteSet(I) /\ Cardinality(I) \in Nat
         /\ \A i \in I : Rank(I, i) \in 1 .. Cardinality(I)
         /\ \A i, j \in I : i < j => Rank(I, i) < Rank(I, j)
<1>1. IsFiniteSet(I) /\ Cardinality(I) \in Nat
  <2>1. IsFiniteSet(1 .. n)
    BY FS_Interval
  <2>2. QED
    BY <2>1, FS_Subset, FS_CardinalityType
<1>2. ASSUME NEW i \in I PROVE Rank(I, i) \in 1 .. Cardinality(I)
  <2> DEFINE B == {j \in I : j <= i}
  <2>1. IsFiniteSet(B) /\ Cardinality(B) <= Cardinality(I) /\ Cardinality(B) \in Nat
    <3>1. B \in SUBSET I
      OBVIOUS
    <3>2. QED
      BY <1>1, <3>1, FS_Subset, FS_CardinalityType
  <2>2. i \in B
    OBVIOUS
  <2>3. Cardinality(B) # 0
    BY <2>1, <2>2, FS_EmptySet
  <2>4. QED
    BY <1>1, <2>1, <2>3 DEF Rank
<1>3. ASSUME NEW i \in I, NEW j \in I, i < j PROVE Rank(I, i) < Rank(I, j)
  <2> DEFINE A == {k \in I : k <= i}
             B == {k \in I : k <= j}
  <2>1. IsFiniteSet(B)
    <3>1. B \in SUBSET I
      OBVIOUS
    <3>2. QED
      BY <1>1, <3>1, FS_Subset
  <2>2. A \in SUBSET B
    <3>1. \A k \in I : k \in Nat
      OBVIOUS
    <3>2. \A k \in I : k <= i => k <= j
      BY <1>3, <3>1
    <3>3. QED
      BY <3>2
  <2>3. j \in B /\ j \notin A
    BY <1>3
  <2>4. Cardinality(A) <= Cardinality(B) /\ Cardinality(B) # Cardinality(A)
    BY <2>1, <2>2, <2>3, FS_Subset
  <2>5. Rank(I, i) \in Nat /\ Rank(I, j) \in Nat
    BY <1>2
  <2>6. QED
    BY <2>4, <2>5 DEF Rank
<1>4. QED
  BY <1>1, <1>2, <1>3

LEMMA NthFacts ==
  ASSUME NEW n \in Nat, NEW I \in SUBSET (1 .. n)
  PROVE  /\ IsFiniteSet(I) /\ Cardinality(I) \in Nat
         /\ \A k \in 1 .. Cardinality(I) : Nth(I, k) \in I
         /\ \A k, l \in 1 .. Cardinality(I) : k # l => Nth(I, k) # Nth(I, l)
         /\ \A i \in I : \E k \in 1 .. Cardinality(I) : Nth(I, k) = i
         /\ 1 \in I => 1 \in 1 .. Cardinality(I) /\ Nth(I, 1) = 1
<1> DEFINE c == Cardinality(I)
           f == [i \in I |-> Rank(I, i)]
<1>1. IsFiniteSet(I) /\ c \in Nat /\ (\A i \in I : Rank(I, i) \in 1 .. c)
      /\ \A i, j \in I : i < j => Rank(I, i) < Rank(I, j)
  BY RankFacts
<1>2. ASSUME NEW i \in I, NEW j \in I, Rank(I, i) = Rank(I, j) PROVE i = j
  <2>1. i \in Nat /\ j \in Nat /\ Rank(I, i) \in Nat
    BY <1>1
  <2>2. ~(i < j) /\ ~(j < i)
    BY <1>1, <1>2, <2>1
  <2>3. QED
    BY <2>1, <2>2
<1>3. f \in Injection(I, 1 .. c)
  BY <1>1, <1>2 DEF Injection, IsInjective
<1>4. IsFiniteSet(1 .. c) /\ Cardinality(1 .. c) = c
  BY <1>1, FS_Interval
<1> HIDE DEF c
<1>5. f \in Surjection(I, 1 .. c)
  <2>1. Cardinality(I) = Cardinality(1 .. c)
    BY <1>4 DEF c
  <2> HIDE DEF f
  <2>2. QED
    BY <1>3, <1>4, <2>1, FS_Injection
<1>6. ASSUME NEW k \in 1 .. c PROVE Nth(I, k) \in I /\ Rank(I, Nth(I, k)) = k
  <2>1. PICK i \in I : Rank(I, i) = k
    BY <1>5 DEF Surjection
  <2>2. QED
    BY <2>1 DEF Nth
<1>7. ASSUME NEW i \in I PROVE Nth(I, Rank(I, i)) = i
  <2>1. Rank(I, i) \in 1 .. c
    BY <1>1 DEF c
  <2>2. QED
    BY <1>2, <1>6, <2>1
<1>8. ASSUME 1 \in I PROVE Rank(I, 1) = 1
  <2>1. {j \in I : j <= 1} = {1}
    <3>1. \A j \in I : j \in Nat \ {0}
      OBVIOUS
    <3>2. \A j \in I : j <= 1 <=> j = 1
      BY <3>1
    <3>3. QED
      BY <1>8, <3>2
  <2>2. QED
    BY <2>1, FS_Singleton DEF Rank
<1>9. QED
  BY <1>1, <1>6, <1>7, <1>8 DEF c

\* What is retained of a sequence.
LEMMA RetainFacts ==
  ASSUME NEW S, NEW s \in Seq(S), NEW I \in SUBSET DOMAIN s
  PROVE  /\ Retain(s, I) \in Seq(S)
         /\ \A n \in DOMAIN Retain(s, I) : Nth(I, n) \in I /\ Retain(s, I)[n] = s[Nth(I, n)]
         /\ \A n, k \in DOMAIN Retain(s, I) : n # k => Nth(I, n) # Nth(I, k)
         /\ \A i \in I : \E n \in DOMAIN Retain(s, I) : Nth(I, n) = i
         /\ 1 \in I => 1 \in DOMAIN Retain(s, I) /\ Nth(I, 1) = 1
<1>1. Len(s) \in Nat /\ DOMAIN s = 1 .. Len(s) /\ \A i \in DOMAIN s : s[i] \in S
  OBVIOUS
<1>2. I \in SUBSET (1 .. Len(s))
  BY <1>1
<1>3. /\ Cardinality(I) \in Nat
      /\ \A k \in 1 .. Cardinality(I) : Nth(I, k) \in I
      /\ \A k, l \in 1 .. Cardinality(I) : k # l => Nth(I, k) # Nth(I, l)
      /\ \A i \in I : \E k \in 1 .. Cardinality(I) : Nth(I, k) = i
      /\ 1 \in I => 1 \in 1 .. Cardinality(I) /\ Nth(I, 1) = 1
  BY <1>1, <1>2, NthFacts
<1>4. Retain(s, I) = [n \in 1 .. Cardinality(I) |-> s[Nth(I, n)]]
  BY DEF Retain, Nth, Rank
<1>5. DOMAIN Retain(s, I) = 1 .. Cardinality(I)
      /\ \A n \in DOMAIN Retain(s, I) : Retain(s, I)[n] = s[Nth(I, n)]
  BY <1>4
<1>6. Retain(s, I) \in Seq(S)
  <2>1. \A n \in 1 .. Cardinality(I) : s[Nth(I, n)] \in S
    BY <1>1, <1>3
  <2>2. QED
    BY <1>3, <1>4, <2>1
<1>7. QED
  BY <1>3, <1>5, <1>6

-----------------------------------------------------------------------------
(* Types.                                                                  *)

TurnRecords == [users : Seq(Texts), done : BOOLEAN]
OverlaysOf(ts) == [text : Msgs, turn : 0 .. Len(ts)]
Drafts == [text : Msgs, kind : {"Message", "PendingSteer"}]
EventsOf(ts) ==
  [type : {"started", "completed"}, turn : 1 .. Len(ts)] \cup [type : {"item"}, item : AllItems(ts)]

Snapshot(th, ts) ==
  /\ th \in [items : {th.items}, overlays : Seq(OverlaysOf(ts)), drafts : Seq(Drafts), active : 0 .. Len(ts)]
  /\ th.items = SetToBag(DOMAIN th.items) /\ DOMAIN th.items \subseteq AllItems(ts)

RefreshStates == {"idle", "resume", "resumed", "resumeRead", "probe", "probed", "probeRead",
                  "page", "paged", "pageRead"}

ServerType == turns \in Seq(TurnRecords) /\ events \in Seq(EventsOf(turns))
LinkType ==
  /\ paginated \in BOOLEAN /\ overtaken \in BOOLEAN /\ faults \in 0 .. MaxFaults
  /\ link \in BOOLEAN /\ subscribed \in BOOLEAN
  /\ ~link => ~subscribed /\ events = <<>>
ThreadType == Snapshot(thread, turns)
OpType ==
  /\ op \in [Msgs -> [pc : OpStates, saw : Turns, turn : Turns]]
  /\ \A m \in Msgs : op[m].turn # None => op[m].pc \in {"answered", "asked", "failed", "error"}
TapType == tap \in [Taps -> [pc : TapStates, msg : Texts, saw : Turns, list : Seq(Drafts)]]
ListenerType == listener \in [pc : {"recv", "check", "asked", "answered"}, msg : Texts]
RefreshType ==
  /\ refresh \in [pc : RefreshStates, turns : Seq(TurnRecords), read : {refresh.read}]
  /\ Snapshot(refresh.read, turns)
  /\ Len(refresh.turns) <= Len(turns) /\ AllItems(refresh.turns) \subseteq AllItems(turns)
Types == /\ ServerType /\ LinkType /\ ThreadType /\ OpType /\ TapType /\ ListenerType /\ RefreshType


-----------------------------------------------------------------------------
(* The reducer.                                                            *)

Distinct(s) == \A i, j \in DOMAIN s : s[i].text = s[j].text => i = j
\* Overlays some of which were dropped, or bound to a turn.
Derived(rs, os) ==
  \A n \in DOMAIN rs : \E j \in DOMAIN os :
    rs[n].text = os[j].text /\ (rs[n].turn = os[j].turn \/ os[j].turn = None)
Derives(rs, os) == Derived(rs, os) /\ (Distinct(os) => Distinct(rs))

LEMMA RetainDistinct ==
  ASSUME NEW S, NEW s \in Seq(S), NEW I \in SUBSET DOMAIN s, Distinct(s)
  PROVE  Distinct(Retain(s, I))
<1> DEFINE r == Retain(s, I)
<1>1. /\ \A n \in DOMAIN r : Nth(I, n) \in I /\ r[n] = s[Nth(I, n)]
      /\ \A n, k \in DOMAIN r : n # k => Nth(I, n) # Nth(I, k)
  BY RetainFacts
<1> HIDE DEF r
<1>2. ASSUME NEW n \in DOMAIN r, NEW k \in DOMAIN r, r[n].text = r[k].text PROVE n = k
  <2>1. s[Nth(I, n)].text = s[Nth(I, k)].text
    BY <1>1, <1>2
  <2>2. Nth(I, n) = Nth(I, k)
    BY <1>1, <2>1 DEF Distinct
  <2>3. QED
    BY <1>1, <2>2
<1>3. QED
  BY <1>2 DEF Distinct, r

LEMMA RemoveFacts ==
  ASSUME NEW S, NEW os \in Seq(S), NEW items
  PROVE  LET r == RemoveDuplicates(os, items)
         IN  /\ r \in Seq(S) /\ (Distinct(os) => Distinct(r))
             /\ \A n \in DOMAIN r : \E j \in DOMAIN os :
                   r[n] = os[j] /\ \A i \in items : os[j].text # i.text
<1> DEFINE I == {k \in DOMAIN os : \A i \in items : ~Superseded(os[k], i)}
           r == RemoveDuplicates(os, items)
<1>1. r = Retain(os, I) /\ I \in SUBSET DOMAIN os
  BY DEF RemoveDuplicates
<1>2. \A k \in I : \A i \in items : os[k].text # i.text
  BY DEF Superseded
<1> HIDE DEF I, r
<1>3. r \in Seq(S) /\ \A n \in DOMAIN r : Nth(I, n) \in I /\ r[n] = os[Nth(I, n)]
  BY <1>1, RetainFacts
<1>4. Distinct(os) => Distinct(r)
  BY <1>1, RetainDistinct
<1>5. ASSUME NEW n \in DOMAIN r
      PROVE  \E j \in DOMAIN os : r[n] = os[j] /\ \A i \in items : os[j].text # i.text
  BY <1>1, <1>2, <1>3
<1>6. QED
  BY <1>3, <1>4, <1>5 DEF r

LEMMA BindFirstFacts ==
  ASSUME NEW ts, Len(ts) \in Nat, NEW os \in Seq(OverlaysOf(ts)), NEW t \in 0 .. Len(ts)
  PROVE  LET r == BindFirstPending(os, t)
         IN  r \in Seq(OverlaysOf(ts)) /\ Derives(r, os)
<1> DEFINE r == BindFirstPending(os, t)
<1>1. Len(os) \in Nat /\ DOMAIN os = 1 .. Len(os) /\ \A i \in DOMAIN os : os[i] \in OverlaysOf(ts)
  OBVIOUS
<1>2. DOMAIN r = DOMAIN os
      /\ \A i \in DOMAIN os : r[i] = os[i] \/ (os[i].turn = None /\ r[i] = [os[i] EXCEPT !.turn = t])
  BY DEF BindFirstPending
<1>3. r = [i \in 1 .. Len(os) |-> r[i]]
  BY <1>1 DEF BindFirstPending
<1> HIDE DEF r
<1>4. ASSUME NEW i \in DOMAIN os
      PROVE  /\ r[i] \in OverlaysOf(ts) /\ r[i].text = os[i].text
             /\ r[i].turn = os[i].turn \/ os[i].turn = None
  BY <1>1, <1>2 DEF OverlaysOf
<1>5. r \in Seq(OverlaysOf(ts))
  BY <1>1, <1>3, <1>4
<1>6. Derives(r, os)
  BY <1>2, <1>4 DEF Derives, Derived, Distinct
<1>7. QED
  BY <1>5, <1>6 DEF r

LEMMA DerivesThrough ==
  ASSUME NEW ts, NEW os, NEW rs, NEW bs \in Seq(OverlaysOf(ts)), Derives(bs, os), NEW items,
         rs = RemoveDuplicates(bs, items)
  PROVE  rs \in Seq(OverlaysOf(ts)) /\ Derives(rs, os)
<1>1. /\ rs \in Seq(OverlaysOf(ts)) /\ (Distinct(bs) => Distinct(rs))
      /\ \A n \in DOMAIN rs : \E j \in DOMAIN bs : rs[n] = bs[j]
  BY RemoveFacts
<1>2. ASSUME NEW n \in DOMAIN rs
      PROVE  \E k \in DOMAIN os :
               rs[n].text = os[k].text /\ (rs[n].turn = os[k].turn \/ os[k].turn = None)
  <2>1. PICK j \in DOMAIN bs : rs[n] = bs[j]
    BY <1>1
  <2>2. QED
    BY <2>1 DEF Derives, Derived
<1>3. QED
  BY <1>1, <1>2 DEF Derives, Derived

LEMMA DerivesSelf == \A os : Derives(os, os)
BY DEF Derives, Derived

LEMMA BindFacts ==
  ASSUME NEW ts \in Seq(TurnRecords), NEW th, Snapshot(th, ts), NEW m \in Msgs, NEW t \in 0 .. Len(ts)
  PROVE  LET new == Bind(th, m, t)
         IN  /\ Snapshot(new, ts) /\ new.drafts = th.drafts /\ new.active = th.active
             /\ new.items = th.items
             /\ Distinct(th.overlays) => Distinct(new.overlays)
             /\ \A n \in DOMAIN new.overlays : \E j \in DOMAIN th.overlays :
                   /\ new.overlays[n].text = th.overlays[j].text
                   /\ new.overlays[n].turn = IF th.overlays[j].text = m THEN t ELSE th.overlays[j].turn
<1> DEFINE os == th.overlays
           bs == [i \in DOMAIN os |-> IF os[i].text = m THEN [os[i] EXCEPT !.turn = t] ELSE os[i]]
           rs == RemoveDuplicates(bs, DOMAIN th.items)
           new == Bind(th, m, t)
<1>1. Len(os) \in Nat /\ DOMAIN os = 1 .. Len(os) /\ os \in Seq(OverlaysOf(ts))
      /\ \A i \in DOMAIN os : os[i] \in OverlaysOf(ts)
  BY DEF Snapshot
<1>2. DOMAIN bs = DOMAIN os
      /\ \A i \in DOMAIN os : /\ bs[i] \in OverlaysOf(ts) /\ bs[i].text = os[i].text
                              /\ bs[i].turn = IF os[i].text = m THEN t ELSE os[i].turn
  BY <1>1 DEF OverlaysOf
<1>3. bs \in Seq(OverlaysOf(ts))
  <2>1. \A i \in 1 .. Len(os) : (IF os[i].text = m THEN [os[i] EXCEPT !.turn = t] ELSE os[i]) \in OverlaysOf(ts)
    BY <1>1 DEF OverlaysOf
  <2>2. bs \in [1 .. Len(os) -> OverlaysOf(ts)]
    BY <1>1, <2>1
  <2>3. QED
    BY <1>1, <2>2
<1>4. /\ new.overlays = rs /\ new.items = th.items /\ new.drafts = th.drafts /\ new.active = th.active
      /\ new \in [items : {new.items}, overlays : {new.overlays}, drafts : {new.drafts}, active : {new.active}]
  BY DEF Bind, Snapshot
<1> HIDE DEF bs
<1>5. /\ rs \in Seq(OverlaysOf(ts)) /\ (Distinct(bs) => Distinct(rs))
      /\ \A n \in DOMAIN rs : \E j \in DOMAIN bs : rs[n] = bs[j]
  BY <1>3, RemoveFacts
<1> HIDE DEF rs, new
<1>6. Snapshot(new, ts)
  BY <1>4, <1>5 DEF Snapshot
<1>7. Distinct(os) => Distinct(new.overlays)
  BY <1>2, <1>4, <1>5 DEF Distinct
<1>8. ASSUME NEW n \in DOMAIN new.overlays
      PROVE  \E j \in DOMAIN os : /\ new.overlays[n].text = os[j].text
                                  /\ new.overlays[n].turn = IF os[j].text = m THEN t ELSE os[j].turn
  BY <1>2, <1>4, <1>5
<1>9. QED
  BY <1>4, <1>6, <1>7, <1>8 DEF new

LEMMA DropFirstFacts ==
  ASSUME NEW ds \in Seq(Drafts)
  PROVE  /\ DropFirst(ds) \in Seq(Drafts) /\ (Distinct(ds) => Distinct(DropFirst(ds)))
         /\ \A n \in DOMAIN DropFirst(ds) : n + 1 \in DOMAIN ds /\ DropFirst(ds)[n] = ds[n + 1]
<1>1. CASE ds = <<>>
  BY <1>1 DEF DropFirst, Distinct
<1>2. CASE ds # <<>>
  <2>1. DropFirst(ds) = Tail(ds) /\ Len(ds) \in Nat /\ DOMAIN ds = 1 .. Len(ds)
    BY <1>2 DEF DropFirst
  <2>2. Tail(ds) \in Seq(Drafts) /\ DOMAIN Tail(ds) = 1 .. Len(ds) - 1
        /\ \A n \in DOMAIN Tail(ds) : n + 1 \in DOMAIN ds /\ Tail(ds)[n] = ds[n + 1]
    BY <1>2, <2>1
  <2>3. ASSUME Distinct(ds), NEW i \in DOMAIN Tail(ds), NEW j \in DOMAIN Tail(ds),
               Tail(ds)[i].text = Tail(ds)[j].text
        PROVE  i = j
    <3>1. i + 1 = j + 1
      BY <2>2, <2>3 DEF Distinct
    <3>2. i \in Nat /\ j \in Nat
      BY <2>1, <2>2
    <3>3. QED
      BY <3>1, <3>2
  <2>4. QED
    BY <2>1, <2>2, <2>3 DEF Distinct
<1>3. QED
  BY <1>1, <1>2

LEMMA StartedFacts ==
  ASSUME NEW ts \in Seq(TurnRecords), NEW th, Snapshot(th, ts), NEW t \in 0 .. Len(ts)
  PROVE  LET new == OnStarted(th, t)
         IN  /\ Snapshot(new, ts) /\ new.drafts = DropFirst(th.drafts) /\ new.active = t
             /\ new.items = th.items /\ Derives(new.overlays, th.overlays)
<1> DEFINE bs == BindFirstPending(th.overlays, t)
           rs == RemoveDuplicates(bs, DOMAIN th.items)
           new == OnStarted(th, t)
<1>1. /\ new.overlays = rs /\ new.items = th.items /\ new.drafts = DropFirst(th.drafts) /\ new.active = t
      /\ new \in [items : {new.items}, overlays : {new.overlays}, drafts : {new.drafts}, active : {new.active}]
  BY DEF OnStarted, Snapshot
<1>2. th.overlays \in Seq(OverlaysOf(ts)) /\ th.drafts \in Seq(Drafts) /\ Len(ts) \in Nat
  BY DEF Snapshot
<1>3. bs \in Seq(OverlaysOf(ts)) /\ Derives(bs, th.overlays)
  BY <1>2, BindFirstFacts
<1> HIDE DEF bs
<1>4. rs \in Seq(OverlaysOf(ts)) /\ Derives(rs, th.overlays)
  BY <1>3, DerivesThrough
<1>5. DropFirst(th.drafts) \in Seq(Drafts)
  BY <1>2, DropFirstFacts
<1> HIDE DEF rs, new
<1>6. Snapshot(new, ts)
  BY <1>1, <1>4, <1>5 DEF Snapshot
<1>7. QED
  BY <1>1, <1>4, <1>6 DEF new

LEMMA UnsteeredFacts ==
  ASSUME NEW ds \in Seq(Drafts)
  PROVE  /\ Unsteered(ds) \in Seq(Drafts) /\ (Distinct(ds) => Distinct(Unsteered(ds)))
         /\ \A n \in DOMAIN Unsteered(ds) : \E j \in DOMAIN ds :
               Unsteered(ds)[n] = ds[j] /\ ds[j].kind # "PendingSteer"
<1> DEFINE I == {k \in DOMAIN ds : ds[k].kind # "PendingSteer"}
<1>1. I \in SUBSET DOMAIN ds /\ Unsteered(ds) = Retain(ds, I)
  BY DEF Unsteered
<1>2. \A k \in I : k \in DOMAIN ds /\ ds[k].kind # "PendingSteer"
  OBVIOUS
<1> HIDE DEF I
<1>3. Retain(ds, I) \in Seq(Drafts)
      /\ \A n \in DOMAIN Retain(ds, I) : Nth(I, n) \in I /\ Retain(ds, I)[n] = ds[Nth(I, n)]
  BY <1>1, RetainFacts
<1>4. Distinct(ds) => Distinct(Retain(ds, I))
  BY <1>1, RetainDistinct
<1>5. QED
  BY <1>1, <1>2, <1>3, <1>4

LEMMA CompletedFacts ==
  ASSUME NEW ts \in Seq(TurnRecords), NEW th, Snapshot(th, ts)
  PROVE  LET new == OnCompleted(th)
         IN  /\ Snapshot(new, ts) /\ new.drafts = Unsteered(th.drafts) /\ new.active = None
             /\ new.items = th.items /\ new.overlays = th.overlays
<1> DEFINE new == OnCompleted(th)
<1>1. /\ new.overlays = th.overlays /\ new.items = th.items /\ new.active = None
      /\ new.drafts = Unsteered(th.drafts)
      /\ new \in [items : {new.items}, overlays : {new.overlays}, drafts : {new.drafts}, active : {new.active}]
  BY DEF OnCompleted, Snapshot
<1>2. Unsteered(th.drafts) \in Seq(Drafts)
  BY UnsteeredFacts DEF Snapshot
<1>3. None \in 0 .. Len(ts)
  BY DEF None
<1> HIDE DEF new
<1>4. Snapshot(new, ts)
  BY <1>1, <1>2, <1>3 DEF Snapshot
<1>5. QED
  BY <1>1, <1>4 DEF new

\* Items that a bag does not have yet, each once.
LEMMA BagGrows ==
  ASSUME NEW b, b = SetToBag(DOMAIN b), NEW S, S \cap DOMAIN b = {}
  PROVE  /\ b (+) SetToBag(S) = SetToBag(DOMAIN b \cup S)
         /\ DOMAIN (b (+) SetToBag(S)) = DOMAIN b \cup S
<1>1. DOMAIN SetToBag(S) = S /\ \A e \in DOMAIN b : b[e] = 1
  BY DEF SetToBag
<1>2. b (+) SetToBag(S) = [e \in DOMAIN b \cup S |-> (IF e \in DOMAIN b THEN b[e] ELSE 0)
                                                  + (IF e \in S THEN SetToBag(S)[e] ELSE 0)]
  BY <1>1 DEF (+)
<1>3. \A e \in S : SetToBag(S)[e] = 1
  BY DEF SetToBag
<1>4. \A e \in DOMAIN b \cup S : (IF e \in DOMAIN b THEN b[e] ELSE 0)
                                 + (IF e \in S THEN SetToBag(S)[e] ELSE 0) = 1
  BY <1>1, <1>3
<1>5. b (+) SetToBag(S) = [e \in DOMAIN b \cup S |-> 1]
  BY <1>2, <1>4
<1>6. QED
  BY <1>5 DEF SetToBag

LEMMA BagOfSet == \A S : DOMAIN SetToBag(S) = S /\ SetToBag(S) = SetToBag(DOMAIN SetToBag(S))
BY DEF SetToBag

LEMMA ItemFacts ==
  ASSUME NEW ts \in Seq(TurnRecords), NEW th, Snapshot(th, ts), NEW item \in AllItems(ts)
  PROVE  LET new == OnItem(th, item)
         IN  /\ Snapshot(new, ts) /\ new.active = th.active
             /\ new.drafts = th.drafts \/ new.drafts = DropFirst(th.drafts)
             /\ DOMAIN new.items = DOMAIN th.items \cup {item} /\ Derives(new.overlays, th.overlays)
<1> DEFINE rs == RemoveDuplicates(th.overlays, {item})
           new == OnItem(th, item)
<1>1. /\ new.overlays = rs /\ new.active = th.active
      /\ new.items = IF item \in DOMAIN th.items THEN th.items ELSE th.items (+) SetToBag({item})
      /\ new.drafts = th.drafts \/ new.drafts = DropFirst(th.drafts)
      /\ new \in [items : {new.items}, overlays : {new.overlays}, drafts : {new.drafts}, active : {new.active}]
  BY DEF OnItem, Snapshot, BagIn, BagToSet
<1>2. th.overlays \in Seq(OverlaysOf(ts)) /\ th.drafts \in Seq(Drafts)
  BY DEF Snapshot
<1>3. rs \in Seq(OverlaysOf(ts)) /\ Derives(rs, th.overlays)
  BY <1>2, DerivesSelf, DerivesThrough
<1>4. DropFirst(th.drafts) \in Seq(Drafts)
  BY <1>2, DropFirstFacts
<1> HIDE DEF rs, new
<1>5. new.items = SetToBag(DOMAIN new.items) /\ DOMAIN new.items = DOMAIN th.items \cup {item}
  <2>1. th.items = SetToBag(DOMAIN th.items)
    BY DEF Snapshot
  <2>2. CASE item \in DOMAIN th.items
    BY <1>1, <2>1, <2>2
  <2>3. CASE item \notin DOMAIN th.items
    <3>1. {item} \cap DOMAIN th.items = {}
      BY <2>3
    <3>2. /\ th.items (+) SetToBag({item}) = SetToBag(DOMAIN th.items \cup {item})
          /\ DOMAIN (th.items (+) SetToBag({item})) = DOMAIN th.items \cup {item}
      BY <2>1, <3>1, BagGrows
    <3>3. QED
      BY <1>1, <2>3, <3>2
  <2>4. QED
    BY <2>2, <2>3
<1>6. Snapshot(new, ts)
  BY <1>1, <1>2, <1>3, <1>4, <1>5 DEF Snapshot
<1>7. QED
  BY <1>1, <1>3, <1>5, <1>6 DEF new

LEMMA UnstageFacts ==
  ASSUME NEW ts \in Seq(TurnRecords), NEW th, Snapshot(th, ts), NEW m
  PROVE  LET new == Unstage(th, m)
         IN  /\ Snapshot(new, ts) /\ new.drafts = th.drafts /\ new.active = th.active
             /\ new.items = th.items /\ Derives(new.overlays, th.overlays)
             /\ \A n \in DOMAIN new.overlays : \E j \in DOMAIN th.overlays :
                   new.overlays[n] = th.overlays[j] /\ th.overlays[j].text # m
<1> DEFINE os == th.overlays
           I == {k \in DOMAIN os : os[k].text # m}
           new == Unstage(th, m)
<1>1. /\ new.overlays = Retain(os, I) /\ new.items = th.items /\ new.drafts = th.drafts
      /\ new.active = th.active
      /\ new \in [items : {new.items}, overlays : {new.overlays}, drafts : {new.drafts}, active : {new.active}]
  BY DEF Unstage, Snapshot
<1>2. os \in Seq(OverlaysOf(ts)) /\ I \in SUBSET DOMAIN os /\ \A i \in I : os[i].text # m
  BY DEF Snapshot
<1> HIDE DEF I, new
<1>3. /\ Retain(os, I) \in Seq(OverlaysOf(ts)) /\ (Distinct(os) => Distinct(Retain(os, I)))
      /\ \A n \in DOMAIN Retain(os, I) : Nth(I, n) \in I /\ Retain(os, I)[n] = os[Nth(I, n)]
  BY <1>2, RetainFacts, RetainDistinct
<1>4. Snapshot(new, ts)
  BY <1>1, <1>3 DEF Snapshot
<1>5. ASSUME NEW n \in DOMAIN new.overlays
      PROVE  \E j \in DOMAIN os : new.overlays[n] = os[j] /\ os[j].text # m
  BY <1>1, <1>2, <1>3
<1>6. Derives(new.overlays, os)
  BY <1>1, <1>3, <1>5 DEF Derives, Derived
<1>7. QED
  BY <1>1, <1>4, <1>5, <1>6 DEF new

LEMMA StageFacts ==
  ASSUME NEW ts \in Seq(TurnRecords), NEW th, Snapshot(th, ts), NEW m \in Msgs
  PROVE  LET new == Stage(th, m)
         IN  /\ Snapshot(new, ts) /\ new.drafts = th.drafts /\ new.active = th.active
             /\ new.items = th.items
             /\ new.overlays = Append(th.overlays, [text |-> m, turn |-> None])
<1> DEFINE new == Stage(th, m)
<1>1. /\ new.overlays = Append(th.overlays, [text |-> m, turn |-> None])
      /\ new.items = th.items /\ new.drafts = th.drafts /\ new.active = th.active
      /\ new \in [items : {new.items}, overlays : {new.overlays}, drafts : {new.drafts}, active : {new.active}]
  BY DEF Stage, Snapshot
<1>2. th.overlays \in Seq(OverlaysOf(ts)) /\ [text |-> m, turn |-> None] \in OverlaysOf(ts)
  BY DEF Snapshot, OverlaysOf, None
<1>3. Append(th.overlays, [text |-> m, turn |-> None]) \in Seq(OverlaysOf(ts))
  BY <1>2
<1> HIDE DEF new
<1>4. Snapshot(new, ts)
  BY <1>1, <1>3 DEF Snapshot
<1>5. QED
  BY <1>1, <1>4 DEF new

\* Whatever writes the drafts alone: a new one, a steered one, the list without one.
LEMMA DraftsFacts ==
  ASSUME NEW ts \in Seq(TurnRecords), NEW th, Snapshot(th, ts), NEW ds \in Seq(Drafts)
  PROVE  LET new == [th EXCEPT !.drafts = ds]
         IN  /\ Snapshot(new, ts) /\ new.drafts = ds /\ new.active = th.active
             /\ new.items = th.items /\ new.overlays = th.overlays
BY DEF Snapshot

LEMMA ConcatFacts ==
  ASSUME NEW S, NEW s \in Seq(S), NEW t \in Seq(S)
  PROVE  /\ s \o t \in Seq(S)
         /\ \A i \in DOMAIN (s \o t) :
              \/ i \in DOMAIN s /\ (s \o t)[i] = s[i]
              \/ i - Len(s) \in DOMAIN t /\ i \notin DOMAIN s /\ (s \o t)[i] = t[i - Len(s)]
<1>1. Len(s) \in Nat /\ Len(t) \in Nat /\ DOMAIN s = 1 .. Len(s) /\ DOMAIN t = 1 .. Len(t)
      /\ DOMAIN (s \o t) = 1 .. Len(s) + Len(t)
  OBVIOUS
<1>2. ASSUME NEW i \in DOMAIN (s \o t)
      PROVE  \/ i \in DOMAIN s /\ (s \o t)[i] = s[i]
             \/ i - Len(s) \in DOMAIN t /\ i \notin DOMAIN s /\ (s \o t)[i] = t[i - Len(s)]
  <2>1. CASE i <= Len(s)
    BY <1>1, <2>1
  <2>2. CASE i > Len(s)
    BY <1>1, <2>2
  <2>3. QED
    BY <1>1, <2>1, <2>2
<1>3. QED
  BY <1>2

LEMMA UpsertFacts ==
  ASSUME NEW ts \in Seq(TurnRecords), NEW old, Snapshot(old, ts), NEW new, Snapshot(new, ts)
  PROVE  LET th == Upsert(old, new)
         IN  /\ Snapshot(th, ts) /\ th.active = new.active
             /\ Distinct(old.overlays) /\ Distinct(new.overlays) => Distinct(th.overlays)
             /\ \A n \in DOMAIN th.overlays :
                  \/ \E j \in DOMAIN new.overlays : th.overlays[n] = new.overlays[j]
                  \/ \E j \in DOMAIN old.overlays :
                       /\ th.overlays[n].text = old.overlays[j].text
                       /\ (th.overlays[n].turn = old.overlays[j].turn \/ old.overlays[j].turn = None)
<1> DEFINE os == old.overlays
           bs == [i \in DOMAIN os |-> IF os[i].turn = None THEN [os[i] EXCEPT !.turn = new.active] ELSE os[i]]
           N  == DOMAIN new.items \cup Range(new.overlays)
           ks == RemoveDuplicates(bs, N)
           th == Upsert(old, new)
<1>1. /\ th.overlays = new.overlays \o ks /\ th.active = new.active
      /\ th.items = IF new.items = EmptyBag THEN old.items ELSE new.items
      /\ th.drafts = IF new.drafts = <<>> THEN old.drafts ELSE new.drafts
      /\ th \in [items : {th.items}, overlays : {th.overlays}, drafts : {th.drafts}, active : {th.active}]
  BY DEF Upsert, Snapshot
<1>2. /\ os \in Seq(OverlaysOf(ts)) /\ Len(os) \in Nat /\ DOMAIN os = 1 .. Len(os)
      /\ \A i \in DOMAIN os : os[i] \in OverlaysOf(ts)
      /\ new.overlays \in Seq(OverlaysOf(ts)) /\ new.active \in 0 .. Len(ts)
  BY DEF Snapshot
<1>3. bs \in Seq(OverlaysOf(ts)) /\ Derives(bs, os)
  <2>1. \A i \in 1 .. Len(os) :
          (IF os[i].turn = None THEN [os[i] EXCEPT !.turn = new.active] ELSE os[i]) \in OverlaysOf(ts)
    BY <1>2 DEF OverlaysOf
  <2>2. bs \in [1 .. Len(os) -> OverlaysOf(ts)]
    BY <1>2, <2>1
  <2>3. DOMAIN bs = DOMAIN os
        /\ \A i \in DOMAIN os : bs[i].text = os[i].text /\ (bs[i].turn = os[i].turn \/ os[i].turn = None)
    BY <1>2 DEF OverlaysOf
  <2> HIDE DEF bs
  <2>4. Derives(bs, os)
    BY <2>3 DEF Derives, Derived, Distinct
  <2>5. QED
    BY <1>2, <2>2, <2>4
<1> HIDE DEF bs, N
<1>4. /\ ks \in Seq(OverlaysOf(ts)) /\ (Distinct(bs) => Distinct(ks))
      /\ \A n \in DOMAIN ks : \E j \in DOMAIN bs :
            ks[n] = bs[j] /\ \A i \in N : bs[j].text # i.text
  BY <1>3, RemoveFacts
<1> HIDE DEF ks
<1>5. /\ th.overlays \in Seq(OverlaysOf(ts))
      /\ \A i \in DOMAIN th.overlays :
           \/ i \in DOMAIN new.overlays /\ th.overlays[i] = new.overlays[i]
           \/ /\ i - Len(new.overlays) \in DOMAIN ks /\ i \notin DOMAIN new.overlays
              /\ th.overlays[i] = ks[i - Len(new.overlays)]
  BY <1>1, <1>2, <1>4, ConcatFacts
<1> HIDE DEF th
<1>6. ASSUME NEW n \in DOMAIN ks
      PROVE  /\ \A j \in DOMAIN new.overlays : ks[n].text # new.overlays[j].text
             /\ \E j \in DOMAIN os : ks[n].text = os[j].text /\ (ks[n].turn = os[j].turn \/ os[j].turn = None)
  <2>1. PICK j \in DOMAIN bs : ks[n] = bs[j] /\ \A i \in N : bs[j].text # i.text
    BY <1>4
  <2>2. \A k \in DOMAIN new.overlays : new.overlays[k] \in N
    BY DEF Range, N
  <2>3. QED
    BY <1>3, <2>1, <2>2 DEF Derives, Derived
<1>7. Snapshot(th, ts)
  BY <1>1, <1>2, <1>5 DEF Snapshot
<1>8. ASSUME Distinct(os), Distinct(new.overlays) PROVE Distinct(th.overlays)
  <2>1. Distinct(ks)
    BY <1>3, <1>4, <1>8 DEF Derives
  <2> SUFFICES ASSUME NEW i \in DOMAIN th.overlays, NEW j \in DOMAIN th.overlays,
                      th.overlays[i].text = th.overlays[j].text
               PROVE  i = j
    BY DEF Distinct
  <2>2. CASE i \in DOMAIN new.overlays /\ j \in DOMAIN new.overlays
    BY <1>5, <1>8, <2>2 DEF Distinct
  <2>3. CASE i \notin DOMAIN new.overlays /\ j \notin DOMAIN new.overlays
    <3>1. i - Len(new.overlays) = j - Len(new.overlays)
      BY <1>5, <1>8, <2>1, <2>3 DEF Distinct
    <3>2. i \in Int /\ j \in Int /\ Len(new.overlays) \in Int
      BY <1>2, <1>5
    <3>3. QED
      BY <3>1, <3>2
  <2>4. CASE i \in DOMAIN new.overlays /\ j \notin DOMAIN new.overlays
    BY <1>5, <1>6, <1>8, <2>4
  <2>5. CASE i \notin DOMAIN new.overlays /\ j \in DOMAIN new.overlays
    BY <1>5, <1>6, <1>8, <2>5
  <2>6. QED
    BY <2>2, <2>3, <2>4, <2>5
<1>9. ASSUME NEW n \in DOMAIN th.overlays
      PROVE  \/ \E j \in DOMAIN new.overlays : th.overlays[n] = new.overlays[j]
             \/ \E j \in DOMAIN os : /\ th.overlays[n].text = os[j].text
                                    /\ (th.overlays[n].turn = os[j].turn \/ os[j].turn = None)
  <2>1. CASE n \in DOMAIN new.overlays /\ th.overlays[n] = new.overlays[n]
    BY <2>1
  <2>2. CASE n - Len(new.overlays) \in DOMAIN ks /\ th.overlays[n] = ks[n - Len(new.overlays)]
    BY <1>6, <2>2
  <2>3. QED
    BY <1>5, <2>1, <2>2
<1>10. QED
  BY <1>1, <1>7, <1>8, <1>9 DEF th

LEMMA PageFacts ==
  ASSUME NEW ts, NEW list, NEW th, Snapshot(th, ts), AllItems(list) \subseteq AllItems(ts)
  PROVE  LET new == MergePage(th, list)
         IN  /\ Snapshot(new, ts) /\ new.overlays = th.overlays /\ new.active = th.active
             /\ new.drafts = th.drafts
<1> DEFINE F == {i \in AllItems(list) : i.turn \notin {j.turn : j \in DOMAIN th.items}}
           new == MergePage(th, list)
<1>1. /\ new.overlays = th.overlays /\ new.items = th.items (+) SetToBag(F) /\ new.drafts = th.drafts
      /\ new.active = th.active
      /\ new \in [items : {new.items}, overlays : {new.overlays}, drafts : {new.drafts}, active : {new.active}]
  BY DEF MergePage, Snapshot
<1>2. F \cap DOMAIN th.items = {} /\ F \subseteq AllItems(ts)
  OBVIOUS
<1> HIDE DEF F, new
<1>3. new.items = SetToBag(DOMAIN th.items \cup F) /\ DOMAIN new.items = DOMAIN th.items \cup F
  BY <1>1, <1>2, BagGrows DEF Snapshot
<1>4. Snapshot(new, ts)
  BY <1>1, <1>2, <1>3 DEF Snapshot
<1>5. QED
  BY <1>1, <1>4 DEF new

-----------------------------------------------------------------------------
(* The server: its turns only grow.                                        *)

Extends(us, ts) ==
  /\ Len(ts) <= Len(us)
  /\ \A t \in DOMAIN ts :
       /\ DOMAIN ts[t].users \subseteq DOMAIN us[t].users
       /\ \A n \in DOMAIN ts[t].users : us[t].users[n] = ts[t].users[n]
       /\ ts[t].done => us[t].done
Grows == turns' \in Seq(TurnRecords) /\ Extends(turns', turns)

LEMMA SeqOfTurns ==
  ASSUME NEW ts \in Seq(TurnRecords)
  PROVE  /\ Len(ts) \in Nat /\ DOMAIN ts = 1 .. Len(ts)
         /\ \A t \in DOMAIN ts : /\ ts[t].users \in Seq(Texts) /\ ts[t].done \in BOOLEAN
                                 /\ Len(ts[t].users) \in Nat
                                 /\ DOMAIN ts[t].users = 1 .. Len(ts[t].users)
<1>1. Len(ts) \in Nat /\ DOMAIN ts = 1 .. Len(ts) /\ \A t \in DOMAIN ts : ts[t] \in TurnRecords
  OBVIOUS
<1>2. \A t \in DOMAIN ts : ts[t].users \in Seq(Texts) /\ ts[t].done \in BOOLEAN
  BY <1>1 DEF TurnRecords
<1>3. QED
  BY <1>1, <1>2

LEMMA ItemsGrow ==
  ASSUME NEW ts \in Seq(TurnRecords), NEW us \in Seq(TurnRecords), Extends(us, ts)
  PROVE  AllItems(ts) \subseteq AllItems(us)
<1>1. DOMAIN ts \subseteq DOMAIN us
  BY SeqOfTurns DEF Extends
<1>2. ASSUME NEW t \in DOMAIN ts PROVE ItemsOf(t, ts) \subseteq ItemsOf(t, us)
  BY DEF ItemsOf, Extends
<1>3. QED
  BY <1>1, <1>2 DEF AllItems

LEMMA SnapshotGrows ==
  ASSUME NEW ts \in Seq(TurnRecords), NEW us \in Seq(TurnRecords), Extends(us, ts), NEW th,
         Snapshot(th, ts)
  PROVE  Snapshot(th, us)
<1>1. 0 .. Len(ts) \subseteq 0 .. Len(us)
  BY SeqOfTurns DEF Extends
<1>2. OverlaysOf(ts) \subseteq OverlaysOf(us)
  BY <1>1 DEF OverlaysOf
<1>3. AllItems(ts) \subseteq AllItems(us)
  BY ItemsGrow
<1>4. th.overlays \in Seq(OverlaysOf(us)) /\ th.active \in 0 .. Len(us)
  BY <1>1, <1>2 DEF Snapshot
<1>5. QED
  BY <1>3, <1>4 DEF Snapshot

LEMMA EventsGrow ==
  ASSUME NEW ts \in Seq(TurnRecords), NEW us \in Seq(TurnRecords), Extends(us, ts)
  PROVE  EventsOf(ts) \subseteq EventsOf(us)
<1>1. 1 .. Len(ts) \subseteq 1 .. Len(us)
  BY SeqOfTurns DEF Extends
<1>2. AllItems(ts) \subseteq AllItems(us)
  BY ItemsGrow
<1>3. QED
  BY <1>1, <1>2 DEF EventsOf

LEMMA ExtendsSelf == \A ts \in Seq(TurnRecords) : Extends(ts, ts)
BY SeqOfTurns DEF Extends

LEMMA RunningFacts ==
  ASSUME Types
  PROVE  /\ Running \in 0 .. Len(turns)
         /\ Running # None => /\ Running = Len(turns) /\ Running \in DOMAIN turns
                              /\ ~turns[Running].done
         /\ Running = None /\ Len(turns) # 0 => turns[Len(turns)].done
<1>1. Len(turns) \in Nat /\ DOMAIN turns = 1 .. Len(turns) /\ (turns = <<>> <=> Len(turns) = 0)
  BY DEF Types, ServerType
<1>2. Last(turns) = turns[Len(turns)]
  BY DEF Last
<1>3. CASE turns = <<>> \/ Last(turns).done
  <2>1. Running = None
    BY <1>3 DEF Running
  <2>2. QED
    BY <1>1, <1>2, <1>3, <2>1 DEF None
<1>4. CASE ~(turns = <<>> \/ Last(turns).done)
  <2>1. Running = Len(turns)
    BY <1>4 DEF Running
  <2>2. QED
    BY <1>1, <1>2, <1>4, <2>1 DEF None
<1>5. QED
  BY <1>3, <1>4

LEMMA EmitFacts ==
  ASSUME NEW S, NEW es \in Seq(S), Emit(es), events \in Seq(S)
  PROVE  /\ events' \in Seq(S)
         /\ ~(link /\ subscribed) => events' = events
         /\ link /\ subscribed => events' = events \o es
BY DEF Emit

LEMMA OpenFacts ==
  ASSUME Types, NEW x \in Texts, Open(x)
  PROVE  /\ Grows /\ events' \in Seq(EventsOf(turns')) /\ (~(link /\ subscribed) => events' = events)
         /\ Running = None /\ Len(turns') = Len(turns) + 1
         /\ \A t \in DOMAIN turns : turns'[t] = turns[t]
         /\ turns'[Len(turns')] = [users |-> <<x>>, done |-> FALSE]
<1> DEFINE n == Len(turns)
           r == [users |-> <<x>>, done |-> FALSE]
           i == Item(n + 1, 1, x)
<1>1. turns \in Seq(TurnRecords) /\ n \in Nat /\ DOMAIN turns = 1 .. n /\ r \in TurnRecords
  BY DEF Types, ServerType, TurnRecords
<1>2. turns' = Append(turns, r) /\ Running = None /\ Emit(<<Started(n + 1)>> \o Echo(i))
  BY DEF Open
<1> HIDE DEF r
<1>3. /\ turns' \in Seq(TurnRecords) /\ Len(turns') = n + 1 /\ turns'[n + 1] = r
      /\ DOMAIN turns' = 1 .. n + 1 /\ \A t \in DOMAIN turns : turns'[t] = turns[t]
  BY <1>1, <1>2
<1>4. Extends(turns', turns)
  BY <1>1, <1>3 DEF Extends
<1>5. i \in AllItems(turns')
  <2>1. i \in ItemsOf(n + 1, turns')
    BY <1>3 DEF ItemsOf, r
  <2>2. n + 1 \in DOMAIN turns'
    BY <1>1, <1>3
  <2>3. QED
    BY <2>1, <2>2 DEF AllItems
<1>6. <<Started(n + 1)>> \o Echo(i) \in Seq(EventsOf(turns'))
  <2>1. Started(n + 1) \in EventsOf(turns')
    BY <1>1, <1>3 DEF Started, EventsOf
  <2>2. ItemEvent(i) \in EventsOf(turns')
    BY <1>5 DEF ItemEvent, EventsOf
  <2>3. QED
    BY <2>1, <2>2 DEF Echo
<1>7. events \in Seq(EventsOf(turns'))
  <2>1. EventsOf(turns) \subseteq EventsOf(turns')
    BY <1>1, <1>3, <1>4, EventsGrow
  <2>2. QED
    BY <2>1 DEF Types, ServerType
<1>8. events' \in Seq(EventsOf(turns')) /\ (~(link /\ subscribed) => events' = events)
  BY <1>2, <1>6, <1>7, EmitFacts
<1>9. QED
  BY <1>2, <1>3, <1>4, <1>8 DEF Grows, r

LEMMA InjectFacts ==
  ASSUME Types, NEW x \in Texts, Inject(x)
  PROVE  /\ Grows /\ events' \in Seq(EventsOf(turns')) /\ (~(link /\ subscribed) => events' = events)
         /\ Running # None /\ Len(turns') = Len(turns)
         /\ \A t \in DOMAIN turns : t # Running => turns'[t] = turns[t]
         /\ turns'[Running] = [users |-> Append(turns[Running].users, x), done |-> FALSE]
<1> DEFINE n == Running
           l == Len(turns[n].users)
           i == Item(n, l + 1, x)
<1>1. /\ turns \in Seq(TurnRecords) /\ Len(turns) \in Nat /\ DOMAIN turns = 1 .. Len(turns)
      /\ \A t \in DOMAIN turns : turns[t] \in TurnRecords
  BY DEF Types, ServerType
<1>2. Running # None /\ Emit(Echo(i)) /\ turns' = [turns EXCEPT ![n].users = Append(@, x)]
  BY DEF Inject
<1>3. n \in DOMAIN turns /\ ~turns[n].done
  BY <1>2, RunningFacts
<1> HIDE DEF n
<1>4. turns[n].users \in Seq(Texts) /\ l \in Nat /\ turns[n].done \in BOOLEAN
  BY <1>1, <1>3 DEF TurnRecords
<1>5. /\ Len(turns') = Len(turns) /\ DOMAIN turns' = DOMAIN turns
      /\ turns' \in Seq(TurnRecords)
      /\ turns'[n] = [turns[n] EXCEPT !.users = Append(turns[n].users, x)]
      /\ \A t \in DOMAIN turns : t # n => turns'[t] = turns[t]
  <2>1. [turns[n] EXCEPT !.users = Append(turns[n].users, x)] \in TurnRecords
    <3>1. Append(turns[n].users, x) \in Seq(Texts) /\ turns[n] \in TurnRecords
      BY <1>1, <1>3, <1>4
    <3>2. QED
      BY <3>1 DEF TurnRecords
  <2>2. QED
    BY <1>1, <1>2, <1>3, <2>1
<1>6. turns'[n] = [users |-> Append(turns[n].users, x), done |-> FALSE]
  BY <1>1, <1>3, <1>4, <1>5 DEF TurnRecords
<1>7. /\ DOMAIN Append(turns[n].users, x) = 1 .. l + 1 /\ DOMAIN turns[n].users = 1 .. l
      /\ Append(turns[n].users, x)[l + 1] = x
      /\ \A k \in DOMAIN turns[n].users : Append(turns[n].users, x)[k] = turns[n].users[k]
  BY <1>4
<1>8. Extends(turns', turns)
  <2>1. ASSUME NEW t \in DOMAIN turns
        PROVE  /\ DOMAIN turns[t].users \subseteq DOMAIN turns'[t].users
               /\ \A k \in DOMAIN turns[t].users : turns'[t].users[k] = turns[t].users[k]
               /\ turns[t].done => turns'[t].done
    <3>1. CASE t = n
      BY <1>3, <1>4, <1>6, <1>7, <3>1
    <3>2. CASE t # n
      BY <1>5, <3>2
    <3>3. QED
      BY <3>1, <3>2
  <2>2. QED
    BY <1>1, <1>5, <2>1 DEF Extends
<1>9. i \in AllItems(turns')
  <2>1. i \in ItemsOf(n, turns')
    BY <1>4, <1>6, <1>7 DEF ItemsOf
  <2>2. QED
    BY <1>3, <1>5, <2>1 DEF AllItems
<1>10. Echo(i) \in Seq(EventsOf(turns'))
  <2>1. ItemEvent(i) \in EventsOf(turns')
    BY <1>9 DEF ItemEvent, EventsOf
  <2>2. QED
    BY <2>1 DEF Echo
<1>11. events \in Seq(EventsOf(turns'))
  <2>1. EventsOf(turns) \subseteq EventsOf(turns')
    BY <1>1, <1>5, <1>8, EventsGrow
  <2>2. QED
    BY <2>1 DEF Types, ServerType
<1>12. events' \in Seq(EventsOf(turns')) /\ (~(link /\ subscribed) => events' = events)
  BY <1>2, <1>10, <1>11, EmitFacts
<1>13. QED
  BY <1>2, <1>5, <1>6, <1>8, <1>12 DEF Grows, n

LEMMA FinishFacts ==
  ASSUME Types, Finish
  PROVE  /\ Grows /\ events' \in Seq(EventsOf(turns')) /\ (~(link /\ subscribed) => events' = events)
         /\ Running # None /\ Len(turns') = Len(turns)
         /\ \A t \in DOMAIN turns : turns'[t].users = turns[t].users /\ (t # Running => turns'[t] = turns[t])
         /\ turns'[Running].done
<1> DEFINE n == Running
           es == <<ItemEvent(ReplyOf(n)), Completed(n)>>
<1>1. /\ turns \in Seq(TurnRecords) /\ Len(turns) \in Nat /\ DOMAIN turns = 1 .. Len(turns)
      /\ \A t \in DOMAIN turns : turns[t] \in TurnRecords
  BY DEF Types, ServerType
<1>2. Running # None /\ Emit(es) /\ turns' = [turns EXCEPT ![n].done = TRUE]
  BY DEF Finish
<1>3. n \in DOMAIN turns /\ ~turns[n].done
  BY <1>2, RunningFacts
<1> HIDE DEF n
<1>4. /\ Len(turns') = Len(turns) /\ DOMAIN turns' = DOMAIN turns
      /\ turns' \in Seq(TurnRecords)
      /\ turns'[n] = [turns[n] EXCEPT !.done = TRUE]
      /\ \A t \in DOMAIN turns : t # n => turns'[t] = turns[t]
  <2>1. [turns[n] EXCEPT !.done = TRUE] \in TurnRecords
    BY <1>1, <1>3 DEF TurnRecords
  <2>2. QED
    BY <1>1, <1>2, <1>3, <2>1
<1>5. turns'[n].done /\ turns'[n].users = turns[n].users
  BY <1>1, <1>3, <1>4 DEF TurnRecords
<1>6. \A t \in DOMAIN turns : turns'[t].users = turns[t].users /\ (turns[t].done => turns'[t].done)
  BY <1>4, <1>5
<1>7. Extends(turns', turns)
  BY <1>1, <1>4, <1>6 DEF Extends
<1>8. ReplyOf(n) \in AllItems(turns')
  <2>1. ReplyOf(n) \in ItemsOf(n, turns')
    BY <1>5 DEF ItemsOf
  <2>2. QED
    BY <1>3, <1>4, <2>1 DEF AllItems
<1>9. es \in Seq(EventsOf(turns'))
  <2>1. ItemEvent(ReplyOf(n)) \in EventsOf(turns')
    BY <1>8 DEF ItemEvent, EventsOf
  <2>2. Completed(n) \in EventsOf(turns')
    BY <1>1, <1>3, <1>4 DEF Completed, EventsOf
  <2>3. QED
    BY <2>1, <2>2
<1>10. events \in Seq(EventsOf(turns'))
  <2>1. EventsOf(turns) \subseteq EventsOf(turns')
    BY <1>1, <1>4, <1>7, EventsGrow
  <2>2. QED
    BY <2>1 DEF Types, ServerType
<1> HIDE DEF es
<1>11. events' \in Seq(EventsOf(turns')) /\ (~(link /\ subscribed) => events' = events)
  BY <1>2, <1>9, <1>10, EmitFacts
<1>12. QED
  BY <1>2, <1>4, <1>5, <1>6, <1>7, <1>11 DEF Grows, n

-----------------------------------------------------------------------------
(* Type correctness.                                                       *)

LEMMA GrowsSame == ASSUME Types, UNCHANGED turns PROVE Grows
BY ExtendsSelf DEF Grows, Types, ServerType

\* What stays while the server's turns grow.
LEMMA KeptThread == ASSUME Types, Grows, UNCHANGED thread PROVE ThreadType'
BY SnapshotGrows DEF Types, ServerType, ThreadType, Grows

LEMMA TurnsGrow == ASSUME Types, Grows PROVE Turns \subseteq Turns'
<1>1. Len(turns) \in Nat /\ Len(turns') \in Nat /\ Len(turns) <= Len(turns')
  BY DEF Types, ServerType, Grows, Extends
<1>2. QED
  BY <1>1 DEF Turns

LEMMA KeptOp == ASSUME Types, Grows, UNCHANGED op PROVE OpType'
<1>1. Turns \subseteq Turns'
  BY TurnsGrow
<1>2. QED
  BY <1>1 DEF Types, OpType

LEMMA KeptTap == ASSUME Types, Grows, UNCHANGED tap PROVE TapType'
<1>1. Turns \subseteq Turns'
  BY TurnsGrow
<1>2. QED
  BY <1>1 DEF Types, TapType

LEMMA KeptListener == ASSUME Types, UNCHANGED listener PROVE ListenerType'
BY DEF Types, ListenerType

LEMMA KeptRefresh == ASSUME Types, Grows, UNCHANGED refresh PROVE RefreshType'
<1>1. /\ turns \in Seq(TurnRecords) /\ turns' \in Seq(TurnRecords) /\ Extends(turns', turns)
      /\ Len(turns) \in Nat /\ Len(turns') \in Nat /\ Len(turns) <= Len(turns')
  BY DEF Types, ServerType, Grows, Extends
<1>2. refresh.turns \in Seq(TurnRecords) /\ Len(refresh.turns) \in Nat
  BY DEF Types, RefreshType
<1>3. AllItems(turns) \subseteq AllItems(turns')
  BY <1>1, ItemsGrow
<1>4. Snapshot(refresh.read, turns')
  BY <1>1, SnapshotGrows DEF Types, RefreshType
<1>5. Len(refresh.turns) <= Len(turns')
  BY <1>1, <1>2 DEF Types, RefreshType
<1>6. QED
  BY <1>3, <1>4, <1>5 DEF Types, RefreshType

LEMMA KeptServer == ASSUME Types, UNCHANGED <<turns, events>> PROVE ServerType'
BY DEF Types, ServerType

LEMMA KeptLink == ASSUME Types, UNCHANGED <<paginated, overtaken, faults, link, subscribed, events>> PROVE LinkType'
BY DEF Types, LinkType

\* One write of the thread.
LEMMA UpdateTypes ==
  ASSUME Types, NEW new, Snapshot(new, turns), Update(new),
         UNCHANGED <<turns, paginated, faults, link, subscribed>>,
         events' = events \/ (link /\ events' \in Seq(EventsOf(turns)))
  PROVE  ThreadType' /\ LinkType' /\ ServerType'
<1>1. thread' = new /\ overtaken' \in BOOLEAN
  BY DEF Update, Types, LinkType
<1>2. ThreadType'
  BY <1>1 DEF ThreadType
<1>3. LinkType'
  BY <1>1 DEF Types, LinkType
<1>4. QED
  BY <1>2, <1>3 DEF Types, ServerType

LEMMA OpSet ==
  ASSUME Types, Grows, NEW m \in Msgs, NEW r \in [pc : OpStates, saw : Turns', turn : Turns'],
         r.turn # None => r.pc \in {"answered", "asked", "failed", "error"}, op' = [op EXCEPT ![m] = r]
  PROVE  OpType'
<1>1. op \in [Msgs -> [pc : OpStates, saw : Turns', turn : Turns']]
  BY TurnsGrow DEF Types, OpType
<1>2. op' \in [Msgs -> [pc : OpStates, saw : Turns', turn : Turns']]
  BY <1>1
<1>3. \A n \in Msgs : op'[n] = IF n = m THEN r ELSE op[n]
  BY <1>1
<1>4. \A n \in Msgs : op'[n].turn # None => op'[n].pc \in {"answered", "asked", "failed", "error"}
  BY <1>3 DEF Types, OpType
<1>5. QED
  BY <1>2, <1>4 DEF OpType

LEMMA TapSet ==
  ASSUME Types, Grows, NEW k \in Taps,
         NEW r \in [pc : TapStates, msg : Texts, saw : Turns', list : Seq(Drafts)],
         tap' = [tap EXCEPT ![k] = r]
  PROVE  TapType'
<1>1. tap \in [Taps -> [pc : TapStates, msg : Texts, saw : Turns', list : Seq(Drafts)]]
  BY TurnsGrow DEF Types, TapType
<1>2. QED
  BY <1>1 DEF TapType

LEMMA BlankTyped == ASSUME NEW ts \in Seq(TurnRecords) PROVE Snapshot(Blank, ts)
<1>1. EmptyBag = SetToBag(DOMAIN EmptyBag) /\ DOMAIN EmptyBag = {}
  BY DEF EmptyBag, SetToBag
<1>2. Len(ts) \in Nat /\ 0 \in 0 .. Len(ts)
  OBVIOUS
<1>3. QED
  BY <1>1, <1>2 DEF Snapshot, Blank, None

LEMMA InitTypes == ASSUME Init PROVE Types
<1>1. turns = <<>> /\ turns \in Seq(TurnRecords) /\ Len(turns) = 0 /\ Turns = {0} /\ events = <<>>
  BY DEF Init, Turns
<1>2. Snapshot(Blank, turns)
  BY <1>1, BlankTyped
<1>3. ServerType /\ ThreadType
  BY <1>1, <1>2 DEF ServerType, ThreadType, Init
<1>4. LinkType
  <2>1. 0 \in 0 .. MaxFaults
    BY ThreadStoreAssumption
  <2>2. QED
    BY <2>1 DEF Init, LinkType
<1>5. OpType
  BY <1>1 DEF Init, OpType, OpStates, None
<1>6. TapType
  BY <1>1 DEF Init, TapType, TapStates, Untapped, None, Texts
<1>7. ListenerType
  BY DEF Init, ListenerType, Texts
<1>8. RefreshType
  BY <1>1, <1>2 DEF Init, RefreshType, Idle, RefreshStates, AllItems
<1>9. QED
  BY <1>3, <1>4, <1>5, <1>6, <1>7, <1>8 DEF Types

\* What an action of start_turn keeps.
LEMMA OpRest ==
  ASSUME Types, UNCHANGED <<tap, listener, refresh, paginated, serverVars, link, faults>>
  PROVE  Grows /\ TapType' /\ ListenerType' /\ RefreshType'
BY GrowsSame, KeptTap, KeptListener, KeptRefresh DEF serverVars

LEMMA OpFacts ==
  ASSUME Types, NEW m \in Msgs
  PROVE  /\ op[m] \in [pc : OpStates, saw : Turns, turn : Turns]
         /\ op[m].turn # None => op[m].pc \in {"answered", "asked", "failed", "error"}
         /\ thread.active \in Turns /\ None \in Turns
BY DEF Types, OpType, ThreadType, Snapshot, Turns, None, ServerType

LEMMA OpTypes ==
  ASSUME Types, NEW m \in Msgs,
         Submit(m) \/ StageAndAsk(m) \/ EnqueueDraft(m) \/ SteerDirectly(m) \/ BindOverlay(m) \/ TurnFails(m)
  PROVE  Types'
<1>1. UNCHANGED <<tap, listener, refresh, paginated, serverVars, link, faults>>
  BY DEF Submit, StageAndAsk, EnqueueDraft, SteerDirectly, BindOverlay, TurnFails
<1>2. Grows /\ TapType' /\ ListenerType' /\ RefreshType' /\ Turns' = Turns
  BY <1>1, OpRest DEF Turns, serverVars
<1>3. /\ op[m] \in [pc : OpStates, saw : Turns, turn : Turns]
      /\ op[m].turn # None => op[m].pc \in {"answered", "asked", "failed", "error"}
      /\ thread.active \in Turns /\ None \in Turns /\ turns \in Seq(TurnRecords) /\ Snapshot(thread, turns)
  BY OpFacts DEF Types, ServerType, ThreadType
<1>4. OpType'
  <2>1. CASE Submit(m)
    <3> DEFINE r == [op[m] EXCEPT !.pc = "deciding", !.saw = thread.active]
    <3>1. op' = [op EXCEPT ![m] = r] /\ op[m].turn = None
      BY <1>3, <2>1 DEF Submit
    <3>2. r \in [pc : OpStates, saw : Turns', turn : Turns'] /\ r.turn = None
      BY <1>2, <1>3, <3>1 DEF OpStates
    <3> HIDE DEF r
    <3>3. QED
      BY <1>2, <3>1, <3>2, OpSet
  <2>2. CASE StageAndAsk(m)
    <3> DEFINE r == [op[m] EXCEPT !.pc = "asked"]
    <3>1. op' = [op EXCEPT ![m] = r]
      BY <2>2 DEF StageAndAsk
    <3>2. r \in [pc : OpStates, saw : Turns', turn : Turns'] /\ r.pc = "asked"
      BY <1>2, <1>3 DEF OpStates
    <3> HIDE DEF r
    <3>3. QED
      BY <1>2, <3>1, <3>2, OpSet
  <2>3. CASE EnqueueDraft(m)
    <3>1. Ended("queued") \in [pc : OpStates, saw : Turns', turn : Turns'] /\ Ended("queued").turn = None
      BY <1>2, <1>3 DEF OpStates, Ended
    <3>2. op' = [op EXCEPT ![m] = Ended("queued")]
      BY <2>3 DEF EnqueueDraft
    <3>3. QED
      BY <1>2, <3>1, <3>2, OpSet
  <2>4. CASE SteerDirectly(m)
    <3> DEFINE r == [op[m] EXCEPT !.pc = "steering"]
    <3>1. op' = [op EXCEPT ![m] = r] /\ op[m].turn = None
      BY <1>3, <2>4 DEF SteerDirectly
    <3>2. r \in [pc : OpStates, saw : Turns', turn : Turns'] /\ r.turn = None
      BY <1>2, <1>3, <3>1 DEF OpStates
    <3> HIDE DEF r
    <3>3. QED
      BY <1>2, <3>1, <3>2, OpSet
  <2>5. CASE BindOverlay(m)
    <3>1. Ended("done") \in [pc : OpStates, saw : Turns', turn : Turns'] /\ Ended("done").turn = None
      BY <1>2, <1>3 DEF OpStates, Ended
    <3>2. op' = [op EXCEPT ![m] = Ended("done")]
      BY <2>5 DEF BindOverlay
    <3>3. QED
      BY <1>2, <3>1, <3>2, OpSet
  <2>6. CASE TurnFails(m)
    <3> DEFINE r == [op[m] EXCEPT !.pc = "error"]
    <3>1. op' = [op EXCEPT ![m] = r]
      BY <2>6 DEF TurnFails
    <3>2. r \in [pc : OpStates, saw : Turns', turn : Turns'] /\ r.pc = "error"
      BY <1>2, <1>3 DEF OpStates
    <3> HIDE DEF r
    <3>3. QED
      BY <1>2, <3>1, <3>2, OpSet
  <2>7. QED
    BY <2>1, <2>2, <2>3, <2>4, <2>5, <2>6
<1>5. ThreadType' /\ LinkType' /\ ServerType'
  <2>1. CASE Submit(m) \/ SteerDirectly(m)
    <3>1. UNCHANGED <<thread, overtaken>>
      BY <2>1 DEF Submit, SteerDirectly
    <3>2. QED
      BY <1>1, <1>2, <3>1, KeptThread, KeptLink, KeptServer DEF serverVars
  <2>2. CASE StageAndAsk(m)
    <3>1. Snapshot(Stage(thread, m), turns)
      BY <1>3, StageFacts
    <3>2. Update(Stage(thread, m))
      BY <2>2 DEF StageAndAsk
    <3>3. QED
      BY <1>1, <3>1, <3>2, UpdateTypes DEF serverVars
  <2>3. CASE EnqueueDraft(m)
    <3>1. Snapshot(Enqueue(thread, m), turns)
      <4>1. thread.drafts \in Seq(Drafts) /\ [text |-> m, kind |-> "Message"] \in Drafts
        BY <1>3 DEF Snapshot, Drafts
      <4>2. Append(thread.drafts, [text |-> m, kind |-> "Message"]) \in Seq(Drafts)
        BY <4>1
      <4>3. QED
        BY <1>3, <4>2, DraftsFacts DEF Enqueue
    <3>2. Update(Enqueue(thread, m))
      BY <2>3 DEF EnqueueDraft
    <3>3. QED
      BY <1>1, <3>1, <3>2, UpdateTypes DEF serverVars
  <2>4. CASE BindOverlay(m)
    <3>1. Snapshot(Bind(thread, m, op[m].turn), turns)
      BY <1>3, BindFacts DEF Turns
    <3>2. Update(Bind(thread, m, op[m].turn))
      BY <2>4 DEF BindOverlay
    <3>3. QED
      BY <1>1, <3>1, <3>2, UpdateTypes DEF serverVars
  <2>5. CASE TurnFails(m)
    <3>1. Snapshot(Unstage(thread, m), turns)
      BY <1>3, UnstageFacts
    <3>2. Update(Unstage(thread, m))
      BY <2>5 DEF TurnFails
    <3>3. QED
      BY <1>1, <3>1, <3>2, UpdateTypes DEF serverVars
  <2>6. QED
    BY <2>1, <2>2, <2>3, <2>4, <2>5
<1>6. QED
  BY <1>2, <1>4, <1>5 DEF Types

\* What a request to the server keeps, whether it opens a turn, joins one or is refused.
LEMMA AskFacts ==
  ASSUME Types, NEW x \in Texts, Open(x) \/ Inject(x) \/ UNCHANGED <<turns, events>>
  PROVE  Grows /\ events' \in Seq(EventsOf(turns')) /\ (~(link /\ subscribed) => events' = events)
<1>1. CASE Open(x)
  BY <1>1, OpenFacts
<1>2. CASE Inject(x)
  BY <1>2, InjectFacts
<1>3. CASE UNCHANGED <<turns, events>>
  BY <1>3, GrowsSame DEF Types, ServerType
<1>4. QED
  BY <1>1, <1>2, <1>3

LEMMA AskRest ==
  ASSUME Types, Grows, events' \in Seq(EventsOf(turns')), ~(link /\ subscribed) => events' = events,
         UNCHANGED <<thread, refresh, paginated, subscribed, link, overtaken, faults>>
  PROVE  ServerType' /\ LinkType' /\ ThreadType' /\ RefreshType'
<1>1. ServerType'
  BY DEF ServerType, Grows
<1>2. LinkType'
  BY DEF LinkType, Types
<1>3. QED
  BY <1>1, <1>2, KeptThread, KeptRefresh

LEMMA SentOpTypes ==
  ASSUME Types, NEW m \in Msgs, SteerAnswered(m) \/ TurnStarts(m)
  PROVE  Types'
<1>1. UNCHANGED <<thread, tap, listener, refresh, paginated, subscribed, link, overtaken, faults>>
  BY DEF SteerAnswered, TurnStarts
<1>2. Open(m) \/ Inject(m) \/ UNCHANGED <<turns, events>>
  BY DEF SteerAnswered, TurnStarts, Refuse
<1>3. Grows /\ events' \in Seq(EventsOf(turns')) /\ (~(link /\ subscribed) => events' = events)
  BY <1>2, AskFacts DEF Texts
<1>4. ServerType' /\ LinkType' /\ ThreadType' /\ RefreshType' /\ TapType' /\ ListenerType'
  BY <1>1, <1>3, AskRest, KeptTap, KeptListener
<1>5. /\ op[m] \in [pc : OpStates, saw : Turns, turn : Turns]
      /\ op[m].turn # None => op[m].pc \in {"answered", "asked", "failed", "error"}
      /\ Turns \subseteq Turns' /\ None \in Turns /\ Len(turns') \in Turns'
  <2>1. Len(turns') \in Nat
    BY <1>3 DEF Grows
  <2>2. QED
    BY <1>3, <2>1, OpFacts, TurnsGrow DEF Turns
<1>6. OpType'
  <2>1. CASE op' = [op EXCEPT ![m] = Ended("done")] \/ op' = [op EXCEPT ![m] = Ended("asked")]
    <3>1. PICK pc \in {"done", "asked"} : op' = [op EXCEPT ![m] = Ended(pc)]
      BY <2>1
    <3>2. Ended(pc) \in [pc : OpStates, saw : Turns', turn : Turns'] /\ Ended(pc).turn = None
      BY <1>5 DEF OpStates, Ended
    <3>3. QED
      BY <1>3, <3>1, <3>2, OpSet
  <2>2. CASE op' = [op EXCEPT ![m] = [@ EXCEPT !.pc = "answered", !.turn = Len(turns')]]
    <3> DEFINE r == [op[m] EXCEPT !.pc = "answered", !.turn = Len(turns')]
    <3>1. op' = [op EXCEPT ![m] = r]
      BY <2>2
    <3>2. r \in [pc : OpStates, saw : Turns', turn : Turns'] /\ r.pc = "answered"
      BY <1>5 DEF OpStates
    <3> HIDE DEF r
    <3>3. QED
      BY <1>3, <3>1, <3>2, OpSet
  <2>3. CASE op' = [op EXCEPT ![m].pc = "failed"]
    <3> DEFINE r == [op[m] EXCEPT !.pc = "failed"]
    <3>1. op' = [op EXCEPT ![m] = r]
      BY <2>3
    <3>2. r \in [pc : OpStates, saw : Turns', turn : Turns'] /\ r.pc = "failed"
      BY <1>5 DEF OpStates
    <3> HIDE DEF r
    <3>3. QED
      BY <1>3, <3>1, <3>2, OpSet
  <2>4. QED
    BY <2>1, <2>2, <2>3 DEF SteerAnswered, TurnStarts
<1>7. QED
  BY <1>4, <1>6 DEF Types

LEMMA TapFacts ==
  ASSUME Types, NEW k \in Taps
  PROVE  /\ tap[k] \in [pc : TapStates, msg : Texts, saw : Turns, list : Seq(Drafts)]
         /\ TapDone \in [pc : TapStates, msg : Texts, saw : Turns, list : Seq(Drafts)]
         /\ thread.active \in Turns /\ None \in Turns /\ thread.drafts \in Seq(Drafts)
         /\ DraftTexts \subseteq Msgs
<1>1. thread.active \in Turns /\ thread.drafts \in Seq(Drafts) /\ None \in Turns
  BY DEF Types, ThreadType, Snapshot, Turns, None, ServerType
<1>2. tap[k] \in [pc : TapStates, msg : Texts, saw : Turns, list : Seq(Drafts)]
  BY DEF Types, TapType
<1>3. TapDone \in [pc : TapStates, msg : Texts, saw : Turns, list : Seq(Drafts)]
  <2>1. TapDone = [pc |-> "done", msg |-> Other, saw |-> None, list |-> <<>>]
    BY DEF TapDone, Untapped
  <2>2. QED
    BY <1>1, <2>1 DEF TapStates, Texts
<1>4. DraftTexts \subseteq Msgs
  <2>1. \A i \in DOMAIN thread.drafts : thread.drafts[i] \in Drafts
    BY <1>1
  <2>2. QED
    BY <2>1 DEF DraftTexts, Range, Drafts
<1>5. QED
  BY <1>1, <1>2, <1>3, <1>4

LEMMA RemainingFacts ==
  ASSUME Types, NEW m
  PROVE  /\ Remaining(m) \in Seq(Drafts) /\ (Distinct(thread.drafts) => Distinct(Remaining(m)))
         /\ \A n \in DOMAIN Remaining(m) : \E j \in DOMAIN thread.drafts :
               Remaining(m)[n] = thread.drafts[j] /\ thread.drafts[j].text # m
<1> DEFINE ds == thread.drafts
           I == {i \in DOMAIN ds : ds[i].text # m}
<1>1. ds \in Seq(Drafts) /\ I \in SUBSET DOMAIN ds /\ Remaining(m) = Retain(ds, I)
  BY DEF Types, ThreadType, Snapshot, Remaining
<1>2. \A i \in I : ds[i].text # m
  OBVIOUS
<1> HIDE DEF I, ds
<1>3. Retain(ds, I) \in Seq(Drafts)
      /\ \A n \in DOMAIN Retain(ds, I) : Nth(I, n) \in I /\ Retain(ds, I)[n] = ds[Nth(I, n)]
  BY <1>1, RetainFacts
<1>4. Distinct(ds) => Distinct(Retain(ds, I))
  BY <1>1, RetainDistinct
<1>5. QED
  BY <1>1, <1>2, <1>3, <1>4 DEF ds

\* A draft becomes PendingSteer.
LEMMA SteerFacts ==
  ASSUME Types, NEW i \in DOMAIN thread.drafts
  PROVE  LET new == [thread EXCEPT !.drafts[i].kind = "PendingSteer"]
             ds  == [thread.drafts EXCEPT ![i].kind = "PendingSteer"]
         IN  /\ Snapshot(new, turns) /\ new.drafts = ds /\ new.active = thread.active
             /\ new.items = thread.items /\ new.overlays = thread.overlays
             /\ DOMAIN ds = DOMAIN thread.drafts
             /\ \A n \in DOMAIN ds : /\ ds[n].text = thread.drafts[n].text
                                     /\ ds[n].kind = IF n = i THEN "PendingSteer" ELSE thread.drafts[n].kind
<1> DEFINE ds == [thread.drafts EXCEPT ![i].kind = "PendingSteer"]
           new == [thread EXCEPT !.drafts = ds]
<1>1. /\ Snapshot(thread, turns) /\ turns \in Seq(TurnRecords) /\ thread.drafts \in Seq(Drafts)
      /\ \A n \in DOMAIN thread.drafts : thread.drafts[n] \in Drafts
  BY DEF Types, ThreadType, ServerType, Snapshot
<1>2. [thread EXCEPT !.drafts[i].kind = "PendingSteer"] = new
  BY <1>1 DEF Snapshot
<1>3. /\ DOMAIN ds = DOMAIN thread.drafts
      /\ \A n \in DOMAIN ds : /\ ds[n].text = thread.drafts[n].text
                              /\ ds[n].kind = IF n = i THEN "PendingSteer" ELSE thread.drafts[n].kind
  BY <1>1 DEF Drafts
<1>4. ds \in Seq(Drafts)
  <2>1. [thread.drafts[i] EXCEPT !.kind = "PendingSteer"] \in Drafts
    BY <1>1 DEF Drafts
  <2>2. ds = [thread.drafts EXCEPT ![i] = [thread.drafts[i] EXCEPT !.kind = "PendingSteer"]]
    OBVIOUS
  <2>3. QED
    BY <1>1, <2>1, <2>2
<1> HIDE DEF ds
<1>5. /\ Snapshot(new, turns) /\ new.drafts = ds /\ new.active = thread.active
      /\ new.items = thread.items /\ new.overlays = thread.overlays
  BY <1>1, <1>4, DraftsFacts
<1> HIDE DEF new
<1>6. QED
  BY <1>2, <1>3, <1>5 DEF ds

LEMMA TapRest ==
  ASSUME Types, UNCHANGED <<op, listener, refresh, paginated, serverVars, link, faults>>
  PROVE  Grows /\ OpType' /\ ListenerType' /\ RefreshType' /\ Turns' = Turns
BY GrowsSame, KeptOp, KeptListener, KeptRefresh DEF serverVars, Turns

LEMMA TapTypes ==
  ASSUME Types, NEW k \in Taps,
         SteerTapped(k) \/ DeleteTapped(k) \/ BeginSteer(k) \/ TapReturns(k) \/ Deletes(k)
  PROVE  Types'
<1>1. UNCHANGED <<op, listener, refresh, paginated, serverVars, link, faults>>
  BY DEF SteerTapped, DeleteTapped, BeginSteer, TapReturns, Deletes
<1>2. Grows /\ OpType' /\ ListenerType' /\ RefreshType' /\ Turns' = Turns
  BY <1>1, TapRest
<1>3. /\ tap[k] \in [pc : TapStates, msg : Texts, saw : Turns, list : Seq(Drafts)]
      /\ TapDone \in [pc : TapStates, msg : Texts, saw : Turns, list : Seq(Drafts)]
      /\ thread.active \in Turns /\ None \in Turns /\ DraftTexts \subseteq Msgs
      /\ turns \in Seq(TurnRecords) /\ Snapshot(thread, turns)
  BY TapFacts DEF Types, ServerType, ThreadType
<1>4. TapType'
  <2>1. CASE SteerTapped(k)
    <3>1. PICK m \in DraftTexts :
            tap' = [tap EXCEPT ![k] = [@ EXCEPT !.pc = "begin", !.msg = m, !.saw = thread.active]]
      BY <2>1 DEF SteerTapped
    <3> DEFINE r == [tap[k] EXCEPT !.pc = "begin", !.msg = m, !.saw = thread.active]
    <3>2. r \in [pc : TapStates, msg : Texts, saw : Turns', list : Seq(Drafts)] /\ tap' = [tap EXCEPT ![k] = r]
      BY <1>2, <1>3, <3>1 DEF TapStates, Texts
    <3> HIDE DEF r
    <3>3. QED
      BY <1>2, <3>2, TapSet
  <2>2. CASE DeleteTapped(k)
    <3>1. PICK m \in DraftTexts :
            tap' = [tap EXCEPT ![k] = [@ EXCEPT !.pc = "delete", !.msg = m, !.list = Remaining(m)]]
      BY <2>2 DEF DeleteTapped
    <3> DEFINE r == [tap[k] EXCEPT !.pc = "delete", !.msg = m, !.list = Remaining(m)]
    <3>2. Remaining(m) \in Seq(Drafts)
      BY RemainingFacts
    <3>3. r \in [pc : TapStates, msg : Texts, saw : Turns', list : Seq(Drafts)] /\ tap' = [tap EXCEPT ![k] = r]
      BY <1>2, <1>3, <3>1, <3>2 DEF TapStates, Texts
    <3> HIDE DEF r
    <3>4. QED
      BY <1>2, <3>3, TapSet
  <2>3. CASE tap' = [tap EXCEPT ![k] = TapDone]
    BY <1>2, <1>3, <2>3, TapSet
  <2>4. CASE tap' = [tap EXCEPT ![k] = [@ EXCEPT !.pc = "asked"]]
    <3> DEFINE r == [tap[k] EXCEPT !.pc = "asked"]
    <3>1. r \in [pc : TapStates, msg : Texts, saw : Turns', list : Seq(Drafts)] /\ tap' = [tap EXCEPT ![k] = r]
      BY <1>2, <1>3, <2>4 DEF TapStates
    <3> HIDE DEF r
    <3>2. QED
      BY <1>2, <3>1, TapSet
  <2>5. CASE tap' = [tap EXCEPT ![k] = [@ EXCEPT !.pc = "deleted", !.list = <<>>]]
    <3> DEFINE r == [tap[k] EXCEPT !.pc = "deleted", !.list = <<>>]
    <3>0. <<>> \in Seq(Drafts)
      OBVIOUS
    <3>1. r \in [pc : TapStates, msg : Texts, saw : Turns', list : Seq(Drafts)] /\ tap' = [tap EXCEPT ![k] = r]
      BY <1>2, <1>3, <2>5, <3>0 DEF TapStates
    <3> HIDE DEF r
    <3>2. QED
      BY <1>2, <3>1, TapSet
  <2>6. CASE BeginSteer(k)
    BY <2>3, <2>4, <2>6 DEF BeginSteer
  <2>7. QED
    BY <2>1, <2>2, <2>3, <2>5, <2>6 DEF TapReturns, Deletes
<1>5. ThreadType' /\ LinkType' /\ ServerType'
  <2>1. CASE UNCHANGED <<thread, overtaken>>
    BY <1>1, <1>2, <2>1, KeptThread, KeptLink, KeptServer DEF serverVars
  <2>2. CASE BeginSteer(k)
    <3>1. CASE \E i \in DOMAIN thread.drafts : Update([thread EXCEPT !.drafts[i].kind = "PendingSteer"])
      <4>1. PICK i \in DOMAIN thread.drafts : Update([thread EXCEPT !.drafts[i].kind = "PendingSteer"])
        BY <3>1
      <4> DEFINE new == [thread EXCEPT !.drafts[i].kind = "PendingSteer"]
      <4>2. Snapshot(new, turns)
        BY SteerFacts
      <4>3. Update(new)
        BY <4>1
      <4> HIDE DEF new
      <4>4. QED
        BY <1>1, <4>2, <4>3, UpdateTypes DEF serverVars
    <3>2. QED
      BY <2>1, <2>2, <3>1 DEF BeginSteer
  <2>3. CASE Deletes(k)
    <3> DEFINE new == [thread EXCEPT !.drafts = tap[k].list]
    <3>1. Snapshot(new, turns)
      BY <1>3, DraftsFacts
    <3>2. thread' = new /\ overtaken' \in BOOLEAN
      <4>1. overtaken' = (overtaken \/ Holding \/ tap[k].list # Remaining(tap[k].msg))
        BY <2>3 DEF Deletes
      <4>2. QED
        BY <2>3, <4>1 DEF Deletes
    <3> HIDE DEF new
    <3>3. ThreadType'
      BY <1>1, <3>1, <3>2 DEF ThreadType, serverVars
    <3>4. LinkType'
      BY <1>1, <3>2 DEF LinkType, Types, serverVars
    <3>5. QED
      BY <1>1, <3>3, <3>4, KeptServer DEF serverVars
  <2>4. QED
    BY <2>1, <2>2, <2>3 DEF SteerTapped, DeleteTapped, TapReturns
<1>6. QED
  BY <1>2, <1>4, <1>5 DEF Types

LEMMA SentTapTypes ==
  ASSUME Types, NEW k \in Taps, TapSteers(k)
  PROVE  Types'
<1>1. UNCHANGED <<thread, op, listener, refresh, paginated, subscribed, link, overtaken, faults>>
  BY DEF TapSteers
<1>2. /\ tap[k] \in [pc : TapStates, msg : Texts, saw : Turns, list : Seq(Drafts)]
      /\ TapDone \in [pc : TapStates, msg : Texts, saw : Turns, list : Seq(Drafts)]
  BY TapFacts
<1>3. Inject(tap[k].msg) \/ UNCHANGED <<turns, events>>
  BY DEF TapSteers
<1>4. Grows /\ events' \in Seq(EventsOf(turns')) /\ (~(link /\ subscribed) => events' = events)
  BY <1>2, <1>3, AskFacts
<1>5. ServerType' /\ LinkType' /\ ThreadType' /\ RefreshType' /\ OpType' /\ ListenerType'
  BY <1>1, <1>4, AskRest, KeptOp, KeptListener
<1>6. TapType'
  <2> DEFINE r == IF Running = tap[k].saw THEN [tap[k] EXCEPT !.pc = "answered"] ELSE TapDone
  <2>1. tap' = [tap EXCEPT ![k] = r] /\ Turns \subseteq Turns'
    BY <1>4, TurnsGrow DEF TapSteers
  <2>2. r \in [pc : TapStates, msg : Texts, saw : Turns', list : Seq(Drafts)]
    BY <1>2, <2>1 DEF TapStates
  <2> HIDE DEF r
  <2>3. QED
    BY <1>4, <2>1, <2>2, TapSet
<1>7. QED
  BY <1>5, <1>6 DEF Types

\* The event at the head of the queue.
LEMMA EventFacts ==
  ASSUME Types, events # <<>>
  PROVE  /\ link /\ Tail(events) \in Seq(EventsOf(turns)) /\ Head(events) \in EventsOf(turns)
         /\ Head(events) = events[1]
         /\ Len(Tail(events)) = Len(events) - 1 /\ \A k \in DOMAIN Tail(events) : Tail(events)[k] = events[k + 1]
         /\ \/ Head(events).type \in {"started", "completed"} /\ Head(events).turn \in 1 .. Len(turns)
            \/ Head(events).type = "item" /\ Head(events).item \in AllItems(turns)
<1>1. link /\ events \in Seq(EventsOf(turns))
  BY DEF Types, LinkType, ServerType
<1>2. Tail(events) \in Seq(EventsOf(turns)) /\ Head(events) \in EventsOf(turns) /\ Head(events) = events[1]
  BY <1>1
<1>3. Len(Tail(events)) = Len(events) - 1 /\ \A k \in DOMAIN Tail(events) : Tail(events)[k] = events[k + 1]
  BY <1>1
<1>4. \/ Head(events).type \in {"started", "completed"} /\ Head(events).turn \in 1 .. Len(turns)
      \/ Head(events).type = "item" /\ Head(events).item \in AllItems(turns)
  BY <1>2 DEF EventsOf
<1>5. QED
  BY <1>1, <1>2, <1>3, <1>4

\* The three kinds of events.
LEMMA ReceiveCases ==
  ASSUME Types, Receive
  PROVE  \/ /\ Head(events).type = "started" /\ Head(events).turn \in 1 .. Len(turns)
            /\ Update(OnStarted(thread, Head(events).turn)) /\ listener' = [listener EXCEPT !.pc = "recv"]
         \/ /\ Head(events).type = "completed" /\ Head(events).turn \in 1 .. Len(turns)
            /\ Update(OnCompleted(thread)) /\ listener' = [listener EXCEPT !.pc = "check"]
         \/ /\ Head(events).type = "item" /\ Head(events).item \in AllItems(turns)
            /\ Update(OnItem(thread, Head(events).item)) /\ listener' = [listener EXCEPT !.pc = "recv"]
<1> DEFINE e == Head(events)
           new == CASE e.type = "started"   -> OnStarted(thread, e.turn)
                    [] e.type = "completed" -> OnCompleted(thread)
                    [] e.type = "item"      -> OnItem(thread, e.item)
<1>1. \/ e.type \in {"started", "completed"} /\ e.turn \in 1 .. Len(turns)
      \/ e.type = "item" /\ e.item \in AllItems(turns)
  BY EventFacts DEF Receive
<1>2. Update(new) /\ listener' = [listener EXCEPT !.pc = AfterEvent(e)]
  BY DEF Receive
<1>3. /\ e.type = "started" => new = OnStarted(thread, e.turn) /\ AfterEvent(e) = "recv"
      /\ e.type = "completed" => new = OnCompleted(thread) /\ AfterEvent(e) = "check"
      /\ e.type = "item" => new = OnItem(thread, e.item) /\ AfterEvent(e) = "recv"
  BY DEF AfterEvent
<1> HIDE DEF e, new
<1>4. QED
  BY <1>1, <1>2, <1>3 DEF e

LEMMA ListenerFacts ==
  ASSUME Types
  PROVE  /\ listener \in [pc : {"recv", "check", "asked", "answered"}, msg : Texts]
         /\ thread.drafts # <<>> => Head(thread.drafts) = thread.drafts[1] /\ thread.drafts[1] \in Drafts
                                   /\ 1 \in DOMAIN thread.drafts
<1>1. thread.drafts \in Seq(Drafts)
  BY DEF Types, ThreadType, Snapshot
<1>2. QED
  BY <1>1 DEF Types, ListenerType

LEMMA ListenTypes == ASSUME Types, Listen PROVE Types'
<1>0. listener \in [pc : {"recv", "check", "asked", "answered"}, msg : Texts]
  BY ListenerFacts
<1>1. CASE Receive
  <2>1. UNCHANGED <<op, tap, refresh, paginated, turns, subscribed, link, faults>>
    BY <1>1 DEF Receive
  <2>2. Grows /\ OpType' /\ TapType' /\ RefreshType'
    BY <2>1, GrowsSame, KeptOp, KeptTap, KeptRefresh
  <2>3. ListenerType'
    BY <1>0, <1>1, ReceiveCases DEF ListenerType
  <2>4. link /\ events' \in Seq(EventsOf(turns))
    BY <1>1, EventFacts DEF Receive
  <2>5. turns \in Seq(TurnRecords) /\ Len(turns) \in Nat /\ Snapshot(thread, turns)
    BY DEF Types, ServerType, ThreadType
  <2>6. PICK new : Update(new) /\ Snapshot(new, turns)
    <3>1. CASE Head(events).turn \in 1 .. Len(turns) /\ Update(OnStarted(thread, Head(events).turn))
      <4>1. PICK t \in 0 .. Len(turns) : t = Head(events).turn
        BY <2>5, <3>1
      <4>2. QED
        BY <2>5, <3>1, <4>1, StartedFacts
    <3>2. CASE Update(OnCompleted(thread))
      BY <2>5, <3>2, CompletedFacts
    <3>3. CASE Head(events).item \in AllItems(turns) /\ Update(OnItem(thread, Head(events).item))
      BY <2>5, <3>3, ItemFacts
    <3>4. QED
      BY <1>1, <3>1, <3>2, <3>3, ReceiveCases
  <2>7. ThreadType' /\ LinkType' /\ ServerType'
    BY <2>1, <2>4, <2>6, UpdateTypes
  <2>8. QED
    BY <2>2, <2>3, <2>7 DEF Types
<1>2. CASE AutoSend \/ AutoSendReturns
  <2>1. UNCHANGED <<thread, op, tap, refresh, paginated, serverVars, link, overtaken, faults>>
    BY <1>2 DEF AutoSend, AutoSendReturns
  <2>2. Grows /\ OpType' /\ TapType' /\ RefreshType' /\ ThreadType' /\ LinkType' /\ ServerType'
    BY <2>1, GrowsSame, KeptOp, KeptTap, KeptRefresh, KeptThread, KeptLink, KeptServer DEF serverVars
  <2>3. ListenerType'
    <3>1. CASE AutoSend
      BY <1>0, <3>1, ListenerFacts DEF AutoSend, ListenerType, Drafts, Texts
    <3>2. CASE AutoSendReturns
      BY <3>2 DEF AutoSendReturns, ListenerType, Texts
    <3>3. QED
      BY <1>2, <3>1, <3>2
  <2>4. QED
    BY <2>2, <2>3 DEF Types
<1>3. CASE AutoSendStarts
  <2>1. UNCHANGED <<thread, op, tap, refresh, paginated, subscribed, link, overtaken, faults>>
    BY <1>3 DEF AutoSendStarts
  <2>2. Open(listener.msg) \/ Inject(listener.msg) \/ UNCHANGED <<turns, events>>
    BY <1>3 DEF AutoSendStarts, Refuse
  <2>3. Grows /\ events' \in Seq(EventsOf(turns')) /\ (~(link /\ subscribed) => events' = events)
    BY <1>0, <2>2, AskFacts
  <2>4. ServerType' /\ LinkType' /\ ThreadType' /\ RefreshType' /\ OpType' /\ TapType'
    BY <2>1, <2>3, AskRest, KeptOp, KeptTap
  <2>5. ListenerType'
    BY <1>0, <1>3 DEF AutoSendStarts, ListenerType
  <2>6. QED
    BY <2>4, <2>5 DEF Types
<1>4. QED
  BY <1>1, <1>2, <1>3 DEF Listen

LEMMA OtherTypes == ASSUME Types, OtherClient \/ Finish PROVE Types'
<1>1. UNCHANGED <<thread, op, tap, listener, refresh, paginated, subscribed, link, overtaken, faults>>
  BY DEF OtherClient, Finish, clientVars
<1>2. Grows /\ events' \in Seq(EventsOf(turns')) /\ (~(link /\ subscribed) => events' = events)
  <2>1. CASE OtherClient
    BY <2>1, OpenFacts DEF OtherClient, Texts
  <2>2. CASE Finish
    BY <2>2, FinishFacts
  <2>3. QED
    BY <2>1, <2>2
<1>3. ServerType' /\ LinkType' /\ ThreadType' /\ RefreshType' /\ OpType' /\ TapType' /\ ListenerType'
  BY <1>1, <1>2, AskRest, KeptOp, KeptTap, KeptListener
<1>4. QED
  BY <1>3 DEF Types

LEMMA RefreshFacts ==
  ASSUME Types
  PROVE  /\ refresh \in [pc : RefreshStates, turns : Seq(TurnRecords), read : {refresh.read}]
         /\ Snapshot(refresh.read, turns) /\ Snapshot(thread, turns) /\ turns \in Seq(TurnRecords)
         /\ Len(turns) \in Nat /\ Len(refresh.turns) \in Nat /\ Len(refresh.turns) <= Len(turns)
         /\ AllItems(refresh.turns) \subseteq AllItems(turns)
BY DEF Types, RefreshType, ThreadType, ServerType

\* The refresh somewhere, with what it may hold there.
LEMMA RefreshSet ==
  ASSUME Types, UNCHANGED turns, NEW pc \in RefreshStates, NEW ts \in {<<>>, turns, refresh.turns},
         NEW read \in {Blank, thread, refresh.read}, refresh' = [pc |-> pc, turns |-> ts, read |-> read]
  PROVE  RefreshType'
<1>1. Snapshot(Blank, turns)
  BY BlankTyped, RefreshFacts
<1>2. Snapshot(read, turns) /\ turns \in Seq(TurnRecords)
  BY <1>1, RefreshFacts
<1>3. ts \in Seq(TurnRecords) /\ Len(ts) <= Len(turns) /\ AllItems(ts) \subseteq AllItems(turns)
  <2>1. CASE ts = <<>>
    <3>1. AllItems(ts) = {}
      BY <2>1 DEF AllItems
    <3>2. QED
      BY <2>1, <3>1, RefreshFacts
  <2>2. QED
    BY <2>1, RefreshFacts
<1>4. refresh'.pc = pc /\ refresh'.turns = ts /\ refresh'.read = read
  OBVIOUS
<1>5. QED
  BY <1>2, <1>3, <1>4 DEF RefreshType

\* The thread a refresh writes.
ResumedThread(active) ==
  [items    |-> IF refresh.turns = <<>> THEN refresh.read.items ELSE SetToBag(AllItems(refresh.turns)),
   overlays |-> <<>>, drafts |-> <<>>, active |-> active]

LEMMA ResumedFacts ==
  ASSUME Types, NEW active \in 0 .. Len(turns)
  PROVE  Snapshot(ResumedThread(active), turns)
<1> DEFINE b == IF refresh.turns = <<>> THEN refresh.read.items ELSE SetToBag(AllItems(refresh.turns))
<1>1. Snapshot(refresh.read, turns) /\ AllItems(refresh.turns) \subseteq AllItems(turns)
  BY RefreshFacts
<1>2. b = SetToBag(DOMAIN b) /\ DOMAIN b \subseteq AllItems(turns)
  <2>1. CASE refresh.turns = <<>>
    BY <1>1, <2>1 DEF Snapshot
  <2>2. CASE refresh.turns # <<>>
    BY <1>1, <2>2, BagOfSet
  <2>3. QED
    BY <2>1, <2>2
<1> HIDE DEF b
<1>3. ResumedThread(active) = [items |-> b, overlays |-> <<>>, drafts |-> <<>>, active |-> active]
  BY DEF ResumedThread, b
<1>4. <<>> \in Seq(OverlaysOf(turns)) /\ <<>> \in Seq(Drafts)
  OBVIOUS
<1>5. QED
  BY <1>2, <1>3, <1>4 DEF Snapshot

LEMMA ReconcileFacts ==
  ASSUME NEW n, NEW old \in 0 .. n, NEW new \in 0 .. n, n \in Nat, NEW list
  PROVE  /\ ReconcileActive(old, new, list) \in 0 .. n
         /\ ReconcileActive(old, new, list) \in {old, new, None}
BY DEF ReconcileActive, None

\* The three writes.
LEMMA WriteCases ==
  ASSUME Types, WriteResumed \/ WriteProbed \/ WritePage
  PROVE  \/ UNCHANGED thread /\ ProbedActive = refresh.read.active /\ WriteProbed /\ refresh' = [Idle EXCEPT !.pc = "idle"]
         \/ /\ WriteResumed
            /\ \E active \in 0 .. Len(turns) : thread' = Upsert(thread, ResumedThread(active))
         \/ /\ WriteProbed /\ ProbedActive \in 0 .. Len(turns) /\ ProbedActive # refresh.read.active
            /\ thread' = Upsert(thread, [refresh.read EXCEPT !.active = ProbedActive])
         \/ WritePage /\ thread' = Upsert(thread, MergePage(refresh.read, refresh.turns))
<1>1. /\ Len(turns) \in Nat /\ Len(refresh.turns) \in Nat /\ Len(refresh.turns) <= Len(turns)
      /\ refresh.read.active \in 0 .. Len(turns) /\ None \in 0 .. Len(turns)
  BY RefreshFacts DEF Snapshot, None
<1>2. CASE WriteResumed
  <2> DEFINE list == refresh.turns
             active == IF list = <<>> \/ Last(list).done THEN None ELSE Len(list)
             a == ReconcileActive(refresh.read.active, active, list)
  <2>1. active \in 0 .. Len(turns)
    BY <1>1
  <2> HIDE DEF active
  <2>2. a \in 0 .. Len(turns)
    BY <1>1, <2>1, ReconcileFacts
  <2>3. thread' = Upsert(thread, ResumedThread(a))
    BY <1>2 DEF WriteResumed, Write, ResumedThread, active
  <2> HIDE DEF a
  <2>4. QED
    BY <1>2, <2>2, <2>3
<1>3. CASE WriteProbed
  <2>1. ProbedActive \in 0 .. Len(turns)
    BY <1>1, ReconcileFacts DEF ProbedActive
  <2>2. QED
    BY <1>3, <2>1 DEF WriteProbed, Write, Goto
<1>4. CASE WritePage
  BY <1>4 DEF WritePage, Write
<1>5. QED
  BY <1>2, <1>3, <1>4

LEMMA WrittenTypes ==
  ASSUME Types, WriteResumed \/ WriteProbed \/ WritePage, UNCHANGED turns
  PROVE  ThreadType'
<1>1. /\ turns \in Seq(TurnRecords) /\ Snapshot(thread, turns) /\ Snapshot(refresh.read, turns)
      /\ AllItems(refresh.turns) \subseteq AllItems(turns)
  BY RefreshFacts
<1>2. CASE UNCHANGED thread
  BY <1>2, GrowsSame, KeptThread
<1>3. CASE \E active \in 0 .. Len(turns) : thread' = Upsert(thread, ResumedThread(active))
  <2>1. PICK active \in 0 .. Len(turns) : thread' = Upsert(thread, ResumedThread(active))
    BY <1>3
  <2>2. Snapshot(ResumedThread(active), turns)
    BY ResumedFacts
  <2>3. QED
    BY <1>1, <2>1, <2>2, UpsertFacts DEF ThreadType
<1>4. CASE /\ ProbedActive \in 0 .. Len(turns)
           /\ thread' = Upsert(thread, [refresh.read EXCEPT !.active = ProbedActive])
  <2> DEFINE new == [refresh.read EXCEPT !.active = ProbedActive]
  <2>1. Snapshot(new, turns)
    BY <1>1, <1>4 DEF Snapshot
  <2> HIDE DEF new
  <2>2. QED
    BY <1>1, <1>4, <2>1, UpsertFacts DEF ThreadType, new
<1>5. CASE thread' = Upsert(thread, MergePage(refresh.read, refresh.turns))
  <2>1. Snapshot(MergePage(refresh.read, refresh.turns), turns)
    BY <1>1, PageFacts
  <2>2. QED
    BY <1>1, <1>5, <2>1, UpsertFacts DEF ThreadType
<1>6. QED
  BY <1>2, <1>3, <1>4, <1>5, WriteCases

LEMMA RefreshTypes == ASSUME Types, Refresh PROVE Types'
<1>1. UNCHANGED <<op, tap, listener, paginated, turns, events, link, faults>>
      /\ subscribed' \in BOOLEAN /\ (~link => subscribed' = subscribed) /\ overtaken' = overtaken
  BY DEF Refresh, Resume, ReadThread, WriteResumed, ListTurns, WriteProbed, WritePage, Keep, serverVars,
         Write, Types, LinkType
<1>2. Grows /\ OpType' /\ TapType' /\ ListenerType' /\ ServerType'
  BY <1>1, GrowsSame, KeptOp, KeptTap, KeptListener, KeptServer
<1>3. LinkType'
  BY <1>1 DEF LinkType, Types
<1>4. ThreadType'
  <2>1. CASE UNCHANGED thread
    BY <1>2, <2>1, KeptThread
  <2>2. CASE WriteResumed \/ WriteProbed \/ WritePage
    BY <1>1, <2>2, WrittenTypes
  <2>3. QED
    BY <2>1, <2>2 DEF Refresh, Resume, ReadThread, ListTurns
<1>5. RefreshType'
  <2>1. refresh \in [pc : RefreshStates, turns : Seq(TurnRecords), read : {refresh.read}]
    BY RefreshFacts
  <2>2. PICK pc \in RefreshStates, ts \in {<<>>, turns, refresh.turns}, read \in {Blank, thread, refresh.read} :
          refresh' = [pc |-> pc, turns |-> ts, read |-> read]
    <3>1. CASE Resume
      BY <3>1 DEF Resume, Idle, RefreshStates
    <3>2. CASE \/ ReadThread("resumed", "resumeRead") \/ ReadThread("probed", "probeRead")
               \/ ReadThread("paged", "pageRead")
      <4>1. PICK pc \in {"resumeRead", "probeRead", "pageRead"} : refresh' = [refresh EXCEPT !.pc = pc, !.read = thread]
        BY <3>2 DEF ReadThread
      <4>2. refresh' = [pc |-> pc, turns |-> refresh.turns, read |-> thread] /\ pc \in RefreshStates
        BY <2>1, <4>1 DEF RefreshStates
      <4>3. QED
        BY <4>2
    <3>3. CASE ListTurns("probe", "probed") \/ ListTurns("page", "paged")
      BY <3>3 DEF ListTurns, Idle, RefreshStates
    <3>4. CASE WriteResumed \/ WriteProbed \/ WritePage
      <4>1. PICK pc \in {"probe", "idle", "page"} : refresh' = [Idle EXCEPT !.pc = pc]
        BY <3>4 DEF WriteResumed, WriteProbed, WritePage, Ask, Goto
      <4>2. QED
        BY <4>1 DEF Idle, RefreshStates
    <3>5. QED
      BY <3>1, <3>2, <3>3, <3>4 DEF Refresh
  <2>3. QED
    BY <1>1, <2>2, RefreshSet
<1>6. QED
  BY <1>2, <1>3, <1>4, <1>5 DEF Types

\* What becomes of a request whose connection is lost.
LEMMA LostFacts ==
  ASSUME Types, ConnectionLost
  PROVE  /\ UNCHANGED <<thread, paginated, turns, overtaken>> /\ link' = FALSE /\ subscribed' = FALSE
         /\ events' = <<>> /\ faults' = faults + 1 /\ faults < MaxFaults
         /\ OpType' /\ TapType' /\ ListenerType'
         /\ \A m \in Msgs : op'[m].pc \in Lost(op[m].pc) /\ op'[m].turn = op[m].turn
         /\ refresh' \in {refresh, Idle} /\ (refresh.pc \in {"resumeRead", "probeRead", "pageRead"} => refresh' = refresh)
<1>1. PICK f \in [Msgs -> OpStates], g \in [Taps -> TapStates \cup {"failed"}], l \in Lost(listener.pc) :
        /\ \A m \in Msgs : f[m] \in Lost(op[m].pc)
        /\ \A k \in Taps : g[k] \in Lost(tap[k].pc)
        /\ op'  = [m \in Msgs |-> [op[m] EXCEPT !.pc = f[m]]]
        /\ tap' = [k \in Taps |-> IF g[k] = "failed" THEN TapDone ELSE [tap[k] EXCEPT !.pc = g[k]]]
        /\ listener' = [listener EXCEPT !.pc = IF l = "failed" THEN "answered" ELSE l]
  BY DEF ConnectionLost
<1>2. Turns' = Turns
  BY DEF ConnectionLost, Turns
<1>3. OpType' /\ \A m \in Msgs : op'[m].pc \in Lost(op[m].pc) /\ op'[m].turn = op[m].turn
  <2>1. ASSUME NEW m \in Msgs
        PROVE  /\ op'[m] \in [pc : OpStates, saw : Turns, turn : Turns]
               /\ op'[m].pc = f[m] /\ op'[m].turn = op[m].turn
               /\ op'[m].turn # None => op'[m].pc \in {"answered", "asked", "failed", "error"}
    <3>1. /\ op[m] \in [pc : OpStates, saw : Turns, turn : Turns]
          /\ op[m].turn # None => op[m].pc \in {"answered", "asked", "failed", "error"}
      BY OpFacts
    <3>2. op'[m] = [op[m] EXCEPT !.pc = f[m]] /\ f[m] \in OpStates /\ f[m] \in Lost(op[m].pc)
      BY <1>1
    <3>3. op[m].pc \in {"answered", "asked", "failed", "error"} => f[m] \in {"answered", "asked", "failed", "error"}
      BY <3>2 DEF Lost
    <3>4. QED
      BY <3>1, <3>2, <3>3
  <2>2. DOMAIN op' = Msgs /\ op' = [m \in Msgs |-> op'[m]]
    BY <1>1
  <2>3. op' \in [Msgs -> [pc : OpStates, saw : Turns, turn : Turns]]
    BY <2>1, <2>2
  <2>4. QED
    BY <1>1, <1>2, <2>1, <2>3 DEF OpType
<1>4. TapType'
  <2>1. ASSUME NEW k \in Taps
        PROVE  (IF g[k] = "failed" THEN TapDone ELSE [tap[k] EXCEPT !.pc = g[k]])
                 \in [pc : TapStates, msg : Texts, saw : Turns, list : Seq(Drafts)]
    <3>1. /\ tap[k] \in [pc : TapStates, msg : Texts, saw : Turns, list : Seq(Drafts)]
          /\ TapDone \in [pc : TapStates, msg : Texts, saw : Turns, list : Seq(Drafts)]
      BY TapFacts
    <3>2. g[k] \in TapStates \cup {"failed"}
      OBVIOUS
    <3>3. QED
      BY <3>1, <3>2
  <2>2. QED
    BY <1>1, <1>2, <2>1 DEF TapType
<1>5. ListenerType'
  <2>1. listener \in [pc : {"recv", "check", "asked", "answered"}, msg : Texts]
    BY ListenerFacts
  <2>2. (IF l = "failed" THEN "answered" ELSE l) \in {"recv", "check", "asked", "answered"}
    BY <1>1, <2>1 DEF Lost
  <2>3. QED
    BY <1>1, <2>1, <2>2 DEF ListenerType
<1>6. QED
  BY <1>3, <1>4, <1>5 DEF ConnectionLost

LEMMA LinkTypes == ASSUME Types, ConnectionLost \/ Reconnected PROVE Types'
<1>1. CASE ConnectionLost
  <2>1. /\ UNCHANGED <<thread, paginated, turns, overtaken>> /\ link' = FALSE /\ subscribed' = FALSE
        /\ events' = <<>> /\ faults' = faults + 1 /\ faults < MaxFaults
        /\ OpType' /\ TapType' /\ ListenerType' /\ refresh' \in {refresh, Idle}
    BY <1>1, LostFacts
  <2>2. Grows /\ ThreadType'
    BY <2>1, GrowsSame, KeptThread
  <2>3. ServerType'
    BY <2>1 DEF ServerType, Types
  <2>4. faults' \in 0 .. MaxFaults
    BY <2>1, ThreadStoreAssumption DEF LinkType, Types
  <2>5. LinkType'
    BY <2>1, <2>4 DEF LinkType, Types
  <2>6. RefreshType'
    <3>1. CASE refresh' = refresh
      BY <2>2, <3>1, KeptRefresh
    <3>2. CASE refresh' = Idle
      <4>1. refresh' = [pc |-> "idle", turns |-> <<>>, read |-> Blank] /\ "idle" \in RefreshStates
        BY <3>2 DEF Idle, RefreshStates
      <4>2. QED
        BY <2>1, <4>1, RefreshSet
    <3>3. QED
      BY <2>1, <3>1, <3>2
  <2>7. QED
    BY <2>1, <2>2, <2>3, <2>5, <2>6 DEF Types
<1>2. CASE Reconnected
  <2>1. UNCHANGED <<op, tap, listener, paginated, thread, turns, subscribed, events, overtaken, faults>> /\ link' = TRUE
    BY <1>2 DEF Reconnected, Keep, serverVars
  <2>2. Grows /\ ThreadType' /\ ServerType' /\ OpType' /\ TapType' /\ ListenerType'
    BY <2>1, GrowsSame, KeptThread, KeptServer, KeptOp, KeptTap, KeptListener
  <2>3. LinkType'
    BY <2>1 DEF LinkType, Types
  <2>4. RefreshType'
    <3>1. refresh' = [pc |-> "resume", turns |-> <<>>, read |-> Blank] /\ "resume" \in RefreshStates
      BY <1>2 DEF Reconnected, Goto, Idle, RefreshStates
    <3>2. QED
      BY <2>1, <3>1, RefreshSet
  <2>5. QED
    BY <2>2, <2>3, <2>4 DEF Types
<1>3. QED
  BY <1>1, <1>2

LEMMA StepTypes == ASSUME Types, [Next]_vars PROVE Types'
<1>1. CASE UNCHANGED vars
  <2>1. UNCHANGED <<thread, op, tap, listener, refresh, paginated, turns, subscribed, events, link, overtaken, faults>>
    BY <1>1 DEF vars, clientVars, serverVars
  <2>2. Grows /\ ThreadType' /\ ServerType' /\ OpType' /\ TapType' /\ ListenerType' /\ LinkType' /\ RefreshType'
    BY <2>1, GrowsSame, KeptThread, KeptServer, KeptOp, KeptTap, KeptListener, KeptLink, KeptRefresh
  <2>3. QED
    BY <2>2 DEF Types
<1>2. CASE \E m \in Msgs : Submit(m) \/ StartTurn(m)
  BY <1>2, OpTypes, SentOpTypes DEF StartTurn
<1>3. CASE \E k \in Taps : SteerTapped(k) \/ DeleteTapped(k) \/ Tapped(k)
  BY <1>3, TapTypes, SentTapTypes DEF Tapped
<1>4. QED
  BY <1>1, <1>2, <1>3, ListenTypes, RefreshTypes, OtherTypes, LinkTypes DEF Next

LEMMA TypesHold == Spec => []Types
<1>1. Init => Types
  BY InitTypes
<1>2. Types /\ [Next]_vars => Types'
  BY StepTypes
<1>3. QED
  BY <1>1, <1>2, PTL DEF Spec

\* An item belongs to a turn of the server and is one of its messages or a reply.
LEMMA AnItem ==
  ASSUME NEW ts \in Seq(TurnRecords), NEW i \in AllItems(ts)
  PROVE  /\ i.turn \in DOMAIN ts /\ i.text \in Texts \cup {Reply}
         /\ i.text # Reply => /\ i.id \in DOMAIN ts[i.turn].users /\ ts[i.turn].users[i.id] = i.text
                              /\ i = Item(i.turn, i.id, i.text)
<1>1. PICK t \in DOMAIN ts : i \in ItemsOf(t, ts)
  BY DEF AllItems
<1>2. CASE i \in {Item(t, n, ts[t].users[n]) : n \in DOMAIN ts[t].users}
  <2>1. PICK n \in DOMAIN ts[t].users : i = Item(t, n, ts[t].users[n])
    BY <1>2
  <2>2. i.turn = t /\ i.id = n /\ i.text = ts[t].users[n]
    BY <2>1 DEF Item
  <2>3. ts[t].users[n] \in Texts
    BY SeqOfTurns
  <2>4. QED
    BY <2>1, <2>2, <2>3
<1>3. CASE i = ReplyOf(t)
  BY <1>3 DEF ReplyOf, Item
<1>4. QED
  BY <1>1, <1>2, <1>3 DEF ItemsOf

\* Whatever the listener, the operations and the refresh write into the thread,
\* each item is there once and is of a turn the server had, and an overlay or a
\* draft is one of the user's own messages.
THEOREM TypeCorrect == Spec => []TypeOK
<1>1. ASSUME Types PROVE TypeOK
  <2>1. /\ turns \in Seq(TurnRecords) /\ Snapshot(thread, turns) /\ Len(turns) \in Nat
        /\ DOMAIN turns = 1 .. Len(turns)
    BY <1>1 DEF Types, ServerType, ThreadType
  <2>2. /\ thread.items = SetToBag(DOMAIN thread.items)
        /\ \A i \in DOMAIN thread.items : i.turn \in Turns \ {None} /\ i.text \in Texts \cup {Reply}
    <3>1. \A i \in DOMAIN thread.items : i.turn \in DOMAIN turns /\ i.text \in Texts \cup {Reply}
      BY <2>1, AnItem DEF Snapshot
    <3>2. QED
      BY <2>1, <3>1 DEF Snapshot, Turns, None
  <2>3. /\ \A o \in Range(thread.overlays) : o.turn \in Turns /\ o.text \in Msgs
        /\ \A d \in Range(thread.drafts) : d.text \in Msgs /\ d.kind \in {"Message", "PendingSteer"}
        /\ thread.active \in Turns
    <3>1. \A i \in DOMAIN thread.overlays : thread.overlays[i] \in OverlaysOf(turns)
      BY <2>1 DEF Snapshot
    <3>2. \A i \in DOMAIN thread.drafts : thread.drafts[i] \in Drafts
      BY <2>1 DEF Snapshot
    <3>3. thread.active \in Turns
      BY <2>1 DEF Snapshot, Turns
    <3>4. QED
      BY <3>1, <3>2, <3>3 DEF Range, OverlaysOf, Drafts, Turns
  <2>4. /\ \A m \in Msgs : op[m].saw \in Turns /\ op[m].turn \in Turns
        /\ \A m \in Msgs : (op[m].turn # None) => op[m].pc \in {"answered", "asked", "failed", "error"}
    BY <1>1 DEF Types, OpType
  <2>5. \A k \in Taps : tap[k].msg \in Texts /\ tap[k].saw \in Turns
    BY <1>1 DEF Types, TapType
  <2>6. listener.pc \in {"recv", "check", "asked", "answered"} /\ listener.msg \in Texts
    BY <1>1 DEF Types, ListenerType
  <2>7. QED
    BY <1>1, <2>2, <2>3, <2>4, <2>5, <2>6 DEF TypeOK, Types, LinkType
<1>2. QED
  BY <1>1, TypesHold, PTL

-----------------------------------------------------------------------------
(* The bubbles of a message.                                               *)

Has(ts, m, t) == t \in DOMAIN ts /\ \E n \in DOMAIN ts[t].users : ts[t].users[n] = m
InTurn(m, t) == Has(turns, m, t)
Reads == {"resumeRead", "probeRead", "pageRead"}

\* Overlays are of messages that were sent with turn/start.
OverlayText(os) == \A i \in DOMAIN os :
    op[os[i].text].pc \in {"asked", "answered", "failed", "done", "error"}

\* The overlay of a message whose turn/start is answered is bound to the turn
\* that has it, that of a message whose turn/start failed is gone.
DoneIn(os) == \A i \in DOMAIN os :
    /\ op[os[i].text].pc = "done" => InTurn(os[i].text, os[i].turn)
    /\ op[os[i].text].pc # "error"

AnsweredIn == \A m \in Msgs : op[m].pc = "answered" => InTurn(m, op[m].turn)

BubbleInv ==
  /\ Distinct(thread.overlays) /\ Distinct(refresh.read.overlays)
  /\ OverlayText(thread.overlays) /\ OverlayText(refresh.read.overlays)
  /\ AnsweredIn
  /\ ~overtaken => (refresh.pc \in Reads => refresh.read = thread) /\ DoneIn(thread.overlays)

\* How the operations move on: what was said of the overlays stays true.
OpsMove ==
  \A m \in Msgs :
    /\ op[m].pc \in {"asked", "answered", "failed", "done", "error"}
         => op'[m].pc \in {"asked", "answered", "failed", "done", "error"}
    /\ op'[m].pc = "done" => op[m].pc = "done" \/ op[m].pc \notin {"asked", "answered", "failed", "done", "error"}
    /\ op'[m].pc = "error" => op[m].pc = "error"

LEMMA OverlayFacts ==
  ASSUME Types, NEW os \in Seq(OverlaysOf(turns)), NEW i \in DOMAIN os
  PROVE  os[i].text \in Msgs /\ os[i].turn \in 0 .. Len(turns)
<1>1. os[i] \in OverlaysOf(turns)
  OBVIOUS
<1>2. QED
  BY <1>1 DEF OverlaysOf

LEMMA InTurnStays ==
  ASSUME Types, Grows, NEW m, NEW t, Has(turns, m, t)
  PROVE  Has(turns', m, t)
<1>1. /\ turns \in Seq(TurnRecords) /\ turns' \in Seq(TurnRecords) /\ Extends(turns', turns)
      /\ Len(turns) \in Nat /\ Len(turns') \in Nat
  BY DEF Types, ServerType, Grows
<1>2. DOMAIN turns = 1 .. Len(turns) /\ DOMAIN turns' = 1 .. Len(turns') /\ DOMAIN turns \subseteq DOMAIN turns'
  BY <1>1 DEF Extends
<1>3. PICK n \in DOMAIN turns[t].users : turns[t].users[n] = m /\ t \in DOMAIN turns
  BY DEF Has
<1>4. n \in DOMAIN turns'[t].users /\ turns'[t].users[n] = m
  BY <1>1, <1>3 DEF Extends
<1>5. QED
  BY <1>2, <1>3, <1>4 DEF Has

LEMMA TextStays ==
  ASSUME Types, OpsMove, NEW os \in Seq(OverlaysOf(turns)), OverlayText(os)
  PROVE  \A i \in DOMAIN os : op'[os[i].text].pc \in {"asked", "answered", "failed", "done", "error"}
BY OverlayFacts DEF OverlayText, OpsMove

LEMMA DoneStays ==
  ASSUME Types, Grows, OpsMove, NEW os \in Seq(OverlaysOf(turns)), OverlayText(os), DoneIn(os)
  PROVE  \A i \in DOMAIN os : /\ op'[os[i].text].pc = "done" => Has(turns', os[i].text, os[i].turn)
                              /\ op'[os[i].text].pc # "error"
<1>1. SUFFICES ASSUME NEW i \in DOMAIN os
               PROVE  /\ op'[os[i].text].pc = "done" => Has(turns', os[i].text, os[i].turn)
                      /\ op'[os[i].text].pc # "error"
  OBVIOUS
<1>2. /\ os[i].text \in Msgs /\ op[os[i].text].pc \in {"asked", "answered", "failed", "done", "error"}
      /\ op[os[i].text].pc = "done" => InTurn(os[i].text, os[i].turn)
      /\ op[os[i].text].pc # "error"
  BY OverlayFacts DEF OverlayText, DoneIn
<1>3. op'[os[i].text].pc # "error" /\ (op'[os[i].text].pc = "done" => op[os[i].text].pc = "done")
  BY <1>2 DEF OpsMove
<1>4. ASSUME op'[os[i].text].pc = "done" PROVE Has(turns', os[i].text, os[i].turn)
  BY <1>2, <1>3, <1>4, InTurnStays DEF InTurn
<1>5. QED
  BY <1>3, <1>4

\* Overlays that were there, some dropped, some bound for the first time.
LEMMA DerivedKeeps ==
  ASSUME Types, NEW os, NEW rs, Derived(rs, os)
  PROVE  (OverlayText(os) => OverlayText(rs)) /\ (DoneIn(os) => DoneIn(rs))
<1>1. None \notin DOMAIN turns
  BY DEF Types, ServerType, None
<1>2. ASSUME NEW n \in DOMAIN rs
      PROVE  /\ OverlayText(os) => op[rs[n].text].pc \in {"asked", "answered", "failed", "done", "error"}
             /\ DoneIn(os) => /\ op[rs[n].text].pc = "done" => InTurn(rs[n].text, rs[n].turn)
                              /\ op[rs[n].text].pc # "error"
  <2>1. PICK j \in DOMAIN os : rs[n].text = os[j].text /\ (rs[n].turn = os[j].turn \/ os[j].turn = None)
    BY DEF Derived
  <2>2. ~InTurn(os[j].text, None)
    BY <1>1 DEF InTurn, Has
  <2>3. QED
    BY <2>1, <2>2 DEF OverlayText, DoneIn
<1>3. QED
  BY <1>2 DEF OverlayText, DoneIn

LEMMA SomeOverlays ==
  ASSUME Types
  PROVE  thread.overlays \in Seq(OverlaysOf(turns)) /\ refresh.read.overlays \in Seq(OverlaysOf(turns))
BY DEF Types, ThreadType, RefreshType, Snapshot

\* Steps that do not touch the overlays, nor what the refresh has read.
LEMMA BubbleStays ==
  ASSUME Types, BubbleInv, Grows, OpsMove, UNCHANGED thread.overlays, ~overtaken' => ~overtaken,
         refresh' = refresh \/ refresh' = Idle,
         ~overtaken' => (refresh'.pc \in Reads => refresh'.read = thread'),
         AnsweredIn'
  PROVE  BubbleInv'
<1> DEFINE os == thread.overlays
           rs == refresh.read.overlays
<1>1. os \in Seq(OverlaysOf(turns)) /\ rs \in Seq(OverlaysOf(turns)) /\ OverlayText(os) /\ OverlayText(rs)
  BY SomeOverlays DEF BubbleInv
<1>2. refresh'.read.overlays = rs \/ refresh'.read.overlays = <<>>
  BY DEF Idle, Blank
<1>3. OverlayText(thread.overlays)' /\ OverlayText(refresh.read.overlays)'
  <2>1. /\ \A i \in DOMAIN os : op'[os[i].text].pc \in {"asked", "answered", "failed", "done", "error"}
        /\ \A i \in DOMAIN rs : op'[rs[i].text].pc \in {"asked", "answered", "failed", "done", "error"}
    BY <1>1, TextStays
  <2>2. QED
    BY <1>2, <2>1 DEF OverlayText
<1>4. Distinct(thread.overlays)' /\ Distinct(refresh.read.overlays)'
  BY <1>2 DEF BubbleInv, Distinct
<1>5. ASSUME ~overtaken' PROVE DoneIn(thread.overlays)'
  <2>1. DoneIn(os)
    BY <1>5 DEF BubbleInv
  <2>2. \A i \in DOMAIN os : /\ op'[os[i].text].pc = "done" => Has(turns', os[i].text, os[i].turn)
                             /\ op'[os[i].text].pc # "error"
    BY <1>1, <2>1, DoneStays
  <2>3. QED
    BY <2>2 DEF DoneIn, InTurn
<1>6. QED
  BY <1>3, <1>4, <1>5 DEF BubbleInv

\* One operation moves on.
LEMMA OpMoves ==
  ASSUME Types, NEW m \in Msgs, NEW r, op' = [op EXCEPT ![m] = r],
         op[m].pc \in {"asked", "answered", "failed", "done", "error"}
           => r.pc \in {"asked", "answered", "failed"},
         r.pc # "error"
  PROVE  OpsMove
<1>1. \A n \in Msgs : op'[n] = IF n = m THEN r ELSE op[n]
  BY DEF Types, OpType
<1>2. QED
  BY <1>1 DEF OpsMove

LEMMA AnsweredMoves ==
  ASSUME Types, Grows, AnsweredIn, NEW m \in Msgs, NEW r, op' = [op EXCEPT ![m] = r],
         r.pc = "answered" => Has(turns', m, r.turn)
  PROVE  AnsweredIn'
<1>1. \A n \in Msgs : op'[n] = IF n = m THEN r ELSE op[n]
  BY DEF Types, OpType
<1>2. ASSUME NEW n \in Msgs, op'[n].pc = "answered" PROVE Has(turns', n, op'[n].turn)
  <2>1. CASE n = m
    BY <1>1, <1>2, <2>1
  <2>2. CASE n # m
    <3>1. Has(turns, n, op[n].turn) /\ op'[n].turn = op[n].turn
      BY <1>1, <1>2, <2>2 DEF AnsweredIn, InTurn
    <3>2. QED
      BY <3>1, InTurnStays
  <2>3. QED
    BY <2>1, <2>2
<1>3. QED
  BY <1>2 DEF AnsweredIn, InTurn

LEMMA AnsweredSame ==
  ASSUME Types, Grows, AnsweredIn, UNCHANGED op
  PROVE  AnsweredIn' /\ OpsMove
<1>1. \A n \in Msgs : op'[n].pc = "answered" => Has(turns, n, op'[n].turn)
  BY DEF AnsweredIn, InTurn
<1>2. \A n \in Msgs : op'[n].pc = "answered" => Has(turns', n, op'[n].turn)
  BY <1>1, InTurnStays
<1>3. QED
  BY <1>2 DEF AnsweredIn, InTurn, OpsMove

LEMMA UpdateKeeps ==
  ASSUME BubbleInv, NEW new, Update(new), UNCHANGED refresh
  PROVE  /\ thread' = new /\ (~overtaken' => ~overtaken)
         /\ ~overtaken' => (refresh'.pc \in Reads => refresh'.read = thread')
BY DEF BubbleInv, Update, Holding, Reads

LEMMA SameKeeps ==
  ASSUME BubbleInv, UNCHANGED <<thread, overtaken, refresh>>
  PROVE  /\ ~overtaken' => ~overtaken
         /\ ~overtaken' => (refresh'.pc \in Reads => refresh'.read = thread')
BY DEF BubbleInv

LEMMA InTurnOpened ==
  ASSUME Types, NEW x \in Texts, Open(x) \/ Inject(x)
  PROVE  Has(turns', x, Len(turns'))
<1>1. turns' \in Seq(TurnRecords) /\ Len(turns') \in Nat /\ DOMAIN turns' = 1 .. Len(turns') /\ Len(turns) \in Nat
  <2>1. Grows
    BY OpenFacts, InjectFacts
  <2>2. QED
    BY <2>1 DEF Grows, Types, ServerType
<1>2. CASE Open(x)
  <2>1. Len(turns') = Len(turns) + 1 /\ turns'[Len(turns')] = [users |-> <<x>>, done |-> FALSE]
    BY <1>2, OpenFacts
  <2>2. 1 \in DOMAIN <<x>> /\ <<x>>[1] = x
    OBVIOUS
  <2>3. QED
    BY <1>1, <2>1, <2>2 DEF Has
<1>3. CASE Inject(x)
  <2>0. PICK us : us = turns[Running].users
    OBVIOUS
  <2>1. Running # None /\ Len(turns') = Len(turns) /\ turns'[Running].users = Append(us, x)
    <3>1. /\ Running # None /\ Len(turns') = Len(turns)
          /\ turns'[Running] = [users |-> Append(turns[Running].users, x), done |-> FALSE]
      BY <1>3, InjectFacts
    <3>2. turns'[Running].users = Append(turns[Running].users, x)
      BY <3>1
    <3>3. QED
      BY <2>0, <3>1, <3>2
  <2>2. Running = Len(turns) /\ Running \in DOMAIN turns
    BY <2>1, RunningFacts
  <2>3. us \in Seq(Texts)
    BY <2>0, <2>2, SeqOfTurns DEF Types, ServerType
  <2>4. Len(us) + 1 \in DOMAIN Append(us, x) /\ Append(us, x)[Len(us) + 1] = x
    BY <2>3
  <2>5. QED
    BY <1>1, <2>1, <2>2, <2>4 DEF Has
<1>4. QED
  BY <1>2, <1>3

\* The steps of start_turn that write no overlay.
LEMMA BubbleOp ==
  ASSUME Types, Types', BubbleInv, NEW m \in Msgs,
         Submit(m) \/ EnqueueDraft(m) \/ SteerDirectly(m) \/ SteerAnswered(m) \/ TurnStarts(m)
  PROVE  BubbleInv'
<1>1. /\ UNCHANGED <<refresh, thread.overlays>> /\ (~overtaken' => ~overtaken)
      /\ ~overtaken' => (refresh'.pc \in Reads => refresh'.read = thread')
  <2>1. CASE EnqueueDraft(m)
    <3>1. Update(Enqueue(thread, m)) /\ UNCHANGED refresh
      BY <2>1 DEF EnqueueDraft
    <3>2. Enqueue(thread, m).overlays = thread.overlays
      BY DEF Enqueue, Types, ThreadType, Snapshot
    <3>3. QED
      BY <3>1, <3>2, UpdateKeeps
  <2>2. CASE Submit(m) \/ SteerDirectly(m) \/ SteerAnswered(m) \/ TurnStarts(m)
    <3>1. UNCHANGED <<thread, overtaken, refresh>>
      BY <2>2 DEF Submit, SteerDirectly, SteerAnswered, TurnStarts
    <3>2. QED
      BY <3>1, SameKeeps
  <2>3. QED
    BY <2>1, <2>2
<1>2. Grows
  <2>1. Open(m) \/ Inject(m) \/ UNCHANGED <<turns, events>>
    BY DEF Submit, EnqueueDraft, SteerDirectly, SteerAnswered, TurnStarts, Refuse, serverVars
  <2>2. QED
    BY <2>1, AskFacts DEF Texts
<1>3. PICK r : /\ op' = [op EXCEPT ![m] = r] /\ r.pc # "error"
               /\ op[m].pc \in {"asked", "answered", "failed", "done", "error"} => r.pc \in {"asked", "answered", "failed"}
               /\ r.pc = "answered" => Has(turns', m, r.turn)
  <2>0. op[m] \in [pc : OpStates, saw : Turns, turn : Turns]
    BY OpFacts
  <2>1. CASE Submit(m)
    <3> DEFINE r == [op[m] EXCEPT !.pc = "deciding", !.saw = thread.active]
    <3>1. op' = [op EXCEPT ![m] = r] /\ op[m].pc \in {"idle", "deciding"}
      BY <2>1 DEF Submit
    <3>2. r.pc \in {"deciding", "queued", "steering"}
      BY <2>0
    <3> HIDE DEF r
    <3>3. QED
      BY <3>1, <3>2
  <2>2. CASE EnqueueDraft(m)
    <3> DEFINE r == Ended("queued")
    <3>1. op' = [op EXCEPT ![m] = r] /\ op[m].pc \in {"idle", "deciding"}
      BY <2>2 DEF EnqueueDraft
    <3>2. r.pc \in {"deciding", "queued", "steering"}
      BY <2>0 DEF Ended
    <3> HIDE DEF r
    <3>3. QED
      BY <3>1, <3>2
  <2>3. CASE SteerDirectly(m)
    <3> DEFINE r == [op[m] EXCEPT !.pc = "steering"]
    <3>1. op' = [op EXCEPT ![m] = r] /\ op[m].pc \in {"idle", "deciding"}
      BY <2>3 DEF SteerDirectly
    <3>2. r.pc \in {"deciding", "queued", "steering"}
      BY <2>0
    <3> HIDE DEF r
    <3>3. QED
      BY <3>1, <3>2
  <2>4. CASE SteerAnswered(m)
    BY <2>0, <2>4 DEF SteerAnswered, Ended
  <2>5. CASE TurnStarts(m)
    <3>1. CASE (Open(m) \/ Inject(m)) /\ op' = [op EXCEPT ![m] = [@ EXCEPT !.pc = "answered", !.turn = Len(turns')]]
      <4> DEFINE r == [op[m] EXCEPT !.pc = "answered", !.turn = Len(turns')]
      <4>1. r.pc = "answered" /\ r.turn = Len(turns') /\ op' = [op EXCEPT ![m] = r]
        BY <2>0, <3>1
      <4>2. Has(turns', m, Len(turns'))
        BY <3>1, InTurnOpened DEF Texts
      <4>3. op[m].pc = "asked"
        BY <2>5 DEF TurnStarts
      <4> HIDE DEF r
      <4>4. QED
        BY <4>1, <4>2, <4>3
    <3>2. CASE op' = [op EXCEPT ![m].pc = "failed"]
      <4> DEFINE r == [op[m] EXCEPT !.pc = "failed"]
      <4>1. r.pc = "failed" /\ op' = [op EXCEPT ![m] = r]
        BY <2>0, <3>2
      <4> HIDE DEF r
      <4>2. QED
        BY <4>1
    <3>3. QED
      BY <2>5, <3>1, <3>2 DEF TurnStarts
  <2>6. QED
    BY <2>1, <2>2, <2>3, <2>4, <2>5
<1>4. OpsMove /\ AnsweredIn'
  BY <1>2, <1>3, OpMoves, AnsweredMoves DEF BubbleInv
<1>5. QED
  BY <1>1, <1>2, <1>4, BubbleStays

\* The steps of the others that write no overlay.
LEMMA BubbleElse ==
  ASSUME Types, Types', BubbleInv, UNCHANGED <<op, refresh, thread.overlays>>, Grows,
         ~overtaken' => ~overtaken,
         ~overtaken' => (refresh'.pc \in Reads => refresh'.read = thread')
  PROVE  BubbleInv'
BY AnsweredSame, BubbleStays DEF BubbleInv

\* A step that writes the overlays, or what the refresh has read of them.
LEMMA BubbleSet ==
  ASSUME NEW os, os = thread'.overlays, NEW rs, rs = refresh'.read.overlays, Distinct(os), Distinct(rs),
         \A i \in DOMAIN os : op'[os[i].text].pc \in {"asked", "answered", "failed", "done", "error"},
         \A i \in DOMAIN rs : op'[rs[i].text].pc \in {"asked", "answered", "failed", "done", "error"},
         AnsweredIn',
         ~overtaken' => /\ refresh'.pc \in Reads => refresh'.read = thread'
                        /\ \A i \in DOMAIN os : /\ op'[os[i].text].pc = "done" => Has(turns', os[i].text, os[i].turn)
                                                /\ op'[os[i].text].pc # "error"
  PROVE  BubbleInv'
BY DEF BubbleInv, Distinct, OverlayText, DoneIn, InTurn

LEMMA NoOverlays == Distinct(Blank.overlays) /\ OverlayText(Blank.overlays) /\ DoneIn(Blank.overlays)
                    /\ Distinct(<<>>) /\ OverlayText(<<>>) /\ DoneIn(<<>>)
BY DEF Blank, Distinct, OverlayText, DoneIn

LEMMA BubbleStage == ASSUME Types, BubbleInv, NEW m \in Msgs, StageAndAsk(m) PROVE BubbleInv'
<1> DEFINE ov == thread.overlays
           o == [text |-> m, turn |-> None]
           os == Append(ov, o)
           rs == refresh.read.overlays
<1>1. Update(Stage(thread, m)) /\ UNCHANGED <<refresh, turns>> /\ op' = [op EXCEPT ![m].pc = "asked"]
      /\ op[m].pc = "deciding"
  BY DEF StageAndAsk, serverVars
<1>2. /\ thread' = Stage(thread, m) /\ (~overtaken' => ~overtaken)
      /\ ~overtaken' => (refresh'.pc \in Reads => refresh'.read = thread')
  BY <1>1, UpdateKeeps
<1>3. os = thread'.overlays
  BY <1>2, StageFacts DEF Types, ServerType, ThreadType
<1>4. ov \in Seq(OverlaysOf(turns)) /\ rs \in Seq(OverlaysOf(turns)) /\ rs = refresh'.read.overlays
  BY <1>1, SomeOverlays
<1>5. /\ \A i \in DOMAIN ov : ov[i].text # m /\ ov[i].text \in Msgs
      /\ \A i \in DOMAIN rs : rs[i].text # m /\ rs[i].text \in Msgs
  BY <1>1, <1>4, OverlayFacts DEF BubbleInv, OverlayText
<1>6. \A n \in Msgs : n # m => op'[n] = op[n]
  BY <1>1
<1>7. op'[m].pc = "asked"
  BY <1>1, OpFacts DEF Types, OpType
<1>8. /\ DOMAIN os = 1 .. Len(ov) + 1 /\ DOMAIN ov = 1 .. Len(ov) /\ Len(ov) \in Nat
      /\ os[Len(ov) + 1] = o /\ \A i \in DOMAIN ov : os[i] = ov[i]
  BY <1>4
<1>9. o.text = m
  OBVIOUS
<1> HIDE DEF os, o
<1>10. \A i \in DOMAIN os : i = Len(ov) + 1 \/ i \in DOMAIN ov
  BY <1>8
<1>11. Distinct(os)
  <2>1. \A i, j \in DOMAIN ov : ov[i].text = ov[j].text => i = j
    BY DEF BubbleInv, Distinct
  <2>2. \A i, j \in DOMAIN os : os[i].text = os[j].text => i = j
    BY <1>5, <1>8, <1>9, <1>10, <2>1
  <2>3. QED
    BY <2>2 DEF Distinct
<1>12. /\ \A i \in DOMAIN os : op'[os[i].text].pc \in {"asked", "answered", "failed", "done", "error"}
       /\ \A i \in DOMAIN rs : op'[rs[i].text].pc \in {"asked", "answered", "failed", "done", "error"}
  BY <1>5, <1>6, <1>7, <1>8, <1>9, <1>10 DEF BubbleInv, OverlayText
<1>13. AnsweredIn'
  <2>1. \A n \in Msgs : op'[n].pc = "answered" => n # m
    BY <1>7
  <2>2. QED
    BY <1>1, <1>6, <2>1 DEF BubbleInv, AnsweredIn, InTurn
<1>14. ASSUME ~overtaken', NEW i \in DOMAIN os
       PROVE  /\ op'[os[i].text].pc = "done" => Has(turns', os[i].text, os[i].turn)
              /\ op'[os[i].text].pc # "error"
  <2>1. CASE i = Len(ov) + 1
    BY <1>7, <1>8, <1>9, <2>1
  <2>2. CASE i \in DOMAIN ov
    BY <1>1, <1>2, <1>5, <1>6, <1>8, <1>14, <2>2 DEF BubbleInv, DoneIn, InTurn
  <2>3. QED
    BY <1>10, <2>1, <2>2
<1>15. Distinct(rs)
  BY DEF BubbleInv
<1> HIDE DEF rs, ov
<1>16. QED
  BY <1>2, <1>3, <1>4, <1>11, <1>12, <1>13, <1>14, <1>15, BubbleSet

LEMMA BubbleBind == ASSUME Types, BubbleInv, NEW m \in Msgs, BindOverlay(m) PROVE BubbleInv'
<1> DEFINE ov == thread.overlays
           t == op[m].turn
           os == Bind(thread, m, t).overlays
           rs == refresh.read.overlays
<1>1. Update(Bind(thread, m, t)) /\ UNCHANGED <<refresh, turns>> /\ op' = [op EXCEPT ![m] = Ended("done")]
      /\ op[m].pc = "answered"
  BY DEF BindOverlay, serverVars
<1>2. /\ thread' = Bind(thread, m, t) /\ (~overtaken' => ~overtaken)
      /\ ~overtaken' => (refresh'.pc \in Reads => refresh'.read = thread')
  BY <1>1, UpdateKeeps
<1>3. /\ Distinct(ov) => Distinct(os)
      /\ \A n \in DOMAIN os : \E j \in DOMAIN ov :
            os[n].text = ov[j].text /\ os[n].turn = IF ov[j].text = m THEN t ELSE ov[j].turn
  <2>1. t \in 0 .. Len(turns) /\ turns \in Seq(TurnRecords) /\ Snapshot(thread, turns)
    BY OpFacts DEF Types, ServerType, ThreadType, Turns
  <2> HIDE DEF t
  <2>2. /\ Distinct(thread.overlays) => Distinct(Bind(thread, m, t).overlays)
        /\ \A n \in DOMAIN Bind(thread, m, t).overlays : \E j \in DOMAIN thread.overlays :
              /\ Bind(thread, m, t).overlays[n].text = thread.overlays[j].text
              /\ Bind(thread, m, t).overlays[n].turn = IF thread.overlays[j].text = m THEN t ELSE thread.overlays[j].turn
    BY <2>1, BindFacts
  <2>3. QED
    BY <2>2
<1>4. /\ ov \in Seq(OverlaysOf(turns)) /\ rs \in Seq(OverlaysOf(turns)) /\ rs = refresh'.read.overlays
      /\ OverlayText(ov) /\ OverlayText(rs)
  BY <1>1, SomeOverlays DEF BubbleInv
<1>5. (\A i \in DOMAIN ov : ov[i].text \in Msgs) /\ (\A i \in DOMAIN rs : rs[i].text \in Msgs)
  BY <1>4, OverlayFacts
<1>6. \A n \in Msgs : op'[n] = IF n = m THEN Ended("done") ELSE op[n]
  BY <1>1 DEF Types, OpType
<1>7. Ended("done").pc = "done" /\ Has(turns, m, t)
  BY <1>1 DEF Ended, BubbleInv, AnsweredIn, InTurn
<1> HIDE DEF os, t
<1>8. \A i \in DOMAIN os : op'[os[i].text].pc \in {"asked", "answered", "failed", "done", "error"}
  <2>1. \A j \in DOMAIN ov : op'[ov[j].text].pc \in {"asked", "answered", "failed", "done", "error"}
    BY <1>4, <1>5, <1>6, <1>7 DEF OverlayText
  <2>2. QED
    BY <1>3, <2>1
<1>9. \A i \in DOMAIN rs : op'[rs[i].text].pc \in {"asked", "answered", "failed", "done", "error"}
  BY <1>4, <1>5, <1>6, <1>7 DEF OverlayText
<1>10. AnsweredIn'
  BY <1>1, <1>6, <1>7 DEF BubbleInv, AnsweredIn, InTurn
<1>11. ASSUME ~overtaken', NEW i \in DOMAIN os
       PROVE  /\ op'[os[i].text].pc = "done" => Has(turns', os[i].text, os[i].turn)
              /\ op'[os[i].text].pc # "error"
  <2>1. PICK j \in DOMAIN ov : os[i].text = ov[j].text /\ os[i].turn = IF ov[j].text = m THEN t ELSE ov[j].turn
    BY <1>3
  <2>2. /\ op[ov[j].text].pc = "done" => Has(turns, ov[j].text, ov[j].turn)
        /\ op[ov[j].text].pc # "error"
    BY <1>2, <1>11 DEF BubbleInv, DoneIn, InTurn
  <2>3. CASE ov[j].text = m
    BY <1>1, <1>6, <1>7, <2>1, <2>3
  <2>4. CASE ov[j].text # m
    BY <1>1, <1>5, <1>6, <2>1, <2>2, <2>4
  <2>5. QED
    BY <2>3, <2>4
<1>12. Distinct(os) /\ Distinct(rs) /\ os = thread'.overlays
  BY <1>2, <1>3 DEF BubbleInv, os
<1> HIDE DEF rs, ov
<1>13. QED
  BY <1>2, <1>4, <1>8, <1>9, <1>10, <1>11, <1>12, BubbleSet

LEMMA BubbleFail == ASSUME Types, BubbleInv, NEW m \in Msgs, TurnFails(m) PROVE BubbleInv'
<1> DEFINE ov == thread.overlays
           os == Unstage(thread, m).overlays
           rs == refresh.read.overlays
<1>1. Update(Unstage(thread, m)) /\ UNCHANGED <<refresh, turns>> /\ op' = [op EXCEPT ![m].pc = "error"]
  BY DEF TurnFails, serverVars
<1>2. /\ thread' = Unstage(thread, m) /\ (~overtaken' => ~overtaken)
      /\ ~overtaken' => (refresh'.pc \in Reads => refresh'.read = thread')
  BY <1>1, UpdateKeeps
<1>3. /\ Distinct(ov) => Distinct(os)
      /\ \A n \in DOMAIN os : \E j \in DOMAIN ov : os[n] = ov[j] /\ ov[j].text # m
  BY UnstageFacts DEF Types, ServerType, ThreadType, Derives
<1>4. /\ ov \in Seq(OverlaysOf(turns)) /\ rs \in Seq(OverlaysOf(turns)) /\ rs = refresh'.read.overlays
      /\ OverlayText(ov) /\ OverlayText(rs)
  BY <1>1, SomeOverlays DEF BubbleInv
<1>5. (\A i \in DOMAIN ov : ov[i].text \in Msgs) /\ (\A i \in DOMAIN rs : rs[i].text \in Msgs)
  BY <1>4, OverlayFacts
<1>6. op'[m].pc = "error" /\ \A n \in Msgs : n # m => op'[n] = op[n]
  BY <1>1, OpFacts DEF Types, OpType
<1> HIDE DEF os
<1>7. \A i \in DOMAIN os : op'[os[i].text].pc \in {"asked", "answered", "failed", "done", "error"}
  BY <1>3, <1>4, <1>5, <1>6 DEF OverlayText
<1>8. \A i \in DOMAIN rs : op'[rs[i].text].pc \in {"asked", "answered", "failed", "done", "error"}
  BY <1>4, <1>5, <1>6 DEF OverlayText
<1>9. AnsweredIn'
  <2>1. \A n \in Msgs : op'[n].pc = "answered" => n # m
    BY <1>6
  <2>2. QED
    BY <1>1, <1>6, <2>1 DEF BubbleInv, AnsweredIn, InTurn
<1>10. ASSUME ~overtaken', NEW i \in DOMAIN os
       PROVE  /\ op'[os[i].text].pc = "done" => Has(turns', os[i].text, os[i].turn)
              /\ op'[os[i].text].pc # "error"
  <2>1. PICK j \in DOMAIN ov : os[i] = ov[j] /\ ov[j].text # m
    BY <1>3
  <2>2. /\ op[ov[j].text].pc = "done" => Has(turns, ov[j].text, ov[j].turn)
        /\ op[ov[j].text].pc # "error"
    BY <1>2, <1>10 DEF BubbleInv, DoneIn, InTurn
  <2>3. QED
    BY <1>1, <1>5, <1>6, <2>1, <2>2
<1>11. Distinct(os) /\ Distinct(rs) /\ os = thread'.overlays
  BY <1>2, <1>3 DEF BubbleInv, os
<1> HIDE DEF rs, ov
<1>12. QED
  BY <1>2, <1>4, <1>7, <1>8, <1>9, <1>10, <1>11, BubbleSet

LEMMA BubbleReceive == ASSUME Types, BubbleInv, Receive PROVE BubbleInv'
<1> DEFINE ov == thread.overlays
           rs == refresh.read.overlays
<1>1. UNCHANGED <<op, refresh, turns>>
  BY DEF Receive
<1>2. turns \in Seq(TurnRecords) /\ Len(turns) \in Nat /\ Snapshot(thread, turns) /\ Grows
  BY <1>1, GrowsSame DEF Types, ServerType, ThreadType
<1>3. PICK new : Update(new) /\ Derives(new.overlays, ov)
  <2>1. CASE Head(events).turn \in 1 .. Len(turns) /\ Update(OnStarted(thread, Head(events).turn))
    <3>1. PICK t \in 0 .. Len(turns) : t = Head(events).turn
      BY <1>2, <2>1
    <3>2. QED
      BY <1>2, <2>1, <3>1, StartedFacts
  <2>2. CASE Update(OnCompleted(thread))
    BY <1>2, <2>2, CompletedFacts, DerivesSelf
  <2>3. CASE Head(events).item \in AllItems(turns) /\ Update(OnItem(thread, Head(events).item))
    BY <1>2, <2>3, ItemFacts
  <2>4. QED
    BY <2>1, <2>2, <2>3, ReceiveCases
<1>4. /\ thread' = new /\ (~overtaken' => ~overtaken)
      /\ ~overtaken' => (refresh'.pc \in Reads => refresh'.read = thread')
  BY <1>1, <1>3, UpdateKeeps
<1> DEFINE os == new.overlays
<1>5. /\ Distinct(os) /\ (OverlayText(ov) => OverlayText(os)) /\ (DoneIn(ov) => DoneIn(os))
  BY <1>3, DerivedKeeps DEF Derives, BubbleInv
<1>6. AnsweredIn'
  BY <1>1, <1>2, AnsweredSame DEF BubbleInv
<1>7. /\ OverlayText(os) /\ OverlayText(rs) /\ Distinct(rs) /\ (~overtaken' => DoneIn(os))
      /\ rs = refresh'.read.overlays
  BY <1>1, <1>4, <1>5 DEF BubbleInv
<1> HIDE DEF os, rs
<1>8. os = thread'.overlays
  BY <1>4 DEF os
<1>9. /\ \A i \in DOMAIN os : op'[os[i].text].pc \in {"asked", "answered", "failed", "done", "error"}
      /\ \A i \in DOMAIN rs : op'[rs[i].text].pc \in {"asked", "answered", "failed", "done", "error"}
      /\ ~overtaken' => \A i \in DOMAIN os :
                           /\ op'[os[i].text].pc = "done" => Has(turns', os[i].text, os[i].turn)
                           /\ op'[os[i].text].pc # "error"
  BY <1>1, <1>7 DEF OverlayText, DoneIn, InTurn
<1>10. QED
  BY <1>4, <1>5, <1>6, <1>7, <1>8, <1>9, BubbleSet

\* A step of the refresh: what it writes comes of the overlays there are and of
\* those it read, which are the same as long as nobody got in between.
LEMMA BubbleRefreshSet ==
  ASSUME Types, BubbleInv, UNCHANGED <<op, turns, overtaken>>, NEW os, os = thread'.overlays,
         NEW rs, rs = refresh'.read.overlays, Distinct(os), Distinct(rs), OverlayText(os), OverlayText(rs),
         ~overtaken => (refresh'.pc \in Reads => refresh'.read = thread') /\ DoneIn(os)
  PROVE  BubbleInv'
<1>1. AnsweredIn'
  BY GrowsSame, AnsweredSame DEF BubbleInv
<1>2. /\ \A i \in DOMAIN os : op'[os[i].text].pc \in {"asked", "answered", "failed", "done", "error"}
      /\ \A i \in DOMAIN rs : op'[rs[i].text].pc \in {"asked", "answered", "failed", "done", "error"}
      /\ ~overtaken' => \A i \in DOMAIN os :
                           /\ op'[os[i].text].pc = "done" => Has(turns', os[i].text, os[i].turn)
                           /\ op'[os[i].text].pc # "error"
  BY DEF OverlayText, DoneIn, InTurn
<1>3. QED
  BY <1>1, <1>2, BubbleSet

LEMMA UpsertBubble ==
  ASSUME Types, BubbleInv, NEW new, Snapshot(new, turns), NEW th, th = Upsert(thread, new),
         Distinct(new.overlays), OverlayText(new.overlays), ~overtaken => DoneIn(new.overlays)
  PROVE  Distinct(th.overlays) /\ OverlayText(th.overlays) /\ (~overtaken => DoneIn(th.overlays))
<1> DEFINE ov == thread.overlays
           nv == new.overlays
           os == th.overlays
<1>1. /\ Distinct(ov) /\ Distinct(nv) => Distinct(os)
      /\ \A n \in DOMAIN os :
           \/ \E j \in DOMAIN nv : os[n] = nv[j]
           \/ \E j \in DOMAIN ov : os[n].text = ov[j].text /\ (os[n].turn = ov[j].turn \/ ov[j].turn = None)
  BY UpsertFacts DEF Types, ServerType, ThreadType
<1>2. OverlayText(ov) /\ Distinct(ov) /\ (~overtaken => DoneIn(ov))
  BY DEF BubbleInv
<1>3. None \notin DOMAIN turns
  BY DEF Types, ServerType, None
<1> HIDE DEF ov, nv, os
<1>4. ASSUME NEW n \in DOMAIN os
      PROVE  /\ op[os[n].text].pc \in {"asked", "answered", "failed", "done", "error"}
             /\ ~overtaken => /\ op[os[n].text].pc = "done" => InTurn(os[n].text, os[n].turn)
                              /\ op[os[n].text].pc # "error"
  <2>1. CASE \E j \in DOMAIN nv : os[n] = nv[j]
    BY <2>1 DEF OverlayText, DoneIn, nv
  <2>2. CASE \E j \in DOMAIN ov : os[n].text = ov[j].text /\ (os[n].turn = ov[j].turn \/ ov[j].turn = None)
    <3>1. PICK j \in DOMAIN ov : os[n].text = ov[j].text /\ (os[n].turn = ov[j].turn \/ ov[j].turn = None)
      BY <2>2
    <3>2. ~InTurn(ov[j].text, None)
      BY <1>3 DEF InTurn, Has
    <3>3. QED
      BY <1>2, <3>1, <3>2 DEF OverlayText, DoneIn
  <2>3. QED
    BY <1>1, <2>1, <2>2
<1>5. Distinct(os) /\ OverlayText(os) /\ (~overtaken => DoneIn(os))
  BY <1>1, <1>2, <1>4 DEF OverlayText, DoneIn, nv
<1>6. QED
  BY <1>5 DEF os

LEMMA BubbleWrite ==
  ASSUME Types, BubbleInv, WriteResumed \/ WriteProbed \/ WritePage
  PROVE  BubbleInv'
<1>1. UNCHANGED <<op, turns, overtaken>> /\ refresh.pc \in Reads
  BY DEF WriteResumed, WriteProbed, WritePage, Keep, serverVars, Write, At, Reads
<1>2. refresh'.read.overlays = <<>> /\ refresh'.pc \notin Reads
  BY DEF WriteResumed, WriteProbed, WritePage, Ask, Goto, Idle, Blank, Reads
<1>3. /\ Snapshot(thread, turns) /\ Snapshot(refresh.read, turns)
      /\ AllItems(refresh.turns) \subseteq AllItems(turns)
  BY RefreshFacts
<1>4. /\ Distinct(refresh.read.overlays) /\ OverlayText(refresh.read.overlays)
      /\ ~overtaken => DoneIn(refresh.read.overlays)
  BY <1>1 DEF BubbleInv
<1>5. Distinct(thread'.overlays) /\ OverlayText(<<>>) /\ (~overtaken => DoneIn(<<>>))
      /\ \E os : os = thread'.overlays /\ Distinct(os) /\ OverlayText(os) /\ (~overtaken => DoneIn(os))
  <2>1. CASE UNCHANGED thread
    BY <2>1, NoOverlays DEF BubbleInv
  <2>2. CASE \E new : /\ Snapshot(new, turns) /\ thread' = Upsert(thread, new)
                      /\ new.overlays = <<>> \/ new.overlays = refresh.read.overlays
    <3>1. PICK new : /\ Snapshot(new, turns) /\ thread' = Upsert(thread, new)
                     /\ new.overlays = <<>> \/ new.overlays = refresh.read.overlays
      BY <2>2
    <3>2. Distinct(new.overlays) /\ OverlayText(new.overlays) /\ (~overtaken => DoneIn(new.overlays))
      BY <1>4, <3>1, NoOverlays
    <3>3. PICK th : th = thread'
      OBVIOUS
    <3>4. Distinct(th.overlays) /\ OverlayText(th.overlays) /\ (~overtaken => DoneIn(th.overlays))
      BY <3>1, <3>2, <3>3, UpsertBubble
    <3>5. QED
      BY <3>3, <3>4, NoOverlays
  <2>3. UNCHANGED thread \/ \E new : /\ Snapshot(new, turns) /\ thread' = Upsert(thread, new)
                                     /\ new.overlays = <<>> \/ new.overlays = refresh.read.overlays
    <3>1. CASE \E active \in 0 .. Len(turns) : thread' = Upsert(thread, ResumedThread(active))
      <4>1. PICK active \in 0 .. Len(turns) : thread' = Upsert(thread, ResumedThread(active))
        BY <3>1
      <4>2. ResumedThread(active).overlays = <<>>
        BY DEF ResumedThread
      <4>3. QED
        BY <4>1, <4>2, ResumedFacts
    <3>2. CASE /\ ProbedActive \in 0 .. Len(turns)
               /\ thread' = Upsert(thread, [refresh.read EXCEPT !.active = ProbedActive])
      <4> DEFINE new == [refresh.read EXCEPT !.active = ProbedActive]
      <4>1. Snapshot(new, turns) /\ new.overlays = refresh.read.overlays
        BY <1>3, <3>2 DEF Snapshot
      <4> HIDE DEF new
      <4>2. QED
        BY <3>2, <4>1 DEF new
    <3>3. CASE thread' = Upsert(thread, MergePage(refresh.read, refresh.turns))
      BY <1>3, <3>3, PageFacts
    <3>4. QED
      BY <3>1, <3>2, <3>3, WriteCases
  <2>4. QED
    BY <2>1, <2>2, <2>3
<1>6. PICK os : os = thread'.overlays /\ Distinct(os) /\ OverlayText(os) /\ (~overtaken => DoneIn(os))
  BY <1>5
<1>7. PICK rs : rs = refresh'.read.overlays /\ Distinct(rs) /\ OverlayText(rs)
  BY <1>2, NoOverlays
<1>8. QED
  BY <1>1, <1>2, <1>6, <1>7, BubbleRefreshSet

LEMMA BubbleRefresh == ASSUME Types, BubbleInv, Refresh PROVE BubbleInv'
<1>1. CASE WriteResumed \/ WriteProbed \/ WritePage
  BY <1>1, BubbleWrite
<1>2. CASE Resume \/ ListTurns("probe", "probed") \/ ListTurns("page", "paged")
  <2>1. UNCHANGED <<op, turns, overtaken, thread>> /\ refresh'.read = Blank /\ refresh'.pc \notin Reads
    BY <1>2 DEF Resume, ListTurns, Keep, serverVars, Idle, Reads
  <2>2. PICK os : os = thread'.overlays /\ Distinct(os) /\ OverlayText(os) /\ (~overtaken => DoneIn(os))
    BY <2>1 DEF BubbleInv
  <2>3. PICK rs : rs = refresh'.read.overlays /\ Distinct(rs) /\ OverlayText(rs)
    BY <2>1, NoOverlays
  <2>4. QED
    BY <2>1, <2>2, <2>3, BubbleRefreshSet
<1>3. CASE \/ ReadThread("resumed", "resumeRead") \/ ReadThread("probed", "probeRead")
           \/ ReadThread("paged", "pageRead")
  <2>1. UNCHANGED <<op, turns, overtaken, thread>> /\ refresh'.read = thread
    BY <1>3, RefreshFacts DEF ReadThread, Keep, serverVars
  <2>2. PICK os : os = thread'.overlays /\ Distinct(os) /\ OverlayText(os) /\ (~overtaken => DoneIn(os))
    BY <2>1 DEF BubbleInv
  <2>3. QED
    BY <2>1, <2>2, BubbleRefreshSet
<1>4. QED
  BY <1>1, <1>2, <1>3 DEF Refresh

LEMMA BubbleOthers ==
  ASSUME Types, Types', BubbleInv,
         \/ \E k \in Taps : SteerTapped(k) \/ DeleteTapped(k) \/ Tapped(k)
         \/ AutoSend \/ AutoSendStarts \/ AutoSendReturns \/ OtherClient \/ Finish \/ UNCHANGED vars
  PROVE  BubbleInv'
<1>1. UNCHANGED <<op, refresh>>
  BY DEF SteerTapped, DeleteTapped, Tapped, BeginSteer, TapSteers, TapReturns, Deletes, AutoSend, AutoSendStarts,
         AutoSendReturns, OtherClient, Finish, vars, clientVars
<1>2. Grows
  <2>1. CASE \E k \in Taps : TapSteers(k)
    <3>1. PICK k \in Taps : TapSteers(k)
      BY <2>1
    <3>2. tap[k].msg \in Texts /\ (Inject(tap[k].msg) \/ UNCHANGED <<turns, events>>)
      BY <3>1, TapFacts DEF TapSteers
    <3>3. QED
      BY <3>2, AskFacts
  <2>2. CASE AutoSendStarts
    BY <2>2, AskFacts, ListenerFacts DEF AutoSendStarts, Refuse
  <2>3. CASE OtherClient
    BY <2>3, AskFacts DEF OtherClient, Texts
  <2>4. CASE Finish
    BY <2>4, FinishFacts
  <2>5. CASE UNCHANGED turns
    BY <2>5, GrowsSame
  <2>6. QED
    BY <2>1, <2>2, <2>3, <2>4, <2>5 DEF SteerTapped, DeleteTapped, Tapped, BeginSteer, TapReturns, Deletes,
       AutoSend, AutoSendReturns, vars, serverVars
<1>3. /\ UNCHANGED thread.overlays /\ (~overtaken' => ~overtaken)
      /\ ~overtaken' => (refresh'.pc \in Reads => refresh'.read = thread')
  <2>1. CASE UNCHANGED <<thread, overtaken>>
    BY <1>1, <2>1, SameKeeps
  <2>2. CASE \E k \in Taps : Deletes(k)
    <3>1. PICK k \in Taps : Deletes(k)
      BY <2>2
    <3>2. thread'.overlays = thread.overlays
      BY <3>1 DEF Deletes, Types, ThreadType, Snapshot
    <3>3. ~overtaken' => ~overtaken /\ ~Holding
      BY <3>1 DEF Deletes
    <3>4. QED
      BY <1>1, <3>2, <3>3 DEF Holding, Reads
  <2>3. CASE \E k \in Taps : BeginSteer(k) /\ ~UNCHANGED <<thread, overtaken>>
    <3>1. PICK k \in Taps : BeginSteer(k) /\ ~UNCHANGED <<thread, overtaken>>
      BY <2>3
    <3>2. PICK i \in DOMAIN thread.drafts : Update([thread EXCEPT !.drafts[i].kind = "PendingSteer"])
      BY <3>1 DEF BeginSteer
    <3> DEFINE new == [thread EXCEPT !.drafts[i].kind = "PendingSteer"]
    <3>3. Update(new) /\ new.overlays = thread.overlays
      BY <3>2, SteerFacts
    <3> HIDE DEF new
    <3>4. QED
      BY <1>1, <3>3, UpdateKeeps
  <2>4. QED
    BY <2>1, <2>2, <2>3 DEF SteerTapped, DeleteTapped, Tapped, TapSteers, TapReturns, AutoSend, AutoSendStarts,
       AutoSendReturns, OtherClient, Finish, vars
<1>4. QED
  BY <1>1, <1>2, <1>3, BubbleElse

LEMMA BubbleLink == ASSUME Types, Types', BubbleInv, ConnectionLost \/ Reconnected PROVE BubbleInv'
<1>1. CASE ConnectionLost
  <2>1. /\ UNCHANGED <<thread, turns, overtaken>>
        /\ \A m \in Msgs : op'[m].pc \in Lost(op[m].pc) /\ op'[m].turn = op[m].turn
        /\ refresh' \in {refresh, Idle}
    BY <1>1, LostFacts
  <2>2. OpsMove
    <3>1. ASSUME NEW m \in Msgs
          PROVE  /\ op[m].pc \in {"asked", "answered", "failed", "done", "error"}
                      => op'[m].pc \in {"asked", "answered", "failed", "done", "error"}
                 /\ op'[m].pc = "done" => op[m].pc = "done"
                 /\ op'[m].pc = "error" => op[m].pc = "error"
      <4>1. op'[m].pc \in Lost(op[m].pc)
        BY <2>1
      <4>2. QED
        BY <4>1 DEF Lost
    <3>2. QED
      BY <3>1 DEF OpsMove
  <2>3. AnsweredIn'
    <3>1. ASSUME NEW m \in Msgs, op'[m].pc = "answered" PROVE Has(turns', m, op'[m].turn)
      <4>1. op'[m].pc \in Lost(op[m].pc) /\ op'[m].turn = op[m].turn
        BY <2>1
      <4>2. op[m].pc = "answered"
        BY <3>1, <4>1 DEF Lost
      <4>3. QED
        BY <2>1, <4>1, <4>2 DEF BubbleInv, AnsweredIn, InTurn
    <3>2. QED
      BY <3>1 DEF AnsweredIn, InTurn
  <2>4. ~overtaken' => (refresh'.pc \in Reads => refresh'.read = thread')
    BY <2>1 DEF BubbleInv, Idle, Reads
  <2>5. Grows
    BY <2>1, GrowsSame
  <2>6. QED
    BY <2>1, <2>2, <2>3, <2>4, <2>5, BubbleStays
<1>2. CASE Reconnected
  <2>1. UNCHANGED <<op, turns, overtaken, thread>> /\ refresh'.read = Blank /\ refresh'.pc \notin Reads
    BY <1>2 DEF Reconnected, Goto, Keep, serverVars, Idle, Reads
  <2>2. PICK os : os = thread'.overlays /\ Distinct(os) /\ OverlayText(os) /\ (~overtaken => DoneIn(os))
    BY <2>1 DEF BubbleInv
  <2>3. PICK rs : rs = refresh'.read.overlays /\ Distinct(rs) /\ OverlayText(rs)
    BY <2>1, NoOverlays
  <2>4. QED
    BY <2>1, <2>2, <2>3, BubbleRefreshSet
<1>3. QED
  BY <1>1, <1>2

LEMMA StepBubble == ASSUME Types, Types', BubbleInv, [Next]_vars PROVE BubbleInv'
<1>1. CASE \E m \in Msgs : Submit(m) \/ StartTurn(m)
  BY <1>1, BubbleOp, BubbleStage, BubbleBind, BubbleFail DEF StartTurn
<1>2. CASE (\E k \in Taps : SteerTapped(k) \/ DeleteTapped(k) \/ Tapped(k)) \/ OtherClient \/ Finish \/ UNCHANGED vars
  BY <1>2, BubbleOthers
<1>3. CASE Listen
  BY <1>3, BubbleReceive, BubbleOthers DEF Listen
<1>4. CASE Refresh \/ ConnectionLost \/ Reconnected
  BY <1>4, BubbleRefresh, BubbleLink
<1>5. QED
  BY <1>1, <1>2, <1>3, <1>4 DEF Next

LEMMA InitBubble == ASSUME Init PROVE BubbleInv
<1>1. \A m \in Msgs : op[m].pc = "idle"
  BY DEF Init
<1>2. thread = Blank /\ refresh.read = Blank /\ refresh.pc = "idle"
  BY DEF Init, Idle
<1>3. QED
  BY <1>1, <1>2, NoOverlays DEF BubbleInv, AnsweredIn, Reads

LEMMA BubbleHolds == Spec => [](Types /\ BubbleInv)
<1>1. Init => Types /\ BubbleInv
  BY InitTypes, InitBubble
<1>2. Types /\ BubbleInv /\ [Next]_vars => (Types /\ BubbleInv)'
  BY StepTypes, StepBubble
<1>3. QED
  BY <1>1, <1>2, PTL DEF Spec

\* The places of a message are finitely many, and each item of it has one.
LEMMA PlaceFacts ==
  ASSUME Types, NEW m
  PROVE  /\ IsFiniteSet(Places(m))
         /\ \A p : p \in Places(m) <=> \E t \in DOMAIN turns : \E n \in DOMAIN turns[t].users :
                                        turns[t].users[n] = m /\ p = <<t, n>>
<1> DEFINE P(t) == {t} \X {n \in DOMAIN turns[t].users : turns[t].users[n] = m}
           S == {P(t) : t \in DOMAIN turns}
<1>1. turns \in Seq(TurnRecords) /\ Len(turns) \in Nat /\ DOMAIN turns = 1 .. Len(turns)
  BY DEF Types, ServerType
<1>2. Places(m) = UNION S
  BY DEF Places
<1>3. ASSUME NEW t \in DOMAIN turns PROVE IsFiniteSet(P(t))
  <2>1. turns[t].users \in Seq(Texts) /\ Len(turns[t].users) \in Nat /\ DOMAIN turns[t].users = 1 .. Len(turns[t].users)
    BY <1>1, SeqOfTurns
  <2>2. IsFiniteSet(1 .. Len(turns[t].users))
    BY <2>1, FS_Interval
  <2> DEFINE N == {n \in DOMAIN turns[t].users : turns[t].users[n] = m}
  <2>3. N \in SUBSET (1 .. Len(turns[t].users)) /\ P(t) = {t} \X N
    BY <2>1
  <2> HIDE DEF N, P
  <2>4. IsFiniteSet(N) /\ IsFiniteSet({t})
    <3> DEFINE I == 1 .. Len(turns[t].users)
    <3>1. IsFiniteSet(I) /\ N \in SUBSET I
      BY <2>2, <2>3
    <3> HIDE DEF I
    <3>2. IsFiniteSet(N)
      BY <3>1, FS_Subset
    <3>3. QED
      BY <3>2, FS_Singleton
  <2>5. QED
    BY <2>3, <2>4, FS_Product
<1>4. IsFiniteSet(DOMAIN turns)
  BY <1>1, FS_Interval
<1>5. IsFiniteSet(S)
  <2> DEFINE f == [t \in DOMAIN turns |-> P(t)]
  <2>1. f \in Surjection(DOMAIN turns, S)
    BY DEF Surjection
  <2> HIDE DEF f, S
  <2>2. QED
    BY <1>4, <2>1, FS_Surjection
<1>6. IsFiniteSet(UNION S)
  <2>1. \A x \in S : IsFiniteSet(x)
    BY <1>3
  <2> HIDE DEF S
  <2>2. QED
    BY <1>5, <2>1, FS_UNION
<1>7. \A p : p \in Places(m) <=> \E t \in DOMAIN turns : \E n \in DOMAIN turns[t].users :
                                turns[t].users[n] = m /\ p = <<t, n>>
  BY DEF Places
<1>8. QED
  BY <1>2, <1>6, <1>7

\* Once everything has settled, a message shows no more often than the agent got
\* it, whichever of the response, the events, the resumed thread and the pages
\* came first: each item of it has a place of its own in the turns, and the one
\* overlay that may be left has one too, which no item has.
THEOREM OneBubbleHolds == Spec => []OneBubble
<1>1. ASSUME Types, BubbleInv PROVE OneBubble
  <2>1. SUFFICES ASSUME Settled, ~overtaken, NEW m \in Msgs PROVE Shown(m) <= Times(m)
    BY DEF OneBubble
  <2> DEFINE A == {i \in DOMAIN thread.items : i.text = m}
             B == {k \in DOMAIN thread.overlays : thread.overlays[k].text = m
                     /\ \A i \in DOMAIN thread.items : <<i.turn, i.text>> # <<thread.overlays[k].turn, m>>}
             f == [i \in A |-> <<i.turn, i.id>>]
             Q == {f[i] : i \in A}
  <2>2. DOMAIN thread.items \subseteq AllItems(turns) /\ turns \in Seq(TurnRecords)
        /\ thread.overlays \in Seq(OverlaysOf(turns))
    BY <1>1 DEF Types, ThreadType, ServerType, Snapshot
  <2>3. \A i \in A : /\ i.turn \in DOMAIN turns /\ i.id \in DOMAIN turns[i.turn].users
                     /\ turns[i.turn].users[i.id] = m /\ i = Item(i.turn, i.id, m)
    <3>1. m # Reply
      BY ThreadStoreAssumption
    <3>2. QED
      BY <2>2, <3>1, AnItem
  <2>4. /\ IsFiniteSet(Places(m))
        /\ \A p : p \in Places(m) <=> \E t \in DOMAIN turns : \E n \in DOMAIN turns[t].users :
                                        turns[t].users[n] = m /\ p = <<t, n>>
    BY <1>1, PlaceFacts
  <2>5. \A i, j \in A : f[i] = f[j] => i = j
    BY <2>3
  <2>6. Q \in SUBSET Places(m)
    <3>1. ASSUME NEW i \in A PROVE f[i] \in Places(m)
      BY <2>3, <2>4
    <3>2. QED
      BY <3>1
  <2>7. f \in Injection(A, Q) /\ f \in Surjection(A, Q)
    BY <2>5 DEF Injection, Surjection, IsInjective
  <2>8. IsFiniteSet(Q) /\ Cardinality(Q) \in Nat /\ Cardinality(Places(m)) \in Nat /\ Cardinality(Q) <= Cardinality(Places(m))
    BY <2>4, <2>6, FS_Subset, FS_CardinalityType
  <2>9. Cardinality(A) = Cardinality(Q)
    <3> HIDE DEF A, Q, f
    <3>1. IsFiniteSet(A) /\ Cardinality(A) = Cardinality(Q)
      BY <2>7, <2>8, FS_Injection
    <3>2. QED
      BY <3>1
  <2>10. CASE B = {}
    <3>1. Cardinality(B) = 0
      BY <2>10, FS_EmptySet
    <3>2. QED
      BY <2>8, <2>9, <3>1 DEF Shown, Times
  <2>11. CASE B # {}
    <3>1. PICK k \in DOMAIN thread.overlays : k \in B
      BY <2>11
    <3>2. B = {k}
      BY <1>1, <3>1 DEF BubbleInv, Distinct
    <3> DEFINE t == thread.overlays[k].turn
    <3>3. InTurn(m, t)
      <4>1. thread.overlays[k].text = m /\ OverlayText(thread.overlays) /\ DoneIn(thread.overlays)
        BY <1>1, <2>1, <3>1 DEF BubbleInv
      <4>2. op[m].pc \in {"idle", "queued", "done", "error"}
        BY <2>1 DEF Settled
      <4>3. QED
        BY <4>1, <4>2 DEF OverlayText, DoneIn
    <3>4. PICK n \in DOMAIN turns[t].users : turns[t].users[n] = m /\ t \in DOMAIN turns
      BY <3>3 DEF InTurn, Has
    <3>5. <<t, n>> \in Places(m) /\ <<t, n>> \notin Q
      <4>1. <<t, n>> \in Places(m)
        BY <2>4, <3>4
      <4>2. \A i \in A : i.turn # t
        BY <3>1
      <4>3. QED
        BY <4>1, <4>2
    <3>6. Cardinality(Q) # Cardinality(Places(m))
      BY <2>4, <2>6, <3>5, FS_Subset
    <3>7. Cardinality(B) = 1
      BY <3>2, FS_Singleton
    <3>8. QED
      BY <2>8, <2>9, <3>6, <3>7 DEF Shown, Times
  <2>12. QED
    BY <2>10, <2>11
<1>2. QED
  BY <1>1, BubbleHolds, PTL

-----------------------------------------------------------------------------
(* A message reaches the agent once.                                       *)

Clean == faults = 0 /\ ~overtaken
IsStarted(e)   == e.type = "started"
IsCompleted(e) == e.type = "completed"

\* Turns ts, the events es of them on their way, the turn a the thread shows and
\* the one r that runs: a turn starts where the one before it completed, and while
\* the turn that was started last runs nothing but items follow.
StreamOK(ts, es, a, r) ==
  /\ \A t \in DOMAIN ts : t < Len(ts) => ts[t].done
  /\ \A k \in DOMAIN es : k + 1 \in DOMAIN es => (IsCompleted(es[k]) <=> IsStarted(es[k + 1]))
  /\ es # <<>> => (IsCompleted(es[Len(es)]) <=> r = None)
  /\ IF es = <<>> THEN a = None <=> r = None ELSE a = None <=> IsStarted(es[1])
  /\ \A k, l \in DOMAIN es : k < l /\ IsStarted(es[k]) /\ ~ts[es[k].turn].done => es[l].type = "item"
  /\ a # None /\ ~ts[a].done => \A k \in DOMAIN es : es[k].type = "item"

StreamInv == StreamOK(turns, events, thread.active, Running)

LEMMA SeqFacts ==
  ASSUME NEW S, NEW s \in Seq(S)
  PROVE  Len(s) \in Nat /\ DOMAIN s = 1 .. Len(s) /\ (s = <<>> <=> Len(s) = 0)
<1>1. Len(s) \in Nat /\ DOMAIN s = 1 .. Len(s)
  OBVIOUS
<1>2. s = <<>> <=> Len(s) = 0
  OBVIOUS
<1>3. QED
  BY <1>1, <1>2

LEMMA EventTurns ==
  ASSUME NEW ts \in Seq(TurnRecords), NEW es \in Seq(EventsOf(ts)), NEW k \in DOMAIN es
  PROVE  /\ es[k].type \in {"started", "completed", "item"}
         /\ es[k].type # "item" => es[k].turn \in DOMAIN ts
<1>1. es[k] \in EventsOf(ts) /\ DOMAIN ts = 1 .. Len(ts)
  OBVIOUS
<1>2. QED
  BY <1>1 DEF EventsOf

LEMMA ConcatIndex ==
  ASSUME NEW S, NEW s \in Seq(S), NEW t
  PROVE  /\ t = <<t[1], t[2]>> =>
              /\ Len(s \o t) = Len(s) + 2 /\ DOMAIN (s \o t) = 1 .. Len(s) + 2
              /\ \A i \in 1 .. Len(s) : (s \o t)[i] = s[i]
              /\ (s \o t)[Len(s) + 1] = t[1] /\ (s \o t)[Len(s) + 2] = t[2]
         /\ t = <<t[1], t[2], t[3]>> =>
              /\ Len(s \o t) = Len(s) + 3 /\ DOMAIN (s \o t) = 1 .. Len(s) + 3
              /\ \A i \in 1 .. Len(s) : (s \o t)[i] = s[i]
              /\ (s \o t)[Len(s) + 1] = t[1] /\ (s \o t)[Len(s) + 2] = t[2] /\ (s \o t)[Len(s) + 3] = t[3]
<1>1. ASSUME t = <<t[1], t[2]>>
      PROVE  /\ Len(s \o t) = Len(s) + 2 /\ DOMAIN (s \o t) = 1 .. Len(s) + 2
             /\ \A i \in 1 .. Len(s) : (s \o t)[i] = s[i]
             /\ (s \o t)[Len(s) + 1] = t[1] /\ (s \o t)[Len(s) + 2] = t[2]
  <2>1. PICK x, y : t = <<x, y>> /\ x = t[1] /\ y = t[2]
    BY <1>1
  <2>2. Len(<<x, y>>) = 2 /\ <<x, y>>[1] = x /\ <<x, y>>[2] = y /\ Len(s) \in Nat
    OBVIOUS
  <2>3. Len(s \o <<x, y>>) = Len(s) + 2 /\ DOMAIN (s \o <<x, y>>) = 1 .. Len(s) + 2
        /\ (\A i \in 1 .. Len(s) : (s \o <<x, y>>)[i] = s[i])
        /\ (s \o <<x, y>>)[Len(s) + 1] = x /\ (s \o <<x, y>>)[Len(s) + 2] = y
    BY <2>2
  <2>4. QED
    BY <2>1, <2>3
<1>2. ASSUME t = <<t[1], t[2], t[3]>>
      PROVE  /\ Len(s \o t) = Len(s) + 3 /\ DOMAIN (s \o t) = 1 .. Len(s) + 3
             /\ \A i \in 1 .. Len(s) : (s \o t)[i] = s[i]
             /\ (s \o t)[Len(s) + 1] = t[1] /\ (s \o t)[Len(s) + 2] = t[2] /\ (s \o t)[Len(s) + 3] = t[3]
  <2>1. PICK x, y, z : t = <<x, y, z>> /\ x = t[1] /\ y = t[2] /\ z = t[3]
    BY <1>2
  <2>2. Len(<<x, y, z>>) = 3 /\ <<x, y, z>>[1] = x /\ <<x, y, z>>[2] = y /\ <<x, y, z>>[3] = z /\ Len(s) \in Nat
    OBVIOUS
  <2>3. Len(s \o <<x, y, z>>) = Len(s) + 3 /\ DOMAIN (s \o <<x, y, z>>) = 1 .. Len(s) + 3
        /\ (\A i \in 1 .. Len(s) : (s \o <<x, y, z>>)[i] = s[i])
        /\ (s \o <<x, y, z>>)[Len(s) + 1] = x /\ (s \o <<x, y, z>>)[Len(s) + 2] = y
        /\ (s \o <<x, y, z>>)[Len(s) + 3] = z
    BY <2>2
  <2>4. QED
    BY <2>1, <2>3
<1>3. QED
  BY <1>1, <1>2

LEMMA StreamOpen ==
  ASSUME NEW ts \in Seq(TurnRecords), NEW es \in Seq(EventsOf(ts)), NEW a \in 0 .. Len(ts),
         NEW us \in Seq(TurnRecords), Len(us) = Len(ts) + 1, \A t \in DOMAIN ts : us[t] = ts[t],
         StreamOK(ts, es, a, None), Len(ts) # 0 => ts[Len(ts)].done,
         NEW x, NEW y, NEW z, x = Started(Len(ts) + 1), y.type = "item", z.type = "item"
  PROVE  StreamOK(us, es \o <<x, y, z>>, a, Len(us))
<1> DEFINE fs == es \o <<x, y, z>>
           n == Len(es)
<1>1. /\ Len(fs) = n + 3 /\ DOMAIN fs = 1 .. n + 3 /\ DOMAIN es = 1 .. n /\ n \in Nat /\ fs # <<>>
      /\ \A i \in DOMAIN es : fs[i] = es[i]
      /\ fs[n + 1] = x /\ fs[n + 2] = y /\ fs[n + 3] = z
  BY ConcatIndex
<1>2. /\ Len(ts) \in Nat /\ DOMAIN ts = 1 .. Len(ts) /\ DOMAIN us = 1 .. Len(ts) + 1
      /\ es = <<>> <=> n = 0
  OBVIOUS
<1>3. /\ IsStarted(x) /\ ~IsStarted(y) /\ ~IsStarted(z) /\ ~IsCompleted(x) /\ ~IsCompleted(y) /\ ~IsCompleted(z)
      /\ x.turn = Len(ts) + 1
  BY DEF IsStarted, IsCompleted, Started
<1>4. \A t \in DOMAIN ts : us[t].done
  BY <1>2 DEF StreamOK
<1>5. \A k \in DOMAIN es : es[k].type # "item" => es[k].turn \in DOMAIN ts
  BY EventTurns
<1> HIDE DEF fs, n
<1>6. \A k \in DOMAIN fs : k \in DOMAIN es \/ k = n + 1 \/ k = n + 2 \/ k = n + 3
  <2>1. \A k \in 1 .. n + 3 : k \in 1 .. n \/ k = n + 1 \/ k = n + 2 \/ k = n + 3
    BY <1>1
  <2>2. QED
    BY <1>1, <2>1
<1>7. \A t \in DOMAIN us : t < Len(us) => us[t].done
  BY <1>2, <1>4
<1>8. ASSUME NEW k \in DOMAIN fs, k + 1 \in DOMAIN fs PROVE IsCompleted(fs[k]) <=> IsStarted(fs[k + 1])
  <2>1. CASE k + 1 \in DOMAIN es
    BY <1>1, <1>8, <2>1 DEF StreamOK
  <2>2. CASE k = n /\ k \in DOMAIN es
    <3>1. es # <<>> => IsCompleted(es[n])
      BY DEF StreamOK, n
    <3>2. QED
      BY <1>1, <1>2, <1>3, <2>2, <3>1
  <2>3. CASE k = n + 1 \/ k = n + 2
    BY <1>1, <1>3, <2>3
  <2>4. QED
    BY <1>1, <1>8, <2>1, <2>2, <2>3
<1>9. IsCompleted(fs[Len(fs)]) <=> Len(us) = None
  BY <1>1, <1>2, <1>3 DEF None
<1>10. a = None <=> IsStarted(fs[1])
  <2>1. CASE n = 0
    BY <1>1, <1>2, <1>3, <2>1 DEF StreamOK
  <2>2. CASE n # 0
    BY <1>1, <1>2, <2>2 DEF StreamOK
  <2>3. QED
    BY <2>1, <2>2
<1>11. ASSUME NEW k \in DOMAIN fs, NEW l \in DOMAIN fs, k < l, IsStarted(fs[k]), ~us[fs[k].turn].done
       PROVE  fs[l].type = "item"
  <2>1. k \notin DOMAIN es
    <3>1. k \in DOMAIN es => es[k].type # "item"
      BY <1>1, <1>11 DEF IsStarted
    <3>2. QED
      BY <1>1, <1>4, <1>5, <1>11, <3>1
  <2>2. QED
    BY <1>1, <1>6, <1>11, <2>1
<1>12. ~(a # None /\ ~us[a].done)
  BY <1>2, <1>4 DEF None
<1>13. QED
  <2>1. StreamOK(us, fs, a, Len(us))
    BY <1>1, <1>7, <1>8, <1>9, <1>10, <1>11, <1>12 DEF StreamOK
  <2>2. QED
    BY <2>1 DEF fs

\* More items of the turn that runs, or its end.
LEMMA StreamMore ==
  ASSUME NEW ts \in Seq(TurnRecords), NEW es \in Seq(EventsOf(ts)), NEW a \in 0 .. Len(ts),
         NEW us \in Seq(TurnRecords), Len(us) = Len(ts), NEW r \in DOMAIN ts, r = Len(ts),
         \A t \in DOMAIN ts : (ts[t].done => us[t].done) /\ (t # r => us[t] = ts[t]),
         StreamOK(ts, es, a, r), NEW x, NEW y, x.type = "item", NEW q \in {None, r},
         IF q = None THEN y.type = "completed" /\ us[r].done ELSE y.type = "item"
  PROVE  StreamOK(us, es \o <<x, y>>, a, q)
<1> DEFINE fs == es \o <<x, y>>
           n == Len(es)
<1>1. /\ Len(fs) = n + 2 /\ DOMAIN fs = 1 .. n + 2 /\ DOMAIN es = 1 .. n /\ n \in Nat /\ fs # <<>>
      /\ \A i \in DOMAIN es : fs[i] = es[i]
      /\ fs[n + 1] = x /\ fs[n + 2] = y
  BY ConcatIndex
<1>2. /\ Len(ts) \in Nat /\ DOMAIN ts = 1 .. Len(ts) /\ DOMAIN us = 1 .. Len(ts)
      /\ (es = <<>> <=> n = 0) /\ r # None
  BY DEF None
<1>3. /\ ~IsStarted(x) /\ ~IsStarted(y) /\ ~IsCompleted(x) /\ (IsCompleted(y) <=> q = None)
      /\ q = None => us[r].done
  BY DEF IsStarted, IsCompleted
<1>4. \A k \in DOMAIN es : es[k].type # "item" => es[k].turn \in DOMAIN ts
  BY EventTurns
<1> HIDE DEF fs, n
<1>5. \A k \in DOMAIN fs : k \in DOMAIN es \/ k = n + 1 \/ k = n + 2
  BY <1>1
<1>6. \A t \in DOMAIN us : t < Len(us) => us[t].done
  BY <1>2 DEF StreamOK
<1>7. q = None => \A t \in DOMAIN us : us[t].done
  BY <1>2, <1>3, <1>6
<1>8. ASSUME NEW k \in DOMAIN fs, k + 1 \in DOMAIN fs PROVE IsCompleted(fs[k]) <=> IsStarted(fs[k + 1])
  <2>1. CASE k + 1 \in DOMAIN es
    BY <1>1, <1>8, <2>1 DEF StreamOK
  <2>2. CASE k = n /\ k \in DOMAIN es
    <3>1. es # <<>> => ~IsCompleted(es[n])
      BY <1>2 DEF StreamOK, n
    <3>2. QED
      BY <1>1, <1>2, <1>3, <2>2, <3>1
  <2>3. CASE k = n + 1
    BY <1>1, <1>3, <2>3
  <2>4. QED
    BY <1>1, <1>8, <2>1, <2>2, <2>3
<1>9. IsCompleted(fs[Len(fs)]) <=> q = None
  BY <1>1, <1>3
<1>10. a = None <=> IsStarted(fs[1])
  <2>1. CASE n = 0
    BY <1>1, <1>2, <1>3, <2>1 DEF StreamOK
  <2>2. CASE n # 0
    BY <1>1, <1>2, <2>2 DEF StreamOK
  <2>3. QED
    BY <2>1, <2>2
<1>11. ASSUME NEW k \in DOMAIN fs, NEW l \in DOMAIN fs, k < l, IsStarted(fs[k]), ~us[fs[k].turn].done
       PROVE  fs[l].type = "item"
  <2>1. k \in DOMAIN es
    BY <1>1, <1>3, <1>5, <1>11
  <2>2. es[k] = fs[k] /\ IsStarted(es[k]) /\ es[k].turn \in DOMAIN ts
    BY <1>1, <1>4, <1>11, <2>1 DEF IsStarted
  <2>3. ~ts[es[k].turn].done /\ q # None
    BY <1>2, <1>7, <1>11, <2>2
  <2>4. CASE l \in DOMAIN es
    BY <1>1, <1>11, <2>1, <2>2, <2>3, <2>4 DEF StreamOK
  <2>5. CASE l = n + 1 \/ l = n + 2
    BY <1>1, <2>3, <2>5
  <2>6. QED
    BY <1>5, <2>4, <2>5
<1>12. ASSUME a # None, ~us[a].done, NEW k \in DOMAIN fs PROVE fs[k].type = "item"
  <2>1. a \in DOMAIN ts
    <3>1. a \in 0 .. Len(ts) /\ a # 0
      BY <1>12 DEF None
    <3>2. QED
      BY <1>2, <3>1
  <2>2. ~ts[a].done /\ q # None
    BY <1>2, <1>7, <1>12, <2>1
  <2>3. CASE k \in DOMAIN es
    BY <1>1, <1>12, <2>2, <2>3 DEF StreamOK
  <2>4. CASE k = n + 1 \/ k = n + 2
    BY <1>1, <2>2, <2>4
  <2>5. QED
    BY <1>5, <2>3, <2>4
<1>13. QED
  BY <1>1, <1>6, <1>8, <1>9, <1>10, <1>11, <1>12 DEF StreamOK, fs

\* The event at the head is applied.
LEMMA StreamHead ==
  ASSUME NEW ts \in Seq(TurnRecords), NEW es \in Seq(EventsOf(ts)), es # <<>>, NEW a \in 0 .. Len(ts),
         NEW r \in 0 .. Len(ts), StreamOK(ts, es, a, r), NEW b \in 0 .. Len(ts),
         CASE es[1].type = "started"   -> b = es[1].turn
           [] es[1].type = "completed" -> b = None
           [] es[1].type = "item"      -> b = a
  PROVE  StreamOK(ts, Tail(es), b, r)
<1> DEFINE fs == Tail(es)
           n == Len(es)
<1>1. /\ n \in Nat /\ n # 0 /\ DOMAIN es = 1 .. n /\ Len(fs) = n - 1 /\ DOMAIN fs = 1 .. n - 1
      /\ (fs = <<>> <=> n = 1) /\ Len(ts) \in Nat /\ DOMAIN ts = 1 .. Len(ts)
  <2>1. n \in Nat /\ n # 0 /\ DOMAIN es = 1 .. n /\ Len(ts) \in Nat /\ DOMAIN ts = 1 .. Len(ts)
    OBVIOUS
  <2>2. fs \in Seq(EventsOf(ts)) /\ Len(fs) = n - 1
    BY <2>1
  <2> HIDE DEF fs, n
  <2>3. DOMAIN fs = 1 .. n - 1 /\ (fs = <<>> <=> n - 1 = 0)
    <3>1. DOMAIN fs = 1 .. Len(fs) /\ (fs = <<>> <=> Len(fs) = 0)
      BY <2>2, SeqFacts
    <3>2. QED
      BY <2>2, <3>1
  <2>4. QED
    BY <2>1, <2>2, <2>3
<1>2. \A i \in DOMAIN fs : i + 1 \in DOMAIN es /\ fs[i] = es[i + 1]
  OBVIOUS
<1>3. /\ 1 \in DOMAIN es /\ es[1].type \in {"started", "completed", "item"}
      /\ es[1].type # "item" => es[1].turn \in DOMAIN ts
  BY <1>1, EventTurns
<1> HIDE DEF fs, n
<1>4. \A k \in DOMAIN fs : k + 1 \in DOMAIN fs => (IsCompleted(fs[k]) <=> IsStarted(fs[k + 1]))
  <2>1. ASSUME NEW k \in DOMAIN fs, k + 1 \in DOMAIN fs PROVE IsCompleted(fs[k]) <=> IsStarted(fs[k + 1])
    <3>1. k + 1 \in DOMAIN es /\ (k + 1) + 1 \in DOMAIN es /\ fs[k] = es[k + 1] /\ fs[k + 1] = es[(k + 1) + 1]
      BY <1>2, <2>1
    <3>2. QED
      BY <3>1 DEF StreamOK
  <2>2. QED
    BY <2>1
<1>5. fs # <<>> => (IsCompleted(fs[Len(fs)]) <=> r = None)
  <2>1. IsCompleted(es[n]) <=> r = None
    BY DEF StreamOK, n
  <2>2. fs # <<>> => Len(fs) \in DOMAIN fs /\ Len(fs) + 1 = n
    BY <1>1
  <2>3. QED
    BY <1>2, <2>1, <2>2
<1>6. b = None <=> IsCompleted(es[1])
  <2>1. a = None <=> IsStarted(es[1])
    BY DEF StreamOK
  <2>2. 0 \notin DOMAIN ts
    BY <1>1
  <2>3. QED
    BY <1>3, <2>1, <2>2 DEF IsStarted, IsCompleted, None
<1>7. IF fs = <<>> THEN b = None <=> r = None ELSE b = None <=> IsStarted(fs[1])
  <2>1. CASE fs = <<>>
    <3>1. IsCompleted(es[1]) <=> r = None
      BY <1>1, <2>1 DEF StreamOK, n
    <3>2. QED
      BY <1>6, <2>1, <3>1
  <2>2. CASE fs # <<>>
    <3>1. 1 \in DOMAIN fs /\ fs[1] = es[2] /\ 1 + 1 = 2 /\ 2 \in DOMAIN es
      BY <1>1, <1>2, <2>2
    <3>2. IsCompleted(es[1]) <=> IsStarted(es[2])
      BY <1>3, <3>1 DEF StreamOK
    <3>3. QED
      BY <1>6, <2>2, <3>1, <3>2
  <2>3. QED
    BY <2>1, <2>2
<1>8. ASSUME NEW k \in DOMAIN fs, NEW l \in DOMAIN fs, k < l, IsStarted(fs[k]), ~ts[fs[k].turn].done
      PROVE  fs[l].type = "item"
  <2>1. /\ k + 1 \in DOMAIN es /\ l + 1 \in DOMAIN es /\ k + 1 < l + 1 /\ fs[k] = es[k + 1] /\ fs[l] = es[l + 1]
    BY <1>1, <1>2, <1>8
  <2>2. QED
    BY <1>8, <2>1 DEF StreamOK
<1>9. ASSUME b # None, ~ts[b].done, NEW k \in DOMAIN fs PROVE fs[k].type = "item"
  <2>1. k + 1 \in DOMAIN es /\ fs[k] = es[k + 1] /\ 1 < k + 1
    BY <1>1, <1>2, <1>9
  <2>2. CASE es[1].type = "started"
    <3>1. IsStarted(es[1]) /\ ~ts[es[1].turn].done
      BY <1>9, <2>2 DEF IsStarted
    <3>2. QED
      BY <1>3, <2>1, <3>1 DEF StreamOK
  <2>3. CASE es[1].type = "item"
    BY <1>9, <2>1, <2>3 DEF StreamOK
  <2>4. QED
    BY <1>3, <1>6, <1>9, <2>2, <2>3 DEF IsCompleted
<1>10. StreamOK(ts, fs, b, r)
  BY <1>4, <1>5, <1>7, <1>8, <1>9 DEF StreamOK
<1>11. QED
  BY <1>10 DEF fs

\* The stream, under the three things a server does.
\* What a new turn sends.
LEMMA OpenEmits ==
  ASSUME NEW x, Open(x), link, subscribed
  PROVE  LET i == Item(Len(turns) + 1, 1, x)
         IN  events' = events \o <<Started(Len(turns) + 1), ItemEvent(i), ItemEvent(i)>>
<1> DEFINE n == Len(turns)
           i == Item(n + 1, 1, x)
<1>1. <<Started(n + 1)>> \o Echo(i) = <<Started(n + 1), ItemEvent(i), ItemEvent(i)>>
  <2>1. ASSUME NEW u, NEW v PROVE <<u>> \o <<v, v>> = <<u, v, v>>
    <3> DEFINE s == <<u>> \o <<v, v>>
    <3>1. s \in Seq({u, v}) /\ Len(s) = 3 /\ s[1] = u /\ s[2] = v /\ s[3] = v
      OBVIOUS
    <3> HIDE DEF s
    <3>2. s = <<u, v, v>>
      BY <3>1
    <3>3. QED
      BY <3>2 DEF s
  <2>2. QED
    BY <2>1 DEF Echo
<1>2. QED
  BY <1>1 DEF Open, Emit

LEMMA StreamOpened ==
  ASSUME Types, StreamInv, NEW x \in Texts, Open(x), link, subscribed, thread'.active = thread.active
  PROVE  StreamInv'
<1> DEFINE n == Len(turns)
           i == Item(n + 1, 1, x)
<1>1. /\ Running = None /\ Len(turns') = n + 1 /\ turns' \in Seq(TurnRecords)
      /\ \A t \in DOMAIN turns : turns'[t] = turns[t]
      /\ turns'[Len(turns')] = [users |-> <<x>>, done |-> FALSE]
  BY OpenFacts DEF Grows
<1>2. events' = events \o <<Started(n + 1), ItemEvent(i), ItemEvent(i)>>
  BY OpenEmits
<1>3. turns \in Seq(TurnRecords) /\ events \in Seq(EventsOf(turns)) /\ thread.active \in 0 .. Len(turns)
  BY DEF Types, ServerType, ThreadType, Snapshot
<1>4. Len(turns) # 0 => turns[Len(turns)].done
  BY <1>1, RunningFacts
<1>5. ItemEvent(i).type = "item"
  BY DEF ItemEvent
<1> HIDE DEF i
<1>6. StreamOK(turns', events \o <<Started(n + 1), ItemEvent(i), ItemEvent(i)>>, thread.active, Len(turns'))
  BY <1>1, <1>3, <1>4, <1>5, StreamOpen DEF StreamInv
<1>7. Running' = Len(turns')
  <2>1. turns'[Len(turns')].done = FALSE
    BY <1>1
  <2>2. turns' # <<>> /\ Last(turns') = turns'[Len(turns')]
    BY <1>1 DEF Last
  <2>3. QED
    BY <2>1, <2>2 DEF Running
<1>8. QED
  BY <1>2, <1>6, <1>7 DEF StreamInv

LEMMA StreamInjected ==
  ASSUME Types, StreamInv, NEW x \in Texts, Inject(x), link, subscribed, thread'.active = thread.active
  PROVE  StreamInv'
<1> DEFINE n == Running
           i == Item(n, Len(turns[n].users) + 1, x)
<1>1. /\ Running # None /\ Len(turns') = Len(turns) /\ turns' \in Seq(TurnRecords)
      /\ \A t \in DOMAIN turns : t # n => turns'[t] = turns[t]
      /\ turns'[n] = [users |-> Append(turns[n].users, x), done |-> FALSE]
  BY InjectFacts DEF Grows
<1>2. events' = events \o <<ItemEvent(i), ItemEvent(i)>>
  BY DEF Inject, Emit, Echo
<1>3. turns \in Seq(TurnRecords) /\ events \in Seq(EventsOf(turns)) /\ thread.active \in 0 .. Len(turns)
  BY DEF Types, ServerType, ThreadType, Snapshot
<1>4. n = Len(turns) /\ n \in DOMAIN turns /\ ~turns[n].done
  BY <1>1, RunningFacts
<1>5. ItemEvent(i).type = "item"
  BY DEF ItemEvent
<1>6. StreamOK(turns, events, thread.active, n) /\ n # None
  BY <1>1 DEF StreamInv
<1>7. turns'[n].done = FALSE
  BY <1>1
<1> HIDE DEF i, n
<1>8. \A t \in DOMAIN turns : (turns[t].done => turns'[t].done) /\ (t # n => turns'[t] = turns[t])
  BY <1>1, <1>4
<1>9. StreamOK(turns', events \o <<ItemEvent(i), ItemEvent(i)>>, thread.active, n)
  BY <1>1, <1>3, <1>4, <1>5, <1>6, <1>8, StreamMore
<1>10. Running' = Len(turns')
  <2>1. turns' # <<>> /\ Last(turns') = turns'[Len(turns')]
    BY <1>1, <1>3, <1>4 DEF Last
  <2>2. QED
    BY <1>1, <1>4, <1>7, <2>1 DEF Running
<1>11. QED
  BY <1>1, <1>2, <1>4, <1>9, <1>10 DEF StreamInv

LEMMA StreamFinished ==
  ASSUME Types, StreamInv, Finish, link, subscribed
  PROVE  StreamInv'
<1> DEFINE n == Running
           x == ItemEvent(ReplyOf(n))
           y == Completed(n)
<1>1. /\ n # None /\ Len(turns') = Len(turns) /\ turns' \in Seq(TurnRecords)
      /\ \A t \in DOMAIN turns : t # n => turns'[t] = turns[t]
      /\ turns'[n].done
  BY FinishFacts DEF Grows
<1>2. events' = events \o <<x, y>> /\ UNCHANGED thread
  BY DEF Finish, Emit
<1>3. turns \in Seq(TurnRecords) /\ events \in Seq(EventsOf(turns)) /\ thread.active \in 0 .. Len(turns)
  BY DEF Types, ServerType, ThreadType, Snapshot
<1>4. n = Len(turns) /\ n \in DOMAIN turns /\ ~turns[n].done
  BY <1>1, RunningFacts
<1>5. x.type = "item" /\ y.type = "completed"
  BY DEF ItemEvent, Completed
<1>6. StreamOK(turns, events, thread.active, n)
  BY <1>1 DEF StreamInv
<1> HIDE DEF x, y, n
<1>7. \A t \in DOMAIN turns : (turns[t].done => turns'[t].done) /\ (t # n => turns'[t] = turns[t])
  BY <1>1, <1>4
<1>8. StreamOK(turns', events \o <<x, y>>, thread.active, None)
  BY <1>1, <1>3, <1>4, <1>5, <1>6, <1>7, StreamMore
<1>9. Running' = None
  <2>1. Last(turns') = turns'[Len(turns')]
    BY <1>1 DEF Last
  <2>2. QED
    BY <1>1, <1>4, <2>1 DEF Running
<1>10. QED
  BY <1>1, <1>2, <1>8, <1>9 DEF StreamInv

\* The turn the thread shows once an event is applied.
LEMMA ReceivedActive ==
  ASSUME Types, Receive
  PROVE  \E b \in 0 .. Len(turns) : /\ thread'.active = b
                                    /\ CASE events[1].type = "started"   -> b = events[1].turn
                                         [] events[1].type = "completed" -> b = None
                                         [] events[1].type = "item"      -> b = thread.active
<1>1. /\ turns \in Seq(TurnRecords) /\ Len(turns) \in Nat /\ Snapshot(thread, turns) /\ None \in 0 .. Len(turns)
      /\ thread.active \in 0 .. Len(turns)
  BY DEF Types, ServerType, ThreadType, Snapshot, None
<1>2. Head(events) = events[1]
  BY EventFacts DEF Receive
<1>3. CASE /\ events[1].type = "started" /\ events[1].turn \in 1 .. Len(turns)
           /\ Update(OnStarted(thread, events[1].turn))
  <2>1. PICK t \in 0 .. Len(turns) : t = events[1].turn
    BY <1>1, <1>3
  <2>2. OnStarted(thread, t).active = t /\ thread' = OnStarted(thread, t)
    BY <1>1, <1>3, <2>1, StartedFacts DEF Update
  <2>3. QED
    BY <1>3, <2>1, <2>2
<1>4. CASE events[1].type = "completed" /\ Update(OnCompleted(thread))
  <2>1. OnCompleted(thread).active = None /\ thread' = OnCompleted(thread)
    BY <1>1, <1>4, CompletedFacts DEF Update
  <2>2. QED
    BY <1>1, <1>4, <2>1
<1>5. CASE /\ events[1].type = "item" /\ events[1].item \in AllItems(turns)
           /\ Update(OnItem(thread, events[1].item))
  <2>1. OnItem(thread, events[1].item).active = thread.active /\ thread' = OnItem(thread, events[1].item)
    BY <1>1, <1>5, ItemFacts DEF Update
  <2>2. QED
    BY <1>1, <1>5, <2>1
<1>6. QED
  BY <1>2, <1>3, <1>4, <1>5, ReceiveCases

LEMMA StreamReceived ==
  ASSUME Types, StreamInv, Receive
  PROVE  StreamInv'
<1>1. UNCHANGED turns /\ events # <<>> /\ events' = Tail(events) /\ Running' = Running
  BY DEF Receive, Running
<1>2. /\ turns \in Seq(TurnRecords) /\ events \in Seq(EventsOf(turns)) /\ thread.active \in 0 .. Len(turns)
      /\ Len(turns) \in Nat /\ Snapshot(thread, turns) /\ None \in 0 .. Len(turns)
  BY DEF Types, ServerType, ThreadType, Snapshot, None
<1>3. Head(events) = events[1]
  BY <1>1, EventFacts
<1>4. PICK b \in 0 .. Len(turns) : /\ thread'.active = b
                                  /\ CASE events[1].type = "started"   -> b = events[1].turn
                                       [] events[1].type = "completed" -> b = None
                                       [] events[1].type = "item"      -> b = thread.active
  BY ReceivedActive
<1>5. Running \in 0 .. Len(turns)
  BY RunningFacts
<1>6. StreamOK(turns, Tail(events), b, Running)
  BY <1>1, <1>2, <1>4, <1>5, StreamHead DEF StreamInv
<1>7. QED
  BY <1>1, <1>4, <1>6 DEF StreamInv

PlacesIn(ts, m) ==
  UNION {{t} \X {n \in DOMAIN ts[t].users : ts[t].users[n] = m} : t \in DOMAIN ts}

\* A steering that the turn may yet take.
Live(k) == tap[k].pc = "asked" /\ ~turns[tap[k].saw].done

DraftInv ==
  /\ Distinct(thread.drafts)
  /\ \A i \in DOMAIN thread.drafts : op[thread.drafts[i].text].pc = "queued"

Unsent == {"idle", "deciding", "steering", "asked", "failed", "error"}
OnceInv ==
  \A m \in Msgs : /\ op[m].pc \in Unsent => PlacesIn(turns, m) = {}
                  /\ \A p, q \in PlacesIn(turns, m) : p = q

\* A draft that the agent has: the listener sent it and its TurnStarted will take
\* it away, or it was steered and the TurnCompleted will.
SentInv ==
  \A i \in DOMAIN thread.drafts : PlacesIn(turns, thread.drafts[i].text) # {} =>
    \/ listener.pc \in {"answered", "recv"} /\ thread.active = None /\ i = 1
    \/ thread.drafts[i].kind = "PendingSteer" /\ thread.active # None

AutoInv ==
  /\ listener.pc # "recv" => thread.active = None
  /\ listener.pc = "asked" =>
        /\ listener.msg \in Msgs /\ op[listener.msg].pc = "queued" /\ PlacesIn(turns, listener.msg) = {}
        /\ \A i \in DOMAIN thread.drafts : thread.drafts[i].text = listener.msg => i = 1

TapOK(k) ==
  /\ tap[k].saw # None => thread.active = tap[k].saw \/ turns[tap[k].saw].done
  /\ tap[k].pc \in {"begin", "asked", "delete"} => tap[k].msg \in Msgs /\ op[tap[k].msg].pc = "queued"
  /\ tap[k].pc = "asked" => tap[k].saw # None
  /\ Live(k) =>
       /\ PlacesIn(turns, tap[k].msg) = {}
       /\ \A i \in DOMAIN thread.drafts :
            thread.drafts[i].text = tap[k].msg => thread.drafts[i].kind = "PendingSteer"
       /\ \A j \in Taps : Live(j) /\ tap[j].msg = tap[k].msg => j = k

QueueInv ==
  /\ link /\ subscribed /\ refresh.pc = "idle"
  /\ DraftInv /\ OnceInv /\ SentInv /\ AutoInv /\ \A k \in Taps : TapOK(k)

LEMMA PlacesAre ==
  ASSUME NEW ts, NEW m
  PROVE  \A p : p \in PlacesIn(ts, m) <=> \E t \in DOMAIN ts : \E n \in DOMAIN ts[t].users :
                                            ts[t].users[n] = m /\ p = <<t, n>>
BY DEF PlacesIn

LEMMA PlacesSame ==
  ASSUME NEW ts, NEW us, DOMAIN us = DOMAIN ts, \A t \in DOMAIN ts : us[t].users = ts[t].users, NEW m
  PROVE  PlacesIn(us, m) = PlacesIn(ts, m)
BY DEF PlacesIn

LEMMA PlacesSent ==
  ASSUME Types, NEW x \in Texts, Open(x) \/ Inject(x)
  PROVE  /\ \A m : m # x => PlacesIn(turns', m) = PlacesIn(turns, m)
         /\ \E p : PlacesIn(turns', x) = PlacesIn(turns, x) \cup {p}
<1>1. /\ turns \in Seq(TurnRecords) /\ turns' \in Seq(TurnRecords)
      /\ Len(turns) \in Nat /\ DOMAIN turns = 1 .. Len(turns) /\ DOMAIN turns' = 1 .. Len(turns')
  <2>1. Grows
    BY OpenFacts, InjectFacts
  <2>2. QED
    BY <2>1 DEF Grows, Types, ServerType
<1>2. ASSUME Open(x) PROVE /\ \A m : m # x => PlacesIn(turns', m) = PlacesIn(turns, m)
                           /\ \E p : PlacesIn(turns', x) = PlacesIn(turns, x) \cup {p}
  <2> DEFINE l == Len(turns) + 1
  <2>1. Len(turns') = l /\ (\A t \in DOMAIN turns : turns'[t] = turns[t])
        /\ turns'[Len(turns')] = [users |-> <<x>>, done |-> FALSE]
    BY <1>2, OpenFacts
  <2>2. turns'[l].users = <<x>> /\ DOMAIN <<x>> = {1} /\ <<x>>[1] = x
    BY <2>1
  <2>3. DOMAIN turns' = DOMAIN turns \cup {l}
    BY <1>1, <2>1
  <2>4. \A t \in DOMAIN turns : turns'[t].users = turns[t].users
    BY <2>1
  <2> HIDE DEF l
  <2>5. ASSUME NEW m, NEW p PROVE p \in PlacesIn(turns', m) <=> p \in PlacesIn(turns, m) \/ (m = x /\ p = <<l, 1>>)
    <3>1. p \in PlacesIn(turns', m) <=> \E t \in DOMAIN turns' : \E n \in DOMAIN turns'[t].users :
                                          turns'[t].users[n] = m /\ p = <<t, n>>
      BY PlacesAre
    <3>2. p \in PlacesIn(turns, m) <=> \E t \in DOMAIN turns : \E n \in DOMAIN turns[t].users :
                                         turns[t].users[n] = m /\ p = <<t, n>>
      BY PlacesAre
    <3>3. QED
      BY <2>2, <2>3, <2>4, <3>1, <3>2
  <2>6. ASSUME NEW m, m # x PROVE PlacesIn(turns', m) = PlacesIn(turns, m)
    BY <2>5, <2>6
  <2>7. PlacesIn(turns', x) = PlacesIn(turns, x) \cup {<<l, 1>>}
    BY <2>5
  <2>8. QED
    BY <2>6, <2>7
<1>3. ASSUME Inject(x) PROVE /\ \A m : m # x => PlacesIn(turns', m) = PlacesIn(turns, m)
                             /\ \E p : PlacesIn(turns', x) = PlacesIn(turns, x) \cup {p}
  <2> DEFINE l == Running
             us == turns[l].users
             k == Len(us) + 1
  <2>1. /\ Running # None /\ Len(turns') = Len(turns) /\ (\A t \in DOMAIN turns : t # l => turns'[t] = turns[t])
        /\ turns'[l] = [users |-> Append(us, x), done |-> FALSE]
    BY <1>3, InjectFacts
  <2>2. l \in DOMAIN turns
    BY <2>1, RunningFacts
  <2>3. us \in Seq(Texts)
    BY <1>1, <2>2, SeqOfTurns
  <2>4. turns'[l].users = Append(us, x)
    BY <2>1
  <2>5. /\ DOMAIN Append(us, x) = DOMAIN us \cup {k} /\ Append(us, x)[k] = x /\ k \notin DOMAIN us
        /\ \A n \in DOMAIN us : Append(us, x)[n] = us[n]
    BY <2>3
  <2>6. DOMAIN turns' = DOMAIN turns /\ \A t \in DOMAIN turns : t # l => turns'[t].users = turns[t].users
    BY <1>1, <2>1
  <2>7. turns[l].users = us
    OBVIOUS
  <2> HIDE DEF l, us, k
  <2>8. ASSUME NEW m, NEW p PROVE p \in PlacesIn(turns', m) <=> p \in PlacesIn(turns, m) \/ (m = x /\ p = <<l, k>>)
    <3>1. p \in PlacesIn(turns', m) <=> \E t \in DOMAIN turns' : \E n \in DOMAIN turns'[t].users :
                                          turns'[t].users[n] = m /\ p = <<t, n>>
      BY PlacesAre
    <3>2. p \in PlacesIn(turns, m) <=> \E t \in DOMAIN turns : \E n \in DOMAIN turns[t].users :
                                         turns[t].users[n] = m /\ p = <<t, n>>
      BY PlacesAre
    <3>3. QED
      BY <2>2, <2>4, <2>5, <2>6, <2>7, <3>1, <3>2
  <2>9. ASSUME NEW m, m # x PROVE PlacesIn(turns', m) = PlacesIn(turns, m)
    BY <2>8, <2>9
  <2>10. PlacesIn(turns', x) = PlacesIn(turns, x) \cup {<<l, k>>}
    BY <2>8
  <2>11. QED
    BY <2>9, <2>10
<1>4. QED
  BY <1>2, <1>3

LEMMA DraftMsgs ==
  ASSUME Types
  PROVE  \A i \in DOMAIN thread.drafts : thread.drafts[i].text \in Msgs
<1>1. \A i \in DOMAIN thread.drafts : thread.drafts[i] \in Drafts
  BY DEF Types, ThreadType, Snapshot
<1>2. QED
  BY <1>1 DEF Drafts

\* Turns stay complete.
LEMMA DoneStaysDone ==
  ASSUME Types, Grows, NEW t \in Turns, t # None
  PROVE  t \in DOMAIN turns /\ (turns[t].done => turns'[t].done)
<1>1. turns \in Seq(TurnRecords) /\ Extends(turns', turns)
  BY DEF Types, ServerType, Grows
<1>2. t \in DOMAIN turns
  BY <1>1 DEF Turns, None
<1>3. QED
  BY <1>1, <1>2 DEF Extends

\* A tap to which nothing happens.
LEMMA TapStays ==
  ASSUME Types, Grows, NEW k \in Taps, \A j \in Taps : TapOK(j), tap'[k] = tap[k],
         \/ thread'.active = thread.active
         \/ thread.active # None => turns[thread.active].done,
         \A m \in Msgs : op[m].pc = "queued" => op'[m].pc = "queued",
         Live(k) => PlacesIn(turns', tap[k].msg) = PlacesIn(turns, tap[k].msg),
         \A i \in DOMAIN thread'.drafts :
            \/ ~(Live(k) /\ thread'.drafts[i].text = tap[k].msg)
            \/ thread'.drafts[i].kind = "PendingSteer"
            \/ \E j \in DOMAIN thread.drafts : /\ thread'.drafts[i].text = thread.drafts[j].text
                                              /\ thread'.drafts[i].kind = thread.drafts[j].kind,
         \A j \in Taps : \/ tap'[j] = tap[j] \/ tap'[j].pc # "asked"
                         \/ ~(Live(k) /\ tap'[j].msg = tap[k].msg)
  PROVE  TapOK(k)'
<1>1. tap[k].saw \in Turns /\ TapOK(k)
  BY TapFacts
<1>2. tap[k].saw # None => (turns[tap[k].saw].done => turns'[tap[k].saw].done)
  BY <1>1, DoneStaysDone
<1>3. ASSUME tap[k].saw # None PROVE thread'.active = tap[k].saw \/ turns'[tap[k].saw].done
  BY <1>2, <1>3 DEF TapOK
<1>4. tap[k].pc \in {"begin", "asked", "delete"} => tap[k].msg \in Msgs /\ op'[tap[k].msg].pc = "queued"
  BY DEF TapOK
<1>5. ASSUME tap[k].pc = "asked", ~turns'[tap[k].saw].done
      PROVE  /\ PlacesIn(turns', tap[k].msg) = {}
             /\ \A i \in DOMAIN thread'.drafts :
                  thread'.drafts[i].text = tap[k].msg => thread'.drafts[i].kind = "PendingSteer"
             /\ \A j \in Taps : tap'[j].pc = "asked" /\ ~turns'[tap'[j].saw].done /\ tap'[j].msg = tap[k].msg => j = k
  <2>1. Live(k)
    BY <1>2, <1>5 DEF TapOK, Live
  <2>2. PlacesIn(turns', tap[k].msg) = {}
    BY <2>1 DEF TapOK
  <2>3. \A i \in DOMAIN thread'.drafts :
          thread'.drafts[i].text = tap[k].msg => thread'.drafts[i].kind = "PendingSteer"
    BY <2>1 DEF TapOK
  <2>4. ASSUME NEW j \in Taps, tap'[j].pc = "asked", ~turns'[tap'[j].saw].done, tap'[j].msg = tap[k].msg PROVE j = k
    <3>1. tap'[j] = tap[j]
      BY <2>1, <2>4
    <3>2. tap[j].pc = "asked" /\ tap[j].saw # None /\ tap[j].msg = tap[k].msg
      BY <2>4, <3>1 DEF TapOK
    <3>3. tap[j].saw \in Turns
      BY TapFacts
    <3>4. turns[tap[j].saw].done => turns'[tap[j].saw].done
      BY <3>2, <3>3, DoneStaysDone
    <3>5. Live(j)
      BY <2>4, <3>1, <3>2, <3>4 DEF Live
    <3>6. QED
      BY <2>1, <3>2, <3>5 DEF TapOK
  <2>5. QED
    BY <2>2, <2>3, <2>4
<1>6. QED
  BY <1>3, <1>4, <1>5 DEF TapOK, Live

\* Drafts es that were among the drafts ds: the first stays the first.
From(es, ds) ==
  /\ Distinct(es)
  /\ \A i \in DOMAIN es : \E j \in DOMAIN ds :
       /\ es[i].text = ds[j].text /\ (j = 1 => i = 1)
       /\ es[i].kind = ds[j].kind \/ es[i].kind = "PendingSteer"

LEMMA FromSame == ASSUME NEW ds, Distinct(ds) PROVE From(ds, ds)
BY DEF From

QueuedStay == \A m \in Msgs : op[m].pc = "queued" => op'[m].pc = "queued"

LEMMA DraftsKept ==
  ASSUME Types, DraftInv, QueuedStay, NEW ds, ds = thread'.drafts, From(ds, thread.drafts)
  PROVE  DraftInv'
<1>1. \A i \in DOMAIN ds : \E j \in DOMAIN thread.drafts : ds[i].text = thread.drafts[j].text
  BY DEF From
<1>2. ASSUME NEW i \in DOMAIN ds PROVE op'[ds[i].text].pc = "queued"
  BY <1>1, DraftMsgs DEF DraftInv, QueuedStay
<1>3. Distinct(ds)
  BY DEF From
<1>4. QED
  BY <1>2, <1>3 DEF DraftInv, Distinct

LEMMA SentKept ==
  ASSUME SentInv, NEW ds, ds = thread'.drafts, From(ds, thread.drafts), thread'.active = thread.active,
         listener'.pc = listener.pc \/ (listener.pc \in {"answered", "recv"} => listener'.pc \in {"answered", "recv"}),
         \A i \in DOMAIN thread.drafts :
            PlacesIn(turns', thread.drafts[i].text) = PlacesIn(turns, thread.drafts[i].text)
  PROVE  SentInv'
<1>1. ASSUME NEW i \in DOMAIN ds, PlacesIn(turns', ds[i].text) # {}
      PROVE  \/ listener'.pc \in {"answered", "recv"} /\ thread'.active = None /\ i = 1
             \/ ds[i].kind = "PendingSteer" /\ thread'.active # None
  <2>1. PICK j \in DOMAIN thread.drafts :
          /\ ds[i].text = thread.drafts[j].text /\ (j = 1 => i = 1)
          /\ ds[i].kind = thread.drafts[j].kind \/ ds[i].kind = "PendingSteer"
    BY DEF From
  <2>2. \/ listener.pc \in {"answered", "recv"} /\ thread.active = None /\ j = 1
        \/ thread.drafts[j].kind = "PendingSteer" /\ thread.active # None
    BY <1>1, <2>1 DEF SentInv
  <2>3. QED
    BY <2>1, <2>2
<1>2. QED
  BY <1>1 DEF SentInv

LEMMA AutoKept ==
  ASSUME AutoInv, QueuedStay, NEW ds, ds = thread'.drafts, From(ds, thread.drafts), UNCHANGED listener,
         thread'.active = thread.active,
         \A m \in Msgs : op[m].pc = "queued" => PlacesIn(turns', m) = PlacesIn(turns, m)
  PROVE  AutoInv'
<1>1. ASSUME listener.pc = "asked", NEW i \in DOMAIN ds, ds[i].text = listener.msg PROVE i = 1
  <2>1. PICK j \in DOMAIN thread.drafts : ds[i].text = thread.drafts[j].text /\ (j = 1 => i = 1)
    BY DEF From
  <2>2. QED
    BY <1>1, <2>1 DEF AutoInv
<1>2. QED
  BY <1>1 DEF AutoInv, QueuedStay

LEMMA TapKept ==
  ASSUME Types, QueueInv, Grows, QueuedStay, NEW k \in Taps, tap'[k] = tap[k],
         NEW ds, ds = thread'.drafts, From(ds, thread.drafts),
         \/ thread'.active = thread.active
         \/ thread.active # None => turns[thread.active].done,
         Live(k) => PlacesIn(turns', tap[k].msg) = PlacesIn(turns, tap[k].msg),
         \A j \in Taps : \/ tap'[j] = tap[j] \/ tap'[j].pc # "asked"
                         \/ ~(Live(k) /\ tap'[j].msg = tap[k].msg)
  PROVE  TapOK(k)'
<1>1. \A i \in DOMAIN thread'.drafts :
            \/ ~(Live(k) /\ thread'.drafts[i].text = tap[k].msg)
            \/ thread'.drafts[i].kind = "PendingSteer"
            \/ \E j \in DOMAIN thread.drafts : /\ thread'.drafts[i].text = thread.drafts[j].text
                                              /\ thread'.drafts[i].kind = thread.drafts[j].kind
  BY DEF From
<1>2. \A j \in Taps : TapOK(j)
  BY DEF QueueInv
<1>3. QED
  BY <1>1, <1>2, TapStays DEF QueuedStay

LEMMA OnceSame ==
  ASSUME OnceInv, UNCHANGED op, \A m \in Msgs : PlacesIn(turns', m) = PlacesIn(turns, m)
  PROVE  OnceInv'
BY DEF OnceInv

LEMMA OnceSent ==
  ASSUME Types, OnceInv, UNCHANGED op, NEW x \in Texts, Open(x) \/ Inject(x),
         x \in Msgs => op[x].pc \notin Unsent /\ PlacesIn(turns, x) = {}
  PROVE  OnceInv'
<1>1. PICK p : PlacesIn(turns', x) = PlacesIn(turns, x) \cup {p}
  BY PlacesSent
<1>2. \A m : m # x => PlacesIn(turns', m) = PlacesIn(turns, m)
  BY PlacesSent
<1>3. QED
  BY <1>1, <1>2 DEF OnceInv

\* A step of the queue that leaves the listener and the active turn alone.
LEMMA QueueKept ==
  ASSUME Types, QueueInv, Grows, QueuedStay, UNCHANGED <<listener, refresh, link, subscribed>>,
         NEW ds, ds = thread'.drafts, From(ds, thread.drafts), thread'.active = thread.active,
         \A m \in Msgs : op[m].pc = "queued" => PlacesIn(turns', m) = PlacesIn(turns, m),
         OnceInv', \A k \in Taps : tap'[k] = tap[k] \/ TapOK(k)',
         \A j, k \in Taps : \/ tap'[j] = tap[j] \/ tap'[j].pc # "asked"
                            \/ ~(Live(k) /\ tap'[j].msg = tap[k].msg)
  PROVE  QueueInv'
<1>1. DraftInv'
  BY DraftsKept DEF QueueInv
<1>2. SentInv'
  <2>1. \A i \in DOMAIN thread.drafts :
            PlacesIn(turns', thread.drafts[i].text) = PlacesIn(turns, thread.drafts[i].text)
    BY DraftMsgs DEF QueueInv, DraftInv
  <2>2. QED
    BY <2>1, SentKept DEF QueueInv
<1>3. AutoInv'
  BY AutoKept DEF QueueInv
<1>4. ASSUME NEW k \in Taps PROVE TapOK(k)'
  <2>1. CASE tap'[k] = tap[k]
    <3>1. Live(k) => PlacesIn(turns', tap[k].msg) = PlacesIn(turns, tap[k].msg)
      BY DEF QueueInv, TapOK, Live
    <3>2. QED
      BY <2>1, <3>1, TapKept
  <2>2. QED
    BY <2>1
<1>5. QED
  BY <1>1, <1>2, <1>3, <1>4 DEF QueueInv

\* Where the steps of start_turn lead, but for the draft.
LEMMA OpPc ==
  ASSUME Types, NEW m \in Msgs,
         \/ Submit(m) \/ StageAndAsk(m) \/ SteerDirectly(m) \/ SteerAnswered(m) \/ TurnStarts(m)
         \/ BindOverlay(m) \/ TurnFails(m)
  PROVE  /\ \A x \in Msgs : x # m => op'[x] = op[x]
         /\ op[m].pc # "queued"
         /\ \/ UNCHANGED turns /\ (op'[m].pc \in Unsent => op[m].pc \in Unsent)
            \/ (Open(m) \/ Inject(m)) /\ op[m].pc \in Unsent /\ op'[m].pc \notin Unsent
<1>1. op \in [Msgs -> [pc : OpStates, saw : Turns, turn : Turns]] /\ Unsent = {"idle", "deciding", "steering", "asked", "failed", "error"}
  BY DEF Types, OpType, Unsent
<1>2. CASE Submit(m)
  BY <1>1, <1>2 DEF Submit, serverVars
<1>3. CASE StageAndAsk(m)
  BY <1>1, <1>3 DEF StageAndAsk, serverVars
<1>4. CASE SteerDirectly(m)
  BY <1>1, <1>4 DEF SteerDirectly, serverVars
<1>5. CASE SteerAnswered(m)
  <2>1. op[m].pc = "steering" /\ \A x \in Msgs : x # m => op'[x] = op[x]
    BY <1>1, <1>5 DEF SteerAnswered
  <2>2. CASE Inject(m) /\ op' = [op EXCEPT ![m] = Ended("done")]
    <3>1. op'[m].pc = "done"
      BY <1>1, <2>2 DEF Ended
    <3>2. QED
      BY <1>1, <2>1, <2>2, <3>1
  <2>3. CASE op' = [op EXCEPT ![m] = Ended("asked")] /\ UNCHANGED <<turns, events>>
    BY <1>1, <2>1, <2>3
  <2>4. QED
    BY <1>5, <2>2, <2>3 DEF SteerAnswered
<1>6. CASE TurnStarts(m)
  <2>1. op[m].pc = "asked" /\ \A x \in Msgs : x # m => op'[x] = op[x]
    BY <1>1, <1>6 DEF TurnStarts
  <2>2. CASE (Open(m) \/ Inject(m)) /\ op' = [op EXCEPT ![m] = [@ EXCEPT !.pc = "answered", !.turn = Len(turns')]]
    <3>1. op'[m].pc = "answered"
      BY <1>1, <2>2
    <3>2. QED
      BY <1>1, <2>1, <2>2, <3>1
  <2>3. CASE Refuse /\ op' = [op EXCEPT ![m].pc = "failed"]
    BY <1>1, <2>1, <2>3 DEF Refuse
  <2>4. QED
    BY <1>6, <2>2, <2>3 DEF TurnStarts
<1>7. CASE BindOverlay(m)
  <2>1. op'[m].pc = "done" /\ op[m].pc = "answered" /\ UNCHANGED turns /\ \A x \in Msgs : x # m => op'[x] = op[x]
    BY <1>1, <1>7 DEF BindOverlay, serverVars, Ended
  <2>2. QED
    BY <1>1, <2>1
<1>8. CASE TurnFails(m)
  BY <1>1, <1>8 DEF TurnFails, serverVars
<1>9. QED
  BY <1>2, <1>3, <1>4, <1>5, <1>6, <1>7, <1>8

\* They leave the queue and the turn the thread shows alone.
LEMMA OpThread ==
  ASSUME Types, NEW m \in Msgs,
         \/ Submit(m) \/ StageAndAsk(m) \/ SteerDirectly(m) \/ SteerAnswered(m) \/ TurnStarts(m)
         \/ BindOverlay(m) \/ TurnFails(m)
  PROVE  thread'.drafts = thread.drafts /\ thread'.active = thread.active
<1>1. turns \in Seq(TurnRecords) /\ Snapshot(thread, turns) /\ op[m].turn \in 0 .. Len(turns)
  BY OpFacts DEF Types, ServerType, ThreadType, Turns
<1>2. CASE StageAndAsk(m)
  BY <1>1, <1>2, StageFacts DEF StageAndAsk, Update
<1>3. CASE BindOverlay(m)
  BY <1>1, <1>3, BindFacts DEF BindOverlay, Update
<1>4. CASE TurnFails(m)
  BY <1>1, <1>4, UnstageFacts DEF TurnFails, Update
<1>5. CASE Submit(m) \/ SteerDirectly(m) \/ SteerAnswered(m) \/ TurnStarts(m)
  BY <1>5 DEF Submit, SteerDirectly, SteerAnswered, TurnStarts
<1>6. QED
  BY <1>2, <1>3, <1>4, <1>5

LEMMA QueueOp ==
  ASSUME Types, QueueInv, NEW m \in Msgs,
         \/ Submit(m) \/ StageAndAsk(m) \/ SteerDirectly(m) \/ SteerAnswered(m) \/ TurnStarts(m)
         \/ BindOverlay(m) \/ TurnFails(m)
  PROVE  QueueInv'
<1>1. UNCHANGED <<tap, listener, refresh, link, subscribed>>
  BY DEF Submit, StageAndAsk, SteerDirectly, SteerAnswered, TurnStarts, BindOverlay, TurnFails, serverVars
<1>2. /\ \A x \in Msgs : x # m => op'[x] = op[x]
      /\ op[m].pc # "queued"
      /\ \/ UNCHANGED turns /\ (op'[m].pc \in Unsent => op[m].pc \in Unsent)
         \/ (Open(m) \/ Inject(m)) /\ op[m].pc \in Unsent /\ op'[m].pc \notin Unsent
  BY OpPc
<1>3. Grows /\ QueuedStay
  <2>1. Grows
    BY <1>2, GrowsSame, OpenFacts, InjectFacts DEF Texts
  <2>2. QED
    BY <1>2, <2>1 DEF QueuedStay
<1>4. PICK ds : ds = thread'.drafts /\ From(ds, thread.drafts) /\ thread'.active = thread.active
  BY OpThread, FromSame DEF QueueInv, DraftInv
<1>5. \A x : x # m => PlacesIn(turns', x) = PlacesIn(turns, x)
  BY <1>2, PlacesSent DEF Texts
<1>6. OnceInv'
  <2>1. CASE UNCHANGED turns /\ (op'[m].pc \in Unsent => op[m].pc \in Unsent)
    BY <1>2, <2>1 DEF OnceInv, QueueInv
  <2>2. CASE (Open(m) \/ Inject(m)) /\ op[m].pc \in Unsent /\ op'[m].pc \notin Unsent
    <3>1. PICK p : PlacesIn(turns', m) = PlacesIn(turns, m) \cup {p}
      BY <2>2, PlacesSent DEF Texts
    <3>2. PlacesIn(turns, m) = {}
      BY <2>2 DEF OnceInv, QueueInv
    <3>3. QED
      BY <1>2, <1>5, <2>2, <3>1, <3>2 DEF OnceInv, QueueInv
  <2>3. QED
    BY <1>2, <2>1, <2>2
<1>7. QED
  BY <1>1, <1>2, <1>3, <1>4, <1>5, <1>6, QueueKept

LEMMA QueueEnqueue == ASSUME Types, QueueInv, NEW m \in Msgs, EnqueueDraft(m) PROVE QueueInv'
<1> DEFINE d == [text |-> m, kind |-> "Message"]
           ds == Append(thread.drafts, d)
<1>1. /\ UNCHANGED <<tap, listener, refresh, link, subscribed, turns>> /\ op[m].pc = "deciding"
      /\ op' = [op EXCEPT ![m] = Ended("queued")]
  BY DEF EnqueueDraft, serverVars
<1>2. thread'.drafts = ds /\ thread'.active = thread.active
  BY DEF EnqueueDraft, Update, Enqueue, Types, ThreadType, Snapshot
<1>3. Grows /\ op'[m].pc = "queued" /\ \A x \in Msgs : x # m => op'[x] = op[x]
  BY <1>1, GrowsSame DEF Types, OpType, Ended
<1>4. PlacesIn(turns, m) = {}
  BY <1>1 DEF QueueInv, OnceInv, Unsent
<1>5. /\ thread.drafts \in Seq(Drafts) /\ Len(thread.drafts) \in Nat
      /\ \A i \in DOMAIN thread.drafts : thread.drafts[i].text # m /\ thread.drafts[i].text \in Msgs
  BY <1>1, DraftMsgs DEF QueueInv, DraftInv, Types, ThreadType, Snapshot
<1>6. \A i \in DOMAIN ds : \/ i \in DOMAIN thread.drafts /\ ds[i] = thread.drafts[i]
                           \/ i = Len(thread.drafts) + 1 /\ ds[i] = d
  BY <1>5
<1>7. d.text = m /\ d.kind = "Message"
  OBVIOUS
<1> HIDE DEF d, ds
<1>8. DraftInv'
  <2>1. Distinct(ds)
    <3>1. ASSUME NEW i \in DOMAIN ds, NEW j \in DOMAIN ds, ds[i].text = ds[j].text PROVE i = j
      BY <1>5, <1>6, <1>7, <3>1 DEF QueueInv, DraftInv, Distinct
    <3>2. QED
      BY <3>1 DEF Distinct
  <2>2. ASSUME NEW i \in DOMAIN ds PROVE op'[ds[i].text].pc = "queued"
    BY <1>3, <1>5, <1>6, <1>7 DEF QueueInv, DraftInv
  <2>3. QED
    BY <1>2, <2>1, <2>2 DEF DraftInv
<1>9. OnceInv'
  BY <1>1, <1>3 DEF QueueInv, OnceInv, Unsent
<1>10. SentInv'
  <2>1. ASSUME NEW i \in DOMAIN ds, PlacesIn(turns, ds[i].text) # {}
        PROVE  \/ listener.pc \in {"answered", "recv"} /\ thread.active = None /\ i = 1
               \/ ds[i].kind = "PendingSteer" /\ thread.active # None
    BY <1>4, <1>6, <1>7, <2>1 DEF QueueInv, SentInv
  <2>2. QED
    BY <1>1, <1>2, <2>1 DEF SentInv
<1>11. AutoInv'
  <2>1. ASSUME listener.pc = "asked" PROVE listener.msg # m
    BY <1>1, <2>1 DEF QueueInv, AutoInv
  <2>2. ASSUME listener.pc = "asked", NEW i \in DOMAIN ds, ds[i].text = listener.msg PROVE i = 1
    BY <1>6, <1>7, <2>1, <2>2 DEF QueueInv, AutoInv
  <2>3. QED
    BY <1>1, <1>2, <1>3, <2>1, <2>2 DEF AutoInv, QueueInv
<1>12. ASSUME NEW k \in Taps PROVE TapOK(k)'
  <2>1. Live(k) => tap[k].msg # m
    BY <1>1 DEF Live, QueueInv, TapOK
  <2>2. \A i \in DOMAIN ds :
            \/ ~(Live(k) /\ ds[i].text = tap[k].msg)
            \/ ds[i].kind = "PendingSteer"
            \/ \E j \in DOMAIN thread.drafts : /\ ds[i].text = thread.drafts[j].text
                                              /\ ds[i].kind = thread.drafts[j].kind
    BY <1>6, <1>7, <2>1
  <2>3. \A i \in DOMAIN thread'.drafts :
            \/ ~(Live(k) /\ thread'.drafts[i].text = tap[k].msg)
            \/ thread'.drafts[i].kind = "PendingSteer"
            \/ \E j \in DOMAIN thread.drafts : /\ thread'.drafts[i].text = thread.drafts[j].text
                                              /\ thread'.drafts[i].kind = thread.drafts[j].kind
    BY <1>2, <2>2
  <2>4. \A x \in Msgs : op[x].pc = "queued" => op'[x].pc = "queued"
    BY <1>1, <1>3
  <2>5. \A j \in Taps : TapOK(j)
    BY DEF QueueInv
  <2>6. QED
    BY <1>1, <1>2, <1>3, <2>3, <2>4, <2>5, TapStays
<1>13. QED
  BY <1>1, <1>8, <1>9, <1>10, <1>11, <1>12 DEF QueueInv

LEMMA FromRemaining == ASSUME Types, DraftInv, NEW m PROVE From(Remaining(m), thread.drafts)
<1> DEFINE I == {i \in DOMAIN thread.drafts : thread.drafts[i].text # m}
           es == Remaining(m)
<1>1. thread.drafts \in Seq(Drafts) /\ I \in SUBSET DOMAIN thread.drafts
  BY DEF Types, ThreadType, Snapshot
<1>2. es = Retain(thread.drafts, I)
  BY DEF Remaining
<1>3. Distinct(es)
  BY RemainingFacts DEF DraftInv
<1> HIDE DEF I, es
<1>4. /\ \A n \in DOMAIN es : Nth(I, n) \in I /\ es[n] = thread.drafts[Nth(I, n)]
      /\ \A n, k \in DOMAIN es : n # k => Nth(I, n) # Nth(I, k)
      /\ 1 \in I => 1 \in DOMAIN es /\ Nth(I, 1) = 1
  BY <1>1, <1>2, RetainFacts
<1>5. ASSUME NEW n \in DOMAIN es
      PROVE \E j \in DOMAIN thread.drafts : /\ es[n].text = thread.drafts[j].text /\ (j = 1 => n = 1)
                                            /\ es[n].kind = thread.drafts[j].kind \/ es[n].kind = "PendingSteer"
  <2>1. PICK j \in I : j = Nth(I, n) /\ es[n] = thread.drafts[j]
    BY <1>4
  <2>2. j = 1 => n = 1
    BY <1>4, <2>1
  <2>3. QED
    BY <1>1, <2>1, <2>2
<1>6. From(es, thread.drafts)
  BY <1>3, <1>5 DEF From
<1>7. QED
  BY <1>6 DEF es

LEMMA FromSteered ==
  ASSUME Types, DraftInv, NEW i \in DOMAIN thread.drafts, NEW ds,
         ds = [thread EXCEPT !.drafts[i].kind = "PendingSteer"].drafts
  PROVE  From(ds, thread.drafts) /\ DOMAIN ds = DOMAIN thread.drafts
         /\ \A n \in DOMAIN ds : ds[n].text = thread.drafts[n].text
         /\ ds[i].kind = "PendingSteer"
<1>1. /\ DOMAIN ds = DOMAIN thread.drafts
      /\ \A n \in DOMAIN ds : /\ ds[n].text = thread.drafts[n].text
                              /\ ds[n].kind = IF n = i THEN "PendingSteer" ELSE thread.drafts[n].kind
  BY SteerFacts
<1>2. Distinct(ds)
  BY <1>1 DEF DraftInv, Distinct
<1>3. QED
  BY <1>1, <1>2 DEF From

LEMMA TapMoves ==
  ASSUME Types, DraftInv, NEW k \in Taps, TapOK(k), UNCHANGED <<turns, op>>, thread'.active = thread.active,
         tap'[k].pc # "asked", tap'[k].saw \in {tap[k].saw, thread.active, None},
         tap'[k].pc \in {"begin", "delete"} => tap'[k].msg \in DraftTexts
  PROVE  TapOK(k)'
<1>1. ASSUME tap'[k].pc \in {"begin", "delete"} PROVE tap'[k].msg \in Msgs /\ op[tap'[k].msg].pc = "queued"
  <2>1. \A x \in DraftTexts : \E i \in DOMAIN thread.drafts : thread.drafts[i].text = x
    <3>1. thread.drafts \in Seq(Drafts)
      BY TapFacts
    <3>2. \A d \in Range(thread.drafts) : \E i \in DOMAIN thread.drafts : thread.drafts[i] = d
      BY DEF Range
    <3>3. QED
      BY <3>2 DEF DraftTexts
  <2>2. QED
    BY <1>1, <2>1, DraftMsgs DEF DraftInv
<1>2. tap'[k].saw # None => thread.active = tap'[k].saw \/ turns[tap'[k].saw].done
  BY DEF TapOK
<1>3. QED
  BY <1>1, <1>2 DEF TapOK, Live

\* The taps but for the steering itself.
LEMMA QueueTap ==
  ASSUME Types, QueueInv, ~overtaken', NEW k \in Taps,
         SteerTapped(k) \/ DeleteTapped(k) \/ TapReturns(k) \/ Deletes(k)
  PROVE  QueueInv'
<1>1. UNCHANGED <<op, listener, refresh, link, subscribed, turns>>
  BY DEF SteerTapped, DeleteTapped, TapReturns, Deletes, serverVars
<1>2. PICK ds : ds = thread'.drafts /\ From(ds, thread.drafts) /\ thread'.active = thread.active
  <2>1. CASE Deletes(k)
    <3>1. thread' = [thread EXCEPT !.drafts = tap[k].list] /\ tap[k].list = Remaining(tap[k].msg)
      BY <2>1 DEF Deletes
    <3>2. thread'.drafts = Remaining(tap[k].msg) /\ thread'.active = thread.active
      BY <3>1 DEF Types, ThreadType, Snapshot
    <3>3. QED
      BY <3>2, FromRemaining DEF QueueInv
  <2>2. CASE SteerTapped(k) \/ DeleteTapped(k) \/ TapReturns(k)
    <3>1. UNCHANGED thread
      BY <2>2 DEF SteerTapped, DeleteTapped, TapReturns
    <3>2. QED
      BY <3>1, FromSame DEF QueueInv, DraftInv
  <2>3. QED
    BY <2>1, <2>2
<1>3. /\ \A j \in Taps : j # k => tap'[j] = tap[j]
      /\ tap'[k].pc # "asked" /\ tap'[k].saw \in {tap[k].saw, thread.active, None}
      /\ tap'[k].pc \in {"begin", "delete"} => tap'[k].msg \in DraftTexts
  <2>1. tap \in [Taps -> [pc : TapStates, msg : Texts, saw : Turns, list : Seq(Drafts)]]
    BY DEF Types, TapType
  <2>2. CASE SteerTapped(k)
    BY <2>1, <2>2 DEF SteerTapped
  <2>3. CASE DeleteTapped(k)
    BY <2>1, <2>3 DEF DeleteTapped
  <2>4. CASE TapReturns(k)
    BY <2>1, <2>4 DEF TapReturns, TapDone, Untapped
  <2>5. CASE Deletes(k)
    BY <2>1, <2>5 DEF Deletes
  <2>6. QED
    BY <2>2, <2>3, <2>4, <2>5
<1>4. Grows /\ QueuedStay
  BY <1>1, GrowsSame DEF QueuedStay
<1>5. TapOK(k)'
  BY <1>1, <1>2, <1>3, TapMoves DEF QueueInv
<1>6. OnceInv' /\ \A m \in Msgs : PlacesIn(turns', m) = PlacesIn(turns, m)
  BY <1>1 DEF QueueInv, OnceInv
<1>7. QED
  BY <1>1, <1>2, <1>3, <1>4, <1>5, <1>6, QueueKept

LEMMA QueueBegin == ASSUME Types, QueueInv, NEW k \in Taps, BeginSteer(k) PROVE QueueInv'
<1>1. UNCHANGED <<op, listener, refresh, link, subscribed, turns>> /\ tap[k].pc = "begin"
  BY DEF BeginSteer, serverVars
<1>2. Grows /\ QueuedStay
  BY <1>1, GrowsSame DEF QueuedStay
<1>3. OnceInv' /\ \A m \in Msgs : PlacesIn(turns', m) = PlacesIn(turns, m)
  BY <1>1 DEF QueueInv, OnceInv
<1>4. tap \in [Taps -> [pc : TapStates, msg : Texts, saw : Turns, list : Seq(Drafts)]]
  BY DEF Types, TapType
<1>5. CASE tap' = [tap EXCEPT ![k] = TapDone] /\ UNCHANGED thread
  <2>1. TapOK(k)' /\ \A j \in Taps : j # k => tap'[j] = tap[j]
    <3>1. tap'[k].pc = "done" /\ tap'[k].saw = None /\ \A j \in Taps : j # k => tap'[j] = tap[j]
      BY <1>4, <1>5 DEF TapDone, Untapped
    <3>2. QED
      BY <1>1, <1>5, <3>1, TapMoves DEF QueueInv
  <2>2. tap'[k].pc # "asked"
    BY <1>4, <1>5 DEF TapDone, Untapped
  <2>3. PICK ds : ds = thread'.drafts /\ From(ds, thread.drafts) /\ thread'.active = thread.active
    BY <1>5, FromSame DEF QueueInv, DraftInv
  <2>4. QED
    BY <1>1, <1>2, <1>3, <2>1, <2>2, <2>3, QueueKept
<1>6. CASE \E i \in DOMAIN thread.drafts :
             /\ thread.drafts[i].text = tap[k].msg /\ Steerable(thread.drafts[i])
             /\ Update([thread EXCEPT !.drafts[i].kind = "PendingSteer"])
             /\ tap' = [tap EXCEPT ![k] = IF @.saw = None THEN TapDone ELSE [@ EXCEPT !.pc = "asked"]]
  <2>1. PICK i \in DOMAIN thread.drafts :
             /\ thread.drafts[i].text = tap[k].msg /\ thread.drafts[i].kind = "Message"
             /\ thread' = [thread EXCEPT !.drafts[i].kind = "PendingSteer"]
             /\ tap' = [tap EXCEPT ![k] = IF @.saw = None THEN TapDone ELSE [@ EXCEPT !.pc = "asked"]]
    BY <1>6 DEF Update, Steerable
  <2>2. thread'.active = thread.active
    BY <2>1, SteerFacts
  <2>3. PICK ds : ds = thread'.drafts
    OBVIOUS
  <2>4. /\ From(ds, thread.drafts) /\ DOMAIN ds = DOMAIN thread.drafts
        /\ \A n \in DOMAIN ds : ds[n].text = thread.drafts[n].text
        /\ ds[i].kind = "PendingSteer"
    BY <2>1, <2>3, FromSteered DEF QueueInv
  <2>5. \A j \in Taps : j # k => tap'[j] = tap[j]
    BY <1>4, <2>1
  <2>6. \/ tap[k].saw = None /\ tap'[k] = TapDone
        \/ tap[k].saw # None /\ tap'[k].saw = tap[k].saw /\ tap'[k].msg = tap[k].msg /\ tap'[k].pc = "asked"
    BY <1>4, <2>1
  <2>7. \A j \in Taps : ~(Live(j) /\ tap[j].msg = tap[k].msg)
    BY <2>1 DEF QueueInv, TapOK
  <2>8. TapOK(k)'
    <3>1. CASE tap'[k] = TapDone
      BY <3>1 DEF TapDone, Untapped, TapOK, Live
    <3>2. CASE tap[k].saw # None /\ tap'[k].saw = tap[k].saw /\ tap'[k].msg = tap[k].msg /\ tap'[k].pc = "asked"
      <4>1. (thread.active = tap[k].saw \/ turns[tap[k].saw].done) /\ tap[k].msg \in Msgs /\ op[tap[k].msg].pc = "queued"
        BY <1>1, <3>2 DEF QueueInv, TapOK
      <4>2. ASSUME ~turns[tap[k].saw].done PROVE PlacesIn(turns, tap[k].msg) = {}
        BY <2>1, <3>2, <4>1, <4>2 DEF QueueInv, SentInv
      <4>3. ASSUME NEW n \in DOMAIN ds, ds[n].text = tap[k].msg PROVE ds[n].kind = "PendingSteer"
        <5>1. n = i
          BY <2>1, <2>4, <4>3 DEF QueueInv, DraftInv, Distinct
        <5>2. QED
          BY <2>4, <5>1
      <4>4. ASSUME NEW j \in Taps, tap'[j].pc = "asked", ~turns[tap'[j].saw].done, tap'[j].msg = tap[k].msg PROVE j = k
        BY <2>5, <2>7, <4>4 DEF Live
      <4>5. QED
        BY <1>1, <2>2, <2>3, <3>2, <4>1, <4>2, <4>3, <4>4 DEF TapOK, Live
    <3>3. QED
      BY <2>6, <3>1, <3>2
  <2>9. \A j, n \in Taps : \/ tap'[j] = tap[j] \/ tap'[j].pc # "asked"
                           \/ ~(Live(n) /\ tap'[j].msg = tap[n].msg)
    <3>1. tap'[k].pc = "asked" => tap'[k].msg = tap[k].msg
      BY <2>6 DEF TapDone, Untapped
    <3>2. QED
      BY <2>5, <2>7, <3>1
  <2>10. QED
    BY <1>1, <1>2, <1>3, <2>2, <2>3, <2>4, <2>5, <2>8, <2>9, QueueKept
<1>7. QED
  BY <1>5, <1>6 DEF BeginSteer

LEMMA QueueSteers == ASSUME Types, QueueInv, NEW k \in Taps, TapSteers(k) PROVE QueueInv'
<1>1. UNCHANGED <<thread, op, listener, refresh, link, subscribed>> /\ tap[k].pc = "asked"
  BY DEF TapSteers
<1>2. tap \in [Taps -> [pc : TapStates, msg : Texts, saw : Turns, list : Seq(Drafts)]]
  BY DEF Types, TapType
<1>3. /\ \A j \in Taps : j # k => tap'[j] = tap[j]
      /\ tap'[k].pc # "asked" /\ tap'[k].pc \notin {"begin", "delete"} /\ tap'[k].saw \in {tap[k].saw, None}
  <2>1. tap' = [tap EXCEPT ![k] = [@ EXCEPT !.pc = "answered"]] \/ tap' = [tap EXCEPT ![k] = TapDone]
    BY DEF TapSteers
  <2>2. QED
    BY <1>2, <2>1 DEF TapDone, Untapped
<1>4. QueuedStay /\ From(thread.drafts, thread.drafts)
  BY <1>1, FromSame DEF QueuedStay, QueueInv, DraftInv
<1>5. CASE UNCHANGED <<turns, events>>
  <2>1. Grows
    BY <1>5, GrowsSame
  <2>2. OnceInv' /\ \A m \in Msgs : PlacesIn(turns', m) = PlacesIn(turns, m)
    BY <1>1, <1>5 DEF QueueInv, OnceInv
  <2>3. TapOK(k)'
    BY <1>1, <1>3, <1>5, TapMoves DEF QueueInv
  <2>4. PICK ds : ds = thread'.drafts /\ From(ds, thread.drafts) /\ thread'.active = thread.active
    BY <1>1, <1>4
  <2>5. QED
    BY <1>1, <1>3, <1>4, <2>1, <2>2, <2>3, <2>4, QueueKept
<1>6. CASE Running = tap[k].saw /\ Inject(tap[k].msg)
  <2>1. PICK m \in Msgs : m = tap[k].msg /\ op[m].pc = "queued" /\ Inject(m)
    BY <1>1, <1>6 DEF QueueInv, TapOK
  <2>2. Live(k) /\ thread.active = tap[k].saw /\ tap[k].saw # None
    <3>1. tap[k].saw # None /\ Running = tap[k].saw
      BY <1>1, <1>6 DEF QueueInv, TapOK
    <3>2. ~turns[tap[k].saw].done
      BY <3>1, RunningFacts
    <3>3. QED
      BY <1>1, <3>1, <3>2 DEF Live, QueueInv, TapOK
  <2>3. /\ PlacesIn(turns, m) = {}
        /\ \A i \in DOMAIN thread.drafts : thread.drafts[i].text = m => thread.drafts[i].kind = "PendingSteer"
        /\ \A j \in Taps : Live(j) /\ tap[j].msg = m => j = k
    BY <2>1, <2>2 DEF QueueInv, TapOK
  <2>4. Grows /\ \A x : x # m => PlacesIn(turns', x) = PlacesIn(turns, x)
    BY <2>1, PlacesSent, InjectFacts DEF Texts
  <2>5. DraftInv'
    BY <1>1 DEF QueueInv, DraftInv
  <2>6. OnceInv'
    BY <1>1, <2>1, <2>3, OnceSent DEF QueueInv, Unsent, Texts
  <2>7. SentInv'
    <3>1. ASSUME NEW i \in DOMAIN thread.drafts, PlacesIn(turns', thread.drafts[i].text) # {}
          PROVE  \/ listener.pc \in {"answered", "recv"} /\ thread.active = None /\ i = 1
                 \/ thread.drafts[i].kind = "PendingSteer" /\ thread.active # None
      <4>1. CASE thread.drafts[i].text = m
        BY <2>2, <2>3, <4>1
      <4>2. CASE thread.drafts[i].text # m
        BY <2>4, <3>1, <4>2 DEF QueueInv, SentInv
      <4>3. QED
        BY <4>1, <4>2
    <3>2. QED
      BY <1>1, <3>1 DEF SentInv
  <2>8. AutoInv'
    <3>1. listener.pc # "asked"
      BY <2>2 DEF QueueInv, AutoInv
    <3>2. QED
      BY <1>1, <3>1 DEF QueueInv, AutoInv
  <2>9. ASSUME NEW j \in Taps PROVE TapOK(j)'
    <3>1. CASE j = k
      <4>1. tap[k].saw \in Turns /\ tap[k].saw # None /\ thread'.active = tap[k].saw
        BY <1>1, <2>2, TapFacts
      <4>2. QED
        BY <1>3, <3>1, <4>1 DEF TapOK, Live
    <3>2. CASE j # k
      <4>1. Live(j) => tap[j].msg # m
        BY <2>3, <3>2
      <4>2. Live(j) => PlacesIn(turns', tap[j].msg) = PlacesIn(turns, tap[j].msg)
        BY <2>4, <4>1
      <4>3. PICK ds : ds = thread'.drafts /\ From(ds, thread.drafts) /\ thread'.active = thread.active
        BY <1>1, <1>4
      <4>4. QED
        BY <1>3, <1>4, <2>4, <3>2, <4>2, <4>3, TapKept
    <3>3. QED
      BY <3>1, <3>2
  <2>10. QED
    BY <1>1, <2>5, <2>6, <2>7, <2>8, <2>9 DEF QueueInv
<1>7. QED
  BY <1>5, <1>6 DEF TapSteers

\* The other client, and the end of a turn.
LEMMA QueueOther == ASSUME Types, QueueInv, OtherClient \/ Finish PROVE QueueInv'
<1>1. UNCHANGED <<thread, op, tap, listener, refresh, link, subscribed>>
  BY DEF OtherClient, Finish, clientVars
<1>2. Grows /\ \A m \in Msgs : PlacesIn(turns', m) = PlacesIn(turns, m)
  <2>1. CASE OtherClient
    <3>1. Open(Other) /\ Other \in Texts /\ Other \notin Msgs
      BY <2>1, ThreadStoreAssumption DEF OtherClient, Texts
    <3>2. QED
      BY <3>1, OpenFacts, PlacesSent
  <2>2. CASE Finish
    <3>1. /\ Grows /\ Len(turns') = Len(turns)
          /\ \A t \in DOMAIN turns : turns'[t].users = turns[t].users
      BY <2>2, FinishFacts
    <3>2. DOMAIN turns' = DOMAIN turns
      <4>1. turns \in Seq(TurnRecords) /\ turns' \in Seq(TurnRecords)
        BY <3>1 DEF Grows, Types, ServerType
      <4>2. DOMAIN turns = 1 .. Len(turns) /\ DOMAIN turns' = 1 .. Len(turns')
        BY <4>1
      <4>3. QED
        BY <3>1, <4>2
    <3>3. QED
      BY <3>1, <3>2, PlacesSame
  <2>3. QED
    BY <2>1, <2>2
<1>3. OnceInv'
  BY <1>1, <1>2, OnceSame DEF QueueInv
<1>4. PICK ds : ds = thread'.drafts /\ From(ds, thread.drafts) /\ thread'.active = thread.active
  BY <1>1, FromSame DEF QueueInv, DraftInv
<1>5. QueuedStay
  BY <1>1 DEF QueuedStay
<1>6. QED
  BY <1>1, <1>2, <1>3, <1>4, <1>5, QueueKept

\* What the head of the stream says of the turn shown.
LEMMA HeadFacts ==
  ASSUME Types, StreamInv, events # <<>>
  PROVE  /\ events[1].type = "started" => thread.active = None
         /\ events[1].type = "completed" => thread.active # None /\ turns[thread.active].done
<1>1. 1 \in DOMAIN events
  BY SeqFacts DEF Types, ServerType
<1>2. thread.active = None <=> IsStarted(events[1])
  BY DEF StreamInv, StreamOK
<1>3. thread.active # None /\ ~turns[thread.active].done => events[1].type = "item"
  BY <1>1 DEF StreamInv, StreamOK
<1>4. thread.active # None => turns[thread.active].done \in BOOLEAN
  <2>1. turns \in Seq(TurnRecords) /\ thread.active \in 0 .. Len(turns)
    BY DEF Types, ServerType, ThreadType, Snapshot
  <2>2. thread.active # None => thread.active \in DOMAIN turns
    BY <2>1 DEF None
  <2>3. QED
    BY <2>1, <2>2, SeqOfTurns
<1>5. QED
  BY <1>2, <1>3, <1>4 DEF IsStarted

LEMMA FromDropped == ASSUME NEW ds \in Seq(Drafts), Distinct(ds) PROVE From(DropFirst(ds), ds)
<1>1. Distinct(DropFirst(ds)) /\ \A n \in DOMAIN DropFirst(ds) : n + 1 \in DOMAIN ds /\ DropFirst(ds)[n] = ds[n + 1]
  BY DropFirstFacts
<1>2. DropFirst(ds) \in Seq(Drafts)
  BY DropFirstFacts
<1>3. \A n \in DOMAIN DropFirst(ds) : n \in Nat /\ n # 0
  BY <1>2
<1>4. \A n \in DOMAIN DropFirst(ds) : n + 1 # 1
  BY <1>3
<1>5. QED
  BY <1>1, <1>4 DEF From

LEMMA FromUnsteered == ASSUME NEW ds \in Seq(Drafts), Distinct(ds)
  PROVE  /\ Distinct(Unsteered(ds))
         /\ \A n \in DOMAIN Unsteered(ds) : \E j \in DOMAIN ds :
              /\ Unsteered(ds)[n].text = ds[j].text /\ Unsteered(ds)[n].kind = ds[j].kind
              /\ ds[j].kind # "PendingSteer"
BY UnsteeredFacts

\* The drafts that are left, in their places or not.
LEMMA QueueReceived ==
  ASSUME Types, QueueInv, Receive, NEW ds, ds = thread'.drafts, Distinct(ds),
         \A n \in DOMAIN ds : \E j \in DOMAIN thread.drafts :
            /\ ds[n].text = thread.drafts[j].text /\ ds[n].kind = thread.drafts[j].kind
            /\ PlacesIn(turns, thread.drafts[j].text) # {} =>
                 thread.drafts[j].kind = "PendingSteer" /\ thread'.active # None,
         \/ thread'.active = thread.active
         \/ thread.active # None => turns[thread.active].done,
         listener'.pc # "recv" => listener'.pc = "check" /\ thread'.active = None
  PROVE  QueueInv'
<1>1. UNCHANGED <<op, tap, refresh, turns, link, subscribed>> /\ Grows
  BY GrowsSame DEF Receive
<1>2. DraftInv'
  <2>1. ASSUME NEW n \in DOMAIN ds PROVE op[ds[n].text].pc = "queued"
    BY DEF QueueInv, DraftInv
  <2>2. QED
    BY <1>1, <2>1 DEF DraftInv, Distinct
<1>3. OnceInv'
  BY <1>1 DEF QueueInv, OnceInv
<1>4. SentInv'
  <2>1. ASSUME NEW n \in DOMAIN ds, PlacesIn(turns, ds[n].text) # {}
        PROVE  ds[n].kind = "PendingSteer" /\ thread'.active # None
    BY <2>1
  <2>2. QED
    BY <1>1, <2>1 DEF SentInv
<1>5. AutoInv'
  BY DEF AutoInv
<1>6. ASSUME NEW k \in Taps PROVE TapOK(k)'
  <2>1. \A i \in DOMAIN ds :
            \/ ~(Live(k) /\ ds[i].text = tap[k].msg)
            \/ ds[i].kind = "PendingSteer"
            \/ \E j \in DOMAIN thread.drafts : /\ ds[i].text = thread.drafts[j].text
                                              /\ ds[i].kind = thread.drafts[j].kind
    OBVIOUS
  <2>2. \A i \in DOMAIN thread'.drafts :
            \/ ~(Live(k) /\ thread'.drafts[i].text = tap[k].msg)
            \/ thread'.drafts[i].kind = "PendingSteer"
            \/ \E j \in DOMAIN thread.drafts : /\ thread'.drafts[i].text = thread.drafts[j].text
                                              /\ thread'.drafts[i].kind = thread.drafts[j].kind
    BY <2>1
  <2>3. \A j \in Taps : TapOK(j)
    BY DEF QueueInv
  <2>4. QED
    BY <1>1, <2>2, <2>3, TapStays
<1>7. QED
  BY <1>1, <1>2, <1>3, <1>4, <1>5, <1>6 DEF QueueInv

LEMMA QueueReceive == ASSUME Types, StreamInv, QueueInv, Receive PROVE QueueInv'
<1>1. /\ turns \in Seq(TurnRecords) /\ Snapshot(thread, turns) /\ thread.drafts \in Seq(Drafts)
      /\ Distinct(thread.drafts) /\ Len(turns) \in Nat
  BY DEF Types, ServerType, ThreadType, Snapshot, QueueInv, DraftInv
<1>2. listener.pc = "recv" /\ events # <<>> /\ Head(events) = events[1]
  BY EventFacts DEF Receive
<1>3. /\ events[1].type = "started" => thread.active = None
      /\ events[1].type = "completed" => thread.active # None /\ turns[thread.active].done
  BY <1>2, HeadFacts
<1>4. listener \in [pc : {"recv", "check", "asked", "answered"}, msg : Texts]
  BY ListenerFacts
<1>5. \A j \in DOMAIN thread.drafts : PlacesIn(turns, thread.drafts[j].text) # {} =>
        \/ thread.active = None /\ j = 1
        \/ thread.drafts[j].kind = "PendingSteer" /\ thread.active # None
  BY DEF QueueInv, SentInv
<1>6. \A n \in DOMAIN DropFirst(thread.drafts) : n + 1 \in DOMAIN thread.drafts /\ n + 1 # 1
        /\ DropFirst(thread.drafts)[n] = thread.drafts[n + 1]
  <2>1. DropFirst(thread.drafts) \in Seq(Drafts)
    BY <1>1, DropFirstFacts
  <2>2. \A n \in DOMAIN DropFirst(thread.drafts) : n \in Nat /\ n # 0
    BY <2>1
  <2>3. \A n \in DOMAIN DropFirst(thread.drafts) : n + 1 # 1
    BY <2>2
  <2>4. QED
    BY <1>1, <2>3, DropFirstFacts
<1>7. CASE /\ Head(events).type = "started" /\ Head(events).turn \in 1 .. Len(turns)
           /\ Update(OnStarted(thread, Head(events).turn)) /\ listener' = [listener EXCEPT !.pc = "recv"]
  <2>1. PICK t \in 0 .. Len(turns) : t = Head(events).turn
    BY <1>1, <1>7
  <2>2. OnStarted(thread, t).drafts = DropFirst(thread.drafts) /\ thread' = OnStarted(thread, t)
    BY <1>1, <1>7, <2>1, StartedFacts DEF Update
  <2>3. PICK ds : ds = thread'.drafts /\ ds = DropFirst(thread.drafts) /\ Distinct(ds)
    BY <1>1, <2>2, DropFirstFacts
  <2>4. thread.active = None
    BY <1>2, <1>3, <1>7
  <2>5. ASSUME NEW n \in DOMAIN ds PROVE \E j \in DOMAIN thread.drafts :
            /\ ds[n].text = thread.drafts[j].text /\ ds[n].kind = thread.drafts[j].kind
            /\ PlacesIn(turns, thread.drafts[j].text) # {} =>
                 thread.drafts[j].kind = "PendingSteer" /\ thread'.active # None
    BY <1>5, <1>6, <2>3, <2>4
  <2>6. listener'.pc = "recv"
    BY <1>4, <1>7
  <2>7. QED
    BY <2>3, <2>4, <2>5, <2>6, QueueReceived
<1>8. CASE /\ Head(events).type = "completed" /\ Head(events).turn \in 1 .. Len(turns)
           /\ Update(OnCompleted(thread)) /\ listener' = [listener EXCEPT !.pc = "check"]
  <2>1. /\ OnCompleted(thread).drafts = Unsteered(thread.drafts) /\ OnCompleted(thread).active = None
        /\ thread' = OnCompleted(thread)
    BY <1>1, <1>8, CompletedFacts DEF Update
  <2>2. PICK ds : ds = thread'.drafts /\ ds = Unsteered(thread.drafts)
    BY <2>1
  <2>3. thread.active # None /\ turns[thread.active].done
    BY <1>2, <1>3, <1>8
  <2>4. /\ Distinct(ds)
        /\ \A n \in DOMAIN ds : \E j \in DOMAIN thread.drafts :
             /\ ds[n].text = thread.drafts[j].text /\ ds[n].kind = thread.drafts[j].kind
             /\ thread.drafts[j].kind # "PendingSteer"
    BY <1>1, <2>2, FromUnsteered
  <2>5. ASSUME NEW n \in DOMAIN ds PROVE \E j \in DOMAIN thread.drafts :
            /\ ds[n].text = thread.drafts[j].text /\ ds[n].kind = thread.drafts[j].kind
            /\ PlacesIn(turns, thread.drafts[j].text) # {} =>
                 thread.drafts[j].kind = "PendingSteer" /\ thread'.active # None
    BY <1>5, <2>3, <2>4
  <2>6. listener'.pc = "check" /\ thread'.active = None
    BY <1>4, <1>8, <2>1
  <2>7. QED
    BY <2>2, <2>3, <2>4, <2>5, <2>6, QueueReceived
<1>9. CASE /\ Head(events).type = "item" /\ Head(events).item \in AllItems(turns)
           /\ Update(OnItem(thread, Head(events).item)) /\ listener' = [listener EXCEPT !.pc = "recv"]
  <2>1. PICK item \in AllItems(turns) : item = Head(events).item
    BY <1>9
  <2>2. /\ thread' = OnItem(thread, item) /\ OnItem(thread, item).active = thread.active
        /\ OnItem(thread, item).drafts \in {thread.drafts, DropFirst(thread.drafts)}
    BY <1>1, <1>9, <2>1, ItemFacts DEF Update
  <2>3. listener'.pc = "recv" /\ UNCHANGED <<op, tap, refresh, turns, link, subscribed>>
    BY <1>4, <1>9 DEF Receive
  <2>4. PICK ds : ds = thread'.drafts /\ ds \in {thread.drafts, DropFirst(thread.drafts)}
    BY <2>2
  <2>5. From(ds, thread.drafts)
    BY <1>1, <2>4, FromSame, FromDropped
  <2>6. thread'.active = thread.active /\ QueuedStay /\ Grows
    BY <2>2, <2>3, GrowsSame DEF QueuedStay
  <2>7. SentInv'
    BY <1>2, <2>3, <2>4, <2>5, <2>6, SentKept DEF QueueInv
  <2>8. DraftInv' /\ OnceInv' /\ AutoInv'
    <3>1. DraftInv'
      BY <2>4, <2>5, <2>6, DraftsKept DEF QueueInv
    <3>2. OnceInv'
      BY <2>3 DEF QueueInv, OnceInv
    <3>3. AutoInv'
      BY <2>3 DEF AutoInv
    <3>4. QED
      BY <3>1, <3>2, <3>3
  <2>9. \A k \in Taps : TapOK(k)'
    BY <2>3, <2>4, <2>5, <2>6, TapKept
  <2>10. QED
    BY <2>3, <2>7, <2>8, <2>9 DEF QueueInv
<1>10. QED
  BY <1>7, <1>8, <1>9, ReceiveCases

\* The steps of the listener that only move it.
LEMMA QueueListens ==
  ASSUME Types, QueueInv, UNCHANGED <<thread, op, tap, refresh, turns, link, subscribed>>,
         listener.pc # "recv", AutoInv', listener.pc = "answered" => listener'.pc = "recv"
  PROVE  QueueInv'
<1>1. Grows /\ QueuedStay
  BY GrowsSame DEF QueuedStay
<1>2. PICK ds : ds = thread'.drafts /\ From(ds, thread.drafts) /\ thread'.active = thread.active
  BY FromSame DEF QueueInv, DraftInv
<1>3. DraftInv' /\ OnceInv'
  BY DEF QueueInv, DraftInv, OnceInv
<1>4. SentInv'
  BY DEF QueueInv, SentInv, AutoInv
<1>5. \A k \in Taps : TapOK(k)'
  BY <1>1, <1>2, TapKept
<1>6. QED
  BY <1>3, <1>4, <1>5 DEF QueueInv

LEMMA QueueAuto == ASSUME Types, QueueInv, AutoSend \/ AutoSendReturns PROVE QueueInv'
<1>1. UNCHANGED <<thread, op, tap, refresh, turns, link, subscribed>>
  BY DEF AutoSend, AutoSendReturns, serverVars
<1>2. listener \in [pc : {"recv", "check", "asked", "answered"}, msg : Texts]
  BY ListenerFacts
<1>3. CASE AutoSend
  <2>1. listener.pc = "check" /\ thread.active = None
    BY <1>3 DEF AutoSend, QueueInv, AutoInv
  <2>2. CASE listener' = [listener EXCEPT !.pc = "recv"]
    <3>1. listener'.pc = "recv"
      BY <1>2, <2>2
    <3>2. QED
      BY <1>1, <2>1, <3>1, QueueListens DEF AutoInv
  <2>3. CASE thread.drafts # <<>> /\ listener' = [pc |-> "asked", msg |-> Head(thread.drafts).text]
    <3>1. 1 \in DOMAIN thread.drafts /\ listener'.msg = thread.drafts[1].text /\ listener'.pc = "asked"
      BY <2>3, ListenerFacts
    <3>2. listener'.msg \in Msgs /\ op[listener'.msg].pc = "queued"
      BY <3>1, DraftMsgs DEF QueueInv, DraftInv
    <3>3. PlacesIn(turns, listener'.msg) = {}
      BY <2>1, <3>1 DEF QueueInv, SentInv
    <3>4. \A i \in DOMAIN thread.drafts : thread.drafts[i].text = listener'.msg => i = 1
      BY <3>1 DEF QueueInv, DraftInv, Distinct
    <3>5. AutoInv'
      BY <1>1, <2>1, <3>2, <3>3, <3>4 DEF AutoInv
    <3>6. QED
      BY <1>1, <2>1, <3>5, QueueListens
  <2>4. QED
    BY <1>3, <2>2, <2>3 DEF AutoSend
<1>4. CASE AutoSendReturns
  <2>1. listener.pc = "answered" /\ listener'.pc = "recv"
    BY <1>4 DEF AutoSendReturns
  <2>2. AutoInv'
    BY <2>1 DEF AutoInv
  <2>3. QED
    BY <1>1, <2>1, <2>2, QueueListens
<1>5. QED
  BY <1>3, <1>4

LEMMA QueueAutoStarts == ASSUME Types, QueueInv, AutoSendStarts PROVE QueueInv'
<1>1. UNCHANGED <<thread, op, tap, refresh, link, subscribed>> /\ listener.pc = "asked"
  BY DEF AutoSendStarts
<1>2. listener'.pc = "answered" /\ thread.active = None
  <2>1. listener \in [pc : {"recv", "check", "asked", "answered"}, msg : Texts]
    BY ListenerFacts
  <2>2. QED
    BY <1>1, <2>1 DEF AutoSendStarts, QueueInv, AutoInv
<1>3. PICK m \in Msgs : /\ m = listener.msg /\ op[m].pc = "queued" /\ PlacesIn(turns, m) = {}
                        /\ \A i \in DOMAIN thread.drafts : thread.drafts[i].text = m => i = 1
                        /\ Open(m) \/ Inject(m) \/ UNCHANGED <<turns, events>>
  BY <1>1 DEF AutoSendStarts, Refuse, QueueInv, AutoInv
<1>4. Grows /\ \A x : x # m => PlacesIn(turns', x) = PlacesIn(turns, x)
  BY <1>3, GrowsSame, OpenFacts, InjectFacts, PlacesSent DEF Texts
<1>5. DraftInv'
  BY <1>1 DEF QueueInv, DraftInv
<1>6. OnceInv'
  <2>1. CASE UNCHANGED turns
    BY <1>1, <2>1 DEF QueueInv, OnceInv
  <2>2. CASE Open(m) \/ Inject(m)
    BY <1>1, <1>3, <2>2, OnceSent DEF QueueInv, Unsent, Texts
  <2>3. QED
    BY <1>3, <2>1, <2>2
<1>7. SentInv'
  <2>1. ASSUME NEW i \in DOMAIN thread.drafts, PlacesIn(turns', thread.drafts[i].text) # {} PROVE i = 1
    <3>1. CASE thread.drafts[i].text = m
      BY <1>3, <3>1
    <3>2. CASE thread.drafts[i].text # m
      BY <1>2, <1>4, <2>1, <3>2 DEF QueueInv, SentInv
    <3>3. QED
      BY <3>1, <3>2
  <2>2. QED
    BY <1>1, <1>2, <2>1 DEF SentInv
<1>8. AutoInv'
  BY <1>1, <1>2 DEF AutoInv
<1>9. ASSUME NEW k \in Taps PROVE TapOK(k)'
  <2>1. ~Live(k)
    BY <1>2 DEF Live, QueueInv, TapOK
  <2>2. PICK ds : ds = thread'.drafts /\ From(ds, thread.drafts) /\ thread'.active = thread.active
    BY <1>1, FromSame DEF QueueInv, DraftInv
  <2>3. QueuedStay
    BY <1>1 DEF QueuedStay
  <2>4. QED
    BY <1>1, <1>4, <2>1, <2>2, <2>3, TapKept
<1>10. QED
  BY <1>1, <1>5, <1>6, <1>7, <1>8, <1>9 DEF QueueInv

\* The stream while its turns, its events and the turn shown stay.
LEMMA StreamSame ==
  ASSUME StreamInv, UNCHANGED <<turns, events>>, thread'.active = thread.active
  PROVE  StreamInv'
<1>1. Running' = Running
  BY DEF Running
<1>2. QED
  BY <1>1 DEF StreamInv

\* A step that is not the listener's, the refresh's or the connection's either leaves
\* the server alone and the turn the thread shows, or has the server start a turn, take
\* a message or end the turn, and leaves the thread alone.
Aside == /\ UNCHANGED <<turns, events>> /\ thread'.active = thread.active
         /\ ~overtaken' /\ Holding => thread' = thread
Serves == UNCHANGED <<thread, overtaken>> /\ ((\E x \in Texts : Open(x) \/ Inject(x)) \/ Finish)
Elsewhere == /\ UNCHANGED <<refresh, paginated, link, subscribed>> /\ (overtaken => overtaken')
             /\ Aside \/ Serves

LEMMA NextCases ==
  ASSUME Types, [Next]_vars
  PROVE  Receive \/ Refresh \/ ConnectionLost \/ Reconnected \/ Elsewhere
<1>1. ASSUME NEW x \in Texts, Open(x) \/ Inject(x) \/ UNCHANGED <<turns, events>>,
             UNCHANGED <<thread, refresh, paginated, link, subscribed, overtaken>>
      PROVE  Elsewhere
  BY <1>1 DEF Elsewhere, Aside, Serves
<1>2. ASSUME UNCHANGED <<turns, events, refresh, paginated, link, subscribed>>, thread'.active = thread.active,
             \/ \E new : Update(new)
             \/ overtaken' = overtaken /\ UNCHANGED thread
             \/ (overtaken => overtaken') /\ (Holding => overtaken')
      PROVE  Elsewhere
  <2>1. (overtaken => overtaken') /\ (~overtaken' /\ Holding => thread' = thread)
    <3>1. CASE \E new : Update(new)
      BY <3>1 DEF Update
    <3>2. QED
      BY <1>2, <3>1
  <2>2. QED
    BY <1>2, <2>1 DEF Elsewhere, Aside
<1>3. ASSUME NEW m \in Msgs, Submit(m) \/ StartTurn(m) PROVE Elsewhere
  <2>1. CASE EnqueueDraft(m)
    <3>1. UNCHANGED <<turns, events, refresh, paginated, link, subscribed>> /\ Update(Enqueue(thread, m))
      BY <2>1 DEF EnqueueDraft, serverVars
    <3>2. thread'.active = thread.active
      BY <3>1 DEF Update, Enqueue, Types, ThreadType, Snapshot
    <3>3. QED
      BY <1>2, <3>1, <3>2
  <2>2. CASE Submit(m) \/ SteerDirectly(m) \/ SteerAnswered(m) \/ TurnStarts(m)
    <3>1. UNCHANGED <<thread, refresh, paginated, link, subscribed, overtaken>>
          /\ (Open(m) \/ Inject(m) \/ UNCHANGED <<turns, events>>)
      BY <2>2 DEF Submit, SteerDirectly, SteerAnswered, TurnStarts, Refuse, serverVars
    <3>2. QED
      BY <1>1, <3>1 DEF Texts
  <2>3. CASE StageAndAsk(m) \/ BindOverlay(m) \/ TurnFails(m)
    <3>1. thread'.active = thread.active
      BY <2>3, OpThread
    <3>2. UNCHANGED <<turns, events, refresh, paginated, link, subscribed>> /\ \E new : Update(new)
      BY <2>3 DEF StageAndAsk, BindOverlay, TurnFails, serverVars
    <3>3. QED
      BY <1>2, <3>1, <3>2
  <2>4. QED
    BY <1>3, <2>1, <2>2, <2>3 DEF StartTurn
<1>4. ASSUME NEW k \in Taps, SteerTapped(k) \/ DeleteTapped(k) \/ Tapped(k) PROVE Elsewhere
  <2>1. CASE TapSteers(k)
    <3>1. tap[k].msg \in Texts
      BY TapFacts
    <3>2. UNCHANGED <<thread, refresh, paginated, link, subscribed, overtaken>>
          /\ (Inject(tap[k].msg) \/ UNCHANGED <<turns, events>>)
      BY <2>1 DEF TapSteers
    <3>3. QED
      BY <1>1, <3>1, <3>2
  <2>2. CASE BeginSteer(k)
    <3>1. UNCHANGED thread \/ \E i \in DOMAIN thread.drafts : thread' = [thread EXCEPT !.drafts[i].kind = "PendingSteer"]
      BY <2>2 DEF BeginSteer, Update
    <3>2. thread'.active = thread.active
      BY <3>1, SteerFacts
    <3>3. /\ UNCHANGED <<turns, events, refresh, paginated, link, subscribed>>
          /\ (\E new : Update(new)) \/ (overtaken' = overtaken /\ UNCHANGED thread)
      BY <2>2 DEF BeginSteer, serverVars
    <3>4. QED
      BY <1>2, <3>2, <3>3
  <2>3. CASE Deletes(k)
    <3>1. thread'.active = thread.active
      BY <2>3 DEF Deletes, Types, ThreadType, Snapshot
    <3>2. UNCHANGED <<turns, events, refresh, paginated, link, subscribed>>
          /\ (overtaken => overtaken') /\ (Holding => overtaken')
      BY <2>3 DEF Deletes, serverVars
    <3>3. QED
      BY <1>2, <3>1, <3>2
  <2>4. CASE SteerTapped(k) \/ DeleteTapped(k) \/ TapReturns(k)
    BY <1>2, <2>4 DEF SteerTapped, DeleteTapped, TapReturns, serverVars
  <2>5. QED
    BY <1>4, <2>1, <2>2, <2>3, <2>4 DEF Tapped
<1>5. CASE AutoSendStarts
  <2>1. UNCHANGED <<thread, refresh, paginated, link, subscribed, overtaken>> /\ listener.msg \in Texts
        /\ (Open(listener.msg) \/ Inject(listener.msg) \/ UNCHANGED <<turns, events>>)
    BY <1>5, ListenerFacts DEF AutoSendStarts, Refuse
  <2>2. QED
    BY <1>1, <2>1
<1>6. CASE AutoSend \/ AutoSendReturns \/ UNCHANGED vars
  BY <1>2, <1>6 DEF AutoSend, AutoSendReturns, vars, clientVars, serverVars
<1>7. CASE OtherClient
  BY <1>1, <1>7 DEF OtherClient, Texts, clientVars
<1>8. CASE Finish
  BY <1>8 DEF Finish, clientVars, Elsewhere, Serves
<1>9. QED
  BY <1>3, <1>4, <1>5, <1>6, <1>7, <1>8 DEF Next, Listen

LEMMA StreamSteps ==
  ASSUME Types, StreamInv, link, subscribed, [Next]_vars, refresh.pc = "idle", faults' = 0, faults = 0
  PROVE  StreamInv'
<1>1. ~Refresh /\ ~Reconnected /\ ~ConnectionLost
  BY DEF Refresh, Resume, ReadThread, WriteResumed, ListTurns, WriteProbed, WritePage, At, Reconnected, ConnectionLost
<1>2. CASE Receive
  BY <1>2, StreamReceived
<1>3. CASE Elsewhere
  <2>1. CASE Aside
    BY <2>1, StreamSame DEF Aside
  <2>2. CASE Serves
    BY <2>2, StreamOpened, StreamInjected, StreamFinished DEF Serves
  <2>3. QED
    BY <1>3, <2>1, <2>2 DEF Elsewhere
<1>4. QED
  BY <1>1, <1>2, <1>3, NextCases

LEMMA QueueSteps ==
  ASSUME Types, StreamInv, QueueInv, [Next]_vars, ~overtaken', faults' = 0, faults = 0
  PROVE  QueueInv'
<1>1. ~Refresh /\ ~Reconnected
  BY DEF Refresh, Resume, ReadThread, WriteResumed, ListTurns, WriteProbed, WritePage, At, Reconnected, QueueInv
<1>2. ~ConnectionLost
  BY DEF ConnectionLost
<1>3. ASSUME NEW m \in Msgs, Submit(m) \/ StartTurn(m) PROVE QueueInv'
  BY <1>3, QueueOp, QueueEnqueue DEF StartTurn
<1>4. ASSUME NEW k \in Taps, SteerTapped(k) \/ DeleteTapped(k) \/ Tapped(k) PROVE QueueInv'
  BY <1>4, QueueTap, QueueBegin, QueueSteers DEF Tapped
<1>5. CASE Listen
  BY <1>5, QueueReceive, QueueAuto, QueueAutoStarts DEF Listen
<1>6. CASE OtherClient \/ Finish
  BY <1>6, QueueOther
<1>7. CASE UNCHANGED vars
  <2>1. UNCHANGED <<thread, op, tap, listener, refresh, turns, link, subscribed>>
    BY <1>7 DEF vars, clientVars, serverVars
  <2>2. Grows /\ QueuedStay
    BY <2>1, GrowsSame DEF QueuedStay
  <2>3. PICK ds : ds = thread'.drafts /\ From(ds, thread.drafts) /\ thread'.active = thread.active
    BY <2>1, FromSame DEF QueueInv, DraftInv
  <2>4. OnceInv'
    BY <2>1 DEF QueueInv, OnceInv
  <2>5. QED
    BY <2>1, <2>2, <2>3, <2>4, QueueKept
<1>8. QED
  BY <1>1, <1>2, <1>3, <1>4, <1>5, <1>6, <1>7 DEF Next

CleanInv == Clean => StreamInv /\ QueueInv

\* A lost connection and a task overtaken stay so.
LEMMA CleanBefore == ASSUME Types, [Next]_vars, Clean' PROVE Clean
<1>1. faults \in Nat /\ overtaken \in BOOLEAN
  BY ThreadStoreAssumption DEF Types, LinkType
<1>2. faults' = faults \/ faults' = faults + 1
  BY DEF Next, Submit, StartTurn, StageAndAsk, EnqueueDraft, SteerDirectly, SteerAnswered, TurnStarts, BindOverlay,
         TurnFails, SteerTapped, DeleteTapped, Tapped, BeginSteer, TapSteers, TapReturns, Deletes, Listen, Receive,
         AutoSend, AutoSendStarts, AutoSendReturns, Refresh, Resume, ReadThread, WriteResumed, ListTurns, WriteProbed,
         WritePage, OtherClient, Finish, ConnectionLost, Reconnected, vars
<1>3. overtaken => overtaken'
  BY DEF Next, Submit, StartTurn, StageAndAsk, EnqueueDraft, SteerDirectly, SteerAnswered, TurnStarts, BindOverlay,
         TurnFails, SteerTapped, DeleteTapped, Tapped, BeginSteer, TapSteers, TapReturns, Deletes, Listen, Receive,
         AutoSend, AutoSendStarts, AutoSendReturns, Refresh, Resume, ReadThread, WriteResumed, ListTurns, WriteProbed,
         WritePage, OtherClient, Finish, ConnectionLost, Reconnected, vars, Update, Write
<1>4. QED
  BY <1>1, <1>2, <1>3 DEF Clean

LEMMA StepClean == ASSUME Types, CleanInv, [Next]_vars PROVE CleanInv'
<1>1. SUFFICES ASSUME Clean' PROVE StreamInv' /\ QueueInv'
  BY DEF CleanInv
<1>2. Clean /\ StreamInv /\ QueueInv
  BY <1>1, CleanBefore DEF CleanInv
<1>3. faults = 0 /\ faults' = 0 /\ ~overtaken'
  BY <1>1, <1>2 DEF Clean
<1>4. link /\ subscribed /\ refresh.pc = "idle"
  BY <1>2 DEF QueueInv
<1>5. QED
  BY <1>2, <1>3, <1>4, StreamSteps, QueueSteps

LEMMA InitClean == ASSUME Init PROVE CleanInv
<1>1. /\ turns = <<>> /\ events = <<>> /\ thread.active = None /\ thread.drafts = <<>> /\ link /\ subscribed
      /\ refresh.pc = "idle" /\ listener.pc = "recv" /\ (\A m \in Msgs : op[m].pc = "idle")
      /\ \A k \in Taps : tap[k].pc = "idle" /\ tap[k].saw = None
  BY DEF Init, Blank, Idle, Untapped
<1>2. DOMAIN turns = {} /\ DOMAIN events = {} /\ DOMAIN thread.drafts = {} /\ Running = None
  BY <1>1 DEF Running
<1>3. StreamInv
  BY <1>1, <1>2 DEF StreamInv, StreamOK
<1>4. \A m : PlacesIn(turns, m) = {}
  BY <1>2, PlacesAre
<1>5. DraftInv /\ OnceInv /\ SentInv /\ AutoInv
  BY <1>1, <1>2, <1>4 DEF DraftInv, Distinct, OnceInv, SentInv, AutoInv
<1>6. \A k \in Taps : TapOK(k)
  BY <1>1 DEF TapOK, Live
<1>7. QED
  BY <1>1, <1>3, <1>5, <1>6 DEF CleanInv, QueueInv

LEMMA CleanHolds == Spec => [](Types /\ CleanInv)
<1>1. Init => Types /\ CleanInv
  BY InitTypes, InitClean
<1>2. Types /\ CleanInv /\ [Next]_vars => (Types /\ CleanInv)'
  BY StepTypes, StepClean
<1>3. QED
  BY <1>1, <1>2, PTL DEF Spec

\* Without a lost connection and without a write over a newer thread the agent gets
\* each of the user's messages at most once: start_turn, the taps of
\* steer_queued_follow_up and maybe_send_next_local_queued_follow_up never both send it.
THEOREM TwiceOnlyAfterRaceHolds == Spec => []TwiceOnlyAfterRace
<1>1. ASSUME Types, CleanInv PROVE TwiceOnlyAfterRace
  <2>1. SUFFICES ASSUME NEW m \in Msgs, Clean PROVE ~(Times(m) > 1)
    <3>1. faults \in Nat
      BY <1>1, ThreadStoreAssumption DEF Types, LinkType
    <3>2. QED
      BY <3>1 DEF TwiceOnlyAfterRace, Clean
  <2>2. Places(m) = PlacesIn(turns, m)
    BY DEF Places, PlacesIn
  <2>3. \A p, q \in Places(m) : p = q
    BY <1>1, <2>1, <2>2 DEF CleanInv, QueueInv, OnceInv
  <2>4. CASE Places(m) = {}
    BY <2>4, FS_EmptySet DEF Times
  <2>5. CASE \E p : Places(m) = {p}
    BY <2>5, FS_Singleton DEF Times
  <2>6. QED
    BY <2>3, <2>4, <2>5
<1>2. QED
  BY <1>1, CleanHolds, PTL
-----------------------------------------------------------------------------
(* The turn the thread shows.                                              *)

RunIn(ts)   == IF ts = <<>> \/ Last(ts).done THEN None ELSE Len(ts)
Over(ts, t) == t \in DOMAIN ts /\ ts[t].done

\* Turns ts, the events es of them on their way and the turn r that runs: only the
\* last turn may run, a turn's reply comes right before its end, and the last event
\* of a turn's start or end tells what runs.
OneRuns(ts) == \A t \in DOMAIN ts : t < Len(ts) => ts[t].done
ReplyFirst(ts, es) == \A k \in DOMAIN es : IsCompleted(es[k]) =>
  Over(ts, es[k].turn) /\ (k # 1 => es[k - 1] = ItemEvent(ReplyOf(es[k].turn)))
Items(es) == \A k \in DOMAIN es : es[k].type = "item"
LastTells(es, r) == \A k \in DOMAIN es :
  (es[k].type # "item" /\ \A l \in DOMAIN es : k < l => es[l].type = "item") =>
    r = IF IsStarted(es[k]) THEN es[k].turn ELSE None
Orderly(ts, es, r) == OneRuns(ts) /\ ReplyFirst(ts, es) /\ LastTells(es, r)

\* The refresh holds the list ls of the turns, the thread has not changed since:
\* what happened on the server after the list is news to the thread, and such
\* news would change it, so that it is still on its way.
News(ls, e) == \/ IsStarted(e) /\ e.turn > Len(ls)
               \/ IsCompleted(e) /\ ~Over(ls, e.turn)
Bring(es, ls) == \E k \in DOMAIN es : News(ls, es[k])
Held(ls, ts, es, a, items) ==
  /\ OneRuns(ls) /\ Extends(ts, ls) /\ a <= Len(ls) /\ items \subseteq AllItems(ls)
  /\ RunIn(ts) # RunIn(ls) => Bring(es, ls)
  /\ es # <<>> /\ IsCompleted(es[1]) => Over(ls, es[1].turn)

StillHeld(ts, es, us, fs) == \A ls \in Seq(TurnRecords) : \A a, items :
  Held(ls, ts, es, a, items) => Held(ls, us, fs, a, items)

\* Unless a start or an end is on its way, the thread shows what runs, or nothing.
Told(es, a, r) == Items(es) => a \in {None, r}

HoldsList == link /\ (At("probed") \/ At("probeRead") \/ (~paginated /\ (At("resumed") \/ At("resumeRead"))))
Showing   == link /\ refresh.pc \in {"idle", "page", "paged", "pageRead"}

ActiveInv ==
  /\ Orderly(turns, events, Running)
  /\ ~subscribed => events = <<>>
  /\ link /\ ~subscribed => At("resume")
  /\ ~overtaken => /\ HoldsList => Held(refresh.turns, turns, events, thread.active, DOMAIN thread.items)
                   /\ Showing => Told(events, thread.active, Running)

\* The last turn of a list is the one that runs, if any.
LEMMA RunInFacts ==
  ASSUME NEW ts \in Seq(TurnRecords)
  PROVE  /\ RunIn(ts) \in 0 .. Len(ts)
         /\ RunIn(ts) # None => RunIn(ts) = Len(ts) /\ Len(ts) \in DOMAIN ts /\ ~ts[Len(ts)].done
         /\ OneRuns(ts) => \A t \in DOMAIN ts : ~ts[t].done => t = RunIn(ts)
         /\ Len(ts) \in DOMAIN ts /\ ~ts[Len(ts)].done => RunIn(ts) = Len(ts)
<1>1. Len(ts) \in Nat /\ DOMAIN ts = 1 .. Len(ts) /\ (ts = <<>> <=> Len(ts) = 0)
  OBVIOUS
<1>2. ts # <<>> => Last(ts) = ts[Len(ts)]
  BY DEF Last
<1>3. QED
  BY <1>1, <1>2 DEF RunIn, OneRuns, None

\* A list that has a turn's reply has the turn complete.
LEMMA ReplyOver ==
  ASSUME NEW ts \in Seq(TurnRecords), NEW t, ReplyOf(t) \in AllItems(ts)
  PROVE  Over(ts, t)
<1>1. PICK u \in DOMAIN ts : ReplyOf(t) \in ItemsOf(u, ts)
  BY DEF AllItems
<1>2. \A n \in DOMAIN ts[u].users : ts[u].users[n] # Reply
  <2>1. ts[u].users \in Seq(Texts)
    BY SeqOfTurns
  <2>2. Reply \notin Texts
    BY ThreadStoreAssumption DEF Texts
  <2>3. QED
    BY <2>1, <2>2
<1>3. \A n \in DOMAIN ts[u].users : ReplyOf(t) # Item(u, n, ts[u].users[n])
  BY <1>2 DEF ReplyOf, Item
<1>4. ReplyOf(t) = ReplyOf(u) /\ ts[u].done
  BY <1>1, <1>3 DEF ItemsOf
<1>5. t = u
  BY <1>4 DEF ReplyOf, Item
<1>6. QED
  BY <1>4, <1>5 DEF Over

LEMMA ExtendsOver ==
  ASSUME NEW ts \in Seq(TurnRecords), NEW us \in Seq(TurnRecords), Extends(us, ts)
  PROVE  \A t : Over(ts, t) => Over(us, t)
<1>1. DOMAIN ts = 1 .. Len(ts) /\ DOMAIN us = 1 .. Len(us) /\ Len(ts) \in Nat /\ Len(us) \in Nat
  OBVIOUS
<1>2. QED
  BY <1>1 DEF Extends, Over

LEMMA ExtendsTrans ==
  ASSUME NEW ls \in Seq(TurnRecords), NEW ts \in Seq(TurnRecords), NEW us \in Seq(TurnRecords),
         Extends(ts, ls), Extends(us, ts)
  PROVE  Extends(us, ls)
<1>1. /\ DOMAIN ls = 1 .. Len(ls) /\ DOMAIN ts = 1 .. Len(ts) /\ DOMAIN us = 1 .. Len(us)
      /\ Len(ls) \in Nat /\ Len(ts) \in Nat /\ Len(us) \in Nat
  OBVIOUS
<1>2. Len(ls) <= Len(us) /\ DOMAIN ls \subseteq DOMAIN ts
  BY <1>1 DEF Extends
<1>3. ASSUME NEW t \in DOMAIN ls
      PROVE  /\ DOMAIN ls[t].users \subseteq DOMAIN us[t].users
             /\ \A n \in DOMAIN ls[t].users : us[t].users[n] = ls[t].users[n]
             /\ ls[t].done => us[t].done
  <2>1. t \in DOMAIN ts
    BY <1>2
  <2>2. /\ DOMAIN ls[t].users \subseteq DOMAIN ts[t].users /\ DOMAIN ts[t].users \subseteq DOMAIN us[t].users
        /\ \A n \in DOMAIN ls[t].users : ts[t].users[n] = ls[t].users[n]
        /\ \A n \in DOMAIN ts[t].users : us[t].users[n] = ts[t].users[n]
        /\ (ls[t].done => ts[t].done) /\ (ts[t].done => us[t].done)
    BY <2>1 DEF Extends
  <2>3. QED
    BY <2>2
<1>4. QED
  BY <1>2, <1>3 DEF Extends

With(es, x, y) == es \o <<x, y>>

\* Events join those on their way: whether they are all items, what the last start
\* or end tells, and that what a list does not have stays on its way.
LEMMA ItemsJoin ==
  ASSUME NEW S, NEW es \in Seq(S), NEW x, NEW y, x.type = "item", NEW fs, fs = With(es, x, y)
  PROVE  /\ Items(fs) <=> Items(es) /\ y.type = "item"
         /\ \A s : LastTells(es, s) /\ y.type = "item" => LastTells(fs, s)
         /\ y.type = "completed" => LastTells(fs, None)
         /\ \A ls : Bring(es, ls) => Bring(fs, ls)
         /\ \A ls : News(ls, y) => Bring(fs, ls)
         /\ fs # <<>> /\ fs[1] = IF es = <<>> THEN x ELSE es[1]
<1> DEFINE n == Len(es)
<1>1. /\ Len(fs) = n + 2 /\ DOMAIN fs = 1 .. n + 2 /\ DOMAIN es = 1 .. n /\ n \in Nat /\ fs # <<>>
      /\ \A i \in DOMAIN es : fs[i] = es[i]
      /\ fs[n + 1] = x /\ fs[n + 2] = y /\ (es = <<>> <=> n = 0)
  BY ConcatIndex DEF With
<1> HIDE DEF n
<1>2. \A k \in DOMAIN fs : k \in DOMAIN es \/ k = n + 1 \/ k = n + 2
  BY <1>1
<1>3. n + 1 \in DOMAIN fs /\ n + 2 \in DOMAIN fs /\ DOMAIN es \subseteq DOMAIN fs
  BY <1>1
<1>4. Items(fs) <=> Items(es) /\ y.type = "item"
  BY <1>1, <1>2, <1>3 DEF Items
<1>5. ASSUME NEW r, LastTells(es, r), y.type = "item" PROVE LastTells(fs, r)
  <2>1. SUFFICES ASSUME NEW k \in DOMAIN fs, fs[k].type # "item", \A l \in DOMAIN fs : k < l => fs[l].type = "item"
                 PROVE  r = IF IsStarted(fs[k]) THEN fs[k].turn ELSE None
    BY DEF LastTells
  <2>2. k \in DOMAIN es /\ es[k] = fs[k]
    BY <1>1, <1>2, <1>5, <2>1
  <2>3. \A l \in DOMAIN es : k < l => es[l].type = "item"
    BY <1>1, <1>3, <2>1
  <2>4. QED
    BY <1>5, <2>1, <2>2, <2>3 DEF LastTells
<1>6. ASSUME y.type = "completed" PROVE LastTells(fs, None)
  <2>1. SUFFICES ASSUME NEW k \in DOMAIN fs, fs[k].type # "item", \A l \in DOMAIN fs : k < l => fs[l].type = "item"
                 PROVE  ~IsStarted(fs[k])
    BY DEF LastTells
  <2>2. k = n + 2
    <3>1. ~(k < n + 2)
      BY <1>1, <1>3, <1>6, <2>1
    <3>2. QED
      BY <1>1, <3>1
  <2>3. QED
    BY <1>1, <1>6, <2>2 DEF IsStarted
<1>7. fs[1] = IF es = <<>> THEN x ELSE es[1]
  BY <1>1
<1>8. ASSUME NEW ls, Bring(es, ls) PROVE Bring(fs, ls)
  BY <1>1, <1>3, <1>8 DEF Bring
<1>9. \A ls : News(ls, y) => Bring(fs, ls)
  BY <1>1, <1>3 DEF Bring
<1>10. QED
  BY <1>1, <1>4, <1>5, <1>6, <1>7, <1>8, <1>9

LEMMA StartJoins ==
  ASSUME NEW S, NEW es \in Seq(S), NEW x, NEW y, NEW z, NEW t, x = Started(t), y.type = "item", z.type = "item"
  PROVE  LET fs == es \o <<x, y, z>>
         IN  /\ ~Items(fs) /\ LastTells(fs, t)
             /\ \A ls : Bring(es, ls) => Bring(fs, ls)
             /\ \A ls : News(ls, x) => Bring(fs, ls)
             /\ fs # <<>> /\ fs[1] = IF es = <<>> THEN x ELSE es[1]
<1> DEFINE fs == es \o <<x, y, z>>
           n == Len(es)
<1>1. /\ Len(fs) = n + 3 /\ DOMAIN fs = 1 .. n + 3 /\ DOMAIN es = 1 .. n /\ n \in Nat /\ fs # <<>>
      /\ \A i \in DOMAIN es : fs[i] = es[i]
      /\ fs[n + 1] = x /\ fs[n + 2] = y /\ fs[n + 3] = z /\ (es = <<>> <=> n = 0)
  BY ConcatIndex
<1>2. x.type = "started" /\ x.turn = t
  BY DEF Started
<1> HIDE DEF fs, n
<1>3. n + 1 \in DOMAIN fs /\ DOMAIN es \subseteq DOMAIN fs
  BY <1>1
<1>4. ~Items(fs)
  BY <1>1, <1>2, <1>3 DEF Items
<1>5. LastTells(fs, t)
  <2>1. SUFFICES ASSUME NEW k \in DOMAIN fs, fs[k].type # "item", \A l \in DOMAIN fs : k < l => fs[l].type = "item"
                 PROVE  t = IF IsStarted(fs[k]) THEN fs[k].turn ELSE None
    BY DEF LastTells
  <2>2. ~(k < n + 1)
    BY <1>1, <1>2, <1>3, <2>1
  <2>3. k = n + 1
    <3>1. k # n + 2 /\ k # n + 3
      BY <1>1, <2>1
    <3>2. QED
      BY <1>1, <2>2, <3>1
  <2>4. QED
    BY <1>1, <1>2, <2>3 DEF IsStarted
<1>6. fs[1] = IF es = <<>> THEN x ELSE es[1]
  BY <1>1
<1>7. ASSUME NEW ls, Bring(es, ls) PROVE Bring(fs, ls)
  BY <1>1, <1>3, <1>7 DEF Bring
<1>8. \A ls : News(ls, x) => Bring(fs, ls)
  BY <1>1, <1>3 DEF Bring
<1>9. QED
  BY <1>1, <1>4, <1>5, <1>6, <1>7, <1>8 DEF fs

\* A turn starts.
LEMMA OrderlyOpened ==
  ASSUME NEW ts \in Seq(TurnRecords), NEW es \in Seq(EventsOf(ts)),
         NEW us \in Seq(TurnRecords), Len(us) = Len(ts) + 1, \A t \in DOMAIN ts : us[t] = ts[t],
         Extends(us, ts), ~us[Len(us)].done, Orderly(ts, es, None), RunIn(ts) = None,
         NEW x, NEW y, NEW z, x = Started(Len(ts) + 1), y.type = "item", z.type = "item"
  PROVE  LET fs == es \o <<x, y, z>>
         IN  /\ Orderly(us, fs, Len(us)) /\ RunIn(us) = Len(us) /\ OneRuns(us) /\ ~Items(fs)
             /\ StillHeld(ts, es, us, fs)
<1> DEFINE fs == es \o <<x, y, z>>
           n == Len(es)
<1>1. /\ DOMAIN fs = 1 .. n + 3 /\ DOMAIN es = 1 .. n /\ n \in Nat
      /\ \A i \in DOMAIN es : fs[i] = es[i]
      /\ fs[n + 1] = x /\ fs[n + 2] = y /\ fs[n + 3] = z
  BY ConcatIndex
<1>2. /\ ~Items(fs) /\ LastTells(fs, Len(us))
      /\ \A ls : News(ls, x) => Bring(fs, ls)
      /\ fs[1] = IF es = <<>> THEN x ELSE es[1]
  BY StartJoins
<1>3. ~IsCompleted(x) /\ ~IsCompleted(y) /\ ~IsCompleted(z) /\ IsStarted(x) /\ x.turn = Len(ts) + 1
  BY DEF IsStarted, IsCompleted, Started
<1>4. Len(ts) \in Nat /\ DOMAIN ts = 1 .. Len(ts) /\ DOMAIN us = 1 .. Len(ts) + 1
  OBVIOUS
<1> HIDE DEF fs, n
<1>5. OneRuns(us)
  <2>1. \A t \in DOMAIN ts : ts[t].done
    BY RunInFacts, <1>4 DEF Orderly, OneRuns, None
  <2>2. QED
    BY <1>4, <2>1 DEF OneRuns
<1>6. RunIn(us) = Len(us)
  BY <1>4, RunInFacts
<1>7. ReplyFirst(us, fs)
  <2>1. SUFFICES ASSUME NEW k \in DOMAIN fs, IsCompleted(fs[k])
                 PROVE  Over(us, fs[k].turn) /\ (k # 1 => fs[k - 1] = ItemEvent(ReplyOf(fs[k].turn)))
    BY DEF ReplyFirst
  <2>2. k \in DOMAIN es
    <3>1. k # n + 1 /\ k # n + 2 /\ k # n + 3
      BY <1>1, <1>3, <2>1
    <3>2. QED
      BY <1>1, <3>1
  <2>3. fs[k] = es[k] /\ (k # 1 => fs[k - 1] = es[k - 1])
    BY <1>1, <2>2
  <2>4. QED
    BY <2>1, <2>2, <2>3, ExtendsOver DEF Orderly, ReplyFirst
<1>8. ASSUME NEW ls \in Seq(TurnRecords), NEW a, NEW items, Held(ls, ts, es, a, items) PROVE Held(ls, us, fs, a, items)
  <2>1. Extends(us, ls)
    BY <1>8, ExtendsTrans DEF Held
  <2>2. News(ls, x)
    <3>1. Len(ls) \in Nat /\ Len(ls) <= Len(ts)
      BY <1>8 DEF Held, Extends
    <3>2. QED
      BY <1>3, <1>4, <3>1 DEF News
  <2>3. IsCompleted(fs[1]) => Over(ls, fs[1].turn)
    BY <1>2, <1>3, <1>8 DEF Held
  <2>4. QED
    BY <1>2, <1>8, <2>1, <2>2, <2>3 DEF Held
<1>9. QED
  BY <1>2, <1>5, <1>6, <1>7, <1>8 DEF Orderly, StillHeld, fs

\* The turn that runs gets a message more, or completes.
More(ts, us, r, q, x, y) ==
  /\ r \in DOMAIN ts /\ r = Len(ts) /\ RunIn(ts) = r
  /\ Len(us) = Len(ts) /\ Extends(us, ts) /\ \A t \in DOMAIN ts : t # r => us[t] = ts[t]
  /\ q \in {None, r} /\ (us[r].done <=> q = None)
  /\ x.type = "item"
  /\ IF q = None THEN x = ItemEvent(ReplyOf(r)) /\ y = Completed(r) ELSE y.type = "item"

LEMMA OrderlyMore ==
  ASSUME NEW ts \in Seq(TurnRecords), NEW es \in Seq(EventsOf(ts)), NEW us \in Seq(TurnRecords),
         NEW r, NEW q, NEW x, NEW y, More(ts, us, r, q, x, y), Orderly(ts, es, r),
         NEW fs, fs = With(es, x, y)
  PROVE  /\ Orderly(us, fs, q) /\ RunIn(us) = q /\ OneRuns(us) /\ (Items(fs) <=> Items(es) /\ q # None)
         /\ StillHeld(ts, es, us, fs)
<1> DEFINE n == Len(es)
<1>0. /\ r \in DOMAIN ts /\ r = Len(ts) /\ RunIn(ts) = r
      /\ Len(us) = Len(ts) /\ Extends(us, ts) /\ \A t \in DOMAIN ts : t # r => us[t] = ts[t]
      /\ q \in {None, r} /\ (us[r].done <=> q = None)
      /\ x.type = "item"
      /\ q = None => x = ItemEvent(ReplyOf(r)) /\ y = Completed(r)
      /\ q # None => y.type = "item"
  BY DEF More
<1>1. /\ DOMAIN fs = 1 .. n + 2 /\ DOMAIN es = 1 .. n /\ n \in Nat
      /\ \A i \in DOMAIN es : fs[i] = es[i]
      /\ fs[n + 1] = x /\ fs[n + 2] = y
  BY ConcatIndex DEF With
<1>2. /\ Items(fs) <=> Items(es) /\ y.type = "item"
      /\ \A s : LastTells(es, s) /\ y.type = "item" => LastTells(fs, s)
      /\ y.type = "completed" => LastTells(fs, None)
      /\ \A ls : Bring(es, ls) => Bring(fs, ls)
      /\ \A ls : News(ls, y) => Bring(fs, ls)
      /\ fs[1] = IF es = <<>> THEN x ELSE es[1]
  <2>1. fs = With(es, x, y)
    OBVIOUS
  <2>2. es \in Seq(EventsOf(ts)) /\ x.type = "item"
    BY <1>0
  <2>3. /\ Items(fs) <=> Items(es) /\ y.type = "item"
        /\ \A s : LastTells(es, s) /\ y.type = "item" => LastTells(fs, s)
        /\ y.type = "completed" => LastTells(fs, None)
    BY <2>1, <2>2, ItemsJoin
  <2>4. /\ \A ls : Bring(es, ls) => Bring(fs, ls)
        /\ \A ls : News(ls, y) => Bring(fs, ls)
    BY <2>1, <2>2, ItemsJoin
  <2>5. fs[1] = IF es = <<>> THEN x ELSE es[1]
    BY <2>1, <2>2, ItemsJoin
  <2>6. QED
    BY <2>3, <2>4, <2>5
<1>3. /\ Len(ts) \in Nat /\ DOMAIN ts = 1 .. Len(ts) /\ DOMAIN us = 1 .. Len(ts) /\ r # None
      /\ us # <<>> /\ Last(us) = us[r]
  BY <1>0 DEF None, Last
<1>4. /\ ~IsCompleted(x)
      /\ q = None => y.type = "completed" /\ y.turn = r /\ IsCompleted(y)
      /\ q # None => y.type = "item" /\ ~IsCompleted(y)
  BY <1>0 DEF IsCompleted, Completed
<1> HIDE DEF n
<1>5. OneRuns(us)
  BY <1>0, <1>3 DEF Orderly, OneRuns
<1>6. RunIn(us) = q
  BY <1>0, <1>3 DEF RunIn
<1>7. LastTells(fs, q)
  BY <1>0, <1>2, <1>3, <1>4 DEF Orderly
<1>8. ReplyFirst(us, fs)
  <2>1. SUFFICES ASSUME NEW k \in DOMAIN fs, IsCompleted(fs[k])
                 PROVE  Over(us, fs[k].turn) /\ (k # 1 => fs[k - 1] = ItemEvent(ReplyOf(fs[k].turn)))
    BY DEF ReplyFirst
  <2>2. CASE k \in DOMAIN es
    <3>1. fs[k] = es[k] /\ (k # 1 => fs[k - 1] = es[k - 1])
      BY <1>0, <1>1, <2>2
    <3>2. QED
      BY <1>0, <2>1, <2>2, <3>1, ExtendsOver DEF Orderly, ReplyFirst
  <2>3. CASE k = n + 2
    <3>1. fs[k] = y /\ fs[k - 1] = x /\ q = None
      BY <1>0, <1>1, <1>3, <1>4, <2>1, <2>3
    <3>2. QED
      BY <1>0, <1>3, <1>4, <3>1 DEF Over
  <2>4. k \in DOMAIN es \/ k = n + 2
    <3>1. k # n + 1
      BY <1>0, <1>1, <1>4, <2>1
    <3>2. \A i \in 1 .. n + 2 : i \in 1 .. n \/ i = n + 1 \/ i = n + 2
      BY <1>0, <1>1
    <3>3. QED
      BY <1>0, <1>1, <3>1, <3>2
  <2>5. QED
    BY <2>2, <2>3, <2>4
<1>9. ASSUME NEW ls \in Seq(TurnRecords), NEW a, NEW items, Held(ls, ts, es, a, items) PROVE Held(ls, us, fs, a, items)
  <2>1. Extends(us, ls)
    BY <1>0, <1>9, ExtendsTrans DEF Held
  <2>2. RunIn(us) # RunIn(ls) => Bring(fs, ls)
    <3>1. CASE q = r
      BY <1>0, <1>2, <1>6, <1>9, <3>1 DEF Held
    <3>2. CASE q = None
      <4>1. ~ts[r].done
        BY <1>0, RunInFacts, <1>3
      <4>2. ~Over(ls, r)
        BY <1>0, <1>9, <4>1, ExtendsOver DEF Held, Over
      <4>3. News(ls, y)
        BY <1>0, <1>4, <3>2, <4>2 DEF News
      <4>4. QED
        BY <1>0, <1>2, <4>3
    <3>3. QED
      BY <1>0, <3>1, <3>2
  <2>3. IsCompleted(fs[1]) => Over(ls, fs[1].turn)
    BY <1>0, <1>2, <1>4, <1>9 DEF Held
  <2>4. QED
    BY <1>0, <1>9, <2>1, <2>2, <2>3 DEF Held
<1>10. QED
  BY <1>0, <1>2, <1>4, <1>5, <1>6, <1>7, <1>8, <1>9 DEF Orderly, StillHeld

\* The first event is applied.
LEMMA OrderlyHead ==
  ASSUME NEW ts \in Seq(TurnRecords), NEW es \in Seq(EventsOf(ts)), es # <<>>, NEW r, Orderly(ts, es, r),
         NEW fs, fs = Tail(es)
  PROVE  /\ Orderly(ts, fs, r)
         /\ \A a, b : Told(es, a, r) /\ (CASE es[1].type = "started"   -> b = es[1].turn
                                           [] es[1].type = "completed" -> b = None
                                           [] es[1].type = "item"      -> b = a) => Told(fs, b, r)
         /\ \A ls \in Seq(TurnRecords) : \A a, items :
              /\ Held(ls, ts, es, a, items)
              /\ IsStarted(es[1]) => es[1].turn = a
              /\ es[1].type = "item" => es[1].item \in items
              => Held(ls, ts, fs, a, items)
<1>1. /\ Len(es) \in Nat \ {0} /\ DOMAIN es = 1 .. Len(es) /\ DOMAIN fs = 1 .. Len(es) - 1
      /\ \A k \in DOMAIN fs : fs[k] = es[k + 1] /\ k + 1 \in DOMAIN es
      /\ fs # <<>> => 2 \in DOMAIN es /\ fs[1] = es[2]
  OBVIOUS
<1>2. \A k \in DOMAIN es : k # 1 => k - 1 \in DOMAIN fs /\ fs[k - 1] = es[k]
  BY <1>1
<1>3. 1 \in DOMAIN es /\ es[1].type \in {"started", "completed", "item"}
  BY <1>1, EventTurns
<1>4. ReplyFirst(ts, fs)
  <2>1. SUFFICES ASSUME NEW k \in DOMAIN fs, IsCompleted(fs[k])
                 PROVE  Over(ts, fs[k].turn) /\ (k # 1 => fs[k - 1] = ItemEvent(ReplyOf(fs[k].turn)))
    BY DEF ReplyFirst
  <2>2. fs[k] = es[k + 1] /\ k + 1 \in DOMAIN es /\ k + 1 # 1 /\ (k + 1) - 1 = k
    BY <1>1
  <2>3. Over(ts, fs[k].turn) /\ es[k] = ItemEvent(ReplyOf(fs[k].turn))
    BY <2>1, <2>2 DEF Orderly, ReplyFirst
  <2>4. k # 1 => fs[k - 1] = es[k]
    BY <1>1, <1>2
  <2>5. QED
    BY <2>3, <2>4
<1>5. LastTells(fs, r)
  <2>1. SUFFICES ASSUME NEW k \in DOMAIN fs, fs[k].type # "item", \A l \in DOMAIN fs : k < l => fs[l].type = "item"
                 PROVE  r = IF IsStarted(fs[k]) THEN fs[k].turn ELSE None
    BY DEF LastTells
  <2>2. fs[k] = es[k + 1] /\ k + 1 \in DOMAIN es
    BY <1>1
  <2>3. \A l \in DOMAIN es : k + 1 < l => es[l].type = "item"
    <3>1. SUFFICES ASSUME NEW l \in DOMAIN es, k + 1 < l PROVE es[l].type = "item"
      OBVIOUS
    <3>2. l - 1 \in DOMAIN fs /\ fs[l - 1] = es[l] /\ k < l - 1
      BY <1>1, <1>2, <3>1
    <3>3. QED
      BY <2>1, <3>2
  <2>4. QED
    BY <2>1, <2>2, <2>3 DEF Orderly, LastTells
<1>6. ASSUME NEW a, NEW b, Told(es, a, r), Items(fs),
             CASE es[1].type = "started"   -> b = es[1].turn
               [] es[1].type = "completed" -> b = None
               [] es[1].type = "item"      -> b = a
      PROVE  b \in {None, r}
  <2>1. \A l \in DOMAIN es : 1 < l => es[l].type = "item"
    <3>1. \A l \in DOMAIN es : 1 < l => l # 1
      BY <1>1
    <3>2. QED
      BY <1>2, <1>6, <3>1 DEF Items
  <2>2. CASE es[1].type = "started"
    <3>1. r = es[1].turn
      BY <1>3, <2>1, <2>2 DEF Orderly, LastTells, IsStarted
    <3>2. QED
      BY <1>6, <2>2, <3>1
  <2>3. CASE es[1].type = "completed"
    BY <1>6, <2>3
  <2>4. CASE es[1].type = "item"
    <3>1. Items(es)
      <4>1. \A l \in DOMAIN es : l = 1 \/ 1 < l
        BY <1>1
      <4>2. QED
        BY <2>1, <2>4, <4>1 DEF Items
    <3>2. QED
      BY <1>6, <2>4, <3>1 DEF Told
  <2>5. QED
    BY <1>3, <2>2, <2>3, <2>4
<1>7. ASSUME NEW ls \in Seq(TurnRecords), NEW a, NEW items, Held(ls, ts, es, a, items),
             IsStarted(es[1]) => es[1].turn = a, es[1].type = "item" => es[1].item \in items
      PROVE  Held(ls, ts, fs, a, items)
  <2>1. ~News(ls, es[1])
    <3>1. IsStarted(es[1]) => ~(es[1].turn > Len(ls))
      <4>1. a <= Len(ls) /\ Len(ls) \in Nat
        BY <1>7 DEF Held
      <4>2. IsStarted(es[1]) => es[1].turn \in Nat
        <5>1. IsStarted(es[1]) => es[1].turn \in DOMAIN ts
          BY <1>3, EventTurns DEF IsStarted
        <5>2. QED
          BY <5>1
      <4>3. QED
        BY <1>7, <4>1, <4>2
    <3>2. IsCompleted(es[1]) => Over(ls, es[1].turn)
      BY <1>7 DEF Held
    <3>3. QED
      BY <1>7, <3>1, <3>2 DEF News
  <2>2. Bring(es, ls) => Bring(fs, ls)
    <3>1. SUFFICES ASSUME NEW k \in DOMAIN es, News(ls, es[k]) PROVE Bring(fs, ls)
      BY DEF Bring
    <3>2. k # 1
      BY <2>1, <3>1
    <3>3. QED
      BY <1>2, <3>1, <3>2 DEF Bring
  <2>3. fs # <<>> /\ IsCompleted(fs[1]) => Over(ls, fs[1].turn)
    <3>1. SUFFICES ASSUME fs # <<>>, IsCompleted(fs[1]) PROVE Over(ls, fs[1].turn)
      OBVIOUS
    <3>2. 2 \in DOMAIN es /\ fs[1] = es[2] /\ 2 # 1 /\ 2 - 1 = 1
      BY <1>1, <3>1
    <3>3. es[1] = ItemEvent(ReplyOf(fs[1].turn))
      BY <3>1, <3>2 DEF Orderly, ReplyFirst
    <3>4. ReplyOf(fs[1].turn) \in items
      <4>1. \A i : ItemEvent(i).type = "item" /\ ItemEvent(i).item = i
        BY DEF ItemEvent
      <4>2. QED
        BY <1>7, <3>3, <4>1
    <3>5. QED
      BY <1>7, <3>4, ReplyOver DEF Held
  <2>4. QED
    BY <1>7, <2>2, <2>3 DEF Held
<1>8. QED
  BY <1>4, <1>5, <1>6, <1>7 DEF Orderly, Told

LEMMA OrderlyEmpty == ASSUME NEW ts, OneRuns(ts) PROVE \A r : Orderly(ts, <<>>, r)
<1>1. DOMAIN <<>> = {}
  OBVIOUS
<1>2. QED
  BY <1>1 DEF Orderly, ReplyFirst, LastTells

\* What the server does, and the events of it.
LEMMA OrderlyServer ==
  ASSUME Types, Orderly(turns, events, Running), ~subscribed => events = <<>>,
         (\E x \in Texts : Open(x) \/ Inject(x)) \/ Finish
  PROVE  /\ Orderly(turns', events', Running') /\ (~subscribed => events' = <<>>)
         /\ link /\ subscribed => /\ StillHeld(turns, events, turns', events')
                                  /\ \A a : Told(events, a, Running) => Told(events', a, Running')
<1> DEFINE n == Len(turns)
           r == Running
<1>1. /\ turns \in Seq(TurnRecords) /\ events \in Seq(EventsOf(turns)) /\ n \in Nat
      /\ r = RunIn(turns) /\ Running' = RunIn(turns') /\ (~link => ~subscribed)
  BY DEF Types, ServerType, LinkType, Running, RunIn
<1>2. ASSUME NEW q, q = RunIn(turns'), OneRuns(turns'), events' = events \/ (link /\ subscribed),
             NEW fs, link /\ subscribed => events' = fs, Orderly(turns', fs, q),
             StillHeld(turns, events, turns', fs),
             \A a : Told(events, a, r) => Told(fs, a, q)
      PROVE  /\ Orderly(turns', events', Running') /\ (~subscribed => events' = <<>>)
             /\ link /\ subscribed => /\ StillHeld(turns, events, turns', events')
                                      /\ \A a : Told(events, a, Running) => Told(events', a, Running')
  <2>1. CASE link /\ subscribed
    BY <1>1, <1>2, <2>1
  <2>2. CASE ~(link /\ subscribed)
    <3>1. events' = <<>>
      BY <1>1, <1>2, <2>2
    <3>2. QED
      BY <1>2, <2>2, <3>1, OrderlyEmpty
  <2>3. QED
    BY <2>1, <2>2
<1>3. CASE \E x \in Texts : Open(x)
  <2>1. PICK x \in Texts : Open(x)
    BY <1>3
  <2> DEFINE i == Item(n + 1, 1, x)
             fs == events \o <<Started(n + 1), ItemEvent(i), ItemEvent(i)>>
  <2>2. /\ r = None /\ Len(turns') = n + 1 /\ turns' \in Seq(TurnRecords) /\ Extends(turns', turns)
        /\ \A t \in DOMAIN turns : turns'[t] = turns[t]
        /\ turns'[Len(turns')] = [users |-> <<x>>, done |-> FALSE]
        /\ ~(link /\ subscribed) => events' = events
    BY <2>1, OpenFacts DEF Grows
  <2>3. link /\ subscribed => events' = fs
    BY <2>1, OpenEmits
  <2>4. ItemEvent(i).type = "item" /\ ~turns'[Len(turns')].done
    BY <2>2 DEF ItemEvent
  <2>5. Orderly(turns, events, None) /\ RunIn(turns) = None
    BY <1>1, <2>2
  <2> HIDE DEF i, n, r
  <2>6. /\ Orderly(turns', fs, Len(turns')) /\ RunIn(turns') = Len(turns') /\ OneRuns(turns') /\ ~Items(fs)
        /\ StillHeld(turns, events, turns', fs)
    BY <1>1, <2>2, <2>4, <2>5, OrderlyOpened DEF n
  <2> HIDE DEF fs
  <2>7. \A a : Told(fs, a, RunIn(turns'))
    BY <2>6 DEF Told
  <2>8. QED
    BY <1>2, <2>2, <2>3, <2>6, <2>7
<1>4. ASSUME turns' \in Seq(TurnRecords), NEW q, NEW x, NEW y, More(turns, turns', r, q, x, y),
             IF link /\ subscribed THEN events' = events \o <<x, y>> ELSE events' = events
      PROVE  /\ Orderly(turns', events', Running') /\ (~subscribed => events' = <<>>)
             /\ link /\ subscribed => /\ StillHeld(turns, events, turns', events')
                                      /\ \A a : Told(events, a, Running) => Told(events', a, Running')
  <2> DEFINE fs == With(events, x, y)
  <2> HIDE DEF n, r
  <2>2. /\ Orderly(turns', fs, q) /\ RunIn(turns') = q /\ OneRuns(turns') /\ (Items(fs) <=> Items(events) /\ q # None)
        /\ StillHeld(turns, events, turns', fs)
    <3>1. Orderly(turns, events, r) /\ fs = With(events, x, y)
      BY DEF r
    <3> HIDE DEF fs
    <3>2. QED
      BY <1>1, <1>4, <3>1, OrderlyMore
  <2> HIDE DEF fs
  <2>3. \A a : Told(events, a, r) => Told(fs, a, q)
    BY <1>4, <2>2 DEF Told, More
  <2>4. link /\ subscribed => events' = fs
    BY <1>4 DEF fs, With
  <2>5. events' = events \/ (link /\ subscribed)
    BY <1>4
  <2>6. QED
    BY <1>2, <2>2, <2>3, <2>4, <2>5
<1>5. CASE \E x \in Texts : Inject(x)
  <2>1. PICK x \in Texts : Inject(x)
    BY <1>5
  <2> DEFINE i == Item(r, Len(turns[r].users) + 1, x)
  <2>2. /\ r # None /\ Len(turns') = n /\ turns' \in Seq(TurnRecords) /\ Extends(turns', turns)
        /\ \A t \in DOMAIN turns : t # r => turns'[t] = turns[t]
        /\ turns'[r] = [users |-> Append(turns[r].users, x), done |-> FALSE]
    BY <2>1, InjectFacts DEF Grows
  <2>3. IF link /\ subscribed THEN events' = events \o <<ItemEvent(i), ItemEvent(i)>> ELSE events' = events
    BY <2>1 DEF Inject, Emit, Echo
  <2>4. ItemEvent(i).type = "item" /\ (turns'[r].done <=> r = None) /\ r \in {None, r}
    BY <2>2 DEF ItemEvent
  <2>5. r \in DOMAIN turns /\ r = n
    BY <2>2, RunningFacts
  <2> HIDE DEF i, n, r
  <2>6. More(turns, turns', r, r, ItemEvent(i), ItemEvent(i))
    BY <1>1, <2>2, <2>4, <2>5 DEF More, n
  <2>7. QED
    BY <1>4, <2>2, <2>3, <2>6
<1>6. CASE Finish
  <2> DEFINE x == ItemEvent(ReplyOf(r))
             y == Completed(r)
  <2>1. /\ r # None /\ Len(turns') = n /\ turns' \in Seq(TurnRecords) /\ Extends(turns', turns)
        /\ \A t \in DOMAIN turns : t # r => turns'[t] = turns[t]
        /\ turns'[r].done
    BY <1>6, FinishFacts DEF Grows
  <2>2. IF link /\ subscribed THEN events' = events \o <<x, y>> ELSE events' = events
    BY <1>6 DEF Finish, Emit
  <2>3. x.type = "item" /\ (turns'[r].done <=> None = None) /\ x = ItemEvent(ReplyOf(r)) /\ y = Completed(r)
    BY <2>1 DEF ItemEvent
  <2>4. r \in DOMAIN turns /\ r = n
    BY <2>1, RunningFacts
  <2> HIDE DEF x, y, n, r
  <2>5. More(turns, turns', r, None, x, y)
    BY <1>1, <2>1, <2>3, <2>4 DEF More, n
  <2>6. QED
    BY <1>4, <2>1, <2>2, <2>5
<1>7. QED
  BY <1>3, <1>5, <1>6

LEMMA ActiveServes ==
  ASSUME Types, ActiveInv, Serves, UNCHANGED <<refresh, paginated, link, subscribed>>
  PROVE  ActiveInv'
<1>1. /\ Orderly(turns', events', Running') /\ (~subscribed => events' = <<>>)
      /\ link /\ subscribed => /\ StillHeld(turns, events, turns', events')
                               /\ \A a : Told(events, a, Running) => Told(events', a, Running')
  BY OrderlyServer DEF ActiveInv, Serves
<1>2. UNCHANGED <<thread, overtaken>> /\ refresh.turns \in Seq(TurnRecords)
  BY RefreshFacts DEF Serves
<1>3. HoldsList \/ Showing => link /\ subscribed
  BY DEF ActiveInv, HoldsList, Showing, At
<1>4. (HoldsList' <=> HoldsList) /\ (Showing' <=> Showing)
  BY DEF HoldsList, Showing, At
<1>5. ASSUME ~overtaken, HoldsList
      PROVE  Held(refresh.turns, turns', events', thread.active, DOMAIN thread.items)
  <2>1. Held(refresh.turns, turns, events, thread.active, DOMAIN thread.items)
    BY <1>5 DEF ActiveInv
  <2>2. QED
    BY <1>1, <1>2, <1>3, <1>5, <2>1 DEF StillHeld
<1>6. ASSUME ~overtaken, Showing PROVE Told(events', thread.active, Running')
  BY <1>1, <1>3, <1>6 DEF ActiveInv
<1>7. link' /\ ~subscribed' => At("resume")'
  BY DEF ActiveInv, At
<1>8. QED
  BY <1>1, <1>2, <1>4, <1>5, <1>6, <1>7 DEF ActiveInv

LEMMA ActiveAside ==
  ASSUME ActiveInv, Aside, UNCHANGED <<refresh, paginated, link, subscribed>>, overtaken => overtaken'
  PROVE  ActiveInv'
<1>1. UNCHANGED <<turns, events>> /\ thread'.active = thread.active /\ Running' = Running
  BY DEF Aside, Running
<1>2. (HoldsList' <=> HoldsList) /\ (Showing' <=> Showing)
  BY DEF HoldsList, Showing, At
<1>3. ~overtaken' /\ HoldsList => thread' = thread
  BY DEF Aside, HoldsList, Holding, At
<1>4. link' /\ ~subscribed' => At("resume")'
  BY DEF ActiveInv, At
<1>5. ~overtaken' => /\ HoldsList => Held(refresh.turns, turns, events, thread'.active, DOMAIN thread'.items)
                     /\ Showing => Told(events, thread'.active, Running)
  BY <1>1, <1>3 DEF ActiveInv
<1>6. QED
  BY <1>1, <1>2, <1>4, <1>5 DEF ActiveInv

LEMMA ActiveReceived == ASSUME Types, ActiveInv, Receive PROVE ActiveInv'
<1>1. /\ UNCHANGED <<turns, refresh, paginated, link, subscribed>> /\ events # <<>> /\ events' = Tail(events)
      /\ Running' = Running
  BY DEF Receive, Running
<1>2. turns \in Seq(TurnRecords) /\ events \in Seq(EventsOf(turns)) /\ refresh.turns \in Seq(TurnRecords)
  BY RefreshFacts DEF Types, ServerType
<1>3. Snapshot(thread, turns) /\ Len(turns) \in Nat /\ Head(events) = events[1]
  BY <1>1, EventFacts DEF Types, ServerType, ThreadType
<1>4. PICK b : /\ b = thread'.active
               /\ CASE events[1].type = "started"   -> b = events[1].turn
                    [] events[1].type = "completed" -> b = None
                    [] events[1].type = "item"      -> b = thread.active
  BY <1>1, ReceivedActive
<1>5. (overtaken => overtaken') /\ (~overtaken' /\ HoldsList => thread' = thread)
  <2>1. \E new : Update(new)
    BY ReceiveCases
  <2>2. QED
    BY <2>1 DEF Update, HoldsList, Holding, At
<1>6. events[1].type = "item" => events[1].item \in DOMAIN thread'.items
  <2>1. SUFFICES ASSUME events[1].type = "item" PROVE events[1].item \in DOMAIN thread'.items
    OBVIOUS
  <2>2. events[1].item \in AllItems(turns) /\ thread' = OnItem(thread, events[1].item)
    BY <1>3, <2>1, ReceiveCases DEF Update
  <2>3. PICK i : i = events[1].item
    OBVIOUS
  <2>4. DOMAIN OnItem(thread, i).items = DOMAIN thread.items \cup {i}
    BY <1>2, <1>3, <2>2, <2>3, ItemFacts
  <2>5. QED
    BY <2>2, <2>3, <2>4
<1>7. /\ Orderly(turns, events', Running)
      /\ Told(events, thread.active, Running) => Told(events', b, Running)
      /\ \A ls \in Seq(TurnRecords) : \A a, items :
           /\ Held(ls, turns, events, a, items)
           /\ IsStarted(events[1]) => events[1].turn = a
           /\ events[1].type = "item" => events[1].item \in items
           => Held(ls, turns, events', a, items)
  BY <1>1, <1>2, <1>4, OrderlyHead DEF ActiveInv
<1>8. (HoldsList' <=> HoldsList) /\ (Showing' <=> Showing)
  BY <1>1 DEF HoldsList, Showing, At
<1>9. ASSUME ~overtaken', HoldsList
      PROVE  Held(refresh.turns, turns, events', thread'.active, DOMAIN thread'.items)
  <2>1. thread' = thread /\ ~overtaken
    BY <1>5, <1>9
  <2>2. Held(refresh.turns, turns, events, thread.active, DOMAIN thread.items)
    BY <1>9, <2>1 DEF ActiveInv
  <2>3. IsStarted(events[1]) => events[1].turn = thread.active
    BY <1>4, <2>1 DEF IsStarted
  <2>4. events[1].type = "item" => events[1].item \in DOMAIN thread.items
    BY <1>6, <2>1
  <2>5. Held(refresh.turns, turns, events', thread.active, DOMAIN thread.items)
    BY <1>2, <1>7, <2>2, <2>3, <2>4
  <2>6. QED
    BY <2>1, <2>5
<1>10. ~overtaken' /\ Showing => Told(events', b, Running)
  BY <1>5, <1>7 DEF ActiveInv
<1>11. (link' /\ ~subscribed' => At("resume")') /\ subscribed
  <2>1. subscribed
    BY <1>1 DEF ActiveInv
  <2>2. QED
    BY <1>1, <2>1
<1>12. QED
  BY <1>1, <1>4, <1>7, <1>8, <1>9, <1>10, <1>11 DEF ActiveInv

\* The list has just come.
LEMMA HeldNow ==
  ASSUME Types, ActiveInv
  PROVE  Held(turns, turns, events, thread.active, DOMAIN thread.items)
<1>1. turns \in Seq(TurnRecords) /\ events \in Seq(EventsOf(turns)) /\ Snapshot(thread, turns)
  BY RefreshFacts DEF Types, ServerType
<1>2. Extends(turns, turns) /\ thread.active <= Len(turns) /\ DOMAIN thread.items \subseteq AllItems(turns)
  BY <1>1, ExtendsSelf DEF Snapshot
<1>3. events # <<>> => 1 \in DOMAIN events
  BY <1>1
<1>4. events # <<>> /\ IsCompleted(events[1]) => Over(turns, events[1].turn)
  BY <1>3 DEF ActiveInv, Orderly, ReplyFirst
<1>5. QED
  BY <1>2, <1>4 DEF ActiveInv, Orderly, Held

\* reconcile_active_turn gives the turn of the list that runs, or none.
LEMMA Reconciled ==
  ASSUME NEW ls \in Seq(TurnRecords), OneRuns(ls), NEW a \in Nat, a <= Len(ls), NEW n \in {None, RunIn(ls)}
  PROVE  ReconcileActive(a, n, ls) \in {None, RunIn(ls)}
<1>1. CASE n # None
  BY <1>1 DEF ReconcileActive
<1>2. CASE n = None /\ ls = <<>>
  <2>1. a = None
    BY <1>2 DEF None
  <2>2. QED
    BY <1>2, <2>1 DEF ReconcileActive
<1>3. CASE n = None /\ ls # <<>>
  BY <1>3, RunInFacts DEF ReconcileActive
<1>4. QED
  BY <1>1, <1>2, <1>3

LEMMA ToldHeld ==
  ASSUME NEW ls, NEW ts, NEW es, NEW a, NEW items, Held(ls, ts, es, a, items), NEW b \in {None, RunIn(ls)}
  PROVE  Told(es, b, RunIn(ts))
<1>1. Items(es) => ~Bring(es, ls)
  BY DEF Items, Bring, News, IsStarted, IsCompleted
<1>2. QED
  BY <1>1 DEF Told, Held

\* What the refresh writes tells what runs.
LEMMA ActiveWrite ==
  ASSUME Types, BubbleInv, ActiveInv, WriteResumed \/ WriteProbed \/ WritePage
  PROVE  ActiveInv'
<1>1. /\ UNCHANGED <<turns, events, subscribed, link, overtaken, paginated>> /\ Running' = Running
      /\ Running = RunIn(turns)
  BY DEF WriteResumed, WriteProbed, WritePage, Keep, serverVars, Write, Running, RunIn
<1>2. /\ turns \in Seq(TurnRecords) /\ Snapshot(thread, turns) /\ Snapshot(refresh.read, turns)
      /\ AllItems(refresh.turns) \subseteq AllItems(turns) /\ refresh.turns \in Seq(TurnRecords)
  BY RefreshFacts
<1>3. refresh.pc \in Reads /\ (~overtaken => refresh.read = thread)
  BY DEF WriteResumed, WriteProbed, WritePage, At, Reads, BubbleInv
<1>4. link => subscribed
  BY <1>3 DEF ActiveInv, At, Reads
<1>5. ~HoldsList'
  BY DEF WriteResumed, WriteProbed, WritePage, Ask, Goto, Idle, HoldsList, At
<1>6. ASSUME ~overtaken, HoldsList, WriteResumed \/ WriteProbed
      PROVE  /\ Held(refresh.turns, turns, events, thread.active, DOMAIN thread.items)
             /\ \A n \in {None, RunIn(refresh.turns)} :
                  ReconcileActive(refresh.read.active, n, refresh.turns) \in {None, RunIn(refresh.turns)}
  <2>1. Held(refresh.turns, turns, events, thread.active, DOMAIN thread.items)
    BY <1>6 DEF ActiveInv
  <2>2. OneRuns(refresh.turns) /\ thread.active <= Len(refresh.turns) /\ thread.active \in Nat
    BY <1>2, <2>1 DEF Held, Snapshot
  <2>3. QED
    BY <1>2, <1>3, <1>6, <2>1, <2>2, Reconciled
<1>7. ASSUME ~overtaken, Showing' PROVE Told(events, thread'.active, Running)
  <2>1. CASE WriteResumed
    <3> DEFINE ls == refresh.turns
               n == IF ls = <<>> \/ Last(ls).done THEN None ELSE Len(ls)
               a == ReconcileActive(refresh.read.active, n, ls)
    <3>1. HoldsList
      <4>1. ~paginated
        BY <1>1, <1>7, <2>1 DEF Showing, WriteResumed, Ask, Goto, Idle
      <4>2. QED
        BY <1>1, <1>7, <2>1, <4>1 DEF Showing, WriteResumed, HoldsList, At
    <3>2. n = RunIn(ls)
      BY DEF RunIn
    <3>3. thread' = Upsert(thread, ResumedThread(a))
      BY <2>1 DEF WriteResumed, Write, ResumedThread
    <3> HIDE DEF a, n
    <3>4. a \in {None, RunIn(ls)}
      BY <1>6, <1>7, <2>1, <3>1, <3>2 DEF a
    <3>5. a \in 0 .. Len(turns)
      <4>1. Len(ls) <= Len(turns) /\ Len(turns) \in Nat /\ Len(ls) \in Nat
        BY RefreshFacts
      <4>2. RunIn(ls) \in 0 .. Len(ls)
        BY <1>2, RunInFacts
      <4>3. QED
        BY <3>4, <4>1, <4>2 DEF None
    <3>6. Snapshot(ResumedThread(a), turns) /\ ResumedThread(a).active = a
      BY <3>5, ResumedFacts DEF ResumedThread
    <3>7. thread'.active = a
      BY <1>2, <3>3, <3>6, UpsertFacts
    <3>8. QED
      BY <1>1, <1>6, <1>7, <2>1, <3>1, <3>4, <3>7, ToldHeld
  <2>2. CASE WriteProbed
    <3>1. HoldsList
      BY <1>1, <1>7, <2>2 DEF Showing, WriteProbed, HoldsList, At
    <3>2. ProbedActive \in {None, RunIn(refresh.turns)}
      BY <1>6, <1>7, <2>2, <3>1 DEF ProbedActive
    <3>3. thread'.active = ProbedActive
      <4>1. CASE UNCHANGED thread /\ ProbedActive = refresh.read.active
        BY <1>3, <1>7, <4>1
      <4>2. CASE /\ ProbedActive \in 0 .. Len(turns)
                 /\ thread' = Upsert(thread, [refresh.read EXCEPT !.active = ProbedActive])
        <5> DEFINE new == [refresh.read EXCEPT !.active = ProbedActive]
        <5>1. Snapshot(new, turns) /\ new.active = ProbedActive
          BY <1>2, <4>2 DEF Snapshot
        <5>2. thread' = Upsert(thread, new)
          BY <4>2
        <5> HIDE DEF new
        <5>3. QED
          BY <1>2, <5>1, <5>2, UpsertFacts
      <4>3. ~WriteResumed /\ ~WritePage
        BY <2>2 DEF WriteResumed, WriteProbed, WritePage, At
      <4>4. QED
        BY <2>2, <4>1, <4>2, <4>3, WriteCases
    <3>4. QED
      BY <1>1, <1>6, <1>7, <2>2, <3>1, <3>2, <3>3, ToldHeld
  <2>3. CASE WritePage
    <3>1. Showing
      BY <1>1, <1>7, <2>3 DEF Showing, WritePage, At
    <3>2. /\ Snapshot(MergePage(refresh.read, refresh.turns), turns)
          /\ MergePage(refresh.read, refresh.turns).active = refresh.read.active
      <4>1. Snapshot(MergePage(refresh.read, refresh.turns), turns)
        BY <1>2, PageFacts
      <4>2. MergePage(refresh.read, refresh.turns).active = refresh.read.active
        BY <1>2 DEF MergePage, Snapshot
      <4>3. QED
        BY <4>1, <4>2
    <3>3. thread'.active = refresh.read.active
      BY <1>2, <2>3, <3>2, UpsertFacts DEF WritePage, Write
    <3>4. QED
      BY <1>3, <1>7, <3>1, <3>3 DEF ActiveInv
  <2>4. QED
    BY <2>1, <2>2, <2>3
<1>8. QED
  BY <1>1, <1>4, <1>5, <1>7 DEF ActiveInv

LEMMA ActiveRefresh == ASSUME Types, BubbleInv, ActiveInv, Refresh PROVE ActiveInv'
<1>1. CASE WriteResumed \/ WriteProbed \/ WritePage
  BY <1>1, ActiveWrite
<1>2. ASSUME UNCHANGED <<turns, events, thread, link, overtaken, paginated>>, subscribed' = subscribed \/ subscribed',
             link => subscribed',
             HoldsList' => (HoldsList /\ refresh'.turns = refresh.turns) \/ refresh'.turns = turns,
             Showing' => Showing
      PROVE  ActiveInv'
  <2>1. Running' = Running
    BY <1>2 DEF Running
  <2>2. ~overtaken /\ HoldsList' => Held(refresh'.turns, turns, events, thread.active, DOMAIN thread.items)
    BY <1>2, HeldNow DEF ActiveInv
  <2>3. ~overtaken /\ Showing' => Told(events, thread.active, Running)
    BY <1>2 DEF ActiveInv
  <2>4. (~subscribed' => events' = <<>>) /\ (link' /\ ~subscribed' => At("resume")')
    BY <1>2 DEF ActiveInv
  <2>5. QED
    BY <1>2, <2>1, <2>2, <2>3, <2>4 DEF ActiveInv
<1>3. CASE Resume
  <2>1. UNCHANGED <<turns, events, thread, link, overtaken, paginated>> /\ subscribed'
    BY <1>3 DEF Resume, Keep
  <2>2. /\ HoldsList' => refresh'.turns = turns
        /\ ~Showing'
    BY <1>3, <2>1 DEF Resume, Idle, HoldsList, Showing, At
  <2>3. QED
    BY <1>2, <2>1, <2>2
<1>4. CASE ListTurns("probe", "probed") \/ ListTurns("page", "paged")
  <2>1. UNCHANGED <<turns, events, thread, link, overtaken, paginated, subscribed>>
    BY <1>4 DEF ListTurns, Keep, serverVars
  <2>2. link => subscribed
    BY <1>4 DEF ListTurns, At, ActiveInv
  <2>3. refresh'.turns = turns /\ (Showing' => Showing)
    BY <1>4, <2>1 DEF ListTurns, Idle, Showing, At
  <2>4. QED
    BY <1>2, <2>1, <2>2, <2>3
<1>5. CASE \/ ReadThread("resumed", "resumeRead") \/ ReadThread("probed", "probeRead")
           \/ ReadThread("paged", "pageRead")
  <2>1. UNCHANGED <<turns, events, thread, link, overtaken, paginated, subscribed>>
    BY <1>5 DEF ReadThread, Keep, serverVars
  <2>2. link => subscribed
    BY <1>5 DEF ReadThread, At, ActiveInv
  <2>3. refresh'.turns = refresh.turns /\ (HoldsList' => HoldsList) /\ (Showing' => Showing)
    <3>1. refresh \in [pc : RefreshStates, turns : Seq(TurnRecords), read : {refresh.read}]
      BY RefreshFacts
    <3>2. QED
      BY <1>5, <2>1, <3>1 DEF ReadThread, HoldsList, Showing, At
  <2>4. QED
    BY <1>2, <2>1, <2>2, <2>3
<1>6. QED
  BY <1>1, <1>3, <1>4, <1>5 DEF Refresh

LEMMA ActiveLink == ASSUME Types, ActiveInv, ConnectionLost \/ Reconnected PROVE ActiveInv'
<1>1. /\ UNCHANGED turns /\ (events' = <<>> \/ events' = events) /\ Running' = Running
      /\ ~subscribed' => events' = <<>>
  BY LostFacts DEF ConnectionLost, Reconnected, serverVars, Running, ActiveInv
<1>2. Orderly(turns, events', Running)
  BY <1>1, OrderlyEmpty DEF ActiveInv, Orderly
<1>3. ~HoldsList' /\ ~Showing' /\ (link' => At("resume")')
  BY DEF ConnectionLost, Reconnected, Goto, Idle, HoldsList, Showing, At
<1>4. QED
  BY <1>1, <1>2, <1>3 DEF ActiveInv

LEMMA StepActive == ASSUME Types, BubbleInv, ActiveInv, [Next]_vars PROVE ActiveInv'
<1>1. CASE Elsewhere
  BY <1>1, ActiveServes, ActiveAside DEF Elsewhere
<1>2. QED
  BY <1>1, NextCases, ActiveReceived, ActiveRefresh, ActiveLink

LEMMA InitActive == ASSUME Init PROVE ActiveInv
<1>1. /\ turns = <<>> /\ events = <<>> /\ thread.active = None /\ link /\ subscribed /\ refresh.pc = "idle"
  BY DEF Init, Blank, Idle
<1>2. DOMAIN turns = {} /\ Running = None
  BY <1>1 DEF Running
<1>3. Orderly(turns, events, Running)
  BY <1>1, <1>2, OrderlyEmpty DEF OneRuns
<1>4. Told(events, thread.active, Running)
  BY <1>1 DEF Told
<1>5. ~HoldsList
  BY <1>1 DEF HoldsList, At
<1>6. QED
  BY <1>1, <1>3, <1>4, <1>5 DEF ActiveInv

LEMMA ActiveHolds == Spec => [](Types /\ ActiveInv)
<1>1. Init => Types /\ BubbleInv /\ ActiveInv
  BY InitTypes, InitBubble, InitActive
<1>2. Types /\ BubbleInv /\ ActiveInv /\ [Next]_vars => (Types /\ BubbleInv /\ ActiveInv)'
  <2>1. ASSUME Types, BubbleInv, ActiveInv, [Next]_vars PROVE Types' /\ BubbleInv' /\ ActiveInv'
    <3>1. Types'
      BY <2>1, StepTypes
    <3>2. QED
      BY <2>1, <3>1, StepBubble, StepActive
  <2>2. QED
    BY <2>1
<1>3. QED
  BY <1>1, <1>2, PTL DEF Spec

\* Once the client has caught up with the server after any number of lost
\* connections the thread does not show a turn as running that does not: what a
\* list of turns came too early to tell, the events that follow it do.
THEOREM ShownActiveRunsHolds == Spec => []ShownActiveRuns
<1>1. ASSUME Types, ActiveInv PROVE ShownActiveRuns
  <2>1. SUFFICES ASSUME CaughtUp, ~overtaken PROVE thread.active \in {None, Running}
    BY DEF ShownActiveRuns
  <2>2. Showing /\ events = <<>>
    BY <2>1 DEF CaughtUp, Showing, At
  <2>3. Items(events)
    BY <2>2 DEF Items
  <2>4. QED
    BY <1>1, <2>1, <2>2, <2>3 DEF ActiveInv, Told
<1>2. QED
  BY <1>1, ActiveHolds, PTL

=============================================================================
