---------------------- MODULE SlingshotSegmentsProofs ----------------------
(* The segment_count that every chunk of a message carries, and on which   *)
(* the receiver waits, is computed before the message is cut; the number   *)
(* of chunks that raw.chunks then yields is another computation.  They     *)
(* agree for a message of any size that the function accepts.              *)
EXTENDS SlingshotSegments, TLAPS

\* Rounding up: DivCeil(a, b) is the one q with (q - 1) * b < a <= q * b.
LEMMA DivCeilBounds ==
  ASSUME NEW a \in Nat, NEW b \in Nat \ {0}
  PROVE  /\ DivCeil(a, b) \in Nat
         /\ a <= DivCeil(a, b) * b
         /\ DivCeil(a, b) * b <= a + b - 1
<1> DEFINE x == a + b - 1
<1>1. x \in Nat
  OBVIOUS
<1>2. x \div b \in Nat /\ (x \div b) * b <= x /\ x < (x \div b) * b + b
  BY <1>1, Z3
<1>3. QED
  BY <1>2 DEF DivCeil

LEMMA DivCeilUnique ==
  ASSUME NEW a \in Nat, NEW b \in Nat \ {0}, NEW q \in Nat,
         a <= q * b, q * b <= a + b - 1
  PROVE  DivCeil(a, b) = q
<1> DEFINE p == DivCeil(a, b)
<1>1. p \in Nat /\ a <= p * b /\ p * b <= a + b - 1
  BY DivCeilBounds
<1> HIDE DEF p
<1>2. p * b < (q + 1) * b /\ q * b < (p + 1) * b
  BY <1>1, SMT
<1>3. p < q + 1 /\ q < p + 1
  BY <1>1, <1>2, SMT
<1>4. QED
  BY <1>1, <1>3 DEF p

\* The sizes of a message that is cut: since the target is
\* at least twice the number of segments, a chunk has at least as many bytes as the
\* message has segments.
LEMMA ChunkSizeBounds ==
  ASSUME NEW n \in Nat, ~FitsWhole(n), ~Refused(n)
  PROVE  LET k == SegmentCount(n)  c == ChunkSize(n) IN
         /\ k \in Nat /\ k >= 2 /\ c \in Nat \ {0}
         /\ n <= k * c /\ k * c <= n + k - 1 /\ k <= c
<1> DEFINE k == SegmentCount(n)
           d == DivCeil(n, k)
           t == DivCeil(n, Target)
<1>1. n >= 3
  BY SegmentsAssumption DEF FitsWhole
<1>2. /\ Target \in Nat \ {0} /\ CountMax \in Nat /\ Target >= 2 * CountMax
      /\ t \in Nat /\ n <= t * Target /\ t * Target <= n + Target - 1
  BY SegmentsAssumption, DivCeilBounds
<1>3. k \in Nat /\ k >= 2 /\ k <= CountMax /\ (k = 2 \/ k = t)
  BY <1>2, SegmentsAssumption DEF SegmentCount, Refused, Larger
<1> HIDE DEF k
<1>4. d \in Nat /\ n <= d * k /\ d * k <= n + k - 1
  BY <1>3, DivCeilBounds
<1> HIDE DEF d, t
<1>5. d >= k
  <2>1. CASE k = 2
    BY <1>1, <1>4, <2>1
  <2>2. CASE k = t /\ k > 2
    \* (k - 1) * Target < n <= d * k, and k <= 2 * (k - 1)
    <3>1. (k - 1) * Target < d * k
      BY <1>2, <1>4, <2>2
    <3>2. (k - 1) * (2 * k) <= (k - 1) * Target
      BY <1>2, <1>3
    <3>3. k * (2 * (k - 1)) < k * d
      BY <1>2, <1>3, <1>4, <3>1, <3>2
    <3>4. 2 * (k - 1) < d
      BY <1>3, <1>4, <3>3
    <3>5. QED
      BY <1>3, <1>4, <3>4
  <2>3. QED
    BY <1>3, <2>1, <2>2
<1>6. ChunkSize(n) = d
  BY <1>3, <1>4, <1>5 DEF ChunkSize, Larger, d, k
<1>7. QED
  BY <1>3, <1>4, <1>5, <1>6 DEF k

\* A message that is cut yields as many chunks as each of them announces, none of
\* them empty; all but the last have the same length, and together they have the
\* length of the message (split_client_wire_envelope_for_transport).
THEOREM ChunksAsAnnounced ==
  ASSUME NEW n \in Nat, ~FitsWhole(n), ~Refused(n)
  PROVE  /\ ChunkCount(n) = SegmentCount(n)
         /\ \A i \in 1 .. ChunkCount(n) : ChunkLen(n, i) >= 1
         /\ \A i \in 1 .. ChunkCount(n) - 1 : ChunkLen(n, i) = ChunkSize(n)
         /\ (ChunkCount(n) - 1) * ChunkSize(n) + ChunkLen(n, ChunkCount(n)) = n
<1> DEFINE k == SegmentCount(n)
           c == ChunkSize(n)
<1>1. /\ k \in Nat /\ k >= 2 /\ c \in Nat \ {0}
      /\ n <= k * c /\ k * c <= n + k - 1 /\ k <= c
  BY ChunkSizeBounds
<1> HIDE DEF k, c
<1>2. DivCeil(n, c) = k
  BY <1>1, DivCeilUnique
<1>3. ChunkCount(n) = k
  BY <1>2 DEF ChunkCount, c
<1>4. (k - 1) * c < n /\ n - (k - 1) * c <= c
  BY <1>1
<1>5. ASSUME NEW i \in 1 .. k
      PROVE  ChunkLen(n, i) >= 1 /\ (i < k => ChunkLen(n, i) = c)
             /\ (i = k => ChunkLen(n, i) = n - (k - 1) * c)
  <2>1. CASE i = k
    BY <1>1, <1>4, <2>1 DEF ChunkLen, Smaller, c
  <2>2. CASE i < k
    <3>1. i * c <= (k - 1) * c
      BY <1>1, <2>2
    <3>2. n - (i - 1) * c >= c
      BY <1>1, <1>4, <3>1
    <3>3. QED
      BY <1>1, <2>2, <3>2 DEF ChunkLen, Smaller, c
  <2>3. QED
    BY <1>1, <2>1, <2>2
<1>6. QED
  BY <1>1, <1>3, <1>5 DEF k, c
=============================================================================
