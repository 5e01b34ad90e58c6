--------------------------- MODULE SlingshotProofs ---------------------------
(* Safety of Slingshot for any workload, sizes and failures, and that it   *)
(* implements OrderedDelivery.                                             *)
EXTENDS Slingshot, SlingshotSegmentsProofs, FiniteSetTheorems, WellFoundedInduction

-----------------------------------------------------------------------------
(* Sequences.                                                              *)

LEMMA AppendFacts ==
  ASSUME NEW S, NEW q \in Seq(S), NEW e \in S
  PROVE  /\ Append(q, e) \in Seq(S)
         /\ Len(Append(q, e)) = Len(q) + 1 /\ Len(q) \in Nat
         /\ DOMAIN Append(q, e) = 1 .. Len(q) + 1 /\ DOMAIN q = 1 .. Len(q)
         /\ \A i \in 1 .. Len(q) : Append(q, e)[i] = q[i]
         /\ Append(q, e)[Len(q) + 1] = e
OBVIOUS

LEMMA TailFacts ==
  ASSUME NEW S, NEW q \in Seq(S), q # <<>>
  PROVE  /\ Tail(q) \in Seq(S) /\ q[1] \in S /\ 1 \in DOMAIN q
         /\ Len(Tail(q)) = Len(q) - 1 /\ Len(q) \in Nat \ {0}
         /\ DOMAIN Tail(q) = 1 .. Len(q) - 1 /\ DOMAIN q = 1 .. Len(q)
         /\ \A i \in 1 .. Len(q) - 1 : Tail(q)[i] = q[i + 1]
OBVIOUS

LEMMA RangeFacts ==
  ASSUME NEW S, NEW q \in Seq(S)
  PROVE  /\ \A e : e \in Range(q) <=> \E i \in DOMAIN q : q[i] = e
         /\ DOMAIN q = 1 .. Len(q) /\ Len(q) \in Nat
BY DEF Range

LEMMA RangeAppend ==
  ASSUME NEW S, NEW q \in Seq(S), NEW e \in S
  PROVE  Range(Append(q, e)) = Range(q) \cup {e}
BY AppendFacts DEF Range

LEMMA RangeTail ==
  ASSUME NEW S, NEW q \in Seq(S), q # <<>>
  PROVE  Range(q) = {q[1]} \cup Range(Tail(q))
<1>1. ASSUME NEW i \in DOMAIN q, i # 1
      PROVE  i - 1 \in DOMAIN Tail(q) /\ Tail(q)[i - 1] = q[i]
  BY <1>1, TailFacts
<1>2. \A i \in DOMAIN Tail(q) : i + 1 \in DOMAIN q /\ Tail(q)[i] = q[i + 1]
  BY TailFacts
<1>3. ASSUME NEW i \in DOMAIN q PROVE q[i] \in {q[1]} \cup Range(Tail(q))
  BY <1>1 DEF Range
<1>4. {q[1]} \cup Range(Tail(q)) \subseteq Range(q)
  BY <1>2, TailFacts DEF Range
<1>5. QED
  BY <1>3, <1>4 DEF Range

\* In a queue in the order of the numbers, what goes up to some number is its
\* beginning: the threshold that After chooses exists.
LEMMA ThresholdExists ==
  ASSUME NEW q, NEW n \in Nat, DOMAIN q = 1 .. n, NEW s \in Nat,
         \A i \in DOMAIN q : q[i].seq \in Nat,
         \A i, j \in DOMAIN q : i <= j => q[i].seq <= q[j].seq
  PROVE  \E k \in 0 .. n : \A i \in DOMAIN q : i <= k <=> q[i].seq <= s
<1> DEFINE Good(k) == \A i \in DOMAIN q : i > k => q[i].seq > s
           T == {1 .. k : k \in {m \in 0 .. n : Good(m)}}
<1>1. n \in {m \in 0 .. n : Good(m)}
  OBVIOUS
<1>2. 1 .. n \in T
  BY <1>1
<1>3. T \subseteq FiniteSubsetsOf(1 .. n)
  <2>1. ASSUME NEW k \in 0 .. n PROVE 1 .. k \in SUBSET (1 .. n) /\ IsFiniteSet(1 .. k)
    BY FS_Interval
  <2>2. QED
    BY <2>1 DEF FiniteSubsetsOf
<1>4. PICK X \in T : \A Y \in T : <<Y, X>> \notin StrictSubsetOrdering(1 .. n)
  <2>1. IsWellFoundedOn(StrictSubsetOrdering(1 .. n), FiniteSubsetsOf(1 .. n))
    BY FS_StrictSubsetOrderingWellFounded
  <2> HIDE DEF T
  <2>2. T # {}
    BY <1>2
  <2>3. QED
    BY <2>1, <2>2, <1>3, WFMin, Zenon
<1>5. PICK k \in 0 .. n : Good(k) /\ X = 1 .. k
  OBVIOUS
<1>6. k > 0 => q[k].seq <= s
  <2> SUFFICES ASSUME k > 0, q[k].seq > s PROVE FALSE
    BY <1>5
  <2>1. k - 1 \in 0 .. n /\ Good(k - 1)
    BY <1>5
  <2>2. 1 .. (k - 1) \in T
    BY <2>1
  <2>3. <<1 .. (k - 1), X>> \in StrictSubsetOrdering(1 .. n)
    <3>1. 1 .. (k - 1) \subseteq 1 .. n /\ X \subseteq 1 .. n
      BY <1>5
    <3>2. 1 .. (k - 1) \subseteq X /\ 1 .. (k - 1) # X
      BY <1>5
    <3>3. QED
      BY <3>1, <3>2 DEF StrictSubsetOrdering
  <2>4. QED
    BY <2>2, <2>3, <1>4
<1>7. ASSUME NEW i \in DOMAIN q, i <= k PROVE q[i].seq <= s
  <2>1. k > 0 /\ k \in DOMAIN q
    BY <1>7
  <2>2. q[i].seq <= q[k].seq
    BY <1>7, <2>1
  <2>3. QED
    BY <1>6, <2>1, <2>2
<1>8. ASSUME NEW i \in DOMAIN q, q[i].seq <= s PROVE i <= k
  BY <1>5, <1>8
<1>9. QED
  BY <1>7, <1>8

\* Retain leaves out what goes up to the number, and keeps the rest in order.
LEMMA RetainFacts ==
  ASSUME NEW S, NEW q \in Seq(S), NEW s \in Nat,
         \A i \in DOMAIN q : q[i].seq \in Nat,
         \A i, j \in DOMAIN q : i <= j => q[i].seq <= q[j].seq
  PROVE  \E k \in 0 .. Len(q) :
           /\ \A i \in DOMAIN q : i <= k <=> q[i].seq <= s
           /\ Retain(q, s) \in Seq(S)
           /\ DOMAIN Retain(q, s) = 1 .. Len(q) - k
           /\ \A i \in 1 .. Len(q) - k : Retain(q, s)[i] = q[i + k]
<1>1. Len(q) \in Nat /\ DOMAIN q = 1 .. Len(q)
  OBVIOUS
<1>2. \E k \in 0 .. Len(q) : \A i \in DOMAIN q : i <= k <=> q[i].seq <= s
  BY <1>1, ThresholdExists
<1> DEFINE k == CHOOSE k \in 0 .. Len(q) : \A i \in DOMAIN q : i <= k <=> q[i].seq <= s
<1>3. k \in 0 .. Len(q) /\ \A i \in DOMAIN q : i <= k <=> q[i].seq <= s
  BY <1>2
<1>4. Retain(q, s) = SubSeq(q, k + 1, Len(q))
  BY DEF Retain, After
<1> HIDE DEF k
<1>5. /\ Retain(q, s) \in Seq(S)
      /\ DOMAIN Retain(q, s) = 1 .. Len(q) - k
      /\ \A i \in 1 .. Len(q) - k : Retain(q, s)[i] = q[i + k]
  BY <1>1, <1>3, <1>4
<1>6. QED
  BY <1>3, <1>5

-----------------------------------------------------------------------------
(* Types.                                                                  *)

Pieces    == [type : {"message"}, seq : Nat, seg : Nat, count : Nat]
Envelopes == Pieces \cup [type : {"closed"}, seq : Nat] \cup [type : {"ping"}]
Answers   == [type : {"ack"}, seq : Nat] \cup [type : {"pong"}]
                \cup [type : {"log"}, pos : 1 .. Len(ServerLog)]

AppType ==
  /\ written \in 0 .. Len(Sizes) /\ (halfWritten = TRUE => written < Len(Sizes))
  /\ halfWritten \in BOOLEAN /\ shutdownSent \in BOOLEAN

TaskType ==
  /\ pc \in {"connecting", "handshake", "replaying", "select", "sending", "sleeping", "done"}
  /\ sock \in {"none", "up", "halfopen", "broken"}
  /\ replayIdx \in Nat \ {0} /\ quiet \in 0 .. PongTicks
  /\ pc = "replaying" => replayIdx <= Len(replayQ) + 1
  /\ pc = "handshake" => replayIdx = 1
  /\ pc = "sending" => pending # <<>>

OutType ==
  /\ work \in Workloads
  /\ accepted \in Seq(Lines) /\ nextSeq \in Nat \ {0}
  /\ pending \in Seq(Pieces) /\ replayQ \in Seq(Pieces) /\ toServer \in Seq(Envelopes)
  /\ srvSegs \subseteq Nat \X Nat /\ srvGot \in Seq(Nat)

InType ==
  /\ cursor \in 0 .. Len(ServerLog) /\ srvPos \in 0 .. Len(ServerLog)
  /\ toClient \in Seq(Answers)

Types == AppType /\ TaskType /\ OutType /\ InType

\* How many envelopes a message takes.
PieceCount(n) == IF FitsWhole(n) THEN 1 ELSE SegmentCount(n)

LEMMA WorkFacts ==
  ASSUME OutType
  PROVE  /\ Sizes \in Seq(Nat \ {0}) /\ ServerLog \in Seq(LogEntry)
         /\ Len(Sizes) \in Nat /\ Len(ServerLog) \in Nat
BY SlingshotAssumption DEF OutType, Sizes, ServerLog

LEMMA SizeFacts ==
  ASSUME OutType, NEW l \in Lines
  PROVE  Sizes[l] \in Nat \ {0}
<1>1. Sizes \in Seq(Nat \ {0})
  BY WorkFacts
<1>2. QED
  BY <1>1 DEF Lines

LEMMA CountFacts ==
  ASSUME NEW n \in Nat \ {0}
  PROVE  PieceCount(n) \in Nat \ {0}
<1>1. DivCeil(n, Target) \in Nat
  BY DivCeilBounds, SegmentsAssumption
<1>2. SegmentCount(n) \in Nat \ {0}
  BY <1>1 DEF SegmentCount, Larger
<1>3. QED
  BY <1>2 DEF PieceCount

\* What a message is split into: one envelope of each number below the count it
\* carries.
LEMMA SplitFacts ==
  ASSUME NEW n \in Nat \ {0}, NEW s \in Nat, ~OverLimit(n)
  PROVE  /\ Split(s, n) \in Seq(Pieces)
         /\ DOMAIN Split(s, n) = 1 .. PieceCount(n) /\ Len(Split(s, n)) = PieceCount(n)
         /\ \A i \in 1 .. PieceCount(n) : Split(s, n)[i] = Piece(s, i - 1, PieceCount(n))
<1>1. CASE FitsWhole(n)
  <2>1. Split(s, n) = <<Piece(s, 0, 1)>> /\ PieceCount(n) = 1
    BY <1>1 DEF Split, PieceCount
  <2>2. Piece(s, 0, 1) \in Pieces
    BY DEF Piece, Pieces
  <2>3. QED
    BY <2>1, <2>2
<1>2. CASE ~FitsWhole(n)
  <2>1. ~Refused(n) /\ PieceCount(n) = SegmentCount(n)
    BY <1>2 DEF OverLimit, PieceCount
  <2>2. ChunkCount(n) = PieceCount(n)
    BY <1>2, <2>1, ChunksAsAnnounced
  <2>3. Split(s, n) = [i \in 1 .. PieceCount(n) |-> Piece(s, i - 1, PieceCount(n))]
    BY <1>2, <2>1, <2>2 DEF Split
  <2>4. PieceCount(n) \in Nat
    BY CountFacts
  <2>5. ASSUME NEW i \in 1 .. PieceCount(n) PROVE Piece(s, i - 1, PieceCount(n)) \in Pieces
    BY <2>4 DEF Piece, Pieces
  <2> HIDE DEF PieceCount
  <2>6. Split(s, n) \in [1 .. PieceCount(n) -> Pieces]
    BY <2>3, <2>5
  <2>7. QED
    BY <2>3, <2>4, <2>6
<1>3. QED
  BY <1>1, <1>2

LEMMA WireOfSplit ==
  ASSUME NEW n \in Nat \ {0}, NEW s \in Nat, ~OverLimit(n)
  PROVE  Wire(Split(s, n)) = SegmentsOf(s, PieceCount(n))
<1> DEFINE q == Split(s, n)
           k == PieceCount(n)
<1>1. k \in Nat /\ DOMAIN q = 1 .. k /\ \A i \in 1 .. k : q[i].seq = s /\ q[i].seg = i - 1
  <2>1. k \in Nat /\ DOMAIN q = 1 .. k /\ \A i \in 1 .. k : q[i] = Piece(s, i - 1, k)
    BY SplitFacts, CountFacts
  <2>2. QED
    BY <2>1 DEF Piece
<1> HIDE DEF q, k
<1>2. Wire(q) = {<<q[i].seq, q[i].seg>> : i \in DOMAIN q}
  BY DEF Wire, Range
<1>3. ASSUME NEW j \in 0 .. k - 1 PROVE \E i \in DOMAIN q : <<q[i].seq, q[i].seg>> = <<s, j>>
  <2>1. j + 1 \in DOMAIN q /\ q[j + 1].seq = s /\ q[j + 1].seg = j
    BY <1>1
  <2>2. QED
    BY <2>1
<1>4. ASSUME NEW i \in DOMAIN q
      PROVE  \E j \in 0 .. k - 1 : <<q[i].seq, q[i].seg>> = <<s, j>>
  <2>1. q[i].seg \in 0 .. k - 1 /\ q[i].seq = s
    BY <1>1
  <2>2. QED
    BY <2>1
<1>5. Wire(q) = SegmentsOf(s, k)
  BY <1>2, <1>3, <1>4 DEF SegmentsOf
<1>6. QED
  BY <1>5 DEF q, k

\* The replay queue is in the order of the sequence numbers.
Sorted == \A i, j \in DOMAIN replayQ : i <= j => replayQ[i].seq <= replayQ[j].seq

LEMMA WorkSame ==
  ASSUME UNCHANGED work
  PROVE  Sizes' = Sizes /\ ServerLog' = ServerLog /\ Lines' = Lines /\ Answers' = Answers
BY DEF Sizes, ServerLog, Lines, Answers

LEMMA InitTypes == Init => Types
<1> SUFFICES ASSUME Init PROVE Types
  OBVIOUS
<1>1. OutType
  <2>1. <<>> \in Seq(Lines) /\ <<>> \in Seq(Pieces) /\ <<>> \in Seq(Envelopes) /\ <<>> \in Seq(Nat)
    OBVIOUS
  <2>2. QED
    BY <2>1 DEF Init, OutType
<1>2. Len(Sizes) \in Nat /\ Len(ServerLog) \in Nat /\ PongTicks \in Nat
  BY <1>1, WorkFacts, SlingshotAssumption
<1>3. AppType
  <2>1. written = 0 /\ halfWritten = FALSE /\ shutdownSent = FALSE
    BY DEF Init
  <2>2. 0 \in 0 .. Len(Sizes) /\ FALSE \in BOOLEAN
    BY <1>2
  <2>3. halfWritten # TRUE
    BY <2>1
  <2>4. QED
    BY <2>1, <2>2, <2>3, Zenon DEF AppType
<1>4. TaskType
  BY <1>2 DEF Init, TaskType
<1>5. InType
  BY <1>2 DEF Init, InType
<1>6. QED
  BY <1>1, <1>3, <1>4, <1>5 DEF Types

LEMMA TypeBounds ==
  ASSUME Types
  PROVE  /\ Len(Sizes) \in Nat /\ Len(ServerLog) \in Nat /\ PongTicks \in Nat \ {0}
         /\ Len(replayQ) \in Nat /\ Len(pending) \in Nat
         /\ Ping \in Envelopes /\ ClientClosed(nextSeq) \in Envelopes /\ Pong \in Answers
         /\ \A e \in Pieces : e \in Envelopes /\ e.seq \in Nat
BY WorkFacts, SlingshotAssumption
   DEF Types, OutType, Ping, ClientClosed, Pong, Envelopes, Answers, Pieces

LEMMA ApplicationTypes ==
  ASSUME Types, Application
  PROVE  Types'
<1>0. UNCHANGED work
  BY DEF Application, WriteText, WriteNewLine, Shutdown, DropStream, srvVars
<1>1. AppType'
  <2>1. CASE WriteText
    BY <1>0, <2>1, WorkSame, TypeBounds DEF WriteText, Types, AppType
  <2>2. CASE WriteNewLine
    <3>1. /\ halfWritten = TRUE /\ halfWritten' = FALSE /\ written' = written + 1
          /\ UNCHANGED shutdownSent
      BY <2>2 DEF WriteNewLine, Types, AppType
    <3>2. written + 1 \in 0 .. Len(Sizes)
      BY <3>1, TypeBounds DEF Types, AppType
    <3>3. QED
      BY <1>0, <3>1, <3>2, WorkSame DEF Types, AppType
  <2>3. CASE Shutdown
    BY <1>0, <2>3, WorkSame, TypeBounds DEF Shutdown, Types, AppType
  <2>4. CASE DropStream
    BY <1>0, <2>4, WorkSame, TypeBounds DEF DropStream, Types, AppType
  <2>5. QED
    BY <2>1, <2>2, <2>3, <2>4 DEF Application
<1>2. TaskType'
  BY DEF Application, WriteText, WriteNewLine, Shutdown, DropStream, Types, TaskType, taskVars,
         netVars, outVars
<1>3. OutType' /\ InType'
  BY <1>0, WorkSame DEF Application, WriteText, WriteNewLine, Shutdown, DropStream, Types,
       OutType, InType, outVars, inVars, srvVars, netVars
<1>4. QED
  BY <1>1, <1>2, <1>3 DEF Types

LEMMA EstablishTypes ==
  ASSUME Types, Establish
  PROVE  Types'
<1>0. UNCHANGED <<work, appVars>>
  BY DEF Establish, Connect, Handshake, HandshakeFails, Replay, ReplayFails, StartSelect, WakeUp,
         srvVars
<1>1. AppType'
  BY <1>0, WorkSame DEF Types, AppType, appVars
<1>2. TaskType'
  <2>1. CASE Connect
    BY <1>0, <2>1, WorkSame, TypeBounds DEF Connect, Types, TaskType, taskVars, netVars, outVars
  <2>2. CASE Handshake
    BY <1>0, <2>2, WorkSame, TypeBounds DEF Handshake, Types, TaskType, taskVars, netVars, outVars
  <2>3. CASE HandshakeFails
    BY <1>0, <2>3, WorkSame, TypeBounds
       DEF HandshakeFails, GiveUp, Types, TaskType, taskVars, netVars, outVars
  <2>4. CASE Replay
    BY <1>0, <2>4, WorkSame, TypeBounds DEF Replay, Types, TaskType, taskVars, netVars, outVars
  <2>5. CASE ReplayFails
    BY <1>0, <2>5, WorkSame, TypeBounds
       DEF ReplayFails, GiveUp, Types, TaskType, taskVars, netVars, outVars
  <2>6. CASE StartSelect
    BY <1>0, <2>6, WorkSame, TypeBounds
       DEF StartSelect, ReplayDone, Types, TaskType, taskVars, netVars, outVars
  <2>7. CASE WakeUp
    BY <1>0, <2>7, WorkSame, TypeBounds DEF WakeUp, Types, TaskType, taskVars, netVars, outVars
  <2>8. QED
    BY <2>1, <2>2, <2>3, <2>4, <2>5, <2>6, <2>7 DEF Establish
<1>3. OutType'
  <2>1. CASE Replay
    <3>1. replayQ[replayIdx] \in Envelopes
      BY <2>1, TypeBounds DEF Replay, Types, OutType, TaskType
    <3>2. toServer' \in Seq(Envelopes)
      BY <2>1, <3>1 DEF Replay, Transmit, Types, OutType
    <3>3. QED
      BY <1>0, <2>1, <3>2, WorkSame DEF Replay, Types, OutType, outVars, srvVars
  <2>2. CASE ~Replay
    <3>1. CASE Connect
      BY <1>0, <3>1, WorkSame, TypeBounds DEF Connect, Types, OutType, outVars, srvVars, netVars
    <3>2. CASE Handshake
      BY <1>0, <3>2, WorkSame, TypeBounds DEF Handshake, Types, OutType, outVars, srvVars, netVars
    <3>3. CASE HandshakeFails
      BY <1>0, <3>3, WorkSame, TypeBounds
       DEF HandshakeFails, GiveUp, Types, OutType, outVars, srvVars, netVars
    <3>4. CASE ReplayFails
      BY <1>0, <3>4, WorkSame, TypeBounds
       DEF ReplayFails, GiveUp, Types, OutType, outVars, srvVars, netVars
    <3>5. CASE StartSelect
      BY <1>0, <3>5, WorkSame, TypeBounds
       DEF StartSelect, ReplayDone, Types, OutType, outVars, srvVars, netVars
    <3>6. CASE WakeUp
      BY <1>0, <3>6, WorkSame, TypeBounds DEF WakeUp, Types, OutType, outVars, srvVars, netVars
    <3>7. QED
      BY <3>1, <3>2, <3>3, <3>4, <3>5, <3>6, <2>2 DEF Establish
  <2>3. QED
    BY <2>1, <2>2
<1>4. InType'
  <2>1. CASE Connect
    BY <1>0, <2>1, WorkSame, TypeBounds DEF Connect, Types, InType, inVars, srvVars, netVars
  <2>2. CASE Handshake
    BY <1>0, <2>2, WorkSame, TypeBounds DEF Handshake, Types, InType, inVars, srvVars, netVars
  <2>3. CASE HandshakeFails
    BY <1>0, <2>3, WorkSame, TypeBounds
       DEF HandshakeFails, GiveUp, Types, InType, inVars, srvVars, netVars
  <2>4. CASE Replay
    BY <1>0, <2>4, WorkSame, TypeBounds DEF Replay, Types, InType, inVars, srvVars, netVars
  <2>5. CASE ReplayFails
    BY <1>0, <2>5, WorkSame, TypeBounds
       DEF ReplayFails, GiveUp, Types, InType, inVars, srvVars, netVars
  <2>6. CASE StartSelect
    BY <1>0, <2>6, WorkSame, TypeBounds
       DEF StartSelect, ReplayDone, Types, InType, inVars, srvVars, netVars
  <2>7. CASE WakeUp
    BY <1>0, <2>7, WorkSame, TypeBounds DEF WakeUp, Types, InType, inVars, srvVars, netVars
  <2>8. QED
    BY <2>1, <2>2, <2>3, <2>4, <2>5, <2>6, <2>7 DEF Establish
<1>5. QED
  BY <1>1, <1>2, <1>3, <1>4 DEF Types

LEMMA NetworkTypes ==
  ASSUME Types, Timers \/ Network
  PROVE  Types'
<1>0. UNCHANGED <<work, appVars>>
  BY DEF Timers, Network, PingTick, PongTimeout, ConnectFails, Break, HalfOpen, KernelGivesUp,
         srvVars
<1>1. AppType'
  BY <1>0, WorkSame DEF Types, AppType, appVars
<1>2. TaskType'
  BY TypeBounds DEF Timers, Network, PingTick, PongTimeout, ConnectFails, Break, HalfOpen,
       KernelGivesUp, GiveUp, Types, TaskType, taskVars, netVars, outVars
<1>3. OutType'
  <2>1. CASE PingTick
    BY <1>0, <2>1, WorkSame, TypeBounds DEF PingTick, Transmit, Types, OutType, outVars, srvVars, netVars
  <2>2. CASE PongTimeout
    BY <1>0, <2>2, WorkSame, TypeBounds DEF PongTimeout, Types, OutType, outVars, srvVars, netVars
  <2>3. CASE ConnectFails
    BY <1>0, <2>3, WorkSame, TypeBounds DEF ConnectFails, Types, OutType, outVars, srvVars, netVars
  <2>4. CASE Break
    BY <1>0, <2>4, WorkSame, TypeBounds DEF Break, Types, OutType, outVars, srvVars, netVars
  <2>5. CASE HalfOpen
    BY <1>0, <2>5, WorkSame, TypeBounds DEF HalfOpen, Types, OutType, outVars, srvVars, netVars
  <2>6. CASE KernelGivesUp
    BY <1>0, <2>6, WorkSame, TypeBounds DEF KernelGivesUp, Types, OutType, outVars, srvVars, netVars
  <2>7. QED
    BY <2>1, <2>2, <2>3, <2>4, <2>5, <2>6 DEF Timers, Network
<1>4. InType'
  <2>1. CASE PingTick
    BY <1>0, <2>1, WorkSame, TypeBounds DEF PingTick, Types, InType, inVars, srvVars, netVars
  <2>2. CASE PongTimeout
    BY <1>0, <2>2, WorkSame, TypeBounds DEF PongTimeout, Types, InType, inVars, srvVars, netVars
  <2>3. CASE ConnectFails
    BY <1>0, <2>3, WorkSame, TypeBounds DEF ConnectFails, Types, InType, inVars, srvVars, netVars
  <2>4. CASE Break
    BY <1>0, <2>4, WorkSame, TypeBounds DEF Break, Types, InType, inVars, srvVars, netVars
  <2>5. CASE HalfOpen
    BY <1>0, <2>5, WorkSame, TypeBounds DEF HalfOpen, Types, InType, inVars, srvVars, netVars
  <2>6. CASE KernelGivesUp
    BY <1>0, <2>6, WorkSame, TypeBounds DEF KernelGivesUp, Types, InType, inVars, srvVars, netVars
  <2>7. QED
    BY <2>1, <2>2, <2>3, <2>4, <2>5, <2>6 DEF Timers, Network
<1>5. QED
  BY <1>1, <1>2, <1>3, <1>4 DEF Types

LEMMA OutboundTypes ==
  ASSUME Types, Outbound
  PROVE  Types'
<1>0. UNCHANGED <<work, appVars, inVars, srvVars, sock, toClient, replayIdx, quiet>>
  BY DEF Outbound, TakeText, TakeNewLine, SendSegment, SendSegmentFails, TakeShutdown, srvVars,
         taskVars, netVars
<1>1. AppType' /\ InType'
  BY <1>0, WorkSame DEF Types, AppType, InType, appVars, inVars, srvVars
<1>2. TaskType' /\ OutType'
  <2>1. CASE TakeText
    BY <2>1, <1>0, WorkSame DEF TakeText, Types, TaskType, OutType, taskVars, netVars, srvVars
  <2>2. CASE TakeNewLine
    <3>1. CASE ~Object(lineBuf)
      BY <2>2, <3>1, <1>0, WorkSame DEF TakeNewLine, Types, TaskType, OutType, netVars, srvVars
    <3>2. CASE Object(lineBuf)
      <4> DEFINE l == lineBuf[1]
      <4>1. l \in Lines /\ AcceptLine(l)
        BY <2>2, <3>2 DEF TakeNewLine, Object
      <4>2. Sizes[l] \in Nat \ {0} /\ nextSeq \in Nat
        BY <4>1, SizeFacts DEF Types, OutType
      <4> HIDE DEF l
      <4>3. pending' \in Seq(Pieces) /\ (pc' = "sending" => pending' # <<>>)
        <5>1. CASE OverLimit(Sizes[l])
          BY <4>1, <5>1 DEF AcceptLine, GiveUp, Types, OutType
        <5>2. CASE ~OverLimit(Sizes[l])
          <6>1. pending' = Split(nextSeq, Sizes[l])
            BY <4>1, <5>2 DEF AcceptLine
          <6>2. Len(Split(nextSeq, Sizes[l])) \in Nat \ {0}
            BY <4>2, <5>2, SplitFacts, CountFacts
          <6>3. Split(nextSeq, Sizes[l]) \in Seq(Pieces)
            BY <4>2, <5>2, SplitFacts
          <6>4. QED
            BY <6>1, <6>2, <6>3
        <5>3. QED
          BY <5>1, <5>2
      <4>4. accepted' \in Seq(Lines) /\ nextSeq' \in Nat \ {0}
        BY <4>1, <4>2 DEF AcceptLine, Types, OutType
      <4>5. pc' \in {"sleeping", "sending"} /\ UNCHANGED <<replayQ, toServer>>
        BY <2>2, <4>1 DEF TakeNewLine, AcceptLine, GiveUp, netVars
      <4>6. QED
        BY <4>3, <4>4, <4>5, <1>0, WorkSame DEF Types, TaskType, OutType, srvVars
    <3>3. QED
      BY <3>1, <3>2
  <2>3. CASE SendSegment \/ SendSegmentFails
    <3>1. pending # <<>> /\ pending \in Seq(Pieces)
      BY <2>3 DEF SendSegment, SendSegmentFails, Types, TaskType, OutType
    <3>2. pending[1] \in Pieces /\ pending[1] \in Envelopes
      BY <3>1, TypeBounds
    <3> DEFINE e == pending[1]
    <3>a. replayQ' = Append(replayQ, e) /\ toServer' \in {toServer, Append(toServer, e)}
      BY <2>3 DEF SendSegment, SendSegmentFails, Queue, Transmit, netVars
    <3>b. pending' \in {Tail(pending), <<>>} /\ pc' \in {"select", "sending", "sleeping"}
      BY <2>3 DEF SendSegment, SendSegmentFails, GiveUp
    <3> HIDE DEF e
    <3>3. replayQ' \in Seq(Pieces) /\ toServer' \in Seq(Envelopes)
      <4>1. replayQ \in Seq(Pieces) /\ toServer \in Seq(Envelopes)
        BY DEF Types, OutType
      <4>2. e \in Pieces /\ e \in Envelopes
        BY <3>2 DEF e
      <4>3. Append(replayQ, e) \in Seq(Pieces) /\ Append(toServer, e) \in Seq(Envelopes)
        BY <4>1, <4>2, AppendFacts
      <4>4. QED
        BY <3>a, <4>1, <4>3
    <3>4. pending' \in Seq(Pieces) /\ pc' \in {"select", "sending", "sleeping"}
      <4>1. Tail(pending) \in Seq(Pieces) /\ <<>> \in Seq(Pieces)
        BY <3>1, TailFacts
      <4>2. QED
        BY <3>b, <4>1
    <3>5. pc' = "sending" => pending' # <<>>
      <4>1. CASE SendSegment
        <5>1. pc' = "sending" => Len(pending) # 1
          BY <4>1 DEF SendSegment
        <5>2. Len(Tail(pending)) = Len(pending) - 1 /\ Len(pending) \in Nat \ {0}
          BY <3>1, TailFacts
        <5>3. QED
          BY <4>1, <5>1, <5>2 DEF SendSegment
      <4>2. CASE SendSegmentFails
        BY <4>2 DEF SendSegmentFails, GiveUp
      <4>3. QED
        BY <2>3, <4>1, <4>2
    <3>6. UNCHANGED <<accepted, nextSeq>>
      BY <2>3 DEF SendSegment, SendSegmentFails
    <3>7. QED
      BY <3>3, <3>4, <3>5, <3>6, <1>0, WorkSame DEF Types, TaskType, OutType, srvVars
  <2>4. CASE TakeShutdown
    <3>1. toServer' \in Seq(Envelopes)
      BY <2>4, TypeBounds DEF TakeShutdown, Transmit, Types, OutType
    <3>2. QED
      BY <2>4, <3>1, <1>0, WorkSame DEF TakeShutdown, Types, TaskType, OutType, srvVars
  <2>5. QED
    BY <2>1, <2>2, <2>3, <2>4 DEF Outbound
<1>3. QED
  BY <1>1, <1>2 DEF Types

LEMMA InboundTypes ==
  ASSUME Types, Sorted, Inbound
  PROVE  Types'
<1>0. UNCHANGED <<work, appVars, srvVars, sock, toServer, replayIdx>>
  BY DEF Inbound, ReceiveEntry, ReceiveAck, ReceivePong, StreamEnds, srvVars, taskVars, netVars
<1>1. AppType'
  BY <1>0, WorkSame DEF Types, AppType, appVars
<1>2. CASE ReceiveEntry
  <2> DEFINE p == toClient[1].pos
  <2>1. p \in 1 .. Len(ServerLog) /\ toClient' = Tail(toClient) /\ toClient' \in Seq(Answers)
    BY <1>2 DEF ReceiveEntry, Types, InType, Answers
  <2>2. cursor' \in {cursor, p} /\ pc' \in {pc, "sleeping"} /\ pc = "select"
    <3>1. CASE ObserveChunk(ServerLog[p])
      <4>1. pc' \in {pc, "sleeping"}
        BY <3>1 DEF ObserveChunk, GiveUp
      <4>2. QED
        BY <1>2, <4>1 DEF ReceiveEntry, MoveCursor
    <3>2. CASE ~ObserveChunk(ServerLog[p])
      BY <1>2, <3>2 DEF ReceiveEntry, MoveCursor, GiveUp
    <3>3. QED
      BY <3>1, <3>2
  <2>3. UNCHANGED <<outVars, quiet>>
    BY <1>2 DEF ReceiveEntry
  <2> HIDE DEF p
  <2>4. OutType' /\ TaskType'
    BY <1>0, <2>2, <2>3, WorkSame DEF Types, OutType, TaskType, outVars, srvVars
  <2>5. InType'
    BY <1>0, <2>1, <2>2, WorkSame, TypeBounds DEF Types, InType, srvVars
  <2>6. QED
    BY <1>1, <2>4, <2>5 DEF Types
<1>3. CASE ReceiveAck
  <2>1. toClient[1] \in Answers /\ Tail(toClient) \in Seq(Answers)
    BY <1>3, TailFacts DEF ReceiveAck, Types, InType
  <2>2. toClient[1].seq \in Nat
    BY <1>3, <2>1 DEF ReceiveAck, Answers
  <2>3. replayQ' \in Seq(Pieces)
    <3>1. replayQ' = Retain(replayQ, toClient[1].seq)
      BY <1>3 DEF ReceiveAck
    <3>2. \A i \in DOMAIN replayQ : replayQ[i].seq \in Nat
      BY TypeBounds DEF Types, OutType
    <3>3. replayQ \in Seq(Pieces)
      BY DEF Types, OutType
    <3>4. QED
      BY <2>2, <3>1, <3>2, <3>3, RetainFacts DEF Sorted
  <2>4. InType'
    BY <1>0, <1>3, <2>1, WorkSame DEF ReceiveAck, Types, InType, inVars, srvVars
  <2>5. OutType' /\ TaskType'
    BY <1>0, <1>3, <2>3, WorkSame DEF ReceiveAck, Types, OutType, TaskType, srvVars, taskVars
  <2>6. QED
    BY <1>1, <2>4, <2>5 DEF Types
<1>4. CASE ReceivePong
  <2>1. Tail(toClient) \in Seq(Answers)
    BY <1>4, TailFacts DEF ReceivePong, Types, InType
  <2>2. InType'
    BY <1>0, <1>4, <2>1, WorkSame DEF ReceivePong, Types, InType, inVars, srvVars
  <2>3. OutType' /\ TaskType'
    BY <1>0, <1>4, WorkSame, TypeBounds DEF ReceivePong, Types, OutType, TaskType, outVars, srvVars
  <2>4. QED
    BY <1>1, <2>2, <2>3 DEF Types
<1>5. CASE StreamEnds
  <2>1. InType'
    BY <1>0, <1>5, WorkSame DEF StreamEnds, Types, InType, inVars, srvVars, netVars
  <2>2. OutType' /\ TaskType'
    BY <1>0, <1>5, WorkSame DEF StreamEnds, GiveUp, Types, OutType, TaskType, outVars, srvVars
  <2>3. QED
    BY <1>1, <2>1, <2>2 DEF Types
<1>6. QED
  BY <1>2, <1>3, <1>4, <1>5 DEF Inbound

LEMMA RelayTypes ==
  ASSUME Types, Relay
  PROVE  Types'
<1>0. UNCHANGED <<work, appVars, outVars, sock, taskVars, inVars>>
  BY DEF Relay, RelayReceives, RelaySends
<1>1. AppType' /\ TaskType'
  BY <1>0, WorkSame DEF Types, AppType, TaskType, appVars, outVars, taskVars
<1>2. CASE RelayReceives
  <2> DEFINE e == toServer[1]
  <2>1. e \in Envelopes /\ toServer' = Tail(toServer) /\ toServer' \in Seq(Envelopes)
    BY <1>2, TailFacts DEF RelayReceives, Types, OutType
  <2>2. srvSegs \subseteq Nat \X Nat /\ srvGot \in Seq(Nat) /\ toClient \in Seq(Answers)
    BY DEF Types, OutType, InType
  <2>3. srvSegs' \subseteq Nat \X Nat /\ srvGot' \in Seq(Nat) /\ toClient' \in Seq(Answers)
    <3>1. CASE e.type = "message"
      <4>1. e.seq \in Nat /\ e.seg \in Nat
        BY <2>1, <3>1 DEF Envelopes, Pieces
      <4>2. Ack(e.seq) \in Answers
        BY <4>1 DEF Ack, Answers
      <4>3. /\ srvSegs' = srvSegs \cup {<<e.seq, e.seg>>}
            /\ srvGot' \in {srvGot, Append(srvGot, e.seq)}
            /\ toClient' \in {toClient, Append(toClient, Ack(e.seq))}
        BY <1>2, <3>1 DEF RelayReceives
      <4> HIDE DEF e
      <4>4. Append(srvGot, e.seq) \in Seq(Nat)
        BY <2>2, <4>1, AppendFacts
      <4>5. Append(toClient, Ack(e.seq)) \in Seq(Answers)
        BY <2>2, <4>2, AppendFacts
      <4>6. srvSegs' \subseteq Nat \X Nat
        BY <2>2, <4>1, <4>3
      <4>7. QED
        BY <2>2, <4>3, <4>4, <4>5, <4>6
    <3>2. CASE e.type = "ping"
      <4>1. UNCHANGED <<srvSegs, srvGot>> /\ toClient' = Append(toClient, Pong)
        BY <1>2, <3>2 DEF RelayReceives
      <4>2. Append(toClient, Pong) \in Seq(Answers)
        BY <2>2, TypeBounds, AppendFacts
      <4>3. QED
        BY <2>2, <4>1, <4>2
    <3>3. CASE e.type = "closed"
      BY <1>2, <2>2, <3>3 DEF RelayReceives
    <3>4. QED
      BY <2>1, <3>1, <3>2, <3>3 DEF Envelopes, Pieces
  <2>4. UNCHANGED srvPos
    BY <1>2 DEF RelayReceives
  <2>5. OutType' /\ InType'
    BY <1>0, <2>1, <2>3, <2>4, WorkSame DEF Types, OutType, InType, outVars, inVars
  <2>6. QED
    BY <1>1, <2>5 DEF Types
<1>3. CASE RelaySends
  <2>1. srvPos + 1 \in 1 .. Len(ServerLog)
    BY <1>3, TypeBounds DEF RelaySends, Types, InType
  <2>2. Entry(srvPos + 1) \in Answers
    BY <2>1 DEF Entry, Answers
  <2>3. toClient' \in Seq(Answers) /\ srvPos' \in 0 .. Len(ServerLog)
    BY <1>3, <2>1, <2>2, TypeBounds DEF RelaySends, Types, InType
  <2>4. OutType' /\ InType'
    BY <1>0, <1>3, <2>3, WorkSame DEF RelaySends, Types, OutType, InType, outVars, inVars
  <2>5. QED
    BY <1>1, <2>4 DEF Types
<1>4. QED
  BY <1>2, <1>3 DEF Relay

LEMMA StepTypes == Types /\ Sorted /\ [Next]_vars => Types'
<1> SUFFICES ASSUME Types, Sorted, [Next]_vars PROVE Types'
  OBVIOUS
<1>1. CASE UNCHANGED vars
  BY <1>1, WorkSame DEF vars, appVars, outVars, inVars, srvVars, netVars, taskVars, Types,
     AppType, TaskType, OutType, InType
<1>2. QED
  BY <1>1, ApplicationTypes, EstablishTypes, NetworkTypes, OutboundTypes, InboundTypes,
     RelayTypes DEF Next

-----------------------------------------------------------------------------
(* The inductive invariant.                                                *)

Accepted   == DOMAIN accepted
Segs(s)    == SegmentsOf(s, PieceCount(Sizes[accepted[s]]))
IsPiece(e) == e.type = "message"
Pair(e)    == <<e.seq, e.seg>>

\* A piece of an accepted message.
Sound(e) ==
  /\ e.seq \in Accepted
  /\ e.count = PieceCount(Sizes[accepted[e.seq]]) /\ e.seg \in 0 .. e.count - 1

\* What the relay has, or will have if the connection holds.
Sent     == {Pair(toServer[j]) : j \in {i \in DOMAIN toServer : IsPiece(toServer[i])}}
OnWay(g) == g \in srvSegs \cup Sent

\* Numbers are given in turn, and only the message numbered last is being sent.
NumberInv ==
  /\ nextSeq = Len(accepted) + 1 \/ (pc = "done" /\ nextSeq = Len(accepted) + 2)
  /\ pc \notin {"sending", "done"} => pending = <<>>
  /\ pc = "sending" => \A i \in DOMAIN pending : pending[i].seq = Len(accepted)
  /\ cut \subseteq Accepted
  /\ \A s \in Accepted : OverLimit(Sizes[accepted[s]]) => s \in cut

\* Only pieces of accepted messages are queued, to be sent, on their way, and
\* acknowledged.
SoundInv ==
  /\ \A i \in DOMAIN replayQ : Sound(replayQ[i])
  /\ \A i \in DOMAIN pending : Sound(pending[i])
  /\ \A i \in DOMAIN toServer : IsPiece(toServer[i]) => Sound(toServer[i])
  /\ \A k \in DOMAIN toClient : toClient[k].type = "ack" => toClient[k].seq \in Accepted

\* The relay has got the messages of which it has every piece.
GotInv ==
  /\ \A s \in Accepted : s \in Range(srvGot) <=> Segs(s) \subseteq srvSegs
  /\ \A g \in srvSegs : g[1] \in Accepted
  /\ Range(srvGot) \subseteq Accepted

\* On the wire and at the relay, every piece of a message comes before any of a
\* later one.
OrderInv ==
  \A k \in DOMAIN toServer : IsPiece(toServer[k]) =>
    \A s \in Accepted \ cut : s < toServer[k].seq =>
      \A g \in Segs(s) :
        \/ g \in srvSegs
        \/ \E j \in DOMAIN toServer : j < k /\ IsPiece(toServer[j]) /\ Pair(toServer[j]) = g

\* What of the queue has been sent on this connection.
SentInv == sock = "up" =>
  /\ pc = "replaying" => \A j \in DOMAIN replayQ : j < replayIdx => OnWay(Pair(replayQ[j]))
  /\ pc \in {"select", "sending"} => \A j \in DOMAIN replayQ : OnWay(Pair(replayQ[j]))

\* An acknowledgement stands for every message up to its number.
AckInv ==
  \A k \in DOMAIN toClient : toClient[k].type = "ack" =>
     \A s \in Accepted \ cut : s <= toClient[k].seq => s \in Range(srvGot)

\* Nothing of what is still to be sent is anywhere yet, and something of every
\* abandoned message will never be.
Present(g) == g \in Wire(replayQ) \/ OnWay(g)
FreshInv ==
  /\ \A i \in DOMAIN pending : ~Present(Pair(pending[i]))
  /\ \A i, j \in DOMAIN pending : i # j => Pair(pending[i]) # Pair(pending[j])
CutInv == \A s \in cut : \E g \in Segs(s) : ~Present(g) /\ g \notin Wire(pending)

\* The relay gets messages in their order, and all but the abandoned ones.
GotOrder ==
  /\ \A i, j \in DOMAIN srvGot : i < j => srvGot[i] < srvGot[j]
  /\ \A t \in Range(srvGot) : \A s \in Accepted \ cut : s < t => s \in Range(srvGot)

StreamInv ==
  /\ Types /\ NumberInv /\ SoundInv /\ Sorted /\ GotInv /\ OrderInv /\ SentInv /\ AckInv
  /\ NothingLost /\ FreshInv /\ CutInv /\ GotOrder

-----------------------------------------------------------------------------
(* Most steps put no piece anywhere.                                       *)

Moves ==
  \/ pc' = pc /\ replayIdx' = replayIdx
  \/ pc \notin {"sending", "done"} /\ pc' \in {"connecting", "sleeping"}
  \/ pc # "done" /\ pc' = "done"
  \/ pc = "connecting" /\ pc' \in {"handshake", "replaying"} /\ replayIdx' = 1
  \/ pc = "handshake" /\ pc' = "replaying" /\ replayIdx' = replayIdx
  \/ pc = "replaying" /\ replayIdx > Len(replayQ) /\ pc' = "select"

\* On the same connection nothing is taken from the wire, and no piece is added.
Carries ==
  /\ \A k \in DOMAIN toServer : k \in DOMAIN toServer' /\ toServer'[k] = toServer[k]
  /\ \A k \in DOMAIN toServer' : k \in DOMAIN toServer \/ ~IsPiece(toServer'[k])
Rewires ==
  \/ Carries /\ sock' = sock
  \/ toServer' \in {toServer, <<>>} /\ sock' # "up"
  \/ toServer' = <<>> /\ pc = "connecting" /\ pc' \in {"handshake", "replaying"} /\ replayIdx' = 1

Harmless ==
  /\ UNCHANGED <<work, accepted, cut, pending, replayQ, srvSegs, srvGot>>
  /\ nextSeq' = nextSeq \/ (pc = "select" /\ pc' = "done" /\ nextSeq' = nextSeq + 1)
  /\ Moves /\ Rewires
  /\ \A k \in DOMAIN toClient' : toClient'[k].type = "ack" =>
       \E j \in DOMAIN toClient : toClient[j] = toClient'[k]

LEMMA TailAnswers ==
  ASSUME Types, toClient # <<>>, toClient' = Tail(toClient)
  PROVE  \A k \in DOMAIN toClient' : \E j \in DOMAIN toClient : toClient[j] = toClient'[k]
<1>1. toClient \in Seq(Answers)
  BY DEF Types, InType
<1> SUFFICES ASSUME NEW k \in DOMAIN toClient'
             PROVE  \E j \in DOMAIN toClient : toClient[j] = toClient'[k]
  OBVIOUS
<1>2. k + 1 \in DOMAIN toClient /\ toClient[k + 1] = toClient'[k]
  BY <1>1, TailFacts
<1>3. QED
  BY <1>2

\* A new answer of the relay that is no acknowledgement.
LEMMA AppendAnswer ==
  ASSUME Types, NEW a \in Answers, a.type # "ack", toClient' = Append(toClient, a)
  PROVE  \A k \in DOMAIN toClient' : toClient'[k].type = "ack" =>
            \E j \in DOMAIN toClient : toClient[j] = toClient'[k]
<1>1. toClient \in Seq(Answers)
  BY DEF Types, InType
<1>2. QED
  BY <1>1, AppendFacts

\* Into a healthy socket something that is no piece may go.
LEMMA TransmitCarries ==
  ASSUME Types, NEW e \in Envelopes, ~IsPiece(e), Transmit(e)
  PROVE  Carries
<1>1. toServer \in Seq(Envelopes)
  BY DEF Types, OutType
<1>2. CASE toServer' = toServer
  BY <1>2 DEF Carries
<1>3. CASE toServer' = Append(toServer, e)
  BY <1>1, <1>3, AppendFacts DEF Carries
<1>4. QED
  BY <1>2, <1>3 DEF Transmit

LEMMA HarmlessApplication ==
  ASSUME Types, Application
  PROVE  Harmless
<1>1. CASE WriteText \/ WriteNewLine \/ Shutdown
  BY <1>1 DEF WriteText, WriteNewLine, Shutdown, Harmless, Moves, Rewires, Carries, outVars,
              srvVars, netVars, taskVars
<1>2. CASE DropStream
  BY <1>2 DEF DropStream, Harmless, Moves, Rewires, outVars, srvVars
<1>3. QED
  BY <1>1, <1>2 DEF Application

LEMMA HarmlessEstablish ==
  ASSUME Types, Establish, ~Replay
  PROVE  Harmless
<1>1. CASE Connect
  BY <1>1 DEF Connect, Harmless, Moves, Rewires, outVars, srvVars
<1>2. CASE Handshake
  BY <1>2 DEF Handshake, Harmless, Moves, Rewires, Carries, outVars, srvVars, netVars
<1>3. CASE HandshakeFails
  BY <1>3 DEF HandshakeFails, GiveUp, Harmless, Moves, Rewires, Carries, outVars, srvVars, netVars
<1>4. CASE ReplayFails
  BY <1>4 DEF ReplayFails, GiveUp, Harmless, Moves, Rewires, Carries, outVars, srvVars, netVars
<1>5. CASE StartSelect
  BY <1>5 DEF StartSelect, ReplayDone, Harmless, Moves, Rewires, Carries, outVars, srvVars, netVars
<1>6. CASE WakeUp
  BY <1>6 DEF WakeUp, Harmless, Moves, Rewires, outVars, srvVars
<1>7. QED
  BY <1>1, <1>2, <1>3, <1>4, <1>5, <1>6 DEF Establish

LEMMA HarmlessTimers ==
  ASSUME Types, Timers \/ Network
  PROVE  Harmless
<1>1. CASE PingTick
  <2>1. Carries
    BY <1>1, TypeBounds, TransmitCarries DEF PingTick, Ping, IsPiece
  <2>2. QED
    BY <1>1, <2>1 DEF PingTick, Harmless, Moves, Rewires, outVars, srvVars
<1>2. CASE PongTimeout
  BY <1>2 DEF PongTimeout, GiveUp, Harmless, Moves, Rewires, Carries, outVars, srvVars, netVars
<1>3. CASE ConnectFails
  BY <1>3 DEF ConnectFails, GiveUp, Harmless, Moves, Rewires, Carries, outVars, srvVars, netVars
<1>4. CASE Break \/ HalfOpen \/ KernelGivesUp
  BY <1>4 DEF Break, HalfOpen, KernelGivesUp, Harmless, Moves, Rewires, outVars, srvVars, taskVars
<1>5. QED
  BY <1>1, <1>2, <1>3, <1>4 DEF Timers, Network

LEMMA HarmlessOutbound ==
  ASSUME Types, TakeText \/ TakeShutdown
  PROVE  Harmless
<1>1. CASE TakeText
  BY <1>1 DEF TakeText, Harmless, Moves, Rewires, Carries, srvVars, netVars, taskVars
<1>2. CASE TakeShutdown
  <2>1. Carries
    BY <1>2, TypeBounds, TransmitCarries DEF TakeShutdown, ClientClosed, IsPiece
  <2>2. QED
    BY <1>2, <2>1 DEF TakeShutdown, Harmless, Moves, Rewires, srvVars
<1>3. QED
  BY <1>1, <1>2

LEMMA HarmlessInbound ==
  ASSUME Types, ReceiveEntry \/ ReceivePong \/ StreamEnds
  PROVE  Harmless
<1>1. CASE ReceiveEntry
  <2>1. pc = "select" /\ pc' \in {pc, "sleeping"}
    <3>1. CASE ObserveChunk(ServerLog[toClient[1].pos])
      BY <1>1, <3>1 DEF ReceiveEntry, ObserveChunk, GiveUp
    <3>2. CASE ~ObserveChunk(ServerLog[toClient[1].pos])
      BY <1>1, <3>2 DEF ReceiveEntry, GiveUp
    <3>3. QED
      BY <3>1, <3>2
  <2>2. toClient # <<>> /\ toClient' = Tail(toClient)
        /\ UNCHANGED <<outVars, srvVars, sock, toServer, replayIdx>>
    BY <1>1 DEF ReceiveEntry
  <2>3. QED
    BY <2>1, <2>2, TailAnswers DEF Harmless, Moves, Rewires, Carries, outVars, srvVars
<1>2. CASE ReceivePong
  BY <1>2, TailAnswers DEF ReceivePong, Harmless, Moves, Rewires, Carries, outVars, srvVars
<1>3. CASE StreamEnds
  BY <1>3 DEF StreamEnds, GiveUp, Harmless, Moves, Rewires, Carries, outVars, srvVars, netVars
<1>4. QED
  BY <1>1, <1>2, <1>3

LEMMA HarmlessRelay ==
  ASSUME Types, RelaySends
  PROVE  Harmless
<1>1. Entry(srvPos + 1) \in Answers /\ Entry(srvPos + 1).type # "ack"
  BY TypeBounds DEF RelaySends, Types, InType, Entry, Answers
<1>2. \A k \in DOMAIN toClient' : toClient'[k].type = "ack" =>
            \E j \in DOMAIN toClient : toClient[j] = toClient'[k]
  BY <1>1, AppendAnswer DEF RelaySends
<1>3. QED
  BY <1>2 DEF RelaySends, Harmless, Moves, Rewires, Carries, outVars, taskVars

LEMMA SameMessages ==
  ASSUME UNCHANGED <<work, accepted>>
  PROVE  /\ Accepted' = Accepted /\ Sizes' = Sizes
         /\ \A s : Segs(s)' = Segs(s)
         /\ \A e : Sound(e)' <=> Sound(e)
BY DEF Accepted, Segs, Sound, SegmentsOf, PieceCount, Sizes

LEMMA SentFacts ==
  /\ \A g : g \in Sent <=> \E j \in DOMAIN toServer : IsPiece(toServer[j]) /\ Pair(toServer[j]) = g
  /\ \A g : g \in Sent' <=>
       \E j \in DOMAIN toServer' : IsPiece(toServer'[j]) /\ Pair(toServer'[j]) = g
BY DEF Sent, IsPiece, Pair

LEMMA CarriesSent == Carries => Sent' = Sent
<1> SUFFICES ASSUME Carries PROVE Sent' = Sent
  OBVIOUS
<1>1. ASSUME NEW g \in Sent PROVE g \in Sent'
  <2>1. PICK j \in DOMAIN toServer : IsPiece(toServer[j]) /\ Pair(toServer[j]) = g
    BY SentFacts
  <2>2. j \in DOMAIN toServer' /\ toServer'[j] = toServer[j]
    BY DEF Carries
  <2>3. QED
    BY <2>1, <2>2, SentFacts
<1>2. ASSUME NEW g \in Sent' PROVE g \in Sent
  <2>1. PICK j \in DOMAIN toServer' : IsPiece(toServer'[j]) /\ Pair(toServer'[j]) = g
    BY SentFacts
  <2>2. j \in DOMAIN toServer /\ toServer'[j] = toServer[j]
    BY <2>1 DEF Carries
  <2>3. QED
    BY <2>1, <2>2, SentFacts
<1>3. QED
  BY <1>1, <1>2

LEMMA RewiresSent ==
  ASSUME Rewires
  PROVE  /\ Carries \/ toServer' = <<>>
         /\ Sent' \subseteq Sent
<1>1. CASE Carries
  BY <1>1, CarriesSent
<1>2. CASE toServer' = toServer
  BY <1>2, CarriesSent DEF Carries
<1>3. CASE toServer' = <<>>
  <2>1. DOMAIN toServer' = {}
    BY <1>3
  <2>2. QED
    BY <1>3, <2>1, SentFacts
<1>4. QED
  BY <1>1, <1>2, <1>3 DEF Rewires

LEMMA HarmlessNumber ==
  ASSUME StreamInv, Harmless
  PROVE  NumberInv'
<1>1. UNCHANGED <<work, accepted, cut, pending>>
  BY DEF Harmless
<1>2. Accepted' = Accepted /\ Sizes' = Sizes
  BY <1>1, SameMessages
<1>3. Len(accepted) \in Nat
  BY DEF StreamInv, Types, OutType
<1>4. nextSeq' = Len(accepted') + 1 \/ (pc' = "done" /\ nextSeq' = Len(accepted') + 2)
  BY <1>1, <1>3 DEF StreamInv, NumberInv, Harmless, Moves
<1>5. /\ pc' \notin {"sending", "done"} => pc \notin {"sending", "done"}
      /\ pc' = "sending" => pc = "sending"
  BY DEF Harmless, Moves
<1>6. \A s \in Accepted' : OverLimit(Sizes[accepted[s]])' => s \in cut'
  BY <1>1, <1>2 DEF StreamInv, NumberInv, OverLimit
<1>7. QED
  BY <1>1, <1>2, <1>4, <1>5, <1>6 DEF StreamInv, NumberInv

LEMMA HarmlessSound ==
  ASSUME StreamInv, Harmless
  PROVE  SoundInv' /\ Sorted'
<1>1. UNCHANGED <<work, accepted, pending, replayQ>> /\ Rewires
  BY DEF Harmless
<1>2. Accepted' = Accepted /\ \A e : Sound(e)' <=> Sound(e)
  BY <1>1, SameMessages
<1>3. ASSUME NEW k \in DOMAIN toServer', IsPiece(toServer'[k])
      PROVE  Sound(toServer'[k])
  <2>1. k \in DOMAIN toServer /\ toServer'[k] = toServer[k]
    BY <1>1, <1>3, RewiresSent DEF Carries
  <2>2. QED
    BY <1>3, <2>1 DEF StreamInv, SoundInv
<1>4. \A k \in DOMAIN toClient' : toClient'[k].type = "ack" => toClient'[k].seq \in Accepted
  BY DEF Harmless, StreamInv, SoundInv
<1>5. SoundInv'
  BY <1>1, <1>2, <1>3, <1>4 DEF StreamInv, SoundInv, IsPiece
<1>6. QED
  BY <1>1, <1>5 DEF StreamInv, Sorted

LEMMA HarmlessGot ==
  ASSUME StreamInv, Harmless
  PROVE  GotInv' /\ GotOrder' /\ AckInv' /\ NothingLost'
<1>1. UNCHANGED <<work, accepted, cut, pending, replayQ, srvSegs, srvGot>>
  BY DEF Harmless
<1>2. Accepted' = Accepted /\ (\A s : Segs(s)' = Segs(s)) /\ Range(srvGot)' = Range(srvGot)
  BY <1>1, SameMessages DEF Range
<1>3. GotInv'
  BY <1>1, <1>2 DEF StreamInv, GotInv
<1>4. GotOrder'
  BY <1>1, <1>2 DEF StreamInv, GotOrder
<1>5. AckInv'
  <2> SUFFICES ASSUME NEW k \in DOMAIN toClient', toClient'[k].type = "ack",
                      NEW s \in Accepted \ cut, s <= toClient'[k].seq
               PROVE  s \in Range(srvGot)
    BY <1>1, <1>2 DEF AckInv
  <2>1. PICK j \in DOMAIN toClient : toClient[j] = toClient'[k]
    BY DEF Harmless
  <2>2. QED
    BY <2>1 DEF StreamInv, AckInv
<1>6. NothingLost'
  BY <1>1 DEF StreamInv, NothingLost, Wire, Range, Split, Sizes, OverLimit
<1>7. QED
  BY <1>3, <1>4, <1>5, <1>6

LEMMA HarmlessOrder ==
  ASSUME StreamInv, Harmless
  PROVE  OrderInv'
<1>1. UNCHANGED <<work, accepted, cut, srvSegs>> /\ Rewires
  BY DEF Harmless
<1>2. Accepted' = Accepted /\ \A s : Segs(s)' = Segs(s)
  BY <1>1, SameMessages
<1> SUFFICES ASSUME NEW k \in DOMAIN toServer', IsPiece(toServer'[k]),
                    NEW s \in Accepted \ cut, s < toServer'[k].seq, NEW g \in Segs(s),
                    g \notin srvSegs
             PROVE  \E j \in DOMAIN toServer' :
                       j < k /\ IsPiece(toServer'[j]) /\ Pair(toServer'[j]) = g
  BY <1>1, <1>2 DEF OrderInv, IsPiece, Pair
<1>3. Carries /\ k \in DOMAIN toServer /\ toServer'[k] = toServer[k]
  BY <1>1, RewiresSent DEF Carries
<1>4. PICK j \in DOMAIN toServer : j < k /\ IsPiece(toServer[j]) /\ Pair(toServer[j]) = g
  BY <1>3 DEF StreamInv, OrderInv
<1>5. QED
  BY <1>3, <1>4 DEF Carries

LEMMA HarmlessSent ==
  ASSUME StreamInv, Harmless
  PROVE  SentInv'
<1>1. UNCHANGED <<replayQ, srvSegs>> /\ Rewires /\ Moves
  BY DEF Harmless
<1> SUFFICES ASSUME sock' = "up" PROVE SentInv'
  BY DEF SentInv
<1>2. CASE Carries /\ sock' = sock
  <2>1. \A g : OnWay(g)' <=> OnWay(g)
    BY <1>1, <1>2, CarriesSent DEF OnWay
  <2>2. \A j \in DOMAIN replayQ : j \in Nat
    BY DEF StreamInv, Types, OutType
  <2>3. Len(replayQ) \in Nat /\ DOMAIN replayQ = 1 .. Len(replayQ) /\ replayIdx \in Nat
    BY DEF StreamInv, Types, OutType, TaskType
  <2>4. pc' = "replaying" => \A j \in DOMAIN replayQ : j < replayIdx' => OnWay(Pair(replayQ[j]))
    BY <1>1, <1>2, <2>3 DEF StreamInv, SentInv, Moves, Types, TaskType
  <2>5. pc' \in {"select", "sending"} => \A j \in DOMAIN replayQ : OnWay(Pair(replayQ[j]))
    BY <1>1, <1>2, <2>3 DEF StreamInv, SentInv, Moves
  <2>6. QED
    BY <1>1, <2>1, <2>4, <2>5 DEF SentInv, Pair
<1>3. CASE pc = "connecting" /\ pc' \in {"handshake", "replaying"} /\ replayIdx' = 1
  <2>1. \A j \in DOMAIN replayQ : ~(j < 1)
    BY DEF StreamInv, Types, OutType
  <2>2. QED
    BY <1>1, <1>3, <2>1 DEF SentInv
<1>4. QED
  BY <1>1, <1>2, <1>3 DEF Rewires

LEMMA HarmlessFresh ==
  ASSUME StreamInv, Harmless
  PROVE  FreshInv' /\ CutInv'
<1>1. UNCHANGED <<work, accepted, cut, pending, replayQ, srvSegs>> /\ Sent' \subseteq Sent
  BY RewiresSent DEF Harmless
<1>2. \A s : Segs(s)' = Segs(s)
  BY <1>1, SameMessages
<1>3. \A g : Present(g)' => Present(g)
  BY <1>1 DEF Present, OnWay, Wire, Range
<1>4. Wire(pending)' = Wire(pending)
  BY <1>1 DEF Wire, Range
<1>5. FreshInv'
  BY <1>1, <1>3 DEF StreamInv, FreshInv, Pair
<1>6. CutInv'
  BY <1>1, <1>2, <1>3, <1>4 DEF StreamInv, CutInv
<1>7. QED
  BY <1>5, <1>6

LEMMA HarmlessKeeps ==
  ASSUME StreamInv, Harmless, Types'
  PROVE  StreamInv'
BY HarmlessNumber, HarmlessSound, HarmlessGot, HarmlessOrder, HarmlessSent, HarmlessFresh
   DEF StreamInv

-----------------------------------------------------------------------------
(* What the invariant says of one piece, or of one message.                *)

LEMMA Sequenced ==
  ASSUME StreamInv
  PROVE  /\ accepted \in Seq(Lines) /\ Len(accepted) \in Nat /\ Accepted = 1 .. Len(accepted)
         /\ replayQ \in Seq(Pieces) /\ DOMAIN replayQ = 1 .. Len(replayQ) /\ Len(replayQ) \in Nat
         /\ pending \in Seq(Pieces) /\ DOMAIN pending = 1 .. Len(pending) /\ Len(pending) \in Nat
         /\ toServer \in Seq(Envelopes) /\ DOMAIN toServer = 1 .. Len(toServer)
         /\ toClient \in Seq(Answers) /\ DOMAIN toClient = 1 .. Len(toClient)
         /\ srvGot \in Seq(Nat) /\ DOMAIN srvGot = 1 .. Len(srvGot) /\ Len(srvGot) \in Nat
BY DEF StreamInv, Types, OutType, InType, Accepted

LEMMA WireFacts ==
  ASSUME NEW q
  PROVE  \A g : g \in Wire(q) <=> \E i \in DOMAIN q : Pair(q[i]) = g
BY DEF Wire, Range, Pair

LEMMA AcceptedSize ==
  ASSUME Types, NEW s \in Accepted
  PROVE  Sizes[accepted[s]] \in Nat \ {0} /\ PieceCount(Sizes[accepted[s]]) \in Nat \ {0}
<1>1. accepted[s] \in Lines
  BY DEF Types, OutType, Accepted
<1>2. QED
  BY <1>1, SizeFacts, CountFacts DEF Types

\* The pieces of an accepted message carry its number; the first is one of them.
LEMMA SegsFacts ==
  ASSUME Types, NEW s \in Accepted
  PROVE  /\ <<s, 0>> \in Segs(s)
         /\ \A g \in Segs(s) : g[1] = s
         /\ \A e : Sound(e) /\ e.seq = s => Pair(e) \in Segs(s)
<1> DEFINE n == PieceCount(Sizes[accepted[s]])
<1>1. n \in Nat \ {0}
  BY AcceptedSize
<1>2. Segs(s) = {<<s, i>> : i \in 0 .. n - 1}
  BY DEF Segs, SegmentsOf
<1>3. ASSUME NEW e, Sound(e), e.seq = s PROVE Pair(e) \in Segs(s)
  <2>1. e.seg \in 0 .. n - 1
    BY <1>3 DEF Sound
  <2>2. QED
    BY <1>2, <1>3, <2>1 DEF Pair
<1> HIDE DEF n
<1>4. 0 \in 0 .. n - 1
  BY <1>1
<1>5. QED
  BY <1>2, <1>3, <1>4

LEMMA SegsAreWire ==
  ASSUME StreamInv, NEW s \in Accepted \ cut
  PROVE  Wire(Split(s, Sizes[accepted[s]])) = Segs(s)
<1>1. ~OverLimit(Sizes[accepted[s]])
  BY DEF StreamInv, NumberInv
<1>2. s \in Nat
  BY Sequenced
<1>3. QED
  BY <1>1, <1>2, AcceptedSize, WireOfSplit DEF StreamInv, Segs

\* Whatever is somewhere belongs to an accepted message.
LEMMA PresentAccepted ==
  ASSUME StreamInv, NEW g, Present(g)
  PROVE  g[1] \in Accepted
<1>1. CASE g \in Wire(replayQ)
  <2>1. PICK i \in DOMAIN replayQ : Pair(replayQ[i]) = g
    BY <1>1, WireFacts
  <2>2. QED
    BY <2>1 DEF StreamInv, SoundInv, Sound, Pair
<1>2. CASE g \in srvSegs
  BY <1>2 DEF StreamInv, GotInv
<1>3. CASE g \in Sent
  <2>1. PICK i \in DOMAIN toServer : IsPiece(toServer[i]) /\ Pair(toServer[i]) = g
    BY <1>3, SentFacts
  <2>2. QED
    BY <2>1 DEF StreamInv, SoundInv, Sound, Pair
<1>4. QED
  BY <1>1, <1>2, <1>3 DEF Present, OnWay

\* A message that is neither abandoned nor got: each piece is queued or to be sent.
LEMMA PiecesKept ==
  ASSUME StreamInv, NEW s \in Accepted \ cut, NEW g \in Segs(s)
  PROVE  g \in srvSegs \/ g \in Wire(replayQ) \/ g \in Wire(pending)
<1>1. CASE s \in Range(srvGot)
  BY <1>1 DEF StreamInv, GotInv
<1>2. CASE s \notin Range(srvGot)
  <2>1. Wire(Split(s, Sizes[accepted[s]])) \subseteq Wire(replayQ) \cup Wire(pending)
    BY <1>2 DEF StreamInv, NothingLost, Accepted
  <2>2. QED
    BY <2>1, SegsAreWire
<1>3. QED
  BY <1>1, <1>2

LEMMA PendingLast ==
  ASSUME StreamInv, pc # "done", NEW g \in Wire(pending)
  PROVE  g[1] = Len(accepted)
<1>1. PICK i \in DOMAIN pending : Pair(pending[i]) = g
  BY WireFacts
<1>2. pc = "sending"
  BY <1>1 DEF StreamInv, NumberInv
<1>3. QED
  BY <1>1, <1>2 DEF StreamInv, NumberInv, Pair

-----------------------------------------------------------------------------
(* A piece is sent.                                                        *)

LEMMA TransmitSent ==
  ASSUME StreamInv, NEW e \in Pieces, Transmit(e)
  PROVE  /\ toServer' = IF sock = "up" THEN Append(toServer, e) ELSE toServer
         /\ Sent' = IF sock = "up" THEN Sent \cup {Pair(e)} ELSE Sent
<1>1. CASE sock = "up"
  <2>1. toServer' = Append(toServer, e) /\ e \in Envelopes /\ IsPiece(e)
    BY <1>1 DEF Transmit, Envelopes, IsPiece, Pieces
  <2>2. /\ DOMAIN toServer = 1 .. Len(toServer) /\ DOMAIN toServer' = 1 .. Len(toServer) + 1
        /\ Len(toServer) \in Nat /\ toServer'[Len(toServer) + 1] = e
        /\ \A i \in DOMAIN toServer : toServer'[i] = toServer[i]
    BY <2>1, Sequenced, AppendFacts
  <2>3. ASSUME NEW g \in Sent PROVE g \in Sent'
    <3>1. PICK j \in DOMAIN toServer : IsPiece(toServer[j]) /\ Pair(toServer[j]) = g
      BY SentFacts
    <3>2. QED
      BY <2>2, <3>1, SentFacts
  <2>4. Pair(e) \in Sent'
    BY <2>1, <2>2, SentFacts
  <2>5. ASSUME NEW g \in Sent', g # Pair(e) PROVE g \in Sent
    <3>1. PICK j \in DOMAIN toServer' : IsPiece(toServer'[j]) /\ Pair(toServer'[j]) = g
      BY SentFacts
    <3>2. j \in DOMAIN toServer
      BY <2>2, <2>5, <3>1
    <3>3. QED
      BY <2>2, <3>1, <3>2, SentFacts
  <2>6. QED
    BY <1>1, <2>1, <2>3, <2>4, <2>5
<1>2. CASE sock # "up"
  BY <1>2, SentFacts DEF Transmit, Sent
<1>3. QED
  BY <1>1, <1>2

LEMMA TransmitOrder ==
  ASSUME StreamInv, NEW e \in Pieces, Transmit(e), UNCHANGED <<work, accepted, cut, srvSegs>>,
         sock = "up" => \A s \in Accepted \ cut : s < e.seq => \A g \in Segs(s) : OnWay(g)
  PROVE  OrderInv'
<1>1. Accepted' = Accepted /\ \A s : Segs(s)' = Segs(s)
  BY SameMessages
<1> SUFFICES ASSUME NEW k \in DOMAIN toServer', IsPiece(toServer'[k]),
                    NEW s \in Accepted \ cut, s < toServer'[k].seq, NEW g \in Segs(s),
                    g \notin srvSegs
             PROVE  \E j \in DOMAIN toServer' :
                       j < k /\ IsPiece(toServer'[j]) /\ Pair(toServer'[j]) = g
  BY <1>1 DEF OrderInv, IsPiece, Pair
<1>2. CASE toServer' = toServer
  BY <1>2 DEF StreamInv, OrderInv
<1>3. CASE sock = "up" /\ toServer' = Append(toServer, e)
  <2>1. /\ DOMAIN toServer = 1 .. Len(toServer) /\ DOMAIN toServer' = 1 .. Len(toServer) + 1
        /\ Len(toServer) \in Nat /\ toServer'[Len(toServer) + 1] = e
        /\ \A i \in DOMAIN toServer : toServer'[i] = toServer[i]
    <3>1. e \in Envelopes
      BY DEF Envelopes
    <3>2. QED
      BY <1>3, <3>1, Sequenced, AppendFacts
  <2>2. CASE k \in DOMAIN toServer
    <3>1. PICK j \in DOMAIN toServer : j < k /\ IsPiece(toServer[j]) /\ Pair(toServer[j]) = g
      BY <2>1, <2>2 DEF StreamInv, OrderInv
    <3>2. QED
      BY <2>1, <3>1
  <2>3. CASE k = Len(toServer) + 1
    <3>1. g \in Sent
      BY <1>3, <2>1, <2>3 DEF OnWay
    <3>2. PICK j \in DOMAIN toServer : IsPiece(toServer[j]) /\ Pair(toServer[j]) = g
      BY <3>1, SentFacts
    <3>3. QED
      BY <2>1, <2>3, <3>2
  <2>4. QED
    BY <2>1, <2>2, <2>3
<1>4. QED
  BY <1>2, <1>3 DEF Transmit

LEMMA ReplayKeeps ==
  ASSUME StreamInv, Replay, Types'
  PROVE  StreamInv'
<1> DEFINE e == replayQ[replayIdx]
<1>1. /\ pc = "replaying" /\ pc' = pc /\ replayIdx' = replayIdx + 1 /\ Transmit(e) /\ sock' = sock
      /\ UNCHANGED <<work, nextSeq, accepted, cut, pending, replayQ, srvSegs, srvGot, toClient>>
  BY DEF Replay, outVars, srvVars
<1>2. replayIdx \in DOMAIN replayQ /\ e \in Pieces /\ replayIdx \in Nat
  BY Sequenced DEF Replay, StreamInv, Types, TaskType
<1>3. Accepted' = Accepted /\ Sizes' = Sizes /\ (\A s : Segs(s)' = Segs(s))
      /\ (\A x : Sound(x)' <=> Sound(x)) /\ Range(srvGot)' = Range(srvGot)
  BY <1>1, SameMessages DEF Range
<1>4. pending = <<>>
  BY <1>1 DEF StreamInv, NumberInv
<1> HIDE DEF e
<1>5. /\ toServer' = IF sock = "up" THEN Append(toServer, e) ELSE toServer
      /\ Sent' = IF sock = "up" THEN Sent \cup {Pair(e)} ELSE Sent
  BY <1>1, <1>2, TransmitSent
<1>6. Pair(e) \in Wire(replayQ) /\ Sound(e)
  BY <1>2, WireFacts DEF e, StreamInv, SoundInv
<1>7. NumberInv'
  BY <1>1, <1>3 DEF StreamInv, NumberInv, OverLimit
<1>8. SoundInv' /\ Sorted'
  <2>1. ASSUME NEW k \in DOMAIN toServer', IsPiece(toServer'[k]) PROVE Sound(toServer'[k])
    <3>1. CASE toServer' = toServer
      BY <2>1, <3>1 DEF StreamInv, SoundInv
    <3>2. CASE toServer' = Append(toServer, e)
      <4>1. (k \in DOMAIN toServer /\ toServer'[k] = toServer[k]) \/ toServer'[k] = e
        <5>1. e \in Envelopes
          BY <1>2 DEF Envelopes
        <5>2. QED
          BY <3>2, <5>1, Sequenced, AppendFacts
      <4>2. QED
        BY <1>6, <2>1, <4>1 DEF StreamInv, SoundInv
    <3>3. QED
      BY <1>5, <3>1, <3>2
  <2>2. QED
    BY <1>1, <1>3, <2>1 DEF StreamInv, SoundInv, Sorted, IsPiece
<1>9. GotInv' /\ GotOrder' /\ AckInv'
  BY <1>1, <1>3 DEF StreamInv, GotInv, GotOrder, AckInv
<1>10. NothingLost'
  BY <1>1 DEF StreamInv, NothingLost, Wire, Range, Split, Sizes, OverLimit
<1>11. OrderInv'
  <2>1. ASSUME sock = "up", NEW s \in Accepted \ cut, s < e.seq, NEW g \in Segs(s)
        PROVE  OnWay(g)
    <3>1. CASE g \in srvSegs
      BY <3>1 DEF OnWay
    <3>2. CASE g \in Wire(replayQ)
      <4>1. PICK j \in DOMAIN replayQ : Pair(replayQ[j]) = g
        BY <3>2, WireFacts
      <4>2. replayQ[j].seq = s
        BY <4>1, <2>1, SegsFacts DEF Pair, StreamInv
      <4>3. j < replayIdx
        <5> SUFFICES ASSUME replayIdx <= j PROVE FALSE
          BY <1>2, Sequenced
        <5>1. e.seq <= replayQ[j].seq
          BY <1>2 DEF e, StreamInv, Sorted
        <5>2. e.seq \in Nat /\ s \in Nat
          BY <1>2, Sequenced DEF Pieces
        <5>3. QED
          BY <2>1, <4>2, <5>1, <5>2
      <4>4. QED
        BY <1>1, <2>1, <4>1, <4>3 DEF StreamInv, SentInv
    <3>3. QED
      BY <1>4, <3>1, <3>2, PiecesKept, WireFacts
  <2>2. QED
    BY <1>1, <1>2, <2>1, TransmitOrder
<1>12. SentInv'
  <2> SUFFICES ASSUME sock = "up", NEW j \in DOMAIN replayQ, j < replayIdx + 1
               PROVE  Pair(replayQ[j]) \in srvSegs \cup Sent'
    BY <1>1 DEF SentInv, OnWay, Pair
  <2>1. CASE j < replayIdx
    BY <1>1, <1>5, <2>1 DEF StreamInv, SentInv, OnWay
  <2>2. CASE j = replayIdx
    BY <1>5, <2>2 DEF e
  <2>3. QED
    BY <1>2, <2>1, <2>2, Sequenced
<1>13. \A g : Present(g)' => Present(g)
  BY <1>1, <1>5, <1>6 DEF Present, OnWay, Wire, Range
<1>14. FreshInv' /\ CutInv'
  <2>1. Wire(pending)' = Wire(pending)
    BY <1>1 DEF Wire, Range
  <2>2. FreshInv'
    BY <1>1, <1>13 DEF StreamInv, FreshInv, Pair
  <2>3. CutInv'
    BY <1>1, <1>3, <1>13, <2>1 DEF StreamInv, CutInv
  <2>4. QED
    BY <2>2, <2>3
<1>15. QED
  BY <1>7, <1>8, <1>9, <1>10, <1>11, <1>12, <1>14 DEF StreamInv

\* A message that is given its number: nothing of it is anywhere yet.
LEMMA AcceptKeeps ==
  ASSUME StreamInv, Types', TakeNewLine, Object(lineBuf)
  PROVE  StreamInv'
<1>a. PICK l : l = lineBuf[1]
  OBVIOUS
<1>b. PICK n : n = Len(accepted)
  OBVIOUS
<1>c. PICK s1 : s1 = n + 1
  OBVIOUS
<1>1. /\ pc = "select" /\ l \in Lines /\ AcceptLine(l)
      /\ UNCHANGED <<work, replayQ, srvSegs, srvGot, toServer, toClient, sock, replayIdx>>
  BY <1>a DEF TakeNewLine, Object, srvVars, netVars
<1>2. nextSeq = s1 /\ pending = <<>> /\ n \in Nat /\ Accepted = 1 .. n
  BY <1>1, <1>b, <1>c, Sequenced DEF StreamInv, NumberInv
<1>3. accepted' = Append(accepted, l) /\ nextSeq' = s1 + 1
  BY <1>1, <1>2 DEF AcceptLine
<1>4. /\ Accepted' = Accepted \cup {s1} /\ s1 \notin Accepted /\ Len(accepted') = s1
      /\ accepted'[s1] = l /\ \A s \in Accepted : accepted'[s] = accepted[s]
  <2>1. accepted \in Seq(Lines)
    BY Sequenced
  <2>2. QED
    BY <1>1, <1>b, <1>c, <1>3, <2>1, AppendFacts DEF Accepted
<1>5. Sizes' = Sizes
  BY <1>1, WorkSame
<1>6. Sizes[l] \in Nat \ {0} /\ PieceCount(Sizes[l]) \in Nat \ {0}
  BY <1>1, SizeFacts, CountFacts DEF StreamInv, Types
<1>7. \/ /\ OverLimit(Sizes[l]) /\ cut' = cut \cup {s1} /\ pc' = "sleeping" /\ pending' = <<>>
      \/ /\ ~OverLimit(Sizes[l]) /\ cut' = cut /\ pc' = "sending" /\ pending' = Split(s1, Sizes[l])
  BY <1>1, <1>2 DEF AcceptLine, GiveUp
<1>8. /\ \A i \in DOMAIN pending' : ~OverLimit(Sizes[l]) /\ i \in 1 .. PieceCount(Sizes[l])
             /\ pending'[i] = Piece(s1, i - 1, PieceCount(Sizes[l]))
      /\ ~OverLimit(Sizes[l]) => pending' = Split(s1, Sizes[l])
  <2>1. CASE OverLimit(Sizes[l])
    BY <1>7, <2>1
  <2>2. CASE ~OverLimit(Sizes[l])
    <3>1. s1 \in Nat
      BY <1>2, <1>c
    <3>2. QED
      BY <1>6, <1>7, <2>2, <3>1, SplitFacts
  <2>3. QED
    BY <2>1, <2>2
<1>9. /\ \A s \in Accepted : Segs(s)' = Segs(s)
      /\ Segs(s1)' = SegmentsOf(s1, PieceCount(Sizes[l]))
      /\ <<s1, 0>> \in Segs(s1)'
  <2>1. \A s \in Accepted : Segs(s)' = Segs(s)
    BY <1>4, <1>5 DEF Segs, SegmentsOf, PieceCount
  <2>2. Segs(s1)' = SegmentsOf(s1, PieceCount(Sizes[l]))
    BY <1>4, <1>5 DEF Segs, SegmentsOf, PieceCount
  <2>3. 0 \in 0 .. PieceCount(Sizes[l]) - 1
    BY <1>6
  <2>4. <<s1, 0>> \in SegmentsOf(s1, PieceCount(Sizes[l]))
    BY <2>3 DEF SegmentsOf
  <2>5. QED
    BY <2>1, <2>2, <2>4
<1>10. /\ \A x : Sound(x) => Sound(x)'
       /\ \A i \in DOMAIN pending' : Sound(pending[i])'
  <2>1. ASSUME NEW x, Sound(x) PROVE Sound(x)'
    BY <1>4, <1>5, <2>1 DEF Sound, PieceCount
  <2>2. ASSUME NEW i \in DOMAIN pending' PROVE Sound(pending[i])'
    <3>1. /\ pending'[i].seq = s1 /\ pending'[i].count = PieceCount(Sizes[l])
          /\ pending'[i].seg = i - 1 /\ i \in 1 .. PieceCount(Sizes[l])
      BY <1>8 DEF Piece
    <3>2. i - 1 \in 0 .. PieceCount(Sizes[l]) - 1
      BY <1>6, <3>1
    <3>3. PieceCount(Sizes[accepted[s1]])' = PieceCount(Sizes[l])
      BY <1>4, <1>5 DEF PieceCount
    <3>4. QED
      BY <1>4, <3>1, <3>2, <3>3 DEF Sound
  <2>3. QED
    BY <2>1, <2>2
<1>11. NumberInv'
  <2>1. /\ nextSeq' = Len(accepted') + 1 /\ cut' \subseteq Accepted'
        /\ pc' \notin {"sending", "done"} => pending' = <<>>
    BY <1>3, <1>4, <1>7 DEF StreamInv, NumberInv
  <2>2. \A i \in DOMAIN pending' : pending'[i].seq = Len(accepted')
    BY <1>4, <1>8 DEF Piece
  <2>3. ASSUME NEW s \in Accepted', OverLimit(Sizes[accepted[s]])' PROVE s \in cut'
    <3>1. CASE s \in Accepted
      BY <1>4, <1>5, <1>7, <2>3, <3>1 DEF StreamInv, NumberInv, OverLimit
    <3>2. CASE s = s1
      <4>1. OverLimit(Sizes[l])
        BY <1>4, <1>5, <2>3, <3>2 DEF OverLimit
      <4>2. QED
        BY <1>7, <3>2, <4>1
    <3>3. QED
      BY <1>4, <3>1, <3>2
  <2>4. QED
    BY <2>1, <2>2, <2>3 DEF NumberInv
<1>12. SoundInv' /\ Sorted'
  <2>1. ASSUME NEW i \in DOMAIN replayQ PROVE Sound(replayQ[i])'
    BY <1>1, <1>10 DEF StreamInv, SoundInv
  <2>2. ASSUME NEW i \in DOMAIN toServer, IsPiece(toServer[i]) PROVE Sound(toServer[i])'
    BY <1>1, <1>10, <2>2 DEF StreamInv, SoundInv
  <2>3. QED
    BY <1>1, <1>4, <1>10, <2>1, <2>2 DEF StreamInv, SoundInv, Sorted, IsPiece
<1>13. Range(srvGot)' = Range(srvGot) /\ Range(srvGot) \subseteq Accepted
  BY <1>1 DEF Range, StreamInv, GotInv
<1>14. GotInv'
  <2>1. <<s1, 0>> \notin srvSegs
    <3>1. <<s1, 0>>[1] = s1
      OBVIOUS
    <3>2. QED
      BY <1>4, <3>1 DEF StreamInv, GotInv
  <2>2. QED
    BY <1>1, <1>4, <1>9, <1>13, <2>1 DEF StreamInv, GotInv
<1>15. \A s \in Accepted' \ cut' : s \in Accepted \ cut \/ s = s1
  BY <1>4, <1>7
<1>16. \A t \in Accepted : ~(s1 < t) /\ ~(s1 <= t)
  BY <1>2, <1>c
<1>17. OrderInv'
  <2> SUFFICES ASSUME NEW k \in DOMAIN toServer, IsPiece(toServer[k]),
                      NEW s \in Accepted' \ cut', s < toServer[k].seq, NEW g \in Segs(s)'
               PROVE  \/ g \in srvSegs
                      \/ \E j \in DOMAIN toServer :
                           j < k /\ IsPiece(toServer[j]) /\ Pair(toServer[j]) = g
    BY <1>1 DEF OrderInv, IsPiece, Pair
  <2>1. toServer[k].seq \in Accepted
    BY DEF StreamInv, SoundInv, Sound
  <2>2. s \in Accepted \ cut
    BY <1>15, <1>16, <2>1
  <2>3. QED
    BY <1>9, <2>2 DEF StreamInv, OrderInv
<1>18. AckInv'
  <2> SUFFICES ASSUME NEW k \in DOMAIN toClient, toClient[k].type = "ack",
                      NEW s \in Accepted' \ cut', s <= toClient[k].seq
               PROVE  s \in Range(srvGot)
    BY <1>1, <1>13 DEF AckInv
  <2>1. toClient[k].seq \in Accepted
    BY DEF StreamInv, SoundInv
  <2>2. QED
    BY <1>15, <1>16, <2>1 DEF StreamInv, AckInv
<1>19. GotOrder'
  <2>1. ASSUME NEW t \in Range(srvGot), NEW s \in Accepted' \ cut', s < t
        PROVE  s \in Range(srvGot)
    BY <1>13, <1>15, <1>16, <2>1 DEF StreamInv, GotOrder
  <2>2. QED
    BY <1>1, <1>13, <2>1 DEF StreamInv, GotOrder
<1>20. SentInv'
  BY <1>1, <1>7 DEF StreamInv, SentInv, OnWay, Sent, Pair, IsPiece
<1>21. NothingLost'
  <2> SUFFICES ASSUME NEW s \in Accepted' \ cut', s \notin Range(srvGot)
               PROVE  Wire(Split(s, Sizes[accepted[s]]))' \subseteq Wire(replayQ)' \cup Wire(pending)'
    BY <1>13 DEF NothingLost, Accepted
  <2>1. CASE s = s1
    <3>1. ~OverLimit(Sizes[l])
      BY <1>7, <2>1
    <3>2. Split(s, Sizes[accepted[s]])' = pending'
      BY <1>4, <1>5, <1>8, <2>1, <3>1 DEF Split
    <3>3. QED
      BY <3>2 DEF Wire, Range
  <2>2. CASE s \in Accepted \ cut
    <3>1. Wire(Split(s, Sizes[accepted[s]])) \subseteq Wire(replayQ) \cup Wire(pending)
      BY <2>2 DEF StreamInv, NothingLost, Accepted
    <3>2. Wire(pending) = {}
      BY <1>2, WireFacts
    <3>3. Wire(Split(s, Sizes[accepted[s]]))' = Wire(Split(s, Sizes[accepted[s]]))
      BY <1>4, <1>5, <2>2 DEF Wire, Range, Split
    <3>4. Wire(replayQ)' = Wire(replayQ)
      BY <1>1 DEF Wire, Range
    <3>5. QED
      BY <3>1, <3>2, <3>3, <3>4
  <2>3. QED
    BY <1>15, <2>1, <2>2
<1>22. \A g : Present(g)' <=> Present(g)
  BY <1>1 DEF Present, OnWay, Sent, Wire, Range, IsPiece, Pair
<1>23. \A i \in DOMAIN pending' : Pair(pending'[i]) = <<s1, i - 1>>
  BY <1>8 DEF Piece, Pair
<1>24. \A g \in Wire(pending)' : g[1] = s1
  <2> SUFFICES ASSUME NEW g \in Wire(pending') PROVE g[1] = s1
    BY DEF Wire, Range
  <2>1. PICK i \in DOMAIN pending' : Pair(pending'[i]) = g
    BY WireFacts
  <2>2. QED
    BY <1>23, <2>1
<1>25. \A g : g[1] = s1 => ~Present(g)
  BY <1>4, PresentAccepted
<1>26. FreshInv'
  <2>1. \A i \in DOMAIN pending' : ~Present(Pair(pending'[i]))
    BY <1>23, <1>25
  <2>2. ASSUME NEW i \in DOMAIN pending', NEW j \in DOMAIN pending', i # j
        PROVE  Pair(pending'[i]) # Pair(pending'[j])
    <3>1. i \in Int /\ j \in Int
      BY <1>8
    <3>2. QED
      BY <1>23, <2>2, <3>1
  <2>3. QED
    BY <1>22, <2>1, <2>2 DEF FreshInv, Pair
<1>27. CutInv'
  <2> SUFFICES ASSUME NEW s \in cut'
               PROVE  \E g \in Segs(s)' : ~Present(g) /\ g \notin Wire(pending)'
    BY <1>22 DEF CutInv
  <2>1. CASE s \in cut
    <3>1. s \in Accepted
      BY <2>1 DEF StreamInv, NumberInv
    <3>2. PICK g \in Segs(s) : ~Present(g)
      BY <2>1 DEF StreamInv, CutInv
    <3>3. g[1] = s
      BY <3>1, SegsFacts DEF StreamInv
    <3>4. QED
      BY <1>4, <1>9, <1>24, <3>1, <3>2, <3>3
  <2>2. CASE s = s1 /\ pending' = <<>>
    <3>1. Wire(pending') = {}
      BY <2>2, WireFacts
    <3>2. Wire(pending)' = {}
      BY <3>1 DEF Wire, Range
    <3>3. ~Present(<<s1, 0>>)
      BY <1>25
    <3>4. QED
      BY <1>9, <2>2, <3>2, <3>3
  <2>3. QED
    BY <1>7, <2>1, <2>2
<1>28. QED
  BY <1>11, <1>12, <1>14, <1>17, <1>18, <1>19, <1>20, <1>21, <1>26, <1>27 DEF StreamInv

LEMMA TakeNewLineKeeps ==
  ASSUME StreamInv, Types', TakeNewLine
  PROVE  StreamInv'
<1>1. CASE Object(lineBuf)
  BY <1>1, AcceptKeeps
<1>2. CASE ~Object(lineBuf)
  <2>1. Harmless
    BY <1>2 DEF TakeNewLine, Harmless, Moves, Rewires, Carries, srvVars, netVars
  <2>2. QED
    BY <2>1, HarmlessKeeps
<1>3. QED
  BY <1>1, <1>2

\* A segment is queued: what both ends of the loop over segments share.
LEMMA QueueFacts ==
  ASSUME StreamInv, NEW e, pc = "sending", e = pending[1], replayQ' = Append(replayQ, e)
  PROVE  /\ pending # <<>> /\ 1 \in DOMAIN pending /\ e \in Pieces /\ e.seq = Len(accepted)
         /\ Sound(e)
         /\ DOMAIN replayQ' = 1 .. Len(replayQ) + 1 /\ replayQ'[Len(replayQ) + 1] = e
         /\ \A i \in DOMAIN replayQ : i \in DOMAIN replayQ' /\ replayQ'[i] = replayQ[i]
         /\ \A i \in DOMAIN replayQ' : i \in DOMAIN replayQ \/ i = Len(replayQ) + 1
         /\ \A g : g \in Wire(replayQ) \/ g = Pair(e) <=> g \in Wire(replayQ')
         /\ Pair(e) \in Wire(pending)
<1>1. pending # <<>> /\ pending \in Seq(Pieces) /\ replayQ \in Seq(Pieces)
  BY DEF StreamInv, Types, TaskType, OutType
<1>2. 1 \in DOMAIN pending /\ e \in Pieces
  BY <1>1, TailFacts
<1>3. e.seq = Len(accepted) /\ Sound(e)
  BY <1>2 DEF StreamInv, NumberInv, SoundInv
<1>4. /\ DOMAIN replayQ' = 1 .. Len(replayQ) + 1 /\ replayQ'[Len(replayQ) + 1] = e
      /\ \A i \in DOMAIN replayQ : i \in DOMAIN replayQ' /\ replayQ'[i] = replayQ[i]
      /\ \A i \in DOMAIN replayQ' : i \in DOMAIN replayQ \/ i = Len(replayQ) + 1
  BY <1>1, <1>2, AppendFacts
<1>5. \A g : g \in Wire(replayQ) \/ g = Pair(e) <=> g \in Wire(replayQ')
  <2>1. Len(replayQ) + 1 \in DOMAIN replayQ'
    BY <1>1, <1>4
  <2>2. ASSUME NEW g \in Wire(replayQ) PROVE g \in Wire(replayQ')
    <3>1. PICK i \in DOMAIN replayQ : Pair(replayQ[i]) = g
      BY WireFacts
    <3>2. i \in DOMAIN replayQ' /\ Pair(replayQ'[i]) = g
      BY <1>4, <3>1
    <3>3. QED
      BY <3>2, WireFacts
  <2>3. Pair(e) \in Wire(replayQ')
    BY <1>4, <2>1, WireFacts
  <2>4. ASSUME NEW g \in Wire(replayQ') PROVE g \in Wire(replayQ) \/ g = Pair(e)
    <3>1. PICK i \in DOMAIN replayQ' : Pair(replayQ'[i]) = g
      BY WireFacts
    <3>2. CASE i \in DOMAIN replayQ
      BY <1>4, <3>1, <3>2, WireFacts
    <3>3. CASE i = Len(replayQ) + 1
      BY <1>4, <3>1, <3>3
    <3>4. QED
      BY <1>4, <3>2, <3>3
  <2>5. QED
    BY <2>2, <2>3, <2>4
<1>6. Pair(e) \in Wire(pending)
  BY <1>2, WireFacts
<1>7. QED
  BY <1>1, <1>2, <1>3, <1>4, <1>5, <1>6

LEMMA QueueSorted ==
  ASSUME StreamInv, NEW e, pc = "sending", e = pending[1], replayQ' = Append(replayQ, e)
  PROVE  Sorted'
<1> SUFFICES ASSUME NEW i \in DOMAIN replayQ', NEW j \in DOMAIN replayQ', i <= j
             PROVE  replayQ'[i].seq <= replayQ'[j].seq
  BY DEF Sorted
<1>1. CASE i \in DOMAIN replayQ /\ j \in DOMAIN replayQ
  BY <1>1, QueueFacts DEF StreamInv, Sorted
<1>2. CASE i \in DOMAIN replayQ /\ j = Len(replayQ) + 1
  <2>1. replayQ[i].seq \in 1 .. Len(accepted)
    BY <1>2, Sequenced DEF StreamInv, SoundInv, Sound
  <2>2. QED
    BY <1>2, <2>1, QueueFacts, Sequenced
<1>3. CASE i = Len(replayQ) + 1
  <2>1. j = Len(replayQ) + 1
    BY <1>3, QueueFacts, Sequenced
  <2>2. e.seq \in Nat
    BY QueueFacts, Sequenced
  <2>3. QED
    BY <1>3, <2>1, <2>2, QueueFacts
<1>4. QED
  BY <1>1, <1>2, <1>3, QueueFacts

LEMMA SendSegmentKeeps ==
  ASSUME StreamInv, Types', SendSegment
  PROVE  StreamInv'
<1>a. PICK e : e = pending[1]
  OBVIOUS
<1>1. /\ pc = "sending" /\ replayQ' = Append(replayQ, e) /\ Transmit(e) /\ pending' = Tail(pending)
      /\ pc' = IF Len(pending) = 1 THEN "select" ELSE "sending"
      /\ sock' = sock /\ sock # "broken"
      /\ UNCHANGED <<work, nextSeq, accepted, cut, srvSegs, srvGot, toClient>>
  BY <1>a DEF SendSegment, Queue, srvVars
<1>2. /\ pending # <<>> /\ 1 \in DOMAIN pending /\ e \in Pieces /\ e.seq = Len(accepted)
      /\ Sound(e) /\ Pair(e) \in Wire(pending)
      /\ \A g : g \in Wire(replayQ) \/ g = Pair(e) <=> g \in Wire(replayQ')
  BY <1>a, <1>1, QueueFacts
<1>3. Accepted' = Accepted /\ Sizes' = Sizes /\ (\A s : Segs(s)' = Segs(s))
      /\ (\A x : Sound(x)' <=> Sound(x)) /\ Range(srvGot)' = Range(srvGot)
  BY <1>1, SameMessages DEF Range
<1>4. /\ toServer' = IF sock = "up" THEN Append(toServer, e) ELSE toServer
      /\ Sent' = IF sock = "up" THEN Sent \cup {Pair(e)} ELSE Sent
  BY <1>1, <1>2, TransmitSent
<1>5. /\ \A i \in DOMAIN pending' : i + 1 \in DOMAIN pending /\ pending'[i] = pending[i + 1]
                                    /\ i + 1 # 1 /\ i \in Nat
      /\ \A i \in DOMAIN pending : i # 1 => i - 1 \in DOMAIN pending' /\ pending'[i - 1] = pending[i]
      /\ Len(pending) = 1 => pending' = <<>>
  <2>1. pending \in Seq(Pieces) /\ pending # <<>>
    BY <1>2, Sequenced
  <2>2. /\ DOMAIN pending' = 1 .. Len(pending) - 1 /\ DOMAIN pending = 1 .. Len(pending)
        /\ Len(pending) \in Nat \ {0} /\ pending' \in Seq(Pieces) /\ Len(pending') = Len(pending) - 1
        /\ \A i \in 1 .. Len(pending) - 1 : pending'[i] = pending[i + 1]
    BY <1>1, <2>1, TailFacts
  <2>3. ASSUME NEW i \in DOMAIN pending, i # 1
        PROVE  i - 1 \in DOMAIN pending' /\ pending'[i - 1] = pending[i]
    BY <2>2, <2>3
  <2>4. Len(pending) = 1 => pending' = <<>>
    BY <2>2
  <2>5. QED
    BY <2>2, <2>3, <2>4
<1>6. NumberInv'
  <2>1. \A i \in DOMAIN pending' : pending'[i].seq = Len(accepted)
    BY <1>1, <1>5 DEF StreamInv, NumberInv
  <2>2. QED
    BY <1>1, <1>3, <1>5, <2>1 DEF StreamInv, NumberInv, OverLimit
<1>7. SoundInv'
  <2>1. ASSUME NEW i \in DOMAIN replayQ' PROVE Sound(replayQ'[i])
    BY <1>a, <1>1, <1>2, QueueFacts DEF StreamInv, SoundInv
  <2>2. ASSUME NEW i \in DOMAIN pending' PROVE Sound(pending'[i])
    BY <1>5 DEF StreamInv, SoundInv
  <2>3. ASSUME NEW k \in DOMAIN toServer', IsPiece(toServer'[k]) PROVE Sound(toServer'[k])
    <3>1. CASE toServer' = toServer
      BY <2>3, <3>1 DEF StreamInv, SoundInv
    <3>2. CASE toServer' = Append(toServer, e)
      <4>1. (k \in DOMAIN toServer /\ toServer'[k] = toServer[k]) \/ toServer'[k] = e
        <5>1. e \in Envelopes
          BY <1>2 DEF Envelopes
        <5>2. QED
          BY <3>2, <5>1, Sequenced, AppendFacts
      <4>2. QED
        BY <1>2, <2>3, <4>1 DEF StreamInv, SoundInv
    <3>3. QED
      BY <1>4, <3>1, <3>2
  <2>4. QED
    BY <1>1, <1>3, <2>1, <2>2, <2>3 DEF StreamInv, SoundInv, IsPiece
<1>8. Sorted'
  BY <1>a, <1>1, QueueSorted
<1>9. GotInv' /\ GotOrder' /\ AckInv'
  BY <1>1, <1>3 DEF StreamInv, GotInv, GotOrder, AckInv
<1>10. /\ \A g \in Wire(pending) : g \in Wire(pending') \/ g = Pair(e)
       /\ \A g \in Wire(pending') : g \in Wire(pending)
  <2>1. ASSUME NEW g \in Wire(pending), g # Pair(e) PROVE g \in Wire(pending')
    <3>1. PICK i \in DOMAIN pending : Pair(pending[i]) = g
      BY WireFacts
    <3>2. i # 1
      BY <1>a, <2>1, <3>1
    <3>3. QED
      BY <1>5, <3>1, <3>2, WireFacts
  <2>2. ASSUME NEW g \in Wire(pending') PROVE g \in Wire(pending)
    <3>1. PICK i \in DOMAIN pending' : Pair(pending'[i]) = g
      BY WireFacts
    <3>2. QED
      BY <1>5, <3>1, WireFacts
  <2>3. QED
    BY <2>1, <2>2
<1>11. Wire(pending)' = Wire(pending') /\ Wire(replayQ)' = Wire(replayQ')
  BY DEF Wire, Range
<1>12. NothingLost'
  <2> SUFFICES ASSUME NEW s \in Accepted \ cut, s \notin Range(srvGot)
               PROVE  Wire(Split(s, Sizes[accepted[s]])) \subseteq Wire(replayQ') \cup Wire(pending')
    BY <1>1, <1>3, <1>11 DEF NothingLost, Accepted, Wire, Range, Split
  <2>1. Wire(Split(s, Sizes[accepted[s]])) \subseteq Wire(replayQ) \cup Wire(pending)
    BY DEF StreamInv, NothingLost, Accepted
  <2>2. QED
    BY <1>2, <1>10, <2>1
<1>13. OrderInv'
  <2>1. ASSUME sock = "up", NEW s \in Accepted \ cut, s < e.seq, NEW g \in Segs(s)
        PROVE  OnWay(g)
    <3>1. CASE g \in srvSegs
      BY <3>1 DEF OnWay
    <3>2. CASE g \in Wire(replayQ)
      <4>1. PICK j \in DOMAIN replayQ : Pair(replayQ[j]) = g
        BY <3>2, WireFacts
      <4>2. QED
        BY <1>1, <2>1, <4>1 DEF StreamInv, SentInv
    <3>3. CASE g \in Wire(pending)
      <4>1. g[1] = Len(accepted) /\ g[1] = s
        BY <1>1, <3>3, PendingLast, SegsFacts DEF StreamInv
      <4>2. QED
        BY <1>2, <2>1, <4>1, Sequenced
    <3>4. QED
      BY <3>1, <3>2, <3>3, PiecesKept
  <2>2. QED
    BY <1>1, <1>2, <2>1, TransmitOrder
<1>14. SentInv'
  <2> SUFFICES ASSUME sock = "up", NEW j \in DOMAIN replayQ'
               PROVE  Pair(replayQ'[j]) \in srvSegs \cup Sent'
    BY <1>1 DEF SentInv, OnWay, Pair
  <2>1. CASE j \in DOMAIN replayQ
    BY <1>a, <1>1, <1>4, <2>1, QueueFacts DEF StreamInv, SentInv, OnWay
  <2>2. CASE j \notin DOMAIN replayQ
    BY <1>a, <1>1, <1>4, <2>2, QueueFacts
  <2>3. QED
    BY <2>1, <2>2
<1>15. \A g : Present(g)' => Present(g) \/ g = Pair(e)
  BY <1>1, <1>2, <1>4, <1>11 DEF Present, OnWay
<1>16. FreshInv'
  <2>1. ASSUME NEW i \in DOMAIN pending' PROVE ~Present(Pair(pending'[i])) /\ Pair(pending'[i]) # Pair(e)
    BY <1>a, <1>2, <1>5 DEF StreamInv, FreshInv
  <2>2. ASSUME NEW i \in DOMAIN pending', NEW j \in DOMAIN pending', i # j
        PROVE  Pair(pending'[i]) # Pair(pending'[j])
    <3>1. i + 1 # j + 1
      BY <1>5, <2>2
    <3>2. QED
      BY <1>5, <3>1 DEF StreamInv, FreshInv
  <2>3. QED
    BY <1>15, <2>1, <2>2 DEF FreshInv, Pair
<1>17. CutInv'
  <2> SUFFICES ASSUME NEW s \in cut
               PROVE  \E g \in Segs(s) : ~Present(g)' /\ g \notin Wire(pending')
    BY <1>1, <1>3, <1>11 DEF CutInv
  <2>1. PICK g \in Segs(s) : ~Present(g) /\ g \notin Wire(pending)
    BY DEF StreamInv, CutInv
  <2>2. g # Pair(e)
    BY <1>2, <2>1
  <2>3. QED
    BY <1>10, <1>15, <2>1, <2>2
<1>18. QED
  BY <1>6, <1>7, <1>8, <1>9, <1>12, <1>13, <1>14, <1>16, <1>17 DEF StreamInv

LEMMA SendSegmentFailsKeeps ==
  ASSUME StreamInv, Types', SendSegmentFails
  PROVE  StreamInv'
<1>a. PICK e : e = pending[1]
  OBVIOUS
<1>b. PICK n : n = Len(accepted)
  OBVIOUS
<1>1. /\ pc = "sending" /\ replayQ' = Append(replayQ, e) /\ pending' = <<>>
      /\ cut' = (IF Len(pending) > 1 THEN cut \cup {e.seq} ELSE cut)
      /\ pc' = "sleeping" /\ sock = "broken" /\ sock' = "broken"
      /\ UNCHANGED <<work, nextSeq, accepted, srvSegs, srvGot, toServer, toClient>>
  BY <1>a DEF SendSegmentFails, Queue, GiveUp, srvVars, netVars
<1>2. /\ 1 \in DOMAIN pending /\ e.seq = n /\ Sound(e) /\ n \in Accepted
      /\ \A g : g \in Wire(replayQ) \/ g = Pair(e) <=> g \in Wire(replayQ')
  BY <1>a, <1>b, <1>1, QueueFacts DEF Sound
<1>3. Accepted' = Accepted /\ Sizes' = Sizes /\ (\A s : Segs(s)' = Segs(s))
      /\ (\A x : Sound(x)' <=> Sound(x)) /\ Range(srvGot)' = Range(srvGot)
  BY <1>1, SameMessages DEF Range
<1>4. cut \subseteq cut' /\ cut' \subseteq cut \cup {n}
  BY <1>1, <1>2
<1>5. NumberInv'
  BY <1>1, <1>2, <1>3, <1>4 DEF StreamInv, NumberInv, OverLimit
<1>6. SoundInv'
  <2>1. ASSUME NEW i \in DOMAIN replayQ' PROVE Sound(replayQ'[i])
    BY <1>a, <1>1, <1>2, QueueFacts DEF StreamInv, SoundInv
  <2>2. QED
    BY <1>1, <1>3, <2>1 DEF StreamInv, SoundInv, IsPiece
<1>7. Sorted'
  BY <1>a, <1>1, QueueSorted
<1>8. GotInv' /\ GotOrder' /\ AckInv' /\ SentInv'
  BY <1>1, <1>3, <1>4 DEF StreamInv, GotInv, GotOrder, AckInv, SentInv
<1>9. OrderInv'
  BY <1>1, <1>3, <1>4 DEF StreamInv, OrderInv, IsPiece, Pair
<1>10. Wire(pending)' = {} /\ Wire(replayQ)' = Wire(replayQ')
  <2>1. Wire(pending') = {}
    BY <1>1, WireFacts
  <2>2. QED
    BY <2>1 DEF Wire, Range
<1>11. \A g \in Wire(pending) : g[1] = n /\ (Len(pending) <= 1 => g = Pair(e))
  <2> SUFFICES ASSUME NEW g \in Wire(pending)
               PROVE  g[1] = n /\ (Len(pending) <= 1 => g = Pair(e))
    OBVIOUS
  <2>1. PICK i \in DOMAIN pending : Pair(pending[i]) = g
    BY WireFacts
  <2>2. Len(pending) <= 1 => i = 1
    BY Sequenced
  <2>3. QED
    BY <1>a, <1>b, <1>1, <2>1, <2>2, PendingLast
<1>12. NothingLost'
  <2> SUFFICES ASSUME NEW s \in Accepted \ cut', s \notin Range(srvGot)
               PROVE  Wire(Split(s, Sizes[accepted[s]])) \subseteq Wire(replayQ')
    BY <1>1, <1>3, <1>10 DEF NothingLost, Accepted, Wire, Range, Split
  <2>1. s \in Accepted \ cut
    BY <1>4
  <2>2. Wire(Split(s, Sizes[accepted[s]])) \subseteq Wire(replayQ) \cup Wire(pending)
    BY <2>1 DEF StreamInv, NothingLost, Accepted
  <2>3. \A g \in Wire(Split(s, Sizes[accepted[s]])) : g[1] = s
    BY <2>1, SegsAreWire, SegsFacts DEF StreamInv
  <2>4. CASE Len(pending) > 1
    <3>1. s # n
      BY <1>1, <1>2, <2>4
    <3>2. QED
      BY <1>2, <1>11, <2>2, <2>3, <3>1
  <2>5. CASE Len(pending) <= 1
    BY <1>2, <1>11, <2>2, <2>5
  <2>6. QED
    BY <2>4, <2>5, Sequenced
<1>13. \A g : Present(g)' => Present(g) \/ g = Pair(e)
  BY <1>1, <1>2, <1>10 DEF Present, OnWay, Sent, IsPiece, Pair
<1>14. FreshInv'
  BY <1>1 DEF FreshInv
<1>15. CutInv'
  <2> SUFFICES ASSUME NEW s \in cut'
               PROVE  \E g \in Segs(s) : ~Present(g)'
    BY <1>1, <1>3, <1>10 DEF CutInv
  <2>1. CASE s \in cut
    <3>1. PICK g \in Segs(s) : ~Present(g) /\ g \notin Wire(pending)
      BY <2>1 DEF StreamInv, CutInv
    <3>2. g # Pair(e)
      BY <1>a, <1>2, <3>1, WireFacts
    <3>3. QED
      BY <1>13, <3>1, <3>2
  <2>2. CASE s = n /\ Len(pending) > 1
    <3>1. 2 \in DOMAIN pending
      BY <2>2, Sequenced
    <3>2. pending[2].seq = n /\ Sound(pending[2])
      BY <1>b, <1>1, <3>1 DEF StreamInv, NumberInv, SoundInv
    <3>3. Pair(pending[2]) \in Segs(s)
      BY <1>2, <2>2, <3>2, SegsFacts DEF StreamInv
    <3>4. ~Present(Pair(pending[2])) /\ Pair(pending[2]) # Pair(e)
      BY <1>a, <1>2, <3>1 DEF StreamInv, FreshInv
    <3>5. QED
      BY <1>13, <3>3, <3>4
  <2>3. QED
    BY <1>1, <1>2, <2>1, <2>2
<1>16. QED
  BY <1>5, <1>6, <1>7, <1>8, <1>9, <1>12, <1>14, <1>15 DEF StreamInv

LEMMA ReceiveAckKeeps ==
  ASSUME StreamInv, Types', ReceiveAck
  PROVE  StreamInv'
<1>a. PICK a : a = toClient[1].seq
  OBVIOUS
<1>1. /\ pc = "select" /\ toClient # <<>> /\ toClient[1].type = "ack"
      /\ toClient' = Tail(toClient) /\ replayQ' = Retain(replayQ, a)
      /\ UNCHANGED <<work, nextSeq, accepted, cut, pending, srvSegs, srvGot, toServer, sock, pc,
                     replayIdx>>
  BY <1>a DEF ReceiveAck, srvVars, taskVars
<1>2. a \in Accepted /\ a \in Nat /\ \A s \in Accepted \ cut : s <= a => s \in Range(srvGot)
  <2>1. 1 \in DOMAIN toClient
    BY <1>1, Sequenced, TailFacts
  <2>2. a \in Accepted
    BY <1>a, <1>1, <2>1 DEF StreamInv, SoundInv
  <2>3. QED
    BY <1>a, <1>1, <2>1, <2>2, Sequenced DEF StreamInv, AckInv
<1>3. PICK k \in 0 .. Len(replayQ) :
           /\ \A i \in DOMAIN replayQ : i <= k <=> replayQ[i].seq <= a
           /\ DOMAIN replayQ' = 1 .. Len(replayQ) - k
           /\ \A i \in 1 .. Len(replayQ) - k : replayQ'[i] = replayQ[i + k]
  <2>1. replayQ \in Seq(Pieces)
    BY Sequenced
  <2>2. \A i \in DOMAIN replayQ : replayQ[i] \in Pieces
    BY <2>1
  <2>3. \A i \in DOMAIN replayQ : replayQ[i].seq \in Nat
    BY <2>2 DEF Pieces
  <2>4. \A i, j \in DOMAIN replayQ : i <= j => replayQ[i].seq <= replayQ[j].seq
    BY DEF StreamInv, Sorted
  <2>5. \E k \in 0 .. Len(replayQ) :
           /\ \A i \in DOMAIN replayQ : i <= k <=> replayQ[i].seq <= a
           /\ Retain(replayQ, a) \in Seq(Pieces)
           /\ DOMAIN Retain(replayQ, a) = 1 .. Len(replayQ) - k
           /\ \A i \in 1 .. Len(replayQ) - k : Retain(replayQ, a)[i] = replayQ[i + k]
    BY <1>2, <2>1, <2>3, <2>4, RetainFacts, Zenon
  <2>6. QED
    BY <1>1, <2>5
<1>4. \A i \in DOMAIN replayQ' : i + k \in DOMAIN replayQ /\ replayQ'[i] = replayQ[i + k] /\ i \in Nat
  BY <1>3, Sequenced
<1>5. Accepted' = Accepted /\ Sizes' = Sizes /\ (\A s : Segs(s)' = Segs(s))
      /\ (\A x : Sound(x)' <=> Sound(x)) /\ Range(srvGot)' = Range(srvGot)
  BY <1>1, SameMessages DEF Range
<1>6. \A j \in DOMAIN toClient' : \E i \in DOMAIN toClient : toClient[i] = toClient'[j]
  BY <1>1, TailAnswers DEF StreamInv
<1>7. NumberInv'
  BY <1>1, <1>5 DEF StreamInv, NumberInv, OverLimit
<1>8. SoundInv'
  <2>1. ASSUME NEW i \in DOMAIN replayQ' PROVE Sound(replayQ'[i])
    BY <1>4 DEF StreamInv, SoundInv
  <2>2. \A j \in DOMAIN toClient' : toClient'[j].type = "ack" => toClient'[j].seq \in Accepted
    BY <1>6 DEF StreamInv, SoundInv
  <2>3. QED
    BY <1>1, <1>5, <2>1, <2>2 DEF StreamInv, SoundInv, IsPiece
<1>9. Sorted'
  <2> SUFFICES ASSUME NEW i \in DOMAIN replayQ', NEW j \in DOMAIN replayQ', i <= j
               PROVE  replayQ'[i].seq <= replayQ'[j].seq
    BY DEF Sorted
  <2>1. i + k <= j + k
    BY <1>4
  <2>2. QED
    BY <1>4, <2>1 DEF StreamInv, Sorted
<1>10. GotInv' /\ GotOrder'
  BY <1>1, <1>5 DEF StreamInv, GotInv, GotOrder
<1>11. OrderInv'
  BY <1>1, <1>5 DEF StreamInv, OrderInv, IsPiece, Pair
<1>12. AckInv'
  BY <1>1, <1>5, <1>6 DEF StreamInv, AckInv
<1>13. SentInv'
  <2> SUFFICES ASSUME sock = "up", NEW j \in DOMAIN replayQ' PROVE OnWay(Pair(replayQ'[j]))
    BY <1>1 DEF SentInv, OnWay, Sent, IsPiece, Pair
  <2>1. QED
    BY <1>1, <1>4 DEF StreamInv, SentInv
<1>14. Wire(replayQ)' = Wire(replayQ') /\ Wire(pending)' = Wire(pending)
       /\ Wire(replayQ') \subseteq Wire(replayQ)
  <2>1. ASSUME NEW g \in Wire(replayQ') PROVE g \in Wire(replayQ)
    <3>1. PICK i \in DOMAIN replayQ' : Pair(replayQ'[i]) = g
      BY WireFacts
    <3>2. QED
      BY <1>4, <3>1, WireFacts
  <2>2. QED
    BY <1>1, <2>1 DEF Wire, Range
<1>15. NothingLost'
  <2> SUFFICES ASSUME NEW s \in Accepted \ cut, s \notin Range(srvGot),
                      NEW g \in Wire(Split(s, Sizes[accepted[s]]))
               PROVE  g \in Wire(replayQ') \cup Wire(pending)
    BY <1>1, <1>5, <1>14 DEF NothingLost, Accepted, Wire, Range, Split
  <2>1. g \in Wire(replayQ) \/ g \in Wire(pending)
    BY DEF StreamInv, NothingLost, Accepted
  <2>2. CASE g \in Wire(replayQ)
    <3>1. PICK i \in DOMAIN replayQ : Pair(replayQ[i]) = g
      BY <2>2, WireFacts
    <3>2. replayQ[i].seq = s
      <4>1. g[1] = s
        BY SegsAreWire, SegsFacts DEF StreamInv
      <4>2. QED
        BY <3>1, <4>1 DEF Pair
    <3>3. ~(s <= a)
      BY <1>2
    <3>4. i - k \in DOMAIN replayQ' /\ (i - k) + k = i
      BY <1>3, <3>2, <3>3, Sequenced
    <3>5. replayQ'[i - k] = replayQ[i]
      BY <1>4, <3>4
    <3>6. QED
      BY <3>1, <3>4, <3>5, WireFacts
  <2>3. QED
    BY <2>1, <2>2
<1>16. \A g : Present(g)' => Present(g)
  BY <1>1, <1>14 DEF Present, OnWay, Sent, IsPiece, Pair
<1>17. FreshInv'
  BY <1>1, <1>16 DEF StreamInv, FreshInv, Pair
<1>18. CutInv'
  BY <1>1, <1>5, <1>14, <1>16 DEF StreamInv, CutInv
<1>19. QED
  BY <1>7, <1>8, <1>9, <1>10, <1>11, <1>12, <1>13, <1>15, <1>17, <1>18 DEF StreamInv

\* Every message up to that of the piece the relay takes is complete there, or
\* was abandoned.
LEMMA HeadFacts ==
  ASSUME StreamInv, toServer # <<>>, NEW e, e = toServer[1], IsPiece(e)
  PROVE  /\ Sound(e) /\ e.seq \in Accepted /\ Segs(e.seq) = SegmentsOf(e.seq, e.count)
         /\ OnWay(Pair(e))
         /\ \A s \in Accepted \ cut : s < e.seq => s \in Range(srvGot)
<1>1. 1 \in DOMAIN toServer /\ \A j \in DOMAIN toServer : ~(j < 1)
  BY Sequenced, TailFacts
<1>2. Sound(e)
  BY <1>1 DEF StreamInv, SoundInv
<1>3. e.seq \in Accepted /\ Segs(e.seq) = SegmentsOf(e.seq, e.count)
  BY <1>2 DEF Sound, Segs
<1>4. OnWay(Pair(e))
  BY <1>1, SentFacts DEF OnWay
<1>5. ASSUME NEW s \in Accepted \ cut, s < e.seq PROVE s \in Range(srvGot)
  <2>1. Segs(s) \subseteq srvSegs
    BY <1>1, <1>5 DEF StreamInv, OrderInv
  <2>2. QED
    BY <2>1 DEF StreamInv, GotInv
<1>6. QED
  BY <1>2, <1>3, <1>4, <1>5

\* The head of the wire is taken: what is on the way stays on the way.
LEMMA TakenFacts ==
  ASSUME StreamInv, toServer # <<>>, toServer' = Tail(toServer), NEW e, e = toServer[1],
         srvSegs' = IF IsPiece(e) THEN srvSegs \cup {Pair(e)} ELSE srvSegs
  PROVE  /\ \A k \in DOMAIN toServer' : k + 1 \in DOMAIN toServer /\ toServer'[k] = toServer[k + 1]
         /\ \A j \in DOMAIN toServer :
              j # 1 => j - 1 \in DOMAIN toServer' /\ toServer'[j - 1] = toServer[j]
         /\ \A g : OnWay(g)' <=> OnWay(g)
<1>1. /\ \A k \in DOMAIN toServer' : k + 1 \in DOMAIN toServer /\ toServer'[k] = toServer[k + 1]
      /\ 1 \in DOMAIN toServer
      /\ \A j \in DOMAIN toServer :
           j # 1 => j - 1 \in DOMAIN toServer' /\ toServer'[j - 1] = toServer[j]
  <2>1. toServer \in Seq(Envelopes)
    BY Sequenced
  <2>2. /\ DOMAIN toServer' = 1 .. Len(toServer) - 1 /\ DOMAIN toServer = 1 .. Len(toServer)
        /\ Len(toServer) \in Nat \ {0}
        /\ \A i \in 1 .. Len(toServer) - 1 : toServer'[i] = toServer[i + 1]
    BY <2>1, TailFacts
  <2>3. ASSUME NEW j \in DOMAIN toServer, j # 1
        PROVE  j - 1 \in DOMAIN toServer' /\ toServer'[j - 1] = toServer[j]
    BY <2>2, <2>3
  <2>4. QED
    BY <2>2, <2>3
<1>2. ASSUME NEW g, OnWay(g) PROVE OnWay(g)'
  <2>1. CASE g \in srvSegs
    BY <2>1 DEF OnWay
  <2>2. CASE g \in Sent
    <3>1. PICK j \in DOMAIN toServer : IsPiece(toServer[j]) /\ Pair(toServer[j]) = g
      BY <2>2, SentFacts
    <3>2. CASE j = 1
      BY <3>1, <3>2 DEF OnWay
    <3>3. CASE j # 1
      <4>1. g \in Sent'
        BY <1>1, <3>1, <3>3, SentFacts
      <4>2. QED
        BY <4>1 DEF OnWay
    <3>4. QED
      BY <3>2, <3>3
  <2>3. QED
    BY <1>2, <2>1, <2>2 DEF OnWay
<1>3. ASSUME NEW g, OnWay(g)' PROVE OnWay(g)
  <2>1. CASE g \in srvSegs'
    <3>1. IsPiece(e) => Pair(e) \in Sent
      BY <1>1, SentFacts
    <3>2. QED
      BY <2>1, <3>1 DEF OnWay
  <2>2. CASE g \in Sent'
    <3>1. PICK k \in DOMAIN toServer' : IsPiece(toServer'[k]) /\ Pair(toServer'[k]) = g
      BY <2>2, SentFacts
    <3>2. g \in Sent
      BY <1>1, <3>1, SentFacts
    <3>3. QED
      BY <3>2 DEF OnWay
  <2>3. QED
    BY <1>3, <2>1, <2>2 DEF OnWay
<1>4. QED
  BY <1>1, <1>2, <1>3

\* What the relay gets, and what it answers.
LEMMA TakePiece ==
  ASSUME StreamInv, RelayReceives, NEW e, e = toServer[1], IsPiece(e)
  PROVE  /\ srvSegs' = srvSegs \cup {Pair(e)}
         /\ \/ /\ Segs(e.seq) \subseteq srvSegs'
               /\ srvGot' = IF e.seq \in Range(srvGot) THEN srvGot ELSE Append(srvGot, e.seq)
               /\ toClient' = Append(toClient, Ack(e.seq))
            \/ ~(Segs(e.seq) \subseteq srvSegs') /\ UNCHANGED <<srvGot, toClient>>
<1>1. e.type = "message" /\ toServer # <<>>
  BY DEF IsPiece, RelayReceives
<1>2. Segs(e.seq) = SegmentsOf(e.seq, e.count)
  BY <1>1, HeadFacts
<1>3. QED
  BY <1>1, <1>2 DEF RelayReceives, Pair

LEMMA TakeOther ==
  ASSUME StreamInv, RelayReceives, ~IsPiece(toServer[1])
  PROVE  UNCHANGED <<srvSegs, srvGot>> /\ toClient' \in {toClient, Append(toClient, Pong)}
BY DEF RelayReceives, IsPiece

\* A message that is complete has not been abandoned, and is the next in order.
LEMMA CompleteFacts ==
  ASSUME StreamInv, RelayReceives, NEW e, e = toServer[1], IsPiece(e),
         Segs(e.seq) \subseteq srvSegs \cup {Pair(e)}
  PROVE  /\ e.seq \notin cut
         /\ e.seq \notin Range(srvGot) => \A t \in Range(srvGot) : t < e.seq
<1>1. toServer # <<>>
  BY DEF RelayReceives
<1>2. e.seq \notin cut
  <2> SUFFICES ASSUME e.seq \in cut PROVE FALSE
    OBVIOUS
  <2>1. PICK g \in Segs(e.seq) : ~Present(g)
    BY DEF StreamInv, CutInv
  <2>2. OnWay(g)
    BY <1>1, HeadFacts DEF OnWay
  <2>3. QED
    BY <2>1, <2>2 DEF Present
<1>3. ASSUME e.seq \notin Range(srvGot), NEW t \in Range(srvGot) PROVE t < e.seq
  <2>1. ~(e.seq < t)
    BY <1>1, <1>2, <1>3, HeadFacts DEF StreamInv, GotOrder
  <2>2. t \in Nat /\ e.seq \in Nat /\ t # e.seq
    BY <1>1, <1>3, HeadFacts, Sequenced DEF StreamInv, GotInv
  <2>3. QED
    BY <2>1, <2>2
<1>4. QED
  BY <1>2, <1>3

LEMMA RelayReceivesKeeps ==
  ASSUME StreamInv, Types', RelayReceives
  PROVE  StreamInv'
<1>a. PICK e : e = toServer[1]
  OBVIOUS
<1>1. /\ sock = "up" /\ toServer # <<>> /\ toServer' = Tail(toServer)
      /\ UNCHANGED <<work, nextSeq, accepted, cut, pending, replayQ, pc, replayIdx, sock>>
  BY DEF RelayReceives, outVars, taskVars
<1>2. srvSegs' = IF IsPiece(e) THEN srvSegs \cup {Pair(e)} ELSE srvSegs
  BY <1>a, TakePiece, TakeOther
<1>3. /\ \A k \in DOMAIN toServer' : k + 1 \in DOMAIN toServer /\ toServer'[k] = toServer[k + 1]
      /\ \A j \in DOMAIN toServer :
           j # 1 => j - 1 \in DOMAIN toServer' /\ toServer'[j - 1] = toServer[j]
      /\ \A g : OnWay(g)' <=> OnWay(g)
  BY <1>a, <1>1, <1>2, TakenFacts
<1>4. /\ \A j \in DOMAIN toServer : j \in Nat \ {0}
      /\ \A j \in DOMAIN toServer' : j \in Nat \ {0}
  <2>1. toServer' \in Seq(Envelopes)
    BY DEF Types, OutType
  <2>2. QED
    BY <2>1, Sequenced
<1>5. Accepted' = Accepted /\ Sizes' = Sizes /\ (\A s : Segs(s)' = Segs(s))
      /\ (\A x : Sound(x)' <=> Sound(x))
  BY <1>1, SameMessages
<1>6. /\ IsPiece(e) => Sound(e) /\ e.seq \in Accepted
                       /\ \A s \in Accepted \ cut : s < e.seq => s \in Range(srvGot)
  BY <1>a, <1>1, HeadFacts
<1>7. \/ /\ IsPiece(e) /\ Segs(e.seq) \subseteq srvSegs' /\ e.seq \notin Range(srvGot)
         /\ srvGot' = Append(srvGot, e.seq) /\ Range(srvGot') = Range(srvGot) \cup {e.seq}
      \/ /\ srvGot' = srvGot
         /\ IsPiece(e) => e.seq \in Range(srvGot) \/ ~(Segs(e.seq) \subseteq srvSegs')
  <2>1. CASE IsPiece(e) /\ srvGot' = Append(srvGot, e.seq)
    <3>1. e.seq \in Nat
      BY <1>6, <2>1, Sequenced
    <3>2. Range(srvGot') = Range(srvGot) \cup {e.seq}
      <4>1. srvGot \in Seq(Nat)
        BY Sequenced
      <4>2. QED
        BY <2>1, <3>1, <4>1, RangeAppend
    <3>3. QED
      BY <1>a, <2>1, <3>2, TakePiece
  <2>2. QED
    BY <1>a, <2>1, TakePiece, TakeOther
<1>8. /\ Range(srvGot') \subseteq Accepted /\ Range(srvGot) \subseteq Range(srvGot')
      /\ Range(srvGot)' = Range(srvGot')
      /\ \A s \in Range(srvGot') : s \in Range(srvGot) \/ s = e.seq
  BY <1>6, <1>7 DEF Range, StreamInv, GotInv
<1>9. ASSUME NEW k \in DOMAIN toClient'
      PROVE  \/ \E j \in DOMAIN toClient : toClient[j] = toClient'[k]
             \/ toClient'[k].type # "ack"
             \/ IsPiece(e) /\ toClient'[k].seq = e.seq /\ Segs(e.seq) \subseteq srvSegs'
  <2>1. CASE toClient' = toClient
    BY <2>1
  <2>2. CASE toClient' = Append(toClient, Pong)
    <3>1. Pong \in Answers /\ Pong.type # "ack"
      BY TypeBounds DEF StreamInv, Pong
    <3>2. QED
      BY <2>2, <3>1, Sequenced, AppendFacts
  <2>3. CASE IsPiece(e) /\ toClient' = Append(toClient, Ack(e.seq)) /\ Segs(e.seq) \subseteq srvSegs'
    <3>1. e.seq \in Nat
      BY <1>6, <2>3, Sequenced
    <3>2. Ack(e.seq) \in Answers /\ Ack(e.seq).seq = e.seq
      BY <3>1 DEF Ack, Answers
    <3>3. QED
      BY <2>3, <3>2, Sequenced, AppendFacts
  <2>4. QED
    BY <1>a, <2>1, <2>2, <2>3, TakePiece, TakeOther
<1>10. NumberInv'
  BY <1>1, <1>5 DEF StreamInv, NumberInv, OverLimit
<1>11. SoundInv' /\ Sorted'
  <2>1. ASSUME NEW k \in DOMAIN toServer', IsPiece(toServer'[k]) PROVE Sound(toServer'[k])
    BY <1>3, <2>1 DEF StreamInv, SoundInv
  <2>2. ASSUME NEW k \in DOMAIN toClient', toClient'[k].type = "ack"
        PROVE  toClient'[k].seq \in Accepted
    BY <1>6, <1>9, <2>2 DEF StreamInv, SoundInv
  <2>3. QED
    BY <1>1, <1>5, <2>1, <2>2 DEF StreamInv, SoundInv, Sorted, IsPiece
<1>12. GotInv'
  <2>1. ASSUME NEW s \in Accepted PROVE s \in Range(srvGot') <=> Segs(s) \subseteq srvSegs'
    <3>1. CASE IsPiece(e) /\ s = e.seq
      <4>1. s \in Range(srvGot) => Segs(s) \subseteq srvSegs'
        BY <1>2 DEF StreamInv, GotInv
      <4>2. QED
        BY <1>7, <3>1, <4>1
    <3>2. CASE ~(IsPiece(e) /\ s = e.seq)
      <4>1. \A g \in Segs(s) : g \in srvSegs' <=> g \in srvSegs
        <5>1. \A g \in Segs(s) : g[1] = s
          BY SegsFacts DEF StreamInv
        <5>2. QED
          BY <1>2, <3>2, <5>1 DEF Pair
      <4>2. s \in Range(srvGot') <=> s \in Range(srvGot)
        BY <1>7, <3>2
      <4>3. QED
        BY <4>1, <4>2 DEF StreamInv, GotInv
    <3>3. QED
      BY <3>1, <3>2
  <2>2. \A g \in srvSegs' : g[1] \in Accepted
    BY <1>2, <1>6 DEF StreamInv, GotInv, Pair
  <2>3. QED
    BY <1>5, <1>8, <2>1, <2>2 DEF GotInv
<1>13. OrderInv'
  <2> SUFFICES ASSUME NEW k \in DOMAIN toServer', IsPiece(toServer'[k]),
                      NEW s \in Accepted \ cut, s < toServer'[k].seq, NEW g \in Segs(s),
                      g \notin srvSegs'
               PROVE  \E j \in DOMAIN toServer' :
                         j < k /\ IsPiece(toServer'[j]) /\ Pair(toServer'[j]) = g
    BY <1>1, <1>5 DEF OrderInv, IsPiece, Pair
  <2>1. k + 1 \in DOMAIN toServer /\ toServer'[k] = toServer[k + 1] /\ g \notin srvSegs
    BY <1>2, <1>3
  <2>2. PICK j \in DOMAIN toServer : j < k + 1 /\ IsPiece(toServer[j]) /\ Pair(toServer[j]) = g
    BY <2>1 DEF StreamInv, OrderInv
  <2>3. j # 1
    BY <1>a, <1>2, <2>2
  <2>4. j - 1 \in DOMAIN toServer' /\ toServer'[j - 1] = toServer[j] /\ j - 1 < k
    BY <1>3, <1>4, <2>2, <2>3
  <2>5. QED
    BY <2>2, <2>4
<1>14. SentInv'
  BY <1>1, <1>3 DEF StreamInv, SentInv, Pair
<1>15. AckInv'
  <2> SUFFICES ASSUME NEW k \in DOMAIN toClient', toClient'[k].type = "ack",
                      NEW s \in Accepted \ cut, s <= toClient'[k].seq
               PROVE  s \in Range(srvGot')
    BY <1>1, <1>5, <1>8 DEF AckInv
  <2>1. CASE \E j \in DOMAIN toClient : toClient[j] = toClient'[k]
    BY <1>8, <2>1 DEF StreamInv, AckInv
  <2>2. CASE IsPiece(e) /\ toClient'[k].seq = e.seq /\ Segs(e.seq) \subseteq srvSegs'
    <3>1. CASE s = e.seq
      BY <1>7, <1>8, <2>2, <3>1
    <3>2. CASE s # e.seq
      <4>1. s \in Nat /\ e.seq \in Nat
        BY <1>6, <2>2, Sequenced
      <4>2. s < e.seq
        BY <2>2, <3>2, <4>1
      <4>3. QED
        BY <1>6, <1>8, <2>2, <4>2
    <3>3. QED
      BY <3>1, <3>2
  <2>3. QED
    BY <1>9, <2>1, <2>2
<1>16. GotOrder'
  <2>1. CASE srvGot' = srvGot
    BY <1>1, <1>5, <1>8, <2>1 DEF StreamInv, GotOrder
  <2>2. CASE /\ IsPiece(e) /\ Segs(e.seq) \subseteq srvSegs' /\ e.seq \notin Range(srvGot)
             /\ srvGot' = Append(srvGot, e.seq) /\ Range(srvGot') = Range(srvGot) \cup {e.seq}
    <3>1. \A t \in Range(srvGot) : t < e.seq
      BY <1>a, <1>2, <2>2, CompleteFacts
    <3>2. /\ DOMAIN srvGot' = 1 .. Len(srvGot) + 1 /\ srvGot'[Len(srvGot) + 1] = e.seq
          /\ \A i \in 1 .. Len(srvGot) : srvGot'[i] = srvGot[i]
      <4>1. e.seq \in Nat
        BY <1>6, <2>2, Sequenced
      <4>2. QED
        BY <2>2, <4>1, Sequenced, AppendFacts
    <3>3. ASSUME NEW i \in DOMAIN srvGot', NEW j \in DOMAIN srvGot', i < j
          PROVE  srvGot'[i] < srvGot'[j]
      <4>1. i \in 1 .. Len(srvGot) /\ srvGot'[i] = srvGot[i]
        BY <3>2, <3>3, Sequenced
      <4>2. CASE j \in 1 .. Len(srvGot)
        BY <3>2, <3>3, <4>1, <4>2, Sequenced DEF StreamInv, GotOrder
      <4>3. CASE j = Len(srvGot) + 1
        <5>1. srvGot[i] \in Range(srvGot)
          BY <4>1, Sequenced DEF Range
        <5>2. QED
          BY <3>1, <3>2, <4>1, <4>3, <5>1
      <4>4. j \in 1 .. Len(srvGot) \/ j = Len(srvGot) + 1
        <5>1. Len(srvGot) \in Nat /\ j \in 1 .. Len(srvGot) + 1
          BY <3>2, Sequenced
        <5>2. QED
          BY <5>1
      <4>5. QED
        BY <4>2, <4>3, <4>4
    <3>4. ASSUME NEW t \in Range(srvGot'), NEW s \in Accepted \ cut, s < t
          PROVE  s \in Range(srvGot')
      BY <1>6, <2>2, <3>4 DEF StreamInv, GotOrder
    <3>5. QED
      BY <1>1, <1>5, <1>8, <3>3, <3>4 DEF GotOrder
  <2>3. QED
    BY <1>7, <2>1, <2>2
<1>17. Wire(replayQ)' = Wire(replayQ) /\ Wire(pending)' = Wire(pending)
  BY <1>1 DEF Wire, Range
<1>18. NothingLost'
  <2>1. \A s \in Accepted : Wire(Split(s, Sizes[accepted[s]]))' = Wire(Split(s, Sizes[accepted[s]]))
    BY <1>1, <1>5 DEF Wire, Range, Split
  <2>2. QED
    BY <1>1, <1>5, <1>8, <1>17, <2>1 DEF StreamInv, NothingLost, Accepted
<1>19. \A g : Present(g)' <=> Present(g)
  BY <1>3, <1>17 DEF Present
<1>20. FreshInv'
  BY <1>1, <1>19 DEF StreamInv, FreshInv, Pair
<1>21. CutInv'
  BY <1>1, <1>5, <1>17, <1>19 DEF StreamInv, CutInv
<1>22. QED
  BY <1>10, <1>11, <1>12, <1>13, <1>14, <1>15, <1>16, <1>18, <1>20, <1>21 DEF StreamInv

-----------------------------------------------------------------------------
(* The invariant holds in every behaviour.                                 *)

LEMMA InitStream == Init => StreamInv
<1> SUFFICES ASSUME Init PROVE StreamInv
  OBVIOUS
<1>1. Types
  BY InitTypes
<1>2. /\ pc = "connecting" /\ sock = "none" /\ nextSeq = 1 /\ cut = {} /\ srvSegs = {}
      /\ accepted = <<>> /\ pending = <<>> /\ replayQ = <<>> /\ toServer = <<>>
      /\ toClient = <<>> /\ srvGot = <<>>
  BY DEF Init
<1>3. /\ Accepted = {} /\ Range(srvGot) = {} /\ Len(accepted) = 0
      /\ DOMAIN pending = {} /\ DOMAIN replayQ = {} /\ DOMAIN toServer = {}
      /\ DOMAIN toClient = {} /\ DOMAIN srvGot = {}
  BY <1>2 DEF Accepted, Range
<1>4. NumberInv /\ SoundInv /\ Sorted
  BY <1>2, <1>3 DEF NumberInv, SoundInv, Sorted
<1>5. GotInv /\ OrderInv /\ SentInv /\ AckInv /\ GotOrder
  BY <1>2, <1>3 DEF GotInv, OrderInv, SentInv, AckInv, GotOrder
<1>6. NothingLost /\ FreshInv /\ CutInv
  BY <1>2, <1>3 DEF NothingLost, FreshInv, CutInv, Accepted
<1>7. QED
  BY <1>1, <1>4, <1>5, <1>6 DEF StreamInv

LEMMA StutterStream == StreamInv /\ UNCHANGED vars => StreamInv'
<1> SUFFICES ASSUME StreamInv, UNCHANGED vars PROVE StreamInv'
  OBVIOUS
<1>1. Types'
  BY StepTypes DEF StreamInv
<1>2. Harmless
  BY DEF Harmless, Moves, Rewires, Carries, vars, appVars, outVars, inVars, srvVars, netVars,
         taskVars
<1>3. QED
  BY <1>1, <1>2, HarmlessKeeps

\* A step that puts no piece anywhere, or one of the six that do.
LEMMA Steps ==
  ASSUME StreamInv, Next
  PROVE  \/ Harmless
         \/ Replay \/ TakeNewLine \/ SendSegment \/ SendSegmentFails \/ ReceiveAck \/ RelayReceives
<1>1. Types
  BY DEF StreamInv
<1>2. Application \/ Timers \/ Network => Harmless
  BY <1>1, HarmlessApplication, HarmlessTimers
<1>3. Establish => Harmless \/ Replay
  BY <1>1, HarmlessEstablish
<1>4. Outbound => Harmless \/ TakeNewLine \/ SendSegment \/ SendSegmentFails
  BY <1>1, HarmlessOutbound DEF Outbound
<1>5. Inbound => Harmless \/ ReceiveAck
  BY <1>1, HarmlessInbound DEF Inbound
<1>6. Relay => Harmless \/ RelayReceives
  BY <1>1, HarmlessRelay DEF Relay
<1>7. QED
  BY <1>2, <1>3, <1>4, <1>5, <1>6 DEF Next

LEMMA StepStream == StreamInv /\ [Next]_vars => StreamInv'
<1> SUFFICES ASSUME StreamInv, Next PROVE StreamInv'
  BY StutterStream
<1>1. Types'
  BY StepTypes DEF StreamInv
<1>2. QED
  BY <1>1, Steps, HarmlessKeeps, ReplayKeeps, TakeNewLineKeeps, SendSegmentKeeps,
     SendSegmentFailsKeeps, ReceiveAckKeeps, RelayReceivesKeeps

LEMMA StreamAlways == Spec => []StreamInv
BY InitStream, StepStream, PTL DEF Spec

\* The variables of the stream, its websocket and the relay keep their types, and
\* a position of control_loop the data that belongs to it.
THEOREM TypeCorrect == Spec => []TypeOK
<1>1. StreamInv => TypeOK
  <2> SUFFICES ASSUME StreamInv PROVE TypeOK
    OBVIOUS
  <2>1. nextSeq - 1 >= Len(accepted) /\ Len(accepted) \in {nextSeq - 1, nextSeq - 2}
    BY Sequenced DEF StreamInv, NumberInv, Types, OutType
  <2>2. ASSUME NEW e \in Range(replayQ) PROVE e.seq \in Sequences
    <3>1. e.seq \in 1 .. Len(accepted)
      BY Sequenced DEF Range, StreamInv, SoundInv, Sound
    <3>2. QED
      BY <2>1, <3>1, Sequenced DEF Sequences, StreamInv, Types, OutType
  <2>3. QED
    BY <2>1, <2>2 DEF TypeOK, StreamInv, Types, AppType, TaskType, OutType, InType
<1>2. QED
  BY <1>1, StreamAlways, PTL

\* However connections break, and whatever is acknowledged, each segment of an
\* accepted message waits in the replay queue or to be sent until the relay has it.
THEOREM NothingLostHolds == Spec => []NothingLost
<1>1. StreamInv => NothingLost
  BY DEF StreamInv
<1>2. QED
  BY <1>1, StreamAlways, PTL

-----------------------------------------------------------------------------
(* Acknowledgements.                                                       *)

LEMMA AppendKeepsRange ==
  ASSUME NEW S, NEW q \in Seq(S), NEW e
  PROVE  Range(q) \subseteq Range(Append(q, e))
<1>1. \A i \in DOMAIN q : i \in DOMAIN Append(q, e) /\ Append(q, e)[i] = q[i]
  OBVIOUS
<1>2. QED
  BY <1>1 DEF Range

LEMMA AckTrims ==
  ASSUME StreamInv, [Next]_vars, NEW e \in Range(replayQ), e \notin Range(replayQ')
  PROVE  e.seq \in Range(srvGot) \cup cut
<1>1. replayQ' # replayQ
  BY DEF Range
<1>2. ~Harmless /\ ~Replay /\ ~TakeNewLine /\ ~RelayReceives /\ ~UNCHANGED vars
  BY <1>1 DEF Harmless, Replay, TakeNewLine, RelayReceives, outVars, vars
<1>3. CASE SendSegment \/ SendSegmentFails
  <2>1. replayQ' = Append(replayQ, pending[1])
    BY <1>3 DEF SendSegment, SendSegmentFails, Queue
  <2>2. replayQ \in Seq(Pieces)
    BY Sequenced
  <2>3. QED
    BY <2>1, <2>2, AppendKeepsRange
<1>4. CASE ReceiveAck
  <2>a. PICK a : a = toClient[1].seq
    OBVIOUS
  <2>1. /\ toClient # <<>> /\ toClient[1].type = "ack" /\ replayQ' = Retain(replayQ, a)
    BY <1>4, <2>a DEF ReceiveAck
  <2>2. 1 \in DOMAIN toClient
    BY <2>1, Sequenced, TailFacts
  <2>3. a \in Accepted /\ a \in Nat /\ \A s \in Accepted \ cut : s <= a => s \in Range(srvGot)
    BY <2>a, <2>1, <2>2, Sequenced DEF StreamInv, SoundInv, AckInv
  <2>4. replayQ \in Seq(Pieces) /\ DOMAIN replayQ = 1 .. Len(replayQ) /\ Len(replayQ) \in Nat
    BY Sequenced
  <2>5. \A i \in DOMAIN replayQ : replayQ[i] \in Pieces
    BY <2>4
  <2>6. /\ \A i \in DOMAIN replayQ : replayQ[i].seq \in Nat
        /\ \A i, j \in DOMAIN replayQ : i <= j => replayQ[i].seq <= replayQ[j].seq
    BY <2>5 DEF Pieces, StreamInv, Sorted
  <2>7. \E k \in 0 .. Len(replayQ) :
           /\ \A i \in DOMAIN replayQ : i <= k <=> replayQ[i].seq <= a
           /\ Retain(replayQ, a) \in Seq(Pieces)
           /\ DOMAIN Retain(replayQ, a) = 1 .. Len(replayQ) - k
           /\ \A i \in 1 .. Len(replayQ) - k : Retain(replayQ, a)[i] = replayQ[i + k]
    BY <2>3, <2>4, <2>6, RetainFacts, Zenon
  <2>8. PICK k \in 0 .. Len(replayQ) :
           /\ \A i \in DOMAIN replayQ : i <= k <=> replayQ[i].seq <= a
           /\ DOMAIN replayQ' = 1 .. Len(replayQ) - k
           /\ \A i \in 1 .. Len(replayQ) - k : replayQ'[i] = replayQ[i + k]
    BY <2>1, <2>7
  <2>9. PICK i \in DOMAIN replayQ : replayQ[i] = e
    BY DEF Range
  <2>10. i <= k
    <3> SUFFICES ASSUME ~(i <= k) PROVE FALSE
      OBVIOUS
    <3>1. i - k \in DOMAIN replayQ' /\ replayQ'[i - k] = e
      BY <2>4, <2>8, <2>9
    <3>2. QED
      BY <3>1 DEF Range
  <2>11. e.seq <= a /\ e.seq \in Accepted
    BY <2>8, <2>9, <2>10 DEF StreamInv, SoundInv, Sound
  <2>12. QED
    BY <2>3, <2>11
<1>5. QED
  BY <1>2, <1>3, <1>4, Steps

\* No acknowledgement takes a segment out of the replay queue that the relay may
\* still ask for.
THEOREM AckTrimsReceivedHolds == Spec => AckTrimsReceived
<1>1. StreamInv /\ [Next]_vars =>
        [\A e \in Range(replayQ) \ Range(replayQ') : e.seq \in Range(srvGot) \cup cut]_vars
  BY AckTrims DEF Range
<1>2. QED
  BY <1>1, StreamAlways, PTL DEF Spec, AckTrimsReceived

-----------------------------------------------------------------------------
(* The refinement.                                                         *)

LEMMA AcceptRefines ==
  ASSUME StreamInv, TakeNewLine
  PROVE  Delivery!Accept \/ UNCHANGED Delivery!vars
<1>1. CASE ~Object(lineBuf)
  BY <1>1 DEF TakeNewLine, srvVars, Delivery!vars
<1>2. CASE Object(lineBuf)
  <2>1. /\ accepted' = Append(accepted, lineBuf[1]) /\ UNCHANGED srvGot
        /\ cut' \in {cut, cut \cup {nextSeq}} /\ pc = "select"
    BY <1>2 DEF TakeNewLine, AcceptLine, srvVars
  <2>2. nextSeq = Len(accepted) + 1
    BY <2>1 DEF StreamInv, NumberInv
  <2>3. Len(accepted)' = Len(accepted) + 1
    BY <2>1, Sequenced
  <2>4. QED
    BY <2>1, <2>2, <2>3 DEF Delivery!Accept
<1>3. QED
  BY <1>1, <1>2

LEMMA ArrivedRange == Delivery!Arrived = Range(srvGot)
BY DEF Delivery!Arrived, Range

LEMMA LoseRefines ==
  ASSUME StreamInv, SendSegmentFails
  PROVE  Delivery!Lose \/ UNCHANGED Delivery!vars
<1>1. /\ pc = "sending" /\ UNCHANGED <<accepted, srvGot>>
      /\ cut' = IF Len(pending) > 1 THEN cut \cup {pending[1].seq} ELSE cut
  BY DEF SendSegmentFails, srvVars
<1>2. CASE Len(pending) > 1
  <2>1. 1 \in DOMAIN pending /\ 2 \in DOMAIN pending
    BY <1>2, Sequenced
  <2>2. pending[1].seq = Len(accepted) /\ pending[2].seq = Len(accepted) /\ Sound(pending[2])
    BY <1>1, <2>1 DEF StreamInv, NumberInv, SoundInv
  <2>3. Len(accepted) \in 1 .. Len(accepted) /\ Len(accepted) \in Accepted
    BY <2>2, Sequenced DEF Sound
  <2>4. Pair(pending[2]) \in Segs(Len(accepted)) /\ Pair(pending[2]) \notin srvSegs
    <3>1. ~Present(Pair(pending[2]))
      BY <2>1 DEF StreamInv, FreshInv
    <3>2. QED
      BY <2>2, <2>3, <3>1, SegsFacts DEF StreamInv, Present, OnWay
  <2>5. Len(accepted) \notin Range(srvGot)
    BY <2>3, <2>4 DEF StreamInv, GotInv
  <2>6. QED
    BY <1>1, <1>2, <2>2, <2>3, <2>5, ArrivedRange DEF Delivery!Lose
<1>3. CASE ~(Len(pending) > 1)
  BY <1>1, <1>3 DEF Delivery!vars
<1>4. QED
  BY <1>2, <1>3

\* The message got last has the greatest number of all.
LEMMA LastGotFacts ==
  ASSUME StreamInv
  PROVE  /\ Delivery!LastGot \in Nat
         /\ \A t \in Range(srvGot) : t <= Delivery!LastGot
         /\ Delivery!LastGot # 0 => Delivery!LastGot \in Range(srvGot)
<1>1. srvGot \in Seq(Nat) /\ DOMAIN srvGot = 1 .. Len(srvGot) /\ Len(srvGot) \in Nat
  BY Sequenced
<1>2. CASE srvGot = <<>>
  BY <1>2 DEF Delivery!LastGot, Range
<1>3. CASE srvGot # <<>>
  <2> DEFINE n == Len(srvGot)
  <2>1. n \in DOMAIN srvGot /\ Delivery!LastGot = srvGot[n] /\ srvGot[n] \in Nat
    BY <1>1, <1>3 DEF Delivery!LastGot
  <2>2. ASSUME NEW i \in DOMAIN srvGot PROVE srvGot[i] <= srvGot[n]
    <3>1. CASE i = n
      BY <2>1, <3>1
    <3>2. CASE i < n
      <4>1. srvGot[i] < srvGot[n] /\ srvGot[i] \in Nat
        BY <1>1, <2>1, <3>2 DEF StreamInv, GotOrder
      <4>2. QED
        BY <2>1, <4>1
    <3>3. QED
      BY <1>1, <3>1, <3>2
  <2>3. QED
    BY <2>1, <2>2 DEF Range
<1>4. QED
  BY <1>2, <1>3

LEMMA ReceiveRefines ==
  ASSUME StreamInv, RelayReceives
  PROVE  Delivery!Receive \/ UNCHANGED Delivery!vars
<1>a. PICK e : e = toServer[1]
  OBVIOUS
<1>1. toServer # <<>> /\ UNCHANGED <<accepted, cut>>
  BY DEF RelayReceives, outVars
<1>2. CASE srvGot' = srvGot
  BY <1>1, <1>2 DEF Delivery!vars
<1>3. CASE srvGot' # srvGot
  <2>1. /\ IsPiece(e) /\ Segs(e.seq) \subseteq srvSegs \cup {Pair(e)}
        /\ e.seq \notin Range(srvGot) /\ srvGot' = Append(srvGot, e.seq)
    BY <1>a, <1>3, TakePiece, TakeOther
  <2>2. /\ e.seq \in Accepted /\ e.seq \notin cut
        /\ \A t \in Range(srvGot) : t < e.seq
        /\ \A s \in Accepted \ cut : s < e.seq => s \in Range(srvGot)
    BY <1>a, <1>1, <2>1, HeadFacts, CompleteFacts
  <2>3. Accepted = 1 .. Len(accepted) /\ Len(accepted) \in Nat
    BY Sequenced
  <2>4. e.seq \in (Delivery!LastGot + 1) .. Len(accepted)
    BY <2>2, <2>3, LastGotFacts
  <2>5. ASSUME NEW s \in (Delivery!LastGot + 1) .. (e.seq - 1) PROVE s \in cut
    <3> SUFFICES ASSUME s \notin cut PROVE FALSE
      OBVIOUS
    <3>1. s \in Accepted /\ s < e.seq /\ Delivery!LastGot < s
      BY <2>2, <2>3, <2>4, LastGotFacts
    <3>2. s \in Range(srvGot)
      BY <2>2, <3>1
    <3>3. s <= Delivery!LastGot
      BY <3>2, LastGotFacts
    <3>4. QED
      BY <3>1, <3>3, <2>3, LastGotFacts
  <2>6. QED
    BY <1>1, <2>1, <2>2, <2>4, <2>5 DEF Delivery!Receive
<1>4. QED
  BY <1>2, <1>3

\* Every step of the stream, its websocket and the relay is one of the ordered
\* delivery or leaves it alone.
THEOREM Implements == Spec => ImplementsDelivery
<1>1. Init => Delivery!Init
  BY DEF Init, Delivery!Init
<1>2. StreamInv /\ [Next]_vars => [Delivery!Next]_(Delivery!vars)
  <2> SUFFICES ASSUME StreamInv, [Next]_vars PROVE Delivery!Next \/ UNCHANGED Delivery!vars
    BY DEF Delivery!vars
  <2>1. CASE Harmless
    BY <2>1 DEF Harmless, Delivery!vars
  <2>2. CASE Replay \/ SendSegment \/ ReceiveAck \/ UNCHANGED vars
    BY <2>2 DEF Replay, SendSegment, ReceiveAck, outVars, srvVars, vars, Delivery!vars
  <2>3. CASE TakeNewLine \/ SendSegmentFails \/ RelayReceives
    BY <2>3, AcceptRefines, LoseRefines, ReceiveRefines DEF Delivery!Next
  <2>4. QED
    BY <2>1, <2>2, <2>3, Steps
<1>3. QED
  BY <1>1, <1>2, StreamAlways, PTL DEF Spec, ImplementsDelivery, Delivery!Spec
-----------------------------------------------------------------------------
(* The end of the stream.                                                  *)

\* The application's buffers alternate: a line's text, its newline.  With the
\* lines accepted and the text in outbound_line_buf they are counted from the
\* first; Place(i) is the number of outbound[i].
Commands == [type : {"bytes"}, text : Seq(Nat)] \cup [type : {"shutdown"}]
Base     == 2 * Len(accepted) + Len(lineBuf)
Place(i) == Base + i
ByteAt(c, n) ==
  /\ c.type = "bytes"
  /\ \E l \in Lines : \/ n = 2 * l - 1 /\ c.text = <<l>>
                      \/ n = 2 * l /\ c.text = <<NewLine>>

\* Lines are accepted in the order they were written, and the commands that wait
\* are the next bytes in turn, a shutdown behind all of them.
ByteOrder ==
  /\ outbound \in Seq(Commands)
  /\ \A s \in Accepted : accepted[s] = s
  /\ lineBuf = <<>> \/ (lineBuf = <<Len(accepted) + 1>> /\ Len(accepted) + 1 \in Lines)
  /\ \A i \in DOMAIN outbound :
       \/ outbound[i].type = "shutdown" /\ shutdownSent /\ i = Len(outbound)
       \/ ByteAt(outbound[i], Place(i))

\* As long as the task runs, what was written is accepted or waits.
AllWaits == pc # "done" =>
  IF shutdownSent
  THEN /\ outbound # <<>> /\ outbound[Len(outbound)].type = "shutdown"
       /\ ~halfWritten /\ Place(Len(outbound)) = 2 * written + 1
  ELSE /\ \A i \in DOMAIN outbound : outbound[i].type = "bytes"
       /\ Place(Len(outbound)) = IF halfWritten THEN 2 * written + 1 ELSE 2 * written

\* A ClientClosed is behind every piece of every message on the wire.
ClosedInv ==
  /\ \A k \in DOMAIN toServer : toServer[k].type = "closed" =>
       /\ pc = "done" /\ written <= Len(accepted)
       /\ \A s \in Accepted \ cut : \A g \in Segs(s) :
            \/ g \in srvSegs
            \/ \E j \in DOMAIN toServer : j < k /\ IsPiece(toServer[j]) /\ Pair(toServer[j]) = g
  /\ srvClosed => /\ pc = "done" /\ written <= Len(accepted)
                  /\ \A s \in Accepted \ cut : s \in Range(srvGot)

\* The steps that leave the application's bytes alone.
BytesSame ==
  /\ UNCHANGED <<work, written, halfWritten, shutdownSent, outbound, lineBuf, accepted>>
  /\ pc' = "done" <=> pc = "done"

LEMMA BytesSameSteps ==
  ASSUME Establish \/ SendSegment \/ SendSegmentFails \/ Inbound \/ Timers \/ Network \/ Relay
  PROVE  BytesSame
<1>1. CASE Establish
  BY <1>1 DEF Establish, Connect, Handshake, HandshakeFails, Replay, ReplayFails, StartSelect,
       WakeUp, GiveUp, BytesSame, appVars, outVars, srvVars
<1>2. CASE SendSegment
  BY <1>2 DEF SendSegment, BytesSame, appVars, srvVars
<1>3. CASE SendSegmentFails
  BY <1>3 DEF SendSegmentFails, GiveUp, BytesSame, appVars, srvVars
<1>4. CASE ReceiveEntry
  <2>1. pc = "select" /\ pc' \in {pc, "sleeping"}
    <3>1. CASE ObserveChunk(ServerLog[toClient[1].pos])
      BY <1>4, <3>1 DEF ReceiveEntry, ObserveChunk, GiveUp
    <3>2. CASE ~ObserveChunk(ServerLog[toClient[1].pos])
      BY <1>4, <3>2 DEF ReceiveEntry, GiveUp
    <3>3. QED
      BY <3>1, <3>2
  <2>2. UNCHANGED <<appVars, outbound, outVars, srvVars>>
    BY <1>4 DEF ReceiveEntry
  <2>3. QED
    BY <2>1, <2>2 DEF BytesSame, appVars, outVars, srvVars
<1>5. CASE ReceiveAck \/ ReceivePong \/ StreamEnds
  BY <1>5 DEF ReceiveAck, ReceivePong, StreamEnds, GiveUp, BytesSame, appVars, outVars, srvVars,
       taskVars
<1>6. CASE Timers \/ Network
  BY <1>6 DEF Timers, Network, PingTick, PongTimeout, ConnectFails, Break, HalfOpen,
       KernelGivesUp, GiveUp, BytesSame, appVars, outVars, srvVars, taskVars
<1>7. CASE Relay
  BY <1>7 DEF Relay, RelayReceives, RelaySends, BytesSame, appVars, outVars, srvVars, taskVars
<1>8. QED
  BY <1>1, <1>2, <1>3, <1>4, <1>5, <1>6, <1>7 DEF Inbound

LEMMA ByteFacts ==
  ASSUME Types, ByteOrder
  PROVE  /\ Len(accepted) \in Nat /\ Len(lineBuf) \in {0, 1} /\ Len(outbound) \in Nat
         /\ DOMAIN outbound = 1 .. Len(outbound)
         /\ Lines = 1 .. Len(Sizes) /\ Len(Sizes) \in Nat /\ NewLine \notin Lines
         /\ lineBuf = <<>> => Len(lineBuf) = 0
         /\ Accepted = 1 .. Len(accepted)
<1>1. Sizes \in Seq(Nat \ {0}) /\ accepted \in Seq(Lines)
  BY WorkFacts DEF Types, OutType
<1>2. QED
  BY <1>1 DEF ByteOrder, Lines, NewLine, Accepted

LEMMA BaseType ==
  ASSUME Types, ByteOrder
  PROVE  Base \in Nat
<1>1. Len(accepted) \in Nat /\ Len(lineBuf) \in {0, 1}
  BY ByteFacts
<1>2. QED
  BY <1>1 DEF Base

LEMMA Parity ==
  ASSUME NEW a \in Nat, NEW l \in Nat, NEW h \in {0, 1}
  PROVE  /\ 2 * a + h + 1 = 2 * l - 1 => h = 0 /\ l = a + 1
         /\ 2 * a + h + 1 = 2 * l => h = 1 /\ l = a + 1
         /\ 2 * a + h + 1 = 2 * l + 1 => h = 0 /\ l = a
OBVIOUS

LEMMA BytesSameKeeps ==
  ASSUME Types, ByteOrder, AllWaits, BytesSame
  PROVE  ByteOrder' /\ AllWaits'
<1>1. Lines' = Lines /\ \A i : Place(i)' = Place(i)
  BY DEF BytesSame, Lines, Sizes, Place, Base
<1>2. ByteOrder'
  BY <1>1 DEF BytesSame, ByteOrder, ByteAt, Accepted
<1>3. AllWaits'
  BY <1>1 DEF BytesSame, AllWaits, Place, Base
<1>4. QED
  BY <1>2, <1>3

\* A command behind the others that have been numbered up to it.
LEMMA WriteKeeps ==
  ASSUME Types, ByteOrder, UNCHANGED <<work, lineBuf, accepted>>, NEW c \in Commands,
         outbound' = Append(outbound, c),
         \A i \in DOMAIN outbound : outbound[i].type = "bytes",
         shutdownSent => shutdownSent',
         (c.type = "shutdown" /\ shutdownSent') \/ ByteAt(c, Place(Len(outbound) + 1))
  PROVE  /\ ByteOrder'
         /\ Len(outbound') = Len(outbound) + 1 /\ outbound'[Len(outbound) + 1] = c
         /\ DOMAIN outbound' = 1 .. Len(outbound) + 1
         /\ \A i \in DOMAIN outbound : outbound'[i] = outbound[i]
         /\ \A i : Place(i)' = Place(i)
<1>1. outbound \in Seq(Commands)
  BY DEF ByteOrder
<1>2. /\ outbound' \in Seq(Commands) /\ Len(outbound') = Len(outbound) + 1 /\ Len(outbound) \in Nat
      /\ DOMAIN outbound' = 1 .. Len(outbound) + 1 /\ DOMAIN outbound = 1 .. Len(outbound)
      /\ \A i \in 1 .. Len(outbound) : outbound'[i] = outbound[i]
      /\ outbound'[Len(outbound) + 1] = c
  BY <1>1, AppendFacts
<1>3. Lines' = Lines /\ Accepted' = Accepted /\ \A i : Place(i)' = Place(i)
  BY DEF Lines, Sizes, Accepted, Place, Base
<1>4. \A d, n : ByteAt(d, n)' <=> ByteAt(d, n)
  BY <1>3 DEF ByteAt
<1>5. ASSUME NEW i \in DOMAIN outbound'
      PROVE  \/ outbound'[i].type = "shutdown" /\ shutdownSent' /\ i = Len(outbound')
             \/ ByteAt(outbound'[i], Place(i))
  <2>1. CASE i \in DOMAIN outbound
    <3>1. outbound'[i] = outbound[i] /\ outbound[i].type = "bytes"
      BY <1>2, <2>1
    <3>2. QED
      BY <2>1, <3>1 DEF ByteOrder
  <2>2. CASE i = Len(outbound) + 1
    BY <1>2, <2>2
  <2>3. QED
    BY <1>2, <2>1, <2>2
<1>6. ByteOrder'
  BY <1>2, <1>3, <1>4, <1>5 DEF ByteOrder
<1>7. QED
  BY <1>2, <1>3, <1>6

LEMMA WriteTextBytes ==
  ASSUME Types, ByteOrder, AllWaits, WriteText
  PROVE  ByteOrder' /\ AllWaits'
<1> DEFINE c == [type |-> "bytes", text |-> <<written + 1>>]
<1>1. /\ ~shutdownSent /\ ~halfWritten /\ written < Len(Sizes) /\ pc # "done" /\ halfWritten'
      /\ outbound' = Append(outbound, c)
      /\ UNCHANGED <<work, lineBuf, accepted, written, shutdownSent, pc>>
  BY DEF WriteText, outVars, srvVars, taskVars
<1>2. c \in Commands /\ c.type = "bytes" /\ written \in Nat
  BY TypeBounds DEF Commands, Types, AppType
<1>3. /\ \A i \in DOMAIN outbound : outbound[i].type = "bytes"
      /\ Place(Len(outbound)) = 2 * written
  BY <1>1 DEF AllWaits
<1>4. Place(Len(outbound) + 1) = 2 * (written + 1) - 1
  BY <1>2, <1>3, ByteFacts DEF Place, Base
<1>5. ByteAt(c, Place(Len(outbound) + 1))
  <2>1. written + 1 \in Lines
    BY <1>1, <1>2, ByteFacts
  <2>2. QED
    BY <1>4, <2>1 DEF ByteAt
<1> HIDE DEF c
<1>6. /\ ByteOrder'
      /\ Len(outbound') = Len(outbound) + 1 /\ outbound'[Len(outbound) + 1] = c
      /\ DOMAIN outbound' = 1 .. Len(outbound) + 1
      /\ \A i \in DOMAIN outbound : outbound'[i] = outbound[i]
      /\ \A i : Place(i)' = Place(i)
  BY <1>1, <1>2, <1>3, <1>5, WriteKeeps
<1>7. \A i \in DOMAIN outbound' : outbound'[i].type = "bytes"
  BY <1>2, <1>3, <1>6, ByteFacts
<1>8. Place(Len(outbound))' = 2 * written' + 1
  <2>1. Place(Len(outbound))' = Place(Len(outbound) + 1)
    BY <1>1, <1>6 DEF Place
  <2>2. QED
    BY <1>1, <1>2, <1>4, <2>1
<1>9. QED
  BY <1>1, <1>6, <1>7, <1>8 DEF AllWaits

LEMMA WriteNewLineBytes ==
  ASSUME Types, ByteOrder, AllWaits, WriteNewLine
  PROVE  ByteOrder' /\ AllWaits'
<1> DEFINE c == [type |-> "bytes", text |-> <<NewLine>>]
<1>1. /\ ~shutdownSent /\ halfWritten /\ pc # "done" /\ ~halfWritten' /\ written' = written + 1
      /\ outbound' = Append(outbound, c)
      /\ UNCHANGED <<work, lineBuf, accepted, shutdownSent, pc>>
  BY DEF WriteNewLine, outVars, srvVars, taskVars
<1>2. c \in Commands /\ c.type = "bytes" /\ written \in Nat
  BY TypeBounds DEF Commands, Types, AppType, NewLine
<1>3. /\ \A i \in DOMAIN outbound : outbound[i].type = "bytes"
      /\ Place(Len(outbound)) = 2 * written + 1
  BY <1>1 DEF AllWaits
<1>4. Place(Len(outbound) + 1) = 2 * (written + 1)
  BY <1>2, <1>3, ByteFacts DEF Place, Base
<1>5. ByteAt(c, Place(Len(outbound) + 1))
  <2>0. written < Len(Sizes)
    BY <1>1 DEF Types, AppType
  <2>1. written + 1 \in Lines
    BY <1>2, <2>0, ByteFacts
  <2>2. QED
    BY <1>4, <2>1 DEF ByteAt
<1> HIDE DEF c
<1>6. /\ ByteOrder'
      /\ Len(outbound') = Len(outbound) + 1 /\ outbound'[Len(outbound) + 1] = c
      /\ DOMAIN outbound' = 1 .. Len(outbound) + 1
      /\ \A i \in DOMAIN outbound : outbound'[i] = outbound[i]
      /\ \A i : Place(i)' = Place(i)
  BY <1>1, <1>2, <1>3, <1>5, WriteKeeps
<1>7. \A i \in DOMAIN outbound' : outbound'[i].type = "bytes"
  BY <1>2, <1>3, <1>6, ByteFacts
<1>8. Place(Len(outbound))' = 2 * written'
  <2>1. Place(Len(outbound))' = Place(Len(outbound) + 1)
    BY <1>1, <1>6 DEF Place
  <2>2. QED
    BY <1>1, <1>2, <1>4, <2>1
<1>9. QED
  BY <1>1, <1>6, <1>7, <1>8 DEF AllWaits

LEMMA ShutdownBytes ==
  ASSUME Types, ByteOrder, AllWaits, Shutdown
  PROVE  ByteOrder' /\ AllWaits'
<1> DEFINE c == [type |-> "shutdown"]
<1>1. /\ ~shutdownSent /\ ~halfWritten /\ pc # "done" /\ shutdownSent'
      /\ outbound' = Append(outbound, c)
      /\ UNCHANGED <<work, lineBuf, accepted, written, halfWritten, pc>>
  BY DEF Shutdown, outVars, srvVars, taskVars
<1>2. c \in Commands /\ c.type = "shutdown" /\ written \in Nat
  BY TypeBounds DEF Commands, Types, AppType
<1>3. /\ \A i \in DOMAIN outbound : outbound[i].type = "bytes"
      /\ Place(Len(outbound)) = 2 * written
  BY <1>1 DEF AllWaits
<1>4. Place(Len(outbound) + 1) = 2 * written + 1
  BY <1>2, <1>3, ByteFacts DEF Place, Base
<1> HIDE DEF c
<1>6. /\ ByteOrder'
      /\ Len(outbound') = Len(outbound) + 1 /\ outbound'[Len(outbound) + 1] = c
      /\ DOMAIN outbound' = 1 .. Len(outbound) + 1
      /\ \A i : Place(i)' = Place(i)
  BY <1>1, <1>2, <1>3, WriteKeeps
<1>7. outbound' # <<>>
  BY <1>6, ByteFacts
<1>8. Place(Len(outbound))' = 2 * written' + 1
  <2>1. Place(Len(outbound))' = Place(Len(outbound) + 1)
    BY <1>1, <1>6 DEF Place
  <2>2. QED
    BY <1>1, <1>2, <1>4, <2>1
<1>9. QED
  BY <1>1, <1>2, <1>6, <1>7, <1>8 DEF AllWaits

LEMMA DropStreamBytes ==
  ASSUME Types, ByteOrder, AllWaits, DropStream
  PROVE  ByteOrder' /\ AllWaits'
<1>1. /\ UNCHANGED <<work, outbound, lineBuf, accepted>> /\ shutdownSent' = TRUE /\ pc' = "done"
  BY DEF DropStream, outVars, srvVars
<1>2. Lines' = Lines /\ \A i : Place(i)' = Place(i)
  BY <1>1 DEF Lines, Sizes, Place, Base
<1>3. ByteOrder'
  BY <1>1, <1>2 DEF ByteOrder, ByteAt, Accepted
<1>4. QED
  BY <1>1, <1>3 DEF AllWaits

\* The task takes a command: the others keep their numbers.
LEMMA TakeKeeps ==
  ASSUME Types, ByteOrder, AllWaits, pc # "done", outbound # <<>>, outbound' = Tail(outbound),
         outbound[1].type = "bytes", UNCHANGED <<work, shutdownSent, written, halfWritten>>,
         Base' = Base + 1
  PROVE  /\ outbound' \in Seq(Commands)
         /\ \A i \in DOMAIN outbound' :
              \/ outbound'[i].type = "shutdown" /\ shutdownSent' /\ i = Len(outbound')
              \/ ByteAt(outbound[i], Place(i))'
         /\ AllWaits'
<1>0. outbound \in Seq(Commands)
  BY DEF ByteOrder
<1>1. /\ outbound' \in Seq(Commands) /\ 1 \in DOMAIN outbound
      /\ Len(outbound') = Len(outbound) - 1 /\ Len(outbound) \in Nat \ {0}
      /\ DOMAIN outbound' = 1 .. Len(outbound) - 1 /\ DOMAIN outbound = 1 .. Len(outbound)
      /\ \A i \in 1 .. Len(outbound) - 1 : outbound'[i] = outbound[i + 1]
  BY <1>0, TailFacts
<1>2. Lines' = Lines
  BY DEF Lines, Sizes
<1>3. ASSUME NEW i \in DOMAIN outbound'
      PROVE  \/ outbound'[i].type = "shutdown" /\ shutdownSent' /\ i = Len(outbound')
             \/ ByteAt(outbound[i], Place(i))'
  <2>1. i + 1 \in DOMAIN outbound /\ outbound'[i] = outbound[i + 1] /\ i \in Nat
    BY <1>1
  <2>2. CASE outbound[i + 1].type = "shutdown" /\ shutdownSent /\ i + 1 = Len(outbound)
    BY <1>1, <2>1, <2>2
  <2>3. CASE ByteAt(outbound[i + 1], Place(i + 1))
    <3>1. Place(i)' = Place(i + 1)
      BY <2>1, BaseType DEF Place
    <3>2. ByteAt(outbound[i], Place(i))'
      BY <1>2, <2>1, <2>3, <3>1, SMTT(30) DEF ByteAt
    <3>3. QED
      BY <3>2
  <2>4. QED
    BY <2>1, <2>2, <2>3 DEF ByteOrder
<1>4. Place(Len(outbound))' = Place(Len(outbound))
  <2>1. Len(outbound') \in Nat /\ Len(outbound') + 1 = Len(outbound)
    BY <1>1
  <2>2. QED
    BY <2>1, BaseType DEF Place
<1>5. CASE shutdownSent
  <2>1. outbound[Len(outbound)].type = "shutdown" /\ ~halfWritten
        /\ Place(Len(outbound)) = 2 * written + 1
    BY <1>5 DEF AllWaits
  <2>2. Len(outbound) # 1
    BY <2>1
  <2>a. Len(outbound') \in 1 .. Len(outbound) - 1 /\ Len(outbound') + 1 = Len(outbound)
    BY <1>1, <2>2
  <2>b. outbound'[Len(outbound')] = outbound[Len(outbound') + 1]
    BY <1>1, <2>a
  <2>c. outbound'[Len(outbound')] = outbound[Len(outbound)]
    BY <2>a, <2>b, Zenon
  <2>d. Len(outbound') # 0
    BY <2>a
  <2>3. outbound' # <<>> /\ outbound'[Len(outbound')] = outbound[Len(outbound)]
    BY <2>c, <2>d
  <2>4. AllWaits'
    BY <1>4, <1>5, <2>1, <2>3 DEF AllWaits
  <2>5. QED
    BY <1>1, <1>3, <2>4
<1>6. CASE ~shutdownSent
  <2>1. /\ \A i \in DOMAIN outbound : outbound[i].type = "bytes"
        /\ Place(Len(outbound)) = IF halfWritten THEN 2 * written + 1 ELSE 2 * written
    BY <1>6 DEF AllWaits
  <2>2. \A i \in DOMAIN outbound' : outbound'[i].type = "bytes"
    BY <1>1, <2>1
  <2>3. AllWaits'
    BY <1>4, <1>6, <2>1, <2>2 DEF AllWaits
  <2>4. QED
    BY <1>1, <1>3, <2>3
<1>7. QED
  BY <1>5, <1>6

\* The first command is the next byte.
LEMMA NextByte ==
  ASSUME Types, ByteOrder, outbound # <<>>, outbound[1].type = "bytes"
  PROVE  /\ outbound[1].text # <<NewLine>> => lineBuf = <<>> /\ outbound[1].text = <<Len(accepted) + 1>>
                                             /\ Len(accepted) + 1 \in Lines
         /\ outbound[1].text = <<NewLine>> => lineBuf = <<Len(accepted) + 1>>
                                             /\ Len(accepted) + 1 \in Lines
<1>1. 1 \in DOMAIN outbound
  BY ByteFacts DEF ByteOrder
<1>2. ByteAt(outbound[1], Place(1))
  BY <1>1 DEF ByteOrder
<1>3. PICK l \in Lines : \/ Place(1) = 2 * l - 1 /\ outbound[1].text = <<l>>
                         \/ Place(1) = 2 * l /\ outbound[1].text = <<NewLine>>
  BY <1>2 DEF ByteAt
<1>4. l \in Nat \ {0} /\ Len(accepted) \in Nat /\ Len(lineBuf) \in {0, 1}
      /\ Place(1) = 2 * Len(accepted) + Len(lineBuf) + 1
  BY ByteFacts DEF Place, Base
<1>5. CASE Place(1) = 2 * l - 1 /\ outbound[1].text = <<l>>
  <2>1. Len(lineBuf) = 0 /\ l = Len(accepted) + 1
    BY <1>4, <1>5, Parity
  <2>2. lineBuf = <<>>
    BY <2>1 DEF ByteOrder
  <2>3. outbound[1].text # <<NewLine>>
    BY <1>4, <1>5 DEF NewLine
  <2>4. QED
    BY <1>5, <2>1, <2>2, <2>3
<1>6. CASE Place(1) = 2 * l /\ outbound[1].text = <<NewLine>>
  <2>1. Len(lineBuf) = 1 /\ l = Len(accepted) + 1
    BY <1>4, <1>6, Parity
  <2>2. lineBuf = <<Len(accepted) + 1>>
    BY <2>1 DEF ByteOrder
  <2>3. QED
    BY <1>6, <2>1, <2>2
<1>7. QED
  BY <1>3, <1>5, <1>6

LEMMA TakeTextBytes ==
  ASSUME Types, ByteOrder, AllWaits, TakeText
  PROVE  ByteOrder' /\ AllWaits'
<1>1. /\ pc = "select" /\ outbound # <<>> /\ outbound[1].type = "bytes"
      /\ outbound[1].text # <<NewLine>> /\ outbound' = Tail(outbound)
      /\ lineBuf' = lineBuf \o outbound[1].text
      /\ UNCHANGED <<work, shutdownSent, written, halfWritten, accepted>>
  BY DEF TakeText, Command, appVars, srvVars
<1>2. lineBuf = <<>> /\ outbound[1].text = <<Len(accepted) + 1>> /\ Len(accepted) + 1 \in Lines
  BY <1>1, NextByte
<1>3. lineBuf' = <<Len(accepted) + 1>> /\ Len(lineBuf') = 1 /\ Len(lineBuf) = 0
  BY <1>1, <1>2
<1>4. Base' = Base + 1
  BY <1>1, <1>3, ByteFacts DEF Base
<1>5. /\ outbound' \in Seq(Commands)
      /\ \A i \in DOMAIN outbound' :
              \/ outbound'[i].type = "shutdown" /\ shutdownSent' /\ i = Len(outbound')
              \/ ByteAt(outbound[i], Place(i))'
      /\ AllWaits'
  BY <1>1, <1>4, TakeKeeps
<1>6. Lines' = Lines /\ Accepted' = Accepted
  BY <1>1 DEF Lines, Sizes, Accepted
<1>7. \A s \in Accepted' : accepted'[s] = s
  BY <1>1, <1>6 DEF ByteOrder
<1>8. lineBuf' = <<Len(accepted') + 1>> /\ Len(accepted') + 1 \in Lines'
  BY <1>1, <1>2, <1>3, <1>6
<1>9. ByteOrder'
  BY <1>5, <1>7, <1>8 DEF ByteOrder
<1>10. QED
  BY <1>5, <1>9

LEMMA TakeNewLineBytes ==
  ASSUME Types, ByteOrder, AllWaits, TakeNewLine
  PROVE  ByteOrder' /\ AllWaits'
<1>1. /\ pc = "select" /\ outbound # <<>> /\ outbound[1].type = "bytes"
      /\ outbound[1].text = <<NewLine>> /\ outbound' = Tail(outbound) /\ lineBuf' = <<>>
      /\ UNCHANGED <<work, shutdownSent, written, halfWritten>>
      /\ Object(lineBuf) => accepted' = Append(accepted, lineBuf[1])
  BY DEF TakeNewLine, AcceptLine, Command, appVars, srvVars
<1>2. lineBuf = <<Len(accepted) + 1>> /\ Len(accepted) + 1 \in Lines
  BY <1>1, NextByte
<1>3. Object(lineBuf) /\ lineBuf[1] = Len(accepted) + 1 /\ Len(lineBuf) = 1 /\ Len(lineBuf') = 0
  BY <1>1, <1>2 DEF Object
<1>4. accepted \in Seq(Lines)
  BY DEF Types, OutType
<1>5. /\ Len(accepted') = Len(accepted) + 1 /\ DOMAIN accepted' = 1 .. Len(accepted) + 1
      /\ \A s \in 1 .. Len(accepted) : accepted'[s] = accepted[s]
      /\ accepted'[Len(accepted) + 1] = Len(accepted) + 1
  BY <1>1, <1>2, <1>3, <1>4, AppendFacts
<1>6. Base' = Base + 1
  BY <1>3, <1>5, ByteFacts DEF Base
<1>7. /\ outbound' \in Seq(Commands)
      /\ \A i \in DOMAIN outbound' :
              \/ outbound'[i].type = "shutdown" /\ shutdownSent' /\ i = Len(outbound')
              \/ ByteAt(outbound[i], Place(i))'
      /\ AllWaits'
  BY <1>1, <1>6, TakeKeeps
<1>8. \A s \in Accepted' : accepted'[s] = s
  <2>1. \A s \in 1 .. Len(accepted) : accepted'[s] = s
    BY <1>5, ByteFacts DEF ByteOrder
  <2>2. Accepted' = 1 .. Len(accepted) + 1
    BY <1>5 DEF Accepted
  <2>3. QED
    BY <1>5, <2>1, <2>2, ByteFacts
<1>9. ByteOrder'
  BY <1>1, <1>7, <1>8 DEF ByteOrder
<1>10. QED
  BY <1>7, <1>9

\* When the task takes the shutdown, everything written has been accepted.
LEMMA TakeShutdownFacts ==
  ASSUME Types, ByteOrder, AllWaits, TakeShutdown
  PROVE  written = Len(accepted) /\ outbound' = <<>>
<1>1. pc = "select" /\ outbound # <<>> /\ outbound[1].type = "shutdown" /\ outbound' = Tail(outbound)
  BY DEF TakeShutdown, Command
<1>2. 1 \in DOMAIN outbound
  BY <1>1, ByteFacts DEF ByteOrder
<1>3. shutdownSent /\ Len(outbound) = 1
  BY <1>1, <1>2 DEF ByteOrder, ByteAt
<1>4. Place(1) = 2 * written + 1
  BY <1>1, <1>3 DEF AllWaits
<1>5. written = Len(accepted)
  <2>1. written \in Nat
    BY TypeBounds DEF Types, AppType
  <2>2. Len(accepted) \in Nat /\ Len(lineBuf) \in {0, 1}
    BY ByteFacts
  <2>3. 2 * Len(accepted) + Len(lineBuf) + 1 = 2 * written + 1
    BY <1>4 DEF Place, Base
  <2>4. QED
    BY <2>1, <2>2, <2>3, Parity
<1>6. outbound' = <<>>
  BY <1>1, <1>3 DEF ByteOrder
<1>7. QED
  BY <1>5, <1>6

LEMMA TakeShutdownBytes ==
  ASSUME Types, ByteOrder, AllWaits, TakeShutdown
  PROVE  ByteOrder' /\ AllWaits'
<1>1. /\ UNCHANGED <<work, lineBuf, accepted>> /\ pc' = "done" /\ outbound' = <<>>
  BY TakeShutdownFacts DEF TakeShutdown, srvVars
<1>2. Lines' = Lines /\ Accepted' = Accepted
  BY <1>1 DEF Lines, Sizes, Accepted
<1>3. outbound' \in Seq(Commands) /\ DOMAIN outbound' = {}
  BY <1>1
<1>4. ByteOrder'
  BY <1>1, <1>2, <1>3 DEF ByteOrder
<1>5. QED
  BY <1>1, <1>4 DEF AllWaits

LEMMA StepBytes ==
  ASSUME Types, ByteOrder, AllWaits, Next
  PROVE  ByteOrder' /\ AllWaits'
BY BytesSameSteps, BytesSameKeeps, WriteTextBytes, WriteNewLineBytes, ShutdownBytes,
   DropStreamBytes, TakeTextBytes, TakeNewLineBytes, TakeShutdownBytes
   DEF Next, Application, Outbound

-----------------------------------------------------------------------------

LEMMA WrittenNat ==
  ASSUME Types
  PROVE  written \in Nat
BY TypeBounds DEF Types, AppType

LEMMA ClosedAfterAllFollows ==
  ASSUME Types, ByteOrder, ClosedInv
  PROVE  ClosedAfterAll
<1> SUFFICES ASSUME srvClosed, NEW l \in 1 .. written
             PROVE  \E s \in DOMAIN accepted : accepted[s] = l /\ s \in Range(srvGot) \cup cut
  BY DEF ClosedAfterAll
<1>1. written <= Len(accepted) /\ \A s \in Accepted \ cut : s \in Range(srvGot)
  BY DEF ClosedInv
<1>2. l \in Accepted
  BY <1>1, ByteFacts, WrittenNat
<1>3. accepted[l] = l /\ l \in Range(srvGot) \cup cut
  BY <1>1, <1>2 DEF ByteOrder
<1>4. QED
  BY <1>2, <1>3 DEF Accepted

\* The steps that put no ClientClosed on the wire and take nothing from it.
ClosedSame ==
  /\ UNCHANGED <<work, srvSegs, srvGot, srvClosed>>
  /\ pc = "done" => pc' = "done" /\ UNCHANGED <<written, accepted, cut>>
  /\ \/ toServer' = <<>>
     \/ /\ \A k \in DOMAIN toServer : k \in DOMAIN toServer' /\ toServer'[k] = toServer[k]
        /\ \A k \in DOMAIN toServer' : k \in DOMAIN toServer \/ toServer'[k].type # "closed"

LEMMA TransmitOpen ==
  ASSUME Types, NEW e \in Envelopes, e.type # "closed", Transmit(e)
  PROVE  /\ \A k \in DOMAIN toServer : k \in DOMAIN toServer' /\ toServer'[k] = toServer[k]
         /\ \A k \in DOMAIN toServer' : k \in DOMAIN toServer \/ toServer'[k].type # "closed"
<1>1. toServer \in Seq(Envelopes)
  BY DEF Types, OutType
<1>2. CASE toServer' = toServer
  BY <1>2
<1>3. CASE toServer' = Append(toServer, e)
  BY <1>1, <1>3, AppendFacts
<1>4. QED
  BY <1>2, <1>3 DEF Transmit

LEMMA ClosedSameSteps ==
  ASSUME Types, Next, ~TakeShutdown, ~RelayReceives
  PROVE  ClosedSame
<1>1. CASE WriteText \/ WriteNewLine \/ Shutdown \/ DropStream
  BY <1>1 DEF WriteText, WriteNewLine, Shutdown, DropStream, ClosedSame, outVars, srvVars, netVars
<1>2. CASE Establish /\ ~Replay
  BY <1>2 DEF Establish, Connect, Handshake, HandshakeFails, ReplayFails, StartSelect,
       WakeUp, GiveUp, ClosedSame, srvVars, netVars
<1>3. CASE Replay
  <2>1. replayQ[replayIdx] \in Pieces
    BY <1>3, TypeBounds DEF Replay, Types, OutType, TaskType
  <2>2. replayQ[replayIdx] \in Envelopes /\ replayQ[replayIdx].type # "closed"
    BY <2>1 DEF Pieces, Envelopes
  <2>3. QED
    BY <1>3, <2>2, TransmitOpen DEF Replay, ClosedSame, srvVars
<1>4. CASE TakeText \/ TakeNewLine
  BY <1>4 DEF TakeText, TakeNewLine, ClosedSame, srvVars, netVars
<1>5. CASE SendSegment
  <2>1. pending[1] \in Pieces
    BY <1>5, TypeBounds DEF SendSegment, Types, OutType, TaskType
  <2>2. pending[1] \in Envelopes /\ pending[1].type # "closed"
    BY <2>1 DEF Pieces, Envelopes
  <2>3. QED
    BY <1>5, <2>2, TransmitOpen DEF SendSegment, ClosedSame, srvVars
<1>6. CASE SendSegmentFails
  BY <1>6 DEF SendSegmentFails, ClosedSame, srvVars, netVars
<1>7. CASE Inbound
  BY <1>7 DEF Inbound, ReceiveEntry, ReceiveAck, ReceivePong, StreamEnds, ClosedSame, srvVars,
       netVars
<1>8. CASE PingTick
  BY <1>8, TransmitOpen, TypeBounds DEF PingTick, Ping, ClosedSame, srvVars
<1>9. CASE PongTimeout \/ Network
  BY <1>9 DEF Network, PongTimeout, ConnectFails, Break, HalfOpen, KernelGivesUp, GiveUp,
       ClosedSame, outVars, srvVars, netVars, taskVars
<1>10. CASE RelaySends
  BY <1>10 DEF RelaySends, ClosedSame, appVars, outVars, taskVars
<1>11. QED
  BY <1>1, <1>2, <1>3, <1>4, <1>5, <1>6, <1>7, <1>8, <1>9, <1>10
     DEF Next, Application, Outbound, Timers, Relay

LEMMA ClosedSameKeeps ==
  ASSUME Types, ClosedInv, ClosedSame
  PROVE  ClosedInv'
<1>1. ASSUME NEW k \in DOMAIN toServer', toServer'[k].type = "closed"
      PROVE  /\ k \in DOMAIN toServer /\ toServer[k] = toServer'[k]
             /\ \A j \in DOMAIN toServer : j \in DOMAIN toServer' /\ toServer'[j] = toServer[j]
  BY <1>1 DEF ClosedSame
<1>2. CASE pc # "done"
  <2>1. \A k \in DOMAIN toServer : toServer[k].type # "closed"
    BY <1>2 DEF ClosedInv
  <2>2. ~srvClosed
    BY <1>2 DEF ClosedInv
  <2>3. QED
    BY <1>1, <2>1, <2>2 DEF ClosedInv, ClosedSame
<1>3. CASE pc = "done"
  <2>1. pc' = "done" /\ UNCHANGED <<work, written, accepted, cut, srvSegs, srvGot, srvClosed>>
    BY <1>3 DEF ClosedSame
  <2>2. Accepted' = Accepted /\ \A s : Segs(s)' = Segs(s)
    BY <2>1, SameMessages
  <2>3. ASSUME NEW k \in DOMAIN toServer', toServer'[k].type = "closed",
               NEW s \in Accepted \ cut, NEW g \in Segs(s)
        PROVE  \/ g \in srvSegs
               \/ \E j \in DOMAIN toServer' : j < k /\ IsPiece(toServer'[j]) /\ Pair(toServer'[j]) = g
    <3>1. CASE g \in srvSegs
      BY <3>1
    <3>2. CASE g \notin srvSegs
      <4>1. k \in DOMAIN toServer /\ toServer[k].type = "closed"
        BY <1>1, <2>3
      <4>2. PICK j \in DOMAIN toServer : j < k /\ IsPiece(toServer[j]) /\ Pair(toServer[j]) = g
        BY <3>2, <4>1 DEF ClosedInv
      <4>3. j \in DOMAIN toServer' /\ toServer'[j] = toServer[j]
        BY <1>1, <2>3
      <4>4. QED
        BY <4>2, <4>3
    <3>3. QED
      BY <3>1, <3>2
  <2>4. \A k \in DOMAIN toServer' : toServer'[k].type = "closed" => written <= Len(accepted)
    BY <1>1 DEF ClosedInv
  <2>5. srvClosed => /\ written <= Len(accepted)
                     /\ \A s \in Accepted \ cut : s \in Range(srvGot)
    BY DEF ClosedInv
  <2>6. QED
    BY <2>1, <2>2, <2>3, <2>4, <2>5 DEF ClosedInv
<1>4. QED
  BY <1>2, <1>3

LEMMA TakeShutdownCloses ==
  ASSUME StreamInv, ByteOrder, AllWaits, ClosedInv, TakeShutdown
  PROVE  ClosedInv'
<1>1. /\ pc = "select" /\ pc' = "done" /\ Transmit(ClientClosed(nextSeq))
      /\ UNCHANGED <<work, written, accepted, cut, srvSegs, srvGot, srvClosed>>
  BY DEF TakeShutdown, appVars, srvVars
<1>2. /\ \A k \in DOMAIN toServer : toServer[k].type # "closed"
      /\ ~srvClosed
  BY <1>1 DEF ClosedInv
<1>3. written \in Nat /\ written <= Len(accepted)
  <2>1. Types
    BY DEF StreamInv
  <2>2. written \in Nat /\ written = Len(accepted)
    BY <2>1, WrittenNat, TakeShutdownFacts
  <2>3. QED
    BY <2>2
<1>4. Accepted' = Accepted /\ \A s : Segs(s)' = Segs(s)
  BY <1>1, SameMessages
<1>5. CASE toServer' = toServer
  BY <1>1, <1>2, <1>5 DEF ClosedInv
<1>6. CASE sock = "up" /\ toServer' = Append(toServer, ClientClosed(nextSeq))
  <2>1. /\ DOMAIN toServer' = 1 .. Len(toServer) + 1 /\ DOMAIN toServer = 1 .. Len(toServer)
        /\ Len(toServer) \in Nat /\ \A i \in 1 .. Len(toServer) : toServer'[i] = toServer[i]
    BY <1>6, Sequenced, TypeBounds, AppendFacts DEF StreamInv
  <2>2. ASSUME NEW s \in Accepted \ cut, NEW g \in Segs(s)
        PROVE  \/ g \in srvSegs
               \/ \E j \in DOMAIN toServer : IsPiece(toServer[j]) /\ Pair(toServer[j]) = g
    <3>1. pending = <<>>
      BY <1>1 DEF StreamInv, NumberInv
    <3>2. g \notin Wire(pending)
      BY <3>1, WireFacts
    <3>3. CASE g \in Wire(replayQ)
      <4>1. PICK i \in DOMAIN replayQ : Pair(replayQ[i]) = g
        BY <3>3, WireFacts
      <4>2. OnWay(g)
        BY <1>1, <1>6, <4>1 DEF StreamInv, SentInv
      <4>3. QED
        BY <4>2, SentFacts DEF OnWay
    <3>4. QED
      BY <3>2, <3>3, PiecesKept
  <2>3. ASSUME NEW k \in DOMAIN toServer', toServer'[k].type = "closed",
               NEW s \in Accepted \ cut, NEW g \in Segs(s)
        PROVE  \/ g \in srvSegs
               \/ \E j \in DOMAIN toServer' : j < k /\ IsPiece(toServer'[j]) /\ Pair(toServer'[j]) = g
    <3>1. CASE g \in srvSegs
      BY <3>1
    <3>2. CASE g \notin srvSegs
      <4>1. PICK j \in DOMAIN toServer : IsPiece(toServer[j]) /\ Pair(toServer[j]) = g
        BY <2>2, <3>2
      <4>2. k = Len(toServer) + 1
        BY <1>2, <2>1, <2>3
      <4>3. j \in DOMAIN toServer' /\ toServer'[j] = toServer[j] /\ j < k
        BY <2>1, <4>2
      <4>4. QED
        BY <4>1, <4>3
    <3>3. QED
      BY <3>1, <3>2
  <2>4. QED
    BY <1>1, <1>2, <1>3, <1>4, <2>3 DEF ClosedInv
<1>7. QED
  BY <1>1, <1>5, <1>6 DEF Transmit

LEMMA RelayReceivesCloses ==
  ASSUME StreamInv, StreamInv', ClosedInv, RelayReceives
  PROVE  ClosedInv'
<1>a. PICK e : e = toServer[1]
  OBVIOUS
<1>1. /\ toServer # <<>> /\ toServer' = Tail(toServer)
      /\ UNCHANGED <<work, written, accepted, cut, pc>>
  BY DEF RelayReceives, appVars, outVars, taskVars
<1>2. srvSegs' = IF IsPiece(e) THEN srvSegs \cup {Pair(e)} ELSE srvSegs
  BY <1>a, TakePiece, TakeOther
<1>3. /\ \A k \in DOMAIN toServer' : k + 1 \in DOMAIN toServer /\ toServer'[k] = toServer[k + 1]
      /\ \A j \in DOMAIN toServer :
           j # 1 => j - 1 \in DOMAIN toServer' /\ toServer'[j - 1] = toServer[j]
  BY <1>a, <1>1, <1>2, TakenFacts
<1>4. /\ \A j \in DOMAIN toServer : j \in Nat \ {0}
      /\ \A j \in DOMAIN toServer' : j \in Nat \ {0}
      /\ 1 \in DOMAIN toServer
  <2>1. DOMAIN toServer = 1 .. Len(toServer) /\ DOMAIN toServer' = 1 .. Len(toServer')
    BY Sequenced DEF StreamInv, Types, OutType
  <2>2. 1 \in DOMAIN toServer
    BY <1>1, Sequenced, TailFacts
  <2>3. QED
    BY <2>1, <2>2
<1>5. Accepted' = Accepted /\ \A s : Segs(s)' = Segs(s)
  BY <1>1, SameMessages
<1>6. ASSUME NEW k \in DOMAIN toServer', toServer'[k].type = "closed"
      PROVE  /\ pc' = "done" /\ written' <= Len(accepted')
             /\ \A s \in Accepted \ cut : \A g \in Segs(s) :
                  \/ g \in srvSegs'
                  \/ \E j \in DOMAIN toServer' : j < k /\ IsPiece(toServer'[j]) /\ Pair(toServer'[j]) = g
  <2>1. k + 1 \in DOMAIN toServer /\ toServer[k + 1].type = "closed"
    BY <1>3, <1>6
  <2>2. ASSUME NEW s \in Accepted \ cut, NEW g \in Segs(s), g \notin srvSegs'
        PROVE  \E j \in DOMAIN toServer' : j < k /\ IsPiece(toServer'[j]) /\ Pair(toServer'[j]) = g
    <3>1. PICK j \in DOMAIN toServer : j < k + 1 /\ IsPiece(toServer[j]) /\ Pair(toServer[j]) = g
      BY <1>2, <2>1, <2>2 DEF ClosedInv
    <3>2. j # 1
      BY <1>a, <1>2, <2>2, <3>1
    <3>3. j - 1 \in DOMAIN toServer' /\ toServer'[j - 1] = toServer[j]
      BY <1>3, <3>2
    <3>4. j - 1 < k
      BY <1>4, <3>1
    <3>5. QED
      BY <3>1, <3>3, <3>4
  <2>3. QED
    BY <1>1, <2>1, <2>2 DEF ClosedInv
<1>7. ASSUME srvClosed'
      PROVE  /\ pc' = "done" /\ written' <= Len(accepted')
             /\ \A s \in Accepted \ cut : s \in Range(srvGot')
  <2>1. CASE srvClosed
    <3>1. Range(srvGot) \subseteq Range(srvGot')
      BY <1>a, AppendKeepsRange, TakePiece, TakeOther, Sequenced
    <3>2. QED
      BY <1>1, <2>1, <3>1 DEF ClosedInv
  <2>2. CASE ~srvClosed
    <3>1. e.type = "closed" /\ UNCHANGED <<srvSegs, srvGot>>
      BY <1>a, <1>7, <2>2 DEF RelayReceives
    <3>2. ASSUME NEW s \in Accepted \ cut PROVE s \in Range(srvGot)
      <4>1. ASSUME NEW g \in Segs(s) PROVE g \in srvSegs
        <5>1. \A j \in DOMAIN toServer : ~(j < 1)
          BY <1>4
        <5>2. QED
          BY <1>a, <1>4, <3>1, <5>1 DEF ClosedInv
      <4>2. QED
        BY <4>1 DEF StreamInv, GotInv
    <3>3. QED
      BY <1>a, <1>1, <1>4, <3>1, <3>2 DEF ClosedInv
  <2>3. QED
    BY <2>1, <2>2
<1>8. QED
  BY <1>1, <1>5, <1>6, <1>7 DEF ClosedInv

EndInv == ByteOrder /\ AllWaits /\ ClosedInv

LEMMA InitEnd == Init => EndInv
<1> SUFFICES ASSUME Init PROVE EndInv
  OBVIOUS
<1>1. accepted = <<>> /\ lineBuf = <<>> /\ outbound = <<>> /\ toServer = <<>>
  BY DEF Init
<1>2. Len(accepted) = 0 /\ Len(lineBuf) = 0 /\ Len(outbound) = 0 /\ Accepted = {}
      /\ DOMAIN outbound = {} /\ DOMAIN toServer = {} /\ outbound \in Seq(Commands)
  BY <1>1 DEF Accepted
<1>3. ByteOrder
  BY <1>1, <1>2 DEF ByteOrder
<1>4. AllWaits
  BY <1>2 DEF AllWaits, Place, Base, Init
<1>5. ClosedInv
  BY <1>2 DEF ClosedInv, Init
<1>6. QED
  BY <1>3, <1>4, <1>5 DEF EndInv

LEMMA StepEnd == StreamInv /\ StreamInv' /\ EndInv /\ [Next]_vars => EndInv'
<1> SUFFICES ASSUME StreamInv, StreamInv', EndInv, [Next]_vars PROVE EndInv'
  OBVIOUS
<1>1. CASE Next
  <2>1. ByteOrder' /\ AllWaits'
    BY <1>1, StepBytes DEF EndInv, StreamInv
  <2>2. ClosedInv'
    BY <1>1, ClosedSameSteps, ClosedSameKeeps, TakeShutdownCloses, RelayReceivesCloses
       DEF EndInv, StreamInv
  <2>3. QED
    BY <2>1, <2>2 DEF EndInv
<1>2. CASE UNCHANGED vars
  <2>1. BytesSame /\ ClosedSame
    BY <1>2 DEF vars, BytesSame, ClosedSame, appVars, outVars, srvVars, netVars, taskVars
  <2>2. QED
    BY <2>1, BytesSameKeeps, ClosedSameKeeps DEF EndInv, StreamInv
<1>3. QED
  BY <1>1, <1>2

\* However connections break and replays are cut short, the relay that learns of
\* the close has every message written before, or it was abandoned.
THEOREM ClosedAfterAllHolds == Spec => []ClosedAfterAll
<1>1. StreamInv /\ EndInv => ClosedAfterAll
  BY ClosedAfterAllFollows DEF StreamInv, EndInv
<1>2. QED
  BY <1>1, InitEnd, StepEnd, StreamAlways, PTL DEF Spec
-----------------------------------------------------------------------------
(* What the relay sends.                                                   *)

IsEntry(a) == a.type = "log"
Plain(p)   == ServerLog[p].fault = "none"

LEMMA LogFacts ==
  ASSUME Types
  PROVE  /\ WholeMessages(ServerLog) /\ Len(ServerLog) \in Nat
         /\ DOMAIN ServerLog = 1 .. Len(ServerLog)
         /\ \A p \in DOMAIN ServerLog :
              /\ ServerLog[p].msg \in Messages /\ ServerLog[p].count \in Nat \ {0}
              /\ ServerLog[p].cursor \in BOOLEAN
              /\ ServerLog[p].fault \in {"none", "frame", "index", "garbled"}
              /\ p \in EntriesOf(ServerLog, ServerLog[p].msg)
<1>1. work \in Workloads
  BY DEF Types, OutType
<1>2. ServerLog \in Seq(LogEntry) /\ WholeMessages(ServerLog)
  BY <1>1, SlingshotAssumption DEF ServerLog
<1>3. Len(ServerLog) \in Nat /\ DOMAIN ServerLog = 1 .. Len(ServerLog)
      /\ \A p \in DOMAIN ServerLog : ServerLog[p] \in LogEntry
  BY <1>2
<1>4. QED
  BY <1>2, <1>3 DEF LogEntry, Messages, EntriesOf

LEMMA EntriesFinite ==
  ASSUME Types, NEW m
  PROVE  /\ IsFiniteSet(EntriesOf(ServerLog, m)) /\ Cardinality(EntriesOf(ServerLog, m)) \in Nat
         /\ EntriesOf(ServerLog, m) \subseteq Nat
<1>1. Len(ServerLog) \in Nat /\ DOMAIN ServerLog = 1 .. Len(ServerLog)
  BY LogFacts
<1>2. IsFiniteSet(1 .. Len(ServerLog))
  BY <1>1, FS_Interval
<1>3. EntriesOf(ServerLog, m) \in SUBSET (1 .. Len(ServerLog))
  BY <1>1 DEF EntriesOf
<1>4. QED
  BY <1>1, <1>2, <1>3, FS_Subset, FS_CardinalityType

\* A message of the log has a last envelope.
LEMMA LastPosFacts ==
  ASSUME Types, NEW m \in Messages
  PROVE  /\ LastPos(m) \in EntriesOf(ServerLog, m) /\ LastPos(m) \in DOMAIN ServerLog
         /\ \A q \in EntriesOf(ServerLog, m) : q <= LastPos(m)
<1> DEFINE n == Len(ServerLog)
           P == EntriesOf(ServerLog, m)
           f == [i \in 1 .. n |-> [seq |-> IF \E j \in P : i <= j THEN 0 ELSE 1]]
<1>1. n \in Nat /\ DOMAIN ServerLog = 1 .. n
  BY LogFacts
<1>2. P \subseteq 1 .. n /\ P # {}
  BY <1>1 DEF EntriesOf, Messages
<1> HIDE DEF n, P
<1>3. \E k \in 0 .. n : \A i \in DOMAIN f : i <= k <=> f[i].seq <= 0
  <2>1. DOMAIN f = 1 .. n /\ \A i \in DOMAIN f : f[i].seq \in Nat
    OBVIOUS
  <2>2. ASSUME NEW i \in DOMAIN f, NEW j \in DOMAIN f, i <= j PROVE f[i].seq <= f[j].seq
    <3>1. CASE \E k \in P : j <= k
      <4>1. PICK k \in P : j <= k
        BY <3>1
      <4>2. k \in Nat /\ i \in Nat /\ j \in Nat
        BY <1>2
      <4>3. i <= k
        BY <2>2, <4>1, <4>2
      <4>4. QED
        BY <4>1, <4>3
    <3>2. CASE ~\E k \in P : j <= k
      BY <3>2
    <3>3. QED
      BY <3>1, <3>2
  <2> HIDE DEF f
  <2>3. QED
    BY <1>1, <2>1, <2>2, ThresholdExists
<1>4. PICK k \in 0 .. n : \A i \in DOMAIN f : i <= k <=> f[i].seq <= 0
  BY <1>3
<1>5. ASSUME NEW i \in 1 .. n PROVE i <= k <=> \E j \in P : i <= j
  <2>1. i <= k <=> f[i].seq <= 0
    BY <1>4
  <2>2. CASE \E j \in P : i <= j
    <3>1. f[i].seq = 0
      BY <2>2
    <3>2. QED
      BY <2>1, <2>2, <3>1
  <2>3. CASE ~\E j \in P : i <= j
    <3>1. f[i].seq = 1
      BY <2>3
    <3>2. QED
      BY <2>1, <2>3, <3>1
  <2>4. QED
    BY <2>2, <2>3
<1>6. \A j \in P : j <= k
  BY <1>2, <1>5
<1>7. k \in 1 .. n
  <2>1. PICK j \in P : j \in 1 .. n
    BY <1>2
  <2>2. j <= k
    BY <1>6
  <2>3. QED
    BY <1>1, <2>1, <2>2
<1>8. PICK j \in P : k <= j
  BY <1>5, <1>7
<1>9. k \in P
  <2>1. j <= k /\ j \in Nat /\ k \in Nat
    BY <1>2, <1>6, <1>7, <1>8
  <2>2. QED
    BY <1>8, <2>1
<1>10. \E p \in DOMAIN ServerLog :
          /\ ServerLog[p].msg = m
          /\ \A q \in DOMAIN ServerLog : ServerLog[q].msg = m => q <= p
  BY <1>6, <1>9 DEF P, EntriesOf
<1>11. /\ LastPos(m) \in DOMAIN ServerLog /\ ServerLog[LastPos(m)].msg = m
       /\ \A q \in DOMAIN ServerLog : ServerLog[q].msg = m => q <= LastPos(m)
  BY <1>10 DEF LastPos
<1>12. QED
  BY <1>11 DEF EntriesOf

\* The chunks of a sound message have as many indices as the log has envelopes of it.
LEMMA SoundIndices ==
  ASSUME Types, NEW m, ~Faulty(m)
  PROVE  LET I == {ServerLog[p].seg : p \in EntriesOf(ServerLog, m)}
         IN  IsFiniteSet(I) /\ Cardinality(I) = Cardinality(EntriesOf(ServerLog, m))
<1> DEFINE P == EntriesOf(ServerLog, m)
           I == {ServerLog[p].seg : p \in P}
           f == [p \in P |-> ServerLog[p].seg]
<1>1. IsFiniteSet(P)
  BY EntriesFinite
<1>2. \A p \in P : p \in DOMAIN ServerLog /\ ServerLog[p].msg = m /\ Plain(p)
  BY DEF Faulty, EntriesOf, Plain
<1>3. ASSUME NEW p \in P, NEW q \in P, f[p] = f[q] PROVE p = q
  <2>1. ServerLog[p].seg = ServerLog[q].seg
    BY <1>3
  <2>2. QED
    BY <1>2, <2>1, LogFacts DEF WholeMessages, Plain
<1> HIDE DEF P
<1>4. f \in [P -> I] /\ \A i \in I : \E p \in P : f[p] = i
  OBVIOUS
<1> HIDE DEF I, f
<1>5. f \in Bijection(P, I)
  BY <1>3, <1>4 DEF Bijection, Injection, Surjection, IsInjective
<1>6. ExistsBijection(P, I)
  BY <1>5 DEF ExistsBijection
<1>7. IsFiniteSet(I) /\ Cardinality(I) = Cardinality(P)
  BY <1>1, <1>6, FS_Bijection
<1>8. QED
  BY <1>7 DEF P, I

\* As many indices of sound envelopes as a message has envelopes are all of them,
\* and all are sound.
LEMMA AllIndices ==
  ASSUME Types, NEW m, NEW segs, IsFiniteSet(segs),
         Cardinality(segs) = Cardinality(EntriesOf(ServerLog, m)),
         \A s \in segs : \E p \in EntriesOf(ServerLog, m) : Plain(p) /\ ServerLog[p].seg = s
  PROVE  \A p \in EntriesOf(ServerLog, m) : Plain(p) /\ ServerLog[p].seg \in segs
<1> DEFINE P == EntriesOf(ServerLog, m)
           f == [s \in segs |-> CHOOSE p \in P : Plain(p) /\ ServerLog[p].seg = s]
<1>1. IsFiniteSet(P)
  BY EntriesFinite
<1> HIDE DEF P
<1>2. \A s \in segs : f[s] \in P /\ Plain(f[s]) /\ ServerLog[f[s]].seg = s
  BY DEF P
<1>3. f \in [segs -> P]
  BY <1>2
<1> HIDE DEF f
<1>4. f \in Injection(segs, P)
  BY <1>2, <1>3 DEF Injection, IsInjective
<1>5. f \in Surjection(segs, P)
  BY <1>1, <1>4, FS_Injection DEF P
<1>6. \A p \in P : \E s \in segs : f[s] = p
  BY <1>5 DEF Surjection
<1>7. QED
  BY <1>2, <1>6 DEF P
-----------------------------------------------------------------------------
(* The invariant of the inbound half.                                      *)

Got(m) == m \in Range(delivered)

\* The envelope at p is dealt with: its message was delivered, or is no good, or
\* its chunk is in the assembly.
Done(p) == LET m == ServerLog[p].msg
           IN  Faulty(m) \/ Got(m) \/ (m \in DOMAIN assemblies /\ ServerLog[p].seg \in assemblies[m].segs)

\* On a connection the log arrives in its order from behind the cursor, and
\* nothing of it is skipped.
FlowInv ==
  /\ \A k \in DOMAIN toClient : IsEntry(toClient[k]) =>
       cursor < toClient[k].pos /\ toClient[k].pos <= srvPos
  /\ \A j, k \in DOMAIN toClient : j < k /\ IsEntry(toClient[j]) /\ IsEntry(toClient[k]) =>
       toClient[j].pos < toClient[k].pos
  /\ \A p \in 1 .. srvPos : Done(p) \/ \E k \in DOMAIN toClient : IsEntry(toClient[k]) /\ toClient[k].pos = p

SockInv ==
  /\ toClient # <<>> /\ pc # "done" => sock = "up"
  /\ sock = "up" => cursor <= srvPos

\* What an assembly holds came from envelopes of its message; an index of a sound
\* one whose envelope carries a cursor is behind the cursor.
AsmOf(m, a) ==
  /\ m \in Messages /\ a.garbled \in BOOLEAN
  /\ IsFiniteSet(a.segs) /\ a.count \in Nat /\ Cardinality(a.segs) < a.count
  /\ ~Faulty(m) => a.count = Cardinality(EntriesOf(ServerLog, m)) /\ ~a.garbled
  /\ ~a.garbled => \A s \in a.segs : \E p \in EntriesOf(ServerLog, m) :
                     Plain(p) /\ ServerLog[p].seg = s /\ (ServerLog[p].cursor => p <= cursor)
AsmInv == \A m \in DOMAIN assemblies : AsmOf(m, assemblies[m])

\* What was delivered is in the log and, when its last envelope carries a cursor,
\* ends at or before the cursor.
LastInv ==
  /\ delivered \in Seq(Nat) /\ twice \subseteq Range(delivered)
  /\ \A m \in Range(delivered) : m \in Messages /\ (ServerLog[LastPos(m)].cursor => LastPos(m) <= cursor)

ReadInv ==
  /\ SockInv /\ (sock = "up" => FlowInv)
  /\ \A p \in 1 .. cursor : Done(p)
  /\ AsmInv /\ LastInv /\ TwiceOnlyWithoutCursor

LEMMA CursorCoversFollows ==
  ASSUME Types, ReadInv
  PROVE  CursorCoversDelivery
<1> SUFFICES ASSUME NEW m \in Messages, LastPos(m) <= cursor, ~Faulty(m), ~Got(m) PROVE FALSE
  BY DEF CursorCoversDelivery, Got
<1> DEFINE P == EntriesOf(ServerLog, m)
           I == {ServerLog[p].seg : p \in P}
<1>1. cursor \in Nat
  BY TypeBounds DEF Types, InType
<1>2. ASSUME NEW p \in P
      PROVE  m \in DOMAIN assemblies /\ ServerLog[p].seg \in assemblies[m].segs
  <2>1. p \in DOMAIN ServerLog /\ ServerLog[p].msg = m /\ p <= LastPos(m)
    BY <1>2, LastPosFacts DEF EntriesOf
  <2>2. p \in 1 .. cursor
    BY <1>1, <2>1, LogFacts, LastPosFacts
  <2>3. QED
    BY <2>1, <2>2 DEF ReadInv, Done
<1>3. m \in DOMAIN assemblies
  BY <1>2, LastPosFacts
<1>4. AsmOf(m, assemblies[m])
  BY <1>3 DEF ReadInv, AsmInv
<1>5. I \subseteq assemblies[m].segs
  BY <1>2
<1>6. Cardinality(I) <= Cardinality(assemblies[m].segs)
  BY <1>4, <1>5, FS_Subset DEF AsmOf
<1>7. Cardinality(I) = Cardinality(P)
  BY SoundIndices
<1>8. Cardinality(assemblies[m].segs) < Cardinality(P) /\ Cardinality(P) \in Nat
  BY <1>4, EntriesFinite DEF AsmOf
<1>9. Cardinality(assemblies[m].segs) \in Nat
  BY <1>4, FS_CardinalityType DEF AsmOf
<1>10. QED
  BY <1>6, <1>7, <1>8, <1>9

LEMMA LogSame ==
  ASSUME UNCHANGED work
  PROVE  /\ ServerLog' = ServerLog /\ Messages' = Messages
         /\ \A m : LastPos(m)' = LastPos(m) /\ (Faulty(m)' <=> Faulty(m))
         /\ \A p : Plain(p)' <=> Plain(p)
BY DEF ServerLog, Messages, LastPos, Faulty, Plain

LEMMA DoneSame ==
  ASSUME UNCHANGED <<work, delivered, assemblies>>
  PROVE  \A p : Done(p)' <=> Done(p)
BY LogSame DEF Done, Got

\* The task, or whoever, takes the first of what the relay sent.
LEMMA FlowTail ==
  ASSUME Types, FlowInv, UNCHANGED <<work, srvPos>>, toClient # <<>>, toClient' = Tail(toClient),
         \A p \in 1 .. srvPos : Done(p) => Done(p)',
         \A q : IsEntry(toClient[1]) /\ q = toClient[1].pos => Done(q)',
         cursor' = cursor \/ (IsEntry(toClient[1]) /\ cursor' = toClient[1].pos)
  PROVE  FlowInv'
<1>0. toClient \in Seq(Answers)
  BY DEF Types, InType
<1>1. /\ 1 \in DOMAIN toClient /\ DOMAIN toClient' = 1 .. Len(toClient) - 1
      /\ DOMAIN toClient = 1 .. Len(toClient) /\ Len(toClient) \in Nat \ {0}
      /\ \A i \in 1 .. Len(toClient) - 1 : toClient'[i] = toClient[i + 1]
  BY <1>0, TailFacts
<1>2. \A k \in DOMAIN toClient' : k + 1 \in DOMAIN toClient /\ toClient'[k] = toClient[k + 1]
                                  /\ 1 < k + 1 /\ k \in Nat
  BY <1>1
<1>3. ASSUME NEW k \in DOMAIN toClient', IsEntry(toClient'[k])
      PROVE  cursor' < toClient'[k].pos /\ toClient'[k].pos <= srvPos
  BY <1>1, <1>2, <1>3 DEF FlowInv
<1>4. ASSUME NEW j \in DOMAIN toClient', NEW k \in DOMAIN toClient', j < k,
             IsEntry(toClient'[j]), IsEntry(toClient'[k])
      PROVE  toClient'[j].pos < toClient'[k].pos
  <2>1. j + 1 < k + 1
    BY <1>2, <1>4
  <2>2. QED
    BY <1>2, <1>4, <2>1 DEF FlowInv
<1>5. ASSUME NEW p \in 1 .. srvPos
      PROVE  Done(p)' \/ \E k \in DOMAIN toClient' : IsEntry(toClient'[k]) /\ toClient'[k].pos = p
  <2>1. CASE Done(p)
    BY <2>1
  <2>2. CASE ~Done(p)
    <3>1. PICK k \in DOMAIN toClient : IsEntry(toClient[k]) /\ toClient[k].pos = p
      BY <2>2 DEF FlowInv
    <3>2. CASE k = 1
      BY <3>1, <3>2
    <3>3. CASE k # 1
      <4>1. k - 1 \in DOMAIN toClient' /\ toClient'[k - 1] = toClient[k]
        BY <1>1, <3>3
      <4>2. QED
        BY <3>1, <4>1
    <3>4. QED
      BY <3>2, <3>3
  <2>3. QED
    BY <2>1, <2>2
<1>6. QED
  BY <1>3, <1>4, <1>5 DEF FlowInv

\* The relay sends an answer that is no envelope of the log, or the next one.
LEMMA FlowAppend ==
  ASSUME Types, FlowInv, cursor <= srvPos, UNCHANGED <<work, cursor, delivered, assemblies>>, NEW a \in Answers,
         toClient' = Append(toClient, a),
         \/ ~IsEntry(a) /\ srvPos' = srvPos
         \/ IsEntry(a) /\ srvPos' = srvPos + 1 /\ a.pos = srvPos + 1
  PROVE  FlowInv'
<1>0. toClient \in Seq(Answers) /\ cursor \in Nat /\ srvPos \in Nat
  BY TypeBounds DEF Types, InType
<1> DEFINE n == Len(toClient)
<1>1. /\ DOMAIN toClient' = 1 .. n + 1 /\ DOMAIN toClient = 1 .. n /\ n \in Nat
      /\ toClient'[n + 1] = a /\ \A i \in 1 .. n : toClient'[i] = toClient[i]
  BY <1>0, AppendFacts
<1> HIDE DEF n
<1>2. srvPos' \in Nat /\ srvPos <= srvPos'
  BY <1>0
<1>a. \A k \in DOMAIN toClient : IsEntry(toClient[k]) => toClient[k].pos \in Nat
  BY <1>0 DEF IsEntry, Answers
<1>3. ASSUME NEW k \in DOMAIN toClient', IsEntry(toClient'[k])
      PROVE  cursor < toClient'[k].pos /\ toClient'[k].pos <= srvPos'
  <2>1. CASE k = n + 1
    BY <1>0, <1>1, <1>3, <2>1
  <2>2. CASE k \in 1 .. n
    <3>1. IsEntry(toClient[k]) /\ k \in DOMAIN toClient /\ toClient'[k] = toClient[k]
      BY <1>1, <1>3, <2>2
    <3>2. cursor < toClient[k].pos /\ toClient[k].pos <= srvPos /\ toClient[k].pos \in Nat
      BY <1>a, <3>1 DEF FlowInv
    <3>3. QED
      BY <1>0, <1>2, <3>1, <3>2
  <2>3. QED
    BY <1>1, <2>1, <2>2
<1>4. ASSUME NEW j \in DOMAIN toClient', NEW k \in DOMAIN toClient', j < k,
             IsEntry(toClient'[j]), IsEntry(toClient'[k])
      PROVE  toClient'[j].pos < toClient'[k].pos
  <2>1. j \in 1 .. n /\ j \in DOMAIN toClient /\ toClient'[j] = toClient[j]
    BY <1>1, <1>4
  <2>2. CASE k = n + 1
    <3>1. toClient[j].pos <= srvPos /\ toClient[j].pos \in Nat
      BY <1>a, <1>4, <2>1 DEF FlowInv
    <3>2. toClient'[k].pos = srvPos + 1
      BY <1>1, <1>4, <2>2
    <3>3. QED
      BY <1>0, <2>1, <3>1, <3>2
  <2>3. CASE k \in 1 .. n
    <3>1. k \in DOMAIN toClient /\ toClient'[k] = toClient[k]
      BY <1>1, <2>3
    <3>2. QED
      BY <1>4, <2>1, <3>1 DEF FlowInv
  <2>4. QED
    BY <1>1, <2>2, <2>3
<1>5. ASSUME NEW p \in 1 .. srvPos'
      PROVE  Done(p) \/ \E k \in DOMAIN toClient' : IsEntry(toClient'[k]) /\ toClient'[k].pos = p
  <2>1. CASE p \in 1 .. srvPos
    <3>1. Done(p) \/ \E k \in DOMAIN toClient : IsEntry(toClient[k]) /\ toClient[k].pos = p
      BY <2>1 DEF FlowInv
    <3>2. \A k \in DOMAIN toClient : k \in DOMAIN toClient' /\ toClient'[k] = toClient[k]
      BY <1>1
    <3>3. QED
      BY <3>1, <3>2
  <2>2. CASE p \notin 1 .. srvPos
    <3>1. p = srvPos + 1 /\ IsEntry(a) /\ a.pos = p
      BY <1>0, <1>2, <2>2
    <3>2. n + 1 \in DOMAIN toClient'
      BY <1>1
    <3>3. QED
      BY <1>1, <3>1, <3>2
  <2>3. QED
    BY <2>1, <2>2
<1>6. \A p : Done(p)' <=> Done(p)
  BY DoneSame
<1>7. QED
  BY <1>3, <1>4, <1>5, <1>6 DEF FlowInv

\* The steps that leave the inbound half alone: on the same connection what is in
\* flight stays, or the connection is gone.
ReadSame ==
  /\ UNCHANGED <<work, cursor, delivered, assemblies, twice>>
  /\ pc = "done" => pc' = "done"
  /\ \/ UNCHANGED <<sock, toClient, srvPos>>
     \/ sock' # "up" /\ (toClient' = <<>> \/ pc' = "done")
     \/ sock' = "up" /\ toClient' = <<>> /\ srvPos' = cursor

LEMMA ReadSameSteps ==
  ASSUME Types, SockInv, Next, ~Inbound, ~Relay
  PROVE  ReadSame
<1>1. CASE Application
  BY <1>1 DEF Application, WriteText, WriteNewLine, Shutdown, DropStream, ReadSame, inVars,
       srvVars, netVars, taskVars
<1>2. CASE Establish
  BY <1>2 DEF Establish, Connect, Handshake, HandshakeFails, Replay, ReplayFails, StartSelect,
       WakeUp, GiveUp, ReadSame, inVars, srvVars, netVars
<1>3. CASE TakeText \/ SendSegment \/ SendSegmentFails \/ TakeShutdown
  BY <1>3 DEF TakeText, SendSegment, SendSegmentFails, TakeShutdown, GiveUp,
       ReadSame, inVars, srvVars, netVars, taskVars
<1>4. CASE TakeNewLine
  BY <1>4 DEF TakeNewLine, ReadSame, inVars, srvVars, netVars
<1>5. CASE Timers \/ Network
  BY <1>5 DEF Timers, Network, PingTick, PongTimeout, ConnectFails, Break, HalfOpen, KernelGivesUp,
       GiveUp, ReadSame, inVars, srvVars, netVars, taskVars, SockInv
<1>6. QED
  BY <1>1, <1>2, <1>3, <1>4, <1>5 DEF Next, Outbound

\* What does not depend on the connection.
Kept == AsmInv /\ LastInv /\ TwiceOnlyWithoutCursor /\ \A p \in 1 .. cursor : Done(p)

LEMMA KeptSame ==
  ASSUME Types, Kept, UNCHANGED <<work, cursor, delivered, assemblies, twice>>
  PROVE  Kept'
<1>1. AsmInv'
  BY LogSame DEF Kept, AsmInv, AsmOf
<1>2. LastInv' /\ TwiceOnlyWithoutCursor'
  BY LogSame DEF Kept, LastInv, TwiceOnlyWithoutCursor
<1>3. (\A p \in 1 .. cursor : Done(p))'
  BY DoneSame DEF Kept
<1>4. QED
  BY <1>1, <1>2, <1>3 DEF Kept

LEMMA ReadSameKeeps ==
  ASSUME Types, ReadInv, ReadSame
  PROVE  ReadInv'
<1>0. UNCHANGED <<work, cursor, delivered, assemblies, twice>>
  BY DEF ReadSame
<1>1. Kept'
  BY <1>0, KeptSame DEF ReadInv, Kept
<1>2. \A p : Done(p)' <=> Done(p)
  BY <1>0, DoneSame
<1>3. CASE UNCHANGED <<sock, toClient, srvPos>>
  <2>1. FlowInv => FlowInv'
    BY <1>0, <1>2, <1>3 DEF FlowInv
  <2>2. SockInv'
    BY <1>0, <1>3 DEF ReadInv, SockInv, ReadSame
  <2>3. QED
    BY <1>1, <1>3, <2>1, <2>2 DEF ReadInv, Kept
<1>4. CASE sock' # "up" /\ (toClient' = <<>> \/ pc' = "done")
  BY <1>1, <1>4 DEF ReadInv, Kept, SockInv
<1>5. CASE sock' = "up" /\ toClient' = <<>> /\ srvPos' = cursor
  <2>1. DOMAIN toClient' = {} /\ cursor \in Nat
    BY <1>5, TypeBounds DEF Types, InType
  <2>2. FlowInv'
    BY <1>1, <1>0, <1>5, <2>1 DEF FlowInv, Kept
  <2>3. SockInv'
    BY <1>0, <1>5, <2>1 DEF SockInv
  <2>4. QED
    BY <1>1, <2>2, <2>3 DEF ReadInv, Kept
<1>6. QED
  BY <1>3, <1>4, <1>5 DEF ReadSame

LEMMA RelayReads ==
  ASSUME Types, ReadInv, Relay
  PROVE  ReadInv'
<1>1. /\ sock = "up" /\ UNCHANGED <<work, sock, cursor, delivered, assemblies, twice, pc>>
  BY DEF Relay, RelayReceives, RelaySends, inVars, taskVars
<1>2. Kept' /\ FlowInv /\ cursor <= srvPos /\ cursor \in Nat /\ srvPos \in Nat
  BY <1>1, KeptSame, TypeBounds DEF ReadInv, Kept, SockInv, Types, InType
<1>3. FlowInv' /\ cursor' <= srvPos'
  <2>1. CASE RelayReceives
    <3>1. srvPos' = srvPos
      BY <2>1 DEF RelayReceives
    <3>a. PICK e : e = toServer[1]
      OBVIOUS
    <3>2. toClient' = toClient \/ toClient' = Append(toClient, Pong)
          \/ (e.type = "message" /\ toClient' = Append(toClient, Ack(e.seq)))
      BY <2>1, <3>a DEF RelayReceives
    <3>3. CASE toClient' = toClient
      BY <1>1, <1>2, <3>1, <3>3, DoneSame DEF FlowInv
    <3>4. CASE toClient' = Append(toClient, Pong)
      <4>1. Pong \in Answers /\ ~IsEntry(Pong)
        BY TypeBounds DEF Pong, IsEntry
      <4>2. QED
        BY <1>1, <1>2, <3>1, <3>4, <4>1, FlowAppend
    <3>5. CASE e.type = "message" /\ toClient' = Append(toClient, Ack(e.seq))
      <4>1. e \in Envelopes
        BY <2>1, <3>a, TailFacts DEF RelayReceives, Types, OutType
      <4>2. e \in Pieces
        BY <3>5, <4>1 DEF Envelopes
      <4>3. Ack(e.seq) \in Answers /\ ~IsEntry(Ack(e.seq))
        BY <4>2 DEF Pieces, Answers, Ack, IsEntry
      <4>4. QED
        BY <1>1, <1>2, <3>1, <3>5, <4>3, FlowAppend
    <3>6. QED
      BY <3>2, <3>3, <3>4, <3>5
  <2>2. CASE RelaySends
    <3>1. srvPos' = srvPos + 1 /\ toClient' = Append(toClient, Entry(srvPos + 1))
      BY <2>2 DEF RelaySends
    <3>2. Entry(srvPos + 1) \in Answers /\ IsEntry(Entry(srvPos + 1)) /\ Entry(srvPos + 1).pos = srvPos + 1
      BY <2>2, TypeBounds DEF RelaySends, Types, InType, Entry, IsEntry, Answers
    <3>3. FlowInv'
      BY <1>1, <1>2, <3>1, <3>2, FlowAppend
    <3>4. QED
      BY <1>1, <1>2, <3>1, <3>3
  <2>3. QED
    BY <2>1, <2>2 DEF Relay
<1>4. QED
  BY <1>1, <1>2, <1>3 DEF ReadInv, Kept, SockInv

LEMMA AnswerReads ==
  ASSUME Types, ReadInv, ReceiveAck \/ ReceivePong \/ StreamEnds
  PROVE  ReadInv'
<1>1. /\ pc = "select" /\ pc' # "done" /\ UNCHANGED <<work, sock, srvPos, cursor, delivered, assemblies, twice>>
  BY DEF ReceiveAck, ReceivePong, StreamEnds, GiveUp, inVars, srvVars, netVars, taskVars
<1>2. CASE ReceiveAck \/ ReceivePong
  <2>1. toClient # <<>> /\ toClient' = Tail(toClient) /\ ~IsEntry(toClient[1])
    BY <1>2 DEF ReceiveAck, ReceivePong, IsEntry
  <2>2. Kept' /\ sock = "up" /\ FlowInv
    BY <1>1, <2>1, KeptSame DEF ReadInv, Kept, SockInv
  <2>3. FlowInv'
    BY <1>1, <2>1, <2>2, DoneSame, FlowTail
  <2>4. QED
    BY <1>1, <2>2, <2>3 DEF ReadInv, Kept, SockInv
<1>3. CASE StreamEnds
  <2>1. ReadSame
    BY <1>3 DEF StreamEnds, GiveUp, ReadSame, inVars, srvVars, netVars
  <2>2. QED
    BY <2>1, ReadSameKeeps
<1>4. QED
  BY <1>2, <1>3

-----------------------------------------------------------------------------
(* An envelope of the log is taken.                                        *)

OldAsm(e)  == IF e.msg \in DOMAIN assemblies THEN assemblies[e.msg]
              ELSE [count |-> e.count, segs |-> {}, garbled |-> FALSE]
NewSegs(e) == OldAsm(e).segs \cup {e.seg}
Bad(e)     == OldAsm(e).garbled \/ e.fault = "garbled"

LEMMA ObserveCases ==
  ASSUME NEW e, ObserveChunk(e)
  PROVE  \/ /\ OldAsm(e).count # e.count
            /\ assemblies' = Without(assemblies, e.msg) /\ UNCHANGED <<delivered, twice>>
         \/ /\ OldAsm(e).count = e.count /\ Cardinality(NewSegs(e)) < e.count
            /\ assemblies' = With(assemblies, e.msg,
                                  [count |-> e.count, segs |-> NewSegs(e), garbled |-> Bad(e)])
            /\ UNCHANGED <<delivered, twice>>
         \/ /\ OldAsm(e).count = e.count /\ Cardinality(NewSegs(e)) = e.count /\ Bad(e)
            /\ assemblies' = Without(assemblies, e.msg) /\ UNCHANGED <<delivered, twice>>
         \/ /\ OldAsm(e).count = e.count /\ Cardinality(NewSegs(e)) = e.count /\ ~Bad(e)
            /\ assemblies' = Without(assemblies, e.msg) /\ Deliver(e.msg)
BY Zenon DEF ObserveChunk, OldAsm, NewSegs, Bad

LEMMA EntryHead ==
  ASSUME Types, ReadInv, ReceiveEntry, NEW p, p = toClient[1].pos
  PROVE  /\ sock = "up" /\ pc = "select" /\ pc' # "done" /\ UNCHANGED <<work, sock, srvPos>>
         /\ toClient # <<>> /\ IsEntry(toClient[1]) /\ toClient' = Tail(toClient)
         /\ p \in DOMAIN ServerLog /\ p \in Nat /\ cursor \in Nat /\ cursor < p /\ p <= srvPos
         /\ cursor' = cursor \/ cursor' = p
         /\ ServerLog[p].cursor /\ ServerLog[p].fault # "frame" => cursor' = p
         /\ \A q \in 1 .. p - 1 : Done(q)
<1>1. /\ pc = "select" /\ UNCHANGED <<work, sock, srvPos>>
      /\ toClient # <<>> /\ IsEntry(toClient[1]) /\ toClient' = Tail(toClient)
  BY DEF ReceiveEntry, IsEntry, srvVars
<1>2. sock = "up" /\ FlowInv
  BY <1>1 DEF ReadInv, SockInv
<1>3. pc' # "done"
  <2>1. CASE ObserveChunk(ServerLog[toClient[1].pos])
    BY <1>1, <2>1 DEF ReceiveEntry, ObserveChunk, GiveUp
  <2>2. CASE ~ObserveChunk(ServerLog[toClient[1].pos])
    BY <1>1, <2>2 DEF ReceiveEntry, GiveUp
  <2>3. QED
    BY <2>1, <2>2
<1>4. toClient \in Seq(Answers) /\ cursor \in Nat /\ srvPos \in Nat
  BY TypeBounds DEF Types, InType
<1>5. 1 \in DOMAIN toClient /\ toClient[1] \in Answers /\ DOMAIN toClient = 1 .. Len(toClient)
      /\ Len(toClient) \in Nat
  BY <1>1, <1>4, TailFacts
<1>6. p \in 1 .. Len(ServerLog)
  BY <1>1, <1>5 DEF IsEntry, Answers
<1>7. p \in DOMAIN ServerLog /\ p \in Nat /\ cursor < p /\ p <= srvPos
  BY <1>1, <1>2, <1>5, <1>6, LogFacts DEF FlowInv
<1>8. /\ cursor' = cursor \/ cursor' = p
      /\ ServerLog[p].cursor /\ ServerLog[p].fault # "frame" => cursor' = p
  BY DEF ReceiveEntry, MoveCursor
<1>9. ASSUME NEW q \in 1 .. p - 1 PROVE Done(q)
  <2>1. q \in 1 .. srvPos /\ q < p /\ q \in Nat
    BY <1>4, <1>7
  <2> SUFFICES ASSUME ~Done(q) PROVE FALSE
    OBVIOUS
  <2>2. PICK k \in DOMAIN toClient : IsEntry(toClient[k]) /\ toClient[k].pos = q
    BY <1>2, <2>1 DEF FlowInv
  <2>3. k # 1
    BY <2>1, <2>2
  <2>4. 1 < k
    BY <1>5, <2>3
  <2>5. p < q
    BY <1>1, <1>2, <1>5, <2>2, <2>4 DEF FlowInv
  <2>6. QED
    BY <1>7, <2>1, <2>5
<1>10. QED
  BY <1>1, <1>2, <1>3, <1>4, <1>7, <1>8, <1>9

\* With the cursor, what an assembly says of itself only becomes weaker.
LEMMA AsmGrows ==
  ASSUME Types, UNCHANGED work, cursor \in Nat, cursor' \in Nat, cursor <= cursor', NEW m, NEW a,
         AsmOf(m, a)
  PROVE  AsmOf(m, a)'
<1>1. \A p \in EntriesOf(ServerLog, m) : p <= cursor => p <= cursor'
  BY EntriesFinite
<1>2. QED
  BY <1>1, LogSame DEF AsmOf

LEMMA DeliverFacts ==
  ASSUME Types, LastInv, TwiceOnlyWithoutCursor, UNCHANGED work, cursor \in Nat, cursor' \in Nat,
         cursor <= cursor', NEW m \in Messages, Deliver(m),
         ServerLog[LastPos(m)].cursor => LastPos(m) <= cursor' /\ ~(LastPos(m) <= cursor)
  PROVE  /\ LastInv' /\ TwiceOnlyWithoutCursor'
         /\ Range(delivered') = Range(delivered) \cup {m}
<1>1. m \in Nat
  <2>1. work \in Workloads
    BY DEF Types, OutType
  <2>2. ServerLog \in Seq(LogEntry)
    BY <2>1, SlingshotAssumption DEF ServerLog
  <2>3. PICK p \in DOMAIN ServerLog : m = ServerLog[p].msg
    BY DEF Messages
  <2>4. ServerLog[p] \in LogEntry
    BY <2>2
  <2>5. QED
    BY <2>3, <2>4 DEF LogEntry
<1>2. \A n \in Range(delivered) : n \in Messages /\ (ServerLog[LastPos(n)].cursor => LastPos(n) <= cursor)
  BY DEF LastInv
<1>3. ASSUME NEW n \in Range(delivered), ServerLog[LastPos(n)].cursor PROVE LastPos(n) <= cursor'
  <2>1. LastPos(n) <= cursor /\ LastPos(n) \in Nat
    BY <1>2, <1>3, LastPosFacts, LogFacts
  <2>2. QED
    BY <2>1
<1>4. CASE m \in Range(delivered)
  <2>1. UNCHANGED delivered /\ twice' = twice \cup {m}
    BY <1>4 DEF Deliver
  <2>2. ~ServerLog[LastPos(m)].cursor
    BY <1>2, <1>4
  <2>3. LastInv'
    BY <1>2, <1>3, <1>4, <2>1, LogSame DEF LastInv
  <2>4. TwiceOnlyWithoutCursor'
    BY <2>1, <2>2, LogSame DEF TwiceOnlyWithoutCursor
  <2>5. QED
    BY <1>4, <2>1, <2>3, <2>4
<1>5. CASE m \notin Range(delivered)
  <2>1. delivered' = Append(delivered, m) /\ UNCHANGED twice
    BY <1>5 DEF Deliver
  <2>2. delivered \in Seq(Nat)
    BY DEF LastInv
  <2>3. Range(delivered') = Range(delivered) \cup {m} /\ delivered' \in Seq(Nat)
    BY <1>1, <2>1, <2>2, RangeAppend, AppendFacts
  <2>4. LastInv'
    BY <1>2, <1>3, <2>1, <2>3, LogSame DEF LastInv
  <2>5. TwiceOnlyWithoutCursor'
    BY <2>1, LogSame DEF TwiceOnlyWithoutCursor
  <2>6. QED
    BY <2>3, <2>4, <2>5
<1>6. QED
  BY <1>4, <1>5

LEMMA NoDelivery ==
  ASSUME Types, LastInv, TwiceOnlyWithoutCursor, UNCHANGED <<work, delivered, twice>>,
         cursor \in Nat, cursor' \in Nat, cursor <= cursor'
  PROVE  LastInv' /\ TwiceOnlyWithoutCursor'
<1>1. ASSUME NEW n \in Range(delivered), ServerLog[LastPos(n)].cursor PROVE LastPos(n) <= cursor'
  <2>1. LastPos(n) <= cursor /\ LastPos(n) \in Nat
    BY <1>1, LastPosFacts, LogFacts DEF LastInv
  <2>2. QED
    BY <2>1
<1>2. QED
  BY <1>1, LogSame DEF LastInv, TwiceOnlyWithoutCursor

\* What has to be shown of the envelope at p.
Handled(p) ==
  /\ \A q : Done(q) => Done(q)'
  /\ \A q : q = p => Done(q)'
  /\ AsmInv' /\ LastInv' /\ TwiceOnlyWithoutCursor'

LEMMA HandledKeeps ==
  ASSUME Types, ReadInv, ReceiveEntry, NEW p, p = toClient[1].pos, Handled(p)
  PROVE  ReadInv'
<1>1. /\ sock = "up" /\ pc = "select" /\ pc' # "done" /\ UNCHANGED <<work, sock, srvPos>>
      /\ toClient # <<>> /\ IsEntry(toClient[1]) /\ toClient' = Tail(toClient)
      /\ p \in Nat /\ cursor \in Nat /\ cursor < p /\ p <= srvPos
      /\ cursor' = cursor \/ cursor' = p
      /\ \A q \in 1 .. p - 1 : Done(q)
  BY EntryHead
<1>2. \A q \in 1 .. p : Done(q)'
  BY <1>1 DEF Handled
<1>3. \A q \in 1 .. cursor' : Done(q)'
  BY <1>1, <1>2
<1>4. FlowInv'
  BY <1>1, FlowTail DEF ReadInv, Handled
<1>5. srvPos \in Nat
  BY TypeBounds DEF Types, InType
<1>6. cursor' <= srvPos
  BY <1>1, <1>5 DEF ReadInv, SockInv
<1>7. SockInv'
  BY <1>1, <1>6 DEF SockInv
<1>8. QED
  BY <1>3, <1>4, <1>7 DEF ReadInv, Handled

LEMMA OldFacts ==
  ASSUME Types, AsmInv, NEW p \in DOMAIN ServerLog, NEW e, e = ServerLog[p]
  PROVE  LET a == OldAsm(e)
         IN  /\ a.garbled \in BOOLEAN /\ IsFiniteSet(a.segs) /\ a.count \in Nat
             /\ ~Faulty(e.msg) => a.count = Cardinality(EntriesOf(ServerLog, e.msg)) /\ ~a.garbled
             /\ ~a.garbled => \A s \in a.segs : \E q \in EntriesOf(ServerLog, e.msg) :
                     Plain(q) /\ ServerLog[q].seg = s /\ (ServerLog[q].cursor => q <= cursor)
<1>1. CASE e.msg \in DOMAIN assemblies
  BY <1>1 DEF AsmInv, AsmOf, OldAsm
<1>2. CASE e.msg \notin DOMAIN assemblies
  <2>1. OldAsm(e) = [count |-> e.count, segs |-> {}, garbled |-> FALSE]
    BY <1>2 DEF OldAsm
  <2>2. e.count \in Nat /\ (Plain(p) => e.count = Cardinality(EntriesOf(ServerLog, e.msg)))
    BY LogFacts DEF WholeMessages, Plain
  <2>3. ~Faulty(e.msg) => Plain(p)
    BY DEF Faulty, Plain
  <2>4. QED
    BY <2>1, <2>2, <2>3, FS_EmptySet
<1>3. QED
  BY <1>1, <1>2

LEMMA WithoutFacts ==
  ASSUME NEW f, NEW k
  PROVE  /\ DOMAIN Without(f, k) = DOMAIN f \ {k}
         /\ \A j \in DOMAIN f \ {k} : Without(f, k)[j] = f[j]
BY DEF Without

LEMMA WithFacts ==
  ASSUME NEW f, NEW k, NEW v
  PROVE  /\ DOMAIN With(f, k, v) = DOMAIN f \cup {k} /\ With(f, k, v)[k] = v
         /\ \A j \in DOMAIN f : j # k => With(f, k, v)[j] = f[j]
BY DEF With

\* An assembly begun or added to.
LEMMA AsmMade ==
  ASSUME UNCHANGED work, NEW m \in Messages, NEW b, b.garbled \in BOOLEAN, IsFiniteSet(b.segs),
         b.count \in Nat, Cardinality(b.segs) < b.count,
         ~Faulty(m) => b.count = Cardinality(EntriesOf(ServerLog, m)) /\ ~b.garbled,
         ~b.garbled => \A s \in b.segs : \E q \in EntriesOf(ServerLog, m) :
                         Plain(q) /\ ServerLog[q].seg = s /\ (ServerLog[q].cursor => q <= cursor')
  PROVE  AsmOf(m, b)'
<1>1. ServerLog' = ServerLog /\ Messages' = Messages /\ (Faulty(m)' <=> Faulty(m))
      /\ \A p : Plain(p)' <=> Plain(p)
  BY LogSame
<1>2. (~b.garbled => \A s \in b.segs : \E q \in EntriesOf(ServerLog, m) :
                         Plain(q) /\ ServerLog[q].seg = s /\ (ServerLog[q].cursor => q <= cursor))'
  BY <1>1
<1>3. (~Faulty(m) => b.count = Cardinality(EntriesOf(ServerLog, m)) /\ ~b.garbled)'
  BY <1>1
<1>4. QED
  BY <1>1, <1>2, <1>3 DEF AsmOf

LEMMA AsmPut ==
  ASSUME Types, AsmInv, UNCHANGED work, cursor \in Nat, cursor' \in Nat, cursor <= cursor',
         NEW m, NEW b, AsmOf(m, b)', DOMAIN assemblies' = DOMAIN assemblies \cup {m},
         assemblies'[m] = b, \A j \in DOMAIN assemblies : j # m => assemblies'[j] = assemblies[j]
  PROVE  AsmInv'
<1>1. \A j \in DOMAIN assemblies : AsmOf(j, assemblies[j])
  BY DEF AsmInv
<1>2. ASSUME NEW j \in DOMAIN assemblies, j # m, NEW a, a = assemblies[j] PROVE AsmOf(j, a)'
  <2>1. AsmOf(j, a)
    BY <1>1, <1>2
  <2>2. QED
    BY <2>1, AsmGrows
<1>3. ASSUME NEW j \in DOMAIN assemblies', NEW a, a = assemblies'[j] PROVE AsmOf(j, a)'
  <2>1. CASE j = m
    BY <1>3, <2>1
  <2>2. CASE j # m
    BY <1>2, <1>3, <2>2
  <2>3. QED
    BY <2>1, <2>2
<1>4. QED
  BY <1>3 DEF AsmInv

LEMMA HandleUnkept ==
  ASSUME Types, ReadInv, ReceiveEntry, NEW p, p = toClient[1].pos,
         UNCHANGED <<assemblies, delivered, twice>>, Faulty(ServerLog[p].msg)
  PROVE  Handled(p)
<1>1. /\ UNCHANGED work /\ cursor \in Nat /\ p \in Nat /\ cursor < p
      /\ cursor' = cursor \/ cursor' = p
  BY EntryHead
<1>2. cursor' \in Nat /\ cursor <= cursor'
  BY <1>1
<1>3. LastInv' /\ TwiceOnlyWithoutCursor'
  BY <1>1, <1>2, NoDelivery DEF ReadInv
<1>4. AsmInv'
  BY <1>1, <1>2, AsmGrows DEF ReadInv, AsmInv
<1>5. QED
  BY <1>1, <1>3, <1>4, DoneSame DEF Handled, Done

LEMMA HandleWhole ==
  ASSUME Types, ReadInv, ReceiveEntry, NEW p, p = toClient[1].pos, NEW e, e = ServerLog[p],
         e.fault \notin {"frame", "index"}, e.count = 1, Deliver(e.msg), UNCHANGED assemblies
  PROVE  Handled(p)
<1>1. /\ UNCHANGED work /\ cursor \in Nat /\ p \in Nat /\ cursor < p /\ p \in DOMAIN ServerLog
      /\ cursor' = cursor \/ cursor' = p
      /\ e.cursor => cursor' = p
  BY EntryHead
<1>2. cursor' \in Nat /\ cursor <= cursor'
  BY <1>1
<1>3. e.msg \in Messages /\ Plain(p) /\ p \in EntriesOf(ServerLog, e.msg)
      /\ e.count = Cardinality(EntriesOf(ServerLog, e.msg))
  BY <1>1, LogFacts DEF WholeMessages, Plain
<1>4. EntriesOf(ServerLog, e.msg) = {p}
  BY <1>3, EntriesFinite, FS_Singleton
<1>5. LastPos(e.msg) = p
  BY <1>3, <1>4, LastPosFacts
<1>6. /\ LastInv' /\ TwiceOnlyWithoutCursor'
      /\ Range(delivered') = Range(delivered) \cup {e.msg}
  BY <1>1, <1>2, <1>3, <1>5, DeliverFacts DEF ReadInv
<1>7. AsmInv'
  BY <1>1, <1>2, AsmGrows DEF ReadInv, AsmInv
<1>8. QED
  BY <1>1, <1>6, <1>7, LogSame DEF Handled, Done, Got

\* An assembly is dropped: its message is no good, or was delivered.
LEMMA Dropped ==
  ASSUME Types, AsmInv, UNCHANGED work, cursor \in Nat, cursor' \in Nat, cursor <= cursor',
         NEW m, assemblies' = Without(assemblies, m), Range(delivered) \subseteq Range(delivered'),
         Faulty(m) \/ m \in Range(delivered'), NEW p, ServerLog[p].msg = m
  PROVE  AsmInv' /\ (\A q : Done(q) => Done(q)') /\ (\A q : q = p => Done(q)')
<1>1. /\ DOMAIN assemblies' = DOMAIN assemblies \ {m}
      /\ \A j \in DOMAIN assemblies \ {m} : assemblies'[j] = assemblies[j]
  BY WithoutFacts
<1>2. AsmInv'
  BY <1>1, AsmGrows DEF AsmInv
<1>3. ASSUME NEW q, Done(q) \/ q = p PROVE Done(q)'
  <2>1. CASE ServerLog[q].msg = m
    BY <2>1, LogSame DEF Done, Got
  <2>2. CASE ServerLog[q].msg # m
    BY <1>1, <1>3, <2>2, LogSame DEF Done, Got
  <2>3. QED
    BY <2>1, <2>2
<1>4. QED
  BY <1>2, <1>3

LEMMA HandleChunk ==
  ASSUME Types, ReadInv, ReceiveEntry, NEW p, p = toClient[1].pos, NEW e, e = ServerLog[p],
         e.fault \notin {"frame", "index"}, e.count > 1, ObserveChunk(e)
  PROVE  Handled(p)
<1>1. /\ UNCHANGED work /\ cursor \in Nat /\ p \in Nat /\ cursor < p /\ p \in DOMAIN ServerLog
      /\ cursor' = cursor \/ cursor' = p
      /\ e.cursor => cursor' = p
  BY EntryHead
<1>2. cursor' \in Nat /\ cursor <= cursor'
  BY <1>1
<1> DEFINE P == EntriesOf(ServerLog, e.msg)
           a == OldAsm(e)
<1>3. e.msg \in Messages /\ p \in P /\ e.count \in Nat \ {0} /\ e.cursor \in BOOLEAN
      /\ (Plain(p) => e.count = Cardinality(P)) /\ (~Faulty(e.msg) => Plain(p))
      /\ (e.fault # "garbled" => Plain(p))
  BY <1>1, LogFacts DEF WholeMessages, Plain, Faulty
<1>4. AsmInv /\ LastInv /\ TwiceOnlyWithoutCursor
  BY DEF ReadInv
<1>5. /\ a.garbled \in BOOLEAN /\ IsFiniteSet(a.segs) /\ a.count \in Nat
      /\ ~Faulty(e.msg) => a.count = Cardinality(P) /\ ~a.garbled
      /\ ~a.garbled => \A s \in a.segs : \E q \in P :
                     Plain(q) /\ ServerLog[q].seg = s /\ (ServerLog[q].cursor => q <= cursor)
  BY <1>1, <1>4, OldFacts
<1>6. IsFiniteSet(NewSegs(e)) /\ Cardinality(NewSegs(e)) \in Nat
  BY <1>5, FS_AddElement, FS_CardinalityType DEF NewSegs
<1>7. ASSUME ~Bad(e), NEW s \in NewSegs(e)
      PROVE  \E q \in P : /\ Plain(q) /\ ServerLog[q].seg = s
                          /\ (ServerLog[q].cursor => q <= cursor) \/ q = p
  <2>1. ~a.garbled /\ Plain(p)
    BY <1>3, <1>7 DEF Bad
  <2>2. CASE s \in a.segs
    BY <1>5, <2>1, <2>2
  <2>3. CASE s = e.seg
    BY <1>3, <2>1, <2>3
  <2>4. QED
    BY <2>2, <2>3 DEF NewSegs
<1>8. CASE /\ assemblies' = Without(assemblies, e.msg) /\ UNCHANGED <<delivered, twice>>
           /\ a.count # e.count \/ Bad(e)
  <2>1. Faulty(e.msg)
    <3> SUFFICES ASSUME ~Faulty(e.msg) PROVE FALSE
      OBVIOUS
    <3>1. Plain(p) /\ a.count = e.count /\ ~a.garbled
      BY <1>3, <1>5
    <3>2. QED
      BY <1>8, <3>1 DEF Bad, Plain
  <2>2. AsmInv' /\ (\A q : Done(q) => Done(q)') /\ (\A q : q = p => Done(q)')
    BY <1>1, <1>2, <1>4, <1>8, <2>1, Dropped
  <2>3. QED
    BY <1>1, <1>2, <1>4, <1>8, <2>2, NoDelivery DEF Handled
<1>9. CASE /\ a.count = e.count /\ Cardinality(NewSegs(e)) < e.count
           /\ assemblies' = With(assemblies, e.msg,
                                 [count |-> e.count, segs |-> NewSegs(e), garbled |-> Bad(e)])
           /\ UNCHANGED <<delivered, twice>>
  <2> DEFINE v == [count |-> e.count, segs |-> NewSegs(e), garbled |-> Bad(e)]
  <2>a. assemblies' = With(assemblies, e.msg, v)
    BY <1>9
  <2>2. v.count = e.count /\ v.segs = NewSegs(e) /\ v.garbled = Bad(e) /\ Bad(e) \in BOOLEAN
    BY <1>5, Zenon DEF Bad
  <2> HIDE DEF v
  <2>1. /\ DOMAIN assemblies' = DOMAIN assemblies \cup {e.msg} /\ assemblies'[e.msg] = v
        /\ \A j \in DOMAIN assemblies : j # e.msg => assemblies'[j] = assemblies[j]
    BY <2>a DEF With
  <2>3. ASSUME ~Bad(e), NEW s \in NewSegs(e)
        PROVE  \E q \in P : Plain(q) /\ ServerLog[q].seg = s /\ (ServerLog[q].cursor => q <= cursor')
    <3>1. PICK q \in P : /\ Plain(q) /\ ServerLog[q].seg = s
                         /\ (ServerLog[q].cursor => q <= cursor) \/ q = p
      BY <1>7, <2>3
    <3>2. q \in Nat
      BY EntriesFinite
    <3>3. ServerLog[q].cursor => q <= cursor'
      BY <1>1, <1>2, <3>1, <3>2
    <3>4. QED
      BY <3>1, <3>3
  <2>4. ~Faulty(e.msg) => e.count = Cardinality(P) /\ ~Bad(e)
    BY <1>3, <1>5 DEF Bad, Plain
  <2>5. ASSUME NEW m, m = e.msg, NEW b, b = v PROVE AsmOf(m, b)'
    <3>1. /\ b.garbled \in BOOLEAN /\ IsFiniteSet(b.segs) /\ b.count \in Nat
          /\ Cardinality(b.segs) < b.count
      BY <1>3, <1>6, <1>9, <2>2, <2>5
    <3>2. ~Faulty(m) => b.count = Cardinality(EntriesOf(ServerLog, m)) /\ ~b.garbled
      BY <2>2, <2>4, <2>5
    <3>3. ~b.garbled => \A s \in b.segs : \E q \in EntriesOf(ServerLog, m) :
                          Plain(q) /\ ServerLog[q].seg = s /\ (ServerLog[q].cursor => q <= cursor')
      BY <2>2, <2>3, <2>5
    <3>4. UNCHANGED work /\ m \in Messages
      BY <1>1, <1>3, <2>5
    <3>5. QED
      BY <3>1, <3>2, <3>3, <3>4, AsmMade
  <2>6. AsmInv'
    <3>1. PICK m, b : m = e.msg /\ b = v
      OBVIOUS
    <3>2. AsmOf(m, b)'
      BY <2>5, <3>1
    <3>3. /\ DOMAIN assemblies' = DOMAIN assemblies \cup {m} /\ assemblies'[m] = b
          /\ \A j \in DOMAIN assemblies : j # m => assemblies'[j] = assemblies[j]
      BY <2>1, <3>1
    <3>4. QED
      BY <1>1, <1>2, <1>4, <3>2, <3>3, AsmPut
  <2>7. ASSUME NEW q, Done(q) \/ q = p PROVE Done(q)'
    <3>1. CASE ServerLog[q].msg # e.msg
      BY <1>1, <1>9, <2>1, <2>7, <3>1, LogSame DEF Done, Got
    <3>2. CASE ServerLog[q].msg = e.msg
      <4>1. CASE Faulty(e.msg) \/ Got(e.msg)
        BY <1>1, <1>9, <3>2, <4>1, LogSame DEF Done, Got
      <4>2. CASE ~(Faulty(e.msg) \/ Got(e.msg))
        <5>1. ServerLog[q].seg \in NewSegs(e)
          BY <2>7, <3>2, <4>2 DEF Done, NewSegs, OldAsm
        <5>2. QED
          BY <1>1, <2>1, <2>2, <3>2, <5>1, LogSame DEF Done
      <4>3. QED
        BY <4>1, <4>2
    <3>3. QED
      BY <3>1, <3>2
  <2>8. QED
    BY <1>1, <1>2, <1>4, <1>9, <2>6, <2>7, NoDelivery DEF Handled
<1>10. CASE /\ a.count = e.count /\ Cardinality(NewSegs(e)) = e.count /\ ~Bad(e)
            /\ assemblies' = Without(assemblies, e.msg) /\ Deliver(e.msg)
  <2>1. Plain(p) /\ Cardinality(NewSegs(e)) = Cardinality(P)
    BY <1>3, <1>10 DEF Bad
  <2>2. \A q \in P : Plain(q) /\ ServerLog[q].seg \in NewSegs(e)
    BY <1>6, <1>7, <1>10, <2>1, AllIndices
  <2>3. LastPos(e.msg) \in P /\ p <= LastPos(e.msg) /\ LastPos(e.msg) \in Nat
    BY <1>3, LastPosFacts, EntriesFinite
  <2>4. ASSUME ServerLog[LastPos(e.msg)].cursor PROVE LastPos(e.msg) = p
    <3>1. PICK q \in P : /\ Plain(q) /\ ServerLog[q].seg = ServerLog[LastPos(e.msg)].seg
                         /\ (ServerLog[q].cursor => q <= cursor) \/ q = p
      BY <1>7, <1>10, <2>2, <2>3
    <3>2. q = LastPos(e.msg)
      <4>1. LastPos(e.msg) \in DOMAIN ServerLog /\ ServerLog[LastPos(e.msg)].msg = e.msg
            /\ ServerLog[LastPos(e.msg)].fault = "none"
        BY <2>2, <2>3 DEF EntriesOf, Plain
      <4>2. QED
        BY <3>1, <4>1, LogFacts DEF WholeMessages, Plain
    <3>3. ~(LastPos(e.msg) <= cursor)
      BY <1>1, <2>3
    <3>4. QED
      BY <2>4, <3>1, <3>2, <3>3
  <2>5. ServerLog[LastPos(e.msg)].cursor => LastPos(e.msg) <= cursor' /\ ~(LastPos(e.msg) <= cursor)
    BY <1>1, <2>4
  <2>6. /\ LastInv' /\ TwiceOnlyWithoutCursor'
        /\ Range(delivered') = Range(delivered) \cup {e.msg}
    BY <1>1, <1>2, <1>3, <1>4, <1>10, <2>5, DeliverFacts
  <2>7. AsmInv' /\ (\A q : Done(q) => Done(q)') /\ (\A q : q = p => Done(q)')
    BY <1>1, <1>2, <1>4, <1>10, <2>6, Dropped
  <2>8. QED
    BY <2>6, <2>7 DEF Handled
<1>11. QED
  BY <1>8, <1>9, <1>10, ObserveCases

LEMMA ReceiveEntryReads ==
  ASSUME Types, ReadInv, ReceiveEntry
  PROVE  ReadInv'
<1> DEFINE p == toClient[1].pos
           e == ServerLog[p]
<1>1. p \in DOMAIN ServerLog
  BY EntryHead
<1>2. \/ e.fault \in {"frame", "index"} /\ UNCHANGED <<assemblies, delivered, twice>>
      \/ e.fault \notin {"frame", "index"} /\ e.count = 1 /\ Deliver(e.msg) /\ UNCHANGED assemblies
      \/ e.fault \notin {"frame", "index"} /\ e.count > 1 /\ ObserveChunk(e)
  BY DEF ReceiveEntry
<1>3. e.fault \in {"frame", "index"} => Faulty(e.msg)
  BY <1>1 DEF Faulty
<1>4. Handled(p)
  BY <1>2, <1>3, HandleUnkept, HandleWhole, HandleChunk
<1>5. QED
  BY <1>4, HandledKeeps

LEMMA InitRead == Init => ReadInv
<1> SUFFICES ASSUME Init PROVE ReadInv
  OBVIOUS
<1>1. /\ toClient = <<>> /\ assemblies = <<>> /\ delivered = <<>> /\ twice = {} /\ cursor = 0
      /\ sock = "none"
  BY DEF Init
<1>2. DOMAIN assemblies = {} /\ Range(delivered) = {} /\ delivered \in Seq(Nat) /\ 1 .. cursor = {}
  BY <1>1 DEF Range
<1>3. QED
  BY <1>1, <1>2 DEF ReadInv, SockInv, AsmInv, LastInv, TwiceOnlyWithoutCursor

LEMMA StepRead == Types /\ ReadInv /\ [Next]_vars => ReadInv'
<1> SUFFICES ASSUME Types, ReadInv, [Next]_vars PROVE ReadInv'
  OBVIOUS
<1>1. CASE Next
  <2>1. SockInv
    BY DEF ReadInv
  <2>2. QED
    BY <1>1, <2>1, ReadSameSteps, ReadSameKeeps, RelayReads, AnswerReads, ReceiveEntryReads DEF Inbound
<1>2. CASE UNCHANGED vars
  <2>1. ReadSame
    BY <1>2 DEF vars, ReadSame, inVars, srvVars, netVars, taskVars
  <2>2. QED
    BY <2>1, ReadSameKeeps
<1>3. QED
  BY <1>1, <1>2

LEMMA ReadAlways == Spec => []ReadInv
<1>1. StreamInv => Types
  BY DEF StreamInv
<1>2. QED
  BY <1>1, InitRead, StepRead, StreamAlways, PTL DEF Spec

\* A resumption behind the cursor skips no sound message, whatever of it came
\* over which connection.
THEOREM CursorCoversHolds == Spec => []CursorCoversDelivery
<1>1. StreamInv /\ ReadInv => CursorCoversDelivery
  BY CursorCoversFollows DEF StreamInv
<1>2. QED
  BY <1>1, StreamAlways, ReadAlways, PTL

\* Only a message whose last envelope carries no cursor may be handed to the
\* application a second time.
THEOREM TwiceOnlyHolds == Spec => []TwiceOnlyWithoutCursor
<1>1. ReadInv => TwiceOnlyWithoutCursor
  BY DEF ReadInv
<1>2. QED
  BY <1>1, ReadAlways, PTL
=============================================================================
