------------------------ MODULE TerminalOutputProofs ------------------------
(* Safety of TerminalOutput for any listeners, sizes and capacities.       *)
EXTENDS TerminalOutput, TLAPS

-----------------------------------------------------------------------------
(* Type correctness.                                                       *)

StreamType ==
  /\ stored \in Seq(Nat)
  /\ oldest \in 0 .. NextSequence
  /\ sent \in 0 .. NextSequence
  /\ exited \in BOOLEAN

ListenerType ==
  /\ pc \in [Listeners -> {"off", "subscribed", "replay", "live", "done"}]
  /\ rx \in [Listeners -> Nat]
  /\ next \in [Listeners -> Nat]
  /\ through \in [Listeners -> Nat \cup {-1}]
  /\ heard \in [Listeners -> Seq(Nat)]
  /\ lagged \in [Listeners -> BOOLEAN]

StoreType ==
  /\ opening \in {"session", "handle", "record", "opened"}
  /\ handle \in BOOLEAN
  /\ record \in {"none", "running", "exited"}
  /\ onExit \in {"none", "marked", "done"}
  /\ call \in [Closers \cup Forgetters ->
                 {"idle", "closing", "marking", "failed", "removed", "done"}]

LEMMA TypeParts == TypeOK <=> StreamType /\ ListenerType /\ StoreType
BY DEF TypeOK, StreamType, ListenerType, StoreType

LEMMA RecordType ==
  ASSUME StreamType, NEW size \in Nat, Record(size)
  PROVE  /\ stored' \in Seq(Nat) /\ Len(stored') = Len(stored) + 1
         /\ oldest' \in 0 .. Len(stored')
<1>1. Least(size, Limit) \in Nat
  BY TerminalAssumption DEF Least
<1>2. stored' = Append(stored, Least(size, Limit)) /\ Trim(stored', oldest)
  BY DEF Record
<1>3. stored' \in Seq(Nat) /\ Len(stored') = Len(stored) + 1
  BY <1>1, <1>2 DEF StreamType
<1>4. oldest' \in oldest .. Len(stored')
  BY <1>2 DEF Trim
<1>5. QED
  BY <1>3, <1>4 DEF StreamType, NextSequence

LEMMA ForwarderType ==
  ASSUME TypeOK, ForwardChunk \/ ForwardExit \/ Broadcast
  PROVE  TypeOK'
<1>1. ListenerType' /\ StoreType'
  BY TypeParts DEF ForwardChunk, ForwardExit, Broadcast, listenerVars, storeVars,
                   ListenerType, StoreType
<1>2. StreamType'
  <2>1. CASE ForwardChunk
    <3>1. PICK size \in Sizes : Record(size)
      BY <2>1 DEF ForwardChunk
    <3>2. size \in Nat
      BY TerminalAssumption
    <3>3. QED
      BY <2>1, <3>1, <3>2, RecordType, TypeParts DEF ForwardChunk, StreamType, NextSequence
  <2>2. CASE ForwardExit
    BY <2>2, RecordType, TypeParts DEF ForwardExit, StreamType, NextSequence
  <2>3. CASE Broadcast
    BY <2>3, TypeParts DEF Broadcast, StreamType, NextSequence
  <2>4. QED
    BY <2>1, <2>2, <2>3
<1>3. QED
  BY <1>1, <1>2 DEF TypeOK, StreamType, ListenerType, StoreType

LEMMA DeliverType ==
  ASSUME TypeOK, NEW l \in Listeners, NEW n \in Nat, Deliver(l, n)
  PROVE  StoreType' /\ heard' \in [Listeners -> Seq(Nat)]
<1>1. heard' \in [Listeners -> Seq(Nat)]
  BY DEF Deliver, TypeOK
<1>2. StoreType'
  BY DEF Deliver, MarkExited, TypeOK, StoreType
<1>3. QED
  BY <1>1, <1>2

LEMMA ListeningType ==
  ASSUME TypeOK, NEW l \in Listeners, SubscribeView(l) \/ Listening(l)
  PROVE  TypeOK'
<1>1. StreamType'
  BY TypeParts DEF SubscribeView, Listening, TakeReplay, Replay, EndReplay, Receive, Lagged,
                   streamVars, StreamType, NextSequence
<1>2. NextSequence \in Nat
  BY TypeParts DEF StreamType, NextSequence
<1>3. ListenerType' /\ StoreType'
  <2>1. CASE SubscribeView(l)
    BY <2>1, <1>2 DEF SubscribeView, SubscribeChannel, TypeOK, ListenerType, StoreType, storeVars
  <2>2. CASE TakeReplay(l)
    BY <2>2, <1>2 DEF TakeReplay, TypeOK, ListenerType, StoreType, storeVars
  <2>3. CASE Replay(l)
    <3>1. next[l] \in Nat
      BY DEF TypeOK
    <3>2. StoreType' /\ heard' \in [Listeners -> Seq(Nat)]
      BY <2>3, <3>1, DeliverType DEF Replay
    <3>3. pc' \in [Listeners -> {"off", "subscribed", "replay", "live", "done"}]
      BY <2>3 DEF Replay, TypeOK
    <3>4. next' \in [Listeners -> Nat]
      BY <2>3 DEF Replay, TypeOK
    <3>5. UNCHANGED <<rx, through, lagged>>
      BY <2>3 DEF Replay
    <3>6. QED
      BY <3>2, <3>3, <3>4, <3>5 DEF TypeOK, ListenerType
  <2>4. CASE EndReplay(l)
    BY <2>4 DEF EndReplay, TypeOK, ListenerType, StoreType, storeVars
  <2>5. CASE Receive(l)
    <3>1. rx[l] \in Nat
      BY DEF TypeOK
    <3>2. StoreType' /\ heard' \in [Listeners -> Seq(Nat)]
      <4>1. CASE Seen(l, rx[l])
        BY <2>5, <4>1 DEF Receive, TypeOK, StoreType, storeVars
      <4>2. CASE ~Seen(l, rx[l])
        BY <2>5, <4>2, <3>1, DeliverType DEF Receive
      <4>3. QED
        BY <4>1, <4>2
    <3>3. pc' \in [Listeners -> {"off", "subscribed", "replay", "live", "done"}]
      BY <2>5 DEF Receive, TypeOK
    <3>4. rx' \in [Listeners -> Nat]
      BY <2>5 DEF Receive, TypeOK
    <3>5. UNCHANGED <<next, through, lagged>>
      BY <2>5 DEF Receive
    <3>6. QED
      BY <3>2, <3>3, <3>4, <3>5 DEF TypeOK, ListenerType
  <2>6. CASE Lagged(l)
    <3>1. sent - Capacity \in Nat
      BY <2>6, <1>2, TerminalAssumption DEF Lagged, Overrun, TypeOK
    <3>2. QED
      BY <2>6, <3>1 DEF Lagged, TypeOK, ListenerType, StoreType, storeVars
  <2>7. QED
    BY <2>1, <2>2, <2>3, <2>4, <2>5, <2>6 DEF Listening
<1>4. QED
  BY <1>1, <1>3 DEF TypeOK, StreamType, ListenerType, StoreType

LEMMA ClientType ==
  ASSUME TypeOK,
         \/ Opening \/ DropHandleOnExit
         \/ \E c \in Closers : CloseRemoves(c) \/ CloseSession(c) \/ CloseMarks(c)
         \/ \E f \in Forgetters : ForgetHandle(f) \/ ForgetRecord(f)
  PROVE  TypeOK'
<1> USE DEF TypeOK, NextSequence, streamVars, listenerVars
<1>1. CASE Opening
  <2>1. CASE InsertHandle \/ OpenRecord
    BY <2>1 DEF InsertHandle, OpenRecord
  <2>2. CASE SubscribeRing
    <3>1. Ring \in Listeners
      BY DEF Listeners
    <3>2. rx' \in [Listeners -> Nat]
      BY <2>2, <3>1 DEF SubscribeRing, SubscribeChannel
    <3>3. QED
      BY <2>2, <3>2 DEF SubscribeRing, SubscribeChannel
  <2>3. QED
    BY <1>1, <2>1, <2>2 DEF Opening
<1>2. CASE DropHandleOnExit
  BY <1>2 DEF DropHandleOnExit
<1>3. ASSUME NEW c \in Closers, CloseRemoves(c) \/ CloseSession(c) \/ CloseMarks(c)
      PROVE  TypeOK'
  BY <1>3 DEF CloseRemoves, CloseSession, CloseMarks, MarkExited
<1>4. ASSUME NEW f \in Forgetters, ForgetHandle(f) \/ ForgetRecord(f)
      PROVE  TypeOK'
  BY <1>4 DEF ForgetHandle, ForgetRecord
<1>5. QED
  BY <1>1, <1>2, <1>3, <1>4

LEMMA InitType == Init => TypeOK
<1> SUFFICES ASSUME Init PROVE TypeOK
  OBVIOUS
<1>1. <<>> \in Seq(Nat) /\ Len(<<>>) = 0
  OBVIOUS
<1>2. StreamType
  <2>1. stored \in Seq(Nat) /\ Len(stored) = 0
    BY <1>1, Zenon DEF Init
  <2>2. oldest = 0 /\ sent = 0 /\ exited = FALSE
    BY Zenon DEF Init
  <2>3. 0 \in 0 .. Len(stored)
    BY <2>1
  <2>4. QED
    BY <2>1, <2>2, <2>3, Zenon DEF StreamType, NextSequence
<1>3. heard \in [Listeners -> Seq(Nat)]
  BY <1>1 DEF Init
<1>4. ListenerType
  BY <1>3 DEF Init, ListenerType
<1>5. StoreType
  BY DEF Init, StoreType
<1>6. QED
  BY <1>2, <1>4, <1>5, TypeParts

LEMMA StepType == TypeOK /\ [Next]_vars => TypeOK'
<1> SUFFICES ASSUME TypeOK, [Next]_vars PROVE TypeOK'
  OBVIOUS
<1>1. CASE UNCHANGED vars
  BY <1>1 DEF vars, streamVars, listenerVars, storeVars, TypeOK, NextSequence
<1>2. CASE Next
  BY <1>2, ForwarderType, ListeningType, ClientType DEF Next
<1>3. QED
  BY <1>1, <1>2

\* The types of the variables.
THEOREM TypeCorrect == Spec => []TypeOK
BY InitType, StepType, PTL DEF Spec

-----------------------------------------------------------------------------
(* NothingTwiceOrMissing and DoneHeardTheExit.  The invariant says where   *)
(* the replay and the channel of a listener join: the receiver was created *)
(* before the snapshot was taken, so that the channel never begins beyond  *)
(* the event after the replay.                                             *)

\* The forwarder is at most one event ahead of the channel.
ForwarderInv ==
  /\ NextSequence = sent \/ NextSequence = sent + 1
  /\ exited => NextSequence > 0

Heard(l, n) == heard[l] # <<>> => Last(heard[l]) = n
HeardBelow(l, n) == heard[l] # <<>> => Last(heard[l]) < n

JoinInv(l) ==
  /\ rx[l] <= sent
  /\ pc[l] \in {"off", "subscribed"} => heard[l] = <<>> /\ ~lagged[l]
  /\ pc[l] = "replay" =>
       /\ Heard(l, next[l] - 1) /\ ~lagged[l]
       /\ next[l] <= through[l] + 1 /\ rx[l] <= through[l] + 1
       /\ through[l] < NextSequence
  /\ pc[l] = "live" =>
       /\ rx[l] <= through[l] + 1 => HeardBelow(l, through[l] + 1)
       /\ rx[l] > through[l] + 1 => HeardBelow(l, rx[l])
       /\ ~lagged[l] /\ rx[l] <= through[l] + 1 => Heard(l, through[l])
       /\ ~lagged[l] /\ rx[l] > through[l] + 1 => Heard(l, rx[l] - 1)
  /\ pc[l] = "done" => exited /\ heard[l] # <<>> /\ Last(heard[l]) = NextSequence - 1

InOrder(l) ==
  \A i \in 1 .. Len(heard[l]) - 1 :
    /\ heard[l][i + 1] > heard[l][i]
    /\ lagged[l] \/ heard[l][i + 1] = heard[l][i] + 1

DeliveryInv ==
  /\ TypeOK /\ ForwarderInv
  /\ \A l \in Listeners : JoinInv(l) /\ InOrder(l)

\* One more event at the end of what was heard.
LEMMA OneMore ==
  ASSUME NEW s \in Seq(Nat), NEW n \in Nat
  PROVE  /\ Append(s, n) \in Seq(Nat) /\ Append(s, n) # <<>>
         /\ Len(Append(s, n)) = Len(s) + 1 /\ Last(Append(s, n)) = n
         /\ Append(s, n)[Len(s) + 1] = n
         /\ \A i \in 1 .. Len(s) : Append(s, n)[i] = s[i]
<1>1. /\ Append(s, n) \in Seq(Nat) /\ Len(Append(s, n)) = Len(s) + 1
      /\ Append(s, n)[Len(s) + 1] = n /\ Append(s, n) # <<>>
  OBVIOUS
<1>2. \A i \in 1 .. Len(s) : Append(s, n)[i] = s[i]
  OBVIOUS
<1>3. Last(Append(s, n)) = n
  BY <1>1 DEF Last
<1>4. QED
  BY <1>1, <1>2, <1>3

LEMMA LastOne ==
  ASSUME NEW s \in Seq(Nat)
  PROVE  /\ Len(s) \in Nat
         /\ Len(s) > 0 => s # <<>> /\ Last(s) = s[Len(s)] /\ Last(s) \in Nat
<1>1. Len(s) \in Nat /\ (Len(s) > 0 => s # <<>>)
  OBVIOUS
<1>2. Len(s) > 0 => s[Len(s)] \in Nat
  OBVIOUS
<1>3. QED
  BY <1>1, <1>2 DEF Last

LEMMA DeliverInOrder ==
  ASSUME TypeOK, NEW l \in Listeners, NEW n \in Nat, InOrder(l),
         heard' = [heard EXCEPT ![l] = Append(@, n)], UNCHANGED lagged,
         HeardBelow(l, n), lagged[l] \/ Heard(l, n - 1)
  PROVE  InOrder(l)'
<1>1. heard[l] \in Seq(Nat) /\ heard'[l] = Append(heard[l], n)
  BY DEF TypeOK
<1>2. /\ Len(heard'[l]) = Len(heard[l]) + 1 /\ heard'[l][Len(heard[l]) + 1] = n
      /\ \A i \in 1 .. Len(heard[l]) : heard'[l][i] = heard[l][i]
  BY <1>1, OneMore
<1>3. /\ Len(heard[l]) \in Nat
      /\ Len(heard[l]) > 0 => /\ heard[l] # <<>> /\ Last(heard[l]) \in Nat
                              /\ Last(heard[l]) = heard[l][Len(heard[l])]
  BY <1>1, LastOne
<1>4. SUFFICES ASSUME NEW i \in 1 .. Len(heard[l])
               PROVE  /\ heard'[l][i + 1] > heard'[l][i]
                      /\ lagged[l] \/ heard'[l][i + 1] = heard'[l][i] + 1
  BY <1>2, <1>3 DEF InOrder
<1>5. CASE i < Len(heard[l])
  <2>1. i \in 1 .. Len(heard[l]) - 1 /\ i + 1 \in 1 .. Len(heard[l])
    BY <1>3, <1>5
  <2>2. heard'[l][i] = heard[l][i] /\ heard'[l][i + 1] = heard[l][i + 1]
    BY <1>2, <2>1
  <2>3. QED
    BY <2>1, <2>2 DEF InOrder
<1>6. CASE i = Len(heard[l])
  <2>1. heard[l] # <<>> /\ Last(heard[l]) = heard'[l][i] /\ Last(heard[l]) \in Nat
    BY <1>2, <1>3, <1>6
  <2>2. heard'[l][i + 1] = n
    BY <1>2, <1>6
  <2>3. QED
    BY <2>1, <2>2 DEF HeardBelow, Heard
<1>7. QED
  BY <1>3, <1>5, <1>6

LEMMA InitDelivery == Init => DeliveryInv
<1> SUFFICES ASSUME Init PROVE DeliveryInv
  OBVIOUS
<1>1. TypeOK
  BY InitType
<1>2. NextSequence = 0 /\ sent = 0 /\ exited = FALSE
  BY <1>1 DEF Init, TypeOK, NextSequence
<1>3. ASSUME NEW l \in Listeners PROVE JoinInv(l) /\ InOrder(l)
  <2>1. heard[l] = <<>> /\ pc[l] = "off" /\ rx[l] = 0 /\ ~lagged[l]
    BY Zenon DEF Init
  <2>2. Len(heard[l]) = 0
    BY <2>1
  <2>3. QED
    BY <1>2, <2>1, <2>2 DEF JoinInv, InOrder
<1>4. QED
  BY <1>1, <1>2, <1>3 DEF DeliveryInv, ForwarderInv

\* The forwarder disturbs no listener.
LEMMA ForwarderDelivery ==
  ASSUME DeliveryInv, TypeOK', ForwardChunk \/ ForwardExit \/ Broadcast
  PROVE  DeliveryInv'
<1> USE DEF DeliveryInv
<1>1. NextSequence \in Nat /\ sent \in Nat /\ NextSequence' \in Nat /\ sent' \in Nat
  BY DEF TypeOK, NextSequence
<1>2. UNCHANGED listenerVars
  BY DEF ForwardChunk, ForwardExit, Broadcast
<1>3. \/ /\ NextSequence = sent /\ ~exited
         /\ NextSequence' = NextSequence + 1 /\ sent' = sent
      \/ /\ sent < NextSequence /\ sent' = sent + 1
         /\ UNCHANGED <<exited, stored>>
  <2>1. ASSUME NEW size, Record(size) PROVE NextSequence' = NextSequence + 1
    BY <2>1 DEF Record, NextSequence, TypeOK
  <2>2. CASE ForwardChunk
    BY <2>1, <2>2 DEF ForwardChunk, ForwarderFree
  <2>3. CASE ForwardExit
    BY <2>1, <2>3 DEF ForwardExit, ForwarderFree
  <2>4. CASE Broadcast
    BY <2>4 DEF Broadcast
  <2>5. QED
    BY <2>2, <2>3, <2>4
<1>4. ForwarderInv'
  <2>1. CASE NextSequence = sent /\ NextSequence' = NextSequence + 1 /\ sent' = sent
    BY <1>1, <2>1 DEF ForwarderInv
  <2>2. CASE sent < NextSequence /\ sent' = sent + 1 /\ UNCHANGED <<exited, stored>>
    BY <1>1, <2>2 DEF ForwarderInv, NextSequence
  <2>3. QED
    BY <1>3, <2>1, <2>2
<1>5. ASSUME NEW l \in Listeners PROVE JoinInv(l)' /\ InOrder(l)'
  <2>1. InOrder(l)'
    BY <1>2 DEF listenerVars, InOrder
  <2>2. JoinInv(l)'
    <3>1. rx[l] \in Nat /\ through[l] \in Nat \cup {-1} /\ JoinInv(l)
      BY DEF TypeOK
    <3>2. UNCHANGED <<rx[l], pc[l], next[l], through[l], heard[l], lagged[l]>>
      BY <1>2 DEF listenerVars
    <3>3. sent <= sent' /\ NextSequence <= NextSequence'
      BY <1>1, <1>3 DEF NextSequence
    <3>4. exited => exited' /\ NextSequence' = NextSequence
      BY <1>3 DEF NextSequence
    <3>5. rx[l] <= sent' /\ (through[l] < NextSequence => through[l] < NextSequence')
      BY <1>1, <3>1, <3>3 DEF JoinInv
    <3>6. QED
      BY <3>1, <3>2, <3>4, <3>5 DEF JoinInv, Heard, HeardBelow
  <2>3. QED
    BY <2>1, <2>2
<1>6. QED
  BY <1>4, <1>5

\* What a step leaves alone keeps its invariant.
Untouched(l) == UNCHANGED <<pc[l], rx[l], next[l], through[l], heard[l], lagged[l]>>

LEMMA UntouchedInv ==
  ASSUME NEW l \in Listeners, JoinInv(l), InOrder(l), UNCHANGED streamVars, Untouched(l)
  PROVE  JoinInv(l)' /\ InOrder(l)'
<1>1. UNCHANGED <<sent, exited, NextSequence>>
  BY DEF streamVars, NextSequence
<1>2. JoinInv(l)'
  BY <1>1 DEF Untouched, JoinInv, Heard, HeardBelow
<1>3. InOrder(l)'
  BY DEF Untouched, InOrder
<1>4. QED
  BY <1>2, <1>3

LEMMA OthersUntouched ==
  ASSUME TypeOK, NEW l \in Listeners, Listening(l) \/ SubscribeChannel(l),
         NEW m \in Listeners \ {l}
  PROVE  Untouched(m)
<1> USE DEF TypeOK, Untouched
<1>1. CASE SubscribeChannel(l) \/ TakeReplay(l)
  BY <1>1 DEF SubscribeChannel, TakeReplay
<1>2. CASE Replay(l) \/ EndReplay(l)
  BY <1>2 DEF Replay, EndReplay, Deliver
<1>3. CASE Receive(l)
  <2>1. UNCHANGED <<pc, heard>> \/ (/\ heard' = [heard EXCEPT ![l] = Append(@, rx[l])]
                                    /\ pc' = [pc EXCEPT ![l] = pc'[l]])
    BY <1>3 DEF Receive, Deliver
  <2>2. QED
    BY <1>3, <2>1 DEF Receive
<1>4. CASE Lagged(l)
  BY <1>4 DEF Lagged
<1>5. QED
  BY <1>1, <1>2, <1>3, <1>4 DEF Listening

LEMMA JoinTypes ==
  ASSUME TypeOK, NEW l \in Listeners
  PROVE  /\ rx[l] \in Nat /\ next[l] \in Nat /\ through[l] \in Nat \cup {-1}
         /\ heard[l] \in Seq(Nat) /\ lagged[l] \in BOOLEAN
         /\ NextSequence \in Nat /\ sent \in Nat /\ oldest \in Nat
         /\ oldest <= NextSequence /\ sent <= NextSequence
BY DEF TypeOK, NextSequence

LEMMA SubscribeDelivery ==
  ASSUME DeliveryInv, NEW l \in Listeners, UNCHANGED streamVars,
         SubscribeChannel(l) \/ TakeReplay(l)
  PROVE  JoinInv(l)' /\ InOrder(l)'
<1> USE DEF DeliveryInv
<1>1. /\ JoinInv(l) /\ InOrder(l) /\ TypeOK
      /\ UNCHANGED <<sent, exited, NextSequence>>
  BY DEF streamVars, NextSequence
<1>2. UNCHANGED <<heard, lagged>>
  BY DEF SubscribeChannel, TakeReplay
<1>3. InOrder(l)'
  BY <1>1, <1>2 DEF InOrder
<1>4. CASE SubscribeChannel(l)
  <2>1. pc[l] = "off" /\ pc'[l] = "subscribed" /\ rx'[l] = sent
    BY <1>4 DEF SubscribeChannel, TypeOK
  <2>2. sent <= sent'
    BY <1>1, JoinTypes
  <2>3. QED
    BY <1>1, <1>2, <1>3, <2>1, <2>2 DEF JoinInv
<1>5. CASE TakeReplay(l)
  <2>1. /\ pc[l] = "subscribed" /\ pc'[l] = "replay" /\ rx'[l] = rx[l]
        /\ next'[l] = oldest /\ through'[l] = NextSequence - 1
    BY <1>5 DEF TakeReplay, TypeOK
  <2>2. heard'[l] = <<>> /\ ~lagged'[l] /\ rx[l] <= sent
    BY <1>1, <1>2, <2>1 DEF JoinInv
  <2>3. rx'[l] <= sent' /\ next'[l] <= through'[l] + 1 /\ rx'[l] <= through'[l] + 1
        /\ through'[l] < NextSequence'
    BY <1>1, <2>1, <2>2, JoinTypes
  <2>4. QED
    BY <1>3, <2>1, <2>2, <2>3 DEF JoinInv, Heard
<1>6. QED
  BY <1>4, <1>5

LEMMA ReplayDelivery ==
  ASSUME DeliveryInv, NEW l \in Listeners, UNCHANGED streamVars, Replay(l)
  PROVE  JoinInv(l)' /\ InOrder(l)'
<1> USE DEF DeliveryInv
<1>1. /\ JoinInv(l) /\ InOrder(l) /\ TypeOK
      /\ UNCHANGED <<sent, exited, NextSequence>>
  BY DEF streamVars, NextSequence
<1>2. /\ pc[l] = "replay" /\ next[l] <= through[l]
      /\ heard' = [heard EXCEPT ![l] = Append(@, next[l])]
      /\ heard'[l] = Append(heard[l], next[l])
      /\ next'[l] = next[l] + 1
      /\ pc'[l] = IF IsExit(next[l]) THEN "done" ELSE "replay"
      /\ UNCHANGED <<rx, through, lagged>>
  BY DEF Replay, Deliver, TypeOK
<1>3. /\ heard[l] \in Seq(Nat) /\ next[l] \in Nat /\ rx[l] \in Nat
      /\ through[l] \in Nat \cup {-1} /\ NextSequence \in Nat
  BY <1>1, JoinTypes
<1>4. /\ Heard(l, next[l] - 1) /\ ~lagged[l]
      /\ rx[l] <= through[l] + 1 /\ through[l] < NextSequence /\ rx[l] <= sent
  BY <1>1, <1>2 DEF JoinInv
<1>5. InOrder(l)'
  <2>1. HeardBelow(l, next[l])
    BY <1>3, <1>4 DEF Heard, HeardBelow
  <2>2. QED
    BY <1>1, <1>2, <1>3, <1>4, <2>1, DeliverInOrder
<1>6. heard'[l] # <<>> /\ Last(heard'[l]) = next[l]
  BY <1>2, <1>3, OneMore
<1>7. CASE IsExit(next[l])
  BY <1>1, <1>2, <1>4, <1>5, <1>6, <1>7 DEF JoinInv, IsExit
<1>8. CASE ~IsExit(next[l])
  <2>1. /\ next'[l] - 1 = next[l] /\ next'[l] <= through[l] + 1
    BY <1>2, <1>3
  <2>2. QED
    BY <1>1, <1>2, <1>4, <1>5, <1>6, <1>8, <2>1 DEF JoinInv, Heard
<1>9. QED
  BY <1>7, <1>8

LEMMA EndReplayDelivery ==
  ASSUME DeliveryInv, NEW l \in Listeners, UNCHANGED streamVars, EndReplay(l)
  PROVE  JoinInv(l)' /\ InOrder(l)'
<1> USE DEF DeliveryInv
<1>1. /\ JoinInv(l) /\ InOrder(l) /\ TypeOK
      /\ UNCHANGED <<sent, exited, NextSequence>>
  BY DEF streamVars, NextSequence
<1>2. /\ pc[l] = "replay" /\ next[l] > through[l] /\ pc'[l] = "live"
      /\ UNCHANGED <<rx, through, heard, lagged>>
  BY DEF EndReplay, TypeOK
<1>3. InOrder(l)'
  BY <1>1, <1>2 DEF InOrder
<1>4. /\ Heard(l, through[l]) /\ rx[l] <= through[l] + 1 /\ rx[l] <= sent
  <2>1. next[l] - 1 = through[l]
    BY <1>1, <1>2, JoinTypes DEF JoinInv
  <2>2. QED
    BY <1>1, <1>2, <2>1 DEF JoinInv
<1>5. HeardBelow(l, through[l] + 1)
  BY <1>1, <1>4, JoinTypes DEF Heard, HeardBelow
<1>6. ~(rx[l] > through[l] + 1)
  BY <1>1, <1>4, JoinTypes
<1>7. QED
  BY <1>1, <1>2, <1>3, <1>4, <1>5, <1>6 DEF JoinInv, Heard, HeardBelow

\* What the channel delivers beyond the replay follows what was heard.
LEMMA ReceiveDelivery ==
  ASSUME DeliveryInv, NEW l \in Listeners, UNCHANGED streamVars, Receive(l)
  PROVE  JoinInv(l)' /\ InOrder(l)'
<1> USE DEF DeliveryInv
<1>1. /\ JoinInv(l) /\ InOrder(l) /\ TypeOK
      /\ UNCHANGED <<sent, exited, NextSequence>>
  BY DEF streamVars, NextSequence
<1>2. /\ pc[l] = "live" /\ rx[l] < sent /\ rx'[l] = rx[l] + 1
      /\ UNCHANGED <<through, lagged>>
  BY DEF Receive, TypeOK
<1>3. /\ heard[l] \in Seq(Nat) /\ rx[l] \in Nat /\ lagged[l] \in BOOLEAN
      /\ through[l] \in Nat \cup {-1} /\ NextSequence \in Nat /\ sent \in Nat
  BY <1>1, JoinTypes
<1>4. CASE Seen(l, rx[l])
  <2>1. UNCHANGED <<pc, heard>>
    BY <1>4 DEF Receive
  <2>2. rx[l] <= through[l] /\ rx'[l] <= through[l] + 1 /\ rx'[l] <= sent
    BY <1>2, <1>3, <1>4 DEF Seen
  <2>3. InOrder(l)'
    BY <1>1, <1>2, <2>1 DEF InOrder
  <2>4. rx[l] <= through[l] + 1 /\ ~(rx'[l] > through[l] + 1)
    BY <1>3, <2>2, <1>2
  <2>5. HeardBelow(l, through[l] + 1) /\ (lagged[l] \/ Heard(l, through[l]))
    BY <1>1, <1>2, <2>4 DEF JoinInv
  <2>6. QED
    BY <1>1, <1>2, <2>1, <2>2, <2>3, <2>4, <2>5 DEF JoinInv, Heard, HeardBelow
<1>5. CASE ~Seen(l, rx[l])
  <2>1. /\ heard' = [heard EXCEPT ![l] = Append(@, rx[l])]
        /\ heard'[l] = Append(heard[l], rx[l])
        /\ pc'[l] = IF IsExit(rx[l]) THEN "done" ELSE "live"
    BY <1>2, <1>5 DEF Receive, Deliver, TypeOK
  <2>2. rx[l] >= through[l] + 1
    BY <1>3, <1>5 DEF Seen
  <2>3. HeardBelow(l, rx[l]) /\ (lagged[l] \/ Heard(l, rx[l] - 1))
    <3>1. CASE rx[l] = through[l] + 1
      <4>1. rx[l] - 1 = through[l] /\ rx[l] <= through[l] + 1
        BY <1>3, <3>1
      <4>2. QED
        BY <1>1, <1>2, <3>1, <4>1 DEF JoinInv
    <3>2. CASE rx[l] > through[l] + 1
      BY <1>1, <1>2, <3>2 DEF JoinInv
    <3>3. QED
      BY <1>3, <2>2, <3>1, <3>2
  <2>4. InOrder(l)'
    BY <1>1, <1>2, <1>3, <2>1, <2>3, DeliverInOrder
  <2>5. heard'[l] # <<>> /\ Last(heard'[l]) = rx[l]
    BY <1>3, <2>1, OneMore
  <2>6. rx'[l] <= sent' /\ rx'[l] > through'[l] + 1 /\ rx'[l] - 1 = rx[l] /\ rx[l] < rx'[l]
    BY <1>1, <1>2, <1>3, <2>2
  <2>7. CASE IsExit(rx[l])
    BY <1>1, <2>1, <2>4, <2>5, <2>6, <2>7 DEF JoinInv, IsExit
  <2>8. CASE ~IsExit(rx[l])
    <3>1. ~(rx'[l] <= through'[l] + 1)
      BY <1>2, <1>3, <2>6
    <3>2. QED
      BY <2>1, <2>4, <2>5, <2>6, <2>8, <3>1 DEF JoinInv, Heard, HeardBelow
  <2>9. QED
    BY <2>7, <2>8
<1>6. QED
  BY <1>4, <1>5

LEMMA LaggedDelivery ==
  ASSUME DeliveryInv, NEW l \in Listeners, UNCHANGED streamVars, Lagged(l)
  PROVE  JoinInv(l)' /\ InOrder(l)'
<1> USE DEF DeliveryInv
<1>1. /\ JoinInv(l) /\ InOrder(l) /\ TypeOK
      /\ UNCHANGED <<sent, exited, NextSequence>>
  BY DEF streamVars, NextSequence
<1>2. /\ pc[l] = "live" /\ rx[l] < sent - Capacity /\ rx'[l] = sent - Capacity
      /\ lagged'[l] = TRUE /\ UNCHANGED <<pc, through, heard>>
  BY DEF Lagged, Overrun, TypeOK
<1>3. /\ heard[l] \in Seq(Nat) /\ rx[l] \in Nat
      /\ through[l] \in Nat \cup {-1} /\ sent \in Nat /\ Capacity \in Nat
  BY <1>1, JoinTypes, TerminalAssumption
<1>4. rx'[l] <= sent' /\ rx[l] < rx'[l] /\ rx'[l] \in Int
  BY <1>1, <1>2, <1>3
<1>5. InOrder(l)'
  BY <1>1, <1>2 DEF InOrder
<1>6. heard[l] # <<>> => Last(heard[l]) \in Nat
  <2>1. heard[l] # <<>> => Len(heard[l]) > 0
    BY <1>3
  <2>2. QED
    BY <1>3, <2>1, LastOne
<1>7. rx'[l] <= through[l] + 1 => HeardBelow(l, through[l] + 1)
  <2>1. rx'[l] <= through[l] + 1 => rx[l] <= through[l] + 1
    BY <1>3, <1>4
  <2>2. QED
    BY <1>1, <1>2, <2>1 DEF JoinInv
<1>8. rx'[l] > through[l] + 1 => HeardBelow(l, rx'[l])
  <2>1. CASE rx[l] <= through[l] + 1
    BY <1>1, <1>2, <1>3, <1>4, <1>6, <2>1 DEF JoinInv, HeardBelow
  <2>2. CASE rx[l] > through[l] + 1
    BY <1>1, <1>2, <1>3, <1>4, <1>6, <2>2 DEF JoinInv, HeardBelow
  <2>3. QED
    BY <1>3, <2>1, <2>2
<1>9. QED
  BY <1>2, <1>4, <1>5, <1>7, <1>8 DEF JoinInv, Heard, HeardBelow

LEMMA ListenerDelivery ==
  ASSUME DeliveryInv, TypeOK', NEW l \in Listeners, UNCHANGED streamVars,
         Listening(l) \/ SubscribeChannel(l)
  PROVE  DeliveryInv'
<1>1. TypeOK /\ ForwarderInv
  BY DEF DeliveryInv
<1>2. ForwarderInv'
  BY <1>1 DEF ForwarderInv, streamVars, NextSequence
<1>3. JoinInv(l)' /\ InOrder(l)'
  BY SubscribeDelivery, ReplayDelivery, EndReplayDelivery, ReceiveDelivery, LaggedDelivery
     DEF Listening
<1>4. ASSUME NEW m \in Listeners \ {l} PROVE JoinInv(m)' /\ InOrder(m)'
  <2>1. Untouched(m)
    BY <1>1, OthersUntouched
  <2>2. QED
    BY <2>1, UntouchedInv DEF DeliveryInv
<1>5. QED
  BY <1>2, <1>3, <1>4 DEF DeliveryInv

LEMMA StepDelivery == DeliveryInv /\ [Next]_vars => DeliveryInv'
<1> SUFFICES ASSUME DeliveryInv, [Next]_vars PROVE DeliveryInv'
  OBVIOUS
<1>1. TypeOK'
  BY StepType DEF DeliveryInv
<1>2. CASE ForwardChunk \/ ForwardExit \/ Broadcast
  BY <1>1, <1>2, ForwarderDelivery
<1>3. ASSUME NEW l \in Listeners, SubscribeView(l) \/ Listening(l) PROVE DeliveryInv'
  <2>1. UNCHANGED streamVars /\ (Listening(l) \/ SubscribeChannel(l))
    BY <1>3 DEF SubscribeView, Listening, TakeReplay, Replay, EndReplay, Receive, Lagged
  <2>2. QED
    BY <1>1, <2>1, ListenerDelivery
<1>4. CASE SubscribeRing
  <2>1. Ring \in Listeners /\ UNCHANGED streamVars /\ SubscribeChannel(Ring)
    BY <1>4 DEF SubscribeRing, Listeners
  <2>2. QED
    BY <1>1, <2>1, ListenerDelivery
<1>5. CASE UNCHANGED <<streamVars, listenerVars>>
  <2>1. ForwarderInv'
    BY <1>5 DEF DeliveryInv, ForwarderInv, streamVars, NextSequence
  <2>2. ASSUME NEW l \in Listeners PROVE JoinInv(l)' /\ InOrder(l)'
    <3>1. Untouched(l) /\ UNCHANGED streamVars
      BY <1>5 DEF Untouched, listenerVars
    <3>2. QED
      BY <3>1, UntouchedInv DEF DeliveryInv
  <2>3. QED
    BY <1>1, <2>1, <2>2 DEF DeliveryInv
<1>6. QED
  <2>1. CASE UNCHANGED vars
    BY <1>5, <2>1 DEF vars
  <2>2. CASE Opening \/ DropHandleOnExit
    BY <1>4, <1>5, <2>2 DEF Opening, InsertHandle, OpenRecord, DropHandleOnExit
  <2>3. ASSUME NEW c \in Closers, CloseRemoves(c) \/ CloseSession(c) \/ CloseMarks(c)
        PROVE  DeliveryInv'
    BY <1>5, <2>3 DEF CloseRemoves, CloseSession, CloseMarks
  <2>4. ASSUME NEW f \in Forgetters, ForgetHandle(f) \/ ForgetRecord(f) PROVE DeliveryInv'
    BY <1>5, <2>4 DEF ForgetHandle, ForgetRecord
  <2>5. QED
    BY <1>2, <1>3, <2>1, <2>2, <2>3, <2>4 DEF Next

LEMMA DeliveryHolds == Spec => []DeliveryInv
BY InitDelivery, StepDelivery, PTL DEF Spec

\* No listener is told an event twice or out of order, and one that the
\* channel did not overrun misses none after its first.
THEOREM NothingTwiceOrMissingHolds == Spec => []NothingTwiceOrMissing
<1>1. DeliveryInv => NothingTwiceOrMissing
  BY DEF DeliveryInv, InOrder, NothingTwiceOrMissing
<1>2. QED
  BY <1>1, DeliveryHolds, PTL

\* A listener that has stopped has been told of the exit, last of all.
THEOREM DoneHeardTheExitHolds == Spec => []DoneHeardTheExit
<1>1. DeliveryInv => DoneHeardTheExit
  BY DEF DeliveryInv, JoinInv, DoneHeardTheExit
<1>2. QED
  BY <1>1, DeliveryHolds, PTL
-----------------------------------------------------------------------------
(* A forgotten terminal.                                                   *)

\* Whoever forgets the session knows it from its record, so that the record was
\* made before; from then on nobody makes one.
ForgetInv == \A f \in Forgetters :
  /\ call[f] # "idle" => opening \in {"record", "opened"}
  /\ call[f] = "done" => record = "none"

LEMMA RecordStays ==
  ASSUME ForgetInv, Next, NEW f \in Forgetters, call[f] = "done"
  PROVE  record' = "none"
<1>1. record = "none" /\ opening \in {"record", "opened"}
  BY DEF ForgetInv
<1>2. ASSUME NEW l, NEW n, Deliver(l, n) PROVE record' = "none"
  BY <1>1, <1>2 DEF Deliver, MarkExited
<1>3. ASSUME NEW l \in Listeners, SubscribeView(l) \/ Listening(l) PROVE record' = "none"
  <2>1. CASE Replay(l)
    BY <1>2, <2>1 DEF Replay
  <2>2. CASE Receive(l)
    BY <1>1, <1>2, <2>2 DEF Receive, storeVars
  <2>3. QED
    BY <1>1, <1>3, <2>1, <2>2 DEF SubscribeView, Listening, TakeReplay, EndReplay, Lagged, storeVars
<1>4. CASE ForwardChunk \/ ForwardExit \/ Broadcast
  BY <1>1, <1>4 DEF ForwardChunk, ForwardExit, Broadcast, storeVars
<1>5. CASE Opening \/ DropHandleOnExit
  BY <1>1, <1>5 DEF Opening, InsertHandle, OpenRecord, SubscribeRing, DropHandleOnExit
<1>6. ASSUME NEW c \in Closers, CloseRemoves(c) \/ CloseSession(c) \/ CloseMarks(c)
      PROVE  record' = "none"
  BY <1>1, <1>6 DEF CloseRemoves, CloseSession, CloseMarks, MarkExited
<1>7. ASSUME NEW g \in Forgetters, ForgetHandle(g) \/ ForgetRecord(g) PROVE record' = "none"
  BY <1>1, <1>7 DEF ForgetHandle, ForgetRecord
<1>8. QED
  BY <1>3, <1>4, <1>5, <1>6, <1>7 DEF Next

LEMMA CallsByWhom ==
  ASSUME TypeOK, Next, NEW f \in Forgetters, call'[f] # call[f]
  PROVE  (ForgetHandle(f) \/ ForgetRecord(f)) /\ UNCHANGED opening
<1>1. ASSUME NEW l, NEW n, Deliver(l, n) PROVE FALSE
  BY <1>1 DEF Deliver
<1>2. ASSUME NEW l \in Listeners, SubscribeView(l) \/ Listening(l) PROVE FALSE
  <2>1. CASE Replay(l)
    BY <1>1, <2>1 DEF Replay
  <2>2. CASE Receive(l)
    BY <1>1, <2>2 DEF Receive, storeVars
  <2>3. QED
    BY <1>2, <2>1, <2>2 DEF SubscribeView, Listening, TakeReplay, EndReplay, Lagged, storeVars
<1>3. ~(ForwardChunk \/ ForwardExit \/ Broadcast \/ Opening \/ DropHandleOnExit)
  BY DEF ForwardChunk, ForwardExit, Broadcast, storeVars, Opening, InsertHandle, OpenRecord,
         SubscribeRing, DropHandleOnExit
<1>4. ASSUME NEW c \in Closers, CloseRemoves(c) \/ CloseSession(c) \/ CloseMarks(c)
      PROVE  FALSE
  <2>1. c # f
    BY TerminalAssumption
  <2>2. QED
    BY <1>4, <2>1 DEF CloseRemoves, CloseSession, CloseMarks, TypeOK
<1>5. ASSUME NEW g \in Forgetters, ForgetHandle(g) \/ ForgetRecord(g)
      PROVE  g = f
  BY <1>5 DEF ForgetHandle, ForgetRecord, TypeOK
<1>6. QED
  BY <1>2, <1>3, <1>4, <1>5 DEF Next, ForgetHandle, ForgetRecord

LEMMA StepForget ==
  ASSUME TypeOK, ForgetInv, Next
  PROVE  ForgetInv'
<1> SUFFICES ASSUME NEW f \in Forgetters
             PROVE  /\ call'[f] # "idle" => opening' \in {"record", "opened"}
                    /\ call'[f] = "done" => record' = "none"
  BY DEF ForgetInv
<1>1. CASE call'[f] = call[f]
  <2>1. opening \in {"record", "opened"} => opening' \in {"record", "opened"}
    <3>1. ASSUME NEW l \in Listeners, Listening(l) PROVE opening' = opening
      BY <3>1 DEF Listening, TakeReplay, Replay, EndReplay, Receive, Lagged, Deliver, storeVars
    <3>2. QED
      BY <3>1 DEF Next, ForwardChunk, ForwardExit, Broadcast, Opening, InsertHandle, OpenRecord,
         SubscribeRing, DropHandleOnExit, SubscribeView, CloseRemoves, CloseSession, CloseMarks,
         ForgetHandle, ForgetRecord, storeVars
  <2>2. call[f] = "done" => record' = "none"
    BY RecordStays
  <2>3. QED
    BY <1>1, <2>1, <2>2 DEF ForgetInv
<1>2. CASE call'[f] # call[f]
  <2>1. CASE ForgetHandle(f)
    BY <1>2, <2>1, CallsByWhom DEF ForgetHandle, TypeOK
  <2>2. CASE ForgetRecord(f)
    BY <1>2, <2>2, CallsByWhom DEF ForgetRecord, ForgetInv
  <2>3. QED
    BY <1>2, <2>1, <2>2, CallsByWhom
<1>3. QED
  BY <1>1, <1>2

\* Once forget_terminal_session has returned, no step brings the record back:
\* neither the ring's exit nor a close that marks it late.
THEOREM ForgottenHolds == Spec => ForgottenStaysForgotten
<1>1. Init => ForgetInv
  BY DEF Init, ForgetInv
<1>2. TypeOK /\ ForgetInv /\ [Next]_vars => ForgetInv'
  <2>1. ASSUME ForgetInv, UNCHANGED vars PROVE ForgetInv'
    BY <2>1 DEF ForgetInv, vars, storeVars
  <2>2. QED
    BY <2>1, StepForget
<1>3. ForgetInv /\ [Next]_vars =>
        [(\E f \in Forgetters : call[f] = "done") => record' = "none"]_vars
  BY RecordStays
<1>4. Spec => []ForgetInv
  BY <1>1, <1>2, TypeCorrect, PTL DEF Spec
<1>5. QED
  BY <1>3, <1>4, PTL DEF Spec, ForgottenStaysForgotten
=============================================================================
