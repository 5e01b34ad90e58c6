------------------------- MODULE IpcReconnectProofs -------------------------
(* Safety of IpcReconnect for any callers, handlers, connections and attempts. *)
EXTENDS IpcReconnect, TLAPS

-----------------------------------------------------------------------------
(* Type correctness.  Its parts: where the clones are; how many connections,  *)
(* attempts and signals there are (the loop goes on only with attempts left,  *)
(* a waiting signal was sent by an invalidate); what a connection holds.      *)

CloneType ==
  /\ {client, current, newClient, shutdownOn} \subseteq 0 .. opened
  /\ (newClient # NoConn) <=> (loop \in {"register", "store"})
  /\ (current # NoConn) <=> (loop = "select")
  /\ \A r \in Callers : (callerOn[r] # NoConn) <=> (caller[r] \in {"register", "send", "wait"})
  /\ \A h \in Handlers : (setterOn[h] # NoConn) <=> (setter[h] = "cloned")

CountType ==
  /\ opened \in 0 .. MaxConns /\ attempt \in 0 .. MaxAttempts + 1
  /\ invalidate \in Nat /\ recycles \in 0 .. MaxRecycles /\ invalidate <= recycles
  /\ loop # "gaveUp" => attempt <= MaxAttempts

Tables == [Conns -> SUBSET Callers]
Queues == [Conns -> {q \in Seq(Callers \cup {Answer}) : Len(q) <= QueueCap}]
ReadStates == {"none", "running", "answering", "ended", "aborted"}
ConnType ==
  /\ readTask \in [Conns -> ReadStates]
  /\ writeTask \in [Conns -> {"none", "running", "ended", "aborted"}]
  /\ pending \in Tables /\ queued \in Queues /\ asked \in Tables
  /\ registered \in [Conns -> Handlers \cup {NoHandler}]
  /\ handler \in Handlers \cup {NoHandler}

ThreadType ==
  /\ DOMAIN caller = Callers /\ DOMAIN callerOn = Callers
  /\ DOMAIN setter = Handlers /\ DOMAIN setterOn = Handlers

Types == CloneType /\ CountType /\ ConnType /\ ThreadType

LEMMA TypesSuffice == Types => TypeOK
BY IpcAssumption DEF Types, CloneType, CountType, ConnType, Tables, Queues, TypeOK, Conns

LEMMA InitTypes == Init => Types
BY IpcAssumption
DEF Init, Types, CloneType, CountType, ConnType, Tables, Queues, ReadStates, ThreadType, Conns, NoConn

\* A queue with room, and one entry more or one less.
LEMMA QueueAt ==
  ASSUME NEW q \in Queues, NEW c \in Conns
  PROVE  /\ \A e \in Callers \cup {Answer} : Len(q[c]) < QueueCap
              => [q EXCEPT ![c] = Append(q[c], e)] \in Queues
         /\ q[c] # << >> => [q EXCEPT ![c] = Tail(q[c])] \in Queues
         /\ [q EXCEPT ![c] = << >>] \in Queues
<1> DEFINE S == Callers \cup {Answer}
           Q == {s \in Seq(S) : Len(s) <= QueueCap}
<1>1. q[c] \in Seq(S) /\ Len(q[c]) <= QueueCap /\ Len(q[c]) \in Nat /\ QueueCap \in Nat
  BY IpcAssumption DEF Queues
<1>2. \A e \in S : Len(q[c]) < QueueCap => Append(q[c], e) \in Q
  BY <1>1
<1>3. q[c] # << >> => Tail(q[c]) \in Q
  BY <1>1
<1>4. << >> \in Q
  BY <1>1
<1>5. \A s \in Q : [q EXCEPT ![c] = s] \in Queues
  BY DEF Queues
<1> HIDE DEF Q
<1> QED  BY <1>2, <1>3, <1>4, <1>5

\* A table in which the entry of one connection changes.
LEMMA TableAt ==
  ASSUME NEW f \in Tables, NEW c, NEW S \in SUBSET Callers
  PROVE  [f EXCEPT ![c] = S] \in Tables
BY DEF Tables

LEMMA Bounds ==
  /\ MaxConns \in Nat /\ MaxAttempts \in Nat /\ MaxRecycles \in Nat
  /\ MaxAttempts > 0 /\ QueueCap \in Nat /\ QueueCap > 0 /\ NoHandler \notin Handlers
BY IpcAssumption

LEMMA NoQueue == << >> \in {q \in Seq(Callers \cup {Answer}) : Len(q) <= QueueCap}
BY Bounds

LEMMA CloseTypes ==
  ASSUME ConnType, NEW c, CloseConnection(c)
  PROVE  /\ readTask' \in [Conns -> ReadStates]
         /\ writeTask' \in [Conns -> {"none", "running", "ended", "aborted"}]
         /\ pending' \in Tables /\ asked' \in Tables /\ queued' \in Queues
BY NoQueue DEF ConnType, CloseConnection, Clear, Tables, Queues, ReadStates

LEMMA LoopTypes ==
  ASSUME Types, Loop
  PROVE  Types'
<1>1. CASE Top
  BY <1>1, Bounds
  DEF Top, wrapperVars, connVars, tasks, requests, callerVars, setterVars, stopVars, Goto,
      Types, CloneType, CountType, ConnType, ThreadType, Conns, NoConn
<1>2. CASE Invalidated
  <2>1. ConnType'
    BY <1>2, CloseTypes DEF Invalidated, Recycle, Types, ConnType
  <2>2. CloneType' /\ CountType' /\ ThreadType'
    BY <1>2, Bounds
    DEF Invalidated, connVars, tasks, requests, callerVars, setterVars, stopVars, Goto,
        Types, CloneType, CountType, ThreadType, Conns, NoConn
  <2> QED  BY <2>1, <2>2 DEF Types
<1>3. CASE ClearSlot
  BY <1>3, Bounds
  DEF ClearSlot, connVars, tasks, requests, callerVars, setterVars, stopVars, Goto, Types,
      CloneType, CountType, ConnType, ThreadType, Conns, NoConn
<1>4. CASE AnnounceLost
  BY <1>4, Bounds
  DEF AnnounceLost, connVars, tasks, requests, callerVars, setterVars, stopVars, Goto, Types,
      CloneType, CountType, ConnType, ThreadType, Conns, NoConn
<1>5. CASE Attempt
  BY <1>5, Bounds
  DEF Attempt, wrapperVars, connVars, tasks, requests, callerVars, setterVars, stopVars, Goto,
      Types, CloneType, CountType, ConnType, ThreadType, Conns, NoConn
<1>6. CASE Connected
  BY <1>6, Bounds
  DEF Connected, wrapperVars, tasks, requests, callerVars, setterVars, stopVars, Goto, Open,
      Types, CloneType, CountType, ConnType, ThreadType, Conns, NoConn, ReadStates
<1>7. CASE ConnectFails
  <2>1. /\ readTask' \in [Conns -> ReadStates]
        /\ writeTask' \in [Conns -> {"none", "running", "ended", "aborted"}]
        /\ opened' \in opened .. MaxConns
    BY <1>7, Bounds DEF ConnectFails, Open, Types, CountType, ConnType, ReadStates
  <2>2. ConnType'
    BY <1>7, <2>1 DEF ConnectFails, wrapperVars, tasks, requests, Types, ConnType
  <2>3. CloneType' /\ CountType' /\ ThreadType'
    BY <1>7, <2>1, Bounds
    DEF ConnectFails, wrapperVars, callerVars, setterVars, stopVars, Goto, Types, CloneType,
        CountType, ThreadType, NoConn
  <2> QED  BY <2>2, <2>3 DEF Types
<1>8. CASE Register
  BY <1>8, Bounds
  DEF Register, wrapperVars, tasks, requests, callerVars, setterVars, stopVars, Goto, Types,
      CloneType, CountType, ConnType, ThreadType, Conns, NoConn
<1>9. CASE Store
  BY <1>9, Bounds
  DEF Store, connVars, tasks, requests, callerVars, setterVars, stopVars, Goto, Types,
      CloneType, CountType, ConnType, ThreadType, Conns, NoConn
<1>10. CASE Announce
  BY <1>10, Bounds
  DEF Announce, connVars, tasks, requests, callerVars, setterVars, stopVars, Goto, Types,
      CloneType, CountType, ConnType, ThreadType, Conns, NoConn
<1>11. CASE Cancelled
  BY <1>11, Bounds
  DEF Cancelled, wrapperVars, connVars, tasks, requests, callerVars, setterVars, stopVars,
      Goto, Types, CloneType, CountType, ConnType, ThreadType, Conns, NoConn
<1> QED  BY <1>1, <1>2, <1>3, <1>4, <1>5, <1>6, <1>7, <1>8, <1>9, <1>10, <1>11 DEF Loop

LEMMA TaskTypes ==
  ASSUME Types, NEW c \in Conns,
         \/ Write(c) \/ WriteFails(c) \/ ReadAnswer(c) \/ ReadDiscovery(c)
         \/ AnswerDiscovery(c) \/ HandlerAnswers(c) \/ ReadEnd(c) \/ PeerCloses(c)
  PROVE  Types'
<1>1. CASE Write(c)
  <2>1. queued' \in Queues
    BY <1>1, QueueAt DEF Write, Types, ConnType
  <2>2. asked' \in Tables
    BY <1>1 DEF Write, Types, ConnType, Tables
  <2>3. ConnType'
    BY <1>1, <2>1, <2>2 DEF Write, wrapperVars, tasks, Types, ConnType
  <2>4. CloneType' /\ CountType' /\ ThreadType'
    BY <1>1, Bounds
    DEF Write, wrapperVars, loopVars, callerVars, setterVars, stopVars, Types, CloneType,
        CountType, ThreadType, Conns, NoConn
  <2> QED  BY <2>3, <2>4 DEF Types
<1>5. CASE WriteFails(c)
  <2>1. queued' \in Queues
    BY <1>5, QueueAt DEF WriteFails, Types, ConnType
  <2>2. ConnType'
    BY <1>5, <2>1 DEF WriteFails, wrapperVars, Types, ConnType
  <2>3. CloneType' /\ CountType' /\ ThreadType'
    BY <1>5, Bounds
    DEF WriteFails, wrapperVars, loopVars, callerVars, setterVars, stopVars, Types, CloneType,
        CountType, ThreadType, Conns, NoConn
  <2> QED  BY <2>2, <2>3 DEF Types
<1>6. CASE ReadDiscovery(c)
  BY <1>6, Bounds
  DEF ReadDiscovery, wrapperVars, loopVars, requests, callerVars, setterVars, stopVars, Types,
      CloneType, CountType, ConnType, ThreadType, Conns, NoConn, ReadStates
<1>7. CASE AnswerDiscovery(c)
  <2>1. queued' \in Queues
    <3>1. CASE writeTask[c] = "running"
      <4>1. queued' = [queued EXCEPT ![c] = Append(queued[c], Answer)] /\ Len(queued[c]) < QueueCap
        BY <1>7, <3>1 DEF AnswerDiscovery, Enqueue, HasRoom
      <4> QED  BY <4>1, QueueAt DEF Types, ConnType
    <3>2. CASE writeTask[c] # "running"
      BY <1>7, <3>2 DEF AnswerDiscovery, Types, ConnType
    <3> QED  BY <3>1, <3>2
  <2>2. readTask' \in [Conns -> ReadStates]
    BY <1>7 DEF AnswerDiscovery, Types, ConnType, ReadStates
  <2>3. ConnType'
    BY <1>7, <2>1, <2>2 DEF AnswerDiscovery, wrapperVars, Types, ConnType
  <2>4. CloneType' /\ CountType' /\ ThreadType'
    BY <1>7, Bounds
    DEF AnswerDiscovery, wrapperVars, loopVars, callerVars, setterVars, stopVars, Types,
        CloneType, CountType, ThreadType, Conns, NoConn
  <2> QED  BY <2>3, <2>4 DEF Types
<1>8. CASE HandlerAnswers(c)
  <2>1. queued' = [queued EXCEPT ![c] = Append(queued[c], Answer)] /\ Len(queued[c]) < QueueCap
    BY <1>8 DEF HandlerAnswers, Enqueue, HasRoom
  <2>2. queued' \in Queues
    BY <2>1, QueueAt DEF Types, ConnType
  <2>3. ConnType'
    BY <1>8, <2>2 DEF HandlerAnswers, wrapperVars, tasks, Types, ConnType
  <2>4. CloneType' /\ CountType' /\ ThreadType'
    BY <1>8, Bounds
    DEF HandlerAnswers, wrapperVars, loopVars, callerVars, setterVars, stopVars, Types,
        CloneType, CountType, ThreadType, Conns, NoConn
  <2> QED  BY <2>3, <2>4 DEF Types
<1>2. CASE ReadAnswer(c)
  <2>1. ConnType'
    BY <1>2, TableAt DEF ReadAnswer, Resolve, wrapperVars, tasks, Types, ConnType, Tables
  <2>2. CloneType' /\ CountType' /\ ThreadType'
    BY <1>2, Bounds
    DEF ReadAnswer, wrapperVars, loopVars, tasks, setterVars, stopVars, Types, CloneType,
        CountType, ThreadType, Conns, NoConn
  <2> QED  BY <2>1, <2>2 DEF Types
<1>3. CASE ReadEnd(c)
  <2>1. ConnType'
    BY <1>3 DEF ReadEnd, Clear, wrapperVars, Types, ConnType, Tables, ReadStates
  <2>2. CloneType' /\ CountType' /\ ThreadType'
    BY <1>3, Bounds
    DEF ReadEnd, wrapperVars, loopVars, setterVars, stopVars, Types, CloneType, CountType,
        ThreadType, Conns, NoConn
  <2> QED  BY <2>1, <2>2 DEF Types
<1>4. CASE PeerCloses(c)
  BY <1>4, Bounds
  DEF PeerCloses, wrapperVars, loopVars, requests, callerVars, setterVars, stopVars, Types,
      CloneType, CountType, ConnType, ThreadType, Conns, NoConn
<1> QED  BY <1>1, <1>2, <1>3, <1>4, <1>5, <1>6, <1>7, <1>8

LEMMA CallTypes ==
  ASSUME Types, NEW r \in Callers,
         \/ CallerTakesClone(r) \/ CallerRegisters(r) \/ CallerSends(r)
         \/ RequestTimeout(r) \/ CallerReturns(r)
  PROVE  Types'
<1>1. CASE CallerTakesClone(r)
  BY <1>1, Bounds
  DEF CallerTakesClone, wrapperVars, loopVars, connVars, tasks, requests, setterVars,
      stopVars, Types, CloneType, CountType, ConnType, ThreadType, Conns, NoConn
<1>2. CASE CallerRegisters(r)
  <2>1. ConnType'
    BY <1>2, TableAt DEF CallerRegisters, Insert, wrapperVars, tasks, Types, ConnType, Tables
  <2>2. CloneType' /\ CountType' /\ ThreadType'
    BY <1>2, Bounds
    DEF CallerRegisters, wrapperVars, loopVars, tasks, setterVars, stopVars, Types,
        CloneType, CountType, ThreadType, Conns, NoConn
  <2> QED  BY <2>1, <2>2 DEF Types
<1>3. CASE CallerSends(r)
  <2>1. ConnType'
    <3>1. ASSUME writeTask[callerOn[r]] = "running" PROVE queued' \in Queues
      <4>1. /\ queued' = [queued EXCEPT ![callerOn[r]] = Append(queued[callerOn[r]], r)]
            /\ Len(queued[callerOn[r]]) < QueueCap
        BY <1>3, <3>1 DEF CallerSends, Enqueue, HasRoom
      <4>2. callerOn[r] \in Conns => queued' \in Queues
        BY <4>1, QueueAt DEF Types, ConnType
      <4>3. callerOn[r] \notin Conns => queued' = queued
        BY <4>1 DEF Types, ConnType, Queues
      <4> QED  BY <4>2, <4>3 DEF Types, ConnType
    <3>2. ASSUME writeTask[callerOn[r]] # "running" PROVE queued' \in Queues
      BY <1>3, <3>2 DEF CallerSends, Types, ConnType
    <3>3. queued' \in Queues
      BY <3>1, <3>2
    <3> QED  BY <1>3, <3>3 DEF CallerSends, wrapperVars, tasks, Types, ConnType
  <2>2. CloneType' /\ CountType' /\ ThreadType'
    BY <1>3, Bounds
    DEF CallerSends, wrapperVars, loopVars, tasks, setterVars, stopVars, Types, CloneType,
        CountType, ThreadType, Conns, NoConn
  <2> QED  BY <2>1, <2>2 DEF Types
<1>4. CASE RequestTimeout(r)
  BY <1>4, Bounds
  DEF RequestTimeout, wrapperVars, loopVars, connVars, tasks, requests, setterVars, stopVars,
      Types, CloneType, CountType, ConnType, ThreadType, Conns, NoConn
<1>5. CASE CallerReturns(r)
  BY <1>5, Bounds
  DEF CallerReturns, wrapperVars, loopVars, connVars, tasks, requests, setterVars, stopVars,
      Types, CloneType, CountType, ConnType, ThreadType, Conns, NoConn
<1> QED  BY <1>1, <1>2, <1>3, <1>4, <1>5

LEMMA SetterTypes ==
  ASSUME Types, NEW h \in Handlers, StoreHandler(h) \/ CloneForHandler(h) \/ SetOnClient(h)
  PROVE  Types'
<1>1. CASE StoreHandler(h)
  BY <1>1, Bounds
  DEF StoreHandler, loopVars, connVars, tasks, requests, callerVars, stopVars, Types,
      CloneType, CountType, ConnType, ThreadType, Conns, NoConn
<1>2. CASE CloneForHandler(h)
  BY <1>2, Bounds
  DEF CloneForHandler, wrapperVars, loopVars, connVars, tasks, requests, callerVars, stopVars,
      Types, CloneType, CountType, ConnType, ThreadType, Conns, NoConn
<1>3. CASE SetOnClient(h)
  BY <1>3, Bounds
  DEF SetOnClient, wrapperVars, loopVars, tasks, requests, callerVars, stopVars, Types,
      CloneType, CountType, ConnType, ThreadType, Conns, NoConn
<1> QED  BY <1>1, <1>2, <1>3

LEMMA StopTypes ==
  ASSUME Types, Stop \/ Invalidate
  PROVE  Types'
<1>1. CASE ShutdownAborts
  BY <1>1, Bounds
  DEF ShutdownAborts, wrapperVars, connVars, tasks, requests, callerVars, setterVars, Types,
      CloneType, CountType, ConnType, ThreadType, Conns, NoConn
<1>2. CASE ShutdownTakes
  BY <1>2, Bounds
  DEF ShutdownTakes, loopVars, connVars, tasks, requests, callerVars, setterVars, Types,
      CloneType, CountType, ConnType, ThreadType, Conns, NoConn
<1>3. CASE ShutdownDisconnects
  <2>1. ConnType'
    BY <1>3, CloseTypes DEF ShutdownDisconnects, wrapperVars, requests, Types, ConnType
  <2>2. CloneType' /\ CountType' /\ ThreadType'
    BY <1>3, Bounds
    DEF ShutdownDisconnects, wrapperVars, loopVars, setterVars, Types, CloneType, CountType,
        ThreadType, Conns, NoConn
  <2> QED  BY <2>1, <2>2 DEF Types
<1>4. CASE ShutdownAnnounces
  BY <1>4, Bounds
  DEF ShutdownAnnounces, loopVars, connVars, tasks, requests, callerVars, setterVars, Types,
      CloneType, CountType, ConnType, ThreadType, Conns, NoConn
<1>5. CASE Invalidate
  BY <1>5, Bounds
  DEF Invalidate, loopVars, connVars, tasks, requests, callerVars, setterVars, stopVars,
      Types, CloneType, CountType, ConnType, ThreadType, Conns, NoConn
<1> QED  BY <1>1, <1>2, <1>3, <1>4, <1>5 DEF Stop

LEMMA StepTypes == Types /\ [Next]_vars => Types'
<1> SUFFICES ASSUME Types, [Next]_vars PROVE Types'
  OBVIOUS
<1>1. CASE UNCHANGED vars
  BY <1>1 DEF vars, wrapperVars, loopVars, connVars, tasks, requests, callerVars, setterVars,
      stopVars, Types, CloneType, CountType, ConnType, ThreadType
<1> QED  BY <1>1, LoopTypes, TaskTypes, CallTypes, SetterTypes, StopTypes
         DEF Next, Tasks, Peer, Calls, Setters

\* In every behaviour each thread holds a clone exactly where it keeps one, and
\* only of a connection that was opened.
THEOREM TypeCorrect == Spec => []TypeOK
BY TypesSuffice, InitTypes, StepTypes, PTL DEF Spec
-----------------------------------------------------------------------------
(* The slot.  Until somebody shuts the wrapper down only the loop writes it,  *)
(* and where the loop is tells what is in it.                                 *)

Closed(c) == readTask[c] \notin {"running", "answering"} /\ writeTask[c] # "running"

AbortInv == abort <=> shutdown # "no"

SlotInv ==
  /\ used \subseteq 1 .. opened
  /\ loop = "select" => client \in {current, NoConn}
  /\ loop = "select" /\ shutdown = "no" => client = current
  /\ loop = "clear" /\ client # NoConn => Closed(client)
  /\ loop \in {"announceLost", "attempt", "connecting", "register", "store", "gaveUp"}
       => client = NoConn
  /\ shutdown = "no" => \A c \in used \ {client, current} : Closed(c)

\* What was announced, by where the loop is.
WatchInv == shutdown = "no" =>
  /\ loop \in {"top", "select"} => connection = (client # NoConn)
  /\ loop = "announce" => client # NoConn
  /\ loop \in {"attempt", "connecting", "register", "store", "gaveUp"} => connection = FALSE

\* What the connections' tasks, the callers and the setters leave alone, and
\* that they start no task.
Bystander ==
  /\ UNCHANGED <<client, connection, loopVars, opened, shutdown, shutdownOn, used>>
  /\ \A c \in Conns : Closed(c) => Closed(c)'

LEMMA Bystanders ==
  ASSUME Types, Tasks \/ Peer \/ Calls \/ Setters \/ Invalidate
  PROVE  Bystander
<1>14. ASSUME NEW c \in Conns, WriteFails(c) PROVE Bystander
  BY <1>14
  DEF WriteFails, wrapperVars, stopVars, Bystander, Closed, Types, ConnType
<1>15. ASSUME NEW c \in Conns, ReadDiscovery(c) PROVE Bystander
  BY <1>15
  DEF ReadDiscovery, wrapperVars, requests, stopVars, Bystander, Closed, Types, ConnType
<1>16. ASSUME NEW c \in Conns, AnswerDiscovery(c) PROVE Bystander
  BY <1>16
  DEF AnswerDiscovery, wrapperVars, stopVars, Bystander, Closed, Types, ConnType
<1>17. ASSUME NEW c \in Conns, HandlerAnswers(c) PROVE Bystander
  BY <1>17
  DEF HandlerAnswers, wrapperVars, tasks, stopVars, Bystander, Closed, Types, ConnType
<1>1. ASSUME NEW c \in Conns, Write(c) PROVE Bystander
  BY <1>1
  DEF Write, wrapperVars, tasks, stopVars, Bystander, Closed, Types, ConnType
<1>2. ASSUME NEW c \in Conns, ReadAnswer(c) PROVE Bystander
  BY <1>2
  DEF ReadAnswer, wrapperVars, tasks, stopVars, Bystander, Closed, Types, ConnType
<1>3. ASSUME NEW c \in Conns, ReadEnd(c) PROVE Bystander
  BY <1>3
  DEF ReadEnd, wrapperVars, stopVars, Bystander, Closed, Types, ConnType
<1>4. ASSUME NEW c \in Conns, PeerCloses(c) PROVE Bystander
  BY <1>4
  DEF PeerCloses, wrapperVars, requests, stopVars, Bystander, Closed, Types, ConnType
<1>5. ASSUME NEW r \in Callers, CallerTakesClone(r) PROVE Bystander
  BY <1>5
  DEF CallerTakesClone, wrapperVars, connVars, tasks, requests, stopVars, Bystander, Closed,
      Types, ConnType
<1>6. ASSUME NEW r \in Callers, CallerRegisters(r) PROVE Bystander
  BY <1>6
  DEF CallerRegisters, wrapperVars, tasks, stopVars, Bystander, Closed, Types, ConnType
<1>7. ASSUME NEW r \in Callers, CallerSends(r) PROVE Bystander
  BY <1>7
  DEF CallerSends, wrapperVars, tasks, stopVars, Bystander, Closed, Types, ConnType
<1>8. ASSUME NEW r \in Callers, RequestTimeout(r) PROVE Bystander
  BY <1>8
  DEF RequestTimeout, wrapperVars, connVars, tasks, requests, stopVars, Bystander, Closed,
      Types, ConnType
<1>9. ASSUME NEW r \in Callers, CallerReturns(r) PROVE Bystander
  BY <1>9
  DEF CallerReturns, wrapperVars, connVars, tasks, requests, stopVars, Bystander, Closed,
      Types, ConnType
<1>10. ASSUME NEW h \in Handlers, StoreHandler(h) PROVE Bystander
  BY <1>10
  DEF StoreHandler, connVars, tasks, requests, stopVars, Bystander, Closed, Types, ConnType
<1>11. ASSUME NEW h \in Handlers, CloneForHandler(h) PROVE Bystander
  BY <1>11
  DEF CloneForHandler, wrapperVars, connVars, tasks, requests, stopVars, Bystander, Closed,
      Types, ConnType
<1>12. ASSUME NEW h \in Handlers, SetOnClient(h) PROVE Bystander
  BY <1>12
  DEF SetOnClient, wrapperVars, tasks, requests, stopVars, Bystander, Closed, Types, ConnType
<1>13. CASE Invalidate
  BY <1>13
  DEF Invalidate, connVars, tasks, stopVars, Bystander, Closed
<1> QED  BY <1>1, <1>2, <1>3, <1>4, <1>5, <1>6, <1>7, <1>8, <1>9, <1>10, <1>11, <1>12, <1>13,
            <1>14, <1>15, <1>16, <1>17
         DEF Tasks, Peer, Calls, Setters

LEMMA InitSlot == Init => AbortInv /\ SlotInv /\ WatchInv
BY IpcAssumption DEF Init, AbortInv, SlotInv, WatchInv, Conns, NoConn, Closed

LEMMA StepAbort == Types /\ AbortInv /\ [Next]_vars => AbortInv'
<1> SUFFICES ASSUME Types, AbortInv, [Next]_vars PROVE AbortInv'
  OBVIOUS
<1>1. CASE Bystander \/ UNCHANGED vars
  BY <1>1 DEF Bystander, vars, loopVars, stopVars, AbortInv
<1>2. CASE Loop
  <2>1. UNCHANGED <<abort, shutdown>>
    BY <1>2 DEF Loop, Top, Invalidated, ClearSlot, AnnounceLost, Attempt, Connected, ConnectFails,
        Register, Store, Announce, Cancelled, stopVars
  <2> QED  BY <2>1 DEF AbortInv
<1>3. CASE ShutdownAborts
  BY <1>3 DEF ShutdownAborts, AbortInv
<1>4. CASE ShutdownTakes \/ ShutdownDisconnects \/ ShutdownAnnounces
  <2>1. abort' = abort /\ shutdown # "no" /\ shutdown' # "no"
    BY <1>4 DEF ShutdownTakes, ShutdownDisconnects, ShutdownAnnounces, loopVars
  <2> QED  BY <2>1 DEF AbortInv
<1> QED  BY <1>1, <1>2, <1>3, <1>4, Bystanders DEF Next, Stop

LEMMA LoopSlot ==
  ASSUME Types, AbortInv, SlotInv, Loop
  PROVE  SlotInv'
<1>1. CASE Top
  BY <1>1, Bounds
  DEF Top, wrapperVars, connVars, tasks, stopVars, Goto, Types, CloneType, CountType,
      ConnType, AbortInv, SlotInv, NoConn, Closed, Conns
<1>2. CASE Invalidated
  BY <1>2, Bounds
  DEF Invalidated, connVars, tasks, stopVars, Goto, Clear, CloseConnection, Recycle, Types,
      CloneType, CountType, ConnType, AbortInv, SlotInv, NoConn, Closed, Conns
<1>3. CASE ClearSlot
  BY <1>3, Bounds
  DEF ClearSlot, connVars, tasks, stopVars, Goto, Types, CloneType, CountType, ConnType,
      AbortInv, SlotInv, NoConn, Closed, Conns
<1>4. CASE AnnounceLost
  BY <1>4, Bounds
  DEF AnnounceLost, connVars, tasks, stopVars, Goto, Types, CloneType, CountType, ConnType,
      AbortInv, SlotInv, NoConn, Closed, Conns
<1>5. CASE Attempt
  BY <1>5, Bounds
  DEF Attempt, wrapperVars, connVars, tasks, stopVars, Goto, Types, CloneType, CountType,
      ConnType, AbortInv, SlotInv, NoConn, Closed, Conns
<1>6. CASE Connected
  BY <1>6, Bounds
  DEF Connected, wrapperVars, tasks, stopVars, Goto, Open, Types, CloneType, CountType,
      ConnType, AbortInv, SlotInv, NoConn, Closed, Conns
<1>7. CASE ConnectFails
  BY <1>7, Bounds
  DEF ConnectFails, wrapperVars, tasks, stopVars, Goto, Open, Types, CloneType, CountType,
      ConnType, AbortInv, SlotInv, NoConn, Closed, Conns
<1>8. CASE Register
  BY <1>8, Bounds
  DEF Register, wrapperVars, tasks, stopVars, Goto, Types, CloneType, CountType, ConnType,
      AbortInv, SlotInv, NoConn, Closed, Conns
<1>9. CASE Store
  <2>1. /\ newClient \in 1 .. opened /\ client = NoConn /\ current = NoConn
    BY <1>9 DEF Store, Types, CloneType, CountType, SlotInv, NoConn
  <2>2. /\ client' = newClient /\ used' = used \cup {newClient} /\ loop' = "announce"
        /\ UNCHANGED <<current, opened, readTask, writeTask, shutdown>>
    BY <1>9 DEF Store, Goto, connVars, tasks, stopVars
  <2>3. used' \subseteq 1 .. opened'
    BY <2>1, <2>2 DEF SlotInv
  <2>4. shutdown' = "no" => \A c \in used' \ {client', current'} : Closed(c)'
    BY <2>1, <2>2 DEF SlotInv, Closed, NoConn, Conns
  <2> QED  BY <2>2, <2>3, <2>4 DEF SlotInv
<1>10. CASE Announce
  BY <1>10, Bounds
  DEF Announce, connVars, tasks, stopVars, Goto, Types, CloneType, CountType, ConnType,
      AbortInv, SlotInv, NoConn, Closed, Conns
<1>11. CASE Cancelled
  BY <1>11, Bounds
  DEF Cancelled, wrapperVars, connVars, tasks, stopVars, Goto, Types, CloneType, CountType,
      ConnType, AbortInv, SlotInv, NoConn, Closed, Conns
<1> QED  BY <1>1, <1>2, <1>3, <1>4, <1>5, <1>6, <1>7, <1>8, <1>9, <1>10, <1>11 DEF Loop

LEMMA LoopWatch ==
  ASSUME Types, AbortInv, SlotInv, WatchInv, Loop
  PROVE  WatchInv'
<1>1. CASE Top
  BY <1>1, Bounds
  DEF Top, wrapperVars, connVars, tasks, stopVars, Goto, Types, CloneType, CountType,
      ConnType, AbortInv, SlotInv, WatchInv, NoConn
<1>2. CASE Invalidated
  BY <1>2, Bounds
  DEF Invalidated, connVars, tasks, stopVars, Goto, Clear, CloseConnection, Recycle, Types,
      CloneType, CountType, ConnType, AbortInv, SlotInv, WatchInv, NoConn
<1>3. CASE ClearSlot
  BY <1>3, Bounds
  DEF ClearSlot, connVars, tasks, stopVars, Goto, Types, CloneType, CountType, ConnType,
      AbortInv, SlotInv, WatchInv, NoConn
<1>4. CASE AnnounceLost
  BY <1>4, Bounds
  DEF AnnounceLost, connVars, tasks, stopVars, Goto, Types, CloneType, CountType, ConnType,
      AbortInv, SlotInv, WatchInv, NoConn
<1>5. CASE Attempt
  BY <1>5, Bounds
  DEF Attempt, wrapperVars, connVars, tasks, stopVars, Goto, Types, CloneType, CountType,
      ConnType, AbortInv, SlotInv, WatchInv, NoConn
<1>6. CASE Connected
  BY <1>6, Bounds
  DEF Connected, wrapperVars, tasks, stopVars, Goto, Open, Types, CloneType, CountType,
      ConnType, AbortInv, SlotInv, WatchInv, NoConn
<1>7. CASE ConnectFails
  BY <1>7, Bounds
  DEF ConnectFails, wrapperVars, tasks, stopVars, Goto, Open, Types, CloneType, CountType,
      ConnType, AbortInv, SlotInv, WatchInv, NoConn
<1>8. CASE Register
  BY <1>8, Bounds
  DEF Register, wrapperVars, tasks, stopVars, Goto, Types, CloneType, CountType, ConnType,
      AbortInv, SlotInv, WatchInv, NoConn
<1>9. CASE Store
  BY <1>9, Bounds
  DEF Store, connVars, tasks, stopVars, Goto, Types, CloneType, CountType, ConnType, AbortInv,
      SlotInv, WatchInv, NoConn
<1>10. CASE Announce
  BY <1>10, Bounds
  DEF Announce, connVars, tasks, stopVars, Goto, Types, CloneType, CountType, ConnType,
      AbortInv, SlotInv, WatchInv, NoConn
<1>11. CASE Cancelled
  BY <1>11, Bounds
  DEF Cancelled, wrapperVars, connVars, tasks, stopVars, Goto, Types, CloneType, CountType,
      ConnType, AbortInv, SlotInv, WatchInv, NoConn
<1> QED  BY <1>1, <1>2, <1>3, <1>4, <1>5, <1>6, <1>7, <1>8, <1>9, <1>10, <1>11 DEF Loop

LEMMA StopSlot ==
  ASSUME Types, AbortInv, SlotInv, Stop
  PROVE  SlotInv'
<1>1. CASE ShutdownAborts
  BY <1>1, Bounds
  DEF ShutdownAborts, wrapperVars, connVars, tasks, Types, CloneType, CountType, ConnType,
      AbortInv, SlotInv, NoConn, Closed, Conns
<1>2. CASE ShutdownTakes
  BY <1>2, Bounds
  DEF ShutdownTakes, loopVars, connVars, tasks, Types, CloneType, CountType, ConnType,
      AbortInv, SlotInv, NoConn, Closed, Conns
<1>3. CASE ShutdownDisconnects
  BY <1>3, Bounds
  DEF ShutdownDisconnects, wrapperVars, loopVars, Clear, CloseConnection, Types, CloneType,
      CountType, ConnType, AbortInv, SlotInv, NoConn, Closed, Conns
<1>4. CASE ShutdownAnnounces
  BY <1>4, Bounds
  DEF ShutdownAnnounces, loopVars, connVars, tasks, Types, CloneType, CountType, ConnType,
      AbortInv, SlotInv, NoConn, Closed, Conns
<1> QED  BY <1>1, <1>2, <1>3, <1>4 DEF Stop

LEMMA StopWatch ==
  ASSUME Types, AbortInv, SlotInv, WatchInv, Stop
  PROVE  WatchInv'
<1>1. CASE ShutdownAborts
  BY <1>1, Bounds
  DEF ShutdownAborts, wrapperVars, connVars, tasks, Types, CloneType, CountType, ConnType,
      AbortInv, SlotInv, WatchInv, NoConn
<1>2. CASE ShutdownTakes
  BY <1>2, Bounds
  DEF ShutdownTakes, loopVars, connVars, tasks, Types, CloneType, CountType, ConnType,
      AbortInv, SlotInv, WatchInv, NoConn
<1>3. CASE ShutdownDisconnects
  BY <1>3, Bounds
  DEF ShutdownDisconnects, wrapperVars, loopVars, Clear, CloseConnection, Types, CloneType,
      CountType, ConnType, AbortInv, SlotInv, WatchInv, NoConn
<1>4. CASE ShutdownAnnounces
  BY <1>4, Bounds
  DEF ShutdownAnnounces, loopVars, connVars, tasks, Types, CloneType, CountType, ConnType,
      AbortInv, SlotInv, WatchInv, NoConn
<1> QED  BY <1>1, <1>2, <1>3, <1>4 DEF Stop

LEMMA StepSlot ==
  Types /\ AbortInv /\ SlotInv /\ WatchInv /\ [Next]_vars => SlotInv' /\ WatchInv'
<1> SUFFICES ASSUME Types, AbortInv, SlotInv, WatchInv, [Next]_vars PROVE SlotInv' /\ WatchInv'
  OBVIOUS
<1>1. CASE Bystander
  <2>1. /\ UNCHANGED <<client, connection, loop, current, opened, shutdown, used>>
        /\ \A c \in Conns : Closed(c) => Closed(c)'
    BY <1>1 DEF Bystander, loopVars
  <2>2. used \subseteq Conns /\ (client # NoConn => client \in Conns)
    BY Bounds DEF SlotInv, Types, CloneType, CountType, Conns, NoConn
  <2>3. loop = "clear" /\ client # NoConn => Closed(client)'
    BY <2>1, <2>2 DEF SlotInv
  <2>4. shutdown = "no" => \A c \in used \ {client, current} : Closed(c)'
    BY <2>1, <2>2 DEF SlotInv
  <2>5. SlotInv'
    BY <2>1, <2>3, <2>4 DEF SlotInv, Closed
  <2>6. WatchInv'
    BY <2>1 DEF WatchInv
  <2> QED  BY <2>5, <2>6
<1>2. CASE UNCHANGED vars
  BY <1>2 DEF vars, wrapperVars, loopVars, connVars, tasks, stopVars, SlotInv, WatchInv, Closed
<1> QED  BY <1>1, <1>2, Bystanders, LoopSlot, LoopWatch, StopSlot, StopWatch DEF Next

SlotFacts == Types /\ AbortInv /\ SlotInv /\ WatchInv

LEMMA SlotAlways == Spec => []SlotFacts
<1>1. Init => SlotFacts
  BY InitTypes, InitSlot DEF SlotFacts
<1>2. SlotFacts /\ [Next]_vars => SlotFacts'
  BY StepTypes, StepAbort, StepSlot DEF SlotFacts
<1> QED  BY <1>1, <1>2, PTL DEF Spec

\* Whatever clones callers hold, and whenever they took them, the client that
\* the loop has replaced serves none of them.
THEOREM ReplacedIsClosedHolds == Spec => []ReplacedIsClosed
<1>1. SlotFacts => ReplacedIsClosed
  BY DEF SlotFacts, AbortInv, SlotInv, Closed, ReplacedIsClosed
<1> QED  BY <1>1, SlotAlways, PTL

\* Where the loop waits, the announced state is that of the slot.
THEOREM StateAgreesHolds == Spec => []StateAgreesWithSlot
<1>1. SlotFacts => StateAgreesWithSlot
  BY DEF SlotFacts, SlotInv, WatchInv, StateAgreesWithSlot
<1> QED  BY <1>1, SlotAlways, PTL
=============================================================================
