------------------------- MODULE ServerSessionProofs -------------------------
(* Safety of ServerSession for any set of runtimes, callers and bounds.    *)
EXTENDS ServerSession, TLAPS

(***************************************************************************)
(* Type correctness: TypeOK is inductive.  Each part of it is proved for   *)
(* the actions of one task at a time.                                      *)
(***************************************************************************)

LEMMA Bounds ==
  /\ MaxAttempts \in Nat \ {0} /\ 1 \in 1 .. MaxAttempts
  /\ MaxDrops \in Nat /\ 0 \in 0 .. MaxDrops
BY SessionAssumption

\* Counting at a point, inside the domain or not.
LEMMA Bump ==
  ASSUME NEW S, NEW f \in [S -> Nat], NEW x
  PROVE  [f EXCEPT ![x] = @ + 1] \in [S -> Nat]
<1>1. CASE x \in S
  BY <1>1
<1>2. CASE x \notin S
  BY <1>2
<1>3. QED
  BY <1>1, <1>2

LEMMA Enqueue ==
  ASSUME QueueType, NEW w \in Runtimes, NEW c \in Calls \cup {Shutdown},
         queue' = [queue EXCEPT ![w] = Append(@, c)]
  PROVE  QueueType'
BY DEF QueueType

LEMMA SendShutdownType ==
  ASSUME QueueType, NEW w \in Runtimes, SendShutdown(w)
  PROVE  QueueType'
<1>1. CASE UNCHANGED queue
  BY <1>1 DEF QueueType
<1>2. CASE queue' = [queue EXCEPT ![w] = Append(@, Shutdown)]
  BY <1>2, Enqueue
<1>3. QED
  BY <1>1, <1>2 DEF SendShutdown

LEMMA InitType == Init => TypeOK
<1> SUFFICES ASSUME Init PROVE TypeOK
  OBVIOUS
<1>1. SessionType
  BY Bounds DEF Init, SessionType, HealthValues
<1>2. WorkerType
  BY Bounds DEF Init, WorkerType
<1>3. QueueType /\ NetType /\ CallType
  BY DEF Init, QueueType, NetType, CallType
<1>4. ReaderType
  BY DEF Init, ReaderType, HealthValues
<1>5. QED
  BY <1>1, <1>2, <1>3, <1>4 DEF TypeOK

LEMMA SetupType ==
  ASSUME TypeOK, Announce \/ Attach
  PROVE  TypeOK'
<1> USE DEF TypeOK, HealthValues, Tell, sessionVars, watchVars, workVars, netVars, callVars,
            discVars, readerVars, readerOthers
<1>1. CASE Announce
  <2>1. SessionType' /\ WorkerType'
    BY <1>1 DEF SessionType, WorkerType, Announce
  <2>2. QueueType' /\ NetType' /\ CallType' /\ ReaderType'
    BY <1>1 DEF QueueType, NetType, CallType, ReaderType, Announce
  <2>3. QED
    BY <2>1, <2>2
<1>2. CASE Attach
  <2>1. SessionType' /\ WorkerType'
    BY <1>2 DEF SessionType, WorkerType, Attach
  <2>2. QueueType' /\ NetType' /\ CallType' /\ ReaderType'
    BY <1>2 DEF QueueType, NetType, CallType, ReaderType, Attach
  <2>3. QED
    BY <2>1, <2>2
<1>3. QED
  BY <1>1, <1>2

LEMMA CallerType ==
  ASSUME TypeOK, NEW c \in Calls, StartCall(c) \/ SendCommand(c) \/ ServerExecutesLate(c)
  PROVE  TypeOK'
<1> USE DEF TypeOK, HealthValues, Tell, sessionVars, watchVars, workVars, netVars, callVars,
            discVars, readerVars, readerOthers
<1>0. RuntimeOf[c] \in Runtimes
  BY SessionAssumption
<1>1. CASE StartCall(c)
  <2>1. SessionType' /\ WorkerType'
    BY <1>1 DEF SessionType, WorkerType, StartCall
  <2>2. QueueType' /\ NetType' /\ CallType' /\ ReaderType'
    BY <1>1 DEF QueueType, NetType, CallType, ReaderType, StartCall
  <2>3. QED
    BY <2>1, <2>2
<1>2. CASE SendCommand(c)
  <2>1. SessionType' /\ WorkerType'
    BY <1>2 DEF SessionType, WorkerType, SendCommand
  <2>2. NetType' /\ CallType' /\ ReaderType'
    BY <1>2 DEF NetType, CallType, ReaderType, SendCommand
  <2>3. QueueType'
    <3>1. CASE UNCHANGED queue
      BY <3>1 DEF QueueType
    <3>2. CASE queue' = [queue EXCEPT ![RuntimeOf[c]] = Append(@, c)]
      BY <3>2, <1>0, Enqueue
    <3>3. QED
      BY <1>2, <3>1, <3>2 DEF SendCommand
  <2>4. QED
    BY <2>1, <2>2, <2>3
<1>3. CASE ServerExecutesLate(c)
  <2>1. SessionType' /\ WorkerType'
    BY <1>3 DEF SessionType, WorkerType, ServerExecutesLate
  <2>2. QueueType' /\ NetType' /\ ReaderType'
    BY <1>3 DEF QueueType, NetType, ReaderType, ServerExecutesLate
  <2>3. CallType'
    BY <1>3 DEF CallType, ServerExecutesLate
  <2>4. QED
    BY <2>1, <2>2, <2>3
<1>4. QED
  BY <1>1, <1>2, <1>3

LEMMA WorkerStepType ==
  ASSUME TypeOK, NEW w \in Runtimes, WorkerStep(w)
  PROVE  TypeOK'
<1> USE DEF TypeOK, HealthValues, Tell, sessionVars, watchVars, workVars, netVars, callVars,
            discVars, readerVars, readerOthers
<1>1. CASE TakeRequest(w)
  <2>1. SessionType' /\ NetType' /\ ReaderType'
    BY <1>1 DEF SessionType, NetType, ReaderType, TakeRequest, HeadIs
  <2>2. WorkerType'
    BY <1>1 DEF WorkerType, TakeRequest, HeadIs
  <2>3. QueueType'
    BY <1>1 DEF QueueType, TakeRequest, HeadIs
  <2>4. CallType'
    BY <1>1 DEF CallType, TakeRequest, HeadIs
  <2>5. QED
    BY <2>1, <2>2, <2>3, <2>4
<1>2. CASE RequestAnswered(w)
  <2>1. SessionType' /\ WorkerType'
    BY <1>2 DEF SessionType, WorkerType, RequestAnswered, Finish
  <2>2. QueueType' /\ NetType' /\ CallType' /\ ReaderType'
    BY <1>2 DEF QueueType, NetType, CallType, ReaderType, RequestAnswered, Finish
  <2>3. QED
    BY <2>1, <2>2
<1>3. CASE RequestFails(w)
  <2>1. SessionType' /\ QueueType'
    BY <1>3 DEF SessionType, QueueType, RequestFails, StartReconnect
  <2>2. NetType' /\ CallType' /\ ReaderType'
    BY <1>3 DEF NetType, CallType, ReaderType, RequestFails, StartReconnect
  <2>3. WorkerType'
    BY <1>3, Bounds DEF WorkerType, RequestFails, StartReconnect
  <2>4. QED
    BY <2>1, <2>2, <2>3
<1>4. CASE RetryFails(w)
  <2>1. SessionType' /\ WorkerType'
    BY <1>4 DEF SessionType, WorkerType, RetryFails, Finish
  <2>2. QueueType' /\ NetType' /\ CallType' /\ ReaderType'
    BY <1>4 DEF QueueType, NetType, CallType, ReaderType, RetryFails, Finish
  <2>3. QED
    BY <2>1, <2>2
<1>5. CASE TakeOneway(w)
  <2>1. SessionType' /\ NetType' /\ ReaderType'
    BY <1>5 DEF SessionType, NetType, ReaderType, TakeOneway, HeadIs
  <2>2. WorkerType'
    BY <1>5 DEF WorkerType, TakeOneway, HeadIs
  <2>3. QueueType'
    BY <1>5 DEF QueueType, TakeOneway, HeadIs
  <2>4. CallType'
    BY <1>5 DEF CallType, TakeOneway, HeadIs
  <2>5. QED
    BY <2>1, <2>2, <2>3, <2>4
<1>6. CASE TakeShutdown(w)
  <2>1. SessionType' /\ NetType' /\ ReaderType'
    BY <1>6 DEF SessionType, NetType, ReaderType, TakeShutdown, HeadIs, Exit
  <2>2. WorkerType'
    BY <1>6 DEF WorkerType, TakeShutdown, HeadIs, Exit
  <2>3. QueueType'
    BY <1>6 DEF QueueType, TakeShutdown, HeadIs, Exit
  <2>4. CallType'
    BY <1>6 DEF CallType, TakeShutdown, HeadIs, Exit
  <2>5. QED
    BY <2>1, <2>2, <2>3, <2>4
<1>7. CASE EventGone(w)
  <2>1. SessionType' /\ QueueType'
    BY <1>7 DEF SessionType, QueueType, EventGone, StartReconnect
  <2>2. NetType' /\ CallType' /\ ReaderType'
    BY <1>7 DEF NetType, CallType, ReaderType, EventGone, StartReconnect
  <2>3. WorkerType'
    BY <1>7, Bounds DEF WorkerType, NetType, EventGone, StartReconnect
  <2>4. QED
    BY <2>1, <2>2, <2>3
<1>8. CASE Attempt(w)
  <2>1. SessionType' /\ WorkerType'
    BY <1>8 DEF SessionType, WorkerType, Attempt
  <2>2. QueueType' /\ NetType' /\ CallType' /\ ReaderType'
    BY <1>8 DEF QueueType, NetType, CallType, ReaderType, Attempt
  <2>3. QED
    BY <2>1, <2>2
<1>9. CASE DialOk(w)
  <2>1. SessionType' /\ QueueType'
    BY <1>9 DEF SessionType, QueueType, DialOk, ReturnFromReconnect
  <2>2. NetType' /\ CallType' /\ ReaderType'
    BY <1>9 DEF NetType, CallType, ReaderType, DialOk, ReturnFromReconnect
  <2>3. WorkerType'
    BY <1>9, Bounds DEF WorkerType, DialOk, ReturnFromReconnect
  <2>4. QED
    BY <2>1, <2>2, <2>3
<1>10. CASE DialFails(w)
  <2>1. SessionType' /\ QueueType'
    BY <1>10 DEF SessionType, QueueType, DialFails
  <2>2. NetType' /\ CallType' /\ ReaderType'
    BY <1>10 DEF NetType, CallType, ReaderType, DialFails
  <2>3. WorkerType'
    BY <1>10, Bounds DEF WorkerType, DialFails
  <2>4. QED
    BY <2>1, <2>2, <2>3
<1>11. CASE GiveUp(w)
  <2>1. SessionType' /\ ReaderType'
    BY <1>11 DEF SessionType, ReaderType, GiveUp
  <2>2. WorkerType' /\ QueueType' /\ NetType' /\ CallType'
    <3>1. CASE why[w] = "request"
      BY <1>11, <3>1, Bounds DEF WorkerType, QueueType, NetType, CallType, GiveUp, Finish,
                              ReturnFromReconnect
    <3>2. CASE why[w] = "gone"
      BY <1>11, <3>2, Bounds DEF WorkerType, QueueType, NetType, CallType, GiveUp,
                              ReturnFromReconnect
    <3>3. CASE why[w] = "end"
      <4>1. WorkerType'
        BY <1>11, <3>3, Bounds DEF WorkerType, GiveUp, Exit, ReturnFromReconnect
      <4>2. QueueType'
        <5>1. queue' = [queue EXCEPT ![w] = <<>>]
          BY <1>11, <3>3 DEF GiveUp, Exit
        <5>2. QED
          BY <5>1 DEF QueueType
      <4>3. NetType' /\ CallType'
        BY <1>11, <3>3 DEF NetType, CallType, GiveUp, Exit
      <4>4. QED
        BY <4>1, <4>2, <4>3
    <3>4. QED
      BY <1>11, <3>1, <3>2, <3>3 DEF GiveUp
  <2>3. QED
    BY <2>1, <2>2
<1>12. CASE RouteGone(w)
  <2>1. SessionType' /\ WorkerType'
    BY <1>12 DEF SessionType, WorkerType, RouteGone
  <2>2. QueueType' /\ NetType' /\ CallType' /\ ReaderType'
    BY <1>12 DEF QueueType, NetType, CallType, ReaderType, RouteGone
  <2>3. QED
    BY <2>1, <2>2
<1>13. QED
  BY <1>1, <1>2, <1>3, <1>4, <1>5, <1>6, <1>7, <1>8, <1>9, <1>10, <1>11, <1>12 DEF WorkerStep

LEMMA NetworkType ==
  ASSUME TypeOK, NEW w \in Runtimes, Drop(w) \/ ServerExecutes(w)
  PROVE  TypeOK'
<1> USE DEF TypeOK, HealthValues, Tell, sessionVars, watchVars, workVars, netVars, callVars,
            discVars, readerVars, readerOthers
<1>1. CASE Drop(w)
  <2>1. WorkerType' /\ QueueType'
    BY <1>1 DEF WorkerType, QueueType, Drop
  <2>2. NetType' /\ ReaderType'
    BY <1>1 DEF NetType, ReaderType, Drop
  <2>3. SessionType'
    BY <1>1, Bounds DEF SessionType, Drop
  <2>4. CallType'
    BY <1>1, Bump DEF CallType, Drop
  <2>5. QED
    BY <2>1, <2>2, <2>3, <2>4
<1>2. CASE ServerExecutes(w)
  <2>1. SessionType' /\ WorkerType'
    BY <1>2 DEF SessionType, WorkerType, ServerExecutes
  <2>2. QueueType' /\ NetType' /\ ReaderType'
    BY <1>2 DEF QueueType, NetType, ReaderType, ServerExecutes
  <2>3. CallType'
    BY <1>2, Bump DEF CallType, ServerExecutes
  <2>4. QED
    BY <2>1, <2>2, <2>3
<1>3. QED
  BY <1>1, <1>2

LEMMA DisconnectType ==
  ASSUME TypeOK, RemoveSession \/ DisconnectStep
  PROVE  TypeOK'
<1> USE DEF TypeOK, HealthValues, Tell, sessionVars, watchVars, workVars, netVars, callVars,
            discVars, readerVars, readerOthers
<1>1. CASE RemoveSession
  <2>1. SessionType' /\ WorkerType'
    BY <1>1 DEF SessionType, WorkerType, RemoveSession
  <2>2. QueueType' /\ NetType' /\ CallType' /\ ReaderType'
    BY <1>1 DEF QueueType, NetType, CallType, ReaderType, RemoveSession
  <2>3. QED
    BY <2>1, <2>2
<1>2. CASE TellDisconnected
  <2>1. SessionType' /\ WorkerType'
    BY <1>2 DEF SessionType, WorkerType, TellDisconnected
  <2>2. QueueType' /\ NetType' /\ CallType' /\ ReaderType'
    BY <1>2 DEF QueueType, NetType, CallType, ReaderType, TellDisconnected
  <2>3. QED
    BY <2>1, <2>2
<1>3. CASE StopPrimary
  <2>1. SessionType' /\ WorkerType'
    BY <1>3 DEF SessionType, WorkerType, StopPrimary, SendShutdown
  <2>2. NetType' /\ CallType' /\ ReaderType'
    BY <1>3 DEF NetType, CallType, ReaderType, StopPrimary, SendShutdown
  <2>3. QueueType'
    BY <1>3, SendShutdownType, SessionAssumption DEF StopPrimary
  <2>4. QED
    BY <2>1, <2>2, <2>3
<1>4. CASE StopDone
  <2>1. SessionType' /\ WorkerType'
    BY <1>4 DEF SessionType, WorkerType, StopDone
  <2>2. QueueType' /\ NetType' /\ CallType' /\ ReaderType'
    BY <1>4 DEF QueueType, NetType, CallType, ReaderType, StopDone
  <2>3. QED
    BY <2>1, <2>2
<1>5. ASSUME NEW w \in Runtimes, StopRuntime(w) PROVE TypeOK'
  <2>1. SessionType' /\ WorkerType'
    BY <1>5 DEF SessionType, WorkerType, StopRuntime
  <2>2. NetType' /\ CallType' /\ ReaderType'
    BY <1>5 DEF NetType, CallType, ReaderType, StopRuntime
  <2>3. QueueType'
    BY <1>5, SendShutdownType DEF StopRuntime
  <2>4. QED
    BY <2>1, <2>2, <2>3
<1>6. QED
  BY <1>1, <1>2, <1>3, <1>4, <1>5 DEF DisconnectStep

LEMMA ReaderStepType ==
  ASSUME TypeOK, ReaderStep
  PROVE  TypeOK'
<1> USE DEF TypeOK, HealthValues, Tell, sessionVars, watchVars, workVars, netVars, callVars,
            discVars, readerVars, readerOthers
<1>1. CASE ReaderStart
  <2>1. SessionType' /\ WorkerType'
    BY <1>1 DEF SessionType, WorkerType, ReaderStart
  <2>2. QueueType' /\ NetType' /\ CallType' /\ ReaderType'
    BY <1>1 DEF QueueType, NetType, CallType, ReaderType, ReaderStart
  <2>3. QED
    BY <2>1, <2>2
<1>2. CASE ReaderCheck
  <2>1. SessionType' /\ WorkerType'
    BY <1>2 DEF SessionType, WorkerType, ReaderCheck
  <2>2. QueueType' /\ NetType' /\ CallType' /\ ReaderType'
    BY <1>2 DEF QueueType, NetType, CallType, ReaderType, ReaderCheck
  <2>3. QED
    BY <2>1, <2>2
<1>3. CASE ReaderBorrow
  <2>1. SessionType' /\ WorkerType'
    BY <1>3 DEF SessionType, WorkerType, ReaderBorrow
  <2>2. QueueType' /\ NetType' /\ CallType' /\ ReaderType'
    BY <1>3 DEF SessionType, QueueType, NetType, CallType, ReaderType, ReaderBorrow
  <2>3. QED
    BY <2>1, <2>2
<1>4. CASE ReaderEmit
  <2>1. SessionType' /\ WorkerType'
    BY <1>4 DEF SessionType, WorkerType, ReaderEmit
  <2>2. QueueType' /\ NetType' /\ CallType' /\ ReaderType'
    BY <1>4 DEF QueueType, NetType, CallType, ReaderType, ReaderEmit
  <2>3. QED
    BY <2>1, <2>2
<1>5. CASE ReaderChanged
  <2>1. SessionType' /\ WorkerType'
    BY <1>5 DEF SessionType, WorkerType, ReaderChanged
  <2>2. QueueType' /\ NetType' /\ CallType' /\ ReaderType'
    BY <1>5 DEF QueueType, NetType, CallType, ReaderType, ReaderChanged
  <2>3. QED
    BY <2>1, <2>2
<1>6. QED
  BY <1>1, <1>2, <1>3, <1>4, <1>5 DEF ReaderStep

LEMMA StepType == TypeOK /\ [Next]_vars => TypeOK'
<1> SUFFICES ASSUME TypeOK, [Next]_vars PROVE TypeOK'
  OBVIOUS
<1>1. CASE Next
  BY <1>1, SetupType, CallerType, WorkerStepType, NetworkType, DisconnectType,
     ReaderStepType DEF Next
<1>2. CASE UNCHANGED vars
  BY <1>2 DEF vars, TypeOK, SessionType, WorkerType, QueueType, NetType, CallType,
              ReaderType, sessionVars, watchVars, workVars, netVars, callVars, discVars,
              readerVars
<1>3. QED
  BY <1>1, <1>2

\* Every reachable state is well typed (the whole of connection.rs's session).
THEOREM TypeCorrect == Spec => []TypeOK
BY InitType, StepType, PTL DEF Spec

(***************************************************************************)
(* BadNewsIsTrue.  On its own it is not inductive: a worker that gives up  *)
(* says Disconnected without looking at its connection, so the invariant   *)
(* must know that a worker reconnects only when its connection is down,    *)
(* and stays down until DialOk, which says Connected in the same step.     *)
(***************************************************************************)

\* A worker that has been told of the end of its events, is reconnecting, or is
\* routing a Disconnected event has no connection.
LinkInv ==
  \A w \in Runtimes :
    note[w] # "none" \/ pc[w] \in {"reconnect", "dialing", "route"} => ~link[w]

BadNewsInv == TypeOK /\ LinkInv /\ BadNewsIsTrue

LEMMA InitBadNews == Init => BadNewsInv
BY InitType DEF Init, BadNewsInv, LinkInv, BadNewsIsTrue

\* A step that leaves the watch, the connections, the reconnections and the
\* disconnection as they are keeps the invariant.
LEMMA BadNewsFrame ==
  ASSUME BadNewsInv, UNCHANGED <<health, link, note, disc, setup>>,
         \A v \in Runtimes : pc'[v] = pc[v]
  PROVE  LinkInv' /\ BadNewsIsTrue'
BY DEF BadNewsInv, LinkInv, BadNewsIsTrue

LEMMA WorkerBadNews ==
  ASSUME BadNewsInv, NEW w \in Runtimes, WorkerStep(w)
  PROVE  LinkInv' /\ BadNewsIsTrue'
<1> USE DEF BadNewsInv, TypeOK, WorkerType, NetType, LinkInv, BadNewsIsTrue, Tell,
            sessionVars, watchVars, workVars, netVars, discVars
<1>1. CASE TakeRequest(w)
  BY <1>1 DEF TakeRequest, HeadIs
<1>2. CASE RequestAnswered(w)
  BY <1>2 DEF RequestAnswered, Finish
<1>3. CASE RequestFails(w)
  BY <1>3 DEF RequestFails, StartReconnect
<1>4. CASE RetryFails(w)
  BY <1>4 DEF RetryFails, Finish
<1>5. CASE TakeOneway(w)
  BY <1>5 DEF TakeOneway
<1>6. CASE TakeShutdown(w)
  BY <1>6 DEF TakeShutdown, HeadIs, Exit
<1>7. CASE EventGone(w)
  BY <1>7 DEF EventGone, StartReconnect
<1>8. CASE Attempt(w)
  BY <1>8 DEF Attempt
<1>9. CASE DialOk(w)
  BY <1>9 DEF DialOk
<1>10. CASE DialFails(w)
  BY <1>10 DEF DialFails
<1>11. CASE GiveUp(w)
  BY <1>11 DEF GiveUp, Finish, Exit
<1>12. CASE RouteGone(w)
  BY <1>12 DEF RouteGone
<1>13. QED
  BY <1>1, <1>2, <1>3, <1>4, <1>5, <1>6, <1>7, <1>8, <1>9, <1>10, <1>11, <1>12
     DEF WorkerStep

LEMMA StepBadNews == BadNewsInv /\ [Next]_vars => BadNewsInv'
<1> SUFFICES ASSUME BadNewsInv, [Next]_vars PROVE LinkInv' /\ BadNewsIsTrue'
  BY StepType DEF BadNewsInv
<1>1. ASSUME NEW w \in Runtimes, WorkerStep(w) PROVE LinkInv' /\ BadNewsIsTrue'
  BY <1>1, WorkerBadNews
<1>2. ASSUME NEW w \in Runtimes, Drop(w) PROVE LinkInv' /\ BadNewsIsTrue'
  BY <1>2 DEF Drop, BadNewsInv, TypeOK, NetType, LinkInv, BadNewsIsTrue, sessionVars,
              watchVars, workVars, discVars
<1>3. ASSUME NEW w \in Runtimes, ServerExecutes(w) PROVE LinkInv' /\ BadNewsIsTrue'
  BY <1>3, BadNewsFrame DEF ServerExecutes, sessionVars, watchVars, workVars, discVars
<1>4. ASSUME NEW c \in Calls, StartCall(c) \/ SendCommand(c) \/ ServerExecutesLate(c)
      PROVE  LinkInv' /\ BadNewsIsTrue'
  BY <1>4, BadNewsFrame DEF StartCall, SendCommand, ServerExecutesLate, sessionVars,
                            watchVars, workVars, netVars, discVars
<1>5. ASSUME Announce \/ Attach PROVE LinkInv' /\ BadNewsIsTrue'
  BY <1>5 DEF Announce, Attach, Tell, BadNewsInv, LinkInv, BadNewsIsTrue, workVars, netVars,
              discVars
<1>6. ASSUME RemoveSession \/ DisconnectStep PROVE LinkInv' /\ BadNewsIsTrue'
  BY <1>6 DEF RemoveSession, DisconnectStep, TellDisconnected, StopPrimary, StopRuntime,
              StopDone, Tell, BadNewsInv, LinkInv, BadNewsIsTrue, sessionVars, watchVars,
              workVars, netVars
<1>7. ASSUME ReaderStep PROVE LinkInv' /\ BadNewsIsTrue'
  BY <1>7, BadNewsFrame DEF ReaderStep, ReaderStart, ReaderCheck, ReaderBorrow, ReaderEmit,
                            ReaderChanged, readerOthers, sessionVars, workVars, netVars,
                            discVars
<1>8. CASE UNCHANGED vars
  BY <1>8, BadNewsFrame DEF vars, sessionVars, watchVars, workVars, netVars, discVars
<1>9. QED
  BY <1>1, <1>2, <1>3, <1>4, <1>5, <1>6, <1>7, <1>8 DEF Next

\* Whatever the runtimes do to the health they share, Disconnected and Connecting
\* are never false alarms (health_tx.send in reconnect_remote_client,
\* route_app_server_event and connect_remote_multiplexed).
THEOREM BadNewsHolds == Spec => []BadNewsIsTrue
<1>1. Spec => []BadNewsInv
  BY InitBadNews, StepBadNews, PTL DEF Spec
<1>2. BadNewsInv => BadNewsIsTrue
  BY DEF BadNewsInv
<1>3. QED
  BY <1>1, <1>2, PTL

(***************************************************************************)
(* AnswerMatchesExecution and NoCallIsStranded.  The strengthening says    *)
(* where a call can be (QueueInv, HandInv) and how many copies of it the   *)
(* server can have seen at each place (CopiesInv).                         *)
(***************************************************************************)

\* The calls in a queue are queued, there once, and on the worker they belong to;
\* a queued call is in that queue.
QueueInv ==
  /\ \A w \in Runtimes : \A i \in 1 .. Len(queue[w]) : queue[w][i] \in Calls =>
       /\ call[queue[w][i]] = "queued" /\ RuntimeOf[queue[w][i]] = w
       /\ \A j \in 1 .. Len(queue[w]) : queue[w][j] = queue[w][i] => j = i
  /\ \A c \in Calls : call[c] = "queued" =>
       \E i \in 1 .. Len(queue[RuntimeOf[c]]) : queue[RuntimeOf[c]][i] = c

\* A worker has a request in hand exactly while it is waiting for its answer or
\* reconnecting for its sake, and a call that is held is in its worker's hand.
HandInv ==
  /\ \A w \in Runtimes :
       /\ inHand[w] # NoCall => call[inHand[w]] = "held" /\ RuntimeOf[inHand[w]] = w
       /\ inHand[w] # NoCall <=> pc[w] \in {"request", "retry"} \/ why[w] = "request"
       /\ why[w] # "none" <=> pc[w] \in {"reconnect", "dialing"}
       /\ wire[w] # "none" => link[w] /\ pc[w] \in {"request", "retry"}
  /\ \A c \in Calls : call[c] = "held" => inHand[RuntimeOf[c]] = c

\* Copies of the request in hand, executed or not, by the place of the worker.
CopiesInv ==
  \A w \in Runtimes : LET copies == executed[inHand[w]] + loose[inHand[w]] IN
    inHand[w] # NoCall =>
      /\ pc[w] # "retry" => copies <= 1
      /\ wire[w] = "submitted" => copies <= IF pc[w] = "retry" THEN 1 ELSE 0
      /\ wire[w] = "executed" => executed[inHand[w]] >= 1

CallInv == TypeOK /\ QueueInv /\ HandInv /\ CopiesInv /\ AnswerMatchesExecution

LEMMA CallFacts ==
  /\ Requests \subseteq Calls /\ Oneways \subseteq Calls
  /\ \A c \in Oneways : c \notin Requests
  /\ NoCall \notin Calls /\ Shutdown \notin Calls
  /\ \A c \in Calls : RuntimeOf[c] \in Runtimes
BY SessionAssumption DEF Calls

LEMMA InitCall == Init => CallInv
<1> SUFFICES ASSUME Init PROVE CallInv
  OBVIOUS
<1>1. QueueInv
  BY CallFacts DEF Init, QueueInv
<1>2. HandInv /\ CopiesInv
  BY CallFacts DEF Init, HandInv, CopiesInv
<1>3. AnswerMatchesExecution
  BY CallFacts DEF Init, AnswerMatchesExecution
<1>4. QED
  BY <1>1, <1>2, <1>3, InitType DEF CallInv

\* A step that touches neither calls nor workers keeps the invariant.
LEMMA CallFrame ==
  ASSUME CallInv, UNCHANGED <<call, executed, loose, queue, inHand, pc, why, wire, link>>
  PROVE  QueueInv' /\ HandInv' /\ CopiesInv' /\ AnswerMatchesExecution'
BY DEF CallInv, QueueInv, HandInv, CopiesInv, AnswerMatchesExecution

\* Nor does one disturb the queues that leaves them, and the calls in them, alone.
LEMMA QueueFrame ==
  ASSUME CallInv, UNCHANGED queue, \A c \in Calls : call[c] = "queued" <=> call'[c] = "queued"
  PROVE  QueueInv'
<1>1. ASSUME NEW w \in Runtimes, NEW i \in 1 .. Len(queue[w]), queue[w][i] \in Calls
      PROVE  /\ call'[queue[w][i]] = "queued" /\ RuntimeOf[queue[w][i]] = w
             /\ \A j \in 1 .. Len(queue[w]) : queue[w][j] = queue[w][i] => j = i
  BY <1>1 DEF CallInv, QueueInv
<1>2. ASSUME NEW c \in Calls, call'[c] = "queued"
      PROVE  \E i \in 1 .. Len(queue[RuntimeOf[c]]) : queue[RuntimeOf[c]][i] = c
  BY <1>2 DEF CallInv, QueueInv
<1>3. QED
  BY <1>1, <1>2 DEF QueueInv

\* A command that is no call may be queued at any time.
LEMMA QueueShutdown ==
  ASSUME CallInv, NEW w \in Runtimes, SendShutdown(w), UNCHANGED call
  PROVE  QueueInv'
<1> USE DEF CallInv, TypeOK, QueueType, QueueInv
<1>1. CASE UNCHANGED queue
  BY <1>1
<1>2. CASE queue' = [queue EXCEPT ![w] = Append(@, Shutdown)]
  BY <1>2, CallFacts
<1>3. QED
  BY <1>1, <1>2 DEF SendShutdown

\* A call that is being sent is in no queue: it may join its worker's.
LEMMA QueueCall ==
  ASSUME CallInv, NEW c \in Calls, call[c] = "sending",
         call' = [call EXCEPT ![c] = "queued"],
         queue' = [queue EXCEPT ![RuntimeOf[c]] = Append(@, c)]
  PROVE  QueueInv'
<1> DEFINE w == RuntimeOf[c]
<1> USE DEF CallInv, TypeOK, QueueType, CallType
<1>1. /\ w \in Runtimes /\ c \notin {Shutdown}
      /\ queue'[w] = Append(queue[w], c)
      /\ \A v \in Runtimes : v # w => queue'[v] = queue[v]
      /\ call'[c] = "queued" /\ \A d \in Calls : d # c => call'[d] = call[d]
  BY CallFacts
<1>2. /\ Len(queue'[w]) = Len(queue[w]) + 1 /\ Len(queue[w]) \in Nat
      /\ \A i \in 1 .. Len(queue[w]) : queue'[w][i] = queue[w][i]
      /\ queue'[w][Len(queue[w]) + 1] = c
  BY <1>1
<1>3. \A v \in Runtimes : \A i \in 1 .. Len(queue[v]) : queue[v][i] # c
  BY DEF QueueInv
<1>4. ASSUME NEW v \in Runtimes, NEW i \in 1 .. Len(queue'[v]), queue'[v][i] \in Calls
      PROVE  /\ call'[queue'[v][i]] = "queued" /\ RuntimeOf[queue'[v][i]] = v
             /\ \A j \in 1 .. Len(queue'[v]) : queue'[v][j] = queue'[v][i] => j = i
  <2>1. CASE v = w
    <3>1. \A j \in 1 .. Len(queue'[v]) :
            \/ j = Len(queue[w]) + 1 /\ queue'[v][j] = c
            \/ j \in 1 .. Len(queue[w]) /\ queue'[v][j] = queue[w][j] /\ queue[w][j] # c
      BY <1>1, <1>2, <1>3, <2>1
    <3>2. CASE i = Len(queue[w]) + 1
      BY <1>1, <2>1, <3>1, <3>2
    <3>3. CASE i \in 1 .. Len(queue[w])
      <4>1. queue'[v][i] = queue[w][i] /\ queue[w][i] # c /\ queue[w][i] \in Calls
        BY <1>1, <1>2, <1>3, <1>4, <2>1, <3>3
      <4>2. /\ call[queue[w][i]] = "queued" /\ RuntimeOf[queue[w][i]] = w
            /\ \A j \in 1 .. Len(queue[w]) : queue[w][j] = queue[w][i] => j = i
        BY <1>1, <3>3, <4>1 DEF QueueInv
      <4>3. QED
        BY <1>1, <2>1, <3>1, <4>1, <4>2
    <3>4. QED
      BY <3>1, <3>2, <3>3
  <2>2. CASE v # w
    <3>1. queue'[v] = queue[v]
      BY <1>1, <2>2
    <3>2. queue[v][i] \in Calls /\ i \in 1 .. Len(queue[v]) /\ queue[v][i] # c
      BY <1>3, <1>4, <3>1
    <3>3. QED
      BY <1>1, <3>1, <3>2 DEF QueueInv
  <2>3. QED
    BY <2>1, <2>2
<1>5. ASSUME NEW d \in Calls, call'[d] = "queued"
      PROVE  \E i \in 1 .. Len(queue'[RuntimeOf[d]]) : queue'[RuntimeOf[d]][i] = d
  <2>1. CASE d = c
    BY <1>1, <1>2, <2>1
  <2>2. CASE d # c
    <3>1. call[d] = "queued"
      BY <1>1, <1>5, <2>2
    <3>2. PICK i \in 1 .. Len(queue[RuntimeOf[d]]) : queue[RuntimeOf[d]][i] = d
      BY <3>1 DEF QueueInv
    <3>3. i \in 1 .. Len(queue'[RuntimeOf[d]]) /\ queue'[RuntimeOf[d]][i] = d
      BY <1>1, <1>2, <3>2, CallFacts
    <3>4. QED
      BY <3>3
  <2>3. QED
    BY <2>1, <2>2
<1>6. QED
  BY <1>4, <1>5 DEF QueueInv

\* The command at the head leaves the queue, and its call, if it is one, is queued
\* no longer.
LEMMA QueueTail ==
  ASSUME CallInv, NEW w \in Runtimes, queue[w] # <<>>, Head(queue[w]) \in Calls,
         NEW place, place # "queued",
         call' = [call EXCEPT ![Head(queue[w])] = place],
         queue' = [queue EXCEPT ![w] = Tail(@)]
  PROVE  QueueInv'
<1> DEFINE c == Head(queue[w])
<1> USE DEF CallInv, TypeOK, QueueType, CallType
<1>1. /\ queue'[w] = Tail(queue[w])
      /\ \A v \in Runtimes : v # w => queue'[v] = queue[v]
      /\ call'[c] = place /\ \A d \in Calls : d # c => call'[d] = call[d]
  OBVIOUS
<1>2. /\ Len(queue[w]) \in Nat \ {0} /\ Len(queue'[w]) = Len(queue[w]) - 1
      /\ \A i \in 1 .. Len(queue'[w]) : queue'[w][i] = queue[w][i + 1]
      /\ queue[w][1] = c
  BY <1>1
<1>3. /\ RuntimeOf[c] = w
      /\ \A i \in 1 .. Len(queue[w]) : queue[w][i] = c => i = 1
  BY <1>2 DEF QueueInv
<1>4. ASSUME NEW v \in Runtimes, NEW i \in 1 .. Len(queue'[v]), queue'[v][i] \in Calls
      PROVE  /\ call'[queue'[v][i]] = "queued" /\ RuntimeOf[queue'[v][i]] = v
             /\ \A j \in 1 .. Len(queue'[v]) : queue'[v][j] = queue'[v][i] => j = i
  <2>1. CASE v = w
    <3>1. i + 1 \in 1 .. Len(queue[w]) /\ queue'[v][i] = queue[w][i + 1]
      BY <1>2, <2>1
    <3>2. queue[w][i + 1] # c
      BY <1>2, <1>3, <3>1
    <3>3. \A j \in 1 .. Len(queue'[v]) :
            j + 1 \in 1 .. Len(queue[w]) /\ queue'[v][j] = queue[w][j + 1]
      BY <1>2, <2>1
    <3>4. call[queue[w][i + 1]] = "queued" /\ RuntimeOf[queue[w][i + 1]] = w
      BY <1>4, <3>1 DEF QueueInv
    <3>5. \A k \in 1 .. Len(queue[w]) : queue[w][k] = queue[w][i + 1] => k = i + 1
      BY <1>4, <3>1 DEF QueueInv
    <3>6. \A j \in 1 .. Len(queue'[v]) : queue'[v][j] = queue'[v][i] => j = i
      BY <1>2, <2>1, <3>1, <3>3, <3>5
    <3>7. QED
      BY <1>1, <1>4, <2>1, <3>1, <3>2, <3>4, <3>6
  <2>2. CASE v # w
    BY <1>1, <1>3, <1>4, <2>2 DEF QueueInv
  <2>3. QED
    BY <2>1, <2>2
<1>5. ASSUME NEW d \in Calls, call'[d] = "queued"
      PROVE  \E i \in 1 .. Len(queue'[RuntimeOf[d]]) : queue'[RuntimeOf[d]][i] = d
  <2>1. d # c /\ call[d] = "queued"
    BY <1>1, <1>5
  <2>2. PICK i \in 1 .. Len(queue[RuntimeOf[d]]) : queue[RuntimeOf[d]][i] = d
    BY <2>1 DEF QueueInv
  <2>3. CASE RuntimeOf[d] = w
    <3>1. i - 1 \in 1 .. Len(queue'[w]) /\ queue'[w][i - 1] = d
      BY <1>2, <2>1, <2>2, <2>3
    <3>2. QED
      BY <2>3, <3>1
  <2>4. CASE RuntimeOf[d] # w
    BY <1>1, <2>2, <2>4, CallFacts
  <2>5. QED
    BY <2>3, <2>4
<1>6. QED
  BY <1>4, <1>5 DEF QueueInv

\* What a step of a caller, or a late execution by the server, does to the invariant.
LEMMA CallerCall ==
  ASSUME CallInv, NEW c \in Calls, StartCall(c) \/ SendCommand(c) \/ ServerExecutesLate(c)
  PROVE  QueueInv' /\ HandInv' /\ CopiesInv' /\ AnswerMatchesExecution'
<1> USE CallFacts DEF CallInv, TypeOK, CallType, WorkerType, sessionVars, watchVars, workVars,
            netVars, discVars, readerVars
<1>1. CASE StartCall(c)
  <2>1. QueueInv'
    BY <1>1, QueueFrame DEF StartCall
  <2>2. HandInv' /\ CopiesInv'
    BY <1>1 DEF StartCall, HandInv, CopiesInv
  <2>3. AnswerMatchesExecution'
    BY <1>1 DEF StartCall, AnswerMatchesExecution
  <2>4. QED
    BY <2>1, <2>2, <2>3
<1>2. CASE SendCommand(c)
  <2>1. QueueInv'
    <3>1. CASE pc[RuntimeOf[c]] = "exited"
      BY <1>2, <3>1, QueueFrame DEF SendCommand
    <3>2. CASE pc[RuntimeOf[c]] # "exited"
      BY <1>2, <3>2, QueueCall DEF SendCommand
    <3>3. QED
      BY <3>1, <3>2
  <2>2. HandInv' /\ CopiesInv'
    BY <1>2 DEF SendCommand, HandInv, CopiesInv
  <2>3. AnswerMatchesExecution'
    BY <1>2 DEF SendCommand, AnswerMatchesExecution
  <2>4. QED
    BY <2>1, <2>2, <2>3
<1>3. CASE ServerExecutesLate(c)
  <2>1. QueueInv' /\ HandInv'
    BY <1>3, QueueFrame DEF ServerExecutesLate, HandInv
  <2>2. CopiesInv'
    BY <1>3 DEF ServerExecutesLate, CopiesInv
  <2>3. AnswerMatchesExecution'
    BY <1>3 DEF ServerExecutesLate, AnswerMatchesExecution
  <2>4. QED
    BY <2>1, <2>2, <2>3
<1>4. QED
  BY <1>1, <1>2, <1>3

LEMMA NetworkCall ==
  ASSUME CallInv, NEW w \in Runtimes, Drop(w) \/ ServerExecutes(w)
  PROVE  QueueInv' /\ HandInv' /\ CopiesInv' /\ AnswerMatchesExecution'
<1> USE CallFacts DEF CallInv, TypeOK, CallType, WorkerType, NetType, sessionVars, watchVars,
            workVars, netVars, discVars, readerVars
<1>1. CASE Drop(w)
  <2>1. QueueInv' /\ HandInv'
    BY <1>1 DEF Drop, QueueInv, HandInv
  <2>2. CopiesInv'
    BY <1>1 DEF Drop, HandInv, CopiesInv
  <2>3. AnswerMatchesExecution'
    BY <1>1 DEF Drop, HandInv, CopiesInv, AnswerMatchesExecution
  <2>4. QED
    BY <2>1, <2>2, <2>3
<1>2. CASE ServerExecutes(w)
  <2>1. QueueInv' /\ HandInv'
    BY <1>2 DEF ServerExecutes, QueueInv, HandInv
  <2>2. CopiesInv'
    BY <1>2 DEF ServerExecutes, HandInv, CopiesInv
  <2>3. AnswerMatchesExecution'
    BY <1>2 DEF ServerExecutes, HandInv, CopiesInv, AnswerMatchesExecution
  <2>4. QED
    BY <2>1, <2>2, <2>3
<1>3. QED
  BY <1>1, <1>2

\* The end of a worker answers what is left in its queue, and nothing else.
LEMMA QueueExit ==
  ASSUME CallInv, NEW w \in Runtimes, Exit(w)
  PROVE  /\ QueueInv'
         /\ \A c \in Calls : \/ call'[c] = call[c]
                             \/ call[c] = "queued" /\ call'[c] = "disconnected"
<1> USE DEF CallInv, TypeOK, QueueType, CallType
<1>1. /\ queue'[w] = <<>> /\ \A v \in Runtimes : v # w => queue'[v] = queue[v]
      /\ \A c \in Calls : call'[c] =
           IF \E i \in 1 .. Len(queue[w]) : queue[w][i] = c THEN "disconnected" ELSE call[c]
  BY DEF Exit
<1>2. \A c \in Calls : \/ call'[c] = call[c]
                       \/ call[c] = "queued" /\ call'[c] = "disconnected"
  BY <1>1 DEF QueueInv
<1>3. ASSUME NEW v \in Runtimes, NEW i \in 1 .. Len(queue'[v]), queue'[v][i] \in Calls
      PROVE  /\ call'[queue'[v][i]] = "queued" /\ RuntimeOf[queue'[v][i]] = v
             /\ \A j \in 1 .. Len(queue'[v]) : queue'[v][j] = queue'[v][i] => j = i
  <2>1. v # w /\ queue'[v] = queue[v]
    BY <1>1, <1>3
  <2>2. /\ call[queue[v][i]] = "queued" /\ RuntimeOf[queue[v][i]] = v
        /\ \A j \in 1 .. Len(queue[v]) : queue[v][j] = queue[v][i] => j = i
    BY <1>3, <2>1 DEF QueueInv
  <2>3. \A k \in 1 .. Len(queue[w]) : queue[w][k] # queue[v][i]
    BY <1>3, <2>1, <2>2 DEF QueueInv
  <2>4. QED
    BY <1>1, <1>3, <2>1, <2>2, <2>3
<1>4. ASSUME NEW c \in Calls, call'[c] = "queued"
      PROVE  \E i \in 1 .. Len(queue'[RuntimeOf[c]]) : queue'[RuntimeOf[c]][i] = c
  <2>1. call[c] = "queued" /\ \A k \in 1 .. Len(queue[w]) : queue[w][k] # c
    BY <1>1, <1>4
  <2>2. PICK i \in 1 .. Len(queue[RuntimeOf[c]]) : queue[RuntimeOf[c]][i] = c
    BY <2>1 DEF QueueInv
  <2>3. RuntimeOf[c] # w
    BY <2>1, <2>2
  <2>4. QED
    BY <1>1, <2>2, <2>3, CallFacts
<1>5. QED
  BY <1>2, <1>3, <1>4 DEF QueueInv

\* What the steps of a worker do to the invariant.
LEMMA WorkerCall ==
  ASSUME CallInv, NEW w \in Runtimes, WorkerStep(w)
  PROVE  QueueInv' /\ HandInv' /\ CopiesInv' /\ AnswerMatchesExecution'
<1> USE CallFacts DEF CallInv, TypeOK, CallType, WorkerType, NetType, workVars, netVars,
                      callVars
<1>1. CASE TakeRequest(w)
  <2>1. QueueInv'
    BY <1>1, QueueTail DEF TakeRequest, HeadIs
  <2>2. call[Head(queue[w])] = "queued" /\ RuntimeOf[Head(queue[w])] = w
    BY <1>1 DEF TakeRequest, HeadIs, QueueType, QueueInv
  <2>3. /\ Head(queue[w]) \in Requests /\ inHand[w] = NoCall /\ why[w] = "none"
        /\ \A v \in Runtimes : inHand[v] # Head(queue[w])
    <3>1. Head(queue[w]) \in Requests /\ pc[w] = "select"
      BY <1>1 DEF TakeRequest, HeadIs
    <3>2. inHand[w] = NoCall /\ why[w] = "none"
      BY <3>1 DEF HandInv
    <3>3. ASSUME NEW v \in Runtimes PROVE inHand[v] # Head(queue[w])
      BY <2>2, <3>1 DEF HandInv
    <3>4. QED
      BY <3>1, <3>2, <3>3
  <2>4. /\ pc'[w] = "request" /\ inHand'[w] = Head(queue[w])
        /\ wire'[w] # "none" => link[w] /\ wire'[w] = "submitted"
        /\ \A v \in Runtimes : v # w =>
             pc'[v] = pc[v] /\ inHand'[v] = inHand[v] /\ wire'[v] = wire[v]
        /\ call' = [call EXCEPT ![Head(queue[w])] = "held"]
        /\ UNCHANGED <<why, link, executed, loose>>
    BY <1>1 DEF TakeRequest
  <2>5. HandInv'
    <3>1. ASSUME NEW v \in Runtimes
          PROVE  /\ inHand'[v] # NoCall =>
                      call'[inHand'[v]] = "held" /\ RuntimeOf[inHand'[v]] = v
                 /\ inHand'[v] # NoCall <=> pc'[v] \in {"request", "retry"} \/ why'[v] = "request"
                 /\ why'[v] # "none" <=> pc'[v] \in {"reconnect", "dialing"}
                 /\ wire'[v] # "none" => link'[v] /\ pc'[v] \in {"request", "retry"}
      <4>1. CASE v = w
        BY <2>2, <2>3, <2>4, <4>1 DEF HandInv
      <4>2. CASE v # w
        BY <2>3, <2>4, <4>2 DEF HandInv
      <4>3. QED
        BY <4>1, <4>2
    <3>2. ASSUME NEW c \in Calls, call'[c] = "held" PROVE inHand'[RuntimeOf[c]] = c
      BY <2>2, <2>3, <2>4, <3>2 DEF HandInv
    <3>3. QED
      BY <3>1, <3>2 DEF HandInv
  <2>6. CopiesInv'
    BY <2>2, <2>3, <2>4 DEF CopiesInv, AnswerMatchesExecution
  <2>7. AnswerMatchesExecution'
    BY <1>1, <2>2 DEF TakeRequest, HeadIs, AnswerMatchesExecution
  <2>8. QED
    BY <2>1, <2>5, <2>6, <2>7
<1>2. CASE RequestAnswered(w) \/ RetryFails(w)
  <2>1. inHand[w] \in Requests /\ call[inHand[w]] = "held" /\ RuntimeOf[inHand[w]] = w
    BY <1>2 DEF RequestAnswered, RetryFails, HandInv
  <2>2. QueueInv'
    BY <1>2, <2>1, QueueFrame DEF RequestAnswered, RetryFails, Finish
  <2>3. HandInv'
    BY <1>2, <2>1 DEF RequestAnswered, RetryFails, Finish, HandInv
  <2>4. CopiesInv'
    BY <1>2, <2>1 DEF RequestAnswered, RetryFails, Finish, CopiesInv
  <2>5. AnswerMatchesExecution'
    BY <1>2, <2>1 DEF RequestAnswered, RetryFails, Finish, CopiesInv, AnswerMatchesExecution
  <2>6. QED
    BY <2>2, <2>3, <2>4, <2>5
<1>3. CASE RequestFails(w)
  <2>1. QueueInv' /\ AnswerMatchesExecution'
    BY <1>3, QueueFrame DEF RequestFails, AnswerMatchesExecution
  <2>2. HandInv'
    BY <1>3 DEF RequestFails, StartReconnect, HandInv
  <2>3. CopiesInv'
    BY <1>3 DEF RequestFails, StartReconnect, HandInv, CopiesInv
  <2>4. QED
    BY <2>1, <2>2, <2>3
<1>4. CASE TakeOneway(w)
  <2>1. QueueInv'
    BY <1>4, QueueTail DEF TakeOneway, HeadIs
  <2>2. call[Head(queue[w])] = "queued"
    BY <1>4 DEF TakeOneway, HeadIs, QueueType, QueueInv
  <2>3. /\ (\A c \in Calls : call[c] = "held" <=> call'[c] = "held")
        /\ (\A c \in Calls : call[c] = "held" => loose'[c] = loose[c])
    BY <1>4, <2>2 DEF TakeOneway, HeadIs
  <2>4. HandInv'
    BY <1>4, <2>3 DEF TakeOneway, HandInv
  <2>5. CopiesInv'
    BY <1>4, <2>3 DEF TakeOneway, HandInv, CopiesInv
  <2>6. AnswerMatchesExecution'
    BY <1>4, <2>2 DEF TakeOneway, HeadIs, AnswerMatchesExecution
  <2>7. QED
    BY <2>1, <2>4, <2>5, <2>6
<1>5. CASE TakeShutdown(w)
  <2>1. QueueInv' /\ \A c \in Calls : \/ call'[c] = call[c]
                                      \/ call[c] = "queued" /\ call'[c] = "disconnected"
    BY <1>5, QueueExit DEF TakeShutdown
  <2>2. /\ pc' = [pc EXCEPT ![w] = "exited"] /\ link' = [link EXCEPT ![w] = FALSE]
        /\ UNCHANGED <<inHand, wire, why, executed, loose>>
        /\ \A c \in Calls : call[c] = "held" <=> call'[c] = "held"
    BY <1>5, <2>1 DEF TakeShutdown, Exit
  <2>3. pc[w] = "select" /\ inHand[w] = NoCall /\ wire[w] = "none"
    BY <1>5 DEF TakeShutdown, HeadIs, HandInv
  <2>4. HandInv'
    BY <2>2, <2>3 DEF HandInv
  <2>5. CopiesInv'
    BY <2>2, <2>3 DEF CopiesInv
  <2>6. AnswerMatchesExecution'
    BY <1>5, <2>1 DEF TakeShutdown, AnswerMatchesExecution
  <2>7. QED
    BY <2>1, <2>4, <2>5, <2>6
<1>6. CASE EventGone(w) \/ Attempt(w) \/ DialFails(w) \/ RouteGone(w)
  <2>1. QueueInv' /\ AnswerMatchesExecution'
    BY <1>6, QueueFrame DEF EventGone, Attempt, DialFails, RouteGone, AnswerMatchesExecution
  <2>2. HandInv'
    BY <1>6 DEF EventGone, StartReconnect, Attempt, DialFails, RouteGone, HandInv
  <2>3. CopiesInv'
    BY <1>6 DEF EventGone, StartReconnect, Attempt, DialFails, RouteGone, HandInv, CopiesInv
  <2>4. QED
    BY <2>1, <2>2, <2>3
<1>7. CASE DialOk(w)
  <2>1. QueueInv' /\ AnswerMatchesExecution'
    BY <1>7, QueueFrame DEF DialOk, AnswerMatchesExecution
  <2>2. HandInv'
    BY <1>7 DEF DialOk, ReturnFromReconnect, HandInv
  <2>3. CopiesInv'
    BY <1>7 DEF DialOk, ReturnFromReconnect, HandInv, CopiesInv
  <2>4. QED
    BY <2>1, <2>2, <2>3
<1>8. CASE GiveUp(w)
  <2>1. CASE why[w] = "request"
    <3>1. inHand[w] \in Requests /\ call[inHand[w]] = "held" /\ RuntimeOf[inHand[w]] = w
      BY <1>8, <2>1 DEF HandInv
    <3>2. QueueInv'
      BY <1>8, <2>1, <3>1, QueueFrame DEF GiveUp, Finish
    <3>3. HandInv' /\ CopiesInv'
      BY <1>8, <2>1, <3>1 DEF GiveUp, Finish, ReturnFromReconnect, HandInv, CopiesInv
    <3>4. AnswerMatchesExecution'
      BY <1>8, <2>1, <3>1 DEF GiveUp, Finish, AnswerMatchesExecution
    <3>5. QED
      BY <3>2, <3>3, <3>4
  <2>2. CASE why[w] = "gone"
    <3>1. QueueInv' /\ AnswerMatchesExecution'
      BY <1>8, <2>2, QueueFrame DEF GiveUp, AnswerMatchesExecution
    <3>2. HandInv' /\ CopiesInv'
      BY <1>8, <2>2 DEF GiveUp, ReturnFromReconnect, HandInv, CopiesInv
    <3>3. QED
      BY <3>1, <3>2
  <2>3. CASE why[w] = "end"
    <3>1. QueueInv' /\ \A c \in Calls : \/ call'[c] = call[c]
                                        \/ call[c] = "queued" /\ call'[c] = "disconnected"
      BY <1>8, <2>3, QueueExit DEF GiveUp
    <3>2. /\ pc' = [pc EXCEPT ![w] = "exited"] /\ link' = [link EXCEPT ![w] = FALSE]
          /\ inHand' = inHand /\ wire' = wire /\ why' = [why EXCEPT ![w] = "none"]
          /\ executed' = executed /\ loose' = loose
          /\ \A c \in Calls : call[c] = "held" <=> call'[c] = "held"
      BY <1>8, <2>3, <3>1 DEF GiveUp, Exit, ReturnFromReconnect
    <3>3. pc[w] = "dialing" /\ inHand[w] = NoCall
      BY <1>8, <2>3 DEF GiveUp, HandInv
    <3>4. HandInv'
      BY <2>3, <3>2, <3>3 DEF HandInv
    <3>5. CopiesInv'
      BY <3>2, <3>3 DEF CopiesInv
    <3>6. AnswerMatchesExecution'
      BY <1>8, <3>1 DEF GiveUp, AnswerMatchesExecution
    <3>7. QED
      BY <3>1, <3>4, <3>5, <3>6
  <2>4. QED
    BY <1>8, <2>1, <2>2, <2>3 DEF GiveUp
<1>9. QED
  BY <1>1, <1>2, <1>3, <1>4, <1>5, <1>6, <1>7, <1>8 DEF WorkerStep

LEMMA StepCall == CallInv /\ [Next]_vars => CallInv'
<1> SUFFICES ASSUME CallInv, [Next]_vars
             PROVE  QueueInv' /\ HandInv' /\ CopiesInv' /\ AnswerMatchesExecution'
  BY StepType DEF CallInv
<1> DEFINE Goal == QueueInv' /\ HandInv' /\ CopiesInv' /\ AnswerMatchesExecution'
<1>1. CASE Announce \/ Attach
  BY <1>1, CallFrame DEF Announce, Attach, workVars, netVars, callVars
<1>2. ASSUME RemoveSession \/ DisconnectStep PROVE Goal
  <2>1. CASE UNCHANGED queue
    BY <1>2, <2>1, CallFrame DEF RemoveSession, DisconnectStep, TellDisconnected, StopPrimary,
                                 StopRuntime, StopDone, workVars, netVars, callVars
  <2>2. ASSUME NEW w \in Runtimes, SendShutdown(w), UNCHANGED <<workVars, netVars, callVars>>
        PROVE  Goal
    <3>1. QueueInv'
      BY <2>2, QueueShutdown DEF callVars
    <3>2. HandInv' /\ CopiesInv' /\ AnswerMatchesExecution'
      BY <2>2 DEF CallInv, HandInv, CopiesInv, AnswerMatchesExecution, workVars, netVars,
                  callVars
    <3>3. QED
      BY <3>1, <3>2
  <2>3. QED
    BY <1>2, <2>1, <2>2, SessionAssumption DEF RemoveSession, DisconnectStep,
       TellDisconnected, StopPrimary, StopRuntime, StopDone, workVars, netVars, callVars
<1>3. CASE ReaderStep
  BY <1>3, CallFrame DEF ReaderStep, ReaderStart, ReaderCheck, ReaderBorrow, ReaderEmit,
                         ReaderChanged, readerOthers, workVars, netVars, callVars
<1>4. CASE UNCHANGED vars
  BY <1>4, CallFrame DEF vars, workVars, netVars, callVars
<1>5. QED
  BY <1>1, <1>2, <1>3, <1>4, CallerCall, WorkerCall, NetworkCall DEF Next

\* What a caller hears of its call agrees with what the server may have executed:
\* a request is retried at most once, and an answer of Disconnected means that
\* nothing was ever written (spawn_remote_runtime_worker).
THEOREM AnswerHolds == Spec => []AnswerMatchesExecution
<1>1. Spec => []CallInv
  BY InitCall, StepCall, PTL DEF Spec
<1>2. CallInv => AnswerMatchesExecution
  BY DEF CallInv
<1>3. QED
  BY <1>1, <1>2, PTL

\* A call in progress is always at its own worker, which is alive.
THEOREM NotStranded == Spec => []NoCallIsStranded
<1>1. Spec => []CallInv
  BY InitCall, StepCall, PTL DEF Spec
<1>2. CallInv => NoCallIsStranded
  BY CallFacts DEF CallInv, QueueInv, HandInv, NoCallIsStranded
<1>3. QED
  BY <1>1, <1>2, PTL

=============================================================================
