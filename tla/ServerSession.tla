---------------------------- MODULE ServerSession ----------------------------
(***************************************************************************)
(* A remote server session of codex-mobile-client                          *)
(* (src/session/connection.rs): one worker task per runtime, each with its *)
(* own connection and command queue, all writing one health watch; the     *)
(* callers; disconnect_server; and the health reader of                    *)
(* mobile_client/event_loop.rs.  Tasks run on different threads: an action *)
(* is what a task does between two awaits.                                 *)
(*                                                                         *)
(* Abstracted: what requests and answers say (a server error is an answer  *)
(* like any other), server events other than the loss of a connection, the *)
(* attempt number shown with Connecting, and delays.                       *)
(***************************************************************************)
EXTENDS Naturals, Sequences

CONSTANTS
  Runtimes,     \* runtime kinds of the session, one worker each
  Primary,      \* the runtime behind command_tx
  Requests,     \* callers of request_client_for_runtime, one call each
  Oneways,      \* callers of notify, respond and reject, one call each
  RuntimeOf,    \* the worker each call is routed to
  Shutdown,     \* SessionCommand::Shutdown
  NoCall,
  MaxAttempts,  \* REMOTE_RECONNECT_MAX_ATTEMPTS
  QueueCap,     \* capacity of the command channels (256)
  MaxDrops      \* bound on lost connections

Calls == Requests \cup Oneways

ASSUME SessionAssumption ==
  /\ Primary \in Runtimes
  /\ RuntimeOf \in [Calls -> Runtimes]
  /\ Requests \cap Oneways = {}
  /\ NoCall \notin Calls /\ Shutdown \notin Calls
  /\ MaxAttempts \in Nat \ {0} /\ QueueCap \in Nat \ {0} /\ MaxDrops \in Nat

VARIABLES
  \* the session and its place in MobileClient::sessions
  setup, current,
  \* the health watch: its value, and whether the reader has yet to see it
  health, unseen,
  \* the workers: place, command queue, connection, connections made since the
  \* first, what next_event will say, command in hand, why it reconnects, attempt,
  \* and how far the request in hand has got on the current connection
  pc, queue, link, epoch, note, inHand, why, attempt, wire,
  \* the callers; executions by the server, and copies of a call that left the
  \* worker and that the server may still execute
  call, executed, loose,
  \* disconnect_server
  disc, toStop,
  \* the health reader: place, prev_connected, value borrowed, value emitted, and
  \* the connections it resubscribed the threads on
  rd, prev, borrowed, shown, resubscribed,
  drops

sessionVars == <<setup, current>>
watchVars   == <<health, unseen>>
workVars    == <<pc, inHand, why, attempt>>
netVars     == <<link, epoch, note, wire>>
callVars    == <<call, executed, loose>>
discVars    == <<disc, toStop>>
readerVars  == <<rd, prev, borrowed, shown, resubscribed>>
vars == <<sessionVars, watchVars, workVars, queue, netVars, callVars, discVars,
          readerVars, drops>>

\* connect_remote_multiplexed has spawned the workers.
Init ==
  /\ setup = "spawned" /\ current = FALSE
  /\ health = "connecting" /\ unseen = FALSE
  /\ pc      = [w \in Runtimes |-> "select"]
  /\ queue   = [w \in Runtimes |-> <<>>]
  /\ link    = [w \in Runtimes |-> TRUE]
  /\ epoch   = [w \in Runtimes |-> 0]
  /\ note    = [w \in Runtimes |-> "none"]
  /\ inHand  = [w \in Runtimes |-> NoCall]
  /\ why     = [w \in Runtimes |-> "none"]
  /\ attempt = [w \in Runtimes |-> 1]
  /\ wire    = [w \in Runtimes |-> "none"]
  /\ call     = [c \in Calls |-> "idle"]
  /\ executed = [c \in Calls |-> 0]
  /\ loose    = [c \in Calls |-> 0]
  /\ disc = "no" /\ toStop = {}
  /\ rd = "absent" /\ prev = TRUE /\ borrowed = "connecting" /\ shown = "none"
  /\ resubscribed = [w \in Runtimes |-> 0]
  /\ drops = 0

\* health_tx.send: wakes the reader even when the value is the same.
Tell(h) == health' = h /\ unseen' = TRUE

----------------------------------------------------------------------------
(* Building the session *)

\* The last step of connect_remote_multiplexed, whatever the workers did since.
Announce ==
  /\ setup = "spawned" /\ setup' = "announced"
  /\ Tell("connected")
  /\ UNCHANGED <<current, workVars, queue, netVars, callVars, discVars, readerVars, drops>>

\* attach_remote_session; the warm-up it queues loads the threads.
Attach ==
  /\ setup = "announced" /\ setup' = "attached"
  /\ current' = TRUE
  /\ rd' = "start" /\ unseen' = TRUE
  /\ UNCHANGED <<health, workVars, queue, netVars, callVars, discVars, prev, borrowed,
                 shown, resubscribed, drops>>

----------------------------------------------------------------------------
(* Callers *)

StartCall(c) ==
  /\ setup # "spawned" /\ call[c] = "idle"
  /\ call' = [call EXCEPT ![c] = "sending"]
  /\ UNCHANGED <<sessionVars, watchVars, workVars, queue, netVars, executed, loose,
                 discVars, readerVars, drops>>

\* Mutant of SendCommand: the channel outlives the worker.
SendCommandToNobody(c) ==
  LET w == RuntimeOf[c] IN
  /\ call[c] = "sending" /\ Len(queue[w]) < QueueCap
  /\ call' = [call EXCEPT ![c] = "queued"]
  /\ queue' = [queue EXCEPT ![w] = Append(@, c)]
  /\ UNCHANGED <<sessionVars, watchVars, workVars, netVars, executed, loose, discVars,
                 readerVars, drops>>

\* command_tx.send waits for room, and fails when the worker is gone.
SendCommand(c) ==
  LET w == RuntimeOf[c] IN
  /\ call[c] = "sending"
  /\ \/ /\ pc[w] = "exited"
        /\ call' = [call EXCEPT ![c] = "disconnected"]
        /\ UNCHANGED queue
     \/ /\ pc[w] # "exited" /\ Len(queue[w]) < QueueCap
        /\ call' = [call EXCEPT ![c] = "queued"]
        /\ queue' = [queue EXCEPT ![w] = Append(@, c)]
  /\ UNCHANGED <<sessionVars, watchVars, workVars, netVars, executed, loose, discVars,
                 readerVars, drops>>

----------------------------------------------------------------------------
(* The worker: spawn_remote_runtime_worker *)

HeadIs(w, S) == pc[w] = "select" /\ queue[w] # <<>> /\ Head(queue[w]) \in S

TakeRequest(w) ==
  /\ HeadIs(w, Requests)
  /\ pc' = [pc EXCEPT ![w] = "request"]
  /\ queue' = [queue EXCEPT ![w] = Tail(@)]
  /\ inHand' = [inHand EXCEPT ![w] = Head(queue[w])]
  /\ call' = [call EXCEPT ![Head(queue[w])] = "held"]
  /\ wire' = [wire EXCEPT ![w] = IF link[w] THEN "submitted" ELSE "none"]
  /\ UNCHANGED <<sessionVars, watchVars, why, attempt, link, epoch, note, executed, loose,
                 discVars, readerVars, drops>>

Finish(w, answer) ==
  /\ pc' = [pc EXCEPT ![w] = "select"]
  /\ call' = [call EXCEPT ![inHand[w]] = answer]
  /\ inHand' = [inHand EXCEPT ![w] = NoCall]

RequestAnswered(w) ==
  /\ pc[w] \in {"request", "retry"} /\ link[w] /\ wire[w] = "executed"
  /\ Finish(w, "ok")
  /\ wire' = [wire EXCEPT ![w] = "none"]
  /\ UNCHANGED <<sessionVars, watchVars, queue, why, attempt, link, epoch, note, executed,
                 loose, discVars, readerVars, drops>>

StartReconnect(w, reason) ==
  /\ pc' = [pc EXCEPT ![w] = "reconnect"]
  /\ why' = [why EXCEPT ![w] = reason]
  /\ attempt' = [attempt EXCEPT ![w] = 1]

ReturnFromReconnect(w) ==
  /\ why' = [why EXCEPT ![w] = "none"]
  /\ attempt' = [attempt EXCEPT ![w] = 1]

\* The first attempt failed in transport: reconnect, and retry if that works.
RequestFails(w) ==
  /\ pc[w] = "request" /\ ~link[w]
  /\ StartReconnect(w, "request")
  /\ UNCHANGED <<sessionVars, watchVars, queue, inHand, netVars, callVars, discVars,
                 readerVars, drops>>

\* Mutant of RetryFails: the retry is retried.
RetryAgain(w) ==
  /\ pc[w] = "retry" /\ ~link[w]
  /\ StartReconnect(w, "request")
  /\ UNCHANGED <<sessionVars, watchVars, queue, inHand, netVars, callVars, discVars,
                 readerVars, drops>>

\* The retry failed too: the caller hears of it, whatever the server executed.
RetryFails(w) ==
  /\ pc[w] = "retry" /\ ~link[w]
  /\ Finish(w, "transport")
  /\ UNCHANGED <<sessionVars, watchVars, queue, why, attempt, netVars, executed, loose,
                 discVars, readerVars, drops>>

\* Notify, Resolve and Reject are written once; a failure is the caller's.
TakeOneway(w) ==
  /\ HeadIs(w, Oneways)
  /\ queue' = [queue EXCEPT ![w] = Tail(@)]
  /\ LET c == Head(queue[w]) IN
     /\ call' = [call EXCEPT ![c] = IF link[w] THEN "ok" ELSE "transport"]
     /\ loose' = [loose EXCEPT ![c] = IF link[w] THEN 1 ELSE 0]
  /\ UNCHANGED <<sessionVars, watchVars, workVars, netVars, executed, discVars,
                 readerVars, drops>>

\* Mutant of Exit: the commands still queued are not answered.
ExitForgetful(w) ==
  /\ pc' = [pc EXCEPT ![w] = "exited"]
  /\ queue' = [queue EXCEPT ![w] = <<>>]
  /\ link' = [link EXCEPT ![w] = FALSE]
  /\ UNCHANGED call

\* The worker's end drops its command_rx, and with it every queued command.
Exit(w) ==
  /\ pc' = [pc EXCEPT ![w] = "exited"]
  /\ call' = [c \in Calls |->
       IF \E i \in 1 .. Len(queue[w]) : queue[w][i] = c THEN "disconnected" ELSE call[c]]
  /\ queue' = [queue EXCEPT ![w] = <<>>]
  /\ link' = [link EXCEPT ![w] = FALSE]

TakeShutdown(w) ==
  /\ HeadIs(w, {Shutdown})
  /\ Exit(w)
  /\ UNCHANGED <<sessionVars, watchVars, inHand, why, attempt, epoch, note, wire, executed,
                 loose, discVars, readerVars, drops>>

\* next_event yields Disconnected once, and None from then on.
EventGone(w) ==
  /\ pc[w] = "select" /\ note[w] # "none"
  /\ StartReconnect(w, note[w])
  /\ note' = [note EXCEPT ![w] = "end"]
  /\ UNCHANGED <<sessionVars, watchVars, queue, inHand, link, epoch, wire, callVars,
                 discVars, readerVars, drops>>

Attempt(w) ==
  /\ pc[w] = "reconnect"
  /\ pc' = [pc EXCEPT ![w] = "dialing"]
  /\ Tell("connecting")
  /\ UNCHANGED <<sessionVars, queue, inHand, why, attempt, netVars, callVars, discVars,
                 readerVars, drops>>

\* Mutant of DialOk: the Disconnected event is routed after a reconnection too.
DialOkAndRoute(w) ==
  /\ pc[w] = "dialing"
  /\ link' = [link EXCEPT ![w] = TRUE]
  /\ epoch' = [epoch EXCEPT ![w] = @ + 1]
  /\ note' = [note EXCEPT ![w] = "none"]
  /\ Tell("connected")
  /\ pc' = [pc EXCEPT ![w] = IF why[w] = "request" THEN "retry"
                             ELSE IF why[w] = "gone" THEN "route" ELSE "select"]
  /\ wire' = [wire EXCEPT ![w] = IF why[w] = "request" THEN "submitted" ELSE @]
  /\ ReturnFromReconnect(w)
  /\ UNCHANGED <<sessionVars, queue, inHand, callVars, discVars, readerVars, drops>>

DialOk(w) ==
  /\ pc[w] = "dialing"
  /\ link' = [link EXCEPT ![w] = TRUE]
  /\ epoch' = [epoch EXCEPT ![w] = @ + 1]
  /\ note' = [note EXCEPT ![w] = "none"]
  /\ Tell("connected")
  /\ \/ /\ why[w] = "request"
        /\ pc' = [pc EXCEPT ![w] = "retry"]
        /\ wire' = [wire EXCEPT ![w] = "submitted"]
     \/ /\ why[w] # "request"
        /\ pc' = [pc EXCEPT ![w] = "select"]
        /\ UNCHANGED wire
  /\ ReturnFromReconnect(w)
  /\ UNCHANGED <<sessionVars, queue, inHand, callVars, discVars, readerVars, drops>>

DialFails(w) ==
  /\ pc[w] = "dialing" /\ attempt[w] < MaxAttempts
  /\ pc' = [pc EXCEPT ![w] = "reconnect"]
  /\ attempt' = [attempt EXCEPT ![w] = @ + 1]
  /\ UNCHANGED <<sessionVars, watchVars, queue, inHand, why, netVars, callVars, discVars,
                 readerVars, drops>>

\* The last attempt failed: a request in hand is answered with its first error, a
\* Disconnected event is routed, and the end of the events ends the worker.
GiveUp(w) ==
  /\ pc[w] = "dialing" /\ attempt[w] = MaxAttempts
  /\ Tell("disconnected")
  /\ \/ why[w] = "request" /\ Finish(w, "transport") /\ UNCHANGED <<queue, link>>
     \/ why[w] = "gone" /\ pc' = [pc EXCEPT ![w] = "route"]
                        /\ UNCHANGED <<inHand, call, queue, link>>
     \/ why[w] = "end" /\ Exit(w) /\ UNCHANGED inHand
  /\ ReturnFromReconnect(w)
  /\ UNCHANGED <<sessionVars, epoch, note, wire, executed, loose, discVars,
                 readerVars, drops>>

\* route_app_server_event on a Disconnected that could not be mended.
RouteGone(w) ==
  /\ pc[w] = "route"
  /\ pc' = [pc EXCEPT ![w] = "select"]
  /\ Tell("disconnected")
  /\ UNCHANGED <<sessionVars, queue, inHand, why, attempt, netVars, callVars, discVars,
                 readerVars, drops>>

----------------------------------------------------------------------------
(* The server and the network *)

\* A connection is lost.  The client may or may not report it as an event before
\* its events end; a request not yet executed may still be, later.
Drop(w) ==
  /\ link[w] /\ pc[w] # "exited" /\ drops < MaxDrops
  /\ drops' = drops + 1
  /\ link' = [link EXCEPT ![w] = FALSE]
  /\ \E n \in {"gone", "end"} : note' = [note EXCEPT ![w] = n]
  /\ wire' = [wire EXCEPT ![w] = "none"]
  /\ loose' = IF wire[w] = "submitted"
                THEN [loose EXCEPT ![inHand[w]] = @ + 1] ELSE loose
  /\ UNCHANGED <<sessionVars, watchVars, workVars, queue, epoch, call, executed, discVars,
                 readerVars>>

ServerExecutes(w) ==
  /\ link[w] /\ wire[w] = "submitted"
  /\ wire' = [wire EXCEPT ![w] = "executed"]
  /\ executed' = [executed EXCEPT ![inHand[w]] = @ + 1]
  /\ UNCHANGED <<sessionVars, watchVars, workVars, queue, link, epoch, note, call, loose,
                 discVars, readerVars, drops>>

ServerExecutesLate(c) ==
  /\ loose[c] > 0
  /\ loose' = [loose EXCEPT ![c] = @ - 1]
  /\ executed' = [executed EXCEPT ![c] = @ + 1]
  /\ UNCHANGED <<sessionVars, watchVars, workVars, queue, netVars, call, discVars,
                 readerVars, drops>>

----------------------------------------------------------------------------
(* disconnect_server and disconnect_inner *)

RemoveSession ==
  /\ disc = "no" /\ current
  /\ disc' = "removed" /\ current' = FALSE
  /\ UNCHANGED <<setup, watchVars, workVars, queue, netVars, callVars, toStop, readerVars,
                 drops>>

TellDisconnected ==
  /\ disc = "removed" /\ disc' = "primary"
  /\ Tell("disconnected")
  /\ UNCHANGED <<sessionVars, workVars, queue, netVars, callVars, toStop, readerVars, drops>>

\* One send of Shutdown: it waits for room, and is lost on a worker that is gone.
SendShutdown(w) ==
  \/ pc[w] = "exited" /\ UNCHANGED queue
  \/ /\ pc[w] # "exited" /\ Len(queue[w]) < QueueCap
     /\ queue' = [queue EXCEPT ![w] = Append(@, Shutdown)]

\* Mutant of StopPrimary: the other runtimes are forgotten.
StopPrimaryOnly ==
  /\ disc = "primary" /\ disc' = "runtimes"
  /\ SendShutdown(Primary)
  /\ toStop' = {}
  /\ UNCHANGED <<sessionVars, watchVars, workVars, netVars, callVars, readerVars, drops>>

StopPrimary ==
  /\ disc = "primary" /\ disc' = "runtimes"
  /\ SendShutdown(Primary)
  /\ toStop' = Runtimes
  /\ UNCHANGED <<sessionVars, watchVars, workVars, netVars, callVars, readerVars, drops>>

\* The runtimes in the order of the hash map.
StopRuntime(w) ==
  /\ disc = "runtimes" /\ w \in toStop
  /\ SendShutdown(w)
  /\ toStop' = toStop \ {w}
  /\ UNCHANGED <<sessionVars, watchVars, workVars, netVars, callVars, disc, readerVars, drops>>

\* The pause of 100 ms, and the abort, which hits the task that joins the workers
\* and none of them.
StopDone ==
  /\ disc = "runtimes" /\ toStop = {}
  /\ disc' = "done"
  /\ UNCHANGED <<sessionVars, watchVars, workVars, queue, netVars, callVars, toStop,
                 readerVars, drops>>

----------------------------------------------------------------------------
(* spawn_health_reader *)

readerOthers == <<sessionVars, health, workVars, queue, netVars, callVars, discVars, drops>>

ReaderStart ==
  /\ rd = "start"
  /\ IF current THEN rd' = "check" /\ shown' = "connecting"
                ELSE rd' = "exited" /\ UNCHANGED shown
  /\ UNCHANGED <<readerOthers, unseen, prev, borrowed, resubscribed>>

ReaderCheck ==
  /\ rd = "check"
  /\ rd' = IF current THEN "borrow" ELSE "exited"
  /\ UNCHANGED <<readerOthers, unseen, prev, borrowed, shown, resubscribed>>

ReaderBorrow ==
  /\ rd = "borrow" /\ rd' = "emit"
  /\ borrowed' = health
  /\ UNCHANGED <<readerOthers, unseen, prev, shown, resubscribed>>

\* Mutant of ReaderEmit: marks the health as seen after showing it.
ReaderEmitAndSee ==
  /\ rd = "emit" /\ rd' = "wait"
  /\ shown' = borrowed /\ borrowed' = "connecting"
  /\ prev' = (borrowed = "connected")
  /\ resubscribed' = IF ~prev /\ borrowed = "connected" THEN epoch ELSE resubscribed
  /\ unseen' = FALSE
  /\ UNCHANGED readerOthers

\* emit_connection_state; a transition to Connected resubscribes every thread.  The
\* warm-up is granted every connection made up to the reader's first look.
ReaderEmit ==
  /\ rd = "emit" /\ rd' = "wait"
  /\ shown' = borrowed /\ borrowed' = "connecting"  \* the copy goes out of scope
  /\ prev' = (borrowed = "connected")
  /\ resubscribed' = IF \/ ~prev /\ borrowed = "connected"
                        \/ prev /\ shown = "connecting"
                       THEN epoch ELSE resubscribed
  /\ UNCHANGED <<readerOthers, unseen>>

\* health_rx.changed: marks the latest value as seen.
ReaderChanged ==
  /\ rd = "wait" /\ unseen
  /\ rd' = "check" /\ unseen' = FALSE
  /\ UNCHANGED <<readerOthers, prev, borrowed, shown, resubscribed>>

----------------------------------------------------------------------------

WorkerStep(w) ==
  \/ TakeRequest(w) \/ RequestAnswered(w) \/ RequestFails(w) \/ RetryFails(w)
  \/ TakeOneway(w) \/ TakeShutdown(w) \/ EventGone(w)
  \/ Attempt(w) \/ DialOk(w) \/ DialFails(w) \/ GiveUp(w) \/ RouteGone(w)

DisconnectStep ==
  \/ TellDisconnected \/ StopPrimary \/ (\E w \in Runtimes : StopRuntime(w)) \/ StopDone

ReaderStep == ReaderStart \/ ReaderCheck \/ ReaderBorrow \/ ReaderEmit \/ ReaderChanged

Next ==
  \/ Announce \/ Attach
  \/ \E c \in Calls : StartCall(c) \/ SendCommand(c) \/ ServerExecutesLate(c)
  \/ \E w \in Runtimes : WorkerStep(w) \/ Drop(w) \/ ServerExecutes(w)
  \/ RemoveSession \/ DisconnectStep
  \/ ReaderStep

Spec == Init /\ [][Next]_vars

\* The runtime schedules every task, a dial ends, and a server executes what it
\* is sent over a connection that stays up: the client sets no deadline of its own.
Fairness ==
  /\ WF_vars(Announce) /\ WF_vars(Attach)
  /\ \A c \in Calls : WF_vars(SendCommand(c))
  /\ \A w \in Runtimes : WF_vars(WorkerStep(w)) /\ WF_vars(ServerExecutes(w))
  /\ WF_vars(DisconnectStep) /\ WF_vars(ReaderStep)

FairSpec == Spec /\ Fairness

----------------------------------------------------------------------------
(* Properties *)

HealthValues == {"connecting", "connected", "disconnected"}

SessionType ==
  /\ setup \in {"spawned", "announced", "attached"} /\ current \in BOOLEAN
  /\ health \in HealthValues /\ unseen \in BOOLEAN
  /\ disc \in {"no", "removed", "primary", "runtimes", "done"}
  /\ toStop \subseteq Runtimes
  /\ drops \in 0 .. MaxDrops

WorkerType ==
  /\ pc \in [Runtimes -> {"select", "request", "reconnect", "dialing", "retry", "route",
                          "exited"}]
  /\ inHand \in [Runtimes -> Requests \cup {NoCall}]
  /\ why \in [Runtimes -> {"none", "request", "gone", "end"}]
  /\ attempt \in [Runtimes -> 1 .. MaxAttempts]

QueueType == queue \in [Runtimes -> Seq(Calls \cup {Shutdown})]

NetType ==
  /\ link \in [Runtimes -> BOOLEAN]
  /\ epoch \in [Runtimes -> Nat]
  /\ note \in [Runtimes -> {"none", "gone", "end"}]
  /\ wire \in [Runtimes -> {"none", "submitted", "executed"}]

CallType ==
  /\ call \in [Calls -> {"idle", "sending", "queued", "held", "ok", "transport",
                         "disconnected"}]
  /\ executed \in [Calls -> Nat]
  /\ loose \in [Calls -> Nat]

ReaderType ==
  /\ rd \in {"absent", "start", "check", "borrow", "emit", "wait", "exited"}
  /\ prev \in BOOLEAN /\ borrowed \in HealthValues
  /\ shown \in HealthValues \cup {"none"}
  /\ resubscribed \in [Runtimes -> Nat]

\* Type correctness of the session, its workers, their connections, the callers
\* and the reader.
TypeOK == SessionType /\ WorkerType /\ QueueType /\ NetType /\ CallType /\ ReaderType

\* What a caller hears agrees with what became of its call: one that is told the
\* session is disconnected was never written to any connection; one that got an
\* answer was executed; and no request is executed more than twice, whatever
\* connections were lost and whenever the server gets to the copies left on them
\* (one retry per request, connection.rs 1616-1651).
AnswerMatchesExecution ==
  /\ \A c \in Calls :
       call[c] \in {"idle", "sending", "queued", "disconnected"}
         => executed[c] = 0 /\ loose[c] = 0
  /\ \A c \in Requests :
       /\ call[c] = "ok" => executed[c] >= 1
       /\ executed[c] + loose[c] <= 2

\* A worker keeps a call until it answers it: no call waits for a worker that is
\* gone, and each call in progress is at one place of its own worker.
NoCallIsStranded ==
  \A c \in Calls : LET w == RuntimeOf[c] IN
    /\ call[c] = "queued" => \E i \in 1 .. Len(queue[w]) : queue[w][i] = c
    /\ call[c] = "held" => inHand[w] = c /\ pc[w] # "exited"

\* The workers share one health value, but none of them says of another's
\* connection what is not so: until the user disconnects, Disconnected means that
\* some connection is down, and Connecting that the session is being built or that
\* some worker is between the attempts of a reconnection.
BadNewsIsTrue ==
  /\ health = "disconnected" /\ disc = "no" => \E w \in Runtimes : ~link[w]
  /\ health = "connecting" =>
       setup = "spawned" \/ \E w \in Runtimes : pc[w] \in {"reconnect", "dialing"}

\* Every call returns, if only with an error.
EveryCallReturns ==
  \A c \in Calls :
    call[c] = "sending" ~> call[c] \in {"ok", "transport", "disconnected"}

\* A disconnect ends every worker in the end, the ones that were reconnecting too.
DisconnectStopsWorkers ==
  disc # "no" ~> \A w \in Runtimes : pc[w] = "exited"

\* The user interface ends up showing the session's health: no update is lost
\* between the reader's look at the watch and its wait for the next change.
ReaderConverges == <>[](rd = "exited" \/ (rd = "wait" /\ shown = health))

\* event_loop.rs: "A real disconnect/reconnect cycle still triggers the transition
\* below", which resubscribes the threads on the new connection.
ReconnectResubscribes ==
  rd = "wait" /\ ~unseen /\ current /\ health = "connected"
    => \A w \in Runtimes : resubscribed[w] = epoch[w]
=============================================================================
