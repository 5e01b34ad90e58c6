----------------------------- MODULE IpcReconnect -----------------------------
(***************************************************************************)
(* The IPC client of codex-ipc (src/client): IpcConnection with its read   *)
(* and write tasks and its PendingRequests, IpcClient, which is a counted  *)
(* reference to one, and ReconnectingIpcClient, whose reconnect_loop       *)
(* replaces the client in a shared slot.  The loop, the callers of the     *)
(* wrapper and the requests in flight run on different threads: one action *)
(* is what one of them does under one lock or between two awaits.          *)
(*                                                                         *)
(* Abstracted: the router's protocol beyond requests, their answers and     *)
(* the router's own requests, broadcasts, and the length of the back-off.  *)
(***************************************************************************)
EXTENDS Naturals, FiniteSets, Sequences

CONSTANTS
  Callers,      \* threads that send one request each
  Handlers,     \* request handlers, each installed by a thread of its own
  NoHandler,
  Answer,       \* an answer to the router, by the read task or by a handler
  QueueCap,     \* what the write queue holds (256), with the envelope being written
  MaxConns,     \* bound on the connections that are ever opened
  MaxAttempts,  \* ReconnectPolicy::max_attempts
  MaxRecycles   \* bound on the calls to invalidate

ASSUME IpcAssumption ==
  /\ MaxConns \in Nat \ {0} /\ MaxAttempts \in Nat \ {0} /\ MaxRecycles \in Nat
  /\ QueueCap \in Nat \ {0} /\ NoHandler \notin Handlers /\ Answer \notin Callers

Conns  == 1 .. MaxConns
NoConn == 0

VARIABLES
  \* ReconnectingIpcClient
  client,        \* the slot with the current IpcClient
  handler,       \* the handler to re-register
  connection,    \* the value of the connection_tx watch
  invalidate,    \* signals waiting in invalidate_rx
  \* reconnect_loop: its place, the clones it holds, its attempt counter, and
  \* whether abort() was called on it
  loop, current, newClient, attempt, abort,
  \* the connections opened so far and their parts
  opened, readTask, writeTask, peer, pending, queued, asked, registered,
  \* the threads that call the wrapper, the clone each one holds, and those whose
  \* request has an outcome: an answer, NotConnected, Timeout, ConnectionClosed
  caller, callerOn, settled, setter, setterOn, shutdown, shutdownOn,
  \* the bound on invalidations; history: the connections that were in the slot
  recycles, used

wrapperVars == <<client, handler, connection, invalidate>>
loopVars    == <<loop, current, newClient, attempt, abort>>
tasks       == <<readTask, writeTask, peer>>
requests    == <<pending, queued, asked>>
connVars    == <<opened, tasks, requests, registered>>
callerVars  == <<caller, callerOn, settled>>
setterVars  == <<setter, setterOn>>
stopVars    == <<shutdown, shutdownOn>>
vars == <<wrapperVars, loopVars, connVars, callerVars, setterVars, stopVars, recycles, used>>

\* start_with_connector, with an initial client or without one.
Init ==
  /\ client \in {NoConn, 1} /\ connection = (client # NoConn)
  /\ opened = client
  /\ handler = NoHandler /\ invalidate = 0
  /\ loop = "top" /\ current = NoConn /\ newClient = NoConn /\ attempt = 0 /\ abort = FALSE
  /\ readTask  = [c \in Conns |-> IF c <= opened THEN "running" ELSE "none"]
  /\ writeTask = readTask
  /\ peer = [c \in Conns |-> "open"]
  /\ pending = [c \in Conns |-> {}] /\ asked = pending /\ queued = [c \in Conns |-> <<>>]
  /\ registered = [c \in Conns |-> NoHandler]
  /\ caller = [r \in Callers |-> "idle"] /\ callerOn = [r \in Callers |-> NoConn]
  /\ settled = {}
  /\ setter = [h \in Handlers |-> "idle"] /\ setterOn = [h \in Handlers |-> NoConn]
  /\ shutdown = "no" /\ shutdownOn = NoConn
  /\ recycles = 0 /\ used = {client} \ {NoConn}

-----------------------------------------------------------------------------
(* PendingRequests.                                                        *)

Insert(r, c)  == pending' = [pending EXCEPT ![c] = @ \cup {r}]
Resolve(r, c) == /\ pending' = [pending EXCEPT ![c] = @ \ {r}]
                 /\ settled' = settled \cup {r}

\* clear: everybody who waits is told NotConnected; no answer is read any more.
Clear(c) ==
  /\ asked' = [asked EXCEPT ![c] = {}]
  /\ pending' = [pending EXCEPT ![c] = {}]
  /\ settled' = settled \cup pending[c]

\* shutdown and shutdown_ref: both tasks are aborted, what was queued goes with
\* the write task, the pending map is cleared.
CloseConnection(c) ==
  /\ readTask'  = [readTask EXCEPT ![c] = "aborted"]
  /\ writeTask' = [writeTask EXCEPT ![c] = "aborted"]
  /\ queued' = [queued EXCEPT ![c] = <<>>]
  /\ Clear(c)

-----------------------------------------------------------------------------
(* reconnect_loop.                                                         *)

Goto(place) == loop' = place

\* client_lock_read and clone; then subscribe and select!.
Top ==
  /\ loop = "top"
  /\ current' = client
  /\ Goto(IF client = NoConn THEN "clear" ELSE "select")
  /\ UNCHANGED <<wrapperVars, newClient, attempt, abort, connVars, callerVars, setterVars,
                 stopVars, recycles, used>>

\* Mutant: the loop only drops its clone of the old client.
RecycleByDropping(c) == UNCHANGED <<readTask, writeTask, requests, settled>>

\* The loop's receiver is closed when the last broadcast sender is gone; the
\* IpcConnection the loop itself holds a clone of keeps one, so the only way out
\* is an invalidate signal, followed by force_disconnect.
Recycle(c) == CloseConnection(c)

Invalidated ==
  /\ loop = "select" /\ ~abort /\ invalidate > 0
  /\ invalidate' = invalidate - 1
  /\ Recycle(current)
  /\ current' = NoConn
  /\ Goto("clear")
  /\ UNCHANGED <<client, handler, connection, newClient, attempt, abort, opened, peer,
                 registered, caller, callerOn, setterVars, stopVars, recycles, used>>

ClearSlot ==
  /\ loop = "clear"
  /\ client' = NoConn
  /\ Goto("announceLost")
  /\ UNCHANGED <<handler, connection, invalidate, current, newClient, attempt, abort, connVars,
                 callerVars, setterVars, stopVars, recycles, used>>

\* Mutant: the watch is only told of new clients.
LoseQuietly ==
  /\ loop = "announceLost"
  /\ attempt' = 0
  /\ Goto("attempt")
  /\ UNCHANGED <<wrapperVars, current, newClient, abort, connVars, callerVars, setterVars,
                 stopVars, recycles, used>>

AnnounceLost ==
  /\ loop = "announceLost"
  /\ connection' = FALSE
  /\ attempt' = 0
  /\ Goto("attempt")
  /\ UNCHANGED <<client, handler, invalidate, current, newClient, abort, connVars, callerVars,
                 setterVars, stopVars, recycles, used>>

\* Mutant: the counter starts again with every attempt.
AttemptUncounted ==
  /\ loop = "attempt"
  /\ attempt' = 1
  /\ Goto("connecting")
  /\ UNCHANGED <<wrapperVars, current, newClient, abort, connVars, callerVars, setterVars,
                 stopVars, recycles, used>>

\* The attempt is counted before the delay; the one too many ends the loop.
Attempt ==
  /\ loop = "attempt"
  /\ attempt' = attempt + 1
  /\ Goto(IF attempt' > MaxAttempts THEN "gaveUp" ELSE "connecting")
  /\ UNCHANGED <<wrapperVars, current, newClient, abort, connVars, callerVars, setterVars,
                 stopVars, recycles, used>>

\* connect_with_stream spawns both tasks before it says hello to the router.
Open(c) ==
  /\ opened' = c
  /\ readTask'  = [readTask EXCEPT ![c] = "running"]
  /\ writeTask' = [writeTask EXCEPT ![c] = "running"]

Connected ==
  /\ loop = "connecting" /\ ~abort /\ opened < MaxConns
  /\ Open(opened + 1)
  /\ newClient' = opened + 1
  /\ Goto("register")
  /\ UNCHANGED <<wrapperVars, current, attempt, abort, peer, requests, registered, callerVars,
                 setterVars, stopVars, recycles, used>>

\* The connector fails: no socket, or a hello that is refused or times out,
\* which drops the IpcConnection with its tasks running.
ConnectFails ==
  /\ loop = "connecting" /\ ~abort
  /\ \/ UNCHANGED <<opened, readTask, writeTask>>
     \/ opened < MaxConns /\ Open(opened + 1)
  /\ Goto("attempt")
  /\ UNCHANGED <<wrapperVars, current, newClient, attempt, abort, peer, requests, registered,
                 callerVars, setterVars, stopVars, recycles, used>>

\* The wrapper's handler, if there is one, under its read lock.
Register ==
  /\ loop = "register"
  /\ registered' = [registered EXCEPT ![newClient] = handler]
  /\ Goto("store")
  /\ UNCHANGED <<wrapperVars, current, newClient, attempt, abort, opened, tasks, requests,
                 callerVars, setterVars, stopVars, recycles, used>>

Store ==
  /\ loop = "store"
  /\ client' = newClient /\ newClient' = NoConn
  /\ used' = used \cup {newClient}
  /\ Goto("announce")
  /\ UNCHANGED <<handler, connection, invalidate, current, attempt, abort, connVars, callerVars,
                 setterVars, stopVars, recycles>>

Announce ==
  /\ loop = "announce"
  /\ connection' = TRUE
  /\ Goto("top")
  /\ UNCHANGED <<client, handler, invalidate, current, newClient, attempt, abort, connVars,
                 callerVars, setterVars, stopVars, recycles, used>>

\* abort() takes effect at an await that has to wait, and a task that waits is not
\* polled again after it; the future's clones go.
Cancelled ==
  /\ abort /\ loop \in {"select", "connecting", "register"}
  /\ Goto("cancelled")
  /\ current' = NoConn /\ newClient' = NoConn
  /\ UNCHANGED <<wrapperVars, attempt, abort, connVars, callerVars, setterVars, stopVars,
                 recycles, used>>

-----------------------------------------------------------------------------
(* The tasks of a connection and the router at its far end (external).     *)

\* The bounded channel to the write task: a sender waits at a full one.
HasRoom(c)    == Len(queued[c]) < QueueCap
Enqueue(c, e) == queued' = [queued EXCEPT ![c] = Append(@, e)]

\* Who holds a clone of connection c, shutdown apart.  What becomes of a
\* connection that nobody holds is left out.
SharedClient(c) ==
  \/ c \in {current, newClient, client}
  \/ \E r \in Callers : callerOn[r] = c
  \/ \E h \in Handlers : setterOn[h] = c
Held(c) == c = shutdownOn \/ SharedClient(c)

\* write_loop: an envelope reaches the router, or the failed write ends the task
\* and with it the queue.  Nothing times a write, and a router that is there may
\* not read.
Write(c) ==
  /\ writeTask[c] = "running" /\ queued[c] # <<>> /\ peer[c] = "open"
  /\ queued' = [queued EXCEPT ![c] = Tail(@)]
  /\ asked' = [asked EXCEPT ![c] = @ \cup ({Head(queued[c])} \cap Callers)]
  /\ UNCHANGED <<wrapperVars, loopVars, opened, tasks, pending, registered, callerVars,
                 setterVars, stopVars, recycles, used>>

WriteFails(c) ==
  /\ writeTask[c] = "running" /\ queued[c] # <<>> /\ peer[c] = "closed"
  /\ writeTask' = [writeTask EXCEPT ![c] = "ended"]
  /\ queued' = [queued EXCEPT ![c] = <<>>]
  /\ UNCHANGED <<wrapperVars, loopVars, opened, readTask, peer, pending, asked, registered,
                 callerVars, setterVars, stopVars, recycles, used>>

\* read_loop gets a Response; one nobody is registered for is dropped.
ReadAnswer(c) ==
  /\ readTask[c] = "running"
  /\ \E r \in asked[c] :
       /\ asked' = [asked EXCEPT ![c] = @ \ {r}]
       /\ IF r \in pending[c] THEN Resolve(r, c) ELSE UNCHANGED <<pending, settled>>
  /\ UNCHANGED <<wrapperVars, loopVars, opened, tasks, queued, registered, caller, callerOn,
                 setterVars, stopVars, recycles, used>>

\* read_loop gets a ClientDiscoveryRequest: it reads nothing more before the
\* answer is in the queue, and ends, the pending map as it is, when nobody writes.
ReadDiscovery(c) ==
  /\ readTask[c] = "running" /\ Held(c)
  /\ readTask' = [readTask EXCEPT ![c] = "answering"]
  /\ UNCHANGED <<wrapperVars, loopVars, opened, writeTask, peer, requests, registered, callerVars,
                 setterVars, stopVars, recycles, used>>

AnswerDiscovery(c) ==
  /\ readTask[c] = "answering"
  /\ \/ /\ writeTask[c] = "running" /\ HasRoom(c)
        /\ Enqueue(c, Answer)
        /\ readTask' = [readTask EXCEPT ![c] = "running"]
     \/ /\ writeTask[c] # "running"
        /\ readTask' = [readTask EXCEPT ![c] = "ended"]
        /\ UNCHANGED queued
  /\ UNCHANGED <<wrapperVars, loopVars, opened, writeTask, peer, pending, asked, registered,
                 callerVars, setterVars, stopVars, recycles, used>>

\* The task spawned for a Request of the router sends what the handler said.
HandlerAnswers(c) ==
  /\ Held(c) /\ registered[c] # NoHandler
  /\ writeTask[c] = "running" /\ HasRoom(c)
  /\ Enqueue(c, Answer)
  /\ UNCHANGED <<wrapperVars, loopVars, opened, tasks, pending, asked, registered, callerVars,
                 setterVars, stopVars, recycles, used>>

\* read_loop reaches the end of the stream.
ReadEnd(c) ==
  /\ readTask[c] = "running" /\ peer[c] = "closed"
  /\ readTask' = [readTask EXCEPT ![c] = "ended"]
  /\ Clear(c)
  /\ UNCHANGED <<wrapperVars, loopVars, opened, writeTask, peer, queued, registered,
                 caller, callerOn, setterVars, stopVars, recycles, used>>

PeerCloses(c) ==
  /\ Held(c) /\ peer[c] = "open"
  /\ \/ readTask[c] \in {"running", "answering"}
     \/ writeTask[c] = "running"
  /\ peer' = [peer EXCEPT ![c] = "closed"]
  /\ UNCHANGED <<wrapperVars, loopVars, opened, readTask, writeTask, requests, registered,
                 callerVars, setterVars, stopVars, recycles, used>>

-----------------------------------------------------------------------------
(* A caller: client(), then send_request on the clone it got.              *)

CallerTakesClone(r) ==
  /\ caller[r] = "idle" /\ client # NoConn
  /\ callerOn' = [callerOn EXCEPT ![r] = client]
  /\ caller' = [caller EXCEPT ![r] = "register"]
  /\ UNCHANGED <<wrapperVars, loopVars, connVars, settled, setterVars, stopVars, recycles, used>>

\* The request is entered in the pending map before it is sent.
CallerRegisters(r) ==
  /\ caller[r] = "register"
  /\ Insert(r, callerOn[r])
  /\ caller' = [caller EXCEPT ![r] = "send"]
  /\ UNCHANGED <<wrapperVars, loopVars, opened, tasks, queued, asked, registered, callerOn, settled,
                 setterVars, stopVars, recycles, used>>

\* The send waits for room, outside of request_timeout; without a write task
\* the channel is closed.
CallerSends(r) ==
  LET c == callerOn[r]
  IN  /\ caller[r] = "send"
      /\ writeTask[c] = "running" => HasRoom(c)
      /\ IF writeTask[c] = "running"
         THEN /\ Enqueue(c, r)
              /\ caller' = [caller EXCEPT ![r] = "wait"]
              /\ UNCHANGED <<settled, callerOn>>
         ELSE /\ caller' = [caller EXCEPT ![r] = "done"]
              /\ callerOn' = [callerOn EXCEPT ![r] = NoConn]
              /\ settled' = settled \cup {r}
              /\ UNCHANGED queued
      /\ UNCHANGED <<wrapperVars, loopVars, opened, tasks, pending, asked, registered, setterVars,
                     stopVars, recycles, used>>

\* Mutant: a request waits for its answer or for the end of the connection.
RequestNeverTimesOut(r) == caller[r] = "wait" /\ r \in settled /\ UNCHANGED vars

\* request_timeout: the entry stays in the pending map.
RequestTimeout(r) ==
  /\ caller[r] = "wait" /\ r \notin settled
  /\ settled' = settled \cup {r}
  /\ UNCHANGED <<wrapperVars, loopVars, connVars, caller, callerOn, setterVars, stopVars,
                 recycles, used>>

\* Mutant: the clone outlives the call.
CallerReturnsWithClone(r) ==
  /\ caller[r] = "wait" /\ r \in settled
  /\ caller' = [caller EXCEPT ![r] = "done"]
  /\ UNCHANGED <<wrapperVars, loopVars, connVars, callerOn, settled, setterVars, stopVars,
                 recycles, used>>

CallerReturns(r) ==
  /\ caller[r] = "wait" /\ r \in settled
  /\ caller' = [caller EXCEPT ![r] = "done"]
  /\ callerOn' = [callerOn EXCEPT ![r] = NoConn]
  /\ UNCHANGED <<wrapperVars, loopVars, connVars, settled, setterVars, stopVars, recycles, used>>

-----------------------------------------------------------------------------
(* set_request_handler: the slot, a clone of the client, its handler.      *)

StoreHandler(h) ==
  /\ setter[h] = "idle"
  /\ handler' = h
  /\ setter' = [setter EXCEPT ![h] = "stored"]
  /\ UNCHANGED <<client, connection, invalidate, loopVars, connVars, callerVars, setterOn,
                 stopVars, recycles, used>>

CloneForHandler(h) ==
  /\ setter[h] = "stored"
  /\ setterOn' = [setterOn EXCEPT ![h] = client]
  /\ setter' = [setter EXCEPT ![h] = IF client = NoConn THEN "done" ELSE "cloned"]
  /\ UNCHANGED <<wrapperVars, loopVars, connVars, callerVars, stopVars, recycles, used>>

SetOnClient(h) ==
  /\ setter[h] = "cloned"
  /\ registered' = [registered EXCEPT ![setterOn[h]] = h]
  /\ setterOn' = [setterOn EXCEPT ![h] = NoConn]
  /\ setter' = [setter EXCEPT ![h] = "done"]
  /\ UNCHANGED <<wrapperVars, loopVars, opened, tasks, requests, callerVars, stopVars,
                 recycles, used>>

Invalidate ==
  /\ recycles < MaxRecycles
  /\ recycles' = recycles + 1 /\ invalidate' = invalidate + 1
  /\ UNCHANGED <<client, handler, connection, loopVars, connVars, callerVars, setterVars, stopVars,
                 used>>

-----------------------------------------------------------------------------
(* shutdown: abort the loop, take the client, disconnect, announce.        *)

ShutdownAborts ==
  /\ shutdown = "no"
  /\ abort' = TRUE /\ shutdown' = "aborted"
  /\ UNCHANGED <<wrapperVars, loop, current, newClient, attempt, connVars, callerVars, setterVars,
                 shutdownOn, recycles, used>>

ShutdownTakes ==
  /\ shutdown = "aborted"
  /\ shutdownOn' = client /\ client' = NoConn
  /\ shutdown' = IF client = NoConn THEN "disconnected" ELSE "taken"
  /\ UNCHANGED <<handler, connection, invalidate, loopVars, connVars, callerVars, setterVars,
                 recycles, used>>

\* disconnect: only the last clone closes the connection.
ShutdownDisconnects ==
  /\ shutdown = "taken"
  /\ IF SharedClient(shutdownOn)
     THEN UNCHANGED <<readTask, writeTask, requests, settled>>
     ELSE CloseConnection(shutdownOn)
  /\ shutdown' = "disconnected" /\ shutdownOn' = NoConn
  /\ UNCHANGED <<wrapperVars, loopVars, opened, peer, registered, caller, callerOn,
                 setterVars, recycles, used>>

ShutdownAnnounces ==
  /\ shutdown = "disconnected"
  /\ connection' = FALSE /\ shutdown' = "done"
  /\ UNCHANGED <<client, handler, invalidate, loopVars, connVars, callerVars, setterVars,
                 shutdownOn, recycles, used>>

-----------------------------------------------------------------------------
Loop == Top \/ Invalidated \/ ClearSlot \/ AnnounceLost \/ Attempt \/ Connected \/ ConnectFails
          \/ Register \/ Store \/ Announce \/ Cancelled
Tasks == \E c \in Conns : Write(c) \/ WriteFails(c) \/ ReadAnswer(c) \/ ReadDiscovery(c)
                            \/ AnswerDiscovery(c) \/ HandlerAnswers(c) \/ ReadEnd(c)
Peer  == \E c \in Conns : PeerCloses(c)
Calls == \E r \in Callers : CallerTakesClone(r) \/ CallerRegisters(r) \/ CallerSends(r)
                              \/ RequestTimeout(r) \/ CallerReturns(r)
Setters == \E h \in Handlers : StoreHandler(h) \/ CloneForHandler(h) \/ SetOnClient(h)
Stop == ShutdownAborts \/ ShutdownTakes \/ ShutdownDisconnects \/ ShutdownAnnounces

Next == Loop \/ Tasks \/ Peer \/ Calls \/ Setters \/ Invalidate \/ Stop

Spec == Init /\ [][Next]_vars

\* Every task and thread is scheduled, request_timeout expires, and the channel
\* serves its senders in turn.  Nothing makes the router read.
Fairness ==
  /\ WF_vars(Loop)
  /\ \A c \in Conns : WF_vars(WriteFails(c)) /\ WF_vars(AnswerDiscovery(c)) /\ WF_vars(ReadEnd(c))
  /\ \A r \in Callers : WF_vars(CallerRegisters(r)) /\ SF_vars(CallerSends(r))
                          /\ WF_vars(RequestTimeout(r)) /\ WF_vars(CallerReturns(r))
  /\ \A h \in Handlers : WF_vars(CloneForHandler(h)) /\ WF_vars(SetOnClient(h))
  /\ WF_vars(ShutdownTakes \/ ShutdownDisconnects \/ ShutdownAnnounces)

FairSpec == Spec /\ Fairness

-----------------------------------------------------------------------------
(* Properties.                                                             *)

\* Clones name connections that were opened, and each thread holds one exactly
\* where the code keeps it in a local.
TypeOK ==
  /\ {client, current, newClient, shutdownOn} \subseteq 0 .. opened
  /\ opened \in 0 .. MaxConns /\ attempt \in 0 .. MaxAttempts + 1 /\ invalidate \in 0 .. MaxRecycles
  /\ (newClient # NoConn) <=> (loop \in {"register", "store"})
  /\ (current # NoConn) <=> (loop = "select")
  /\ \A r \in Callers : (callerOn[r] # NoConn) <=> (caller[r] \in {"register", "send", "wait"})
  /\ \A h \in Handlers : (setterOn[h] # NoConn) <=> (setter[h] = "cloned")
  /\ \A c \in Conns : pending[c] \cup asked[c] \subseteq Callers
  /\ \A c \in Conns : queued[c] \in Seq(Callers \cup {Answer}) /\ Len(queued[c]) <= QueueCap
  /\ \A c \in Conns : registered[c] \in Handlers \cup {NoHandler}

\* A client the loop has replaced is closed: neither of its tasks reads or writes
\* for it any more, however many clones of it are about.
ReplacedIsClosed ==
  ~abort => \A c \in used \ {client, current} :
               readTask[c] \notin {"running", "answering"} /\ writeTask[c] # "running"

\* As long as nobody shuts the wrapper down, what subscribe_connection_state
\* reports agrees with the slot whenever the loop waits or has given up.
StateAgreesWithSlot ==
  shutdown = "no" /\ loop \in {"select", "connecting", "gaveUp"}
    => connection = (client # NoConn)

\* A request that waits at a full queue, in front of a router that is there.
AtFullQueue(r) ==
  LET c == callerOn[r]
  IN  caller[r] = "send" /\ writeTask[c] = "running" /\ peer[c] = "open" /\ ~HasRoom(c)

\* Every send_request returns, also on a connection that was lost or recycled
\* between any two of its steps, with one exception: request_timeout covers the
\* answer but not the send, so a router that is there and never reads again holds
\* a request at a full queue for ever.
CallerAlwaysReturns ==
  \A r \in Callers : (caller[r] = "register") ~> (caller[r] = "done" \/ []AtFullQueue(r))

\* An empty slot is filled again, or the loop comes to the end of its attempts: of
\* a loop with a bound on them, where the default tries for ever.
ReconnectEnds == (client = NoConn) ~> (client # NoConn \/ loop = "gaveUp" \/ abort)

\* "IPC client wrapper that automatically reconnects on disconnection": a client
\* whose connection has ended does not stay in the slot.
ReconnectsOnDisconnection ==
  \A c \in Conns : (client = c /\ readTask[c] = "ended") ~> (client # c)
=============================================================================
