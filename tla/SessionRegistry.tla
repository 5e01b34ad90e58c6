-------------------------- MODULE SessionRegistry --------------------------
(***************************************************************************)
(* The sessions of one server in MobileClient, and what the app store      *)
(* shows of it: the connect_* functions, disconnect_server and             *)
(* restart_app_server, requests that find no session or a broken one, and  *)
(* the health readers (codex-mobile-client: mobile_client/mod.rs,          *)
(* mobile_client/event_loop.rs, store/reducer.rs).                         *)
(*                                                                         *)
(* The functions run concurrently; an action is what one does under one    *)
(* lock or between two awaits.  The session itself is ServerSession; here  *)
(* it has a health, and is stopped once disconnect was called on it.       *)
(*                                                                         *)
(* Abstracted: the rest of the server's record, threads, runtimes,         *)
(* tunnels and restart targets, and how a session is dialled.              *)
(***************************************************************************)
EXTENDS Naturals, Sequences, FiniteSets

CONSTANTS
  Connects,    \* calls of a connect_* function
  Disconnects, \* calls of disconnect_server or restart_app_server
  Requests,    \* calls of request_typed_for_server
  PathsOf,     \* per connect, the functions it may be a call of
  MaxDrops,    \* bound on connections lost by a session
  MaxBusy      \* bound on calls in progress at once

\* connect_local and connect_remote, _over_slingshot, _over_alleycat, _over_ssh,
\* _over_ssh_bridges.
Paths == {"direct", "slingshot", "alleycat", "ssh", "bridges"}

None == "none"    \* no path, no session, no record

ASSUME RegistryAssumption ==
  /\ None \notin Connects
  /\ PathsOf \in [Connects -> SUBSET Paths]
  /\ MaxDrops \in Nat /\ MaxBusy \in Nat

Health == {"connecting", "connected", "disconnected"}
Sessions == Connects    \* a session is named after the call that opens it

VARIABLES
  current,   \* the session in MobileClient::sessions
  health,    \* per session, its health watch
  unseen,    \* per session, whether its reader has yet to see the health
  stopped,   \* the sessions told to disconnect
  record,    \* health of the server in the store
  progress,  \* whether the record has a connection_progress
  updates,   \* health events on their way to the store
  op,        \* per connect: [pc, path, old]
  disc,      \* per disconnect: [pc, old]
  req,       \* per request: [pc, via]
  reader,    \* per session, where its health reader is
  \* history, and the bound on losses
  overlap,   \* which kinds of calls met a connect in progress
  astray,    \* since the reader of the session in the map last told its health,
             \* a task that does not go by that session wrote another
  drops

sessionVars == <<current, health, unseen, stopped>>
storeVars == <<record, progress, updates>>
vars == <<sessionVars, storeVars, op, disc, req, reader, overlap, astray, drops>>

-----------------------------------------------------------------------------
(* The app store: operations on the record of the server.                  *)

UpsertServer(h) == record' = h /\ UNCHANGED <<progress, updates>>

UpdateServerHealth(h) ==
  /\ record' = IF record = None THEN None ELSE h
  /\ UNCHANGED <<progress, updates>>

UpdateProgress(shown) ==
  /\ progress' = (record # None /\ shown)
  /\ UNCHANGED <<record, updates>>

RemoveServer == record' = None /\ progress' = FALSE /\ UNCHANGED updates

Emit(h) == updates' = Append(updates, h) /\ UNCHANGED <<record, progress>>

\* ConnectionStateChanged: a session that goes down while the next is being set
\* up does not show.
ConnectionStateChanged ==
  /\ updates # <<>>
  /\ updates' = Tail(updates)
  /\ record' = CASE record = None -> None
                 [] progress /\ Head(updates) = "disconnected" -> "connecting"
                 [] OTHER -> Head(updates)
  /\ UNCHANGED <<progress, sessionVars, op, disc, req, reader, overlap, astray, drops>>

-----------------------------------------------------------------------------
(* The sessions.                                                           *)

SetHealth(s, h) ==
  /\ health' = [health EXCEPT ![s] = h]
  /\ unseen' = [unseen EXCEPT ![s] = reader[s] # "gone"]

\* The connection of a session goes, comes back, or is given up.
Lose(s) ==
  /\ drops < MaxDrops /\ health[s] = "connected" /\ s \notin stopped
  /\ SetHealth(s, "connecting")
  /\ drops' = drops + 1
  /\ UNCHANGED <<current, stopped, storeVars, op, disc, req, reader, overlap, astray>>

EndReconnect(s) ==
  /\ health[s] = "connecting" /\ s \notin stopped
  /\ \E h \in {"connected", "disconnected"} : SetHealth(s, h)
  /\ UNCHANGED <<current, stopped, storeVars, op, disc, req, reader, overlap, astray, drops>>

\* ServerSession::disconnect.
Stop(s) ==
  IF s = None
  THEN UNCHANGED <<health, unseen, stopped>>
  ELSE /\ SetHealth(s, "disconnected")
       /\ stopped' = stopped \cup {s}

-----------------------------------------------------------------------------
(* Connecting.                                                             *)

InProgress(call) == call.pc \notin {"idle", "done"}

CallsInProgress ==
  {c \in Connects : InProgress(op[c])} \cup {d \in Disconnects : InProgress(disc[d])}
    \cup {q \in Requests : InProgress(req[q])}

MayStart == Cardinality(CallsInProgress) < MaxBusy

At(c, pc, paths) == op[c].pc = pc /\ op[c].path \in paths
GoTo(c, pc) == op' = [op EXCEPT ![c].pc = pc]
Return(c) == op' = [op EXCEPT ![c] = [pc |-> "done", path |-> None, old |-> None]]

Start(c) ==
  /\ op[c].pc = "idle" /\ MayStart
  /\ \E path \in PathsOf[c] :
       op' = [op EXCEPT ![c] =
         [pc |-> IF path \in {"ssh", "bridges"} THEN "announce" ELSE "check",
          path |-> path, old |-> None]]
  /\ overlap' = overlap \cup
       (IF \E o \in Connects : InProgress(op[o]) THEN {"connect"} ELSE {}) \cup
       (IF \E d \in Disconnects : disc[d].pc = "removed" THEN {"disconnect"} ELSE {})
  /\ UNCHANGED <<sessionVars, storeVars, disc, req, reader, astray, drops>>

\* existing_active_session.
Active == current # None /\ health[current] # "disconnected"

\* A session in use is kept; alleycat keeps one only if it is connected and
\* lacks no runtime that was asked for.
ReuseSession(c) ==
  /\ \/ At(c, "check", {"direct", "slingshot"}) /\ Active
     \/ At(c, "check", {"alleycat"}) /\ current # None /\ health[current] = "connected"
  /\ Return(c)
  /\ UNCHANGED <<sessionVars, storeVars, disc, req, reader, overlap, astray, drops>>

PastCheck(c) ==
  /\ \/ At(c, "check", {"direct"}) /\ ~Active /\ GoTo(c, "take")
     \/ At(c, "check", {"slingshot"}) /\ ~Active /\ GoTo(c, "announce")
     \/ At(c, "check", {"alleycat"}) /\ GoTo(c, "announce")
  /\ UNCHANGED <<sessionVars, storeVars, disc, req, reader, overlap, astray, drops>>

\* The enrollment or the list of agents fails, or no agent is selected, which
\* alleycat says before it looks for a session.
FailCheck(c) ==
  /\ \/ At(c, "check", {"slingshot", "alleycat"}) /\ Return(c)
     \/ At(c, "check", {"alleycat"}) /\ GoTo(c, "fail")
  /\ UNCHANGED <<sessionVars, storeVars, disc, req, reader, overlap, astray, drops>>

Announce(c) ==
  /\ At(c, "announce", Paths)
  /\ UpsertServer("connecting")
  /\ GoTo(c, IF op[c].path = "ssh" THEN "progress" ELSE "take")
  /\ UNCHANGED <<sessionVars, disc, req, reader, overlap, astray, drops>>

ShowProgress(c) ==
  /\ At(c, "progress", Paths)
  /\ UpdateProgress(TRUE)
  /\ GoTo(c, "take")
  /\ UNCHANGED <<sessionVars, disc, req, reader, overlap, astray, drops>>

\* Mutant: the session is stopped, and stays in the map for the next to replace.
TakeAndLeave(c) ==
  /\ At(c, "take", Paths)
  /\ op' = [op EXCEPT ![c] = [pc |-> "drop", path |-> @.path, old |-> current]]
  /\ UNCHANGED <<sessionVars, storeVars, disc, req, reader, overlap, astray, drops>>

\* replace_existing_session: out of the map, then stopped.
Take(c) ==
  /\ At(c, "take", Paths)
  /\ op' = [op EXCEPT ![c] = [pc |-> IF current = None THEN "dial" ELSE "drop",
                               path |-> @.path, old |-> current]]
  /\ current' = None
  /\ UNCHANGED <<health, unseen, stopped, storeVars, disc, req, reader, overlap, astray, drops>>

\* Mutant: a session that has lost its connection is taken to need no stopping.
DropIfConnected(c) ==
  /\ At(c, "drop", Paths)
  /\ Stop(IF op[c].old # None /\ health[op[c].old] = "connected" THEN op[c].old ELSE None)
  /\ op' = [op EXCEPT ![c] = [pc |-> "dial", path |-> @.path, old |-> None]]
  /\ UNCHANGED <<current, storeVars, disc, req, reader, overlap, astray, drops>>

Drop(c) ==
  /\ At(c, "drop", Paths)
  /\ Stop(op[c].old)
  /\ op' = [op EXCEPT ![c] = [pc |-> "dial", path |-> @.path, old |-> None]]
  /\ UNCHANGED <<current, storeVars, disc, req, reader, overlap, astray, drops>>

DialOk(c) ==
  /\ At(c, "dial", Paths)
  /\ health' = [health EXCEPT ![c] = "connected"]
  /\ GoTo(c, "attach")
  /\ UNCHANGED <<current, unseen, stopped, storeVars, disc, req, reader, overlap, astray, drops>>

\* The direct functions return the error, and so do the first step of ssh and of
\* the bridges; the others say it to the store.
DialFails(c) ==
  /\ \/ At(c, "dial", {"direct", "ssh", "bridges"}) /\ Return(c)
     \/ At(c, "dial", {"slingshot", "alleycat", "ssh", "bridges"}) /\ GoTo(c, "fail")
  /\ UNCHANGED <<sessionVars, storeVars, disc, req, reader, overlap, astray, drops>>

ShowFailure(c) ==
  /\ At(c, "fail", Paths)
  /\ UpdateServerHealth("disconnected")
  /\ astray' = (astray \/ current # None)
  /\ IF op[c].path = "ssh" THEN GoTo(c, "clear") ELSE Return(c)
  /\ UNCHANGED <<sessionVars, disc, req, reader, overlap, drops>>

\* Mutant: the record of the server is updated if there is one.
AttachToRecord(c) ==
  /\ At(c, "attach", Paths)
  /\ UpdateServerHealth("connected")
  /\ GoTo(c, "insert")
  /\ UNCHANGED <<sessionVars, disc, req, reader, overlap, astray, drops>>

\* attach_remote_session, and the same steps in the direct functions.
Attach(c) ==
  /\ At(c, "attach", Paths)
  /\ UpsertServer("connected")
  /\ GoTo(c, "insert")
  /\ UNCHANGED <<sessionVars, disc, req, reader, overlap, astray, drops>>

Insert(c) ==
  /\ At(c, "insert", Paths)
  /\ current' = c
  /\ reader' = [reader EXCEPT ![c] = "start"]
  /\ IF op[c].path = "ssh" THEN GoTo(c, "clear") ELSE Return(c)
  /\ UNCHANGED <<health, unseen, stopped, storeVars, disc, req, overlap, astray, drops>>

ClearProgress(c) ==
  /\ At(c, "clear", Paths)
  /\ UpdateProgress(FALSE)
  /\ Return(c)
  /\ UNCHANGED <<sessionVars, disc, req, reader, overlap, astray, drops>>

Connecting(c) ==
  \/ ReuseSession(c) \/ PastCheck(c) \/ FailCheck(c) \/ Announce(c) \/ ShowProgress(c)
  \/ Take(c) \/ Drop(c) \/ DialOk(c) \/ DialFails(c) \/ ShowFailure(c)
  \/ Attach(c) \/ Insert(c) \/ ClearProgress(c)

-----------------------------------------------------------------------------
(* Disconnecting.                                                          *)

RemoveSession(d) ==
  /\ disc[d].pc = "idle" /\ MayStart
  /\ disc' = [disc EXCEPT ![d] = [pc |-> "removed", old |-> current]]
  /\ current' = None
  /\ overlap' = overlap \cup (IF \E c \in Connects : InProgress(op[c]) THEN {"disconnect"} ELSE {})
  /\ UNCHANGED <<health, unseen, stopped, storeVars, op, req, reader, astray, drops>>

RemoveRecord(d) ==
  /\ disc[d].pc = "removed"
  /\ RemoveServer
  /\ disc' = [disc EXCEPT ![d].pc = "stopping"]
  /\ UNCHANGED <<sessionVars, op, req, reader, overlap, astray, drops>>

\* Detached: disconnect_server has returned.
StopRemoved(d) ==
  /\ disc[d].pc = "stopping"
  /\ Stop(disc[d].old)
  /\ disc' = [disc EXCEPT ![d] = [pc |-> "done", old |-> None]]
  /\ UNCHANGED <<current, storeVars, op, req, reader, overlap, astray, drops>>

Disconnecting(d) == RemoveRecord(d) \/ StopRemoved(d)

-----------------------------------------------------------------------------
(* Requests: get_session and reconcile_transport_error.                    *)

Answered == [pc |-> "done", via |-> None]

GetSession(q) ==
  /\ req[q].pc = "idle" /\ MayStart
  /\ req' = [req EXCEPT ![q] =
       [pc |-> IF current = None THEN "mark" ELSE "asking", via |-> current]]
  /\ UNCHANGED <<sessionVars, storeVars, op, disc, reader, overlap, astray, drops>>

Asked(q) ==
  /\ req[q].pc = "asking"
  /\ \/ req' = [req EXCEPT ![q] = Answered]
     \/ /\ health[req[q].via] # "connected"
        /\ req' = [req EXCEPT ![q] = [pc |-> "mark", via |-> None]]
  /\ UNCHANGED <<sessionVars, storeVars, op, disc, reader, overlap, astray, drops>>

MarkDisconnected(q) ==
  /\ req[q].pc = "mark"
  /\ UpdateServerHealth("disconnected")
  /\ astray' = (astray \/ current # None)
  /\ req' = [req EXCEPT ![q] = Answered]
  /\ UNCHANGED <<sessionVars, op, disc, reader, overlap, drops>>

-----------------------------------------------------------------------------
(* The health reader of a session.                                         *)

\* Mutant: a reader has nothing more to say of a session that is given up.
LookForLife(s) ==
  /\ reader[s] \in {"start", "look"}
  /\ reader' = [reader EXCEPT ![s] =
       CASE current # s \/ health[s] = "disconnected" -> "gone"
         [] reader[s] = "start" -> "hello"
         [] OTHER -> "tell"]
  /\ unseen' = [unseen EXCEPT ![s] = @ /\ current = s]
  /\ UNCHANGED <<current, health, stopped, storeVars, op, disc, req, overlap, astray, drops>>

\* session_is_current, before the first event and before each turn.
Look(s) ==
  /\ reader[s] \in {"start", "look"}
  /\ reader' = [reader EXCEPT ![s] =
       CASE current # s -> "gone"
         [] reader[s] = "start" -> "hello"
         [] OTHER -> "tell"]
  /\ unseen' = [unseen EXCEPT ![s] = @ /\ current = s]
  /\ UNCHANGED <<current, health, stopped, storeVars, op, disc, req, overlap, astray, drops>>

SayConnecting(s) ==
  /\ reader[s] = "hello"
  /\ Emit("connecting")
  /\ astray' = (astray \/ current # s)
  /\ reader' = [reader EXCEPT ![s] = "look"]
  /\ UNCHANGED <<sessionVars, op, disc, req, overlap, drops>>

Tell(s) ==
  /\ reader[s] = "tell"
  /\ Emit(health[s])
  /\ astray' = (current # s)
  /\ reader' = [reader EXCEPT ![s] = "wait"]
  /\ UNCHANGED <<sessionVars, op, disc, req, overlap, drops>>

\* Mutant: the reader wakes for bad news only.
WakeForLoss(s) ==
  /\ reader[s] = "wait" /\ unseen[s]
  /\ unseen' = [unseen EXCEPT ![s] = FALSE]
  /\ reader' = [reader EXCEPT ![s] = IF health[s] = "connected" THEN @ ELSE "look"]
  /\ UNCHANGED <<current, health, stopped, storeVars, op, disc, req, overlap, astray, drops>>

Wake(s) ==
  /\ reader[s] = "wait" /\ unseen[s]
  /\ unseen' = [unseen EXCEPT ![s] = FALSE]
  /\ reader' = [reader EXCEPT ![s] = "look"]
  /\ UNCHANGED <<current, health, stopped, storeVars, op, disc, req, overlap, astray, drops>>

Reading(s) == Look(s) \/ SayConnecting(s) \/ Tell(s) \/ Wake(s)

-----------------------------------------------------------------------------
Init ==
  /\ current = None
  /\ health = [s \in Sessions |-> None]
  /\ unseen = [s \in Sessions |-> FALSE]
  /\ stopped = {}
  /\ record = None /\ progress = FALSE /\ updates = <<>>
  /\ op = [c \in Connects |-> [pc |-> "idle", path |-> None, old |-> None]]
  /\ disc = [d \in Disconnects |-> [pc |-> "idle", old |-> None]]
  /\ req = [q \in Requests |-> [pc |-> "idle", via |-> None]]
  /\ reader = [s \in Sessions |-> "off"]
  /\ overlap = {} /\ astray = FALSE /\ drops = 0

Next ==
  \/ ConnectionStateChanged
  \/ \E c \in Connects : Start(c) \/ Connecting(c)
  \/ \E d \in Disconnects : RemoveSession(d) \/ Disconnecting(d)
  \/ \E q \in Requests : GetSession(q) \/ Asked(q) \/ MarkDisconnected(q)
  \/ \E s \in Sessions : Lose(s) \/ EndReconnect(s) \/ Reading(s)

Spec == Init /\ [][Next]_vars

-----------------------------------------------------------------------------
(* Properties.                                                             *)

TypeOK ==
  /\ current \in Sessions \cup {None}
  /\ health \in [Sessions -> Health \cup {None}]
  /\ unseen \in [Sessions -> BOOLEAN]
  /\ stopped \subseteq Sessions
  /\ record \in Health \cup {None}
  /\ progress \in BOOLEAN
  /\ updates \in Seq(Health)
  /\ op \in [Connects ->
       [pc : {"idle", "check", "announce", "progress", "take", "drop", "dial", "fail",
              "attach", "insert", "clear", "done"},
        path : Paths \cup {None}, old : Sessions \cup {None}]]
  /\ disc \in [Disconnects ->
       [pc : {"idle", "removed", "stopping", "done"}, old : Sessions \cup {None}]]
  /\ req \in [Requests ->
       [pc : {"idle", "asking", "mark", "done"}, via : Sessions \cup {None}]]
  /\ reader \in [Sessions -> {"off", "start", "hello", "look", "tell", "wait", "gone"}]
  /\ overlap \subseteq {"connect", "disconnect"}
  /\ astray \in BOOLEAN
  /\ drops \in 0 .. MaxDrops

\* A session that was told to disconnect is never the one requests are sent
\* to: whoever stops a session has taken it out of the map before.
CurrentIsNotStopped == current \notin stopped

\* The session in the map has its health reader: no reader gives up its session
\* while it is in the map.
CurrentIsRead == current # None =>
  reader[current] \notin {"off", "gone"}

InHand(s) ==
  \/ op[s].pc \in {"attach", "insert"}
  \/ \E c \in Connects : op[c].old = s
  \/ \E d \in Disconnects : disc[d].old = s

\* No session is forgotten with its connections open, out of the map and never
\* told to disconnect, unless two connects were in progress at once.
NoOrphan == \A s \in Sessions :
  health[s] # None /\ s \notin stopped /\ "connect" \notin overlap =>
    current = s \/ InHand(s)

\* A server with a session is shown: only a disconnect in the middle of a
\* connect leaves a session without a record.
SessionIsShown ==
  current # None /\ "disconnect" \notin overlap => record # None

\* Once everything has been read and applied, a server that has a record is shown
\* in the health of its session, however calls overlapped and whatever the readers
\* of the sessions before it said until its own reader last spoke.  A failed call,
\* or a reader that looked before its session was replaced, may write another
\* health after that: it stays until the reader of the session speaks again.  What
\* was a disconnection may stay hidden behind a progress.
QuietIsShown ==
  /\ current # None /\ reader[current] = "wait" /\ ~unseen[current]
  /\ updates = <<>> /\ CallsInProgress = {}
  /\ record # None /\ ~astray
  => record = health[current] \/ <<health[current], record>> = <<"disconnected", "connecting">>
=============================================================================
