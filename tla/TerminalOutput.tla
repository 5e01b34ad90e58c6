--------------------------- MODULE TerminalOutput ---------------------------
(***************************************************************************)
(* One terminal session of the mobile client: the output of its shell on   *)
(* the way to the views and to the app store, and the record and handle    *)
(* the client keeps of it (codex-mobile-client: terminal/session.rs,       *)
(* mobile_client/mod.rs open, close and forget_terminal_session,           *)
(* store/reducer.rs).                                                      *)
(*                                                                         *)
(* An event is known by its number, from 0 on; the exit of the shell is    *)
(* the last one.  A forwarder puts each event in the bounded history, then *)
(* on a broadcast channel of Capacity entries; a listener that subscribes  *)
(* replays the history and goes on with the channel.  One action is what a *)
(* thread does under one lock or between two of them.                      *)
(*                                                                         *)
(* Abstracted: the bytes of a chunk, of which the size is kept; input,     *)
(* resizing and which session has the focus.  The shell and its backend    *)
(* are external: chunks of any of Sizes, at most MaxChunks, then an exit,  *)
(* which every backend reports however it ends.                            *)
(***************************************************************************)
EXTENDS Integers, FiniteSets, SequencesExt

CONSTANTS
  Views,      \* the listeners of the user interface
  Ring,       \* TerminalRingListener, which feeds the app store
  Closers,    \* calls of close_terminal_session
  Forgetters, \* calls of forget_terminal_session
  Sizes,      \* the sizes of the shell's chunks
  Limit,      \* SESSION_REPLAY_LIMIT_BYTES
  Capacity,   \* OUTPUT_CHANNEL_CAPACITY
  MaxChunks   \* bound on the chunks of the shell

ASSUME TerminalAssumption ==
  /\ Ring \notin Views
  /\ Closers \cap Forgetters = {}
  /\ Sizes \subseteq Nat
  /\ Limit \in Nat \ {0} /\ Capacity \in Nat \ {0} /\ MaxChunks \in Nat

Listeners == Views \cup {Ring}

VARIABLES
  stored,   \* sizes of the events recorded so far, as the history keeps them
  oldest,   \* first event still in the history
  sent,     \* events put on the broadcast channel
  exited,   \* whether the last event recorded is the exit
  pc,       \* per listener: "off", "subscribed", "replay", "live", "done"
  rx,       \* per listener: the next event its receiver reads
  next,     \* per listener: the next event of its replay
  through,  \* per listener: replayed_through
  heard,    \* per listener: the events delivered to it
  lagged,   \* per listener: whether the channel has overrun it
  opening,  \* open_terminal_session: "session", "handle", "record", "opened"
  handle,   \* whether terminal_sessions has the session
  record,   \* the phase in the app store: "none", "running", "exited"
  onExit,   \* TerminalRingListener.on_exit: "none", "marked", "done"
  call      \* per call of close or forget, where it is

streamVars == <<stored, oldest, sent, exited>>
listenerVars == <<pc, rx, next, through, heard, lagged>>
storeVars == <<opening, handle, record, onExit, call>>
vars == <<streamVars, listenerVars, storeVars>>

NextSequence == Len(stored)

-----------------------------------------------------------------------------
(* The history and the forwarder.                                          *)

Least(m, n) == IF m < n THEN m ELSE n

\* The bytes of the history s from its event n on.
ByteCount(s, n) == FoldSeq(LAMBDA size, sum : size + sum, 0, SubSeq(s, n + 1, Len(s)))

\* Events leave at the front for as long as the bytes are too many.
Trim(s, first) ==
  \E n \in first .. Len(s) :
    /\ ByteCount(s, n) <= Limit
    /\ \A m \in first .. n - 1 : ByteCount(s, m) > Limit
    /\ oldest' = n

\* Of a chunk beyond the limit its end is kept.
Record(size) ==
  /\ stored' = Append(stored, Least(size, Limit))
  /\ Trim(stored', oldest)

ForwarderFree == sent = NextSequence /\ ~exited

ForwardChunk ==
  /\ ForwarderFree /\ NextSequence < MaxChunks
  /\ \E size \in Sizes : Record(size)
  /\ UNCHANGED <<sent, exited, listenerVars, storeVars>>

ForwardExit ==
  /\ ForwarderFree
  /\ Record(0)
  /\ exited' = TRUE
  /\ UNCHANGED <<sent, listenerVars, storeVars>>

\* After the lock on the history is released.
Broadcast ==
  /\ sent < NextSequence
  /\ sent' = sent + 1
  /\ UNCHANGED <<stored, oldest, exited, listenerVars, storeVars>>

-----------------------------------------------------------------------------
(* A listener.                                                             *)

IsExit(n) == exited /\ n = NextSequence - 1

SubscribeChannel(l) ==
  /\ pc[l] = "off"
  /\ pc' = [pc EXCEPT ![l] = "subscribed"]
  /\ rx' = [rx EXCEPT ![l] = sent]
  /\ UNCHANGED <<next, through, heard, lagged>>

\* A view that has taken the session by its identifier keeps it, whether or
\* not the client still does.
SubscribeView(l) ==
  /\ l \in Views /\ opening \in {"record", "opened"}
  /\ SubscribeChannel(l)
  /\ UNCHANGED <<streamVars, storeVars>>

TakeReplay(l) ==
  /\ pc[l] = "subscribed"
  /\ pc' = [pc EXCEPT ![l] = "replay"]
  /\ next' = [next EXCEPT ![l] = oldest]
  /\ through' = [through EXCEPT ![l] = NextSequence - 1]
  /\ UNCHANGED <<rx, heard, lagged, streamVars, storeVars>>

\* Mutant: only the record of a terminal whose handle is kept is marked.
MarkExitedIfHeld ==
  record' = IF record = "none" \/ ~handle THEN record ELSE "exited"

\* Mutant: a record is made for the exit when there is none.
MarkExitedAnyway == record' = "exited"

\* deliver_terminal_output; the ring's on_exit first marks the record.
MarkExited == record' = IF record = "none" THEN "none" ELSE "exited"

Deliver(l, n) ==
  /\ heard' = [heard EXCEPT ![l] = Append(@, n)]
  /\ IF l = Ring /\ IsExit(n)
     THEN MarkExited /\ onExit' = "marked"
     ELSE UNCHANGED <<record, onExit>>
  /\ UNCHANGED <<opening, handle, call>>

Replay(l) ==
  /\ pc[l] = "replay" /\ next[l] <= through[l]
  /\ Deliver(l, next[l])
  /\ next' = [next EXCEPT ![l] = @ + 1]
  /\ pc' = [pc EXCEPT ![l] = IF IsExit(next[l]) THEN "done" ELSE @]
  /\ UNCHANGED <<rx, through, lagged, streamVars>>

\* Mutant: after the replay of a shell that has exited nothing is awaited.
EndReplayOfExited(l) ==
  /\ pc[l] = "replay" /\ next[l] > through[l]
  /\ pc' = [pc EXCEPT ![l] = IF exited THEN "done" ELSE "live"]
  /\ UNCHANGED <<rx, next, through, heard, lagged, streamVars, storeVars>>

EndReplay(l) ==
  /\ pc[l] = "replay" /\ next[l] > through[l]
  /\ pc' = [pc EXCEPT ![l] = "live"]
  /\ UNCHANGED <<rx, next, through, heard, lagged, streamVars, storeVars>>

Overrun(l) == rx[l] < sent - Capacity

\* Mutant: the last event of the replay is delivered by the channel too.
SeenBefore(l, n) == n < through[l]

\* Mutant: the first event after the replay is taken for a part of it.
SeenPast(l, n) == n <= through[l] + 1

\* What the replay already delivered is passed over.
Seen(l, n) == n <= through[l]

Receive(l) ==
  /\ pc[l] = "live" /\ rx[l] < sent /\ ~Overrun(l)
  /\ rx' = [rx EXCEPT ![l] = @ + 1]
  /\ IF Seen(l, rx[l])
     THEN UNCHANGED <<pc, heard, storeVars>>
     ELSE /\ Deliver(l, rx[l])
          /\ pc' = [pc EXCEPT ![l] = IF IsExit(rx[l]) THEN "done" ELSE @]
  /\ UNCHANGED <<next, through, lagged, streamVars>>

\* The receiver goes on with the oldest entry of the channel.
Lagged(l) ==
  /\ pc[l] = "live" /\ Overrun(l)
  /\ rx' = [rx EXCEPT ![l] = sent - Capacity]
  /\ lagged' = [lagged EXCEPT ![l] = TRUE]
  /\ UNCHANGED <<pc, next, through, heard, streamVars, storeVars>>

-----------------------------------------------------------------------------
(* The client and the app store.                                           *)

InsertHandle ==
  /\ opening = "session"
  /\ opening' = "handle" /\ handle' = TRUE
  /\ UNCHANGED <<record, onExit, call, streamVars, listenerVars>>

OpenRecord ==
  /\ opening = "handle"
  /\ opening' = "record" /\ record' = "running"
  /\ UNCHANGED <<handle, onExit, call, streamVars, listenerVars>>

SubscribeRing ==
  /\ opening = "record"
  /\ opening' = "opened"
  /\ SubscribeChannel(Ring)
  /\ UNCHANGED <<handle, record, onExit, call, streamVars>>

\* The second half of on_exit.
DropHandleOnExit ==
  /\ onExit = "marked"
  /\ onExit' = "done" /\ handle' = FALSE
  /\ UNCHANGED <<opening, record, call, streamVars, listenerVars>>

\* The identifier is known from the record on.
CloseRemoves(c) ==
  /\ opening \in {"record", "opened"} /\ call[c] = "idle"
  /\ call' = [call EXCEPT ![c] = IF handle THEN "closing" ELSE "marking"]
  /\ handle' = FALSE
  /\ UNCHANGED <<opening, record, onExit, streamVars, listenerVars>>

\* close_session; the backend may refuse, and the call returns its error.
CloseSession(c) ==
  /\ call[c] = "closing"
  /\ \E then \in {"marking", "failed"} : call' = [call EXCEPT ![c] = then]
  /\ UNCHANGED <<opening, handle, record, onExit, streamVars, listenerVars>>

CloseMarks(c) ==
  /\ call[c] = "marking"
  /\ call' = [call EXCEPT ![c] = "done"]
  /\ MarkExited
  /\ UNCHANGED <<opening, handle, onExit, streamVars, listenerVars>>

ForgetHandle(f) ==
  /\ opening \in {"record", "opened"} /\ call[f] = "idle"
  /\ call' = [call EXCEPT ![f] = "removed"]
  /\ handle' = FALSE
  /\ UNCHANGED <<opening, record, onExit, streamVars, listenerVars>>

ForgetRecord(f) ==
  /\ call[f] = "removed"
  /\ call' = [call EXCEPT ![f] = "done"]
  /\ record' = "none"
  /\ UNCHANGED <<opening, handle, onExit, streamVars, listenerVars>>

-----------------------------------------------------------------------------
Init ==
  /\ stored = <<>> /\ oldest = 0 /\ sent = 0 /\ exited = FALSE
  /\ pc = [l \in Listeners |-> "off"]
  /\ rx = [l \in Listeners |-> 0]
  /\ next = [l \in Listeners |-> 0]
  /\ through = [l \in Listeners |-> -1]
  /\ heard = [l \in Listeners |-> <<>>]
  /\ lagged = [l \in Listeners |-> FALSE]
  /\ opening = "session" /\ handle = FALSE /\ record = "none"
  /\ onExit = "none"
  /\ call = [c \in Closers \cup Forgetters |-> "idle"]

Listening(l) ==
  TakeReplay(l) \/ Replay(l) \/ EndReplay(l) \/ Receive(l) \/ Lagged(l)

Opening == InsertHandle \/ OpenRecord \/ SubscribeRing

Next ==
  \/ ForwardChunk \/ ForwardExit \/ Broadcast
  \/ Opening \/ DropHandleOnExit
  \/ \E l \in Listeners : SubscribeView(l) \/ Listening(l)
  \/ \E c \in Closers : CloseRemoves(c) \/ CloseSession(c) \/ CloseMarks(c)
  \/ \E f \in Forgetters : ForgetHandle(f) \/ ForgetRecord(f)

Spec == Init /\ [][Next]_vars

\* The runtime schedules every task that can go on.  Nothing makes the
\* shell exit.
Fairness ==
  /\ WF_vars(Broadcast) /\ WF_vars(Opening) /\ WF_vars(DropHandleOnExit)
  /\ \A l \in Listeners : WF_vars(Listening(l))

FairSpec == Spec /\ Fairness

-----------------------------------------------------------------------------
(* Properties.                                                             *)

TypeOK ==
  /\ stored \in Seq(Nat)
  /\ oldest \in 0 .. NextSequence
  /\ sent \in 0 .. NextSequence
  /\ exited \in BOOLEAN
  /\ pc \in [Listeners -> {"off", "subscribed", "replay", "live", "done"}]
  /\ rx \in [Listeners -> Nat]
  /\ next \in [Listeners -> Nat]
  /\ through \in [Listeners -> Nat \cup {-1}]
  /\ heard \in [Listeners -> Seq(Nat)]
  /\ lagged \in [Listeners -> BOOLEAN]
  /\ opening \in {"session", "handle", "record", "opened"}
  /\ handle \in BOOLEAN
  /\ record \in {"none", "running", "exited"}
  /\ onExit \in {"none", "marked", "done"}
  /\ call \in [Closers \cup Forgetters ->
                 {"idle", "closing", "marking", "failed", "removed", "done"}]

\* Whenever a listener subscribes, between which steps of the forwarder
\* ever, the replay and the channel join without an event twice, out of
\* order or missing: only a listener the channel has overrun misses some
\* (subscribe_output subscribes first and passes over what it replayed).
NothingTwiceOrMissing ==
  \A l \in Listeners : \A i \in 1 .. Len(heard[l]) - 1 :
    /\ heard[l][i + 1] > heard[l][i]
    /\ lagged[l] \/ heard[l][i + 1] = heard[l][i] + 1

\* A listener that has stopped listening was told of the exit, after all
\* there was before it: no replay ends the listener early.
DoneHeardTheExit ==
  \A l \in Listeners : pc[l] = "done" => exited /\ heard[l] # <<>> /\ Last(heard[l]) = NextSequence - 1

\* Whoever subscribes is told when the shell exits, before or after it
\* subscribed, overrun or not.
ExitIsHeard ==
  \A l \in Listeners : (exited /\ pc[l] # "off") ~> pc[l] = "done"

\* A shell that exits is not shown running for ever, and the client does not
\* keep its session, whatever close and forget were called meanwhile.
ExitReachesStore == exited ~> [](record # "running" /\ ~handle)

\* The record of a forgotten terminal does not come back.
ForgottenStaysForgotten ==
  [][(\E f \in Forgetters : call[f] = "done") => record' = "none"]_vars
=============================================================================
