------------------------------ MODULE Slingshot ------------------------------
(***************************************************************************)
(* The reliable JSON-line stream of codex-slingshot (src/stream.rs): the   *)
(* task spawned by SlingshotJsonLineStream::connect (control_loop), the    *)
(* byte stream the application writes to and reads from, the websocket     *)
(* under it and the relay at its far end.                                  *)
(*                                                                         *)
(* One action is what the task does between two awaits, so that the        *)
(* network may fail between two segments of one message and between two    *)
(* envelopes of a replay.  The websocket and the relay are external: they  *)
(* are modelled from what control_loop relies on.                          *)
(*                                                                         *)
(* Abstracted: the payload of a message, the device-key signature, log     *)
(* lines, the sequence number's saturation at 2^64.                        *)
(***************************************************************************)
EXTENDS SlingshotSegments, Sequences, FiniteSets, SequencesExt

CONSTANTS
  Workloads,  \* what may go over the stream in one behaviour
  PongTicks,  \* ping intervals in WEBSOCKET_PONG_TIMEOUT
  DeviceKey   \* SlingshotApi::requires_device_key_handshake

\* An envelope of the log: the chunk seg of count of message msg (count 1: a
\* whole ServerMessage); cursor tells whether it carries one; fault is what is
\* wrong with it, "none" most of the time.
LogEntry == [msg : Nat, seg : Nat, count : Nat \ {0}, cursor : BOOLEAN,
             fault : {"none", "frame", "index", "garbled"}]

\* What the relay logs: a sound envelope announces as many chunks as the log has
\* of its message, each of another index, and a whole message that does not decode
\* is a bad frame.
EntriesOf(log, m) == {p \in DOMAIN log : log[p].msg = m}
WholeMessages(log) ==
  \A p \in DOMAIN log :
    /\ log[p].fault = "garbled" => log[p].count > 1
    /\ log[p].fault = "none" =>
         /\ log[p].count = Cardinality(EntriesOf(log, log[p].msg))
         /\ \A q \in EntriesOf(log, log[p].msg) :
              log[q].fault = "none" /\ log[q].seg = log[p].seg => q = p

ASSUME SlingshotAssumption ==
  /\ \A w \in Workloads :
       /\ w.sizes \in Seq(Nat \ {0}) /\ w.faults \in Nat
       /\ w.log \in Seq(LogEntry) /\ WholeMessages(w.log)
  /\ PongTicks \in Nat \ {0}
  /\ DeviceKey \in BOOLEAN

NewLine == 0   \* the terminator in the byte stream; a line's text is its number

VARIABLES
  work,          \* the workload of this behaviour
  \* the application's half of the stream
  written,       \* lines handed to poll_write so far
  halfWritten,   \* the text of the next line is written, its newline is not
  shutdownSent,  \* SlingshotJsonLineStream.shutdown_sent
  outbound,      \* outbound_tx -> outbound_rx
  \* the task: its place in control_loop and ControlState
  pc, lineBuf, pending, nextSeq, replayQ, replayIdx, cursor, assemblies, quiet,
  \* the websocket
  sock, toServer, toClient,
  \* the relay
  srvSegs, srvGot, srvClosed, srvPos,
  \* history and the bound on faults
  accepted,      \* accepted[s]: the line that was given sequence number s
  cut,           \* sequence numbers whose message was abandoned half sent
  delivered,     \* messages handed to inbound_tx, in order of first delivery
  twice,         \* messages handed to inbound_tx more than once
  faults

appVars  == <<written, halfWritten, shutdownSent>>
outVars  == <<lineBuf, pending, nextSeq, replayQ, accepted, cut>>
inVars   == <<cursor, assemblies, delivered, twice>>
srvVars  == <<srvSegs, srvGot, srvClosed, srvPos, work>>
netVars  == <<sock, toServer, toClient>>
taskVars == <<pc, replayIdx, quiet>>
vars == <<appVars, outbound, outVars, inVars, srvVars, netVars, taskVars, faults>>

Sizes     == work.sizes    \* Sizes[l]: the bytes of the application's l-th message
ServerLog == work.log      \* what the relay has for this client, in order, as envelopes
MaxFaults == work.faults   \* bound on the failures of the network

Lines    == DOMAIN Sizes
Messages == {ServerLog[p].msg : p \in DOMAIN ServerLog}

-----------------------------------------------------------------------------
(* Envelopes.                                                              *)

Piece(s, i, n)  == [type |-> "message", seq |-> s, seg |-> i, count |-> n]
ClientClosed(s) == [type |-> "closed", seq |-> s]
Ping            == [type |-> "ping"]
Ack(s)          == [type |-> "ack", seq |-> s]
Pong            == [type |-> "pong"]
Entry(p)        == [type |-> "log", pos |-> p]

\* client_message_wire_envelopes: the envelopes of an n-byte message, all with
\* the same sequence number.
Split(s, n) ==
  IF FitsWhole(n) THEN <<Piece(s, 0, 1)>>
  ELSE [i \in 1 .. ChunkCount(n) |-> Piece(s, i - 1, SegmentCount(n))]
OverLimit(n) == ~FitsWhole(n) /\ Refused(n)

\* Mutant: a segment is queued once its send succeeded.
QueueAfterSend(e) == replayQ' = IF sock = "broken" THEN replayQ ELSE Append(replayQ, e)

\* The queue is in the order of the numbers: what goes up to some number is its
\* beginning.
After(q, s) ==
  LET n == CHOOSE n \in 0 .. Len(q) : \A i \in DOMAIN q : i <= n <=> q[i].seq <= s
  IN  SubSeq(q, n + 1, Len(q))

\* Mutant: the acknowledged number is counted from the next one to send.
RetainOffByOne(q, acked) == After(q, acked + 1)

\* The retain of the Ack branch: every segment of an acknowledged number goes.
Retain(q, acked) == After(q, acked)

\* A segment is queued for replay before its send is awaited.
Queue(e) == replayQ' = Append(replayQ, e)

Init ==
  /\ work \in Workloads
  /\ written = 0 /\ halfWritten = FALSE /\ shutdownSent = FALSE
  /\ outbound = <<>>
  /\ pc = "connecting" /\ replayIdx = 1 /\ quiet = 0
  /\ lineBuf = <<>> /\ pending = <<>> /\ nextSeq = 1 /\ replayQ = <<>>
  /\ cursor = 0 /\ assemblies = <<>>
  /\ sock = "none" /\ toServer = <<>> /\ toClient = <<>>
  /\ srvSegs = {} /\ srvGot = <<>> /\ srvClosed = FALSE /\ srvPos = 0
  /\ accepted = <<>> /\ cut = {} /\ delivered = <<>> /\ twice = {}
  /\ faults = 0

-----------------------------------------------------------------------------
(* The application: JsonLineWire writes a message and its newline as two   *)
(* buffers, and closes the stream when it is through with it.              *)

WriteText ==
  /\ ~shutdownSent /\ ~halfWritten /\ written < Len(Sizes) /\ pc # "done"
  /\ halfWritten' = TRUE
  /\ outbound' = Append(outbound, [type |-> "bytes", text |-> <<written + 1>>])
  /\ UNCHANGED <<written, shutdownSent, outVars, inVars, srvVars, netVars, taskVars, faults>>

WriteNewLine ==
  /\ ~shutdownSent /\ halfWritten /\ pc # "done"
  /\ halfWritten' = FALSE /\ written' = written + 1
  /\ outbound' = Append(outbound, [type |-> "bytes", text |-> <<NewLine>>])
  /\ UNCHANGED <<shutdownSent, outVars, inVars, srvVars, netVars, taskVars, faults>>

\* poll_shutdown: once, behind every byte already written.
Shutdown ==
  /\ ~shutdownSent /\ ~halfWritten /\ pc # "done"
  /\ shutdownSent' = TRUE
  /\ outbound' = Append(outbound, [type |-> "shutdown"])
  /\ UNCHANGED <<written, halfWritten, outVars, inVars, srvVars, netVars, taskVars, faults>>

\* Drop for SlingshotJsonLineStream: the task is aborted at its next await,
\* and its websocket goes with it.
DropStream ==
  /\ pc # "done"
  /\ pc' = "done" /\ sock' = "none" /\ shutdownSent' = TRUE
  /\ UNCHANGED <<written, halfWritten, outbound, outVars, inVars, srvVars,
                 toServer, toClient, replayIdx, quiet, faults>>

-----------------------------------------------------------------------------
(* control_loop: connecting, the handshake and the replay.                 *)

\* Every failure of one connection ends in the sleep before the next.
GiveUp == pc' = "sleeping"

\* Mutant: chunk assemblies live as long as a connection.
ConnectAfresh ==
  /\ pc = "connecting"
  /\ sock' = "up" /\ toServer' = <<>> /\ toClient' = <<>> /\ srvPos' = cursor
  /\ pc' = IF DeviceKey THEN "handshake" ELSE "replaying"
  /\ replayIdx' = 1 /\ assemblies' = <<>>
  /\ UNCHANGED <<appVars, outbound, outVars, cursor, delivered, twice, srvSegs, srvGot,
                 srvClosed, work, quiet, faults>>

\* The relay continues its log behind the cursor of the request, and drops
\* what is left of the connection before.
Connect ==
  /\ pc = "connecting"
  /\ sock' = "up" /\ toServer' = <<>> /\ toClient' = <<>> /\ srvPos' = cursor
  /\ pc' = IF DeviceKey THEN "handshake" ELSE "replaying"
  /\ replayIdx' = 1
  /\ UNCHANGED <<appVars, outbound, outVars, inVars, srvSegs, srvGot, srvClosed, work, quiet,
                 faults>>

ConnectFails ==
  /\ pc = "connecting" /\ faults < MaxFaults
  /\ faults' = faults + 1 /\ GiveUp
  /\ UNCHANGED <<appVars, outbound, outVars, inVars, srvVars, netVars, replayIdx, quiet>>

\* complete_device_key_handshake, answered or refused.  It waits for the
\* challenge without a deadline.
Handshake ==
  /\ pc = "handshake" /\ sock = "up"
  /\ pc' = "replaying"
  /\ UNCHANGED <<appVars, outbound, outVars, inVars, srvVars, netVars, replayIdx, quiet, faults>>

HandshakeFails ==
  /\ pc = "handshake"
  /\ \/ sock = "broken" /\ UNCHANGED faults
     \/ sock = "up" /\ faults < MaxFaults /\ faults' = faults + 1
  /\ GiveUp
  /\ UNCHANGED <<appVars, outbound, outVars, inVars, srvVars, netVars, replayIdx, quiet>>

\* A send into a healthy socket is queued for the relay; into a half-open one
\* it is accepted and lost; into a broken one it fails.
Transmit(e) == toServer' = IF sock = "up" THEN Append(toServer, e) ELSE toServer

\* replay_unacked_wire, one envelope at a time; then the timers start.
Replay ==
  /\ pc = "replaying" /\ replayIdx <= Len(replayQ) /\ sock # "broken"
  /\ Transmit(replayQ[replayIdx])
  /\ replayIdx' = replayIdx + 1
  /\ UNCHANGED <<appVars, outbound, outVars, inVars, srvVars, sock, toClient, pc, quiet, faults>>

ReplayFails ==
  /\ pc = "replaying" /\ replayIdx <= Len(replayQ) /\ sock = "broken"
  /\ GiveUp
  /\ UNCHANGED <<appVars, outbound, outVars, inVars, srvVars, netVars, replayIdx, quiet, faults>>

\* Mutant: commands are read while the replay is still going on.
ReplayAtLeisure == TRUE

ReplayDone == replayIdx > Len(replayQ)

StartSelect ==
  /\ pc = "replaying" /\ ReplayDone
  /\ pc' = "select" /\ quiet' = 0
  /\ UNCHANGED <<appVars, outbound, outVars, inVars, srvVars, netVars, replayIdx, faults>>

\* Mutant: outbound_line_buf belongs to the connection.
WakeUpWithEmptyBuffer ==
  /\ pc = "sleeping"
  /\ pc' = "connecting" /\ lineBuf' = <<>>
  /\ sock' = "none" /\ toServer' = <<>> /\ toClient' = <<>>
  /\ UNCHANGED <<appVars, outbound, pending, nextSeq, replayQ, accepted, cut, inVars, srvVars,
                 replayIdx, quiet, faults>>

\* RECONNECT_DELAY is over: the old websocket is dropped with its scope.
WakeUp ==
  /\ pc = "sleeping"
  /\ pc' = "connecting"
  /\ sock' = "none" /\ toServer' = <<>> /\ toClient' = <<>>
  /\ UNCHANGED <<appVars, outbound, outVars, inVars, srvVars, replayIdx, quiet, faults>>

-----------------------------------------------------------------------------
(* The select! of control_loop: the outbound arm.                          *)

Command == outbound[1]

\* handle_outbound_bytes_wire up to the line's verdict.  The application's
\* buffers end at most one line each, so the loop over lines runs once.
TakeText ==
  /\ pc = "select" /\ outbound # <<>> /\ Command.type = "bytes" /\ Command.text # <<NewLine>>
  /\ outbound' = Tail(outbound)
  /\ lineBuf' = lineBuf \o Command.text
  /\ UNCHANGED <<appVars, pending, nextSeq, replayQ, accepted, cut, inVars, srvVars,
                 netVars, taskVars, faults>>

\* A line that parses to one JSON object.
Object(text) == Len(text) = 1 /\ text[1] \in Lines

\* Mutant: the sequence number is not used up.
AcceptLineWithoutNumber(l) ==
  /\ UNCHANGED <<nextSeq, cut>>
  /\ accepted' = Append(accepted, l)
  /\ pending' = Split(nextSeq, Sizes[l])
  /\ pc' = "sending"

\* An object is given the next sequence number and split; one over the size
\* limits has used its number up, and costs the connection.
AcceptLine(l) ==
  /\ nextSeq' = nextSeq + 1
  /\ accepted' = Append(accepted, l)
  /\ IF OverLimit(Sizes[l])
     THEN cut' = cut \cup {nextSeq} /\ GiveUp /\ UNCHANGED pending
     ELSE pending' = Split(nextSeq, Sizes[l]) /\ pc' = "sending" /\ UNCHANGED cut

\* The newline completes the line in the buffer.  A blank line is skipped, and
\* one that is no object costs the connection.
TakeNewLine ==
  /\ pc = "select" /\ outbound # <<>> /\ Command.type = "bytes" /\ Command.text = <<NewLine>>
  /\ outbound' = Tail(outbound)
  /\ lineBuf' = <<>>
  /\ IF Object(lineBuf) THEN AcceptLine(lineBuf[1])
     ELSE /\ pc' = IF lineBuf = <<>> THEN pc ELSE "sleeping"
          /\ UNCHANGED <<nextSeq, accepted, pending, cut>>
  /\ UNCHANGED <<appVars, replayQ, inVars, srvVars, netVars, replayIdx, quiet, faults>>

\* The loop over segments: each is queued for replay and then sent.
SendSegment ==
  /\ pc = "sending" /\ sock # "broken"
  /\ Queue(pending[1])
  /\ Transmit(pending[1])
  /\ pending' = Tail(pending)
  /\ pc' = IF Len(pending) = 1 THEN "select" ELSE "sending"
  /\ UNCHANGED <<appVars, outbound, lineBuf, nextSeq, accepted, cut, inVars, srvVars,
                 sock, toClient, replayIdx, quiet, faults>>

\* A failed send leaves the loop: the segments behind it are never queued.
SendSegmentFails ==
  /\ pc = "sending" /\ sock = "broken"
  /\ Queue(pending[1])
  /\ pending' = <<>>
  /\ cut' = IF Len(pending) > 1 THEN cut \cup {pending[1].seq} ELSE cut
  /\ GiveUp
  /\ UNCHANGED <<appVars, outbound, lineBuf, nextSeq, accepted, inVars, srvVars, netVars,
                 replayIdx, quiet, faults>>

\* ClientClosed takes a number, is not queued for replay, and ends the task
\* whether or not it could be sent.
TakeShutdown ==
  /\ pc = "select" /\ outbound # <<>> /\ Command.type = "shutdown"
  /\ outbound' = Tail(outbound)
  /\ Transmit(ClientClosed(nextSeq))
  /\ nextSeq' = nextSeq + 1
  /\ pc' = "done"
  /\ UNCHANGED <<appVars, lineBuf, pending, replayQ, accepted, cut, inVars, srvVars,
                 sock, toClient, replayIdx, quiet, faults>>

-----------------------------------------------------------------------------
(* The inbound arm: handle_websocket_message.                              *)

Deliver(m) ==
  IF m \in Range(delivered)
  THEN twice' = twice \cup {m} /\ UNCHANGED delivered
  ELSE delivered' = Append(delivered, m) /\ UNCHANGED twice

Without(f, k) == [j \in DOMAIN f \ {k} |-> f[j]]
With(f, k, v) == [j \in DOMAIN f \cup {k} |-> IF j = k THEN v ELSE f[j]]

\* observe_server_message_chunk past its check of the index: the assembly of
\* e.msg, started if there is none; a chunk that disagrees about the count
\* discards it, the last chunk delivers it or, when it does not decode to a
\* message, discards it.
ObserveChunk(e) ==
  LET old  == IF e.msg \in DOMAIN assemblies THEN assemblies[e.msg]
              ELSE [count |-> e.count, segs |-> {}, garbled |-> FALSE]
      segs == old.segs \cup {e.seg}
      bad  == old.garbled \/ e.fault = "garbled"
  IN  \/ /\ old.count # e.count
         /\ assemblies' = Without(assemblies, e.msg)
         /\ GiveUp /\ UNCHANGED <<delivered, twice>>
      \/ /\ old.count = e.count /\ Cardinality(segs) < e.count
         /\ assemblies' = With(assemblies, e.msg,
                               [count |-> e.count, segs |-> segs, garbled |-> bad])
         /\ UNCHANGED <<pc, delivered, twice>>
      \/ /\ old.count = e.count /\ Cardinality(segs) = e.count
         /\ assemblies' = Without(assemblies, e.msg)
         /\ IF bad THEN GiveUp /\ UNCHANGED <<delivered, twice>> ELSE Deliver(e.msg) /\ UNCHANGED pc

\* Mutant: the cursor of a chunk is not kept.
MoveCursorForMessage(p) ==
  cursor' = IF ServerLog[p].cursor /\ ServerLog[p].count = 1 THEN p ELSE cursor


\* handle_inbound_wire_envelope: the cursor moves before the message is looked at.
MoveCursor(p) == cursor' = IF ServerLog[p].cursor THEN p ELSE cursor

ReceiveEntry ==
  /\ pc = "select" /\ toClient # <<>> /\ toClient[1].type = "log"
  /\ toClient' = Tail(toClient)
  /\ LET p == toClient[1].pos
         e == ServerLog[p]
     IN  \/ /\ e.fault = "frame"            \* not an envelope: nothing is kept
            /\ GiveUp /\ UNCHANGED <<cursor, assemblies, delivered, twice>>
         \/ /\ e.fault = "index"
            /\ MoveCursor(p) /\ GiveUp /\ UNCHANGED <<assemblies, delivered, twice>>
         \/ /\ e.fault \notin {"frame", "index"} /\ e.count = 1
            /\ MoveCursor(p) /\ Deliver(e.msg) /\ UNCHANGED <<pc, assemblies>>
         \/ /\ e.fault \notin {"frame", "index"} /\ e.count > 1
            /\ MoveCursor(p) /\ ObserveChunk(e)
  /\ UNCHANGED <<appVars, outbound, outVars, srvVars, sock, toServer, replayIdx, quiet, faults>>

ReceiveAck ==
  /\ pc = "select" /\ toClient # <<>> /\ toClient[1].type = "ack"
  /\ toClient' = Tail(toClient)
  /\ replayQ' = Retain(replayQ, toClient[1].seq)
  /\ UNCHANGED <<appVars, outbound, lineBuf, pending, nextSeq, accepted, cut, inVars, srvVars,
                 sock, toServer, taskVars, faults>>

\* Only a websocket Pong moves the deadline.
ReceivePong ==
  /\ pc = "select" /\ toClient # <<>> /\ toClient[1].type = "pong"
  /\ toClient' = Tail(toClient)
  /\ quiet' = 0
  /\ UNCHANGED <<appVars, outbound, outVars, inVars, srvVars, sock, toServer, pc, replayIdx, faults>>

\* The stream yields an error or its end.
StreamEnds ==
  /\ pc = "select" /\ sock = "broken"
  /\ GiveUp
  /\ UNCHANGED <<appVars, outbound, outVars, inVars, srvVars, netVars, replayIdx, quiet, faults>>

-----------------------------------------------------------------------------
(* The timer arms.  quiet counts ping intervals since the last Pong; a     *)
(* ping that cannot be sent ends the connection like StreamEnds.           *)

PingTick ==
  /\ pc = "select" /\ quiet < PongTicks /\ sock # "broken"
  /\ quiet' = quiet + 1
  /\ Transmit(Ping)
  /\ UNCHANGED <<appVars, outbound, outVars, inVars, srvVars, sock, toClient, pc, replayIdx, faults>>

\* Mutant: the deadline is one interval beyond the last that is counted.
ExpiredLate == quiet > PongTicks

Expired == quiet = PongTicks

\* A Pong that is merely late counts as a failure of the network.
PongTimeout ==
  /\ pc = "select" /\ Expired
  /\ \/ sock # "up" /\ UNCHANGED faults
     \/ sock = "up" /\ faults < MaxFaults /\ faults' = faults + 1
  /\ GiveUp
  /\ UNCHANGED <<appVars, outbound, outVars, inVars, srvVars, netVars, replayIdx, quiet>>

-----------------------------------------------------------------------------
(* The network: a connection breaks, losing what is in flight, or goes     *)
(* silent until the kernel gives up on data it cannot deliver.             *)

Break ==
  /\ sock = "up" /\ pc # "done" /\ faults < MaxFaults
  /\ sock' = "broken" /\ toServer' = <<>> /\ toClient' = <<>> /\ faults' = faults + 1
  /\ UNCHANGED <<appVars, outbound, outVars, inVars, srvVars, taskVars>>

HalfOpen ==
  /\ sock = "up" /\ pc # "done" /\ faults < MaxFaults
  /\ sock' = "halfopen" /\ toServer' = <<>> /\ toClient' = <<>> /\ faults' = faults + 1
  /\ UNCHANGED <<appVars, outbound, outVars, inVars, srvVars, taskVars>>

\* Nothing is outstanding while the handshake only listens.
KernelGivesUp ==
  /\ sock = "halfopen" /\ pc \in {"replaying", "select", "sending"}
  /\ sock' = "broken"
  /\ UNCHANGED <<appVars, outbound, outVars, inVars, srvVars, toServer, toClient, taskVars, faults>>

-----------------------------------------------------------------------------
(* The relay: it keeps what it has of each message, acknowledges a message *)
(* when it is whole, and sends its log behind the cursor.                  *)

SegmentsOf(s, n) == {<<s, i>> : i \in 0 .. n - 1}

RelayReceives ==
  /\ sock = "up" /\ toServer # <<>>
  /\ toServer' = Tail(toServer)
  /\ LET e == toServer[1]
     IN  \/ /\ e.type = "message"
            /\ srvSegs' = srvSegs \cup {<<e.seq, e.seg>>}
            /\ IF SegmentsOf(e.seq, e.count) \subseteq srvSegs'
               THEN /\ srvGot' = IF e.seq \in Range(srvGot) THEN srvGot ELSE Append(srvGot, e.seq)
                    /\ toClient' = Append(toClient, Ack(e.seq))
               ELSE UNCHANGED <<srvGot, toClient>>
            /\ UNCHANGED srvClosed
         \/ /\ e.type = "ping"
            /\ toClient' = Append(toClient, Pong)
            /\ UNCHANGED <<srvSegs, srvGot, srvClosed>>
         \/ /\ e.type = "closed"
            /\ srvClosed' = TRUE
            /\ UNCHANGED <<srvSegs, srvGot, toClient>>
  /\ UNCHANGED <<appVars, outbound, outVars, inVars, srvPos, work, sock, taskVars, faults>>

RelaySends ==
  /\ sock = "up" /\ srvPos < Len(ServerLog) /\ pc # "handshake"
  /\ srvPos' = srvPos + 1
  /\ toClient' = Append(toClient, Entry(srvPos + 1))
  /\ UNCHANGED <<appVars, outbound, outVars, inVars, srvSegs, srvGot, srvClosed, work, sock,
                 toServer, taskVars, faults>>

-----------------------------------------------------------------------------
Application == WriteText \/ WriteNewLine \/ Shutdown \/ DropStream
Establish   == Connect \/ Handshake \/ HandshakeFails \/ Replay \/ ReplayFails \/ StartSelect \/ WakeUp
Outbound    == TakeText \/ TakeNewLine \/ SendSegment \/ SendSegmentFails \/ TakeShutdown
Inbound     == ReceiveEntry \/ ReceiveAck \/ ReceivePong \/ StreamEnds
Timers      == PingTick \/ PongTimeout
Network     == ConnectFails \/ Break \/ HalfOpen \/ KernelGivesUp
Relay       == RelayReceives \/ RelaySends

Next == Application \/ Establish \/ Outbound \/ Inbound \/ Timers \/ Network \/ Relay

Spec == Init /\ [][Next]_vars

\* The task is scheduled whenever it can move, the arms of its select! are
\* polled in random order (strong fairness), and the relay and the kernel do
\* their part: what is sent over connection after connection reaches the relay
\* over one of them, the delay before the next leaving it the time.  A send on a
\* half-open socket may block until the kernel gives up, so no fairness is owed
\* to it.
Sending == (Replay \/ SendSegment) /\ sock = "up"
Fairness ==
  /\ WF_vars(Establish /\ ~Replay)
  /\ WF_vars(Sending) /\ WF_vars(SendSegmentFails)
  /\ SF_vars(TakeText \/ TakeNewLine \/ TakeShutdown)
  /\ SF_vars(Inbound)
  /\ WF_vars(PingTick) /\ WF_vars(PongTimeout)
  /\ WF_vars(KernelGivesUp /\ pc \in {"replaying", "sending"})
  /\ SF_vars(RelayReceives) /\ WF_vars(RelaySends)
  /\ WF_vars(WriteNewLine)

FairSpec == Spec /\ Fairness

-----------------------------------------------------------------------------
(* Properties.                                                             *)

Sequences == 1 .. nextSeq - 1
Wire(q)   == {<<e.seq, e.seg>> : e \in Range(q)}

\* Every variable holds what its declaration in stream.rs allows, and a
\* position of control_loop only the data that belongs to it.
TypeOK ==
  /\ written \in 0 .. Len(Sizes) /\ halfWritten \in BOOLEAN /\ shutdownSent \in BOOLEAN
  /\ pc \in {"connecting", "handshake", "replaying", "select", "sending", "sleeping", "done"}
  /\ pc = "sending" => pending # <<>>
  /\ sock \in {"none", "up", "halfopen", "broken"}
  /\ nextSeq \in Nat \ {0} /\ cursor \in 0 .. Len(ServerLog) /\ quiet \in 0 .. PongTicks
  /\ \A e \in Range(replayQ) : e.seq \in Sequences
  /\ replayIdx \in Nat \ {0} /\ (pc = "replaying" => replayIdx <= Len(replayQ) + 1)
  /\ Len(accepted) \in {nextSeq - 1, nextSeq - 2}

\* No accepted message is lost: until the relay has it whole, all its segments
\* are in the replay queue or still to be sent, whatever connections broke
\* between.  Only a message abandoned between two of its segments is exempt.
NothingLost ==
  \A s \in DOMAIN accepted \ cut :
    \/ s \in Range(srvGot)
    \/ Wire(Split(s, Sizes[accepted[s]])) \subseteq Wire(replayQ) \cup Wire(pending)

\* What the relay gets is an ordered delivery of what was accepted, in which
\* only abandoned messages are missing.
Delivery == INSTANCE OrderedDelivery
              WITH accepted <- Len(accepted), lost <- cut, got <- srvGot
ImplementsDelivery == Delivery!Spec

\* An acknowledgement takes out of the replay queue only what the relay has, or
\* what was abandoned.
AckTrimsReceived ==
  [][\A e \in Range(replayQ) \ Range(replayQ') : e.seq \in Range(srvGot) \cup cut]_vars

\* When the relay learns that the client closed the stream it has every message
\* written before: a close never overtakes a message waiting for a replay.
ClosedAfterAll ==
  srvClosed => \A l \in 1 .. written :
                 \E s \in DOMAIN accepted : accepted[s] = l /\ s \in Range(srvGot) \cup cut

Faulty(m)  == \E p \in DOMAIN ServerLog : ServerLog[p].msg = m /\ ServerLog[p].fault # "none"
LastPos(m) == CHOOSE p \in DOMAIN ServerLog :
                /\ ServerLog[p].msg = m
                /\ \A q \in DOMAIN ServerLog : ServerLog[q].msg = m => q <= p

\* A request to resume behind the cursor skips no message: each one that ends at
\* or before it was delivered, even when its chunks came over several connections.
CursorCoversDelivery ==
  \A m \in Messages : LastPos(m) <= cursor /\ ~Faulty(m) => m \in Range(delivered)

\* A message whose last envelope carries a cursor reaches the application once.
TwiceOnlyWithoutCursor ==
  \A m \in twice : ~ServerLog[LastPos(m)].cursor

\* complete_device_key_handshake has no deadline: a connection that goes silent
\* before the challenge is never given up.
SilentHandshake == pc = "handshake" /\ sock = "halfopen"

\* A line the application finishes reaches the relay (or was abandoned between
\* segments, or is over the limits), unless the application gives the stream up
\* or a handshake goes silent.
EveryLineArrives ==
  \A l \in UNION {DOMAIN w.sizes : w \in Workloads} :
    (written = l) ~> (\/ pc = "done" \/ shutdownSent \/ SilentHandshake
                      \/ \E s \in DOMAIN accepted : accepted[s] = l /\ s \in Range(srvGot) \cup cut)

\* A connection that goes silent once the handshake is over is given up, by the
\* deadline of the pings or by a send that fails in the end.
SilenceIsNoticed == (sock = "halfopen" /\ pc # "handshake") ~> (sock # "halfopen" \/ pc = "done")

\* An envelope that does not decode costs the connection before its cursor is
\* kept: it comes again on every connection, and what is behind it is not reached.
Hidden(m) == \E p \in DOMAIN ServerLog : ServerLog[p].fault = "frame" /\ p < LastPos(m)

=============================================================================
