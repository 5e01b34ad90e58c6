----------------------------- MODULE ThreadStore -----------------------------
(***************************************************************************)
(* One thread of the app store and everything that writes it: the reducer  *)
(* fed by the store listener, start_turn, the steering and deletion of     *)
(* queued follow-ups, and the refresh that follows a reconnection          *)
(* (codex-mobile-client: store/reducer.rs, store/reconcile.rs and          *)
(* mobile_client/{mod,store_listener,thread_projection}.rs).               *)
(*                                                                         *)
(* One action is what a task does under one lock of the store or between   *)
(* two awaits.  The app server and the session under the requests are      *)
(* external.                                                               *)
(*                                                                         *)
(* Abstracted: the text of a message (two messages never have the same),   *)
(* titles, models, plans and tool calls; of what the agent writes, one     *)
(* reply per turn is kept.  Items carry the same id live and in a page; a  *)
(* bag of them is kept, not their order.                                   *)
(* TurnStarted is applied under two locks in succession; they are one step *)
(* here.                                                                   *)
(***************************************************************************)
EXTENDS Naturals, FiniteSets, SequencesExt

CONSTANTS
  Msgs,       \* the messages the user submits, each once
  Other,      \* the message of another client of the thread
  Reply,      \* the agent's answer
  Taps,       \* the user's taps on the queue (steer or delete)
  MaxTurns,   \* bound on the turns of the server
  MaxFaults   \* bound on lost connections

ASSUME ThreadStoreAssumption ==
  /\ IsFiniteSet(Msgs)
  /\ Other \notin Msgs /\ Reply \notin Msgs /\ Other # Reply
  /\ MaxTurns \in Nat /\ MaxFaults \in Nat

None == 0                       \* no turn
Texts == Msgs \cup {Other}

VARIABLES
  thread,     \* the ThreadSnapshot in the store
  op,         \* start_turn, per message: [pc, saw, turn]
  tap,        \* steer_queued_follow_up and delete_queued_follow_up, per tap
  listener,   \* the task of spawn_store_listener: [pc, msg]
  refresh,    \* force_refresh_thread_authoritative: [pc, turns, read]
  paginated,  \* supports_turn_pagination of the server
  \* the app server and the connection to it
  turns,      \* its turns: [users, done]
  link,       \* whether there is a connection
  subscribed, \* whether the thread's events go to it
  events,     \* events on their way to the listener
  \* overtaken and the bound on faults
  overtaken,  \* the thread changed under a task that was about to write it
  faults

clientVars == <<op, tap, listener, refresh, paginated>>
serverVars == <<turns, subscribed, events>>
vars == <<thread, clientVars, serverVars, link, overtaken, faults>>

-----------------------------------------------------------------------------
(* The server.                                                             *)

Running == IF turns = <<>> \/ Last(turns).done THEN None ELSE Len(turns)

\* An item, and its number in the turn for an id.
Item(t, n, x) == [turn |-> t, id |-> n, text |-> x]
ReplyOf(t) == Item(t, 0, Reply)
ItemsOf(t, ts) ==
  {Item(t, n, ts[t].users[n]) : n \in DOMAIN ts[t].users}
    \cup {i \in {ReplyOf(t)} : ts[t].done}
AllItems(ts) == UNION {ItemsOf(t, ts) : t \in DOMAIN ts}

Started(t)   == [type |-> "started", turn |-> t]
Completed(t) == [type |-> "completed", turn |-> t]
ItemEvent(i) == [type |-> "item", item |-> i]
Echo(i)      == <<ItemEvent(i), ItemEvent(i)>>   \* ItemStarted, ItemCompleted

Emit(es) == events' = IF link /\ subscribed THEN events \o es ELSE events

\* turn/start: a new turn, or a message more in the one that runs.
Open(x) ==
  /\ Running = None /\ Len(turns) < MaxTurns
  /\ turns' = Append(turns, [users |-> <<x>>, done |-> FALSE])
  /\ Emit(<<Started(Len(turns) + 1)>> \o Echo(Item(Len(turns) + 1, 1, x)))
Inject(x) ==
  /\ Running # None
  /\ turns' = [turns EXCEPT ![Running].users = Append(@, x)]
  /\ Emit(Echo(Item(Running, Len(turns[Running].users) + 1, x)))

Refuse == (Running # None \/ Len(turns) = MaxTurns) /\ UNCHANGED <<turns, events>>

OtherClient ==
  /\ \A t \in DOMAIN turns : Other \notin Range(turns[t].users)
  /\ Open(Other)
  /\ UNCHANGED <<thread, clientVars, subscribed, link, overtaken, faults>>

Finish ==
  /\ Running # None
  /\ turns' = [turns EXCEPT ![Running].done = TRUE]
  /\ Emit(<<ItemEvent(ReplyOf(Running)), Completed(Running)>>)
  /\ UNCHANGED <<thread, clientVars, subscribed, link, overtaken, faults>>

-----------------------------------------------------------------------------
(* The reducer: what is done to the thread.                                *)

\* The elements of a sequence at some of its indices, in their order.
Retain(s, I) ==
  [n \in 1 .. Cardinality(I) |->
     s[CHOOSE i \in I : Cardinality({j \in I : j <= i}) = n]]
DropFirst(drafts) == IF drafts = <<>> THEN drafts ELSE Tail(drafts)

\* is_superseded_overlay_item: the same text, at a user's turn boundary.
Superseded(o, item) == o.text = item.text
RemoveDuplicates(overlays, items) ==
  Retain(overlays, {k \in DOMAIN overlays : \A i \in items : ~Superseded(overlays[k], i)})

BindFirstPending(overlays, t) ==
  [i \in DOMAIN overlays |->
     IF overlays[i].turn = None /\ \A j \in 1 .. i - 1 : overlays[j].turn # None
     THEN [overlays[i] EXCEPT !.turn = t] ELSE overlays[i]]

OnStarted(th, t) ==
  [th EXCEPT !.drafts = DropFirst(@), !.active = t,
             !.overlays = RemoveDuplicates(BindFirstPending(@, t), DOMAIN th.items)]

Unsteered(drafts) == Retain(drafts, {k \in DOMAIN drafts : drafts[k].kind # "PendingSteer"})

\* Mutant: the turn that is over stays the active one.
OnCompletedKeepsActive(th) == [th EXCEPT !.drafts = Unsteered(@)]

OnCompleted(th) == [th EXCEPT !.active = None, !.drafts = Unsteered(@)]

\* apply_item_update: every user item, whoever wrote it, takes a draft away.
OnItem(th, item) ==
  [th EXCEPT !.overlays = RemoveDuplicates(@, {item}),
             !.items    = IF BagIn(item, @) THEN @ ELSE @ (+) SetToBag({item}),
             !.drafts   = IF item.text \in Texts THEN DropFirst(@) ELSE @]

\* bind_local_user_message_overlay_to_turn
Bind(th, m, t) ==
  [th EXCEPT !.overlays = RemoveDuplicates(
      [i \in DOMAIN @ |-> IF @[i].text = m THEN [@[i] EXCEPT !.turn = t] ELSE @[i]],
      DOMAIN th.items)]

Stage(th, m)   == [th EXCEPT !.overlays = Append(@, [text |-> m, turn |-> None])]
\* Mutant: an overlay bound to a turn, perhaps another client's, is not taken back.
UnstagePending(th, m) ==
  [th EXCEPT !.overlays = Retain(@, {k \in DOMAIN @ : @[k].text # m \/ @[k].turn # None})]
Unstage(th, m) == [th EXCEPT !.overlays = Retain(@, {k \in DOMAIN @ : @[k].text # m})]
Enqueue(th, m) == [th EXCEPT !.drafts = Append(@, [text |-> m, kind |-> "Message"])]

\* upsert_thread_snapshot: the new snapshot, and of the old one the overlays
\* the new one does not supersede, and its drafts and items if the new one has
\* none.
Upsert(old, new) ==
  LET bound == [i \in DOMAIN old.overlays |->
                  IF old.overlays[i].turn = None
                  THEN [old.overlays[i] EXCEPT !.turn = new.active]
                  ELSE old.overlays[i]]
      kept  == RemoveDuplicates(bound, DOMAIN new.items \cup Range(new.overlays))
  IN  [new EXCEPT !.overlays = @ \o kept,
                  !.drafts   = IF @ = <<>> THEN old.drafts ELSE @,
                  !.items    = IF @ = EmptyBag THEN old.items ELSE @]

\* Mutant: a turn the list calls complete is kept.
ReconcileActiveKeepsOld(old, new, list) == IF new # None THEN new ELSE old

\* reconcile_active_turn with a list of turns: the new snapshot's turn, or the
\* old one's if the list says that it is in progress or there is no list.
ReconcileActive(old, new, list) ==
  IF new # None THEN new
  ELSE IF list = <<>> \/ (old \in DOMAIN list /\ ~list[old].done) THEN old ELSE None

\* Mutant: the turns of the page are taken without a look at those there are.
MergePageAgain(th, list) == [th EXCEPT !.items = @ (+) SetToBag(AllItems(list))]

\* merge_paged_turns for a page in descending order: turns the thread has an
\* item of are skipped, the items of the others join those it has.
MergePage(th, list) ==
  LET known == {i.turn : i \in DOMAIN th.items}
  IN  [th EXCEPT !.items = @ (+) SetToBag({i \in AllItems(list) : i.turn \notin known})]

-----------------------------------------------------------------------------
Blank == [items |-> EmptyBag, overlays |-> <<>>, drafts |-> <<>>, active |-> None]
Idle == [pc |-> "idle", turns |-> <<>>, read |-> Blank]
Untapped == [pc |-> "idle", msg |-> Other, saw |-> None, list |-> <<>>]
TapDone  == [Untapped EXCEPT !.pc = "done"]

Init ==
  /\ thread = Blank
  /\ op = [m \in Msgs |-> [pc |-> "idle", saw |-> None, turn |-> None]]
  /\ tap = [k \in Taps |-> Untapped]
  /\ listener = [pc |-> "recv", msg |-> Other]
  /\ refresh = Idle
  /\ paginated \in BOOLEAN
  /\ turns = <<>> /\ link = TRUE /\ subscribed = TRUE /\ events = <<>>
  /\ overtaken = FALSE /\ faults = 0

-----------------------------------------------------------------------------
\* A task other than the refresh changes the thread, perhaps while the refresh
\* holds an answer or a snapshot that it has yet to write.
Holding == refresh.pc \in {"resumed", "resumeRead", "probed", "probeRead", "paged", "pageRead"}
Update(new) ==
  /\ thread' = new
  /\ overtaken' = (overtaken \/ (Holding /\ new # thread))

-----------------------------------------------------------------------------
(* start_turn.                                                             *)

Ended(pc) == [pc |-> pc, saw |-> None, turn |-> None]

\* The snapshot that decides between a turn and a draft.
Submit(m) ==
  /\ op[m].pc = "idle"
  /\ op' = [op EXCEPT ![m] = [@ EXCEPT !.pc = "deciding", !.saw = thread.active]]
  /\ UNCHANGED <<thread, tap, listener, refresh, paginated, serverVars, link, overtaken, faults>>

StageAndAsk(m) ==
  /\ op[m].pc = "deciding" /\ op[m].saw = None
  /\ Update(Stage(thread, m))
  /\ op' = [op EXCEPT ![m].pc = "asked"]
  /\ UNCHANGED <<tap, listener, refresh, paginated, serverVars, link, faults>>

EnqueueDraft(m) ==
  /\ op[m].pc = "deciding" /\ op[m].saw # None
  /\ Update(Enqueue(thread, m))
  /\ op' = [op EXCEPT ![m] = Ended("queued")]
  /\ UNCHANGED <<tap, listener, refresh, paginated, serverVars, link, faults>>

\* A message that makes no draft is steered into the turn it saw.
SteerDirectly(m) ==
  /\ op[m].pc = "deciding" /\ op[m].saw # None
  /\ op' = [op EXCEPT ![m].pc = "steering"]
  /\ UNCHANGED <<thread, tap, listener, refresh, paginated, serverVars, link, overtaken, faults>>

\* The server's answer to the steering: the turn it names runs, or it falls
\* back to turn/start.  An answer is lost only with the connection: ConnectionLost.
SteerAnswered(m) ==
  /\ op[m].pc = "steering" /\ link
  /\ IF Running = op[m].saw
     THEN Inject(m) /\ op' = [op EXCEPT ![m] = Ended("done")]
     ELSE op' = [op EXCEPT ![m] = Ended("asked")] /\ UNCHANGED <<turns, events>>
  /\ UNCHANGED <<thread, tap, listener, refresh, paginated, subscribed, link, overtaken, faults>>

\* The server executes the turn/start and its response is on the way, or it
\* refuses it because a turn runs (or at the bound on turns).
TurnStarts(m) ==
  /\ op[m].pc = "asked" /\ link
  /\ \/ Open(m) /\ op' = [op EXCEPT ![m] = [@ EXCEPT !.pc = "answered", !.turn = Len(turns')]]
     \/ Inject(m) /\ op' = [op EXCEPT ![m] = [@ EXCEPT !.pc = "answered", !.turn = Len(turns')]]
     \/ Refuse /\ op' = [op EXCEPT ![m].pc = "failed"]
  /\ UNCHANGED <<thread, tap, listener, refresh, paginated, subscribed, link, overtaken, faults>>

BindOverlay(m) ==
  /\ op[m].pc = "answered"
  /\ Update(Bind(thread, m, op[m].turn))
  /\ op' = [op EXCEPT ![m] = Ended("done")]
  /\ UNCHANGED <<tap, listener, refresh, paginated, serverVars, link, faults>>

TurnFails(m) ==
  /\ op[m].pc = "failed"
  /\ Update(Unstage(thread, m))
  /\ op' = [op EXCEPT ![m].pc = "error"]
  /\ UNCHANGED <<tap, listener, refresh, paginated, serverVars, link, faults>>

-----------------------------------------------------------------------------
(* Taps on a queued follow-up.                                             *)

DraftTexts == {d.text : d \in Range(thread.drafts)}

SteerTapped(k) ==
  /\ tap[k].pc = "idle"
  /\ \E m \in DraftTexts :
       tap' = [tap EXCEPT ![k] = [@ EXCEPT !.pc = "begin", !.msg = m, !.saw = thread.active]]
  /\ UNCHANGED <<thread, op, listener, refresh, paginated, serverVars, link, overtaken, faults>>

\* Mutant: a second tap steers the draft again.
SteerableAgain(d) == d.text \in Texts
Steerable(d) == d.kind = "Message"

\* try_begin_steer_queued_follow_up: of two taps one finds the draft a Message.
\* Without a turn to steer the draft stays PendingSteer all the same.
BeginSteer(k) ==
  /\ tap[k].pc = "begin"
  /\ \/ \E i \in DOMAIN thread.drafts :
          /\ thread.drafts[i].text = tap[k].msg /\ Steerable(thread.drafts[i])
          /\ Update([thread EXCEPT !.drafts[i].kind = "PendingSteer"])
          /\ tap' = [tap EXCEPT ![k] = IF @.saw = None THEN TapDone ELSE [@ EXCEPT !.pc = "asked"]]
     \/ /\ \A i \in DOMAIN thread.drafts :
             thread.drafts[i].text = tap[k].msg => ~Steerable(thread.drafts[i])
        /\ tap' = [tap EXCEPT ![k] = TapDone] /\ UNCHANGED <<thread, overtaken>>
  /\ UNCHANGED <<op, listener, refresh, paginated, serverVars, link, faults>>

TapSteers(k) ==
  /\ tap[k].pc = "asked" /\ link
  /\ IF Running = tap[k].saw THEN Inject(tap[k].msg) ELSE UNCHANGED <<turns, events>>
  /\ tap' = [tap EXCEPT ![k] = IF Running = @.saw THEN [@ EXCEPT !.pc = "answered"] ELSE TapDone]
  /\ UNCHANGED <<thread, op, listener, refresh, paginated, subscribed, link, overtaken, faults>>

TapReturns(k) ==
  /\ tap[k].pc = "answered"
  /\ tap' = [tap EXCEPT ![k] = TapDone]
  /\ UNCHANGED <<thread, op, listener, refresh, paginated, serverVars, link, overtaken, faults>>

\* The list without the draft, as whoever deletes it saw it.
Remaining(m) ==
  Retain(thread.drafts, {i \in DOMAIN thread.drafts : thread.drafts[i].text # m})

\* delete_queued_follow_up reads the list, and writes it back without the draft.
DeleteTapped(k) ==
  /\ tap[k].pc = "idle"
  /\ \E m \in DraftTexts :
       tap' = [tap EXCEPT ![k] = [@ EXCEPT !.pc = "delete", !.msg = m, !.list = Remaining(m)]]
  /\ UNCHANGED <<thread, op, listener, refresh, paginated, serverVars, link, overtaken, faults>>

Deletes(k) ==
  /\ tap[k].pc = "delete"
  /\ thread' = [thread EXCEPT !.drafts = tap[k].list]
  /\ overtaken' = (overtaken \/ Holding \/ tap[k].list # Remaining(tap[k].msg))
  /\ tap' = [tap EXCEPT ![k] = [@ EXCEPT !.pc = "deleted", !.list = <<>>]]
  /\ UNCHANGED <<op, listener, refresh, paginated, serverVars, link, faults>>

-----------------------------------------------------------------------------
(* The store listener: one event after the other, of all servers.          *)

AfterEvent(e) == IF e.type = "completed" THEN "check" ELSE "recv"

Receive ==
  /\ listener.pc = "recv" /\ events # <<>>
  /\ LET e == Head(events)
     IN  /\ Update(CASE e.type = "started"   -> OnStarted(thread, e.turn)
                     [] e.type = "completed" -> OnCompleted(thread)
                     [] e.type = "item"      -> OnItem(thread, e.item))
         /\ listener' = [listener EXCEPT !.pc = AfterEvent(e)]
  /\ events' = Tail(events)
  /\ UNCHANGED <<op, tap, refresh, paginated, turns, subscribed, link, faults>>

\* maybe_send_next_local_queued_follow_up: the first draft is sent, whatever
\* its kind, and stays in the queue.
AutoSend ==
  /\ listener.pc = "check"
  /\ listener' = IF thread.active # None \/ thread.drafts = <<>>
                 THEN [listener EXCEPT !.pc = "recv"]
                 ELSE [pc |-> "asked", msg |-> Head(thread.drafts).text]
  /\ UNCHANGED <<thread, op, tap, refresh, paginated, serverVars, link, overtaken, faults>>

AutoSendStarts ==
  /\ listener.pc = "asked" /\ link
  /\ Open(listener.msg) \/ Inject(listener.msg) \/ Refuse
  /\ listener' = [listener EXCEPT !.pc = "answered"]
  /\ UNCHANGED <<thread, op, tap, refresh, paginated, subscribed, link, overtaken, faults>>

AutoSendReturns ==
  /\ listener.pc = "answered"
  /\ listener' = [pc |-> "recv", msg |-> Other]
  /\ UNCHANGED <<thread, op, tap, refresh, paginated, serverVars, link, overtaken, faults>>

-----------------------------------------------------------------------------
(* The refresh after a reconnection.                                       *)

At(pc) == refresh.pc = pc
Goto(pc) == refresh' = [Idle EXCEPT !.pc = pc]
\* A request without a connection fails, and ends the refresh.
Ask(pc) == Goto(IF link THEN pc ELSE "idle")
Keep == UNCHANGED <<op, tap, listener, paginated>>

\* thread/resume subscribes the connection; only a server without pagination
\* answers with the turns.
Resume ==
  /\ At("resume") /\ link
  /\ subscribed' = TRUE
  /\ refresh' = [Idle EXCEPT !.pc = "resumed", !.turns = IF paginated THEN <<>> ELSE turns]
  /\ Keep /\ UNCHANGED <<thread, turns, events, link, overtaken, faults>>

ReadThread(from, to) ==
  /\ At(from)
  /\ refresh' = [refresh EXCEPT !.pc = to, !.read = thread]
  /\ Keep /\ UNCHANGED <<thread, serverVars, link, overtaken, faults>>

Write(new) ==
  /\ thread' = Upsert(thread, new)
  /\ UNCHANGED overtaken

WriteResumed ==
  /\ At("resumeRead")
  /\ LET list   == refresh.turns
         active == IF list = <<>> \/ Last(list).done THEN None ELSE Len(list)
     IN  Write([items    |-> IF list = <<>> THEN refresh.read.items ELSE SetToBag(AllItems(list)),
                overlays |-> <<>>, drafts |-> <<>>,
                active   |-> ReconcileActive(refresh.read.active, active, list)])
  /\ IF paginated THEN Ask("probe") ELSE Goto("idle")
  /\ Keep /\ UNCHANGED <<serverVars, link, faults>>

\* thread/turns/list, for the probe and for the repair page.
ListTurns(from, to) ==
  /\ At(from) /\ link
  /\ refresh' = [Idle EXCEPT !.pc = to, !.turns = turns]
  /\ Keep /\ UNCHANGED <<thread, serverVars, link, overtaken, faults>>

ProbedActive == ReconcileActive(refresh.read.active, None, refresh.turns)

WriteProbed ==
  /\ At("probeRead")
  /\ IF ProbedActive # refresh.read.active
     THEN Write([refresh.read EXCEPT !.active = ProbedActive]) /\ Ask("page")
     ELSE Goto("idle") /\ UNCHANGED <<thread, overtaken>>
  /\ Keep /\ UNCHANGED <<serverVars, link, faults>>

WritePage ==
  /\ At("pageRead")
  /\ Write(MergePage(refresh.read, refresh.turns))
  /\ Goto("idle")
  /\ Keep /\ UNCHANGED <<serverVars, link, faults>>

-----------------------------------------------------------------------------
(* The connection.                                                         *)

OpStates  == {"idle", "deciding", "queued", "steering", "asked", "answered", "failed", "done", "error"}
TapStates == {"idle", "begin", "asked", "answered", "delete", "deleted", "done"}

\* A request in flight fails, or the session's worker sends it again over the
\* next connection; a response may be lost with the connection.
Lost(pc) == CASE pc = "asked" -> {"asked", "failed"}
              [] pc = "answered" -> {"answered", "asked", "failed"}
              [] pc = "steering" -> {"steering", "asked"}
              [] OTHER -> {pc}

ConnectionLost ==
  /\ link /\ faults < MaxFaults
  /\ link' = FALSE /\ faults' = faults + 1
  /\ subscribed' = FALSE /\ events' = <<>>
  /\ \E f \in [Msgs -> OpStates], g \in [Taps -> TapStates \cup {"failed"}],
        l \in Lost(listener.pc) :
       /\ \A m \in Msgs : f[m] \in Lost(op[m].pc)
       /\ \A k \in Taps : g[k] \in Lost(tap[k].pc)
       /\ op'  = [m \in Msgs |-> [op[m] EXCEPT !.pc = f[m]]]
       /\ tap' = [k \in Taps |-> IF g[k] = "failed" THEN TapDone ELSE [tap[k] EXCEPT !.pc = g[k]]]
       /\ listener' = [listener EXCEPT !.pc = IF l = "failed" THEN "answered" ELSE l]
  /\ refresh' = IF refresh.pc \in {"resume", "probe", "page"} THEN Idle ELSE refresh
  /\ UNCHANGED <<thread, paginated, turns, overtaken>>

\* The health reader starts the refresh.
Reconnected ==
  /\ ~link /\ At("idle")
  /\ link' = TRUE
  /\ Goto("resume")
  /\ Keep /\ UNCHANGED <<thread, serverVars, overtaken, faults>>

-----------------------------------------------------------------------------
StartTurn(m) == \/ StageAndAsk(m) \/ EnqueueDraft(m) \/ SteerDirectly(m) \/ SteerAnswered(m)
                \/ TurnStarts(m) \/ BindOverlay(m) \/ TurnFails(m)
Tapped(k)    == BeginSteer(k) \/ TapSteers(k) \/ TapReturns(k) \/ Deletes(k)
Listen       == Receive \/ AutoSend \/ AutoSendStarts \/ AutoSendReturns
Refresh      == \/ Resume \/ ReadThread("resumed", "resumeRead") \/ WriteResumed
                \/ ListTurns("probe", "probed") \/ ReadThread("probed", "probeRead") \/ WriteProbed
                \/ ListTurns("page", "paged") \/ ReadThread("paged", "pageRead") \/ WritePage

Next ==
  \/ \E m \in Msgs : Submit(m) \/ StartTurn(m)
  \/ \E k \in Taps : SteerTapped(k) \/ DeleteTapped(k) \/ Tapped(k)
  \/ Listen \/ Refresh \/ OtherClient \/ Finish \/ ConnectionLost \/ Reconnected

Spec == Init /\ [][Next]_vars

Fairness ==
  /\ \A m \in Msgs : WF_vars(StartTurn(m))
  /\ \A k \in Taps : WF_vars(Tapped(k))
  /\ WF_vars(Listen) /\ WF_vars(Refresh) /\ WF_vars(Finish) /\ WF_vars(Reconnected)
FairSpec == Spec /\ Fairness

-----------------------------------------------------------------------------
Turns == 0 .. Len(turns)

\* Each item is there once and belongs to a turn the server had; an overlay or a
\* draft is one of the user's own messages.
TypeOK ==
  /\ thread.items = SetToBag(DOMAIN thread.items)
  /\ \A i \in DOMAIN thread.items : i.turn \in Turns \ {None} /\ i.text \in Texts \cup {Reply}
  /\ \A o \in Range(thread.overlays) : o.turn \in Turns /\ o.text \in Msgs
  /\ \A d \in Range(thread.drafts) : d.text \in Msgs /\ d.kind \in {"Message", "PendingSteer"}
  /\ thread.active \in Turns
  /\ \A m \in Msgs : op[m].saw \in Turns /\ op[m].turn \in Turns
  /\ \A m \in Msgs : (op[m].turn # None) => op[m].pc \in {"answered", "asked", "failed", "error"}
  /\ \A k \in Taps : tap[k].msg \in Texts /\ tap[k].saw \in Turns
  /\ listener.pc \in {"recv", "check", "asked", "answered"} /\ listener.msg \in Texts
  /\ paginated \in BOOLEAN /\ overtaken \in BOOLEAN /\ faults \in 0 .. MaxFaults
  /\ ~link => ~subscribed /\ events = <<>>

\* Where the agent got a message: the turns, and the places in them.
Places(m) ==
  UNION {{t} \X {n \in DOMAIN turns[t].users : turns[t].users[n] = m} : t \in DOMAIN turns}
Times(m) == Cardinality(Places(m))

\* One submission reaches the agent once, whether it is sent, steered directly,
\* tapped twice in the queue, or sent by the listener: twice only after a lost
\* connection, which may repeat a request, or a write over a newer thread.
TwiceOnlyAfterRace == \A m \in Msgs : Times(m) > 1 => faults > 0 \/ overtaken

\* All events are applied and no refresh is on its way.
CaughtUp == link /\ subscribed /\ events = <<>> /\ At("idle")

\* The thread never shows as working when the server is not, or in another turn,
\* once the client has caught up: reconnections, whose lost TurnCompleted the
\* refresh makes up for, included.
ShownActiveRuns == CaughtUp /\ ~overtaken => thread.active \in {None, Running}

Settled ==
  /\ CaughtUp /\ listener.pc = "recv"
  /\ \A m \in Msgs : op[m].pc \in {"idle", "queued", "done", "error"}
Shown(m) ==
  Cardinality({i \in DOMAIN thread.items : i.text = m})
    + Cardinality({k \in DOMAIN thread.overlays : thread.overlays[k].text = m
                      /\ \A i \in DOMAIN thread.items : <<i.turn, i.text>> # <<thread.overlays[k].turn, m>>})

\* Once everything has settled a message shows no more often than the agent got
\* it: no optimistic overlay is left beside its echo, whichever of the response,
\* the events, the resumed thread and the pages came first.
OneBubble == Settled /\ ~overtaken => \A m \in Msgs : Shown(m) <= Times(m)

\* The active turn the thread shows is in the end none or the one that runs.
ActiveSettles == <>[](overtaken \/ thread.active \in {None, Running})

\* No TurnStarted and no user's message is on its way to the listener, which would
\* take the first draft of the queue with it.
Echoed == \A e \in Range(events) :
  e.type = "completed" \/ (e.type = "item" /\ e.item.text = Reply)
Waiting(m) == \E d \in Range(thread.drafts) : d.text = m /\ d.kind = "Message"
Deleted(m) == \E k \in Taps : tap[k].pc = "deleted" /\ tap[k].msg = m
SteeredTooLate(m) == \E k \in Taps : tap[k].pc = "asked" /\ tap[k].msg = m /\ tap[k].saw # Running


\* store/reconcile.rs: "A reconnect repair page is authoritative for completed turn
\* text."  After the repair, a turn the thread shows an item of shows its reply if
\* it is complete.
RepairRestoresReply ==
  paginated /\ CaughtUp /\ thread.active = None /\ ~overtaken =>
    \A i \in DOMAIN thread.items : turns[i.turn].done => ReplyOf(i.turn) \in DOMAIN thread.items
=============================================================================
