------------------------ MODULE SessionRegistryProofs ------------------------
(* Safety of SessionRegistry for any calls, any functions and any bounds.     *)
EXTENDS SessionRegistry, TLAPS

-----------------------------------------------------------------------------
(* Type correctness.                                                       *)

Steps == {"idle", "check", "announce", "progress", "take", "drop", "dial", "fail",
          "attach", "insert", "clear", "done"}

ConnectCall == [pc : Steps, path : Paths \cup {None}, old : Sessions \cup {None}]

CallType ==
  /\ op \in [Connects -> ConnectCall]
  /\ disc \in [Disconnects ->
       [pc : {"idle", "removed", "stopping", "done"}, old : Sessions \cup {None}]]
  /\ req \in [Requests ->
       [pc : {"idle", "asking", "mark", "done"}, via : Sessions \cup {None}]]

SessionType ==
  /\ current \in Sessions \cup {None}
  /\ health \in [Sessions -> Health \cup {None}]
  /\ unseen \in [Sessions -> BOOLEAN]
  /\ stopped \subseteq Sessions
  /\ reader \in [Sessions -> {"off", "start", "hello", "look", "tell", "wait", "gone"}]
  /\ drops \in 0 .. MaxDrops

StoreType ==
  /\ record \in Health \cup {None}
  /\ progress \in BOOLEAN
  /\ updates \in Seq(Health)
  /\ overlap \subseteq {"connect", "disconnect"}
  /\ astray \in BOOLEAN

\* A session that is about to be attached, or has a reader, has been opened.
Opened == \A s \in Sessions :
  op[s].pc \in {"attach", "insert"} \/ reader[s] # "off" => health[s] \in Health

LEMMA TypeParts == TypeOK <=> CallType /\ SessionType /\ StoreType
BY DEF TypeOK, CallType, ConnectCall, Steps, SessionType, StoreType

LEMMA TypePartsNext == CallType' /\ SessionType' /\ StoreType' => TypeOK'
BY DEF TypeOK, CallType, ConnectCall, Steps, SessionType, StoreType

LEMMA GoToType ==
  ASSUME CallType, NEW c \in Connects, NEW pc \in Steps, GoTo(c, pc)
  PROVE  op' \in [Connects -> ConnectCall]
BY DEF CallType, ConnectCall, GoTo

LEMMA ReturnType ==
  ASSUME CallType, NEW c \in Connects, Return(c)
  PROVE  op' \in [Connects -> ConnectCall]
BY DEF CallType, ConnectCall, Return, Steps

LEMMA StopType ==
  ASSUME SessionType, NEW s \in Sessions \cup {None}, Stop(s)
  PROVE  /\ health' \in [Sessions -> Health \cup {None}]
         /\ unseen' \in [Sessions -> BOOLEAN]
         /\ stopped' \subseteq Sessions
BY DEF SessionType, Stop, SetHealth, Health

LEMMA ConnectKeepsType ==
  ASSUME TypeOK, NEW c \in Connects, Start(c) \/ Connecting(c)
  PROVE  TypeOK'
<1>1. CASE Start(c)
  <2>1. op' \in [Connects -> ConnectCall]
    BY <1>1, RegistryAssumption, TypeParts
       DEF Start, CallType, ConnectCall, SessionType, Steps
  <2>2. SessionType' /\ StoreType'
    BY <1>1, TypeParts
       DEF Start, Sessions, Health, SessionType, StoreType, sessionVars,
           storeVars
  <2>4. CallType'
    BY <1>1, <2>1, TypeParts DEF Start, CallType
  <2>5. QED
    BY <2>4, <2>2, TypePartsNext
<1>2. CASE ReuseSession(c)
  <2>1. op' \in [Connects -> ConnectCall]
    BY <1>2, ReturnType, TypeParts DEF ReuseSession
  <2>2. SessionType' /\ StoreType'
    BY <1>2, TypeParts
       DEF ReuseSession, Sessions, Health, SessionType, StoreType, sessionVars,
           storeVars
  <2>4. CallType'
    BY <1>2, <2>1, TypeParts DEF ReuseSession, CallType
  <2>5. QED
    BY <2>4, <2>2, TypePartsNext
<1>3. CASE PastCheck(c)
  <2>1. op' \in [Connects -> ConnectCall]
    BY <1>3, GoToType, TypeParts DEF PastCheck, Steps
  <2>2. SessionType' /\ StoreType'
    BY <1>3, TypeParts
       DEF PastCheck, Sessions, Health, SessionType, StoreType, sessionVars,
           storeVars
  <2>4. CallType'
    BY <1>3, <2>1, TypeParts DEF PastCheck, CallType
  <2>5. QED
    BY <2>4, <2>2, TypePartsNext
<1>4. CASE FailCheck(c)
  <2>1. op' \in [Connects -> ConnectCall]
    BY <1>4, GoToType, ReturnType, TypeParts DEF FailCheck, Steps
  <2>2. SessionType' /\ StoreType'
    BY <1>4, TypeParts
       DEF FailCheck, Sessions, Health, SessionType, StoreType, sessionVars,
           storeVars
  <2>4. CallType'
    BY <1>4, <2>1, TypeParts DEF FailCheck, CallType
  <2>5. QED
    BY <2>4, <2>2, TypePartsNext
<1>5. CASE Announce(c)
  <2>1. op' \in [Connects -> ConnectCall]
    BY <1>5, GoToType, TypeParts DEF Announce, Steps
  <2>2. SessionType' /\ StoreType'
    BY <1>5, TypeParts
       DEF Announce, UpsertServer, Sessions, Health, SessionType, StoreType,
           sessionVars, storeVars
  <2>4. CallType'
    BY <1>5, <2>1, TypeParts DEF Announce, CallType
  <2>5. QED
    BY <2>4, <2>2, TypePartsNext
<1>6. CASE ShowProgress(c)
  <2>1. op' \in [Connects -> ConnectCall]
    BY <1>6, GoToType, TypeParts DEF ShowProgress, Steps
  <2>2. SessionType' /\ StoreType'
    BY <1>6, TypeParts
       DEF ShowProgress, UpdateProgress, Sessions, Health, SessionType,
           StoreType, sessionVars, storeVars
  <2>4. CallType'
    BY <1>6, <2>1, TypeParts DEF ShowProgress, CallType
  <2>5. QED
    BY <2>4, <2>2, TypePartsNext
<1>7. CASE Take(c)
  <2>1. op' \in [Connects -> ConnectCall]
    BY <1>7, RegistryAssumption, TypeParts
       DEF Take, CallType, ConnectCall, SessionType, Steps
  <2>2. SessionType' /\ StoreType'
    BY <1>7, TypeParts
       DEF Take, Sessions, Health, SessionType, StoreType, sessionVars,
           storeVars
  <2>4. CallType'
    BY <1>7, <2>1, TypeParts DEF Take, CallType
  <2>5. QED
    BY <2>4, <2>2, TypePartsNext
<1>8. CASE Drop(c)
  <2>1. op' \in [Connects -> ConnectCall]
    BY <1>8, RegistryAssumption, TypeParts
       DEF Drop, CallType, ConnectCall, SessionType, Steps
  <2>2. op[c].old \in Sessions \cup {None}
    BY TypeParts DEF CallType, ConnectCall
  <2>3. SessionType' /\ StoreType'
    BY <1>8, <2>2, StopType, TypeParts
       DEF Drop, SessionType, StoreType, sessionVars, storeVars
  <2>4. CallType'
    BY <1>8, <2>1, TypeParts DEF Drop, CallType
  <2>5. QED
    BY <2>4, <2>3, TypePartsNext
<1>9. CASE DialOk(c)
  <2>1. op' \in [Connects -> ConnectCall]
    BY <1>9, GoToType, TypeParts DEF DialOk, Steps
  <2>2. SessionType' /\ StoreType'
    BY <1>9, TypeParts
       DEF DialOk, Sessions, Health, SessionType, StoreType, sessionVars,
           storeVars
  <2>4. CallType'
    BY <1>9, <2>1, TypeParts DEF DialOk, CallType
  <2>5. QED
    BY <2>4, <2>2, TypePartsNext
<1>10. CASE DialFails(c)
  <2>1. op' \in [Connects -> ConnectCall]
    BY <1>10, GoToType, ReturnType, TypeParts DEF DialFails, Steps
  <2>2. SessionType' /\ StoreType'
    BY <1>10, TypeParts
       DEF DialFails, Sessions, Health, SessionType, StoreType, sessionVars,
           storeVars
  <2>4. CallType'
    BY <1>10, <2>1, TypeParts DEF DialFails, CallType
  <2>5. QED
    BY <2>4, <2>2, TypePartsNext
<1>11. CASE ShowFailure(c)
  <2>1. op' \in [Connects -> ConnectCall]
    BY <1>11, GoToType, ReturnType, TypeParts DEF ShowFailure, Steps
  <2>2. SessionType' /\ StoreType'
    BY <1>11, TypeParts
       DEF ShowFailure, UpdateServerHealth, Sessions, Health, SessionType,
           StoreType, sessionVars, storeVars
  <2>4. CallType'
    BY <1>11, <2>1, TypeParts DEF ShowFailure, CallType
  <2>5. QED
    BY <2>4, <2>2, TypePartsNext
<1>12. CASE Attach(c)
  <2>1. op' \in [Connects -> ConnectCall]
    BY <1>12, GoToType, TypeParts DEF Attach, Steps
  <2>2. SessionType' /\ StoreType'
    BY <1>12, TypeParts
       DEF Attach, UpsertServer, Sessions, Health, SessionType, StoreType,
           sessionVars, storeVars
  <2>4. CallType'
    BY <1>12, <2>1, TypeParts DEF Attach, CallType
  <2>5. QED
    BY <2>4, <2>2, TypePartsNext
<1>13. CASE Insert(c)
  <2>1. op' \in [Connects -> ConnectCall]
    BY <1>13, GoToType, ReturnType, TypeParts DEF Insert, Steps
  <2>2. SessionType' /\ StoreType'
    BY <1>13, TypeParts
       DEF Insert, Sessions, Health, SessionType, StoreType, sessionVars,
           storeVars
  <2>4. CallType'
    BY <1>13, <2>1, TypeParts DEF Insert, CallType
  <2>5. QED
    BY <2>4, <2>2, TypePartsNext
<1>14. CASE ClearProgress(c)
  <2>1. op' \in [Connects -> ConnectCall]
    BY <1>14, ReturnType, TypeParts DEF ClearProgress
  <2>2. SessionType' /\ StoreType'
    BY <1>14, TypeParts
       DEF ClearProgress, UpdateProgress, Sessions, Health, SessionType,
           StoreType, sessionVars, storeVars
  <2>4. CallType'
    BY <1>14, <2>1, TypeParts DEF ClearProgress, CallType
  <2>5. QED
    BY <2>4, <2>2, TypePartsNext
<1>15. QED
  BY <1>1, <1>2, <1>3, <1>4, <1>5, <1>6, <1>7, <1>8, <1>9, <1>10, <1>11, <1>12,
     <1>13, <1>14
     DEF Connecting

LEMMA DisconnectKeepsType ==
  ASSUME TypeOK, NEW d \in Disconnects, RemoveSession(d) \/ Disconnecting(d)
  PROVE  TypeOK'
<1>1. CASE RemoveSession(d)
  <2>1. SessionType' /\ StoreType'
    BY <1>1, TypeParts
       DEF RemoveSession, Sessions, Health, SessionType, StoreType, sessionVars,
           storeVars
  <2>2. CallType'
    BY <1>1, TypeParts DEF RemoveSession, CallType, SessionType
  <2>3. QED
    BY <2>1, <2>2, TypePartsNext
<1>2. CASE RemoveRecord(d)
  <2>1. SessionType' /\ StoreType'
    BY <1>2, TypeParts
       DEF RemoveRecord, RemoveServer, Sessions, Health, SessionType, StoreType,
           sessionVars, storeVars
  <2>2. CallType'
    BY <1>2, TypeParts DEF RemoveRecord, RemoveServer, CallType, SessionType
  <2>3. QED
    BY <2>1, <2>2, TypePartsNext
<1>3. CASE StopRemoved(d)
  <2>1. disc[d].old \in Sessions \cup {None}
    BY TypeParts DEF CallType
  <2>2. SessionType' /\ StoreType'
    BY <1>3, <2>1, StopType, TypeParts
       DEF StopRemoved, SessionType, StoreType, sessionVars, storeVars
  <2>3. CallType'
    BY <1>3, TypeParts DEF StopRemoved, CallType
  <2>4. QED
    BY <2>2, <2>3, TypePartsNext
<1>4. QED
  BY <1>1, <1>2, <1>3 DEF Disconnecting

LEMMA RequestKeepsType ==
  ASSUME TypeOK, NEW q \in Requests, GetSession(q) \/ Asked(q) \/ MarkDisconnected(q)
  PROVE  TypeOK'
<1>1. CASE GetSession(q)
  <2>1. SessionType' /\ StoreType'
    BY <1>1, TypeParts
       DEF GetSession, Sessions, Health, SessionType, StoreType, sessionVars,
           storeVars
  <2>2. CallType'
    BY <1>1, TypeParts DEF GetSession, CallType, SessionType
  <2>3. QED
    BY <2>1, <2>2, TypePartsNext
<1>2. CASE Asked(q)
  <2>1. SessionType' /\ StoreType'
    BY <1>2, TypeParts
       DEF Asked, Answered, Sessions, Health, SessionType, StoreType,
           sessionVars, storeVars
  <2>2. CallType'
    BY <1>2, TypeParts DEF Asked, Answered, CallType, SessionType
  <2>3. QED
    BY <2>1, <2>2, TypePartsNext
<1>3. CASE MarkDisconnected(q)
  <2>1. SessionType' /\ StoreType'
    BY <1>3, TypeParts
       DEF MarkDisconnected, Answered, UpdateServerHealth, Sessions, Health,
           SessionType, StoreType, sessionVars, storeVars
  <2>2. CallType'
    BY <1>3, TypeParts
       DEF MarkDisconnected, Answered, UpdateServerHealth, CallType, SessionType
  <2>3. QED
    BY <2>1, <2>2, TypePartsNext
<1>4. QED
  BY <1>1, <1>2, <1>3

LEMMA SessionKeepsType ==
  ASSUME TypeOK, Opened, NEW s \in Sessions, Lose(s) \/ EndReconnect(s) \/ Reading(s)
  PROVE  TypeOK'
<1>1. CASE Lose(s)
  <2>1. SessionType' /\ StoreType'
    BY <1>1, TypeParts, RegistryAssumption
       DEF Lose, SetHealth, Sessions, Health, SessionType, StoreType,
           sessionVars, storeVars
  <2>2. CallType'
    BY <1>1, TypeParts DEF Lose, SetHealth, CallType, SessionType
  <2>3. QED
    BY <2>1, <2>2, TypePartsNext
<1>2. CASE EndReconnect(s)
  <2>1. SessionType' /\ StoreType'
    BY <1>2, TypeParts
       DEF EndReconnect, SetHealth, Sessions, Health, SessionType, StoreType,
           sessionVars, storeVars
  <2>2. CallType'
    BY <1>2, TypeParts DEF EndReconnect, SetHealth, CallType, SessionType
  <2>3. QED
    BY <2>1, <2>2, TypePartsNext
<1>3. CASE Look(s)
  <2>1. SessionType' /\ StoreType'
    BY <1>3, TypeParts
       DEF Look, Sessions, Health, SessionType, StoreType, sessionVars,
           storeVars
  <2>2. CallType'
    BY <1>3, TypeParts DEF Look, CallType, SessionType
  <2>3. QED
    BY <2>1, <2>2, TypePartsNext
<1>4. CASE SayConnecting(s)
  <2>1. SessionType' /\ StoreType'
    BY <1>4, TypeParts
       DEF SayConnecting, Emit, Sessions, Health, SessionType, StoreType,
           sessionVars, storeVars
  <2>2. CallType'
    BY <1>4, TypeParts DEF SayConnecting, Emit, CallType, SessionType
  <2>3. QED
    BY <2>1, <2>2, TypePartsNext
<1>5. CASE Tell(s)
  <2>1. SessionType' /\ StoreType'
    BY <1>5, TypeParts
       DEF Tell, Emit, Sessions, Health, SessionType, StoreType, sessionVars,
           storeVars, Opened
  <2>2. CallType'
    BY <1>5, TypeParts DEF Tell, Emit, CallType, SessionType
  <2>3. QED
    BY <2>1, <2>2, TypePartsNext
<1>6. CASE Wake(s)
  <2>1. SessionType' /\ StoreType'
    BY <1>6, TypeParts
       DEF Wake, Sessions, Health, SessionType, StoreType, sessionVars,
           storeVars
  <2>2. CallType'
    BY <1>6, TypeParts DEF Wake, CallType, SessionType
  <2>3. QED
    BY <2>1, <2>2, TypePartsNext
<1>7. QED
  BY <1>1, <1>2, <1>3, <1>4, <1>5, <1>6 DEF Reading

LEMMA ConnectKeepsOpened ==
  ASSUME TypeOK, Opened, NEW c \in Connects, Start(c) \/ Connecting(c)
  PROVE  Opened'
<1>1. CASE Start(c)
  BY <1>1, RegistryAssumption
     DEF Start, TypeOK, Opened, Sessions, Health, sessionVars, storeVars
<1>2. CASE ReuseSession(c)
  BY <1>2, RegistryAssumption
     DEF ReuseSession, At, Return, TypeOK, Opened, Sessions, Health,
         sessionVars, storeVars
<1>3. CASE PastCheck(c)
  BY <1>3, RegistryAssumption
     DEF PastCheck, At, GoTo, TypeOK, Opened, Sessions, Health, sessionVars,
         storeVars
<1>4. CASE FailCheck(c)
  BY <1>4, RegistryAssumption
     DEF FailCheck, At, GoTo, Return, TypeOK, Opened, Sessions, Health,
         sessionVars, storeVars
<1>5. CASE Announce(c)
  BY <1>5, RegistryAssumption
     DEF Announce, At, GoTo, UpsertServer, TypeOK, Opened, Sessions, Health,
         sessionVars, storeVars
<1>6. CASE ShowProgress(c)
  BY <1>6, RegistryAssumption
     DEF ShowProgress, At, GoTo, UpdateProgress, TypeOK, Opened, Sessions,
         Health, sessionVars, storeVars
<1>7. CASE Take(c)
  BY <1>7, RegistryAssumption
     DEF Take, At, TypeOK, Opened, Sessions, Health, sessionVars, storeVars
<1>8. CASE Drop(c)
  BY <1>8, RegistryAssumption
     DEF Drop, At, Stop, SetHealth, TypeOK, Opened, Sessions, Health,
         sessionVars, storeVars
<1>9. CASE DialOk(c)
  BY <1>9, RegistryAssumption
     DEF DialOk, At, GoTo, TypeOK, Opened, Sessions, Health, sessionVars,
         storeVars
<1>10. CASE DialFails(c)
  BY <1>10, RegistryAssumption
     DEF DialFails, At, GoTo, Return, TypeOK, Opened, Sessions, Health,
         sessionVars, storeVars
<1>11. CASE ShowFailure(c)
  BY <1>11, RegistryAssumption
     DEF ShowFailure, At, GoTo, Return, UpdateServerHealth, TypeOK, Opened,
         Sessions, Health, sessionVars, storeVars
<1>12. CASE Attach(c)
  BY <1>12, RegistryAssumption
     DEF Attach, At, GoTo, UpsertServer, TypeOK, Opened, Sessions, Health,
         sessionVars, storeVars
<1>13. CASE Insert(c)
  BY <1>13, RegistryAssumption
     DEF Insert, At, GoTo, Return, TypeOK, Opened, Sessions, Health,
         sessionVars, storeVars
<1>14. CASE ClearProgress(c)
  BY <1>14, RegistryAssumption
     DEF ClearProgress, At, Return, UpdateProgress, TypeOK, Opened, Sessions,
         Health, sessionVars, storeVars
<1>15. QED
  BY <1>1, <1>2, <1>3, <1>4, <1>5, <1>6, <1>7, <1>8, <1>9, <1>10, <1>11, <1>12,
     <1>13, <1>14
     DEF Connecting

LEMMA DisconnectKeepsOpened ==
  ASSUME TypeOK, Opened, NEW d \in Disconnects, RemoveSession(d) \/ Disconnecting(d)
  PROVE  Opened'
<1>1. CASE RemoveSession(d)
  BY <1>1, RegistryAssumption
     DEF RemoveSession, TypeOK, Opened, Sessions, Health, sessionVars, storeVars
<1>2. CASE RemoveRecord(d)
  BY <1>2, RegistryAssumption
     DEF RemoveRecord, RemoveServer, TypeOK, Opened, Sessions, Health,
         sessionVars, storeVars
<1>3. CASE StopRemoved(d)
  BY <1>3, RegistryAssumption
     DEF StopRemoved, Stop, SetHealth, TypeOK, Opened, Sessions, Health,
         sessionVars, storeVars
<1>4. QED
  BY <1>1, <1>2, <1>3 DEF Disconnecting

LEMMA SessionKeepsOpened ==
  ASSUME TypeOK, Opened, NEW s \in Sessions, Lose(s) \/ EndReconnect(s) \/ Reading(s)
  PROVE  Opened'
<1>1. CASE Lose(s)
  BY <1>1, RegistryAssumption
     DEF Lose, SetHealth, TypeOK, Opened, Sessions, Health, sessionVars,
         storeVars
<1>2. CASE EndReconnect(s)
  BY <1>2, RegistryAssumption
     DEF EndReconnect, SetHealth, TypeOK, Opened, Sessions, Health, sessionVars,
         storeVars
<1>3. CASE Look(s)
  BY <1>3, RegistryAssumption
     DEF Look, TypeOK, Opened, Sessions, Health, sessionVars, storeVars
<1>4. CASE SayConnecting(s)
  BY <1>4, RegistryAssumption
     DEF SayConnecting, Emit, TypeOK, Opened, Sessions, Health, sessionVars,
         storeVars
<1>5. CASE Tell(s)
  BY <1>5, RegistryAssumption
     DEF Tell, Emit, TypeOK, Opened, Sessions, Health, sessionVars, storeVars
<1>6. CASE Wake(s)
  BY <1>6, RegistryAssumption
     DEF Wake, TypeOK, Opened, Sessions, Health, sessionVars, storeVars
<1>7. QED
  BY <1>1, <1>2, <1>3, <1>4, <1>5, <1>6 DEF Reading

LEMMA TypeInductive == TypeOK /\ Opened /\ [Next]_vars => (TypeOK /\ Opened)'
<1>1. ASSUME TypeOK, Opened, Next PROVE (TypeOK /\ Opened)'
  <2>1. CASE ConnectionStateChanged
    BY <1>1, <2>1 DEF ConnectionStateChanged, TypeOK, Opened, Health, sessionVars
  <2>2. CASE \E q \in Requests : GetSession(q) \/ Asked(q) \/ MarkDisconnected(q)
    BY <1>1, <2>2, RequestKeepsType
       DEF Opened, GetSession, Asked, MarkDisconnected, sessionVars
  <2>3. QED
    BY <1>1, <2>1, <2>2, ConnectKeepsType, DisconnectKeepsType, SessionKeepsType,
       ConnectKeepsOpened, DisconnectKeepsOpened, SessionKeepsOpened DEF Next
<1>2. ASSUME TypeOK, Opened, UNCHANGED vars PROVE (TypeOK /\ Opened)'
  BY <1>2 DEF TypeOK, Opened, vars, sessionVars, storeVars
<1>3. QED
  BY <1>1, <1>2

LEMMA InitType == Init => TypeOK /\ Opened
<1>1. ASSUME Init PROVE CallType
  BY <1>1 DEF Init, CallType, ConnectCall, Steps
<1>2. ASSUME Init PROVE SessionType
  <2>1. drops \in 0 .. MaxDrops
    BY <1>2, RegistryAssumption DEF Init
  <2>2. QED
    BY <1>2, <2>1 DEF Init, SessionType
<1>5. ASSUME Init PROVE StoreType
  <2>1. updates = <<>> /\ record = None /\ progress = FALSE /\ overlap = {} /\ astray = FALSE
    BY <1>5 DEF Init
  <2>2. updates \in Seq(Health)
    BY <2>1
  <2>3. QED
    BY <2>1, <2>2 DEF StoreType
<1>3. ASSUME Init PROVE Opened
  BY <1>3 DEF Init, Opened, Sessions
<1>4. QED
  BY <1>1, <1>2, <1>3, <1>5, TypeParts

\* In every behaviour of the registry the variables keep their types.
THEOREM TypeCorrect == Spec => []TypeOK
<1>1. Spec => [](TypeOK /\ Opened)
  BY InitType, TypeInductive, PTL DEF Spec
<1>2. QED
  BY <1>1, PTL

-----------------------------------------------------------------------------
(* The session in the map, and no session forgotten.                       *)

\* The call that opens s has yet to put it in the map.
Unopened(s) == op[s].pc \notin {"clear", "done"}

\* Whoever holds a replaced or removed session has it to itself.
HeldInv ==
  /\ \A c \in Connects : op[c].old # None =>
       /\ op[c].old # current /\ ~Unopened(op[c].old) /\ op[c].pc = "drop"
  /\ \A d \in Disconnects : disc[d].old # None =>
       /\ disc[d].old # current /\ ~Unopened(disc[d].old)
       /\ disc[d].pc \in {"removed", "stopping"}

MapInv ==
  /\ current # None => ~Unopened(current)
  /\ \A s \in stopped : ~Unopened(s)
  /\ CurrentIsNotStopped
  /\ CurrentIsRead

\* Without overlap, a connect past its replacement finds the map empty.
AloneInv == "connect" \notin overlap =>
  /\ \A a, b \in Connects : InProgress(op[a]) /\ InProgress(op[b]) => a = b
  /\ \A c \in Connects : op[c].pc \in {"drop", "dial", "attach", "insert"} => current = None

RecordInv == "disconnect" \notin overlap =>
  /\ \A d \in Disconnects : disc[d].pc = "removed" =>
       /\ current = None
       /\ \A c \in Connects : ~InProgress(op[c])
  /\ \A c \in Connects : op[c].pc = "insert" => record # None
  /\ SessionIsShown

RegistryInv == HeldInv /\ MapInv /\ AloneInv /\ NoOrphan /\ RecordInv

\* A step of a connect that ends it, or comes before its replacement, or fails.
EarlyStep(c) ==
  /\ op[c].pc \notin {"idle", "drop", "attach", "insert", "clear", "done"}
  /\ op'[c].pc \notin {"idle", "drop", "dial", "attach", "insert"}
  /\ op'[c].old \in {op[c].old, None}
  /\ \A o \in Connects \ {c} : op'[o] = op[o]
  /\ UNCHANGED <<current, health, unseen, stopped, disc, reader, overlap>>
  /\ record # None => record' # None

LEMMA EarlySteps ==
  ASSUME TypeOK, NEW c \in Connects, ReuseSession(c) \/ PastCheck(c) \/ FailCheck(c) \/ Announce(c)
           \/ ShowProgress(c) \/ DialFails(c) \/ ShowFailure(c)
  PROVE  EarlyStep(c)
<1>1. CASE ReuseSession(c)
  BY <1>1
     DEF ReuseSession, At, Return, EarlyStep, TypeOK, None, sessionVars,
         storeVars
<1>2. CASE PastCheck(c)
  BY <1>2 DEF PastCheck, At, GoTo, EarlyStep, TypeOK, None, sessionVars, storeVars
<1>3. CASE FailCheck(c)
  BY <1>3
     DEF FailCheck, At, GoTo, Return, EarlyStep, TypeOK, None, sessionVars,
         storeVars
<1>4. CASE Announce(c)
  BY <1>4
     DEF Announce, At, GoTo, UpsertServer, EarlyStep, TypeOK, None, sessionVars,
         storeVars
<1>5. CASE ShowProgress(c)
  BY <1>5
     DEF ShowProgress, At, GoTo, UpdateProgress, EarlyStep, TypeOK, None,
         sessionVars, storeVars
<1>6. CASE DialFails(c)
  BY <1>6
     DEF DialFails, At, GoTo, Return, EarlyStep, TypeOK, None, sessionVars,
         storeVars
<1>7. CASE ShowFailure(c)
  BY <1>7
     DEF ShowFailure, At, GoTo, Return, UpdateServerHealth, EarlyStep, TypeOK,
         None, sessionVars, storeVars
<1>8. QED
  BY <1>1, <1>2, <1>3, <1>4, <1>5, <1>6, <1>7

LEMMA InsertStep ==
  ASSUME TypeOK, NEW c \in Connects, Insert(c)
  PROVE  /\ op[c].pc = "insert" /\ op'[c].pc \in {"clear", "done"}
         /\ op'[c].old \in {op[c].old, None}
         /\ \A o \in Connects \ {c} : op'[o] = op[o]
         /\ current' = c /\ reader' = [reader EXCEPT ![c] = "start"]
         /\ UNCHANGED <<health, stopped, record, disc, overlap>>
<1>1. CASE op[c].path = "ssh"
  BY <1>1 DEF Insert, At, GoTo, TypeOK, storeVars
<1>2. CASE op[c].path # "ssh"
  BY <1>2 DEF Insert, At, Return, TypeOK, storeVars
<1>3. QED
  BY <1>1, <1>2

LEMMA ConnectKeepsHeld ==
  ASSUME TypeOK, RegistryInv, NEW c \in Connects, Start(c) \/ Connecting(c)
  PROVE  HeldInv'
<1>1. CASE EarlyStep(c)
  <2>1. op[c].old = None /\ Unopened(c) /\ op'[c].old = None
    BY <1>1 DEF EarlyStep, RegistryInv, HeldInv, Unopened
  <2>2. \A s \in Sessions : ~Unopened(s) => ~Unopened(s)'
    BY <1>1, <2>1 DEF EarlyStep, Unopened, Sessions
  <2>3. QED
    BY <1>1, <2>1, <2>2 DEF EarlyStep, RegistryInv, HeldInv, TypeOK
<1>2. CASE Start(c)
  BY <1>2, RegistryAssumption
     DEF Start, TypeOK, Sessions, sessionVars, storeVars, RegistryInv, MapInv,
         HeldInv, Unopened
<1>3. CASE Take(c)
  BY <1>3, RegistryAssumption
     DEF Take, At, TypeOK, Sessions, sessionVars, storeVars, RegistryInv,
         MapInv, HeldInv, Unopened
<1>4. CASE Drop(c)
  BY <1>4, RegistryAssumption
     DEF Drop, At, Stop, SetHealth, TypeOK, Sessions, sessionVars, storeVars,
         RegistryInv, MapInv, HeldInv, Unopened
<1>5. CASE DialOk(c)
  BY <1>5, RegistryAssumption
     DEF DialOk, At, GoTo, TypeOK, Sessions, sessionVars, storeVars,
         RegistryInv, MapInv, HeldInv, Unopened
<1>6. CASE Attach(c)
  BY <1>6, RegistryAssumption
     DEF Attach, At, GoTo, UpsertServer, TypeOK, Sessions, sessionVars,
         storeVars, RegistryInv, MapInv, HeldInv, Unopened
<1>7. CASE Insert(c)
  <2>1. op[c].old = None /\ Unopened(c) /\ op'[c].old = None /\ ~Unopened(c)'
    BY <1>7, InsertStep DEF RegistryInv, HeldInv, Unopened
  <2>2. \A s \in Sessions : ~Unopened(s) => s # c /\ ~Unopened(s)'
    BY <1>7, <2>1, InsertStep DEF Unopened, Sessions
  <2>3. QED
    BY <1>7, <2>1, <2>2, InsertStep DEF RegistryInv, HeldInv, TypeOK
<1>8. CASE ClearProgress(c)
  BY <1>8, RegistryAssumption
     DEF ClearProgress, At, Return, UpdateProgress, TypeOK, Sessions,
         sessionVars, storeVars, RegistryInv, MapInv, HeldInv, Unopened
<1>9. QED
  BY <1>1, <1>2, <1>3, <1>4, <1>5, <1>6, <1>7, <1>8, EarlySteps DEF Connecting

LEMMA DisconnectKeepsHeld ==
  ASSUME TypeOK, RegistryInv, NEW d \in Disconnects, RemoveSession(d) \/ Disconnecting(d)
  PROVE  HeldInv'
<1>1. CASE RemoveSession(d)
  BY <1>1, RegistryAssumption
     DEF RemoveSession, TypeOK, Sessions, sessionVars, storeVars, RegistryInv,
         MapInv, HeldInv, Unopened
<1>2. CASE RemoveRecord(d)
  BY <1>2, RegistryAssumption
     DEF RemoveRecord, RemoveServer, TypeOK, Sessions, sessionVars, storeVars,
         RegistryInv, MapInv, HeldInv, Unopened
<1>3. CASE StopRemoved(d)
  BY <1>3, RegistryAssumption
     DEF StopRemoved, Stop, SetHealth, TypeOK, Sessions, sessionVars, storeVars,
         RegistryInv, MapInv, HeldInv, Unopened
<1>4. QED
  BY <1>1, <1>2, <1>3 DEF Disconnecting

LEMMA SessionKeepsHeld ==
  ASSUME TypeOK, RegistryInv, NEW s \in Sessions, Lose(s) \/ EndReconnect(s) \/ Reading(s)
  PROVE  HeldInv'
<1>1. CASE Lose(s)
  BY <1>1, RegistryAssumption
     DEF Lose, SetHealth, TypeOK, Sessions, sessionVars, storeVars, RegistryInv,
         MapInv, HeldInv, Unopened
<1>2. CASE EndReconnect(s)
  BY <1>2, RegistryAssumption
     DEF EndReconnect, SetHealth, TypeOK, Sessions, sessionVars, storeVars,
         RegistryInv, MapInv, HeldInv, Unopened
<1>3. CASE Look(s)
  BY <1>3, RegistryAssumption
     DEF Look, TypeOK, Sessions, sessionVars, storeVars, RegistryInv, MapInv,
         HeldInv, Unopened
<1>4. CASE SayConnecting(s)
  BY <1>4, RegistryAssumption
     DEF SayConnecting, Emit, TypeOK, Sessions, sessionVars, storeVars,
         RegistryInv, MapInv, HeldInv, Unopened
<1>5. CASE Tell(s)
  BY <1>5, RegistryAssumption
     DEF Tell, Emit, TypeOK, Sessions, sessionVars, storeVars, RegistryInv,
         MapInv, HeldInv, Unopened
<1>6. CASE Wake(s)
  BY <1>6, RegistryAssumption
     DEF Wake, TypeOK, Sessions, sessionVars, storeVars, RegistryInv, MapInv,
         HeldInv, Unopened
<1>7. QED
  BY <1>1, <1>2, <1>3, <1>4, <1>5, <1>6 DEF Reading

LEMMA ConnectKeepsMap ==
  ASSUME TypeOK, RegistryInv, NEW c \in Connects, Start(c) \/ Connecting(c)
  PROVE  MapInv'
<1>1. CASE EarlyStep(c)
  <2>1. \A s \in Sessions : ~Unopened(s) => ~Unopened(s)'
    BY <1>1 DEF EarlyStep, Unopened, Sessions
  <2>2. QED
    BY <1>1, <2>1, RegistryAssumption
       DEF EarlyStep, RegistryInv, MapInv, CurrentIsNotStopped, CurrentIsRead, TypeOK
<1>2. CASE Start(c)
  BY <1>2, RegistryAssumption
     DEF Start, TypeOK, Sessions, sessionVars, storeVars, RegistryInv, MapInv,
         HeldInv, Unopened, CurrentIsNotStopped, CurrentIsRead
<1>3. CASE Take(c)
  BY <1>3, RegistryAssumption
     DEF Take, At, TypeOK, Sessions, sessionVars, storeVars, RegistryInv,
         MapInv, HeldInv, Unopened, CurrentIsNotStopped, CurrentIsRead
<1>4. CASE Drop(c)
  BY <1>4, RegistryAssumption
     DEF Drop, At, Stop, SetHealth, TypeOK, Sessions, sessionVars, storeVars,
         RegistryInv, MapInv, HeldInv, Unopened, CurrentIsNotStopped,
         CurrentIsRead
<1>5. CASE DialOk(c)
  BY <1>5, RegistryAssumption
     DEF DialOk, At, GoTo, TypeOK, Sessions, sessionVars, storeVars,
         RegistryInv, MapInv, HeldInv, Unopened, CurrentIsNotStopped,
         CurrentIsRead
<1>6. CASE Attach(c)
  BY <1>6, RegistryAssumption
     DEF Attach, At, GoTo, UpsertServer, TypeOK, Sessions, sessionVars,
         storeVars, RegistryInv, MapInv, HeldInv, Unopened, CurrentIsNotStopped,
         CurrentIsRead
<1>7. CASE Insert(c)
  BY <1>7, InsertStep, RegistryAssumption
     DEF TypeOK, Sessions, RegistryInv, MapInv, HeldInv, Unopened,
         CurrentIsNotStopped, CurrentIsRead
<1>8. CASE ClearProgress(c)
  BY <1>8, RegistryAssumption
     DEF ClearProgress, At, Return, UpdateProgress, TypeOK, Sessions,
         sessionVars, storeVars, RegistryInv, MapInv, HeldInv, Unopened,
         CurrentIsNotStopped, CurrentIsRead
<1>9. QED
  BY <1>1, <1>2, <1>3, <1>4, <1>5, <1>6, <1>7, <1>8, EarlySteps DEF Connecting

LEMMA DisconnectKeepsMap ==
  ASSUME TypeOK, RegistryInv, NEW d \in Disconnects, RemoveSession(d) \/ Disconnecting(d)
  PROVE  MapInv'
<1>1. CASE RemoveSession(d)
  BY <1>1, RegistryAssumption
     DEF RemoveSession, TypeOK, Sessions, sessionVars, storeVars, RegistryInv,
         MapInv, HeldInv, Unopened, CurrentIsNotStopped, CurrentIsRead
<1>2. CASE RemoveRecord(d)
  BY <1>2, RegistryAssumption
     DEF RemoveRecord, RemoveServer, TypeOK, Sessions, sessionVars, storeVars,
         RegistryInv, MapInv, HeldInv, Unopened, CurrentIsNotStopped,
         CurrentIsRead
<1>3. CASE StopRemoved(d)
  BY <1>3, RegistryAssumption
     DEF StopRemoved, Stop, SetHealth, TypeOK, Sessions, sessionVars, storeVars,
         RegistryInv, MapInv, HeldInv, Unopened, CurrentIsNotStopped,
         CurrentIsRead
<1>4. QED
  BY <1>1, <1>2, <1>3 DEF Disconnecting

LEMMA SessionKeepsMap ==
  ASSUME TypeOK, RegistryInv, NEW s \in Sessions, Lose(s) \/ EndReconnect(s) \/ Reading(s)
  PROVE  MapInv'
<1>1. CASE Lose(s)
  BY <1>1, RegistryAssumption
     DEF Lose, SetHealth, TypeOK, Sessions, sessionVars, storeVars, RegistryInv,
         MapInv, HeldInv, Unopened, CurrentIsNotStopped, CurrentIsRead
<1>2. CASE EndReconnect(s)
  BY <1>2, RegistryAssumption
     DEF EndReconnect, SetHealth, TypeOK, Sessions, sessionVars, storeVars,
         RegistryInv, MapInv, HeldInv, Unopened, CurrentIsNotStopped,
         CurrentIsRead
<1>3. CASE Look(s)
  BY <1>3, RegistryAssumption
     DEF Look, TypeOK, Sessions, sessionVars, storeVars, RegistryInv, MapInv,
         HeldInv, Unopened, CurrentIsNotStopped, CurrentIsRead
<1>4. CASE SayConnecting(s)
  BY <1>4, RegistryAssumption
     DEF SayConnecting, Emit, TypeOK, Sessions, sessionVars, storeVars,
         RegistryInv, MapInv, HeldInv, Unopened, CurrentIsNotStopped,
         CurrentIsRead
<1>5. CASE Tell(s)
  BY <1>5, RegistryAssumption
     DEF Tell, Emit, TypeOK, Sessions, sessionVars, storeVars, RegistryInv,
         MapInv, HeldInv, Unopened, CurrentIsNotStopped, CurrentIsRead
<1>6. CASE Wake(s)
  BY <1>6, RegistryAssumption
     DEF Wake, TypeOK, Sessions, sessionVars, storeVars, RegistryInv, MapInv,
         HeldInv, Unopened, CurrentIsNotStopped, CurrentIsRead
<1>7. QED
  BY <1>1, <1>2, <1>3, <1>4, <1>5, <1>6 DEF Reading

LEMMA ConnectKeepsAlone ==
  ASSUME TypeOK, RegistryInv, NEW c \in Connects, Start(c) \/ Connecting(c)
  PROVE  AloneInv'
<1>1. CASE EarlyStep(c)
  BY <1>1, RegistryAssumption
     DEF EarlyStep, TypeOK, Sessions, RegistryInv, AloneInv, InProgress
<1>2. CASE Start(c)
  BY <1>2, RegistryAssumption
     DEF Start, TypeOK, Sessions, sessionVars, storeVars, RegistryInv, AloneInv,
         InProgress
<1>3. CASE Take(c)
  BY <1>3, RegistryAssumption
     DEF Take, At, TypeOK, Sessions, sessionVars, storeVars, RegistryInv,
         AloneInv, InProgress
<1>4. CASE Drop(c)
  BY <1>4, RegistryAssumption
     DEF Drop, At, Stop, SetHealth, TypeOK, Sessions, sessionVars, storeVars,
         RegistryInv, AloneInv, InProgress
<1>5. CASE DialOk(c)
  BY <1>5, RegistryAssumption
     DEF DialOk, At, GoTo, TypeOK, Sessions, sessionVars, storeVars,
         RegistryInv, AloneInv, InProgress
<1>6. CASE Attach(c)
  BY <1>6, RegistryAssumption
     DEF Attach, At, GoTo, UpsertServer, TypeOK, Sessions, sessionVars,
         storeVars, RegistryInv, AloneInv, InProgress
<1>7. CASE Insert(c)
  BY <1>7, InsertStep, RegistryAssumption
     DEF TypeOK, Sessions, RegistryInv, AloneInv, InProgress
<1>8. CASE ClearProgress(c)
  BY <1>8, RegistryAssumption
     DEF ClearProgress, At, Return, UpdateProgress, TypeOK, Sessions,
         sessionVars, storeVars, RegistryInv, AloneInv, InProgress
<1>9. QED
  BY <1>1, <1>2, <1>3, <1>4, <1>5, <1>6, <1>7, <1>8, EarlySteps DEF Connecting

LEMMA DisconnectKeepsAlone ==
  ASSUME TypeOK, RegistryInv, NEW d \in Disconnects, RemoveSession(d) \/ Disconnecting(d)
  PROVE  AloneInv'
<1>1. CASE RemoveSession(d)
  BY <1>1, RegistryAssumption
     DEF RemoveSession, TypeOK, Sessions, sessionVars, storeVars, RegistryInv,
         AloneInv, InProgress
<1>2. CASE RemoveRecord(d)
  BY <1>2, RegistryAssumption
     DEF RemoveRecord, RemoveServer, TypeOK, Sessions, sessionVars, storeVars,
         RegistryInv, AloneInv, InProgress
<1>3. CASE StopRemoved(d)
  BY <1>3, RegistryAssumption
     DEF StopRemoved, Stop, SetHealth, TypeOK, Sessions, sessionVars, storeVars,
         RegistryInv, AloneInv, InProgress
<1>4. QED
  BY <1>1, <1>2, <1>3 DEF Disconnecting

LEMMA SessionKeepsAlone ==
  ASSUME TypeOK, RegistryInv, NEW s \in Sessions, Lose(s) \/ EndReconnect(s) \/ Reading(s)
  PROVE  AloneInv'
<1>1. CASE Lose(s)
  BY <1>1, RegistryAssumption
     DEF Lose, SetHealth, TypeOK, Sessions, sessionVars, storeVars, RegistryInv,
         AloneInv, InProgress
<1>2. CASE EndReconnect(s)
  BY <1>2, RegistryAssumption
     DEF EndReconnect, SetHealth, TypeOK, Sessions, sessionVars, storeVars,
         RegistryInv, AloneInv, InProgress
<1>3. CASE Look(s)
  BY <1>3, RegistryAssumption
     DEF Look, TypeOK, Sessions, sessionVars, storeVars, RegistryInv, AloneInv,
         InProgress
<1>4. CASE SayConnecting(s)
  BY <1>4, RegistryAssumption
     DEF SayConnecting, Emit, TypeOK, Sessions, sessionVars, storeVars,
         RegistryInv, AloneInv, InProgress
<1>5. CASE Tell(s)
  BY <1>5, RegistryAssumption
     DEF Tell, Emit, TypeOK, Sessions, sessionVars, storeVars, RegistryInv,
         AloneInv, InProgress
<1>6. CASE Wake(s)
  BY <1>6, RegistryAssumption
     DEF Wake, TypeOK, Sessions, sessionVars, storeVars, RegistryInv, AloneInv,
         InProgress
<1>7. QED
  BY <1>1, <1>2, <1>3, <1>4, <1>5, <1>6 DEF Reading

LEMMA ConnectKeepsNoOrphan ==
  ASSUME TypeOK, RegistryInv, NEW c \in Connects, Start(c) \/ Connecting(c)
  PROVE  NoOrphan'
<1>1. CASE EarlyStep(c)
  BY <1>1, RegistryAssumption
     DEF EarlyStep, TypeOK, Sessions, RegistryInv, AloneInv, HeldInv, NoOrphan,
         InHand, InProgress
<1>2. CASE Start(c)
  BY <1>2, RegistryAssumption
     DEF Start, TypeOK, Sessions, sessionVars, storeVars, RegistryInv, AloneInv,
         HeldInv, NoOrphan, InHand, InProgress
<1>3. CASE Take(c)
  BY <1>3, RegistryAssumption
     DEF Take, At, TypeOK, Sessions, sessionVars, storeVars, RegistryInv,
         AloneInv, HeldInv, NoOrphan, InHand, InProgress
<1>4. CASE Drop(c)
  BY <1>4, RegistryAssumption
     DEF Drop, At, Stop, SetHealth, TypeOK, Sessions, sessionVars, storeVars,
         RegistryInv, AloneInv, HeldInv, NoOrphan, InHand, InProgress
<1>5. CASE DialOk(c)
  BY <1>5, RegistryAssumption
     DEF DialOk, At, GoTo, TypeOK, Sessions, sessionVars, storeVars,
         RegistryInv, AloneInv, HeldInv, NoOrphan, InHand, InProgress
<1>6. CASE Attach(c)
  BY <1>6, RegistryAssumption
     DEF Attach, At, GoTo, UpsertServer, TypeOK, Sessions, sessionVars,
         storeVars, RegistryInv, AloneInv, HeldInv, NoOrphan, InHand, InProgress
<1>7. CASE Insert(c)
  <2>1. ASSUME "connect" \notin overlap PROVE current = None
    BY <1>7, <2>1, InsertStep DEF RegistryInv, AloneInv
  <2>2. op[c].old = None
    BY <1>7, InsertStep DEF RegistryInv, HeldInv
  <2>3. \A s \in Sessions \ {c} : InHand(s) => InHand(s)'
    BY <1>7, <2>2, InsertStep, RegistryAssumption DEF InHand, Sessions
  <2>4. QED
    BY <1>7, <2>1, <2>3, InsertStep, RegistryAssumption
       DEF RegistryInv, NoOrphan, Sessions
<1>8. CASE ClearProgress(c)
  BY <1>8, RegistryAssumption
     DEF ClearProgress, At, Return, UpdateProgress, TypeOK, Sessions,
         sessionVars, storeVars, RegistryInv, AloneInv, HeldInv, NoOrphan,
         InHand, InProgress
<1>9. QED
  BY <1>1, <1>2, <1>3, <1>4, <1>5, <1>6, <1>7, <1>8, EarlySteps DEF Connecting

LEMMA DisconnectKeepsNoOrphan ==
  ASSUME TypeOK, RegistryInv, NEW d \in Disconnects, RemoveSession(d) \/ Disconnecting(d)
  PROVE  NoOrphan'
<1>1. CASE RemoveSession(d)
  BY <1>1, RegistryAssumption
     DEF RemoveSession, TypeOK, Sessions, sessionVars, storeVars, RegistryInv,
         AloneInv, HeldInv, NoOrphan, InHand, InProgress
<1>2. CASE RemoveRecord(d)
  BY <1>2, RegistryAssumption
     DEF RemoveRecord, RemoveServer, TypeOK, Sessions, sessionVars, storeVars,
         RegistryInv, AloneInv, HeldInv, NoOrphan, InHand, InProgress
<1>3. CASE StopRemoved(d)
  BY <1>3, RegistryAssumption
     DEF StopRemoved, Stop, SetHealth, TypeOK, Sessions, sessionVars, storeVars,
         RegistryInv, AloneInv, HeldInv, NoOrphan, InHand, InProgress
<1>4. QED
  BY <1>1, <1>2, <1>3 DEF Disconnecting

LEMMA SessionKeepsNoOrphan ==
  ASSUME TypeOK, RegistryInv, NEW s \in Sessions, Lose(s) \/ EndReconnect(s) \/ Reading(s)
  PROVE  NoOrphan'
<1>1. CASE Lose(s)
  <2>1. health[s] # None /\ UNCHANGED <<current, stopped, op, disc, overlap>>
    BY <1>1 DEF Lose, None, storeVars
  <2>2. \A t \in Sessions : health'[t] # None => health[t] # None
    BY <1>1, <2>1 DEF Lose, SetHealth, TypeOK
  <2>3. QED
    BY <2>1, <2>2 DEF RegistryInv, NoOrphan, InHand
<1>2. CASE EndReconnect(s)
  <2>1. health[s] # None /\ UNCHANGED <<current, stopped, op, disc, overlap>>
    BY <1>2 DEF EndReconnect, None, storeVars
  <2>2. \A t \in Sessions : health'[t] # None => health[t] # None
    BY <1>2, <2>1 DEF EndReconnect, SetHealth, TypeOK
  <2>3. QED
    BY <2>1, <2>2 DEF RegistryInv, NoOrphan, InHand
<1>3. CASE Look(s)
  BY <1>3, RegistryAssumption
     DEF Look, TypeOK, Sessions, sessionVars, storeVars, RegistryInv, AloneInv,
         HeldInv, NoOrphan, InHand, InProgress
<1>4. CASE SayConnecting(s)
  BY <1>4, RegistryAssumption
     DEF SayConnecting, Emit, TypeOK, Sessions, sessionVars, storeVars,
         RegistryInv, AloneInv, HeldInv, NoOrphan, InHand, InProgress
<1>5. CASE Tell(s)
  BY <1>5, RegistryAssumption
     DEF Tell, Emit, TypeOK, Sessions, sessionVars, storeVars, RegistryInv,
         AloneInv, HeldInv, NoOrphan, InHand, InProgress
<1>6. CASE Wake(s)
  BY <1>6, RegistryAssumption
     DEF Wake, TypeOK, Sessions, sessionVars, storeVars, RegistryInv, AloneInv,
         HeldInv, NoOrphan, InHand, InProgress
<1>7. QED
  BY <1>1, <1>2, <1>3, <1>4, <1>5, <1>6 DEF Reading

LEMMA ConnectKeepsRecord ==
  ASSUME TypeOK, RegistryInv, NEW c \in Connects, Start(c) \/ Connecting(c)
  PROVE  RecordInv'
<1>1. CASE EarlyStep(c)
  BY <1>1, RegistryAssumption
     DEF EarlyStep, TypeOK, Sessions, None, RegistryInv, RecordInv,
         SessionIsShown, InProgress
<1>2. CASE Start(c)
  BY <1>2, RegistryAssumption
     DEF Start, TypeOK, Sessions, sessionVars, storeVars, None, RegistryInv,
         RecordInv, SessionIsShown, InProgress
<1>3. CASE Take(c)
  BY <1>3, RegistryAssumption
     DEF Take, At, TypeOK, Sessions, sessionVars, storeVars, None, RegistryInv,
         RecordInv, SessionIsShown, InProgress
<1>4. CASE Drop(c)
  BY <1>4, RegistryAssumption
     DEF Drop, At, Stop, SetHealth, TypeOK, Sessions, sessionVars, storeVars,
         None, RegistryInv, RecordInv, SessionIsShown, InProgress
<1>5. CASE DialOk(c)
  BY <1>5, RegistryAssumption
     DEF DialOk, At, GoTo, TypeOK, Sessions, sessionVars, storeVars, None,
         RegistryInv, RecordInv, SessionIsShown, InProgress
<1>6. CASE Attach(c)
  BY <1>6, RegistryAssumption
     DEF Attach, At, GoTo, UpsertServer, TypeOK, Sessions, sessionVars,
         storeVars, None, RegistryInv, RecordInv, SessionIsShown, InProgress
<1>7. CASE Insert(c)
  BY <1>7, InsertStep, RegistryAssumption
     DEF TypeOK, Sessions, None, RegistryInv, RecordInv, SessionIsShown,
         InProgress
<1>8. CASE ClearProgress(c)
  BY <1>8, RegistryAssumption
     DEF ClearProgress, At, Return, UpdateProgress, TypeOK, Sessions,
         sessionVars, storeVars, None, RegistryInv, RecordInv, SessionIsShown,
         InProgress
<1>9. QED
  BY <1>1, <1>2, <1>3, <1>4, <1>5, <1>6, <1>7, <1>8, EarlySteps DEF Connecting

LEMMA DisconnectKeepsRecord ==
  ASSUME TypeOK, RegistryInv, NEW d \in Disconnects, RemoveSession(d) \/ Disconnecting(d)
  PROVE  RecordInv'
<1>1. CASE RemoveSession(d)
  BY <1>1, RegistryAssumption
     DEF RemoveSession, TypeOK, Sessions, sessionVars, storeVars, None,
         RegistryInv, RecordInv, SessionIsShown, InProgress
<1>2. CASE RemoveRecord(d)
  BY <1>2, RegistryAssumption
     DEF RemoveRecord, RemoveServer, TypeOK, Sessions, sessionVars, storeVars,
         None, RegistryInv, RecordInv, SessionIsShown, InProgress
<1>3. CASE StopRemoved(d)
  BY <1>3, RegistryAssumption
     DEF StopRemoved, Stop, SetHealth, TypeOK, Sessions, sessionVars, storeVars,
         None, RegistryInv, RecordInv, SessionIsShown, InProgress
<1>4. QED
  BY <1>1, <1>2, <1>3 DEF Disconnecting

LEMMA SessionKeepsRecord ==
  ASSUME TypeOK, RegistryInv, NEW s \in Sessions, Lose(s) \/ EndReconnect(s) \/ Reading(s)
  PROVE  RecordInv'
<1>1. CASE Lose(s)
  BY <1>1, RegistryAssumption
     DEF Lose, SetHealth, TypeOK, Sessions, sessionVars, storeVars, None,
         RegistryInv, RecordInv, SessionIsShown, InProgress
<1>2. CASE EndReconnect(s)
  BY <1>2, RegistryAssumption
     DEF EndReconnect, SetHealth, TypeOK, Sessions, sessionVars, storeVars,
         None, RegistryInv, RecordInv, SessionIsShown, InProgress
<1>3. CASE Look(s)
  BY <1>3, RegistryAssumption
     DEF Look, TypeOK, Sessions, sessionVars, storeVars, None, RegistryInv,
         RecordInv, SessionIsShown, InProgress
<1>4. CASE SayConnecting(s)
  BY <1>4, RegistryAssumption
     DEF SayConnecting, Emit, TypeOK, Sessions, sessionVars, storeVars, None,
         RegistryInv, RecordInv, SessionIsShown, InProgress
<1>5. CASE Tell(s)
  BY <1>5, RegistryAssumption
     DEF Tell, Emit, TypeOK, Sessions, sessionVars, storeVars, None,
         RegistryInv, RecordInv, SessionIsShown, InProgress
<1>6. CASE Wake(s)
  BY <1>6, RegistryAssumption
     DEF Wake, TypeOK, Sessions, sessionVars, storeVars, None, RegistryInv,
         RecordInv, SessionIsShown, InProgress
<1>7. QED
  BY <1>1, <1>2, <1>3, <1>4, <1>5, <1>6 DEF Reading

\* A step that leaves the sessions and the calls that hold them alone.
Frame ==
  /\ UNCHANGED <<current, health, stopped, op, disc, reader, overlap>>
  /\ record # None => record' # None

LEMMA FrameKeepsRegistry == RegistryInv /\ Frame => RegistryInv'
<1>1. ASSUME RegistryInv, Frame PROVE HeldInv' /\ MapInv'
  BY <1>1
     DEF Frame, RegistryInv, HeldInv, MapInv, Unopened, CurrentIsNotStopped,
         CurrentIsRead
<1>2. ASSUME RegistryInv, Frame PROVE AloneInv' /\ NoOrphan'
  BY <1>2 DEF Frame, RegistryInv, AloneInv, NoOrphan, InHand
<1>3. ASSUME RegistryInv, Frame PROVE RecordInv'
  BY <1>3 DEF Frame, RegistryInv, RecordInv, SessionIsShown
<1>4. QED
  BY <1>1, <1>2, <1>3 DEF RegistryInv

LEMMA RequestIsFrame ==
  ASSUME TypeOK, NEW q \in Requests, GetSession(q) \/ Asked(q) \/ MarkDisconnected(q)
  PROVE  Frame
<1>1. CASE GetSession(q)
  BY <1>1 DEF GetSession, Frame, sessionVars, storeVars
<1>2. CASE Asked(q)
  BY <1>2 DEF Asked, Frame, sessionVars, storeVars
<1>3. CASE MarkDisconnected(q)
  BY <1>3 DEF MarkDisconnected, UpdateServerHealth, Frame, None, sessionVars
<1>4. QED
  BY <1>1, <1>2, <1>3

LEMMA RegistryInductive ==
  TypeOK /\ RegistryInv /\ [Next]_vars => RegistryInv'
<1>1. ASSUME TypeOK, RegistryInv, Next PROVE RegistryInv'
  <2>1. CASE ConnectionStateChanged
    <3>1. Head(updates) # None
      BY <1>1, <2>1 DEF ConnectionStateChanged, TypeOK, Health, None
    <3>2. Frame
      BY <2>1, <3>1 DEF ConnectionStateChanged, Frame, None, sessionVars
    <3>3. QED
      BY <1>1, <3>2, FrameKeepsRegistry
  <2>2. CASE \E q \in Requests : GetSession(q) \/ Asked(q) \/ MarkDisconnected(q)
    BY <1>1, <2>2, RequestIsFrame, FrameKeepsRegistry
  <2>3. CASE \E c \in Connects : Start(c) \/ Connecting(c)
    BY <1>1, <2>3, ConnectKeepsHeld, ConnectKeepsMap, ConnectKeepsAlone,
       ConnectKeepsNoOrphan, ConnectKeepsRecord DEF RegistryInv
  <2>4. CASE \E d \in Disconnects : RemoveSession(d) \/ Disconnecting(d)
    BY <1>1, <2>4, DisconnectKeepsHeld, DisconnectKeepsMap, DisconnectKeepsAlone,
       DisconnectKeepsNoOrphan, DisconnectKeepsRecord DEF RegistryInv
  <2>5. CASE \E s \in Sessions : Lose(s) \/ EndReconnect(s) \/ Reading(s)
    BY <1>1, <2>5, SessionKeepsHeld, SessionKeepsMap, SessionKeepsAlone,
       SessionKeepsNoOrphan, SessionKeepsRecord DEF RegistryInv
  <2>6. QED
    BY <1>1, <2>1, <2>2, <2>3, <2>4, <2>5 DEF Next
<1>2. ASSUME RegistryInv, UNCHANGED vars PROVE RegistryInv'
  BY <1>2, FrameKeepsRegistry DEF Frame, vars, sessionVars, storeVars
<1>3. QED
  BY <1>1, <1>2

LEMMA InitRegistry == Init => RegistryInv
<1>1. ASSUME Init PROVE HeldInv /\ MapInv
  BY <1>1 DEF Init, HeldInv, MapInv, CurrentIsNotStopped, CurrentIsRead
<1>2. ASSUME Init PROVE AloneInv /\ NoOrphan /\ RecordInv
  BY <1>2
     DEF Init, AloneInv, NoOrphan, RecordInv, SessionIsShown, InProgress,
         Sessions
<1>3. QED
  BY <1>1, <1>2 DEF RegistryInv

LEMMA RegistryInvariant == Spec => []RegistryInv
<1>1. Spec => [](TypeOK /\ RegistryInv)
  BY InitType, InitRegistry, RegistryInductive, TypeCorrect, PTL DEF Spec
<1>2. QED
  BY <1>1, PTL

\* However connects, disconnects and losses interleave, requests are never sent
\* to a session that was told to disconnect.
THEOREM CurrentIsNotStoppedHolds == Spec => []CurrentIsNotStopped
<1>1. RegistryInv => CurrentIsNotStopped
  BY DEF RegistryInv, MapInv
<1>2. QED
  BY <1>1, RegistryInvariant, PTL

\* The session in the map never loses its health reader.
THEOREM CurrentIsReadHolds == Spec => []CurrentIsRead
<1>1. RegistryInv => CurrentIsRead
  BY DEF RegistryInv, MapInv
<1>2. QED
  BY <1>1, RegistryInvariant, PTL

\* As long as no two connects were in progress at once, a session that was opened
\* is in the map, held by the call that stops it, or stopped.
THEOREM NoOrphanHolds == Spec => []NoOrphan
<1>1. RegistryInv => NoOrphan
  BY DEF RegistryInv
<1>2. QED
  BY <1>1, RegistryInvariant, PTL

\* As long as no disconnect met a connect, a server with a session has a record.
THEOREM SessionIsShownHolds == Spec => []SessionIsShown
<1>1. RegistryInv => SessionIsShown
  BY DEF RegistryInv, RecordInv, SessionIsShown
<1>2. QED
  BY <1>1, RegistryInvariant, PTL

-----------------------------------------------------------------------------
(* What is shown once everything has been read.                            *)

Shows(h, shown) == shown = h \/ <<h, shown>> = <<"disconnected", "connecting">>

\* Once the reader of the session in the map has told its health, that is the
\* last word on its way to the store, or what the store shows.  A connect writes
\* the record before it takes the session out of the map, and before it puts its
\* own into it.
LastWord == updates[Len(updates)]
WroteAhead == {"progress", "take", "insert"}
QuietInv ==
  /\ ~astray
  /\ current # None /\ reader[current] = "wait" /\ ~unseen[current]
  /\ \A c \in Connects : op[c].pc \notin WroteAhead
  => IF updates = <<>> THEN record # None => Shows(health[current], record)
     ELSE LastWord = health[current]

QuietFrame == UNCHANGED <<current, health, unseen, reader, record, updates, astray, op>>

LEMMA QuietFrameStep == QuietInv /\ QuietFrame => QuietInv'
BY DEF QuietFrame, QuietInv, LastWord

LEMMA ConnectKeepsQuiet ==
  ASSUME TypeOK, RegistryInv, QuietInv, NEW c \in Connects, Start(c) \/ Connecting(c)
  PROVE  QuietInv'
<1> SUFFICES ASSUME ~astray', current' # None, reader'[current'] = "wait",
                    ~unseen'[current'],
                    \A o \in Connects : op'[o].pc \notin WroteAhead
             PROVE  IF updates' = <<>> THEN record' # None => Shows(health'[current'], record')
                    ELSE LastWord' = health'[current']
  BY DEF QuietInv
<1>1. op[c].pc \in {"dial", "attach"} => current # c
  BY RegistryAssumption DEF RegistryInv, MapInv, Unopened
<1>2. op[c].old # current \/ current = None
  BY DEF RegistryInv, HeldInv
<1>3. op \in [Connects -> ConnectCall]
  BY TypeParts DEF CallType
<1>4. ASSUME UNCHANGED <<current, health, unseen, reader, record, updates>>, ~astray,
             op[c].pc \notin WroteAhead,
             \A o \in Connects \ {c} : op'[o] = op[o]
      PROVE  IF updates' = <<>> THEN record' # None => Shows(health'[current'], record')
             ELSE LastWord' = health'[current']
  <2>1. \A o \in Connects : op[o].pc \notin WroteAhead
    BY <1>4
  <2>2. QED
    BY <1>4, <2>1 DEF QuietInv, LastWord
<1>5. CASE Start(c)
  BY <1>3, <1>4, <1>5 DEF Start, sessionVars, storeVars, ConnectCall, Steps, WroteAhead
<1>6. CASE ReuseSession(c)
  BY <1>3, <1>4, <1>6 DEF ReuseSession, At, Return, sessionVars, storeVars, WroteAhead
<1>7. CASE PastCheck(c)
  BY <1>3, <1>4, <1>7 DEF PastCheck, At, GoTo, sessionVars, storeVars, WroteAhead
<1>8. CASE FailCheck(c)
  BY <1>3, <1>4, <1>8 DEF FailCheck, At, GoTo, Return, sessionVars, storeVars, WroteAhead
<1>9. CASE Announce(c)
  BY <1>3, <1>9 DEF Announce, At, GoTo, ConnectCall, Steps, WroteAhead
<1>10. CASE ShowProgress(c)
  BY <1>3, <1>10 DEF ShowProgress, At, GoTo, ConnectCall, Steps, WroteAhead
<1>11. CASE Take(c)
  BY <1>11 DEF Take
<1>12. CASE Drop(c)
  <2>1. /\ UNCHANGED <<current, record, updates, reader, astray>>
        /\ health'[current] = health[current] /\ unseen'[current] = unseen[current]
    BY <1>2, <1>12 DEF Drop, Stop, SetHealth, storeVars, TypeOK, Sessions
  <2>2. \A o \in Connects : op[o].pc \notin WroteAhead
    BY <1>3, <1>12 DEF Drop, At, WroteAhead
  <2>3. QED
    BY <2>1, <2>2 DEF QuietInv, LastWord
<1>13. CASE DialOk(c)
  <2>1. /\ UNCHANGED <<current, unseen, record, updates, reader, astray>>
        /\ health'[current] = health[current]
    BY <1>1, <1>13 DEF DialOk, At, storeVars, TypeOK, Sessions
  <2>2. \A o \in Connects : op[o].pc \notin WroteAhead
    BY <1>3, <1>13 DEF DialOk, At, GoTo, WroteAhead
  <2>3. QED
    BY <2>1, <2>2 DEF QuietInv, LastWord
<1>14. CASE Attach(c)
  BY <1>3, <1>14 DEF Attach, GoTo, ConnectCall, Steps, WroteAhead
<1>15. CASE DialFails(c)
  BY <1>3, <1>4, <1>15 DEF DialFails, At, GoTo, Return, sessionVars, storeVars, WroteAhead
<1>16. CASE ShowFailure(c)
  BY <1>16 DEF ShowFailure, sessionVars
<1>17. CASE Insert(c)
  BY <1>17 DEF Insert, TypeOK, Sessions
<1>18. CASE ClearProgress(c)
  BY <1>3, <1>4, <1>18 DEF ClearProgress, At, Return, UpdateProgress, sessionVars, WroteAhead
<1>19. QED
  BY <1>5, <1>6, <1>7, <1>8, <1>9, <1>10, <1>11, <1>12, <1>13, <1>14, <1>15, <1>16,
     <1>17, <1>18 DEF Connecting

LEMMA DisconnectKeepsQuiet ==
  ASSUME TypeOK, RegistryInv, QuietInv, NEW d \in Disconnects, RemoveSession(d) \/ Disconnecting(d)
  PROVE  QuietInv'
<1>1. CASE RemoveSession(d)
  BY <1>1 DEF RemoveSession, QuietInv
<1>2. CASE RemoveRecord(d)
  BY <1>2 DEF RemoveRecord, RemoveServer, sessionVars, QuietInv, LastWord
<1>3. CASE StopRemoved(d)
  <2>1. disc[d].old # current \/ current = None
    BY DEF RegistryInv, HeldInv
  <2>2. QED
    BY <1>3, <2>1 DEF StopRemoved, Stop, SetHealth, storeVars, TypeOK, Sessions, QuietInv, LastWord,
                      None
<1>4. QED
  BY <1>1, <1>2, <1>3 DEF Disconnecting

LEMMA RequestKeepsQuiet ==
  ASSUME TypeOK, QuietInv, NEW q \in Requests, GetSession(q) \/ Asked(q) \/ MarkDisconnected(q)
  PROVE  QuietInv'
<1>1. CASE MarkDisconnected(q)
  BY <1>1 DEF MarkDisconnected, sessionVars, QuietInv
<1>2. CASE GetSession(q) \/ Asked(q)
  BY <1>2, QuietFrameStep DEF GetSession, Asked, QuietFrame, sessionVars, storeVars
<1>3. QED
  BY <1>1, <1>2

\* A reader that has told the health waits; the health does not change unseen.
LEMMA SessionKeepsQuiet ==
  ASSUME TypeOK, RegistryInv, QuietInv, NEW s \in Sessions,
         Opened, Lose(s) \/ EndReconnect(s) \/ Reading(s)
  PROVE  QuietInv'
<1>1. current # None => current \in Sessions /\ reader[current] \notin {"off", "gone"}
  BY DEF TypeOK, RegistryInv, MapInv, CurrentIsRead
<1>2. ASSUME NEW h, SetHealth(s, h),
             UNCHANGED <<current, reader, record, updates, astray, op>>
      PROVE  QuietInv'
  BY <1>1, <1>2 DEF SetHealth, TypeOK, QuietInv, LastWord
<1>3. CASE Lose(s) \/ EndReconnect(s)
  BY <1>2, <1>3 DEF Lose, EndReconnect, storeVars
<1>4. CASE Look(s) \/ Wake(s)
  BY <1>4 DEF Look, Wake, TypeOK, storeVars, QuietInv, LastWord
<1>5. CASE SayConnecting(s)
  BY <1>1, <1>5 DEF SayConnecting, sessionVars, TypeOK, QuietInv
<1>6. CASE Tell(s)
  <2>1. SUFFICES ASSUME ~astray', current' # None PROVE QuietInv'
    BY DEF QuietInv
  <2>2. current = s /\ health[s] \in Health
    <3>1. current = s /\ reader[s] = "tell"
      BY <1>6, <2>1 DEF Tell, sessionVars
    <3>2. QED
      BY <3>1 DEF Opened
  <2>3. updates' # <<>> /\ LastWord' = health[s]
    <3>1. updates \in Seq(Health) /\ updates' = Append(updates, health[s])
      BY <1>6 DEF Tell, Emit, TypeOK
    <3>2. QED
      BY <2>2, <3>1 DEF LastWord
  <2>4. QED
    BY <1>6, <2>2, <2>3 DEF Tell, sessionVars, QuietInv
<1>7. QED
  BY <1>3, <1>4, <1>5, <1>6 DEF Reading

LEMMA ApplyKeepsQuiet ==
  ASSUME TypeOK, RegistryInv, QuietInv, ConnectionStateChanged
  PROVE  QuietInv'
<1> SUFFICES ASSUME ~astray', current' # None, reader'[current'] = "wait",
                    ~unseen'[current'],
                    \A o \in Connects : op'[o].pc \notin WroteAhead
             PROVE  IF updates' = <<>> THEN record' # None => Shows(health'[current'], record')
                    ELSE LastWord' = health'[current']
  BY DEF QuietInv
<1>1. UNCHANGED <<current, health, unseen, reader, op, astray>>
  BY DEF ConnectionStateChanged, sessionVars
<1>2. LastWord = health[current]
  BY <1>1 DEF ConnectionStateChanged, QuietInv
<1>3. CASE Len(updates) = 1
  <2>1. Head(updates) = LastWord /\ updates' = <<>>
    BY <1>3 DEF ConnectionStateChanged, TypeOK, LastWord
  <2>2. QED
    BY <1>1, <1>2, <2>1 DEF ConnectionStateChanged, Shows
<1>4. CASE Len(updates) # 1
  <2>1. updates' # <<>> /\ LastWord' = LastWord
    <3>1. updates \in Seq(Health) /\ Len(updates) >= 2 /\ updates' = Tail(updates)
      <4>1. updates \in Seq(Health) /\ updates # <<>> /\ updates' = Tail(updates)
        BY DEF ConnectionStateChanged, TypeOK
      <4>2. Len(updates) \in Nat /\ Len(updates) # 0
        BY <4>1
      <4>3. \A n \in Nat : n # 0 /\ n # 1 => n >= 2
        OBVIOUS
      <4>4. Len(updates) >= 2
        BY <1>4, <4>2, <4>3, Zenon
      <4>5. QED
        BY <4>1, <4>4, Zenon
    <3>2. Len(updates') = Len(updates) - 1 /\ Len(updates') \in Nat \ {0}
      BY <3>1
    <3>3. updates'[Len(updates')] = updates[Len(updates)]
      BY <3>1, <3>2
    <3>4. QED
      BY <3>2, <3>3 DEF LastWord
  <2>2. QED
    BY <1>1, <1>2, <2>1
<1>5. QED
  BY <1>3, <1>4

LEMMA QuietInductive == TypeOK /\ Opened /\ RegistryInv /\ QuietInv /\ [Next]_vars => QuietInv'
<1>1. ASSUME QuietInv, UNCHANGED vars PROVE QuietInv'
  BY <1>1, QuietFrameStep DEF QuietFrame, vars, sessionVars, storeVars
<1>2. ASSUME TypeOK, Opened, RegistryInv, QuietInv, Next PROVE QuietInv'
  BY <1>2, ConnectKeepsQuiet, DisconnectKeepsQuiet, RequestKeepsQuiet, SessionKeepsQuiet,
     ApplyKeepsQuiet DEF Next
<1>3. QED
  BY <1>1, <1>2

\* Once everything has been read and applied a server that has a record is shown in
\* the health of its session, unless a call that failed or the reader of a replaced
\* session wrote another since the reader of the session last spoke.
THEOREM QuietIsShownHolds == Spec => []QuietIsShown
<1>1. Init => QuietInv
  BY DEF Init, QuietInv
<1>2. Spec => []QuietInv
  BY <1>1, InitType, TypeInductive, RegistryInvariant, QuietInductive, PTL DEF Spec
<1>3. TypeOK /\ QuietInv => QuietIsShown
  <2>1. SUFFICES ASSUME QuietInv, NEW c \in Connects, CallsInProgress = {}
                 PROVE  op[c].pc \notin WroteAhead
    BY DEF QuietInv, QuietIsShown, Shows
  <2>2. QED
    BY <2>1 DEF CallsInProgress, InProgress, WroteAhead
<1>4. QED
  BY <1>2, <1>3, TypeCorrect, PTL
=============================================================================
