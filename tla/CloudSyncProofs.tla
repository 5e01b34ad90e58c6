--------------------------- MODULE CloudSyncProofs ---------------------------
(* Safety of CloudSync for any devices, keys and bounds.                     *)
EXTENDS CloudSync, TLAPS

-----------------------------------------------------------------------------
(* Type correctness.                                                       *)

LEMMA NoEntryType == NoEntry \in Entry
BY CloudAssumption DEF NoEntry, Entry, Stamped, Value, Time

LEMMA NoEnvelopeType == NoEnvelope \in Envelope
BY NoEntryType DEF NoEnvelope, Envelope

LEMMA StampedType ==
  ASSUME NEW v \in Value, NEW t \in Time, NEW d \in Devices \cup {NoDevice}
  PROVE  /\ Stamped(v, t, d) \in Entry
         /\ Stamped(v, t, d).value = v /\ Stamped(v, t, d).at = t
BY DEF Stamped, Entry

LEMMA SnapshotType ==
  ASSUME TypeOK, NEW d \in Devices, NEW t \in Time
  PROVE  Snapshot(d, t) \in Envelope
<1>1. ASSUME NEW k \in RustKeys PROVE Stamped(file[d][k], t, d) \in Entry
  BY <1>1, StampedType DEF TypeOK
<1>2. ASSUME NEW k \in PlatformKeys PROVE table[d][k] \in Entry
  BY <1>2 DEF TypeOK, Keys
<1> QED  BY <1>1, <1>2 DEF Snapshot, Envelope, Keys

\* What an application of the stored envelope does to one key of a device: the
\* entry is taken over, or left because the table is as new or the envelope was
\* applied before.
TakenOver(d, k) ==
  /\ store[d][k].at > 0 /\ store[d][k].at >= table[d][k].at
  /\ table'[d][k] = store[d][k] /\ defaults'[d][k] = store[d][k].value
LeftAlone(d, k) ==
  /\ store[d] = applied[d] \/ store[d][k].at <= table[d][k].at
  /\ table'[d][k] = table[d][k] /\ defaults'[d][k] = defaults[d][k]

\* The same for a rust.* key, where a tie is left alone.
RustTakenOver(d, k) ==
  /\ store[d][k].at > table[d][k].at
  /\ table'[d][k] = store[d][k] /\ file'[d][k] = store[d][k].value
RustLeftAlone(d, k) ==
  /\ store[d] = applied[d] \/ store[d][k].at <= table[d][k].at
  /\ table'[d][k] = table[d][k] /\ file'[d][k] = file[d][k]

LEMMA ApplyEffect ==
  ASSUME TypeOK, NEW d \in Devices, Apply(d)
  PROVE  /\ file' \in [Devices -> [RustKeys -> Value]]
         /\ defaults' \in [Devices -> [PlatformKeys -> Value]]
         /\ table' \in [Devices -> [Keys -> Entry]]
         /\ observed' \in [Devices -> SUBSET PlatformKeys]
         /\ applied' \in [Devices -> Envelope]
         /\ applied' = [applied EXCEPT ![d] = store[d]]
         /\ observed[d] \subseteq observed'[d]
         /\ \A e \in Devices \ {d} :
              /\ table'[e] = table[e] /\ defaults'[e] = defaults[e] /\ observed'[e] = observed[e]
              /\ file'[e] = file[e]
         /\ \A k \in PlatformKeys : TakenOver(d, k) \/ LeftAlone(d, k)
         /\ \A k \in RustKeys : RustTakenOver(d, k) \/ RustLeftAlone(d, k)
<1> DEFINE env  == store[d]
           wins == IF env = applied[d] THEN {} ELSE Winning(d, env)
           new  == [k \in PlatformKeys |-> IF k \in wins THEN env[k].value ELSE defaults[d][k]]
           tab  == [k \in Keys |-> IF k \in wins THEN env[k] ELSE table[d][k]]
           fil  == [k \in RustKeys |-> IF k \in wins THEN env[k].value ELSE file[d][k]]
<1>0. /\ env \in [Keys -> Entry] /\ table[d] \in [Keys -> Entry]
      /\ defaults[d] \in [PlatformKeys -> Value] /\ file[d] \in [RustKeys -> Value]
  BY DEF TypeOK, Envelope
<1>1. \A k \in Keys : /\ env[k].value \in Value /\ env[k].at \in Time
                      /\ table[d][k].at \in Time
  BY <1>0 DEF Entry
<1>2. /\ table' = [table EXCEPT ![d] = tab] /\ defaults' = [defaults EXCEPT ![d] = new]
      /\ file' = [file EXCEPT ![d] = fil] /\ applied' = [applied EXCEPT ![d] = env]
      /\ observed' = [observed EXCEPT ![d] =
                        @ \cup {k \in PlatformKeys : new[k] # defaults[d][k]}]
  BY DEF Apply
<1>3. tab \in [Keys -> Entry]
  BY <1>0
<1>4. new \in [PlatformKeys -> Value]
  BY <1>0, <1>1 DEF Keys
<1>5. fil \in [RustKeys -> Value]
  BY <1>0, <1>1 DEF Keys
<1> HIDE DEF tab, fil, new
<1>6. table'[d] = tab /\ defaults'[d] = new /\ file'[d] = fil
  BY <1>2 DEF TypeOK
<1>7. ASSUME NEW k \in PlatformKeys PROVE TakenOver(d, k) \/ LeftAlone(d, k)
  <2>1. k \in Keys
    BY DEF Keys
  <2>2. CASE k \in wins
    <3>1. k \in Winning(d, env)
      BY <2>2
    <3>2. k \notin RustKeys
      BY CloudAssumption
    <3>3. env[k].at > 0 /\ ~(table[d][k].at > env[k].at)
      BY <3>1, <3>2 DEF Winning
    <3>4. table'[d][k] = env[k] /\ defaults'[d][k] = env[k].value
      BY <2>1, <2>2, <1>6 DEF tab, new
    <3>5. env[k].at >= table[d][k].at
      BY <3>3, <2>1, <1>1 DEF Time
    <3> QED  BY <3>3, <3>4, <3>5 DEF TakenOver
  <2>3. CASE k \notin wins
    <3>1. table'[d][k] = table[d][k] /\ defaults'[d][k] = defaults[d][k]
      BY <2>1, <2>3, <1>6 DEF tab, new
    <3>2. CASE env # applied[d]
      <4>1. k \notin Winning(d, env)
        BY <2>3, <3>2
      <4>2. ~(env[k].at > 0 /\ ~(table[d][k].at > env[k].at))
        BY <4>1 DEF Winning
      <4>3. env[k].at <= table[d][k].at
        BY <4>2, <2>1, <1>1 DEF Time
      <4> QED  BY <4>3, <3>1 DEF LeftAlone
    <3> QED  BY <3>1, <3>2 DEF LeftAlone
  <2> QED  BY <2>2, <2>3
<1>8. /\ file' \in [Devices -> [RustKeys -> Value]]
      /\ defaults' \in [Devices -> [PlatformKeys -> Value]]
      /\ table' \in [Devices -> [Keys -> Entry]]
      /\ observed' \in [Devices -> SUBSET PlatformKeys]
      /\ applied' \in [Devices -> Envelope]
  <2> HIDE DEF wins
  <2> QED  BY <1>0, <1>2, <1>3, <1>4, <1>5 DEF TypeOK, Envelope
<1>9. /\ observed[d] \subseteq observed'[d]
      /\ \A e \in Devices \ {d} :
           /\ table'[e] = table[e] /\ defaults'[e] = defaults[e] /\ observed'[e] = observed[e]
           /\ file'[e] = file[e]
  BY <1>2 DEF TypeOK
<1>10. ASSUME NEW k \in RustKeys PROVE RustTakenOver(d, k) \/ RustLeftAlone(d, k)
  <2>1. k \in Keys /\ k \notin PlatformKeys
    BY CloudAssumption DEF Keys
  <2>2. k \in wins <=> env # applied[d] /\ env[k].at > table[d][k].at
    BY <2>1 DEF Winning
  <2>3. CASE k \in wins
    BY <2>1, <2>2, <2>3, <1>6 DEF tab, fil, RustTakenOver
  <2>4. CASE k \notin wins
    <3>1. env = applied[d] \/ env[k].at <= table[d][k].at
      BY <2>1, <2>2, <2>4, <1>1 DEF Time
    <3>2. table'[d][k] = table[d][k] /\ file'[d][k] = file[d][k]
      BY <2>1, <2>4, <1>6 DEF tab, fil
    <3> QED  BY <3>1, <3>2 DEF RustLeftAlone
  <2> QED  BY <2>3, <2>4
<1> QED  BY <1>2, <1>7, <1>8, <1>9, <1>10

LEMMA InitType == Init => TypeOK
<1> SUFFICES ASSUME Init PROVE TypeOK
  OBVIOUS
<1> USE CloudAssumption
<1>1. /\ file \in [Devices -> [RustKeys -> Value]]
      /\ defaults \in [Devices -> [PlatformKeys -> Value]]
  BY DEF Init, Value
<1>2. table \in [Devices -> [Keys -> Entry]]
  BY NoEntryType DEF Init
<1>3. applied \in [Devices -> Envelope] /\ store \in [Devices -> Envelope] /\ cloud \in Envelope
  BY NoEnvelopeType DEF Init
<1>4. /\ running \subseteq Devices /\ dirty \subseteq Devices /\ announced \subseteq running
      /\ observed \in [Devices -> SUBSET PlatformKeys]
      /\ due \in [Devices -> 0 .. MaxTime + 1]
      /\ clock \in Time /\ choices \in Value /\ kills \in 0 .. MaxKills
  BY DEF Init, Time, Value
<1> QED  BY <1>1, <1>2, <1>3, <1>4 DEF TypeOK

LEMMA ScheduleType ==
  ASSUME TypeOK, NEW d \in Devices, Schedule(d)
  PROVE  due' \in [Devices -> 0 .. MaxTime + 1]
<1>1. clock + 1 \in 0 .. MaxTime + 1
  BY CloudAssumption DEF TypeOK, Time
<1> QED  BY <1>1 DEF TypeOK, Schedule

LEMMA LaterType ==
  ASSUME TypeOK, NEW t \in Time, Later(t)
  PROVE  clock' = t /\ t > 0 /\ t >= clock /\ t + 1 \in 0 .. MaxTime + 1
BY CloudAssumption DEF TypeOK, Time, Later

LEMMA StepType == TypeOK /\ [Next]_vars => TypeOK'
<1> SUFFICES ASSUME TypeOK, [Next]_vars PROVE TypeOK'
  OBVIOUS
<1> USE CloudAssumption
<1>1. ASSUME NEW d \in Devices, Start(d) PROVE TypeOK'
  <2>1. Apply(d) /\ Schedule(d)
    BY <1>1 DEF Start
  <2> QED  BY <1>1, <2>1, ApplyEffect, ScheduleType DEF Start, TypeOK
<1>2. ASSUME NEW d \in Devices, HandleExternalChange(d) PROVE TypeOK'
  <2>1. Apply(d)
    BY <1>2 DEF HandleExternalChange
  <2> QED  BY <1>2, <2>1, ApplyEffect DEF HandleExternalChange, TypeOK
<1>3. ASSUME NEW d \in Devices, ExportNow(d) PROVE TypeOK'
  <2>1. PICK t \in Time : /\ Later(t)
                          /\ store' = [store EXCEPT ![d] = Snapshot(d, t)]
                          /\ applied' = [applied EXCEPT ![d] = Snapshot(d, t)]
    BY <1>3 DEF ExportNow
  <2>2. Snapshot(d, t) \in Envelope /\ clock' \in Time
    BY <2>1, SnapshotType, LaterType
  <2>3. store' \in [Devices -> Envelope] /\ applied' \in [Devices -> Envelope]
    BY <2>1, <2>2 DEF TypeOK
  <2> QED  BY <1>3, <2>2, <2>3 DEF ExportNow, TypeOK
<1>4. ASSUME NEW d \in Devices, NEW k \in PlatformKeys, HandleLocalDefaultsChange(d, k)
      PROVE  TypeOK'
  <2>1. PICK t \in Time : /\ Later(t)
                          /\ table' = [table EXCEPT ![d][k] = Stamped(defaults[d][k], t, NoDevice)]
                          /\ due' = [due EXCEPT ![d] = t + 1]
    BY <1>4 DEF HandleLocalDefaultsChange
  <2>2. Stamped(defaults[d][k], t, NoDevice) \in Entry
    BY StampedType DEF TypeOK
  <2>3. table' \in [Devices -> [Keys -> Entry]]
    BY <2>1, <2>2 DEF TypeOK
  <2>4. due' \in [Devices -> 0 .. MaxTime + 1] /\ clock' \in Time
    BY <2>1, LaterType DEF TypeOK
  <2> QED  BY <1>4, <2>3, <2>4 DEF HandleLocalDefaultsChange, TypeOK
<1>5. ASSUME NEW d \in Devices, NEW k \in RustKeys, ChoosePreference(d, k) PROVE TypeOK'
  <2>1. Schedule(d) /\ choices' \in Value
    BY <1>5 DEF ChoosePreference, TypeOK, Value
  <2>2. file' \in [Devices -> [RustKeys -> Value]]
    BY <1>5, <2>1 DEF ChoosePreference, TypeOK
  <2> QED  BY <1>5, <2>1, <2>2, ScheduleType DEF ChoosePreference, TypeOK
<1>6. ASSUME NEW d \in Devices, NEW k \in PlatformKeys, ChooseDefault(d, k) PROVE TypeOK'
  <2>1. choices' \in Value
    BY <1>6 DEF ChooseDefault, TypeOK, Value
  <2>2. defaults' \in [Devices -> [PlatformKeys -> Value]]
    BY <1>6, <2>1 DEF ChooseDefault, TypeOK
  <2> QED  BY <1>6, <2>1, <2>2 DEF ChooseDefault, TypeOK
<1>7. ASSUME NEW d \in Devices, Kill(d) PROVE TypeOK'
  <2>1. table' \in [Devices -> [Keys -> Entry]] /\ applied' \in [Devices -> Envelope]
    BY <1>7, NoEntryType, NoEnvelopeType DEF Kill, TypeOK
  <2>2. /\ due' \in [Devices -> 0 .. MaxTime + 1]
        /\ observed' \in [Devices -> SUBSET PlatformKeys] /\ kills' \in 0 .. MaxKills
    BY <1>7 DEF Kill, TypeOK
  <2> QED  BY <1>7, <2>1, <2>2 DEF Kill, TypeOK
<1>8. ASSUME NEW d \in Devices, Upload(d) PROVE TypeOK'
  BY <1>8 DEF Upload, process, TypeOK
<1>9. ASSUME NEW d \in Devices, Download(d) PROVE TypeOK'
  BY <1>9 DEF Download, TypeOK
<1>10. CASE UNCHANGED vars
  BY <1>10 DEF vars, process, TypeOK
<1> QED  BY <1>1, <1>2, <1>3, <1>4, <1>5, <1>6, <1>7, <1>8, <1>9, <1>10
         DEF Next, Bridge, User, ICloud

\* Every variable of the bridge, the store and iCloud keeps to what its
\* declaration allows, whatever the devices do.
THEOREM TypeCorrect == Spec => []TypeOK
<1> QED  BY InitType, StepType, PTL DEF Spec

-----------------------------------------------------------------------------
(* Nothing is missed, and the defaults follow the table.  That what a device *)
(* applied last hides nothing needs to know that the table is as new as what *)
(* was applied (AppliedIsCovered), and that a stamp taken now is as late as  *)
(* every other (StampsPast); what a process that is not running forgot, it   *)
(* starts without (AtRest).                                                  *)

AtRest ==
  \A d \in Devices \ running :
    /\ observed[d] = {} /\ due[d] = 0 /\ applied[d] = NoEnvelope
    /\ \A k \in PlatformKeys : table[d][k].at = 0

StampsPast ==
  \A k \in PlatformKeys :
    cloud[k].at <= clock /\ \A d \in Devices : table[d][k].at <= clock /\ store[d][k].at <= clock

AppliedIsCovered ==
  \A d \in Devices : \A k \in PlatformKeys : table[d][k].at >= applied[d][k].at

CloudInv == AtRest /\ StampsPast /\ AppliedIsCovered /\ NothingMissed /\ DefaultsFollowTable

LEMMA Stamps ==
  ASSUME TypeOK, NEW d \in Devices, NEW k \in PlatformKeys
  PROVE  /\ table[d][k].at \in Nat /\ store[d][k].at \in Nat /\ applied[d][k].at \in Nat
         /\ cloud[k].at \in Nat /\ clock \in Nat
<1>1. k \in Keys
  BY DEF Keys
<1> QED  BY <1>1, CloudAssumption DEF TypeOK, Envelope, Entry, Time

LEMMA InitCloud == Init => CloudInv
BY DEF Init, CloudInv, AtRest, StampsPast, AppliedIsCovered, NothingMissed,
       DefaultsFollowTable, NoEnvelope, NoEntry, Stamped, Keys

\* An application leaves a device as new as the store, with defaults that
\* follow its table, provided it was as new as what it applied before.
LEMMA ApplyCovers ==
  ASSUME TypeOK, CloudInv, NEW d \in Devices, Apply(d), NEW k \in PlatformKeys
  PROVE  /\ table'[d][k].at >= store[d][k].at
         /\ table'[d][k].at >= applied'[d][k].at
         /\ k \notin observed'[d] /\ table'[d][k].at > 0
               => defaults'[d][k] = table'[d][k].value
<1> USE Stamps
<1>1. applied'[d] = store[d] /\ observed[d] \subseteq observed'[d]
  BY ApplyEffect DEF TypeOK
<1>2. CASE TakenOver(d, k)
  <2>1. table'[d][k] = store[d][k] /\ defaults'[d][k] = store[d][k].value
    BY <1>2 DEF TakenOver
  <2>2. store[d][k].at \in Nat
    OBVIOUS
  <2> QED  BY <1>1, <2>1, <2>2
<1>3. CASE LeftAlone(d, k)
  <2>1. table'[d][k] = table[d][k] /\ defaults'[d][k] = defaults[d][k]
    BY <1>3 DEF LeftAlone
  <2>2. table[d][k].at >= applied[d][k].at
    BY DEF CloudInv, AppliedIsCovered
  <2>3. store[d][k].at <= table[d][k].at
    BY <1>3, <2>2 DEF LeftAlone
  <2>4. d \notin running => table[d][k].at = 0
    BY DEF CloudInv, AtRest
  <2>5. k \notin observed[d] /\ table[d][k].at > 0 => defaults[d][k] = table[d][k].value
    BY <2>4 DEF CloudInv, DefaultsFollowTable
  <2> QED  BY <1>1, <2>1, <2>3, <2>5
<1> QED  BY <1>2, <1>3, ApplyEffect

LEMMA StepCloud == TypeOK /\ CloudInv /\ [Next]_vars => CloudInv'
<1> SUFFICES ASSUME TypeOK, CloudInv, [Next]_vars PROVE CloudInv'
  OBVIOUS
<1> USE CloudAssumption
<1>0. running \subseteq Devices
  BY DEF TypeOK
<1>1. ASSUME NEW d \in Devices, Apply(d), running' = running \cup {d}, store' = store,
             cloud' = cloud, clock' = clock, announced \subseteq announced' \cup {d},
             \A e \in Devices \ {d} : due'[e] = due[e]
      PROVE  CloudInv'
  <2>0. \A e \in Devices \ running' : e # d /\ due'[e] = due[e]
    BY <1>1
  <2>1. \A e \in Devices \ {d} : /\ table'[e] = table[e] /\ defaults'[e] = defaults[e]
                                 /\ observed'[e] = observed[e] /\ applied'[e] = applied[e]
    BY <1>1, ApplyEffect DEF TypeOK
  <2>2. AtRest'
    BY <1>1, <2>1, <2>0 DEF CloudInv, AtRest
  <2>3. StampsPast'
    <3>1. ASSUME NEW k \in PlatformKeys PROVE table'[d][k].at <= clock
      <4>1. table'[d][k] = table[d][k] \/ table'[d][k] = store[d][k]
        BY <1>1, ApplyEffect DEF TakenOver, LeftAlone
      <4> QED  BY <4>1 DEF CloudInv, StampsPast
    <3> QED  BY <1>1, <2>1, <3>1 DEF CloudInv, StampsPast
  <2>4. AppliedIsCovered'
    BY <1>1, <2>1, ApplyCovers DEF CloudInv, AppliedIsCovered
  <2>5. NothingMissed'
    BY <1>0, <1>1, <2>1, ApplyCovers DEF CloudInv, NothingMissed
  <2>6. DefaultsFollowTable'
    BY <1>0, <1>1, <2>1, ApplyCovers DEF CloudInv, DefaultsFollowTable
  <2> QED  BY <2>2, <2>3, <2>4, <2>5, <2>6 DEF CloudInv
<1>2. ASSUME NEW d \in Devices, Start(d) PROVE CloudInv'
  BY <1>1, <1>2 DEF Start, Schedule, TypeOK
<1>3. ASSUME NEW d \in Devices, HandleExternalChange(d) PROVE CloudInv'
  <2>1. running = running \cup {d}
    BY <1>3 DEF HandleExternalChange, TypeOK
  <2> QED  BY <1>1, <1>3, <2>1 DEF HandleExternalChange
<1>4. ASSUME NEW d \in Devices, ExportNow(d) PROVE CloudInv'
  <2>1. PICK t \in Time : /\ Later(t)
                          /\ store' = [store EXCEPT ![d] = Snapshot(d, t)]
                          /\ applied' = [applied EXCEPT ![d] = Snapshot(d, t)]
    BY <1>4 DEF ExportNow
  <2>2. clock' >= clock /\ clock' \in Nat
    BY <2>1, LaterType DEF Time
  <2>3. \A k \in PlatformKeys : Snapshot(d, t)[k] = table[d][k]
    BY DEF Snapshot, Keys
  <2>4. /\ store'[d] = Snapshot(d, t) /\ applied'[d] = Snapshot(d, t)
        /\ \A e \in Devices \ {d} : store'[e] = store[e] /\ applied'[e] = applied[e]
    BY <2>1 DEF TypeOK
  <2>5. d \in running
    BY <1>4 DEF ExportNow, CloudInv, AtRest
  <2>6. StampsPast'
    BY <1>4, <2>2, <2>3, <2>4, Stamps DEF ExportNow, CloudInv, StampsPast
  <2>7. AtRest'
    BY <1>4, <2>4, <2>5 DEF ExportNow, CloudInv, AtRest
  <2>8. AppliedIsCovered' /\ NothingMissed'
    BY <1>4, <2>3, <2>4, Stamps DEF ExportNow, CloudInv, AppliedIsCovered, NothingMissed
  <2>9. DefaultsFollowTable'
    BY <1>4 DEF ExportNow, CloudInv, DefaultsFollowTable
  <2> QED  BY <2>6, <2>7, <2>8, <2>9 DEF CloudInv
<1>5. ASSUME NEW d \in Devices, NEW k \in PlatformKeys, HandleLocalDefaultsChange(d, k)
      PROVE  CloudInv'
  <2>1. PICK t \in Time : /\ Later(t)
                          /\ table' = [table EXCEPT ![d][k] = Stamped(defaults[d][k], t, NoDevice)]
                          /\ due' = [due EXCEPT ![d] = t + 1]
    BY <1>5 DEF HandleLocalDefaultsChange
  <2>2. clock' = t /\ t >= clock /\ t > 0
    BY <2>1, LaterType
  <2>3. table'[d][k].at = t /\ table'[d][k].value = defaults[d][k]
    BY <2>1 DEF TypeOK, Keys, Stamped
  <2>4. \A e \in Devices : \A j \in PlatformKeys : e # d \/ j # k => table'[e][j] = table[e][j]
    BY <2>1 DEF TypeOK, Keys
  <2>5. /\ d \in running
        /\ \A e \in Devices : observed'[e] = IF e = d THEN observed[d] \ {k} ELSE observed[e]
    BY <1>5 DEF HandleLocalDefaultsChange, TypeOK, CloudInv, AtRest
  <2>6. StampsPast'
    BY <1>5, <2>2, <2>3, <2>4, Stamps DEF HandleLocalDefaultsChange, CloudInv, StampsPast, Time
  <2>7. AtRest'
    BY <1>5, <2>4, <2>5 DEF HandleLocalDefaultsChange, CloudInv, AtRest
  <2>8. applied[d][k].at <= t /\ store[d][k].at <= t
    BY <2>2, Stamps DEF CloudInv, StampsPast, AppliedIsCovered, Time
  <2>9. AppliedIsCovered' /\ NothingMissed'
    BY <1>5, <2>3, <2>4, <2>8 DEF HandleLocalDefaultsChange, CloudInv, AppliedIsCovered,
       NothingMissed
  <2>10. DefaultsFollowTable'
    BY <1>5, <2>3, <2>4, <2>5 DEF HandleLocalDefaultsChange, CloudInv, DefaultsFollowTable
  <2> QED  BY <2>6, <2>7, <2>9, <2>10 DEF CloudInv
<1>6. ASSUME NEW d \in Devices, NEW k \in RustKeys, ChoosePreference(d, k) PROVE CloudInv'
  <2>1. d \in running /\ \A e \in Devices \ {d} : due'[e] = due[e]
    BY <1>6 DEF ChoosePreference, Schedule, TypeOK
  <2> QED  BY <1>6, <2>1 DEF ChoosePreference, CloudInv, AtRest, StampsPast, AppliedIsCovered, NothingMissed,
     DefaultsFollowTable
<1>7. ASSUME NEW d \in Devices, NEW k \in PlatformKeys, ChooseDefault(d, k) PROVE CloudInv'
  <2>1. \A e \in Devices : /\ observed'[e] = IF e = d THEN observed[d] \cup {k} ELSE observed[e]
                           /\ \A j \in PlatformKeys : e # d \/ j # k => defaults'[e][j] = defaults[e][j]
    BY <1>7 DEF ChooseDefault, TypeOK
  <2> QED  BY <1>7, <2>1 DEF ChooseDefault, CloudInv, AtRest, StampsPast, AppliedIsCovered,
           NothingMissed, DefaultsFollowTable
<1>8. ASSUME NEW d \in Devices, Kill(d) PROVE CloudInv'
  <2>1. \A e \in Devices \ {d} : /\ table'[e] = table[e] /\ observed'[e] = observed[e]
                                 /\ applied'[e] = applied[e] /\ due'[e] = due[e]
    BY <1>8 DEF Kill, TypeOK
  <2>2. /\ observed'[d] = {} /\ applied'[d] = NoEnvelope /\ due'[d] = 0
        /\ \A k \in PlatformKeys : table'[d][k].at = 0 /\ applied'[d][k].at = 0
    BY <1>8 DEF Kill, TypeOK, Keys, NoEntry, NoEnvelope, Stamped
  <2>3. 0 <= clock
    BY DEF TypeOK, Time
  <2>4. /\ running' = running \ {d} /\ announced' = announced \ {d}
        /\ defaults' = defaults /\ store' = store /\ cloud' = cloud /\ clock' = clock
    BY <1>8 DEF Kill
  <2>5. AtRest'
    BY <2>1, <2>2, <2>4 DEF CloudInv, AtRest
  <2>6. StampsPast' /\ AppliedIsCovered'
    BY <2>1, <2>2, <2>3, <2>4 DEF CloudInv, StampsPast, AppliedIsCovered
  <2>7. NothingMissed' /\ DefaultsFollowTable'
    BY <1>0, <2>1, <2>4 DEF CloudInv, NothingMissed, DefaultsFollowTable
  <2> QED  BY <2>5, <2>6, <2>7 DEF CloudInv
<1>9. ASSUME NEW d \in Devices, Upload(d) PROVE CloudInv'
  BY <1>9 DEF Upload, process, CloudInv, AtRest, StampsPast, AppliedIsCovered, NothingMissed,
     DefaultsFollowTable
<1>10. ASSUME NEW d \in Devices, Download(d) PROVE CloudInv'
  <2>1. \A e \in Devices : store'[e] = IF e = d THEN cloud ELSE store[e]
    BY <1>10 DEF Download, TypeOK
  <2> QED  BY <1>10, <2>1 DEF Download, CloudInv, AtRest, StampsPast, AppliedIsCovered,
           NothingMissed, DefaultsFollowTable
<1>11. CASE UNCHANGED vars
  BY <1>11 DEF vars, process, CloudInv, AtRest, StampsPast, AppliedIsCovered, NothingMissed,
     DefaultsFollowTable
<1> QED  BY <1>2, <1>3, <1>4, <1>5, <1>6, <1>7, <1>8, <1>9, <1>10, <1>11
         DEF Next, Bridge, User, ICloud

\* A device that is not catching up is as new as its copy of the store in every
\* platform key, however applications, exports, observers and restarts interleave.
THEOREM NothingMissedHolds == Spec => []NothingMissed
<1>1. CloudInv => NothingMissed
  BY DEF CloudInv
<1> QED  BY <1>1, InitType, StepType, InitCloud, StepCloud, PTL DEF Spec

\* The defaults agree with the table wherever no observer's handler waits.
THEOREM DefaultsFollowTableHolds == Spec => []DefaultsFollowTable
<1>1. CloudInv => DefaultsFollowTable
  BY DEF CloudInv
<1> QED  BY <1>1, InitType, StepType, InitCloud, StepCloud, PTL DEF Spec

-----------------------------------------------------------------------------
(* Two devices agree when all is quiet.  Everything is said of one rust.* key *)
(* and of the entries known of it, wherever they are: in iCloud, in a        *)
(* device's copy of the store, in a table.                                   *)

Known(k) == {cloud[k]} \cup {store[d][k] : d \in Devices} \cup {table[d][k] : d \in Devices}

\* An entry is signed by the device that exported it, and stamped in the past.
Signed(k) ==
  \A e \in Known(k) : e = NoEntry \/ (e.at > 0 /\ e.at <= clock /\ e.by \in Devices)

\* What is scheduled will be stamped later than all the device has signed.
DueLast(k) ==
  \A d \in Devices : \A e \in Known(k) : due[d] > 0 /\ e.by = d => e.at < due[d]

\* The copy a device exported is the latest it has signed; and until it is
\* uploaded nobody else has it.
LatestIsOwn(k) ==
  \A d \in Devices : store[d][k].by = d =>
    \A e \in Known(k) : e.by = d => e.at < store[d][k].at \/ e = store[d][k]
NotOut(k) ==
  \A d \in dirty :
    /\ store[d][k].by = d
    /\ cloud[k].by = d => cloud[k].at < store[d][k].at
    /\ \A e \in Devices \ {d} :
         /\ store[e][k].by = d => store[e][k].at < store[d][k].at
         /\ table[e][k].by = d => table[e][k].at < store[d][k].at

\* iCloud holds an entry of a device only while that device has not heard of
\* another since.
CloudIsCopy(k) == \A d \in Devices : cloud[k].by = d => cloud = store[d] \/ d \in dirty
CloudFilled(k) == cloud[k] = NoEntry => \A d \in Devices : d \in dirty \/ store[d][k] = NoEntry
StoreFilled(k) == \A d \in running : due[d] > 0 \/ store[d][k] # NoEntry

\* A device whose copy is its own export has the preference it exported.
FileIsOwn(k) ==
  \A d \in running : store[d][k].by = d /\ due[d] = 0 => file[d][k] = store[d][k].value

\* What a device has taken from another is in its table.
RustCovered(k) ==
  \A d \in Devices :
    /\ applied[d][k].by # d => table[d][k].at >= applied[d][k].at
    /\ d \in running \ announced /\ store[d][k].by # d => table[d][k].at >= store[d][k].at
    /\ d \notin running => table[d][k] = NoEntry /\ applied[d] = NoEnvelope

\* A device that has moved on from what it took of another meets only newer
\* entries of that one.
MovedOn(k) ==
  \A d \in running \ dirty : \A e \in Devices \ {d} :
    table[d][k].by = e /\ due[d] = 0 /\ file[d][k] # table[d][k].value =>
      /\ cloud[k].by = e => cloud[k].at > table[d][k].at
      /\ store[d][k].by = e => store[d][k].at > table[d][k].at

AgreeAt(k) ==
  /\ Signed(k) /\ DueLast(k) /\ LatestIsOwn(k) /\ NotOut(k)
  /\ CloudIsCopy(k) /\ CloudFilled(k) /\ StoreFilled(k)
  /\ FileIsOwn(k) /\ RustCovered(k) /\ MovedOn(k)

LEMMA RustEntries ==
  ASSUME TypeOK, NEW k \in RustKeys
  PROVE  /\ clock \in Nat /\ cloud[k].at \in Nat /\ NoEntry.at = 0 /\ NoEntry.by = NoDevice
         /\ \A d \in Devices : /\ store[d][k].at \in Nat /\ table[d][k].at \in Nat
                              /\ applied[d][k].at \in Nat /\ due[d] \in Nat
         /\ \A e \in Known(k) : e.at \in Nat
<1>1. k \in Keys
  BY DEF Keys
<1> QED  BY <1>1, CloudAssumption DEF TypeOK, Envelope, Entry, Time, Known, NoEntry, Stamped

LEMMA InitAgree == ASSUME Init, NEW k \in RustKeys PROVE AgreeAt(k)
<1>1. /\ cloud[k] = NoEntry /\ cloud = NoEnvelope /\ clock = 0 /\ running = {} /\ dirty = {}
      /\ NoEntry.at = 0 /\ NoEntry.by = NoDevice
      /\ \A d \in Devices : /\ store[d] = NoEnvelope /\ store[d][k] = NoEntry
                           /\ table[d][k] = NoEntry /\ applied[d] = NoEnvelope
                           /\ applied[d][k] = NoEntry /\ due[d] = 0
  BY DEF Init, NoEnvelope, NoEntry, Stamped, Keys
<1>2. Known(k) \subseteq {NoEntry}
  BY <1>1 DEF Known
<1> QED  BY <1>1, <1>2, CloudAssumption DEF AgreeAt, Signed, DueLast, LatestIsOwn, NotOut, CloudIsCopy,
         CloudFilled, StoreFilled, FileIsOwn, RustCovered, MovedOn

\* A step that only moves entries about, and schedules no export for the past.
LEMMA Carried ==
  ASSUME TypeOK, NEW k \in RustKeys, AgreeAt(k), clock' \in Nat, clock' >= clock,
         cloud'[k] \in Known(k),
         \A d \in Devices : /\ store'[d][k] \in Known(k)
                            /\ table'[d][k] \in Known(k) \cup {NoEntry}
                            /\ due'[d] \in {due[d], 0} \/ (due'[d] \in Nat /\ due'[d] > clock)
                            /\ store'[d][k].by = d => store'[d][k] = store[d][k]
  PROVE  Signed(k)' /\ DueLast(k)' /\ LatestIsOwn(k)'
<1>0. /\ clock \in Nat /\ cloud[k].at \in Nat /\ NoEntry.at = 0 /\ NoEntry.by = NoDevice
      /\ \A d \in Devices : /\ store[d][k].at \in Nat /\ table[d][k].at \in Nat
                            /\ applied[d][k].at \in Nat /\ due[d] \in Nat
      /\ \A e \in Known(k) : e.at \in Nat
  BY RustEntries
<1>1. Known(k)' \subseteq Known(k) \cup {NoEntry}
  <2>1. Known(k)' = {cloud'[k]} \cup {store'[d][k] : d \in Devices}
                              \cup {table'[d][k] : d \in Devices}
    BY DEF Known
  <2>2. \A d \in Devices : store'[d][k] \in Known(k) /\ table'[d][k] \in Known(k) \cup {NoEntry}
    OBVIOUS
  <2> HIDE DEF Known
  <2> QED  BY <2>1, <2>2
<1>2. Signed(k)'
  BY <1>0, <1>1 DEF AgreeAt, Signed
<1>3. DueLast(k)'
  <2> SUFFICES ASSUME NEW d \in Devices, NEW e \in Known(k)', due'[d] > 0, e.by = d
               PROVE  e.at < due'[d]
    BY DEF DueLast
  <2>1. e \in Known(k) /\ e.at \in Nat /\ e.at <= clock
    BY <1>0, <1>1, CloudAssumption DEF AgreeAt, Signed
  <2>2. due'[d] = due[d] \/ due'[d] = 0 \/ (due'[d] \in Nat /\ due'[d] > clock)
    OBVIOUS
  <2>3. due[d] > 0 => e.at < due[d]
    BY <2>1 DEF AgreeAt, DueLast
  <2> QED  BY <1>0, <2>1, <2>2, <2>3
<1>4. LatestIsOwn(k)'
  <2> SUFFICES ASSUME NEW d \in Devices, store'[d][k].by = d, NEW e \in Known(k)', e.by = d
               PROVE  e.at < store'[d][k].at \/ e = store'[d][k]
    BY DEF LatestIsOwn
  <2>1. store'[d][k] = store[d][k]
    OBVIOUS
  <2>2. e \in Known(k)
    BY <1>0, <1>1, CloudAssumption
  <2> QED  BY <2>1, <2>2 DEF AgreeAt, LatestIsOwn
<1> QED  BY <1>2, <1>3, <1>4

LEMMA ApplyAgrees ==
  ASSUME TypeOK, NEW k \in RustKeys, AgreeAt(k), NEW d \in Devices, Apply(d),
         running' = running \cup {d}, store' = store, cloud' = cloud, clock' = clock,
         dirty' = dirty, announced \subseteq announced' \cup {d},
         \A e \in Devices \ {d} : due'[e] = due[e],
         (due'[d] = due[d] /\ d \in running) \/ due'[d] = clock + 1
  PROVE  AgreeAt(k)'
<1>f. /\ clock \in Nat /\ cloud[k].at \in Nat /\ NoEntry.at = 0 /\ NoEntry.by = NoDevice
      /\ \A x \in Devices : /\ store[x][k].at \in Nat /\ table[x][k].at \in Nat
                            /\ applied[x][k].at \in Nat /\ due[x] \in Nat
      /\ \A e \in Known(k) : e.at \in Nat
  BY RustEntries
<1>1. \A e \in Devices \ {d} : /\ table'[e] = table[e] /\ file'[e] = file[e]
                               /\ applied'[e] = applied[e]
  BY ApplyEffect DEF TypeOK
<1>2. applied'[d] = store[d]
  BY ApplyEffect DEF TypeOK
<1>3. RustTakenOver(d, k) \/ RustLeftAlone(d, k)
  BY ApplyEffect
<1>4. table'[d][k] \in {table[d][k], store[d][k]}
  BY <1>3 DEF RustTakenOver, RustLeftAlone
<1>5. (due'[d] = due[d] /\ d \in running) \/ (due'[d] > clock /\ due'[d] \in Nat /\ due'[d] # 0)
  BY <1>f
<1>6. Signed(k)' /\ DueLast(k)' /\ LatestIsOwn(k)'
  <2>1. cloud'[k] \in Known(k) /\ clock' \in Nat /\ clock' >= clock
    BY <1>f DEF Known
  <2>2. ASSUME NEW e \in Devices
        PROVE  /\ store'[e][k] \in Known(k) /\ table'[e][k] \in Known(k) \cup {NoEntry}
               /\ due'[e] \in {due[e], 0} \/ (due'[e] \in Nat /\ due'[e] > clock)
               /\ store'[e][k].by = e => store'[e][k] = store[e][k]
    <3>1. store[e][k] \in Known(k) /\ table[e][k] \in Known(k) /\ store[d][k] \in Known(k)
      BY DEF Known
    <3>2. table'[e][k] \in Known(k)
      BY <1>1, <1>4, <3>1
    <3>3. due'[e] \in {due[e], 0} \/ (due'[e] \in Nat /\ due'[e] > clock)
      BY <1>5
    <3> QED  BY <3>1, <3>2, <3>3
  <2> QED  BY <2>1, <2>2, Carried
<1>7. NotOut(k)'
  BY <1>1, <1>4 DEF AgreeAt, NotOut
<1>8. CloudIsCopy(k)' /\ CloudFilled(k)'
  BY DEF AgreeAt, CloudIsCopy, CloudFilled
<1>9. StoreFilled(k)'
  <2> SUFFICES ASSUME NEW e \in running', ~(due'[e] > 0) PROVE store[e][k] # NoEntry
    BY DEF StoreFilled
  <2>1. e \in running /\ due'[e] = due[e]
    BY <1>5, <1>f DEF TypeOK
  <2> QED  BY <2>1 DEF AgreeAt, StoreFilled
<1>10. FileIsOwn(k)'
  <2> SUFFICES ASSUME NEW e \in running', store[e][k].by = e, due'[e] = 0
               PROVE  file'[e][k] = store[e][k].value
    BY DEF FileIsOwn
  <2>1. e \in running /\ due[e] = 0
    BY <1>5 DEF TypeOK
  <2>2. file[e][k] = store[e][k].value
    BY <2>1 DEF AgreeAt, FileIsOwn
  <2>3. CASE e # d
    BY <1>1, <2>1, <2>2, <2>3 DEF TypeOK
  <2>4. CASE e = d
    BY <1>3, <2>2, <2>4 DEF RustTakenOver, RustLeftAlone
  <2> QED  BY <2>3, <2>4
<1>11. RustCovered(k)'
  <2>1. applied'[d][k].by # d => table'[d][k].at >= applied'[d][k].at
    BY <1>2, <1>3, <1>f DEF AgreeAt, RustCovered, RustTakenOver, RustLeftAlone
  <2> QED  BY <1>1, <1>2, <2>1 DEF AgreeAt, RustCovered
<1>12. MovedOn(k)'
  <2> SUFFICES ASSUME NEW x \in running' \ dirty, NEW e \in Devices \ {x},
                      table'[x][k].by = e, due'[x] = 0, file'[x][k] # table'[x][k].value
               PROVE  /\ cloud[k].by = e => cloud[k].at > table'[x][k].at
                      /\ store[x][k].by = e => store[x][k].at > table'[x][k].at
    BY DEF MovedOn
  <2>1. x \in running /\ due[x] = 0
    BY <1>5 DEF TypeOK
  <2>2. table'[x][k] = table[x][k] /\ file'[x][k] = file[x][k]
    BY <1>1, <1>3, <2>1 DEF RustTakenOver, RustLeftAlone, TypeOK
  <2> QED  BY <2>1, <2>2 DEF AgreeAt, MovedOn
<1> QED  BY <1>6, <1>7, <1>8, <1>9, <1>10, <1>11, <1>12 DEF AgreeAt

\* An export is stamped later than all its device has signed.
LEMMA ExportAgrees ==
  ASSUME TypeOK, CloudInv, NEW k \in RustKeys, AgreeAt(k), NEW d \in Devices, ExportNow(d)
  PROVE  AgreeAt(k)'
<1>f. /\ clock \in Nat /\ cloud[k].at \in Nat /\ NoEntry.at = 0 /\ NoEntry.by = NoDevice
      /\ \A x \in Devices : /\ store[x][k].at \in Nat /\ table[x][k].at \in Nat
                            /\ applied[x][k].at \in Nat /\ due[x] \in Nat
      /\ \A e \in Known(k) : e.at \in Nat
      /\ \A x \in Devices : store[x][k] \in Known(k) /\ table[x][k] \in Known(k)
      /\ cloud[k] \in Known(k)
  BY RustEntries DEF Known
<1>1. PICK t \in Time : /\ Later(t) /\ t >= due[d]
                        /\ store' = [store EXCEPT ![d] = Snapshot(d, t)]
                        /\ applied' = [applied EXCEPT ![d] = Snapshot(d, t)]
  BY DEF ExportNow
<1> DEFINE new == Stamped(file[d][k], t, d)
<1>2. /\ clock' = t /\ t > 0 /\ t >= clock /\ t \in Nat
  BY <1>1, LaterType DEF Time
<1>3. new.value = file[d][k] /\ new.at = t /\ new.by = d /\ new # NoEntry
  BY CloudAssumption DEF Stamped, NoEntry
<1> HIDE DEF new
<1>4. /\ store'[d][k] = new /\ applied'[d][k] = new
      /\ \A x \in Devices \ {d} : store'[x] = store[x] /\ applied'[x] = applied[x]
  BY <1>1 DEF TypeOK, Snapshot, Keys, new
<1>5. /\ table' = table /\ file' = file /\ cloud' = cloud /\ running' = running
      /\ announced' = announced /\ dirty' = dirty \cup {d} /\ due[d] > 0
      /\ due'[d] = 0 /\ \A x \in Devices \ {d} : due'[x] = due[x]
  BY DEF ExportNow, TypeOK
<1>6. d \in running
  BY <1>5 DEF CloudInv, AtRest
<1>7. Known(k)' \subseteq Known(k) \cup {new}
  <2>1. Known(k)' = {cloud'[k]} \cup {store'[x][k] : x \in Devices}
                              \cup {table'[x][k] : x \in Devices}
    BY DEF Known
  <2>2. \A x \in Devices : store'[x][k] \in Known(k) \cup {new}
    BY <1>4, <1>f
  <2> QED  BY <2>1, <2>2, <1>5, <1>f
<1>8. \A e \in Known(k) : e.by = d => e.at < t
  BY <1>1, <1>2, <1>5, <1>f DEF AgreeAt, DueLast
<1>9. Signed(k)'
  BY <1>2, <1>3, <1>7, <1>f DEF AgreeAt, Signed
<1>10. DueLast(k)'
  BY <1>3, <1>5, <1>7 DEF AgreeAt, DueLast
<1>11. LatestIsOwn(k)'
  BY <1>3, <1>4, <1>7, <1>8 DEF AgreeAt, LatestIsOwn
<1>12. NotOut(k)'
  <2> SUFFICES ASSUME NEW x \in dirty'
               PROVE  /\ store'[x][k].by = x
                      /\ cloud[k].by = x => cloud[k].at < store'[x][k].at
                      /\ \A e \in Devices \ {x} :
                           /\ store'[e][k].by = x => store'[e][k].at < store'[x][k].at
                           /\ table[e][k].by = x => table[e][k].at < store'[x][k].at
    BY <1>5 DEF NotOut
  <2>1. CASE x = d
    BY <2>1, <1>3, <1>4, <1>8, <1>f
  <2>2. CASE x # d
    <3>1. x \in dirty /\ x \in Devices
      BY <2>2, <1>5 DEF TypeOK
    <3>2. ASSUME NEW e \in Devices \ {x}
          PROVE  store'[e][k].by = x => store'[e][k].at < store'[x][k].at
      BY <2>2, <3>1, <1>3, <1>4 DEF AgreeAt, NotOut
    <3> QED  BY <2>2, <3>1, <3>2, <1>4 DEF AgreeAt, NotOut
  <2> QED  BY <2>1, <2>2
<1>13. CloudIsCopy(k)' /\ CloudFilled(k)'
  BY <1>4, <1>5 DEF AgreeAt, CloudIsCopy, CloudFilled
<1>14. StoreFilled(k)' /\ FileIsOwn(k)'
  BY <1>3, <1>4, <1>5 DEF AgreeAt, StoreFilled, FileIsOwn, TypeOK
<1>15. RustCovered(k)'
  BY <1>3, <1>4, <1>5, <1>6 DEF AgreeAt, RustCovered
<1>16. MovedOn(k)'
  <2> SUFFICES ASSUME NEW x \in running \ dirty', NEW e \in Devices \ {x}, table[x][k].by = e,
                      due'[x] = 0, file[x][k] # table[x][k].value
               PROVE  /\ cloud[k].by = e => cloud[k].at > table[x][k].at
                      /\ store'[x][k].by = e => store'[x][k].at > table[x][k].at
    BY <1>5 DEF MovedOn
  <2>1. x # d /\ x \in Devices /\ x \in running \ dirty
    BY <1>5 DEF TypeOK
  <2>2. store'[x] = store[x] /\ due[x] = 0
    BY <1>4, <1>5, <2>1
  <2> QED  BY <2>1, <2>2 DEF AgreeAt, MovedOn
<1> QED  BY <1>9, <1>10, <1>11, <1>12, <1>13, <1>14, <1>15, <1>16 DEF AgreeAt

\* A choice, or a default that changed, only puts off what its device exports.
LEMMA ScheduledAgrees ==
  ASSUME TypeOK, NEW k \in RustKeys, AgreeAt(k), NEW d \in running,
         clock' \in Nat, clock' >= clock, due'[d] \in Nat, due'[d] > clock,
         store' = store, cloud' = cloud, dirty' = dirty, applied' = applied,
         running' = running, announced' = announced,
         \A x \in Devices : table'[x][k] = table[x][k],
         \A x \in Devices \ {d} : file'[x] = file[x] /\ due'[x] = due[x]
  PROVE  AgreeAt(k)'
<1>f. /\ clock \in Nat /\ cloud[k].at \in Nat /\ NoEntry.at = 0 /\ NoEntry.by = NoDevice
      /\ \A x \in Devices : /\ store[x][k].at \in Nat /\ table[x][k].at \in Nat
                            /\ applied[x][k].at \in Nat /\ due[x] \in Nat
      /\ \A e \in Known(k) : e.at \in Nat
      /\ \A x \in Devices : store[x][k] \in Known(k) /\ table[x][k] \in Known(k)
      /\ cloud[k] \in Known(k)
  BY RustEntries DEF Known
<1>1. d \in Devices /\ due'[d] > 0 /\ due'[d] # 0
  BY <1>f DEF TypeOK
<1>2. Signed(k)' /\ DueLast(k)' /\ LatestIsOwn(k)'
  <2>1. ASSUME NEW e \in Devices
        PROVE  /\ store'[e][k] \in Known(k) /\ table'[e][k] \in Known(k) \cup {NoEntry}
               /\ due'[e] \in {due[e], 0} \/ (due'[e] \in Nat /\ due'[e] > clock)
               /\ store'[e][k].by = e => store'[e][k] = store[e][k]
    BY <1>f
  <2> QED  BY <2>1, <1>f, Carried
<1>3. NotOut(k)' /\ CloudIsCopy(k)' /\ CloudFilled(k)'
  BY DEF AgreeAt, NotOut, CloudIsCopy, CloudFilled, TypeOK
<1>4. StoreFilled(k)' /\ FileIsOwn(k)'
  BY <1>1 DEF AgreeAt, StoreFilled, FileIsOwn, TypeOK
<1>5. RustCovered(k)'
  BY <1>1 DEF AgreeAt, RustCovered
<1>6. MovedOn(k)'
  <2> SUFFICES ASSUME NEW x \in running \ dirty, NEW e \in Devices \ {x}, table'[x][k].by = e,
                      due'[x] = 0, file'[x][k] # table'[x][k].value
               PROVE  /\ cloud[k].by = e => cloud[k].at > table'[x][k].at
                      /\ store[x][k].by = e => store[x][k].at > table'[x][k].at
    BY DEF MovedOn
  <2>1. x # d /\ x \in Devices
    BY <1>1 DEF TypeOK
  <2>2. file'[x] = file[x] /\ due[x] = 0 /\ table'[x][k] = table[x][k]
    BY <2>1
  <2> QED  BY <2>2 DEF AgreeAt, MovedOn
<1> QED  BY <1>2, <1>3, <1>4, <1>5, <1>6 DEF AgreeAt

LEMMA KillAgrees ==
  ASSUME TypeOK, NEW k \in RustKeys, AgreeAt(k), NEW d \in Devices, Kill(d)
  PROVE  AgreeAt(k)'
<1>f. /\ clock \in Nat /\ cloud[k].at \in Nat /\ NoEntry.at = 0 /\ NoEntry.by = NoDevice
      /\ \A x \in Devices : /\ store[x][k].at \in Nat /\ table[x][k].at \in Nat
                            /\ applied[x][k].at \in Nat /\ due[x] \in Nat
      /\ \A e \in Known(k) : e.at \in Nat
      /\ \A x \in Devices : store[x][k] \in Known(k) /\ table[x][k] \in Known(k)
      /\ cloud[k] \in Known(k)
  BY RustEntries DEF Known
<1>1. /\ table'[d][k] = NoEntry /\ applied'[d] = NoEnvelope /\ applied'[d][k] = NoEntry
      /\ due'[d] = 0
      /\ \A x \in Devices \ {d} : /\ table'[x] = table[x] /\ applied'[x] = applied[x]
                                 /\ due'[x] = due[x]
  BY DEF Kill, TypeOK, Keys, NoEnvelope
<1>2. /\ running' = running \ {d} /\ announced' = announced \ {d} /\ store' = store
      /\ cloud' = cloud /\ dirty' = dirty /\ file' = file /\ clock' = clock
  BY DEF Kill
<1>3. Signed(k)' /\ DueLast(k)' /\ LatestIsOwn(k)'
  <2>1. ASSUME NEW e \in Devices
        PROVE  /\ store'[e][k] \in Known(k) /\ table'[e][k] \in Known(k) \cup {NoEntry}
               /\ due'[e] \in {due[e], 0} \/ (due'[e] \in Nat /\ due'[e] > clock)
               /\ store'[e][k].by = e => store'[e][k] = store[e][k]
    BY <1>1, <1>2, <1>f
  <2>2. cloud'[k] \in Known(k) /\ clock' \in Nat /\ clock' >= clock
    BY <1>2, <1>f
  <2> QED  BY <2>1, <2>2, Carried
<1>4. NotOut(k)'
  <2>1. NoDevice \notin dirty
    BY CloudAssumption DEF TypeOK
  <2> QED  BY <1>1, <1>2, <1>f, <2>1 DEF AgreeAt, NotOut
<1>5. CloudIsCopy(k)' /\ CloudFilled(k)' /\ StoreFilled(k)' /\ FileIsOwn(k)'
  BY <1>1, <1>2 DEF AgreeAt, CloudIsCopy, CloudFilled, StoreFilled, FileIsOwn, TypeOK
<1>6. RustCovered(k)'
  BY <1>1, <1>2, <1>f DEF AgreeAt, RustCovered
<1>7. MovedOn(k)'
  <2> SUFFICES ASSUME NEW x \in running' \ dirty, NEW e \in Devices \ {x}, table'[x][k].by = e,
                      due'[x] = 0, file[x][k] # table'[x][k].value
               PROVE  /\ cloud[k].by = e => cloud[k].at > table'[x][k].at
                      /\ store[x][k].by = e => store[x][k].at > table'[x][k].at
    BY <1>2 DEF MovedOn
  <2>1. x # d /\ x \in Devices /\ x \in running
    BY <1>2 DEF TypeOK
  <2>2. due[x] = 0 /\ table'[x] = table[x]
    BY <1>1, <2>1
  <2> QED  BY <2>1, <2>2 DEF AgreeAt, MovedOn
<1> QED  BY <1>3, <1>4, <1>5, <1>6, <1>7 DEF AgreeAt

LEMMA UploadAgrees ==
  ASSUME TypeOK, NEW k \in RustKeys, AgreeAt(k), NEW d \in Devices, Upload(d)
  PROVE  AgreeAt(k)'
<1>f. /\ clock \in Nat /\ cloud[k].at \in Nat /\ NoEntry.at = 0 /\ NoEntry.by = NoDevice
      /\ \A x \in Devices : /\ store[x][k].at \in Nat /\ table[x][k].at \in Nat
                            /\ applied[x][k].at \in Nat /\ due[x] \in Nat
      /\ \A e \in Known(k) : e.at \in Nat
      /\ \A x \in Devices : store[x][k] \in Known(k) /\ table[x][k] \in Known(k)
      /\ cloud[k] \in Known(k)
  BY RustEntries DEF Known
<1>1. /\ d \in dirty /\ dirty' = dirty \ {d} /\ cloud' = store[d] /\ store' = store
      /\ table' = table /\ running' = running /\ due' = due /\ applied' = applied
      /\ announced' = announced /\ file' = file /\ clock' = clock
  BY DEF Upload, process
<1>2. store[d][k].by = d /\ cloud'[k].by = d /\ cloud'[k] # NoEntry
  BY <1>1, <1>f, CloudAssumption DEF AgreeAt, NotOut
<1>3. Signed(k)' /\ DueLast(k)' /\ LatestIsOwn(k)'
  <2>1. cloud'[k] \in Known(k) /\ clock' \in Nat /\ clock' >= clock
    BY <1>1, <1>f
  <2>2. ASSUME NEW e \in Devices
        PROVE  /\ store'[e][k] \in Known(k) /\ table'[e][k] \in Known(k) \cup {NoEntry}
               /\ due'[e] \in {due[e], 0} \/ (due'[e] \in Nat /\ due'[e] > clock)
               /\ store'[e][k].by = e => store'[e][k] = store[e][k]
    BY <1>1, <1>f
  <2> QED  BY <2>1, <2>2, Carried
<1>4. NotOut(k)'
  BY <1>1, <1>2 DEF AgreeAt, NotOut
<1>5. CloudIsCopy(k)' /\ CloudFilled(k)'
  BY <1>1, <1>2 DEF AgreeAt, CloudIsCopy, CloudFilled
<1>6. StoreFilled(k)' /\ FileIsOwn(k)' /\ RustCovered(k)'
  BY <1>1 DEF AgreeAt, StoreFilled, FileIsOwn, RustCovered
<1>7. MovedOn(k)'
  <2> SUFFICES ASSUME NEW x \in running \ dirty', NEW e \in Devices \ {x}, table[x][k].by = e,
                      due[x] = 0, file[x][k] # table[x][k].value
               PROVE  /\ cloud'[k].by = e => cloud'[k].at > table[x][k].at
                      /\ store[x][k].by = e => store[x][k].at > table[x][k].at
    BY <1>1 DEF MovedOn
  <2>1. CASE x = d
    BY <1>2, <2>1
  <2>2. CASE x # d
    <3>1. x \in running \ dirty /\ x \in Devices
      BY <1>1, <2>2 DEF TypeOK
    <3>2. store[x][k].by = e => store[x][k].at > table[x][k].at
      BY <3>1 DEF AgreeAt, MovedOn
    <3>3. e = d => store[d][k].at > table[x][k].at
      BY <1>1, <2>2, <3>1, <1>f DEF AgreeAt, NotOut
    <3> QED  BY <1>1, <1>2, <3>2, <3>3
  <2> QED  BY <2>1, <2>2
<1> QED  BY <1>3, <1>4, <1>5, <1>6, <1>7 DEF AgreeAt

LEMMA DownloadAgrees ==
  ASSUME TypeOK, NEW k \in RustKeys, AgreeAt(k), NEW d \in Devices, Download(d)
  PROVE  AgreeAt(k)'
<1>f. /\ clock \in Nat /\ cloud[k].at \in Nat /\ NoEntry.at = 0 /\ NoEntry.by = NoDevice
      /\ \A x \in Devices : /\ store[x][k].at \in Nat /\ table[x][k].at \in Nat
                            /\ applied[x][k].at \in Nat /\ due[x] \in Nat
      /\ \A e \in Known(k) : e.at \in Nat
      /\ \A x \in Devices : store[x][k] \in Known(k) /\ table[x][k] \in Known(k)
      /\ cloud[k] \in Known(k)
  BY RustEntries DEF Known
<1>1. /\ d \notin dirty /\ dirty' = dirty /\ store[d] # cloud /\ cloud' = cloud
      /\ table' = table /\ running' = running /\ due' = due /\ applied' = applied
      /\ file' = file /\ clock' = clock
      /\ announced \subseteq announced' /\ (d \in running => d \in announced')
      /\ store'[d] = cloud /\ \A x \in Devices \ {d} : store'[x] = store[x]
  BY DEF Download, TypeOK
<1>2. cloud[k].by # d
  BY <1>1 DEF AgreeAt, CloudIsCopy
<1>3. Signed(k)' /\ DueLast(k)' /\ LatestIsOwn(k)'
  <2>1. cloud'[k] \in Known(k) /\ clock' \in Nat /\ clock' >= clock
    BY <1>1, <1>f
  <2>2. ASSUME NEW e \in Devices
        PROVE  /\ store'[e][k] \in Known(k) /\ table'[e][k] \in Known(k) \cup {NoEntry}
               /\ due'[e] \in {due[e], 0} \/ (due'[e] \in Nat /\ due'[e] > clock)
               /\ store'[e][k].by = e => store'[e][k] = store[e][k]
    BY <1>1, <1>2, <1>f
  <2> QED  BY <2>1, <2>2, Carried
<1>4. NotOut(k)'
  <2> SUFFICES ASSUME NEW x \in dirty
               PROVE  /\ store'[x][k].by = x
                      /\ cloud[k].by = x => cloud[k].at < store'[x][k].at
                      /\ \A e \in Devices \ {x} :
                           /\ store'[e][k].by = x => store'[e][k].at < store'[x][k].at
                           /\ table[e][k].by = x => table[e][k].at < store'[x][k].at
    BY <1>1 DEF NotOut
  <2>1. x # d /\ x \in Devices /\ store'[x] = store[x]
    BY <1>1 DEF TypeOK
  <2>2. cloud[k].by = x => cloud[k].at < store[x][k].at
    BY DEF AgreeAt, NotOut
  <2>3. \A e \in Devices \ {x} : store'[e][k].by = x => store'[e][k].at < store[x][k].at
    BY <1>1, <2>1, <2>2 DEF AgreeAt, NotOut
  <2> QED  BY <2>1, <2>2, <2>3 DEF AgreeAt, NotOut
<1>5. CloudIsCopy(k)' /\ CloudFilled(k)'
  BY <1>1, <1>2 DEF AgreeAt, CloudIsCopy, CloudFilled
<1>6. StoreFilled(k)'
  BY <1>1 DEF AgreeAt, StoreFilled, CloudFilled, TypeOK
<1>7. FileIsOwn(k)'
  BY <1>1, <1>2 DEF AgreeAt, FileIsOwn, TypeOK
<1>8. RustCovered(k)'
  BY <1>1 DEF AgreeAt, RustCovered
<1>9. MovedOn(k)'
  <2> SUFFICES ASSUME NEW x \in running \ dirty, NEW e \in Devices \ {x}, table[x][k].by = e,
                      due[x] = 0, file[x][k] # table[x][k].value
               PROVE  /\ cloud[k].by = e => cloud[k].at > table[x][k].at
                      /\ store'[x][k].by = e => store'[x][k].at > table[x][k].at
    BY <1>1 DEF MovedOn
  <2>1. x \in Devices
    BY DEF TypeOK
  <2>2. /\ cloud[k].by = e => cloud[k].at > table[x][k].at
        /\ store[x][k].by = e => store[x][k].at > table[x][k].at
    BY DEF AgreeAt, MovedOn
  <2>3. store'[x] = cloud \/ store'[x] = store[x]
    BY <1>1, <2>1
  <2> QED  BY <2>2, <2>3
<1> QED  BY <1>3, <1>4, <1>5, <1>6, <1>7, <1>8, <1>9 DEF AgreeAt

AgreeInv == \A k \in RustKeys : AgreeAt(k)

LEMMA StepAgree == TypeOK /\ CloudInv /\ AgreeInv /\ [Next]_vars => AgreeInv'
<1> SUFFICES ASSUME TypeOK, CloudInv, [Next]_vars, NEW k \in RustKeys, AgreeAt(k)
             PROVE  AgreeAt(k)'
  BY DEF AgreeInv
<1>0. clock \in Nat /\ running \subseteq Devices
  BY CloudAssumption DEF TypeOK, Time
<1>1. ASSUME NEW d \in Devices, Start(d) PROVE AgreeAt(k)'
  <2>1. due'[d] = clock + 1 /\ \A e \in Devices \ {d} : due'[e] = due[e]
    BY <1>1 DEF Start, Schedule, TypeOK
  <2> QED  BY <1>1, <2>1, ApplyAgrees DEF Start
<1>2. ASSUME NEW d \in Devices, HandleExternalChange(d) PROVE AgreeAt(k)'
  <2>1. d \in running /\ running = running \cup {d}
    BY <1>2 DEF HandleExternalChange, TypeOK
  <2> QED  BY <1>2, <2>1, ApplyAgrees DEF HandleExternalChange
<1>3. ASSUME NEW d \in Devices, ExportNow(d) PROVE AgreeAt(k)'
  BY <1>3, ExportAgrees
<1>4. ASSUME NEW d \in Devices, NEW j \in PlatformKeys, HandleLocalDefaultsChange(d, j)
      PROVE  AgreeAt(k)'
  <2>1. PICK t \in Time : /\ Later(t)
                          /\ table' = [table EXCEPT ![d][j] = Stamped(defaults[d][j], t, NoDevice)]
                          /\ due' = [due EXCEPT ![d] = t + 1]
    BY <1>4 DEF HandleLocalDefaultsChange
  <2>2. j # k
    BY CloudAssumption
  <2>3. clock' \in Nat /\ clock' >= clock /\ due'[d] \in Nat /\ due'[d] > clock
    BY <1>0, <2>1, LaterType DEF TypeOK, Time
  <2>4. \A x \in Devices : table'[x][k] = table[x][k]
    BY <2>1, <2>2 DEF TypeOK, Keys
  <2>5. d \in running
    BY <1>4 DEF HandleLocalDefaultsChange, CloudInv, AtRest
  <2>6. \A x \in Devices \ {d} : file'[x] = file[x] /\ due'[x] = due[x]
    BY <1>4, <2>1 DEF HandleLocalDefaultsChange, TypeOK
  <2> QED  BY <1>4, <2>3, <2>4, <2>5, <2>6, ScheduledAgrees DEF HandleLocalDefaultsChange
<1>5. ASSUME NEW d \in Devices, NEW j \in RustKeys, ChoosePreference(d, j) PROVE AgreeAt(k)'
  <2>1. due'[d] = clock + 1 /\ d \in running
    BY <1>5 DEF ChoosePreference, Schedule, TypeOK
  <2>2. \A x \in Devices \ {d} : file'[x] = file[x] /\ due'[x] = due[x]
    BY <1>5 DEF ChoosePreference, Schedule, TypeOK
  <2>3. clock' = clock /\ due'[d] \in Nat /\ due'[d] > clock
    BY <1>0, <1>5, <2>1 DEF ChoosePreference
  <2> QED  BY <1>0, <1>5, <2>1, <2>2, <2>3, ScheduledAgrees DEF ChoosePreference
<1>6. ASSUME NEW d \in Devices, NEW j \in PlatformKeys, ChooseDefault(d, j) PROVE AgreeAt(k)'
  <2>1. /\ file' = file /\ table' = table /\ running' = running /\ due' = due
        /\ applied' = applied /\ announced' = announced /\ store' = store /\ dirty' = dirty
        /\ cloud' = cloud /\ clock' = clock
    BY <1>6 DEF ChooseDefault
  <2> QED  BY <2>1 DEF AgreeAt, Signed, DueLast, LatestIsOwn, NotOut, CloudIsCopy, CloudFilled,
           StoreFilled, FileIsOwn, RustCovered, MovedOn, Known
<1>7. ASSUME NEW d \in Devices, Kill(d) PROVE AgreeAt(k)'
  BY <1>7, KillAgrees
<1>8. ASSUME NEW d \in Devices, Upload(d) PROVE AgreeAt(k)'
  BY <1>8, UploadAgrees
<1>9. ASSUME NEW d \in Devices, Download(d) PROVE AgreeAt(k)'
  BY <1>9, DownloadAgrees
<1>10. CASE UNCHANGED vars
  <2>1. /\ file' = file /\ table' = table /\ running' = running /\ due' = due
        /\ applied' = applied /\ announced' = announced /\ store' = store /\ dirty' = dirty
        /\ cloud' = cloud /\ clock' = clock
    BY <1>10 DEF vars, process
  <2> QED  BY <2>1 DEF AgreeAt, Signed, DueLast, LatestIsOwn, NotOut, CloudIsCopy, CloudFilled,
           StoreFilled, FileIsOwn, RustCovered, MovedOn, Known
<1> QED  BY <1>1, <1>2, <1>3, <1>4, <1>5, <1>6, <1>7, <1>8, <1>9, <1>10
         DEF Next, Bridge, User, ICloud

\* The one whose export iCloud does not hold has what the other exported, or
\* refuses it.
LEMMA QuietPair ==
  ASSUME TypeOK, NEW k \in RustKeys, AgreeAt(k), Quiet, NEW d \in Devices, NEW e \in Devices,
         Devices = {d, e}, cloud[k].by = d
  PROVE  file[d][k] = file[e][k] \/ Refuses(e, k)
<1>f. /\ clock \in Nat /\ cloud[k].at \in Nat /\ NoEntry.at = 0 /\ NoEntry.by = NoDevice
      /\ \A x \in Devices : /\ store[x][k].at \in Nat /\ table[x][k].at \in Nat
                            /\ applied[x][k].at \in Nat /\ due[x] \in Nat
      /\ \A n \in Known(k) : n.at \in Nat
      /\ \A x \in Devices : store[x][k] \in Known(k) /\ table[x][k] \in Known(k)
      /\ cloud[k] \in Known(k)
  BY RustEntries DEF Known
<1>1. /\ d \in running /\ e \in running /\ due[d] = 0 /\ due[e] = 0
      /\ store[d] = cloud /\ store[e] = cloud /\ e \notin announced /\ e \notin dirty
  BY DEF Quiet
<1>2. file[d][k] = cloud[k].value
  BY <1>1 DEF AgreeAt, FileIsOwn
<1>3. CASE e # d
  <2>1. table[e][k].at >= cloud[k].at /\ cloud[k].at > 0
    BY <1>1, <1>3, <1>f, CloudAssumption DEF AgreeAt, RustCovered, Signed
  <2> SUFFICES ASSUME ~Refuses(e, k) PROVE file[d][k] = file[e][k]
    OBVIOUS
  <2>2. table[e][k].by = d
    BY <1>3, <2>1, <1>f DEF AgreeAt, Signed, Refuses
  <2>3. table[e][k] = cloud[k]
    BY <1>1, <2>1, <2>2, <1>f DEF AgreeAt, LatestIsOwn
  <2>4. file[e][k] = table[e][k].value
    BY <1>1, <1>3, <1>f, <2>1, <2>2, <2>3 DEF AgreeAt, MovedOn
  <2> QED  BY <1>2, <2>3, <2>4
<1> QED  BY <1>3

LEMMA QuietAgrees ==
  ASSUME TypeOK, AgreeInv, NEW d \in Devices, NEW e \in Devices, Devices = {d, e}
  PROVE  QuietDevicesAgree
<1>1. ASSUME Quiet, NEW k \in RustKeys
      PROVE  \A x, y \in Devices : file[x][k] = file[y][k] \/ Refuses(x, k) \/ Refuses(y, k)
  <2>1. AgreeAt(k)
    BY DEF AgreeInv
  <2>2. cloud[k] # NoEntry
    BY <1>1, <2>1 DEF Quiet, AgreeAt, StoreFilled
  <2>3. cloud[k].by \in {d, e}
    BY <2>1, <2>2 DEF AgreeAt, Signed, Known
  <2>4. file[d][k] = file[e][k] \/ Refuses(d, k) \/ Refuses(e, k)
    BY <1>1, <2>1, <2>3, QuietPair
  <2> QED  BY <2>4
<1> QED  BY <1>1 DEF QuietDevicesAgree

\* Two devices whose exports, uploads, downloads and restarts may cross as they
\* like have the same preferences when all is quiet, except where a restarted one
\* holds its own export, applied again, against what iCloud has in the end.
THEOREM QuietDevicesAgreeHolds ==
  ASSUME \E d, e \in Devices : Devices = {d, e}
  PROVE  Spec => []QuietDevicesAgree
<1>1. TypeOK /\ AgreeInv => QuietDevicesAgree
  BY QuietAgrees
<1>2. Init => AgreeInv
  BY InitAgree DEF AgreeInv
<1> QED  BY <1>1, <1>2, InitType, StepType, InitCloud, StepCloud, StepAgree, PTL DEF Spec
=============================================================================
