------------------------------ MODULE CloudSync ------------------------------
(***************************************************************************)
(* The synchronisation of settings between a user's devices: the envelope  *)
(* and its merge (cloud_sync/mod.rs), the preferences file under it        *)
(* (preferences.rs), and the iOS application's bridge between them,        *)
(* UserDefaults and the iCloud key-value store (CloudKVSBridge.swift).     *)
(*                                                                         *)
(* The bridge, the export and the apply run on the main actor without an   *)
(* await in between, so each handler is one action.  iCloud is external:   *)
(* it holds one envelope, takes a device's when it can and hands the last  *)
(* one to the others; a device keeps its copy while the application is not *)
(* running.                                                                *)
(*                                                                         *)
(* Abstracted: what is chosen (a value is the number of the user's choice, *)
(* in the order the choices were made on all devices together, 0 for the   *)
(* default), JSON, keys outside the two sets, envelopes of another version *)
(* or that do not decode (all ignored).  The clocks of the devices agree.  *)
(***************************************************************************)
EXTENDS Integers

CONSTANTS
  Devices,
  NoDevice,      \* the empty source_device of a platform key
  RustKeys,      \* the rust.* keys: fields of mobile_prefs.json
  PlatformKeys,  \* PLATFORM_KEYS: the UserDefaults keys that are synchronised
  MaxChoices,    \* bound on the choices the user makes
  MaxKills,      \* bound on the times a process is killed
  MaxTime        \* bound on the clock

ASSUME CloudAssumption ==
  /\ NoDevice \notin Devices
  /\ RustKeys \cap PlatformKeys = {}
  /\ MaxChoices \in Nat /\ MaxKills \in Nat /\ MaxTime \in Nat

VARIABLES
  file,       \* mobile_prefs.json of each device
  defaults,   \* its UserDefaults
  table,      \* PLATFORM_TABLE of its process
  running,    \* the devices whose application runs
  observed,   \* keys whose observer has a handleLocalDefaultsChange waiting
  due,        \* when the debounced export may run, 0 if none is scheduled
  applied,    \* lastAppliedEnvelopeHash
  store,      \* the device's copy of the key-value store
  dirty,      \* the devices whose copy has yet to reach iCloud
  announced,  \* the devices with a didChangeExternally notification waiting
  cloud,      \* the envelope iCloud holds
  clock, choices, kills

process == <<table, running, observed, due, applied, announced>>
vars == <<file, defaults, process, store, dirty, cloud, clock, choices, kills>>

-----------------------------------------------------------------------------
(* Entries and envelopes.                                                  *)

Keys   == RustKeys \cup PlatformKeys
Value  == 0 .. MaxChoices
Time   == 0 .. MaxTime

\* CloudEntry.  Stamps begin at 1: an entry stamped 0 stands for none.
Entry   == [value : Value, at : Time, by : Devices \cup {NoDevice}]
Stamped(v, t, d) == [value |-> v, at |-> t, by |-> d]
NoEntry == Stamped(0, 0, NoDevice)

\* CloudSnapshot.
Envelope   == [Keys -> Entry]
NoEnvelope == [k \in Keys |-> NoEntry]

\* Mutant: a preference keeps the stamp it was last seen with.
SnapshotKeepingStamps(d, t) ==
  [k \in Keys |-> IF k \notin RustKeys THEN table[d][k]
                  ELSE Stamped(file[d][k], IF table[d][k].at = 0 THEN t ELSE table[d][k].at, d)]

\* build_snapshot: the table's platform keys as they are stamped there, and
\* every field of the file stamped with the time of the export.
Snapshot(d, t) ==
  [k \in Keys |-> IF k \in RustKeys THEN Stamped(file[d][k], t, d) ELSE table[d][k]]

\* The keys of an envelope that win over a device's table.  A tie goes to the
\* local side for a rust.* key (merge_rust_key) and to the remote side for a
\* platform key (apply_snapshot).
Winning(d, env) ==
  {k \in RustKeys : env[k].at > table[d][k].at} \cup
  {k \in PlatformKeys : env[k].at > 0 /\ ~(table[d][k].at > env[k].at)}

Init ==
  /\ file = [d \in Devices |-> [k \in RustKeys |-> 0]]
  /\ defaults = [d \in Devices |-> [k \in PlatformKeys |-> 0]]
  /\ table = [d \in Devices |-> [k \in Keys |-> NoEntry]]
  /\ running = {}
  /\ observed = [d \in Devices |-> {}]
  /\ due = [d \in Devices |-> 0]
  /\ applied = [d \in Devices |-> NoEnvelope]
  /\ store = [d \in Devices |-> NoEnvelope]
  /\ dirty = {} /\ announced = {}
  /\ cloud = NoEnvelope
  /\ clock = 0 /\ choices = 0 /\ kills = 0

-----------------------------------------------------------------------------
(* The bridge.                                                             *)

\* scheduleExport: the export runs debounceInterval after the last call.
Schedule(d) == due' = [due EXCEPT ![d] = clock + 1]

\* Mutant: only what is strictly newer is written back.
ApplyWithoutTies(d) ==
  LET env  == store[d]
      wins == IF env = applied[d] THEN {} ELSE Winning(d, env)
      new  == [k \in PlatformKeys |-> IF k \in wins /\ env[k].at > table[d][k].at
                                      THEN env[k].value ELSE defaults[d][k]]
  IN  /\ table' = [table EXCEPT ![d] = [k \in Keys |-> IF k \in wins THEN env[k] ELSE table[d][k]]]
      /\ file' = [file EXCEPT ![d] = [k \in RustKeys |-> IF k \in wins THEN env[k].value
                                                           ELSE file[d][k]]]
      /\ defaults' = [defaults EXCEPT ![d] = new]
      /\ observed' = [observed EXCEPT ![d] = @ \cup {k \in PlatformKeys : new[k] # defaults[d][k]}]
      /\ applied' = [applied EXCEPT ![d] = env]

\* applyEnvelopeFromStore, with apply_snapshot and applyWritebacks.  Setting a
\* default to another value wakes its observer, whose handler is queued on the
\* main actor and runs when isApplyingRemoteUpdate is false again.
Apply(d) ==
  LET env  == store[d]
      wins == IF env = applied[d] THEN {} ELSE Winning(d, env)
      new  == [k \in PlatformKeys |-> IF k \in wins THEN env[k].value ELSE defaults[d][k]]
  IN  /\ table' = [table EXCEPT ![d] = [k \in Keys |-> IF k \in wins THEN env[k] ELSE table[d][k]]]
      /\ file' = [file EXCEPT ![d] = [k \in RustKeys |-> IF k \in wins THEN env[k].value
                                                           ELSE file[d][k]]]
      /\ defaults' = [defaults EXCEPT ![d] = new]
      /\ observed' = [observed EXCEPT ![d] = @ \cup {k \in PlatformKeys : new[k] # defaults[d][k]}]
      /\ applied' = [applied EXCEPT ![d] = env]

\* start: the observers are set up, what the store holds is applied, and an
\* export is scheduled whether or not anything changed.
Start(d) ==
  /\ d \notin running
  /\ running' = running \cup {d}
  /\ Apply(d)
  /\ Schedule(d)
  /\ UNCHANGED <<announced, store, dirty, cloud, clock, choices, kills>>

\* handleExternalChange, on the main actor after the notification.
HandleExternalChange(d) ==
  /\ d \in announced
  /\ announced' = announced \ {d}
  /\ Apply(d)
  /\ UNCHANGED <<running, due, store, dirty, cloud, clock, choices, kills>>

\* A stamp is taken now or a while later.
Later(t) == t \in {clock, clock + 1} \cap 1 .. MaxTime /\ clock' = t

\* handleLocalDefaultsChange reads the default as it is by then; its value gets
\* the present time (update_platform_value), whoever set it.
HandleLocalDefaultsChange(d, k) ==
  /\ k \in observed[d]
  /\ observed' = [observed EXCEPT ![d] = @ \ {k}]
  /\ \E t \in Time :
       /\ Later(t)
       /\ table' = [table EXCEPT ![d][k] = Stamped(defaults[d][k], t, NoDevice)]
       /\ due' = [due EXCEPT ![d] = t + 1]
  /\ UNCHANGED <<file, defaults, running, applied, announced, store, dirty, cloud, choices, kills>>

\* exportNow: the device's copy of the store is overwritten, and remembered so
\* that it is not applied when it comes back.
ExportNow(d) ==
  /\ due[d] > 0
  /\ \E t \in Time :
       /\ Later(t) /\ t >= due[d]
       /\ store' = [store EXCEPT ![d] = Snapshot(d, t)]
       /\ applied' = [applied EXCEPT ![d] = Snapshot(d, t)]
  /\ due' = [due EXCEPT ![d] = 0]
  /\ dirty' = dirty \cup {d}
  /\ UNCHANGED <<file, defaults, table, running, observed, announced, cloud, choices, kills>>

-----------------------------------------------------------------------------
(* The user.                                                               *)

\* A preferences_* call writes the file; the store objects that make it tell
\* the bridge (notifyRustPreferencesChanged).
ChoosePreference(d, k) ==
  /\ d \in running /\ choices < MaxChoices
  /\ choices' = choices + 1
  /\ file' = [file EXCEPT ![d][k] = choices']
  /\ Schedule(d)
  /\ UNCHANGED <<defaults, table, running, observed, applied, announced, store, dirty, cloud,
                 clock, kills>>

ChooseDefault(d, k) ==
  /\ d \in running /\ choices < MaxChoices
  /\ choices' = choices + 1
  /\ defaults' = [defaults EXCEPT ![d][k] = choices']
  /\ observed' = [observed EXCEPT ![d] = @ \cup {k}]
  /\ UNCHANGED <<file, table, running, due, applied, announced, store, dirty, cloud, clock, kills>>

\* Mutant: the hash of the last envelope outlives the process.
KillKeepingHash(d) ==
  /\ d \in running /\ kills < MaxKills
  /\ kills' = kills + 1
  /\ running' = running \ {d} /\ announced' = announced \ {d}
  /\ table' = [table EXCEPT ![d] = [k \in Keys |-> NoEntry]]
  /\ observed' = [observed EXCEPT ![d] = {}]
  /\ due' = [due EXCEPT ![d] = 0]
  /\ UNCHANGED <<file, defaults, applied, store, dirty, cloud, clock, choices>>

\* The process ends: what is only in its memory is gone.
Kill(d) ==
  /\ d \in running /\ kills < MaxKills
  /\ kills' = kills + 1
  /\ running' = running \ {d} /\ announced' = announced \ {d}
  /\ table' = [table EXCEPT ![d] = [k \in Keys |-> NoEntry]]
  /\ observed' = [observed EXCEPT ![d] = {}]
  /\ due' = [due EXCEPT ![d] = 0]
  /\ applied' = [applied EXCEPT ![d] = NoEnvelope]
  /\ UNCHANGED <<file, defaults, store, dirty, cloud, clock, choices>>

-----------------------------------------------------------------------------
(* iCloud.                                                                 *)

Upload(d) ==
  /\ d \in dirty
  /\ dirty' = dirty \ {d}
  /\ cloud' = store[d]
  /\ UNCHANGED <<file, defaults, process, store, clock, choices, kills>>

Download(d) ==
  /\ d \notin dirty /\ store[d] # cloud
  /\ store' = [store EXCEPT ![d] = cloud]
  /\ announced' = IF d \in running THEN announced \cup {d} ELSE announced
  /\ UNCHANGED <<file, defaults, table, running, observed, due, applied, dirty, cloud, clock,
                 choices, kills>>

-----------------------------------------------------------------------------
Bridge(d) ==
  \/ Start(d) \/ HandleExternalChange(d) \/ ExportNow(d)
  \/ \E k \in PlatformKeys : HandleLocalDefaultsChange(d, k)
User(d) ==
  \/ \E k \in RustKeys : ChoosePreference(d, k)
  \/ \E k \in PlatformKeys : ChooseDefault(d, k)
  \/ Kill(d)
ICloud(d) == Upload(d) \/ Download(d)

Next == \E d \in Devices : Bridge(d) \/ User(d) \/ ICloud(d)

Spec == Init /\ [][Next]_vars

-----------------------------------------------------------------------------
(* Properties.                                                             *)

TypeOK ==
  /\ file \in [Devices -> [RustKeys -> Value]]
  /\ defaults \in [Devices -> [PlatformKeys -> Value]]
  /\ table \in [Devices -> [Keys -> Entry]]
  /\ running \subseteq Devices /\ dirty \subseteq Devices /\ announced \subseteq running
  /\ observed \in [Devices -> SUBSET PlatformKeys]
  /\ due \in [Devices -> 0 .. MaxTime + 1]
  /\ applied \in [Devices -> Envelope] /\ store \in [Devices -> Envelope] /\ cloud \in Envelope
  /\ clock \in Time /\ choices \in Value /\ kills \in 0 .. MaxKills

\* Between its handlers, a running application is behind its copy of the store in
\* no platform key: neither the hash that saves it from applying its own export nor
\* the loss of its table in a restart hides a newer entry from it.
NothingMissed ==
  \A d \in running \ announced : \A k \in PlatformKeys :
    table[d][k].at >= store[d][k].at

\* The application shows what it will export: a default differs from the table
\* only while its observer's handler waits.
DefaultsFollowTable ==
  \A d \in running : \A k \in PlatformKeys \ observed[d] :
    table[d][k].at > 0 => defaults[d][k] = table[d][k].value

\* Nothing is under way on any device or in iCloud.
Quiet ==
  /\ running = Devices /\ dirty = {} /\ announced = {}
  /\ \A d \in Devices : due[d] = 0 /\ observed[d] = {} /\ store[d] = cloud

\* A device that was restarted has applied its own export again, and holds its
\* stamp against another's older export that reached iCloud after its own.
Refuses(d, k) ==
  table[d][k].by = d /\ cloud[k].by # d /\ table[d][k].at >= cloud[k].at

\* When all is quiet two devices have the same preferences, whatever exports,
\* uploads and restarts crossed; except where one refuses what iCloud holds.
QuietDevicesAgree ==
  Quiet => \A d, e \in Devices : \A k \in RustKeys :
             file[d][k] = file[e][k] \/ Refuses(d, k) \/ Refuses(e, k)

\* Expected to fail.  cloud_sync/mod.rs:145-147 says of the stamps of the
\* preferences that "The merge is still correct - the newer side (whichever
\* device just changed) wins because its export happens after its local write":
\* no device goes back from a later choice to an earlier one.
NewerChoiceWins ==
  [][\A d \in Devices : \A k \in RustKeys : file'[d][k] >= file[d][k]]_vars

=============================================================================
