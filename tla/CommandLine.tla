----------------------------- MODULE CommandLine -----------------------------
(***************************************************************************)
(* The program without its window: a run finds the device its arguments    *)
(* name, reads it, stores the settings they give in its two keys and may   *)
(* restart it, one run after another.  Between any two steps of a run      *)
(* other processes (windows, other runs, regedit) may change any key, a    *)
(* registry call may fail, and the run may be killed.                      *)
(*                                                                         *)
(* Reading a device, and a setter, are a step each.  What others change    *)
(* between the calls of one is told as changes before and after it, which  *)
(* may leave any value in a key, so also what such an overlap leaves; so   *)
(* is the half of a setter that a run did before it was killed in it.      *)
(***************************************************************************)
EXTENDS DeviceSettings, Integers

CONSTANTS
  Device,           \* the devices that have an interrupt
  InterruptTypeMap, \* the interrupt types each device supports
  Name,             \* names of devices, and
  NoName,           \* the empty name, of a flag left out or a name that cannot be read
  DevObjName,       \* the name -devobj is compared with; more devices may share one
  InitialEntry,     \* what the registry may hold of a device at first, and
  OthersEntry,      \* what other processes may leave in its keys
  Args,             \* the command lines
  Junk,             \* an item of -cpu that is not a number
  Beyond,           \* a number in -cpu that no logical processor has
  FaultyDevice      \* the devices for which a call may fail

Omitted == -1
Number  == Nat \union {Omitted}

Arguments ==
  [devobj : Name, cpu : SUBSET (Bit \union {Junk, Beyond}),
   priority : Number, policy : Number,
   msisupported : {Omitted, MSI_Off, MSI_On, MSI_Tristate, MSI_Invalid},
   msilimit : Number, restart : BOOLEAN, restartOnChange : BOOLEAN]

ASSUME CommandLineAssumption ==
  /\ InterruptTypeMap \in [Device -> SUBSET InterruptType]
  /\ InitialEntry \subseteq Entry
  /\ OthersEntry \subseteq Entry
  /\ FaultyDevice \subseteq Device
  /\ Device # {} /\ Args # {}
  /\ NoName \in Name /\ DevObjName \in [Device -> Name]
  /\ Junk \notin Bit /\ Beyond \notin Bit
  /\ Args \subseteq Arguments

VARIABLES
  registry, \* what is stored of each device
  run       \* what the run is doing

vars == <<registry, run>>

(***************************************************************************)
(* The state of a run: the step it takes next, its arguments, the device   *)
(* it found, the settings its setters update (orgItem) and those it stores *)
(* (newItem) and the restarts it asked for; and as history the registry    *)
(* when it began, the keys other processes changed since, and whether one  *)
(* of its calls may have failed.  A run that has ended leaves nothing.     *)
(***************************************************************************)
Key   == {"msi", "affinity"}
Phase == {"ended", "find", "msi", "affinity", "restart", "done", "refused"}

Run ==
  [pc : Phase, args : Args, target : Device, orgItem : Settings, newItem : Settings,
   restarts : 0 .. 2, before : [Device -> Entry],
   disturbed : SUBSET (Device \X Key), failed : BOOLEAN]

NoItem ==
  [DevicePolicy |-> 0, DevicePriority |-> 0, AssignmentSetOverride |-> {},
   MsiSupported |-> MSI_Invalid, MessageNumberLimit |-> 0]

NoRun ==
  [pc |-> "ended", args |-> CHOOSE a \in Args : TRUE, target |-> CHOOSE d \in Device : TRUE,
   orgItem |-> NoItem, newItem |-> NoItem, restarts |-> 0,
   before |-> [d \in Device |-> [affinity |-> Absent, msi |-> Absent]],
   disturbed |-> {}, failed |-> FALSE]

\* The flags of each key; -cpu is one only if it sets a bit of the mask.
GivenMask(a)    == a.cpu \intersect Bit
AsksAlways(a)   == TRUE
AsksMsi(a)      == a.msisupported # Omitted \/ a.msilimit # Omitted
AsksAffinity(a) == a.policy # Omitted \/ a.priority # Omitted \/ GivenMask(a) # {}

\* Without any of these flags, of which -cpu is not one, the window opens.
CLIMode(a) ==
  \/ a.devobj # NoName
  \/ {a.priority, a.policy, a.msisupported, a.msilimit} # {Omitted}
  \/ a.restart \/ a.restartOnChange

Init ==
  /\ registry \in [Device -> InitialEntry]
  /\ run = NoRun

-----------------------------------------------------------------------------
Launch(a) ==
  /\ run.pc = "ended"
  /\ CLIMode(a)
  /\ run' = [NoRun EXCEPT !.pc = "find", !.args = a, !.before = registry]
  /\ UNCHANGED registry

\* A call of another process changes a key.
Others(d, key, entry) ==
  /\ entry[key] # registry[d][key]
  /\ registry' = [registry EXCEPT ![d] = [@ EXCEPT ![key] = entry[key]]]
  /\ run' = IF run.pc = "ended" THEN run
            ELSE [run EXCEPT !.disturbed = @ \union {<<d, key>>}]

\* The first device with the name, of those that share it the one Windows
\* lists first; what is read of it is all the run will know of the registry.
\* A processor that does not exist ends the run by a panic.
Named == {d \in Device : DevObjName[d] = run.args.devobj}

FindTarget ==
  /\ run.pc = "find"
  /\ \E d \in Named :
       LET item == ReadDevice(registry[d], InterruptTypeMap[d]) IN
       run' = [run EXCEPT !.pc = IF Beyond \in run.args.cpu THEN "refused" ELSE "msi",
                          !.target = d, !.orgItem = item, !.newItem = item]
  /\ UNCHANGED registry

NoTarget ==
  /\ run.pc = "find"
  /\ Named = {}
  /\ run' = [run EXCEPT !.pc = "refused"]
  /\ UNCHANGED registry

GivenAlways(flag, value) == flag
GivenOrZero(flag, value) == IF flag = Omitted THEN 0 ELSE flag
GivenOr(flag, value) == IF flag = Omitted THEN value ELSE flag

\* The setters, which go on after a call that failed.
StoreMsi(fault) ==
  LET d    == run.target
      item == [run.newItem EXCEPT
                 !.MsiSupported = GivenOr(run.args.msisupported, run.newItem.MsiSupported),
                 !.MessageNumberLimit = GivenOr(run.args.msilimit, run.newItem.MessageNumberLimit)]
  IN  /\ run.pc = "msi"
      /\ AsksMsi(run.args)
      /\ fault => d \in FaultyDevice
      /\ \E done \in setMSIMode(run.orgItem, item, registry[d].msi, fault) :
           /\ registry' = [registry EXCEPT ![d] = [@ EXCEPT !.msi = done.key]]
           /\ run' = [run EXCEPT !.pc = "affinity", !.orgItem = done.row, !.newItem = item,
                                 !.failed = run.failed \/ fault]

\* The setter is called whether or not the settings differ from what was read.
MaskOr(a, mask) == IF GivenMask(a) = {} THEN mask ELSE GivenMask(a)

StoreAffinity(fault) ==
  LET d    == run.target
      item == [run.newItem EXCEPT
                 !.DevicePolicy = GivenOr(run.args.policy, run.newItem.DevicePolicy),
                 !.DevicePriority = GivenOr(run.args.priority, run.newItem.DevicePriority),
                 !.AssignmentSetOverride = MaskOr(run.args, run.newItem.AssignmentSetOverride)]
  IN  /\ run.pc = "affinity"
      /\ AsksAffinity(run.args)
      /\ fault => d \in FaultyDevice
      /\ \E done \in setAffinityPolicy(run.orgItem, item, registry[d].affinity, fault) :
           /\ registry' = [registry EXCEPT ![d] = [@ EXCEPT !.affinity = done.key]]
           /\ run' = [run EXCEPT !.pc = "restart", !.orgItem = done.row, !.newItem = item,
                                 !.failed = run.failed \/ fault]

SkipMsi ==
  /\ run.pc = "msi"
  /\ ~AsksMsi(run.args)
  /\ run' = [run EXCEPT !.pc = "affinity"]
  /\ UNCHANGED registry

SkipAffinity ==
  /\ run.pc = "affinity"
  /\ ~AsksAffinity(run.args)
  /\ run' = [run EXCEPT !.pc = "restart"]
  /\ UNCHANGED registry

\* What was changed is looked for after the setters updated orgItem.
Changed == run.orgItem # run.newItem

\* Windows is told twice that the properties changed; a call that fails ends
\* the run with the exit code of success.
Restart(fault) ==
  LET asked == run.args.restart \/ (run.args.restartOnChange /\ Changed) IN
  /\ run.pc = "restart"
  /\ fault => asked /\ run.target \in FaultyDevice
  /\ \E n \in IF ~asked THEN {0} ELSE IF fault THEN 0 .. 2 ELSE {2} :
       run' = [run EXCEPT !.pc = "done", !.restarts = n, !.failed = run.failed \/ fault]
  /\ UNCHANGED registry

\* The run exits, or is killed wherever it is.
End ==
  /\ run.pc # "ended"
  /\ run' = NoRun
  /\ UNCHANGED registry

Next ==
  \/ \E a \in Args : Launch(a)
  \/ \E d \in Device, key \in Key, entry \in OthersEntry : Others(d, key, entry)
  \/ FindTarget
  \/ NoTarget
  \/ \E fault \in BOOLEAN : StoreMsi(fault)
  \/ SkipMsi
  \/ \E fault \in BOOLEAN : StoreAffinity(fault)
  \/ SkipAffinity
  \/ \E fault \in BOOLEAN : Restart(fault)
  \/ End

Spec == Init /\ [][Next]_vars

-----------------------------------------------------------------------------
TypeOK == registry \in [Device -> Entry] /\ run \in Run

(***************************************************************************)
(* The effect of a run: once it has passed its setters, each setting of    *)
(* its target is the one a flag gave or, without the flag, the one that    *)
(* was read when the run began, although the setter writes the whole key   *)
(* from a snapshot (main, app.go 35-82) - except those that the mode or    *)
(* the policy has no use for, which are lost, given or stored: the limit   *)
(* without MSI, the mask without the policy for specified processors       *)
(* (reg.go 48-58, 121-123).  A mode other than off and on changes nothing, *)
(* so neither does -msilimit if the interrupt types are unknown.  Held     *)
(* against a run whose calls succeed, in the keys of its target that no    *)
(* other process changed meanwhile.                                        *)
(***************************************************************************)
Wanted(flag, stored) == IF flag = Omitted THEN stored ELSE flag
MsiFlags(a)      == {a.msisupported, a.msilimit} # {Omitted}
AffinityFlags(a) == {a.policy, a.priority} # {Omitted} \/ a.cpu \intersect Bit # {}

AffinityEffect(a, old, new) ==
  LET policy == Wanted(a.policy, StoredPolicy(old)) IN
  /\ StoredPolicy(new) = policy
  /\ StoredPriority(new) = Wanted(a.priority, StoredPriority(old))
  /\ StoredMask(new) = IF policy # IrqPolicySpecifiedProcessors THEN {}
                       ELSE IF GivenMask(a) # {} THEN GivenMask(a) ELSE StoredMask(old)

MsiEffect(a, types, old, new) ==
  LET read == ReadDevice(old, types)
      mode == Wanted(a.msisupported, read.MsiSupported)
  IN  IF mode \in {MSI_Off, MSI_On}
      THEN /\ StoredMsi(new) = mode
           /\ StoredLimit(new) = IF mode = MSI_Off THEN 0
                                 ELSE Wanted(a.msilimit, read.MessageNumberLimit)
      ELSE new.msi = old.msi

RunEffect ==
  LET d == run.target IN
  run.pc \in {"restart", "done"} /\ ~run.failed =>
    /\ AffinityFlags(run.args) /\ <<d, "affinity">> \notin run.disturbed
         => AffinityEffect(run.args, run.before[d], registry[d])
    /\ MsiFlags(run.args) /\ <<d, "msi">> \notin run.disturbed
         => MsiEffect(run.args, InterruptTypeMap[d], run.before[d], registry[d])

(***************************************************************************)
(* What a run was not asked to change it does not touch, not even to write *)
(* the same settings in another form, however far it gets, whether or not  *)
(* a call of it fails: the keys of other devices, the key none of whose    *)
(* flags is given, and everything if its arguments name a device or a      *)
(* processor that does not exist (main, app.go 38-82).                     *)
(***************************************************************************)
UnaskedKept ==
  \A d \in Device :
    LET asked == d = run.target /\ run.pc \notin {"find", "refused"} IN
    run.pc # "ended" =>
      /\ <<d, "affinity">> \notin run.disturbed /\ ~(asked /\ AffinityFlags(run.args))
           => registry[d].affinity = run.before[d].affinity
      /\ <<d, "msi">> \notin run.disturbed /\ ~(asked /\ MsiFlags(run.args))
           => registry[d].msi = run.before[d].msi

\* "Restart target device on change" (flags.go:43): a run with the flag that
\* changes what is stored of its device, and is done, has restarted it.
RestartsOnChange ==
  run.pc = "done" /\ run.args.restartOnChange /\ ~run.failed /\ run.disturbed = {}
    /\ registry[run.target] # run.before[run.target] => run.restarts > 0
=============================================================================
