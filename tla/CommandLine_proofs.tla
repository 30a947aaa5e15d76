-------------------------- MODULE CommandLine_proofs --------------------------
(***************************************************************************)
(* Proofs about the command line, for any devices, arguments, failing      *)
(* calls and changes by other processes: the types, that a run touches     *)
(* nothing it was not asked for, and that it has the effect its flags ask  *)
(* for.                                                                    *)
(***************************************************************************)
EXTENDS CommandLine, DeviceSettings_proofs

-----------------------------------------------------------------------------
(***************************************************************************)
(* The inductive invariant.  A key that no other run changed since a run   *)
(* began is as it was then, until the run's own setter of it; so the       *)
(* settings the run read are those that were stored when it began; so what *)
(* the setter stores has the effect the flags ask for.                     *)
(***************************************************************************)
Free(r, d, key) == <<d, key>> \notin r.disturbed

StoresAffinity(r) == AsksAffinity(r.args) /\ r.pc \in {"restart", "done"}
StoresMsi(r)      == AsksMsi(r.args) /\ r.pc \in {"affinity", "restart", "done"}

KeysKept(r, stored) ==
  \A d \in Device :
    /\ Free(r, d, "affinity") /\ ~(d = r.target /\ StoresAffinity(r))
         => stored[d].affinity = r.before[d].affinity
    /\ Free(r, d, "msi") /\ ~(d = r.target /\ StoresMsi(r))
         => stored[d].msi = r.before[d].msi

AffinityRead(r) ==
  r.pc \in {"msi", "affinity"} /\ Free(r, r.target, "affinity") =>
    LET old == r.before[r.target] IN
    /\ r.newItem.DevicePolicy = StoredPolicy(old)
    /\ r.newItem.DevicePriority = StoredPriority(old)
    /\ r.newItem.AssignmentSetOverride = StoredMask(old)

MsiRead(r) ==
  r.pc = "msi" /\ Free(r, r.target, "msi") =>
    LET read == ReadDevice(r.before[r.target], InterruptTypeMap[r.target]) IN
    /\ r.newItem.MsiSupported = read.MsiSupported
    /\ r.newItem.MessageNumberLimit = read.MessageNumberLimit

AffinityDone(r, stored) ==
  StoresAffinity(r) /\ ~r.failed /\ Free(r, r.target, "affinity")
    => AffinityEffect(r.args, r.before[r.target], stored[r.target])

MsiDone(r, stored) ==
  StoresMsi(r) /\ ~r.failed /\ Free(r, r.target, "msi")
    => MsiEffect(r.args, InterruptTypeMap[r.target], r.before[r.target], stored[r.target])

RunOK(r, stored) ==
  r.pc # "ended" => /\ KeysKept(r, stored)
                    /\ AffinityRead(r) /\ MsiRead(r)
                    /\ AffinityDone(r, stored) /\ MsiDone(r, stored)

IInv == TypeOK /\ RunOK(run, registry)

-----------------------------------------------------------------------------
(***************************************************************************)
(* What is read, and the effect of a run, is about one key.                *)
(***************************************************************************)
LEMMA AffinityOfKey ==
  ASSUME NEW a, NEW old, NEW new, NEW new2, new.affinity = new2.affinity
  PROVE  /\ StoredPolicy(new) = StoredPolicy(new2)
         /\ StoredPriority(new) = StoredPriority(new2)
         /\ StoredMask(new) = StoredMask(new2)
         /\ AffinityEffect(a, old, new) <=> AffinityEffect(a, old, new2)
<1>1. /\ StoredPolicy(new) = StoredPolicy(new2)
      /\ StoredPriority(new) = StoredPriority(new2)
      /\ StoredMask(new) = StoredMask(new2)
  BY DEF StoredPolicy, StoredPriority, StoredMask
<1> QED
  BY <1>1 DEF AffinityEffect

LEMMA MsiOfKey ==
  ASSUME NEW a, NEW types, NEW old, NEW new, NEW new2, new.msi = new2.msi
  PROVE  /\ StoredMsi(new) = StoredMsi(new2)
         /\ StoredLimit(new) = StoredLimit(new2)
         /\ ReadDevice(new, types).MsiSupported = ReadDevice(new2, types).MsiSupported
         /\ ReadDevice(new, types).MessageNumberLimit = ReadDevice(new2, types).MessageNumberLimit
         /\ MsiEffect(a, types, old, new) <=> MsiEffect(a, types, old, new2)
<1>1. StoredMsi(new) = StoredMsi(new2) /\ StoredLimit(new) = StoredLimit(new2)
  BY DEF StoredMsi, StoredLimit
<1> QED
  BY <1>1 DEF MsiEffect, ReadDevice

(***************************************************************************)
(* A run that has gone on past nothing that matters to it, or stays where  *)
(* it is while another process changes the registry, which is noted.       *)
(***************************************************************************)
GoesOn(r, t) ==
  /\ r.pc # "ended"
  /\ t.args = r.args /\ t.target = r.target /\ t.newItem = r.newItem /\ t.before = r.before
  /\ r.failed => t.failed
  /\ r.disturbed \subseteq t.disturbed
  /\ StoresAffinity(t) <=> StoresAffinity(r)
  /\ StoresMsi(t) <=> StoresMsi(r)
  /\ t.pc \in {"msi", "affinity"} => r.pc \in {"msi", "affinity"}
  /\ t.pc = "msi" => r.pc = "msi"

Noted(t, stored, new) ==
  \A d \in Device :
    /\ Free(t, d, "affinity") => new[d].affinity = stored[d].affinity
    /\ Free(t, d, "msi") => new[d].msi = stored[d].msi

LEMMA GoesOnOK ==
  ASSUME NEW r, NEW t, NEW stored, NEW new, r.target \in Device,
         RunOK(r, stored), GoesOn(r, t), Noted(t, stored, new)
  PROVE  RunOK(t, new)
<1> DEFINE d == r.target
<1>1. \A e, key : Free(t, e, key) => Free(r, e, key)
  BY DEF Free, GoesOn
<1>2. /\ t.args = r.args /\ t.target = d /\ t.newItem = r.newItem /\ t.before = r.before
      /\ r.failed => t.failed
      /\ StoresAffinity(t) <=> StoresAffinity(r)
      /\ StoresMsi(t) <=> StoresMsi(r)
      /\ t.pc \in {"msi", "affinity"} => r.pc \in {"msi", "affinity"}
      /\ t.pc = "msi" => r.pc = "msi"
  BY DEF GoesOn
<1>3. /\ KeysKept(r, stored) /\ AffinityRead(r) /\ MsiRead(r)
      /\ AffinityDone(r, stored) /\ MsiDone(r, stored)
  BY DEF RunOK, GoesOn
<1>4. KeysKept(t, new)
  BY <1>1, <1>2, <1>3 DEF KeysKept, Noted
<1>5. AffinityRead(t) /\ MsiRead(t)
  BY <1>1, <1>2, <1>3 DEF AffinityRead, MsiRead
<1>6. AffinityDone(t, new)
  <2> SUFFICES ASSUME StoresAffinity(t), ~t.failed, Free(t, d, "affinity")
               PROVE  AffinityEffect(t.args, t.before[d], new[d])
    BY <1>2 DEF AffinityDone
  <2>1. AffinityEffect(r.args, r.before[d], stored[d])
    BY <1>1, <1>2, <1>3 DEF AffinityDone
  <2>2. new[d].affinity = stored[d].affinity
    BY DEF Noted
  <2> QED
    BY <1>2, <2>1, <2>2, AffinityOfKey
<1>7. MsiDone(t, new)
  <2> SUFFICES ASSUME StoresMsi(t), ~t.failed, Free(t, d, "msi")
               PROVE  MsiEffect(t.args, InterruptTypeMap[d], t.before[d], new[d])
    BY <1>2 DEF MsiDone
  <2>1. MsiEffect(r.args, InterruptTypeMap[d], r.before[d], stored[d])
    BY <1>1, <1>2, <1>3 DEF MsiDone
  <2>2. new[d].msi = stored[d].msi
    BY DEF Noted
  <2> QED
    BY <1>2, <2>1, <2>2, MsiOfKey
<1> QED
  BY <1>4, <1>5, <1>6, <1>7 DEF RunOK

-----------------------------------------------------------------------------
LEMMA NoRunOK == NoRun \in Run /\ NoRun.pc = "ended" /\ NoRun.disturbed = {} /\ NoRun.failed = FALSE
<1>1. (CHOOSE a \in Args : TRUE) \in Args /\ (CHOOSE d \in Device : TRUE) \in Device
  BY CommandLineAssumption
<1>2. NoItem \in Settings
  BY DEF NoItem, Settings
<1>3. [d \in Device |-> [affinity |-> Absent, msi |-> Absent]] \in [Device -> Entry]
  BY DEF Entry, AffinityKey, MsiKey
<1> QED
  BY <1>1, <1>2, <1>3 DEF NoRun, Run, Phase

LEMMA InitIInv == Init => IInv
<1> SUFFICES ASSUME Init PROVE IInv
  OBVIOUS
<1>1. registry \in [Device -> Entry]
  BY CommandLineAssumption DEF Init
<1>2. RunOK(NoRun, registry)
  BY NoRunOK DEF RunOK
<1> QED
  BY <1>1, <1>2, NoRunOK DEF Init, IInv, TypeOK

LEMMA LaunchInv ==
  ASSUME IInv, NEW a \in Args, Launch(a)
  PROVE  IInv'
<1> DEFINE find == "find"
           t    == [NoRun EXCEPT !.pc = find, !.args = a, !.before = registry]
<1>1. registry \in [Device -> Entry]
  BY DEF IInv, TypeOK
<1>2. /\ t \in Run /\ t.pc = "find" /\ t.before = registry /\ t.disturbed = {}
  BY <1>1, NoRunOK DEF Run, Phase
<1>3. run' = t /\ registry' = registry
  BY DEF Launch
<1> HIDE DEF t
<1>4. RunOK(t, registry)
  BY <1>2 DEF RunOK, KeysKept, AffinityRead, MsiRead, AffinityDone, MsiDone, StoresAffinity, StoresMsi
<1> QED
  BY <1>1, <1>2, <1>3, <1>4 DEF IInv, TypeOK

LEMMA FindTargetInv ==
  ASSUME IInv, FindTarget
  PROVE  IInv'
<1> DEFINE r == run
<1>1. r \in Run /\ RunOK(r, registry) /\ r.pc = "find"
  BY DEF IInv, TypeOK, FindTarget
<1>2. PICK d \in Device :
        LET item == ReadDevice(registry[d], InterruptTypeMap[d]) IN
        run' = [run EXCEPT !.pc = IF Beyond \in run.args.cpu THEN "refused" ELSE "msi",
                           !.target = d, !.orgItem = item, !.newItem = item]
  BY DEF FindTarget, Named
<1> DEFINE item == ReadDevice(registry[d], InterruptTypeMap[d])
           pc   == IF Beyond \in r.args.cpu THEN "refused" ELSE "msi"
           t    == [r EXCEPT !.pc = pc, !.target = d, !.orgItem = item, !.newItem = item]
<1>3. registry[d] \in Entry /\ item \in Settings
  BY ReadAgrees DEF IInv, TypeOK
<1>4. run' = t /\ registry' = registry
  BY <1>2 DEF FindTarget
<1>5. pc \in {"refused", "msi"}
  OBVIOUS
<1>6. /\ item.DevicePolicy = StoredPolicy(registry[d])
      /\ item.DevicePriority = StoredPriority(registry[d])
      /\ item.AssignmentSetOverride = StoredMask(registry[d])
  BY DEF ReadDevice
<1> DEFINE msiRead(old) ==
             /\ item.MsiSupported = ReadDevice(old, InterruptTypeMap[d]).MsiSupported
             /\ item.MessageNumberLimit = ReadDevice(old, InterruptTypeMap[d]).MessageNumberLimit
<1>12. msiRead(registry[d])
  OBVIOUS
<1> HIDE DEF item, pc
<1>7. /\ t \in Run /\ t.pc = pc /\ t.target = d /\ t.newItem = item
      /\ t.before = r.before /\ t.disturbed = r.disturbed /\ t.args = r.args
  BY <1>1, <1>3, <1>5 DEF Run, Phase
<1> HIDE DEF t, r
<1>8. KeysKept(t, registry)
  BY <1>1, <1>5, <1>7 DEF RunOK, KeysKept, StoresAffinity, StoresMsi, Free
<1>9. AffinityRead(t)
  <2> SUFFICES ASSUME Free(t, d, "affinity")
               PROVE  /\ item.DevicePolicy = StoredPolicy(t.before[d])
                      /\ item.DevicePriority = StoredPriority(t.before[d])
                      /\ item.AssignmentSetOverride = StoredMask(t.before[d])
    BY <1>7 DEF AffinityRead
  <2>1. registry[d].affinity = t.before[d].affinity
    BY <1>5, <1>7, <1>8 DEF KeysKept, StoresAffinity
  <2> QED
    BY <1>6, <2>1, AffinityOfKey
<1>10. MsiRead(t)
  <2> SUFFICES ASSUME Free(t, d, "msi")
               PROVE  msiRead(t.before[d])
    BY <1>7 DEF MsiRead
  <2>1. registry[d].msi = t.before[d].msi
    BY <1>5, <1>7, <1>8 DEF KeysKept, StoresMsi
  <2> QED
    BY <1>12, <2>1, MsiOfKey
<1>11. RunOK(t, registry)
  BY <1>5, <1>7, <1>8, <1>9, <1>10 DEF RunOK, AffinityDone, MsiDone, StoresAffinity, StoresMsi
<1>13. registry \in [Device -> Entry]
  BY DEF IInv, TypeOK
<1> QED
  BY <1>4, <1>7, <1>11, <1>13 DEF IInv, TypeOK

\* A step in which a run only goes on.
LEMMA GoingOnInv ==
  ASSUME IInv, run' \in Run, GoesOn(run, run'), registry' = registry
  PROVE  IInv'
<1>1. run.target \in Device /\ RunOK(run, registry) /\ registry \in [Device -> Entry]
  BY DEF IInv, TypeOK, Run
<1>2. Noted(run', registry, registry)
  BY DEF Noted
<1>3. RunOK(run', registry)
  BY <1>1, <1>2, GoesOnOK
<1> QED
  BY <1>1, <1>3 DEF IInv, TypeOK

LEMMA NoTargetInv ==
  ASSUME IInv, NoTarget
  PROVE  IInv'
<1> DEFINE t == [run EXCEPT !.pc = "refused"]
<1>1. run \in Run /\ run.pc = "find"
  BY DEF IInv, TypeOK, NoTarget
<1>2. t \in Run /\ GoesOn(run, t)
  BY <1>1 DEF Run, Phase, GoesOn, StoresAffinity, StoresMsi
<1> QED
  BY <1>2, GoingOnInv DEF NoTarget

LEMMA SkipMsiInv ==
  ASSUME IInv, SkipMsi
  PROVE  IInv'
<1> DEFINE t == [run EXCEPT !.pc = "affinity"]
<1>1. run \in Run /\ run.pc = "msi" /\ ~AsksMsi(run.args)
  BY DEF IInv, TypeOK, SkipMsi
<1>2. t \in Run /\ GoesOn(run, t)
  BY <1>1 DEF Run, Phase, GoesOn, StoresAffinity, StoresMsi
<1> QED
  BY <1>2, GoingOnInv DEF SkipMsi

LEMMA SkipAffinityInv ==
  ASSUME IInv, SkipAffinity
  PROVE  IInv'
<1> DEFINE t == [run EXCEPT !.pc = "restart"]
<1>1. run \in Run /\ run.pc = "affinity" /\ ~AsksAffinity(run.args)
  BY DEF IInv, TypeOK, SkipAffinity
<1>2. t \in Run /\ GoesOn(run, t)
  BY <1>1 DEF Run, Phase, GoesOn, StoresAffinity, StoresMsi
<1> QED
  BY <1>2, GoingOnInv DEF SkipAffinity

LEMMA RestartInv ==
  ASSUME IInv, NEW fault \in BOOLEAN, Restart(fault)
  PROVE  IInv'
<1>1. run \in Run /\ run.pc = "restart"
  BY DEF IInv, TypeOK, Restart
<1> DEFINE asked == run.args.restart \/ (run.args.restartOnChange /\ Changed)
           Told  == IF ~asked THEN {0} ELSE IF fault THEN 0 .. 2 ELSE {2}
<1>2. PICK n \in Told :
        run' = [run EXCEPT !.pc = "done", !.restarts = n, !.failed = run.failed \/ fault]
  BY Zenon DEF Restart
<1>3. n \in 0 .. 2
  <2>1. Told \subseteq 0 .. 2
    OBVIOUS
  <2> QED
    BY <2>1
<1> HIDE DEF Told
<1> DEFINE failed == run.failed \/ fault
           t == [run EXCEPT !.pc = "done", !.restarts = n, !.failed = failed]
<1>4. run' = t /\ registry' = registry
  BY <1>2 DEF Restart
<1>5. failed \in BOOLEAN /\ (run.failed => failed)
  BY <1>1 DEF Run
<1> HIDE DEF failed
<1>6. t \in Run /\ GoesOn(run, t)
  BY <1>1, <1>3, <1>5 DEF Run, Phase, GoesOn, StoresAffinity, StoresMsi
<1> QED
  BY <1>4, <1>6, GoingOnInv

LEMMA EndInv ==
  ASSUME IInv, End
  PROVE  IInv'
<1>1. RunOK(NoRun, registry)
  BY NoRunOK DEF RunOK
<1> QED
  BY <1>1, NoRunOK DEF End, IInv, TypeOK

-----------------------------------------------------------------------------
(***************************************************************************)
(* Another process's change, and the setters.                              *)
(***************************************************************************)
LEMMA OthersInv ==
  ASSUME IInv, NEW d \in Device, NEW key \in Key, NEW entry \in OthersEntry,
         Others(d, key, entry)
  PROVE  IInv'
<1> DEFINE new == [registry[d] EXCEPT ![key] = entry[key]]
           t   == [run EXCEPT !.disturbed = @ \union {<<d, key>>}]
<1>1. registry \in [Device -> Entry] /\ run \in Run /\ RunOK(run, registry) /\ entry \in Entry
  BY CommandLineAssumption DEF IInv, TypeOK
<1>2. new \in Entry /\ \A other \in Key \ {key} : new[other] = registry[d][other]
  BY <1>1 DEF Entry, Key
<1>3. registry' = [registry EXCEPT ![d] = new]
  BY DEF Others
<1>4. registry' \in [Device -> Entry]
  BY <1>1, <1>2, <1>3
<1>5. CASE run.pc = "ended"
  <2>1. run' = run
    BY <1>5 DEF Others
  <2> QED
    BY <1>1, <1>4, <1>5, <2>1 DEF IInv, TypeOK, RunOK
<1>6. CASE run.pc # "ended"
  <2>1. run' = t
    BY <1>6 DEF Others
  <2>2. t \in Run /\ t.disturbed = run.disturbed \union {<<d, key>>}
    BY <1>1 DEF Run
  <2>3. GoesOn(run, t)
    BY <1>1, <1>6 DEF Run, GoesOn, StoresAffinity, StoresMsi
  <2>4. Noted(t, registry, registry')
    <3> SUFFICES ASSUME NEW e \in Device, NEW other \in Key, Free(t, e, other)
                 PROVE  registry'[e][other] = registry[e][other]
      BY DEF Noted, Key
    <3>1. CASE e # d
      BY <1>1, <1>3, <3>1
    <3>2. CASE e = d
      <4>1. other # key
        BY <2>2, <3>2 DEF Free
      <4> QED
        BY <1>1, <1>2, <1>3, <3>2, <4>1
    <3> QED
      BY <3>1, <3>2
  <2>5. run.target \in Device
    BY <1>1 DEF Run
  <2> HIDE DEF t
  <2>6. RunOK(t, registry')
    BY <1>1, <2>3, <2>4, <2>5, GoesOnOK
  <2> QED
    BY <1>4, <2>1, <2>2, <2>6 DEF IInv, TypeOK
<1> QED
  BY <1>5, <1>6

LEMMA GivenTypes ==
  ASSUME NEW a \in Args, NEW item \in Settings
  PROVE  /\ GivenOr(a.policy, item.DevicePolicy) \in Nat
         /\ GivenOr(a.priority, item.DevicePriority) \in Nat
         /\ MaskOr(a, item.AssignmentSetOverride) \in SUBSET Bit
         /\ GivenOr(a.msisupported, item.MsiSupported)
              \in {MSI_Off, MSI_On, MSI_Tristate, MSI_Invalid}
         /\ GivenOr(a.msilimit, item.MessageNumberLimit) \in Nat
<1>1. a \in Arguments
  BY CommandLineAssumption
<1> QED
  BY <1>1 DEF Arguments, Settings, GivenOr, MaskOr, GivenMask, Number, Omitted,
              MSI_Off, MSI_On, MSI_Tristate, MSI_Invalid

LEMMA StoreMsiInv ==
  ASSUME IInv, NEW fault \in BOOLEAN, StoreMsi(fault)
  PROVE  IInv'
<1> DEFINE r     == run
           d     == r.target
           mode  == GivenOr(r.args.msisupported, r.newItem.MsiSupported)
           limit == GivenOr(r.args.msilimit, r.newItem.MessageNumberLimit)
           item  == [r.newItem EXCEPT !.MsiSupported = mode, !.MessageNumberLimit = limit]
           entry == registry[d]
           failed == r.failed \/ fault
<1>1. /\ r \in Run /\ RunOK(r, registry) /\ r.pc = "msi" /\ AsksMsi(r.args)
      /\ registry \in [Device -> Entry] /\ d \in Device /\ entry \in Entry
      /\ entry.msi \in MsiKey /\ r.orgItem \in Settings /\ r.newItem \in Settings
  BY DEF IInv, TypeOK, StoreMsi, Run, Entry
<1>2. mode \in {MSI_Off, MSI_On, MSI_Tristate, MSI_Invalid} /\ limit \in Nat
  BY <1>1, GivenTypes DEF Run
<1>3. PICK done \in setMSIMode(r.orgItem, item, entry.msi, fault) :
        /\ registry' = [registry EXCEPT ![d] = [@ EXCEPT !.msi = done.key]]
        /\ run' = [run EXCEPT !.pc = "affinity", !.orgItem = done.row, !.newItem = item,
                              !.failed = failed]
  BY DEF StoreMsi
<1> DEFINE t   == [r EXCEPT !.pc = "affinity", !.orgItem = done.row, !.newItem = item,
                            !.failed = failed]
           new == [entry EXCEPT !.msi = done.key]
<1>4. failed \in BOOLEAN /\ (~failed => fault = FALSE)
  BY <1>1 DEF Run
<1> HIDE DEF failed, mode, limit
<1>5. /\ item \in Settings /\ item.MsiSupported = mode /\ item.MessageNumberLimit = limit
      /\ item.DevicePolicy = r.newItem.DevicePolicy
      /\ item.DevicePriority = r.newItem.DevicePriority
      /\ item.AssignmentSetOverride = r.newItem.AssignmentSetOverride
  BY <1>1, <1>2 DEF Settings
<1> HIDE DEF item
<1>6. done.row \in Settings /\ done.key \in MsiKey
  BY <1>1, <1>5, SetMsiTypes
<1>7. new \in Entry /\ new.affinity = entry.affinity /\ new.msi = done.key
  BY <1>1, <1>6 DEF Entry
<1>8. /\ t \in Run /\ t.pc = "affinity" /\ t.target = d /\ t.args = r.args /\ t.newItem = item
      /\ t.before = r.before /\ t.disturbed = r.disturbed /\ t.failed = failed
  BY <1>1, <1>4, <1>5, <1>6 DEF Run, Phase
<1>9. run' = t /\ registry' = [registry EXCEPT ![d] = new]
  BY <1>3
<1> DEFINE stored == [registry EXCEPT ![d] = new]
<1>10. stored[d] = new /\ \A e \in Device : e # d => stored[e] = registry[e]
  BY <1>1
<1> HIDE DEF t, new, r, stored
<1>11. ~StoresAffinity(r) /\ ~StoresMsi(r) /\ ~StoresAffinity(t) /\ StoresMsi(t)
  BY <1>1, <1>8 DEF StoresAffinity, StoresMsi
<1>12. KeysKept(r, registry) /\ AffinityRead(r) /\ MsiRead(r)
  BY <1>1 DEF RunOK
<1>13. KeysKept(t, stored)
  BY <1>7, <1>8, <1>10, <1>11, <1>12 DEF KeysKept, Free
<1>14. AffinityRead(t)
  BY <1>1, <1>5, <1>8, <1>12 DEF AffinityRead, Free
<1>15. ASSUME ~failed, Free(t, d, "msi")
       PROVE  MsiEffect(t.args, InterruptTypeMap[d], t.before[d], new)
  <2> DEFINE read == ReadDevice(t.before[d], InterruptTypeMap[d])
  <2>1. r.newItem.MsiSupported = read.MsiSupported
        /\ r.newItem.MessageNumberLimit = read.MessageNumberLimit
    BY <1>1, <1>8, <1>12, <1>15 DEF MsiRead, Free
  <2>2. /\ mode = Wanted(t.args.msisupported, read.MsiSupported)
        /\ limit = Wanted(t.args.msilimit, read.MessageNumberLimit)
    BY <1>8, <2>1 DEF mode, limit, GivenOr, Wanted
  <2>3. CASE mode \in {MSI_Off, MSI_On}
    <3>1. HoldsMsi(new, item)
      BY <1>1, <1>4, <1>5, <1>7, <1>15, <2>3, SetMsiAgrees
    <3>2. mode = MSI_Off => StoredLimit(new) = 0
      <4>1. mode = MSI_Off => done.key = Absent
        BY <1>3, <1>4, <1>5, <1>15 DEF setMSIMode, Written
      <4> QED
        BY <1>7, <4>1 DEF StoredLimit, MsiValues, NewMsiKey, ValueOr
    <3> HIDE DEF read
    <3> QED
      BY <1>5, <2>2, <2>3, <3>1, <3>2 DEF HoldsMsi, MsiEffect, read, MSI_Off, MSI_On
  <2>4. CASE mode \notin {MSI_Off, MSI_On}
    <3>1. done.key = entry.msi
      BY <1>3, <1>5, <2>4 DEF setMSIMode
    <3>2. entry.msi = t.before[d].msi
      BY <1>1, <1>8, <1>11, <1>12, <1>15 DEF KeysKept, Free
    <3> HIDE DEF read
    <3> QED
      BY <1>7, <2>2, <2>4, <3>1, <3>2 DEF MsiEffect, read
  <2> QED
    BY <2>3, <2>4
<1>16. RunOK(t, stored)
  BY <1>8, <1>10, <1>11, <1>13, <1>14, <1>15 DEF RunOK, MsiRead, AffinityDone, MsiDone
<1>17. stored \in [Device -> Entry] /\ registry' = stored
  BY <1>1, <1>7, <1>9 DEF stored
<1> QED
  BY <1>8, <1>9, <1>16, <1>17 DEF IInv, TypeOK

LEMMA StoreAffinityInv ==
  ASSUME IInv, NEW fault \in BOOLEAN, StoreAffinity(fault)
  PROVE  IInv'
<1> DEFINE r        == run
           d        == r.target
           policy   == GivenOr(r.args.policy, r.newItem.DevicePolicy)
           priority == GivenOr(r.args.priority, r.newItem.DevicePriority)
           mask     == MaskOr(r.args, r.newItem.AssignmentSetOverride)
           item     == [r.newItem EXCEPT !.DevicePolicy = policy, !.DevicePriority = priority,
                                         !.AssignmentSetOverride = mask]
           entry    == registry[d]
           failed   == r.failed \/ fault
<1>1. /\ r \in Run /\ RunOK(r, registry) /\ r.pc = "affinity" /\ AsksAffinity(r.args)
      /\ registry \in [Device -> Entry] /\ d \in Device /\ entry \in Entry
      /\ entry.affinity \in AffinityKey /\ r.orgItem \in Settings /\ r.newItem \in Settings
  BY DEF IInv, TypeOK, StoreAffinity, Run, Entry
<1>2. policy \in Nat /\ priority \in Nat /\ mask \in SUBSET Bit
  BY <1>1, GivenTypes DEF Run
<1>3. PICK done \in setAffinityPolicy(r.orgItem, item, entry.affinity, fault) :
        /\ registry' = [registry EXCEPT ![d] = [@ EXCEPT !.affinity = done.key]]
        /\ run' = [run EXCEPT !.pc = "restart", !.orgItem = done.row, !.newItem = item,
                              !.failed = failed]
  BY DEF StoreAffinity
<1> DEFINE t   == [r EXCEPT !.pc = "restart", !.orgItem = done.row, !.newItem = item,
                            !.failed = failed]
           new == [entry EXCEPT !.affinity = done.key]
<1>4. failed \in BOOLEAN /\ (~failed => fault = FALSE /\ ~r.failed)
  BY <1>1 DEF Run
<1> HIDE DEF failed, policy, priority, mask
<1>5. /\ item \in Settings /\ item.DevicePolicy = policy /\ item.DevicePriority = priority
      /\ item.AssignmentSetOverride = mask
  BY <1>1, <1>2 DEF Settings
<1> HIDE DEF item
<1>6. done.row \in Settings /\ done.key \in AffinityKey
  BY <1>1, <1>5, SetAffinityTypes
<1>7. new \in Entry /\ new.msi = entry.msi /\ new.affinity = done.key
  BY <1>1, <1>6 DEF Entry
<1>8. /\ t \in Run /\ t.pc = "restart" /\ t.target = d /\ t.args = r.args /\ t.newItem = item
      /\ t.before = r.before /\ t.disturbed = r.disturbed /\ t.failed = failed
  BY <1>1, <1>4, <1>5, <1>6 DEF Run, Phase
<1>9. run' = t /\ registry' = [registry EXCEPT ![d] = new]
  BY <1>3
<1> DEFINE stored == [registry EXCEPT ![d] = new]
<1>10. stored[d] = new /\ \A e \in Device : e # d => stored[e] = registry[e]
  BY <1>1
<1> HIDE DEF t, new, r, stored
<1>11. ~StoresAffinity(r) /\ StoresAffinity(t) /\ (StoresMsi(r) <=> StoresMsi(t))
  BY <1>1, <1>8 DEF StoresAffinity, StoresMsi
<1>12. KeysKept(r, registry) /\ AffinityRead(r) /\ MsiDone(r, registry)
  BY <1>1 DEF RunOK
<1>13. KeysKept(t, stored)
  BY <1>7, <1>8, <1>10, <1>11, <1>12 DEF KeysKept, Free
<1>14. ASSUME ~failed, Free(t, d, "affinity")
       PROVE  AffinityEffect(t.args, t.before[d], new)
  <2>1. /\ r.newItem.DevicePolicy = StoredPolicy(t.before[d])
        /\ r.newItem.DevicePriority = StoredPriority(t.before[d])
        /\ r.newItem.AssignmentSetOverride = StoredMask(t.before[d])
    BY <1>1, <1>8, <1>12, <1>14 DEF AffinityRead, Free
  <2>2. /\ policy = Wanted(t.args.policy, StoredPolicy(t.before[d]))
        /\ priority = Wanted(t.args.priority, StoredPriority(t.before[d]))
        /\ mask = IF GivenMask(t.args) # {} THEN GivenMask(t.args) ELSE StoredMask(t.before[d])
    BY <1>8, <2>1 DEF policy, priority, mask, GivenOr, MaskOr, Wanted
  <2>3. HoldsAffinity(new, item)
    BY <1>1, <1>4, <1>5, <1>7, <1>14, SetAffinityAgrees
  <2>4. policy # IrqPolicySpecifiedProcessors => StoredMask(new) = {}
    <3>1. policy # IrqPolicySpecifiedProcessors =>
            done.key = Absent \/ done.key.AssignmentSetOverride = Absent
      BY <1>3, <1>4, <1>5, <1>14 DEF setAffinityPolicy, Written, Refused
    <3> QED
      BY <1>7, <3>1 DEF StoredMask, AffinityValues, NewAffinityKey, ValueOr
  <2> QED
    BY <1>5, <2>2, <2>3, <2>4 DEF HoldsAffinity, AffinityEffect
<1>15. ASSUME StoresMsi(t), ~failed, Free(t, d, "msi")
       PROVE  MsiEffect(t.args, InterruptTypeMap[d], t.before[d], new)
  <2>1. MsiEffect(t.args, InterruptTypeMap[d], t.before[d], entry)
    BY <1>4, <1>8, <1>11, <1>12, <1>15 DEF MsiDone, Free
  <2> QED
    BY <1>7, <2>1, MsiOfKey
<1>16. RunOK(t, stored)
  BY <1>8, <1>10, <1>13, <1>14, <1>15 DEF RunOK, AffinityRead, MsiRead, AffinityDone, MsiDone
<1>17. stored \in [Device -> Entry] /\ registry' = stored
  BY <1>1, <1>7, <1>9 DEF stored
<1> QED
  BY <1>8, <1>9, <1>16, <1>17 DEF IInv, TypeOK

-----------------------------------------------------------------------------
\* The inductive invariant holds, whatever runs and others do (main, app.go 35-126).
THEOREM RunsInvariant == Spec => []IInv
<1>1. ASSUME IInv, [Next]_vars
      PROVE  IInv'
  <2>1. ASSUME NEW a \in Args, Launch(a)
        PROVE  IInv'
    BY <1>1, <2>1, LaunchInv
  <2>2. CASE FindTarget
    BY <1>1, <2>2, FindTargetInv
  <2>3. CASE NoTarget
    BY <1>1, <2>3, NoTargetInv
  <2>4. ASSUME NEW fault \in BOOLEAN, StoreMsi(fault)
        PROVE  IInv'
    BY <1>1, <2>4, StoreMsiInv
  <2>5. CASE SkipMsi
    BY <1>1, <2>5, SkipMsiInv
  <2>6. ASSUME NEW fault \in BOOLEAN, StoreAffinity(fault)
        PROVE  IInv'
    BY <1>1, <2>6, StoreAffinityInv
  <2>7. CASE SkipAffinity
    BY <1>1, <2>7, SkipAffinityInv
  <2>8. ASSUME NEW fault \in BOOLEAN, Restart(fault)
        PROVE  IInv'
    BY <1>1, <2>8, RestartInv
  <2>9. CASE End
    BY <1>1, <2>9, EndInv
  <2>10. CASE UNCHANGED vars
    BY <1>1, <2>10 DEF vars, IInv, TypeOK
  <2>11. ASSUME NEW d \in Device, NEW key \in Key, NEW entry \in OthersEntry,
                Others(d, key, entry)
         PROVE  IInv'
    BY <1>1, <2>11, OthersInv
  <2> QED
    BY <1>1, <2>1, <2>2, <2>3, <2>4, <2>5, <2>6, <2>7, <2>8, <2>9, <2>10, <2>11 DEF Next
<1> QED
  BY InitIInv, <1>1, PTL DEF Spec

\* The types of the command line's variables.
THEOREM RunsTypeCorrect == Spec => []TypeOK
<1>1. IInv => TypeOK
  BY DEF IInv
<1> QED
  BY <1>1, RunsInvariant, PTL

\* Keys a run was not asked to change, and other devices, stay as they were
\* (main, app.go 38-82).
THEOREM UnaskedKeptAlways == Spec => []UnaskedKept
<1>1. ASSUME IInv
      PROVE  UnaskedKept
  <2>1. run.pc # "ended" => KeysKept(run, registry)
    BY <1>1 DEF IInv, RunOK
  <2>2. /\ AsksAffinity(run.args) <=> AffinityFlags(run.args)
        /\ AsksMsi(run.args) <=> MsiFlags(run.args)
    BY DEF AsksAffinity, AffinityFlags, AsksMsi, MsiFlags, GivenMask
  <2> QED
    BY <2>1, <2>2 DEF KeysKept, Free, StoresAffinity, StoresMsi, UnaskedKept
<1> QED
  BY <1>1, RunsInvariant, PTL

\* A run has exactly the effect its flags ask for, but for a limit or a mask
\* that what is stored has no use for (main, app.go 35-82).
THEOREM RunEffectAlways == Spec => []RunEffect
<1>1. ASSUME IInv
      PROVE  RunEffect
  <2>1. run.pc # "ended" => AffinityDone(run, registry) /\ MsiDone(run, registry)
    BY <1>1 DEF IInv, RunOK
  <2>2. run.pc \in {"restart", "done"} =>
          /\ AffinityFlags(run.args) => StoresAffinity(run)
          /\ MsiFlags(run.args) => StoresMsi(run)
    BY DEF AsksAffinity, AffinityFlags, AsksMsi, MsiFlags, GivenMask, StoresAffinity, StoresMsi
  <2> QED
    BY <2>1, <2>2 DEF AffinityDone, MsiDone, Free, RunEffect
<1> QED
  BY <1>1, RunsInvariant, PTL
=============================================================================
