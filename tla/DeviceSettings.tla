--------------------------- MODULE DeviceSettings ---------------------------
(***************************************************************************)
(* The settings of a device, as a row of the program holds them, and the   *)
(* two registry keys they are stored in.  Reading a device, and the two    *)
(* setters, are operators here: a setter is the set of the outcomes it may *)
(* have, each a pair of the updated row and the updated key.               *)
(*                                                                         *)
(* A processor mask is the set of its bits and an interrupt type map the   *)
(* set of its flags.  A registry value, or a whole key, that does not      *)
(* exist is Absent.                                                        *)
(***************************************************************************)
EXTENDS Naturals

CONSTANTS
  Bit,     \* the bits of a processor mask, one for each logical processor
  Absent   \* stands for a key or a value that is not in the registry

MSI_Off      == 0
MSI_On       == 1
MSI_Tristate == 2
MSI_Invalid  == 3

IrqPolicyMachineDefault      == 0
IrqPolicySpecifiedProcessors == 4

\* The device policies and the priorities the program has a name for.
NamedPolicy   == 0 .. 5
NamedPriority == 0 .. 3

\* "MsiX" among the flags of an interrupt type map.
MsiX          == 4
InterruptType == {1, 2, MsiX}

Settings ==
  [DevicePolicy : Nat, DevicePriority : Nat, AssignmentSetOverride : SUBSET Bit,
   MsiSupported : {MSI_Off, MSI_On, MSI_Tristate, MSI_Invalid}, MessageNumberLimit : Nat]

\* The values of the two keys of a device, each of which may be missing.
AffinityValue ==
  [DevicePolicy          : {Absent} \union Nat,
   DevicePriority        : {Absent} \union Nat,
   AssignmentSetOverride : {Absent} \union SUBSET Bit]

MsiValue ==
  [MSISupported       : {Absent, MSI_Off, MSI_On},
   MessageNumberLimit : {Absent} \union Nat]

\* Absent is none of the things that can be present.
ASSUME AbsentAssumption ==
  /\ Absent \notin Nat
  /\ \A mask \in SUBSET Bit : mask # Absent
  /\ Absent \notin AffinityValue
  /\ Absent \notin MsiValue

AffinityKey == {Absent} \union AffinityValue
MsiKey      == {Absent} \union MsiValue

Entry == [affinity : AffinityKey, msi : MsiKey]

NewAffinityKey ==
  [DevicePolicy |-> Absent, DevicePriority |-> Absent, AssignmentSetOverride |-> Absent]

NewMsiKey == [MSISupported |-> Absent, MessageNumberLimit |-> Absent]

-----------------------------------------------------------------------------
(***************************************************************************)
(* Reading.  A value that is missing reads as zero, and so do all values   *)
(* of a key that is missing.                                               *)
(***************************************************************************)
ValueOr(value, zero) == IF value = Absent THEN zero ELSE value

AffinityValues(key) == IF key = Absent THEN NewAffinityKey ELSE key
MsiValues(key)      == IF key = Absent THEN NewMsiKey ELSE key

StoredPolicy(entry)   == ValueOr(AffinityValues(entry.affinity).DevicePolicy, 0)
StoredPriority(entry) == ValueOr(AffinityValues(entry.affinity).DevicePriority, 0)
StoredMask(entry)     == ValueOr(AffinityValues(entry.affinity).AssignmentSetOverride, {})
StoredMsi(entry)      == ValueOr(MsiValues(entry.msi).MSISupported, MSI_Off)
StoredLimit(entry)    == ValueOr(MsiValues(entry.msi).MessageNumberLimit, 0)

\* The row FindAllDevices makes of a device: without interrupt types the MSI
\* key is not read at all.
ReadDevice(entry, interruptTypes) ==
  [DevicePolicy          |-> StoredPolicy(entry),
   DevicePriority        |-> StoredPriority(entry),
   AssignmentSetOverride |-> StoredMask(entry),
   MsiSupported          |-> IF interruptTypes = {} THEN MSI_Invalid ELSE StoredMsi(entry),
   MessageNumberLimit    |-> IF interruptTypes = {} THEN 0 ELSE StoredLimit(entry)]

-----------------------------------------------------------------------------
(***************************************************************************)
(* Writing.  The setters log the error of a call and carry on, so when     *)
(* calls may fail (fault) each of them either takes effect or leaves what  *)
(* was there.  A key that cannot be created ends the setter early.         *)
(***************************************************************************)
Written(old, new, fault) == IF fault THEN {old, new} ELSE {new}

Refused(row, key, fault) == IF fault THEN {[row |-> row, key |-> key]} ELSE {}

\* Without a limit the value goes.
LimitValueAboveOne(item) ==
  IF item.MessageNumberLimit <= 1 THEN Absent ELSE item.MessageNumberLimit
LimitValue(item) ==
  IF item.MessageNumberLimit = 0 THEN Absent ELSE item.MessageNumberLimit

setMSIMode(row, item, key, fault) ==
  IF item.MsiSupported = MSI_Off
  THEN {[row |-> [row EXCEPT !.MsiSupported = MSI_Off], key |-> k]
          : k \in Written(key, Absent, fault)}
  ELSE IF item.MsiSupported = MSI_On
  THEN Refused(row, key, fault) \union
       {[row |-> [row EXCEPT !.MsiSupported = MSI_On,
                             !.MessageNumberLimit = item.MessageNumberLimit],
         key |-> [MSISupported |-> s, MessageNumberLimit |-> l]]
          : s \in Written(MsiValues(key).MSISupported, MSI_On, fault),
            l \in Written(MsiValues(key).MessageNumberLimit, LimitValue(item), fault)}
  ELSE {[row |-> row, key |-> key]}

\* Only the policy for specified processors has a mask.
MaskWhatever(item) == item.AssignmentSetOverride
MaskOf(item) ==
  IF item.DevicePolicy = IrqPolicySpecifiedProcessors
  THEN item.AssignmentSetOverride ELSE {}

\* Neither a policy nor a priority: the key goes.
NoPolicy(item) == item.DevicePolicy = 0
NoAffinity(item) == item.DevicePolicy = 0 /\ item.DevicePriority = 0

setAffinityPolicy(row, item, key, fault) ==
  LET updated == [row EXCEPT !.DevicePolicy = item.DevicePolicy,
                             !.DevicePriority = item.DevicePriority,
                             !.AssignmentSetOverride = MaskOf(item)]
      old     == AffinityValues(key)
  IN  IF NoAffinity(item)
      THEN {[row |-> updated, key |-> k] : k \in Written(key, Absent, fault)}
      ELSE Refused(row, key, fault) \union
           {[row |-> updated,
             key |-> [DevicePolicy |-> p, DevicePriority |-> q,
                      AssignmentSetOverride |-> m]]
              : p \in Written(old.DevicePolicy, item.DevicePolicy, fault),
                q \in Written(old.DevicePriority,
                              IF item.DevicePriority = 0 THEN Absent
                              ELSE item.DevicePriority, fault),
                m \in Written(old.AssignmentSetOverride,
                              IF item.DevicePolicy = IrqPolicySpecifiedProcessors
                              THEN item.AssignmentSetOverride ELSE Absent, fault)}

-----------------------------------------------------------------------------
SameMsiMode(row, item) == row.MsiSupported = item.MsiSupported
SameMsi(row, item) ==
  /\ row.MsiSupported = item.MsiSupported
  /\ row.MessageNumberLimit = item.MessageNumberLimit

SameAffinity(row, item) ==
  /\ row.DevicePolicy = item.DevicePolicy
  /\ row.DevicePriority = item.DevicePriority
  /\ row.AssignmentSetOverride = item.AssignmentSetOverride

MsiOutcomes(row, item, key, fault) ==
  IF SameMsi(row, item) THEN {[row |-> row, key |-> key]}
  ELSE setMSIMode(row, item, key, fault)

AffinityOutcomes(row, item, key, fault) ==
  IF SameAffinity(row, item) THEN {[row |-> row, key |-> key]}
  ELSE setAffinityPolicy(row, item, key, fault)

\* The window's way to store an item: each setter runs only when the row
\* differs from the item in what that setter writes, first MSI, then affinity.
SetNewDevice(row, item, entry, fault) ==
  UNION {{[row |-> a.row, entry |-> [affinity |-> a.key, msi |-> m.key]]
            : a \in AffinityOutcomes(m.row, item, entry.affinity, fault)}
           : m \in MsiOutcomes(row, item, entry.msi, fault)}

-----------------------------------------------------------------------------
\* What the rows of the devices in S have in common in a field, and else the
\* placeholder.
FirstValue(S, placeholder, value) ==
  IF S # {} THEN value[CHOOSE d \in S : TRUE] ELSE placeholder
FindCommonValue(S, placeholder, value) ==
  IF S # {} /\ \A d, e \in S : value[d] = value[e]
  THEN value[CHOOSE d \in S : TRUE]
  ELSE placeholder

\* Largest message limit the dialog offers.
hasMsiX(interruptTypes) == IF MsiX \in interruptTypes THEN 2048 ELSE 16

-----------------------------------------------------------------------------
(***************************************************************************)
(* A row agrees with the registry: it tells the policy, the priority and   *)
(* the mask that are stored, and of the MSI key what its own MSI mode is   *)
(* about.  A row without MSI says nothing of the key; a row with MSI off   *)
(* keeps the limit it had, which the registry no longer has.               *)
(***************************************************************************)
AffinityAgrees(row, entry) ==
  /\ row.DevicePolicy = StoredPolicy(entry)
  /\ row.DevicePriority = StoredPriority(entry)
  /\ row.AssignmentSetOverride = StoredMask(entry)

MsiAgrees(row, entry) ==
  /\ row.MsiSupported \in {MSI_Off, MSI_On} => row.MsiSupported = StoredMsi(entry)
  /\ row.MsiSupported = MSI_On => row.MessageNumberLimit = StoredLimit(entry)

Agrees(row, entry) == AffinityAgrees(row, entry) /\ MsiAgrees(row, entry)

\* The registry holds what an item asks for.
HoldsAffinity(entry, item) ==
  /\ StoredPolicy(entry) = item.DevicePolicy
  /\ StoredPriority(entry) = item.DevicePriority
  /\ item.DevicePolicy = IrqPolicySpecifiedProcessors
       => StoredMask(entry) = item.AssignmentSetOverride

HoldsMsi(entry, item) ==
  /\ item.MsiSupported \in {MSI_Off, MSI_On} => StoredMsi(entry) = item.MsiSupported
  /\ item.MsiSupported = MSI_On => StoredLimit(entry) = item.MessageNumberLimit

Holds(entry, item) == HoldsAffinity(entry, item) /\ HoldsMsi(entry, item)

\* A mask is stored with the policy that uses it, with no other, and names a
\* processor.
WellFormed(key) ==
  key # Absent =>
    IF key.DevicePolicy = IrqPolicySpecifiedProcessors
    THEN key.AssignmentSetOverride \notin {Absent, {}}
    ELSE key.AssignmentSetOverride = Absent
=============================================================================
