------------------------ MODULE DeviceSettings_proofs ------------------------
(***************************************************************************)
(* Lemmas about the operators of DeviceSettings: what reading gives, and   *)
(* what the setters and SetNewDevice, which combines them, leave in a row  *)
(* and in the registry.                                                    *)
(***************************************************************************)
EXTENDS DeviceSettings, TLAPS

\* What is stored of a device, as read: missing values read as zero.
LEMMA StoredTypes ==
  ASSUME NEW entry \in Entry
  PROVE  /\ StoredPolicy(entry) \in Nat
         /\ StoredPriority(entry) \in Nat
         /\ StoredMask(entry) \in SUBSET Bit
         /\ StoredMsi(entry) \in {MSI_Off, MSI_On}
         /\ StoredLimit(entry) \in Nat
<1>1. AffinityValues(entry.affinity) \in AffinityValue
  BY DEF Entry, AffinityKey, AffinityValue, AffinityValues, NewAffinityKey
<1>2. MsiValues(entry.msi) \in MsiValue
  BY DEF Entry, MsiKey, MsiValue, MsiValues, NewMsiKey
<1>3. QED
  BY <1>1, <1>2 DEF AffinityValue, MsiValue, StoredPolicy, StoredPriority, StoredMask,
                    StoredMsi, StoredLimit, ValueOr, MSI_Off

\* The row made of a device when it is read is a row, and agrees with it.
LEMMA ReadAgrees ==
  ASSUME NEW entry \in Entry, NEW interruptTypes
  PROVE  /\ ReadDevice(entry, interruptTypes) \in Settings
         /\ Agrees(ReadDevice(entry, interruptTypes), entry)
<1>1. ReadDevice(entry, interruptTypes) \in Settings
  BY StoredTypes
     DEF ReadDevice, Settings, MSI_Off, MSI_On, MSI_Invalid
<1>2. QED
  BY <1>1, StoredTypes
     DEF ReadDevice, Agrees, AffinityAgrees, MsiAgrees, MSI_Off, MSI_On, MSI_Invalid

\* setMSIMode gives a row and a key, and touches no field of the row outside
\* MSI.
LEMMA SetMsiTypes ==
  ASSUME NEW row \in Settings, NEW item \in Settings, NEW key \in MsiKey,
         NEW fault \in BOOLEAN, NEW m \in setMSIMode(row, item, key, fault)
  PROVE  /\ m.row \in Settings
         /\ m.key \in MsiKey
         /\ m.row.DevicePolicy = row.DevicePolicy
         /\ m.row.DevicePriority = row.DevicePriority
         /\ m.row.AssignmentSetOverride = row.AssignmentSetOverride
<1>1. CASE item.MsiSupported = MSI_Off
  <2>1. PICK k \in Written(key, Absent, fault) :
          m = [row |-> [row EXCEPT !.MsiSupported = MSI_Off], key |-> k]
    BY <1>1 DEF setMSIMode, MSI_Off, MSI_On
  <2>2. QED
    BY <2>1 DEF Written, Settings, MsiKey, MSI_Off, MSI_Invalid
<1>2. CASE item.MsiSupported = MSI_On
  <2> DEFINE on == [row EXCEPT !.MsiSupported = MSI_On,
                               !.MessageNumberLimit = item.MessageNumberLimit]
  <2>0. /\ on \in Settings
        /\ on.DevicePolicy = row.DevicePolicy
        /\ on.DevicePriority = row.DevicePriority
        /\ on.AssignmentSetOverride = row.AssignmentSetOverride
    BY DEF Settings, MSI_Off, MSI_On, MSI_Invalid
  <2>1. MsiValues(key) \in MsiValue
    BY DEF MsiKey, MsiValue, MsiValues, NewMsiKey
  <2>2. LimitValue(item) \in {Absent} \union Nat
    BY DEF LimitValue, Settings
  <2>3. CASE m = [row |-> row, key |-> key]
    BY <2>3
  <2>4. ASSUME NEW s \in Written(MsiValues(key).MSISupported, MSI_On, fault),
               NEW l \in Written(MsiValues(key).MessageNumberLimit, LimitValue(item), fault),
               m = [row |-> on, key |-> [MSISupported |-> s, MessageNumberLimit |-> l]]
        PROVE  /\ m.row \in Settings
               /\ m.key \in MsiKey
               /\ m.row.DevicePolicy = row.DevicePolicy
               /\ m.row.DevicePriority = row.DevicePriority
               /\ m.row.AssignmentSetOverride = row.AssignmentSetOverride
    <3>1. s \in {Absent, MSI_Off, MSI_On} /\ l \in {Absent} \union Nat
      BY <2>1, <2>2 DEF Written, MsiValue
    <3>2. m.key \in MsiKey
      BY <2>4, <3>1 DEF MsiKey, MsiValue
    <3>3. QED
      BY <2>0, <2>4, <3>2
  <2>5. QED
    BY <1>2, <2>3, <2>4 DEF setMSIMode, Refused, MSI_Off, MSI_On
<1>3. CASE item.MsiSupported \notin {MSI_Off, MSI_On}
  BY <1>3 DEF setMSIMode
<1>4. QED
  BY <1>1, <1>2, <1>3

\* So does leaving MSI alone.
LEMMA MsiOutcomeTypes ==
  ASSUME NEW row \in Settings, NEW item \in Settings, NEW key \in MsiKey,
         NEW fault \in BOOLEAN, NEW m \in MsiOutcomes(row, item, key, fault)
  PROVE  /\ m.row \in Settings
         /\ m.key \in MsiKey
         /\ m.row.DevicePolicy = row.DevicePolicy
         /\ m.row.DevicePriority = row.DevicePriority
         /\ m.row.AssignmentSetOverride = row.AssignmentSetOverride
  BY SetMsiTypes DEF MsiOutcomes

\* The same of setAffinityPolicy.
LEMMA SetAffinityTypes ==
  ASSUME NEW row \in Settings, NEW item \in Settings, NEW key \in AffinityKey,
         NEW fault \in BOOLEAN, NEW a \in setAffinityPolicy(row, item, key, fault)
  PROVE  /\ a.row \in Settings
         /\ a.key \in AffinityKey
         /\ a.row.MsiSupported = row.MsiSupported
         /\ a.row.MessageNumberLimit = row.MessageNumberLimit
<1> DEFINE updated == [row EXCEPT !.DevicePolicy = item.DevicePolicy,
                                  !.DevicePriority = item.DevicePriority,
                                  !.AssignmentSetOverride = MaskOf(item)]
           old     == AffinityValues(key)
<1>0. /\ updated \in Settings
      /\ updated.MsiSupported = row.MsiSupported
      /\ updated.MessageNumberLimit = row.MessageNumberLimit
  BY DEF Settings, MaskOf
<1>1. CASE NoAffinity(item)
  <2>1. PICK k \in Written(key, Absent, fault) : a = [row |-> updated, key |-> k]
    BY <1>1 DEF setAffinityPolicy
  <2>2. QED
    BY <1>0, <2>1 DEF Written, AffinityKey
<1>2. CASE ~NoAffinity(item)
  <2>1. old \in AffinityValue
    BY DEF AffinityKey, AffinityValue, AffinityValues, NewAffinityKey
  <2>2. CASE a = [row |-> row, key |-> key]
    BY <2>2
  <2>3. ASSUME NEW p \in Written(old.DevicePolicy, item.DevicePolicy, fault),
               NEW q \in Written(old.DevicePriority,
                                 IF item.DevicePriority = 0 THEN Absent
                                 ELSE item.DevicePriority, fault),
               NEW m \in Written(old.AssignmentSetOverride,
                                 IF item.DevicePolicy = IrqPolicySpecifiedProcessors
                                 THEN item.AssignmentSetOverride ELSE Absent, fault),
               a = [row |-> updated,
                    key |-> [DevicePolicy |-> p, DevicePriority |-> q,
                             AssignmentSetOverride |-> m]]
        PROVE  /\ a.row \in Settings
               /\ a.key \in AffinityKey
               /\ a.row.MsiSupported = row.MsiSupported
               /\ a.row.MessageNumberLimit = row.MessageNumberLimit
    <3>1. /\ p \in {Absent} \union Nat
          /\ q \in {Absent} \union Nat
          /\ m \in {Absent} \union SUBSET Bit
      BY <2>1 DEF Written, Settings, AffinityValue
    <3>2. a.key \in AffinityKey
      BY <2>3, <3>1 DEF AffinityKey, AffinityValue
    <3>3. QED
      BY <1>0, <2>3, <3>2
  <2>4. QED
    BY <1>2, <2>2, <2>3 DEF setAffinityPolicy, Refused
<1>3. QED
  BY <1>1, <1>2

LEMMA AffinityOutcomeTypes ==
  ASSUME NEW row \in Settings, NEW item \in Settings, NEW key \in AffinityKey,
         NEW fault \in BOOLEAN, NEW a \in AffinityOutcomes(row, item, key, fault)
  PROVE  /\ a.row \in Settings
         /\ a.key \in AffinityKey
         /\ a.row.MsiSupported = row.MsiSupported
         /\ a.row.MessageNumberLimit = row.MessageNumberLimit
  BY SetAffinityTypes DEF AffinityOutcomes

-----------------------------------------------------------------------------
\* After a setMSIMode in which every call succeeds the row and the key agree,
\* and the key holds what the item asks for.
LEMMA SetMsiAgrees ==
  ASSUME NEW row \in Settings, NEW item \in Settings, NEW key,
         item.MsiSupported = MSI_Off \/ item.MsiSupported = MSI_On,
         NEW m \in setMSIMode(row, item, key, FALSE), NEW after, after.msi = m.key
  PROVE  MsiAgrees(m.row, after) /\ HoldsMsi(after, item)
<1>1. CASE item.MsiSupported = MSI_Off
  <2>1. m = [row |-> [row EXCEPT !.MsiSupported = MSI_Off], key |-> Absent]
    BY <1>1 DEF setMSIMode, Written, MSI_Off, MSI_On
  <2>2. m.row.MsiSupported = MSI_Off
    BY <2>1 DEF Settings
  <2>3. StoredMsi(after) = MSI_Off
    BY <2>1 DEF StoredMsi, MsiValues, NewMsiKey, ValueOr
  <2>4. QED
    BY <1>1, <2>2, <2>3 DEF MsiAgrees, HoldsMsi, MSI_Off, MSI_On
<1>2. CASE item.MsiSupported = MSI_On
  <2>1. m = [row |-> [row EXCEPT !.MsiSupported = MSI_On,
                                 !.MessageNumberLimit = item.MessageNumberLimit],
             key |-> [MSISupported |-> MSI_On, MessageNumberLimit |-> LimitValue(item)]]
    BY <1>2 DEF setMSIMode, Written, Refused, MSI_Off, MSI_On
  <2>2. m.row.MsiSupported = MSI_On /\ m.row.MessageNumberLimit = item.MessageNumberLimit
    BY <2>1 DEF Settings
  <2>3. m.key # Absent
    <3>1. LimitValue(item) \in {Absent} \union Nat
      BY DEF LimitValue, Settings
    <3>2. m.key \in MsiValue
      BY <2>1, <3>1 DEF MsiValue
    <3>3. QED
      BY <3>2, AbsentAssumption
  <2>4. StoredMsi(after) = MSI_On
    BY <2>1, <2>3, AbsentAssumption DEF StoredMsi, MsiValues, ValueOr, MSI_On
  <2>5. StoredLimit(after) = item.MessageNumberLimit
    BY <2>1, <2>3, AbsentAssumption
       DEF StoredLimit, MsiValues, ValueOr, LimitValue, Settings
  <2>6. QED
    BY <1>2, <2>2, <2>4, <2>5 DEF MsiAgrees, HoldsMsi, MSI_Off, MSI_On
<1>3. QED
  BY <1>1, <1>2

\* The same after leaving alone a row that already is what the item asks for.
LEMMA MsiOutcomeAgrees ==
  ASSUME NEW row \in Settings, NEW item \in Settings, NEW entry \in Entry,
         MsiAgrees(row, entry),
         NEW m \in MsiOutcomes(row, item, entry.msi, FALSE),
         NEW after, after.msi = m.key
  PROVE  MsiAgrees(m.row, after) /\ HoldsMsi(after, item)
<1>1. CASE SameMsi(row, item)
  <2>1. m.row = row /\ after.msi = entry.msi
    BY <1>1 DEF MsiOutcomes
  <2>2. StoredMsi(after) = StoredMsi(entry) /\ StoredLimit(after) = StoredLimit(entry)
    BY <2>1 DEF StoredMsi, StoredLimit
  <2>3. QED
    BY <1>1, <2>1, <2>2 DEF MsiAgrees, HoldsMsi, SameMsi
<1>2. CASE ~SameMsi(row, item)
  <2>1. m \in setMSIMode(row, item, entry.msi, FALSE)
    BY <1>2 DEF MsiOutcomes
  <2>2. CASE item.MsiSupported = MSI_Off \/ item.MsiSupported = MSI_On
    BY <2>1, <2>2, SetMsiAgrees, Zenon
  <2>3. CASE item.MsiSupported \notin {MSI_Off, MSI_On}
    <3>1. m.row = row /\ after.msi = entry.msi
      <4>1. item.MsiSupported # MSI_Off /\ item.MsiSupported # MSI_On
        BY <2>3
      <4>2. m \in {[row |-> row, key |-> entry.msi]}
        BY <2>1, <4>1 DEF setMSIMode
      <4>3. m = [row |-> row, key |-> entry.msi]
        BY <4>2, Zenon
      <4>4. QED
        BY <4>3
    <3>2. StoredMsi(after) = StoredMsi(entry) /\ StoredLimit(after) = StoredLimit(entry)
      BY <3>1 DEF StoredMsi, StoredLimit
    <3>3. QED
      BY <2>3, <3>1, <3>2 DEF MsiAgrees, HoldsMsi, MSI_Off, MSI_On
  <2>4. QED
    BY <2>2, <2>3
<1>3. QED
  BY <1>1, <1>2

\* The same of setAffinityPolicy.
LEMMA SetAffinityAgrees ==
  ASSUME NEW row \in Settings, NEW item \in Settings, NEW key,
         NEW a \in setAffinityPolicy(row, item, key, FALSE), NEW after, after.affinity = a.key
  PROVE  AffinityAgrees(a.row, after) /\ HoldsAffinity(after, item)
<1> DEFINE updated == [row EXCEPT !.DevicePolicy = item.DevicePolicy,
                                  !.DevicePriority = item.DevicePriority,
                                  !.AssignmentSetOverride = MaskOf(item)]
           new == [DevicePolicy |-> item.DevicePolicy,
                   DevicePriority |-> IF item.DevicePriority = 0 THEN Absent
                                      ELSE item.DevicePriority,
                   AssignmentSetOverride |->
                     IF item.DevicePolicy = IrqPolicySpecifiedProcessors
                     THEN item.AssignmentSetOverride ELSE Absent]
<1>0. /\ updated.DevicePolicy = item.DevicePolicy
      /\ updated.DevicePriority = item.DevicePriority
      /\ updated.AssignmentSetOverride = MaskOf(item)
  BY DEF Settings
<1>1. CASE NoAffinity(item)
  <2>1. a = [row |-> updated, key |-> Absent]
    BY <1>1 DEF setAffinityPolicy, Written
  <2>2. /\ StoredPolicy(after) = 0
        /\ StoredPriority(after) = 0
        /\ StoredMask(after) = {}
    BY <2>1 DEF StoredPolicy, StoredPriority, StoredMask, AffinityValues,
                NewAffinityKey, ValueOr
  <2>3. /\ a.row = updated
        /\ item.DevicePolicy = 0 /\ item.DevicePriority = 0
        /\ MaskOf(item) = {}
    BY <1>1, <2>1 DEF NoAffinity, MaskOf, IrqPolicySpecifiedProcessors
  <2> HIDE DEF updated
  <2>4. QED
    BY <1>0, <2>2, <2>3 DEF AffinityAgrees, HoldsAffinity, IrqPolicySpecifiedProcessors
<1>2. CASE ~NoAffinity(item)
  <2>1. a = [row |-> updated, key |-> new]
    BY <1>2 DEF setAffinityPolicy, Written, Refused
  <2>2. new # Absent
    <3>1. new \in AffinityValue
      BY DEF AffinityValue, Settings
    <3>2. QED
      BY <3>1, AbsentAssumption
  <2>3. AffinityValues(after.affinity) = new
    BY <2>1, <2>2 DEF AffinityValues
  <2>4. StoredPolicy(after) = item.DevicePolicy
    BY <2>3, AbsentAssumption DEF StoredPolicy, ValueOr, Settings
  <2>5. StoredPriority(after) = item.DevicePriority
    BY <2>3, AbsentAssumption DEF StoredPriority, ValueOr, Settings
  <2>6. StoredMask(after) = MaskOf(item)
    BY <2>3, AbsentAssumption DEF StoredMask, ValueOr, MaskOf, Settings
  <2>7. QED
    BY <1>0, <2>1, <2>4, <2>5, <2>6
       DEF AffinityAgrees, HoldsAffinity, MaskOf
<1>3. QED
  BY <1>1, <1>2

\* The same after leaving alone a row that already is what the item asks for.
LEMMA AffinityOutcomeAgrees ==
  ASSUME NEW row \in Settings, NEW item \in Settings, NEW entry \in Entry,
         AffinityAgrees(row, entry),
         NEW a \in AffinityOutcomes(row, item, entry.affinity, FALSE),
         NEW after, after.affinity = a.key
  PROVE  AffinityAgrees(a.row, after) /\ HoldsAffinity(after, item)
<1>1. CASE SameAffinity(row, item)
  <2>1. a.row = row /\ after.affinity = entry.affinity
    BY <1>1 DEF AffinityOutcomes
  <2>2. /\ StoredPolicy(after) = StoredPolicy(entry)
        /\ StoredPriority(after) = StoredPriority(entry)
        /\ StoredMask(after) = StoredMask(entry)
    BY <2>1 DEF StoredPolicy, StoredPriority, StoredMask
  <2>3. QED
    BY <1>1, <2>1, <2>2 DEF AffinityAgrees, HoldsAffinity, SameAffinity
<1>2. CASE ~SameAffinity(row, item)
  <2>1. a \in setAffinityPolicy(row, item, entry.affinity, FALSE)
    BY <1>2 DEF AffinityOutcomes
  <2>2. QED
    BY <2>1, SetAffinityAgrees
<1>3. QED
  BY <1>1, <1>2

\* The key setAffinityPolicy writes is well formed if the item passed the check
\* of the OK button.
LEMMA AffinityOutcomeWellFormed ==
  ASSUME NEW row \in Settings, NEW item \in Settings, NEW key \in AffinityKey,
         ~(item.DevicePolicy = IrqPolicySpecifiedProcessors /\ item.AssignmentSetOverride = {}),
         NEW a \in AffinityOutcomes(row, item, key, FALSE)
  PROVE  a.key = key \/ WellFormed(a.key)
<1> DEFINE new == [DevicePolicy |-> item.DevicePolicy,
                   DevicePriority |-> IF item.DevicePriority = 0 THEN Absent
                                      ELSE item.DevicePriority,
                   AssignmentSetOverride |->
                     IF item.DevicePolicy = IrqPolicySpecifiedProcessors
                     THEN item.AssignmentSetOverride ELSE Absent]
<1>1. CASE SameAffinity(row, item)
  BY <1>1 DEF AffinityOutcomes
<1>2. CASE ~SameAffinity(row, item) /\ NoAffinity(item)
  <2>1. a.key = Absent
    BY <1>2 DEF AffinityOutcomes, setAffinityPolicy, Written
  <2>2. QED
    BY <2>1 DEF WellFormed
<1>3. CASE ~SameAffinity(row, item) /\ ~NoAffinity(item)
  <2>1. a.key = new
    BY <1>3 DEF AffinityOutcomes, setAffinityPolicy, Written, Refused
  <2>2. WellFormed(new)
    BY AbsentAssumption DEF WellFormed, Settings
  <2>3. QED
    BY <2>1, <2>2
<1>4. QED
  BY <1>1, <1>2, <1>3

-----------------------------------------------------------------------------
\* SetNewDevice keeps rows rows and entries entries, whatever calls fail.
LEMMA SetNewDeviceTypes ==
  ASSUME NEW row \in Settings, NEW item \in Settings, NEW entry \in Entry,
         NEW fault \in BOOLEAN, NEW done \in SetNewDevice(row, item, entry, fault)
  PROVE  done.row \in Settings /\ done.entry \in Entry
<1>0. entry.affinity \in AffinityKey /\ entry.msi \in MsiKey
  BY DEF Entry
<1>1. PICK m \in MsiOutcomes(row, item, entry.msi, fault) :
        \E a \in AffinityOutcomes(m.row, item, entry.affinity, fault) :
          done = [row |-> a.row, entry |-> [affinity |-> a.key, msi |-> m.key]]
  BY Zenon DEF SetNewDevice
<1>2. m.row \in Settings /\ m.key \in MsiKey
  BY <1>0, MsiOutcomeTypes
<1>3. PICK a \in AffinityOutcomes(m.row, item, entry.affinity, fault) :
        done = [row |-> a.row, entry |-> [affinity |-> a.key, msi |-> m.key]]
  BY <1>1
<1>4. a.row \in Settings /\ a.key \in AffinityKey
  BY <1>0, <1>2, AffinityOutcomeTypes
<1>5. QED
  BY <1>2, <1>3, <1>4 DEF Entry

\* When every call succeeds, storing an item in a device whose row agrees with
\* the registry leaves a row that agrees and a registry that holds the item,
\* and an affinity key that was left alone or is well formed.
LEMMA SetNewDeviceAgrees ==
  ASSUME NEW row \in Settings, NEW item \in Settings, NEW entry \in Entry,
         Agrees(row, entry), NEW done \in SetNewDevice(row, item, entry, FALSE)
  PROVE  Agrees(done.row, done.entry) /\ Holds(done.entry, item)
<1>0. entry.affinity \in AffinityKey /\ entry.msi \in MsiKey
  BY DEF Entry
<1>1. PICK m \in MsiOutcomes(row, item, entry.msi, FALSE) :
        \E a \in AffinityOutcomes(m.row, item, entry.affinity, FALSE) :
          done = [row |-> a.row, entry |-> [affinity |-> a.key, msi |-> m.key]]
  BY Zenon DEF SetNewDevice
<1>2. /\ m.row \in Settings
      /\ m.row.DevicePolicy = row.DevicePolicy
      /\ m.row.DevicePriority = row.DevicePriority
      /\ m.row.AssignmentSetOverride = row.AssignmentSetOverride
  BY <1>0, MsiOutcomeTypes
<1>3. PICK a \in AffinityOutcomes(m.row, item, entry.affinity, FALSE) :
        done = [row |-> a.row, entry |-> [affinity |-> a.key, msi |-> m.key]]
  BY <1>1
<1>4. /\ a.row.MsiSupported = m.row.MsiSupported
      /\ a.row.MessageNumberLimit = m.row.MessageNumberLimit
  BY <1>0, <1>2, AffinityOutcomeTypes
<1>5. /\ done.row = a.row
      /\ done.entry.affinity = a.key
      /\ done.entry.msi = m.key
  BY <1>3
<1>6. MsiAgrees(m.row, done.entry) /\ HoldsMsi(done.entry, item)
  BY <1>5, MsiOutcomeAgrees DEF Agrees
<1>7. AffinityAgrees(m.row, entry)
  BY <1>2 DEF Agrees, AffinityAgrees
<1>8. AffinityAgrees(a.row, done.entry) /\ HoldsAffinity(done.entry, item)
  BY <1>2, <1>5, <1>7, AffinityOutcomeAgrees
<1>9. MsiAgrees(a.row, done.entry)
  BY <1>4, <1>6 DEF MsiAgrees
<1>10. QED
  BY <1>5, <1>6, <1>8, <1>9 DEF Agrees, Holds

LEMMA SetNewDeviceWellFormed ==
  ASSUME NEW row \in Settings, NEW item \in Settings, NEW entry \in Entry,
         ~(item.DevicePolicy = IrqPolicySpecifiedProcessors /\ item.AssignmentSetOverride = {}),
         NEW done \in SetNewDevice(row, item, entry, FALSE)
  PROVE  done.entry.affinity = entry.affinity \/ WellFormed(done.entry.affinity)
<1>0. entry.affinity \in AffinityKey /\ entry.msi \in MsiKey
  BY DEF Entry
<1>1. PICK m \in MsiOutcomes(row, item, entry.msi, FALSE) :
        \E a \in AffinityOutcomes(m.row, item, entry.affinity, FALSE) :
          done = [row |-> a.row, entry |-> [affinity |-> a.key, msi |-> m.key]]
  BY Zenon DEF SetNewDevice
<1>2. m.row \in Settings
  BY <1>0, MsiOutcomeTypes
<1>3. PICK a \in AffinityOutcomes(m.row, item, entry.affinity, FALSE) :
        done = [row |-> a.row, entry |-> [affinity |-> a.key, msi |-> m.key]]
  BY <1>1
<1>4. a.key = entry.affinity \/ WellFormed(a.key)
  BY <1>0, <1>2, AffinityOutcomeWellFormed
<1>5. QED
  BY <1>3, <1>4

\* An item that does not decide about MSI leaves the MSI key as it is.
LEMMA SetNewDeviceKeepsMsi ==
  ASSUME NEW row \in Settings, NEW item \in Settings, NEW entry \in Entry,
         item.MsiSupported # MSI_Off, item.MsiSupported # MSI_On,
         NEW done \in SetNewDevice(row, item, entry, FALSE)
  PROVE  done.entry.msi = entry.msi
<1>1. PICK m \in MsiOutcomes(row, item, entry.msi, FALSE) :
        \E a \in AffinityOutcomes(m.row, item, entry.affinity, FALSE) :
          done = [row |-> a.row, entry |-> [affinity |-> a.key, msi |-> m.key]]
  BY Zenon DEF SetNewDevice
<1>2. m.key = entry.msi
  <2>1. m \in {[row |-> row, key |-> entry.msi]}
    BY DEF MsiOutcomes, setMSIMode
  <2>2. m = [row |-> row, key |-> entry.msi]
    BY <2>1, Zenon
  <2>3. QED
    BY <2>2
<1>3. done.entry.msi = m.key
  BY <1>1
<1>4. QED
  BY <1>2, <1>3
=============================================================================
