------------------------- MODULE SettingsWriter_proofs -------------------------
(***************************************************************************)
(* Proofs about the setters call by call, for any processes, settings and  *)
(* contents of the registry: what a process has done of a setter is always *)
(* the beginning of one of its outcomes, counted from what was there       *)
(* before, or from what another process put there since.  Hence the types, *)
(* the agreement of undisturbed rows, and that every process implements    *)
(* SettingsStore.                                                          *)
(***************************************************************************)
EXTENDS SettingsWriter, DeviceSettings_proofs

\* What a value may be before and after the call that writes it.
Wrote(old, new, done, spoiled) == IF done THEN Written(old, new, spoiled) ELSE {old}

\* A key, k, when call number at of its setter is next.
MsiProgress(item, at, deleted, before, spoiled, k) ==
  IF item.MsiSupported = MSI_Off THEN k \in Wrote(before, Absent, at > 2, spoiled)
  ELSE IF deleted THEN k = before /\ spoiled
  ELSE /\ k \in MsiValue
       /\ k.MSISupported \in Wrote(MsiValues(before).MSISupported, MSI_On, at > 2, spoiled)
       /\ k.MessageNumberLimit
            \in Wrote(MsiValues(before).MessageNumberLimit, LimitValue(item), at > 3, spoiled)

AffinityProgress(item, at, deleted, before, spoiled, k) ==
  IF NoAffinity(item) THEN k \in Wrote(before, Absent, at > 2, spoiled)
  ELSE IF deleted THEN k = before /\ spoiled
  ELSE LET old == AffinityValues(before) IN
       /\ k \in AffinityValue
       /\ k.DevicePolicy \in Wrote(old.DevicePolicy, item.DevicePolicy, at > 2, spoiled)
       /\ k.AssignmentSetOverride
            \in Wrote(old.AssignmentSetOverride, MaskValue(item), at > 3, spoiled)
       /\ k.DevicePriority \in Wrote(old.DevicePriority, PriorityValue(item), at > 4, spoiled)

Progress(key, item, at, deleted, before, spoiled, k) ==
  IF key = "msi" THEN MsiProgress(item, at, deleted, before, spoiled, k)
  ELSE AffinityProgress(item, at, deleted, before, spoiled, k)

KeyType(key) == IF key = "msi" THEN MsiKey ELSE AffinityKey

setKey(key, row, item, k, fault) ==
  IF key = "msi" THEN setMSIMode(row, item, k, fault) ELSE setAffinityPolicy(row, item, k, fault)

-----------------------------------------------------------------------------
(***************************************************************************)
(* The calls.  A setter either opens and deletes its key, or creates it    *)
(* and sets its values.                                                    *)
(***************************************************************************)
LEMMA ValueTypes ==
  ASSUME NEW item \in Settings
  PROVE  /\ LimitValue(item) \in {Absent} \union Nat
         /\ PriorityValue(item) \in {Absent} \union Nat
         /\ MaskValue(item) \in {Absent} \union SUBSET Bit
         /\ item.DevicePolicy \in Nat
  BY DEF Settings, LimitValue, PriorityValue, MaskValue

LEMMA MsiKeyValues ==
  ASSUME NEW k \in MsiKey
  PROVE  /\ MsiValues(k) \in MsiValue
         /\ k # Absent => MsiValues(k) = k
  BY DEF MsiKey, MsiValue, MsiValues, NewMsiKey

LEMMA AffinityKeyValues ==
  ASSUME NEW k \in AffinityKey
  PROVE  /\ AffinityValues(k) \in AffinityValue
         /\ k # Absent => AffinityValues(k) = k
  BY DEF AffinityKey, AffinityValue, AffinityValues, NewAffinityKey

\* What each kind of call does to a key.
LEMMA CallEffects ==
  ASSUME NEW key, NEW k
  PROVE  /\ OpenKey.op = "open" /\ Effect(key, OpenKey, k) = k
         /\ CreateKey.op = "create"
         /\ Effect(key, CreateKey, k) = IF k # Absent THEN k
                                        ELSE IF key = "msi" THEN NewMsiKey ELSE NewAffinityKey
         /\ DeleteKey.op = "delete" /\ Effect(key, DeleteKey, k) = Absent
<1>1. OpenKey.op = "open" /\ CreateKey.op = "create" /\ DeleteKey.op = "delete"
  BY DEF OpenKey, CreateKey, DeleteKey
<1> QED
  BY <1>1 DEF Effect

LEMMA SetEffect ==
  ASSUME NEW key, NEW k, NEW name, NEW value
  PROVE  /\ SetValue(name, value).op = "set"
         /\ Effect(key, SetValue(name, value), k) = [k EXCEPT ![name] = value]
<1> DEFINE call == SetValue(name, value)
<1>1. call.op = "set" /\ call.name = name /\ call.value = value
  BY DEF SetValue
<1> HIDE DEF call
<1>2. Effect(key, call, k) = [k EXCEPT ![call.name] = call.value]
  BY <1>1 DEF Effect
<1>3. [k EXCEPT ![call.name] = call.value] = [k EXCEPT ![name] = value]
  BY <1>1, Zenon
<1> QED
  BY <1>1, <1>2, <1>3 DEF call

LEMMA MsiCallsShape ==
  ASSUME NEW item \in Settings, MsiCalls(item) # <<>>
  PROVE  \/ /\ item.MsiSupported = MSI_Off
            /\ Len(MsiCalls(item)) = 2
            /\ MsiCalls(item)[1] = OpenKey /\ MsiCalls(item)[2] = DeleteKey
         \/ /\ item.MsiSupported = MSI_On /\ item.MsiSupported # MSI_Off
            /\ Len(MsiCalls(item)) = 3
            /\ MsiCalls(item)[1] = CreateKey
            /\ MsiCalls(item)[2] = SetValue("MSISupported", MSI_On)
            /\ MsiCalls(item)[3] = SetValue("MessageNumberLimit", LimitValue(item))
<1>1. CASE item.MsiSupported = MSI_Off
  <2>1. MsiCalls(item) = <<OpenKey, DeleteKey>>
    BY <1>1 DEF MsiCalls
  <2> QED
    BY <1>1, <2>1
<1>2. CASE item.MsiSupported # MSI_Off
  <2>1. /\ item.MsiSupported = MSI_On
        /\ MsiCalls(item) = <<CreateKey, SetValue("MSISupported", MSI_On),
                              SetValue("MessageNumberLimit", LimitValue(item))>>
    BY <1>2 DEF MsiCalls
  <2> QED
    BY <1>2, <2>1
<1> QED
  BY <1>1, <1>2

LEMMA AffinityCallsShape ==
  ASSUME NEW item \in Settings
  PROVE  \/ /\ NoAffinity(item)
            /\ Len(AffinityCalls(item)) = 2
            /\ AffinityCalls(item)[1] = OpenKey /\ AffinityCalls(item)[2] = DeleteKey
         \/ /\ ~NoAffinity(item)
            /\ Len(AffinityCalls(item)) = 4
            /\ AffinityCalls(item)[1] = CreateKey
            /\ AffinityCalls(item)[2] = SetValue("DevicePolicy", item.DevicePolicy)
            /\ AffinityCalls(item)[3] = SetValue("AssignmentSetOverride", MaskValue(item))
            /\ AffinityCalls(item)[4] = SetValue("DevicePriority", PriorityValue(item))
<1>1. CASE NoAffinity(item)
  <2>1. AffinityCalls(item) = <<OpenKey, DeleteKey>>
    BY <1>1 DEF AffinityCalls
  <2> QED
    BY <1>1, <2>1
<1>2. CASE ~NoAffinity(item)
  <2>1. AffinityCalls(item) = <<CreateKey, SetValue("DevicePolicy", item.DevicePolicy),
                                SetValue("AssignmentSetOverride", MaskValue(item)),
                                SetValue("DevicePriority", PriorityValue(item))>>
    BY <1>2 DEF AffinityCalls
  <2> QED
    BY <1>2, <2>1
<1> QED
  BY <1>1, <1>2

\* The first call: a key that is there after it is the beginning of an outcome.
LEMMA FirstMsiCall ==
  ASSUME NEW item \in Settings, MsiCalls(item) # <<>>, NEW k \in MsiKey
  PROVE  /\ Effect("msi", MsiCalls(item)[1], k) \in MsiKey
         /\ MsiProgress(item, 2, FALSE, k, FALSE, Effect("msi", MsiCalls(item)[1], k))
<1>1. CASE item.MsiSupported = MSI_Off
  <2>1. Effect("msi", MsiCalls(item)[1], k) = k
    BY <1>1, MsiCallsShape, CallEffects
  <2> QED
    BY <1>1, <2>1 DEF MsiProgress, Wrote
<1>2. CASE item.MsiSupported # MSI_Off
  <2>1. Effect("msi", MsiCalls(item)[1], k) = MsiValues(k)
    BY <1>2, MsiCallsShape, CallEffects DEF MsiValues
  <2>2. MsiValues(k) \in MsiValue
    BY MsiKeyValues
  <2>3. MsiProgress(item, 2, FALSE, k, FALSE, MsiValues(k))
    BY <1>2, <2>2 DEF MsiProgress, Wrote
  <2> QED
    BY <2>1, <2>2, <2>3 DEF MsiKey
<1> QED
  BY <1>1, <1>2

LEMMA FirstAffinityCall ==
  ASSUME NEW item \in Settings, NEW k \in AffinityKey
  PROVE  /\ Effect("affinity", AffinityCalls(item)[1], k) \in AffinityKey
         /\ AffinityProgress(item, 2, FALSE, k, FALSE,
                             Effect("affinity", AffinityCalls(item)[1], k))
<1>1. CASE NoAffinity(item)
  <2>1. Effect("affinity", AffinityCalls(item)[1], k) = k
    BY <1>1, AffinityCallsShape, CallEffects
  <2> QED
    BY <1>1, <2>1 DEF AffinityProgress, Wrote
<1>2. CASE ~NoAffinity(item)
  <2>1. Effect("affinity", AffinityCalls(item)[1], k) = AffinityValues(k)
    BY <1>2, AffinityCallsShape, CallEffects DEF AffinityValues
  <2>2. AffinityValues(k) \in AffinityValue
    BY AffinityKeyValues
  <2>3. AffinityProgress(item, 2, FALSE, k, FALSE, AffinityValues(k))
    BY <1>2, <2>2 DEF AffinityProgress, Wrote
  <2> QED
    BY <2>1, <2>2, <2>3 DEF AffinityKey
<1> QED
  BY <1>1, <1>2

-----------------------------------------------------------------------------
(***************************************************************************)
(* A later call, which may fail, be refused because the key was deleted,   *)
(* or take effect, brings the setter one call further.                     *)
(***************************************************************************)
LEMMA LaterMsiCalls ==
  ASSUME NEW item \in Settings, MsiCalls(item) # <<>>, NEW at \in 2 .. Len(MsiCalls(item))
  PROVE  LET call == MsiCalls(item)[at] IN
         \/ item.MsiSupported = MSI_Off /\ at = 2 /\ call = DeleteKey
         \/ /\ item.MsiSupported # MSI_Off /\ call.op = "set"
            /\ \/ at = 2 /\ call = SetValue("MSISupported", MSI_On)
               \/ at = 3 /\ call = SetValue("MessageNumberLimit", LimitValue(item))
<1> DEFINE call == MsiCalls(item)[at]
<1>1. \A name, value : SetValue(name, value).op = "set"
  BY SetEffect
<1>2. CASE item.MsiSupported = MSI_Off
  <2>1. Len(MsiCalls(item)) = 2 /\ MsiCalls(item)[2] = DeleteKey
    BY <1>2, MsiCallsShape
  <2>2. at = 2
    BY <2>1
  <2> QED
    BY <1>2, <2>1, <2>2
<1>3. CASE item.MsiSupported # MSI_Off
  <2>1. /\ Len(MsiCalls(item)) = 3
        /\ MsiCalls(item)[2] = SetValue("MSISupported", MSI_On)
        /\ MsiCalls(item)[3] = SetValue("MessageNumberLimit", LimitValue(item))
    BY <1>3, MsiCallsShape
  <2>2. at = 2 \/ at = 3
    BY <2>1
  <2>3. \/ at = 2 /\ call = SetValue("MSISupported", MSI_On)
        \/ at = 3 /\ call = SetValue("MessageNumberLimit", LimitValue(item))
    BY <2>1, <2>2
  <2>4. call.op = "set"
    BY <1>1, <2>3
  <2> QED
    BY <1>3, <2>3, <2>4
<1> QED
  BY <1>2, <1>3

LEMMA LaterAffinityCalls ==
  ASSUME NEW item \in Settings, NEW at \in 2 .. Len(AffinityCalls(item))
  PROVE  LET call == AffinityCalls(item)[at] IN
         \/ NoAffinity(item) /\ at = 2 /\ call = DeleteKey
         \/ /\ ~NoAffinity(item) /\ call.op = "set"
            /\ \/ at = 2 /\ call = SetValue("DevicePolicy", item.DevicePolicy)
               \/ at = 3 /\ call = SetValue("AssignmentSetOverride", MaskValue(item))
               \/ at = 4 /\ call = SetValue("DevicePriority", PriorityValue(item))
<1> DEFINE call == AffinityCalls(item)[at]
<1>1. \A name, value : SetValue(name, value).op = "set"
  BY SetEffect
<1>2. CASE NoAffinity(item)
  <2>1. Len(AffinityCalls(item)) = 2 /\ AffinityCalls(item)[2] = DeleteKey
    BY <1>2, AffinityCallsShape
  <2>2. at = 2
    BY <2>1
  <2> QED
    BY <1>2, <2>1, <2>2
<1>3. CASE ~NoAffinity(item)
  <2>1. /\ Len(AffinityCalls(item)) = 4
        /\ AffinityCalls(item)[2] = SetValue("DevicePolicy", item.DevicePolicy)
        /\ AffinityCalls(item)[3] = SetValue("AssignmentSetOverride", MaskValue(item))
        /\ AffinityCalls(item)[4] = SetValue("DevicePriority", PriorityValue(item))
    BY <1>3, AffinityCallsShape
  <2>2. at = 2 \/ at = 3 \/ at = 4
    BY <2>1
  <2>3. \/ at = 2 /\ call = SetValue("DevicePolicy", item.DevicePolicy)
        \/ at = 3 /\ call = SetValue("AssignmentSetOverride", MaskValue(item))
        \/ at = 4 /\ call = SetValue("DevicePriority", PriorityValue(item))
    BY <2>1, <2>2
  <2>4. call.op = "set"
    BY <1>1, <2>3
  <2> QED
    BY <1>3, <2>3, <2>4
<1> QED
  BY <1>2, <1>3

LEMMA LaterMsiCall ==
  ASSUME NEW item \in Settings, MsiCalls(item) # <<>>, NEW at \in 2 .. Len(MsiCalls(item)),
         NEW before \in MsiKey, NEW deleted \in BOOLEAN, NEW spoiled \in BOOLEAN,
         NEW fails \in BOOLEAN, NEW spoilt \in BOOLEAN, spoilt <=> (spoiled \/ fails),
         NEW k \in MsiKey,
         MsiProgress(item, at, deleted, before, spoiled, k),
         NEW after,
         after = IF fails \/ (MsiCalls(item)[at].op = "set" /\ deleted) THEN k
                 ELSE Effect("msi", MsiCalls(item)[at], k)
  PROVE  /\ after \in MsiKey
         /\ MsiProgress(item, at + 1, deleted, before, spoilt, after)
<1>1. CASE item.MsiSupported = MSI_Off
  <2>1. at = 2 /\ MsiCalls(item)[at] = DeleteKey
    BY <1>1, LaterMsiCalls
  <2>2. after = IF fails THEN k ELSE Absent
    BY <2>1, CallEffects
  <2>3. k \in Wrote(before, Absent, FALSE, spoiled)
    BY <1>1, <2>1 DEF MsiProgress, Wrote
  <2>4. after \in Wrote(before, Absent, TRUE, spoilt)
    BY <2>2, <2>3 DEF Wrote, Written
  <2>5. at + 1 > 2
    BY <2>1
  <2> QED
    BY <1>1, <2>2, <2>4, <2>5 DEF MsiProgress, MsiKey, Wrote
<1>2. CASE item.MsiSupported # MSI_Off /\ deleted
  <2>0. item.MsiSupported # MSI_Off
    BY <1>2
  <2>1. MsiCalls(item)[at].op = "set"
    BY <2>0, LaterMsiCalls
  <2>2. after = k
    BY <1>2, <2>1
  <2>3. k = before /\ spoiled
    BY <1>2 DEF MsiProgress
  <2> QED
    BY <1>2, <2>2, <2>3 DEF MsiProgress
<1>3. CASE item.MsiSupported # MSI_Off /\ ~deleted
  <2> DEFINE old == MsiValues(before)
             P(v, x, done) == v \in Wrote(old.MSISupported, MSI_On, done, x)
             Q(v, x, done) == v \in Wrote(old.MessageNumberLimit, LimitValue(item), done, x)
  <2>1. k \in MsiValue /\ P(k.MSISupported, spoiled, at > 2) /\ Q(k.MessageNumberLimit, spoiled, at > 3)
    BY <1>3 DEF MsiProgress
  <2>2. ASSUME after \in MsiValue,
               P(after.MSISupported, spoilt, at + 1 > 2),
               Q(after.MessageNumberLimit, spoilt, at + 1 > 3)
        PROVE  /\ after \in MsiKey
               /\ MsiProgress(item, at + 1, deleted, before, spoilt, after)
    BY <1>3, <2>2 DEF MsiProgress, MsiKey, Wrote
  <2>3. CASE at = 2
    <3>0. (at > 2) = FALSE /\ (at > 3) = FALSE /\ (at + 1 > 2) = TRUE /\ (at + 1 > 3) = FALSE
      BY <2>3
    <3>1. MsiCalls(item)[at] = SetValue("MSISupported", MSI_On)
      BY <1>3, <2>3, LaterMsiCalls
    <3>2. after = IF fails THEN k ELSE [k EXCEPT !["MSISupported"] = MSI_On]
      BY <1>3, <3>1, SetEffect
    <3>3. /\ after \in MsiValue
          /\ after.MSISupported = IF fails THEN k.MSISupported ELSE MSI_On
          /\ after.MessageNumberLimit = k.MessageNumberLimit
      BY <2>1, <3>2 DEF MsiValue
    <3>4. P(after.MSISupported, spoilt, TRUE)
      BY <2>1, <3>0, <3>3 DEF Wrote, Written
    <3>5. Q(after.MessageNumberLimit, spoilt, FALSE)
      BY <2>1, <3>0, <3>3 DEF Wrote, Written
    <3> QED
      BY <2>2, <3>0, <3>3, <3>4, <3>5 DEF Wrote
  <2>4. CASE at = 3
    <3>0. (at > 2) = TRUE /\ (at > 3) = FALSE /\ (at + 1 > 2) = TRUE /\ (at + 1 > 3) = TRUE
      BY <2>4
    <3>1. MsiCalls(item)[at] = SetValue("MessageNumberLimit", LimitValue(item))
      BY <1>3, <2>4, LaterMsiCalls
    <3>2. after = IF fails THEN k ELSE [k EXCEPT !["MessageNumberLimit"] = LimitValue(item)]
      BY <1>3, <3>1, SetEffect
    <3>3. /\ after \in MsiValue
          /\ after.MessageNumberLimit = IF fails THEN k.MessageNumberLimit ELSE LimitValue(item)
          /\ after.MSISupported = k.MSISupported
      BY <2>1, <3>2, ValueTypes DEF MsiValue
    <3>4. P(after.MSISupported, spoilt, TRUE)
      BY <2>1, <3>0, <3>3 DEF Wrote, Written
    <3>5. Q(after.MessageNumberLimit, spoilt, TRUE)
      BY <2>1, <3>0, <3>3 DEF Wrote, Written
    <3> QED
      BY <2>2, <3>0, <3>3, <3>4, <3>5 DEF Wrote
  <2>5. at = 2 \/ at = 3
    <3>1. item.MsiSupported # MSI_Off
      BY <1>3
    <3> QED
      BY <3>1, LaterMsiCalls
  <2> QED
    BY <2>3, <2>4, <2>5
<1> QED
  BY <1>1, <1>2, <1>3

LEMMA LaterAffinityCall ==
  ASSUME NEW item \in Settings, NEW at \in 2 .. Len(AffinityCalls(item)),
         NEW before \in AffinityKey, NEW deleted \in BOOLEAN, NEW spoiled \in BOOLEAN,
         NEW fails \in BOOLEAN, NEW spoilt \in BOOLEAN, spoilt <=> (spoiled \/ fails),
         NEW k \in AffinityKey,
         AffinityProgress(item, at, deleted, before, spoiled, k),
         NEW after,
         after = IF fails \/ (AffinityCalls(item)[at].op = "set" /\ deleted) THEN k
                 ELSE Effect("affinity", AffinityCalls(item)[at], k)
  PROVE  /\ after \in AffinityKey
         /\ AffinityProgress(item, at + 1, deleted, before, spoilt, after)
<1>1. CASE NoAffinity(item)
  <2>1. at = 2 /\ AffinityCalls(item)[at] = DeleteKey
    BY <1>1, LaterAffinityCalls
  <2>2. after = IF fails THEN k ELSE Absent
    BY <2>1, CallEffects
  <2>3. k \in Wrote(before, Absent, FALSE, spoiled)
    BY <1>1, <2>1 DEF AffinityProgress, Wrote
  <2>4. after \in Wrote(before, Absent, TRUE, spoilt)
    BY <2>2, <2>3 DEF Wrote, Written
  <2>5. at + 1 > 2
    BY <2>1
  <2> QED
    BY <1>1, <2>2, <2>4, <2>5 DEF AffinityProgress, AffinityKey, Wrote
<1>2. CASE ~NoAffinity(item) /\ deleted
  <2>0. ~NoAffinity(item)
    BY <1>2
  <2>1. AffinityCalls(item)[at].op = "set"
    BY <2>0, LaterAffinityCalls
  <2>2. after = k
    BY <1>2, <2>1
  <2>3. k = before /\ spoiled
    BY <1>2 DEF AffinityProgress
  <2> QED
    BY <1>2, <2>2, <2>3 DEF AffinityProgress
<1>3. CASE ~NoAffinity(item) /\ ~deleted
  <2> DEFINE old == AffinityValues(before)
             P(v, x, done) == v \in Wrote(old.DevicePolicy, item.DevicePolicy, done, x)
             Q(v, x, done) == v \in Wrote(old.AssignmentSetOverride, MaskValue(item), done, x)
             R(v, x, done) == v \in Wrote(old.DevicePriority, PriorityValue(item), done, x)
  <2>1. /\ k \in AffinityValue
        /\ P(k.DevicePolicy, spoiled, at > 2)
        /\ Q(k.AssignmentSetOverride, spoiled, at > 3)
        /\ R(k.DevicePriority, spoiled, at > 4)
    BY <1>3 DEF AffinityProgress
  <2>2. ASSUME after \in AffinityValue,
               P(after.DevicePolicy, spoilt, at + 1 > 2),
               Q(after.AssignmentSetOverride, spoilt, at + 1 > 3),
               R(after.DevicePriority, spoilt, at + 1 > 4)
        PROVE  /\ after \in AffinityKey
               /\ AffinityProgress(item, at + 1, deleted, before, spoilt, after)
    BY <1>3, <2>2 DEF AffinityProgress, AffinityKey, Wrote
  <2>3. CASE at = 2
    <3>0. /\ (at > 2) = FALSE /\ (at > 3) = FALSE /\ (at > 4) = FALSE
          /\ (at + 1 > 2) = TRUE /\ (at + 1 > 3) = FALSE /\ (at + 1 > 4) = FALSE
      BY <2>3
    <3>1. AffinityCalls(item)[at] = SetValue("DevicePolicy", item.DevicePolicy)
      BY <1>3, <2>3, LaterAffinityCalls
    <3>2. after = IF fails THEN k ELSE [k EXCEPT !["DevicePolicy"] = item.DevicePolicy]
      BY <1>3, <3>1, SetEffect
    <3>3. /\ after \in AffinityValue
          /\ after.DevicePolicy = IF fails THEN k.DevicePolicy ELSE item.DevicePolicy
          /\ after.AssignmentSetOverride = k.AssignmentSetOverride
          /\ after.DevicePriority = k.DevicePriority
      BY <2>1, <3>2, ValueTypes DEF AffinityValue
    <3>4. P(after.DevicePolicy, spoilt, TRUE)
      BY <2>1, <3>0, <3>3 DEF Wrote, Written
    <3>5. Q(after.AssignmentSetOverride, spoilt, FALSE)
      BY <2>1, <3>0, <3>3 DEF Wrote, Written
    <3>6. R(after.DevicePriority, spoilt, FALSE)
      BY <2>1, <3>0, <3>3 DEF Wrote, Written
    <3> QED
      BY <2>2, <3>0, <3>3, <3>4, <3>5, <3>6 DEF Wrote
  <2>4. CASE at = 3
    <3>0. /\ (at > 2) = TRUE /\ (at > 3) = FALSE /\ (at > 4) = FALSE
          /\ (at + 1 > 2) = TRUE /\ (at + 1 > 3) = TRUE /\ (at + 1 > 4) = FALSE
      BY <2>4
    <3>1. AffinityCalls(item)[at] = SetValue("AssignmentSetOverride", MaskValue(item))
      BY <1>3, <2>4, LaterAffinityCalls
    <3>2. after = IF fails THEN k ELSE [k EXCEPT !["AssignmentSetOverride"] = MaskValue(item)]
      BY <1>3, <3>1, SetEffect
    <3>3. /\ after \in AffinityValue
          /\ after.DevicePolicy = k.DevicePolicy
          /\ after.AssignmentSetOverride = IF fails THEN k.AssignmentSetOverride ELSE MaskValue(item)
          /\ after.DevicePriority = k.DevicePriority
      BY <2>1, <3>2, ValueTypes DEF AffinityValue
    <3>4. P(after.DevicePolicy, spoilt, TRUE)
      BY <2>1, <3>0, <3>3 DEF Wrote, Written
    <3>5. Q(after.AssignmentSetOverride, spoilt, TRUE)
      BY <2>1, <3>0, <3>3 DEF Wrote, Written
    <3>6. R(after.DevicePriority, spoilt, FALSE)
      BY <2>1, <3>0, <3>3 DEF Wrote, Written
    <3> QED
      BY <2>2, <3>0, <3>3, <3>4, <3>5, <3>6 DEF Wrote
  <2>5. CASE at = 4
    <3>0. /\ (at > 2) = TRUE /\ (at > 3) = TRUE /\ (at > 4) = FALSE
          /\ (at + 1 > 2) = TRUE /\ (at + 1 > 3) = TRUE /\ (at + 1 > 4) = TRUE
      BY <2>5
    <3>1. AffinityCalls(item)[at] = SetValue("DevicePriority", PriorityValue(item))
      BY <1>3, <2>5, LaterAffinityCalls
    <3>2. after = IF fails THEN k ELSE [k EXCEPT !["DevicePriority"] = PriorityValue(item)]
      BY <1>3, <3>1, SetEffect
    <3>3. /\ after \in AffinityValue
          /\ after.DevicePolicy = k.DevicePolicy
          /\ after.AssignmentSetOverride = k.AssignmentSetOverride
          /\ after.DevicePriority = IF fails THEN k.DevicePriority ELSE PriorityValue(item)
      BY <2>1, <3>2, ValueTypes DEF AffinityValue
    <3>4. P(after.DevicePolicy, spoilt, TRUE)
      BY <2>1, <3>0, <3>3 DEF Wrote, Written
    <3>5. Q(after.AssignmentSetOverride, spoilt, TRUE)
      BY <2>1, <3>0, <3>3 DEF Wrote, Written
    <3>6. R(after.DevicePriority, spoilt, TRUE)
      BY <2>1, <3>0, <3>3 DEF Wrote, Written
    <3> QED
      BY <2>2, <3>0, <3>3, <3>4, <3>5, <3>6 DEF Wrote
  <2>6. at = 2 \/ at = 3 \/ at = 4
    <3>1. ~NoAffinity(item)
      BY <1>3
    <3> QED
      BY <3>1, LaterAffinityCalls
  <2> QED
    BY <2>3, <2>4, <2>5, <2>6
<1> QED
  BY <1>1, <1>2, <1>3

-----------------------------------------------------------------------------
(***************************************************************************)
(* A setter that is over has one of its outcomes, and so has one that is   *)
(* killed, if its missing calls count as failed; unless its key was        *)
(* deleted, for then nothing more was done to it.                          *)
(***************************************************************************)
LEMMA RowAfterTypes ==
  ASSUME NEW row \in Settings, NEW item \in Settings, NEW key \in Key
  PROVE  RowAfter(key, row, item) \in Settings
  BY DEF RowAfter, Settings, MaskOf, Key, MSI_Off

LEMMA MsiOutcome ==
  ASSUME NEW row \in Settings, NEW item \in Settings, MsiCalls(item) # <<>>,
         NEW at \in Nat, NEW before \in MsiKey, NEW deleted \in BOOLEAN,
         NEW spoiled \in BOOLEAN, NEW fault \in BOOLEAN,
         fault \/ (at > Len(MsiCalls(item)) /\ fault = spoiled),
         NEW k, MsiProgress(item, at, deleted, before, spoiled, k)
  PROVE  \/ item.MsiSupported # MSI_Off /\ deleted /\ spoiled /\ k = before
         \/ [row |-> RowAfter("msi", row, item), key |-> k]
              \in setMSIMode(row, item, before, fault)
<1>1. CASE item.MsiSupported = MSI_Off
  <2>1. k \in Wrote(before, Absent, at > 2, spoiled)
    BY <1>1 DEF MsiProgress
  <2>2. Len(MsiCalls(item)) = 2
    BY <1>1, MsiCallsShape
  <2>3. k \in Written(before, Absent, fault)
    BY <2>1, <2>2 DEF Wrote, Written
  <2>4. RowAfter("msi", row, item) = [row EXCEPT !.MsiSupported = MSI_Off]
    BY <1>1 DEF RowAfter
  <2> QED
    BY <1>1, <2>3, <2>4 DEF setMSIMode
<1>2. CASE item.MsiSupported # MSI_Off /\ deleted
  BY <1>2 DEF MsiProgress
<1>3. CASE item.MsiSupported # MSI_Off /\ ~deleted
  <2>0. item.MsiSupported # MSI_Off
    BY <1>3
  <2>1. item.MsiSupported = MSI_On /\ Len(MsiCalls(item)) = 3
    BY <2>0, MsiCallsShape
  <2> DEFINE old == MsiValues(before)
  <2>2. /\ k \in MsiValue
        /\ k.MSISupported \in Wrote(old.MSISupported, MSI_On, at > 2, spoiled)
        /\ k.MessageNumberLimit
             \in Wrote(old.MessageNumberLimit, LimitValue(item), at > 3, spoiled)
    BY <1>3 DEF MsiProgress
  <2>3. k.MSISupported \in Written(old.MSISupported, MSI_On, fault)
    BY <2>1, <2>2 DEF Wrote, Written
  <2>4. k.MessageNumberLimit \in Written(old.MessageNumberLimit, LimitValue(item), fault)
    BY <2>1, <2>2 DEF Wrote, Written
  <2>5. k = [MSISupported |-> k.MSISupported, MessageNumberLimit |-> k.MessageNumberLimit]
    BY <2>2 DEF MsiValue
  <2>6. RowAfter("msi", row, item)
          = [row EXCEPT !.MsiSupported = MSI_On, !.MessageNumberLimit = item.MessageNumberLimit]
    BY <2>0, <2>1 DEF RowAfter
  <2> DEFINE Outcome(s, l) ==
        [row |-> [row EXCEPT !.MsiSupported = MSI_On,
                             !.MessageNumberLimit = item.MessageNumberLimit],
         key |-> [MSISupported |-> s, MessageNumberLimit |-> l]]
  <2>7. \A s \in Written(old.MSISupported, MSI_On, fault),
           l \in Written(old.MessageNumberLimit, LimitValue(item), fault) :
             Outcome(s, l) \in setMSIMode(row, item, before, fault)
    BY <2>0, <2>1 DEF setMSIMode
  <2>8. Outcome(k.MSISupported, k.MessageNumberLimit) \in setMSIMode(row, item, before, fault)
    BY <2>3, <2>4, <2>7
  <2> QED
    BY <2>5, <2>6, <2>8
<1> QED
  BY <1>1, <1>2, <1>3

LEMMA AffinityOutcome ==
  ASSUME NEW row \in Settings, NEW item \in Settings,
         NEW at \in Nat, NEW before \in AffinityKey, NEW deleted \in BOOLEAN,
         NEW spoiled \in BOOLEAN, NEW fault \in BOOLEAN,
         fault \/ (at > Len(AffinityCalls(item)) /\ fault = spoiled),
         NEW k, AffinityProgress(item, at, deleted, before, spoiled, k)
  PROVE  \/ ~NoAffinity(item) /\ deleted /\ spoiled /\ k = before
         \/ [row |-> RowAfter("affinity", row, item), key |-> k]
              \in setAffinityPolicy(row, item, before, fault)
<1> DEFINE updated == [row EXCEPT !.DevicePolicy = item.DevicePolicy,
                                  !.DevicePriority = item.DevicePriority,
                                  !.AssignmentSetOverride = MaskOf(item)]
<1>0. RowAfter("affinity", row, item) = updated
  BY DEF RowAfter
<1>1. CASE NoAffinity(item)
  <2>1. k \in Wrote(before, Absent, at > 2, spoiled)
    BY <1>1 DEF AffinityProgress
  <2>2. Len(AffinityCalls(item)) = 2
    BY <1>1, AffinityCallsShape
  <2>3. k \in Written(before, Absent, fault)
    BY <2>1, <2>2 DEF Wrote, Written
  <2> QED
    BY <1>0, <1>1, <2>3 DEF setAffinityPolicy
<1>2. CASE ~NoAffinity(item) /\ deleted
  BY <1>2 DEF AffinityProgress
<1>3. CASE ~NoAffinity(item) /\ ~deleted
  <2>0. ~NoAffinity(item)
    BY <1>3
  <2>1. Len(AffinityCalls(item)) = 4
    BY <2>0, AffinityCallsShape
  <2> DEFINE old == AffinityValues(before)
  <2>2. /\ k \in AffinityValue
        /\ k.DevicePolicy \in Wrote(old.DevicePolicy, item.DevicePolicy, at > 2, spoiled)
        /\ k.AssignmentSetOverride
             \in Wrote(old.AssignmentSetOverride, MaskValue(item), at > 3, spoiled)
        /\ k.DevicePriority \in Wrote(old.DevicePriority, PriorityValue(item), at > 4, spoiled)
    BY <1>3 DEF AffinityProgress
  <2>3. k.DevicePolicy \in Written(old.DevicePolicy, item.DevicePolicy, fault)
    BY <2>1, <2>2 DEF Wrote, Written
  <2>4. k.AssignmentSetOverride \in Written(old.AssignmentSetOverride, MaskValue(item), fault)
    BY <2>1, <2>2 DEF Wrote, Written
  <2>5. k.DevicePriority \in Written(old.DevicePriority, PriorityValue(item), fault)
    BY <2>1, <2>2 DEF Wrote, Written
  <2>6. k = [DevicePolicy |-> k.DevicePolicy, DevicePriority |-> k.DevicePriority,
             AssignmentSetOverride |-> k.AssignmentSetOverride]
    BY <2>2 DEF AffinityValue
  <2> DEFINE Outcome(p, q, m) ==
        [row |-> updated,
         key |-> [DevicePolicy |-> p, DevicePriority |-> q, AssignmentSetOverride |-> m]]
  <2>7. \A p \in Written(old.DevicePolicy, item.DevicePolicy, fault),
           q \in Written(old.DevicePriority, PriorityValue(item), fault),
           m \in Written(old.AssignmentSetOverride, MaskValue(item), fault) :
             Outcome(p, q, m) \in setAffinityPolicy(row, item, before, fault)
    BY <2>0 DEF setAffinityPolicy, PriorityValue, MaskValue
  <2>8. Outcome(k.DevicePolicy, k.DevicePriority, k.AssignmentSetOverride)
          \in setAffinityPolicy(row, item, before, fault)
    BY <2>3, <2>4, <2>5, <2>7
  <2> QED
    BY <1>0, <2>6, <2>8
<1> QED
  BY <1>1, <1>2, <1>3

\* A setter none of whose calls did anything has an outcome too.
LEMMA MsiNothingDone ==
  ASSUME NEW row \in Settings, NEW item \in Settings, MsiCalls(item) # <<>>, NEW k \in MsiKey
  PROVE  /\ k # Absent => [row |-> RowAfter("msi", row, item), key |-> k]
                             \in setMSIMode(row, item, k, TRUE)
         /\ \E done \in setMSIMode(row, item, k, TRUE) : done.row = RowAfter("msi", row, item)
<1>0. TRUE \in BOOLEAN /\ FALSE \in BOOLEAN /\ 2 \in Nat
  OBVIOUS
<1>1. ASSUME NEW x, MsiProgress(item, 2, FALSE, k, FALSE, x)
      PROVE  [row |-> RowAfter("msi", row, item), key |-> x] \in setMSIMode(row, item, k, TRUE)
  BY <1>0, <1>1, MsiOutcome, Zenon
<1>2. MsiProgress(item, 2, FALSE, k, FALSE, Effect("msi", MsiCalls(item)[1], k))
  BY FirstMsiCall
<1>3. k # Absent => MsiProgress(item, 2, FALSE, k, FALSE, k)
  BY MsiKeyValues DEF MsiProgress, Wrote, MsiKey
<1>4. k # Absent => [row |-> RowAfter("msi", row, item), key |-> k] \in setMSIMode(row, item, k, TRUE)
  BY <1>1, <1>3, Zenon
<1>5. PICK x : [row |-> RowAfter("msi", row, item), key |-> x] \in setMSIMode(row, item, k, TRUE)
  BY <1>1, <1>2, Zenon
<1>6. [row |-> RowAfter("msi", row, item), key |-> x].row = RowAfter("msi", row, item)
  OBVIOUS
<1> QED
  BY <1>4, <1>5, <1>6, Zenon

LEMMA AffinityNothingDone ==
  ASSUME NEW row \in Settings, NEW item \in Settings, NEW k \in AffinityKey
  PROVE  /\ k # Absent => [row |-> RowAfter("affinity", row, item), key |-> k]
                             \in setAffinityPolicy(row, item, k, TRUE)
         /\ \E done \in setAffinityPolicy(row, item, k, TRUE) :
              done.row = RowAfter("affinity", row, item)
<1>0. TRUE \in BOOLEAN /\ FALSE \in BOOLEAN /\ 2 \in Nat
  OBVIOUS
<1>1. ASSUME NEW x, AffinityProgress(item, 2, FALSE, k, FALSE, x)
      PROVE  [row |-> RowAfter("affinity", row, item), key |-> x]
               \in setAffinityPolicy(row, item, k, TRUE)
  BY <1>0, <1>1, AffinityOutcome, Zenon
<1>2. AffinityProgress(item, 2, FALSE, k, FALSE, Effect("affinity", AffinityCalls(item)[1], k))
  BY FirstAffinityCall
<1>3. k # Absent => AffinityProgress(item, 2, FALSE, k, FALSE, k)
  BY AffinityKeyValues DEF AffinityProgress, Wrote, AffinityKey
<1>4. k # Absent => [row |-> RowAfter("affinity", row, item), key |-> k]
                      \in setAffinityPolicy(row, item, k, TRUE)
  BY <1>1, <1>3, Zenon
<1>5. PICK x : [row |-> RowAfter("affinity", row, item), key |-> x]
                 \in setAffinityPolicy(row, item, k, TRUE)
  BY <1>1, <1>2, Zenon
<1>6. [row |-> RowAfter("affinity", row, item), key |-> x].row = RowAfter("affinity", row, item)
  OBVIOUS
<1> QED
  BY <1>4, <1>5, <1>6, Zenon

-----------------------------------------------------------------------------
(***************************************************************************)
(* The same of either key.                                                 *)
(***************************************************************************)
LEMMA CallsShape ==
  ASSUME NEW key \in Key, NEW item \in Settings, Calls(key, item) # <<>>
  PROVE  /\ Len(Calls(key, item)) \in 2 .. 4
         /\ \/ Calls(key, item)[1] = OpenKey /\ (key = "msi" => item.MsiSupported = MSI_Off)
                 /\ (key = "affinity" => NoAffinity(item))
            \/ Calls(key, item)[1] = CreateKey /\ (key = "msi" => item.MsiSupported = MSI_On)
                 /\ (key = "affinity" => ~NoAffinity(item))
<1>1. CASE key = "msi"
  <2>1. Calls(key, item) = MsiCalls(item)
    BY <1>1 DEF Calls
  <2> QED
    BY <1>1, <2>1, MsiCallsShape
<1>2. CASE key = "affinity"
  <2>1. Calls(key, item) = AffinityCalls(item)
    BY <1>2 DEF Calls
  <2> QED
    BY <1>2, <2>1, AffinityCallsShape
<1> QED
  BY <1>1, <1>2 DEF Key

LEMMA FirstCall ==
  ASSUME NEW key \in Key, NEW item \in Settings, Calls(key, item) # <<>>, NEW k \in KeyType(key)
  PROVE  /\ Effect(key, Calls(key, item)[1], k) \in KeyType(key)
         /\ Progress(key, item, 2, FALSE, k, FALSE, Effect(key, Calls(key, item)[1], k))
<1>1. CASE key = "msi"
  <2>1. Calls(key, item) = MsiCalls(item) /\ k \in MsiKey
    BY <1>1 DEF Calls, KeyType
  <2>2. \A x : Progress("msi", item, 2, FALSE, k, FALSE, x) <=> MsiProgress(item, 2, FALSE, k, FALSE, x)
    BY Zenon DEF Progress
  <2> QED
    BY <1>1, <2>1, <2>2, FirstMsiCall, Zenon DEF KeyType
<1>2. CASE key = "affinity"
  <2>1. Calls(key, item) = AffinityCalls(item) /\ k \in AffinityKey /\ key # "msi"
    BY <1>2 DEF Calls, KeyType
  <2>2. \A x : Progress(key, item, 2, FALSE, k, FALSE, x)
                 <=> AffinityProgress(item, 2, FALSE, k, FALSE, x)
    BY <2>1, Zenon DEF Progress
  <2> QED
    BY <1>2, <2>1, <2>2, FirstAffinityCall, Zenon DEF KeyType
<1> QED
  BY <1>1, <1>2 DEF Key

LEMMA LaterCall ==
  ASSUME NEW key \in Key, NEW item \in Settings, Calls(key, item) # <<>>,
         NEW at \in 2 .. Len(Calls(key, item)), NEW before \in KeyType(key),
         NEW deleted \in BOOLEAN, NEW spoiled \in BOOLEAN, NEW fails \in BOOLEAN,
         NEW k \in KeyType(key), Progress(key, item, at, deleted, before, spoiled, k),
         NEW spoilt \in BOOLEAN, spoilt <=> (spoiled \/ fails),
         NEW after,
         after = IF fails \/ (Calls(key, item)[at].op = "set" /\ deleted) THEN k
                 ELSE Effect(key, Calls(key, item)[at], k)
  PROVE  after \in KeyType(key) /\ Progress(key, item, at + 1, deleted, before, spoilt, after)
<1>1. CASE key = "msi"
  <2>1. /\ Calls(key, item) = MsiCalls(item) /\ k \in MsiKey /\ before \in MsiKey
        /\ MsiProgress(item, at, deleted, before, spoiled, k)
    BY <1>1 DEF Calls, KeyType, Progress
  <2>2. after \in MsiKey /\ MsiProgress(item, at + 1, deleted, before, spoilt, after)
    BY <1>1, <2>1, LaterMsiCall
  <2> QED
    BY <1>1, <2>2, Zenon DEF KeyType, Progress
<1>2. CASE key = "affinity"
  <2>0. key # "msi"
    BY <1>2
  <2>1. /\ Calls(key, item) = AffinityCalls(item) /\ k \in AffinityKey /\ before \in AffinityKey
        /\ AffinityProgress(item, at, deleted, before, spoiled, k)
    BY <2>0 DEF Calls, KeyType, Progress
  <2>2. after \in AffinityKey /\ AffinityProgress(item, at + 1, deleted, before, spoilt, after)
    BY <1>2, <2>1, LaterAffinityCall
  <2> QED
    BY <2>0, <2>2, Zenon DEF KeyType, Progress
<1> QED
  BY <1>1, <1>2 DEF Key

LEMMA Outcome ==
  ASSUME NEW key \in Key, NEW row \in Settings, NEW item \in Settings, Calls(key, item) # <<>>,
         NEW at \in Nat, NEW before \in KeyType(key), NEW deleted \in BOOLEAN,
         NEW spoiled \in BOOLEAN, NEW fault \in BOOLEAN,
         fault \/ (at > Len(Calls(key, item)) /\ fault = spoiled),
         NEW k, Progress(key, item, at, deleted, before, spoiled, k)
  PROVE  \/ deleted /\ spoiled /\ k = before
         \/ [row |-> RowAfter(key, row, item), key |-> k] \in setKey(key, row, item, before, fault)
<1>1. CASE key = "msi"
  <2>1. /\ Calls(key, item) = MsiCalls(item) /\ before \in MsiKey
        /\ MsiProgress(item, at, deleted, before, spoiled, k)
    BY <1>1 DEF Calls, KeyType, Progress
  <2>2. \/ deleted /\ spoiled /\ k = before
        \/ [row |-> RowAfter("msi", row, item), key |-> k] \in setMSIMode(row, item, before, fault)
    BY <1>1, <2>1, MsiOutcome, Zenon
  <2> QED
    BY <1>1, <2>2, Zenon DEF setKey
<1>2. CASE key = "affinity"
  <2>0. key # "msi"
    BY <1>2
  <2>1. /\ Calls(key, item) = AffinityCalls(item) /\ before \in AffinityKey
        /\ AffinityProgress(item, at, deleted, before, spoiled, k)
    BY <2>0 DEF Calls, KeyType, Progress
  <2>2. \/ deleted /\ spoiled /\ k = before
        \/ [row |-> RowAfter("affinity", row, item), key |-> k]
             \in setAffinityPolicy(row, item, before, fault)
    BY <1>2, <2>1, AffinityOutcome, Zenon
  <2> QED
    BY <1>2, <2>0, <2>2, Zenon DEF setKey
<1> QED
  BY <1>1, <1>2 DEF Key

LEMMA NothingDone ==
  ASSUME NEW key \in Key, NEW row \in Settings, NEW item \in Settings, Calls(key, item) # <<>>,
         NEW k \in KeyType(key)
  PROVE  /\ k # Absent => [row |-> RowAfter(key, row, item), key |-> k]
                            \in setKey(key, row, item, k, TRUE)
         /\ \E done \in setKey(key, row, item, k, TRUE) : done.row = RowAfter(key, row, item)
<1>1. CASE key = "msi"
  <2>1. Calls(key, item) = MsiCalls(item) /\ k \in MsiKey
    BY <1>1 DEF Calls, KeyType
  <2> QED
    BY <1>1, <2>1, MsiNothingDone, Zenon DEF setKey
<1>2. CASE key = "affinity"
  <2>1. k \in AffinityKey /\ key # "msi"
    BY <1>2 DEF KeyType
  <2> QED
    BY <1>2, <2>1, AffinityNothingDone, Zenon DEF setKey
<1> QED
  BY <1>1, <1>2 DEF Key

\* The first call of a setter is refused: the key does not open, or is not made.
LEMMA RefusedOutcome ==
  ASSUME NEW key \in Key, NEW row \in Settings, NEW item \in Settings, Calls(key, item) # <<>>,
         NEW k \in KeyType(key), NEW fault \in BOOLEAN,
         fault \/ (Calls(key, item)[1] = OpenKey /\ k = Absent)
  PROVE  [row |-> IF Calls(key, item)[1].op = "create" THEN row ELSE RowAfter(key, row, item),
          key |-> k] \in setKey(key, row, item, k, fault)
<1>0. OpenKey.op = "open" /\ CreateKey.op = "create"
  BY CallEffects
<1>1. CASE Calls(key, item)[1] = OpenKey
  <2>1. k \in Written(k, Absent, fault)
    BY <1>1 DEF Written
  <2>2. CASE key = "msi"
    <3>1. item.MsiSupported = MSI_Off
      BY <1>0, <1>1, <2>2, CallsShape
    <3> QED
      BY <1>0, <1>1, <2>1, <2>2, <3>1 DEF setKey, setMSIMode, RowAfter
  <2>3. CASE key = "affinity"
    <3>1. NoAffinity(item)
      BY <1>0, <1>1, <2>3, CallsShape
    <3> QED
      BY <1>0, <1>1, <2>1, <2>3, <3>1 DEF setKey, setAffinityPolicy, RowAfter
  <2> QED
    BY <2>2, <2>3 DEF Key
<1>2. CASE Calls(key, item)[1] = CreateKey
  <2>1. fault /\ [row |-> row, key |-> k] \in Refused(row, k, fault)
    BY <1>0, <1>2 DEF Refused
  <2>2. CASE key = "msi"
    <3>1. item.MsiSupported = MSI_On /\ item.MsiSupported # MSI_Off
      BY <1>0, <1>2, <2>2, CallsShape DEF MSI_On, MSI_Off
    <3>2. Refused(row, k, fault) \subseteq setMSIMode(row, item, k, fault)
      BY <3>1 DEF setMSIMode
    <3> QED
      BY <1>0, <1>2, <2>1, <2>2, <3>2 DEF setKey
  <2>3. CASE key = "affinity"
    <3>1. ~NoAffinity(item)
      BY <1>0, <1>2, <2>3, CallsShape
    <3>2. Refused(row, k, fault) \subseteq setAffinityPolicy(row, item, k, fault)
      BY <3>1 DEF setAffinityPolicy
    <3> QED
      BY <1>0, <1>2, <2>1, <2>3, <3>2 DEF setKey
  <2> QED
    BY <2>2, <2>3 DEF Key
<1> QED
  BY <1>1, <1>2, CallsShape

-----------------------------------------------------------------------------
(***************************************************************************)
(* The inductive invariant.  A process that does not run has no row; one   *)
(* that stores is at a call of a setter it was asked for; and the key of a *)
(* setter that is under way is what the calls so far have made of what was *)
(* there before, or of what another process put there since.               *)
(***************************************************************************)
ProcessOK(s, stored) ==
  /\ IF s.pc = "closed" THEN s = NoProcess ELSE s.row \in Settings /\ s.item \in Settings
  /\ s.pc = "storing" <=> s.todo # {}
  /\ \A key \in s.todo : Calls(key, s.item) # <<>>
  /\ s.todo # {} => s.at <= Len(Calls(Current(s), s.item))
  /\ s.todo = {} => s.at = 1
  /\ s.at = 1 => ~s.spoiled /\ ~s.deleted
  /\ \A key \in Key : Mid(s, key) =>
       /\ s.before \in KeyType(key)
       /\ Progress(key, s.item, s.at, s.deleted, s.before, s.spoiled, stored[key])

-----------------------------------------------------------------------------
(***************************************************************************)
(* Reading the device.  Of a key that no other process changed since it    *)
(* was opened, and of which no call failed, the handle is good if there is *)
(* a key, and the values read so far are those that are stored.            *)
(***************************************************************************)
ReadOK(r, stored) ==
  /\ r.at < LastRead
  /\ \A key \in Key :
       IF OpenAt[key] <= r.at
       THEN key \notin r.changed => (key \in r.open <=> stored[key] # Absent)
       ELSE key \notin r.open
  /\ \A f \in Field :
       IF ReadAt[f] <= r.at
       THEN KeyOf(f) \notin r.changed => r.row[f] = ReadDevice(stored, InterruptTypes)[f]
       ELSE r.row[f] = EmptyRow[f]

IInv == /\ TypeOK
        /\ \A w \in Writer : ProcessOK(writer[w], registry)
        /\ \A w \in Writer : ReadOK(read[w], registry)

LEMMA EntryKeys ==
  ASSUME NEW stored \in Entry, NEW key \in Key
  PROVE  /\ stored[key] \in KeyType(key)
         /\ \A value \in KeyType(key) :
              /\ [stored EXCEPT ![key] = value] \in Entry
              /\ [stored EXCEPT ![key] = value][key] = value
              /\ \A other \in Key \ {key} : [stored EXCEPT ![key] = value][other] = stored[other]
  BY DEF Entry, Key, KeyType

LEMMA NoProcessOK ==
  ASSUME NEW stored
  PROVE  NoProcess \in Process /\ ProcessOK(NoProcess, stored)
<1>1. NoProcess \in Process
  BY DEF NoProcess, Process, AffinityKey
<1>2. /\ NoProcess.pc = "closed" /\ NoProcess.todo = {} /\ NoProcess.at = 1
      /\ NoProcess.spoiled = FALSE /\ NoProcess.deleted = FALSE
  BY DEF NoProcess
<1> QED
  BY <1>1, <1>2 DEF ProcessOK, Mid

\* The process at a call: its row and its item are settings, the call is one
\* of its setter.
LEMMA AtCall ==
  ASSUME NEW s \in Process, NEW stored, ProcessOK(s, stored), s.todo # {}
  PROVE  /\ s.pc = "storing" /\ s.row \in Settings /\ s.item \in Settings
         /\ Current(s) \in Key /\ Current(s) \in s.todo
         /\ Calls(Current(s), s.item) # <<>>
         /\ s.at \in 1 .. Len(Calls(Current(s), s.item))
         /\ Len(Calls(Current(s), s.item)) \in 2 .. 4
         /\ s.at = 1 => s.spoiled = FALSE /\ s.deleted = FALSE
         /\ s.at # 1 =>
              /\ s.before \in KeyType(Current(s))
              /\ Progress(Current(s), s.item, s.at, s.deleted, s.before, s.spoiled,
                          stored[Current(s)])
<1>1. s.pc = "storing" /\ s.row \in Settings /\ s.item \in Settings
  BY DEF ProcessOK
<1>2. Current(s) \in Key /\ Current(s) \in s.todo
  BY DEF Process, Current, Key
<1>3. Calls(Current(s), s.item) # <<>>
  BY <1>2 DEF ProcessOK
<1>4. Len(Calls(Current(s), s.item)) \in 2 .. 4
  BY <1>1, <1>2, <1>3, CallsShape
<1>5. s.at \in 1 .. 4 /\ s.at <= Len(Calls(Current(s), s.item))
  BY DEF Process, ProcessOK
<1>6. s.at \in 1 .. Len(Calls(Current(s), s.item))
  BY <1>4, <1>5
<1>7. s.spoiled \in BOOLEAN /\ s.deleted \in BOOLEAN
  BY DEF Process
<1>8. s.at = 1 => s.spoiled = FALSE /\ s.deleted = FALSE
  BY <1>7 DEF ProcessOK
<1>9. s.at # 1 => Mid(s, Current(s))
  BY <1>5 DEF Mid
<1>10. s.at # 1 => /\ s.before \in KeyType(Current(s))
                   /\ Progress(Current(s), s.item, s.at, s.deleted, s.before, s.spoiled,
                               stored[Current(s)])
  BY <1>2, <1>9 DEF ProcessOK
<1> QED
  BY <1>1, <1>2, <1>3, <1>4, <1>6, <1>8, <1>10

\* What a call finds and leaves: the key, whether the call is refused, what
\* is in the key then, what the setter began from, whether it is spoiled.
Finds(s, stored, fails, key, refused, value, old, spoilt) ==
  LET call == Calls(key, s.item)[s.at] IN
  /\ key = Current(s)
  /\ refused <=> \/ fails
                 \/ call.op = "set" /\ s.deleted
                 \/ call.op = "open" /\ stored[key] = Absent
  /\ value = IF refused THEN stored[key] ELSE Effect(key, call, stored[key])
  /\ old = IF s.at = 1 THEN stored[key] ELSE s.before
  /\ spoilt <=> (s.spoiled \/ fails)

LEMMA CallProgress ==
  ASSUME NEW s \in Process, NEW stored \in Entry, ProcessOK(s, stored), s.todo # {},
         NEW fails \in BOOLEAN, NEW key, NEW refused \in BOOLEAN, NEW value, NEW old,
         NEW spoilt \in BOOLEAN, Finds(s, stored, fails, key, refused, value, old, spoilt)
  PROVE  /\ key \in Key /\ old \in KeyType(key) /\ value \in KeyType(key)
         /\ s.at # 1 \/ ~refused
              => Progress(key, s.item, s.at + 1, s.deleted, old, spoilt, value)
<1> DEFINE call == Calls(key, s.item)[s.at]
<1>0. /\ key = Current(s)
      /\ refused <=> \/ fails
                     \/ call.op = "set" /\ s.deleted
                     \/ call.op = "open" /\ stored[key] = Absent
      /\ value = IF refused THEN stored[key] ELSE Effect(key, call, stored[key])
      /\ old = IF s.at = 1 THEN stored[key] ELSE s.before
      /\ spoilt <=> (s.spoiled \/ fails)
  BY Zenon DEF Finds
<1>1. /\ s.item \in Settings /\ key \in Key /\ Calls(key, s.item) # <<>>
      /\ s.at \in 1 .. Len(Calls(key, s.item)) /\ Len(Calls(key, s.item)) \in 2 .. 4
  BY <1>0, AtCall
<1>2. stored[key] \in KeyType(key)
  BY <1>0, <1>1, EntryKeys
<1>3. s.spoiled \in BOOLEAN /\ s.deleted \in BOOLEAN
  BY DEF Process
<1>4. CASE s.at = 1 /\ refused
  BY <1>0, <1>1, <1>2, <1>4
<1>5. CASE s.at = 1 /\ ~refused
  <2>1. value = Effect(key, Calls(key, s.item)[1], stored[key]) /\ old = stored[key]
    BY <1>0, <1>5
  <2>2. s.spoiled = FALSE /\ s.deleted = FALSE
    BY <1>0, <1>5, AtCall
  <2>3. spoilt = FALSE /\ s.deleted = FALSE /\ s.at + 1 = 2
    BY <1>0, <1>5, <2>2
  <2>4. /\ value \in KeyType(key)
        /\ Progress(key, s.item, 2, FALSE, old, FALSE, value)
    BY <1>0, <1>1, <1>2, <2>1, FirstCall, Zenon
  <2>5. Progress(key, s.item, s.at + 1, s.deleted, old, spoilt, value)
    BY <1>0, <2>3, <2>4, Zenon
  <2> QED
    BY <1>0, <1>1, <1>2, <2>1, <2>4, <2>5
<1>6. CASE s.at # 1
  <2>1. s.at \in 2 .. Len(Calls(key, s.item))
    BY <1>0, <1>1, <1>6
  <2>2. /\ old = s.before /\ old \in KeyType(key)
        /\ Progress(key, s.item, s.at, s.deleted, old, s.spoiled, stored[key])
    BY <1>0, <1>6, AtCall
  <2>3. call.op # "open"
    <3>1. CASE key = "msi"
      <4>1. Calls(key, s.item) = MsiCalls(s.item)
        BY <1>0, <3>1 DEF Calls
      <4> QED
        BY <1>0, <1>1, <2>1, <4>1, LaterMsiCalls, CallEffects
    <3>2. CASE key = "affinity"
      <4>1. Calls(key, s.item) = AffinityCalls(s.item)
        BY <1>0, <3>2 DEF Calls
      <4> QED
        BY <1>0, <1>1, <2>1, <4>1, LaterAffinityCalls, CallEffects
    <3> QED
      BY <1>0, <1>1, <3>1, <3>2 DEF Key
  <2>4. value = IF fails \/ (Calls(key, s.item)[s.at].op = "set" /\ s.deleted) THEN stored[key]
                ELSE Effect(key, Calls(key, s.item)[s.at], stored[key])
    BY <1>0, <2>3
  <2>5. /\ value \in KeyType(key)
        /\ Progress(key, s.item, s.at + 1, s.deleted, old, spoilt, value)
    BY <1>0, <1>1, <1>2, <1>3, <2>1, <2>2, <2>4, LaterCall
  <2> QED
    BY <1>0, <1>1, <2>2, <2>5
<1> QED
  BY <1>0, <1>4, <1>5, <1>6

\* What another process put into the key of a setter is a new beginning.
LEMMA DisturbedProgress ==
  ASSUME NEW key \in Key, NEW item \in Settings, NEW at, NEW k \in KeyType(key),
         NEW deleted \in BOOLEAN, k = Absent => deleted, NEW spoiled \in BOOLEAN, spoiled
  PROVE  Progress(key, item, at, deleted, k, spoiled, k)
<1>1. CASE key = "msi"
  <2>1. k \in MsiKey
    BY <1>1 DEF KeyType
  <2>2. MsiProgress(item, at, deleted, k, spoiled, k)
    BY <2>1, MsiKeyValues DEF MsiProgress, Wrote, Written, MsiKey
  <2> QED
    BY <1>1, <2>2 DEF Progress
<1>2. CASE key = "affinity"
  <2>1. k \in AffinityKey
    BY <1>2 DEF KeyType
  <2>2. AffinityProgress(item, at, deleted, k, spoiled, k)
    BY <2>1, AffinityKeyValues DEF AffinityProgress, Wrote, Written, AffinityKey
  <2> QED
    BY <1>2, <2>2 DEF Progress
<1> QED
  BY <1>1, <1>2 DEF Key

LEMMA DisturbedOK ==
  ASSUME NEW s \in Process, NEW stored \in Entry, ProcessOK(s, stored), NEW key \in Key,
         NEW value \in KeyType(key), NEW after, after = [stored EXCEPT ![key] = value]
  PROVE  Disturbed(s, key, value) \in Process /\ ProcessOK(Disturbed(s, key, value), after)
<1> DEFINE t == Disturbed(s, key, value)
<1>0. /\ value \in AffinityKey \union MsiKey
      /\ after[key] = value /\ \A other \in Key \ {key} : after[other] = stored[other]
  BY EntryKeys DEF KeyType
<1>1. CASE s.pc = "closed"
  <2>1. t = s
    BY <1>1 DEF Disturbed
  <2>2. s = NoProcess
    BY <1>1 DEF ProcessOK
  <2> QED
    BY <2>1, <2>2, NoProcessOK
<1>2. CASE s.pc # "closed" /\ Mid(s, key)
  <2> DEFINE stale == s.stale \union {key}
             gone  == IF value = Absent THEN TRUE ELSE s.deleted
             yes   == TRUE
  <2>1. t = [s EXCEPT !.stale = stale, !.spoiled = yes, !.before = value, !.deleted = gone]
    BY <1>2 DEF Disturbed
  <2>2. stale \in SUBSET Key /\ gone \in BOOLEAN /\ yes \in BOOLEAN /\ yes = TRUE
    BY DEF Process
  <2>3. value = Absent => gone = TRUE
    OBVIOUS
  <2> HIDE DEF stale, gone, yes, t
  <2>4. /\ t \in Process
        /\ t.pc = s.pc /\ t.row = s.row /\ t.item = s.item /\ t.todo = s.todo /\ t.at = s.at
        /\ t.spoiled = yes /\ t.before = value /\ t.deleted = gone
    BY <1>0, <2>1, <2>2 DEF Process
  <2>5. /\ t \in Process
        /\ t.pc = s.pc /\ t.row = s.row /\ t.item = s.item /\ t.todo = s.todo /\ t.at = s.at
        /\ t.spoiled \in BOOLEAN /\ t.spoiled /\ t.before = value /\ (value = Absent => t.deleted)
        /\ t.deleted \in BOOLEAN
    BY <2>2, <2>3, <2>4
  <2>6. s.todo # {} /\ key = Current(s) /\ s.at # 1
    BY <1>2 DEF Mid, Process
  <2>7. s.item \in Settings
    BY <1>2 DEF ProcessOK
  <2>8. /\ t.item \in Settings /\ t.before \in KeyType(key) /\ after[key] = t.before
        /\ t.deleted \in BOOLEAN /\ (t.before = Absent => t.deleted)
        /\ t.spoiled \in BOOLEAN /\ t.spoiled
    BY <1>0, <2>5, <2>7
  <2>9. Progress(key, t.item, t.at, t.deleted, t.before, t.spoiled, after[key])
    <3>1. Progress(key, t.item, t.at, t.deleted, t.before, t.spoiled, t.before)
      BY <2>8, DisturbedProgress, Zenon
    <3> QED
      BY <2>8, <3>1, Zenon
  <2>10. ProcessOK(t, after)
    BY <1>0, <2>5, <2>6, <2>9 DEF ProcessOK, Mid, Current
  <2> QED
    BY <2>5, <2>10 DEF t
<1>3. CASE s.pc # "closed" /\ ~Mid(s, key)
  <2>0. t = [s EXCEPT !.stale = @ \union {key}]
    BY <1>3 DEF Disturbed
  <2>1. /\ t \in Process
        /\ t.pc = s.pc /\ t.row = s.row /\ t.item = s.item /\ t.todo = s.todo /\ t.at = s.at
        /\ t.spoiled = s.spoiled /\ t.before = s.before /\ t.deleted = s.deleted
    BY <2>0 DEF Process
  <2> HIDE DEF t
  <2>2. \A other \in Key : Mid(t, other) => Mid(s, other) /\ after[other] = stored[other]
    BY <1>0, <1>3, <2>1 DEF Mid, Current
  <2>3. ProcessOK(t, after)
    BY <1>3, <2>1, <2>2 DEF ProcessOK, Current
  <2> QED
    BY <2>1, <2>3 DEF t
<1> QED
  BY <1>1, <1>2, <1>3

\* A setter is over: the process goes on with the next, or has stored it all.
LEMMA AfterSetterOK ==
  ASSUME NEW w, NEW s \in Process, NEW stored, ProcessOK(s, stored), s.todo # {},
         NEW key, key = Current(s), NEW updated \in Settings, NEW spoilt \in BOOLEAN, NEW after
  PROVE  /\ AfterSetter(w, s, key, updated, spoilt) \in Process
         /\ ProcessOK(AfterSetter(w, s, key, updated, spoilt), after)
<1> DEFINE t == AfterSetter(w, s, key, updated, spoilt)
<1>1. key \in Key /\ s.item \in Settings
  BY AtCall
<1>2. /\ t \in Process
      /\ t.row = updated /\ t.item = s.item /\ t.todo = s.todo \ {key} /\ t.at = 1
      /\ t.deleted = FALSE /\ t.spoiled = FALSE
      /\ t.pc = IF s.todo \ {key} # {} THEN "storing" ELSE IF w \in Window THEN "ready" ELSE "done"
  <2> DEFINE left  == s.todo \ {key}
             stale == IF spoilt THEN s.stale \union {key} ELSE s.stale \ {key}
             pc    == IF left # {} THEN "storing" ELSE IF w \in Window THEN "ready" ELSE "done"
             no    == FALSE
             none  == Absent
             one   == 1
  <2>1. t = [s EXCEPT !.row = updated, !.todo = left, !.at = one, !.deleted = no,
                      !.before = none, !.spoiled = no, !.stale = stale, !.pc = pc]
    BY Zenon DEF AfterSetter
  <2>2. /\ left \in SUBSET Key /\ stale \in SUBSET Key /\ pc \in {"ready", "storing", "done"}
        /\ no \in BOOLEAN /\ none \in AffinityKey \union MsiKey /\ one \in 1 .. 4
    BY <1>1 DEF Process, AffinityKey
  <2>3. no = FALSE /\ one = 1
    OBVIOUS
  <2> HIDE DEF stale, pc, t, left, no, none, one
  <2>4. /\ t \in Process
        /\ t.row = updated /\ t.item = s.item /\ t.todo = left /\ t.at = one
        /\ t.deleted = no /\ t.spoiled = no /\ t.pc = pc
    BY <2>1, <2>2 DEF Process
  <2> QED
    BY <2>3, <2>4 DEF pc, left
<1>3. \A other \in s.todo : /\ Calls(other, s.item) # <<>>
                            /\ other \in Key
  BY DEF ProcessOK, Process
<1>4. \A other \in t.todo : Len(Calls(other, t.item)) \in 2 .. 4
  BY <1>1, <1>2, <1>3, CallsShape
<1>5. t.todo # {} => Current(t) \in t.todo
  BY <1>2 DEF Current, Process, Key
<1>6. \A other \in Key : ~Mid(t, other)
  BY <1>2 DEF Mid
<1>7. t.todo # {} => t.at <= Len(Calls(Current(t), t.item))
  <2>1. \A n \in 2 .. 4 : 1 <= n
    OBVIOUS
  <2>2. t.at = 1
    BY <1>2
  <2> HIDE DEF t
  <2> QED
    BY <1>4, <1>5, <2>1, <2>2
<1>8. /\ t.pc # "closed"
      /\ t.pc = "storing" <=> t.todo # {}
      /\ \A other \in t.todo : Calls(other, t.item) # <<>>
  BY <1>2, <1>3
<1> HIDE DEF t
<1>9. ProcessOK(t, after)
  BY <1>1, <1>2, <1>6, <1>7, <1>8 DEF ProcessOK
<1> QED
  BY <1>2, <1>9 DEF t

-----------------------------------------------------------------------------
(***************************************************************************)
(* The step of a call, with names for what it finds and leaves, for the    *)
(* row, and for whether the setter is over.                                *)
(***************************************************************************)
Continued(s, old, spoilt) == [s EXCEPT !.at = @ + 1, !.spoiled = spoilt, !.before = old]

CallOf(w, fails, key, refused, value, old, spoilt, updated, over) ==
  LET s    == writer[w]
      call == Calls(key, s.item)[s.at]
  IN  /\ s.todo # {}
      /\ Finds(s, registry, fails, key, refused, value, old, spoilt)
      /\ updated = IF call.op = "create" /\ refused THEN s.row ELSE RowAfter(key, s.row, s.item)
      /\ over <=> (s.at = Len(Calls(key, s.item)) \/ (s.at = 1 /\ refused))
      /\ registry' = [registry EXCEPT ![key] = value]
      /\ writer' = [q \in Writer |->
           IF q # w
           THEN IF value # registry[key] THEN Disturbed(writer[q], key, value) ELSE writer[q]
           ELSE IF over THEN AfterSetter(w, s, key, updated, spoilt)
           ELSE Continued(s, old, spoilt)]
      /\ read' = [q \in Writer |->
           IF value # registry[key] THEN DisturbedRead(read[q], key, value) ELSE read[q]]
      /\ torn' = (torn \/ (over /\ spoilt /\ key = "affinity"))

LEMMA CallNamed ==
  ASSUME NEW w \in Writer, NEW fails \in BOOLEAN, Call(w, fails)
  PROVE  \E key, value, old, updated : \E refused, spoilt, over \in BOOLEAN :
           CallOf(w, fails, key, refused, value, old, spoilt, updated, over)
<1> DEFINE s       == writer[w]
           key     == Current(s)
           call    == Calls(key, s.item)[s.at]
           refused == \/ fails
                      \/ call.op = "set" /\ s.deleted
                      \/ call.op = "open" /\ registry[key] = Absent
           value   == IF refused THEN registry[key] ELSE Effect(key, call, registry[key])
           old     == IF s.at = 1 THEN registry[key] ELSE s.before
           spoilt  == s.spoiled \/ fails
           updated == IF call.op = "create" /\ refused THEN s.row ELSE RowAfter(key, s.row, s.item)
           over    == s.at = Len(Calls(key, s.item)) \/ (s.at = 1 /\ refused)
<1>1. CallOf(w, fails, key, refused, value, old, spoilt, updated, over)
  BY Zenon DEF Call, CallOf, Finds, Continued
<1>2. refused \in BOOLEAN /\ spoilt \in BOOLEAN /\ over \in BOOLEAN
  OBVIOUS
<1> HIDE DEF key, refused, value, old, spoilt, updated, over
<1>3. \E r, sp, o \in BOOLEAN : CallOf(w, fails, key, r, value, old, sp, updated, o)
  BY <1>1, <1>2, Zenon
<1> QED
  BY <1>3, Zenon

\* What CallProgress, and the types, say of the step.
CallFound(w, key, refused, value, old, spoilt, updated) ==
  /\ key \in Key /\ old \in KeyType(key) /\ value \in KeyType(key)
  /\ registry[key] \in KeyType(key)
  /\ writer[w].row \in Settings /\ writer[w].item \in Settings /\ updated \in Settings
  /\ Calls(key, writer[w].item) # <<>>
  /\ writer[w].at # 1 \/ ~refused =>
       Progress(key, writer[w].item, writer[w].at + 1, writer[w].deleted, old, spoilt, value)

LEMMA CallFacts ==
  ASSUME IInv, NEW w \in Writer, NEW fails \in BOOLEAN, NEW key, NEW refused \in BOOLEAN,
         NEW value, NEW old, NEW spoilt \in BOOLEAN, NEW updated, NEW over \in BOOLEAN,
         CallOf(w, fails, key, refused, value, old, spoilt, updated, over)
  PROVE  CallFound(w, key, refused, value, old, spoilt, updated)
<1> DEFINE s == writer[w]
<1>1. s \in Process /\ ProcessOK(s, registry) /\ registry \in Entry
  BY DEF IInv, TypeOK
<1>2. s.todo # {} /\ Finds(s, registry, fails, key, refused, value, old, spoilt)
  BY Zenon DEF CallOf
<1>3. key = Current(s)
  BY <1>2 DEF Finds
<1>4. s.row \in Settings /\ s.item \in Settings /\ key \in Key /\ Calls(key, s.item) # <<>>
  BY <1>1, <1>2, <1>3, AtCall
<1>5. registry[key] \in KeyType(key)
  BY <1>1, <1>4, EntryKeys
<1>6. updated \in Settings
  BY <1>4, RowAfterTypes DEF CallOf
<1> HIDE DEF s
<1>7. /\ old \in KeyType(key) /\ value \in KeyType(key)
      /\ s.at # 1 \/ ~refused => Progress(key, s.item, s.at + 1, s.deleted, old, spoilt, value)
  BY <1>1, <1>2, CallProgress
<1> QED
  BY <1>4, <1>5, <1>6, <1>7 DEF s, CallFound

-----------------------------------------------------------------------------
\* What is asked for are settings.
LEMMA ChangedType ==
  ASSUME NEW row \in Settings, NEW change \in Change
  PROVE  ChangedTo(row, change) \in Settings
<1> DEFINE item == ChangedTo(row, change)
           new(f) == IF f \in DOMAIN change THEN change[f] ELSE row[f]
<1>1. Field = {"DevicePolicy", "DevicePriority", "AssignmentSetOverride", "MsiSupported",
               "MessageNumberLimit"}
  BY DEF Field, FieldValues
<1>2. /\ FieldValues["DevicePolicy"] = Nat /\ FieldValues["DevicePriority"] = Nat
      /\ FieldValues["AssignmentSetOverride"] = SUBSET Bit
      /\ FieldValues["MsiSupported"] = {MSI_Off, MSI_On, MSI_Tristate, MSI_Invalid}
      /\ FieldValues["MessageNumberLimit"] = Nat
  BY DEF FieldValues
<1>3. \A f \in Field : row[f] \in FieldValues[f]
  BY <1>1, <1>2 DEF Settings
<1>4. \A f \in Field : f \in DOMAIN change => change[f] \in FieldValues[f]
  BY WriterAssumption
<1>5. \A f \in Field : new(f) \in FieldValues[f]
  BY <1>3, <1>4
<1> HIDE DEF new
<1>6. item = [f \in Field |-> new(f)]
  BY DEF ChangedTo, new
<1>7. item = [DevicePolicy |-> new("DevicePolicy"), DevicePriority |-> new("DevicePriority"),
              AssignmentSetOverride |-> new("AssignmentSetOverride"),
              MsiSupported |-> new("MsiSupported"),
              MessageNumberLimit |-> new("MessageNumberLimit")]
  BY <1>1, <1>6
<1>8. /\ new("DevicePolicy") \in Nat /\ new("DevicePriority") \in Nat
      /\ new("AssignmentSetOverride") \in SUBSET Bit
      /\ new("MsiSupported") \in {MSI_Off, MSI_On, MSI_Tristate, MSI_Invalid}
      /\ new("MessageNumberLimit") \in Nat
  BY <1>1, <1>2, <1>5
<1> QED
  BY <1>7, <1>8 DEF Settings

-----------------------------------------------------------------------------
(***************************************************************************)
(* The calls of a read keep the invariant.                                 *)
(***************************************************************************)
LEMMA Fields ==
  /\ Field = {"DevicePolicy", "DevicePriority", "AssignmentSetOverride", "MsiSupported",
              "MessageNumberLimit"}
  /\ KeyOf("DevicePolicy") = "affinity" /\ KeyOf("DevicePriority") = "affinity"
  /\ KeyOf("AssignmentSetOverride") = "affinity"
  /\ KeyOf("MsiSupported") = "msi" /\ KeyOf("MessageNumberLimit") = "msi"
  BY DEF Field, FieldValues, KeyOf

\* The places of the calls.
LEMMA CallPlaces ==
  /\ OpenAt["affinity"] = 1 /\ OpenAt["msi"] = 5
  /\ ReadAt["DevicePolicy"] = 2 /\ ReadAt["DevicePriority"] = 3
  /\ ReadAt["AssignmentSetOverride"] = 4
  /\ ReadAt["MessageNumberLimit"] = 6 /\ ReadAt["MsiSupported"] = 7
  /\ LastRead = IF InterruptTypes = {} THEN 4 ELSE 7
  BY DEF OpenAt, ReadAt, LastRead

LEMMA OneField ==
  ASSUME NEW row \in Settings, NEW other \in Settings, NEW f \in Field
  PROVE  /\ [row EXCEPT ![f] = other[f]] \in Settings
         /\ [row EXCEPT ![f] = other[f]][f] = other[f]
         /\ \A g \in Field \ {f} : [row EXCEPT ![f] = other[f]][g] = row[g]
<1>1. CASE f = "DevicePolicy"
  BY <1>1, Fields DEF Settings
<1>2. CASE f = "DevicePriority"
  BY <1>2, Fields DEF Settings
<1>3. CASE f = "AssignmentSetOverride"
  BY <1>3, Fields DEF Settings
<1>4. CASE f = "MsiSupported"
  BY <1>4, Fields DEF Settings
<1>5. CASE f = "MessageNumberLimit"
  BY <1>5, Fields DEF Settings
<1> QED
  BY <1>1, <1>2, <1>3, <1>4, <1>5, Fields

\* What is read depends on the key the value is in, and is nothing without it.
LEMMA ReadsOfKey ==
  ASSUME NEW old, NEW new, NEW f \in Field, old[KeyOf(f)] = new[KeyOf(f)]
  PROVE  ReadDevice(old, InterruptTypes)[f] = ReadDevice(new, InterruptTypes)[f]
<1>1. CASE KeyOf(f) = "affinity"
  <2>1. old.affinity = new.affinity
    BY <1>1
  <2>2. f \in {"DevicePolicy", "DevicePriority", "AssignmentSetOverride"}
    BY <1>1, Fields
  <2> QED
    BY <2>1, <2>2 DEF ReadDevice, StoredPolicy, StoredPriority, StoredMask
<1>2. CASE KeyOf(f) = "msi"
  <2>1. old.msi = new.msi
    BY <1>2
  <2>2. f \in {"MsiSupported", "MessageNumberLimit"}
    BY <1>2, Fields
  <2> QED
    BY <2>1, <2>2 DEF ReadDevice, StoredMsi, StoredLimit
<1> QED
  BY <1>1, <1>2, Fields

LEMMA EmptyEntry ==
  /\ [affinity |-> Absent, msi |-> Absent] \in Entry
  /\ \A key \in Key : [affinity |-> Absent, msi |-> Absent][key] = Absent
  BY DEF Entry, AffinityKey, MsiKey, Key

LEMMA EmptyRowType ==
  EmptyRow \in Settings
  BY EmptyEntry, ReadAgrees DEF EmptyRow

LEMMA ReadsOfAbsent ==
  ASSUME NEW stored, NEW f \in Field, stored[KeyOf(f)] = Absent
  PROVE  ReadDevice(stored, InterruptTypes)[f] = EmptyRow[f]
<1>1. KeyOf(f) \in Key
  BY Fields DEF Key
<1> QED
  BY <1>1, EmptyEntry, ReadsOfKey DEF EmptyRow

LEMMA NoReadOK ==
  ASSUME NEW stored
  PROVE  NoRead \in Reading /\ ReadOK(NoRead, stored)
<1>1. NoRead.at = 0 /\ NoRead.row = EmptyRow /\ NoRead.open = {} /\ NoRead.changed = {}
  BY DEF NoRead
<1>2. NoRead \in Reading
  BY EmptyRowType DEF NoRead, Reading
<1>3. \A key \in Key : ~(OpenAt[key] <= NoRead.at) /\ key \notin NoRead.open
  BY <1>1, CallPlaces DEF Key
<1>4. \A f \in Field : ~(ReadAt[f] <= NoRead.at) /\ NoRead.row[f] = EmptyRow[f]
  BY <1>1, CallPlaces, Fields
<1>5. NoRead.at < LastRead
  BY <1>1, CallPlaces
<1> QED
  BY <1>2, <1>3, <1>4, <1>5 DEF ReadOK

\* Another process changes a key.
LEMMA DisturbedReadOK ==
  ASSUME NEW r \in Reading, NEW stored \in Entry, ReadOK(r, stored),
         NEW key \in Key, NEW value \in KeyType(key), NEW after,
         after = [stored EXCEPT ![key] = value]
  PROVE  DisturbedRead(r, key, value) \in Reading /\ ReadOK(DisturbedRead(r, key, value), after)
<1> DEFINE t == DisturbedRead(r, key, value)
           open == IF value = Absent THEN r.open \ {key} ELSE r.open
           changed == r.changed \union {key}
<1>1. after[key] = value /\ \A other \in Key \ {key} : after[other] = stored[other]
  BY EntryKeys
<1>2. \A f \in Field : KeyOf(f) # key =>
        ReadDevice(after, InterruptTypes)[f] = ReadDevice(stored, InterruptTypes)[f]
  <2>1. \A f \in Field : KeyOf(f) \in Key
    BY Fields DEF Key
  <2>2. \A f \in Field : KeyOf(f) # key => after[KeyOf(f)] = stored[KeyOf(f)]
    BY <1>1, <2>1
  <2> QED
    BY <2>2, ReadsOfKey, Zenon
<1>3. \A f \in Field : OpenAt[KeyOf(f)] < ReadAt[f] /\ ReadAt[f] \in Nat /\ OpenAt[KeyOf(f)] \in Nat
  BY Fields, CallPlaces
<1>4. r.at \in 0 .. 6 /\ r.row \in Settings /\ r.open \in SUBSET Key /\ r.changed \in SUBSET Key
  BY DEF Reading
<1>5. CASE r.at < OpenAt[key]
  <2>1. t = r
    BY <1>5 DEF DisturbedRead
  <2>2. \A f \in Field : ReadAt[f] <= r.at => KeyOf(f) # key
    BY <1>3, <1>4, <1>5
  <2>3. \A other \in Key : OpenAt[other] <= r.at => other # key
    BY <1>4, <1>5, CallPlaces DEF Key
  <2>4. ReadOK(r, after)
    BY <1>1, <1>2, <2>2, <2>3 DEF ReadOK
  <2> QED
    BY <2>1, <2>4
<1>6. CASE ~(r.at < OpenAt[key])
  <2>1. t = [r EXCEPT !.changed = changed, !.open = open]
    BY <1>6 DEF DisturbedRead
  <2>2. changed \in SUBSET Key /\ open \in SUBSET r.open /\ key \in changed
        /\ \A other \in Key \ {key} : (other \in changed <=> other \in r.changed)
                                       /\ (other \in open <=> other \in r.open)
    BY <1>4
  <2>3. OpenAt[key] <= r.at
    BY <1>4, <1>6, CallPlaces DEF Key
  <2> HIDE DEF changed, open, t
  <2>4. t \in Reading
    BY <1>4, <2>1, <2>2 DEF Reading
  <2>5. t.at = r.at /\ t.row = r.row /\ t.open = open /\ t.changed = changed
    BY <2>1 DEF Reading
  <2>6. \A other \in Key : IF OpenAt[other] <= t.at
                           THEN other \notin t.changed => (other \in t.open <=> after[other] # Absent)
                           ELSE other \notin t.open
    BY <1>1, <2>2, <2>3, <2>5 DEF ReadOK
  <2>7. \A f \in Field : KeyOf(f) \notin changed => KeyOf(f) # key /\ KeyOf(f) \notin r.changed
    <3>1. \A f \in Field : KeyOf(f) \in Key
      BY Fields DEF Key
    <3> QED
      BY <2>2, <3>1
  <2>8. \A f \in Field : IF ReadAt[f] <= t.at
                         THEN KeyOf(f) \notin t.changed
                                => t.row[f] = ReadDevice(after, InterruptTypes)[f]
                         ELSE t.row[f] = EmptyRow[f]
    BY <1>2, <2>5, <2>7 DEF ReadOK
  <2>9. t.at < LastRead
    BY <2>5 DEF ReadOK
  <2> QED
    BY <2>4, <2>6, <2>8, <2>9 DEF ReadOK, t
<1> QED
  BY <1>5, <1>6

LEMMA OpenInv ==
  ASSUME IInv, NEW w \in Writer, NEW key \in Key, NEW fails \in BOOLEAN, OpenToRead(w, key, fails)
  PROVE  IInv'
<1> DEFINE r       == read[w]
           open    == IF fails \/ registry[key] = Absent THEN r.open ELSE r.open \union {key}
           changed == IF fails THEN r.changed \union {key} ELSE r.changed
           at      == r.at + 1
           t       == [r EXCEPT !.at = at, !.open = open, !.changed = changed]
<1>1. r \in Reading /\ ReadOK(r, registry)
  BY DEF IInv, TypeOK
<1>2. r.at \in 0 .. 6 /\ r.row \in Settings /\ r.open \in SUBSET Key /\ r.changed \in SUBSET Key
  BY <1>1 DEF Reading
<1>3. at = OpenAt[key] /\ UNCHANGED <<registry, writer, torn>>
  BY DEF OpenToRead
<1>4. read' = [read EXCEPT ![w] = t]
  <2>1. [read EXCEPT ![w].at = at, ![w].open = open, ![w].changed = changed]
          = [read EXCEPT ![w] = t]
    BY <1>1 DEF IInv, TypeOK, Reading
  <2> QED
    BY <2>1, Zenon DEF OpenToRead
<1>5. open \in SUBSET Key /\ changed \in SUBSET Key
  BY <1>2
<1>6. /\ \A other \in Key \ {key} : /\ other \in open <=> other \in r.open
                                    /\ other \in changed <=> other \in r.changed
      /\ r.changed \subseteq changed
  OBVIOUS
<1>7. key \notin r.open
  BY <1>1, <1>2, <1>3, CallPlaces DEF ReadOK, Key
<1>8. key \notin changed => (key \in open <=> registry[key] # Absent)
  BY <1>7
<1>9. at \in 0 .. 6 /\ at = r.at + 1
  BY <1>2, <1>3, CallPlaces DEF Key
<1> HIDE DEF open, changed, at
<1>10. /\ t \in Reading
       /\ t.at = at /\ t.row = r.row /\ t.open = open /\ t.changed = changed
  BY <1>1, <1>5, <1>9 DEF Reading
<1> HIDE DEF t, r
<1>11. \/ at = 1 /\ r.at = 0 /\ key = "affinity"
       \/ at = 5 /\ r.at = 4 /\ key = "msi"
  <2>1. key = "affinity" \/ key = "msi"
    BY DEF Key
  <2>2. (key = "affinity" => at = 1) /\ (key = "msi" => at = 5)
    BY <1>3, CallPlaces
  <2>3. r.at \in Nat /\ at = r.at + 1
    BY <1>2, <1>9
  <2> QED
    BY <2>1, <2>2, <2>3
<1>12. t.at < LastRead
  <2>1. r.at < LastRead
    BY <1>1 DEF ReadOK
  <2> QED
    BY <1>10, <1>11, <2>1, CallPlaces
<1>13. \A other \in Key : IF OpenAt[other] <= t.at
                          THEN other \notin t.changed
                                 => (other \in t.open <=> registry[other] # Absent)
                          ELSE other \notin t.open
  <2>1. \A other \in Key \ {key} : OpenAt[other] <= at <=> OpenAt[other] <= r.at
    BY <1>11, CallPlaces DEF Key
  <2>2. \A other \in Key \ {key} : IF OpenAt[other] <= r.at
                                    THEN other \notin r.changed
                                           => (other \in r.open <=> registry[other] # Absent)
                                    ELSE other \notin r.open
    BY <1>1 DEF ReadOK
  <2>3. OpenAt[key] <= at
    BY <1>11, CallPlaces
  <2> QED
    BY <1>6, <1>8, <1>10, <2>1, <2>2, <2>3
<1>14. \A f \in Field : IF ReadAt[f] <= t.at
                        THEN KeyOf(f) \notin t.changed
                               => t.row[f] = ReadDevice(registry, InterruptTypes)[f]
                        ELSE t.row[f] = EmptyRow[f]
  <2>1. \A f \in Field : ReadAt[f] <= at <=> ReadAt[f] <= r.at
    BY <1>11, CallPlaces, Fields
  <2> QED
    BY <1>1, <1>6, <1>10, <2>1 DEF ReadOK
<1>15. ReadOK(t, registry)
  BY <1>12, <1>13, <1>14 DEF ReadOK
<1> QED
  BY <1>3, <1>4, <1>10, <1>15 DEF IInv, TypeOK

\* The call that reads a value: what the row holds after it.
LEMMA ValueFound ==
  ASSUME NEW r \in Reading, registry \in Entry, ReadOK(r, registry),
         NEW f \in Field, r.at + 1 = ReadAt[f], NEW fails \in BOOLEAN,
         NEW changed, changed = IF fails THEN r.changed \union {KeyOf(f)} ELSE r.changed
  PROVE  LET row == RowAfterRead(r, f, fails) IN
         /\ row \in Settings
         /\ \A g \in Field \ {f} : row[g] = r.row[g]
         /\ row[f] = EmptyRow[f] \/ row[f] = ReadDevice(registry, InterruptTypes)[f]
         /\ KeyOf(f) \notin changed => row[f] = ReadDevice(registry, InterruptTypes)[f]
<1> DEFINE found == ReadDevice(registry, InterruptTypes)
           row   == RowAfterRead(r, f, fails)
           key   == KeyOf(f)
<1>1. found \in Settings
  BY ReadAgrees
<1>2. r.row \in Settings /\ r.at \in 0 .. 6
  BY DEF Reading
<1>3. key \in Key /\ OpenAt[key] < ReadAt[f] /\ OpenAt[key] \in Nat /\ ReadAt[f] \in Nat
  BY Fields, CallPlaces DEF Key
<1>4. OpenAt[key] <= r.at /\ ~(ReadAt[f] <= r.at)
  BY <1>2, <1>3
<1>5. r.row[f] = EmptyRow[f]
  BY <1>4 DEF ReadOK
<1>6. key \notin r.changed => (key \in r.open <=> registry[key] # Absent)
  BY <1>3, <1>4 DEF ReadOK
<1>7. registry[key] = Absent => found[f] = EmptyRow[f]
  BY ReadsOfAbsent
<1>8. CASE key \in r.open /\ ~fails
  <2>1. row = [r.row EXCEPT ![f] = found[f]]
    BY <1>8 DEF RowAfterRead
  <2> HIDE DEF found, row
  <2>2. row \in Settings /\ row[f] = found[f] /\ \A g \in Field \ {f} : row[g] = r.row[g]
    BY <1>1, <1>2, <2>1, OneField
  <2> QED
    BY <2>2 DEF found, row
<1>9. CASE ~(key \in r.open /\ ~fails)
  <2>1. row = r.row
    BY <1>9 DEF RowAfterRead
  <2>2. key \notin changed => key \notin r.changed /\ ~fails
    OBVIOUS
  <2> HIDE DEF found, row, key
  <2>3. key \notin changed => row[f] = found[f]
    BY <1>5, <1>6, <1>7, <1>9, <2>1, <2>2
  <2>4. row \in Settings /\ row[f] = EmptyRow[f] /\ \A g \in Field \ {f} : row[g] = r.row[g]
    BY <1>2, <1>5, <2>1
  <2> QED
    BY <2>3, <2>4 DEF found, row, key
<1> QED
  BY <1>8, <1>9

\* The process as it begins with its row.
Ready(row, stale) ==
  [NoProcess EXCEPT !.pc = "ready", !.row = row, !.item = row, !.stale = stale]

\* The step, its row and the keys of which it is out of date given names.
ReadOf(w, f, row, changed) ==
  LET r == read[w] IN
  /\ writer[w].pc = "closed" /\ r.at + 1 = ReadAt[f]
  /\ row \in Settings /\ changed \in SUBSET Key /\ r.changed \subseteq changed
  /\ \A g \in Field \ {f} : row[g] = r.row[g]
  /\ row[f] = EmptyRow[f] \/ row[f] = ReadDevice(registry, InterruptTypes)[f]
  /\ \A g \in Field : IF ReadAt[g] <= ReadAt[f]
                      THEN KeyOf(g) \notin changed
                             => row[g] = ReadDevice(registry, InterruptTypes)[g]
                      ELSE row[g] = EmptyRow[g]
  /\ registry' = registry
  /\ read' = [read EXCEPT ![w] = IF ReadAt[f] = LastRead THEN NoRead
                                 ELSE [r EXCEPT !.at = @ + 1, !.row = row, !.changed = changed]]
  /\ writer' = IF ReadAt[f] = LastRead THEN [writer EXCEPT ![w] = Ready(row, changed)] ELSE writer
  /\ torn' = (torn \/ (f = "AssignmentSetOverride"
                       /\ ("affinity" \in changed \/ \E q \in Writer : Mid(writer[q], "affinity"))))

LEMMA ReadNamed ==
  ASSUME IInv, NEW w \in Writer, NEW f \in Field, NEW fails \in BOOLEAN, ReadValue(w, f, fails)
  PROVE  \E row, changed : ReadOf(w, f, row, changed)
<1> DEFINE r       == read[w]
           row     == RowAfterRead(r, f, fails)
           changed == IF fails THEN r.changed \union {KeyOf(f)} ELSE r.changed
<1>1. r \in Reading /\ ReadOK(r, registry) /\ registry \in Entry
  BY DEF IInv, TypeOK
<1>2. r.at + 1 = ReadAt[f] /\ writer[w].pc = "closed" /\ registry' = registry
  BY DEF ReadValue
<1>3. r.at \in 0 .. 6 /\ r.changed \in SUBSET Key
  BY <1>1 DEF Reading
<1>4. changed \in SUBSET Key /\ r.changed \subseteq changed
  <2>1. KeyOf(f) \in Key
    BY Fields DEF Key
  <2> QED
    BY <1>3, <2>1
<1>5. /\ row \in Settings
      /\ \A g \in Field \ {f} : row[g] = r.row[g]
      /\ row[f] = EmptyRow[f] \/ row[f] = ReadDevice(registry, InterruptTypes)[f]
      /\ KeyOf(f) \notin changed => row[f] = ReadDevice(registry, InterruptTypes)[f]
  <2> HIDE DEF r
  <2> QED
    BY <1>1, <1>2, ValueFound
<1>6. /\ read' = [read EXCEPT ![w] = IF ReadAt[f] = LastRead THEN NoRead
                                     ELSE [r EXCEPT !.at = @ + 1, !.row = row, !.changed = changed]]
      /\ writer' = IF ReadAt[f] = LastRead THEN [writer EXCEPT ![w] = Ready(row, changed)]
                   ELSE writer
      /\ torn' = (torn \/ (f = "AssignmentSetOverride"
                           /\ ("affinity" \in changed
                               \/ \E q \in Writer : Mid(writer[q], "affinity"))))
  BY Zenon DEF ReadValue, Ready
<1> HIDE DEF row, changed
<1>7. \A g \in Field : IF ReadAt[g] <= ReadAt[f]
                       THEN KeyOf(g) \notin changed
                              => row[g] = ReadDevice(registry, InterruptTypes)[g]
                       ELSE row[g] = EmptyRow[g]
  <2>1. \A g \in Field \ {f} : ReadAt[g] <= ReadAt[f] <=> ReadAt[g] <= r.at
    BY <1>2, <1>3, CallPlaces, Fields
  <2>2. ReadAt[f] <= ReadAt[f]
    BY CallPlaces, Fields
  <2> HIDE DEF r
  <2> QED
    BY <1>1, <1>4, <1>5, <2>1, <2>2 DEF ReadOK
<1>8. ReadOf(w, f, row, changed)
  BY <1>2, <1>4, <1>5, <1>6, <1>7, Zenon DEF ReadOf
<1> QED
  BY <1>8, Zenon

IsReady(t, row, stale) ==
  /\ t \in Process /\ t.pc = "ready" /\ t.row = row /\ t.item = row /\ t.stale = stale
  /\ t.todo = {} /\ t.at = 1 /\ t.spoiled = FALSE /\ t.deleted = FALSE

LEMMA ReadyFields ==
  ASSUME NEW row \in Settings, NEW stale \in SUBSET Key
  PROVE  IsReady(Ready(row, stale), row, stale)
<1> DEFINE pc == "ready"
           t  == Ready(row, stale)
<1>1. NoProcess \in Process /\ NoProcess.todo = {} /\ NoProcess.at = 1
      /\ NoProcess.spoiled = FALSE /\ NoProcess.deleted = FALSE
  BY NoProcessOK DEF NoProcess
<1>2. pc \in {"closed", "ready", "storing", "done"}
  OBVIOUS
<1>3. t = [NoProcess EXCEPT !.pc = pc, !.row = row, !.item = row, !.stale = stale]
  BY DEF Ready
<1> HIDE DEF pc, t
<1>4. /\ t \in Process /\ t.pc = pc /\ t.row = row /\ t.item = row /\ t.stale = stale
      /\ t.todo = {} /\ t.at = 1 /\ t.spoiled = FALSE /\ t.deleted = FALSE
  BY <1>1, <1>2, <1>3 DEF Process
<1> QED
  BY <1>4 DEF pc, t, IsReady

\* Of a key that was read undisturbed, the row at the end of the read tells
\* what is stored.
RowRead(row, changed, stored) ==
  \A g \in Field : KeyOf(g) \notin changed => row[g] = ReadDevice(stored, InterruptTypes)[g]

LEMMA ReadIsOver ==
  ASSUME NEW w \in Writer, NEW f \in Field, NEW row, NEW changed, ReadOf(w, f, row, changed),
         ReadAt[f] = LastRead
  PROVE  RowRead(row, changed, registry)
<1>1. \A g \in Field : IF ReadAt[g] <= ReadAt[f]
                       THEN KeyOf(g) \notin changed
                              => row[g] = ReadDevice(registry, InterruptTypes)[g]
                       ELSE row[g] = EmptyRow[g]
  BY DEF ReadOf
<1>2. ASSUME NEW g \in Field, ~(ReadAt[g] <= ReadAt[f])
      PROVE  EmptyRow[g] = ReadDevice(registry, InterruptTypes)[g]
  <2>1. InterruptTypes = {} /\ g \in {"MsiSupported", "MessageNumberLimit"}
    BY <1>2, CallPlaces, Fields
  <2> QED
    BY <2>1 DEF EmptyRow, ReadDevice
<1> QED
  BY <1>1, <1>2 DEF RowRead

LEMMA ReadInv ==
  ASSUME IInv, NEW w \in Writer, NEW f \in Field, NEW fails \in BOOLEAN, ReadValue(w, f, fails)
  PROVE  IInv'
<1>1. PICK row, changed : ReadOf(w, f, row, changed)
  BY ReadNamed
<1> DEFINE r  == read[w]
           at == r.at + 1
           t  == [r EXCEPT !.at = at, !.row = row, !.changed = changed]
<1>2. /\ row \in Settings /\ changed \in SUBSET Key /\ r.changed \subseteq changed
      /\ r.at + 1 = ReadAt[f] /\ registry' = registry
  BY <1>1 DEF ReadOf
<1>3. torn' \in BOOLEAN
  BY <1>1 DEF ReadOf, IInv, TypeOK
<1>4. r \in Reading /\ ReadOK(r, registry) /\ registry \in Entry
  BY DEF IInv, TypeOK
<1>5. r.at \in 0 .. 6 /\ r.open \in SUBSET Key
  BY <1>4 DEF Reading
<1>6. CASE ReadAt[f] = LastRead
  <2> DEFINE u == Ready(row, changed)
  <2>0. IsReady(u, row, changed)
    BY <1>2, ReadyFields, Zenon
  <2>1. writer' = [writer EXCEPT ![w] = u] /\ read' = [read EXCEPT ![w] = NoRead]
    BY <1>1, <1>6 DEF ReadOf
  <2> HIDE DEF u
  <2>2. /\ u \in Process /\ u.pc = "ready" /\ u.row = row /\ u.item = row
        /\ u.todo = {} /\ u.at = 1 /\ u.spoiled = FALSE /\ u.deleted = FALSE
    BY <2>0 DEF IsReady
  <2>3. ProcessOK(u, registry)
    BY <1>2, <2>2 DEF ProcessOK, Mid
  <2>4. NoRead \in Reading /\ ReadOK(NoRead, registry)
    BY NoReadOK
  <2> QED
    BY <1>2, <1>3, <2>1, <2>2, <2>3, <2>4 DEF IInv, TypeOK
<1>7. CASE ReadAt[f] # LastRead
  <2>1. writer' = writer /\ read' = [read EXCEPT ![w] = t]
    BY <1>1, <1>7 DEF ReadOf
  <2>2. at \in 0 .. 6 /\ at < LastRead
    BY <1>2, <1>4, <1>5, <1>7, CallPlaces, Fields DEF ReadOK
  <2>3. at = ReadAt[f]
    BY <1>2
  <2> HIDE DEF at
  <2>4. t \in Reading /\ t.at = at /\ t.row = row /\ t.open = r.open /\ t.changed = changed
    BY <1>2, <1>4, <2>2 DEF Reading
  <2>5. \A key \in Key : OpenAt[key] <= at <=> OpenAt[key] <= r.at
    BY <1>2, <1>5, <2>3, CallPlaces, Fields DEF Key
  <2> HIDE DEF t, r
  <2>6. \A key \in Key : IF OpenAt[key] <= t.at
                         THEN key \notin t.changed => (key \in t.open <=> registry[key] # Absent)
                         ELSE key \notin t.open
    BY <1>2, <1>4, <2>4, <2>5 DEF ReadOK
  <2>7. \A g \in Field : IF ReadAt[g] <= at
                         THEN KeyOf(g) \notin changed
                                => row[g] = ReadDevice(registry, InterruptTypes)[g]
                         ELSE row[g] = EmptyRow[g]
    BY <1>1, <2>3 DEF ReadOf
  <2>8. ReadOK(t, registry)
    BY <2>2, <2>4, <2>6, <2>7 DEF ReadOK
  <2> QED
    BY <1>2, <1>3, <2>1, <2>4, <2>8 DEF IInv, TypeOK
<1> QED
  BY <1>6, <1>7

LEMMA AskInv ==
  ASSUME IInv, NEW w \in Writer, NEW change \in Change, Ask(w, change)
  PROVE  IInv'
<1> DEFINE s    == writer[w]
           item == ChangedTo(s.row, change)
           keys == AskedKeys(w, s.row, item, change)
           pc   == IF keys # {} THEN "storing" ELSE IF w \in Window THEN "ready" ELSE "done"
           t    == [s EXCEPT !.item = item, !.todo = keys, !.pc = pc]
<1>1. s \in Process /\ ProcessOK(s, registry) /\ s.pc = "ready"
  BY DEF IInv, TypeOK, Ask
<1>2. s.row \in Settings /\ s.todo = {} /\ s.at = 1 /\ ~s.spoiled /\ ~s.deleted
  BY <1>1 DEF ProcessOK
<1>3. item \in Settings
  BY <1>2, ChangedType
<1>4. \A key \in keys : key \in Key /\ Calls(key, item) # <<>>
  BY DEF AskedKeys
<1>5. pc \in {"ready", "storing", "done"} /\ (pc = "storing" <=> keys # {})
  OBVIOUS
<1>6. writer' = [writer EXCEPT ![w] = t] /\ UNCHANGED <<registry, read, torn>>
  <2>1. [writer EXCEPT ![w].item = item, ![w].todo = keys, ![w].pc = pc]
          = [writer EXCEPT ![w] = t]
    BY <1>1 DEF IInv, TypeOK, Process
  <2> QED
    BY <2>1, Zenon DEF Ask
<1> HIDE DEF item, keys, pc
<1>7. /\ t \in Process /\ t.row = s.row /\ t.item = item /\ t.todo = keys /\ t.pc = pc
      /\ t.at = s.at /\ t.spoiled = s.spoiled /\ t.deleted = s.deleted
  BY <1>1, <1>3, <1>4, <1>5 DEF Process
<1> HIDE DEF t, s
<1>8. t.todo # {} => Current(t) \in t.todo
  BY <1>4, <1>7 DEF Current, Key
<1>9. t.todo # {} => t.at <= Len(Calls(Current(t), t.item))
  <2>1. \A n \in 2 .. 4 : 1 <= n
    OBVIOUS
  <2>2. \A key \in keys : Len(Calls(key, item)) \in 2 .. 4
    BY <1>3, <1>4, CallsShape
  <2> QED
    BY <1>2, <1>7, <1>8, <2>1, <2>2
<1>10. \A key \in Key : ~Mid(t, key)
  BY <1>2, <1>7 DEF Mid
<1>11. ProcessOK(t, registry)
  BY <1>2, <1>3, <1>4, <1>5, <1>7, <1>9, <1>10 DEF ProcessOK
<1> QED
  BY <1>6, <1>7, <1>11 DEF IInv, TypeOK

LEMMA EndInv ==
  ASSUME IInv, NEW w \in Writer, End(w)
  PROVE  IInv'
<1>1. /\ writer' = [writer EXCEPT ![w] = NoProcess] /\ registry' = registry
      /\ read' = [read EXCEPT ![w] = NoRead] /\ torn' \in BOOLEAN
  BY DEF End
<1>2. NoProcess \in Process /\ ProcessOK(NoProcess, registry)
  BY NoProcessOK
<1>3. NoRead \in Reading /\ ReadOK(NoRead, registry)
  BY NoReadOK
<1> QED
  BY <1>1, <1>2, <1>3 DEF IInv, TypeOK

\* The process itself when its setter is not over.
LEMMA ContinuingOK ==
  ASSUME NEW s \in Process, NEW stored, ProcessOK(s, stored), s.todo # {},
         NEW key, key = Current(s), s.at # Len(Calls(key, s.item)),
         NEW old \in KeyType(key), NEW spoilt \in BOOLEAN, NEW after,
         Progress(key, s.item, s.at + 1, s.deleted, old, spoilt, after[key])
  PROVE  Continued(s, old, spoilt) \in Process /\ ProcessOK(Continued(s, old, spoilt), after)
<1> DEFINE at == s.at + 1
           t  == Continued(s, old, spoilt)
<1>1. /\ key \in Key /\ s.pc = "storing" /\ s.row \in Settings /\ s.item \in Settings
      /\ s.at \in 1 .. Len(Calls(key, s.item)) /\ Len(Calls(key, s.item)) \in 2 .. 4
  BY AtCall
<1>2. at \in 1 .. 4 /\ at # 1 /\ at <= Len(Calls(key, s.item))
  <2>1. \A n \in 2 .. 4 : \A m \in 1 .. n :
          m # n => m + 1 \in 1 .. 4 /\ m + 1 # 1 /\ m + 1 <= n
    OBVIOUS
  <2> QED
    BY <1>1, <2>1, Zenon
<1>3. old \in AffinityKey \union MsiKey
  BY DEF KeyType
<1>4. t = [s EXCEPT !.at = at, !.spoiled = spoilt, !.before = old]
  BY DEF Continued
<1>5. Progress(key, s.item, at, s.deleted, old, spoilt, after[key])
  OBVIOUS
<1> HIDE DEF at, t
<1>6. /\ t \in Process /\ t.pc = s.pc /\ t.row = s.row /\ t.item = s.item /\ t.todo = s.todo
      /\ t.at = at /\ t.spoiled = spoilt /\ t.before = old /\ t.deleted = s.deleted
  BY <1>2, <1>3, <1>4 DEF Process
<1>7. Current(t) = key /\ \A other \in Key : Mid(t, other) => other = key
  BY <1>6 DEF Current, Mid
<1>8. \A other \in t.todo : Calls(other, t.item) # <<>>
  BY <1>6 DEF ProcessOK
<1>9. Progress(key, t.item, t.at, t.deleted, t.before, t.spoiled, after[key])
  BY <1>5, <1>6, Zenon
<1> QED
  BY <1>1, <1>2, <1>6, <1>7, <1>8, <1>9 DEF ProcessOK, t

LEMMA CallInv ==
  ASSUME IInv, NEW w \in Writer, NEW fails \in BOOLEAN, Call(w, fails)
  PROVE  IInv'
<1>1. PICK key, value, old, updated : \E refused, spoilt, over \in BOOLEAN :
        CallOf(w, fails, key, refused, value, old, spoilt, updated, over)
  BY CallNamed
<1>2. PICK refused \in BOOLEAN, spoilt \in BOOLEAN, over \in BOOLEAN :
        CallOf(w, fails, key, refused, value, old, spoilt, updated, over)
  BY <1>1
<1> DEFINE s == writer[w]
<1>3. /\ s.todo # {} /\ key = Current(s)
      /\ over <=> (s.at = Len(Calls(key, s.item)) \/ (s.at = 1 /\ refused))
      /\ registry' = [registry EXCEPT ![key] = value] /\ torn' \in BOOLEAN
  BY <1>2 DEF CallOf, Finds, IInv, TypeOK
<1>4. /\ key \in Key /\ old \in KeyType(key) /\ value \in KeyType(key)
      /\ registry[key] \in KeyType(key)
      /\ s.row \in Settings /\ s.item \in Settings /\ updated \in Settings
      /\ s.at # 1 \/ ~refused => Progress(key, s.item, s.at + 1, s.deleted, old, spoilt, value)
  <2>1. CallFound(w, key, refused, value, old, spoilt, updated)
    BY <1>2, CallFacts, Zenon
  <2> QED
    BY <2>1, Zenon DEF CallFound
<1>5. registry' \in Entry /\ registry'[key] = value
  <2>1. registry \in Entry
    BY DEF IInv, TypeOK
  <2>2. /\ [registry EXCEPT ![key] = value] \in Entry
        /\ [registry EXCEPT ![key] = value][key] = value
    BY <1>4, <2>1, EntryKeys
  <2> QED
    BY <1>3, <2>2
<1>6. \A q \in Writer : writer[q] \in Process /\ ProcessOK(writer[q], registry)
  BY DEF IInv, TypeOK
<1>7. writer' = [q \in Writer |->
           IF q # w
           THEN IF value # registry[key] THEN Disturbed(writer[q], key, value) ELSE writer[q]
           ELSE IF over THEN AfterSetter(w, s, key, updated, spoilt)
           ELSE Continued(s, old, spoilt)]
  BY <1>2, Zenon DEF CallOf
<1>8. ASSUME NEW q \in Writer
      PROVE  writer'[q] \in Process /\ ProcessOK(writer'[q], registry')
  <2>1. CASE q # w /\ value # registry[key]
    <3>1. writer'[q] = Disturbed(writer[q], key, value)
      BY <1>7, <2>1
    <3> QED
      BY <1>3, <1>4, <1>6, <3>1, DisturbedOK DEF IInv, TypeOK
  <2>2. CASE q # w /\ value = registry[key]
    <3>1. writer'[q] = writer[q] /\ registry' = registry
      BY <1>3, <1>4, <1>7, <2>2 DEF IInv, TypeOK, Entry, Key
    <3> QED
      BY <1>6, <3>1
  <2>3. CASE q = w /\ over
    <3>1. writer'[q] = AfterSetter(w, s, key, updated, spoilt)
      BY <1>7, <2>3
    <3>2. s \in Process /\ ProcessOK(s, registry)
      BY <1>6
    <3> HIDE DEF s
    <3>3. /\ AfterSetter(w, s, key, updated, spoilt) \in Process
          /\ ProcessOK(AfterSetter(w, s, key, updated, spoilt), registry')
      BY <1>3, <1>4, <3>2, AfterSetterOK
    <3> QED
      BY <3>1, <3>3
  <2>4. CASE q = w /\ ~over
    <3>1. writer'[q] = Continued(s, old, spoilt)
      BY <1>7, <2>4
    <3>2. /\ s.at # Len(Calls(key, s.item))
          /\ Progress(key, s.item, s.at + 1, s.deleted, old, spoilt, registry'[key])
      BY <1>3, <1>4, <1>5, <2>4
    <3>3. s \in Process /\ ProcessOK(s, registry)
      BY <1>6
    <3> HIDE DEF s
    <3>4. /\ Continued(s, old, spoilt) \in Process
          /\ ProcessOK(Continued(s, old, spoilt), registry')
      BY <1>3, <1>4, <3>2, <3>3, ContinuingOK
    <3> QED
      BY <3>1, <3>4
  <2> QED
    BY <2>1, <2>2, <2>3, <2>4
<1>9. writer' \in [Writer -> Process]
  BY <1>7, <1>8
<1>10. read' = [q \in Writer |->
           IF value # registry[key] THEN DisturbedRead(read[q], key, value) ELSE read[q]]
  BY <1>2, Zenon DEF CallOf
<1>11. ASSUME NEW q \in Writer
       PROVE  read'[q] \in Reading /\ ReadOK(read'[q], registry')
  <2>1. read[q] \in Reading /\ ReadOK(read[q], registry) /\ registry \in Entry
    BY DEF IInv, TypeOK
  <2>2. CASE value # registry[key]
    <3>1. read'[q] = DisturbedRead(read[q], key, value)
      BY <1>10, <2>2
    <3> QED
      BY <1>3, <1>4, <2>1, <3>1, DisturbedReadOK
  <2>3. CASE value = registry[key]
    <3>1. read'[q] = read[q] /\ registry' = registry
      BY <1>3, <1>4, <1>10, <2>1, <2>3 DEF Entry, Key
    <3> QED
      BY <2>1, <3>1
  <2> QED
    BY <2>2, <2>3
<1>12. read' \in [Writer -> Reading]
  BY <1>10, <1>11
<1> QED
  BY <1>3, <1>5, <1>8, <1>9, <1>11, <1>12 DEF IInv, TypeOK

LEMMA InitWritersIInv ==
  ASSUME Init
  PROVE  IInv
<1>1. registry \in Entry
  BY WriterAssumption DEF Init
<1>2. NoProcess \in Process /\ ProcessOK(NoProcess, registry)
  BY NoProcessOK
<1>3. NoRead \in Reading /\ ReadOK(NoRead, registry)
  BY NoReadOK
<1> QED
  BY <1>1, <1>2, <1>3 DEF Init, IInv, TypeOK

LEMMA NextKeepsWritersIInv ==
  ASSUME IInv, [Next]_vars
  PROVE  IInv'
<1>1. ASSUME NEW w \in Writer, NEW key \in Key, NEW fails \in BOOLEAN,
             OpenToRead(w, key, fails)
      PROVE  IInv'
  BY <1>1, OpenInv
<1>6. ASSUME NEW w \in Writer, NEW f \in Field, NEW fails \in BOOLEAN, ReadValue(w, f, fails)
      PROVE  IInv'
  BY <1>6, ReadInv
<1>2. ASSUME NEW w \in Writer, NEW change \in Change, Ask(w, change)
      PROVE  IInv'
  BY <1>2, AskInv
<1>3. ASSUME NEW w \in Writer, NEW fails \in BOOLEAN, Call(w, fails)
      PROVE  IInv'
  BY <1>3, CallInv
<1>4. ASSUME NEW w \in Writer, End(w)
      PROVE  IInv'
  BY <1>4, EndInv
<1>5. CASE UNCHANGED vars
  BY <1>5 DEF vars, IInv, TypeOK
<1> QED
  BY <1>1, <1>2, <1>3, <1>4, <1>5, <1>6 DEF Next

(***************************************************************************)
(* Whatever setters of other processes come between any two calls, calls   *)
(* fail and processes are killed, the keys hold values of their types, and *)
(* a setter is at a call it has (setMSIMode, setAffinityPolicy, reg.go     *)
(* 43-141).                                                                *)
(***************************************************************************)
THEOREM WritersInvariant == Spec => []IInv
  BY InitWritersIInv, NextKeepsWritersIInv, PTL DEF Spec

\* The types of the setters call by call (reg.go 43-141, app.go 498-507).
THEOREM WritersTypeCorrect == Spec => []TypeOK
<1>1. IInv => TypeOK
  BY DEF IInv
<1> QED
  BY <1>1, WritersInvariant, PTL

-----------------------------------------------------------------------------
(***************************************************************************)
(* A setter that is over has one of its outcomes, counted from what it     *)
(* began from; or its key was deleted, none of the calls that were left    *)
(* did anything, and only the row has an outcome.                          *)
(***************************************************************************)
LEMMA LaterOps ==
  ASSUME NEW key \in Key, NEW item \in Settings, Calls(key, item) # <<>>,
         NEW at \in 2 .. Len(Calls(key, item))
  PROVE  Calls(key, item)[at].op \in {"delete", "set"}
<1>1. CASE key = "msi"
  <2>1. Calls(key, item) = MsiCalls(item)
    BY <1>1 DEF Calls
  <2> QED
    BY <2>1, LaterMsiCalls, CallEffects
<1>2. CASE key = "affinity"
  <2>1. Calls(key, item) = AffinityCalls(item)
    BY <1>2 DEF Calls
  <2> QED
    BY <2>1, LaterAffinityCalls, CallEffects
<1> QED
  BY <1>1, <1>2 DEF Key

LEMMA OverOutcome ==
  ASSUME IInv, NEW w \in Writer, NEW fails \in BOOLEAN, NEW key, NEW refused \in BOOLEAN,
         NEW value, NEW old, NEW spoilt \in BOOLEAN, NEW updated, NEW over \in BOOLEAN,
         CallOf(w, fails, key, refused, value, old, spoilt, updated, over), over
  PROVE  LET s == writer[w] IN
         \/ /\ spoilt /\ old = Absent /\ value = Absent
            /\ \E done \in setKey(key, s.row, s.item, old, TRUE) : done.row = updated
         \/ [row |-> updated, key |-> value] \in setKey(key, s.row, s.item, old, spoilt)
<1> DEFINE s == writer[w]
           call == Calls(key, s.item)[s.at]
<1>1. s \in Process /\ ProcessOK(s, registry) /\ s.todo # {}
  BY DEF IInv, TypeOK, CallOf
<1>2. /\ key = Current(s)
      /\ refused <=> \/ fails
                     \/ call.op = "set" /\ s.deleted
                     \/ call.op = "open" /\ registry[key] = Absent
      /\ value = IF refused THEN registry[key] ELSE Effect(key, call, registry[key])
      /\ old = IF s.at = 1 THEN registry[key] ELSE s.before
      /\ spoilt <=> (s.spoiled \/ fails)
  BY Zenon DEF CallOf, Finds
<1>3. /\ updated = IF call.op = "create" /\ refused THEN s.row ELSE RowAfter(key, s.row, s.item)
      /\ s.at = Len(Calls(key, s.item)) \/ (s.at = 1 /\ refused)
  BY Zenon DEF CallOf
<1>4. CallFound(w, key, refused, value, old, spoilt, updated)
  BY CallFacts, Zenon
<1>5. /\ key \in Key /\ old \in KeyType(key) /\ s.row \in Settings /\ s.item \in Settings
      /\ Calls(key, s.item) # <<>>
      /\ s.at # 1 \/ ~refused => Progress(key, s.item, s.at + 1, s.deleted, old, spoilt, value)
  BY <1>4, Zenon DEF CallFound
<1>6. /\ s.at \in 1 .. Len(Calls(key, s.item)) /\ Len(Calls(key, s.item)) \in 2 .. 4
      /\ s.at = 1 => s.spoiled = FALSE /\ s.deleted = FALSE
      /\ s.deleted \in BOOLEAN
  BY <1>1, <1>2, AtCall DEF Process
<1> HIDE DEF s
<1>7. CASE s.at = 1 /\ refused
  <2>1. call = Calls(key, s.item)[1] /\ old = registry[key] /\ value = old
    BY <1>2, <1>7
  <2>2. spoilt \/ (Calls(key, s.item)[1] = OpenKey /\ old = Absent)
    <3>1. Calls(key, s.item)[1] = OpenKey \/ Calls(key, s.item)[1] = CreateKey
      BY <1>5, CallsShape
    <3>2. OpenKey.op = "open" /\ CreateKey.op = "create"
      BY CallEffects
    <3> QED
      BY <1>2, <1>6, <1>7, <2>1, <3>1, <3>2
  <2>3. updated = IF Calls(key, s.item)[1].op = "create" THEN s.row ELSE RowAfter(key, s.row, s.item)
    BY <1>3, <1>7
  <2>4. [row |-> updated, key |-> old] \in setKey(key, s.row, s.item, old, spoilt)
    BY <1>5, <2>2, <2>3, RefusedOutcome
  <2> QED
    BY <2>1, <2>4 DEF s
<1>8. CASE ~(s.at = 1 /\ refused)
  <2>1. s.at = Len(Calls(key, s.item)) /\ s.at \in 2 .. Len(Calls(key, s.item)) /\ s.at # 1
    <3>1. s.at = Len(Calls(key, s.item))
      BY <1>3, <1>8, Zenon
    <3>2. \A n \in 2 .. 4 : n \in 2 .. n /\ n # 1
      OBVIOUS
    <3> QED
      BY <1>6, <3>1, <3>2, Zenon
  <2>2. updated = RowAfter(key, s.row, s.item)
    BY <1>3, <1>5, <2>1, LaterOps
  <2>3. Progress(key, s.item, s.at + 1, s.deleted, old, spoilt, value)
    BY <1>5, <2>1
  <2>4. s.at + 1 \in Nat /\ s.at + 1 > Len(Calls(key, s.item))
    BY <2>1
  <2>5. \/ s.deleted /\ spoilt /\ value = old
        \/ [row |-> updated, key |-> value] \in setKey(key, s.row, s.item, old, spoilt)
    BY <1>5, <1>6, <2>2, <2>3, <2>4, Outcome, Zenon
  <2>6. CASE spoilt /\ value = old
    <3>1. spoilt = TRUE
      BY <2>6
    <3>2. /\ old # Absent => [row |-> updated, key |-> old] \in setKey(key, s.row, s.item, old, TRUE)
          /\ \E done \in setKey(key, s.row, s.item, old, TRUE) : done.row = updated
      BY <1>5, <2>2, NothingDone, Zenon
    <3> QED
      BY <2>6, <3>1, <3>2, Zenon DEF s
  <2> QED
    BY <2>5, <2>6 DEF s
<1> QED
  BY <1>7, <1>8

-----------------------------------------------------------------------------
(***************************************************************************)
(* Of one key, a row tells what is stored, and stored is what was asked    *)
(* for; of a process, this is so of each key that it has not still to      *)
(* store and that no other changed.                                        *)
(***************************************************************************)
RowHolds(row, item, key, stored) ==
  IF key = "msi" THEN MsiAgrees(row, stored) /\ HoldsMsi(stored, item)
  ELSE AffinityAgrees(row, stored) /\ HoldsAffinity(stored, item)

Known(s, stored) ==
  s.pc # "closed" => \A key \in Key : key \notin s.todo \union s.stale
                                        => RowHolds(s.row, s.item, key, stored)

LEMMA KnownIsUndisturbed ==
  (\A w \in Writer : Known(writer[w], registry)) <=> UndisturbedIsStored
  BY DEF Known, RowHolds, UndisturbedIsStored, Key

LEMMA ReadHolds ==
  ASSUME NEW stored \in Entry, NEW key \in Key
  PROVE  RowHolds(ReadDevice(stored, InterruptTypes), ReadDevice(stored, InterruptTypes),
                  key, stored)
<1> DEFINE row == ReadDevice(stored, InterruptTypes)
<1>1. row \in Settings /\ Agrees(row, stored)
  BY ReadAgrees
<1> HIDE DEF row
<1>2. HoldsMsi(stored, row) /\ HoldsAffinity(stored, row)
  BY <1>1 DEF Agrees, AffinityAgrees, MsiAgrees, HoldsMsi, HoldsAffinity
<1>3. RowHolds(row, row, key, stored)
  BY <1>1, <1>2 DEF RowHolds, Agrees
<1> QED
  BY <1>3 DEF row

LEMMA HoldsOfKey ==
  ASSUME NEW row, NEW item, NEW key \in Key, NEW old, NEW new, old[key] = new[key],
         RowHolds(row, item, key, old)
  PROVE  RowHolds(row, item, key, new)
<1>1. CASE key = "msi"
  <2>1. StoredMsi(new) = StoredMsi(old) /\ StoredLimit(new) = StoredLimit(old)
    BY <1>1 DEF StoredMsi, StoredLimit
  <2> QED
    BY <1>1, <2>1 DEF RowHolds, MsiAgrees, HoldsMsi
<1>2. CASE key = "affinity"
  <2>1. /\ StoredPolicy(new) = StoredPolicy(old) /\ StoredPriority(new) = StoredPriority(old)
        /\ StoredMask(new) = StoredMask(old)
    BY <1>2 DEF StoredPolicy, StoredPriority, StoredMask
  <2> QED
    BY <1>2, <2>1 DEF RowHolds, AffinityAgrees, HoldsAffinity
<1> QED
  BY <1>1, <1>2 DEF Key

\* The setter of one key leaves what the row tells of the other.
LEMMA OtherRowHolds ==
  ASSUME NEW row \in Settings, NEW item \in Settings, NEW key \in Key, NEW other \in Key,
         other # key, NEW stored, RowHolds(row, item, other, stored)
  PROVE  RowHolds(RowAfter(key, row, item), item, other, stored)
<1> DEFINE new == RowAfter(key, row, item)
<1>1. CASE key = "affinity"
  <2>1. other = "msi"
    BY <1>1 DEF Key
  <2>2. new.MsiSupported = row.MsiSupported /\ new.MessageNumberLimit = row.MessageNumberLimit
    BY <1>1 DEF RowAfter, Settings
  <2> HIDE DEF new
  <2>3. RowHolds(new, item, other, stored)
    BY <2>1, <2>2 DEF RowHolds, MsiAgrees
  <2> QED
    BY <2>3 DEF new
<1>2. CASE key = "msi"
  <2>1. other = "affinity"
    BY <1>2 DEF Key
  <2>2. /\ new.DevicePolicy = row.DevicePolicy /\ new.DevicePriority = row.DevicePriority
        /\ new.AssignmentSetOverride = row.AssignmentSetOverride
    BY <1>2 DEF RowAfter, Settings
  <2> HIDE DEF new
  <2>3. RowHolds(new, item, other, stored)
    BY <2>1, <2>2 DEF RowHolds, AffinityAgrees
  <2> QED
    BY <2>3 DEF new
<1> QED
  BY <1>1, <1>2 DEF Key

LEMMA SetterHolds ==
  ASSUME NEW row \in Settings, NEW item \in Settings, NEW key \in Key, Calls(key, item) # <<>>,
         NEW k, NEW done \in setKey(key, row, item, k, FALSE), NEW stored, stored[key] = done.key
  PROVE  RowHolds(done.row, item, key, stored)
<1>1. CASE key = "msi"
  <2>1. done \in setMSIMode(row, item, k, FALSE) /\ stored.msi = done.key
    BY <1>1, Zenon DEF setKey
  <2>2. item.MsiSupported = MSI_Off \/ item.MsiSupported = MSI_On
    BY <1>1, CallsShape
  <2>3. MsiAgrees(done.row, stored) /\ HoldsMsi(stored, item)
    BY <2>1, <2>2, SetMsiAgrees, Zenon
  <2> QED
    BY <1>1, <2>3, Zenon DEF RowHolds
<1>2. CASE key = "affinity"
  <2>0. key # "msi"
    BY <1>2
  <2>1. done \in setAffinityPolicy(row, item, k, FALSE) /\ stored.affinity = done.key
    BY <1>2, <2>0, Zenon DEF setKey
  <2>2. AffinityAgrees(done.row, stored) /\ HoldsAffinity(stored, item)
    BY <2>1, SetAffinityAgrees, Zenon
  <2> QED
    BY <2>0, <2>2, Zenon DEF RowHolds
<1> QED
  BY <1>1, <1>2 DEF Key

\* A key that a process is asked nothing new of holds what it is asked for.
LEMMA AskHolds ==
  ASSUME NEW w \in Writer, NEW row \in Settings, NEW before, NEW change \in Change,
         NEW item, item = ChangedTo(row, change), NEW stored, NEW key \in Key,
         key \notin AskedKeys(w, row, item, change), RowHolds(row, before, key, stored)
  PROVE  RowHolds(row, item, key, stored)
<1>1. item \in Settings
  BY ChangedType
<1>2. \A f \in Field : f \notin DOMAIN change => item[f] = row[f]
  BY DEF ChangedTo
<1>3. {"DevicePolicy", "DevicePriority", "AssignmentSetOverride", "MsiSupported",
       "MessageNumberLimit"} \subseteq Field
  BY DEF Field, FieldValues
<1>4. CASE key = "msi"
  <2>1. \/ MsiCalls(item) = <<>>
        \/ SameMsi(row, item)
        \/ DOMAIN change \intersect {"MsiSupported", "MessageNumberLimit"} = {}
    BY <1>4, Fields DEF AskedKeys, Calls
  <2>2. MsiCalls(item) = <<>> => item.MsiSupported # MSI_Off /\ item.MsiSupported # MSI_On
    <3>1. \A a, b : <<a, b>> # <<>>
      OBVIOUS
    <3>2. \A a, b, c : <<a, b, c>> # <<>>
      OBVIOUS
    <3> QED
      BY <3>1, <3>2 DEF MsiCalls
  <2>3. DOMAIN change \intersect {"MsiSupported", "MessageNumberLimit"} = {} => SameMsi(row, item)
    BY <1>2, <1>3 DEF SameMsi
  <2>4. HoldsMsi(stored, item)
    BY <1>4, <2>1, <2>2, <2>3 DEF RowHolds, MsiAgrees, HoldsMsi, SameMsi
  <2> QED
    BY <1>4, <2>4 DEF RowHolds
<1>5. CASE key = "affinity"
  <2>0. key # "msi"
    BY <1>5
  <2>1. Calls(key, item) # <<>>
    <3>1. Calls(key, item) = AffinityCalls(item)
      BY <1>5 DEF Calls
    <3>2. \A a, b : <<a, b>> # <<>>
      OBVIOUS
    <3>3. \A a, b, c, d : <<a, b, c, d>> # <<>>
      OBVIOUS
    <3> QED
      BY <3>1, <3>2, <3>3 DEF AffinityCalls
  <2>2. \/ SameAffinity(row, item)
        \/ DOMAIN change \intersect
             {"DevicePolicy", "DevicePriority", "AssignmentSetOverride"} = {}
    BY <1>5, <2>1, Fields DEF AskedKeys
  <2>3. DOMAIN change \intersect {"DevicePolicy", "DevicePriority", "AssignmentSetOverride"} = {}
          => SameAffinity(row, item)
    BY <1>2, <1>3 DEF SameAffinity
  <2>4. AffinityAgrees(row, stored)
    BY <2>0 DEF RowHolds
  <2>5. HoldsAffinity(stored, item)
    BY <2>2, <2>3, <2>4 DEF AffinityAgrees, HoldsAffinity, SameAffinity
  <2> QED
    BY <2>0, <2>4, <2>5 DEF RowHolds
<1> QED
  BY <1>4, <1>5 DEF Key

-----------------------------------------------------------------------------
\* What changes, and what does not, in a process whose setter is over, in one
\* whose setter goes on, and in the others.
IsOver(s, key, updated, spoilt, t) ==
  /\ t.row = updated /\ t.item = s.item /\ t.todo = s.todo \ {key} /\ t.at = 1
  /\ spoilt => t.stale = s.stale \union {key}
  /\ ~spoilt => t.stale = s.stale \ {key}
  /\ t.pc # "closed"

LEMMA AfterSetterFields ==
  ASSUME NEW w, NEW s \in Process, NEW key, NEW updated, NEW spoilt \in BOOLEAN
  PROVE  IsOver(s, key, updated, spoilt, AfterSetter(w, s, key, updated, spoilt))
<1> DEFINE t     == AfterSetter(w, s, key, updated, spoilt)
           left  == s.todo \ {key}
           stale == IF spoilt THEN s.stale \union {key} ELSE s.stale \ {key}
           pc    == IF left # {} THEN "storing" ELSE IF w \in Window THEN "ready" ELSE "done"
           no    == FALSE
           one   == 1
<1>1. t = [s EXCEPT !.row = updated, !.todo = left, !.at = one, !.deleted = no,
                    !.before = Absent, !.spoiled = no, !.stale = stale, !.pc = pc]
  BY Zenon DEF AfterSetter
<1>2. pc # "closed" /\ one = 1
  OBVIOUS
<1> HIDE DEF stale, pc, left, no, t, one
<1>3. /\ t.row = updated /\ t.item = s.item /\ t.todo = left /\ t.at = one
      /\ t.stale = stale /\ t.pc = pc
  BY <1>1 DEF Process
<1> QED
  BY <1>2, <1>3 DEF stale, left, t, IsOver

LEMMA ContinuedFields ==
  ASSUME NEW s \in Process, NEW old, NEW spoilt \in BOOLEAN
  PROVE  LET t == Continued(s, old, spoilt) IN
         /\ t.pc = s.pc /\ t.row = s.row /\ t.item = s.item /\ t.todo = s.todo
         /\ t.stale = s.stale /\ t.before = old /\ t.at = s.at + 1
  BY DEF Continued, Process

IsDisturbed(s, key, value, t) ==
  /\ t.pc = s.pc /\ t.row = s.row /\ t.item = s.item /\ t.todo = s.todo /\ t.at = s.at
  /\ s.pc = "closed" => t.stale = s.stale
  /\ s.pc # "closed" => t.stale = s.stale \union {key}
  /\ s.pc # "closed" /\ Mid(s, key) => t.before = value
  /\ s.pc = "closed" \/ ~Mid(s, key) => t.before = s.before

LEMMA DisturbedFields ==
  ASSUME NEW s \in Process, NEW key, NEW value
  PROVE  IsDisturbed(s, key, value, Disturbed(s, key, value))
<1> DEFINE t     == Disturbed(s, key, value)
           stale == s.stale \union {key}
           gone  == IF value = Absent THEN TRUE ELSE s.deleted
           yes   == TRUE
<1>1. CASE s.pc # "closed" /\ Mid(s, key)
  <2>1. t = [s EXCEPT !.stale = stale, !.spoiled = yes, !.before = value, !.deleted = gone]
    BY <1>1 DEF Disturbed
  <2> HIDE DEF stale, gone, yes, t
  <2>2. /\ t.pc = s.pc /\ t.row = s.row /\ t.item = s.item /\ t.todo = s.todo /\ t.at = s.at
        /\ t.stale = stale /\ t.before = value
    BY <2>1 DEF Process
  <2> QED
    BY <1>1, <2>2 DEF t, stale, IsDisturbed
<1>2. CASE s.pc # "closed" /\ ~Mid(s, key)
  <2>1. t = [s EXCEPT !.stale = stale]
    BY <1>2 DEF Disturbed
  <2> QED
    BY <1>2, <2>1 DEF Process, IsDisturbed
<1>3. CASE s.pc = "closed"
  BY <1>3 DEF Disturbed, IsDisturbed
<1> QED
  BY <1>1, <1>2, <1>3

\* A row of values that were read is what is stored.
LEMMA RowReadHolds ==
  ASSUME NEW row \in Settings, NEW changed, NEW stored \in Entry, RowRead(row, changed, stored),
         NEW key \in Key, key \notin changed
  PROVE  RowHolds(row, row, key, stored)
<1> DEFINE found == ReadDevice(stored, InterruptTypes)
<1>1. RowHolds(found, found, key, stored)
  BY ReadHolds
<1>2. \A g \in Field : KeyOf(g) = key => row[g] = found[g]
  BY DEF RowRead
<1> HIDE DEF found
<1>3. CASE key = "msi"
  <2>1. row.MsiSupported = found.MsiSupported /\ row.MessageNumberLimit = found.MessageNumberLimit
    BY <1>2, <1>3, Fields
  <2> QED
    BY <1>1, <1>3, <2>1 DEF RowHolds, MsiAgrees, HoldsMsi
<1>4. CASE key = "affinity"
  <2>1. /\ row.DevicePolicy = found.DevicePolicy /\ row.DevicePriority = found.DevicePriority
        /\ row.AssignmentSetOverride = found.AssignmentSetOverride
    BY <1>2, <1>4, Fields
  <2> QED
    BY <1>1, <1>4, <2>1 DEF RowHolds, AffinityAgrees, HoldsAffinity
<1> QED
  BY <1>3, <1>4 DEF Key

LEMMA ReadKnown ==
  ASSUME IInv, UndisturbedIsStored, NEW w \in Writer, NEW f \in Field, NEW fails \in BOOLEAN,
         ReadValue(w, f, fails)
  PROVE  UndisturbedIsStored'
<1>1. PICK row, changed : ReadOf(w, f, row, changed)
  BY ReadNamed
<1>2. row \in Settings /\ changed \in SUBSET Key /\ registry' = registry
  BY <1>1 DEF ReadOf
<1>3. \A q \in Writer : Known(writer[q], registry)
  BY KnownIsUndisturbed
<1>4. CASE ReadAt[f] = LastRead
  <2> DEFINE t == Ready(row, changed)
  <2>0. IsReady(t, row, changed)
    BY <1>2, ReadyFields, Zenon
  <2>1. writer' = [writer EXCEPT ![w] = t]
    BY <1>1, <1>4 DEF ReadOf
  <2> HIDE DEF t
  <2>2. t.row = row /\ t.item = row /\ t.stale = changed
    BY <2>0 DEF IsReady
  <2>3. \A key \in Key : key \notin changed => RowHolds(row, row, key, registry)
    BY <1>1, <1>2, <1>4, ReadIsOver, RowReadHolds DEF IInv, TypeOK
  <2>4. Known(t, registry)
    BY <2>2, <2>3 DEF Known
  <2>5. \A q \in Writer : Known(writer'[q], registry')
    BY <1>2, <1>3, <2>1, <2>4 DEF IInv, TypeOK
  <2> QED
    BY <2>5 DEF UndisturbedIsStored, Known, RowHolds, Key
<1>5. CASE ReadAt[f] # LastRead
  <2>1. writer' = writer
    BY <1>1, <1>5 DEF ReadOf
  <2> QED
    BY <1>2, <2>1 DEF UndisturbedIsStored
<1> QED
  BY <1>4, <1>5

LEMMA AskKnown ==
  ASSUME IInv, UndisturbedIsStored, NEW w \in Writer, NEW change \in Change, Ask(w, change)
  PROVE  UndisturbedIsStored'
<1> DEFINE s    == writer[w]
           item == ChangedTo(s.row, change)
           keys == AskedKeys(w, s.row, item, change)
           pc   == IF keys # {} THEN "storing" ELSE IF w \in Window THEN "ready" ELSE "done"
           t    == [s EXCEPT !.item = item, !.todo = keys, !.pc = pc]
<1>1. s \in Process /\ s.pc = "ready" /\ s.row \in Settings /\ s.todo = {}
  BY DEF IInv, TypeOK, Ask, ProcessOK
<1>2. writer' = [writer EXCEPT ![w] = t] /\ registry' = registry
  <2>1. [writer EXCEPT ![w].item = item, ![w].todo = keys, ![w].pc = pc]
          = [writer EXCEPT ![w] = t]
    BY <1>1 DEF IInv, TypeOK, Process
  <2> QED
    BY <2>1, Zenon DEF Ask
<1>3. \A q \in Writer : Known(writer[q], registry)
  BY KnownIsUndisturbed
<1>4. \A key \in Key : key \notin s.stale => RowHolds(s.row, s.item, key, registry)
  BY <1>1, <1>3 DEF Known
<1>5. \A key \in Key : key \notin keys \union s.stale => RowHolds(s.row, item, key, registry)
  BY <1>1, <1>4, AskHolds
<1> HIDE DEF item, keys, pc
<1>6. t.row = s.row /\ t.item = item /\ t.todo = keys /\ t.stale = s.stale
  BY <1>1 DEF Process
<1> HIDE DEF t
<1>7. Known(t, registry)
  BY <1>5, <1>6 DEF Known
<1>8. \A q \in Writer : Known(writer'[q], registry')
  BY <1>2, <1>3, <1>7 DEF IInv, TypeOK
<1> QED
  BY <1>8 DEF UndisturbedIsStored, Known, RowHolds, Key

LEMMA EndKnown ==
  ASSUME IInv, UndisturbedIsStored, NEW w \in Writer, End(w)
  PROVE  UndisturbedIsStored'
<1>1. writer' = [writer EXCEPT ![w] = NoProcess] /\ registry' = registry
  BY DEF End
<1>2. NoProcess.pc = "closed"
  BY DEF NoProcess
<1>3. Known(NoProcess, registry)
  BY <1>2 DEF Known
<1>4. \A q \in Writer : Known(writer[q], registry)
  BY KnownIsUndisturbed
<1>5. \A q \in Writer : Known(writer'[q], registry')
  BY <1>1, <1>3, <1>4 DEF IInv, TypeOK
<1> QED
  BY <1>5 DEF UndisturbedIsStored, Known, RowHolds, Key

LEMMA CallKnown ==
  ASSUME IInv, UndisturbedIsStored, NEW w \in Writer, NEW fails \in BOOLEAN, Call(w, fails)
  PROVE  UndisturbedIsStored'
<1>1. PICK key, value, old, updated : \E refused, spoilt, over \in BOOLEAN :
        CallOf(w, fails, key, refused, value, old, spoilt, updated, over)
  BY CallNamed
<1>2. PICK refused \in BOOLEAN, spoilt \in BOOLEAN, over \in BOOLEAN :
        CallOf(w, fails, key, refused, value, old, spoilt, updated, over)
  BY <1>1
<1> DEFINE s == writer[w]
<1>3. /\ key = Current(s) /\ s.todo # {}
      /\ updated = s.row \/ updated = RowAfter(key, s.row, s.item)
      /\ registry' = [registry EXCEPT ![key] = value]
  BY <1>2 DEF CallOf, Finds
<1>4. /\ key \in Key /\ value \in KeyType(key)
      /\ s.row \in Settings /\ s.item \in Settings /\ Calls(key, s.item) # <<>>
  <2>1. CallFound(w, key, refused, value, old, spoilt, updated)
    BY <1>2, CallFacts, Zenon
  <2> QED
    BY <2>1, Zenon DEF CallFound
<1>5. /\ registry'[key] = value
      /\ \A other \in Key : other # key => registry'[other] = registry[other]
  <2>1. registry \in Entry
    BY DEF IInv, TypeOK
  <2> QED
    BY <1>3, <1>4, <2>1 DEF Entry, Key
<1>6. \A q \in Writer : writer[q] \in Process /\ ProcessOK(writer[q], registry)
  BY DEF IInv, TypeOK
<1>7. \A q \in Writer : Known(writer[q], registry)
  BY KnownIsUndisturbed
<1>8. writer' = [q \in Writer |->
           IF q # w
           THEN IF value # registry[key] THEN Disturbed(writer[q], key, value) ELSE writer[q]
           ELSE IF over THEN AfterSetter(w, s, key, updated, spoilt)
           ELSE Continued(s, old, spoilt)]
  BY <1>2, Zenon DEF CallOf
<1>9. ASSUME NEW q \in Writer
      PROVE  Known(writer'[q], registry')
  <2>1. CASE q # w /\ value # registry[key]
    <3> DEFINE t == Disturbed(writer[q], key, value)
    <3>1. writer'[q] = t
      BY <1>8, <2>1
    <3>2. /\ t.pc = writer[q].pc /\ t.row = writer[q].row /\ t.item = writer[q].item
          /\ t.todo = writer[q].todo
          /\ writer[q].pc # "closed" => t.stale = writer[q].stale \union {key}
      <4>1. IsDisturbed(writer[q], key, value, t)
        BY <1>6, DisturbedFields, Zenon
      <4> QED
        BY <4>1 DEF IsDisturbed
    <3> HIDE DEF t
    <3>3. ASSUME NEW other \in Key, t.pc # "closed", other \notin t.todo \union t.stale
          PROVE  RowHolds(t.row, t.item, other, registry')
      <4>1. other # key /\ registry'[other] = registry[other]
        BY <1>5, <3>2, <3>3
      <4>2. RowHolds(writer[q].row, writer[q].item, other, registry)
        BY <1>7, <3>2, <3>3 DEF Known
      <4> QED
        BY <3>2, <4>1, <4>2, HoldsOfKey
    <3> QED
      BY <3>1, <3>3 DEF Known
  <2>2. CASE q # w /\ value = registry[key]
    <3>1. writer'[q] = writer[q] /\ registry' = registry
      BY <1>3, <1>4, <1>8, <2>2 DEF IInv, TypeOK, Entry, Key
    <3> QED
      BY <1>7, <3>1
  <2>3. CASE q = w /\ over
    <3> DEFINE t == AfterSetter(w, s, key, updated, spoilt)
    <3>1. writer'[q] = t
      BY <1>8, <2>3
    <3>2. /\ t.row = updated /\ t.item = s.item /\ t.todo = s.todo \ {key}
          /\ spoilt => t.stale = s.stale \union {key}
          /\ ~spoilt => t.stale = s.stale \ {key}
      <4>1. s \in Process
        BY <1>6
      <4>2. IsOver(s, key, updated, spoilt, t)
        BY <4>1, AfterSetterFields, Zenon
      <4> QED
        BY <4>2 DEF IsOver
    <3>3. s.pc # "closed"
      BY <1>3, <1>6 DEF ProcessOK
    <3> HIDE DEF t
    <3>4. ASSUME NEW other \in Key, other # key, other \notin t.todo \union t.stale
          PROVE  RowHolds(t.row, t.item, other, registry')
      <4>1. RowHolds(s.row, s.item, other, registry)
        BY <1>7, <3>2, <3>3, <3>4 DEF Known
      <4>2. RowHolds(updated, s.item, other, registry)
        BY <1>3, <1>4, <3>4, <4>1, OtherRowHolds
      <4> QED
        BY <1>5, <3>2, <3>4, <4>2, HoldsOfKey
    <3>5. ASSUME key \notin t.todo \union t.stale
          PROVE  RowHolds(t.row, t.item, key, registry')
      <4>1. spoilt = FALSE
        BY <3>2, <3>5
      <4>2. \/ spoilt
            \/ [row |-> updated, key |-> value] \in setKey(key, s.row, s.item, old, spoilt)
        BY <1>2, <2>3, OverOutcome, Zenon
      <4>3. [row |-> updated, key |-> value] \in setKey(key, s.row, s.item, old, FALSE)
        BY <4>1, <4>2, Zenon
      <4> DEFINE done == [row |-> updated, key |-> value]
      <4>4. done.row = updated /\ registry'[key] = done.key
        BY <1>5
      <4>5. done \in setKey(key, s.row, s.item, old, FALSE)
        BY <4>3
      <4> HIDE DEF done
      <4>6. RowHolds(done.row, s.item, key, registry')
        BY <1>4, <4>4, <4>5, SetterHolds, Zenon
      <4> QED
        BY <3>2, <4>4, <4>6
    <3> QED
      BY <3>1, <3>4, <3>5 DEF Known
  <2>4. CASE q = w /\ ~over
    <3> DEFINE t == Continued(s, old, spoilt)
    <3>1. writer'[q] = t
      BY <1>8, <2>4
    <3>2. /\ t.pc = s.pc /\ t.row = s.row /\ t.item = s.item /\ t.todo = s.todo
          /\ t.stale = s.stale
      BY <1>6, ContinuedFields
    <3>3. key \in s.todo
      BY <1>3, <1>6, AtCall
    <3> HIDE DEF t
    <3>4. ASSUME NEW other \in Key, t.pc # "closed", other \notin t.todo \union t.stale
          PROVE  RowHolds(t.row, t.item, other, registry')
      <4>1. other # key /\ registry'[other] = registry[other]
        BY <1>5, <3>2, <3>3, <3>4
      <4>2. RowHolds(s.row, s.item, other, registry)
        BY <1>7, <3>2, <3>4 DEF Known
      <4> QED
        BY <3>2, <4>1, <4>2, HoldsOfKey
    <3> QED
      BY <3>1, <3>4 DEF Known
  <2> QED
    BY <2>1, <2>2, <2>3, <2>4
<1> QED
  BY <1>9 DEF UndisturbedIsStored, Known, RowHolds, Key

LEMMA InitUndisturbed ==
  ASSUME Init
  PROVE  UndisturbedIsStored
<1>1. \A w \in Writer : writer[w].pc = "closed"
  BY DEF Init, NoProcess
<1> QED
  BY <1>1 DEF UndisturbedIsStored

LEMMA NextKeepsUndisturbed ==
  ASSUME IInv, UndisturbedIsStored, [Next]_vars
  PROVE  UndisturbedIsStored'
<1>1. ASSUME NEW w \in Writer, NEW key \in Key, NEW fails \in BOOLEAN,
             OpenToRead(w, key, fails)
      PROVE  UndisturbedIsStored'
  BY <1>1 DEF OpenToRead, UndisturbedIsStored
<1>6. ASSUME NEW w \in Writer, NEW f \in Field, NEW fails \in BOOLEAN, ReadValue(w, f, fails)
      PROVE  UndisturbedIsStored'
  BY <1>6, ReadKnown
<1>2. ASSUME NEW w \in Writer, NEW change \in Change, Ask(w, change)
      PROVE  UndisturbedIsStored'
  BY <1>2, AskKnown
<1>3. ASSUME NEW w \in Writer, NEW fails \in BOOLEAN, Call(w, fails)
      PROVE  UndisturbedIsStored'
  BY <1>3, CallKnown
<1>4. ASSUME NEW w \in Writer, End(w)
      PROVE  UndisturbedIsStored'
  BY <1>4, EndKnown
<1>5. CASE UNCHANGED vars
  BY <1>5 DEF vars, UndisturbedIsStored
<1> QED
  BY <1>1, <1>2, <1>3, <1>4, <1>5, <1>6 DEF Next

(***************************************************************************)
(* A process's row tells what is stored in each key that no other process  *)
(* changed since the process last read or stored it, and that is what it   *)
(* was last asked for (SetNewDevice, app.go 498-507, and the setters, for  *)
(* any processes, changes and contents of the registry, failing calls and  *)
(* kills included).                                                        *)
(***************************************************************************)
THEOREM UndisturbedIsStoredAlways == Spec => []UndisturbedIsStored
  BY InitUndisturbed, NextKeepsUndisturbed, WritersInvariant, PTL DEF Spec

-----------------------------------------------------------------------------
(***************************************************************************)
(* Masks.  None is missing at first, and no run is asked for the policy    *)
(* for specified processors without one, or for none; a window is refused. *)
(* Then, while no setter and no read was torn, no row, be it complete or   *)
(* still being read, and no settings asked for miss one; so neither does   *)
(* the key, when the last setter of it is over.                            *)
(***************************************************************************)
Masked(row) ==
  row.DevicePolicy = IrqPolicySpecifiedProcessors => row.AssignmentSetOverride # {}

KeyMasked(stored) ==
  StoredPolicy(stored) = IrqPolicySpecifiedProcessors => StoredMask(stored) # {}

MasksStored == \A entry \in InitialEntry : KeyMasked(entry)

MasksGiven ==
  \/ Writer \subseteq Window
  \/ \A change \in Change :
       /\ "AssignmentSetOverride" \in DOMAIN change => change["AssignmentSetOverride"] # {}
       /\ "DevicePolicy" \in DOMAIN change
            /\ change["DevicePolicy"] = IrqPolicySpecifiedProcessors
            => "AssignmentSetOverride" \in DOMAIN change

Careful(s) == s.pc # "closed" => Masked(s.row) /\ Masked(s.item)

CarefulRead(r) == ReadAt["AssignmentSetOverride"] <= r.at => Masked(r.row)

AtRest == \A w \in Writer : ~Mid(writer[w], "affinity")

MaskInv ==
  ~torn => /\ \A w \in Writer : Careful(writer[w])
           /\ \A w \in Writer : CarefulRead(read[w])
           /\ AtRest => KeyMasked(registry)

LEMMA OpenMasked ==
  ASSUME IInv, MaskInv, NEW w \in Writer, NEW key \in Key, NEW fails \in BOOLEAN,
         OpenToRead(w, key, fails)
  PROVE  MaskInv'
<1>1. UNCHANGED <<registry, writer, torn>>
  BY DEF OpenToRead
<1>2. \A q \in Writer : read[q] \in Reading
  BY DEF IInv, TypeOK
<1>3. /\ \A q \in Writer : read'[q].row = read[q].row
      /\ \A q \in Writer : q # w => read'[q] = read[q]
      /\ read'[w].at = read[w].at + 1
  BY <1>2 DEF OpenToRead, IInv, TypeOK, Reading
<1>4. read[w].at + 1 = OpenAt[key] /\ read[w].at \in 0 .. 6
  BY <1>2 DEF OpenToRead, Reading
<1>5. 4 <= read'[w].at => 4 <= read[w].at
  BY <1>3, <1>4, CallPlaces DEF Key
<1>6. (\A q \in Writer : CarefulRead(read[q])) => \A q \in Writer : CarefulRead(read'[q])
  BY <1>3, <1>5, CallPlaces DEF CarefulRead
<1> QED
  BY <1>1, <1>6, Zenon DEF MaskInv, AtRest, Mid, Current, Careful, CarefulRead, KeyMasked, Masked,
                           StoredPolicy, StoredMask

LEMMA ReadMasked ==
  ASSUME IInv, MaskInv, NEW w \in Writer, NEW f \in Field, NEW fails \in BOOLEAN,
         ReadValue(w, f, fails)
  PROVE  MaskInv'
<1>1. PICK row, changed : ReadOf(w, f, row, changed)
  BY ReadNamed
<1> SUFFICES ASSUME ~torn'
             PROVE  /\ \A q \in Writer : Careful(writer'[q])
                    /\ \A q \in Writer : CarefulRead(read'[q])
                    /\ (\A q \in Writer : ~Mid(writer'[q], "affinity")) => KeyMasked(registry')
  BY Zenon DEF MaskInv, AtRest, Mid, Current, Careful, CarefulRead, KeyMasked, Masked,
               StoredPolicy, StoredMask
<1> DEFINE r == read[w]
<1>2. ~torn /\ (f = "AssignmentSetOverride" => "affinity" \notin changed /\ AtRest)
  BY <1>1, Zenon DEF ReadOf, AtRest
<1>3. /\ row \in Settings /\ changed \in SUBSET Key /\ writer[w].pc = "closed"
      /\ r.at + 1 = ReadAt[f] /\ registry' = registry
      /\ \A g \in Field \ {f} : row[g] = r.row[g]
  BY <1>1, Zenon DEF ReadOf
<1>4. /\ \A q \in Writer : Careful(writer[q])
      /\ \A q \in Writer : CarefulRead(read[q])
      /\ AtRest => KeyMasked(registry)
  BY <1>2, Zenon DEF MaskInv
<1>5. r \in Reading /\ r.at \in 0 .. 6
  BY DEF IInv, TypeOK, Reading
<1>6. ASSUME 4 <= ReadAt[f]
      PROVE  Masked(row)
  <2>1. CASE f = "AssignmentSetOverride"
    <3>1. KeyMasked(registry) /\ "affinity" \notin changed
      BY <1>2, <1>4, <2>1
    <3>2. \A g \in {"DevicePolicy", "AssignmentSetOverride"} :
            row[g] = ReadDevice(registry, InterruptTypes)[g]
      BY <1>1, <2>1, <3>1, CallPlaces, Fields DEF ReadOf
    <3>3. /\ row.DevicePolicy = StoredPolicy(registry)
          /\ row.AssignmentSetOverride = StoredMask(registry)
      BY <3>2 DEF ReadDevice
    <3> QED
      BY <3>1, <3>3 DEF KeyMasked, Masked
  <2>2. CASE f # "AssignmentSetOverride"
    <3>1. f # "DevicePolicy" /\ 4 <= r.at
      BY <1>3, <1>5, <1>6, <2>2, CallPlaces, Fields
    <3>2. Masked(r.row)
      BY <1>4, <3>1, CallPlaces DEF CarefulRead
    <3>3. /\ row.DevicePolicy = r.row.DevicePolicy
          /\ row.AssignmentSetOverride = r.row.AssignmentSetOverride
      BY <1>3, <2>2, <3>1, Fields
    <3> QED
      BY <3>2, <3>3 DEF Masked
  <2> QED
    BY <2>1, <2>2
<1>7. CASE ReadAt[f] = LastRead
  <2> DEFINE t == Ready(row, changed)
  <2>0. IsReady(t, row, changed)
    BY <1>3, ReadyFields, Zenon
  <2>1. writer' = [writer EXCEPT ![w] = t] /\ read' = [read EXCEPT ![w] = NoRead]
    BY <1>1, <1>7 DEF ReadOf
  <2> HIDE DEF t
  <2>2. t.row = row /\ t.item = row /\ t.todo = {}
    BY <2>0 DEF IsReady
  <2>3. Masked(row)
    BY <1>6, <1>7, CallPlaces
  <2>4. NoRead.at = 0
    BY DEF NoRead
  <2>5. Careful(t) /\ CarefulRead(NoRead) /\ ~Mid(t, "affinity")
    BY <2>2, <2>3, <2>4, CallPlaces DEF Careful, CarefulRead, Mid
  <2>6. \A q \in Writer : writer'[q] = IF q = w THEN t ELSE writer[q]
    BY <2>1 DEF IInv, TypeOK
  <2>7. \A q \in Writer : read'[q] = IF q = w THEN NoRead ELSE read[q]
    BY <2>1 DEF IInv, TypeOK
  <2>8. ~Mid(writer[w], "affinity")
    <3>1. writer[w] = NoProcess
      BY <1>3 DEF IInv, ProcessOK
    <3> QED
      BY <3>1 DEF NoProcess, Mid
  <2>9. (\A q \in Writer : ~Mid(writer'[q], "affinity")) => AtRest
    BY <2>6, <2>8 DEF AtRest
  <2> QED
    BY <1>3, <1>4, <2>5, <2>6, <2>7, <2>9
<1>8. CASE ReadAt[f] # LastRead
  <2> DEFINE at == r.at + 1
             t  == [r EXCEPT !.at = at, !.row = row, !.changed = changed]
  <2>1. writer' = writer /\ read' = [read EXCEPT ![w] = t]
    BY <1>1, <1>8 DEF ReadOf
  <2>2. at = ReadAt[f]
    BY <1>3
  <2> HIDE DEF at
  <2>3. t.at = at /\ t.row = row
    BY <1>5 DEF Reading
  <2>4. CarefulRead(t)
    BY <1>6, <2>2, <2>3, CallPlaces DEF CarefulRead
  <2> HIDE DEF t
  <2>5. \A q \in Writer : read'[q] = IF q = w THEN t ELSE read[q]
    BY <2>1 DEF IInv, TypeOK
  <2> QED
    BY <1>3, <1>4, <2>1, <2>4, <2>5 DEF AtRest
<1> QED
  BY <1>7, <1>8

LEMMA AskMasked ==
  ASSUME MasksGiven, IInv, MaskInv, NEW w \in Writer, NEW change \in Change, Ask(w, change)
  PROVE  MaskInv'
<1> DEFINE s    == writer[w]
           item == ChangedTo(s.row, change)
           keys == AskedKeys(w, s.row, item, change)
           pc   == IF keys # {} THEN "storing" ELSE IF w \in Window THEN "ready" ELSE "done"
           t    == [s EXCEPT !.item = item, !.todo = keys, !.pc = pc]
<1>1. s \in Process /\ s.pc = "ready" /\ s.at = 1 /\ s.row \in Settings
  BY DEF IInv, TypeOK, Ask, ProcessOK
<1>2. writer' = [writer EXCEPT ![w] = t] /\ UNCHANGED <<registry, read, torn>>
  <2>1. [writer EXCEPT ![w].item = item, ![w].todo = keys, ![w].pc = pc]
          = [writer EXCEPT ![w] = t]
    BY <1>1 DEF IInv, TypeOK, Process
  <2> QED
    BY <2>1, Zenon DEF Ask
<1>3. ASSUME Masked(s.row)
      PROVE  Masked(item)
  <2>1. /\ item.DevicePolicy = IF "DevicePolicy" \in DOMAIN change
                               THEN change["DevicePolicy"] ELSE s.row.DevicePolicy
        /\ item.AssignmentSetOverride = IF "AssignmentSetOverride" \in DOMAIN change
                                        THEN change["AssignmentSetOverride"]
                                        ELSE s.row.AssignmentSetOverride
    BY DEF ChangedTo, Field, FieldValues
  <2>2. CASE w \in Window
    <3>1. MaskValue(item) # {}
      BY <2>2 DEF Ask
    <3> QED
      BY <3>1 DEF MaskValue, Masked
  <2>3. CASE w \notin Window
    <3>1. /\ "AssignmentSetOverride" \in DOMAIN change => change["AssignmentSetOverride"] # {}
          /\ "DevicePolicy" \in DOMAIN change
               /\ change["DevicePolicy"] = IrqPolicySpecifiedProcessors
               => "AssignmentSetOverride" \in DOMAIN change
      BY <2>3 DEF MasksGiven
    <3> HIDE DEF item
    <3> QED
      BY <1>3, <2>1, <3>1 DEF Masked
  <2> QED
    BY <2>2, <2>3
<1> HIDE DEF item, keys, pc
<1>4. t.row = s.row /\ t.item = item /\ t.at = 1
  BY <1>1 DEF Process
<1> HIDE DEF t
<1>5. Careful(s) => Careful(t)
  BY <1>1, <1>3, <1>4 DEF Careful
<1>6. \A q \in Writer : writer'[q] = IF q = w THEN t ELSE writer[q]
  BY <1>2 DEF IInv, TypeOK
<1>7. ~Mid(s, "affinity")
  BY <1>1 DEF Mid
<1>8. AtRest' => AtRest
  BY <1>6, <1>7 DEF AtRest
<1>9. (\A q \in Writer : Careful(writer[q])) => \A q \in Writer : Careful(writer'[q])
  BY <1>5, <1>6
<1> QED
  BY <1>2, <1>8, <1>9, Zenon DEF MaskInv, Careful, CarefulRead, KeyMasked, Masked, StoredPolicy,
                                 StoredMask

LEMMA EndMasked ==
  ASSUME IInv, MaskInv, NEW w \in Writer, End(w)
  PROVE  MaskInv'
<1>1. ~torn' => ~torn /\ ~Mid(writer[w], "affinity")
  BY Zenon DEF End
<1>2. writer' = [writer EXCEPT ![w] = NoProcess] /\ registry' = registry
  BY DEF End
<1>3. Careful(NoProcess)
  BY DEF NoProcess, Careful
<1>4. \A q \in Writer : writer'[q] = IF q = w THEN NoProcess ELSE writer[q]
  BY <1>2 DEF IInv, TypeOK
<1>5. ~Mid(writer[w], "affinity") => (AtRest' => AtRest)
  BY <1>4 DEF AtRest
<1>6. (\A q \in Writer : Careful(writer[q])) => \A q \in Writer : Careful(writer'[q])
  BY <1>3, <1>4
<1>7. CarefulRead(NoRead)
  BY CallPlaces DEF NoRead, CarefulRead
<1>8. \A q \in Writer : read'[q] = IF q = w THEN NoRead ELSE read[q]
  BY DEF End, IInv, TypeOK
<1>9. (\A q \in Writer : CarefulRead(read[q])) => \A q \in Writer : CarefulRead(read'[q])
  BY <1>7, <1>8
<1> QED
  BY <1>1, <1>2, <1>5, <1>6, <1>9, Zenon
     DEF MaskInv, Careful, CarefulRead, KeyMasked, Masked, StoredPolicy, StoredMask

\* The setter of either key leaves a row masked that was asked for one.
LEMMA RowAfterMasked ==
  ASSUME NEW key \in Key, NEW row \in Settings, NEW item \in Settings, Masked(row), Masked(item)
  PROVE  Masked(RowAfter(key, row, item))
<1> DEFINE after == RowAfter(key, row, item)
           mask  == MaskOf(item)
<1>1. CASE key = "affinity"
  <2>1. after = [row EXCEPT !.DevicePolicy = item.DevicePolicy,
                            !.DevicePriority = item.DevicePriority,
                            !.AssignmentSetOverride = mask]
    BY <1>1 DEF RowAfter
  <2>2. item.DevicePolicy = IrqPolicySpecifiedProcessors => mask # {}
    BY DEF Masked, MaskOf
  <2> HIDE DEF mask, after
  <2>3. after.DevicePolicy = item.DevicePolicy /\ after.AssignmentSetOverride = mask
    BY <2>1 DEF Settings
  <2>4. Masked(after)
    BY <2>2, <2>3 DEF Masked
  <2> QED
    BY <2>4 DEF after
<1>2. CASE key = "msi"
  <2>1. \/ after = [row EXCEPT !.MsiSupported = MSI_Off]
        \/ after = [row EXCEPT !.MsiSupported = item.MsiSupported,
                               !.MessageNumberLimit = item.MessageNumberLimit]
    BY <1>2 DEF RowAfter
  <2> HIDE DEF after
  <2>2. /\ after.DevicePolicy = row.DevicePolicy
        /\ after.AssignmentSetOverride = row.AssignmentSetOverride
    BY <2>1 DEF Settings
  <2>3. Masked(after)
    BY <2>2 DEF Masked
  <2> QED
    BY <2>3 DEF after
<1> QED
  BY <1>1, <1>2 DEF Key

LEMMA CallMasked ==
  ASSUME IInv, MaskInv, UndisturbedIsStored',
         NEW w \in Writer, NEW fails \in BOOLEAN, Call(w, fails)
  PROVE  MaskInv'
<1>1. PICK key, value, old, updated : \E refused, spoilt, over \in BOOLEAN :
        CallOf(w, fails, key, refused, value, old, spoilt, updated, over)
  BY CallNamed
<1>2. PICK refused \in BOOLEAN, spoilt \in BOOLEAN, over \in BOOLEAN :
        CallOf(w, fails, key, refused, value, old, spoilt, updated, over)
  BY <1>1
<1> SUFFICES ASSUME ~torn'
             PROVE  /\ \A q \in Writer : Careful(writer'[q])
                    /\ \A q \in Writer : CarefulRead(read'[q])
                    /\ (\A q \in Writer : ~Mid(writer'[q], "affinity")) => KeyMasked(registry')
  BY Zenon DEF MaskInv, AtRest, Mid, Current, Careful, CarefulRead, KeyMasked, Masked,
               StoredPolicy, StoredMask
<1> DEFINE s == writer[w]
<1>3. ~torn /\ ~(over /\ spoilt /\ key = "affinity")
  BY <1>2, Zenon DEF CallOf
<1>4. /\ key = Current(s) /\ s.todo # {}
      /\ updated = s.row \/ updated = RowAfter(key, s.row, s.item)
      /\ registry' = [registry EXCEPT ![key] = value]
  BY <1>2 DEF CallOf, Finds
<1>5. key \in Key /\ s.row \in Settings /\ s.item \in Settings
  <2>1. CallFound(w, key, refused, value, old, spoilt, updated)
    BY <1>2, CallFacts, Zenon
  <2> QED
    BY <2>1, Zenon DEF CallFound
<1>6. \A q \in Writer : writer[q] \in Process /\ ProcessOK(writer[q], registry)
  BY DEF IInv, TypeOK
<1>7. writer' = [q \in Writer |->
           IF q # w
           THEN IF value # registry[key] THEN Disturbed(writer[q], key, value) ELSE writer[q]
           ELSE IF over THEN AfterSetter(w, s, key, updated, spoilt)
           ELSE Continued(s, old, spoilt)]
  BY <1>2, Zenon DEF CallOf
<1>8. /\ \A q \in Writer : Careful(writer[q])
      /\ \A q \in Writer : CarefulRead(read[q])
      /\ AtRest => KeyMasked(registry)
  BY <1>3, Zenon DEF MaskInv
<1>9. ASSUME NEW q \in Writer, q # w
      PROVE  /\ writer'[q].pc = writer[q].pc /\ writer'[q].row = writer[q].row
             /\ writer'[q].item = writer[q].item /\ writer'[q].todo = writer[q].todo
             /\ writer'[q].at = writer[q].at
  <2>1. IsDisturbed(writer[q], key, value, Disturbed(writer[q], key, value))
    BY <1>6, DisturbedFields, Zenon
  <2>2. writer'[q] = writer[q] \/ writer'[q] = Disturbed(writer[q], key, value)
    BY <1>7, <1>9
  <2> QED
    BY <2>1, <2>2 DEF IsDisturbed
<1>10. over => /\ writer'[w].row = updated /\ writer'[w].item = s.item
               /\ writer'[w].todo = s.todo \ {key} /\ writer'[w].pc # "closed"
               /\ ~spoilt => writer'[w].stale = s.stale \ {key}
  <2>1. IsOver(s, key, updated, spoilt, AfterSetter(w, s, key, updated, spoilt))
    BY <1>6, AfterSetterFields, Zenon
  <2>2. over => writer'[w] = AfterSetter(w, s, key, updated, spoilt)
    BY <1>7
  <2> QED
    BY <2>1, <2>2 DEF IsOver
<1>11. ~over => /\ writer'[w].pc = s.pc /\ writer'[w].row = s.row /\ writer'[w].item = s.item
                /\ writer'[w].todo = s.todo /\ writer'[w].at = s.at + 1
  <2>1. ~over => writer'[w] = Continued(s, old, spoilt)
    BY <1>7
  <2> QED
    BY <1>6, <2>1, ContinuedFields
<1>12. Masked(s.row) /\ Masked(s.item)
  <2>1. s.pc # "closed"
    BY <1>4, <1>6 DEF ProcessOK
  <2> QED
    BY <1>8, <2>1 DEF Careful
<1>13. s.at \in 1 .. 4
  BY <1>6 DEF Process
<1> HIDE DEF s
<1>14. ASSUME NEW q \in Writer
       PROVE  Careful(writer'[q])
  <2>1. CASE q # w
    BY <1>8, <1>9, <2>1 DEF Careful
  <2>2. CASE q = w
    <3>1. Masked(updated)
      BY <1>4, <1>5, <1>12, RowAfterMasked
    <3> QED
      BY <1>10, <1>11, <1>12, <2>2, <3>1 DEF Careful
  <2> QED
    BY <2>1, <2>2
<1>15. ASSUME \A q \in Writer : ~Mid(writer'[q], "affinity")
       PROVE  KeyMasked(registry')
  <2>1. \A q \in Writer : q # w => ~Mid(writer[q], "affinity")
    BY <1>9, <1>15 DEF Mid, Current
  <2>2. CASE key = "msi"
    <3>1. ~Mid(s, "affinity")
      BY <1>4, <2>2 DEF Mid
    <3>2. KeyMasked(registry)
      BY <1>8, <2>1, <3>1 DEF AtRest, s
    <3>3. registry'.affinity = registry.affinity
      BY <1>4, <2>2 DEF IInv, TypeOK, Entry
    <3> QED
      BY <3>2, <3>3 DEF KeyMasked, StoredPolicy, StoredMask
  <2>3. CASE key = "affinity"
    <3>1. over
      <4>1. ~over => Mid(writer'[w], "affinity")
        BY <1>4, <1>11, <1>13, <2>3 DEF Mid, Current
      <4> QED
        BY <1>15, <4>1
    <3>2. ~spoilt
      BY <1>3, <2>3, <3>1
    <3>3. writer'[w].pc # "closed" /\ "affinity" \notin writer'[w].todo \union writer'[w].stale
      BY <1>10, <2>3, <3>1, <3>2
    <3>4. HoldsAffinity(registry', writer'[w].item)
      BY <3>3, Zenon DEF UndisturbedIsStored, HoldsAffinity, AffinityAgrees, StoredPolicy,
                         StoredPriority, StoredMask
    <3> QED
      BY <1>10, <1>12, <3>1, <3>4 DEF HoldsAffinity, Masked, KeyMasked
  <2> QED
    BY <1>5, <2>2, <2>3 DEF Key
<1>16. ASSUME NEW q \in Writer
       PROVE  CarefulRead(read'[q])
  <2>1. read[q] \in Reading
    BY DEF IInv, TypeOK
  <2>2. /\ DisturbedRead(read[q], key, value).row = read[q].row
        /\ DisturbedRead(read[q], key, value).at = read[q].at
    BY <2>1 DEF DisturbedRead, Reading
  <2>3. read' = [p \in Writer |->
          IF value # registry[key] THEN DisturbedRead(read[p], key, value) ELSE read[p]]
    BY <1>2, Zenon DEF CallOf
  <2>4. read'[q].row = read[q].row /\ read'[q].at = read[q].at
    BY <2>2, <2>3
  <2> QED
    BY <1>8, <2>4 DEF CarefulRead
<1> QED
  BY <1>14, <1>15, <1>16

LEMMA InitMasked ==
  ASSUME MasksStored, Init
  PROVE  MaskInv
<1>1. KeyMasked(registry)
  BY DEF Init, MasksStored
<1>2. \A w \in Writer : Careful(writer[w])
  BY DEF Init, NoProcess, Careful
<1>3. \A w \in Writer : CarefulRead(read[w])
  BY CallPlaces DEF Init, NoRead, CarefulRead
<1> QED
  BY <1>1, <1>2, <1>3, Zenon DEF MaskInv

LEMMA NextMasked ==
  ASSUME MasksGiven, IInv, UndisturbedIsStored', MaskInv, [Next]_vars
  PROVE  MaskInv'
<1>1. CASE UNCHANGED vars
  BY <1>1, Zenon DEF vars, MaskInv, AtRest, Mid, Current, Careful, CarefulRead, KeyMasked,
                     Masked, StoredPolicy, StoredMask
<1> QED
  BY <1>1, OpenMasked, ReadMasked, AskMasked, CallMasked, EndMasked DEF Next

LEMMA MaskInvEnough ==
  MaskInv => MaskUnlessTorn
  BY Zenon DEF MaskInv, MaskUnlessTorn, AtRest, KeyMasked

(***************************************************************************)
(* A policy for specified processors is never stored without a mask that   *)
(* names one, while no setter of the key is under way and no setter and no *)
(* read of it was torn, for any processes, whatever stale rows they store, *)
(* if the runs among them are given a mask with each such policy           *)
(* (setAffinityPolicy, reg.go 112-133, FindAllDevices, winapi.go 122-131,  *)
(* and the dialog's check, dialog.go 523).                                 *)
(***************************************************************************)
THEOREM MaskUnlessTornAlways ==
  ASSUME MasksStored, MasksGiven
  PROVE  Spec => []MaskUnlessTorn
<1>1. Init => MaskInv
  BY InitMasked
<1>2. IInv /\ UndisturbedIsStored' /\ MaskInv /\ [Next]_vars => MaskInv'
  BY NextMasked
<1> QED
  BY <1>1, <1>2, MaskInvEnough, WritersInvariant, UndisturbedIsStoredAlways, PTL DEF Spec

-----------------------------------------------------------------------------
(***************************************************************************)
(* The steps of SettingsStore, as Store(w) takes them over the state of    *)
(* one process.  Its operators are those of DeviceSettings.                *)
(***************************************************************************)
LEMMA SameRead ==
  ASSUME NEW w, NEW entry, NEW types
  PROVE  Store(w)!ReadDevice(entry, types) = ReadDevice(entry, types)
  BY DEF Store!ReadDevice, ReadDevice, Store!AffinityValues, AffinityValues,
         Store!MsiValues, MsiValues, Store!StoredPolicy, StoredPolicy,
         Store!StoredPriority, StoredPriority, Store!StoredMask, StoredMask,
         Store!StoredMsi, StoredMsi, Store!StoredLimit, StoredLimit, Store!ValueOr, ValueOr,
         Store!NewMsiKey, NewMsiKey, Store!NewAffinityKey, NewAffinityKey,
         Store!MSI_Off, MSI_Off, Store!MSI_Invalid, MSI_Invalid

LEMMA SameSetMsi ==
  ASSUME NEW w, NEW row, NEW item, NEW k, NEW fault \in BOOLEAN
  PROVE  Store(w)!setMSIMode(row, item, k, fault) = setMSIMode(row, item, k, fault)
  BY DEF Store!setMSIMode, setMSIMode, Store!Written, Written, Store!Refused, Refused,
         Store!MsiValues, MsiValues, Store!LimitValue, LimitValue, Store!NewMsiKey, NewMsiKey,
         Store!MSI_Off, MSI_Off, Store!MSI_On, MSI_On

LEMMA SameSetAffinity ==
  ASSUME NEW w, NEW row, NEW item, NEW k, NEW fault \in BOOLEAN
  PROVE  Store(w)!setAffinityPolicy(row, item, k, fault) = setAffinityPolicy(row, item, k, fault)
  BY DEF Store!setAffinityPolicy, setAffinityPolicy, Store!Written, Written,
         Store!Refused, Refused, Store!AffinityValues, AffinityValues,
         Store!NoAffinity, NoAffinity, Store!MaskOf, MaskOf, Store!NewAffinityKey, NewAffinityKey,
         Store!IrqPolicySpecifiedProcessors, IrqPolicySpecifiedProcessors

LEMMA SameAgrees ==
  ASSUME NEW w, NEW row, NEW entry
  PROVE  Store(w)!AffinityAgrees(row, entry) = AffinityAgrees(row, entry)
  BY DEF Store!AffinityAgrees, AffinityAgrees, Store!AffinityValues, AffinityValues,
         Store!StoredPolicy, StoredPolicy, Store!StoredPriority, StoredPriority,
         Store!StoredMask, StoredMask, Store!ValueOr, ValueOr,
         Store!NewAffinityKey, NewAffinityKey

LEMMA SameTypes ==
  ASSUME NEW w
  PROVE  /\ Store(w)!Settings = Settings /\ Store(w)!AffinityKey = AffinityKey
         /\ Store(w)!MSI_Off = MSI_Off /\ Store(w)!MSI_On = MSI_On
  BY DEF Store!Settings, Settings, Store!AffinityKey, AffinityKey,
         Store!AffinityValue, AffinityValue, Store!MSI_Off, MSI_Off, Store!MSI_On, MSI_On,
         Store!MSI_Invalid, MSI_Invalid, Store!MSI_Tristate, MSI_Tristate

\* Settled, of any process and registry.
InSettled(s, stored) ==
  [affinity |-> IF Mid(s, "affinity") THEN s.before ELSE stored.affinity,
   msi      |-> IF Mid(s, "msi") THEN s.before ELSE stored.msi]

LEMMA SettledNow ==
  ASSUME NEW w
  PROVE  /\ Settled(writer[w]) = InSettled(writer[w], registry)
         /\ Settled(writer[w])' = InSettled(writer'[w], registry')
  BY DEF Settled, InSettled, Mid, Current

LEMMA StoreUnchanged ==
  ASSUME NEW w, InSettled(writer'[w], registry') = InSettled(writer[w], registry),
         writer'[w].row = writer[w].row, writer'[w].item = writer[w].item,
         writer'[w].stale = writer[w].stale
  PROVE  [Store(w)!Next]_(Store(w)!vars)
<1>1. Settled(writer[w])' = Settled(writer[w])
  BY SettledNow
<1> QED
  BY <1>1 DEF Store!vars

LEMMA StoreLaunch ==
  ASSUME NEW w, InSettled(writer'[w], registry') = InSettled(writer[w], registry),
         writer[w].row = Closed, writer'[w].row \in Settings,
         writer'[w].stale \in SUBSET Key,
         RowRead(writer'[w].row, writer'[w].stale, InSettled(writer[w], registry)),
         writer'[w].item = writer'[w].row
  PROVE  Store(w)!Next
<1> DEFINE store == Settled(writer[w])
           found == ReadDevice(store, InterruptTypes)
           row   == writer'[w].row
           keys  == writer'[w].stale
<1>1. Settled(writer[w])' = store
  BY SettledNow
<1>2. \A g \in Field : KeyOf(g) \notin keys => row[g] = found[g]
  BY SettledNow DEF RowRead
<1>3. Store(w)!ReadDevice(store, InterruptTypes) = found
  BY SameRead
<1>4. "affinity" \notin keys => AffinityAgrees(row, store)
  <2>1. /\ found.DevicePolicy = StoredPolicy(store) /\ found.DevicePriority = StoredPriority(store)
        /\ found.AssignmentSetOverride = StoredMask(store)
    BY DEF ReadDevice
  <2> HIDE DEF found, store, row, keys
  <2> QED
    BY <1>2, <2>1, Fields DEF AffinityAgrees
<1>5. "msi" \notin keys => /\ row.MsiSupported = found.MsiSupported
                           /\ row.MessageNumberLimit = found.MessageNumberLimit
  <2> HIDE DEF found, store, row, keys
  <2> QED
    BY <1>2, Fields
<1>6. Store(w)!AffinityAgrees(row, store) = AffinityAgrees(row, store)
  BY SameAgrees
<1>7. keys \in SUBSET {"msi", "affinity"} /\ row \in Store(w)!Settings
  BY SameTypes DEF Key
<1>8. Store(w)!Launch
  BY <1>1, <1>3, <1>4, <1>5, <1>6, <1>7 DEF Store!Launch
<1> QED
  BY <1>8 DEF Store!Next

LEMMA StoreAsk ==
  ASSUME NEW w, InSettled(writer'[w], registry') = InSettled(writer[w], registry),
         writer[w].row # Closed, writer'[w].row = writer[w].row, writer'[w].item \in Settings,
         writer'[w].stale = writer[w].stale
  PROVE  Store(w)!Next
<1>1. Settled(writer[w])' = Settled(writer[w])
  BY SettledNow
<1>2. Store(w)!Ask
  BY <1>1, SameTypes DEF Store!Ask
<1> QED
  BY <1>2 DEF Store!Next

LEMMA StoreSetter ==
  ASSUME NEW w, NEW key \in Key, NEW fault \in BOOLEAN,
         writer[w].row # Closed, writer[w].item \in Settings, Calls(key, writer[w].item) # <<>>,
         NEW old, old = InSettled(writer[w], registry)[key],
         NEW done \in setKey(key, writer[w].row, writer[w].item, old, fault),
         writer'[w].row = done.row, writer'[w].item = writer[w].item,
         InSettled(writer'[w], registry') = [InSettled(writer[w], registry) EXCEPT ![key] = done.key],
         fault => writer'[w].stale = writer[w].stale \union {key},
         ~fault => writer'[w].stale = writer[w].stale \ {key}
  PROVE  Store(w)!Next
<1>1. CASE key = "msi"
  <2>1. writer[w].item.MsiSupported \in {Store(w)!MSI_Off, Store(w)!MSI_On}
    BY <1>1, CallsShape, SameTypes
  <2>2. done \in Store(w)!setMSIMode(writer[w].row, writer[w].item, Settled(writer[w]).msi, fault)
    BY <1>1, SettledNow, SameSetMsi DEF setKey
  <2>3. Settled(writer[w])' = [Settled(writer[w]) EXCEPT !.msi = done.key]
    BY <1>1, SettledNow
  <2>4. writer'[w].stale = Store(w)!FailedAfter("msi", fault)
    BY <1>1 DEF Store!FailedAfter
  <2>5. Store(w)!StoreMsi(fault)
    BY <2>1, <2>2, <2>3, <2>4 DEF Store!StoreMsi
  <2> QED
    BY <2>5 DEF Store!Next
<1>2. CASE key = "affinity"
  <2>1. key # "msi"
    BY <1>2
  <2>2. done \in Store(w)!setAffinityPolicy(writer[w].row, writer[w].item,
                                            Settled(writer[w]).affinity, fault)
    BY <1>2, <2>1, SettledNow, SameSetAffinity DEF setKey
  <2>3. Settled(writer[w])' = [Settled(writer[w]) EXCEPT !.affinity = done.key]
    BY <1>2, SettledNow
  <2>4. writer'[w].stale = Store(w)!FailedAfter("affinity", fault)
    BY <1>2 DEF Store!FailedAfter
  <2>5. Store(w)!StoreAffinity(fault)
    BY <2>2, <2>3, <2>4 DEF Store!StoreAffinity
  <2> QED
    BY <2>5 DEF Store!Next
<1> QED
  BY <1>1, <1>2 DEF Key

LEMMA SetMsiOfStore ==
  ASSUME NEW w, NEW row, NEW item, NEW k, k = Settled(writer[w]).msi, NEW fault \in BOOLEAN,
         NEW done \in setMSIMode(row, item, k, fault)
  PROVE  done \in Store(w)!setMSIMode(row, item, Settled(writer[w]).msi, fault)
  BY SameSetMsi

LEMMA SetAffinityOfStore ==
  ASSUME NEW w, NEW row, NEW item, NEW k, k = Settled(writer[w]).affinity, NEW fault \in BOOLEAN,
         NEW done \in setAffinityPolicy(row, item, k, fault)
  PROVE  done \in Store(w)!setAffinityPolicy(row, item, Settled(writer[w]).affinity, fault)
  BY SameSetAffinity

LEMMA StoreOvertaken ==
  ASSUME NEW w, NEW key \in Key, writer[w].row # Closed,
         InSettled(writer[w], registry)[key] = Absent,
         NEW done \in setKey(key, writer[w].row, writer[w].item, Absent, TRUE),
         writer'[w].row = done.row, writer'[w].item = writer[w].item,
         InSettled(writer'[w], registry') = InSettled(writer[w], registry),
         writer'[w].stale = writer[w].stale \union {key}
  PROVE  Store(w)!Next
<1>0. TRUE \in BOOLEAN /\ Settled(writer[w])' = Settled(writer[w])
  BY SettledNow
<1>1. CASE key = "msi"
  <2>1. Absent = Settled(writer[w]).msi
    BY <1>1, SettledNow
  <2>2. done \in setMSIMode(writer[w].row, writer[w].item, Absent, TRUE)
    BY <1>1, Zenon DEF setKey
  <2>3. done \in Store(w)!setMSIMode(writer[w].row, writer[w].item, Settled(writer[w]).msi, TRUE)
    BY <1>0, <2>1, <2>2, SetMsiOfStore, Zenon
  <2>4. Store(w)!OvertakenMsi
    BY <1>0, <1>1, <2>1, <2>3 DEF Store!OvertakenMsi
  <2> QED
    BY <2>4 DEF Store!Next
<1>2. CASE key = "affinity"
  <2>0. key # "msi"
    BY <1>2
  <2>1. Absent = Settled(writer[w]).affinity
    BY <1>2, SettledNow
  <2>2. done \in setAffinityPolicy(writer[w].row, writer[w].item, Absent, TRUE)
    BY <2>0, Zenon DEF setKey
  <2>3. done \in Store(w)!setAffinityPolicy(writer[w].row, writer[w].item,
                                            Settled(writer[w]).affinity, TRUE)
    BY <1>0, <2>1, <2>2, SetAffinityOfStore, Zenon
  <2>4. Store(w)!OvertakenAffinity
    BY <1>0, <1>2, <2>1, <2>3 DEF Store!OvertakenAffinity
  <2> QED
    BY <2>4 DEF Store!Next
<1> QED
  BY <1>1, <1>2 DEF Key

\* Another process changed the key.
LEMMA StoreOthers ==
  ASSUME NEW w, NEW key \in Key, NEW value \in KeyType(key), registry \in Entry,
         InSettled(writer[w], registry) \in Entry,
         InSettled(writer'[w], registry') = [InSettled(writer[w], registry) EXCEPT ![key] = value],
         writer'[w].row = writer[w].row, writer'[w].item = writer[w].item,
         writer[w].row = Closed => writer'[w].stale = {},
         writer[w].row # Closed => writer'[w].stale = writer[w].stale \union {key}
  PROVE  Store(w)!Next
<1> DEFINE Entries == [affinity : AffinityKey,
                       msi : {Absent} \union [MSISupported : {Absent} \union Nat,
                                              MessageNumberLimit : {Absent} \union Nat]]
           new == [InSettled(writer[w], registry) EXCEPT ![key] = value]
<1>1. MsiKey \subseteq {Absent} \union [MSISupported : {Absent} \union Nat,
                                        MessageNumberLimit : {Absent} \union Nat]
  BY DEF MsiKey, MsiValue, MSI_Off, MSI_On
<1>2. new \in Entry
  BY EntryKeys
<1>3. new \in Entries
  BY <1>1, <1>2 DEF Entry
<1>4. /\ key # "msi" => new.msi = InSettled(writer[w], registry).msi
      /\ key # "affinity" => new.affinity = InSettled(writer[w], registry).affinity
  BY DEF InSettled
<1> HIDE DEF new
<1>5. Settled(writer[w])' = new
  BY SettledNow DEF new
<1>6. {key} \in SUBSET {"msi", "affinity"}
  BY DEF Key
<1>7. /\ "msi" \notin {key} => Settled(writer[w])'.msi = Settled(writer[w]).msi
      /\ "affinity" \notin {key} => Settled(writer[w])'.affinity = Settled(writer[w]).affinity
  BY <1>4, <1>5, SettledNow
<1>8. writer'[w].stale = IF writer[w].row = Closed THEN {} ELSE writer[w].stale \union {key}
  OBVIOUS
<1>9. Settled(writer[w])' \in [affinity : Store(w)!AffinityKey,
                               msi : {Absent} \union [MSISupported : {Absent} \union Nat,
                                                      MessageNumberLimit : {Absent} \union Nat]]
  BY <1>3, <1>5, SameTypes
<1>10. Store(w)!Others
  BY <1>6, <1>7, <1>8, <1>9 DEF Store!Others
<1> QED
  BY <1>10 DEF Store!Next

LEMMA StoreExit ==
  ASSUME NEW w, InSettled(writer'[w], registry') = InSettled(writer[w], registry),
         writer[w].row # Closed, writer'[w] = NoProcess
  PROVE  Store(w)!Next
<1>1. Settled(writer[w])' = Settled(writer[w])
  BY SettledNow
<1>2. writer'[w].row = Closed /\ writer'[w].item = Closed /\ writer'[w].stale = {}
  BY DEF NoProcess
<1>3. Store(w)!Exit
  BY <1>1, <1>2 DEF Store!Exit, Store!Leave
<1> QED
  BY <1>3 DEF Store!Next

LEMMA StoreKilled ==
  ASSUME NEW w, NEW key \in Key, writer[w].row # Closed,
         writer'[w] = NoProcess,
         NEW old, old = InSettled(writer[w], registry)[key],
         NEW done \in setKey(key, writer[w].row, writer[w].item, old, TRUE),
         InSettled(writer'[w], registry') = [InSettled(writer[w], registry) EXCEPT ![key] = done.key]
  PROVE  Store(w)!Next
<1>0. TRUE \in BOOLEAN
  OBVIOUS
<1>1. writer'[w].row = Closed /\ writer'[w].item = Closed /\ writer'[w].stale = {}
  BY DEF NoProcess
<1>2. CASE key = "msi"
  <2>1. done \in setMSIMode(writer[w].row, writer[w].item, old, TRUE)
    BY <1>2, Zenon DEF setKey
  <2>2. old = Settled(writer[w]).msi
    BY <1>2, SettledNow
  <2>3. done \in Store(w)!setMSIMode(writer[w].row, writer[w].item, Settled(writer[w]).msi, TRUE)
    BY <1>0, <2>1, <2>2, SetMsiOfStore, Zenon
  <2>4. Settled(writer[w])' = [Settled(writer[w]) EXCEPT !.msi = done.key]
    BY <1>2, SettledNow
  <2>5. Store(w)!Killed
    BY <1>1, <2>3, <2>4 DEF Store!Killed, Store!Leave
  <2> QED
    BY <2>5 DEF Store!Next
<1>3. CASE key = "affinity"
  <2>0. key # "msi"
    BY <1>3
  <2>1. done \in setAffinityPolicy(writer[w].row, writer[w].item, old, TRUE)
    BY <2>0, Zenon DEF setKey
  <2>2. old = Settled(writer[w]).affinity
    BY <1>3, SettledNow
  <2>3. done \in Store(w)!setAffinityPolicy(writer[w].row, writer[w].item,
                                            Settled(writer[w]).affinity, TRUE)
    BY <1>0, <2>1, <2>2, SetAffinityOfStore, Zenon
  <2>4. Settled(writer[w])' = [Settled(writer[w]) EXCEPT !.affinity = done.key]
    BY <1>3, SettledNow
  <2>5. Store(w)!Killed
    BY <1>1, <2>3, <2>4 DEF Store!Killed, Store!Leave
  <2> QED
    BY <2>5 DEF Store!Next
<1> QED
  BY <1>2, <1>3 DEF Key
-----------------------------------------------------------------------------
(***************************************************************************)
(* What is settled for a process before and after each of its steps, and   *)
(* the step of SettingsStore it makes of them.                             *)
(***************************************************************************)
LEMMA SettledAtRest ==
  ASSUME NEW s, NEW stored \in Entry, s.todo = {} \/ s.at = 1
  PROVE  InSettled(s, stored) = stored
<1>1. ~Mid(s, "affinity") /\ ~Mid(s, "msi")
  BY DEF Mid
<1> QED
  BY <1>1 DEF InSettled, Entry

\* One of the two keys takes another value.
WithKey(stored, key, value) == [stored EXCEPT ![key] = value]

LEMMA KeyChanged ==
  ASSUME NEW stored \in Entry, NEW key, NEW value
  PROVE  /\ key = "msi" => [stored EXCEPT ![key] = value]
                             = [affinity |-> stored.affinity, msi |-> value]
         /\ key = "affinity" => [stored EXCEPT ![key] = value]
                                  = [affinity |-> value, msi |-> stored.msi]
<1> DEFINE a == stored.affinity
           m == stored.msi
           s == [affinity |-> a, msi |-> m]
<1>1. stored = s
  BY DEF Entry
<1> HIDE DEF a, m
<1>2. \A k : /\ k = "msi" => [s EXCEPT ![k] = value] = [affinity |-> a, msi |-> value]
             /\ k = "affinity" => [s EXCEPT ![k] = value] = [affinity |-> value, msi |-> m]
  OBVIOUS
<1> HIDE DEF s
<1>3. /\ key = "msi" => [stored EXCEPT ![key] = value] = [affinity |-> a, msi |-> value]
      /\ key = "affinity" => [stored EXCEPT ![key] = value] = [affinity |-> value, msi |-> m]
  BY <1>1, <1>2, Zenon
<1> QED
  BY <1>3, Zenon DEF a, m

LEMMA SettledAtCall ==
  ASSUME NEW s, NEW stored \in Entry, s.todo # {}, s.at \in Nat, s.at # 0,
         NEW old, s.at = 1 => old = stored[Current(s)], s.at # 1 => old = s.before
  PROVE  /\ InSettled(s, stored) = WithKey(stored, Current(s), old)
         /\ InSettled(s, stored)[Current(s)] = old
<1> DEFINE key == Current(s)
<1>1. key \in Key
  BY DEF Current, Key
<1>2. \A k \in Key : Mid(s, k) <=> (k = key /\ s.at # 1)
  BY DEF Mid
<1> HIDE DEF key
<1>3. CASE key = "msi"
  <2>1. ~Mid(s, "affinity") /\ (Mid(s, "msi") <=> s.at # 1)
    BY <1>2, <1>3 DEF Key
  <2>2. old = IF s.at = 1 THEN stored.msi ELSE s.before
    BY <1>3 DEF key
  <2>3. InSettled(s, stored) = [affinity |-> stored.affinity, msi |-> old]
    BY <2>1, <2>2 DEF InSettled
  <2>4. [stored EXCEPT ![key] = old] = [affinity |-> stored.affinity, msi |-> old]
    BY <1>3, KeyChanged, Zenon
  <2>5. [affinity |-> stored.affinity, msi |-> old]["msi"] = old
    OBVIOUS
  <2> QED
    BY <1>3, <2>3, <2>4, <2>5, Zenon DEF WithKey, key
<1>4. CASE key = "affinity"
  <2>1. ~Mid(s, "msi") /\ (Mid(s, "affinity") <=> s.at # 1)
    BY <1>2, <1>4 DEF Key
  <2>2. old = IF s.at = 1 THEN stored.affinity ELSE s.before
    BY <1>4 DEF key
  <2>3. InSettled(s, stored) = [affinity |-> old, msi |-> stored.msi]
    BY <2>1, <2>2 DEF InSettled
  <2>4. [stored EXCEPT ![key] = old] = [affinity |-> old, msi |-> stored.msi]
    BY <1>4, KeyChanged, Zenon
  <2>5. [affinity |-> old, msi |-> stored.msi]["affinity"] = old
    OBVIOUS
  <2> QED
    BY <1>4, <2>3, <2>4, <2>5, Zenon DEF WithKey, key
<1> QED
  BY <1>1, <1>3, <1>4 DEF Key

LEMMA SettledType ==
  ASSUME NEW s, NEW stored \in Entry, ProcessOK(s, stored)
  PROVE  InSettled(s, stored) \in Entry
<1>1. stored.affinity \in KeyType("affinity") /\ stored.msi \in KeyType("msi")
  BY DEF Entry, KeyType
<1>2. \A key \in Key : Mid(s, key) => s.before \in KeyType(key)
  BY DEF ProcessOK
<1> QED
  BY <1>1, <1>2 DEF InSettled, Entry, KeyType, Key

LEMMA SettledDisturbed ==
  ASSUME NEW s \in Process, NEW stored \in Entry, s.pc = "closed" => s.todo = {},
         NEW key \in Key, NEW value \in KeyType(key)
  PROVE  InSettled(Disturbed(s, key, value), WithKey(stored, key, value))
           = WithKey(InSettled(s, stored), key, value)
<1> DEFINE t == Disturbed(s, key, value)
           after == [stored EXCEPT ![key] = value]
<1>1. /\ t.todo = s.todo /\ t.at = s.at
      /\ s.pc # "closed" /\ Mid(s, key) => t.before = value
      /\ s.pc = "closed" \/ ~Mid(s, key) => t.before = s.before
  <2>1. IsDisturbed(s, key, value, t)
    BY DisturbedFields, Zenon
  <2> QED
    BY <2>1, Zenon DEF IsDisturbed
<1>2. /\ [stored EXCEPT ![key] = value][key] = value
      /\ \A other \in Key \ {key} : [stored EXCEPT ![key] = value][other] = stored[other]
  BY DEF Entry, Key
<1> HIDE DEF t, after
<1>3. \A k \in Key : Mid(t, k) <=> Mid(s, k)
  BY <1>1 DEF Mid, Current
<1>4. Mid(s, key) => s.pc # "closed" /\ \A other \in Key \ {key} : ~Mid(s, other)
  BY DEF Mid
<1>5. InSettled(t, after) = [InSettled(s, stored) EXCEPT ![key] = value]
  <2>1. CASE key = "msi"
    BY <1>1, <1>2, <1>3, <1>4, <2>1 DEF InSettled, Key, after
  <2>2. CASE key = "affinity"
    BY <1>1, <1>2, <1>3, <1>4, <2>2 DEF InSettled, Key, after
  <2> QED
    BY <2>1, <2>2 DEF Key
<1> QED
  BY <1>5, Zenon DEF t, after, WithKey

\* A process has a row when it runs.
LEMMA RowOfProcess ==
  ASSUME NEW s, NEW stored, ProcessOK(s, stored)
  PROVE  /\ s.pc = "closed" <=> s.row = Closed
         /\ s.pc = "closed" => s = NoProcess /\ s.stale = {} /\ s.todo = {} /\ s.at = 1
<1>1. /\ NoProcess.pc = "closed" /\ NoProcess.row = Closed /\ NoProcess.stale = {}
      /\ NoProcess.todo = {} /\ NoProcess.at = 1
  BY DEF NoProcess
<1> QED
  BY <1>1, WriterAssumption DEF ProcessOK

LEMMA ReadStores ==
  ASSUME IInv, NEW q \in Writer, NEW f \in Field, NEW fails \in BOOLEAN, ReadValue(q, f, fails),
         NEW w \in Writer
  PROVE  [Store(w)!Next]_(Store(w)!vars)
<1>1. PICK row, changed : ReadOf(q, f, row, changed)
  BY ReadNamed
<1>2. /\ row \in Settings /\ changed \in SUBSET Key /\ registry' = registry
      /\ writer[q].pc = "closed"
  BY <1>1 DEF ReadOf
<1>3. registry \in Entry /\ ProcessOK(writer[q], registry)
  BY DEF IInv, TypeOK
<1>4. CASE ReadAt[f] # LastRead \/ w # q
  <2>1. writer'[w] = writer[w]
    BY <1>1, <1>4 DEF ReadOf, IInv, TypeOK
  <2> QED
    BY <1>2, <2>1, StoreUnchanged
<1>5. CASE ReadAt[f] = LastRead /\ w = q
  <2> DEFINE t == Ready(row, changed)
  <2>0. IsReady(t, row, changed)
    BY <1>2, ReadyFields, Zenon
  <2>1. writer'[w] = t
    BY <1>1, <1>5 DEF ReadOf, IInv, TypeOK
  <2> HIDE DEF t
  <2>2. t.row = row /\ t.item = row /\ t.stale = changed /\ t.todo = {}
    BY <2>0 DEF IsReady
  <2>3. writer[w].row = Closed /\ writer[w].todo = {}
    BY <1>2, <1>3, <1>5, RowOfProcess
  <2>4. InSettled(writer[w], registry) = registry /\ InSettled(writer'[w], registry') = registry
    BY <1>2, <1>3, <2>1, <2>2, <2>3, SettledAtRest
  <2>5. RowRead(row, changed, registry)
    BY <1>1, <1>5, ReadIsOver
  <2>6. Store(w)!Next
    BY <1>2, <2>1, <2>2, <2>3, <2>4, <2>5, StoreLaunch
  <2> QED
    BY <2>6
<1> QED
  BY <1>4, <1>5

LEMMA AskStores ==
  ASSUME IInv, NEW q \in Writer, NEW change \in Change, Ask(q, change), NEW w \in Writer
  PROVE  [Store(w)!Next]_(Store(w)!vars)
<1> DEFINE s    == writer[q]
           item == ChangedTo(s.row, change)
           keys == AskedKeys(q, s.row, item, change)
           pc   == IF keys # {} THEN "storing" ELSE IF q \in Window THEN "ready" ELSE "done"
           t    == [s EXCEPT !.item = item, !.todo = keys, !.pc = pc]
<1>1. /\ s \in Process /\ s.row \in Settings /\ s.todo = {} /\ s.at = 1 /\ s.row # Closed
      /\ registry \in Entry
  BY WriterAssumption DEF IInv, TypeOK, Ask, ProcessOK
<1>2. writer' = [writer EXCEPT ![q] = t] /\ registry' = registry
  <2>1. [writer EXCEPT ![q].item = item, ![q].todo = keys, ![q].pc = pc]
          = [writer EXCEPT ![q] = t]
    BY <1>1 DEF IInv, TypeOK, Process
  <2> QED
    BY <2>1, Zenon DEF Ask
<1>3. item \in Settings
  BY <1>1, ChangedType
<1> HIDE DEF item, keys, pc
<1>4. t.row = s.row /\ t.item = item /\ t.stale = s.stale /\ t.at = 1
  BY <1>1 DEF Process
<1> HIDE DEF t
<1>5. CASE w # q
  <2>1. writer'[w] = writer[w]
    BY <1>2, <1>5 DEF IInv, TypeOK
  <2> QED
    BY <1>2, <2>1, StoreUnchanged
<1>6. CASE w = q
  <2>1. writer'[w] = t
    BY <1>2, <1>6 DEF IInv, TypeOK
  <2>2. InSettled(writer[w], registry) = registry /\ InSettled(writer'[w], registry') = registry
    BY <1>1, <1>2, <1>4, <1>6, <2>1, SettledAtRest
  <2>3. Store(w)!Next
    BY <1>1, <1>3, <1>4, <1>6, <2>1, <2>2, StoreAsk
  <2> QED
    BY <2>3
<1> QED
  BY <1>5, <1>6

LEMMA EndStores ==
  ASSUME IInv, NEW q \in Writer, End(q), NEW w \in Writer
  PROVE  [Store(w)!Next]_(Store(w)!vars)
<1> DEFINE s == writer[q]
<1>1. writer' = [writer EXCEPT ![q] = NoProcess] /\ registry' = registry
  BY DEF End
<1>2. s \in Process /\ ProcessOK(s, registry) /\ registry \in Entry
  BY DEF IInv, TypeOK
<1>3. CASE w # q \/ s.pc = "closed"
  <2>1. s.pc = "closed" => s = NoProcess
    BY <1>2, RowOfProcess
  <2>2. writer'[w] = writer[w]
    BY <1>1, <1>3, <2>1 DEF IInv, TypeOK
  <2> QED
    BY <1>1, <2>2, StoreUnchanged
<1>4. CASE w = q /\ s.pc # "closed"
  <2>1. writer'[w] = NoProcess /\ writer[w] = s
    BY <1>1, <1>4 DEF IInv, TypeOK
  <2>2. s.row # Closed /\ s.row \in Settings /\ s.item \in Settings
    BY <1>2, <1>4, RowOfProcess DEF ProcessOK
  <2>3. InSettled(NoProcess, registry) = registry
    <3>1. NoProcess.todo = {}
      BY DEF NoProcess
    <3> QED
      BY <1>2, <3>1, SettledAtRest
  <2> HIDE DEF s
  <2>4. CASE s.todo = {} \/ s.at = 1
    BY <1>1, <1>2, <2>1, <2>2, <2>3, <2>4, SettledAtRest, StoreExit
  <2>5. CASE s.todo # {} /\ s.at # 1
    <3> DEFINE key == Current(s)
               k   == registry[key]
    <3>1. /\ key \in Key /\ Calls(key, s.item) # <<>> /\ s.before \in KeyType(key)
          /\ Progress(key, s.item, s.at, s.deleted, s.before, s.spoiled, k)
      BY <1>2, <2>5, AtCall
    <3>2. s.at \in Nat /\ s.at # 0 /\ s.deleted \in BOOLEAN /\ s.spoiled \in BOOLEAN
          /\ TRUE \in BOOLEAN
      BY <1>2 DEF Process
    <3>3. /\ InSettled(s, registry) = [registry EXCEPT ![key] = s.before]
          /\ InSettled(s, registry)[key] = s.before
      <4>1. /\ InSettled(s, registry) = WithKey(registry, Current(s), s.before)
            /\ InSettled(s, registry)[Current(s)] = s.before
        BY <1>2, <2>5, <3>2, SettledAtCall, Zenon
      <4> QED
        BY <4>1, Zenon DEF WithKey
    <3>4. registry = [InSettled(s, registry) EXCEPT ![key] = k]
      BY <1>2, <3>1, <3>3 DEF Entry, Key
    <3> HIDE DEF key
    <3>5. \/ s.deleted /\ s.spoiled /\ k = s.before
          \/ [row |-> RowAfter(key, s.row, s.item), key |-> k]
               \in setKey(key, s.row, s.item, s.before, TRUE)
      BY <2>2, <3>1, <3>2, Outcome, Zenon
    <3>6. CASE k = s.before
      <4>1. InSettled(s, registry) = registry
        BY <1>2, <3>1, <3>3, <3>6 DEF Entry, Key
      <4> QED
        BY <1>1, <2>1, <2>2, <2>3, <4>1, StoreExit
    <3>7. CASE [row |-> RowAfter(key, s.row, s.item), key |-> k]
                 \in setKey(key, s.row, s.item, s.before, TRUE)
      <4> DEFINE done == [row |-> RowAfter(key, s.row, s.item), key |-> k]
      <4>1. done.key = k /\ done \in setKey(key, s.row, s.item, s.before, TRUE)
        BY <3>7
      <4> HIDE DEF done, k
      <4>2. InSettled(writer'[w], registry') = [InSettled(writer[w], registry) EXCEPT ![key] = done.key]
        BY <1>1, <2>1, <2>3, <3>4, <4>1
      <4>3. Store(w)!Next
        BY <2>1, <2>2, <3>1, <3>3, <4>1, <4>2, StoreKilled
      <4> QED
        BY <4>3
    <3> QED
      BY <3>5, <3>6, <3>7
  <2> QED
    BY <2>4, <2>5
<1> QED
  BY <1>3, <1>4
\* A call of another process.
LEMMA OthersCallStores ==
  ASSUME IInv, NEW w \in Writer, NEW key \in Key, NEW value \in KeyType(key),
         registry' = [registry EXCEPT ![key] = value],
         writer'[w] = Disturbed(writer[w], key, value)
  PROVE  Store(w)!Next
<1> DEFINE s == writer[w]
           t == Disturbed(s, key, value)
<1>1. s \in Process /\ ProcessOK(s, registry) /\ registry \in Entry
  BY DEF IInv, TypeOK
<1>2. /\ s.pc = "closed" <=> s.row = Closed
      /\ s.pc = "closed" => s.stale = {} /\ s.todo = {}
  BY <1>1, RowOfProcess
<1>3. InSettled(s, registry) \in Entry
  BY <1>1, SettledType
<1>4. InSettled(t, [registry EXCEPT ![key] = value]) = [InSettled(s, registry) EXCEPT ![key] = value]
  <2>1. s.pc = "closed" => s.todo = {}
    BY <1>2
  <2> HIDE DEF s
  <2>2. InSettled(t, WithKey(registry, key, value)) = WithKey(InSettled(s, registry), key, value)
    BY <1>1, <2>1, SettledDisturbed, Zenon
  <2> QED
    BY <2>2, Zenon DEF WithKey
<1>5. InSettled(writer'[w], registry') = [InSettled(writer[w], registry) EXCEPT ![key] = value]
  BY <1>4, Zenon
<1>6. /\ t.row = s.row /\ t.item = s.item
      /\ s.row = Closed => t.stale = {}
      /\ s.row # Closed => t.stale = s.stale \union {key}
  <2>1. IsDisturbed(s, key, value, t)
    BY <1>1, DisturbedFields, Zenon
  <2> QED
    BY <1>2, <2>1 DEF IsDisturbed
<1>7. /\ writer'[w].row = writer[w].row /\ writer'[w].item = writer[w].item
      /\ writer[w].row = Closed => writer'[w].stale = {}
      /\ writer[w].row # Closed => writer'[w].stale = writer[w].stale \union {key}
  BY <1>6, Zenon
<1> HIDE DEF s, t
<1> QED
  BY <1>1, <1>3, <1>5, <1>7, StoreOthers DEF s

\* A call of the process itself that does not end its setter.
LEMMA ContinuingStores ==
  ASSUME IInv, NEW w \in Writer, NEW key, key = Current(writer[w]), writer[w].todo # {},
         NEW value, NEW old, old = IF writer[w].at = 1 THEN registry[key] ELSE writer[w].before,
         NEW spoilt \in BOOLEAN,
         registry' = [registry EXCEPT ![key] = value], registry' \in Entry,
         writer'[w] = Continued(writer[w], old, spoilt)
  PROVE  [Store(w)!Next]_(Store(w)!vars)
<1> DEFINE s == writer[w]
           t == Continued(s, old, spoilt)
<1>1. s \in Process /\ registry \in Entry
  BY DEF IInv, TypeOK
<1>2. /\ t.row = s.row /\ t.item = s.item /\ t.todo = s.todo /\ t.stale = s.stale
      /\ t.before = old /\ t.at = s.at + 1
  BY <1>1, ContinuedFields
<1>3. s.at \in Nat /\ s.at # 0 /\ t.at \in Nat /\ t.at # 0 /\ t.at # 1 /\ registry' \in Entry
  BY <1>1, <1>2 DEF Process
<1>4. key \in Key
  BY DEF Current, Key
<1> HIDE DEF t
<1>5. Current(t) = key
  BY <1>2 DEF Current
<1>6. InSettled(s, registry) = [registry EXCEPT ![key] = old]
  <2>1. s.at = 1 => old = registry[Current(s)]
    OBVIOUS
  <2>2. s.at # 1 => old = s.before
    OBVIOUS
  <2>3. s.todo # {}
    OBVIOUS
  <2>4. key = Current(s)
    OBVIOUS
  <2> HIDE DEF s
  <2>5. InSettled(s, registry) = WithKey(registry, Current(s), old)
    BY <1>1, <1>3, <2>1, <2>2, <2>3, SettledAtCall
  <2> QED
    BY <2>4, <2>5, Zenon DEF WithKey
<1>7. InSettled(t, registry') = [registry' EXCEPT ![key] = old]
  <2>1. t.todo # {} /\ key = Current(t)
    BY <1>2, <1>5
  <2>2. t.at = 1 => old = registry'[Current(t)]
    BY <1>3
  <2>3. t.at # 1 => old = t.before
    BY <1>2
  <2>4. InSettled(t, registry') = WithKey(registry', Current(t), old)
    BY <1>3, <2>1, <2>2, <2>3, SettledAtCall, Zenon
  <2> QED
    BY <2>1, <2>4, Zenon DEF WithKey
<1>8. [registry' EXCEPT ![key] = old] = [registry EXCEPT ![key] = old]
  BY <1>1, <1>4 DEF Entry, Key
<1>9. InSettled(writer'[w], registry') = InSettled(writer[w], registry)
  BY <1>6, <1>7, <1>8 DEF t
<1> QED
  BY <1>2, <1>9, StoreUnchanged DEF t

\* The last call of a setter, or one that is refused at its beginning.
LEMMA OverStores ==
  ASSUME IInv, NEW w \in Writer, NEW fails \in BOOLEAN, NEW key, NEW refused \in BOOLEAN,
         NEW value, NEW old, NEW spoilt \in BOOLEAN, NEW updated, NEW over \in BOOLEAN,
         CallOf(w, fails, key, refused, value, old, spoilt, updated, over), over
  PROVE  Store(w)!Next
<1> DEFINE s == writer[w]
           t == AfterSetter(w, s, key, updated, spoilt)
<1>1. s \in Process /\ ProcessOK(s, registry) /\ registry \in Entry
  BY DEF IInv, TypeOK
<1>2. /\ s.todo # {} /\ key = Current(s)
      /\ old = IF s.at = 1 THEN registry[key] ELSE s.before
      /\ registry' = [registry EXCEPT ![key] = value]
  BY Zenon DEF CallOf, Finds
<1>3. /\ key \in Key /\ value \in KeyType(key) /\ old \in KeyType(key)
      /\ s.row \in Settings /\ s.item \in Settings /\ Calls(key, s.item) # <<>>
  <2>1. CallFound(w, key, refused, value, old, spoilt, updated)
    BY CallFacts, Zenon
  <2> QED
    BY <2>1, Zenon DEF CallFound
<1>4. writer'[w] = t
  <2>1. writer' = [q \in Writer |->
           IF q # w
           THEN IF value # registry[key] THEN Disturbed(writer[q], key, value) ELSE writer[q]
           ELSE IF over THEN AfterSetter(w, s, key, updated, spoilt)
           ELSE Continued(s, old, spoilt)]
    BY Zenon DEF CallOf
  <2> QED
    BY <2>1
<1>5. IsOver(s, key, updated, spoilt, t)
  BY <1>1, AfterSetterFields, Zenon
<1> HIDE DEF t
<1>6. /\ t.row = updated /\ t.item = s.item /\ t.at = 1
      /\ spoilt => t.stale = s.stale \union {key}
      /\ ~spoilt => t.stale = s.stale \ {key}
  BY <1>5 DEF IsOver
<1>7. s.row # Closed
  BY <1>3, WriterAssumption
<1>8. /\ InSettled(s, registry) = [registry EXCEPT ![key] = old]
      /\ InSettled(s, registry)[key] = old
  <2>1. s.at \in Nat /\ s.at # 0
    BY <1>1 DEF Process
  <2>2. s.at = 1 => old = registry[Current(s)]
    BY <1>2
  <2>3. s.at # 1 => old = s.before
    BY <1>2
  <2> HIDE DEF s
  <2>4. /\ InSettled(s, registry) = WithKey(registry, Current(s), old)
        /\ InSettled(s, registry)[Current(s)] = old
    BY <1>1, <1>2, <2>1, <2>2, <2>3, SettledAtCall, Zenon
  <2> QED
    BY <1>2, <2>4, Zenon DEF WithKey
<1>9. InSettled(writer'[w], registry') = registry'
  <2>1. registry' \in Entry
    BY <1>1, <1>2, <1>3, EntryKeys
  <2> QED
    BY <1>4, <1>6, <2>1, SettledAtRest
<1>10. InSettled(writer'[w], registry') = [InSettled(writer[w], registry) EXCEPT ![key] = value]
  <2>1. [[registry EXCEPT ![key] = old] EXCEPT ![key] = value] = [registry EXCEPT ![key] = value]
    BY <1>1, <1>3 DEF Entry, Key
  <2> QED
    BY <1>2, <1>8, <1>9, <2>1
<1>11. \/ /\ spoilt /\ old = Absent /\ value = Absent
          /\ \E done \in setKey(key, s.row, s.item, old, TRUE) : done.row = updated
       \/ [row |-> updated, key |-> value] \in setKey(key, s.row, s.item, old, spoilt)
  BY OverOutcome, Zenon
<1>12. CASE /\ spoilt /\ old = Absent /\ value = Absent
            /\ \E done \in setKey(key, s.row, s.item, old, TRUE) : done.row = updated
  <2>1. PICK done \in setKey(key, s.row, s.item, old, TRUE) : done.row = updated
    BY <1>12, Zenon
  <2>2. done \in setKey(key, s.row, s.item, Absent, TRUE)
    BY <1>12, Zenon
  <2>3. InSettled(writer'[w], registry') = InSettled(writer[w], registry)
    BY <1>1, <1>2, <1>3, <1>8, <1>9, <1>12
  <2> HIDE DEF s
  <2>4. InSettled(writer[w], registry)[key] = Absent /\ writer[w].row # Closed
    BY <1>7, <1>8, <1>12 DEF s
  <2>5. /\ writer'[w].row = done.row /\ writer'[w].item = writer[w].item
        /\ writer'[w].stale = writer[w].stale \union {key}
    BY <1>4, <1>6, <1>12, <2>1 DEF s
  <2> QED
    BY <1>3, <2>2, <2>3, <2>4, <2>5, StoreOvertaken, Zenon DEF s
<1>13. CASE [row |-> updated, key |-> value] \in setKey(key, s.row, s.item, old, spoilt)
  <2> DEFINE done == [row |-> updated, key |-> value]
  <2>1. done.row = updated /\ done.key = value
    OBVIOUS
  <2>2. done \in setKey(key, s.row, s.item, old, spoilt)
    BY <1>13
  <2> HIDE DEF done, s
  <2>3. InSettled(writer'[w], registry') = [InSettled(writer[w], registry) EXCEPT ![key] = done.key]
    BY <1>10, <2>1, Zenon
  <2>4. /\ writer'[w].row = done.row /\ writer'[w].item = writer[w].item
        /\ spoilt => writer'[w].stale = writer[w].stale \union {key}
        /\ ~spoilt => writer'[w].stale = writer[w].stale \ {key}
    BY <1>4, <1>6, <2>1 DEF s
  <2>5. old = InSettled(writer[w], registry)[key] /\ writer[w].row # Closed
    BY <1>7, <1>8 DEF s
  <2> QED
    BY <1>3, <2>2, <2>3, <2>4, <2>5, StoreSetter, Zenon DEF s
<1> QED
  BY <1>11, <1>12, <1>13

LEMMA CallStores ==
  ASSUME IInv, NEW q \in Writer, NEW fails \in BOOLEAN, Call(q, fails), NEW w \in Writer
  PROVE  [Store(w)!Next]_(Store(w)!vars)
<1>1. PICK key, value, old, updated : \E refused, spoilt, over \in BOOLEAN :
        CallOf(q, fails, key, refused, value, old, spoilt, updated, over)
  BY CallNamed
<1>2. PICK refused \in BOOLEAN, spoilt \in BOOLEAN, over \in BOOLEAN :
        CallOf(q, fails, key, refused, value, old, spoilt, updated, over)
  BY <1>1
<1>3. /\ writer[q].todo # {} /\ key = Current(writer[q])
      /\ old = IF writer[q].at = 1 THEN registry[key] ELSE writer[q].before
      /\ registry' = [registry EXCEPT ![key] = value]
  BY <1>2, Zenon DEF CallOf, Finds
<1>4. key \in Key /\ value \in KeyType(key)
  <2>1. CallFound(q, key, refused, value, old, spoilt, updated)
    BY <1>2, CallFacts, Zenon
  <2> QED
    BY <2>1, Zenon DEF CallFound
<1>5. registry \in Entry /\ registry' \in Entry
  <2>1. registry \in Entry
    BY DEF IInv, TypeOK
  <2> QED
    BY <1>3, <1>4, <2>1, EntryKeys
<1>6. writer' = [p \in Writer |->
           IF p # q
           THEN IF value # registry[key] THEN Disturbed(writer[p], key, value) ELSE writer[p]
           ELSE IF over THEN AfterSetter(q, writer[q], key, updated, spoilt)
           ELSE Continued(writer[q], old, spoilt)]
  BY <1>2, Zenon DEF CallOf
<1>7. CASE w # q /\ value # registry[key]
  <2>1. writer'[w] = Disturbed(writer[w], key, value)
    BY <1>6, <1>7
  <2>2. Store(w)!Next
    BY <1>3, <1>4, <2>1, OthersCallStores
  <2> QED
    BY <2>2
<1>8. CASE w # q /\ value = registry[key]
  <2>1. writer'[w] = writer[w] /\ registry' = registry
    BY <1>3, <1>4, <1>5, <1>6, <1>8 DEF Entry, Key
  <2> QED
    BY <2>1, StoreUnchanged
<1>9. CASE w = q /\ over
  <2>1. CallOf(w, fails, key, refused, value, old, spoilt, updated, over)
    BY <1>2, <1>9
  <2>2. Store(w)!Next
    BY <1>9, <2>1, OverStores, Zenon
  <2> QED
    BY <2>2
<1>10. CASE w = q /\ ~over
  <2>1. writer'[w] = Continued(writer[w], old, spoilt)
    BY <1>6, <1>10
  <2>2. /\ writer[w].todo # {} /\ key = Current(writer[w])
        /\ old = IF writer[w].at = 1 THEN registry[key] ELSE writer[w].before
    BY <1>3, <1>10, Zenon
  <2> QED
    BY <1>3, <1>5, <2>1, <2>2, ContinuingStores, Zenon
<1> QED
  BY <1>7, <1>8, <1>9, <1>10

LEMMA InitStores ==
  ASSUME Init
  PROVE  \A w \in Writer : Store(w)!Init
<1>1. ASSUME NEW w \in Writer
      PROVE  Store(w)!Init
  <2>1. /\ writer[w].row = Closed /\ writer[w].item = Closed /\ writer[w].stale = {}
        /\ writer[w].todo = {}
    BY <1>1 DEF Init, NoProcess
  <2>2. registry \in InitialEntry /\ registry \in Entry
    BY WriterAssumption DEF Init
  <2>3. Settled(writer[w]) = registry
    BY <2>1, <2>2, SettledAtRest, SettledNow
  <2> QED
    BY <2>1, <2>2, <2>3 DEF Store!Init
<1> QED
  BY <1>1

LEMMA NextStores ==
  ASSUME IInv, [Next]_vars
  PROVE  [\A w \in Writer : [Store(w)!Next]_(Store(w)!vars)]_vars
<1>1. ASSUME NEW w \in Writer, NEW q \in Writer, NEW key \in Key, NEW fails \in BOOLEAN,
             OpenToRead(q, key, fails)
      PROVE  [Store(w)!Next]_(Store(w)!vars)
  <2>1. writer' = writer /\ registry' = registry
    BY <1>1 DEF OpenToRead
  <2> QED
    BY <2>1, StoreUnchanged
<1>5. ASSUME NEW w \in Writer, NEW q \in Writer, NEW f \in Field, NEW fails \in BOOLEAN,
             ReadValue(q, f, fails)
      PROVE  [Store(w)!Next]_(Store(w)!vars)
  BY <1>5, ReadStores
<1>2. ASSUME NEW w \in Writer, NEW q \in Writer, NEW change \in Change, Ask(q, change)
      PROVE  [Store(w)!Next]_(Store(w)!vars)
  BY <1>2, AskStores
<1>3. ASSUME NEW w \in Writer, NEW q \in Writer, NEW fails \in BOOLEAN, Call(q, fails)
      PROVE  [Store(w)!Next]_(Store(w)!vars)
  BY <1>3, CallStores
<1>4. ASSUME NEW w \in Writer, NEW q \in Writer, End(q)
      PROVE  [Store(w)!Next]_(Store(w)!vars)
  BY <1>4, EndStores
<1> QED
  BY <1>1, <1>2, <1>3, <1>4, <1>5, Zenon DEF Next

(***************************************************************************)
(* Every process implements the setters of SettingsStore, however the      *)
(* calls of the others come between its own, calls fail and processes are  *)
(* killed: the end of a setter, or of the process, is the step in which it *)
(* happens, with one of the outcomes DeviceSettings lists (setMSIMode and  *)
(* setAffinityPolicy, reg.go 43-141).                                      *)
(***************************************************************************)
THEOREM StoreImplemented == Spec => StoreSpec
  BY InitStores, NextStores, WritersInvariant, PTL DEF Spec, StoreSpec
=============================================================================
