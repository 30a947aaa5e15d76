------------------------- MODULE DeviceTable_proofs -------------------------
(***************************************************************************)
(* Proofs about DeviceTable, for any devices, processors and choices: the  *)
(* types, that the rows agree with the registry, that what was accepted is *)
(* stored, and that affinity keys are written well formed.                 *)
(***************************************************************************)
EXTENDS DeviceTable, DeviceSettings_proofs

-----------------------------------------------------------------------------
(***************************************************************************)
(* The inductive invariant.  That rows agree needs the type of every row   *)
(* and key, and that the rows a draft is stored in are rows the table      *)
(* shows; well-formed keys need that a draft being stored has passed the   *)
(* check of the OK button.                                                 *)
(***************************************************************************)
DialogOK ==
  /\ mode = "table" => selected = {}
  /\ mode # "applying" => pending = {}
  /\ mode = "applying" => CanAccept

IInv == TypeOK /\ DialogOK /\ RowsAgree

\* The settings common to some rows, with their placeholders, are settings.
LEMMA CommonSettingsType ==
  ASSUME NEW S \in SUBSET Shown, TypeOK
  PROVE  CommonSettings(S) \in Settings
<1>1. \A d \in S : Row(d) \in Settings
  BY DEF TypeOK, Shown, Row
<1>2. ASSUME NEW T, NEW placeholder \in T, NEW value, \A d \in S : value[d] \in T
      PROVE  FindCommonValue(S, placeholder, value) \in T
  BY <1>2 DEF FindCommonValue
<1>3. \A d \in S : /\ Field(S, "DevicePolicy")[d] = Row(d).DevicePolicy
                   /\ Field(S, "DevicePriority")[d] = Row(d).DevicePriority
                   /\ Field(S, "AssignmentSetOverride")[d] = Row(d).AssignmentSetOverride
                   /\ Field(S, "MsiSupported")[d] = Row(d).MsiSupported
                   /\ Field(S, "MessageNumberLimit")[d] = Row(d).MessageNumberLimit
  BY DEF Field
<1> DEFINE Mode == {MSI_Off, MSI_On, MSI_Tristate, MSI_Invalid}
<1>4. \A d \in S : /\ Row(d).DevicePolicy \in Nat
                   /\ Row(d).DevicePriority \in Nat
                   /\ Row(d).AssignmentSetOverride \in SUBSET Bit
                   /\ Row(d).MsiSupported \in Mode
                   /\ Row(d).MessageNumberLimit \in Nat
  BY <1>1 DEF Settings
<1>5. FindCommonValue(S, Empty, Field(S, "DevicePolicy")) \in Nat
  BY <1>2, <1>3, <1>4 DEF Empty
<1>6. FindCommonValue(S, Empty, Field(S, "DevicePriority")) \in Nat
  BY <1>2, <1>3, <1>4 DEF Empty
<1>7. FindCommonValue(S, {}, Field(S, "AssignmentSetOverride")) \in SUBSET Bit
  <2>1. {} \in SUBSET Bit
    OBVIOUS
  <2>2. QED
    BY <1>2, <1>3, <1>4, <2>1
<1>8. FindCommonValue(S, MSI_Tristate, Field(S, "MsiSupported")) \in Mode
  BY <1>2, <1>3, <1>4
<1>9. FindCommonValue(S, 0, Field(S, "MessageNumberLimit")) \in Nat
  BY <1>2, <1>3, <1>4
<1>10. QED
  BY <1>5, <1>6, <1>7, <1>8, <1>9 DEF CommonSettings, Settings

\* The draft a dialog is opened with is one of settings, and but for the limit
\* it is what the rows have in common.
LEMMA OpenedDraftType ==
  ASSUME NEW S \in SUBSET Shown, NEW copied \in BOOLEAN, TypeOK
  PROVE  /\ OpenedDraft(S, copied) \in Settings
         /\ LimitShown(S) \in Nat
         /\ OpenedDraft(S, copied).DevicePolicy = CommonSettings(S).DevicePolicy
         /\ OpenedDraft(S, copied).DevicePriority = CommonSettings(S).DevicePriority
         /\ OpenedDraft(S, copied).AssignmentSetOverride
              = CommonSettings(S).AssignmentSetOverride
         /\ OpenedDraft(S, copied).MsiSupported = CommonSettings(S).MsiSupported
<1> DEFINE common == CommonSettings(S)
           limit  == LimitShown(S)
<1>1. common \in Settings
  BY CommonSettingsType
<1>2. limit \in Nat
  BY <1>1 DEF LimitShown, Settings
<1>3. OpenedDraft(S, copied)
        = IF copied THEN [common EXCEPT !.MessageNumberLimit = limit] ELSE common
  BY DEF OpenedDraft
<1> HIDE DEF common, limit
<1> DEFINE item == OpenedDraft(S, copied)
<1>4. /\ item \in Settings
      /\ item.DevicePolicy = common.DevicePolicy
      /\ item.DevicePriority = common.DevicePriority
      /\ item.AssignmentSetOverride = common.AssignmentSetOverride
      /\ item.MsiSupported = common.MsiSupported
  BY <1>1, <1>2, <1>3 DEF Settings
<1>5. QED
  BY <1>2, <1>4 DEF common, limit

-----------------------------------------------------------------------------
LEMMA InitIInv == Init => IInv
<1> SUFFICES ASSUME Init PROVE IInv
  OBVIOUS
<1>1. \A d \in Device : registry[d] \in Entry
  BY TableAssumption DEF Init
<1>2. \A d \in Device : /\ allDevices[d] \in Settings
                        /\ Agrees(allDevices[d], registry[d])
  BY <1>1, ReadAgrees DEF Init
<1>3. NoDraft \in Settings
  BY DEF NoDraft, Settings
<1>4. TypeOK
  <2>1. registry \in [Device -> Entry] /\ allDevices \in [Device -> Settings]
    BY <1>1, <1>2 DEF Init
  <2>2. DOMAIN filtered = {} /\ filtered \in [DOMAIN filtered -> Settings]
    BY DEF Init
  <2>3. QED
    BY <1>3, <2>1, <2>2 DEF Init, TypeOK
<1>5. DialogOK
  BY DEF Init, DialogOK
<1>6. RowsAgree
  BY <1>2 DEF Init, RowsAgree, LatestRow
<1>7. QED
  BY <1>4, <1>5, <1>6 DEF IInv

\* A step of the dialog, which leaves the table alone, keeps the rows' half.
LEMMA DialogStep ==
  ASSUME IInv, UNCHANGED tableVars,
         draft' \in Settings, limitBox' \in Nat, mode' \in {"table", "dialog", "applying"},
         selected' \subseteq Shown, pending' \subseteq selected', DialogOK'
  PROVE  IInv'
<1>1. TypeOK'
  BY DEF IInv, TypeOK, Shown, tableVars
<1>2. RowsAgree'
  BY DEF IInv, RowsAgree, LatestRow, tableVars
<1>3. QED
  BY <1>1, <1>2 DEF IInv

\* An edit of the draft.
LEMMA EditStep ==
  ASSUME IInv, NEW item \in Settings, EditDraft(item), limitBox' \in Nat
  PROVE  IInv'
<1>1. /\ draft' = item /\ mode' = "dialog" /\ mode = "dialog"
      /\ selected' = selected /\ pending' = pending
      /\ UNCHANGED tableVars
  BY DEF EditDraft
<1>2. selected \subseteq Shown /\ pending \subseteq selected
  BY DEF IInv, TypeOK
<1>3. DialogOK'
  BY <1>1 DEF DialogOK, IInv
<1>4. QED
  BY <1>1, <1>2, <1>3, DialogStep

\* The search field shows other rows: of a device that is not lost the row it
\* showed and the row it shows are the same.
LEMMA SearchStep ==
  ASSUME IInv, mode = "table", DropCopies, searching' \in BOOLEAN,
         DOMAIN filtered' \subseteq Device,
         filtered' = [d \in DOMAIN filtered' |-> allDevices[d]],
         UNCHANGED <<registry, allDevices, failed>>, UNCHANGED dialogVars
  PROVE  IInv'
<1>1. TypeOK'
  <2>1. \A d \in DOMAIN filtered' : filtered'[d] \in Settings
    BY DEF IInv, TypeOK
  <2>2. filtered' \in [DOMAIN filtered' -> Settings]
    BY <2>1
  <2>3. lost' \subseteq Device
    BY DEF IInv, TypeOK, DropCopies
  <2>4. QED
    BY <2>2, <2>3 DEF IInv, TypeOK, DialogOK, dialogVars, Shown
<1>2. DialogOK'
  BY DEF IInv, DialogOK, dialogVars
<1>3. RowsAgree'
  <2> SUFFICES ASSUME NEW d \in Device, d \notin lost' \union failed'
               PROVE  Agrees(LatestRow(d)', registry'[d])
    BY DEF RowsAgree
  <2>1. d \notin lost \union failed
    BY DEF DropCopies
  <2>2. Agrees(LatestRow(d), registry[d])
    BY <2>1 DEF IInv, RowsAgree
  <2>3. d \in DOMAIN filtered => filtered[d] = allDevices[d]
    BY DEF DropCopies
  <2>4. LatestRow(d) = allDevices[d]
    BY <2>3 DEF LatestRow
  <2>5. LatestRow(d)' = allDevices[d]
    BY DEF LatestRow
  <2>6. QED
    BY <2>2, <2>4, <2>5
<1>4. QED
  BY <1>1, <1>2, <1>3 DEF IInv

\* A round of the loop: what SetNewDevice does to the row and to the registry
\* of one device.
LEMMA ApplyFacts ==
  ASSUME IInv, NEW d \in Device, NEW fault \in BOOLEAN, ApplyTo(d, fault)
  PROVE  /\ d \in Shown /\ Row(d) \in Settings /\ registry[d] \in Entry /\ draft \in Settings
         /\ CanAccept
         /\ \E done \in SetNewDevice(Row(d), draft, registry[d], fault) :
              /\ done.row \in Settings /\ done.entry \in Entry
              /\ registry' = [registry EXCEPT ![d] = done.entry]
              /\ IF searching
                 THEN filtered' = [filtered EXCEPT ![d] = done.row] /\ allDevices' = allDevices
                 ELSE allDevices' = [allDevices EXCEPT ![d] = done.row] /\ filtered' = filtered
<1>1. d \in Shown /\ Row(d) \in Settings /\ registry[d] \in Entry /\ draft \in Settings
  BY DEF ApplyTo, IInv, TypeOK, Shown, Row
<1>2. CanAccept
  BY DEF ApplyTo, IInv, DialogOK
<1>3. PICK done \in SetNewDevice(Row(d), draft, registry[d], fault) :
        /\ registry' = [registry EXCEPT ![d] = done.entry]
        /\ IF searching
           THEN filtered' = [filtered EXCEPT ![d] = done.row] /\ allDevices' = allDevices
           ELSE allDevices' = [allDevices EXCEPT ![d] = done.row] /\ filtered' = filtered
  BY Zenon DEF ApplyTo
<1>4. done.row \in Settings /\ done.entry \in Entry
  BY <1>1, SetNewDeviceTypes
<1>5. QED
  BY <1>1, <1>2, <1>3, <1>4

LEMMA ApplyStep ==
  ASSUME IInv, NEW d \in Device, NEW fault \in BOOLEAN, ApplyTo(d, fault)
  PROVE  IInv'
<1>0. /\ d \in Shown /\ Row(d) \in Settings /\ registry[d] \in Entry /\ draft \in Settings
      /\ CanAccept
  BY ApplyFacts
<1>1. PICK done \in SetNewDevice(Row(d), draft, registry[d], fault) :
        /\ done.row \in Settings /\ done.entry \in Entry
        /\ registry' = [registry EXCEPT ![d] = done.entry]
        /\ IF searching
           THEN filtered' = [filtered EXCEPT ![d] = done.row] /\ allDevices' = allDevices
           ELSE allDevices' = [allDevices EXCEPT ![d] = done.row] /\ filtered' = filtered
  BY ApplyFacts
<1>2. searching' = searching /\ lost' = lost
  BY DEF ApplyTo
<1>3. TypeOK'
  <2>1. registry' \in [Device -> Entry] /\ allDevices' \in [Device -> Settings]
    BY <1>1 DEF IInv, TypeOK
  <2>2. DOMAIN filtered' = DOMAIN filtered /\ filtered' \in [DOMAIN filtered' -> Settings]
    BY <1>1 DEF IInv, TypeOK
  <2>3. failed' \subseteq Device
    BY DEF ApplyTo, IInv, TypeOK
  <2>4. Shown' = Shown
    BY <1>2, <2>2 DEF Shown
  <2>5. CASE pending = {d}
    <3>1. mode' = "table" /\ selected' = {} /\ draft' = NoDraft /\ limitBox' = 0 /\ pending' = {}
      BY <2>5 DEF ApplyTo, RoundDone
    <3>2. NoDraft \in Settings
      BY DEF NoDraft, Settings
    <3>3. QED
      BY <1>2, <2>1, <2>2, <2>3, <2>4, <3>1, <3>2 DEF IInv, TypeOK
  <2>6. CASE pending # {d}
    <3>1. UNCHANGED <<mode, selected, draft, limitBox>> /\ pending' \subseteq pending
      BY <2>6 DEF ApplyTo, RoundDone
    <3>2. QED
      BY <1>2, <2>1, <2>2, <2>3, <2>4, <3>1 DEF IInv, TypeOK
  <2>7. QED
    BY <2>5, <2>6
<1>4. DialogOK'
  <2>1. CASE pending = {d}
    BY <2>1 DEF ApplyTo, RoundDone, DialogOK
  <2>2. CASE pending # {d}
    BY <1>0, <2>2 DEF ApplyTo, RoundDone, DialogOK, CanAccept
  <2>3. QED
    BY <2>1, <2>2
<1>5. RowsAgree'
  <2> SUFFICES ASSUME NEW e \in Device, e \notin lost' \union failed'
               PROVE  Agrees(LatestRow(e)', registry'[e])
    BY DEF RowsAgree
  <2>1. e \notin lost \union failed
    BY <1>2 DEF ApplyTo
  <2>2. Agrees(LatestRow(e), registry[e])
    BY <2>1 DEF IInv, RowsAgree
  <2>3. CASE e # d
    <3>1. LatestRow(e)' = LatestRow(e) /\ registry'[e] = registry[e]
      BY <1>1, <1>2, <2>3 DEF LatestRow, IInv, TypeOK
    <3>2. QED
      BY <2>2, <3>1
  <2>4. CASE e = d
    <3>1. fault = FALSE
      BY <2>4 DEF ApplyTo
    <3>2. Row(d) = LatestRow(d)
      BY <1>0 DEF Row, LatestRow, Shown
    <3>3. Agrees(Row(d), registry[d])
      BY <2>2, <2>4, <3>2
    <3>4. done \in SetNewDevice(Row(d), draft, registry[d], FALSE)
      BY <3>1, Zenon
    <3>5. Agrees(done.row, done.entry)
      BY <1>0, <3>3, <3>4, SetNewDeviceAgrees
    <3>6. LatestRow(d)' = done.row /\ registry'[d] = done.entry
      BY <1>0, <1>1, <1>2 DEF LatestRow, IInv, TypeOK, Shown
    <3>7. QED
      BY <2>4, <3>5, <3>6
  <2>5. QED
    BY <2>3, <2>4
<1>6. QED
  BY <1>3, <1>4, <1>5 DEF IInv

LEMMA RelaunchStep ==
  ASSUME IInv, Relaunch
  PROVE  IInv'
<1>1. \A d \in Device : registry'[d] \in Entry
  BY DEF Relaunch, IInv, TypeOK
<1>2. \A d \in Device : /\ allDevices'[d] \in Settings
                        /\ Agrees(allDevices'[d], registry'[d])
  BY <1>1, ReadAgrees DEF Relaunch, FreshTable
<1>3. NoDraft \in Settings
  BY DEF NoDraft, Settings
<1>4. TypeOK'
  <2>1. registry' \in [Device -> Entry] /\ allDevices' \in [Device -> Settings]
    BY <1>2 DEF Relaunch, FreshTable, IInv, TypeOK
  <2>2. DOMAIN filtered' = {} /\ filtered' \in [DOMAIN filtered' -> Settings]
    BY DEF Relaunch, FreshTable
  <2>3. QED
    BY <1>3, <2>1, <2>2 DEF Relaunch, FreshTable, TypeOK
<1>5. DialogOK'
  BY DEF Relaunch, FreshTable, DialogOK
<1>6. RowsAgree'
  BY <1>2 DEF Relaunch, FreshTable, RowsAgree, LatestRow
<1>7. QED
  BY <1>4, <1>5, <1>6 DEF IInv

LEMMA NextIInv == IInv /\ [Next]_vars => IInv'
<1> SUFFICES ASSUME IInv, [Next]_vars PROVE IInv'
  OBVIOUS
<1>0. /\ draft \in Settings /\ limitBox \in Nat /\ selected \subseteq Shown
      /\ pending \subseteq selected
      /\ mode = "table" => selected = {}
      /\ mode # "applying" => pending = {}
  BY DEF IInv, TypeOK, DialogOK
<1>1. ASSUME NEW matches \in SUBSET Device, Search(matches) PROVE IInv'
  <2>1. DOMAIN filtered' = matches
    BY <1>1 DEF Search
  <2>2. filtered' = [d \in DOMAIN filtered' |-> allDevices[d]]
    BY <1>1, <2>1 DEF Search
  <2>3. QED
    BY <1>1, <2>1, <2>2, SearchStep DEF Search
<1>2. CASE ClearSearch
  <2>1. DOMAIN filtered' = {} /\ filtered' = [d \in DOMAIN filtered' |-> allDevices[d]]
    BY <1>2 DEF ClearSearch
  <2>2. QED
    BY <1>2, <2>1, SearchStep DEF ClearSearch
<1>3. ASSUME NEW S \in (SUBSET Shown) \ {{}}, NEW copied \in BOOLEAN, OpenDialog(S, copied)
      PROVE  IInv'
  <2>1. OpenedDraft(S, copied) \in Settings /\ LimitShown(S) \in Nat
    BY OpenedDraftType DEF IInv
  <2>2. /\ mode' = "dialog" /\ selected' = S /\ limitBox' = LimitShown(S)
        /\ draft' = OpenedDraft(S, copied)
        /\ mode = "table" /\ pending' = pending /\ UNCHANGED tableVars
    BY <1>3 DEF OpenDialog
  <2>3. pending' = {}
    BY <1>0, <2>2
  <2>4. DialogOK'
    BY <2>2, <2>3 DEF DialogOK
  <2>5. draft' \in Settings /\ limitBox' \in Nat
    BY <2>1, <2>2
  <2>6. selected' \subseteq Shown
    BY <2>2
  <2>7. QED
    BY <2>2, <2>3, <2>4, <2>5, <2>6, DialogStep
<1>4. ASSUME NEW policy \in PolicyChoice, SelectPolicy(policy) PROVE IInv'
  <2>1. [draft EXCEPT !.DevicePolicy = policy] \in Settings
    BY <1>0, TableAssumption DEF Settings, NamedPolicy
  <2>2. QED
    BY <1>0, <1>4, <2>1, EditStep DEF SelectPolicy
<1>5. ASSUME NEW priority \in PriorityChoice, SelectPriority(priority) PROVE IInv'
  <2>1. [draft EXCEPT !.DevicePriority = priority] \in Settings
    BY <1>0, TableAssumption DEF Settings, NamedPriority
  <2>2. QED
    BY <1>0, <1>5, <2>1, EditStep DEF SelectPriority
<1>6. ASSUME NEW mask \in SUBSET Bit, ChooseProcessors(mask) PROVE IInv'
  <2>1. [draft EXCEPT !.AssignmentSetOverride = mask] \in Settings
    BY <1>0 DEF Settings
  <2>2. QED
    BY <1>0, <1>6, <2>1, EditStep DEF ChooseProcessors
<1>7. CASE ClickMsi
  <2>1. /\ [draft EXCEPT !.MsiSupported = MSI_Off] \in Settings
        /\ [draft EXCEPT !.MsiSupported = MSI_On, !.MessageNumberLimit = limitBox] \in Settings
    BY <1>0 DEF Settings
  <2> DEFINE item == IF draft.MsiSupported = MSI_Off
                     THEN [draft EXCEPT !.MsiSupported = MSI_On, !.MessageNumberLimit = limitBox]
                     ELSE [draft EXCEPT !.MsiSupported = MSI_Off]
  <2>2. item \in Settings /\ EditDraft(item) /\ limitBox' = limitBox
    BY <1>7, <2>1 DEF ClickMsi
  <2> HIDE DEF item
  <2>3. QED
    BY <1>0, <2>2, EditStep
<1>8. ASSUME NEW limit \in LimitChoice, EditLimit(limit) PROVE IInv'
  <2>1. limit \in Nat /\ [draft EXCEPT !.MessageNumberLimit = limit] \in Settings
    BY <1>0, TableAssumption DEF Settings
  <2>2. QED
    BY <1>8, <2>1, EditStep DEF EditLimit
<1>9. CASE Accept
  <2>1. DialogOK'
    BY <1>9 DEF Accept, DialogOK, CanAccept
  <2>2. /\ draft' = draft /\ limitBox' = limitBox /\ mode' = "applying"
        /\ selected' = selected /\ pending' = selected /\ UNCHANGED tableVars
    BY <1>9 DEF Accept
  <2>3. QED
    BY <1>0, <2>1, <2>2, DialogStep
<1>10. CASE Cancel
  <2>1. NoDraft \in Settings /\ pending' = {}
    BY <1>0, <1>10 DEF Cancel, NoDraft, Settings
  <2>2. DialogOK'
    BY <1>10, <2>1 DEF Cancel, DialogOK
  <2>3. QED
    BY <1>10, <2>1, <2>2, DialogStep DEF Cancel
<1>11. ASSUME NEW d \in Device, NEW fault \in BOOLEAN, ApplyTo(d, fault) PROVE IInv'
  BY <1>11, ApplyStep
<1>12. CASE Relaunch
  BY <1>12, RelaunchStep
<1>13. CASE UNCHANGED vars
  <2>1. TypeOK'
    BY <1>13 DEF IInv, TypeOK, vars, Shown
  <2>2. DialogOK' /\ RowsAgree'
    BY <1>13 DEF IInv, DialogOK, CanAccept, RowsAgree, LatestRow, vars
  <2>3. QED
    BY <2>1, <2>2 DEF IInv
<1>14. QED
  BY <1>1, <1>2, <1>3, <1>4, <1>5, <1>6, <1>7, <1>8, <1>9, <1>10, <1>11, <1>12, <1>13 DEF Next

LEMMA Invariance == Spec => []IInv
BY InitIInv, NextIInv, PTL DEF Spec

-----------------------------------------------------------------------------
\* Every variable of the window and of the registry keeps its type.
THEOREM TypeCorrect == Spec => []TypeOK
<1>1. IInv => TypeOK
  BY DEF IInv
<1>2. QED
  BY <1>1, Invariance, PTL

\* The table tells what the registry holds: however many devices, searches,
\* dialogs and accepted drafts, the latest row of a device agrees with its keys
\* unless a call failed for it or a search threw its changed copy away.
THEOREM RowsAgreeAlways == Spec => []RowsAgree
<1>1. IInv => RowsAgree
  BY DEF IInv
<1>2. QED
  BY <1>1, Invariance, PTL

\* An accepted draft is stored in each selected device, although SetNewDevice
\* compares it with a row and not with the registry.
THEOREM AcceptedIsStoredAlways == Spec => AcceptedIsStored
<1> DEFINE Stores == \A d \in Device \ (lost \union failed) :
                       ApplyTo(d, FALSE) => Holds(registry'[d], draft)
<1>1. IInv => Stores
  <2> SUFFICES ASSUME IInv, NEW d \in Device, d \notin lost \union failed, ApplyTo(d, FALSE)
               PROVE  Holds(registry'[d], draft)
    OBVIOUS
  <2>1. /\ d \in Shown /\ Row(d) \in Settings /\ registry[d] \in Entry /\ draft \in Settings
        /\ CanAccept
    BY Zenon, ApplyFacts
  <2>2. PICK done \in SetNewDevice(Row(d), draft, registry[d], FALSE) :
          registry' = [registry EXCEPT ![d] = done.entry]
    BY Zenon DEF ApplyTo
  <2>3. Agrees(Row(d), registry[d])
    BY <2>1 DEF IInv, RowsAgree, LatestRow, Row, Shown
  <2>4. Holds(done.entry, draft)
    BY <2>1, <2>3, SetNewDeviceAgrees
  <2>5. registry'[d] = done.entry
    BY <2>2 DEF IInv, TypeOK
  <2>6. QED
    BY <2>4, <2>5
<1>2. QED
  BY <1>1, Invariance, PTL DEF AcceptedIsStored

\* The window never writes a mask without the policy that uses it, nor that
\* policy without a mask that names a processor.
THEOREM WrittenAffinityWellFormedAlways == Spec => WrittenAffinityWellFormed
<1> DEFINE WellWritten == \A d \in Device \ failed' :
                            registry'[d].affinity # registry[d].affinity
                              => WellFormed(registry'[d].affinity)
<1>1. IInv /\ [Next]_vars => WellWritten
  <2> SUFFICES ASSUME IInv, [Next]_vars, NEW d \in Device, d \notin failed',
                      registry'[d].affinity # registry[d].affinity
               PROVE  WellFormed(registry'[d].affinity)
    OBVIOUS
  <2>1. PICK e \in Device, fault \in BOOLEAN : ApplyTo(e, fault)
    BY DEF Next, vars, Search, ClearSearch, OpenDialog, SelectPolicy, SelectPriority,
           ChooseProcessors, ClickMsi, EditLimit, EditDraft, Accept, Cancel, Relaunch, tableVars
  <2>2. /\ Row(e) \in Settings /\ registry[e] \in Entry /\ draft \in Settings
        /\ CanAccept
    BY <2>1, ApplyFacts
  <2>3. PICK done \in SetNewDevice(Row(e), draft, registry[e], fault) :
          registry' = [registry EXCEPT ![e] = done.entry]
    BY <2>1, Zenon DEF ApplyTo
  <2>4. d = e /\ registry'[d] = done.entry
    BY <2>3 DEF IInv, TypeOK
  <2>5. fault = FALSE
    BY <2>1, <2>4 DEF ApplyTo
  <2>6. done \in SetNewDevice(Row(e), draft, registry[e], FALSE)
    BY <2>3, <2>5, Zenon
  <2>7. done.entry.affinity = registry[e].affinity \/ WellFormed(done.entry.affinity)
    BY <2>2, <2>6, SetNewDeviceWellFormed DEF CanAccept
  <2>8. QED
    BY <2>4, <2>7
<1>2. QED
  BY <1>1, Invariance, PTL DEF Spec, WrittenAffinityWellFormed

\* What the rows have in common, unless it is the placeholder, each of them has.
LEMMA CommonOfEach ==
  ASSUME NEW S, NEW placeholder, NEW value, NEW d \in S,
         FindCommonValue(S, placeholder, value) # placeholder
  PROVE  value[d] = FindCommonValue(S, placeholder, value)
  BY DEF FindCommonValue

\* Opening the dialog for any rows that share policy and priority and pressing
\* OK keeps policy, priority, the mask in use and the MSI mode of each of their
\* devices, whatever else the rows differ in, and a message limit in use when it
\* is that of the draft.
THEOREM UntouchedKeepsAlways == Spec => []UntouchedKeeps
<1>1. IInv => UntouchedKeeps
  <2> SUFFICES ASSUME IInv, mode = "table", NEW S \in (SUBSET Shown) \ {{}}, NEW d \in S,
                      NEW copied \in BOOLEAN,
                      d \notin lost \union failed,
                      OpenedDraft(S, copied).DevicePolicy # Empty,
                      OpenedDraft(S, copied).DevicePriority # Empty,
                      ~(/\ OpenedDraft(S, copied).DevicePolicy = IrqPolicySpecifiedProcessors
                        /\ OpenedDraft(S, copied).AssignmentSetOverride = {}),
                      NEW done \in SetNewDevice(Row(d), OpenedDraft(S, copied),
                                                registry[d], FALSE)
               PROVE  /\ SameEffect(registry[d], done.entry)
                      /\ (OpenedDraft(S, copied).MsiSupported = MSI_On
                            => LimitOfEach(S, OpenedDraft(S, copied)))
                           => SameLimit(registry[d], done.entry)
    BY DEF UntouchedKeeps
  <2> DEFINE item == OpenedDraft(S, copied)
  <2>0. item.DevicePolicy # Empty /\ item.DevicePriority # Empty
    OBVIOUS
  <2>a. /\ item \in Settings
        /\ item.DevicePolicy = CommonSettings(S).DevicePolicy
        /\ item.DevicePriority = CommonSettings(S).DevicePriority
        /\ item.AssignmentSetOverride = CommonSettings(S).AssignmentSetOverride
        /\ item.MsiSupported = CommonSettings(S).MsiSupported
    BY OpenedDraftType DEF IInv
  <2>1. /\ item.DevicePolicy = FindCommonValue(S, Empty, Field(S, "DevicePolicy"))
        /\ item.DevicePriority = FindCommonValue(S, Empty, Field(S, "DevicePriority"))
        /\ item.AssignmentSetOverride
             = FindCommonValue(S, {}, Field(S, "AssignmentSetOverride"))
        /\ item.MsiSupported = FindCommonValue(S, MSI_Tristate, Field(S, "MsiSupported"))
    <3> HIDE DEF item
    <3>1. QED
      BY <2>a DEF CommonSettings
  <2>2. /\ Field(S, "DevicePolicy")[d] = Row(d).DevicePolicy
        /\ Field(S, "DevicePriority")[d] = Row(d).DevicePriority
        /\ Field(S, "AssignmentSetOverride")[d] = Row(d).AssignmentSetOverride
        /\ Field(S, "MsiSupported")[d] = Row(d).MsiSupported
    BY DEF Field
  <2>3. /\ Row(d).DevicePolicy = item.DevicePolicy
        /\ Row(d).DevicePriority = item.DevicePriority
        /\ item.AssignmentSetOverride # {}
             => Row(d).AssignmentSetOverride = item.AssignmentSetOverride
        /\ item.MsiSupported # MSI_Tristate => Row(d).MsiSupported = item.MsiSupported
    <3>0. \A placeholder, value :
            FindCommonValue(S, placeholder, value) # placeholder
              => value[d] = FindCommonValue(S, placeholder, value)
      BY CommonOfEach, Zenon
    <3> HIDE DEF item
    <3>1. Row(d).DevicePolicy = item.DevicePolicy
      BY <2>0, <2>1, <2>2, <3>0
    <3>2. Row(d).DevicePriority = item.DevicePriority
      BY <2>0, <2>1, <2>2, <3>0
    <3>3. ASSUME item.AssignmentSetOverride # {}
          PROVE  Row(d).AssignmentSetOverride = item.AssignmentSetOverride
      BY <2>1, <2>2, <3>0, <3>3
    <3>4. ASSUME item.MsiSupported # MSI_Tristate
          PROVE  Row(d).MsiSupported = item.MsiSupported
      BY <2>1, <2>2, <3>0, <3>4
    <3>5. QED
      BY <3>1, <3>2, <3>3, <3>4
  <2>4. item \in Settings
    BY <2>a
  <2>5. d \in Device /\ Row(d) \in Settings /\ registry[d] \in Entry
    BY DEF IInv, TypeOK, Shown, Row
  <2>6. Agrees(Row(d), registry[d])
    BY <2>5 DEF IInv, RowsAgree, LatestRow, Row, Shown
  <2>7. Holds(done.entry, item)
    BY <2>4, <2>5, <2>6, SetNewDeviceAgrees
  <2>8. done \in SetNewDevice(Row(d), item, registry[d], FALSE)
    OBVIOUS
  <2> HIDE DEF item
  <2>9. ASSUME item.MsiSupported # MSI_Off, item.MsiSupported # MSI_On
        PROVE  done.entry.msi = registry[d].msi
    <3>1. \A row \in Settings, it \in Settings, entry \in Entry :
            it.MsiSupported # MSI_Off /\ it.MsiSupported # MSI_On
              => \A x \in SetNewDevice(row, it, entry, FALSE) : x.entry.msi = entry.msi
      BY SetNewDeviceKeepsMsi, Zenon
    <3> DEFINE row == Row(d)
               old == registry[d]
    <3>2. row \in Settings
      BY <2>5
    <3>3. old \in Entry
      BY <2>5
    <3>4. done \in SetNewDevice(row, item, old, FALSE)
      BY <2>8
    <3>5. done.entry.msi = old.msi
      <4> HIDE DEF row, old
      <4>1. item.MsiSupported # MSI_Off /\ item.MsiSupported # MSI_On
        BY <2>9
      <4>2. \A x \in SetNewDevice(row, item, old, FALSE) : x.entry.msi = old.msi
        BY <2>4, <3>1, <3>2, <3>3, <4>1, Zenon
      <4>3. QED
        BY <3>4, <4>2, Zenon
    <3>6. QED
      BY <3>5
  <2>10. StoredMsi(done.entry) = StoredMsi(registry[d])
    <3>1. CASE item.MsiSupported \in {MSI_Off, MSI_On}
      BY <2>3, <2>6, <2>7, <3>1
         DEF Agrees, MsiAgrees, Holds, HoldsMsi, MSI_Off, MSI_On, MSI_Tristate
    <3>2. CASE item.MsiSupported # MSI_Off /\ item.MsiSupported # MSI_On
      BY <2>9, <3>2 DEF StoredMsi
    <3>3. QED
      BY <3>1, <3>2
  <2>11. ~(item.DevicePolicy = IrqPolicySpecifiedProcessors /\ item.AssignmentSetOverride = {})
    BY DEF item
  <2>12. QED
    <3>1. /\ StoredPolicy(done.entry) = StoredPolicy(registry[d])
          /\ StoredPriority(done.entry) = StoredPriority(registry[d])
      BY <2>3, <2>6, <2>7 DEF Agrees, AffinityAgrees, Holds, HoldsAffinity
    <3>2. ASSUME StoredPolicy(registry[d]) = IrqPolicySpecifiedProcessors
          PROVE  StoredMask(done.entry) = StoredMask(registry[d])
      BY <2>3, <2>6, <2>7, <2>11, <3>2 DEF Agrees, AffinityAgrees, Holds, HoldsAffinity
    <3>3. SameEffect(registry[d], done.entry)
      BY <2>10, <3>1, <3>2 DEF SameEffect
    <3>4. ASSUME item.MsiSupported = MSI_On => LimitOfEach(S, item),
                 StoredMsi(registry[d]) = MSI_On
          PROVE  StoredLimit(done.entry) = StoredLimit(registry[d])
      <4>1. CASE item.MsiSupported = MSI_On
        <5>1. Row(d).MessageNumberLimit = item.MessageNumberLimit
          BY <3>4, <4>1 DEF LimitOfEach
        <5>2. Row(d).MsiSupported = MSI_On
          BY <2>3, <4>1 DEF MSI_On, MSI_Tristate
        <5>3. StoredLimit(registry[d]) = Row(d).MessageNumberLimit
          BY <2>6, <5>2 DEF Agrees, MsiAgrees
        <5>4. StoredLimit(done.entry) = item.MessageNumberLimit
          BY <2>7, <4>1 DEF Holds, HoldsMsi
        <5>5. QED
          BY <5>1, <5>3, <5>4
      <4>2. CASE item.MsiSupported = MSI_Off
        <5>1. StoredMsi(registry[d]) = MSI_Off
          BY <2>3, <2>6, <4>2 DEF Agrees, MsiAgrees, MSI_Off, MSI_Tristate
        <5>2. QED
          BY <3>4, <5>1 DEF MSI_Off, MSI_On
      <4>3. CASE item.MsiSupported # MSI_Off /\ item.MsiSupported # MSI_On
        BY <2>9, <4>3 DEF StoredLimit
      <4>4. QED
        BY <4>1, <4>2, <4>3
    <3>5. (item.MsiSupported = MSI_On => LimitOfEach(S, item))
            => SameLimit(registry[d], done.entry)
      BY <3>4 DEF SameLimit
    <3>6. QED
      BY <3>3, <3>5 DEF item
<1>2. QED
  BY <1>1, Invariance, PTL
=============================================================================
