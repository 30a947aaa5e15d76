----------------------------- MODULE DeviceTable -----------------------------
(***************************************************************************)
(* The window: a table of devices read from the registry once, at launch,  *)
(* a search that shows some of them, and the policy dialog, which edits a  *)
(* draft for the selected rows and, when accepted, stores it in each of    *)
(* them in turn.                                                           *)
(*                                                                         *)
(* All handlers run on the window's thread and the dialog is modal, so a   *)
(* handler is one step; only the loop that stores the draft is taken       *)
(* device by device, because a registry call may fail in it and the        *)
(* program may be killed in it.                                            *)
(***************************************************************************)
EXTENDS DeviceSettings

CONSTANTS
  Device,           \* the devices that have an interrupt
  InterruptTypeMap, \* the interrupt types each device supports
  InitialEntry,     \* what the registry may hold of a device at first
  PolicyChoice,     \* the policies the user picks from
  PriorityChoice,   \* the priorities the user picks from
  LimitChoice,      \* the message limits the user picks from
  FaultyDevice      \* the devices for which a registry call may fail

ASSUME TableAssumption ==
  /\ InterruptTypeMap \in [Device -> SUBSET InterruptType]
  /\ InitialEntry \subseteq Entry
  /\ PolicyChoice \subseteq NamedPolicy
  /\ PriorityChoice \subseteq NamedPriority
  /\ LimitChoice \subseteq Nat
  /\ FaultyDevice \subseteq Device

VARIABLES
  registry,   \* what is stored of each device
  allDevices, \* the rows the program keeps of all devices
  searching,  \* there is a text in the search field
  filtered,   \* the rows it shows then: copies
  mode,       \* which part of the window takes the user's input
  selected,   \* the devices of the selected rows while the dialog is open
  draft,      \* the settings the dialog edits
  limitBox,   \* the number in the field of the message limit
  pending,    \* the selected devices the accepted draft is not yet stored in
  lost,       \* history: devices whose changed copy a search threw away
  failed      \* history: devices for which a registry call may have failed

vars == <<registry, allDevices, searching, filtered, mode, selected, draft,
          limitBox, pending, lost, failed>>
tableVars  == <<registry, allDevices, searching, filtered, lost, failed>>
dialogVars == <<mode, selected, draft, limitBox, pending>>

\* The dialog's placeholder for policies, or priorities, that differ.
Empty == 32

NoDraft == [DevicePolicy |-> 0, DevicePriority |-> 0, AssignmentSetOverride |-> {},
            MsiSupported |-> MSI_Invalid, MessageNumberLimit |-> 0]

Shown  == IF searching THEN DOMAIN filtered ELSE Device
Row(d) == IF searching THEN filtered[d] ELSE allDevices[d]

\* The rows of the table as read from the registry: no search, no dialog.
FreshTable ==
  /\ allDevices' = [d \in Device |-> ReadDevice(registry'[d], InterruptTypeMap[d])]
  /\ searching' = FALSE /\ filtered' = [d \in {} |-> NoDraft]
  /\ mode' = "table" /\ selected' = {} /\ draft' = NoDraft /\ limitBox' = 0
  /\ pending' = {} /\ lost' = {} /\ failed' = {}

Init ==
  /\ registry \in [Device -> InitialEntry]
  /\ allDevices = [d \in Device |-> ReadDevice(registry[d], InterruptTypeMap[d])]
  /\ searching = FALSE /\ filtered = [d \in {} |-> NoDraft]
  /\ mode = "table" /\ selected = {} /\ draft = NoDraft /\ limitBox = 0
  /\ pending = {} /\ lost = {} /\ failed = {}

-----------------------------------------------------------------------------
(***************************************************************************)
(* The search field.  A text shows copies of the rows that match it, made  *)
(* from allDevices; no text shows allDevices itself again.                 *)
(***************************************************************************)
DropCopies == lost' = lost \union {d \in DOMAIN filtered : filtered[d] # allDevices[d]}

Search(matches) ==
  /\ mode = "table"
  /\ searching' = TRUE
  /\ filtered' = [d \in matches |-> allDevices[d]]
  /\ DropCopies
  /\ UNCHANGED <<registry, allDevices, failed>>
  /\ UNCHANGED dialogVars

ClearSearch ==
  /\ mode = "table"
  /\ searching' = FALSE
  /\ filtered' = [d \in {} |-> NoDraft]
  /\ DropCopies
  /\ UNCHANGED <<registry, allDevices, failed>>
  /\ UNCHANGED dialogVars

-----------------------------------------------------------------------------
(***************************************************************************)
(* The dialog.                                                             *)
(***************************************************************************)
Field(S, name) == [d \in S |-> Row(d)[name]]

CommonSettings(S) ==
  [DevicePolicy          |-> FindCommonValue(S, Empty, Field(S, "DevicePolicy")),
   DevicePriority        |-> FindCommonValue(S, Empty, Field(S, "DevicePriority")),
   AssignmentSetOverride |-> FindCommonValue(S, {}, Field(S, "AssignmentSetOverride")),
   MsiSupported          |-> FindCommonValue(S, MSI_Tristate, Field(S, "MsiSupported")),
   MessageNumberLimit    |-> FindCommonValue(S, 0, Field(S, "MessageNumberLimit"))]

MaxLimit(S) == hasMsiX(FindCommonValue(S, {}, InterruptTypeMap))

\* The limit's field shows at least 1.  Whether showing it already calls the
\* handler that copies the field to the draft is up to the toolkit (copied).
LimitShown(S) ==
  LET limit == CommonSettings(S).MessageNumberLimit IN IF limit < 1 THEN 1 ELSE limit

OpenedDraft(S, copied) ==
  IF copied THEN [CommonSettings(S) EXCEPT !.MessageNumberLimit = LimitShown(S)]
  ELSE CommonSettings(S)

OpenDialog(S, copied) ==
  /\ mode = "table"
  /\ mode' = "dialog"
  /\ selected' = S
  /\ limitBox' = LimitShown(S)
  /\ draft' = OpenedDraft(S, copied)
  /\ UNCHANGED pending
  /\ UNCHANGED tableVars

EditDraft(item) ==
  /\ mode = "dialog"
  /\ draft' = item
  /\ UNCHANGED <<mode, selected, pending>>
  /\ UNCHANGED tableVars

SelectPolicy(policy) ==
  /\ EditDraft([draft EXCEPT !.DevicePolicy = policy])
  /\ UNCHANGED limitBox

SelectPriority(priority) ==
  /\ EditDraft([draft EXCEPT !.DevicePriority = priority])
  /\ UNCHANGED limitBox

\* A click on a processor or on a preset; they show for one policy only.
ChooseProcessors(mask) ==
  /\ draft.DevicePolicy = IrqPolicySpecifiedProcessors
  /\ EditDraft([draft EXCEPT !.AssignmentSetOverride = mask])
  /\ UNCHANGED limitBox

\* A click on the MSI box.  The box of a mixed selection starts in its third
\* state, goes from there to cleared, then to checked, and back to the third
\* state; that is not checked either, so the draft's mode is off in both, and
\* the click between the two changes nothing.
ClickMsi ==
  /\ draft.MsiSupported # MSI_Invalid
  /\ EditDraft(IF draft.MsiSupported = MSI_Off
               THEN [draft EXCEPT !.MsiSupported = MSI_On, !.MessageNumberLimit = limitBox]
               ELSE [draft EXCEPT !.MsiSupported = MSI_Off])
  /\ UNCHANGED limitBox

EditLimit(limit) ==
  /\ draft.MsiSupported = MSI_On
  /\ limit <= MaxLimit(selected)
  /\ limitBox' = limit
  /\ EditDraft([draft EXCEPT !.MessageNumberLimit = limit])

AlwaysAccept == TRUE
CanAccept == ~(draft.DevicePolicy = IrqPolicySpecifiedProcessors
               /\ draft.AssignmentSetOverride = {})

AcceptForAll ==
  /\ mode = "dialog"
  /\ CanAccept
  /\ mode' = "applying"
  /\ pending' = Shown
  /\ UNCHANGED <<selected, draft, limitBox>>
  /\ UNCHANGED tableVars

Accept ==
  /\ mode = "dialog"
  /\ CanAccept
  /\ mode' = "applying"
  /\ pending' = selected
  /\ UNCHANGED <<selected, draft, limitBox>>
  /\ UNCHANGED tableVars

Cancel ==
  /\ mode = "dialog"
  /\ mode' = "table" /\ selected' = {} /\ draft' = NoDraft /\ limitBox' = 0
  /\ UNCHANGED pending
  /\ UNCHANGED tableVars

-----------------------------------------------------------------------------
\* The loop goes on with the rows that are left; after the last one the table
\* takes the input again.
RoundDone(d) ==
  /\ pending' = pending \ {d}
  /\ IF pending = {d}
     THEN mode' = "table" /\ selected' = {} /\ draft' = NoDraft /\ limitBox' = 0
     ELSE UNCHANGED <<mode, selected, draft, limitBox>>

\* One round of the loop over the selected rows: the row the table shows and
\* the registry change together.  The question whether to restart the device
\* is never asked, because nothing sets restartPopup.
ApplyTo(d, fault) ==
  /\ mode = "applying"
  /\ d \in pending
  /\ fault => d \in FaultyDevice
  /\ \E done \in SetNewDevice(Row(d), draft, registry[d], fault) :
       /\ registry' = [registry EXCEPT ![d] = done.entry]
       /\ IF searching
          THEN /\ filtered' = [filtered EXCEPT ![d] = done.row]
               /\ UNCHANGED allDevices
          ELSE /\ allDevices' = [allDevices EXCEPT ![d] = done.row]
               /\ UNCHANGED filtered
  /\ RoundDone(d)
  /\ failed' = IF fault THEN failed \union {d} ELSE failed
  /\ UNCHANGED <<searching, lost>>

\* The program is closed, or killed at any point, and launched again.
Relaunch ==
  /\ UNCHANGED registry
  /\ FreshTable

Next ==
  \/ \E matches \in SUBSET Device : Search(matches)
  \/ ClearSearch
  \/ \E S \in (SUBSET Shown) \ {{}}, copied \in BOOLEAN : OpenDialog(S, copied)
  \/ \E policy \in PolicyChoice : SelectPolicy(policy)
  \/ \E priority \in PriorityChoice : SelectPriority(priority)
  \/ \E mask \in SUBSET Bit : ChooseProcessors(mask)
  \/ ClickMsi
  \/ \E limit \in LimitChoice : EditLimit(limit)
  \/ Accept
  \/ Cancel
  \/ \E d \in Device, fault \in BOOLEAN : ApplyTo(d, fault)
  \/ Relaunch

Spec == Init /\ [][Next]_vars

-----------------------------------------------------------------------------
TypeOK ==
  /\ registry \in [Device -> Entry]
  /\ allDevices \in [Device -> Settings]
  /\ searching \in BOOLEAN
  /\ DOMAIN filtered \subseteq Device
  /\ filtered \in [DOMAIN filtered -> Settings]
  /\ mode \in {"table", "dialog", "applying"}
  /\ selected \subseteq Shown
  /\ draft \in Settings
  /\ limitBox \in Nat
  /\ pending \subseteq selected
  /\ lost \subseteq Device /\ failed \subseteq Device

(***************************************************************************)
(* The row of a device tells what the registry holds of it: through any    *)
(* number of searches, dialogs and accepted drafts, the row the window     *)
(* would show for the device (the copy of a running search, else           *)
(* allDevices) agrees with the keys, although the window never reads them  *)
(* again after FindAllDevices (app.go main).  Excepted are the devices for *)
(* which a registry call failed and those whose changed copy was thrown    *)
(* away by the next search.                                                *)
(***************************************************************************)
LatestRow(d) == IF searching /\ d \in DOMAIN filtered THEN filtered[d] ELSE allDevices[d]

RowsAgree == \A d \in Device \ (lost \union failed) : Agrees(LatestRow(d), registry[d])

(***************************************************************************)
(* What was accepted is stored: after its round of the loop a device's     *)
(* keys hold the draft's policy and priority, its mask if the policy uses  *)
(* one, and its MSI mode and limit if the draft decides about MSI, even    *)
(* though SetNewDevice compares with a row and may write nothing.          *)
(***************************************************************************)
AcceptedIsStored ==
  [][\A d \in Device \ (lost \union failed) :
       ApplyTo(d, FALSE) => Holds(registry'[d], draft)]_vars

(***************************************************************************)
(* An affinity key the window writes is one the interrupt arbiter can use: *)
(* a mask with the policy for specified processors, naming a processor,    *)
(* and no mask with any other policy (setAffinityPolicy with the check of  *)
(* the dialog's OK button).                                                *)
(***************************************************************************)
WrittenAffinityWellFormed ==
  [][\A d \in Device \ failed' :
       registry'[d].affinity # registry[d].affinity => WellFormed(registry'[d].affinity)]_vars

(***************************************************************************)
(* Opening the dialog and pressing OK keeps what rows share: as long as    *)
(* the selected rows have policy and priority in common, storing the draft *)
(* as it was opened keeps the policy, the priority, the mask in use and    *)
(* the MSI mode of every one of them, whatever else they differ in         *)
(* (FindCommonValue and its placeholders in RunDialog, then SetNewDevice). *)
(* A message limit in use is kept when it is the one the draft has.  Else  *)
(* it is not: the draft of rows that all have MSI on but not the same      *)
(* limit has the limit 0, or the 1 its field shows, and takes the limit    *)
(* from each of them (dialog.go RunDialog, reg.go setMSIMode); the field   *)
(* also makes a 1 of no limit.                                             *)
(***************************************************************************)
LimitOfEach(S, item) == \A d \in S : Row(d).MessageNumberLimit = item.MessageNumberLimit

SameEffect(old, new) ==
  /\ StoredPolicy(new) = StoredPolicy(old)
  /\ StoredPriority(new) = StoredPriority(old)
  /\ StoredPolicy(old) = IrqPolicySpecifiedProcessors => StoredMask(new) = StoredMask(old)
  /\ StoredMsi(new) = StoredMsi(old)

SameLimit(old, new) == StoredMsi(old) = MSI_On => StoredLimit(new) = StoredLimit(old)

UntouchedKeeps ==
  mode = "table" =>
    \A S \in (SUBSET Shown) \ {{}}, copied \in BOOLEAN :
      LET item    == OpenedDraft(S, copied)
          refused == /\ item.DevicePolicy = IrqPolicySpecifiedProcessors
                     /\ item.AssignmentSetOverride = {}
      IN  Empty \notin {item.DevicePolicy, item.DevicePriority} /\ ~refused =>
            \A d \in S \ (lost \union failed) :
              \A done \in SetNewDevice(Row(d), item, registry[d], FALSE) :
                /\ SameEffect(registry[d], done.entry)
                /\ (item.MsiSupported = MSI_On => LimitOfEach(S, item))
                     => SameLimit(registry[d], done.entry)

-----------------------------------------------------------------------------
(***************************************************************************)
(* Two things the program says of itself that do not hold.                 *)
(***************************************************************************)
\* The placeholder of a mixed selection is "Empty" (dialog.go:89-90); what is
\* stored is always a policy and a priority that have a name.
NamedValuesStored ==
  \A d \in Device \ failed : /\ StoredPolicy(registry[d]) \in NamedPolicy
                             /\ StoredPriority(registry[d]) \in NamedPriority

\* "Export current settings" (dialog.go:398) writes the rows the dialog was
\* opened for: they are what the registry currently holds.
ExportIsCurrent ==
  mode = "dialog" => \A d \in selected \ failed : Agrees(Row(d), registry[d])
=============================================================================
