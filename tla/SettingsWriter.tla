---------------------------- MODULE SettingsWriter ----------------------------
(***************************************************************************)
(* Reading a device and storing its settings, call by call.  Windows and   *)
(* runs of the command line, each a process, read and write the two        *)
(* registry keys of one device; between any two registry calls of one come *)
(* those of the others, a call may fail, and a process may be killed.  A   *)
(* window reads the device once and goes on with its row; a run reads it   *)
(* afresh, stores once and exits.                                          *)
(***************************************************************************)
EXTENDS DeviceSettings, Sequences

CONSTANTS
  Writer,         \* the processes
  Window,         \* those that are windows
  InterruptTypes, \* the interrupt types the device supports
  InitialEntry,   \* what the registry may hold of it at first
  Change,         \* what is asked for: values for some of the settings
  Faulty,         \* registry calls may fail
  Closed          \* stands for the row of a process that has not read the device

Key   == {"msi", "affinity"}

\* The settings, and the values each may have.
FieldValues ==
  [DevicePolicy |-> Nat, DevicePriority |-> Nat, AssignmentSetOverride |-> SUBSET Bit,
   MsiSupported |-> {MSI_Off, MSI_On, MSI_Tristate, MSI_Invalid}, MessageNumberLimit |-> Nat]
Field == DOMAIN FieldValues

\* The settings with those of a change in their place.
ChangedTo(row, change) ==
  [f \in Field |-> IF f \in DOMAIN change THEN change[f] ELSE row[f]]

ASSUME WriterAssumption ==
  /\ Window \subseteq Writer
  /\ InterruptTypes \subseteq InterruptType
  /\ InitialEntry \subseteq Entry
  /\ \A change \in Change : /\ DOMAIN change \subseteq Field
                             /\ \A f \in DOMAIN change : change[f] \in FieldValues[f]
  /\ Faulty \in BOOLEAN
  /\ Closed \notin Settings

VARIABLES
  registry, \* the two keys of the device
  writer,   \* what each process that has read the device is doing
  read,     \* what each process that is reading it has read so far
  torn      \* history: a setter or a read of the affinity key was not left to itself

vars == <<registry, writer, read, torn>>

(***************************************************************************)
(* The calls that read the device, with their places in the order of       *)
(* calls: one that opens each key and one for each value.  The MSI key of  *)
(* a device without interrupt types is not read.                           *)
(***************************************************************************)
OpenAt == [affinity |-> 1, msi |-> 5]
ReadAt == [DevicePolicy |-> 2, DevicePriority |-> 3, AssignmentSetOverride |-> 4,
           MessageNumberLimit |-> 6, MsiSupported |-> 7]
LastRead == IF InterruptTypes = {} THEN 4 ELSE 7

KeyOf(f) == IF f \in {"MsiSupported", "MessageNumberLimit"} THEN "msi" ELSE "affinity"

\* How many calls a process has made, the row it makes of what they found, and
\* the keys its handles are good for.  As history: the keys of which a call
\* failed or which another process changed since it opened them.
Reading == [at : 0 .. 6, row : Settings, open : SUBSET Key, changed : SUBSET Key]

EmptyRow == ReadDevice([affinity |-> Absent, msi |-> Absent], InterruptTypes)
NoRead   == [at |-> 0, row |-> EmptyRow, open |-> {}, changed |-> {}]

(***************************************************************************)
(* A process: its row (orgItem of a run), the settings it stores, the keys *)
(* whose setters it still has to run, the number of the next call of the   *)
(* first of them, and whether the key its handle is of was deleted.  As    *)
(* history: what was stored in that key before the setter, or since by     *)
(* another, whether the setter met a failing call or such a change         *)
(* (spoiled), and the keys of which the row may be out of date.            *)
(***************************************************************************)
Process ==
  [pc : {"closed", "ready", "storing", "done"}, row : Settings \union {Closed},
   item : Settings \union {Closed}, todo : SUBSET Key, at : 1 .. 4, deleted : BOOLEAN,
   before : AffinityKey \union MsiKey, spoiled : BOOLEAN, stale : SUBSET Key]

NoProcess ==
  [pc |-> "closed", row |-> Closed, item |-> Closed, todo |-> {}, at |-> 1,
   deleted |-> FALSE, before |-> Absent, spoiled |-> FALSE, stale |-> {}]

Init ==
  /\ registry \in InitialEntry
  /\ writer = [w \in Writer |-> NoProcess]
  /\ read = [w \in Writer |-> NoRead]
  /\ torn = FALSE

-----------------------------------------------------------------------------
(***************************************************************************)
(* The calls of the setters, in their order.  A value of Absent stands for *)
(* the call that deletes the value.                                        *)
(***************************************************************************)
OpenKey   == [op |-> "open", name |-> "", value |-> Absent]
CreateKey == [op |-> "create", name |-> "", value |-> Absent]
DeleteKey == [op |-> "delete", name |-> "", value |-> Absent]
SetValue(name, value) == [op |-> "set", name |-> name, value |-> value]

MaskValue(item) ==
  IF item.DevicePolicy = IrqPolicySpecifiedProcessors THEN item.AssignmentSetOverride ELSE Absent
PriorityValue(item) ==
  IF item.DevicePriority = 0 THEN Absent ELSE item.DevicePriority

MsiCallsNoLimit(item) ==
  IF item.MsiSupported = MSI_Off THEN <<OpenKey, DeleteKey>>
  ELSE IF item.MsiSupported = MSI_On THEN <<CreateKey, SetValue("MSISupported", MSI_On)>>
  ELSE <<>>
MsiCalls(item) ==
  IF item.MsiSupported = MSI_Off THEN <<OpenKey, DeleteKey>>
  ELSE IF item.MsiSupported = MSI_On
  THEN <<CreateKey, SetValue("MSISupported", MSI_On),
         SetValue("MessageNumberLimit", LimitValue(item))>>
  ELSE <<>>

AffinityCallsNoMask(item) ==
  IF NoAffinity(item) THEN <<OpenKey, DeleteKey>>
  ELSE <<CreateKey, SetValue("DevicePolicy", item.DevicePolicy),
         SetValue("DevicePriority", PriorityValue(item))>>
AffinityCalls(item) ==
  IF NoAffinity(item) THEN <<OpenKey, DeleteKey>>
  ELSE <<CreateKey, SetValue("DevicePolicy", item.DevicePolicy),
         SetValue("AssignmentSetOverride", MaskValue(item)),
         SetValue("DevicePriority", PriorityValue(item))>>

Calls(key, item) == IF key = "msi" THEN MsiCalls(item) ELSE AffinityCalls(item)

\* What is in a key after a call that works.
EffectOfOtherKey(key, call, stored) ==
  CASE call.op = "open"   -> stored
    [] call.op = "create" -> IF stored # Absent THEN stored ELSE NewAffinityKey
    [] call.op = "delete" -> Absent
    [] call.op = "set"    -> [stored EXCEPT ![call.name] = call.value]
Effect(key, call, stored) ==
  CASE call.op = "open"   -> stored
    [] call.op = "create" -> IF stored # Absent THEN stored
                             ELSE IF key = "msi" THEN NewMsiKey ELSE NewAffinityKey
    [] call.op = "delete" -> Absent
    [] call.op = "set"    -> [stored EXCEPT ![call.name] = call.value]

\* The row as the setter of a key leaves it.
RowAfterMaskKept(key, row, item) ==
  CASE key = "affinity" ->
         [row EXCEPT !.DevicePolicy = item.DevicePolicy,
                     !.DevicePriority = item.DevicePriority,
                     !.AssignmentSetOverride = item.AssignmentSetOverride]
    [] key = "msi" /\ item.MsiSupported = MSI_Off -> [row EXCEPT !.MsiSupported = MSI_Off]
    [] OTHER -> [row EXCEPT !.MsiSupported = item.MsiSupported,
                            !.MessageNumberLimit = item.MessageNumberLimit]
RowAfter(key, row, item) ==
  CASE key = "affinity" ->
         [row EXCEPT !.DevicePolicy = item.DevicePolicy,
                     !.DevicePriority = item.DevicePriority,
                     !.AssignmentSetOverride = MaskOf(item)]
    [] key = "msi" /\ item.MsiSupported = MSI_Off -> [row EXCEPT !.MsiSupported = MSI_Off]
    [] OTHER -> [row EXCEPT !.MsiSupported = item.MsiSupported,
                            !.MessageNumberLimit = item.MessageNumberLimit]

-----------------------------------------------------------------------------
\* A setter is under way: its first call has been made.
Current(s)  == IF "msi" \in s.todo THEN "msi" ELSE "affinity"
Mid(s, key) == s.todo # {} /\ Current(s) = key /\ s.at > 1

OpenToRead(w, key, fails) ==
  /\ writer[w].pc = "closed"
  /\ read[w].at + 1 = OpenAt[key]
  /\ fails => Faulty
  /\ read' = [read EXCEPT ![w].at = @ + 1,
                         ![w].open = IF fails \/ registry[key] = Absent THEN @ ELSE @ \union {key},
                         ![w].changed = IF fails THEN @ \union {key} ELSE @]
  /\ UNCHANGED <<registry, writer, torn>>

\* With no good handle nothing is found.  With its last value the process has
\* its row.
RowAfterRead(r, f, fails) ==
  IF KeyOf(f) \in r.open /\ ~fails
  THEN [r.row EXCEPT ![f] = ReadDevice(registry, InterruptTypes)[f]] ELSE r.row

ReadValue(w, f, fails) ==
  LET r       == read[w]
      row     == RowAfterRead(r, f, fails)
      changed == IF fails THEN r.changed \union {KeyOf(f)} ELSE r.changed
      over    == ReadAt[f] = LastRead
  IN  /\ writer[w].pc = "closed"
      /\ r.at + 1 = ReadAt[f]
      /\ fails => Faulty
      /\ read' = [read EXCEPT ![w] = IF over THEN NoRead
                                     ELSE [r EXCEPT !.at = @ + 1, !.row = row, !.changed = changed]]
      /\ writer' = IF over
                   THEN [writer EXCEPT ![w] = [NoProcess EXCEPT !.pc = "ready", !.row = row,
                                                                !.item = row, !.stale = changed]]
                   ELSE writer
      /\ torn' = (torn \/ (f = "AssignmentSetOverride"
                           /\ ("affinity" \in changed \/ \E q \in Writer : Mid(writer[q], "affinity"))))
      /\ UNCHANGED registry

\* The keys a process stores when asked: a window those that differ from its
\* row, a run those it has a flag for.  For a device without MSI there is
\* nothing to call.
AskedKeys(w, row, item, change) ==
  {key \in Key :
    /\ Calls(key, item) # <<>>
    /\ IF w \in Window
       THEN IF key = "msi" THEN ~SameMsi(row, item) ELSE ~SameAffinity(row, item)
       ELSE \E f \in DOMAIN change : KeyOf(f) = key}

\* The dialog refuses an empty mask, a run never looks.
Ask(w, change) ==
  LET s    == writer[w]
      item == ChangedTo(s.row, change)
      keys == AskedKeys(w, s.row, item, change)
  IN  /\ s.pc = "ready"
      /\ w \in Window => MaskValue(item) # {}
      /\ writer' = [writer EXCEPT ![w].item = item, ![w].todo = keys,
                                  ![w].pc = IF keys # {} THEN "storing"
                                            ELSE IF w \in Window THEN "ready" ELSE "done"]
      /\ UNCHANGED <<registry, read, torn>>

\* What the change of a key means to the other processes: their rows are out
\* of date, setters under way are disturbed, and handles of a key that was
\* deleted are of no more use.
Disturbed(s, key, value) ==
  IF s.pc = "closed" THEN s
  ELSE IF Mid(s, key)
  THEN [s EXCEPT !.stale = @ \union {key}, !.spoiled = TRUE, !.before = value,
                 !.deleted = IF value = Absent THEN TRUE ELSE @]
  ELSE [s EXCEPT !.stale = @ \union {key}]

\* And to those that are reading: what they read of it is out of date.
DisturbedRead(r, key, value) ==
  IF r.at < OpenAt[key] THEN r
  ELSE [r EXCEPT !.changed = @ \union {key}, !.open = IF value = Absent THEN @ \ {key} ELSE @]

\* The setter is over after its last call, or when there is no key to open.
AfterSetter(w, s, key, updated, spoiled) ==
  LET left == s.todo \ {key} IN
  [s EXCEPT !.row = updated, !.todo = left, !.at = 1, !.deleted = FALSE, !.before = Absent,
            !.spoiled = FALSE,
            !.stale = IF spoiled THEN @ \union {key} ELSE @ \ {key},
            !.pc = IF left # {} THEN "storing" ELSE IF w \in Window THEN "ready" ELSE "done"]

\* The next call.  Setters go on after a call that failed, except the first.
Call(w, fails) ==
  LET s       == writer[w]
      key     == Current(s)
      call    == Calls(key, s.item)[s.at]
      refused == \/ fails
                 \/ call.op = "set" /\ s.deleted
                 \/ call.op = "open" /\ registry[key] = Absent
      stored  == IF refused THEN registry[key] ELSE Effect(key, call, registry[key])
      spoiled == s.spoiled \/ fails
      updated == IF call.op = "create" /\ refused THEN s.row ELSE RowAfter(key, s.row, s.item)
      over    == s.at = Len(Calls(key, s.item)) \/ (s.at = 1 /\ refused)
  IN  /\ s.todo # {}
      /\ fails => Faulty
      /\ registry' = [registry EXCEPT ![key] = stored]
      /\ writer' = [q \in Writer |->
           IF q # w
           THEN IF stored # registry[key] THEN Disturbed(writer[q], key, stored) ELSE writer[q]
           ELSE IF over THEN AfterSetter(w, s, key, updated, spoiled)
           ELSE [s EXCEPT !.at = @ + 1, !.spoiled = spoiled,
                          !.before = IF s.at = 1 THEN registry[key] ELSE @]]
      /\ read' = [q \in Writer |->
           IF stored # registry[key] THEN DisturbedRead(read[q], key, stored) ELSE read[q]]
      /\ torn' = (torn \/ (over /\ spoiled /\ key = "affinity"))

\* A process exits, or is killed wherever it is.
End(w) ==
  /\ writer[w].pc # "closed" \/ read[w].at > 0
  /\ writer' = [writer EXCEPT ![w] = NoProcess]
  /\ read' = [read EXCEPT ![w] = NoRead]
  /\ torn' = (torn \/ Mid(writer[w], "affinity"))
  /\ UNCHANGED registry

Next ==
  \E w \in Writer :
    \/ \E key \in Key, fails \in BOOLEAN : OpenToRead(w, key, fails)
    \/ \E f \in Field, fails \in BOOLEAN : ReadValue(w, f, fails)
    \/ \E change \in Change : Ask(w, change)
    \/ \E fails \in BOOLEAN : Call(w, fails)
    \/ End(w)

Spec == Init /\ [][Next]_vars

-----------------------------------------------------------------------------
TypeOK ==
  /\ registry \in Entry
  /\ writer \in [Writer -> Process]
  /\ read \in [Writer -> Reading]
  /\ torn \in BOOLEAN

(***************************************************************************)
(* Of a key that no other process changed since a process last read or     *)
(* stored it, the process's row tells what is stored, and stored is what   *)
(* it was last asked for, although a window that finds no difference to    *)
(* its row calls nothing and setters of others come between any two of its *)
(* calls (SetNewDevice, app.go 498-507, and the setters).                  *)
(***************************************************************************)
UndisturbedIsStored ==
  \A w \in Writer :
    LET s == writer[w] IN
    s.pc # "closed" =>
      /\ "msi" \notin s.todo \union s.stale
           => MsiAgrees(s.row, registry) /\ HoldsMsi(registry, s.item)
      /\ "affinity" \notin s.todo \union s.stale
           => AffinityAgrees(s.row, registry) /\ HoldsAffinity(registry, s.item)

(***************************************************************************)
(* "The affinity mask must contain at least one processor" (dialog.go      *)
(* 523): while no setter of the affinity key is under way, a stored policy *)
(* for specified processors has a mask that names one, whatever stale rows *)
(* the windows and runs store, unless a setter of that key was once torn,  *)
(* by a failing call, another's change or its end, or a read of it: a call *)
(* failed, another process changed the key between two of its calls, or it *)
(* ended between two calls of a setter (setAffinityPolicy, reg.go 112-133; *)
(* FindAllDevices, winapi.go 122-131).                                     *)
(***************************************************************************)
MaskUnlessTorn ==
  ~torn /\ (\A w \in Writer : ~Mid(writer[w], "affinity"))
    /\ StoredPolicy(registry) = IrqPolicySpecifiedProcessors => StoredMask(registry) # {}

-----------------------------------------------------------------------------
(***************************************************************************)
(* Every process implements the setters of SettingsStore, whatever the     *)
(* others do: to it a key is as it was before its setter that is under     *)
(* way, or as another process last changed it, so that the last call of    *)
(* the setter, or the end of the process, is the one step in which the     *)
(* setter happens (reg.go 43-141).                                         *)
(***************************************************************************)
Settled(s) ==
  [affinity |-> IF Mid(s, "affinity") THEN s.before ELSE registry.affinity,
   msi      |-> IF Mid(s, "msi") THEN s.before ELSE registry.msi]

Store(w) == INSTANCE SettingsStore WITH
  store <- Settled(writer[w]), row <- writer[w].row, item <- writer[w].item,
  failed <- writer[w].stale

StoreSpec ==
  /\ \A w \in Writer : Store(w)!Init
  /\ [][\A w \in Writer : [Store(w)!Next]_(Store(w)!vars)]_vars
=============================================================================
