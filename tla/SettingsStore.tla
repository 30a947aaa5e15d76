---------------------------- MODULE SettingsStore ----------------------------
(***************************************************************************)
(* What a program that edits one device promises of the registry: a setter *)
(* is a single step, whose outcome is one of those DeviceSettings lists,   *)
(* and a program that is killed while it stores leaves the outcome of a    *)
(* setter some of whose calls failed.  DeviceTable and CommandLine take    *)
(* the setters this way; SettingsWriter shows that their calls do.         *)
(***************************************************************************)
EXTENDS DeviceSettings

CONSTANTS
  InterruptTypes, \* the interrupt types the device supports
  InitialEntry,   \* what the registry may hold of it at first
  Closed          \* stands for the row of a program that does not run

VARIABLES
  store,  \* what is stored of the device
  row,    \* the program's row of it
  item,   \* the settings the program was last asked to store
  failed  \* history: the keys whose last setter or read met a call that failed,
          \* or that another program changed since, or while they were read

vars == <<store, row, item, failed>>

Init ==
  /\ store \in InitialEntry
  /\ row = Closed /\ item = Closed /\ failed = {}

\* Of a key it could read undisturbed the row tells what is stored.
Launch ==
  \E keys \in SUBSET {"msi", "affinity"} :
    /\ row = Closed
    /\ row' \in Settings
    /\ "affinity" \notin keys => AffinityAgrees(row', store)
    /\ "msi" \notin keys =>
         LET found == ReadDevice(store, InterruptTypes) IN
         /\ row'.MsiSupported = found.MsiSupported
         /\ row'.MessageNumberLimit = found.MessageNumberLimit
    /\ item' = row'
    /\ failed' = keys
    /\ UNCHANGED store

Ask ==
  /\ row # Closed
  /\ item' \in Settings
  /\ UNCHANGED <<store, row, failed>>

FailedAfter(key, fault) == IF fault THEN failed \union {key} ELSE failed \ {key}

StoreMsi(fault) ==
  /\ row # Closed
  /\ item.MsiSupported \in {MSI_Off, MSI_On}
  /\ \E done \in setMSIMode(row, item, store.msi, fault) :
       /\ row' = done.row
       /\ store' = [store EXCEPT !.msi = done.key]
  /\ failed' = FailedAfter("msi", fault)
  /\ UNCHANGED item

StoreAffinity(fault) ==
  /\ row # Closed
  /\ \E done \in setAffinityPolicy(row, item, store.affinity, fault) :
       /\ row' = done.row
       /\ store' = [store EXCEPT !.affinity = done.key]
  /\ failed' = FailedAfter("affinity", fault)
  /\ UNCHANGED item

\* Another program writes some of the keys.
Others ==
  \E keys \in SUBSET {"msi", "affinity"} :
    /\ store' \in [affinity : AffinityKey, msi : {Absent} \union
                     [MSISupported : {Absent} \union Nat, MessageNumberLimit : {Absent} \union Nat]]
    /\ "msi" \notin keys => store'.msi = store.msi
    /\ "affinity" \notin keys => store'.affinity = store.affinity
    /\ failed' = IF row = Closed THEN {} ELSE failed \union keys
    /\ UNCHANGED <<row, item>>

\* It deletes a key the program has just created: none of the calls that are
\* left does anything, but the row is updated.
OvertakenMsi ==
  /\ row # Closed
  /\ store.msi = Absent
  /\ \E done \in setMSIMode(row, item, store.msi, TRUE) : row' = done.row
  /\ failed' = failed \union {"msi"}
  /\ UNCHANGED <<store, item>>

OvertakenAffinity ==
  /\ row # Closed
  /\ store.affinity = Absent
  /\ \E done \in setAffinityPolicy(row, item, store.affinity, TRUE) : row' = done.row
  /\ failed' = failed \union {"affinity"}
  /\ UNCHANGED <<store, item>>

\* The program ends, and its row with it.
Leave == row' = Closed /\ item' = Closed /\ failed' = {}

Exit ==
  /\ row # Closed
  /\ Leave
  /\ UNCHANGED store

\* It is killed in a setter: the calls it did not come to are as good as failed.
Killed ==
  /\ row # Closed
  /\ \/ \E done \in setMSIMode(row, item, store.msi, TRUE) :
          store' = [store EXCEPT !.msi = done.key]
     \/ \E done \in setAffinityPolicy(row, item, store.affinity, TRUE) :
          store' = [store EXCEPT !.affinity = done.key]
  /\ Leave

Next ==
  \/ Launch
  \/ Ask
  \/ \E fault \in BOOLEAN : StoreMsi(fault) \/ StoreAffinity(fault)
  \/ Others
  \/ OvertakenMsi
  \/ OvertakenAffinity
  \/ Exit
  \/ Killed

Spec == Init /\ [][Next]_vars
=============================================================================
