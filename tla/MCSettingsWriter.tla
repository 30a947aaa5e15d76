--------------------------- MODULE MCSettingsWriter ---------------------------
(***************************************************************************)
(* Small instances of SettingsWriter: what the registry holds at first and *)
(* what the processes are asked to store.                                  *)
(***************************************************************************)
EXTENDS SettingsWriter, TLC

CONSTANTS w1, w2, b1

AffinityOf(policy, priority, mask) ==
  [DevicePolicy |-> policy, DevicePriority |-> priority, AssignmentSetOverride |-> mask]
Msi(supported, limit) == [MSISupported |-> supported, MessageNumberLimit |-> limit]

\* All that can be stored.
FullEntry == {[affinity |-> AffinityOf(4, 1, {b1}), msi |-> Msi(1, 5)]}

\* Nothing at all, and a mask and a limit that policy and mode do not use.
Entries == FullEntry \union
  {[affinity |-> Absent, msi |-> Absent],
   [affinity |-> AffinityOf(1, Absent, {b1}), msi |-> Msi(0, 16)]}

\* Three that meet in one key: they write, take away, write another value.
SharedChanges ==
  {"DevicePolicy" :> 4 @@ "AssignmentSetOverride" :> {b1},
   "DevicePolicy" :> 0 @@ "DevicePriority" :> 0,
   "DevicePriority" :> 3}
=============================================================================
