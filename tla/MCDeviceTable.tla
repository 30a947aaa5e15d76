---------------------------- MODULE MCDeviceTable ----------------------------
(***************************************************************************)
(* Small instances of DeviceTable: one about the affinity policy, with     *)
(* devices that have no MSI, and one about MSI.                            *)
(***************************************************************************)
EXTENDS DeviceTable, TLC

CONSTANTS d1, d2, d3, b1, b2

\* No device has MSI; all but the third have it.
NoMsi   == [d \in Device |-> {}]
SomeMsi == [d \in Device |-> IF d = d3 THEN {} ELSE {2}]

Key(policy, priority, mask) ==
  [DevicePolicy |-> policy, DevicePriority |-> priority, AssignmentSetOverride |-> mask]
Msi(supported, limit) == [MSISupported |-> supported, MessageNumberLimit |-> limit]

\* Nothing stored, and a mask that another tool left behind with a policy that
\* does not use it.
AffinityEntries ==
  {[affinity |-> key, msi |-> Absent] : key \in {Absent, Key(1, 3, {b1})}}

MsiEntries ==
  {[affinity |-> Absent, msi |-> key] : key \in {Absent, Msi(1, Absent), Msi(1, 2)}}

\* The only search is one for the first device and the one without MSI, and
\* calls fail only when no search threw a copy away.
OneSearch ==
  /\ searching => DOMAIN filtered = {d1, d3}
  /\ lost = {} \/ failed = {}

\* Devices that have the same interrupt types can be exchanged.
Symmetry == Permutations(Device)
=============================================================================
