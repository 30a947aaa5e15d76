---------------------------- MODULE MCCommandLine ----------------------------
(***************************************************************************)
(* Small instances of CommandLine: command lines that matter together.     *)
(***************************************************************************)
EXTENDS CommandLine, FiniteSets

CONSTANTS d1, d2, b1, b2, name, nobody

\* One device can be named, the name of the other cannot be read; the
\* interrupt types of the second are unknown.
OneNamed == [d \in Device |-> IF d = d1 THEN name ELSE NoName]
SomeMsi  == [d \in Device |-> IF d = d1 THEN {2, MsiX} ELSE {}]

None ==
  [devobj |-> name, cpu |-> {}, priority |-> Omitted, policy |-> Omitted,
   msisupported |-> Omitted, msilimit |-> Omitted, restart |-> FALSE,
   restartOnChange |-> FALSE]

\* Command lines that change one setting of a key or one of both, that give a
\* mask or a limit the policy or the mode has no use for, or a mode that is
\* none; that are refused, or that name the device without a name.
AllArgs ==
  {[None EXCEPT !.policy = 4, !.cpu = {b1, Junk}],
   [None EXCEPT !.priority = 3],
   [None EXCEPT !.policy = 0, !.cpu = {b1}, !.msilimit = 5],
   [None EXCEPT !.msisupported = MSI_On, !.restartOnChange = TRUE],
   [None EXCEPT !.msisupported = MSI_Tristate, !.msilimit = 5],
   [None EXCEPT !.policy = 1, !.cpu = {Beyond}],
   [None EXCEPT !.devobj = nobody, !.policy = 1],
   [None EXCEPT !.devobj = NoName, !.priority = 0, !.msilimit = 5],
   [None EXCEPT !.devobj = NoName, !.msisupported = MSI_On]}

\* A change that asks for a restart.
RestartArgs ==
  {[None EXCEPT !.policy = 4, !.restartOnChange = TRUE], [None EXCEPT !.restart = TRUE]}

Aff(policy, priority, mask) ==
  [DevicePolicy |-> policy, DevicePriority |-> priority, AssignmentSetOverride |-> mask]
Msi(supported, limit) == [MSISupported |-> supported, MessageNumberLimit |-> limit]

\* All of it stored; or a mask that the policy does not use and no MSI key.
EffectEntries ==
  {[affinity |-> Aff(4, 1, {b2}), msi |-> Msi(1, 20)],
   [affinity |-> Aff(1, Absent, {b2}), msi |-> Absent]}

\* And a limit that the mode does not use, or nothing at all.
AllEntries == EffectEntries \union
  {[affinity |-> Aff(1, Absent, {b2}), msi |-> Msi(0, 20)],
   [affinity |-> Absent, msi |-> Absent]}

\* Others delete a key, store other values, or only half of them.
SomeOthers ==
  {[affinity |-> Absent, msi |-> Absent],
   [affinity |-> Aff(4, 2, Absent), msi |-> Msi(1, 7)]}

\* During one run others change one key, perhaps more than once, of the device
\* that can be named.
OneKey ==
  /\ run.disturbed \subseteq {d1} \X Key
  /\ Cardinality(run.disturbed) <= 1
=============================================================================
