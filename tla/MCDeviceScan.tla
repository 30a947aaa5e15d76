---------------------------- MODULE MCDeviceScan ----------------------------
(***************************************************************************)
(* Small machines for DeviceScan.                                          *)
(***************************************************************************)
EXTENDS DeviceScan

CONSTANTS b1

Entries ==
  [affinity |-> [DevicePolicy |-> 4, DevicePriority |-> Absent, AssignmentSetOverride |-> {b1}],
   msi      |-> [MSISupported |-> MSI_On, MessageNumberLimit |-> 20]]

\* Configurations that are missing, empty, of one and of two interrupts; one
\* answer for each way a device is dropped or listed.
Confs ==
  {<<2, NoConf, NoConf>>, <<NoConf, 0, 2>>, <<0, 1, 2>>, <<0, NoConf, 0>>}

SomeAnswers ==
  {[logConf |-> c, disabled |-> d, described |-> t, types |-> y, entry |-> Entries]
     : c \in Confs, d \in BOOLEAN, t \in BOOLEAN, y \in {{}, {2}}}

SomeMachines == [1 .. Count -> SomeAnswers]
=============================================================================
