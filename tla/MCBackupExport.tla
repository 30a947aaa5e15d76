---------------------------- MODULE MCBackupExport ----------------------------
(***************************************************************************)
(* Small instances of BackupExport: one window, and the changes it is      *)
(* asked for.                                                              *)
(***************************************************************************)
EXTENDS BackupExport, MCSettingsWriter

\* Settings of one key, of both, and some that take a value or a key away.
Changes ==
  {"DevicePolicy" :> 4 @@ "AssignmentSetOverride" :> {b1},
   "DevicePolicy" :> 0 @@ "DevicePriority" :> 0 @@ "MsiSupported" :> MSI_Off,
   "MsiSupported" :> MSI_On @@ "MessageNumberLimit" :> 0}

\* A limit of two digits.
LimitChanges ==
  {"MsiSupported" :> MSI_On @@ "MessageNumberLimit" :> 16, "MsiSupported" :> MSI_Off}
=============================================================================
