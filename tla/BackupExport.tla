----------------------------- MODULE BackupExport -----------------------------
(***************************************************************************)
(* "Export current settings" and the file it saves.  A window writes its   *)
(* row of the device to a .reg file; whoever opens the file later makes    *)
(* regedit store it, at any point of what windows and runs (the processes  *)
(* of SettingsWriter) are doing with the same keys.                        *)
(***************************************************************************)
EXTENDS SettingsWriter, MaskBytes

CONSTANT NoFile  \* stands for a file that was not saved yet

VARIABLE file    \* the settings that were written to the file

allVars == <<vars, file>>

InitExport == Init /\ file = NoFile

\* The dialog's button, in a window that is not storing anything.
Export(w) ==
  /\ w \in Window
  /\ writer[w].pc = "ready"
  /\ file' = writer[w].row
  /\ UNCHANGED vars

-----------------------------------------------------------------------------
(***************************************************************************)
(* What regedit makes of the file.  The template prints a number in        *)
(* decimal digits after "dword:", which are read as hexadecimal ones; the   *)
(* bytes of a mask are those of MaskBytes.                                 *)
(***************************************************************************)
DigitsAsHex[n \in Nat] ==
  IF n < 10 THEN n ELSE 16 * DigitsAsHex[n \div 10] + (n % 10)

\* A line of the file sets a value, deletes it, or is left out.
PriorityLine(settings) ==
  IF settings.DevicePriority = 0 THEN Absent ELSE DigitsAsHex[settings.DevicePriority]

MaskLineSwapped(settings) ==
  IF settings.DevicePolicy = IrqPolicySpecifiedProcessors THEN Absent
  ELSE settings.AssignmentSetOverride
MaskLine(settings) ==
  IF settings.DevicePolicy # IrqPolicySpecifiedProcessors THEN Absent
  ELSE settings.AssignmentSetOverride

LimitLine(settings, stored) ==
  IF settings.MsiSupported # MSI_On THEN Absent
  ELSE IF settings.MessageNumberLimit # 0 THEN DigitsAsHex[settings.MessageNumberLimit]
  ELSE stored

Imported(settings, stored) ==
  [affinity |-> [DevicePolicy          |-> DigitsAsHex[settings.DevicePolicy],
                 DevicePriority        |-> PriorityLine(settings),
                 AssignmentSetOverride |-> MaskLine(settings)],
   msi      |-> [MSISupported       |-> DigitsAsHex[settings.MsiSupported],
                 MessageNumberLimit |-> LimitLine(settings, MsiValues(stored.msi).MessageNumberLimit)]]

\* Regedit stores the keys one after the other, both here in one step.
Import ==
  /\ file # NoFile
  /\ registry' = Imported(file, registry)
  /\ writer' = [w \in Writer |->
       LET s == IF registry'.msi = registry.msi THEN writer[w]
                ELSE Disturbed(writer[w], "msi", registry'.msi)
       IN  IF registry'.affinity = registry.affinity THEN s
           ELSE Disturbed(s, "affinity", registry'.affinity)]
  /\ read' = [w \in Writer |->
       LET r == IF registry'.msi = registry.msi THEN read[w]
                ELSE DisturbedRead(read[w], "msi", registry'.msi)
       IN  IF registry'.affinity = registry.affinity THEN r
           ELSE DisturbedRead(r, "affinity", registry'.affinity)]
  /\ torn' = torn
  /\ UNCHANGED file

NextExport ==
  \/ Next /\ UNCHANGED file
  \/ \E w \in Writer : Export(w)
  \/ Import

SpecExport == InitExport /\ [][NextExport]_allVars

-----------------------------------------------------------------------------
(***************************************************************************)
(* The file restores what the dialog showed when it was saved, whatever    *)
(* was stored since: policy, priority, the mask in use, MSI mode and       *)
(* limit.  It does for policies and priorities of one digit, limits of one *)
(* digit, and no limit if none is stored when the file is imported, for    *)
(* the file then has no line about it (createRegFile, SaveBackup.go 16-50).*)
(***************************************************************************)
OneDigit == 0 .. 9

ImportRestoresDigits ==
  [][(/\ Import
      /\ {file.DevicePolicy, file.DevicePriority, file.MessageNumberLimit} \subseteq OneDigit
      /\ file.MessageNumberLimit = 0 => StoredLimit(registry) = 0)
     => Holds(registry', file)]_allVars

(***************************************************************************)
(* Once a file is saved: every mask that a setter stores, or that is       *)
(* exported and imported, is read back as it was, with zero bytes at its   *)
(* beginning, in its middle or at its end (clen and i64tob in              *)
(* setAffinityPolicy, ToLittleEndian in createRegFile, btoi64 in           *)
(* FindAllDevices).                                                        *)
(***************************************************************************)
MaskBytesKept == file # NoFile => BytesKept

\* "Save current settings" (dialog.go:417): what was saved is what importing
\* the file stores.
ImportRestores == [][Import => Holds(registry', file)]_allVars
=============================================================================
