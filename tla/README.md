# GoInterruptPolicy: models, checks and proofs

GoInterruptPolicy shows the devices of a Windows machine that have an interrupt
and edits two registry keys of each: `Interrupt Management\Affinity Policy`
(policy, priority, processor mask) and
`Interrupt Management\MessageSignaledInterruptProperties` (MSI mode, message
limit).  It runs as a window or, when one of certain flags is given, as a
command line.  This directory holds TLA+ modules translated from its source, the
TLC configurations that check them, and TLAPS proofs.

## The system

| Component | State | Operations | Interacts with |
|---|---|---|---|
| Settings and setters (`reg.go`, `init.go`) | the two keys of a device; a `Device` row | read (`FindAllDevices` 118-141), `setMSIMode`, `setAffinityPolicy` | registry |
| Window (`app.go`) | `AllDevices`, the model of the table (all rows, or copies of those a search matches) | search, the "Device policy" menu, double click, `SetNewDevice` | opens the dialog, calls the setters |
| Dialog (`dialog.go`) | a draft `Device`, the limit's field, the check boxes | combo boxes, MSI box, limit, processors, presets, export, OK, Cancel | gets row copies, returns the draft |
| Processor boxes (`dialog.go` 558-789) | checked boxes and the mask's bits | click, All On, All Off, HT Off, P-/E-Core Only, cache 0 and 1 | reads the topology, writes the draft's mask |
| CPU topology (`cpusetinformation.go`, `calculateLayout.go`) | the layout tree, flags | `Init`, `add`, `getLayout` | Windows' CPU sets |
| Command line (`app.go` 35-126, `flags.go`) | a snapshot, `orgItem`, `newItem` | find, store MSI, store affinity, restart | registry, other processes |
| Device scan (`winapi.go`) | handles | `FindAllDevices`, `DevNodeHasIRQ`, `collectIRQsFromLogConf` | Windows' setup API |
| Export (`SaveBackup.go`) | none | `createRegFile` | row copies |
| Columns (`app.go` 598-851) | width cache | `calculateAutoColumnWidths` | none |

What is hard in it:

* **Copies.** A device exists as registry keys, as a row of `AllDevices`, as a
  row of a search result and as a draft.  Nothing reads the registry again after
  the start; setters compare with a row and may write nothing.
* **Selections.** A draft stands for several devices that differ; placeholders
  fill the fields that differ and come back with the draft.
* **Failing calls.** Setters log errors and go on, row and key can part.
* **Interleaving.** Handlers of the window run on one thread and the dialog is
  modal, so inside one process only the registry is shared.  Windows and runs of
  the command line share it with stale snapshots, and a setter is several
  registry calls, between which the others read, write and delete.
* **Ends.** A process may be killed between two calls of a setter.
* **Conversions.** A mask is a number, a set of check boxes, bytes in the
  registry and digits in a file; numbers are printed in decimal where a `.reg`
  file has hexadecimal.
* **Two states per box.** The mask's bits and the boxes are updated separately.

What makes each component correct: rows tell what is stored; what is accepted is
stored, in every selected device; the untouched dialog keeps what the selected
rows share; a run of the command line stores what its flags ask as far as mode
and policy have a use for it, and touches no other key; keys are ones Windows
can use; boxes show the mask and presets select what their buttons say.

## Modules

| Module | Models | Correspondence |
|---|---|---|
| `DeviceSettings` | `Device`, the keys, reading, the setters, `FindCommonValue` | a setter is the set of its outcomes, pairs of updated row and key: one outcome when no call fails, and with `fault` one for each combination of calls that take effect. A mask is the set of its bits, an absent key or value is `Absent` |
| `DeviceTable` | window and dialog | `allDevices` is `AllDevices`, `filtered` the copies of `newDevices`, `draft` the dialog's `device`; one action per handler, `ApplyTo` one round of the loop at `app.go` 235 |
| `CommandLine` | a run from arguments to exit, beside other processes | `run` holds `orgItem` and `newItem`; one action per phase of `main`; `Others` is a change of a key by any other process |
| `SettingsStore` | what a program that edits one device promises: reading the device is one step, and so is a setter | `store` is the keys, `row` the program's `Device`; `StoreMsi` and `StoreAffinity` are the outcomes of `DeviceSettings`, `Others` stands for all other programs, `Killed` for an end in a setter |
| `SettingsWriter` | the same call by call, by any number of windows and runs on one device | `writer[w]` is a process: its row, the item it stores, the setters still to run (`todo`) and the next call (`at`). `AskedKeys` is the comparison of `SetNewDevice` for a window and the flags for a run. `Call` is one registry call with its failure. `read[w]` is how far a process is in reading the device: `OpenToRead` opens a key, `ReadValue` reads one value, and with the last one the process has its row |
| `BackupExport` | "Export current settings" and importing the file, beside the processes of `SettingsWriter` | `file` is the row that was printed; `Imported` is what the printed lines make regedit store |
| `MaskBytes` | `clen`, `i64tob`, `btoi64`, `ToLittleEndian` | a mask as a number and as a sequence of bytes |
| `CpuTopology` | `CpuSets.Init`, `CoreLayout.add`, `getLayout` | one `AddProcessor` for each processor of the loop, `ChooseGrid` for what follows it, then the clicks of `ProcessorBoxes` |
| `ProcessorBoxes` | check boxes and presets | `bits` is the draft's mask, `checked` the boxes; the layout of `CoreLayout.add` is derived from where each processor is; presets are the sets they set and clear |
| `DeviceScan` | `FindAllDevices`, call by call | `pc` is the call that comes next, `handles` what Windows has given out and not got back; each action is one call with its failure, and what the code does with the answer. `ReadDevice` of `DeviceSettings` makes the row |
| `MCDeviceTable`, `MCCommandLine`, `MCSettingsWriter`, `MCBackupExport`, `MCProcessorBoxes`, `MCDeviceScan` | small instances | constants for TLC only |
| `DeviceSettings_proofs`, `CommandLine_proofs`, `SettingsWriter_proofs`, `DeviceTable_proofs`, `CpuTopology_proofs` (also of `ProcessorBoxes`), `BackupExport_proofs` (also of `MaskBytes`), `DeviceScan_proofs` | proofs | see below |
| `NumberLemmas` | lemmas about numbers that the proofs need | induction, sums, quotients, powers, recursive functions; nothing of the program |

`DeviceTable`, `CommandLine`, `DeviceScan` and `SettingsStore` use
`DeviceSettings`: the first two write through the same setters, the window only
when the row differs, the command line always.  They take a setter, and reading a device, as one step.
In `DeviceTable` the window is alone with the registry.  In `CommandLine` others
change keys between a run's steps, any of them and to any value, and a change
that comes between the calls of a read or a setter counts as one before or after
it (in both cases the key is `disturbed`); `RunEffect` and `UnaskedKept` speak of
the other keys only, so nothing is claimed there that rests on a setter being
undivided.  Where the order of the calls matters, `SettingsWriter` has it: it
reads and writes call by call and implements `SettingsStore` (`StoreSpec`), with
every other process at work between the calls.  `SettingsWriter` composes
windows and command line on one registry, `BackupExport` adds the file,
`CpuTopology` composes the layout with the boxes made from it.

### The refinement

`SettingsWriter` instantiates `SettingsStore` once for each process `w`.  To `w`
a key with a setter of its own under way is as it was before that setter, or as
another process last changed it (`Settled`, from the history `before`); every
other key is what the registry holds; the row and the item are its own, and
`failed` are the keys of which its row may be out of date (`stale`).  The last
call of a setter then is the step in which it happens, and the last value read
the step in which the process is launched:

* the row of a launch tells what is stored in each key that no other changed and
  of which no call failed while it was read; of the other keys, which are
  `failed` from the start, it may tell anything (`Launch`);
* undisturbed and without failing calls it is `StoreMsi(FALSE)` or
  `StoreAffinity(FALSE)`; when calls failed or others changed the key between
  the calls it is the same step with `TRUE`, an outcome in which any of the
  calls had no effect;
* when another deleted the key after the setter had created it, the handle is of
  no use and no call that is left does anything, yet the row is updated:
  `OvertakenMsi`, `OvertakenAffinity`;
* a process that ends in a setter is `Killed`: what its calls have done so far
  is what a setter with failing calls can leave.

In the modules an operator that no other definition uses and that stands right
before one with a similar name (`MaskWhatever` before `MaskOf`, `GivenOrZero`
before `GivenOr`) is a changed form of it, the way an easy mistake would change
it; replacing the one by the other makes the property PROJECT.json names fail.

### Abstractions

* One step per handler, per phase of a run, and per round of the loop over the
  selection.  In `DeviceTable` and `CommandLine` a device is read in one step, and
  the calls of one setter are one step with all partial results that failing
  calls can have; `SettingsWriter` has the states between the calls of both.
* A handle opened for reading finds nothing once its key was deleted, and finds
  what is stored else; values read before and after another's change mix, which
  is noted in `changed` and, for the affinity key, in `torn`.
* Outside `MaskBytes` a mask is a set of bits; `MaskBytesKept` shows that its
  conversions lose and move none.
* Numbers are naturals; a limit beyond what the field offers cannot be entered
  (`EditLimit`), policies and priorities come from the combo boxes or arguments.
* Search text becomes the set of devices that match it.  Sorting, widths,
  wording and logging are left out.
* The number field shows at least 1; whether filling it runs its handler at once
  is the toolkit's affair, so `OpenDialog` takes both ways.
* `lost` and `failed` in `DeviceTable`, `before`, `disturbed` and `failed` in
  `CommandLine`, `torn`, a process's `before`, `spoiled` and `stale` and a
  read's `changed` in `SettingsWriter` are history: no guard reads them.
* The MSI box of a mixed selection has three states, of which the draft only knows
  whether it is checked: it starts in the third state, where the draft is
  `MSI_Tristate`; the first click clears it (`MSI_Off`, the limit as it is), then
  it goes to checked (`MSI_On`, the limit from its field) and to the third state
  again, which is off for the draft (`dialog.go` 164-178). The click from there to
  cleared changes nothing and is a stuttering step.
* The device a run finds is any device with the name; the code takes the first
  that Windows lists, an order the model leaves open.
* In the scan a configuration is the number of its interrupts. A device whose
  keys cannot be opened reads as one without keys; single values that cannot be
  read are not told apart from that. The texts that are only shown, and the
  retry of `GetDeviceProperty` with a larger buffer, are part of `ReadTypes`.
* A run may end (`End`) in any phase: that is its exit, a kill and a crash.
* The registry is external: a handle of a key that was deleted refuses every
  call, also after another process has created the key anew (`deleted`).
  Regedit stores both keys of a file in one step (`Import`); what another process
  could read or change between two lines of the file is left out.

## Runs

All bounds are in the configurations: one to three devices, one or two processors
(six for the boxes), two or three values a setting can have.  The settings of one
device never depend on the values of another except through `FindCommonValue`,
which tells equal from different, so two devices and two values per field show
every case of it; a third device adds repetitions.  Interleavings of more than
two processes are sequences of the same pairs of read and write, and the proofs
cover any number of processes.

| Run | Shows |
|---|---|
| `table_affinity` | rows and registry agree about policy, priority and mask through searches, dialogs over one or both rows, cancels and relaunches; accepted drafts are stored, the key that goes when policy and priority are zero included; a selection accepted untouched that shares policy and priority keeps them and the masks in use; written keys are well formed |
| `table_msi` | the same about MSI mode and limit, for two devices with MSI, whose modes and limits differ or not, and one without, when calls for the first may fail: the others' settings are stored all the same, a selection accepted untouched keeps each mode, and each limit that is the draft's |
| `cli_effect` | one run after another while others change or delete keys between its steps: in a key that no other changed since the run started, each setting is the one its flag gave or else the one that was read; what mode or policy has no use for is gone, also when a flag gave it (`RunEffect` below); and a run touches no key its flags do not ask for |
| `writers_shared` | a window and runs that write, delete and change the affinity key of one device, call by call, any of them killed anywhere: a key that no other process changed since a process read or stored it holds what that process was last asked for, and its row says so; a policy 4 without a mask can only come from a torn setter or a torn read; and the refinement |
| `export_import` | a window that stores both keys with failing calls, and a file saved and imported at any point: the file restores what the dialog showed, a policy 4 without a mask still comes only from a torn setter or read, all 256 masks of four bytes of two bits come back from every conversion, and the refinement holds for both keys |
| `boxes_shipped` | on kinds of processors that the debug builds fake (cores with two threads, fast and slow cores, two caches) the layout, the flags and the largest core come out right, processor by processor; boxes and mask stay together; HT Off, P-/E-Core Only and the cache buttons do what they say; and for up to 32 processors in one class, 16 in each of two, 10 in each of three, `getLayout` picks the best grid |
| `scan_faults` | with every mix of missing, empty and filled configurations, and any call failing: no handle is used or freed after it was freed and none is left over, a device about which no call failed is listed exactly when it has an interrupt, is enabled and described, with the right row, whatever fails about the others; a listed device never shows a part of its interrupts, and the scan ends |

`table_msi` leaves the affinity key alone.  Its constraint `OneSearch` allows one
search, for a device with MSI and the one without, and failing calls only while
no search threw a copy away.

`cli_effect` has two devices, one without a name and of unknown interrupt types,
calls about which may fail, refused arguments, and four initial entries for each
device.  Others delete keys, or store other values or half of them, between any
two steps of a run and between runs; the constraint `OneKey` allows them, during
one run, any number of changes to one key of the device that has a name.

`RunEffect` says what a run does with every flag.  Limit and mask depend on mode
and policy: with MSI off the key goes and a limit with it, given by `-msilimit` or
stored (`reg.go` 48-58); with a policy other than 4 the mask goes, given by `-cpu`
or stored (`reg.go` 121-123); and with a mode other than off and on, given or read
(`MSI_Invalid` where the interrupt types are unknown), `setMSIMode` does nothing
and `-msilimit` has no effect.  What an omitted flag keeps is what the program
read: of a device whose interrupt types are unknown it reads no MSI settings, so
that `-msisupported 1` alone deletes a stored limit.

`writers_shared` has no failing calls (`export_import` has them) and a window
that can be asked again beside a run that exits and is launched afresh, so every
order of the calls of two setters, and of a read and a setter, occurs, with
keys of both the deleting and the creating kind.  `MaskUnlessTorn` does not hold
without its exceptions.  A process that reads policy 4, and then no mask because
another has deleted the key meanwhile, or has not yet stored the mask, carries a
policy 4 without a mask in its row and may store it later.  So a setter of the
affinity key counts as torn when a call of it failed, another process changed the
key between two of its calls, or its process ended there; and a read of the key
when a call of it failed, another changed the key between two of its calls, or
another's setter was under way when it read the mask.

The remaining five runs each refute something the program says of itself:

| Run | Refuted | Where |
|---|---|---|
| `table_placeholder` | stored values have names | `dialog.go` 89: the placeholder 32 of a mixed selection is stored |
| `table_export` | "Export current settings" | `app.go` 192: an edit made under a search is lost to `AllDevices` |
| `cli_restart` | "Restart target device on change" | `app.go` 84: the change is looked for after the setters have hidden it |
| `export_restores` | "Save current settings" | `SaveBackup.go` 24: a limit of 16 is printed as `dword:00000016` and imported as 22 |
| `boxes_nodes` | the cache buttons | `dialog.go` 766: caches are counted anew in each NUMA node |

Two more topologies make `ProcessorBoxes` fail and have no run of their own:
where the threads of one core differ in class (`GetCpuInformation.11400HPECORES.go`)
HT Off clears nothing, because `CoreLayout.add` makes two cores of them; and
where a cache has processors of class 1 only, `createCCD` (`dialog.go` 619) makes
no boxes for them and All On calls a box that does not exist.  And a core with
three threads would count as two in `MaxThreadsPerCore` (`cpusetinformation.go`
109, the comparison after the second thread), which `LargestCoreCounted` shows
to be right for the kinds of processors listed.

`ImportRestoresDigits` leaves out what `export_restores` shows, and files
exported without a limit while one was stored since: they have no line about it,
and the limit stays (`SaveBackup.go` 24).

`RowsAgree` and `AcceptedIsStored` leave out devices for which a call failed
(row and registry do part then, `reg.go` 48-58) and those whose edited copy a
search threw away (`table_export` shows what happens to them).  `UntouchedKeeps` leaves those devices out as well.  Of a selection it says nothing
when policies or priorities differ (`table_placeholder`), or when the dialog
refuses the draft.  It does not say that the untouched dialog changes nothing: if
all selected rows have MSI on but not the same limit, the draft has the limit 0
(`dialog.go` 93), or the 1 the field shows if showing it runs the field's handler,
and OK takes the limit from each of them (`reg.go` 70-80); in the same way a limit
of none may become 1.  Masks that the policy does not use may go.

`RunEffect` leaves out keys another process changed meanwhile: the program has no
way to notice, the later writer wins, and undoes the flags of the earlier one.

Devices do not influence each other in the scan except through what one leaves
behind, which two in a row show; two descriptors show the first, the next and
the last one of a walk, and the proofs cover the rest.  The scan's error exit
in `Enumerate` is worth knowing: any error of the enumeration counts as its end
(`winapi.go` 34), so the devices after it are silently missing.

**Fairness.** `ScanEnds` takes weak fairness of the scan's next step: it is
straight-line code on one thread, and each call to Windows returns.  No other
property needs any.

Deadlock is checked in every run but the scan's, which is over when it is done
(`ScanEnds` says that it gets there): neither the window nor the command line,
which can always be launched again, ever stops for good.

## Proofs

`DeviceTable_proofs`, from `AbsentAssumption` (the value that stands for "not
there" is no setting) and `TableAssumption` (the constants' types), for any
number of devices and processors and any choices of the user:

* `TypeCorrect`, `RowsAgreeAlways`: the invariants `TypeOK` and `RowsAgree`.
* `AcceptedIsStoredAlways`, `WrittenAffinityWellFormedAlways`: the action
  properties.
* `UntouchedKeepsAlways`: the invariant `UntouchedKeeps`, for any selection of
  rows and both drafts the dialog may open with.  It follows from `IInv`: what is
  in common and no placeholder each row has, each row has what is stored, and an
  item that does not decide about MSI leaves the MSI key alone
  (`SetNewDeviceKeepsMsi`).  The limit is kept on the condition that, with MSI on,
  the draft has the limit of each row (`LimitOfEach`); without it it is false.

The inductive invariant is `IInv == TypeOK /\ DialogOK /\ RowsAgree`.
`RowsAgree` alone is enough for the data: `MsiOutcomeAgrees` and
`AffinityOutcomeAgrees` show of each setter that without a fault an agreeing row
and key end up agreeing again and holding what the item asks for, and
`SetNewDeviceAgrees` combines them, the skipped setters included: a row that
agrees and equals the draft means the key already holds the draft (these lemmas
are in `DeviceSettings_proofs`).  `DialogOK`
adds what a draft under way owes to the dialog's OK check, which
`WrittenAffinityWellFormed` rests on.

`CommandLine_proofs`, from `CommandLineAssumption` and `AbsentAssumption`, for any
devices (names may be shared), command lines, failing calls and changes by other
processes between a run's steps:

* `RunsInvariant`: the inductive invariant `IInv`.  `RunEffect` speaks of a run
  that has passed its setters, so it says nothing of the steps that lead there.
  `IInv` adds that a key no other process has changed is as it was when
  the run began until the run's own setter of it (`KeysKept`), and so that what
  the run carries from its reading is what was stored then (`AffinityRead`,
  `MsiRead`); from these the setter's outcome has the effect the flags ask for
  (`AffinityDone`, `MsiDone`).
* `RunsTypeCorrect`, `UnaskedKeptAlways`, `RunEffectAlways`: the invariants
  `TypeOK`, `UnaskedKept` and `RunEffect`, each of which `IInv` implies.

`SettingsWriter_proofs`, from `WriterAssumption` and `AbsentAssumption`, for any
number of windows and runs, any changes they are asked for and any failing calls:

* `WritersInvariant`: the inductive invariant `IInv`.  `UndisturbedIsStored` says
  nothing of a key while its setter is under way, so it is not inductive.  `IInv`
  says of each process that it is at a call of a setter it was asked for, and
  what the key holds there (`Progress`): counted from `before`, the calls made so
  far have each had their effect, or, when the setter is spoiled, any of them may
  have had none; under a handle of a deleted key, the key is as another left it.
  Of each process that is reading it says that the values read so far of a key are
  those stored, and its handle good if the key exists, unless another changed the
  key or a call failed (`ReadOK`).
* `WritersTypeCorrect`, `UndisturbedIsStoredAlways`: `TypeOK`, a part of `IInv`,
  and `UndisturbedIsStored`, which is inductive together with `IInv`.
* `MaskUnlessTornAlways`: `MaskUnlessTorn`, under two conditions on the constants,
  `MasksStored` (no policy for specified processors is stored without a mask at
  first) and `MasksGiven`: all processes are windows, which the dialog
  refuses an empty mask, or no change asks for the policy without a mask or for
  an empty mask.  The invariant is that, while no setter was torn, the rows and the
  settings asked for have their masks, and at rest so has the key; what was read of
  an undisturbed key while no setter is under way is what is stored; after a setter
  that ends untorn this is what `UndisturbedIsStored` says of its process.
* `StoreImplemented`: `Spec => StoreSpec`, the refinement.  One lemma for each
  kind of step says which step of `SettingsStore` it is for the process itself,
  and one that to all others it is a stutter or `Others`.  The lemmas about the
  last call match the calls' effects with the outcomes of `setMSIMode` and
  `setAffinityPolicy` in `DeviceSettings`.

`BackupExport_proofs`, on top of `SettingsWriter_proofs`, with files exported and
imported between any two calls:

* `ExportInvariant`: `EInv`, which is `IInv` of the processes with two facts more:
  rows and the file say of MSI that it is on or off.  They do when the device has
  MSI (`DeviceHasMsi`, a hypothesis of the theorems here except those about bytes,
  met by the run's constants).  It is needed: for a device without, the file says
  `"MSISupported"=dword:00000003` (`SaveBackup.go` 23), the program's `MSI_Invalid`,
  which is no value of the key.  An import is a change of
  the first key and then of the second by another (`ImportNamed`), so the lemmas
  about one changed key are used twice (`DisturbingOK`, `DisturbingFields`).
* `ExportTypeCorrect`, `ExportUndisturbed`, `ExportStoreImplemented`: `TypeOK`,
  `UndisturbedIsStored` and the refinement hold with files as they do without;
  each reuses the lemmas that `SettingsWriter_proofs` has about the processes'
  steps.
* `ExportMaskUnlessTorn`: `MaskUnlessTorn`, under the two conditions of
  `MaskUnlessTornAlways`.  The invariant has a part for the file (`FileMasked`);
  no number but 4 is printed and read back as 4, because a number never comes back
  smaller (`DigitsNotSmaller`).
* `ImportRestoresDigitsAlways`: the action property, because one digit is the same
  number in decimal and hexadecimal (`DigitsType`).
* `BytesAreKept`, `MaskBytesKeptAlways`: `BytesKept`, for bytes of any size and
  any number of them.  Byte `i` of a number is `Byte(val, i)`; both ways of
  writing leave out only bytes that are zero (`StoredReadsBack` by the greatest
  byte that is not, `PrintedReadsBack` by induction on the digits), and the
  bytes at their places add up to the rest of the number that there is place for
  (`BytesAddUp`), which is all of a mask.

`CpuTopology_proofs`, from `BoxesAssumption` (a finite set of numbered processors)
and `LayoutAssumption` (not all classes are empty), for any processors:

* `TypeCorrect`, `BoxesShowMaskAlways`: inductive together, because a preset either
  finds all its boxes or ends the window.
* `PresetsWorkWithBoxes`, `OneThreadPerCoreAlways`, `ClassPresetsAlways`,
  `CachePresetsAlways`: what the presets do.  None holds of every topology (the
  counterexamples are under Runs), so each says for which: every thread has a box
  (`Boxes = Thread`); in addition, for HT Off, threads with one core index share
  node, cache and class (`CoresApart`); for the classes, there is none above one;
  for the caches, one node (`OneNode`) with several of them (`SeveralCaches`).
  All three shipped kinds of processors meet the first three, `TwoCaches` the last;
  `TwoNodes` does not, and `boxes_nodes` shows what happens.
* `TopologyImplementsBoxes`: `SpecTopology => Spec`, the processors are added
  while the boxes wait, so all of the above holds of the whole.
* `LayoutIsRightAlways`: by `LInv`, which says of every moment of the loop that rows
  hold exactly the processors added so far, in order and by node, cache, class and
  core, and that the flags are those of the processors seen.
* `LargestCoreCountedAlways`: where a core has one thread or two next to each other
  (`CoresOfTwo`, which the shipped kinds meet); for three threads it is wrong.
  `CInv` says that the maximum is two from the first second thread on.
* `GridIsBestAlways`: the recursion of `BestRows` keeps the first of the best numbers
  of rows tried (`BestRowsLeast`), a sum of rounded quotients is the same as the
  reference's (`RoundedUp`), and a grid that was chosen has a cell for each
  processor (`GridFits`).  `GroupsOK` and `GridOK` are the invariants.

`NumberLemmas` has what these proofs need of numbers, with no assumption.  The
library's induction theorems take an operator and cannot be used here, so
induction is over sets: a set of naturals that has zero and with each number the
next has all (`SetInduction`).  With it come the least and the greatest element,
that the sum of `SumFunction` can be taken in any order (`SumsRemove`), quotients
of quotients, powers, and that a recursive function that refers to smaller
numbers exists and so satisfies its equation (`RecursionExists`): `SumFunction`,
`BestRows`, `DigitsAsHex` and `Digits` are defined by `CHOOSE` and nothing could
be said of them otherwise.

`DeviceScan_proofs`, from `ScanAssumption` (the answers' types), for any number of
devices, configurations' contents and descriptors: `TypeCorrect`,
`HandlesInUseAlways`, `NoHandleLeftAlways` and `InterruptsWholeAlways`.  The
inductive invariant says at each point which handles are out (`HandlesOK`: the
configuration's, and while a descriptor is looked at that one's), where the walk
is (`WalkOK`), and that the interrupts read are the first ones of the
configuration and all of them once the walk ended without an error (`IrqsOK`).
`ScanCompleteAlways` adds to it `CInv`: of the device looked at, if no call failed
for it, the configurations passed over have no interrupt and its properties were
read as they are (`LookOK`), and no device is listed before its turn is over
(`ListedPassed`).

Every safety property that a passing run checks is thus stated by a theorem, for
all values of the constants that meet the conditions named with it.  Only
model-checked is `ScanEnds`, because liveness under fairness is
beyond the prover.  The five refutations are counterexamples and need no proof.

## Not modelled

* Column widths (`app.go` 560-870): they depend on the rows and nothing depends
  on them.  The margins and the grid's drawing, for the same reason; the numbers
  they are computed from are in `CpuTopology`.
* Sorting the table: it moves whole rows, which `DeviceTable` does not tell apart
  by place.
* The buttons that start regedit and the device manager, and the dialog that asks
  for a file's name: they keep no state.
* The window's restart of a device (`app.go` 509-556) cannot be reached, because
  nothing sets `restartPopup`.
* The declarations of system calls, the faked topologies other than as
  instances, and everything of the build.
