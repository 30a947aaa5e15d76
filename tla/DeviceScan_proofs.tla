-------------------------- MODULE DeviceScan_proofs --------------------------
(***************************************************************************)
(* Proofs about the scan, for any number of devices and whatever Windows   *)
(* answers about them.                                                     *)
(***************************************************************************)
EXTENDS DeviceScan, DeviceSettings_proofs

Walking == {"ReadResDes", "NextResDes"}
Listing == {"Flags", "Description", "Types", "Settings"}

\* How many descriptors the configuration looked at has.
Number == machine[index].logConf[conf]

\* The handles that are out at each point.
Held ==
  IF pc \in Walking THEN {LogConf, ResDes(current)}
  ELSE IF pc \in {"FirstResDes", "FreeLogConf"} THEN {LogConf}
  ELSE {}

HandlesOK == handles = [open |-> Held, misused |-> FALSE]

\* Where the walk through the descriptors is.
WalkOK ==
  /\ pc \in Walking \union {"FirstResDes", "FreeLogConf"} => Number \in Nat
  /\ pc \in Walking => current \in 1 .. Number

\* The descriptors read so far are the first ones of the configuration, and
\* all of them when its handle is freed without an error.
UpTo(n) == [i \in 1 .. n |-> i]

IrqsOK ==
  /\ pc \in Walking \union {"FirstResDes"} => ~ err
  /\ pc = "FirstResDes" => irqs = UpTo(0)
  /\ pc = "ReadResDes" => irqs = UpTo(current - 1)
  /\ pc = "NextResDes" => irqs = UpTo(current)
  /\ pc = "FreeLogConf" /\ ~ err => irqs = UpTo(Number)
  /\ pc \in Listing => irqs # <<>> /\ Number \in Nat /\ irqs = UpTo(Number)

\* The types, in parts; those of the handles follow from HandlesOK.
ControlOK ==
  /\ machine \in Machine
  /\ pc \in Point
  /\ index \in 0 .. Count
  /\ pc \notin {"Enumerate", "Done"} => index > 0
  /\ conf \in ConfType
  /\ current \in Nat

ScanRow ==
  [device : 1 .. Count, irqs : Seq(Nat), types : SUBSET InterruptType, settings : Settings]

DataOK ==
  /\ irqs \in Seq(Nat)
  /\ types \in SUBSET InterruptType
  /\ devices \in Seq(ScanRow)

ErrOK    == err \in BOOLEAN
FailedOK == failed \subseteq 1 .. Count

IInv ==
  ControlOK /\ DataOK /\ ErrOK /\ FailedOK /\ WalkOK /\ HandlesOK /\ IrqsOK /\ InterruptsWhole

USE DEF Walking, Listing

-----------------------------------------------------------------------------
LEMMA UpToFacts ==
  /\ UpTo(0) = <<>>
  /\ \A n \in Nat : UpTo(n) \in Seq(Nat) /\ Len(UpTo(n)) = n
  /\ \A n \in Nat \ {0} : Append(UpTo(n - 1), n) = UpTo(n)
<1>1. \A n \in Nat : UpTo(n) \in Seq(Nat) /\ Len(UpTo(n)) = n
  BY DEF UpTo
<1>2. UpTo(0) = <<>>
  BY <1>1 DEF UpTo
<1>3. ASSUME NEW n \in Nat \ {0}
      PROVE  Append(UpTo(n - 1), n) = UpTo(n)
  <2>1. n - 1 \in Nat /\ (n - 1) + 1 = n
    OBVIOUS
  <2>2. UpTo(n - 1) \in Seq(Nat) /\ Len(UpTo(n - 1)) = n - 1
    BY <1>1, <2>1
  <2>3. Append(UpTo(n - 1), n) = [i \in 1 .. (n - 1) + 1 |->
                                    IF i = (n - 1) + 1 THEN n ELSE UpTo(n - 1)[i]]
    BY <2>2
  <2>4. \A i \in 1 .. n : i # n => UpTo(n - 1)[i] = i
    BY <2>1 DEF UpTo
  <2> QED
    BY <2>1, <2>3, <2>4 DEF UpTo
<1> QED
  BY <1>1, <1>2, <1>3

LEMMA InitIInv == Init => IInv
<1> SUFFICES ASSUME Init PROVE IInv
  OBVIOUS
<1>1. ControlOK
  BY ScanAssumption DEF Init, ControlOK, Point, ConfType
<1>2. DataOK
  <2>1. <<>> \in Seq(Nat) /\ <<>> \in Seq(ScanRow)
    OBVIOUS
  <2>2. irqs \in Seq(Nat) /\ devices \in Seq(ScanRow)
    BY <2>1 DEF Init
  <2>3. types \in SUBSET InterruptType
    BY DEF Init
  <2> QED
    BY <2>2, <2>3 DEF DataOK
<1>3. WalkOK /\ HandlesOK /\ IrqsOK
  BY DEF Init, WalkOK, HandlesOK, Held, IrqsOK
<1>4. InterruptsWhole
  BY DEF Init, InterruptsWhole
<1>5. ErrOK /\ FailedOK
  BY DEF Init, ErrOK, FailedOK
<1> QED
  BY <1>1, <1>2, <1>3, <1>4, <1>5 DEF IInv

\* What the machine answers about the device looked at.
LEMMA AnswerType ==
  ASSUME ControlOK, pc \notin {"Enumerate", "Done"}
  PROVE  /\ index \in 1 .. Count
         /\ Number \in {NoConf} \union Nat
         /\ machine[index].types \in SUBSET InterruptType
BY ScanAssumption DEF ControlOK, Number, Answer

\* Devices listed keep their interrupts.
LEMMA WholeKept ==
  ASSUME InterruptsWhole, UNCHANGED <<machine, devices>>
  PROVE  InterruptsWhole'
BY DEF InterruptsWhole, Descriptors

\* So does the history of failed devices when it grows by the one looked at.
LEMMA FailedKept ==
  ASSUME FailedOK, index \in 1 .. Count, failed' = failed \/ failed' = failed \union {index}
  PROVE  FailedOK'
<1>1. CASE failed' = failed
  BY <1>1 DEF FailedOK
<1>2. CASE failed' = failed \union {index}
  BY <1>2 DEF FailedOK
<1> QED
  BY <1>1, <1>2

LEMMA EnumerateStep == IInv /\ Enumerate => IInv'
<1> SUFFICES ASSUME IInv, Enumerate PROVE IInv'
  OBVIOUS
<1>1. InterruptsWhole'
  BY WholeKept DEF IInv, Enumerate
<1>2. ControlOK'
  BY ScanAssumption DEF IInv, ControlOK, Enumerate, NextIndex, Point, ConfType
<1>3. DataOK'
  BY DEF IInv, DataOK, Enumerate
<1>6. ErrOK'
  BY DEF IInv, ErrOK, Enumerate
<1>7. FailedOK'
  <2>1. index + 1 .. Count \subseteq 1 .. Count
    BY ScanAssumption DEF IInv, ControlOK
  <2> QED
    BY <2>1 DEF IInv, FailedOK, Enumerate
<1>4. HandlesOK'
  BY DEF IInv, HandlesOK, Held, Enumerate
<1>5. WalkOK' /\ IrqsOK'
  BY DEF Enumerate, WalkOK, IrqsOK
<1> QED
  BY <1>1, <1>2, <1>3, <1>4, <1>5, <1>6, <1>7 DEF IInv

LEMMA FirstLogConfStep == IInv /\ FirstLogConf => IInv'
<1> SUFFICES ASSUME IInv, FirstLogConf PROVE IInv'
  OBVIOUS
<1>0. index \in 1 .. Count /\ Number \in {NoConf} \union Nat
  BY AnswerType DEF IInv, FirstLogConf
<1>1. InterruptsWhole'
  BY WholeKept DEF IInv, FirstLogConf
<1>2. ControlOK'
  BY <1>0 DEF IInv, ControlOK, FirstLogConf, NextConf, Point, ConfType
<1>3. DataOK'
  <2>1. irqs' = <<>> \/ irqs' = irqs
    BY DEF FirstLogConf
  <2>2. irqs' \in Seq(Nat)
    BY <2>1, UpToFacts DEF IInv, DataOK
  <2> QED
    BY <2>2 DEF IInv, DataOK, FirstLogConf
<1>6. ErrOK'
  BY DEF IInv, ErrOK, FirstLogConf
<1>7. FailedOK'
  BY <1>0 DEF IInv, FailedOK, FirstLogConf, Fail
<1>4. HandlesOK'
  BY DEF IInv, FirstLogConf, NextConf, Give, HandlesOK, Held, LogConf
<1>5. WalkOK' /\ IrqsOK'
  BY <1>0, UpToFacts DEF FirstLogConf, NextConf, WalkOK, IrqsOK, Number
<1> QED
  BY <1>1, <1>2, <1>3, <1>4, <1>5, <1>6, <1>7 DEF IInv

LEMMA FirstResDesStep == IInv /\ FirstResDes => IInv'
<1> SUFFICES ASSUME IInv, FirstResDes PROVE IInv'
  OBVIOUS
<1>0. index \in 1 .. Count /\ Number \in Nat
  BY AnswerType DEF IInv, FirstResDes, WalkOK
<1>1. InterruptsWhole'
  BY WholeKept DEF IInv, FirstResDes
<1>2. ControlOK'
  BY <1>0 DEF IInv, ControlOK, FirstResDes, Point
<1>3. DataOK'
  BY DEF IInv, DataOK, FirstResDes
<1>4. ErrOK'
  BY DEF IInv, ErrOK, FirstResDes
<1>5. FailedOK'
  BY <1>0 DEF IInv, FailedOK, FirstResDes, Fail
<1>6. HandlesOK'
  <2>1. handles = [open |-> {LogConf}, misused |-> FALSE]
    BY DEF IInv, HandlesOK, Held, FirstResDes
  <2>2. Use(handles, LogConf) = handles
    BY <2>1 DEF Use
  <2>3. LogConf' = LogConf
    BY DEF FirstResDes, LogConf
  <2>4. CASE pc' = "ReadResDes"
    <3>1. current' = 1 /\ handles' = Give(handles, ResDes(1))
      BY <2>2, <2>4 DEF FirstResDes
    <3>2. ResDes(current)' = ResDes(1)
      BY <3>1 DEF FirstResDes, ResDes
    <3> QED
      BY <2>1, <2>3, <2>4, <3>1, <3>2 DEF HandlesOK, Held, Give
  <2>5. CASE pc' = "FreeLogConf"
    <3>1. handles' = handles
      BY <2>2, <2>5 DEF FirstResDes
    <3> QED
      BY <2>1, <2>3, <2>5, <3>1 DEF HandlesOK, Held
  <2> QED
    BY <2>4, <2>5 DEF FirstResDes
<1>7. WalkOK'
  BY <1>0 DEF FirstResDes, WalkOK, Number
<1>8. IrqsOK'
  <2>1. ~ err /\ irqs = UpTo(0)
    BY DEF IInv, IrqsOK, FirstResDes
  <2>2. irqs' = irqs /\ Number' = Number
    BY DEF FirstResDes, Number
  <2>3. CASE pc' = "ReadResDes" /\ current' = 1 /\ err' = err
    BY <2>1, <2>2, <2>3 DEF IrqsOK
  <2>4. CASE pc' = "FreeLogConf" /\ Number = 0
    BY <2>1, <2>2, <2>4 DEF IrqsOK
  <2>5. CASE pc' = "FreeLogConf" /\ err'
    BY <2>5 DEF IrqsOK
  <2> QED
    BY <2>3, <2>4, <2>5 DEF FirstResDes, Number
<1> QED
  BY <1>1, <1>2, <1>3, <1>4, <1>5, <1>6, <1>7, <1>8 DEF IInv

\* The two handles of the walk, used and the second one freed.
LEMMA WalkHandles ==
  ASSUME IInv, pc \in Walking
  PROVE  /\ LogConf # ResDes(current)
         /\ handles = [open |-> {LogConf, ResDes(current)}, misused |-> FALSE]
         /\ Use(handles, ResDes(current)) = handles
         /\ Free(handles, ResDes(current)) = [open |-> {LogConf}, misused |-> FALSE]
<1>1. current > 0
  BY DEF IInv, ControlOK, WalkOK
<1>2. LogConf # ResDes(current)
  BY <1>1 DEF LogConf, ResDes
<1>3. handles = [open |-> {LogConf, ResDes(current)}, misused |-> FALSE]
  BY DEF IInv, HandlesOK, Held
<1>4. Use(handles, ResDes(current)) = handles
  BY <1>3 DEF Use
<1>5. {LogConf, ResDes(current)} \ {ResDes(current)} = {LogConf}
  BY <1>2
<1>6. Free(handles, ResDes(current)) = [open |-> {LogConf}, misused |-> FALSE]
  BY <1>3, <1>5 DEF Free
<1> QED
  BY <1>2, <1>3, <1>4, <1>6

LEMMA ReadResDesStep == IInv /\ ReadResDes => IInv'
<1> SUFFICES ASSUME IInv, ReadResDes PROVE IInv'
  OBVIOUS
<1>0. index \in 1 .. Count /\ Number \in Nat /\ current \in Nat \ {0} /\ current \in 1 .. Number
  BY AnswerType DEF IInv, ReadResDes, WalkOK
<1>1. InterruptsWhole'
  BY WholeKept DEF IInv, ReadResDes
<1>2. ControlOK'
  BY <1>0 DEF IInv, ControlOK, ReadResDes, Point
<1>3. DataOK'
  <2>1. Append(irqs, current) \in Seq(Nat)
    BY <1>0 DEF IInv, DataOK
  <2>2. irqs' \in Seq(Nat)
    BY <2>1 DEF IInv, DataOK, ReadResDes
  <2> QED
    BY <2>2 DEF IInv, DataOK, ReadResDes
<1>4. ErrOK'
  BY DEF IInv, ErrOK, ReadResDes
<1>5. FailedOK'
  BY <1>0 DEF IInv, FailedOK, ReadResDes, Fail
<1>6. HandlesOK'
  <2>1. UNCHANGED <<LogConf, ResDes(current)>>
    BY DEF ReadResDes, LogConf, ResDes
  <2>2. CASE pc' = "NextResDes"
    <3>1. handles' = handles
      BY <2>2, WalkHandles DEF ReadResDes
    <3> QED
      BY <2>1, <2>2, <3>1, WalkHandles DEF HandlesOK, Held, ReadResDes
  <2>3. CASE pc' = "FreeLogConf"
    <3>1. handles' = [open |-> {LogConf}, misused |-> FALSE]
      BY <2>3, WalkHandles DEF ReadResDes, AfterFailedRead
    <3> QED
      BY <2>1, <2>3, <3>1 DEF HandlesOK, Held
  <2> QED
    BY <2>2, <2>3 DEF ReadResDes
<1>7. WalkOK'
  BY <1>0 DEF ReadResDes, WalkOK, Number
<1>8. IrqsOK'
  <2>1. ~ err /\ irqs = UpTo(current - 1)
    BY DEF IInv, IrqsOK, ReadResDes
  <2>2. CASE pc' = "NextResDes" /\ irqs' = Append(irqs, current) /\ err' = err
    <3>1. irqs' = UpTo(current)
      BY <1>0, <2>1, <2>2, UpToFacts
    <3>2. current' = current
      BY DEF ReadResDes
    <3> QED
      BY <2>1, <2>2, <3>1, <3>2 DEF IrqsOK
  <2>3. CASE pc' = "FreeLogConf" /\ err'
    BY <2>3 DEF IrqsOK
  <2> QED
    BY <2>2, <2>3 DEF ReadResDes
<1> QED
  BY <1>1, <1>2, <1>3, <1>4, <1>5, <1>6, <1>7, <1>8 DEF IInv

LEMMA NextResDesStep == IInv /\ NextResDes => IInv'
<1> SUFFICES ASSUME IInv, NextResDes PROVE IInv'
  OBVIOUS
<1>0. index \in 1 .. Count /\ Number \in Nat /\ current \in Nat \ {0} /\ current \in 1 .. Number
  BY AnswerType DEF IInv, NextResDes, WalkOK
<1>1. InterruptsWhole'
  BY WholeKept DEF IInv, NextResDes
<1>2. ControlOK'
  BY <1>0 DEF IInv, ControlOK, NextResDes, Point
<1>3. DataOK'
  BY DEF IInv, DataOK, NextResDes
<1>4. ErrOK'
  BY DEF IInv, ErrOK, NextResDes
<1>5. FailedOK'
  BY <1>0 DEF IInv, FailedOK, NextResDes, Fail
<1>6. HandlesOK'
  <2>1. AfterNext(handles) = [open |-> {LogConf}, misused |-> FALSE]
    BY WalkHandles DEF NextResDes, AfterNext
  <2>2. LogConf' = LogConf
    BY DEF NextResDes, LogConf
  <2>3. CASE pc' = "ReadResDes"
    <3>1. current' = current + 1 /\ handles' = Give(AfterNext(handles), ResDes(current + 1))
      BY <2>3 DEF NextResDes
    <3>2. ResDes(current)' = ResDes(current + 1)
      BY <3>1 DEF NextResDes, ResDes
    <3>3. handles' = [open |-> {LogConf} \union {ResDes(current + 1)}, misused |-> FALSE]
      <4>1. handles' = Give([open |-> {LogConf}, misused |-> FALSE], ResDes(current + 1))
        BY <2>1, <3>1
      <4> QED
        BY <4>1 DEF Give
    <3>4. {LogConf} \union {ResDes(current + 1)} = {LogConf, ResDes(current + 1)}
      OBVIOUS
    <3> QED
      BY <2>2, <2>3, <3>2, <3>3, <3>4 DEF HandlesOK, Held
  <2>4. CASE pc' = "FreeLogConf"
    <3>1. handles' = AfterNext(handles)
      BY <2>4 DEF NextResDes
    <3> QED
      BY <2>1, <2>2, <2>4, <3>1 DEF HandlesOK, Held
  <2> QED
    BY <2>3, <2>4 DEF NextResDes
<1>7. WalkOK'
  BY <1>0 DEF NextResDes, WalkOK, Number
<1>8. IrqsOK'
  <2>1. ~ err /\ irqs = UpTo(current)
    BY DEF IInv, IrqsOK, NextResDes
  <2>2. irqs' = irqs /\ Number' = Number
    BY DEF NextResDes, Number
  <2>3. CASE pc' = "ReadResDes" /\ current' = current + 1 /\ err' = err
    <3>1. current' - 1 = current
      BY <1>0, <2>3
    <3> QED
      BY <2>1, <2>2, <2>3, <3>1 DEF IrqsOK
  <2>4. CASE pc' = "FreeLogConf" /\ current = Number
    BY <2>1, <2>2, <2>4 DEF IrqsOK
  <2>5. CASE pc' = "FreeLogConf" /\ err'
    BY <2>5 DEF IrqsOK
  <2> QED
    BY <2>3, <2>4, <2>5 DEF NextResDes, Number
<1> QED
  BY <1>1, <1>2, <1>3, <1>4, <1>5, <1>6, <1>7, <1>8 DEF IInv

LEMMA FreeLogConfStep == IInv /\ FreeLogConf => IInv'
<1> SUFFICES ASSUME IInv, FreeLogConf PROVE IInv'
  OBVIOUS
<1>0. index \in 1 .. Count /\ Number \in Nat
  BY AnswerType DEF IInv, FreeLogConf, WalkOK
<1>1. InterruptsWhole'
  BY WholeKept DEF IInv, FreeLogConf
<1>2. pc' \in {"Enumerate", "FirstLogConf", "Flags"} /\ conf' \in ConfType
  BY DEF IInv, ControlOK, FreeLogConf, AfterConf, NextConf, ConfType
<1>3. ControlOK'
  BY <1>0, <1>2 DEF IInv, ControlOK, FreeLogConf, Point
<1>4. DataOK' /\ FailedOK'
  BY DEF IInv, DataOK, FailedOK, FreeLogConf
<1>5. ErrOK'
  BY DEF IInv, ErrOK, FreeLogConf
<1>6. HandlesOK'
  <2>1. handles = [open |-> {LogConf}, misused |-> FALSE]
    BY DEF IInv, HandlesOK, Held, FreeLogConf
  <2>2. handles' = [open |-> {}, misused |-> FALSE]
    BY <2>1 DEF FreeLogConf, Free
  <2> QED
    BY <1>2, <2>2 DEF HandlesOK, Held
<1>7. WalkOK'
  BY <1>2 DEF WalkOK
<1>8. IrqsOK'
  <2>1. CASE pc' = "Flags"
    <3>1. ~ err /\ irqs # <<>> /\ conf' = conf
      BY <2>1 DEF FreeLogConf, AfterConf, NextConf
    <3>2. irqs = UpTo(Number)
      BY <3>1 DEF IInv, IrqsOK, FreeLogConf
    <3>3. Number' = Number /\ irqs' = irqs
      BY <3>1 DEF FreeLogConf, Number
    <3> QED
      BY <1>0, <2>1, <3>1, <3>2, <3>3 DEF IrqsOK
  <2>2. CASE pc' # "Flags"
    BY <1>2, <2>2 DEF IrqsOK
  <2> QED
    BY <2>1, <2>2
<1> QED
  BY <1>1, <1>3, <1>4, <1>5, <1>6, <1>7, <1>8 DEF IInv

\* The properties of a device: no handle is out, and the interrupts stay.
LEMMA PropertyStep == IInv /\ (CheckFlags \/ CheckDescription \/ ReadTypes) => IInv'
<1> SUFFICES ASSUME IInv, CheckFlags \/ CheckDescription \/ ReadTypes PROVE IInv'
  OBVIOUS
<1> USE DEF CheckFlags, CheckDescription, ReadTypes
<1>0. index \in 1 .. Count /\ machine[index].types \in SUBSET InterruptType
  BY AnswerType DEF IInv
<1>1. InterruptsWhole'
  BY WholeKept DEF IInv
<1>2. pc \in Listing /\ pc' \in Listing \union {"Enumerate"}
  OBVIOUS
<1>3. ControlOK'
  BY <1>0, <1>2 DEF IInv, ControlOK, Point
<1>4. DataOK'
  <2>1. types' \in {types, machine[index].types, {}}
    OBVIOUS
  <2>2. types' \in SUBSET InterruptType
    BY <1>0, <2>1 DEF IInv, DataOK
  <2> QED
    BY <2>2 DEF IInv, DataOK
<1>5. ErrOK'
  BY DEF IInv, ErrOK
<1>6. FailedOK'
  <2>1. failed' = failed \/ failed' = failed \union {index}
    BY DEF Fail
  <2>2. FailedOK
    BY DEF IInv
  <2> QED
    BY <1>0, <2>1, <2>2, FailedKept
<1>7. HandlesOK'
  BY <1>2 DEF IInv, HandlesOK, Held
<1>8. WalkOK'
  BY <1>2 DEF WalkOK
<1>9. IrqsOK'
  BY <1>2 DEF IInv, IrqsOK, Number
<1> QED
  BY <1>1, <1>3, <1>4, <1>5, <1>6, <1>7, <1>8, <1>9 DEF IInv

\* The row: its interrupts are those of the configuration the walk ended with.
LEMMA ReadSettingsStep == IInv /\ ReadSettings => IInv'
<1> SUFFICES ASSUME IInv, ReadSettings PROVE IInv'
  OBVIOUS
<1>0. index \in 1 .. Count /\ index \in 1 .. Count /\ conf \in ConfType
  BY AnswerType DEF IInv, ControlOK, ReadSettings
<1>1. irqs # <<>> /\ Number \in Nat /\ irqs = UpTo(Number)
  BY DEF IInv, IrqsOK, ReadSettings
<1>2. PICK a \in {machine[index].entry.affinity, Absent},
           m \in {machine[index].entry.msi, Absent} :
        /\ devices' = Append(devices,
             [device |-> index, irqs |-> irqs, types |-> types,
              settings |-> ReadDevice([affinity |-> a, msi |-> m], types)])
        /\ failed' = failed \union
             (IF [affinity |-> a, msi |-> m] = machine[index].entry THEN {} ELSE {index})
  BY DEF ReadSettings
<1> DEFINE read == [affinity |-> a, msi |-> m]
           row  == [device |-> index, irqs |-> irqs, types |-> types,
                    settings |-> ReadDevice(read, types)]
<1>3. read \in Entry
  BY <1>0, ScanAssumption DEF IInv, ControlOK, Answer, Entry, AffinityKey, MsiKey
<1>4. row \in ScanRow
  BY <1>0, <1>3, ReadAgrees DEF IInv, DataOK, ScanRow
<1>5. devices \in Seq(ScanRow) /\ devices' = Append(devices, row)
  BY <1>2 DEF IInv, DataOK
<1>6. ControlOK'
  BY DEF IInv, ControlOK, ReadSettings, Point
<1>7. DataOK'
  <2>1. devices' \in Seq(ScanRow)
    BY <1>4, <1>5
  <2> QED
    BY <2>1 DEF IInv, DataOK, ReadSettings
<1>8. ErrOK'
  BY DEF IInv, ErrOK, ReadSettings
<1>9. FailedOK'
  BY <1>0, <1>2 DEF IInv, FailedOK
<1>10. HandlesOK' /\ WalkOK' /\ IrqsOK'
  BY DEF IInv, HandlesOK, Held, WalkOK, IrqsOK, ReadSettings
<1>11. InterruptsWhole'
  <2>1. machine' = machine
    BY DEF ReadSettings
  <2>2. DOMAIN devices' = 1 .. Len(devices) + 1 /\ DOMAIN devices = 1 .. Len(devices)
        /\ Len(devices) \in Nat
    BY <1>5, <1>4
  <2>3. ASSUME NEW i \in DOMAIN devices', i # Len(devices) + 1
        PROVE  i \in DOMAIN devices /\ devices'[i] = devices[i]
    BY <1>5, <1>4, <2>2, <2>3
  <2>4. devices'[Len(devices) + 1] = row
    BY <1>5, <1>4
  <2>5. row.irqs # <<>> /\ row.irqs = Descriptors(index, conf)
    BY <1>1, ScanAssumption DEF Number, Descriptors, UpTo
  <2>6. ASSUME NEW i \in DOMAIN devices'
        PROVE  /\ devices'[i].irqs # <<>>
               /\ \E c \in ConfType : devices'[i].irqs = Descriptors(devices'[i].device, c)
    <3>1. CASE i = Len(devices) + 1
      BY <1>0, <2>4, <2>5, <3>1
    <3>2. CASE i # Len(devices) + 1
      BY <2>3, <3>2 DEF IInv, InterruptsWhole
    <3> QED
      BY <3>1, <3>2
  <2> QED
    BY <2>1, <2>6 DEF InterruptsWhole, Descriptors
<1> QED
  BY <1>6, <1>7, <1>8, <1>9, <1>10, <1>11 DEF IInv

LEMMA Invariance == Spec => []IInv
<1>1. IInv /\ [Next]_vars => IInv'
  <2> SUFFICES ASSUME IInv, [Next]_vars
               PROVE  IInv'
    OBVIOUS
  <2>1. CASE Next
    BY <2>1, EnumerateStep, FirstLogConfStep, FirstResDesStep, ReadResDesStep,
       NextResDesStep, FreeLogConfStep, PropertyStep, ReadSettingsStep DEF Next
  <2>2. CASE UNCHANGED vars
    <3>1. ControlOK' /\ DataOK' /\ FailedOK' /\ WalkOK' /\ IrqsOK'
      BY <2>2 DEF IInv, ControlOK, DataOK, FailedOK, WalkOK, IrqsOK, Number, vars
    <3>2. ErrOK'
      BY <2>2 DEF IInv, ErrOK, vars
    <3>3. HandlesOK'
      BY <2>2 DEF IInv, HandlesOK, Held, LogConf, ResDes, vars
    <3>4. InterruptsWhole'
      BY <2>2, WholeKept DEF IInv, vars
    <3> QED
      BY <3>1, <3>2, <3>3, <3>4 DEF IInv
  <2> QED
    BY <2>1, <2>2
<1> QED
  BY <1>1, InitIInv, PTL DEF Spec

-----------------------------------------------------------------------------
\* The variables of the scan have their types.
THEOREM TypeCorrect == Spec => []TypeOK
<1>1. IInv => TypeOK
  <2> SUFFICES ASSUME IInv PROVE TypeOK
    OBVIOUS
  <2>1. index \in Nat /\ conf \in ConfType /\ current \in Nat
    BY ScanAssumption DEF IInv, ControlOK
  <2>2. Held \subseteq Nat \X ConfType \X Nat
    BY <2>1 DEF Held, LogConf, ResDes
  <2>3. handles \in [open : SUBSET (Nat \X ConfType \X Nat), misused : BOOLEAN]
    BY <2>2 DEF IInv, HandlesOK
  <2>4. err \in BOOLEAN
    BY DEF IInv, ErrOK
  <2>5. /\ irqs \in Seq(Nat) /\ types \in SUBSET InterruptType
        /\ devices \in Seq(ScanRow) /\ failed \subseteq 1 .. Count
    BY DEF IInv, DataOK, FailedOK
  <2> QED
    BY <2>3, <2>4, <2>5, Zenon DEF IInv, ControlOK, TypeOK, ScanRow
<1> QED
  BY <1>1, Invariance, PTL

\* No call of the scan uses or frees a handle that was freed before, however
\* many descriptors there are and wherever an error ends the walk
\* (collectIRQsFromLogConf).
THEOREM HandlesInUseAlways == Spec => []HandlesInUse
<1>1. IInv => HandlesInUse
  BY DEF IInv, HandlesOK, HandlesInUse
<1> QED
  BY <1>1, Invariance, PTL

\* Between two devices and after the scan no handle is left.
THEOREM NoHandleLeftAlways == Spec => []NoHandleLeft
<1>1. IInv => NoHandleLeft
  BY DEF IInv, HandlesOK, Held, NoHandleLeft
<1> QED
  BY <1>1, Invariance, PTL

\* A listed device shows all the interrupts of one of its configurations,
\* however many it has and whatever fails (DevNodeHasIRQ).
THEOREM InterruptsWholeAlways == Spec => []InterruptsWhole
<1>1. IInv => InterruptsWhole
  BY DEF IInv
<1> QED
  BY <1>1, Invariance, PTL

-----------------------------------------------------------------------------
(***************************************************************************)
(* Complete scans.  While a device is looked at that no call failed for,   *)
(* the configurations passed over have no interrupt and what was read of   *)
(* its properties is as Windows has it; no device is listed before its     *)
(* turn is over.                                                           *)
(***************************************************************************)
Looking == pc \notin {"Enumerate", "Done"}

LookOK ==
  Looking /\ index \notin failed =>
    /\ \A c \in ConfType : c < conf => Descriptors(index, c) = <<>>
    /\ pc = "FreeLogConf" => ~ err
    /\ pc \in {"Description", "Types", "Settings"} => ~ machine[index].disabled
    /\ pc \in {"Types", "Settings"} => machine[index].described
    /\ pc = "Settings" => types = machine[index].types

ListedPassed == \A i \in DOMAIN devices : devices[i].device \in Passed

Complete(d) ==
  IF Wanted(d) THEN \E i \in DOMAIN devices : devices[i] = Row(d) ELSE Listed(d) = {}

CInv == LookOK /\ ListedPassed /\ ScanComplete

\* What is said of a device depends on the machine alone, which stays.
LEMMA MachineStays ==
  ASSUME machine' = machine, NEW d
  PROVE  /\ \A c : Descriptors(d, c)' = Descriptors(d, c)
         /\ Wanted(d)' = Wanted(d)
         /\ Row(d)' = Row(d)
<1>1. \A c : Descriptors(d, c)' = Descriptors(d, c)
  BY DEF Descriptors
<1>2. Wanted(d)' = Wanted(d)
  BY DEF Wanted, WithInterrupts, Descriptors
<1>3. Interrupts(d)' = Interrupts(d)
  BY DEF Interrupts, WithInterrupts, Descriptors
<1> QED
  BY <1>1, <1>2, <1>3 DEF Row

\* A device stays complete while no row is added.
LEMMA CompleteStays ==
  ASSUME UNCHANGED <<machine, devices>>, NEW d, Complete(d)
  PROVE  Complete(d)'
<1>1. devices' = devices
  OBVIOUS
<1>2. Wanted(d)' = Wanted(d) /\ Row(d)' = Row(d)
  BY MachineStays
<1>3. Listed(d)' = Listed(d)
  BY <1>1 DEF Listed
<1> QED
  BY <1>1, <1>2, <1>3 DEF Complete

\* A step that goes on looking at the same device.
LEMMA LookOn ==
  ASSUME CInv, Looking, Looking', UNCHANGED <<machine, index, devices>>,
         failed \subseteq failed'
  PROVE  ListedPassed' /\ ScanComplete'
<1>1. Passed = 1 .. index - 1 /\ Passed' = 1 .. index - 1
  BY DEF Looking, Passed
<1>2. ListedPassed'
  BY <1>1 DEF CInv, ListedPassed
<1>3. \A d \in Passed' \ failed' : Complete(d)
  BY <1>1 DEF CInv, ScanComplete, Complete
<1> QED
  BY <1>2, <1>3, CompleteStays DEF ScanComplete, Complete

\* A step that drops the device looked at.
LEMMA LookAway ==
  ASSUME IInv, CInv, Looking, pc' = "Enumerate", UNCHANGED <<machine, index, devices>>,
         failed \subseteq failed', index \notin failed' => ~ Wanted(index)
  PROVE  CInv'
<1>0. index \in 1 .. Count
  BY ScanAssumption DEF IInv, ControlOK, Looking
<1>1. Passed = 1 .. index - 1 /\ Passed' = 1 .. index
  BY DEF Looking, Passed
<1>2. LookOK'
  BY DEF LookOK, Looking
<1>3. ListedPassed'
  BY <1>0, <1>1, ScanAssumption DEF CInv, ListedPassed
<1>4. Listed(index) = {}
  BY <1>0, <1>1, ScanAssumption DEF CInv, ListedPassed, Listed
<1>5. \A d \in Passed' \ failed' : Complete(d)
  <2>1. ASSUME NEW d \in Passed' \ failed', d # index
        PROVE  Complete(d)
    BY <1>0, <1>1, <2>1, ScanAssumption DEF CInv, ScanComplete, Complete
  <2>2. index \notin failed' => Complete(index)
    BY <1>4 DEF Complete
  <2> QED
    BY <2>1, <2>2
<1> QED
  BY <1>2, <1>3, <1>5, CompleteStays DEF CInv, ScanComplete, Complete

\* A configuration type passed over: all are, after the third.
LEMMA NoInterrupts ==
  ASSUME conf = 3, \A c \in ConfType : c < conf => Descriptors(index, c) = <<>>,
         Descriptors(index, conf) = <<>>
  PROVE  ~ Wanted(index)
<1>1. ASSUME NEW c \in ConfType
      PROVE  Descriptors(index, c) = <<>>
  BY DEF ConfType
<1> QED
  BY <1>1 DEF Wanted, WithInterrupts

LEMMA EnumerateComplete == IInv /\ CInv /\ Enumerate => CInv'
<1> SUFFICES ASSUME IInv, CInv, Enumerate PROVE CInv'
  OBVIOUS
<1>0. index \in 0 .. Count /\ UNCHANGED <<machine, devices>>
  BY DEF IInv, ControlOK, Enumerate
<1>1. Passed = 1 .. index
  BY DEF Enumerate, Passed
<1>2. CASE index' = index + 1 /\ conf' = 1 /\ pc' = "FirstLogConf" /\ failed' = failed
  <2>1. Passed' = 1 .. index
    BY <1>0, <1>2, ScanAssumption DEF Passed
  <2>2. LookOK'
    BY <1>2 DEF LookOK, ConfType
  <2>3. ListedPassed'
    BY <1>0, <1>1, <2>1 DEF CInv, ListedPassed
  <2>4. \A d \in Passed' \ failed' : Complete(d)
    BY <1>1, <1>2, <2>1 DEF CInv, ScanComplete, Complete
  <2> QED
    BY <1>0, <2>2, <2>3, <2>4, CompleteStays DEF CInv, ScanComplete, Complete
<1>3. CASE pc' = "Done" /\ failed' = failed \union (index + 1 .. Count)
  <2>1. Passed' = 1 .. Count
    BY <1>3 DEF Passed
  <2>2. LookOK'
    BY <1>3 DEF LookOK, Looking
  <2>3. ListedPassed'
    BY <1>0, <1>1, <2>1, ScanAssumption DEF CInv, ListedPassed
  <2>4. \A d \in Passed' \ failed' : d \in Passed \ failed
    BY <1>0, <1>1, <1>3, <2>1, ScanAssumption
  <2>5. \A d \in Passed' \ failed' : Complete(d)
    BY <2>4 DEF CInv, ScanComplete, Complete
  <2> QED
    BY <1>0, <2>2, <2>3, <2>5, CompleteStays DEF CInv, ScanComplete, Complete
<1> QED
  BY <1>2, <1>3 DEF Enumerate, NextIndex

LEMMA FirstLogConfComplete == IInv /\ CInv /\ FirstLogConf => CInv'
<1> SUFFICES ASSUME IInv, CInv, FirstLogConf PROVE CInv'
  OBVIOUS
<1>0. /\ Looking /\ conf \in ConfType
      /\ UNCHANGED <<machine, index, devices>> /\ failed \subseteq failed'
  BY DEF IInv, ControlOK, FirstLogConf, Looking, Fail
<1>1. index \notin failed => \A c \in ConfType : c < conf => Descriptors(index, c) = <<>>
  BY <1>0 DEF CInv, LookOK
<1>2. CASE pc' = "FirstResDes" /\ conf' = conf
  <2>1. LookOK'
    BY <1>0, <1>1, <1>2 DEF LookOK, Descriptors
  <2> QED
    BY <1>0, <1>2, <2>1, LookOn DEF CInv, Looking
<1>3. CASE NextConf /\ (index \notin failed' => Descriptors(index, conf) = <<>>)
  <2>1. CASE conf < 3
    <3>1. pc' = "FirstLogConf" /\ conf' = conf + 1
      BY <1>3, <2>1 DEF NextConf
    <3>2. index \notin failed' =>
            \A c \in ConfType : c < conf + 1 => Descriptors(index, c) = <<>>
      BY <1>0, <1>1, <1>3 DEF ConfType
    <3>3. LookOK'
      BY <1>0, <3>1, <3>2 DEF LookOK, Descriptors
    <3> QED
      BY <1>0, <3>1, <3>3, LookOn DEF CInv, Looking
  <2>2. CASE ~(conf < 3)
    <3>1. pc' = "Enumerate" /\ conf = 3
      BY <1>0, <1>3, <2>2 DEF NextConf, ConfType
    <3>2. index \notin failed' => ~ Wanted(index)
      BY <1>0, <1>1, <1>3, <3>1, NoInterrupts
    <3> QED
      BY <1>0, <3>1, <3>2, LookAway
  <2> QED
    BY <2>1, <2>2
<1> QED
  BY <1>2, <1>3 DEF FirstLogConf, Fail, Descriptors

\* The walk: an error is one of a call that failed.
LEMMA WalkComplete ==
  IInv /\ CInv /\ (FirstResDes \/ ReadResDes \/ NextResDes) => CInv'
<1> SUFFICES ASSUME IInv, CInv, FirstResDes \/ ReadResDes \/ NextResDes PROVE CInv'
  OBVIOUS
<1>1. /\ Looking /\ Looking' /\ UNCHANGED <<machine, index, conf, devices>>
      /\ failed \subseteq failed'
      /\ pc' \in Walking \union {"FreeLogConf"}
  BY DEF FirstResDes, ReadResDes, NextResDes, Looking, Fail
<1>2. ~ err
  BY DEF IInv, IrqsOK, FirstResDes, ReadResDes, NextResDes
<1>3. err' => index \in failed'
  BY <1>2 DEF FirstResDes, ReadResDes, NextResDes, Fail
<1>4. LookOK'
  BY <1>1, <1>3 DEF CInv, LookOK, Descriptors
<1> QED
  BY <1>1, <1>4, LookOn DEF CInv

LEMMA FreeLogConfComplete == IInv /\ CInv /\ FreeLogConf => CInv'
<1> SUFFICES ASSUME IInv, CInv, FreeLogConf PROVE CInv'
  OBVIOUS
<1>0. /\ Looking /\ conf \in ConfType /\ UNCHANGED <<machine, index, devices, failed>>
  BY DEF IInv, ControlOK, FreeLogConf, Looking
<1>1. index \notin failed =>
        ~ err /\ \A c \in ConfType : c < conf => Descriptors(index, c) = <<>>
  BY <1>0 DEF CInv, LookOK, FreeLogConf
<1>2. ASSUME index \notin failed, irqs = <<>>
      PROVE  Descriptors(index, conf) = <<>>
  <2>1. Number \in Nat /\ irqs = UpTo(Number)
    BY <1>1, <1>2 DEF IInv, WalkOK, IrqsOK, FreeLogConf
  <2> QED
    BY <1>2, <2>1 DEF Descriptors, Number, UpTo
<1>3. CASE pc' = "Enumerate"
  <2>1. ASSUME index \notin failed
        PROVE  ~ Wanted(index)
    <3>1. irqs = <<>> /\ conf = 3
      BY <1>0, <1>1, <1>3, <2>1 DEF FreeLogConf, AfterConf, NextConf, ConfType
    <3> QED
      BY <1>1, <1>2, <2>1, <3>1, NoInterrupts
  <2> QED
    BY <1>0, <1>3, <2>1, LookAway
<1>4. CASE pc' = "FirstLogConf"
  <2>1. irqs = <<>> /\ conf' = conf + 1
    BY <1>4 DEF FreeLogConf, AfterConf, NextConf
  <2>2. index \notin failed =>
          \A c \in ConfType : c < conf + 1 => Descriptors(index, c) = <<>>
    BY <1>0, <1>1, <1>2, <2>1 DEF ConfType
  <2>3. LookOK'
    BY <1>0, <1>4, <2>1, <2>2 DEF LookOK, Descriptors
  <2> QED
    BY <1>0, <1>4, <2>3, LookOn DEF CInv, Looking
<1>5. CASE pc' = "Flags"
  <2>1. conf' = conf
    BY <1>5 DEF FreeLogConf, AfterConf, NextConf
  <2>2. LookOK'
    BY <1>0, <1>1, <1>5, <2>1 DEF LookOK, Descriptors
  <2> QED
    BY <1>0, <1>5, <2>2, LookOn DEF CInv, Looking
<1> QED
  BY <1>3, <1>4, <1>5 DEF FreeLogConf, AfterConf, NextConf

LEMMA PropertyComplete ==
  IInv /\ CInv /\ (CheckFlags \/ CheckDescription \/ ReadTypes) => CInv'
<1> SUFFICES ASSUME IInv, CInv, CheckFlags \/ CheckDescription \/ ReadTypes PROVE CInv'
  OBVIOUS
<1>1. Looking /\ UNCHANGED <<machine, index, conf, devices>> /\ failed \subseteq failed'
  BY DEF CheckFlags, CheckDescription, ReadTypes, Looking, Fail
<1>2. CASE pc' = "Enumerate"
  <2>1. index \notin failed' => machine[index].disabled \/ ~ machine[index].described
    BY <1>2 DEF CheckFlags, CheckDescription, ReadTypes, Fail
  <2> QED
    BY <1>1, <1>2, <2>1, LookAway DEF Wanted
<1>3. CASE pc' # "Enumerate"
  <2>1. Looking'
    BY <1>3 DEF CheckFlags, CheckDescription, ReadTypes, Looking
  <2>2. LookOK'
    BY <1>1, <1>3 DEF CInv, LookOK, CheckFlags, CheckDescription, ReadTypes, Fail, Descriptors,
                      Looking
  <2> QED
    BY <1>1, <2>1, <2>2, LookOn DEF CInv
<1> QED
  BY <1>2, <1>3

\* The configuration whose interrupts are listed is the first that has any.
LEMMA FirstWithInterrupts ==
  ASSUME NEW d, NEW c \in ConfType, Descriptors(d, c) # <<>>,
         \A e \in ConfType : e < c => Descriptors(d, e) = <<>>
  PROVE  Interrupts(d) = Descriptors(d, c)
<1> DEFINE first == CHOOSE e \in WithInterrupts(d) : \A f \in WithInterrupts(d) : e <= f
<1>1. c \in WithInterrupts(d) /\ \A f \in WithInterrupts(d) : c <= f
  BY DEF WithInterrupts, ConfType
<1>2. first \in WithInterrupts(d) /\ \A f \in WithInterrupts(d) : first <= f
  BY <1>1
<1>3. first <= c /\ c <= first /\ first \in ConfType
  BY <1>1, <1>2 DEF WithInterrupts
<1>4. first = c
  <2> HIDE DEF first
  <2> QED
    BY <1>3 DEF ConfType
<1> QED
  BY <1>4 DEF Interrupts

LEMMA ReadSettingsComplete == IInv /\ CInv /\ ReadSettings => CInv'
<1> SUFFICES ASSUME IInv, CInv, ReadSettings PROVE CInv'
  OBVIOUS
<1>0. /\ Looking /\ conf \in ConfType /\ index \in 1 .. Count /\ UNCHANGED <<machine, index>>
      /\ pc' = "Enumerate" /\ devices \in Seq(ScanRow)
  BY AnswerType DEF IInv, ControlOK, DataOK, ReadSettings, Looking
<1>1. PICK a \in {machine[index].entry.affinity, Absent},
           m \in {machine[index].entry.msi, Absent} :
        /\ devices' = Append(devices,
             [device |-> index, irqs |-> irqs, types |-> types,
              settings |-> ReadDevice([affinity |-> a, msi |-> m], types)])
        /\ failed' = failed \union
             (IF [affinity |-> a, msi |-> m] = machine[index].entry THEN {} ELSE {index})
  BY DEF ReadSettings
<1> DEFINE read == [affinity |-> a, msi |-> m]
           row  == [device |-> index, irqs |-> irqs, types |-> types,
                    settings |-> ReadDevice(read, types)]
<1>2. /\ DOMAIN devices = 1 .. Len(devices) /\ DOMAIN devices' = 1 .. Len(devices) + 1
      /\ \A i \in DOMAIN devices : devices'[i] = devices[i]
      /\ devices'[Len(devices) + 1] = row
      /\ Len(devices) \in Nat
  <2>1. row \in ScanRow
    <3>1. read \in Entry
      BY <1>0, ScanAssumption DEF IInv, ControlOK, Answer, Entry, AffinityKey, MsiKey
    <3> QED
      BY <1>0, <3>1, ReadAgrees DEF IInv, DataOK, ScanRow
  <2>2. devices' = Append(devices, row)
    BY <1>1
  <2> HIDE DEF row
  <2> QED
    BY <1>0, <2>1, <2>2
<1>3. row.device = index
  OBVIOUS
<1>4. Passed = 1 .. index - 1 /\ Passed' = 1 .. index
  BY <1>0 DEF Looking, Passed
<1>5. ASSUME index \notin failed'
      PROVE  Wanted(index) /\ row = Row(index)
  <2>1. index \notin failed /\ read = machine[index].entry
    BY <1>1, <1>5
  <2>2. irqs # <<>> /\ irqs = Descriptors(index, conf)
    BY ScanAssumption DEF IInv, IrqsOK, ReadSettings, Descriptors, Number, UpTo
  <2>3. /\ \A c \in ConfType : c < conf => Descriptors(index, c) = <<>>
        /\ ~ machine[index].disabled /\ machine[index].described
        /\ types = machine[index].types
    BY <1>0, <2>1 DEF CInv, LookOK, ReadSettings
  <2>4. irqs = Interrupts(index)
    BY <1>0, <2>2, <2>3, FirstWithInterrupts
  <2>5. Wanted(index)
    BY <1>0, <2>2, <2>3 DEF Wanted, WithInterrupts
  <2> QED
    BY <2>1, <2>3, <2>4, <2>5 DEF Row
<1> HIDE DEF row
<1>6. LookOK'
  BY <1>0 DEF LookOK, Looking
<1>7. ListedPassed'
  BY <1>0, <1>2, <1>3, <1>4, ScanAssumption DEF CInv, ListedPassed
<1>8. ASSUME NEW d \in Passed' \ failed'
      PROVE  Complete(d)'
  <2>0. Wanted(d)' = Wanted(d) /\ Row(d)' = Row(d)
    BY <1>0, MachineStays
  <2>1. CASE d = index
    BY <1>2, <1>5, <2>0, <2>1 DEF Complete
  <2>2. CASE d # index
    <3>1. Complete(d)
      BY <1>0, <1>1, <1>4, <2>2, ScanAssumption DEF CInv, ScanComplete, Complete
    <3>2. Listed(d)' = Listed(d)
      BY <1>2, <1>3, <2>2 DEF Listed
    <3> QED
      BY <1>2, <2>0, <3>1, <3>2 DEF Complete
  <2> QED
    BY <2>1, <2>2
<1> QED
  BY <1>6, <1>7, <1>8 DEF CInv, ScanComplete, Complete

\* A device no call failed for is listed exactly when it should be, and then
\* as Windows has it, wherever calls for other devices fail (FindAllDevices).
THEOREM ScanCompleteAlways == Spec => []ScanComplete
<1>1. Init => CInv
  BY ScanAssumption DEF Init, CInv, LookOK, Looking, ListedPassed, ScanComplete, Passed
<1>2. IInv /\ CInv /\ [Next]_vars => CInv'
  <2> SUFFICES ASSUME IInv, CInv, [Next]_vars PROVE CInv'
    OBVIOUS
  <2>1. CASE Next
    BY <2>1, EnumerateComplete, FirstLogConfComplete, WalkComplete, FreeLogConfComplete,
       PropertyComplete, ReadSettingsComplete DEF Next
  <2>2. CASE UNCHANGED vars
    <3>1. LookOK' /\ ListedPassed' /\ Passed' = Passed
      BY <2>2 DEF vars, CInv, LookOK, Looking, ListedPassed, Passed, Descriptors
    <3>2. \A d \in Passed' \ failed' : Complete(d)
      BY <2>2, <3>1 DEF vars, CInv, ScanComplete, Complete
    <3> QED
      BY <2>2, <3>1, <3>2, CompleteStays DEF vars, CInv, ScanComplete, Complete
  <2> QED
    BY <2>1, <2>2
<1>3. CInv => ScanComplete
  BY DEF CInv
<1> QED
  BY <1>1, <1>2, <1>3, Invariance, PTL DEF Spec
=============================================================================
