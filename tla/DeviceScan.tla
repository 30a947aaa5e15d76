----------------------------- MODULE DeviceScan -----------------------------
(***************************************************************************)
(* FindAllDevices, call by call: which devices of the machine are listed,  *)
(* with which interrupts and settings, and what becomes of the handles     *)
(* that the calls about a device's resources give out.                     *)
(*                                                                         *)
(* A device has up to three configurations, asked for in the order of      *)
(* DevNodeHasIRQ, each with a list of interrupt descriptors.  Every call   *)
(* to Windows may fail.                                                    *)
(***************************************************************************)
EXTENDS DeviceSettings, Sequences

CONSTANTS
  Count,    \* how many devices Windows enumerates
  NoConf,   \* the device has no configuration of that type
  Machine   \* the machines: what Windows tells of devices 1 to Count

ConfType == 1 .. 3   \* ALLOC_LOG_CONF, FILTERED_LOG_CONF, BASIC_LOG_CONF

\* Of a configuration all that matters is how many interrupts it has.
Answer ==
  [logConf : [ConfType -> {NoConf} \union Nat], disabled : BOOLEAN,
   described : BOOLEAN, types : SUBSET InterruptType, entry : Entry]

ASSUME ScanAssumption ==
  /\ Count \in Nat
  /\ NoConf \notin Nat
  /\ Machine \subseteq [1 .. Count -> Answer]

VARIABLES
  machine,   \* what Windows answers, fixed
  pc,        \* the call that comes next
  index,     \* devices enumerated so far; the last one is looked at
  conf,      \* the type of the configuration looked at
  current,   \* the descriptor looked at
  irqs,      \* irqNumbers: the descriptors read
  err,       \* collectIRQsFromLogConf returns an error
  types,     \* dev.InterruptTypeMap
  handles,   \* handles given out and not freed, and whether any was misused
  devices,   \* allDevices
  failed     \* history: devices for which a call failed

vars == <<machine, pc, index, conf, current, irqs, err, types, handles, devices, failed>>

Point ==
  {"Enumerate", "FirstLogConf", "FirstResDes", "ReadResDes", "NextResDes",
   "FreeLogConf", "Flags", "Description", "Types", "Settings", "Done"}

(***************************************************************************)
(* Handles, as Windows sees them.                                          *)
(***************************************************************************)
LogConf      == <<index, conf, 0>>
ResDes(i)    == <<index, conf, i>>
Give(hs, h)  == [open |-> hs.open \union {h}, misused |-> hs.misused]
Use(hs, h)   == [open |-> hs.open, misused |-> hs.misused \/ h \notin hs.open]
Free(hs, h)  == [open |-> hs.open \ {h}, misused |-> hs.misused \/ h \notin hs.open]

Fail == failed' = failed \union {index}

Init ==
  /\ machine \in Machine
  /\ pc = "Enumerate"
  /\ index = 0
  /\ conf = 1
  /\ current = 0
  /\ irqs = <<>>
  /\ err = FALSE
  /\ types = {}
  /\ handles = [open |-> {}, misused |-> FALSE]
  /\ devices = <<>>
  /\ failed = {}

-----------------------------------------------------------------------------
(***************************************************************************)
(* The interrupts of a device.                                             *)
(***************************************************************************)
NextIndexAfterListed ==
  IF index > 0 /\ ~ \E i \in DOMAIN devices : devices[i].device = index THEN index ELSE index + 1
NextIndex == index + 1

\* Any error of the enumeration is taken for its end.
Enumerate ==
  /\ pc = "Enumerate"
  /\ \/ /\ index < Count
        /\ index' = NextIndex
        /\ conf' = 1
        /\ pc' = "FirstLogConf"
        /\ UNCHANGED failed
     \/ /\ pc' = "Done"
        /\ failed' = failed \union (index + 1 .. Count)
        /\ UNCHANGED <<index, conf>>
  /\ UNCHANGED <<machine, current, irqs, err, types, handles, devices>>

NextConfBeyond ==
  IF conf <= 3 THEN pc' = "FirstLogConf" /\ conf' = conf + 1
  ELSE pc' = "Enumerate" /\ UNCHANGED conf

\* The next type of configuration, or else the next device.
NextConf ==
  IF conf < 3 THEN pc' = "FirstLogConf" /\ conf' = conf + 1
  ELSE pc' = "Enumerate" /\ UNCHANGED conf

FirstLogConf ==
  /\ pc = "FirstLogConf"
  /\ \/ /\ machine[index].logConf[conf] # NoConf
        /\ handles' = Give(handles, LogConf)
        /\ irqs' = <<>>
        /\ err' = FALSE
        /\ pc' = "FirstResDes"
        /\ UNCHANGED <<conf, failed>>
     \/ /\ NextConf
        /\ IF machine[index].logConf[conf] = NoConf THEN UNCHANGED failed ELSE Fail
        /\ UNCHANGED <<handles, irqs, err>>
  /\ UNCHANGED <<machine, index, current, types, devices>>

FirstResDes ==
  /\ pc = "FirstResDes"
  /\ \/ /\ machine[index].logConf[conf] > 0
        /\ handles' = Give(Use(handles, LogConf), ResDes(1))
        /\ current' = 1
        /\ pc' = "ReadResDes"
        /\ UNCHANGED <<err, failed>>
     \/ /\ machine[index].logConf[conf] = 0
        /\ handles' = Use(handles, LogConf)
        /\ pc' = "FreeLogConf"
        /\ UNCHANGED <<current, err, failed>>
     \/ /\ handles' = Use(handles, LogConf)
        /\ err' = TRUE
        /\ Fail
        /\ pc' = "FreeLogConf"
        /\ UNCHANGED current
  /\ UNCHANGED <<machine, index, conf, irqs, types, devices>>

AfterFailedReadKept(hs) == Use(hs, ResDes(current))
AfterFailedRead(hs)     == Free(Use(hs, ResDes(current)), ResDes(current))

\* readIRQResDes asks for the size, then for the data.
ReadResDes ==
  /\ pc = "ReadResDes"
  /\ \/ /\ handles' = Use(handles, ResDes(current))
        /\ irqs' = Append(irqs, current)
        /\ pc' = "NextResDes"
        /\ UNCHANGED <<err, failed>>
     \/ /\ handles' = AfterFailedRead(handles)
        /\ err' = TRUE
        /\ Fail
        /\ pc' = "FreeLogConf"
        /\ UNCHANGED irqs
  /\ UNCHANGED <<machine, index, conf, current, types, devices>>


\* The descriptor leads to the next one and is then freed, whatever came of it.
AfterNextEarlyFree(hs) == Use(Free(hs, ResDes(current)), ResDes(current))
AfterNext(hs)          == Free(Use(hs, ResDes(current)), ResDes(current))

NextResDes ==
  /\ pc = "NextResDes"
  /\ \/ /\ current < machine[index].logConf[conf]
        /\ handles' = Give(AfterNext(handles), ResDes(current + 1))
        /\ current' = current + 1
        /\ pc' = "ReadResDes"
        /\ UNCHANGED <<err, failed>>
     \/ /\ current = machine[index].logConf[conf]
        /\ handles' = AfterNext(handles)
        /\ pc' = "FreeLogConf"
        /\ UNCHANGED <<current, err, failed>>
     \/ /\ handles' = AfterNext(handles)
        /\ err' = TRUE
        /\ Fail
        /\ pc' = "FreeLogConf"
        /\ UNCHANGED current
  /\ UNCHANGED <<machine, index, conf, irqs, types, devices>>

\* What DevNodeHasIRQ does with the descriptors: an error drops those read
\* and the device, none makes it look on.
AfterConfFirstOnly ==
  IF err \/ irqs = <<>> THEN pc' = "Enumerate" /\ UNCHANGED conf
  ELSE pc' = "Flags" /\ UNCHANGED conf
AfterConfErrorIgnored ==
  IF irqs = <<>> THEN NextConf ELSE pc' = "Flags" /\ UNCHANGED conf
AfterConf ==
  IF err THEN pc' = "Enumerate" /\ UNCHANGED conf
  ELSE IF irqs = <<>> THEN NextConf ELSE pc' = "Flags" /\ UNCHANGED conf

FreeLogConf ==
  /\ pc = "FreeLogConf"
  /\ handles' = Free(handles, LogConf)
  /\ AfterConf
  /\ UNCHANGED <<machine, index, current, irqs, err, types, devices, failed>>

-----------------------------------------------------------------------------
(***************************************************************************)
(* Its properties and settings.                                            *)
(***************************************************************************)
\* A device whose flags cannot be read counts as enabled.
CheckFlags ==
  /\ pc = "Flags"
  /\ \/ /\ pc' = IF machine[index].disabled THEN "Enumerate" ELSE "Description"
        /\ UNCHANGED failed
     \/ pc' = "Description" /\ Fail
  /\ UNCHANGED <<machine, index, conf, current, irqs, err, types, handles, devices>>

\* One whose description cannot be read is dropped, like one without.
CheckDescription ==
  /\ pc = "Description"
  /\ \/ /\ pc' = IF machine[index].described THEN "Types" ELSE "Enumerate"
        /\ UNCHANGED failed
     \/ pc' = "Enumerate" /\ Fail
  /\ UNCHANGED <<machine, index, conf, current, irqs, err, types, handles, devices>>

\* The interrupt types, none if they cannot be read.
ReadTypes ==
  /\ pc = "Types"
  /\ \/ types' = machine[index].types /\ UNCHANGED failed
     \/ types' = {} /\ Fail
  /\ pc' = "Settings"
  /\ UNCHANGED <<machine, index, conf, current, irqs, err, handles, devices>>

\* A key that cannot be opened reads as if it were not there.
ReadSettings ==
  /\ pc = "Settings"
  /\ \E a \in {machine[index].entry.affinity, Absent},
        m \in {machine[index].entry.msi, Absent} :
        LET read == [affinity |-> a, msi |-> m]
        IN  /\ devices' = Append(devices,
                 [device |-> index, irqs |-> irqs, types |-> types,
                  settings |-> ReadDevice(read, types)])
            /\ failed' = failed \union (IF read = machine[index].entry THEN {} ELSE {index})
  /\ pc' = "Enumerate"
  /\ UNCHANGED <<machine, index, conf, current, irqs, err, types, handles>>

Next ==
  \/ Enumerate \/ FirstLogConf \/ FirstResDes \/ ReadResDes \/ NextResDes \/ FreeLogConf
  \/ CheckFlags \/ CheckDescription \/ ReadTypes \/ ReadSettings

\* The scan is straight-line code on one thread: it goes on while it can.
Spec == Init /\ [][Next]_vars /\ WF_vars(Next)

-----------------------------------------------------------------------------
(***************************************************************************)
(* Properties.                                                             *)
(***************************************************************************)

Descriptors(d, c) ==
  IF machine[d].logConf[c] = NoConf THEN <<>> ELSE [i \in 1 .. machine[d].logConf[c] |-> i]

\* The first configuration that has interrupts, if there is one.
WithInterrupts(d) == {c \in ConfType : Descriptors(d, c) # <<>>}
Interrupts(d) ==
  Descriptors(d, CHOOSE c \in WithInterrupts(d) : \A e \in WithInterrupts(d) : c <= e)

Wanted(d) == WithInterrupts(d) # {} /\ ~ machine[d].disabled /\ machine[d].described

Row(d) ==
  [device |-> d, irqs |-> Interrupts(d), types |-> machine[d].types,
   settings |-> ReadDevice(machine[d].entry, machine[d].types)]

Listed(d) == {i \in DOMAIN devices : devices[i].device = d}

\* The devices whose turn is over.
Passed ==
  CASE pc = "Done"      -> 1 .. Count
    [] pc = "Enumerate" -> 1 .. index
    [] OTHER            -> 1 .. index - 1

TypeOK ==
  /\ machine \in Machine
  /\ pc \in Point
  /\ index \in 0 .. Count
  /\ pc \notin {"Enumerate", "Done"} => index > 0
  /\ conf \in ConfType
  /\ current \in Nat
  /\ irqs \in Seq(Nat)
  /\ err \in BOOLEAN
  /\ types \in SUBSET InterruptType
  /\ handles \in [open : SUBSET (Nat \X ConfType \X Nat), misused : BOOLEAN]
  /\ devices \in Seq([device : 1 .. Count, irqs : Seq(Nat), types : SUBSET InterruptType,
                      settings : Settings])
  /\ failed \subseteq 1 .. Count

\* No call is made with a handle that was freed, and no handle is freed twice,
\* on whichever path collectIRQsFromLogConf leaves its loop.
HandlesInUse == ~ handles.misused

\* When FindAllDevices turns to the next device, and when it returns, every
\* handle of a configuration or a descriptor has been freed.
NoHandleLeft == pc \in {"Enumerate", "Done"} => handles.open = {}

\* A device for which no call failed is listed exactly when it is enabled, has
\* a description and an interrupt, with the interrupts of its first
\* configuration that has any and the settings stored: failing calls about
\* other devices do not make it disappear or change its row.
ScanComplete ==
  \A d \in Passed \ failed :
    IF Wanted(d) THEN \E i \in DOMAIN devices : devices[i] = Row(d) ELSE Listed(d) = {}

\* Whatever fails, a listed device shows all the interrupts of one of its
\* configurations, never the part that was read before an error.
InterruptsWhole ==
  \A i \in DOMAIN devices :
    /\ devices[i].irqs # <<>>
    /\ \E c \in ConfType : devices[i].irqs = Descriptors(devices[i].device, c)

\* The scan comes to its end, whichever calls fail.
ScanEnds == <>(pc = "Done")
=============================================================================
