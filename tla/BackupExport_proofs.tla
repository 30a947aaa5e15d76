-------------------------- MODULE BackupExport_proofs --------------------------
(***************************************************************************)
(* Proofs about the exported file, beside any windows and runs, and about  *)
(* the bytes of a mask of any size.                                        *)
(***************************************************************************)
EXTENDS BackupExport, SettingsWriter_proofs, NumberLemmas

-----------------------------------------------------------------------------
(***************************************************************************)
(* Decimal digits read as hexadecimal ones.                                *)
(***************************************************************************)
LEMMA DigitsRecursion ==
  \A n \in Nat : DigitsAsHex[n] = IF n < 10 THEN n ELSE 16 * DigitsAsHex[n \div 10] + (n % 10)
<1> DEFINE base == 0 .. 9
           first == [n \in Nat |-> n]
           smaller == [n \in Nat |-> n \div 10]
           step == [n \in Nat |-> [k \in Nat |-> 16 * k + (n % 10)]]
<1>1. IsRecursion(Nat, Nat, base, first, smaller, step)
  <2>1. \A n \in Nat : n \div 10 \in Nat /\ n % 10 \in Nat /\ (n > 9 => n \div 10 < n)
    OBVIOUS
  <2> QED
    BY <2>1 DEF IsRecursion
<1> HIDE DEF base, first, smaller, step
<1>2. PICK f \in [Nat -> Nat] : \A n \in Nat : f[n] = Body(f, n, base, first, smaller, step)
  BY <1>1, RecursionExists
<1>3. f = [n \in Nat |-> IF n < 10 THEN n ELSE 16 * f[n \div 10] + (n % 10)]
  <2> SUFFICES ASSUME NEW n \in Nat
               PROVE  f[n] = IF n < 10 THEN n ELSE 16 * f[n \div 10] + (n % 10)
    OBVIOUS
  <2>1. f[n] = Body(f, n, base, first, smaller, step) /\ f[n \div 10] \in Nat
    BY <1>2
  <2>2. n \in base <=> n < 10
    BY DEF base
  <2>3. first[n] = n /\ step[n][f[smaller[n]]] = 16 * f[n \div 10] + (n % 10)
    BY <2>1 DEF first, smaller, step
  <2> QED
    BY <2>1, <2>2, <2>3 DEF Body
<1>4. DigitsAsHex = [n \in Nat |-> IF n < 10 THEN n ELSE 16 * DigitsAsHex[n \div 10] + (n % 10)]
  BY <1>3, Zenon DEF DigitsAsHex
<1> QED
  BY <1>4

\* A number comes back, no smaller than it was, and a digit as itself.
LEMMA DigitsNotSmaller ==
  \A n \in Nat : DigitsAsHex[n] \in Nat /\ DigitsAsHex[n] >= n
<1> DEFINE Right(n) == DigitsAsHex[n] \in Nat /\ DigitsAsHex[n] >= n
           Numbers == {k \in Nat : \A n \in Nat : n < k => Right(n)}
<1>1. 0 \in Numbers
  OBVIOUS
<1>2. ASSUME NEW k \in Numbers
      PROVE  k + 1 \in Numbers
  <2> SUFFICES ASSUME NEW n \in Nat, n < k + 1
               PROVE  Right(n)
    OBVIOUS
  <2>1. DigitsAsHex[n] = IF n < 10 THEN n ELSE 16 * DigitsAsHex[n \div 10] + (n % 10)
    BY DigitsRecursion
  <2>2. /\ n \div 10 \in Nat /\ n % 10 \in Nat /\ (n >= 10 => n \div 10 < k)
        /\ n = 10 * (n \div 10) + (n % 10)
    OBVIOUS
  <2>3. n >= 10 => DigitsAsHex[n \div 10] \in Nat /\ DigitsAsHex[n \div 10] >= n \div 10
    BY <2>2
  <2> QED
    BY <2>1, <2>2, <2>3
<1>3. Nat \subseteq Numbers
  <2> HIDE DEF Numbers
  <2> QED
    BY <1>1, <1>2, SetInduction
<1>4. \A n \in Nat : Right(n)
  <2> SUFFICES ASSUME NEW n \in Nat
               PROVE  Right(n)
    OBVIOUS
  <2>1. n + 1 \in Numbers /\ n < n + 1
    BY <1>3
  <2> QED
    BY <2>1
<1> QED
  BY <1>4

LEMMA DigitsType ==
  \A n \in Nat : DigitsAsHex[n] \in Nat /\ (n < 10 => DigitsAsHex[n] = n)
  BY DigitsNotSmaller, DigitsRecursion

-----------------------------------------------------------------------------
(***************************************************************************)
(* What regedit stores are values of the two keys.  A device with MSI has  *)
(* it on or off in every row, and so in the file; of a device without, the *)
(* file would store the number that stands for that.                       *)
(***************************************************************************)
DeviceHasMsi == InterruptTypes # {}

RowsWithMsi ==
  \A w \in Writer :
    /\ read[w].row.MsiSupported \in {MSI_Off, MSI_On}
    /\ writer[w].pc # "closed" => writer[w].row.MsiSupported \in {MSI_Off, MSI_On}

FileOK == file # NoFile => file \in Settings /\ file.MsiSupported \in {MSI_Off, MSI_On}

EInv == IInv /\ RowsWithMsi /\ FileOK

LEMMA ImportedTypes ==
  ASSUME NEW settings \in Settings, settings.MsiSupported \in {MSI_Off, MSI_On},
         NEW stored \in Entry
  PROVE  Imported(settings, stored).affinity \in AffinityKey
         /\ Imported(settings, stored).msi \in MsiKey
<1> DEFINE i == Imported(settings, stored)
<1>1. /\ settings.DevicePolicy \in Nat /\ settings.DevicePriority \in Nat
      /\ settings.MessageNumberLimit \in Nat /\ settings.AssignmentSetOverride \in SUBSET Bit
  BY DEF Settings
<1>2. PriorityLine(settings) \in {Absent} \union Nat
  BY <1>1, DigitsType DEF PriorityLine
<1>3. MaskLine(settings) \in {Absent} \union SUBSET Bit
  BY <1>1 DEF MaskLine
<1>4. MsiValues(stored.msi).MessageNumberLimit \in {Absent} \union Nat
  BY DEF Entry, MsiKey, MsiValues, MsiValue, NewMsiKey
<1>5. LimitLine(settings, MsiValues(stored.msi).MessageNumberLimit) \in {Absent} \union Nat
  BY <1>1, <1>4, DigitsType DEF LimitLine
<1>6. DigitsAsHex[settings.DevicePolicy] \in Nat
  BY <1>1, DigitsType
<1>7. DigitsAsHex[settings.MsiSupported] \in {MSI_Off, MSI_On}
  BY DigitsType DEF MSI_Off, MSI_On
<1>8. i.affinity \in AffinityValue
  BY <1>2, <1>3, <1>6 DEF Imported, AffinityValue
<1>9. i.msi \in MsiValue
  BY <1>5, <1>7 DEF Imported, MsiValue
<1> QED
  BY <1>8, <1>9 DEF AffinityKey, MsiKey

\* A process, when another stores a value in a key.
Disturbing(s, stored, key, value) ==
  IF value = stored[key] THEN s ELSE Disturbed(s, key, value)

DisturbingRead(r, stored, key, value) ==
  IF value = stored[key] THEN r ELSE DisturbedRead(r, key, value)

\* An import is two changes, each of which disturbs the processes.
ImportOf(m, a) ==
  /\ m \in KeyType("msi") /\ a \in KeyType("affinity")
  /\ WithKey(registry, "msi", m) \in Entry
  /\ registry' = WithKey(WithKey(registry, "msi", m), "affinity", a)
  /\ registry' \in Entry
  /\ writer' = [w \in Writer |->
       Disturbing(Disturbing(writer[w], registry, "msi", m),
                  WithKey(registry, "msi", m), "affinity", a)]
  /\ read' = [w \in Writer |->
       DisturbingRead(DisturbingRead(read[w], registry, "msi", m),
                      WithKey(registry, "msi", m), "affinity", a)]
  /\ torn' = torn

LEMMA ImportNamed ==
  ASSUME EInv, Import
  PROVE  \E m, a : ImportOf(m, a)
<1> DEFINE i == Imported(file, registry)
           m == i.msi
           a == i.affinity
           between == WithKey(registry, "msi", m)
<1>1. registry \in Entry /\ file \in Settings /\ file.MsiSupported \in {MSI_Off, MSI_On}
  BY DEF EInv, IInv, TypeOK, FileOK, Import
<1>2. m \in MsiKey /\ a \in AffinityKey
  BY <1>1, ImportedTypes
<1>3. m \in KeyType("msi") /\ a \in KeyType("affinity")
  BY <1>2 DEF KeyType
<1>4. i = [affinity |-> a, msi |-> m]
  BY DEF Imported
<1>5. registry' = i
  BY DEF Import
<1> HIDE DEF m, a, i
<1>6. between = [affinity |-> registry.affinity, msi |-> m]
  BY <1>1, KeyChanged DEF WithKey
<1>7. between \in Entry
  BY <1>1, <1>2, <1>6 DEF Entry
<1> HIDE DEF between
<1>8. WithKey(between, "affinity", a) = [affinity |-> a, msi |-> m]
  <2>1. between.msi = m
    BY <1>6
  <2>2. [between EXCEPT !["affinity"] = a] = [affinity |-> a, msi |-> between.msi]
    BY <1>7, KeyChanged, Zenon
  <2> QED
    BY <2>1, <2>2, Zenon DEF WithKey
<1>9. registry' \in Entry /\ registry'.msi = m /\ registry'.affinity = a
  BY <1>2, <1>4, <1>5 DEF Entry
<1>10. registry["msi"] = registry.msi /\ between["affinity"] = registry.affinity
  BY <1>6
<1>11. writer' = [w \in Writer |->
         Disturbing(Disturbing(writer[w], registry, "msi", m), between, "affinity", a)]
  <2>1. writer' = [w \in Writer |->
          LET s == IF m = registry.msi THEN writer[w] ELSE Disturbed(writer[w], "msi", m)
          IN  IF a = registry.affinity THEN s ELSE Disturbed(s, "affinity", a)]
    BY <1>9, Zenon DEF Import
  <2> QED
    BY <1>10, <2>1 DEF Disturbing
<1>12. torn' = torn
  BY DEF Import
<1>13. read' = [w \in Writer |->
         DisturbingRead(DisturbingRead(read[w], registry, "msi", m), between, "affinity", a)]
  <2>1. read' = [w \in Writer |->
          LET r == IF m = registry.msi THEN read[w] ELSE DisturbedRead(read[w], "msi", m)
          IN  IF a = registry.affinity THEN r ELSE DisturbedRead(r, "affinity", a)]
    BY <1>9, Zenon DEF Import
  <2> QED
    BY <1>10, <2>1 DEF DisturbingRead
<1>14. ImportOf(m, a)
  BY <1>3, <1>4, <1>5, <1>7, <1>8, <1>9, <1>11, <1>12, <1>13 DEF ImportOf, between
<1> QED
  BY <1>14

LEMMA DisturbingOK ==
  ASSUME NEW s \in Process, NEW stored \in Entry, ProcessOK(s, stored), NEW key \in Key,
         NEW value \in KeyType(key)
  PROVE  /\ Disturbing(s, stored, key, value) \in Process
         /\ ProcessOK(Disturbing(s, stored, key, value), WithKey(stored, key, value))
<1>1. CASE value = stored[key]
  <2>1. WithKey(stored, key, value) = stored
    BY <1>1 DEF WithKey, Entry
  <2> QED
    BY <1>1, <2>1 DEF Disturbing
<1>2. CASE value # stored[key]
  <2>1. /\ Disturbed(s, key, value) \in Process
        /\ ProcessOK(Disturbed(s, key, value), WithKey(stored, key, value))
    BY DisturbedOK DEF WithKey
  <2> QED
    BY <1>2, <2>1 DEF Disturbing
<1> QED
  BY <1>1, <1>2

\* A read is as it was, except for what it knows of the key.
LEMMA DisturbingReadOK ==
  ASSUME NEW r \in Reading, NEW stored \in Entry, ReadOK(r, stored), NEW key \in Key,
         NEW value \in KeyType(key)
  PROVE  /\ DisturbingRead(r, stored, key, value) \in Reading
         /\ ReadOK(DisturbingRead(r, stored, key, value), WithKey(stored, key, value))
<1>1. CASE value = stored[key]
  <2>1. WithKey(stored, key, value) = stored
    BY <1>1 DEF WithKey, Entry
  <2> QED
    BY <1>1, <2>1 DEF DisturbingRead
<1>2. CASE value # stored[key]
  <2>1. WithKey(stored, key, value) = [stored EXCEPT ![key] = value]
    BY DEF WithKey
  <2>2. /\ DisturbedRead(r, key, value) \in Reading
        /\ ReadOK(DisturbedRead(r, key, value), WithKey(stored, key, value))
    BY <2>1, DisturbedReadOK
  <2> QED
    BY <1>2, <2>2 DEF DisturbingRead
<1> QED
  BY <1>1, <1>2

SameRowRead(r, t) == t.at = r.at /\ t.row = r.row

LEMMA DisturbingReadKeeps ==
  ASSUME NEW r \in Reading, NEW stored, NEW key, NEW value
  PROVE  SameRowRead(r, DisturbingRead(r, stored, key, value))
  BY DEF DisturbingRead, DisturbedRead, Reading, SameRowRead

\* What a process does, has and was asked for stays, and another's change of
\* a key makes its row stale.
IsDisturbing(s, stored, key, value, t) ==
  /\ t.pc = s.pc /\ t.row = s.row /\ t.item = s.item /\ t.todo = s.todo /\ t.at = s.at
  /\ t.stale = IF s.pc = "closed" \/ value = stored[key] THEN s.stale ELSE s.stale \union {key}

LEMMA DisturbingFields ==
  ASSUME NEW s \in Process, NEW stored, NEW key, NEW value
  PROVE  IsDisturbing(s, stored, key, value, Disturbing(s, stored, key, value))
<1>1. CASE value = stored[key]
  BY <1>1 DEF Disturbing, IsDisturbing
<1>2. CASE value # stored[key]
  <2> DEFINE t == Disturbed(s, key, value)
  <2>1. IsDisturbed(s, key, value, t)
    BY DisturbedFields, Zenon
  <2> HIDE DEF t
  <2>2. IsDisturbing(s, stored, key, value, t)
    BY <1>2, <2>1 DEF IsDisturbed, IsDisturbing
  <2>3. Disturbing(s, stored, key, value) = t
    BY <1>2 DEF Disturbing, t
  <2> QED
    BY <2>2, <2>3, Zenon
<1> QED
  BY <1>1, <1>2

LEMMA DisturbingKnown ==
  ASSUME NEW s \in Process, NEW stored \in Entry, Known(s, stored), NEW key \in Key,
         NEW value \in KeyType(key)
  PROVE  Known(Disturbing(s, stored, key, value), WithKey(stored, key, value))
<1> DEFINE t == Disturbing(s, stored, key, value)
           after == WithKey(stored, key, value)
<1>1. IsDisturbing(s, stored, key, value, t)
  BY DisturbingFields, Zenon
<1>2. after[key] = value /\ \A other \in Key \ {key} : after[other] = stored[other]
  <2>1. /\ [stored EXCEPT ![key] = value][key] = value
        /\ \A other \in Key \ {key} : [stored EXCEPT ![key] = value][other] = stored[other]
    BY DEF Entry, Key
  <2> QED
    BY <2>1, Zenon DEF WithKey
<1> HIDE DEF t, after
<1>3. ASSUME t.pc # "closed", NEW other \in Key, other \notin t.todo \union t.stale
      PROVE  RowHolds(t.row, t.item, other, after)
  <2>1. RowHolds(s.row, s.item, other, stored)
    BY <1>1, <1>3 DEF Known, IsDisturbing
  <2>2. after[other] = stored[other]
    BY <1>1, <1>2, <1>3 DEF IsDisturbing
  <2>3. RowHolds(s.row, s.item, other, after)
    BY <2>1, <2>2, HoldsOfKey
  <2> QED
    BY <1>1, <2>3 DEF IsDisturbing
<1>4. Known(t, after)
  BY <1>3 DEF Known
<1> QED
  BY <1>4 DEF t, after

-----------------------------------------------------------------------------
(***************************************************************************)
(* The steps of the processes leave MSI on or off in the rows: it was read *)
(* so, and there is a setter only for these two.                           *)
(***************************************************************************)
LEMMA NoReadWithMsi ==
  ASSUME DeviceHasMsi
  PROVE  NoRead.row.MsiSupported \in {MSI_Off, MSI_On}
  BY DEF DeviceHasMsi, NoRead, EmptyRow, ReadDevice, StoredMsi, ValueOr, MsiValues, NewMsiKey

LEMMA ReadRows ==
  ASSUME DeviceHasMsi, IInv, RowsWithMsi, NEW w \in Writer, NEW f \in Field,
         NEW fails \in BOOLEAN, ReadValue(w, f, fails)
  PROVE  RowsWithMsi'
<1>1. PICK row, changed : ReadOf(w, f, row, changed)
  BY ReadNamed
<1> DEFINE over == ReadAt[f] = LastRead
           r == [read[w] EXCEPT !.at = @ + 1, !.row = row, !.changed = changed]
<1>2. ReadDevice(registry, InterruptTypes).MsiSupported \in {MSI_Off, MSI_On}
  BY DEF DeviceHasMsi, IInv, TypeOK, ReadDevice, StoredMsi, ValueOr, MsiValues, Entry, MsiKey,
         MsiValue, NewMsiKey
<1>3. EmptyRow.MsiSupported \in {MSI_Off, MSI_On}
  BY NoReadWithMsi DEF NoRead
<1>4. row.MsiSupported \in {MSI_Off, MSI_On}
  <2>1. CASE f = "MsiSupported"
    <3>1. row[f] = EmptyRow[f] \/ row[f] = ReadDevice(registry, InterruptTypes)[f]
      BY <1>1 DEF ReadOf
    <3> QED
      BY <1>2, <1>3, <2>1, <3>1
  <2>2. CASE f # "MsiSupported"
    <3>1. \A g \in Field \ {f} : row[g] = read[w].row[g]
      BY <1>1 DEF ReadOf
    <3>2. "MsiSupported" \in Field \ {f}
      BY <2>2, Fields
    <3>3. row.MsiSupported = read[w].row.MsiSupported
      BY <3>1, <3>2
    <3> QED
      BY <3>3 DEF RowsWithMsi
  <2> QED
    BY <2>1, <2>2
<1>5. row \in Settings /\ changed \in SUBSET Key
  BY <1>1 DEF ReadOf
<1>6. Ready(row, changed).row = row
  <2>1. IsReady(Ready(row, changed), row, changed)
    BY <1>5, ReadyFields
  <2> QED
    BY <2>1 DEF IsReady
<1>7. read' = [read EXCEPT ![w] = IF over THEN NoRead ELSE r]
  BY <1>1, Zenon DEF ReadOf
<1>8. writer' = IF over THEN [writer EXCEPT ![w] = Ready(row, changed)] ELSE writer
  BY <1>1, Zenon DEF ReadOf
<1>9. NoRead.row.MsiSupported \in {MSI_Off, MSI_On}
  BY <1>3 DEF NoRead
<1>10. r.row = row
  BY DEF IInv, TypeOK, Reading
<1> HIDE DEF over, r
<1>11. \A q \in Writer : read'[q].row.MsiSupported \in {MSI_Off, MSI_On}
  BY <1>4, <1>7, <1>9, <1>10 DEF IInv, TypeOK, RowsWithMsi
<1>12. \A q \in Writer : writer'[q].pc # "closed" => writer'[q].row.MsiSupported \in {MSI_Off, MSI_On}
  BY <1>4, <1>6, <1>8 DEF IInv, TypeOK, RowsWithMsi
<1> QED
  BY <1>11, <1>12 DEF RowsWithMsi

LEMMA OpenRows ==
  ASSUME IInv, RowsWithMsi, NEW w \in Writer, NEW key \in Key, NEW fails \in BOOLEAN,
         OpenToRead(w, key, fails)
  PROVE  RowsWithMsi'
<1>1. writer' = writer
  BY DEF OpenToRead
<1>2. \A q \in Writer : read'[q].row = read[q].row
  BY DEF OpenToRead, IInv, TypeOK, Reading
<1> QED
  BY <1>1, <1>2 DEF RowsWithMsi

LEMMA AskRows ==
  ASSUME IInv, RowsWithMsi, NEW w \in Writer, NEW change \in Change, Ask(w, change)
  PROVE  RowsWithMsi'
<1> DEFINE item == ChangedTo(writer[w].row, change)
           keys == AskedKeys(w, writer[w].row, item, change)
           pc == IF keys # {} THEN "storing" ELSE IF w \in Window THEN "ready" ELSE "done"
<1>1. writer' = [writer EXCEPT ![w].item = item, ![w].todo = keys, ![w].pc = pc]
      /\ writer[w].pc = "ready" /\ read' = read
  BY DEF Ask
<1> HIDE DEF item, keys, pc
<1>2. \A q \in Writer : writer'[q].row = writer[q].row
                        /\ (writer'[q].pc # "closed" => writer[q].pc # "closed")
  BY <1>1 DEF IInv, TypeOK, Process
<1> QED
  BY <1>1, <1>2 DEF RowsWithMsi

LEMMA EndRows ==
  ASSUME DeviceHasMsi, IInv, RowsWithMsi, NEW w \in Writer, End(w)
  PROVE  RowsWithMsi'
<1>1. NoProcess.pc = "closed"
  BY DEF NoProcess
<1>2. writer' = [writer EXCEPT ![w] = NoProcess] /\ read' = [read EXCEPT ![w] = NoRead]
  BY DEF End
<1>3. NoRead.row.MsiSupported \in {MSI_Off, MSI_On}
  BY NoReadWithMsi
<1> QED
  BY <1>1, <1>2, <1>3 DEF IInv, TypeOK, RowsWithMsi

LEMMA CallRows ==
  ASSUME IInv, RowsWithMsi, NEW w \in Writer, NEW fails \in BOOLEAN, Call(w, fails)
  PROVE  RowsWithMsi'
<1>1. PICK key, value, old, updated : \E refused, spoilt, over \in BOOLEAN :
        CallOf(w, fails, key, refused, value, old, spoilt, updated, over)
  BY CallNamed
<1>2. PICK refused \in BOOLEAN, spoilt \in BOOLEAN, over \in BOOLEAN :
        CallOf(w, fails, key, refused, value, old, spoilt, updated, over)
  BY <1>1
<1> DEFINE s == writer[w]
<1>3. /\ s.todo # {}
      /\ updated = s.row \/ updated = RowAfter(key, s.row, s.item)
  BY <1>2 DEF CallOf
<1>4. /\ key \in Key /\ s.row \in Settings /\ s.item \in Settings /\ Calls(key, s.item) # <<>>
  <2>1. CallFound(w, key, refused, value, old, spoilt, updated)
    BY <1>2, CallFacts, Zenon
  <2> QED
    BY <2>1, Zenon DEF CallFound
<1>5. writer' = [q \in Writer |->
           IF q # w
           THEN IF value # registry[key] THEN Disturbed(writer[q], key, value) ELSE writer[q]
           ELSE IF over THEN AfterSetter(w, s, key, updated, spoilt)
           ELSE Continued(s, old, spoilt)]
  BY <1>2, Zenon DEF CallOf
<1>6. \A q \in Writer : writer[q] \in Process /\ ProcessOK(writer[q], registry)
  BY DEF IInv, TypeOK
<1>7. s.row.MsiSupported \in {MSI_Off, MSI_On}
  <2>1. s.pc # "closed"
    <3>1. ProcessOK(s, registry)
      BY <1>6
    <3> HIDE DEF s
    <3> QED
      BY <1>3, <3>1, RowOfProcess
  <2> QED
    BY <2>1 DEF RowsWithMsi
<1>8. updated.MsiSupported \in {MSI_Off, MSI_On}
  <2>1. CASE updated = s.row
    BY <1>7, <2>1
  <2>2. CASE updated = RowAfter(key, s.row, s.item)
    <3> HIDE DEF s
    <3>1. key = "msi" => s.item.MsiSupported \in {MSI_Off, MSI_On}
      BY <1>4, CallsShape
    <3> QED
      BY <1>4, <1>7, <2>2, <3>1 DEF RowAfter, Settings, Key, MSI_Off, MSI_On
  <2> QED
    BY <1>3, <2>1, <2>2
<1>9. ASSUME NEW q \in Writer, writer'[q].pc # "closed"
      PROVE  writer'[q].row.MsiSupported \in {MSI_Off, MSI_On}
  <2>1. CASE q # w /\ value # registry[key]
    <3> DEFINE t == Disturbed(writer[q], key, value)
    <3>1. IsDisturbed(writer[q], key, value, t)
      BY <1>6, DisturbedFields, Zenon
    <3>2. writer'[q] = t
      BY <1>5, <2>1
    <3> HIDE DEF t
    <3>3. writer'[q].row = writer[q].row /\ writer[q].pc # "closed"
      BY <1>9, <3>1, <3>2 DEF IsDisturbed
    <3> QED
      BY <3>3 DEF RowsWithMsi
  <2>2. CASE q # w /\ value = registry[key]
    <3>1. writer'[q] = writer[q]
      BY <1>5, <2>2
    <3> QED
      BY <1>9, <3>1 DEF RowsWithMsi
  <2>3. CASE q = w /\ over
    <3>1. writer'[q] = AfterSetter(w, s, key, updated, spoilt)
      BY <1>5, <2>3
    <3>2. AfterSetter(w, s, key, updated, spoilt).row = updated
      <4>1. s \in Process
        BY <1>6
      <4>2. IsOver(s, key, updated, spoilt, AfterSetter(w, s, key, updated, spoilt))
        BY <4>1, AfterSetterFields, Zenon
      <4> QED
        BY <4>2 DEF IsOver
    <3> QED
      BY <1>8, <3>1, <3>2
  <2>4. CASE q = w /\ ~over
    <3>1. writer'[q] = Continued(s, old, spoilt)
      BY <1>5, <2>4
    <3>2. Continued(s, old, spoilt).row = s.row
      BY <1>6, ContinuedFields
    <3> QED
      BY <1>7, <3>1, <3>2
  <2> QED
    BY <2>1, <2>2, <2>3, <2>4
<1>10. ASSUME NEW q \in Writer
       PROVE  read'[q].row.MsiSupported \in {MSI_Off, MSI_On}
  <2>1. read'[q] = IF value # registry[key] THEN DisturbedRead(read[q], key, value) ELSE read[q]
    BY <1>2, Zenon DEF CallOf
  <2>2. read'[q].row = read[q].row
    BY <2>1 DEF DisturbedRead, IInv, TypeOK, Reading
  <2> QED
    BY <2>2 DEF RowsWithMsi
<1> QED
  BY <1>9, <1>10 DEF RowsWithMsi

\* Nor does an import change a row.
LEMMA ImportKeepsEInv ==
  ASSUME EInv, Import
  PROVE  EInv'
<1>1. PICK m, a : ImportOf(m, a)
  BY ImportNamed
<1> DEFINE between == WithKey(registry, "msi", m)
<1>2. /\ m \in KeyType("msi") /\ a \in KeyType("affinity") /\ between \in Entry
      /\ registry' = WithKey(between, "affinity", a) /\ registry' \in Entry /\ torn' = torn
      /\ writer' = [w \in Writer |->
           Disturbing(Disturbing(writer[w], registry, "msi", m), between, "affinity", a)]
      /\ read' = [w \in Writer |->
           DisturbingRead(DisturbingRead(read[w], registry, "msi", m), between, "affinity", a)]
  BY <1>1, Zenon DEF ImportOf
<1> HIDE DEF between
<1>3. ASSUME NEW w \in Writer
      PROVE  /\ writer'[w] \in Process /\ ProcessOK(writer'[w], registry')
             /\ writer'[w].pc = writer[w].pc /\ writer'[w].row = writer[w].row
  <2> DEFINE s == Disturbing(writer[w], registry, "msi", m)
             t == Disturbing(s, between, "affinity", a)
  <2>1. writer[w] \in Process /\ ProcessOK(writer[w], registry) /\ registry \in Entry
    BY DEF EInv, IInv, TypeOK
  <2>2. "msi" \in Key /\ "affinity" \in Key
    BY DEF Key
  <2>3. s \in Process /\ ProcessOK(s, between)
    BY <1>2, <2>1, <2>2, DisturbingOK, Zenon DEF between
  <2>4. IsDisturbing(writer[w], registry, "msi", m, s)
    BY <2>1, DisturbingFields, Zenon
  <2> HIDE DEF s
  <2>5. t \in Process /\ ProcessOK(t, registry')
    BY <1>2, <2>2, <2>3, DisturbingOK, Zenon
  <2>6. IsDisturbing(s, between, "affinity", a, t)
    BY <2>3, DisturbingFields, Zenon
  <2>7. writer'[w] = t
    BY <1>2 DEF s
  <2> HIDE DEF t
  <2> QED
    BY <2>4, <2>5, <2>6, <2>7 DEF IsDisturbing
<1>4. ASSUME NEW w \in Writer
      PROVE  /\ read'[w] \in Reading /\ ReadOK(read'[w], registry')
             /\ read'[w].row = read[w].row
  <2> DEFINE s == DisturbingRead(read[w], registry, "msi", m)
             t == DisturbingRead(s, between, "affinity", a)
  <2>1. read[w] \in Reading /\ ReadOK(read[w], registry) /\ registry \in Entry
    BY DEF EInv, IInv, TypeOK
  <2>2. "msi" \in Key /\ "affinity" \in Key
    BY DEF Key
  <2>3. s \in Reading /\ ReadOK(s, between)
    BY <1>2, <2>1, <2>2, DisturbingReadOK, Zenon DEF between
  <2>4. SameRowRead(read[w], s)
    BY <2>1, DisturbingReadKeeps, Zenon
  <2> HIDE DEF s
  <2>5. t \in Reading /\ ReadOK(t, registry')
    BY <1>2, <2>2, <2>3, DisturbingReadOK, Zenon
  <2>6. SameRowRead(s, t)
    BY <2>3, DisturbingReadKeeps, Zenon
  <2>7. read'[w] = t
    BY <1>2 DEF s
  <2> HIDE DEF t
  <2> QED
    BY <2>4, <2>5, <2>6, <2>7 DEF SameRowRead
<1>5. writer' \in [Writer -> Process] /\ read' \in [Writer -> Reading]
  BY <1>2, <1>3, <1>4
<1>6. IInv'
  BY <1>2, <1>3, <1>4, <1>5 DEF EInv, IInv, TypeOK
<1>7. RowsWithMsi'
  BY <1>3, <1>4 DEF EInv, RowsWithMsi
<1> QED
  BY <1>6, <1>7 DEF EInv, FileOK, Import

LEMMA ExportStep ==
  ASSUME NextExport \/ UNCHANGED allVars
  PROVE  ([Next]_vars /\ file' = file) \/ (\E w \in Writer : Export(w)) \/ Import
  BY DEF NextExport, allVars

LEMMA NextKeepsEInv ==
  ASSUME DeviceHasMsi, EInv, NextExport \/ UNCHANGED allVars
  PROVE  EInv'
<1>1. CASE [Next]_vars /\ file' = file
  <2>1. IInv'
    BY <1>1, NextKeepsWritersIInv DEF EInv
  <2>2. RowsWithMsi'
    <3>1. CASE UNCHANGED vars
      BY <3>1 DEF EInv, RowsWithMsi, vars
    <3>2. CASE Next
      BY <3>2, OpenRows, ReadRows, AskRows, CallRows, EndRows DEF EInv, Next
    <3> QED
      BY <1>1, <3>1, <3>2
  <2> QED
    BY <1>1, <2>1, <2>2 DEF EInv, FileOK
<1>2. ASSUME NEW w \in Writer, Export(w)
      PROVE  EInv'
  <2>1. file' = writer[w].row /\ writer[w].pc = "ready" /\ UNCHANGED vars
    BY <1>2 DEF Export
  <2>2. ProcessOK(writer[w], registry)
    BY DEF EInv, IInv
  <2>3. file' \in Settings /\ file'.MsiSupported \in {MSI_Off, MSI_On}
    BY <2>1, <2>2 DEF EInv, RowsWithMsi, ProcessOK
  <2>4. IInv' /\ RowsWithMsi'
    BY <2>1 DEF EInv, IInv, TypeOK, RowsWithMsi, vars
  <2> QED
    BY <2>3, <2>4 DEF EInv, FileOK
<1> QED
  BY <1>1, <1>2, ExportStep, ImportKeepsEInv

(***************************************************************************)
(* Whatever windows and runs do, a file that is imported at any point      *)
(* leaves values of their types in the keys, and every setter that is      *)
(* under way at a call it has, if the device has MSI (createRegFile,       *)
(* SaveBackup.go 16-50).                                                   *)
(***************************************************************************)
THEOREM ExportInvariant ==
  ASSUME DeviceHasMsi
  PROVE  SpecExport => []EInv
<1>1. InitExport => EInv
  <2> SUFFICES ASSUME InitExport
               PROVE  EInv
    OBVIOUS
  <2>1. IInv
    BY InitWritersIInv DEF InitExport
  <2>2. \A w \in Writer : writer[w].pc = "closed" /\ read[w] = NoRead
    BY DEF InitExport, Init, NoProcess
  <2>3. file = NoFile
    BY DEF InitExport
  <2> QED
    BY <2>1, <2>2, <2>3, NoReadWithMsi DEF EInv, RowsWithMsi, FileOK
<1>2. EInv /\ [NextExport]_allVars => EInv'
  BY NextKeepsEInv
<1> QED
  BY <1>1, <1>2, PTL DEF SpecExport

\* The types of the processes and the keys, with files that are imported.
THEOREM ExportTypeCorrect ==
  ASSUME DeviceHasMsi
  PROVE  SpecExport => []TypeOK
<1>1. EInv => TypeOK
  BY DEF EInv, IInv
<1>2. SpecExport => []EInv
  BY ExportInvariant
<1> QED
  BY <1>1, <1>2, PTL

\* An import is another's change of the keys it changes.
LEMMA ImportUndisturbed ==
  ASSUME EInv, UndisturbedIsStored, Import
  PROVE  UndisturbedIsStored'
<1>1. PICK m, a : ImportOf(m, a)
  BY ImportNamed
<1> DEFINE between == WithKey(registry, "msi", m)
<1>2. /\ m \in KeyType("msi") /\ a \in KeyType("affinity") /\ between \in Entry
      /\ registry' = WithKey(between, "affinity", a)
      /\ writer' = [w \in Writer |->
           Disturbing(Disturbing(writer[w], registry, "msi", m), between, "affinity", a)]
  BY <1>1, Zenon DEF ImportOf
<1> HIDE DEF between
<1>3. ASSUME NEW w \in Writer
      PROVE  Known(writer'[w], registry')
  <2> DEFINE s == Disturbing(writer[w], registry, "msi", m)
  <2>1. writer[w] \in Process /\ ProcessOK(writer[w], registry) /\ registry \in Entry
    BY DEF EInv, IInv, TypeOK
  <2>2. "msi" \in Key /\ "affinity" \in Key
    BY DEF Key
  <2>3. Known(writer[w], registry)
    BY KnownIsUndisturbed
  <2>4. s \in Process
    BY <1>2, <2>1, <2>2, DisturbingOK, Zenon
  <2>5. Known(s, between)
    BY <1>2, <2>1, <2>2, <2>3, DisturbingKnown, Zenon DEF between
  <2>6. writer'[w] = Disturbing(s, between, "affinity", a)
    BY <1>2
  <2> HIDE DEF s
  <2>7. Known(Disturbing(s, between, "affinity", a), WithKey(between, "affinity", a))
    BY <1>2, <2>2, <2>4, <2>5, DisturbingKnown, Zenon
  <2> QED
    BY <1>2, <2>6, <2>7
<1> QED
  BY <1>3 DEF UndisturbedIsStored, Known, RowHolds, Key

(***************************************************************************)
(* Rows and registry agree in every key that neither another process nor   *)
(* regedit changed since (SetNewDevice, app.go 498-507, and the setters).  *)
(***************************************************************************)
THEOREM ExportUndisturbed ==
  ASSUME DeviceHasMsi
  PROVE  SpecExport => []UndisturbedIsStored
<1>1. InitExport => UndisturbedIsStored
  BY InitUndisturbed DEF InitExport
<1>2. EInv /\ UndisturbedIsStored /\ [NextExport]_allVars => UndisturbedIsStored'
  <2> SUFFICES ASSUME EInv, UndisturbedIsStored, NextExport \/ UNCHANGED allVars
               PROVE  UndisturbedIsStored'
    OBVIOUS
  <2>1. CASE [Next]_vars
    BY <2>1, NextKeepsUndisturbed DEF EInv
  <2>2. CASE Import
    BY <2>2, ImportUndisturbed
  <2> QED
    BY <2>1, <2>2, ExportStep DEF Export
<1>3. SpecExport => []EInv
  BY ExportInvariant
<1> QED
  BY <1>1, <1>2, <1>3, PTL DEF SpecExport

-----------------------------------------------------------------------------
(***************************************************************************)
(* The file restores settings of one digit, whatever was stored since.     *)
(***************************************************************************)
LEMMA RestoresOneDigit ==
  ASSUME EInv, Import,
         {file.DevicePolicy, file.DevicePriority, file.MessageNumberLimit} \subseteq OneDigit,
         file.MessageNumberLimit = 0 => StoredLimit(registry) = 0
  PROVE  Holds(registry', file)
<1> DEFINE i == Imported(file, registry)
<1>1. /\ file.DevicePolicy \in Nat /\ file.DevicePriority \in Nat
      /\ file.MessageNumberLimit \in Nat /\ file.AssignmentSetOverride \in SUBSET Bit
      /\ file.MsiSupported \in {MSI_Off, MSI_On} /\ registry \in Entry
  BY DEF EInv, IInv, TypeOK, FileOK, Import, Settings
<1>2. /\ DigitsAsHex[file.DevicePolicy] = file.DevicePolicy
      /\ DigitsAsHex[file.DevicePriority] = file.DevicePriority
      /\ DigitsAsHex[file.MessageNumberLimit] = file.MessageNumberLimit
      /\ DigitsAsHex[file.MsiSupported] = file.MsiSupported
  <2>1. \A n \in OneDigit : DigitsAsHex[n] = n
    BY DigitsType DEF OneDigit
  <2>2. file.MsiSupported \in OneDigit
    BY <1>1 DEF MSI_Off, MSI_On, OneDigit
  <2> QED
    BY <2>1, <2>2
<1>3. registry' = i
  BY DEF Import
<1>4. /\ i.affinity # Absent /\ i.msi # Absent
      /\ i.affinity.DevicePolicy = file.DevicePolicy
      /\ i.affinity.DevicePriority = PriorityLine(file)
      /\ i.affinity.AssignmentSetOverride = MaskLine(file)
      /\ i.msi.MSISupported = file.MsiSupported
      /\ i.msi.MessageNumberLimit
           = LimitLine(file, MsiValues(registry.msi).MessageNumberLimit)
  <2>1. i.affinity \in AffinityValue
    <3>1. PriorityLine(file) \in {Absent} \union Nat
      BY <1>1, <1>2 DEF PriorityLine
    <3>2. MaskLine(file) \in {Absent} \union SUBSET Bit
      BY <1>1 DEF MaskLine
    <3> QED
      BY <1>1, <1>2, <3>1, <3>2 DEF Imported, AffinityValue
  <2>2. i.msi \in MsiValue
    <3>1. MsiValues(registry.msi).MessageNumberLimit \in {Absent} \union Nat
      BY <1>1 DEF Entry, MsiKey, MsiValues, MsiValue, NewMsiKey
    <3>2. LimitLine(file, MsiValues(registry.msi).MessageNumberLimit) \in {Absent} \union Nat
      BY <1>1, <1>2, <3>1 DEF LimitLine
    <3> QED
      BY <1>1, <1>2, <3>2 DEF Imported, MsiValue
  <2>3. i.affinity # Absent /\ i.msi # Absent
    BY <2>1, <2>2, AbsentAssumption
  <2> QED
    BY <1>2, <2>3 DEF Imported
<1> HIDE DEF i
<1>5. Absent \notin Nat /\ \A mask \in SUBSET Bit : mask # Absent
  BY AbsentAssumption
<1>6. HoldsAffinity(i, file)
  <2>1. StoredPolicy(i) = file.DevicePolicy
    BY <1>1, <1>4, <1>5 DEF StoredPolicy, ValueOr, AffinityValues
  <2>2. StoredPriority(i) = file.DevicePriority
    BY <1>1, <1>2, <1>4, <1>5 DEF StoredPriority, ValueOr, AffinityValues, PriorityLine
  <2>3. file.DevicePolicy = IrqPolicySpecifiedProcessors
          => StoredMask(i) = file.AssignmentSetOverride
    BY <1>1, <1>4, <1>5 DEF StoredMask, ValueOr, AffinityValues, MaskLine
  <2> QED
    BY <2>1, <2>2, <2>3 DEF HoldsAffinity
<1>7. HoldsMsi(i, file)
  <2>1. StoredMsi(i) = file.MsiSupported
    BY <1>1, <1>4, <1>5 DEF StoredMsi, ValueOr, MsiValues, MSI_Off, MSI_On
  <2>2. ASSUME file.MsiSupported = MSI_On
        PROVE  StoredLimit(i) = file.MessageNumberLimit
    <3>1. CASE file.MessageNumberLimit # 0
      BY <1>1, <1>2, <1>4, <1>5, <2>2, <3>1 DEF StoredLimit, ValueOr, MsiValues, LimitLine
    <3>2. CASE file.MessageNumberLimit = 0
      <4>1. i.msi.MessageNumberLimit = MsiValues(registry.msi).MessageNumberLimit
        BY <1>4, <2>2, <3>2 DEF LimitLine
      <4>2. StoredLimit(i) = ValueOr(i.msi.MessageNumberLimit, 0)
        BY <1>4 DEF StoredLimit, MsiValues
      <4> QED
        BY <3>2, <4>1, <4>2 DEF StoredLimit
    <3> QED
      BY <3>1, <3>2
  <2> QED
    BY <2>1, <2>2 DEF HoldsMsi
<1> QED
  BY <1>3, <1>6, <1>7 DEF Holds

(***************************************************************************)
(* "Save current settings" (dialog.go:417): importing the file stores what *)
(* the row was when it was saved, if policy, priority and limit are of one *)
(* digit, and a limit is not left over from what was stored.               *)
(***************************************************************************)
THEOREM ImportRestoresDigitsAlways ==
  ASSUME DeviceHasMsi
  PROVE  SpecExport => ImportRestoresDigits
<1>1. EInv /\ [NextExport]_allVars
        => [(/\ Import
             /\ {file.DevicePolicy, file.DevicePriority, file.MessageNumberLimit} \subseteq OneDigit
             /\ file.MessageNumberLimit = 0 => StoredLimit(registry) = 0)
            => Holds(registry', file)]_allVars
  BY RestoresOneDigit
<1>2. SpecExport => []EInv
  BY ExportInvariant
<1> QED
  BY <1>1, <1>2, PTL DEF SpecExport, ImportRestoresDigits

-----------------------------------------------------------------------------
(***************************************************************************)
(* A file is of a row, and has a mask when the row has.                    *)
(***************************************************************************)
FileMasked == ~torn /\ file # NoFile => Masked(file)

LEMMA ExportMasked ==
  ASSUME MaskInv, NEW w \in Writer, Export(w)
  PROVE  MaskInv' /\ FileMasked'
<1>1. /\ file' = writer[w].row /\ writer[w].pc = "ready"
      /\ registry' = registry /\ writer' = writer /\ read' = read /\ torn' = torn
  BY DEF Export, vars
<1>2. MaskInv'
  BY <1>1, Zenon DEF MaskInv, AtRest, Mid, Current, Careful, CarefulRead, KeyMasked, Masked,
                     StoredPolicy, StoredMask
<1>3. ~torn => Masked(writer[w].row)
  BY <1>1 DEF MaskInv, Careful
<1>4. FileMasked'
  BY <1>1, <1>3 DEF FileMasked, Masked
<1> QED
  BY <1>2, <1>4

\* Only the policy for specified processors is printed as that one is.
LEMMA ImportedMasked ==
  ASSUME EInv, Import, Masked(file)
  PROVE  KeyMasked(registry')
<1> DEFINE a == Imported(file, registry).affinity
<1>1. /\ file.DevicePolicy \in Nat /\ file.AssignmentSetOverride \in SUBSET Bit
      /\ file \in Settings /\ file.MsiSupported \in {MSI_Off, MSI_On} /\ registry \in Entry
  BY DEF EInv, IInv, TypeOK, FileOK, Import, Settings
<1>2. Absent \notin Nat /\ Absent \notin AffinityValue /\ \A mask \in SUBSET Bit : mask # Absent
  BY AbsentAssumption
<1>3. /\ a.DevicePolicy = DigitsAsHex[file.DevicePolicy]
      /\ a.AssignmentSetOverride = MaskLine(file)
  BY DEF Imported
<1>4. DigitsAsHex[file.DevicePolicy] \in Nat
      /\ (DigitsAsHex[file.DevicePolicy] = 4 => file.DevicePolicy = 4)
  <2> DEFINE n == file.DevicePolicy
  <2>1. DigitsAsHex[n] \in Nat /\ DigitsAsHex[n] >= n
    BY <1>1, DigitsNotSmaller
  <2>2. n < 10 => DigitsAsHex[n] = n
    BY <1>1, DigitsType
  <2>3. n \in Nat
    BY <1>1
  <2> HIDE DEF n
  <2>4. DigitsAsHex[n] \in Nat /\ (DigitsAsHex[n] = 4 => n = 4)
    BY <2>1, <2>2, <2>3
  <2> QED
    BY <2>4 DEF n
<1>5. a \in AffinityValue
  <2>1. PriorityLine(file) \in {Absent} \union Nat
    BY <1>1, DigitsType DEF PriorityLine, Settings
  <2>2. MaskLine(file) \in {Absent} \union SUBSET Bit
    BY <1>1 DEF MaskLine
  <2> QED
    BY <1>4, <2>1, <2>2 DEF Imported, AffinityValue
<1>6. registry'.affinity = a
  BY DEF Import
<1> HIDE DEF a
<1>7. a # Absent
  BY <1>2, <1>5
<1>8. StoredPolicy(registry') = DigitsAsHex[file.DevicePolicy]
  BY <1>2, <1>3, <1>4, <1>6, <1>7 DEF StoredPolicy, AffinityValues, ValueOr
<1>9. file.DevicePolicy = 4 => StoredMask(registry') = file.AssignmentSetOverride
  BY <1>1, <1>2, <1>3, <1>6, <1>7
     DEF StoredMask, AffinityValues, ValueOr, MaskLine, IrqPolicySpecifiedProcessors
<1> QED
  BY <1>4, <1>8, <1>9 DEF KeyMasked, Masked, IrqPolicySpecifiedProcessors

LEMMA ImportMasked ==
  ASSUME EInv, MaskInv, FileMasked, Import
  PROVE  MaskInv' /\ FileMasked'
<1>1. PICK m, a : ImportOf(m, a)
  BY ImportNamed
<1>2. torn' = torn /\ file' = file /\ file # NoFile
  BY DEF Import
<1>3. FileMasked'
  BY <1>2 DEF FileMasked, Masked
<1>4. ASSUME ~torn', NEW w \in Writer
      PROVE  Careful(writer'[w])
  <2> DEFINE between == WithKey(registry, "msi", m)
             s == Disturbing(writer[w], registry, "msi", m)
             t == Disturbing(s, between, "affinity", a)
  <2>1. writer'[w] = t
    BY <1>1, Zenon DEF ImportOf
  <2>2. writer[w] \in Process /\ ProcessOK(writer[w], registry) /\ registry \in Entry
    BY DEF EInv, IInv, TypeOK
  <2>3. s \in Process
    BY <1>1, <2>2, DisturbingOK DEF Key, ImportOf
  <2>4. IsDisturbing(writer[w], registry, "msi", m, s)
    BY <2>2, DisturbingFields, Zenon
  <2> HIDE DEF s, between
  <2>5. IsDisturbing(s, between, "affinity", a, t)
    BY <2>3, DisturbingFields, Zenon
  <2> HIDE DEF t
  <2>6. Careful(writer[w])
    BY <1>2, <1>4 DEF MaskInv
  <2>7. t.pc = writer[w].pc /\ t.row = writer[w].row /\ t.item = writer[w].item
    BY <2>4, <2>5 DEF IsDisturbing
  <2> QED
    BY <2>1, <2>6, <2>7 DEF Careful
<1>5. ASSUME ~torn'
      PROVE  KeyMasked(registry')
  BY <1>2, <1>5, ImportedMasked DEF FileMasked
<1>6. ASSUME ~torn', NEW w \in Writer
      PROVE  CarefulRead(read'[w])
  <2> DEFINE between == WithKey(registry, "msi", m)
             s == DisturbingRead(read[w], registry, "msi", m)
             t == DisturbingRead(s, between, "affinity", a)
  <2>1. read'[w] = t
    BY <1>1, Zenon DEF ImportOf
  <2>2. read[w] \in Reading /\ ReadOK(read[w], registry) /\ registry \in Entry
    BY DEF EInv, IInv, TypeOK
  <2>3. s \in Reading
    BY <1>1, <2>2, DisturbingReadOK DEF Key, ImportOf
  <2>4. SameRowRead(read[w], s)
    BY <2>2, DisturbingReadKeeps, Zenon
  <2> HIDE DEF s, between
  <2>5. SameRowRead(s, t)
    BY <2>3, DisturbingReadKeeps, Zenon
  <2> HIDE DEF t
  <2>6. CarefulRead(read[w])
    BY <1>2, <1>6 DEF MaskInv
  <2> QED
    BY <2>1, <2>4, <2>5, <2>6 DEF CarefulRead, SameRowRead
<1>7. MaskInv'
  BY <1>4, <1>5, <1>6, Zenon DEF MaskInv, Careful, CarefulRead, KeyMasked, Masked, StoredPolicy,
                                 StoredMask
<1> QED
  BY <1>3, <1>7

LEMMA TornStays ==
  ASSUME [Next]_vars, torn
  PROVE  torn'
<1>1. ASSUME NEW w \in Writer, NEW fails \in BOOLEAN, Call(w, fails)
      PROVE  torn'
  BY <1>1, Zenon DEF Call
<1> QED
  BY <1>1, Zenon DEF Next, OpenToRead, ReadValue, Ask, End, vars

(***************************************************************************)
(* No policy for specified processors is stored without a mask while no    *)
(* setter is under way and neither a setter nor a read was torn, with      *)
(* files exported from stale rows and imported later, between the calls of *)
(* a setter or a read too; such a one is torn, the import itself brings    *)
(* the mask it needs                                                       *)
(* (createRegFile, SaveBackup.go 18-20, and setAffinityPolicy).            *)
(***************************************************************************)
THEOREM ExportMaskUnlessTorn ==
  ASSUME DeviceHasMsi, MasksStored, MasksGiven
  PROVE  SpecExport => []MaskUnlessTorn
<1>1. InitExport => MaskInv /\ FileMasked
  BY InitMasked DEF InitExport, FileMasked
<1>2. EInv /\ UndisturbedIsStored' /\ MaskInv /\ FileMasked /\ [NextExport]_allVars
        => MaskInv' /\ FileMasked'
  <2> SUFFICES ASSUME EInv, UndisturbedIsStored', MaskInv, FileMasked,
                      NextExport \/ UNCHANGED allVars
               PROVE  MaskInv' /\ FileMasked'
    OBVIOUS
  <2>1. CASE [Next]_vars /\ file' = file
    <3>1. MaskInv'
      BY <2>1, NextMasked DEF EInv
    <3>2. torn => torn'
      BY <2>1, TornStays
    <3>3. FileMasked'
      BY <2>1, <3>2 DEF FileMasked, Masked
    <3> QED
      BY <3>1, <3>3
  <2> QED
    BY <2>1, ExportStep, ExportMasked, ImportMasked
<1>3. SpecExport => []EInv /\ []UndisturbedIsStored
  BY ExportInvariant, ExportUndisturbed
<1> QED
  BY <1>1, <1>2, <1>3, MaskInvEnough, PTL DEF SpecExport

-----------------------------------------------------------------------------
(***************************************************************************)
(* To SettingsStore an import is a step of others that writes some keys.   *)
(***************************************************************************)
LEMMA SettledDisturbing ==
  ASSUME NEW s \in Process, NEW stored \in Entry, s.pc = "closed" => s.todo = {},
         NEW key \in Key, NEW value \in KeyType(key)
  PROVE  InSettled(Disturbing(s, stored, key, value), WithKey(stored, key, value))
           = IF value = stored[key] THEN InSettled(s, stored)
             ELSE WithKey(InSettled(s, stored), key, value)
<1>1. CASE value = stored[key]
  <2>1. WithKey(stored, key, value) = stored
    BY <1>1 DEF WithKey, Entry
  <2> QED
    BY <1>1, <2>1 DEF Disturbing
<1>2. CASE value # stored[key]
  <2>1. Disturbing(s, stored, key, value) = Disturbed(s, key, value)
    BY <1>2 DEF Disturbing
  <2>2. InSettled(Disturbed(s, key, value), WithKey(stored, key, value))
          = WithKey(InSettled(s, stored), key, value)
    BY SettledDisturbed, Zenon
  <2> QED
    BY <1>2, <2>1, <2>2, Zenon
<1> QED
  BY <1>1, <1>2, Zenon

LEMMA WithOtherKey ==
  ASSUME NEW stored \in Entry, NEW value
  PROVE  /\ WithKey(stored, "msi", value) = [affinity |-> stored.affinity, msi |-> value]
         /\ WithKey(stored, "affinity", value) = [affinity |-> value, msi |-> stored.msi]
  BY KeyChanged DEF WithKey

LEMMA ImportStores ==
  ASSUME EInv, EInv', Import, NEW w \in Writer
  PROVE  Store(w)!Next
<1>1. PICK m, a : ImportOf(m, a)
  BY ImportNamed
<1> DEFINE between == WithKey(registry, "msi", m)
           s == Disturbing(writer[w], registry, "msi", m)
           t == Disturbing(s, between, "affinity", a)
           before == InSettled(writer[w], registry)
           middle == InSettled(s, between)
           after == InSettled(t, registry')
           keys == (IF m = registry.msi THEN {} ELSE {"msi"})
                     \union (IF a = registry.affinity THEN {} ELSE {"affinity"})
<1>2. /\ m \in KeyType("msi") /\ a \in KeyType("affinity") /\ between \in Entry
      /\ registry' = WithKey(between, "affinity", a)
      /\ writer'[w] = t
  BY <1>1, Zenon DEF ImportOf
<1>3. /\ writer[w] \in Process /\ ProcessOK(writer[w], registry) /\ registry \in Entry
      /\ writer'[w] \in Process /\ ProcessOK(writer'[w], registry') /\ registry' \in Entry
  BY DEF EInv, IInv, TypeOK
<1>4. "msi" \in Key /\ "affinity" \in Key
  BY DEF Key
<1>5. writer[w].pc = "closed" <=> writer[w].row = Closed
  BY <1>3, RowOfProcess
<1>6. writer[w].pc = "closed" => writer[w].todo = {} /\ writer[w].stale = {}
  BY <1>3, RowOfProcess
<1>7. s \in Process /\ IsDisturbing(writer[w], registry, "msi", m, s)
  BY <1>2, <1>3, <1>4, DisturbingOK, DisturbingFields, Zenon
<1>8. between.affinity = registry.affinity
  <2>1. between = [affinity |-> registry.affinity, msi |-> m]
    BY <1>3, WithOtherKey, Zenon
  <2> HIDE DEF between
  <2> QED
    BY <2>1
<1>9. middle = IF m = registry.msi THEN before ELSE WithKey(before, "msi", m)
  BY <1>2, <1>3, <1>4, <1>6, SettledDisturbing, Zenon
<1> HIDE DEF s, between
<1>10. IsDisturbing(s, between, "affinity", a, t)
  BY <1>7, DisturbingFields, Zenon
<1>11. s.pc = "closed" => s.todo = {}
  BY <1>6, <1>7 DEF IsDisturbing
<1>12. after = IF a = between.affinity THEN middle ELSE WithKey(middle, "affinity", a)
  <2>1. InSettled(t, WithKey(between, "affinity", a))
          = IF a = between["affinity"] THEN middle ELSE WithKey(middle, "affinity", a)
    BY <1>2, <1>4, <1>7, <1>11, SettledDisturbing, Zenon
  <2> QED
    BY <1>2, <2>1, Zenon
<1>13. before \in Entry
  BY <1>3, SettledType
<1>14. after \in Entry
  BY <1>2, <1>3, SettledType
<1>15. /\ t.row = writer[w].row /\ t.item = writer[w].item
       /\ t.stale = IF writer[w].row = Closed THEN {} ELSE writer[w].stale \union keys
  BY <1>5, <1>6, <1>7, <1>8, <1>10 DEF IsDisturbing
<1> HIDE DEF t, before, middle, after
<1>16. middle \in Entry /\ middle.affinity = before.affinity
       /\ (m = registry.msi => middle.msi = before.msi)
  <2>1. CASE m = registry.msi
    BY <1>9, <1>13, <2>1
  <2>2. CASE m # registry.msi
    <3>1. middle = [affinity |-> before.affinity, msi |-> m]
      BY <1>9, <1>13, <2>2, WithOtherKey
    <3> QED
      BY <1>2, <1>13, <2>2, <3>1 DEF Entry, KeyType
  <2> QED
    BY <2>1, <2>2
<1>17. after.msi = middle.msi /\ (a = registry.affinity => after.affinity = middle.affinity)
  <2>1. CASE a = registry.affinity
    BY <1>8, <1>12, <2>1
  <2>2. CASE a # registry.affinity
    <3>1. after = [affinity |-> a, msi |-> middle.msi]
      BY <1>8, <1>12, <1>16, <2>2, WithOtherKey
    <3> QED
      BY <2>2, <3>1
  <2> QED
    BY <2>1, <2>2
<1>18. /\ "msi" \notin keys => after.msi = before.msi
       /\ "affinity" \notin keys => after.affinity = before.affinity
  BY <1>16, <1>17
<1>19. after \in [affinity : AffinityKey,
                  msi : {Absent} \union [MSISupported : {Absent} \union Nat,
                                         MessageNumberLimit : {Absent} \union Nat]]
  BY <1>14 DEF Entry, MsiKey, MsiValue, MSI_Off, MSI_On
<1>20. keys \in SUBSET {"msi", "affinity"}
  OBVIOUS
<1> HIDE DEF keys
<1>21. Settled(writer[w]) = before /\ Settled(writer[w])' = after
  BY <1>2, SettledNow DEF before, after
<1>22. Store(w)!Others
  BY <1>2, <1>15, <1>18, <1>19, <1>20, <1>21, SameTypes DEF Store!Others
<1> QED
  BY <1>22 DEF Store!Next

(***************************************************************************)
(* The setters of every process happen in single steps, with files that    *)
(* are imported between any two of their calls (reg.go 43-141).            *)
(***************************************************************************)
THEOREM ExportStoreImplemented ==
  ASSUME DeviceHasMsi
  PROVE  SpecExport => StoreSpec
<1>1. InitExport => \A w \in Writer : Store(w)!Init
  BY InitStores DEF InitExport
<1>2. EInv /\ EInv' /\ [NextExport]_allVars
        => [\A w \in Writer : [Store(w)!Next]_(Store(w)!vars)]_vars
  <2> SUFFICES ASSUME EInv, EInv', NextExport \/ UNCHANGED allVars
               PROVE  [\A w \in Writer : [Store(w)!Next]_(Store(w)!vars)]_vars
    OBVIOUS
  <2>1. CASE [Next]_vars
    BY <2>1, NextStores DEF EInv
  <2>2. CASE Import
    BY <2>2, ImportStores
  <2> QED
    BY <2>1, <2>2, ExportStep DEF Export
<1>3. SpecExport => []EInv
  BY ExportInvariant
<1> QED
  BY <1>1, <1>2, <1>3, PTL DEF SpecExport, StoreSpec

-----------------------------------------------------------------------------
(***************************************************************************)
(* The bytes of a mask.  Byte i counts Place(i), and a place is worth Base *)
(* times the one before it.                                                *)
(***************************************************************************)
Base == 2 ^ ByteBits
Place(i) == 2 ^ (ByteBits * (i - 1))
Byte(val, i) == (val \div Place(i)) % Base

LEMMA Places ==
  /\ Base \in Nat /\ Base >= 2
  /\ Place(1) = 1
  /\ \A i \in Nat \ {0} : Place(i) \in Nat \ {0} /\ Place(i + 1) = Place(i) * Base
<1>1. ByteBits \in Nat \ {0}
  BY BytesAssumption
<1>2. Base \in Nat /\ Base >= 2
  <2>1. ByteBits - 1 \in Nat /\ (ByteBits - 1) + 1 = ByteBits
    BY <1>1
  <2>2. 2 ^ ((ByteBits - 1) + 1) = 2 ^ (ByteBits - 1) + 2 ^ (ByteBits - 1)
    BY <2>1, PowerOfNext, Zenon
  <2>3. 2 ^ (ByteBits - 1) \in Nat \ {0}
    BY <2>1, PowerPositive, Zenon
  <2>4. \A n : n \in Nat \ {0} => n + n \in Nat /\ n + n >= 2
    OBVIOUS
  <2> QED
    BY <2>1, <2>2, <2>3, <2>4, Zenon DEF Base
<1>3. Place(1) = 1
  <2>1. ByteBits * (1 - 1) = 0
    BY <1>1
  <2> QED
    BY <2>1, PowerOfZero, Zenon DEF Place
<1>4. ASSUME NEW i \in Nat \ {0}
      PROVE  Place(i) \in Nat \ {0} /\ Place(i + 1) = Place(i) * Base
  <2> DEFINE m == ByteBits * (i - 1)
  <2>1. m \in Nat /\ ByteBits * ((i + 1) - 1) = m + ByteBits
    <3>1. i - 1 \in Nat /\ (i + 1) - 1 = (i - 1) + 1
      OBVIOUS
    <3>2. \A k \in Nat : ByteBits * k \in Nat /\ ByteBits * (k + 1) = ByteBits * k + ByteBits
      BY <1>1
    <3> QED
      BY <3>1, <3>2, Zenon
  <2>2. Place(i) = 2 ^ m /\ Place(i + 1) = 2 ^ (m + ByteBits)
    BY <2>1, Zenon DEF Place
  <2> HIDE DEF m
  <2>3. 2 ^ (m + ByteBits) = 2 ^ m * 2 ^ ByteBits
    BY <1>1, <2>1, PowerOfSum
  <2>4. 2 ^ m \in Nat \ {0}
    BY <2>1, PowerPositive
  <2> QED
    BY <2>2, <2>3, <2>4, Zenon DEF Base
<1> QED
  BY <1>2, <1>3, <1>4

LEMMA ByteType ==
  ASSUME NEW val \in Nat, NEW i \in Nat \ {0}
  PROVE  Byte(val, i) \in Nat
<1>1. Place(i) \in Nat \ {0} /\ Base \in Nat \ {0}
  BY Places
<1>2. val \div Place(i) \in Nat
  BY <1>1, Quotient
<1> DEFINE q == val \div Place(i)
<1> HIDE DEF q
<1>3. q \in Nat => q % Base \in Nat
  BY <1>1
<1> QED
  BY <1>2, <1>3, Zenon DEF Byte, q

\* The bytes of a number from the second on are those of its quotient.
LEMMA ByteOfQuotient ==
  ASSUME NEW val \in Nat, NEW i \in Nat \ {0}
  PROVE  val \div Base \in Nat /\ Byte(val \div Base, i) = Byte(val, i + 1)
<1>1. Place(i) \in Nat \ {0} /\ Base \in Nat \ {0} /\ Place(i + 1) = Place(i) * Base
  BY Places
<1>2. (val \div Base) \div Place(i) = val \div (Base * Place(i))
  BY <1>1, QuotientTwice
<1>3. Base * Place(i) = Place(i + 1)
  BY <1>1
<1>4. val \div Base \in Nat
  BY <1>1, Quotient
<1> QED
  BY <1>2, <1>3, <1>4, Zenon DEF Byte

LEMMA FirstByte ==
  ASSUME NEW val \in Nat
  PROVE  Byte(val, 1) = val % Base
<1>1. val \div 1 = val
  OBVIOUS
<1> QED
  BY <1>1, Places, Zenon DEF Byte

LEMMA MaskIsNumber ==
  ASSUME NEW val \in MaskNumber
  PROVE  val \in Nat
<1> DEFINE top == 2 ^ (ByteBits * ByteCount) - 1
<1> HIDE DEF top
<1>1. val \in 0 .. top
  BY Zenon DEF MaskNumber, top
<1> QED
  BY <1>1

\* Adding up the bytes at their places gives the rest of the number that
\* there is place for, which is all of a mask.
LEMMA BytesAddUp ==
  ASSUME NEW val \in MaskNumber
  PROVE  btoi64([i \in 1 .. ByteCount |-> Byte(val, i)]) = val
<1> DEFINE byte == [i \in 1 .. ByteCount |-> Byte(val, i)]
           f == [i \in 1 .. ByteCount |-> Byte(val, i) * Place(i)]
<1>1. ByteCount \in Nat \ {0}
  BY BytesAssumption
<1>2. Place(ByteCount + 1) \in Nat \ {0} /\ val \in Nat /\ val < Place(ByteCount + 1)
  <2>1. ByteCount + 1 \in Nat \ {0} /\ (ByteCount + 1) - 1 = ByteCount
    BY <1>1
  <2>2. Place(ByteCount + 1) \in Nat \ {0}
    BY <2>1, Places
  <2>3. Place(ByteCount + 1) = 2 ^ (ByteBits * ByteCount)
    BY <2>1, Zenon DEF Place
  <2>4. val \in 0 .. Place(ByteCount + 1) - 1
    BY <2>3, Zenon DEF MaskNumber
  <2> QED
    BY <2>2, <2>4
<1>3. f \in [1 .. ByteCount -> Nat]
  <2> SUFFICES ASSUME NEW i \in 1 .. ByteCount
               PROVE  Byte(val, i) * Place(i) \in Nat
    OBVIOUS
  <2>1. i \in Nat \ {0}
    BY <1>1
  <2>2. Byte(val, i) \in Nat /\ Place(i) \in Nat
    BY <1>2, <2>1, ByteType, Places
  <2> QED
    BY <2>2
<1>4. IsFiniteSet(1 .. ByteCount)
  BY <1>1, FS_Interval
<1>5. btoi64(byte) = SumFunctionOnSet(f, 1 .. ByteCount)
  <2>1. [i \in 1 .. ByteCount |-> byte[i] * 2 ^ (ByteBits * (i - 1))] = f
    BY Zenon DEF Place
  <2>2. DOMAIN f = 1 .. ByteCount
    OBVIOUS
  <2> HIDE DEF f, byte
  <2> QED
    BY <2>1, <2>2, Zenon DEF btoi64, SumFunction
<1> HIDE DEF byte
<1>6. PICK sum : Sums(sum, 1 .. ByteCount, f)
                 /\ SumFunctionOnSet(f, 1 .. ByteCount) = sum[1 .. ByteCount]
  <2> HIDE DEF f
  <2> QED
    BY <1>3, <1>4, SumFunctionSums
<1>7. InAnyOrder(sum, 1 .. ByteCount, f)
  <2> HIDE DEF f
  <2> QED
    BY <1>3, <1>4, <1>6, SumsRemove
<1> DEFINE Added == {k \in Nat : k <= ByteCount => sum[1 .. k] = val % Place(k + 1)}
<1>8. 0 \in Added
  <2>1. 1 .. 0 = {} /\ {} \in SUBSET (1 .. ByteCount)
    OBVIOUS
  <2>2. sum[1 .. 0] = 0
    BY <1>6, <2>1 DEF Sums
  <2>3. val % Place(0 + 1) = 0
    <3>1. val % 1 = 0
      BY <1>2
    <3> QED
      BY <3>1, Places
  <2> QED
    BY <2>2, <2>3
<1>9. ASSUME NEW k \in Added
      PROVE  k + 1 \in Added
  <2> SUFFICES ASSUME k + 1 <= ByteCount
               PROVE  sum[1 .. k + 1] = val % Place((k + 1) + 1)
    OBVIOUS
  <2> DEFINE p == Place(k + 1)
             q == (val \div p) % Base
             r == val % p
  <2>1. k \in Nat /\ k + 1 \in 1 .. ByteCount /\ k + 1 \in 1 .. k + 1
        /\ 1 .. k + 1 \in SUBSET (1 .. ByteCount) /\ (1 .. k + 1) \ {k + 1} = 1 .. k
    BY <1>1
  <2>2. sum[1 .. k + 1] = f[k + 1] + sum[1 .. k]
    <3>1. sum[1 .. k + 1] = f[k + 1] + sum[(1 .. k + 1) \ {k + 1}]
      <4> HIDE DEF f
      <4> QED
        BY <1>7, <2>1, Zenon DEF InAnyOrder
    <3> QED
      BY <2>1, <3>1, Zenon
  <2>3. sum[1 .. k] = r
    <3>1. k <= ByteCount
      BY <1>1, <2>1
    <3>2. sum[1 .. k] = val % Place(k + 1)
      <4> HIDE DEF f
      <4> QED
        BY <3>1, Zenon DEF Added
    <3> QED
      BY <3>2, Zenon
  <2>4. f[k + 1] = q * p
    BY <2>1 DEF Byte
  <2>5. p \in Nat \ {0} /\ Place((k + 1) + 1) = p * Base /\ Base \in Nat \ {0}
    <3>1. k + 1 \in Nat \ {0}
      BY <2>1
    <3> QED
      BY <3>1, Places
  <2>6. val % (p * Base) = p * q + r
    <3> HIDE DEF p
    <3> QED
      BY <1>2, <2>5, RestOfProduct
  <2>7. q \in Nat /\ r \in Nat
    <3> HIDE DEF p
    <3> QED
      BY <1>2, <2>5
  <2> HIDE DEF p, q, r, f
  <2>8. q * p + r = p * q + r
    BY <2>5, <2>7
  <2> QED
    BY <2>2, <2>3, <2>4, <2>5, <2>6, <2>8, Zenon
<1>10. Nat \subseteq Added
  <2> HIDE DEF Added
  <2> QED
    BY <1>8, <1>9, SetInduction
<1>11. sum[1 .. ByteCount] = val % Place(ByteCount + 1)
  BY <1>1, <1>10
<1>12. val % Place(ByteCount + 1) = val
  <2> DEFINE p == Place(ByteCount + 1)
  <2> HIDE DEF p
  <2>1. p \in Nat \ {0} /\ val \in 0 .. p - 1
    BY <1>2 DEF p
  <2>2. (p * 0 + val) % p = val
    BY <2>1, QuotientUnique
  <2>3. p * 0 + val = val
    BY <1>2, <2>1
  <2> QED
    BY <2>2, <2>3 DEF p
<1> QED
  BY <1>5, <1>6, <1>11, <1>12 DEF byte

\* A reader that finds the bytes, or all up to zeros, finds the mask.
LEMMA ReadsBack ==
  ASSUME NEW val \in MaskNumber, NEW bytes,
         \A i \in 1 .. ByteCount : (IF i <= Len(bytes) THEN bytes[i] ELSE 0) = Byte(val, i)
  PROVE  ReadBytes(bytes) = val
<1>1. [i \in 1 .. ByteCount |-> IF i <= Len(bytes) THEN bytes[i] ELSE 0]
        = [i \in 1 .. ByteCount |-> Byte(val, i)]
  OBVIOUS
<1> QED
  BY <1>1, BytesAddUp, Zenon DEF ReadBytes

\* The setter leaves out zeros at the end only.
LEMMA StoredReadsBack ==
  ASSUME NEW val \in MaskNumber
  PROVE  ReadBytes(StoredBytes(val)) = val
<1> DEFINE n == i64tob(val)
           c == clen(n)
<1>1. ByteCount \in Nat \ {0} /\ val \in Nat
  BY BytesAssumption, MaskIsNumber
<1>2. n = [i \in 1 .. ByteCount |-> Byte(val, i)]
  BY Zenon DEF i64tob, Byte, Place, Base
<1>3. n \in Seq(Nat) /\ Len(n) = ByteCount /\ DOMAIN n = 1 .. ByteCount
  <2>1. \A i \in 1 .. ByteCount : Byte(val, i) \in Nat
    BY <1>1, ByteType
  <2> HIDE DEF n
  <2> QED
    BY <1>1, <1>2, <2>1
<1>4. \A i \in 1 .. ByteCount : n[i] = Byte(val, i)
  BY <1>2
<1> HIDE DEF n
<1>5. c \in 1 .. ByteCount /\ \A j \in 1 .. ByteCount : j > c => n[j] = 0
  <2>1. CASE \A i \in DOMAIN n : n[i] = 0
    <3>1. c = ByteCount
      BY <1>3, <2>1, Zenon DEF clen
    <3> QED
      BY <1>1, <3>1
  <2>2. CASE ~ \A i \in DOMAIN n : n[i] = 0
    <3> DEFINE NotZero == {i \in 1 .. ByteCount : n[i] # 0}
    <3>1. IsFiniteSet(NotZero) /\ NotZero \in SUBSET Nat /\ NotZero # {}
      <4>1. IsFiniteSet(1 .. ByteCount)
        BY <1>1, FS_Interval
      <4>2. NotZero \in SUBSET (1 .. ByteCount)
        OBVIOUS
      <4>3. NotZero \in SUBSET Nat /\ NotZero # {}
        BY <1>1, <1>3, <2>2
      <4> HIDE DEF NotZero
      <4> QED
        BY <4>1, <4>2, <4>3, FS_Subset
    <3>2. PICK m \in NotZero : \A k \in NotZero : m >= k
      <4> HIDE DEF NotZero
      <4> QED
        BY <3>1, GreatestElement
    <3>3. n[m] # 0 /\ \A j \in DOMAIN n : j > m => n[j] = 0
      BY <1>1, <1>3, <3>2
    <3>4. c = CHOOSE i \in DOMAIN n : n[i] # 0 /\ \A j \in DOMAIN n : j > i => n[j] = 0
      BY <2>2, Zenon DEF clen
    <3>5. m \in DOMAIN n
      BY <1>3, <3>2
    <3>6. c \in DOMAIN n /\ n[c] # 0 /\ \A j \in DOMAIN n : j > c => n[j] = 0
      <4> HIDE DEF c
      <4> QED
        BY <3>3, <3>4, <3>5, Zenon
    <3> QED
      BY <1>3, <3>6
  <2> QED
    BY <2>1, <2>2
<1> HIDE DEF c
<1>6. /\ Len(SubSeq(n, 1, c)) = c
      /\ \A i \in 1 .. c : SubSeq(n, 1, c)[i] = n[i]
  BY <1>1, <1>3, <1>5
<1>7. \A i \in 1 .. ByteCount :
        (IF i <= Len(SubSeq(n, 1, c)) THEN SubSeq(n, 1, c)[i] ELSE 0) = Byte(val, i)
  BY <1>1, <1>4, <1>5, <1>6
<1>8. StoredBytes(val) = SubSeq(n, 1, c)
  BY Zenon DEF StoredBytes, n, c
<1>9. ReadBytes(SubSeq(n, 1, c)) = val
  BY <1>7, ReadsBack
<1> QED
  BY <1>8, <1>9

\* A number without its first byte is a smaller one.
LEMMA QuotientOfMask ==
  ASSUME NEW val \in MaskNumber, val # 0
  PROVE  val \div Base \in MaskNumber /\ val \div Base < val
<1> DEFINE top == 2 ^ (ByteBits * ByteCount) - 1
           q == val \div Base
<1>1. val \in 0 .. top /\ top \in Int
  <2>1. ByteBits * ByteCount \in Nat
    BY BytesAssumption
  <2>2. 2 ^ (ByteBits * ByteCount) \in Nat
    BY <2>1, PowerPositive
  <2>3. \A n : n \in Nat => n - 1 \in Int
    OBVIOUS
  <2>4. top \in Int
    BY <2>2, <2>3, Zenon
  <2> QED
    BY <2>4, Zenon DEF MaskNumber
<1> HIDE DEF top
<1>2. Base \in Nat \ {0} /\ Base >= 2 /\ val \in Nat
  BY Places, MaskIsNumber
<1>3. q \in Nat /\ val % Base \in 0 .. Base - 1 /\ val = Base * q + (val % Base)
  BY <1>2, Quotient
<1> HIDE DEF q
<1>4. Base * q <= val
  BY <1>2, <1>3
<1>5. q + q <= Base * q
  <2>1. (Base - 2) * q >= 0
    BY <1>2, <1>3
  <2>2. (Base - 2) * q = Base * q - (q + q)
    BY <1>2, <1>3
  <2>3. Base * q \in Nat
    BY <1>2, <1>3
  <2> QED
    BY <1>3, <2>1, <2>2, <2>3
<1>6. q + q <= val
  <2>1. Base * q \in Nat
    BY <1>2, <1>3
  <2> QED
    BY <1>2, <1>3, <1>4, <1>5, <2>1
<1>7. q < val /\ q \in 0 .. top
  BY <1>1, <1>2, <1>3, <1>6
<1> QED
  BY <1>7, Zenon DEF MaskNumber, q, top

LEMMA DigitsOfMask ==
  \A val \in MaskNumber :
    Digits[val] = IF val = 0 THEN <<>> ELSE <<val % Base>> \o Digits[val \div Base]
<1> DEFINE first == [n \in MaskNumber |-> <<>>]
           smaller == [n \in MaskNumber |-> n \div Base]
           step == [n \in MaskNumber |-> [rest \in Seq(Nat) |-> <<n % Base>> \o rest]]
<1>1. IsRecursion(MaskNumber, Seq(Nat), {0}, first, smaller, step)
  <2>1. Base \in Nat \ {0} /\ MaskNumber \in SUBSET Nat
    BY Places, MaskIsNumber
  <2>2. \A n \in MaskNumber : n \div Base \in Nat /\ n % Base \in Nat
    <3> SUFFICES ASSUME NEW n \in MaskNumber
                 PROVE  n \div Base \in Nat /\ n % Base \in Nat
      OBVIOUS
    <3>1. n \in Nat
      BY <2>1
    <3>2. n \div Base \in Nat /\ n % Base \in 0 .. Base - 1
      BY <2>1, <3>1, Quotient
    <3>3. \A r : r \in 0 .. Base - 1 => r \in Nat
      BY <2>1
    <3> QED
      BY <3>2, <3>3, Zenon
  <2>3. \A n \in MaskNumber : n # 0 => n \div Base \in MaskNumber /\ n \div Base < n
    BY QuotientOfMask
  <2>4. first \in [MaskNumber -> Seq(Nat)]
    OBVIOUS
  <2>5. smaller \in [MaskNumber -> Nat]
    BY <2>2
  <2>6. step \in [MaskNumber -> [Seq(Nat) -> Seq(Nat)]]
    BY <2>2
  <2>7. \A n \in MaskNumber : smaller[n] = n \div Base
    OBVIOUS
  <2> HIDE DEF first, smaller, step
  <2> QED
    BY <2>1, <2>3, <2>4, <2>5, <2>6, <2>7 DEF IsRecursion
<1>2. PICK f \in [MaskNumber -> Seq(Nat)] :
        \A n \in MaskNumber : f[n] = Body(f, n, {0}, first, smaller, step)
  <2> HIDE DEF first, smaller, step
  <2> QED
    BY <1>1, RecursionExists
<1>3. f = [n \in MaskNumber |-> IF n = 0 THEN <<>> ELSE <<n % Base>> \o f[n \div Base]]
  <2> SUFFICES ASSUME NEW n \in MaskNumber
               PROVE  f[n] = IF n = 0 THEN <<>> ELSE <<n % Base>> \o f[n \div Base]
    OBVIOUS
  <2>1. f[n] = IF n = 0 THEN first[n] ELSE step[n][f[smaller[n]]]
    BY <1>2, Zenon DEF Body
  <2>2. first[n] = <<>> /\ smaller[n] = n \div Base
    OBVIOUS
  <2>3. ASSUME n # 0
        PROVE  step[n][f[n \div Base]] = <<n % Base>> \o f[n \div Base]
    <3>1. f[n \div Base] \in Seq(Nat)
      BY <1>2, <2>3, QuotientOfMask
    <3> QED
      BY <3>1
  <2> HIDE DEF first, smaller, step
  <2> QED
    BY <2>1, <2>2, <2>3, Zenon
<1>4. Digits = [val \in MaskNumber |->
                 IF val = 0 THEN <<>> ELSE <<val % Base>> \o Digits[val \div Base]]
  BY <1>3, Zenon DEF Digits, Base
<1> QED
  BY <1>4

\* What is left of the digits at each place.
DigitsAre(val, bytes) ==
  /\ bytes \in Seq(Nat)
  /\ \A i \in Nat \ {0} : Byte(val, i) = IF i <= Len(bytes) THEN bytes[i] ELSE 0

LEMMA NoDigits == DigitsAre(0, <<>>)
<1> SUFFICES ASSUME NEW i \in Nat \ {0}
             PROVE  Byte(0, i) = 0
  BY DEF DigitsAre
<1>1. Place(i) \in Nat \ {0} /\ Base \in Nat \ {0}
  BY Places
<1>2. \A d \in Nat \ {0} : 0 \div d = 0 /\ 0 % d = 0
  OBVIOUS
<1> QED
  BY <1>1, <1>2, Zenon DEF Byte

LEMMA OneMoreDigit ==
  ASSUME NEW val \in Nat, NEW rest, DigitsAre(val \div Base, rest)
  PROVE  DigitsAre(val, <<val % Base>> \o rest)
<1> DEFINE b == val % Base
           q == val \div Base
           bytes == <<b>> \o rest
<1>1. b \in Nat
  BY Places
<1>2. DigitsAre(q, rest)
  OBVIOUS
<1>3. Byte(val, 1) = b
  BY FirstByte
<1>4. \A j \in Nat \ {0} : Byte(q, j) = Byte(val, j + 1)
  BY ByteOfQuotient
<1> HIDE DEF b, q
<1>5. rest \in Seq(Nat) /\ bytes \in Seq(Nat) /\ Len(bytes) = Len(rest) + 1 /\ Len(rest) \in Nat
  BY <1>1, <1>2 DEF DigitsAre
<1>6. bytes[1] = b /\ \A j \in Nat \ {0} : j <= Len(rest) => bytes[j + 1] = rest[j]
  BY <1>1, <1>5
<1> HIDE DEF bytes
<1>7. ASSUME NEW i \in Nat \ {0}
      PROVE  Byte(val, i) = IF i <= Len(bytes) THEN bytes[i] ELSE 0
  <2>1. CASE i = 1
    BY <1>3, <1>5, <1>6, <2>1
  <2>2. CASE i # 1
    <3>1. i - 1 \in Nat \ {0} /\ i = (i - 1) + 1
      BY <2>2
    <3>2. Byte(val, i) = Byte(q, i - 1)
      BY <1>4, <3>1, Zenon
    <3>3. Byte(q, i - 1) = IF i - 1 <= Len(rest) THEN rest[i - 1] ELSE 0
      BY <1>2, <3>1, Zenon DEF DigitsAre
    <3>4. i - 1 <= Len(rest) <=> i <= Len(bytes)
      BY <1>5
    <3>5. i - 1 <= Len(rest) => bytes[i] = rest[i - 1]
      BY <1>6, <3>1
    <3> QED
      BY <3>2, <3>3, <3>4, <3>5, Zenon
  <2> QED
    BY <2>1, <2>2
<1>8. DigitsAre(val, bytes)
  BY <1>5, <1>7 DEF DigitsAre
<1> QED
  BY <1>8 DEF bytes, b

LEMMA DigitsAreBytes ==
  \A val \in MaskNumber : DigitsAre(val, Digits[val])
<1> DEFINE Numbers == {k \in Nat : \A val \in MaskNumber : val < k => DigitsAre(val, Digits[val])}
<1>1. 0 \in Numbers
  BY MaskIsNumber
<1>2. ASSUME NEW k \in Numbers
      PROVE  k + 1 \in Numbers
  <2> SUFFICES ASSUME NEW val \in MaskNumber, val < k + 1
               PROVE  DigitsAre(val, Digits[val])
    OBVIOUS
  <2>1. CASE val = 0
    BY <2>1, DigitsOfMask, NoDigits
  <2>2. CASE val # 0
    <3>1. val \in Nat /\ val \div Base \in MaskNumber /\ val \div Base < val
      BY <2>2, MaskIsNumber, QuotientOfMask
    <3>2. val \div Base \in Nat
      BY <3>1, MaskIsNumber
    <3>3. val \div Base < k
      BY <3>1, <3>2
    <3>4. DigitsAre(val \div Base, Digits[val \div Base])
      BY <3>1, <3>3
    <3>5. Digits[val] = <<val % Base>> \o Digits[val \div Base]
      BY <2>2, DigitsOfMask
    <3> QED
      BY <3>1, <3>4, <3>5, OneMoreDigit
  <2> QED
    BY <2>1, <2>2
<1>3. Nat \subseteq Numbers
  <2> HIDE DEF Numbers
  <2> QED
    BY <1>1, <1>2, SetInduction
<1> SUFFICES ASSUME NEW val \in MaskNumber
             PROVE  DigitsAre(val, Digits[val])
  OBVIOUS
<1>4. val + 1 \in Numbers /\ val < val + 1
  BY <1>3, MaskIsNumber
<1> QED
  BY <1>4

\* The export prints zero as one digit.
LEMMA PrintedReadsBack ==
  ASSUME NEW val \in MaskNumber
  PROVE  ReadBytes(ToLittleEndian(val)) = val
<1> DEFINE bytes == ToLittleEndian(val)
<1>1. ASSUME NEW i \in 1 .. ByteCount
      PROVE  (IF i <= Len(bytes) THEN bytes[i] ELSE 0) = Byte(val, i)
  <2>1. i \in Nat \ {0}
    BY BytesAssumption
  <2>2. CASE val = 0
    <3>1. bytes = <<0>>
      BY <2>2, Zenon DEF ToLittleEndian
    <3>2. Byte(val, i) = 0
      BY <2>1, <2>2, NoDigits DEF DigitsAre
    <3> HIDE DEF bytes
    <3> QED
      BY <2>1, <3>1, <3>2
  <2>3. CASE val # 0
    <3>1. bytes = Digits[val]
      BY <2>3, Zenon DEF ToLittleEndian
    <3>2. DigitsAre(val, bytes)
      BY <3>1, DigitsAreBytes, Zenon
    <3> HIDE DEF bytes
    <3> QED
      BY <2>1, <3>2, Zenon DEF DigitsAre
  <2> QED
    BY <2>2, <2>3
<1> HIDE DEF bytes
<1>2. ReadBytes(bytes) = val
  BY <1>1, ReadsBack
<1> QED
  BY <1>2 DEF bytes

(***************************************************************************)
(* Every mask that a setter stores, or that is exported and imported, is   *)
(* read back as it was, for bytes of any size and any number of them       *)
(* (clen and i64tob in setAffinityPolicy, ToLittleEndian in createRegFile, *)
(* btoi64 in FindAllDevices).                                              *)
(***************************************************************************)
THEOREM BytesAreKept == BytesKept
  BY StoredReadsBack, PrintedReadsBack DEF BytesKept

\* The same, as what the runs check of every state.
THEOREM MaskBytesKeptAlways == SpecExport => []MaskBytesKept
<1>1. MaskBytesKept
  BY BytesAreKept DEF MaskBytesKept
<1> QED
  BY <1>1, PTL
=============================================================================
