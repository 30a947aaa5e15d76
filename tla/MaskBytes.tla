------------------------------ MODULE MaskBytes ------------------------------
(***************************************************************************)
(* A mask as bytes: the setter stores those up to the last that is not     *)
(* zero, the export prints as many as there are digits, and a reader fills *)
(* up what it finds with zeros.  Everywhere else a mask is the set of its  *)
(* bits, which these conversions must neither lose nor move.               *)
(***************************************************************************)
EXTENDS Integers, SequencesExt

CONSTANTS
  ByteBits,  \* bits of a byte: 8
  ByteCount  \* bytes of a mask: 8

ASSUME BytesAssumption == ByteBits \in Nat \ {0} /\ ByteCount \in Nat \ {0}

MaskNumber == 0 .. 2 ^ (ByteBits * ByteCount) - 1

i64tob(val) == [i \in 1 .. ByteCount |-> (val \div 2 ^ (ByteBits * (i - 1))) % 2 ^ ByteBits]

btoi64(val) ==
  SumFunction([i \in 1 .. ByteCount |-> val[i] * 2 ^ (ByteBits * (i - 1))])

\* The length without the zeros at the end; all of it if there is nothing else.
clenToFirst(n) ==
  IF \A i \in DOMAIN n : n[i] # 0 THEN Len(n)
  ELSE CHOOSE i \in 0 .. Len(n) - 1 : n[i + 1] = 0 /\ \A j \in 1 .. i : n[j] # 0
clen(n) ==
  IF \A i \in DOMAIN n : n[i] = 0 THEN Len(n)
  ELSE CHOOSE i \in DOMAIN n : n[i] # 0 /\ \A j \in DOMAIN n : j > i => n[j] = 0

StoredBytes(val) == SubSeq(i64tob(val), 1, clen(i64tob(val)))

Digits[val \in MaskNumber] ==
  IF val = 0 THEN <<>> ELSE <<val % 2 ^ ByteBits>> \o Digits[val \div 2 ^ ByteBits]

ToLittleEndian(val) == IF val = 0 THEN <<0>> ELSE Digits[val]

\* What a reader makes of the bytes it finds.
ReadBytes(bytes) ==
  btoi64([i \in 1 .. ByteCount |-> IF i <= Len(bytes) THEN bytes[i] ELSE 0])

\* Every mask is read back as it was, whichever way it was written.
BytesKept ==
  \A val \in MaskNumber :
    ReadBytes(StoredBytes(val)) = val /\ ReadBytes(ToLittleEndian(val)) = val
=============================================================================
