--------------------------- MODULE InternetChecksum ---------------------------
(***************************************************************************)
(* InternetChecksum (src/util/checksum.hh): bytes are added one by one to  *)
(* a sum of 32 bits, every other one shifted to the upper half of a 16-bit *)
(* word, across the borders of buffers; value folds the carries in.        *)
(***************************************************************************)
EXTENDS Parsing

Word16 == ByteSize * ByteSize

NewChecksum == [sum |-> 0, parity |-> FALSE]

AddByte(c, byte) ==
    [sum |-> (c.sum + (IF c.parity THEN byte ELSE byte * ByteSize)) % (Word16 * Word16),
     parity |-> ~c.parity]

add(c, bytes) == FoldLeft(AddByte, c, bytes)

add_all(c, buffers) == FoldLeft(add, c, buffers)

Carry(n) == (n \div Word16) + (n % Word16)

\* Two rounds of the loop bring any 32-bit sum below 2^16.
Folded(n) ==
    IF n < Word16 THEN n ELSE IF Carry(n) < Word16 THEN Carry(n) ELSE Carry(Carry(n))

value(c) == Word16 - 1 - Folded(c.sum)
==============================================================================
