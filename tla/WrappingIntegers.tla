--------------------------- MODULE WrappingIntegers ---------------------------
(***************************************************************************)
(* Wrap32 (src/src/wrapping_integers.hh, wrapping_integers.cc): sequence   *)
(* numbers that wrap around, and their translation to and from absolute    *)
(* stream positions.  The code's word has 32 bits; here it has             *)
(* 2 * HalfWord values.  Absolute positions are uint64_t in the code and   *)
(* naturals here: no stream is 2^64 bytes long.                            *)
(***************************************************************************)
EXTENDS Integers

CONSTANT HalfWord   \* 2^31 in the code

ASSUME HalfWordAssumption == HalfWord \in Nat \ {0}

Word == 2 * HalfWord

\* Wrap32::operator+, and the truncation of a uint64_t to a uint32_t.
Plus(raw, n) == (raw + n) % Word

\* Wrap32::wrap
wrap(n, zero_point) == Plus(zero_point, n % Word)

\* The difference, as uint32_t, of a raw value and the wrapped checkpoint.
Diff(raw, zero_point, checkpoint) == (raw - wrap(checkpoint, zero_point)) % Word

\* A plausible slip: the result is never below the checkpoint.
MutantUnwrap(raw, zero_point, checkpoint) ==
    checkpoint + Diff(raw, zero_point, checkpoint)

\* A plausible slip: the nearest number may be negative.
MutantUnwrapNoOverflowGuard(raw, zero_point, checkpoint) ==
    LET diff == Diff(raw, zero_point, checkpoint)
    IN  IF diff < HalfWord THEN checkpoint + diff ELSE checkpoint + diff - Word

\* Wrap32::unwrap: the top bit of diff means a negative int32_t, unless that
\* would lead below zero.
unwrap(raw, zero_point, checkpoint) ==
    LET diff == Diff(raw, zero_point, checkpoint)
    IN  IF diff < HalfWord \/ diff + checkpoint <= Word - 1
          THEN checkpoint + diff
          ELSE checkpoint + diff - Word
==============================================================================
