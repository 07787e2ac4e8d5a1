---------------------------- MODULE ReassemblerSpec ----------------------------
(***************************************************************************)
(* What the comment of Reassembler::insert promises (reassembler.hh, lines *)
(* 19-28) of the bytes: every byte within the available capacity is known  *)
(* from the moment it arrives, bytes beyond it are discarded, and the      *)
(* prefix without a gap is written at once.                                *)
(***************************************************************************)
EXTENDS Integers

CONSTANTS Capacity,     \* capacity_ of the output stream
          StreamLen,    \* number of bytes of the original stream
          MaxSegment    \* longest substring inserted

VARIABLES known,        \* indices of the bytes received and kept
          popped        \* bytes the reader has taken from the stream

vars == <<known, popped>>

\* The number of bytes in front of the first gap.
Assembled(k) == CHOOSE n \in 0..StreamLen :
                    0..n - 1 \subseteq k /\ n \notin k

Init == known = {} /\ popped = 0

Insert ==
    \E first \in 0..StreamLen, len \in 0..MaxSegment :
        /\ first + len <= StreamLen
        /\ known' = known \union
                      ((first..first + len - 1) \intersect (0..popped + Capacity - 1))
        /\ UNCHANGED popped

Read ==
    /\ popped' \in popped..Assembled(known)
    /\ UNCHANGED known

Next == Insert \/ Read

Spec == Init /\ [][Next]_vars
==============================================================================
