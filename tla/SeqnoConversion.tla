---------------------------- MODULE SeqnoConversion ----------------------------
(***************************************************************************)
(* The use that TCPReceiver::receive and TCPSender::receive make of        *)
(* Wrap32::unwrap: any sequence number arrives while the checkpoint        *)
(* advances, and is read against it.                                       *)
(***************************************************************************)
EXTENDS WrappingIntegers

CONSTANT MaxPosition   \* bound on the checkpoint, for TLC

ASSUME MaxPositionAssumption == MaxPosition \in Nat

VARIABLES raw_value, zero_point, checkpoint

vars == <<raw_value, zero_point, checkpoint>>

Init ==
    /\ raw_value \in 0..Word - 1
    /\ zero_point \in 0..Word - 1
    /\ checkpoint = 0

\* Another segment arrives, after the stream has moved on by any amount.
Arrive ==
    /\ raw_value' \in 0..Word - 1
    /\ checkpoint' \in checkpoint..MaxPosition
    /\ UNCHANGED zero_point

Next == Arrive

Spec == Init /\ [][Next]_vars

\* The values that meet in unwrap: two raw values and a stream position.
TypeOK ==
    /\ raw_value \in 0..Word - 1
    /\ zero_point \in 0..Word - 1
    /\ checkpoint \in Nat

Position == unwrap(raw_value, zero_point, checkpoint)

Distance(a, b) == IF a <= b THEN b - a ELSE a - b

\* unwrap returns a position, never one below zero, that wraps to the value
\* it was called on, also where the word wraps and near the stream's start.
UnwrapInverse == Position \in Nat /\ wrap(Position, zero_point) = raw_value

\* Of all the positions that wrap to the value, unwrap returns one that is
\* closest to the checkpoint ("should return the one that is closest to the
\* checkpoint", wrapping_integers.hh).
UnwrapClosest ==
    \A a \in 0..MaxPosition + Word :
        wrap(a, zero_point) = raw_value =>
            Distance(Position, checkpoint) <= Distance(a, checkpoint)

\* What TCP relies on: a position less than half a word ahead of the
\* checkpoint, or at most half a word behind it, survives the round trip.
RoundTrip ==
    \A a \in 0..MaxPosition + Word :
        (a < checkpoint + HalfWord /\ checkpoint <= a + HalfWord) =>
            unwrap(wrap(a, zero_point), zero_point, checkpoint) = a
==============================================================================
