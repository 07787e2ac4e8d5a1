------------------------- MODULE SeqnoConversionProofs -------------------------
(***************************************************************************)
(* What Wrap32::wrap and Wrap32::unwrap promise, for every word size: the  *)
(* properties that SeqnoConversion checks on a small word.                 *)
(***************************************************************************)
EXTENDS SeqnoConversion, TLAPS

USE HalfWordAssumption, MaxPositionAssumption

\* The modulus is even and positive.
LEMMA WordType == Word \in Nat /\ Word > 0 /\ HalfWord \in Nat /\ Word = 2 * HalfWord
  BY DEF Word

\* A remainder lies below the modulus.
LEMMA ModBounds == \A a \in Int : a % Word \in Nat /\ a % Word < Word
  BY WordType

\* A number has one remainder in 0..Word - 1.
LEMMA ModUnique ==
    ASSUME NEW a \in Int, NEW q \in Int, NEW r \in Nat, r < Word,
           a = q * Word + r
    PROVE  a % Word = r
  BY WordType

\* Every number is a multiple of the modulus and its remainder.
LEMMA ModSplit ==
    ASSUME NEW a \in Int
    PROVE  \E q \in Int : a = q * Word + (a % Word)
  <1>1. a = (a \div Word) * Word + (a % Word) /\ a \div Word \in Int
    BY WordType
  <1> QED BY <1>1

\* Congruence: equal remainders mean a difference of whole words.
LEMMA ModEqual ==
    ASSUME NEW a \in Int, NEW b \in Int
    PROVE  a % Word = b % Word <=> \E k \in Int : a = b + k * Word
  <1>1. PICK p \in Int : a = p * Word + (a % Word)
    BY ModSplit
  <1>2. PICK q \in Int : b = q * Word + (b % Word)
    BY ModSplit
  <1>3. ASSUME a % Word = b % Word PROVE \E k \in Int : a = b + k * Word
    <2>1. a = b + (p - q) * Word /\ p - q \in Int
      BY <1>1, <1>2, <1>3, WordType, ModBounds
    <2> QED BY <2>1
  <1>4. ASSUME NEW k \in Int, a = b + k * Word PROVE a % Word = b % Word
    <2>1. a = (q + k) * Word + (b % Word) /\ q + k \in Int
      BY <1>2, <1>4, WordType, ModBounds
    <2> QED BY <2>1, ModUnique, ModBounds
  <1> QED BY <1>3, <1>4

\* wrap is addition of the zero point, up to whole words.
LEMMA WrapValue ==
    ASSUME NEW n \in Nat, NEW z \in 0..Word - 1
    PROVE  wrap(n, z) = (z + n) % Word
  <1>1. PICK q \in Int : n = q * Word + (n % Word)
    BY ModSplit
  <1>2. z + n = (z + (n % Word)) + q * Word /\ z + n \in Int /\ z + (n % Word) \in Int
    BY <1>1, WordType, ModBounds
  <1>3. (z + n) % Word = (z + (n % Word)) % Word
    BY <1>2, ModEqual
  <1> QED BY <1>3 DEF wrap, Plus

\* Two positions wrap alike exactly when they are whole words apart.
LEMMA WrapEqual ==
    ASSUME NEW m \in Nat, NEW n \in Nat, NEW z \in 0..Word - 1
    PROVE  wrap(m, z) = wrap(n, z) <=> \E k \in Int : m = n + k * Word
  <1>1. wrap(m, z) = wrap(n, z) <=> \E k \in Int : z + m = (z + n) + k * Word
    BY WrapValue, ModEqual
  <1>2. \A k \in Int : z + m = (z + n) + k * Word <=> m = n + k * Word
    BY WordType
  <1> QED BY <1>1, <1>2

\* The difference that unwrap computes is the distance from the checkpoint to
\* the raw value, up to whole words.
LEMMA DiffValue ==
    ASSUME NEW raw \in 0..Word - 1, NEW z \in 0..Word - 1, NEW cp \in Nat
    PROVE  /\ Diff(raw, z, cp) \in Nat /\ Diff(raw, z, cp) < Word
           /\ wrap(cp + Diff(raw, z, cp), z) = raw
  <1> DEFINE d == Diff(raw, z, cp)
             w == wrap(cp, z)
  <1>0. z + cp \in Int /\ raw \in Nat /\ raw < Word
    BY WordType
  <1>1. w = (z + cp) % Word /\ w \in Nat /\ w < Word
    BY <1>0, WrapValue, ModBounds
  <1> HIDE DEF w
  <1>2. d = (raw - w) % Word
    BY DEF Diff, w
  <1>3. d \in Nat /\ d < Word
    BY <1>1, <1>2, ModBounds
  <1> HIDE DEF d
  <1>4. PICK p \in Int : raw - w = p * Word + d
    BY <1>1, <1>2, ModSplit
  <1>5. PICK q \in Int : z + cp = q * Word + w
    BY <1>1, ModSplit
  <1>6. z + (cp + d) = (q - p) * Word + raw /\ q - p \in Int
    BY <1>1, <1>3, <1>4, <1>5, WordType
  <1>7. (z + (cp + d)) % Word = raw
    <2>1. z + (cp + d) \in Int
      BY <1>3, WordType
    <2> QED BY <1>0, <1>6, <2>1, ModUnique
  <1> QED BY <1>3, <1>7, WrapValue DEF d

\* unwrap gives a number that wrap takes back to the one on the wire.
LEMMA InverseHolds ==
    ASSUME NEW raw \in 0..Word - 1, NEW z \in 0..Word - 1, NEW cp \in Nat
    PROVE  /\ unwrap(raw, z, cp) \in Nat
           /\ wrap(unwrap(raw, z, cp), z) = raw
  <1> DEFINE d == Diff(raw, z, cp)
  <1>1. d \in Nat /\ d < Word /\ wrap(cp + d, z) = raw
    BY DiffValue
  <1> HIDE DEF d
  <1>2. CASE d < HalfWord \/ d + cp <= Word - 1
    BY <1>1, <1>2 DEF unwrap, d
  <1>3. CASE ~(d < HalfWord \/ d + cp <= Word - 1)
    <2>1. unwrap(raw, z, cp) = cp + d - Word /\ cp + d - Word \in Nat
      BY <1>1, <1>3, WordType DEF unwrap, d
    <2>2. cp + d - Word = (cp + d) + (-1) * Word
      BY <1>1, WordType
    <2> QED BY <1>1, <2>1, <2>2, WrapEqual
  <1> QED BY <1>2, <1>3

\* unwrap lands within half a word of the checkpoint unless the position is
\* among the first Word ones, where nothing lies below it.
LEMMA UnwrapNear ==
    ASSUME NEW raw \in 0..Word - 1, NEW z \in 0..Word - 1, NEW cp \in Nat
    PROVE  LET u == unwrap(raw, z, cp)
           IN  \/ -HalfWord <= u - cp /\ u - cp < HalfWord
               \/ HalfWord <= u - cp /\ u < Word
  <1> DEFINE d == Diff(raw, z, cp)
  <1>1. d \in Nat /\ d < Word
    BY DiffValue
  <1> HIDE DEF d
  <1>2. unwrap(raw, z, cp) = IF d < HalfWord \/ d + cp <= Word - 1
                               THEN cp + d ELSE cp + d - Word
    BY DEF unwrap, d
  <1> QED BY <1>1, <1>2, WordType

\* Whole words apart and different means at least a word apart.
LEMMA WordsApart ==
    ASSUME NEW m \in Nat, NEW n \in Nat, NEW k \in Int, m = n + k * Word
    PROVE  m = n \/ m >= n + Word \/ n >= m + Word
  <1>1. CASE k = 0
    BY <1>1, WordType
  <1>2. CASE k >= 1
    <2>1. k * Word >= Word
      BY <1>2, WordType
    <2> QED BY <2>1, WordType
  <1>3. CASE k <= -1
    <2>1. k * Word <= -Word
      BY <1>3, WordType
    <2> QED BY <2>1, WordType
  <1> QED BY <1>1, <1>2, <1>3

\* unwrap gives the number closest to the checkpoint.
LEMMA ClosestHolds ==
    ASSUME NEW raw \in 0..Word - 1, NEW z \in 0..Word - 1, NEW cp \in Nat,
           NEW a \in Nat, wrap(a, z) = raw
    PROVE  Distance(unwrap(raw, z, cp), cp) <= Distance(a, cp)
  <1> DEFINE u == unwrap(raw, z, cp)
  <1>1. u \in Nat /\ wrap(u, z) = raw
    BY InverseHolds
  <1>2. \/ -HalfWord <= u - cp /\ u - cp < HalfWord
        \/ HalfWord <= u - cp /\ u < Word
    BY UnwrapNear
  <1> HIDE DEF u
  <1>3. PICK k \in Int : a = u + k * Word
    BY <1>1, WrapEqual
  <1>4. a = u \/ a >= u + Word \/ u >= a + Word
    BY <1>1, <1>3, WordsApart
  <1>5. Distance(u, cp) <= Distance(a, cp)
    BY <1>1, <1>2, <1>4, WordType DEF Distance
  <1> QED BY <1>5 DEF u

\* What one side wraps the other unwraps to the same number.
LEMMA RoundTripHolds ==
    ASSUME NEW z \in 0..Word - 1, NEW cp \in Nat, NEW a \in Nat,
           a < cp + HalfWord, cp <= a + HalfWord
    PROVE  unwrap(wrap(a, z), z, cp) = a
  <1> DEFINE raw == wrap(a, z)
             u == unwrap(raw, z, cp)
  <1>1. raw \in 0..Word - 1
    <2>1. z + a \in Int /\ raw = (z + a) % Word
      BY WrapValue, WordType
    <2> QED BY <2>1, ModBounds, WordType
  <1> HIDE DEF raw
  <1>2. u \in Nat /\ wrap(u, z) = wrap(a, z)
    BY <1>1, InverseHolds DEF raw
  <1>3. \/ -HalfWord <= u - cp /\ u - cp < HalfWord
        \/ HalfWord <= u - cp /\ u < Word
    BY <1>1, UnwrapNear
  <1> HIDE DEF u
  <1>4. PICK k \in Int : a = u + k * Word
    BY <1>2, WrapEqual
  <1>5. a = u \/ a >= u + Word \/ u >= a + Word
    BY <1>2, <1>4, WordsApart
  <1>6. u = a
    BY <1>2, <1>3, <1>5, WordType
  <1> QED BY <1>6 DEF u, raw

\* The inputs are of their types in every state.
LEMMA TypeInvariance == Spec => []TypeOK
  <1>1. Init => TypeOK
    BY DEF Init, TypeOK
  <1>2. TypeOK /\ [Next]_vars => TypeOK'
    BY DEF TypeOK, Next, Arrive, vars
  <1> QED BY <1>1, <1>2, PTL DEF Spec

\* Wrap32::unwrap is a right inverse of Wrap32::wrap for every word size,
\* zero point and checkpoint, and never underflows.
THEOREM InverseAlways == Spec => []UnwrapInverse
  <1>1. TypeOK => UnwrapInverse
    BY InverseHolds DEF TypeOK, UnwrapInverse, Position
  <1> QED BY <1>1, TypeInvariance, PTL

\* Wrap32::unwrap returns a position closest to the checkpoint.
THEOREM ClosestAlways == Spec => []UnwrapClosest
  <1>1. TypeOK => UnwrapClosest
    <2> SUFFICES ASSUME TypeOK, NEW a \in 0..MaxPosition + Word,
                        wrap(a, zero_point) = raw_value
                 PROVE  Distance(Position, checkpoint) <= Distance(a, checkpoint)
      BY DEF UnwrapClosest
    <2>1. a \in Nat
      BY WordType
    <2> QED BY <2>1, ClosestHolds DEF TypeOK, Position
  <1> QED BY <1>1, TypeInvariance, PTL

\* A segment or acknowledgment within half a word of the checkpoint is read
\* as the position it was sent for.
THEOREM RoundTripAlways == Spec => []RoundTrip
  <1>1. TypeOK => RoundTrip
    <2> SUFFICES ASSUME TypeOK, NEW a \in 0..MaxPosition + Word,
                        a < checkpoint + HalfWord, checkpoint <= a + HalfWord
                 PROVE  unwrap(wrap(a, zero_point), zero_point, checkpoint) = a
      BY DEF RoundTrip
    <2>1. a \in Nat
      BY WordType
    <2> QED BY <2>1, RoundTripHolds DEF TypeOK
  <1> QED BY <1>1, TypeInvariance, PTL
==============================================================================
