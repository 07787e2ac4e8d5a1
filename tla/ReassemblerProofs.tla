--------------------------- MODULE ReassemblerProofs ---------------------------
(***************************************************************************)
(* The Reassembler delivers its stream intact, keeps its window in order,  *)
(* closes the stream and implements ReassemblerSpec, for every stream,     *)
(* capacity and block size and every order of substrings that do not wrap  *)
(* around into the block of the bitmap they begin in.  A TCPReceiver in    *)
(* front of it inserts nothing else, acknowledges what the stream has and  *)
(* never takes back its window.  And a TCPSender at the other end makes a  *)
(* reliable byte stream of it all, if the network keeps the FIN in its     *)
(* place; what remains true if it does not is proved as well.              *)
(***************************************************************************)
EXTENDS TCPTransfer, InductionLemmas

------------------------------------------------------------------------------
(* Quotients and remainders. *)

\* Every number has a quotient and a remainder,
LEMMA Division ==
    ASSUME NEW n \in Nat \ {0}, NEW a \in Int
    PROVE  /\ a \div n \in Int /\ a % n \in 0..n - 1 /\ a = (a \div n) * n + (a % n)
           /\ a \in Nat => a \div n \in Nat
  <1>1. a \div n \in Int /\ a % n \in 0..n - 1 /\ a = (a \div n) * n + (a % n)
    OBVIOUS
  <1>2. ASSUME a \in Nat PROVE a \div n \in Nat
    BY <1>2
  <1> QED BY <1>1, <1>2

\* and only one of each.
LEMMA DivisionUnique ==
    ASSUME NEW n \in Nat \ {0}, NEW a \in Int, NEW q \in Int, NEW r \in 0..n - 1, a = q * n + r
    PROVE  a \div n = q /\ a % n = r
  <1>1. a % n = r
    OBVIOUS
  <1>2. a \div n = q
    OBVIOUS
  <1> QED BY <1>1, <1>2

\* Going on from a, the remainder grows until it falls back to zero.
LEMMA RemainderSteps ==
    ASSUME NEW n \in Nat \ {0}, NEW a \in Nat, NEW d \in 0..n
    PROVE  (a + d) % n = IF (a % n) + d < n THEN (a % n) + d ELSE (a % n) + d - n
  <1> DEFINE q == a \div n
             r == a % n
  <1>1. q \in Int /\ r \in 0..n - 1 /\ a = q * n + r
    BY Division
  <1> HIDE DEF q, r
  <1>2. ASSUME r + d < n PROVE (a + d) % n = r + d
    <2>1. a + d = q * n + (r + d) /\ r + d \in 0..n - 1 /\ a + d \in Int
      BY <1>1, <1>2
    <2>2. (a + d) % n = r + d
      BY <1>1, <2>1, DivisionUnique
    <2> QED BY <1>2, <2>2
  <1>3. ASSUME ~(r + d < n) PROVE (a + d) % n = r + d - n
    <2>1. a + d = (q + 1) * n + (r + d - n) /\ r + d - n \in 0..n - 1
      BY <1>1, <1>3
    <2>2. q + 1 \in Int /\ a + d \in Int
      BY <1>1
    <2>3. (a + d) % n = r + d - n
      BY <2>1, <2>2, DivisionUnique
    <2> QED BY <1>3, <2>3
  <1>4. (a + d) % n = IF r + d < n THEN r + d ELSE r + d - n
    BY <1>2, <1>3
  <1> QED BY <1>4 DEF r

\* The order of numbers is that of their blocks, and of their places in them.
LEMMA BlockOrder ==
    ASSUME NEW v \in Nat, NEW w \in Nat
    PROVE  v <= w <=> \/ v \div BlockSize < w \div BlockSize
                      \/ v \div BlockSize = w \div BlockSize /\ v % BlockSize <= w % BlockSize
  <1> DEFINE B == BlockSize
             p == v \div B
             q == w \div B
             r == v % B
             s == w % B
  <1>1. /\ p \in Nat /\ r \in 0..B - 1 /\ v = p * B + r
        /\ q \in Nat /\ s \in 0..B - 1 /\ w = q * B + s /\ B \in Nat \ {0}
    <2>1. B \in Nat \ {0}
      BY BlockSizeAssumption
    <2> HIDE DEF B
    <2>2. p \in Nat /\ r \in 0..B - 1 /\ v = p * B + r
      <3>1. v \in Int
        OBVIOUS
      <3> QED BY <2>1, <3>1, Division
    <2>3. q \in Nat /\ s \in 0..B - 1 /\ w = q * B + s
      <3>1. w \in Int
        OBVIOUS
      <3> QED BY <2>1, <3>1, Division
    <2> QED BY <2>1, <2>2, <2>3
  <1> HIDE DEF B, p, q, r, s
  <1>2. CASE p < q
    <2>1. (p + 1) * B <= q * B /\ (p + 1) * B = p * B + B
      BY <1>1, <1>2
    <2> QED BY <1>1, <1>2, <2>1 DEF p, q, r, s, B
  <1>3. CASE p = q
    BY <1>1, <1>3 DEF p, q, r, s, B
  <1>4. CASE q < p
    <2>1. (q + 1) * B <= p * B /\ (q + 1) * B = q * B + B
      BY <1>1, <1>4
    <2> QED BY <1>1, <1>4, <2>1 DEF p, q, r, s, B
  <1> QED BY <1>1, <1>2, <1>3, <1>4 DEF p, q, r, s, B

------------------------------------------------------------------------------
(* The bitmap. *)

Blocks(n) == (n + BlockSize - 1) \div BlockSize

BitmapOf(n) == [capacity : {n}, array_size : {Blocks(n)}, data : [0..Blocks(n) - 1 -> SUBSET Block]]

\* The indices whose bits are set, those behind the capacity included.
Bits(m) == {i \in 0..m.array_size * BlockSize - 1 : get(m, i)}

\* From start to end, around the end of the array if need be.
Ring(start, end) ==
    {i \in Nat : IF start <= end THEN start <= i /\ i <= end ELSE start <= i \/ i <= end}

\* Every index has its block and its place in it.
LEMMA Places ==
    ASSUME NEW n \in Nat
    PROVE  /\ Blocks(n) \in Nat /\ Blocks(n) * BlockSize \in Nat /\ n <= Blocks(n) * BlockSize
           /\ \A i \in 0..Blocks(n) * BlockSize - 1 :
                  i \div BlockSize \in 0..Blocks(n) - 1 /\ i % BlockSize \in Block
  <1> DEFINE B == BlockSize
             A == Blocks(n)
  <1>1. B \in Nat \ {0}
    BY BlockSizeAssumption
  <1>2. A \in Nat /\ n + B - 1 < A * B + B
    <2> DEFINE k == n + B - 1
    <2>1. k \in Nat
      BY <1>1
    <2>2. k \div B \in Nat /\ k % B \in 0..B - 1 /\ k = (k \div B) * B + (k % B)
      <3> HIDE DEF k, B
      <3>1. k \in Int
        BY <2>1
      <3> QED BY <1>1, <2>1, <3>1, Division
    <2>3. A = k \div B
      BY DEF Blocks
    <2> HIDE DEF k, B, A
    <2>4. k = A * B + (k % B) /\ A \in Nat
      BY <2>2, <2>3
    <2>5. k < A * B + B
      BY <1>1, <2>2, <2>4
    <2> QED BY <2>4, <2>5 DEF k
  <1> HIDE DEF A
  <1>3. A * B \in Nat
    BY <1>1, <1>2
  <1>4. n <= A * B
    BY <1>1, <1>2, <1>3
  <1>5. ASSUME NEW i \in 0..A * B - 1 PROVE i \div B \in 0..A - 1 /\ i % B \in 0..B - 1
    <2> DEFINE q == i \div B
               r == i % B
    <2>1. i \in Int /\ i \in Nat /\ i < A * B
      BY <1>3
    <2>2. q \in Nat /\ r \in 0..B - 1 /\ i = q * B + r
      <3> HIDE DEF B
      <3> QED BY <1>1, <2>1, Division
    <2> HIDE DEF q, r, B
    <2>3. q < A
      <3> SUFFICES ASSUME A <= q PROVE FALSE
        BY <1>2, <2>2
      <3>1. A * B <= q * B
        BY <1>1, <1>2, <2>2
      <3>2. q * B \in Nat
        BY <1>1, <2>2
      <3> QED BY <1>1, <1>3, <2>1, <2>2, <3>1, <3>2
    <2> QED BY <1>2, <2>2, <2>3 DEF q, r
  <1> QED BY <1>2, <1>3, <1>4, <1>5 DEF A, Block

\* A block has the places of its own indices only.
LEMMA InBlockAt ==
    ASSUME NEW I \in SUBSET Nat, NEW i \in Nat
    PROVE  i % BlockSize \in InBlock(I, i \div BlockSize) <=> i \in I
  <1>1. ASSUME NEW j \in I, j \div BlockSize = i \div BlockSize, j % BlockSize = i % BlockSize
        PROVE  j = i
    <2>1. j <= i /\ i <= j
      <3>1. j \in Nat /\ j % BlockSize \in Nat
        <4>1. j \in Int /\ BlockSize \in Nat \ {0}
          BY BlockSizeAssumption
        <4> QED BY <4>1, Division
      <3> QED BY <1>1, <3>1, BlockOrder
    <2> QED BY <2>1
  <1> QED BY <1>1 DEF InBlock

\* What set, unset and resize do to the bits.
LEMMA SetBits ==
    ASSUME NEW n \in Nat, NEW m \in BitmapOf(n), NEW I \in SUBSET (0..n - 1)
    PROVE  /\ set(m, I) \in BitmapOf(n) /\ Bits(set(m, I)) = Bits(m) \union I
           /\ unset(m, I) \in BitmapOf(n) /\ Bits(unset(m, I)) = Bits(m) \ I
  <1> DEFINE A == Blocks(n)
             s == set(m, I)
             u == unset(m, I)
  <1>1. /\ m.data \in [0..A - 1 -> SUBSET Block] /\ m.array_size = A /\ m.capacity = n
        /\ m = [capacity |-> n, array_size |-> A, data |-> m.data]
    BY DEF BitmapOf
  <1>2. \A b \in 0..A - 1 : InBlock(I, b) \in SUBSET Block
    <2>1. ASSUME NEW i \in I PROVE i % BlockSize \in Block
      <3>1. i \in Int /\ BlockSize \in Nat \ {0}
        BY BlockSizeAssumption
      <3> QED BY <3>1, Division DEF Block
    <2> QED BY <2>1 DEF InBlock
  <1>3. /\ s \in BitmapOf(n) /\ s.array_size = A
        /\ \A b \in 0..A - 1 : s.data[b] = m.data[b] \union InBlock(I, b)
    <2> HIDE DEF A
    <2> QED BY <1>1, <1>2 DEF set, BitmapOf, A
  <1>4. /\ u \in BitmapOf(n) /\ u.array_size = A
        /\ \A b \in 0..A - 1 : u.data[b] = m.data[b] \ InBlock(I, b)
    <2> HIDE DEF A
    <2> QED BY <1>1, <1>2 DEF unset, BitmapOf, A
  <1>5. A \in Nat /\ A * BlockSize \in Nat /\ n <= A * BlockSize
        /\ \A i \in 0..A * BlockSize - 1 : i \div BlockSize \in 0..A - 1
    BY Places
  <1> HIDE DEF A, s, u
  <1>6. \A i \in 0..A * BlockSize - 1 : i % BlockSize \in InBlock(I, i \div BlockSize) <=> i \in I
    BY InBlockAt
  <1>7. I \subseteq 0..A * BlockSize - 1
    BY <1>5
  <1>8. Bits(s) = Bits(m) \union I
    BY <1>1, <1>3, <1>5, <1>6, <1>7, Zenon DEF Bits, get
  <1>9. Bits(u) = Bits(m) \ I
    BY <1>1, <1>4, <1>5, <1>6, <1>7, ZenonT(60) DEF Bits, get
  <1> QED BY <1>3, <1>4, <1>8, <1>9 DEF s, u

\* A new bitmap has no bit set.
LEMMA NewBits ==
    ASSUME NEW n \in Nat
    PROVE  NewBitmap(n) \in BitmapOf(n) /\ Bits(NewBitmap(n)) = {}
  <1>1. NewBitmap(n) = [capacity |-> n, array_size |-> Blocks(n),
                        data |-> [b \in 0..Blocks(n) - 1 |-> {}]]
    BY DEF NewBitmap, Blocks
  <1>2. \A i \in 0..Blocks(n) * BlockSize - 1 : i \div BlockSize \in 0..Blocks(n) - 1
    BY Places
  <1> QED BY <1>1, <1>2 DEF BitmapOf, Bits, get

\* The blocks strictly between two others.
LEMMA BetweenMembers ==
    ASSUME NEW A \in Nat \ {0}, NEW p \in 0..A - 1, NEW q \in 0..A - 1, p # q, NEW b \in 0..A - 1
    PROVE  b \in Between(A, p, q) <=> IF p < q THEN p < b /\ b < q ELSE p < b \/ b < q
  <1> DEFINE c == (q - p - 1) % A
  <1>1. c = IF p < q THEN q - p - 1 ELSE q - p - 1 + A
    <2>1. ASSUME p < q PROVE c = q - p - 1
      <3>1. q - p - 1 \in 0..A - 1 /\ q - p - 1 \in Int /\ q - p - 1 = 0 * A + (q - p - 1)
        BY <2>1
      <3> QED BY <3>1, DivisionUnique
    <2>2. ASSUME ~(p < q) PROVE c = q - p - 1 + A
      <3>1. /\ q - p - 1 + A \in 0..A - 1 /\ q - p - 1 \in Int /\ -1 \in Int
            /\ q - p - 1 = (-1) * A + (q - p - 1 + A)
        BY <2>2
      <3> QED BY <3>1, DivisionUnique
    <2> QED BY <2>1, <2>2
  <1>2. ASSUME NEW k \in 0..A PROVE (p + k) % A = IF p + k < A THEN p + k ELSE p + k - A
    <2>1. p % A = p /\ p \in Nat
      <3>1. p \in Int /\ p = 0 * A + p
        OBVIOUS
      <3> QED BY <3>1, DivisionUnique
    <2> QED BY <2>1, RemainderSteps
  <1> HIDE DEF c
  <1>3. c \in 0..A - 1
    BY <1>1
  <1>4. ASSUME NEW k \in 1..c, b = (p + k) % A
        PROVE  IF p < q THEN p < b /\ b < q ELSE p < b \/ b < q
    <2>1. b = IF p + k < A THEN p + k ELSE p + k - A
      BY <1>2, <1>3, <1>4
    <2> QED BY <1>1, <1>3, <2>1
  <1>5. ASSUME IF p < q THEN p < b /\ b < q ELSE p < b \/ b < q
        PROVE  \E k \in 1..c : b = (p + k) % A
    <2> DEFINE k == IF p < b THEN b - p ELSE b - p + A
    <2>1. k \in 1..c /\ k \in 0..A /\ b = IF p + k < A THEN p + k ELSE p + k - A
      BY <1>1, <1>3, <1>5
    <2> HIDE DEF k
    <2> QED BY <1>2, <2>1
  <1>6. Between(A, p, q) = {(p + k) % A : k \in 1..c}
    BY DEF Between, c
  <1> QED BY <1>4, <1>5, <1>6

\* A range that does not come back to the block it begins in is what the masks
\* of getPopCountAndUnsetBatch cover.
LEMMA BatchIsRing ==
    ASSUME NEW n \in Nat \ {0}, NEW m \in BitmapOf(n), NEW s \in 0..n - 1, NEW e \in 0..n - 1,
           s > e => s \div BlockSize # e \div BlockSize,
           NEW i \in 0..Blocks(n) * BlockSize - 1
    PROVE  i % BlockSize \in BatchMask(m, s, e)[i \div BlockSize] <=> i \in Ring(s, e)
  <1> DEFINE B == BlockSize
             A == Blocks(n)
             p == s \div B
             q == e \div B
             b == i \div B
             x == s % B
             y == e % B
             r == i % B
  <1>1. /\ A \in Nat \ {0} /\ p \in 0..A - 1 /\ q \in 0..A - 1 /\ b \in 0..A - 1
        /\ x \in Block /\ y \in Block /\ r \in Block
    <2>1. s \in 0..A * B - 1 /\ e \in 0..A * B - 1
      BY Places
    <2> QED BY <2>1, Places
  <1>2. /\ s <= i <=> p < b \/ (p = b /\ x <= r)
        /\ i <= e <=> b < q \/ (b = q /\ r <= y)
        /\ s <= e <=> p < q \/ (p = q /\ x <= y)
    <2>1. s \in Nat /\ e \in Nat /\ i \in Nat
      BY Places
    <2> QED BY <2>1, BlockOrder
  <1>3. BatchMask(m, s, e) = [c \in 0..A - 1 |->
                               IF c = p /\ c = q THEN (x..B - 1) \intersect (0..y)
                               ELSE IF p = q THEN {}
                               ELSE IF c = p THEN x..B - 1
                               ELSE IF c = q THEN 0..y
                               ELSE IF c \in Between(A, p, q) THEN Block ELSE {}]
    BY DEF BatchMask, BitmapOf
  <1>4. p # q => (b \in Between(A, p, q) <=> IF p < q THEN p < b /\ b < q ELSE p < b \/ b < q)
    <2> HIDE DEF A, p, q, b
    <2> QED BY <1>1, BetweenMembers
  <1>5. i \in Ring(s, e) <=> IF s <= e THEN s <= i /\ i <= e ELSE s <= i \/ i <= e
    BY <1>1 DEF Ring
  <1>6. i \in Nat /\ s \in Nat /\ e \in Nat /\ (~(s <= e) => p # q)
    BY Places
  <1>7. B \in Nat \ {0}
    BY BlockSizeAssumption
  <1> HIDE DEF A, B, p, q, b, x, y, r
  <1>8. r \in BatchMask(m, s, e)[b] <=>
            IF b = p /\ b = q THEN x <= r /\ r <= y
            ELSE IF p = q THEN FALSE
            ELSE IF b = p THEN x <= r
            ELSE IF b = q THEN r <= y
            ELSE b \in Between(A, p, q)
    <2>1. r \in Int /\ x \in Int /\ y \in Int /\ r >= 0 /\ r <= B - 1 /\ x >= 0
      BY <1>1, <1>7 DEF Block, B
    <2> QED BY <1>1, <1>3, <2>1, <1>7
  <1>9. /\ p \in Int /\ q \in Int /\ b \in Int /\ x \in Int /\ y \in Int /\ r \in Int
    BY <1>1, <1>7 DEF Block, B
  <1>10. r \in BatchMask(m, s, e)[b] <=> i \in Ring(s, e)
    <2>1. CASE p = q
      BY <1>2, <1>5, <1>6, <1>8, <1>9, <2>1
    <2>2. CASE p < q
      BY <1>2, <1>4, <1>5, <1>6, <1>8, <1>9, <2>2
    <2>3. CASE q < p
      BY <1>2, <1>4, <1>5, <1>6, <1>8, <1>9, <2>3
    <2> QED BY <1>9, <2>1, <2>2, <2>3
  <1> QED BY <1>10 DEF b, r, B

\* What getPopCountAndUnsetBatch counts and clears.
LEMMA BatchBits ==
    ASSUME NEW n \in Nat \ {0}, NEW m \in BitmapOf(n), NEW s \in 0..n - 1, NEW e \in 0..n - 1,
           s > e => s \div BlockSize # e \div BlockSize
    PROVE  /\ UnsetBatch(m, s, e) \in BitmapOf(n)
           /\ Bits(UnsetBatch(m, s, e)) = Bits(m) \ Ring(s, e)
           /\ getPopCount(m, s, e) = Cardinality(Bits(m) \intersect Ring(s, e))
  <1> DEFINE A == Blocks(n)
             mask == BatchMask(m, s, e)
             u == UnsetBatch(m, s, e)
  <1>1. /\ m.data \in [0..A - 1 -> SUBSET Block] /\ m.array_size = A /\ m.capacity = n
        /\ m = [capacity |-> n, array_size |-> A, data |-> m.data]
    BY DEF BitmapOf
  <1>2. \A i \in 0..A * BlockSize - 1 : i % BlockSize \in mask[i \div BlockSize] <=> i \in Ring(s, e)
    BY BatchIsRing
  <1>3. \A i \in 0..A * BlockSize - 1 : i \div BlockSize \in 0..A - 1
    BY Places
  <1> HIDE DEF mask, A
  <1>4. /\ u \in BitmapOf(n) /\ u.array_size = A
        /\ \A b \in 0..A - 1 : u.data[b] = m.data[b] \ mask[b]
    BY <1>1 DEF UnsetBatch, UnsetMask, BitmapOf, A, mask
  <1> HIDE DEF u
  <1>5. Bits(u) = Bits(m) \ Ring(s, e)
    BY <1>1, <1>2, <1>3, <1>4, Zenon DEF Bits, get
  <1>6. getPopCount(m, s, e) = Cardinality({i \in 0..A * BlockSize - 1 :
                                              get(m, i) /\ i % BlockSize \in mask[i \div BlockSize]})
    BY <1>1 DEF getPopCount, PopCount, mask
  <1>7. {i \in 0..A * BlockSize - 1 : get(m, i) /\ i % BlockSize \in mask[i \div BlockSize]}
          = Bits(m) \intersect Ring(s, e)
    BY <1>1, <1>2, Zenon DEF Bits
  <1> QED BY <1>4, <1>5, <1>6, <1>7 DEF u

------------------------------------------------------------------------------
(* The window: n slots, used by the indices fu..fu + n - 1. *)

Slots(I, n) == {i % n : i \in I}

\* The slot of an index of the window.
LEMMA SlotOf ==
    ASSUME NEW n \in Nat \ {0}, NEW fu \in Nat, NEW i \in fu..fu + n - 1
    PROVE  i % n = IF (fu % n) + (i - fu) < n THEN (fu % n) + (i - fu) ELSE (fu % n) + (i - fu) - n
  <1> DEFINE d == i - fu
  <1>1. d \in 0..n /\ fu + d = i
    OBVIOUS
  <1>2. (fu + d) % n = IF (fu % n) + d < n THEN (fu % n) + d ELSE (fu % n) + d - n
    <2> HIDE DEF d
    <2> QED BY <1>1, RemainderSteps
  <1> QED BY <1>1, <1>2

\* No two indices of the window share a slot.
LEMMA SlotsDiffer ==
    ASSUME NEW n \in Nat \ {0}, NEW fu \in Nat,
           NEW i \in fu..fu + n - 1, NEW j \in fu..fu + n - 1, i % n = j % n
    PROVE  i = j
  <1>1. fu % n \in 0..n - 1
    OBVIOUS
  <1>2. /\ i % n = IF (fu % n) + (i - fu) < n THEN (fu % n) + (i - fu) ELSE (fu % n) + (i - fu) - n
        /\ j % n = IF (fu % n) + (j - fu) < n THEN (fu % n) + (j - fu) ELSE (fu % n) + (j - fu) - n
    BY SlotOf
  <1> DEFINE s == fu % n
             x == i % n
  <1>3. j % n = x
    OBVIOUS
  <1> HIDE DEF s, x
  <1> QED BY <1>1, <1>2, <1>3 DEF s, x

\* So there are as many slots as indices.
LEMMA SlotCount ==
    ASSUME NEW n \in Nat \ {0}, NEW fu \in Nat, NEW I \in SUBSET (fu..fu + n - 1)
    PROVE  Cardinality(Slots(I, n)) = Cardinality(I)
  <1> DEFINE f == [i \in I |-> i % n]
             S == Slots(I, n)
  <1>1. f \in Bijection(I, S)
    <2>1. f \in [I -> S]
      BY DEF Slots
    <2>2. ASSUME NEW i \in I, NEW j \in I, f[i] = f[j] PROVE i = j
      BY <2>2, SlotsDiffer
    <2>3. \A w \in S : \E i \in I : f[i] = w
      BY DEF Slots
    <2> HIDE DEF f, S
    <2> QED BY <2>1, <2>2, <2>3 DEF Bijection, Injection, Surjection, IsInjective
  <1>2. IsFiniteSet(I)
    <2>1. fu \in Int /\ fu + n - 1 \in Int
      OBVIOUS
    <2>2. IsFiniteSet(fu..fu + n - 1)
      BY <2>1, FS_Interval
    <2> QED BY <2>2, FS_Subset
  <1>3. ExistsBijection(I, S)
    BY <1>1 DEF ExistsBijection
  <1> HIDE DEF S, f
  <1>4. Cardinality(S) = Cardinality(I)
    BY <1>2, <1>3, FS_Bijection
  <1> QED BY <1>4 DEF S

\* Every slot belongs to an index of the window.
LEMMA SlotUsed ==
    ASSUME NEW n \in Nat \ {0}, NEW fu \in Nat, NEW w \in 0..n - 1
    PROVE  \E i \in fu..fu + n - 1 : i % n = w
  <1> DEFINE s == fu % n
             i == IF w >= s THEN fu + (w - s) ELSE fu + (w - s) + n
  <1>1. s \in 0..n - 1
    OBVIOUS
  <1>2. i \in fu..fu + n - 1
    <2> HIDE DEF s
    <2> QED BY <1>1
  <1>3. i % n = IF s + (i - fu) < n THEN s + (i - fu) ELSE s + (i - fu) - n
    <2> HIDE DEF i
    <2> QED BY <1>2, SlotOf DEF s
  <1>4. i % n = w
    <2> HIDE DEF s
    <2>1. i = IF w >= s THEN fu + (w - s) ELSE fu + (w - s) + n
      OBVIOUS
    <2> HIDE DEF i
    <2> QED BY <1>1, <1>3, <2>1
  <1> HIDE DEF i
  <1> QED BY <1>2, <1>4

\* The slots from that of fu to that of the byte before tail are those of the
\* indices in front of tail,
LEMMA ClearedSlots ==
    ASSUME NEW n \in Nat \ {0}, NEW fu \in Nat, NEW L \in 1..n, NEW i \in fu..fu + n - 1
    PROVE  /\ (fu + L + n - 1) % n \in 0..n - 1 /\ fu % n \in 0..n - 1
           /\ i % n \in Ring(fu % n, (fu + L + n - 1) % n) <=> i < fu + L
  <1> DEFINE s == fu % n
             e == (fu + L + n - 1) % n
             w == i % n
  <1>1. s \in 0..n - 1
    OBVIOUS
  <1>2. e = (fu + L - 1) % n
    <2>1. fu + L - 1 \in Nat /\ n \in 0..n /\ (fu + L - 1) + n = fu + L + n - 1
      OBVIOUS
    <2> DEFINE a == fu + L - 1
    <2>2. (a + n) % n = IF (a % n) + n < n THEN (a % n) + n ELSE (a % n) + n - n
      <3> HIDE DEF a
      <3> QED BY <2>1, RemainderSteps DEF a
    <2>3. a % n \in 0..n - 1
      BY <2>1
    <2> HIDE DEF a
    <2>4. (a + n) % n = a % n
      BY <2>2, <2>3
    <2> QED BY <2>1, <2>4 DEF a
  <1>3. (fu + L - 1) % n = IF s + (L - 1) < n THEN s + (L - 1) ELSE s + (L - 1) - n
    <2> DEFINE j == fu + L - 1
    <2>1. j \in fu..fu + n - 1 /\ j - fu = L - 1
      OBVIOUS
    <2>2. j % n = IF s + (j - fu) < n THEN s + (j - fu) ELSE s + (j - fu) - n
      <3> HIDE DEF j
      <3> QED BY <2>1, SlotOf
    <2> HIDE DEF s
    <2> QED BY <2>1, <2>2
  <1>4. w = IF s + (i - fu) < n THEN s + (i - fu) ELSE s + (i - fu) - n
    BY SlotOf
  <1> HIDE DEF s, e, w
  <1>5. e = IF s + (L - 1) < n THEN s + (L - 1) ELSE s + (L - 1) - n
    BY <1>2, <1>3
  <1>6. e \in 0..n - 1 /\ w \in 0..n - 1
    BY <1>1, <1>4, <1>5
  <1>7. w \in Ring(s, e) <=> i < fu + L
    <2>1. w \in Ring(s, e) <=> IF s <= e THEN s <= w /\ w <= e ELSE s <= w \/ w <= e
      BY <1>6 DEF Ring
    <2>2. CASE s + (L - 1) < n
      <3>1. e = s + (L - 1)
        BY <1>5, <2>2
      <3> QED BY <1>1, <1>4, <2>1, <2>2, <3>1
    <2>3. CASE ~(s + (L - 1) < n)
      <3>1. e = s + (L - 1) - n
        BY <1>5, <2>3
      <3> QED BY <1>1, <1>4, <2>1, <2>3, <3>1
    <2> QED BY <2>2, <2>3
  <1> QED BY <1>1, <1>6, <1>7 DEF s, e, w

\* and short data never leads back to the block of fu.
LEMMA NoWrapIntoBlock ==
    ASSUME NEW n \in Nat \ {0}, NEW fu \in Nat, NEW L \in 1..n, L + BlockSize <= n + 1,
           fu % n > (fu + L + n - 1) % n
    PROVE  (fu % n) \div BlockSize # ((fu + L + n - 1) % n) \div BlockSize
  <1> DEFINE s == fu % n
             e == (fu + L + n - 1) % n
             B == BlockSize
  <1>0. B \in Nat \ {0}
    BY BlockSizeAssumption
  <1>1. s \in 0..n - 1 /\ e \in 0..n - 1 /\ s > e
    <2>1. fu \in fu..fu + n - 1
      OBVIOUS
    <2> QED BY <2>1, ClearedSlots
  <1>2. e = s + (L - 1) \/ e = s + (L - 1) - n
    <2> DEFINE j == fu + L - 1
    <2>1. j \in fu..fu + n - 1 /\ j - fu = L - 1 /\ j \in Nat
      OBVIOUS
    <2>2. j % n = s + (j - fu) \/ j % n = s + (j - fu) - n
      <3> HIDE DEF j
      <3> QED BY <2>1, SlotOf
    <2>3. j % n \in 0..n - 1
      BY <2>1
    <2>4. (j + n) % n = j % n
      <3>1. n \in 0..n
        OBVIOUS
      <3>2. (j + n) % n = IF (j % n) + n < n THEN (j % n) + n ELSE (j % n) + n - n
        <4> HIDE DEF j
        <4> QED BY <2>1, <3>1, RemainderSteps
      <3> HIDE DEF j
      <3> QED BY <2>3, <3>2
    <2>5. e = (j + n) % n
      BY <2>1
    <2> HIDE DEF s, e
    <2> QED BY <2>1, <2>2, <2>4, <2>5
  <1> HIDE DEF s, e, B
  <1>3. s - e >= B
    BY <1>0, <1>1, <1>2 DEF B
  <1>4. ASSUME s \div B = e \div B PROVE FALSE
    <2> DEFINE p == s \div B
    <2>1. s \in Int /\ e \in Int
      BY <1>1
    <2>2. s % B \in 0..B - 1 /\ e % B \in 0..B - 1 /\ s = p * B + (s % B) /\ e = p * B + (e % B) /\ p \in Int
      BY <1>0, <1>4, <2>1, Division
    <2> HIDE DEF p
    <2>3. p * B \in Int
      BY <1>0, <2>2
    <2> QED BY <1>0, <1>3, <2>2, <2>3
  <1> QED BY <1>4 DEF s, e, B

------------------------------------------------------------------------------
(* What a Reassembler of full size and its stream have between two inserts. *)

Indices == 0..StreamLen - 1

Reassemblers(n) ==
    [first_unassembled : 0..StreamLen, bytes_pending : Nat, reach_end : BOOLEAN,
     buffer_size : {n}, sliding_window : [0..n - 1 -> Indices \union {NoByte}],
     bitmap : BitmapOf(n)]

Streams ==
    [capacity : {Capacity}, queue : Seq(Indices), closed : BOOLEAN, error : BOOLEAN,
     bytes_pushed : Nat, bytes_popped : Nat]

\* The stream o has the bytes in front of fu, the first ones of them popped.
Delivers(o, fu) ==
    /\ o \in Streams
    /\ o.bytes_pushed = fu
    /\ o.bytes_popped + Len(o.queue) = fu
    /\ Len(o.queue) <= Capacity
    /\ \A i \in 1..Len(o.queue) : o.queue[i] = o.bytes_popped + i - 1

\* The window of r has the bytes H, all of them ahead of the next byte, in
\* front of the end of the stream and of what the stream has room for.
Holds(r, H, popped) ==
    /\ Capacity # 0
    /\ r \in Reassemblers(Capacity)
    /\ H \subseteq Indices
    /\ \A i \in H : r.first_unassembled < i /\ i < popped + Capacity
    /\ Bits(r.bitmap) = Slots(H, Capacity)
    /\ r.bytes_pending = Cardinality(H)
    /\ \A i \in H : r.sliding_window[i % Capacity] = i

\* A substring arrives, and tail is the end of what there is room for.
Arrives(first, len, tail, popped) ==
    /\ first \in 0..StreamLen /\ len \in 0..MaxSegment /\ first + len <= StreamLen
    /\ tail = Smaller(first + len, popped + Capacity)

\* The bit of an index of the window is set if the index is held.
LEMMA GetSlot ==
    ASSUME NEW n \in Nat \ {0}, NEW m \in BitmapOf(n), NEW fu \in Nat,
           NEW I \in SUBSET (fu..fu + n - 1), Bits(m) = Slots(I, n), NEW i \in fu..fu + n - 1
    PROVE  get(m, i % n) <=> i \in I
  <1>1. i % n \in 0..n - 1
    BY SlotOf
  <1>2. i % n \in 0..m.array_size * BlockSize - 1
    <2>1. n <= Blocks(n) * BlockSize /\ Blocks(n) * BlockSize \in Nat /\ m.array_size = Blocks(n)
      BY Places DEF BitmapOf
    <2> DEFINE w == i % n
    <2>2. w \in 0..n - 1
      BY <1>1
    <2> HIDE DEF w
    <2>3. w \in 0..m.array_size * BlockSize - 1
      BY <2>1, <2>2
    <2> QED BY <2>3 DEF w
  <1>3. get(m, i % n) <=> i % n \in Slots(I, n)
    BY <1>2 DEF Bits
  <1>4. i % n \in Slots(I, n) <=> i \in I
    <2>1. ASSUME NEW j \in I, i % n = j % n PROVE j = i
      BY <2>1, SlotsDiffer
    <2> QED BY <2>1 DEF Slots
  <1> QED BY <1>3, <1>4

InWindow(I, fu, n) == I \in SUBSET (fu..fu + n - 1)

\* Slots of what is left of a part of the window, and of two parts.
LEMMA SlotsMinus ==
    ASSUME NEW n \in Nat \ {0}, NEW fu \in Nat, NEW I, InWindow(I, fu, n), NEW J, InWindow(J, fu, n)
    PROVE  Slots(I, n) \ Slots(J, n) = Slots(I \ J, n)
  <1>1. I \in SUBSET (fu..fu + n - 1) /\ J \in SUBSET (fu..fu + n - 1)
    BY DEF InWindow
  <1>2. \A i \in I, j \in J : i % n = j % n => i = j
    BY <1>1, SlotsDiffer
  <1> QED BY <1>2 DEF Slots

\* Two sets of indices use the slots of both.
LEMMA SlotsUnion ==
    ASSUME NEW n, NEW I, NEW J
    PROVE  Slots(I, n) \union Slots(J, n) = Slots(I \union J, n)
  BY DEF Slots

\* Slots are numbered from 0.
LEMMA SlotsRange ==
    ASSUME NEW n \in Nat \ {0}, NEW I \in SUBSET Nat
    PROVE  Slots(I, n) \in SUBSET (0..n - 1)
  BY DEF Slots

\* Line 24 gives the end of what there is room for: an index of the stream
\* never wraps.
LEMMA TailOf ==
    ASSUME NEW r, NEW o, Delivers(o, r.first_unassembled),
           NEW first \in 0..StreamLen, NEW len \in 0..MaxSegment, first + len <= StreamLen
    PROVE  Arrives(first, len, DataTail(r, o, first, Substring(first, len)), o.bytes_popped)
  <1> DEFINE q == Len(o.queue)
  <1>1. /\ StreamLen \in Nat /\ MaxSegment \in Nat /\ Wide \in Nat /\ StreamLen < Wide /\ Capacity \in Nat
    BY StreamAssumption
  <1>2. (first + len) % Wide = first + len
    <2> DEFINE x == first + len
    <2>1. x \in 0..Wide - 1 /\ x \in Int /\ 0 \in Int /\ x = 0 * Wide + x /\ Wide \in Nat \ {0}
      BY <1>1
    <2> HIDE DEF x
    <2>2. x % Wide = x
      BY <2>1, DivisionUnique
    <2> QED BY <2>2 DEF x
  <1>3. Len(Substring(first, len)) = len
    BY <1>1 DEF Substring
  <1>4. /\ r.first_unassembled = o.bytes_popped + q /\ q \in Nat /\ o.bytes_popped \in Nat
        /\ available_capacity(o) = Capacity - q
    BY DEF Delivers, Streams, available_capacity, bytes_buffered
  <1>5. r.first_unassembled + available_capacity(o) = o.bytes_popped + Capacity
    BY <1>1, <1>4
  <1> QED BY <1>2, <1>3, <1>5 DEF Arrives, DataTail

\* d has the bytes of the stream from fu on.
NextBytes(d, fu) == d \in Seq(Int) /\ \A j \in 1..Len(d) : d[j] = fu + j - 1 /\ d[j] < StreamLen

\* Pushing the next bytes of the stream, as many as there are or fit.
LEMMA PushNext ==
    ASSUME NEW o, NEW fu \in Nat, Delivers(o, fu), NEW d, NextBytes(d, fu),
           NEW k, k = Smaller(Len(d), o.bytes_popped + Capacity - fu)
    PROVE  /\ Delivers(push(o, d), fu + k)
           /\ push(o, d).closed = o.closed /\ push(o, d).bytes_popped = o.bytes_popped
  <1> DEFINE q == o.queue
             popped == o.bytes_popped
             new == SubSeq(d, 1, k)
             p == push(o, d)
  <1>1. /\ q \in Seq(Indices) /\ popped \in Nat /\ popped + Len(q) = fu
        /\ Len(q) <= Capacity /\ o.capacity = Capacity /\ Len(q) \in Nat /\ o.bytes_pushed = fu
        /\ \A i \in 1..Len(q) : q[i] = popped + i - 1
        /\ Capacity \in Nat /\ StreamLen \in Nat
    BY StreamAssumption DEF Delivers, Streams
  <1>2. d \in Seq(Int) /\ Len(d) \in Nat /\ \A j \in 1..Len(d) : d[j] = fu + j - 1 /\ d[j] < StreamLen
    BY DEF NextBytes
  <1>3. k = Smaller(Len(d), popped + Capacity - fu)
    OBVIOUS
  <1> HIDE DEF popped, q
  <1>4. k \in Nat /\ k <= Len(d) /\ Len(q) + k <= Capacity
    BY <1>1, <1>2, <1>3, SMTT(60) DEF Smaller
  <1>5. k = Smaller(Len(d), available_capacity(o))
    <2>0. popped \in Nat /\ popped + Len(q) = fu /\ o.capacity = Capacity /\ Len(q) \in Nat /\ Capacity \in Nat
      BY <1>1
    <2>1. available_capacity(o) = popped + Capacity - fu
      <3>1. available_capacity(o) = Capacity - Len(q)
        BY <2>0 DEF available_capacity, bytes_buffered, q
      <3>2. Capacity - Len(q) = popped + Capacity - fu
        BY <2>0
      <3> QED BY <3>1, <3>2
    <2> QED BY <1>3, <2>1
  <1>6. p = [o EXCEPT !.queue = q \o new, !.bytes_pushed = fu + k]
    BY <1>1, <1>5 DEF push, q
  <1>7. new \in Seq(Indices) /\ Len(new) = k /\ \A j \in 1..k : new[j] = fu + j - 1
    <2>1. ASSUME NEW j \in 1..k PROVE d[j] \in Indices /\ d[j] = fu + j - 1
      <3>1. j \in 1..Len(d)
        BY <1>2, <1>4
      <3>2. d[j] = fu + j - 1 /\ d[j] < StreamLen
        BY <1>2, <3>1
      <3> QED BY <1>1, <3>2 DEF Indices
    <2>2. Len(new) = k /\ \A j \in 1..k : new[j] = d[j]
      BY <1>2, <1>4
    <2>3. new \in Seq(Int)
      BY <1>2, <1>4
    <2>4. new \in Seq(Indices)
      BY <2>1, <2>2, <2>3
    <2> QED BY <2>1, <2>2, <2>4
  <1> HIDE DEF new, p
  <1>8. /\ q \o new \in Seq(Indices) /\ Len(q \o new) = Len(q) + k
        /\ \A i \in 1..Len(q) + k : (q \o new)[i] = popped + i - 1
    <2>0. q \in Seq(Indices) /\ new \in Seq(Indices) /\ Len(q) \in Nat /\ k \in Nat /\ Len(new) = k
      BY <1>1, <1>4, <1>7
    <2>1. q \o new \in Seq(Indices) /\ Len(q \o new) = Len(q) + k
      BY <2>0
    <2>2. ASSUME NEW i \in 1..Len(q) + k PROVE (q \o new)[i] = popped + i - 1
      <3>1. (q \o new)[i] = IF i <= Len(q) THEN q[i] ELSE new[i - Len(q)]
        BY <2>0
      <3>2. CASE i <= Len(q)
        BY <1>1, <1>4, <3>1, <3>2
      <3>3. CASE ~(i <= Len(q))
        <4>1. i - Len(q) \in 1..k
          BY <2>0, <3>3
        <4>2. new[i - Len(q)] = fu + (i - Len(q)) - 1
          BY <1>7, <4>1
        <4>3. popped \in Nat /\ popped + Len(q) = fu
          BY <1>1
        <4> QED BY <2>0, <3>1, <3>3, <4>2, <4>3, SMTT(60)
      <3> QED BY <3>2, <3>3
    <2> QED BY <2>1, <2>2
  <1>9. /\ p \in Streams /\ p.queue = q \o new /\ p.bytes_pushed = fu + k
        /\ p.bytes_popped = popped /\ p.closed = o.closed
    <2>1. o \in Streams
      BY DEF Delivers
    <2>2. fu + k \in Nat
      BY <1>4
    <2> QED BY <1>6, <1>8, <2>1, <2>2 DEF Streams, popped
  <1>10. Delivers(p, fu + k)
    <2>1. popped + (Len(q) + k) = fu + k
      BY <1>1, <1>4
    <2> QED BY <1>4, <1>8, <1>9, <2>1 DEF Delivers
  <1> QED BY <1>9, <1>10 DEF p, popped

------------------------------------------------------------------------------
(* Insert. *)

\* The numbers of I from a on, and those in front of it.
From(I, a) == {i \in I : a <= i}
Before(I, a) == {i \in I : i < a}

\* The parts of Holds.
LEMMA HoldsParts ==
    ASSUME NEW r, NEW H, NEW popped \in Nat, Holds(r, H, popped), popped <= r.first_unassembled
    PROVE  /\ Capacity \in Nat \ {0} /\ r.first_unassembled \in Nat /\ r.buffer_size = Capacity
           /\ r.bitmap \in BitmapOf(Capacity) /\ r.bytes_pending \in Nat
           /\ H \in SUBSET (r.first_unassembled..r.first_unassembled + Capacity - 1)
           /\ IsFiniteSet(H) /\ Cardinality(H) \in Nat
  <1> DEFINE fu == r.first_unassembled
  <1>1. Capacity \in Nat \ {0} /\ StreamLen \in Nat
    BY StreamAssumption DEF Holds
  <1>2. fu \in Nat /\ r.buffer_size = Capacity /\ r.bitmap \in BitmapOf(Capacity) /\ r.bytes_pending \in Nat
    BY <1>1 DEF Holds, Reassemblers
  <1>3. H \subseteq Indices /\ \A i \in H : fu < i /\ i < popped + Capacity
    BY DEF Holds
  <1>4. popped <= fu
    OBVIOUS
  <1> HIDE DEF fu
  <1>5. ASSUME NEW i \in H PROVE i \in fu..fu + Capacity - 1
    <2>1. i \in Int /\ fu < i /\ i < popped + Capacity
      BY <1>1, <1>3 DEF Indices
    <2> QED BY <1>1, <1>2, <1>4, <2>1
  <1>6. IsFiniteSet(H)
    <2>1. 0 \in Int /\ StreamLen - 1 \in Int
      BY <1>1
    <2>2. IsFiniteSet(Indices)
      BY <2>1, FS_Interval DEF Indices
    <2> QED BY <1>3, <2>2, FS_Subset
  <1>7. Cardinality(H) \in Nat
    BY <1>6, FS_CardinalityType
  <1> QED BY <1>1, <1>2, <1>5, <1>6, <1>7 DEF fu

\* Line 46 forgets the bytes in front of tail and counts them.
LEMMA Cleared ==
    ASSUME NEW r, NEW H, NEW popped \in Nat, Holds(r, H, popped), popped <= r.first_unassembled,
           NEW tail \in Nat, r.first_unassembled < tail,
           tail + BlockSize <= r.first_unassembled + Capacity + 1
    PROVE  /\ ClearRange(r, tail) \in BitmapOf(Capacity)
           /\ Bits(ClearRange(r, tail)) = Slots(From(H, tail), Capacity)
           /\ ClearedCount(r, tail) = Cardinality(Before(H, tail))
  <1> DEFINE n == Capacity
             fu == r.first_unassembled
             m == r.bitmap
             L == tail - fu
             s == fu % n
             e == (tail + n - 1) % n
  <1>1. /\ n \in Nat \ {0} /\ fu \in Nat /\ r.buffer_size = n /\ m \in BitmapOf(n)
        /\ H \in SUBSET (fu..fu + n - 1)
    BY HoldsParts
  <1>2. Bits(m) = Slots(H, n)
    BY DEF Holds
  <1>3. BlockSize \in Nat \ {0}
    BY BlockSizeAssumption
  <1>4. fu < tail /\ tail + BlockSize <= fu + n + 1
    OBVIOUS
  <1>5. ClearRange(r, tail) = UnsetBatch(m, s, e) /\ ClearedCount(r, tail) = getPopCount(m, s, e)
    BY <1>1 DEF ClearRange, ClearedCount
  <1> HIDE DEF fu, n, m
  <1>6. L \in 1..n /\ L + BlockSize <= n + 1 /\ fu + L = tail
    BY <1>1, <1>3, <1>4
  <1>7. \A i \in fu..fu + n - 1 : i % n \in Ring(s, e) <=> i < tail
    BY <1>1, <1>6, ClearedSlots, ZenonT(60)
  <1>8. s \in 0..n - 1 /\ e \in 0..n - 1
    <2>1. fu \in fu..fu + n - 1
      BY <1>1
    <2> HIDE DEF L
    <2>2. fu % n \in 0..n - 1 /\ (fu + L + n - 1) % n \in 0..n - 1
      BY <1>1, <1>6, <2>1, ClearedSlots
    <2> QED BY <1>6, <2>2
  <1>9. s > e => s \div BlockSize # e \div BlockSize
    <2> HIDE DEF L
    <2> QED BY <1>1, <1>6, NoWrapIntoBlock
  <1> HIDE DEF s, e
  <1>10. /\ UnsetBatch(m, s, e) \in BitmapOf(n)
         /\ Bits(UnsetBatch(m, s, e)) = Bits(m) \ Ring(s, e)
         /\ getPopCount(m, s, e) = Cardinality(Bits(m) \intersect Ring(s, e))
    BY <1>1, <1>8, <1>9, BatchBits
  <1>11. \A i \in H : i % n \in Ring(s, e) <=> i < tail
    BY <1>1, <1>7
  <1>12. \A i \in H : i \in Int /\ tail \in Int
    BY <1>1
  <1>13. Bits(m) \ Ring(s, e) = Slots(From(H, tail), n)
    BY <1>2, <1>11, <1>12 DEF Slots, From
  <1>14. Bits(m) \intersect Ring(s, e) = Slots(Before(H, tail), n)
    BY <1>2, <1>11 DEF Slots, Before
  <1>15. Cardinality(Slots(Before(H, tail), n)) = Cardinality(Before(H, tail))
    <2>1. Before(H, tail) \in SUBSET (fu..fu + n - 1)
      BY <1>1 DEF Before
    <2> QED BY <1>1, <2>1, SlotCount
  <1> QED BY <1>5, <1>10, <1>13, <1>14, <1>15 DEF n

\* The bytes of I from tail on without a gap are k.
RunOf(I, tail, k) == k \in Nat /\ tail..tail + k - 1 \subseteq I /\ tail + k \notin I

\* Lines 52-61 stop at the first gap, before they come round to fu again.
LEMMA RunFound ==
    ASSUME NEW r, NEW n \in Nat \ {0}, r.buffer_size = n, NEW m \in BitmapOf(n), NEW fu \in Nat,
           NEW tail \in Nat, fu < tail, tail <= fu + n,
           NEW I \in SUBSET (tail..fu + n - 1), Bits(m) = Slots(I, n)
    PROVE  RunOf(I, tail, PendingRun(r, m, tail)) /\ PendingRun(r, m, tail) \in 0..fu + n - tail
  <1> DEFINE Gaps == {k \in Nat : tail + k \notin I}
             Stops(k) == /\ \A j \in 0..k - 1 : get(m, (tail + j) % n)
                         /\ k < n => ~get(m, (tail + k) % n)
  <1>1. fu + n - tail \in Gaps /\ Gaps \in SUBSET Nat /\ Gaps # {}
    OBVIOUS
  <1>2. PICK k \in Gaps : \A y \in Gaps : k <= y
    <2> HIDE DEF Gaps
    <2> QED BY <1>1, LeastNatural
  <1>3. k \in Nat /\ k <= fu + n - tail /\ k < n /\ tail + k \notin I
    BY <1>1, <1>2
  <1>4. \A j \in 0..k - 1 : tail + j \in I
    BY <1>2, <1>3
  <1>5. I \in SUBSET (fu..fu + n - 1)
    OBVIOUS
  <1>6. \A i \in fu..fu + n - 1 : get(m, i % n) <=> i \in I
    BY <1>5, GetSlot
  <1>7. \A j \in 0..k - 1 : get(m, (tail + j) % n)
    BY <1>4, <1>5, <1>6
  <1>8. ~get(m, (tail + k) % n)
    <2>1. CASE tail + k < fu + n
      <3>1. tail + k \in fu..fu + n - 1
        BY <1>3, <2>1
      <3> QED BY <1>3, <1>6, <3>1
    <2>2. CASE tail + k = fu + n
      <3>1. (fu + n) % n = fu % n
        <4>1. (fu + n) % n = IF (fu % n) + n < n THEN (fu % n) + n ELSE (fu % n) + n - n
          <5>1. n \in 0..n
            OBVIOUS
          <5> QED BY <5>1, RemainderSteps
        <4>2. fu % n \in 0..n - 1
          OBVIOUS
        <4> DEFINE s == fu % n
        <4> HIDE DEF s
        <4> QED BY <4>1, <4>2 DEF s
      <3>2. fu \in fu..fu + n - 1 /\ fu \notin I
        OBVIOUS
      <3>3. ~get(m, fu % n)
        BY <1>6, <3>2
      <3> QED BY <2>2, <3>1, <3>3
    <2> QED BY <1>3, <2>1, <2>2
  <1>9. \A x \in 0..n : Stops(x) => x = k
    <2> SUFFICES ASSUME NEW x \in 0..n, Stops(x), x # k PROVE FALSE
      OBVIOUS
    <2>1. CASE x < k
      <3>1. x \in 0..k - 1 /\ x < n
        BY <1>3, <2>1
      <3> QED BY <1>7, <3>1
    <2>2. CASE k < x
      <3>1. k \in 0..x - 1
        BY <1>3, <2>2
      <3> QED BY <1>8, <3>1
    <2> QED BY <1>3, <2>1, <2>2
  <1>10. k \in 0..n /\ Stops(k)
    BY <1>3, <1>7, <1>8
  <1>11. PendingRun(r, m, tail) = CHOOSE x \in 0..n : Stops(x)
    BY DEF PendingRun
  <1> HIDE DEF Stops, Gaps
  <1>12. PendingRun(r, m, tail) = k
    BY <1>9, <1>10, <1>11
  <1>13. tail..tail + k - 1 \subseteq I
    <2> SUFFICES ASSUME NEW i \in tail..tail + k - 1 PROVE i \in I
      OBVIOUS
    <2>1. i - tail \in 0..k - 1 /\ tail + (i - tail) = i
      BY <1>3
    <2> QED BY <1>4, <2>1
  <1> QED BY <1>3, <1>12, <1>13 DEF RunOf

\* What is left of H when the numbers below fu are taken out, those from tail
\* on without a gap.
LEMMA TakenOut ==
    ASSUME NEW H \in SUBSET Nat, IsFiniteSet(H), NEW tail \in Nat, NEW k \in Nat, RunOf(From(H, tail), tail, k)
    PROVE  /\ \A i \in H : tail + k <= i => tail + k < i
           /\ From(H, tail) \ tail..tail + k - 1 = From(H, tail + k)
           /\ Cardinality(From(H, tail + k)) = Cardinality(H) - Cardinality(Before(H, tail)) - k
  <1> DEFINE H0 == Before(H, tail)
             H1 == From(H, tail)
             R == tail..tail + k - 1
             H2 == From(H, tail + k)
  <1>1. R \subseteq H1 /\ tail + k \notin H1
    BY DEF RunOf, From
  <1>2. \A i \in H : i \in Nat /\ i \in Int
    OBVIOUS
  <1>3. H1 = H \ H0 /\ H0 \subseteq H /\ H1 \ R = H2
    <2>1. \A i \in H : (tail <= i <=> ~(i < tail)) /\ (tail + k <= i <=> tail <= i /\ i \notin R)
      <3> SUFFICES ASSUME NEW i \in H
                   PROVE  (tail <= i <=> ~(i < tail)) /\ (tail + k <= i <=> tail <= i /\ i \notin R)
        OBVIOUS
      <3>1. i \in Nat
        OBVIOUS
      <3> QED BY <3>1
    <2> HIDE DEF R
    <2> QED BY <2>1 DEF From, Before
  <1>4. Cardinality(H1) = Cardinality(H) - Cardinality(H0) /\ IsFiniteSet(H1)
    <2>1. H \cap H0 = H0
      BY <1>3
    <2> HIDE DEF H0, H1
    <2>2. IsFiniteSet(H \ H0) /\ Cardinality(H \ H0) = Cardinality(H) - Cardinality(H \cap H0)
      BY FS_Difference
    <2> QED BY <1>3, <2>1, <2>2
  <1>5. Cardinality(R) = k
    <2>1. tail \in Int /\ tail + k - 1 \in Int
      OBVIOUS
    <2>2. Cardinality(R) = IF tail > tail + k - 1 THEN 0 ELSE (tail + k - 1) - tail + 1
      BY <2>1, FS_Interval
    <2> HIDE DEF R
    <2> QED BY <2>2
  <1>6. Cardinality(H2) = Cardinality(H1) - Cardinality(R)
    <2>1. H1 \cap R = R
      BY <1>1
    <2> HIDE DEF H1, R, H2
    <2>2. Cardinality(H1 \ R) = Cardinality(H1) - Cardinality(H1 \cap R)
      BY <1>4, FS_Difference
    <2> QED BY <1>3, <2>1, <2>2
  <1>7. Cardinality(H) \in Nat /\ Cardinality(H0) \in Nat
    <2> HIDE DEF H0
    <2>1. IsFiniteSet(H0)
      BY <1>3, FS_Subset
    <2> QED BY <2>1, FS_CardinalityType
  <1>8. \A i \in H : tail + k <= i => tail + k < i
    BY <1>1, <1>2 DEF From
  <1> HIDE DEF H0, H1, H2, R
  <1>9. Cardinality(H2) = Cardinality(H) - Cardinality(H0) - k
    BY <1>4, <1>5, <1>6, <1>7
  <1> QED BY <1>3, <1>8, <1>9 DEF H0, H1, H2, R

\* The state res that an insert leaves: the window has H2, the stream what is
\* in front of it, and nothing but the new bytes up to tail has become known.
Result(r, o, H, first, tail, res, H2) ==
    /\ Holds(res.r, H2, o.bytes_popped)
    /\ Delivers(res.output, res.r.first_unassembled)
    /\ 0..res.r.first_unassembled - 1 \union H2
         = (0..r.first_unassembled - 1 \union H) \union (first..tail - 1)
    /\ res.output.bytes_popped = o.bytes_popped
    /\ res.output.closed = o.closed
    /\ res.r.reach_end = r.reach_end

\* The numbers of a step.
LEMMA StepNumbers ==
    ASSUME NEW r, NEW o, NEW H, NEW first, NEW len, NEW tail,
           Holds(r, H, o.bytes_popped), Delivers(o, r.first_unassembled),
           Arrives(first, len, tail, o.bytes_popped)
    PROVE  /\ Capacity \in Nat \ {0} /\ MaxSegment \in Nat /\ StreamLen \in Nat /\ BlockSize \in Nat \ {0}
           /\ r.first_unassembled \in 0..StreamLen /\ o.bytes_popped \in Nat
           /\ first \in 0..StreamLen /\ len \in 0..MaxSegment /\ first + len <= StreamLen
           /\ tail \in Nat /\ tail <= first + len /\ tail <= o.bytes_popped + Capacity
           /\ tail = first + len \/ tail = o.bytes_popped + Capacity
           /\ o.bytes_popped <= r.first_unassembled /\ r.first_unassembled <= o.bytes_popped + Capacity
  <1> DEFINE popped == o.bytes_popped
             fu == r.first_unassembled
  <1>1. /\ Capacity \in Nat \ {0} /\ MaxSegment \in Nat /\ StreamLen \in Nat /\ BlockSize \in Nat \ {0}
        /\ fu \in 0..StreamLen /\ popped \in Nat
    BY StreamAssumption, BlockSizeAssumption DEF Holds, Reassemblers, Delivers, Streams
  <1>2. /\ first \in 0..StreamLen /\ len \in 0..MaxSegment /\ first + len <= StreamLen
        /\ tail = Smaller(first + len, popped + Capacity)
    BY DEF Arrives
  <1>3. popped + Len(o.queue) = fu /\ Len(o.queue) <= Capacity /\ Len(o.queue) \in Nat
    BY DEF Delivers, Streams
  <1> HIDE DEF popped, fu
  <1>4. popped <= fu /\ fu <= popped + Capacity
    BY <1>1, <1>3
  <1>5. tail \in Nat /\ tail <= first + len /\ tail <= popped + Capacity /\ (tail = first + len \/ tail = popped + Capacity)
    BY <1>1, <1>2 DEF Smaller
  <1> QED BY <1>1, <1>2, <1>4, <1>5 DEF popped, fu

\* Concatenation and the end of a sequence, of numbers.
LEMMA Concatenation ==
    ASSUME NEW s \in Seq(Int), NEW u \in Seq(Int)
    PROVE  /\ s \o u \in Seq(Int) /\ Len(s \o u) = Len(s) + Len(u)
           /\ \A x \in 1..Len(s) + Len(u) : (s \o u)[x] = IF x <= Len(s) THEN s[x] ELSE u[x - Len(s)]
  OBVIOUS

\* SubSeq up to the last element drops the first a - 1.
LEMMA EndOf ==
    ASSUME NEW s \in Seq(Int), NEW a \in 1..Len(s)
    PROVE  /\ SubSeq(s, a, Len(s)) \in Seq(Int) /\ Len(SubSeq(s, a, Len(s))) = Len(s) - a + 1
           /\ \A j \in 1..Len(s) - a + 1 : SubSeq(s, a, Len(s))[j] = s[a + j - 1]
  OBVIOUS

\* Lines 52-58 find the k bytes from tail on.
Continues(stored, tail, k) == stored \in [1..k -> Int] /\ \A j \in 1..k : stored[j] = tail + j - 1

\* The data from fu on, and what is stored behind it.
Handed(fu, first, len, stored) ==
    LET all == Substring(first, len) \o stored
    IN  SubSeq(all, fu - first + 1, Len(all))

\* What line 51 hands to the stream: the new data from the next byte on, and
\* the k stored bytes that continue it.
LEMMA NextData ==
    ASSUME NEW fu \in Nat, NEW first \in Nat, first <= fu, NEW len \in Nat, first + len <= StreamLen, NEW k \in Nat,
           NEW tail \in Nat, fu < tail, tail <= first + len, k = 0 \/ (tail = first + len /\ tail + k <= StreamLen),
           NEW stored, Continues(stored, tail, k)
    PROVE  /\ NextBytes(Handed(fu, first, len, stored), fu)
           /\ Len(Handed(fu, first, len, stored)) = first + len + k - fu
  <1> DEFINE data == Substring(first, len)
             all == data \o stored
             d == SubSeq(all, fu - first + 1, Len(all))
  <1>1. data \in Seq(Int) /\ Len(data) = len /\ \A i \in 1..len : data[i] = first + i - 1
    BY DEF Substring
  <1>2. stored \in Seq(Int) /\ Len(stored) = k /\ \A j \in 1..k : stored[j] = tail + j - 1
    BY DEF Continues
  <1>3. StreamLen \in Nat
    BY StreamAssumption
  <1> HIDE DEF data
  <1>4. all = data \o stored
    OBVIOUS
  <1> HIDE DEF all
  <1>5. /\ all \in Seq(Int) /\ Len(all) = len + k
        /\ \A x \in 1..len + k : all[x] = IF x <= len THEN data[x] ELSE stored[x - len]
    <2>1. data \in Seq(Int) /\ stored \in Seq(Int) /\ Len(data) = len /\ Len(stored) = k
      BY <1>1, <1>2
    <2>2. /\ data \o stored \in Seq(Int) /\ Len(data \o stored) = Len(data) + Len(stored)
          /\ \A x \in 1..Len(data) + Len(stored) :
                 (data \o stored)[x] = IF x <= Len(data) THEN data[x] ELSE stored[x - Len(data)]
      BY <2>1, Concatenation, Zenon
    <2> QED BY <1>4, <2>1, <2>2
  <1>6. ASSUME NEW x \in 1..len + k PROVE all[x] = first + x - 1 /\ all[x] < StreamLen
    <2>1. all[x] = IF x <= len THEN data[x] ELSE stored[x - len]
      BY <1>5
    <2>2. CASE x <= len
      <3>1. data[x] = first + x - 1
        BY <1>1, <2>2
      <3> QED BY <1>3, <2>1, <2>2, <3>1
    <2>3. CASE ~(x <= len)
      <3>1. x - len \in 1..k /\ k > 0
        BY <2>3
      <3>2. stored[x - len] = tail + (x - len) - 1 /\ tail = first + len /\ tail + k <= StreamLen
        BY <1>2, <3>1
      <3> QED BY <1>3, <2>1, <2>3, <3>1, <3>2
    <2> QED BY <2>2, <2>3
  <1>7. fu - first + 1 \in 1..len + k /\ fu - first \in Nat
    OBVIOUS
  <1> HIDE DEF d
  <1>8. d \in Seq(Int) /\ Len(d) = first + len + k - fu
        /\ \A j \in 1..Len(d) : d[j] = all[fu - first + j]
    <2> DEFINE a == fu - first + 1
               b == len + k
    <2>1. a \in 1..b /\ b \in Nat /\ d = SubSeq(all, a, b)
      BY <1>5, <1>7 DEF d
    <2> HIDE DEF a, b
    <2>2. Len(all) = b
      BY <1>5 DEF b
    <2>3. d \in Seq(Int) /\ Len(d) = b - a + 1 /\ \A j \in 1..Len(d) : d[j] = all[a + j - 1]
      <3>1. all \in Seq(Int)
        BY <1>5
      <3>2. a \in 1..Len(all)
        BY <2>1, <2>2
      <3>3. /\ SubSeq(all, a, Len(all)) \in Seq(Int) /\ Len(SubSeq(all, a, Len(all))) = Len(all) - a + 1
            /\ \A j \in 1..Len(all) - a + 1 : SubSeq(all, a, Len(all))[j] = all[a + j - 1]
        BY <3>1, <3>2, EndOf, Zenon
      <3> QED BY <2>1, <2>2, <3>3
    <2>4. b - a + 1 = first + len + k - fu
      BY DEF a, b
    <2>5. \A j \in 1..Len(d) : a + j - 1 = fu - first + j
      BY <2>3 DEF a
    <2> QED BY <2>3, <2>4, <2>5
  <1>9. ASSUME NEW j \in 1..Len(d) PROVE d[j] = fu + j - 1 /\ d[j] < StreamLen
    <2>1. fu - first + j \in 1..len + k
      BY <1>7, <1>8
    <2>2. d[j] = all[fu - first + j]
      BY <1>8
    <2>3. all[fu - first + j] = first + (fu - first + j) - 1 /\ all[fu - first + j] < StreamLen
      BY <1>6, <2>1
    <2> QED BY <2>1, <2>2, <2>3
  <1>10. NextBytes(d, fu)
    BY <1>8, <1>9 DEF NextBytes
  <1> QED BY <1>8, <1>10 DEF d, all, data, Handed

\* Lines 31-62.
LEMMA AssembleStep ==
    ASSUME ShortSubstrings, NEW r, NEW o, NEW H, NEW first, NEW len, NEW tail,
           Holds(r, H, o.bytes_popped), Delivers(o, r.first_unassembled),
           Arrives(first, len, tail, o.bytes_popped),
           first <= r.first_unassembled, r.first_unassembled < tail
    PROVE  \E H2 : Result(r, o, H, first, tail, Assemble(r, o, first, Substring(first, len), tail), H2)
  <1> DEFINE n == Capacity
             fu == r.first_unassembled
             popped == o.bytes_popped
             cleared == ClearRange(r, tail)
             k == PendingRun(r, cleared, tail)
             H1 == From(H, tail)
             H2 == From(H, tail + k)
             data == Substring(first, len)
             res == Assemble(r, o, first, data, tail)
  <1>1. /\ n \in Nat \ {0} /\ MaxSegment \in Nat /\ StreamLen \in Nat /\ BlockSize \in Nat \ {0}
        /\ fu \in 0..StreamLen /\ popped \in Nat
        /\ first \in 0..StreamLen /\ len \in 0..MaxSegment /\ first + len <= StreamLen
        /\ tail \in Nat /\ tail <= first + len /\ tail <= popped + n
        /\ tail = first + len \/ tail = popped + n
        /\ popped <= fu /\ fu <= popped + n
    BY StepNumbers
  <1>2. /\ r.buffer_size = n /\ r.bitmap \in BitmapOf(n) /\ H \in SUBSET (fu..fu + n - 1) /\ IsFiniteSet(H)
        /\ r.bytes_pending \in Nat
    BY <1>1, HoldsParts
  <1>3. first <= fu /\ fu < tail /\ MaxSegment + BlockSize <= n + 1
    BY DEF ShortSubstrings
  <1>4. /\ r.bytes_pending = Cardinality(H) /\ r \in Reassemblers(n) /\ H \subseteq Indices
        /\ \A i \in H : fu < i /\ i < popped + n
        /\ \A i \in H : r.sliding_window[i % n] = i
    BY DEF Holds
  <1> HIDE DEF n, fu, popped
  <1>5. tail + BlockSize <= fu + n + 1
    BY <1>1, <1>3
  <1>6. /\ cleared \in BitmapOf(n) /\ Bits(cleared) = Slots(H1, n)
        /\ ClearedCount(r, tail) = Cardinality(Before(H, tail))
    <2>1. o.bytes_popped \in Nat /\ o.bytes_popped <= r.first_unassembled /\ tail \in Nat
      BY <1>1 DEF fu, popped
    <2>2. r.first_unassembled < tail /\ tail + BlockSize <= r.first_unassembled + Capacity + 1
      BY <1>3, <1>5 DEF fu, n
    <2>3. /\ ClearRange(r, tail) \in BitmapOf(Capacity)
          /\ Bits(ClearRange(r, tail)) = Slots(From(H, tail), Capacity)
          /\ ClearedCount(r, tail) = Cardinality(Before(H, tail))
      BY <2>1, <2>2, Cleared, Zenon
    <2> QED BY <2>3 DEF n
  <1>7. H1 \in SUBSET (tail..fu + n - 1) /\ H1 \in SUBSET (fu..fu + n - 1)
    <2>1. ASSUME NEW i \in H1 PROVE i \in tail..fu + n - 1 /\ i \in fu..fu + n - 1
      <3>1. i \in fu..fu + n - 1 /\ tail <= i
        BY <1>2 DEF From
      <3> QED BY <1>1, <3>1
    <2> HIDE DEF H1
    <2> QED BY <2>1
  <1> HIDE DEF cleared, H1
  <1>8. RunOf(H1, tail, k) /\ k \in 0..fu + n - tail
    <2>1. tail <= fu + n /\ fu \in Nat
      BY <1>1
    <2> QED BY <1>1, <1>2, <1>3, <1>6, <1>7, <2>1, RunFound
  <1> HIDE DEF k
  <1>9. k \in Nat /\ tail..tail + k - 1 \subseteq H1
    BY <1>8 DEF RunOf
  <1>10. /\ \A i \in H : tail + k <= i => tail + k < i
         /\ H1 \ tail..tail + k - 1 = H2
         /\ Cardinality(H2) = Cardinality(H) - Cardinality(Before(H, tail)) - k
    <2>1. H \in SUBSET Nat
      BY <1>1, <1>2
    <2>2. tail \in Nat /\ k \in Nat /\ IsFiniteSet(H)
      BY <1>1, <1>2, <1>9
    <2>3. RunOf(From(H, tail), tail, k)
      BY <1>8 DEF H1
    <2> QED BY <2>1, <2>2, <2>3, TakenOut DEF H1
  <1>11. res = [r |-> [r EXCEPT !.bytes_pending = @ - ClearedCount(r, tail) - k,
                                !.bitmap = unset(cleared, {(tail + j) % n : j \in 0..k - 1}),
                                !.first_unassembled = tail + k],
                output |-> push(o, SubSeq(data \o [j \in 1..k |-> r.sliding_window[(tail + j - 1) % n]],
                                          fu - first + 1,
                                          Len(data \o [j \in 1..k |-> r.sliding_window[(tail + j - 1) % n]])))]
    BY <1>2 DEF Assemble, cleared, k, fu
  <1> DEFINE stored == [j \in 1..k |-> r.sliding_window[(tail + j - 1) % n]]
             all == data \o stored
             d == SubSeq(all, fu - first + 1, Len(all))
             slots == {(tail + j) % n : j \in 0..k - 1}
             left == unset(cleared, slots)
  <1> HIDE DEF res, data
  <1>12. \A j \in 1..k : stored[j] = tail + j - 1 /\ tail + j - 1 \in H
    <2> SUFFICES ASSUME NEW j \in 1..k PROVE stored[j] = tail + j - 1 /\ tail + j - 1 \in H
      OBVIOUS
    <2>1. tail + j - 1 \in tail..tail + k - 1
      BY <1>1, <1>9
    <2>2. tail + j - 1 \in H
      BY <1>9, <2>1 DEF H1, From
    <2> QED BY <1>4, <2>2
  <1>13. left \in BitmapOf(n) /\ Bits(left) = Slots(H2, n)
    <2> DEFINE R == tail..tail + k - 1
    <2>1. slots = Slots(R, n)
      <3>1. ASSUME NEW j \in 0..k - 1 PROVE (tail + j) % n \in Slots(R, n)
        <4>1. tail + j \in R
          BY <1>1, <1>9
        <4> QED BY <4>1 DEF Slots
      <3>2. ASSUME NEW i \in R PROVE \E j \in 0..k - 1 : i % n = (tail + j) % n
        <4>1. i - tail \in 0..k - 1 /\ tail + (i - tail) = i
          BY <1>1, <1>9
        <4> QED BY <4>1
      <3> QED BY <3>1, <3>2 DEF Slots
    <2> HIDE DEF slots, R
    <2>2. R \in SUBSET (fu..fu + n - 1)
      BY <1>7, <1>9 DEF R
    <2>3. Slots(H1, n) \ Slots(R, n) = Slots(H1 \ R, n) /\ Slots(R, n) \in SUBSET (0..n - 1)
      <3>1. n \in Nat \ {0} /\ fu \in Nat /\ InWindow(H1, fu, n) /\ InWindow(R, fu, n)
        BY <1>1, <1>7, <2>2 DEF InWindow
      <3>2. Slots(H1, n) \ Slots(R, n) = Slots(H1 \ R, n)
        BY <3>1, SlotsMinus
      <3>3. R \in SUBSET Nat
        BY <1>1, <2>2
      <3>4. Slots(R, n) \in SUBSET (0..n - 1)
        BY <3>1, <3>3, SlotsRange
      <3> QED BY <3>2, <3>4
    <2>4. left \in BitmapOf(n) /\ Bits(left) = Bits(cleared) \ slots
      BY <1>1, <1>6, <2>1, <2>3, SetBits
    <2>5. H1 \ R = H2
      BY <1>10 DEF R
    <2> HIDE DEF left, H2
    <2> QED BY <1>6, <2>1, <2>3, <2>4, <2>5
  <1>14. k = 0 \/ (tail = first + len /\ tail + k <= StreamLen)
    <2> SUFFICES ASSUME k > 0 PROVE tail = first + len /\ tail + k <= StreamLen
      BY <1>9
    <2>1. tail \in H /\ tail + k - 1 \in H
      <3>1. 1 \in 1..k /\ k \in 1..k
        BY <1>9
      <3>2. tail + 1 - 1 \in H /\ tail + k - 1 \in H
        BY <1>12, <3>1
      <3> QED BY <1>1, <3>2
    <2>2. tail < popped + n /\ tail + k - 1 < StreamLen
      <3>1. tail < popped + n
        BY <1>4, <2>1
      <3>2. tail + k - 1 \in 0..StreamLen - 1
        BY <1>4, <2>1 DEF Indices
      <3> QED BY <1>1, <3>1, <3>2
    <2> QED BY <1>1, <1>9, <2>2
  <1>15. NextBytes(d, fu) /\ Len(d) = first + len + k - fu
    <2> HIDE DEF stored, d
    <2>1. Continues(stored, tail, k)
      <3>1. \A j \in 1..k : r.sliding_window[(tail + j - 1) % n] = tail + j - 1
        BY <1>12 DEF stored
      <3>2. \A j \in 1..k : tail + j - 1 \in Int
        BY <1>1
      <3> QED BY <3>1, <3>2 DEF stored, Continues
    <2>2. fu \in Nat /\ first \in Nat /\ first <= fu /\ len \in Nat
      BY <1>1, <1>3
    <2>3. d = Handed(fu, first, len, stored)
      BY DEF data, d, Handed
    <2>4. first + len <= StreamLen /\ k \in Nat /\ tail \in Nat /\ fu < tail /\ tail <= first + len
      BY <1>1, <1>3, <1>9
    <2> HIDE DEF all
    <2>5. NextBytes(Handed(fu, first, len, stored), fu)
      BY <1>14, <2>1, <2>2, <2>4, NextData
    <2>6. Len(Handed(fu, first, len, stored)) = first + len + k - fu
      BY <1>14, <2>1, <2>2, <2>4, NextData
    <2> QED BY <2>3, <2>5, <2>6, Zenon
  <1>16. tail + k - fu = Smaller(Len(d), popped + n - fu)
    <2> HIDE DEF d
    <2>1. CASE k > 0
      <3>1. tail = first + len /\ Len(d) = tail + k - fu
        BY <1>1, <1>14, <1>15, <2>1
      <3>2. tail + k <= popped + n
        <4>1. k \in 1..k
          BY <1>9, <2>1
        <4>2. tail + k - 1 \in H
          BY <1>12, <4>1
        <4>3. tail + k - 1 < popped + n
          BY <1>4, <4>2
        <4> QED BY <1>1, <1>9, <4>3
      <3> QED BY <1>1, <1>9, <3>1, <3>2 DEF Smaller
    <2>2. CASE ~(k > 0)
      <3>1. k = 0
        BY <1>9, <2>2
      <3> QED BY <1>1, <1>15, <3>1 DEF Smaller
    <2> QED BY <2>1, <2>2
  <1>17. /\ Delivers(push(o, d), tail + k)
         /\ push(o, d).closed = o.closed /\ push(o, d).bytes_popped = popped
    <2>1. Delivers(o, fu) /\ fu \in Nat
      BY <1>1 DEF fu
    <2>2. tail + k - fu = Smaller(Len(d), o.bytes_popped + Capacity - fu)
      BY <1>16 DEF popped, n
    <2> HIDE DEF d
    <2>3. /\ Delivers(push(o, d), fu + (tail + k - fu))
          /\ push(o, d).closed = o.closed /\ push(o, d).bytes_popped = o.bytes_popped
      BY <1>15, <2>1, <2>2, PushNext
    <2>4. fu + (tail + k - fu) = tail + k
      BY <1>1, <1>9
    <2> QED BY <2>3, <2>4 DEF popped
  <1>18. tail + k \in 0..StreamLen
    BY <1>1, <1>9, <1>14
  <1>19. /\ res.output = push(o, d) /\ res.r.first_unassembled = tail + k /\ res.r.reach_end = r.reach_end
         /\ res.r.sliding_window = r.sliding_window /\ res.r.bitmap = left
         /\ res.r.bytes_pending = r.bytes_pending - ClearedCount(r, tail) - k
         /\ res.r = [r EXCEPT !.bytes_pending = r.bytes_pending - ClearedCount(r, tail) - k,
                              !.bitmap = left, !.first_unassembled = tail + k]
    <2> HIDE DEF d, left
    <2>1. res = [r |-> [r EXCEPT !.bytes_pending = r.bytes_pending - ClearedCount(r, tail) - k,
                                 !.bitmap = left, !.first_unassembled = tail + k],
                 output |-> push(o, d)]
      BY <1>11 DEF d, left
    <2>2. r \in Reassemblers(n)
      BY <1>4
    <2> QED BY <2>1, <2>2 DEF Reassemblers
  <1> HIDE DEF d, left
  <1>20. Cardinality(H2) \in Nat /\ res.r.bytes_pending = Cardinality(H2)
    <2>1. IsFiniteSet(H2)
      <3>1. H2 \in SUBSET H
        BY DEF From
      <3> HIDE DEF H2
      <3> QED BY <1>2, <3>1, FS_Subset
    <2> HIDE DEF H2
    <2>2. Cardinality(H2) \in Nat
      BY <2>1, FS_CardinalityType
    <2> QED BY <1>4, <1>6, <1>10, <1>19, <2>2
  <1>21. Holds(res.r, H2, popped)
    <2>1. res.r \in Reassemblers(n)
      <3>1. Cardinality(H2) = r.bytes_pending - ClearedCount(r, tail) - k
        BY <1>19, <1>20
      <3> HIDE DEF H2
      <3>2. r.bytes_pending - ClearedCount(r, tail) - k \in Nat
        BY <1>20, <3>1
      <3> QED BY <1>4, <1>13, <1>18, <1>19, <3>2 DEF Reassemblers
    <2>2. \A i \in H2 : i \in H /\ tail + k < i
      BY <1>10 DEF From
    <2> HIDE DEF H2
    <2>3. H2 \subseteq Indices /\ \A i \in H2 : tail + k < i /\ i < popped + n
      BY <1>4, <2>2
    <2>4. \A i \in H2 : res.r.sliding_window[i % n] = i
      BY <1>4, <1>19, <2>2
    <2> QED BY <1>1, <1>13, <1>19, <1>20, <2>1, <2>3, <2>4 DEF Holds, n
  <1>22. 0..tail + k - 1 \union H2 = (0..fu - 1 \union H) \union (first..tail - 1)
    <2>1. \A i \in H2 : i \in H
      BY DEF From
    <2>2. ASSUME NEW i \in H PROVE i \in Int /\ 0 <= i /\ (i \in H2 \/ i < tail + k)
      <3>1. i \in Nat
        BY <1>1, <1>2
      <3> QED BY <1>1, <1>9, <3>1 DEF From
    <2>3. ASSUME NEW i \in tail..tail + k - 1 PROVE i \in H
      BY <1>9, <2>3 DEF H1, From
    <2> HIDE DEF H2
    <2>4. ASSUME NEW i \in 0..tail + k - 1 PROVE i \in 0..fu - 1 \/ i \in H \/ i \in first..tail - 1
      <3>1. CASE i < tail
        BY <1>1, <1>3, <1>9, <3>1
      <3>2. CASE ~(i < tail)
        <4>1. i \in tail..tail + k - 1
          BY <1>1, <1>9, <3>2
        <4> QED BY <2>3, <4>1
      <3> QED BY <3>1, <3>2
    <2>5. ASSUME NEW i \in 0..fu - 1 \union first..tail - 1 PROVE i \in 0..tail + k - 1
      BY <1>1, <1>3, <1>9
    <2>6. ASSUME NEW i \in H PROVE i \in 0..tail + k - 1 \/ i \in H2
      BY <1>1, <1>9, <2>2
    <2> QED BY <2>1, <2>4, <2>5, <2>6
  <1>23. Result(r, o, H, first, tail, res, H2)
    <2> HIDE DEF H2
    <2>1. Holds(res.r, H2, o.bytes_popped)
      BY <1>21 DEF popped
    <2>2. Delivers(res.output, res.r.first_unassembled)
      BY <1>17, <1>19
    <2>3. /\ res.output.bytes_popped = o.bytes_popped /\ res.output.closed = o.closed
          /\ res.r.reach_end = r.reach_end
      BY <1>17, <1>19 DEF popped
    <2>4. 0..res.r.first_unassembled - 1 \union H2
            = (0..r.first_unassembled - 1 \union H) \union (first..tail - 1)
      <3>1. 0..res.r.first_unassembled - 1 = 0..tail + k - 1
        <4>1. res.r.first_unassembled = tail + k
          BY <1>19, Zenon
        <4> QED BY <1>1, <1>9, <4>1
      <3> HIDE DEF stored, all, slots
      <3> QED BY <1>22, <3>1, Zenon DEF fu
    <2> QED BY <2>1, <2>2, <2>3, <2>4 DEF Result
  <1> HIDE DEF H2
  <1> QED BY <1>23 DEF res, data

\* Lines 63-73.
LEMMA StoreStep ==
    ASSUME NEW r, NEW o, NEW H, NEW first, NEW len, NEW tail,
           Holds(r, H, o.bytes_popped), Delivers(o, r.first_unassembled),
           Arrives(first, len, tail, o.bytes_popped), r.first_unassembled < first, first < tail
    PROVE  \E H2 : Result(r, o, H, first, tail, Store(r, o, first, Substring(first, len), tail), H2)
  <1> DEFINE n == Capacity
             fu == r.first_unassembled
             popped == o.bytes_popped
             came == first..tail - 1
             new == NewSlots(r, first, tail)
             H2 == H \union came
             data == Substring(first, len)
             res == Store(r, o, first, data, tail)
             at(w) == CHOOSE i \in new : i % n = w
             window == [w \in DOMAIN r.sliding_window |->
                          IF \E i \in new : i % n = w THEN data[at(w) - first + 1] ELSE r.sliding_window[w]]
             marked == set(r.bitmap, Slots(new, n))
  <1>1. /\ n \in Nat \ {0} /\ StreamLen \in Nat
        /\ fu \in 0..StreamLen /\ popped \in Nat
        /\ first \in 0..StreamLen /\ len \in Nat /\ first + len <= StreamLen
        /\ tail \in Nat /\ tail <= first + len /\ tail <= popped + n
        /\ popped <= fu
    <2>1. /\ n \in Nat \ {0} /\ MaxSegment \in Nat /\ StreamLen \in Nat
          /\ fu \in 0..StreamLen /\ popped \in Nat
          /\ first \in 0..StreamLen /\ len \in 0..MaxSegment /\ first + len <= StreamLen
          /\ tail \in Nat /\ tail <= first + len /\ tail <= popped + n
          /\ popped <= fu
      BY StepNumbers
    <2>2. len \in Nat
      BY <2>1
    <2> QED BY <2>1, <2>2
  <1>2. /\ r.buffer_size = n /\ r.bitmap \in BitmapOf(n) /\ H \in SUBSET (fu..fu + n - 1) /\ IsFiniteSet(H)
        /\ Cardinality(H) \in Nat
    BY <1>1, HoldsParts
  <1>3. fu < first /\ first < tail
    OBVIOUS
  <1>4. /\ r.bytes_pending = Cardinality(H) /\ r \in Reassemblers(n) /\ H \subseteq Indices
        /\ \A i \in H : fu < i /\ i < popped + n
        /\ \A i \in H : r.sliding_window[i % n] = i
        /\ Bits(r.bitmap) = Slots(H, n)
    BY DEF Holds
  <1>5. res = [r |-> [r EXCEPT !.bytes_pending = r.bytes_pending + Cardinality(new),
                               !.bitmap = marked, !.sliding_window = window],
               output |-> o]
    BY <1>2, <1>4 DEF Store, Reassemblers, Slots
  <1> HIDE DEF n, fu, popped, res, data
  <1>6. ASSUME NEW i \in came
        PROVE  i \in fu..fu + n - 1 /\ fu < i /\ i < popped + n /\ i \in Indices /\ data[i - first + 1] = i
    <2>1. i \in fu..fu + n - 1 /\ fu < i /\ i < popped + n /\ i \in Indices
      BY <1>1, <1>3 DEF Indices
    <2>2. i - first + 1 \in 1..len /\ first + (i - first + 1) - 1 = i
      BY <1>1, <1>3
    <2> QED BY <2>1, <2>2 DEF data, Substring
  <1> HIDE DEF came
  <1>7. new = came \ H
    <2>1. n \in Nat \ {0} /\ fu \in Nat
      BY <1>1
    <2>2. \A i \in fu..fu + n - 1 : get(r.bitmap, i % n) <=> i \in H
      BY <1>2, <1>4, <2>1, GetSlot
    <2>3. \A i \in came : get(r.bitmap, i % n) <=> i \in H
      BY <1>6, <2>2
    <2> QED BY <1>2, <2>3 DEF NewSlots, came
  <1> HIDE DEF new, H2
  <1>8. /\ new \subseteq came /\ new \intersect H = {} /\ H \union new = H2
        /\ new \in SUBSET (fu..fu + n - 1) /\ H2 \in SUBSET (fu..fu + n - 1)
    BY <1>2, <1>6, <1>7 DEF H2
  <1>9. Cardinality(new) \in Nat /\ Cardinality(H2) = Cardinality(H) + Cardinality(new)
    <2>1. IsFiniteSet(new)
      <3>1. fu \in Int /\ fu + n - 1 \in Int
        BY <1>1
      <3>2. IsFiniteSet(fu..fu + n - 1)
        BY <3>1, FS_Interval
      <3> QED BY <1>8, <3>2, FS_Subset
    <2>2. Cardinality(H \cup new) = Cardinality(H) + Cardinality(new) - Cardinality(H \cap new)
      BY <1>2, <2>1, FS_Union
    <2>3. H \cap new = {}
      BY <1>8
    <2>4. Cardinality(H \cap new) = 0
      BY <2>3, FS_EmptySet
    <2>5. Cardinality(new) \in Nat
      BY <2>1, FS_CardinalityType
    <2>6. Cardinality(H) \in Nat
      BY <1>2
    <2>7. Cardinality(H \cup new) = Cardinality(H) + Cardinality(new)
      BY <2>2, <2>4, <2>5, <2>6
    <2>8. H \cup new = H2
      BY <1>8
    <2> QED BY <2>5, <2>7, <2>8
  <1>10. marked \in BitmapOf(n) /\ Bits(marked) = Slots(H2, n)
    <2>1. Slots(new, n) \in SUBSET (0..n - 1)
      <3>1. new \in SUBSET Nat /\ n \in Nat \ {0}
        BY <1>1, <1>8
      <3> QED BY <3>1, SlotsRange
    <2>2. marked \in BitmapOf(n) /\ Bits(marked) = Bits(r.bitmap) \union Slots(new, n)
      BY <1>1, <1>2, <2>1, SetBits
    <2>3. Slots(H, n) \union Slots(new, n) = Slots(H \union new, n)
      BY SlotsUnion
    <2> HIDE DEF marked
    <2> QED BY <1>4, <1>8, <2>2, <2>3
  <1> HIDE DEF at, marked
  <1>11. \A i, j \in H2 : i % n = j % n => i = j
    <2> SUFFICES ASSUME NEW i \in H2, NEW j \in H2, i % n = j % n PROVE i = j
      OBVIOUS
    <2>1. i \in fu..fu + n - 1 /\ j \in fu..fu + n - 1 /\ n \in Nat \ {0} /\ fu \in Nat
      BY <1>1, <1>8
    <2> QED BY <2>1, SlotsDiffer
  <1>12. ASSUME NEW i \in new PROVE at(i % n) = i
    <2>1. at(i % n) \in new /\ at(i % n) % n = i % n
      <3>1. \E j \in new : j % n = i % n
        OBVIOUS
      <3> QED BY <3>1 DEF at
    <2> QED BY <1>8, <1>11, <2>1
  <1>13. ASSUME NEW i \in new PROVE data[i - first + 1] = i /\ i \in Indices
    BY <1>6, <1>8
  <1>14. DOMAIN r.sliding_window = 0..n - 1 /\ r.sliding_window \in [0..n - 1 -> Indices \union {NoByte}]
    BY <1>4 DEF Reassemblers
  <1>15. window \in [0..n - 1 -> Indices \union {NoByte}]
    <2> SUFFICES ASSUME NEW w \in 0..n - 1 PROVE window[w] \in Indices \union {NoByte}
      BY <1>14
    <2>1. CASE \E i \in new : i % n = w
      <3>1. PICK i \in new : i % n = w
        BY <2>1
      <3>2. window[w] = data[at(w) - first + 1]
        BY <1>14, <2>1
      <3>3. at(w) = i
        BY <1>12, <3>1
      <3> QED BY <1>13, <3>2, <3>3
    <2>2. CASE ~\E i \in new : i % n = w
      BY <1>14, <2>2
    <2> QED BY <2>1, <2>2
  <1>16. ASSUME NEW i \in H2 PROVE window[i % n] = i
    <2>1. i % n \in 0..n - 1
      <3>1. i \in Nat
        BY <1>1, <1>8
      <3> QED BY <1>1, <3>1
    <2>2. CASE i \in new
      <3>1. window[i % n] = data[at(i % n) - first + 1]
        BY <1>14, <2>1, <2>2
      <3> QED BY <1>12, <1>13, <2>2, <3>1
    <2>3. CASE i \notin new
      <3>1. i \in H
        BY <1>8, <2>3
      <3>2. ~\E j \in new : j % n = i % n
        BY <1>8, <1>11, <2>3
      <3> QED BY <1>4, <1>14, <2>1, <3>1, <3>2
    <2> QED BY <2>2, <2>3
  <1> HIDE DEF window
  <1>17. Holds(res.r, H2, popped)
    <2>1. res.r \in Reassemblers(n)
      <3>1. r \in Reassemblers(n) /\ marked \in BitmapOf(n)
        BY <1>4, <1>10
      <3>2. r.bytes_pending + Cardinality(new) \in Nat
        BY <1>2, <1>4, <1>9
      <3> QED BY <1>5, <1>15, <3>1, <3>2 DEF Reassemblers
    <2>2. /\ res.r.first_unassembled = fu /\ res.r.bitmap = marked /\ res.r.sliding_window = window
          /\ res.r.bytes_pending = Cardinality(H2)
      BY <1>4, <1>5, <1>9 DEF Reassemblers, fu
    <2>3. H2 \subseteq Indices /\ \A i \in H2 : fu < i /\ i < popped + n
      BY <1>4, <1>6, <1>8
    <2> QED BY <1>1, <1>10, <1>16, <2>1, <2>2, <2>3 DEF Holds, n
  <1>18. Result(r, o, H, first, tail, res, H2)
    <2>1. /\ res.output = o /\ res.r.first_unassembled = fu /\ res.r.reach_end = r.reach_end
      BY <1>4, <1>5 DEF Reassemblers, fu
    <2>2. 0..fu - 1 \union H2 = (0..fu - 1 \union H) \union (first..tail - 1)
      BY DEF H2, came
    <2> QED BY <1>17, <2>1, <2>2 DEF Result, fu, popped
  <1> QED BY <1>18 DEF res, data

\* Before the first insert the window has no size, nor does it get one from a
\* stream without capacity.
Fresh(r) ==
    /\ r \in Reassemblers(0)
    /\ r.first_unassembled = 0 /\ r.bytes_pending = 0

Keeps(r, H, popped) == Holds(r, H, popped) \/ (Fresh(r) /\ H = {})

\* Lines 7-15 change neither what is held nor the next byte.
LEMMA Sized ==
    ASSUME NEW r, NEW o, NEW H, NEW last \in BOOLEAN,
           Keeps(r, H, o.bytes_popped), Delivers(o, r.first_unassembled)
    PROVE  /\ Keeps(SizeWindow(MarkEnd(r, last), o), H, o.bytes_popped)
           /\ Capacity # 0 => Holds(SizeWindow(MarkEnd(r, last), o), H, o.bytes_popped)
           /\ SizeWindow(MarkEnd(r, last), o).first_unassembled = r.first_unassembled
           /\ SizeWindow(MarkEnd(r, last), o).reach_end = (r.reach_end \/ last)
  <1> DEFINE n == Capacity
             popped == o.bytes_popped
             m == MarkEnd(r, last)
             s == SizeWindow(m, o)
  <1>0. n \in Nat
    BY StreamAssumption
  <1>1. CASE Holds(r, H, popped)
    <2>1. r \in Reassemblers(n) /\ n # 0 /\ (r.reach_end \/ last) \in BOOLEAN
      BY <1>1 DEF Holds
    <2>2. m = [r EXCEPT !.reach_end = r.reach_end \/ last]
      BY DEF MarkEnd
    <2> HIDE DEF n, popped
    <2>3. /\ m \in Reassemblers(n) /\ m.first_unassembled = r.first_unassembled
          /\ m.bytes_pending = r.bytes_pending /\ m.bitmap = r.bitmap /\ m.buffer_size = n
          /\ m.sliding_window = r.sliding_window /\ m.reach_end = (r.reach_end \/ last)
      BY <2>1, <2>2 DEF Reassemblers
    <2> HIDE DEF m
    <2>4. s = m
      BY <2>1, <2>3 DEF SizeWindow
    <2>5. Holds(m, H, popped)
      BY <1>1, <2>3 DEF Holds, n
    <2> HIDE DEF s
    <2> QED BY <2>3, <2>4, <2>5 DEF Keeps, popped, n, s, m
  <1>2. CASE Fresh(r) /\ H = {}
    <2> DEFINE e == r.reach_end \/ last
    <2>1. r \in Reassemblers(0) /\ r.first_unassembled = 0 /\ r.bytes_pending = 0 /\ e \in BOOLEAN
      BY <1>2 DEF Fresh
    <2>2. m = [r EXCEPT !.reach_end = e]
      BY DEF MarkEnd
    <2> HIDE DEF n, popped, e
    <2>3. /\ m \in Reassemblers(0) /\ m.first_unassembled = 0 /\ m.bytes_pending = 0
          /\ m.reach_end = e /\ m.buffer_size = 0
      BY <2>1, <2>2 DEF Reassemblers
    <2> HIDE DEF m
    <2>4. available_capacity(o) = n
      <3>1. o.capacity = n /\ popped + Len(o.queue) = 0 /\ popped \in Nat /\ Len(o.queue) \in Nat
        BY <2>1 DEF Delivers, Streams, n, popped
      <3> QED BY <1>0, <3>1 DEF available_capacity, bytes_buffered
    <2>5. s = [m EXCEPT !.buffer_size = n, !.sliding_window = [i \in 0..n - 1 |-> NoByte],
                        !.bitmap = NewBitmap(n)]
      BY <2>3, <2>4 DEF SizeWindow
    <2>6. NewBitmap(n) \in BitmapOf(n) /\ Bits(NewBitmap(n)) = {}
      BY <1>0, NewBits
    <2> HIDE DEF s
    <2>7. [i \in 0..n - 1 |-> NoByte] \in [0..n - 1 -> Indices \union {NoByte}]
      OBVIOUS
    <2>8. /\ s \in Reassemblers(n) /\ s.first_unassembled = 0 /\ s.bytes_pending = 0
          /\ s.reach_end = e /\ s.bitmap = NewBitmap(n)
      BY <1>0, <2>3, <2>5, <2>6, <2>7 DEF Reassemblers
    <2>9. Slots({}, n) = {} /\ Cardinality({}) = 0
      BY FS_EmptySet DEF Slots
    <2>10. n # 0 => Holds(s, {}, popped)
      BY <2>6, <2>8, <2>9 DEF Holds, n
    <2>11. n = 0 => Fresh(s)
      BY <2>8 DEF Fresh
    <2> QED BY <1>2, <2>1, <2>8, <2>10, <2>11 DEF Keeps, popped, n, s, m, e
  <1> QED BY <1>1, <1>2 DEF Keeps

\* The scope guard closes the stream, if anything.
LEMMA Closing ==
    ASSUME NEW res, NEW fu, Delivers(res.output, fu), res \in [r : {res.r}, output : {res.output}]
    PROVE  /\ Delivers(CloseAtEnd(res).output, fu) /\ CloseAtEnd(res).r = res.r
           /\ CloseAtEnd(res).output.bytes_popped = res.output.bytes_popped
           /\ res.r.reach_end /\ res.r.bytes_pending = 0 => CloseAtEnd(res).output.closed
  <1> DEFINE o == res.output
  <1>1. res = [r |-> res.r, output |-> o] /\ o \in Streams
    BY DEF Delivers
  <1>2. /\ close(o) \in Streams /\ close(o).queue = o.queue /\ close(o).bytes_pushed = o.bytes_pushed
        /\ close(o).bytes_popped = o.bytes_popped /\ close(o).closed
    <2> HIDE DEF o
    <2> QED BY <1>1 DEF close, Streams
  <1>3. Delivers(close(o), fu)
    BY <1>2 DEF Delivers
  <1> HIDE DEF o
  <1>4. CASE res.r.reach_end /\ res.r.bytes_pending = 0
    <2>1. CloseAtEnd(res) = [res EXCEPT !.output = close(o)]
      BY <1>4 DEF CloseAtEnd, o
    <2>2. CloseAtEnd(res).output = close(o) /\ CloseAtEnd(res).r = res.r
      BY <1>1, <2>1
    <2> QED BY <1>2, <1>3, <2>2 DEF o
  <1>5. CASE ~(res.r.reach_end /\ res.r.bytes_pending = 0)
    BY <1>5 DEF CloseAtEnd
  <1> QED BY <1>4, <1>5

\* The bytes known once r and its window have H.
KnownBytes(fu, H) == 0..fu - 1 \union H

\* What an insert leaves of the state: the bytes that came and had room are
\* known, and with all of them written the announced end has closed the stream.
After(r, o, H, first, len, res, H2) ==
    /\ Keeps(res.r, H2, o.bytes_popped)
    /\ Delivers(res.output, res.r.first_unassembled)
    /\ KnownBytes(res.r.first_unassembled, H2)
         = KnownBytes(r.first_unassembled, H)
             \union ((first..first + len - 1) \intersect (0..o.bytes_popped + Capacity - 1))
    /\ res.output.bytes_popped = o.bytes_popped
    /\ res.r.reach_end /\ res.r.first_unassembled = StreamLen => res.output.closed

\* With every byte written nothing is left in the window.
LEMMA NothingLeft ==
    ASSUME NEW r, NEW H, NEW popped, Keeps(r, H, popped), r.first_unassembled = StreamLen
    PROVE  r.bytes_pending = 0
  <1>1. CASE Holds(r, H, popped)
    <2>1. H = {}
      <3>1. ASSUME NEW i \in H PROVE FALSE
        <4>1. i \in 0..StreamLen - 1 /\ StreamLen < i /\ StreamLen \in Nat
          BY <1>1, StreamAssumption DEF Holds, Indices
        <4> QED BY <4>1
      <3> QED BY <3>1
    <2>2. r.bytes_pending = Cardinality({})
      BY <1>1, <2>1 DEF Holds
    <2> QED BY <2>2, FS_EmptySet
  <1>2. CASE Fresh(r)
    BY <1>2 DEF Fresh
  <1> QED BY <1>1, <1>2 DEF Keeps

\* Every way through insert ends in a state as After says.
LEMMA InsertStep ==
    ASSUME ShortSubstrings, NEW r, NEW o, NEW H, NEW first \in 0..StreamLen, NEW len \in 0..MaxSegment,
           first + len <= StreamLen, NEW last \in BOOLEAN,
           Keeps(r, H, o.bytes_popped), Delivers(o, r.first_unassembled)
    PROVE  \E H2 : After(r, o, H, first, len, insert(r, o, first, Substring(first, len), last), H2)
  <1> DEFINE n == Capacity
             fu == r.first_unassembled
             popped == o.bytes_popped
             data == Substring(first, len)
             s == SizeWindow(MarkEnd(r, last), o)
             tail == DataTail(s, o, first, data)
             mid == IF Discards(s, first, tail) THEN [r |-> s, output |-> o]
                    ELSE IF first <= s.first_unassembled THEN Assemble(s, o, first, data, tail)
                    ELSE Store(s, o, first, data, tail)
             res == insert(r, o, first, data, last)
  <1>1. /\ Keeps(s, H, popped) /\ (n # 0 => Holds(s, H, popped)) /\ s.first_unassembled = fu
    BY Sized
  <1>2. res = CloseAtEnd(mid)
    BY DEF insert
  <1>3. Delivers(o, fu) /\ Delivers(o, s.first_unassembled)
    BY <1>1
  <1> HIDE DEF s
  <1>4. Arrives(first, len, tail, popped)
    BY <1>3, TailOf
  <1>5. /\ n \in Nat /\ popped \in Nat /\ fu \in Nat /\ first \in Nat /\ len \in Nat
        /\ (n = 0 => fu = popped)
    <2>1. n \in Nat /\ StreamLen \in Nat /\ MaxSegment \in Nat
      BY StreamAssumption
    <2>2. popped \in Nat /\ Len(o.queue) \in Nat /\ popped + Len(o.queue) = fu /\ Len(o.queue) <= n
      BY <1>3 DEF Delivers, Streams
    <2> HIDE DEF fu, popped, n
    <2> QED BY <2>1, <2>2
  <1>6. tail = Smaller(first + len, popped + n)
    BY <1>4 DEF Arrives
  <1> HIDE DEF tail, fu, popped, n, data, res
  <1>7. first..tail - 1 = (first..first + len - 1) \intersect (0..popped + n - 1)
    <2>1. first + len \in Nat /\ popped + n \in Nat
      BY <1>5
    <2>2. tail \in Nat /\ tail <= first + len /\ tail <= popped + n /\ (tail = first + len \/ tail = popped + n)
      BY <1>6, <2>1 DEF Smaller
    <2>3. ASSUME NEW i \in Int
          PROVE  first <= i /\ i <= tail - 1
                   <=> first <= i /\ i <= first + len - 1 /\ 0 <= i /\ i <= popped + n - 1
      BY <1>5, <2>2
    <2> QED BY <2>3
  <1>8. \E H2 : /\ Keeps(mid.r, H2, popped)
                /\ Delivers(mid.output, mid.r.first_unassembled)
                /\ KnownBytes(mid.r.first_unassembled, H2) = KnownBytes(fu, H) \union (first..tail - 1)
                /\ mid.output.bytes_popped = popped
                /\ mid = [r |-> mid.r, output |-> mid.output]
    <2>1. CASE Discards(s, first, tail)
      <3>1. mid.r = s /\ mid.output = o /\ mid = [r |-> s, output |-> o]
        BY <2>1
      <3>2. first..tail - 1 \subseteq 0..fu - 1
        <4>1. tail \in Nat
          BY <1>5, <1>6 DEF Smaller
        <4>2. first >= tail \/ fu >= tail
          BY <1>1, <2>1 DEF Discards
        <4> QED BY <1>5, <4>1, <4>2
      <3>3. KnownBytes(fu, H) = KnownBytes(fu, H) \union (first..tail - 1)
        BY <3>2 DEF KnownBytes
      <3> HIDE DEF mid
      <3> QED BY <1>1, <1>3, <3>1, <3>3 DEF popped
    <2>2. CASE ~Discards(s, first, tail)
      <3>1. tail \in Nat /\ first < tail /\ fu < tail
        <4>1. tail \in Nat
          BY <1>5, <1>6 DEF Smaller
        <4>2. ~(first >= tail) /\ ~(fu >= tail)
          BY <1>1, <2>2 DEF Discards
        <4> QED BY <1>5, <4>1, <4>2
      <3>2. Holds(s, H, popped)
        <4>1. n # 0
          <5>1. n = 0 => tail <= fu
            BY <1>5, <1>6 DEF Smaller
          <5> QED BY <1>5, <3>1, <5>1
        <4> QED BY <1>1, <4>1
      <3>3. mid = IF first <= fu THEN Assemble(s, o, first, data, tail) ELSE Store(s, o, first, data, tail)
        BY <1>1, <2>2
      <3>4. mid = [r |-> mid.r, output |-> mid.output]
        BY <3>3 DEF Assemble, Store
      <3> HIDE DEF mid
      <3>5. \E H2 : Result(s, o, H, first, tail, mid, H2)
        <4>1. CASE first <= fu
          <5>1. mid = Assemble(s, o, first, data, tail)
            BY <3>3, <4>1
          <5> QED BY <1>1, <1>3, <1>4, <3>1, <3>2, <4>1, <5>1, AssembleStep DEF data, popped
        <4>2. CASE ~(first <= fu)
          <5>1. mid = Store(s, o, first, data, tail) /\ fu < first
            BY <1>5, <3>3, <4>2
          <5> QED BY <1>1, <1>3, <1>4, <3>1, <3>2, <5>1, StoreStep DEF data, popped
        <4> QED BY <4>1, <4>2
      <3>6. PICK H2 : Result(s, o, H, first, tail, mid, H2)
        BY <3>5
      <3>7. /\ Keeps(mid.r, H2, popped)
            /\ Delivers(mid.output, mid.r.first_unassembled)
            /\ mid.output.bytes_popped = popped
        BY <3>6 DEF Result, Keeps, popped
      <3>8. KnownBytes(mid.r.first_unassembled, H2) = KnownBytes(fu, H) \union (first..tail - 1)
        BY <1>1, <3>6 DEF Result, KnownBytes
      <3> QED BY <3>4, <3>7, <3>8
    <2> QED BY <2>1, <2>2
  <1> HIDE DEF mid
  <1>9. PICK H2 : /\ Keeps(mid.r, H2, popped)
                  /\ Delivers(mid.output, mid.r.first_unassembled)
                  /\ KnownBytes(mid.r.first_unassembled, H2) = KnownBytes(fu, H) \union (first..tail - 1)
                  /\ mid.output.bytes_popped = popped
                  /\ mid = [r |-> mid.r, output |-> mid.output]
    BY <1>8
  <1>10. /\ Delivers(res.output, mid.r.first_unassembled) /\ res.r = mid.r
         /\ res.output.bytes_popped = popped
         /\ mid.r.reach_end /\ mid.r.bytes_pending = 0 => res.output.closed
    <2>1. mid \in [r : {mid.r}, output : {mid.output}]
      BY <1>9
    <2>2. /\ Delivers(CloseAtEnd(mid).output, mid.r.first_unassembled) /\ CloseAtEnd(mid).r = mid.r
          /\ CloseAtEnd(mid).output.bytes_popped = mid.output.bytes_popped
          /\ mid.r.reach_end /\ mid.r.bytes_pending = 0 => CloseAtEnd(mid).output.closed
      BY <1>9, <2>1, Closing
    <2> QED BY <1>2, <1>9, <2>2
  <1>11. mid.r.first_unassembled = StreamLen => mid.r.bytes_pending = 0
    BY <1>9, NothingLeft
  <1>12. After(r, o, H, first, len, res, H2)
    BY <1>7, <1>9, <1>10, <1>11 DEF After, popped, n, fu
  <1> QED BY <1>12 DEF res, data

------------------------------------------------------------------------------
(* The invariant. *)

Inv ==
    /\ Delivers(inbound, FirstUnassembled)
    /\ \E H : Keeps(reassembler, H, inbound.bytes_popped)
    /\ CompleteIsClosed

HeldOf(r) ==
    {i \in r.first_unassembled..r.first_unassembled + r.buffer_size - 1 : get(r.bitmap, i % r.buffer_size)}

\* What is held can be read off the bitmap.
LEMMA HeldIs ==
    ASSUME NEW r, NEW H, NEW popped \in Nat, Keeps(r, H, popped), popped <= r.first_unassembled
    PROVE  HeldOf(r) = H
  <1>1. CASE Holds(r, H, popped)
    <2> DEFINE n == Capacity
               fu == r.first_unassembled
    <2>1. /\ n \in Nat \ {0} /\ fu \in Nat /\ r.buffer_size = n /\ r.bitmap \in BitmapOf(n)
          /\ H \in SUBSET (fu..fu + n - 1)
      BY <1>1, HoldsParts
    <2>2. Bits(r.bitmap) = Slots(H, n)
      BY <1>1 DEF Holds
    <2> HIDE DEF n, fu
    <2>3. \A i \in fu..fu + n - 1 : get(r.bitmap, i % n) <=> i \in H
      BY <2>1, <2>2, GetSlot
    <2> QED BY <2>1, <2>3 DEF HeldOf, fu
  <1>2. CASE Fresh(r) /\ H = {}
    <2>1. r.first_unassembled = 0 /\ r.buffer_size = 0
      BY <1>2 DEF Fresh, Reassemblers
    <2>2. 0..0 + 0 - 1 = {}
      OBVIOUS
    <2> QED BY <1>2, <2>1, <2>2 DEF HeldOf
  <1> QED BY <1>1, <1>2 DEF Keeps

\* Reading takes bytes from the front of what is unread.
LEMMA PopStep ==
    ASSUME NEW o, NEW fu, Delivers(o, fu), NEW len \in Nat
    PROVE  /\ Delivers(pop(o, len), fu) /\ pop(o, len).closed = o.closed
           /\ o.bytes_popped \in Nat /\ pop(o, len).bytes_popped \in Nat
           /\ o.bytes_popped <= pop(o, len).bytes_popped /\ pop(o, len).bytes_popped <= fu
  <1> DEFINE q == o.queue
             k == Smaller(len, Len(q))
             rest == SubSeq(q, k + 1, Len(q))
             p == pop(o, len)
  <1>1. /\ o \in Streams /\ q \in Seq(Indices) /\ o.bytes_popped \in Nat /\ o.bytes_popped + Len(q) = fu
        /\ Len(q) <= Capacity /\ Len(q) \in Nat /\ o.bytes_pushed = fu
        /\ \A i \in 1..Len(q) : q[i] = o.bytes_popped + i - 1
        /\ Capacity \in Nat
    BY StreamAssumption DEF Delivers, Streams
  <1>2. k \in 0..Len(q)
    BY <1>1 DEF Smaller
  <1>3. p = [o EXCEPT !.queue = rest, !.bytes_popped = o.bytes_popped + k]
    BY DEF pop, bytes_buffered
  <1> HIDE DEF q, k, p
  <1>4. rest \in Seq(Indices) /\ Len(rest) = Len(q) - k /\ \A i \in 1..Len(q) - k : rest[i] = q[k + i]
    <2>1. q \in Seq(Indices) /\ k \in 0..Len(q)
      BY <1>1, <1>2
    <2> QED BY <2>1
  <1> HIDE DEF rest
  <1>5. /\ p \in Streams /\ p.queue = rest /\ p.bytes_pushed = o.bytes_pushed
        /\ p.bytes_popped = o.bytes_popped + k /\ p.closed = o.closed
    <2>1. o \in Streams /\ rest \in Seq(Indices) /\ o.bytes_popped + k \in Nat
      BY <1>1, <1>2, <1>4
    <2> QED BY <1>3, <2>1 DEF Streams
  <1>6. ASSUME NEW i \in 1..Len(rest) PROVE rest[i] = p.bytes_popped + i - 1
    <2>1. i \in 1..Len(q) - k /\ k + i \in 1..Len(q)
      BY <1>1, <1>2, <1>4
    <2>2. rest[i] = q[k + i] /\ q[k + i] = o.bytes_popped + (k + i) - 1
      BY <1>1, <1>4, <2>1
    <2>3. o.bytes_popped \in Nat /\ k \in Nat
      BY <1>1, <1>2
    <2> QED BY <1>5, <2>1, <2>2, <2>3
  <1>7. p.bytes_popped + Len(rest) = fu /\ Len(rest) <= Capacity
    BY <1>1, <1>2, <1>4, <1>5
  <1>8. Delivers(p, fu)
    BY <1>1, <1>5, <1>6, <1>7 DEF Delivers
  <1>9. p.bytes_popped \in Nat /\ o.bytes_popped <= p.bytes_popped /\ p.bytes_popped <= fu
    BY <1>1, <1>2, <1>5
  <1> QED BY <1>1, <1>5, <1>8, <1>9 DEF p

\* and makes room.
LEMMA KeepsMore ==
    ASSUME NEW r, NEW H, NEW popped \in Nat, NEW more \in Nat, Keeps(r, H, popped), popped <= more
    PROVE  Keeps(r, H, more)
  <1>1. CASE Holds(r, H, popped)
    <2>1. Capacity \in Nat /\ StreamLen \in Nat
      BY StreamAssumption
    <2>2. ASSUME NEW i \in H PROVE r.first_unassembled < i /\ i < more + Capacity
      <3>1. i \in Int /\ i < popped + Capacity /\ r.first_unassembled < i
        BY <1>1, <2>1 DEF Holds, Indices
      <3> QED BY <2>1, <3>1
    <2>3. Holds(r, H, more)
      BY <1>1, <2>2 DEF Holds
    <2> QED BY <2>3 DEF Keeps
  <1>2. CASE Fresh(r) /\ H = {}
    BY <1>2 DEF Keeps
  <1> QED BY <1>1, <1>2 DEF Keeps

\* The state at the start.
LEMMA Start ==
    ASSUME Init
    PROVE  /\ Delivers(inbound, 0) /\ Keeps(reassembler, {}, 0)
           /\ FirstUnassembled = 0 /\ inbound.bytes_popped = 0 /\ reassembler.reach_end = FALSE
  <1>1. inbound = [capacity |-> Capacity, queue |-> <<>>, closed |-> FALSE, error |-> FALSE,
                  bytes_pushed |-> 0, bytes_popped |-> 0]
    BY DEF Init, NewStream
  <1>2. <<>> \in Seq(Indices) /\ Len(<<>>) = 0
    OBVIOUS
  <1>3. Delivers(inbound, 0)
    <2>1. inbound \in Streams
      BY <1>1, <1>2 DEF Streams
    <2> QED BY <1>1, <1>2, <2>1, StreamAssumption DEF Delivers
  <1>4. reassembler = [first_unassembled |-> 0, bytes_pending |-> 0, reach_end |-> FALSE,
                       buffer_size |-> 0, sliding_window |-> <<>>, bitmap |-> NewBitmap(0)]
    BY DEF Init, NewReassembler
  <1>5. NewBitmap(0) \in BitmapOf(0)
    BY NewBits
  <1>6. <<>> \in [0..0 - 1 -> Indices \union {NoByte}]
    OBVIOUS
  <1>7. reassembler \in Reassemblers(0)
    BY <1>4, <1>5, <1>6, StreamAssumption DEF Reassemblers
  <1>8. Fresh(reassembler)
    BY <1>4, <1>7 DEF Fresh
  <1> QED BY <1>1, <1>3, <1>4, <1>8 DEF Keeps, FirstUnassembled

\* A step from a state that keeps H to one that keeps H2, as After says.
Inserted(first, len, H, H2) ==
    /\ Keeps(reassembler, H, inbound.bytes_popped)
    /\ Keeps(reassembler', H2, inbound.bytes_popped)
    /\ Delivers(inbound', reassembler'.first_unassembled)
    /\ KnownBytes(reassembler'.first_unassembled, H2)
         = KnownBytes(reassembler.first_unassembled, H)
             \union ((first..first + len - 1) \intersect (0..inbound.bytes_popped + Capacity - 1))
    /\ inbound'.bytes_popped = inbound.bytes_popped
    /\ reassembler'.reach_end /\ reassembler'.first_unassembled = StreamLen => inbound'.closed

\* An insert in a reachable state is such a step.
LEMMA InsertResult ==
    ASSUME ShortSubstrings, Inv, NEW first \in 0..StreamLen, NEW len \in 0..MaxSegment, NEW last \in BOOLEAN,
           Insert(first, len, last)
    PROVE  \E H, H2 : Inserted(first, len, H, H2)
  <1> DEFINE res == insert(reassembler, inbound, first, Substring(first, len), last)
  <1>1. PICK H : Keeps(reassembler, H, inbound.bytes_popped)
    BY DEF Inv
  <1>2. Delivers(inbound, reassembler.first_unassembled)
    BY DEF Inv, FirstUnassembled
  <1>3. first + len <= StreamLen /\ reassembler' = res.r /\ inbound' = res.output
    BY DEF Insert
  <1>4. \E H2 : After(reassembler, inbound, H, first, len, res, H2)
    BY <1>1, <1>2, <1>3, InsertStep
  <1> HIDE DEF res
  <1>5. PICK H2 : After(reassembler, inbound, H, first, len, res, H2)
    BY <1>4
  <1> QED BY <1>1, <1>3, <1>5 DEF After, Inserted

\* A new Reassembler and its stream keep nothing.
LEMMA InitInv == Init => Inv
  <1> SUFFICES ASSUME Init PROVE Inv
    OBVIOUS
  <1>1. /\ Delivers(inbound, FirstUnassembled) /\ Keeps(reassembler, {}, inbound.bytes_popped)
        /\ ~reassembler.reach_end
    BY Start
  <1> QED BY <1>1 DEF Inv, CompleteIsClosed

\* Reading leaves the window as it is.
LEMMA ReadInv ==
    ASSUME Inv, NEW len \in 1..Capacity, Read(len)
    PROVE  Inv'
  <1>1. /\ inbound' = pop(inbound, len) /\ reassembler' = reassembler /\ len \in Nat
    BY StreamAssumption DEF Read
  <1>2. Delivers(inbound, FirstUnassembled) /\ CompleteIsClosed
    BY DEF Inv
  <1>3. PICK H : Keeps(reassembler, H, inbound.bytes_popped)
    BY DEF Inv
  <1>4. /\ Delivers(inbound', FirstUnassembled) /\ inbound'.closed = inbound.closed
        /\ inbound.bytes_popped \in Nat /\ inbound'.bytes_popped \in Nat
        /\ inbound.bytes_popped <= inbound'.bytes_popped
    BY <1>1, <1>2, PopStep
  <1>5. Keeps(reassembler', H, inbound'.bytes_popped)
    BY <1>1, <1>3, <1>4, KeepsMore
  <1> QED BY <1>1, <1>2, <1>4, <1>5 DEF Inv, CompleteIsClosed, FirstUnassembled

\* Inv is inductive.
LEMMA NextInv ==
    ASSUME ShortSubstrings, Inv, [Next]_vars
    PROVE  Inv'
  <1>1. ASSUME NEW first \in 0..StreamLen, NEW len \in 0..MaxSegment, NEW last \in BOOLEAN, Insert(first, len, last)
        PROVE  Inv'
    <2>1. PICK H, H2 : Inserted(first, len, H, H2)
      BY <1>1, InsertResult
    <2> QED BY <2>1 DEF Inserted, Inv, CompleteIsClosed, FirstUnassembled
  <1>2. ASSUME NEW len \in 1..Capacity, Read(len) PROVE Inv'
    BY <1>2, ReadInv
  <1>3. CASE UNCHANGED vars
    BY <1>3 DEF vars, Inv, CompleteIsClosed, FirstUnassembled
  <1> QED BY <1>1, <1>2, <1>3 DEF Next

\* What Inv says of the counters and of what is held.
LEMMA InvParts ==
    ASSUME Inv
    PROVE  /\ inbound.bytes_popped \in Nat /\ FirstUnassembled \in 0..StreamLen
           /\ inbound.bytes_popped <= FirstUnassembled
           /\ Keeps(reassembler, Held, inbound.bytes_popped)
  <1>1. Delivers(inbound, FirstUnassembled)
    BY DEF Inv
  <1>2. PICK H : Keeps(reassembler, H, inbound.bytes_popped)
    BY DEF Inv
  <1>3. FirstUnassembled \in 0..StreamLen
    BY <1>2 DEF Keeps, Holds, Fresh, Reassemblers, FirstUnassembled
  <1>4. inbound.bytes_popped \in Nat /\ inbound.bytes_popped <= FirstUnassembled
    <2>1. inbound.bytes_popped \in Nat /\ Len(inbound.queue) \in Nat /\ inbound.bytes_popped + Len(inbound.queue) = FirstUnassembled
      BY <1>1 DEF Delivers, Streams
    <2> QED BY <2>1
  <1>5. Held = H
    <2>1. Held = HeldOf(reassembler)
      BY DEF Held, HeldOf, FirstUnassembled, Size
    <2>2. inbound.bytes_popped <= reassembler.first_unassembled
      BY <1>4 DEF FirstUnassembled
    <2> QED BY <1>2, <1>4, <2>1, <2>2, HeldIs
  <1> QED BY <1>2, <1>3, <1>4, <1>5

------------------------------------------------------------------------------
\* Inv holds in every reachable state, for short substrings.
THEOREM Invariance == ASSUME ShortSubstrings PROVE Spec => []Inv
  <1>1. Inv /\ [Next]_vars => Inv'
    BY NextInv
  <1> QED BY <1>1, InitInv, PTL DEF Spec

\* The fields hold what their types and the capacity allow.
THEOREM TypeCorrect == ASSUME ShortSubstrings PROVE Spec => []TypeOK
  <1>1. ASSUME Inv PROVE TypeOK
    <2>1. /\ inbound.bytes_popped \in Nat /\ FirstUnassembled \in 0..StreamLen
          /\ inbound.bytes_popped <= FirstUnassembled
          /\ Keeps(reassembler, Held, inbound.bytes_popped)
      BY <1>1, InvParts
    <2>2. inbound.queue \in Seq(0..StreamLen - 1)
      BY <1>1 DEF Inv, Delivers, Streams, Indices
    <2>3. Capacity \in Nat
      BY StreamAssumption
    <2>4. /\ Size \in {0, Capacity} /\ reassembler.reach_end \in BOOLEAN
          /\ reassembler.sliding_window \in [0..Size - 1 -> 0..StreamLen - 1 \union {NoByte}]
      BY <2>1 DEF Keeps, Holds, Fresh, Reassemblers, Size, Indices
    <2>5. reassembler.bytes_pending \in 0..Capacity
      <3>1. CASE Holds(reassembler, Held, inbound.bytes_popped)
        <4> DEFINE fu == FirstUnassembled
                   W == fu..fu + Capacity - 1
        <4>1. /\ Held \in SUBSET W /\ reassembler.bytes_pending = Cardinality(Held)
              /\ Cardinality(Held) \in Nat
          <5>1. inbound.bytes_popped \in Nat /\ inbound.bytes_popped <= reassembler.first_unassembled
            BY <2>1 DEF FirstUnassembled
          <5>2. /\ Held \in SUBSET (reassembler.first_unassembled..reassembler.first_unassembled + Capacity - 1)
                /\ Cardinality(Held) \in Nat
            BY <3>1, <5>1, HoldsParts
          <5>3. reassembler.bytes_pending = Cardinality(Held)
            BY <3>1 DEF Holds
          <5> QED BY <5>2, <5>3 DEF FirstUnassembled
        <4>2. IsFiniteSet(W) /\ Cardinality(W) = Capacity
          <5>1. fu \in Int /\ fu + Capacity - 1 \in Int
            BY <2>1, <2>3
          <5>2. IsFiniteSet(W) /\ Cardinality(W) = IF fu > fu + Capacity - 1 THEN 0 ELSE (fu + Capacity - 1) - fu + 1
            BY <5>1, FS_Interval
          <5> HIDE DEF W
          <5> QED BY <2>1, <2>3, <5>2
        <4> HIDE DEF W
        <4>3. Cardinality(Held) <= Cardinality(W)
          BY <4>1, <4>2, FS_Subset
        <4> QED BY <2>3, <4>1, <4>2, <4>3
      <3>2. CASE Fresh(reassembler)
        BY <2>3, <3>2 DEF Fresh
      <3> QED BY <2>1, <3>1, <3>2 DEF Keeps
    <2> QED BY <2>1, <2>2, <2>4, <2>5 DEF TypeOK
  <1> QED BY <1>1, Invariance, PTL

\* The stream has the original bytes, in order and without holes.
THEOREM DeliversIntact == ASSUME ShortSubstrings PROVE Spec => []StreamIntact
  <1>1. ASSUME Inv PROVE StreamIntact
    BY <1>1 DEF Inv, Delivers, StreamIntact
  <1> QED BY <1>1, Invariance, PTL

\* The counter, the bitmap and the slots of the window agree.
THEOREM WindowAgrees == ASSUME ShortSubstrings PROVE Spec => []WindowConsistent
  <1>1. ASSUME Inv PROVE WindowConsistent
    <2>1. FirstUnassembled \in 0..StreamLen /\ Keeps(reassembler, Held, inbound.bytes_popped)
      BY <1>1, InvParts
    <2>2. CASE Holds(reassembler, Held, inbound.bytes_popped)
      <3>1. FirstUnassembled \notin Held
        BY <2>1, <2>2 DEF Holds, FirstUnassembled
      <3>2. Size = Capacity
        BY <2>2 DEF Holds, Reassemblers, Size
      <3> QED BY <2>2, <3>1, <3>2 DEF Holds, WindowConsistent
    <2>3. CASE Fresh(reassembler) /\ Held = {}
      BY <2>3, FS_EmptySet DEF Fresh, WindowConsistent
    <2> QED BY <2>1, <2>2, <2>3 DEF Keeps
  <1> QED BY <1>1, Invariance, PTL

\* No order of arrival forgets the end of the stream.
THEOREM EndIsSeen == ASSUME ShortSubstrings PROVE Spec => []CompleteIsClosed
  <1>1. Inv => CompleteIsClosed
    BY DEF Inv
  <1> QED BY <1>1, Invariance, PTL

\* The bytes in front of the first gap are those written.
LEMMA AssembledIs ==
    ASSUME NEW fu \in 0..StreamLen, NEW H \in SUBSET Int, fu \notin H
    PROVE  Abstract!Assembled(KnownBytes(fu, H)) = fu
  <1> DEFINE K == KnownBytes(fu, H)
  <1>1. fu \in 0..StreamLen /\ 0..fu - 1 \subseteq K /\ fu \notin K
    BY DEF KnownBytes
  <1>2. ASSUME NEW x \in 0..StreamLen, 0..x - 1 \subseteq K, x \notin K PROVE x = fu
    <2>1. ~(x < fu)
      BY <1>2 DEF KnownBytes
    <2>2. ~(fu < x)
      <3>1. fu < x => fu \in 0..x - 1
        OBVIOUS
      <3> HIDE DEF K
      <3> QED BY <1>1, <1>2, <3>1
    <2> QED BY <2>1, <2>2
  <1> HIDE DEF K
  <1> QED BY <1>1, <1>2 DEF Abstract!Assembled, K

\* Every insert makes known what came and had room, every read takes at most
\* what was written: the Reassembler is a ReassemblerSpec.
THEOREM Refinement == ASSUME ShortSubstrings PROVE Spec => ImplementsReassembler
  <1> DEFINE known == KnownBytes(FirstUnassembled, Held)
             popped == inbound.bytes_popped
  <1>1. Init => Abstract!Init
    <2> SUFFICES ASSUME Init PROVE Abstract!Init
      OBVIOUS
    <2>1. FirstUnassembled = 0 /\ popped = 0 /\ Inv
      BY Start, InitInv
    <2>2. Held = {}
      <3>1. HeldOf(reassembler) = {}
        BY Start, HeldIs DEF FirstUnassembled
      <3> QED BY <3>1 DEF Held, HeldOf, FirstUnassembled, Size
    <2>3. 0..FirstUnassembled - 1 \union Held = {}
      BY <2>1, <2>2
    <2> QED BY <2>1, <2>3 DEF Abstract!Init
  <1>2. ASSUME Inv, Inv', [Next]_vars PROVE [Abstract!Next]_(Abstract!vars)
    <2>1. ASSUME NEW first \in 0..StreamLen, NEW len \in 0..MaxSegment, NEW last \in BOOLEAN, Insert(first, len, last)
          PROVE  Abstract!Insert
      <3>1. PICK H, H2 : Inserted(first, len, H, H2)
        BY <1>2, <2>1, InsertResult
      <3>2. Held = H /\ FirstUnassembled = reassembler.first_unassembled
        <4>1. popped \in Nat /\ popped <= reassembler.first_unassembled
          BY <1>2, InvParts DEF FirstUnassembled
        <4>2. HeldOf(reassembler) = H
          BY <3>1, <4>1, HeldIs DEF Inserted
        <4> QED BY <4>2 DEF Held, HeldOf, FirstUnassembled, Size
      <3>3. Held' = H2 /\ FirstUnassembled' = reassembler'.first_unassembled
        <4>1. popped \in Nat
          BY <1>2, InvParts
        <4>2. popped <= reassembler'.first_unassembled
          <5>1. inbound'.bytes_popped + Len(inbound'.queue) = reassembler'.first_unassembled /\ Len(inbound'.queue) \in Nat
            BY <3>1 DEF Inserted, Delivers, Streams
          <5> QED BY <3>1, <4>1, <5>1 DEF Inserted
        <4>3. HeldOf(reassembler') = H2
          BY <3>1, <4>1, <4>2, HeldIs DEF Inserted
        <4> QED BY <4>3 DEF Held, HeldOf, FirstUnassembled, Size
      <3>4. known' = known \union ((first..first + len - 1) \intersect (0..popped + Capacity - 1))
        BY <3>1, <3>2, <3>3 DEF Inserted
      <3>5. first + len <= StreamLen
        BY <2>1 DEF Insert
      <3> QED BY <3>1, <3>4, <3>5 DEF Inserted, Abstract!Insert, KnownBytes
    <2>2. ASSUME NEW len \in 1..Capacity, Read(len) PROVE Abstract!Read
      <3>1. reassembler' = reassembler /\ inbound' = pop(inbound, len) /\ len \in Nat
        BY <2>2, StreamAssumption DEF Read
      <3>2. Held' = Held /\ FirstUnassembled' = FirstUnassembled
        BY <3>1 DEF Held, FirstUnassembled, Size
      <3>3. /\ popped \in Nat /\ popped' \in Nat /\ popped <= popped' /\ popped' <= FirstUnassembled
        <4>1. Delivers(inbound, FirstUnassembled)
          BY <1>2 DEF Inv
        <4> QED BY <3>1, <4>1, PopStep
      <3>4. FirstUnassembled \in 0..StreamLen
        BY <1>2, InvParts
      <3>5. Abstract!Assembled(known) = FirstUnassembled
        <4>1. Held \in SUBSET Int /\ FirstUnassembled \notin Held
          <5>1. Keeps(reassembler, Held, popped)
            BY <1>2, InvParts
          <5> QED BY <3>4, <5>1, StreamAssumption DEF Keeps, Holds, Fresh, Indices, FirstUnassembled
        <4> QED BY <3>4, <4>1, AssembledIs
      <3>6. popped' \in popped..Abstract!Assembled(known)
        BY <3>3, <3>4, <3>5
      <3>7. known' = known
        BY <3>2
      <3> QED BY <3>6, <3>7 DEF Abstract!Read, KnownBytes
    <2>3. CASE UNCHANGED vars
      BY <2>3 DEF vars, Abstract!vars, Held, FirstUnassembled, Size
    <2> QED BY <1>2, <2>1, <2>2, <2>3 DEF Next, Abstract!Next
  <1> QED BY <1>1, <1>2, Invariance, PTL DEF Spec, ImplementsReassembler, Abstract!Spec

------------------------------------------------------------------------------
(* The receiver in front of the Reassembler. *)

Seqno == INSTANCE SeqnoConversionProofs WITH
    MaxPosition <- 0, raw_value <- 0, zero_point <- 0, checkpoint <- 0

\* What an insert does to the end of the stream: once announced it stays so, and
\* the stream is closed when it is and nothing is stored behind a gap.
Ends(r, o, last, res) ==
    /\ res.r.reach_end = (r.reach_end \/ last)
    /\ res.output.closed = (o.closed \/ (res.r.reach_end /\ res.r.bytes_pending = 0))

LEMMA InsertFlags ==
    ASSUME NEW r, NEW o, NEW H, NEW first, NEW data, NEW last \in BOOLEAN,
           Keeps(r, H, o.bytes_popped), Delivers(o, r.first_unassembled)
    PROVE  Ends(r, o, last, insert(r, o, first, data, last))
  <1> DEFINE res == insert(r, o, first, data, last)
             s == SizeWindow(MarkEnd(r, last), o)
             tail == DataTail(s, o, first, data)
             e == r.reach_end \/ last
             mid == IF Discards(s, first, tail) THEN [r |-> s, output |-> o]
                    ELSE IF first <= s.first_unassembled THEN Assemble(s, o, first, data, tail)
                    ELSE Store(s, o, first, data, tail)
  <1>1. Keeps(s, H, o.bytes_popped) /\ s.reach_end = e
    BY Sized
  <1>2. res = CloseAtEnd(mid)
    BY DEF insert
  <1>3. s = [s EXCEPT !.reach_end = e] /\ "reach_end" \in DOMAIN s /\ e \in BOOLEAN
    <2>1. \E n : s \in Reassemblers(n)
      BY <1>1 DEF Keeps, Holds, Fresh
    <2>2. r.reach_end \in BOOLEAN
      BY DEF Keeps, Holds, Fresh, Reassemblers
    <2> HIDE DEF s
    <2> QED BY <1>1, <2>1, <2>2 DEF Reassemblers
  <1>4. o \in Streams
    BY DEF Delivers
  <1> HIDE DEF s, e, tail
  <1>5. mid.r.reach_end = e /\ mid.output.closed = o.closed /\ mid = [r |-> mid.r, output |-> mid.output]
        /\ "closed" \in DOMAIN mid.output /\ mid.output.closed \in BOOLEAN
    <2>1. CASE Discards(s, first, tail)
      BY <1>1, <1>4, <2>1 DEF Streams
    <2>2. CASE ~Discards(s, first, tail) /\ first <= s.first_unassembled
      <3>1. mid = Assemble(s, o, first, data, tail)
        BY <2>2
      <3> HIDE DEF mid
      <3>2. /\ mid.r.reach_end = s.reach_end /\ mid = [r |-> mid.r, output |-> mid.output]
        BY <1>3, <3>1 DEF Assemble
      <3>3. \A d : /\ push(o, d).closed = o.closed /\ "closed" \in DOMAIN push(o, d)
        BY <1>4 DEF push, Streams
      <3>4. mid.output.closed = o.closed /\ "closed" \in DOMAIN mid.output
        BY <3>1, <3>3 DEF Assemble
      <3>5. o.closed \in BOOLEAN
        BY <1>4 DEF Streams
      <3> QED BY <1>1, <3>2, <3>4, <3>5
    <2>3. CASE ~Discards(s, first, tail) /\ ~(first <= s.first_unassembled)
      <3>1. mid = Store(s, o, first, data, tail)
        BY <2>3
      <3> HIDE DEF mid
      <3>2. /\ mid.r.reach_end = s.reach_end /\ mid = [r |-> mid.r, output |-> mid.output]
            /\ mid.output = o
        BY <1>3, <3>1 DEF Store
      <3> QED BY <1>1, <1>4, <3>2 DEF Streams
    <2> QED BY <2>1, <2>2, <2>3
  <1> HIDE DEF mid, res
  <1>6. CASE mid.r.reach_end /\ mid.r.bytes_pending = 0
    <2>1. res = [r |-> mid.r, output |-> close(mid.output)]
      BY <1>2, <1>5, <1>6 DEF CloseAtEnd
    <2>2. close(mid.output).closed = TRUE
      BY <1>5 DEF close
    <2>3. res.r = mid.r /\ res.output.closed = TRUE
      BY <2>1, <2>2
    <2>4. Ends(r, o, last, res)
      BY <1>5, <1>6, <2>3 DEF e, Ends
    <2> QED BY <2>4 DEF res
  <1>7. CASE ~(mid.r.reach_end /\ mid.r.bytes_pending = 0)
    <2>1. res = mid
      BY <1>2, <1>7 DEF CloseAtEnd
    <2>2. Ends(r, o, last, res)
      BY <1>5, <1>7, <2>1 DEF e, Ends
    <2> QED BY <2>2 DEF res
  <1> QED BY <1>6, <1>7

\* An empty message in front of the stream, whose index has wrapped below zero,
\* is as good as one at its first byte.
LEMMA EmptyFirst ==
    ASSUME NEW r, NEW o, NEW H, Keeps(r, H, o.bytes_popped), Delivers(o, r.first_unassembled)
    PROVE  insert(r, o, Wide - 1, <<>>, FALSE) = insert(r, o, 0, Substring(0, 0), FALSE)
  <1> DEFINE s == SizeWindow(MarkEnd(r, FALSE), o)
             edge == s.first_unassembled + available_capacity(o)
  <1>1. Substring(0, 0) = <<>>
    BY DEF Substring
  <1>2. Wide \in Nat /\ Wide > 0 /\ Capacity \in Nat
    BY StreamAssumption
  <1>3. edge \in Nat
    <2>1. s.first_unassembled = r.first_unassembled
      BY Sized
    <2>2. available_capacity(o) \in Nat /\ r.first_unassembled \in Nat
      BY <1>2 DEF available_capacity, bytes_buffered, Delivers, Streams
    <2> HIDE DEF s
    <2> QED BY <2>1, <2>2
  <1> HIDE DEF s, edge
  <1>4. (Wide - 1) % Wide = Wide - 1 /\ 0 % Wide = 0
    <2>1. Wide - 1 \in Int /\ Wide - 1 = 0 * Wide + (Wide - 1) /\ 0 = 0 * Wide + 0 /\ Wide - 1 \in 0..Wide - 1
      BY <1>2
    <2> QED BY <1>2, <2>1, DivisionUnique
  <1>5. DataTail(s, o, Wide - 1, <<>>) = Smaller(Wide - 1, edge) /\ DataTail(s, o, 0, <<>>) = Smaller(0, edge)
    <2>1. Wide - 1 + Len(<<>>) = Wide - 1 /\ 0 + Len(<<>>) = 0
      BY <1>2
    <2> QED BY <1>4, <2>1 DEF DataTail, edge
  <1>6. Wide - 1 >= Smaller(Wide - 1, edge) /\ 0 >= Smaller(0, edge)
    BY <1>2, <1>3 DEF Smaller
  <1>7. Discards(s, Wide - 1, Smaller(Wide - 1, edge)) /\ Discards(s, 0, Smaller(0, edge))
    BY <1>6 DEF Discards
  <1>8. insert(r, o, Wide - 1, <<>>, FALSE) = CloseAtEnd([r |-> s, output |-> o])
    BY <1>5, <1>7 DEF insert, s
  <1>9. insert(r, o, 0, <<>>, FALSE) = CloseAtEnd([r |-> s, output |-> o])
    BY <1>5, <1>7 DEF insert, s
  <1> QED BY <1>1, <1>8, <1>9

\* A sequence number within half a word of the next byte is read as it is meant.
LEMMA ReadsBack ==
    ASSUME NEW a \in Nat, NEW cp \in Nat, a < cp + HalfWord, cp <= a + HalfWord
    PROVE  unwrap(wrap(a, Isn), Isn, cp) = a
  <1>1. HalfWord \in Nat \ {0} /\ Isn \in 0..Seqno!Word - 1
    BY ReceiverAssumption, StreamAssumption DEF Word, Seqno!Word
  <1>2. Seqno!unwrap(Seqno!wrap(a, Isn), Isn, cp) = a
    BY <1>1, Seqno!RoundTripHolds
  <1>3. \A n, z : wrap(n, z) = Seqno!wrap(n, z)
    BY DEF wrap, Plus, Word, Seqno!wrap, Seqno!Plus, Seqno!Word
  <1>4. \A n, z, c : Diff(n, z, c) = Seqno!Diff(n, z, c)
    BY <1>3 DEF Diff, Seqno!Diff, Word, Seqno!Word
  <1>5. \A n, z, c : unwrap(n, z, c) = Seqno!unwrap(n, z, c)
    BY <1>4 DEF unwrap, Seqno!unwrap, Word, Seqno!Word
  <1> QED BY <1>2, <1>3, <1>5

\* The receiver's copies are those of the Reassembler and its stream.
RcvInv ==
    /\ Inv
    /\ receiver = [isn |-> receiver.isn, first_unassembled |-> FirstUnassembled,
                   meet_FIN |-> reassembler.reach_end, is_finished |-> inbound.closed]
    /\ receiver.isn \in {None, Isn}
    /\ inbound.closed => reassembler.reach_end

\* What a message that reaches the Reassembler does: an insert of the
\* substring from first on.
Delivered(first, len, last) ==
    /\ Insert(first, len, last)
    /\ RcvInv'
    /\ receiver'.isn = Isn
    /\ reassembler'.reach_end = (reassembler.reach_end \/ last)

\* The lines behind the insert.
LEMMA ReceiveDelivers ==
    ASSUME ShortSubstrings, RcvInv, NEW message, message.FIN \in BOOLEAN,
           (IF message.SYN THEN message.seqno ELSE receiver.isn) = Isn, Isn # None,
           NEW first \in 0..StreamLen, NEW len \in 0..MaxSegment, first + len <= StreamLen,
           message.FIN => first + len = StreamLen,
           insert(reassembler, inbound, StreamIndex(message, Isn, FirstUnassembled), message.payload, message.FIN)
             = insert(reassembler, inbound, first, Substring(first, len), message.FIN),
           Receive(message)
    PROVE  Delivered(first, len, message.FIN)
  <1> DEFINE fin == message.FIN
             res == insert(reassembler, inbound, first, Substring(first, len), fin)
             met == [receiver EXCEPT !.isn = Isn, !.meet_FIN = @ \/ fin]
             got == receive(receiver, reassembler, inbound, message)
  <1>2. got = [v |-> [met EXCEPT !.is_finished = Finishes(met, res.output),
                                 !.first_unassembled = NextNeeded(reassembler, res.r)],
               r |-> res.r, inbound |-> res.output]
    <2> DEFINE index == StreamIndex(message, Isn, FirstUnassembled)
               G(x) == [v |-> [met EXCEPT !.is_finished = Finishes(met, x.output),
                                          !.first_unassembled = NextNeeded(reassembler, x.r)],
                        r |-> x.r, inbound |-> x.output]
    <2>1. got = G(insert(reassembler, inbound, index, message.payload, fin))
      BY DEF receive, FirstUnassembled
    <2>2. insert(reassembler, inbound, index, message.payload, fin) = res
      OBVIOUS
    <2>3. got = G(res)
      <3> HIDE DEF G, got, res
      <3> QED BY <2>1, <2>2
    <2> QED BY <2>3
  <1>3. receiver' = got.v /\ reassembler' = got.r /\ inbound' = got.inbound
    BY DEF Receive
  <1>4. reassembler' = res.r /\ inbound' = res.output
    BY <1>2, <1>3
  <1>5. Insert(first, len, fin)
    BY <1>4 DEF Insert
  <1>6. Inv'
    <2>1. [Next]_vars /\ Inv
      BY <1>5 DEF Next, RcvInv
    <2> QED BY <2>1, NextInv
  <1>7. /\ res.r.reach_end = (reassembler.reach_end \/ fin)
        /\ res.output.closed = (inbound.closed \/ (res.r.reach_end /\ res.r.bytes_pending = 0))
    <2>1. PICK H : Keeps(reassembler, H, inbound.bytes_popped)
      BY DEF RcvInv, Inv
    <2>2. Delivers(inbound, reassembler.first_unassembled)
      BY DEF RcvInv, Inv, FirstUnassembled
    <2> HIDE DEF res
    <2>3. fin \in BOOLEAN
      OBVIOUS
    <2> HIDE DEF fin
    <2>4. Ends(reassembler, inbound, fin, insert(reassembler, inbound, first, Substring(first, len), fin))
      BY <2>1, <2>2, <2>3, InsertFlags
    <2> QED BY <2>4 DEF Ends, res
  <1>8. /\ reassembler.reach_end \in BOOLEAN /\ inbound.closed \in BOOLEAN
        /\ (inbound.closed => reassembler.reach_end)
    BY DEF RcvInv, Inv, Delivers, Streams, Keeps, Holds, Fresh, Reassemblers
  <1>9. receiver = [isn |-> receiver.isn, first_unassembled |-> FirstUnassembled,
                    meet_FIN |-> reassembler.reach_end, is_finished |-> inbound.closed]
    BY DEF RcvInv
  <1>10. met = [isn |-> Isn, first_unassembled |-> FirstUnassembled,
                meet_FIN |-> (reassembler.reach_end \/ fin), is_finished |-> inbound.closed]
    <2> DEFINE v == [isn |-> receiver.isn, first_unassembled |-> FirstUnassembled,
                     meet_FIN |-> reassembler.reach_end, is_finished |-> inbound.closed]
    <2>1. receiver = v
      BY <1>9
    <2>2. met = [v EXCEPT !.isn = Isn, !.meet_FIN = @ \/ fin]
      <3> HIDE DEF v
      <3> QED BY <2>1
    <2> HIDE DEF met
    <2> QED BY <2>2
  <1> HIDE DEF met, res, got
  <1>11. receiver' = [isn |-> Isn, first_unassembled |-> res.r.first_unassembled,
                      meet_FIN |-> (reassembler.reach_end \/ fin),
                      is_finished |-> Finishes(met, res.output)]
    BY <1>2, <1>3, <1>10 DEF NextNeeded
  <1>12. Finishes(met, res.output) = res.output.closed
    <2>1. Finishes(met, res.output) = (inbound.closed \/ ((reassembler.reach_end \/ fin) /\ res.output.closed))
      BY <1>10 DEF Finishes
    <2> QED BY <1>7, <1>8, <2>1
  <1>13. receiver' = [isn |-> Isn, first_unassembled |-> FirstUnassembled',
                      meet_FIN |-> reassembler'.reach_end, is_finished |-> inbound'.closed]
    BY <1>4, <1>7, <1>11, <1>12 DEF FirstUnassembled
  <1>14. inbound'.closed => reassembler'.reach_end
    BY <1>4, <1>7, <1>8
  <1>15. RcvInv'
    BY <1>6, <1>13, <1>14 DEF RcvInv
  <1> QED BY <1>4, <1>5, <1>7, <1>13, <1>15 DEF Delivered

\* The sequence number of a segment leads to the index of its first byte.
LEMMA SegmentDelivers ==
    ASSUME ShortSubstrings, RcvInv,
           NEW position \in 0..StreamLen + 1, NEW len \in 0..MaxSegment, NEW fin \in BOOLEAN,
           Plausible(position, len, fin), Receive(Segment(position, len, fin)),
           position = 0 \/ receiver.isn # None
    PROVE  Delivered(IF position = 0 THEN 0 ELSE position - 1, len, fin)
  <1> DEFINE first == IF position = 0 THEN 0 ELSE position - 1
             m == Segment(position, len, fin)
             fu == FirstUnassembled
             start == IF position = 0 THEN 1 ELSE position
  <1>1. /\ StreamLen \in Nat /\ MaxSegment \in Nat /\ Wide \in Nat /\ StreamLen < Wide
        /\ HalfWord \in Nat /\ HalfWord > 2 /\ Isn \in 0..Word - 1 /\ None # Isn
    BY ReceiverAssumption, StreamAssumption
  <1>2. fu \in 0..StreamLen
    BY InvParts DEF RcvInv
  <1>3. /\ first + len <= StreamLen /\ (fin => first + len = StreamLen)
        /\ position + HalfWord > fu /\ position < fu + HalfWord
    BY DEF Plausible, FirstUnassembled
  <1>4. first \in 0..StreamLen
    BY <1>1
  <1>5. /\ m.seqno = wrap(position, Isn) /\ m.SYN = (position = 0) /\ m.FIN = fin
        /\ m.payload = Substring(first, len)
    BY DEF Segment, Substring
  <1>6. wrap(0, Isn) = Isn /\ Plus(Isn, 1) = wrap(1, Isn)
    <2>1. Word \in Nat /\ Word > 1
      BY <1>1 DEF Word
    <2>2. 0 % Word = 0 /\ 1 % Word = 1 /\ Isn % Word = Isn
      <3>1. Word \in Nat \ {0} /\ 0 \in 0..Word - 1 /\ 1 \in 0..Word - 1 /\ Isn \in Int
            /\ 0 = 0 * Word + 0 /\ 1 = 0 * Word + 1 /\ Isn = 0 * Word + Isn
        BY <1>1, <2>1
      <3> QED BY <1>1, <3>1, DivisionUnique
    <2>3. Isn + 0 = Isn
      BY <1>1, <2>1
    <2> QED BY <2>2, <2>3 DEF wrap, Plus
  <1>7. (IF m.SYN THEN m.seqno ELSE receiver.isn) = Isn
    <2>1. receiver.isn \in {None, Isn}
      BY DEF RcvInv
    <2> QED BY <1>5, <1>6, <2>1
  <1>8. (IF m.SYN THEN Plus(m.seqno, 1) ELSE m.seqno) = wrap(start, Isn)
    BY <1>5, <1>6
  <1>9. StreamIndex(m, Isn, fu) = first
    <2>1. start \in Nat /\ fu \in Nat /\ start < fu + HalfWord /\ fu <= start + HalfWord
      BY <1>1, <1>2, <1>3
    <2>2. unwrap(wrap(start, Isn), Isn, fu) = start
      <3> HIDE DEF start, fu
      <3> QED BY <2>1, ReadsBack
    <2>3. StreamIndex(m, Isn, fu) = (start - 1) % Wide
      BY <1>8, <2>2 DEF StreamIndex
    <2>4. start - 1 = first
      BY <1>1
    <2>5. first % Wide = first
      <3>1. first \in Int /\ first \in 0..Wide - 1 /\ first = 0 * Wide + first /\ Wide \in Nat \ {0}
        BY <1>1, <1>4
      <3> HIDE DEF first
      <3> QED BY <3>1, DivisionUnique
    <2> QED BY <2>3, <2>4, <2>5
  <1>10. Receive(m)
    OBVIOUS
  <1> HIDE DEF m, first
  <1>11. insert(reassembler, inbound, StreamIndex(m, Isn, FirstUnassembled), m.payload, m.FIN)
           = insert(reassembler, inbound, first, Substring(first, len), m.FIN)
    BY <1>5, <1>9
  <1>12. m.FIN \in BOOLEAN /\ (m.FIN => first + len = StreamLen)
    BY <1>3, <1>5
  <1>13. Delivered(first, len, m.FIN)
    BY <1>1, <1>3, <1>4, <1>7, <1>10, <1>11, <1>12, ReceiveDelivers
  <1> QED BY <1>5, <1>13 DEF first

\* Wrapped, position 0 is the initial sequence number itself.
LEMMA WrapZero == wrap(0, Isn) = Isn
  <1>1. Word \in Nat \ {0} /\ Isn \in 0..Word - 1 /\ Isn \in Int /\ 0 \in 0..Word - 1
    BY ReceiverAssumption, StreamAssumption DEF Word
  <1>2. 0 % Word = 0 /\ Isn % Word = Isn
    <2>1. 0 = 0 * Word + 0 /\ Isn = 0 * Word + Isn
      BY <1>1
    <2> QED BY <1>1, <2>1, DivisionUnique
  <1>3. Isn + 0 = Isn
    BY <1>1
  <1> QED BY <1>2, <1>3 DEF wrap, Plus

\* A message without the SYN that comes before it is ignored.
LEMMA Ignored ==
    ASSUME NEW message, ~message.SYN, receiver.isn = None, Receive(message)
    PROVE  UNCHANGED <<receiver, reassembler, inbound>>
  <1>1. receive(receiver, reassembler, inbound, message)
          = [v |-> receiver, r |-> reassembler, inbound |-> inbound]
    BY DEF receive
  <1> QED BY <1>1 DEF Receive

\* The empty message before the SYN, once there is a SYN.
LEMMA EmptyDelivers ==
    ASSUME ShortSubstrings, RcvInv, ReceiveEmptyFirst, receiver.isn # None
    PROVE  Delivered(0, 0, FALSE)
  <1> DEFINE m == [seqno |-> Isn, SYN |-> FALSE, payload |-> <<>>, FIN |-> FALSE]
             fu == FirstUnassembled
  <1>1. /\ StreamLen \in Nat /\ MaxSegment \in Nat /\ Wide \in Nat /\ StreamLen < Wide
        /\ HalfWord \in Nat /\ HalfWord > 2 /\ Isn \in 0..Word - 1 /\ None # Isn
    BY ReceiverAssumption, StreamAssumption
  <1>2. fu \in 0..StreamLen /\ fu < HalfWord /\ Receive(m)
    BY InvParts DEF RcvInv, ReceiveEmptyFirst, FirstUnassembled
  <1>3. m.SYN = FALSE /\ m.FIN = FALSE /\ m.seqno = Isn /\ m.payload = <<>>
    OBVIOUS
  <1>4. (IF m.SYN THEN m.seqno ELSE receiver.isn) = Isn
    BY DEF RcvInv
  <1>5. StreamIndex(m, Isn, fu) = Wide - 1
    <2>1. unwrap(Isn, Isn, fu) = 0
      <3>1. 0 \in Nat /\ fu \in Nat /\ 0 < fu + HalfWord /\ fu <= 0 + HalfWord
        BY <1>1, <1>2
      <3>2. unwrap(wrap(0, Isn), Isn, fu) = 0
        <4> HIDE DEF fu
        <4> QED BY <3>1, ReadsBack
      <3> QED BY <3>2, WrapZero
    <2>2. (0 - 1) % Wide = Wide - 1
      <3>1. 0 - 1 \in Int /\ Wide - 1 \in 0..Wide - 1 /\ 0 - 1 = (-1) * Wide + (Wide - 1) /\ Wide \in Nat \ {0} /\ -1 \in Int
        BY <1>1
      <3> QED BY <3>1, DivisionUnique
    <2>3. StreamIndex(m, Isn, fu) = (0 - 1) % Wide
      BY <2>1 DEF StreamIndex
    <2> QED BY <2>2, <2>3
  <1>6. insert(reassembler, inbound, Wide - 1, <<>>, FALSE) = insert(reassembler, inbound, 0, Substring(0, 0), FALSE)
    <2>1. PICK H : Keeps(reassembler, H, inbound.bytes_popped)
      BY DEF RcvInv, Inv
    <2>2. Delivers(inbound, reassembler.first_unassembled)
      BY DEF RcvInv, Inv, FirstUnassembled
    <2> QED BY <2>1, <2>2, EmptyFirst
  <1> HIDE DEF m
  <1>7. insert(reassembler, inbound, StreamIndex(m, Isn, FirstUnassembled), m.payload, m.FIN)
          = insert(reassembler, inbound, 0, Substring(0, 0), m.FIN)
    BY <1>3, <1>5, <1>6
  <1>8. m.FIN \in BOOLEAN /\ (m.FIN => 0 + 0 = StreamLen) /\ 0 \in 0..StreamLen /\ 0 \in 0..MaxSegment
        /\ 0 + 0 <= StreamLen
    <2>1. m.FIN = FALSE
      BY <1>3
    <2>2. 0 \in 0..StreamLen /\ 0 \in 0..MaxSegment /\ 0 + 0 <= StreamLen
      BY <1>1
    <2> QED BY <2>1, <2>2
  <1>9. Delivered(0, 0, m.FIN)
    BY <1>1, <1>2, <1>4, <1>7, <1>8, ReceiveDelivers
  <1> QED BY <1>3, <1>9

\* Every step of the receiver is one of its Reassembler, a read, or none.
LEMMA ReceiverStep ==
    ASSUME ShortSubstrings, RcvInv, [ReceiverNext]_receiverVars
    PROVE  \/ \E first \in 0..StreamLen, len \in 0..MaxSegment, last \in BOOLEAN : Delivered(first, len, last)
           \/ \E len \in 1..Capacity : ReadInbound(len)
           \/ UNCHANGED <<receiver, reassembler, inbound>>
  <1>1. StreamLen \in Nat /\ MaxSegment \in Nat
    BY ReceiverAssumption, StreamAssumption
  <1>2. CASE ReceiveEmptyFirst
    <2>1. CASE receiver.isn = None
      <3> DEFINE m == [seqno |-> Isn, SYN |-> FALSE, payload |-> <<>>, FIN |-> FALSE]
      <3>1. ~m.SYN /\ Receive(m)
        BY <1>2 DEF ReceiveEmptyFirst
      <3> QED BY <2>1, <3>1, Ignored
    <2>2. CASE receiver.isn # None
      <3>1. Delivered(0, 0, FALSE)
        BY <1>2, <2>2, EmptyDelivers
      <3>2. 0 \in 0..StreamLen /\ 0 \in 0..MaxSegment
        BY <1>1
      <3> QED BY <3>1, <3>2
    <2> QED BY <2>1, <2>2
  <1>3. ASSUME NEW position \in 0..StreamLen + 1, NEW len \in 0..MaxSegment, NEW fin \in BOOLEAN,
               Plausible(position, len, fin), Receive(Segment(position, len, fin))
        PROVE  \/ \E first \in 0..StreamLen : Delivered(first, len, fin)
               \/ UNCHANGED <<receiver, reassembler, inbound>>
    <2>1. CASE position = 0 \/ receiver.isn # None
      <3> DEFINE first == IF position = 0 THEN 0 ELSE position - 1
      <3>1. Delivered(first, len, fin)
        BY <1>3, <2>1, SegmentDelivers
      <3>2. first \in 0..StreamLen
        BY <1>1
      <3> HIDE DEF first
      <3> QED BY <3>1, <3>2
    <2>2. CASE ~(position = 0) /\ receiver.isn = None
      <3>1. ~Segment(position, len, fin).SYN
        BY <2>2 DEF Segment
      <3> QED BY <1>3, <2>2, <3>1, Ignored
    <2> QED BY <2>1, <2>2
  <1>4. CASE UNCHANGED receiverVars
    BY <1>4 DEF receiverVars
  <1> QED BY <1>2, <1>3, <1>4 DEF ReceiverNext, ReceiveSegment

\* RcvInv holds at the start,
LEMMA RcvStart == ReceiverInit => Init /\ RcvInv
  <1> SUFFICES ASSUME ReceiverInit PROVE Init /\ RcvInv
    OBVIOUS
  <1>1. Init
    BY DEF ReceiverInit
  <1>2. Inv /\ FirstUnassembled = 0 /\ reassembler.reach_end = FALSE
    BY <1>1, InitInv, Start
  <1>3. inbound.closed = FALSE
    BY <1>1 DEF Init, NewStream
  <1>4. receiver = [isn |-> None, first_unassembled |-> 0, meet_FIN |-> FALSE, is_finished |-> FALSE]
    BY DEF ReceiverInit, NewReceiver
  <1> QED BY <1>1, <1>2, <1>3, <1>4 DEF RcvInv

\* and a step keeps it.
LEMMA RcvKeeps ==
    ASSUME ShortSubstrings, RcvInv, [ReceiverNext]_receiverVars
    PROVE  RcvInv' /\ [Next]_vars
  <1>1. ASSUME NEW first \in 0..StreamLen, NEW len \in 0..MaxSegment, NEW last \in BOOLEAN, Delivered(first, len, last)
        PROVE  RcvInv' /\ [Next]_vars
    BY <1>1 DEF Delivered, Next
  <1>2. ASSUME NEW len \in 1..Capacity, ReadInbound(len) PROVE RcvInv' /\ [Next]_vars
    <2>1. Inv' /\ reassembler' = reassembler /\ receiver' = receiver /\ Next
      BY <1>2, ReadInv DEF RcvInv, ReadInbound, Read, Next
    <2>2. inbound'.closed = inbound.closed
      <3>1. Delivers(inbound, FirstUnassembled) /\ inbound' = pop(inbound, len) /\ len \in Nat
        BY <1>2, StreamAssumption DEF RcvInv, Inv, ReadInbound, Read
      <3> QED BY <3>1, PopStep
    <2> QED BY <2>1, <2>2 DEF RcvInv, FirstUnassembled
  <1>3. CASE UNCHANGED <<receiver, reassembler, inbound>>
    <2>1. Inv'
      BY <1>3 DEF RcvInv, Inv, CompleteIsClosed, FirstUnassembled
    <2> QED BY <1>3, <2>1 DEF RcvInv, FirstUnassembled, vars
  <1> QED BY <1>1, <1>2, <1>3, ReceiverStep

\* The receiver hands its Reassembler nothing but substrings of the stream, at
\* their places, whatever the network does to the segments: everything above
\* holds of the Reassembler behind it.
THEOREM ReceiverFeeds ==
    ASSUME ShortSubstrings
    PROVE  ReceiverSpec => Spec /\ []RcvInv
  <1>1. RcvInv /\ [ReceiverNext]_receiverVars => RcvInv' /\ [Next]_vars
    BY RcvKeeps
  <1> QED BY <1>1, RcvStart, PTL DEF ReceiverSpec, Spec

\* What the receiver acknowledges, unwrapped, is what its stream has, and the
\* stream is the sender's.
THEOREM AcknowledgesStream ==
    ASSUME ShortSubstrings
    PROVE  ReceiverSpec => []AckMatchesStream
  <1>1. ASSUME RcvInv PROVE AckMatchesStream
    <2> DEFINE fu == FirstUnassembled
               c == IF inbound.closed THEN 1 ELSE 0
    <2>1. Delivers(inbound, fu) /\ fu \in 0..StreamLen
      BY <1>1, InvParts DEF RcvInv, Inv
    <2>2. inbound.bytes_pushed = fu /\ \A i \in 1..Len(inbound.queue) : inbound.queue[i] = inbound.bytes_popped + i - 1
      BY <2>1 DEF Delivers
    <2>3. ASSUME receiver.isn # None
          PROVE  unwrap(send(receiver, inbound).ackno, Isn, inbound.bytes_pushed)
                   = inbound.bytes_pushed + 1 + c
      <3>1. receiver.isn = Isn /\ receiver.first_unassembled = fu /\ receiver.is_finished = inbound.closed
        BY <1>1, <2>3 DEF RcvInv
      <3>2. AckPosition(receiver) = fu + 1 + c
        BY <3>1 DEF AckPosition
      <3>3. send(receiver, inbound).ackno = wrap(fu + 1 + c, Isn)
        BY <2>3, <3>1, <3>2 DEF send
      <3>4. /\ fu + 1 + c \in Nat /\ fu \in Nat
            /\ fu + 1 + c < fu + HalfWord /\ fu <= fu + 1 + c + HalfWord
        BY <2>1, ReceiverAssumption, StreamAssumption
      <3>5. unwrap(wrap(fu + 1 + c, Isn), Isn, fu) = fu + 1 + c
        <4> DEFINE a == fu + 1 + c
        <4> HIDE DEF fu, c, a
        <4>1. a \in Nat /\ fu \in Nat /\ a < fu + HalfWord /\ fu <= a + HalfWord
          BY <3>4 DEF a
        <4>2. unwrap(wrap(a, Isn), Isn, fu) = a
          BY <4>1, ReadsBack
        <4> QED BY <4>2 DEF a
      <3> QED BY <2>2, <3>3, <3>5
    <2> QED BY <2>2, <2>3 DEF AckMatchesStream
  <1> QED BY <1>1, ReceiverFeeds, PTL

\* The next byte is one of the stream, or its end, and is not held.
LEMMA NextOpen ==
    ASSUME NEW r, NEW H, NEW popped, Keeps(r, H, popped)
    PROVE  r.first_unassembled \in 0..StreamLen /\ r.first_unassembled \notin H
  <1>1. r.first_unassembled \in 0..StreamLen
    BY DEF Keeps, Holds, Fresh, Reassemblers
  <1>2. ASSUME Holds(r, H, popped) PROVE r.first_unassembled \notin H
    <2>1. \A i \in H : r.first_unassembled < i
      BY <1>2 DEF Holds
    <2> QED BY <1>1, <2>1, StreamAssumption
  <1> QED BY <1>1, <1>2 DEF Keeps

\* The next byte only moves forward, and no more of the window is taken back
\* than has been written.
LEMMA StepForward ==
    ASSUME ShortSubstrings, RcvInv, NEW first \in 0..StreamLen, NEW len \in 0..MaxSegment, NEW last \in BOOLEAN,
           Delivered(first, len, last)
    PROVE  FirstUnassembled <= FirstUnassembled' /\ inbound'.bytes_popped = inbound.bytes_popped
  <1>1. PICK H, H2 : Inserted(first, len, H, H2)
    BY InsertResult DEF RcvInv, Delivered
  <1> DEFINE fu == reassembler.first_unassembled
             fu2 == reassembler'.first_unassembled
  <1>2. KnownBytes(fu, H) \subseteq KnownBytes(fu2, H2) /\ inbound'.bytes_popped = inbound.bytes_popped
    BY <1>1 DEF Inserted
  <1>3. fu \in Nat /\ fu2 \in Nat /\ fu2 \notin H2
    <2>1. Keeps(reassembler, H, inbound.bytes_popped) /\ Keeps(reassembler', H2, inbound.bytes_popped)
      BY <1>1 DEF Inserted
    <2> QED BY <2>1, NextOpen, StreamAssumption
  <1>5. fu <= fu2
    <2> HIDE DEF fu, fu2
    <2>1. fu2 < fu => fu2 \in KnownBytes(fu, H)
      BY <1>3 DEF KnownBytes
    <2>2. fu2 \notin KnownBytes(fu2, H2)
      BY <1>3 DEF KnownBytes
    <2> QED BY <1>2, <1>3, <2>1, <2>2
  <1> QED BY <1>2, <1>5 DEF FirstUnassembled

\* The window never shrinks, and the acknowledgment number never decreases.
THEOREM WindowStands ==
    ASSUME ShortSubstrings
    PROVE  ReceiverSpec => WindowNeverShrinks
  <1> DEFINE A == /\ AckPosition(receiver) <= AckPosition(receiver)'
                  /\ receiver.first_unassembled + Window(inbound)
                       <= receiver.first_unassembled' + Window(inbound)'
  <1>1. ASSUME RcvInv, RcvInv', [ReceiverNext]_receiverVars PROVE A
    <2> DEFINE fu == FirstUnassembled
               fu2 == FirstUnassembled'
               popped == inbound.bytes_popped
               popped2 == inbound'.bytes_popped
    <2>1. /\ fu \in Nat /\ popped \in Nat /\ popped <= fu /\ MaxWindow \in Nat /\ Capacity \in Nat
          /\ Delivers(inbound, fu)
      <3>1. Delivers(inbound, fu) /\ fu \in 0..StreamLen /\ popped \in Nat /\ popped <= fu
        BY <1>1, InvParts DEF RcvInv, Inv
      <3> QED BY <3>1, StreamAssumption, ReceiverAssumption, StreamAssumption
    <2>2. fu2 \in Nat /\ Delivers(inbound', fu2)
      <3>1. Delivers(inbound', fu2) /\ \E H : Keeps(reassembler', H, inbound'.bytes_popped)
        BY <1>1 DEF RcvInv, Inv, FirstUnassembled
      <3> QED BY <3>1, NextOpen, StreamAssumption DEF FirstUnassembled
    <2>3. /\ fu <= fu2 /\ popped <= popped2 /\ (inbound.closed => inbound'.closed)
          /\ (fu2 = fu \/ popped2 = popped)
      <3>1. ASSUME NEW first \in 0..StreamLen, NEW len \in 0..MaxSegment, NEW last \in BOOLEAN, Delivered(first, len, last)
            PROVE  fu <= fu2 /\ popped2 = popped /\ (inbound.closed => inbound'.closed)
        <4>1. fu <= fu2 /\ popped2 = popped
          BY <1>1, <3>1, StepForward
        <4>2. inbound.closed => inbound'.closed
          <5>1. PICK H : Keeps(reassembler, H, inbound.bytes_popped)
            BY <1>1 DEF RcvInv, Inv
          <5>2. Delivers(inbound, reassembler.first_unassembled)
            BY <1>1 DEF RcvInv, Inv, FirstUnassembled
          <5>3. Ends(reassembler, inbound, last, insert(reassembler, inbound, first, Substring(first, len), last))
            BY <5>1, <5>2, InsertFlags
          <5>4. inbound' = insert(reassembler, inbound, first, Substring(first, len), last).output
            BY <3>1 DEF Delivered, Insert
          <5> QED BY <5>3, <5>4 DEF Ends
        <4> QED BY <4>1, <4>2
      <3>2. ASSUME NEW len \in 1..Capacity, Read(len)
            PROVE  fu2 = fu /\ popped <= popped2 /\ inbound'.closed = inbound.closed
        <4>1. inbound' = pop(inbound, len) /\ reassembler' = reassembler /\ len \in Nat
          BY <3>2, StreamAssumption DEF Read
        <4> QED BY <2>1, <4>1, PopStep DEF FirstUnassembled
      <3>3. CASE UNCHANGED <<receiver, reassembler, inbound>>
        BY <2>1, <3>3 DEF FirstUnassembled
      <3> QED BY <1>1, <2>1, <2>2, <3>1, <3>2, <3>3, ReceiverStep DEF ReadInbound
    <2>4. /\ receiver.first_unassembled = fu /\ receiver.is_finished = inbound.closed
          /\ receiver'.first_unassembled = fu2 /\ receiver'.is_finished = inbound'.closed
      BY <1>1 DEF RcvInv
    <2>5. /\ fu + Window(inbound) = Smaller(popped + Capacity, fu + MaxWindow)
          /\ fu2 + Window(inbound)' = Smaller(popped2 + Capacity, fu2 + MaxWindow)
          /\ popped2 \in Nat
      <3>1. /\ inbound.capacity = Capacity /\ Len(inbound.queue) \in Nat /\ popped + Len(inbound.queue) = fu
            /\ inbound'.capacity = Capacity /\ Len(inbound'.queue) \in Nat /\ popped2 + Len(inbound'.queue) = fu2
            /\ popped2 \in Nat
        BY <2>1, <2>2 DEF Delivers, Streams
      <3>2. /\ Window(inbound) = Smaller(Capacity - Len(inbound.queue), MaxWindow)
            /\ Window(inbound)' = Smaller(Capacity - Len(inbound'.queue), MaxWindow)
        BY <3>1 DEF Window, available_capacity, bytes_buffered, Smaller
      <3> DEFINE Edge(p, q, f) == f + Smaller(Capacity - q, MaxWindow) = Smaller(p + Capacity, f + MaxWindow)
      <3>3. ASSUME NEW p \in Nat, NEW q \in Nat, NEW f \in Nat, p + q = f PROVE Edge(p, q, f)
        <4>1. Capacity \in Nat /\ MaxWindow \in Nat
          BY <2>1
        <4> QED BY <3>3, <4>1 DEF Smaller
      <3> HIDE DEF fu, fu2, popped, popped2, Edge
      <3>4. Edge(popped, Len(inbound.queue), fu) /\ Edge(popped2, Len(inbound'.queue), fu2)
        BY <2>1, <2>2, <3>1, <3>3
      <3> QED BY <3>1, <3>2, <3>4 DEF Edge
    <2> HIDE DEF fu, fu2, popped, popped2
    <2>6. Smaller(popped + Capacity, fu + MaxWindow) <= Smaller(popped2 + Capacity, fu2 + MaxWindow)
      BY <2>1, <2>2, <2>3, <2>5 DEF Smaller
    <2>7. receiver.first_unassembled + Window(inbound) <= receiver'.first_unassembled + Window(inbound)'
      BY <2>4, <2>5, <2>6
    <2>8. AckPosition(receiver) <= AckPosition(receiver)'
      <3>1. /\ AckPosition(receiver) = fu + 1 + (IF inbound.closed THEN 1 ELSE 0)
            /\ AckPosition(receiver)' = fu2 + 1 + (IF inbound'.closed THEN 1 ELSE 0)
        BY <2>4 DEF AckPosition
      <3> QED BY <2>1, <2>2, <2>3, <3>1
    <2> QED BY <2>7, <2>8
  <1>2. RcvInv /\ [ReceiverNext]_receiverVars => RcvInv'
    BY RcvKeeps
  <1>3. WindowNeverShrinks <=> [][A]_receiverVars
    BY DEF WindowNeverShrinks
  <1> HIDE DEF A
  <1>4. RcvInv /\ RcvInv' /\ [ReceiverNext]_receiverVars => [A]_receiverVars
    BY <1>1
  <1>5. ReceiverInit => RcvInv
    BY RcvStart
  <1>6. ReceiverSpec => [][A]_receiverVars
    BY <1>2, <1>4, <1>5, PTL DEF ReceiverSpec
  <1> QED BY <1>3, <1>6

\* What the fields of the receiver and its stream hold.
THEOREM ReceiverTypes ==
    ASSUME ShortSubstrings
    PROVE  ReceiverSpec => []ReceiverTypeOK
  <1>1. ASSUME RcvInv PROVE ReceiverTypeOK
    <2>1. Delivers(inbound, FirstUnassembled) /\ FirstUnassembled \in 0..StreamLen
      BY <1>1, InvParts DEF RcvInv, Inv
    <2>2. reassembler.reach_end \in BOOLEAN
      BY <1>1 DEF RcvInv, Inv, Keeps, Holds, Fresh, Reassemblers
    <2>3. inbound.closed \in BOOLEAN /\ inbound.queue \in Seq(0..StreamLen - 1)
      BY <2>1 DEF Delivers, Streams, Indices
    <2>4. /\ receiver.first_unassembled = FirstUnassembled /\ receiver.meet_FIN = reassembler.reach_end
          /\ receiver.is_finished = inbound.closed /\ receiver.isn \in {None, Isn}
      BY <1>1 DEF RcvInv
    <2>5. Isn \in 0..Word - 1
      BY ReceiverAssumption, StreamAssumption
    <2> QED BY <2>1, <2>2, <2>3, <2>4, <2>5 DEF ReceiverTypeOK
  <1> QED BY <1>1, ReceiverFeeds, PTL

------------------------------------------------------------------------------
(* A sender, a network and the receiver. *)

SP == INSTANCE TCPSenderProofs WITH
    MAX_PAYLOAD_SIZE <- MaxSegment, undefined <- FALSE, probes <- 0, WindowSizes <- Nat, TickMs <- Nat

\* Both copies of the sender's operators are the same.
LEMMA SameSender ==
    ASSUME NEW s, NEW o
    PROVE  /\ Sender!maybe_send(s) = SP!maybe_send(s)
           /\ \A ack : Sender!receive(s, ack) = SP!receive(s, ack)
           /\ \A ms : Sender!tick(s, ms) = SP!tick(s, ms)
           /\ Sender!sequence_numbers_in_flight(s) = SP!sequence_numbers_in_flight(s)
           /\ Sender!push_stream(s, o) = SP!push_stream(s, o)
  <1>1. Sender!maybe_send(s) = SP!maybe_send(s)
    BY DEF Sender!maybe_send, SP!maybe_send, Sender!SendQueued, SP!SendQueued,
           Sender!SendFlags, SP!SendFlags, Sender!sequence_length, SP!sequence_length,
           Sender!One, SP!One, Sender!Track, SP!Track, Sender!StartIfOff, SP!StartIfOff,
           Sender!timer_start, SP!timer_start, Sender!CanSendFIN, SP!CanSendFIN,
           Sender!FlagsDue, SP!FlagsDue, Sender!MaySendNew, SP!MaySendNew,
           Sender!sequence_numbers_in_flight, SP!sequence_numbers_in_flight, Sender!Word,
           SP!Word, Sender!wrap, SP!wrap, Sender!Plus, SP!Plus, Sender!SpendProbe,
           SP!SpendProbe
  <1>2. \A ack : Sender!receive(s, ack) = SP!receive(s, ack)
    BY DEF Sender!receive, SP!receive, Sender!TakeAck, SP!TakeAck, Sender!AckedCount,
           SP!AckedCount, Sender!FullyAcked, SP!FullyAcked, Sender!SeqnosOfFirst,
           SP!SeqnosOfFirst, Sender!sequence_length, SP!sequence_length, Sender!One, SP!One,
           Sender!TimerAfterAck, SP!TimerAfterAck, Sender!timer_start, SP!timer_start,
           Sender!Impossible, SP!Impossible, Sender!unwrap, SP!unwrap, Sender!Diff,
           SP!Diff, Sender!Word, SP!Word, Sender!wrap, SP!wrap, Sender!Plus, SP!Plus
  <1>3. \A ms : Sender!tick(s, ms) = SP!tick(s, ms)
    BY DEF Sender!tick, SP!tick, Sender!Expires, SP!Expires, Sender!timer_tick,
           SP!timer_tick, Sender!Requeue, SP!Requeue, Sender!BackOff, SP!BackOff,
           Sender!timer_start, SP!timer_start, Sender!sequence_length, SP!sequence_length,
           Sender!One, SP!One, Sender!Word, SP!Word
  <1>4. Sender!sequence_numbers_in_flight(s) = SP!sequence_numbers_in_flight(s)
    BY DEF Sender!sequence_numbers_in_flight, SP!sequence_numbers_in_flight, Sender!Word, SP!Word
  <1>5. Sender!BytesToTake(s, o) = SP!BytesToTake(s, o)
    BY <1>4 DEF Sender!BytesToTake, SP!BytesToTake, Sender!bytes_buffered, SP!bytes_buffered,
                Sender!Smaller, SP!Smaller, Sender!MaySendNew, SP!MaySendNew
  <1>6. Sender!Segments(s, o) = SP!Segments(s, o)
    BY <1>5 DEF Sender!Segments, SP!Segments, Sender!wrap, SP!wrap, Sender!Plus, SP!Plus,
                Sender!Word, SP!Word, Sender!Smaller, SP!Smaller
  <1>7. \A t : Sender!AttachFIN(t) = SP!AttachFIN(t)
    BY DEF Sender!AttachFIN, SP!AttachFIN, Sender!FINFits, SP!FINFits,
           Sender!sequence_numbers_in_flight, SP!sequence_numbers_in_flight, Sender!Word,
           SP!Word, Sender!One, SP!One
  <1>8. \A n : Sender!pop(o, n) = SP!pop(o, n)
    BY DEF Sender!pop, SP!pop, Sender!Smaller, SP!Smaller, Sender!bytes_buffered,
           SP!bytes_buffered
  <1>9. \A t : Sender!is_finished(t) = SP!is_finished(t) /\ Sender!SpendProbe(t) = SP!SpendProbe(t)
    BY DEF Sender!is_finished, SP!is_finished, Sender!SpendProbe, SP!SpendProbe
  <1> DEFINE C(taken, rest, new) ==
               [s EXCEPT !.unsent_msgs = @ \o new,
                         !.unsent_seqnos = (@ + taken) % SP!Word,
                         !.next_seqno = @ + taken,
                         !.zero_window_flag = IF taken > 0 THEN SP!SpendProbe(s) ELSE @,
                         !.stream_is_finished = SP!is_finished(rest)]
  <1>10. Sender!push_stream(s, o)
           = [s |-> Sender!AttachFIN(C(Sender!BytesToTake(s, o), Sender!pop(o, Sender!BytesToTake(s, o)), Sender!Segments(s, o))),
              outbound |-> Sender!pop(o, Sender!BytesToTake(s, o))]
    BY <1>9 DEF Sender!push_stream, Sender!Word, SP!Word
  <1>11. SP!push_stream(s, o)
           = [s |-> SP!AttachFIN(C(SP!BytesToTake(s, o), SP!pop(o, SP!BytesToTake(s, o)), SP!Segments(s, o))),
              outbound |-> SP!pop(o, SP!BytesToTake(s, o))]
    BY DEF SP!push_stream
  <1> HIDE DEF C
  <1>12. Sender!push_stream(s, o) = SP!push_stream(s, o)
    BY <1>5, <1>6, <1>7, <1>8, <1>10, <1>11
  <1> QED BY <1>1, <1>2, <1>3, <1>4, <1>12

\* The sizes of a connection: short segments, and a stream that fits with its
\* SYN and FIN into half the sequence space.  What the network does is left open.
Connection ==
    /\ ShortSubstrings
    /\ InitialRTO \in Nat \ {0} /\ MaxSegment \in Nat \ {0}
    /\ SP!ShortStream

\* The numbers that the receiver has counted: the SYN, the bytes assembled, and
\* the end of its stream, also if bytes were missing when it was closed.
Taken ==
    IF receiver.isn = None THEN 0
    ELSE FirstUnassembled + 1 + (IF receiver.is_finished THEN 1 ELSE 0)

\* An acknowledgment of some of the numbers taken.
Answers(ack, taken) ==
    \E raw, q, size :
        /\ q \in Nat /\ q <= taken /\ size \in Nat
        /\ ack = [ackno |-> raw, window_size |-> size]
        /\ raw = None \/ raw = SP!wrap(q, Isn)

\* The sender has left its stream as coherent as ever, what it has forgotten is
\* taken, what is under way is of the stream, and the end has been written, and
\* comes last if the network keeps the FIN in its place.
ConnectionInv ==
    /\ RcvInv
    /\ SP!Coherent(sender, outbound) /\ outbound.bytes_pushed = StreamLen
    /\ SP!Kept(sender) <= Taken
    /\ reassembler.reach_end => outbound.closed
    /\ FinInOrder /\ FinFits /\ reassembler.reach_end => FirstUnassembled = StreamLen
    /\ \A msg \in segments : SP!Leaves(msg, sender, outbound)
    /\ \A ack \in acks : Answers(ack, Taken) /\ ~sender.has_not_sent_SYN

\* What the sender's module assumes of its constants.
LEMMA SenderSizes ==
    ASSUME Connection
    PROVE  /\ HalfWord \in Nat \ {0}
           /\ InitialRTO \in Nat \ {0} /\ MaxSegment \in Nat \ {0}
           /\ Isn \in 0..SP!Word - 1 /\ StreamLen \in Nat
           /\ StreamLen + 2 <= HalfWord
  BY ReceiverAssumption, StreamAssumption DEF Connection, Word, SP!Word, SP!ShortStream

\* What is taken is within the stream, its SYN and FIN.
LEMMA TakenBounds ==
    RcvInv => /\ Taken \in Nat /\ Taken <= StreamLen + 2
              /\ FirstUnassembled \in 0..StreamLen /\ inbound.bytes_popped \in Nat
              /\ inbound.bytes_popped <= FirstUnassembled
              /\ receiver.is_finished = inbound.closed
              /\ receiver.first_unassembled = FirstUnassembled
  <1> SUFFICES ASSUME RcvInv
      PROVE  /\ Taken \in Nat /\ Taken <= StreamLen + 2
             /\ FirstUnassembled \in 0..StreamLen /\ inbound.bytes_popped \in Nat
             /\ inbound.bytes_popped <= FirstUnassembled
             /\ receiver.is_finished = inbound.closed
             /\ receiver.first_unassembled = FirstUnassembled
    OBVIOUS
  <1>1. FirstUnassembled \in 0..StreamLen /\ inbound.bytes_popped \in Nat /\ inbound.bytes_popped <= FirstUnassembled
    BY InvParts DEF RcvInv
  <1>2. receiver.is_finished = inbound.closed /\ receiver.first_unassembled = FirstUnassembled
    BY DEF RcvInv
  <1> QED BY <1>1, <1>2, StreamAssumption DEF Taken

\* What is taken stays within them.
LEMMA TakenBoundsNext ==
    RcvInv' => /\ Taken' \in Nat /\ FirstUnassembled' \in 0..StreamLen
               /\ receiver'.is_finished = inbound'.closed
  <1>1. (RcvInv => /\ Taken \in Nat /\ Taken <= StreamLen + 2
                   /\ FirstUnassembled \in 0..StreamLen /\ inbound.bytes_popped \in Nat
                   /\ inbound.bytes_popped <= FirstUnassembled
                   /\ receiver.is_finished = inbound.closed
                   /\ receiver.first_unassembled = FirstUnassembled)'
    BY TakenBounds, PTL
  <1> QED BY <1>1

\* A message of the sender is a segment of the stream.
LEMMA LeavesSegment ==
    ASSUME Connection, NEW msg, NEW p, SP!Placed(msg, p)
    PROVE  \E len \in 0..MaxSegment :
               /\ msg = Segment(p, len, msg.FIN) /\ msg.FIN \in BOOLEAN
               /\ p \in 0..StreamLen + 1 /\ (msg.SYN <=> p = 0)
               /\ (IF p = 0 THEN 0 ELSE p - 1) + len <= StreamLen
               /\ msg.FIN => /\ (IF p = 0 THEN 0 ELSE p - 1) + len = StreamLen
                             /\ p + Sender!sequence_length(msg) = StreamLen + 2
  <1> DEFINE len == Len(msg.payload)
             first == IF p = 0 THEN 0 ELSE p - 1
  <1>1. /\ msg \in SP!Msg /\ p \in Nat
        /\ msg.seqno = SP!wrap(p, Isn) /\ (msg.SYN <=> p = 0)
        /\ \A k \in DOMAIN msg.payload : msg.payload[k] = p + SP!One(msg.SYN) + k - 2
        /\ len <= MaxSegment /\ SP!sequence_length(msg) > 0
        /\ msg.FIN => p + SP!sequence_length(msg) = StreamLen + 2
    BY DEF SP!Placed, SP!At
  <1>2. /\ msg.payload \in Seq(0..StreamLen - 1) /\ msg.SYN \in BOOLEAN /\ msg.FIN \in BOOLEAN
        /\ msg = [seqno |-> msg.seqno, SYN |-> msg.SYN, payload |-> msg.payload, FIN |-> msg.FIN]
    BY <1>1 DEF SP!Msg
  <1>3. len \in Nat /\ DOMAIN msg.payload = 1..len /\ StreamLen \in Nat
    BY <1>2, StreamAssumption
  <1>4. p + SP!One(msg.SYN) = first + 1 /\ first \in Nat
    BY <1>1 DEF SP!One
  <1>5. \A k \in 1..len : msg.payload[k] = first + k - 1
    BY <1>1, <1>3, <1>4
  <1>6. msg.payload = [i \in 1..len |-> first + i - 1]
    BY <1>2, <1>3, <1>5
  <1>7. SP!sequence_length(msg) = SP!One(msg.SYN) + len + SP!One(msg.FIN)
    BY DEF SP!sequence_length
  <1>8. len > 0 => first + len <= StreamLen
    <2>1. ASSUME len > 0 PROVE first + len - 1 \in 0..StreamLen - 1
      <3>1. len \in 1..len
        BY <1>3, <2>1
      <3>2. msg.payload[len] \in 0..StreamLen - 1
        BY <1>2, <1>3, <3>1
      <3> QED BY <1>5, <3>1, <3>2
    <2> QED BY <1>3, <1>4, <2>1
  <1>9. msg.FIN => first + len = StreamLen
    <2> SUFFICES ASSUME msg.FIN PROVE first + len = StreamLen
      OBVIOUS
    <2> DEFINE c == SP!One(msg.SYN)
    <2>1. c \in 0..1 /\ SP!One(msg.FIN) = 1
      BY DEF SP!One
    <2>2. p + (c + len + 1) = StreamLen + 2
      BY <1>1, <1>7, <2>1
    <2> HIDE DEF c, len, first
    <2>3. p + c = first + 1
      BY <1>4 DEF c
    <2> QED BY <1>1, <1>3, <1>4, <2>1, <2>2, <2>3
  <1>10. first + len <= StreamLen /\ p <= StreamLen + 1
    <2> HIDE DEF len
    <2>1. CASE len > 0 \/ msg.FIN
      BY <1>1, <1>3, <1>4, <1>8, <1>9, <2>1
    <2>2. CASE ~(len > 0 \/ msg.FIN)
      <3>1. SP!One(msg.SYN) > 0
        BY <1>1, <1>3, <1>7, <2>2 DEF SP!One
      <3>2. p = 0 /\ len = 0
        BY <1>1, <1>3, <2>2, <3>1 DEF SP!One
      <3> QED BY <1>3, <3>2
    <2> QED BY <2>1, <2>2
  <1>11. msg = Segment(p, len, msg.FIN)
    <2>1. SP!wrap(p, Isn) = wrap(p, Isn)
      BY DEF SP!wrap, SP!Plus, SP!Word, wrap, Plus, Word
    <2>2. msg.SYN = (p = 0)
      BY <1>1, <1>2
    <2> QED BY <1>1, <1>2, <1>6, <2>1, <2>2 DEF Segment
  <1>12. Sender!sequence_length(msg) = SP!sequence_length(msg)
    BY DEF Sender!sequence_length, SP!sequence_length, Sender!One, SP!One
  <1> HIDE DEF len, first
  <1>13. len \in 0..MaxSegment /\ p \in 0..StreamLen + 1
    BY <1>1, <1>3, <1>10 DEF Connection, len
  <1> QED BY <1>1, <1>2, <1>9, <1>10, <1>11, <1>12, <1>13 DEF first

\* Read near the next byte, the first number of a segment is its place.
LEMMA SegmentRead ==
    ASSUME Connection, RcvInv, NEW p \in 0..StreamLen + 1
    PROVE  /\ unwrap(wrap(p, Isn), Isn, FirstUnassembled) = p
           /\ p + HalfWord > FirstUnassembled /\ p < FirstUnassembled + HalfWord
  <1> DEFINE fu == FirstUnassembled
  <1>1. fu \in 0..StreamLen /\ StreamLen + 2 <= HalfWord /\ StreamLen \in Nat /\ HalfWord \in Nat
    BY SenderSizes, TakenBounds
  <1> HIDE DEF fu
  <1>2. p \in Nat /\ fu \in Nat /\ p < fu + HalfWord /\ fu < p + HalfWord /\ fu <= p + HalfWord
    BY <1>1
  <1>3. unwrap(wrap(p, Isn), Isn, fu) = p
    BY <1>2, ReadsBack DEF Connection
  <1> QED BY <1>2, <1>3 DEF fu

\* A message that arrives is ignored, or its bytes go to the Reassembler.
LEMMA ArrivalDelivers ==
    ASSUME Connection, RcvInv, NEW msg, NEW p, SP!Placed(msg, p), Arrive(msg)
    PROVE  \/ UNCHANGED <<receiver, reassembler, inbound>>
           \/ \E len \in 0..MaxSegment :
                /\ Delivered(IF p = 0 THEN 0 ELSE p - 1, len, msg.FIN)
                /\ msg = Segment(p, len, msg.FIN)
  <1>1. PICK len \in 0..MaxSegment :
               /\ msg = Segment(p, len, msg.FIN) /\ msg.FIN \in BOOLEAN
               /\ p \in 0..StreamLen + 1 /\ (msg.SYN <=> p = 0)
               /\ (IF p = 0 THEN 0 ELSE p - 1) + len <= StreamLen
               /\ msg.FIN => (IF p = 0 THEN 0 ELSE p - 1) + len = StreamLen
    BY LeavesSegment
  <1>2. Receive(msg)
    BY DEF Arrive
  <1>3. CASE p = 0 \/ receiver.isn # None
    <2>1. Plausible(p, len, msg.FIN)
      BY <1>1, SegmentRead DEF Plausible, FirstUnassembled
    <2> DEFINE fin == msg.FIN
    <2>2. fin \in BOOLEAN /\ Plausible(p, len, fin) /\ Receive(Segment(p, len, fin))
      BY <1>1, <1>2, <2>1
    <2> HIDE DEF fin
    <2>3. Delivered(IF p = 0 THEN 0 ELSE p - 1, len, fin)
      BY <1>1, <1>3, <2>2, SegmentDelivers DEF Connection
    <2> QED BY <1>1, <2>3 DEF fin
  <1>4. CASE ~(p = 0 \/ receiver.isn # None)
    BY <1>1, <1>2, <1>4, Ignored
  <1> QED BY <1>3, <1>4

\* With room for them, the bytes in front of a FIN complete the stream.
LEMMA FinCompletes ==
    ASSUME ShortSubstrings, RcvInv, NEW first \in 0..StreamLen, NEW len \in 0..MaxSegment, Delivered(first, len, TRUE),
           first <= FirstUnassembled, StreamLen <= inbound.bytes_popped + Capacity
    PROVE  FirstUnassembled' = StreamLen
  <1>1. PICK H, H2 : Inserted(first, len, H, H2)
    BY InsertResult DEF RcvInv, Delivered
  <1> DEFINE fu == reassembler.first_unassembled
             fu2 == reassembler'.first_unassembled
             edge == inbound.bytes_popped + Capacity
             top == inbound.bytes_popped + Capacity - 1
  <1>2. /\ KnownBytes(fu2, H2) = KnownBytes(fu, H) \union ((first..first + len - 1) \intersect (0..top))
        /\ Keeps(reassembler', H2, inbound.bytes_popped)
    BY <1>1 DEF Inserted
  <1>3. first + len = StreamLen
    BY DEF Delivered, Insert
  <1>4. fu \in 0..StreamLen /\ edge \in Nat /\ top = edge - 1 /\ StreamLen \in Nat /\ first <= fu /\ StreamLen <= edge
    BY TakenBounds, StreamAssumption DEF FirstUnassembled
  <1>5. fu2 \in 0..StreamLen /\ fu2 \notin H2
    BY <1>2, NextOpen
  <1> HIDE DEF fu, fu2, edge, top
  <1>6. ASSUME fu2 < StreamLen PROVE FALSE
    <2>1. fu2 \in KnownBytes(fu, H) \union ((first..first + len - 1) \intersect (0..top))
      <3>1. CASE fu2 < fu
        <4>1. fu2 \in 0..fu - 1
          BY <1>4, <1>5, <3>1
        <4> QED BY <4>1 DEF KnownBytes
      <3>2. CASE ~(fu2 < fu)
        <4>1. first + len - 1 = StreamLen - 1
          BY <1>3, <1>4
        <4>2. fu2 \in first..StreamLen - 1 /\ fu2 \in 0..top
          BY <1>4, <1>5, <1>6, <3>2
        <4> QED BY <4>1, <4>2
      <3> QED BY <3>1, <3>2
    <2>2. fu2 \notin KnownBytes(fu2, H2)
      BY <1>4, <1>5 DEF KnownBytes
    <2> QED BY <1>2, <2>1, <2>2
  <1>7. fu2 = StreamLen
    BY <1>4, <1>5, <1>6
  <1> QED BY <1>7 DEF fu2, FirstUnassembled

\* The answer that the receiver has to a message.
LEMMA AnswerFits ==
    Connection /\ RcvInv => Answers(send(receiver, inbound), Taken)
  <1> SUFFICES ASSUME Connection, RcvInv
               PROVE  Answers(send(receiver, inbound), Taken)
    OBVIOUS
  <1> DEFINE raw == IF receiver.isn = None THEN None ELSE SP!wrap(Taken, Isn)
             size == Window(inbound)
  <1>1. Taken \in Nat /\ receiver.first_unassembled = FirstUnassembled /\ receiver.isn \in {None, Isn}
    BY TakenBounds DEF RcvInv
  <1>2. size \in Nat
    <2>1. inbound.capacity = Capacity /\ Len(inbound.queue) \in Nat /\ Len(inbound.queue) <= Capacity
      BY DEF RcvInv, Inv, Delivers, Streams
    <2>2. MaxWindow \in Nat /\ Capacity \in Nat
      BY ReceiverAssumption, StreamAssumption DEF Connection
    <2>3. size = IF Capacity - Len(inbound.queue) <= MaxWindow THEN Capacity - Len(inbound.queue) ELSE MaxWindow
      BY <2>1 DEF Window, Smaller, available_capacity,
                  bytes_buffered
    <2> HIDE DEF size
    <2> QED BY <2>1, <2>2, <2>3
  <1>3. receiver.isn # None => AckPosition(receiver) = Taken
    BY <1>1 DEF AckPosition, Taken
  <1>4. \A n, z : wrap(n, z) = SP!wrap(n, z)
    BY DEF wrap, Plus, Word, SP!wrap, SP!Plus, SP!Word
  <1>5. send(receiver, inbound) = [ackno |-> raw, window_size |-> size]
    BY <1>1, <1>3, <1>4 DEF send
  <1>6. raw = None \/ raw = SP!wrap(Taken, Isn)
    OBVIOUS
  <1> HIDE DEF raw, size
  <1>7. Taken <= Taken
    BY <1>1
  <1> QED BY <1>1, <1>2, <1>5, <1>6, <1>7 DEF Answers

LEMMA AnswerFitsNext ==
    ASSUME Connection, RcvInv'
    PROVE  Answers(send(receiver', inbound'), Taken')
  <1>1. (Connection /\ RcvInv => Answers(send(receiver, inbound), Taken))'
    BY AnswerFits, PTL
  <1>2. Connection'
    BY DEF Connection
  <1>3. Answers(send(receiver, inbound), Taken)'
    BY <1>1, <1>2
  <1> QED BY <1>3

\* The first number still kept is a number.
LEMMA KeptType ==
    ASSUME Connection, NEW s, NEW o, SP!Coherent(s, o)
    PROVE  SP!Kept(s) \in Nat
  <1>1. PICK p : SP!LiesAt(s, p)
    BY DEF SP!Coherent, SP!FlightInv
  <1> QED BY <1>1, SenderSizes, SP!KeptIsFirst DEF Connection

\* A message keeps its place, and an acknowledgment its meaning, as time goes on.
LEMMA LeavesStays ==
    ASSUME NEW msg, NEW s, NEW o, NEW t, NEW x, SP!Leaves(msg, s, o),
           o.closed => x.closed, ~t.has_not_sent_SYN
    PROVE  SP!Leaves(msg, t, x)
  BY DEF SP!Leaves

LEMMA AnswersStays ==
    ASSUME NEW ack, NEW a \in Nat, NEW b \in Nat, Answers(ack, a), a <= b
    PROVE  Answers(ack, b)
  <1>1. PICK raw, q, size :
           /\ q \in Nat /\ q <= a /\ size \in Nat
           /\ ack = [ackno |-> raw, window_size |-> size]
           /\ raw = None \/ raw = SP!wrap(q, Isn)
    BY DEF Answers
  <1>2. q <= b
    BY <1>1
  <1> QED BY <1>1, <1>2 DEF Answers

\* A step of the sender, which leaves the receiver alone.
SenderMoves(t, x) ==
    /\ sender' = t /\ outbound' = x
    /\ UNCHANGED <<receiver, reassembler, inbound>>
    /\ \A msg \in segments' \ segments : SP!Leaves(msg, t, x)
    /\ acks' \subseteq acks

LEMMA SenderStep ==
    ASSUME Connection, ConnectionInv, NEW t, NEW x, SP!Coherent(t, x),
           sender.next_seqno <= t.next_seqno, x.bytes_pushed = outbound.bytes_pushed,
           outbound.closed => x.closed, SP!Kept(t) <= Taken, SenderMoves(t, x)
    PROVE  ConnectionInv'
  <1>1. /\ RcvInv' /\ Taken' = Taken /\ FirstUnassembled' = FirstUnassembled
        /\ reassembler' = reassembler
    BY DEF ConnectionInv, SenderMoves, RcvInv, Inv, CompleteIsClosed, Taken, FirstUnassembled
  <1>2. ~sender.has_not_sent_SYN => ~t.has_not_sent_SYN
    <2>1. /\ sender.next_seqno \in Nat /\ (sender.has_not_sent_SYN <=> sender.next_seqno = 0)
          /\ t.next_seqno \in Nat /\ (t.has_not_sent_SYN <=> t.next_seqno = 0)
      BY SenderSizes, SP!NextBounds DEF ConnectionInv
    <2> QED BY <2>1
  <1>3. ASSUME NEW msg \in segments' PROVE SP!Leaves(msg, t, x)
    <2>1. CASE msg \in segments
      <3>1. SP!Leaves(msg, sender, outbound)
        BY <2>1 DEF ConnectionInv
      <3>2. ~sender.has_not_sent_SYN
        BY <3>1 DEF SP!Leaves
      <3> QED BY <1>2, <3>1, <3>2, LeavesStays
    <2>2. CASE msg \notin segments
      BY <2>2 DEF SenderMoves
    <2> QED BY <2>1, <2>2
  <1>4. ASSUME NEW ack \in acks' PROVE Answers(ack, Taken) /\ ~t.has_not_sent_SYN
    BY <1>2 DEF SenderMoves, ConnectionInv
  <1>5. sender' = t /\ outbound' = x
    BY DEF SenderMoves
  <1>6. SP!Coherent(sender', outbound') /\ SP!Kept(sender') <= Taken'
    BY <1>1, <1>5
  <1>7. /\ outbound'.bytes_pushed = StreamLen
        /\ reassembler'.reach_end => outbound'.closed
        /\ FinInOrder /\ FinFits /\ reassembler'.reach_end => FirstUnassembled' = StreamLen
    BY <1>1, <1>5 DEF ConnectionInv
  <1> QED BY <1>1, <1>3, <1>4, <1>5, <1>6, <1>7 DEF ConnectionInv

\* What arrives is taken, answered, and if the FIN keeps its place it ends the
\* stream only when complete.
LEMMA ArrivalStep ==
    ASSUME Connection, ConnectionInv, NEW msg \in segments, MayArrive(msg), Arrive(msg),
           segments' \subseteq segments
    PROVE  /\ ConnectionInv'
           /\ \/ UNCHANGED <<receiver, reassembler, inbound>>
              \/ \E first \in 0..StreamLen, len \in 0..MaxSegment, last \in BOOLEAN : Delivered(first, len, last)
  <1>1. PICK p : SP!Placed(msg, p)
    BY DEF ConnectionInv, SP!Leaves
  <1>2. /\ RcvInv /\ SP!Leaves(msg, sender, outbound) /\ ~sender.has_not_sent_SYN
        /\ reassembler.reach_end => outbound.closed
        /\ FinInOrder /\ FinFits /\ reassembler.reach_end => FirstUnassembled = StreamLen
    BY DEF ConnectionInv, SP!Leaves
  <1> DEFINE first == IF p = 0 THEN 0 ELSE p - 1
             Good == /\ RcvInv' /\ Taken \in Nat /\ Taken' \in Nat /\ Taken <= Taken'
                     /\ reassembler'.reach_end => outbound.closed
                     /\ FinInOrder /\ FinFits /\ reassembler'.reach_end => FirstUnassembled' = StreamLen
                     /\ \/ UNCHANGED <<receiver, reassembler, inbound>>
                        \/ \E f \in 0..StreamLen, len \in 0..MaxSegment, last \in BOOLEAN : Delivered(f, len, last)
  <1>3. ASSUME UNCHANGED <<receiver, reassembler, inbound>> PROVE Good
    <2>1. RcvInv' /\ Taken' = Taken /\ FirstUnassembled' = FirstUnassembled
      BY <1>2, <1>3 DEF RcvInv, Inv, CompleteIsClosed, Taken, FirstUnassembled
    <2>2. Taken \in Nat /\ Taken <= Taken
      BY <1>2, TakenBounds
    <2> QED BY <1>2, <1>3, <2>1, <2>2
  <1>4. ASSUME NEW len \in 0..MaxSegment, Delivered(first, len, msg.FIN), msg = Segment(p, len, msg.FIN)
        PROVE  Good
    <2>1. /\ msg.FIN \in BOOLEAN /\ p \in 0..StreamLen + 1 /\ (msg.SYN <=> p = 0)
          /\ msg.FIN => p + Sender!sequence_length(msg) = StreamLen + 2
      BY <1>1, LeavesSegment
    <2>2. first \in 0..StreamLen /\ StreamLen \in Nat /\ Capacity \in Nat
      BY <2>1, StreamAssumption
    <2>3. RcvInv' /\ receiver'.isn = Isn /\ reassembler'.reach_end = (reassembler.reach_end \/ msg.FIN)
      BY <1>4 DEF Delivered
    <2> HIDE DEF first
    <2>4. FirstUnassembled <= FirstUnassembled' /\ inbound'.bytes_popped = inbound.bytes_popped
      BY <1>2, <1>4, <2>1, <2>2, StepForward DEF Connection
    <2>5. inbound.closed => inbound'.closed
      <3>1. PICK H : Keeps(reassembler, H, inbound.bytes_popped)
        BY <1>2 DEF RcvInv, Inv
      <3>2. Delivers(inbound, reassembler.first_unassembled)
        BY <1>2 DEF RcvInv, Inv, FirstUnassembled
      <3>3. Ends(reassembler, inbound, msg.FIN, insert(reassembler, inbound, first, Substring(first, len), msg.FIN))
        BY <2>1, <3>1, <3>2, InsertFlags
      <3>4. inbound' = insert(reassembler, inbound, first, Substring(first, len), msg.FIN).output
        BY <1>4 DEF Delivered, Insert
      <3> QED BY <3>3, <3>4 DEF Ends
    <2>6. /\ FirstUnassembled' \in 0..StreamLen /\ Taken' \in Nat /\ receiver'.is_finished = inbound'.closed
          /\ inbound'.closed => reassembler'.reach_end
      BY <2>3, TakenBoundsNext DEF RcvInv
    <2>7. /\ FirstUnassembled \in 0..StreamLen /\ Taken \in Nat /\ receiver.is_finished = inbound.closed
          /\ inbound.bytes_popped \in Nat
      BY <1>2, TakenBounds
    <2>8. Taken <= Taken'
      <3> DEFINE fu == FirstUnassembled
                 fu2 == FirstUnassembled'
      <3>1. Isn # None
        BY ReceiverAssumption, StreamAssumption DEF Connection
      <3>2. Taken' = fu2 + 1 + (IF inbound'.closed THEN 1 ELSE 0)
        BY <2>3, <2>6, <3>1 DEF Taken
      <3>3. Taken <= fu + 1 + (IF inbound.closed THEN 1 ELSE 0)
        BY <2>2, <2>7 DEF Taken
      <3>4. fu <= fu2 /\ fu \in 0..StreamLen /\ fu2 \in 0..StreamLen
        BY <2>4, <2>6, <2>7
      <3> HIDE DEF fu, fu2
      <3> QED BY <2>2, <2>5, <2>6, <2>7, <3>2, <3>3, <3>4
    <2>9. FinInOrder /\ FinFits /\ msg.FIN => FirstUnassembled' = StreamLen
      <3> SUFFICES ASSUME FinInOrder, FinFits, msg.FIN PROVE FirstUnassembled' = StreamLen
        OBVIOUS
      <3>1. unwrap(msg.seqno, Isn, reassembler.first_unassembled) = p
        <4>1. msg.seqno = wrap(p, Isn)
          BY <1>4 DEF Segment
        <4>2. \A n, z, c : unwrap(n, z, c) = unwrap(n, z, c)
          BY DEF unwrap, Diff, wrap, Plus, Word
        <4> QED BY <1>2, <2>1, <4>1, <4>2, SegmentRead DEF FirstUnassembled
      <3>2. /\ p <= FirstUnassembled + 1
            /\ p + Sender!sequence_length(msg) <= inbound.bytes_popped + Capacity + 2
        BY <3>1 DEF MayArrive, FirstUnassembled
      <3>3. first <= FirstUnassembled
        BY <2>1, <2>7, <3>2 DEF first
      <3>4. StreamLen <= inbound.bytes_popped + Capacity
        BY <2>1, <2>2, <2>7, <3>2
      <3>5. Delivered(first, len, TRUE)
        BY <1>4, <2>1
      <3> QED BY <1>2, <2>2, <3>3, <3>4, <3>5, FinCompletes DEF Connection
    <2>10. /\ reassembler'.reach_end => outbound.closed
           /\ FinInOrder /\ FinFits /\ reassembler'.reach_end => FirstUnassembled' = StreamLen
      <3>1. ASSUME FinInOrder, FinFits, reassembler.reach_end PROVE FirstUnassembled' = StreamLen
        BY <1>2, <2>2, <2>4, <2>6, <2>7, <3>1
      <3>2. msg.FIN => outbound.closed
        BY <1>2 DEF SP!Leaves
      <3> QED BY <1>2, <2>3, <2>9, <3>1, <3>2
    <2> QED BY <1>4, <2>1, <2>2, <2>3, <2>6, <2>7, <2>8, <2>10
  <1>5. Good
    <2>1. UNCHANGED <<receiver, reassembler, inbound>> => Good
      BY <1>3
    <2> HIDE DEF Good
    <2> QED BY <1>1, <1>2, <1>4, <2>1, ArrivalDelivers
  <1>6. acks' = acks \union {send(receiver', inbound')} /\ UNCHANGED <<sender, outbound>>
    BY DEF Arrive, senderVars
  <1>7. Answers(send(receiver', inbound'), Taken')
    BY <1>5, AnswerFitsNext
  <1>8. \A ack \in acks' : Answers(ack, Taken') /\ ~sender'.has_not_sent_SYN
    <2>1. \A ack \in acks : Answers(ack, Taken)
      BY DEF ConnectionInv
    <2> QED BY <1>2, <1>5, <1>6, <1>7, <2>1, AnswersStays
  <1>9. SP!Coherent(sender', outbound') /\ SP!Kept(sender') <= Taken' /\ outbound'.bytes_pushed = StreamLen
    <2>1. SP!Coherent(sender, outbound) /\ SP!Kept(sender) <= Taken /\ outbound.bytes_pushed = StreamLen
      BY DEF ConnectionInv
    <2>2. SP!Kept(sender) \in Nat
      BY <2>1, KeptType
    <2>3. SP!Kept(sender) <= Taken'
      BY <1>5, <2>1, <2>2
    <2> QED BY <1>6, <2>1, <2>3
  <1>10. \A m \in segments' : SP!Leaves(m, sender', outbound')
    BY <1>6 DEF ConnectionInv
  <1>11. /\ reassembler'.reach_end => outbound'.closed
         /\ FinInOrder /\ FinFits /\ reassembler'.reach_end => FirstUnassembled' = StreamLen
    BY <1>5, <1>6
  <1> QED BY <1>5, <1>8, <1>9, <1>10, <1>11 DEF ConnectionInv

\* What a step shows the applications: nothing new, perhaps the writer's end of
\* the stream; an insert; or the reader's turn.
Quiet == inbound' = inbound /\ outbound'.closed \in {outbound.closed, TRUE}

Handing ==
    /\ outbound' = outbound
    /\ \E first \in 0..StreamLen, len \in 0..MaxSegment, last \in BOOLEAN : Delivered(first, len, last)

Reading == outbound' = outbound /\ inbound.queue # <<>> /\ inbound' = pop(inbound, Capacity)

Sound == ConnectionInv' /\ (Quiet \/ Handing \/ Reading)

\* A new connection.
LEMMA ConnectionStart == Connection /\ ConnectionInit => ConnectionInv
  <1> SUFFICES ASSUME Connection, ConnectionInit PROVE ConnectionInv
    OBVIOUS
  <1>1. ReceiverInit
    BY DEF ConnectionInit
  <1>2. RcvInv /\ reassembler.reach_end = FALSE
    BY <1>1, RcvStart, Start
  <1>3. Taken \in Nat
    BY <1>2, TakenBounds
  <1>4. sender = SP!NewSender(Isn)
    BY DEF ConnectionInit, Sender!NewSender, SP!NewSender, Sender!NewTimer, SP!NewTimer
  <1>5. outbound = SP!push(SP!NewStream(StreamLen), [i \in 1..StreamLen |-> i - 1])
    <2>1. Substring(0, StreamLen) = [i \in 1..StreamLen |-> i - 1]
      BY StreamAssumption DEF Substring
    <2>2. \A out, data : push(out, data) = SP!push(out, data)
      BY DEF push, SP!push, Smaller, SP!Smaller, available_capacity, SP!available_capacity,
             bytes_buffered, SP!bytes_buffered
    <2>3. NewStream(StreamLen) = SP!NewStream(StreamLen)
      BY DEF NewStream, SP!NewStream
    <2> QED BY <2>1, <2>2, <2>3 DEF ConnectionInit
  <1>6. SP!Coherent(sender, outbound) /\ outbound.bytes_pushed = StreamLen /\ SP!Kept(sender) = 0
    BY <1>4, <1>5, SenderSizes, SP!WrittenIsCoherent
  <1>7. segments = {} /\ acks = {}
    BY DEF ConnectionInit
  <1> QED BY <1>2, <1>3, <1>6, <1>7 DEF ConnectionInv

\* The sender sends what it has queued, or its SYN or FIN,
LEMMA SendSound ==
    ASSUME Connection, ConnectionInv, MaybeSend
    PROVE  Sound
  <1> DEFINE t == SP!maybe_send(sender).s
             msg == SP!maybe_send(sender).msg
  <1>1. /\ msg # None /\ sender' = t /\ segments' = segments \union {msg}
        /\ UNCHANGED <<outbound, receiver, reassembler, inbound, acks>>
    BY SameSender DEF MaybeSend, receiverVars
  <1>2. SP!Coherent(sender, outbound) /\ outbound.bytes_pushed = StreamLen /\ SP!Kept(sender) <= Taken
    BY DEF ConnectionInv
  <1>3. /\ SP!Coherent(t, outbound) /\ SP!Kept(t) = SP!Kept(sender) /\ sender.next_seqno <= t.next_seqno
        /\ SP!Leaves(msg, t, outbound)
    BY <1>1, <1>2, SenderSizes, SP!SendKeeps DEF Connection
  <1> HIDE DEF t, msg
  <1>4. SenderMoves(t, outbound)
    BY <1>1, <1>3 DEF SenderMoves
  <1>5. ConnectionInv'
    BY <1>2, <1>3, <1>4, SenderStep
  <1>6. Quiet
    BY <1>1 DEF Quiet
  <1> QED BY <1>5, <1>6 DEF Sound

\* or queues the oldest message again,
LEMMA TimeoutSound ==
    ASSUME Connection, ConnectionInv, Timeout
    PROVE  Sound
  <1> DEFINE t == SP!tick(sender, sender.timer.timeout)
  <1>1. /\ sender' = t /\ sender.unsent_msgs = <<>>
        /\ UNCHANGED <<outbound, receiver, reassembler, inbound, segments, acks>>
    BY SameSender DEF Timeout, TimeoutDue, Drained, receiverVars
  <1>2. SP!Coherent(sender, outbound) /\ SP!Kept(sender) <= Taken
    BY DEF ConnectionInv
  <1>3. sender.timer.timeout \in Nat
    BY <1>2 DEF SP!Coherent, SP!Sender, SP!Timer
  <1>4. SP!Continues(sender, outbound, t, outbound) /\ SP!Kept(t) = SP!Kept(sender)
    BY <1>1, <1>2, <1>3, SenderSizes, SP!TickContinues DEF Connection
  <1> HIDE DEF t
  <1>5. SenderMoves(t, outbound)
    BY <1>1 DEF SenderMoves
  <1>6. ConnectionInv'
    BY <1>2, <1>4, <1>5, SenderStep DEF SP!Continues
  <1>7. Quiet
    BY <1>1 DEF Quiet
  <1> QED BY <1>6, <1>7 DEF Sound

\* or learns of the end of its stream,
LEMMA CloseSound ==
    ASSUME Connection, ConnectionInv, Close
    PROVE  Sound
  <1> DEFINE o == SP!close(outbound)
             t == SP!push_stream(sender, o).s
             x == SP!push_stream(sender, o).outbound
  <1>1. /\ sender' = t /\ outbound' = x /\ sender.unsent_msgs = <<>> /\ ~sender.has_not_sent_SYN
        /\ UNCHANGED <<receiver, reassembler, inbound, segments, acks>>
    <2>1. close(outbound) = o
      BY DEF close, SP!close
    <2>2. Sender!push_stream(sender, o) = SP!push_stream(sender, o)
      BY SameSender
    <2> HIDE DEF o
    <2> QED BY <2>1, <2>2 DEF Close, CloseDue, Drained, receiverVars
  <1>2. SP!Coherent(sender, outbound) /\ SP!Kept(sender) <= Taken
    BY DEF ConnectionInv
  <1>3. SP!Coherent(sender, o)
    BY <1>2, SenderSizes, SP!CloseKeeps
  <1>4. o.closed = TRUE /\ o.bytes_pushed = outbound.bytes_pushed
    BY <1>2 DEF SP!close, SP!Coherent, SP!Stream
  <1> HIDE DEF o
  <1>5. SP!Continues(sender, o, t, x) /\ SP!Kept(t) = SP!Kept(sender)
    BY <1>1, <1>3, SenderSizes, SP!PushContinues DEF Connection
  <1> HIDE DEF t, x
  <1>6. SenderMoves(t, x)
    BY <1>1 DEF SenderMoves
  <1>7. ConnectionInv'
    BY <1>2, <1>4, <1>5, <1>6, SenderStep DEF SP!Continues
  <1>8. Quiet
    BY <1>1, <1>4, <1>5 DEF Quiet, SP!Continues
  <1> QED BY <1>7, <1>8 DEF Sound

\* or takes an acknowledgment and fills the window.
LEMMA AckSound ==
    ASSUME Connection, ConnectionInv, NEW ack \in acks, TakeAck(ack), acks' \subseteq acks
    PROVE  Sound
  <1> DEFINE w == SP!receive(sender, ack)
             t == SP!push_stream(w, outbound).s
             x == SP!push_stream(w, outbound).outbound
  <1>1. /\ sender' = t /\ outbound' = x /\ sender.unsent_msgs = <<>>
        /\ UNCHANGED <<receiver, reassembler, inbound, segments>>
    <2>1. Sender!receive(sender, ack) = w
      BY SameSender
    <2>2. Sender!push_stream(w, outbound) = SP!push_stream(w, outbound)
      BY SameSender
    <2> HIDE DEF w
    <2> QED BY <2>1, <2>2 DEF TakeAck, Drained, receiverVars
  <1>2. /\ RcvInv /\ SP!Coherent(sender, outbound) /\ SP!Kept(sender) <= Taken
        /\ Answers(ack, Taken) /\ ~sender.has_not_sent_SYN
    BY DEF ConnectionInv
  <1>3. PICK raw, q, size :
           /\ q \in Nat /\ q <= Taken /\ size \in Nat
           /\ ack = [ackno |-> raw, window_size |-> size]
           /\ raw = None \/ raw = SP!wrap(q, Isn)
    BY <1>2 DEF Answers
  <1>4. raw \in {None} \union (0..SP!Word - 1)
    BY <1>3, SenderSizes, SP!WrapType
  <1>5. /\ sender.next_seqno \in 1..StreamLen + 2 /\ sender.next_seqno \in Nat /\ StreamLen \in Nat
    <2>1. /\ sender.next_seqno \in Nat /\ sender.next_seqno <= StreamLen + 2
          /\ (sender.has_not_sent_SYN <=> sender.next_seqno = 0)
      BY <1>2, SenderSizes, SP!NextBounds
    <2> QED BY <1>2, <2>1, StreamAssumption
  <1>6. /\ SP!Continues(sender, outbound, w, outbound) /\ w.unsent_msgs = <<>>
        /\ SP!Kept(w) = SP!Kept(sender)
             \/ (raw # None /\ SP!Kept(w) <= SP!unwrap(raw, Isn, sender.next_seqno))
    BY <1>1, <1>2, <1>3, <1>4, SenderSizes, SP!ReceiveContinues DEF Connection
  <1> HIDE DEF w
  <1>7. SP!Coherent(w, outbound) /\ sender.next_seqno <= w.next_seqno
    BY <1>6 DEF SP!Continues
  <1>8. SP!Kept(w) <= Taken
    <2>1. Taken \in Nat /\ Taken <= StreamLen + 2
      BY <1>2, TakenBounds
    <2>2. q \in 0..StreamLen + 2
      BY <1>3, <1>5, <2>1
    <2>3. SP!unwrap(SP!wrap(q, Isn), Isn, sender.next_seqno) = q
      BY <1>5, <2>2, SenderSizes, SP!PositionRead DEF Connection
    <2>4. SP!Kept(w) \in Nat
      BY <1>7, KeptType
    <2> QED BY <1>2, <1>3, <1>6, <2>1, <2>3, <2>4
  <1>9. ~w.has_not_sent_SYN /\ w.next_seqno \in Nat
    <2>1. w.next_seqno \in Nat /\ (w.has_not_sent_SYN <=> w.next_seqno = 0)
      BY <1>7, SenderSizes, SP!NextBounds
    <2> QED BY <1>5, <1>7, <2>1
  <1>10. SP!Continues(w, outbound, t, x) /\ SP!Kept(t) = SP!Kept(w)
    BY <1>6, <1>7, <1>9, SenderSizes, SP!PushContinues DEF Connection
  <1> HIDE DEF t, x
  <1>11. /\ SP!Coherent(t, x) /\ w.next_seqno <= t.next_seqno
         /\ x.bytes_pushed = outbound.bytes_pushed /\ x.closed = outbound.closed
    BY <1>10 DEF SP!Continues
  <1>12. sender.next_seqno <= t.next_seqno
    <2>1. t.next_seqno \in Nat
      BY <1>11, SenderSizes, SP!NextBounds
    <2> QED BY <1>5, <1>7, <1>9, <1>11, <2>1
  <1>13. SenderMoves(t, x)
    BY <1>1 DEF SenderMoves
  <1>14. ConnectionInv'
    BY <1>8, <1>10, <1>11, <1>12, <1>13, SenderStep
  <1>15. Quiet
    BY <1>1, <1>11 DEF Quiet
  <1> QED BY <1>14, <1>15 DEF Sound

\* A segment arrives at the receiver.
LEMMA SegmentSound ==
    ASSUME Connection, ConnectionInv, NEW msg \in segments, MayArrive(msg), Arrive(msg),
           segments' \subseteq segments
    PROVE  Sound
  <1>1. UNCHANGED <<sender, outbound>>
    BY DEF Arrive, senderVars
  <1>2. /\ ConnectionInv'
        /\ \/ UNCHANGED <<receiver, reassembler, inbound>>
           \/ \E first \in 0..StreamLen, len \in 0..MaxSegment, last \in BOOLEAN : Delivered(first, len, last)
    BY ArrivalStep
  <1> QED BY <1>1, <1>2 DEF Sound, Quiet, Handing

\* The application at the other end reads.
LEMMA ReadSound ==
    ASSUME Connection, ConnectionInv, ReadAll
    PROVE  Sound
  <1>1. /\ ReadInbound(Capacity) /\ inbound' = pop(inbound, Capacity) /\ inbound.queue # <<>>
        /\ UNCHANGED <<sender, outbound, receiver, reassembler, segments, acks>>
    BY DEF ReadAll, senderVars, ReadInbound, Read
  <1>2. RcvInv /\ Delivers(inbound, FirstUnassembled)
    BY DEF ConnectionInv, RcvInv, Inv
  <1>3. Capacity \in 1..Capacity
    <2>1. /\ inbound.queue \in Seq(Indices) /\ Len(inbound.queue) \in Nat /\ Len(inbound.queue) <= Capacity
          /\ Capacity \in Nat
      BY <1>2, StreamAssumption DEF Delivers, Streams
    <2>2. Len(inbound.queue) # 0
      BY <1>1, <2>1
    <2> QED BY <2>1, <2>2
  <1>4. RcvInv'
    BY <1>1, <1>2, <1>3, RcvKeeps DEF ReceiverNext, Connection
  <1>5. Taken' = Taken /\ FirstUnassembled' = FirstUnassembled
    BY <1>1 DEF Taken, FirstUnassembled
  <1>6. ConnectionInv'
    BY <1>1, <1>4, <1>5 DEF ConnectionInv
  <1>7. Reading
    BY <1>1 DEF Reading
  <1> QED BY <1>6, <1>7 DEF Sound

\* A message is lost, or nothing happens.
LEMMA NothingSound ==
    ASSUME Connection, ConnectionInv, SenderMoves(sender, outbound)
    PROVE  Sound
  <1>1. /\ SP!Coherent(sender, outbound) /\ SP!Kept(sender) <= Taken
        /\ sender' = sender /\ outbound' = outbound /\ inbound' = inbound
    BY DEF ConnectionInv, SenderMoves
  <1>2. sender.next_seqno <= sender.next_seqno
    <2>1. sender.next_seqno \in Nat
      BY <1>1, SenderSizes, SP!NextBounds
    <2> QED BY <2>1
  <1>3. ConnectionInv'
    BY <1>1, <1>2, SenderStep
  <1> QED BY <1>1, <1>3 DEF Sound, Quiet

\* Every step of the connection keeps the invariant.
LEMMA ConnectionStep ==
    ASSUME Connection, ConnectionInv, [ConnectionNext]_connectionVars
    PROVE  Sound
  <1>1. CASE Fault
    <2>1. ASSUME NEW msg \in segments, segments' = segments \ {msg},
                 UNCHANGED <<sender, outbound, receiver, reassembler, inbound, acks>>
          PROVE  Sound
      <3>1. SenderMoves(sender, outbound)
        BY <2>1 DEF SenderMoves
      <3> QED BY <2>1, <3>1, NothingSound
    <2>2. ASSUME NEW ack \in acks, acks' = acks \ {ack},
                 UNCHANGED <<sender, outbound, receiver, reassembler, inbound, segments>>
          PROVE  Sound
      <3>1. SenderMoves(sender, outbound)
        BY <2>2 DEF SenderMoves
      <3> QED BY <2>2, <3>1, NothingSound
    <2>3. ASSUME NEW msg \in segments, MayArrive(msg), Arrive(msg), segments' = segments
          PROVE  Sound
      BY <2>3, SegmentSound
    <2>4. ASSUME NEW ack \in acks, TakeAck(ack), acks' = acks
          PROVE  Sound
      BY <2>4, AckSound
    <2> QED BY <1>1, <2>1, <2>2, <2>3, <2>4 DEF Fault, senderVars, receiverVars
  <1>2. ASSUME NEW msg \in segments, DeliverSegment(msg) PROVE Sound
    BY <1>2, SegmentSound DEF DeliverSegment
  <1>3. ASSUME NEW ack \in acks, DeliverAck(ack) PROVE Sound
    BY <1>3, AckSound DEF DeliverAck
  <1>4. CASE UNCHANGED connectionVars
    <2>1. UNCHANGED <<sender, outbound, receiver, reassembler, inbound, segments, acks>>
      BY <1>4 DEF connectionVars, senderVars, receiverVars
    <2>2. SenderMoves(sender, outbound)
      BY <2>1 DEF SenderMoves
    <2> QED BY <2>1, <2>2, NothingSound
  <1> QED BY <1>1, <1>2, <1>3, <1>4, CloseSound, SendSound, TimeoutSound, ReadSound DEF ConnectionNext

\* ConnectionInv holds throughout, in whatever order segments and acknowledgments
\* arrive, FINs included, and however many are lost or repeated.
THEOREM ConnectionSound == ASSUME Connection PROVE ConnectionSpec => []ConnectionInv
  <1>1. ConnectionInit => ConnectionInv
    BY ConnectionStart
  <1>2. ConnectionInv /\ [ConnectionNext]_connectionVars => ConnectionInv'
    BY ConnectionStep DEF Sound
  <1> QED BY <1>1, <1>2, PTL DEF ConnectionSpec

\* What the reader finds in its stream is what the writer wrote, in order and
\* without holes: that does not depend on where the FIN arrives either.
THEOREM ReaderGetsPrefix == ASSUME Connection PROVE ConnectionSpec => []StreamIntact
  <1>1. ConnectionInv => StreamIntact
    BY DEF ConnectionInv, RcvInv, Inv, Delivers, StreamIntact
  <1> QED BY <1>1, ConnectionSound, PTL

\* What the sender has forgotten the receiver has counted.
LEMMA ForgottenIsTaken == ConnectionInv => OldestKept <= Taken
  <1>1. OldestKept = SP!Kept(sender)
    BY SameSender DEF OldestKept, SP!Kept
  <1> QED BY <1>1 DEF ConnectionInv

\* The receiver has closed its stream with bytes missing, and the sender has
\* forgotten at most the first of them.
OneTooMany == ~ClosedMeansComplete /\ OldestKept <= FirstUnassembled + 2

\* With no hypothesis about the network: the sender forgets nothing that the
\* receiver has not taken, unless the receiver has closed its stream with bytes
\* missing (reassembler.cc:19), and then it forgets one number too many and no
\* more, the one that send adds for the FIN (tcp_receiver.cc:34).
THEOREM ForgetsOneAtMost ==
    ASSUME Connection
    PROVE  ConnectionSpec => [](AckedIsDelivered \/ OneTooMany)
  <1>1. ConnectionInv => AckedIsDelivered \/ OneTooMany
    <2> SUFFICES ASSUME ConnectionInv PROVE AckedIsDelivered \/ OneTooMany
      OBVIOUS
    <2>1. /\ Taken \in Nat /\ FirstUnassembled \in 0..StreamLen /\ receiver.is_finished = inbound.closed
          /\ SP!Kept(sender) \in Nat
      BY TakenBounds, KeptType DEF ConnectionInv
    <2>2. OldestKept \in Nat /\ OldestKept <= Taken
      BY <2>1, ForgottenIsTaken, SameSender DEF OldestKept, SP!Kept
    <2>3. FirstUnassembled = reassembler.first_unassembled
      BY DEF FirstUnassembled
    <2>4. CASE ClosedMeansComplete
      <3>1. AckedIsDelivered
        BY <2>1, <2>2, <2>3, <2>4 DEF AckedIsDelivered, ClosedMeansComplete, Taken
      <3> QED BY <3>1
    <2>5. CASE ~ClosedMeansComplete
      <3>1. OldestKept <= FirstUnassembled + 2
        BY <2>1, <2>2, StreamAssumption DEF Taken
      <3> QED BY <2>5, <3>1 DEF OneTooMany
    <2> QED BY <2>4, <2>5
  <1> QED BY <1>1, ConnectionSound, PTL

\* A network that keeps the FIN from overtaking data, and from arriving before
\* there is room for the bytes in front of it, lets the stream end only when it
\* is complete ("The Reassembler should close the stream after writing the last
\* byte", reassembler.hh:30), although segments are lost, repeated and reordered.
THEOREM EndIsComplete ==
    ASSUME Connection, FinInOrder, FinFits
    PROVE  ConnectionSpec => []ClosedMeansComplete
  <1>1. ConnectionInv => ClosedMeansComplete
    BY DEF ConnectionInv, RcvInv, ClosedMeansComplete
  <1> QED BY <1>1, ConnectionSound, PTL

\* Over such a network, which FinInOrder and FinFits describe, the sender forgets
\* nothing that the receiver has not taken.  If a FIN overtakes data it does: the
\* receiver then acknowledges a byte it has not seen.
THEOREM AckedIsSafe ==
    ASSUME Connection, FinInOrder, FinFits
    PROVE  ConnectionSpec => []AckedIsDelivered
  <1>1. ClosedMeansComplete /\ (AckedIsDelivered \/ OneTooMany) => AckedIsDelivered
    BY DEF OneTooMany
  <1> QED BY <1>1, ForgetsOneAtMost, EndIsComplete, PTL

\* Two sequences are equal if their elements are.
LEMMA SeqEqual ==
    ASSUME NEW s \in Seq(Int), NEW u \in Seq(Int), Len(s) = Len(u), \A i \in 1..Len(s) : s[i] = u[i]
    PROVE  s = u
  OBVIOUS

\* The sequence of the numbers from a on, cut in two.
LEMMA QueueGrows ==
    ASSUME NEW u \in Seq(Indices), NEW w \in Seq(Indices), NEW a \in Nat, NEW k \in Nat,
           Len(w) = Len(u) + k,
           \A i \in 1..Len(u) : u[i] = a + i - 1, \A i \in 1..Len(w) : w[i] = a + i - 1
    PROVE  w = u \o [i \in 1..k |-> a + Len(u) + i - 1]
  <1> DEFINE n == Len(u)
             tail == [i \in 1..k |-> a + n + i - 1]
  <1>1. n \in Nat /\ Len(w) = n + k
    OBVIOUS
  <1>2. tail \in Seq(Nat) /\ Len(tail) = k /\ \A i \in 1..k : tail[i] = a + n + i - 1
    BY <1>1
  <1>3. u \in Seq(Int) /\ w \in Seq(Int) /\ tail \in Seq(Int)
    BY <1>2, StreamAssumption DEF Indices
  <1> HIDE DEF tail
  <1>4. /\ u \o tail \in Seq(Int) /\ Len(u \o tail) = n + k
        /\ \A x \in 1..n + k : (u \o tail)[x] = IF x <= n THEN u[x] ELSE tail[x - n]
    BY <1>2, <1>3, Concatenation
  <1> DEFINE v == u \o tail
  <1> HIDE DEF v
  <1>5. ASSUME NEW i \in 1..n + k PROVE w[i] = v[i]
    <2>1. w[i] = a + i - 1 /\ v[i] = IF i <= n THEN u[i] ELSE tail[i - n]
      BY <1>1, <1>4 DEF v
    <2> HIDE DEF n
    <2>2. CASE i <= n
      <3>1. i \in 1..n
        BY <1>1, <2>2
      <3> QED BY <2>1, <3>1 DEF n
    <2>3. CASE i > n
      <3>1. i - n \in 1..k /\ a + n + (i - n) - 1 = a + i - 1
        BY <1>1, <2>3
      <3>2. tail[i - n] = a + n + (i - n) - 1
        BY <1>2, <3>1
      <3> QED BY <1>1, <2>1, <2>3, <3>1, <3>2
    <2> QED BY <1>1, <2>2, <2>3
  <1>6. w = v
    <2>1. v \in Seq(Int) /\ Len(v) = n + k
      BY <1>4 DEF v
    <2> HIDE DEF n
    <2>2. Len(w) = Len(v) /\ \A i \in 1..Len(w) : w[i] = v[i]
      BY <1>1, <1>5, <2>1
    <2> QED BY <1>3, <2>1, <2>2, SeqEqual
  <1> QED BY <1>6 DEF tail, v

\* An insert delivers the bytes between the old next byte and the new one.
LEMMA HandingDelivers ==
    ASSUME Connection, FinInOrder, FinFits, ConnectionInv, ConnectionInv', Handing
    PROVE  \E k \in 0..StreamLen : Reliable!Deliver(k)
  <1> DEFINE fu == FirstUnassembled
             fu2 == FirstUnassembled'
             k == fu2 - fu
             popped == inbound.bytes_popped
             n == Len(inbound.queue)
  <1>1. PICK first \in 0..StreamLen, len \in 0..MaxSegment, last \in BOOLEAN : Delivered(first, len, last)
    BY DEF Handing
  <1>2. fu <= fu2 /\ inbound'.bytes_popped = popped
    BY <1>1, StepForward DEF ConnectionInv, Connection
  <1>3. Delivers(inbound, fu) /\ Delivers(inbound', fu2)
    BY DEF ConnectionInv, RcvInv, Inv
  <1>4. /\ inbound.queue \in Seq(Indices) /\ inbound'.queue \in Seq(Indices) /\ popped \in Nat /\ n \in Nat
        /\ popped + n = fu /\ popped + Len(inbound'.queue) = fu2 /\ Len(inbound'.queue) <= Capacity
        /\ Len(inbound'.queue) \in Nat
        /\ \A i \in 1..n : inbound.queue[i] = popped + i - 1
        /\ \A i \in 1..Len(inbound'.queue) : inbound'.queue[i] = popped + i - 1
    BY <1>2, <1>3 DEF Delivers, Streams
  <1>5. fu \in 0..StreamLen /\ fu2 \in 0..StreamLen /\ StreamLen \in Nat
    BY TakenBounds, TakenBoundsNext, StreamAssumption DEF ConnectionInv
  <1>6. /\ inbound'.closed => outbound.closed /\ fu2 = StreamLen
        /\ inbound'.closed \in BOOLEAN /\ outbound'.closed = outbound.closed
    <2>1. inbound'.closed => reassembler'.reach_end
      BY DEF ConnectionInv, RcvInv
    <2>2. reassembler'.reach_end => outbound'.closed /\ fu2 = StreamLen
      BY DEF ConnectionInv
    <2>3. inbound'.closed \in BOOLEAN
      BY <1>3 DEF Delivers, Streams
    <2> QED BY <2>1, <2>2, <2>3 DEF Handing
  <1>7. inbound'.closed \in {inbound.closed, TRUE}
    <2>1. PICK H : Keeps(reassembler, H, inbound.bytes_popped)
      BY DEF ConnectionInv, RcvInv, Inv
    <2>2. Delivers(inbound, reassembler.first_unassembled)
      BY <1>3 DEF FirstUnassembled
    <2>3. Ends(reassembler, inbound, last, insert(reassembler, inbound, first, Substring(first, len), last))
      BY <2>1, <2>2, InsertFlags
    <2>4. inbound' = insert(reassembler, inbound, first, Substring(first, len), last).output
      BY <1>1 DEF Delivered, Insert
    <2>5. inbound.closed => inbound'.closed
      BY <2>3, <2>4 DEF Ends
    <2>6. inbound.closed \in BOOLEAN
      BY <1>3 DEF Delivers, Streams
    <2> QED BY <1>6, <2>5, <2>6
  <1> HIDE DEF fu, fu2
  <1>8. k \in 0..StreamLen /\ Len(inbound'.queue) = n + k /\ popped + n + k = fu2 /\ n + k <= Capacity
    <2> DEFINE m == Len(inbound'.queue)
    <2>1. fu \in 0..StreamLen /\ fu2 \in 0..StreamLen /\ StreamLen \in Nat /\ fu <= fu2 /\ k = fu2 - fu
      BY <1>2, <1>5
    <2>2. popped \in Nat /\ n \in Nat /\ m \in Nat /\ popped + n = fu /\ popped + m = fu2 /\ m <= Capacity
      BY <1>4
    <2> HIDE DEF k, m, n, popped
    <2>3. k \in 0..StreamLen /\ m = n + k /\ popped + n + k = fu2
      BY ONLY <2>1, <2>2
    <2> QED BY <2>2, <2>3 DEF m
  <1>9. inbound'.queue = inbound.queue \o [i \in 1..k |-> popped + n + i - 1]
    <2> HIDE DEF k
    <2>1. k \in Nat
      BY <1>8
    <2> QED BY <1>4, <1>8, <2>1, QueueGrows
  <1> HIDE DEF k
  <1>10. /\ popped + n + k <= StreamLen
         /\ inbound'.closed => outbound.closed /\ popped + n + k = StreamLen
    BY <1>5, <1>6, <1>8
  <1>11. Reliable!Deliver(k)
    <2>1. /\ inbound'.closed \in {inbound.closed, TRUE} /\ outbound'.closed = outbound.closed
          /\ inbound'.bytes_popped = popped /\ n + k <= Capacity
      BY <1>2, <1>6, <1>7, <1>8
    <2> QED BY ONLY <1>9, <1>10, <2>1 DEF Reliable!Deliver
  <1> QED BY <1>8, <1>11

\* If the FIN keeps its place, a step of the connection is one of the reliable
\* byte stream, or shows nothing.
LEMMA StepShows ==
    ASSUME Connection, FinInOrder, FinFits, ConnectionInv, Sound
    PROVE  [Reliable!Next]_(Reliable!vars)
  <1>1. CASE Quiet
    BY <1>1 DEF Quiet, Reliable!Next, Reliable!Close, Reliable!vars
  <1>2. CASE Handing
    <2>1. \E k \in 0..StreamLen : Reliable!Deliver(k)
      BY <1>2, HandingDelivers DEF Sound
    <2> QED BY <2>1 DEF Reliable!Next
  <1>3. CASE Reading
    <2> DEFINE n == Len(inbound.queue)
    <2>1. /\ inbound \in Streams /\ inbound.queue \in Seq(Indices) /\ n \in Nat /\ n <= Capacity
          /\ inbound.bytes_popped \in Nat
      BY DEF ConnectionInv, RcvInv, Inv, Delivers, Streams
    <2>2. n \in 1..n
      BY <1>3, <2>1 DEF Reading
    <2>3. inbound' = [inbound EXCEPT !.queue = SubSeq(@, n + 1, Len(@)), !.bytes_popped = @ + n]
      <3>1. Smaller(Capacity, bytes_buffered(inbound)) = n
        BY <2>1, StreamAssumption DEF Smaller, bytes_buffered
      <3> QED BY <1>3, <3>1 DEF Reading, pop
    <2>4. /\ inbound'.queue = SubSeq(inbound.queue, n + 1, n) /\ inbound'.bytes_popped = inbound.bytes_popped + n
          /\ inbound'.closed = inbound.closed
      BY <2>1, <2>3 DEF Streams
    <2>5. outbound'.closed = outbound.closed
      BY <1>3 DEF Reading
    <2>6. Reliable!Read
      <3> HIDE DEF n
      <3> QED BY <2>2, <2>4, <2>5 DEF Reliable!Read, n
    <2> QED BY <2>6 DEF Reliable!Next
  <1> QED BY <1>1, <1>2, <1>3 DEF Sound

\* Sender, network and receiver together show the applications nothing but a
\* reliable byte stream: the bytes that were written, in order and once each,
\* no more of them than there is room for, then the end.
\* This takes a network that keeps the FIN from overtaking data (FinInOrder) and
\* from arriving before there is room for the bytes in front of it (FinFits);
\* without either, reassembler.cc:19 ends the stream too early.
THEOREM TransferIsReliable ==
    ASSUME Connection, FinInOrder, FinFits
    PROVE  ConnectionSpec => SafeTransfer
  <1>1. Connection /\ ConnectionInit => Reliable!Init
    <2> SUFFICES ASSUME ConnectionInit PROVE Reliable!Init
      OBVIOUS
    <2>1. outbound.closed = FALSE
      BY DEF ConnectionInit, push, NewStream
    <2>2. inbound.queue = <<>> /\ inbound.bytes_popped = 0 /\ inbound.closed = FALSE
      BY DEF ConnectionInit, ReceiverInit, Init, NewStream
    <2> QED BY <2>1, <2>2 DEF Reliable!Init
  <1>2. ConnectionInv /\ [ConnectionNext]_connectionVars
          => [Reliable!Next]_(Reliable!vars)
    BY ConnectionStep, StepShows
  <1> QED BY <1>1, <1>2, ConnectionSound, PTL DEF ConnectionSpec, SafeTransfer,
                  Reliable!SafeSpec

=============================================================================
