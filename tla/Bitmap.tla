-------------------------------- MODULE Bitmap --------------------------------
(***************************************************************************)
(* Bitmap (src/util/bitmap.hpp), as pure operators: a vector of blocks of  *)
(* BlockSize bits.  A block is the set of the positions of its 1 bits, so  *)
(* that a mask is a set of positions too, & is \intersect, & ~ is \ and    *)
(* the population count is Cardinality.                                    *)
(***************************************************************************)
EXTENDS Integers, FiniteSets

CONSTANT BlockSize   \* Block_Size, 32 in the Reassembler

ASSUME BlockSizeAssumption == BlockSize \in Nat \ {0}

Block == 0..BlockSize - 1

\* Bitmap::resize of an empty bitmap.
NewBitmap(element_capacity) ==
    LET array_size == (element_capacity + BlockSize - 1) \div BlockSize
    IN  [capacity |-> element_capacity, array_size |-> array_size,
         data |-> [b \in 0..array_size - 1 |-> {}]]

\* The positions in block b of a set of indices.
InBlock(indices, b) == {i % BlockSize : i \in {j \in indices : j \div BlockSize = b}}

\* set and unset, called once for each of a set of indices.
set(m, indices) == [m EXCEPT !.data = [b \in DOMAIN @ |-> @[b] \union InBlock(indices, b)]]

unset(m, indices) == [m EXCEPT !.data = [b \in DOMAIN @ |-> @[b] \ InBlock(indices, b)]]

get(m, i) == (i % BlockSize) \in m.data[i \div BlockSize]

\* The block indices strictly between two others, walking upwards and around
\* the end of the array: the loop of line 120.
Between(array_size, first, last) ==
    {(first + k) % array_size : k \in 1..(last - first - 1) % array_size}

\* The mask that getPopCountAndUnsetBatch applies to each block.  When both
\* ends lie in one block, only that block is touched, by the intersection of
\* the two masks: empty if the range wraps around back into its own block.
BatchMask(m, start, end) ==
    LET start_block == start \div BlockSize
        end_block   == end \div BlockSize
        start_mask  == (start % BlockSize)..BlockSize - 1
        end_mask    == 0..end % BlockSize
    IN  [b \in 0..m.array_size - 1 |->
           IF b = start_block /\ b = end_block THEN start_mask \intersect end_mask
           ELSE IF start_block = end_block THEN {}
           ELSE IF b = start_block THEN start_mask
           ELSE IF b = end_block THEN end_mask
           ELSE IF b \in Between(m.array_size, start_block, end_block)
                  THEN Block ELSE {}]

\* getPopCountAndUnsetBatch: the count returned, which is the sum over all
\* blocks of the bits under the mask, and the bitmap left behind.
PopCount(m, mask) ==
    Cardinality({i \in 0..m.array_size * BlockSize - 1 : get(m, i) /\ i % BlockSize \in mask[i \div BlockSize]})

UnsetMask(m, mask) == [m EXCEPT !.data = [b \in DOMAIN @ |-> @[b] \ mask[b]]]

getPopCount(m, start, end) == PopCount(m, BatchMask(m, start, end))

UnsetBatch(m, start, end) == UnsetMask(m, BatchMask(m, start, end))
==============================================================================
