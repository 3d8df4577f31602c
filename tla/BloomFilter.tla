---------------------------- MODULE BloomFilter ----------------------------
(***************************************************************************)
(* The Bloom filter of a table.  A key enters by its two hashes, h[1] and  *)
(* h[2]; a byte of the bit array is the set of its bits that are 1.        *)
(***************************************************************************)
EXTENDS Integers

CONSTANTS
    Word,    \* the hashes are numbers below Word and wrap at it: 2^64
    Rounds   \* the positions of a key: 7

ASSUME WordAssumption == Word \in Nat \ {0} /\ Rounds \in Nat \ {0}

Hashes == (0 .. Word - 1) \X (0 .. Word - 1)

(* No bits, no positions: checked_rem is None for every round. *)
Positions(h, bit_count) ==
    IF bit_count = 0 THEN {}
    ELSE {((h[1] + ((i * h[2]) % Word)) % Word) % bit_count : i \in 0 .. Rounds - 1}

(* bit_count.div_ceil(8) *)
ByteCount(bit_count) == (bit_count + 7) \div 8

Byte == SUBSET (0..7)

(* Mutation: a last byte that would not be full is not allocated. *)
NewFilterFloor(bit_count) ==
    [bit_count |-> bit_count, inner |-> [b \in 0 .. (bit_count \div 8) - 1 |-> {}]]

NewFilter(bit_count) ==
    [bit_count |-> bit_count, inner |-> [b \in 0 .. ByteCount(bit_count) - 1 |-> {}]]

(* The bits of byte b among these positions. *)
BitsOf(positions, b) == {p % 8 : p \in {q \in positions : q \div 8 = b}}

(* Mutation: a byte that is touched is assigned, not or-ed. *)
InsertOverwrites(filter, h) ==
    LET at == Positions(h, filter.bit_count)
    IN  [filter EXCEPT !.inner = [b \in DOMAIN filter.inner |->
            IF BitsOf(at, b) = {} THEN filter.inner[b] ELSE BitsOf(at, b)]]

Insert(filter, h) ==
    LET at == Positions(h, filter.bit_count)
    IN  [filter EXCEPT !.inner = [b \in DOMAIN filter.inner |->
            filter.inner[b] \cup BitsOf(at, b)]]

(* A position outside of the bit array counts as set. *)
MayContain(filter, h) ==
    \A p \in Positions(h, filter.bit_count) :
        p \div 8 \in DOMAIN filter.inner => p % 8 \in filter.inner[p \div 8]

(* Every position of every key has its byte, none is passed over in silence:
   the array that new allocates and the modulus of positions agree. *)
EveryPositionHasAByte(bit_count) ==
    \A h \in Hashes :
        \A p \in Positions(h, bit_count) : p \div 8 \in 0 .. ByteCount(bit_count) - 1
=============================================================================
