-------------------------------- MODULE Block --------------------------------
(***************************************************************************)
(* The block of blockchain/block.hpp, its hash (crypto/hash.hpp) and the   *)
(* proof-of-work test on that hash (consensus/proof_of_work.hpp).          *)
(*                                                                         *)
(* SHA-512d is taken to be collision free, so a digest is represented by   *)
(* exactly what it commits to: the headers of all blocks from the oldest   *)
(* one to the hashed one.  The nonce is represented by the only thing the  *)
(* program learns from it, the number of leading zero hex digits that the  *)
(* hash gets with it.                                                      *)
(***************************************************************************)
EXTENDS Integers, Sequences

CONSTANTS
    Line,       \* transaction lines a block can carry
    Stamp,      \* timestamps, never interpreted
    HexDigits,  \* hex digits of a digest (128 in the code)
    HalfRange   \* 2^31: the least uint32_t that static_cast<int> makes negative

ASSUME BlockAssumption ==
    /\ HexDigits \in Nat
    /\ HalfRange \in Nat \ {0}

UInt32 == 0 .. (2 * HalfRange - 1)

Zeros == 0 .. HexDigits

Header == [height : Nat, stamp : Stamp, difficulty : UInt32,
           zeros : Zeros, txs : Seq(Line)]

Digest == Seq(Header)

\* previousHash of the genesis block: 128 '0's, the hash of nothing.
ZeroDigest == << >>

\* struct Block
BlockSet == [height : Nat, stamp : Stamp, difficulty : UInt32,
             zeros : Zeros, txs : Seq(Line), prev : Digest]

\* Mutated form: the hash does not cover the transactions.
HeaderOfNoTxs(b) == [height |-> b.height, stamp |-> b.stamp,
                     difficulty |-> b.difficulty, zeros |-> b.zeros, txs |-> << >>]

\* serializeForHash: every field but previousHash, which is a digest already.
HeaderOf(b) == [height |-> b.height, stamp |-> b.stamp,
                difficulty |-> b.difficulty, zeros |-> b.zeros, txs |-> b.txs]

ComputeHash(b) == Append(b.prev, HeaderOf(b))

LeadingZeroHexDigits(hash) == hash[Len(hash)].zeros

\* static_cast<int>(difficulty): modular conversion of a uint32_t.
AsInt(d) == IF d < HalfRange THEN d ELSE d - 2 * HalfRange

\* Mutated form: the boundary is off by one.
MeetsDifficultyOffByOne(hash, d) == LeadingZeroHexDigits(hash) + 1 >= AsInt(d)

MeetsDifficulty(hash, d) == LeadingZeroHexDigits(hash) >= AsInt(d)

\* mineBlock: the nonce search stops at the first nonce whose hash passes.
\* The set is empty when no digest can pass: the search never ends.
MineBlock(b) ==
    { m \in { [b EXCEPT !.zeros = z] : z \in Zeros } :
        MeetsDifficulty(ComputeHash(m), m.difficulty) }
==============================================================================
