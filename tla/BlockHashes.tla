----------------------------- MODULE BlockHashes -----------------------------
(***************************************************************************)
(* Chained FNV-1a over blocks of tokens (crates/protocol/src/blocks.rs).   *)
(* Exclusive or and multiplication carry nothing from high bits to low     *)
(* ones, so at a width of w bits these are the w low bits of the code's    *)
(* 64-bit hashes.                                                          *)
(***************************************************************************)
EXTENDS Integers, Sequences, SequencesExt, Bitwise

CONSTANTS
    BlockSize,  \* BLOCK_SIZE: 16 in the code
    HashWidth   \* 64 in the code

OffsetBasis == 805 % 2^HashWidth    \* 16#cbf29ce484222325, its 12 low bits
FnvPrime == 435 % 2^HashWidth       \* 16#100000001b3, its 12 low bits

ASSUME HashAssumption == BlockSize \in Nat \ {0} /\ HashWidth \in 1..12

\* h ^= t; h = h.wrapping_mul(prime)
FnvStep(h, t) == ((h ^^ (t % 2^HashWidth)) * FnvPrime) % 2^HashWidth

HashBlock(prev, block) == FoldLeft(FnvStep, prev, block)

\* chunks_exact: the tokens of a last, partial block are dropped.
TokenBlocks(tokens) ==
    [i \in 1..(Len(tokens) \div BlockSize) |->
        SubSeq(tokens, (i - 1) * BlockSize + 1, i * BlockSize)]

\* The hash of a block starts from the hash of the block before it.
BlockHashesOf(tokens) ==
    FoldLeft(LAMBDA hashes, block :
                Append(hashes, HashBlock(IF hashes = <<>> THEN OffsetBasis ELSE Last(hashes), block)),
             <<>>, TokenBlocks(tokens))
=============================================================================
