----------------------------- MODULE BlockTree -----------------------------
(***************************************************************************)
(* Blocks and their headers.  A header names its parent by hash, so a      *)
(* block's whole path to the genesis block, with the work and the height   *)
(* that follow from it, is a constant.                                     *)
(***************************************************************************)
EXTENDS Integers, Sequences

CONSTANTS
    Block,          \* the blocks, as the header hashes that name them
    NoBlock,        \* the null hash, a null pointer
    Genesis,        \* ChainParams::genesisBlock
    Path,           \* a block's ancestors from the genesis block to itself
    ChainWork       \* BlockIndex::chainWork

ASSUME NoBlockAssumption == NoBlock \notin Block

ASSUME TreeAssumption ==
    /\ Genesis \in Block
    /\ Path \in [Block -> Seq(Block)]
    /\ Path[Genesis] = <<Genesis>>
    /\ \A b \in Block :
        /\ Len(Path[b]) \in Nat \ {0}
        /\ Path[b][1] = Genesis
        /\ Path[b][Len(Path[b])] = b
        /\ \A i \in 1..Len(Path[b]) : Path[Path[b][i]] = SubSeq(Path[b], 1, i)

ASSUME WorkAssumption == ChainWork \in [Block -> Nat]

Height(b) == Len(Path[b]) - 1
Parent(b) == Path[b][Len(Path[b]) - 1]

\* a is b or an ancestor of b (BlockIndex::getAncestor; no skip is ever built)
IsAncestor(a, b) == Height(a) <= Height(b) /\ Path[b][Height(a) + 1] = a

\* a is the block findLastCommonAncestor finds for x and y.
IsCommonAncestor(a, x, y) == IsAncestor(a, x) /\ IsAncestor(a, y)

IsLastCommonAncestor(a, x, y) ==
    /\ IsCommonAncestor(a, x, y)
    /\ \A b \in Block : IsCommonAncestor(b, x, y) => Height(b) <= Height(a)
=============================================================================
