------------------------------ MODULE BlockWalk -----------------------------
(***************************************************************************)
(* Walks over the block index: ancestors (data/Block.cpp), the block       *)
(* locator and the last common ancestor of two blocks                      *)
(* (storage/BlockChain.cpp).                                               *)
(*                                                                         *)
(* The index has two branches: the best one, and one that leaves it above  *)
(* the height `fork'; `tip' is the height of the best chain and `skips'    *)
(* says whether the blocks have skip pointers.                             *)
(***************************************************************************)
EXTENDS Integers, Sequences

Block(branch, height) == [branch |-> branch, height |-> height]
Blocks(tree) ==
    {b \in [branch : {"best", "fork"}, height : Nat] : b.branch = "fork" => b.height > tree.fork}

\* The ancestor that the block tree has at a height.
Ancestor(tree, block, height) ==
    Block(IF block.branch = "fork" /\ height > tree.fork THEN "fork" ELSE "best", height)
previous(tree, block) == Ancestor(tree, block, block.height - 1)

-----------------------------------------------------------------------------
(* Skip pointers and ancestors.                                            *)

\* The lowest bit of a number, taken away.
invertLowestOne(n) ==
    LET inv[m \in Nat] == IF m = 0 THEN 0 ELSE IF m % 2 = 1 THEN m - 1 ELSE 2 * inv[m \div 2]
    IN  inv[n]

getSkipHeight(height) ==
    IF height < 2 THEN 0
    ELSE IF height % 2 = 1 THEN invertLowestOne(invertLowestOne(height - 1)) + 1
    ELSE invertLowestOne(height)

\* What buildSkip sets: an ancestor of the previous block.
skip(tree, block) == Ancestor(tree, previous(tree, block), getSkipHeight(block.height))

FollowSkip(tree, block, height) ==
    LET to == getSkipHeight(block.height)
        toPrevious == getSkipHeight(block.height - 1)
    IN  /\ tree.skips
        /\ \/ to = height
           \/ to > height /\ ~(toPrevious < to - 2 /\ toPrevious >= height)

getAncestor(tree, block, height) ==
    LET walk[b \in Blocks(tree)] ==
            IF b.height <= height THEN b
            ELSE IF FollowSkip(tree, b, height) THEN walk[skip(tree, b)]
            ELSE walk[previous(tree, b)]
    IN  walk[block]

-----------------------------------------------------------------------------
(* The best chain.                                                         *)

contains(tree, block) == block.branch = "best" /\ block.height <= tree.tip
getBlock(tree, height) == Block("best", height)

\* For checking the properties: every block is taken for one of the best chain.
BackOnBestChain(tree, block, height) == getBlock(tree, height)

Back(tree, block, height) ==
    IF contains(tree, block) THEN getBlock(tree, height) ELSE getAncestor(tree, block, height)

\* After ten blocks in a row the steps back double, down to the genesis block;
\* `size' counts the blocks so far.
getLocator(tree, block) ==
    LET from[s \in [block : Blocks(tree), step : Nat \ {0}, size : Nat]] ==
            IF s.block.height = 0 THEN << s.block >>
            ELSE LET height == IF s.block.height > s.step THEN s.block.height - s.step ELSE 0
                 IN  << s.block >>
                     \o from[[block |-> Back(tree, s.block, height),
                              step |-> IF s.size > 10 THEN 2 * s.step ELSE s.step,
                              size |-> s.size + 1]]
    IN  from[[block |-> block, step |-> 1, size |-> 1]]

findLastCommonAncestor(tree, x, y) ==
    LET low == IF x.height > y.height THEN y.height ELSE x.height
        meet[p \in [x : Blocks(tree), y : Blocks(tree)]] ==
            IF p.x = p.y \/ p.x.height = 0 \/ p.y.height = 0 THEN p.x
            ELSE meet[[x |-> previous(tree, p.x), y |-> previous(tree, p.y)]]
    IN  meet[[x |-> getAncestor(tree, x, low), y |-> getAncestor(tree, y, low)]]

-----------------------------------------------------------------------------
(* What the walks should return.                                           *)

CommonHeights(tree, x, y) ==
    {h \in 0 .. x.height : h <= y.height /\ Ancestor(tree, x, h) = Ancestor(tree, y, h)}

IsLastCommonAncestor(tree, x, y, block) ==
    /\ block.height \in CommonHeights(tree, x, y)
    /\ \A h \in CommonHeights(tree, x, y) : h <= block.height
    /\ block = Ancestor(tree, x, block.height)

\* A node that shares all but the k newest blocks below block finds one of them
\* at most 2k below it, or the genesis block.
IsLocator(tree, block, locator) ==
    LET top == block.height
    IN  /\ locator[1] = block
        /\ locator[Len(locator)].height = 0
        /\ \A i \in DOMAIN locator : locator[i] = Ancestor(tree, block, locator[i].height)
        /\ \A i \in 2 .. Len(locator) : locator[i].height < locator[i - 1].height
        /\ \A k \in 0 .. top : \E i \in DOMAIN locator :
               /\ locator[i].height <= top - k
               /\ locator[i].height >= top - 2 * k \/ locator[i].height = 0
=============================================================================
