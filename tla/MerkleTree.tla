----------------------------- MODULE MerkleTree -----------------------------
(***************************************************************************)
(* The root of a list of transaction hashes (data/MerkleTree.cpp): the     *)
(* calculator that keeps one hash per level, and the recursive definition  *)
(* it is checked against.  A hash is the pair of what it was made from.    *)
(***************************************************************************)
EXTENDS Integers, Sequences, SequencesExt

hashSiblingLeaves(x, y) == << x, y >>
NoHash == << >>

Levels == 8     \* levels looked at, enough for lists of fewer than 2^8 leaves
LevelSeq(n) == [i \in 1 .. n |-> i - 1]

\* The bit of a count at a level, and the lowest level at which it is set.
Bit(count, level) == (count \div 2 ^ level) % 2
LowestLevel(count) == CHOOSE l \in 0 .. Levels : Bit(count, l) = 1 /\ \A m \in 0 .. l - 1 : Bit(count, m) = 0

\* For checking the properties: equal siblings are noticed among the leaves only.
CombineLeavesFlagged(s, level, flag) ==
    [s EXCEPT
        !.branch = IF s.match THEN Append(s.branch, s.inner[level])
                   ELSE IF s.matchlevel = level THEN Append(s.branch, s.h) ELSE s.branch,
        !.match = s.match \/ s.matchlevel = level,
        !.mutated = s.mutated \/ (flag /\ level = 0 /\ s.inner[level] = s.h),
        !.h = hashSiblingLeaves(s.inner[level], s.h)]

\* One step up: the hash h joins the subtree to its left.  `match' says whether
\* h depends on the leaf the branch is for, `matchlevel' which subtree does.
Combine(s, level, flag) ==
    [s EXCEPT
        !.branch = IF s.match THEN Append(s.branch, s.inner[level])
                   ELSE IF s.matchlevel = level THEN Append(s.branch, s.h) ELSE s.branch,
        !.match = s.match \/ s.matchlevel = level,
        !.mutated = s.mutated \/ (flag /\ s.inner[level] = s.h),
        !.h = hashSiblingLeaves(s.inner[level], s.h)]

\* A leaf is combined with as many subtrees as its count has zeros at the end.
AddLeaf(s, leaf, branchpos) ==
    LET count == s.count + 1
        level == LowestLevel(count)
        up == FoldLeft(LAMBDA t, l : Combine(t, l, TRUE),
                       [s EXCEPT !.h = leaf, !.match = (s.count = branchpos)],
                       LevelSeq(level))
    IN  [up EXCEPT !.count = count,
                   !.inner = [up.inner EXCEPT ![level] = up.h],
                   !.matchlevel = IF up.match THEN level ELSE up.matchlevel]

\* The sweep over the right edge: at a level without a left subtree the hash is
\* combined with itself, as if a second one existed.
Sweep(s) ==
    IF s.count = 2 ^ s.level THEN s
    ELSE IF Bit(s.count, s.level) = 1
    THEN [s EXCEPT !.branch = IF s.match THEN Append(s.branch, s.h) ELSE s.branch,
                   !.h = hashSiblingLeaves(s.h, s.h),
                   !.count = s.count + 2 ^ s.level,
                   !.level = s.level + 1]
    ELSE [Combine(s, s.level, FALSE) EXCEPT !.level = s.level + 1]

NoLeaves == [h |-> NoHash, mutated |-> FALSE, branch |-> << >>]

\* The root, whether the list may be the lengthened form of another one, and
\* the hashes beside the way from one leaf to the root.
compute(leaves, branchpos) ==
    LET start == [count |-> 0, inner |-> [l \in 0 .. Levels |-> NoHash], matchlevel |-> -1,
                  mutated |-> FALSE, branch |-> << >>, h |-> NoHash, match |-> FALSE, level |-> 0]
        added == FoldLeft(LAMBDA s, leaf : AddLeaf(s, leaf, branchpos), start, leaves)
        level == LowestLevel(added.count)
        right == [added EXCEPT !.level = level, !.h = added.inner[level],
                               !.match = (added.matchlevel = level)]
        swept == FoldLeft(LAMBDA s, l : Sweep(s), right, LevelSeq(Levels))
    IN  IF leaves = << >> THEN NoLeaves
        ELSE [h |-> swept.h, mutated |-> swept.mutated, branch |-> swept.branch]

computeRoot(leaves) == compute(leaves, -1)

-----------------------------------------------------------------------------
(* The reference: pairs of neighbours, the last one with itself if it is   *)
(* alone, level by level.                                                  *)

Parents(hashes) ==
    [i \in 1 .. (Len(hashes) + 1) \div 2 |->
        << hashes[2 * i - 1], IF 2 * i <= Len(hashes) THEN hashes[2 * i] ELSE hashes[2 * i - 1] >>]

Root(leaves) ==
    LET top == FoldLeft(LAMBDA hashes, l : IF Len(hashes) > 1 THEN Parents(hashes) ELSE hashes,
                        leaves, LevelSeq(Levels))
    IN  IF leaves = << >> THEN NoHash ELSE top[1]

\* The root that a leaf at a position and the hashes beside its way lead to.
RootOfBranch(leaf, position, branch) ==
    FoldLeft(LAMBDA h, l : IF Bit(position, l) = 1 THEN << branch[l + 1], h >> ELSE << h, branch[l + 1] >>,
             leaf, LevelSeq(Len(branch)))
=============================================================================
