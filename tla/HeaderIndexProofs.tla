------------------------- MODULE HeaderIndexProofs -------------------------
(***************************************************************************)
(* What holds of the index of headers in any order, for every tree of      *)
(* blocks: the inductive invariant is that the entries a height counts on  *)
(* are there, and are saved no later than the entry itself.                *)
(***************************************************************************)
EXTENDS HeaderIndex, SequenceTheorems, TLAPS

\* The set of entries saved once the first n tasks of q have run, from S.
SavedAfter(S, q, n) == S \cup UNION {q[i] : i \in 1..n}

\* The blocks that the height of an entry counts on are in S with its block.
Closed(entries, S) ==
    \A b \in S : \A k \in 0..entries[b].height : StepBack(b, k) \in S

\* An entry's parent is its header's.
ParentsAreTrue ==
    \A b \in Known :
        /\ index[b].previous \in {NoBlock, PreviousHash(b)}
        /\ index[b].previous # NoBlock => index[b].previous \in Known

\* The height of an entry is the number of linked entries behind it, each with
\* one less.
HeightsCount ==
    \A b \in Known :
        /\ index[b].height <= Height(b)
        /\ \A k \in 0..index[b].height :
              /\ StepBack(b, k) \in Known
              /\ index[StepBack(b, k)].height = index[b].height - k
              /\ k < index[b].height => index[StepBack(b, k)].previous # NoBlock

\* The entries saved now and after every task, which are all but the dirty
\* ones in the end, are closed, and no height changes on the way.
SavedClosed ==
    /\ \A n \in 0..Len(queue) : Closed(index, SavedAfter(DOMAIN saved, queue, n))
    /\ Known = SavedAfter(DOMAIN saved, queue, Len(queue)) \cup dirty
    /\ \A b \in DOMAIN saved : saved[b] = index[b].height

\* Nothing is posted before load returns.
LoadInv ==
    /\ todo \subseteq DOMAIN saved
    /\ todo # {} \/ Genesis \notin Known => queue = <<>> /\ dirty = {}

\* The best header is one of those load has come to, and has the most work.
BestInv ==
    /\ bestHeader \in (Known \ todo) \cup {NoBlock}
    /\ bestHeader = NoBlock => Known \subseteq todo
    /\ \A b \in Known \ todo : index[b].chainWork <= index[bestHeader].chainWork

IInv ==
    /\ TypeOK
    /\ ParentsAreTrue
    /\ HeightsCount
    /\ SavedClosed
    /\ LoadInv
    /\ HeightVouchesForWork
    /\ BestInv
-----------------------------------------------------------------------------
(* Facts about the tree of blocks. *)

\* Every block but the genesis block has a parent, one lower.
LEMMA Heights ==
    ASSUME NEW b \in Block
    PROVE  /\ Height(b) \in Nat
           /\ b = Genesis => Height(b) = 0
           /\ b # Genesis => /\ Parent(b) \in Block
                             /\ Height(Parent(b)) = Height(b) - 1
                             /\ Height(b) > 0
           /\ b # NoBlock
<1> DEFINE n == Len(Path[b])
<1>1. /\ Path[b] \in Seq(Block)
      /\ n \in Nat \ {0}
      /\ Path[b][1] = Genesis
      /\ Path[b][n] = b
      /\ \A i \in 1..n : Path[Path[b][i]] = SubSeq(Path[b], 1, i)
  BY TreeAssumption
<1>2. b = Genesis => n = 1
  <2>1. Path[Genesis] = <<Genesis>> /\ Len(<<Genesis>>) = 1
    BY TreeAssumption
  <2>2. QED
    BY <2>1
<1>3. CASE b # Genesis
  <2>1. n > 1
    BY <1>1, <1>3
  <2>2. Parent(b) = Path[b][n - 1] /\ n - 1 \in 1..n
    BY <1>1, <2>1 DEF Parent
  <2>3. Parent(b) \in Block
    BY <1>1, <2>2
  <2>4. Len(Path[Parent(b)]) = n - 1
    BY <1>1, <2>2
  <2>5. QED
    BY <1>1, <1>3, <2>1, <2>3, <2>4, NoBlockAssumption DEF Height
<1>4. QED
  BY <1>1, <1>2, <1>3, NoBlockAssumption DEF Height

\* k steps back from b.
LEMMA StepsBack ==
    ASSUME NEW b \in Block, NEW k \in 0..Height(b)
    PROVE  /\ StepBack(b, k) \in Block
           /\ Height(StepBack(b, k)) = Height(b) - k
           /\ k = 0 => StepBack(b, k) = b
           /\ k < Height(b) => /\ StepBack(b, k) # Genesis
                               /\ Parent(StepBack(b, k)) = StepBack(b, k + 1)
           /\ k > 0 => /\ b # Genesis
                       /\ k - 1 \in 0..Height(Parent(b))
                       /\ StepBack(b, k) = StepBack(Parent(b), k - 1)
<1> DEFINE n == Len(Path[b])
           i == n - k
<1>1. /\ Path[b] \in Seq(Block)
      /\ n \in Nat \ {0}
      /\ Path[b][n] = b
      /\ \A j \in 1..n : Path[Path[b][j]] = SubSeq(Path[b], 1, j)
  BY TreeAssumption
<1>2. Height(b) = n - 1 /\ i \in 1..n /\ StepBack(b, k) = Path[b][i]
  BY <1>1 DEF Height, StepBack
<1>3. /\ Path[b][i] \in Block
      /\ Path[Path[b][i]] = SubSeq(Path[b], 1, i)
      /\ Len(SubSeq(Path[b], 1, i)) = i
      /\ \A j \in 1..i : SubSeq(Path[b], 1, i)[j] = Path[b][j]
  BY <1>1, <1>2
<1>4. Height(StepBack(b, k)) = Height(b) - k
  BY <1>1, <1>2, <1>3 DEF Height
<1>5. ASSUME k < Height(b)
      PROVE  /\ StepBack(b, k) # Genesis
             /\ Parent(StepBack(b, k)) = StepBack(b, k + 1)
  <2>1. i > 1 /\ i - 1 \in 1..i
    BY <1>1, <1>2, <1>5
  <2>2. Parent(StepBack(b, k)) = Path[b][i - 1]
    BY <1>2, <1>3, <2>1 DEF Parent
  <2>3. StepBack(b, k + 1) = Path[b][i - 1]
    BY <1>1, <1>2 DEF StepBack
  <2>4. StepBack(b, k) # Genesis
    <3>1. Height(StepBack(b, k)) > 0 /\ StepBack(b, k) \in Block
      BY <1>1, <1>2, <1>3, <1>4, <1>5
    <3>2. QED
      BY <3>1, Heights
  <2>5. QED
    BY <2>2, <2>3, <2>4
<1>6. ASSUME k > 0
      PROVE  /\ b # Genesis
             /\ k - 1 \in 0..Height(Parent(b))
             /\ StepBack(b, k) = StepBack(Parent(b), k - 1)
  <2>1. n > 1 /\ n - 1 \in 1..n
    BY <1>1, <1>2, <1>6
  <2>2. b # Genesis
    BY <1>2, <1>6, Heights
  <2>3. /\ Path[Parent(b)] = SubSeq(Path[b], 1, n - 1)
        /\ Len(Path[Parent(b)]) = n - 1
        /\ \A j \in 1..(n - 1) : Path[Parent(b)][j] = Path[b][j]
    <3>1. Path[Parent(b)] = SubSeq(Path[b], 1, n - 1)
      BY <1>1, <2>1 DEF Parent
    <3>2. QED
      BY <1>1, <2>1, <3>1
  <2>4. i \in 1..(n - 1) /\ (n - 1) - (k - 1) = i
    BY <1>1, <1>2, <1>6
  <2>5. StepBack(Parent(b), k - 1) = Path[b][i]
    BY <2>3, <2>4 DEF StepBack
  <2>6. k - 1 \in 0..Height(Parent(b))
    BY <1>1, <1>2, <1>6, <2>3 DEF Height
  <2>7. QED
    BY <1>2, <2>2, <2>5, <2>6
<1>7. QED
  BY <1>1, <1>2, <1>3, <1>4, <1>5, <1>6

\* The work of a block alone completes its parent's.
LEMMA Proofs ==
    ASSUME NEW b \in Block
    PROVE  /\ BlockProof(b) \in Nat
           /\ b = Genesis => BlockProof(b) = ChainWork[b]
           /\ b # Genesis => BlockProof(b) + ChainWork[Parent(b)] = ChainWork[b]
<1>1. ChainWork[b] \in Nat
  BY WorkAssumption
<1>2. CASE b # Genesis
  <2>1. ChainWork[Parent(b)] \in Nat /\ ChainWork[Parent(b)] <= ChainWork[b]
    BY <1>2, Heights, WorkAssumption, ProofAssumption
  <2>2. QED
    BY <1>1, <1>2, <2>1 DEF BlockProof
<1>3. QED
  BY <1>1, <1>2 DEF BlockProof
-----------------------------------------------------------------------------
(* Facts about the operators of the index. *)

Updated(e, best, b) == UpdateBlockInfo([index |-> e, best |-> best], b)

\* updateBlockInfo of b turns the entries e into f, and the best header best
\* into h: it changes the work of one entry, and maybe the best header.
IsUpdate(D, e, best, b, f, h) ==
    /\ f \in [D -> Entry]
    /\ \A x \in D \ {b} : f[x] = e[x]
    /\ f[b].height = e[b].height
    /\ f[b].previous = e[b].previous
    /\ f[b].chainWork = BlockProof(b) + (IF e[b].previous = NoBlock THEN 0
                                        ELSE e[e[b].previous].chainWork)
    /\ h \in {b, best}
    /\ best = NoBlock => h = b
    /\ best \in D \ {b} => /\ h = b => f[best].chainWork <= f[b].chainWork
                           /\ h = best => f[b].chainWork <= f[best].chainWork

LEMMA Updates ==
    ASSUME NEW D \in SUBSET Block, NEW e \in [D -> Entry], NEW best, NEW b \in D,
           e[b].previous \in D \cup {NoBlock}
    PROVE  IsUpdate(D, e, best, b, Updated(e, best, b).index, Updated(e, best, b).best)
<1> DEFINE w == BlockProof(b) + (IF e[b].previous = NoBlock THEN 0
                                 ELSE e[e[b].previous].chainWork)
           f == [e EXCEPT ![b].chainWork = w]
           info == Updated(e, best, b)
<1>1. w \in Nat
  <2>1. BlockProof(b) \in Nat
    BY Proofs
  <2>2. e[b].previous # NoBlock => e[e[b].previous].chainWork \in Nat
    BY DEF Entry
  <2>3. QED
    BY <2>1, <2>2
<1>2. info = [index |-> f,
              best |-> IF best = NoBlock \/ IsBetter(f, best, b) THEN b ELSE best]
  BY DEF UpdateBlockInfo, Updated
<1> HIDE DEF w
<1>3. /\ f \in [D -> Entry]
      /\ \A x \in D \ {b} : f[x] = e[x]
      /\ f[b].height = e[b].height
      /\ f[b].previous = e[b].previous
      /\ f[b].chainWork = w
  BY <1>1 DEF Entry
<1> HIDE DEF f
<1>4. ASSUME best \in D \ {b}
      PROVE  /\ info.best = b => f[best].chainWork <= f[b].chainWork
             /\ info.best = best => f[b].chainWork <= f[best].chainWork
  <2>1. f[best].chainWork \in Nat /\ f[b].chainWork \in Nat
    BY <1>3, <1>4 DEF Entry
  <2>2. QED
    BY <1>2, <1>4, <2>1, NoBlockAssumption DEF IsBetter
<1>5. QED
  BY <1>2, <1>3, <1>4 DEF w, IsUpdate
\* A new entry, as addBlockIndex makes it, once load is through.
LEMMA NewEntry ==
    ASSUME IInv, todo = {}, NEW b \in Block \ Invalid, b \notin Known,
           index' = Updated(WithEntry(b), bestHeader, b).index,
           bestHeader' = Updated(WithEntry(b), bestHeader, b).best,
           todo' = {}
    PROVE  /\ Known' = Known \cup {b}
           /\ Known' \subseteq Block \ Invalid
           /\ index' \in [Known' -> Entry]
           /\ \A x \in Known : index'[x] = index[x]
           /\ ParentsAreTrue'
           /\ HeightsCount'
           /\ HeightVouchesForWork'
           /\ BestInv'
<1> DEFINE e == WithEntry(b)
           D == Known \cup {b}
           p == PreviousHash(b)
<1>1. /\ Known \subseteq Block \ Invalid
      /\ index \in [Known -> Entry]
      /\ D \in SUBSET Block /\ b \in D
      /\ NoBlock \notin D
  BY NoBlockAssumption DEF IInv, TypeOK
<1>2. /\ e \in [D -> Entry]
      /\ \A x \in Known : e[x] = index[x]
      /\ p \in Known => e[b].height = index[p].height + 1 /\ e[b].previous = p
      /\ p \notin Known => e[b].height = 0 /\ e[b].previous = NoBlock
  <2>1. p \in Known => index[p].height \in Nat
    BY <1>1 DEF Entry
  <2>2. \A x \in Known : index[x] \in Entry /\ x # b
    BY <1>1
  <2>3. QED
    BY <1>1, <2>1, <2>2 DEF WithEntry, Entry
<1>3. e[b].previous \in D \cup {NoBlock}
  BY <1>2
<1> HIDE DEF e
<1>4. /\ index' \in [D -> Entry]
      /\ \A x \in D \ {b} : index'[x] = e[x]
      /\ index'[b].height = e[b].height
      /\ index'[b].previous = e[b].previous
      /\ index'[b].chainWork = BlockProof(b) + (IF e[b].previous = NoBlock THEN 0
                                                ELSE e[e[b].previous].chainWork)
      /\ bestHeader' \in {b, bestHeader}
      /\ bestHeader = NoBlock => bestHeader' = b
      /\ bestHeader \in D \ {b} =>
            /\ bestHeader' = b => index'[bestHeader].chainWork <= index'[b].chainWork
            /\ bestHeader' = bestHeader
                  => index'[b].chainWork <= index'[bestHeader].chainWork
  <2>1. D \in SUBSET Block /\ e \in [D -> Entry] /\ b \in D
    BY <1>1, <1>2
  <2>2. /\ index' = Updated(e, bestHeader, b).index
        /\ bestHeader' = Updated(e, bestHeader, b).best
    BY DEF e
  <2> HIDE DEF D
  <2>3. IsUpdate(D, e, bestHeader, b, index', bestHeader')
    BY <1>3, <2>1, <2>2, Updates
  <2>4. QED
    BY <2>3 DEF IsUpdate
<1>5. /\ Known' = D
      /\ \A x \in Known : index'[x] = index[x]
  BY <1>1, <1>2, <1>4 DEF Known
<1>6. ParentsAreTrue'
  BY <1>1, <1>2, <1>4, <1>5 DEF IInv, ParentsAreTrue
<1>7. ASSUME p \in Known
      PROVE  /\ b # Genesis /\ p = Parent(b) /\ p # NoBlock
             /\ index[p].height \in Nat
             /\ index'[b].height = index[p].height + 1
             /\ index'[b].previous = p
             /\ index'[b].chainWork = BlockProof(b) + index[p].chainWork
  BY <1>1, <1>2, <1>4, <1>7 DEF PreviousHash, Entry
<1>8. HeightsCount'
  <2>1. ASSUME NEW x \in Known
        PROVE  /\ index'[x].height <= Height(x)
               /\ \A k \in 0..index'[x].height :
                    /\ StepBack(x, k) \in Known'
                    /\ index'[StepBack(x, k)].height = index'[x].height - k
                    /\ k < index'[x].height => index'[StepBack(x, k)].previous # NoBlock
    <3>1. /\ index[x].height <= Height(x)
          /\ \A k \in 0..index[x].height :
                /\ StepBack(x, k) \in Known
                /\ index[StepBack(x, k)].height = index[x].height - k
                /\ k < index[x].height => index[StepBack(x, k)].previous # NoBlock
      BY DEF IInv, HeightsCount
    <3>2. QED
      BY <1>5, <3>1
  <2>2. CASE p \notin Known
    <3>1. index'[b].height = 0 /\ StepBack(b, 0) = b
      BY <1>2, <1>4, <2>2, Heights, StepsBack
    <3>2. QED
      BY <1>5, <2>1, <3>1, Heights DEF HeightsCount
  <2>3. CASE p \in Known
    <3>1. /\ index[p].height <= Height(p)
          /\ \A k \in 0..index[p].height :
                /\ StepBack(p, k) \in Known
                /\ index[StepBack(p, k)].height = index[p].height - k
                /\ k < index[p].height => index[StepBack(p, k)].previous # NoBlock
      BY <2>3 DEF IInv, HeightsCount
    <3>2. index'[b].height <= Height(b) /\ Height(b) \in Nat
      BY <1>7, <2>3, <3>1, Heights
    <3>3. ASSUME NEW k \in 0..index'[b].height
          PROVE  /\ StepBack(b, k) \in Known'
                 /\ index'[StepBack(b, k)].height = index'[b].height - k
                 /\ k < index'[b].height => index'[StepBack(b, k)].previous # NoBlock
      <4>1. k \in 0..Height(b)
        BY <1>7, <2>3, <3>2
      <4>2. CASE k = 0
        BY <1>5, <1>7, <2>3, <4>1, <4>2, StepsBack
      <4>3. CASE k > 0
        <5>1. StepBack(b, k) = StepBack(p, k - 1)
          BY <1>7, <2>3, <4>1, <4>3, StepsBack
        <5>2. k - 1 \in 0..index[p].height
          BY <1>7, <2>3, <4>3
        <5>3. /\ StepBack(b, k) \in Known
              /\ index[StepBack(b, k)].height = index[p].height - (k - 1)
              /\ k - 1 < index[p].height => index[StepBack(b, k)].previous # NoBlock
          BY <3>1, <5>1, <5>2
        <5>4. QED
          BY <1>5, <1>7, <2>3, <5>3
      <4>4. QED
        BY <4>1, <4>2, <4>3
    <3>4. QED
      BY <1>5, <2>1, <3>2, <3>3 DEF HeightsCount
  <2>4. QED
    BY <2>2, <2>3
<1>9. HeightVouchesForWork'
  <2>1. ASSUME NEW x \in Known, index'[x].height = Height(x)
        PROVE  index'[x].chainWork = ChainWork[x]
    BY <1>5, <2>1 DEF IInv, HeightVouchesForWork
  <2>2. ASSUME index'[b].height = Height(b)
        PROVE  index'[b].chainWork = ChainWork[b]
    <3>1. CASE p \notin Known
      <4>1. b = Genesis
        BY <1>2, <1>4, <2>2, <3>1, Heights
      <4>2. index'[b].chainWork = BlockProof(b) /\ BlockProof(b) \in Nat
        BY <1>2, <1>4, <3>1, Proofs
      <4>3. QED
        BY <4>1, <4>2, Proofs
    <3>2. CASE p \in Known
      <4>1. index[p].height = Height(p)
        BY <1>7, <2>2, <3>2, Heights
      <4>2. index[p].chainWork = ChainWork[p]
        BY <3>2, <4>1 DEF IInv, HeightVouchesForWork
      <4>3. QED
        BY <1>7, <3>2, <4>2, Proofs
    <3>3. QED
      BY <3>1, <3>2
  <2>3. QED
    BY <1>5, <2>1, <2>2 DEF HeightVouchesForWork
<1>10. BestInv'
  <2>1. /\ bestHeader \in Known \cup {NoBlock}
        /\ bestHeader = NoBlock => Known = {}
        /\ \A x \in Known : index[x].chainWork <= index[bestHeader].chainWork
    BY DEF IInv, BestInv
  <2>2. bestHeader' \in D
    BY <1>1, <1>4, <2>1
  <2>3. \A x \in D : index'[x].chainWork \in Nat
    BY <1>4 DEF Entry
  <2>4. ASSUME NEW x \in D
        PROVE  index'[x].chainWork <= index'[bestHeader'].chainWork
    <3>1. CASE bestHeader = NoBlock
      BY <1>4, <2>1, <2>3, <3>1
    <3>2. CASE bestHeader \in Known
      <4>1. bestHeader \in D \ {b}
        BY <3>2
      <4>2. x \in Known => index'[x].chainWork <= index'[bestHeader].chainWork
        BY <1>5, <2>1, <3>2
      <4>3. QED
        BY <1>4, <2>2, <2>3, <3>2, <4>1, <4>2
    <3>3. QED
      BY <2>1, <3>1, <3>2
  <2>5. QED
    BY <1>1, <1>5, <2>2, <2>4 DEF BestInv
<1>11. QED
  BY <1>1, <1>4, <1>5, <1>6, <1>8, <1>9, <1>10
-----------------------------------------------------------------------------
(* Facts about the tasks. *)

\* A task saves a set of entries.
Task == SUBSET Block

\* A task posted last saves its entries last.
LEMMA SavedAppend ==
    ASSUME NEW S, NEW q \in Seq(Task), NEW t \in Task
    PROVE  /\ \A n \in 0..Len(q) : SavedAfter(S, Append(q, t), n) = SavedAfter(S, q, n)
           /\ SavedAfter(S, Append(q, t), Len(q) + 1) = t \cup SavedAfter(S, q, Len(q))
<1> DEFINE p == Append(q, t)
<1>1. Len(q) \in Nat /\ (\A i \in 1..Len(q) : p[i] = q[i]) /\ p[Len(q) + 1] = t
  OBVIOUS
<1> HIDE DEF p
<1>2. ASSUME NEW n \in 0..Len(q)
      PROVE  SavedAfter(S, p, n) = SavedAfter(S, q, n)
  <2>1. \A i \in 1..n : p[i] = q[i]
    BY <1>1
  <2>2. {p[i] : i \in 1..n} = {q[i] : i \in 1..n}
    BY <2>1
  <2>3. QED
    BY <2>2 DEF SavedAfter
<1>3. SavedAfter(S, p, Len(q) + 1) = t \cup SavedAfter(S, q, Len(q))
  <2>1. 1..(Len(q) + 1) = 1..Len(q) \cup {Len(q) + 1}
    BY <1>1
  <2>2. {p[i] : i \in 1..(Len(q) + 1)} = {q[i] : i \in 1..Len(q)} \cup {t}
    BY <1>1, <2>1
  <2>3. QED
    BY <2>2 DEF SavedAfter
<1>4. QED
  BY <1>2, <1>3 DEF p

\* The task at the head is the first to save its entries.
LEMMA SavedFirst ==
    ASSUME NEW S, NEW T, NEW q \in Seq(T), q # <<>>
    PROVE  LET p == RemoveAt(q, 1)
           IN  /\ p \in Seq(T) /\ Len(p) = Len(q) - 1 /\ q[1] \in T
               /\ \A n \in 0..Len(p) :
                      SavedAfter(S \cup q[1], p, n) = SavedAfter(S, q, n + 1)
<1> DEFINE p == RemoveAt(q, 1)
<1>1. /\ Len(q) \in Nat \ {0} /\ q[1] \in T
      /\ p \in Seq(T) /\ Len(p) = Len(q) - 1
      /\ \A i \in 1..Len(p) : p[i] = q[i + 1]
  <2>1. Len(q) \in Nat \ {0} /\ q[1] \in T
    OBVIOUS
  <2>2. SubSeq(q, 1, 0) = <<>>
    BY <2>1
  <2>3. /\ SubSeq(q, 2, Len(q)) \in Seq(T)
        /\ Len(SubSeq(q, 2, Len(q))) = Len(q) - 1
        /\ \A i \in 1..(Len(q) - 1) : SubSeq(q, 2, Len(q))[i] = q[i + 1]
    BY <2>1, HeadTailProperties, TailIsSubSeq
  <2>4. p = <<>> \o SubSeq(q, 2, Len(q))
    BY <2>2 DEF RemoveAt
  <2>5. p = SubSeq(q, 2, Len(q))
    BY <2>3, <2>4
  <2>6. QED
    BY <2>1, <2>3, <2>5
<1> HIDE DEF p
<1>2. ASSUME NEW n \in 0..Len(p)
      PROVE  SavedAfter(S \cup q[1], p, n) = SavedAfter(S, q, n + 1)
  <2>1. ASSUME NEW i \in 1..(n + 1) PROVE i = 1 \/ (i - 1 \in 1..n /\ q[i] = p[i - 1])
    BY <1>1, <1>2
  <2>2. \A i \in 1..n : i + 1 \in 1..(n + 1) /\ p[i] = q[i + 1]
    BY <1>1, <1>2
  <2>3. 1 \in 1..(n + 1)
    BY <1>1, <1>2
  <2>4. {q[i] : i \in 1..(n + 1)} = {q[1]} \cup {p[i] : i \in 1..n}
    <3>1. \A i \in 1..(n + 1) : q[i] \in {q[1]} \cup {p[j] : j \in 1..n}
      BY <2>1
    <3>2. \A i \in 1..n : p[i] \in {q[j] : j \in 1..(n + 1)}
      BY <2>2
    <3>3. QED
      BY <2>3, <3>1, <3>2
  <2>5. QED
    BY <2>4 DEF SavedAfter
<1>3. QED
  BY <1>1, <1>2 DEF p
-----------------------------------------------------------------------------
(* The invariant, step by step. *)

\* What is closed stays so while the heights stay.
LEMMA StillClosed ==
    ASSUME NEW e, NEW f, NEW T, Closed(e, T), \A x \in T : f[x].height = e[x].height
    PROVE  Closed(f, T)
BY DEF Closed

\* The whole index is closed.
LEMMA KnownClosed ==
    ASSUME HeightsCount
    PROVE  Closed(index, Known)
BY DEF Closed, HeightsCount

\* A new entry is dirty, or posted with all that are.
LEMMA NewEntrySaved ==
    ASSUME IInv, NEW b \in Block,
           Known' = Known \cup {b}, \A x \in Known : index'[x] = index[x],
           HeightsCount', saved' = saved, MarkDirty(b)
    PROVE  SavedClosed' /\ queue' \in Seq(SUBSET Known') /\ dirty' \subseteq Known'
<1> DEFINE S == DOMAIN saved
           t == dirty \cup {b}
<1>1. /\ queue \in Seq(SUBSET Known) /\ dirty \subseteq Known
      /\ Len(queue) \in Nat
      /\ \A n \in 0..Len(queue) : Closed(index, SavedAfter(S, queue, n))
      /\ Known = SavedAfter(S, queue, Len(queue)) \cup dirty
      /\ \A x \in S : saved[x] = index[x].height
  BY DEF IInv, TypeOK, SavedClosed
<1>2. queue \in Seq(SUBSET Known') /\ t \in SUBSET Known'
  <2>1. SUBSET Known \subseteq SUBSET Known'
    OBVIOUS
  <2>2. QED
    BY <1>1, <2>1, SeqMonotonic
<1>3. ASSUME NEW n \in 0..Len(queue)
      PROVE  /\ SavedAfter(S, queue, n) \in SUBSET Known
             /\ Closed(index', SavedAfter(S, queue, n))
  <2>1. SavedAfter(S, queue, n) \subseteq SavedAfter(S, queue, Len(queue))
    <3>1. \A i \in 1..n : i \in 1..Len(queue)
      BY <1>1
    <3>2. QED
      BY <3>1 DEF SavedAfter
  <2>2. SavedAfter(S, queue, n) \in SUBSET Known /\ Closed(index, SavedAfter(S, queue, n))
    BY <1>1, <2>1
  <2>3. QED
    BY <2>2, StillClosed
<1>4. S \subseteq Known /\ \A x \in S : saved'[x] = index'[x].height
  <2>1. S \subseteq SavedAfter(S, queue, Len(queue))
    BY DEF SavedAfter
  <2>2. QED
    BY <1>1, <2>1
<1>5. CASE dirty' = t /\ queue' = queue
  BY <1>1, <1>2, <1>3, <1>4, <1>5 DEF SavedClosed
<1>6. CASE dirty' = {} /\ queue' = Append(queue, t)
  <2>1. /\ \A n \in 0..Len(queue) :
              SavedAfter(S, queue', n) = SavedAfter(S, queue, n)
        /\ SavedAfter(S, queue', Len(queue) + 1) = t \cup SavedAfter(S, queue, Len(queue))
    <3>0. queue \in Seq(Task) /\ t \in Task
      <4>1. SUBSET Known \subseteq Task /\ t \in Task
        BY <1>1 DEF IInv, TypeOK, Task
      <4>2. QED
        BY <1>1, <4>1, SeqMonotonic
    <3> HIDE DEF S, t
    <3>1. /\ \A n \in 0..Len(queue) :
                SavedAfter(S, Append(queue, t), n) = SavedAfter(S, queue, n)
          /\ SavedAfter(S, Append(queue, t), Len(queue) + 1)
                = t \cup SavedAfter(S, queue, Len(queue))
      BY <3>0, SavedAppend
    <3>2. QED
      BY <1>6, <3>1
  <2>2. queue' \in Seq(SUBSET Known') /\ Len(queue') = Len(queue) + 1
    BY <1>2, <1>6
  <2>3. SavedAfter(S, queue', Len(queue')) = Known'
    BY <1>1, <2>1, <2>2
  <2>4. Closed(index', Known')
    BY DEF HeightsCount, Closed
  <2>5. ASSUME NEW n \in 0..Len(queue')
        PROVE  Closed(index', SavedAfter(S, queue', n))
    <3>1. n \in 0..Len(queue) \/ n = Len(queue')
      BY <1>1, <2>2
    <3>2. QED
      BY <1>3, <2>1, <2>3, <2>4, <3>1
  <2>6. QED
    BY <1>4, <1>6, <2>2, <2>3, <2>5 DEF SavedClosed
<1>7. QED
  BY <1>5, <1>6 DEF MarkDirty
\* Nothing that the invariant is about changes.
LEMMA IndexStays ==
    ASSUME IInv, UNCHANGED <<index, bestHeader, dirty, queue, todo, saved>>,
           nulls' \subseteq Invalid,
           failed' \in {"none", "BlockSynchronizer:100", "BlockSynchronizer:251",
                        "BlockCache:141", "BlockChain:129"}
    PROVE  IInv'
<1>1. Known' = Known
  BY DEF Known
<1>2. TypeOK'
  BY <1>1 DEF IInv, TypeOK
<1>3. ParentsAreTrue' /\ HeightsCount' /\ HeightVouchesForWork' /\ BestInv'
  BY <1>1 DEF IInv, ParentsAreTrue, HeightsCount, HeightVouchesForWork, BestInv
<1>4. SavedClosed' /\ LoadInv'
  BY <1>1 DEF IInv, SavedClosed, LoadInv
<1>5. QED
  BY <1>2, <1>3, <1>4 DEF IInv

LEMMA AddHeaderStep ==
    ASSUME IInv, NEW b \in Block, NEW last \in BOOLEAN, AddHeader(b, last)
    PROVE  IInv'
<1>1. /\ todo = {} /\ Genesis \in Known /\ b \notin Known
      /\ todo' = todo /\ saved' = saved
      /\ nulls \subseteq Invalid
  BY DEF AddHeader, Up, IInv, TypeOK
<1>2. CASE ~ ValidHeader(b)
  <2>1. UNCHANGED <<index, bestHeader, dirty, queue>>
    BY <1>2 DEF AddHeader
  <2>2. nulls' \subseteq Invalid
    BY <1>1, <1>2 DEF AddHeader, ValidHeader
  <2>3. failed' \in {"none", "BlockSynchronizer:100"}
    BY <1>2 DEF AddHeader, Up
  <2>4. QED
    BY <1>1, <2>1, <2>2, <2>3, IndexStays
<1>3. CASE ValidHeader(b) /\ PreviousHash(b) \in nulls
  <2>1. failed' = "BlockCache:141" /\ UNCHANGED memory
    BY <1>3 DEF AddHeader
  <2>2. QED
    BY <1>1, <2>1, IndexStays DEF memory
<1>4. CASE ValidHeader(b) /\ PreviousHash(b) \notin nulls
  <2>1. /\ index' = Updated(WithEntry(b), bestHeader, b).index
        /\ bestHeader' = Updated(WithEntry(b), bestHeader, b).best
        /\ MarkDirty(b)
        /\ nulls' = nulls /\ failed' = failed
    BY <1>4 DEF AddHeader, Updated
  <2>2. b \in Block \ Invalid
    BY <1>4 DEF ValidHeader
  <2>3. /\ Known' = Known \cup {b}
        /\ Known' \subseteq Block \ Invalid
        /\ index' \in [Known' -> Entry]
        /\ \A x \in Known : index'[x] = index[x]
        /\ ParentsAreTrue' /\ HeightsCount' /\ HeightVouchesForWork' /\ BestInv'
    BY <1>1, <2>1, <2>2, NewEntry
  <2>4. SavedClosed' /\ queue' \in Seq(SUBSET Known') /\ dirty' \subseteq Known'
    BY <1>1, <2>1, <2>3, NewEntrySaved
  <2>5. TypeOK'
    BY <1>1, <2>1, <2>3, <2>4 DEF IInv, TypeOK, BestInv
  <2>6. LoadInv'
    BY <1>1, <2>3 DEF IInv, LoadInv
  <2>7. QED
    BY <2>3, <2>4, <2>5, <2>6 DEF IInv
<1>5. QED
  BY <1>2, <1>3, <1>4

LEMMA LoadGenesisBlockStep ==
    ASSUME IInv, LoadGenesisBlock
    PROVE  IInv'
<1>1. /\ todo = {} /\ todo' = {} /\ Genesis \notin Known
      /\ saved' = saved /\ nulls' = nulls /\ failed' = failed
      /\ queue = <<>> /\ dirty = {}
      /\ queue' = <<dirty \cup {Genesis}>> /\ dirty' = {}
      /\ index' = Updated(WithEntry(Genesis), bestHeader, Genesis).index
      /\ bestHeader' = Updated(WithEntry(Genesis), bestHeader, Genesis).best
  BY DEF LoadGenesisBlock, Updated, IInv, LoadInv
<1>2. Genesis \in Block \ Invalid
  BY TreeAssumption, InvalidAssumption
<1>3. /\ Known' = Known \cup {Genesis}
      /\ Known' \subseteq Block \ Invalid
      /\ index' \in [Known' -> Entry]
      /\ \A x \in Known : index'[x] = index[x]
      /\ ParentsAreTrue' /\ HeightsCount' /\ HeightVouchesForWork' /\ BestInv'
  BY <1>1, <1>2, NewEntry
<1>4. SavedClosed' /\ queue' \in Seq(SUBSET Known') /\ dirty' \subseteq Known'
  <2>1. MarkDirty(Genesis)
    BY <1>1 DEF MarkDirty
  <2>2. QED
    BY <1>1, <1>2, <1>3, <2>1, NewEntrySaved
<1>5. TypeOK'
  BY <1>1, <1>3, <1>4 DEF IInv, TypeOK, BestInv
<1>6. LoadInv'
  BY <1>1, <1>3 DEF LoadInv
<1>7. QED
  BY <1>3, <1>4, <1>5, <1>6 DEF IInv
LEMMA FindCommonStep ==
    ASSUME IInv, NEW b \in Block, FindCommon(b)
    PROVE  IInv'
<1>1. /\ UNCHANGED <<index, bestHeader, dirty, queue, todo, saved, nulls>>
      /\ failed' \in {"BlockSynchronizer:251", "BlockChain:129"}
  BY DEF FindCommon, memory
<1>2. nulls' \subseteq Invalid
  BY <1>1 DEF IInv, TypeOK
<1>3. QED
  BY <1>1, <1>2, IndexStays

LEMMA DoFlushStep ==
    ASSUME IInv, DoFlush
    PROVE  IInv'
<1> DEFINE S == DOMAIN saved
           t == queue[1]
           q == RemoveAt(queue, 1)
<1>1. /\ todo = {} /\ Genesis \in Known /\ queue # <<>>
      /\ saved' = [b \in S \cup t |-> IF b \in t THEN index[b].height ELSE saved[b]]
      /\ queue' = q
      /\ UNCHANGED <<index, nulls, bestHeader, dirty, todo, failed>>
  BY DEF DoFlush, FirstPosted, Up
<1>2. /\ q \in Seq(SUBSET Known) /\ Len(q) = Len(queue) - 1 /\ t \in SUBSET Known
      /\ \A n \in 0..Len(q) : SavedAfter(S \cup t, q, n) = SavedAfter(S, queue, n + 1)
  <2>1. queue \in Seq(SUBSET Known)
    BY DEF IInv, TypeOK
  <2>2. QED
    BY <1>1, <2>1, SavedFirst
<1>3. Known' = Known /\ DOMAIN saved' = S \cup t
  BY <1>1 DEF Known
<1>4. Len(queue) \in Nat /\ Len(q) \in Nat
  BY <1>2 DEF IInv, TypeOK
<1> HIDE DEF t, q
<1>5. TypeOK'
  <2>1. \A b \in Known : index[b].height \in Nat
    BY DEF IInv, TypeOK, Entry
  <2>2. saved' \in [DOMAIN saved' -> Nat]
    BY <1>1, <1>2, <1>3, <2>1 DEF IInv, TypeOK
  <2>3. DOMAIN saved' \subseteq Block \ Invalid
    BY <1>2, <1>3 DEF IInv, TypeOK
  <2>4. QED
    BY <1>1, <1>2, <1>3, <2>2, <2>3 DEF IInv, TypeOK
<1>6. SavedClosed'
  <2>1. ASSUME NEW n \in 0..Len(queue')
        PROVE  Closed(index', SavedAfter(DOMAIN saved', queue', n))
    <3>1. n \in 0..Len(q) /\ n + 1 \in 0..Len(queue)
      BY <1>1, <1>2, <1>4
    <3>2. SavedAfter(DOMAIN saved', queue', n) = SavedAfter(S, queue, n + 1)
      BY <1>1, <1>2, <1>3, <3>1
    <3>3. QED
      BY <1>1, <3>1, <3>2 DEF IInv, SavedClosed
  <2>2. SavedAfter(DOMAIN saved', queue', Len(queue')) = SavedAfter(S, queue, Len(queue))
    <3>1. Len(q) \in 0..Len(q) /\ Len(q) + 1 = Len(queue)
      BY <1>2, <1>4
    <3>2. SavedAfter(S \cup t, q, Len(q)) = SavedAfter(S, queue, Len(queue))
      BY <1>2, <3>1
    <3>3. QED
      BY <1>1, <1>3, <3>2
  <2>3. \A b \in DOMAIN saved' : saved'[b] = index'[b].height
    BY <1>1, <1>3 DEF IInv, SavedClosed
  <2>4. QED
    BY <1>1, <1>3, <2>1, <2>2, <2>3 DEF IInv, SavedClosed
<1>7. ParentsAreTrue' /\ HeightsCount' /\ HeightVouchesForWork' /\ BestInv'
  BY <1>1, <1>3 DEF IInv, ParentsAreTrue, HeightsCount, HeightVouchesForWork, BestInv
<1>8. LoadInv'
  BY <1>1, <1>3 DEF IInv, LoadInv
<1>9. QED
  BY <1>5, <1>6, <1>7, <1>8 DEF IInv

\* What a start reads is closed: the heights are those of before, and every
\* entry they count on was saved with them or before.
LEMMA RestartStep ==
    ASSUME IInv, Restart
    PROVE  IInv'
<1> DEFINE S == DOMAIN saved
<1>1. /\ index' = Linked /\ todo' = S /\ bestHeader' = NoBlock
      /\ nulls' = {} /\ dirty' = {} /\ queue' = <<>> /\ failed' = "none"
      /\ saved' = saved
  BY DEF Restart
<1>2. /\ S \subseteq Block \ Invalid
      /\ Closed(index, S)
      /\ \A b \in S : saved[b] = index[b].height /\ saved[b] \in Nat /\ b \in Known
  <2>1. SavedAfter(S, queue, 0) = S
    BY DEF SavedAfter
  <2>2. S \subseteq SavedAfter(S, queue, Len(queue))
    BY DEF SavedAfter
  <2>3. Len(queue) \in Nat /\ 0 \in 0..Len(queue)
    BY DEF IInv, TypeOK
  <2>4. QED
    BY <2>1, <2>2, <2>3 DEF IInv, TypeOK, SavedClosed
<1>3. /\ Known' = S
      /\ \A b \in S : /\ index'[b].height = index[b].height
                      /\ index'[b].previous
                            = (IF PreviousHash(b) \in S THEN PreviousHash(b) ELSE NoBlock)
  BY <1>1, <1>2 DEF Known, Linked
<1>4. TypeOK'
  <2>1. index' \in [S -> Entry]
    BY <1>1, <1>2 DEF Linked, Entry
  <2>2. <<>> \in Seq(SUBSET Known')
    OBVIOUS
  <2>3. QED
    BY <1>1, <1>2, <1>3, <2>1, <2>2 DEF IInv, TypeOK
<1>5. ParentsAreTrue'
  BY <1>3 DEF ParentsAreTrue
<1>6. HeightsCount'
  <2> SUFFICES ASSUME NEW b \in S
               PROVE  /\ index[b].height <= Height(b)
                      /\ \A k \in 0..index[b].height :
                            /\ StepBack(b, k) \in S
                            /\ index'[StepBack(b, k)].height = index[b].height - k
                            /\ k < index[b].height
                                  => index'[StepBack(b, k)].previous # NoBlock
    BY <1>3 DEF HeightsCount
  <2>1. /\ index[b].height <= Height(b) /\ index[b].height \in Nat
        /\ \A k \in 0..index[b].height :
              index[StepBack(b, k)].height = index[b].height - k
        /\ b \in Block /\ Height(b) \in Nat
    BY <1>2, Heights DEF IInv, HeightsCount
  <2>2. \A k \in 0..index[b].height : StepBack(b, k) \in S
    BY <1>2 DEF Closed
  <2>3. ASSUME NEW k \in 0..index[b].height, k < index[b].height
        PROVE  index'[StepBack(b, k)].previous # NoBlock
    <3>1. k \in 0..Height(b) /\ k < Height(b) /\ k + 1 \in 0..index[b].height
      BY <2>1, <2>3
    <3>2. StepBack(b, k) # Genesis /\ Parent(StepBack(b, k)) = StepBack(b, k + 1)
      BY <2>1, <3>1, StepsBack
    <3>3. PreviousHash(StepBack(b, k)) \in S
      BY <2>2, <3>1, <3>2 DEF PreviousHash
    <3>4. QED
      BY <1>2, <1>3, <2>2, <3>3, NoBlockAssumption
  <2>4. QED
    BY <1>3, <2>1, <2>2, <2>3
<1>7. SavedClosed'
  <2>1. \A n \in 0..Len(queue') : SavedAfter(DOMAIN saved', queue', n) = S
    <3>1. SavedAfter(S, <<>>, 0) = S
      BY DEF SavedAfter
    <3>2. \A n \in 0..Len(<<>>) : n = 0
      OBVIOUS
    <3>3. QED
      BY <1>1, <3>1, <3>2
  <2>2. Closed(index', S)
    BY <1>2, <1>3 DEF Closed
  <2>3. Len(queue') \in 0..Len(queue')
    BY <1>1
  <2>4. QED
    BY <1>1, <1>2, <1>3, <2>1, <2>2, <2>3 DEF SavedClosed
<1>8. LoadInv' /\ HeightVouchesForWork' /\ BestInv'
  BY <1>1, <1>3 DEF LoadInv, HeightVouchesForWork, BestInv
<1>9. QED
  BY <1>4, <1>5, <1>6, <1>7, <1>8 DEF IInv
\* The parent that the height of an entry counts on comes before it: the
\* entries are sorted by height.
LEMMA ParentFirst ==
    ASSUME IInv, NEW b \in Lowest(todo), index[b].height > 0
    PROVE  /\ b # Genesis
           /\ Parent(b) \in Known \ todo
           /\ index[Parent(b)].height = index[b].height - 1
           /\ index[b].previous = Parent(b)
           /\ index[b].previous # NoBlock
<1>1. /\ b \in todo /\ todo \subseteq DOMAIN saved /\ todo \subseteq Known /\ b \in Block
      /\ \A c \in todo : saved[b] <= saved[c] /\ saved[c] = index[c].height
      /\ index[b].height \in Nat /\ index[b].height <= Height(b) /\ Height(b) \in Nat
  BY Heights DEF IInv, TypeOK, LoadInv, SavedClosed, HeightsCount, Lowest, Entry
<1>2. 0 \in 0..index[b].height /\ 1 \in 0..index[b].height
  BY <1>1
<1>3. /\ StepBack(b, 0) = b
      /\ StepBack(b, 1) = Parent(b)
      /\ b # Genesis
  <2>1. 0 \in 0..Height(b) /\ 0 < Height(b)
    BY <1>1
  <2>2. QED
    BY <1>1, <2>1, StepsBack
<1>4. /\ Parent(b) \in Known
      /\ index[Parent(b)].height = index[b].height - 1
      /\ index[b].previous # NoBlock
  BY <1>1, <1>2, <1>3 DEF IInv, HeightsCount
<1>5. Parent(b) \notin todo
  BY <1>1, <1>4
<1>6. index[b].previous = Parent(b)
  BY <1>1, <1>3, <1>4 DEF IInv, ParentsAreTrue, PreviousHash
<1>7. QED
  BY <1>3, <1>4, <1>5, <1>6
\* What is saved, now or in the end, is known.
LEMMA SavedKnown ==
    ASSUME IInv, NEW n \in 0..Len(queue)
    PROVE  SavedAfter(DOMAIN saved, queue, n) \subseteq Known
<1>1. Len(queue) \in Nat
  BY DEF IInv, TypeOK
<1>2. \A i \in 1..n : i \in 1..Len(queue)
  BY <1>1
<1>3. SavedAfter(DOMAIN saved, queue, n) \subseteq SavedAfter(DOMAIN saved, queue, Len(queue))
  BY <1>2 DEF SavedAfter
<1>4. QED
  BY <1>3 DEF IInv, SavedClosed

LEMMA UpdateChainWorkStep ==
    ASSUME IInv, NEW b \in Block, UpdateChainWork(b)
    PROVE  IInv'
<1>1. /\ b \in Lowest(todo) /\ b \in todo
      /\ index' = Updated(index, bestHeader, b).index
      /\ bestHeader' = Updated(index, bestHeader, b).best
      /\ todo' = todo \ {b}
      /\ UNCHANGED <<nulls, dirty, queue, saved, failed>>
  BY DEF UpdateChainWork, Updated, Lowest
<1>2. /\ Known \in SUBSET Block /\ index \in [Known -> Entry] /\ b \in Known
      /\ todo \subseteq Known
      /\ index[b].previous \in Known \cup {NoBlock}
  BY <1>1 DEF IInv, TypeOK, ParentsAreTrue
<1>3. IsUpdate(Known, index, bestHeader, b, index', bestHeader')
  BY <1>1, <1>2, Updates
<1>4. /\ Known' = Known /\ index' \in [Known -> Entry]
      /\ \A x \in Known \ {b} : index'[x] = index[x]
      /\ \A x \in Known : /\ index'[x].height = index[x].height
                          /\ index'[x].previous = index[x].previous
  BY <1>2, <1>3 DEF IsUpdate, Known
<1>5. TypeOK'
  <2>1. bestHeader' \in Known \cup {NoBlock}
    BY <1>2, <1>3 DEF IInv, TypeOK, IsUpdate
  <2>2. QED
    BY <1>1, <1>4, <2>1 DEF IInv, TypeOK
<1>6. ParentsAreTrue' /\ HeightsCount'
  <2>1. ParentsAreTrue'
    BY <1>4 DEF IInv, ParentsAreTrue
  <2>2. HeightsCount'
    BY <1>4 DEF IInv, HeightsCount
  <2>3. QED
    BY <2>1, <2>2
<1>7. SavedClosed'
  <2>1. ASSUME NEW n \in 0..Len(queue)
        PROVE  Closed(index', SavedAfter(DOMAIN saved, queue, n))
    <3>1. Closed(index, SavedAfter(DOMAIN saved, queue, n))
      BY DEF IInv, SavedClosed
    <3>2. QED
      BY <1>4, <3>1, SavedKnown, StillClosed
  <2>2. \A x \in DOMAIN saved : saved[x] = index'[x].height
    BY <1>4 DEF IInv, SavedClosed, SavedAfter
  <2>3. QED
    BY <1>1, <1>4, <2>1, <2>2 DEF IInv, SavedClosed
<1>8. LoadInv'
  BY <1>1, <1>4 DEF IInv, LoadInv
<1>9. HeightVouchesForWork'
  <2>1. ASSUME index[b].height = Height(b)
        PROVE  index'[b].chainWork = ChainWork[b]
    <3>1. CASE b = Genesis
      <4>1. index[b].previous = NoBlock
        BY <1>2, <3>1 DEF IInv, ParentsAreTrue, PreviousHash
      <4>2. index'[b].chainWork = BlockProof(b) /\ BlockProof(b) \in Nat
        BY <1>2, <1>3, <4>1, Proofs DEF IsUpdate
      <4>3. QED
        BY <1>2, <3>1, <4>2, Proofs
    <3>2. CASE b # Genesis
      <4>1. index[b].height > 0
        BY <2>1, <3>2, Heights
      <4>2. /\ Parent(b) \in Known \ todo
            /\ index[Parent(b)].height = index[b].height - 1
            /\ index[b].previous = Parent(b)
            /\ index[b].previous # NoBlock
        BY <1>1, <4>1, ParentFirst
      <4>3. index[Parent(b)].chainWork = ChainWork[Parent(b)]
        BY <2>1, <3>2, <4>2, Heights DEF IInv, HeightVouchesForWork
      <4>4. index'[b].chainWork = BlockProof(b) + ChainWork[Parent(b)]
        BY <1>3, <4>2, <4>3 DEF IsUpdate
      <4>5. QED
        BY <3>2, <4>4, Proofs
    <3>3. QED
      BY <3>1, <3>2
  <2>2. QED
    BY <1>1, <1>4, <2>1 DEF IInv, HeightVouchesForWork
<1>10. BestInv'
  <2>1. /\ bestHeader \in (Known \ todo) \cup {NoBlock}
        /\ bestHeader = NoBlock => Known \subseteq todo
        /\ \A x \in Known \ todo : index[x].chainWork <= index[bestHeader].chainWork
    BY DEF IInv, BestInv
  <2>2. \A x \in Known : index'[x].chainWork \in Nat
    BY <1>4 DEF Entry
  <2>3. Known \ todo' = (Known \ todo) \cup {b} /\ b \notin Known \ todo
    BY <1>1, <1>2
  <2>4. CASE bestHeader = NoBlock
    BY <1>1, <1>2, <1>3, <1>4, <2>1, <2>2, <2>3, <2>4, NoBlockAssumption
    DEF BestInv, IsUpdate
  <2>5. CASE bestHeader \in Known \ todo
    <3>1. /\ bestHeader' \in {b, bestHeader} /\ bestHeader \in Known \ {b}
          /\ bestHeader' = b => index'[bestHeader].chainWork <= index'[b].chainWork
          /\ bestHeader' = bestHeader
                => index'[b].chainWork <= index'[bestHeader].chainWork
      BY <1>3, <2>3, <2>5 DEF IsUpdate
    <3>2. \A x \in Known \ todo : index'[x].chainWork <= index'[bestHeader].chainWork
      BY <1>4, <2>1, <2>3, <2>5
    <3>3. ASSUME NEW x \in Known \ todo'
          PROVE  index'[x].chainWork <= index'[bestHeader'].chainWork
      BY <1>2, <2>2, <2>3, <3>1, <3>2
    <3>4. bestHeader' \in Known \ todo' /\ bestHeader' # NoBlock
      BY <1>2, <2>3, <2>5, <3>1, NoBlockAssumption
    <3>5. QED
      BY <1>4, <3>3, <3>4 DEF BestInv
  <2>6. QED
    BY <2>1, <2>4, <2>5
<1>11. QED
  BY <1>5, <1>6, <1>7, <1>8, <1>9, <1>10 DEF IInv
-----------------------------------------------------------------------------
LEMMA InitInv == Init => IInv
<1> SUFFICES ASSUME Init PROVE IInv
  OBVIOUS
<1>1. /\ saved = <<>> /\ DOMAIN saved = {} /\ index = Linked /\ todo = {}
      /\ bestHeader = NoBlock /\ nulls = {} /\ dirty = {} /\ queue = <<>>
      /\ failed = "none"
  BY DEF Init
<1>2. Known = {}
  BY <1>1 DEF Known, Linked
<1>3. TypeOK
  <2>1. index \in [Known -> Entry]
    BY <1>1, <1>2 DEF Linked
  <2>2. saved \in [DOMAIN saved -> Nat]
    BY <1>1
  <2>3. QED
    BY <1>1, <1>2, <2>1, <2>2 DEF TypeOK
<1>4. SavedClosed
  <2>1. SavedAfter({}, <<>>, 0) = {} /\ Len(<<>>) = 0
    BY DEF SavedAfter
  <2>2. \A n \in 0..Len(<<>>) : n = 0
    OBVIOUS
  <2>3. QED
    BY <1>1, <1>2, <2>1, <2>2 DEF SavedClosed, Closed
<1>5. QED
  BY <1>1, <1>2, <1>3, <1>4
  DEF IInv, ParentsAreTrue, HeightsCount, LoadInv, HeightVouchesForWork, BestInv

\* Whatever the tree of blocks and the order of its headers, of the flushes
\* and of the restarts: the entries that a height counts on are linked, and
\* saved no later.
THEOREM Inductive == Spec => []IInv
<1>1. IInv /\ [Next]_vars => IInv'
  <2> SUFFICES ASSUME IInv, [Next]_vars PROVE IInv'
    OBVIOUS
  <2>1. ASSUME NEW b \in Block, NEW last \in BOOLEAN, AddHeader(b, last) PROVE IInv'
    BY <2>1, AddHeaderStep
  <2>2. ASSUME NEW b \in Block, FindCommon(b) PROVE IInv'
    BY <2>2, FindCommonStep
  <2>3. CASE DoFlush
    BY <2>3, DoFlushStep
  <2>4. CASE Restart
    BY <2>4, RestartStep
  <2>5. ASSUME NEW b \in Block, UpdateChainWork(b) PROVE IInv'
    BY <2>5, UpdateChainWorkStep
  <2>6. CASE LoadGenesisBlock
    BY <2>6, LoadGenesisBlockStep
  <2>7. CASE UNCHANGED vars
    <3>1. nulls' \subseteq Invalid /\ failed' = failed /\ TypeOK
      BY <2>7 DEF vars, memory, IInv, TypeOK
    <3>2. QED
      BY <2>7, <3>1, IndexStays DEF vars, memory, TypeOK
  <2>8. QED
    BY <2>1, <2>2, <2>3, <2>4, <2>5, <2>6, <2>7 DEF Next
<1>2. QED
  BY <1>1, InitInv, PTL DEF Spec

\* The index and what is saved of it keep their types.
THEOREM TypeCorrect == Spec => []TypeOK
<1>1. IInv => TypeOK
  BY DEF IInv
<1>2. QED
  BY <1>1, Inductive, PTL

\* BlockIndex::getAncestor never follows a null pointer (Block.cpp:131).
THEOREM LinksSuffice == Spec => []EnoughLinks
<1>1. IInv => EnoughLinks
  <2> SUFFICES ASSUME IInv, NEW b \in Known PROVE Back(b, index[b].height) # NoBlock
    BY DEF EnoughLinks
  <2>1. /\ b \in Block /\ index[b].height \in Nat /\ Height(b) \in Nat
        /\ index[b].height <= Height(b)
        /\ \A k \in 0..index[b].height :
              k < index[b].height => index[StepBack(b, k)].previous # NoBlock
    BY Heights DEF IInv, TypeOK, Entry, HeightsCount
  <2>2. index[b].height < Len(Path[b])
    <3>1. Len(Path[b]) \in Nat
      BY <2>1, TreeAssumption
    <3>2. QED
      BY <2>1, <3>1 DEF Height
  <2>3. \A k \in 0..(index[b].height - 1) :
            k \in 0..index[b].height /\ k < index[b].height
    BY <2>1
  <2>4. Back(b, index[b].height) = StepBack(b, index[b].height)
    BY <2>1, <2>2, <2>3 DEF Back
  <2>5. StepBack(b, index[b].height) \in Block
    BY <2>1, StepsBack
  <2>6. QED
    BY <2>4, <2>5, NoBlockAssumption
<1>2. QED
  BY <1>1, Inductive, PTL

\* updateBlockInfo sums the work of the whole chain, also over the entries that
\* updateChainWork sorts after a restart (BlockCache.cpp:309).
THEOREM WorkIsChainWork == Spec => []HeightVouchesForWork
<1>1. IInv => HeightVouchesForWork
  BY DEF IInv
<1>2. QED
  BY <1>1, Inductive, PTL

\* The best header is the one with the most work (BlockCache.cpp:301).
THEOREM BestHasMostWork == Spec => []BestIsHeaviest
<1>1. IInv => BestIsHeaviest
  <2> SUFFICES ASSUME IInv, NEW b \in Known \ todo
               PROVE  /\ bestHeader \in Known \ todo
                      /\ index[b].chainWork <= index[bestHeader].chainWork
                      /\ (\A x \in Known : index[x].height = Height(x))
                            => ChainWork[b] <= ChainWork[bestHeader]
    BY DEF BestIsHeaviest
  <2>1. /\ bestHeader \in Known \ todo
        /\ index[b].chainWork <= index[bestHeader].chainWork
    BY DEF IInv, BestInv
  <2>2. ASSUME \A x \in Known : index[x].height = Height(x)
        PROVE  ChainWork[b] <= ChainWork[bestHeader]
    BY <2>1, <2>2 DEF IInv, HeightVouchesForWork
  <2>3. QED
    BY <2>1, <2>2
<1>2. QED
  BY <1>1, Inductive, PTL
=============================================================================
