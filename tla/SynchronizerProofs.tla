------------------------- MODULE SynchronizerProofs -------------------------
(***************************************************************************)
(* Theorems about the download, for every tree of blocks, any nodes that   *)
(* come and go, any batch size and any number of headers in an answer.     *)
(***************************************************************************)
EXTENDS Synchronizer, SequenceTheorems, WellFoundedInduction, TLAPS

-----------------------------------------------------------------------------
(* Numbers and sequences *)

\* A bounded set of heights has a highest.
LEMMA Highest ==
    ASSUME NEW T \in SUBSET Nat, T # {}, NEW n \in Nat, \A h \in T : h <= n
    PROVE  \E h \in T : \A k \in T : k <= h
<1> DEFINE R == OpToRel(<, Nat)
           D == {n - h : h \in T}
<1>1. IsWellFoundedOn(R, Nat)
      BY NatLessThanWellFounded
<1>2. \A a, b \in Nat : <<a, b>> \in R <=> a < b
      BY DEF OpToRel
<1> HIDE DEF R
<1>3. D \subseteq Nat /\ D # {}
      <2>1. \A h \in T : n - h \in Nat
            OBVIOUS
      <2>2. PICK h \in T : TRUE
            OBVIOUS
      <2>3. n - h \in D
            BY <2>2
      <2> QED
          BY <2>1, <2>3
<1>4. PICK x \in D : \A y \in D : ~ (<<y, x>> \in R)
      <2> HIDE DEF D
      <2> QED
          BY <1>1, <1>3, WFMin
<1>5. PICK h \in T : x = n - h
      BY <1>4
<1>6. \A k \in T : n - k \in D /\ n - k \in Nat /\ x \in Nat
      BY <1>3
<1>7. \A k \in T : ~ (n - k < x)
      BY <1>2, <1>4, <1>6
<1> QED
    BY <1>5, <1>7

\* The elements of a sequence after one is added or the first is taken.
LEMMA RangeFacts ==
    ASSUME NEW S, NEW s \in Seq(S), NEW x \in S
    PROVE  /\ SeqRange(s) \subseteq S
           /\ SeqRange(Append(s, x)) = SeqRange(s) \cup {x}
           /\ s # <<>> => SeqRange(s) = SeqRange(Tail(s)) \cup {Head(s)}
<1>1. Len(s) \in Nat /\ \A k \in 1..Len(s) : s[k] \in S
      BY LenProperties, ElementOfSeq
<1>2. SeqRange(Append(s, x)) = SeqRange(s) \cup {x}
      <2>1. /\ Len(Append(s, x)) = Len(s) + 1
            /\ Append(s, x)[Len(s) + 1] = x
            /\ \A k \in 1..Len(s) : Append(s, x)[k] = s[k]
            BY <1>1, AppendProperties
      <2>2. 1..Len(s) + 1 = 1..Len(s) \cup {Len(s) + 1}
            BY <1>1
      <2> QED
          BY <2>1, <2>2 DEF SeqRange
<1>3. ASSUME s # <<>>
      PROVE  SeqRange(s) = SeqRange(Tail(s)) \cup {Head(s)}
      <2>1. /\ Len(Tail(s)) = Len(s) - 1
            /\ \A k \in 1..Len(Tail(s)) : Tail(s)[k] = s[k + 1]
            /\ Head(s) = s[1]
            /\ Len(s) >= 1
            BY <1>1, <1>3, HeadTailProperties, EmptySeq
      <2>2. \A k \in 1..Len(s) : k = 1 \/ k - 1 \in 1..Len(Tail(s))
            BY <1>1, <2>1
      <2>3. \A k \in 1..Len(Tail(s)) : k + 1 \in 1..Len(s)
            BY <1>1, <2>1
      <2>4. \A k \in 1..Len(s) : s[k] = Head(s) \/ s[k] = Tail(s)[k - 1]
            BY <1>1, <2>1, <2>2
      <2>5. SeqRange(s) \subseteq SeqRange(Tail(s)) \cup {Head(s)}
            BY <2>1, <2>2, <2>4 DEF SeqRange
      <2>6. SeqRange(Tail(s)) \cup {Head(s)} \subseteq SeqRange(s)
            BY <1>1, <2>1, <2>3 DEF SeqRange
      <2> QED
          BY <2>5, <2>6
<1> QED
    BY <1>1, <1>2, <1>3 DEF SeqRange
-----------------------------------------------------------------------------
(* The tree of blocks *)

\* A block's path leads from the genesis block to it (BlockIndex::parent).
LEMMA PathFacts ==
    ASSUME NEW b \in Block
    PROVE  /\ Path[b] \in Seq(Block)
           /\ Len(Path[b]) \in Nat \ {0}
           /\ Height(b) \in Nat /\ Len(Path[b]) = Height(b) + 1
           /\ Path[b][Height(b) + 1] = b
           /\ \A i \in 1..Len(Path[b]) : Path[b][i] \in Block
<1>1. Path[b] \in Seq(Block) /\ Len(Path[b]) \in Nat \ {0} /\ Path[b][Len(Path[b])] = b
      BY TreeAssumption
<1>2. \A i \in 1..Len(Path[b]) : Path[b][i] \in Block
      BY <1>1, ElementOfSeq
<1>3. Height(b) \in Nat /\ Len(Path[b]) = Height(b) + 1
      BY <1>1 DEF Height
<1> QED
    BY <1>1, <1>2, <1>3

\* The path of a block on a path is the beginning of it.
LEMMA OnPath ==
    ASSUME NEW b \in Block, NEW i \in 1..Height(b) + 1
    PROVE  /\ Path[b][i] \in Block
           /\ Height(Path[b][i]) = i - 1
           /\ \A j \in 1..i : Path[Path[b][i]][j] = Path[b][j]
<1>1. /\ Path[b] \in Seq(Block) /\ Len(Path[b]) = Height(b) + 1 /\ Height(b) \in Nat
      /\ i \in 1..Len(Path[b]) /\ Path[b][i] \in Block /\ i \in Nat
      BY PathFacts
<1>2. Path[Path[b][i]] = SubSeq(Path[b], 1, i)
      BY <1>1, TreeAssumption
<1>3. Len(SubSeq(Path[b], 1, i)) = i /\ \A j \in 1..i : SubSeq(Path[b], 1, i)[j] = Path[b][j]
      <2>1. \A j \in 1..i : Path[b][j] \in Block
            BY <1>1, PathFacts
      <2>2. /\ Len(SubSeq(Path[b], 1, i)) = IF 1 <= i THEN i - 1 + 1 ELSE 0
            /\ \A j \in 1..i - 1 + 1 : SubSeq(Path[b], 1, i)[j] = Path[b][1 + j - 1]
            BY <1>1, <2>1, SubSeqProperties
      <2>3. \A j \in 1..i : j \in 1..i - 1 + 1 /\ 1 + j - 1 = j
            BY <1>1
      <2> QED
          BY <1>1, <2>2, <2>3
<1> QED
    BY <1>1, <1>2, <1>3 DEF Height

\* An ancestor of an ancestor is one (BlockIndex::getAncestor).
LEMMA AncestorFacts ==
    ASSUME NEW a \in Block, NEW b \in Block, IsAncestor(a, b)
    PROVE  /\ Height(a) \in 0..Height(b)
           /\ \A j \in 1..Height(a) + 1 : Path[a][j] = Path[b][j]
           /\ \A x \in Block : IsAncestor(x, a) => IsAncestor(x, b)
           /\ \A x \in Block : IsAncestor(x, b) /\ Height(x) <= Height(a) => IsAncestor(x, a)
<1>1. /\ Height(a) \in Nat /\ Height(b) \in Nat /\ Height(a) <= Height(b)
      /\ Path[b][Height(a) + 1] = a /\ Height(a) + 1 \in 1..Height(b) + 1
      BY PathFacts DEF IsAncestor
<1>2. \A j \in 1..Height(a) + 1 : Path[a][j] = Path[b][j]
      BY <1>1, OnPath
<1>3. \A x \in Block : Height(x) \in Nat
      BY PathFacts
<1>4. ASSUME NEW x \in Block, Height(x) <= Height(a)
      PROVE  Path[a][Height(x) + 1] = Path[b][Height(x) + 1] /\ Height(x) <= Height(b)
      <2>1. Height(x) + 1 \in 1..Height(a) + 1 /\ Height(x) <= Height(b)
            BY <1>1, <1>3, <1>4
      <2> QED
          BY <2>1, <1>2
<1> QED
    BY <1>1, <1>2, <1>4 DEF IsAncestor

\* A block is its own ancestor, its other ancestors are its parent's.
LEMMA ParentFacts ==
    ASSUME NEW b \in Block
    PROVE  /\ IsAncestor(b, b)
           /\ Height(b) = 0 => b = Genesis
           /\ b # Genesis => Height(b) >= 1
           /\ Height(b) >= 1 =>
                /\ Parent(b) \in Block
                /\ Height(Parent(b)) = Height(b) - 1
                /\ IsAncestor(Parent(b), b)
                /\ \A x \in Block : IsAncestor(x, b) => x = b \/ IsAncestor(x, Parent(b))
<1>1. /\ Height(b) \in Nat /\ Path[b][Height(b) + 1] = b /\ Len(Path[b]) = Height(b) + 1
      /\ Path[b][1] = Genesis
      BY PathFacts, TreeAssumption
<1>2. IsAncestor(b, b)
      BY <1>1 DEF IsAncestor
<1>3. Height(b) = 0 => b = Genesis
      BY <1>1
<1>4. ASSUME Height(b) >= 1
      PROVE  /\ Parent(b) \in Block
             /\ Height(Parent(b)) = Height(b) - 1
             /\ IsAncestor(Parent(b), b)
             /\ \A x \in Block : IsAncestor(x, b) => x = b \/ IsAncestor(x, Parent(b))
      <2>1. Parent(b) = Path[b][Height(b)]
            BY <1>1 DEF Parent
      <2>2. Height(b) \in 1..Height(b) + 1
            BY <1>1, <1>4
      <2>3. Parent(b) \in Block /\ Height(Parent(b)) = Height(b) - 1
            BY <2>1, <2>2, OnPath
      <2>4. IsAncestor(Parent(b), b)
            BY <2>1, <2>3, <1>1, <1>4 DEF IsAncestor
      <2>5. ASSUME NEW x \in Block, IsAncestor(x, b), x # b
            PROVE  IsAncestor(x, Parent(b))
            <3>1. Height(x) \in Nat /\ Height(x) <= Height(b) /\ Path[b][Height(x) + 1] = x
                  BY <2>5, PathFacts DEF IsAncestor
            <3>2. Height(x) # Height(b)
                  BY <3>1, <2>5, <1>1
            <3>3. Height(x) <= Height(Parent(b))
                  BY <3>1, <3>2, <2>3, <1>1
            <3> QED
                BY <3>3, <2>3, <2>4, <2>5, AncestorFacts
      <2> QED
          BY <2>3, <2>4, <2>5
<1> QED
    BY <1>1, <1>2, <1>3, <1>4

\* Two blocks have a last common ancestor (BlockIndex::findLastCommonAncestor).
LEMMA CommonAncestorFacts ==
    ASSUME NEW x \in Block, NEW y \in Block
    PROVE  /\ LastCommonAncestor(x, y) \in Block
           /\ IsAncestor(LastCommonAncestor(x, y), x)
           /\ IsAncestor(LastCommonAncestor(x, y), y)
<1> DEFINE C == {b \in Block : IsCommonAncestor(b, x, y)}
           T == {Height(b) : b \in C}
<1>1. \A b \in C : Height(b) \in Nat /\ Height(b) <= Height(x)
      BY PathFacts DEF IsCommonAncestor, IsAncestor
<1>2. Genesis \in C
      <2>1. Genesis \in Block /\ Height(Genesis) = 0 /\ Path[x][1] = Genesis /\ Path[y][1] = Genesis
            <3>1. Genesis \in Block /\ Path[Genesis] = <<Genesis>>
                  BY TreeAssumption
            <3>2. Len(Path[Genesis]) = 1
                  BY <3>1
            <3> QED
                BY <3>1, <3>2, TreeAssumption DEF Height
      <2>2. Height(x) \in Nat /\ Height(y) \in Nat
            BY PathFacts
      <2> QED
          BY <2>1, <2>2 DEF IsCommonAncestor, IsAncestor
<1>3. T \subseteq Nat /\ T # {} /\ Height(x) \in Nat /\ \A h \in T : h <= Height(x)
      BY <1>1, <1>2, PathFacts
<1>4. PICK h \in T : \A k \in T : k <= h
      <2> HIDE DEF T
      <2> QED
          BY <1>3, Highest
<1>5. PICK a \in C : Height(a) = h
      BY <1>4
<1>6. IsLastCommonAncestor(a, x, y)
      BY <1>4, <1>5 DEF IsLastCommonAncestor
<1>7. LastCommonAncestor(x, y) = CHOOSE b \in Block : IsLastCommonAncestor(b, x, y)
      BY DEF LastCommonAncestor
<1>8. LastCommonAncestor(x, y) \in Block /\ IsLastCommonAncestor(LastCommonAncestor(x, y), x, y)
      BY <1>6, <1>7
<1> QED
    BY <1>8 DEF IsLastCommonAncestor, IsCommonAncestor

\* The blocks after an ancestor, in order of height (the loop of
\* BlockSynchronizerImpl::findBlocksToDownload).
LEMMA BetweenFacts ==
    ASSUME NEW a \in Block, NEW b \in Block, IsAncestor(a, b)
    PROVE  /\ Between(a, b) \in Seq(Block)
           /\ Len(Between(a, b)) = Height(b) - Height(a)
           /\ \A k \in 1..Height(b) - Height(a) :
                /\ Between(a, b)[k] = Path[b][Height(a) + 1 + k]
                /\ Height(Between(a, b)[k]) = Height(a) + k
                /\ IsAncestor(Between(a, b)[k], b)
           /\ Len(Between(a, b)) # 0 => Between(a, b)[Len(Between(a, b))] = b
<1> DEFINE s == Between(a, b)
           n == Height(b) - Height(a)
<1>1. /\ Height(a) \in Nat /\ Height(b) \in Nat /\ Height(a) <= Height(b)
      /\ Path[b][Height(b) + 1] = b /\ n \in Nat
      BY PathFacts DEF IsAncestor
<1>2. \A i \in Height(a) + 2..Height(b) + 1 : Path[b][i] \in Block
      BY <1>1, PathFacts
<1>3. /\ s \in Seq(Block)
      /\ Len(s) = IF Height(a) + 2 <= Height(b) + 1
                  THEN (Height(b) + 1) - (Height(a) + 2) + 1 ELSE 0
      /\ \A k \in 1..(Height(b) + 1) - (Height(a) + 2) + 1 :
            s[k] = Path[b][Height(a) + 2 + k - 1]
      BY <1>1, <1>2, SubSeqProperties DEF Between
<1>4. Len(s) = n
      BY <1>1, <1>3
<1>5. ASSUME NEW k \in 1..n
      PROVE  /\ s[k] = Path[b][Height(a) + 1 + k]
             /\ Height(s[k]) = Height(a) + k
             /\ IsAncestor(s[k], b)
      <2>1. /\ k \in 1..(Height(b) + 1) - (Height(a) + 2) + 1
            /\ Height(a) + 2 + k - 1 = Height(a) + 1 + k
            /\ Height(a) + 1 + k \in 1..Height(b) + 1
            /\ Height(a) + 1 + k - 1 = Height(a) + k
            /\ Height(a) + k <= Height(b) /\ (Height(a) + k) + 1 = Height(a) + 1 + k
            BY <1>1
      <2>2. s[k] = Path[b][Height(a) + 1 + k]
            BY <2>1, <1>3
      <2>3. Height(Path[b][Height(a) + 1 + k]) = Height(a) + k
            <3> DEFINE i == Height(a) + 1 + k
            <3>1. i \in 1..Height(b) + 1 /\ i - 1 = Height(a) + k
                  BY <1>1, <2>1
            <3> HIDE DEF i
            <3>2. Height(Path[b][i]) = i - 1
                  BY <3>1, OnPath
            <3> QED
                BY <3>1, <3>2 DEF i
      <2> QED
          BY <2>1, <2>2, <2>3 DEF IsAncestor
<1>6. n # 0 => s[n] = b
      <2> SUFFICES ASSUME n # 0
                   PROVE  s[n] = b
          OBVIOUS
      <2>1. n \in 1..n /\ Height(a) + 1 + n = Height(b) + 1
            BY <1>1
      <2> QED
          BY <2>1, <1>1, <1>5
<1> QED
    BY <1>3, <1>4, <1>5, <1>6
-----------------------------------------------------------------------------
(* What is recorded of a node *)

\* The blocks we have or that wait for the disk thread.
Have == connected \cup SeqRange(arrived)

\* Sync info i and the unanswered requests q of one node: the record is what q
\* asks for, in order of height, and with what we have it is all that a recorded
\* block needs.
AsksFor(i, q) == i.requesting = {q[k].block : k \in BlocksAsked(q)}

Ascends(q) ==
    \A j, k \in BlocksAsked(q) : j < k => Height(q[j].block) < Height(q[k].block)

NoGap(i, have) ==
    /\ \A b \in i.requesting : b # Genesis
    /\ \A b \in i.requesting : \A a \in Block :
          IsAncestor(a, b) => a \in have \cup i.requesting
    /\ i.lastCommon # NoBlock => \A a \in Block :
          IsAncestor(a, i.lastCommon) => a \in have \cup i.requesting

Recorded(i, q, have) ==
    /\ i \in SyncInfo
    /\ q \in Seq(Request)
    /\ AsksFor(i, q)
    /\ Ascends(q)
    /\ NoGap(i, have)

HeadersOK == known \subseteq Block /\ bestHeader \in known

BlocksOK ==
    /\ connected \subseteq Block
    /\ tip \in connected
    /\ arrived \in Seq(Block)
    /\ Genesis \in connected
    /\ \A b \in connected, a \in Block : IsAncestor(a, b) => a \in connected
    /\ ParentFirst
    /\ \A k \in 1..Len(arrived) : arrived[k] # Genesis

ChoiceOK ==
    /\ nodes \subseteq Node
    /\ requester \in nodes \cup {NoNode}
    /\ requesting \in BOOLEAN
    /\ info \in [Node -> SyncInfo]
    /\ asked \in [Node -> Seq(Request)]
    /\ \A n \in Node : Recorded(info[n], asked[n], Have)

RemoteOK == peerBest \in [Node -> Block] /\ mute \subseteq nodes

FailedOK == failed \in {"none", "Validator:150"}

DownloadInv == HeadersOK /\ BlocksOK /\ ChoiceOK /\ RemoteOK /\ FailedOK

\* A request for headers leaves the record of blocks as it is
\* (BlockSynchronizerImpl::requestHeaders).
LEMMA AskingHeaders ==
    ASSUME NEW i, NEW q, NEW have, Recorded(i, q, have), NEW b \in Block
    PROVE  Recorded(i, Append(q, AskHeaders(b)), have)
<1> DEFINE r == AskHeaders(b)
           t == Append(q, r)
<1>1. q \in Seq(Request) /\ r \in Request /\ r.op = "getheaders" /\ Len(q) \in Nat
      BY DEF Recorded, AskHeaders, Request
<1> HIDE DEF r
<1>2. /\ t \in Seq(Request) /\ Len(t) = Len(q) + 1 /\ t[Len(q) + 1] = r
      /\ \A k \in 1..Len(q) : t[k] = q[k]
      BY <1>1, AppendProperties
<1> HIDE DEF t
<1>3. BlocksAsked(t) = BlocksAsked(q) /\ \A k \in BlocksAsked(q) : t[k] = q[k]
      <2>1. \A k \in 1..Len(t) : k \in 1..Len(q) \/ k = Len(q) + 1
            BY <1>1, <1>2
      <2>2. \A k \in 1..Len(q) : k \in 1..Len(t)
            BY <1>1, <1>2
      <2> QED
          BY <2>1, <2>2, <1>1, <1>2 DEF BlocksAsked
<1>4. Recorded(i, t, have)
      BY <1>2, <1>3 DEF Recorded, AsksFor, Ascends
<1> QED
    BY <1>4 DEF t, r

\* An answer is taken off the requests: of headers, the record stays as it is; of a
\* block, it is the lowest recorded one, and its parent is not recorded any more
\* (BlockSynchronizerImpl::removeBlockRecord).
LEMMA Answering ==
    ASSUME NEW i, NEW q, NEW have \in SUBSET Block, Recorded(i, q, have), q # <<>>
    PROVE  /\ Head(q) \in Request
           /\ Head(q).op = "getheaders" => Recorded(i, Tail(q), have)
           /\ Head(q).op = "getdata" =>
                LET b == Head(q).block
                    j == [i EXCEPT !.requesting = @ \ {b}]
                IN  /\ b \in i.requesting /\ b # Genesis
                    /\ Parent(b) \in have
                    /\ Recorded(j, Tail(q), have \cup {b})
<1> DEFINE r == Head(q)
           t == Tail(q)
           b == r.block
           j == [i EXCEPT !.requesting = @ \ {b}]
<1>1. i \in SyncInfo /\ q \in Seq(Request) /\ AsksFor(i, q) /\ Ascends(q) /\ NoGap(i, have)
      BY DEF Recorded
<1>2. /\ r = q[1] /\ r \in Request /\ t \in Seq(Request)
      /\ Len(q) \in Nat /\ Len(q) >= 1 /\ Len(t) = Len(q) - 1
      /\ \A k \in 1..Len(t) : t[k] = q[k + 1]
      BY <1>1, HeadTailProperties, EmptySeq
<1> HIDE DEF r, t
<1>3. /\ \A k \in 1..Len(t) : k + 1 \in 1..Len(q) /\ k + 1 # 1
      /\ \A k \in 1..Len(q) : k # 1 => k - 1 \in 1..Len(t) /\ t[k - 1] = q[k]
      <2>1. \A k \in 1..Len(q) : k # 1 => k - 1 \in 1..Len(t) /\ (k - 1) + 1 = k
            BY <1>2
      <2>2. \A k \in 1..Len(t) : k + 1 \in 1..Len(q) /\ k + 1 # 1
            BY <1>2
      <2> QED
          BY <2>1, <2>2, <1>2
<1>4. /\ \A k \in BlocksAsked(t) : k \in Nat /\ k + 1 \in BlocksAsked(q) /\ k + 1 # 1 /\ t[k] = q[k + 1]
      /\ \A k \in BlocksAsked(q) : k # 1 => k - 1 \in BlocksAsked(t) /\ t[k - 1] = q[k]
      BY <1>2, <1>3 DEF BlocksAsked
<1>5. Ascends(t)
      BY <1>1, <1>4 DEF Ascends
<1>6. ASSUME r.op = "getheaders"
      PROVE  Recorded(i, t, have)
      <2>1. 1 \notin BlocksAsked(q)
            BY <1>2, <1>6 DEF BlocksAsked
      <2>2. AsksFor(i, t)
            BY <2>1, <1>1, <1>4 DEF AsksFor
      <2> QED
          BY <2>2, <1>1, <1>2, <1>5 DEF Recorded
<1>7. ASSUME r.op = "getdata"
      PROVE  /\ b \in i.requesting /\ b # Genesis
             /\ Parent(b) \in have
             /\ Recorded(j, t, have \cup {b})
      <2>1. 1 \in BlocksAsked(q) /\ b = q[1].block /\ b \in Block
            BY <1>2, <1>7 DEF BlocksAsked, Request
      <2>2. b \in i.requesting /\ b # Genesis
            BY <2>1, <1>1 DEF AsksFor, NoGap
      <2>3. \A k \in BlocksAsked(t) : Height(b) < Height(t[k].block)
            <3> SUFFICES ASSUME NEW k \in BlocksAsked(t)
                         PROVE  Height(b) < Height(t[k].block)
                OBVIOUS
            <3>1. k + 1 \in BlocksAsked(q) /\ 1 < k + 1 /\ t[k] = q[k + 1]
                  BY <1>4, <1>2 DEF BlocksAsked
            <3> QED
                BY <3>1, <2>1, <1>1 DEF Ascends
      <2>4. \A k \in BlocksAsked(t) : t[k].block \in Block
            <3>1. \A k \in BlocksAsked(t) : t[k] \in Request
                  BY <1>2, ElementOfSeq DEF BlocksAsked
            <3> QED
                BY <3>1 DEF Request
      <2>5. i.requesting = {t[k].block : k \in BlocksAsked(t)} \cup {b}
            BY <1>1, <1>4, <2>1 DEF AsksFor
      <2>6. /\ j \in SyncInfo /\ j.requesting = i.requesting \ {b}
            /\ j.lastCommon = i.lastCommon
            BY <1>1 DEF SyncInfo
      <2>7. b \notin {t[k].block : k \in BlocksAsked(t)}
            BY <2>1, <2>3, PathFacts
      <2>8. AsksFor(j, t)
            BY <2>5, <2>6, <2>7 DEF AsksFor
      <2>9. (have \cup {b}) \cup j.requesting = have \cup i.requesting
            BY <2>2, <2>6
      <2>10. NoGap(j, have \cup {b})
            BY <1>1, <2>6, <2>9 DEF NoGap
      <2>11. Recorded(j, t, have \cup {b})
            BY <1>2, <1>5, <2>6, <2>8, <2>10 DEF Recorded
      <2>12. Parent(b) \in have
            <3>1. /\ Parent(b) \in Block /\ Height(Parent(b)) = Height(b) - 1
                  /\ IsAncestor(Parent(b), b) /\ Height(b) \in Nat
                  BY <2>1, <2>2, ParentFacts, PathFacts
            <3>2. Parent(b) \in have \cup i.requesting
                  BY <3>1, <2>2, <1>1 DEF NoGap
            <3>3. Parent(b) # b
                  BY <3>1
            <3>4. \A k \in BlocksAsked(t) : t[k].block # Parent(b)
                  <4> SUFFICES ASSUME NEW k \in BlocksAsked(t), t[k].block = Parent(b)
                               PROVE  FALSE
                      OBVIOUS
                  <4>1. Height(b) < Height(b) - 1
                        BY <2>3, <3>1
                  <4> QED
                      BY <4>1, <3>1
            <3> QED
                BY <3>2, <3>3, <3>4, <2>5
      <2> QED
          BY <2>2, <2>11, <2>12
<1> QED
    BY <1>2, <1>6, <1>7 DEF r, t
-----------------------------------------------------------------------------
(* Requesting blocks *)

\* What is requested next starts after a block we have with all its ancestors, and
\* ends on the same branch (BlockSynchronizerImpl::findBlocksToDownload).
LEMMA BatchFacts ==
    ASSUME NEW i, NEW q, NEW have, Recorded(i, q, have), Requests(i),
           tip \in Block, \A a \in Block : IsAncestor(a, tip) => a \in have
    PROVE  /\ LastCommon(i) \in Block
           /\ \A a \in Block : IsAncestor(a, LastCommon(i)) => a \in have
           /\ BatchEnd(i) \in Block
           /\ IsAncestor(LastCommon(i), BatchEnd(i))
<1> DEFINE best == i.bestKnown
           c == LastCommon(i)
           start == IF i.lastCommon = NoBlock THEN FirstGuess(best) ELSE i.lastCommon
<1>1. /\ i \in SyncInfo /\ i.requesting = {} /\ best \in Block /\ NoGap(i, have)
      BY DEF Recorded, Requests, Interesting, SyncInfo
<1>2. start \in Block /\ \A a \in Block : IsAncestor(a, start) => a \in have
      <2>1. CASE i.lastCommon = NoBlock
            <3> DEFINE h == IF Height(best) < Height(tip) THEN Height(best) ELSE Height(tip)
            <3>1. h \in Nat /\ h <= Height(tip) /\ h + 1 \in 1..Height(tip) + 1 /\ (h + 1) - 1 = h
                  BY <1>1, PathFacts
            <3>2. start = Path[tip][h + 1]
                  <4>1. start = Path[tip][1 + h]
                        BY <2>1 DEF FirstGuess
                  <4>2. 1 + h = h + 1
                        BY <3>1
                  <4> HIDE DEF start, h
                  <4> QED
                      BY <4>1, <4>2
            <3> HIDE DEF h, start
            <3>3. start \in Block /\ Height(start) = h
                  <4> DEFINE k == h + 1
                  <4>1. k \in 1..Height(tip) + 1 /\ k - 1 = h
                        BY <3>1
                  <4> HIDE DEF k
                  <4>2. Path[tip][k] \in Block /\ Height(Path[tip][k]) = k - 1
                        BY <4>1, OnPath
                  <4> QED
                      BY <4>1, <4>2, <3>2 DEF k
            <3>4. IsAncestor(start, tip)
                  BY <3>1, <3>2, <3>3 DEF IsAncestor
            <3> QED
                BY <3>3, <3>4, AncestorFacts
      <2>2. CASE i.lastCommon # NoBlock
            <3>1. start = i.lastCommon /\ i.lastCommon \in Block
                  BY <2>2, <1>1 DEF SyncInfo
            <3> QED
                BY <3>1, <2>2, <1>1 DEF NoGap
      <2> QED
          BY <2>1, <2>2
<1>3. c = LastCommonAncestor(start, best)
      BY DEF LastCommon
<1> HIDE DEF start, c
<1>4. c \in Block /\ IsAncestor(c, start) /\ IsAncestor(c, best)
      BY <1>1, <1>2, <1>3, CommonAncestorFacts
<1>5. \A a \in Block : IsAncestor(a, c) => a \in have
      BY <1>2, <1>4, AncestorFacts
<1>6. BatchEnd(i) \in Block /\ IsAncestor(c, BatchEnd(i))
      <2> DEFINE h == Height(c) + BatchSize
      <2>1. BatchEnd(i) = IF h < Height(best) THEN Path[best][h + 1] ELSE best
            BY DEF BatchEnd, c
      <2>2. h \in Nat /\ Height(c) \in Nat /\ Height(best) \in Nat /\ Height(c) <= h
            BY <1>1, <1>4, PathFacts, SyncAssumption
      <2> HIDE DEF h
      <2>3. CASE h < Height(best)
            <3> DEFINE k == h + 1
            <3>1. k \in 1..Height(best) + 1 /\ k - 1 = h
                  BY <2>2, <2>3
            <3>2. BatchEnd(i) = Path[best][k]
                  BY <2>1, <2>3
            <3> HIDE DEF k
            <3>3. BatchEnd(i) \in Block /\ Height(BatchEnd(i)) = h
                  BY <3>1, <3>2, <1>1, OnPath
            <3>4. IsAncestor(BatchEnd(i), best)
                  BY <3>1, <3>2, <3>3, <2>2, <2>3 DEF IsAncestor, k
            <3> QED
                BY <3>3, <3>4, <2>2, <1>1, <1>4, AncestorFacts
      <2>4. CASE ~ (h < Height(best))
            BY <2>1, <2>4, <1>1, <1>4
      <2> QED
          BY <2>3, <2>4
<1> QED
    BY <1>4, <1>5, <1>6 DEF c

\* The requests for the blocks w.
AsksOf(w) == [k \in 1..Len(w) |-> AskBlock(w[k])]

\* checkRequestBlocks keeps the record: a batch is requested only when nothing is
\* outstanding, and it leaves no gap.
LEMMA RequestingBlocks ==
    ASSUME NEW i, NEW q, NEW have, Recorded(i, q, have),
           tip \in Block, \A a \in Block : IsAncestor(a, tip) => a \in have
    PROVE  /\ Recorded(Requested(i, Wanted(i)), q \o AsksOf(Wanted(i)), have)
           /\ Wanted(i) # <<>> => i.requesting = {}
<1> DEFINE w == Wanted(i)
           asks == AsksOf(w)
           j == Requested(i, w)
           t == q \o asks
<1>1. i \in SyncInfo /\ q \in Seq(Request) /\ AsksFor(i, q) /\ Ascends(q) /\ NoGap(i, have)
      BY DEF Recorded
<1>2. CASE ~ Requests(i)
      <2>1. w = <<>> /\ j = i
            BY <1>2 DEF Wanted, Requested
      <2>2. asks = <<>>
            BY <2>1 DEF AsksOf
      <2>3. t = q
            BY <2>2, <1>1
      <2> QED
          BY <2>1, <2>3
<1>3. CASE Requests(i)
      <2> DEFINE c == LastCommon(i)
                 e == BatchEnd(i)
                 n == Height(e) - Height(c)
      <2>1. /\ c \in Block /\ e \in Block /\ IsAncestor(c, e)
            /\ \A a \in Block : IsAncestor(a, c) => a \in have
            BY <1>3, BatchFacts
      <2>2. w = Between(c, e) /\ i.requesting = {}
            BY <1>3 DEF Wanted, Requests
      <2> HIDE DEF c, e
      <2>3. /\ Height(c) \in Nat /\ Height(e) \in Nat /\ n \in Nat
            /\ w \in Seq(Block) /\ Len(w) = n
            /\ \A k \in 1..n : /\ w[k] = Path[e][Height(c) + 1 + k]
                               /\ Height(w[k]) = Height(c) + k
                               /\ IsAncestor(w[k], e)
            <3>1. Height(c) \in Nat /\ Height(e) \in Nat /\ Height(c) <= Height(e)
                  BY <2>1, PathFacts DEF IsAncestor
            <3> QED
                BY <3>1, <2>1, <2>2, BetweenFacts
      <2> HIDE DEF w, n
      <2>4. \A k \in 1..n : w[k] \in Block /\ w[k] # Genesis
            <3>1. \A k \in 1..n : w[k] \in Block /\ Height(w[k]) # 0
                  BY <2>3, ElementOfSeq
            <3>2. Height(Genesis) = 0
                  <4>1. Path[Genesis] = <<Genesis>>
                        BY TreeAssumption
                  <4> QED
                      BY <4>1 DEF Height
            <3> QED
                BY <3>1, <3>2
      <2>5. asks = [k \in 1..n |-> AskBlock(w[k])]
            BY <2>3 DEF AsksOf
      <2>6. /\ asks \in Seq(Request) /\ Len(asks) = n
            /\ \A k \in 1..n : asks[k].op = "getdata" /\ asks[k].block = w[k]
            <3>1. \A k \in 1..n : AskBlock(w[k]) \in Request
                  BY <2>4 DEF AskBlock, Request
            <3>2. asks \in Seq(Request) /\ Len(asks) = n
                  BY <2>3, <2>5, <3>1
            <3>3. \A k \in 1..n : asks[k] = AskBlock(w[k])
                  BY <2>5
            <3> QED
                BY <3>2, <3>3 DEF AskBlock
      <2> HIDE DEF asks
      <2>7. /\ t \in Seq(Request) /\ Len(t) = Len(q) + n /\ Len(q) \in Nat
            /\ \A k \in 1..Len(q) : t[k] = q[k]
            /\ \A k \in 1..n : t[Len(q) + k] = asks[k]
            <3>1. /\ t \in Seq(Request) /\ Len(t) = Len(q) + Len(asks)
                  /\ \A k \in 1..Len(q) + Len(asks) :
                        t[k] = IF k <= Len(q) THEN q[k] ELSE asks[k - Len(q)]
                  BY <1>1, <2>6, ConcatProperties
            <3>2. Len(q) \in Nat
                  BY <1>1
            <3>3. \A k \in 1..n : /\ Len(q) + k \in 1..Len(q) + Len(asks)
                                  /\ ~ (Len(q) + k <= Len(q)) /\ (Len(q) + k) - Len(q) = k
                  BY <2>3, <2>6, <3>2
            <3>4. \A k \in 1..Len(q) : k <= Len(q) /\ k \in 1..Len(q) + Len(asks)
                  BY <2>3, <2>6, <3>2
            <3> QED
                BY <2>6, <3>1, <3>2, <3>3, <3>4
      <2> HIDE DEF t
      <2>8. \A k \in 1..Len(q) : q[k].op # "getdata"
            BY <2>2, <1>1 DEF AsksFor, BlocksAsked
      <2>9. BlocksAsked(t) = {Len(q) + k : k \in 1..n}
            <3>1. \A k \in 1..Len(t) : k \in 1..Len(q) \/ (k - Len(q) \in 1..n /\ k = Len(q) + (k - Len(q)))
                  BY <2>3, <2>7
            <3>2. \A k \in 1..n : Len(q) + k \in 1..Len(t)
                  BY <2>3, <2>7
            <3>3. BlocksAsked(t) \subseteq {Len(q) + k : k \in 1..n}
                  BY <2>7, <2>8, <3>1 DEF BlocksAsked
            <3>4. {Len(q) + k : k \in 1..n} \subseteq BlocksAsked(t)
                  BY <2>6, <2>7, <3>2 DEF BlocksAsked
            <3> QED
                BY <3>3, <3>4
      <2>10. Ascends(t)
            <3> SUFFICES ASSUME NEW x \in BlocksAsked(t), NEW y \in BlocksAsked(t), x < y
                         PROVE  Height(t[x].block) < Height(t[y].block)
                BY DEF Ascends
            <3>1. PICK k \in 1..n, m \in 1..n : x = Len(q) + k /\ y = Len(q) + m
                  BY <2>9
            <3>2. k < m
                  BY <3>1, <2>7
            <3>3. t[x].block = w[k] /\ t[y].block = w[m]
                  BY <3>1, <2>6, <2>7
            <3>4. Height(w[k]) = Height(c) + k /\ Height(w[m]) = Height(c) + m
                  BY <2>3
            <3> QED
                BY <3>2, <3>3, <3>4, <2>3
      <2>11. {t[k].block : k \in BlocksAsked(t)} = SeqRange(w)
            <3>1. \A k \in 1..n : t[Len(q) + k].block = w[k]
                  BY <2>6, <2>7
            <3>2. {t[k].block : k \in BlocksAsked(t)} = {w[k] : k \in 1..n}
                  BY <2>9, <3>1
            <3> QED
                BY <3>2, <2>3 DEF SeqRange
      <2>12. \A k \in 1..n : \A a \in Block :
                IsAncestor(a, w[k]) => a \in have \cup SeqRange(w)
            <3> SUFFICES ASSUME NEW k \in 1..n, NEW a \in Block, IsAncestor(a, w[k])
                         PROVE  a \in have \cup SeqRange(w)
                OBVIOUS
            <3>1. Height(a) \in Nat /\ IsAncestor(a, e) /\ Height(a) <= Height(c) + k
                  <4>1. w[k] \in Block /\ IsAncestor(w[k], e) /\ Height(w[k]) = Height(c) + k
                        BY <2>3, <2>4
                  <4>2. Height(a) \in Nat /\ Height(a) <= Height(w[k])
                        BY PathFacts DEF IsAncestor
                  <4>3. IsAncestor(a, e)
                        BY <4>1, <2>1, AncestorFacts
                  <4> QED
                      BY <4>1, <4>2, <4>3
            <3>2. CASE Height(a) <= Height(c)
                  BY <3>1, <3>2, <2>1, AncestorFacts
            <3>3. CASE ~ (Height(a) <= Height(c))
                  <4> DEFINE m == Height(a) - Height(c)
                  <4>1. m \in 1..n /\ Height(c) + 1 + m = Height(a) + 1
                        <5>1. k \in Nat /\ k <= n
                              BY <2>3
                        <5>2. Height(a) <= Height(c) + n
                              BY <5>1, <3>1, <2>3
                        <5>3. m \in Nat /\ m >= 1 /\ m <= n
                              BY <5>2, <3>1, <3>3, <2>3
                        <5> QED
                            BY <5>3, <3>1, <2>3
                  <4>2. w[m] = a
                        BY <4>1, <3>1, <2>3 DEF IsAncestor
                  <4> QED
                      BY <4>1, <4>2, <2>3 DEF SeqRange
            <3> QED
                BY <3>2, <3>3
      <2>13. /\ j \in SyncInfo
             /\ j.requesting = SeqRange(w)
             /\ n # 0 => j.lastCommon = w[n]
             /\ n = 0 => j.lastCommon = c
            <3>1. CASE n = 0
                  <4>1. w = <<>> /\ SeqRange(w) = {}
                        BY <2>3, <3>1, EmptySeq DEF SeqRange
                  <4>2. j = [i EXCEPT !.lastCommon = c]
                        BY <4>1, <1>3 DEF Requested, c
                  <4> QED
                      BY <4>1, <4>2, <3>1, <2>1, <2>2, <1>1 DEF SyncInfo
            <3>2. CASE n # 0
                  <4>1. w # <<>> /\ n \in 1..n /\ w[n] \in Block /\ SeqRange(w) \subseteq Block
                        BY <2>3, <2>4, <3>2, EmptySeq DEF SeqRange
                  <4>2. j = [i EXCEPT !.lastCommon = w[n], !.lastDownload = w[n],
                                      !.requesting = i.requesting \cup SeqRange(w)]
                        BY <4>1, <2>3, <1>3 DEF Requested
                  <4> QED
                      BY <4>1, <4>2, <3>2, <2>2, <1>1 DEF SyncInfo
            <3> QED
                BY <3>1, <3>2
      <2> HIDE DEF j
      <2>14. NoGap(j, have)
            <3>1. \A b \in SeqRange(w) : b # Genesis /\ \A a \in Block :
                        IsAncestor(a, b) => a \in have \cup SeqRange(w)
                  BY <2>3, <2>4, <2>12 DEF SeqRange
            <3>2. \A a \in Block : IsAncestor(a, j.lastCommon) => a \in have \cup SeqRange(w)
                  <4>1. CASE n = 0
                        BY <4>1, <2>1, <2>13
                  <4>2. CASE n # 0
                        <5>1. n \in 1..n
                              BY <4>2, <2>3
                        <5> QED
                            BY <5>1, <4>2, <2>12, <2>13
                  <4> QED
                      BY <4>1, <4>2
            <3> QED
                BY <3>1, <3>2, <2>13 DEF NoGap
      <2>15. AsksFor(j, t)
            BY <2>11, <2>13 DEF AsksFor
      <2>16. Recorded(j, t, have)
            BY <2>7, <2>10, <2>13, <2>14, <2>15 DEF Recorded
      <2> QED
          BY <2>2, <2>16 DEF j, t, asks, w
<1> QED
    BY <1>2, <1>3
-----------------------------------------------------------------------------
(* Choosing a requester *)

\* A handler's choice so far, with the records it goes with.
ChoiceSet == [nodes : SUBSET Node, requester : Node \cup {NoNode},
              requesting : BOOLEAN, asked : [Node -> Seq(Request)]]

Good(c, f, have) ==
    /\ c \in ChoiceSet
    /\ f \in [Node -> SyncInfo]
    /\ \A n \in Node : Recorded(f[n], c.asked[n], have)

\* A node that is forgotten has nothing recorded (BlockSynchronizerImpl::removeNode).
LEMMA NothingRecorded ==
    ASSUME NEW have
    PROVE  NewSyncInfo \in SyncInfo /\ Recorded(NewSyncInfo, <<>>, have)
<1>1. /\ NewSyncInfo \in SyncInfo /\ NewSyncInfo.requesting = {}
      /\ NewSyncInfo.lastCommon = NoBlock
      BY DEF NewSyncInfo, SyncInfo
<1>2. <<>> \in Seq(Request) /\ BlocksAsked(<<>>) = {}
      BY EmptySeq DEF BlocksAsked
<1>3. AsksFor(NewSyncInfo, <<>>) /\ Ascends(<<>>) /\ NoGap(NewSyncInfo, have)
      BY <1>1, <1>2 DEF AsksFor, Ascends, NoGap
<1> QED
    BY <1>1, <1>2, <1>3 DEF Recorded

\* A choice is the record of its fields: where a node is asked something.
LEMMA FieldsAsked ==
    ASSUME NEW c \in ChoiceSet, NEW n, NEW q
    PROVE  [c EXCEPT !.asked[n] = q]
                = [nodes |-> c.nodes, requester |-> c.requester,
                   requesting |-> c.requesting, asked |-> [c.asked EXCEPT ![n] = q]]
<1> DEFINE N == SUBSET Node
           R == Node \cup {NoNode}
           B == BOOLEAN
           A == [Node -> Seq(Request)]
<1>1. c \in [nodes : N, requester : R, requesting : B, asked : A]
      BY DEF ChoiceSet
<1> HIDE DEF N, R, B, A
<1> QED
    BY <1>1

\* Where a node is asked for headers (requestHeaders).
LEMMA FieldsRequested ==
    ASSUME NEW c \in ChoiceSet, NEW n, NEW q
    PROVE  [c EXCEPT !.asked[n] = q, !.requesting = TRUE]
                = [nodes |-> c.nodes, requester |-> c.requester, requesting |-> TRUE,
                   asked |-> [c.asked EXCEPT ![n] = q]]
<1> DEFINE N == SUBSET Node
           R == Node \cup {NoNode}
           B == BOOLEAN
           A == [Node -> Seq(Request)]
           new == [c.asked EXCEPT ![n] = q]
           e == [nodes |-> c.nodes, requester |-> c.requester,
                 requesting |-> c.requesting, asked |-> new]
<1>1. c \in [nodes : N, requester : R, requesting : B, asked : A]
      BY DEF ChoiceSet
<1> HIDE DEF N, R, B, A
<1>2. [c EXCEPT !.asked[n] = q] = e
      BY <1>1
<1>3. ASSUME NEW b
      PROVE  [c EXCEPT !.asked[n] = q, !.requesting = b]
                = [nodes |-> c.nodes, requester |-> c.requester, requesting |-> b, asked |-> new]
      <2>1. [c EXCEPT !.asked[n] = q, !.requesting = b]
                = [[c EXCEPT !.asked[n] = q] EXCEPT !.requesting = b]
            BY <1>1
      <2>2. [e EXCEPT !.requesting = b]
                = [nodes |-> c.nodes, requester |-> c.requester, requesting |-> b, asked |-> new]
            <3> HIDE DEF new
            <3> QED
                OBVIOUS
      <2> QED
          BY <1>2, <2>1, <2>2, Zenon
<1> QED
    BY <1>3, Zenon

\* Where a node is removed (removeNode).
LEMMA FieldsRemoved ==
    ASSUME NEW c \in ChoiceSet, NEW n, NEW q
    PROVE  [c EXCEPT !.nodes = @ \ {n}, !.asked[n] = q]
                = [nodes |-> c.nodes \ {n}, requester |-> c.requester,
                   requesting |-> c.requesting, asked |-> [c.asked EXCEPT ![n] = q]]
<1> DEFINE N == SUBSET Node
           R == Node \cup {NoNode}
           B == BOOLEAN
           A == [Node -> Seq(Request)]
           new == [c.asked EXCEPT ![n] = q]
           e == [nodes |-> c.nodes, requester |-> c.requester,
                 requesting |-> c.requesting, asked |-> new]
<1>1. c \in [nodes : N, requester : R, requesting : B, asked : A]
      BY DEF ChoiceSet
<1> HIDE DEF N, R, B, A
<1>2. [c EXCEPT !.asked[n] = q] = e
      BY <1>1
<1>3. ASSUME NEW p
      PROVE  [c EXCEPT !.nodes = p, !.asked[n] = q]
                = [nodes |-> p, requester |-> c.requester, requesting |-> c.requesting, asked |-> new]
      <2>1. [c EXCEPT !.nodes = p, !.asked[n] = q]
                = [[c EXCEPT !.asked[n] = q] EXCEPT !.nodes = p]
            BY <1>1
      <2>2. [e EXCEPT !.nodes = p]
                = [nodes |-> p, requester |-> c.requester, requesting |-> c.requesting, asked |-> new]
            <3> HIDE DEF new
            <3> QED
                OBVIOUS
      <2> QED
          BY <1>2, <2>1, <2>2, Zenon
<1> QED
    BY <1>3, Zenon

\* Where what the nodes are asked stays.
LEMMA FieldsKept ==
    ASSUME NEW c \in ChoiceSet, NEW n
    PROVE  /\ [c EXCEPT !.requesting = FALSE]
                = [nodes |-> c.nodes, requester |-> c.requester,
                   requesting |-> FALSE, asked |-> c.asked]
           /\ [c EXCEPT !.nodes = @ \cup {n}]
                = [nodes |-> c.nodes \cup {n}, requester |-> c.requester,
                   requesting |-> c.requesting, asked |-> c.asked]
<1> DEFINE N == SUBSET Node
           R == Node \cup {NoNode}
           B == BOOLEAN
           A == [Node -> Seq(Request)]
<1>1. c \in [nodes : N, requester : R, requesting : B, asked : A]
      BY DEF ChoiceSet
<1> HIDE DEF N, R, B, A
<1>2. ASSUME NEW b
      PROVE  [c EXCEPT !.requesting = b]
                = [nodes |-> c.nodes, requester |-> c.requester, requesting |-> b, asked |-> c.asked]
      BY <1>1
<1>3. ASSUME NEW p
      PROVE  [c EXCEPT !.nodes = p]
                = [nodes |-> p, requester |-> c.requester, requesting |-> c.requesting,
                   asked |-> c.asked]
      BY <1>1
<1>4. [c EXCEPT !.requesting = FALSE]
                = [nodes |-> c.nodes, requester |-> c.requester, requesting |-> FALSE, asked |-> c.asked]
      BY <1>2, Zenon
<1>5. [c EXCEPT !.nodes = @ \cup {n}]
                = [nodes |-> c.nodes \cup {n}, requester |-> c.requester,
                   requesting |-> c.requesting, asked |-> c.asked]
      BY <1>3, Zenon
<1> QED
    BY <1>4, <1>5, Zenon

\* requestHeaders changes what the requester is asked and nothing of its record.
LEMMA GoodRequest ==
    ASSUME NEW c, NEW f, NEW have, Good(c, f, have), NEW b \in Block
    PROVE  /\ Good(RequestHeaders(c, b), f, have)
           /\ RequestHeaders(c, b).nodes = c.nodes
           /\ RequestHeaders(c, b).requester = c.requester
<1> DEFINE n == c.requester
           q == Append(c.asked[n], AskHeaders(b))
           d == [c EXCEPT !.asked[n] = q, !.requesting = TRUE]
<1>1. CASE n = NoNode
      BY <1>1 DEF RequestHeaders
<1>2. CASE n # NoNode
      <2>1. RequestHeaders(c, b) = d
            BY <1>2 DEF RequestHeaders
      <2>2. n \in Node
            BY <1>2 DEF Good, ChoiceSet
      <2>3. Recorded(f[n], q, have)
            BY <2>2, AskingHeaders DEF Good
      <2>4. q \in Seq(Request)
            BY <2>3 DEF Recorded
      <2> HIDE DEF q
      <2> HIDE DEF n, d
      <2>5. d = [nodes |-> c.nodes, requester |-> c.requester, requesting |-> TRUE,
                 asked |-> [c.asked EXCEPT ![n] = q]]
            <3>1. c \in ChoiceSet
                  BY DEF Good
            <3>2. d = [c EXCEPT !.asked[n] = q, !.requesting = TRUE]
                  BY DEF d
            <3> QED
                BY <3>1, <3>2, FieldsRequested, ZenonT(60)
      <2>6. Good(d, f, have)
            <3>1. /\ c.nodes \in SUBSET Node /\ c.requester \in Node \cup {NoNode}
                  /\ c.asked \in [Node -> Seq(Request)]
                  BY DEF Good, ChoiceSet
            <3>2. [c.asked EXCEPT ![n] = q] \in [Node -> Seq(Request)]
                  BY <3>1, <2>2, <2>4
            <3>3. d \in ChoiceSet /\ d.asked = [c.asked EXCEPT ![n] = q]
                  BY <3>1, <3>2, <2>5 DEF ChoiceSet
            <3>4. \A m \in Node : Recorded(f[m], d.asked[m], have)
                  BY <3>1, <3>3, <2>2, <2>3 DEF Good
            <3> QED
                BY <3>3, <3>4 DEF Good
      <2> QED
          BY <2>1, <2>5, <2>6
<1> QED
    BY <1>1, <1>2

\* The start of a locator is a block.
LEMMA StartFacts ==
    ASSUME HeadersOK, BlocksOK
    PROVE  DefaultStart \in Block
<1>1. tip \in Block /\ bestHeader \in Block
      BY DEF HeadersOK, BlocksOK
<1>2. bestHeader # Genesis => Parent(bestHeader) \in Block
      BY <1>1, ParentFacts
<1> QED
    BY <1>1, <1>2 DEF DefaultStart

\* chooseHeadersRueqster asks the requester it has chosen.
LEMMA GoodChoose ==
    ASSUME HeadersOK, BlocksOK,
           NEW c, NEW f, NEW have, Good(c, f, have), NEW n \in c.nodes \cup {NoNode}
    PROVE  /\ Good(ChooseRequester(c, n), f, have)
           /\ ChooseRequester(c, n).nodes = c.nodes
           /\ ChooseRequester(c, n).requester = n
<1> DEFINE d == [c EXCEPT !.requester = n]
<1>1. DefaultStart \in Block
      BY StartFacts
<1>2. d = [nodes |-> c.nodes, requester |-> n, requesting |-> c.requesting,
           asked |-> c.asked]
      BY DEF Good, ChoiceSet
<1>3. n \in Node \cup {NoNode}
      BY DEF Good, ChoiceSet
<1> HIDE DEF d
<1>4. Good(d, f, have)
      BY <1>2, <1>3 DEF Good, ChoiceSet
<1>5. ChooseRequester(c, n) = RequestHeaders(d, DefaultStart)
      BY DEF ChooseRequester, d
<1> QED
    BY <1>1, <1>2, <1>4, <1>5, GoodRequest

\* The infos when the nodes in gone are forgotten.
Forgotten(f, gone) == [n \in Node |-> IF n \in gone THEN NewSyncInfo ELSE f[n]]

\* removeNode forgets the requests of the node with its record, and another node
\* is asked for headers if it was the requester.
LEMMA GoodRemoved ==
    ASSUME HeadersOK, BlocksOK,
           NEW c, NEW f, NEW have, Good(c, f, have),
           c.requester \in c.nodes \cup {NoNode},
           NEW n \in Node, NEW r \in (c.nodes \ {n}) \cup {NoNode}
    PROVE  /\ Good(Removed(c, n, r), Forgotten(f, {n}), have)
           /\ Removed(c, n, r).nodes = c.nodes \ {n}
           /\ Removed(c, n, r).requester \in (c.nodes \ {n}) \cup {NoNode}
<1> DEFINE d == [c EXCEPT !.nodes = @ \ {n}, !.asked[n] = <<>>]
           g == Forgotten(f, {n})
<1>1. d = [nodes |-> c.nodes \ {n}, requester |-> c.requester,
           requesting |-> c.requesting, asked |-> [c.asked EXCEPT ![n] = <<>>]]
      <2>1. c \in ChoiceSet
            BY DEF Good
      <2> HIDE DEF d
      <2>2. d = [c EXCEPT !.nodes = @ \ {n}, !.asked[n] = <<>>]
            BY DEF d
      <2> QED
          BY <2>1, <2>2, FieldsRemoved, ZenonT(60)
<1>2. /\ g \in [Node -> SyncInfo] /\ g[n] = NewSyncInfo
      /\ \A m \in Node : m # n => g[m] = f[m]
      BY NothingRecorded DEF Forgotten, Good
<1>3. /\ d.asked \in [Node -> Seq(Request)] /\ d.asked[n] = <<>>
      /\ \A m \in Node : m # n => d.asked[m] = c.asked[m]
      <2>1. c.asked \in [Node -> Seq(Request)] /\ <<>> \in Seq(Request)
            BY EmptySeq DEF Good, ChoiceSet
      <2> HIDE DEF d
      <2> QED
          BY <1>1, <2>1
<1>4. c.nodes \subseteq Node /\ c.requester \in Node \cup {NoNode} /\ c.requesting \in BOOLEAN
      BY DEF Good, ChoiceSet
<1> HIDE DEF d, g
<1>5. Good(d, g, have)
      <2>1. \A m \in Node : Recorded(g[m], d.asked[m], have)
            BY <1>2, <1>3, NothingRecorded DEF Good
      <2> QED
          BY <1>1, <1>2, <1>3, <1>4, <2>1 DEF Good, ChoiceSet
<1>6. CASE n = c.requester
      <2>1. Removed(c, n, r) = ChooseRequester(d, r)
            BY <1>6 DEF Removed, d
      <2>2. d.nodes = c.nodes \ {n} /\ r \in d.nodes \cup {NoNode}
            BY <1>1
      <2>3. /\ Good(ChooseRequester(d, r), g, have)
            /\ ChooseRequester(d, r).nodes = d.nodes
            /\ ChooseRequester(d, r).requester = r
            BY <2>2, <1>5, GoodChoose
      <2>4. Good(Removed(c, n, r), g, have)
            BY <2>1, <2>3, Zenon
      <2>5. /\ Removed(c, n, r).nodes = c.nodes \ {n}
            /\ Removed(c, n, r).requester = r
            BY <2>1, <2>2, <2>3, Zenon
      <2> QED
          BY <2>4, <2>5, Zenon DEF g
<1>7. CASE n # c.requester
      <2>1. Removed(c, n, r) = d
            BY <1>7 DEF Removed, d
      <2>2. c.requester \in (c.nodes \ {n}) \cup {NoNode}
            BY <1>7
      <2>3. d.nodes = c.nodes \ {n} /\ d.requester = c.requester
            BY <1>1
      <2>4. Good(Removed(c, n, r), g, have)
            BY <2>1, <1>5, Zenon
      <2>5. /\ Removed(c, n, r).nodes = c.nodes \ {n}
            /\ Removed(c, n, r).requester = c.requester
            BY <2>1, <2>3, Zenon
      <2>6. Removed(c, n, r).requester \in (c.nodes \ {n}) \cup {NoNode}
            BY <2>2, <2>5
      <2> QED
          BY <2>4, <2>5, <2>6, Zenon DEF g
<1> QED
    BY <1>6, <1>7
-----------------------------------------------------------------------------
(* The handlers *)

\* At the start of a handler the choice is what the program holds.
LEMMA GoodNow ==
    ASSUME ChoiceOK
    PROVE  /\ Good(Choice, info, Have)
           /\ Choice.nodes = nodes /\ Choice.requester = requester
           /\ Choice.requesting = requesting /\ Choice.asked = asked
<1>1. requester \in Node \cup {NoNode}
      BY DEF ChoiceOK
<1> QED
    BY <1>1 DEF ChoiceOK, Good, ChoiceSet, Choice

\* At the end of a handler the program holds the choice.
LEMMA GoodThen ==
    ASSUME NEW c, NEW f, Good(c, f, Have'), SetChoice(c), info' = f,
           c.requester \in c.nodes \cup {NoNode}
    PROVE  ChoiceOK'
<1>1. nodes' = c.nodes /\ requester' = c.requester /\ requesting' = c.requesting /\ asked' = c.asked
      BY DEF SetChoice
<1>2. \A n \in Node : Recorded(info'[n], asked'[n], Have')
      BY <1>1 DEF Good
<1>3. (\A n \in Node : Recorded(info[n], asked[n], Have))'
      BY <1>2
<1> QED
    BY <1>1, <1>3 DEF Good, ChoiceSet, ChoiceOK

\* The effect of a handler on the choice and the records, when it ends with the
\* choice c.
Holds(c, have) ==
    /\ nodes' = c.nodes
    /\ requester' = c.requester
    /\ requesting' \in BOOLEAN
    /\ asked' \in [Node -> Seq(Request)]
    /\ info' \in [Node -> SyncInfo]
    /\ \A n \in Node : Recorded(info'[n], asked'[n], have)

\* A handler that ends like this keeps the invariant of the choice.
LEMMA HoldsThen ==
    ASSUME NEW c, Holds(c, Have'), c.nodes \subseteq Node,
           c.requester \in c.nodes \cup {NoNode}
    PROVE  ChoiceOK'
<1>1. \A n \in Node : Recorded(info'[n], asked'[n], Have')
      BY DEF Holds
<1>2. (\A n \in Node : Recorded(info[n], asked[n], Have))'
      BY <1>1
<1> QED
    BY <1>2 DEF Holds, ChoiceOK

\* What the tree of connected blocks gives a handler: the tip and its ancestors are
\* blocks we have.
LEMMA TipFacts ==
    ASSUME BlocksOK
    PROVE  /\ tip \in Block /\ Have \in SUBSET Block
           /\ \A a \in Block : IsAncestor(a, tip) => a \in Have
<1>1. \A k \in 1..Len(arrived) : arrived[k] \in Block
      BY ElementOfSeq DEF BlocksOK
<1>2. SeqRange(arrived) \subseteq Block
      BY <1>1 DEF SeqRange
<1> QED
    BY <1>2 DEF BlocksOK, Have

\* checkRequestBlocks of node n, whose sync info is i by now, keeps all records, and
\* the assertion of recordRequestingBlocks holds.
LEMMA Checked ==
    ASSUME NEW c, NEW have, NEW n \in Node, NEW i,
           info \in [Node -> SyncInfo],
           Good(c, [info EXCEPT ![n] = i], have),
           tip \in Block, \A a \in Block : IsAncestor(a, tip) => a \in have,
           CheckRequestBlocks(c, n, i)
    PROVE  Holds(c, have) /\ failed' = failed
<1> DEFINE w == Wanted(i)
           q == c.asked[n] \o AsksOf(w)
           d == [c EXCEPT !.asked[n] = q]
           j == Requested(i, w)
<1>1. /\ SetChoice(d)
      /\ info' = [info EXCEPT ![n] = j]
      /\ failed' = IF w # <<>> /\ i.requesting # {} THEN "BlockSynchronizer:269" ELSE failed
      BY DEF CheckRequestBlocks, AsksOf
<1>2. /\ c \in ChoiceSet /\ i \in SyncInfo
      /\ Recorded(i, c.asked[n], have)
      /\ \A m \in Node : m # n => Recorded(info[m], c.asked[m], have)
      BY DEF Good
<1>3. Recorded(j, q, have) /\ (w # <<>> => i.requesting = {})
      BY <1>2, RequestingBlocks
<1>4. j \in SyncInfo /\ q \in Seq(Request)
      BY <1>3 DEF Recorded
<1> HIDE DEF j, q, w, d
<1>5. d = [nodes |-> c.nodes, requester |-> c.requester,
           requesting |-> c.requesting, asked |-> [c.asked EXCEPT ![n] = q]]
      <2>1. d = [c EXCEPT !.asked[n] = q]
            BY DEF d
      <2>2. c \in ChoiceSet
            BY <1>2
      <2> QED
          BY <2>1, <2>2, FieldsAsked, ZenonT(60)
<1>6. /\ nodes' = c.nodes /\ requester' = c.requester /\ requesting' = c.requesting
      /\ asked' = [c.asked EXCEPT ![n] = q]
      BY <1>1, <1>5 DEF SetChoice
<1>7. c.asked \in [Node -> Seq(Request)] /\ c.requesting \in BOOLEAN
      BY <1>2 DEF ChoiceSet
<1>8. asked' \in [Node -> Seq(Request)] /\ info' \in [Node -> SyncInfo]
      BY <1>1, <1>4, <1>6, <1>7
<1>9. \A m \in Node : Recorded(info'[m], asked'[m], have)
      BY <1>1, <1>2, <1>3, <1>6, <1>7
<1> QED
    BY <1>1, <1>3, <1>6, <1>7, <1>8, <1>9 DEF Holds

\* The last header of an answer may become the best block known of the node, which
\* its record does not depend on (BlockSynchronizerImpl::updateBlockAvailability).
LEMMA AvailableFacts ==
    ASSUME NEW i, NEW q, NEW have, Recorded(i, q, have), NEW b \in Block
    PROVE  Recorded(Available(i, b), q, have)
<1> DEFINE j == Available(i, b)
<1>1. i \in SyncInfo
      BY DEF Recorded
<1>2. j \in SyncInfo /\ j.requesting = i.requesting /\ j.lastCommon = i.lastCommon
      BY <1>1 DEF Available, SyncInfo
<1> HIDE DEF j
<1>3. AsksFor(j, q) /\ NoGap(j, have)
      BY <1>2 DEF Recorded, AsksFor, NoGap
<1> QED
    BY <1>2, <1>3 DEF Recorded, j

\* Headers do not change what we have nor what is recorded of the other nodes, and
\* what is requested on their account leaves no gap (handleHeaders).
LEMMA HeadersHandled ==
    ASSUME DownloadInv, NEW c, NEW n \in Node, NEW s \in Seq(Block),
           Good(c, info, Have), c.nodes = nodes, c.requester = requester,
           HandleHeaders(c, n, s)
    PROVE  DownloadInv'
<1> DEFINE idle == [c EXCEPT !.requesting = FALSE]
           last == s[Len(s)]
           i == IF s = <<>> THEN info[n] ELSE Available(info[n], last)
           d == IF s = <<>> THEN idle ELSE RequestHeaders(idle, last)
<1>1. /\ AddHeaders(s)
      /\ \/ CheckRequestBlocks(d, n, i)
         \/ SetChoice(d) /\ info' = [info EXCEPT ![n] = i] /\ UNCHANGED failed
      /\ UNCHANGED <<blocks, remote>>
      BY DEF HandleHeaders
<1>2. SeqRange(s) \subseteq Block /\ (s # <<>> => last \in Block)
      <2>1. \A k \in 1..Len(s) : s[k] \in Block
            BY ElementOfSeq
      <2>2. s # <<>> => Len(s) \in 1..Len(s)
            BY EmptySeq
      <2> QED
          BY <2>1, <2>2 DEF SeqRange
<1>3. HeadersOK'
      <2>1. known' = known \cup SeqRange(s) /\ bestHeader' \in SeqRange(s) \cup {bestHeader}
            BY <1>1 DEF AddHeaders
      <2> QED
          BY <2>1, <1>2 DEF DownloadInv, HeadersOK
<1>4. UNCHANGED <<tip, connected, arrived, peerBest, mute>>
      BY <1>1 DEF blocks, remote
<1>5. Have' = Have
      BY <1>4 DEF Have
<1>6. BlocksOK'
      BY <1>4 DEF DownloadInv, BlocksOK, ParentFirst
<1>7. info \in [Node -> SyncInfo]
      BY DEF DownloadInv, ChoiceOK
<1>8. Good(idle, info, Have) /\ idle.nodes = nodes /\ idle.requester = requester
      <2>1. idle = [nodes |-> c.nodes, requester |-> c.requester, requesting |-> FALSE,
                    asked |-> c.asked]
            <3>1. c \in ChoiceSet
                  BY DEF Good
            <3> HIDE DEF idle
            <3>2. idle = [c EXCEPT !.requesting = FALSE]
                  BY DEF idle
            <3> QED
                BY <3>1, <3>2, FieldsKept, ZenonT(60)
      <2> HIDE DEF idle
      <2> QED
          BY <2>1 DEF Good, ChoiceSet
<1>9. Recorded(info[n], c.asked[n], Have)
      BY DEF Good
<1> HIDE DEF last, idle
<1>10. Good(d, info, Have) /\ d.nodes = nodes /\ d.requester = requester
      <2>1. CASE s = <<>>
            BY <2>1, <1>8
      <2>2. CASE s # <<>>
            BY <2>2, <1>2, <1>8, GoodRequest
      <2> QED
          BY <2>1, <2>2
<1> HIDE DEF d
<1>11. Recorded(i, d.asked[n], Have)
      <2>1. Recorded(info[n], d.asked[n], Have)
            BY <1>10 DEF Good
      <2> QED
          BY <2>1, <1>2, AvailableFacts
<1> HIDE DEF i
<1>12. Good(d, [info EXCEPT ![n] = i], Have)
      <2>1. i \in SyncInfo
            BY <1>11 DEF Recorded
      <2>2. \A m \in Node : Recorded([info EXCEPT ![n] = i][m], d.asked[m], Have)
            BY <1>7, <1>10, <1>11 DEF Good
      <2> QED
          BY <1>7, <1>10, <2>1, <2>2 DEF Good
<1>13. Holds(d, Have) /\ failed' = failed
      <2>1. CASE CheckRequestBlocks(d, n, i)
            BY <2>1, <1>7, <1>12, TipFacts, Checked DEF DownloadInv
      <2>2. CASE SetChoice(d) /\ info' = [info EXCEPT ![n] = i] /\ UNCHANGED failed
            BY <2>2, <1>12 DEF Good, ChoiceSet, SetChoice, Holds
      <2> QED
          BY <1>1, <2>1, <2>2 DEF d, i, idle, last
<1>14. ChoiceOK'
      <2>1. nodes \subseteq Node /\ requester \in nodes \cup {NoNode}
            BY DEF DownloadInv, ChoiceOK
      <2> QED
          BY <2>1, <1>5, <1>10, <1>13, HoldsThen
<1>15. RemoteOK' /\ FailedOK'
      BY <1>4, <1>10, <1>13 DEF DownloadInv, RemoteOK, FailedOK, Holds
<1> QED
    BY <1>3, <1>6, <1>14, <1>15 DEF DownloadInv
-----------------------------------------------------------------------------
(* The steps *)

\* A block that arrives closes no gap of another node and opens none.
LEMMA MoreBlocks ==
    ASSUME NEW i, NEW q, NEW have, NEW more, Recorded(i, q, have), have \subseteq more
    PROVE  Recorded(i, q, more)
<1>1. NoGap(i, more)
      BY DEF Recorded, NoGap
<1> QED
    BY <1>1 DEF Recorded

\* What a node answers to a request for headers is a sequence of headers.
LEMMA HeadersAnswered ==
    ASSUME NEW a \in Block, NEW b \in Block
    PROVE  HeadersAfter(a, b) \in Seq(Block)
<1> DEFINE all == Between(LastCommonAncestor(a, b), b)
<1>1. all \in Seq(Block)
      BY CommonAncestorFacts, BetweenFacts
<1>2. HeadersAfter(a, b) = IF Len(all) > MaxHeaders THEN SubSeq(all, 1, MaxHeaders) ELSE all
      BY DEF HeadersAfter
<1> HIDE DEF all
<1>3. CASE Len(all) > MaxHeaders
      <2>1. Len(all) \in Nat /\ MaxHeaders \in Nat
            BY <1>1, SyncAssumption
      <2>2. \A k \in 1..MaxHeaders : k \in 1..Len(all)
            BY <1>3, <2>1
      <2>3. \A k \in 1..MaxHeaders : all[k] \in Block
            BY <1>1, <2>2, ElementOfSeq
      <2>4. SubSeq(all, 1, MaxHeaders) \in Seq(Block)
            BY <2>1, <2>3, SubSeqProperties
      <2> QED
          BY <1>2, <1>3, <2>4
<1>4. CASE ~ (Len(all) > MaxHeaders)
      BY <1>1, <1>2, <1>4
<1> QED
    BY <1>3, <1>4

\* The block of an answer goes to the disk thread's queue after its parent, it was
\* recorded, and checkRequestBlocks keeps the record (handleBlock).
LEMMA BlockHandled ==
    ASSUME DownloadInv, NEW c, NEW n \in Node, NEW b \in Block,
           c \in ChoiceSet, c.nodes = nodes, c.requester = requester,
           b \in info[n].requesting, b # Genesis, Parent(b) \in Have,
           Recorded([info[n] EXCEPT !.requesting = @ \ {b}], c.asked[n], Have \cup {b}),
           \A m \in Node : m # n => c.asked[m] = asked[m],
           HandleBlock(c, n, b)
    PROVE  DownloadInv'
<1> DEFINE i == [info[n] EXCEPT !.requesting = @ \ {b}]
<1>1. /\ arrived' = Append(arrived, b)
      /\ CheckRequestBlocks(c, n, i)
      /\ UNCHANGED <<headers, tip, connected, remote>>
      BY DEF HandleBlock
<1>2. UNCHANGED <<known, bestHeader, tip, connected, peerBest, mute>>
      BY <1>1 DEF headers, remote
<1>3. arrived \in Seq(Block)
      BY DEF DownloadInv, BlocksOK
<1>4. Have' = Have \cup {b}
      <2>1. SeqRange(arrived') = SeqRange(arrived) \cup {b}
            BY <1>1, <1>3, RangeFacts
      <2>2. Have' = connected' \cup SeqRange(arrived')
            BY DEF Have, SeqRange
      <2> QED
          BY <1>2, <2>1, <2>2 DEF Have
<1> HIDE DEF i
<1>5. Good(c, [info EXCEPT ![n] = i], Have \cup {b})
      <2>1. info \in [Node -> SyncInfo] /\ i \in SyncInfo
            BY DEF DownloadInv, ChoiceOK, i, Recorded
      <2>2. \A m \in Node : m # n => Recorded(info[m], c.asked[m], Have \cup {b})
            BY MoreBlocks DEF DownloadInv, ChoiceOK
      <2>3. \A m \in Node : Recorded([info EXCEPT ![n] = i][m], c.asked[m], Have \cup {b})
            BY <2>1, <2>2 DEF i
      <2> QED
          BY <2>1, <2>3 DEF Good
<1>6. Holds(c, Have \cup {b}) /\ failed' = failed
      <2>1. info \in [Node -> SyncInfo]
            BY DEF DownloadInv, ChoiceOK
      <2>2. tip \in Block /\ \A a \in Block : IsAncestor(a, tip) => a \in Have \cup {b}
            BY TipFacts DEF DownloadInv
      <2> QED
          BY <1>1, <1>5, <2>1, <2>2, Checked
<1>7. ChoiceOK'
      <2>1. nodes \subseteq Node /\ requester \in nodes \cup {NoNode}
            BY DEF DownloadInv, ChoiceOK
      <2> QED
          BY <2>1, <1>4, <1>6, HoldsThen
<1>8. /\ arrived' \in Seq(Block) /\ Len(arrived') = Len(arrived) + 1 /\ Len(arrived) \in Nat
      /\ arrived'[Len(arrived) + 1] = b
      /\ \A k \in 1..Len(arrived) : arrived'[k] = arrived[k]
      BY <1>1, <1>3, AppendProperties
<1>9. \A k \in 1..Len(arrived') : k \in 1..Len(arrived) \/ k = Len(arrived) + 1
      BY <1>8
<1>10. \A k \in 1..Len(arrived') :
            \/ Parent(arrived'[k]) \in connected'
            \/ \E j \in 1..k - 1 : arrived'[j] = Parent(arrived'[k])
      <2> SUFFICES ASSUME NEW k \in 1..Len(arrived')
                   PROVE  \/ Parent(arrived'[k]) \in connected'
                          \/ \E j \in 1..k - 1 : arrived'[j] = Parent(arrived'[k])
          OBVIOUS
      <2>1. CASE k \in 1..Len(arrived)
            <3>1. \/ Parent(arrived[k]) \in connected
                  \/ \E j \in 1..k - 1 : arrived[j] = Parent(arrived[k])
                  BY <2>1 DEF DownloadInv, BlocksOK, ParentFirst
            <3>2. \A j \in 1..k - 1 : j \in 1..Len(arrived)
                  BY <2>1, <1>8
            <3> QED
                BY <3>1, <3>2, <2>1, <1>2, <1>8
      <2>2. CASE k = Len(arrived) + 1
            <3>1. CASE Parent(b) \in connected
                  BY <3>1, <2>2, <1>2, <1>8
            <3>2. CASE Parent(b) \in SeqRange(arrived)
                  <4>1. PICK j \in 1..Len(arrived) : arrived[j] = Parent(b)
                        BY <3>2 DEF SeqRange
                  <4>2. j \in 1..k - 1
                        BY <2>2, <1>8
                  <4> QED
                      BY <4>1, <4>2, <2>2, <1>8
            <3> QED
                BY <3>1, <3>2 DEF Have
      <2> QED
          BY <2>1, <2>2, <1>9
<1>11. BlocksOK'
      <2>1. ParentFirst'
            BY <1>10 DEF ParentFirst
      <2>2. \A k \in 1..Len(arrived') : arrived'[k] # Genesis
            BY <1>8, <1>9 DEF DownloadInv, BlocksOK
      <2> QED
          BY <2>1, <2>2, <1>2, <1>8 DEF DownloadInv, BlocksOK
<1>12. HeadersOK' /\ RemoteOK' /\ FailedOK'
      BY <1>2, <1>6 DEF DownloadInv, HeadersOK, RemoteOK, FailedOK, Holds
<1> QED
    BY <1>7, <1>11, <1>12 DEF DownloadInv

\* A node's answer, whatever was asked, keeps the invariant (handleHeaders,
\* handleBlock).
LEMMA AnswerKeeps ==
    ASSUME DownloadInv, NEW n \in Node, Answer(n)
    PROVE  DownloadInv'
<1> DEFINE q == asked[n]
           c == [Choice EXCEPT !.asked[n] = Tail(@)]
           r == Head(q)
<1>1. /\ q # <<>>
      /\ \/ /\ r.op = "getheaders"
            /\ HandleHeaders(c, n, HeadersAfter(r.block, peerBest[n]))
         \/ /\ r.op = "getdata"
            /\ HandleBlock(c, n, r.block)
      BY DEF Answer
<1>2. /\ Good(Choice, info, Have)
      /\ Choice.nodes = nodes /\ Choice.requester = requester
      /\ Choice.requesting = requesting /\ Choice.asked = asked
      BY GoodNow DEF DownloadInv
<1>3. c = [nodes |-> nodes, requester |-> requester, requesting |-> requesting,
           asked |-> [asked EXCEPT ![n] = Tail(q)]]
      <2> HIDE DEF c
      <2>1. Choice \in ChoiceSet
            BY <1>2 DEF Good
      <2>2. c = [Choice EXCEPT !.asked[n] = Tail(@)]
            BY DEF c
      <2>3. c = [nodes |-> Choice.nodes, requester |-> Choice.requester,
                 requesting |-> Choice.requesting,
                 asked |-> [Choice.asked EXCEPT ![n] = Tail(Choice.asked[n])]]
            BY <2>1, <2>2, FieldsAsked, ZenonT(60)
      <2> QED
          BY <2>3, <1>2
<1>4. Have \in SUBSET Block /\ Recorded(info[n], q, Have) /\ asked \in [Node -> Seq(Request)]
      BY TipFacts DEF DownloadInv, ChoiceOK
<1> HIDE DEF c
<1>5. /\ c.nodes = nodes /\ c.requester = requester /\ c.requesting = requesting
      /\ c.asked = [asked EXCEPT ![n] = Tail(q)]
      BY <1>3
<1>6. /\ c.asked[n] = Tail(q)
      /\ \A m \in Node : m # n => c.asked[m] = asked[m]
      BY <1>4, <1>5
<1>7. c \in ChoiceSet
      <2>1. q \in Seq(Request) /\ Tail(q) \in Seq(Request)
            BY <1>1, <1>4, HeadTailProperties
      <2>2. [asked EXCEPT ![n] = Tail(q)] \in [Node -> Seq(Request)]
            BY <2>1, <1>4
      <2>3. nodes \subseteq Node /\ requester \in Node \cup {NoNode} /\ requesting \in BOOLEAN
            BY DEF DownloadInv, ChoiceOK
      <2> QED
          BY <1>3, <2>2, <2>3 DEF ChoiceSet
<1> HIDE DEF q
<1>8. CASE r.op = "getheaders"
      <2>1. Recorded(info[n], Tail(q), Have) /\ r \in Request
            BY <1>1, <1>4, <1>8, Answering
      <2>2. Good(c, info, Have)
            BY <2>1, <1>6, <1>7 DEF DownloadInv, ChoiceOK, Good
      <2>3. HeadersAfter(r.block, peerBest[n]) \in Seq(Block)
            <3>1. r.block \in Block /\ peerBest[n] \in Block
                  BY <2>1 DEF Request, DownloadInv, RemoteOK
            <3> QED
                BY <3>1, HeadersAnswered
      <2>4. HandleHeaders(c, n, HeadersAfter(r.block, peerBest[n]))
            BY <1>1, <1>8
      <2> QED
          BY <2>2, <2>3, <2>4, <1>5, HeadersHandled
<1>9. CASE r.op = "getdata"
      <2>1. /\ r \in Request
            /\ r.block \in info[n].requesting /\ r.block # Genesis
            /\ Parent(r.block) \in Have
            /\ Recorded([info[n] EXCEPT !.requesting = @ \ {r.block}], Tail(q), Have \cup {r.block})
            BY <1>1, <1>4, <1>9, Answering
      <2>2. r.block \in Block
            BY <2>1 DEF Request
      <2>3. HandleBlock(c, n, r.block)
            BY <1>1, <1>9
      <2> QED
          BY <2>1, <2>2, <2>3, <1>5, <1>6, <1>7, BlockHandled
<1> QED
    BY <1>1, <1>8, <1>9

\* A header a node announces on its own does as well (handleHeaders).
LEMMA AnnounceKeeps ==
    ASSUME DownloadInv, NEW n \in Node, Announce(n)
    PROVE  DownloadInv'
<1>1. HandleHeaders(Choice, n, <<peerBest[n]>>)
      BY DEF Announce
<1>2. <<peerBest[n]>> \in Seq(Block)
      BY DEF DownloadInv, RemoteOK
<1> QED
    BY <1>1, <1>2, GoodNow, HeadersHandled DEF DownloadInv

\* A handler that leaves headers and blocks alone and ends with a good choice keeps
\* the invariant.
LEMMA ChoiceKeeps ==
    ASSUME DownloadInv, NEW c, NEW f, Good(c, f, Have),
           SetChoice(c), info' = f,
           c.requester \in c.nodes \cup {NoNode},
           UNCHANGED <<headers, blocks, failed>>,
           peerBest' \in [Node -> Block], mute' \subseteq c.nodes
    PROVE  DownloadInv'
<1>1. UNCHANGED <<known, bestHeader, tip, connected, arrived, failed>>
      BY DEF headers, blocks
<1>2. Have' = Have
      BY <1>1 DEF Have
<1>3. HeadersOK' /\ FailedOK' /\ BlocksOK'
      BY <1>1 DEF DownloadInv, HeadersOK, FailedOK, BlocksOK, ParentFirst
<1>4. ChoiceOK'
      BY <1>2, GoodThen
<1>5. RemoteOK'
      BY DEF RemoteOK, SetChoice
<1> QED
    BY <1>3, <1>4, <1>5 DEF DownloadInv

\* A new node may become the requester (addNode).
LEMMA AddNodeKeeps ==
    ASSUME DownloadInv, NEW n \in Node, NEW b \in Block, AddNode(n, b)
    PROVE  DownloadInv'
<1> DEFINE c == [Choice EXCEPT !.nodes = @ \cup {n}]
<1>1. /\ \/ requester # NoNode /\ SetChoice(c)
         \/ \E r \in Candidates(c) : SetChoice(ChooseRequester(c, r))
      /\ peerBest' = [peerBest EXCEPT ![n] = b]
      /\ UNCHANGED <<headers, blocks, info, mute, failed>>
      BY DEF AddNode
<1>2. /\ Good(Choice, info, Have)
      /\ Choice.nodes = nodes /\ Choice.requester = requester
      /\ Choice.requesting = requesting /\ Choice.asked = asked
      BY GoodNow DEF DownloadInv
<1>3. c = [nodes |-> nodes \cup {n}, requester |-> requester, requesting |-> requesting,
           asked |-> asked]
      <2> HIDE DEF c
      <2>1. Choice \in ChoiceSet
            BY <1>2 DEF Good
      <2>2. c = [Choice EXCEPT !.nodes = @ \cup {n}]
            BY DEF c
      <2>3. c = [nodes |-> Choice.nodes \cup {n}, requester |-> Choice.requester,
                 requesting |-> Choice.requesting, asked |-> Choice.asked]
            BY <2>1, <2>2, FieldsKept, ZenonT(60)
      <2> QED
          BY <2>3, <1>2
<1> HIDE DEF c
<1>4. /\ c.nodes = nodes \cup {n} /\ c.requester = requester
      /\ c.requesting = requesting /\ c.asked = asked
      BY <1>3
<1>5. /\ nodes \subseteq Node /\ requester \in nodes \cup {NoNode} /\ requesting \in BOOLEAN
      /\ asked \in [Node -> Seq(Request)] /\ info \in [Node -> SyncInfo]
      /\ \A m \in Node : Recorded(info[m], asked[m], Have)
      BY DEF DownloadInv, ChoiceOK
<1>6. Good(c, info, Have)
      <2>1. c \in ChoiceSet
            BY <1>3, <1>5 DEF ChoiceSet
      <2> QED
          BY <2>1, <1>4, <1>5 DEF Good
<1>7. peerBest' \in [Node -> Block] /\ mute' \subseteq c.nodes
      BY <1>1, <1>4 DEF DownloadInv, RemoteOK
<1>8. CASE SetChoice(c)
      BY <1>1, <1>4, <1>5, <1>6, <1>7, <1>8, ChoiceKeeps
<1>9. CASE \E r \in Candidates(c) : SetChoice(ChooseRequester(c, r))
      <2>1. PICK r \in c.nodes \cup {NoNode} : SetChoice(ChooseRequester(c, r))
            BY <1>9 DEF Candidates
      <2>2. /\ Good(ChooseRequester(c, r), info, Have)
            /\ ChooseRequester(c, r).nodes = c.nodes
            /\ ChooseRequester(c, r).requester = r
            BY <1>6, GoodChoose DEF DownloadInv
      <2> QED
          BY <2>1, <2>2, <1>1, <1>7, ChoiceKeeps
<1> QED
    BY <1>1, <1>8, <1>9 DEF c

\* What is forgotten with the nodes in gone is the remote side as well.
LEMMA ForgetFacts ==
    ASSUME DownloadInv, NEW gone, Forget(gone)
    PROVE  /\ info' = Forgotten(info, gone)
           /\ peerBest' \in [Node -> Block]
           /\ mute' \subseteq nodes \ gone
<1>1. Genesis \in Block
      BY TreeAssumption
<1> QED
    BY <1>1 DEF Forget, Forgotten, DownloadInv, RemoteOK

\* A lost node takes its record and its requests with it (removeNode).
LEMMA LoseNodeKeeps ==
    ASSUME DownloadInv, NEW n \in Node, LoseNode(n)
    PROVE  DownloadInv'
<1>1. PICK r \in Candidates(Choice) \ {n} : SetChoice(Removed(Choice, n, r))
      BY DEF LoseNode
<1>2. Forget({n}) /\ UNCHANGED <<headers, blocks, failed>>
      BY DEF LoseNode
<1>3. /\ Good(Choice, info, Have) /\ Choice.nodes = nodes /\ Choice.requester = requester
      BY GoodNow DEF DownloadInv
<1>4. /\ r \in (Choice.nodes \ {n}) \cup {NoNode}
      /\ Choice.requester \in Choice.nodes \cup {NoNode}
      BY <1>1, <1>3 DEF Candidates, DownloadInv, ChoiceOK
<1> DEFINE d == Removed(Choice, n, r)
<1>5. /\ Good(d, Forgotten(info, {n}), Have)
      /\ d.nodes = nodes \ {n} /\ d.requester \in d.nodes \cup {NoNode}
      BY <1>3, <1>4, GoodRemoved DEF DownloadInv
<1>6. /\ info' = Forgotten(info, {n}) /\ peerBest' \in [Node -> Block]
      /\ mute' \subseteq nodes \ {n}
      BY <1>2, ForgetFacts
<1>7. SetChoice(d)
      BY <1>1
<1> HIDE DEF d
<1> QED
    BY <1>2, <1>5, <1>6, <1>7, ChoiceKeeps

\* A tick removes the requester if it has been idle too long, chooses one if there
\* is none and asks it (onTick).
LEMMA OnTickKeeps ==
    ASSUME DownloadInv, NEW idle \in BOOLEAN, NEW due \in BOOLEAN, OnTick(idle, due)
    PROVE  DownloadInv'
<1> DEFINE lost == idle /\ requesting /\ requester # NoNode
           rest == IF lost THEN nodes \ {requester} ELSE nodes
           still == [Choice EXCEPT !.requesting = FALSE]
           timed(r) == IF lost THEN Removed(still, requester, r) ELSE Choice
           chosen(r) == IF timed(r).requester # NoNode THEN timed(r)
                        ELSE ChooseRequester(timed(r), r)
           last(r) == IF ~ chosen(r).requesting /\ due
                      THEN RequestHeaders(chosen(r), DefaultStart) ELSE chosen(r)
           f == Forgotten(info, nodes \ rest)
<1>1. PICK r \in rest \cup {NoNode} : SetChoice(last(r))
      BY DEF OnTick
<1>2. Forget(nodes \ rest) /\ UNCHANGED <<headers, blocks, failed>>
      BY DEF OnTick
<1>3. /\ Good(Choice, info, Have) /\ Choice.nodes = nodes /\ Choice.requester = requester
      /\ Choice.asked = asked
      /\ nodes \subseteq Node /\ requester \in nodes \cup {NoNode}
      /\ info \in [Node -> SyncInfo]
      BY GoodNow DEF DownloadInv, ChoiceOK
<1>4. Good(still, info, Have) /\ still.nodes = nodes /\ still.requester = requester
      <2> HIDE DEF still
      <2>1. Choice \in ChoiceSet
            BY <1>3 DEF Good
      <2>2. still = [Choice EXCEPT !.requesting = FALSE]
            BY DEF still
      <2>3. still = [nodes |-> Choice.nodes, requester |-> Choice.requester,
                     requesting |-> FALSE, asked |-> Choice.asked]
            BY <2>1, <2>2, FieldsKept, ZenonT(60)
      <2> QED
          BY <2>3, <1>3 DEF Good, ChoiceSet
<1> HIDE DEF still
<1>5. /\ Good(timed(r), f, Have) /\ timed(r).nodes = rest
      /\ timed(r).requester \in rest \cup {NoNode}
      <2>1. CASE lost
            <3>1. requester \in Node /\ requester \in nodes /\ rest = nodes \ {requester}
                  BY <2>1, <1>3
            <3>2. nodes \ rest = {requester}
                  BY <3>1
            <3>3. r \in (still.nodes \ {requester}) \cup {NoNode}
                  BY <3>1, <1>1, <1>4
            <3>4. still.requester \in still.nodes \cup {NoNode}
                  BY <1>3, <1>4
            <3>5. timed(r) = Removed(still, requester, r)
                  BY <2>1
            <3> HIDE DEF lost, rest, timed
            <3>6. /\ Good(timed(r), Forgotten(info, {requester}), Have)
                  /\ timed(r).nodes = still.nodes \ {requester}
                  /\ timed(r).requester \in (still.nodes \ {requester}) \cup {NoNode}
                  BY <3>1, <3>3, <3>4, <3>5, <1>4, GoodRemoved DEF DownloadInv
            <3> QED
                BY <3>1, <3>2, <3>6, <1>4
      <2>2. CASE ~ lost
            <3>1. rest = nodes /\ timed(r) = Choice
                  BY <2>2
            <3>2. nodes \ rest = {}
                  BY <3>1
            <3> HIDE DEF lost, rest, timed
            <3>3. f = info
                  BY <3>2, <1>3 DEF Forgotten
            <3> HIDE DEF f
            <3> QED
                BY <3>1, <3>3, <1>3
      <2> QED
          BY <2>1, <2>2
<1> HIDE DEF f, timed
<1>6. /\ Good(chosen(r), f, Have) /\ chosen(r).nodes = rest
      /\ chosen(r).requester \in rest \cup {NoNode}
      <2>1. CASE timed(r).requester # NoNode
            BY <2>1, <1>5
      <2>2. CASE timed(r).requester = NoNode
            <3>1. r \in timed(r).nodes \cup {NoNode}
                  BY <1>1, <1>5
            <3>2. chosen(r) = ChooseRequester(timed(r), r)
                  BY <2>2
            <3> HIDE DEF chosen, rest
            <3> QED
                BY <3>1, <3>2, <1>1, <1>5, GoodChoose DEF DownloadInv
      <2> QED
          BY <2>1, <2>2
<1> HIDE DEF chosen, rest
<1>7. /\ Good(last(r), f, Have) /\ last(r).nodes = rest
      /\ last(r).requester \in rest \cup {NoNode}
      <2>1. CASE ~ chosen(r).requesting /\ due
            <3>1. last(r) = RequestHeaders(chosen(r), DefaultStart)
                  BY <2>1
            <3> HIDE DEF last
            <3> QED
                BY <3>1, <1>6, StartFacts, GoodRequest DEF DownloadInv
      <2>2. CASE ~ (~ chosen(r).requesting /\ due)
            BY <2>2, <1>6
      <2> QED
          BY <2>1, <2>2
<1> HIDE DEF last
<1>8. /\ info' = f /\ peerBest' \in [Node -> Block] /\ mute' \subseteq rest
      <2>1. info' = Forgotten(info, nodes \ rest) /\ mute' \subseteq nodes \ (nodes \ rest)
            BY <1>2, ForgetFacts
      <2> QED
          BY <2>1, <1>2, ForgetFacts DEF f, rest
<1> QED
    BY <1>1, <1>2, <1>7, <1>8, ChoiceKeeps

\* The disk thread connects a block after its parent; we have the same blocks as
\* before (Validator::validate, BlockChain::connectBlock).
LEMMA ConnectBlockKeeps ==
    ASSUME DownloadInv, ConnectBlock
    PROVE  DownloadInv'
<1> DEFINE b == Head(arrived)
<1>1. /\ arrived # <<>> /\ arrived' = Tail(arrived)
      /\ \/ b \in connected /\ failed' = "Validator:150" /\ UNCHANGED <<tip, connected>>
         \/ tip' = b /\ connected' = connected \cup {b} /\ UNCHANGED failed
      /\ UNCHANGED <<headers, choice, info, asked, remote>>
      BY DEF ConnectBlock
<1>2. UNCHANGED <<known, bestHeader, nodes, requester, requesting, info, asked, peerBest, mute>>
      BY <1>1 DEF headers, choice, remote
<1>3. /\ arrived \in Seq(Block) /\ Len(arrived) \in Nat /\ Len(arrived) >= 1
      /\ b = arrived[1] /\ b \in Block /\ 1 \in 1..Len(arrived)
      /\ arrived' \in Seq(Block) /\ Len(arrived') = Len(arrived) - 1
      /\ \A k \in 1..Len(arrived') : arrived'[k] = arrived[k + 1]
      BY <1>1, HeadTailProperties, EmptySeq DEF DownloadInv, BlocksOK
<1>4. SeqRange(arrived) = SeqRange(arrived') \cup {b}
      BY <1>1, <1>3, RangeFacts
<1> HIDE DEF b
<1>5. connected \subseteq connected' /\ b \in connected' /\ tip' \in connected'
      BY <1>1 DEF DownloadInv, BlocksOK
<1>6. connected' \subseteq connected \cup {b}
      BY <1>1
<1>7. Have' = Have
      <2>1. Have' = connected' \cup SeqRange(arrived')
            BY DEF Have, SeqRange
      <2> QED
          BY <2>1, <1>4, <1>5, <1>6 DEF Have
<1>8. Parent(b) \in connected /\ b # Genesis
      <2>1. \/ Parent(arrived[1]) \in connected
            \/ \E j \in 1..1 - 1 : arrived[j] = Parent(arrived[1])
            BY <1>3 DEF DownloadInv, BlocksOK, ParentFirst
      <2>2. 1..1 - 1 = {}
            OBVIOUS
      <2> QED
          BY <2>1, <2>2, <1>3 DEF DownloadInv, BlocksOK
<1>9. \A x \in connected', a \in Block : IsAncestor(a, x) => a \in connected'
      <2>1. \A a \in Block : IsAncestor(a, b) => a = b \/ IsAncestor(a, Parent(b))
            BY <1>3, <1>8, ParentFacts
      <2>2. \A x \in connected, a \in Block : IsAncestor(a, x) => a \in connected
            BY DEF DownloadInv, BlocksOK
      <2> QED
          BY <2>1, <2>2, <1>5, <1>6, <1>8
<1>10. \A k \in 1..Len(arrived') :
            \/ Parent(arrived'[k]) \in connected'
            \/ \E j \in 1..k - 1 : arrived'[j] = Parent(arrived'[k])
      <2> SUFFICES ASSUME NEW k \in 1..Len(arrived')
                   PROVE  \/ Parent(arrived'[k]) \in connected'
                          \/ \E j \in 1..k - 1 : arrived'[j] = Parent(arrived'[k])
          OBVIOUS
      <2>1. k + 1 \in 1..Len(arrived) /\ arrived'[k] = arrived[k + 1] /\ (k + 1) - 1 = k
            BY <1>3
      <2>2. \/ Parent(arrived[k + 1]) \in connected
            \/ \E j \in 1..(k + 1) - 1 : arrived[j] = Parent(arrived[k + 1])
            BY <2>1 DEF DownloadInv, BlocksOK, ParentFirst
      <2>3. CASE Parent(arrived[k + 1]) \in connected
            BY <2>1, <2>3, <1>5
      <2>4. ASSUME NEW j \in 1..k, arrived[j] = Parent(arrived[k + 1])
            PROVE  \/ Parent(arrived'[k]) \in connected'
                   \/ \E m \in 1..k - 1 : arrived'[m] = Parent(arrived'[k])
            <3>1. CASE j = 1
                  BY <3>1, <2>1, <2>4, <1>3, <1>5
            <3>2. CASE j # 1
                  <4>1. /\ j - 1 \in 1..k - 1 /\ j - 1 \in 1..Len(arrived')
                        /\ (j - 1) + 1 = j
                        BY <3>2, <1>3
                  <4>2. arrived'[j - 1] = arrived[j]
                        BY <4>1, <1>3
                  <4> QED
                      BY <4>1, <4>2, <2>1, <2>4
            <3> QED
                BY <3>1, <3>2
      <2> QED
          BY <2>1, <2>2, <2>3, <2>4
<1>11. BlocksOK'
      <2>1. ParentFirst'
            BY <1>10 DEF ParentFirst
      <2>2. \A k \in 1..Len(arrived') : arrived'[k] # Genesis
            <3>1. \A k \in 1..Len(arrived') : k + 1 \in 1..Len(arrived)
                  BY <1>3
            <3> QED
                BY <3>1, <1>3 DEF DownloadInv, BlocksOK
      <2>3. connected' \subseteq Block /\ Genesis \in connected'
            BY <1>3, <1>5, <1>6 DEF DownloadInv, BlocksOK
      <2> QED
          BY <2>1, <2>2, <2>3, <1>3, <1>5, <1>9 DEF BlocksOK
<1>12. ChoiceOK'
      BY <1>2, <1>7 DEF DownloadInv, ChoiceOK
<1>13. HeadersOK' /\ RemoteOK' /\ FailedOK'
      BY <1>1, <1>2 DEF DownloadInv, HeadersOK, RemoteOK, FailedOK
<1> QED
    BY <1>11, <1>12, <1>13 DEF DownloadInv

\* What becomes of a node on its own side changes no record.
LEMMA RemoteKeeps ==
    ASSUME DownloadInv, NEW n \in Node,
           FallSilent(n) \/ \E b \in Block : Grow(n, b)
    PROVE  DownloadInv'
<1>1. /\ UNCHANGED <<headers, blocks, choice, info, asked, failed>>
      /\ peerBest' \in [Node -> Block] /\ mute' \subseteq nodes
      BY DEF FallSilent, Grow, DownloadInv, RemoteOK
<1>2. UNCHANGED <<known, bestHeader, tip, connected, arrived, nodes, requester,
                  requesting, info, asked, failed>>
      BY <1>1 DEF headers, blocks, choice
<1>3. Have' = Have
      BY <1>2 DEF Have
<1> QED
    BY <1>1, <1>2, <1>3 DEF DownloadInv, HeadersOK, BlocksOK, ParentFirst, ChoiceOK,
                            RemoteOK, FailedOK
-----------------------------------------------------------------------------
(* The theorems *)

\* Nothing is recorded when the program starts.
LEMMA InitInv ==
    ASSUME Init
    PROVE  DownloadInv
<1>1. /\ Genesis \in Block /\ Path[Genesis] = <<Genesis>>
      BY TreeAssumption
<1>2. HeadersOK /\ RemoteOK /\ FailedOK
      BY <1>1 DEF Init, HeadersOK, RemoteOK, FailedOK
<1>3. BlocksOK
      <2>1. Height(Genesis) = 0
            BY <1>1 DEF Height
      <2>2. \A a \in Block : IsAncestor(a, Genesis) => a = Genesis
            <3> SUFFICES ASSUME NEW a \in Block, IsAncestor(a, Genesis)
                         PROVE  a = Genesis
                OBVIOUS
            <3>1. Height(a) = 0
                  BY <2>1, PathFacts DEF IsAncestor
            <3> QED
                BY <3>1, ParentFacts
      <2>3. Len(arrived) = 0 /\ arrived \in Seq(Block)
            BY EmptySeq DEF Init
      <2>4. 1..Len(arrived) = {}
            BY <2>3
      <2>5. ParentFirst
            BY <2>4 DEF ParentFirst
      <2> QED
          BY <1>1, <2>2, <2>3, <2>4, <2>5 DEF Init, BlocksOK
<1>4. ChoiceOK
      <2>1. \A n \in Node : Recorded(info[n], asked[n], Have)
            BY NothingRecorded DEF Init
      <2>2. NewSyncInfo \in SyncInfo /\ <<>> \in Seq(Request)
            BY NothingRecorded, EmptySeq
      <2> QED
          BY <2>1, <2>2 DEF Init, ChoiceOK
<1> QED
    BY <1>2, <1>3, <1>4 DEF DownloadInv

\* Every handler keeps the records (the handlers of BlockSynchronizerImpl).
LEMMA StepInv ==
    ASSUME DownloadInv, [Next]_vars
    PROVE  DownloadInv'
<1>1. ASSUME NEW n \in Node, Answer(n)
      PROVE  DownloadInv'
      BY <1>1, AnswerKeeps
<1>2. ASSUME NEW n \in Node, Announce(n)
      PROVE  DownloadInv'
      BY <1>2, AnnounceKeeps
<1>3. ASSUME NEW n \in Node, NEW b \in Block, AddNode(n, b)
      PROVE  DownloadInv'
      BY <1>3, AddNodeKeeps
<1>4. ASSUME NEW n \in Node, LoseNode(n)
      PROVE  DownloadInv'
      BY <1>4, LoseNodeKeeps
<1>5. ASSUME NEW idle \in BOOLEAN, NEW due \in BOOLEAN, OnTick(idle, due)
      PROVE  DownloadInv'
      BY <1>5, OnTickKeeps
<1>6. CASE ConnectBlock
      BY <1>6, ConnectBlockKeeps
<1>7. ASSUME NEW n \in Node, NEW b \in Block, Grow(n, b)
      PROVE  DownloadInv'
      BY <1>7, RemoteKeeps
<1>8. ASSUME NEW n \in Node, FallSilent(n)
      PROVE  DownloadInv'
      BY <1>8, RemoteKeeps
<1>9. CASE UNCHANGED vars
      <2>1. UNCHANGED <<known, bestHeader, tip, connected, arrived, nodes, requester,
                        requesting, info, asked, peerBest, mute, failed>>
            BY <1>9 DEF vars, headers, blocks, choice, remote
      <2>2. Have' = Have
            BY <2>1 DEF Have
      <2> QED
          BY <2>1, <2>2 DEF DownloadInv, HeadersOK, BlocksOK, ParentFirst, ChoiceOK,
                            RemoteOK, FailedOK
<1> QED
    BY <1>1, <1>2, <1>3, <1>4, <1>5, <1>6, <1>7, <1>8, <1>9 DEF Next

\* The download keeps its strengthened invariant: what is recorded of a node is what
\* it still has to send, in order of height, without a gap.
THEOREM DownloadKept == Spec => []DownloadInv
<1>1. Init => DownloadInv
      BY InitInv
<1>2. DownloadInv /\ [Next]_vars => DownloadInv'
      BY StepInv
<1> QED
    BY <1>1, <1>2, PTL DEF Spec

\* The variables of BlockSynchronizerImpl have their types, with a requester that is
\* always one of the nodes (m_headersRueqster).
THEOREM DownloadTypeCorrect == Spec => []TypeOK
<1>1. DownloadInv => TypeOK
      BY DEF DownloadInv, HeadersOK, BlocksOK, ChoiceOK, RemoteOK, FailedOK, TypeOK
<1> QED
    BY <1>1, DownloadKept, PTL

\* Whatever nodes come and go, on whatever branches, the disk thread's queue holds a
\* block only after the one it builds on (BlockStorageImpl::addBlock).
THEOREM ParentsComeFirst == Spec => []ParentFirst
<1>1. DownloadInv => ParentFirst
      BY DEF DownloadInv, BlocksOK
<1> QED
    BY <1>1, DownloadKept, PTL

\* A node is asked for a block only when we have, or await from it, all the block
\* builds on (BlockSynchronizerImpl::findBlocksToDownload).
THEOREM RequestsHaveNoGap == Spec => []NoGapInRequests
<1>1. DownloadInv => NoGapInRequests
      <2> SUFFICES ASSUME DownloadInv, NEW n \in nodes, NEW b \in info[n].requesting,
                          NEW a \in Block, IsAncestor(a, b)
                   PROVE  a \in connected \cup SeqRange(arrived) \cup info[n].requesting
          BY DEF NoGapInRequests
      <2>1. NoGap(info[n], Have)
            BY DEF DownloadInv, ChoiceOK, Recorded
      <2> QED
          BY <2>1 DEF NoGap, Have
<1> QED
    BY <1>1, DownloadKept, PTL

\* The record of a node is exactly what it still has to send, each block once, so
\* the assertions of recordRequestingBlocks and removeBlockRecord hold.
THEOREM RecordKept == Spec => []RecordIsOutstanding
<1>1. DownloadInv => RecordIsOutstanding
      <2> SUFFICES ASSUME DownloadInv
                   PROVE  RecordIsOutstanding
          OBVIOUS
      <2>1. failed \notin {"BlockSynchronizer:269", "BlockSynchronizer:280"}
            BY DEF DownloadInv, FailedOK
      <2>2. ASSUME NEW n \in nodes
            PROVE  /\ info[n].requesting = {asked[n][k].block : k \in BlocksAsked(asked[n])}
                   /\ \A j, k \in BlocksAsked(asked[n]) :
                         asked[n][j].block = asked[n][k].block => j = k
            <3>1. n \in Node
                  BY DEF DownloadInv, ChoiceOK
            <3>2. AsksFor(info[n], asked[n]) /\ Ascends(asked[n]) /\ asked[n] \in Seq(Request)
                  BY <3>1 DEF DownloadInv, ChoiceOK, Recorded
            <3>3. \A k \in BlocksAsked(asked[n]) : k \in Nat /\ asked[n][k].block \in Block
                  <4>1. \A k \in BlocksAsked(asked[n]) : k \in Nat /\ asked[n][k] \in Request
                        BY <3>2, ElementOfSeq DEF BlocksAsked
                  <4> QED
                      BY <4>1 DEF Request
            <3>4. ASSUME NEW j \in BlocksAsked(asked[n]), NEW k \in BlocksAsked(asked[n]),
                         asked[n][j].block = asked[n][k].block
                  PROVE  j = k
                  <4>1. Height(asked[n][j].block) \in Nat
                        BY <3>3, PathFacts
                  <4>2. ~ (j < k) /\ ~ (k < j)
                        BY <3>2, <3>4, <4>1 DEF Ascends
                  <4> QED
                      BY <4>2, <3>3
            <3> QED
                BY <3>2, <3>4 DEF AsksFor
      <2> QED
          BY <2>1, <2>2 DEF RecordIsOutstanding
<1> QED
    BY <1>1, DownloadKept, PTL
=============================================================================
