---------------------------- MODULE HeaderIndex ----------------------------
(***************************************************************************)
(* The index of headers when they come in any order (BlockCache's          *)
(* addBlockIndex, flush and sortOutBlocks).  A header may come before its  *)
(* parent: its entry then has no parent and height 0.  The next start      *)
(* links it to what was saved, but its height stays.  A header without     *)
(* proof of work leaves a null entry.  ChainStorage has the rest of the    *)
(* storage engine, with headers in order.                                  *)
(*                                                                         *)
(* The main thread adds headers; the disk thread runs the tasks that save  *)
(* entries.  The process may be stopped and started again at any time, and *)
(* the timer of checkFlush may have run out at any entry.                  *)
(*                                                                         *)
(* Simplified: no block but the genesis block is connected yet, and no     *)
(* node has been asked for blocks before; a number that no constructor     *)
(* sets (chainWork of an entry just loaded) is 0.                          *)
(***************************************************************************)
EXTENDS BlockTree, SequencesExt

CONSTANTS
    Invalid         \* the headers that checkProofOfWork refuses

ASSUME InvalidAssumption == Invalid \subseteq Block \ {Genesis}

\* The proof of a block is an arith_uint256: no block takes work away.
ASSUME ProofAssumption ==
    \A b \in Block \ {Genesis} : ChainWork[Parent(b)] <= ChainWork[b]

VARIABLES
    index,          \* m_blocks: the entries that are not null
    nulls,          \* the hashes m_blocks has a null entry for
    bestHeader,     \* m_bestHeader
    dirty,          \* m_dirtyBlocks
    queue,          \* the disk io_service: the entries each doFlush will save
    todo,           \* load: the entries updateChainWork has not come to
    saved,          \* DB_BLOCK_INDEX: header to height
    failed          \* the line that ended the process, or "none"

memory == <<index, nulls, bestHeader, dirty, queue>>
vars == <<memory, todo, saved, failed>>

\* The height is saved; the rest is found again at the start.
Entry == [height : Nat, previous : Block \cup {NoBlock}, chainWork : Nat]

Known == DOMAIN index

TypeOK ==
    /\ Known \subseteq Block \ Invalid
    /\ index \in [Known -> Entry]
    /\ nulls \subseteq Invalid
    /\ bestHeader \in Known \cup {NoBlock}
    /\ todo \subseteq Known
    /\ dirty \subseteq Known
    /\ queue \in Seq(SUBSET Known)
    /\ DOMAIN saved \subseteq Block \ Invalid
    /\ saved \in [DOMAIN saved -> Nat]
    /\ failed \in {"none", "BlockSynchronizer:100", "BlockSynchronizer:251",
                   "BlockCache:141", "BlockChain:129"}

\* load has returned: the threads run.
Up == failed = "none" /\ todo = {} /\ Genesis \in Known

\* header.previousBlockHash
PreviousHash(b) == IF b = Genesis THEN NoBlock ELSE Parent(b)

\* Consensus::calcBlockProof: the work of the block alone.
BlockProof(b) ==
    IF b = Genesis THEN ChainWork[b] ELSE ChainWork[b] - ChainWork[Parent(b)]

\* validateBlockHeader
ValidHeader(b) == b \notin Invalid
-----------------------------------------------------------------------------
(* updateBlockInfo: the work of b's chain, and the best header with it.     *)

\* Faulty variant: the best header is the highest.
IsHigher(entries, best, b) == entries[best].height < entries[b].height

\* Of two headers with the same work the first one stays the best.
IsBetter(entries, best, b) == entries[best].chainWork < entries[b].chainWork

UpdateBlockInfo(info, b) ==
    LET p == info.index[b].previous
        entries == [info.index EXCEPT ![b].chainWork =
                       BlockProof(b)
                       + (IF p = NoBlock THEN 0 ELSE info.index[p].chainWork)]
    IN  [index |-> entries,
         best |-> IF info.best = NoBlock \/ IsBetter(entries, info.best, b)
                  THEN b ELSE info.best]

\* createBlockIndex and the link to the parent's entry, if there is one.
WithEntry(b) ==
    LET p == PreviousHash(b)
        entry == IF p \in Known
                 THEN [height |-> index[p].height + 1, previous |-> p,
                       chainWork |-> 0]
                 ELSE [height |-> 0, previous |-> NoBlock, chainWork |-> 0]
    IN  [x \in Known \cup {b} |-> IF x = b THEN entry ELSE index[x]]

\* markDirtyBlock; if checkFlush finds that the timer has run out, what is
\* dirty is posted to the disk thread.
MarkDirty(b) ==
    \/ dirty' = dirty \cup {b} /\ UNCHANGED queue
    \/ dirty' = {} /\ queue' = Append(queue, dirty \cup {b})

\* addBlockIndex of a header that has no entry yet, from handleHeaders; last:
\* it ends its message, and handleHeaders asserts that it has an entry.
AddHeader(b, last) ==
    /\ Up
    /\ b \notin Known
    /\ IF ~ ValidHeader(b)
       THEN /\ nulls' = nulls \cup {b}
            /\ failed' = IF last THEN "BlockSynchronizer:100" ELSE failed
            /\ UNCHANGED <<index, bestHeader, dirty, queue>>
       ELSE IF PreviousHash(b) \in nulls        \* a null parent is followed
       THEN /\ failed' = "BlockCache:141"
            /\ UNCHANGED memory
       ELSE /\ LET info == UpdateBlockInfo(
                               [index |-> WithEntry(b), best |-> bestHeader], b)
               IN  index' = info.index /\ bestHeader' = info.best
            /\ MarkDirty(b)
            /\ UNCHANGED <<nulls, failed>>
    /\ UNCHANGED <<todo, saved>>

\* handleHeaders goes on to checkRequestBlocks: b is the last header of its
\* message and the best block of a node that was not asked yet.
\* findBlocksToDownload looks for the last block b has in common with our
\* chain, the genesis block, and does nothing else if that is b itself.
\* An entry's parent is its header's (ParentsAreTrue), so that the walk back
\* follows the path of the block, as far as the entries are linked.
StepBack(b, k) == Path[b][Len(Path[b]) - k]

Back(b, n) ==
    IF /\ n < Len(Path[b])
       /\ \A k \in 0..(n - 1) : index[StepBack(b, k)].previous # NoBlock
    THEN StepBack(b, n)
    ELSE NoBlock

FindCommon(b) ==
    /\ Up
    /\ b \in Known
    /\ index[b].chainWork >= index[Genesis].chainWork
    /\ LET y == Back(b, index[b].height)        \* getAncestor(0)
       IN  /\ y \notin {Genesis, NoBlock}      \* (see EnoughLinks)
           /\ failed' = IF index[y].previous = NoBlock
                        THEN "BlockSynchronizer:251" ELSE "BlockChain:129"
    /\ UNCHANGED <<memory, todo, saved>>
-----------------------------------------------------------------------------
\* Faulty variant: the disk thread takes the newest task first.
Newest(tasks) == Len(tasks)

FirstPosted(tasks) == 1

\* doFlush, writeBlocks
DoFlush ==
    /\ Up
    /\ queue # <<>>
    /\ LET task == queue[FirstPosted(queue)]
       IN  saved' = [b \in DOMAIN saved \cup task |->
                        IF b \in task THEN index[b].height ELSE saved[b]]
    /\ queue' = RemoveAt(queue, FirstPosted(queue))
    /\ UNCHANGED <<index, nulls, bestHeader, dirty, todo, failed>>
-----------------------------------------------------------------------------
(* load, before the threads start.                                          *)

\* updatePreviousBlock: every entry is linked to its parent's, if that was
\* saved too.
Linked ==
    [b \in DOMAIN saved |->
        [height |-> saved[b],
         previous |-> IF PreviousHash(b) \in DOMAIN saved
                      THEN PreviousHash(b) ELSE NoBlock,
         chainWork |-> 0]]

\* Faulty variant: the entries are not sorted.
AnyOf(S) == S

Lowest(S) == {b \in S : \A c \in S : saved[b] <= saved[c]}

\* A start after a stop or a failure, at any time: the entries are read.
Restart ==
    /\ index' = Linked
    /\ todo' = DOMAIN saved
    /\ bestHeader' = NoBlock
    /\ nulls' = {}
    /\ dirty' = {}
    /\ queue' = <<>>
    /\ failed' = "none"
    /\ UNCHANGED saved

\* updateChainWork sorts by height; entries of the same height are in the
\* order of their addresses, which may be any.
UpdateChainWork(b) ==
    /\ b \in Lowest(todo)
    /\ LET info == UpdateBlockInfo([index |-> index, best |-> bestHeader], b)
       IN  index' = info.index /\ bestHeader' = info.best
    /\ todo' = todo \ {b}
    /\ UNCHANGED <<nulls, dirty, queue, saved, failed>>

\* loadGenesisBlock of an empty database, which flushes.
LoadGenesisBlock ==
    /\ todo = {}
    /\ Genesis \notin Known
    /\ LET info == UpdateBlockInfo([index |-> WithEntry(Genesis),
                                    best |-> bestHeader], Genesis)
       IN  index' = info.index /\ bestHeader' = info.best
    /\ queue' = <<dirty \cup {Genesis}>>
    /\ dirty' = {}
    /\ UNCHANGED <<nulls, todo, saved, failed>>

\* The first start.
Init ==
    /\ saved = <<>>
    /\ index = Linked
    /\ todo = {}
    /\ bestHeader = NoBlock
    /\ nulls = {}
    /\ dirty = {}
    /\ queue = <<>>
    /\ failed = "none"

Next ==
    \/ \E b \in Block, last \in BOOLEAN : AddHeader(b, last)
    \/ \E b \in Block : FindCommon(b)
    \/ DoFlush
    \/ Restart
    \/ \E b \in Block : UpdateChainWork(b)
    \/ LoadGenesisBlock

Spec == Init /\ [][Next]_vars
-----------------------------------------------------------------------------
(* Properties                                                              *)

\* BlockIndex::getAncestor asserts that an entry has as many parents behind
\* it as its height says (Block.cpp:131).  The height comes from before the
\* restart, the links from what was saved by then.
EnoughLinks ==
    \A b \in Known : Back(b, index[b].height) # NoBlock

\* Once load has come to it, an entry with the height of its block also has
\* the work of its block's whole chain, however many entries around it came
\* too early and in whatever order updateChainWork finds the entries of the
\* same height.
HeightVouchesForWork ==
    \A b \in Known \ todo :
        index[b].height = Height(b) => index[b].chainWork = ChainWork[b]

\* The header requests start from the best header: no entry has more work,
\* and if every header came after its parent's, no header does.
BestIsHeaviest ==
    \A b \in Known \ todo :
        /\ bestHeader \in Known \ todo
        /\ index[b].chainWork <= index[bestHeader].chainWork
        /\ (\A x \in Known : index[x].height = Height(x))
               => ChainWork[b] <= ChainWork[bestHeader]

\* findLastCommonAncestor: "Eventually all chain branches meet at the genesis
\* block" (BlockChain.cpp:128), asserted at the next line.
BranchesMeet == failed # "BlockChain:129"
=============================================================================
