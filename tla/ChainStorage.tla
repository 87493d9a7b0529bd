---------------------------- MODULE ChainStorage ----------------------------
(***************************************************************************)
(* The storage engine: BlockCache (storage/BlockCache.cpp) with the block  *)
(* files and the task queue of BlockStorage, the index database, the best  *)
(* chain (BlockChain.cpp), the coin cache and the transaction checks of    *)
(* Validator.cpp.                                                          *)
(*                                                                         *)
(* Two threads run it and share its memory without a lock.  The MAIN       *)
(* thread (the network io_service) adds headers and blocks; adding a       *)
(* header may flush.  The DISK thread (the disk io_service) takes tasks    *)
(* from a queue: write a block's bytes, connect a written block, write a   *)
(* batch of index entries; connecting may flush too.  A step of this       *)
(* module is a stretch of one thread's code that touches the shared        *)
(* objects once, so the two threads interleave between those.              *)
(*                                                                         *)
(* The build keeps its assertions, so one that fails ends the process:     *)
(* "failed" names it by file and line.  Restart stands for any end of the  *)
(* process (a crash, a kill, a failed assertion) followed by load().       *)
(*                                                                         *)
(* Simplified: a header comes after its parent's; scripts, amounts and the *)
(* proof of work hold; a data race does no worse than interleave the       *)
(* steps; databases write a batch wholly or not at all.                    *)
(***************************************************************************)
EXTENDS CoinView, FiniteSets

CONSTANTS
    Txs,            \* a block's transactions, the coinbase first
    Exempt,         \* Compatibility: the blocks that may repeat a transaction
    Peer,           \* the nodes blocks are downloaded from
    Overlap         \* whether a flush of the main thread may run while the
                    \* disk thread connects a block

ASSUME ContentAssumption ==
    /\ Txs \in [Block -> Seq(Transaction)]
    /\ Exempt \subseteq Block
    /\ Overlap \in BOOLEAN

Ins(b)  == UNION {Txs[b][k].ins : k \in 1..Len(Txs[b])}
Outs(b) == UNION {Txs[b][k].outs : k \in 1..Len(Txs[b])}

VARIABLES
    known,      \* m_blocks: the headers in memory
    stored,     \* those of them that have BLOCK_HAVE_DATA
    dirty,      \* m_dirtyBlocks
    chain,      \* m_chain: the best chain, the block of height h at h + 1
    view,       \* CoinView::m_coinsData
    queue,      \* the tasks posted to the disk io_service
    frontier,   \* per node, the last block we have in common with it
    announced,  \* per node, the last block of the batch requested from it
    mainPc,     \* where the main thread is in BlockCache::flush
    diskPc,     \* where the disk thread is in onBlockWritten
    diskBlock,  \* the block it connects
    diskTx,     \* its next transaction to transfer
    files,      \* the blocks whose bytes are in the block files
    indexDB,    \* blocks/index: the headers, and those saved with their data
    coinDB,     \* chainstate
    failed      \* the assertion that ended the process, or "none"

memory  == <<known, stored, dirty, chain, view>>
threads == <<mainPc, diskPc, diskBlock, diskTx>>
disk    == <<files, indexDB, coinDB>>
peers   == <<frontier, announced>>
vars == <<memory, queue, peers, threads, disk, failed>>

\* Faulty variants: a block is signalled as written without the writing, or
\* written again and never signalled.
UnwrittenTask(b) == [op |-> "written", block |-> b]
RewriteTask(b)   == [op |-> "write", block |-> b]

WriteTask(b)   == [op |-> "write", block |-> b]
WrittenTask(b) == [op |-> "written", block |-> b]
FlushTask(S)   == [op |-> "flush", blocks |-> S]

Task == [op : {"write", "written"}, block : Block]
        \cup [op : {"flush"}, blocks : SUBSET Block]

TypeOK ==
    /\ known \subseteq Block
    /\ stored \subseteq Block
    /\ dirty \subseteq Block
    /\ chain \in Seq(Block) \ {<<>>}
    /\ IsView(view)
    /\ queue \in Seq(Task)
    /\ frontier \in [Peer -> Block \cup {NoBlock}]
    /\ announced \in [Peer -> Block \cup {NoBlock}]
    /\ mainPc \in {"idle", "write", "clear"}
    /\ diskPc \in {"idle", "write", "clear", "verify", "tip", "best",
                   "transfer", "end"}
    /\ diskBlock \in Block \cup {NoBlock}
    /\ diskTx \in Nat
    /\ diskPc # "idle" => diskBlock \in Block
    /\ diskPc = "transfer" => diskTx \in 1..Len(Txs[diskBlock])
    /\ files \subseteq Block
    /\ indexDB \in [known : SUBSET Block, stored : SUBSET Block]
    /\ IsCoinDB(coinDB)
    /\ failed \in {"none", "BlockCache:106", "BlockCache:207", "CoinDB:84",
                   "CoinView:79", "CoinView:118", "CoinView:129",
                   "CoinView:145", "Validator:150", "Validator:206"}

Tip == chain[Len(chain)]
-----------------------------------------------------------------------------
(* BlockChain::setTip: resize, then walk back from the new tip to the first *)
(* block the array already holds at its height.                            *)

\* Faulty variant: entries of the array are kept without a look at them.
SetTipBlindly(c, b) ==
    [h \in 1..Len(Path[b]) |-> IF h <= Len(c) THEN c[h] ELSE Path[b][h]]

SetTip(c, b) ==
    [h \in 1..Len(Path[b]) |->
        IF \E j \in h..Len(Path[b]) : j <= Len(c) /\ c[j] = Path[b][j]
        THEN c[h] ELSE Path[b][h]]
-----------------------------------------------------------------------------
Up == failed = "none"
Fail(assertion) == failed' = assertion

MainFree == Up /\ mainPc = "idle"
DiskMoves == Up /\ (Overlap \/ mainPc = "idle")

\* Faulty variants: a batch overtakes the queue; the dirty entries are
\* discarded before they are handed over.
PostFlushFirst(marked) ==
    /\ dirty' = {}
    /\ queue' = <<FlushTask(marked)>> \o queue

PostFlushEmpty(marked) ==
    /\ dirty' = {}
    /\ queue' = Append(queue, FlushTask({}))

\* BlockCache::flush up to the coins: the dirty entries leave in a task.
PostFlush(marked) ==
    /\ dirty' = {}
    /\ queue' = Append(queue, FlushTask(marked))

\* BlockCache::addBlockIndex of a new header, from handleHeaders.  checkFlush
\* looks at a timer that may or may not have run out.
AddHeader(b) ==
    /\ MainFree
    /\ b \notin known
    /\ Parent(b) \in known
    /\ known' = known \cup {b}
    /\ \/ /\ dirty' = dirty \cup {b}
          /\ UNCHANGED <<queue, mainPc>>
       \/ /\ Overlap \/ diskPc = "idle"
          /\ PostFlush(dirty \cup {b})
          /\ mainPc' = "write"
    /\ UNCHANGED <<stored, chain, view, peers, diskPc, diskBlock, diskTx,
                   disk, failed>>

\* CoinView::flush on the main thread: writeCoins, then clear the cache.
MainWriteCoins ==
    /\ Up
    /\ mainPc = "write"
    /\ IF FlushAsserts(view)
       THEN /\ coinDB' = WriteCoins(view, coinDB)
            /\ mainPc' = "clear"
            /\ UNCHANGED failed
       ELSE /\ Fail("CoinView:129")
            /\ UNCHANGED <<coinDB, mainPc>>
    /\ UNCHANGED <<memory, queue, peers, diskPc, diskBlock, diskTx, files,
                   indexDB>>

MainClearCoins ==
    /\ Up
    /\ mainPc = "clear"
    /\ view' = Cleared(view)
    /\ mainPc' = "idle"
    /\ UNCHANGED <<known, stored, dirty, chain, queue, peers, diskPc,
                   diskBlock, diskTx, disk, failed>>

\* requestBlocks, once node p has delivered its last batch: findBlocksToDownload
\* takes the best block t that the node has announced (its work never falls,
\* updateBlockAvailability) if that has at least the work of our tip, and asks
\* for the blocks between t and the last one we have in common.  The first
\* guess for that is our tip.  A batch (128 blocks) reaches up to t.
RequestBlocks(p, t) ==
    /\ MainFree
    /\ frontier[p] = announced[p]
    /\ t \in known
    /\ announced[p] # NoBlock => ChainWork[t] >= ChainWork[announced[p]]
    /\ ChainWork[t] >= ChainWork[Tip]
    /\ \E a \in Block :
        /\ IsLastCommonAncestor(a, IF frontier[p] = NoBlock THEN Tip ELSE frontier[p], t)
        /\ frontier' = [frontier EXCEPT ![p] = a]
    /\ announced' = [announced EXCEPT ![p] = t]
    /\ UNCHANGED <<memory, queue, threads, disk, failed>>

\* handleBlock: BlockCache::addBlock of the next block of the batch; a node
\* answers in the order of the request.  writeBlock posts the task.
AddBlock(p, b) ==
    /\ MainFree
    /\ announced[p] # NoBlock
    /\ IsAncestor(b, announced[p])
    /\ Height(b) = Height(frontier[p]) + 1
    /\ frontier' = [frontier EXCEPT ![p] = b]
    /\ queue' = Append(queue, WriteTask(b))
    /\ UNCHANGED <<memory, announced, threads, disk, failed>>
-----------------------------------------------------------------------------
NextTask(op) ==
    /\ DiskMoves
    /\ diskPc = "idle"
    /\ queue # <<>>
    /\ Head(queue).op = op

\* BlockStorage::doWriteBlock
DoWriteBlock ==
    /\ NextTask("write")
    /\ files' = files \cup {Head(queue).block}
    /\ queue' = Append(Tail(queue), WrittenTask(Head(queue).block))
    /\ UNCHANGED <<memory, peers, threads, indexDB, coinDB, failed>>

\* BlockStorage::doFlush saves the entries as they are by now.
DoFlush ==
    /\ NextTask("flush")
    /\ LET S == Head(queue).blocks
       IN  indexDB' = [known |-> indexDB.known \cup S,
                       stored |-> (indexDB.stored \ S) \cup (stored \cap S)]
    /\ queue' = Tail(queue)
    /\ UNCHANGED <<memory, peers, threads, files, coinDB, failed>>

\* signalBlockWritten, onBlockWritten: mark the entry, flush if the timer ran
\* out.
BeginConnect ==
    /\ NextTask("written")
    /\ LET b == Head(queue).block
       IN  /\ diskBlock' = b
           /\ stored' = stored \cup {b}
           /\ \/ /\ dirty' = dirty \cup {b}
                 /\ queue' = Tail(queue)
                 /\ diskPc' = "verify"
              \/ /\ dirty' = {}
                 /\ queue' = Append(Tail(queue), FlushTask(dirty \cup {b}))
                 /\ diskPc' = "write"
    /\ UNCHANGED <<known, chain, view, peers, mainPc, diskTx, disk, failed>>

DiskWriteCoins ==
    /\ DiskMoves
    /\ diskPc = "write"
    /\ IF FlushAsserts(view)
       THEN /\ coinDB' = WriteCoins(view, coinDB)
            /\ diskPc' = "clear"
            /\ UNCHANGED failed
       ELSE /\ Fail("CoinView:129")
            /\ UNCHANGED <<coinDB, diskPc>>
    /\ UNCHANGED <<memory, queue, peers, mainPc, diskBlock, diskTx, files,
                   indexDB>>

DiskClearCoins ==
    /\ DiskMoves
    /\ diskPc = "clear"
    /\ view' = Cleared(view)
    /\ diskPc' = "verify"
    /\ UNCHANGED <<known, stored, dirty, chain, queue, peers, mainPc,
                   diskBlock, diskTx, disk, failed>>

\* Validator::verifyTransactions: no output of the block is a coin already
\* (checkDuplicateTransaction), every input is a coin or an output of the
\* block (verifyTransactionInputs).
CheckedOuts(b) == IF b \in Exempt THEN {} ELSE Outs(b)

VerifyError(b) ==
    LET seen == Cached(view, coinDB, CheckedOuts(b))
    IN  IF ~ FetchAsserts(view, coinDB, CheckedOuts(b)) THEN "CoinView:118"
        ELSE IF \E o \in CheckedOuts(b) : HasCoin(view, coinDB, o)
             THEN "Validator:150"
        ELSE IF ~ FetchAsserts(seen, coinDB, Ins(b)) THEN "CoinView:118"
        ELSE IF \E o \in Ins(b) \ Outs(b) : ~ HasCoin(view, coinDB, o)
             THEN "Validator:206"
        ELSE "none"

VerifyTransactions ==
    /\ DiskMoves
    /\ diskPc = "verify"
    /\ failed' = VerifyError(diskBlock)
    /\ IF failed' = "none"
       THEN /\ view' = Cached(view, coinDB,
                              CheckedOuts(diskBlock) \cup Ins(diskBlock))
            /\ diskPc' = "tip"
       ELSE UNCHANGED <<view, diskPc>>
    /\ UNCHANGED <<known, stored, dirty, chain, queue, peers, mainPc,
                   diskBlock, diskTx, disk>>

\* updateCoins: the block becomes the tip, whatever its work ...
ConnectTip ==
    /\ DiskMoves
    /\ diskPc = "tip"
    /\ chain' = SetTip(chain, diskBlock)
    /\ diskPc' = "best"
    /\ UNCHANGED <<known, stored, dirty, view, queue, peers, mainPc,
                   diskBlock, diskTx, disk, failed>>

\* ... then the best block of the coins ...
SetBestBlockHash ==
    /\ DiskMoves
    /\ diskPc = "best"
    /\ view' = [view EXCEPT !.best = diskBlock, !.height = Height(diskBlock)]
    /\ diskTx' = 1
    /\ diskPc' = IF Txs[diskBlock] = <<>> THEN "end" ELSE "transfer"
    /\ UNCHANGED <<known, stored, dirty, chain, queue, peers, mainPc,
                   diskBlock, disk, failed>>

\* ... and its transactions move the coins, one after the other.
TransferTx ==
    LET tx == Txs[diskBlock][diskTx]
    IN  /\ DiskMoves
        /\ diskPc = "transfer"
        /\ failed' = TransferError(view, coinDB, tx, Height(diskBlock))
        /\ IF failed' = "none"
           THEN /\ view' = Transfer(view, tx, Height(diskBlock))
                /\ diskTx' = diskTx + 1
                /\ diskPc' = IF diskTx = Len(Txs[diskBlock])
                             THEN "end" ELSE "transfer"
           ELSE UNCHANGED <<view, diskTx, diskPc>>
        /\ UNCHANGED <<known, stored, dirty, chain, queue, peers, mainPc,
                       diskBlock, disk>>

\* The assertion that ends onBlockWritten.
EndConnect ==
    /\ DiskMoves
    /\ diskPc = "end"
    /\ IF Len(chain) - 1 = view.height
       THEN /\ diskPc' = "idle"
            /\ diskBlock' = NoBlock
            /\ diskTx' = 0
            /\ UNCHANGED failed
       ELSE /\ Fail("BlockCache:106")
            /\ UNCHANGED <<diskPc, diskBlock, diskTx>>
    /\ UNCHANGED <<memory, queue, peers, mainPc, disk>>
-----------------------------------------------------------------------------
(* BlockCacheImpl::load, before the threads start: the index and the best  *)
(* block from the databases; without a genesis block, loadGenesisBlock     *)
(* adds and saves it and flushes; loadChainTip asserts that the best block *)
(* is in the index.                                                        *)

LoadFrom(idb, cdb) ==
    LET fresh == Genesis \notin idb.known
    IN  /\ known' = idb.known \cup {Genesis}
        /\ stored' = idb.stored
        /\ dirty' = {}
        /\ queue' = IF fresh
                    THEN <<WriteTask(Genesis), FlushTask({Genesis})>>
                    ELSE <<>>
        /\ view' = LoadView(cdb)
        /\ failed' = IF ~ LoadAsserts(cdb) THEN "CoinDB:84"
                     ELSE IF cdb.best \notin known' \cup {NoBlock}
                          THEN "BlockCache:207"
                     ELSE "none"
        /\ chain' = IF cdb.best \in known'
                    THEN SetTip(<<Genesis>>, cdb.best) ELSE <<Genesis>>
        /\ frontier' = [p \in Peer |-> NoBlock]
        /\ announced' = [p \in Peer |-> NoBlock]
        /\ mainPc' = "idle"
        /\ diskPc' = "idle"
        /\ diskBlock' = NoBlock
        /\ diskTx' = 0

Restart ==
    /\ LoadFrom(indexDB, coinDB)
    /\ UNCHANGED disk

EmptyIndex == [known |-> {}, stored |-> {}]
EmptyCoins == [best |-> NoBlock, coins |-> EmptyMap]

\* The first start, on empty databases.
Init ==
    /\ known = {Genesis}
    /\ stored = {}
    /\ dirty = {}
    /\ chain = <<Genesis>>
    /\ view = LoadView(EmptyCoins)
    /\ queue = <<WriteTask(Genesis), FlushTask({Genesis})>>
    /\ frontier = [p \in Peer |-> NoBlock]
    /\ announced = [p \in Peer |-> NoBlock]
    /\ mainPc = "idle"
    /\ diskPc = "idle"
    /\ diskBlock = NoBlock
    /\ diskTx = 0
    /\ files = {}
    /\ indexDB = EmptyIndex
    /\ coinDB = EmptyCoins
    /\ failed = "none"

MainStep ==
    \/ \E b \in Block : AddHeader(b)
    \/ MainWriteCoins
    \/ MainClearCoins
    \/ \E p \in Peer, t \in Block : RequestBlocks(p, t)
    \/ \E p \in Peer, b \in Block : AddBlock(p, b)

DiskStep ==
    \/ DoWriteBlock
    \/ DoFlush
    \/ BeginConnect
    \/ DiskWriteCoins
    \/ DiskClearCoins
    \/ VerifyTransactions
    \/ ConnectTip
    \/ SetBestBlockHash
    \/ TransferTx
    \/ EndConnect

Next == MainStep \/ DiskStep \/ Restart

Spec == Init /\ [][Next]_vars

\* The io_services run their threads as long as there is work; the flush of
\* the main thread is straight-line code.
FairSpec == Spec /\ WF_vars(DiskStep) /\ WF_vars(MainWriteCoins \/ MainClearCoins)
-----------------------------------------------------------------------------
(* Safety *)

Closed(S) == \A b \in S : \A i \in 1..Len(Path[b]) : Path[b][i] \in S

\* The array of the best chain is at all times the branch of its own tip, from
\* the genesis block up without a gap, whatever forks setTip jumps between and
\* although its walk stops at the first entry that agrees (BlockChain.cpp:45).
ChainIsBranch == chain = Path[Tip]

\* A saved index entry says BLOCK_HAVE_DATA only of a block whose bytes are in
\* the block files, after any crash: the mark is set when the write has been
\* done, and the entries are saved by the thread that sets it.
DataBeforeIndex == indexDB.stored \subseteq files

\* The saved index holds every ancestor of every header it holds, so that a
\* restart links all entries: flushes of both threads leave in one queue, and
\* a header is in an earlier batch than its children or in the same one.
IndexClosed == Closed(indexDB.known)

\* The headers in the index once the first n tasks of the queue have run.
Batch(task) == IF task.op = "flush" THEN task.blocks ELSE {}
IndexAfter(saved, tasks, n) == saved \cup UNION {Batch(tasks[i]) : i \in 1..n}
Indexed == IndexAfter(indexDB.known, queue, Len(queue))

\* The block the coins were saved for is in the saved index, or in a batch
\* that is on its way there: flush posts the batch before it saves the coins.
BestIsIndexed == Up /\ coinDB.best # NoBlock => coinDB.best \in Indexed

\* Blocks that one node delivers in order, with no flush of the main thread
\* inside a connection, fail no assertion of the engine but the one that a
\* restart meets when the last batch of the index was lost.
OnlyLoadFails == failed \in {"none", "BlockCache:207"}

\* The heights that the engine compares agree at any step: wherever a flush of
\* the other thread, its clearing of the coins or a restart falls, a connection
\* ends with the chain as high as the coins' best block, no coin is added above
\* that height, and no saved coin is without a best block.
HeightsAgree == failed \notin {"BlockCache:106", "CoinView:145", "CoinDB:84"}

\* README.md, Block: a verified block becomes the latest block of the best
\* chain if its accumulated work is the greatest.
TipHasMostWork == [][ConnectTip => ChainWork[Tip'] >= ChainWork[Tip]]_vars

\* BlockCache.cpp:207 asserts that the best block of the coins is in the index.
LoadFindsBestBlock == failed # "BlockCache:207"

\* Validator.cpp:206 asserts that every input of a connected block has a coin.
InputsHaveCoins == failed # "Validator:206"

\* Validator.cpp:150 asserts that no output of a connected block is a coin yet.
NoBlockConnectsTwice == failed # "Validator:150"

(* Liveness *)

\* The engine catches up with what it was given: again and again the last
\* block a node delivered is in the chain (or the process has ended).
CatchesUp ==
    \A p \in Peer :
        []<>(~ Up \/ frontier[p] = NoBlock \/ \E i \in 1..Len(chain) : chain[i] = frontier[p])
=============================================================================
