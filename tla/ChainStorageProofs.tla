------------------------- MODULE ChainStorageProofs -------------------------
(***************************************************************************)
(* Proofs about the storage engine, for every tree of blocks, every choice *)
(* of their transactions, every set of nodes and with or without the       *)
(* overlapping flush: the types; the safety of the chain, the files and    *)
(* the index under any interleaving of the two threads, crashes included;  *)
(* that the heights the engine compares agree; and that it implements the  *)
(* ledger of the coins.                                                    *)
(***************************************************************************)
EXTENDS ChainLedger, SequenceTheorems, TLAPS

-----------------------------------------------------------------------------
(* The operators of CoinView keep the types of the cache and the database. *)

\* A cache is the record of its four fields.
LEMMA ViewFields ==
    ASSUME NEW v, IsView(v)
    PROVE  v = [best |-> v.best, height |-> v.height,
                added |-> v.added, removed |-> v.removed]
BY DEF IsView

\* CoinView::fetchCoin caches a well-formed entry for what it looked up.
LEMMA CachedType ==
    ASSUME NEW v, IsView(v), NEW d, IsCoinDB(d), NEW S, S \subseteq Out
    PROVE  IsView(Cached(v, d, S))
<1> DEFINE missed == (S \ v.removed) \ DOMAIN v.added
           added == [o \in DOMAIN v.added \cup missed |->
                        IF o \in missed
                        THEN [coin |-> Lookup(v, d, o), dirty |-> FALSE]
                        ELSE v.added[o]]
<1>1. \A o \in missed : Lookup(v, d, o) \in Coin
  BY DEF Lookup, Coin, NoCoin, IsCoinDB, IsOutMap
<1>2. IsOutMap(added, CoinEntry)
  BY <1>1 DEF IsView, IsOutMap, CoinEntry
<1>3. Cached(v, d, S) = [v EXCEPT !.added = added]
  BY DEF Cached
<1>4. Cached(v, d, S) = [best |-> v.best, height |-> v.height,
                         added |-> added, removed |-> v.removed]
  BY <1>3 DEF IsView
<1>5. QED
  BY <1>2, <1>4 DEF IsView

\* CoinView::transfer keeps the cache well formed.
LEMMA TransferType ==
    ASSUME NEW v, IsView(v), NEW tx \in Transaction, NEW h \in Nat
    PROVE  IsView(Transfer(v, tx, h))
<1> DEFINE added == [o \in (DOMAIN v.added \ tx.ins) \cup tx.outs |->
                        IF o \in tx.outs
                        THEN [coin |-> h, dirty |-> TRUE]
                        ELSE v.added[o]]
<1>1. IsOutMap(added, CoinEntry)
  BY DEF IsView, IsOutMap, CoinEntry, Coin, Transaction
<1>2. Transfer(v, tx, h) = [best |-> v.best, height |-> v.height,
                            added |-> added, removed |-> v.removed \cup tx.ins]
  <2>1. Transfer(v, tx, h) =
            [v EXCEPT !.removed = v.removed \cup tx.ins, !.added = added]
    BY DEF Transfer
  <2>2. QED
    BY <2>1, Zenon, ViewFields
<1>3. v.removed \cup tx.ins \in SUBSET Out
  BY DEF IsView, Transaction
<1>4. QED
  BY <1>1, <1>2, <1>3 DEF IsView

\* CoinDB::writeCoins keeps the database well formed.
LEMMA WriteCoinsType ==
    ASSUME NEW v, IsView(v), NEW d, IsCoinDB(d)
    PROVE  IsCoinDB(WriteCoins(v, d))
<1> DEFINE fresh == {o \in DOMAIN v.added :
                        v.added[o].dirty /\ v.added[o].coin # NoCoin}
           coins == [o \in (DOMAIN d.coins \cup fresh) \ v.removed |->
                        IF o \in fresh THEN v.added[o].coin ELSE d.coins[o]]
<1>1. \A o \in fresh : v.added[o].coin \in Nat
  BY DEF IsView, IsOutMap, CoinEntry, Coin
<1>2. IsOutMap(coins, Nat)
  BY <1>1 DEF IsView, IsCoinDB, IsOutMap
<1>3. WriteCoins(v, d) = [best |-> v.best, coins |-> coins]
  BY DEF WriteCoins
<1>4. QED
  BY <1>2, <1>3 DEF IsCoinDB, IsView

\* Clearing and loading give an empty cache.
LEMMA ClearedType ==
    ASSUME NEW v, IsView(v)
    PROVE  IsView(Cleared(v))
<1>1. Cleared(v) = [best |-> v.best, height |-> v.height,
                    added |-> EmptyMap, removed |-> {}]
  <2>1. Cleared(v) = [v EXCEPT !.added = EmptyMap, !.removed = {}]
    BY DEF Cleared
  <2>2. QED
    BY <2>1, ViewFields, Zenon
<1>2. IsOutMap(EmptyMap, CoinEntry)
  BY DEF EmptyMap, IsOutMap
<1>3. QED
  BY <1>1, <1>2 DEF IsView

LEMMA LoadViewType ==
    ASSUME NEW d, IsCoinDB(d)
    PROVE  IsView(LoadView(d))
<1>1. IsOutMap(EmptyMap, CoinEntry)
  BY DEF EmptyMap, IsOutMap
<1>2. QED
  BY <1>1 DEF LoadView, IsView, IsCoinDB
-----------------------------------------------------------------------------
(* Blocks and branches. *)

LEMMA BlockFacts ==
    ASSUME NEW b \in Block
    PROVE  /\ Len(Path[b]) \in Nat \ {0}
           /\ Height(b) \in Nat
           /\ Path[b] \in Seq(Block)
           /\ \A i \in 1..Len(Path[b]) : Path[b][i] \in Block
<1>1. Path[b] \in Seq(Block) /\ Len(Path[b]) \in Nat \ {0}
  BY TreeAssumption
<1>2. \A i \in 1..Len(Path[b]) : Path[b][i] \in Block
  BY <1>1, ElementOfSeq
<1>3. QED
  BY <1>1, <1>2 DEF Height

\* BlockChain::setTip yields the branch of the new tip, if the array held the
\* branch of the old one: where two branches agree at a height, they agree
\* below it.
LEMMA SetTipIsBranch ==
    ASSUME NEW t \in Block, NEW b \in Block
    PROVE  SetTip(Path[t], b) = Path[b]
<1>1. ASSUME NEW h \in 1..Len(Path[b]), NEW j \in h..Len(Path[b]),
             j <= Len(Path[t]), Path[t][j] = Path[b][j]
      PROVE  Path[t][h] = Path[b][h]
  <2>1. j \in 1..Len(Path[b]) /\ j \in 1..Len(Path[t])
    BY <1>1, BlockFacts
  <2>2. SubSeq(Path[t], 1, j) = SubSeq(Path[b], 1, j)
    <3>1. Path[Path[t][j]] = SubSeq(Path[t], 1, j)
      BY <2>1, TreeAssumption
    <3>2. Path[Path[b][j]] = SubSeq(Path[b], 1, j)
      BY <2>1, TreeAssumption
    <3>3. QED
      BY <1>1, <3>1, <3>2
  <2>3. h \in 1..j
    BY <1>1, BlockFacts
  <2>4. SubSeq(Path[t], 1, j)[h] = Path[t][h] /\ SubSeq(Path[b], 1, j)[h] = Path[b][h]
    BY <2>1, <2>3, BlockFacts
  <2>5. QED
    BY <2>2, <2>4
<1>2. SetTip(Path[t], b) = [h \in 1..Len(Path[b]) |-> Path[b][h]]
  BY <1>1 DEF SetTip
<1>3. QED
  BY <1>2, BlockFacts

LEMMA TxFacts ==
    ASSUME NEW b \in Block
    PROVE  /\ Len(Txs[b]) \in Nat
           /\ \A k \in 1..Len(Txs[b]) :
                /\ Txs[b][k] \in Transaction
                /\ Txs[b][k].ins \subseteq Out
                /\ Txs[b][k].outs \subseteq Out
<1>1. Txs[b] \in Seq(Transaction)
  BY ContentAssumption
<1>2. \A k \in 1..Len(Txs[b]) : Txs[b][k] \in Transaction
  BY <1>1, ElementOfSeq
<1>3. QED
  BY <1>1, <1>2 DEF Transaction

\* A function on 1..n is a sequence.
LEMMA FunctionIsSeq ==
    ASSUME NEW S, NEW n \in Nat, NEW f \in [1..n -> S]
    PROVE  f \in Seq(S) /\ Len(f) = n
<1>1. [i \in 1..n |-> f[i]] \in Seq(S) /\ Len([i \in 1..n |-> f[i]]) = n
  OBVIOUS
<1>2. QED
  BY <1>1

LEMMA SetTipType ==
    ASSUME NEW c \in Seq(Block), NEW b \in Block
    PROVE  SetTip(c, b) \in Seq(Block) \ {<<>>}
<1>1. \A h \in 1..Len(Path[b]) : SetTip(c, b)[h] \in Block
  <2>1. SUFFICES ASSUME NEW h \in 1..Len(Path[b]),
                        NEW j \in h..Len(Path[b]), j <= Len(c)
                 PROVE  c[h] \in Block
    BY BlockFacts DEF SetTip
  <2>2. Len(c) \in Nat /\ h \in 1..Len(c)
    BY <2>1, BlockFacts
  <2>3. QED
    BY <2>2, ElementOfSeq
<1>2. SetTip(c, b) \in [1..Len(Path[b]) -> Block]
  BY <1>1 DEF SetTip
<1>3. SetTip(c, b) \in Seq(Block)
  BY <1>2, BlockFacts, FunctionIsSeq
<1>4. SetTip(c, b) # <<>>
  BY <1>2, BlockFacts
<1>5. QED
  BY <1>3, <1>4
-----------------------------------------------------------------------------
(* Type correctness. *)

USE DEF memory, peers, threads, disk

LEMMA InitType == Init => TypeOK
<1>1. IsCoinDB(EmptyCoins)
  BY DEF IsCoinDB, EmptyCoins, EmptyMap, IsOutMap
<1>2. IsView(LoadView(EmptyCoins))
  BY <1>1, LoadViewType
<1>3. <<Genesis>> \in Seq(Block) \ {<<>>}
  BY TreeAssumption
<1>4. <<WriteTask(Genesis), FlushTask({Genesis})>> \in Seq(Task)
  BY TreeAssumption DEF WriteTask, FlushTask, Task
<1>5. QED
  BY <1>1, <1>2, <1>3, <1>4, TreeAssumption
  DEF Init, TypeOK, EmptyIndex, EmptyCoins

\* The steps of the main thread.
LEMMA MainType == TypeOK /\ MainStep => TypeOK'
<1> SUFFICES ASSUME TypeOK, MainStep PROVE TypeOK'
  OBVIOUS
<1>1. ASSUME NEW b \in Block, AddHeader(b) PROVE TypeOK'
  <2>1. FlushTask(dirty \cup {b}) \in Task
    BY DEF TypeOK, FlushTask, Task
  <2>2. dirty' \subseteq Block
    BY <1>1 DEF AddHeader, PostFlush, TypeOK
  <2>3. queue' \in Seq(Task)
    <3>1. queue \in Seq(Task)
      BY DEF TypeOK
    <3>2. queue' = queue \/ queue' = Append(queue, FlushTask(dirty \cup {b}))
      BY <1>1 DEF AddHeader, PostFlush
    <3>3. QED
      BY <2>1, <3>1, <3>2, AppendProperties
  <2>4. mainPc' \in {"idle", "write", "clear"}
    BY <1>1 DEF AddHeader, TypeOK
  <2>5. QED
    BY <1>1, <2>2, <2>3, <2>4 DEF AddHeader, TypeOK
<1>2. CASE MainWriteCoins
  <2>1. IsCoinDB(coinDB')
    BY <1>2, WriteCoinsType DEF MainWriteCoins, TypeOK
  <2>2. QED
    BY <1>2, <2>1 DEF MainWriteCoins, TypeOK, Fail
<1>3. CASE MainClearCoins
  <2>1. IsView(view')
    BY <1>3, ClearedType DEF MainClearCoins, TypeOK
  <2>2. QED
    BY <1>3, <2>1 DEF MainClearCoins, TypeOK
<1>4. ASSUME NEW p \in Peer, NEW t \in Block, RequestBlocks(p, t) PROVE TypeOK'
  <2>1. frontier' \in [Peer -> Block \cup {NoBlock}]
    BY <1>4 DEF RequestBlocks, TypeOK
  <2>2. announced' \in [Peer -> Block \cup {NoBlock}]
    BY <1>4 DEF RequestBlocks, TypeOK
  <2>3. QED
    BY <1>4, <2>1, <2>2 DEF RequestBlocks, TypeOK
<1>5. ASSUME NEW p \in Peer, NEW b \in Block, AddBlock(p, b) PROVE TypeOK'
  <2>1. queue' \in Seq(Task)
    BY <1>5 DEF AddBlock, TypeOK, WriteTask, Task
  <2>2. QED
    BY <1>5, <2>1 DEF AddBlock, TypeOK
<1>6. QED
  BY <1>1, <1>2, <1>3, <1>4, <1>5 DEF MainStep

\* The steps of the disk thread.
LEMMA DiskType == TypeOK /\ DiskStep => TypeOK'
<1> SUFFICES ASSUME TypeOK, DiskStep PROVE TypeOK'
  OBVIOUS
<1>1. ASSUME queue # <<>> PROVE Head(queue) \in Task /\ Tail(queue) \in Seq(Task)
  BY <1>1 DEF TypeOK
<1>2. CASE DoWriteBlock
  <2>1. Head(queue).block \in Block
    BY <1>1, <1>2 DEF DoWriteBlock, NextTask, Task
  <2>2. queue' \in Seq(Task)
    BY <1>1, <1>2, <2>1 DEF DoWriteBlock, NextTask, WrittenTask, Task
  <2>3. QED
    BY <1>2, <2>1, <2>2 DEF DoWriteBlock, TypeOK
<1>3. CASE DoFlush
  <2>1. Head(queue).blocks \subseteq Block
    BY <1>1, <1>3 DEF DoFlush, NextTask, Task
  <2>2. indexDB' \in [known : SUBSET Block, stored : SUBSET Block]
    BY <1>3, <2>1 DEF DoFlush, TypeOK
  <2>3. QED
    BY <1>1, <1>3, <2>2 DEF DoFlush, NextTask, TypeOK
<1>4. CASE BeginConnect
  <2>1. Head(queue).block \in Block
    BY <1>1, <1>4 DEF BeginConnect, NextTask, Task
  <2>2. FlushTask(dirty \cup {Head(queue).block}) \in Task
    BY <2>1 DEF TypeOK, FlushTask, Task
  <2>3. Tail(queue) \in Seq(Task)
    BY <1>1, <1>4 DEF BeginConnect, NextTask
  <2>4. /\ queue' \in Seq(Task)
        /\ dirty' \subseteq Block
        /\ diskPc' \in {"verify", "write"}
    <3>1. Append(Tail(queue), FlushTask(dirty \cup {Head(queue).block})) \in Seq(Task)
      BY <2>2, <2>3
    <3>2. QED
      BY <1>4, <2>1, <2>3, <3>1 DEF BeginConnect, TypeOK
  <2>5. QED
    BY <1>4, <2>1, <2>4 DEF BeginConnect, TypeOK
<1>5. CASE DiskWriteCoins
  <2>1. IsCoinDB(coinDB')
    BY <1>5, WriteCoinsType DEF DiskWriteCoins, TypeOK
  <2>2. QED
    BY <1>5, <2>1 DEF DiskWriteCoins, TypeOK, Fail
<1>6. CASE DiskClearCoins
  <2>1. IsView(view')
    BY <1>6, ClearedType DEF DiskClearCoins, TypeOK
  <2>2. QED
    BY <1>6, <2>1 DEF DiskClearCoins, TypeOK
<1>7. CASE VerifyTransactions
  <2>1. diskBlock \in Block
    BY <1>7 DEF VerifyTransactions, TypeOK
  <2>2. CheckedOuts(diskBlock) \cup Ins(diskBlock) \subseteq Out
    BY <2>1, TxFacts DEF CheckedOuts, Ins, Outs
  <2>3. IsView(view')
    BY <1>7, <2>2, CachedType DEF VerifyTransactions, TypeOK
  <2>4. failed' \in {"none", "CoinView:118", "Validator:150", "Validator:206"}
    BY <1>7 DEF VerifyTransactions, VerifyError
  <2>5. QED
    BY <1>7, <2>3, <2>4 DEF VerifyTransactions, TypeOK
<1>8. CASE ConnectTip
  <2>1. chain' \in Seq(Block) \ {<<>>}
    BY <1>8, SetTipType DEF ConnectTip, TypeOK
  <2>2. QED
    BY <1>8, <2>1 DEF ConnectTip, TypeOK
<1>9. CASE SetBestBlockHash
  <2>1. diskBlock \in Block
    BY <1>9 DEF SetBestBlockHash, TypeOK
  <2>2. Height(diskBlock) \in Nat
    BY <2>1, BlockFacts
  <2>3. view' = [best |-> diskBlock, height |-> Height(diskBlock),
                 added |-> view.added, removed |-> view.removed]
    <3>1. view = [best |-> view.best, height |-> view.height,
                  added |-> view.added, removed |-> view.removed]
      BY ViewFields DEF TypeOK
    <3>2. view' = [view EXCEPT !.best = diskBlock, !.height = Height(diskBlock)]
      BY <1>9 DEF SetBestBlockHash
    <3>3. QED
      BY <3>1, <3>2, Zenon
  <2>4. IsView(view')
    BY <2>1, <2>2, <2>3 DEF TypeOK, IsView
  <2>5. Txs[diskBlock] # <<>> => 1 \in 1..Len(Txs[diskBlock])
    BY <2>1, ContentAssumption
  <2>6. QED
    BY <1>9, <2>4, <2>5 DEF SetBestBlockHash, TypeOK
<1>10. CASE TransferTx
  <2>1. diskBlock \in Block /\ diskTx \in 1..Len(Txs[diskBlock])
    BY <1>10 DEF TransferTx, TypeOK
  <2>2. Txs[diskBlock][diskTx] \in Transaction /\ Height(diskBlock) \in Nat
    BY <2>1, ContentAssumption, ElementOfSeq, BlockFacts
  <2>3. IsView(view')
    BY <1>10, <2>2, TransferType DEF TransferTx, TypeOK
  <2>4. failed' \in {"none", "CoinView:118", "CoinView:79", "CoinView:145"}
    BY <1>10 DEF TransferTx, TransferError
  <2>5. Len(Txs[diskBlock]) \in Nat
    BY <2>1, ContentAssumption
  <2>6. /\ diskTx' \in Nat
        /\ diskPc' \in {"transfer", "end"}
        /\ diskPc' = "transfer" => diskTx' \in 1..Len(Txs[diskBlock])
    BY <1>10, <2>1, <2>5 DEF TransferTx, TypeOK
  <2>7. QED
    BY <1>10, <2>1, <2>3, <2>4, <2>6 DEF TransferTx, TypeOK
<1>11. CASE EndConnect
  BY <1>11 DEF EndConnect, TypeOK, Fail
<1>12. QED
  BY <1>2, <1>3, <1>4, <1>5, <1>6, <1>7, <1>8, <1>9, <1>10, <1>11 DEF DiskStep

LEMMA RestartType == TypeOK /\ Restart => TypeOK'
<1> SUFFICES ASSUME TypeOK, Restart PROVE TypeOK'
  OBVIOUS
<1>1. IsView(view')
  BY LoadViewType DEF Restart, LoadFrom, TypeOK
<1>2. <<Genesis>> \in Seq(Block) \ {<<>>}
  BY TreeAssumption
<1>3. known' \subseteq Block /\ stored' \subseteq Block
  BY TreeAssumption DEF Restart, LoadFrom, TypeOK
<1>4. chain' \in Seq(Block) \ {<<>>}
  BY <1>2, <1>3, SetTipType DEF Restart, LoadFrom
<1>5. queue' \in Seq(Task)
  <2>1. WriteTask(Genesis) \in Task /\ FlushTask({Genesis}) \in Task
    BY TreeAssumption DEF WriteTask, FlushTask, Task
  <2>2. <<WriteTask(Genesis), FlushTask({Genesis})>> \in Seq(Task) /\ <<>> \in Seq(Task)
    BY <2>1
  <2>3. QED
    BY <2>2 DEF Restart, LoadFrom
<1>6. failed' \in {"none", "CoinDB:84", "BlockCache:207"}
  BY DEF Restart, LoadFrom
<1>7. QED
  BY <1>1, <1>3, <1>4, <1>5, <1>6 DEF Restart, LoadFrom, TypeOK

\* Every variable keeps its type, the threads' positions theirs: a thread
\* inside onBlockWritten has a block, one inside updateCoins a transaction.
THEOREM TypeCorrect == Spec => []TypeOK
<1>1. TypeOK /\ UNCHANGED vars => TypeOK'
  BY DEF TypeOK, vars
<1>2. QED
  BY <1>1, InitType, MainType, DiskType, RestartType, PTL DEF Spec, Next

-----------------------------------------------------------------------------
(* What the order of the steps keeps true, crashes included. *)

USE DEF memory, peers, threads, disk

-----------------------------------------------------------------------------
(* The best chain. *)

\* A branch ends with its block.
LEMMA LastOfPath ==
    ASSUME NEW b \in Block
    PROVE  Path[b] # <<>> /\ Path[b][Len(Path[b])] = b
BY TreeAssumption, BlockFacts

\* setTip makes a branch the branch of the new tip.
LEMMA TipAfterSetTip ==
    ASSUME NEW t \in Block, NEW b \in Block, chain' = SetTip(Path[t], b)
    PROVE  ChainIsBranch'
<1>1. chain' = Path[b]
  BY SetTipIsBranch
<1>2. Tip' = b
  BY <1>1, LastOfPath DEF Tip
<1>3. QED
  BY <1>1, <1>2 DEF ChainIsBranch

\* The best chain is the branch of its tip at every moment: a connection and a
\* load are the two callers of setTip.
THEOREM BestChainIsBranch == Spec => []ChainIsBranch
<1>1. Init => ChainIsBranch
  BY TreeAssumption DEF Init, ChainIsBranch, Tip
<1>2. TypeOK /\ ChainIsBranch /\ [Next]_vars => ChainIsBranch'
  <2> SUFFICES ASSUME TypeOK, ChainIsBranch, [Next]_vars PROVE ChainIsBranch'
    OBVIOUS
  <2>1. CASE chain' = chain
    BY <2>1 DEF ChainIsBranch, Tip
  <2>2. CASE ConnectTip
    <3>1. Tip \in Block /\ diskBlock \in Block
      BY <2>2, ElementOfSeq DEF ConnectTip, TypeOK, Tip
    <3>2. QED
      BY <2>2, <3>1, TipAfterSetTip DEF ConnectTip, ChainIsBranch
  <2>3. CASE Restart
    <3>1. CASE coinDB.best \in known'
      <4>1. coinDB.best \in Block
        BY <3>1, <2>3, TreeAssumption DEF Restart, LoadFrom, TypeOK
      <4>2. chain' = SetTip(Path[Genesis], coinDB.best)
        BY <2>3, <3>1, TreeAssumption DEF Restart, LoadFrom
      <4>3. QED
        BY <4>1, <4>2, TreeAssumption, TipAfterSetTip
    <3>2. CASE coinDB.best \notin known'
      BY <2>3, <3>2, TreeAssumption DEF Restart, LoadFrom, ChainIsBranch, Tip
    <3>3. QED
      BY <3>1, <3>2
  <2>4. CASE MainStep
    BY <2>1, <2>4 DEF MainStep, AddHeader, MainWriteCoins, MainClearCoins,
                      RequestBlocks, AddBlock
  <2>5. CASE DiskStep
    BY <2>1, <2>2, <2>5
    DEF DiskStep, DoWriteBlock, DoFlush, BeginConnect, DiskWriteCoins,
        DiskClearCoins, VerifyTransactions, SetBestBlockHash, TransferTx, EndConnect
  <2>6. QED
    BY <2>1, <2>3, <2>4, <2>5 DEF Next, vars
<1>3. QED
  BY <1>1, <1>2, TypeCorrect, PTL DEF Spec
-----------------------------------------------------------------------------
(* The task queue. *)

\* A task appended is the last one; the others keep their places.
LEMMA AppendTask ==
    ASSUME NEW t \in Task, queue \in Seq(Task), queue' = Append(queue, t)
    PROVE  /\ Len(queue) \in Nat
           /\ Len(queue') = Len(queue) + 1
           /\ \A i \in 1..Len(queue) : queue'[i] = queue[i]
           /\ queue'[Len(queue')] = t
OBVIOUS

\* A task taken is the first one; the others move up.
LEMMA TakeTask ==
    ASSUME NEW q, q = Tail(queue), queue \in Seq(Task), queue # <<>>
    PROVE  /\ q \in Seq(Task)
           /\ Len(queue) \in Nat \ {0}
           /\ Len(q) = Len(queue) - 1
           /\ Head(queue) = queue[1]
           /\ \A i \in 1..Len(q) : q[i] = queue[i + 1]
OBVIOUS

\* A task of a queue is a task.
LEMMA QueuedTask ==
    ASSUME queue \in Seq(Task), NEW i \in 1..Len(queue)
    PROVE  queue[i] \in Task
BY ElementOfSeq
-----------------------------------------------------------------------------
(* The block files. *)

\* A block is marked stored, and its connection queued, after its bytes are
\* written.
DataInv ==
    /\ DataBeforeIndex
    /\ stored \subseteq files
    /\ \A i \in 1..Len(queue) : queue[i].op = "written" => queue[i].block \in files

\* A step that keeps the queue, the files and the marks keeps their invariant.
LEMMA DataKept ==
    DataInv /\ UNCHANGED <<queue, files, stored, indexDB>> => DataInv'
BY DEF DataInv, DataBeforeIndex

\* BLOCK_HAVE_DATA in the saved index is never ahead of the block files.
THEOREM DataIsBeforeIndex == Spec => []DataBeforeIndex
<1>1. Init => DataInv
  BY DEF Init, DataInv, DataBeforeIndex, EmptyIndex, WriteTask, FlushTask
<1>2. TypeOK /\ DataInv /\ [Next]_vars => DataInv'
  <2> SUFFICES ASSUME TypeOK, DataInv, [Next]_vars PROVE DataInv'
    OBVIOUS
  <2>q. queue \in Seq(Task)
    BY DEF TypeOK
  <2>1. ASSUME NEW b \in Block, AddHeader(b) PROVE DataInv'
    <3>1. CASE UNCHANGED queue
      BY <2>1, <3>1, DataKept DEF AddHeader
    <3>2. CASE PostFlush(dirty \cup {b})
      <4>1. FlushTask(dirty \cup {b}) \in Task
        BY DEF TypeOK, FlushTask, Task
      <4>2. \A i \in 1..Len(queue') : queue'[i].op = "written" =>
                i \in 1..Len(queue) /\ queue'[i] = queue[i]
        BY <2>q, <3>2, <4>1, AppendTask DEF PostFlush, FlushTask
      <4>3. QED
        BY <2>1, <4>2 DEF AddHeader, DataInv, DataBeforeIndex
    <3>3. QED
      BY <2>1, <3>1, <3>2 DEF AddHeader
  <2>2. ASSUME NEW p \in Peer, NEW b \in Block, AddBlock(p, b) PROVE DataInv'
    <3>1. WriteTask(b) \in Task
      BY DEF WriteTask, Task
    <3>2. \A i \in 1..Len(queue') : queue'[i].op = "written" =>
              i \in 1..Len(queue) /\ queue'[i] = queue[i]
      BY <2>q, <2>2, <3>1, AppendTask DEF AddBlock, WriteTask
    <3>3. QED
      BY <2>2, <3>2 DEF AddBlock, DataInv, DataBeforeIndex
  <2>3. CASE DoWriteBlock
    <3> DEFINE t == Tail(queue)
    <3>1. /\ t \in Seq(Task) /\ Len(t) \in Nat
          /\ Len(t) = Len(queue) - 1 /\ Head(queue) = queue[1]
          /\ \A i \in 1..Len(t) : t[i] = queue[i + 1]
      BY <2>q, <2>3, TakeTask DEF DoWriteBlock, NextTask
    <3> HIDE DEF t
    <3>2. queue' = Append(t, WrittenTask(Head(queue).block))
      BY <2>3 DEF DoWriteBlock, t
    <3>3. \A i \in 1..Len(queue') : queue'[i].op = "written" =>
              queue'[i].block \in files \cup {Head(queue).block}
      BY <2>q, <3>1, <3>2 DEF DataInv, WrittenTask
    <3>4. QED
      BY <2>3, <3>3 DEF DoWriteBlock, DataInv, DataBeforeIndex
  <2>4. CASE DoFlush
    <3>1. \A i \in 1..Len(queue') : i + 1 \in 1..Len(queue) /\ queue'[i] = queue[i + 1]
      BY <2>q, <2>4, TakeTask DEF DoFlush, NextTask
    <3>2. indexDB'.stored \subseteq indexDB.stored \cup stored
      BY <2>4 DEF DoFlush
    <3>3. QED
      BY <2>4, <3>1, <3>2 DEF DoFlush, DataInv, DataBeforeIndex
  <2>5. CASE BeginConnect
    <3> DEFINE t == Tail(queue)
               b == Head(queue).block
    <3>1. /\ t \in Seq(Task) /\ Len(t) \in Nat
          /\ Len(queue) \in Nat \ {0}
          /\ Len(t) = Len(queue) - 1 /\ Head(queue) = queue[1]
          /\ \A i \in 1..Len(t) : t[i] = queue[i + 1]
      BY <2>q, <2>5, TakeTask DEF BeginConnect, NextTask
    <3>2. queue[1].op = "written" /\ b = queue[1].block
      BY <2>5, <3>1 DEF BeginConnect, NextTask
    <3>3. b \in files
      BY <3>1, <3>2 DEF DataInv
    <3>4. queue' = t \/ queue' = Append(t, FlushTask(dirty \cup {b}))
      BY <2>5 DEF BeginConnect
    <3>5. UNCHANGED <<files, indexDB>> /\ stored' = stored \cup {b}
      BY <2>5 DEF BeginConnect
    <3> HIDE DEF t, b
    <3>6. \A i \in 1..Len(t) : t[i].op = "written" => t[i].block \in files
      BY <3>1 DEF DataInv
    <3>7. \A i \in 1..Len(queue') : queue'[i].op = "written" => queue'[i].block \in files
      <4>1. CASE queue' = t
        BY <3>6, <4>1
      <4>2. CASE queue' = Append(t, FlushTask(dirty \cup {b}))
        <5>1. FlushTask(dirty \cup {b}).op # "written"
          BY DEF FlushTask
        <5>2. \A i \in 1..Len(queue') :
                  \/ i \in 1..Len(t) /\ queue'[i] = t[i]
                  \/ queue'[i] = FlushTask(dirty \cup {b})
          BY <3>1, <4>2
        <5>3. QED
          BY <3>6, <5>1, <5>2
      <4>3. QED
        BY <3>4, <4>1, <4>2
    <3>8. QED
      BY <3>3, <3>5, <3>7 DEF DataInv, DataBeforeIndex
  <2>6. CASE Restart
    <3>1. queue' = <<>> \/ queue' = <<WriteTask(Genesis), FlushTask({Genesis})>>
      BY <2>6 DEF Restart, LoadFrom
    <3>2. \A i \in 1..Len(queue') : queue'[i].op # "written"
      BY <3>1 DEF WriteTask, FlushTask
    <3>3. QED
      BY <2>6, <3>2 DEF Restart, LoadFrom, DataInv, DataBeforeIndex
  <2>7. CASE UNCHANGED <<queue, files, stored, indexDB>>
    BY <2>7, DataKept
  <2>8. CASE MainStep
    BY <2>1, <2>2, <2>7, <2>8
    DEF MainStep, MainWriteCoins, MainClearCoins, RequestBlocks
  <2>9. CASE DiskStep
    BY <2>3, <2>4, <2>5, <2>7, <2>9
    DEF DiskStep, DiskWriteCoins, DiskClearCoins, VerifyTransactions, ConnectTip,
        SetBestBlockHash, TransferTx, EndConnect
  <2>10. QED
    BY <2>6, <2>7, <2>8, <2>9 DEF Next, vars
<1>3. DataInv => DataBeforeIndex
  BY DEF DataInv
<1>4. QED
  BY <1>1, <1>2, <1>3, TypeCorrect, PTL DEF Spec
-----------------------------------------------------------------------------
(* The saved index is closed under ancestors and catches up with the saved *)
(* coins.  First: what it holds once some tasks of a queue have run.       *)

\* Before any task: what it holds now.
LEMMA IndexNow ==
    ASSUME NEW S, NEW q
    PROVE  IndexAfter(S, q, 0) = S
<1>1. 1..0 = {}
  OBVIOUS
<1>2. QED
  BY <1>1 DEF IndexAfter

\* A task appended adds its batch at the end.
LEMMA IndexAppend ==
    ASSUME NEW S, NEW q \in Seq(Task), NEW t
    PROVE  /\ \A n \in 0..Len(q) : IndexAfter(S, Append(q, t), n) = IndexAfter(S, q, n)
           /\ IndexAfter(S, Append(q, t), Len(q) + 1)
                = IndexAfter(S, q, Len(q)) \cup Batch(t)
<1> DEFINE p == Append(q, t)
<1>1. Len(q) \in Nat /\ (\A i \in 1..Len(q) : p[i] = q[i]) /\ p[Len(q) + 1] = t
  OBVIOUS
<1> HIDE DEF p
<1>2. ASSUME NEW n \in 0..Len(q)
      PROVE  IndexAfter(S, p, n) = IndexAfter(S, q, n)
  <2>1. \A i \in 1..n : p[i] = q[i]
    BY <1>1
  <2>2. {Batch(p[i]) : i \in 1..n} = {Batch(q[i]) : i \in 1..n}
    BY <2>1
  <2>3. QED
    BY <2>2 DEF IndexAfter
<1>3. IndexAfter(S, p, Len(q) + 1) = IndexAfter(S, q, Len(q)) \cup Batch(t)
  <2>1. 1..(Len(q) + 1) = 1..Len(q) \cup {Len(q) + 1}
    BY <1>1
  <2>2. {Batch(p[i]) : i \in 1..(Len(q) + 1)}
            = {Batch(q[i]) : i \in 1..Len(q)} \cup {Batch(t)}
    BY <1>1, <2>1
  <2>3. QED
    BY <2>2 DEF IndexAfter
<1>4. QED
  BY <1>2, <1>3 DEF p

\* The first task run has added its batch to the index.
LEMMA IndexTail ==
    ASSUME NEW S, NEW q \in Seq(Task), q # <<>>
    PROVE  \A n \in 0..Len(Tail(q)) :
                IndexAfter(S \cup Batch(Head(q)), Tail(q), n) = IndexAfter(S, q, n + 1)
<1> DEFINE p == Tail(q)
<1>1. /\ Len(q) \in Nat \ {0}
      /\ Len(p) = Len(q) - 1
      /\ Head(q) = q[1]
      /\ \A i \in 1..Len(p) : p[i] = q[i + 1]
  OBVIOUS
<1> HIDE DEF p
<1>2. ASSUME NEW n \in 0..Len(p)
      PROVE  IndexAfter(S \cup Batch(Head(q)), p, n) = IndexAfter(S, q, n + 1)
  <2>1. ASSUME NEW i \in 1..(n + 1) PROVE i = 1 \/ (i - 1 \in 1..n /\ q[i] = p[i - 1])
    BY <1>1, <1>2
  <2>2. \A i \in 1..n : i + 1 \in 1..(n + 1) /\ p[i] = q[i + 1]
    BY <1>1, <1>2
  <2>3. 1 \in 1..(n + 1)
    BY <1>1, <1>2
  <2>4. {Batch(q[i]) : i \in 1..(n + 1)}
            = {Batch(Head(q))} \cup {Batch(p[i]) : i \in 1..n}
    BY <1>1, <2>1, <2>2, <2>3
  <2>5. QED
    BY <2>4 DEF IndexAfter
<1>3. QED
  BY <1>2 DEF p

\* A header is closed under ancestors with what its parent is closed with.
LEMMA ClosedChild ==
    ASSUME NEW S \in SUBSET Block, Closed(S), NEW b \in Block,
           Genesis \in S, Parent(b) \in S
    PROVE  Closed(S \cup {b})
<1> SUFFICES ASSUME NEW i \in 1..Len(Path[b]), b \notin S
             PROVE  Path[b][i] \in S \cup {b}
  BY DEF Closed
<1> DEFINE n == Len(Path[b])
<1>1. n \in Nat \ {0} /\ Path[b][1] = Genesis /\ Path[b][n] = b /\ Path[b] \in Seq(Block)
  BY TreeAssumption
<1>2. n # 1
  BY <1>1
<1>3. CASE i = n
  BY <1>1, <1>3
<1>4. CASE i # n
  <2>1. n - 1 \in 1..n /\ i \in 1..(n - 1)
    BY <1>1, <1>2, <1>4
  <2>2. Path[Parent(b)] = SubSeq(Path[b], 1, n - 1)
    BY <2>1, TreeAssumption DEF Parent
  <2>3. Len(Path[Parent(b)]) = n - 1 /\ Path[Parent(b)][i] = Path[b][i]
    BY <1>1, <2>1, <2>2
  <2>4. QED
    BY <2>1, <2>3 DEF Closed
<1>5. QED
  BY <1>3, <1>4
-----------------------------------------------------------------------------
(* The index invariant, step by step. *)

\* The index is closed after every task, not only now; what it does not get
\* from the queue is dirty; only known blocks are queued and connected.
IndexInv ==
    /\ Genesis \in known
    /\ Closed(known)
    /\ \A n \in 0..Len(queue) : Closed(IndexAfter(indexDB.known, queue, n))
    /\ known = Indexed \cup dirty
    /\ \A i \in 1..Len(queue) : queue[i].op # "flush" => queue[i].block \in known
    /\ diskBlock \in known \cup {NoBlock}

\* The batch of each kind of task.
LEMMA Batches ==
    ASSUME NEW b, NEW S
    PROVE  /\ Batch(WriteTask(b)) = {}
           /\ Batch(WrittenTask(b)) = {}
           /\ Batch(FlushTask(S)) = S
BY DEF Batch, WriteTask, WrittenTask, FlushTask

\* Batches are requested up to known blocks.
AnnouncedInv == \A p \in Peer : announced[p] \in known \cup {NoBlock}

LEMMA AnnouncedKnown == Spec => []AnnouncedInv
<1>1. Init => AnnouncedInv
  BY DEF Init, AnnouncedInv
<1>2. TypeOK /\ AnnouncedInv /\ [Next]_vars => AnnouncedInv'
  <2> SUFFICES ASSUME TypeOK, AnnouncedInv, [Next]_vars PROVE AnnouncedInv'
    OBVIOUS
  <2>1. CASE Restart
    BY <2>1 DEF Restart, LoadFrom, AnnouncedInv
  <2>2. ASSUME known \subseteq known', announced' = announced PROVE AnnouncedInv'
    BY <2>2 DEF AnnouncedInv
  <2>3. ASSUME NEW p \in Peer, NEW t \in Block, RequestBlocks(p, t) PROVE AnnouncedInv'
    BY <2>3 DEF RequestBlocks, AnnouncedInv, TypeOK
  <2>4. CASE MainStep
    BY <2>2, <2>3, <2>4 DEF MainStep, AddHeader, MainWriteCoins, MainClearCoins, AddBlock
  <2>5. CASE DiskStep
    BY <2>2, <2>5
    DEF DiskStep, DoWriteBlock, DoFlush, BeginConnect, DiskWriteCoins, DiskClearCoins,
        VerifyTransactions, ConnectTip, SetBestBlockHash, TransferTx, EndConnect
  <2>6. QED
    BY <2>1, <2>2, <2>4, <2>5 DEF Next, vars
<1>3. QED
  BY <1>1, <1>2, TypeCorrect, PTL DEF Spec

\* A queue with the tasks that IndexInv allows.
QueueInv(S, q) ==
    /\ \A n \in 0..Len(q) : Closed(IndexAfter(S, q, n))
    /\ \A i \in 1..Len(q) : q[i].op # "flush" => q[i].block \in known

\* Posting a task that keeps what the queue leads to closed.
LEMMA PostTask ==
    ASSUME NEW S, NEW q \in Seq(Task), QueueInv(S, q),
           NEW t \in Task, t.op # "flush" => t.block \in known,
           Closed(IndexAfter(S, q, Len(q)) \cup Batch(t))
    PROVE  /\ QueueInv(S, Append(q, t))
           /\ IndexAfter(S, Append(q, t), Len(Append(q, t)))
                = IndexAfter(S, q, Len(q)) \cup Batch(t)
<1> DEFINE p == Append(q, t)
<1>1. /\ Len(q) \in Nat /\ Len(p) = Len(q) + 1
      /\ \A i \in 1..Len(q) : p[i] = q[i]
      /\ p[Len(q) + 1] = t
  OBVIOUS
<1>2. /\ \A n \in 0..Len(q) : IndexAfter(S, p, n) = IndexAfter(S, q, n)
      /\ IndexAfter(S, p, Len(p)) = IndexAfter(S, q, Len(q)) \cup Batch(t)
  <2>1. /\ \A n \in 0..Len(q) :
                IndexAfter(S, Append(q, t), n) = IndexAfter(S, q, n)
        /\ IndexAfter(S, Append(q, t), Len(q) + 1)
                = IndexAfter(S, q, Len(q)) \cup Batch(t)
    BY IndexAppend
  <2>2. QED
    BY <1>1, <2>1
<1> HIDE DEF p
<1>3. ASSUME NEW n \in 0..Len(p) PROVE Closed(IndexAfter(S, p, n))
  <2>1. n \in 0..Len(q) \/ n = Len(p)
    BY <1>1
  <2>2. QED
    BY <1>2, <2>1 DEF QueueInv
<1>4. ASSUME NEW i \in 1..Len(p), p[i].op # "flush" PROVE p[i].block \in known
  <2>1. i \in 1..Len(q) \/ i = Len(q) + 1
    BY <1>1
  <2>2. QED
    BY <1>1, <1>4, <2>1 DEF QueueInv
<1>5. QED
  BY <1>2, <1>3, <1>4 DEF QueueInv, p

\* Running the first task.
LEMMA RunTask ==
    ASSUME NEW S, NEW q \in Seq(Task), q # <<>>, QueueInv(S, q)
    PROVE  /\ Tail(q) \in Seq(Task)
           /\ QueueInv(S \cup Batch(Head(q)), Tail(q))
           /\ IndexAfter(S \cup Batch(Head(q)), Tail(q), Len(Tail(q)))
                = IndexAfter(S, q, Len(q))
           /\ Head(q).op # "flush" => Head(q).block \in known
<1> DEFINE p == Tail(q)
           T == S \cup Batch(Head(q))
<1>1. /\ p \in Seq(Task)
      /\ Len(q) \in Nat \ {0}
      /\ Len(p) = Len(q) - 1
      /\ Head(q) = q[1]
      /\ \A i \in 1..Len(p) : p[i] = q[i + 1]
  OBVIOUS
<1>2. \A n \in 0..Len(p) : IndexAfter(T, p, n) = IndexAfter(S, q, n + 1)
  BY IndexTail
<1> HIDE DEF p, T
<1>3. ASSUME NEW n \in 0..Len(p) PROVE Closed(IndexAfter(T, p, n))
  <2>1. n + 1 \in 0..Len(q)
    BY <1>1
  <2>2. QED
    BY <1>2, <2>1 DEF QueueInv
<1>4. ASSUME NEW i \in 1..Len(p), p[i].op # "flush" PROVE p[i].block \in known
  <2>1. i + 1 \in 1..Len(q)
    BY <1>1
  <2>2. QED
    BY <1>1, <1>4, <2>1 DEF QueueInv
<1>5. IndexAfter(T, p, Len(p)) = IndexAfter(S, q, Len(q))
  <2>1. Len(p) \in 0..Len(p) /\ Len(p) + 1 = Len(q)
    BY <1>1
  <2>2. QED
    BY <1>2, <2>1
<1>6. Head(q).op # "flush" => Head(q).block \in known
  <2>1. 1 \in 1..Len(q)
    BY <1>1
  <2>2. QED
    BY <1>1, <2>1 DEF QueueInv
<1>7. QED
  BY <1>1, <1>3, <1>4, <1>5, <1>6 DEF QueueInv, p, T

\* IndexInv in terms of QueueInv.
LEMMA IndexInvParts ==
    IndexInv <=> /\ Genesis \in known
                 /\ Closed(known)
                 /\ QueueInv(indexDB.known, queue)
                 /\ known = Indexed \cup dirty
                 /\ diskBlock \in known \cup {NoBlock}
BY DEF IndexInv, QueueInv

\* The main thread adds a header; its entry is dirty or posted.
LEMMA AddHeaderIndex ==
    ASSUME TypeOK, IndexInv, NEW b \in Block, AddHeader(b)
    PROVE  /\ IndexInv'
           /\ PostFlush(dirty \cup {b}) => known' = Indexed'
<1>1. /\ Genesis \in known /\ Closed(known)
      /\ QueueInv(indexDB.known, queue)
      /\ known = Indexed \cup dirty
      /\ diskBlock \in known \cup {NoBlock}
      /\ known \in SUBSET Block /\ queue \in Seq(Task) /\ dirty \subseteq Block
  BY IndexInvParts DEF TypeOK
<1>2. /\ known' = known \cup {b} /\ Parent(b) \in known
      /\ UNCHANGED <<indexDB, diskBlock>>
  BY DEF AddHeader
<1>3. Closed(known')
  BY <1>1, <1>2, ClosedChild
<1>5. CASE UNCHANGED queue /\ dirty' = dirty \cup {b}
  <2>1. known' = Indexed' \cup dirty'
    BY <1>1, <1>2, <1>5 DEF Indexed
  <2>2. ~ PostFlush(dirty \cup {b})
    BY <1>1, <1>5 DEF PostFlush
  <2>3. QueueInv(indexDB.known, queue)'
    BY <1>1, <1>2, <1>5 DEF QueueInv
  <2>4. QED
    BY <1>1, <1>2, <1>3, <2>1, <2>2, <2>3 DEF IndexInv, QueueInv
<1>6. CASE PostFlush(dirty \cup {b})
  <2> DEFINE t == FlushTask(dirty \cup {b})
             q == Append(queue, t)
  <2>1. t \in Task /\ t.op = "flush"
    BY <1>1 DEF FlushTask, Task
  <2>2. IndexAfter(indexDB.known, queue, Len(queue)) \cup Batch(t) = known'
    BY <1>1, <1>2, Batches DEF Indexed
  <2>3. QueueInv(indexDB.known, q) /\ IndexAfter(indexDB.known, q, Len(q)) = known'
    BY <1>1, <1>3, <2>1, <2>2, PostTask
  <2>4. queue' = q /\ dirty' = {}
    BY <1>6 DEF PostFlush
  <2>5. Indexed' = known'
    BY <1>2, <2>3, <2>4 DEF Indexed
  <2>6. QueueInv(indexDB.known, queue)'
    BY <1>2, <2>3, <2>4 DEF QueueInv
  <2>7. QED
    BY <1>1, <1>2, <1>3, <2>4, <2>5, <2>6 DEF IndexInv, QueueInv
<1>7. QED
  BY <1>5, <1>6 DEF AddHeader

\* A block on the way to a known one is known.
LEMMA AddBlockIndex ==
    ASSUME TypeOK, AnnouncedInv, IndexInv,
           NEW p \in Peer, NEW b \in Block, AddBlock(p, b)
    PROVE  IndexInv' /\ Indexed' = Indexed
<1> DEFINE task == WriteTask(b)
           q == Append(queue, task)
<1>1. /\ Genesis \in known /\ Closed(known)
      /\ QueueInv(indexDB.known, queue)
      /\ known = Indexed \cup dirty
      /\ diskBlock \in known \cup {NoBlock}
      /\ queue \in Seq(Task)
  BY IndexInvParts DEF TypeOK
<1>2. queue' = q /\ UNCHANGED <<known, dirty, indexDB, diskBlock>>
  BY DEF AddBlock
<1>3. b \in known
  <2> DEFINE t == announced[p]
  <2>1. t \in known /\ t \in Block /\ Height(b) <= Height(t) /\ Path[t][Height(b) + 1] = b
    BY DEF AddBlock, AnnouncedInv, IsAncestor, TypeOK
  <2>2. Height(b) + 1 \in 1..Len(Path[t])
    BY <2>1, BlockFacts DEF Height
  <2>3. QED
    BY <1>1, <2>1, <2>2 DEF Closed
<1>4. task \in Task /\ task.block \in known
  BY <1>3 DEF WriteTask, Task
<1>5. IndexAfter(indexDB.known, queue, Len(queue)) \cup Batch(task)
            = IndexAfter(indexDB.known, queue, Len(queue))
  BY Batches
<1>6. Closed(IndexAfter(indexDB.known, queue, Len(queue)))
  <2>1. Len(queue) \in 0..Len(queue)
    BY <1>1
  <2>2. QED
    BY <1>1, <2>1 DEF QueueInv
<1> HIDE DEF task
<1>7. /\ QueueInv(indexDB.known, q)
      /\ IndexAfter(indexDB.known, q, Len(q)) = IndexAfter(indexDB.known, queue, Len(queue))
  <2>1. Closed(IndexAfter(indexDB.known, queue, Len(queue)) \cup Batch(task))
    BY <1>5, <1>6
  <2>2. QED
    BY <1>1, <1>4, <1>5, <2>1, PostTask
<1>8. Indexed' = Indexed
  BY <1>2, <1>7 DEF Indexed
<1>9. QueueInv(indexDB.known, queue)'
  BY <1>2, <1>7 DEF QueueInv
<1>10. Closed(known)'
  BY <1>1, <1>2 DEF Closed
<1>11. QED
  BY <1>1, <1>2, <1>8, <1>9, <1>10 DEF IndexInv, QueueInv

\* What a step of the disk thread finds at the head of the queue.
LEMMA TakenTask ==
    ASSUME TypeOK, IndexInv, NEW op \in {"write", "written", "flush"}, NextTask(op)
    PROVE  /\ Head(queue) \in Task /\ Head(queue).op = op
           /\ Tail(queue) \in Seq(Task)
           /\ QueueInv(indexDB.known \cup Batch(Head(queue)), Tail(queue))
           /\ IndexAfter(indexDB.known \cup Batch(Head(queue)), Tail(queue), Len(Tail(queue)))
                = Indexed
           /\ op # "flush" => Head(queue).block \in known /\ Batch(Head(queue)) = {}
           /\ op = "flush" => Batch(Head(queue)) = Head(queue).blocks
<1>1. queue \in Seq(Task) /\ queue # <<>> /\ Head(queue).op = op
  BY DEF TypeOK, NextTask
<1>2. QueueInv(indexDB.known, queue)
  BY IndexInvParts
<1>3. Head(queue) \in Task
  BY <1>1
<1>4. QED
  BY <1>1, <1>2, <1>3, RunTask DEF Indexed, Batch

\* The bytes of a known block are written and its connection queued.
LEMMA DoWriteBlockIndex ==
    ASSUME TypeOK, IndexInv, DoWriteBlock
    PROVE  IndexInv' /\ Indexed' = Indexed
<1> DEFINE p == Tail(queue)
           t == WrittenTask(Head(queue).block)
           q == Append(p, t)
<1>1. NextTask("write")
  BY DEF DoWriteBlock
<1>2. queue' = q /\ UNCHANGED <<known, dirty, indexDB, diskBlock>>
  BY DEF DoWriteBlock
<1>3. /\ Head(queue) \in Task /\ Head(queue).op = "write"
      /\ p \in Seq(Task)
      /\ Head(queue).block \in known
      /\ indexDB.known \cup Batch(Head(queue)) = indexDB.known
  BY <1>1, TakenTask
<1>4. /\ QueueInv(indexDB.known, p)
      /\ IndexAfter(indexDB.known, p, Len(p)) = Indexed
  BY <1>1, <1>3, TakenTask
<1>5. t \in Task /\ t.block \in known /\ Batch(t) = {}
  BY <1>3, Batches DEF WrittenTask, Task
<1>6. Closed(IndexAfter(indexDB.known, p, Len(p)) \cup Batch(t))
  <2>1. Len(p) \in 0..Len(p)
    BY <1>3
  <2>2. QED
    BY <1>4, <1>5, <2>1 DEF QueueInv
<1> HIDE DEF p, t
<1>7. QueueInv(indexDB.known, q) /\ IndexAfter(indexDB.known, q, Len(q)) = Indexed
  <2>1. IndexAfter(indexDB.known, p, Len(p)) \cup Batch(t) = Indexed
    BY <1>4, <1>5
  <2>2. p \in Seq(Task) /\ t \in Task /\ (t.op # "flush" => t.block \in known)
    BY <1>3, <1>5
  <2>3. QueueInv(indexDB.known, p)
    BY <1>4
  <2>4. /\ QueueInv(indexDB.known, Append(p, t))
        /\ IndexAfter(indexDB.known, Append(p, t), Len(Append(p, t)))
              = IndexAfter(indexDB.known, p, Len(p)) \cup Batch(t)
    BY <1>6, <2>2, <2>3, PostTask
  <2>5. QED
    BY <2>1, <2>4
<1> HIDE DEF q
<1>8. Indexed' = Indexed
  BY <1>2, <1>7 DEF Indexed
<1>9. QueueInv(indexDB.known, queue)'
  BY <1>2, <1>7 DEF QueueInv
<1>10. QED
  BY <1>2, <1>8, <1>9 DEF IndexInv, QueueInv, Closed

\* The first batch of the queue reaches the index.
LEMMA DoFlushIndex ==
    ASSUME TypeOK, IndexInv, DoFlush
    PROVE  IndexInv' /\ Indexed' = Indexed
<1>1. NextTask("flush")
  BY DEF DoFlush
<1>2. /\ queue' = Tail(queue)
      /\ indexDB'.known = indexDB.known \cup Head(queue).blocks
      /\ UNCHANGED <<known, dirty, diskBlock>>
  BY DEF DoFlush
<1>3. indexDB'.known = indexDB.known \cup Batch(Head(queue))
  BY <1>1, <1>2, TakenTask
<1>4. /\ QueueInv(indexDB'.known, Tail(queue))
      /\ IndexAfter(indexDB'.known, Tail(queue), Len(Tail(queue))) = Indexed
  BY <1>1, <1>3, TakenTask
<1>5. Indexed' = Indexed
  BY <1>2, <1>4 DEF Indexed
<1>6. QueueInv(indexDB.known, queue)'
  BY <1>2, <1>4 DEF QueueInv
<1>7. QED
  BY <1>2, <1>5, <1>6 DEF IndexInv, QueueInv, Closed

\* A written block becomes dirty, or the dirty entries and its own are posted.
LEMMA BeginConnectIndex ==
    ASSUME TypeOK, IndexInv, BeginConnect
    PROVE  /\ IndexInv'
           /\ Indexed \subseteq Indexed'
           /\ diskPc' = "write" => Indexed' = known
           /\ diskPc' \in {"verify", "write"}
<1> DEFINE p == Tail(queue)
           b == Head(queue).block
           task == FlushTask(dirty \cup {b})
           q == Append(p, task)
<1>1. NextTask("written")
  BY DEF BeginConnect
<1>2. /\ Head(queue).op = "written"
      /\ p \in Seq(Task)
      /\ b \in known
      /\ indexDB.known \cup Batch(Head(queue)) = indexDB.known
  BY <1>1, TakenTask
<1>3. /\ QueueInv(indexDB.known, p)
      /\ IndexAfter(indexDB.known, p, Len(p)) = Indexed
  BY <1>1, <1>2, TakenTask
<1>4. /\ Genesis \in known /\ Closed(known)
      /\ known = Indexed \cup dirty /\ known \subseteq Block
  BY DEF IndexInv, TypeOK
<1>5. /\ UNCHANGED <<known, indexDB>>
      /\ diskBlock' = b
      /\ \/ queue' = p /\ dirty' = dirty \cup {b} /\ diskPc' = "verify"
         \/ queue' = q /\ dirty' = {} /\ diskPc' = "write"
  BY DEF BeginConnect
<1>6. task \in Task /\ task.op = "flush" /\ Batch(task) = dirty \cup {b}
  BY <1>2, <1>4, Batches DEF FlushTask, Task
<1> HIDE DEF p, b, task
<1>7. CASE queue' = p /\ dirty' = dirty \cup {b} /\ diskPc' = "verify"
  <2>1. Indexed' = Indexed
    BY <1>3, <1>5, <1>7 DEF Indexed
  <2>2. QueueInv(indexDB.known, queue)'
    BY <1>3, <1>5, <1>7 DEF QueueInv
  <2>3. known' = Indexed' \cup dirty'
    BY <1>2, <1>4, <1>5, <1>7, <2>1
  <2>4. QED
    BY <1>2, <1>4, <1>5, <1>7, <2>1, <2>2, <2>3 DEF IndexInv, QueueInv, Closed
<1>8. CASE queue' = q /\ dirty' = {} /\ diskPc' = "write"
  <2>1. IndexAfter(indexDB.known, p, Len(p)) \cup Batch(task) = known
    BY <1>2, <1>3, <1>4, <1>6
  <2>2. Closed(IndexAfter(indexDB.known, p, Len(p)) \cup Batch(task))
    BY <1>4, <2>1
  <2>3. /\ QueueInv(indexDB.known, q)
        /\ IndexAfter(indexDB.known, q, Len(q)) = known
    <3>1. p \in Seq(Task) /\ QueueInv(indexDB.known, p)
      BY <1>2, <1>3
    <3>2. task \in Task /\ (task.op # "flush" => task.block \in known)
      BY <1>6
    <3>3. /\ QueueInv(indexDB.known, Append(p, task))
          /\ IndexAfter(indexDB.known, Append(p, task), Len(Append(p, task)))
                = IndexAfter(indexDB.known, p, Len(p)) \cup Batch(task)
      BY <2>2, <3>1, <3>2, PostTask
    <3>4. QED
      BY <2>1, <3>3
  <2> HIDE DEF q
  <2>4. Indexed' = known
    BY <1>5, <1>8, <2>3 DEF Indexed
  <2>5. QueueInv(indexDB.known, queue)'
    BY <1>5, <1>8, <2>3 DEF QueueInv
  <2>6. QED
    BY <1>2, <1>4, <1>5, <1>8, <2>4, <2>5 DEF IndexInv, QueueInv, Closed
<1>9. QED
  BY <1>5, <1>7, <1>8

\* The two tasks loadGenesisBlock posts.
LEMMA GenesisQueue ==
    ASSUME NEW S, NEW q, q = <<WriteTask(Genesis), FlushTask({Genesis})>>
    PROVE  /\ Len(q) = 2
           /\ IndexAfter(S, q, 0) = S
           /\ IndexAfter(S, q, 1) = S
           /\ IndexAfter(S, q, 2) = S \cup {Genesis}
           /\ \A i \in 1..2 : q[i].op # "flush" => q[i].block = Genesis
<1>1. Len(q) = 2 /\ q[1] = WriteTask(Genesis) /\ q[2] = FlushTask({Genesis})
  OBVIOUS
<1>2. Batch(q[1]) = {} /\ Batch(q[2]) = {Genesis}
  BY <1>1, Batches
<1>3. 1..1 = {1} /\ 1..2 = {1, 2}
  OBVIOUS
<1>4. {Batch(q[i]) : i \in 1..1} = {{}} /\ {Batch(q[i]) : i \in 1..2} = {{}, {Genesis}}
  BY <1>2, <1>3
<1>5. IndexAfter(S, q, 1) = S /\ IndexAfter(S, q, 2) = S \cup {Genesis}
  BY <1>4 DEF IndexAfter
<1>6. \A i \in 1..2 : q[i].op # "flush" => q[i].block = Genesis
  BY <1>1, <1>3 DEF WriteTask, FlushTask
<1>7. QED
  BY <1>1, <1>5, <1>6, IndexNow

\* A process starts with the saved index, and with the genesis block if the
\* index lacks it.
LEMMA LoadIndex ==
    ASSUME NEW S, Closed(S),
           indexDB'.known = S, known' = S \cup {Genesis}, dirty' = {}, diskBlock' = NoBlock,
           queue' = IF Genesis \notin S
                    THEN <<WriteTask(Genesis), FlushTask({Genesis})>> ELSE <<>>
    PROVE  IndexInv' /\ Indexed' = known'
<1>1. Closed(S \cup {Genesis})
  <2>1. Len(Path[Genesis]) = 1 /\ Path[Genesis][1] = Genesis
    BY TreeAssumption
  <2>2. \A i \in 1..Len(Path[Genesis]) : Path[Genesis][i] = Genesis
    BY <2>1
  <2>3. QED
    BY <2>2 DEF Closed
<1>2. CASE Genesis \notin S
  <2>1. queue' = <<WriteTask(Genesis), FlushTask({Genesis})>>
    BY <1>2
  <2>2. /\ Len(queue') = 2
        /\ IndexAfter(S, queue', 0) = S
        /\ IndexAfter(S, queue', 1) = S
        /\ IndexAfter(S, queue', 2) = S \cup {Genesis}
        /\ \A i \in 1..2 : queue'[i].op # "flush" => queue'[i].block = Genesis
    BY <2>1, GenesisQueue
  <2>3. Indexed' = known'
    BY <2>2 DEF Indexed
  <2>4. \A n \in 0..Len(queue') : Closed(IndexAfter(S, queue', n))
    <3>1. \A n \in 0..Len(queue') : n \in {0, 1, 2}
      BY <2>2
    <3>2. QED
      BY <1>1, <2>2, <3>1
  <2>5. QED
    BY <1>1, <2>2, <2>3, <2>4 DEF IndexInv, Closed
<1>3. CASE Genesis \in S
  <2>1. queue' = <<>> /\ Len(queue') = 0
    BY <1>3
  <2>2. IndexAfter(S, queue', 0) = S
    BY IndexNow
  <2>3. Indexed' = known'
    BY <1>3, <2>1, <2>2 DEF Indexed
  <2>4. \A n \in 0..Len(queue') : Closed(IndexAfter(S, queue', n))
    <3>1. \A n \in 0..Len(queue') : n = 0
      BY <2>1
    <3>2. QED
      BY <2>2, <3>1
  <2>5. QED
    BY <1>1, <2>1, <2>3, <2>4 DEF IndexInv, Closed
<1>4. QED
  BY <1>2, <1>3

LEMMA RestartIndex ==
    ASSUME TypeOK, IndexInv, Restart
    PROVE  IndexInv' /\ Indexed' = known'
<1>1. Closed(indexDB.known)
  <2>1. 0 \in 0..Len(queue)
    BY DEF TypeOK
  <2>2. QED
    BY <2>1, IndexNow DEF IndexInv
<1>2. QED
  BY <1>1, LoadIndex DEF Restart, LoadFrom

LEMMA InitIndex == Init => IndexInv /\ Indexed = known
<1> SUFFICES ASSUME Init PROVE IndexInv /\ Indexed = known
  OBVIOUS
<1>1. indexDB.known = {} /\ known = {Genesis} /\ dirty = {} /\ diskBlock = NoBlock
  BY DEF Init, EmptyIndex
<1>2. /\ Len(queue) = 2
      /\ IndexAfter({}, queue, 0) = {}
      /\ IndexAfter({}, queue, 1) = {}
      /\ IndexAfter({}, queue, 2) = {Genesis}
      /\ \A i \in 1..2 : queue[i].op # "flush" => queue[i].block = Genesis
  BY GenesisQueue DEF Init
<1>3. Closed({Genesis}) /\ Closed({})
  <2>1. Len(Path[Genesis]) = 1 /\ Path[Genesis][1] = Genesis
    BY TreeAssumption
  <2>2. \A i \in 1..Len(Path[Genesis]) : Path[Genesis][i] = Genesis
    BY <2>1
  <2>3. QED
    BY <2>2 DEF Closed
<1>4. \A n \in 0..Len(queue) : Closed(IndexAfter({}, queue, n))
  <2>1. \A n \in 0..Len(queue) : n \in {0, 1, 2}
    BY <1>2
  <2>2. QED
    BY <1>2, <1>3, <2>1
<1>5. QED
  BY <1>1, <1>2, <1>3, <1>4 DEF IndexInv, Indexed

\* The steps that leave the index, the queue and the known headers alone.
LEMMA IndexKept ==
    ASSUME IndexInv, UNCHANGED <<known, dirty, queue, indexDB>>,
           diskBlock' \in {diskBlock, NoBlock}
    PROVE  IndexInv' /\ Indexed' = Indexed
BY DEF IndexInv, Indexed, Closed

IndexUnchanged ==
    /\ UNCHANGED <<known, dirty, queue, indexDB>>
    /\ diskBlock' \in {diskBlock, NoBlock}

\* Every step, by what it does to the index, the queue and the headers.
LEMMA StepsForIndex ==
    ASSUME [Next]_vars
    PROVE  \/ \E b \in Block : AddHeader(b)
           \/ \E p \in Peer, b \in Block : AddBlock(p, b)
           \/ DoWriteBlock \/ DoFlush \/ BeginConnect \/ Restart
           \/ IndexUnchanged
<1>1. CASE MainStep
  BY <1>1 DEF MainStep, MainWriteCoins, MainClearCoins, RequestBlocks, IndexUnchanged
<1>2. CASE DiskStep
  BY <1>2 DEF DiskStep, DiskWriteCoins, DiskClearCoins, VerifyTransactions, ConnectTip,
              SetBestBlockHash, TransferTx, EndConnect, IndexUnchanged
<1>3. CASE UNCHANGED vars
  BY <1>3 DEF vars, IndexUnchanged
<1>4. QED
  BY <1>1, <1>2, <1>3 DEF Next

LEMMA IndexStep == TypeOK /\ AnnouncedInv /\ IndexInv /\ [Next]_vars => IndexInv'
BY StepsForIndex, AddHeaderIndex, AddBlockIndex, DoWriteBlockIndex, DoFlushIndex,
   BeginConnectIndex, RestartIndex, IndexKept DEF IndexUnchanged

LEMMA IndexInvariant == Spec => []IndexInv
BY InitIndex, IndexStep, TypeCorrect, AnnouncedKnown, PTL DEF Spec

\* After any crash the saved index can be linked: BlockCache::sortOutBlocks
\* finds the ancestors of every saved header down to the genesis block.
THEOREM IndexIsClosed == Spec => []IndexClosed
<1>1. TypeOK /\ IndexInv => IndexClosed
  <2> SUFFICES ASSUME TypeOK, IndexInv PROVE IndexClosed
    OBVIOUS
  <2>1. 0 \in 0..Len(queue)
    BY DEF TypeOK
  <2>2. QED
    BY <2>1, IndexNow DEF IndexInv, IndexClosed
<1>2. QED
  BY <1>1, IndexInvariant, TypeCorrect, PTL
-----------------------------------------------------------------------------
(* The best block of the saved coins. *)

\* A thread about to save the coins has posted the entry of their best block;
\* the main thread adds no header in between, the disk thread may connect a
\* block.
BestInv ==
    /\ BestIsIndexed
    /\ Up => view.best \in known \cup {NoBlock}
    /\ Up /\ mainPc = "write" => known = Indexed
    /\ Up /\ diskPc = "write" => view.best \in Indexed \cup {NoBlock}

\* Moving coins in the cache leaves its best block alone.
LEMMA BestOfView ==
    ASSUME NEW v, IsView(v)
    PROVE  /\ Cleared(v).best = v.best
           /\ \A d, S : Cached(v, d, S).best = v.best
           /\ \A tx, h : Transfer(v, tx, h).best = v.best
BY DEF IsView, Cleared, Cached, Transfer

\* The steps that save no coins, set no best block and keep the flushing
\* threads where they are.
LEMMA BestKept ==
    ASSUME IndexInv', BestInv, Indexed \subseteq Indexed', known' = known, view'.best = view.best,
           coinDB' = coinDB, Up' => Up,
           mainPc' = "write" => mainPc = "write", diskPc' = "write" => diskPc = "write"
    PROVE  BestInv'
<1>1. Indexed' \subseteq known'
  BY DEF IndexInv
<1>2. QED
  BY <1>1 DEF BestInv, BestIsIndexed

LEMMA InitBest == Init => BestInv
BY DEF Init, BestInv, BestIsIndexed, LoadView, EmptyCoins

LEMMA AddHeaderBest ==
    ASSUME TypeOK, IndexInv, BestInv, NEW b \in Block, AddHeader(b)
    PROVE  BestInv'
<1>1. /\ IndexInv'
      /\ PostFlush(dirty \cup {b}) => known' = Indexed'
  BY AddHeaderIndex
<1>2. /\ known \subseteq known'
      /\ UNCHANGED <<view, coinDB, diskPc, failed>>
      /\ mainPc' = "write" => PostFlush(dirty \cup {b})
  BY DEF AddHeader, MainFree
<1>3. Indexed \subseteq Indexed'
  <2>1. CASE PostFlush(dirty \cup {b})
    BY <1>1, <1>2, <2>1 DEF IndexInv
  <2>2. CASE UNCHANGED queue
    BY <2>2 DEF Indexed, AddHeader
  <2>3. QED
    BY <2>1, <2>2 DEF AddHeader
<1>4. Up' = Up
  BY <1>2 DEF Up
<1>5. QED
  BY <1>1, <1>2, <1>3, <1>4 DEF BestInv, BestIsIndexed

\* The two flushes save the best block the cache names.
LEMMA WriteCoinsBest ==
    ASSUME TypeOK, IndexInv, BestInv, MainWriteCoins \/ DiskWriteCoins
    PROVE  BestInv'
<1>1. Up /\ view.best \in Indexed \cup {NoBlock}
  BY DEF BestInv, MainWriteCoins, DiskWriteCoins, DiskMoves
<1>2. /\ UNCHANGED <<known, dirty, queue, indexDB, diskBlock, view>>
      /\ Up' => coinDB'.best = view.best
      /\ mainPc' = "write" /\ Up' => mainPc = "write"
      /\ diskPc' = "write" /\ Up' => diskPc = "write"
  BY DEF MainWriteCoins, DiskWriteCoins, WriteCoins, Fail, Up
<1>3. Indexed' = Indexed
  BY <1>2 DEF Indexed
<1>4. QED
  BY <1>1, <1>2, <1>3 DEF BestInv, BestIsIndexed

LEMMA BeginConnectBest ==
    ASSUME TypeOK, IndexInv, BestInv, BeginConnect
    PROVE  BestInv'
<1>1. /\ IndexInv'
      /\ Indexed \subseteq Indexed'
      /\ diskPc' = "write" => Indexed' = known
  BY BeginConnectIndex
<1>2. UNCHANGED <<known, view, coinDB, mainPc, failed>> /\ Up
  BY DEF BeginConnect, NextTask, DiskMoves
<1>3. Indexed' \subseteq known'
  BY <1>1 DEF IndexInv
<1>4. Up'
  BY <1>2 DEF Up
<1>5. QED
  BY <1>1, <1>2, <1>3, <1>4 DEF BestInv, BestIsIndexed

LEMMA SetBestBlockHashBest ==
    ASSUME TypeOK, IndexInv, BestInv, SetBestBlockHash
    PROVE  BestInv'
<1>1. /\ UNCHANGED <<known, queue, indexDB, coinDB, mainPc, failed>>
      /\ diskPc' # "write"
  BY DEF SetBestBlockHash
<1>2. view'.best = diskBlock
  BY DEF SetBestBlockHash, TypeOK, IsView
<1>3. Indexed' = Indexed
  BY <1>1 DEF Indexed
<1>4. QED
  BY <1>1, <1>2, <1>3 DEF BestInv, BestIsIndexed, IndexInv, Up

LEMMA RestartBest ==
    ASSUME TypeOK, IndexInv, BestInv, Restart
    PROVE  BestInv'
<1>1. Indexed' = known'
  BY RestartIndex
<1>2. /\ view'.best = coinDB.best /\ coinDB' = coinDB
      /\ Up' => coinDB.best \in known' \cup {NoBlock}
      /\ mainPc' = "idle" /\ diskPc' = "idle"
  BY DEF Restart, LoadFrom, LoadView, Up
<1>3. QED
  BY <1>1, <1>2 DEF BestInv, BestIsIndexed

LEMMA BestStep == TypeOK /\ AnnouncedInv /\ IndexInv /\ BestInv /\ [Next]_vars => BestInv'
<1> SUFFICES ASSUME TypeOK, AnnouncedInv, IndexInv, BestInv, [Next]_vars PROVE BestInv'
  OBVIOUS
<1>1. IndexInv'
  BY IndexStep
<1>2. IsView(view)
  BY DEF TypeOK
<1>3. ASSUME UNCHANGED <<known, dirty, queue, indexDB, coinDB>>,
             diskBlock' \in {diskBlock, NoBlock},
             view'.best = view.best, Up' => Up,
             mainPc' = "write" => mainPc = "write",
             diskPc' = "write" => diskPc = "write"
      PROVE  BestInv'
  <2>1. Indexed' = Indexed
    BY <1>3, IndexKept
  <2>2. QED
    BY <1>1, <1>3, <2>1, BestKept
<1>4. CASE MainStep
  <2>1. ASSUME NEW p \in Peer, NEW b \in Block, AddBlock(p, b) PROVE BestInv'
    <3>1. Indexed' = Indexed
      BY <2>1, AddBlockIndex
    <3>2. QED
      BY <1>1, <2>1, <3>1, BestKept DEF AddBlock, Up
  <2>2. CASE MainClearCoins
    <3>1. view'.best = view.best
      BY <1>2, <2>2, BestOfView DEF MainClearCoins
    <3>2. QED
      BY <1>3, <2>2, <3>1 DEF MainClearCoins, Up
  <2>3. ASSUME NEW p \in Peer, NEW t \in Block, RequestBlocks(p, t) PROVE BestInv'
    BY <1>3, <2>3 DEF RequestBlocks, Up
  <2>4. QED
    BY <1>4, <2>1, <2>2, <2>3, AddHeaderBest, WriteCoinsBest DEF MainStep
<1>5. CASE DiskStep
  <2>1. CASE DoWriteBlock \/ DoFlush
    <3>1. Indexed' = Indexed
      BY <2>1, DoWriteBlockIndex, DoFlushIndex
    <3>2. QED
      BY <1>1, <2>1, <3>1, BestKept DEF DoWriteBlock, DoFlush, Up
  <2>2. CASE DiskClearCoins \/ VerifyTransactions \/ TransferTx
    <3>1. view'.best = view.best
      BY <1>2, <2>2, BestOfView DEF DiskClearCoins, VerifyTransactions, TransferTx
    <3>2. /\ UNCHANGED <<known, dirty, queue, indexDB, coinDB, diskBlock, mainPc>>
          /\ Up
          /\ diskPc' = "write" => diskPc = "write"
      BY <2>2 DEF DiskClearCoins, VerifyTransactions, TransferTx, DiskMoves
    <3>3. QED
      BY <1>3, <3>1, <3>2
  <2>3. CASE ConnectTip \/ EndConnect
    <3>1. /\ UNCHANGED <<known, dirty, queue, indexDB, coinDB, view, mainPc>>
          /\ Up
          /\ diskBlock' \in {diskBlock, NoBlock}
          /\ diskPc' = "write" => diskPc = "write"
      BY <2>3 DEF ConnectTip, EndConnect, DiskMoves
    <3>2. QED
      BY <1>3, <3>1
  <2>4. QED
    BY <1>5, <2>1, <2>2, <2>3, WriteCoinsBest, BeginConnectBest, SetBestBlockHashBest
    DEF DiskStep
<1>6. CASE UNCHANGED vars
  BY <1>3, <1>6 DEF vars, Up
<1>7. QED
  BY <1>4, <1>5, <1>6, RestartBest DEF Next

\* Once a flush has saved the coins of a best block, its index entry is saved
\* or queued: BlockCache.cpp:207 can only fail when a queued batch is lost.
THEOREM BestBlockIsIndexed == Spec => []BestIsIndexed
<1>1. BestInv => BestIsIndexed
  BY DEF BestInv
<1>2. QED
  BY <1>1, InitBest, BestStep, IndexInvariant, TypeCorrect, AnnouncedKnown, PTL DEF Spec
-----------------------------------------------------------------------------
(* The coins a reader sees, and what the operators of CoinView do to them. *)

\* The cache agrees with the database: a clean entry is not one of a removed
\* coin, and is null exactly if the database has none; a dirty one is a coin.
Fits(v, d) ==
    \A o \in DOMAIN v.added :
        IF v.added[o].dirty THEN v.added[o].coin # NoCoin
        ELSE /\ o \notin v.removed
             /\ v.added[o].coin # NoCoin <=> o \in DOMAIN d.coins

DirtyOuts(v) == {o \in DOMAIN v.added : v.added[o].dirty}

LEMMA CoinsAre ==
    ASSUME NEW v, IsView(v), NEW d, IsCoinDB(d), Fits(v, d)
    PROVE  Coins(v, d) = (DirtyOuts(v) \cup DOMAIN d.coins) \ v.removed
<1>1. DOMAIN v.added \subseteq Out /\ DOMAIN d.coins \subseteq Out
  BY DEF IsView, IsCoinDB, IsOutMap
<1>2. \A o \in DOMAIN d.coins : d.coins[o] # NoCoin
  BY DEF IsCoinDB, IsOutMap, NoCoin
<1>3. ASSUME NEW o \in Out
      PROVE  HasCoin(v, d, o) <=> o \in (DirtyOuts(v) \cup DOMAIN d.coins) \ v.removed
  BY <1>2 DEF HasCoin, Lookup, Fits, DirtyOuts
<1>4. QED
  BY <1>1, <1>3 DEF Coins, DirtyOuts

\* Caching what was looked up changes neither the coins nor what is to be saved.
LEMMA CachedCoins ==
    ASSUME NEW v, IsView(v), NEW d, IsCoinDB(d), Fits(v, d), NEW S, S \subseteq Out
    PROVE  /\ Fits(Cached(v, d, S), d)
           /\ DirtyOuts(Cached(v, d, S)) = DirtyOuts(v)
           /\ Cached(v, d, S).removed = v.removed
           /\ Cached(v, d, S).best = v.best
<1> DEFINE missed == (S \ v.removed) \ DOMAIN v.added
           added == [o \in DOMAIN v.added \cup missed |->
                        IF o \in missed
                        THEN [coin |-> Lookup(v, d, o), dirty |-> FALSE]
                        ELSE v.added[o]]
           c == Cached(v, d, S)
<1>1. c = [best |-> v.best, height |-> v.height, added |-> added, removed |-> v.removed]
  <2>1. c = [v EXCEPT !.added = added]
    BY DEF Cached
  <2>2. QED
    BY <2>1, ViewFields, Zenon
<1>2. c.added = added /\ c.removed = v.removed /\ c.best = v.best
  BY <1>1
<1>3. DOMAIN added = DOMAIN v.added \cup missed
  OBVIOUS
<1>4. \A o \in missed : /\ ~ added[o].dirty
                        /\ added[o].coin # NoCoin <=> o \in DOMAIN d.coins
  <2>1. ASSUME NEW o \in missed
        PROVE  Lookup(v, d, o) # NoCoin <=> o \in DOMAIN d.coins
    BY <2>1 DEF Lookup, IsCoinDB, IsOutMap, NoCoin
  <2>2. QED
    BY <2>1
<1>5. \A o \in DOMAIN v.added : o \notin missed /\ added[o] = v.added[o]
  OBVIOUS
<1> HIDE DEF added, missed, c
<1>6. Fits(c, d)
  <2>1. missed \cap v.removed = {}
    BY DEF missed
  <2>2. ASSUME NEW o \in DOMAIN c.added
        PROVE  IF c.added[o].dirty THEN c.added[o].coin # NoCoin
               ELSE /\ o \notin c.removed
                    /\ c.added[o].coin # NoCoin <=> o \in DOMAIN d.coins
    <3>1. CASE o \in missed
      BY <2>1, <3>1, <1>2, <1>4
    <3>2. CASE o \notin missed
      <4>1. o \in DOMAIN v.added /\ c.added[o] = v.added[o]
        BY <3>2, <1>2, <1>3, <1>5
      <4>2. QED
        BY <4>1, <1>2 DEF Fits
    <3>3. QED
      BY <3>1, <3>2
  <2>3. QED
    BY <1>2, <1>3, <2>1, <2>2 DEF Fits
<1>7. DirtyOuts(c) = DirtyOuts(v)
  <2>1. ASSUME NEW o PROVE o \in DirtyOuts(c) <=> o \in DirtyOuts(v)
    <3>1. CASE o \in missed
      <4>1. ~ c.added[o].dirty
        BY <3>1, <1>2, <1>4
      <4>2. o \notin DOMAIN v.added
        BY <3>1, <1>5
      <4>3. QED
        BY <4>1, <4>2 DEF DirtyOuts
    <3>2. CASE o \notin missed
      BY <3>2, <1>2, <1>3, <1>5 DEF DirtyOuts
    <3>3. QED
      BY <3>1, <3>2
  <2>2. QED
    BY <2>1
<1>8. QED
  BY <1>2, <1>6, <1>7 DEF c

\* Saving the coins makes the database hold what a reader sees.
LEMMA WrittenCoins ==
    ASSUME NEW v, IsView(v), NEW d, IsCoinDB(d), Fits(v, d)
    PROVE  /\ DOMAIN WriteCoins(v, d).coins = Coins(v, d)
           /\ WriteCoins(v, d).best = v.best
           /\ Fits(v, WriteCoins(v, d))
           /\ Coins(v, WriteCoins(v, d)) = Coins(v, d)
<1> DEFINE w == WriteCoins(v, d)
<1>1. {o \in DOMAIN v.added : v.added[o].dirty /\ v.added[o].coin # NoCoin} = DirtyOuts(v)
  BY DEF Fits, DirtyOuts
<1>2. /\ DOMAIN w.coins = (DOMAIN d.coins \cup DirtyOuts(v)) \ v.removed
      /\ w.best = v.best
  BY <1>1 DEF WriteCoins
<1>3. IsCoinDB(w)
  BY WriteCoinsType
<1> HIDE DEF w
<1>4. Fits(v, w)
  BY <1>2 DEF Fits, DirtyOuts
<1>5. Coins(v, w) = (DirtyOuts(v) \cup DOMAIN w.coins) \ v.removed
  BY <1>3, <1>4, CoinsAre
<1>6. QED
  BY <1>2, <1>4, <1>5, CoinsAre DEF w

\* An empty cache shows the database.
LEMMA EmptyCache ==
    ASSUME NEW v, IsView(v), NEW d, IsCoinDB(d), v.added = EmptyMap, v.removed = {}
    PROVE  Fits(v, d) /\ DirtyOuts(v) = {} /\ Coins(v, d) = DOMAIN d.coins
<1>1. DOMAIN v.added = {}
  BY DEF EmptyMap
<1>2. Fits(v, d) /\ DirtyOuts(v) = {}
  BY <1>1 DEF Fits, DirtyOuts
<1>3. QED
  BY <1>2, CoinsAre

\* A transaction takes its inputs from the coins and adds those of its outputs
\* that are not marked removed, by an earlier transaction or by itself.
LEMMA TransferCoins ==
    ASSUME NEW v, IsView(v), NEW d, IsCoinDB(d), Fits(v, d),
           NEW tx \in Transaction, NEW h \in Nat
    PROVE  /\ Fits(Transfer(v, tx, h), d)
           /\ DirtyOuts(Transfer(v, tx, h)) = (DirtyOuts(v) \ tx.ins) \cup tx.outs
           /\ Transfer(v, tx, h).removed = v.removed \cup tx.ins
           /\ Transfer(v, tx, h).best = v.best
           /\ Coins(Transfer(v, tx, h), d) =
                (Coins(v, d) \ tx.ins) \cup (tx.outs \ (v.removed \cup tx.ins))
<1> DEFINE added == [o \in (DOMAIN v.added \ tx.ins) \cup tx.outs |->
                        IF o \in tx.outs
                        THEN [coin |-> h, dirty |-> TRUE]
                        ELSE v.added[o]]
           t == Transfer(v, tx, h)
<1>1. t = [best |-> v.best, height |-> v.height, added |-> added,
           removed |-> v.removed \cup tx.ins]
  <2>1. t = [v EXCEPT !.removed = v.removed \cup tx.ins, !.added = added]
    BY DEF Transfer
  <2>2. QED
    BY <2>1, ViewFields, Zenon
<1>2. t.added = added /\ t.removed = v.removed \cup tx.ins /\ t.best = v.best
  BY <1>1
<1>3. DOMAIN added = (DOMAIN v.added \ tx.ins) \cup tx.outs
  OBVIOUS
<1>4. \A o \in tx.outs : added[o].dirty /\ added[o].coin # NoCoin
  BY DEF NoCoin
<1>5. \A o \in (DOMAIN v.added \ tx.ins) \ tx.outs : added[o] = v.added[o]
  OBVIOUS
<1>6. IsView(t)
  BY TransferType
<1> HIDE DEF added, t
<1>7. Fits(t, d)
  <2>1. ASSUME NEW o \in DOMAIN t.added
        PROVE  IF t.added[o].dirty THEN t.added[o].coin # NoCoin
               ELSE /\ o \notin t.removed
                    /\ t.added[o].coin # NoCoin <=> o \in DOMAIN d.coins
    <3>1. CASE o \in tx.outs
      BY <3>1, <1>2, <1>4
    <3>2. CASE o \notin tx.outs
      <4>1. o \in DOMAIN v.added /\ o \notin tx.ins /\ t.added[o] = v.added[o]
        BY <3>2, <1>2, <1>3, <1>5
      <4>2. QED
        BY <4>1, <1>2 DEF Fits
    <3>3. QED
      BY <3>1, <3>2
  <2>3. QED
    BY <2>1 DEF Fits
<1>8. DirtyOuts(t) = (DirtyOuts(v) \ tx.ins) \cup tx.outs
  <2>1. ASSUME NEW o PROVE o \in DirtyOuts(t) <=> o \in (DirtyOuts(v) \ tx.ins) \cup tx.outs
    BY <1>2, <1>3, <1>4, <1>5 DEF DirtyOuts
  <2>2. QED
    BY <2>1
<1>9. Coins(t, d) = (DirtyOuts(t) \cup DOMAIN d.coins) \ t.removed
  BY <1>6, <1>7, CoinsAre
<1>10. Coins(v, d) = (DirtyOuts(v) \cup DOMAIN d.coins) \ v.removed
  BY CoinsAre
<1>11. Coins(t, d) = (Coins(v, d) \ tx.ins) \cup (tx.outs \ (v.removed \cup tx.ins))
  BY <1>2, <1>8, <1>9, <1>10
<1>12. QED
  BY <1>2, <1>7, <1>8, <1>11 DEF t
\* The rest of a sequence, from an element on.
LEMMA LastPart ==
    ASSUME NEW S, NEW s \in Seq(S), NEW n \in 1..Len(s)
    PROVE  /\ SubSeq(s, n, Len(s)) # <<>>
           /\ Head(SubSeq(s, n, Len(s))) = s[n]
           /\ Tail(SubSeq(s, n, Len(s))) = IF n = Len(s) THEN <<>> ELSE SubSeq(s, n + 1, Len(s))
<1>1. Len(s) \in Nat /\ \A i \in n..Len(s) : s[i] \in S
  OBVIOUS
<1>2. /\ Head(SubSeq(s, n, Len(s))) = s[n]
      /\ Tail(SubSeq(s, n, Len(s))) = SubSeq(s, n + 1, Len(s))
  BY <1>1, HeadTailOfSubSeq
<1>3. SubSeq(s, n, Len(s)) # <<>>
  <2>1. Len(SubSeq(s, n, Len(s))) = Len(s) - n + 1
    BY <1>1
  <2>2. QED
    BY <1>1, <2>1
<1>4. n = Len(s) => SubSeq(s, n + 1, Len(s)) = <<>>
  BY <1>1
<1>5. QED
  BY <1>2, <1>3, <1>4

-----------------------------------------------------------------------------
(* The engine implements CoinLedger. *)

CoinsInv == Fits(view, coinDB)

Todo == IF diskPc = "transfer"
        THEN SubSeq(Txs[diskBlock], diskTx, Len(Txs[diskBlock])) ELSE <<>>

Flushing == {t \in {"main", "disk"} :
                (IF t = "main" THEN mainPc ELSE diskPc) = "clear"}

SavedCoins == [tip |-> coinDB.best, utxo |-> DOMAIN coinDB.coins]

\* The refinement mapping, in these names.
LEMMA Mapping ==
    /\ C!Init <=> /\ view.best = NoBlock /\ Todo = <<>> /\ Coins(view, coinDB) = {}
                  /\ view.removed = {} /\ SavedCoins = [tip |-> NoBlock, utxo |-> {}]
                  /\ Flushing = {}
    /\ \A b : C!Extend(b) <=>
                  /\ Todo = <<>> /\ view'.best = b /\ Todo' = Txs[b]
                  /\ Coins(view, coinDB)' = Coins(view, coinDB)
                  /\ view'.removed = view.removed
                  /\ SavedCoins' = SavedCoins /\ Flushing' = Flushing
    /\ \A t : C!Save(t) <=>
                  /\ t \notin Flushing /\ Flushing' = Flushing \cup {t}
                  /\ SavedCoins' = [tip |-> view.best, utxo |-> Coins(view, coinDB)]
                  /\ view'.best = view.best /\ Todo' = Todo
                  /\ Coins(view, coinDB)' = Coins(view, coinDB)
                  /\ view'.removed = view.removed
    /\ \A t : C!Forget(t) <=>
                  /\ t \in Flushing /\ Flushing' = Flushing \ {t}
                  /\ Coins(view, coinDB)' = SavedCoins.utxo /\ view'.removed = {}
                  /\ view'.best = view.best /\ Todo' = Todo /\ SavedCoins' = SavedCoins
    /\ C!Recover <=>
                  /\ view'.best = SavedCoins.tip /\ Coins(view, coinDB)' = SavedCoins.utxo
                  /\ Todo' = <<>> /\ view'.removed = {} /\ Flushing' = {}
                  /\ SavedCoins' = SavedCoins
BY DEF C!Init, C!Extend, C!Save, C!Forget, C!Recover, Todo, Flushing, SavedCoins

\* What hides the coins' part of the state from the ledger.
LEMMA LedgerStutter ==
    ASSUME view'.best = view.best, Todo' = Todo, view'.removed = view.removed,
           Coins(view, coinDB)' = Coins(view, coinDB), SavedCoins' = SavedCoins,
           Flushing' = Flushing
    PROVE  UNCHANGED C!vars
BY DEF C!vars, Todo, Flushing, SavedCoins

\* Steps that leave the coins alone.
CoinsAlone ==
    /\ UNCHANGED <<view, coinDB>>
    /\ UNCHANGED <<diskPc, diskBlock, diskTx>>
       \/ ({diskPc, diskPc'} \cap {"transfer", "clear"} = {})
    /\ UNCHANGED mainPc \/ ({mainPc, mainPc'} \cap {"clear"} = {})

LEMMA AloneLedger ==
    ASSUME CoinsInv, CoinsAlone
    PROVE  CoinsInv' /\ UNCHANGED C!vars
<1>1. UNCHANGED <<view, coinDB>>
  BY DEF CoinsAlone
<1>2. Todo' = Todo
  BY DEF CoinsAlone, Todo
<1>3. Flushing' = Flushing
  BY DEF CoinsAlone, Flushing
<1>4. SavedCoins' = SavedCoins /\ Coins(view, coinDB)' = Coins(view, coinDB)
  BY <1>1 DEF SavedCoins
<1>5. CoinsInv'
  BY <1>1 DEF CoinsInv
<1>6. QED
  BY <1>1, <1>2, <1>3, <1>4, <1>5, LedgerStutter

\* writeCoins, on either thread and at any moment, saves what a reader sees.
LEMMA SaveLedger ==
    ASSUME TypeOK, CoinsInv, NEW t, t \notin Flushing, Flushing' = Flushing \cup {t},
           Todo' = Todo, UNCHANGED view, coinDB' = WriteCoins(view, coinDB)
    PROVE  CoinsInv' /\ C!Save(t)
<1>1. IsView(view) /\ IsCoinDB(coinDB) /\ Fits(view, coinDB)
  BY DEF TypeOK, CoinsInv
<1>2. /\ DOMAIN coinDB'.coins = Coins(view, coinDB)
      /\ coinDB'.best = view.best
      /\ Fits(view, coinDB')
      /\ Coins(view, coinDB') = Coins(view, coinDB)
  BY <1>1, WrittenCoins
<1>3. SavedCoins' = [tip |-> view.best, utxo |-> Coins(view, coinDB)]
  BY <1>2 DEF SavedCoins
<1>4. CoinsInv'
  BY <1>2 DEF CoinsInv
<1>5. Coins(view, coinDB)' = Coins(view, coinDB)
  BY <1>2
<1>6. QED
  BY <1>3, <1>4, <1>5, Mapping

\* Clearing the cache drops what was not saved, spendings included.
LEMMA ClearLedger ==
    ASSUME TypeOK, NEW t, t \in Flushing, Flushing' = Flushing \ {t},
           Todo' = Todo, UNCHANGED coinDB, view' = Cleared(view)
    PROVE  CoinsInv' /\ C!Forget(t)
<1>1. IsView(view) /\ IsCoinDB(coinDB)
  BY DEF TypeOK
<1>2. IsView(view') /\ view'.best = view.best
  BY <1>1, ClearedType, BestOfView
<1>3. view'.added = EmptyMap /\ view'.removed = {}
  BY <1>1 DEF Cleared, IsView
<1>4. Fits(view', coinDB) /\ Coins(view', coinDB) = DOMAIN coinDB.coins
  BY <1>1, <1>2, <1>3, EmptyCache
<1>5. SavedCoins' = SavedCoins /\ Coins(view, coinDB)' = SavedCoins.utxo
  BY <1>4 DEF SavedCoins
<1>6. CoinsInv'
  BY <1>4 DEF CoinsInv
<1>7. QED
  BY <1>2, <1>3, <1>5, <1>6, Mapping

\* Looking at coins changes none.
LEMMA LookLedger ==
    ASSUME TypeOK, CoinsInv, VerifyTransactions, Up'
    PROVE  CoinsInv' /\ UNCHANGED C!vars
<1> DEFINE S == CheckedOuts(diskBlock) \cup Ins(diskBlock)
<1>1. IsView(view) /\ IsCoinDB(coinDB) /\ Fits(view, coinDB)
  BY DEF TypeOK, CoinsInv
<1>2. /\ UNCHANGED <<coinDB, mainPc>> /\ view' = Cached(view, coinDB, S)
      /\ diskPc = "verify" /\ diskPc' = "tip"
  BY DEF VerifyTransactions, Up
<1>3. S \subseteq Out
  <2>1. diskBlock \in Block
    BY <1>2 DEF TypeOK
  <2>2. QED
    BY <2>1, TxFacts DEF CheckedOuts, Ins, Outs
<1> HIDE DEF S
<1>4. /\ IsView(view') /\ view'.best = view.best
      /\ Fits(view', coinDB)
      /\ DirtyOuts(view') = DirtyOuts(view) /\ view'.removed = view.removed
  BY <1>1, <1>2, <1>3, CachedType, CachedCoins
<1>5. Coins(view', coinDB) = Coins(view, coinDB)
  BY <1>1, <1>4, CoinsAre
<1>6. Todo' = Todo /\ Flushing' = Flushing /\ SavedCoins' = SavedCoins
  BY <1>2 DEF Todo, Flushing, SavedCoins
<1>7. Coins(view, coinDB)' = Coins(view, coinDB)
  BY <1>2, <1>5
<1>8. CoinsInv'
  BY <1>2, <1>4 DEF CoinsInv
<1>9. QED
  BY <1>4, <1>6, <1>7, <1>8, LedgerStutter

\* The best block of the coins is set: its transactions are next.
LEMMA ExtendLedger ==
    ASSUME TypeOK, CoinsInv, SetBestBlockHash
    PROVE  CoinsInv' /\ \E b \in Block : C!Extend(b)
<1>1. IsView(view) /\ Fits(view, coinDB)
  BY DEF TypeOK, CoinsInv
<1>2. /\ UNCHANGED <<coinDB, diskBlock, mainPc>>
      /\ diskPc = "best" /\ diskTx' = 1
      /\ diskPc' = IF Txs[diskBlock] = <<>> THEN "end" ELSE "transfer"
  BY DEF SetBestBlockHash
<1>3. diskBlock \in Block
  BY <1>2 DEF TypeOK
<1>4. /\ view'.best = diskBlock
      /\ view'.added = view.added /\ view'.removed = view.removed
  BY <1>1 DEF SetBestBlockHash, IsView
<1>5. Coins(view, coinDB)' = Coins(view, coinDB)
  BY <1>2, <1>4 DEF Coins, HasCoin, Lookup
<1>6. CoinsInv'
  BY <1>1, <1>2, <1>4 DEF CoinsInv, Fits
<1>7. Todo = <<>> /\ Flushing' = Flushing /\ SavedCoins' = SavedCoins
  BY <1>2 DEF Todo, Flushing, SavedCoins
<1>8. Todo' = Txs[diskBlock]
  <2>1. Txs[diskBlock] \in Seq(Transaction)
    BY <1>3, ContentAssumption
  <2>2. SubSeq(Txs[diskBlock], 1, Len(Txs[diskBlock])) = Txs[diskBlock]
    BY <2>1
  <2>3. QED
    BY <1>2, <2>2 DEF Todo
<1>9. C!Extend(diskBlock)
  BY <1>4, <1>5, <1>7, <1>8, Mapping
<1>10. QED
  BY <1>3, <1>6, <1>9

\* A transaction of the block is applied.
LEMMA ApplyLedger ==
    ASSUME TypeOK, CoinsInv, TransferTx, Up'
    PROVE  CoinsInv' /\ C!Apply
<1> DEFINE b == diskBlock
           n == diskTx
           tx == Txs[b][n]
<1>1. IsView(view) /\ IsCoinDB(coinDB) /\ Fits(view, coinDB)
  BY DEF TypeOK, CoinsInv
<1>2. diskPc = "transfer" /\ failed' = "none"
  BY DEF TransferTx, Up
<1>3. /\ UNCHANGED <<coinDB, diskBlock, mainPc>>
      /\ view' = Transfer(view, tx, Height(b)) /\ diskTx' = n + 1
      /\ diskPc' = IF n = Len(Txs[b]) THEN "end" ELSE "transfer"
      /\ TransferError(view, coinDB, tx, Height(b)) = "none"
  BY <1>2 DEF TransferTx
<1>4. b \in Block /\ n \in 1..Len(Txs[b]) /\ Len(Txs[b]) \in Nat /\ Height(b) \in Nat
  BY <1>2, TxFacts, BlockFacts DEF TypeOK
<1>5. tx \in Transaction /\ tx.ins \subseteq Out
  BY <1>4, TxFacts
<1>6. tx.ins \subseteq Coins(view, coinDB)
  BY <1>3, <1>5 DEF TransferError, Coins
<1>7. /\ Fits(view', coinDB)
      /\ view'.removed = view.removed \cup tx.ins
      /\ view'.best = view.best
      /\ Coins(view', coinDB) =
            (Coins(view, coinDB) \ tx.ins) \cup (tx.outs \ (view.removed \cup tx.ins))
  BY <1>1, <1>3, <1>4, <1>5, TransferCoins
<1> HIDE DEF tx
<1>8. Txs[b] \in Seq(Transaction)
  BY <1>4, ContentAssumption
<1>9. /\ Todo # <<>> /\ Head(Todo) = tx
      /\ Tail(Todo) = IF n = Len(Txs[b]) THEN <<>> ELSE SubSeq(Txs[b], n + 1, Len(Txs[b]))
  <2>1. Todo = SubSeq(Txs[b], n, Len(Txs[b]))
    BY <1>2 DEF Todo
  <2>2. QED
    BY <1>4, <1>8, <2>1, LastPart DEF tx
<1>10. Todo' = Tail(Todo)
  BY <1>3, <1>9 DEF Todo
<1>11. Flushing' = Flushing /\ SavedCoins' = SavedCoins
  BY <1>2, <1>3 DEF Flushing, SavedCoins
<1>12. Coins(view, coinDB)' =
          (Coins(view, coinDB) \ tx.ins) \cup (tx.outs \ (view.removed \cup tx.ins))
  BY <1>3, <1>7
<1>13. C!Apply
  BY <1>6, <1>7, <1>9, <1>10, <1>11, <1>12 DEF C!Apply, Todo, Flushing, SavedCoins
<1>14. QED
  BY <1>3, <1>7, <1>13 DEF CoinsInv

\* A restart recovers what was saved, however the process ended.
LEMMA RecoverLedger ==
    ASSUME TypeOK, Restart
    PROVE  CoinsInv' /\ C!Recover
<1>1. IsCoinDB(coinDB) /\ UNCHANGED coinDB
  BY DEF TypeOK, Restart
<1>2. /\ view' = LoadView(coinDB) /\ IsView(view')
      /\ diskPc' = "idle" /\ mainPc' = "idle"
  BY <1>1, LoadViewType DEF Restart, LoadFrom
<1>3. view'.best = coinDB.best /\ view'.added = EmptyMap /\ view'.removed = {}
  BY <1>2 DEF LoadView
<1>4. Fits(view', coinDB) /\ Coins(view', coinDB) = DOMAIN coinDB.coins
  BY <1>1, <1>2, <1>3, EmptyCache
<1>5. /\ Todo' = <<>> /\ Flushing' = {} /\ SavedCoins' = SavedCoins
      /\ view'.best = SavedCoins.tip /\ Coins(view, coinDB)' = SavedCoins.utxo
  BY <1>1, <1>2, <1>3, <1>4 DEF Todo, Flushing, SavedCoins
<1>6. CoinsInv'
  BY <1>1, <1>4 DEF CoinsInv
<1>7. QED
  BY <1>3, <1>5, <1>6, Mapping

LEMMA InitLedger ==
    ASSUME Init
    PROVE  CoinsInv /\ C!Init
<1>1. coinDB = EmptyCoins /\ view = LoadView(coinDB) /\ diskPc = "idle" /\ mainPc = "idle"
  BY DEF Init
<1>2. IsCoinDB(coinDB) /\ IsView(view) /\ DOMAIN coinDB.coins = {} /\ coinDB.best = NoBlock
  BY <1>1, LoadViewType DEF EmptyCoins, EmptyMap, IsCoinDB, IsOutMap
<1>3. view.best = NoBlock /\ view.added = EmptyMap /\ view.removed = {}
  BY <1>1, <1>2 DEF LoadView
<1>4. Fits(view, coinDB) /\ Coins(view, coinDB) = {}
  BY <1>2, <1>3, EmptyCache
<1>5. /\ Todo = <<>> /\ Flushing = {}
      /\ SavedCoins = [tip |-> NoBlock, utxo |-> {}]
  BY <1>1, <1>2 DEF Todo, Flushing, SavedCoins
<1>6. QED
  BY <1>3, <1>4, <1>5, Mapping DEF CoinsInv

\* The steps of a flush, on either thread.
LEMMA FlushLedger ==
    ASSUME TypeOK, CoinsInv,
           MainWriteCoins \/ MainClearCoins \/ DiskWriteCoins \/ DiskClearCoins, Up'
    PROVE  CoinsInv' /\ \E t \in {"main", "disk"} : C!Save(t) \/ C!Forget(t)
<1>1. failed' = "none"
  BY DEF Up
<1>2. CASE MainWriteCoins
  <2>1. /\ UNCHANGED <<view, diskPc, diskBlock, diskTx>> /\ coinDB' = WriteCoins(view, coinDB)
        /\ mainPc = "write" /\ mainPc' = "clear"
    BY <1>1, <1>2 DEF MainWriteCoins, Fail
  <2>2. "main" \notin Flushing /\ Flushing' = Flushing \cup {"main"} /\ Todo' = Todo
    BY <2>1 DEF Flushing, Todo
  <2>3. QED
    BY <2>1, <2>2, SaveLedger
<1>3. CASE DiskWriteCoins
  <2>1. /\ UNCHANGED <<view, mainPc>> /\ coinDB' = WriteCoins(view, coinDB)
        /\ diskPc = "write" /\ diskPc' = "clear"
    BY <1>1, <1>3 DEF DiskWriteCoins, Fail
  <2>2. "disk" \notin Flushing /\ Flushing' = Flushing \cup {"disk"} /\ Todo' = Todo
    BY <2>1 DEF Flushing, Todo
  <2>3. QED
    BY <2>1, <2>2, SaveLedger
<1>4. CASE MainClearCoins
  <2>1. /\ UNCHANGED <<coinDB, diskPc, diskBlock, diskTx>> /\ view' = Cleared(view)
        /\ mainPc = "clear" /\ mainPc' = "idle"
    BY <1>4 DEF MainClearCoins
  <2>2. "main" \in Flushing /\ Flushing' = Flushing \ {"main"} /\ Todo' = Todo
    BY <2>1 DEF Flushing, Todo
  <2>3. QED
    BY <2>1, <2>2, ClearLedger
<1>5. CASE DiskClearCoins
  <2>1. /\ UNCHANGED <<coinDB, mainPc>> /\ view' = Cleared(view)
        /\ diskPc = "clear" /\ diskPc' = "verify"
    BY <1>5 DEF DiskClearCoins
  <2>2. "disk" \in Flushing /\ Flushing' = Flushing \ {"disk"} /\ Todo' = Todo
    BY <2>1 DEF Flushing, Todo
  <2>3. QED
    BY <2>1, <2>2, ClearLedger
<1>6. QED
  BY <1>2, <1>3, <1>4, <1>5

\* A step that fails an assertion does nothing else.
LEMMA FailedAlone ==
    ASSUME \/ MainWriteCoins \/ MainClearCoins \/ DiskWriteCoins \/ DiskClearCoins
           \/ VerifyTransactions \/ TransferTx,
           ~ Up'
    PROVE  CoinsAlone
<1>1. failed' # "none"
  BY DEF Up
<1>2. UNCHANGED <<view, coinDB, mainPc, diskPc, diskBlock, diskTx>>
  BY <1>1 DEF MainWriteCoins, MainClearCoins, DiskWriteCoins, DiskClearCoins,
              VerifyTransactions, TransferTx, Up, DiskMoves
<1>3. QED
  BY <1>2 DEF CoinsAlone

LEMMA LedgerStep ==
    ASSUME TypeOK, CoinsInv, [Next]_vars
    PROVE  CoinsInv' /\ [C!Next]_C!vars
<1>1. CASE MainWriteCoins \/ MainClearCoins \/ DiskWriteCoins \/ DiskClearCoins
  <2>1. CASE Up'
    BY <1>1, <2>1, FlushLedger DEF C!Next
  <2>2. CASE ~ Up'
    BY <1>1, <2>2, FailedAlone, AloneLedger
  <2>3. QED
    BY <2>1, <2>2
<1>2. CASE VerifyTransactions
  BY <1>2, LookLedger, FailedAlone, AloneLedger
<1>3. CASE TransferTx
  <2>1. CASE Up'
    BY <1>3, <2>1, ApplyLedger DEF C!Next
  <2>2. CASE ~ Up'
    BY <1>3, <2>2, FailedAlone, AloneLedger
  <2>3. QED
    BY <2>1, <2>2
<1>4. CASE SetBestBlockHash
  BY <1>4, ExtendLedger DEF C!Next
<1>5. CASE Restart
  BY <1>5, RecoverLedger DEF C!Next
<1>6. CASE \/ \E b \in Block : AddHeader(b)
           \/ \E p \in Peer, t \in Block : RequestBlocks(p, t)
           \/ \E p \in Peer, b \in Block : AddBlock(p, b)
           \/ DoWriteBlock \/ DoFlush \/ BeginConnect \/ ConnectTip \/ EndConnect
           \/ UNCHANGED vars
  <2>1. CoinsAlone
    BY <1>6
    DEF CoinsAlone, AddHeader, RequestBlocks, AddBlock, DoWriteBlock, DoFlush,
        BeginConnect, ConnectTip, EndConnect, NextTask, MainFree, vars
  <2>2. QED
    BY <2>1, AloneLedger
<1>7. QED
  BY <1>1, <1>2, <1>3, <1>4, <1>5, <1>6 DEF Next, MainStep, DiskStep

\* The engine implements the ledger of the coins, on any branches, from any
\* nodes, with the flushes of the two threads at any two moments and whatever
\* output a transaction repeats: the cache, its null entries and the set of
\* removed coins never show a reader, or leave in the database, a coin that the
\* transactions and the flushes do not account for.
THEOREM EngineImplementsCoinLedger == Spec => ImplementsCoinLedger
<1>1. Init => CoinsInv /\ C!Init
  BY InitLedger
<1>2. TypeOK /\ CoinsInv /\ [Next]_vars => CoinsInv' /\ [C!Next]_C!vars
  BY LedgerStep
<1>3. QED
  BY <1>1, <1>2, TypeCorrect, PTL DEF Spec, ImplementsCoinLedger, C!Spec
-----------------------------------------------------------------------------
(* The heights the engine compares. *)

\* Cached coins and cleared ones leave the best height alone, too.
LEMMA HeightOfView ==
    ASSUME NEW v, IsView(v)
    PROVE  /\ Cleared(v).height = v.height
           /\ \A d, S : Cached(v, d, S).height = v.height
           /\ \A tx, h : Transfer(v, tx, h).height = v.height
BY DEF IsView, Cleared, Cached, Transfer

\* From setTip on the chain ends at the block that is connected, and from
\* setBestBlockHash on its height is that of the coins.
Connected ==
    /\ diskPc \in {"best", "transfer", "end"} => Len(chain) - 1 = Height(diskBlock)
    /\ diskPc \in {"transfer", "end"} =>
          view.height = Height(diskBlock) /\ view.best # NoBlock

\* No coin before the first block.
NoneYet ==
    /\ view.best = NoBlock => DirtyOuts(view) = {} /\ DOMAIN coinDB.coins = {}
    /\ coinDB.best = NoBlock => DOMAIN coinDB.coins = {}

HeightInv == HeightsAgree /\ Connected /\ NoneYet

LEMMA InitHeights == Init => HeightInv
BY DEF Init, HeightInv, HeightsAgree, Connected, NoneYet, LoadView, EmptyCoins, EmptyMap,
       DirtyOuts

\* Steps that move no coin, no tip and no height, and fail no assertion.
LEMMA HeightsKept ==
    ASSUME HeightInv, UNCHANGED <<view, coinDB, chain, failed>>,
           \/ UNCHANGED <<diskPc, diskBlock>>
           \/ diskPc' \notin {"best", "transfer", "end"}
    PROVE  HeightInv'
BY DEF HeightInv, HeightsAgree, Connected, NoneYet

\* writeCoins: without a best block there is nothing to write.
LEMMA WriteHeights ==
    ASSUME TypeOK, CoinsInv, HeightInv, MainWriteCoins \/ DiskWriteCoins
    PROVE  HeightInv'
<1>1. /\ UNCHANGED <<view, chain, diskBlock>>
      /\ UNCHANGED diskPc \/ diskPc' \in {"clear", "write"}
      /\ \/ coinDB' = WriteCoins(view, coinDB) /\ failed' = failed
         \/ coinDB' = coinDB /\ failed' = "CoinView:129"
  BY DEF MainWriteCoins, DiskWriteCoins, Fail
<1>2. IsView(view) /\ IsCoinDB(coinDB) /\ Fits(view, coinDB)
  BY DEF TypeOK, CoinsInv
<1>3. HeightsAgree' /\ Connected'
  BY <1>1 DEF HeightInv, HeightsAgree, Connected
<1>4. CASE coinDB' = WriteCoins(view, coinDB)
  <2>1. DOMAIN coinDB'.coins = Coins(view, coinDB) /\ coinDB'.best = view.best
    BY <1>2, <1>4, WrittenCoins
  <2>2. view.best = NoBlock => Coins(view, coinDB) = {}
    BY <1>2, CoinsAre DEF HeightInv, NoneYet
  <2>3. QED
    BY <1>1, <1>3, <2>1, <2>2 DEF HeightInv, NoneYet
<1>5. CASE coinDB' = coinDB
  BY <1>1, <1>3, <1>5 DEF HeightInv, NoneYet
<1>6. QED
  BY <1>1, <1>4, <1>5

LEMMA ClearHeights ==
    ASSUME TypeOK, HeightInv, MainClearCoins \/ DiskClearCoins
    PROVE  HeightInv'
<1>1. /\ UNCHANGED <<coinDB, chain, failed, diskBlock>> /\ view' = Cleared(view)
      /\ UNCHANGED diskPc \/ diskPc' = "verify"
  BY DEF MainClearCoins, DiskClearCoins
<1>2. IsView(view)
  BY DEF TypeOK
<1>3. view'.best = view.best /\ view'.height = view.height
  BY <1>1, <1>2, BestOfView, HeightOfView
<1>4. DirtyOuts(view') = {}
  <2>1. DOMAIN view'.added = {}
    BY <1>1, <1>2 DEF Cleared, IsView, EmptyMap
  <2>2. QED
    BY <2>1 DEF DirtyOuts
<1>5. QED
  BY <1>1, <1>3, <1>4 DEF HeightInv, HeightsAgree, Connected, NoneYet

\* Verifying a block caches clean entries, and fails its own assertions only.
LEMMA VerifyHeights ==
    ASSUME TypeOK, CoinsInv, HeightInv, VerifyTransactions
    PROVE  HeightInv'
<1>1. /\ UNCHANGED <<coinDB, chain, diskBlock>>
      /\ diskPc = "verify" /\ diskPc' \in {"verify", "tip"}
      /\ failed' = VerifyError(diskBlock)
      /\ \/ UNCHANGED view
         \/ view' = Cached(view, coinDB, CheckedOuts(diskBlock) \cup Ins(diskBlock))
  BY DEF VerifyTransactions
<1>2. IsView(view) /\ IsCoinDB(coinDB) /\ Fits(view, coinDB) /\ diskBlock \in Block
  BY <1>1 DEF TypeOK, CoinsInv
<1>3. CheckedOuts(diskBlock) \cup Ins(diskBlock) \subseteq Out
  BY <1>2, TxFacts DEF CheckedOuts, Ins, Outs
<1>4. DirtyOuts(view') = DirtyOuts(view) /\ view'.best = view.best
  BY <1>1, <1>2, <1>3, CachedCoins
<1>5. HeightsAgree'
  BY <1>1 DEF VerifyError, HeightsAgree
<1>6. QED
  BY <1>1, <1>4, <1>5 DEF HeightInv, Connected, NoneYet

\* setTip makes the array as long as the branch of the connected block.
LEMMA TipHeights ==
    ASSUME TypeOK, ChainIsBranch, HeightInv, ConnectTip
    PROVE  HeightInv'
<1>1. /\ UNCHANGED <<view, coinDB, diskBlock, failed>>
      /\ diskPc' = "best" /\ chain' = SetTip(chain, diskBlock)
  BY DEF ConnectTip
<1>2. Tip \in Block /\ diskBlock \in Block
  BY ElementOfSeq DEF ConnectTip, TypeOK, Tip
<1>3. chain' = Path[diskBlock]
  BY <1>1, <1>2, SetTipIsBranch DEF ChainIsBranch
<1>4. Len(chain') - 1 = Height(diskBlock)
  BY <1>3 DEF Height
<1>5. QED
  BY <1>1, <1>4 DEF HeightInv, HeightsAgree, Connected, NoneYet

LEMMA BestHeights ==
    ASSUME TypeOK, HeightInv, SetBestBlockHash
    PROVE  HeightInv'
<1>1. /\ UNCHANGED <<coinDB, chain, diskBlock, failed>>
      /\ diskPc = "best" /\ diskPc' \in {"transfer", "end"}
  BY DEF SetBestBlockHash
<1>2. diskBlock \in Block
  BY <1>1 DEF TypeOK
<1>3. view'.best = diskBlock /\ view'.height = Height(diskBlock)
  BY DEF SetBestBlockHash, TypeOK, IsView
<1>4. view'.best # NoBlock
  BY <1>2, <1>3, NoBlockAssumption
<1>5. QED
  BY <1>1, <1>3, <1>4 DEF HeightInv, HeightsAgree, Connected, NoneYet

\* A coin is added at the height of the best block.
LEMMA TransferHeights ==
    ASSUME TypeOK, HeightInv, TransferTx
    PROVE  HeightInv'
<1> DEFINE tx == Txs[diskBlock][diskTx]
<1>1. /\ UNCHANGED <<coinDB, chain, diskBlock>>
      /\ diskPc = "transfer" /\ diskPc' \in {"transfer", "end"}
      /\ failed' = TransferError(view, coinDB, tx, Height(diskBlock))
      /\ UNCHANGED view \/ view' = Transfer(view, tx, Height(diskBlock))
  BY DEF TransferTx
<1>2. IsView(view) /\ diskBlock \in Block /\ Height(diskBlock) \in Nat
  BY <1>1, BlockFacts DEF TypeOK
<1>3. view.height = Height(diskBlock) /\ view.best # NoBlock
  BY <1>1 DEF HeightInv, Connected
<1>4. view'.best = view.best /\ view'.height = view.height
  BY <1>1, <1>2, BestOfView, HeightOfView
<1>5. failed' \in {"CoinView:118", "CoinView:79", "none"}
  BY <1>1, <1>2, <1>3 DEF TransferError
<1>6. HeightsAgree'
  BY <1>5 DEF HeightsAgree
<1>7. QED
  BY <1>1, <1>3, <1>4, <1>6 DEF HeightInv, Connected, NoneYet

LEMMA EndHeights ==
    ASSUME HeightInv, EndConnect
    PROVE  HeightInv'
<1>1. Len(chain) - 1 = view.height
  BY DEF EndConnect, HeightInv, Connected
<1>2. UNCHANGED <<view, coinDB, chain, failed>> /\ diskPc' = "idle"
  BY <1>1 DEF EndConnect
<1>3. QED
  BY <1>2, HeightsKept

LEMMA RestartHeights ==
    ASSUME TypeOK, HeightInv, Restart
    PROVE  HeightInv'
<1>1. /\ UNCHANGED coinDB /\ view' = LoadView(coinDB) /\ diskPc' = "idle"
      /\ failed' \in {"none", "BlockCache:207"} \/ ~ LoadAsserts(coinDB)
  BY DEF Restart, LoadFrom
<1>2. view'.best = coinDB.best /\ DirtyOuts(view') = {}
  BY <1>1 DEF LoadView, DirtyOuts, EmptyMap
<1>3. LoadAsserts(coinDB)
  BY DEF LoadAsserts, HeightInv, NoneYet
<1>4. QED
  BY <1>1, <1>2, <1>3 DEF HeightInv, HeightsAgree, Connected, NoneYet

LEMMA HeightStep ==
    TypeOK /\ CoinsInv /\ ChainIsBranch /\ HeightInv /\ [Next]_vars => HeightInv'
<1> SUFFICES ASSUME TypeOK, CoinsInv, ChainIsBranch, HeightInv, [Next]_vars PROVE HeightInv'
  OBVIOUS
<1>1. CASE \/ \E b \in Block : AddHeader(b)
           \/ \E p \in Peer, t \in Block : RequestBlocks(p, t)
           \/ \E p \in Peer, b \in Block : AddBlock(p, b)
           \/ DoWriteBlock \/ DoFlush \/ BeginConnect \/ UNCHANGED vars
  <2>1. /\ UNCHANGED <<view, coinDB, chain, failed>>
        /\ \/ UNCHANGED <<diskPc, diskBlock>>
           \/ diskPc' \notin {"best", "transfer", "end"}
    BY <1>1 DEF AddHeader, RequestBlocks, AddBlock, DoWriteBlock, DoFlush, BeginConnect, vars
  <2>2. QED
    BY <2>1, HeightsKept
<1>2. QED
  BY <1>1, WriteHeights, ClearHeights, VerifyHeights, TipHeights, BestHeights,
     TransferHeights, EndHeights, RestartHeights
  DEF Next, MainStep, DiskStep

\* In every interleaving of the two threads, on any branches and across any
\* restarts, the chain ends a connection as high as the coins' best block, no
\* coin is added above it and no coin is saved without one.
THEOREM HeightsAlwaysAgree == Spec => []HeightsAgree
<1>1. Init => CoinsInv /\ HeightInv
  BY InitLedger, InitHeights
<1>2. TypeOK /\ ChainIsBranch /\ CoinsInv /\ HeightInv /\ [Next]_vars => CoinsInv' /\ HeightInv'
  BY LedgerStep, HeightStep
<1>3. HeightInv => HeightsAgree
  BY DEF HeightInv
<1>4. QED
  BY <1>1, <1>2, <1>3, TypeCorrect, BestChainIsBranch, PTL DEF Spec
=============================================================================
