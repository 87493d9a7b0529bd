# Specifications of xbtc

xbtc downloads the Bitcoin block chain from other nodes, checks it and stores
it.  This directory holds TLA+ models of it, the TLC configurations that check
them on small instances, and TLAPS proofs of what holds on every instance.
Paths like `storage/BlockCache.cpp` are relative to `src/src/`.

## The system

Two threads run the program: the *main* thread, the io_service of the network,
and the *disk* thread, the io_service of slow work (`app.cpp`).  The repository's
README says that they talk only by posting tasks; in fact both call
`BlockCache`, `CoinView` and `BlockChain` directly and there is no lock.

| component | state | operations | interacts with |
|---|---|---|---|
| BlockCache | headers by hash, dirty entries, flush timer | addBlockIndex, addBlock, onBlockWritten, flush, load | all of storage; called by the synchronizer (main) and by BlockStorage (disk) |
| BlockStorage | block files' sizes, dirty files, the disk queue | writeBlock, doWriteBlock, flush, doFlush, readBlock | BlockIndexDB; calls BlockCache back |
| BlockIndexDB | blocks/index: headers, file records | writeBlocks, loadAll | LevelDB |
| CoinView, CoinDB | cached and removed coins, best block; chainstate | fetchCoin, transfer, flush, load, writeCoins | Validator and BlockCache call it |
| BlockChain | the best chain as an array by height | setTip, getLocator, findLastCommonAncestor | BlockCache, synchronizer |
| Validator, Compatibility, Consensus | none | header and transaction checks | CoinView, ScriptVM |
| BlockSynchronizer, NodeSyncInfo | nodes, headers requester, per node: best known, last common, last requested block, requested blocks | handleHeaders, handleBlock, onTick, addNode, removeNode | BlockCache, NodeManager, Node |
| NodeManager, Node | connected nodes by pointer and by address | addNewNode, removeNode, message handlers | everything in net |
| NodeConnector, PendingNode | connections in handshake | tryConnect, version/verack/reject, timeout | PeerPool, NodeManager |
| PeerPool (NodePool) | peers, ordered by last activity and, on standby, by last attempt | getConnectionPeer, addPeer, setPeer..., removeExpired | NodeConnector, PendingNode, Node |
| MessageDecoder | bytes of an incomplete message | decode | Node, PendingNode |
| Script machine | evaluation stack, error code | eval, one handler per opcode, getValue(s), verify | Validator |
| MerkleTree, Consensus, arith_uint256, VarEncoding | none | pure functions | Validator, BlockCache, messages, databases |

What is hard here, and what would make each part correct:

- *Storage engine.* A block crosses the disk queue twice (write the bytes, then
  connect it); index entries leave through the same queue in batches, coins are
  saved at once by whichever thread flushes; the process may end anywhere.
  Correct: the coins are always those of one whole chain, a restart finds what
  it needs, the tip is the block with the most work, no assertion fails.
- *Synchronizer.* Each node is asked for headers and batches of blocks; answers
  may be late, missing or unasked for.  Correct: every block a node announced is
  asked for in the end, and none is connected twice.
- *Connections.* A connection passes from the connector to the manager while its
  address is in the pool; it may be lost by the socket, by a timeout, by the
  synchronizer or by a message, and what is lost is put aside and destroyed
  later, with a last write to the pool.  Correct: the pool, the pending and the
  connected nodes agree, a connection has one owner, a lost address comes back.
- *Byte stream.* Messages arrive cut anywhere, several in a read; the object that
  handles them changes between two messages of one read.  Correct: each message
  is handled once, in order, by the right object, and none is held back.
- *Block files.* A block's place is decided on the main thread and remembered in
  two saved records, its index entry and the file's size.  Correct: whatever was
  saved when the process ended, no later block is written over one that the
  index has.
- *Script machine.* A failed script stops, but its evaluation returns true and
  the verdict looks at the top of the stack.  Correct: an input is accepted
  exactly when it has the key and the signatures its output asks for.
- *Pure algorithms.* Limb arithmetic, compact numbers, the Merkle calculator,
  locators and ancestors, encodings of variable length: boundaries.

`PROJECT.json` lists every component with its status and every hazard at its
line.

## Modules

- **`BlockTree`**: blocks as hashes, and what a hash commits to: the path to the
  genesis block, hence height and parent, and the work.  The modules below
  extend it.
- **`CoinView`**: the coin cache and the chainstate database as operators on two
  values, `view` (the members of `CoinsData`: best block and height, `added` with
  a dirty flag, `removed`) and `db`.  A coin is the height it was created at;
  `NoCoin` is the coin of value 0 that `fetchCoin` leaves in the cache when the
  database has none.
- **`ChainStorage`**: the storage engine.  Its variables are the members of
  `BlockCache` and its parts, the disk queue, what is on disk, where each of the two
  threads is in a call that touches shared state more than once (`mainPc`,
  `diskPc`), and `failed`, the assertion that ended the process (the build keeps
  assertions).  One action is a stretch of one thread's code between two
  accesses to shared state:

  | action | code |
  |---|---|
  | `AddHeader` | `addBlockIndex` of a new header, with `checkFlush` |
  | `MainWriteCoins`, `MainClearCoins` | `CoinView::flush` in that flush |
  | `RequestBlocks` | `findBlocksToDownload` and the getdata message |
  | `AddBlock` | `handleBlock`, `BlockCache::addBlock`, `BlockStorage::writeBlock` |
  | `DoWriteBlock` | `doWriteBlock`: the bytes, then the second task |
  | `DoFlush` | `doFlush`: the index entries as they are by then |
  | `BeginConnect` | `onBlockWritten`: mark the entry, `checkFlush` |
  | `DiskWriteCoins`, `DiskClearCoins` | `CoinView::flush` in that flush |
  | `VerifyTransactions` | `Validator::verifyTransactions` |
  | `ConnectTip`, `SetBestBlockHash`, `TransferTx`, `EndConnect` | `updateCoins` and the closing assertion |
  | `Restart` | the process ends, `load()` runs |

- **`Ledger`**: what the engine promises of the coins, with no cache, queue or
  thread: a chain that grows by a block, applies its transactions in order, saves
  whole blocks and recovers what it saved.
- **`CoinLedger`**: what it promises of the coins in every order of blocks, on any
  branches and however the two threads' flushes meet: a block's transactions are applied
  once each, in order, and spend what exists; what is saved is what a reader saw; and
  clearing the cache loses at most what came after the last saving.  An output spent since
  the cache was cleared does not come back.  It does not promise that blocks follow
  each other, nor that a saved state is one between two blocks: that is `Ledger`.
- **`ChainLedger`**: `ChainStorage` implements both, `Ledger` when blocks come in order.
  The coins a reader sees through the cache are the ledger's unspent outputs, those in
  chainstate are its saved ones.
- **`HeaderIndex`**: the same index when headers come in any order.  `AddHeader` is
  `addBlockIndex` with `updateBlockInfo` and `checkFlush`, and the assertion of
  `handleHeaders` that the last header of a message has an entry; `FindCommon` is
  `findBlocksToDownload` as far as `findLastCommonAncestor`; `DoFlush` saves entries;
  `Restart` is the stop and the first half of `load`, with `updatePreviousBlock`;
  `UpdateChainWork` is one turn of the loop that computes the work, over the entries in
  `todo`; `LoadGenesisBlock` ends the load of an empty database.  The walk of `getAncestor`
  along the links is `Back`: a link leads to the header's parent, so the walk follows the
  block's path as far as its entries are linked.
- **`BlockFiles`**: where the bytes go.  `WriteBlock` is `writeBlock` with
  `findBlockPos`, `DoWriteBlock` and `Written` are the two disk tasks.  `AddHeader` on the
  main thread and `Written` on the disk thread end in `MarkDirty`, which may begin a flush: it
  takes the dirty entries and copies the records of the dirty files.  `Clear` empties the set
  of dirty files and `Post` posts the batch.  There is no lock, so whatever the other thread does,
  its own flush included, may come between these three steps.  `DoFlush` is
  `BlockIndexDB::writeBlocks`, `Restart` is `load`.  Two history variables say where the code
  fails its purpose: `raced`, that a call of `writeBlock` or `flush` met the other thread's
  flush in this run of the program, and `uncovered`, the saved blocks that some
  restart found beyond the sizes it loaded.
- **`Synchronizer`**: `BlockSynchronizer` and each node's `NodeSyncInfo`, on the main
  thread, one action per handler:

  | action | code |
  |---|---|
  | `Answer` | `handleCommand_headers`, `handleCommand_block`: the answer to our oldest request |
  | `Announce` | `handleCommand_headers` without a request (we send sendheaders), of a header we know or not |
  | `AddNode`, `LoseNode` | `NodeManager::addNewNode`, `handleError` and `removeNode` |
  | `OnTick` | `checkHeaderRequestTimeout`, `chooseHeadersRueqster`, `scheduleRequestHeaders`, the timers run out or not |
  | `ConnectBlock` | the disk thread's work, as far as it moves the tip |
  | `Grow`, `FallSilent` | the other end |

- **`Connections`**: from an address to a node.  Its variables are the state of each
  peer in the pool and its two ordered sets (as sets: `PeerPoolImpl` takes a peer out before
  it changes its time or state and puts it back afterwards, so the lookup by time finds it),
  the connector's nodes and those it
  put aside, the manager's nodes and their index by address; `age` and
  `pool.since` count timer ticks.  A connection is its `NodeInfo`: an address and
  a number that tells connections to one address apart.

  | action | code |
  |---|---|
  | `Start`, `ResolverAddress` | `NodeManager::start`, a seed's answer in `PeerDiscoverer`; both `schedule` new connections (`TryConnect`: `getConnectionPeer`, `doConnect`) |
  | `SocketConnect` | `on_socket_connect` |
  | `HandshakeFails` | every call of `PendingNode::handleError` but the timer's: `setPeerDisconnected`, `removeConnection`, which destroys the one removed before |
  | `Verack` | `handleCommand_verack`, `handleConnectionCreated`, `addNewNode` |
  | `NodeFails` | `Node::on_socket_receive_failed`, `handleError`, `removeNode` |
  | `AddrMessage` | `handleCommand_addr` |
  | `OnTick` | the manager's timer: connector, handshake timeouts, and the synchronizer's removal of an overdue requester |

- **`Connection`**: one outbound connection in detail, from its socket to its loss.  `Receive`
  is a read and the start of `MessageDecoder::decode`; `DecodeMessage` is one turn of
  its loop with the whole handler of the message, of `PendingNode` or of `Node`;
  `BadMessage` and `EndDecode` are its exits; `Lost` is the socket or a timer.  A length is
  less than `Word` (2^32 in the code) and its sum with the header's wraps around (`Total`): then
  the test for enough data passes and the checksum is taken of bytes that are not there
  (`overrun`), where what happens is undefined; the model ends the process.
- **`MessageQueue`**: what `Connection` promises, with no bytes, reads or buffers: each
  message is handled once, in the order it was sent.
- **`ScriptNumber`**: numbers as strings (`encodeScriptNumber`, `decodeScriptNumber`) and the writers of
  scripts.  **`ScriptMachine`**: `ScriptVM` and the table of handlers, one action
  per handler, with the verdict of `verifyTransactionInput` (`StartOutput`,
  `Judge`).  **`ScriptTemplates`**: the scripts that blocks hold, and the
  properties of the machine on them.
- **`ArithUint`** (`arith_uint256` with limbs of any width), **`Consensus`** (compact
  numbers, the work of a block, the proof of work), **`MerkleTree`**, **`BlockWalk`**
  (`getAncestor`, locators, the last common ancestor) and **`VarEncoding`** (sizes, integers,
  lists, transactions, coin heights): pure functions, as operators.
- **`AlgorithmRuns`**: the runs of these functions on any set of `Inputs`.  An initial state is
  an input, one step runs the algorithm, and the invariants compare its result with the
  definition of what it should be.
- **`MCChainLinear`**, **`MCChainForks`**, **`MCHeaderIndex`**, **`MCBlockFiles`**, **`MCSynchronizer`**,
  **`MCConnection`**, **`MCScript`**, **`MCAlgorithms`**: the instances.
- **`ChainStorageProofs`**, **`HeaderIndexProofs`**,
  **`SynchronizerProofs`**, **`ConnectionsProofs`**, **`ConnectionProofs`**,
  **`AlgorithmProofs`**, **`ScriptProofs`**, **`BlockFilesProofs`**: the theorems.

Simplifications of the storage model.  A header comes after its parent's (what
happens otherwise is the subject of `HeaderIndex`).  Scripts, amounts and the
proof of work hold.  A batch of 128 blocks reaches up to the node's best block,
and a node answers in the order it was asked.  `RequestBlocks` may recur after any
complete batch, which is more often than the code does it.  A database batch is
atomic.  The flush timer may run out at any time.  A data race between the
threads does no worse than to interleave the steps above.  A block's content
(path to the genesis block, work, transactions) is a constant: it is what the
hash commits to.

Simplifications of `HeaderIndex`.  No block but the genesis block is connected, and a
node that announces a header was not asked for blocks before, so the common block
is looked for from the genesis block.  `chainWork` of an entry just read is taken
as 0 until it is computed (the constructor of the number is the library's).
Entries of one height are sorted by their addresses, which may be any.

Simplifications of `BlockFiles` and `Synchronizer`.  In `BlockFiles` sizes count units and opening a file
for writing keeps its content (that is the library's; were it otherwise every
block would be lost).  In `Synchronizer` a node's messages stop with its connection,
a locator finds the last common block, and the order of the candidates for the
headers requester (their rtt) is arbitrary.  A node never sends a block it was not
asked for: the code ends the process then (`removeBlockRecord`).  A node announces a block that
we have from others only when no headers are due (`HeadersDue`), which bounds the messages on
their way.  In `BlockFiles` a
block is written once per run of the program; that two nodes may deliver it is the
subject of `chain_two_nodes`.

Simplifications of the network models.  `Connections` takes a handshake as a
socket, then a verack or an error; `Connection` has the messages.  Which of the
addresses that have waited five seconds is picked first is left open (the pool
orders them by time).  An object put aside is a set member until it is
destroyed; the late destruction of a `Node` has no effect and is left out.
`start()` runs on the thread that starts the program just after the network
thread has been started; it is taken as one step.  A connection to an address takes one of
`Slots` numbers; with no number free an attempt waits.  `Local` and `External` are our own
addresses, which are never called.  In `Connection` bytes are
units that know their message and place, so a decoder that looks in the wrong place
finds a wrong magic or checksum; what we send changes nothing.

Simplifications of the script machine.  Numbers have at most four bytes (`eval` has no
limit, and beyond eight bytes the shift in `decodeScriptNumber` is undefined); a failed
`VM_CHECK` is an assertion, as in the build, and ends the program; what a hash or a
signature is worth is given by the operators `Digest` and `Signs`.  `eval` returns true
whatever happens and the error code persists from the input's script to the
output's, so after an error the second script does not run: the model does
the same.  `dup2` and `dup3` copy in the order of the code, which is the reverse of
what the opcode's name promises.

Simplifications of the algorithms.  `ArithUint` is checked with 4 limbs of 3 bits, so that
every product of limbs and every shift crosses a limb; bytes of compact
numbers have 2 bits.  An item's fields of
fixed length (outpoint, sequence, amount) are one byte, as are version and lock time: what
varies is the number of items and the length of scripts.  The byte of the version is its
highest, in which 64 is the bit `SERIALIZE_TRANSACTION_NO_WITNESS`.  The writer looks at that bit
of the transaction's version, the reader at that of the version its object held before
(`held`), as the code does.  A witness may be written but is never read (`needWitness` of the
reader stays false), so reading back the whole is claimed of transactions written without one; of
one written with its witness the inputs and outputs are.

In `ChainStorage`, `Overlap` says whether a flush on the main thread may run while the disk
thread is inside a connection.  With `TRUE` the model is the code; with `FALSE` it is the
code under the assumption that such flushes do not meet, which isolates the
other behaviours from that race.  No other module assumes anything of the kind.

## Runs

| run | instance | shows |
|---|---|---|
| `chain_in_order` | one chain of 3 blocks, one node, no overlap | `OnlyLoadFails`; the engine implements `Ledger`; the engine catches up |
| `chain_forks` | two branches, an output that is created again after it was spent, one node, overlap | `ChainIsBranch`, `DataBeforeIndex`, `IndexClosed`, `BestIsIndexed`, `HeightsAgree`; the engine implements `CoinLedger` |
| `chain_fork_tip` | as above, no overlap | **violated** `TipHasMostWork` |
| `chain_two_nodes` | one chain, two nodes | **violated** `NoBlockConnectsTwice` |
| `header_index` | three blocks in a row, a heavier one beside them, an invalid one with a child; headers in any order | `EnoughLinks`, `HeightVouchesForWork`, `BestIsHeaviest` |
| `block_files` | two blocks of 1 and 2 units, two files of fewer than 5, flushes of both threads that meet | `SavedBlockIsThere`, `PlacesAreApart`, `FirstFileIsCovered`, `SavedSizesGrow` |
| `sync_forks` | two branches, two nodes, batches of 1 | `ParentFirst`, `NoGapInRequests` |
| `sync_chain` | one chain of 3, two nodes, one may fall silent, batches of 2 | `RecordIsOutstanding`, `HeadersArrive`, `SilentRequesterGoes`, `AskedOnce` |
| `connections` | three addresses, one without a port, four seeds, two connections per address | `PoolsAgree`, `NodesIndexed`, `OneOwner`, `LostAddressReturns`, `HandshakeEnds` |
| `connection` | three messages of eleven kinds, headers of 2 units, payloads of 0 to 2, and a length whose sum wraps around | `NothingHeldBack`, `HandshakeFirst`, `OwnerAgrees`; the connection implements the queue |
| `script` | pay-to-key-hash and multisig of up to 3 keys with right and wrong signatures, numbers and strings at every boundary, every opcode on small stacks | `FailedVerifyRejects`, `KeyHashMeans`, `MultiSigMeans`, `NumbersSurvive` |
| `algorithms` | inputs around every boundary of each algorithm | `ArithmeticIsModular`, `CompactNumbersAreExact`, `EqualRootsAreFlagged`, `WalksFindAncestors`, `EncodingsReadBack` |

No run lists a type invariant: that of every component's module is a theorem (`TypeCorrect`,
`DownloadTypeCorrect`, see Proofs).

Further configurations, each of which ends in a violation that the section below
explains, and which are for running by hand: `ChainLostIndex.cfg` and
`ChainOverlap.cfg` (with `MCChainLinear`), `HeaderIndexBranches.cfg` (`MCHeaderIndex`),
`BlockFilesTwo.cfg` and `BlockFilesOverlap.cfg` (`MCBlockFiles`), `SyncAnnounced.cfg` (`MCSynchronizer`),
`ConnectionsTwice.cfg` (`Connections`) and `ScriptTwentyKeys.cfg` (`MCScript`).

The instances.  Three blocks over the genesis block are enough for a coin to be
created, flushed, reloaded and spent in different blocks, for a transaction to
spend an output of its own block, and for a restart between any two blocks to
be followed by a download of the rest.  In the forks the heavier branch begins
with a block of less work than its rival, so that `findBlocksToDownload` takes the
node from one branch to the other and `setTip` jumps in both directions.  Block b1
creates an output and spends it, f1 creates the same one again and f2 spends it, so that an output
comes back while it is among the removed coins or after those were written.  Nothing
but the set of blocks bounds the state: the queue, the number of flushes and the
number of restarts are not capped.

In `header_index` a row of three blocks lets an orphan have a child, two orphans have
the same height 0 while one is the other's parent, and a parent arrive between them;
nothing but the set of headers bounds the state.

In `sync_forks` a batch is shorter than a branch, so that a node is asked more than
once; a full answer to getheaders has two headers, so that a branch is longer
than what a single announcement brings.  In `block_files` a file has room for both
blocks and for one of them again after a restart, and then the next file is opened; nothing
bounds the flushes, and a block that finds both files full is not placed.  `MaxArrived` bounds the blocks that
wait for the disk thread: with two, as in `sync_chain`, a second node's block can stand
behind the first one's; with one, as in `sync_forks`, nodes still have answers on each
other's branches on their way.  Nodes may come and go without end.  The nodes in `sync_forks` are
interchangeable (`NodeSymmetry`), which is sound for invariants.  Deadlock is not
checked where the process may end by an assertion, where a connection has been
lost (`Connection`), and where an evaluation has its verdict (`script`, `algorithms`).

In `connections` two addresses can be picked at once while a third has no port,
more answers of seeds are possible than there are addresses, and the two slots
of an address hold a pending node and one that waits for its destructor, or two
handshakes with the same address.  A tick is the unit of both delays; the
reconnection delay is shorter than the handshake's, as in the code.  In
`connection` three messages are enough for a verack between two others in one
read, with a header and a payload each cut in two; `MaxMessages` bounds what the peer
sends, and `Word` is the smallest with which every other length fits.  In `script` the lengths 75, 76, 255, 256, 65535 and 65536 are where
the push opcode changes, and ±127, 128, 255, 256 and 32768 are where a number
grows a byte or a sign byte.  In `algorithms` all lists of up to 5 leaves are
compared, and lists of 5 to 13 different leaves with those that repeat their last k once or twice: with
6, 10 or 12 leaves the repetition ends at a higher level of the tree.  Branches of up to 17
leaves reach the odd levels of four tree heights; trees of 64 blocks with forks above and below
the tip reach the doubling steps of a locator; widths of 7 to 10 bits have numbers of one and of two groups; and
the limits are 2 items and scripts of 1 byte, with one more of each.

Fairness.  In `ChainStorage`, `FairSpec` assumes weak fairness of the disk thread (its io_service runs
tasks as long as there are any) and of the main thread's flush once begun
(straight-line code).  Nothing is assumed of the nodes, of the timer or of
restarts.  In `Synchronizer` it assumes that a node which has not fallen silent
answers, that ticks recur and find the ten-second timer run out, that a tick finds
a silent requester idle (it sends no data, and the five seconds count from the
last request, which is not repeated while one is out), and that the disk thread
goes on.  Nothing obliges nodes to come, to grow, to announce or to stay.
In `Connections` the only fairness is that of the timer, which is periodic
(`app.cpp`): `OnTick` with no overdue requester recurs.  That is enough for every
handshake to end, since the peer, the socket and the seeds may stay silent.
The liveness properties have the form "again and again, or the requester is
replaced again and again", which is the negation of staying for ever.

### What the violated properties say

- `TipHasMostWork`.  The repository's README (line 24) says that a verified block
  becomes the tip *if its accumulated work is the greatest*.  `updateCoins` never
  compares: a node that announces a better branch drags the tip through that
  branch's lighter blocks, and the coins of the branch it left are never
  taken back.
- `LoadFindsBestBlock` (`ChainLostIndex.cfg`).  `flush` posts the index entries and saves the coins at once.
  A crash before the task runs leaves a best block that the index does not
  have, and `loadChainTip` asserts at every later start.
- `BranchesMeet` (`HeaderIndexBranches.cfg`).  `BlockChain.cpp:128` says that all branches
  meet at the genesis block, and asserts it.  A header that comes before its parent has height 0; the next start
  links it to the parent but keeps the height.  `findLastCommonAncestor` walks back from
  equal heights in step, runs off one chain before the other, and fails its assertion.
  (Without a restart both walks run off, null is returned, and `findBlocksToDownload`
  follows it: `BlockSynchronizer:251` in the model.)
- `InputsHaveCoins` (`ChainOverlap.cfg`).  The main thread's `CoinView::flush` writes the cache and then
  clears it; coins the disk thread adds in between are lost.  `CoinLedger` allows that, and no more.
- `LostOnlyByMeeting` (`BlockFilesTwo.cfg`: two files of fewer than 3 units), with no meeting of
  the threads.  `m_blockFiles.resize` makes records whose
  `fileIndex` is 0, and a record is saved under its `fileIndex`: the second file's
  size replaces the first one's.  After a restart there is one record and
  `lastBlockFile` is 1, so the second file counts as empty.
- `EverySavedBlockIsThere` (`BlockFilesOverlap.cfg`: one file).  `flush` clears a mark that
  `writeBlock` of the other thread set after the records were copied, so a size is never saved, and
  after a restart a block is written over one that the index has.
- `AnnouncedArrives` (`SyncAnnounced.cfg`).  Blocks are requested from `handleHeaders` only before the
  node's first batch, and from `handleBlock` when a batch ends.  A block announced
  later is requested by neither.
- `AddressConnectedOnce` (`ConnectionsTwice.cfg`).  A pending node that has failed
  is destroyed after its address was called again; its destructor sets the
  address on standby, so the address is called a third time.  When both
  handshakes end, `addNewNode` asserts that the address is new.
- `MaximumIsAllowed` (`ScriptTwentyKeys.cfg`).  The comment at `script/Script.hpp:21` calls 20
  the maximum number of keys; `script_checkMultiSig` requires fewer.
- `NoBlockConnectsTwice`.  What is in flight is recorded per node, and
  `addBlock` does not ask whether the block is there already.

## Proofs

Those of the storage engine are over `ChainStorage` as declared: any finite or
infinite block tree that satisfies `TreeAssumption`, any transactions, any set of
nodes, overlapping flushes or not.  Those of the download are over `Synchronizer`: any such
tree, any nodes, any lengths of a batch and of an answer.  Those of the connections are over
`Connections` as declared: any addresses, own address, direct node, limits,
delays and number of slots that satisfy `ConnectionsAssumption`.  Those of one
connection are over `Connection`: any messages, any header size and payload lengths,
any number of messages and any cuts of the stream.  Those of the headers are over
`HeaderIndex`: any tree, any set of refused headers.  Those of the scripts are over
`ScriptMachine`: any scripts, public keys, `Signs` and `Digest`, with the hypotheses their
table names.  Those of the block files are over
`BlockFiles`: any blocks, sizes, file size and number of files, and any interleaving of the
two threads.  Those of the algorithms are over `AlgorithmRuns`: any inputs that satisfy
`InputsAssumption`, any limits below 2^64.  No other assumption is used.

| theorem | statement | argument |
|---|---|---|
| `TypeCorrect` | `Spec => []TypeOK` | inductive as it stands |
| `BestChainIsBranch` | `Spec => []ChainIsBranch` | with `TypeOK`: `SetTip` of a branch is a branch, since a shared entry at one height means a shared path below it |
| `DataIsBeforeIndex` | `Spec => []DataBeforeIndex` | strengthened by `DataInv`: entries marked in memory, and blocks with a "written" task or in connection, have their bytes in the files |
| `IndexIsClosed` | `Spec => []IndexClosed` | strengthened by `IndexInv`: after any number of the queued tasks the index would be closed, and with all of them and the dirty entries it is what is in memory |
| `BestBlockIsIndexed` | `Spec => []BestIsIndexed` | strengthened by `BestInv`: while a flush is about to save coins, the best block of the cache is already in the index or in the queue; it needs that a block in the queue or in connection is known (`QueueInv`, `AnnouncedInv`) |
| `EngineImplementsCoinLedger` | `Spec => ImplementsCoinLedger` | refinement, with `CoinsInv`: `SetBestBlockHash` is `Extend`, `TransferTx` is `Apply`, the two writes of coins are `Save`, the two clears are `Forget`, `Restart` is `Recover`, every other step stutters |
| `HeightsAlwaysAgree` | `Spec => []HeightsAgree` | with `CoinsInv` and `HeightInv` |

Why the strengthening is needed: none of `DataBeforeIndex`, `IndexClosed` and `BestIsIndexed` is
inductive, because each
speaks of the disk while what may break it is still in the queue or in memory.
The strengthened invariants were checked with TLC before they were proved.

About the coins.  `CoinsInv` (`Fits`) says that a clean entry of the cache agrees with the
database (a cached null coin is not there, any other is, and neither is marked removed) and
that a dirty entry holds a coin.  From it follows what each operator of `CoinView` does to the coins a
reader sees: looking up changes nothing (`CachedCoins`), writing them out puts exactly those in
the database (`WrittenCoins`), a transaction takes its inputs and adds its outputs but those
marked removed (`TransferCoins`).  None of it depends on where the two threads are, so a flush of
one thread may fall between any two steps of the other.  No hypothesis is made about
the blocks: a block may be connected twice, come after one it does not build on, or repeat
an output.

`HeightInv` adds two facts to `HeightsAgree`.  `Connected`: from `ConnectTip` to the end of the
connection the chain is as high as the block, and after `SetBestBlockHash` so is the cache's best
height.  `load` leaves that height at 0, but only outside a connection.  `NoneYet`: without a best
block there are no coins to save.  The other assertions on heights (`CoinView.cpp:118`,
`CoinView.cpp:129`) are not among these: a reorganisation to a branch that is lower than the one it
leaves keeps the coins of the latter, and the assertions fail as soon as one of those is more than one
above the new tip.  The model has them (`FlushAsserts`, `FetchAsserts`), and they hold in
`chain_in_order`, where they are part of `OnlyLoadFails`.

`ImplementsLedger` and `OnlyLoadFails` are true of blocks in order only.  The configurations
show what happens otherwise: with two branches the tip goes to the other one and the coins
of the branch it left stay (`chain_fork_tip`), two nodes connect a block twice
(`chain_two_nodes`), and an overlapping flush loses coins (`ChainOverlap.cfg`).  They are checked,
not proved: a theorem would have to assume all of that away.

For the headers in any order:

| theorem | statement | argument |
|---|---|---|
| `TypeCorrect` | `Spec => []TypeOK` | with `IInv` |
| `LinksSuffice` | `Spec => []EnoughLinks` | from `HeightsCount`: behind an entry of height h there are h linked entries, of heights h - 1 down to 0, on its block's path |
| `WorkIsChainWork` | `Spec => []HeightVouchesForWork` | part of `IInv`: an entry at its block's height has a parent at its own, and `updateChainWork` comes to the lower one first |
| `BestHasMostWork` | `Spec => []BestIsHeaviest` | from `BestInv` and `HeightVouchesForWork` |

A height survives a restart and the links are made again from what was saved.  So
`HeightsCount` is kept by a restart only because of `SavedClosed`: after any number of the queued tasks
the saved entries would be closed under the parents that their heights count on.  The
proofs use that no block takes work away (`ProofAssumption`: the proof of a block is an
unsigned number).

For the download:

| theorem | statement | argument |
|---|---|---|
| `DownloadTypeCorrect` | `Spec => []TypeOK` | with `DownloadInv` |
| `ParentsComeFirst` | `Spec => []ParentFirst` | part of `DownloadInv`: the block of an answer is the lowest one recorded of its node, so its parent is connected or waiting already |
| `RequestsHaveNoGap` | `Spec => []NoGapInRequests` | part of `DownloadInv`: a batch begins after a block we have with all its ancestors, and is on one branch |
| `RecordKept` | `Spec => []RecordIsOutstanding` | from `DownloadInv`: what is asked of a node ascends in height, so no block is asked twice |

`DownloadInv` says of every node (`Recorded`) that the record is what the unanswered
requests ask for, that those ascend in height, and that with what we have it is all the
recorded blocks and `lastCommon` build on.  The last is why a node may be asked from its
`lastCommon` on when nothing is outstanding, and none of the three properties is
inductive without it.  A handler passes its effects on the requests from one helper to
the next as a `Choice`; `Good` says that a choice fits the records, and each helper
has a lemma that it keeps that.  TLC checked `DownloadInv` on the instances of
`sync_forks` and `sync_chain` before it was proved.

For the connections:

| theorem | statement | argument |
|---|---|---|
| `TypeCorrect` | `Spec => []TypeOK` | with `IInv` |
| `PoolsAgreeAlways` | `Spec => []PoolsAgree` | every change of the pool is `Updated` or `WithPeers` of one that agrees |
| `NodesAreIndexed` | `Spec => []NodesIndexed` | with `IInv` |
| `ConnectionsHaveOneOwner` | `Spec => []OneOwner` | with `IInv` |
| `LostAddressesReturn` | `Spec => LostAddressReturns` | by cases on the action that ends the address's last connection |

`IInv` joins `TypeOK`, `PoolsAgree`, `NodesIndexed` and `OneOwner` with `ObjectsOK` and `StartFails`.  They
need each other: that a new connection is no old one rests on the slots, that
a node's address is its own rests on the index, and that a late destructor
leaves a node's address alone rests on `established`, which tells the objects put
aside after a verack from those put aside after an error.

For one connection:

| theorem | statement | argument |
|---|---|---|
| `TypeCorrect` | `Spec => []TypeOK` | with `ConnectionInv` |
| `OwnersAgree` | `Spec => []OwnerAgrees` | part of `NodeInv` |
| `HandshakeComesFirst` | `Spec => []HandshakeFirst` | part of `NodeInv` |
| `NothingIsHeldBack` | `Spec => []NothingHeldBack` | from `StreamInv`: if what is held ends with the last byte of the last message and begins with the first of the next one, it is a whole message, which `Verdict` would have found |
| `ConnectionImplementsQueue` | `Spec => ImplementsQueue` | refinement, with `StreamInv`: a message sent is `Send`, a message decoded is `Handle`, every other step stutters |

`ConnectionInv` joins `StreamInv` and `NodeInv`.  `StreamInv` says what the bytes held and
on their way look like (`Flow`): they begin with the next message to handle and end with
the last one sent, a message follows the end of a message, and the bytes of a message
follow its beginning.  Each part speaks of neighbours, or of a byte and the beginning
of its message, so cutting off a whole message or adding one keeps it, and no
induction over the bytes is needed.  `NodeInv` adds to the two properties that the Node
listens exactly if a verack was handled, and that a pending node which still decodes
without a handler has handled what ended the handshake.  TLC checked
`ConnectionInv` on the instance of the run `connection` before it was proved.

For the block files:

| theorem | statement | argument |
|---|---|---|
| `TypeCorrect` | `Spec => []TypeOK` | with `TypeInv`: a dirty file has a record, a block on its way was posted, and an entry saved with a place has one in memory |
| `SavedDataIsThere` | `Spec => []SavedBlockIsThere` | from `BytesThere` in `PlacesInv` |
| `PlacesStayApart` | `Spec => []PlacesAreApart` | part of `PlacesInv`; a new place begins where every other one of its file has ended (`PlacesInRoom`) |
| `FirstFileStaysCovered` | `Spec => FirstFileIsCovered` | from `SizesComeFirst`, which a run keeps until the threads meet |
| `SizesOnlyGrow` | `Spec => SavedSizesGrow` | from `SizesAscend`, likewise |

The code fails in two ways here, and the theorems say exactly how far that goes.  A second file's size is
saved under the first one's key, and a flush may clear the mark of a file that it has not
copied.  Either way a restart loads sizes that end before a saved block, and only then
(`uncovered`) is anything written over: the first two properties except those blocks and
nothing else, for any number of files and any interleaving.  The last two
say when that cannot happen: in the first file it takes a meeting of the threads (`raced`).

None of them is inductive, because what a start finds is still in the queue or in a flush.
`IInv` joins `TypeInv`, `KeysInv`, `PlacesInv` and, while the threads have not met in this run,
`FirstInv`.  `PlacesInv`: the places that are pending, noted or saved and not uncovered are apart, inside
what the records say is in use, and hold their bytes.  A restart moves what its sizes do not cover
into `uncovered`, so it keeps all three.  `KeysInv`: every record is that of index 0, and a flush takes
one record at most as long as there is one file, which ties the saved record 0 to the first file.
`FirstInv` says what the tasks will save.  The sizes they save ascend (`SizesAscend`): a flush copies the
size of a dirty file, and the size of a file that is not dirty is saved, in a task or in a flush already
(`SizeIsTaken`).  A task saves the places that the entries have by the time it runs, which are
more than when it was posted, so `SizesComeFirst` speaks of every place that is noted or will be before the
task runs: a size that covers it is saved by then.  Once another file is the last one, nothing is placed in
the first, and its size counts as `Whole`.  A restart begins a run that has not raced, and `FirstInv`
holds of it whatever was saved: it speaks of covered places only.  TLC checked `IInv` on the instance of
`block_files` before it was proved.

For the scripts:

| theorem | statement | argument |
|---|---|---|
| `TypeCorrect` | `ScriptsAreBytes` and `DigestsAreBytes` imply `Spec => []TypeOK` | `BytesInv`: the stack is a sequence of sequences of bytes, and no opcode takes more than there is (`PopsWithin` for the multisig opcodes) |
| `FailedVerifyIsRejected` | `Spec => []FailedVerifyRejects` | a failed VERIFY opcode leaves a false value on top of the stack (`FalseOnTop`) and nothing runs after it |
| `KeyHashIsMeant` | `KeyHashesAreWritten` and `DigestsAreBytes` imply `Spec => []KeyHashMeans` | `KeyHashInv` |
| `NumbersDoSurvive` | `NumbersAreWritten` implies `Spec => []NumbersSurvive` | `NumbersInv`, with `NumberReadsBack` and `HeaderNamesLength` |
| `MultiSigIsMeant` | `MultiSigsAreWritten` implies `Spec => []MultiSigMeans` | `MultiSigInv`, with `PassDecides` |
| `NumberReadsBack` (`AlgorithmProofs`) | decoding an encoded number gives the number, for every integer | `Digits` and `Value` are inverse; then by whether the sign needs a byte of its own |

The hypotheses say what the scripts of a kind are written from, and every script of the run
`script` satisfies them.  Strings are `Pushable`: bytes, fewer than 256^4 of them, which is what
the longest push opcode can say; integers are `Represented`: their encoding is pushable.  In
`MultiSigsAreWritten` there are also fewer keys than `MaxKeys` and no more signatures than keys,
and each pair of them is one that `SignatureChecker::check` does not abort on; without these
an input may end in an assertion, which the run of `ScriptTwentyKeys.cfg` shows of
the first.  The number of keys and of signatures and the length of every
string are not bounded otherwise.

The invariants `KeyHashInv`, `NumbersInv` and `MultiSigInv` list the stages of a pair of scripts:
which script, at which byte, with which stack.  They are inductive because a byte of the code
has one handler (`OnlyHandler`), a string is read back from where it was written
(`StringRead`), and each instruction has a lemma of what it leaves (`IntegerStep`, `DupStep`,
`EqualVerifyStep`, `CheckSigStep`, `CheckMultiSigStep`).  A multisig has as many stages as
signatures and keys (`PushedSome`).  Its verdict is a theorem about the single pass of
`checkMultiSig` (`PassDecides`): a signature takes the first key left that fits, so the pass
never gives up a key that some assignment needs (`PassIsGreedy`), and what it has used
is an assignment (`PassedMatch`); that the values come off the stack in reverse order
changes nothing (`MatchReversed`).

For the walks and the encodings (`AlgorithmProofs`):

| theorem | statement | argument |
|---|---|---|
| `WalksFind` | `RunSpec => []WalksFindAncestors` | from the next three |
| `AncestorIsFound` | `getAncestor` returns the ancestor of that height | every step goes to an ancestor that is lower and not below the height asked for (`OnwardIsAncestor`), since skip heights are lower (`SkipHeightIsLower`) |
| `LastCommonAncestorIsFound` | `findLastCommonAncestor` returns the highest common block | from the lower of the two heights both walks go down together, and meet at the first height where the ancestors agree |
| `LocatorMeetsAnyChain` | a locator descends to the genesis block and has one of the blocks between k and 2k below its top | `LocatorDescends`; and `LocatorIsDense`: when a step begins, it is no longer than what lies above it |
| `EncodingsRead` | `RunSpec => []EncodingsReadBack` | from the ones below |
| `SizeReadsBack`, `StringReadsBack`, `TransactionReadsBack`, `IntegerReadsBack` | what is written is read back whatever bytes follow it; a string or transaction past a limit is bad.  A transaction is written without a witness, by having none or by its version, and whatever version the reader held | each part is read from where the one before it ended; digits and groups of seven bits by induction on their number |
| `WitnessIsNotRead` | written with a witness and read by an object whose held version allows one, inputs and outputs are read back and the lock time is taken from the witnesses | `TransactionIsRead` |
| `SizeNeedsItsBytes`, `TransactionNeedsItsBytes` | no proper beginning of the bytes is read | what a reader makes of a stream stays when more follows (`Stays`, for each reader), so reading a beginning would leave a rest |
| `IntegerHasOneEncoding` | what `readInteger` takes is what `writeInteger` writes of its result, which is in range | `LoopReadsWritten`: by induction the groups read so far are those of the number before the next one |
| `IntegerFitsBuffer` | no number of its width overruns the buffer | seven bits more are one group more (`LargestBySevens`) |

The two theorems about runs rest on `RunInv`: once a run is done, its output is what the
algorithm returns of its input.  `InputsAssumption` is what the code's types say: blocks of
the tree, sizes that are a `size_t`, numbers in the range of an unsigned type, and for
`readInteger` a type of seven bits or more.  `LimitsAssumption` says that the limits fit in 64 bits
(the code's are 10000 and 50000).

A recursive definition is a recursive function in a LET.  That the function exists is proved
once (`RecursionExists`, `RunExists` for a loop): each value depends on arguments of a smaller
measure, and the set of the arguments that no partial solution reaches has no smallest element.
Induction is on the smallest counterexample too (`Induction`, `MeasureInduction`), so neither
needs a theorem with an operator parameter.

Only model-checked: three invariants of the run `algorithms` (limb arithmetic, compact numbers and
the Merkle calculator: their words and levels are powers `^` of two, about which no installed
prover has a fact); `ImplementsLedger` and `OnlyLoadFails`, which the section about the coins explains;
and `CatchesUp`, `HeadersArrive`, `SilentRequesterGoes`, `AskedOnce` and
`HandshakeEnds` (liveness under fairness and ENABLED, out of the prover's reach).

## Plan

Done: the storage engine, headers in any order, block files, synchronizer; the connections
and the byte stream of one of them; the script machine; the chain algorithms; the proofs
about the storage engine's safety and that it implements `CoinLedger`, about headers in any
order, about the download, about the connections, about the byte stream, about the places
in the block files, about what the script machine decides, about the walks over the block
index and about the encodings.

To come: a reorganisation to a branch that is two or more blocks lower than the one it leaves, in
a run of its own; orphan headers together with connected blocks and with the bookkeeping of
requests.

## Not modelled

- What is external: hashing, signatures, sockets and LevelDB.  The models take a
  batch as atomic and a stream as ordered.
- Plain data conversion: the field by field encodings of messages and database values, chain
  parameters, options, logging, printing and parsing of scripts.
- `TransactionSignature`'s hash of a transaction: the script machine takes it as
  `Signs`.
- What no code calls or starts: `NodeAcceptor` and inbound connections, `readBlock`,
  `PeerPool::onTick` with `removeExpired`, `setPeerConnected`, `handleConnectionError`, `MerkleTree::build`
  beyond the genesis block.  (`buildSkip` is not called either; `BlockWalk` has it so that
  `getAncestor` is checked with and without skip pointers.)
- The repeated coinbases of the two exempt blocks beyond their exemption.
- Answers to the other side's requests, which change no state of ours.
