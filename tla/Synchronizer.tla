---------------------------- MODULE Synchronizer ----------------------------
(***************************************************************************)
(* The download of headers and blocks: BlockSynchronizer and NodeSyncInfo  *)
(* (net/BlockSynchronizer.cpp), with NodeManager's adding and removing of  *)
(* nodes.  All of it runs on the main thread, a handler at a time.         *)
(*                                                                         *)
(* The nodes are the environment: each has a best block of its own, which  *)
(* may change to one with more work, answers requests in order, announces  *)
(* a new best block by its header if we have the parent (we send           *)
(* sendheaders), may fall silent and may be lost at any time.              *)
(*                                                                         *)
(* Blocks that arrived are connected one by one by the disk thread         *)
(* (ChainStorage); here that only moves the tip, and a block that is       *)
(* connected already ends the process.  The timers of a tick may have run  *)
(* out at any tick.  A locator finds the last common block.  The config's  *)
(* minimumChainWork is below any block's, and a batch is shorter than      *)
(* BLOCK_DOWNLOAD_WINDOW.                                                  *)
(***************************************************************************)
EXTENDS BlockTree

CONSTANTS
    Node,           \* the nodes we may be connected to
    Silent,         \* those of them that may fall silent
    NoNode,         \* a null pointer
    MaxHeaders,     \* the headers of a full answer (2000)
    BatchSize,      \* the blocks requested at a time (128)
    MaxArrived      \* bound: a node sends no block while so many are waiting
                    \* for the disk thread

ASSUME SyncAssumption ==
    /\ NoNode \notin Node
    /\ Silent \subseteq Node
    /\ MaxHeaders \in Nat \ {0}
    /\ BatchSize \in Nat \ {0}
    /\ MaxArrived \in Nat \ {0}

VARIABLES
    known,          \* the headers in BlockCache
    bestHeader,     \* BlockCache::m_bestHeader
    tip,            \* the tip of the best chain
    connected,      \* the blocks the disk thread has connected
    arrived,        \* the blocks added and not yet connected, in order
    nodes,          \* m_nodes, of the manager and of the synchronizer
    requester,      \* m_headersRueqster
    requesting,     \* m_requestingHeaders
    info,           \* per node, its NodeSyncInfo
    asked,          \* per node, our requests it has not answered
    peerBest,       \* per node, its best block
    mute,           \* the nodes that have fallen silent
    failed          \* the assertion that ended the process, or "none"

headers == <<known, bestHeader>>
blocks  == <<tip, connected, arrived>>
choice  == <<nodes, requester, requesting>>
remote  == <<peerBest, mute>>
vars == <<headers, blocks, choice, info, asked, remote, failed>>

AskHeaders(b) == [op |-> "getheaders", block |-> b]
AskBlock(b)   == [op |-> "getdata", block |-> b]
Request == [op : {"getheaders", "getdata"}, block : Block]

SyncInfo == [bestKnown : Block \cup {NoBlock}, lastCommon : Block \cup {NoBlock},
             lastDownload : Block \cup {NoBlock}, requesting : SUBSET Block]

NewSyncInfo == [bestKnown |-> NoBlock, lastCommon |-> NoBlock,
                lastDownload |-> NoBlock, requesting |-> {}]

TypeOK ==
    /\ known \subseteq Block
    /\ bestHeader \in known
    /\ tip \in connected
    /\ connected \subseteq Block
    /\ arrived \in Seq(Block)
    /\ nodes \subseteq Node
    /\ requester \in nodes \cup {NoNode}
    /\ requesting \in BOOLEAN
    /\ info \in [Node -> SyncInfo]
    /\ asked \in [Node -> Seq(Request)]
    /\ peerBest \in [Node -> Block]
    /\ mute \subseteq nodes
    /\ failed \in {"none", "BlockSynchronizer:269", "BlockSynchronizer:280",
                   "Validator:150"}

Up == failed = "none"
-----------------------------------------------------------------------------
(* Requesting headers.  A handler's effect on who is asked for headers is   *)
(* a record of what it has changed so far.                                 *)

Choice == [nodes |-> nodes, requester |-> requester,
           requesting |-> requesting, asked |-> asked]

SetChoice(c) ==
    /\ nodes' = c.nodes
    /\ requester' = c.requester
    /\ requesting' = c.requesting
    /\ asked' = c.asked

\* requestHeaders: the locator starts at block b.
RequestHeaders(c, b) ==
    IF c.requester = NoNode THEN c
    ELSE [c EXCEPT !.asked[c.requester] = Append(@, AskHeaders(b)),
                   !.requesting = TRUE]

\* requestHeaders(nullptr) starts at the parent of the best header, and
\* getLocator(nullptr) at the tip.
DefaultStart == IF bestHeader = Genesis THEN tip ELSE Parent(bestHeader)

\* findHeadersRueqster takes the outbound node with the least rtt: any of
\* them; in the first two seconds it may take none.
Candidates(c) == c.nodes \cup {NoNode}

\* chooseHeadersRueqster
ChooseRequester(c, n) == RequestHeaders([c EXCEPT !.requester = n], DefaultStart)
MayChoose(c, n) == n \in c.nodes \/ (n = NoNode /\ c.nodes = {})

\* Faulty variants: the removed node stays the requester; the next one is not
\* asked.
RemovedOnly(c, n, r) == [c EXCEPT !.nodes = @ \ {n}, !.asked[n] = <<>>]

RemovedUnasked(c, n, r) ==
    [c EXCEPT !.nodes = @ \ {n}, !.asked[n] = <<>>,
              !.requester = IF n = @ THEN r ELSE @]

\* NodeManager::removeNode and BlockSynchronizer::removeNode; r is the next
\* requester if n was it.
Removed(c, n, r) ==
    LET d == [c EXCEPT !.nodes = @ \ {n}, !.asked[n] = <<>>]
    IN  IF n = c.requester THEN ChooseRequester(d, r) ELSE d
-----------------------------------------------------------------------------
(* Requesting blocks *)

\* The guess findBlocksToDownload begins with.
FirstGuess(best) ==
    Path[tip][1 + (IF Height(best) < Height(tip) THEN Height(best) ELSE Height(tip))]

LastCommonAncestor(x, y) == CHOOSE a \in Block : IsLastCommonAncestor(a, x, y)

\* Faulty variant: the guess is taken for the last common block.
GuessedCommon(i) ==
    IF i.lastCommon = NoBlock THEN FirstGuess(i.bestKnown) ELSE i.lastCommon

LastCommon(i) ==
    LastCommonAncestor(IF i.lastCommon = NoBlock
                       THEN FirstGuess(i.bestKnown) ELSE i.lastCommon,
                       i.bestKnown)

BatchEnd(i) ==
    LET h == Height(LastCommon(i)) + BatchSize
    IN  IF h < Height(i.bestKnown) THEN Path[i.bestKnown][h + 1] ELSE i.bestKnown

\* The blocks between a and its descendant b, and b itself.
Between(a, b) == SubSeq(Path[b], Height(a) + 2, Height(b) + 1)

\* Faulty variant: the comparison the wrong way round.
LessInteresting(i) ==
    i.bestKnown # NoBlock /\ ChainWork[i.bestKnown] <= ChainWork[tip]

\* What the node announced is of interest.
Interesting(i) ==
    i.bestKnown # NoBlock /\ ChainWork[i.bestKnown] >= ChainWork[tip]

\* checkRequestBlocks asks only a node with no block outstanding.
Requests(i) == i.requesting = {} /\ Interesting(i)

Wanted(i) == IF Requests(i) THEN Between(LastCommon(i), BatchEnd(i)) ELSE <<>>

SeqRange(s) == {s[k] : k \in 1..Len(s)}

\* Faulty variant: the first block of the batch is not recorded.
RequestedButFirst(i, wanted) ==
    IF ~ Requests(i) \/ wanted = <<>> THEN i
    ELSE [i EXCEPT !.lastCommon = wanted[Len(wanted)],
                   !.lastDownload = wanted[Len(wanted)],
                   !.requesting = @ \cup SeqRange(Tail(wanted))]

\* NodeSyncInfo after checkRequestBlocks.
Requested(i, wanted) ==
    IF ~ Requests(i) THEN i
    ELSE IF wanted = <<>> THEN [i EXCEPT !.lastCommon = LastCommon(i)]
    ELSE [i EXCEPT !.lastCommon = wanted[Len(wanted)],
                   !.lastDownload = wanted[Len(wanted)],
                   !.requesting = @ \cup SeqRange(wanted)]

\* checkRequestBlocks for node n with sync info i: the assertion of
\* recordRequestingBlocks comes after the message is sent.
CheckRequestBlocks(c, n, i) ==
    \E wanted \in {Wanted(i)} :
        /\ SetChoice([c EXCEPT !.asked[n] =
                        @ \o [k \in 1..Len(wanted) |-> AskBlock(wanted[k])]])
        /\ info' = [info EXCEPT ![n] = Requested(i, wanted)]
        /\ failed' = IF wanted # <<>> /\ i.requesting # {}
                     THEN "BlockSynchronizer:269" ELSE failed
-----------------------------------------------------------------------------
(* The handlers *)

\* BlockCache::addBlockIndex of each header in turn.
AddHeaders(s) ==
    /\ known' = known \cup SeqRange(s)
    /\ \E b \in SeqRange(s) \cup {bestHeader} :
        /\ \A x \in SeqRange(s) \cup {bestHeader} : ChainWork[x] <= ChainWork[b]
        /\ ChainWork[b] = ChainWork[bestHeader] => b = bestHeader
        /\ bestHeader' = b

\* updateBlockAvailability
Available(i, b) ==
    IF i.bestKnown = NoBlock \/ ChainWork[b] >= ChainWork[i.bestKnown]
    THEN [i EXCEPT !.bestKnown = b] ELSE i

\* handleHeaders of the headers s from node n; the request has been taken off
\* the choice c.
HandleHeaders(c, n, s) ==
    LET idle == [c EXCEPT !.requesting = FALSE]
        last == s[Len(s)]
    IN  /\ AddHeaders(s)
        /\ \E i \in {IF s = <<>> THEN info[n] ELSE Available(info[n], last)},
              d \in {IF s = <<>> THEN idle ELSE RequestHeaders(idle, last)} :
              IF Len(s) < MaxHeaders /\ i.lastDownload = NoBlock
              THEN CheckRequestBlocks(d, n, i)
              ELSE /\ SetChoice(d)
                   /\ info' = [info EXCEPT ![n] = i]
                   /\ UNCHANGED failed
        /\ UNCHANGED <<blocks, remote>>

\* handleBlock of block b from node n: removeBlockRecord, addBlock,
\* checkRequestBlocks.
HandleBlock(c, n, b) ==
    IF b \notin info[n].requesting
    THEN /\ failed' = "BlockSynchronizer:280"
         /\ SetChoice(c)
         /\ UNCHANGED <<info, headers, blocks, remote>>
    ELSE /\ arrived' = Append(arrived, b)
         /\ CheckRequestBlocks(c, n, [info[n] EXCEPT !.requesting = @ \ {b}])
         /\ UNCHANGED <<headers, tip, connected, remote>>

\* What a node with the best block b answers to a locator that starts at a:
\* headers begin after the last block of it that is in the node's best chain.
HeadersAfter(a, b) ==
    LET all == Between(LastCommonAncestor(a, b), b)
    IN  IF Len(all) > MaxHeaders THEN SubSeq(all, 1, MaxHeaders) ELSE all

\* Node n answers our oldest request.
Answer(n) ==
    /\ Up
    /\ n \in nodes \ mute
    /\ asked[n] # <<>>
    /\ LET c == [Choice EXCEPT !.asked[n] = Tail(@)]
           r == Head(asked[n])
       IN  \/ /\ r.op = "getheaders"
              /\ \E s \in {HeadersAfter(r.block, peerBest[n])} :
                    HandleHeaders(c, n, s)
           \/ /\ r.op = "getdata"
              /\ Len(arrived) < MaxArrived
              /\ HandleBlock(c, n, r.block)

\* A node still has to answer for headers.
HeadersDue == \E n \in Node : \E k \in 1..Len(asked[n]) : asked[n][k].op = "getheaders"

\* Node n announces its best block.  Bound: one that we have from others only
\* when no headers are due, and not again.
Announce(n) ==
    /\ Up
    /\ n \in nodes \ mute
    /\ peerBest[n] # Genesis
    /\ Parent(peerBest[n]) \in known
    /\ peerBest[n] \in known => ~ HeadersDue /\ peerBest[n] # info[n].bestKnown
    /\ HandleHeaders(Choice, n, <<peerBest[n]>>)

\* NodeManager::addNewNode, BlockSynchronizer::addNode of a node whose best
\* block is b.  In the first two seconds no requester may be chosen.
AddNode(n, b) ==
    /\ Up
    /\ n \notin nodes
    /\ peerBest' = [peerBest EXCEPT ![n] = b]
    /\ LET c == [Choice EXCEPT !.nodes = @ \cup {n}]
       IN  IF requester # NoNode THEN SetChoice(c)
           ELSE \E r \in Candidates(c) : SetChoice(ChooseRequester(c, r))
    /\ UNCHANGED <<headers, blocks, info, mute, failed>>

\* With the Node goes its NodeSyncInfo, and with the connection what the node
\* is to us.
Forget(gone) ==
    /\ info' = [n \in Node |-> IF n \in gone THEN NewSyncInfo ELSE info[n]]
    /\ peerBest' = [n \in Node |-> IF n \in gone THEN Genesis ELSE peerBest[n]]
    /\ mute' = mute \ gone

\* The connection to node n is lost: Node::handleError.
LoseNode(n) ==
    /\ Up
    /\ n \in nodes
    /\ \E r \in Candidates(Choice) \ {n} :
        /\ MayChoose([Choice EXCEPT !.nodes = @ \ {n}], r)
        /\ SetChoice(Removed(Choice, n, r))
    /\ Forget({n})
    /\ UNCHANGED <<headers, blocks, failed>>

\* onTick.  idle: the requester has been idle too long (checkHeader-
\* RequestTimeout); due: the last request was long ago (scheduleRequestHeaders).
OnTick(idle, due) ==
    LET lost == idle /\ requesting /\ requester # NoNode
        rest == IF lost THEN nodes \ {requester} ELSE nodes
    IN  /\ Up
        /\ \E r \in rest \cup {NoNode} :
            /\ r = NoNode => rest = {}
            /\ LET timed == IF lost
                            THEN Removed([Choice EXCEPT !.requesting = FALSE], requester, r)
                            ELSE Choice
                   chosen == IF timed.requester # NoNode THEN timed
                             ELSE ChooseRequester(timed, r)
               IN  SetChoice(IF ~ chosen.requesting /\ due
                             THEN RequestHeaders(chosen, DefaultStart) ELSE chosen)
        /\ Forget(nodes \ rest)
        /\ UNCHANGED <<headers, blocks, failed>>

\* The disk thread connects the next block.
ConnectBlock ==
    /\ Up
    /\ arrived # <<>>
    /\ arrived' = Tail(arrived)
    /\ IF Head(arrived) \in connected
       THEN /\ failed' = "Validator:150"
            /\ UNCHANGED <<tip, connected>>
       ELSE /\ tip' = Head(arrived)
            /\ connected' = connected \cup {Head(arrived)}
            /\ UNCHANGED failed
    /\ UNCHANGED <<headers, choice, info, asked, remote>>

(* The nodes *)

\* Node n gets a better block, or falls silent.
Grow(n, b) ==
    /\ Up
    /\ n \in nodes
    /\ ChainWork[b] > ChainWork[peerBest[n]]
    /\ peerBest' = [peerBest EXCEPT ![n] = b]
    /\ UNCHANGED <<headers, blocks, choice, info, asked, mute, failed>>

FallSilent(n) ==
    /\ Up
    /\ n \in (nodes \cap Silent) \ mute
    /\ mute' = mute \cup {n}
    /\ UNCHANGED <<headers, blocks, choice, info, asked, peerBest, failed>>

Init ==
    /\ known = {Genesis}
    /\ bestHeader = Genesis
    /\ tip = Genesis
    /\ connected = {Genesis}
    /\ arrived = <<>>
    /\ nodes = {}
    /\ requester = NoNode
    /\ requesting = FALSE
    /\ info = [n \in Node |-> NewSyncInfo]
    /\ asked = [n \in Node |-> <<>>]
    /\ peerBest = [n \in Node |-> Genesis]
    /\ mute = {}
    /\ failed = "none"

Next ==
    \/ \E n \in Node : Answer(n)
    \/ \E n \in Node : Announce(n)
    \/ \E n \in Node, b \in Block : AddNode(n, b)
    \/ \E n \in Node : LoseNode(n)
    \/ \E idle, due \in BOOLEAN : OnTick(idle, due)
    \/ ConnectBlock
    \/ \E n \in Node, b \in Block : Grow(n, b)
    \/ \E n \in Node : FallSilent(n)

Spec == Init /\ [][Next]_vars

\* Nodes that are not silent answer, ticks come again and again with the timers
\* run out if nothing happens, and the disk thread goes on.
FairSpec ==
    /\ Spec
    /\ \A n \in Node : WF_vars(Answer(n))
    /\ WF_vars(OnTick(FALSE, TRUE))
    /\ WF_vars(requester \in mute /\ OnTick(TRUE, FALSE))
    /\ WF_vars(ConnectBlock)
-----------------------------------------------------------------------------
(* Safety *)

\* The record of the blocks requested from a node is at all times what the node
\* still has to send, each once: so the assertions of recordRequestingBlocks
\* and removeBlockRecord hold (BlockSynchronizer.cpp:269, 280).
BlocksAsked(s) == {k \in 1..Len(s) : s[k].op = "getdata"}

RecordIsOutstanding ==
    /\ failed \notin {"BlockSynchronizer:269", "BlockSynchronizer:280"}
    /\ \A n \in nodes :
        /\ info[n].requesting = {asked[n][k].block : k \in BlocksAsked(asked[n])}
        /\ \A j, k \in BlocksAsked(asked[n]) :
              asked[n][j].block = asked[n][k].block => j = k

\* Whatever nodes come and go and whatever branches they are on, a block is
\* connected after its parent: the disk queue never holds a block before the
\* one it needs.
ParentFirst ==
    \A k \in 1..Len(arrived) :
        \/ Parent(arrived[k]) \in connected
        \/ \E j \in 1..k - 1 : arrived[j] = Parent(arrived[k])

\* A node is asked for a block only if we have or await from that node all its
\* ancestors.
NoGapInRequests ==
    \A n \in nodes : \A b \in info[n].requesting :
        \A a \in Block : IsAncestor(a, b) =>
            a \in connected \cup SeqRange(arrived) \cup info[n].requesting

(* Liveness *)

\* The requester is replaced again and again.
RequesterChanges == []<><<requester' # requester>>_vars

\* A requester does not stay for ever with blocks whose headers we lack.
HeadersArrive ==
    \/ []<>(requester = NoNode \/ peerBest[requester] \in known \/ ~ Up)
    \/ RequesterChanges

\* A requester that has fallen silent or is gone does not stay
\* (BlockSynchronizer.cpp:50, 82).
SilentRequesterGoes ==
    \/ []<>(requester \in (nodes \ mute) \cup {NoNode} \/ ~ Up)
    \/ RequesterChanges

\* Node n has announced a block that we lack, with more work than our tip has.
HasBetterBlock(n) ==
    /\ info[n].bestKnown # NoBlock
    /\ info[n].bestKnown \notin connected \cup SeqRange(arrived)
    /\ ChainWork[info[n].bestKnown] > ChainWork[tip]

\* Such a node is asked for blocks, once at least, if it answers.
AskedOnce ==
    \A n \in Node :
        []<>(~ HasBetterBlock(n) \/ info[n].lastDownload # NoBlock \/ n \in mute \/ ~ Up)

\* README.md:18: headers are requested until there are no newer ones, then the
\* blocks are downloaded.  So we do not stay behind what a node announced.
AnnouncedArrives ==
    \A n \in Node : []<>(~ HasBetterBlock(n) \/ n \in mute \/ ~ Up)
=============================================================================
