---------------------------- MODULE Connections ----------------------------
(***************************************************************************)
(* How addresses become nodes: the peer pool (net/PeerPoolImpl.hpp), the   *)
(* connections in handshake (net/NodeConnector.cpp, net/PendingNode.cpp)   *)
(* and the connected nodes (net/NodeManager.cpp, net/Node.cpp).  All of it *)
(* runs on the main thread, a callback at a time.                          *)
(*                                                                         *)
(* An object that is removed is put aside and destroyed by the next        *)
(* removal or tick; the destructor of a pending node that never connected  *)
(* writes to the pool once more.  What a read brings is the subject of     *)
(* Connection; here a handshake ends with its verack or with an error.     *)
(*                                                                         *)
(* Time is counted in ticks of the timer, up to where it makes a           *)
(* difference.  The pool is ordered by the time of the last attempt;       *)
(* which of the addresses that have waited long enough comes first is left *)
(* open.                                                                   *)
(***************************************************************************)
EXTENDS Integers, FiniteSets

CONSTANTS
    Address,            \* the peers' addresses
    Invalid,            \* those of them with no ip or no port
    Local,              \* our own address (nodeAddress), or NoAddress
    External,           \* how others see it (externalPeerAddress), or NoAddress
    DirectNode,         \* the option directNode, or NoAddress
    NoAddress,          \* no address
    Seeds,              \* the number of DNS seeds
    MaxNodeCount,       \* the option maxNodeCount
    Preconnect,         \* the addresses called at a time (5)
    ReconnectTicks,     \* the ticks between two attempts (5 seconds)
    HandshakeTicks,     \* the ticks a handshake may take (10 seconds)
    Slots               \* bound: the connections to an address that exist,
                        \* those not yet destroyed included

ASSUME ConnectionsAssumption ==
    /\ NoAddress \notin Address
    /\ Invalid \subseteq Address
    /\ {Local, External} \subseteq Address \cup {NoAddress}
    /\ DirectNode \in (Address \ (Invalid \cup {Local, External})) \cup {NoAddress}
    /\ {Seeds, MaxNodeCount} \subseteq Nat
    /\ {Preconnect, ReconnectTicks, HandshakeTicks, Slots} \subseteq Nat \ {0}

VARIABLES
    pool,           \* the peer pool: the state of each peer, m_connectionPool,
                    \* m_expiringPool, and the ticks since lastConnectTime
    pending,        \* NodeConnector::m_nodes
    shaking,        \* the pending nodes whose socket is connected
    age,            \* the ticks since a connection's m_startTime
    deadPending,    \* NodeConnector::m_deadNodes
    established,    \* the NodeInfos with connected set
    nodes,          \* NodeManager::m_nodes
    byAddress,      \* NodeManager::m_addressIndexedNodes
    seedsLeft,      \* the seeds PeerDiscoverer has not heard of yet
    started,        \* whether start() has run
    failed          \* the assertion that ended the process, or "none"

handshakes == <<pending, shaking, age, deadPending, established>>
manager == <<nodes, byAddress>>
discovery == <<seedsLeft, started>>
vars == <<pool, handshakes, manager, discovery, failed>>

\* A connection is its NodeInfo: the address and a number to tell the
\* connections to one address apart.
Conn == Address \X (1..Slots)
AddressOf(c) == c[1]
NoConn == <<NoAddress, 0>>

PeerState == {"unknown", "standby", "connecting", "connected"}

PeerPool == [state : [Address -> PeerState], connection : SUBSET Address,
             expiring : SUBSET Address, since : [Address -> 0..ReconnectTicks]]

TypeOK ==
    /\ pool \in PeerPool
    /\ pending \subseteq Conn
    /\ shaking \subseteq pending
    /\ age \in [Conn -> 0..HandshakeTicks + 1]
    /\ deadPending \subseteq Conn
    /\ established \subseteq nodes \cup deadPending
    /\ nodes \subseteq Conn
    /\ byAddress \in [Address -> Conn \cup {NoConn}]
    /\ seedsLeft \in 0..Seeds
    /\ started \in BOOLEAN
    /\ failed \in {"none", "NodeManager:163", "NodeManager:176",
                   "PeerPoolImpl:146", "PeerPoolImpl:150"}

Up == started /\ failed = "none"
-----------------------------------------------------------------------------
(* The peer pool *)

\* Faulty variant: addPeerMap alone.
Added(p, A) ==
    [p EXCEPT
        !.connection = @ \cup {a \in A : p.state[a] = "standby"},
        !.expiring = @ \cup {a \in A : p.state[a] # "connected"}]

\* removePeerMap and addPeerMap of the peers A.
Refreshed(p, A) ==
    [state |-> p.state,
     connection |-> (p.connection \ A) \cup {a \in A : p.state[a] = "standby"},
     expiring |-> (p.expiring \ A) \cup {a \in A : p.state[a] # "connected"},
     since |-> p.since]

\* setPeerConnecting and setPeerDisconnected, a PoolItemUpdater around the
\* change of the state.
Updated(p, A, s) ==
    Refreshed([p EXCEPT !.state = [a \in Address |-> IF a \in A THEN s ELSE @[a]]], A)

\* addPeer: a new peer is on standby, a known one is only moved to the end of
\* the expiring pool.
WithPeers(p, A) ==
    LET others == A \ {Local}
        new == {a \in others : p.state[a] = "unknown"}
    IN  Refreshed(Updated(p, new, "standby"), others)

\* getConnectionPeer, until it finds none or has been called Preconnect times.
Ready(p) == {a \in p.connection : p.since[a] >= ReconnectTicks}

Picks(p) ==
    {S \in SUBSET Ready(p) :
        Cardinality(S) = IF Cardinality(Ready(p)) < Preconnect
                         THEN Cardinality(Ready(p)) ELSE Preconnect}

Picked(p, S) ==
    [p EXCEPT !.since = [a \in Address |-> IF a \in S THEN 0 ELSE @[a]]]
-----------------------------------------------------------------------------
(* Connecting *)

InUse == pending \cup deadPending \cup nodes
FreeSlots(a) == {k \in 1..Slots : <<a, k>> \notin InUse}
NewConn(a) == <<a, CHOOSE k \in FreeSlots(a) : TRUE>>

Fail(assertion) ==
    /\ failed' = assertion
    /\ UNCHANGED <<handshakes, manager>>

\* doConnect refuses our own address and those of connected nodes.
Called(S) == {a \in S : a \notin {Local, External} /\ byAddress[a] = NoConn}

\* doConnect of the addresses A, with the constructor of PendingNode.
DoConnect(p, A) ==
    /\ \A a \in A : FreeSlots(a) # {}
    /\ pool' = Updated(p, A, "connecting")
    /\ pending' = pending \cup {NewConn(a) : a \in A}
    /\ UNCHANGED <<shaking, age, deadPending, established, manager, failed>>

\* schedule and tryConnect, with the pool p.
TryConnect(p) ==
    IF MaxNodeCount - Cardinality(nodes) <= 0
    THEN /\ pool' = p
         /\ UNCHANGED <<handshakes, manager, failed>>
    ELSE \E S \in Picks(p) :
        IF S \cap Invalid # {}
        THEN pool' = p /\ Fail("PeerPoolImpl:146")
        ELSE IF \E a \in S : p.state[a] # "standby"
        THEN pool' = p /\ Fail("PeerPoolImpl:150")
        ELSE DoConnect(Picked(p, S), Called(S))

\* NodeManager::start
Start ==
    /\ ~ started
    /\ started' = TRUE
    /\ IF DirectNode # NoAddress
       THEN seedsLeft' = 0 /\ TryConnect(WithPeers(pool, {DirectNode}))
       ELSE seedsLeft' = Seeds /\ TryConnect(pool)

\* PeerDiscoverer: a seed has answered with the addresses A, or with an error.
ResolverAddress(A) ==
    /\ Up
    /\ seedsLeft > 0
    /\ seedsLeft' = seedsLeft - 1
    /\ IF A = {}
       THEN UNCHANGED <<pool, handshakes, manager, failed>>
       ELSE TryConnect(WithPeers(pool, A))
    /\ UNCHANGED started

\* The destructor of the pending nodes D: one that is not connected sets its
\* peer disconnected, once more.
Destroyed(p, D) == Updated(p, {AddressOf(c) : c \in D \ established}, "standby")

\* Faulty variant: the socket of a failed handshake is still held connected.
HandleErrorOpen(c) ==
    /\ pool' = Destroyed(Updated(pool, {AddressOf(c)}, "standby"), deadPending)
    /\ pending' = pending \ {c}
    /\ deadPending' = {c}
    /\ established' = established \cap nodes
    /\ age' = [age EXCEPT ![c] = 0]
    /\ UNCHANGED shaking

\* PendingNode::handleError: the removal destroys the one removed before.
HandleError(c) ==
    /\ pool' = Destroyed(Updated(pool, {AddressOf(c)}, "standby"), deadPending)
    /\ pending' = pending \ {c}
    /\ shaking' = shaking \ {c}
    /\ deadPending' = {c}
    /\ established' = established \cap nodes
    /\ age' = [age EXCEPT ![c] = 0]

\* on_socket_connect
SocketConnect(c) ==
    /\ Up
    /\ c \in pending \ shaking
    /\ shaking' = shaking \cup {c}
    /\ UNCHANGED <<pool, pending, age, deadPending, established, manager,
                   discovery, failed>>

\* on_socket_connect_failed, on_socket_receive_failed, a reject or a version
\* that cannot be read.
HandshakeFails(c) ==
    /\ Up
    /\ c \in pending
    /\ HandleError(c)
    /\ UNCHANGED <<manager, discovery, failed>>

\* Faulty variant: the connector keeps the connection.
VerackKept(c) ==
    /\ Up
    /\ c \in shaking
    /\ nodes' = nodes \cup {c}
    /\ established' = established \cup {c}
    /\ byAddress' = [byAddress EXCEPT ![AddressOf(c)] = c]
    /\ UNCHANGED <<pool, pending, shaking, age, deadPending, discovery, failed>>

\* handleCommand_verack, handleConnectionCreated and addNewNode.
Verack(c) ==
    /\ Up
    /\ c \in shaking
    /\ pool' = Destroyed(pool, deadPending)
    /\ pending' = pending \ {c}
    /\ shaking' = shaking \ {c}
    /\ deadPending' = {c}
    /\ nodes' = nodes \cup {c}
    /\ established' = (established \cap nodes) \cup {c}
    /\ IF byAddress[AddressOf(c)] # NoConn
       THEN failed' = "NodeManager:163" /\ UNCHANGED byAddress
       ELSE /\ byAddress' = [byAddress EXCEPT ![AddressOf(c)] = c]
            /\ UNCHANGED failed
    /\ age' = [age EXCEPT ![c] = 0]
    /\ UNCHANGED discovery
-----------------------------------------------------------------------------
(* Nodes *)

\* Faulty variant: the node stays in the index.
RemoveUnindexed(R) ==
    IF \E c \in R : byAddress[AddressOf(c)] = NoConn
    THEN failed' = "NodeManager:176" /\ UNCHANGED manager
    ELSE nodes' = nodes \ R /\ UNCHANGED <<byAddress, failed>>

\* removeNode of the nodes R, of which there is at most one.
RemoveNodes(R) ==
    IF \E c \in R : byAddress[AddressOf(c)] = NoConn
    THEN failed' = "NodeManager:176" /\ UNCHANGED manager
    ELSE /\ nodes' = nodes \ R
         /\ byAddress' = [a \in Address |->
                IF \E c \in R : AddressOf(c) = a THEN NoConn ELSE byAddress[a]]
         /\ UNCHANGED failed

\* Faulty variant: the pool is not told.
NodeFailsOnly(c) ==
    /\ Up
    /\ c \in nodes
    /\ RemoveNodes({c})
    /\ established' = established \cap (nodes' \cup deadPending)
    /\ UNCHANGED <<pool, pending, shaking, age, deadPending, discovery>>

\* Node::on_socket_receive_failed and handleError.
NodeFails(c) ==
    /\ Up
    /\ c \in nodes
    /\ pool' = Updated(pool, {AddressOf(c)}, "standby")
    /\ RemoveNodes({c})
    /\ established' = established \cap (nodes' \cup deadPending)
    /\ UNCHANGED <<pending, shaking, age, deadPending, discovery>>

\* handleCommand_addr: node c sends the addresses A.
AddrMessage(c, A) ==
    /\ Up
    /\ c \in nodes
    /\ DirectNode = NoAddress
    /\ pool' = WithPeers(pool, A)
    /\ UNCHANGED <<handshakes, manager, discovery, failed>>

AtMostOne(S) == {{}} \cup {{c} : c \in S}

Older(t, limit) == IF t < limit THEN t + 1 ELSE t

\* Faulty variant: a handshake never takes too long.
NeverOverdue == {}

\* The pending nodes whose handshake has taken too long.
Overdue == {c \in pending : age[c] > HandshakeTicks}

\* onTick of the manager: the put aside are destroyed; the overdue handshakes
\* fail in turn, each removal destroying the one before; the synchronizer
\* removes the nodes R, the one whose headers are overdue if there is one, and
\* the pool is not told.
OnTick(R) ==
    /\ Up
    /\ \E last \in AtMostOne(Overdue) :
        /\ Overdue # {} => last # {}
        /\ pool' = Destroyed(
                Updated([pool EXCEPT !.since = [a \in Address |-> Older(@[a], ReconnectTicks)]],
                        {AddressOf(c) : c \in Overdue}, "standby"),
                deadPending \cup (Overdue \ last))
        /\ deadPending' = last
    /\ pending' = pending \ Overdue
    /\ shaking' = shaking \ Overdue
    /\ age' = [c \in Conn |-> IF c \in pending \ Overdue
                              THEN Older(age[c], HandshakeTicks + 1) ELSE 0]
    /\ RemoveNodes(R)
    /\ established' = established \cap nodes'
    /\ UNCHANGED discovery

Init ==
    /\ pool = [state |-> [a \in Address |-> "unknown"], connection |-> {},
               expiring |-> {}, since |-> [a \in Address |-> ReconnectTicks]]
    /\ pending = {}
    /\ shaking = {}
    /\ age = [c \in Conn |-> 0]
    /\ deadPending = {}
    /\ established = {}
    /\ nodes = {}
    /\ byAddress = [a \in Address |-> NoConn]
    /\ seedsLeft = 0
    /\ started = FALSE
    /\ failed = "none"

Next ==
    \/ Start
    \/ \E A \in SUBSET (Address \ Invalid) : ResolverAddress(A)
    \/ \E c \in Conn : SocketConnect(c)
    \/ \E c \in Conn : HandshakeFails(c)
    \/ \E c \in Conn : Verack(c)
    \/ \E c \in Conn : NodeFails(c)
    \/ \E c \in Conn, A \in SUBSET Address : AddrMessage(c, A)
    \/ \E R \in AtMostOne(nodes) : OnTick(R)

Spec == Init /\ [][Next]_vars

\* The timer is periodic.
FairSpec == Spec /\ WF_vars(OnTick({}))
-----------------------------------------------------------------------------
(* Safety *)

\* The two pools hold the peers their states say, each once moved when its
\* state changes: those on standby wait for a connection, all but connected
\* ones may expire (PeerPoolImpl.hpp:219).
PoolsAgree ==
    /\ pool.connection = {a \in Address : pool.state[a] = "standby"}
    /\ pool.expiring = {a \in Address : pool.state[a] \notin {"unknown", "connected"}}

\* A connected node is found by its address and nothing else is, until a second
\* connection to an address ends the process: so removing a node never
\* fails, whichever of its handlers and timers does it (NodeManager.cpp:176).
NodesIndexed ==
    /\ failed # "NodeManager:176"
    /\ failed # "NodeManager:163" =>
        /\ \A c \in nodes : byAddress[AddressOf(c)] = c
        /\ \A a \in Address : byAddress[a] # NoConn =>
              byAddress[a] \in nodes /\ AddressOf(byAddress[a]) = a

\* A connection has one owner at a time: it is pending, or a node, and what was
\* put aside to be destroyed is not pending.
OneOwner ==
    /\ pending \cap (nodes \cup deadPending) = {}
    /\ nodes \subseteq established
    /\ pending \cap established = {}

HasConnection(a) == \E c \in pending \cup nodes : AddressOf(c) = a

\* When the last connection to an address ends, the address can be called again,
\* unless the headers of that node were overdue (BlockSynchronizer.cpp:92).
LostAddressReturns ==
    [][\A a \in Address :
        HasConnection(a) /\ ~ HasConnection(a)' =>
            \/ pool'.state[a] = "standby"
            \/ \E R \in AtMostOne(nodes) : R # {} /\ OnTick(R)]_vars

\* NodeManager.cpp:163: a node that is added has an address of its own.
AddressConnectedOnce == failed # "NodeManager:163"

(* Liveness *)

\* A handshake ends, one way or the other (PendingNode.cpp:83).
HandshakeEnds == \A c \in Conn : []<>(c \notin pending \/ ~ Up)
=============================================================================
