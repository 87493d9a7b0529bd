------------------------- MODULE ConnectionsProofs -------------------------
(***************************************************************************)
(* The safety properties of Connections, for any addresses, seeds and      *)
(* options.  They hold together: what an action does to the manager's      *)
(* lists depends on which objects own the connection, and the pools agree  *)
(* because every change of a peer's state is wrapped in an updater.        *)
(***************************************************************************)
EXTENDS Connections, TLAPS

\* The pools of the value p, as PoolsAgree says of the variable.
PoolOK(p) ==
    /\ p \in PeerPool
    /\ p.connection = {a \in Address : p.state[a] = "standby"}
    /\ p.expiring = {a \in Address : p.state[a] \notin {"unknown", "connected"}}

\* Nothing has failed before the start.
StartFails == ~ started => failed = "none"

\* The objects that own the connections.
ObjectsOK ==
    /\ pending \subseteq Conn
    /\ shaking \subseteq pending
    /\ age \in [Conn -> 0..HandshakeTicks + 1]
    /\ deadPending \subseteq Conn
    /\ established \subseteq nodes \cup deadPending
    /\ nodes \subseteq Conn
    /\ byAddress \in [Address -> Conn \cup {NoConn}]
    /\ failed \in {"none", "NodeManager:163", "NodeManager:176",
                   "PeerPoolImpl:146", "PeerPoolImpl:150"}
    /\ NodesIndexed
    /\ OneOwner

IInv ==
    /\ PoolOK(pool)
    /\ ObjectsOK
    /\ seedsLeft \in 0..Seeds
    /\ started \in BOOLEAN
    /\ StartFails
-----------------------------------------------------------------------------
(* What the operations of the pool preserve *)

\* The states after an updater has set those of A.
StatesSet(p, A, s) == [a \in Address |-> IF a \in A THEN s ELSE p.state[a]]

\* An updater around a change of state leaves the pools in agreement
\* (PeerPoolImpl.hpp:258).
LEMMA UpdatedAgrees ==
    ASSUME NEW p, PoolOK(p), NEW A \in SUBSET Address,
           NEW s \in {"standby", "connecting"}
    PROVE  /\ PoolOK(Updated(p, A, s))
           /\ Updated(p, A, s).state = StatesSet(p, A, s)
           /\ Updated(p, A, s).since = p.since
<1> DEFINE st == [a \in Address |-> IF a \in A THEN s ELSE p.state[a]]
           q == [state |-> st,
                 connection |-> (p.connection \ A) \cup {a \in A : st[a] = "standby"},
                 expiring |-> (p.expiring \ A) \cup {a \in A : st[a] # "connected"},
                 since |-> p.since]
<1>1. p = [state |-> p.state, connection |-> p.connection,
           expiring |-> p.expiring, since |-> p.since]
      BY DEF PoolOK, PeerPool
<1>2. st \in [Address -> PeerState]
      BY DEF PoolOK, PeerPool, PeerState
<1>3. [p EXCEPT !.state = [a \in Address |-> IF a \in A THEN s ELSE @[a]]]
        = [state |-> st, connection |-> p.connection,
           expiring |-> p.expiring, since |-> p.since]
      BY <1>1
<1>4. Updated(p, A, s) = q
      BY <1>3 DEF Updated, Refreshed
<1>5. q \in PeerPool
      BY <1>2 DEF PoolOK, PeerPool
<1>6. q.connection = {a \in Address : st[a] = "standby"}
      BY DEF PoolOK
<1>7. q.expiring = {a \in Address : st[a] \notin {"unknown", "connected"}}
      BY DEF PoolOK
<1> QED
      BY <1>4, <1>5, <1>6, <1>7 DEF PoolOK, StatesSet

\* A peer that is added again is only moved (PeerPoolImpl.hpp:125).
LEMMA WithPeersAgrees ==
    ASSUME NEW p, PoolOK(p), NEW A \in SUBSET Address
    PROVE  /\ PoolOK(WithPeers(p, A))
           /\ \A a \in Address : p.state[a] # "unknown"
                => WithPeers(p, A).state[a] = p.state[a]
<1> DEFINE others == A \ {Local}
           new == {a \in others : p.state[a] = "unknown"}
           q == Updated(p, new, "standby")
           r == [state |-> q.state,
                 connection |-> (q.connection \ others)
                                  \cup {a \in others : q.state[a] = "standby"},
                 expiring |-> (q.expiring \ others)
                                  \cup {a \in others : q.state[a] # "connected"},
                 since |-> q.since]
<1>1. /\ PoolOK(q)
      /\ q.state = StatesSet(p, new, "standby")
    <2>1. new \in SUBSET Address
          OBVIOUS
    <2> HIDE DEF new
    <2> QED
          BY <2>1, UpdatedAgrees
<1> HIDE DEF q
<1>4. WithPeers(p, A) = r
      BY DEF WithPeers, Refreshed, q
<1>2. q.state = [a \in Address |-> IF a \in new THEN "standby" ELSE p.state[a]]
      BY <1>1 DEF StatesSet
<1>5. \A a \in others : q.state[a] # "unknown"
      BY <1>2
<1>6. r \in PeerPool
      BY <1>1 DEF PoolOK, PeerPool
<1>7. r.connection = {a \in Address : r.state[a] = "standby"}
      BY <1>1 DEF PoolOK
<1>8. r.expiring = {a \in Address : r.state[a] \notin {"unknown", "connected"}}
      BY <1>1, <1>5 DEF PoolOK
<1> QED
      BY <1>2, <1>4, <1>6, <1>7, <1>8 DEF PoolOK

\* Choosing peers moves them in time only (PeerPoolImpl.hpp:139).
LEMMA PickedAgrees ==
    ASSUME NEW p, PoolOK(p), NEW S
    PROVE  PoolOK(Picked(p, S)) /\ Picked(p, S).state = p.state
<1>1. p = [state |-> p.state, connection |-> p.connection,
           expiring |-> p.expiring, since |-> p.since]
      BY DEF PoolOK, PeerPool
<1> DEFINE t == [a \in Address |-> IF a \in S THEN 0 ELSE p.since[a]]
<1>2. Picked(p, S) = [state |-> p.state, connection |-> p.connection,
                      expiring |-> p.expiring, since |-> t]
      BY <1>1 DEF Picked
<1>3. t \in [Address -> 0..ReconnectTicks]
      BY ConnectionsAssumption DEF PoolOK, PeerPool
<1> QED
      BY <1>2, <1>3 DEF PoolOK, PeerPool

\* Time passes in the pool.
LEMMA OlderAgrees ==
    ASSUME NEW p, PoolOK(p)
    PROVE  LET q == [p EXCEPT !.since = [a \in Address |-> Older(@[a], ReconnectTicks)]]
           IN  PoolOK(q) /\ q.state = p.state
<1>1. p = [state |-> p.state, connection |-> p.connection,
           expiring |-> p.expiring, since |-> p.since]
      BY DEF PoolOK, PeerPool
<1> DEFINE t == [a \in Address |-> Older(p.since[a], ReconnectTicks)]
           q == [p EXCEPT !.since = [a \in Address |-> Older(@[a], ReconnectTicks)]]
<1>2. q = [state |-> p.state, connection |-> p.connection,
           expiring |-> p.expiring, since |-> t]
      BY <1>1
<1>3. t \in [Address -> 0..ReconnectTicks]
      BY ConnectionsAssumption DEF PoolOK, PeerPool, Older
<1> QED
      BY <1>2, <1>3 DEF PoolOK, PeerPool

\* The late destructors of pending nodes (PendingNode.cpp:58).
LEMMA DestroyedAgrees ==
    ASSUME NEW p, PoolOK(p), NEW D \in SUBSET Conn
    PROVE  /\ PoolOK(Destroyed(p, D))
           /\ \A a \in Address : p.state[a] = "standby"
                => Destroyed(p, D).state[a] = "standby"
<1> DEFINE A == {AddressOf(c) : c \in D \ established}
<1>1. A \in SUBSET Address
      BY DEF Conn, AddressOf
<1>2. Destroyed(p, D) = Updated(p, A, "standby")
      BY DEF Destroyed
<1> HIDE DEF A
<1>3. /\ PoolOK(Updated(p, A, "standby"))
      /\ Updated(p, A, "standby").state = StatesSet(p, A, "standby")
      BY <1>1, UpdatedAgrees
<1> QED
      BY <1>2, <1>3 DEF StatesSet
-----------------------------------------------------------------------------
(* What the actions preserve *)

\* The address of a connection is one, and no connection is NoConn.
LEMMA ConnAddress ==
    /\ \A c \in Conn : AddressOf(c) \in Address
    /\ NoConn \notin Conn
BY ConnectionsAssumption DEF Conn, AddressOf, NoConn

\* New connections are nobody's yet (NodeConnector.cpp:119).
LEMMA DoConnectStep ==
    ASSUME ObjectsOK, NEW p, PoolOK(p), NEW A \in SUBSET Address, DoConnect(p, A)
    PROVE  PoolOK(pool') /\ ObjectsOK'
<1> DEFINE new == {NewConn(a) : a \in A}
<1>1. PoolOK(pool')
      BY UpdatedAgrees DEF DoConnect
<1>2. ASSUME NEW c \in new
      PROVE  c \in Conn /\ c \notin InUse
    <2>1. PICK a \in A : c = NewConn(a)
          OBVIOUS
    <2>2. FreeSlots(a) # {}
          BY DEF DoConnect
    <2>3. PICK k \in FreeSlots(a) : NewConn(a) = <<a, k>>
          BY <2>2 DEF NewConn
    <2>4. k \in 1..Slots /\ <<a, k>> \notin InUse
          BY <2>3 DEF FreeSlots
    <2> QED
          BY <2>1, <2>3, <2>4 DEF Conn
<1>3. pending' = pending \cup new
      BY DEF DoConnect
<1> HIDE DEF new
<1>4. /\ shaking' = shaking /\ age' = age /\ deadPending' = deadPending
      /\ established' = established /\ nodes' = nodes
      /\ byAddress' = byAddress /\ failed' = failed
      BY DEF DoConnect, manager
<1>5. NodesIndexed'
      BY <1>4 DEF ObjectsOK, NodesIndexed
<1>6. OneOwner'
      BY <1>2, <1>3, <1>4 DEF ObjectsOK, OneOwner, InUse
<1> QED
      BY <1>1, <1>2, <1>3, <1>4, <1>5, <1>6 DEF ObjectsOK

\* What schedule and tryConnect do with the peers they choose
\* (NodeConnector.cpp:104).
LEMMA TryConnectStep ==
    ASSUME ObjectsOK, NEW p, PoolOK(p), TryConnect(p), failed = "none"
    PROVE  PoolOK(pool') /\ ObjectsOK'
<1>1. ASSUME pool' = p, UNCHANGED <<handshakes, manager>>,
             failed' \in {"none", "PeerPoolImpl:146", "PeerPoolImpl:150"}
      PROVE  PoolOK(pool') /\ ObjectsOK'
    <2>1. /\ pending' = pending /\ shaking' = shaking /\ age' = age
          /\ deadPending' = deadPending /\ established' = established
          /\ nodes' = nodes /\ byAddress' = byAddress
          BY <1>1 DEF handshakes, manager
    <2>2. NodesIndexed'
          BY <1>1, <2>1 DEF ObjectsOK, NodesIndexed
    <2>3. OneOwner'
          BY <2>1 DEF ObjectsOK, OneOwner
    <2> QED
          BY <1>1, <2>1, <2>2, <2>3 DEF ObjectsOK
<1>2. CASE MaxNodeCount - Cardinality(nodes) <= 0
      BY <1>1, <1>2 DEF TryConnect
<1>3. CASE ~ (MaxNodeCount - Cardinality(nodes) <= 0)
    <2>1. PICK S \in Picks(p) :
            IF S \cap Invalid # {}
            THEN pool' = p /\ Fail("PeerPoolImpl:146")
            ELSE IF \E a \in S : p.state[a] # "standby"
            THEN pool' = p /\ Fail("PeerPoolImpl:150")
            ELSE DoConnect(Picked(p, S), Called(S))
          BY <1>3, Zenon DEF TryConnect
    <2>2. S \in SUBSET Address
          BY DEF Picks, Ready, PoolOK, PeerPool
    <2>3. Called(S) \in SUBSET Address
          BY <2>2 DEF Called
    <2>4. PoolOK(Picked(p, S))
          BY PickedAgrees
    <2>5. CASE DoConnect(Picked(p, S), Called(S))
          BY <2>3, <2>4, <2>5, DoConnectStep
    <2>6. CASE pool' = p /\ Fail("PeerPoolImpl:146")
          BY <1>1, <2>6 DEF Fail
    <2>7. CASE pool' = p /\ Fail("PeerPoolImpl:150")
          BY <1>1, <2>7 DEF Fail
    <2> QED
          BY <2>1, <2>5, <2>6, <2>7
<1> QED
      BY <1>2, <1>3

\* The end of a pending node leaves the nodes as they are (PendingNode.cpp:195).
LEMMA HandshakeFailsStep ==
    ASSUME IInv, NEW c \in Conn, HandshakeFails(c)
    PROVE  PoolOK(pool') /\ ObjectsOK'
<1> USE DEF IInv, HandshakeFails, HandleError, manager
<1>1. PoolOK(pool')
    <2>1. {AddressOf(c)} \in SUBSET Address
          BY ConnAddress
    <2>2. PoolOK(Updated(pool, {AddressOf(c)}, "standby"))
          BY <2>1, UpdatedAgrees
    <2> QED
          BY <2>2, DestroyedAgrees DEF ObjectsOK
<1>2. NodesIndexed'
      BY DEF ObjectsOK, NodesIndexed
<1>3. OneOwner'
      BY DEF ObjectsOK, OneOwner
<1>4. age' \in [Conn -> 0..HandshakeTicks + 1]
      BY ConnectionsAssumption DEF ObjectsOK
<1> QED
      BY <1>1, <1>2, <1>3, <1>4 DEF ObjectsOK

\* A verack hands a connection from the connector to the manager
\* (PendingNode.cpp:177).
LEMMA VerackStep ==
    ASSUME IInv, NEW c \in Conn, Verack(c)
    PROVE  PoolOK(pool') /\ ObjectsOK'
<1> USE DEF IInv, Verack, Up
<1>1. PoolOK(pool')
      BY DestroyedAgrees DEF ObjectsOK
<1>2. byAddress' \in [Address -> Conn \cup {NoConn}]
      BY ConnAddress DEF ObjectsOK
<1>3. NodesIndexed'
    <2>1. CASE byAddress[AddressOf(c)] # NoConn
          BY <2>1 DEF ObjectsOK, NodesIndexed
    <2>2. CASE byAddress[AddressOf(c)] = NoConn
        <3>1. /\ byAddress' = [byAddress EXCEPT ![AddressOf(c)] = c]
              /\ failed' = failed
              /\ nodes' = nodes \cup {c}
              BY <2>2
        <3>2. ASSUME NEW d \in nodes'
              PROVE  byAddress'[AddressOf(d)] = d
            <4>1. CASE d = c
                  BY <4>1, <3>1, ConnAddress DEF ObjectsOK
            <4>2. CASE d # c
                <5>1. byAddress[AddressOf(d)] = d /\ d \in Conn
                      BY <4>2, <3>1 DEF ObjectsOK, NodesIndexed
                <5>2. AddressOf(d) # AddressOf(c)
                      BY <5>1, <2>2, ConnAddress
                <5> QED
                      BY <5>1, <5>2, <3>1, ConnAddress DEF ObjectsOK
            <4> QED
                  BY <4>1, <4>2
        <3>3. ASSUME NEW a \in Address, byAddress'[a] # NoConn
              PROVE  byAddress'[a] \in nodes' /\ AddressOf(byAddress'[a]) = a
              BY <3>1, <3>3 DEF ObjectsOK, NodesIndexed
        <3> QED
              BY <3>1, <3>2, <3>3 DEF NodesIndexed
    <2> QED
          BY <2>1, <2>2
<1>4. OneOwner'
      BY DEF ObjectsOK, OneOwner
<1>5. age' \in [Conn -> 0..HandshakeTicks + 1]
      BY ConnectionsAssumption DEF ObjectsOK
<1>6. /\ failed' \in {"none", "NodeManager:163"}
      /\ pending' \subseteq Conn /\ shaking' \subseteq pending'
      /\ deadPending' \subseteq Conn /\ nodes' \subseteq Conn
      /\ established' \subseteq nodes' \cup deadPending'
      BY DEF ObjectsOK
<1> QED
      BY <1>1, <1>2, <1>3, <1>4, <1>5, <1>6 DEF ObjectsOK

\* A node that is removed is in the index, and leaves it (NodeManager.cpp:168).
LEMMA RemoveNodesStep ==
    ASSUME ObjectsOK, failed = "none", NEW R \in AtMostOne(nodes), RemoveNodes(R)
    PROVE  /\ nodes' = nodes \ R
           /\ failed' = "none"
           /\ byAddress' \in [Address -> Conn \cup {NoConn}]
           /\ NodesIndexed'
<1>1. R \subseteq nodes /\ R \subseteq Conn
      BY DEF AtMostOne, ObjectsOK
<1>2. \A c \in R : byAddress[AddressOf(c)] = c /\ c # NoConn
      BY <1>1, ConnAddress DEF ObjectsOK, NodesIndexed
<1>3. /\ nodes' = nodes \ R
      /\ byAddress' = [a \in Address |->
             IF \E c \in R : AddressOf(c) = a THEN NoConn ELSE byAddress[a]]
      /\ failed' = "none"
      BY <1>2 DEF RemoveNodes
<1>4. ASSUME NEW d \in nodes'
      PROVE  byAddress'[AddressOf(d)] = d
    <2>1. d \in nodes /\ d \notin R /\ byAddress[AddressOf(d)] = d
          BY <1>3 DEF ObjectsOK, NodesIndexed
    <2>2. AddressOf(d) \in Address
          BY <2>1, ConnAddress DEF ObjectsOK
    <2>3. ~ \E c \in R : AddressOf(c) = AddressOf(d)
          BY <2>1, <1>2
    <2> QED
          BY <2>1, <2>2, <2>3, <1>3
<1>5. ASSUME NEW a \in Address, byAddress'[a] # NoConn
      PROVE  byAddress'[a] \in nodes' /\ AddressOf(byAddress'[a]) = a
    <2>1. byAddress'[a] = byAddress[a] /\ ~ \E c \in R : AddressOf(c) = a
          BY <1>3, <1>5
    <2>2. byAddress[a] \in nodes
          BY <2>1, <1>5 DEF ObjectsOK, NodesIndexed
    <2>3. AddressOf(byAddress[a]) = a
          BY <2>1, <1>5 DEF ObjectsOK, NodesIndexed
    <2> QED
          BY <2>1, <2>2, <2>3, <1>3
<1>6. byAddress' \in [Address -> Conn \cup {NoConn}]
      BY <1>3 DEF ObjectsOK
<1> QED
      BY <1>3, <1>4, <1>5, <1>6 DEF NodesIndexed

\* The loss of a node (Node.cpp:136).
LEMMA NodeFailsStep ==
    ASSUME IInv, NEW c \in Conn, NodeFails(c)
    PROVE  PoolOK(pool') /\ ObjectsOK'
<1> USE DEF IInv, NodeFails, Up
<1>1. PoolOK(pool')
    <2>1. {AddressOf(c)} \in SUBSET Address
          BY ConnAddress
    <2> QED
          BY <2>1, UpdatedAgrees
<1>2. {c} \in AtMostOne(nodes)
      BY DEF AtMostOne
<1>3. /\ nodes' = nodes \ {c}
      /\ failed' = "none"
      /\ byAddress' \in [Address -> Conn \cup {NoConn}]
      /\ NodesIndexed'
      BY <1>2, RemoveNodesStep
<1>4. /\ pending' = pending /\ shaking' = shaking /\ age' = age
      /\ deadPending' = deadPending
      /\ established' = established \cap (nodes' \cup deadPending)
      OBVIOUS
<1>5. OneOwner'
      BY <1>3, <1>4 DEF ObjectsOK, OneOwner
<1> QED
      BY <1>1, <1>3, <1>4, <1>5 DEF ObjectsOK

\* A node's addresses reach the pool only (Node.cpp:249).
LEMMA AddrMessageStep ==
    ASSUME IInv, NEW c \in Conn, NEW A \in SUBSET Address, AddrMessage(c, A)
    PROVE  PoolOK(pool') /\ ObjectsOK'
<1> USE DEF IInv, AddrMessage, handshakes, manager
<1>1. PoolOK(pool')
      BY WithPeersAgrees
<1>2. NodesIndexed' /\ OneOwner'
      BY DEF ObjectsOK, NodesIndexed, OneOwner
<1> QED
      BY <1>1, <1>2 DEF ObjectsOK

\* The pool after a tick: the peers of the overdue handshakes are on standby
\* (PendingNode.cpp:83).
LEMMA TickPool ==
    ASSUME IInv, NEW R \in AtMostOne(nodes), OnTick(R)
    PROVE  /\ PoolOK(pool')
           /\ \A a \in Address :
                pool.state[a] = "standby" \/ (\E c \in Overdue : AddressOf(c) = a)
                    => pool'.state[a] = "standby"
           /\ deadPending' \subseteq Overdue
<1> DEFINE older == [pool EXCEPT !.since =
                        [a \in Address |-> Older(@[a], ReconnectTicks)]]
           late == {AddressOf(c) : c \in Overdue}
<1>1. PoolOK(older) /\ older.state = pool.state
      BY OlderAgrees DEF IInv
<1>2. Overdue \subseteq Conn
      BY DEF Overdue, IInv, ObjectsOK
<1>3. late \in SUBSET Address
      BY <1>2, ConnAddress
<1>4. PICK last \in AtMostOne(Overdue) :
        /\ pool' = Destroyed(Updated(older, late, "standby"),
                             deadPending \cup (Overdue \ last))
        /\ deadPending' = last
      BY DEF OnTick
<1>5. last \subseteq Overdue
      BY DEF AtMostOne
<1>6. deadPending \cup (Overdue \ last) \in SUBSET Conn
      BY <1>2 DEF IInv, ObjectsOK
<1>7. \A a \in Address : (\E c \in Overdue : AddressOf(c) = a) => a \in late
      OBVIOUS
<1> HIDE DEF older, late
<1>8. /\ PoolOK(Updated(older, late, "standby"))
      /\ Updated(older, late, "standby").state = StatesSet(older, late, "standby")
      BY <1>1, <1>3, UpdatedAgrees
<1>9. /\ PoolOK(pool')
      /\ \A a \in Address : Updated(older, late, "standby").state[a] = "standby"
            => pool'.state[a] = "standby"
      BY <1>4, <1>6, <1>8, DestroyedAgrees
<1>10. \A a \in Address : pool.state[a] = "standby" \/ a \in late
            => Updated(older, late, "standby").state[a] = "standby"
      BY <1>1, <1>8 DEF StatesSet
<1> QED
      BY <1>4, <1>5, <1>7, <1>9, <1>10

LEMMA OnTickStep ==
    ASSUME IInv, NEW R \in AtMostOne(nodes), OnTick(R)
    PROVE  PoolOK(pool') /\ ObjectsOK'
<1>1. PoolOK(pool') /\ deadPending' \subseteq Overdue
      BY TickPool
<1>2. /\ nodes' = nodes \ R
      /\ failed' = "none"
      /\ byAddress' \in [Address -> Conn \cup {NoConn}]
      /\ NodesIndexed'
      BY RemoveNodesStep DEF OnTick, Up, IInv
<1>3. /\ pending' = pending \ Overdue
      /\ shaking' = shaking \ Overdue
      /\ age' = [c \in Conn |-> IF c \in pending \ Overdue
                              THEN Older(age[c], HandshakeTicks + 1) ELSE 0]
      /\ established' = established \cap nodes'
      BY DEF OnTick
<1>4. Overdue \subseteq pending
      BY DEF Overdue
<1>5. age' \in [Conn -> 0..HandshakeTicks + 1]
      BY <1>3, ConnectionsAssumption DEF Older, IInv, ObjectsOK
<1>6. OneOwner'
      BY <1>1, <1>2, <1>3, <1>4 DEF IInv, ObjectsOK, OneOwner
<1> QED
      BY <1>1, <1>2, <1>3, <1>4, <1>5, <1>6 DEF IInv, ObjectsOK
-----------------------------------------------------------------------------
LEMMA InitIInv == Init => IInv
<1> SUFFICES ASSUME Init
             PROVE  IInv
    OBVIOUS
<1>1. PoolOK(pool)
      BY ConnectionsAssumption DEF Init, PoolOK, PeerPool, PeerState
<1>2. ObjectsOK
      BY ConnectionsAssumption DEF Init, ObjectsOK, NodesIndexed, OneOwner
<1> QED
    <2>1. seedsLeft \in 0..Seeds
          BY ConnectionsAssumption DEF Init
    <2>2. started \in BOOLEAN /\ StartFails
          BY Zenon DEF Init, StartFails
    <2> QED
          BY <1>1, <1>2, <2>1, <2>2, Zenon DEF IInv

LEMMA NextIInv == IInv /\ [Next]_vars => IInv'
<1> SUFFICES ASSUME IInv, [Next]_vars
             PROVE  IInv'
    OBVIOUS
<1>1. ASSUME PoolOK(pool') /\ ObjectsOK', seedsLeft' \in 0..Seeds, started'
      PROVE  IInv'
      BY <1>1 DEF IInv, StartFails, PoolOK, PeerPool
<1>2. CASE Start
    <2>1. failed = "none" /\ seedsLeft' \in 0..Seeds /\ started'
          BY <1>2, ConnectionsAssumption DEF Start, IInv, StartFails
    <2>2. CASE DirectNode # NoAddress
        <3>1. {DirectNode} \in SUBSET Address
              BY <2>2, ConnectionsAssumption
        <3>2. PoolOK(WithPeers(pool, {DirectNode}))
              BY <3>1, WithPeersAgrees DEF IInv
        <3> QED
              BY <1>1, <1>2, <2>1, <2>2, <3>2, TryConnectStep DEF Start, IInv
    <2>3. CASE DirectNode = NoAddress
          BY <1>1, <1>2, <2>1, <2>3, TryConnectStep DEF Start, IInv
    <2> QED
          BY <2>2, <2>3
<1>3. ASSUME NEW A \in SUBSET (Address \ Invalid), ResolverAddress(A)
      PROVE  IInv'
    <2>1. failed = "none" /\ seedsLeft' \in 0..Seeds /\ started'
          BY <1>3, ConnectionsAssumption DEF ResolverAddress, Up, IInv
    <2>2. CASE A = {}
        <3>1. UNCHANGED <<pool, handshakes, manager, failed>>
              BY <1>3, <2>2 DEF ResolverAddress
        <3>2. ObjectsOK'
              BY <3>1 DEF IInv, ObjectsOK, NodesIndexed, OneOwner, handshakes, manager
        <3> QED
              BY <1>1, <2>1, <3>1, <3>2 DEF IInv
    <2>3. CASE A # {}
        <3>1. TryConnect(WithPeers(pool, A))
              BY <1>3, <2>3 DEF ResolverAddress
        <3>2. PoolOK(WithPeers(pool, A))
              BY WithPeersAgrees DEF IInv
        <3> QED
              BY <1>1, <2>1, <3>1, <3>2, TryConnectStep DEF IInv
    <2> QED
          BY <2>2, <2>3
<1>4. ASSUME NEW c \in Conn, SocketConnect(c)
      PROVE  IInv'
    <2>1. ObjectsOK'
          BY <1>4 DEF SocketConnect, IInv, ObjectsOK, NodesIndexed, OneOwner, manager
    <2> QED
          BY <1>1, <1>4, <2>1 DEF SocketConnect, Up, IInv, discovery
<1>5. ASSUME NEW c \in Conn, HandshakeFails(c)
      PROVE  IInv'
      BY <1>1, <1>5, HandshakeFailsStep DEF HandshakeFails, Up, IInv, discovery
<1>6. ASSUME NEW c \in Conn, Verack(c)
      PROVE  IInv'
      BY <1>1, <1>6, VerackStep DEF Verack, Up, IInv, discovery
<1>7. ASSUME NEW c \in Conn, NodeFails(c)
      PROVE  IInv'
      BY <1>1, <1>7, NodeFailsStep DEF NodeFails, Up, IInv, discovery
<1>8. ASSUME NEW c \in Conn, NEW A \in SUBSET Address, AddrMessage(c, A)
      PROVE  IInv'
      BY <1>1, <1>8, AddrMessageStep DEF AddrMessage, Up, IInv, discovery
<1>9. ASSUME NEW R \in AtMostOne(nodes), OnTick(R)
      PROVE  IInv'
      BY <1>1, <1>9, OnTickStep DEF OnTick, Up, IInv, discovery
<1>10. CASE UNCHANGED vars
    <2> USE <1>10 DEF vars, handshakes, manager, discovery
    <2>1. ObjectsOK'
          BY DEF IInv, ObjectsOK, NodesIndexed, OneOwner
    <2> QED
          BY <2>1 DEF IInv, StartFails
<1> QED
      BY <1>2, <1>3, <1>4, <1>5, <1>6, <1>7, <1>8, <1>9, <1>10 DEF Next

LEMMA IInvHolds == Spec => []IInv
BY InitIInv, NextIInv, PTL DEF Spec

\* The variables have their types, whatever the constants (Connections).
THEOREM TypeCorrect == Spec => []TypeOK
<1>1. IInv => TypeOK
      BY DEF IInv, TypeOK, PoolOK, ObjectsOK, OneOwner
<1> QED
      BY <1>1, IInvHolds, PTL

\* The connection pool and the expiring pool are what the peers' states say, for
\* any addresses and options (PeerPoolImpl.hpp:258).
THEOREM PoolsAgreeAlways == Spec => []PoolsAgree
<1>1. IInv => PoolsAgree
      BY DEF IInv, PoolsAgree, PoolOK
<1> QED
      BY <1>1, IInvHolds, PTL

\* removeNode never fails, and the index is that of the nodes until a second
\* connection to an address ends the process (NodeManager.cpp:176).
THEOREM NodesAreIndexed == Spec => []NodesIndexed
<1>1. IInv => NodesIndexed
      BY DEF IInv, ObjectsOK
<1> QED
      BY <1>1, IInvHolds, PTL

\* A connection is never pending and connected, nor pending and put aside, for
\* any number of connections (NodeConnector.cpp:96).
THEOREM ConnectionsHaveOneOwner == Spec => []OneOwner
<1>1. IInv => OneOwner
      BY DEF IInv, ObjectsOK
<1> QED
      BY <1>1, IInvHolds, PTL
-----------------------------------------------------------------------------
(* The addresses that lose their last connection *)

\* A connection of a that is left is one that was there.
LEMMA StillConnected ==
    ASSUME NEW a, HasConnection(a), ~ HasConnection(a)',
           NEW gone, pending \cup nodes \subseteq pending' \cup nodes' \cup gone
    PROVE  \E c \in gone : AddressOf(c) = a
<1>1. PICK c \in pending \cup nodes : AddressOf(c) = a
      BY DEF HasConnection
<1>2. c \notin pending' \cup nodes'
      BY <1>1 DEF HasConnection
<1> QED
      BY <1>1, <1>2

\* setPeerDisconnected of one peer (PeerPoolImpl.hpp:175).
LEMMA DisconnectedPeer ==
    ASSUME NEW p, PoolOK(p), NEW a \in Address
    PROVE  /\ PoolOK(Updated(p, {a}, "standby"))
           /\ Updated(p, {a}, "standby").state[a] = "standby"
<1>1. {a} \in SUBSET Address
      OBVIOUS
<1> DEFINE A == {a}
<1>2. a \in A
      OBVIOUS
<1> HIDE DEF A
<1>3. /\ PoolOK(Updated(p, A, "standby"))
      /\ Updated(p, A, "standby").state = StatesSet(p, A, "standby")
      BY <1>1, UpdatedAgrees DEF A
<1>4. Updated(p, A, "standby").state[a] = "standby"
      BY <1>2, <1>3 DEF StatesSet
<1> QED
      BY <1>3, <1>4 DEF A

\* New calls end no connection (NodeConnector.cpp:104).
LEMMA TryConnectEndsNone ==
    ASSUME NEW p, TryConnect(p)
    PROVE  pending \subseteq pending' /\ nodes \subseteq nodes'
<1>1. ASSUME NEW q, NEW A, DoConnect(q, A)
      PROVE  pending \subseteq pending' /\ nodes \subseteq nodes'
      BY <1>1 DEF DoConnect, manager
<1>2. ASSUME UNCHANGED <<handshakes, manager>>
      PROVE  pending \subseteq pending' /\ nodes \subseteq nodes'
      BY <1>2 DEF handshakes, manager
<1>3. CASE MaxNodeCount - Cardinality(nodes) <= 0
      BY <1>2, <1>3 DEF TryConnect
<1>4. CASE ~ (MaxNodeCount - Cardinality(nodes) <= 0)
    <2>1. \/ UNCHANGED <<handshakes, manager>>
          \/ \E q, A : DoConnect(q, A)
          BY <1>4, Zenon DEF TryConnect, Fail
    <2> QED
          BY <1>1, <1>2, <2>1
<1> QED
      BY <1>3, <1>4

\* An address whose last connection ends is on standby, unless the synchronizer
\* removed the node (BlockSynchronizer.cpp:92).
THEOREM LostAddressesReturn == Spec => LostAddressReturns
<1> DEFINE Returns(a) ==
        \/ pool'.state[a] = "standby"
        \/ \E R \in AtMostOne(nodes) : R # {} /\ OnTick(R)
<1>1. ASSUME IInv, Next, NEW a \in Address, HasConnection(a), ~ HasConnection(a)'
      PROVE  Returns(a)
    <2> USE <1>1 DEF IInv
    <2>1. ASSUME pending \cup nodes \subseteq pending' \cup nodes'
          PROVE  FALSE
        <3>1. PICK c \in pending \cup nodes : AddressOf(c) = a
              BY DEF HasConnection
        <3> QED
              BY <2>1, <3>1 DEF HasConnection
    <2>2. CASE Start
        <3>1. \E p : TryConnect(p)
              BY <2>2 DEF Start
        <3> QED
              BY <2>1, <3>1, TryConnectEndsNone
    <2>3. ASSUME NEW A \in SUBSET (Address \ Invalid), ResolverAddress(A)
          PROVE  Returns(a)
        <3>1. (\E p : TryConnect(p)) \/ UNCHANGED <<handshakes, manager>>
              BY <2>3, Zenon DEF ResolverAddress
        <3> QED
              BY <2>1, <3>1, TryConnectEndsNone DEF handshakes, manager
    <2>4. ASSUME NEW c \in Conn, SocketConnect(c)
          PROVE  Returns(a)
          BY <2>1, <2>4 DEF SocketConnect, manager
    <2>5. ASSUME NEW c \in Conn, HandshakeFails(c)
          PROVE  Returns(a)
        <3>1. pending \cup nodes \subseteq pending' \cup nodes' \cup {c}
              BY <2>5 DEF HandshakeFails, HandleError, manager
        <3>2. AddressOf(c) = a
              BY <3>1, StillConnected
        <3>3. /\ PoolOK(Updated(pool, {a}, "standby"))
              /\ Updated(pool, {a}, "standby").state[a] = "standby"
              BY DisconnectedPeer
        <3>4. pool' = Destroyed(Updated(pool, {a}, "standby"), deadPending)
              BY <2>5, <3>2 DEF HandshakeFails, HandleError
        <3> QED
              BY <3>3, <3>4, DestroyedAgrees DEF ObjectsOK
    <2>6. ASSUME NEW c \in Conn, Verack(c)
          PROVE  Returns(a)
          BY <2>1, <2>6 DEF Verack
    <2>7. ASSUME NEW c \in Conn, NodeFails(c)
          PROVE  Returns(a)
        <3>1. {c} \in AtMostOne(nodes)
              BY <2>7 DEF NodeFails, AtMostOne
        <3>2. nodes' = nodes \ {c} /\ pending' = pending
              BY <2>7, <3>1, RemoveNodesStep DEF NodeFails, Up
        <3>3. pending \cup nodes \subseteq pending' \cup nodes' \cup {c}
              BY <3>2
        <3>4. AddressOf(c) = a
              BY <3>3, StillConnected
        <3>5. pool'.state[a] = "standby"
              BY <2>7, <3>4, DisconnectedPeer DEF NodeFails
        <3> QED
              BY <3>5
    <2>8. ASSUME NEW c \in Conn, NEW A \in SUBSET Address, AddrMessage(c, A)
          PROVE  Returns(a)
          BY <2>1, <2>8 DEF AddrMessage, handshakes, manager
    <2>9. ASSUME NEW R \in AtMostOne(nodes), OnTick(R)
          PROVE  Returns(a)
        <3>1. CASE R # {}
              BY <2>9, <3>1
        <3>2. CASE R = {}
            <4>1. nodes' = nodes \ R
                  BY <2>9, RemoveNodesStep DEF OnTick, Up
            <4>2. pending' = pending \ Overdue
                  BY <2>9 DEF OnTick
            <4>3. \E c \in Overdue : AddressOf(c) = a
                  BY <3>2, <4>1, <4>2, StillConnected
            <4> QED
                  BY <2>9, <4>3, TickPool
        <3> QED
              BY <3>1, <3>2
    <2> QED
          BY <2>2, <2>3, <2>4, <2>5, <2>6, <2>7, <2>8, <2>9 DEF Next
<1>2. IInv /\ [Next]_vars =>
        [\A a \in Address :
            HasConnection(a) /\ ~ HasConnection(a)' => Returns(a)]_vars
      BY <1>1
<1> QED
      BY <1>2, IInvHolds, PTL DEF Spec, LostAddressReturns
=============================================================================
