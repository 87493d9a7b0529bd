----------------------------- MODULE Connection -----------------------------
(***************************************************************************)
(* One outbound connection from the moment its socket is connected: the    *)
(* bytes as they arrive, the decoder (net/MessageCodec.cpp), and the two   *)
(* objects that handle its messages one after the other, PendingNode until *)
(* the verack and Node from then on.  They share the decoder: what is      *)
(* left in it goes to the other one.                                       *)
(*                                                                         *)
(* The peer sends any messages; TCP delivers their bytes in order, cut     *)
(* anywhere.  Bytes are counted in units that know which message they      *)
(* belong to and where: a decoder that looks for a header anywhere else    *)
(* finds the wrong magic.  One read is one call of the program; its loop   *)
(* over the messages is a step for each, in which nothing else runs.       *)
(* Messages we send change nothing here.                                   *)
(***************************************************************************)
EXTENDS Naturals, Sequences

CONSTANTS
    Message,        \* the messages a peer may send
    HeaderSize,     \* PROTOCOL_HEADER_SIZE (24)
    Word,           \* the values of a length (2^32)
    MaxMessages     \* bound: the messages a peer sends

\* wire: whether the magic and the checksum of a message are right; good:
\* whether its payload can be read.
ASSUME ConnectionAssumption ==
    /\ Message \subseteq [command : STRING, length : 0..Word - 1, good : BOOLEAN,
                          wire : {"ok", "magic", "checksum"}]
    /\ HeaderSize \in Nat \ {0}
    /\ Word \in Nat /\ HeaderSize < Word
    /\ MaxMessages \in Nat

VARIABLES
    sent,           \* the messages the peer has sent, in order
    transit,        \* their units that we have not read
    buffer,         \* MessageDecoderImpl::m_buffer
    data, decoded,  \* buf and decodedSize of a call of decode
    pc,             \* "idle", or "decoding" within a read
    listener,       \* who listens to the decoder: "pending" or "node"
    handler,        \* whether PendingNodeImpl::m_handler is set
    established,    \* NodeInfo::connected
    owner,          \* whose list has us: "connector", "manager" or "none"
    closed,         \* whether the socket is destroyed
    handled,        \* the messages that reached a handler, and whose
    failed          \* what ended the process, or "none"

peer == <<sent, transit>>
decoder == <<buffer, data, decoded, pc>>
node == <<listener, handler, established, owner, closed>>
vars == <<peer, decoder, node, handled, failed>>

\* A unit of the stream: the number of the message and the place in it.
Unit == [message : Nat, place : Nat]
Units(k, m) == [i \in 1..HeaderSize + m.length |-> [message |-> k, place |-> i]]

TypeOK ==
    /\ sent \in Seq(Message)
    /\ transit \in Seq(Unit)
    /\ buffer \in Seq(Unit)
    /\ data \in Seq(Unit)
    /\ decoded \in 0..Len(data)
    /\ pc \in {"idle", "decoding"}
    /\ listener \in {"pending", "node"}
    /\ handler \in BOOLEAN
    /\ established \in BOOLEAN
    /\ owner \in {"connector", "manager", "none"}
    /\ closed \in BOOLEAN
    /\ handled \in Seq([message : Message, by : {"pending", "node"}])
    /\ failed \in {"none", "MessageCodec:156", "MessageCodec:165",
                   "MessageCodec:169", "PendingNode:123", "PendingNode:197", "null handler",
                   "Node:173", "Node:256"}

Up == failed = "none"
-----------------------------------------------------------------------------
(* The decoder *)

\* The data that is not decoded yet.
Rest == SubSeq(data, decoded + 1, Len(data))

\* What the header at the start of s says, if it is one.
HeaderOf(s) == sent[s[1].message]
IsHeader(s) == s[1].place = 1 /\ HeaderOf(s).wire # "magic"

\* header.length + PROTOCOL_HEADER_SIZE, in unsigned arithmetic.
Total(m) == (HeaderSize + m.length) % Word
WrapsAround(m) == HeaderSize + m.length >= Word

\* Faulty variant: the payload is not waited for.
VerdictEarly(s) ==
    IF Len(s) < HeaderSize THEN "incomplete"
    ELSE IF ~ IsHeader(s) THEN "magic"
    ELSE IF HeaderOf(s).wire = "checksum" THEN "checksum" ELSE "message"

\* decodeOneMessage: what it makes of s.  A sum that has wrapped around lets it
\* go on to the checksum, which then reads far beyond the data.
Verdict(s) ==
    IF Len(s) < HeaderSize THEN "incomplete"
    ELSE IF ~ IsHeader(s) THEN "magic"
    ELSE IF Len(s) < Total(HeaderOf(s)) THEN "incomplete"
    ELSE IF WrapsAround(HeaderOf(s)) THEN "overrun"
    ELSE IF \/ HeaderOf(s).wire = "checksum"
            \/ SubSeq(s, 1, Total(HeaderOf(s))) # Units(s[1].message, HeaderOf(s))
    THEN "checksum" ELSE "message"
-----------------------------------------------------------------------------
(* The handlers *)

\* Faulty variant: the connector is not told.
PendingErrorOnly ==
    IF established
    THEN failed' = "PendingNode:197" /\ UNCHANGED node
    ELSE closed' = TRUE /\ UNCHANGED <<listener, handler, owner, established, failed>>

\* PendingNode::handleError: the peer is on standby, the socket closed, and the
\* connector forgets us, once.  The object lives on until the next tick.
PendingError ==
    IF established
    THEN failed' = "PendingNode:197" /\ UNCHANGED node
    ELSE /\ closed' = TRUE
         /\ handler' = FALSE
         /\ owner' = IF handler THEN "none" ELSE owner
         /\ UNCHANGED <<listener, established, failed>>

\* Faulty variant: the Node does not listen to the decoder.
PendingVerackDeaf ==
    /\ established' = TRUE
    /\ IF handler
       THEN /\ handler' = FALSE
            /\ owner' = "manager"
            /\ UNCHANGED <<listener, closed, failed>>
       ELSE /\ failed' = "null handler"
            /\ UNCHANGED <<handler, owner, listener, closed>>

\* handleCommand_verack, handleConnectionCreated and addNewNode: the new Node
\* takes the decoder and the socket over.
PendingVerack ==
    /\ established' = TRUE
    /\ IF handler
       THEN /\ handler' = FALSE
            /\ owner' = "manager"
            /\ listener' = "node"
            /\ UNCHANGED <<closed, failed>>
       ELSE /\ failed' = "null handler"
            /\ UNCHANGED <<handler, owner, listener, closed>>

\* PendingNode::onMessageDecoded
PendingHandles(m) ==
    \/ /\ m.command = "version" /\ m.good
       /\ UNCHANGED <<node, failed>>
    \/ /\ m.command = "reject" \/ (m.command = "version" /\ ~ m.good)
       /\ PendingError
    \/ /\ m.command = "verack"
       /\ PendingVerack
    \/ /\ m.command \notin {"version", "verack", "reject"}
       /\ failed' = "PendingNode:123"
       /\ UNCHANGED node

\* Node's handlers by command; those that check what they read.
NodeCommand ==
    {"version", "verack", "addr", "inv", "getdata", "notfound", "getblocks",
     "getheaders", "tx", "block", "headers", "getaddr", "mempool", "ping",
     "pong", "reject", "filterload", "filteradd", "filterclear",
     "merkleblock", "alert", "sendheaders", "feefilter", "sendcmpct",
     "cmpctblock", "getblocktxn", "blocktxn"}

CheckedCommand == {"addr", "block", "headers"}

\* Node::onMessageDecoded.  A payload that cannot be read ends in handleError
\* and then an assertion (as Node:256, Node:298 and Node:312).
NodeHandles(m) ==
    /\ failed' = IF m.command \notin NodeCommand THEN "Node:173"
                 ELSE IF m.command \in CheckedCommand /\ ~ m.good THEN "Node:256"
                 ELSE failed
    /\ UNCHANGED node

\* MessageDecoderListener::onMessageDecoded
Handles(m) ==
    /\ handled' = Append(handled, [message |-> m, by |-> listener])
    /\ IF listener = "pending" THEN PendingHandles(m) ELSE NodeHandles(m)
-----------------------------------------------------------------------------
(* A read *)

\* on_socket_receive of n units: decode begins.
Receive(n) ==
    /\ Up
    /\ pc = "idle"
    /\ ~ closed
    /\ n \in 1..Len(transit)
    /\ data' = buffer \o SubSeq(transit, 1, n)
    /\ transit' = SubSeq(transit, n + 1, Len(transit))
    /\ decoded' = 0
    /\ pc' = "decoding"
    /\ UNCHANGED <<sent, buffer, node, handled, failed>>

\* decodeMessages goes on to the next message.
DecodeMessage ==
    /\ Up
    /\ pc = "decoding"
    /\ Verdict(Rest) = "message"
    /\ Handles(HeaderOf(Rest))
    /\ decoded' = decoded + Total(HeaderOf(Rest))
    /\ UNCHANGED <<peer, buffer, data, pc>>

BadMessage ==
    /\ Up
    /\ pc = "decoding"
    /\ \/ Verdict(Rest) = "magic" /\ failed' = "MessageCodec:156"
       \/ Verdict(Rest) = "overrun" /\ failed' = "MessageCodec:165"
       \/ Verdict(Rest) = "checksum" /\ failed' = "MessageCodec:169"
    /\ UNCHANGED <<peer, decoder, node, handled>>

\* Faulty variant: the rest is kept only if something was decoded.
EndDecodeLossy ==
    /\ Up
    /\ pc = "decoding"
    /\ Verdict(Rest) = "incomplete"
    /\ buffer' = IF decoded > 0 THEN Rest ELSE buffer
    /\ data' = <<>>
    /\ decoded' = 0
    /\ pc' = "idle"
    /\ UNCHANGED <<peer, node, handled, failed>>

\* Faulty variant: all is kept.
EndDecodeAll ==
    /\ Up
    /\ pc = "decoding"
    /\ Verdict(Rest) = "incomplete"
    /\ buffer' = data
    /\ data' = <<>>
    /\ decoded' = 0
    /\ pc' = "idle"
    /\ UNCHANGED <<peer, node, handled, failed>>

\* decode ends: the rest is kept.
EndDecode ==
    /\ Up
    /\ pc = "decoding"
    /\ Verdict(Rest) = "incomplete"
    /\ buffer' = Rest
    /\ data' = <<>>
    /\ decoded' = 0
    /\ pc' = "idle"
    /\ UNCHANGED <<peer, node, handled, failed>>

\* The connection is lost, the handshake takes too long, or the synchronizer
\* has waited too long for headers.
Lost ==
    /\ Up
    /\ pc = "idle"
    /\ ~ closed
    /\ IF listener = "pending"
       THEN PendingError
       ELSE /\ closed' = TRUE
            /\ owner' = "none"
            /\ UNCHANGED <<listener, handler, established, failed>>
    /\ UNCHANGED <<peer, decoder, handled>>

\* The peer sends a message.
PeerSends(m) ==
    /\ Up
    /\ Len(sent) < MaxMessages
    /\ sent' = Append(sent, m)
    /\ transit' = transit \o Units(Len(sent) + 1, m)
    /\ UNCHANGED <<decoder, node, handled, failed>>

Init ==
    /\ sent = <<>>
    /\ transit = <<>>
    /\ buffer = <<>>
    /\ data = <<>>
    /\ decoded = 0
    /\ pc = "idle"
    /\ listener = "pending"
    /\ handler = TRUE
    /\ established = FALSE
    /\ owner = "connector"
    /\ closed = FALSE
    /\ handled = <<>>
    /\ failed = "none"

Next ==
    \/ \E m \in Message : PeerSends(m)
    \/ \E n \in 1..Len(transit) : Receive(n)
    \/ DecodeMessage
    \/ BadMessage
    \/ EndDecode
    \/ Lost

Spec == Init /\ [][Next]_vars
-----------------------------------------------------------------------------
(* Safety *)

\* However the stream is cut, each message reaches a handler once and in order
\* (MessageCodec.cpp:99).
HandledMessages == [i \in DOMAIN handled |-> handled[i].message]

Queue == INSTANCE MessageQueue WITH handled <- HandledMessages

ImplementsQueue == Queue!Spec

\* When all that was sent has been read and decode has returned, every message
\* has been handled: the decoder keeps none back.
NothingHeldBack ==
    Up /\ pc = "idle" /\ transit = <<>> => Len(handled) = Len(sent)

\* The connector, the manager and the socket agree on whether there is a
\* connection, and on what it is.
OwnerAgrees ==
    Up => /\ closed <=> owner = "none"
          /\ handler <=> owner = "connector"
          /\ established <=> listener = "node"
          /\ owner = "manager" => established

IsVerack(h) == h.by = "pending" /\ h.message.command = "verack"
EndsHandshake(h) ==
    \/ h.message.command = "reject"
    \/ h.message.command = "version" /\ ~ h.message.good

\* PendingNode handles the messages up to the first verack and Node those after
\* it, also when one read brings both; a verack finds no handler only after an
\* error in the handshake that came in the same read (PendingNode.cpp:181).
HandshakeFirst ==
    /\ \A i \in DOMAIN handled :
          handled[i].by = "node" <=> \E j \in 1..i - 1 : IsVerack(handled[j])
    /\ failed # "PendingNode:197"
    /\ failed = "null handler" =>
          closed /\ \E i \in 1..Len(handled) - 1 : EndsHandshake(handled[i])
=============================================================================
