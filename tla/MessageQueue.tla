---------------------------- MODULE MessageQueue ----------------------------
(***************************************************************************)
(* What a connection promises of the messages of its peer, with no bytes,  *)
(* reads or buffers: each is handled once, in the order it was sent.       *)
(***************************************************************************)
EXTENDS Naturals, Sequences

CONSTANT Message

VARIABLES
    sent,           \* the messages the peer has sent
    handled         \* those that have reached a handler

Send(m) ==
    /\ sent' = Append(sent, m)
    /\ UNCHANGED handled

Handle ==
    /\ Len(handled) < Len(sent)
    /\ handled' = Append(handled, sent[Len(handled) + 1])
    /\ UNCHANGED sent

Init == sent = <<>> /\ handled = <<>>

Next == (\E m \in Message : Send(m)) \/ Handle

Spec == Init /\ [][Next]_<<sent, handled>>
=============================================================================
