---------------------------- MODULE MCConnection ----------------------------
(***************************************************************************)
(* The messages: those of a handshake, one that cannot be read, one for    *)
(* the node, with payloads of different lengths, broken ones, and one so   *)
(* long that its length and the header's together wrap around.             *)
(***************************************************************************)
EXTENDS Connection

Plain(c, n) == [command |-> c, length |-> n, good |-> TRUE, wire |-> "ok"]

SomeMessages ==
    {Plain("version", 2), [Plain("version", 1) EXCEPT !.good = FALSE],
     Plain("verack", 0), Plain("reject", 1), Plain("addr", 2),
     [Plain("addr", 1) EXCEPT !.good = FALSE], Plain("ping", 0),
     Plain("wtxidrelay", 0), [Plain("ping", 1) EXCEPT !.wire = "checksum"],
     [Plain("ping", 1) EXCEPT !.wire = "magic"], Plain("addr", 4)}
=============================================================================
