---------------------------- MODULE MCBlockFiles ----------------------------
(***************************************************************************)
(* Two blocks, one of them twice as long as the other, in files that are   *)
(* full with both and one of them again.                                   *)
(***************************************************************************)
EXTENDS BlockFiles

MCBlock == {"a", "b"}
MCSize == [b \in MCBlock |-> IF b = "b" THEN 2 ELSE 1]

\* What data/Block.hpp:52 says of every entry; BlockFilesTwo.cfg and
\* BlockFilesOverlap.cfg show the two ways in which it fails.
EverySavedBlockIsThere ==
    \A b \in DOMAIN savedPlace :
        \A c \in Extent(b, savedPlace[b]) : bytes[c] = b

\* The same but for what a meeting of the two threads did.
LostOnlyByMeeting ==
    [][raced \/ uncovered' = uncovered]_vars
=============================================================================
