--------------------------- MODULE MCSynchronizer ---------------------------
(***************************************************************************)
(* Two trees of blocks: two branches over the genesis block whose first    *)
(* blocks have the same work, one of them longer, and a chain of three     *)
(* blocks.                                                                 *)
(***************************************************************************)
EXTENDS Synchronizer, TLC

ForkedBlock == {"g", "b1", "b2", "f1"}

ForkedPath == [b \in ForkedBlock |->
    CASE b = "g"  -> <<"g">>
      [] b = "b1" -> <<"g", "b1">>
      [] b = "b2" -> <<"g", "b1", "b2">>
      [] b = "f1" -> <<"g", "f1">>]

ForkedWork == [b \in ForkedBlock |->
    CASE b = "g" -> 1 [] b = "b1" -> 2 [] b = "f1" -> 2 [] b = "b2" -> 4]

ChainedBlock == {"g", "b1", "b2"}

ChainedPath == [b \in ChainedBlock |-> ForkedPath[b]]
ChainedWork == [b \in ChainedBlock |-> ForkedWork[b]]

NodeSymmetry == Permutations(Node)
=============================================================================
