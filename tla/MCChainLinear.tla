--------------------------- MODULE MCChainLinear ---------------------------
(***************************************************************************)
(* One chain of three blocks over the genesis block.  The second spends a  *)
(* coin of the first and, in the same block, the output of that spending;  *)
(* the third spends two coins of the second.                               *)
(***************************************************************************)
EXTENDS ChainLedger

MCBlock == {"g", "b1", "b2", "b3"}
MCOut == {"cg", "c1", "c2", "x", "y", "c3", "z"}

MCPath == [b \in MCBlock |->
    CASE b = "g"  -> <<"g">>
      [] b = "b1" -> <<"g", "b1">>
      [] b = "b2" -> <<"g", "b1", "b2">>
      [] b = "b3" -> <<"g", "b1", "b2", "b3">>]

MCWork == [b \in MCBlock |-> Len(MCPath[b])]

Coinbase(o) == [ins |-> {}, outs |-> {o}]
Spend(I, o) == [ins |-> I, outs |-> {o}]

MCTxs == [b \in MCBlock |->
    CASE b = "g"  -> <<Coinbase("cg")>>
      [] b = "b1" -> <<Coinbase("c1")>>
      [] b = "b2" -> <<Coinbase("c2"), Spend({"c1"}, "x"), Spend({"x"}, "y")>>
      [] b = "b3" -> <<Coinbase("c3"), Spend({"y", "c2"}, "z")>>]

MCExempt == {}
=============================================================================
