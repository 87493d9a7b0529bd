--------------------------- MODULE MCChainForks ---------------------------
(***************************************************************************)
(* Two branches over the genesis block: b1, and f1, f2 with more work in   *)
(* all though f1 alone has less than b1 (testnet blocks may have the least *)
(* difficulty).  b1 creates an output and spends it; f1 creates the same   *)
(* output again (a coinbase may repeat one that is spent, and f1 is one of *)
(* the two blocks that may repeat any transaction); f2 spends it.  The     *)
(* genesis block's output, which nobody spends, is left out.               *)
(***************************************************************************)
EXTENDS ChainLedger

MCBlock == {"g", "b1", "f1", "f2"}
MCOut == {"c1", "d1", "x"}

MCPath == [b \in MCBlock |->
    CASE b = "g"  -> <<"g">>
      [] b = "b1" -> <<"g", "b1">>
      [] b = "f1" -> <<"g", "f1">>
      [] b = "f2" -> <<"g", "f1", "f2">>]

MCWork == [b \in MCBlock |->
    CASE b = "g" -> 1 [] b = "b1" -> 3 [] b = "f1" -> 2 [] b = "f2" -> 4]

MCTxs == [b \in MCBlock |->
    CASE b = "g"  -> <<[ins |-> {}, outs |-> {}]>>
      [] b = "b1" -> <<[ins |-> {}, outs |-> {"d1"}],
                     [ins |-> {"d1"}, outs |-> {"c1"}]>>
      [] b = "f1" -> <<[ins |-> {}, outs |-> {"d1"}]>>
      [] b = "f2" -> <<[ins |-> {"d1"}, outs |-> {"x"}]>>]

MCExempt == {"f1"}
=============================================================================
