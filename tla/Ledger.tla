------------------------------- MODULE Ledger -------------------------------
(***************************************************************************)
(* What the storage engine promises of the coins: the unspent outputs are  *)
(* those of one chain of blocks, every block's transactions applied once   *)
(* and in order, and what a crash leaves behind is such a state too.       *)
(***************************************************************************)
EXTENDS Sequences

CONSTANTS
    Block,
    Genesis,
    ParentOf(_),    \* the parent of a block other than Genesis
    TxsOf(_)        \* the transactions of such a block

VARIABLES
    tip,        \* the last block of the chain
    todo,       \* its transactions still to apply
    utxo,       \* the unspent outputs
    saved       \* the tip and the outputs a restart begins with

vars == <<tip, todo, utxo, saved>>

Init ==
    /\ tip = Genesis
    /\ todo = <<>>
    /\ utxo = {}
    /\ saved = [tip |-> Genesis, utxo |-> {}]

Extend(b) ==
    /\ todo = <<>>
    /\ b # Genesis
    /\ ParentOf(b) = tip
    /\ tip' = b
    /\ todo' = TxsOf(b)
    /\ UNCHANGED <<utxo, saved>>

\* A transaction spends outputs that exist and creates ones that do not.
Apply ==
    /\ todo # <<>>
    /\ Head(todo).ins \subseteq utxo
    /\ Head(todo).outs \cap utxo = {}
    /\ utxo' = (utxo \ Head(todo).ins) \cup Head(todo).outs
    /\ todo' = Tail(todo)
    /\ UNCHANGED <<tip, saved>>

\* Only whole blocks are saved.
Save ==
    /\ todo = <<>>
    /\ saved' = [tip |-> tip, utxo |-> utxo]
    /\ UNCHANGED <<tip, todo, utxo>>

Recover ==
    /\ tip' = saved.tip
    /\ utxo' = saved.utxo
    /\ todo' = <<>>
    /\ UNCHANGED saved

Next == (\E b \in Block : Extend(b)) \/ Apply \/ Save \/ Recover

Spec == Init /\ [][Next]_vars
=============================================================================
