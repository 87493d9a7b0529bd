----------------------------- MODULE CoinLedger -----------------------------
(***************************************************************************)
(* What the storage engine promises of the coins in every order of blocks, *)
(* on any branches, delivered by any nodes, and however the flushes of its *)
(* two threads meet: the transactions of a block are applied once each, in *)
(* their order, and every one spends outputs that exist; what is saved is  *)
(* a state the coins had; and what a flush forgets is at most what came    *)
(* after a flush last saved.                                               *)
(*                                                                         *)
(* It does not promise that blocks follow each other (the engine does not  *)
(* disconnect a branch it leaves), nor that a saved state is one between   *)
(* two blocks: that is Ledger's promise, for blocks in order.              *)
(***************************************************************************)
EXTENDS Sequences

CONSTANTS
    Block,
    NoBlock,        \* the tip before the first block
    Thread,         \* who may flush
    TxsOf(_)        \* the transactions of a block

VARIABLES
    tip,        \* the block whose transactions were begun last
    todo,       \* its transactions still to apply
    utxo,       \* the unspent outputs
    spent,      \* the outputs spent since the cache was cleared
    saved,      \* the tip and the outputs a restart begins with
    flushing    \* the threads that have saved and not yet cleared the cache

vars == <<tip, todo, utxo, spent, saved, flushing>>

Init ==
    /\ tip = NoBlock
    /\ todo = <<>>
    /\ utxo = {}
    /\ spent = {}
    /\ saved = [tip |-> NoBlock, utxo |-> {}]
    /\ flushing = {}

Extend(b) ==
    /\ todo = <<>>
    /\ tip' = b
    /\ todo' = TxsOf(b)
    /\ UNCHANGED <<utxo, spent, saved, flushing>>

\* An output spent since the cache was cleared does not come back, even if a
\* transaction creates it again.
Apply ==
    /\ todo # <<>>
    /\ Head(todo).ins \subseteq utxo
    /\ spent' = spent \cup Head(todo).ins
    /\ utxo' = (utxo \ Head(todo).ins) \cup (Head(todo).outs \ spent')
    /\ todo' = Tail(todo)
    /\ UNCHANGED <<tip, saved, flushing>>

Save(t) ==
    /\ t \notin flushing
    /\ flushing' = flushing \cup {t}
    /\ saved' = [tip |-> tip, utxo |-> utxo]
    /\ UNCHANGED <<tip, todo, utxo, spent>>

Forget(t) ==
    /\ t \in flushing
    /\ flushing' = flushing \ {t}
    /\ utxo' = saved.utxo
    /\ spent' = {}
    /\ UNCHANGED <<tip, todo, saved>>

Recover ==
    /\ tip' = saved.tip
    /\ utxo' = saved.utxo
    /\ todo' = <<>>
    /\ spent' = {}
    /\ flushing' = {}
    /\ UNCHANGED saved

Next ==
    \/ \E b \in Block : Extend(b)
    \/ Apply
    \/ \E t \in Thread : Save(t) \/ Forget(t)
    \/ Recover

Spec == Init /\ [][Next]_vars
=============================================================================
