---------------------------- MODULE ChainLedger ----------------------------
(***************************************************************************)
(* The storage engine implements two ledgers: CoinLedger in every case and *)
(* Ledger when blocks come in order.  The unspent outputs are the coins a  *)
(* reader of CoinView sees over the database, the saved ones are those of  *)
(* the chainstate database.                                                *)
(*                                                                         *)
(* Ledger leaves out the coins of the genesis block: the engine adds them  *)
(* in its first run only if that run lives long enough to connect the      *)
(* genesis block and flush, and never afterwards.                          *)
(***************************************************************************)
EXTENDS ChainStorage

Spendable(S) == S \ Outs(Genesis)
LedgerTip(b) == IF b = NoBlock THEN Genesis ELSE b

L == INSTANCE Ledger WITH
    ParentOf <- Parent,
    TxsOf <- LAMBDA b : Txs[b],
    tip <- LedgerTip(view.best),
    todo <- IF diskPc = "transfer" /\ diskBlock # Genesis
            THEN SubSeq(Txs[diskBlock], diskTx, Len(Txs[diskBlock]))
            ELSE <<>>,
    utxo <- Spendable(Coins(view, coinDB)),
    saved <- [tip |-> LedgerTip(coinDB.best),
              utxo |-> Spendable(DOMAIN coinDB.coins)]

C == INSTANCE CoinLedger WITH
    Thread <- {"main", "disk"},
    TxsOf <- LAMBDA b : Txs[b],
    tip <- view.best,
    todo <- IF diskPc = "transfer"
            THEN SubSeq(Txs[diskBlock], diskTx, Len(Txs[diskBlock]))
            ELSE <<>>,
    utxo <- Coins(view, coinDB),
    spent <- view.removed,
    saved <- [tip |-> coinDB.best, utxo |-> DOMAIN coinDB.coins],
    flushing <- {t \in {"main", "disk"} :
                    (IF t = "main" THEN mainPc ELSE diskPc) = "clear"}

\* Whatever branches the blocks are on, whatever nodes they come from and
\* wherever the other thread's flush falls, a reader of the coins sees those
\* that the transactions leave, applied once each and in order; the database is
\* given what a reader sees (although CoinDB.cpp:93-105 puts the dirty coins
\* and erases the removed ones without a look at each other); and a clear
\* (CoinView.cpp:140) loses at most what came after the last writeCoins.
ImplementsCoinLedger == C!Spec

\* Every run of the engine is a run of the ledger: no crash, flush or cached
\* null coin (CoinView.cpp:109) makes a reader or a restart see coins that are
\* not those of a whole chain.
ImplementsLedger == L!Spec
=============================================================================
