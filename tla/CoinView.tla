------------------------------ MODULE CoinView ------------------------------
(***************************************************************************)
(* The coin cache (storage/CoinView.cpp) over the chainstate database      *)
(* (storage/CoinDB.cpp), as operators on two values:                       *)
(*                                                                         *)
(*   view  the cache, CoinsData of data/Coin.hpp: the best block, its      *)
(*         height, the map addedCoins and the set removedCoins;            *)
(*   db    the database: the stored coins and DB_BEST_BLOCK.               *)
(*                                                                         *)
(* A coin is the height of the block that created it.  Values, scripts and *)
(* the coinbase flag are abstracted away: every stored output has a value  *)
(* above zero, and NoCoin is the Coin of value zero that fetchCoin caches  *)
(* for an out point the database does not hold.                            *)
(***************************************************************************)
EXTENDS BlockTree

CONSTANTS
    Out         \* the transaction out points

NoCoin == -1
Coin == Nat \cup {NoCoin}

\* f maps some of the out points to S, as a std::unordered_map does.
IsOutMap(f, S) == DOMAIN f \subseteq Out /\ f \in [DOMAIN f -> S]

CoinEntry == [coin : Coin, dirty : BOOLEAN]

IsView(v) ==
    /\ v \in [best : Block \cup {NoBlock}, height : Nat,
             added : {v.added}, removed : SUBSET Out]
    /\ IsOutMap(v.added, CoinEntry)

IsCoinDB(d) ==
    /\ d \in [best : Block \cup {NoBlock}, coins : {d.coins}]
    /\ IsOutMap(d.coins, Nat)

\* A transaction spends the out points in ins and creates those in outs; the
\* coinbase spends none.
Transaction == [ins : SUBSET Out, outs : SUBSET Out]

EmptyMap == [o \in {} |-> 0]
-----------------------------------------------------------------------------
(* CoinView::fetchCoin and hasCoin *)

\* The coin fetchCoin answers with: nothing for a removed coin, else the cached
\* entry, else what the database holds.
Lookup(view, db, o) ==
    IF o \in view.removed THEN NoCoin
    ELSE IF o \in DOMAIN view.added THEN view.added[o].coin
    ELSE IF o \in DOMAIN db.coins THEN db.coins[o]
    ELSE NoCoin

HasCoin(view, db, o) == Lookup(view, db, o) # NoCoin

\* The coins that exist for a reader of the view.
Coins(view, db) == {o \in Out : HasCoin(view, db, o)}

\* fetchCoin leaves a clean entry behind for every out point it had to look
\* for in the database, found or not.
Cached(view, db, outs) ==
    LET missed == (outs \ view.removed) \ DOMAIN view.added
    IN  [view EXCEPT !.added =
            [o \in DOMAIN view.added \cup missed |->
                IF o \in missed
                THEN [coin |-> Lookup(view, db, o), dirty |-> FALSE]
                ELSE view.added[o]]]

\* Faulty variant: the best height, which is not saved, is trusted after a load.
FetchAssertsLoaded(view, db, outs) ==
    \A o \in (outs \ view.removed) \ DOMAIN view.added :
        o \in DOMAIN db.coins => db.coins[o] <= view.height

\* The height fetchCoin asserts of a coin it reads from the database.
FetchAsserts(view, db, outs) ==
    \A o \in (outs \ view.removed) \ DOMAIN view.added :
        o \in DOMAIN db.coins => db.coins[o] <= view.height \/ view.height = 0
-----------------------------------------------------------------------------
(* CoinView::transfer: spend the inputs, add the outputs *)

\* The assertion a transfer fails, if any: the coin's height as fetchCoin reads
\* it, the coin's existence, the height addCoin is given.
TransferError(view, db, tx, height) ==
    IF ~ FetchAsserts(view, db, tx.ins) THEN "CoinView:118"
    ELSE IF \E o \in tx.ins : ~ HasCoin(view, db, o) THEN "CoinView:79"
    ELSE IF tx.outs # {} /\ height > view.height THEN "CoinView:145"
    ELSE "none"

\* removeCoin erases the cached entry and marks the coin removed; addCoin
\* stores a dirty entry and leaves the removed set alone.
Transfer(view, tx, height) ==
    [view EXCEPT
        !.removed = @ \cup tx.ins,
        !.added = [o \in (DOMAIN view.added \ tx.ins) \cup tx.outs |->
                    IF o \in tx.outs
                    THEN [coin |-> height, dirty |-> TRUE]
                    ELSE view.added[o]]]
-----------------------------------------------------------------------------
(* CoinView::flush and CoinDB::writeCoins *)

FlushAsserts(view) ==
    \A o \in DOMAIN view.added : view.added[o].coin <= view.height + 1

\* Faulty variant: the removed coins stay in the database.
WriteCoinsKept(view, db) ==
    LET fresh == {o \in DOMAIN view.added :
                    view.added[o].dirty /\ view.added[o].coin # NoCoin}
    IN  [best |-> view.best,
         coins |-> [o \in DOMAIN db.coins \cup fresh |->
                        IF o \in fresh THEN view.added[o].coin
                        ELSE db.coins[o]]]

\* Faulty variant: the batch erases first, so a coin that came back is put.
WriteCoinsErasedFirst(view, db) ==
    LET fresh == {o \in DOMAIN view.added :
                    view.added[o].dirty /\ view.added[o].coin # NoCoin}
    IN  [best |-> view.best,
         coins |-> [o \in (DOMAIN db.coins \ view.removed) \cup fresh |->
                        IF o \in fresh THEN view.added[o].coin
                        ELSE db.coins[o]]]

\* One batch: the dirty coins put, the removed ones erased, the best block set.
WriteCoins(view, db) ==
    LET fresh == {o \in DOMAIN view.added :
                    view.added[o].dirty /\ view.added[o].coin # NoCoin}
    IN  [best |-> view.best,
         coins |-> [o \in (DOMAIN db.coins \cup fresh) \ view.removed |->
                        IF o \in fresh THEN view.added[o].coin
                        ELSE db.coins[o]]]

\* Faulty variant: the best block goes with the coins.
ClearedWhole(view) == [best |-> NoBlock, height |-> 0,
                       added |-> EmptyMap, removed |-> {}]

Cleared(view) == [view EXCEPT !.added = EmptyMap, !.removed = {}]

\* Faulty variant: the height before the first block is -1.
LoadViewBelow(db) == [best |-> db.best, height |-> -1,
                      added |-> EmptyMap, removed |-> {}]

\* CoinDB::loadAll reads the best block and nothing of its height.
LoadView(db) == [best |-> db.best, height |-> 0,
                 added |-> EmptyMap, removed |-> {}]

LoadAsserts(db) ==
    db.best = NoBlock => \A o \in DOMAIN db.coins : db.coins[o] <= 0
=============================================================================
