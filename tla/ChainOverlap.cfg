SPECIFICATION Spec
CONSTANTS
    Block <- MCBlock
    NoBlock = "null"
    Out <- MCOut
    Genesis = "g"
    Path <- MCPath
    ChainWork <- MCWork
    Txs <- MCTxs
    Exempt <- MCExempt
    Peer = {"p1"}
    Overlap = TRUE
INVARIANT
    InputsHaveCoins
