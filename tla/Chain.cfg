SPECIFICATION Spec
CONSTANTS
    Line = {"genesis", "coinbase"}
    Stamp = {"now"}
    Clock = {"now"}
    HexDigits = 2
    HalfRange = 4
    Client = {m1, m2}
    NoBlock = NoBlock
    InitialDifficulty = 1
    Difficulties = {1, 2, 7}
    MaxHeight = 2
    GenesisLine = "genesis"
    TxLines <- MCTxLines
    Offered <- MCOffered

INVARIANTS ChainTypeOK HeightIsPosition ChainIsValid WorkBelowHalfRange
PROPERTY OnlyGrows
