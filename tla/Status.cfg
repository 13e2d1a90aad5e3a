SPECIFICATION Spec
CONSTANTS
    w1 = w1
    w2 = w2
    sh = sh
    Line = {"genesis", "mined"}
    Stamp = {"here", "there"}
    Clock = {"here"}
    HexDigits = 1
    HalfRange = 4
    Client <- MCClient
    NoBlock = NoBlock
    InitialDifficulty = 1
    Difficulties = {1, 7}
    MaxHeight = 2
    Worker = {w1, w2}
    Shell = sh
    GenesisLine = "genesis"
    MinedLine = "mined"
    Offered <- PeerChain
    MaxHashes = 1
CHECK_DEADLOCK FALSE
SYMMETRY Workers
INVARIANTS StatusTypeOK HeightShownWasReached QuietWhenStopped
