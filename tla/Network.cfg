SPECIFICATION FairSpec
CONSTANTS
    a = a
    b = b
    c = c
    Nodes = {a, b, c}
    Syncing = {a, b}
    Restarting = {c}
    NoNode = NoNode
    PeersOf <- MCPeersOf
    Text = "text"
    Line = {"text"}
    Stamp <- MCStamp
    HexDigits = 1
    HalfRange = 4
    Difficulty = 1
    MaxHeight = 2
    MaxRestarts = 1
INVARIANT NetworkTypeOK
PROPERTIES SyncReachesTallest Converges
