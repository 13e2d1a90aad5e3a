SPECIFICATION Spec
CONSTANTS
    Me = Me
    Ann = Ann
    Far = Far
    Nick = Nick
    Odd = Odd
    w1 = w1
    w2 = w2
    h1 = h1
    sh = sh
    Line <- MCLine
    Stamp = {"here", "there"}
    Clock = {"here"}
    HexDigits = 1
    HalfRange = 4
    NoBlock = NoBlock
    InitialDifficulty = 1
    Difficulties = {1}
    MaxHeight = 2
    Address = {Me, Ann, Far}
    Name = {Nick}
    NoAddress = NoAddress
    NoName = NoName
    Unreadable = {}
    U64Modulus = 4
    NoTx = NoTx
    NoThread = NoThread
    MaxTxPerBlock = 2
    Worker = {w1, w2}
    Handler = {h1}
    Shell = sh
    Client <- MCClient
    Submitter <- MCSubmitter
    Own = Me
    Reward = 3
    Payments <- PayAnyone
    Usernames = {}
    PeerTxs <- AnnClaims
    AddLines <- AddText
    RemoteChain <- NoPeer
    Radix = 2
    SyncWhileMining = FALSE
SYMMETRY Workers
INVARIANTS MinedBlocksAppliedOnce SupplyIsRewards
PROPERTY QueuedLostWithCandidateOnly
