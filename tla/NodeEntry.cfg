SPECIFICATION Spec
CONSTANTS
    Me = Me
    Ann = Ann
    Far = Far
    Nick = Nick
    Odd = Odd
    w1 = w1
    w2 = w2
    h1 = h1
    sh = sh
    Line <- MCLine
    Stamp = {"here", "there"}
    Clock = {"here"}
    HexDigits = 1
    HalfRange = 4
    NoBlock = NoBlock
    InitialDifficulty = 1
    Difficulties = {1}
    MaxHeight = 2
    Address = {Me, Ann, Far}
    Name = {Nick}
    NoAddress = NoAddress
    NoName = NoName
    Unreadable = {}
    U64Modulus = 16
    NoTx = NoTx
    NoThread = NoThread
    MaxTxPerBlock = 2
    Worker = {w1}
    Handler = {h1}
    Shell = sh
    Client <- MCClient
    Submitter <- MCSubmitter
    Own = Me
    Reward = 1
    Payments = {}
    Usernames = {}
    PeerTxs = {}
    AddLines = {}
    RemoteChain <- PeerAdds
    Radix = 2
    SyncWhileMining = FALSE
CHECK_DEADLOCK FALSE
PROPERTY EntriesAreSkipped
