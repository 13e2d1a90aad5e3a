SPECIFICATION Spec
CONSTANTS
    Alice = Alice
    Bob = Bob
    Nick = Nick
    Address = {Alice, Bob}
    Name = {Nick}
    NoAddress = NoAddress
    NoName = NoName
    Unreadable = {}
    U64Modulus = 8
    Submitter = {s1, s2}
    NoTx = NoTx
    NoThread = NoThread
    MaxTxPerBlock = 1
    Txs <- MCTxs
    MaxNonce = 2
INVARIANTS MempoolTypeOK OnePerSender NoFutureWhileSteady HeldNonceNotFromFuture
PROPERTY Fifo
