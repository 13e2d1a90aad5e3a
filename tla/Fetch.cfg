SPECIFICATION FairSpec
CONSTANTS
    word = word
    addr = addr
    key = key
    sig = sig
    tag = tag
    Bar = Bar
    Comma = Comma
    Newline = Newline
    EndMark = EndMark
    Throws = Throws
    Line <- MCLine
    Tokens <- MCTokens
    Stamp = {0}
    HexDigits = 1
    HalfRange = 1
    Answers <- MCAnswers
    Transfers <- MCTransfers
    ChunkSize = 64
CHECK_DEADLOCK FALSE
INVARIANTS FetchTypeOK ReadsBackWhenClean LinkedIsSent TxIntactOrRefused
PROPERTIES FetchReturns ImplementsDelivery
