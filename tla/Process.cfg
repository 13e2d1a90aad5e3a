SPECIFICATION FairSpec
CONSTANTS
    n1 = n1
    n2 = n2
    Node = {n1, n2}
    P2PPort <- MCP2PPort
    Nobody = Nobody
    Mute = Mute
    NoFile = NoFile
    Empty = Empty
    MaxKeys <- MCMaxKeys
INVARIANTS ProcessTypeOK ShownIsKept ListeningIsServed
PROPERTIES KeyIsNeverLost CallReturns ExitReturns
