-------------------------------- MODULE Fetch --------------------------------
(***************************************************************************)
(* GET_CHAIN end to end: the handler that sends its chain                  *)
(* (p2p/peer_server.hpp), a connection that delivers bytes in pieces of    *)
(* any size or is lost, net::BufferedReader (net/sockets_compat.hpp), and  *)
(* the loop of fetchChain (p2p/peer_client.hpp).                           *)
(***************************************************************************)
EXTENDS Wire

CONSTANTS
    Answers,   \* chains a peer may have when it is asked
    Transfers, \* transactions users have signed
    ChunkSize  \* bound: bytes one recv may return (4096 in the code)

\* Blocks are mined on the last one's hash, or were accepted for linking so; an
\* empty text given to `add` becomes "(empty)" (main.cpp:334), and an empty blob
\* is read as no text at all (block.hpp:84).
ASSUME FetchAssumption ==
    /\ Answers \subseteq Seq(BlockSet) \ {<< >>}
    /\ \A bs \in Answers : \A i \in 2 .. Len(bs) : bs[i].prev = ComputeHash(bs[i - 1])
    /\ \A bs \in Answers : \A i \in DOMAIN bs : bs[i].txs # << << >> >>
    /\ Transfers \subseteq TxSet
    /\ ChunkSize \in Nat \ {0}

VARIABLES
    answer,    \* history: the peer's blocks when it was asked
    lines,     \* what dumpLines returned to the handler
    wire,      \* what of it is still to be received
    lost,      \* the connection broke
    buf,       \* BufferedReader::buf_
    atEof,     \* BufferedReader::atEof_
    taken,     \* the lines that went into fetchChain's local `blocks`
    reading    \* fetchChain has not returned

\* fetchChain's local `blocks`
fetched == [i \in DOMAIN taken |-> FromLine(taken[i])]

readerVars == << buf, atEof >>
vars == << answer, lines, wire, lost, readerVars, taken, reading >>

\* One hold of the chain's mutex.
DumpLines(bs) == [i \in DOMAIN bs |-> ToLine(bs[i])]

\* The handler's answer to GET_CHAIN.
Payload == FlattenSeq([i \in DOMAIN lines |-> Append(lines[i], Newline)]) \o << EndMark, Newline >>

Init ==
    /\ answer \in Answers /\ lines = DumpLines(answer)
    /\ wire = Payload
    /\ lost = FALSE
    /\ buf = << >> /\ atEof = FALSE
    /\ taken = << >> /\ reading = TRUE

------------------------------------------------------------------------------
\* connectTo fails: no block, and no other sign of it.
NoConnection ==
    /\ reading /\ wire = Payload
    /\ reading' = FALSE
    /\ UNCHANGED << answer, lines, wire, lost, readerVars, taken >>

\* The peer's process ends, its send fails or the network does.
Lose ==
    /\ reading /\ wire # << >>
    /\ lost' = TRUE /\ wire' = << >>
    /\ UNCHANGED << answer, lines, readerVars, taken, reading >>

\* Where the first line in buf_ ends, if one does.
LineEnds == { i \in DOMAIN buf : buf[i] = Newline }
HasLine == LineEnds # {}
LineEnd == CHOOSE i \in LineEnds : \A j \in LineEnds : i <= j

\* recv returns some of the bytes sendAll has sent so far.
Recv ==
    /\ reading /\ ~ HasLine /\ ~ atEof
    /\ \E n \in 1 .. ChunkSize :
         /\ n <= Len(wire)
         /\ buf' = buf \o SubSeq(wire, 1, n)
         /\ wire' = SubSeq(wire, n + 1, Len(wire))
    /\ UNCHANGED << answer, lines, lost, atEof, taken, reading >>

\* Mutated form: recv's 0 is not taken for the end.
RecvEndIgnored ==
    /\ reading /\ ~ HasLine /\ ~ atEof /\ wire = << >>
    /\ UNCHANGED vars

\* recv returns 0, the peer having closed, or -1.
RecvEnd ==
    /\ reading /\ ~ HasLine /\ ~ atEof /\ wire = << >>
    /\ atEof' = TRUE
    /\ UNCHANGED << answer, lines, wire, lost, buf, taken, reading >>

\* Mutated form: what a chunk holds beyond its first line is thrown away.
RestKeptNot == << >>

\* What is left in buf_ once readLine has returned.
RestKept == IF HasLine THEN SubSeq(buf, LineEnd + 1, Len(buf))
            ELSE << >>

NextLine == IF HasLine THEN SubSeq(buf, 1, LineEnd - 1)
            ELSE buf

\* readLine returns; the loop of fetchChain ends or takes the line for a block.
\* At the end of the stream an empty line and no line are the same to it.
TakeLine ==
    /\ reading /\ (HasLine \/ atEof)
    /\ buf' = RestKept
    /\ IF NextLine = << EndMark >> \/ (NextLine = << >> /\ atEof /\ RestKept = << >>)
       THEN reading' = FALSE /\ UNCHANGED taken
       ELSE taken' = Append(taken, NextLine) /\ UNCHANGED reading
    /\ UNCHANGED << answer, lines, wire, lost, atEof >>

Next == NoConnection \/ Lose \/ Recv \/ RecvEnd \/ TakeLine

Spec == Init /\ [][Next]_vars

\* The peer's handler and the shell are run, and what is sent arrives or the
\* connection is lost.
FairSpec == Spec /\ WF_vars(Recv \/ RecvEnd \/ TakeLine)

------------------------------------------------------------------------------

\* Type invariant.
FetchTypeOK ==
    /\ \E n \in 0 .. Len(Payload) : wire = SubSeq(Payload, n + 1, Len(Payload))
    /\ lost \in BOOLEAN /\ atEof \in BOOLEAN /\ reading \in BOOLEAN
    /\ fetched \in Seq(BlockSet)

\* No text with a comma in it: `add` takes any text, and `send` and
\* `register-username` any word.
Clean(b) == \A i \in DOMAIN b.txs : Comma \notin ToSet(b.txs[i])

TextsOf(bs) == UNION { ToSet(b.txs) : b \in ToSet(bs) }

\* A transaction's line in a chain reads back as the transaction if and only if its
\* receiver has no bar in it, and then no part of it that a lost connection leaves
\* makes stoull throw, in a handler or in the miner that takes the line
\* (transaction.hpp:88-107, mempool.hpp:46).  A part of any line that does not
\* throw, and any text the loop of fetchChain read in its place, pass verify() as
\* this transaction only if they are it (transaction.hpp:31).
TxIntactOrRefused ==
    \A tx \in Transfers : TxToLine(tx) \in TextsOf(answer) =>
        /\ TxFromLine(TxToLine(tx)) = tx <=> Bar \notin ToSet(tx.receiver)
        /\ Bar \notin ToSet(tx.receiver) =>
             \A line \in Prefixes(TxToLine(tx)) : ~ TxLineThrows(line)
        /\ \A line \in Prefixes(TxToLine(tx)) \cup TextsOf(fetched) :
             ~ TxLineThrows(line) /\ VerifiesAs(TxFromLine(line), tx) => TxFromLine(line) = tx

\* An answer that arrives whole reads back as the peer's chain if and only if no
\* text in it has a comma (block.hpp:54 and 85), however the bytes were cut into
\* sends and receives.
ReadsBackWhenClean ==
    ~ reading /\ ~ lost /\ wire = << >> =>
        (fetched = answer <=> \A i \in DOMAIN answer : Clean(answer[i]))

\* What replaceIfLongerAndValid asks of links and heights.
Linked(s) ==
    /\ Len(s) > 1 /\ s[1].height = 0
    /\ \A i \in 2 .. Len(s) :
         s[i].height = s[i - 1].height + 1 /\ s[i].prev = ComputeHash(s[i - 1])

\* Whatever separators and lost connections did to it, a list whose links hold
\* is the peer's but for blocks missing at its end and for the transactions of
\* its last block: the hashes catch every other change (block.hpp:25-27).
LinkedIsSent ==
    ~ reading /\ Linked(fetched) =>
        /\ Len(fetched) <= Len(answer)
        /\ \A i \in DOMAIN fetched :
             IF i < Len(fetched) THEN fetched[i] = answer[i]
             ELSE [fetched[i] EXCEPT !.txs = << >>] = [answer[i] EXCEPT !.txs = << >>]

\* fetchChain returns if the peer's handler is run or its connection breaks;
\* recv itself has no time limit (sockets_compat.hpp:145).
FetchReturns == <>(~ reading)

\* Chunks, buffer and end of file implement the delivery of lines one by one.
Delivered ==
    INSTANCE Delivery WITH
        received <- taken,
        stage <- IF ~ reading THEN "done"
                 ELSE IF atEof /\ buf = << >> THEN "broken" ELSE "reading"

ImplementsDelivery == Delivered!Spec
==============================================================================
