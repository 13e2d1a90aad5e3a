-------------------------------- MODULE Wire --------------------------------
(***************************************************************************)
(* The lines blocks and transactions travel as (blockchain/block.hpp,      *)
(* wallet/transaction.hpp).  A text is a sequence of tokens: separators,   *)
(* words and values that contain no separator.  Neither format escapes a   *)
(* separator that a text brings along.                                     *)
(***************************************************************************)
EXTENDS Block, FiniteSets, SequencesExt

CONSTANTS
    Bar, Comma, Newline,  \* '|', ',' and '\n'
    EndMark,              \* the line that ends an answer to GET_CHAIN
    Throws,               \* an exception of std::stoull
    Tokens                \* what texts are made of; no text has a line break

\* A word or a number, which holds no separator.
Word == Tokens \ {Bar, Comma}
Number == Word \cap Nat

\* Transactions as createSigned and createUsernameRegistration make them: the
\* receiver, or the user name, is any text.
TxSet ==
    [type : Word, sender : Word, receiver : Seq(Tokens), amount : Number, nonce : Number,
     timestamp : Number, pubKey : Word, signature : Word]

\* Texts may bring separators along, and are read up to the end of a line.
ASSUME WireAssumption ==
    /\ Line = Seq(Tokens)
    /\ {Bar, Comma} \subseteq Tokens /\ Bar # Comma
    /\ Newline \notin Tokens /\ Newline # EndMark
    /\ \A mark \in {Bar, Comma, Newline, EndMark} :
         mark \notin Nat /\ mark \notin Stamp /\ mark \notin Digest
    /\ 0 \in Stamp
    /\ Throws \notin TxSet

Join(texts, sep) ==
    FlattenSeq([i \in DOMAIN texts |-> IF i = 1 THEN texts[i] ELSE << sep >> \o texts[i]])

\* Mutated form: what follows the last separator is dropped.
SplitNoRest(text, sep) ==
    LET seps  == { i \in DOMAIN text : text[i] = sep }
        n     == Cardinality(seps)
        at[k \in 0 .. n] ==
            IF k = 0 THEN 0
            ELSE CHOOSE i \in seps : Cardinality({ j \in seps : j <= i }) = k
    IN  [k \in 1 .. n |-> SubSeq(text, at[k - 1] + 1, at[k] - 1)]

\* The loop both fromLine functions share: a separator ends a field, the end of
\* the text ends the last one, empty or not.
Split(text, sep) ==
    LET seps  == { i \in DOMAIN text : text[i] = sep }
        n     == Cardinality(seps)
        at[k \in 0 .. n + 1] ==
            CASE k = 0     -> 0
              [] k = n + 1 -> Len(text) + 1
              [] OTHER     -> CHOOSE i \in seps : Cardinality({ j \in seps : j <= i }) = k
    IN  [k \in 1 .. n + 1 |-> SubSeq(text, at[k - 1] + 1, at[k] - 1)]

------------------------------------------------------------------------------
\* Blocks.  The nonce is its number of leading zeros, as in Block.

ToLine(b) ==
    Join(<< << b.height >>, << b.stamp >>, << b.difficulty >>, << b.zeros >>,
            << b.prev >>, Join(b.txs, Comma) >>, Bar)

\* Block{}: what a line with fewer than five bars is read as.  Its previousHash
\* is "", told apart from the digest of nothing by no one.
EmptyBlock ==
    [height |-> 0, stamp |-> 0, difficulty |-> 1, zeros |-> 0, txs |-> << >>, prev |-> << >>]

\* Mutated form: bars inside the transactions part fields as well.
FromLineSplitsAll(line) ==
    LET f == Split(line, Bar)
    IN  IF Len(f) < 6 THEN EmptyBlock
        ELSE [height |-> f[1][1], stamp |-> f[2][1], difficulty |-> f[3][1],
              zeros |-> f[4][1], prev |-> f[5][1],
              txs |-> IF f[6] = << >> THEN << >> ELSE Split(f[6], Comma)]

\* Mutated form: height and difficulty trade places.
FromLineSwapped(line) ==
    LET f      == Split(line, Bar)
        txBlob == Join(SubSeq(f, 6, Len(f)), Bar)
    IN  IF Len(f) < 6 THEN EmptyBlock
        ELSE [height |-> f[3][1], stamp |-> f[2][1], difficulty |-> f[1][1],
              zeros |-> f[4][1], prev |-> f[5][1],
              txs |-> IF txBlob = << >> THEN << >> ELSE Split(txBlob, Comma)]

\* Only the first five bars part fields.  toLine leaves none of the five empty.
FromLine(line) ==
    LET f      == Split(line, Bar)
        txBlob == Join(SubSeq(f, 6, Len(f)), Bar)
    IN  IF Len(f) < 6 THEN EmptyBlock
        ELSE [height |-> f[1][1], stamp |-> f[2][1], difficulty |-> f[3][1],
              zeros |-> f[4][1], prev |-> f[5][1],
              txs |-> IF txBlob = << >> THEN << >> ELSE Split(txBlob, Comma)]

------------------------------------------------------------------------------
\* Transactions.  `receiver` is what the user typed, up to the next blank; the
\* other fields hold one token.

SigningPayload(tx) ==
    Join(<< << tx.type >>, << tx.sender >>, tx.receiver, << tx.amount >>, << tx.nonce >>,
            << tx.timestamp >> >>, Bar)

TxToLine(tx) == Join(<< SigningPayload(tx), << tx.pubKey >>, << tx.signature >> >>, Bar)

\* verify() with the key and the signature made for `signed`.
VerifiesAs(tx, signed) ==
    /\ tx.pubKey = signed.pubKey /\ tx.signature = signed.signature
    /\ SigningPayload(tx) = SigningPayload(signed)

\* std::stoull takes a number at the beginning and throws if there is none.
IsNumber(field) == field # << >> /\ field[1] \in Nat

EmptyTx ==
    [type |-> "TRANSFER", sender |-> "", receiver |-> << >>, amount |-> 0, nonce |-> 0,
     timestamp |-> 0, pubKey |-> "", signature |-> ""]

\* A field of one token, which the end of a cut line leaves empty.
Only(field) == IF field = << >> THEN "" ELSE field[1]

\* The amount, the nonce or the timestamp does not begin with a number.
TxLineThrows(line) ==
    LET f == Split(line, Bar)
    IN  Len(f) >= 8 /\ ~ (IsNumber(f[4]) /\ IsNumber(f[5]) /\ IsNumber(f[6]))

TxFromLine(line) ==
    LET f == Split(line, Bar)
    IN  IF Len(f) < 8 THEN EmptyTx
        ELSE IF TxLineThrows(line) THEN Throws
        ELSE [type |-> f[1][1], sender |-> f[2][1], receiver |-> f[3], amount |-> f[4][1],
              nonce |-> f[5][1], timestamp |-> f[6][1], pubKey |-> Only(f[7]), signature |-> Only(f[8])]
==============================================================================
