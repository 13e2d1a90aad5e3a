------------------------------- MODULE MCFetch -------------------------------
(***************************************************************************)
(* Small answers: a genesis block and two more, with a coinbase, a         *)
(* transaction, a text, and texts that bring separators along.             *)
(***************************************************************************)
EXTENDS Fetch, TLC

CONSTANTS word, addr, key, sig, tag

MCTokens == {word, addr, key, sig, tag, Bar, Comma, EndMark} \cup 0 .. 1

MCLine == Seq(MCTokens)

Tx(receiver) ==
    [type |-> tag, sender |-> addr, receiver |-> receiver, amount |-> 1, nonce |-> 0,
     timestamp |-> 0, pubKey |-> key, signature |-> sig]

Receivers == { << word >>, << word, Comma, word >>, << word, Bar, word >>, << Bar, 1 >>,
               << 1, Bar, 1, Bar, 1 >> }

Text == << word >>
CoinbaseLine == << tag, Bar, addr, Bar, 1 >>

HeaderAt(i, txs) == [height |-> i - 1, stamp |-> 0, difficulty |-> 1, zeros |-> 1, txs |-> txs]

ChainOf(txss) ==
    [i \in DOMAIN txss |-> HeaderAt(i, txss[i]) @@
        [prev |-> [j \in 1 .. i - 1 |-> HeaderOf(HeaderAt(j, txss[j]))]]]

MCAnswers ==
    { ChainOf(<< << Text >>, << CoinbaseLine, TxToLine(Tx(r)) >>, << Text >> >>) : r \in Receivers }
    \cup { ChainOf(<< << Text >>, << << word, Comma >> >> >>), ChainOf(<< << Text >> >>),
           ChainOf(<< << Text >>, << >> >>) }

MCTransfers == { Tx(r) : r \in Receivers }
==============================================================================
