----------------------------- MODULE StateStore -----------------------------
(***************************************************************************)
(* megabyte::state::StateStore (state/account.hpp): balances, nonces and   *)
(* usernames, and what the lines of a block do to them.  An address the    *)
(* map does not hold reads as balance 0, nonce 0 and no name, so the map   *)
(* is modelled as total.                                                   *)
(***************************************************************************)
EXTENDS Integers, Sequences, SequencesExt

CONSTANTS
    Address,    \* account addresses
    Name,       \* usernames
    NoAddress,  \* "no such entry" in usernames_
    NoName,     \* the empty string
    Unreadable, \* receivers with a '|' that puts a word where a number is read
    U64Modulus  \* 2^64

ASSUME StateStoreAssumption ==
    /\ NoAddress \notin Address
    /\ NoName \notin Name
    /\ Unreadable \subseteq Address \cup Name
    /\ U64Modulus \in Nat \ {0}

VARIABLE store

U64 == 0 .. (U64Modulus - 1)

Wrap(n) == n % U64Modulus

\* wallet::Transaction.  `signed` is what verify() returns; REGISTER_USERNAME
\* carries the name in `receiver`; any other type is taken for a transfer.
TxType == {"TRANSFER", "REGISTER_USERNAME", "OTHER"}

Transaction == [kind : {"tx"}, type : TxType, sender : Address,
                receiver : Address \cup Name \cup {NoName},
                amount : U64, nonce : U64, signed : BOOLEAN]

WellTyped(tx) ==
    tx.receiver \in IF tx.type = "REGISTER_USERNAME" THEN Name \cup {NoName} ELSE Address

CreateSigned(from, toAddress, amount, nonce) ==
    [kind |-> "tx", type |-> "TRANSFER", sender |-> from, receiver |-> toAddress,
     amount |-> amount, nonce |-> nonce, signed |-> TRUE]

CreateUsernameRegistration(from, username, nonce) ==
    [kind |-> "tx", type |-> "REGISTER_USERNAME", sender |-> from, receiver |-> username,
     amount |-> 0, nonce |-> nonce, signed |-> TRUE]

\* "COINBASE|<address>|<amount>"
CoinbaseLine == [kind : {"coinbase"}, receiver : Address, amount : U64]

\* A line applyBlock skips: no '|' in it, or fewer fields than a transaction.
TextLine == [kind : {"text"}]

\* A line stoull throws on: a coinbase without a number, or a word where a
\* transaction has one.
MalformedLine == [kind : {"malformed"}]

\* What a block may carry.
StoreLine == CoinbaseLine \cup TextLine \cup MalformedLine \cup { tx \in Transaction : WellTyped(tx) }

Coinbase(a, n) == [kind |-> "coinbase", receiver |-> a, amount |-> n]

Text == [kind |-> "text"]

Malformed == [kind |-> "malformed"]

\* Reading the line ends in an exception that nothing in the program catches:
\* fromLine splits an unreadable receiver at its bars, and stoull meets a word.
LineThrows(line) ==
    \/ line.kind = "malformed"
    \/ line.kind = "tx" /\ line.receiver \in Unreadable

BlockThrows(b) == \E i \in DOMAIN b.txs : LineThrows(b.txs[i])

StoreSet == [balance  : [Address -> U64],
             nonce    : [Address -> U64],
             username : [Address -> Name \cup {NoName}],
             owner    : [Name -> Address \cup {NoAddress}]]

EmptyStore == [balance  |-> [a \in Address |-> 0],
               nonce    |-> [a \in Address |-> 0],
               username |-> [a \in Address |-> NoName],
               owner    |-> [n \in Name |-> NoAddress]]

------------------------------------------------------------------------------

ApplyCoinbase(s, line) ==
    [s EXCEPT !.balance[line.receiver] = Wrap(@ + line.amount)]

\* The guard shared by both kinds: "out-of-order/replay, drop".
InOrder(s, tx) == tx.signed /\ tx.nonce = s.nonce[tx.sender]

\* Mutated form: a name that is taken can be registered again.
CanRegisterTaken(s, tx) ==
    /\ InOrder(s, tx)
    /\ tx.type = "REGISTER_USERNAME"
    /\ tx.receiver # NoName

CanRegister(s, tx) ==
    /\ InOrder(s, tx)
    /\ tx.type = "REGISTER_USERNAME"
    /\ tx.receiver # NoName
    /\ s.owner[tx.receiver] = NoAddress

\* Mutated form: the balance is not looked at.
CanTransferUnfunded(s, tx) ==
    /\ InOrder(s, tx)
    /\ tx.type # "REGISTER_USERNAME"

CanTransfer(s, tx) ==
    /\ InOrder(s, tx)
    /\ tx.type # "REGISTER_USERNAME"
    /\ s.balance[tx.sender] >= tx.amount

Register(s, tx) ==
    [s EXCEPT !.username[tx.sender] = tx.receiver,
              !.owner[tx.receiver]  = tx.sender,
              !.nonce[tx.sender]    = Wrap(@ + 1)]

\* Mutated form: the receiver's balance is read before the sender is debited.
TransferStaleRead(s, tx) ==
    [s EXCEPT !.balance = [@ EXCEPT ![tx.sender] = @ - tx.amount,
                                    ![tx.receiver] = s.balance[tx.receiver] + tx.amount],
              !.nonce[tx.sender] = Wrap(@ + 1)]

\* The debit comes first, so a transfer to oneself changes no balance.  It is
\* not wrapped: CanTransfer is what keeps it from going below zero.
Transfer(s, tx) ==
    LET debited == [s.balance EXCEPT ![tx.sender] = @ - tx.amount]
    IN  [s EXCEPT !.balance = [debited EXCEPT ![tx.receiver] = Wrap(@ + tx.amount)],
                  !.nonce[tx.sender] = Wrap(@ + 1)]

ApplyTx(s, tx) ==
    CASE CanRegister(s, tx) -> Register(s, tx)
      [] CanTransfer(s, tx) -> Transfer(s, tx)
      [] OTHER              -> s

\* What a line does when it is read.  One that throws has no effect: who applies
\* a block does not get past it (Node), and "an invalid entry is skipped"
\* (account.hpp:50-51) is what the accounts of a chain with one in it are to be.
ApplyLine(s, line) ==
    CASE line.kind = "coinbase"                    -> ApplyCoinbase(s, line)
      [] line.kind = "tx" /\ ~ LineThrows(line) -> ApplyTx(s, line)
      [] OTHER                                     -> s

\* The store after each of the lines, the first of them applied to s.
AfterLines(s, txs) ==
    LET after[n \in 0 .. Len(txs)] ==
          IF n = 0 THEN s ELSE ApplyLine(after[n - 1], txs[n])
    IN  after

\* applyBlock, under one hold of the store's mutex.
ApplyBlock(s, b) == AfterLines(s, b.txs)[Len(b.txs)]

\* The store after each of the blocks, the first of them applied to no accounts.
AfterBlocks(bs) ==
    LET after[n \in 0 .. Len(bs)] ==
          IF n = 0 THEN EmptyStore ELSE ApplyBlock(after[n - 1], bs[n])
    IN  after

\* What rebuildFromBlocks leaves when nothing interferes with it.
Replay(bs) == AfterBlocks(bs)[Len(bs)]
==============================================================================
