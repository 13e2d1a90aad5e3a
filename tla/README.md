# Verification of the MegaByte prototype node

TLA+ models of the node in `src/src`, TLC runs on small instances, and theorems
checked by TLAPS. Paths below are relative to the repository's `src/` directory.

## The system

One process per node. Its threads share three objects, each behind a mutex of
its own, and a few atomics.

| Component | State | Operations | Who calls it |
|---|---|---|---|
| Block, hash, proof of work (`blockchain/block.hpp`, `crypto/hash.hpp`, `consensus/proof_of_work.hpp`) | none | hash, difficulty test, nonce search, wire line | everyone |
| Chain (`blockchain/chain.hpp`) | `blocks_`, `difficulty_` | build a candidate, append a mined block, add synchronously, set the difficulty, replace by a longer valid chain, validate, dump | workers, shell, peer handlers |
| State store (`state/account.hpp`) | `accounts_`, `usernames_` | apply a block, rebuild from blocks, read balance, nonce, name | workers, shell, mempool |
| Mempool (`mempool/mempool.hpp`) | `pending_`, `pendingSenders_` | add, take, size | shell, peer handlers, workers |
| Miner (`node/miner.hpp`) | `stopFlag_`, worker threads | start, stop, worker loop, hash-rate loop | shell |
| Command shell (`node/main.cpp`) | known peers, the wallet | the commands | the user |
| Peer server, peer client (`p2p/`) | a listening thread, one detached thread per connection | HEIGHT, GET_CHAIN, ANNOUNCE, TX | other nodes |
| Transactions (`wallet/transaction.hpp`) | none | create, sign, verify, wire line | shell, mempool, store |
| Status server, monitor (`node/status.hpp`, `node/monitor.hpp`) | a copy of height, difficulty, thread count, hash rate | snapshot over TCP | a second process |
| Keystore (`wallet/keystore.hpp`) | a key pair in a file | generate, load, save, sign | start-up, shell |
| Sockets shim (`net/sockets_compat.hpp`) | buffers | connect, send, read a line | peer and status code |

How they interact: a worker takes transactions from the mempool, asks the chain
for a candidate, searches a nonce holding no mutex, comes back to append the
block, and then, in another critical section, applies it to the store. The shell
signs a transaction with the nonce the store has at that moment and hands it to
the mempool, which visits the store twice while it decides. `init-node` and
`sync` compare a peer's height with the local one, fetch the peer's blocks,
replace the chain under its mutex, and then clear and refill the store block by
block, taking the store's mutex once for each. Peer handlers add transactions at
any moment. No thread holds two mutexes, except that the mempool's `add` enters
the store's.

Hard behaviours, and the properties that make each component correct:

- *Chain*: candidates go stale, difficulties change while a nonce is searched,
  whole chains are swapped. The chain must stay linked and mined, heights must be
  positions, the list must only ever grow, and the work must be what the
  difficulty says.
- *Store*: blocks are applied outside the chain's mutex and rebuilds are not
  atomic. When nothing is half-way, accounts must be those the chain determines;
  coins must come from coinbases; names must resolve back to who shows them.
- *Mempool*: two structures and a store that moves under `add`. At most one
  pending transaction per sender, an exact set of pending senders, first in first
  out, nothing pending that must wait for something else.
- *Miner*: `stop` joins threads that may be searching in vain or waiting for a
  mutex; it must return. Every block the chain took must be applied once, and a
  transaction that is queued may be lost with a worker's candidate only.
- *Wire and fetching*: lines are joined by separators that nothing escapes, and
  bytes arrive in pieces or not at all. What arrives whole must read back as sent
  unless a text brought a separator along, and no damage may pass for a chain.
- *Synchronising*: peers grow, restart and fail between the question for their
  height and the answer to `GET_CHAIN`. A sync must reach the tallest answer, and
  nodes that keep synchronising must not stay behind.
- *Process*: the wallet file is emptied before it is written, ports are shared by
  rule (`--port` and the next one), handlers are detached and never awaited. The
  address shown must survive a crash, a listener that says so must be served, and
  calls and `exit` must come back.

The full list of hazards, each at its line and with the properties aimed at it,
is under `hazards` in `PROJECT.json`; those without a property say why.

## The modules

| Module | Models |
|---|---|
| `Block` | block, hash and proof-of-work test. A digest is the sequence of headers it commits to; a nonce is the number of leading zeros it gives |
| `Chain` | the chain's operations as actions, one per critical section, and its clients' candidates |
| `ChainSpec` | the chain alone: any client may call anything or give its candidate up, any list may be offered; its properties |
| `ChainProofs` | theorems about `ChainSpec` |
| `StateStore` | what coinbases, transfers and registrations do to the accounts, as operators |
| `Mempool` | `add` in three steps (call, nonce check under the mutex, the rest) and `take` |
| `MempoolSpec` | the mempool beside a store that blocks change and rebuilds empty |
| `MempoolProofs` | theorems about `MempoolSpec` |
| `Node` | `Chain`, `Mempool` and `StateStore` composed with workers, shell and handlers |
| `NodeProofs` | theorems about `Node`, among them that it implements `ChainSpec` and `Ledger`; the lemmas about `StateStore` they rest on |
| `Ledger` | the abstract specification: one chain and the accounts it determines |
| `Status` | `Chain` composed with everything that writes the status: workers, the hash-rate thread, the shell |
| `StatusProofs` | theorems about `Status` |
| `Wire` | `toLine` and `fromLine` of blocks and transactions, as operators on sequences of tokens |
| `Delivery` | the abstract specification of asking a peer for its chain: whole lines in order, then perhaps the beginning of one |
| `Fetch` | `GET_CHAIN` end to end: handler, connection, `BufferedReader`, the loop of `fetchChain` |
| `FetchProofs` | theorems about `Fetch`, `Delivery` and `Wire` |
| `Network` | several nodes, each with a `Chain` of its own, that mine, restart and run `doInitNode` |
| `NetworkProofs` | theorems about `Network` |
| `Process` | `main` from start to return: wallet file, ports, the two servers, calls, crashes |
| `ProcessProofs` | theorems about `Process` |
| `SetInduction` | induction over naturals, values computed step by step, and sums over a function's domain, stated for sets and functions, which the provers can instantiate |
| `MCChain`, `MCMempool`, `MCNode`, `MCStatus`, `MCFetch`, `MCNetwork`, `MCProcess` | small instances for TLC |

`Node` gives every worker a program counter whose values are the points of
`workerLoop` where another thread can get in: `top` (line 56), `take` (59),
`build` (61), `search` (64), `append` (68), `apply` (69) and `off`. The shell's
are `idle`, `joining` (inside `Miner::stop`), `build`, `search`, `append` (inside
`add`), `replace`, `clear` and `rebuild` (inside `init-node`/`sync`). `applied` is
a history variable: the blocks applied since the store was last empty. `Queued`
are the transactions a user or a peer was told are queued, in the pool, in a
worker's hands or in the chain; a candidate at `apply` is left out of it, because
the chain has that block already and a replacement may drop it from there.

Two steps of `Node` end the process, and every thread is at `ended` after them:
`TakeThrows`, when `take` cannot read a line it hands out (`mempool.hpp:46`), and
`RebuildThrows`, when `applyBlock` cannot read an entry (`account.hpp:62` and `93`).
`LineThrows` says of which lines `std::stoull` throws: a coinbase without a number
(`Malformed`), and a transaction whose receiver or name is one of `Unreadable`,
names with a bar in them that put a word where `fromLine` reads a number. After such
a step nothing is said of the accounts, since the next process has none.

`Status` looks at the same threads from another side. It leaves the mempool and
the store out, and cuts `status_.height = chain_.height()` (`miner.hpp:70`,
`main.cpp:109`) into its two steps, `readHeight` under the chain's mutex and
`storeHeight` after it; the difficulty likewise. `ticker` is where the hash-rate
thread is: about to look at the flag, or asleep with a figure still to store.
`peerCount`, which the shell alone writes when it adds a peer, is left out.

`Fetch` keeps the bytes between a handler's `send` and `fetchChain`'s list in the
places they pass through: `wire` (sent, or still to be sent, and not received),
`buf` and `atEof` (`BufferedReader`'s members) and `taken` (the lines that became
blocks). `Recv` is one `recv`, `TakeLine` one return of `readLine` and what the
loop does with it. `Lose` empties the wire at any moment. `Delivery` knows none of
this, only lines; `ImplementsDelivery` says that chunks make no difference.

`Network` gives each node a `Chain` (`INSTANCE Chain` per node) and cuts
`doInitNode` where other nodes get in: between two queries (`asking`), between the
last and `GET_CHAIN`, and before the replacement (`replacing`). `best` is
`bestPeer` and `bestHeight`; `heard` is a history variable, the tallest answer.
What threads do to each other inside a node is `Node`'s subject: here a block is
mined in one step, the difficulty stays, and the store is left out.

`Process` follows `main` with `pc`: `start` (line 87), `check` (90), `save`
(inside `Wallet::save`, between opening the file and writing), `serve` (100),
`idle` (the prompt), `call` (a request to a peer), `closing` and `joining` (inside
`PeerServer::stop`), `closingStatus` (364), `leaving` (367) and `off`. `owner` says
which server has a port; `conns` are the connections to peer servers, waiting in
the kernel or in a handler. `generated` and `unsaved` are history variables. A
crash may come at any point. It stands for a kill, for an exception no thread
catches (in a handler, or the two of `Node`), for `SIGPIPE`, and for what a
detached handler does to objects `main` has destroyed.

Abstractions. SHA-512d is taken to be collision free. Two of its inputs that
serialise alike (`serializeForHash` joins lines with `;` and does not escape) are
told apart. A timestamp is a label. A signature is the answer of `verify()`.
Transaction lines are records in `Node`. A text given to `add` has no `,` there, and
with a `|` it is plain, or reads as a coinbase (what the theorems exclude by
`AddLines \subseteq TextLine`), or throws (`node_entry`); in `Network` it has neither. A name or receiver with bars in it
throws in `Node`, or has no bar: one that shifts the fields so that numbers happen to
stand where numbers are read is `Fetch`'s, which shows that nothing it reads as
passes `verify()` (`TxIntactOrRefused`). Texts with commas are `Fetch`'s too. In `Wire` a
text is a sequence of tokens: the separators, and words and values that contain
none; a connection breaks between two tokens (inside a number is `Node`'s case, see
below). An account the map does not hold
reads as empty, so the map is total. The block a cut connection truncates keeps
its first five fields, loses transactions at the end, may end in a fragment that
reads as text, or, of a coinbase, as one with any shorter beginning of its digits or
one without a number, which throws, and has any number of
zeros: its hash is another one. Ports are those of POSIX: a port has one listener.
On Windows `SO_REUSEADDR` (`sockets_compat.hpp:75-76`) lets a second one bind it.
`Accept` looks at `running_` and accepts in one step; the code looks first
(`peer_server.hpp:48` and `50`) and may take one more connection in between. A
process listens only on its own two ports. `ANNOUNCE` changes nothing and is a
call like any other. The other end of a call is a node: something that accepts and
then stays silent for ever would keep `recvLine`, which has no time limit, and the
shell waiting as long.

## The runs

| Run | Instance | Shows |
|---|---|---|
| `chain` | 2 clients, difficulties 1, 2 and one beyond the sign boundary (2^31 scaled to 4), candidates up to height 2, offered lists of 0 to 4 blocks, among them one with an unmined block, one with a missing, an altered, or a wrongly numbered block | types, heights, validity, work below the boundary, growth |
| `mempool` | 2 submitters, 2 accounts, block limit 1, transfers the sender may not afford, rival registrations, one bad signature, nonces up to 2 | one per sender, first in first out, no future nonce until a rebuild |
| `node_solo` | 1 worker, 1 handler, the shell; a peer with its own genesis and 2 more blocks, received whole or cut anywhere; blocks up to height 2, no nonce found above it; a name that cannot be read; fairness | the node implements `Ledger`; the accounts seen in the middle of a rebuild are those of an earlier height; names; `stop` returns, unless the process ends first |
| `node_duo` | 2 workers, 1 handler, the shell with `add`; no peer | every block the chain took is applied exactly once; coins are rewards, also where a balance wraps; queued transactions are lost only with a late or a stopped candidate |
| `status` | 2 symmetric workers, hash-rate thread, shell with `add`, `difficulty` and `sync`, one peer two blocks ahead, difficulties 1 and one beyond both the hash and the sign boundary | late stores never show a height not reached; after a stop nothing runs, no thread is shown and no hash rate comes back |
| `fetch` | answers of 1 to 3 blocks with a coinbase, a transaction and a text; receivers and texts with and without `,` and `\|`; pieces of any size; a break anywhere | whole answers read back unless a comma is in them; a list whose links hold is the peer's but for its end; a transaction's line reads back, and no part of it throws, exactly if its receiver has no bar, and what passes `verify()` in its place is it; fetching returns; `Delivery` is implemented |
| `network` | 3 nodes, 2 that synchronise, one of them with two peers, 1 that may restart once; heights up to 2 | a sync that got a list as tall as promised reaches the tallest answer it heard, and any other the list it got; nobody stays behind a peer they know |
| `process` | 2 processes, the second one's port is the first one's status port; 2 and 1 keys; a mute client | the address shown is the one in the file; a key in the file stays; listening means served; calls and `exit` return |
| `node_order` | 2 workers, rival registrations | *violated*: blocks applied out of order |
| `node_sync` | 1 worker, `sync` while mining | *violated*: a block's effects lost in a rebuild |
| `node_drop` | 1 worker, a registration | *violated*: a worker told to stop drops what it took |
| `node_entry` | a peer whose chain holds a text like a coinbase without a number | *violated*: the rebuild ends the process |

Bounds. `MaxHeight` bounds the height of blocks whose nonce is found (a search
above it runs for ever, which the code allows); `MaxNonce` bounds the nonces that
apply in `MempoolSpec`; `HexDigits`, `HalfRange` and `U64Modulus` scale 128, 2^31
and 2^64. Two racing clients, one stale candidate each, and lists one shorter,
equal and one longer than the local one are what the chain's checks distinguish.
In the node runs two blocks beyond the genesis are enough for one to be in flight
while the other is applied, for a coinbase to be earned and then spent, and for a
local chain to be replaced after it was mined on. `node_duo`'s workers are
symmetric; the runs that check liveness use no symmetry. `MaxHashes` bounds the hashes
counted between two ticks: one is enough to tell a hash rate from none.
In `node_duo` `U64Modulus` is 4 and a reward 3, so that an account's second
coinbase wraps its balance; in the other node runs it is 16, above every sum
of rewards they reach. `Radix` is 2 there (10 in the code), so that the peer's
coinbases of 4 have three digits, and lose one, two or all of them.
`ChunkSize` (64 in `fetch`, 4096 in the code) is beyond every answer's size, so a
piece may be one token, all of them, or anything between. In `network` height 2
lets a peer be taller than another, and be overtaken while it is asked; one restart
takes a node back to a genesis of its own. In `process` the second key of the first
process is the one it would make if its file had not been kept; with one key left
to the other, its ports come and go.

The `status` run does not check for deadlock, because the shell really may stop:
`add` at a difficulty no hash meets searches for ever (`proof_of_work.hpp:21-29`
has no way out), and with no mining thread nothing else is left to happen. Nor
does `fetch`, whose subject ends: `fetchChain` returns. Nor do `node_solo`,
`node_sync` and `node_entry`, where an exception may end the process.

`SettledStoreIsReplay` holds in `node_solo` and fails in `node_order` and
`node_sync`: the first needs a single worker and no synchronisation while mining
(`SyncWhileMining = FALSE`), and each of the other two lifts one of those limits.
The documentation asks for neither.

Fairness (`Fairness` in `Node`): weak fairness of each worker's own steps, of a
submitter that holds the mempool's mutex, and of the join; strong fairness of
`take`, because a mutex that is released again and again is assumed to be given
to a waiting worker at some point. Nothing is assumed of the nonce search, the
user or peers. The operating system's scheduler justifies the first; the second
is what the mutexes in use give in practice, and the C++ standard does not
promise it.

`Fetch` assumes that the peer's handler and the shell are run, and that what was
sent arrives or the connection breaks: weak fairness of receiving and taking
lines. `Network` assumes that a `doInitNode` under way goes on; whether a call
fails is open, and `Converges` names its own premises (users synchronise again and
again, calls succeed from some time on). `Process` assumes that threads which can
run do, and that the kernel hands connections to `accept` in their order, so that a
node's call is accepted although mute clients keep coming. Crashes, users and mute
clients owe nothing; no fairness is assumed of a handler whose client is silent,
because `recvLine` has no time limit.

## The findings

1. Two workers may apply their blocks to the store in the opposite order of the
   chain (`miner.hpp:68-69`). A name two accounts registered then belongs to the
   later one, on this node only.
2. A block mined between the replacement of the chain and the clearing of the
   store (`main.cpp:146-147`) is missing from the accounts until the next rebuild.
3. A worker that is told to stop (`miner.hpp:64`) drops the transactions it took.
   `main.cpp:289` and `321` tell the user that they "will be mined into a block", and
   `mempool.hpp:38-41` names another loss only, that of a candidate whose tip moved.
   `QueuedLostWithCandidateOnly` is what holds instead: this, the documented loss and
   the replacement of the chain are all.
4. An entry `applyBlock` cannot read ends the process (`account.hpp:93`, and `62`
   through `transaction.hpp:101-103`), although `account.hpp:50-51` says "an invalid
   entry is skipped". The run gets one from a valid chain in which `add` was given
   such a text.

Each of these is the trace of a run. Known from the models, and without a run of
their own, are three more places where the code does not do what it says:

- `meetsDifficulty` casts the difficulty to `int` (`proof_of_work.hpp:15`).
  `difficulty -1` is read as 2^32 - 1 and makes every hash pass, while `block.hpp:20`
  calls the field "leading hex zero digits required". `WorkBelowHalfRange` is what
  holds, up to the boundary and not beyond.
- A name or a receiver with bars in it is signed and queued, and then ends the
  process of the miner that takes it (`mempool.hpp:46`; `TakeThrows`, which
  `node_solo` takes), against the promise of finding 3.
- A text given to `add` that reads as a coinbase is not applied where it is mined
  (`main.cpp:334`), but is wherever the chain is replayed: nodes with one chain show
  different balances. With such a text among `AddLines`, `SettledStoreIsReplay`
  fails; the theorems exclude it.

Two facts met on the way are not in either list, since nothing in the repository
promises otherwise: a text with a comma in it makes the node's chain one that no
peer accepts (`ReadsBackWhenClean`), and a process that dies inside
`Wallet::save` leaves an empty file that every later start reads as the private
key of zero bytes (`ShownIsKept` says only that the address shown stays the same).

## The proofs

`ChainProofs`: for any clients, difficulties, lines and offered lists, and
assuming only `BlockAssumption`, `ChainAssumption` and `ChainSpecAssumption` (the
constants have their types), `Spec` implies always `ChainTypeOK`,
`HeightIsPosition`, `ChainIsValid`, `WorkBelowHalfRange`, and `OnlyGrows`.
`HeightIsPosition` is not inductive: an append compares hashes, never heights. The
inductive invariant `ChainInv` adds `CandidatesFollowTheirParent`: a candidate,
however stale, is one higher than the block its previous hash commits to. When
the hash equals the tip's, the parent is the tip, so the height fits. For a
replaced list heights are checked pairwise, and `HeightsCountUp` turns that into
positions by induction, through `NaturalsInSet` of `SetInduction`.

`MempoolProofs`: for any submitters, transactions and block limit,
`MempoolTypeOK`, `OnePerSender`, `NoFutureWhileSteady` and
`Fifo`. The third needs `HeldNonceNotFromFuture`: what the caller's nonce check
established still bounds the nonce when the transaction is queued, because
applying lines never lowers a nonce below the bound (`ApplyTxNonce`); it is a
theorem of its own. `HolderIsAdding` is a part of the inductive invariant only: it
ties the model's `lockHolder` to the call in progress. Type correctness contains that a transfer's debit, which is
not wrapped in the model, never goes below zero. `Fifo` rests on a lemma about
what `take` removes from the front of a sequence and what is left of it.

`NodeProofs`: for any number of workers and handlers, any payments, texts, names
and transactions from peers, and any chain of the peer's, received whole or cut
anywhere. The assumptions are the constants' types (`NodeAssumption` and those of
the modules it extends), with `Line = StoreLine`: a line is a coinbase, a
transaction or a text, and any string such a line names is an address. The
lemmas and invariants, each resting on the one before:

- What applying a line, a block and a list of blocks does to the accounts, for any
  lines. `NamesAgree` is the invariant of the two maps of the registry: the name an
  account shows is owned by it. `AfterLines` and `AfterBlocks` are functions of the
  number of lines, or of blocks, applied; `Iteration` of `SetInduction` says that
  such a function satisfies its defining equation, and `NaturalsInSet` does the
  inductions. So replaying a list with one more block is applying that block to the
  replay, and a prefix replays the same in both lists.
- `NodeInv`, the chain's own `ChainInv` seen through `ChainView`, an instance of
  `ChainProofs` in which anything may be offered, whose lemmas are cited for the
  chain's part of each step; types of threads and pool; `NamesAgree`; and
  `HandsFull`: a thread about to append has mined its candidate, a worker about to
  apply still has it, a rebuild under way has blocks to go. From it `NodeTypeOK`,
  `NamesResolveBack`, `NamesKeepOwner`, and that `Spec` implies `ChainView!Spec`:
  the node implements the chain, so that every theorem of `ChainProofs` holds in it.
- `HandsAgree`: a candidate carries its client's lines from the build to the
  append. `QueuedLostWithCandidateOnly` needs it, since `lines` is what a worker
  took and `candidate` what the chain gets.
- `QuietInv`, when the user synchronises with mining stopped only
  (`SyncWhileMining = FALSE`): while the shell mines, it has a text of `add` in
  hand; no miner runs during a synchronisation, and what a rebuild has applied and
  has yet to apply is the chain; blocks in flight are in the chain and differ. With
  it `MinedBlocksAppliedOnce` is inductive, for any number of workers, if no text
  given to `add` reads as a coinbase.
- `StoreFollows`, with one worker and plain texts for `add` besides: in a rebuild
  the store is the replay of the part reached, and with a block in flight it is one
  block behind. From it `SettledStoreIsReplay`, `RebuildShowsEarlierHeight`, and `ImplementsLedger` step by step:
  appending is `Extend`, replacing is `Adopt`, anything else is not seen.
- The mempool inside a node: `PoolView` is an instance of `MempoolProofs` with
  every sound transaction and a store that may be emptied at any time. A step of
  the node is a step of that mempool or leaves it alone (`StepOfPool`), so
  `OnePerSender` and `Fifo` hold in a node too. `NoFutureWhileSteady` is not
  carried over: a node's store is never steady for good.

- Coins: `CoinsComeFromRewards` is `SupplyIsRewards` for any number of threads and
  any blocks, with the one hypothesis that addresses are finitely many, without
  which a sum over them means nothing. The sums are the community modules'
  `SumFunction`, a recursion over sets. `SetInduction` proves that the recursion has
  a solution and that the order in which it takes the indices does not matter
  (`SumIsSum`), by induction over the size of a set, and from that what a sum does
  when one term changes (`SumChange`) or is taken out (`SumWithout`). `Paid`, the
  inductive invariant, says that rewards applied and balances differ by multiples
  of 2^64. A credit adds its amount or wraps once (`Credit`), a debit never wraps,
  since the balance covers it (`Debit`), so a transfer keeps the sum even when
  sender and receiver are one account; a line, a block and a step follow
  (`LinePays`, `BlockPays`, `StepOfCoins`). `NoCoinIsLost` draws the conclusion:
  while less than 2^64 has been paid out, nothing wraps and the sums are equal.

The hypotheses on synchronising, on workers and on texts are the ones under which the
runs check these properties,
and `node_order` and `node_sync` show that the first two cannot be dropped (findings
1 and 2), nor can the third (a text that reads as a coinbase): the theorems say that
nothing else is needed.

`StatusProofs`: for any number of workers, any difficulties and any lists offered,
`StatusTypeOK`, `HeightShownWasReached` and `QuietWhenStopped`. The last is not
inductive, since it speaks of an idle shell only: `Quiet` says for every point of
the shell that without mining nothing runs, the ticker neither, and nothing is
shown. `DifficultySeen` bounds what is between reading a difficulty and storing it.

`NetworkProofs`: for any number of nodes, peers and restarts, `NetworkTypeOK` and
`SyncReachesTallest`. The inductive invariant `NetworkInv` says of every node's
list that it is linked, mined and counted from 0, which makes heights lengths; and
in `BestIsHeard` that `bestHeight` is the tallest answer, that a fetch was worth
it, and that whatever a break left of a list starts at height 0. A list
`replaceIfLongerAndValid` refuses is then no longer than the node's own. What a
node reaches is therefore the list it got, and the tallest answer it heard only if
that list is as tall: a peer that restarts between its answer and `GET_CHAIN` sends
a shorter one.

`ProcessProofs`: for any number of processes, any ports and any overlap of them,
`ProcessTypeOK`, `ShownIsKept`, `KeyIsNeverLost` and `ListeningIsServed`, assuming
the constants' types and that no key is one of the marks for no file and an empty
one (`ProcessAssumption`, `FileAssumption`). The inductive invariant `ProcessInv`
has two parts. `WalletFollowsFile` says what `main` knows of its file at each
point: between the two calls of `exists` the file holds what was loaded, or is
still absent and the wallet new; inside `save` it is empty and the wallet a
generated key. `ListenerHeld` says what `listening` stands for until `stop`; no
other process can take the port, because it starts a listener only on a free one
and closes only what it owns (`CloserOwns`).

`FetchProofs`: for any answers, any chunk size and any cut of the bytes,
`ImplementsDelivery`, `FetchTypeOK`, `ReadsBackWhenClean`, `LinkedIsSent` and
`TxIntactOrRefused`.
`WireAssumption` says that a text is any sequence of tokens, separators among them,
without a line break; `FetchAssumption` that a peer's chain has a block and is
linked, which is what `AlwaysValid` and `ChainInvariant` say of it, and that no
block's only text is the empty one (`add` turns an empty text into `(empty)`,
`main.cpp:334`, and `fromLine` reads no text from an empty blob, `block.hpp:84`).
The argument has five parts:

- What a layout is. The lines end to end, the texts joined and the line of a block
  are folds over sequences; `FlattenSteps` and `JoinSteps` give the sequence of
  their prefixes through `Iteration`, and from it `FlattenLayout` and `ToLineLayout`
  say which token stands where.
- `FetchInv`: while nothing is lost, buffer and wire together are the rest of the
  payload after the lines taken (`InStep`); after a loss the buffer is a beginning
  of that rest; lines taken are the lines sent, but for the last, which may be a
  beginning of one (`TakenArePrefixes`). A line break of the buffer is therefore
  the end of the next line sent (`LineEndIsFirst`), so every `recvLine` takes a
  whole line or the last, cut one: the two actions of `Delivery`.
- What `fromLine` makes of a beginning of a line. `SplitLayout` says that the
  separators part a text into fields without one (`CutsAt`), and `FirstBars` that
  the first five of a block's line stand where `toLine` put them, whatever its texts
  bring along. So everything but the texts reads back, or the line has too few
  fields and reads as no block; and under a block that commits to it, the texts
  read back as well, since the hash covers them.
- What `fromLine` makes of a whole line (`WholeLineReads`). A text has one way only
  to be cut at its separators (`CutsAreUnique`), so splitting what was joined gives
  the texts back when none holds the separator (`SplitOfJoin`), and no field ever
  holds one (`FieldsAreClean`): a comma in a text is never read back. Joining what
  was split always gives the text back (`JoinOfSplit`), so bars inside the
  transactions do no harm. `Unbroken` adds to `FetchInv` that the stream does not
  end, nor the loop before the end mark, unless the connection is lost.
- What becomes of a transaction. `PayloadIsLaid` says which token of what is signed
  is which field; only the receiver may hold bars, and it is what stands between
  four tokens and six. So one payload is that of one transaction only
  (`PayloadIsOfOne`), and whatever text is read, if `verify()` accepts the result as
  a transaction a user signed, it is that transaction (`VerifiedIsSigned`): neither
  a shifted field nor a cut changes an amount or a receiver under a signature. A
  whole line is the join of eight texts (`TxLineIsJoin`, `JoinOneMore`); it reads
  back, by `SplitOfJoin`, unless the receiver has a bar, which no field read ever
  has (`WholeTxReads`). Without one, a beginning of the line has the same fields as
  the whole line but for its last (`SplitOfBeginning`), so where it has the eight
  that `fromLine` asks for, the numbers are there (`BeginningReads`): what throws
  comes of bars in a receiver, never of a cut. `Transfers`, the transactions users have signed, may be any
  whose fields other than the receiver hold no separator (`TxSet`): types,
  addresses, keys, signatures and numbers.

Checked by TLC only: liveness (`StopReturns`, `FetchReturns`, `Converges`,
`CallReturns`, `ExitReturns`), which the provers do not handle. Every invariant and
every action property of the passing runs is a theorem.

## Not modelled

- the monitor (`node/monitor.hpp`): it starts a process, asks the status server
  and prints;
- of the sockets shim, address resolution, the 200 ms poll and `initSockets`,
  which does nothing outside Windows; of the keystore, hexadecimal and OpenSSL;
- the six loads of a status snapshot, which are independent atomics and promise
  nothing of each other; `peerCount`;
- printing commands (`chain`, `balance`, `whoami`, `help`, `validate`, ...), which
  change nothing;
- what detached handlers do to destroyed objects: undefined behaviour, covered as
  a crash.
