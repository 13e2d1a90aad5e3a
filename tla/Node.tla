-------------------------------- MODULE Node --------------------------------
(***************************************************************************)
(* One node: the chain, the state store and the mempool, and the threads   *)
(* that share them.  Mining workers (node/miner.hpp), the command shell    *)
(* (node/main.cpp) and the handlers of peer connections                    *)
(* (p2p/peer_server.hpp) each hold at most one component's mutex at a      *)
(* time, the mempool's over the store's excepted; every action below is    *)
(* what one thread does between two points where another can get in.       *)
(***************************************************************************)
EXTENDS Chain, Mempool

CONSTANTS
    Worker,           \* mining threads
    Handler,          \* detached threads serving peer connections
    Shell,            \* the thread that reads commands
    Own,              \* the wallet's address, paid by its coinbases
    Reward,           \* kCoinbaseReward (50 in the code)
    Payments,         \* payments the user may `send`
    Usernames,        \* names the user may `register-username`
    PeerTxs,          \* transactions arriving as "TX <line>"
    AddLines,         \* texts given to the `add` command
    RemoteChain,      \* the peer's chain at its longest
    Radix,            \* base that amounts are written in (10 in the code)
    SyncWhileMining   \* FALSE: the user synchronises only with mining stopped

ASSUME NodeAssumption ==
    /\ Client = Worker \cup {Shell} /\ Shell \notin Worker
    /\ Submitter = Handler \cup {Shell} /\ Shell \notin Handler
    /\ Own \in Address /\ Reward \in U64
    /\ Payments \subseteq [receiver : Address, amount : U64 \ {0}]
    /\ Usernames \subseteq Name
    /\ PeerTxs \subseteq Transaction
    /\ \A tx \in PeerTxs : WellTyped(tx) /\ ~ LineThrows(tx)
    /\ Line = StoreLine /\ AddLines \subseteq Line
    /\ RemoteChain \in Seq(BlockSet)
    /\ Radix \in Nat \ {0, 1}
    /\ SyncWhileMining \in BOOLEAN

VARIABLES
    pc,        \* where each worker, and the shell, is
    lines,     \* a client's local txLines
    stopFlag,  \* Miner::stopFlag_
    threads,   \* workers the shell starts once the old ones are joined
    fetched,   \* doInitNode's local `blocks`
    applied    \* history: blocks applied to the store since it was last empty

shellVars == << stopFlag, threads, fetched >>

nodeVars == << pc, lines, shellVars, applied >>

vars == << chainVars, mempoolVars, store, nodeVars >>

Init ==
    /\ ChainInit(Text)
    /\ MempoolInit
    /\ store = EmptyStore
    /\ pc = [t \in Client |-> IF t = Shell THEN "idle" ELSE "off"]
    /\ lines = [t \in Client |-> << >>]
    /\ stopFlag = TRUE
    /\ threads = {}
    /\ fetched = << >>
    /\ applied = << >>

Goto(t, from, to) == pc[t] = from /\ pc' = [pc EXCEPT ![t] = to]

ShellIdle == pc[Shell] = "idle" /\ adding[Shell] = NoTx

\* An exception that no thread catches ends the process (std::terminate).
Ended == pc[Shell] = "ended"

Terminate(t, from) ==
    /\ pc[t] = from
    /\ pc' = [u \in Client |-> "ended"]
    /\ UNCHANGED << chainVars, mempoolVars, store, lines, shellVars, applied >>

------------------------------------------------------------------------------
\* Miner::workerLoop

\* The outer loop's test of stopFlag_.
LoopTop(w) ==
    /\ Goto(w, "top", IF stopFlag THEN "off" ELSE "take")
    /\ UNCHANGED << chainVars, mempoolVars, store, lines, shellVars, applied >>

\* Mutated form: of what take() returned, one transaction goes into the block.
TakePendingOne(w) ==
    /\ Goto(w, "take", "build")
    /\ Take
    /\ lines' = [lines EXCEPT ![w] = << Coinbase(Own, Reward) >> \o
                                          (IF Taken = << >> THEN << >> ELSE << Head(Taken) >>)]
    /\ UNCHANGED << chainVars, store, shellVars, applied >>

TakePending(w) ==
    /\ Goto(w, "take", "build")
    /\ Take
    /\ lines' = [lines EXCEPT ![w] = << Coinbase(Own, Reward) >> \o Taken]
    /\ UNCHANGED << chainVars, store, shellVars, applied >>

\* take() meets a line it cannot read (mempool.hpp:46).
TakeThrows(w) ==
    /\ lockHolder = NoThread /\ ~ TakeReads
    /\ Terminate(w, "take")

\* Workers and the `add` command alike.
Build(t) ==
    /\ Goto(t, "build", "search")
    /\ BuildCandidate(t, lines[t])
    /\ UNCHANGED << mempoolVars, store, lines, shellVars, applied >>

\* The nonce search ends with a hash that passes.  The shell's search
\* (mineBlock) does not look at stopFlag_.
Found(t) ==
    /\ Goto(t, "search", "append")
    /\ t \in Worker => ~ stopFlag
    /\ FindNonce(t)
    /\ UNCHANGED << mempoolVars, store, lines, shellVars, applied >>

\* Mutated form: the inner loop does not look at stopFlag_.
AbandonSearchNever(w) == FALSE /\ UNCHANGED vars

\* stopFlag_ ends both loops; the candidate and its transactions are dropped.
AbandonSearch(w) ==
    /\ Goto(w, "search", "off")
    /\ stopFlag
    /\ Discard(w)
    /\ lines' = [lines EXCEPT ![w] = << >>]
    /\ UNCHANGED << blocks, difficulty, mempoolVars, store, shellVars, applied >>

\* Mutated form: the block is applied whether or not the chain took it.
AppendMinedUnchecked(w) ==
    /\ Goto(w, "append", "apply")
    /\ TryAppend(w)
    /\ UNCHANGED candidate
    /\ lines' = [lines EXCEPT ![w] = << >>]
    /\ UNCHANGED << mempoolVars, store, shellVars, applied >>

\* A refused candidate is dropped with its transactions: "no re-queue".
AppendMined(w) ==
    /\ Goto(w, "append", IF CanAppend(candidate[w]) THEN "apply" ELSE "top")
    /\ TryAppend(w)
    /\ IF CanAppend(candidate[w]) THEN UNCHANGED candidate ELSE Discard(w)
    /\ lines' = [lines EXCEPT ![w] = << >>]
    /\ UNCHANGED << mempoolVars, store, shellVars, applied >>

\* state_.applyBlock(candidate), after chain_'s mutex was let go.  It does not
\* throw: take() has read all its lines.
ApplyMined(w) ==
    /\ Goto(w, "apply", "top")
    /\ store' = ApplyBlock(store, candidate[w])
    /\ applied' = Append(applied, candidate[w])
    /\ Discard(w)
    /\ UNCHANGED << blocks, difficulty, mempoolVars, lines, shellVars >>

WorkerStep(w) ==
    \/ LoopTop(w) \/ TakePending(w) \/ TakeThrows(w) \/ Build(w) \/ Found(w)
    \/ AbandonSearch(w) \/ AppendMined(w) \/ ApplyMined(w)

------------------------------------------------------------------------------
\* Mempool::add, called by the shell and by peer handlers

\* `send`: signed with the nonce the store has now.
SendCommand ==
    /\ ShellIdle
    /\ \E p \in Payments :
         CallAdd(Shell, CreateSigned(Own, p.receiver, p.amount, store.nonce[Own]))
    /\ UNCHANGED << chainVars, store, nodeVars >>

\* `register-username`
RegisterCommand ==
    /\ ShellIdle
    /\ \E n \in Usernames :
         CallAdd(Shell, CreateUsernameRegistration(Own, n, store.nonce[Own]))
    /\ UNCHANGED << chainVars, store, nodeVars >>

\* handleClient on "TX <line>".  A line that throws ends the process in the
\* handler (Process); it does not come to add().
HandleTx(h) ==
    /\ ~ Ended
    /\ \E tx \in PeerTxs : CallAdd(h, tx)
    /\ UNCHANGED << chainVars, store, nodeVars >>

AddStep(t) ==
    /\ ~ Ended
    /\ CheckNonce(t) \/ FinishAdd(t)
    /\ UNCHANGED << chainVars, store, nodeVars >>

------------------------------------------------------------------------------
\* The shell's other commands

\* `mine` and `stop-mining`: both begin with Miner::stop().
MineOrStop(S) ==
    /\ ShellIdle
    /\ Goto(Shell, "idle", "joining")
    /\ stopFlag' = TRUE
    /\ threads' = S
    /\ UNCHANGED << chainVars, mempoolVars, store, lines, fetched, applied >>

\* Every worker is joined; start() then lets the new ones run.
Joined ==
    /\ pc[Shell] = "joining"
    /\ \A w \in Worker : pc[w] = "off"
    /\ pc' = [t \in Client |-> IF t = Shell THEN "idle"
                               ELSE IF t \in threads THEN "top" ELSE "off"]
    /\ stopFlag' = (threads = {})
    /\ threads' = {}
    /\ UNCHANGED << chainVars, mempoolVars, store, lines, fetched, applied >>

DifficultyCommand(d) ==
    /\ ShellIdle
    /\ SetDifficulty(d)
    /\ UNCHANGED << mempoolVars, store, nodeVars >>

\* `add`: addTransactionAndMineSync builds, searches and appends until the
\* chain takes the block; the store is not told.
AddCommand(text) ==
    /\ ShellIdle
    /\ Goto(Shell, "idle", "build")
    /\ lines' = [lines EXCEPT ![Shell] = << text >>]
    /\ UNCHANGED << chainVars, mempoolVars, store, shellVars, applied >>

AppendAdded ==
    /\ Goto(Shell, "append", IF CanAppend(candidate[Shell]) THEN "idle" ELSE "build")
    /\ TryAppend(Shell)
    /\ Discard(Shell)
    /\ lines' = [lines EXCEPT ![Shell] = IF CanAppend(candidate[Shell]) THEN << >> ELSE @]
    /\ UNCHANGED << mempoolVars, store, shellVars, applied >>

------------------------------------------------------------------------------
\* `init-node` and `sync`

\* The numbers that n's leading digits make, n itself excepted.
LeadingDigits(n) ==
    LET left[k \in 0 .. n] == IF k = 0 THEN n ELSE left[k - 1] \div Radix
    IN  { left[k] : k \in 1 .. n } \cap (1 .. n)

\* What is left of a line that breaks off.  A coinbase may lose some digits of its
\* amount, or all of them; in anything else that throws, the words that do may be
\* left or not.
Fragments(line) ==
    {Text} \cup
    (IF line.kind = "coinbase"
     THEN {Malformed} \cup { [line EXCEPT !.amount = n] : n \in LeadingDigits(line.amount) }
     ELSE IF LineThrows(line) THEN {Malformed} ELSE {})

\* What may follow the first n transactions of a block line that breaks off there
\* or within the next one.
BrokenTails(b, n) == {<< >>} \cup { << f >> : f \in Fragments(b.txs[n + 1]) }

\* The hash is another one, hence the zeros.
CutTo(b, txs, z) == [b EXCEPT !.txs = txs, !.zeros = z]

CutAfter(b, n) ==
    { CutTo(b, SubSeq(b.txs, 1, n) \o tail, z) : tail \in BrokenTails(b, n), z \in Zeros }

\* A block line cut short in its transactions.
CutBlocks(b) == UNION { CutAfter(b, n) : n \in 0 .. Len(b.txs) - 1 }

\* What fetchChain returns: the peer's chain as it was, or as much of it as came
\* before the connection was lost.  The empty list also stands for a cut inside
\* a line's first five fields, which replaceIfLongerAndValid refuses.
Received(bs) ==
    { SubSeq(bs, 1, n) : n \in 0 .. Len(bs) } \cup
    UNION { { Append(SubSeq(bs, 1, n - 1), b) : b \in CutBlocks(bs[n]) } :
              n \in 1 .. Len(bs) }

\* A peer was seen to be taller than the local chain, and its blocks fetched.
Fetch ==
    /\ ShellIdle
    /\ SyncWhileMining \/ \A w \in Worker : pc[w] = "off"
    /\ Len(RemoteChain) > Len(blocks)
    /\ Goto(Shell, "idle", "replace")
    /\ fetched' \in Received(RemoteChain)
    /\ UNCHANGED << chainVars, mempoolVars, store, lines, stopFlag, threads, applied >>

Replace ==
    /\ Goto(Shell, "replace", IF CanReplace(fetched) THEN "clear" ELSE "idle")
    /\ ReplaceIfLongerAndValid(fetched)
    /\ fetched' = IF CanReplace(fetched) THEN fetched ELSE << >>
    /\ UNCHANGED << mempoolVars, store, lines, stopFlag, threads, applied >>

\* Mutated form: usernames_ is not cleared.
ClearAccountsOnly ==
    /\ Goto(Shell, "clear", "rebuild")
    /\ store' = [EmptyStore EXCEPT !.owner = store.owner]
    /\ applied' = << >>
    /\ UNCHANGED << chainVars, mempoolVars, lines, shellVars >>

\* rebuildFromBlocks lets go of the store's mutex after clearing it ...
ClearStore ==
    /\ Goto(Shell, "clear", "rebuild")
    /\ store' = EmptyStore
    /\ applied' = << >>
    /\ UNCHANGED << chainVars, mempoolVars, lines, shellVars >>

\* ... and after each block.
RebuildBlock ==
    /\ Goto(Shell, "rebuild", IF Len(fetched) = 1 THEN "idle" ELSE "rebuild")
    /\ ~ BlockThrows(fetched[1])
    /\ store' = ApplyBlock(store, fetched[1])
    /\ applied' = Append(applied, fetched[1])
    /\ fetched' = Tail(fetched)
    /\ UNCHANGED << chainVars, mempoolVars, lines, stopFlag, threads >>

\* applyBlock meets an entry it cannot read (account.hpp:62 and 93).
RebuildThrows ==
    /\ Terminate(Shell, "rebuild")
    /\ BlockThrows(fetched[1])

------------------------------------------------------------------------------

ShellStep ==
    \/ SendCommand \/ RegisterCommand \/ Joined \/ AppendAdded
    \/ \E S \in SUBSET Worker : MineOrStop(S)
    \/ \E d \in Difficulties : DifficultyCommand(d)
    \/ \E text \in AddLines : AddCommand(text)
    \/ Build(Shell) \/ Found(Shell)
    \/ Fetch \/ Replace \/ ClearStore \/ RebuildBlock \/ RebuildThrows

Next ==
    \/ \E w \in Worker : WorkerStep(w)
    \/ ShellStep
    \/ \E h \in Handler : HandleTx(h)
    \/ \E t \in Submitter : AddStep(t)

Spec == Init /\ [][Next]_vars

\* The operating system runs every thread that can run, and a thread waiting
\* for the mempool's mutex gets it if the mutex keeps becoming free.  Nothing
\* is promised of a nonce search, of the user, or of peers.
Fairness ==
    /\ \A w \in Worker :
         /\ WF_vars(LoopTop(w)) /\ WF_vars(Build(w)) /\ WF_vars(AbandonSearch(w))
         /\ WF_vars(AppendMined(w)) /\ WF_vars(ApplyMined(w))
         /\ SF_vars(TakePending(w) \/ TakeThrows(w))
    /\ \A t \in Submitter : WF_vars(AddStep(t) /\ lockHolder = t)
    /\ WF_vars(Joined)

FairSpec == Spec /\ Fairness

------------------------------------------------------------------------------

\* Type invariant.
NodeTypeOK ==
    /\ blocks \in Seq(BlockSet) /\ blocks # << >>
    /\ candidate \in [Client -> BlockSet \cup {NoBlock}]
    /\ pending \in Seq(Transaction)
    /\ store \in StoreSet
    /\ pc \in [Client -> {"idle", "joining", "replace", "clear", "rebuild", "off",
                          "top", "take", "build", "search", "append", "apply", "ended"}]
    /\ threads \subseteq Worker /\ stopFlag \in BOOLEAN
    /\ fetched \in Seq(BlockSet) /\ applied \in Seq(BlockSet)

\* Blocks the chain has taken and whose miner has not yet told the store.
InFlight == { candidate[w] : w \in { v \in Worker : pc[v] = "apply" } }

Rebuilding == pc[Shell] \in {"clear", "rebuild"}

Settled == InFlight = {} /\ ~ Rebuilding /\ ~ Ended

\* A block mined here, not put there by `add`, carries our coinbase first.
IsMined(b) == b.txs # << >> /\ b.txs[1].kind = "coinbase"

\* Between rebuilds every mined block in the chain has been applied to the
\* store once, or its worker is about to (miner.hpp:68-69); no block is applied
\* twice and none that the chain refused is applied.
MinedBlocksAppliedOnce ==
    ~ Rebuilding /\ ~ Ended =>
        /\ IsInjective(applied)
        /\ ToSet(applied) \cap InFlight = {}
        /\ ToSet(applied) \cup InFlight \subseteq ToSet(blocks)
        /\ \A b \in ToSet(blocks) : IsMined(b) => b \in ToSet(applied) \cup InFlight

\* account.hpp:67-68: the state is what replaying "every block from scratch"
\* gives.  Whenever no miner and no rebuild is half-way, the store the node
\* answers from is the one its chain determines.
SettledStoreIsReplay == Settled => store = Replay(blocks)

\* A rebuild is not atomic, and commands, handlers and workers read the store
\* between its blocks (account.hpp:75): what they see are the accounts of an
\* earlier height of the new chain, never a mixture with the old one's.
RebuildShowsEarlierHeight ==
    pc[Shell] = "rebuild" =>
        \E n \in 0 .. Len(blocks) : store = Replay(SubSeq(blocks, 1, n))

\* account.hpp:50-51: "an invalid entry is skipped rather than aborting the whole
\* block".  A rebuild goes on whatever entries its blocks have.
EntriesAreSkipped == [][pc[Shell] = "rebuild" => ~ Ended']_vars

\* The ledger the node shows: every block its chain has taken, and the accounts
\* with the block in flight, if any, or the rebuild under way already done.
ShownStore ==
    IF Rebuilding \/ Ended THEN Replay(blocks)
    ELSE IF InFlight = {} THEN store
    ELSE ApplyBlock(store, CHOOSE b \in InFlight : TRUE)

Shown == INSTANCE Ledger WITH chain <- blocks, store <- ShownStore

\* With one worker, and synchronisation only while mining is stopped, the node
\* implements the ledger: no step of a miner, of the shell or of a rebuild shows
\* accounts that the chain does not determine.
ImplementsLedger == Shown!Spec

\* Transactions a user or a peer was told are queued, wherever they are now.  The
\* candidate a worker is about to apply counts no more: the chain has it.  Of an
\* ended process what its clients held as lines is all that counts.
Queued ==
    { tx \in ToSet(pending)
             \cup (UNION { ToSet(lines[t]) : t \in Client })
             \cup (UNION { ToSet(candidate[t].txs) :
                             t \in { c \in Client : /\ candidate[c] # NoBlock
                                              /\ pc[c] \notin {"apply", "ended"} } })
             \cup (UNION { ToSet(blocks[i].txs) : i \in DOMAIN blocks }) :
        tx.kind = "tx" }

\* Its candidate is refused: "the block they end up in never gets accepted (tip
\* moved)" (mempool.hpp:38-41).
LostToTip(tx) ==
    \E w \in Worker : tx \in ToSet(lines[w]) /\ pc[w] = "append" /\ ~ CanAppend(candidate[w])

\* The worker that took it is told to stop (miner.hpp:64).
LostToStop(tx) == \E w \in Worker : tx \in ToSet(lines[w]) /\ pc[w] = "search" /\ stopFlag

\* The chain that held it is replaced by a longer one.
LostToReplacement(tx) ==
    tx \in UNION { ToSet(blocks[i].txs) : i \in DOMAIN blocks } /\ ~ IsPrefix(blocks, blocks')

\* main.cpp:289 and 321 tell the user that a transaction queued "will be mined into
\* a block".  It leaves a running node in the one way mempool.hpp:38-41 names, or with a
\* chain that was replaced.
QueuedLostAsDocumented ==
    [][\A tx \in Queued \ Queued' : LostToTip(tx) \/ LostToReplacement(tx)]_vars

\* What the code keeps of that promise: a transaction leaves a running node in no
\* other way but these two and with a candidate that stop-mining drops (finding 3).
QueuedLostWithCandidateOnly ==
    [][\A tx \in Queued \ Queued' :
         LostToTip(tx) \/ LostToStop(tx) \/ LostToReplacement(tx)]_vars

\* What a line, the lines of a block, and the blocks of a list pay out.
LineReward(line) == IF line.kind = "coinbase" THEN line.amount ELSE 0

BlockReward(b) == SumFunction([j \in DOMAIN b.txs |-> LineReward(b.txs[j])])

RewardsOf(bs) == SumFunction([i \in DOMAIN bs |-> BlockReward(bs[i])])

Supply == SumFunction(store.balance)

\* Coins come from coinbases alone: whatever order blocks were applied in, the
\* balances add up to the rewards applied, less 2^64 for every balance that
\* wrapped (applyCoinbaseLocked, applyTxLocked).  While the rewards stay below
\* 2^64 the two are therefore equal.
SupplyIsRewards ==
    /\ Supply <= RewardsOf(applied)
    /\ (RewardsOf(applied) - Supply) % U64Modulus = 0

\* The name an account shows (usernameOf) resolves to that account
\* (resolveUsername), in the middle of a rebuild too.
NamesResolveBack ==
    \A a \in Address : store.username[a] # NoName => store.owner[store.username[a]] = a

\* A name once resolved keeps its owner, whatever blocks are applied and in
\* whatever order, until a rebuild empties the store.
NamesKeepOwner ==
    [][store' # EmptyStore =>
         \A n \in Name : store.owner[n] # NoAddress => store'.owner[n] = store.owner[n]]_vars

\* Miner::stop() returns: once it asks, every worker ends, even one waiting for
\* the mempool or searching a nonce that is never found, unless an exception ends
\* the process first.
StopReturns == pc[Shell] = "joining" ~> pc[Shell] \in {"idle", "ended"}
==============================================================================
