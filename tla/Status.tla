------------------------------- MODULE Status -------------------------------
(***************************************************************************)
(* NodeStatus (node/status.hpp), the figures the `status` command and the  *)
(* status server show, and the threads that write them: mining workers and *)
(* the hash-rate thread (node/miner.hpp), and the shell (node/main.cpp).   *)
(* Each figure is an atomic of its own; the chain is read under its mutex  *)
(* and the value stored afterwards, so stores can be reordered.            *)
(***************************************************************************)
EXTENDS Chain, FiniteSets

CONSTANTS
    Worker,       \* mining threads
    Shell,        \* the thread that reads commands
    GenesisLine,  \* the genesis block's only line
    MinedLine,    \* what blocks carry, of no interest here
    Offered,      \* block lists fetched from peers
    MaxHashes     \* bound: hashes counted between two ticks

ASSUME StatusAssumption ==
    /\ Client = Worker \cup {Shell} /\ Shell \notin Worker
    /\ IsFiniteSet(Worker)
    /\ GenesisLine \in Line /\ MinedLine \in Line
    /\ Offered \subseteq Seq(BlockSet)
    /\ MaxHashes \in Nat

VARIABLES
    status,    \* NodeStatus
    pc,        \* where each client is
    seen,      \* what a client has read and not yet stored into the status
    stopFlag,  \* Miner::stopFlag_
    threads,   \* workers the shell starts once the old ones are joined
    ticker,    \* the hash-rate thread: "off", "check" or "sleep"
    hashes     \* Miner::hashesThisSecond_

minerVars == << stopFlag, threads, ticker, hashes >>

vars == << chainVars, status, pc, seen, minerVars >>

Height == Tip.height

Init ==
    /\ ChainInit(GenesisLine)
    /\ status = [height |-> Height, difficulty |-> difficulty, mining |-> FALSE,
                 miningThreads |-> 0, hashesLastSecond |-> 0]
    /\ pc = [t \in Client |-> IF t = Shell THEN "idle" ELSE "off"]
    /\ seen = [t \in Client |-> 0]
    /\ stopFlag = TRUE
    /\ threads = {}
    /\ ticker = "off"
    /\ hashes = 0

Goto(t, from, to) == pc[t] = from /\ pc' = [pc EXCEPT ![t] = to]

\* Where a client goes on once its block is in the status.
Home(t) == IF t = Shell THEN "idle" ELSE "top"

------------------------------------------------------------------------------
\* Mining, by workers and by the `add` command

LoopTop(w) ==
    /\ Goto(w, "top", IF stopFlag THEN "off" ELSE "build")
    /\ UNCHANGED << chainVars, status, seen, minerVars >>

Build(t) ==
    /\ Goto(t, "build", "search")
    /\ BuildCandidate(t, << MinedLine >>)
    /\ UNCHANGED << status, seen, minerVars >>

\* hashesThisSecond_ counts the hashes of workers, `add` does not count.
Count(t) == hashes' = IF t = Shell THEN hashes ELSE hashes + 1

Miss(w) ==
    /\ pc[w] = "search" /\ ~ stopFlag
    /\ hashes < MaxHashes /\ Count(w)
    /\ UNCHANGED << chainVars, status, pc, seen, stopFlag, threads, ticker >>

Found(t) ==
    /\ Goto(t, "search", "append")
    /\ t # Shell => ~ stopFlag /\ hashes < MaxHashes
    /\ FindNonce(t) /\ Count(t)
    /\ UNCHANGED << status, seen, stopFlag, threads, ticker >>

AbandonSearch(w) ==
    /\ Goto(w, "search", "off")
    /\ stopFlag
    /\ Discard(w)
    /\ UNCHANGED << blocks, difficulty, status, seen, minerVars >>

\* A worker whose block is refused starts over, and so does `add`.
AppendMined(t) ==
    /\ Goto(t, "append", IF CanAppend(candidate[t]) THEN "readHeight"
                         ELSE IF t = Shell THEN "build" ELSE "top")
    /\ TryAppend(t) /\ Discard(t)
    /\ UNCHANGED << status, seen, minerVars >>

------------------------------------------------------------------------------
\* Refreshing the status: `status_.height = chain_.height()` is a read under the
\* chain's mutex, then a store; the difficulty likewise.

\* Mutated form: the number of blocks is taken for the height.
ReadHeightAsCount(t) ==
    /\ Goto(t, "readHeight", "storeHeight")
    /\ seen' = [seen EXCEPT ![t] = Len(blocks)]
    /\ UNCHANGED << chainVars, status, minerVars >>

ReadHeight(t) ==
    /\ Goto(t, "readHeight", "storeHeight")
    /\ seen' = [seen EXCEPT ![t] = Height]
    /\ UNCHANGED << chainVars, status, minerVars >>

StoreHeight(t) ==
    /\ Goto(t, "storeHeight", "readDifficulty")
    /\ status' = [status EXCEPT !.height = seen[t]]
    /\ UNCHANGED << chainVars, seen, minerVars >>

ReadDifficulty(t) ==
    /\ Goto(t, "readDifficulty", "storeDifficulty")
    /\ seen' = [seen EXCEPT ![t] = difficulty]
    /\ UNCHANGED << chainVars, status, minerVars >>

StoreDifficulty(t) ==
    /\ Goto(t, "storeDifficulty", Home(t))
    /\ status' = [status EXCEPT !.difficulty = seen[t]]
    /\ seen' = [seen EXCEPT ![t] = 0]
    /\ UNCHANGED << chainVars, minerVars >>

------------------------------------------------------------------------------
\* The hash-rate thread

TickerCheck ==
    /\ ticker = "check"
    /\ ticker' = IF stopFlag THEN "off" ELSE "sleep"
    /\ UNCHANGED << chainVars, status, pc, seen, stopFlag, threads, hashes >>

\* After the second's sleep, whatever stopFlag_ has become.
Tick ==
    /\ ticker = "sleep" /\ ticker' = "check"
    /\ status' = [status EXCEPT !.hashesLastSecond = hashes]
    /\ hashes' = 0
    /\ UNCHANGED << chainVars, pc, seen, stopFlag, threads >>

------------------------------------------------------------------------------
\* The shell

\* `mine` and `stop-mining`: Miner::stop() raises the flag, then joins.
MineOrStop(S) ==
    /\ Goto(Shell, "idle", "joining")
    /\ stopFlag' = TRUE
    /\ threads' = S
    /\ UNCHANGED << chainVars, status, seen, ticker, hashes >>

\* Mutated form: the hash-rate thread is not joined.
JoinedWorkersOnly ==
    /\ \A w \in Worker : pc[w] = "off"
    /\ Goto(Shell, "joining", IF threads = {} THEN "idle" ELSE "starting")
    /\ status' = [status EXCEPT !.mining = FALSE, !.miningThreads = 0,
                                !.hashesLastSecond = 0]
    /\ UNCHANGED << chainVars, seen, minerVars >>

Joined ==
    /\ \A w \in Worker : pc[w] = "off"
    /\ ticker = "off"
    /\ Goto(Shell, "joining", IF threads = {} THEN "idle" ELSE "starting")
    /\ status' = [status EXCEPT !.mining = FALSE, !.miningThreads = 0,
                                !.hashesLastSecond = 0]
    /\ UNCHANGED << chainVars, seen, minerVars >>

\* The rest of Miner::start().
Start ==
    /\ pc[Shell] = "starting"
    /\ pc' = [t \in Client |-> IF t = Shell THEN "idle"
                               ELSE IF t \in threads THEN "top" ELSE pc[t]]
    /\ stopFlag' = FALSE
    /\ status' = [status EXCEPT !.mining = TRUE, !.miningThreads = Cardinality(threads)]
    /\ ticker' = "check"
    /\ threads' = {}
    /\ UNCHANGED << chainVars, seen, hashes >>

AddCommand ==
    /\ Goto(Shell, "idle", "build")
    /\ UNCHANGED << chainVars, status, seen, minerVars >>

\* `difficulty`: the chain first, then the status.
DifficultyCommand(d) ==
    /\ Goto(Shell, "idle", "storeDifficulty")
    /\ SetDifficulty(d)
    /\ seen' = [seen EXCEPT ![Shell] = d]
    /\ UNCHANGED << status, minerVars >>

\* `init-node` and `sync`, once the peer's blocks are here.
SyncCommand(s) ==
    /\ Goto(Shell, "idle", IF CanReplace(s) THEN "readHeight" ELSE "idle")
    /\ ReplaceIfLongerAndValid(s)
    /\ UNCHANGED << status, seen, minerVars >>

Mining(t) ==
    \/ Build(t) \/ Found(t) \/ AppendMined(t)
    \/ ReadHeight(t) \/ StoreHeight(t) \/ ReadDifficulty(t) \/ StoreDifficulty(t)

Next ==
    \/ \E w \in Worker : LoopTop(w) \/ Miss(w) \/ AbandonSearch(w)
    \/ \E t \in Client : Mining(t)
    \/ TickerCheck \/ Tick
    \/ \E S \in SUBSET Worker : MineOrStop(S)
    \/ Joined \/ Start \/ AddCommand
    \/ \E d \in Difficulties : DifficultyCommand(d)
    \/ \E s \in Offered : SyncCommand(s)

Spec == Init /\ [][Next]_vars

------------------------------------------------------------------------------

\* Type invariant.
StatusTypeOK ==
    /\ status \in [height : Nat, difficulty : UInt32, mining : BOOLEAN,
                   miningThreads : 0 .. Cardinality(Worker), hashesLastSecond : 0 .. MaxHashes]
    /\ seen \in [Client -> Nat]
    /\ ticker \in {"off", "check", "sleep"}
    /\ threads \subseteq Worker /\ stopFlag \in BOOLEAN /\ hashes \in 0 .. MaxHashes

\* Threads that write the status late may show a height the chain has passed,
\* never one it has not reached (miner.hpp:70, main.cpp:109).
HeightShownWasReached ==
    /\ status.height <= Height
    /\ \A t \in Client : pc[t] = "storeHeight" => seen[t] <= Height

\* Once mining is shown as stopped and the prompt is back, no worker runs, no
\* thread is shown and no late tick can show a hash rate again (Miner::stop).
QuietWhenStopped ==
    pc[Shell] = "idle" /\ ~ status.mining =>
        /\ \A w \in Worker : pc[w] = "off"
        /\ status.miningThreads = 0
        /\ status.hashesLastSecond = 0
        /\ ticker = "off"
==============================================================================
