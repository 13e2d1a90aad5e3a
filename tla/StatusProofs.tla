---------------------------- MODULE StatusProofs ----------------------------
(***************************************************************************)
(* Safety of the status figures for any number of mining threads, any      *)
(* difficulties, and any lists of blocks a peer may offer.                 *)
(***************************************************************************)
EXTENDS Status, FiniteSetTheorems, TLAPS

------------------------------------------------------------------------------
\* The chain alone, as ChainSpec has it, seen through the variables of Status

ChainView == INSTANCE ChainProofs WITH TxLines <- { << MinedLine >> }

LEMMA ViewSameBlocks ==
    /\ ChainView!BlockSet = BlockSet
    /\ ChainView!UInt32 = UInt32
    /\ \A b : ChainView!MineBlock(b) = MineBlock(b)
  BY DEF BlockSet, Header, UInt32, Zeros, Digest, HeaderOf, ComputeHash,
         LeadingZeroHexDigits, AsInt, MeetsDifficulty, MineBlock,
         ChainView!BlockSet, ChainView!Header, ChainView!UInt32, ChainView!Zeros,
         ChainView!Digest, ChainView!HeaderOf, ChainView!ComputeHash,
         ChainView!LeadingZeroHexDigits, ChainView!AsInt, ChainView!MeetsDifficulty,
         ChainView!MineBlock

LEMMA ViewSameActions ==
    /\ \A c, txs : ChainView!BuildCandidate(c, txs) = BuildCandidate(c, txs)
    /\ \A c : ChainView!FindNonce(c) = FindNonce(c)
    /\ \A c : ChainView!TryAppend(c) = TryAppend(c)
    /\ \A c : ChainView!Discard(c) = Discard(c)
    /\ \A d : ChainView!SetDifficulty(d) = SetDifficulty(d)
    /\ \A s : ChainView!ReplaceIfLongerAndValid(s) = ReplaceIfLongerAndValid(s)
  BY DEF ComputeHash, HeaderOf, MineBlock, MeetsDifficulty, LeadingZeroHexDigits, AsInt, Zeros,
         Tip, BuildCandidate, FindNonce, CanAppend, TryAppend, Discard, SetDifficulty,
         ValidLinks, CanReplace, ReplaceIfLongerAndValid,
         ChainView!ComputeHash, ChainView!HeaderOf, ChainView!MineBlock,
         ChainView!MeetsDifficulty, ChainView!LeadingZeroHexDigits, ChainView!AsInt,
         ChainView!Zeros, ChainView!Tip, ChainView!BuildCandidate, ChainView!FindNonce,
         ChainView!CanAppend, ChainView!TryAppend, ChainView!Discard,
         ChainView!SetDifficulty, ChainView!ValidLinks, ChainView!CanReplace,
         ChainView!ReplaceIfLongerAndValid

LEMMA ViewConstants ==
    ChainView!BlockAssumption /\ ChainView!ChainAssumption /\ ChainView!ChainSpecAssumption
  <1>1. << MinedLine >> \in Seq(Line)
    BY StatusAssumption
  <1> QED
    BY <1>1, BlockAssumption, ChainAssumption, StatusAssumption, ViewSameBlocks
    DEF ChainView!BlockAssumption, ChainView!ChainAssumption, ChainView!ChainSpecAssumption

\* The height of the tip is one less than the number of blocks.
LEMMA TipHeight ==
    ASSUME ChainView!ChainInv
    PROVE  /\ Len(blocks) \in Nat \ {0} /\ Height = Len(blocks) - 1 /\ Height \in Nat
           /\ difficulty \in UInt32
           /\ candidate \in [Client -> BlockSet \cup {NoBlock}]
  <1>1. /\ Len(blocks) \in Nat \ {0} /\ difficulty \in UInt32
        /\ candidate \in [Client -> BlockSet \cup {NoBlock}]
    BY ViewSameBlocks DEF ChainView!ChainInv, ChainView!ChainTypeOK
  <1>2. \A i \in 1 .. Len(blocks) : blocks[i].height = i - 1
    BY DEF ChainView!ChainInv, ChainView!HeightIsPosition
  <1>3. Len(blocks) \in 1 .. Len(blocks)
    BY <1>1
  <1> QED
    BY <1>1, <1>2, <1>3 DEF Height, Tip

------------------------------------------------------------------------------
\* The inductive invariant

ThreadPc == {"idle", "off", "top", "build", "search", "append", "readHeight", "storeHeight",
             "readDifficulty", "storeDifficulty", "joining", "starting"}

\* Threads are somewhere, and who is about to append has mined a candidate.
ThreadsTyped ==
    /\ pc \in [Client -> ThreadPc]
    /\ \A t \in Client : pc[t] = "append" =>
         candidate[t] # NoBlock /\ candidate[t].height <= MaxHeight

\* What is about to be stored as a difficulty is one.
DifficultySeen == \A t \in Client : pc[t] = "storeDifficulty" => seen[t] \in UInt32

\* Whatever the shell is doing: without mining nothing runs and nothing is shown.
Quiet ==
    ~ status.mining =>
        /\ \A w \in Worker : pc[w] = "off"
        /\ status.miningThreads = 0
        /\ status.hashesLastSecond = 0
        /\ ticker = "off"

StatusInv ==
    /\ ChainView!ChainInv
    /\ StatusTypeOK
    /\ ThreadsTyped
    /\ DifficultySeen
    /\ HeightShownWasReached
    /\ Quiet

LEMMA StatusInitEstablishes == Init => StatusInv
  <1> SUFFICES ASSUME Init PROVE StatusInv
    OBVIOUS
  <1>1. ChainView!ChainInit(GenesisLine)
    BY ViewSameBlocks
    DEF Init, ChainInit, GenesisTemplate, ZeroDigest,
        ChainView!ChainInit, ChainView!GenesisTemplate, ChainView!ZeroDigest
  <1>2. ChainView!ChainInv
    BY <1>1, ViewConstants, ChainView!InitEstablishes
  <1>3. Height \in Nat /\ difficulty \in UInt32
    BY <1>2, TipHeight
  <1>4. StatusTypeOK
    <2>1. 0 \in 0 .. Cardinality(Worker) /\ 0 \in 0 .. MaxHashes
      BY StatusAssumption, FS_CardinalityType
    <2> QED
      BY <1>3, <2>1 DEF Init, StatusTypeOK
  <1>5. ThreadsTyped /\ DifficultySeen
    BY DEF Init, ThreadsTyped, ThreadPc, DifficultySeen
  <1>6. HeightShownWasReached /\ Quiet
    BY <1>3, StatusAssumption DEF Init, HeightShownWasReached, Quiet
  <1> QED
    BY <1>2, <1>4, <1>5, <1>6 DEF StatusInv

\* Each step is a step of the chain alone, or leaves the chain be.
LEMMA StepOfChain ==
    ASSUME StatusInv, [Next]_vars
    PROVE  [ChainView!Next]_ChainView!chainVars
  <1>1. ASSUME NEW t \in Client, Build(t) PROVE ChainView!Next
    BY <1>1, ViewSameActions DEF Build, ChainView!Next
  <1>2. ASSUME NEW t \in Client, Found(t) PROVE ChainView!Next
    BY <1>2, ViewSameActions DEF Found, ChainView!Next
  <1>3. ASSUME NEW w \in Worker, AbandonSearch(w) PROVE ChainView!Next
    BY <1>3, ViewSameActions, StatusAssumption DEF AbandonSearch, ChainView!Next
  <1>4. ASSUME NEW t \in Client, AppendMined(t) PROVE ChainView!Next
    <2>1. candidate[t] # NoBlock /\ candidate[t].height <= MaxHeight
      BY <1>4 DEF AppendMined, Goto, StatusInv, ThreadsTyped
    <2> QED
      BY <1>4, <2>1, ViewSameActions DEF AppendMined, ChainView!Next
  <1>5. ASSUME NEW d \in Difficulties, DifficultyCommand(d) PROVE ChainView!Next
    BY <1>5, ViewSameActions DEF DifficultyCommand, ChainView!Next
  <1>6. ASSUME NEW s \in Offered, SyncCommand(s) PROVE ChainView!Next
    BY <1>6, ViewSameActions DEF SyncCommand, ChainView!Next
  <1>7. ASSUME \/ UNCHANGED vars
               \/ \E w \in Worker : LoopTop(w) \/ Miss(w)
               \/ \E t \in Client : ReadHeight(t) \/ StoreHeight(t) \/ ReadDifficulty(t) \/ StoreDifficulty(t)
               \/ TickerCheck \/ Tick \/ Joined \/ Start \/ AddCommand
               \/ \E S \in SUBSET Worker : MineOrStop(S)
        PROVE  UNCHANGED ChainView!chainVars
    BY <1>7
    DEF vars, chainVars, ChainView!chainVars, LoopTop, Miss, ReadHeight, StoreHeight,
        ReadDifficulty, StoreDifficulty, TickerCheck, Tick, Joined, Start, AddCommand, MineOrStop
  <1> QED
    BY <1>1, <1>2, <1>3, <1>4, <1>5, <1>6, <1>7 DEF Next, Mining

LEMMA StepKeepsChain ==
    ASSUME StatusInv, [Next]_vars
    PROVE  ChainView!ChainInv' /\ Height' >= Height
  <1>1. ChainView!ChainInv'
    BY StepOfChain, ViewConstants, ChainView!NextPreserves DEF StatusInv
  <1>2. Len(blocks') >= Len(blocks)
    <2>1. /\ Len(blocks) \in Nat /\ Len(blocks') \in Nat /\ blocks \in Seq(BlockSet)
          /\ candidate \in [Client -> BlockSet \cup {NoBlock}]
      BY <1>1, ViewSameBlocks DEF StatusInv, ChainView!ChainInv, ChainView!ChainTypeOK
    <2>2. ASSUME NEW t \in Client, TryAppend(t) PROVE Len(blocks') >= Len(blocks)
      <3>1. candidate[t] \in BlockSet
        BY <2>1, <2>2 DEF TryAppend
      <3> QED
        BY <2>1, <2>2, <3>1 DEF TryAppend
    <2>3. ASSUME NEW s \in Offered, ReplaceIfLongerAndValid(s) PROVE Len(blocks') >= Len(blocks)
      BY <2>1, <2>3 DEF ReplaceIfLongerAndValid, CanReplace
    <2>4. CASE UNCHANGED ChainView!chainVars
      BY <2>1, <2>4 DEF ChainView!chainVars
    <2>5. CASE ChainView!Next
      <3>1. \/ blocks' = blocks
            \/ \E t \in Client : TryAppend(t)
            \/ \E s \in Offered : ReplaceIfLongerAndValid(s)
        <4>1. ASSUME NEW t \in Client, NEW txs \in {<< MinedLine >>}, ChainView!BuildCandidate(t, txs)
              PROVE  blocks' = blocks
          BY <4>1 DEF ChainView!BuildCandidate
        <4>2. ASSUME NEW t \in Client, ChainView!FindNonce(t) PROVE blocks' = blocks
          BY <4>2 DEF ChainView!FindNonce
        <4>3. ASSUME NEW d \in Difficulties, ChainView!SetDifficulty(d) PROVE blocks' = blocks
          BY <4>3 DEF ChainView!SetDifficulty
        <4>4. ASSUME NEW t \in Client, ChainView!TryAppend(t) PROVE TryAppend(t)
          BY <4>4, ViewSameActions
        <4>5. ASSUME NEW s \in Offered, ChainView!ReplaceIfLongerAndValid(s)
              PROVE  ReplaceIfLongerAndValid(s)
          BY <4>5, ViewSameActions
        <4> QED
          BY <2>5, <4>1, <4>2, <4>3, <4>4, <4>5 DEF ChainView!Next
      <3> QED
        BY <2>1, <2>2, <2>3, <3>1
    <2> QED
      BY <2>4, <2>5, StepOfChain
  <1>3. ChainView!ChainInv => Height = Len(blocks) - 1
    BY TipHeight
  <1>4. Height = Len(blocks) - 1
    BY <1>3 DEF StatusInv
  <1>5. Height' = Len(blocks') - 1
    <2>1. Len(blocks') \in Nat \ {0} /\ \A i \in 1 .. Len(blocks') : blocks'[i].height = i - 1
      BY <1>1 DEF ChainView!ChainInv, ChainView!ChainTypeOK, ChainView!HeightIsPosition
    <2> QED
      BY <2>1 DEF Height, Tip
  <1> QED
    BY <1>1, <1>2, <1>4, <1>5, TipHeight DEF StatusInv

\* A step that leaves a thread where it is, or moves one thread.
LEMMA StepMoves ==
    ASSUME StatusInv, [Next]_vars
    PROVE  ThreadsTyped'
  <1> USE DEF ThreadPc
  <1>0. pc \in [Client -> ThreadPc] /\ candidate \in [Client -> BlockSet \cup {NoBlock}]
    BY TipHeight DEF StatusInv, ThreadsTyped
  <1>1. ASSUME NEW t \in Client, Found(t) PROVE ThreadsTyped'
    <2>1. candidate[t] \in BlockSet /\ candidate[t].height <= MaxHeight
      BY <1>0, <1>1 DEF Found, FindNonce
    <2>2. PICK m \in MineBlock(candidate[t]) : candidate' = [candidate EXCEPT ![t] = m]
      BY <1>1 DEF Found, FindNonce
    <2>3. m \in BlockSet /\ m.height = candidate[t].height
      BY <2>1, ViewSameBlocks, ViewConstants, ChainView!MineBlockType
    <2>4. m # NoBlock
      BY <2>3, ChainAssumption
    <2> QED
      BY <1>0, <1>1, <2>1, <2>2, <2>3, <2>4 DEF StatusInv, ThreadsTyped, Found, Goto
  <1>2. ASSUME NEW t \in Client, Build(t) PROVE ThreadsTyped'
    BY <1>0, <1>2 DEF StatusInv, ThreadsTyped, Build, BuildCandidate, Goto
  <1>3. ASSUME NEW t \in Client, AbandonSearch(t) \/ AppendMined(t) PROVE ThreadsTyped'
    BY <1>0, <1>3 DEF StatusInv, ThreadsTyped, AbandonSearch, AppendMined, Discard, Goto
  <1>4. ASSUME NEW t \in Client,
               LoopTop(t) \/ ReadHeight(t) \/ StoreHeight(t) \/ ReadDifficulty(t) \/ StoreDifficulty(t)
        PROVE  ThreadsTyped'
    BY <1>0, <1>4 DEF StatusInv, ThreadsTyped, LoopTop, ReadHeight, StoreHeight, ReadDifficulty,
       StoreDifficulty, Goto, Home, chainVars
  <1>5. ASSUME Start PROVE ThreadsTyped'
    BY <1>0, <1>5 DEF StatusInv, ThreadsTyped, Start, chainVars
  <1>6. ASSUME \/ Joined \/ AddCommand
               \/ \E S \in SUBSET Worker : MineOrStop(S)
               \/ \E d \in Difficulties : DifficultyCommand(d)
               \/ \E s \in Offered : SyncCommand(s)
        PROVE ThreadsTyped'
    BY <1>0, <1>6, StatusAssumption DEF StatusInv, ThreadsTyped, Joined, AddCommand, MineOrStop,
       DifficultyCommand, SetDifficulty, SyncCommand, ReplaceIfLongerAndValid, Goto, chainVars
  <1>7. ASSUME UNCHANGED vars \/ (\E w \in Worker : Miss(w)) \/ TickerCheck \/ Tick
        PROVE ThreadsTyped'
    BY <1>7 DEF StatusInv, ThreadsTyped, Miss, TickerCheck, Tick, vars, chainVars
  <1> QED
    BY <1>1, <1>2, <1>3, <1>4, <1>5, <1>6, <1>7, StatusAssumption DEF Next, Mining

LEMMA StepKeepsTypes ==
    ASSUME StatusInv, [Next]_vars
    PROVE  StatusTypeOK'
  <1>0. /\ Height \in Nat /\ difficulty \in UInt32
        /\ Cardinality(Worker) \in Nat /\ MaxHashes \in Nat
        /\ 0 \in Nat /\ UInt32 \subseteq Nat /\ Difficulties \subseteq UInt32
    BY TipHeight, StatusAssumption, ChainAssumption, FS_CardinalityType DEF StatusInv, UInt32
  <1>1. StatusTypeOK /\ DifficultySeen
    BY DEF StatusInv
  <1>2. CASE /\ UNCHANGED << status, seen >>
             /\ UNCHANGED << stopFlag, threads, ticker, hashes >>
    BY <1>1, <1>2 DEF StatusTypeOK
  <1>3. ASSUME NEW t \in Client, Miss(t) \/ Found(t) PROVE StatusTypeOK'
    BY <1>0, <1>1, <1>3 DEF StatusTypeOK, Miss, Found, Goto, Count
  <1>4. ASSUME NEW t \in Client, ReadHeight(t) \/ ReadDifficulty(t) PROVE StatusTypeOK'
    BY <1>0, <1>1, <1>4 DEF StatusTypeOK, ReadHeight, ReadDifficulty, minerVars
  <1>5. ASSUME NEW t \in Client, StoreHeight(t) PROVE StatusTypeOK'
    BY <1>0, <1>1, <1>5 DEF StatusTypeOK, StoreHeight, minerVars
  <1>6. ASSUME NEW t \in Client, StoreDifficulty(t) PROVE StatusTypeOK'
    BY <1>0, <1>1, <1>6 DEF StatusTypeOK, DifficultySeen, StoreDifficulty, Goto, minerVars
  <1>7. ASSUME TickerCheck \/ Tick PROVE StatusTypeOK'
    BY <1>0, <1>1, <1>7 DEF StatusTypeOK, TickerCheck, Tick
  <1>8. ASSUME NEW S \in SUBSET Worker, MineOrStop(S) PROVE StatusTypeOK'
    BY <1>0, <1>1, <1>8 DEF StatusTypeOK, MineOrStop
  <1>9. ASSUME Joined PROVE StatusTypeOK'
    <2>1. 0 \in 0 .. Cardinality(Worker) /\ 0 \in 0 .. MaxHashes
      BY <1>0
    <2>2. /\ seen' = seen /\ ticker' = ticker /\ threads' = threads /\ stopFlag' = stopFlag
          /\ hashes' = hashes
          /\ status' = [status EXCEPT !.mining = FALSE, !.miningThreads = 0,
                                      !.hashesLastSecond = 0]
      BY <1>9 DEF Joined, minerVars
    <2> QED
      BY <1>1, <2>1, <2>2 DEF StatusTypeOK
  <1>10. ASSUME Start PROVE StatusTypeOK'
    <2>1. threads \subseteq Worker
      BY <1>1 DEF StatusTypeOK
    <2>2. Cardinality(threads) \in 0 .. Cardinality(Worker)
      BY <2>1, StatusAssumption, FS_Subset, FS_CardinalityType
    <2> QED
      BY <1>0, <1>1, <2>2, <1>10 DEF StatusTypeOK, Start
  <1>11. ASSUME NEW d \in Difficulties, DifficultyCommand(d) PROVE StatusTypeOK'
    BY <1>0, <1>1, <1>11 DEF StatusTypeOK, DifficultyCommand, minerVars
  <1>12. ASSUME \/ UNCHANGED vars \/ AddCommand
                \/ \E w \in Worker : LoopTop(w) \/ AbandonSearch(w)
                \/ \E t \in Client : Build(t) \/ AppendMined(t)
                \/ \E s \in Offered : SyncCommand(s)
         PROVE /\ UNCHANGED << status, seen >>
               /\ UNCHANGED << stopFlag, threads, ticker, hashes >>
    BY <1>12 DEF vars, minerVars, AddCommand, LoopTop, AbandonSearch, Build, AppendMined,
       SyncCommand
  <1> QED
    BY <1>2, <1>3, <1>4, <1>5, <1>6, <1>7, <1>8, <1>9, <1>10, <1>11, <1>12, StatusAssumption
    DEF Next, Mining

\* A read of the height is of the chain as it is; the chain only grows.
LEMMA StepKeepsShown ==
    ASSUME StatusInv, [Next]_vars
    PROVE  DifficultySeen' /\ HeightShownWasReached'
  <1>0. /\ Height \in Nat /\ Height' \in Nat /\ Height' >= Height /\ difficulty \in UInt32
        /\ Difficulties \subseteq UInt32
    <2>1. Len(blocks') \in Nat \ {0} /\ \A i \in 1 .. Len(blocks') : blocks'[i].height = i - 1
      BY StepKeepsChain, ViewSameBlocks
      DEF ChainView!ChainInv, ChainView!ChainTypeOK, ChainView!HeightIsPosition
    <2>2. Height' \in Nat
      BY <2>1 DEF Height, Tip
    <2> QED
      BY <2>2, TipHeight, StepKeepsChain, ChainAssumption DEF StatusInv
  <1>1. /\ DifficultySeen /\ HeightShownWasReached /\ pc \in [Client -> ThreadPc]
        /\ seen \in [Client -> Nat] /\ status.height \in Nat
    BY DEF StatusInv, StatusTypeOK, ThreadsTyped
  <1> DEFINE Shows(p) == p = "storeHeight" \/ p = "storeDifficulty"
  <1>2. ASSUME status'.height = status.height, seen' = seen,
               \A t \in Client : Shows(pc'[t]) => pc'[t] = pc[t]
        PROVE DifficultySeen' /\ HeightShownWasReached'
    BY <1>0, <1>1, <1>2 DEF DifficultySeen, HeightShownWasReached
  <1>3. ASSUME NEW t \in Client, ReadHeight(t) PROVE DifficultySeen' /\ HeightShownWasReached'
    BY <1>0, <1>1, <1>3 DEF DifficultySeen, HeightShownWasReached, ReadHeight, Goto, chainVars,
       Height, Tip
  <1>4. ASSUME NEW t \in Client, StoreHeight(t) PROVE DifficultySeen' /\ HeightShownWasReached'
    BY <1>0, <1>1, <1>4 DEF DifficultySeen, HeightShownWasReached, StoreHeight, Goto,
       StatusInv, StatusTypeOK
  <1>5. ASSUME NEW t \in Client, ReadDifficulty(t)
        PROVE  DifficultySeen' /\ HeightShownWasReached'
    BY <1>0, <1>1, <1>5 DEF DifficultySeen, HeightShownWasReached, ReadDifficulty, Goto
  <1>6. ASSUME NEW t \in Client, StoreDifficulty(t)
        PROVE  DifficultySeen' /\ HeightShownWasReached'
    BY <1>0, <1>1, <1>6 DEF DifficultySeen, HeightShownWasReached, StoreDifficulty, Goto,
       Home, StatusInv, StatusTypeOK
  <1>7. ASSUME NEW d \in Difficulties, DifficultyCommand(d)
        PROVE  DifficultySeen' /\ HeightShownWasReached'
    BY <1>0, <1>1, <1>7 DEF DifficultySeen, HeightShownWasReached, DifficultyCommand, Goto
  <1>8. ASSUME \/ UNCHANGED vars \/ AddCommand \/ TickerCheck \/ Tick \/ Joined \/ Start
               \/ \E w \in Worker : LoopTop(w) \/ AbandonSearch(w) \/ Miss(w)
               \/ \E t \in Client : Build(t) \/ Found(t) \/ AppendMined(t)
               \/ \E S \in SUBSET Worker : MineOrStop(S)
               \/ \E s \in Offered : SyncCommand(s)
        PROVE  /\ status'.height = status.height /\ seen' = seen
               /\ \A t \in Client : Shows(pc'[t]) => pc'[t] = pc[t]
    BY <1>8, <1>1, ZenonT(60) DEF vars, AddCommand, TickerCheck, Tick, Joined, Start, LoopTop, AbandonSearch,
       Miss, Build, Found, AppendMined, MineOrStop, SyncCommand, Goto, StatusInv, StatusTypeOK
  <1> QED
    BY <1>2, <1>3, <1>4, <1>5, <1>6, <1>7, <1>8 DEF Next, Mining

\* The shell clears the figures only once everything it joins is off, and nothing
\* starts but with the `mining` figure.
LEMMA StepKeepsQuiet ==
    ASSUME StatusInv, [Next]_vars
    PROVE  Quiet'
  <1>1. Quiet /\ pc \in [Client -> ThreadPc] /\ ticker \in {"off", "check", "sleep"}
        /\ status \in [height : Nat, difficulty : UInt32, mining : BOOLEAN,
                       miningThreads : 0 .. Cardinality(Worker), hashesLastSecond : 0 .. MaxHashes]
    BY DEF StatusInv, StatusTypeOK, ThreadsTyped
  <1>2. \A w \in Worker : w \in Client /\ w # Shell
    BY StatusAssumption
  <1>3. CASE Start
    BY <1>1, <1>3 DEF Start, Quiet
  <1>4. CASE Joined
    BY <1>1, <1>2, <1>4 DEF Joined, Quiet, Goto, minerVars
  <1>5. CASE TickerCheck \/ Tick
    BY <1>1, <1>5 DEF TickerCheck, Tick, Quiet
  <1>6. ASSUME NEW w \in Worker, LoopTop(w) \/ AbandonSearch(w) \/ Miss(w)
        PROVE  Quiet'
    BY <1>1, <1>2, <1>6 DEF LoopTop, AbandonSearch, Miss, Quiet, Goto, minerVars
  <1>7. ASSUME NEW t \in Client, Mining(t)
        PROVE  Quiet'
    BY <1>1, <1>2, <1>7 DEF Mining, Build, Found, AppendMined, ReadHeight, StoreHeight,
       ReadDifficulty, StoreDifficulty, Quiet, Goto, Home, minerVars
  <1>8. CASE \/ AddCommand
             \/ \E S \in SUBSET Worker : MineOrStop(S)
             \/ \E d \in Difficulties : DifficultyCommand(d)
             \/ \E s \in Offered : SyncCommand(s)
    BY <1>1, <1>2, <1>8 DEF AddCommand, MineOrStop, DifficultyCommand, SyncCommand, Quiet,
       Goto, minerVars
  <1>9. CASE UNCHANGED vars
    BY <1>1, <1>9 DEF vars, minerVars, Quiet
  <1> QED
    BY <1>3, <1>4, <1>5, <1>6, <1>7, <1>8, <1>9 DEF Next

------------------------------------------------------------------------------
\* What holds in every reachable state

\* Everything above at once: the threads that mine, refresh the figures and tick,
\* and the shell that starts and joins them (miner.hpp, main.cpp), keep it.
THEOREM StatusInvariant == Spec => []StatusInv
  <1>1. StatusInv /\ [Next]_vars => StatusInv'
    BY StepKeepsChain, StepKeepsTypes, StepMoves, StepKeepsShown, StepKeepsQuiet DEF StatusInv
  <1> QED
    BY <1>1, StatusInitEstablishes, PTL DEF Spec

\* Every figure keeps its type: the thread count shown is never above the number
\* of workers, the hash rate never above what was counted in a second, and the
\* difficulty is one a block can carry (NodeStatus, status.hpp).
THEOREM TypeCorrect == Spec => []StatusTypeOK
  <1>1. StatusInv => StatusTypeOK
    BY DEF StatusInv
  <1> QED
    BY <1>1, StatusInvariant, PTL

\* However the reads under the chain's mutex and the stores after it interleave,
\* no height is shown that the chain has not reached (miner.hpp:70, main.cpp:109).
THEOREM NoHeightAhead == Spec => []HeightShownWasReached
  <1>1. StatusInv => HeightShownWasReached
    BY DEF StatusInv
  <1> QED
    BY <1>1, StatusInvariant, PTL

\* Once mining is shown as stopped and the prompt is back, no worker runs and no
\* late tick of the hash-rate thread can show a rate again (Miner::stop).
THEOREM StopIsQuiet == Spec => []QuietWhenStopped
  <1>1. StatusInv => QuietWhenStopped
    BY DEF StatusInv, Quiet, QuietWhenStopped
  <1> QED
    BY <1>1, StatusInvariant, PTL

==============================================================================
