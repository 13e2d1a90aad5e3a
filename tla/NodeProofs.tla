------------------------------ MODULE NodeProofs ------------------------------
(***************************************************************************)
(* Safety of a node for any number of mining threads and peer handlers,    *)
(* any payments, texts and transactions, and any peer's chain.             *)
(***************************************************************************)
EXTENDS Node, SetInduction

------------------------------------------------------------------------------
\* The mempool alone, as MempoolSpec has it, seen through the node's variables.  A
\* rebuild may come at any time, so nothing is said of nonces.

\* Transactions whose receiver is what their type asks for.
SoundTx == { tx \in Transaction : WellTyped(tx) }

PoolView == INSTANCE MempoolProofs WITH Txs <- SoundTx, MaxNonce <- 0, steady <- FALSE

LEMMA PoolViewSameData ==
    /\ PoolView!Transaction = Transaction /\ PoolView!StoreSet = StoreSet
    /\ \A tx : PoolView!WellTyped(tx) = WellTyped(tx)
    /\ PoolView!OnePerSender = OnePerSender
  BY DEF Transaction, StoreSet, U64, TxType, WellTyped, OnePerSender, SendersOf,
         PoolView!Transaction, PoolView!StoreSet, PoolView!U64, PoolView!TxType,
         PoolView!WellTyped, PoolView!OnePerSender, PoolView!SendersOf

LEMMA PoolViewConstants ==
    /\ PoolView!StateStoreAssumption /\ PoolView!MempoolAssumption
    /\ PoolView!MempoolSpecAssumption
  BY StateStoreAssumption, MempoolAssumption, PoolViewSameData
  DEF PoolView!StateStoreAssumption, PoolView!MempoolAssumption,
      PoolView!MempoolSpecAssumption, SoundTx

------------------------------------------------------------------------------
\* What blocks do to the accounts (state/account.hpp): types

LEMMA PoolViewSameStore ==
    /\ PoolView!EmptyStore = EmptyStore
    /\ \A s, line : PoolView!ApplyCoinbase(s, line) = ApplyCoinbase(s, line)
    /\ \A s, tx : PoolView!ApplyTx(s, tx) = ApplyTx(s, tx)
  BY DEF EmptyStore, ApplyCoinbase, ApplyTx, CanRegister, CanTransfer, InOrder, Register,
         Transfer, Wrap, PoolView!EmptyStore, PoolView!ApplyCoinbase, PoolView!ApplyTx,
         PoolView!CanRegister, PoolView!CanTransfer, PoolView!InOrder, PoolView!Register,
         PoolView!Transfer, PoolView!Wrap

LEMMA EmptyStoreType == EmptyStore \in StoreSet
  BY PoolView!EmptyStoreType, PoolViewConstants, PoolViewSameData, PoolViewSameStore

LEMMA ApplyCoinbaseType ==
    ASSUME NEW s \in StoreSet, NEW line, line.receiver \in Address, line.amount \in Nat
    PROVE  ApplyCoinbase(s, line) \in StoreSet
  BY PoolView!ApplyCoinbaseType, PoolViewConstants, PoolViewSameData, PoolViewSameStore

LEMMA ApplyTxType ==
    ASSUME NEW s \in StoreSet, NEW tx \in Transaction, WellTyped(tx)
    PROVE  ApplyTx(s, tx) \in StoreSet
  BY PoolView!ApplyTxType, PoolViewConstants, PoolViewSameData, PoolViewSameStore

LEMMA ApplyLineType ==
    ASSUME NEW s \in StoreSet, NEW line \in StoreLine
    PROVE  ApplyLine(s, line) \in StoreSet
  <1>1. CASE line \in CoinbaseLine
    BY <1>1, ApplyCoinbaseType DEF ApplyLine, CoinbaseLine, U64
  <1>2. CASE line \in TextLine \cup MalformedLine
    BY <1>2 DEF ApplyLine, TextLine, MalformedLine
  <1>3. CASE line \in Transaction /\ WellTyped(line)
    <2>1. line.kind = "tx"
      BY <1>3 DEF Transaction
    <2>2. ApplyLine(s, line) = s \/ ApplyLine(s, line) = ApplyTx(s, line)
      BY <2>1 DEF ApplyLine
    <2> QED
      BY <1>3, <2>2, ApplyTxType
  <1> QED
    BY <1>1, <1>2, <1>3 DEF StoreLine

------------------------------------------------------------------------------
\* The registry of names

\* usernameOf and resolveUsername agree: the name an account shows is its own.
NamesAgree(s) ==
    \A a \in Address : s.username[a] # NoName => s.owner[s.username[a]] = a

\* No name is taken from its owner on the way from s to t.
OwnersStay(s, t) ==
    \A n \in Name : s.owner[n] # NoAddress => t.owner[n] = s.owner[n]

\* Only Register touches the registry, and only for a name that is free.
LEMMA ApplyLineNames ==
    ASSUME NEW s \in StoreSet, NEW line \in StoreLine
    PROVE  /\ NamesAgree(s) => NamesAgree(ApplyLine(s, line))
           /\ OwnersStay(s, ApplyLine(s, line))
  <1> DEFINE t == ApplyLine(s, line)
  <1>1. CASE t.username = s.username /\ t.owner = s.owner
    BY <1>1 DEF NamesAgree, OwnersStay
  <1>2. CASE line \in Transaction /\ WellTyped(line) /\ CanRegister(s, line) /\ ~ LineThrows(line)
    <2>1. /\ line.receiver \in Name /\ line.sender \in Address
          /\ s.owner[line.receiver] = NoAddress
      BY <1>2 DEF CanRegister, WellTyped, Transaction
    <2>2. t = Register(s, line)
      <3>1. line.kind = "tx" /\ ~ CanTransfer(s, line)
        BY <1>2 DEF Transaction, CanRegister, CanTransfer
      <3> QED
        BY <1>2, <3>1 DEF ApplyLine, ApplyTx
    <2>3. /\ t.username = [s.username EXCEPT ![line.sender] = line.receiver]
          /\ t.owner = [s.owner EXCEPT ![line.receiver] = line.sender]
      BY <2>2 DEF Register, StoreSet
    <2>4. OwnersStay(s, t)
      BY <2>1, <2>3 DEF OwnersStay, StoreSet
    <2>5. ASSUME NamesAgree(s), NEW a \in Address, t.username[a] # NoName
          PROVE  t.owner[t.username[a]] = a
      <3>1. CASE a = line.sender
        BY <2>1, <2>3, <3>1 DEF StoreSet
      <3>2. CASE a # line.sender
        <4>1. t.username[a] = s.username[a] /\ s.username[a] \in Name
          BY <2>3, <2>5, <3>2 DEF StoreSet
        <4>2. s.owner[s.username[a]] = a
          BY <2>5, <4>1 DEF NamesAgree
        <4>3. s.username[a] # line.receiver
          BY <2>1, <4>2, StateStoreAssumption
        <4> QED
          BY <2>3, <4>1, <4>2, <4>3 DEF StoreSet
      <3> QED
        BY <3>1, <3>2
    <2> QED
      BY <2>4, <2>5 DEF NamesAgree
  <1>3. CASE line \in Transaction /\ (~ CanRegister(s, line) \/ LineThrows(line))
    <2>1. t = s \/ t = Transfer(s, line)
      BY <1>3 DEF ApplyLine, ApplyTx, Transaction
    <2> QED
      BY <1>1, <2>1 DEF Transfer, StoreSet
  <1>4. CASE line \in CoinbaseLine \cup TextLine \cup MalformedLine
    <2>1. t = s \/ t = ApplyCoinbase(s, line)
      BY <1>4 DEF ApplyLine, CoinbaseLine, TextLine, MalformedLine
    <2> QED
      BY <1>1, <2>1 DEF ApplyCoinbase, StoreSet
  <1> QED
    BY <1>2, <1>3, <1>4 DEF StoreLine

------------------------------------------------------------------------------
\* The lines of a block

\* A list of changes to the store can be applied one after the other.
LEMMA StoreIteration ==
    ASSUME NEW s \in StoreSet, NEW N \in Nat,
           NEW step \in [1 .. N -> [StoreSet -> StoreSet]]
    PROVE  \E f \in [0 .. N -> StoreSet] :
              f[0] = s /\ \A n \in 1 .. N : f[n] = step[n][f[n - 1]]
  BY Iteration

\* The recursion of AfterLines has a solution: each line's store is the one
\* before it with that line applied.
LEMMA AfterLinesStep ==
    ASSUME NEW s \in StoreSet, NEW txs \in Seq(StoreLine)
    PROVE  /\ AfterLines(s, txs)[0] = s
           /\ \A n \in 1 .. Len(txs) :
                AfterLines(s, txs)[n] = ApplyLine(AfterLines(s, txs)[n - 1], txs[n])
  <1> DEFINE step == [n \in 1 .. Len(txs) |-> [x \in StoreSet |-> ApplyLine(x, txs[n])]]
  <1>1. step \in [1 .. Len(txs) -> [StoreSet -> StoreSet]]
    BY ApplyLineType
  <1>2. PICK f \in [0 .. Len(txs) -> StoreSet] :
          f[0] = s /\ \A n \in 1 .. Len(txs) : f[n] = step[n][f[n - 1]]
    <2> HIDE DEF step
    <2>1. Len(txs) \in Nat
      OBVIOUS
    <2> QED
      BY <1>1, <2>1, StoreIteration
  <1>3. ASSUME NEW n \in 1 .. Len(txs) PROVE f[n] = ApplyLine(f[n - 1], txs[n])
    <2>1. f[n] = step[n][f[n - 1]] /\ f[n - 1] \in StoreSet
      <3> HIDE DEF step
      <3> QED
        BY <1>2
    <2>2. step[n] = [x \in StoreSet |-> ApplyLine(x, txs[n])]
      OBVIOUS
    <2> HIDE DEF step
    <2> QED
      BY <2>1, <2>2
  <1> DEFINE Solves(g) == g = [n \in 0 .. Len(txs) |->
                                 IF n = 0 THEN s ELSE ApplyLine(g[n - 1], txs[n])]
  <1>4. Solves(f)
    BY <1>2, <1>3
  <1>5. AfterLines(s, txs) = CHOOSE g : Solves(g)
    BY DEF AfterLines
  <1>6. Solves(AfterLines(s, txs))
    <2> HIDE DEF Solves
    <2> QED
      BY <1>4, <1>5
  <1> QED
    BY <1>6

\* Every line keeps what applyBlock may rely on: types, and names that agree.
LEMMA AfterLinesGood ==
    ASSUME NEW s \in StoreSet, NEW txs \in Seq(StoreLine), NEW n \in 0 .. Len(txs)
    PROVE  /\ AfterLines(s, txs)[n] \in StoreSet
           /\ NamesAgree(s) => NamesAgree(AfterLines(s, txs)[n])
           /\ OwnersStay(s, AfterLines(s, txs)[n])
  <1> DEFINE f == AfterLines(s, txs)
             Fine(m) == /\ f[m] \in StoreSet
                        /\ NamesAgree(s) => NamesAgree(f[m])
                        /\ OwnersStay(s, f[m])
             Good == { m \in Nat : m \in 0 .. Len(txs) => Fine(m) }
  <1>1. 0 \in Good
    BY AfterLinesStep DEF OwnersStay
  <1>2. ASSUME NEW m \in Nat, m \in Good PROVE m + 1 \in Good
    <2> SUFFICES ASSUME m + 1 \in 0 .. Len(txs) PROVE Fine(m + 1)
      OBVIOUS
    <2>1. Fine(m)
      BY <1>2
    <2>2. f[m + 1] = ApplyLine(f[m], txs[m + 1]) /\ txs[m + 1] \in StoreLine
      <3>1. m + 1 \in 1 .. Len(txs) /\ (m + 1) - 1 = m
        OBVIOUS
      <3> HIDE DEF f
      <3>2. f[m + 1] = ApplyLine(f[(m + 1) - 1], txs[m + 1])
        BY <3>1, AfterLinesStep DEF f
      <3> QED
        BY <3>1, <3>2
    <2> HIDE DEF f
    <2>3. f[m + 1] \in StoreSet /\ (NamesAgree(f[m]) => NamesAgree(f[m + 1]))
      BY <2>1, <2>2, ApplyLineType, ApplyLineNames
    <2>4. OwnersStay(f[m], f[m + 1])
      BY <2>1, <2>2, ApplyLineNames
    <2>5. OwnersStay(s, f[m + 1])
      BY <2>1, <2>4 DEF OwnersStay
    <2> QED
      BY <2>1, <2>3, <2>5
  <1>3. Nat \subseteq Good
    <2> HIDE DEF Good
    <2> QED
      BY <1>1, <1>2, NaturalsInSet
  <1>4. n \in Good
    <2> HIDE DEF Good
    <2> QED
      BY <1>3
  <1> QED
    BY <1>4

\* applyBlock keeps the types and the registry of names.
LEMMA ApplyBlockGood ==
    ASSUME NEW s \in StoreSet, NEW b, b.txs \in Seq(StoreLine)
    PROVE  /\ ApplyBlock(s, b) \in StoreSet
           /\ NamesAgree(s) => NamesAgree(ApplyBlock(s, b))
           /\ OwnersStay(s, ApplyBlock(s, b))
  <1>1. Len(b.txs) \in 0 .. Len(b.txs)
    OBVIOUS
  <1> QED
    BY <1>1, AfterLinesGood DEF ApplyBlock

\* A block with one text, such as a genesis block or one mined by `add`, changes
\* no account.
LEMMA TextBlockSkipped ==
    ASSUME NEW s \in StoreSet, NEW b, NEW text \in TextLine, b.txs = << text >>
    PROVE  ApplyBlock(s, b) = s
  <1>1. b.txs \in Seq(StoreLine) /\ Len(b.txs) = 1 /\ b.txs[1] = text
    BY DEF StoreLine
  <1>2. ASSUME NEW txs \in Seq(StoreLine), Len(txs) = 1, txs[1] = text
        PROVE  AfterLines(s, txs)[1] = s
    <2>1. AfterLines(s, txs)[1] = ApplyLine(s, text)
      <3>1. 1 \in 1 .. Len(txs) /\ 1 - 1 = 0
        BY <1>2
      <3> QED
        BY <1>2, <3>1, AfterLinesStep
    <2> QED
      BY <2>1 DEF ApplyLine, TextLine
  <1> QED
    BY <1>1, <1>2 DEF ApplyBlock

------------------------------------------------------------------------------
\* Replaying a list of blocks

\* All that matters of a list of blocks here: their lines are lines.
ReplayList(bs) == Len(bs) \in Nat /\ \A i \in 1 .. Len(bs) : bs[i].txs \in Seq(StoreLine)

LEMMA AfterBlocksStep ==
    ASSUME NEW bs, ReplayList(bs)
    PROVE  /\ AfterBlocks(bs)[0] = EmptyStore
           /\ \A n \in 1 .. Len(bs) :
                AfterBlocks(bs)[n] = ApplyBlock(AfterBlocks(bs)[n - 1], bs[n])
  <1> DEFINE step == [n \in 1 .. Len(bs) |-> [x \in StoreSet |-> ApplyBlock(x, bs[n])]]
  <1>1. step \in [1 .. Len(bs) -> [StoreSet -> StoreSet]]
    BY ApplyBlockGood DEF ReplayList
  <1>2. PICK f \in [0 .. Len(bs) -> StoreSet] :
          f[0] = EmptyStore /\ \A n \in 1 .. Len(bs) : f[n] = step[n][f[n - 1]]
    <2> HIDE DEF step
    <2>1. Len(bs) \in Nat
      BY DEF ReplayList
    <2> QED
      BY <1>1, <2>1, StoreIteration, EmptyStoreType
  <1>3. ASSUME NEW n \in 1 .. Len(bs) PROVE f[n] = ApplyBlock(f[n - 1], bs[n])
    <2>1. f[n] = step[n][f[n - 1]] /\ f[n - 1] \in StoreSet
      <3> HIDE DEF step
      <3> QED
        BY <1>2 DEF ReplayList
    <2>2. step[n] = [x \in StoreSet |-> ApplyBlock(x, bs[n])]
      OBVIOUS
    <2> HIDE DEF step
    <2> QED
      BY <2>1, <2>2
  <1> DEFINE Solves(g) == g = [n \in 0 .. Len(bs) |->
                                 IF n = 0 THEN EmptyStore ELSE ApplyBlock(g[n - 1], bs[n])]
  <1>4. Solves(f)
    BY <1>2, <1>3
  <1>5. AfterBlocks(bs) = CHOOSE g : Solves(g)
    BY DEF AfterBlocks
  <1>6. Solves(AfterBlocks(bs))
    <2> HIDE DEF Solves
    <2> QED
      BY <1>4, <1>5
  <1>7. Len(bs) \in Nat
    BY DEF ReplayList
  <1> QED
    BY <1>6, <1>7

LEMMA AfterBlocksType ==
    ASSUME NEW bs, ReplayList(bs), NEW n \in 0 .. Len(bs)
    PROVE  AfterBlocks(bs)[n] \in StoreSet
  <1> DEFINE f == AfterBlocks(bs)
             Good == { m \in Nat : m \in 0 .. Len(bs) => f[m] \in StoreSet }
  <1>1. 0 \in Good
    BY AfterBlocksStep, EmptyStoreType
  <1>2. ASSUME NEW m \in Nat, m \in Good PROVE m + 1 \in Good
    <2> SUFFICES ASSUME m + 1 \in 0 .. Len(bs) PROVE f[m + 1] \in StoreSet
      OBVIOUS
    <2>1. m + 1 \in 1 .. Len(bs) /\ (m + 1) - 1 = m /\ f[m] \in StoreSet
      BY <1>2 DEF ReplayList
    <2> HIDE DEF f
    <2>2. f[m + 1] = ApplyBlock(f[(m + 1) - 1], bs[m + 1])
      BY <2>1, AfterBlocksStep DEF f
    <2> QED
      BY <2>1, <2>2, ApplyBlockGood DEF ReplayList
  <1>3. Nat \subseteq Good
    <2> HIDE DEF Good
    <2> QED
      BY <1>1, <1>2, NaturalsInSet
  <1>4. n \in Good
    <2> HIDE DEF Good
    <2> QED
      BY <1>3
  <1> QED
    BY <1>4

\* Lists that agree up to a block determine the same accounts up to it.
LEMMA AfterBlocksLocal ==
    ASSUME NEW bs, ReplayList(bs), NEW cs, ReplayList(cs), NEW k \in Nat,
           k <= Len(bs), k <= Len(cs), \A i \in 1 .. k : bs[i] = cs[i],
           NEW n \in 0 .. k
    PROVE  AfterBlocks(bs)[n] = AfterBlocks(cs)[n]
  <1> DEFINE f == AfterBlocks(bs)
             g == AfterBlocks(cs)
             Good == { m \in Nat : m \in 0 .. k => f[m] = g[m] }
  <1>1. 0 \in Good
    BY AfterBlocksStep
  <1>2. ASSUME NEW m \in Nat, m \in Good PROVE m + 1 \in Good
    <2> SUFFICES ASSUME m + 1 \in 0 .. k PROVE f[m + 1] = g[m + 1]
      OBVIOUS
    <2>1. /\ m + 1 \in 1 .. Len(bs) /\ m + 1 \in 1 .. Len(cs) /\ (m + 1) - 1 = m
          /\ f[m] = g[m] /\ bs[m + 1] = cs[m + 1]
      BY <1>2 DEF ReplayList
    <2> HIDE DEF f, g
    <2>2. /\ f[m + 1] = ApplyBlock(f[(m + 1) - 1], bs[m + 1])
          /\ g[m + 1] = ApplyBlock(g[(m + 1) - 1], cs[m + 1])
      BY <2>1, AfterBlocksStep DEF f, g
    <2> QED
      BY <2>1, <2>2
  <1>3. Nat \subseteq Good
    <2> HIDE DEF Good
    <2> QED
      BY <1>1, <1>2, NaturalsInSet
  <1>4. n \in Good
    <2> HIDE DEF Good
    <2> QED
      BY <1>3
  <1> QED
    BY <1>4

\* What the accounts owe to the last block is that block's lines.
LEMMA ReplayAppend ==
    ASSUME NEW B, NEW bs \in Seq(B), NEW b \in B, \A c \in B : c.txs \in Seq(StoreLine)
    PROVE  Replay(Append(bs, b)) = ApplyBlock(Replay(bs), b)
  <1> DEFINE cs == Append(bs, b)
             n == Len(bs)
  <1>1. n \in Nat /\ Len(cs) = n + 1 /\ cs[n + 1] = b /\ \A i \in 1 .. n : cs[i] = bs[i]
    OBVIOUS
  <1>2. ReplayList(bs) /\ ReplayList(cs)
    BY DEF ReplayList
  <1> HIDE DEF cs, n
  <1>3. n <= Len(bs) /\ n <= Len(cs) /\ n \in 0 .. n /\ n + 1 \in 1 .. Len(cs) /\ (n + 1) - 1 = n
    BY <1>1 DEF n
  <1>4. AfterBlocks(cs)[n + 1] = ApplyBlock(AfterBlocks(cs)[(n + 1) - 1], cs[n + 1])
    BY <1>2, <1>3, AfterBlocksStep
  <1>5. AfterBlocks(bs)[n] = AfterBlocks(cs)[n]
    BY <1>1, <1>2, <1>3, AfterBlocksLocal
  <1>6. Replay(bs) = AfterBlocks(bs)[n] /\ Replay(cs) = AfterBlocks(cs)[n + 1]
    BY <1>1 DEF Replay, n
  <1>7. Replay(cs) = ApplyBlock(Replay(bs), b)
    BY <1>1, <1>3, <1>4, <1>5, <1>6
  <1> QED
    BY <1>7 DEF cs

------------------------------------------------------------------------------
\* The chain alone, as ChainSpec has it, seen through the node's variables.  Any
\* lines may be mined and any list of blocks may be offered.

ChainView == INSTANCE ChainProofs WITH
    GenesisLine <- Text, TxLines <- Seq(Line), Offered <- Seq(BlockSet)

LEMMA ViewSameBlocks ==
    /\ ChainView!BlockSet = BlockSet
    /\ ChainView!Header = Header
    /\ ChainView!UInt32 = UInt32
    /\ ChainView!ZeroDigest = ZeroDigest
    /\ \A b : ChainView!ComputeHash(b) = ComputeHash(b)
    /\ \A h, d : ChainView!MeetsDifficulty(h, d) = MeetsDifficulty(h, d)
    /\ \A b : ChainView!MineBlock(b) = MineBlock(b)
  BY DEF BlockSet, Header, UInt32, Zeros, Digest, ZeroDigest, HeaderOf, ComputeHash,
         LeadingZeroHexDigits, AsInt, MeetsDifficulty, MineBlock,
         ChainView!BlockSet, ChainView!Header, ChainView!UInt32, ChainView!Zeros,
         ChainView!Digest, ChainView!ZeroDigest, ChainView!HeaderOf, ChainView!ComputeHash,
         ChainView!LeadingZeroHexDigits, ChainView!AsInt, ChainView!MeetsDifficulty,
         ChainView!MineBlock

LEMMA ViewSameActions ==
    /\ \A c, txs : ChainView!BuildCandidate(c, txs) = BuildCandidate(c, txs)
    /\ \A c : ChainView!FindNonce(c) = FindNonce(c)
    /\ \A c : ChainView!TryAppend(c) = TryAppend(c)
    /\ \A c : ChainView!Discard(c) = Discard(c)
    /\ \A d : ChainView!SetDifficulty(d) = SetDifficulty(d)
    /\ \A s : ChainView!ReplaceIfLongerAndValid(s) = ReplaceIfLongerAndValid(s)
  BY DEF ComputeHash, HeaderOf, MineBlock, MeetsDifficulty, LeadingZeroHexDigits, AsInt, Zeros,
         Tip, BuildCandidate, FindNonce, CanAppend, TryAppend, Discard, SetDifficulty,
         ValidLinks, CanReplace, ReplaceIfLongerAndValid,
         ChainView!ComputeHash, ChainView!HeaderOf, ChainView!MineBlock,
         ChainView!MeetsDifficulty, ChainView!LeadingZeroHexDigits, ChainView!AsInt,
         ChainView!Zeros, ChainView!Tip, ChainView!BuildCandidate, ChainView!FindNonce,
         ChainView!CanAppend, ChainView!TryAppend, ChainView!Discard,
         ChainView!SetDifficulty, ChainView!ValidLinks, ChainView!CanReplace,
         ChainView!ReplaceIfLongerAndValid

LEMMA ViewConstants ==
    ChainView!BlockAssumption /\ ChainView!ChainAssumption /\ ChainView!ChainSpecAssumption
  BY BlockAssumption, ChainAssumption, NodeAssumption, ViewSameBlocks
  DEF ChainView!BlockAssumption, ChainView!ChainAssumption, ChainView!ChainSpecAssumption,
      StoreLine, TextLine, Text

------------------------------------------------------------------------------
\* Types, and what each thread relies on at each point

WorkerPc == {"off", "top", "take", "build", "search", "append", "apply", "ended"}
ShellPc == {"idle", "joining", "build", "search", "append", "replace", "clear", "rebuild", "ended"}

ThreadsTyped ==
    /\ pc \in [Client -> WorkerPc \cup ShellPc]
    /\ \A w \in Worker : pc[w] \in WorkerPc
    /\ pc[Shell] \in ShellPc
    /\ lines \in [Client -> Seq(Line)]
    /\ stopFlag \in BOOLEAN /\ threads \subseteq Worker
    /\ fetched \in Seq(BlockSet) /\ applied \in Seq(BlockSet)

\* Only sound transactions are queued, and who holds the mutex has one in hand.
PoolTyped ==
    /\ pending \in Seq(SoundTx)
    /\ adding \in [Submitter -> SoundTx \cup {NoTx}]
    /\ lockHolder \in Submitter \cup {NoThread}
    /\ lockHolder # NoThread => adding[lockHolder] # NoTx

StoreTyped == store \in StoreSet /\ NamesAgree(store)

\* A client that is about to append has mined its candidate, a worker that is
\* about to apply still has it, and a rebuild under way has blocks to go.
HandsFull ==
    /\ \A t \in Client : pc[t] = "append" =>
         candidate[t] # NoBlock /\ candidate[t].height <= MaxHeight
    /\ \A w \in Worker : pc[w] = "apply" => candidate[w] # NoBlock
    /\ pc[Shell] \in {"clear", "rebuild"} => fetched # << >>

NodeInv ==
    /\ ChainView!ChainInv
    /\ ThreadsTyped
    /\ PoolTyped
    /\ StoreTyped
    /\ HandsFull

\* What the chain's invariant says in the node's own terms.
LEMMA ChainTyped ==
    ASSUME ChainView!ChainInv
    PROVE  /\ blocks \in Seq(BlockSet) /\ blocks # << >> /\ Len(blocks) \in Nat \ {0}
           /\ difficulty \in UInt32
           /\ candidate \in [Client -> BlockSet \cup {NoBlock}]
           /\ \A i \in 1 .. Len(blocks) : blocks[i].height = i - 1
  BY ViewSameBlocks
  DEF ChainView!ChainInv, ChainView!ChainTypeOK, ChainView!HeightIsPosition

\* An exception that nothing catches ends every thread and changes nothing else.
LEMMA ThrowsEnd ==
    ASSUME \/ RebuildThrows
           \/ \E w \in Worker : TakeThrows(w)
    PROVE  /\ pc' = [u \in Client |-> "ended"]
           /\ UNCHANGED << chainVars, mempoolVars, store, lines, shellVars, applied >>
  BY DEF TakeThrows, RebuildThrows, Terminate

\* Each step of the node is a step of the chain alone, or leaves the chain be.
LEMMA StepOfChain ==
    ASSUME NodeInv, [Next]_vars
    PROVE  [ChainView!Next]_<< blocks, difficulty, candidate >>
  <1> USE DEF NodeInv
  <1>1. ASSUME NEW t \in Client, Build(t) PROVE ChainView!Next
    <2>1. lines[t] \in Seq(Line)
      BY DEF ThreadsTyped
    <2> QED
      BY <1>1, <2>1, ViewSameActions DEF Build, ChainView!Next
  <1>2. ASSUME NEW t \in Client, Found(t) PROVE ChainView!Next
    BY <1>2, ViewSameActions DEF Found, ChainView!Next
  <1>3. ASSUME NEW w \in Worker, AbandonSearch(w) \/ ApplyMined(w) PROVE ChainView!Next
    BY <1>3, ViewSameActions, NodeAssumption DEF AbandonSearch, ApplyMined, ChainView!Next
  <1>4. ASSUME NEW w \in Worker, AppendMined(w) PROVE ChainView!Next
    <2>1. w \in Client /\ candidate[w] # NoBlock /\ candidate[w].height <= MaxHeight
      BY <1>4, NodeAssumption DEF HandsFull, AppendMined, Goto
    <2>2. TryAppend(w) /\ (UNCHANGED candidate \/ Discard(w))
      BY <1>4 DEF AppendMined
    <2> QED
      BY <2>1, <2>2, ViewSameActions DEF ChainView!Next
  <1>5. ASSUME AppendAdded PROVE ChainView!Next
    <2>1. Shell \in Client /\ candidate[Shell] # NoBlock /\ candidate[Shell].height <= MaxHeight
      BY <1>5, NodeAssumption DEF HandsFull, AppendAdded, Goto
    <2>2. TryAppend(Shell) /\ Discard(Shell)
      BY <1>5 DEF AppendAdded
    <2> QED
      BY <2>1, <2>2, ViewSameActions DEF ChainView!Next
  <1>6. ASSUME NEW d \in Difficulties, DifficultyCommand(d) PROVE ChainView!Next
    BY <1>6, ViewSameActions DEF DifficultyCommand, ChainView!Next
  <1>7. ASSUME Replace PROVE ChainView!Next
    BY <1>7, ViewSameActions DEF Replace, ThreadsTyped, ChainView!Next
  <1>8. ASSUME \/ UNCHANGED vars
               \/ \E w \in Worker : LoopTop(w) \/ TakePending(w) \/ TakeThrows(w)
               \/ \E h \in Handler : HandleTx(h)
               \/ \E t \in Submitter : AddStep(t)
               \/ SendCommand \/ RegisterCommand \/ Joined \/ Fetch \/ ClearStore \/ RebuildBlock
               \/ RebuildThrows
               \/ \E S \in SUBSET Worker : MineOrStop(S)
               \/ \E text \in AddLines : AddCommand(text)
        PROVE  UNCHANGED << blocks, difficulty, candidate >>
    BY <1>8, ThrowsEnd
    DEF vars, chainVars, LoopTop, TakePending, HandleTx, AddStep, SendCommand, RegisterCommand,
        Joined, Fetch, ClearStore, RebuildBlock, MineOrStop, AddCommand
  <1>9. Shell \in Client /\ Worker \subseteq Client
    BY NodeAssumption
  <1> QED
    BY <1>1, <1>2, <1>3, <1>4, <1>5, <1>6, <1>7, <1>8, <1>9 DEF Next, WorkerStep, ShellStep

------------------------------------------------------------------------------
\* What goes into blocks, and what arrives from a peer, are lines and blocks

LEMMA SoundTxIsLine == SoundTx \subseteq Line /\ SoundTx \subseteq Transaction
  BY NodeAssumption DEF SoundTx, StoreLine

LEMMA CoinbaseIsLine == Coinbase(Own, Reward) \in Line /\ Text \in Line /\ Malformed \in Line
  BY NodeAssumption
  DEF Coinbase, CoinbaseLine, Text, TextLine, Malformed, MalformedLine, StoreLine

\* A broken-off coinbase is a coinbase, or a text, or throws.
LEMMA FragmentsType ==
    ASSUME NEW line \in Line
    PROVE  Fragments(line) \subseteq Line
  <1>1. ASSUME line.kind = "coinbase", NEW n \in LeadingDigits(line.amount)
        PROVE  [line EXCEPT !.amount = n] \in Line
    <2>1. line \in CoinbaseLine
      BY <1>1, NodeAssumption DEF StoreLine, TextLine, MalformedLine, Transaction
    <2>2. n \in 1 .. line.amount /\ line.amount \in U64
      BY <1>1, <2>1 DEF LeadingDigits, CoinbaseLine
    <2>3. n \in U64
      BY <2>2, StateStoreAssumption DEF U64
    <2>4. [line EXCEPT !.amount = n] \in CoinbaseLine
      BY <2>1, <2>3 DEF CoinbaseLine
    <2> QED
      BY <2>4, NodeAssumption DEF StoreLine
  <1>2. ASSUME NEW f \in Fragments(line), f \notin {Text, Malformed}
        PROVE  line.kind = "coinbase" /\ \E n \in LeadingDigits(line.amount) : f = [line EXCEPT !.amount = n]
    BY <1>2 DEF Fragments
  <1> QED
    BY <1>1, <1>2, CoinbaseIsLine

LEMMA CutBlocksType ==
    ASSUME NEW b \in BlockSet
    PROVE  CutBlocks(b) \subseteq BlockSet
  <1> SUFFICES ASSUME NEW c \in CutBlocks(b) PROVE c \in BlockSet
    OBVIOUS
  <1>1. PICK n \in 0 .. Len(b.txs) - 1 : c \in CutAfter(b, n)
    BY DEF CutBlocks
  <1>2. PICK tail \in BrokenTails(b, n), z \in Zeros :
          c = CutTo(b, SubSeq(b.txs, 1, n) \o tail, z)
    BY <1>1 DEF CutAfter
  <1>3. b.txs \in Seq(Line)
    BY DEF BlockSet
  <1>4. n + 1 \in 1 .. Len(b.txs) /\ b.txs[n + 1] \in Line
    BY <1>3
  <1>5. tail \in Seq(Line)
    <2>1. CASE tail = << >>
      BY <2>1
    <2>2. ASSUME NEW f \in Fragments(b.txs[n + 1]), tail = << f >> PROVE tail \in Seq(Line)
      <3>1. f \in Line
        BY <1>4, FragmentsType
      <3> QED
        BY <2>2, <3>1
    <2> QED
      BY <2>1, <2>2 DEF BrokenTails
  <1>6. SubSeq(b.txs, 1, n) \in Seq(Line)
    BY <1>3
  <1>7. SubSeq(b.txs, 1, n) \o tail \in Seq(Line)
    BY <1>5, <1>6
  <1> QED
    BY <1>2, <1>7 DEF BlockSet, CutTo

\* Whatever of a chain arrives is a list of blocks.
LEMMA ReceivedType ==
    ASSUME NEW bs \in Seq(BlockSet)
    PROVE  Received(bs) \subseteq Seq(BlockSet)
  <1>1. ASSUME NEW n \in 0 .. Len(bs) PROVE SubSeq(bs, 1, n) \in Seq(BlockSet)
    OBVIOUS
  <1>2. ASSUME NEW n \in 1 .. Len(bs), NEW b \in CutBlocks(bs[n])
        PROVE  Append(SubSeq(bs, 1, n - 1), b) \in Seq(BlockSet)
    <2>1. b \in BlockSet
      BY CutBlocksType
    <2>2. SubSeq(bs, 1, n - 1) \in Seq(BlockSet)
      OBVIOUS
    <2> QED
      BY <2>1, <2>2
  <1>3. ASSUME NEW r \in Received(bs), r \notin { SubSeq(bs, 1, n) : n \in 0 .. Len(bs) }
        PROVE  r \in Seq(BlockSet)
    <2>1. PICK n \in 1 .. Len(bs) : r \in { Append(SubSeq(bs, 1, n - 1), b) : b \in CutBlocks(bs[n]) }
      BY <1>3 DEF Received
    <2> QED
      BY <1>2, <2>1
  <1> QED
    BY <1>1, <1>3

\* take() hands out sound transactions and keeps sound transactions.
LEMMA TakenType ==
    ASSUME PoolTyped
    PROVE  /\ Taken \in Seq(SoundTx)
           /\ SubSeq(pending, TakeCount + 1, Len(pending)) \in Seq(SoundTx)
           /\ << Coinbase(Own, Reward) >> \o Taken \in Seq(Line)
  <1>1. TakeCount \in 0 .. Len(pending) /\ pending \in Seq(SoundTx)
    BY MempoolAssumption DEF TakeCount, PoolTyped
  <1>2. Taken \in Seq(SoundTx)
    BY <1>1 DEF Taken
  <1>3. SubSeq(pending, TakeCount + 1, Len(pending)) \in Seq(SoundTx)
    BY <1>1
  <1>4. Taken \in Seq(Line)
    BY <1>2, SoundTxIsLine
  <1>5. << Coinbase(Own, Reward) >> \in Seq(Line)
    BY CoinbaseIsLine
  <1> QED
    BY <1>2, <1>3, <1>4, <1>5

------------------------------------------------------------------------------
\* The invariant holds at first

LEMMA NodeInitEstablishes == Init => NodeInv
  <1> SUFFICES ASSUME Init PROVE NodeInv
    OBVIOUS
  <1>1. ChainView!ChainInv
    <2>1. ChainView!ChainInit(Text)
      BY ViewSameBlocks
      DEF Init, ChainInit, GenesisTemplate, ChainView!ChainInit, ChainView!GenesisTemplate
    <2> QED
      BY <2>1, ViewConstants, ChainView!InitEstablishes
  <1>2. ThreadsTyped
    BY NodeAssumption DEF Init, ThreadsTyped, WorkerPc, ShellPc
  <1>3. PoolTyped
    BY DEF Init, MempoolInit, PoolTyped
  <1>4. StoreTyped
    BY EmptyStoreType DEF Init, StoreTyped, NamesAgree, EmptyStore
  <1>5. HandsFull
    BY NodeAssumption DEF Init, HandsFull
  <1> QED
    BY <1>1, <1>2, <1>3, <1>4, <1>5 DEF NodeInv

------------------------------------------------------------------------------
\* ... and each step preserves each part of it

LEMMA StepKeepsChain ==
    ASSUME NodeInv, [Next]_vars
    PROVE  ChainView!ChainInv'
  <1>1. [ChainView!Next]_ChainView!chainVars
    BY StepOfChain DEF ChainView!chainVars
  <1> QED
    BY <1>1, ViewConstants, ChainView!NextPreserves DEF NodeInv

\* `send` and `register-username` make sound transactions; peers send them.
LEMMA CallsAreSound ==
    ASSUME NodeInv, SendCommand \/ RegisterCommand \/ \E h \in Handler : HandleTx(h)
    PROVE  \E t \in Submitter, tx \in SoundTx : CallAdd(t, tx)
  <1>0. StoreTyped
    BY DEF NodeInv
  <1>1. Shell \in Submitter /\ Handler \subseteq Submitter
    BY NodeAssumption
  <1>2. CASE SendCommand
    <2>1. PICK p \in Payments :
            CallAdd(Shell, CreateSigned(Own, p.receiver, p.amount, store.nonce[Own]))
      BY <1>2 DEF SendCommand
    <2>2. p.receiver \in Address /\ p.amount \in U64 /\ Own \in Address /\ store.nonce[Own] \in U64
      BY <1>0, NodeAssumption DEF StoreTyped, StoreSet
    <2>3. CreateSigned(Own, p.receiver, p.amount, store.nonce[Own]) \in SoundTx
      BY <2>2 DEF CreateSigned, SoundTx, Transaction, WellTyped, TxType
    <2> QED
      BY <1>1, <2>1, <2>3
  <1>3. CASE RegisterCommand
    <2>1. PICK n \in Usernames :
            CallAdd(Shell, CreateUsernameRegistration(Own, n, store.nonce[Own]))
      BY <1>3 DEF RegisterCommand
    <2>2. n \in Name /\ Own \in Address /\ store.nonce[Own] \in U64 /\ 0 \in U64
      BY <1>0, NodeAssumption, StateStoreAssumption DEF StoreTyped, StoreSet, U64
    <2>3. CreateUsernameRegistration(Own, n, store.nonce[Own]) \in SoundTx
      BY <2>2 DEF CreateUsernameRegistration, SoundTx, Transaction, WellTyped, TxType
    <2> QED
      BY <1>1, <2>1, <2>3
  <1>4. ASSUME NEW h \in Handler, HandleTx(h)
        PROVE  \E t \in Submitter, tx \in SoundTx : CallAdd(t, tx)
    <2>1. PICK tx \in PeerTxs : CallAdd(h, tx)
      BY <1>4 DEF HandleTx
    <2>2. tx \in SoundTx
      BY NodeAssumption DEF SoundTx
    <2> QED
      BY <1>1, <2>1, <2>2
  <1> QED
    BY <1>2, <1>3, <1>4

LEMMA StepKeepsPool ==
    ASSUME NodeInv, [Next]_vars
    PROVE  PoolTyped'
  <1> USE DEF PoolTyped
  <1>0. PoolTyped /\ ThreadsTyped /\ StoreTyped
    BY DEF NodeInv
  <1>1. ASSUME NEW t \in Submitter, NEW tx \in SoundTx, CallAdd(t, tx) PROVE PoolTyped'
    BY <1>0, <1>1 DEF CallAdd
  <1>2. ASSUME NEW t \in Submitter, CheckNonce(t) PROVE PoolTyped'
    BY <1>0, <1>2 DEF CheckNonce
  <1>3. ASSUME NEW t \in Submitter, FinishAdd(t) PROVE PoolTyped'
    <2>1. adding[t] \in SoundTx
      BY <1>0, <1>3, MempoolAssumption DEF FinishAdd
    <2> QED
      BY <1>0, <1>3, <2>1 DEF FinishAdd
  <1>4. ASSUME Take PROVE PoolTyped'
    BY <1>0, <1>4, TakenType DEF Take
  <1>6. ASSUME SendCommand \/ RegisterCommand \/ \E h \in Handler : HandleTx(h) PROVE PoolTyped'
    BY <1>1, <1>6, CallsAreSound DEF NodeInv
  <1>9. ASSUME UNCHANGED mempoolVars PROVE PoolTyped'
    BY <1>0, <1>9 DEF mempoolVars
  <1>10. ASSUME \/ UNCHANGED vars
                \/ \E w \in Worker : \/ LoopTop(w) \/ Build(w) \/ Found(w) \/ AbandonSearch(w)
                                     \/ AppendMined(w) \/ ApplyMined(w) \/ TakeThrows(w)
                \/ Joined \/ AppendAdded \/ Build(Shell) \/ Found(Shell)
                \/ Fetch \/ Replace \/ ClearStore \/ RebuildBlock \/ RebuildThrows
                \/ \E S \in SUBSET Worker : MineOrStop(S)
                \/ \E d \in Difficulties : DifficultyCommand(d)
                \/ \E text \in AddLines : AddCommand(text)
         PROVE  UNCHANGED mempoolVars
    BY <1>10, ThrowsEnd
    DEF vars, LoopTop, Build, Found, AbandonSearch, AppendMined, ApplyMined, Joined, AppendAdded,
        Fetch, Replace, ClearStore, RebuildBlock, MineOrStop, DifficultyCommand, AddCommand
  <1> QED
    BY <1>2, <1>3, <1>4, <1>6, <1>9, <1>10
    DEF Next, WorkerStep, ShellStep, AddStep, TakePending

LEMMA StepKeepsThreads ==
    ASSUME NodeInv, [Next]_vars
    PROVE  ThreadsTyped'
  <1> USE DEF ThreadsTyped
  <1>0. ThreadsTyped /\ PoolTyped
    BY DEF NodeInv
  <1>a. /\ Shell \in Client /\ Worker \subseteq Client /\ Shell \notin Worker
        /\ Client = Worker \cup {Shell}
        /\ << >> \in Seq(Line) /\ << >> \in Seq(BlockSet)
    BY NodeAssumption
  <1>b. ChainView!ChainInv
    BY DEF NodeInv
  <1>1. ASSUME NEW w \in Worker, NEW to \in WorkerPc, NEW from, Goto(w, from, to),
               lines' = lines \/ lines' = [lines EXCEPT ![w] = << >>],
               UNCHANGED << shellVars, applied >>
        PROVE  ThreadsTyped'
    BY <1>0, <1>1, <1>a DEF Goto, shellVars
  <1>2. ASSUME NEW w \in Worker, \/ LoopTop(w) \/ Build(w) \/ Found(w) \/ AbandonSearch(w)
                                 \/ AppendMined(w)
        PROVE  ThreadsTyped'
    BY <1>1, <1>2 DEF LoopTop, Build, Found, AbandonSearch, AppendMined, WorkerPc
  <1>3. ASSUME NEW w \in Worker, TakePending(w) PROVE ThreadsTyped'
    <2>1. << Coinbase(Own, Reward) >> \o Taken \in Seq(Line)
      BY <1>0, TakenType
    <2> QED
      BY <1>0, <1>3, <1>a, <2>1 DEF TakePending, Goto, shellVars, WorkerPc
  <1>4. ASSUME NEW w \in Worker, ApplyMined(w) PROVE ThreadsTyped'
    <2>1. candidate[w] \in BlockSet
      BY <1>4, <1>a, <1>b, ChainTyped DEF ApplyMined, Goto, HandsFull, NodeInv
    <2> QED
      BY <1>0, <1>4, <1>a, <2>1 DEF ApplyMined, Goto, shellVars, WorkerPc
  <1>5. ASSUME NEW to \in ShellPc, NEW from, Goto(Shell, from, to),
               lines' = lines, UNCHANGED << shellVars, applied >>
        PROVE  ThreadsTyped'
    BY <1>0, <1>5, <1>a DEF Goto, shellVars
  <1>6. ASSUME Build(Shell) \/ Found(Shell) PROVE ThreadsTyped'
    BY <1>5, <1>6 DEF Build, Found, ShellPc
  <1>7. ASSUME Joined PROVE ThreadsTyped'
    BY <1>0, <1>7, <1>a DEF Joined, WorkerPc, ShellPc
  <1>8. ASSUME NEW S \in SUBSET Worker, MineOrStop(S) PROVE ThreadsTyped'
    BY <1>0, <1>8, <1>a DEF MineOrStop, Goto, ShellPc
  <1>9. ASSUME NEW text \in AddLines, AddCommand(text) PROVE ThreadsTyped'
    <2>1. << text >> \in Seq(Line)
      BY NodeAssumption
    <2> QED
      BY <1>0, <1>9, <1>a, <2>1 DEF AddCommand, Goto, shellVars, ShellPc
  <1>10. ASSUME AppendAdded PROVE ThreadsTyped'
    <2>1. lines[Shell] \in Seq(Line)
      BY <1>0, <1>a
    <2> QED
      BY <1>0, <1>10, <1>a, <2>1 DEF AppendAdded, Goto, shellVars, ShellPc
  <1>11. ASSUME Fetch PROVE ThreadsTyped'
    <2>1. fetched' \in Seq(BlockSet)
      BY <1>11, ReceivedType, NodeAssumption DEF Fetch
    <2> QED
      BY <1>0, <1>11, <1>a, <2>1 DEF Fetch, Goto, ShellPc
  <1>12. ASSUME Replace PROVE ThreadsTyped'
    BY <1>0, <1>12, <1>a DEF Replace, Goto, ShellPc
  <1>13. ASSUME ClearStore PROVE ThreadsTyped'
    BY <1>0, <1>13, <1>a DEF ClearStore, Goto, shellVars, ShellPc
  <1>14. ASSUME RebuildBlock PROVE ThreadsTyped'
    <2>1. fetched \in Seq(BlockSet) /\ fetched # << >>
      BY <1>0, <1>14 DEF RebuildBlock, Goto, HandsFull, NodeInv
    <2>2. fetched[1] \in BlockSet /\ Tail(fetched) \in Seq(BlockSet)
      BY <2>1
    <2> QED
      BY <1>0, <1>14, <1>a, <2>2 DEF RebuildBlock, Goto, ShellPc
  <1>15. ASSUME \/ UNCHANGED vars
                \/ \E h \in Handler : HandleTx(h)
                \/ \E t \in Submitter : AddStep(t)
                \/ \E d \in Difficulties : DifficultyCommand(d)
                \/ SendCommand \/ RegisterCommand
         PROVE  ThreadsTyped'
    <2>1. UNCHANGED nodeVars
      BY <1>15 DEF vars, HandleTx, AddStep, DifficultyCommand, SendCommand, RegisterCommand
    <2> QED
      BY <1>0, <2>1 DEF nodeVars, shellVars
  <1>16. ASSUME RebuildThrows \/ \E w \in Worker : TakeThrows(w) PROVE ThreadsTyped'
    BY <1>0, <1>16, <1>a, ThrowsEnd DEF shellVars, WorkerPc, ShellPc
  <1> QED
    BY <1>2, <1>3, <1>4, <1>6, <1>7, <1>8, <1>9, <1>10, <1>11, <1>12, <1>13, <1>14, <1>15, <1>16
    DEF Next, WorkerStep, ShellStep

\* A step that tells the store of a block keeps the registry as applyBlock does.
LEMMA AppliedStore ==
    ASSUME StoreTyped, NEW b \in BlockSet
    PROVE  /\ ApplyBlock(store, b) \in StoreSet
           /\ NamesAgree(ApplyBlock(store, b))
           /\ OwnersStay(store, ApplyBlock(store, b))
  <1>1. b.txs \in Seq(StoreLine)
    BY NodeAssumption DEF BlockSet
  <1> QED
    BY <1>1, ApplyBlockGood DEF StoreTyped

\* What a step may do to the store.
LEMMA StoreStep ==
    ASSUME NodeInv, [Next]_vars
    PROVE  \/ store' = store \/ store' = EmptyStore
           \/ \E b \in BlockSet : store' = ApplyBlock(store, b)
  <1>1. ASSUME NEW w \in Worker, ApplyMined(w)
        PROVE  \E b \in BlockSet : store' = ApplyBlock(store, b)
    <2>1. candidate[w] \in BlockSet
      BY <1>1, NodeAssumption, ChainTyped DEF ApplyMined, Goto, HandsFull, NodeInv
    <2> QED
      BY <1>1, <2>1 DEF ApplyMined
  <1>2. ASSUME RebuildBlock
        PROVE  \E b \in BlockSet : store' = ApplyBlock(store, b)
    <2>1. fetched \in Seq(BlockSet) /\ fetched # << >>
      BY <1>2 DEF RebuildBlock, Goto, HandsFull, ThreadsTyped, NodeInv
    <2>2. fetched[1] \in BlockSet
      BY <2>1
    <2> QED
      BY <1>2, <2>2 DEF RebuildBlock
  <1>3. ASSUME ClearStore PROVE store' = EmptyStore
    BY <1>3 DEF ClearStore
  <1>4. ASSUME ~ ClearStore, ~ RebuildBlock, \A w \in Worker : ~ ApplyMined(w)
        PROVE  store' = store
    BY <1>4, ThrowsEnd
    DEF Next, WorkerStep, ShellStep, vars, LoopTop, TakePending, Build, Found, AbandonSearch,
        AppendMined, HandleTx, AddStep, SendCommand, RegisterCommand, Joined, AppendAdded,
        MineOrStop, DifficultyCommand, AddCommand, Fetch, Replace
  <1> QED
    BY <1>1, <1>2, <1>3, <1>4

LEMMA StepKeepsStore ==
    ASSUME NodeInv, [Next]_vars
    PROVE  StoreTyped'
  <1>1. StoreTyped
    BY DEF NodeInv
  <1>2. EmptyStore \in StoreSet /\ NamesAgree(EmptyStore)
    BY EmptyStoreType DEF NamesAgree, EmptyStore
  <1> QED
    BY <1>1, <1>2, StoreStep, AppliedStore DEF StoreTyped


LEMMA StepKeepsHands ==
    ASSUME NodeInv, [Next]_vars
    PROVE  HandsFull'
  <1> USE DEF HandsFull
  <1>0. HandsFull /\ ThreadsTyped /\ ChainView!ChainInv
    BY DEF NodeInv
  <1>a. Shell \in Client /\ Worker \subseteq Client /\ Shell \notin Worker
    BY NodeAssumption
  <1>b. candidate \in [Client -> BlockSet \cup {NoBlock}] /\ pc \in [Client -> WorkerPc \cup ShellPc]
    BY <1>0, ChainTyped DEF ThreadsTyped
  <1>1. ASSUME NEW t \in Client, NEW from, NEW to, Goto(t, from, to),
               to \notin {"append", "apply", "clear", "rebuild"},
               \A u \in Client \ {t} : candidate'[u] = candidate[u], fetched' = fetched
        PROVE  HandsFull'
    BY <1>0, <1>1, <1>a, <1>b DEF Goto
  <1>2. ASSUME NEW t \in Client, Build(t) PROVE HandsFull'
    <2>1. \A u \in Client \ {t} : candidate'[u] = candidate[u]
      BY <1>2, <1>b DEF Build, BuildCandidate
    <2>2. Goto(t, "build", "search") /\ fetched' = fetched
      BY <1>2 DEF Build, shellVars
    <2> QED
      BY <1>1, <2>1, <2>2
  <1>3. ASSUME NEW t \in Client, Found(t) PROVE HandsFull'
    <2>1. FindNonce(t) /\ Goto(t, "search", "append") /\ fetched' = fetched
      BY <1>3 DEF Found, shellVars
    <2>2. PICK m \in MineBlock(candidate[t]) : candidate' = [candidate EXCEPT ![t] = m]
      BY <2>1 DEF FindNonce
    <2>3. candidate[t] \in BlockSet /\ candidate[t].height <= MaxHeight
      BY <2>1, <1>b DEF FindNonce
    <2>4. m \in BlockSet /\ m.height = candidate[t].height
      <3>1. candidate[t] \in ChainView!BlockSet /\ m \in ChainView!MineBlock(candidate[t])
        BY <2>3, ViewSameBlocks
      <3> QED
        BY <3>1, ViewConstants, ViewSameBlocks, ChainView!MineBlockType
    <2>5. m # NoBlock
      BY <2>4, ChainAssumption
    <2> QED
      BY <1>0, <1>a, <1>b, <2>1, <2>2, <2>3, <2>4, <2>5 DEF Goto
  <1>4. ASSUME NEW w \in Worker, LoopTop(w) \/ TakePending(w) PROVE HandsFull'
    <2>1. UNCHANGED << candidate, fetched >>
      BY <1>4 DEF LoopTop, TakePending, chainVars, shellVars
    <2> QED
      BY <1>1, <1>4, <1>a, <2>1 DEF LoopTop, TakePending
  <1>5. ASSUME NEW w \in Worker, AbandonSearch(w) \/ ApplyMined(w) PROVE HandsFull'
    <2>1. \A u \in Client \ {w} : candidate'[u] = candidate[u]
      BY <1>5, <1>b DEF AbandonSearch, ApplyMined, Discard
    <2>2. fetched' = fetched
      BY <1>5 DEF AbandonSearch, ApplyMined, shellVars
    <2> QED
      BY <1>1, <1>5, <1>a, <2>1, <2>2 DEF AbandonSearch, ApplyMined
  <1>6. ASSUME NEW w \in Worker, AppendMined(w) PROVE HandsFull'
    <2>1. pc[w] = "append" /\ fetched' = fetched
      BY <1>6 DEF AppendMined, Goto, shellVars
    <2>2. CASE CanAppend(candidate[w])
      <3>1. UNCHANGED candidate /\ pc' = [pc EXCEPT ![w] = "apply"]
        BY <1>6, <2>2 DEF AppendMined, Goto
      <3> QED
        BY <1>0, <1>a, <1>b, <2>1, <3>1
    <2>3. CASE ~ CanAppend(candidate[w])
      <3>1. Discard(w) /\ Goto(w, "append", "top")
        BY <1>6, <2>3 DEF AppendMined
      <3>2. \A u \in Client \ {w} : candidate'[u] = candidate[u]
        BY <3>1, <1>b DEF Discard
      <3> QED
        BY <1>1, <1>a, <2>1, <3>1, <3>2
    <2> QED
      BY <2>2, <2>3
  <1>7. ASSUME AppendAdded PROVE HandsFull'
    <2>1. \A u \in Client \ {Shell} : candidate'[u] = candidate[u]
      BY <1>7, <1>b DEF AppendAdded, Discard
    <2>2. fetched' = fetched
      BY <1>7 DEF AppendAdded, shellVars
    <2> QED
      BY <1>1, <1>7, <1>a, <2>1, <2>2 DEF AppendAdded
  <1>8. ASSUME Joined PROVE HandsFull'
    <2>1. UNCHANGED << candidate, fetched >>
      BY <1>8 DEF Joined, chainVars
    <2>2. \A t \in Client : pc'[t] \in {"idle", "top", "off"}
      BY <1>8 DEF Joined
    <2> QED
      BY <1>a, <2>1, <2>2
  <1>9. ASSUME \/ \E S \in SUBSET Worker : MineOrStop(S)
               \/ \E text \in AddLines : AddCommand(text)
        PROVE  HandsFull'
    <2>1. UNCHANGED << candidate, fetched >>
      BY <1>9 DEF MineOrStop, AddCommand, chainVars, shellVars
    <2> QED
      BY <1>1, <1>9, <1>a, <2>1 DEF MineOrStop, AddCommand
  <1>10. ASSUME Fetch PROVE HandsFull'
    BY <1>0, <1>10, <1>a, <1>b DEF Fetch, Goto, chainVars
  <1>11. ASSUME Replace PROVE HandsFull'
    BY <1>0, <1>11, <1>a, <1>b DEF Replace, ReplaceIfLongerAndValid, CanReplace, Goto
  <1>12. ASSUME ClearStore PROVE HandsFull'
    BY <1>0, <1>12, <1>a, <1>b DEF ClearStore, Goto, chainVars, shellVars
  <1>13. ASSUME RebuildBlock PROVE HandsFull'
    <2>1. fetched \in Seq(BlockSet) /\ fetched # << >> /\ fetched' = Tail(fetched)
      BY <1>0, <1>13 DEF RebuildBlock, Goto, ThreadsTyped
    <2>2. CASE Len(fetched) = 1
      BY <1>0, <1>13, <1>a, <1>b, <2>2 DEF RebuildBlock, Goto, chainVars
    <2>3. CASE Len(fetched) # 1
      <3>1. fetched' # << >>
        <4>1. Len(Tail(fetched)) = Len(fetched) - 1 /\ Len(fetched) \in Nat /\ Len(fetched) # 0
          BY <2>1
        <4>2. Len(fetched') # 0
          BY <2>1, <2>3, <4>1
        <4> QED
          BY <4>2
      <3> QED
        BY <1>0, <1>13, <1>a, <1>b, <2>3, <3>1 DEF RebuildBlock, Goto, chainVars
    <2> QED
      BY <2>2, <2>3
  <1>14. ASSUME \/ UNCHANGED vars
                \/ \E h \in Handler : HandleTx(h)
                \/ \E t \in Submitter : AddStep(t)
                \/ \E d \in Difficulties : DifficultyCommand(d)
                \/ SendCommand \/ RegisterCommand
         PROVE  HandsFull'
    <2>1. UNCHANGED << candidate, nodeVars >>
      BY <1>14
      DEF vars, HandleTx, AddStep, DifficultyCommand, SetDifficulty, SendCommand,
          RegisterCommand, chainVars
    <2> QED
      BY <1>0, <2>1 DEF nodeVars, shellVars
  <1>15. ASSUME RebuildThrows \/ \E w \in Worker : TakeThrows(w) PROVE HandsFull'
    BY <1>15, <1>a, ThrowsEnd
  <1> QED
    BY <1>2, <1>3, <1>4, <1>5, <1>6, <1>7, <1>8, <1>9, <1>10, <1>11, <1>12, <1>13, <1>14, <1>15,
       <1>a
    DEF Next, WorkerStep, ShellStep

------------------------------------------------------------------------------
\* The node's invariant: a typed state in which the chain's own invariant holds
\* and every thread has at hand what its next step uses.
THEOREM NodeInvariant == Spec => []NodeInv
  <1>1. NodeInv /\ [Next]_vars => NodeInv'
    BY StepKeepsChain, StepKeepsThreads, StepKeepsPool, StepKeepsStore, StepKeepsHands
    DEF NodeInv
  <1> QED
    BY <1>1, NodeInitEstablishes, PTL DEF Spec

\* Type correctness of the node: in particular no balance falls below zero and
\* no thread dereferences what it does not have.
THEOREM TypeCorrect == Spec => []NodeTypeOK
  <1>1. NodeInv => NodeTypeOK
    <2> SUFFICES ASSUME NodeInv PROVE NodeTypeOK
      OBVIOUS
    <2>1. /\ blocks \in Seq(BlockSet) /\ blocks # << >>
          /\ candidate \in [Client -> BlockSet \cup {NoBlock}]
      BY ChainTyped DEF NodeInv
    <2>2. pending \in Seq(Transaction)
      BY SoundTxIsLine DEF NodeInv, PoolTyped
    <2> QED
      BY <2>1, <2>2
      DEF NodeTypeOK, NodeInv, ThreadsTyped, StoreTyped, WorkerPc, ShellPc
  <1> QED
    BY <1>1, NodeInvariant, PTL

\* The name an account shows resolves to that account (usernameOf and
\* resolveUsername, account.hpp), in the middle of a rebuild too and however
\* the miners and a rebuild interleave.
THEOREM NamesResolve == Spec => []NamesResolveBack
  <1>1. NodeInv => NamesResolveBack
    BY DEF NodeInv, StoreTyped, NamesAgree, NamesResolveBack
  <1> QED
    BY <1>1, NodeInvariant, PTL

\* A registered name keeps its owner until a rebuild empties the store
\* (applyTxLocked refuses a name that is taken).
THEOREM NamesStay == Spec => NamesKeepOwner
  <1>1. NodeInv /\ [Next]_vars =>
          [store' # EmptyStore =>
             \A n \in Name : store.owner[n] # NoAddress => store'.owner[n] = store.owner[n]]_vars
    <2> SUFFICES ASSUME NodeInv, [Next]_vars, store' # EmptyStore,
                        NEW n \in Name, store.owner[n] # NoAddress
                 PROVE  store'.owner[n] = store.owner[n]
      OBVIOUS
    <2>1. CASE store' = store
      BY <2>1
    <2>2. ASSUME NEW b \in BlockSet, store' = ApplyBlock(store, b)
          PROVE  store'.owner[n] = store.owner[n]
      BY <2>2, AppliedStore DEF OwnersStay, NodeInv
    <2> QED
      BY <2>1, <2>2, StoreStep
  <1> QED
    BY <1>1, NodeInvariant, PTL DEF Spec, NamesKeepOwner

------------------------------------------------------------------------------
\* The node implements the chain

\* The chain inside a node behaves as the chain on its own does, clients that
\* call it in any order and a peer that offers anything: whatever threads do
\* between their calls, and wherever a rebuild has got to.
THEOREM ImplementsChain == Spec => ChainView!Spec
  <1>1. Init => ChainView!ChainInit(Text)
    BY ViewSameBlocks
    DEF Init, ChainInit, GenesisTemplate, ChainView!ChainInit, ChainView!GenesisTemplate
  <1>2. NodeInv /\ [Next]_vars => [ChainView!Next]_ChainView!chainVars
    BY StepOfChain DEF ChainView!chainVars
  <1> QED
    BY <1>1, <1>2, NodeInvariant, PTL DEF Spec, ChainView!Spec


------------------------------------------------------------------------------
\* Transactions on their way into a block

\* A client's candidate carries its lines from the build to the append, and
\* between blocks it holds neither.
HandAgrees(t) ==
    /\ pc[t] \in {"search", "append"} => candidate[t] # NoBlock /\ candidate[t].txs = lines[t]
    /\ pc[t] \notin {"search", "append", "apply", "ended"} => candidate[t] = NoBlock
    /\ pc[t] \notin {"build", "search", "append", "ended"} => lines[t] = << >>

HandsAgree == \A t \in Client : HandAgrees(t)

LEMMA HandsAgreeAtFirst == Init => HandsAgree
  BY NodeAssumption DEF Init, ChainInit, HandsAgree, HandAgrees

LEMMA StepKeepsHandsAgreed ==
    ASSUME NodeInv, HandsAgree, [Next]_vars
    PROVE  HandsAgree'
  <1> USE DEF HandAgrees
  <1>0. HandsAgree /\ HandsFull /\ ThreadsTyped /\ ChainView!ChainInv
    BY DEF NodeInv
  <1>a. Shell \in Client /\ Worker \subseteq Client /\ Shell \notin Worker
    BY NodeAssumption
  <1>b. /\ candidate \in [Client -> BlockSet \cup {NoBlock}]
        /\ pc \in [Client -> WorkerPc \cup ShellPc]
        /\ lines \in [Client -> Seq(Line)]
    BY <1>0, ChainTyped DEF ThreadsTyped
  <1>1. ASSUME NEW t \in Client, NEW from, NEW to, Goto(t, from, to), HandAgrees(t)',
               \A u \in Client \ {t} : candidate'[u] = candidate[u] /\ lines'[u] = lines[u]
        PROVE  HandsAgree'
    <2> SUFFICES ASSUME NEW u \in Client, u # t PROVE HandAgrees(u)'
      BY <1>1 DEF HandsAgree
    <2>1. pc'[u] = pc[u] /\ candidate'[u] = candidate[u] /\ lines'[u] = lines[u] /\ HandAgrees(u)
      BY <1>0, <1>1, <1>b DEF Goto, HandsAgree
    <2> QED
      BY <2>1
  <1>2. ASSUME NEW t \in Client, NEW from, NEW to, Goto(t, from, to),
               UNCHANGED << candidate, lines >>,
               {from, to} \cap {"build", "search", "append", "apply", "ended"} = {}
        PROVE  HandsAgree'
    <2>1. HandAgrees(t)'
      BY <1>0, <1>2, <1>b DEF Goto, HandsAgree
    <2> QED
      BY <1>1, <1>2, <2>1
  <1>3. ASSUME NEW t \in Client, Build(t) PROVE HandsAgree'
    <2>1. PICK s \in Clock : candidate' = [candidate EXCEPT ![t] =
            [height |-> Tip.height + 1, stamp |-> s, difficulty |-> difficulty,
             zeros |-> 0, txs |-> lines[t], prev |-> ComputeHash(Tip)]]
      BY <1>3 DEF Build, BuildCandidate
    <2>2. Goto(t, "build", "search") /\ UNCHANGED lines
      BY <1>3 DEF Build
    <2>3. ChainView!ChainInv'
      BY StepKeepsChain
    <2>4. candidate' \in [Client -> BlockSet \cup {NoBlock}]
      BY <2>3, ViewSameBlocks DEF ChainView!ChainInv, ChainView!ChainTypeOK
    <2>5. candidate'[t].txs = lines[t] /\ candidate'[t].height = Tip.height + 1
      BY <1>b, <2>1
    <2>6. candidate'[t] # NoBlock
      <3>1. lines[t] \in Seq(Line) /\ difficulty \in UInt32
        BY <1>0, <1>b, ChainTyped
      <3>2. Tip \in BlockSet /\ ComputeHash(Tip) \in Digest /\ Tip.height + 1 \in Nat
        <4>1. Tip \in BlockSet
          BY <1>0, ChainTyped DEF Tip
        <4>2. Tip.height \in Nat /\ Tip.prev \in Digest /\ HeaderOf(Tip) \in Header
          BY <4>1 DEF BlockSet, HeaderOf, Header
        <4> QED
          BY <4>1, <4>2 DEF ComputeHash, Digest
      <3>3. 0 \in Zeros /\ s \in Stamp
        BY BlockAssumption, ChainAssumption DEF Zeros
      <3>4. candidate'[t] \in BlockSet
        BY <1>b, <2>1, <3>1, <3>2, <3>3 DEF BlockSet
      <3> QED
        BY <3>4, ChainAssumption
    <2>7. HandAgrees(t)'
      BY <1>b, <2>2, <2>5, <2>6 DEF Goto
    <2>8. \A u \in Client \ {t} : candidate'[u] = candidate[u] /\ lines'[u] = lines[u]
      BY <1>b, <2>1, <2>2
    <2> QED
      BY <1>1, <2>2, <2>7, <2>8
  <1>4. ASSUME NEW t \in Client, Found(t) PROVE HandsAgree'
    <2>1. FindNonce(t) /\ Goto(t, "search", "append") /\ UNCHANGED lines
      BY <1>4 DEF Found
    <2>2. PICK m \in MineBlock(candidate[t]) : candidate' = [candidate EXCEPT ![t] = m]
      BY <2>1 DEF FindNonce
    <2>3. candidate[t] \in BlockSet
      BY <2>1, <1>b DEF FindNonce
    <2>4. m \in BlockSet /\ m.txs = candidate[t].txs
      BY <2>3 DEF MineBlock, BlockSet
    <2>5. HandAgrees(t)'
      BY <1>0, <1>b, <2>1, <2>2, <2>4, ChainAssumption DEF Goto, HandsAgree
    <2>6. \A u \in Client \ {t} : candidate'[u] = candidate[u] /\ lines'[u] = lines[u]
      BY <1>b, <2>1, <2>2
    <2> QED
      BY <1>1, <2>1, <2>5, <2>6
  <1>5. ASSUME NEW w \in Worker, LoopTop(w) PROVE HandsAgree'
    BY <1>2, <1>5, <1>a DEF LoopTop, chainVars
  <1>6. ASSUME NEW w \in Worker, TakePending(w) PROVE HandsAgree'
    <2>1. Goto(w, "take", "build") /\ UNCHANGED candidate
      BY <1>6 DEF TakePending, chainVars
    <2>2. \A u \in Client \ {w} : candidate'[u] = candidate[u] /\ lines'[u] = lines[u]
      BY <1>6, <1>b, <2>1 DEF TakePending
    <2>3. HandAgrees(w)'
      BY <1>0, <1>a, <1>b, <2>1 DEF Goto, HandsAgree
    <2> QED
      BY <1>1, <1>a, <2>1, <2>2, <2>3
  <1>7. ASSUME NEW w \in Worker, AbandonSearch(w) PROVE HandsAgree'
    <2>1. Goto(w, "search", "off") /\ Discard(w) /\ lines' = [lines EXCEPT ![w] = << >>]
      BY <1>7 DEF AbandonSearch
    <2>2. HandAgrees(w)' /\ \A u \in Client \ {w} : candidate'[u] = candidate[u] /\ lines'[u] = lines[u]
      BY <1>a, <1>b, <2>1 DEF Goto, Discard
    <2> QED
      BY <1>1, <1>a, <2>1, <2>2
  <1>8. ASSUME NEW w \in Worker, AppendMined(w) PROVE HandsAgree'
    <2>1. lines' = [lines EXCEPT ![w] = << >>]
      BY <1>8 DEF AppendMined
    <2>2. CASE CanAppend(candidate[w])
      <3>1. Goto(w, "append", "apply") /\ UNCHANGED candidate
        BY <1>8, <2>2 DEF AppendMined
      <3>2. HandAgrees(w)' /\ \A u \in Client \ {w} : candidate'[u] = candidate[u] /\ lines'[u] = lines[u]
        BY <1>a, <1>b, <2>1, <3>1 DEF Goto
      <3> QED
        BY <1>1, <1>a, <3>1, <3>2
    <2>3. CASE ~ CanAppend(candidate[w])
      <3>1. Goto(w, "append", "top") /\ Discard(w)
        BY <1>8, <2>3 DEF AppendMined
      <3>2. HandAgrees(w)' /\ \A u \in Client \ {w} : candidate'[u] = candidate[u] /\ lines'[u] = lines[u]
        BY <1>a, <1>b, <2>1, <3>1 DEF Goto, Discard
      <3> QED
        BY <1>1, <1>a, <3>1, <3>2
    <2> QED
      BY <2>2, <2>3
  <1>9. ASSUME NEW w \in Worker, ApplyMined(w) PROVE HandsAgree'
    <2>1. Goto(w, "apply", "top") /\ Discard(w) /\ UNCHANGED lines
      BY <1>9 DEF ApplyMined
    <2>2. HandAgrees(w)' /\ \A u \in Client \ {w} : candidate'[u] = candidate[u] /\ lines'[u] = lines[u]
      BY <1>0, <1>a, <1>b, <2>1 DEF Goto, Discard, HandsAgree
    <2> QED
      BY <1>1, <1>a, <2>1, <2>2
  <1>10. ASSUME Joined PROVE HandsAgree'
    <2>1. UNCHANGED << candidate, lines >> /\ \A t \in Client : pc[t] \in {"joining", "off"}
      BY <1>10, NodeAssumption DEF Joined, chainVars
    <2>2. \A t \in Client : pc'[t] \in {"idle", "top", "off"}
      BY <1>10 DEF Joined
    <2> QED
      BY <1>0, <2>1, <2>2 DEF HandsAgree
  <1>11. ASSUME NEW text \in AddLines, AddCommand(text) PROVE HandsAgree'
    <2>1. Goto(Shell, "idle", "build") /\ UNCHANGED candidate
      BY <1>11 DEF AddCommand, chainVars
    <2>2. \A u \in Client \ {Shell} : candidate'[u] = candidate[u] /\ lines'[u] = lines[u]
      BY <1>11, <1>b, <2>1 DEF AddCommand
    <2>3. HandAgrees(Shell)'
      BY <1>0, <1>a, <1>b, <2>1 DEF Goto, HandsAgree
    <2> QED
      BY <1>1, <1>a, <2>1, <2>2, <2>3
  <1>12. ASSUME AppendAdded PROVE HandsAgree'
    <2>1. /\ Goto(Shell, "append", IF CanAppend(candidate[Shell]) THEN "idle" ELSE "build")
          /\ Discard(Shell)
          /\ lines' = [lines EXCEPT ![Shell] = IF CanAppend(candidate[Shell]) THEN << >> ELSE @]
      BY <1>12 DEF AppendAdded
    <2>2. HandAgrees(Shell)' /\ \A u \in Client \ {Shell} : candidate'[u] = candidate[u] /\ lines'[u] = lines[u]
      BY <1>a, <1>b, <2>1 DEF Goto, Discard
    <2> QED
      BY <1>1, <1>a, <2>1, <2>2
  <1>13. ASSUME \/ \E S \in SUBSET Worker : MineOrStop(S)
                \/ Fetch \/ Replace \/ ClearStore \/ RebuildBlock
         PROVE  HandsAgree'
    <2>1. UNCHANGED << candidate, lines >>
      BY <1>13
      DEF MineOrStop, Fetch, Replace, ReplaceIfLongerAndValid, ClearStore, RebuildBlock, chainVars
    <2> QED
      BY <1>2, <1>13, <1>a, <2>1 DEF MineOrStop, Fetch, Replace, ClearStore, RebuildBlock
  <1>14. ASSUME \/ UNCHANGED vars
                \/ \E h \in Handler : HandleTx(h)
                \/ \E t \in Submitter : AddStep(t)
                \/ \E d \in Difficulties : DifficultyCommand(d)
                \/ SendCommand \/ RegisterCommand
         PROVE  HandsAgree'
    <2>1. UNCHANGED << candidate, pc, lines >>
      BY <1>14
      DEF vars, HandleTx, AddStep, DifficultyCommand, SetDifficulty, SendCommand,
          RegisterCommand, chainVars, nodeVars
    <2> QED
      BY <1>0, <2>1 DEF HandsAgree
  <1>15. ASSUME RebuildThrows \/ \E w \in Worker : TakeThrows(w) PROVE HandsAgree'
    BY <1>15, ThrowsEnd DEF HandsAgree
  <1> QED
    BY <1>3, <1>4, <1>5, <1>6, <1>7, <1>8, <1>9, <1>10, <1>11, <1>12, <1>13, <1>14, <1>15, <1>a
    DEF Next, WorkerStep, ShellStep


LEMMA HandsAgreeAlways == Spec => []HandsAgree
  BY HandsAgreeAtFirst, StepKeepsHandsAgreed, NodeInvariant, PTL DEF Spec

\* Where a queued transaction can be.
InQueue(tx) == tx \in ToSet(pending)
InLines(tx, t) == tx \in ToSet(lines[t])
InChain(tx) == \E i \in DOMAIN blocks : tx \in ToSet(blocks[i].txs)

\* What a client holds as a candidate it holds as lines too.
LEMMA QueuedPlaces ==
    ASSUME HandsAgree, pc \in [Client -> WorkerPc \cup ShellPc]
    PROVE  \A tx : tx \in Queued <=>
             /\ tx.kind = "tx"
             /\ InQueue(tx) \/ (\E t \in Client : InLines(tx, t)) \/ InChain(tx)
  <1>1. ASSUME NEW t \in Client, candidate[t] # NoBlock, pc[t] \notin {"apply", "ended"}
        PROVE  candidate[t].txs = lines[t]
    BY <1>1 DEF HandsAgree, HandAgrees
  <1>2. ASSUME NEW tx, NEW t \in { c \in Client : /\ candidate[c] # NoBlock
                                                 /\ pc[c] \notin {"apply", "ended"} },
               tx \in ToSet(candidate[t].txs)
        PROVE  InLines(tx, t)
    BY <1>1, <1>2 DEF InLines
  <1>3. ASSUME NEW tx, tx \in Queued
        PROVE  /\ tx.kind = "tx"
               /\ InQueue(tx) \/ (\E t \in Client : InLines(tx, t)) \/ InChain(tx)
    BY <1>2, <1>3 DEF Queued, InQueue, InLines, InChain
  <1>4. ASSUME NEW tx, tx.kind = "tx",
               InQueue(tx) \/ (\E t \in Client : InLines(tx, t)) \/ InChain(tx)
        PROVE  tx \in Queued
    BY <1>4 DEF Queued, InQueue, InLines, InChain
  <1> QED
    BY <1>3, <1>4

\* A chain that starts as the old one did has all that the old one had.
LEMMA PrefixKeepsChain ==
    ASSUME NodeInv, NodeInv', IsPrefix(blocks, blocks'), NEW tx, InChain(tx)
    PROVE  InChain(tx)'
  <1>1. blocks \in Seq(BlockSet) /\ blocks' \in Seq(BlockSet)
    BY ViewSameBlocks DEF NodeInv, ChainView!ChainInv, ChainView!ChainTypeOK
  <1>2. Len(blocks) <= Len(blocks') /\ SubSeq(blocks, 1, Len(blocks)) = SubSeq(blocks', 1, Len(blocks))
    BY DEF IsPrefix
  <1>3. \A i \in 1 .. Len(blocks) : i \in 1 .. Len(blocks') /\ blocks'[i] = blocks[i]
    <2> SUFFICES ASSUME NEW i \in 1 .. Len(blocks)
                 PROVE  i \in 1 .. Len(blocks') /\ blocks'[i] = blocks[i]
      OBVIOUS
    <2>1. SubSeq(blocks, 1, Len(blocks))[i] = blocks[i]
      BY <1>1
    <2>2. SubSeq(blocks', 1, Len(blocks))[i] = blocks'[i] /\ i \in 1 .. Len(blocks')
      BY <1>1, <1>2
    <2> QED
      BY <1>2, <2>1, <2>2
  <1> QED
    BY <1>1, <1>3 DEF InChain

\* The queue loses transactions to a miner that takes them, and to nobody else.
LEMMA QueueToLines ==
    ASSUME NodeInv, [Next]_vars, NEW tx, InQueue(tx)
    PROVE  InQueue(tx)' \/ \E t \in Client : InLines(tx, t)'
  <1>0. PoolTyped /\ ThreadsTyped
    BY DEF NodeInv
  <1>1. pending \in Seq(SoundTx) /\ lines \in [Client -> Seq(Line)] /\ Worker \subseteq Client
    BY <1>0, NodeAssumption DEF PoolTyped, ThreadsTyped
  <1>2. PICK i \in 1 .. Len(pending) : pending[i] = tx
    BY <1>1 DEF InQueue, ToSet
  <1>3. CASE pending' = pending
    BY <1>3 DEF InQueue
  <1>4. ASSUME NEW t \in Submitter, FinishAdd(t) PROVE InQueue(tx)'
    <2>1. CASE pending' = pending
      BY <2>1 DEF InQueue
    <2>2. CASE pending' = Append(pending, adding[t])
      <3>1. adding[t] \in SoundTx
        BY <1>0, <1>4, MempoolAssumption DEF FinishAdd, PoolTyped
      <3>2. i \in DOMAIN pending' /\ pending'[i] = tx
        BY <1>1, <1>2, <2>2, <3>1
      <3> QED
        BY <3>2 DEF InQueue, ToSet
    <2> QED
      BY <1>4, <2>1, <2>2 DEF FinishAdd
  <1>5. ASSUME NEW w \in Worker, TakePending(w)
        PROVE  InQueue(tx)' \/ InLines(tx, w)'
    <2>1. TakeCount \in 0 .. Len(pending)
      BY <1>1, MempoolAssumption DEF TakeCount
    <2>2. CASE i <= TakeCount
      <3>1. Taken \in Seq(SoundTx) /\ Len(Taken) = TakeCount /\ Taken[i] = tx
        BY <1>1, <1>2, <2>1, <2>2 DEF Taken
      <3> DEFINE hand == << Coinbase(Own, Reward) >> \o Taken
      <3>2. lines'[w] = hand
        BY <1>1, <1>5 DEF TakePending
      <3>3. i + 1 \in DOMAIN hand /\ hand[i + 1] = tx
        BY <1>2, <2>2, <3>1
      <3> QED
        BY <3>2, <3>3 DEF InLines, ToSet
    <2>3. CASE i > TakeCount
      <3>1. pending' = SubSeq(pending, TakeCount + 1, Len(pending))
        BY <1>5 DEF TakePending, Take
      <3>2. i - TakeCount \in DOMAIN pending' /\ pending'[i - TakeCount] = tx
        BY <1>1, <1>2, <2>1, <2>3, <3>1
      <3> QED
        BY <3>2 DEF InQueue, ToSet
    <2> QED
      BY <1>2, <2>1, <2>2, <2>3
  <1>6. ASSUME \A t \in Submitter : ~ FinishAdd(t), \A w \in Worker : ~ TakePending(w)
        PROVE  pending' = pending
    BY <1>6, ThrowsEnd
    DEF Next, WorkerStep, ShellStep, vars, mempoolVars, LoopTop, Build, Found, AbandonSearch,
        AppendMined, ApplyMined, HandleTx, AddStep, SendCommand, RegisterCommand, CallAdd,
        CheckNonce, Joined, AppendAdded, MineOrStop, DifficultyCommand, AddCommand, Fetch,
        Replace, ClearStore, RebuildBlock
  <1> QED
    BY <1>1, <1>3, <1>4, <1>5, <1>6

\* A miner's candidate is dropped: it was told to stop, or the tip moved.
CandidateDropped(tx) == LostToStop(tx) \/ LostToTip(tx)

\* A transaction in a client's hands stays there, or gets into the chain with the
\* client's block, or is dropped with it.
LEMMA LinesToChain ==
    ASSUME NodeInv, HandsAgree, [Next]_vars, NEW tx, NEW t \in Client, InLines(tx, t)
    PROVE  InLines(tx, t)' \/ InChain(tx)' \/ CandidateDropped(tx)
  <1>0. ThreadsTyped /\ ChainView!ChainInv
    BY DEF NodeInv
  <1>1. /\ blocks \in Seq(BlockSet) /\ candidate \in [Client -> BlockSet \cup {NoBlock}]
        /\ lines \in [Client -> Seq(Line)] /\ Worker \subseteq Client /\ Shell \notin Worker
        /\ Shell \in Client /\ Client = Worker \cup {Shell}
    BY <1>0, ChainTyped, NodeAssumption DEF ThreadsTyped
  <1>2. lines[t] # << >>
    BY DEF InLines, ToSet
  <1>3. CASE lines'[t] = lines[t]
    BY <1>3 DEF InLines
  <1>4. ASSUME pc[t] = "append", TryAppend(t), CanAppend(candidate[t]) PROVE InChain(tx)'
    <2>1. candidate[t] \in BlockSet /\ candidate[t].txs = lines[t]
      BY <1>1, <1>4 DEF HandsAgree, HandAgrees
    <2>2. blocks' = Append(blocks, candidate[t])
      BY <1>4 DEF TryAppend
    <2>3. Len(blocks) + 1 \in DOMAIN blocks' /\ blocks'[Len(blocks) + 1] = candidate[t]
      BY <1>1, <2>1, <2>2
    <2> QED
      BY <2>1, <2>3 DEF InChain, InLines
  <1>5. ASSUME NEW w \in Worker, TakePending(w) PROVE lines'[t] = lines[t]
    <2>1. lines[w] = << >>
      BY <1>1, <1>5 DEF TakePending, Goto, HandsAgree, HandAgrees
    <2> QED
      BY <1>1, <1>2, <1>5, <2>1 DEF TakePending
  <1>6. ASSUME NEW w \in Worker, AbandonSearch(w)
        PROVE  lines'[t] = lines[t] \/ CandidateDropped(tx)
    BY <1>1, <1>6 DEF AbandonSearch, Goto, InLines, CandidateDropped, LostToStop
  <1>7. ASSUME NEW w \in Worker, AppendMined(w)
        PROVE  lines'[t] = lines[t] \/ InChain(tx)' \/ CandidateDropped(tx)
    <2>1. CASE t # w
      BY <1>1, <1>7, <2>1 DEF AppendMined
    <2>2. CASE t = w
      BY <1>4, <1>7, <2>2 DEF AppendMined, Goto, InLines, CandidateDropped, LostToTip
    <2> QED
      BY <2>1, <2>2
  <1>8. ASSUME NEW text \in AddLines, AddCommand(text) PROVE lines'[t] = lines[t]
    <2>1. lines[Shell] = << >>
      BY <1>1, <1>8 DEF AddCommand, Goto, HandsAgree, HandAgrees
    <2> QED
      BY <1>1, <1>2, <1>8, <2>1 DEF AddCommand
  <1>9. ASSUME AppendAdded PROVE lines'[t] = lines[t] \/ InChain(tx)'
    <2>1. CASE t # Shell \/ ~ CanAppend(candidate[Shell])
      BY <1>1, <1>9, <2>1 DEF AppendAdded
    <2>2. CASE t = Shell /\ CanAppend(candidate[Shell])
      BY <1>4, <1>9, <2>2 DEF AppendAdded, Goto
    <2> QED
      BY <2>1, <2>2
  <1>10. ASSUME ~ AppendAdded, \A text \in AddLines : ~ AddCommand(text),
                \A w \in Worker : ~ TakePending(w) /\ ~ AbandonSearch(w) /\ ~ AppendMined(w)
         PROVE  lines' = lines
    BY <1>10, ThrowsEnd
    DEF Next, WorkerStep, ShellStep, vars, nodeVars, LoopTop, Build, Found, ApplyMined, HandleTx,
        AddStep, SendCommand, RegisterCommand, Joined, MineOrStop, DifficultyCommand, Fetch,
        Replace, ClearStore, RebuildBlock
  <1> QED
    BY <1>3, <1>5, <1>6, <1>7, <1>8, <1>9, <1>10

\* A transaction once queued leaves the node only with the candidate of a worker
\* that comes too late ("no re-queue", mempool.hpp:38-41) or is told to stop
\* (miner.hpp:64, which main.cpp:289 and 321 do not tell the user), or with a chain
\* that is replaced: no interleaving of the mempool, the miners, the shell and a
\* synchronisation loses one otherwise.
THEOREM QueuedLossIsKnown == Spec => QueuedLostWithCandidateOnly
  <1>1. NodeInv /\ NodeInv' /\ HandsAgree /\ HandsAgree' /\ [Next]_vars =>
          [\A tx \in Queued \ Queued' :
             LostToTip(tx) \/ LostToStop(tx) \/ LostToReplacement(tx)]_vars
    <2> SUFFICES ASSUME NodeInv, NodeInv', HandsAgree, HandsAgree', [Next]_vars,
                        NEW tx \in Queued \ Queued', ~ CandidateDropped(tx)
                 PROVE  /\ tx \in UNION { ToSet(blocks[i].txs) : i \in DOMAIN blocks }
                        /\ ~ IsPrefix(blocks, blocks')
      BY DEF CandidateDropped, LostToReplacement
    <2>1. ~ InQueue(tx)' /\ (\A t \in Client : ~ InLines(tx, t)') /\ ~ InChain(tx)'
      <3>1. pc' \in [Client -> WorkerPc \cup ShellPc]
        BY DEF NodeInv, ThreadsTyped
      <3>2. tx.kind = "tx" /\ tx \notin Queued'
        BY DEF Queued
      <3> QED
        BY <3>1, <3>2 DEF Queued, InQueue, InLines, InChain
    <2>2. InChain(tx)
      <3>1. pc \in [Client -> WorkerPc \cup ShellPc]
        BY DEF NodeInv, ThreadsTyped
      <3>2. InQueue(tx) \/ (\E t \in Client : InLines(tx, t)) \/ InChain(tx)
        BY <3>1, QueuedPlaces
      <3> QED
        BY <2>1, <3>2, QueueToLines, LinesToChain
    <2>3. ~ IsPrefix(blocks, blocks')
      BY <2>1, <2>2, PrefixKeepsChain
    <2> QED
      BY <2>2, <2>3 DEF InChain
  <1> QED
    BY <1>1, NodeInvariant, HandsAgreeAlways, PTL DEF Spec, QueuedLostWithCandidateOnly


------------------------------------------------------------------------------
\* A user who synchronises only with mining stopped

SyncPc == {"replace", "clear", "rebuild"}

\* While the shell mines for `add`, it has that text and nothing else in hand.
ShellAdds ==
    pc[Shell] \in {"build", "search", "append"} =>
        \E text \in AddLines : lines[Shell] = << text >>

\* No miner runs during a synchronisation, or when the process has ended, and the
\* blocks a rebuild has applied and those it has yet to apply are the chain's.
SyncIsQuiet ==
    /\ Ended => \A w \in Worker : pc[w] = "ended"
    /\ pc[Shell] \in SyncPc => \A w \in Worker : pc[w] = "off"
    /\ pc[Shell] = "clear" => fetched = blocks
    /\ pc[Shell] = "rebuild" => blocks = applied \o fetched

\* The blocks in flight are in the chain, and no two of them are the same.
MinedIsInChain ==
    /\ \A w \in Worker : pc[w] = "apply" => candidate[w] \in ToSet(blocks)
    /\ \A v, w \in Worker :
         pc[v] = "apply" /\ pc[w] = "apply" /\ candidate[v] = candidate[w] => v = w

QuietInv == ShellAdds /\ SyncIsQuiet /\ MinedIsInChain

LEMMA StepKeepsShellAdds ==
    ASSUME NodeInv, ShellAdds, [Next]_vars
    PROVE  ShellAdds'
  <1> USE DEF ShellAdds
  <1>0. /\ pc \in [Client -> WorkerPc \cup ShellPc] /\ lines \in [Client -> Seq(Line)]
        /\ Shell \in Client /\ Worker \subseteq Client /\ Shell \notin Worker
    BY NodeAssumption DEF NodeInv, ThreadsTyped
  <1>1. ASSUME NEW w \in Worker, WorkerStep(w) PROVE ShellAdds'
    <2>1. \/ pc'[Shell] = pc[Shell] /\ lines'[Shell] = lines[Shell]
          \/ pc'[Shell] = "ended"
      BY <1>0, <1>1, ThrowsEnd
      DEF WorkerStep, LoopTop, TakePending, Build, Found, AbandonSearch, AppendMined, ApplyMined,
          Goto
    <2> QED
      BY <2>1
  <1>2. ASSUME Build(Shell) \/ Found(Shell) PROVE ShellAdds'
    BY <1>0, <1>2 DEF Build, Found, Goto
  <1>3. ASSUME NEW text \in AddLines, AddCommand(text) PROVE ShellAdds'
    BY <1>0, <1>3 DEF AddCommand
  <1>4. ASSUME AppendAdded PROVE ShellAdds'
    BY <1>0, <1>4 DEF AppendAdded, Goto
  <1>5. ASSUME \/ Joined \/ Fetch \/ Replace \/ ClearStore \/ RebuildBlock \/ RebuildThrows
               \/ \E S \in SUBSET Worker : MineOrStop(S)
        PROVE  ShellAdds'
    <2>1. pc'[Shell] \notin {"build", "search", "append"}
      BY <1>0, <1>5, ThrowsEnd DEF Joined, Fetch, Replace, ClearStore, RebuildBlock, MineOrStop, Goto
    <2> QED
      BY <2>1
  <1>6. ASSUME \/ UNCHANGED vars
               \/ \E h \in Handler : HandleTx(h)
               \/ \E t \in Submitter : AddStep(t)
               \/ \E d \in Difficulties : DifficultyCommand(d)
               \/ SendCommand \/ RegisterCommand
        PROVE  ShellAdds'
    BY <1>6 DEF vars, HandleTx, AddStep, DifficultyCommand, SendCommand, RegisterCommand, nodeVars
  <1> QED
    BY <1>1, <1>2, <1>3, <1>4, <1>5, <1>6 DEF Next, ShellStep

\* What the steps that neither append, apply nor synchronise have in common: the
\* chain, the blocks applied and the blocks in flight are as before, and no miner
\* starts during a synchronisation.
Aside ==
    /\ UNCHANGED << blocks, applied, store >>
    /\ \A w \in Worker : /\ pc'[w] = "apply" <=> pc[w] = "apply"
                         /\ pc[w] = "apply" => candidate'[w] = candidate[w]
    /\ \/ pc[Shell] \notin SyncPc /\ pc'[Shell] \notin SyncPc /\ ~ Ended /\ ~ Ended'
       \/ UNCHANGED << pc, fetched >>

\* An exception ends the process.
Ends ==
    /\ pc' = [u \in Client |-> "ended"]
    /\ UNCHANGED << blocks, candidate, store, fetched, applied >>

\* The steps of the node, as a synchronising user sees them.
LEMMA QuietStep ==
    ASSUME NodeInv, QuietInv, [Next]_vars
    PROVE  \/ Aside
           \/ \E w \in Worker : AppendMined(w) /\ CanAppend(candidate[w])
           \/ \E w \in Worker : ApplyMined(w)
           \/ AppendAdded /\ CanAppend(candidate[Shell])
           \/ Fetch \/ Replace \/ ClearStore \/ RebuildBlock
           \/ Ends
  <1> USE DEF Aside, SyncPc, Ended
  <1>0. /\ pc \in [Client -> WorkerPc \cup ShellPc]
        /\ candidate \in [Client -> BlockSet \cup {NoBlock}]
        /\ Shell \in Client /\ Worker \subseteq Client /\ Shell \notin Worker
    BY NodeAssumption, ChainTyped DEF NodeInv, ThreadsTyped
  <1>1. ASSUME NEW w \in Worker, pc[w] \notin {"off", "ended"}
        PROVE  pc[Shell] \notin SyncPc /\ ~ Ended
    BY <1>1 DEF QuietInv, SyncIsQuiet
  <1>2. ASSUME NEW w \in Worker, LoopTop(w) \/ TakePending(w) PROVE Aside
    BY <1>0, <1>1, <1>2 DEF LoopTop, TakePending, Goto, chainVars
  <1>3. ASSUME NEW w \in Worker, Build(w) \/ Found(w) PROVE Aside
    BY <1>0, <1>1, <1>3 DEF Build, Found, BuildCandidate, FindNonce, Goto
  <1>4. ASSUME NEW w \in Worker, AbandonSearch(w) PROVE Aside
    BY <1>0, <1>1, <1>4 DEF AbandonSearch, Discard, Goto
  <1>5. ASSUME NEW w \in Worker, AppendMined(w), ~ CanAppend(candidate[w]) PROVE Aside
    BY <1>0, <1>1, <1>5 DEF AppendMined, TryAppend, Discard, Goto
  <1>6. ASSUME Build(Shell) \/ Found(Shell) PROVE Aside
    BY <1>0, <1>6 DEF Build, Found, BuildCandidate, FindNonce, Goto
  <1>7. ASSUME AppendAdded, ~ CanAppend(candidate[Shell]) PROVE Aside
    BY <1>0, <1>7 DEF AppendAdded, TryAppend, Discard, Goto
  <1>8. ASSUME Joined PROVE Aside
    BY <1>0, <1>8 DEF Joined, chainVars
  <1>9. ASSUME \/ \E S \in SUBSET Worker : MineOrStop(S)
               \/ \E text \in AddLines : AddCommand(text)
        PROVE  Aside
    BY <1>0, <1>9 DEF MineOrStop, AddCommand, Goto, chainVars
  <1>10. ASSUME \/ UNCHANGED vars
                \/ \E h \in Handler : HandleTx(h)
                \/ \E t \in Submitter : AddStep(t)
                \/ \E d \in Difficulties : DifficultyCommand(d)
                \/ SendCommand \/ RegisterCommand
         PROVE  Aside
    BY <1>10
    DEF vars, HandleTx, AddStep, DifficultyCommand, SetDifficulty, SendCommand, RegisterCommand,
        chainVars, nodeVars, shellVars
  <1>11. ASSUME RebuildThrows \/ \E w \in Worker : TakeThrows(w) PROVE Ends
    BY <1>11, ThrowsEnd DEF Ends, chainVars, shellVars
  <1> QED
    BY <1>2, <1>3, <1>4, <1>5, <1>6, <1>7, <1>8, <1>9, <1>10, <1>11
    DEF Next, WorkerStep, ShellStep


\* Blocks of one chain differ by their heights.
LEMMA BlocksDiffer ==
    ASSUME NodeInv
    PROVE  /\ \A i, j \in 1 .. Len(blocks) : blocks[i] = blocks[j] => i = j
           /\ \A i \in 1 .. Len(blocks) : blocks[i].height < Len(blocks)
  <1>1. Len(blocks) \in Nat /\ \A i \in 1 .. Len(blocks) : blocks[i].height = i - 1
    BY ChainTyped DEF NodeInv
  <1>2. ASSUME NEW i \in 1 .. Len(blocks), NEW j \in 1 .. Len(blocks), blocks[i] = blocks[j]
        PROVE  i = j
    <2>1. i - 1 = j - 1
      BY <1>1, <1>2
    <2> QED
      BY <1>1, <2>1
  <1> QED
    BY <1>1, <1>2

\* A block the chain takes was not in it.
LEMMA AppendedIsNew ==
    ASSUME NodeInv, NEW t \in Client, pc[t] = "append", TryAppend(t), CanAppend(candidate[t])
    PROVE  /\ candidate[t] \in BlockSet /\ candidate[t] # NoBlock
           /\ blocks' = Append(blocks, candidate[t])
           /\ candidate[t] \notin ToSet(blocks)
           /\ ToSet(blocks') = ToSet(blocks) \cup {candidate[t]}
  <1>1. /\ blocks \in Seq(BlockSet) /\ Len(blocks) \in Nat
        /\ candidate[t] # NoBlock /\ candidate[t] \in BlockSet
    BY ChainTyped DEF NodeInv, HandsFull
  <1>2. blocks' = Append(blocks, candidate[t])
    BY DEF TryAppend
  <1>3. candidate[t].height = Len(blocks)
    <2>1. ChainView!CanAppend(candidate[t])
      BY ViewSameBlocks DEF CanAppend, Tip, ChainView!CanAppend, ChainView!Tip
    <2> QED
      BY <1>1, <2>1, ViewConstants, ChainView!AppendedHeight DEF NodeInv
  <1>4. candidate[t] \notin ToSet(blocks)
    <2>1. \A i \in 1 .. Len(blocks) : blocks[i] # candidate[t]
      BY <1>1, <1>3, BlocksDiffer
    <2> QED
      BY <1>1, <2>1 DEF ToSet
  <1>5. ToSet(blocks') = ToSet(blocks) \cup {candidate[t]}
    BY <1>1, <1>2 DEF ToSet
  <1> QED
    BY <1>1, <1>2, <1>4, <1>5

\* Taking the first block of what is left of a list, from what is left of it.
LEMMA OneMoreApplied ==
    ASSUME NEW B, NEW all \in Seq(B), NEW done \in Seq(B), NEW left \in Seq(B), left # << >>,
           all = done \o left
    PROVE  /\ Append(done, left[1]) \in Seq(B) /\ Tail(left) \in Seq(B)
           /\ all = Append(done, left[1]) \o Tail(left)
           /\ Len(done) + 1 \in 1 .. Len(all) /\ all[Len(done) + 1] = left[1]
           /\ Len(done) \in Nat /\ Len(Append(done, left[1])) = Len(done) + 1
  <1>1. Len(left) \in Nat \ {0} /\ Len(done) \in Nat /\ left[1] \in B
    OBVIOUS
  <1>2. Append(done, left[1]) \in Seq(B) /\ Tail(left) \in Seq(B)
    BY <1>1
  <1>3. all = Append(done, left[1]) \o Tail(left)
    <2> DEFINE new == Append(done, left[1]) \o Tail(left)
    <2>1. new \in Seq(B) /\ Len(new) = Len(all)
      BY <1>1, <1>2
    <2>2. ASSUME NEW i \in 1 .. Len(all) PROVE new[i] = all[i]
      <3>1. CASE i <= Len(done)
        BY <1>1, <1>2, <3>1
      <3>2. CASE i = Len(done) + 1
        BY <1>1, <1>2, <3>2
      <3>3. CASE i > Len(done) + 1
        <4>1. new[i] = Tail(left)[i - (Len(done) + 1)]
          BY <1>1, <1>2, <3>3
        <4>2. Tail(left)[i - (Len(done) + 1)] = left[i - Len(done)]
          BY <1>1, <3>3
        <4>3. all[i] = left[i - Len(done)]
          BY <1>1, <3>3
        <4> QED
          BY <4>1, <4>2, <4>3
      <3> QED
        BY <1>1, <3>1, <3>2, <3>3
    <2> HIDE DEF new
    <2> QED
      BY <2>1, <2>2 DEF new
  <1>4. Len(done) + 1 \in 1 .. Len(all) /\ all[Len(done) + 1] = left[1]
    BY <1>1
  <1>5. Len(Append(done, left[1])) = Len(done) + 1
    BY <1>1
  <1> QED
    BY <1>1, <1>2, <1>3, <1>4, <1>5

\* ... and the last one.
LEMMA LastApplied ==
    ASSUME NEW B, NEW done \in Seq(B), NEW left \in Seq(B)
    PROVE  Len(left) = 1 => done \o left = Append(done, left[1])
  <1> DEFINE x == done \o left
             y == Append(done, left[1])
  <1>1. /\ Len(done) \in Nat /\ Len(left) \in Nat /\ Len(x) = Len(done) + Len(left)
        /\ x \in Seq(B)
        /\ \A i \in 1 .. Len(done) : x[i] = done[i]
        /\ \A i \in 1 .. Len(left) : x[Len(done) + i] = left[i]
    OBVIOUS
  <1>2. SUFFICES ASSUME Len(left) = 1 PROVE x = y
    OBVIOUS
  <1>3. left[1] \in B /\ x[Len(done) + 1] = left[1] /\ Len(x) = Len(done) + 1
    <2> HIDE DEF x
    <2> QED
      BY <1>1, <1>2
  <1>4. /\ Len(y) = Len(done) + 1 /\ y \in Seq(B)
        /\ \A i \in 1 .. Len(done) : y[i] = done[i]
        /\ y[Len(done) + 1] = left[1]
    BY <1>1, <1>3
  <1> HIDE DEF x, y
  <1>5. \A i \in 1 .. Len(x) : x[i] = y[i]
    BY <1>1, <1>3, <1>4
  <1> QED
    BY <1>1, <1>3, <1>4, <1>5

LEMMA QuietAtFirst == Init => QuietInv
  BY NodeAssumption DEF Init, QuietInv, ShellAdds, SyncIsQuiet, SyncPc, Ended, MinedIsInChain

LEMMA StepKeepsQuiet ==
    ASSUME NodeInv, QuietInv, SyncWhileMining = FALSE, [Next]_vars
    PROVE  QuietInv'
  <1>0. /\ pc \in [Client -> WorkerPc \cup ShellPc]
        /\ candidate \in [Client -> BlockSet \cup {NoBlock}]
        /\ blocks \in Seq(BlockSet) /\ fetched \in Seq(BlockSet) /\ applied \in Seq(BlockSet)
        /\ Shell \in Client /\ Worker \subseteq Client /\ Shell \notin Worker
    BY NodeAssumption, ChainTyped DEF NodeInv, ThreadsTyped
  <1>1. SyncIsQuiet /\ MinedIsInChain
    BY DEF QuietInv
  <1>2. CASE Aside
    <2>1. MinedIsInChain'
      BY <1>0, <1>1, <1>2 DEF Aside, MinedIsInChain
    <2>2. SyncIsQuiet'
      <3>1. CASE pc[Shell] \notin SyncPc /\ pc'[Shell] \notin SyncPc /\ ~ Ended'
        BY <3>1 DEF SyncIsQuiet, SyncPc, Ended
      <3>2. CASE UNCHANGED << pc, fetched >>
        BY <1>1, <1>2, <3>2 DEF Aside, SyncIsQuiet, Ended
      <3> QED
        BY <1>2, <3>1, <3>2 DEF Aside
    <2> QED
      BY <2>1, <2>2, StepKeepsShellAdds DEF QuietInv
  <1>3. ASSUME NEW w \in Worker, AppendMined(w), CanAppend(candidate[w])
        PROVE  SyncIsQuiet' /\ MinedIsInChain'
    <2>1. pc[w] = "append" /\ TryAppend(w) /\ w \in Client
      BY <1>0, <1>3 DEF AppendMined, Goto
    <2>2. /\ candidate[w] \notin ToSet(blocks)
          /\ ToSet(blocks') = ToSet(blocks) \cup {candidate[w]}
      BY <1>3, <2>1, AppendedIsNew
    <2>3. pc' = [pc EXCEPT ![w] = "apply"] /\ candidate' = candidate
      BY <1>3 DEF AppendMined, Goto
    <2>4. MinedIsInChain'
      BY <1>0, <1>1, <2>2, <2>3 DEF MinedIsInChain
    <2>5. pc[Shell] \notin SyncPc /\ ~ Ended
      BY <1>1, <2>1 DEF SyncIsQuiet, Ended
    <2>6. SyncIsQuiet'
      BY <1>0, <2>3, <2>5 DEF SyncIsQuiet, SyncPc, Ended
    <2> QED
      BY <2>4, <2>6
  <1>4. ASSUME NEW w \in Worker, ApplyMined(w) PROVE SyncIsQuiet' /\ MinedIsInChain'
    <2>1. /\ pc[w] = "apply" /\ pc' = [pc EXCEPT ![w] = "top"]
          /\ candidate' = [candidate EXCEPT ![w] = NoBlock] /\ UNCHANGED blocks
      BY <1>4 DEF ApplyMined, Goto, Discard
    <2>2. MinedIsInChain'
      BY <1>0, <1>1, <2>1 DEF MinedIsInChain
    <2>3. pc[Shell] \notin SyncPc /\ ~ Ended
      BY <1>1, <2>1 DEF SyncIsQuiet, Ended
    <2>4. SyncIsQuiet'
      BY <1>0, <2>1, <2>3 DEF SyncIsQuiet, SyncPc, Ended
    <2> QED
      BY <2>2, <2>4
  <1>5. ASSUME AppendAdded, CanAppend(candidate[Shell])
        PROVE  SyncIsQuiet' /\ MinedIsInChain'
    <2>1. pc[Shell] = "append" /\ TryAppend(Shell)
      BY <1>5 DEF AppendAdded, Goto
    <2>2. ToSet(blocks') = ToSet(blocks) \cup {candidate[Shell]}
      BY <1>0, <1>5, <2>1, AppendedIsNew
    <2>3. pc' = [pc EXCEPT ![Shell] = "idle"] /\ candidate' = [candidate EXCEPT ![Shell] = NoBlock]
      BY <1>5 DEF AppendAdded, Goto, Discard
    <2>4. MinedIsInChain'
      BY <1>0, <1>1, <2>2, <2>3 DEF MinedIsInChain
    <2>5. SyncIsQuiet'
      BY <1>0, <2>3 DEF SyncIsQuiet, SyncPc, Ended
    <2> QED
      BY <2>4, <2>5
  <1>6. ASSUME Fetch PROVE SyncIsQuiet' /\ MinedIsInChain'
    <2>1. (\A w \in Worker : pc[w] = "off") /\ pc' = [pc EXCEPT ![Shell] = "replace"]
      BY <1>6 DEF Fetch, Goto
    <2> QED
      BY <1>0, <2>1 DEF SyncIsQuiet, Ended, MinedIsInChain
  <1>7. ASSUME Replace PROVE SyncIsQuiet' /\ MinedIsInChain'
    <2>1. /\ pc[Shell] = "replace" /\ UNCHANGED candidate
          /\ pc' = [pc EXCEPT ![Shell] = IF CanReplace(fetched) THEN "clear" ELSE "idle"]
          /\ blocks' = IF CanReplace(fetched) THEN fetched ELSE blocks
          /\ fetched' = IF CanReplace(fetched) THEN fetched ELSE << >>
      BY <1>7 DEF Replace, Goto, ReplaceIfLongerAndValid
    <2>2. \A w \in Worker : pc[w] = "off"
      BY <1>1, <2>1 DEF SyncIsQuiet, SyncPc, Ended
    <2> QED
      BY <1>0, <2>1, <2>2 DEF SyncIsQuiet, Ended, MinedIsInChain
  <1>8. ASSUME ClearStore PROVE SyncIsQuiet' /\ MinedIsInChain'
    <2>1. /\ pc[Shell] = "clear" /\ pc' = [pc EXCEPT ![Shell] = "rebuild"]
          /\ UNCHANGED << blocks, candidate, fetched >> /\ applied' = << >>
      BY <1>8 DEF ClearStore, Goto, chainVars, shellVars
    <2>2. (\A w \in Worker : pc[w] = "off") /\ fetched = blocks
      BY <1>1, <2>1 DEF SyncIsQuiet, SyncPc, Ended
    <2>3. blocks = << >> \o fetched
      BY <1>0, <2>2
    <2> QED
      BY <1>0, <2>1, <2>2, <2>3 DEF SyncIsQuiet, Ended, MinedIsInChain
  <1>9. ASSUME RebuildBlock PROVE SyncIsQuiet' /\ MinedIsInChain'
    <2>1. /\ pc[Shell] = "rebuild"
          /\ pc' = [pc EXCEPT ![Shell] = IF Len(fetched) = 1 THEN "idle" ELSE "rebuild"]
          /\ UNCHANGED << blocks, candidate >>
          /\ applied' = Append(applied, fetched[1]) /\ fetched' = Tail(fetched)
      BY <1>9 DEF RebuildBlock, Goto, chainVars
    <2>2. (\A w \in Worker : pc[w] = "off") /\ blocks = applied \o fetched
      BY <1>1, <2>1 DEF SyncIsQuiet, SyncPc, Ended
    <2>3. fetched # << >>
      BY <2>1 DEF NodeInv, HandsFull
    <2>4. blocks = Append(applied, fetched[1]) \o Tail(fetched)
      BY <1>0, <2>2, <2>3, OneMoreApplied
    <2> QED
      BY <1>0, <2>1, <2>2, <2>4 DEF SyncIsQuiet, Ended, MinedIsInChain
  <1>10. ASSUME Ends PROVE SyncIsQuiet' /\ MinedIsInChain'
    BY <1>0, <1>10 DEF Ends, SyncIsQuiet, SyncPc, Ended, MinedIsInChain
  <1> QED
    BY <1>2, <1>3, <1>4, <1>5, <1>6, <1>7, <1>8, <1>9, <1>10, QuietStep, StepKeepsShellAdds
    DEF QuietInv


------------------------------------------------------------------------------
\* Each mined block is applied once

LEMMA AppendOnce ==
    ASSUME NEW B, NEW s \in Seq(B), NEW x \in B
    PROVE  /\ ToSet(Append(s, x)) = ToSet(s) \cup {x}
           /\ IsInjective(s) /\ x \notin ToSet(s) => IsInjective(Append(s, x))
  <1>1. /\ Len(s) \in Nat /\ Len(Append(s, x)) = Len(s) + 1
        /\ DOMAIN s = 1 .. Len(s) /\ DOMAIN Append(s, x) = 1 .. Len(s) + 1
        /\ Append(s, x)[Len(s) + 1] = x
        /\ \A i \in 1 .. Len(s) : Append(s, x)[i] = s[i]
    OBVIOUS
  <1>2. ToSet(Append(s, x)) = ToSet(s) \cup {x}
    BY <1>1 DEF ToSet
  <1>3. ASSUME IsInjective(s), x \notin ToSet(s) PROVE IsInjective(Append(s, x))
    <2>1. \A i \in 1 .. Len(s) : s[i] # x
      BY <1>1, <1>3 DEF ToSet
    <2>2. \A i, j \in 1 .. Len(s) : s[i] = s[j] => i = j
      BY <1>1, <1>3 DEF IsInjective
    <2>3. ASSUME NEW i \in 1 .. Len(s) + 1, NEW j \in 1 .. Len(s) + 1,
                 Append(s, x)[i] = Append(s, x)[j]
          PROVE  i = j
      <3>1. CASE i = Len(s) + 1
        BY <1>1, <2>1, <2>3, <3>1
      <3>2. CASE j = Len(s) + 1
        BY <1>1, <2>1, <2>3, <3>2
      <3>3. CASE i \in 1 .. Len(s) /\ j \in 1 .. Len(s)
        BY <1>1, <2>2, <2>3, <3>3
      <3> QED
        BY <1>1, <3>1, <3>2, <3>3
    <2> QED
      BY <1>1, <2>3 DEF IsInjective
  <1> QED
    BY <1>2, <1>3

LEMMA AppliedOnceAtFirst == Init => MinedBlocksAppliedOnce
  <1> SUFFICES ASSUME Init PROVE MinedBlocksAppliedOnce
    OBVIOUS
  <1>1. applied = << >> /\ InFlight = {}
    BY NodeAssumption DEF Init, InFlight
  <1>2. PICK g : blocks = << g >> /\ g.txs = << Text >>
    <2>1. PICK s \in Clock : \E g \in MineBlock(GenesisTemplate(Text, s)) : blocks = << g >>
      BY DEF Init, ChainInit
    <2>2. PICK g \in MineBlock(GenesisTemplate(Text, s)) : blocks = << g >>
      BY <2>1
    <2>3. g.txs = << Text >>
      BY DEF MineBlock, GenesisTemplate
    <2> QED
      BY <2>2, <2>3
  <1>3. \A b \in ToSet(blocks) : ~ IsMined(b)
    BY <1>2 DEF ToSet, IsMined, Text
  <1>4. IsInjective(applied) /\ ToSet(applied) = {}
    BY <1>1 DEF IsInjective, ToSet
  <1> QED
    BY <1>1, <1>3, <1>4 DEF MinedBlocksAppliedOnce

LEMMA StepKeepsAppliedOnce ==
    ASSUME NodeInv, HandsAgree, QuietInv, MinedBlocksAppliedOnce, [Next]_vars,
           \A text \in AddLines : text.kind # "coinbase"
    PROVE  MinedBlocksAppliedOnce'
  <1>0. /\ pc \in [Client -> WorkerPc \cup ShellPc]
        /\ candidate \in [Client -> BlockSet \cup {NoBlock}]
        /\ blocks \in Seq(BlockSet) /\ fetched \in Seq(BlockSet) /\ applied \in Seq(BlockSet)
        /\ Shell \in Client /\ Worker \subseteq Client /\ Shell \notin Worker
    BY NodeAssumption, ChainTyped DEF NodeInv, ThreadsTyped
  <1>1. SyncIsQuiet /\ MinedIsInChain /\ ShellAdds
    BY DEF QuietInv
  <1>2. CASE Aside
    <2>1. InFlight' = InFlight
      BY <1>2 DEF Aside, InFlight
    <2>2. Rebuilding' = Rebuilding /\ Ended' = Ended
      BY <1>2 DEF Aside, Rebuilding, Ended, SyncPc
    <2> QED
      BY <1>2, <2>1, <2>2 DEF Aside, MinedBlocksAppliedOnce
  <1>3. ASSUME NEW w \in Worker, AppendMined(w), CanAppend(candidate[w])
        PROVE  MinedBlocksAppliedOnce'
    <2>1. pc[w] = "append" /\ TryAppend(w) /\ w \in Client
      BY <1>0, <1>3 DEF AppendMined, Goto
    <2>2. /\ candidate[w] \notin ToSet(blocks)
          /\ ToSet(blocks') = ToSet(blocks) \cup {candidate[w]}
      BY <1>3, <2>1, AppendedIsNew
    <2>3. pc' = [pc EXCEPT ![w] = "apply"] /\ UNCHANGED << candidate, applied >>
      BY <1>3 DEF AppendMined, Goto
    <2>4. InFlight' = InFlight \cup {candidate[w]}
      BY <1>0, <2>1, <2>3 DEF InFlight
    <2>5. ~ Rebuilding /\ ~ Ended
      BY <1>1, <2>1 DEF SyncIsQuiet, SyncPc, Rebuilding, Ended
    <2> QED
      BY <2>2, <2>3, <2>4, <2>5 DEF MinedBlocksAppliedOnce
  <1>4. ASSUME NEW w \in Worker, ApplyMined(w) PROVE MinedBlocksAppliedOnce'
    <2>1. /\ pc[w] = "apply" /\ pc' = [pc EXCEPT ![w] = "top"] /\ w \in Client
          /\ candidate' = [candidate EXCEPT ![w] = NoBlock] /\ UNCHANGED blocks
          /\ applied' = Append(applied, candidate[w])
      BY <1>0, <1>4 DEF ApplyMined, Goto, Discard
    <2>2. candidate[w] \in InFlight /\ candidate[w] \in BlockSet
      BY <1>0, <2>1 DEF InFlight, NodeInv, HandsFull
    <2>3. InFlight' = InFlight \ {candidate[w]}
      BY <1>0, <1>1, <2>1 DEF InFlight, MinedIsInChain
    <2>4. ~ Rebuilding /\ ~ Ended
      BY <1>1, <2>1 DEF SyncIsQuiet, SyncPc, Rebuilding, Ended
    <2>5. /\ ToSet(applied') = ToSet(applied) \cup {candidate[w]}
          /\ IsInjective(applied) /\ candidate[w] \notin ToSet(applied) => IsInjective(applied')
      BY <1>0, <2>1, <2>2, AppendOnce
    <2> QED
      BY <2>1, <2>2, <2>3, <2>4, <2>5 DEF MinedBlocksAppliedOnce
  <1>5. ASSUME AppendAdded, CanAppend(candidate[Shell]) PROVE MinedBlocksAppliedOnce'
    <2>1. pc[Shell] = "append" /\ TryAppend(Shell)
      BY <1>5 DEF AppendAdded, Goto
    <2>2. ToSet(blocks') = ToSet(blocks) \cup {candidate[Shell]}
      BY <1>0, <1>5, <2>1, AppendedIsNew
    <2>3. /\ pc' = [pc EXCEPT ![Shell] = "idle"] /\ candidate' = [candidate EXCEPT ![Shell] = NoBlock]
          /\ UNCHANGED applied
      BY <1>5 DEF AppendAdded, Goto, Discard
    <2>4. ~ IsMined(candidate[Shell])
      <3>1. PICK text \in AddLines : candidate[Shell].txs = << text >>
        BY <1>0, <1>1, <2>1 DEF ShellAdds, HandsAgree, HandAgrees
      <3> QED
        BY <3>1 DEF IsMined
    <2>5. InFlight' = InFlight
      BY <1>0, <2>3 DEF InFlight
    <2>6. ~ Rebuilding /\ ~ Ended
      BY <2>1 DEF Rebuilding, Ended
    <2> QED
      BY <2>2, <2>3, <2>4, <2>5, <2>6 DEF MinedBlocksAppliedOnce
  <1>6. ASSUME Fetch PROVE MinedBlocksAppliedOnce'
    <2>1. /\ pc[Shell] = "idle" /\ pc' = [pc EXCEPT ![Shell] = "replace"]
          /\ UNCHANGED << blocks, candidate, applied >>
      BY <1>6 DEF Fetch, Goto, chainVars
    <2>2. InFlight' = InFlight /\ ~ Rebuilding /\ ~ Ended
      BY <1>0, <2>1 DEF InFlight, Rebuilding, Ended
    <2> QED
      BY <2>1, <2>2 DEF MinedBlocksAppliedOnce
  <1>7. ASSUME Replace PROVE MinedBlocksAppliedOnce'
    <2>1. CASE CanReplace(fetched)
      <3>1. pc'[Shell] = "clear"
        BY <1>0, <1>7, <2>1 DEF Replace, Goto
      <3> QED
        BY <3>1 DEF MinedBlocksAppliedOnce, Rebuilding
    <2>2. CASE ~ CanReplace(fetched)
      <3>1. /\ pc[Shell] = "replace" /\ pc' = [pc EXCEPT ![Shell] = "idle"]
            /\ UNCHANGED << blocks, candidate, applied >>
        BY <1>7, <2>2 DEF Replace, Goto, ReplaceIfLongerAndValid
      <3>2. InFlight' = InFlight /\ ~ Rebuilding /\ ~ Ended
        BY <1>0, <3>1 DEF InFlight, Rebuilding, Ended
      <3> QED
        BY <3>1, <3>2 DEF MinedBlocksAppliedOnce
    <2> QED
      BY <2>1, <2>2
  <1>8. ASSUME ClearStore PROVE MinedBlocksAppliedOnce'
    <2>1. pc'[Shell] = "rebuild"
      BY <1>0, <1>8 DEF ClearStore, Goto
    <2> QED
      BY <2>1 DEF MinedBlocksAppliedOnce, Rebuilding
  <1>9. ASSUME RebuildBlock PROVE MinedBlocksAppliedOnce'
    <2>1. /\ pc[Shell] = "rebuild"
          /\ pc' = [pc EXCEPT ![Shell] = IF Len(fetched) = 1 THEN "idle" ELSE "rebuild"]
          /\ UNCHANGED << blocks, candidate >> /\ applied' = Append(applied, fetched[1])
      BY <1>9 DEF RebuildBlock, Goto, chainVars
    <2>2. CASE Len(fetched) # 1
      BY <1>0, <2>1, <2>2 DEF MinedBlocksAppliedOnce, Rebuilding
    <2>3. CASE Len(fetched) = 1
      <3>1. (\A w \in Worker : pc[w] = "off") /\ blocks = applied \o fetched /\ fetched # << >>
        BY <1>1, <2>1 DEF SyncIsQuiet, SyncPc, NodeInv, HandsFull
      <3>2. blocks = applied'
        <4>1. applied \o fetched = Append(applied, fetched[1])
          BY <1>0, <2>3, LastApplied
        <4> QED
          BY <2>1, <3>1, <4>1
      <3>3. InFlight' = {}
        BY <1>0, <2>1, <3>1 DEF InFlight
      <3>4. IsInjective(blocks)
        BY <1>0, BlocksDiffer DEF IsInjective
      <3> QED
        BY <2>1, <3>2, <3>3, <3>4 DEF MinedBlocksAppliedOnce
    <2> QED
      BY <2>2, <2>3
  <1>10. CASE Ends
    BY <1>0, <1>10 DEF Ends, Ended, MinedBlocksAppliedOnce
  <1> QED
    BY <1>2, <1>3, <1>4, <1>5, <1>6, <1>7, <1>8, <1>9, <1>10, QuietStep

\* While the user synchronises with mining stopped only, no miner runs during a
\* rebuild and the blocks being applied are those of the chain.
LEMMA QuietAlways ==
    ASSUME SyncWhileMining = FALSE
    PROVE  Spec => []QuietInv
  <1>1. NodeInv /\ QuietInv /\ [Next]_vars => QuietInv'
    BY StepKeepsQuiet
  <1> QED
    BY <1>1, QuietAtFirst, NodeInvariant, PTL DEF Spec

\* However many miners race, each block the chain takes from one of them is
\* applied to the store once, or is about to be (miner.hpp:68-69); a rebuild
\* applies every block of the chain once (rebuildFromBlocks).  What the user must
\* do for it: synchronise with mining stopped, and `add` no text that reads as a
\* coinbase.
THEOREM AppliedOnce ==
    ASSUME SyncWhileMining = FALSE, \A text \in AddLines : text.kind # "coinbase"
    PROVE  Spec => []MinedBlocksAppliedOnce
  <1>1. NodeInv /\ HandsAgree /\ QuietInv /\ MinedBlocksAppliedOnce /\ [Next]_vars
          => MinedBlocksAppliedOnce'
    BY StepKeepsAppliedOnce
  <1>2. Spec => []QuietInv
    BY QuietAlways
  <1> QED
    BY <1>1, <1>2, AppliedOnceAtFirst, NodeInvariant, HandsAgreeAlways, PTL DEF Spec


------------------------------------------------------------------------------
\* One miner: the accounts are those the chain determines

OneWorker == \A v, w \in Worker : v = w

\* The store is the replay of the chain, or will be once the block in flight is
\* applied, or is that of the part of the chain a rebuild has got to.
StoreFollows ==
    /\ pc[Shell] = "rebuild" => store = AfterBlocks(blocks)[Len(applied)]
    /\ Settled => store = Replay(blocks)
    /\ \A w \in Worker : pc[w] = "apply" => ApplyBlock(store, candidate[w]) = Replay(blocks)

LEMMA BlockLines ==
    /\ \A b \in BlockSet : b.txs \in Seq(StoreLine)
    /\ \A bs \in Seq(BlockSet) : ReplayList(bs)
  <1>1. \A b \in BlockSet : b.txs \in Seq(StoreLine)
    BY NodeAssumption DEF BlockSet
  <1>2. ASSUME NEW bs \in Seq(BlockSet) PROVE ReplayList(bs)
    <2>1. Len(bs) \in Nat /\ \A i \in 1 .. Len(bs) : bs[i] \in BlockSet
      OBVIOUS
    <2> QED
      BY <1>1, <2>1 DEF ReplayList
  <1> QED
    BY <1>1, <1>2

LEMMA StoreFollowsAtFirst == Init => StoreFollows
  <1> SUFFICES ASSUME Init PROVE StoreFollows
    OBVIOUS
  <1>1. store = EmptyStore /\ pc[Shell] = "idle" /\ \A w \in Worker : pc[w] = "off"
    BY NodeAssumption DEF Init
  <1>2. PICK g : blocks = << g >> /\ g.txs = << Text >>
    <2>1. PICK s \in Clock : \E g \in MineBlock(GenesisTemplate(Text, s)) : blocks = << g >>
      BY DEF Init, ChainInit
    <2>2. PICK g \in MineBlock(GenesisTemplate(Text, s)) : blocks = << g >>
      BY <2>1
    <2>3. g.txs = << Text >>
      BY DEF MineBlock, GenesisTemplate
    <2> QED
      BY <2>2, <2>3
  <1>3. ReplayList(blocks)
    <2>1. blocks \in Seq(BlockSet)
      BY NodeInitEstablishes, ChainTyped DEF NodeInv
    <2> QED
      BY <2>1, BlockLines
  <1>4. Replay(blocks) = ApplyBlock(EmptyStore, g)
    <2>1. Len(blocks) = 1 /\ blocks[1] = g
      BY <1>2
    <2>2. /\ AfterBlocks(blocks)[0] = EmptyStore
          /\ AfterBlocks(blocks)[1] = ApplyBlock(AfterBlocks(blocks)[1 - 1], blocks[1])
      <3>1. 1 \in 1 .. Len(blocks)
        BY <2>1
      <3> QED
        BY <1>3, <3>1, AfterBlocksStep
    <2> QED
      BY <2>1, <2>2 DEF Replay
  <1>5. Replay(blocks) = EmptyStore
    <2>1. Text \in TextLine
      BY DEF Text, TextLine
    <2> QED
      BY <1>2, <1>4, <2>1, TextBlockSkipped, EmptyStoreType
  <1> QED
    BY <1>1, <1>5 DEF StoreFollows

LEMMA StepKeepsStoreFollowing ==
    ASSUME NodeInv, HandsAgree, QuietInv, StoreFollows, [Next]_vars,
           OneWorker, AddLines \subseteq TextLine
    PROVE  StoreFollows'
  <1>0. /\ pc \in [Client -> WorkerPc \cup ShellPc]
        /\ candidate \in [Client -> BlockSet \cup {NoBlock}]
        /\ blocks \in Seq(BlockSet) /\ fetched \in Seq(BlockSet) /\ applied \in Seq(BlockSet)
        /\ store \in StoreSet
        /\ Shell \in Client /\ Worker \subseteq Client /\ Shell \notin Worker
    BY NodeAssumption, ChainTyped DEF NodeInv, ThreadsTyped, StoreTyped
  <1>1. SyncIsQuiet /\ MinedIsInChain /\ ShellAdds
    BY DEF QuietInv
  <1>2. CASE Aside
    <2>1. InFlight' = InFlight
      BY <1>2 DEF Aside, InFlight
    <2>2. Rebuilding' = Rebuilding /\ Ended' = Ended /\ (pc'[Shell] = "rebuild" <=> pc[Shell] = "rebuild")
      BY <1>2 DEF Aside, Rebuilding, Ended, SyncPc
    <2> QED
      BY <1>2, <2>1, <2>2 DEF Aside, StoreFollows, Settled
  <1>3. ASSUME NEW w \in Worker, AppendMined(w), CanAppend(candidate[w])
        PROVE  StoreFollows'
    <2>1. pc[w] = "append" /\ TryAppend(w) /\ w \in Client
      BY <1>0, <1>3 DEF AppendMined, Goto
    <2>2. blocks' = Append(blocks, candidate[w]) /\ candidate[w] \in BlockSet
      BY <1>3, <2>1, AppendedIsNew
    <2>3. pc' = [pc EXCEPT ![w] = "apply"] /\ UNCHANGED << candidate, store >>
      BY <1>3 DEF AppendMined, Goto
    <2>4. Settled
      BY <1>1, <2>1 DEF OneWorker, Settled, InFlight, SyncIsQuiet, SyncPc, Rebuilding, Ended
    <2>5. Replay(blocks') = ApplyBlock(Replay(blocks), candidate[w])
      BY <1>0, <2>2, BlockLines, ReplayAppend
    <2>6. pc'[Shell] # "rebuild" /\ ~ Settled'
      <3>1. pc'[Shell] = pc[Shell] /\ pc'[w] = "apply"
        BY <1>0, <2>1, <2>3
      <3> QED
        BY <2>4, <3>1 DEF Settled, InFlight, Rebuilding, Ended
    <2>7. \A v \in Worker : v = w /\ candidate'[v] = candidate[w]
      BY <2>3 DEF OneWorker
    <2> QED
      BY <2>3, <2>4, <2>5, <2>6, <2>7 DEF StoreFollows
  <1>4. ASSUME NEW w \in Worker, ApplyMined(w) PROVE StoreFollows'
    <2>1. /\ pc[w] = "apply" /\ pc' = [pc EXCEPT ![w] = "top"] /\ w \in Client
          /\ store' = ApplyBlock(store, candidate[w]) /\ UNCHANGED blocks
      BY <1>0, <1>4 DEF ApplyMined, Goto
    <2>2. store' = Replay(blocks')
      BY <2>1 DEF StoreFollows
    <2>3. pc'[Shell] # "rebuild"
      BY <1>0, <1>1, <2>1 DEF SyncIsQuiet, SyncPc
    <2>4. \A v \in Worker : pc'[v] # "apply"
      BY <1>0, <2>1 DEF OneWorker
    <2> QED
      BY <2>2, <2>3, <2>4 DEF StoreFollows
  <1>5. ASSUME AppendAdded, CanAppend(candidate[Shell]) PROVE StoreFollows'
    <2>1. pc[Shell] = "append" /\ TryAppend(Shell)
      BY <1>5 DEF AppendAdded, Goto
    <2>2. blocks' = Append(blocks, candidate[Shell]) /\ candidate[Shell] \in BlockSet
      BY <1>0, <1>5, <2>1, AppendedIsNew
    <2>3. /\ pc' = [pc EXCEPT ![Shell] = "idle"] /\ candidate' = [candidate EXCEPT ![Shell] = NoBlock]
          /\ UNCHANGED store
      BY <1>5 DEF AppendAdded, Goto, Discard
    <2>4. Replay(blocks') = ApplyBlock(Replay(blocks), candidate[Shell])
      BY <1>0, <2>2, BlockLines, ReplayAppend
    <2>5. Replay(blocks) \in StoreSet
      <3>1. Len(blocks) \in 0 .. Len(blocks)
        BY <1>0
      <3> QED
        BY <1>0, <3>1, BlockLines, AfterBlocksType DEF Replay
    <2>6. PICK text \in AddLines : candidate[Shell].txs = << text >>
      BY <1>0, <1>1, <2>1 DEF ShellAdds, HandsAgree, HandAgrees
    <2>7. Replay(blocks') = Replay(blocks)
      BY <2>4, <2>5, <2>6, TextBlockSkipped
    <2>8. /\ InFlight' = InFlight /\ ~ Rebuilding /\ ~ Ended /\ ~ Rebuilding' /\ pc'[Shell] = "idle"
          /\ \A w \in Worker : pc'[w] = pc[w] /\ candidate'[w] = candidate[w]
      BY <1>0, <2>1, <2>3 DEF InFlight, Rebuilding, Ended
    <2> QED
      BY <2>3, <2>7, <2>8 DEF StoreFollows, Settled
  <1>6. ASSUME Fetch PROVE StoreFollows'
    <2>1. /\ pc[Shell] = "idle" /\ pc' = [pc EXCEPT ![Shell] = "replace"]
          /\ UNCHANGED << blocks, candidate, store >>
      BY <1>6 DEF Fetch, Goto, chainVars
    <2>2. /\ InFlight' = InFlight /\ ~ Rebuilding /\ ~ Ended /\ pc'[Shell] = "replace"
          /\ \A w \in Worker : pc'[w] = pc[w]
      BY <1>0, <2>1 DEF InFlight, Rebuilding, Ended
    <2> QED
      BY <2>1, <2>2 DEF StoreFollows, Settled
  <1>7. ASSUME Replace PROVE StoreFollows'
    <2>1. /\ pc[Shell] = "replace" /\ UNCHANGED << candidate, store >>
          /\ pc' = [pc EXCEPT ![Shell] = IF CanReplace(fetched) THEN "clear" ELSE "idle"]
          /\ blocks' = IF CanReplace(fetched) THEN fetched ELSE blocks
      BY <1>7 DEF Replace, Goto, ReplaceIfLongerAndValid
    <2>2. /\ \A w \in Worker : pc[w] = "off" /\ pc'[w] = "off"
          /\ InFlight = {} /\ ~ Rebuilding /\ ~ Ended
      BY <1>0, <1>1, <2>1 DEF SyncIsQuiet, SyncPc, InFlight, Rebuilding, Ended
    <2>3. CASE CanReplace(fetched)
      <3>1. pc'[Shell] = "clear"
        BY <1>0, <2>1, <2>3
      <3> QED
        BY <2>2, <3>1 DEF StoreFollows, Settled, Rebuilding
    <2>4. CASE ~ CanReplace(fetched)
      <3>1. pc'[Shell] = "idle" /\ blocks' = blocks
        BY <1>0, <2>1, <2>4
      <3> QED
        BY <2>1, <2>2, <3>1 DEF StoreFollows, Settled
    <2> QED
      BY <2>3, <2>4
  <1>8. ASSUME ClearStore PROVE StoreFollows'
    <2>1. /\ pc[Shell] = "clear" /\ pc'[Shell] = "rebuild" /\ store' = EmptyStore
          /\ applied' = << >> /\ UNCHANGED blocks /\ \A w \in Worker : pc'[w] = pc[w]
      BY <1>0, <1>8 DEF ClearStore, Goto, chainVars
    <2>2. \A w \in Worker : pc'[w] = "off"
      BY <1>1, <2>1 DEF SyncIsQuiet, SyncPc
    <2>3. store' = AfterBlocks(blocks')[Len(applied')]
      BY <1>0, <2>1, BlockLines, AfterBlocksStep
    <2> QED
      BY <2>1, <2>2, <2>3 DEF StoreFollows, Settled, Rebuilding
  <1>9. ASSUME RebuildBlock PROVE StoreFollows'
    <2>1. /\ pc[Shell] = "rebuild" /\ UNCHANGED blocks
          /\ pc' = [pc EXCEPT ![Shell] = IF Len(fetched) = 1 THEN "idle" ELSE "rebuild"]
          /\ store' = ApplyBlock(store, fetched[1]) /\ applied' = Append(applied, fetched[1])
      BY <1>9 DEF RebuildBlock, Goto, chainVars
    <2>2. (\A w \in Worker : pc[w] = "off") /\ blocks = applied \o fetched /\ fetched # << >>
      BY <1>1, <2>1 DEF SyncIsQuiet, SyncPc, NodeInv, HandsFull
    <2>3. /\ Len(applied) \in Nat /\ Len(applied') = Len(applied) + 1
          /\ Len(applied) + 1 \in 1 .. Len(blocks) /\ blocks[Len(applied) + 1] = fetched[1]
      BY <1>0, <2>1, <2>2, OneMoreApplied
    <2>4. store' = AfterBlocks(blocks)[Len(applied')]
      <3>1. store = AfterBlocks(blocks)[Len(applied)]
        BY <2>1 DEF StoreFollows
      <3>2. (Len(applied) + 1) - 1 = Len(applied)
        BY <2>3
      <3>3. AfterBlocks(blocks)[Len(applied) + 1]
              = ApplyBlock(AfterBlocks(blocks)[(Len(applied) + 1) - 1], blocks[Len(applied) + 1])
        BY <1>0, <2>3, BlockLines, AfterBlocksStep
      <3> QED
        BY <2>1, <2>3, <3>1, <3>2, <3>3
    <2>5. \A w \in Worker : pc'[w] = "off"
      BY <1>0, <2>1, <2>2
    <2>6. CASE Len(fetched) = 1
      <3>1. applied \o fetched = Append(applied, fetched[1])
        BY <1>0, <2>6, LastApplied
      <3>2. store' = Replay(blocks')
        BY <2>1, <2>2, <2>4, <3>1 DEF Replay
      <3>3. pc'[Shell] = "idle"
        BY <1>0, <2>1, <2>6
      <3> QED
        BY <2>5, <3>2, <3>3 DEF StoreFollows
    <2>7. CASE Len(fetched) # 1
      <3>1. pc'[Shell] = "rebuild"
        BY <1>0, <2>1, <2>7
      <3> QED
        BY <2>1, <2>4, <2>5, <3>1 DEF StoreFollows, Settled, Rebuilding
    <2> QED
      BY <2>6, <2>7
  <1>10. CASE Ends
    BY <1>0, <1>10 DEF Ends, Ended, StoreFollows, Settled
  <1> QED
    BY <1>2, <1>3, <1>4, <1>5, <1>6, <1>7, <1>8, <1>9, <1>10, QuietStep


LEMMA StoreFollowsAlways ==
    ASSUME SyncWhileMining = FALSE, OneWorker, AddLines \subseteq TextLine
    PROVE  Spec => []StoreFollows
  <1>1. NodeInv /\ HandsAgree /\ QuietInv /\ StoreFollows /\ [Next]_vars => StoreFollows'
    BY StepKeepsStoreFollowing
  <1>2. Spec => []QuietInv
    BY QuietAlways
  <1> QED
    BY <1>1, <1>2, StoreFollowsAtFirst, NodeInvariant, HandsAgreeAlways, PTL DEF Spec

\* With one miner, synchronisation while mining is stopped, and plain texts given
\* to `add`, the store is the replay of the chain whenever no block is in flight
\* and no rebuild under way (account.hpp:67-68): the blocks `add` puts between
\* two mined ones change nothing, and neither does a synchronisation that fails.
THEOREM StoreIsReplay ==
    ASSUME SyncWhileMining = FALSE, OneWorker, AddLines \subseteq TextLine
    PROVE  Spec => []SettledStoreIsReplay
  <1>1. StoreFollows => SettledStoreIsReplay
    BY DEF StoreFollows, SettledStoreIsReplay
  <1>2. Spec => []StoreFollows
    BY StoreFollowsAlways
  <1> QED
    BY <1>1, <1>2, PTL

\* On the same terms, what commands, handlers and workers see between two blocks of
\* a rebuild (account.hpp:75) is the replay of a part of the new chain: no balance,
\* nonce or name of the old one's is left among them.
THEOREM RebuildIsReplay ==
    ASSUME SyncWhileMining = FALSE, OneWorker, AddLines \subseteq TextLine
    PROVE  Spec => []RebuildShowsEarlierHeight
  <1>1. NodeInv /\ QuietInv /\ StoreFollows => RebuildShowsEarlierHeight
    <2> SUFFICES ASSUME NodeInv, QuietInv, StoreFollows, pc[Shell] = "rebuild"
                 PROVE  \E n \in 0 .. Len(blocks) : store = Replay(SubSeq(blocks, 1, n))
      BY DEF RebuildShowsEarlierHeight
    <2> DEFINE n == Len(applied)
               part == SubSeq(blocks, 1, n)
    <2>1. /\ blocks \in Seq(BlockSet) /\ applied \in Seq(BlockSet) /\ fetched \in Seq(BlockSet)
          /\ blocks = applied \o fetched
      BY ChainTyped DEF NodeInv, ThreadsTyped, QuietInv, SyncIsQuiet
    <2>2. n \in 0 .. Len(blocks) /\ part \in Seq(BlockSet) /\ Len(part) = n
      BY <2>1
    <2>3. \A i \in 1 .. n : blocks[i] = part[i]
      BY <2>1, <2>2
    <2>4. AfterBlocks(blocks)[n] = AfterBlocks(part)[n]
      <3> HIDE DEF n, part
      <3>1. n \in Nat /\ n \in 0 .. n /\ n <= Len(blocks) /\ n <= Len(part)
        BY <2>1, <2>2
      <3> QED
        BY <2>1, <2>2, <2>3, <3>1, BlockLines, AfterBlocksLocal
    <2>5. store = Replay(part)
      BY <2>2, <2>4 DEF StoreFollows, Replay
    <2> QED
      BY <2>2, <2>5
  <1>2. Spec => []QuietInv
    BY QuietAlways
  <1>3. Spec => []StoreFollows
    BY StoreFollowsAlways
  <1> QED
    BY <1>1, <1>2, <1>3, NodeInvariant, PTL

------------------------------------------------------------------------------
\* ... and the node implements the ledger

LEMMA LedgerSameStore ==
    /\ \A s, b : Shown!ApplyBlock(s, b) = ApplyBlock(s, b)
    /\ \A bs : Shown!Replay(bs) = Replay(bs)
    /\ \A s, t : Shown!IsPrefix(s, t) = IsPrefix(s, t)
  BY DEF Wrap, ApplyCoinbase, InOrder, CanRegister, CanTransfer, Register, Transfer, ApplyTx,
         LineThrows, ApplyLine, AfterLines, ApplyBlock, EmptyStore, AfterBlocks, Replay, IsPrefix,
         Shown!Wrap, Shown!LineThrows, Shown!ApplyCoinbase, Shown!InOrder, Shown!CanRegister, Shown!CanTransfer,
         Shown!Register, Shown!Transfer, Shown!ApplyTx, Shown!ApplyLine, Shown!AfterLines,
         Shown!ApplyBlock, Shown!EmptyStore, Shown!AfterBlocks, Shown!Replay, Shown!IsPrefix


\* What the node shows is what its chain determines.
ShownAgrees == ShownStore = Replay(blocks)

LEMMA ShownIsReplay == StoreFollows => ShownAgrees
  <1> SUFFICES ASSUME StoreFollows PROVE ShownStore = Replay(blocks)
    BY DEF ShownAgrees
  <1>1. CASE ~ Rebuilding /\ ~ Ended /\ InFlight # {}
    <2>1. PICK w \in Worker : pc[w] = "apply" /\ (CHOOSE b \in InFlight : TRUE) = candidate[w]
      <3>1. (CHOOSE b \in InFlight : TRUE) \in InFlight
        BY <1>1
      <3> QED
        BY <3>1 DEF InFlight
    <2>2. ShownStore = ApplyBlock(store, candidate[w])
      BY <1>1, <2>1 DEF ShownStore
    <2> QED
      BY <2>1, <2>2 DEF StoreFollows
  <1>2. CASE ~ Rebuilding /\ ~ Ended /\ InFlight = {}
    BY <1>2 DEF ShownStore, StoreFollows, Settled
  <1>3. CASE Rebuilding \/ Ended
    BY <1>3 DEF ShownStore
  <1> QED
    BY <1>1, <1>2, <1>3

\* The chain grows by one block or is swapped for a longer one.
LEMMA BlocksStep ==
    ASSUME NodeInv, [Next]_vars
    PROVE  \/ blocks' = blocks
           \/ \E t \in Client : candidate[t] \in BlockSet /\ blocks' = Append(blocks, candidate[t])
           \/ Len(blocks') > Len(blocks)
  <1>1. candidate \in [Client -> BlockSet \cup {NoBlock}]
    BY ChainTyped DEF NodeInv
  <1>2. ASSUME NEW t \in Client, TryAppend(t)
        PROVE  \/ blocks' = blocks
               \/ candidate[t] \in BlockSet /\ blocks' = Append(blocks, candidate[t])
    BY <1>1, <1>2 DEF TryAppend
  <1>3. ASSUME NEW s, ReplaceIfLongerAndValid(s)
        PROVE  blocks' = blocks \/ Len(blocks') > Len(blocks)
    BY <1>3 DEF ReplaceIfLongerAndValid, CanReplace
  <1>4. [ChainView!Next]_<< blocks, difficulty, candidate >>
    BY StepOfChain
  <1> QED
    BY <1>2, <1>3, <1>4, ViewSameActions
    DEF ChainView!Next, BuildCandidate, FindNonce, SetDifficulty

\* No step of the miner, of the shell or of a rebuild shows accounts that the
\* chain does not determine: each is a step of the ledger, by which the chain and
\* the accounts change together, or is not seen at all (miner.hpp:68-69,
\* main.cpp's init-node and sync).
THEOREM LedgerRefined ==
    ASSUME SyncWhileMining = FALSE, OneWorker, AddLines \subseteq TextLine
    PROVE  Spec => ImplementsLedger
  <1>0. StoreFollows' => ShownAgrees'
    BY ShownIsReplay, PTL
  <1>1. Init /\ StoreFollows => Shown!Init
    <2> SUFFICES ASSUME Init, StoreFollows PROVE Shown!Init
      OBVIOUS
    <2>1. Len(blocks) = 1
      BY DEF Init, ChainInit
    <2> QED
      BY <2>1, ShownIsReplay, LedgerSameStore DEF ShownAgrees, Shown!Init
  <1>2. NodeInv /\ StoreFollows /\ StoreFollows' /\ [Next]_vars
          => [Shown!Extend \/ Shown!Adopt]_Shown!ledgerVars
    <2> SUFFICES ASSUME NodeInv, StoreFollows, StoreFollows', [Next]_vars
                 PROVE  [Shown!Extend \/ Shown!Adopt]_Shown!ledgerVars
      OBVIOUS
    <2>1. ShownStore = Replay(blocks) /\ ShownStore' = Replay(blocks')
      BY <1>0, ShownIsReplay DEF ShownAgrees
    <2>2. CASE blocks' = blocks
      BY <2>1, <2>2 DEF Shown!ledgerVars
    <2>3. ASSUME NEW t \in Client, candidate[t] \in BlockSet, blocks' = Append(blocks, candidate[t])
          PROVE  Shown!Extend
      <3>1. blocks \in Seq(BlockSet)
        BY ChainTyped DEF NodeInv
      <3>2. /\ Len(blocks') = Len(blocks) + 1 /\ blocks'[Len(blocks')] = candidate[t]
            /\ IsPrefix(blocks, blocks')
        <4>1. Len(blocks) \in Nat /\ Len(blocks') = Len(blocks) + 1 /\ blocks'[Len(blocks) + 1] = candidate[t]
          BY <2>3, <3>1
        <4>2. SubSeq(blocks, 1, Len(blocks)) = SubSeq(blocks', 1, Len(blocks))
          BY <2>3, <3>1
        <4> QED
          BY <4>1, <4>2 DEF IsPrefix
      <3>3. Replay(blocks') = ApplyBlock(Replay(blocks), candidate[t])
        BY <2>3, <3>1, BlockLines, ReplayAppend
      <3> QED
        BY <2>1, <3>2, <3>3, LedgerSameStore DEF Shown!Extend
    <2>4. CASE Len(blocks') > Len(blocks)
      BY <2>1, <2>4, LedgerSameStore DEF Shown!Adopt
    <2> QED
      BY <2>2, <2>3, <2>4, BlocksStep
  <1>3. Spec => []StoreFollows
    BY StoreFollowsAlways
  <1> QED
    BY <1>1, <1>2, <1>3, NodeInvariant, PTL DEF Spec, ImplementsLedger, Shown!Spec


------------------------------------------------------------------------------
\* The mempool inside a node

LEMMA PoolViewSameActions ==
    /\ \A t, tx : PoolView!CallAdd(t, tx) = CallAdd(t, tx)
    /\ \A t : PoolView!CheckNonce(t) = CheckNonce(t)
    /\ \A t : PoolView!FinishAdd(t) = FinishAdd(t)
    /\ PoolView!Take = Take
  BY DEF CallAdd, CheckNonce, FinishAdd, Take, Admissible, SendersOf, TakeCount, Taken, TakeReads,
         LineThrows, PoolView!CallAdd, PoolView!CheckNonce, PoolView!FinishAdd, PoolView!Take,
         PoolView!Admissible, PoolView!SendersOf, PoolView!TakeCount, PoolView!Taken,
         PoolView!TakeReads, PoolView!LineThrows

\* Each step of the node is a step of the mempool alone, or leaves the mempool be.
LEMMA StepOfPool ==
    ASSUME NodeInv, [Next]_vars
    PROVE  \/ UNCHANGED mempoolVars
           \/ PoolView!PoolStep /\ UNCHANGED store
  <1>1. ASSUME NEW t \in Submitter, NEW tx \in SoundTx, CallAdd(t, tx) PROVE PoolView!PoolStep
    BY <1>1, PoolViewSameActions DEF PoolView!PoolStep
  <1>2. ASSUME SendCommand \/ RegisterCommand \/ \E h \in Handler : HandleTx(h)
        PROVE  PoolView!PoolStep /\ UNCHANGED store
    <2>1. PICK t \in Submitter, tx \in SoundTx : CallAdd(t, tx)
      BY <1>2, CallsAreSound
    <2> QED
      BY <1>1, <1>2, <2>1 DEF SendCommand, RegisterCommand, HandleTx
  <1>3. ASSUME NEW t \in Submitter, AddStep(t) PROVE PoolView!PoolStep /\ UNCHANGED store
    BY <1>3, PoolViewSameActions DEF AddStep, PoolView!PoolStep
  <1>4. ASSUME NEW w \in Worker, TakePending(w) PROVE PoolView!PoolStep /\ UNCHANGED store
    BY <1>4, PoolViewSameActions DEF TakePending, PoolView!PoolStep
  <1>5. ASSUME \/ UNCHANGED vars
               \/ \E w \in Worker : \/ LoopTop(w) \/ Build(w) \/ Found(w) \/ AbandonSearch(w)
                                    \/ AppendMined(w) \/ ApplyMined(w) \/ TakeThrows(w)
               \/ Joined \/ AppendAdded \/ Build(Shell) \/ Found(Shell)
               \/ Fetch \/ Replace \/ ClearStore \/ RebuildBlock \/ RebuildThrows
               \/ \E S \in SUBSET Worker : MineOrStop(S)
               \/ \E d \in Difficulties : DifficultyCommand(d)
               \/ \E text \in AddLines : AddCommand(text)
        PROVE  UNCHANGED mempoolVars
    BY <1>5, ThrowsEnd
    DEF vars, LoopTop, Build, Found, AbandonSearch, AppendMined, ApplyMined, Joined, AppendAdded,
        Fetch, Replace, ClearStore, RebuildBlock, MineOrStop, DifficultyCommand, AddCommand
  <1> QED
    BY <1>2, <1>3, <1>4, <1>5 DEF Next, WorkerStep, ShellStep

LEMMA StepKeepsPoolView ==
    ASSUME NodeInv, NodeInv', PoolView!MempoolInv, [Next]_vars
    PROVE  PoolView!MempoolInv'
  <1>1. CASE UNCHANGED mempoolVars
    <2>1. store' \in PoolView!StoreSet
      BY PoolViewSameData DEF NodeInv, StoreTyped
    <2> QED
      BY <1>1, <2>1
      DEF mempoolVars, PoolView!MempoolInv, PoolView!MempoolTypeOK, PoolView!HolderIsAdding,
          PoolView!OnePerSender, PoolView!SendersOf, PoolView!NoFutureWhileSteady,
          PoolView!HeldNonceNotFromFuture
  <1>2. CASE PoolView!PoolStep /\ UNCHANGED store
    <2>1. [PoolView!Next]_PoolView!vars
      BY <1>2 DEF PoolView!Next
    <2> QED
      BY <2>1, PoolViewConstants, PoolView!NextPreserves
  <1> QED
    BY <1>1, <1>2, StepOfPool

LEMMA PoolViewAlways == Spec => []PoolView!MempoolInv
  <1>1. Init => PoolView!MempoolInv
    <2> SUFFICES ASSUME Init PROVE PoolView!MempoolInv
      OBVIOUS
    <2>1. store \in PoolView!StoreSet
      BY EmptyStoreType, PoolViewSameData DEF Init
    <2> QED
      BY <2>1
      DEF Init, MempoolInit, PoolView!MempoolInv, PoolView!MempoolTypeOK,
          PoolView!HolderIsAdding, PoolView!OnePerSender, PoolView!SendersOf,
          PoolView!NoFutureWhileSteady, PoolView!HeldNonceNotFromFuture
  <1>2. NodeInv /\ NodeInv' /\ PoolView!MempoolInv /\ [Next]_vars => PoolView!MempoolInv'
    BY StepKeepsPoolView
  <1> QED
    BY <1>1, <1>2, NodeInvariant, PTL DEF Spec

\* "one pending tx per sender" (mempool.hpp:5) in the running node: miners take
\* while the shell and peers add, blocks and rebuilds change the store in between.
THEOREM OnePendingPerSender == Spec => []OnePerSender
  <1>1. PoolView!MempoolInv => OnePerSender
    BY PoolViewSameData DEF PoolView!MempoolInv
  <1> QED
    BY <1>1, PoolViewAlways, PTL

\* The node's mempool is first in, first out: miners are the only ones to remove
\* anything, from the front, and whoever adds does so at the end, one at a time.
THEOREM QueueIsFifo == Spec => Fifo
  <1> DEFINE Moves == \/ Len(pending') = Len(pending) + 1 /\ IsPrefix(pending, pending')
                      \/ IsSuffix(pending', pending)
  <1>1. ASSUME NodeInv, PoolView!MempoolInv, [Next]_vars, ~ UNCHANGED mempoolVars PROVE Moves
    <2>1. [PoolView!Next]_PoolView!vars /\ ~ UNCHANGED PoolView!mempoolVars
      BY <1>1, StepOfPool DEF PoolView!Next, mempoolVars, PoolView!mempoolVars
    <2>2. /\ \A s, t : PoolView!IsPrefix(s, t) = IsPrefix(s, t)
          /\ \A s, t : PoolView!IsSuffix(s, t) = IsSuffix(s, t)
      BY DEF IsPrefix, IsSuffix, Reverse, PoolView!IsPrefix, PoolView!IsSuffix, PoolView!Reverse
    <2> QED
      BY <1>1, <2>1, <2>2, PoolViewConstants, PoolView!StepIsFifo
  <1>2. NodeInv /\ PoolView!MempoolInv /\ [Next]_vars => [Moves]_mempoolVars
    BY <1>1
  <1> QED
    BY <1>2, NodeInvariant, PoolViewAlways, PTL DEF Spec, Fifo

------------------------------------------------------------------------------
\* Coins

\* What is paid out is in the balances, but for what wrapped.
Paid(s, r) ==
    /\ r \in Nat /\ SumFunction(s.balance) \in Nat
    /\ SumFunction(s.balance) <= r /\ (r - SumFunction(s.balance)) % U64Modulus = 0

LEMMA BalanceSums ==
    ASSUME IsFiniteSet(Address), NEW f \in [Address -> U64]
    PROVE  Summable(f) /\ DOMAIN f = Address /\ SumFunction(f) \in Nat
  <1>1. Summable(f) /\ DOMAIN f = Address
    BY DEF Summable, U64
  <1> QED
    BY <1>1, SumType

\* A credit adds its amount to the sum of the balances, or wraps once.
LEMMA Credit ==
    ASSUME IsFiniteSet(Address), NEW f \in [Address -> U64], NEW a \in Address, NEW n \in U64,
           NEW e, DOMAIN e = Address, e[a] = Wrap(f[a] + n), \A b \in Address \ {a} : e[b] = f[b]
    PROVE  /\ SumFunction(e) \in Nat /\ SumFunction(f) \in Nat
           /\ \/ SumFunction(e) = SumFunction(f) + n
              \/ SumFunction(e) + U64Modulus = SumFunction(f) + n
  <1>1. U64Modulus \in Nat \ {0} /\ n \in Nat /\ n < U64Modulus
    BY StateStoreAssumption DEF U64
  <1>2. f[a] \in Nat /\ f[a] < U64Modulus
    <2>1. f[a] \in U64
      OBVIOUS
    <2> QED
      BY <1>1, <2>1 DEF U64
  <1> DEFINE x == f[a] + n
             w == x % U64Modulus
  <1>3. w \in Nat /\ (w = x \/ w + U64Modulus = x)
    <2>1. x \in Nat /\ x < 2 * U64Modulus
      BY <1>1, <1>2
    <2> HIDE DEF x
    <2>2. CASE x < U64Modulus
      BY <1>1, <2>1, <2>2
    <2>3. CASE ~ (x < U64Modulus)
      BY <1>1, <2>1, <2>3
    <2> QED
      BY <2>2, <2>3
  <1>4. e[a] = w
    BY DEF Wrap
  <1>5. Summable(f) /\ DOMAIN f = Address
    BY BalanceSums
  <1> HIDE DEF w
  <1>6. a \in DOMAIN f /\ DOMAIN e = DOMAIN f /\ e[a] \in Nat /\ \A b \in DOMAIN f \ {a} : e[b] = f[b]
    BY <1>3, <1>4, <1>5
  <1>7. /\ SumFunction(e) + f[a] = SumFunction(f) + e[a]
        /\ SumFunction(e) \in Nat /\ SumFunction(f) \in Nat
    BY <1>5, <1>6, SumChange
  <1> QED
    BY <1>1, <1>2, <1>3, <1>4, <1>7

\* A debit that the balance covers takes its amount from the sum.
LEMMA Debit ==
    ASSUME IsFiniteSet(Address), NEW f \in [Address -> U64], NEW a \in Address, NEW n \in U64,
           f[a] >= n,
           NEW e, DOMAIN e = Address, e[a] = f[a] - n, \A b \in Address \ {a} : e[b] = f[b]
    PROVE  /\ SumFunction(e) \in Nat /\ SumFunction(f) \in Nat /\ SumFunction(e) + n = SumFunction(f)
  <1>1. n \in Nat /\ f[a] \in U64 /\ f[a] \in Nat
    <2>1. n \in U64 /\ f[a] \in U64
      OBVIOUS
    <2> QED
      BY <2>1 DEF U64
  <1>2. e[a] \in Nat /\ e[a] + n = f[a]
    BY <1>1
  <1>3. Summable(f) /\ DOMAIN f = Address
    BY BalanceSums
  <1>4. a \in DOMAIN f /\ DOMAIN e = DOMAIN f /\ e[a] \in Nat /\ \A b \in DOMAIN f \ {a} : e[b] = f[b]
    BY <1>2, <1>3
  <1>5. /\ SumFunction(e) + f[a] = SumFunction(f) + e[a]
        /\ SumFunction(e) \in Nat /\ SumFunction(f) \in Nat
    BY <1>3, <1>4, SumChange
  <1> QED
    BY <1>1, <1>2, <1>5

\* What a line does to the balances is what it pays out, or that and a wrap.
LEMMA LinePays ==
    ASSUME IsFiniteSet(Address), NEW s \in StoreSet, NEW line \in StoreLine, NEW r, Paid(s, r)
    PROVE  LineReward(line) \in Nat /\ Paid(ApplyLine(s, line), r + LineReward(line))
  <1> DEFINE t == ApplyLine(s, line)
             p == LineReward(line)
             old == SumFunction(s.balance)
             new == SumFunction(t.balance)
  <1>1. s.balance \in [Address -> U64] /\ U64Modulus \in Nat \ {0}
    BY StateStoreAssumption DEF StoreSet
  <1>2. /\ p \in Nat /\ new \in Nat /\ old \in Nat
        /\ new = old + p \/ new + U64Modulus = old + p
    <2>1. CASE line \in CoinbaseLine
      <3>1. line.kind = "coinbase" /\ line.amount \in U64 /\ line.receiver \in Address
        BY <2>1 DEF CoinbaseLine
      <3>2. p = line.amount /\ p \in Nat
        BY <3>1 DEF LineReward, U64
      <3>3. t.balance = [s.balance EXCEPT ![line.receiver] = Wrap(@ + line.amount)]
        BY <3>1 DEF ApplyLine, ApplyCoinbase, StoreSet
      <3> HIDE DEF t, p
      <3>4. /\ DOMAIN t.balance = Address
            /\ t.balance[line.receiver] = Wrap(s.balance[line.receiver] + line.amount)
            /\ \A b \in Address \ {line.receiver} : t.balance[b] = s.balance[b]
        BY <1>1, <3>1, <3>3
      <3>5. /\ SumFunction(t.balance) \in Nat /\ SumFunction(s.balance) \in Nat
            /\ \/ SumFunction(t.balance) = SumFunction(s.balance) + line.amount
               \/ SumFunction(t.balance) + U64Modulus = SumFunction(s.balance) + line.amount
        BY <1>1, <3>1, <3>4, Credit
      <3> QED
        BY <3>2, <3>5
    <2>2. CASE t.balance = s.balance /\ p = 0
      <3> HIDE DEF t, p
      <3>1. SumFunction(s.balance) \in Nat
        BY <1>1, BalanceSums
      <3> QED
        BY <2>2, <3>1
    <2>3. CASE \/ line \in TextLine \cup MalformedLine
               \/ line \in Transaction /\ LineThrows(line)
      BY <2>2, <2>3 DEF TextLine, MalformedLine, Transaction, ApplyLine, LineReward
    <2>4. CASE line \in Transaction /\ WellTyped(line) /\ ~ LineThrows(line)
      <3>1. line.kind = "tx" /\ p = 0 /\ t = ApplyTx(s, line) /\ line.amount \in U64 /\ line.sender \in Address
        BY <2>4 DEF Transaction, LineReward, ApplyLine
      <3>2. CASE CanTransfer(s, line)
        <4> DEFINE debited == [s.balance EXCEPT ![line.sender] = @ - line.amount]
        <4>1. /\ line.receiver \in Address /\ s.balance[line.sender] >= line.amount
              /\ ~ CanRegister(s, line)
          BY <2>4, <3>2 DEF CanTransfer, CanRegister, WellTyped
        <4>2. t.balance = [debited EXCEPT ![line.receiver] = Wrap(@ + line.amount)]
          BY <3>1, <3>2, <4>1 DEF ApplyTx, Transfer, StoreSet
        <4>3. /\ debited \in [Address -> U64] /\ DOMAIN debited = Address
              /\ debited[line.sender] = s.balance[line.sender] - line.amount
              /\ \A b \in Address \ {line.sender} : debited[b] = s.balance[b]
          <5>1. s.balance[line.sender] - line.amount \in U64
            <6>1. s.balance[line.sender] \in U64
              BY <1>1, <3>1
            <6> QED
              BY <3>1, <4>1, <6>1, StateStoreAssumption DEF U64
          <5> QED
            BY <1>1, <3>1, <5>1
        <4> HIDE DEF debited, t, p
        <4>4. /\ DOMAIN t.balance = Address
              /\ t.balance[line.receiver] = Wrap(debited[line.receiver] + line.amount)
              /\ \A b \in Address \ {line.receiver} : t.balance[b] = debited[b]
          BY <4>1, <4>2, <4>3
        <4>5. /\ SumFunction(debited) \in Nat /\ SumFunction(s.balance) \in Nat
              /\ SumFunction(debited) + line.amount = SumFunction(s.balance)
          BY <1>1, <3>1, <4>1, <4>3, Debit
        <4>6. /\ SumFunction(t.balance) \in Nat
              /\ \/ SumFunction(t.balance) = SumFunction(debited) + line.amount
                 \/ SumFunction(t.balance) + U64Modulus = SumFunction(debited) + line.amount
          BY <3>1, <4>1, <4>3, <4>4, Credit
        <4> QED
          BY <3>1, <4>5, <4>6
      <3>3. CASE ~ CanTransfer(s, line)
        <4>1. t = s \/ t = Register(s, line)
          BY <3>1, <3>3 DEF ApplyTx
        <4>2. t.balance = s.balance
          BY <4>1 DEF Register, StoreSet
        <4> QED
          BY <2>2, <3>1, <4>2
      <3> QED
        BY <3>2, <3>3
    <2> QED
      BY <2>1, <2>3, <2>4 DEF StoreLine
  <1>3. r \in Nat /\ old <= r /\ (r - old) % U64Modulus = 0
    BY DEF Paid
  <1> HIDE DEF p, old, new
  <1>4. /\ r + p \in Nat /\ new <= r + p
        /\ (r + p) - new = r - old \/ (r + p) - new = (r - old) + U64Modulus
    BY <1>1, <1>2, <1>3
  <1>5. ((r + p) - new) % U64Modulus = 0
    <2>1. r - old \in Nat
      BY <1>2, <1>3
    <2>2. ((r - old) + U64Modulus) % U64Modulus = (r - old) % U64Modulus
      BY <1>1, <2>1, OneMoreModulus
    <2> QED
      BY <1>3, <1>4, <2>2
  <1> QED
    BY <1>2, <1>4, <1>5 DEF Paid, new, p, t

\* The lines of a block pay out its reward.
LEMMA BlockPays ==
    ASSUME IsFiniteSet(Address), NEW s \in StoreSet, NEW b, b.txs \in Seq(StoreLine), NEW r, Paid(s, r)
    PROVE  BlockReward(b) \in Nat /\ Paid(ApplyBlock(s, b), r + BlockReward(b))
  <1> DEFINE f == [j \in DOMAIN b.txs |-> LineReward(b.txs[j])]
             N == Len(b.txs)
             after == AfterLines(s, b.txs)
  <1>1. N \in Nat /\ DOMAIN b.txs = 1 .. N /\ \A j \in 1 .. N : b.txs[j] \in StoreLine
    OBVIOUS
  <1>2. \A j \in 1 .. N : LineReward(b.txs[j]) \in Nat
    BY <1>1, LinePays
  <1>3. DOMAIN f = 1 .. N /\ \A j \in 1 .. N : f[j] = LineReward(b.txs[j]) /\ f[j] \in Nat
    BY <1>1, <1>2
  <1>4. BlockReward(b) = SumFunction(f)
    BY DEF BlockReward
  <1> HIDE DEF f
  <1>5. Summable(f)
    BY <1>1, <1>3, FS_Interval DEF Summable
  <1>6. PICK g : SumsOf(f, g) /\ SumFunction(f) = g[DOMAIN f]
    BY <1>5, SumIsSum
  <1>7. /\ g[1 .. 0] = 0 /\ g[1 .. N] \in Nat
        /\ \A m \in 0 .. N - 1 : g[1 .. m + 1] = f[m + 1] + g[1 .. m] /\ g[1 .. m] \in Nat
    <2>1. g[1 .. 0] = 0 /\ g[1 .. N] \in Nat
      <3>1. 1 .. 0 = {}
        OBVIOUS
      <3> QED
        BY <1>3, <1>6, <3>1 DEF SumsOf
    <2>2. ASSUME NEW m \in 0 .. N - 1 PROVE g[1 .. m + 1] = f[m + 1] + g[1 .. m] /\ g[1 .. m] \in Nat
      <3>1. /\ 1 .. m + 1 \in SUBSET DOMAIN f /\ m + 1 \in 1 .. m + 1 /\ 1 .. m \in SUBSET DOMAIN f
            /\ (1 .. m + 1) \ {m + 1} = 1 .. m
        BY <1>1, <1>3
      <3>2. /\ \A s1 \in SUBSET DOMAIN f : g[s1] \in Nat
            /\ \A s1 \in SUBSET DOMAIN f : \A a \in s1 : g[s1] = f[a] + g[s1 \ {a}]
        BY <1>6 DEF SumsOf
      <3>3. g[1 .. m + 1] = f[m + 1] + g[(1 .. m + 1) \ {m + 1}]
        BY <3>1, <3>2
      <3> QED
        BY <3>1, <3>2, <3>3
    <2> QED
      BY <2>1, <2>2
  <1> DEFINE Fine(m) == m \in 0 .. N => Paid(after[m], r + g[1 .. m])
             Good == { m \in Nat : Fine(m) }
  <1>8. Fine(0)
    <2>1. after[0] = s
      BY AfterLinesStep
    <2>2. r \in Nat /\ r + 0 = r
      BY DEF Paid
    <2> HIDE DEF after
    <2> QED
      BY <1>7, <2>1, <2>2
  <1>9. ASSUME NEW m \in Nat, Fine(m) PROVE Fine(m + 1)
    <2> SUFFICES ASSUME m + 1 \in 0 .. N PROVE Paid(after[m + 1], r + g[1 .. m + 1])
      OBVIOUS
    <2>1. m \in 0 .. N /\ m \in 0 .. N - 1 /\ m + 1 \in 1 .. N /\ (m + 1) - 1 = m
      BY <1>1
    <2>2. after[m + 1] = ApplyLine(after[m], b.txs[m + 1])
      <3>1. after[m + 1] = ApplyLine(after[(m + 1) - 1], b.txs[m + 1])
        BY <2>1, AfterLinesStep
      <3> HIDE DEF after
      <3> QED
        BY <2>1, <3>1
    <2>3. after[m] \in StoreSet
      BY <2>1, AfterLinesGood
    <2> HIDE DEF after
    <2>4. Paid(after[m], r + g[1 .. m]) /\ b.txs[m + 1] \in StoreLine
      BY <1>1, <1>9, <2>1
    <2>5. Paid(after[m + 1], (r + g[1 .. m]) + LineReward(b.txs[m + 1]))
      BY <2>2, <2>3, <2>4, LinePays
    <2>6. (r + g[1 .. m]) + LineReward(b.txs[m + 1]) = r + g[1 .. m + 1]
      <3>1. /\ r \in Nat /\ g[1 .. m] \in Nat /\ f[m + 1] \in Nat
            /\ g[1 .. m + 1] = f[m + 1] + g[1 .. m] /\ f[m + 1] = LineReward(b.txs[m + 1])
        BY <1>3, <1>7, <2>1 DEF Paid
      <3> QED
        BY <3>1
    <2> QED
      BY <2>5, <2>6
  <1>10. \A m \in Nat : m \in Good => m + 1 \in Good
    <2> HIDE DEF Fine
    <2> QED
      BY <1>9
  <1>11. Fine(N)
    <2>1. 0 \in Good
      BY <1>8
    <2>2. Nat \subseteq Good
      <3> HIDE DEF Good
      <3> QED
        BY <1>10, <2>1, NaturalsInSet
    <2> HIDE DEF Fine
    <2> QED
      BY <1>1, <2>2
  <1> QED
    BY <1>1, <1>3, <1>4, <1>6, <1>7, <1>11 DEF ApplyBlock

\* Nothing is paid out at first, nor after a clear.
LEMMA NothingPaid ==
    ASSUME IsFiniteSet(Address)
    PROVE  RewardsOf(<< >>) = 0 /\ Paid(EmptyStore, 0)
  <1>1. RewardsOf(<< >>) = 0
    <2> DEFINE f == [i \in DOMAIN << >> |-> BlockReward((<< >>)[i])]
    <2>1. DOMAIN f = {}
      OBVIOUS
    <2>2. RewardsOf(<< >>) = SumFunction(f)
      BY DEF RewardsOf
    <2> HIDE DEF f
    <2>3. IsFiniteSet(DOMAIN f) /\ \A x \in DOMAIN f : f[x] = 0
      BY <2>1, FS_EmptySet
    <2> QED
      BY <2>2, <2>3, SumOfZeros
  <1>2. SumFunction(EmptyStore.balance) = 0
    <2>1. DOMAIN EmptyStore.balance = Address /\ \A a \in Address : EmptyStore.balance[a] = 0
      BY DEF EmptyStore
    <2> QED
      BY <2>1, SumOfZeros
  <1>3. 0 % U64Modulus = 0
    BY StateStoreAssumption
  <1> QED
    BY <1>1, <1>2, <1>3 DEF Paid

\* A block more pays out its reward more.
LEMMA RewardsAppend ==
    ASSUME IsFiniteSet(Address), NEW bs \in Seq(BlockSet), NEW b \in BlockSet
    PROVE  RewardsOf(Append(bs, b)) = RewardsOf(bs) + BlockReward(b)
  <1> DEFINE cs == Append(bs, b)
             N == Len(bs)
             f == [i \in DOMAIN cs |-> BlockReward(cs[i])]
             e == [i \in DOMAIN bs |-> BlockReward(bs[i])]
  <1>1. \A c \in BlockSet : BlockReward(c) \in Nat
    BY NothingPaid, EmptyStoreType, BlockLines, BlockPays
  <1>2. /\ N \in Nat /\ DOMAIN bs = 1 .. N /\ DOMAIN cs = 1 .. N + 1 /\ cs[N + 1] = b
        /\ \A i \in 1 .. N : cs[i] = bs[i]
        /\ \A i \in 1 .. N + 1 : cs[i] \in BlockSet
    OBVIOUS
  <1> HIDE DEF cs
  <1>3. /\ DOMAIN f = 1 .. N + 1 /\ \A i \in 1 .. N + 1 : f[i] = BlockReward(cs[i]) /\ f[i] \in Nat
    BY <1>1, <1>2
  <1>4. DOMAIN e = 1 .. N /\ \A i \in 1 .. N : e[i] = BlockReward(bs[i])
    BY <1>2
  <1>5. RewardsOf(cs) = SumFunction(f) /\ RewardsOf(bs) = SumFunction(e)
    BY DEF RewardsOf
  <1> HIDE DEF f, e
  <1>6. /\ Summable(f) /\ N + 1 \in DOMAIN f /\ DOMAIN e = DOMAIN f \ {N + 1}
        /\ \A i \in DOMAIN e : e[i] = f[i]
    <2>1. Summable(f)
      <3>1. 1 \in Int /\ N + 1 \in Int
        BY <1>2
      <3>2. IsFiniteSet(1 .. N + 1)
        BY <3>1, FS_Interval
      <3> QED
        BY <1>3, <3>2 DEF Summable
    <2>2. N + 1 \in 1 .. N + 1 /\ 1 .. N = (1 .. N + 1) \ {N + 1}
      BY <1>2
    <2>3. \A i \in 1 .. N : i \in 1 .. N + 1
      BY <1>2
    <2> QED
      BY <1>2, <1>3, <1>4, <2>1, <2>2, <2>3
  <1>7. /\ SumFunction(f) = f[N + 1] + SumFunction(e)
        /\ SumFunction(e) \in Nat /\ f[N + 1] \in Nat
    BY <1>6, SumWithout
  <1>8. f[N + 1] = BlockReward(b)
    BY <1>2, <1>3, <1>6
  <1> QED
    BY <1>5, <1>7, <1>8 DEF cs

\* A step applies one more block, or starts over, or leaves the balances alone.
LEMMA StepOfCoins ==
    ASSUME NodeInv, [Next]_vars
    PROVE  \/ store' = store /\ applied' = applied
           \/ store' = EmptyStore /\ applied' = << >>
           \/ \E b \in BlockSet : store' = ApplyBlock(store, b) /\ applied' = Append(applied, b)
  <1>1. ASSUME NEW w \in Worker, ApplyMined(w)
        PROVE  \E b \in BlockSet : store' = ApplyBlock(store, b) /\ applied' = Append(applied, b)
    <2>1. candidate[w] \in BlockSet
      BY <1>1, NodeAssumption, ChainTyped DEF ApplyMined, Goto, HandsFull, NodeInv
    <2> QED
      BY <1>1, <2>1 DEF ApplyMined
  <1>2. ASSUME RebuildBlock
        PROVE  \E b \in BlockSet : store' = ApplyBlock(store, b) /\ applied' = Append(applied, b)
    <2>1. fetched \in Seq(BlockSet) /\ fetched # << >>
      BY <1>2 DEF RebuildBlock, Goto, HandsFull, ThreadsTyped, NodeInv
    <2>2. fetched[1] \in BlockSet
      BY <2>1
    <2> QED
      BY <1>2, <2>2 DEF RebuildBlock
  <1>3. ASSUME ClearStore PROVE store' = EmptyStore /\ applied' = << >>
    BY <1>3 DEF ClearStore
  <1>4. ASSUME ~ ClearStore, ~ RebuildBlock, \A w \in Worker : ~ ApplyMined(w)
        PROVE  store' = store /\ applied' = applied
    BY <1>4, ThrowsEnd
    DEF Next, WorkerStep, ShellStep, vars, LoopTop, TakePending, Build, Found, AbandonSearch,
        AppendMined, HandleTx, AddStep, SendCommand, RegisterCommand, Joined, AppendAdded,
        MineOrStop, DifficultyCommand, AddCommand, Fetch, Replace, nodeVars
  <1> QED
    BY <1>1, <1>2, <1>3, <1>4

LEMMA PaidAlways ==
    ASSUME IsFiniteSet(Address)
    PROVE  Spec => []Paid(store, RewardsOf(applied))
  <1> DEFINE Coins == Paid(store, RewardsOf(applied))
  <1>1. Init => Coins
    BY NothingPaid DEF Init
  <1>2. NodeInv /\ Coins /\ [Next]_vars => Coins'
    <2> SUFFICES ASSUME NodeInv, Coins, [Next]_vars PROVE Coins'
      OBVIOUS
    <2>1. store \in StoreSet /\ applied \in Seq(BlockSet)
      BY DEF NodeInv, StoreTyped, ThreadsTyped
    <2>2. CASE store' = store /\ applied' = applied
      BY <2>2
    <2>3. CASE store' = EmptyStore /\ applied' = << >>
      BY <2>3, NothingPaid
    <2>4. ASSUME NEW b \in BlockSet, store' = ApplyBlock(store, b), applied' = Append(applied, b)
          PROVE  Coins'
      <3>1. b.txs \in Seq(StoreLine)
        BY BlockLines
      <3>2. Paid(ApplyBlock(store, b), RewardsOf(applied) + BlockReward(b))
        BY <2>1, <3>1, BlockPays
      <3>3. RewardsOf(Append(applied, b)) = RewardsOf(applied) + BlockReward(b)
        BY <2>1, RewardsAppend
      <3> QED
        BY <2>4, <3>2, <3>3
    <2> QED
      BY <2>2, <2>3, <2>4, StepOfCoins
  <1> HIDE DEF Coins
  <1>3. Spec => []Coins
    BY <1>1, <1>2, NodeInvariant, PTL DEF Spec
  <1> QED
    BY <1>3 DEF Coins

\* The coins in the accounts are those the coinbases applied have paid out since
\* the store was last cleared, but for a modulus where a balance wrapped
\* (applyCoinbaseLocked, applyTxLocked of account.hpp): no payment makes or loses
\* one, in any order of mining threads, payments and rebuilds, for any blocks a
\* peer may offer.  Accounts are finitely many.
THEOREM CoinsComeFromRewards ==
    ASSUME IsFiniteSet(Address)
    PROVE  Spec => []SupplyIsRewards
  <1>1. Paid(store, RewardsOf(applied)) => SupplyIsRewards
    BY DEF Paid, SupplyIsRewards, Supply
  <1>2. Spec => []Paid(store, RewardsOf(applied))
    BY PaidAlways
  <1> QED
    BY <1>1, <1>2, PTL

\* While less than 2^64 has been paid out no balance wraps: the accounts then hold
\* what the coinbases applied have paid, to the coin.
THEOREM NoCoinIsLost ==
    ASSUME IsFiniteSet(Address)
    PROVE  Spec => [](RewardsOf(applied) < U64Modulus => Supply = RewardsOf(applied))
  <1>1. Paid(store, RewardsOf(applied)) => (RewardsOf(applied) < U64Modulus => Supply = RewardsOf(applied))
    <2> SUFFICES ASSUME NEW r, NEW s, r \in Nat, s \in Nat, s <= r, (r - s) % U64Modulus = 0, r < U64Modulus
                 PROVE  s = r
      BY DEF Paid, Supply
    <2>1. U64Modulus \in Nat \ {0} /\ r - s \in Nat /\ r - s < U64Modulus
      BY StateStoreAssumption
    <2>2. (r - s) % U64Modulus = r - s
      BY <2>1
    <2> QED
      BY <2>2
  <1>2. Spec => []Paid(store, RewardsOf(applied))
    BY PaidAlways
  <1> QED
    BY <1>1, <1>2, PTL
==============================================================================
