----------------------------- MODULE ChainProofs -----------------------------
(***************************************************************************)
(* Safety of the chain (blockchain/chain.hpp) for any number of clients,   *)
(* any difficulties, any transaction lists and any offered block lists.    *)
(***************************************************************************)
EXTENDS ChainSpec, SetInduction, TLAPS

USE DEF chainVars, IsValid

------------------------------------------------------------------------------
\* Blocks, their hashes and the proof of work

\* The header of a block is a header, and hashing extends the digest by it.
LEMMA ComputeHashType ==
    ASSUME NEW b \in BlockSet
    PROVE  /\ HeaderOf(b) \in Header
           /\ ComputeHash(b) \in Digest
           /\ ComputeHash(b) # ZeroDigest
           /\ Len(ComputeHash(b)) = Len(b.prev) + 1
           /\ ComputeHash(b)[Len(ComputeHash(b))] = HeaderOf(b)
  <1>1. HeaderOf(b) \in Header
    BY DEF BlockSet, HeaderOf, Header
  <1>2. b.prev \in Seq(Header)
    BY DEF BlockSet, Digest
  <1> QED
    BY <1>1, <1>2 DEF ComputeHash, Digest, ZeroDigest

\* A hash determines the height of the block it is the hash of.
LEMMA HashGivesHeight ==
    ASSUME NEW b \in BlockSet
    PROVE  ComputeHash(b)[Len(ComputeHash(b))].height = b.height
  <1>1. ComputeHash(b)[Len(ComputeHash(b))] = HeaderOf(b)
    BY ComputeHashType
  <1> QED
    BY <1>1 DEF HeaderOf

\* What mineBlock returns is the template with a hash that passes.
LEMMA MineBlockType ==
    ASSUME NEW b \in BlockSet, NEW m \in MineBlock(b)
    PROVE  /\ m \in BlockSet
           /\ m.height = b.height
           /\ m.prev = b.prev
           /\ MeetsDifficulty(ComputeHash(m), m.difficulty)
  <1>1. PICK z \in Zeros : m = [b EXCEPT !.zeros = z]
    BY DEF MineBlock
  <1> QED
    BY <1>1 DEF MineBlock, BlockSet

\* Up to the sign boundary, a hash that passes has the zeros asked for.
LEMMA WorkWhenPositive ==
    ASSUME NEW b \in BlockSet, MeetsDifficulty(ComputeHash(b), b.difficulty),
           b.difficulty < HalfRange
    PROVE  b.zeros >= b.difficulty
  <1>0. ComputeHash(b)[Len(ComputeHash(b))] = HeaderOf(b)
    BY ComputeHashType
  <1>1. LeadingZeroHexDigits(ComputeHash(b)) = b.zeros
    BY <1>0 DEF LeadingZeroHexDigits, HeaderOf
  <1>2. b.difficulty \in Int /\ AsInt(b.difficulty) = b.difficulty
    BY BlockAssumption DEF BlockSet, UInt32, AsInt
  <1> QED
    BY <1>1, <1>2 DEF MeetsDifficulty

------------------------------------------------------------------------------
\* The inductive invariant

LEMMA InitEstablishes == ChainInit(GenesisLine) => ChainInv
  <1> SUFFICES ASSUME ChainInit(GenesisLine) PROVE ChainInv
    OBVIOUS
  <1>0. PICK s \in Clock :
          \E g \in MineBlock(GenesisTemplate(GenesisLine, s)) : blocks = << g >>
    BY DEF ChainInit
  <1>1. PICK g \in MineBlock(GenesisTemplate(GenesisLine, s)) : blocks = << g >>
    BY <1>0
  <1>2. GenesisTemplate(GenesisLine, s) \in BlockSet
    BY <1>1, BlockAssumption, ChainAssumption, ChainSpecAssumption
    DEF GenesisTemplate, BlockSet, Zeros, ZeroDigest, Digest
  <1>3. g \in BlockSet /\ g.height = 0
    BY <1>2, MineBlockType DEF GenesisTemplate
  <1>4. ChainTypeOK
    BY <1>1, <1>3, ChainAssumption DEF ChainInit, ChainTypeOK
  <1>5. HeightIsPosition /\ ChainIsValid
    BY <1>1, <1>3 DEF HeightIsPosition, ChainIsValid
  <1>6. CandidatesFollowTheirParent
    BY DEF ChainInit, CandidatesFollowTheirParent
  <1> QED
    BY <1>4, <1>5, <1>6 DEF ChainInv

\* The tip is a block, and its height is the length of the list below it.
LEMMA TipType ==
    ASSUME ChainInv
    PROVE  /\ Tip \in BlockSet
           /\ Len(blocks) \in Nat \ {0}
           /\ Tip.height = Len(blocks) - 1
  BY DEF ChainInv, ChainTypeOK, HeightIsPosition, Tip

\* A block the chain appends is one higher than the tip, because its hash link
\* pins the parent and the parent's hash pins the parent's height.
LEMMA AppendedHeight ==
    ASSUME ChainInv, NEW c \in Client, candidate[c] # NoBlock, CanAppend(candidate[c])
    PROVE  /\ candidate[c] \in BlockSet
           /\ candidate[c].height = Len(blocks)
  <1>1. candidate[c] \in BlockSet
    BY DEF ChainInv, ChainTypeOK
  <1>2. candidate[c].height = candidate[c].prev[Len(candidate[c].prev)].height + 1
    BY DEF ChainInv, CandidatesFollowTheirParent
  <1>3. candidate[c].prev[Len(candidate[c].prev)].height = Len(blocks) - 1
    BY TipType, HashGivesHeight DEF CanAppend
  <1> QED
    BY <1>1, <1>2, <1>3, TipType

LEMMA BuildCandidatePreserves ==
    ASSUME ChainInv, NEW c \in Client, NEW txs \in TxLines, BuildCandidate(c, txs)
    PROVE  ChainInv'
  <1>1. PICK s \in Clock :
          candidate' = [candidate EXCEPT ![c] =
             [height |-> Tip.height + 1, stamp |-> s, difficulty |-> difficulty,
              zeros |-> 0, txs |-> txs, prev |-> ComputeHash(Tip)]]
    BY DEF BuildCandidate
  <1> DEFINE b == [height |-> Tip.height + 1, stamp |-> s, difficulty |-> difficulty,
                   zeros |-> 0, txs |-> txs, prev |-> ComputeHash(Tip)]
  <1>2. UNCHANGED << blocks, difficulty >>
    BY DEF BuildCandidate
  <1>3. b \in BlockSet
    <2>1. Tip.height + 1 \in Nat
      BY TipType
    <2>2. ComputeHash(Tip) \in Digest
      BY TipType, ComputeHashType
    <2>3. difficulty \in UInt32 /\ txs \in Seq(Line) /\ 0 \in Zeros /\ s \in Stamp
      BY BlockAssumption, ChainAssumption, ChainSpecAssumption DEF ChainInv, ChainTypeOK, Zeros
    <2> QED
      BY <2>1, <2>2, <2>3 DEF BlockSet
  <1>4. candidate \in [Client -> BlockSet \cup {NoBlock}]
    BY DEF ChainInv, ChainTypeOK
  <1>5. ChainTypeOK'
    BY <1>1, <1>2, <1>3, <1>4 DEF ChainInv, ChainTypeOK
  <1>6. HeightIsPosition' /\ ChainIsValid'
    BY <1>2 DEF ChainInv, HeightIsPosition, ChainIsValid
  <1>7. CandidatesFollowTheirParent'
    <2> SUFFICES ASSUME NEW k \in Client, candidate'[k] # NoBlock
                 PROVE  /\ candidate'[k].prev # ZeroDigest
                        /\ candidate'[k].height =
                             candidate'[k].prev[Len(candidate'[k].prev)].height + 1
      BY DEF CandidatesFollowTheirParent
    <2>1. CASE k = c
      <3>1. candidate'[k] = b
        BY <1>1, <1>4, <2>1
      <3>2. b.height = Tip.height + 1 /\ b.prev = ComputeHash(Tip)
        OBVIOUS
      <3> QED
        BY <3>1, <3>2, TipType, ComputeHashType, HashGivesHeight
    <2>2. CASE k # c
      BY <1>1, <1>4, <2>2 DEF ChainInv, CandidatesFollowTheirParent
    <2> QED
      BY <2>1, <2>2
  <1> QED
    BY <1>5, <1>6, <1>7 DEF ChainInv

LEMMA FindNoncePreserves ==
    ASSUME ChainInv, NEW c \in Client, FindNonce(c)
    PROVE  ChainInv'
  <1>1. PICK m \in MineBlock(candidate[c]) : candidate' = [candidate EXCEPT ![c] = m]
    BY DEF FindNonce
  <1>2. candidate \in [Client -> BlockSet \cup {NoBlock}] /\ candidate[c] \in BlockSet
    BY DEF ChainInv, ChainTypeOK, FindNonce
  <1>3. m \in BlockSet /\ m.height = candidate[c].height /\ m.prev = candidate[c].prev
    BY <1>2, MineBlockType
  <1>4. UNCHANGED << blocks, difficulty >>
    BY DEF FindNonce
  <1>5. ChainTypeOK'
    BY <1>1, <1>2, <1>3, <1>4 DEF ChainInv, ChainTypeOK
  <1>6. HeightIsPosition' /\ ChainIsValid'
    BY <1>4 DEF ChainInv, HeightIsPosition, ChainIsValid
  <1>7. CandidatesFollowTheirParent'
    BY <1>1, <1>2, <1>3 DEF ChainInv, CandidatesFollowTheirParent, FindNonce
  <1> QED
    BY <1>5, <1>6, <1>7 DEF ChainInv

\* Dropping a candidate leaves the others as they were.
LEMMA KeptOrDropped ==
    ASSUME ChainInv, NEW c \in Client, UNCHANGED candidate \/ Discard(c)
    PROVE  /\ candidate' \in [Client -> BlockSet \cup {NoBlock}]
           /\ CandidatesFollowTheirParent'
  BY DEF ChainInv, ChainTypeOK, CandidatesFollowTheirParent, Discard

LEMMA TryAppendPreserves ==
    ASSUME ChainInv, NEW c \in Client, candidate[c] # NoBlock, TryAppend(c),
           UNCHANGED candidate \/ Discard(c)
    PROVE  ChainInv'
  <1>1. /\ candidate' \in [Client -> BlockSet \cup {NoBlock}]
        /\ CandidatesFollowTheirParent'
    BY KeptOrDropped
  <1>2. CASE ~ CanAppend(candidate[c])
    BY <1>1, <1>2 DEF TryAppend, ChainInv, ChainTypeOK, HeightIsPosition, ChainIsValid
  <1>3. CASE CanAppend(candidate[c])
    <2> DEFINE b == candidate[c]
    <2>1. blocks' = Append(blocks, b) /\ difficulty' = difficulty
      BY <1>3 DEF TryAppend
    <2>2. b \in BlockSet /\ b.height = Len(blocks)
      BY <1>3, AppendedHeight
    <2>3. blocks \in Seq(BlockSet) /\ Len(blocks) \in Nat \ {0}
      BY TipType DEF ChainInv, ChainTypeOK
    <2>4. /\ Len(blocks') = Len(blocks) + 1
          /\ blocks'[Len(blocks) + 1] = b
          /\ \A i \in 1 .. Len(blocks) : blocks'[i] = blocks[i]
      BY <2>1, <2>2, <2>3
    <2>5. ChainTypeOK'
      BY <1>1, <2>1, <2>2, <2>3 DEF ChainInv, ChainTypeOK
    <2>6. HeightIsPosition'
      BY <2>2, <2>3, <2>4 DEF ChainInv, HeightIsPosition
    <2>7. ChainIsValid'
      <3> SUFFICES ASSUME NEW i \in 2 .. Len(blocks')
                   PROVE  /\ blocks'[i].prev = ComputeHash(blocks'[i - 1])
                          /\ MeetsDifficulty(ComputeHash(blocks'[i]), blocks'[i].difficulty)
        BY DEF ChainIsValid
      <3>1. CASE i = Len(blocks) + 1
        BY <1>3, <2>3, <2>4, <3>1 DEF CanAppend, Tip
      <3>2. CASE i \in 2 .. Len(blocks)
        BY <2>3, <2>4, <3>2 DEF ChainInv, ChainIsValid
      <3> QED
        BY <2>3, <2>4, <3>1, <3>2
    <2> QED
      BY <1>1, <2>5, <2>6, <2>7 DEF ChainInv
  <1> QED
    BY <1>2, <1>3

LEMMA DiscardPreserves ==
    ASSUME ChainInv, NEW c \in Client, Discard(c), UNCHANGED << blocks, difficulty >>
    PROVE  ChainInv'
  BY KeptOrDropped DEF ChainInv, ChainTypeOK, HeightIsPosition, ChainIsValid

LEMMA SetDifficultyPreserves ==
    ASSUME ChainInv, NEW d \in Difficulties, SetDifficulty(d)
    PROVE  ChainInv'
  BY ChainAssumption
  DEF SetDifficulty, ChainInv, ChainTypeOK, HeightIsPosition, ChainIsValid,
      CandidatesFollowTheirParent

\* In a list the replacement loop accepts, heights count up from the first.
LEMMA HeightsCountUp ==
    ASSUME NEW s \in Seq(BlockSet), CanReplace(s)
    PROVE  \A i \in 1 .. Len(s) : s[i].height = i - 1
  <1> DEFINE Good == { n \in Nat : n \in 1 .. Len(s) => s[n].height = n - 1 }
  <1>1. 0 \in Good
    OBVIOUS
  <1>2. ASSUME NEW n \in Nat, n \in Good, n + 1 \in 1 .. Len(s)
        PROVE  s[n + 1].height = n
    <2>1. CASE n = 0
      BY <2>1 DEF CanReplace
    <2>2. CASE n # 0
      <3>1. n \in 1 .. Len(s) /\ n + 1 \in 2 .. Len(s) /\ (n + 1) - 1 = n
        BY <1>2, <2>2
      <3>2. s[n + 1].height = s[n].height + 1
        BY <3>1 DEF CanReplace, ValidLinks
      <3> QED
        BY <1>2, <3>1, <3>2
    <2> QED
      BY <2>1, <2>2
  <1>3. \A n \in Nat : n \in Good => n + 1 \in Good
    BY <1>2
  <1>4. Nat \subseteq Good
    <2> HIDE DEF Good
    <2> QED
      BY <1>1, <1>3, NaturalsInSet
  <1> QED
    BY <1>4

LEMMA ReplacePreserves ==
    ASSUME ChainInv, NEW s \in Offered, ReplaceIfLongerAndValid(s)
    PROVE  ChainInv'
  <1>1. s \in Seq(BlockSet)
    BY ChainSpecAssumption
  <1>2. CandidatesFollowTheirParent'
    BY DEF ReplaceIfLongerAndValid, ChainInv, CandidatesFollowTheirParent
  <1>3. CASE ~ CanReplace(s)
    BY <1>2, <1>3
    DEF ReplaceIfLongerAndValid, ChainInv, ChainTypeOK, HeightIsPosition, ChainIsValid
  <1>4. CASE CanReplace(s)
    <2>1. blocks' = s /\ difficulty' = s[Len(s)].difficulty /\ candidate' = candidate
      BY <1>4 DEF ReplaceIfLongerAndValid
    <2>2. s # << >> /\ s[Len(s)] \in BlockSet
      BY <1>1, <1>4 DEF CanReplace
    <2>3. ChainTypeOK'
      BY <1>1, <2>1, <2>2 DEF ChainInv, ChainTypeOK, BlockSet
    <2>4. HeightIsPosition'
      BY <1>1, <1>4, <2>1, HeightsCountUp DEF HeightIsPosition
    <2>5. ChainIsValid'
      BY <1>4, <2>1 DEF CanReplace, ValidLinks, ChainIsValid
    <2> QED
      BY <1>2, <2>3, <2>4, <2>5 DEF ChainInv
  <1> QED
    BY <1>3, <1>4

LEMMA NextPreserves == ChainInv /\ [Next]_chainVars => ChainInv'
  <1> SUFFICES ASSUME ChainInv, [Next]_chainVars PROVE ChainInv'
    OBVIOUS
  <1>1. ASSUME NEW c \in Client, NEW txs \in TxLines, BuildCandidate(c, txs) PROVE ChainInv'
    BY <1>1, BuildCandidatePreserves
  <1>2. ASSUME NEW c \in Client, FindNonce(c) PROVE ChainInv'
    BY <1>2, FindNoncePreserves
  <1>3. ASSUME NEW c \in Client, candidate[c] # NoBlock, TryAppend(c),
               UNCHANGED candidate \/ Discard(c)
        PROVE  ChainInv'
    BY <1>3, TryAppendPreserves
  <1>7. ASSUME NEW c \in Client, Discard(c), UNCHANGED << blocks, difficulty >> PROVE ChainInv'
    BY <1>7, DiscardPreserves
  <1>4. ASSUME NEW d \in Difficulties, SetDifficulty(d) PROVE ChainInv'
    BY <1>4, SetDifficultyPreserves
  <1>5. ASSUME NEW s \in Offered, ReplaceIfLongerAndValid(s) PROVE ChainInv'
    BY <1>5, ReplacePreserves
  <1>6. CASE UNCHANGED chainVars
    BY <1>6 DEF ChainInv, ChainTypeOK, HeightIsPosition, ChainIsValid,
                CandidatesFollowTheirParent
  <1> QED
    BY <1>1, <1>2, <1>3, <1>4, <1>5, <1>6, <1>7 DEF Next

\* The invariant the safety theorems rest on: typed state, heights that are
\* positions, linked and mined blocks, and candidates that follow their parent.
THEOREM ChainInvariant == Spec => []ChainInv
  BY InitEstablishes, NextPreserves, PTL DEF Spec

------------------------------------------------------------------------------
\* What a reader wants to know

\* Type correctness of the chain (blocks_, difficulty_ and the candidates).
THEOREM TypeCorrect == Spec => []ChainTypeOK
  <1>1. ChainInv => ChainTypeOK
    BY DEF ChainInv
  <1> QED
    BY <1>1, ChainInvariant, PTL

\* The height stored in a block is its position in the list, though
\* tryAppendMinedBlock never compares heights (chain.hpp:50).
THEOREM HeightsArePositions == Spec => []HeightIsPosition
  <1>1. ChainInv => HeightIsPosition
    BY DEF ChainInv
  <1> QED
    BY <1>1, ChainInvariant, PTL

\* `validate` (isValidLocked, chain.hpp:137) never finds the chain invalid.
THEOREM AlwaysValid == Spec => []ChainIsValid
  <1>1. ChainInv => ChainIsValid
    BY DEF ChainInv
  <1> QED
    BY <1>1, ChainInvariant, PTL

\* Below 2^31, a block of the chain has the leading zeros its difficulty asks
\* for (meetsDifficulty, proof_of_work.hpp:14).
THEOREM WorkIsDone == Spec => []WorkBelowHalfRange
  <1>1. ChainInv => WorkBelowHalfRange
    <2> SUFFICES ASSUME ChainInv, NEW i \in 2 .. Len(blocks), blocks[i].difficulty < HalfRange
                 PROVE  blocks[i].zeros >= blocks[i].difficulty
      BY DEF WorkBelowHalfRange
    <2>1. blocks[i] \in BlockSet
      BY DEF ChainInv, ChainTypeOK
    <2>2. MeetsDifficulty(ComputeHash(blocks[i]), blocks[i].difficulty)
      BY DEF ChainInv, ChainIsValid
    <2> QED
      BY <2>1, <2>2, WorkWhenPositive
  <1> QED
    BY <1>1, ChainInvariant, PTL

\* No step shortens the block list or swaps it for one of the same length
\* (tryAppendMinedBlock, replaceIfLongerAndValid).
THEOREM NeverShrinks == Spec => OnlyGrows
  <1>1. ChainInv /\ [Next]_chainVars => [blocks' # blocks => Len(blocks') > Len(blocks)]_chainVars
    <2> SUFFICES ASSUME ChainInv, Next, blocks' # blocks
                 PROVE  Len(blocks') > Len(blocks)
      OBVIOUS
    <2>1. ASSUME NEW c \in Client, TryAppend(c) PROVE Len(blocks') > Len(blocks)
      <3>1. blocks' = Append(blocks, candidate[c])
        BY <2>1 DEF TryAppend
      <3> QED
        BY <3>1, TipType DEF ChainInv, ChainTypeOK
    <2>2. ASSUME NEW s \in Offered, ReplaceIfLongerAndValid(s)
          PROVE  Len(blocks') > Len(blocks)
      BY <2>2 DEF ReplaceIfLongerAndValid, CanReplace
    <2> QED
      BY <2>1, <2>2 DEF Next, BuildCandidate, FindNonce, SetDifficulty
  <1> QED
    BY <1>1, ChainInvariant, PTL DEF Spec, OnlyGrows
==============================================================================
