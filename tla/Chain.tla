-------------------------------- MODULE Chain --------------------------------
(***************************************************************************)
(* megabyte::blockchain::Chain (blockchain/chain.hpp): the in-memory block *)
(* list behind one mutex, and the clients (mining threads, the `add`       *)
(* command) that build a candidate under the mutex, search its nonce       *)
(* without it, and come back to append it.  Each action is one critical    *)
(* section, or one step of a client between two of them.                   *)
(***************************************************************************)
EXTENDS Block

CONSTANTS
    Clock,              \* what Block::nowUnix returns here
    Client,             \* threads that hold a candidate block
    NoBlock,            \* "no candidate built yet"
    InitialDifficulty,  \* difficulty_'s initializer (3 in the code)
    Difficulties,       \* arguments of the `difficulty` command
    MaxHeight           \* bound: no nonce is found for a candidate above it

ASSUME ChainAssumption ==
    /\ Clock \subseteq Stamp
    /\ NoBlock \notin BlockSet
    /\ InitialDifficulty \in UInt32
    /\ Difficulties \subseteq UInt32
    /\ MaxHeight \in Nat

VARIABLES
    blocks,      \* Chain::blocks_
    difficulty,  \* Chain::difficulty_
    candidate    \* each client's local Block

chainVars == << blocks, difficulty, candidate >>

Tip == blocks[Len(blocks)]

GenesisTemplate(genesisLine, stamp) ==
    [height |-> 0, stamp |-> stamp, difficulty |-> InitialDifficulty, zeros |-> 0,
     txs |-> << genesisLine >>, prev |-> ZeroDigest]

\* The constructor mines the genesis block at the initial difficulty.
ChainInit(genesisLine) ==
    /\ \E s \in Clock :
         \E g \in MineBlock(GenesisTemplate(genesisLine, s)) : blocks = << g >>
    /\ difficulty = InitialDifficulty
    /\ candidate = [c \in Client |-> NoBlock]

------------------------------------------------------------------------------

\* Mutated form: the height is read from the list's size, genesis not counted.
BuildCandidateStaleHeight(c, txLines) ==
    /\ \E s \in Clock :
         candidate' = [candidate EXCEPT ![c] =
            [height |-> Tip.height, stamp |-> s, difficulty |-> difficulty,
             zeros |-> 0, txs |-> txLines, prev |-> ComputeHash(Tip)]]
    /\ UNCHANGED << blocks, difficulty >>

\* buildCandidate: tip and difficulty are read in one critical section.
BuildCandidate(c, txLines) ==
    /\ \E s \in Clock :
         candidate' = [candidate EXCEPT ![c] =
            [height |-> Tip.height + 1, stamp |-> s, difficulty |-> difficulty,
             zeros |-> 0, txs |-> txLines, prev |-> ComputeHash(Tip)]]
    /\ UNCHANGED << blocks, difficulty >>

\* A client's nonce search succeeds; it may also run for ever.
FindNonce(c) ==
    /\ candidate[c] # NoBlock
    /\ candidate[c].height <= MaxHeight
    /\ \E m \in MineBlock(candidate[c]) : candidate' = [candidate EXCEPT ![c] = m]
    /\ UNCHANGED << blocks, difficulty >>

\* Mutated form: the tip is not compared again.
CanAppendAnyTip(b) == MeetsDifficulty(ComputeHash(b), b.difficulty)

\* tryAppendMinedBlock returns true.
CanAppend(b) ==
    /\ b.prev = ComputeHash(Tip)
    /\ MeetsDifficulty(ComputeHash(b), b.difficulty)

\* tryAppendMinedBlock.  What becomes of the candidate is its client's affair.
TryAppend(c) ==
    /\ candidate[c] # NoBlock
    /\ blocks' = IF CanAppend(candidate[c]) THEN Append(blocks, candidate[c]) ELSE blocks
    /\ UNCHANGED difficulty

\* The client's local Block goes out of scope.
Discard(c) == candidate' = [candidate EXCEPT ![c] = NoBlock]

\* Mutated form: the argument is kept as the int it is compared as.
SetDifficultySigned(d) ==
    /\ difficulty' = AsInt(d)
    /\ UNCHANGED << blocks, candidate >>

SetDifficulty(d) ==
    /\ difficulty' = d
    /\ UNCHANGED << blocks, candidate >>

\* isValidLocked, what `validate` reports.
IsValid ==
    \A i \in 2 .. Len(blocks) :
        /\ blocks[i].prev = ComputeHash(blocks[i - 1])
        /\ MeetsDifficulty(ComputeHash(blocks[i]), blocks[i].difficulty)

\* The loop of replaceIfLongerAndValid.
ValidLinks(s) ==
    \A i \in 2 .. Len(s) :
        /\ s[i].height = s[i - 1].height + 1
        /\ s[i].prev = ComputeHash(s[i - 1])
        /\ MeetsDifficulty(ComputeHash(s[i]), s[i].difficulty)

\* Mutated form: a chain of equal length replaces the local one.
CanReplaceEqual(s) ==
    /\ Len(s) >= Len(blocks)
    /\ s[1].height = 0
    /\ ValidLinks(s)

\* replaceIfLongerAndValid returns true.  The first block is asked for its
\* height only: neither its hash nor its previousHash is looked at.
CanReplace(s) ==
    /\ s # << >>
    /\ Len(s) > Len(blocks)
    /\ s[1].height = 0
    /\ ValidLinks(s)

ReplaceIfLongerAndValid(s) ==
    /\ blocks' = IF CanReplace(s) THEN s ELSE blocks
    /\ difficulty' = IF CanReplace(s) THEN s[Len(s)].difficulty ELSE difficulty
    /\ UNCHANGED candidate
==============================================================================
