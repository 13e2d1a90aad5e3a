------------------------------ MODULE ChainSpec ------------------------------
(***************************************************************************)
(* Chain on its own: clients call its public interface in any order, and   *)
(* a peer may offer any of a set of block lists, valid or not.             *)
(***************************************************************************)
EXTENDS Chain

CONSTANTS
    GenesisLine,  \* the genesis block's only line
    TxLines,      \* the line lists callers pass to buildCandidate
    Offered       \* block lists fetched from peers

ASSUME ChainSpecAssumption ==
    /\ GenesisLine \in Line
    /\ TxLines \subseteq Seq(Line)
    /\ Offered \subseteq Seq(BlockSet)

\* MaxHeight bounds appends too: here a client may try a block it has not mined.
\* A client may keep the block it tried, to tell the store of it, or drop it, and
\* may give up at any moment.
Next ==
    \/ \E c \in Client, txs \in TxLines : BuildCandidate(c, txs)
    \/ \E c \in Client : FindNonce(c)
    \/ \E c \in Client :
         /\ candidate[c] # NoBlock /\ candidate[c].height <= MaxHeight
         /\ TryAppend(c)
         /\ UNCHANGED candidate \/ Discard(c)
    \/ \E c \in Client : Discard(c) /\ UNCHANGED << blocks, difficulty >>
    \/ \E d \in Difficulties : SetDifficulty(d)
    \/ \E s \in Offered : ReplaceIfLongerAndValid(s)

Spec == ChainInit(GenesisLine) /\ [][Next]_chainVars

------------------------------------------------------------------------------

\* Type invariant.
ChainTypeOK ==
    /\ blocks \in Seq(BlockSet) /\ blocks # << >>
    /\ difficulty \in UInt32
    /\ candidate \in [Client -> BlockSet \cup {NoBlock}]

\* A block's height is its position in the list, whatever mix of local appends
\* and replacements built the list.  tryAppendMinedBlock (chain.hpp:50) never
\* looks at the height: it relies on the hash link to the tip alone.
HeightIsPosition == \A i \in 1 .. Len(blocks) : blocks[i].height = i - 1

\* The `validate` command never finds the chain invalid (isValidLocked,
\* chain.hpp:137): appends by racing miners and replacements from peers keep
\* every block after the first linked to its predecessor and mined.
ChainIsValid == IsValid

\* Below the sign boundary of the uint32_t-to-int conversion, the difficulty a
\* block claims is work it has (meetsDifficulty, proof_of_work.hpp:14).  From the
\* boundary up no zeros are asked for, whatever block.hpp:20 says of the field.
WorkBelowHalfRange ==
    \A i \in 2 .. Len(blocks) :
        blocks[i].difficulty < HalfRange => blocks[i].zeros >= blocks[i].difficulty

\* The block list changes only by growing: neither a stale candidate nor a
\* peer's list of equal or smaller length ever takes a block away
\* (tryAppendMinedBlock, replaceIfLongerAndValid).
OnlyGrows == [][blocks' # blocks => Len(blocks') > Len(blocks)]_chainVars

\* What makes HeightIsPosition inductive: a candidate, however stale, is one
\* higher than the block its previousHash commits to.
CandidatesFollowTheirParent ==
    \A c \in Client :
        candidate[c] # NoBlock =>
            LET parent == candidate[c].prev
            IN  /\ parent # ZeroDigest
                /\ candidate[c].height = parent[Len(parent)].height + 1

ChainInv == ChainTypeOK /\ HeightIsPosition /\ ChainIsValid /\ CandidatesFollowTheirParent
==============================================================================
