------------------------------- MODULE Network -------------------------------
(***************************************************************************)
(* Nodes that synchronise (doInitNode of node/main.cpp, queryHeight and    *)
(* fetchChain of p2p/peer_client.hpp, the HEIGHT and GET_CHAIN requests of *)
(* p2p/peer_server.hpp).  Each node's chain is a Chain; what its threads   *)
(* do to each other is Node's subject, so here a block is mined in one     *)
(* step.  Texts with commas in them are Fetch's.                           *)
(***************************************************************************)
EXTENDS Block

CONSTANTS
    Nodes,
    Syncing,      \* nodes whose users run init-node or sync
    Restarting,   \* nodes whose process may be started again
    NoNode,
    PeersOf,      \* the addresses each node's user gives, in that order
    Text,         \* what blocks carry
    Difficulty,   \* every node's
    MaxHeight,    \* bound: no block is mined above it
    MaxRestarts   \* bound: times such a process is started again

ASSUME NetworkAssumption ==
    /\ NoNode \notin Nodes /\ Syncing \subseteq Nodes /\ Restarting \subseteq Nodes
    /\ PeersOf \in [Nodes -> Seq(Nodes)]
    /\ Text \in Line /\ Difficulty \in UInt32
    /\ MaxHeight \in Nat /\ MaxRestarts \in Nat
    /\ Nodes \X (0 .. MaxRestarts) \subseteq Stamp

VARIABLES
    chain,     \* each node's Chain::blocks_
    known,     \* how many of PeersOf are in its knownPeers
    restarts,  \* how often its process was started again
    pc,        \* where its doInitNode is
    asked,     \* peers the loop of doInitNode is through with
    best,      \* bestPeer and bestHeight
    fetched,   \* local `blocks`
    heard      \* history: the tallest answer of this doInitNode

syncVars == << pc, asked, best, fetched, heard >>
vars == << chain, known, restarts, syncVars >>

Local(n) == INSTANCE Chain WITH
    blocks <- chain[n], difficulty <- Difficulty, candidate <- << >>,
    Clock <- Stamp, Client <- {}, NoBlock <- NoNode,
    InitialDifficulty <- Difficulty, Difficulties <- {}

Height(n) == Local(n)!Tip.height

NoAnswer == -1
NoPeer == [node |-> NoNode, height |-> NoAnswer]

\* The blocks node n's next process starts from, its r-th restart's.
Genesis(n, r) ==
    { << g >> : g \in MineBlock([height |-> 0, stamp |-> << n, r >>, difficulty |-> Difficulty,
                                 zeros |-> 0, txs |-> << Text >>, prev |-> ZeroDigest]) }

Init ==
    /\ chain \in { c \in [Nodes -> UNION { Genesis(n, 0) : n \in Nodes }] :
                     \A n \in Nodes : c[n] \in Genesis(n, 0) }
    /\ known = [n \in Nodes |-> 0]
    /\ restarts = [n \in Nodes |-> 0]
    /\ pc = [n \in Nodes |-> "idle"]
    /\ asked = [n \in Nodes |-> 0]
    /\ best = [n \in Nodes |-> NoPeer]
    /\ fetched = [n \in Nodes |-> << >>]
    /\ heard = [n \in Nodes |-> NoAnswer]

Goto(n, from, to) == pc[n] = from /\ pc' = [pc EXCEPT ![n] = to]

------------------------------------------------------------------------------
\* `set-peer`, or `join-net` when its queryHeight was answered.
AddPeer(n) ==
    /\ pc[n] = "idle" /\ known[n] < Len(PeersOf[n])
    /\ known' = [known EXCEPT ![n] = @ + 1]
    /\ UNCHANGED << chain, restarts, syncVars >>

\* A block mined here enters the chain, in the middle of a doInitNode too.
Mine(n) ==
    /\ Height(n) < MaxHeight
    /\ \E b \in MineBlock([height |-> Height(n) + 1, stamp |-> << n, restarts[n] >>,
                           difficulty |-> Difficulty, zeros |-> 0, txs |-> << Text >>,
                           prev |-> ComputeHash(Local(n)!Tip)]) :
         chain' = [chain EXCEPT ![n] = Append(@, b)]
    /\ UNCHANGED << known, restarts, syncVars >>

\* The process ends and is started again.  Neither the chain nor the known
\* peers are stored anywhere.
Restart(n) ==
    /\ n \in Restarting /\ restarts[n] < MaxRestarts
    /\ restarts' = [restarts EXCEPT ![n] = @ + 1]
    /\ \E g \in Genesis(n, restarts[n] + 1) : chain' = [chain EXCEPT ![n] = g]
    /\ known' = [known EXCEPT ![n] = 0]
    /\ pc' = [pc EXCEPT ![n] = "idle"]
    /\ asked' = [asked EXCEPT ![n] = 0]
    /\ best' = [best EXCEPT ![n] = NoPeer]
    /\ fetched' = [fetched EXCEPT ![n] = << >>]
    /\ heard' = [heard EXCEPT ![n] = NoAnswer]

------------------------------------------------------------------------------
\* doInitNode

StartSync(n) ==
    /\ known[n] > 0
    /\ Goto(n, "idle", "asking")
    /\ UNCHANGED << chain, known, restarts, asked, best, fetched, heard >>

\* Mutated form: bestHeight is not kept, so the last peer that answers wins.
TallerOfLast(old, p, h) == IF h > NoAnswer THEN [node |-> p, height |-> h] ELSE old

\* The first of the tallest answers is kept.
TallerOf(old, p, h) == IF h > old.height THEN [node |-> p, height |-> h] ELSE old

\* queryHeight's answer, or its -1, and the loop's use of it.
Hear(n, h) ==
    /\ pc[n] = "asking" /\ asked[n] < known[n]
    /\ asked' = [asked EXCEPT ![n] = @ + 1]
    /\ best' = [best EXCEPT ![n] = TallerOf(@, PeersOf[n][asked[n] + 1], h)]
    /\ heard' = [heard EXCEPT ![n] = IF h > @ THEN h ELSE @]
    /\ UNCHANGED << chain, known, restarts, pc, fetched >>

Ask(n) == Hear(n, Height(PeersOf[n][asked[n] + 1]))
Unreachable(n) == Hear(n, NoAnswer)

\* Mutated form: a peer one block ahead is not worth a fetch.
WorthFetchingByTwo(n) == best[n].height > Height(n) + 1

\* static_cast<size_t>(bestHeight) <= chain.height() is not the case.
WorthFetching(n) == best[n].height > Height(n)

Finish(n) ==
    /\ asked' = [asked EXCEPT ![n] = 0]
    /\ best' = [best EXCEPT ![n] = NoPeer]
    /\ fetched' = [fetched EXCEPT ![n] = << >>]
    /\ heard' = [heard EXCEPT ![n] = NoAnswer]

\* No reachable peer, or none taller.
NothingToDo(n) ==
    /\ asked[n] = known[n] /\ ~ WorthFetching(n)
    /\ Goto(n, "asking", "idle")
    /\ Finish(n)
    /\ UNCHANGED << chain, known, restarts >>

GetChain(n, blocks) ==
    /\ asked[n] = known[n] /\ WorthFetching(n)
    /\ Goto(n, "asking", "replacing")
    /\ fetched' = [fetched EXCEPT ![n] = blocks]
    /\ UNCHANGED << chain, known, restarts, asked, best, heard >>

\* The peer's chain as it is by now.
FetchWhole(n) == GetChain(n, chain[best[n].node])

\* The connection is lost: some blocks are missing, the last one here may have
\* been cut, and then counts its zeros anew.  Fetch has the details.
FetchCut(n) ==
    LET bs == chain[best[n].node]
    IN  \E k \in 0 .. Len(bs) - 1 :
          \/ GetChain(n, SubSeq(bs, 1, k))
          \/ \E z \in Zeros :
               GetChain(n, Append(SubSeq(bs, 1, k),
                                  [bs[k + 1] EXCEPT !.txs = << >>, !.zeros = z]))

\* Mutated form: the list is taken unseen.
AfterReplaceUnseen(n) == fetched[n]

\* replaceIfLongerAndValid
AfterReplace(n) == IF Local(n)!CanReplace(fetched[n]) THEN fetched[n] ELSE chain[n]

Replace(n) ==
    /\ Goto(n, "replacing", "idle")
    /\ chain' = [chain EXCEPT ![n] = AfterReplace(n)]
    /\ Finish(n)
    /\ UNCHANGED << known, restarts >>

------------------------------------------------------------------------------

Fail(n) == Unreachable(n) \/ (pc[n] = "asking" /\ best[n].node # NoNode /\ FetchCut(n))

Proceed(n) ==
    \/ Ask(n) \/ NothingToDo(n) \/ Replace(n)
    \/ pc[n] = "asking" /\ best[n].node # NoNode /\ FetchWhole(n)

Next ==
    \/ \E n \in Nodes : Mine(n) \/ Restart(n)
    \/ \E n \in Syncing : AddPeer(n) \/ StartSync(n) \/ Fail(n) \/ Proceed(n)

Spec == Init /\ [][Next]_vars

\* A doInitNode under way goes on; users, miners and failures owe us nothing.
FairSpec == Spec /\ \A n \in Syncing : WF_vars(Proceed(n) \/ Fail(n))

------------------------------------------------------------------------------

\* Type invariant.
NetworkTypeOK ==
    /\ \A n \in Nodes : chain[n] \in Seq(BlockSet) /\ chain[n] # << >>
    /\ \A n \in Nodes : known[n] \in 0 .. Len(PeersOf[n]) /\ asked[n] \in 0 .. known[n]
    /\ pc \in [Nodes -> {"idle", "asking", "replacing"}]
    /\ best \in [Nodes -> [node : Nodes \cup {NoNode}, height : Nat \cup {NoAnswer}]]

\* A doInitNode whose list links leaves the node at least as tall as every answer
\* it heard, whatever was mined, cut or restarted meanwhile (main.cpp:128-146); if
\* the list is shorter than the answer promised, because the peer was started
\* again or the connection was lost, at least as tall as the list.
SyncReachesTallest ==
    [][\A n \in Syncing :
         pc[n] = "replacing" /\ pc'[n] = "idle" /\ restarts'[n] = restarts[n]
            /\ Local(n)!ValidLinks(fetched[n])
         => Height(n)' >= IF Len(fetched[n]) > best[n].height THEN heard[n]
                          ELSE Len(fetched[n]) - 1]_vars

\* If users keep synchronising and from some time on every call is answered
\* whole, then, once mining and restarts are over, nobody stays behind a peer
\* they know.  (Nodes of one height may keep different chains for ever,
\* chain.hpp:122.)
Converges ==
    (\A n \in Syncing : []<><< StartSync(n) >>_vars) /\ <>[][\A n \in Syncing : ~ Fail(n)]_vars
    => <>[](\A n \in Syncing : \A i \in 1 .. known[n] : Height(PeersOf[n][i]) <= Height(n))
==============================================================================
