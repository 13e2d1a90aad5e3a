---------------------------- MODULE NetworkProofs ----------------------------
(***************************************************************************)
(* Safety of synchronising for any number of nodes, any peers each of them *)
(* knows, any heights and any number of restarts.                          *)
(***************************************************************************)
EXTENDS Network, SetInduction, TLAPS

------------------------------------------------------------------------------
\* Chains as lists

LinkedAt(s, i) ==
    /\ s[i].height = s[i - 1].height + 1
    /\ s[i].prev = ComputeHash(s[i - 1])
    /\ MeetsDifficulty(ComputeHash(s[i]), s[i].difficulty)

\* What a node's chain is at all times.
IsChain(s) ==
    /\ s \in Seq(BlockSet) /\ s # << >>
    /\ s[1].height = 0
    /\ \A i \in 2 .. Len(s) : LinkedAt(s, i)

\* Each node's operators of Chain, in terms of its list.
LEMMA LocalChain ==
    \A n :
      /\ Local(n)!Tip = chain[n][Len(chain[n])]
      /\ Height(n) = chain[n][Len(chain[n])].height
      /\ \A s : Local(n)!ValidLinks(s) <=> \A i \in 2 .. Len(s) : LinkedAt(s, i)
  BY DEF Height, LinkedAt, ComputeHash, HeaderOf, MeetsDifficulty, LeadingZeroHexDigits, AsInt,
         Local!Tip, Local!ValidLinks, Local!ComputeHash, Local!HeaderOf, Local!MeetsDifficulty,
         Local!LeadingZeroHexDigits, Local!AsInt

LEMMA LocalReplace ==
    \A n, s :
      Local(n)!CanReplace(s) <=>
        /\ s # << >> /\ Len(s) > Len(chain[n]) /\ s[1].height = 0
        /\ \A i \in 2 .. Len(s) : LinkedAt(s, i)
  BY LocalChain DEF Local!CanReplace

\* Heights count up from the first block's, so the last one's is the length's.
LEMMA HeightsCountUp ==
    ASSUME NEW s, IsChain(s)
    PROVE  /\ \A i \in 1 .. Len(s) : s[i].height = i - 1
           /\ Len(s) \in Nat \ {0}
           /\ s[Len(s)].height = Len(s) - 1
  <1> DEFINE Good == { n \in Nat : n \in 1 .. Len(s) => s[n].height = n - 1 }
  <1>0. Len(s) \in Nat \ {0}
    BY DEF IsChain
  <1>1. 0 \in Good
    OBVIOUS
  <1>2. ASSUME NEW n \in Nat, n \in Good, n + 1 \in 1 .. Len(s)
        PROVE  s[n + 1].height = n
    <2>1. CASE n = 0
      BY <2>1 DEF IsChain
    <2>2. CASE n # 0
      <3>1. n \in 1 .. Len(s) /\ n + 1 \in 2 .. Len(s) /\ (n + 1) - 1 = n
        BY <1>0, <1>2, <2>2
      <3>2. s[n + 1].height = s[n].height + 1
        BY <3>1 DEF IsChain, LinkedAt
      <3> QED
        BY <1>2, <3>1, <3>2
    <2> QED
      BY <2>1, <2>2
  <1>3. \A n \in Nat : n \in Good => n + 1 \in Good
    BY <1>2
  <1>4. Nat \subseteq Good
    <2> HIDE DEF Good
    <2> QED
      BY <1>1, <1>3, NaturalsInSet
  <1>5. \A i \in 1 .. Len(s) : s[i].height = i - 1
    BY <1>0, <1>4
  <1>6. Len(s) \in 1 .. Len(s)
    BY <1>0
  <1> QED
    BY <1>0, <1>5, <1>6

\* What mineBlock returns is the template with a hash that passes.
LEMMA MineBlockType ==
    ASSUME NEW b \in BlockSet, NEW m \in MineBlock(b)
    PROVE  /\ m \in BlockSet
           /\ m.height = b.height
           /\ m.prev = b.prev
           /\ MeetsDifficulty(ComputeHash(m), m.difficulty)
  <1>1. PICK z \in Zeros : m = [b EXCEPT !.zeros = z]
    BY DEF MineBlock
  <1> QED
    BY <1>1 DEF MineBlock, BlockSet

LEMMA GenesisIsChain ==
    ASSUME NEW n \in Nodes, NEW r \in 0 .. MaxRestarts, NEW g \in Genesis(n, r)
    PROVE  IsChain(g)
  <1> DEFINE template == [height |-> 0, stamp |-> << n, r >>, difficulty |-> Difficulty,
                          zeros |-> 0, txs |-> << Text >>, prev |-> ZeroDigest]
  <1>1. template \in BlockSet
    BY BlockAssumption, NetworkAssumption DEF BlockSet, Zeros, ZeroDigest, Digest
  <1>2. PICK b \in MineBlock(template) : g = << b >>
    BY DEF Genesis
  <1>3. b \in BlockSet /\ b.height = 0
    <2>1. template.height = 0
      OBVIOUS
    <2> HIDE DEF template
    <2> QED
      BY <1>1, <1>2, <2>1, MineBlockType
  <1> QED
    BY <1>2, <1>3 DEF IsChain

------------------------------------------------------------------------------
\* The inductive invariant

SyncTyped ==
    /\ known \in [Nodes -> Nat] /\ asked \in [Nodes -> Nat]
    /\ restarts \in [Nodes -> 0 .. MaxRestarts]
    /\ pc \in [Nodes -> {"idle", "asking", "replacing"}]
    /\ best \in [Nodes -> [node : Nodes \cup {NoNode}, height : Nat \cup {NoAnswer}]]
    /\ fetched \in [Nodes -> Seq(BlockSet)]
    /\ heard \in [Nodes -> Nat \cup {NoAnswer}]
    /\ \A n \in Nodes : known[n] <= Len(PeersOf[n]) /\ asked[n] <= known[n]

ChainsValid == DOMAIN chain = Nodes /\ \A n \in Nodes : IsChain(chain[n])

\* bestHeight is the tallest answer; a fetch was worth it; and whatever a break
\* left of the list, a block keeps its height.
BestIsHeard ==
    \A n \in Nodes :
      /\ best[n].height = heard[n]
      /\ pc[n] = "replacing" => heard[n] > 0
      /\ fetched[n] # << >> => fetched[n][1].height = 0

NetworkInv == SyncTyped /\ ChainsValid /\ BestIsHeard

LEMMA InitEstablishes == Init => NetworkInv
  <1> SUFFICES ASSUME Init PROVE NetworkInv
    OBVIOUS
  <1>1. 0 \in 0 .. MaxRestarts
    BY NetworkAssumption
  <1>2. ASSUME NEW n \in Nodes PROVE IsChain(chain[n])
    BY <1>1, GenesisIsChain DEF Init
  <1>3. PeersOf \in [Nodes -> Seq(Nodes)]
    BY NetworkAssumption
  <1>4. SyncTyped
    BY <1>1, <1>3 DEF Init, SyncTyped, NoPeer, NoAnswer
  <1>5. BestIsHeard
    BY DEF Init, BestIsHeard, NoPeer
  <1>6. DOMAIN chain = Nodes
    BY DEF Init
  <1> QED
    BY <1>2, <1>4, <1>5, <1>6 DEF NetworkInv, ChainsValid

LEMMA NodeHeight ==
    ASSUME ChainsValid, NEW n \in Nodes
    PROVE  /\ Height(n) = Len(chain[n]) - 1
           /\ Height(n) \in Nat
           /\ chain[n] \in Seq(BlockSet)
           /\ Len(chain[n]) \in Nat \ {0}
  <1>1. IsChain(chain[n])
    BY DEF ChainsValid
  <1>2. Len(chain[n]) \in Nat \ {0} /\ chain[n][Len(chain[n])].height = Len(chain[n]) - 1
    BY <1>1, HeightsCountUp
  <1> QED
    BY <1>1, <1>2, LocalChain DEF IsChain

\* A block mined on the tip makes a chain of a chain.
LEMMA MineKeepsChains ==
    ASSUME NetworkInv, NEW n \in Nodes, Mine(n)
    PROVE  ChainsValid'
  <1> DEFINE tip == chain[n][Len(chain[n])]
             template == [height |-> Height(n) + 1, stamp |-> << n, restarts[n] >>,
                          difficulty |-> Difficulty, zeros |-> 0, txs |-> << Text >>,
                          prev |-> ComputeHash(tip)]
  <1>1. /\ chain[n] \in Seq(BlockSet) /\ Len(chain[n]) \in Nat \ {0}
        /\ Height(n) \in Nat /\ Height(n) = tip.height
    BY NodeHeight, LocalChain DEF NetworkInv
  <1>2. tip \in BlockSet
    BY <1>1
  <1>3. ComputeHash(tip) \in Digest
    <2> HIDE DEF tip
    <2> QED
      BY <1>2 DEF BlockSet, Digest, Header, ComputeHash, HeaderOf
  <1>4. template \in BlockSet
    <2> HIDE DEF tip
    <2>1. /\ Height(n) + 1 \in Nat /\ << n, restarts[n] >> \in Stamp /\ Difficulty \in UInt32
          /\ 0 \in Zeros /\ << Text >> \in Seq(Line)
      BY <1>1, BlockAssumption, NetworkAssumption DEF Zeros, NetworkInv, SyncTyped
    <2> QED
      BY <1>3, <2>1 DEF BlockSet
  <1>5. PICK b \in MineBlock(template) : chain' = [chain EXCEPT ![n] = Append(chain[n], b)]
    BY LocalChain DEF Mine
  <1>6. /\ b \in BlockSet
        /\ b.height = tip.height + 1
        /\ b.prev = ComputeHash(tip)
        /\ MeetsDifficulty(ComputeHash(b), b.difficulty)
    <2>1. template.height = tip.height + 1 /\ template.prev = ComputeHash(tip)
      BY <1>1
    <2> HIDE DEF template, tip
    <2> QED
      BY <1>4, <1>5, <2>1, MineBlockType
  <1> DEFINE s == Append(chain[n], b)
  <1>7. IsChain(s)
    <2>1. /\ s \in Seq(BlockSet) /\ s # << >> /\ Len(s) = Len(chain[n]) + 1
          /\ \A i \in 1 .. Len(chain[n]) : s[i] = chain[n][i]
          /\ s[Len(s)] = b
      BY <1>1, <1>6
    <2>2. IsChain(chain[n])
      BY DEF NetworkInv, ChainsValid
    <2>3. s[1].height = 0
      BY <1>1, <2>1, <2>2 DEF IsChain
    <2>4. ASSUME NEW i \in 2 .. Len(s) PROVE LinkedAt(s, i)
      <3> HIDE DEF s
      <3>1. i - 1 \in 1 .. Len(chain[n])
        BY <1>1, <2>1
      <3>2. CASE i = Len(s)
        <4>1. i - 1 = Len(chain[n])
          BY <1>1, <2>1, <3>2
        <4>2. s[i - 1] = tip /\ s[i] = b
          BY <2>1, <3>1, <3>2, <4>1
        <4> HIDE DEF tip
        <4> QED
          BY <1>6, <4>2 DEF LinkedAt
      <3>3. CASE i # Len(s)
        <4>1. i \in 2 .. Len(chain[n])
          BY <1>1, <2>1, <3>3
        <4>2. s[i] = chain[n][i] /\ s[i - 1] = chain[n][i - 1]
          BY <2>1, <3>1, <4>1
        <4>3. LinkedAt(chain[n], i)
          BY <2>2, <4>1 DEF IsChain
        <4> QED
          BY <4>2, <4>3 DEF LinkedAt
      <3> QED
        BY <3>2, <3>3
    <2> HIDE DEF s
    <2> QED
      BY <2>1, <2>3, <2>4 DEF IsChain
  <1>8. chain' = [chain EXCEPT ![n] = s]
    BY <1>5
  <1> HIDE DEF s
  <1> QED
    BY <1>7, <1>8 DEF NetworkInv, ChainsValid

\* What doInitNode fetched replaces the chain only when it is one.
LEMMA ReplaceKeepsChains ==
    ASSUME NetworkInv, NEW n \in Nodes
    PROVE  IsChain(AfterReplace(n))
  <1>1. IsChain(chain[n]) /\ fetched[n] \in Seq(BlockSet)
    BY DEF NetworkInv, ChainsValid, SyncTyped
  <1> QED
    BY <1>1, LocalReplace DEF AfterReplace, IsChain

\* A list whole or broken off, with its last block cut: what is left of it starts
\* at height 0.
LEMMA CutKeepsFirst ==
    ASSUME NEW bs, IsChain(bs), NEW k \in 0 .. Len(bs) - 1, NEW z \in Zeros
    PROVE  LET cut == Append(SubSeq(bs, 1, k), [bs[k + 1] EXCEPT !.txs = << >>, !.zeros = z])
           IN  /\ SubSeq(bs, 1, k) \in Seq(BlockSet)
               /\ SubSeq(bs, 1, k) # << >> => SubSeq(bs, 1, k)[1].height = 0
               /\ cut \in Seq(BlockSet) /\ cut[1].height = 0
  <1>1. bs \in Seq(BlockSet) /\ Len(bs) \in Nat /\ k + 1 \in 1 .. Len(bs) /\ bs[1].height = 0
    BY DEF IsChain
  <1> DEFINE front == SubSeq(bs, 1, k)
             last == [bs[k + 1] EXCEPT !.txs = << >>, !.zeros = z]
  <1>2. front \in Seq(BlockSet) /\ Len(front) = k
        /\ \A i \in 1 .. k : front[i] = bs[i]
    BY <1>1
  <1>3. last \in BlockSet /\ last.height = bs[k + 1].height
    <2>1. bs[k + 1] \in BlockSet /\ << >> \in Seq(Line)
      BY <1>1
    <2> QED
      BY <2>1 DEF BlockSet
  <1> HIDE DEF front, last
  <1>4. front # << >> => front[1].height = 0
    BY <1>1, <1>2
  <1>5. Append(front, last) \in Seq(BlockSet)
    BY <1>2, <1>3
  <1>6. Append(front, last)[1].height = 0
    <2>1. CASE k = 0
      BY <1>1, <1>2, <1>3, <2>1
    <2>2. CASE k # 0
      <3>1. k \in Nat /\ 1 \in 1 .. k
        BY <1>1, <2>2
      <3>2. Append(front, last)[1] = front[1]
        BY <1>2, <3>1
      <3> QED
        BY <1>1, <1>2, <3>1, <3>2
    <2> QED
      BY <2>1, <2>2
  <1> QED
    BY <1>2, <1>4, <1>5, <1>6 DEF front, last

\* The chains stay chains.
LEMMA StepKeepsChains ==
    ASSUME NetworkInv, [Next]_vars
    PROVE  ChainsValid'
  <1>1. ASSUME NEW n \in Nodes, Restart(n) PROVE ChainsValid'
    <2>1. restarts[n] + 1 \in 0 .. MaxRestarts
      BY <1>1, NetworkAssumption DEF Restart, NetworkInv, SyncTyped
    <2>2. PICK g \in Genesis(n, restarts[n] + 1) : chain' = [chain EXCEPT ![n] = g]
      BY <1>1 DEF Restart
    <2>3. IsChain(g)
      BY <2>1, <2>2, GenesisIsChain
    <2> QED
      BY <2>2, <2>3 DEF NetworkInv, ChainsValid
  <1>2. ASSUME NEW n \in Nodes, Replace(n) PROVE ChainsValid'
    BY <1>2, ReplaceKeepsChains DEF Replace, NetworkInv, ChainsValid
  <1>3. ASSUME \/ UNCHANGED vars
               \/ \E n \in Syncing : \/ AddPeer(n) \/ StartSync(n) \/ Unreachable(n) \/ Ask(n)
                                     \/ NothingToDo(n) \/ FetchWhole(n) \/ FetchCut(n)
        PROVE ChainsValid'
    <2>1. chain' = chain
      BY <1>3 DEF vars, AddPeer, StartSync, Unreachable, Ask, Hear, NothingToDo, FetchWhole,
         FetchCut, GetChain
    <2> QED
      BY <2>1 DEF NetworkInv, ChainsValid
  <1> QED
    BY <1>1, <1>2, <1>3, MineKeepsChains, NetworkAssumption DEF Next, Fail, Proceed


\* An answer counts as heard exactly when it becomes the best.
LEMMA HearKeepsSync ==
    ASSUME NetworkInv, NEW n \in Nodes, NEW h \in Nat \cup {NoAnswer}, Hear(n, h)
    PROVE  SyncTyped' /\ BestIsHeard'
  <1>1. /\ SyncTyped /\ BestIsHeard
        /\ asked[n] \in Nat /\ known[n] \in Nat /\ asked[n] + 1 <= known[n]
    BY DEF NetworkInv, Hear, SyncTyped
  <1>2. PeersOf[n][asked[n] + 1] \in Nodes
    <2>1. PeersOf[n] \in Seq(Nodes) /\ Len(PeersOf[n]) \in Nat
      BY NetworkAssumption
    <2>2. known[n] <= Len(PeersOf[n])
      BY <1>1 DEF SyncTyped
    <2>3. asked[n] + 1 \in 1 .. Len(PeersOf[n])
      BY <1>1, <2>1, <2>2
    <2> QED
      BY <2>1, <2>3
  <1> DEFINE b == TallerOf(best[n], PeersOf[n][asked[n] + 1], h)
             t == IF h > heard[n] THEN h ELSE heard[n]
  <1>3. b \in [node : Nodes \cup {NoNode}, height : Nat \cup {NoAnswer}] /\ b.height = t
    BY <1>1, <1>2 DEF TallerOf, SyncTyped, BestIsHeard
  <1>4. t \in Nat \cup {NoAnswer}
    BY <1>1 DEF SyncTyped
  <1>5. /\ best' = [best EXCEPT ![n] = b]
        /\ heard' = [heard EXCEPT ![n] = t]
        /\ asked' = [asked EXCEPT ![n] = asked[n] + 1]
        /\ UNCHANGED << chain, known, restarts, pc, fetched >>
        /\ pc[n] = "asking"
    BY DEF Hear
  <1> HIDE DEF b, t
  <1>6. SyncTyped'
    BY <1>1, <1>3, <1>4, <1>5 DEF SyncTyped
  <1>7. BestIsHeard'
    BY <1>1, <1>3, <1>5 DEF SyncTyped, BestIsHeard
  <1> QED
    BY <1>6, <1>7

\* GET_CHAIN is asked only of a taller peer, and its answer starts at height 0.
LEMMA GetChainKeepsSync ==
    ASSUME NetworkInv, NEW n \in Nodes, NEW bs \in Seq(BlockSet), GetChain(n, bs),
           bs # << >> => bs[1].height = 0
    PROVE  SyncTyped' /\ BestIsHeard'
  <1>1. heard[n] > 0
    <2>1. Height(n) \in Nat /\ best[n].height = heard[n] /\ heard[n] \in Nat \cup {NoAnswer}
      BY NodeHeight DEF NetworkInv, BestIsHeard, SyncTyped
    <2> QED
      BY <2>1 DEF GetChain, WorthFetching, NoAnswer
  <1> QED
    BY <1>1 DEF GetChain, Goto, NetworkInv, SyncTyped, BestIsHeard

LEMMA StepKeepsSync ==
    ASSUME NetworkInv, [Next]_vars
    PROVE  SyncTyped' /\ BestIsHeard'
  <1>1. /\ SyncTyped /\ BestIsHeard /\ 0 \in Nat
        /\ NoPeer \in [node : Nodes \cup {NoNode}, height : Nat \cup {NoAnswer}]
        /\ NoPeer.height = NoAnswer /\ << >> \in Seq(BlockSet)
    BY DEF NetworkInv, NoPeer
  <1>2. ASSUME NEW n \in Nodes, Restart(n) PROVE SyncTyped' /\ BestIsHeard'
    <2>1. restarts[n] + 1 \in 0 .. MaxRestarts /\ Len(PeersOf[n]) \in Nat
      BY <1>2, NetworkAssumption DEF Restart, NetworkInv, SyncTyped
    <2>2. SyncTyped'
      BY <1>1, <1>2, <2>1 DEF Restart, SyncTyped
    <2>3. BestIsHeard'
      BY <1>1, <1>2 DEF Restart, SyncTyped, BestIsHeard
    <2> QED
      BY <2>2, <2>3
  <1>3. ASSUME NEW n \in Nodes, Mine(n) PROVE SyncTyped' /\ BestIsHeard'
    BY <1>1, <1>3 DEF Mine, syncVars, SyncTyped, BestIsHeard
  <1>4. ASSUME NEW n \in Nodes, AddPeer(n) PROVE SyncTyped' /\ BestIsHeard'
    <2>1. Len(PeersOf[n]) \in Nat /\ known[n] \in Nat /\ asked[n] \in Nat /\ asked[n] <= known[n]
      BY <1>1, NetworkAssumption DEF SyncTyped
    <2>2. known[n] + 1 \in Nat /\ known[n] + 1 <= Len(PeersOf[n]) /\ asked[n] <= known[n] + 1
      BY <1>4, <2>1 DEF AddPeer
    <2>3. known' = [known EXCEPT ![n] = known[n] + 1] /\ UNCHANGED << chain, restarts, syncVars >>
      BY <1>4 DEF AddPeer
    <2> QED
      BY <1>1, <2>2, <2>3 DEF syncVars, SyncTyped, BestIsHeard
  <1>5. ASSUME NEW n \in Nodes, StartSync(n) PROVE SyncTyped' /\ BestIsHeard'
    BY <1>1, <1>5 DEF StartSync, Goto, SyncTyped, BestIsHeard
  <1>6. ASSUME NEW n \in Nodes, NothingToDo(n) \/ Replace(n) PROVE SyncTyped' /\ BestIsHeard'
    <2>1. known[n] \in Nat /\ 0 <= known[n]
      BY <1>1 DEF SyncTyped
    <2>2. Finish(n) /\ UNCHANGED << known, restarts >> /\ pc' = [pc EXCEPT ![n] = "idle"]
      BY <1>6 DEF NothingToDo, Replace, Goto
    <2>3. SyncTyped'
      BY <1>1, <2>1, <2>2 DEF Finish, SyncTyped
    <2>4. BestIsHeard'
      BY <1>1, <2>2 DEF Finish, SyncTyped, BestIsHeard
    <2> QED
      BY <2>3, <2>4
  <1>7. ASSUME NEW n \in Nodes, Unreachable(n) PROVE SyncTyped' /\ BestIsHeard'
    BY <1>7, HearKeepsSync DEF Unreachable
  <1>8. ASSUME NEW n \in Nodes, Ask(n) PROVE SyncTyped' /\ BestIsHeard'
    <2>1. PeersOf[n] \in Seq(Nodes) /\ Len(PeersOf[n]) \in Nat
      BY NetworkAssumption
    <2>2. PeersOf[n][asked[n] + 1] \in Nodes
      <3>1. asked[n] < known[n] /\ known[n] <= Len(PeersOf[n]) /\ asked[n] \in Nat
            /\ known[n] \in Nat
        BY <1>1, <1>8 DEF Ask, Hear, SyncTyped
      <3>2. asked[n] + 1 \in 1 .. Len(PeersOf[n])
        BY <2>1, <3>1
      <3> QED
        BY <2>1, <3>2
    <2>3. Height(PeersOf[n][asked[n] + 1]) \in Nat
      BY <2>2, NodeHeight DEF NetworkInv
    <2> QED
      BY <1>8, <2>3, HearKeepsSync DEF Ask
  <1>9. ASSUME NEW n \in Nodes, best[n].node # NoNode, FetchWhole(n) \/ FetchCut(n)
        PROVE  SyncTyped' /\ BestIsHeard'
    <2> DEFINE bs == chain[best[n].node]
    <2>1. IsChain(bs)
      BY <1>1, <1>9 DEF SyncTyped, NetworkInv, ChainsValid
    <2>2. CASE FetchWhole(n)
      BY <2>1, <2>2, GetChainKeepsSync DEF FetchWhole, IsChain
    <2>3. CASE FetchCut(n)
      <3> HIDE DEF bs
      <3>1. PICK k \in 0 .. Len(bs) - 1 :
               \/ GetChain(n, SubSeq(bs, 1, k))
               \/ \E z \in Zeros :
                    GetChain(n, Append(SubSeq(bs, 1, k),
                                       [bs[k + 1] EXCEPT !.txs = << >>, !.zeros = z]))
        BY <2>3 DEF FetchCut, bs
      <3>2. CASE GetChain(n, SubSeq(bs, 1, k))
        <4>1. 0 \in Zeros
          BY BlockAssumption DEF Zeros
        <4>2. /\ SubSeq(bs, 1, k) \in Seq(BlockSet)
              /\ SubSeq(bs, 1, k) # << >> => SubSeq(bs, 1, k)[1].height = 0
          BY <2>1, <4>1, CutKeepsFirst
        <4> QED
          BY <3>2, <4>2, GetChainKeepsSync
      <3>3. ASSUME NEW z \in Zeros,
                   GetChain(n, Append(SubSeq(bs, 1, k),
                                      [bs[k + 1] EXCEPT !.txs = << >>, !.zeros = z]))
            PROVE  SyncTyped' /\ BestIsHeard'
        <4> DEFINE cut == Append(SubSeq(bs, 1, k),
                                 [bs[k + 1] EXCEPT !.txs = << >>, !.zeros = z])
        <4>1. cut \in Seq(BlockSet) /\ cut[1].height = 0
          BY <2>1, CutKeepsFirst
        <4>2. GetChain(n, cut)
          BY <3>3
        <4> HIDE DEF cut
        <4> QED
          BY <4>1, <4>2, GetChainKeepsSync
      <3> QED
        BY <3>1, <3>2, <3>3
    <2> QED
      BY <1>9, <2>2, <2>3
  <1>10. CASE UNCHANGED vars
    BY <1>1, <1>10 DEF vars, syncVars, SyncTyped, BestIsHeard
  <1> QED
    BY <1>2, <1>3, <1>4, <1>5, <1>6, <1>7, <1>8, <1>9, <1>10, NetworkAssumption
    DEF Next, Fail, Proceed

------------------------------------------------------------------------------
\* What holds in every reachable state, and of every step

\* Everything above at once: nodes that mine, ask, fetch whole or broken lists,
\* replace their chains and are started again (doInitNode, main.cpp) keep it.
\* In particular every node's chain counts up from height 0, linked and mined.
THEOREM NetworkInvariant == Spec => []NetworkInv
  <1>1. NetworkInv /\ [Next]_vars => NetworkInv'
    BY StepKeepsChains, StepKeepsSync DEF NetworkInv
  <1> QED
    BY <1>1, InitEstablishes, PTL DEF Spec

\* Chains, peers and the locals of doInitNode stay well typed; no more peers are
\* asked than are known, no more known than were given (main.cpp:122-153).
THEOREM TypeCorrect == Spec => []NetworkTypeOK
  <1>1. NetworkInv => NetworkTypeOK
    <2> SUFFICES ASSUME NetworkInv PROVE NetworkTypeOK
      OBVIOUS
    <2>1. SyncTyped /\ \A n \in Nodes : IsChain(chain[n])
      BY DEF NetworkInv, ChainsValid
    <2>2. \A n \in Nodes : Len(PeersOf[n]) \in Nat
      BY NetworkAssumption
    <2> QED
      BY <2>1, <2>2 DEF SyncTyped, IsChain, NetworkTypeOK
  <1> QED
    BY <1>1, NetworkInvariant, PTL

\* doInitNode's replacement (main.cpp:144-146): if what was fetched is linked, the
\* node ends at least as tall as the list, because a list it refuses is no longer
\* than its own; and a list as long as promised is as tall as every answer heard.
THEOREM TallestReached == Spec => SyncReachesTallest
  <1> DEFINE Reaches(n) ==
        pc[n] = "replacing" /\ pc'[n] = "idle" /\ restarts'[n] = restarts[n]
           /\ Local(n)!ValidLinks(fetched[n])
        => Height(n)' >= IF Len(fetched[n]) > best[n].height THEN heard[n]
                         ELSE Len(fetched[n]) - 1
  <1>1. ASSUME NetworkInv, [Next]_vars, NEW n \in Syncing PROVE Reaches(n)
    <2> SUFFICES ASSUME pc[n] = "replacing", pc'[n] = "idle", restarts'[n] = restarts[n],
                        Local(n)!ValidLinks(fetched[n])
                 PROVE  Height(n)' >= IF Len(fetched[n]) > best[n].height THEN heard[n]
                                      ELSE Len(fetched[n]) - 1
      OBVIOUS
    <2>0. n \in Nodes /\ SyncTyped /\ ChainsValid /\ BestIsHeard
      BY <1>1, NetworkAssumption DEF NetworkInv
    <2>1. Replace(n)
      <3>0. pc'[n] # pc[n] /\ pc \in [Nodes -> {"idle", "asking", "replacing"}]
            /\ restarts \in [Nodes -> 0 .. MaxRestarts] /\ 0 .. MaxRestarts \subseteq Int
        BY <2>0 DEF SyncTyped
      <3>1. ASSUME NEW m \in Nodes, Restart(m) PROVE FALSE
        <4>1. CASE m = n
          <5>1. restarts'[n] = restarts[n] + 1
            BY <3>0, <3>1, <4>1 DEF Restart
          <5> QED
            BY <2>0, <3>0, <5>1
        <4>2. CASE m # n
          BY <2>0, <3>0, <3>1, <4>2 DEF Restart
        <4> QED
          BY <4>1, <4>2
      <3>2. ASSUME NEW m \in Nodes,
                   Mine(m) \/ AddPeer(m) \/ Ask(m) \/ Unreachable(m) \/ UNCHANGED vars
            PROVE  FALSE
        BY <3>0, <3>2 DEF Mine, AddPeer, Ask, Unreachable, Hear, vars, syncVars
      <3>3. ASSUME NEW m \in Nodes,
                   StartSync(m) \/ NothingToDo(m) \/ FetchWhole(m) \/ FetchCut(m)
            PROVE  FALSE
        BY <2>0, <3>0, <3>3 DEF StartSync, NothingToDo, FetchWhole, FetchCut, GetChain, Goto
      <3>4. ASSUME NEW m \in Nodes, Replace(m) PROVE m = n
        BY <2>0, <3>0, <3>4 DEF Replace, Goto
      <3> QED
        BY <1>1, <2>0, <3>1, <3>2, <3>3, <3>4, NetworkAssumption DEF Next, Fail, Proceed
    <2>2. chain'[n] = AfterReplace(n)
      BY <2>0, <2>1 DEF Replace, ChainsValid
    <2>3. Height(n)' = chain'[n][Len(chain'[n])].height
      BY DEF Height, Local!Tip
    <2>4. IsChain(AfterReplace(n))
      BY <1>1, <2>0, ReplaceKeepsChains
    <2>5. Height(n)' = Len(AfterReplace(n)) - 1 /\ Len(AfterReplace(n)) \in Nat
      BY <2>2, <2>3, <2>4, HeightsCountUp
    <2>6. /\ fetched[n] \in Seq(BlockSet) /\ Len(fetched[n]) \in Nat
          /\ heard[n] > 0 /\ best[n].height = heard[n]
          /\ heard[n] \in Int
          /\ fetched[n] # << >> => fetched[n][1].height = 0
      <3>1. fetched[n] \in Seq(BlockSet)
        BY <2>0 DEF SyncTyped
      <3>2. Len(fetched[n]) \in Nat
        BY <3>1
      <3> QED
        BY <2>0, <3>1, <3>2 DEF SyncTyped, BestIsHeard, NoAnswer
    <2>7. Len(fetched[n]) \in Nat /\ (Len(fetched[n]) > 0 => fetched[n] # << >>)
      BY <2>6
    <2>8. Len(chain[n]) \in Nat
      BY <2>0, NodeHeight
    <2>9. Len(AfterReplace(n)) >= Len(fetched[n])
      <3>1. CASE Len(fetched[n]) > Len(chain[n])
        <4>1. Local(n)!CanReplace(fetched[n])
          <5>1. \A i \in 2 .. Len(fetched[n]) : LinkedAt(fetched[n], i)
            BY LocalChain
          <5> QED
            BY <2>6, <2>7, <3>1, <5>1, LocalReplace
        <4> QED
          BY <2>7, <4>1 DEF AfterReplace
      <3>2. CASE ~ (Len(fetched[n]) > Len(chain[n]))
        <4>1. ~ Local(n)!CanReplace(fetched[n])
          BY <3>2, LocalReplace
        <4> QED
          BY <2>7, <2>8, <3>2, <4>1 DEF AfterReplace
      <3> QED
        BY <3>1, <3>2
    <2> QED
      BY <2>5, <2>6, <2>7, <2>9
  <1>2. NetworkInv /\ [Next]_vars => [\A n \in Syncing : Reaches(n)]_vars
    <2> HIDE DEF Reaches
    <2> QED
      BY <1>1
  <1> QED
    BY <1>2, NetworkInvariant, PTL DEF Spec, SyncReachesTallest

==============================================================================
