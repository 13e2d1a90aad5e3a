---------------------------- MODULE ProcessProofs ----------------------------
(***************************************************************************)
(* Safety of node processes (node/main.cpp, wallet/keystore.hpp,           *)
(* p2p/peer_server.hpp) for any number of processes, any ports, however    *)
(* they overlap, and crashes at any point.                                 *)
(***************************************************************************)
EXTENDS Process, TLAPS

\* The inductive invariant: what main has found out about the wallet file ...
Saved(n) == file[n] # NoFile /\ Loaded(file[n]) = wallet[n]

WalletKnown(n) ==
    /\ pc[n] = "off" => wallet[n] = NoKey
    /\ pc[n] = "check" => Saved(n) \/ (file[n] = NoFile /\ wallet[n] \in Key)
    /\ pc[n] = "save" => file[n] = Empty /\ wallet[n] \in Key
    /\ pc[n] \notin {"off", "start", "check", "save"} /\ ~ unsaved[n] => Saved(n)

WalletFollowsFile == \A n \in Node : WalletKnown(n)

\* ... and what `listening` stands for.
Listening(n) ==
    /\ pc[n] \in {"off", "start", "check", "save", "serve"} => ~ listening[n]
    /\ pc[n] = "closing" => listening[n]
    /\ listening[n] /\ pc[n] \in {"idle", "call", "closing"} =>
          owner[P2PPort[n]] = << "p2p", n >>
    /\ listening[n] /\ pc[n] \in {"idle", "call"} => running[n] /\ looping[n]

ListenerHeld == \A n \in Node : Listening(n)

ProcessInv == ProcessTypeOK /\ WalletFollowsFile /\ ListenerHeld

------------------------------------------------------------------------------
\* Operators

\* Both ports of a process are ports.
LEMMA PortTypes ==
    ASSUME NEW n \in Node
    PROVE  P2PPort[n] \in Port /\ StatusPort[n] \in Port
  BY ProcessAssumption DEF Port, StatusPort, Range

\* Every key the processes of a folder generate is a Key.
LEMMA GeneratedIsKey ==
    ASSUME NEW n \in Node, NEW k \in Nat, k < MaxKeys[n]
    PROVE  << n, k + 1 >> \in Key
  <1>1. k + 1 \in 1 .. MaxKeys[n]
    BY ProcessAssumption
  <1> QED
    BY <1>1 DEF Key

\* What is loaded is a key; a key loads as itself.
LEMMA LoadedType ==
    ASSUME NEW c \in {NoFile, Empty, ZeroKey} \cup Key, c # NoFile
    PROVE  Loaded(c) \in {ZeroKey} \cup Key /\ (c \in Key => Loaded(c) = c)
  BY FileAssumption DEF Loaded

------------------------------------------------------------------------------
\* Types

\* The initial states are well typed.
LEMMA InitType == Init => ProcessTypeOK
  BY ProcessAssumption DEF Init, ProcessTypeOK, Connection

\* Starting up keeps the state well typed.
LEMMA StartupType ==
    ASSUME ProcessInv, NEW n \in Node, Launch(n) \/ Startup(n)
    PROVE  ProcessTypeOK'
  <1> USE DEF ProcessInv, ProcessTypeOK, Goto, walletVars, serverVars
  <1>1. CASE Launch(n)
    BY <1>1 DEF Launch
  <1>2. CASE LoadWallet(n)
    <2>1. Loaded(file[n]) \in {ZeroKey} \cup Key
      BY <1>2, LoadedType DEF LoadWallet
    <2> QED
      BY <1>2, <2>1 DEF LoadWallet
  <1>3. CASE GenerateWallet(n)
    <2>1. generated[n] \in Nat /\ << n, generated[n] + 1 >> \in Key
      BY <1>3, GeneratedIsKey DEF GenerateWallet
    <2>2. generated'[n] = generated[n] + 1 /\ generated' \in [Node -> Nat]
      BY <1>3, <2>1 DEF GenerateWallet
    <2>3. ASSUME NEW m \in Node PROVE generated'[m] <= MaxKeys[m]
      <3>1. CASE m = n
        BY <1>3, <2>2, <3>1, ProcessAssumption DEF GenerateWallet
      <3>2. CASE m # n
        BY <1>3, <3>2 DEF GenerateWallet
      <3> QED
        BY <3>1, <3>2
    <2>4. wallet' \in [Node -> {NoKey, ZeroKey} \cup Key]
      BY <1>3, <2>1, <2>2 DEF GenerateWallet
    <2> QED
      BY <1>3, <2>2, <2>3, <2>4 DEF GenerateWallet
  <1>4. CASE SkipSave(n)
    BY <1>4 DEF SkipSave
  <1>5. CASE OpenForSave(n)
    BY <1>5 DEF OpenForSave
  <1>6. CASE OpenFails(n)
    BY <1>6 DEF OpenFails
  <1>7. CASE StartStatusServer(n)
    <2>1. owner' \in [Port -> {Nobody} \cup ({"status", "p2p"} \X Node)]
      BY <1>7, PortTypes DEF StartStatusServer
    <2> QED
      BY <1>7, <2>1 DEF StartStatusServer
  <1>8. CASE WriteKey(n)
    <2>1. wallet[n] \in Key
      BY <1>8 DEF WriteKey, WalletFollowsFile, WalletKnown
    <2> QED
      BY <1>8, <2>1 DEF WriteKey
  <1> QED
    BY <1>1, <1>2, <1>3, <1>4, <1>5, <1>6, <1>7, <1>8 DEF Startup

\* Servers, calls and clients keep the state well typed.
LEMMA ServingType ==
    ASSUME ProcessInv, NEW n \in Node,
           \/ ListenCommand(n) \/ CallOver(n) \/ MuteConnects(n) \/ LeaveLoop(n)
           \/ \E p \in Port : Call(n, p)
           \/ \E client \in Node \cup {Nobody, Mute} : Accept(n, client) \/ HandleClient(n, client)
    PROVE  ProcessTypeOK'
  <1> USE DEF ProcessInv, ProcessTypeOK, Goto, walletVars, serverVars
  <1>1. CASE ListenCommand(n)
    <2>1. owner' \in [Port -> {Nobody} \cup ({"status", "p2p"} \X Node)]
      <3>1. P2PPort[n] \in Port /\ << "p2p", n >> \in {"status", "p2p"} \X Node
        BY PortTypes
      <3>2. owner' = owner \/ owner' = [owner EXCEPT ![P2PPort[n]] = << "p2p", n >>]
        BY <1>1 DEF ListenCommand
      <3> QED
        BY <3>1, <3>2
    <2> QED
      BY <1>1, <2>1 DEF ListenCommand
  <1>2. CASE CallOver(n)
    BY <1>2 DEF CallOver
  <1>3. CASE MuteConnects(n)
    BY <1>3 DEF MuteConnects, Connection
  <1>4. CASE LeaveLoop(n)
    BY <1>4 DEF LeaveLoop
  <1>5. ASSUME NEW p \in Port, Call(n, p) PROVE ProcessTypeOK'
    <2>1. ServesPeers(p) => owner[p][2] \in Node
      BY DEF ServesPeers
    <2>2. conns' \subseteq Connection
      BY <1>5, <2>1 DEF Call, Connection
    <2> QED
      BY <1>5, <2>2 DEF Call
  <1>6. ASSUME NEW client \in Node \cup {Nobody, Mute}, Accept(n, client) PROVE ProcessTypeOK'
    BY <1>6 DEF Accept, Connection
  <1>7. ASSUME NEW client \in Node \cup {Nobody, Mute}, HandleClient(n, client)
        PROVE  ProcessTypeOK'
    BY <1>7 DEF HandleClient
  <1> QED
    BY <1>1, <1>2, <1>3, <1>4, <1>5, <1>6, <1>7

\* A process that ends leaves the state well typed.
LEMMA GoneType ==
    ASSUME ProcessInv, NEW n \in Node, Gone(n)
    PROVE  ProcessTypeOK'
  <1> USE DEF ProcessInv, ProcessTypeOK
  <1>1. owner' \in [Port -> {Nobody} \cup ({"status", "p2p"} \X Node)]
    BY DEF Gone
  <1>2. conns' \subseteq Connection
    BY DEF Gone, Connection
  <1> QED
    BY <1>1, <1>2 DEF Gone

\* So does one on its way out.
LEMMA ShutdownType ==
    ASSUME ProcessInv, NEW n \in Node, ExitCommand(n) \/ Shutdown(n)
    PROVE  ProcessTypeOK'
  <1> USE DEF ProcessInv, ProcessTypeOK, Goto, walletVars, serverVars
  <1>1. CASE ExitCommand(n)
    BY <1>1 DEF ExitCommand
  <1>2. CASE CloseListener(n)
    BY <1>2 DEF CloseListener
  <1>3. CASE Joined(n)
    BY <1>3 DEF Joined
  <1>4. CASE StopStatusServer(n)
    BY <1>4 DEF StopStatusServer
  <1>5. CASE Return(n)
    BY <1>5, GoneType DEF Return
  <1> QED
    BY <1>1, <1>2, <1>3, <1>4, <1>5 DEF Shutdown

------------------------------------------------------------------------------
\* The wallet file

\* What a process knows of its file stands while neither changes.
LEMMA WalletFrame ==
    ASSUME NEW m \in Node, WalletKnown(m), pc'[m] = pc[m], file'[m] = file[m],
           wallet'[m] = wallet[m], unsaved'[m] = unsaved[m]
    PROVE  WalletKnown(m)'
  BY DEF WalletKnown, Saved

\* Past the wallet, main touches neither the file nor the key.
LEMMA WalletPast ==
    ASSUME NEW m \in Node, WalletKnown(m), UNCHANGED walletVars,
           pc[m] \notin {"off", "start", "check", "save"}
    PROVE  WalletKnown(m)' \/ pc'[m] \in {"off", "check", "save"}
  BY DEF WalletKnown, Saved, walletVars

\* A start-up step keeps what its process knows.
LEMMA StartupWallet ==
    ASSUME ProcessInv, NEW n \in Node, Launch(n) \/ Startup(n)
    PROVE  WalletKnown(n)'
  <1> USE DEF ProcessInv, ProcessTypeOK, WalletFollowsFile, WalletKnown, Saved, Goto,
              walletVars, serverVars
  <1>1. CASE Launch(n)
    BY <1>1 DEF Launch
  <1>2. CASE LoadWallet(n)
    BY <1>2 DEF LoadWallet
  <1>3. CASE GenerateWallet(n)
    <2>1. wallet'[n] = << n, generated[n] + 1 >>
      BY <1>3 DEF GenerateWallet
    <2>2. wallet'[n] \in Key
      BY <1>3, <2>1, GeneratedIsKey DEF GenerateWallet
    <2> QED
      BY <1>3, <2>2 DEF GenerateWallet
  <1>4. CASE SkipSave(n)
    BY <1>4 DEF SkipSave, MustSave
  <1>5. CASE OpenForSave(n)
    BY <1>5, FileAssumption DEF OpenForSave, MustSave
  <1>6. CASE OpenFails(n)
    BY <1>6 DEF OpenFails
  <1>7. CASE WriteKey(n)
    <2>1. wallet[n] \in Key
      BY <1>7 DEF WriteKey
    <2>2. wallet[n] # NoFile /\ Loaded(wallet[n]) = wallet[n]
      BY <2>1, LoadedType, FileAssumption
    <2> QED
      BY <1>7, <2>2 DEF WriteKey
  <1>8. CASE StartStatusServer(n)
    BY <1>8 DEF StartStatusServer
  <1> QED
    BY <1>1, <1>2, <1>3, <1>4, <1>5, <1>6, <1>7, <1>8 DEF Startup

\* No step makes a process wrong about its file.
LEMMA StepWallet ==
    ASSUME ProcessInv, Next
    PROVE  WalletFollowsFile'
  <1> USE DEF ProcessInv, ProcessTypeOK, WalletFollowsFile, Goto, walletVars, serverVars
  <1> SUFFICES ASSUME NEW m \in Node PROVE WalletKnown(m)'
    OBVIOUS
  <1>1. ASSUME NEW n \in Node, Launch(n) \/ Startup(n) PROVE WalletKnown(m)'
    <2>1. CASE m = n
      BY <1>1, <2>1, StartupWallet
    <2>2. CASE m # n
      <3>1. pc'[m] = pc[m] /\ file'[m] = file[m] /\ wallet'[m] = wallet[m]
               /\ unsaved'[m] = unsaved[m]
        BY <1>1, <2>2 DEF Launch, Startup, LoadWallet, GenerateWallet, SkipSave, OpenForSave,
                          OpenFails, WriteKey, StartStatusServer
      <3> QED
        BY <3>1, WalletFrame
    <2> QED
      BY <2>1, <2>2
  <1>2. ASSUME NEW n \in Node, Gone(n) PROVE WalletKnown(m)'
    <2>1. CASE m = n
      BY <1>2, <2>1 DEF Gone, WalletKnown
    <2>2. CASE m # n
      <3>1. pc'[m] = pc[m] /\ file'[m] = file[m] /\ wallet'[m] = wallet[m]
               /\ unsaved'[m] = unsaved[m]
        BY <1>2, <2>2 DEF Gone
      <3> QED
        BY <3>1, WalletFrame
    <2> QED
      BY <2>1, <2>2
  <1>3. ASSUME NEW n \in Node,
               \/ ListenCommand(n) \/ MuteConnects(n) \/ LeaveLoop(n)
               \/ \E client \in Node \cup {Nobody, Mute} : Accept(n, client) \/ HandleClient(n, client)
        PROVE  WalletKnown(m)'
    <2>1. UNCHANGED << pc, walletVars >>
      BY <1>3 DEF ListenCommand, MuteConnects, LeaveLoop, Accept, HandleClient
    <2> QED
      BY <2>1, WalletFrame
  <1>4. ASSUME NEW n \in Node,
               \/ CallOver(n) \/ ExitCommand(n) \/ CloseListener(n) \/ Joined(n)
               \/ StopStatusServer(n) \/ \E p \in Port : Call(n, p)
        PROVE  WalletKnown(m)'
    <2>1. /\ UNCHANGED walletVars
          /\ pc[n] \notin {"off", "start", "check", "save"}
          /\ \A k \in Node \ {n} : pc'[k] = pc[k]
          /\ pc'[n] \notin {"off", "check", "save"}
      BY <1>4 DEF CallOver, ExitCommand, CloseListener, Joined, StopStatusServer, Call
    <2>2. CASE m = n
      BY <2>1, <2>2, WalletPast
    <2>3. CASE m # n
      BY <2>1, <2>3, WalletFrame
    <2> QED
      BY <2>2, <2>3
  <1> QED
    BY <1>1, <1>2, <1>3, <1>4 DEF Next, Shutdown, Return, Crash, BrokenPipe

\* No step takes a key out of its file.
LEMMA StepKeepsKey ==
    ASSUME ProcessInv, Next, NEW m \in Node, file[m] \in Key
    PROVE  file'[m] = file[m]
  <1> USE DEF ProcessInv, ProcessTypeOK, walletVars
  <1>1. ASSUME NEW n \in Node, OpenForSave(n) PROVE file'[m] = file[m]
    <2>1. file[n] = NoFile
      BY <1>1 DEF OpenForSave, MustSave
    <2> QED
      BY <1>1, <2>1, FileAssumption DEF OpenForSave
  <1>2. ASSUME NEW n \in Node, WriteKey(n) PROVE file'[m] = file[m]
    <2>1. file[n] = Empty
      BY <1>2 DEF WriteKey, Goto, WalletFollowsFile, WalletKnown
    <2> QED
      BY <1>2, <2>1, FileAssumption DEF WriteKey
  <1>3. ASSUME NEW n \in Node,
               \/ Launch(n) \/ LoadWallet(n) \/ GenerateWallet(n) \/ SkipSave(n) \/ OpenFails(n)
               \/ StartStatusServer(n) \/ Gone(n)
        PROVE  file'[m] = file[m]
    BY <1>3 DEF Launch, LoadWallet, GenerateWallet, SkipSave, OpenFails, StartStatusServer, Gone
  <1>4. ASSUME NEW n \in Node,
               \/ ListenCommand(n) \/ MuteConnects(n) \/ LeaveLoop(n) \/ CallOver(n)
               \/ ExitCommand(n) \/ CloseListener(n) \/ Joined(n) \/ StopStatusServer(n)
               \/ \E p \in Port : Call(n, p)
               \/ \E client \in Node \cup {Nobody, Mute} : Accept(n, client) \/ HandleClient(n, client)
        PROVE  file'[m] = file[m]
    BY <1>4 DEF ListenCommand, MuteConnects, LeaveLoop, CallOver, ExitCommand, CloseListener,
                Joined, StopStatusServer, Call, Accept, HandleClient
  <1> QED
    BY <1>1, <1>2, <1>3, <1>4 DEF Next, Startup, Shutdown, Return, Crash, BrokenPipe

------------------------------------------------------------------------------
\* The listener

\* What `listening` stands for is kept while its process's part does not change.
LEMMA ListeningFrame ==
    ASSUME NEW m \in Node, Listening(m), pc'[m] = pc[m], listening'[m] = listening[m],
           running'[m] = running[m], looping'[m] = looping[m],
           owner[P2PPort[m]] = << "p2p", m >> => owner'[P2PPort[m]] = << "p2p", m >>
    PROVE  Listening(m)'
  BY DEF Listening

\* A step with which no process gains or loses a port, and which leaves main
\* between two lines after the wallet or before the prompt.
LEMMA ListeningPast ==
    ASSUME ProcessInv, NEW m \in Node, UNCHANGED serverVars,
           \/ pc'[m] = pc[m]
           \/ pc[m] \in {"off", "start", "check", "save"} /\ pc'[m] \in {"start", "check", "save", "serve"}
           \/ pc[m] \in {"idle", "call"} /\ pc'[m] \in {"idle", "call"}
           \/ pc'[m] \in {"joining", "closingStatus", "leaving"}
    PROVE  Listening(m)'
  BY DEF Listening, ProcessInv, ListenerHeld, serverVars

\* Whoever is about to close its listener has it: no two nodes close one port.
LEMMA CloserOwns ==
    ASSUME ProcessInv, NEW n \in Node, pc[n] = "closing"
    PROVE  owner[P2PPort[n]] = << "p2p", n >>
  BY DEF ProcessInv, ListenerHeld, Listening

\* No step takes a listener away from a shell that relies on it.
LEMMA StepListener ==
    ASSUME ProcessInv, Next
    PROVE  ListenerHeld'
  <1> USE DEF ProcessInv, ProcessTypeOK, ListenerHeld, Goto
  <1> SUFFICES ASSUME NEW m \in Node PROVE Listening(m)'
    OBVIOUS
  <1>1. ASSUME NEW n \in Node,
               \/ Launch(n) \/ LoadWallet(n) \/ GenerateWallet(n) \/ SkipSave(n) \/ OpenForSave(n)
               \/ OpenFails(n) \/ WriteKey(n) \/ CallOver(n) \/ Joined(n) \/ MuteConnects(n)
               \/ \E p \in Port : Call(n, p)
               \/ \E client \in Node \cup {Nobody, Mute} : Accept(n, client) \/ HandleClient(n, client)
        PROVE  Listening(m)'
    <2>1. UNCHANGED serverVars
      BY <1>1 DEF Launch, LoadWallet, GenerateWallet, SkipSave, OpenForSave, OpenFails, WriteKey,
                  CallOver, Joined, MuteConnects, Call, Accept, HandleClient
    <2>2. \/ pc'[m] = pc[m]
          \/ pc[m] \in {"off", "start", "check", "save"} /\ pc'[m] \in {"start", "check", "save", "serve"}
          \/ pc[m] \in {"idle", "call"} /\ pc'[m] \in {"idle", "call"}
          \/ pc'[m] \in {"joining", "closingStatus", "leaving"}
      BY <1>1 DEF Launch, LoadWallet, GenerateWallet, SkipSave, OpenForSave, OpenFails, WriteKey,
                  CallOver, Joined, MuteConnects, Call, Accept, HandleClient
    <2> QED
      BY <2>1, <2>2, ListeningPast
  <1>2. ASSUME NEW n \in Node, StartStatusServer(n) PROVE Listening(m)'
    <2>1. owner[P2PPort[m]] = << "p2p", m >> => owner'[P2PPort[m]] = << "p2p", m >>
      BY <1>2, PortTypes, ProcessAssumption DEF StartStatusServer
    <2>2. CASE m = n
      BY <1>2, <2>2 DEF StartStatusServer, Listening
    <2>3. CASE m # n
      BY <1>2, <2>1, <2>3, ListeningFrame DEF StartStatusServer
    <2> QED
      BY <2>2, <2>3
  <1>3. ASSUME NEW n \in Node, ListenCommand(n) PROVE Listening(m)'
    <2>1. CASE Listens(n)
      <3>1. owner' = [owner EXCEPT ![P2PPort[n]] = << "p2p", n >>]
        BY <1>3, <2>1 DEF ListenCommand, Listens
      <3>2. CASE m = n
        BY <1>3, <2>1, <3>1, <3>2, PortTypes DEF ListenCommand, Listening
      <3>3. CASE m # n
        <4>1. owner[P2PPort[m]] = << "p2p", m >> => owner'[P2PPort[m]] = << "p2p", m >>
          BY <2>1, <3>1, PortTypes, ProcessAssumption DEF Listens
        <4> QED
          BY <1>3, <2>1, <3>3, <4>1, ListeningFrame DEF ListenCommand
      <3> QED
        BY <3>2, <3>3
    <2>2. CASE ~ Listens(n)
      BY <1>3, <2>2, ListeningPast DEF ListenCommand
    <2> QED
      BY <2>1, <2>2
  <1>4. ASSUME NEW n \in Node, LeaveLoop(n) PROVE Listening(m)'
    <2>1. CASE m = n
      BY <1>4, <2>1 DEF LeaveLoop, Listening
    <2>2. CASE m # n
      BY <1>4, <2>2, ListeningFrame DEF LeaveLoop
    <2> QED
      BY <2>1, <2>2
  <1>5. ASSUME NEW n \in Node, ExitCommand(n) PROVE Listening(m)'
    <2>1. CASE m = n
      BY <1>5, <2>1 DEF ExitCommand, Listening
    <2>2. CASE m # n
      BY <1>5, <2>2, ListeningFrame DEF ExitCommand
    <2> QED
      BY <2>1, <2>2
  <1>6. ASSUME NEW n \in Node, CloseListener(n) PROVE Listening(m)'
    <2>1. CASE m = n
      BY <1>6, <2>1 DEF CloseListener, Listening
    <2>2. CASE m # n
      <3>1. owner[P2PPort[n]] = << "p2p", n >>
        BY <1>6, CloserOwns DEF CloseListener
      <3>2. owner[P2PPort[m]] = << "p2p", m >> => P2PPort[m] # P2PPort[n]
        BY <2>2, <3>1
      <3> QED
        BY <1>6, <2>2, <3>2, ListeningFrame, PortTypes DEF CloseListener
    <2> QED
      BY <2>1, <2>2
  <1>7. ASSUME NEW n \in Node, StopStatusServer(n) PROVE Listening(m)'
    <2>1. owner[P2PPort[m]] = << "p2p", m >> => owner'[P2PPort[m]] = << "p2p", m >>
      BY <1>7, PortTypes DEF StopStatusServer, OwnsStatusPort
    <2>2. CASE m = n
      BY <1>7, <2>2 DEF StopStatusServer, Listening
    <2>3. CASE m # n
      BY <1>7, <2>1, <2>3, ListeningFrame DEF StopStatusServer
    <2> QED
      BY <2>2, <2>3
  <1>8. ASSUME NEW n \in Node, Gone(n) PROVE Listening(m)'
    <2>1. CASE m = n
      BY <1>8, <2>1 DEF Gone, Listening
    <2>2. CASE m # n
      <3>1. owner[P2PPort[m]] = << "p2p", m >> => owner'[P2PPort[m]] = << "p2p", m >>
        BY <1>8, <2>2, PortTypes DEF Gone
      <3> QED
        BY <1>8, <2>2, <3>1, ListeningFrame DEF Gone
    <2> QED
      BY <2>1, <2>2
  <1> QED
    BY <1>1, <1>2, <1>3, <1>4, <1>5, <1>6, <1>7, <1>8
       DEF Next, Startup, Shutdown, Return, Crash, BrokenPipe

------------------------------------------------------------------------------
\* The invariant

LEMMA InitEstablishes == Init => ProcessInv
  BY InitType DEF Init, ProcessInv, WalletFollowsFile, WalletKnown, ListenerHeld, Listening

LEMMA NextPreserves == ProcessInv /\ [Next]_vars => ProcessInv'
  <1> SUFFICES ASSUME ProcessInv, [Next]_vars PROVE ProcessInv'
    OBVIOUS
  <1>1. CASE Next
    <2>1. ProcessTypeOK'
      BY <1>1, StartupType, ServingType, ShutdownType, GoneType
         DEF Next, Crash, BrokenPipe
    <2> QED
      BY <1>1, <2>1, StepWallet, StepListener DEF ProcessInv
  <1>2. CASE UNCHANGED vars
    <2>1. ProcessTypeOK'
      BY <1>2 DEF ProcessInv, ProcessTypeOK, vars, walletVars, serverVars
    <2>2. WalletFollowsFile'
      BY <1>2 DEF ProcessInv, WalletFollowsFile, WalletKnown, Saved, vars, walletVars, serverVars
    <2>3. ListenerHeld'
      BY <1>2 DEF ProcessInv, ListenerHeld, Listening, vars, walletVars, serverVars
    <2> QED
      BY <2>1, <2>2, <2>3 DEF ProcessInv
  <1> QED
    BY <1>1, <1>2

\* The invariant the theorems below rest on.
THEOREM ProcessInvariant == Spec => []ProcessInv
  BY InitEstablishes, NextPreserves, PTL DEF Spec

------------------------------------------------------------------------------
\* What a reader wants to know

\* Type correctness of the processes, their files, ports and connections.
THEOREM TypeCorrect == Spec => []ProcessTypeOK
  <1>1. ProcessInv => ProcessTypeOK
    BY DEF ProcessInv
  <1> QED
    BY <1>1, ProcessInvariant, PTL

\* The address a prompt shows is that of the key in wallet.dat, unless the save
\* failed, wherever earlier processes of the folder died (main.cpp:87-95,
\* Wallet::save).
THEOREM AddressShownIsKept == Spec => []ShownIsKept
  <1>1. ProcessInv => ShownIsKept
    <2> SUFFICES ASSUME ProcessInv, NEW n \in Node, wallet[n] # NoKey,
                        pc[n] \notin {"start", "check", "save"}, ~ unsaved[n]
                 PROVE  file[n] # NoFile /\ Loaded(file[n]) = wallet[n]
      BY DEF ShownIsKept
    <2>1. pc[n] # "off"
      BY DEF ProcessInv, WalletFollowsFile, WalletKnown
    <2> QED
      BY <2>1 DEF ProcessInv, WalletFollowsFile, WalletKnown, Saved
  <1> QED
    BY <1>1, ProcessInvariant, PTL

\* A key that is in wallet.dat stays there (Wallet::save empties the file, but
\* main.cpp:90 calls it only where there was none).
THEOREM KeyStays == Spec => KeyIsNeverLost
  <1>1. ProcessInv /\ [Next]_vars => [\A n \in Node : file[n] \in Key => file'[n] = file[n]]_vars
    BY StepKeepsKey
  <1> QED
    BY <1>1, ProcessInvariant, PTL DEF Spec, KeyIsNeverLost

\* A shell that believes to be listening has its port and its accept loop,
\* however the ports of other processes overlap with its own
\* (PeerServer::start and stop, StatusServer::start and stop).
THEOREM ListenerStays == Spec => []ListeningIsServed
  <1>1. ProcessInv => ListeningIsServed
    BY DEF ProcessInv, ListenerHeld, Listening, ListeningIsServed
  <1> QED
    BY <1>1, ProcessInvariant, PTL
==============================================================================
