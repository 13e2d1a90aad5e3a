------------------------------- MODULE Process -------------------------------
(***************************************************************************)
(* Node processes on one machine (node/main.cpp): the wallet file each one *)
(* creates or loads (wallet/keystore.hpp), the ports of its status server  *)
(* (node/status.hpp) and its peer server (p2p/peer_server.hpp), the calls  *)
(* they make to each other, and how a process ends.                        *)
(*                                                                         *)
(* External: the operating system gives a port to one listener at a time,  *)
(* as it does outside Windows; it ends the connections of a process that   *)
(* is gone, and of a listener that is closed those not accepted yet.       *)
(***************************************************************************)
EXTENDS Naturals, Functions

CONSTANTS
    Node,      \* processes, each run in a folder of its own
    P2PPort,   \* each one's --port
    Nobody,    \* no process: a port's owner, a connection's client
    Mute,      \* a client that connects and sends nothing
    NoFile,    \* there is no wallet.dat
    Empty,     \* it is empty
    MaxKeys    \* bound: wallets the processes of a folder generate

ASSUME ProcessAssumption ==
    /\ P2PPort \in [Node -> Nat]
    /\ {Nobody, Mute} \cap Node = {} /\ Nobody # Mute
    /\ Nobody \notin {"status", "p2p"} \X Node
    /\ MaxKeys \in [Node -> Nat]

StatusPort == [n \in Node |-> P2PPort[n] + 1]
Port == Range(P2PPort) \cup Range(StatusPort)

VARIABLES
    pc,         \* where main is
    file,       \* what is in wallet.dat
    wallet,     \* main's local myWallet
    generated,  \* history: keys generated in this folder
    unsaved,    \* history: the save of this process failed
    owner,      \* whose socket listens on a port
    listening,  \* main's local `listening`
    running,    \* PeerServer::running_
    looping,    \* PeerServer::thread_ is in acceptLoop
    conns       \* connections to peer servers

walletVars == << file, wallet, generated, unsaved >>
serverVars == << owner, listening, running, looping >>
vars == << pc, walletVars, serverVars, conns >>

NoKey == << >>
\* An empty line leaves the private key's bytes as they were initialised.
ZeroKey == << 0 >>
Key == UNION { {n} \X (1 .. MaxKeys[n]) : n \in Node }

ASSUME FileAssumption == NoFile # Empty /\ {NoFile, Empty} \cap (Key \cup {ZeroKey}) = {}

\* `queued`: in the kernel; `accepted`: in a handler.  A client that is gone is
\* Nobody.
Connection == [from : Node \cup {Nobody, Mute}, to : Node, at : {"queued", "accepted"}]

Init ==
    /\ pc = [n \in Node |-> "off"]
    /\ file = [n \in Node |-> NoFile]
    /\ wallet = [n \in Node |-> NoKey]
    /\ generated = [n \in Node |-> 0]
    /\ unsaved = [n \in Node |-> FALSE]
    /\ owner = [p \in Port |-> Nobody]
    /\ listening = [n \in Node |-> FALSE]
    /\ running = [n \in Node |-> FALSE]
    /\ looping = [n \in Node |-> FALSE]
    /\ conns = {}

Goto(n, from, to) == pc[n] = from /\ pc' = [pc EXCEPT ![n] = to]

------------------------------------------------------------------------------
\* Start-up: the wallet

\* Mutated form: no key is read from an empty file, and none is made up.
LoadedRaw(contents) == contents

Loaded(contents) == IF contents = Empty THEN ZeroKey ELSE contents

Launch(n) ==
    /\ Goto(n, "off", "start")
    /\ UNCHANGED << walletVars, serverVars, conns >>

LoadWallet(n) ==
    /\ file[n] # NoFile
    /\ Goto(n, "start", "check")
    /\ wallet' = [wallet EXCEPT ![n] = Loaded(file[n])]
    /\ UNCHANGED << file, generated, unsaved, serverVars, conns >>

GenerateWallet(n) ==
    /\ file[n] = NoFile /\ generated[n] < MaxKeys[n]
    /\ Goto(n, "start", "check")
    /\ generated' = [generated EXCEPT ![n] = @ + 1]
    /\ wallet' = [wallet EXCEPT ![n] = << n, generated'[n] >>]
    /\ UNCHANGED << file, unsaved, serverVars, conns >>

\* Mutated form: the branches are swapped, so a new wallet is never saved.
MustSaveSwapped(n) == file[n] # NoFile

\* Mutated form: the wallet is saved on every start.
MustSaveAlways(n) == TRUE

\* The second look at the file.
MustSave(n) == file[n] = NoFile

SkipSave(n) ==
    /\ ~ MustSave(n)
    /\ Goto(n, "check", "serve")
    /\ UNCHANGED << walletVars, serverVars, conns >>

\* save opens the file, which creates it or empties it ...
OpenForSave(n) ==
    /\ MustSave(n)
    /\ Goto(n, "check", "save")
    /\ file' = [file EXCEPT ![n] = Empty]
    /\ UNCHANGED << wallet, generated, unsaved, serverVars, conns >>

\* ... unless it cannot, which main does not ask about ...
OpenFails(n) ==
    /\ MustSave(n)
    /\ Goto(n, "check", "serve")
    /\ unsaved' = [unsaved EXCEPT ![n] = TRUE]
    /\ UNCHANGED << file, wallet, generated, serverVars, conns >>

\* ... and writes the key; nobody looks whether that worked.
WriteKey(n) ==
    /\ Goto(n, "save", "serve")
    /\ \/ file' = [file EXCEPT ![n] = wallet[n]] /\ UNCHANGED unsaved
       \/ unsaved' = [unsaved EXCEPT ![n] = TRUE] /\ UNCHANGED file
    /\ UNCHANGED << wallet, generated, serverVars, conns >>

------------------------------------------------------------------------------
\* The two servers

\* StatusServer::start, its result unused.
StartStatusServer(n) ==
    /\ Goto(n, "serve", "idle")
    /\ owner' = IF owner[StatusPort[n]] = Nobody
                THEN [owner EXCEPT ![StatusPort[n]] = << "status", n >>] ELSE owner
    /\ UNCHANGED << walletVars, listening, running, looping, conns >>

\* Mutated form: the listener counts as started without its port.
ListensAlways(n) == TRUE

\* PeerServer::start returns true.
Listens(n) == owner[P2PPort[n]] = Nobody

\* `listen` and the end of `join-net`.
ListenCommand(n) ==
    /\ pc[n] = "idle" /\ ~ listening[n]
    /\ IF Listens(n)
       THEN /\ owner' = IF owner[P2PPort[n]] = Nobody
                        THEN [owner EXCEPT ![P2PPort[n]] = << "p2p", n >>] ELSE owner
            /\ listening' = [listening EXCEPT ![n] = TRUE]
            /\ running' = [running EXCEPT ![n] = TRUE]
            /\ looping' = [looping EXCEPT ![n] = TRUE]
       ELSE UNCHANGED serverVars
    /\ UNCHANGED << pc, walletVars, conns >>

\* Mutated form: the accept loop serves the connection itself.
MayAcceptInline(n) == looping[n] /\ ~ \E d \in conns : d.to = n /\ d.at = "accepted"

\* An accept that began while running_ was true may succeed after it is not.
MayAccept(n) == looping[n]

\* acceptLoop leaves the connection to a detached thread.
Accept(n, client) ==
    LET c == [from |-> client, to |-> n, at |-> "queued"]
    IN  /\ c \in conns /\ MayAccept(n)
        /\ conns' = (conns \ {c}) \cup {[c EXCEPT !.at = "accepted"]}
        /\ UNCHANGED << pc, walletVars, serverVars >>

\* acceptLoop sees running_ to be false.
LeaveLoop(n) ==
    /\ looping[n] /\ ~ running[n]
    /\ looping' = [looping EXCEPT ![n] = FALSE]
    /\ UNCHANGED << pc, walletVars, owner, listening, running, conns >>

\* handleClient answers, or knows no such request, and closes the connection.
\* It never gets a request from a mute client.
HandleClient(n, client) ==
    LET c == [from |-> client, to |-> n, at |-> "accepted"]
    IN  /\ c \in conns /\ client # Mute
        /\ conns' = conns \ {c}
        /\ UNCHANGED << pc, walletVars, serverVars >>

------------------------------------------------------------------------------
\* Calls of the shell: one connection, one answer (p2p/peer_client.hpp)

\* A status server sends its snapshot, whatever it is asked, and closes: to a
\* peer client no answer at all.
ServesPeers(port) == owner[port] # Nobody /\ owner[port][1] = "p2p"

\* queryHeight, fetchChain, announceWallet, broadcastTransaction.  connectTo
\* succeeds if somebody listens there.
Call(n, port) ==
    /\ pc[n] = "idle"
    /\ IF ServesPeers(port)
       THEN /\ pc' = [pc EXCEPT ![n] = "call"]
            /\ conns' = conns \cup {[from |-> n, to |-> owner[port][2], at |-> "queued"]}
       ELSE UNCHANGED << pc, conns >>
    /\ UNCHANGED << walletVars, serverVars >>

\* recvLine sees the end of a line or of the connection.
CallOver(n) ==
    /\ ~ \E c \in conns : c.from = n
    /\ Goto(n, "call", "idle")
    /\ UNCHANGED << walletVars, serverVars, conns >>

MuteConnects(n) ==
    /\ owner[P2PPort[n]] = << "p2p", n >>
    /\ conns' = conns \cup {[from |-> Mute, to |-> n, at |-> "queued"]}
    /\ UNCHANGED << pc, walletVars, serverVars >>

------------------------------------------------------------------------------
\* The end of a process

\* The kernel frees its ports and ends its connections; those of its handlers
\* are seen as ended by their clients, its own by the handlers.
Gone(n) ==
    /\ pc' = [pc EXCEPT ![n] = "off"]
    /\ wallet' = [wallet EXCEPT ![n] = NoKey]
    /\ unsaved' = [unsaved EXCEPT ![n] = FALSE]
    /\ owner' = [p \in Port |-> IF owner[p] # Nobody /\ owner[p][2] = n THEN Nobody ELSE owner[p]]
    /\ listening' = [listening EXCEPT ![n] = FALSE]
    /\ running' = [running EXCEPT ![n] = FALSE]
    /\ looping' = [looping EXCEPT ![n] = FALSE]
    /\ conns' = { IF c.from = n THEN [c EXCEPT !.from = Nobody] ELSE c :
                    c \in { d \in conns : d.to # n } }
    /\ UNCHANGED << file, generated >>

\* Killed, ended by an exception no thread catches, or by what a handler does to
\* objects main has destroyed.
Crash(n) == pc[n] # "off" /\ Gone(n)

\* sendAll to a client that is gone raises SIGPIPE, which nobody handles.
BrokenPipe(n) == [from |-> Nobody, to |-> n, at |-> "accepted"] \in conns /\ Gone(n)

\* Past the prompt; miner.stop() has returned (StopReturns of Node).
ExitCommand(n) ==
    /\ Goto(n, "idle", IF listening[n] THEN "closing" ELSE "closingStatus")
    /\ running' = [running EXCEPT ![n] = FALSE]
    /\ UNCHANGED << walletVars, owner, listening, looping, conns >>

\* PeerServer::stop closes the listener under its accept loop ...
CloseListener(n) ==
    /\ Goto(n, "closing", "joining")
    /\ owner' = [owner EXCEPT ![P2PPort[n]] = Nobody]
    /\ conns' = { c \in conns : ~ (c.to = n /\ c.at = "queued") }
    /\ UNCHANGED << walletVars, listening, running, looping >>

\* Mutated form: the handlers are waited for as well.
JoinedHandlersToo(n) == ~ looping[n] /\ ~ \E c \in conns : c.to = n

\* ... and joins that loop, not the handlers.
ThreadsJoined(n) == ~ looping[n]

Joined(n) ==
    /\ ThreadsJoined(n)
    /\ Goto(n, "joining", "closingStatus")
    /\ UNCHANGED << walletVars, serverVars, conns >>

\* listenSocket_ is a socket: start() got the port.
OwnsStatusPort(n) == owner[StatusPort[n]] = << "status", n >>

\* StatusServer::stop, whose loop serves a client without waiting for it.
StopStatusServer(n) ==
    /\ Goto(n, "closingStatus", "leaving")
    /\ owner' = IF OwnsStatusPort(n) THEN [owner EXCEPT ![StatusPort[n]] = Nobody] ELSE owner
    /\ UNCHANGED << walletVars, listening, running, looping, conns >>

\* main returns: its locals are destroyed, whatever handlers still use them, and
\* the process ends with its threads.
Return(n) == pc[n] = "leaving" /\ Gone(n)

------------------------------------------------------------------------------

Startup(n) ==
    \/ LoadWallet(n) \/ GenerateWallet(n) \/ SkipSave(n) \/ OpenForSave(n) \/ OpenFails(n)
    \/ WriteKey(n) \/ StartStatusServer(n)

Shutdown(n) == CloseListener(n) \/ Joined(n) \/ StopStatusServer(n) \/ Return(n)

Next ==
    \E n \in Node :
        \/ Launch(n) \/ Startup(n) \/ ListenCommand(n) \/ CallOver(n) \/ MuteConnects(n)
        \/ \E p \in Port : Call(n, p)
        \/ \E client \in Node \cup {Nobody, Mute} : Accept(n, client) \/ HandleClient(n, client)
        \/ LeaveLoop(n) \/ ExitCommand(n) \/ Shutdown(n) \/ Crash(n) \/ BrokenPipe(n)

\* Threads that can run are run, and the kernel hands connections to accept in
\* their order.  Users, mute clients and crashes owe us nothing.
Fairness ==
    \A n \in Node :
        /\ WF_vars(Shutdown(n)) /\ WF_vars(LeaveLoop(n)) /\ WF_vars(CallOver(n))
        /\ \A client \in Node : WF_vars(Accept(n, client)) /\ WF_vars(HandleClient(n, client))

Spec == Init /\ [][Next]_vars
FairSpec == Spec /\ Fairness

------------------------------------------------------------------------------

\* Type invariant.
ProcessTypeOK ==
    /\ pc \in [Node -> {"off", "start", "check", "save", "serve", "idle", "call", "closing",
                        "joining", "closingStatus", "leaving"}]
    /\ file \in [Node -> {NoFile, Empty, ZeroKey} \cup Key]
    /\ wallet \in [Node -> {NoKey, ZeroKey} \cup Key]
    /\ generated \in [Node -> Nat] /\ \A n \in Node : generated[n] <= MaxKeys[n]
    /\ owner \in [Port -> {Nobody} \cup ({"status", "p2p"} \X Node)]
    /\ unsaved \in [Node -> BOOLEAN] /\ listening \in [Node -> BOOLEAN]
    /\ running \in [Node -> BOOLEAN] /\ looping \in [Node -> BOOLEAN]
    /\ conns \subseteq Connection

\* Whoever sees a prompt may hand out the address shown: unless the save failed,
\* the next process of this folder loads the same key, even if an earlier one
\* died between emptying the file and writing it (main.cpp:87-91).
ShownIsKept ==
    \A n \in Node : wallet[n] # NoKey /\ pc[n] \notin {"start", "check", "save"} /\ ~ unsaved[n]
                        => file[n] # NoFile /\ Loaded(file[n]) = wallet[n]

\* A key once in the file is never lost, wherever a process dies.
KeyIsNeverLost == [][\A n \in Node : file[n] \in Key => file'[n] = file[n]]_vars

\* While a shell believes to be listening, its port is its own and its accept
\* loop is there, whatever others start, stop or crash in the meantime.
ListeningIsServed ==
    \A n \in Node : pc[n] \in {"idle", "call"} /\ listening[n] =>
        owner[P2PPort[n]] = << "p2p", n >> /\ running[n] /\ looping[n]

\* A call to a node returns, though recvLine waits without a limit: a node that
\* accepted it answers or ends, and mute clients do not keep it from that.
CallReturns == \A n \in Node : pc[n] = "call" ~> pc[n] # "call"

\* exit ends the process, though a handler may wait for a mute client for ever.
ExitReturns == \A n \in Node : pc[n] = "closing" ~> pc[n] = "off"
==============================================================================
