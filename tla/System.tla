-------------------------------- MODULE System --------------------------------
(***************************************************************************)
(* The process around the server: VSystemManager::Start and Stop, and      *)
(* ChatStart with its signal handler (VChatLib/VSystemManager.cpp), as     *)
(* built for unix.  The main thread starts the managers in one order,      *)
(* waits for SIGTERM, and stops them in another; the network is one of     *)
(* them, and the server of module Server exists while it is up.            *)
(*                                                                         *)
(* The other managers are not in the repository, except VUserManager,      *)
(* VNetworkProcessPacketManager and VNetWorkManager.  Those in Senders     *)
(* have a thread of their own, which sends to users while the manager is   *)
(* up; that their Stop waits for that thread is assumed.                   *)
(***************************************************************************)
EXTENDS Server, Sequences

\* Which managers have such a thread is theirs to say: any that Stop reaches
\* before the user manager.  The databases, which it reaches after, are taken
\* to answer on the thread that asks.
ASSUME SystemAssumption == Senders \subseteq {"Lobby", "Guild", "ZME", "Http", "MM"}

VARIABLES main,         \* where the main thread is
          todo,         \* the managers it has yet to start, or to stop
          up,           \* the managers that are started
          g_bRun,
          handled       \* SignalHandler is registered for SIGTERM

mainVars == <<main, todo, up, g_bRun, handled>>

StartOrder == <<"XML", "AsyncIo", "Log", "SocialDB", "Database", "User", "MM", "Http", "ZME",
                "Guild", "Lobby", "ProcessPacket", "NetWork">>

\* Mutant of StopOrder: the network is stopped after the user manager.
StopOrderLate == <<"AsyncIo", "ProcessPacket", "Lobby", "Guild", "ZME", "Http",
                   "MM", "User", "NetWork", "Database", "SocialDB", "Log", "XML">>

StopOrder == <<"AsyncIo", "NetWork", "ProcessPacket", "Lobby", "Guild", "ZME", "Http", "MM",
               "User", "Database", "SocialDB", "Log", "XML">>

\* What the code of a packet handler uses, and what a sending manager does to
\* reach a user; whoever sends posts to the io_service of the network.
HandlerUses ==
  {"Log", "SocialDB", "Database", "User", "ZME", "Guild", "Lobby", "ProcessPacket", "NetWork"}
SenderUses == {"Log", "User", "NetWork"}

SystemInit ==
  /\ Init
  /\ main = "start" /\ todo = StartOrder /\ up = {}
  /\ g_bRun = TRUE /\ handled = FALSE

-----------------------------------------------------------------------------
\* The main thread.

\* Start of the next manager.
StartManager ==
  /\ main = "start" /\ todo # <<>>
  /\ up' = up \cup {Head(todo)} /\ todo' = Tail(todo)
  /\ UNCHANGED <<vars, main, g_bRun, handled>>

\* The constructor of async_server cannot bind its port: nobody catches what
\* it throws.
BindFails ==
  /\ main = "start" /\ todo # <<>> /\ Head(todo) = "NetWork"
  /\ main' = "killed"
  /\ UNCHANGED <<vars, todo, up, g_bRun, handled>>

\* std::signal, once all are started.
Register ==
  /\ main = "start" /\ todo = <<>>
  /\ main' = "wait" /\ handled' = TRUE
  /\ UNCHANGED <<vars, todo, up, g_bRun>>

\* while (g_bRun) sleep(1);
Wake ==
  /\ main = "wait" /\ ~g_bRun
  /\ main' = "stop" /\ todo' = StopOrder
  /\ UNCHANGED <<vars, up, g_bRun, handled>>

\* Stop of the next manager, other than the network: its thread is gone.
StopManager ==
  /\ main = "stop" /\ todo # <<>> /\ Head(todo) # "NetWork"
  /\ Head(todo) \in Senders => holds[Head(todo)] = NoSession
  /\ up' = up \ {Head(todo)} /\ todo' = Tail(todo)
  /\ UNCHANGED <<vars, main, g_bRun, handled>>

\* VNetWorkManager::Stop: the server is stopped, its threads are joined, and
\* it is destroyed.
StopNetWork ==
  /\ main = "stop" /\ todo # <<>> /\ Head(todo) = "NetWork"
  /\ \/ (Stop \/ Join) /\ UNCHANGED mainVars
     \/ /\ Destroy
        /\ up' = up \ {"NetWork"} /\ todo' = Tail(todo)
        /\ UNCHANGED <<main, g_bRun, handled>>

Exit ==
  /\ main = "stop" /\ todo = <<>>
  /\ main' = "exited"
  /\ UNCHANGED <<vars, todo, up, g_bRun, handled>>

-----------------------------------------------------------------------------
\* SIGTERM: until the handler is registered it ends the process.
Sigterm ==
  /\ main \in {"start", "wait", "stop"}
  /\ IF handled THEN g_bRun' = FALSE /\ UNCHANGED main ELSE main' = "killed" /\ UNCHANGED g_bRun
  /\ UNCHANGED <<vars, todo, up, handled>>

\* A step of an io thread of the server.
Serve(step) ==
  /\ main # "killed" /\ "NetWork" \in up
  /\ step /\ UNCHANGED mainVars

\* A manager that sends takes no new session once its Stop waits for its thread.
\* A crash of its thread takes the process with it.
SendFrom(x) ==
  /\ main # "killed" /\ x \in up
  /\ \/ Post(x) /\ main' = IF phase' = "crashed" THEN "killed" ELSE main
     \/ /\ main = "stop" => Head(todo) # x
        /\ \E s \in Sessions : Lock(x, s)
        /\ UNCHANGED main
  /\ UNCHANGED <<todo, up, g_bRun, handled>>

SystemNext ==
  \/ StartManager \/ BindFails \/ Register \/ Wake \/ StopManager \/ StopNetWork \/ Exit
  \/ Sigterm
  \/ Serve(IoNext) \/ \E x \in Senders : SendFrom(x)

systemVars == <<vars, mainVars>>

\* The main thread goes on; an io thread that runs a handler does, and leaves
\* when the io_service is stopped; a thread that has locked a session sends.
SystemSpec ==
  /\ SystemInit /\ [][SystemNext]_systemVars
  /\ WF_systemVars(StartManager \/ Register \/ Wake \/ StopManager \/ StopNetWork \/ Exit)
  /\ \A t \in IoThreads : WF_systemVars(Serve(StartAccept(t) \/ Return(t) \/ Leave(t)))
  /\ \A x \in Senders : WF_systemVars(SendFrom(x) /\ Post(x))

-----------------------------------------------------------------------------
\* While a handler of a session runs, the managers that the handlers call are
\* started and not stopped; and while a manager's thread sends to a user, that
\* manager and those it needs for it are, with one exception that the order of
\* the stops leaves: the network may be gone if the session is one that such a
\* thread held when the server was destroyed.  Only that can crash the process.
UpWhileUsed ==
  /\ \A t \in IoThreads : pc[t] = "run" /\ holds[t] # NoSession => HandlerUses \subseteq up
  /\ \A x \in Senders : holds[x] # NoSession =>
       \/ {x} \cup SenderUses \subseteq up
       \/ {x} \cup (SenderUses \ {"NetWork"}) \subseteq up /\ holds[x] \in orphans
  /\ phase = "crashed" => orphans # {}

\* A process that is told to stop once it has started does so, whatever its
\* connections and its managers are doing, unless it crashes on the way.
Terminates == main = "wait" /\ ~g_bRun ~> main = "exited" \/ phase = "crashed"
=============================================================================
