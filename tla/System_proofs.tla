---------------------------- MODULE System_proofs ----------------------------
(***************************************************************************)
(* Proofs about Server and System, for any number of sessions, io threads  *)
(* and senders.  The server comes first: a new session waits for a         *)
(* connection when no other does, so no reference is overwritten, and      *)
(* since the accept loop belongs to one thread, none is left behind when   *)
(* the threads have left.                                                  *)
(*                                                                         *)
(* Then Locking, for any number of threads, users and rooms.  Locks are    *)
(* taken in one order: that of the users, that of the rooms, one room's,   *)
(* one user's.  What programs are made of keeps that order, so every       *)
(* operation does; and whoever a thread waits for waits, if at all, for a  *)
(* lock of a higher rank, which cannot go on for ever.                     *)
(***************************************************************************)
EXTENDS System, Locking, FiniteSetTheorems, SequenceTheorems, WellFoundedInduction, TLAPS

\* The threads have left before the server is destroyed.
LeftInv == phase \in {"joined", "gone", "crashed"} => \A t \in IoThreads : pc[t] = "left"

\* Who is to issue the next accept holds the session of the last.
IssuingInv == \A t \in IoThreads : pc[t] = "start_accept" => holds[t] # NoSession

\* What is alive after the server was so before.
OrphanInv ==
  /\ phase = "gone" => alive \subseteq orphans
  /\ phase = "crashed" => orphans # {}

ServerInv == Alive /\ OneAccept /\ LeftInv /\ IssuingInv /\ OrphanInv

-----------------------------------------------------------------------------
LEMMA InitServer == Init => ServerInv
  <1> SUFFICES ASSUME Init PROVE ServerInv
    OBVIOUS
  <1>1. Alive
    BY ServerAssumption DEF Init, Alive, TypeOK
  <1>2. OneAccept
    BY ServerAssumption DEF Init, OneAccept
  <1>3. LeftInv /\ IssuingInv /\ OrphanInv
    BY DEF Init, LeftInv, IssuingInv, OrphanInv
  <1> QED
    BY <1>1, <1>2, <1>3 DEF ServerInv

\* Destroying what nobody refers to is what keeps exactly the others alive.
LEMMA ReleaseAlive ==
  ASSUME NEW set, Release(set), alive \subseteq Sessions,
         accepting' \in Sessions \cup {NoSession}, pending' \subseteq Sessions,
         \A s \in alive :
           s \in set \/ s \in pending' \/ s = accepting' \/ \E t \in IoThreads \cup Senders : holds'[t] = s,
         pending' \subseteq alive, accepting' # NoSession => accepting' \in alive,
         \A t \in IoThreads \cup Senders : holds'[t] # NoSession => holds'[t] \in alive
  PROVE  /\ alive' \subseteq Sessions
         /\ \A s \in alive' : s \in pending' \/ s = accepting' \/ \E t \in IoThreads \cup Senders : holds'[t] = s
         /\ pending' \subseteq alive' /\ (accepting' # NoSession => accepting' \in alive')
         /\ \A t \in IoThreads \cup Senders : holds'[t] # NoSession => holds'[t] \in alive'
  BY DEF Release, Unreferenced

\* Who refers to a session, said without the set.
LEMMA AliveIs ==
  Alive <=>
    /\ TypeOK
    /\ \A s \in alive : s \in pending \/ s = accepting \/ \E t \in IoThreads \cup Senders : holds[t] = s
    /\ pending \subseteq alive
    /\ accepting # NoSession => accepting \in alive
    /\ \A t \in IoThreads \cup Senders : holds[t] # NoSession => holds[t] \in alive
  BY DEF Alive

-----------------------------------------------------------------------------
LEMMA HandleAcceptStep ==
  ASSUME ServerInv, NEW t \in IoThreads, HandleAccept(t)
  PROVE  ServerInv'
  <1> USE ServerAssumption DEF ServerInv, TypeOK, HandleAccept, Idle, histories
  <1>1. Alive'
    BY AliveIs DEF Alive
  <1>2. OneAccept'
    BY DEF OneAccept, Alive
  <1>3. LeftInv' /\ IssuingInv' /\ OrphanInv'
    BY DEF LeftInv, IssuingInv, OrphanInv, Alive
  <1> QED
    BY <1>1, <1>2, <1>3

LEMMA StartAcceptStep ==
  ASSUME ServerInv, NEW t \in IoThreads, StartAccept(t)
  PROVE  ServerInv'
  <1> USE ServerAssumption DEF ServerInv, TypeOK
  <1>1. accepting = NoSession /\ ~starved /\ phase \notin {"joined", "gone", "crashed"}
    BY DEF OneAccept, LeftInv, StartAccept
  <1>2. /\ pc[t] = "start_accept" /\ pc' = [pc EXCEPT ![t] = "run"] /\ UNCHANGED <<pending, holds, phase, orphans>>
        /\ \/ \E s \in Sessions \ alive : alive' = alive \cup {s} /\ accepting' = s /\ starved' = starved
           \/ starved' = TRUE /\ alive' = alive /\ accepting' = accepting
    BY DEF StartAccept
  <1>3. Alive'
    BY <1>1, <1>2, AliveIs DEF Alive
  <1>4. OneAccept'
    <2>1. {r \in IoThreads : pc'[r] = "start_accept"} = {}
      BY <1>1, <1>2 DEF OneAccept, Alive
    <2> QED
      BY <1>1, <1>2, <2>1 DEF OneAccept, Alive
  <1>5. LeftInv' /\ IssuingInv' /\ OrphanInv'
    BY <1>1, <1>2 DEF LeftInv, IssuingInv, OrphanInv, Alive
  <1> QED
    BY <1>3, <1>4, <1>5

LEMMA RunHandlerStep ==
  ASSUME ServerInv, NEW t \in IoThreads, NEW s \in Sessions, RunHandler(t, s)
  PROVE  ServerInv'
  <1> USE ServerAssumption DEF ServerInv, TypeOK, RunHandler, Idle, histories
  <1>1. Alive'
    BY AliveIs DEF Alive
  <1>2. OneAccept' /\ LeftInv' /\ IssuingInv' /\ OrphanInv'
    BY DEF OneAccept, LeftInv, IssuingInv, OrphanInv, Alive
  <1> QED
    BY <1>1, <1>2

LEMMA ReturnStep ==
  ASSUME ServerInv, NEW t \in IoThreads, Return(t)
  PROVE  ServerInv'
  <1> USE ServerAssumption DEF ServerInv, TypeOK
  <1>1. /\ holds' = [holds EXCEPT ![t] = NoSession] /\ Release({holds[t]})
        /\ UNCHANGED <<accepting, pending, pc, starved, orphans>> /\ pc[t] = "run"
    BY DEF Return, histories
  <1>2. phase' # phase => phase = "running" /\ phase' = "drained"
    BY DEF Return, Drain
  <1>3. phase' = phase \/ phase' \in {"running", "drained"}
    BY <1>2
  <1>4. Alive'
    BY <1>1, <1>3, ReleaseAlive, AliveIs DEF Alive
  <1>5. IssuingInv'
    BY <1>1 DEF IssuingInv, Alive
  <1>6. phase' # phase => starved
    <2> SUFFICES ASSUME phase' # phase, ~starved PROVE FALSE
      OBVIOUS
    <2>1. phase = "running" /\ accepting = NoSession /\ \A r \in IoThreads : holds'[r] = NoSession
      BY DEF Return, Drain
    <2>2. PICK r \in IoThreads : pc[r] = "start_accept"
      BY <2>1 DEF OneAccept
    <2> QED
      BY <1>1, <1>5, <2>1, <2>2 DEF IssuingInv
  <1>7. OneAccept' /\ LeftInv'
    BY <1>1, <1>2, <1>6 DEF OneAccept, LeftInv
  <1>8. OrphanInv'
    BY <1>1, <1>2 DEF OrphanInv, Release
  <1> QED
    BY <1>4, <1>5, <1>7, <1>8

LEMMA LeaveStep ==
  ASSUME ServerInv, NEW t \in IoThreads, Leave(t)
  PROVE  ServerInv'
  <1> USE ServerAssumption DEF ServerInv, TypeOK, Leave, histories
  <1>1. Alive'
    BY AliveIs DEF Alive
  <1>2. OneAccept' /\ LeftInv' /\ IssuingInv' /\ OrphanInv'
    BY DEF OneAccept, LeftInv, IssuingInv, OrphanInv, Alive
  <1> QED
    BY <1>1, <1>2

LEMMA SenderStep ==
  ASSUME ServerInv, NEW x \in Senders, Post(x) \/ \E s \in Sessions : Lock(x, s)
  PROVE  ServerInv'
  <1> USE ServerAssumption DEF ServerInv, TypeOK
  <1>1. /\ UNCHANGED <<accepting, pc, starved, orphans>>
        /\ phase' # phase => phase = "gone" /\ phase' = "crashed" /\ holds[x] # NoSession
    BY DEF Post, Lock, histories
  <1>2. Alive'
    <2>1. CASE Post(x)
      <3>1. /\ holds' = [holds EXCEPT ![x] = NoSession] /\ Release({holds[x]})
            /\ pending' \subseteq pending \cup {holds[x]} /\ pending \subseteq pending'
            /\ holds[x] # NoSession
        BY <2>1 DEF Post
      <3> QED
        BY <1>1, <3>1, ReleaseAlive, AliveIs DEF Alive
    <2>2. ASSUME NEW s \in Sessions, Lock(x, s) PROVE Alive'
      BY <2>2, AliveIs DEF Alive, Lock, histories
    <2> QED
      BY <2>1, <2>2
  <1>3. OneAccept' /\ LeftInv'
    BY <1>1 DEF OneAccept, LeftInv
  <1>4. IssuingInv'
    BY DEF IssuingInv, Post, Lock, histories, Alive
  <1>5. OrphanInv'
    <2>1. alive' \subseteq alive
      BY DEF Post, Lock, Release
    <2> QED
      BY <1>1, <2>1 DEF OrphanInv, Alive
  <1> QED
    BY <1>2, <1>3, <1>4, <1>5

LEMMA StopStep ==
  ASSUME ServerInv, Stop \/ Join \/ Destroy
  PROVE  ServerInv'
  <1> USE ServerAssumption DEF ServerInv, TypeOK
  <1>1. CASE Stop
    BY <1>1, AliveIs DEF Alive, Stop, OneAccept, LeftInv, IssuingInv, OrphanInv, histories
  <1>2. CASE Join
    BY <1>2, AliveIs DEF Alive, Join, OneAccept, LeftInv, IssuingInv, OrphanInv, histories
  <1>3. CASE Destroy
    <2>1. /\ phase = "joined" /\ phase' = "gone" /\ pending' = {} /\ accepting' = NoSession
          /\ UNCHANGED <<holds, pc, starved>> /\ Release(pending \cup {accepting}) /\ orphans' = alive'
      BY <1>3 DEF Destroy
    <2>2. alive' \subseteq Sessions
      BY <2>1 DEF Release, Alive
    <2>3. Alive'
      BY <2>1, <2>2, ReleaseAlive, AliveIs DEF Alive
    <2> QED
      BY <2>1, <2>3 DEF OneAccept, LeftInv, IssuingInv, OrphanInv
  <1> QED
    BY <1>1, <1>2, <1>3

LEMMA NextServer == ServerInv /\ [Next]_vars => ServerInv'
  <1> SUFFICES ASSUME ServerInv, [Next]_vars PROVE ServerInv'
    OBVIOUS
  <1>1. CASE Next
    BY <1>1, HandleAcceptStep, StartAcceptStep, RunHandlerStep, ReturnStep, LeaveStep, SenderStep,
       StopStep DEF Next, IoNext
  <1>2. CASE UNCHANGED vars
    BY <1>2 DEF vars, histories, ServerInv, Alive, TypeOK, OneAccept, LeftInv, IssuingInv, OrphanInv
  <1> QED
    BY <1>1, <1>2

LEMMA ServerInvariance == Spec => []ServerInv
  BY InitServer, NextServer, PTL DEF Spec

\* Every step of the process is a step of the server, or leaves it alone.
LEMMA SystemSteps == [SystemNext]_systemVars => [Next]_vars
  <1> SUFFICES ASSUME [SystemNext]_systemVars PROVE [Next]_vars
    OBVIOUS
  <1>1. CASE StartManager \/ BindFails \/ Register \/ Wake \/ StopManager \/ Exit \/ Sigterm
    BY <1>1 DEF StartManager, BindFails, Register, Wake, StopManager, Exit, Sigterm
  <1>2. CASE StopNetWork
    BY <1>2 DEF StopNetWork, Next
  <1>3. CASE Serve(IoNext)
    BY <1>3 DEF Serve, Next
  <1>4. ASSUME NEW x \in Senders, SendFrom(x) PROVE Next
    BY <1>4 DEF SendFrom, Next
  <1>5. CASE UNCHANGED systemVars
    BY <1>5 DEF systemVars
  <1> QED
    BY <1>1, <1>2, <1>3, <1>4, <1>5 DEF SystemNext

\* The process runs the server as module Server has it: what holds of the
\* server alone holds of it there.
THEOREM ProcessRunsServer == SystemSpec => Spec
  BY SystemSteps, PTL DEF SystemSpec, SystemInit, Spec

\* In every state of the process a session exists exactly as long as somebody
\* refers to it, so no handler runs on a destroyed one and the server leaves
\* none behind.
THEOREM SessionsAlive == SystemSpec => []Alive
  BY ProcessRunsServer, ServerInvariance, PTL DEF ServerInv

\* In every state of the process until the server is destroyed, one accept is
\* pending or one io thread is about to issue it, unless there was no memory for
\* a session; and only then do the io threads run out of work.
THEOREM OneAcceptLoop == SystemSpec => []OneAccept
  BY ProcessRunsServer, ServerInvariance, PTL DEF ServerInv

-----------------------------------------------------------------------------
Managers == {"XML", "AsyncIo", "Log", "SocialDB", "Database", "User", "MM", "Http", "ZME",
             "Guild", "Lobby", "ProcessPacket", "NetWork"}

\* What is left to do is the end of the order, from which the managers that are
\* up follow.
Rest(order) ==
  /\ todo \in Seq(Managers) /\ Len(todo) <= 13
  /\ \A j \in 1..Len(todo) : todo[j] = order[13 - Len(todo) + j]

StartInv ==
  main = "start" => Rest(StartOrder) /\ \A j \in 1..13 : StartOrder[j] \in up <=> j <= 13 - Len(todo)

StopInv ==
  main \in {"stop", "exited"} =>
    /\ Rest(StopOrder) /\ \A j \in 1..13 : StopOrder[j] \in up <=> j > 13 - Len(todo)
    /\ main = "exited" => todo = <<>>

WaitInv == main = "wait" => \A j \in 1..13 : StartOrder[j] \in up

\* Before the network is started the server is as it was made; when it is
\* stopped the server is gone.
NetInv ==
  /\ main = "start" /\ "NetWork" \notin up =>
       alive \subseteq {accepting} /\ \A t \in IoThreads \cup Senders : holds[t] = NoSession
  /\ main = "stop" /\ "NetWork" \notin up => phase = "gone"

SystemInv ==
  /\ ServerInv /\ StartInv /\ StopInv /\ WaitInv /\ NetInv /\ UpWhileUsed
  /\ main \in {"start", "wait", "stop", "exited", "killed"}

LEMMA StartInjective == \A i, j \in 1..13 : StartOrder[i] = StartOrder[j] => i = j
  BY DEF StartOrder

LEMMA StopInjective == \A i, j \in 1..13 : StopOrder[i] = StopOrder[j] => i = j
  BY DEF StopOrder

LEMMA Orders ==
  /\ StartOrder \in Seq(Managers) /\ Len(StartOrder) = 13 /\ StopOrder \in Seq(Managers) /\ Len(StopOrder) = 13
  /\ StartOrder[13] = "NetWork" /\ StopOrder[2] = "NetWork" /\ StopOrder[9] = "User" /\ StopOrder[12] = "Log"
  /\ \A i \in 1..13 : \E j \in 1..13 : StopOrder[i] = StartOrder[j]
  /\ \A m \in HandlerUses \ {"NetWork"} : \E i \in 3..13 : StopOrder[i] = m
  /\ \A m \in Senders : \E i \in 3..8 : StopOrder[i] = m
  <1>1. /\ StartOrder \in Seq(Managers) /\ Len(StartOrder) = 13 /\ StopOrder \in Seq(Managers) /\ Len(StopOrder) = 13
    <2>1. Len(StartOrder) = 13
      BY DEF StartOrder
    <2>2. Len(StopOrder) = 13
      BY DEF StopOrder
    <2>3. StartOrder \in Seq(Managers)
      BY DEF StartOrder, Managers
    <2>4. StopOrder \in Seq(Managers)
      BY DEF StopOrder, Managers
    <2> QED
      BY <2>1, <2>2, <2>3, <2>4
  <1>2. StartOrder[13] = "NetWork" /\ StopOrder[2] = "NetWork" /\ StopOrder[9] = "User" /\ StopOrder[12] = "Log"
    BY DEF StartOrder, StopOrder
  <1>3. \A i \in 1..13 : \E j \in 1..13 : StopOrder[i] = StartOrder[j]
    BY DEF StartOrder, StopOrder
  <1>4. \A m \in HandlerUses \ {"NetWork"} : \E i \in 3..13 : StopOrder[i] = m
    BY DEF StopOrder, HandlerUses
  <1>5. \A m \in Senders : \E i \in 3..8 : StopOrder[i] = m
    BY SystemAssumption DEF StopOrder
  <1> QED
    BY <1>1, <1>2, <1>3, <1>4, <1>5

-----------------------------------------------------------------------------
\* The head of what is left is the next of the order.
LEMMA RestStep ==
  ASSUME NEW order, Rest(order), todo # <<>>
  PROVE  \E n \in 1..13 :
           /\ Len(todo) = n /\ Head(todo) = order[14 - n]
           /\ Tail(todo) \in Seq(Managers) /\ Len(Tail(todo)) = n - 1
           /\ \A j \in 1..(n - 1) : Tail(todo)[j] = order[13 - (n - 1) + j]
  <1>1. todo \in Seq(Managers)
    BY DEF Rest
  <1>2. Len(todo) \in Nat \ {0}
    BY <1>1, EmptySeq
  <1>3. PICK n \in 1..13 : Len(todo) = n
    <2>1. \A n \in Nat \ {0} : n <= 13 => n \in 1..13
      OBVIOUS
    <2>2. Len(todo) <= 13
      BY DEF Rest
    <2> QED
      BY <1>2, <2>1, <2>2
  <1>4. /\ Tail(todo) \in Seq(Managers) /\ Len(Tail(todo)) = n - 1
        /\ \A i \in 1..(n - 1) : Tail(todo)[i] = todo[i + 1]
    BY <1>1, <1>3, HeadTailProperties
  <1>5. \A j \in 1..n : todo[j] = order[13 - n + j]
    BY <1>3 DEF Rest
  <1>6. Head(todo) = order[14 - n]
    BY <1>3, <1>5
  <1>7. ASSUME NEW j \in 1..(n - 1) PROVE Tail(todo)[j] = order[13 - (n - 1) + j]
    BY <1>4, <1>5
  <1> QED
    BY <1>3, <1>4, <1>6, <1>7

LEMMA SystemInitInv == SystemInit => SystemInv
  <1> SUFFICES ASSUME SystemInit PROVE SystemInv
    OBVIOUS
  <1>1. ServerInv
    BY InitServer DEF SystemInit
  <1>2. StartInv
    BY Orders DEF StartInv, Rest, SystemInit
  <1>3. NetInv /\ UpWhileUsed
    BY ServerAssumption DEF NetInv, UpWhileUsed, SystemInit, Init
  <1> QED
    BY <1>1, <1>2, <1>3 DEF SystemInv, StopInv, WaitInv, SystemInit

LEMMA StartStep ==
  ASSUME SystemInv, StartManager
  PROVE  SystemInv'
  <1> USE DEF SystemInv
  <1>1. /\ main = "start" /\ todo # <<>> /\ up' = up \cup {Head(todo)} /\ todo' = Tail(todo)
        /\ UNCHANGED <<alive, accepting, pending, holds, pc, phase, main>> /\ UNCHANGED histories
    BY DEF StartManager, vars
  <1>2. ServerInv'
    BY NextServer, <1>1 DEF vars
  <1>3. Rest(StartOrder) /\ \A j \in 1..13 : StartOrder[j] \in up <=> j <= 13 - Len(todo)
    BY <1>1 DEF StartInv
  <1>4. PICK n \in 1..13 :
          /\ Len(todo) = n /\ Head(todo) = StartOrder[14 - n]
          /\ todo' \in Seq(Managers) /\ Len(todo') = n - 1
          /\ \A j \in 1..(n - 1) : todo'[j] = StartOrder[13 - (n - 1) + j]
    BY <1>1, <1>3, RestStep
  <1>5. StartInv'
    <2>1. ASSUME NEW j \in 1..13 PROVE StartOrder[j] \in up' <=> j <= 13 - (n - 1)
      <3>1. StartOrder[j] = StartOrder[14 - n] <=> j = 14 - n
        BY StartInjective
      <3>2. StartOrder[j] \in up' <=> StartOrder[j] \in up \/ j = 14 - n
        BY <1>1, <1>4, <3>1
      <3>3. StartOrder[j] \in up <=> j <= 13 - n
        BY <1>3, <1>4
      <3> QED
        BY <3>2, <3>3
    <2>2. Len(todo') = n - 1 /\ n - 1 <= 13
      BY <1>4
    <2>3. Rest(StartOrder)'
      BY <1>4, <2>2 DEF Rest
    <2> QED
      BY <2>1, <2>2, <2>3 DEF StartInv
  <1>6. NetInv' /\ UpWhileUsed'
    BY <1>1 DEF NetInv, UpWhileUsed, histories
  <1> QED
    BY <1>1, <1>2, <1>5, <1>6 DEF StopInv, WaitInv

\* The main thread goes from one phase to the next.
LEMMA PhaseStep ==
  ASSUME SystemInv, BindFails \/ Register \/ Wake \/ Exit \/ Sigterm
  PROVE  SystemInv'
  <1> USE DEF SystemInv
  <1>1. UNCHANGED <<alive, accepting, pending, holds, pc, phase, up>> /\ UNCHANGED histories
    BY DEF BindFails, Register, Wake, Exit, Sigterm, vars
  <1>2. ServerInv' /\ UpWhileUsed'
    BY NextServer, <1>1 DEF vars, UpWhileUsed, histories
  <1>3. CASE BindFails \/ Sigterm
    BY <1>1, <1>2, <1>3 DEF BindFails, Sigterm, StartInv, StopInv, WaitInv, NetInv, Rest
  <1>4. CASE Register
    <2>1. main = "start" /\ main' = "wait" /\ Len(todo) = 0
      BY <1>4 DEF Register
    <2>2. WaitInv'
      BY <1>1, <2>1 DEF StartInv, WaitInv
    <2> QED
      BY <1>1, <1>2, <2>1, <2>2 DEF StartInv, StopInv, NetInv
  <1>5. CASE Wake
    <2>1. main = "wait" /\ main' = "stop" /\ todo' = StopOrder
      BY <1>5 DEF Wake
    <2>2. StopInv'
      BY <1>1, <2>1, Orders DEF StopInv, WaitInv, Rest
    <2>3. NetInv'
      BY <1>1, <2>1, Orders DEF NetInv, WaitInv
    <2> QED
      BY <1>1, <1>2, <2>1, <2>2, <2>3 DEF StartInv, WaitInv
  <1>6. CASE Exit
    BY <1>1, <1>2, <1>6 DEF Exit, StartInv, StopInv, WaitInv, NetInv, Rest
  <1> QED
    BY <1>3, <1>4, <1>5, <1>6

\* A step of Stop takes the next manager of the order down.
Down == main = "stop" /\ main' = "stop" /\ todo # <<>> /\ up' = up \ {Head(todo)} /\ todo' = Tail(todo)

LEMMA StopOrderStep ==
  ASSUME StopInv, Down
  PROVE  /\ StopInv'
         /\ \E n \in 1..13 : Head(todo) = StopOrder[14 - n] /\ \A j \in 1..13 : StopOrder[j] \in up <=> j > 13 - n
  <1>1. Rest(StopOrder) /\ \A j \in 1..13 : StopOrder[j] \in up <=> j > 13 - Len(todo)
    BY DEF StopInv, Down
  <1>2. PICK n \in 1..13 :
          /\ Len(todo) = n /\ Head(todo) = StopOrder[14 - n]
          /\ todo' \in Seq(Managers) /\ Len(todo') = n - 1
          /\ \A j \in 1..(n - 1) : todo'[j] = StopOrder[13 - (n - 1) + j]
    BY <1>1, RestStep DEF Down
  <1>3. ASSUME NEW j \in 1..13 PROVE StopOrder[j] \in up' <=> j > 13 - (n - 1)
    <2>1. StopOrder[j] = StopOrder[14 - n] <=> j = 14 - n
      BY StopInjective
    <2> QED
      BY <1>1, <1>2, <2>1, SMTT(20) DEF Down
  <1>4. Rest(StopOrder)' /\ \A j \in 1..13 : StopOrder[j] \in up' <=> j > 13 - Len(todo')
    BY <1>2, <1>3 DEF Rest
  <1>5. StopInv'
    BY <1>4 DEF StopInv, Down
  <1> QED
    BY <1>1, <1>2, <1>5

\* The managers go down in an order in which nobody misses the next.
LEMMA StopManagerStep ==
  ASSUME SystemInv, StopManager
  PROVE  SystemInv'
  <1> USE DEF SystemInv
  <1>1. /\ main = "stop" /\ todo # <<>> /\ Head(todo) # "NetWork"
        /\ Head(todo) \in Senders => holds[Head(todo)] = NoSession
        /\ up' = up \ {Head(todo)} /\ todo' = Tail(todo)
        /\ UNCHANGED <<alive, accepting, pending, holds, pc, phase, main>> /\ UNCHANGED histories
    BY DEF StopManager, vars
  <1>2. ServerInv'
    BY NextServer, <1>1 DEF vars
  <1>3. StopInv'
    BY <1>1, StopOrderStep DEF Down
  <1>4. PICK n \in 1..13 : Head(todo) = StopOrder[14 - n] /\ \A j \in 1..13 : StopOrder[j] \in up <=> j > 13 - n
    BY <1>1, StopOrderStep DEF Down
  <1>5. NetInv'
    BY <1>1 DEF NetInv
  <1>6. ASSUME NEW t \in IoThreads, pc[t] = "run", holds[t] # NoSession PROVE HandlerUses \subseteq up'
    <2>1. phase \notin {"gone", "crashed"}
      BY <1>6 DEF ServerInv, LeftInv
    <2>2. "NetWork" \in up
      BY <1>1, <2>1 DEF NetInv
    <2>3. n >= 12 /\ 14 - n # 2
      BY <1>1, <1>4, <2>2, Orders
    <2>4. \A m \in HandlerUses : m # Head(todo)
      BY <1>1, <1>4, <2>3, Orders, StopInjective
    <2> QED
      BY <1>1, <1>6, <2>4 DEF UpWhileUsed
  <1>7. ASSUME NEW x \in Senders, holds[x] # NoSession
        PROVE  \/ {x} \cup SenderUses \subseteq up'
               \/ {x} \cup (SenderUses \ {"NetWork"}) \subseteq up' /\ holds[x] \in orphans
    <2>1. x \in up
      BY <1>7 DEF UpWhileUsed
    <2>2. PICK i \in 3..8 : StopOrder[i] = x
      BY Orders
    <2>3. 14 - n <= 8
      BY <1>4, <2>1, <2>2
    <2>4. Head(todo) # "User" /\ Head(todo) # "Log"
      BY <1>4, <2>3, Orders, StopInjective
    <2>5. Head(todo) # x
      BY <1>1, <1>7
    <2> QED
      BY <1>1, <1>7, <2>4, <2>5 DEF UpWhileUsed, SenderUses
  <1> QED
    BY <1>1, <1>2, <1>3, <1>5, <1>6, <1>7 DEF UpWhileUsed, StartInv, WaitInv, histories

\* The network goes down once the server is gone.
LEMMA StopNetWorkStep ==
  ASSUME SystemInv, StopNetWork
  PROVE  SystemInv'
  <1> USE DEF SystemInv
  <1>1. /\ main = "stop" /\ main' = "stop" /\ todo # <<>> /\ Head(todo) = "NetWork"
        /\ holds' = holds /\ pc' = pc
    BY DEF StopNetWork, Stop, Join, Destroy, mainVars
  <1>2. ServerInv'
    BY StopStep DEF StopNetWork
  <1>3. CASE (Stop \/ Join) /\ UNCHANGED mainVars
    <2>1. UNCHANGED <<main, todo, up>>
      BY <1>3 DEF mainVars
    <2>2. "NetWork" \in up
      BY <1>1, <1>3 DEF NetInv, Stop, Join
    <2>3. UNCHANGED orphans /\ phase' # "crashed"
      BY <1>3 DEF Stop, Join, histories
    <2> QED
      BY <1>1, <1>2, <2>1, <2>2, <2>3 DEF StartInv, StopInv, WaitInv, NetInv, UpWhileUsed, Rest
  <1>4. CASE Destroy /\ up' = up \ {"NetWork"} /\ todo' = Tail(todo)
    <2>1. StopInv'
      BY <1>1, <1>4, StopOrderStep DEF Down
    <2>2. NetInv'
      BY <1>1, <1>4 DEF NetInv, Destroy
    <2>3. ASSUME NEW x \in Senders, holds'[x] # NoSession
          PROVE  {x} \cup (SenderUses \ {"NetWork"}) \subseteq up' /\ holds'[x] \in orphans'
      <3>1. holds'[x] \in alive' /\ orphans' = alive'
        BY <1>2, <1>4, <2>3 DEF ServerInv, Alive, Destroy
      <3>2. {x} \cup (SenderUses \ {"NetWork"}) \subseteq up
        BY <1>1, <2>3 DEF UpWhileUsed
      <3>3. x # "NetWork"
        BY SystemAssumption
      <3> QED
        BY <1>1, <1>4, <3>1, <3>2, <3>3
    <2>4. \A t \in IoThreads : pc'[t] # "run"
      BY <1>1, <1>4 DEF Destroy, ServerInv, LeftInv
    <2>5. UpWhileUsed'
      BY <1>4, <2>3, <2>4 DEF UpWhileUsed, Destroy
    <2> QED
      BY <1>1, <1>2, <2>1, <2>2, <2>5 DEF StartInv, WaitInv
  <1> QED
    BY <1>3, <1>4 DEF StopNetWork

LEMMA AllUp ==
  ASSUME \A j \in 1..13 : StartOrder[j] \in up
  PROVE  HandlerUses \subseteq up
  <1>1. \A i \in 1..13 : StopOrder[i] \in up
    BY Orders
  <1> QED
    BY <1>1, Orders

\* What is up while the process runs and its network is.
LEMMA NetWorkUp ==
  ASSUME SystemInv, main # "killed", "NetWork" \in up
  PROVE  HandlerUses \cup SenderUses \subseteq up
  <1> USE DEF SystemInv
  <1>1. CASE main = "start"
    <2>1. \A j \in 1..13 : StartOrder[j] \in up
      <3>1. \A j \in 1..13 : StartOrder[j] \in up <=> j <= 13 - Len(todo)
        BY <1>1 DEF StartInv
      <3>2. PICK n \in Nat : n = Len(todo)
        BY <1>1, LenProperties DEF StartInv, Rest
      <3>3. \A j \in 1..13 : StartOrder[j] \in up <=> j <= 13 - n
        BY <3>1, <3>2
      <3>4. n = 0
        BY <3>3, Orders
      <3> QED
        BY <3>3, <3>4
    <2> QED
      BY <2>1, AllUp DEF SenderUses, HandlerUses
  <1>2. CASE main = "wait"
    BY <1>2, AllUp DEF WaitInv, SenderUses, HandlerUses
  <1>3. CASE main \in {"stop", "exited"}
    <2>1. \A j \in 1..13 : StopOrder[j] \in up <=> j > 13 - Len(todo)
      BY <1>3 DEF StopInv
    <2>2. 2 > 13 - Len(todo)
      BY <2>1, Orders
    <2>3. \A j \in 3..13 : StopOrder[j] \in up
      BY <2>1, <2>2
    <2>4. HandlerUses \subseteq up
      BY <2>3, Orders
    <2> QED
      BY <2>4 DEF SenderUses, HandlerUses
  <1> QED
    BY <1>1, <1>2, <1>3

LEMMA ServeStep ==
  ASSUME SystemInv, Serve(IoNext)
  PROVE  SystemInv'
  <1> USE DEF SystemInv
  <1>1. main # "killed" /\ "NetWork" \in up /\ UNCHANGED <<main, todo, up>> /\ IoNext
    BY DEF Serve, mainVars
  <1>2. ServerInv'
    BY <1>1, NextServer DEF Next
  <1>3. /\ orphans' = orphans /\ (phase' = "crashed" => phase = "crashed")
        /\ \A x \in Senders : holds'[x] = holds[x]
    BY <1>1, ServerAssumption
    DEF IoNext, HandleAccept, StartAccept, RunHandler, Return, Drain, Leave, histories, ServerInv, Alive, TypeOK
  <1>4. HandlerUses \subseteq up
    BY <1>1, NetWorkUp
  <1>5. StartInv' /\ StopInv' /\ WaitInv' /\ NetInv'
    BY <1>1 DEF StartInv, StopInv, WaitInv, NetInv, Rest
  <1>6. UpWhileUsed'
    BY <1>1, <1>3, <1>4 DEF UpWhileUsed
  <1> QED
    BY <1>1, <1>2, <1>5, <1>6

\* A sender that takes a session is up, and what it needs goes down later.
LEMMA SendFromStep ==
  ASSUME SystemInv, NEW x \in Senders, SendFrom(x)
  PROVE  SystemInv'
  <1> USE DEF SystemInv
  <1>1. main # "killed" /\ x \in up /\ UNCHANGED <<todo, up>>
    BY DEF SendFrom
  <1>2. Post(x) \/ \E s \in Sessions : Lock(x, s)
    BY DEF SendFrom
  <1>3. ServerInv'
    BY <1>2, NextServer DEF Next
  <1>4. /\ pc' = pc /\ \A t \in IoThreads \cup Senders : t # x => holds'[t] = holds[t]
        /\ orphans' = orphans /\ (phase' # phase => phase = "gone" /\ phase' = "crashed" /\ main' = "killed")
        /\ main' # main => main' = "killed"
    BY <1>2 DEF SendFrom, Post, Lock, histories, ServerInv, Alive, TypeOK
  <1>5. ~(main = "start" /\ "NetWork" \notin up)
    BY <1>2, ServerAssumption DEF NetInv, Post, Lock
  <1>6. StartInv' /\ StopInv' /\ WaitInv' /\ NetInv'
    BY <1>1, <1>4, <1>5 DEF StartInv, StopInv, WaitInv, NetInv, Rest
  <1>7. SenderUses \ {"NetWork"} \subseteq up
    <2>1. CASE main \in {"start", "wait"}
      BY <1>1, <1>5, <2>1, NetWorkUp, Orders DEF WaitInv
    <2>2. CASE main \in {"stop", "exited"}
      <3>1. \A j \in 1..13 : StopOrder[j] \in up <=> j > 13 - Len(todo)
        BY <2>2 DEF StopInv
      <3>2. PICK i \in 3..8 : StopOrder[i] = x
        BY Orders
      <3>3. i > 13 - Len(todo)
        BY <1>1, <3>1, <3>2
      <3>4. \A j \in 9..13 : StopOrder[j] \in up
        BY <3>1, <3>3
      <3> QED
        BY <3>4, Orders DEF SenderUses
    <2> QED
      BY <1>1, <2>1, <2>2
  <1>8. ASSUME "NetWork" \notin up, holds'[x] # NoSession PROVE holds'[x] \in orphans
    <2>1. PICK s \in Sessions : Lock(x, s)
      BY <1>2, <1>8 DEF Post, ServerInv, Alive, TypeOK
    <2>2. main \in {"start", "wait", "stop", "exited"} /\ (main = "wait" => "NetWork" \in up)
      BY <1>1, Orders DEF WaitInv
    <2>3. main # "exited"
      <3> SUFFICES ASSUME main = "exited" PROVE FALSE
        OBVIOUS
      <3>1. \A j \in 1..13 : StopOrder[j] \notin up
        BY DEF StopInv
      <3> QED
        BY <1>1, <3>1, Orders
    <2>4. phase = "gone"
      BY <1>5, <1>8, <2>2, <2>3 DEF NetInv
    <2> QED
      BY <2>1, <2>4 DEF Lock, ServerInv, OrphanInv, Alive, TypeOK
  <1>9. phase' = "crashed" => orphans' # {}
    BY <1>3 DEF ServerInv, OrphanInv
  <1>10. UpWhileUsed'
    BY <1>1, <1>4, <1>7, <1>8, <1>9, ServerAssumption DEF UpWhileUsed
  <1> QED
    BY <1>1, <1>3, <1>4, <1>6, <1>10

LEMMA SystemNextInv == SystemInv /\ [SystemNext]_systemVars => SystemInv'
  <1> SUFFICES ASSUME SystemInv, [SystemNext]_systemVars PROVE SystemInv'
    OBVIOUS
  <1>1. CASE SystemNext
    BY <1>1, StartStep, PhaseStep, StopManagerStep, StopNetWorkStep, ServeStep, SendFromStep DEF SystemNext
  <1>2. CASE UNCHANGED systemVars
    <2>1. UNCHANGED <<main, todo, up>> /\ UNCHANGED vars
      BY <1>2 DEF systemVars, mainVars
    <2>2. ServerInv'
      BY <2>1, NextServer DEF SystemInv
    <2> QED
      BY <2>1, <2>2 DEF SystemInv, StartInv, StopInv, WaitInv, NetInv, UpWhileUsed, Rest, vars, histories
  <1> QED
    BY <1>1, <1>2

\* While a handler of a session runs, the managers it calls are started and not
\* stopped, and while a thread sends, its own manager and those it needs are,
\* but for the network: that one may be gone while a thread sends through a
\* session it had locked before, or another such thread had, and only so can the
\* process crash as it stops.
THEOREM ManagersOutliveUse == SystemSpec => []UpWhileUsed
  BY SystemInitInv, SystemNextInv, PTL DEF SystemSpec, SystemInv

-----------------------------------------------------------------------------
\* Locking.

\* A set of numbers has a least element.
LEMMA Least ==
  ASSUME NEW T, T \subseteq Nat, T # {}
  PROVE  \E m \in T : \A k \in T : m <= k
  <1>1. PICK m \in T : \A k \in T : ~(<<k, m>> \in OpToRel(<, Nat))
    BY NatLessThanWellFounded, WFMin
  <1>2. \A k \in T : k < m => <<k, m>> \in OpToRel(<, Nat)
    BY DEF OpToRel
  <1>3. \A k \in T : ~(k < m)
    BY <1>1, <1>2, Zenon
  <1> QED
    BY <1>3

Locks ==
  {UsersLock, RoomsLock} \cup {RoomLock(r) : r \in Rooms} \cup {UserLock(u) : u \in Users}
Accesses == [lock : Locks, mode : {"shared", "exclusive", "unlock"}]

\* The order in which locks are taken.
Rank(lock) ==
  IF lock = UsersLock THEN 1 ELSE IF lock = RoomsLock THEN 2 ELSE IF lock[1] = "room" THEN 3 ELSE 4

\* p takes locks above the rank k only, each above those it has, and releases
\* all it takes.
Ordered(p, k) ==
  /\ p \in Seq(Accesses)
  /\ \A i \in 1..Len(p) : Rank(p[i].lock) > k
  /\ \A n \in 1..Len(p) : p[n].mode # "unlock" =>
       \A i \in Unreleased(p, n - 1) : Rank(p[i].lock) < Rank(p[n].lock)
  /\ Unreleased(p, Len(p)) = {}

AllOrdered(op, k) == \A p \in op : Ordered(p, k)

\* Where a thread is in its section.
At(t, p, n) ==
  /\ ahead[t] = SubSeq(p, n + 1, Len(p))
  /\ held[t] = {<<p[i].lock, p[i].mode>> : i \in Unreleased(p, n)}

Running(t) == \E p \in Sections \cup Nothing : \E n \in 0..Len(p) : At(t, p, n)

LockingInv ==
  /\ ahead = [t \in Threads |-> ahead[t]]
  /\ held = [t \in Threads |-> held[t]]
  /\ \A t \in Threads : Running(t)

-----------------------------------------------------------------------------
\* What programs are made of keeps the order.

\* The rank of each lock.
LEMMA Ranks ==
  /\ UsersLock \in Locks /\ Rank(UsersLock) = 1
  /\ RoomsLock \in Locks /\ Rank(RoomsLock) = 2
  /\ \A r \in Rooms : RoomLock(r) \in Locks /\ Rank(RoomLock(r)) = 3
  /\ \A u \in Users : UserLock(u) \in Locks /\ Rank(UserLock(u)) = 4
  /\ \A lock \in Locks : Rank(lock) \in 1..4
  BY DEF Locks, Rank, UsersLock, RoomsLock, RoomLock, UserLock

\* The rank of what a program takes.
LEMMA Ranked ==
  ASSUME NEW p \in Seq(Accesses), NEW i \in 1..Len(p)
  PROVE  p[i].lock \in Locks /\ Rank(p[i].lock) \in 1..4
  <1>1. p[i] \in Accesses
    OBVIOUS
  <1>2. p[i].lock \in Locks
    BY <1>1 DEF Accesses
  <1> QED
    BY <1>2, Ranks

\* The empty program.
LEMMA NothingOrdered ==
  ASSUME NEW k \in 0..4
  PROVE  AllOrdered(Nothing, k)
  BY DEF AllOrdered, Nothing, Ordered, Unreleased

\* One program after the other.
LEMMA Joined ==
  ASSUME NEW k \in 0..4, NEW a, NEW b, Ordered(a, k), Ordered(b, k)
  PROVE  Ordered(a \o b, k)
  <1> DEFINE c == a \o b
  <1>1. a \in Seq(Accesses) /\ b \in Seq(Accesses) /\ c \in Seq(Accesses)
        /\ Len(c) = Len(a) + Len(b) /\ Len(a) \in Nat /\ Len(b) \in Nat
    BY DEF Ordered
  <1>2. \A i \in 1..Len(a) : c[i] = a[i]
    BY <1>1
  <1>3. \A i \in 1..Len(b) : c[Len(a) + i] = b[i]
    BY <1>1
  <1> HIDE DEF c
  <1>4. \A n \in 0..Len(a) : Unreleased(c, n) = Unreleased(a, n)
    <2> SUFFICES ASSUME NEW n \in 0..Len(a) PROVE Unreleased(c, n) = Unreleased(a, n)
      OBVIOUS
    <2>1. \A i \in 1..n : c[i] = a[i]
      BY <1>1, <1>2
    <2>2. \A i \in 1..n : \A j \in (i + 1)..n : j \in 1..n
      BY <1>1
    <2>3. \A i \in 1..n : i \in Unreleased(c, n) <=> i \in Unreleased(a, n)
      BY <2>1, <2>2 DEF Unreleased
    <2>4. Unreleased(c, n) \subseteq 1..n /\ Unreleased(a, n) \subseteq 1..n
      BY DEF Unreleased
    <2> QED
      BY <2>3, <2>4
  <1>5. ASSUME NEW n \in 0..Len(b), NEW i \in Unreleased(c, Len(a) + n)
        PROVE  i - Len(a) \in Unreleased(b, n) /\ i \in (Len(a) + 1)..(Len(a) + n)
    <2>1. CASE i \in 1..Len(a)
      <3>1. a[i].mode # "unlock"
        BY <1>2, <1>5, <2>1 DEF Unreleased
      <3>2. \A j \in (i + 1)..Len(a) : j \in 1..Len(a) /\ j \in (i + 1)..(Len(a) + n)
        BY <1>1, <2>1
      <3>3. \A j \in (i + 1)..Len(a) : a[j].mode = "unlock" => a[j].lock # a[i].lock
        BY <1>2, <1>5, <2>1, <3>2 DEF Unreleased
      <3>4. i \in Unreleased(a, Len(a))
        BY <2>1, <3>1, <3>3 DEF Unreleased
      <3> QED
        BY <3>4 DEF Ordered
    <2>2. CASE i \notin 1..Len(a)
      <3>1. i \in (Len(a) + 1)..(Len(a) + n) /\ i - Len(a) \in 1..n /\ 1..n \subseteq 1..Len(b)
        BY <1>1, <1>5, <2>2 DEF Unreleased
      <3>2. c[i] = b[i - Len(a)]
        <4>1. i = Len(a) + (i - Len(a)) /\ i - Len(a) \in 1..Len(b)
          BY <1>1, <3>1
        <4> QED
          BY <1>3, <4>1
      <3>3. b[i - Len(a)].mode # "unlock"
        BY <1>5, <3>2 DEF Unreleased
      <3>4. ASSUME NEW j \in ((i - Len(a)) + 1)..n, b[j].mode = "unlock"
            PROVE  b[j].lock # b[i - Len(a)].lock
        <4>1. Len(a) + j \in (i + 1)..(Len(a) + n) /\ j \in 1..Len(b)
          <5>1. /\ Len(a) \in Nat /\ Len(b) \in Nat /\ n \in Nat /\ n <= Len(b) /\ i \in Nat
                /\ i >= Len(a) + 1 /\ j \in Int /\ j >= (i - Len(a)) + 1 /\ j <= n
            BY <1>1, <3>1, <3>4
          <5> QED
            BY <5>1
        <4>2. c[Len(a) + j] = b[j]
          BY <1>3, <4>1
        <4> QED
          BY <1>5, <3>2, <3>4, <4>1, <4>2 DEF Unreleased
      <3> QED
        BY <3>1, <3>3, <3>4 DEF Unreleased
    <2> QED
      BY <2>1, <2>2
  <1>6. ASSUME NEW i \in 1..Len(c) PROVE Rank(c[i].lock) > k
    <2>1. CASE i \in 1..Len(a)
      BY <1>2, <2>1 DEF Ordered
    <2>2. CASE i \notin 1..Len(a)
      <3>1. i - Len(a) \in 1..Len(b) /\ i = Len(a) + (i - Len(a))
        BY <1>1, <1>6, <2>2
      <3> QED
        BY <1>3, <3>1 DEF Ordered
    <2> QED
      BY <2>1, <2>2
  <1>7. ASSUME NEW n \in 1..Len(c), c[n].mode # "unlock", NEW i \in Unreleased(c, n - 1)
        PROVE  Rank(c[i].lock) < Rank(c[n].lock)
    <2>1. CASE n \in 1..Len(a)
      <3>1. n - 1 \in 0..Len(a)
        BY <1>1, <2>1
      <3>2. i \in Unreleased(a, n - 1)
        BY <1>4, <1>7, <3>1
      <3>3. i \in 1..Len(a)
        BY <1>1, <3>1, <3>2 DEF Unreleased
      <3> QED
        BY <1>2, <1>7, <2>1, <3>2, <3>3 DEF Ordered
    <2>2. CASE n \notin 1..Len(a)
      <3> DEFINE m == n - Len(a)
      <3>1. m \in 1..Len(b) /\ n = Len(a) + m /\ m - 1 \in 0..Len(b) /\ n - 1 = Len(a) + (m - 1)
        BY <1>1, <1>7, <2>2
      <3>2. i - Len(a) \in Unreleased(b, m - 1) /\ i \in (Len(a) + 1)..(Len(a) + (m - 1))
        BY <1>5, <1>7, <3>1
      <3>3. i - Len(a) \in 1..Len(b) /\ i = Len(a) + (i - Len(a))
        BY <1>1, <3>1, <3>2
      <3>4. c[i] = b[i - Len(a)] /\ c[n] = b[m]
        BY <1>3, <3>1, <3>3
      <3> QED
        BY <1>7, <3>1, <3>2, <3>4 DEF Ordered
    <2> QED
      BY <2>1, <2>2
  <1>8. Unreleased(c, Len(c)) = {}
    <2> SUFFICES ASSUME NEW i \in Unreleased(c, Len(a) + Len(b)) PROVE FALSE
      BY <1>1
    <2>1. i - Len(a) \in Unreleased(b, Len(b))
      BY <1>1, <1>5
    <2> QED
      BY <2>1 DEF Ordered
  <1> QED
    BY <1>1, <1>6, <1>7, <1>8 DEF Ordered, c

\* Any of some programs after any of others.
LEMMA SequelOrdered ==
  ASSUME NEW k \in 0..4, NEW p, NEW q, AllOrdered(p, k), AllOrdered(q, k)
  PROVE  AllOrdered(p ++ q, k)
  <1> SUFFICES ASSUME NEW c \in p ++ q PROVE Ordered(c, k)
    BY DEF AllOrdered
  <1>1. PICK a \in p, b \in q : c = a \o b
    BY DEF ++
  <1>2. Ordered(a, k) /\ Ordered(b, k)
    BY DEF AllOrdered
  <1> QED
    BY <1>1, <1>2, Joined

\* A program with a lock around it.
LEMMA Locked ==
  ASSUME NEW lock \in Locks, NEW k \in 0..4, k < Rank(lock),
         NEW mode \in {"shared", "exclusive"}, NEW p, Ordered(p, Rank(lock)),
         NEW q, q = (<<[lock |-> lock, mode |-> mode]>> \o p) \o <<[lock |-> lock, mode |-> "unlock"]>>
  PROVE  Ordered(q, k)
  <1> DEFINE L == Len(p)
  <1>0. \A m \in {"shared", "exclusive", "unlock"} : [lock |-> lock, mode |-> m] \in Accesses
    BY DEF Accesses
  <1>1. p \in Seq(Accesses) /\ L \in Nat /\ Rank(lock) \in 1..4
    BY Ranks DEF Ordered
  <1>2. q \in Seq(Accesses) /\ Len(q) = L + 2
    BY <1>0, <1>1
  <1>3. q[1] = [lock |-> lock, mode |-> mode] /\ q[L + 2] = [lock |-> lock, mode |-> "unlock"]
    BY <1>1
  <1>4. \A i \in 1..L : q[i + 1] = p[i]
    BY <1>1
  <1>5. \A i \in 1..L : Rank(p[i].lock) > Rank(lock) /\ Rank(p[i].lock) \in 1..4
    BY <1>1, Ranked DEF Ordered
  <1> HIDE DEF L
  <1>6. ASSUME NEW i \in 1..(L + 2) PROVE i = 1 \/ i = L + 2 \/ (i - 1 \in 1..L /\ q[i] = p[i - 1])
    <2>1. CASE i # 1 /\ i # L + 2
      <3>1. i - 1 \in 1..L /\ i = (i - 1) + 1
        BY <1>1, <1>6, <2>1
      <3> QED
        BY <1>4, <3>1
    <2> QED
      BY <2>1
  <1>7. ASSUME NEW i \in 1..Len(q) PROVE Rank(q[i].lock) > k
    <2>1. Rank(lock) > k
      BY <1>1
    <2>2. CASE i = 1 \/ i = L + 2
      BY <1>3, <2>1, <2>2
    <2>3. CASE i - 1 \in 1..L /\ q[i] = p[i - 1]
      <3>1. Rank(p[i - 1].lock) > Rank(lock) /\ Rank(p[i - 1].lock) \in 1..4
        BY <1>5, <2>3
      <3> QED
        BY <1>1, <2>1, <2>3, <3>1
    <2> QED
      BY <1>2, <1>6, <2>2, <2>3
  \* Inside, what is not released is the lock and what p has not released.
  <1>8. ASSUME NEW n \in 0..L, NEW i \in Unreleased(q, n + 1), i # 1
        PROVE  i - 1 \in Unreleased(p, n) /\ q[i] = p[i - 1] /\ i - 1 \in 1..L
    <2>1. i \in 1..(L + 2) /\ i \in 1..(n + 1) /\ i # L + 2 /\ q[i].mode # "unlock"
      <3>1. i \in 1..(n + 1) /\ q[i].mode # "unlock"
        BY <1>8 DEF Unreleased
      <3>2. i \in 1..(L + 2) /\ i # L + 2
        BY <1>1, <3>1
      <3> QED
        BY <3>1, <3>2
    <2>2. i - 1 \in 1..L /\ q[i] = p[i - 1] /\ i - 1 \in 1..n
      <3>1. i - 1 \in 1..L /\ q[i] = p[i - 1]
        BY <1>6, <1>8, <2>1
      <3> QED
        <4>1. i - 1 \in 1..n
          BY <1>1, <1>8, <2>1
        <4> QED
          BY <3>1, <4>1
    <2>3. ASSUME NEW j \in ((i - 1) + 1)..n, p[j].mode = "unlock" PROVE p[j].lock # p[i - 1].lock
      <3>1. j \in 1..L /\ j + 1 \in (i + 1)..(n + 1)
        <4>1. n \in Nat /\ L \in Nat /\ n <= L /\ i \in Nat /\ i >= 1 /\ j \in Int /\ j >= i /\ j <= n
          BY <1>1, <2>1, <2>3
        <4> QED
          BY <4>1
      <3>2. q[j + 1] = p[j]
        BY <1>4, <3>1
      <3> QED
        BY <1>8, <2>2, <2>3, <3>1, <3>2 DEF Unreleased
    <2> QED
      BY <2>1, <2>2, <2>3 DEF Unreleased
  <1>9. ASSUME NEW n \in 1..Len(q), q[n].mode # "unlock", NEW i \in Unreleased(q, n - 1)
        PROVE  Rank(q[i].lock) < Rank(q[n].lock)
    <2>1. n # 1
      BY DEF Unreleased
    <2>2. n - 1 \in 1..L /\ q[n] = p[n - 1]
      BY <1>2, <1>3, <1>6, <1>9, <2>1
    <2>3. CASE i = 1
      BY <1>1, <1>3, <1>5, <2>2, <2>3
    <2>4. CASE i # 1
      <3> DEFINE m == n - 2
      <3>1. m \in 0..L /\ n - 1 = m + 1 /\ (n - 1) - 1 = m
        BY <1>1, <2>2
      <3>2. i - 1 \in Unreleased(p, m) /\ q[i] = p[i - 1]
        BY <1>8, <1>9, <2>4, <3>1
      <3> QED
        BY <1>9, <2>2, <3>1, <3>2 DEF Ordered, L
    <2> QED
      BY <2>3, <2>4
  <1>10. ASSUME NEW i \in Unreleased(q, Len(q)) PROVE FALSE
    <2>1. i \in 1..(L + 2) /\ q[i].mode # "unlock" /\ i # L + 2 /\ L + 2 \in (i + 1)..(L + 2)
      BY <1>1, <1>2, <1>3, <1>10 DEF Unreleased
    <2>2. q[i].lock # lock
      BY <1>2, <1>3, <1>10, <2>1 DEF Unreleased
    <2>3. i # 1
      BY <1>3, <2>2
    <2>4. i \in Unreleased(q, L + 1)
      BY <1>1, <1>2, <1>10, <2>1 DEF Unreleased
    <2>5. i - 1 \in Unreleased(p, L)
      BY <1>1, <1>8, <2>3, <2>4
    <2> QED
      BY <2>5 DEF Ordered, L
  <1> QED
    BY <1>2, <1>7, <1>9, <1>10 DEF Ordered

\* An operation with a lock around it.
LEMMA LockOrdered ==
  ASSUME NEW lock \in Locks, NEW k \in 0..4, k < Rank(lock), NEW op, AllOrdered(op, Rank(lock))
  PROVE  AllOrdered(ReadLock(lock, op), k) /\ AllOrdered(WriteLock(lock, op), k)
  <1>1. ASSUME NEW mode \in {"shared", "exclusive"} PROVE AllOrdered(Guarded(lock, mode, op), k)
    <2> SUFFICES ASSUME NEW q \in Guarded(lock, mode, op) PROVE Ordered(q, k)
      BY DEF AllOrdered
    <2>1. PICK a \in {<<[lock |-> lock, mode |-> mode]>>} ++ op, b \in {<<[lock |-> lock, mode |-> "unlock"]>>} :
            q = a \o b
      <3> DEFINE h == {<<[lock |-> lock, mode |-> mode]>>} ++ op
                 e == {<<[lock |-> lock, mode |-> "unlock"]>>}
      <3>1. q \in h ++ e
        BY DEF Guarded
      <3> HIDE DEF h, e
      <3>2. PICK a \in h, b \in e : q = a \o b
        BY <3>1 DEF ++
      <3> QED
        BY <3>2 DEF h, e
    <2>2. PICK p \in op : a = <<[lock |-> lock, mode |-> mode]>> \o p
      BY DEF ++
    <2>3. Ordered(p, Rank(lock))
      BY DEF AllOrdered
    <2> QED
      BY <2>1, <2>2, <2>3, Locked
  <1> QED
    BY <1>1 DEF ReadLock, WriteLock

\* An operation that may be skipped.
LEMMA MaybeOrdered ==
  ASSUME NEW k \in 0..4, NEW op, AllOrdered(op, k)
  PROVE  AllOrdered(Maybe(op), k)
  BY NothingOrdered DEF AllOrdered, Maybe

Some(set) == CHOOSE x \in set : TRUE

\* done is what the loop over the elements of each set comes to.
Loop(op, done) ==
  done = [set \in SUBSET DOMAIN op |->
            IF set = {} THEN Nothing ELSE done[set \ {Some(set)}] ++ op[Some(set)]]

\* A set without its chosen element is smaller.
LEMMA OneLess ==
  ASSUME NEW S, IsFiniteSet(S), NEW set \in SUBSET S, set # {}
  PROVE  /\ Some(set) \in set /\ set \ {Some(set)} \in SUBSET S
         /\ Cardinality(set) \in Nat \ {0} /\ Cardinality(set) <= Cardinality(S)
         /\ Cardinality(set \ {Some(set)}) = Cardinality(set) - 1
  <1>1. Some(set) \in set
    BY DEF Some
  <1>2. IsFiniteSet(set) /\ Cardinality(set) <= Cardinality(S)
    BY FS_Subset
  <1>3. Cardinality(set) \in Nat /\ Cardinality(set) # 0
    BY <1>2, FS_CardinalityType, FS_EmptySet
  <1>4. Cardinality(set \ {Some(set)}) = Cardinality(set) - 1
    BY <1>1, <1>2, FS_RemoveElement
  <1> QED
    BY <1>1, <1>2, <1>3, <1>4

\* What a loop comes to exists: up to every size of set, and so for them all.
LEMMA LoopExists ==
  ASSUME NEW op, IsFiniteSet(DOMAIN op)
  PROVE  \E done : Loop(op, done)
  <1> DEFINE S == DOMAIN op
             N == Cardinality(S)
             Turn(f, set) == IF set = {} THEN Nothing ELSE f[set \ {Some(set)}] ++ op[Some(set)]
             Good(m) == \E f : /\ f = [set \in SUBSET S |-> f[set]]
                               /\ \A set \in SUBSET S : Cardinality(set) <= m => f[set] = Turn(f, set)
  <1>0. IsFiniteSet(S) /\ N \in Nat
    BY FS_CardinalityType
  <1> HIDE DEF S, N
  <1>1. Good(0)
    <2>1. PICK f : f = [set \in SUBSET S |-> Nothing]
      OBVIOUS
    <2>2. ASSUME NEW set \in SUBSET S, Cardinality(set) <= 0 PROVE f[set] = Turn(f, set)
      <3>1. set = {}
        <4> SUFFICES ASSUME set # {} PROVE FALSE
          OBVIOUS
        <4>1. Cardinality(set) \in Nat \ {0}
          BY <1>0, OneLess
        <4> QED
          BY <2>2, <4>1
      <3> QED
        BY <2>1, <3>1
    <2>3. f = [set \in SUBSET S |-> f[set]]
      BY <2>1
    <2> QED
      BY <2>2, <2>3
  <1>2. ASSUME NEW m \in Nat, Good(m) PROVE Good(m + 1)
    <2>1. PICK f : /\ f = [set \in SUBSET S |-> f[set]]
                   /\ \A set \in SUBSET S : Cardinality(set) <= m => f[set] = Turn(f, set)
      BY <1>2
    <2>2. PICK g : g = [set \in SUBSET S |-> Turn(f, set)]
      OBVIOUS
    <2> HIDE DEF Turn
    <2>3. \A set \in SUBSET S : Cardinality(set) <= m => g[set] = f[set]
      BY <2>1, <2>2
    <2>4. ASSUME NEW set \in SUBSET S, Cardinality(set) <= m + 1 PROVE g[set] = Turn(g, set)
      <3>1. CASE set = {}
        BY <2>2, <3>1 DEF Turn
      <3>2. CASE set # {}
        <4>1. set \ {Some(set)} \in SUBSET S /\ Cardinality(set \ {Some(set)}) <= m
          BY <1>0, <2>4, <3>2, OneLess
        <4>2. g[set \ {Some(set)}] = f[set \ {Some(set)}]
          BY <2>3, <4>1
        <4> QED
          BY <2>2, <3>2, <4>2 DEF Turn
      <3> QED
        BY <3>1, <3>2
    <2>5. g = [set \in SUBSET S |-> g[set]]
      BY <2>2
    <2> QED
      BY <2>4, <2>5
  <1>3. Good(N)
    <2> HIDE DEF Good
    <2> SUFFICES ASSUME ~Good(N) PROVE FALSE
      OBVIOUS
    <2>1. PICK T : T = {m \in Nat : ~Good(m)}
      OBVIOUS
    <2>2. T \subseteq Nat /\ N \in T
      BY <1>0, <2>1
    <2>3. PICK b \in T : \A k \in T : b <= k
      BY <2>2, Least
    <2>4. b \in Nat /\ ~Good(b) /\ b # 0
      BY <1>1, <2>1, <2>3
    <2>5. b - 1 \in Nat /\ (b - 1) + 1 = b /\ ~(b <= b - 1)
      BY <2>4
    <2>6. Good(b - 1)
      BY <2>1, <2>3, <2>5
    <2> QED
      BY <1>2, <2>4, <2>5, <2>6
  <1>4. PICK f : /\ f = [set \in SUBSET S |-> f[set]]
                 /\ \A set \in SUBSET S : Cardinality(set) <= N => f[set] = Turn(f, set)
    BY <1>3
  <1>5. \A set \in SUBSET S : Cardinality(set) <= N
    BY <1>0, FS_Subset DEF N
  <1>6. \A set \in SUBSET S : f[set] = Turn(f, set)
    BY <1>4, <1>5
  <1> HIDE DEF Turn
  <1>7. f = [set \in SUBSET S |-> Turn(f, set)]
    BY <1>4, <1>6
  <1> QED
    BY <1>7 DEF Turn, S, Loop

\* Each is defined by its recursion.
LEMMA EachUnfold ==
  ASSUME NEW op, IsFiniteSet(DOMAIN op)
  PROVE  \E done : Loop(op, done) /\ Each(op) = done[DOMAIN op]
  <1>1. PICK g : g = CHOOSE done : done = [set \in SUBSET DOMAIN op |->
                   IF set = {} THEN Nothing
                   ELSE done[set \ {CHOOSE x \in set : TRUE}] ++ op[CHOOSE x \in set : TRUE]]
    OBVIOUS
  <1>2. \E done : done = [set \in SUBSET DOMAIN op |->
                   IF set = {} THEN Nothing
                   ELSE done[set \ {CHOOSE x \in set : TRUE}] ++ op[CHOOSE x \in set : TRUE]]
    BY LoopExists DEF Loop, Some
  <1>3. Loop(op, g)
    BY <1>1, <1>2, Zenon DEF Loop, Some
  <1>4. Each(op) = g[DOMAIN op]
    BY <1>1 DEF Each
  <1> QED
    BY <1>3, <1>4

\* A loop keeps the order if its body does.
LEMMA EachOrdered ==
  ASSUME NEW k \in 0..4, NEW op, IsFiniteSet(DOMAIN op), \A x \in DOMAIN op : AllOrdered(op[x], k)
  PROVE  AllOrdered(Each(op), k)
  <1> DEFINE S == DOMAIN op
  <1>1. PICK done : Loop(op, done) /\ Each(op) = done[S]
    BY EachUnfold
  <1>2. \A set \in SUBSET S :
          done[set] = IF set = {} THEN Nothing ELSE done[set \ {Some(set)}] ++ op[Some(set)]
    BY <1>1 DEF Loop
  <1>3. ASSUME NEW set \in SUBSET S, set # {}, AllOrdered(done[set \ {Some(set)}], k)
        PROVE  AllOrdered(done[set], k)
    <2>1. Some(set) \in S
      BY <1>3 DEF Some
    <2>2. done[set] = done[set \ {Some(set)}] ++ op[Some(set)]
      BY <1>2, <1>3
    <2> QED
      BY <1>3, <2>1, <2>2, SequelOrdered
  <1>4. AllOrdered(done[{}], k)
    BY <1>2, NothingOrdered
  <1> HIDE DEF S
  <1>5. \A set \in SUBSET S : AllOrdered(done[set], k)
    <2> SUFFICES ASSUME NEW set \in SUBSET S, ~AllOrdered(done[set], k) PROVE FALSE
      OBVIOUS
    <2>1. PICK T : T = {Cardinality(s) : s \in {s \in SUBSET S : ~AllOrdered(done[s], k)}}
      OBVIOUS
    <2>2. IsFiniteSet(S)
      BY DEF S
    <2>3. T \subseteq Nat /\ T # {}
      BY <2>1, <2>2, FS_Subset, FS_CardinalityType
    <2>4. PICK b \in T : \A m \in T : b <= m
      BY <2>3, Least
    <2>5. PICK s \in SUBSET S : ~AllOrdered(done[s], k) /\ b = Cardinality(s)
      BY <2>1
    <2>6. s # {}
      BY <1>4, <2>5
    <2>7. s \ {Some(s)} \in SUBSET S /\ ~(b <= Cardinality(s \ {Some(s)}))
      BY <2>2, <2>5, <2>6, OneLess
    <2>8. AllOrdered(done[s \ {Some(s)}], k)
      BY <2>1, <2>4, <2>7
    <2> QED
      BY <1>3, <2>5, <2>6, <2>8
  <1> QED
    BY <1>1, <1>5 DEF S

\* One of two operations.
LEMMA EitherOrdered ==
  ASSUME NEW k \in 0..4, NEW p, NEW q, AllOrdered(p, k), AllOrdered(q, k)
  PROVE  AllOrdered(p \cup q, k)
  BY DEF AllOrdered

-----------------------------------------------------------------------------
\* Every operation keeps the order.

LEMMA UserOperations ==
  ASSUME NEW k \in 0..3, NEW u \in Users
  PROVE  /\ AllOrdered(SetState(u), k) /\ AllOrdered(GetState(u), k)
         /\ AllOrdered(CloseSession(u), k) /\ AllOrdered(SendBuffer(u), k)
         /\ AllOrdered(WriteLogChat(u), k)
  <1>1. UserLock(u) \in Locks /\ Rank(UserLock(u)) = 4 /\ k < 4 /\ k \in 0..4 /\ 4 \in 0..4
    BY Ranks
  <1>2. AllOrdered(WriteLock(UserLock(u), Nothing), k)
    BY <1>1, NothingOrdered, LockOrdered
  <1> QED
    BY <1>1, <1>2, MaybeOrdered DEF SetState, GetState, CloseSession, SendBuffer, WriteLogChat

LEMMA SendAllOrdered ==
  ASSUME NEW k \in 0..3, NEW set \in SUBSET Users
  PROVE  AllOrdered(SendAll(set), k)
  <1> DEFINE op == [u \in set |-> SendBuffer(u)]
  <1>1. DOMAIN op = set /\ \A u \in set : op[u] = SendBuffer(u)
    OBVIOUS
  <1>2. IsFiniteSet(set) /\ k \in 0..4
    BY LockingAssumption, FS_Subset
  <1>3. \A u \in set : AllOrdered(op[u], k)
    BY <1>1, UserOperations
  <1> HIDE DEF op
  <1>4. AllOrdered(Each(op), k)
    BY <1>1, <1>2, <1>3, EachOrdered
  <1> QED
    BY <1>4 DEF SendAll, op

\* The operations of VChatRoom that hold one room's lock and nothing else.
LEMMA RoomLeaf ==
  ASSUME NEW k \in 0..2, NEW r \in Rooms
  PROVE  /\ AllOrdered(ReadLock(RoomLock(r), Nothing), k)
         /\ AllOrdered(WriteLock(RoomLock(r), Nothing), k)
  <1>1. RoomLock(r) \in Locks /\ Rank(RoomLock(r)) = 3 /\ k < 3 /\ k \in 0..4 /\ 3 \in 0..4
    BY Ranks
  <1> QED
    BY <1>1, NothingOrdered, LockOrdered

LEMMA RoomOperations ==
  ASSUME NEW k \in 0..2, NEW r \in Rooms
  PROVE  /\ AllOrdered(SendPacket(r), k) /\ AllOrdered(ForEachUser(r), k)
         /\ AllOrdered(SetStatus(r), k) /\ AllOrdered(RemoveUsr(r), k)
  <1>1. RoomLock(r) \in Locks /\ Rank(RoomLock(r)) = 3 /\ k < 3 /\ k \in 0..4 /\ 3 \in 0..4 /\ 3 \in 0..3
    BY Ranks
  <1>2. AllOrdered(SendAll(Users), 3)
    BY SendAllOrdered
  <1>3. AllOrdered(SendPacket(r), k) /\ AllOrdered(ForEachUser(r), k)
    BY <1>1, <1>2, LockOrdered DEF SendPacket, ForEachUser
  <1>4. AllOrdered(SetStatus(r), k)
    <2>1. AllOrdered(WriteLock(RoomLock(r), Nothing), k) /\ AllOrdered(Maybe(SendPacket(r)), k)
      BY <1>1, <1>3, RoomLeaf, MaybeOrdered
    <2> QED
      BY <1>1, <2>1, SequelOrdered DEF SetStatus
  <1>5. AllOrdered(RemoveUsr(r), k)
    <2>1. AllOrdered(Maybe(SendAll(Users)), 3)
      BY <1>1, <1>2, MaybeOrdered
    <2> QED
      BY <1>1, <2>1, LockOrdered DEF RemoveUsr
  <1> QED
    BY <1>3, <1>4, <1>5

\* GetGameMode, then more of the room's getters.
LEMMA ScanOrdered ==
  ASSUME NEW k \in 0..2, NEW r \in Rooms
  PROVE  AllOrdered(ScanRoom(r), k)
  <1>1. k \in 0..4
    OBVIOUS
  <1>2. AllOrdered(Maybe(GetCriteria(r)), k)
    BY <1>1, RoomLeaf, MaybeOrdered DEF GetCriteria
  <1>3. AllOrdered(Maybe(GetStatus(r) ++ Maybe(GetCriteria(r))), k)
    BY <1>1, <1>2, RoomLeaf, MaybeOrdered, SequelOrdered DEF GetStatus
  <1> QED
    BY <1>1, <1>3, RoomLeaf, SequelOrdered DEF ScanRoom, GetGameMode

LEMMA LogOrdered ==
  ASSUME NEW k \in 0..2, NEW r \in Rooms
  PROVE  AllOrdered(WriteLogMatchMaking(r), k)
  <1>1. k \in 0..4
    OBVIOUS
  <1>2. \A q \in Rooms : AllOrdered(LogRoom(q), k)
    <2> SUFFICES ASSUME NEW q \in Rooms PROVE AllOrdered(LogRoom(q), k)
      OBVIOUS
    <2>1. AllOrdered(GetServerId(q) ++ GetId(q), k)
      BY <1>1, RoomLeaf, SequelOrdered DEF GetServerId, GetId
    <2> QED
      BY <1>1, <2>1, RoomLeaf, SequelOrdered DEF LogRoom, GetMMPoint
  <1>3. AllOrdered(Each([q \in Rooms \ {r} |-> LogRoom(q)]), k)
    <2> DEFINE op == [q \in Rooms \ {r} |-> LogRoom(q)]
    <2>1. DOMAIN op = Rooms \ {r} /\ \A q \in Rooms \ {r} : AllOrdered(op[q], k)
      BY <1>2
    <2>2. IsFiniteSet(Rooms \ {r})
      BY LockingAssumption, FS_Subset
    <2> HIDE DEF op
    <2>3. AllOrdered(Each(op), k)
      BY <1>1, <2>1, <2>2, EachOrdered
    <2> QED
      BY <2>3 DEF op
  <1>4. AllOrdered(GetUserCount(r), k)
    BY RoomLeaf DEF GetUserCount
  <1> DEFINE both == LogRoom(r) ++ Maybe(Each([q \in Rooms \ {r} |-> LogRoom(q)]))
             counted == GetUserCount(r) ++ Maybe(both ++ GetUserCount(r))
  <1>5. AllOrdered(both, k)
    BY <1>1, <1>2, <1>3, MaybeOrdered, SequelOrdered
  <1>6. WriteLogMatchMaking(r) = GetUserCount(r) ++ Maybe(counted)
    BY DEF WriteLogMatchMaking
  <1> HIDE DEF both
  <1>7. AllOrdered(Maybe(both ++ GetUserCount(r)), k)
    BY <1>1, <1>4, <1>5, MaybeOrdered, SequelOrdered
  <1>8. AllOrdered(counted, k)
    BY <1>1, <1>4, <1>7, SequelOrdered
  <1> HIDE DEF counted
  <1> QED
    BY <1>1, <1>4, <1>6, <1>8, MaybeOrdered, SequelOrdered

LEMMA RoomManagerOperations ==
  ASSUME NEW k \in 0..1
  PROVE  /\ \A r \in Rooms : AllOrdered(UserJoinRoom(r), k)
         /\ AllOrdered(RemoveRoom, k) /\ AllOrdered(GetRoomByID, k) /\ AllOrdered(GetMMRooms, k)
  <1>1. RoomsLock \in Locks /\ Rank(RoomsLock) = 2 /\ k < 2 /\ k \in 0..4 /\ 2 \in 0..4 /\ 2 \in 0..2
    BY Ranks
  <1>2. AllOrdered(RemoveRoom, k) /\ AllOrdered(GetRoomByID, k)
    BY <1>1, NothingOrdered, LockOrdered DEF RemoveRoom, GetRoomByID
  <1>3. AllOrdered(GetMMRooms, k)
    <2> DEFINE op == [r \in Rooms |-> ScanRoom(r)]
    <2>1. DOMAIN op = Rooms /\ \A r \in Rooms : AllOrdered(op[r], 2)
      BY <1>1, ScanOrdered
    <2> HIDE DEF op
    <2>2. AllOrdered(Each(op), 2)
      BY <1>1, <2>1, LockingAssumption, EachOrdered
    <2>3. AllOrdered(Each([r \in Rooms |-> ScanRoom(r)]), 2)
      BY <2>2 DEF op
    <2> QED
      BY <1>1, <2>3, LockOrdered DEF GetMMRooms
  <1>4. ASSUME NEW r \in Rooms PROVE AllOrdered(UserJoinRoom(r), k)
    <2>1. /\ AllOrdered(AddUsr(r), 2) /\ AllOrdered(SetId(r), 2) /\ AllOrdered(SetGameMode(r), 2)
          /\ AllOrdered(GetGameMode(r), 2) /\ AllOrdered(GetServerId(r), 2) /\ AllOrdered(SetServerId(r), 2)
      BY <1>1, RoomLeaf DEF AddUsr, SetId, SetGameMode, GetGameMode, GetServerId, SetServerId
    <2>2. AllOrdered(SetId(r) ++ SetGameMode(r), 2)
      BY <1>1, <2>1, SequelOrdered
    <2>3. AllOrdered(Maybe(SetGameMode(r) ++ SetServerId(r)), 2)
      BY <1>1, <2>1, SequelOrdered, MaybeOrdered
    <2>4. AllOrdered(GetGameMode(r) ++ Maybe(GetServerId(r)), 2)
      BY <1>1, <2>1, SequelOrdered, MaybeOrdered
    <2>5. AllOrdered(GetGameMode(r) ++ Maybe(GetServerId(r)) ++ Maybe(SetGameMode(r) ++ SetServerId(r)), 2)
      BY <1>1, <2>3, <2>4, SequelOrdered
    <2> DEFINE fresh == SetId(r) ++ SetGameMode(r)
               old == GetGameMode(r) ++ Maybe(GetServerId(r)) ++ Maybe(SetGameMode(r) ++ SetServerId(r))
    <2>6. UserJoinRoom(r) = WriteLock(RoomsLock, AddUsr(r) ++ (fresh \cup old))
      BY DEF UserJoinRoom
    <2>7. AllOrdered(fresh, 2) /\ AllOrdered(old, 2)
      BY <2>2, <2>5
    <2> HIDE DEF fresh, old
    <2>8. AllOrdered(AddUsr(r) ++ (fresh \cup old), 2)
      BY <1>1, <2>1, <2>7, EitherOrdered, SequelOrdered
    <2> QED
      BY <1>1, <2>6, <2>8, LockOrdered
  <1> QED
    BY <1>2, <1>3, <1>4

LEMMA LeaveOrdered ==
  ASSUME NEW k \in 0..2
  PROVE  AllOrdered(LeaveRoom, k)
  <1>1. AllOrdered(Nothing, k)
    BY NothingOrdered
  <1>2. \A r \in Rooms : AllOrdered(RemoveUsr(r), k)
    BY RoomOperations
  <1> QED
    BY <1>1, <1>2 DEF AllOrdered, LeaveRoom

LEMMA UserManagerOperations ==
  /\ AllOrdered(GetUser, 0) /\ AllOrdered(GetUserIDArray, 0)
  /\ \A u \in Users : AllOrdered(CreateUser(u), 0) /\ AllOrdered(RemoveUser(u), 0)
  /\ \A set \in SUBSET Users : AllOrdered(SendServerPacket(set), 0)
  /\ AllOrdered(SendGlobalPacket, 0)
  <1>1. UsersLock \in Locks /\ Rank(UsersLock) = 1 /\ 0 \in 0..4 /\ 0 < 1
        /\ 1 \in 0..4 /\ 1 \in 0..3 /\ 1 \in 0..2
    BY Ranks
  <1>2. AllOrdered(ReadLock(UsersLock, Nothing), 0)
    BY <1>1, NothingOrdered, LockOrdered
  <1>3. \A set \in SUBSET Users : AllOrdered(ReadLock(UsersLock, SendAll(set)), 0)
    BY <1>1, SendAllOrdered, LockOrdered
  <1>4. ASSUME NEW u \in Users PROVE AllOrdered(CreateUser(u), 0) /\ AllOrdered(RemoveUser(u), 0)
    <2>1. AllOrdered(LeaveRoom ++ CloseSession(u), 1) /\ AllOrdered(SetState(u), 1)
      BY <1>1, LeaveOrdered, UserOperations, SequelOrdered
    <2>2. AllOrdered(LeaveRoom ++ CloseSession(u) ++ SetState(u), 1)
      BY <1>1, <2>1, SequelOrdered
    <2>3. AllOrdered(RemoveUser(u), 0)
      BY <1>1, <2>1, MaybeOrdered, LockOrdered DEF RemoveUser
    <2> DEFINE old == LeaveRoom ++ CloseSession(u) ++ SetState(u)
    <2>4. AddUser(u) = CountUsers ++ Maybe(WriteLock(UsersLock, Maybe(old)))
      BY DEF AddUser
    <2>5. AllOrdered(old, 1)
      BY <2>2
    <2> HIDE DEF old
    <2>6. AllOrdered(Maybe(WriteLock(UsersLock, Maybe(old))), 0)
      BY <1>1, <2>5, MaybeOrdered, LockOrdered
    <2>7. AllOrdered(AddUser(u), 0)
      BY <1>1, <1>2, <2>4, <2>6, SequelOrdered DEF CountUsers
    <2>8. AllOrdered(CreateUser(u), 0)
      BY <1>1, <1>2, <2>7, MaybeOrdered, SequelOrdered DEF CountUsers, CreateUser
    <2> QED
      BY <2>3, <2>8
  <1> QED
    BY <1>2, <1>3, <1>4 DEF GetUser, GetUserIDArray, SendServerPacket, SendGlobalPacket

LEMMA HandlersOrdered ==
  ASSUME NEW u \in Users
  PROVE  AllOrdered(ReceivePacket(u, Handlers(u)), 0) /\ AllOrdered(SendBillingURL(u), 0)
  <1>1. 0 \in 0..4 /\ 0 \in 0..3 /\ 0 \in 0..2 /\ 0 \in 0..1
    OBVIOUS
  <1>2. AllOrdered(JoinRoom, 0)
    <2>1. \A r \in Rooms : AllOrdered(UserJoinRoom(r), 0)
      BY <1>1, RoomManagerOperations
    <2>2. AllOrdered(UNION {UserJoinRoom(r) : r \in Rooms}, 0)
      BY <2>1 DEF AllOrdered
    <2> QED
      BY <1>1, <2>2, LeaveOrdered, SequelOrdered DEF JoinRoom
  <1>3. AllOrdered(ProcessBanNick(u), 0) /\ AllOrdered(RequestZMEFriends(u), 0)
        /\ AllOrdered(SendBillingURL(u), 0) /\ AllOrdered(ProcessNotifyGlobal, 0)
    BY <1>1, UserManagerOperations, UserOperations, MaybeOrdered, SequelOrdered
       DEF ProcessBanNick, RequestZMEFriends, SendBillingURL, ProcessNotifyGlobal
  <1>4. ASSUME NEW r \in Rooms
        PROVE  AllOrdered(ProcessChat(u, r) \cup RoomEnterMMQueue(r) \cup RoomLeaveMMQueue(r), 0)
    <2>1. AllOrdered(GetId(r), 0) /\ AllOrdered(StartMM(r), 0) /\ AllOrdered(StopMM(r), 0)
      BY <1>1, RoomLeaf DEF GetId, StartMM, StopMM
    <2>2. AllOrdered(SendPacket(r), 0) /\ AllOrdered(WriteLogMatchMaking(r), 0)
      BY <1>1, RoomOperations, LogOrdered
    <2>3. AllOrdered(Maybe(GetId(r) ++ SendPacket(r)), 0)
      BY <1>1, <2>1, <2>2, MaybeOrdered, SequelOrdered
    <2>4. AllOrdered(ProcessChat(u, r), 0)
      BY <1>1, <2>3, UserOperations, SequelOrdered DEF ProcessChat
    <2>5. AllOrdered(RoomEnterMMQueue(r), 0)
      BY <1>1, <2>1, <2>2, SequelOrdered DEF RoomEnterMMQueue
    <2>6. AllOrdered(Maybe(WriteLogMatchMaking(r) ++ SendPacket(r)), 0)
      BY <1>1, <2>2, MaybeOrdered, SequelOrdered
    <2>7. AllOrdered(RoomLeaveMMQueue(r), 0)
      BY <1>1, <2>1, <2>6, SequelOrdered DEF RoomLeaveMMQueue
    <2> QED
      BY <1>1, <2>4, <2>5, <2>7, EitherOrdered
  <1>5. AllOrdered(UNION {ProcessChat(u, r) \cup RoomEnterMMQueue(r) \cup RoomLeaveMMQueue(r) : r \in Rooms}, 0)
    BY <1>4 DEF AllOrdered
  <1>6. AllOrdered(Handlers(u), 0)
    BY <1>1, <1>2, <1>3, <1>5, EitherOrdered DEF Handlers
  <1>7. AllOrdered(ReceivePacket(u, Handlers(u)), 0)
    BY <1>1, <1>6, UserOperations, MaybeOrdered, SequelOrdered DEF ReceivePacket
  <1> QED
    BY <1>3, <1>7

\* No operation takes locks in another order.
LEMMA OperationsOrdered == AllOrdered(Operations, 0)
  <1>1. 0 \in 0..4 /\ 0 \in 0..3 /\ 0 \in 0..2 /\ 0 \in 0..1
    OBVIOUS
  <1>2. AllOrdered(UNION {ReceivePacket(u, Handlers(u)) : u \in Users}, 0)
    BY HandlersOrdered DEF AllOrdered
  <1>3. AllOrdered(UNION {CreateUser(u) \cup RemoveUser(u) \cup CloseSession(u) \cup SendBillingURL(u) : u \in Users}, 0)
    <2>1. \A u \in Users : AllOrdered(CreateUser(u) \cup RemoveUser(u) \cup CloseSession(u) \cup SendBillingURL(u), 0)
      BY <1>1, UserManagerOperations, HandlersOrdered, UserOperations, EitherOrdered
    <2> QED
      BY <2>1 DEF AllOrdered
  <1>4. AllOrdered(UNION {SendServerPacket(set) : set \in SUBSET Users}, 0)
    BY UserManagerOperations DEF AllOrdered
  <1>5. AllOrdered(UNION {SetStatus(r) \cup ForEachUser(r) \cup GetUsers(r) \cup FindUserByID(r) : r \in Rooms}, 0)
    <2>1. \A r \in Rooms : AllOrdered(SetStatus(r) \cup ForEachUser(r) \cup GetUsers(r) \cup FindUserByID(r), 0)
      BY <1>1, RoomOperations, RoomLeaf, EitherOrdered DEF GetUsers, FindUserByID
    <2> QED
      BY <2>1 DEF AllOrdered
  <1>6. AllOrdered(GetUserIDArray, 0) /\ AllOrdered(GetMMRooms, 0) /\ AllOrdered(RemoveRoom, 0)
        /\ AllOrdered(GetRoomByID, 0)
    BY <1>1, UserManagerOperations, RoomManagerOperations
  <1> DEFINE packets == UNION {ReceivePacket(u, Handlers(u)) : u \in Users}
             users == UNION {CreateUser(u) \cup RemoveUser(u) \cup CloseSession(u) \cup SendBillingURL(u) : u \in Users}
             sends == UNION {SendServerPacket(set) : set \in SUBSET Users}
             rooms == UNION {SetStatus(r) \cup ForEachUser(r) \cup GetUsers(r) \cup FindUserByID(r) : r \in Rooms}
  <1>7. Operations = packets \cup users \cup sends \cup GetUserIDArray \cup GetMMRooms \cup RemoveRoom
                       \cup GetRoomByID \cup rooms
    BY DEF Operations
  <1>8. AllOrdered(packets, 0) /\ AllOrdered(users, 0) /\ AllOrdered(sends, 0) /\ AllOrdered(rooms, 0)
    BY <1>2, <1>3, <1>4, <1>5
  <1> HIDE DEF packets, users, sends, rooms
  <1> QED
    BY <1>6, <1>7, <1>8 DEF AllOrdered

-----------------------------------------------------------------------------
\* The part of an ordered program between two of its free points.
LEMMA PartOrdered ==
  ASSUME NEW p, Ordered(p, 0), NEW i \in Free(p), NEW j \in Free(p), i < j,
         NEW q, q = SubSeq(p, i + 1, j)
  PROVE  Ordered(q, 0)
  <1>1. p \in Seq(Accesses) /\ i \in 0..Len(p) /\ j \in 0..Len(p) /\ Len(p) \in Nat
    BY DEF Ordered, Free
  <1>2. q \in Seq(Accesses) /\ Len(q) = j - i
    BY <1>1
  <1>3. \A m \in 1..(j - i) : q[m] = p[i + m]
    BY <1>1
  <1>4. ASSUME NEW n \in 0..(j - i), NEW m \in Unreleased(q, n)
        PROVE  i + m \in Unreleased(p, i + n) /\ m \in 1..(j - i)
    <2>1. m \in 1..n /\ m \in 1..(j - i) /\ i + m \in 1..(i + n)
      BY <1>1, <1>4 DEF Unreleased
    <2>2. q[m] = p[i + m] /\ q[m].mode # "unlock"
      BY <1>3, <1>4, <2>1 DEF Unreleased
    <2>3. ASSUME NEW l \in ((i + m) + 1)..(i + n), p[l].mode = "unlock" PROVE p[l].lock # p[i + m].lock
      <3>1. l - i \in (m + 1)..n /\ l - i \in 1..(j - i) /\ i + (l - i) = l
        <4>1. /\ n \in Nat /\ n <= j - i /\ i \in Nat /\ j \in Nat /\ m \in Nat /\ m >= 1
              /\ l \in Int /\ l >= i + m + 1 /\ l <= i + n
          BY <1>1, <2>1, <2>3
        <4> QED
          BY <4>1
      <3>2. q[l - i] = p[l]
        BY <1>3, <3>1
      <3> QED
        BY <1>4, <2>2, <2>3, <3>1, <3>2 DEF Unreleased
    <2> QED
      BY <2>1, <2>2, <2>3 DEF Unreleased
  <1>5. \A m \in 1..Len(q) : Rank(q[m].lock) > 0
    <2> SUFFICES ASSUME NEW m \in 1..Len(q) PROVE Rank(q[m].lock) > 0
      OBVIOUS
    <2>1. i + m \in 1..Len(p) /\ m \in 1..(j - i)
      BY <1>1, <1>2
    <2> QED
      BY <1>3, <2>1 DEF Ordered
  <1>6. ASSUME NEW n \in 1..Len(q), q[n].mode # "unlock", NEW m \in Unreleased(q, n - 1)
        PROVE  Rank(q[m].lock) < Rank(q[n].lock)
    <2>1. n - 1 \in 0..(j - i) /\ n \in 1..(j - i) /\ i + n \in 1..Len(p) /\ i + (n - 1) = (i + n) - 1
      BY <1>1, <1>2
    <2>2. i + m \in Unreleased(p, (i + n) - 1) /\ m \in 1..(j - i)
      BY <1>4, <1>6, <2>1
    <2>3. q[m] = p[i + m] /\ q[n] = p[i + n]
      BY <1>3, <2>1, <2>2
    <2> QED
      BY <1>6, <2>1, <2>2, <2>3 DEF Ordered
  <1>7. Unreleased(q, Len(q)) = {}
    <2> SUFFICES ASSUME NEW m \in Unreleased(q, j - i) PROVE FALSE
      BY <1>2
    <2>1. j - i \in 0..(j - i) /\ i + (j - i) = j
      BY <1>1
    <2>2. i + m \in Unreleased(p, j)
      BY <1>4, <2>1
    <2> QED
      BY <2>2 DEF Free
  <1> QED
    BY <1>2, <1>5, <1>6, <1>7 DEF Ordered

LEMMA SectionsOrdered == AllOrdered(Sections \cup Nothing, 0)
  <1>1. ASSUME NEW q \in Sections PROVE Ordered(q, 0)
    <2>1. PICK p \in Operations : q \in SectionsOf(p)
      BY <1>1 DEF Sections
    <2>2. PICK i \in Free(p), j \in Free(p) : i < j /\ q = SubSeq(p, i + 1, j)
      BY <2>1 DEF SectionsOf
    <2>3. Ordered(p, 0)
      BY OperationsOrdered DEF AllOrdered
    <2> QED
      BY <2>2, <2>3, PartOrdered
  <1> QED
    BY <1>1, NothingOrdered DEF AllOrdered

LEMMA InitLocking == LockingInit => LockingInv
  <1> SUFFICES ASSUME LockingInit PROVE LockingInv
    OBVIOUS
  <1>1. \A t \in Threads : ahead[t] = <<>> /\ held[t] = {}
    BY DEF LockingInit
  <1>2. <<>> \in Sections \cup Nothing /\ Len(<<>>) = 0 /\ SubSeq(<<>>, 1, 0) = <<>> /\ Unreleased(<<>>, 0) = {}
    BY DEF Nothing, Unreleased
  <1>3. ASSUME NEW t \in Threads PROVE Running(t)
    <2>1. At(t, <<>>, 0)
      <3>1. SubSeq(<<>>, 0 + 1, Len(<<>>)) = <<>>
        BY <1>2
      <3>2. {<<(<<>>)[i].lock, (<<>>)[i].mode>> : i \in Unreleased(<<>>, 0)} = {}
        BY <1>2
      <3> QED
        BY <1>1, <3>1, <3>2 DEF At
    <2> QED
      BY <1>2, <2>1 DEF Running
  <1> QED
    BY <1>3 DEF LockingInit, LockingInv

\* What a thread that is at the n-th step of p goes on with.
LEMMA Remaining ==
  ASSUME NEW p \in Seq(Accesses), NEW n \in 0..Len(p), NEW s, s = SubSeq(p, n + 1, Len(p))
  PROVE  /\ s = <<>> <=> n = Len(p)
         /\ s # <<>> => n + 1 \in 1..Len(p) /\ Head(s) = p[n + 1] /\ Tail(s) = SubSeq(p, (n + 1) + 1, Len(p))
  <1>1. s \in Seq(Accesses) /\ Len(s) = Len(p) - n
    OBVIOUS
  <1>2. s = <<>> <=> n = Len(p)
    <2>1. s = <<>> <=> Len(s) = 0
      BY <1>1, EmptySeq
    <2> QED
      BY <1>1, <2>1
  <1>3. ASSUME s # <<>>
        PROVE  n + 1 \in 1..Len(p) /\ Head(s) = p[n + 1] /\ Tail(s) = SubSeq(p, (n + 1) + 1, Len(p))
    <2>1. n + 1 \in 1..Len(p)
      BY <1>2, <1>3
    <2> QED
      BY <1>1, <1>3, <2>1
  <1> QED
    BY <1>2, <1>3

\* What a thread has not released, one step further.
LEMMA Taking ==
  ASSUME NEW p \in Seq(Accesses), NEW n \in 0..Len(p), n + 1 \in 1..Len(p)
  PROVE  /\ p[n + 1].mode # "unlock" => Unreleased(p, n + 1) = Unreleased(p, n) \cup {n + 1}
         /\ p[n + 1].mode = "unlock" =>
              Unreleased(p, n + 1) = {i \in Unreleased(p, n) : p[i].lock # p[n + 1].lock}
  <1>1. 1..(n + 1) = 1..n \cup {n + 1} /\ n + 1 \notin 1..n /\ ((n + 1) + 1)..(n + 1) = {}
    OBVIOUS
  <1>2. \A i \in 1..n : (i + 1)..(n + 1) = (i + 1)..n \cup {n + 1}
    OBVIOUS
  <1>3. \A i \in 1..n : i \in Unreleased(p, n + 1) <=>
          i \in Unreleased(p, n) /\ (p[n + 1].mode = "unlock" => p[n + 1].lock # p[i].lock)
    BY <1>1, <1>2 DEF Unreleased
  <1>4. n + 1 \in Unreleased(p, n + 1) <=> p[n + 1].mode # "unlock"
    BY <1>1 DEF Unreleased
  <1>5. Unreleased(p, n) \subseteq 1..n /\ Unreleased(p, n + 1) \subseteq 1..n \cup {n + 1}
    BY <1>1 DEF Unreleased
  <1> QED
    BY <1>3, <1>4, <1>5

\* A thread that has ended its section holds nothing.
LEMMA EndsFree ==
  ASSUME NEW t, NEW p \in Sections \cup Nothing, NEW n \in 0..Len(p), At(t, p, n), ahead[t] = <<>>
  PROVE  held[t] = {}
  <1>1. Ordered(p, 0)
    BY SectionsOrdered DEF AllOrdered
  <1>2. n = Len(p)
    BY <1>1, Remaining DEF At, Ordered
  <1> QED
    BY <1>1, <1>2 DEF At, Ordered

LEMMA NextLocking == LockingInv /\ [LockingNext]_lockVars => LockingInv'
  <1> SUFFICES ASSUME LockingInv, [LockingNext]_lockVars PROVE LockingInv'
    OBVIOUS
  <1>1. CASE UNCHANGED lockVars
    <2>1. UNCHANGED <<ahead, held>>
      BY <1>1 DEF lockVars
    <2> QED
      BY <2>1 DEF LockingInv, Running, At
  <1>2. ASSUME NEW t \in Threads, Begin(t) \/ Acquire(t) \/ Bar(t) \/ Unlock(t)
        PROVE  LockingInv'
    <2>0. PICK p \in Sections \cup Nothing, n \in Nat : n \in 0..Len(p) /\ At(t, p, n)
      BY DEF LockingInv, Running
    <2>1. Ordered(p, 0) /\ p \in Seq(Accesses)
      BY SectionsOrdered DEF AllOrdered, Ordered
    <2>2. ASSUME NEW x, NEW y, ahead' = [ahead EXCEPT ![t] = x], held' = [held EXCEPT ![t] = y], Running(t)'
          PROVE  LockingInv'
      <3>1. ahead'= [s \in Threads |-> ahead'[s]] /\ held' = [s \in Threads |-> held'[s]]
        BY <2>2 DEF LockingInv
      <3>2. ASSUME NEW s \in Threads, s # t PROVE Running(s)'
        <4>1. ahead'[s] = ahead[s] /\ held'[s] = held[s]
          BY <2>2, <3>2 DEF LockingInv
        <4>2. PICK q \in Sections \cup Nothing : \E m \in 0..Len(q) : At(s, q, m)
          BY DEF LockingInv, Running
        <4>3. \E m \in 0..Len(q) : At(s, q, m)'
          BY <4>1, <4>2 DEF At
        <4> QED
          BY <4>3 DEF Running
      <3> QED
        BY <2>2, <3>1, <3>2 DEF LockingInv
    <2>3. ahead = [s \in Threads |-> ahead[s]] /\ held = [s \in Threads |-> held[s]]
      BY DEF LockingInv
    <2>4. CASE Begin(t)
      <3>1. PICK q \in Sections : ahead' = [ahead EXCEPT ![t] = q]
        BY <2>4 DEF Begin
      <3>2. held[t] = {} /\ held' = held
        BY <2>0, <2>4, EndsFree DEF Begin
      <3>3. q \in Seq(Accesses)
        BY SectionsOrdered DEF AllOrdered, Ordered
      <3>4. SubSeq(q, 0 + 1, Len(q)) = q /\ 0 \in 0..Len(q)
        BY <3>3
      <3>5. Unreleased(q, 0) = {}
        BY DEF Unreleased
      <3>6. ahead'[t] = q /\ held'[t] = {}
        BY <2>3, <3>1, <3>2
      <3>7. At(t, q, 0)'
        BY <3>4, <3>5, <3>6 DEF At
      <3>8. held' = [held EXCEPT ![t] = held[t]]
        BY <2>3, <3>2
      <3>9. Running(t)'
        BY <3>4, <3>7 DEF Running
      <3> QED
        BY <2>2, <3>1, <3>8, <3>9
    <2>5. CASE Acquire(t) \/ Unlock(t)
      <3>1. ahead[t] # <<>> /\ ahead[t] = SubSeq(p, n + 1, Len(p))
        BY <2>0, <2>5 DEF Acquire, Unlock, At
      <3>2. n + 1 \in 1..Len(p) /\ Head(ahead[t]) = p[n + 1] /\ Tail(ahead[t]) = SubSeq(p, (n + 1) + 1, Len(p))
        BY <2>0, <2>1, <3>1, Remaining
      <3>3. ahead' = [ahead EXCEPT ![t] = SubSeq(p, (n + 1) + 1, Len(p))]
        BY <2>5, <3>2 DEF Acquire, Unlock, Step
      <3>4. held[t] = {<<p[i].lock, p[i].mode>> : i \in Unreleased(p, n)}
        BY <2>0 DEF At
      <3>5. \E y : held' = [held EXCEPT ![t] = y] /\ y = {<<p[i].lock, p[i].mode>> : i \in Unreleased(p, n + 1)}
        <4>1. CASE Acquire(t)
          <5>1. p[n + 1].mode # "unlock"
                /\ held' = [held EXCEPT ![t] = held[t] \cup {<<p[n + 1].lock, p[n + 1].mode>>}]
            BY <2>3, <3>2, <4>1 DEF Acquire
          <5>2. Unreleased(p, n + 1) = Unreleased(p, n) \cup {n + 1}
            BY <2>0, <2>1, <3>2, <5>1, Taking
          <5>3. held[t] \cup {<<p[n + 1].lock, p[n + 1].mode>>}
                  = {<<p[i].lock, p[i].mode>> : i \in Unreleased(p, n + 1)}
            BY <3>4, <5>2
          <5> QED
            BY <5>1, <5>3
        <4>2. CASE Unlock(t)
          <5>1. p[n + 1].mode = "unlock" /\ held' = [held EXCEPT ![t] = {h \in held[t] : h[1] # p[n + 1].lock}]
            BY <2>3, <3>2, <4>2 DEF Unlock
          <5>2. Unreleased(p, n + 1) = {i \in Unreleased(p, n) : p[i].lock # p[n + 1].lock}
            BY <2>0, <2>1, <3>2, <5>1, Taking
          <5>3. {h \in held[t] : h[1] # p[n + 1].lock}
                  = {<<p[i].lock, p[i].mode>> : i \in Unreleased(p, n + 1)}
            BY <3>4, <5>2
          <5> QED
            BY <5>1, <5>3
        <4> QED
          BY <2>5, <4>1, <4>2
      <3>6. At(t, p, n + 1)'
        <4>1. ahead'[t] = SubSeq(p, (n + 1) + 1, Len(p))
          BY <2>3, <3>3
        <4>2. held'[t] = {<<p[i].lock, p[i].mode>> : i \in Unreleased(p, n + 1)}
          BY <2>3, <3>5
        <4> QED
          BY <4>1, <4>2 DEF At
      <3>7. n + 1 \in 0..Len(p)
        BY <3>2
      <3>8. Running(t)'
        BY <3>6, <3>7 DEF Running
      <3> QED
        BY <2>2, <3>3, <3>5, <3>8
    <2>6. CASE Bar(t)
      <3>1. UNCHANGED <<ahead, held>>
        BY <2>6 DEF Bar
      <3> QED
        BY <3>1 DEF LockingInv, Running, At
    <2> QED
      BY <1>2, <2>4, <2>5, <2>6
  <1> QED
    BY <1>1, <1>2 DEF LockingNext

\* Whoever keeps a thread from its lock, and waits too, waits for a lock of a
\* higher rank.
LEMMA WaitsHigher ==
  ASSUME LockingInv, NEW t \in Threads, NEW b \in Blockers(t), Blockers(b) # {}
  PROVE  /\ b \in Threads /\ Rank(Head(ahead[b]).lock) \in 1..4
         /\ Rank(Head(ahead[t]).lock) < Rank(Head(ahead[b]).lock)
  <1>1. b \in Threads /\ \E mode \in {"shared", "exclusive"} : <<Head(ahead[t]).lock, mode>> \in held[b]
    BY DEF Blockers, Holders
  <1>2. PICK p \in Sections \cup Nothing, n \in Nat : n \in 0..Len(p) /\ At(b, p, n)
    BY <1>1 DEF LockingInv, Running
  <1>3. Ordered(p, 0) /\ p \in Seq(Accesses)
    BY SectionsOrdered DEF AllOrdered, Ordered
  <1>4. PICK i \in Unreleased(p, n) : p[i].lock = Head(ahead[t]).lock
    BY <1>1, <1>2 DEF At
  <1>5. ahead[b] # <<>> /\ Head(ahead[b]).mode # "unlock"
    BY DEF Blockers
  <1>6. n + 1 \in 1..Len(p) /\ Head(ahead[b]) = p[n + 1]
    BY <1>2, <1>3, <1>5, Remaining DEF At
  <1>7. (n + 1) - 1 = n
    OBVIOUS
  <1>8. Rank(p[i].lock) < Rank(p[n + 1].lock)
    BY <1>3, <1>4, <1>5, <1>6, <1>7 DEF Ordered
  <1> QED
    BY <1>1, <1>3, <1>4, <1>6, <1>8, Ranked

\* There are four ranks, and a circle would need ever higher ones.
LEMMA NobodyWaitsInACircle == LockingInv => NoDeadlock
  <1> SUFFICES ASSUME LockingInv, NEW set \in (SUBSET Threads) \ {{}}, \A t \in set : Blockers(t) \cap set # {}
               PROVE  FALSE
    BY DEF NoDeadlock
  <1> DEFINE rank(t) == Rank(Head(ahead[t]).lock)
  <1>1. \A t \in set : \E b \in set : rank(b) \in 1..4 /\ rank(t) < rank(b)
    <2> SUFFICES ASSUME NEW t \in set PROVE \E b \in set : rank(b) \in 1..4 /\ rank(t) < rank(b)
      OBVIOUS
    <2>1. PICK b \in set : b \in Blockers(t)
      OBVIOUS
    <2>2. Blockers(b) # {}
      OBVIOUS
    <2> QED
      BY <2>1, <2>2, WaitsHigher
  <1> HIDE DEF rank
  <1>0. PICK t0 \in set : TRUE
    OBVIOUS
  <1>2. PICK t1 \in set : rank(t1) \in 1..4
    BY <1>0, <1>1
  <1>3. PICK t2 \in set : rank(t2) \in 1..4 /\ rank(t1) < rank(t2)
    BY <1>1
  <1>4. PICK t3 \in set : rank(t3) \in 1..4 /\ rank(t2) < rank(t3)
    BY <1>1
  <1>5. PICK t4 \in set : rank(t4) \in 1..4 /\ rank(t3) < rank(t4)
    BY <1>1
  <1>6. PICK t5 \in set : rank(t5) \in 1..4 /\ rank(t4) < rank(t5)
    BY <1>1
  <1> QED
    BY <1>2, <1>3, <1>4, <1>5, <1>6

\* The threads of the chat library never wait for one another in a circle, nor
\* one for itself, whatever operations they run at a time: not even where a
\* writer that waits bars readers from the shared mutexes.
THEOREM ThreadsNeverDeadlock == LockingSpec => []NoDeadlock
  <1>1. LockingSpec => []LockingInv
    BY InitLocking, NextLocking, PTL DEF LockingSpec
  <1> QED
    BY <1>1, NobodyWaitsInACircle, PTL
=============================================================================
