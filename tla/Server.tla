------------------------------- MODULE Server -------------------------------
(***************************************************************************)
(* boost::asio::async_server and session_manager (VNetWork/VAsyncServer    *)
(* .hpp) under VNetWorkManager: who keeps each session object alive, from  *)
(* the accept loop to the end of the server.                               *)
(*                                                                         *)
(* A session lives as long as somebody holds a reference: the io_service,  *)
(* in a handler that is pending, an io thread, in the handler it runs, or  *)
(* another thread of the program that sends through it.  The recycling     *)
(* ring takes no session: session_manager uses the sized constructor, and  *)
(* such a ring refuses every push (SafeRingBuffer_proofs!AtMostOneCached), *)
(* so the last reference destroys the session.  What happens on one        *)
(* connection is in Session; here a session has a pending handler or not.  *)
(* There may be no memory for another session: the accept loop ends then.  *)
(***************************************************************************)
EXTENDS Integers, FiniteSets

CONSTANTS Sessions,     \* the session objects that can exist at a time
          IoThreads,    \* the threads that run the io_service
          Senders,      \* other threads, which send through users
          NoSession

ASSUME ServerAssumption ==
  /\ NoSession \notin Sessions
  /\ IoThreads # {} /\ IoThreads \cap Senders = {}

VARIABLES alive,        \* the sessions created and not yet destroyed
          accepting,    \* the session of the pending accept
          pending,      \* the sessions with a read or write handler pending
          holds,        \* the session each thread holds
          pc,           \* where each io thread is
          phase,        \* of the server, from running to its destruction
          starved,      \* history: start_accept had no memory for a session
          orphans       \* history: the sessions that outlived the server

histories == <<starved, orphans>>
vars == <<alive, accepting, pending, holds, pc, phase, histories>>

\* The constructor issues the first accept; without it run() has nothing to do.
Init ==
  /\ \/ \E s \in Sessions :
          alive = {s} /\ accepting = s /\ phase = "running" /\ starved = FALSE
     \/ alive = {} /\ accepting = NoSession /\ phase = "drained" /\ starved = TRUE
  /\ pending = {} /\ orphans = {}
  /\ holds = [t \in IoThreads \cup Senders |-> NoSession]
  /\ pc = [t \in IoThreads |-> "run"]

\* An io thread takes handlers while the io_service is not stopped.
Idle(t) == pc[t] = "run" /\ holds[t] = NoSession /\ phase = "running"

\* Those of the set whose last reference is gone: close_session, the deleter.
Unreferenced(set) ==
  {s \in set : s # accepting' /\ s \notin pending' /\ \A t \in IoThreads \cup Senders : holds'[t] # s}

Release(set) == alive' = alive \ Unreferenced(set)

-----------------------------------------------------------------------------
\* handle_accept: the session starts to read, or does not (its accept failed,
\* or setting the options of its socket).
HandleAccept(t) ==
  /\ Idle(t) /\ accepting # NoSession
  /\ holds' = [holds EXCEPT ![t] = accepting]
  /\ accepting' = NoSession
  /\ pending' \in {pending, pending \cup {accepting}}
  /\ pc' = [pc EXCEPT ![t] = "start_accept"]
  /\ UNCHANGED <<alive, phase, histories>>

\* Mutant of StartAccept: not when the accept before it failed.
StartAcceptIfStarted(t) ==
  /\ pc[t] = "start_accept"
  /\ pc' = [pc EXCEPT ![t] = "run"]
  /\ IF holds[t] \in pending
       THEN \E s \in Sessions \ alive : alive' = alive \cup {s} /\ accepting' = s
       ELSE UNCHANGED <<alive, accepting>>
  /\ UNCHANGED <<pending, holds, phase, histories>>

\* start_accept: a new session waits for the next connection; or
\* create_session returns null, and no accept is issued.
StartAccept(t) ==
  /\ pc[t] = "start_accept"
  /\ \/ /\ \E s \in Sessions \ alive : alive' = alive \cup {s} /\ accepting' = s
        /\ UNCHANGED starved
     \/ starved' = TRUE /\ UNCHANGED <<alive, accepting>>
  /\ pc' = [pc EXCEPT ![t] = "run"]
  /\ UNCHANGED <<pending, holds, phase, orphans>>

\* A handler of a session runs; the connection goes on, with another handler,
\* or not.
RunHandler(t, s) ==
  /\ Idle(t) /\ s \in pending
  /\ holds' = [holds EXCEPT ![t] = s]
  /\ pending' \in {pending, pending \ {s}}
  /\ UNCHANGED <<alive, accepting, pc, phase, histories>>

\* The io_service stops by itself when the last handler has returned and no
\* operation is outstanding.
Drain ==
  phase' = IF /\ phase = "running" /\ accepting = NoSession /\ pending = {}
              /\ \A t \in IoThreads : holds'[t] = NoSession
             THEN "drained" ELSE phase

\* Mutant of Return: the session is destroyed with the handler.
ReturnDestroys(t) ==
  /\ pc[t] = "run" /\ holds[t] # NoSession
  /\ holds' = [holds EXCEPT ![t] = NoSession]
  /\ alive' = alive \ {holds[t]}
  /\ Drain
  /\ UNCHANGED <<accepting, pending, pc, histories>>

\* The handler returns, and with it goes its reference.
Return(t) ==
  /\ pc[t] = "run" /\ holds[t] # NoSession
  /\ holds' = [holds EXCEPT ![t] = NoSession]
  /\ Drain
  /\ UNCHANGED <<accepting, pending, pc, histories>>
  /\ Release({holds[t]})

\* Mutant of Leave: run() returns when there is no more work, as without io.stop().
LeaveWithoutWork(t) ==
  /\ pc[t] = "run" /\ holds[t] = NoSession /\ phase # "running"
  /\ pending = {} /\ accepting = NoSession
  /\ pc' = [pc EXCEPT ![t] = "left"]
  /\ UNCHANGED <<alive, accepting, pending, holds, phase, histories>>

\* run() returns once the io_service is stopped.
Leave(t) ==
  /\ pc[t] = "run" /\ holds[t] = NoSession /\ phase # "running"
  /\ pc' = [pc EXCEPT ![t] = "left"]
  /\ UNCHANGED <<alive, accepting, pending, holds, phase, histories>>

-----------------------------------------------------------------------------
\* Another thread sends: it locks the session of a user, posts do_write, and
\* lets go of the session.  The managers these threads belong to are stopped
\* after the network, so the server may be gone: then the io_service that is
\* posted to, and the session_manager that close_session belongs to, have been
\* destroyed, and the process may crash.
Lock(x, s) ==
  /\ phase # "crashed"
  /\ holds[x] = NoSession /\ s \in alive \ {accepting}
  /\ holds' = [holds EXCEPT ![x] = s]
  /\ UNCHANGED <<alive, accepting, pending, pc, phase, histories>>

Post(x) ==
  /\ holds[x] # NoSession /\ phase # "crashed"
  /\ holds' = [holds EXCEPT ![x] = NoSession]
  /\ IF phase = "gone"
       THEN phase' \in {"gone", "crashed"} /\ UNCHANGED pending
       ELSE pending' = pending \cup {holds[x]} /\ UNCHANGED phase
  /\ UNCHANGED <<accepting, pc, histories>>
  /\ Release({holds[x]})

-----------------------------------------------------------------------------
\* stop(): io.stop(), join_all(), clear_session(); then the server is
\* destroyed, and the io_service with the handlers that are pending.
Stop ==
  /\ phase \in {"running", "drained"}
  /\ phase' = "stopping"
  /\ UNCHANGED <<alive, accepting, pending, holds, pc, histories>>

Join ==
  /\ phase = "stopping" /\ \A t \in IoThreads : pc[t] = "left"
  /\ phase' = "joined"
  /\ UNCHANGED <<alive, accepting, pending, holds, pc, histories>>

Destroy ==
  /\ phase = "joined"
  /\ phase' = "gone"
  /\ pending' = {} /\ accepting' = NoSession
  /\ UNCHANGED <<holds, pc, starved>>
  /\ Release(pending \cup {accepting})
  /\ orphans' = alive'

IoNext ==
  \E t \in IoThreads :
    \/ HandleAccept(t) \/ StartAccept(t)
    \/ \E s \in Sessions : RunHandler(t, s)
    \/ Return(t) \/ Leave(t)

Next ==
  \/ IoNext
  \/ \E x \in Senders : Post(x) \/ \E s \in Sessions : Lock(x, s)
  \/ Stop \/ Join \/ Destroy

Spec == Init /\ [][Next]_vars

-----------------------------------------------------------------------------
\* Type invariant.
TypeOK ==
  /\ alive \subseteq Sessions
  /\ accepting \in Sessions \cup {NoSession}
  /\ pending \subseteq Sessions
  /\ holds \in [IoThreads \cup Senders -> Sessions \cup {NoSession}]
  /\ pc \in [IoThreads -> {"run", "start_accept", "left"}]
  /\ phase \in {"running", "drained", "stopping", "joined", "gone", "crashed"}
  /\ starved \in BOOLEAN /\ orphans \subseteq Sessions

\* All is in its range, and a session exists exactly as long as somebody refers
\* to it: nobody refers to a destroyed session, and none is left over, at the
\* end of the server either.
Alive ==
  /\ TypeOK
  /\ alive \subseteq pending \cup {accepting} \cup {holds[t] : t \in IoThreads \cup Senders}
  /\ pending \subseteq alive
  /\ accepting # NoSession => accepting \in alive
  /\ \A t \in IoThreads \cup Senders : holds[t] # NoSession => holds[t] \in alive

\* There is one accept loop, and only one thing ends it: an accept is pending,
\* or one thread is about to issue the next, or there was no memory for its
\* session; then no accept is issued any more, and only then do the io threads
\* run out of work, though nobody stops the server.
OneAccept ==
  phase \notin {"gone", "crashed"} =>
    LET issuing == {t \in IoThreads : pc[t] = "start_accept"} IN
      /\ accepting # NoSession => issuing = {} /\ ~starved
      /\ starved => issuing = {}
      /\ accepting = NoSession /\ ~starved => \E t \in IoThreads : issuing = {t}
      /\ phase = "drained" => starved
=============================================================================
