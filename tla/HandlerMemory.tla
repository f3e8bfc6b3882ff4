---------------------------- MODULE HandlerMemory -----------------------------
(***************************************************************************)
(* The memory of a session's asynchronous operations: handler_allocator    *)
(* and session_alloc_handler (VNetWork/VAsyncServer.hpp).                  *)
(*                                                                         *)
(* asio asks the handler of an operation for the memory the operation      *)
(* needs, and returns it before the handler runs, so that the handler may  *)
(* start the next operation in it.  Each session has one block for its     *)
(* reads and one for its writes, with a flag and no lock.  Whatever does   *)
(* not fit, or comes while the block is in use, goes to AllocateManager    *)
(* ("heap").  The session is the one of module Session, to which this      *)
(* module adds the memory each of its steps takes and returns.             *)
(***************************************************************************)
EXTENDS Session

CONSTANT Large      \* the operations that do not fit into the block: asio decides

VARIABLES read_allocator_, write_allocator_     \* in_use_, and who holds what

allocators == <<read_allocator_, write_allocator_>>
memoryVars == <<vars, allocators>>

\* Mutant of deallocate: in_use_ is not reset.
deallocateKeeps(a, op) == [a EXCEPT !.held = {h \in @ : h.op # op}]

\* The memory of the operation is returned; the block is free again if it was that.
deallocate(a, op) ==
  [in_use |-> a.in_use /\ [op |-> op, at |-> "block"] \notin a.held,
   held   |-> {h \in a.held : h.op # op}]

\* The block if it is free and large enough, else the heap.
allocate(a, op) ==
  LET at == IF ~a.in_use /\ op \notin Large THEN "block" ELSE "heap"
  IN [in_use |-> a.in_use \/ at = "block", held |-> a.held \cup {[op |-> op, at |-> at]}]

Holds(a, op) == \E h \in a.held : h.op = op

MemoryInit ==
  /\ Init
  /\ read_allocator_ = [in_use |-> FALSE, held |-> {}]
  /\ write_allocator_ = [in_use |-> FALSE, held |-> {}]

\* A read handler runs: the memory of its read is returned, and then the
\* handler may issue the next read.
ReadMemory ==
  LET runs == got # "waiting" /\ got' = "waiting"
      issues == (runs \/ rd' # rd) /\ rd' \in {"flow", "policy", "header", "body"}
      returned == IF runs THEN deallocate(read_allocator_, rd) ELSE read_allocator_
  IN read_allocator_' = IF issues THEN allocate(returned, rd') ELSE returned

\* The handler of a write runs when the memory of the write is returned; do_write,
\* handle_write and the policy handler issue writes.
WriteMemory ==
  LET before == {op.buf : op \in ops}
      after == {op.buf : op \in ops'}
  IN /\ \A b \in before \ after : ~Holds(write_allocator_, b)
     /\ \/ after \subseteq before /\ UNCHANGED write_allocator_
        \/ \E b \in after \ before : write_allocator_' = allocate(write_allocator_, b)

\* An io thread takes a completed write, returns its memory, and passes the
\* handler to the strand: another thread may run it.
ReturnWrite ==
  \E op \in ops :
    /\ op.result # "waiting" /\ Holds(write_allocator_, op.buf)
    /\ write_allocator_' = deallocate(write_allocator_, op.buf)
    /\ UNCHANGED <<vars, read_allocator_>>

MemoryNext == (Next /\ ReadMemory /\ WriteMemory) \/ ReturnWrite

MemorySpec ==
  /\ MemoryInit /\ [][MemoryNext]_memoryVars
  /\ Fairness /\ WF_memoryVars(ReturnWrite)

-----------------------------------------------------------------------------
\* The block of each direction holds at most one operation, and in_use_ says
\* whether it does, though the flag is set on one thread and reset on another;
\* an operation goes to the heap only if it does not fit; every outstanding
\* read has its memory, and a session that no operation refers to holds none.
OneBlock ==
  /\ \A a \in {read_allocator_, write_allocator_} :
       /\ a.in_use <=> \E h \in a.held : h.at = "block"
       /\ \A h, k \in a.held : h.at = "block" /\ k.at = "block" => h = k
       /\ \A h \in a.held : h.at = "heap" => h.op \in Large
  /\ {h.op : h \in read_allocator_.held} = {rd} \ {"none", "packet", "login"}
  /\ {h.op : h \in write_allocator_.held} \subseteq {op.buf : op \in ops}

\* async_write is given a pointer into its buffer and no reference to it: the
\* buffer of an outstanding write stays at the front of m_datas, which holds
\* the reference, until its handler runs, on a broken connection too.
WrittenIsHeld ==
  \A op \in ops : op.buf # PolicyFile => datas # <<>> /\ Head(datas) = op.buf
=============================================================================
