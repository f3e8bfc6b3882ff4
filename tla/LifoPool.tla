------------------------------ MODULE LifoPool ------------------------------
(***************************************************************************)
(* What a recycling container promises to its callers: a bounded stack of  *)
(* elements.  An element that is accepted stays until it is handed out,    *)
(* the last one first, and it is in the stack at most once.  A call may    *)
(* always be refused (the container is contended, full or empty), which    *)
(* changes nothing: the caller then goes to the heap.                      *)
(***************************************************************************)
EXTENDS Naturals, Sequences

CONSTANTS Elements,     \* the pointers callers recycle
          Capacity      \* the room of the container once it is sized

VARIABLES stack,        \* the recycled elements, the oldest first
          room          \* how many elements it may hold

vars == <<stack, room>>

Init == stack = <<>> /\ room \in {0, Capacity}

Resize == room = 0 /\ room' = Capacity /\ UNCHANGED stack

Put(e) ==
  /\ Len(stack) < room
  /\ \A i \in 1..Len(stack) : stack[i] # e
  /\ stack' = Append(stack, e)
  /\ UNCHANGED room

Take ==
  /\ Len(stack) > 0
  /\ stack' = SubSeq(stack, 1, Len(stack) - 1)
  /\ UNCHANGED room

Next == Resize \/ (\E e \in Elements : Put(e)) \/ Take

Spec == Init /\ [][Next]_vars
=============================================================================
