------------------------------- MODULE Outbox -------------------------------
(***************************************************************************)
(* What a session promises to the code that sends through it: the buffers  *)
(* handed to it on a connection reach the peer's socket whole, in the      *)
(* order they were handed over, none twice and none skipped, and a new     *)
(* connection starts with nothing left over from the one before.           *)
(***************************************************************************)
EXTENDS Naturals, Sequences

CONSTANT Buffers        \* what is sent

VARIABLES sent,         \* the buffers accepted on this connection, in order
          wire          \* the buffers written to the socket, in order

vars == <<sent, wire>>

Init == sent = <<>> /\ wire = <<>>

Connect == sent' = <<>> /\ wire' = <<>>

Accept(b) == sent' = Append(sent, b) /\ UNCHANGED wire

Deliver ==
  /\ Len(wire) < Len(sent)
  /\ wire' = Append(wire, sent[Len(wire) + 1])
  /\ UNCHANGED sent

Next == Connect \/ (\E b \in Buffers : Accept(b)) \/ Deliver

Spec == Init /\ [][Next]_vars
=============================================================================
