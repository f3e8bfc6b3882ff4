----------------------------- MODULE RecentLog ------------------------------
(***************************************************************************)
(* The N most recent elements, as a reader sees them: a read returns all   *)
(* that are kept, the oldest first.  A read that resets forgets them; one  *)
(* that does not may forget the older ones once there are N, never the     *)
(* most recent or their order.  After many pushes the log may start again. *)
(***************************************************************************)
EXTENDS Integers, Sequences

CONSTANTS Items, N

VARIABLES recent,       \* the elements kept, the oldest first
          result        \* what the last read returned

vars == <<recent, result>>

\* The last n elements of s.
LastOf(s, n) == SubSeq(s, Len(s) - n + 1, Len(s))

Init == recent = <<>> /\ result = <<>>

Push(t) ==
  /\ recent' = IF Len(recent) < N THEN Append(recent, t) ELSE Append(Tail(recent), t)
  /\ UNCHANGED result

Restart == Len(recent) = N /\ recent' = <<>> /\ UNCHANGED result

Clear == recent' = <<>> /\ UNCHANGED result

Read(reset) ==
  /\ result' = recent
  /\ IF reset
       THEN recent' = <<>>
       ELSE \/ UNCHANGED recent
            \/ Len(recent) = N /\ \E n \in 0..(N - 1) : recent' = LastOf(recent, n)

Next == (\E t \in Items : Push(t)) \/ Restart \/ Clear \/ (\E b \in BOOLEAN : Read(b))

Spec == Init /\ [][Next]_vars
=============================================================================
