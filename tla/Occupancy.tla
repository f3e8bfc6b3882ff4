------------------------------ MODULE Occupancy ------------------------------
(***************************************************************************)
(* What the rooms promise, without the calls it takes: everybody is in one *)
(* place at a time and comes there from nowhere; a room has a purpose      *)
(* (its game mode) as long as it is occupied, settled once; whoever comes  *)
(* or goes takes the room out of the queue; and a match is reported only   *)
(* to a room that has been offered for it, once for each offer, and that   *)
(* was queued, occupied and meant for matches when it was.                 *)
(***************************************************************************)
EXTENDS Integers

CONSTANTS Users, RoomIds, Modes, MMModes, NoRoom

VARIABLES place,        \* where each user is
          purpose,      \* of each room: one of Modes, or -1
          status,       \* of each room: "normal", "enqueue" or "found"
          offered       \* the rooms that may be matched

vars == <<place, purpose, status, offered>>

In(r) == {u \in Users : place[u] = r}

Init ==
  /\ place = [u \in Users |-> NoRoom]
  /\ purpose = [r \in RoomIds |-> -1]
  /\ status = [r \in RoomIds |-> "normal"]
  /\ offered = {}

\* An offer may lapse, if the room is empty then.
Leave(u) ==
  /\ place[u] # NoRoom
  /\ place' = [place EXCEPT ![u] = NoRoom]
  /\ status' = [status EXCEPT ![place[u]] = "normal"]
  /\ IF In(place[u]) = {u}
       THEN purpose' = [purpose EXCEPT ![place[u]] = -1] /\ offered' \in {offered, offered \ {place[u]}}
       ELSE UNCHANGED <<purpose, offered>>

\* The first to come may find a purpose that was settled when the room had
\* been left.
Enter(u, r) ==
  /\ place[u] = NoRoom
  /\ place' = [place EXCEPT ![u] = r]
  /\ status' = [status EXCEPT ![r] = "normal"]
  /\ purpose' = purpose \/ (In(r) = {} /\ \E m \in Modes : purpose' = [purpose EXCEPT ![r] = m])
  /\ UNCHANGED offered

Settle(r, m) ==
  /\ In(r) # {} /\ purpose[r] = -1
  /\ purpose' = [purpose EXCEPT ![r] = m]
  /\ UNCHANGED <<place, status, offered>>

Enqueue(r) ==
  /\ status' = [status EXCEPT ![r] = "enqueue"]
  /\ UNCHANGED <<place, purpose, offered>>

Dequeue(r) ==
  /\ status[r] = "enqueue"
  /\ status' = [status EXCEPT ![r] = "normal"]
  /\ UNCHANGED <<place, purpose, offered>>

Offer(r) ==
  /\ status[r] = "enqueue" /\ purpose[r] \in MMModes
  /\ r \notin offered
  /\ offered' = offered \cup {r}
  /\ UNCHANGED <<place, purpose, status>>

Found(r) ==
  /\ r \in offered
  /\ offered' = offered \ {r}
  /\ status' = [status EXCEPT ![r] = "found"]
  /\ UNCHANGED <<place, purpose>>

Withdraw == offered' = {} /\ UNCHANGED <<place, purpose, status>>

Next ==
  \/ \E u \in Users : Leave(u) \/ \E r \in RoomIds : Enter(u, r)
  \/ \E r \in RoomIds :
       (\E m \in Modes : Settle(r, m)) \/ Enqueue(r) \/ Dequeue(r) \/ Offer(r) \/ Found(r)
  \/ Withdraw

Spec == Init /\ [][Next]_vars
=============================================================================
