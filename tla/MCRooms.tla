------------------------------ MODULE MCRooms -------------------------------
(***************************************************************************)
(* Rooms with two users of one server, the lobby and one other room.       *)
(* Clients ask for a match-making mode (257, which is cut to 1) or for     *)
(* another, which is cut to -1 (255).  Only what is said of the lobby      *)
(* tells the rooms apart.                                                  *)
(***************************************************************************)
EXTENDS Rooms, TLC

CONSTANTS u1, u2, lobby, room1

MCUsers == {u1, u2}
MCSymmetry == Permutations({u1, u2}) \cup Permutations({lobby, room1})
MCRoomIds == {lobby, room1}
MCLobbyIds == {lobby}
MCModes == {255, 257}
MCMMModes == {1}
MCServers == {7}
MCServerOf == [u \in MCUsers |-> 7]
=============================================================================
