------------------------------ MODULE SeatPool ------------------------------
(***************************************************************************)
(* What the seats of a departure promise (HajjUmrahPackage: capacity and   *)
(* seatsBooked): a group is seated only as a whole and only while there is *)
(* room, seats are never given up, and the number of places is never set   *)
(* below the seats taken.                                                  *)
(***************************************************************************)
EXTENDS Naturals

VARIABLES places, taken

PoolInit ==
  /\ places \in Nat
  /\ taken = 0

SeatGroup ==
  /\ taken' > taken
  /\ taken' <= places
  /\ UNCHANGED places

SetPlaces ==
  /\ places' >= taken
  /\ UNCHANGED taken

PoolNext == SeatGroup \/ SetPlaces
=============================================================================
