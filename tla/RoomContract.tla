---------------------------- MODULE RoomContract ----------------------------
(***************************************************************************)
(* What the room service promises about the matches of a room, with no     *)
(* requests, reads or transactions: a room is opened once, its matches are *)
(* played one at a time by at least two players of whom at least one is    *)
(* human, and it is closed, for good, only between two matches.            *)
(***************************************************************************)
EXTENDS Naturals, FiniteSets

CONSTANTS Rooms, Actors, SeatLimit

VARIABLES
  phase,    \* what a room is doing
  tables    \* the matches being played in it: the humans and the bots of each

contractVars == <<phase, tables>>

Tables == [humans : (SUBSET Actors) \ {{}}, bots : 0 .. SeatLimit]

ContractInit ==
  /\ phase = [r \in Rooms |-> "unborn"]
  /\ tables = [r \in Rooms |-> {}]

Open(r) ==
  /\ phase[r] = "unborn"
  /\ phase' = [phase EXCEPT ![r] = "waiting"]
  /\ UNCHANGED tables

Deal(r) ==
  /\ phase[r] = "waiting" /\ tables[r] = {}
  /\ \E t \in Tables :
       /\ Cardinality(t.humans) + t.bots \in 2 .. SeatLimit
       /\ tables' = [tables EXCEPT ![r] = {t}]
  /\ phase' = [phase EXCEPT ![r] = "playing"]

End(r) ==
  /\ phase[r] = "playing"
  /\ phase' = [phase EXCEPT ![r] = "waiting"]
  /\ tables' = [tables EXCEPT ![r] = {}]

Close(r) ==
  /\ phase[r] = "waiting" /\ tables[r] = {}
  /\ phase' = [phase EXCEPT ![r] = "closed"]
  /\ UNCHANGED tables

ContractNext == \E r \in Rooms : Open(r) \/ Deal(r) \/ End(r) \/ Close(r)

ContractSpec == ContractInit /\ [][ContractNext]_contractVars
=============================================================================
