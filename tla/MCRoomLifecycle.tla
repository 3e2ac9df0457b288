--------------------------- MODULE MCRoomLifecycle ---------------------------
(* Instances of RoomLifecycle for TLC. *)
EXTENDS RoomLifecycle, TLC

CONSTANTS ann, bob, gus, annTab, bobTab, gusTab

\* Each connection belongs to the actor it is named after.
AccountOf == [c \in Clients |-> CASE c = gusTab -> gus [] c = bobTab -> bob [] OTHER -> ann]

\* Nothing tells two rooms apart, nor, when nobody is a guest, two people with
\* one connection each.
RoomSymmetry == Permutations(Rooms)
PeopleSymmetry ==
  {[x \in Actors \cup Clients |->
      IF x \in Actors THEN p[x] ELSE CHOOSE c \in Clients : ActorOf[c] = p[ActorOf[x]]]
    : p \in Permutations(Actors)}
==============================================================================
