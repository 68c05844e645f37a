------------------------------ MODULE StayBook ------------------------------
(***************************************************************************)
(* What the stay desk promises its hotel: each room has at most one guest  *)
(* stay, a stay is in one room at a time, and an ended stay never returns. *)
(***************************************************************************)
CONSTANTS Rooms, Stays, None

VARIABLES occupant,   \* the stay in each room
          ended       \* stays that are over

vars == <<occupant, ended>>

Present == {occupant[r] : r \in Rooms} \ {None}

Init == occupant = [r \in Rooms |-> None] /\ ended = {}

Arrive(s, r) ==
  /\ s \notin Present \cup ended /\ occupant[r] = None
  /\ occupant' = [occupant EXCEPT ![r] = s]
  /\ UNCHANGED ended

Move(s, from, to) ==
  /\ occupant[from] = s /\ occupant[to] = None
  /\ occupant' = [occupant EXCEPT ![from] = None, ![to] = s]
  /\ UNCHANGED ended

Leave(s, r) ==
  /\ occupant[r] = s
  /\ occupant' = [occupant EXCEPT ![r] = None]
  /\ ended' = ended \cup {s}

Next ==
  \E s \in Stays, r \in Rooms :
    \/ Arrive(s, r)
    \/ \E to \in Rooms : Move(s, r, to)
    \/ Leave(s, r)

Spec == Init /\ [][Next]_vars
=============================================================================
