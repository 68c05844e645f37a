------------------------------ MODULE MCStays ------------------------------
(***************************************************************************)
(* Stays on a small hotel.  A behaviour of MCSpec either serves requests   *)
(* one at a time over all days and with changes of room status, or lets    *)
(* them overlap on the first day without.                                  *)
(***************************************************************************)
EXTENDS Stays, TLC

VARIABLE alone  \* requests do not overlap

OneAtATime == \A p, q \in Procs : ~Idle(p) /\ ~Idle(q) => p = q

MCInit == Init /\ alone \in BOOLEAN

MCNext ==
  /\ Next /\ UNCHANGED alone
  /\ IF alone THEN OneAtATime'
     ELSE /\ clock' < 2 /\ \A s \in Stays : stay'[s].due = 0
          /\ \A p \in Procs : req'[p].pc # "room_save" /\ req'[p].row.due = 0

MCSpec == MCInit /\ [][MCNext]_<<vars, alone>>

Symmetry == Permutations(Rooms) \cup Permutations(Stays) \cup Permutations(Codes) \cup Permutations(Staff)

(* One at a time, rooms follow their stays: a room with an active stay is  *)
(* `active` (updateRoom's occupancy guard together with                    *)
(* lockAvailableRoom's status guard), and every room a checkout, an        *)
(* auto-checkout or a room change emptied has its checkout flag once the   *)
(* request is answered.                                                    *)
AloneRoomsFollowStays == alone => OccupiedRoomIsActive /\ VacatedRoomIsFlagged

(* One at a time, the auto-checkout closes a stay only if it is overdue by *)
(* the date the database holds when it is closed.                          *)
AloneClosesOnlyOverdue ==
  [][alone => \A s \in Stays : AutomaticEnd(s) => Overdue(stay[s].due)]_<<vars, alone>>

(* The book of behaviours that overlap stays empty. *)
AloneBook == INSTANCE StayBook WITH
               occupant <- IF alone THEN Occupant ELSE [r \in Rooms |-> None],
               ended <- IF alone THEN Ended ELSE {}

(* ... and the desk keeps the book StayBook describes: a stay enters one   *)
(* free room, moves between free rooms and ends for good.                  *)
AloneStaysEndRightly == AloneClosesOnlyOverdue /\ AloneBook!Spec
=============================================================================
