--------------------------- MODULE MCHousekeeping ---------------------------
(***************************************************************************)
(* Housekeeping on a small hotel.  A behaviour of MCSpec either serves     *)
(* requests and ticks one at a time over all rooms and days, or lets them  *)
(* overlap and fail on the first day and in all rooms but `Spare`.         *)
(***************************************************************************)
EXTENDS Housekeeping

VARIABLE alone  \* requests and ticks do not overlap

Spare == CHOOSE r \in Rooms : TRUE
Solo == CHOOSE p \in Reqs : TRUE

OneAtATime == \A p, q \in Busy : p = q

MCInit == Init /\ alone \in BOOLEAN

MCNext ==
  /\ Next /\ UNCHANGED alone
  /\ IF alone THEN OneAtATime' /\ Busy' \subseteq {Solo, None} /\ faults' = 0
     ELSE /\ clock' < 2 /\ occupant'[Spare] = None
          /\ \A p \in Reqs : req'[p].room # Spare

(* The five-minute cron fires for ever and a run that began is carried on. *)
MCFairSpec == MCInit /\ [][MCNext]_<<vars, alone>> /\ WF_vars(TickRun)

(* One at a time, a Do-Not-Disturb belongs to the stay that is in the room *)
(* now: it ends with a checkout and stays behind at no move; and only the  *)
(* guest's switch, a vacate or the next day's tick end it: no board        *)
(* action, `start` above all, wipes it.                                    *)
AloneDndIsTheStays ==
  /\ [](alone => DndDiesWithStay)
  /\ [][alone => \A r \in Rooms : DndEnds(r) => ProperEnd(r)]_<<vars, alone>>

(* One at a time, when a run completes, no Do-Not-Disturb of an earlier    *)
(* day is left, and every room it found occupied was served: it is dirty   *)
(* or handled today.                                                       *)
AloneServiceDone ==
  [][alone /\ RunCompletes => \A r \in Rooms : Served(r)]_<<vars, alone>>

(* Past the service hour an occupied clean room is served by some tick,    *)
(* though runs fail, skip and race every other writer.                     *)
DailyServiceHappens ==
  \A r \in Rooms \ {Spare} : ~alone /\ Unserved(r) ~> ~Unserved(r)
=============================================================================
