------------------------------ MODULE MCOrders ------------------------------
(* The bill of one stay with a few orders; the notices of one device; two  *)
(* rooms where guests enter, in the first of them with a code; or the      *)
(* reports of a hotel with one stay.                                       *)
EXTENDS Orders, Integers, TLC

CONSTANTS Notices, Senders, None,
          Doors, Vacant,  \* rooms, and those that nobody is checked in to
          Codes, Tries,   \* codes, and attempts at a time
          RoomLimit, RoomWindow, LockoutBase, LockoutMax, HotelLimit, HotelWindow, LastHour,
          Zones, Day, Spans, MaxSpan,  \* of the reports
          Opening, Closing             \* their first and last instant

VARIABLES scene, disp, sub, live, call, att, queue, running, faults,
          stay, rooms, hotels, try, hour, wrong,
          zone, now, visit, charge, report

Device == INSTANCE Push WITH
            Rows <- Notices, Subs <- {"sub"}, Owners <- {"guest"}, Callers <- Senders,
            Kinds <- {"announcement", "status"}, MaxAttempts <- 2, MaxTries <- 2, MaxFaults <- 1
deviceVars == <<disp, sub, live, call, att, queue, running, faults>>

Door == INSTANCE GuestAccess WITH call <- try, now <- hour,
          Rooms <- Doors, Attempts <- 1..Tries, Horizon <- LastHour
doorVars == <<stay, rooms, hotels, try, hour, wrong>>

\* What the run gives Zones, in days of 6 instants.
Clock(offset, change, shift) == [offset |-> offset, change |-> change, shift |-> shift]
Clocks == {Clock(0, 0, 0), Clock(2, 15, -2), Clock(-1, 12, 2), Clock(2, 17, 2)}
Books == INSTANCE Reports WITH stay <- visit, None <- "none", First <- Opening, Horizon <- Closing
bookVars == <<zone, now, visit, charge, report>>

ASSUME ScenesAssumption == Device!Parameters /\ Door!Parameters /\ Books!Parameters /\ Tries \in Nat

(* Three requests at a time. *)
Ordering ==
  /\ Next
  /\ {p \in Procs : req'[p].pc = "idle"} # {}

(* Attempts are alike, and the process restarts early or not at all. *)
Entering ==
  /\ Door!Next /\ \A r \in Vacant : stay'[r] = None
  /\ wrong # <<>> /\ wrong' = <<>> => DOMAIN wrong = {1}
  /\ \A p \in 2..Tries : try[p] = Door!Idle /\ try'[p] # Door!Idle => try[p - 1] # Door!Idle

(* No time passes and one thing changes during a report; a guest who has   *)
(* left ordered on the first day.                                          *)
Reporting ==
  /\ Books!Next
  /\ report' # Books!NoReport => now' = now
  /\ report.kind # "none" /\ report'.kind # "none" /\ report.moved => charge' = charge /\ visit' = visit
  /\ report'.kind = "guests" => charge' = Books!NoCharge
  /\ report'.kind = "totals" => visit'.status = "active"
  /\ visit'.status = "active" \/ charge'.made <= 10

MCInit ==
  /\ Init /\ Device!Init /\ Door!Init /\ Books!Init
  /\ scene \in {"bill", "push", "door", "books"}
  /\ scene # "books" => zone = Clock(0, 0, 0)
MCNext ==
  /\ scene' = scene
  /\ \/ scene = "bill" /\ Ordering /\ UNCHANGED <<deviceVars, doorVars, bookVars>>
     \/ scene = "push" /\ Device!Next /\ UNCHANGED <<vars, doorVars, bookVars>>
     \/ scene = "door" /\ Entering /\ UNCHANGED <<vars, deviceVars, bookVars>>
     \/ scene = "books" /\ Reporting /\ UNCHANGED <<vars, deviceVars, doorVars>>
MCSpec == MCInit /\ [][MCNext]_<<scene, vars, deviceVars, doorVars, bookVars>>

OnePending == Device!OnePending

(* A notice that is decided stays so, and a keyed one that waits survives  *)
(* the repeats of its event.                                               *)
NoticesStand == Device!DecidedIsFinal /\ Device!RepeatsLoseNothing

DepartureSilences == Device!DepartureSilences
GuessesBounded == Door!GuessesBounded
ReportsAddUp == Books!ReportsAddUp

Symmetry == Permutations(Guests) \cup Permutations(Notices) \cup Permutations(Senders)
=============================================================================
