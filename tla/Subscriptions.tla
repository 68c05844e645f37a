--------------------------- MODULE Subscriptions ---------------------------
(***************************************************************************)
(* The plans of one hotel: its subscription rows, the admins who change or *)
(* extend them, the cron run that expires trials, and the rooms the plan   *)
(* limits with their counter on the hotel row.                             *)
(*                                                                         *)
(* Plan changes, extensions and the cron run save whole rows they read     *)
(* before and take no lock; room operations lock the hotel row; edits of   *)
(* the hotel's profile and its suspension save that row without the lock.  *)
(***************************************************************************)
EXTENDS Naturals, FiniteSets

CONSTANTS MaxSubs,    \* bound on subscription rows
          Rooms,      \* room numbers
          Plans,      \* active plans, each named by its maxRooms
          Trials,     \* the trial plans among them
          Admins,     \* concurrent requests, of platform and hotel staff
          Job,        \* the cron run
          None,
          TrialDays,  \* trialDurationDays
          Crowds,     \* bound: how many of them may be under way at once
          MaxDay, MaxFaults  \* bounds of the clock and of failures

Procs == Admins \cup {Job}
Subs == 1..MaxSubs    \* rows, numbered in the order of their insertion

ASSUME SubscriptionsAssumption ==
  /\ IsFiniteSet(Rooms) /\ IsFiniteSet(Admins) /\ MaxSubs \in Nat \ {0}
  /\ Plans \subseteq Nat /\ Trials \subseteq Plans /\ Plans # {}
  /\ Job \notin Admins /\ None \notin Procs
  /\ TrialDays \in Nat \ {0} /\ MaxDay \in Nat /\ MaxFaults \in Nat /\ Crowds \subseteq Nat

VARIABLES sub,    \* table subscriptions
          room,   \* status of the rooms
          hotel,  \* the hotel row: suspension and roomsCount
          lock,   \* who holds the hotel row's lock
          req,    \* what each request has read
          batch,  \* overdue rows the cron run has yet to save
          day, faults,
          crowd   \* requests that overlap at most, fixed in a behaviour

vars == <<sub, room, hotel, lock, req, batch, day, faults, crowd>>

Days == 0..(MaxDay + 2 * TrialDays)
SubRow == [status: {"none", "trial", "active", "expired"}, open: BOOLEAN,
           plan: Plans, ends: Days, forced: BOOLEAN]
NoSub == [status |-> "none", open |-> FALSE, plan |-> CHOOSE n \in Plans : TRUE,
          ends |-> 0, forced |-> FALSE]

NewSub_Paid(plan, force) ==
  [status |-> "active", open |-> TRUE, plan |-> plan, forced |-> force,
   ends |-> IF plan \in Trials THEN day + TrialDays ELSE 0]

(* The row of a plan that starts today. ends = 0 is a null trialEndsAt;    *)
(* forced is what the audit log keeps of the change.                       *)
NewSub(plan, force) ==
  [status |-> IF plan \in Trials THEN "trial" ELSE "active",
   open |-> TRUE, plan |-> plan, forced |-> force,
   ends |-> IF plan \in Trials THEN day + TrialDays ELSE 0]

RoomStatuses == {"none", "active", "out_of_service", "inactive"}
Hotel == [suspended: BOOLEAN, rooms: 0..Cardinality(Rooms)]
Counts(status) == status \in {"active", "out_of_service"}
Countable == {r \in Rooms : Counts(room[r])}

Request == [pc: {"idle", "trial", "read", "close", "insert", "extend", "hotel", "limit", "rooms"},
            plan: Plans, force: BOOLEAN, s: Subs, row: SubRow, hotel: Hotel,
            set: SUBSET Rooms, to: RoomStatuses, limit: Nat]
IdleReq == [pc |-> "idle", plan |-> NoSub.plan, force |-> FALSE, s |-> 1, row |-> NoSub,
            hotel |-> [suspended |-> FALSE, rooms |-> 0], set |-> {}, to |-> "none", limit |-> 0]

(* The hotel was onboarded today, with its first subscription and no room. *)
Init ==
  /\ day = 0 /\ faults = 0
  /\ \E plan \in Plans : sub = [s \in Subs |-> IF s = 1 THEN NewSub(plan, FALSE) ELSE NoSub]
  /\ room = [r \in Rooms |-> "none"]
  /\ hotel = [suspended |-> FALSE, rooms |-> 0]
  /\ lock = None /\ batch = {}
  /\ req = [p \in Admins |-> IdleReq]
  /\ crowd \in Crowds

----------------------------------------------------------------------------
Open == {s \in Subs : sub[s].open}
Idle(p) == IF p = Job THEN batch = {} ELSE req[p].pc = "idle"
Begins(p) == Idle(p) /\ Cardinality({q \in Procs : ~Idle(q)}) < crowd
Go(p, q) == req' = [req EXCEPT ![p] = q]
Finish(p) == Go(p, IdleReq)

(* changePlan. The usage it tests is the counter of the hotel row it read. *)
(* Bound: every change under way has a row to insert.                      *)
Changing == {p \in Admins : req[p].pc \in {"trial", "read", "close", "insert"}}
Unused == {s \in Subs : sub[s].status = "none"}

ChangeStart(p, plan, force) ==
  /\ Begins(p) /\ Cardinality(Changing) < Cardinality(Unused)
  /\ ~force => hotel.rooms <= plan
  /\ Go(p, [IdleReq EXCEPT !.pc = "trial", !.plan = plan, !.force = force])
  /\ UNCHANGED <<sub, room, hotel, lock, batch, day, faults, crowd>>

PriorTrials_Open == {s \in Open : sub[s].ends # 0}
PriorTrials == {s \in Subs : sub[s].ends # 0}

ChangeTrial(p) ==
  /\ req[p].pc = "trial"
  /\ IF req[p].plan \in Trials /\ ~req[p].force /\ PriorTrials # {}
     THEN Finish(p) ELSE Go(p, [req[p] EXCEPT !.pc = "read"])
  /\ UNCHANGED <<sub, room, hotel, lock, batch, day, faults, crowd>>

ChangeRead(p) ==
  /\ req[p].pc = "read"
  /\ IF Open = {} THEN Go(p, [req[p] EXCEPT !.pc = "insert"])
     ELSE \E s \in Open : Go(p, [req[p] EXCEPT !.pc = "close", !.s = s,
                                               !.row = [sub[s] EXCEPT !.open = FALSE]])
  /\ UNCHANGED <<sub, room, hotel, lock, batch, day, faults, crowd>>

ChangeClose(p) ==
  /\ req[p].pc = "close"
  /\ sub' = [sub EXCEPT ![req[p].s] = req[p].row]
  /\ Go(p, [req[p] EXCEPT !.pc = "insert"])
  /\ UNCHANGED <<room, hotel, lock, batch, day, faults, crowd>>

ChangeInsert(p) ==
  /\ req[p].pc = "insert"
  /\ LET s == CHOOSE s \in Unused : \A t \in Unused : s <= t
     IN sub' = [sub EXCEPT ![s] = NewSub(req[p].plan, req[p].force)]
  /\ Finish(p)
  /\ UNCHANGED <<room, hotel, lock, batch, day, faults, crowd>>

(* extendTrial, of a trial that runs or is overdue. Bound: ends \in Days.   *)
ExtendRead(p, s) ==
  /\ Begins(p) /\ s \in Open /\ sub[s].status = "trial"
  /\ sub[s].ends + TrialDays \in Days
  /\ Go(p, [IdleReq EXCEPT !.pc = "extend", !.s = s, !.row = [sub[s] EXCEPT !.ends = @ + TrialDays]])
  /\ UNCHANGED <<sub, room, hotel, lock, batch, day, faults, crowd>>

ExtendSave(p) ==
  /\ req[p].pc = "extend"
  /\ sub' = [sub EXCEPT ![req[p].s] = req[p].row]
  /\ Finish(p)
  /\ UNCHANGED <<room, hotel, lock, batch, day, faults, crowd>>

----------------------------------------------------------------------------
(* update, suspend and reactivate of the hotel: the row read, then saved.  *)
HotelRead(p, suspended) ==
  /\ Begins(p)
  /\ Go(p, [IdleReq EXCEPT !.pc = "hotel", !.hotel = [hotel EXCEPT !.suspended = suspended]])
  /\ UNCHANGED <<sub, room, hotel, lock, batch, day, faults, crowd>>

HotelSave(p) ==
  /\ req[p].pc = "hotel" /\ lock = None
  /\ hotel' = req[p].hotel
  /\ Finish(p)
  /\ UNCHANGED <<sub, room, lock, batch, day, faults, crowd>>

----------------------------------------------------------------------------
(* createRoom and bulkCommit give new rooms a status that counts (none, if *)
(* all were duplicates), updateRoom changes the status of one room.        *)
Applies(set, to) ==
  \/ Counts(to) /\ \A r \in set : room[r] = "none"
  \/ \E r \in Rooms : set = {r} /\ room[r] \notin {"none", to} /\ to # "none"

NeedsSeats(set, to) == Counts(to) /\ set \cap Countable = {}

RoomsLock_NoLock(p, set, to) ==
  /\ Begins(p) /\ Applies(set, to)
  /\ Go(p, [IdleReq EXCEPT !.pc = IF NeedsSeats(set, to) THEN "limit" ELSE "rooms",
                           !.set = set, !.to = to])
  /\ UNCHANGED <<sub, room, hotel, lock, batch, day, faults, crowd>>

(* The hotel row is locked before anything is read. *)
RoomsLock(p, set, to) ==
  /\ Begins(p) /\ lock = None /\ lock' = p
  /\ Applies(set, to)
  /\ Go(p, [IdleReq EXCEPT !.pc = IF NeedsSeats(set, to) THEN "limit" ELSE "rooms",
                           !.set = set, !.to = to])
  /\ UNCHANGED <<sub, room, hotel, batch, day, faults, crowd>>

Release(p) == lock' = IF lock = p THEN None ELSE lock

(* roomsLimit reads the plan on another connection; without a plan there   *)
(* is no limit. The count was taken under the lock, so it is still true.   *)
RoomsLimit ==
  IF Open = {} THEN {Cardinality(Rooms)} ELSE {sub[s].plan : s \in Open}

SeatsFit(p, limit) == Cardinality(Countable) + Cardinality(req[p].set) <= limit

RoomsCheck(p) ==
  /\ req[p].pc = "limit"
  /\ \E limit \in RoomsLimit :
       IF SeatsFit(p, limit)
       THEN Go(p, [req[p] EXCEPT !.pc = "rooms", !.limit = limit]) /\ UNCHANGED lock
       ELSE Finish(p) /\ Release(p)
  /\ UNCHANGED <<sub, room, hotel, batch, day, faults, crowd>>

(* Rooms and counter are saved in one transaction. *)
RoomsSave(p) ==
  /\ req[p].pc = "rooms"
  /\ room' = [r \in Rooms |-> IF r \in req[p].set THEN req[p].to ELSE room[r]]
  /\ hotel' = [hotel EXCEPT !.rooms = Cardinality(Countable')]
  /\ Finish(p) /\ Release(p)
  /\ UNCHANGED <<sub, batch, day, faults, crowd>>

----------------------------------------------------------------------------
Overdue_Yesterday(row) == row.status = "trial" /\ row.ends = day - 1
Overdue(row) == row.status = "trial" /\ row.ends < day

(* expireOverdueTrials reads every overdue row, the closed ones too, then  *)
(* saves one after the other.                                              *)
JobRead ==
  /\ Begins(Job)
  /\ batch' = {<<s, [sub[s] EXCEPT !.status = "expired"]>> : s \in {t \in Subs : Overdue(sub[t])}}
  /\ UNCHANGED <<sub, room, hotel, lock, req, day, faults, crowd>>

JobSave ==
  /\ \E b \in batch : sub' = [sub EXCEPT ![b[1]] = b[2]] /\ batch' = batch \ {b}
  /\ UNCHANGED <<room, hotel, lock, req, day, faults, crowd>>

(* A save fails or the process stops: the run drops its other rows, a      *)
(* request stops where it is and its transaction rolls back.               *)
JobFail ==
  /\ batch # {} /\ faults < MaxFaults
  /\ batch' = {} /\ faults' = faults + 1
  /\ UNCHANGED <<sub, room, hotel, lock, req, day, crowd>>

Fail(p) ==
  /\ ~Idle(p) /\ faults < MaxFaults
  /\ Finish(p) /\ Release(p) /\ faults' = faults + 1
  /\ UNCHANGED <<sub, room, hotel, batch, day, crowd>>

Tick ==
  /\ day < MaxDay /\ day' = day + 1
  /\ UNCHANGED <<sub, room, hotel, lock, req, batch, faults, crowd>>

Continue(p) ==
  \/ ChangeTrial(p) \/ ChangeRead(p) \/ ChangeClose(p) \/ ChangeInsert(p)
  \/ ExtendSave(p) \/ HotelSave(p) \/ RoomsCheck(p) \/ RoomsSave(p)

Begin(p) ==
  \/ \E plan \in Plans, force \in BOOLEAN : ChangeStart(p, plan, force)
  \/ \E s \in Subs : ExtendRead(p, s)
  \/ \E suspended \in BOOLEAN : HotelRead(p, suspended)
  \/ \E set \in SUBSET Rooms, to \in RoomStatuses : RoomsLock(p, set, to)

Next ==
  \/ \E p \in Admins : Begin(p) \/ Continue(p) \/ Fail(p)
  \/ JobRead \/ JobSave \/ JobFail \/ Tick

Spec == Init /\ [][Next]_vars

(* The cron fires every night, whoever else is at work; a run goes on.     *)
FairSpec ==
  /\ Spec
  /\ \A p \in Admins : WF_vars(Continue(p))
  /\ SF_vars(JobRead) /\ WF_vars(JobSave)

----------------------------------------------------------------------------
(* Types, and of every row: it has a trial end if and only if it began as  *)
(* a trial.                                                                *)
TypeOK ==
  /\ sub \in [Subs -> SubRow]
  /\ \A s \in Subs : sub[s].status \in {"trial", "expired"} <=> sub[s].ends # 0
  /\ room \in [Rooms -> RoomStatuses]
  /\ hotel \in Hotel
  /\ lock \in Admins \cup {None}
  /\ req \in [Admins -> Request]
  /\ batch \subseteq Subs \X SubRow
  /\ day \in 0..MaxDay /\ faults \in 0..MaxFaults /\ crowd \in Crowds

(* Rooms are added up to the limit of the plan that was current when the   *)
(* request looked it up, and never beyond, however many requests race for  *)
(* the last seat ("two concurrent creates for the last seat can't both     *)
(* pass").                                                                 *)
SeatsWithinLimit ==
  [][Cardinality(Countable') > Cardinality(Countable) =>
       \E p \in Admins : /\ req[p].pc = "rooms" /\ req'[p] # req[p]
                         /\ Cardinality(Countable') <= req[p].limit]_vars

AtRest == crowd = 1 /\ faults = 0 /\ \A p \in Procs : Idle(p)

(* One at a time and without failures, the hotel has one open subscription *)
(* between requests, no more rooms than its plan unless the plan was       *)
(* forced on it, a counter that says how many, and at most one trial that  *)
(* was not forced.                                                         *)
AlonePlanHolds ==
  /\ TypeOK
  /\ AtRest =>
    /\ \E s \in Subs : Open = {s} /\ (sub[s].forced \/ Cardinality(Countable) <= sub[s].plan)
    /\ hotel.rooms = Cardinality(Countable)
    /\ Cardinality({s \in Subs : sub[s].ends # 0 /\ ~sub[s].forced}) <= 1

(* A trial that is over does not stay open as a trial: a later run expires *)
(* it unless it is extended or converted, though nights are missed, runs   *)
(* stop half way and stale rows are saved over newer ones.                 *)
OverdueTrialEnds ==
  \A s \in Subs : LET overdue == sub[s].open /\ sub[s].status = "trial" /\ sub[s].ends < day
                  IN overdue ~> ~overdue

(* A closed subscription is history and is never written again (the        *)
(* contract of the entity Subscription).                                   *)
HistoryIsFinal ==
  [][\A s \in Subs : sub[s].status # "none" /\ ~sub[s].open => sub'[s] = sub[s]]_vars
=============================================================================
