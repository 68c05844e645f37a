------------------------------- MODULE Events -------------------------------
(***************************************************************************)
(* One hotel event: TenantEventsService (edit, publish, cancel), the       *)
(* guest's booking and self-cancel, and the five-minute completion tick.   *)
(*                                                                         *)
(* Only `book` and `cancel` lock the event row.  Edits and the tick save   *)
(* whole rows they read before; an UPDATE waits for a row lock, the read   *)
(* it rests on does not.  Staff are the editors: the back-office users     *)
(* that may work on this event at the same time.                           *)
(***************************************************************************)
EXTENDS Naturals, FiniteSets

CONSTANTS Staff, Guests,  \* concurrent requests of either side
          Sched,          \* the completion tick
          Bookings,       \* bound: ids of bookings ever made
          Caps,           \* capacities an edit may ask for
          Prices,
          MaxParty,       \* EVENT_BOOKING_MAX_PARTY_SIZE
          None,           \* no lock; as a capacity: unlimited
          MaxFaults       \* bound: failed ticks

\* What the parameters have to be; the modules that instantiate this one assume it.
Parameters ==
  /\ Caps \subseteq Nat \ {0} /\ MaxParty \in Nat \ {0} /\ MaxFaults \in Nat
  /\ Prices # {} /\ IsFiniteSet(Bookings)
  /\ None \notin Staff \cup Guests \cup {Sched} \cup Bookings /\ None \notin Caps
  /\ Staff \cap Guests = {} /\ Sched \notin Staff \cup Guests

VARIABLES event,    \* the row of table events
          booking,  \* table event_bookings
          lock,     \* holder of the event row's FOR UPDATE lock
          req,      \* what each request has read
          running,  \* EventSchedulerService.running
          phase,    \* 0 before the start, 1 under way, 2 past the end
          faults

vars == <<event, booking, lock, req, running, phase, faults>>

Procs == Staff \cup Guests \cup {Sched}
Capacity == Caps \cup {None}
EventRow == [status: {"draft", "published", "completed", "cancelled"}, cap: Capacity, price: Prices]
BookingRow == [status: {"none", "booked", "cancelled"}, size: 0..MaxParty, price: Prices]
Request == [pc: {"idle", "save", "cancel", "wait", "insert", "withdraw"},
            row: EventRow, b: Bookings \cup {None}, size: 0..(MaxParty + 1)]

AnyPrice == CHOOSE p \in Prices : TRUE
NoBooking == [status |-> "none", size |-> 0, price |-> AnyPrice]
NoRow == [status |-> "draft", cap |-> None, price |-> AnyPrice]
IdleReq == [pc |-> "idle", row |-> NoRow, b |-> None, size |-> 0]

(* A draft that `create` has just stored. *)
Init ==
  /\ event \in [status: {"draft"}, cap: Capacity, price: Prices]
  /\ booking = [b \in Bookings |-> NoBooking]
  /\ lock = None /\ req = [p \in Procs |-> IdleReq]
  /\ running = FALSE /\ phase = 0 /\ faults = 0

Idle(p) == req[p].pc = "idle"
Go(p, q) == req' = [req EXCEPT ![p] = q]
Booked == {b \in Bookings : booking[b].status = "booked"}

\* The sum of the parties' sizes, counted seat by seat: a seat is a booking
\* and a number within its party.
Seats == {s \in Bookings \X (1..MaxParty) :
            booking[s[1]].status = "booked" /\ s[2] <= booking[s[1]].size}
Sold == Cardinality(Seats)

----------------------------------------------------------------------------
(* Back office. *)

RaisesOnly_NullFree(old, new) == {None} \cap {old, new} = {} => new >= old

(* A published capacity may rise or become unlimited; from unlimited any   *)
(* number is a reduction.                                                  *)
RaisesOnly(old, new) == new # None => (old # None /\ new >= old)

Editable_PriceToo(row, new) ==
  \/ row.status = "draft"
  \/ row.status = "published" /\ (new.cap = row.cap \/ RaisesOnly(row.cap, new.cap))

(* The safe-edit matrix. *)
Editable(row, new) ==
  \/ row.status = "draft"
  \/ row.status = "published" /\ new.price = row.price
       /\ (new.cap = row.cap \/ RaisesOnly(row.cap, new.cap))

(* update and the photo changes: the row is read, judged and saved later. *)
EditRead(p, c, pr) ==
  LET new == [event EXCEPT !.cap = c, !.price = pr]
  IN /\ Idle(p) /\ Editable(event, new)
     /\ Go(p, [IdleReq EXCEPT !.pc = "save", !.row = new])
     /\ UNCHANGED <<event, booking, lock, running, phase, faults>>

PublishRead(p) ==
  /\ Idle(p) /\ event.status = "draft" /\ phase = 0
  /\ Go(p, [IdleReq EXCEPT !.pc = "save", !.row = [event EXCEPT !.status = "published"]])
  /\ UNCHANGED <<event, booking, lock, running, phase, faults>>

SaveRow(p) ==
  /\ req[p].pc = "save" /\ lock = None
  /\ event' = req[p].row
  /\ Go(p, IdleReq)
  /\ UNCHANGED <<booking, lock, phase, faults>>

SaveEvent(p) == p \in Staff /\ SaveRow(p) /\ UNCHANGED running

CancelLock(p) ==
  /\ Idle(p) /\ lock = None /\ event.status = "published"
  /\ lock' = p
  /\ Go(p, [IdleReq EXCEPT !.pc = "cancel"])
  /\ UNCHANGED <<event, booking, running, phase, faults>>

CancelCommit_EventOnly(p) ==
  /\ req[p].pc = "cancel"
  /\ event' = [event EXCEPT !.status = "cancelled"]
  /\ lock' = None /\ Go(p, IdleReq)
  /\ UNCHANGED <<booking, running, phase, faults>>

(* The event and every active booking of it, in one transaction. *)
CancelCommit(p) ==
  /\ req[p].pc = "cancel"
  /\ event' = [event EXCEPT !.status = "cancelled"]
  /\ booking' = [b \in Bookings |-> IF b \in Booked THEN [booking[b] EXCEPT !.status = "cancelled"] ELSE booking[b]]
  /\ lock' = None /\ Go(p, IdleReq)
  /\ UNCHANGED <<running, phase, faults>>

----------------------------------------------------------------------------
(* Guests.  `now` is taken when the request arrives, before the lock.      *)
BookStart(p, b, n) ==
  /\ Idle(p) /\ phase = 0 /\ booking[b].status = "none"
  /\ \A q \in Procs : req[q].b # b
  /\ Go(p, [IdleReq EXCEPT !.pc = "wait", !.b = b, !.size = n])
  /\ UNCHANGED <<event, booking, lock, running, phase, faults>>

Fits(n) == event.cap # None => Sold + n <= event.cap

PartyAllowed_NoMax(n) == n >= 1
PartyAllowed(n) == n \in 1..MaxParty

BookLock_NoLock(p) ==
  /\ req[p].pc = "wait" /\ PartyAllowed(req[p].size)
  /\ event.status = "published" /\ Fits(req[p].size)
  /\ Go(p, [req[p] EXCEPT !.pc = "insert", !.row = event])
  /\ UNCHANGED <<event, booking, lock, running, phase, faults>>

BookLock(p) ==
  /\ req[p].pc = "wait" /\ lock = None /\ PartyAllowed(req[p].size)
  /\ event.status = "published" /\ Fits(req[p].size)
  /\ lock' = p
  /\ Go(p, [req[p] EXCEPT !.pc = "insert", !.row = event])
  /\ UNCHANGED <<event, booking, running, phase, faults>>

(* Not published any more, a bad party or not enough spots: refused. *)
BookRefused(p) ==
  /\ req[p].pc = "wait" /\ lock = None
  /\ event.status # "published" \/ ~PartyAllowed(req[p].size) \/ ~Fits(req[p].size)
  /\ Go(p, IdleReq)
  /\ UNCHANGED <<event, booking, lock, running, phase, faults>>

BookInsert(p) ==
  /\ req[p].pc = "insert"
  /\ booking' = [booking EXCEPT ![req[p].b] =
                   [status |-> "booked", size |-> req[p].size, price |-> req[p].row.price]]
  /\ lock' = IF lock = p THEN None ELSE lock
  /\ Go(p, IdleReq)
  /\ UNCHANGED <<event, running, phase, faults>>

(* cancelOwn: no lock; it saves the row it read. *)
WithdrawRead(p, b) ==
  /\ Idle(p) /\ b \in Booked /\ phase = 0
  /\ Go(p, [IdleReq EXCEPT !.pc = "withdraw", !.b = b])
  /\ UNCHANGED <<event, booking, lock, running, phase, faults>>

WithdrawSave(p) ==
  /\ req[p].pc = "withdraw"
  /\ booking' = [booking EXCEPT ![req[p].b].status = "cancelled"]
  /\ Go(p, IdleReq)
  /\ UNCHANGED <<event, lock, running, phase, faults>>

----------------------------------------------------------------------------
(* The completion tick. *)
TickRead ==
  /\ Idle(Sched) /\ ~running /\ event.status = "published" /\ phase = 2
  /\ running' = TRUE
  /\ Go(Sched, [IdleReq EXCEPT !.pc = "save", !.row = [event EXCEPT !.status = "completed"]])
  /\ UNCHANGED <<event, booking, lock, phase, faults>>

TickSave == SaveRow(Sched) /\ running' = FALSE

TickFail_NoFinally ==
  /\ req[Sched].pc = "save" /\ faults < MaxFaults
  /\ Go(Sched, IdleReq) /\ faults' = faults + 1
  /\ UNCHANGED <<event, booking, lock, running, phase>>

TickFail ==
  /\ req[Sched].pc = "save" /\ faults < MaxFaults
  /\ Go(Sched, IdleReq) /\ running' = FALSE /\ faults' = faults + 1
  /\ UNCHANGED <<event, booking, lock, phase>>

(* No guest request is open from before the start until after the end. *)
Clock ==
  /\ phase < 2 /\ (phase = 1 => \A p \in Guests : Idle(p))
  /\ phase' = phase + 1
  /\ UNCHANGED <<event, booking, lock, req, running, faults>>

----------------------------------------------------------------------------
Begin ==
  \/ \E p \in Staff, c \in Capacity, pr \in Prices : EditRead(p, c, pr)
  \/ \E p \in Staff : PublishRead(p) \/ CancelLock(p)
  \/ \E p \in Guests, b \in Bookings, n \in 0..(MaxParty + 1) : BookStart(p, b, n)
  \/ \E p \in Guests, b \in Bookings : WithdrawRead(p, b)

Continue(p) ==
  \/ SaveEvent(p) \/ CancelCommit(p)
  \/ BookLock(p) \/ BookRefused(p) \/ BookInsert(p) \/ WithdrawSave(p)

Next ==
  \/ Begin \/ (\E p \in Staff \cup Guests : Continue(p))
  \/ TickRead \/ TickSave \/ TickFail \/ Clock

Spec == Init /\ [][Next]_vars

(* Requests that began go on; the row lock is granted in arrival order.    *)
Fairness ==
  /\ \A p \in Staff \cup Guests : WF_vars(Continue(p)) /\ SF_vars(SaveEvent(p))
  /\ WF_vars(TickRead) /\ SF_vars(TickSave)
FairSpec == Spec /\ Fairness

----------------------------------------------------------------------------
TypeOK ==
  /\ event \in EventRow
  /\ booking \in [Bookings -> BookingRow]
  /\ lock \in Procs \cup {None}
  /\ req \in [Procs -> Request]
  /\ running \in BOOLEAN /\ phase \in 0..2 /\ faults \in 0..MaxFaults

(* With one editor at a time, the seats sold never exceed the capacity the *)
(* event shows, though guests race for the last seats, cancel, and the     *)
(* capacity is raised meanwhile ("overbooking is impossible").             *)
NeverOverbooked == event.cap # None => Sold <= event.cap

(* What a guest has booked stands: a cancelled event has no active booking *)
(* left and gets none later, and nobody who holds a booking pays another   *)
(* price than the event shows.                                             *)
BookingsStand ==
  /\ TypeOK
  /\ event.status = "cancelled" => Booked = {}
  /\ \A b \in Booked : booking[b].price = event.price
=============================================================================
