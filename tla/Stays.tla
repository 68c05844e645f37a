------------------------------- MODULE Stays -------------------------------
(***************************************************************************)
(* The stay desk of one hotel: TenantStaysService (check-in, edit, room    *)
(* change, code regeneration, checkout), the hourly AutoCheckoutService,   *)
(* the status half of TenantRoomsService.updateRoom, the vacate hook of    *)
(* HousekeepingService and its other writers of the room row.              *)
(*                                                                         *)
(* stay, room are database rows.  A request is a process: it reads rows    *)
(* into a snapshot, and a later step saves the snapshot.  TypeORM's        *)
(* save(entity) writes every column in which the entity differs from the   *)
(* row found at that moment, so a save makes the row equal to the          *)
(* snapshot, columns the handler never touched included.  A refused        *)
(* request (404, 409, 400) changes nothing and is no step.                 *)
(***************************************************************************)
EXTENDS Naturals, FiniteSets

CONSTANTS Rooms, Stays, Codes,   \* rows of the hotel, codes that can be drawn
          Staff,                 \* concurrent staff requests
          Sched,                 \* the auto-checkout run
          None,                  \* no stay, room, code, lock holder
          Targets,               \* bound: room statuses updateRoom is asked for
          MaxBusy,               \* bound: requests and runs under way at once
          MaxDay,                \* bound: calendar days
          MaxFaults              \* bound: crashes and database errors

ASSUME StaysAssumption ==
  /\ MaxBusy \in Nat /\ MaxDay \in Nat /\ MaxFaults \in Nat
  /\ Targets \subseteq {"active", "out_of_service", "inactive"}
  /\ Sched \notin Staff /\ None \notin Rooms \cup Stays \cup Codes \cup Staff \cup {Sched}

VARIABLES stay,       \* table stays
          room,       \* table rooms: status and "awaits its checkout clean"
          hotelLock,  \* who holds the hotel row FOR UPDATE
          req,        \* what each request has read and where it stands
          cand,       \* candidates of the auto-checkout run still to close
          running,    \* AutoCheckoutService.running
          clock,      \* half days: odd means past the hotel's checkout time
          faults,     \* faults so far
          owed        \* history: rooms a checkout or move vacated, not yet flagged

vars == <<stay, room, hotelLock, req, cand, running, clock, faults, owed>>

Procs == Staff \cup {Sched}
Days  == 0..MaxDay

StayRow == [status: {"none", "active", "checked_out"}, room: Rooms \cup {None},
            code: Codes \cup {None}, due: Days, by: {"none", "manual", "automatic"}]
RoomRow == [status: {"active", "out_of_service", "inactive"}, turnover: BOOLEAN]
PCs == {"idle", "code", "insert", "update", "move", "regen", "regen_save",
        "checkout", "vacate", "vacate_save", "room_save", "hk_save", "auto"}
Request == [pc: PCs, sid: Stays \cup {None}, row: StayRow,
            room: Rooms \cup {None}, rrow: RoomRow]

NoStay == [status |-> "none", room |-> None, code |-> None, due |-> 0, by |-> "none"]
NoRoom == [status |-> "inactive", turnover |-> FALSE]
IdleReq == [pc |-> "idle", sid |-> None, row |-> NoStay, room |-> None, rrow |-> NoRoom]

Init ==
  /\ stay = [s \in Stays |-> NoStay]
  /\ room = [r \in Rooms |-> [status |-> "active", turnover |-> FALSE]]
  /\ hotelLock = None
  /\ req = [p \in Procs |-> IdleReq]
  /\ cand = {} /\ running = FALSE
  /\ clock = 0 /\ faults = 0 /\ owed = {}

----------------------------------------------------------------------------
(* Time: hotelLocalParts gives today's date, isStayOverdue compares it.    *)
Today == clock \div 2
PastCheckoutTime == clock % 2 = 1
Overdue(due) == due < Today \/ (due = Today /\ PastCheckoutTime)

Active(s) == stay[s].status = "active"
ActiveIn(r) == {s \in Stays : Active(s) /\ stay[s].room = r}
ActiveCodes == {stay[s].code : s \in {t \in Stays : Active(t)}}

(* Slips (names with _): variants of a definition, each with one mistake.  *)
IndexesAllow_CodeOnly(s, row) ==
  row.status = "active" =>
    \A t \in Stays \ {s} : Active(t) => stay[t].code # row.code

IndexesAllow_RoomOnly(s, row) ==
  row.status = "active" =>
    \A t \in Stays \ {s} : Active(t) => stay[t].room # row.room

(* The partial unique indexes UQ_stays_room_active, UQ_stays_hotel_code_active. *)
IndexesAllow(s, row) ==
  row.status = "active" =>
    \A t \in Stays \ {s} :
      Active(t) => stay[t].room # row.room /\ stay[t].code # row.code

(* The save of a checkout or a room change, and the rooms it vacates. *)
Vacates(s, row) ==
  {r \in Rooms : s \in ActiveIn(r) /\ ~(row.status = "active" /\ row.room = r)}

LeaveRoom(s, row) ==
  /\ stay' = [stay EXCEPT ![s] = row]
  /\ owed' = owed \cup Vacates(s, row)

(* lockAvailableRoom keeps the room row locked until its transaction ends. *)
RoomLocked(r) ==
  \E p \in Procs : req[p].pc \in {"code", "insert", "move"} /\ req[p].room = r

Idle(p) == req[p].pc = "idle"
Begins(p) == Idle(p) /\ Cardinality({q \in Procs : ~Idle(q)}) < MaxBusy
Go(p, q) == req' = [req EXCEPT ![p] = q]
Finish(p) == Go(p, IdleReq)
Release(p) == hotelLock' = IF hotelLock = p THEN None ELSE hotelLock

LockHotel(p) == hotelLock = None /\ hotelLock' = p
RoomAvailable_Usable(r) == room[r].status # "inactive" /\ ActiveIn(r) = {}
RoomAvailable(r) == room[r].status = "active" /\ ActiveIn(r) = {}

----------------------------------------------------------------------------
(* checkIn: lock the hotel, lock and test the room, draw a code, insert.   *)
(* Bound: as many check-ins as there are Stays.                            *)
CheckInLock(p, r) ==
  /\ Begins(p) /\ LockHotel(p)
  /\ \E s \in Stays : stay[s].status = "none"
  /\ RoomAvailable(r)
  /\ Go(p, [IdleReq EXCEPT !.pc = "code", !.room = r])
  /\ UNCHANGED <<stay, room, cand, running, clock, faults, owed>>

(* issueUniqueCode inside the check-in transaction. *)
CheckInCode(p, c) ==
  /\ req[p].pc = "code" /\ c \notin ActiveCodes
  /\ Go(p, [req[p] EXCEPT !.pc = "insert", !.row.code = c])
  /\ UNCHANGED <<stay, room, hotelLock, cand, running, clock, faults, owed>>

(* Every one of its attempts hit a code in use: the request fails. *)
CodesExhausted(p) ==
  /\ req[p].pc \in {"code", "regen"} /\ ActiveCodes # {}
  /\ Finish(p) /\ Release(p)
  /\ UNCHANGED <<stay, room, cand, running, clock, faults, owed>>

NewStay_NextDay(r, c, d) ==
  [status |-> "active", room |-> r, code |-> c, due |-> d + 1, by |-> "none"]

NewStay(r, c, d) ==
  [status |-> "active", room |-> r, code |-> c, due |-> d, by |-> "none"]

(* The check-out date only has to be after the check-in date of the form,  *)
(* which may lie in the past: any day can be booked.                       *)
CheckInInsert(p, s, d) ==
  /\ req[p].pc = "insert" /\ stay[s].status = "none"
  /\ LET row == NewStay(req[p].room, req[p].row.code, d) IN
     stay' = IF IndexesAllow(s, row) THEN [stay EXCEPT ![s] = row] ELSE stay
  /\ Finish(p) /\ Release(p)
  /\ UNCHANGED <<room, cand, running, clock, faults, owed>>

----------------------------------------------------------------------------
UpdateRead_Reopens(p, s, d) ==
  /\ Begins(p) /\ stay[s].status # "none" /\ d >= Today
  /\ Go(p, [IdleReq EXCEPT !.pc = "update", !.sid = s,
             !.row = [stay[s] EXCEPT !.due = d, !.status = "active"]])
  /\ UNCHANGED <<stay, room, hotelLock, cand, running, clock, faults, owed>>

(* Requests that read a stay outside the hotel lock.  due is the new date  *)
(* of the form, or the old one when only guest information changes.        *)
UpdateRead(p, s, d) ==
  /\ Begins(p) /\ Active(s)
  /\ d = stay[s].due \/ d >= Today
  /\ Go(p, [IdleReq EXCEPT !.pc = "update", !.sid = s, !.row = [stay[s] EXCEPT !.due = d]])
  /\ UNCHANGED <<stay, room, hotelLock, cand, running, clock, faults, owed>>

RegenRead(p, s) ==
  /\ Begins(p) /\ Active(s)
  /\ Go(p, [IdleReq EXCEPT !.pc = "regen", !.sid = s, !.row = stay[s]])
  /\ UNCHANGED <<stay, room, hotelLock, cand, running, clock, faults, owed>>

RegenCode(p, c) ==
  /\ req[p].pc = "regen" /\ c \notin ActiveCodes
  /\ Go(p, [req[p] EXCEPT !.pc = "regen_save", !.row.code = c])
  /\ UNCHANGED <<stay, room, hotelLock, cand, running, clock, faults, owed>>

(* The save of update and regenerateCode. *)
SaveSnapshot(p) ==
  /\ req[p].pc \in {"update", "regen_save"}
  /\ stay' = IF IndexesAllow(req[p].sid, req[p].row)
             THEN [stay EXCEPT ![req[p].sid] = req[p].row] ELSE stay
  /\ Finish(p)
  /\ UNCHANGED <<room, hotelLock, cand, running, clock, faults, owed>>

CheckoutRead(p, s) ==
  /\ Begins(p) /\ Active(s)
  /\ Go(p, [IdleReq EXCEPT !.pc = "checkout", !.sid = s, !.row = stay[s]])
  /\ UNCHANGED <<stay, room, hotelLock, cand, running, clock, faults, owed>>

Closed(row, how) == [row EXCEPT !.status = "checked_out", !.by = how]

CheckoutSave(p) ==
  /\ req[p].pc = "checkout"
  /\ LeaveRoom(req[p].sid, Closed(req[p].row, "manual"))
  /\ Go(p, [IdleReq EXCEPT !.pc = "vacate", !.room = req[p].row.room])
  /\ UNCHANGED <<room, hotelLock, cand, running, clock, faults>>

----------------------------------------------------------------------------
(* changeRoom: the hotel and the target room are locked, the stay is not.  *)
MoveLock(p, s, r) ==
  /\ Begins(p) /\ LockHotel(p)
  /\ Active(s) /\ stay[s].room # r /\ RoomAvailable(r)
  /\ Go(p, [IdleReq EXCEPT !.pc = "move", !.sid = s, !.row = stay[s], !.room = r])
  /\ UNCHANGED <<stay, room, cand, running, clock, faults, owed>>

MoveSave_FlagsTarget(p) ==
  /\ req[p].pc = "move"
  /\ LeaveRoom(req[p].sid, [req[p].row EXCEPT !.room = req[p].room])
  /\ Go(p, [IdleReq EXCEPT !.pc = "vacate", !.room = req[p].room])
  /\ Release(p)
  /\ UNCHANGED <<room, cand, running, clock, faults>>

MoveSave(p) ==
  /\ req[p].pc = "move"
  /\ LET row == [req[p].row EXCEPT !.room = req[p].room] IN
     IF IndexesAllow(req[p].sid, row)
     THEN /\ LeaveRoom(req[p].sid, row)
          /\ Go(p, [IdleReq EXCEPT !.pc = "vacate", !.room = req[p].row.room])
     ELSE UNCHANGED <<stay, owed>> /\ Finish(p)
  /\ Release(p)
  /\ UNCHANGED <<room, cand, running, clock, faults>>

----------------------------------------------------------------------------
(* HousekeepingService.onRoomVacated, awaited by checkout, changeRoom and  *)
(* the auto-checkout loop: read the room, save it flagged.                 *)
AfterVacate(p) == IF p = Sched THEN [IdleReq EXCEPT !.pc = "auto"] ELSE IdleReq

VacateRead(p) ==
  /\ req[p].pc = "vacate"
  /\ Go(p, [req[p] EXCEPT !.pc = "vacate_save", !.rrow = room[req[p].room]])
  /\ UNCHANGED <<stay, room, hotelLock, cand, running, clock, faults, owed>>

VacateSave(p) ==
  /\ req[p].pc = "vacate_save" /\ ~RoomLocked(req[p].room)
  /\ room' = [room EXCEPT ![req[p].room] = [req[p].rrow EXCEPT !.turnover = TRUE]]
  /\ owed' = owed \ {req[p].room}
  /\ Go(p, AfterVacate(p))
  /\ UNCHANGED <<stay, hotelLock, cand, running, clock, faults>>

(* The hook swallows an error: the checkout stands, the flag is lost. *)
VacateFail(p) ==
  /\ req[p].pc \in {"vacate", "vacate_save"} /\ faults < MaxFaults
  /\ faults' = faults + 1
  /\ Go(p, AfterVacate(p))
  /\ UNCHANGED <<stay, room, hotelLock, cand, running, clock, owed>>

(* Every other housekeeping writer of the room row: clear and complete end *)
(* the turnover, assign, start, interrupt and the DND toggle leave it.     *)
HkRead(p, r, flag) ==
  /\ Begins(p) /\ room[r].status # "inactive"
  /\ flag => room[r].turnover
  /\ Go(p, [IdleReq EXCEPT !.pc = "hk_save", !.room = r,
                           !.rrow = [room[r] EXCEPT !.turnover = flag]])
  /\ UNCHANGED <<stay, room, hotelLock, cand, running, clock, faults, owed>>

HkSave(p) ==
  /\ req[p].pc = "hk_save" /\ ~RoomLocked(req[p].room)
  /\ room' = [room EXCEPT ![req[p].room] = req[p].rrow]
  /\ Finish(p)
  /\ UNCHANGED <<stay, hotelLock, cand, running, clock, faults, owed>>

----------------------------------------------------------------------------
RoomStatusRead_Occupied(p, r, st) ==
  /\ Begins(p) /\ LockHotel(p)
  /\ Go(p, [IdleReq EXCEPT !.pc = "room_save", !.room = r,
                           !.rrow = [room[r] EXCEPT !.status = st]])
  /\ UNCHANGED <<stay, room, cand, running, clock, faults, owed>>

(* updateRoom under the hotel lock: a room with an active stay may not     *)
(* leave `active`; st = the old status stands for the other edits.         *)
RoomStatusRead(p, r, st) ==
  /\ Begins(p) /\ LockHotel(p)
  /\ st # room[r].status /\ room[r].status = "active" => ActiveIn(r) = {}
  /\ Go(p, [IdleReq EXCEPT !.pc = "room_save", !.room = r,
                           !.rrow = [room[r] EXCEPT !.status = st]])
  /\ UNCHANGED <<stay, room, cand, running, clock, faults, owed>>

RoomStatusSave(p) ==
  /\ req[p].pc = "room_save" /\ ~RoomLocked(req[p].room)
  /\ room' = [room EXCEPT ![req[p].room] = req[p].rrow]
  /\ Finish(p) /\ Release(p)
  /\ UNCHANGED <<stay, cand, running, clock, faults, owed>>

----------------------------------------------------------------------------
AutoStart_HorizonOnly ==
  /\ Begins(Sched) /\ ~running
  /\ running' = TRUE
  /\ cand' = {<<s, stay[s]>> : s \in {t \in Stays : Active(t) /\ stay[t].due <= Today + 1}}
  /\ Go(Sched, [IdleReq EXCEPT !.pc = "auto"])
  /\ UNCHANGED <<stay, room, hotelLock, clock, faults, owed>>

(* handleHourlyAutoCheckout: candidates are read once, judged against one  *)
(* `now`, and saved one after the other.                                   *)
AutoStart ==
  /\ Begins(Sched) /\ ~running
  /\ running' = TRUE
  /\ cand' = {<<s, stay[s]>> : s \in {t \in Stays : Active(t) /\ Overdue(stay[t].due)}}
  /\ Go(Sched, [IdleReq EXCEPT !.pc = "auto"])
  /\ UNCHANGED <<stay, room, hotelLock, clock, faults, owed>>

AutoClose(s, row) ==
  /\ req[Sched].pc = "auto"
  /\ cand' = cand \ {<<s, row>>}
  /\ LeaveRoom(s, Closed(row, "automatic"))
  /\ Go(Sched, [IdleReq EXCEPT !.pc = "vacate", !.room = row.room])
  /\ UNCHANGED <<room, hotelLock, running, clock, faults>>

AutoDone ==
  /\ req[Sched].pc = "auto" /\ cand = {}
  /\ running' = FALSE
  /\ Finish(Sched)
  /\ UNCHANGED <<stay, room, hotelLock, cand, clock, faults, owed>>

AutoFail_NoFinally ==
  /\ req[Sched].pc = "auto" /\ cand # {} /\ faults < MaxFaults
  /\ faults' = faults + 1
  /\ cand' = {}
  /\ Finish(Sched)
  /\ UNCHANGED <<stay, room, hotelLock, running, clock, owed>>

(* A save throws: the rest of the run is dropped, `finally` clears the flag. *)
AutoFail ==
  /\ req[Sched].pc = "auto" /\ cand # {} /\ faults < MaxFaults
  /\ faults' = faults + 1
  /\ cand' = {} /\ running' = FALSE
  /\ Finish(Sched)
  /\ UNCHANGED <<stay, room, hotelLock, clock, owed>>

----------------------------------------------------------------------------
(* The server stops: in-flight requests and memory are lost, open          *)
(* transactions roll back, committed rows stay.                            *)
Crash ==
  /\ faults < MaxFaults /\ \E p \in Procs : ~Idle(p)
  /\ faults' = faults + 1
  /\ req' = [p \in Procs |-> IdleReq]
  /\ hotelLock' = None /\ cand' = {} /\ running' = FALSE
  /\ UNCHANGED <<stay, room, clock, owed>>

Tick ==
  /\ clock < 2 * MaxDay + 1
  /\ clock' = clock + 1
  /\ UNCHANGED <<stay, room, hotelLock, req, cand, running, faults, owed>>

----------------------------------------------------------------------------
Begin(p) ==
  \/ \E r \in Rooms : CheckInLock(p, r)
  \/ \E s \in Stays, d \in Days : UpdateRead(p, s, d)
  \/ \E s \in Stays : RegenRead(p, s)
  \/ \E s \in Stays : CheckoutRead(p, s)
  \/ \E s \in Stays, r \in Rooms : MoveLock(p, s, r)
  \/ \E r \in Rooms, st \in Targets : RoomStatusRead(p, r, st)
  \/ \E r \in Rooms, flag \in BOOLEAN : HkRead(p, r, flag)

Continue(p) ==
  \/ \E c \in Codes : CheckInCode(p, c)
  \/ CodesExhausted(p)
  \/ \E s \in Stays, d \in Days : CheckInInsert(p, s, d)
  \/ \E c \in Codes : RegenCode(p, c)
  \/ SaveSnapshot(p)
  \/ CheckoutSave(p)
  \/ MoveSave(p)
  \/ VacateRead(p)
  \/ VacateSave(p)
  \/ HkSave(p)
  \/ RoomStatusSave(p)

AutoRun == AutoStart \/ (\E e \in cand : AutoClose(e[1], e[2])) \/ AutoDone

Fault == (\E p \in Procs : VacateFail(p)) \/ AutoFail \/ Crash

Next ==
  \/ \E p \in Staff : Begin(p)
  \/ \E p \in Procs : Continue(p)
  \/ AutoRun \/ Fault \/ Tick

Spec == Init /\ [][Next]_vars

(* Requests that have begun are carried on by the event loop, the cron     *)
(* fires every hour, and PostgreSQL grants a row lock in arrival order, so *)
(* a save that keeps finding the room free is made.                        *)
Fairness ==
  /\ \A p \in Procs : WF_vars(Continue(p)) /\ SF_vars(VacateSave(p))
  /\ WF_vars(AutoRun)
FairSpec == Spec /\ Fairness

----------------------------------------------------------------------------
TypeOK ==
  /\ stay \in [Stays -> StayRow]
  /\ room \in [Rooms -> RoomRow]
  /\ hotelLock \in Procs \cup {None}
  /\ req \in [Procs -> Request]
  /\ cand \subseteq Stays \X StayRow
  /\ running \in BOOLEAN
  /\ clock \in 0..(2 * MaxDay + 1) /\ faults \in 0..MaxFaults
  /\ owed \subseteq Rooms

(* Two active stays never share a room, nor the code a guest signs in      *)
(* with, whatever overlaps: check-ins, room changes, new codes and saves   *)
(* of stale snapshots (UQ_stays_room_active, UQ_stays_hotel_code_active).  *)
ActiveStaysUnique ==
  \A s, t \in Stays :
    Active(s) /\ Active(t) /\ (stay[s].room = stay[t].room \/ stay[s].code = stay[t].code)
      => s = t

(* A check-in or a room change commits only into a room that is `active`   *)
(* at that moment, though its status was tested steps earlier and other    *)
(* requests rewrite room rows from old snapshots meanwhile.                *)
GuestsEnterActiveRooms ==
  [][\A p \in Procs :
       req[p].pc \in {"insert", "move"} /\ stay' # stay
         /\ req'[p] # req[p] => room[req[p].room].status = "active"]_vars

(* No handler on a checked-out stay: once a row is checked_out, nothing    *)
(* about it changes again (assertActive, the Stay entity's contract).      *)
CheckedOutIsFinal ==
  [][\A s \in Stays : stay[s].status = "checked_out" => stay'[s] = stay[s]]_vars

(* A room with an active stay is `active`. *)
OccupiedRoomIsActive ==
  \A s \in Stays : Active(s) => room[stay[s].room].status = "active"

(* Once every request is answered and nothing failed, no vacated room is   *)
(* left without its checkout flag.                                         *)
VacatedRoomIsFlagged ==
  (\A p \in Procs : Idle(p)) /\ faults = 0 => owed = {}

AutomaticEnd(s) == Active(s) /\ stay'[s].by = "automatic"

----------------------------------------------------------------------------
(* The stay in each room and the stays that are over: the state of StayBook. *)
Occupant == [r \in Rooms |-> IF ActiveIn(r) = {} THEN None ELSE CHOOSE s \in ActiveIn(r) : TRUE]
Ended == {s \in Stays : stay[s].status = "checked_out"}
=============================================================================
