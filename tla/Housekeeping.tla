---------------------------- MODULE Housekeeping ----------------------------
(***************************************************************************)
(* The cleaning board of one hotel: HousekeepingService's board actions,   *)
(* the guest Do-Not-Disturb switch, the vacate hook that checkouts and     *)
(* room changes call, and the five-minute daily-service tick.              *)
(*                                                                         *)
(* Each handler reads a room row, computes a new one with the transition   *)
(* matrix and saves the whole row in a later step (TypeORM writes every    *)
(* column that differs).  Occupancy is the stays table reduced to who is   *)
(* in which room; refused requests are no steps.                           *)
(***************************************************************************)
EXTENDS Naturals, FiniteSets

CONSTANTS Rooms, Stays,
          Reqs,        \* concurrent requests
          Attendants,  \* staff a room can be assigned to
          None,
          MaxBusy,     \* bound: requests and ticks under way at once
          MaxDay,      \* bound: hotel days
          MaxFaults    \* bound: failed saves of the tick

ASSUME HousekeepingAssumption ==
  /\ MaxBusy \in Nat /\ MaxDay \in Nat /\ MaxFaults \in Nat
  /\ None \notin Stays \cup Rooms \cup Reqs \cup Attendants \cup (0..MaxDay)
  /\ None \notin {"checkout", "daily"}

VARIABLES room,      \* the housekeeping columns of table rooms
          occupant,  \* the active stay of each room
          gone,      \* stays checked out
          req,       \* what each request has read
          tick,      \* the daily-service run: its phase and what it has read
          running,   \* HousekeepingSchedulerService.running
          clock,     \* half days: odd means past the daily service hour
          faults

vars == <<room, occupant, gone, req, tick, running, clock, faults>>

Days == 0..MaxDay
Statuses == {"clean", "needs_cleaning", "in_progress", "dnd"}
Types == {"checkout", "daily"}
RoomRow == [status: Statuses, type: Types \cup {None}, assignee: Attendants \cup {None},
            dndBy: Stays \cup {None}, stamp: Days \cup {None}]
BoardOps == {"flag", "clear", "start", "complete", "interrupt", "assign"}
Ops == BoardOps \cup {"vacate", "dnd_on", "dnd_off"}
Request == [pc: {"idle", "guest", "vacate", "save"}, op: Ops \cup {None},
            sid: Stays \cup {None}, room: Rooms \cup {None}, row: RoomRow]
Tick == [pc: {"idle", "dnd", "release", "flag"}, occ: SUBSET Rooms,
         queue: SUBSET (Rooms \X RoomRow)]

CleanRow == [status |-> "clean", type |-> None, assignee |-> None, dndBy |-> None, stamp |-> None]
IdleReq  == [pc |-> "idle", op |-> None, sid |-> None, room |-> None, row |-> CleanRow]
IdleTick == [pc |-> "idle", occ |-> {}, queue |-> {}]

Init ==
  /\ room = [r \in Rooms |-> CleanRow]
  /\ occupant = [r \in Rooms |-> None] /\ gone = {}
  /\ req = [p \in Reqs |-> IdleReq]
  /\ tick = IdleTick /\ running = FALSE
  /\ clock = 0 /\ faults = 0

Today == clock \div 2
PastServiceHour == clock % 2 = 1

----------------------------------------------------------------------------
(* The transition matrix: the rows an action on a row may lead to, none if *)
(* it is refused.  t is the cleaning type of a flag.                       *)
To(row, status, type) == {[row EXCEPT !.status = status, !.type = type]}

Transition(row, op, t) ==
  CASE op = "flag" /\ row.status = "dnd" -> To(row, "dnd", t)
    [] op = "flag" /\ row.status \in {"clean", "needs_cleaning"} -> To(row, "needs_cleaning", t)
    [] op = "clear" /\ row.status = "needs_cleaning" -> To(row, "clean", None)
    [] op = "clear" /\ row.status = "dnd" /\ row.type # None -> To(row, "dnd", None)
    [] op = "start" /\ row.status = "needs_cleaning" -> To(row, "in_progress", row.type)
    [] op = "complete" /\ row.status = "in_progress" -> To(row, "clean", None)
    [] op = "interrupt" /\ row.status = "in_progress" -> To(row, "needs_cleaning", row.type)
    [] op = "vacate" -> To(row, "needs_cleaning", "checkout")
    [] op = "dnd_on" -> To(row, "dnd", row.type)
    [] op = "dnd_off" -> IF row.status # "dnd" THEN {row}
                         ELSE To(row, IF row.type # None THEN "needs_cleaning" ELSE "clean", row.type)
    [] OTHER -> {}

BoardRows_ForcesStart(row, op, t, a) ==
  IF op = "start" THEN To(row, "in_progress", row.type) ELSE Transition(row, op, t)

(* The side columns the service writes with the new state. *)
BoardRows(row, op, t, a) ==
  CASE op = "start" -> {[x EXCEPT !.assignee = IF @ = None THEN a ELSE @] : x \in Transition(row, op, t)}
    [] op = "complete" -> {[x EXCEPT !.assignee = None] : x \in Transition(row, op, t)}
    [] op = "assign" -> {[row EXCEPT !.assignee = b] : b \in {a, None}}
    [] OTHER -> Transition(row, op, t)

----------------------------------------------------------------------------
Idle(p) == req[p].pc = "idle"
Busy == {p \in Reqs : ~Idle(p)} \cup (IF tick.pc = "idle" THEN {} ELSE {None})
Begins(p) == Idle(p) /\ Cardinality(Busy) < MaxBusy
Go(p, q) == req' = [req EXCEPT ![p] = q]

(* flagRoom, clearRoom, start, complete, interrupt, assign, bulkAssign. *)
BoardRead(p, r, op, t, a) ==
  /\ Begins(p)
  /\ \E row \in BoardRows(room[r], op, t, a) :
       Go(p, [IdleReq EXCEPT !.pc = "save", !.op = op, !.room = r, !.row = row])
  /\ UNCHANGED <<room, occupant, gone, tick, running, clock, faults>>

(* The guest session strategy loads the stay; setDnd runs on that copy. *)
GuestEnter(p, s, r) ==
  /\ Begins(p) /\ occupant[r] = s
  /\ Go(p, [IdleReq EXCEPT !.pc = "guest", !.sid = s, !.room = r])
  /\ UNCHANGED <<room, occupant, gone, tick, running, clock, faults>>

DndRows_NoOwner(row, s, on) ==
  {[x EXCEPT !.stamp = IF on THEN Today ELSE @]
     : x \in Transition(row, IF on THEN "dnd_on" ELSE "dnd_off", None)}

(* Switching on stamps the day: today's service is taken as handled. *)
DndRows(row, s, on) ==
  {[x EXCEPT !.dndBy = IF on THEN s ELSE None, !.stamp = IF on THEN Today ELSE @]
     : x \in Transition(row, IF on THEN "dnd_on" ELSE "dnd_off", None)}

SetDndRead(p, on) ==
  /\ req[p].pc = "guest"
  /\ \E row \in DndRows(room[req[p].room], req[p].sid, on) :
       Go(p, [req[p] EXCEPT !.pc = "save", !.op = IF on THEN "dnd_on" ELSE "dnd_off", !.row = row])
  /\ UNCHANGED <<room, occupant, gone, tick, running, clock, faults>>

(* onRoomVacated: the Do-Not-Disturb of the stay that left goes with it. *)
VacateRead(p) ==
  /\ req[p].pc = "vacate"
  /\ \E row \in Transition(room[req[p].room], "vacate", None) :
       Go(p, [req[p] EXCEPT !.pc = "save", !.op = "vacate", !.row = [row EXCEPT !.dndBy = None]])
  /\ UNCHANGED <<room, occupant, gone, tick, running, clock, faults>>

Save(p) ==
  /\ req[p].pc = "save"
  /\ room' = [room EXCEPT ![req[p].room] = req[p].row]
  /\ Go(p, IdleReq)
  /\ UNCHANGED <<occupant, gone, tick, running, clock, faults>>

----------------------------------------------------------------------------
(* The stay desk, as far as this board sees it (modelled in Stays).        *)
CheckIn(s, r) ==
  /\ occupant[r] = None /\ s \notin gone /\ \A x \in Rooms : occupant[x] # s
  /\ occupant' = [occupant EXCEPT ![r] = s]
  /\ UNCHANGED <<room, gone, req, tick, running, clock, faults>>

Leave_NoHook(p, s, r) ==
  /\ Begins(p) /\ occupant[r] = s
  /\ occupant' = [occupant EXCEPT ![r] = None]
  /\ gone' = gone \cup {s}
  /\ UNCHANGED <<room, req, tick, running, clock, faults>>

(* A committed checkout, then the hook on the room it left. *)
Leave(p, s, r) ==
  /\ Begins(p) /\ occupant[r] = s
  /\ occupant' = [occupant EXCEPT ![r] = None]
  /\ gone' = gone \cup {s}
  /\ Go(p, [IdleReq EXCEPT !.pc = "vacate", !.room = r])
  /\ UNCHANGED <<room, tick, running, clock, faults>>

(* A committed room change, then the hook on the room it left. *)
Move(p, s, r, to) ==
  /\ Begins(p) /\ occupant[r] = s /\ occupant[to] = None
  /\ occupant' = [occupant EXCEPT ![r] = None, ![to] = s]
  /\ Go(p, [IdleReq EXCEPT !.pc = "vacate", !.room = r])
  /\ UNCHANGED <<room, gone, tick, running, clock, faults>>

----------------------------------------------------------------------------
(* The daily-service tick: occupancy, then the dnd rooms, then the clean   *)
(* occupied rooms are each read once and saved one by one.                 *)
Read(rs) == {<<r, room[r]>> : r \in rs}
TickStep(t) == tick' = t /\ UNCHANGED <<occupant, gone, req, clock>>

TickStart ==
  /\ tick.pc = "idle" /\ ~running /\ PastServiceHour /\ Cardinality(Busy) < MaxBusy
  /\ TickStep([IdleTick EXCEPT !.pc = "dnd", !.occ = {r \in Rooms : occupant[r] # None}])
  /\ running' = TRUE /\ UNCHANGED <<room, faults>>

TickReadDnd ==
  /\ tick.pc = "dnd"
  /\ TickStep([tick EXCEPT !.pc = "release",
       !.queue = Read({x \in Rooms : room[x].status = "dnd" /\ room[x].stamp # Today})])
  /\ UNCHANGED <<room, running, faults>>

(* A room released to `clean` while occupied is flagged daily at once. *)
Reflag(r, row) == IF row.status = "clean" /\ r \in tick.occ THEN Transition(row, "flag", "daily") ELSE {row}
Released(r, row) ==
  {[x EXCEPT !.dndBy = None, !.stamp = Today]
     : x \in UNION {Reflag(r, y) : y \in Transition(row, "dnd_off", None)}}

TickRelease(r, row) ==
  /\ tick.pc = "release"
  /\ \E x \in Released(r, row) : room' = [room EXCEPT ![r] = x]
  /\ TickStep([tick EXCEPT !.queue = @ \ {<<r, row>>}])
  /\ UNCHANGED <<running, faults>>

TickReadClean_NeverServed ==
  /\ tick.pc = "release" /\ tick.queue = {}
  /\ TickStep([tick EXCEPT !.pc = "flag",
       !.queue = Read({x \in tick.occ : room[x].status = "clean" /\ room[x].stamp = None})])
  /\ UNCHANGED <<room, running, faults>>

TickReadClean ==
  /\ tick.pc = "release" /\ tick.queue = {}
  /\ TickStep([tick EXCEPT !.pc = "flag",
       !.queue = Read({x \in tick.occ : room[x].status = "clean" /\ room[x].stamp # Today})])
  /\ UNCHANGED <<room, running, faults>>

TickFlag_NextDay(r, row) ==
  /\ tick.pc = "flag"
  /\ \E x \in Transition(row, "flag", "daily") :
       room' = [room EXCEPT ![r] = [x EXCEPT !.stamp = Today + 1]]
  /\ TickStep([tick EXCEPT !.queue = @ \ {<<r, row>>}])
  /\ UNCHANGED <<running, faults>>

TickFlag(r, row) ==
  /\ tick.pc = "flag"
  /\ \E x \in Transition(row, "flag", "daily") :
       room' = [room EXCEPT ![r] = [x EXCEPT !.stamp = Today]]
  /\ TickStep([tick EXCEPT !.queue = @ \ {<<r, row>>}])
  /\ UNCHANGED <<running, faults>>

TickDone ==
  /\ tick.pc = "flag" /\ tick.queue = {}
  /\ TickStep(IdleTick)
  /\ running' = FALSE /\ UNCHANGED <<room, faults>>

TickFail_NoFinally ==
  /\ tick.pc # "idle" /\ faults < MaxFaults
  /\ TickStep(IdleTick)
  /\ faults' = faults + 1 /\ UNCHANGED <<room, running>>

(* A query or save throws: the run is dropped, `finally` clears the flag. *)
TickFail ==
  /\ tick.pc # "idle" /\ faults < MaxFaults
  /\ TickStep(IdleTick)
  /\ running' = FALSE /\ faults' = faults + 1 /\ UNCHANGED room

(* The tick works with the hotel day of its start: the clock waits. *)
Clock ==
  /\ tick.pc = "idle" /\ clock < 2 * MaxDay + 1
  /\ clock' = clock + 1
  /\ UNCHANGED <<room, occupant, gone, req, tick, running, faults>>

----------------------------------------------------------------------------
Handler(p) ==
  \/ \E r \in Rooms, op \in BoardOps, t \in Types, a \in Attendants : BoardRead(p, r, op, t, a)
  \/ \E s \in Stays, r \in Rooms : GuestEnter(p, s, r) \/ Leave(p, s, r)
  \/ \E s \in Stays, r, to \in Rooms : Move(p, s, r, to)
  \/ \E on \in BOOLEAN : SetDndRead(p, on)
  \/ VacateRead(p)
  \/ Save(p)

TickRun ==
  \/ TickStart \/ TickReadDnd \/ TickReadClean \/ TickDone
  \/ \E e \in tick.queue : TickRelease(e[1], e[2]) \/ TickFlag(e[1], e[2])

Next ==
  \/ \E p \in Reqs : Handler(p)
  \/ \E s \in Stays, r \in Rooms : CheckIn(s, r)
  \/ TickRun \/ TickFail \/ Clock

Spec == Init /\ [][Next]_vars

(* The five-minute cron fires for ever and a run that began is carried on. *)
FairSpec == Spec /\ WF_vars(TickRun)

----------------------------------------------------------------------------
TypeOK ==
  /\ room \in [Rooms -> RoomRow]
  /\ occupant \in [Rooms -> Stays \cup {None}] /\ gone \subseteq Stays
  /\ req \in [Reqs -> Request]
  /\ tick \in Tick /\ running \in BOOLEAN
  /\ clock \in 0..(2 * MaxDay + 1) /\ faults \in 0..MaxFaults

(* A cleaning type stands for work to do, a Do-Not-Disturb has its stay.   *)
Consistent(row) ==
  /\ row.status = "clean" => row.type = None
  /\ row.status \in {"needs_cleaning", "in_progress"} => row.type # None
  /\ row.status = "dnd" <=> row.dndBy # None

(* The columns the matrix and the service write separately never drift     *)
(* apart, in the table and in every row about to be saved: a clean room    *)
(* keeps no cleaning type, waiting and running work has one, and a room is *)
(* under Do-Not-Disturb exactly when a stay is recorded for it.            *)
RowsConsistent ==
  /\ \A r \in Rooms : Consistent(room[r])
  /\ \A p \in Reqs : Consistent(req[p].row)
  /\ \A e \in tick.queue : Consistent(e[2])

Quiet == tick.pc = "idle" /\ \A p \in Reqs : req[p].pc = "idle"

(* When nothing is under way, a Do-Not-Disturb belongs to the stay that is *)
(* in the room now.                                                        *)
DndDiesWithStay ==
  Quiet => \A r \in Rooms : room[r].dndBy # None => occupant[r] = room[r].dndBy

(* A Do-Not-Disturb that this step ends, and what may end it: the guest's  *)
(* switch, a vacate, the next day's tick.                                  *)
DndEnds(r) == room[r].status = "dnd" /\ room'[r].status # "dnd"
ProperEnd(r) ==
  \/ \E p \in Reqs : req[p].op \in {"dnd_off", "vacate"} /\ req[p].room = r /\ req'[p] # req[p]
  \/ tick.pc = "release"

RunCompletes == tick.pc = "flag" /\ tick'.pc = "idle" /\ faults' = faults
Served(r) ==
  room[r].status = "dnd" \/ (room[r].status = "clean" /\ r \in tick.occ) => room[r].stamp = Today

Unserved(r) ==
  PastServiceHour /\ occupant[r] # None /\ room[r].status = "clean" /\ room[r].stamp # Today
=============================================================================
