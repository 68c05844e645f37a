------------------------- MODULE HousekeepingProofs -------------------------
(***************************************************************************)
(* For every set of rooms, stays, requests and attendants: the rows of the *)
(* cleaning board stay well typed and consistent, in the table and in the  *)
(* copies that requests and the daily tick are about to save.  Requests    *)
(* one at a time: a Do-Not-Disturb is of the stay in the room, and a run   *)
(* that completes has served every room it found occupied.                 *)
(***************************************************************************)
EXTENDS MCHousekeeping, TLAPS

(* What a request holds when it reads or saves: a room, and a guest's stay. *)
RequestsBound ==
  \A p \in Reqs : /\ req[p].pc # "idle" => req[p].room \in Rooms
                  /\ req[p].pc = "guest" => req[p].sid \in Stays

BoardInv == TypeOK /\ RowsConsistent /\ RequestsBound

----------------------------------------------------------------------------
(* The matrix changes status and cleaning type only, and leaves them       *)
(* agreeing with each other.                                               *)
LEMMA TransitionRow ==
  ASSUME NEW row \in RoomRow, Consistent(row), NEW op \in Ops,
         NEW t \in Types \cup {None}, op = "flag" => t \in Types,
         NEW x \in Transition(row, op, t)
  PROVE  /\ x \in RoomRow
         /\ x.assignee = row.assignee /\ x.dndBy = row.dndBy /\ x.stamp = row.stamp
         /\ x.status = "clean" => x.type = None
         /\ x.status \in {"needs_cleaning", "in_progress"} => x.type # None
         /\ op \in BoardOps => (x.status = "dnd" <=> row.status = "dnd")
         /\ op = "dnd_on" => x.status = "dnd"
         /\ op = "dnd_off" => x.status # "dnd"
         /\ op = "vacate" => x.status = "needs_cleaning"
<1> USE HousekeepingAssumption DEF Ops, BoardOps, Transition, To, RoomRow, Statuses, Types, Consistent
<1>1. CASE op = "flag" BY <1>1
<1>2. CASE op = "clear" BY <1>2
<1>3. CASE op = "start" BY <1>3
<1>4. CASE op = "complete" BY <1>4
<1>5. CASE op = "interrupt" BY <1>5
<1>6. CASE op = "vacate" BY <1>6
<1>7. CASE op = "dnd_on" BY <1>7
<1>8. CASE op = "dnd_off" BY <1>8
<1>9. CASE op = "assign" BY <1>9
<1> QED BY <1>1, <1>2, <1>3, <1>4, <1>5, <1>6, <1>7, <1>8, <1>9

LEMMA TodayIsADay == TypeOK => Today \in Days
<1> SUFFICES ASSUME TypeOK PROVE Today \in Days
  OBVIOUS
<1>1. clock \in Nat /\ clock <= 2 * MaxDay + 1 /\ MaxDay \in Nat
  BY HousekeepingAssumption DEF TypeOK
<1>2. clock \div 2 \in Nat /\ clock \div 2 <= MaxDay
  BY <1>1
<1> QED BY <1>2, HousekeepingAssumption DEF Today, Days

(* A request may go on with any consistent row and a room of the hotel. *)
LEMMA RequestStep ==
  ASSUME BoardInv, NEW p \in Reqs, NEW q \in Request, Consistent(q.row),
         q.pc # "idle" => q.room \in Rooms, q.pc = "guest" => q.sid \in Stays,
         req' = [req EXCEPT ![p] = q]
  PROVE  /\ req' \in [Reqs -> Request]
         /\ \A x \in Reqs : Consistent(req'[x].row)
         /\ RequestsBound'
BY DEF BoardInv, TypeOK, RowsConsistent, RequestsBound

(* So may the table, and the queue of the tick. *)
LEMMA RoomStep ==
  ASSUME BoardInv, NEW r \in Rooms, NEW x \in RoomRow, Consistent(x),
         room' = [room EXCEPT ![r] = x]
  PROVE  room' \in [Rooms -> RoomRow] /\ \A y \in Rooms : Consistent(room'[y])
BY DEF BoardInv, TypeOK, RowsConsistent

LEMMA CleanRowFits == CleanRow \in RoomRow /\ Consistent(CleanRow)
BY HousekeepingAssumption DEF CleanRow, RoomRow, Statuses, Consistent

LEMMA IdleReqFits == IdleReq \in Request /\ Consistent(IdleReq.row) /\ IdleReq.pc = "idle"
BY CleanRowFits DEF IdleReq, Request

LEMMA InitInvariant == Init => BoardInv
<1> SUFFICES ASSUME Init PROVE BoardInv
  OBVIOUS
<1>1. room \in [Rooms -> RoomRow] /\ \A r \in Rooms : Consistent(room[r])
  BY CleanRowFits DEF Init
<1>2. req \in [Reqs -> Request] /\ (\A p \in Reqs : Consistent(req[p].row)) /\ RequestsBound
  BY IdleReqFits DEF Init, RequestsBound
<1>3. tick \in Tick /\ tick.queue = {}
  BY DEF Init, IdleTick, Tick
<1>4. clock \in 0..(2 * MaxDay + 1) /\ faults \in 0..MaxFaults
  BY HousekeepingAssumption DEF Init
<1> QED BY <1>1, <1>2, <1>3, <1>4 DEF Init, BoardInv, TypeOK, RowsConsistent

----------------------------------------------------------------------------
(* The rows each handler computes. *)
LEMMA BoardRowsFit ==
  ASSUME NEW row \in RoomRow, Consistent(row), NEW op \in BoardOps, NEW t \in Types,
         NEW a \in Attendants, NEW x \in BoardRows(row, op, t, a)
  PROVE  x \in RoomRow /\ Consistent(x)
<1>0. op \in Ops BY DEF Ops
<1>1. \A y \in Transition(row, op, t) : y \in RoomRow /\ Consistent(y)
  BY <1>0, TransitionRow DEF Consistent
<1>2. CASE op \in {"start", "complete"}
  <2>1. PICK y \in Transition(row, op, t), b \in Attendants \cup {None} : x = [y EXCEPT !.assignee = b]
    <3>1. CASE op = "start"
      <4>1. PICK y \in Transition(row, op, t) : x = [y EXCEPT !.assignee = IF @ = None THEN a ELSE @]
        BY <3>1 DEF BoardRows
      <4>2. y.assignee \in Attendants \cup {None} BY <1>1 DEF RoomRow
      <4> QED BY <4>1, <4>2
    <3>2. CASE op = "complete" BY <3>2 DEF BoardRows
    <3> QED BY <1>2, <3>1, <3>2
  <2> QED BY <1>1, <2>1 DEF RoomRow, Consistent
<1>3. CASE op = "assign"
  <2>1. PICK b \in {a, None} : x = [row EXCEPT !.assignee = b]
    BY <1>3 DEF BoardRows
  <2> QED BY <2>1 DEF RoomRow, Consistent
<1>4. CASE op \notin {"start", "complete", "assign"}
  BY <1>1, <1>4 DEF BoardRows
<1> QED BY <1>2, <1>3, <1>4

LEMMA DndRowsFit ==
  ASSUME NEW row \in RoomRow, Consistent(row), NEW s \in Stays, NEW on \in BOOLEAN,
         Today \in Days, NEW x \in DndRows(row, s, on)
  PROVE  x \in RoomRow /\ Consistent(x)
<1> DEFINE op == IF on THEN "dnd_on" ELSE "dnd_off"
<1>1. PICK y \in Transition(row, op, None) :
        x = [y EXCEPT !.dndBy = IF on THEN s ELSE None, !.stamp = IF on THEN Today ELSE @]
  BY DEF DndRows
<1>2. op \in Ops /\ op # "flag" BY DEF Ops
<1>3. /\ y \in RoomRow
      /\ y.status = "clean" => y.type = None
      /\ y.status \in {"needs_cleaning", "in_progress"} => y.type # None
      /\ y.status = "dnd" <=> on
  BY <1>2, TransitionRow
<1>4. s # None BY HousekeepingAssumption
<1> QED BY <1>1, <1>3, <1>4 DEF RoomRow, Consistent

LEMMA VacateRowFits ==
  ASSUME NEW row \in RoomRow, Consistent(row), NEW y \in Transition(row, "vacate", None)
  PROVE  [y EXCEPT !.dndBy = None] \in RoomRow /\ Consistent([y EXCEPT !.dndBy = None])
<1>1. "vacate" \in Ops BY DEF Ops
<1>2. y \in RoomRow /\ y.status = "needs_cleaning" /\ y.type # None
  BY <1>1, TransitionRow
<1> QED BY <1>2 DEF RoomRow, Consistent

LEMMA DailyFlagFits ==
  ASSUME NEW row \in RoomRow, Consistent(row), NEW y \in Transition(row, "flag", "daily"),
         NEW d \in Days
  PROVE  [y EXCEPT !.stamp = d] \in RoomRow /\ Consistent([y EXCEPT !.stamp = d])
<1>1. "flag" \in Ops /\ "flag" \in BoardOps /\ "daily" \in Types BY DEF Ops, BoardOps, Types
<1>2. y \in RoomRow /\ Consistent(y)
  BY <1>1, TransitionRow DEF Consistent
<1> QED BY <1>2 DEF RoomRow, Consistent

LEMMA ReleasedFits ==
  ASSUME NEW r, NEW row \in RoomRow, Consistent(row), Today \in Days, NEW x \in Released(r, row)
  PROVE  x \in RoomRow /\ Consistent(x)
<1>0. PICK z \in UNION {Reflag(r, y) : y \in Transition(row, "dnd_off", None)} :
        x = [z EXCEPT !.dndBy = None, !.stamp = Today]
  BY Zenon DEF Released
<1>1. PICK y \in Transition(row, "dnd_off", None) : z \in Reflag(r, y)
  BY <1>0
<1>2. "dnd_off" \in Ops /\ "flag" \in Ops /\ "flag" \in BoardOps /\ "daily" \in Types
  BY DEF Ops, BoardOps, Types
<1>3. /\ y \in RoomRow /\ y.status # "dnd"
      /\ y.status = "clean" => y.type = None
      /\ y.status \in {"needs_cleaning", "in_progress"} => y.type # None
  BY <1>2, TransitionRow
<1>5. CASE z = y
  BY <1>0, <1>3, <1>5 DEF RoomRow, Consistent
<1>6. CASE y.status = "clean" /\ z \in Transition(y, "flag", "daily")
  <2>1. z = [y EXCEPT !.status = "needs_cleaning", !.type = "daily"]
    BY <1>6, <1>3 DEF Transition, To, RoomRow
  <2>2. "daily" # None BY HousekeepingAssumption
  <2> QED BY <1>0, <1>3, <2>1, <2>2 DEF RoomRow, Statuses, Types, Consistent
<1> QED BY <1>1, <1>5, <1>6 DEF Reflag

----------------------------------------------------------------------------
(* Each action keeps BoardInv.  What an action leaves alone is in Frame.   *)
LEMMA Frame ==
  ASSUME BoardInv
  PROVE  /\ UNCHANGED room => room' \in [Rooms -> RoomRow] /\ \A r \in Rooms : Consistent(room'[r])
         /\ UNCHANGED req => /\ req' \in [Reqs -> Request] /\ \A p \in Reqs : Consistent(req'[p].row)
                             /\ RequestsBound'
         /\ UNCHANGED tick => tick' \in Tick /\ \A e \in tick'.queue : Consistent(e[2])
BY DEF BoardInv, TypeOK, RowsConsistent, RequestsBound

LEMMA BoardReadKeeps ==
  ASSUME BoardInv, NEW p \in Reqs, NEW r \in Rooms, NEW op \in BoardOps, NEW t \in Types,
         NEW a \in Attendants, BoardRead(p, r, op, t, a)
  PROVE  BoardInv'
<1>1. PICK row \in BoardRows(room[r], op, t, a) :
        Go(p, [IdleReq EXCEPT !.pc = "save", !.op = op, !.room = r, !.row = row])
  BY DEF BoardRead
<1>2. row \in RoomRow /\ Consistent(row)
  BY BoardRowsFit DEF BoardInv, TypeOK, RowsConsistent
<1> DEFINE q == [IdleReq EXCEPT !.pc = "save", !.op = op, !.room = r, !.row = row]
<1>3. q \in Request /\ q.room = r /\ q.pc = "save" /\ q.row = row
  BY <1>2, IdleReqFits DEF Request, Ops
<1>4. req' \in [Reqs -> Request] /\ (\A x \in Reqs : Consistent(req'[x].row)) /\ RequestsBound'
  BY <1>1, <1>2, <1>3, RequestStep DEF Go
<1> QED BY <1>4, Frame DEF BoardRead, BoardInv, TypeOK, RowsConsistent

LEMMA GuestEnterKeeps ==
  ASSUME BoardInv, NEW p \in Reqs, NEW s \in Stays, NEW r \in Rooms, GuestEnter(p, s, r)
  PROVE  BoardInv'
<1> DEFINE q == [IdleReq EXCEPT !.pc = "guest", !.sid = s, !.room = r]
<1>1. q \in Request /\ q.room = r /\ q.pc = "guest" /\ q.sid = s /\ q.row = IdleReq.row
  BY IdleReqFits DEF Request
<1>2. req' \in [Reqs -> Request] /\ (\A x \in Reqs : Consistent(req'[x].row)) /\ RequestsBound'
  BY <1>1, IdleReqFits, RequestStep DEF GuestEnter, Go
<1> QED BY <1>2, Frame DEF GuestEnter, BoardInv, TypeOK, RowsConsistent

LEMMA SetDndReadKeeps ==
  ASSUME BoardInv, NEW p \in Reqs, NEW on \in BOOLEAN, SetDndRead(p, on)
  PROVE  BoardInv'
<1>0. req[p] \in Request /\ req[p].room \in Rooms /\ req[p].sid \in Stays
  BY DEF SetDndRead, BoardInv, TypeOK, RequestsBound
<1>1. PICK row \in DndRows(room[req[p].room], req[p].sid, on) :
        Go(p, [req[p] EXCEPT !.pc = "save", !.op = IF on THEN "dnd_on" ELSE "dnd_off", !.row = row])
  BY DEF SetDndRead
<1>2. row \in RoomRow /\ Consistent(row)
  BY <1>0, DndRowsFit, TodayIsADay DEF BoardInv, TypeOK, RowsConsistent
<1> DEFINE q == [req[p] EXCEPT !.pc = "save", !.op = IF on THEN "dnd_on" ELSE "dnd_off", !.row = row]
<1>3. q \in Request /\ q.room = req[p].room /\ q.pc = "save" /\ q.row = row
  BY <1>0, <1>2 DEF Request, Ops
<1>4. req' \in [Reqs -> Request] /\ (\A x \in Reqs : Consistent(req'[x].row)) /\ RequestsBound'
  BY <1>0, <1>1, <1>2, <1>3, RequestStep DEF Go
<1> QED BY <1>4, Frame DEF SetDndRead, BoardInv, TypeOK, RowsConsistent

LEMMA VacateReadKeeps ==
  ASSUME BoardInv, NEW p \in Reqs, VacateRead(p)
  PROVE  BoardInv'
<1>0. req[p] \in Request /\ req[p].room \in Rooms
  BY DEF VacateRead, BoardInv, TypeOK, RequestsBound
<1>1. PICK y \in Transition(room[req[p].room], "vacate", None) :
        Go(p, [req[p] EXCEPT !.pc = "save", !.op = "vacate", !.row = [y EXCEPT !.dndBy = None]])
  BY DEF VacateRead
<1> DEFINE row == [y EXCEPT !.dndBy = None]
           q == [req[p] EXCEPT !.pc = "save", !.op = "vacate", !.row = row]
<1>2. row \in RoomRow /\ Consistent(row)
  BY <1>0, VacateRowFits DEF BoardInv, TypeOK, RowsConsistent
<1>3. q \in Request /\ q.room = req[p].room /\ q.pc = "save" /\ q.row = row
  BY <1>0, <1>2 DEF Request, Ops
<1>4. req' = [req EXCEPT ![p] = q]
  BY <1>1 DEF Go
<1> HIDE DEF q, row
<1>5. req' \in [Reqs -> Request] /\ (\A x \in Reqs : Consistent(req'[x].row)) /\ RequestsBound'
  BY <1>0, <1>2, <1>3, <1>4, RequestStep
<1> QED BY <1>5, Frame DEF VacateRead, BoardInv, TypeOK, RowsConsistent

LEMMA SaveKeeps ==
  ASSUME BoardInv, NEW p \in Reqs, Save(p)
  PROVE  BoardInv'
<1>1. req[p].room \in Rooms /\ req[p].row \in RoomRow /\ Consistent(req[p].row)
  BY DEF Save, BoardInv, TypeOK, RowsConsistent, RequestsBound, Request
<1>2. room' \in [Rooms -> RoomRow] /\ \A r \in Rooms : Consistent(room'[r])
  BY <1>1, RoomStep DEF Save
<1>3. req' \in [Reqs -> Request] /\ (\A x \in Reqs : Consistent(req'[x].row)) /\ RequestsBound'
  BY IdleReqFits, RequestStep DEF Save, Go
<1> QED BY <1>2, <1>3, Frame DEF Save, BoardInv, TypeOK, RowsConsistent

(* The stay desk writes occupancy and, leaving, starts the vacate hook. *)
LEMMA DeskKeeps ==
  ASSUME BoardInv, NEW s \in Stays, NEW r \in Rooms, NEW p \in Reqs, NEW to \in Rooms,
         Leave(p, s, r) \/ Move(p, s, r, to)
  PROVE  BoardInv'
<1> DEFINE q == [IdleReq EXCEPT !.pc = "vacate", !.room = r]
<1>1. q \in Request /\ q.room = r /\ q.pc = "vacate" /\ q.row = IdleReq.row
  BY IdleReqFits DEF Request
<1>2. req' \in [Reqs -> Request] /\ (\A x \in Reqs : Consistent(req'[x].row)) /\ RequestsBound'
  <2>2. CASE req' = [req EXCEPT ![p] = q]
    BY <1>1, <2>2, IdleReqFits, RequestStep
  <2> QED BY <2>2 DEF Leave, Move, Go
<1>3. occupant' \in [Rooms -> Stays \cup {None}] /\ gone' \subseteq Stays
  BY DEF Leave, Move, BoardInv, TypeOK
<1>4. UNCHANGED <<room, tick, running, clock, faults>>
  BY DEF Leave, Move
<1> QED BY <1>2, <1>3, <1>4, Frame DEF BoardInv, TypeOK, RowsConsistent

LEMMA ReadFits ==
  ASSUME BoardInv, NEW rs \in SUBSET Rooms
  PROVE  Read(rs) \in SUBSET (Rooms \X RoomRow) /\ \A e \in Read(rs) : Consistent(e[2])
<1>1. \A r \in rs : r \in Rooms /\ room[r] \in RoomRow /\ Consistent(room[r])
  BY DEF BoardInv, TypeOK, RowsConsistent
<1>2. \A e \in Read(rs) : e \in Rooms \X RoomRow /\ Consistent(e[2])
  <2>1. SUFFICES ASSUME NEW r \in rs
                 PROVE <<r, room[r]>> \in Rooms \X RoomRow /\ Consistent(<<r, room[r]>>[2])
    BY DEF Read
  <2> QED BY <1>1
<1> QED BY <1>2

(* The tick reads rows of the table and writes what the matrix allows. *)
LEMMA TickReadKeeps ==
  ASSUME BoardInv, TickStart \/ TickReadDnd \/ TickReadClean \/ TickDone
  PROVE  BoardInv'
<1>1. tick' \in Tick /\ \A e \in tick'.queue : Consistent(e[2])
  <2>1. CASE TickStart
    BY <2>1 DEF TickStart, TickStep, IdleTick, Tick
  <2>2. CASE TickReadDnd
    <3> DEFINE rs == {x \in Rooms : room[x].status = "dnd" /\ room[x].stamp # Today}
    <3>1. tick \in Tick /\ tick' = [tick EXCEPT !.pc = "release", !.queue = Read(rs)]
      BY <2>2 DEF TickReadDnd, TickStep, BoardInv, TypeOK
    <3>2. rs \in SUBSET Rooms OBVIOUS
    <3> HIDE DEF rs
    <3> QED BY <3>1, <3>2, ReadFits DEF Tick
  <2>3. CASE TickReadClean
    <3> DEFINE rs == {x \in tick.occ : room[x].status = "clean" /\ room[x].stamp # Today}
    <3>1. tick \in Tick /\ tick' = [tick EXCEPT !.pc = "flag", !.queue = Read(rs)]
      BY <2>3 DEF TickReadClean, TickStep, BoardInv, TypeOK
    <3>2. rs \in SUBSET Rooms BY <3>1 DEF Tick
    <3> HIDE DEF rs
    <3> QED BY <3>1, <3>2, ReadFits DEF Tick
  <2>4. CASE TickDone
    BY <2>4 DEF TickDone, TickStep, IdleTick, Tick
  <2> QED BY <2>1, <2>2, <2>3, <2>4
<1>2. running' \in BOOLEAN
  BY DEF TickStart, TickReadDnd, TickReadClean, TickDone, BoardInv, TypeOK
<1>3. UNCHANGED <<room, occupant, gone, req, clock, faults>>
  BY DEF TickStart, TickReadDnd, TickReadClean, TickDone, TickStep
<1> QED BY <1>1, <1>2, <1>3, Frame DEF BoardInv, TypeOK, RowsConsistent

LEMMA TickWriteKeeps ==
  ASSUME BoardInv, NEW e \in tick.queue, TickRelease(e[1], e[2]) \/ TickFlag(e[1], e[2])
  PROVE  BoardInv'
<1>1. e[1] \in Rooms /\ e[2] \in RoomRow /\ Consistent(e[2]) /\ Today \in Days
  BY TodayIsADay DEF BoardInv, TypeOK, RowsConsistent, Tick
<1>2. PICK x \in RoomRow : Consistent(x) /\ room' = [room EXCEPT ![e[1]] = x]
  <2>1. CASE TickRelease(e[1], e[2])
    BY <1>1, <2>1, ReleasedFits DEF TickRelease
  <2>2. CASE TickFlag(e[1], e[2])
    BY <1>1, <2>2, DailyFlagFits DEF TickFlag
  <2> QED BY <2>1, <2>2
<1>3. room' \in [Rooms -> RoomRow] /\ \A r \in Rooms : Consistent(room'[r])
  BY <1>1, <1>2, RoomStep
<1>4. tick' = [tick EXCEPT !.queue = @ \ {<<e[1], e[2]>>}] /\ UNCHANGED <<running, faults, occupant, gone, req, clock>>
  BY DEF TickRelease, TickFlag, TickStep
<1>5. tick' \in Tick /\ \A w \in tick'.queue : Consistent(w[2])
  BY <1>4 DEF BoardInv, TypeOK, RowsConsistent, Tick
<1> QED BY <1>3, <1>4, <1>5, Frame DEF BoardInv, TypeOK, RowsConsistent

LEMMA TickFailKeeps == BoardInv /\ TickFail => BoardInv'
<1> SUFFICES ASSUME BoardInv, TickFail PROVE BoardInv'
  OBVIOUS
<1>1. tick' \in Tick /\ tick'.queue = {} /\ running' \in BOOLEAN
  BY DEF TickFail, TickStep, IdleTick, Tick
<1>2. faults' \in 0..MaxFaults
  BY HousekeepingAssumption DEF TickFail, BoardInv, TypeOK
<1>3. UNCHANGED <<room, occupant, gone, req, clock>>
  BY DEF TickFail, TickStep
<1> QED BY <1>1, <1>2, <1>3, Frame DEF BoardInv, TypeOK, RowsConsistent

LEMMA ClockKeeps == BoardInv /\ Clock => BoardInv'
<1> SUFFICES ASSUME BoardInv, Clock PROVE BoardInv'
  OBVIOUS
<1>1. clock' \in 0..(2 * MaxDay + 1)
  BY HousekeepingAssumption DEF Clock, BoardInv, TypeOK
<1> QED BY <1>1, Frame DEF Clock, BoardInv, TypeOK, RowsConsistent

LEMMA InductiveStep == BoardInv /\ [Next]_vars => BoardInv'
<1> SUFFICES ASSUME BoardInv, [Next]_vars PROVE BoardInv'
  OBVIOUS
<1>1. CASE \E p \in Reqs : Handler(p)
  BY <1>1, BoardReadKeeps, GuestEnterKeeps, SetDndReadKeeps, VacateReadKeeps, SaveKeeps, DeskKeeps
     DEF Handler
<1>2. CASE \E s \in Stays, r \in Rooms : CheckIn(s, r)
  <2>1. PICK s \in Stays, r \in Rooms : CheckIn(s, r) BY <1>2
  <2>2. occupant' \in [Rooms -> Stays \cup {None}] /\ UNCHANGED <<room, gone, req, tick, running, clock, faults>>
    BY <2>1 DEF CheckIn, BoardInv, TypeOK
  <2> QED BY <2>2, Frame DEF BoardInv, TypeOK, RowsConsistent
<1>3. CASE TickRun
  BY <1>3, TickReadKeeps, TickWriteKeeps DEF TickRun
<1>4. CASE TickFail \/ Clock
  BY <1>4, TickFailKeeps, ClockKeeps
<1>5. CASE UNCHANGED vars
  BY <1>5, Frame DEF vars, BoardInv, TypeOK, RowsConsistent
<1> QED BY <1>1, <1>2, <1>3, <1>4, <1>5 DEF Next

(* Every reachable state of the cleaning board is well typed. *)
THEOREM TypeCorrect == Spec => []TypeOK
<1>1. BoardInv => TypeOK BY DEF BoardInv
<1> QED BY <1>1, InitInvariant, InductiveStep, PTL DEF Spec

(* Status, cleaning type and Do-Not-Disturb owner of a room never drift    *)
(* apart, whatever handlers and ticks overlap: every save writes a whole   *)
(* row that is consistent in itself.                                       *)
THEOREM RowsStayConsistent == Spec => []RowsConsistent
<1>1. BoardInv => RowsConsistent BY DEF BoardInv
<1> QED BY <1>1, InitInvariant, InductiveStep, PTL DEF Spec

----------------------------------------------------------------------------
(* Requests and ticks one at a time.  The vacate hook of a room is under   *)
(* way from the commit that emptied it until its save.                     *)
Hook(p, r) ==
  req[p].room = r /\ (req[p].pc = "vacate" \/ (req[p].pc = "save" /\ req[p].op = "vacate"))

(* A Do-Not-Disturb, stored or about to be, is of the stay in the room,    *)
(* unless the hook is about to end it; a save that may not end one has     *)
(* read the row as it still is.                                            *)
DndOfTheStay ==
  /\ \A p \in Reqs :
       /\ req[p].pc = "guest" => occupant[req[p].room] = req[p].sid
       /\ req[p].pc = "save" /\ req[p].row.dndBy # None => occupant[req[p].room] = req[p].row.dndBy
       /\ req[p].pc = "save" /\ req[p].op \notin {"dnd_off", "vacate"} =>
            (room[req[p].room].status = "dnd" => req[p].row.status = "dnd")
  /\ \A r \in Rooms :
       room[r].dndBy # None => occupant[r] = room[r].dndBy \/ \E p \in Reqs : Hook(p, r)

(* The tick works on rows as the table has them, and what it has not       *)
(* served yet is in its queue.                                             *)
TickFresh ==
  /\ tick.pc \in {"idle", "dnd"} => tick.queue = {}
  /\ \A e \in tick.queue :
       /\ e[2] = room[e[1]]
       /\ e[2].status = IF tick.pc = "release" THEN "dnd" ELSE "clean"
  /\ tick.pc \in {"release", "flag"} =>
       \A r \in Rooms : room[r].status = "dnd" /\ room[r].stamp # Today =>
                          tick.pc = "release" /\ <<r, room[r]>> \in tick.queue
  /\ tick.pc = "flag" =>
       \A r \in tick.occ : room[r].status = "clean" /\ room[r].stamp # Today =>
                             <<r, room[r]>> \in tick.queue

SerialInv == BoardInv /\ OneAtATime /\ DndOfTheStay /\ TickFresh

AloneInv == BoardInv /\ alone \in BOOLEAN /\ (alone => SerialInv)

(* Whoever is under way is alone; so is the tick. *)
Sole ==
  /\ \A p \in Reqs : req[p].pc # "idle" =>
       tick.pc = "idle" /\ \A x \in Reqs \ {p} : req[x].pc = "idle"
  /\ tick.pc # "idle" => \A x \in Reqs : req[x].pc = "idle"

LEMMA SoleNow == OneAtATime => Sole
BY HousekeepingAssumption DEF OneAtATime, Sole, Busy, Idle

LEMMA SoleNext == OneAtATime' => Sole'
BY SoleNow, PTL

(* The step of one request leaves the others alone. *)
LEMMA GoOne ==
  ASSUME TypeOK, NEW p \in Reqs, NEW q, Go(p, q)
  PROVE  req'[p] = q /\ \A x \in Reqs \ {p} : req'[x] = req[x]
BY DEF TypeOK, Go

(* Reads, and a table that stands: what is held stays good, provided that  *)
(* the request that goes on holds good data and drops no hook.             *)
LEMMA DndReadKeeps ==
  ASSUME SerialInv, NEW p \in Reqs, NEW q, Go(p, q), UNCHANGED <<room, occupant>>,
         q.pc = "guest" => occupant[q.room] = q.sid,
         q.pc = "save" /\ q.row.dndBy # None => occupant[q.room] = q.row.dndBy,
         q.pc = "save" /\ q.op \notin {"dnd_off", "vacate"} =>
           (room[q.room].status = "dnd" => q.row.status = "dnd"),
         \A r \in Rooms : Hook(p, r) => Hook(p, r)'
  PROVE  DndOfTheStay'
<1>1. TypeOK /\ DndOfTheStay
  BY DEF SerialInv, BoardInv
<1>2. req'[p] = q /\ \A x \in Reqs \ {p} : req'[x] = req[x]
  BY <1>1, GoOne
<1>3. \A r \in Rooms, x \in Reqs : Hook(x, r) => Hook(x, r)'
  BY <1>2 DEF Hook
<1>4. \A x \in Reqs :
       /\ req'[x].pc = "guest" => occupant[req'[x].room] = req'[x].sid
       /\ req'[x].pc = "save" /\ req'[x].row.dndBy # None => occupant[req'[x].room] = req'[x].row.dndBy
       /\ req'[x].pc = "save" /\ req'[x].op \notin {"dnd_off", "vacate"} =>
            (room[req'[x].room].status = "dnd" => req'[x].row.status = "dnd")
  BY <1>1, <1>2 DEF DndOfTheStay
<1> QED
  BY <1>1, <1>3, <1>4 DEF DndOfTheStay

LEMMA TickStands == TickFresh /\ UNCHANGED <<room, tick, clock>> => TickFresh'
BY DEF TickFresh, Today

(* The columns a board action leaves alone. *)
LEMMA BoardRowsDnd ==
  ASSUME NEW row \in RoomRow, Consistent(row), NEW op \in BoardOps, NEW t \in Types,
         NEW a \in Attendants, NEW x \in BoardRows(row, op, t, a)
  PROVE  x.dndBy = row.dndBy /\ (row.status = "dnd" => x.status = "dnd")
<1>0. op \in Ops BY DEF Ops
<1>1. \A y \in Transition(row, op, t) :
        y \in RoomRow /\ y.dndBy = row.dndBy /\ (y.status = "dnd" <=> row.status = "dnd")
  BY <1>0, TransitionRow
<1>2. CASE op \in {"start", "complete"}
  <2>1. PICK y \in Transition(row, op, t) :
          x.dndBy = y.dndBy /\ x.status = y.status
    <3>1. CASE op = "start"
      BY <1>1, <3>1 DEF BoardRows, RoomRow
    <3>2. CASE op = "complete"
      BY <1>1, <3>2 DEF BoardRows, RoomRow
    <3> QED BY <1>2, <3>1, <3>2
  <2> QED BY <1>1, <2>1
<1>3. CASE op = "assign"
  BY <1>3 DEF BoardRows, RoomRow
<1>4. CASE op \notin {"start", "complete", "assign"}
  BY <1>1, <1>4 DEF BoardRows
<1> QED BY <1>2, <1>3, <1>4

LEMMA SerialReads ==
  ASSUME SerialInv, OneAtATime', NEW p \in Reqs
  PROVE  /\ \A r \in Rooms, op \in BoardOps, t \in Types, a \in Attendants :
              BoardRead(p, r, op, t, a) => DndOfTheStay' /\ TickFresh'
         /\ \A s \in Stays, r \in Rooms : GuestEnter(p, s, r) => DndOfTheStay' /\ TickFresh'
         /\ \A on \in BOOLEAN : SetDndRead(p, on) => DndOfTheStay' /\ TickFresh'
         /\ VacateRead(p) => DndOfTheStay' /\ TickFresh'
<1>0. TypeOK /\ RowsConsistent /\ RequestsBound /\ DndOfTheStay /\ TickFresh /\ Sole /\ Sole'
  BY SoleNow, SoleNext DEF SerialInv, BoardInv
<1>1. ASSUME NEW r \in Rooms, NEW op \in BoardOps, NEW t \in Types, NEW a \in Attendants,
             BoardRead(p, r, op, t, a)
      PROVE  DndOfTheStay' /\ TickFresh'
  <2>1. PICK row \in BoardRows(room[r], op, t, a) :
          Go(p, [IdleReq EXCEPT !.pc = "save", !.op = op, !.room = r, !.row = row])
    BY <1>1 DEF BoardRead
  <2> DEFINE q == [IdleReq EXCEPT !.pc = "save", !.op = op, !.room = r, !.row = row]
  <2>2. Go(p, q) /\ q.pc = "save" /\ q.room = r /\ q.row = row /\ q.op = op
    BY <2>1 DEF IdleReq
  <2>3. row.dndBy = room[r].dndBy /\ (room[r].status = "dnd" => row.status = "dnd")
    BY <1>0, BoardRowsDnd DEF TypeOK, RowsConsistent
  <2>4. Idle(p) /\ UNCHANGED <<room, occupant, tick, clock>>
    BY <1>1 DEF BoardRead, Begins
  <2> HIDE DEF q
  <2>5. \A x \in Reqs : req[x].pc = "idle"
    BY <1>0, <2>2, <2>4, GoOne DEF Sole, Idle
  <2>6. room[r].dndBy # None => occupant[r] = room[r].dndBy
    BY <1>0, <2>5 DEF DndOfTheStay, Hook
  <2>7. \A y \in Rooms : ~Hook(p, y)
    BY <2>5 DEF Hook
  <2>8. DndOfTheStay'
    BY <2>2, <2>3, <2>4, <2>6, <2>7, DndReadKeeps
  <2> QED BY <1>0, <2>4, <2>8, TickStands
<1>2. ASSUME NEW s \in Stays, NEW r \in Rooms, GuestEnter(p, s, r) PROVE DndOfTheStay' /\ TickFresh'
  <2> DEFINE q == [IdleReq EXCEPT !.pc = "guest", !.sid = s, !.room = r]
  <2>1. /\ Go(p, q) /\ q.pc = "guest" /\ q.room = r /\ q.sid = s
        /\ occupant[r] = s /\ Idle(p) /\ UNCHANGED <<room, occupant, tick, clock>>
    BY <1>2 DEF GuestEnter, Begins, IdleReq
  <2>2. \A y \in Rooms : ~Hook(p, y)
    BY <2>1 DEF Hook, Idle
  <2> HIDE DEF q
  <2>3. DndOfTheStay'
    BY <2>1, <2>2, DndReadKeeps
  <2> QED BY <1>0, <2>1, <2>3, TickStands
<1>3. ASSUME NEW on \in BOOLEAN, SetDndRead(p, on) PROVE DndOfTheStay' /\ TickFresh'
  <2> DEFINE rr == req[p].room
             op == IF on THEN "dnd_on" ELSE "dnd_off"
  <2>1. /\ rr \in Rooms /\ req[p] \in Request /\ req[p].pc = "guest"
        /\ occupant[rr] = req[p].sid
    BY <1>0, <1>3 DEF SetDndRead, TypeOK, RequestsBound, DndOfTheStay
  <2>2. PICK row \in DndRows(room[rr], req[p].sid, on) :
          Go(p, [req[p] EXCEPT !.pc = "save", !.op = op, !.row = row])
    BY <1>3 DEF SetDndRead
  <2> DEFINE q == [req[p] EXCEPT !.pc = "save", !.op = op, !.row = row]
  <2>3. Go(p, q) /\ q.pc = "save" /\ q.room = rr /\ q.row = row /\ q.op = op
    BY <2>1, <2>2 DEF Request
  <2>4. /\ on => row.status = "dnd" /\ row.dndBy = req[p].sid
        /\ ~on => row.dndBy = None
    <3>1. PICK y \in Transition(room[rr], op, None) :
            row = [y EXCEPT !.dndBy = IF on THEN req[p].sid ELSE None, !.stamp = IF on THEN Today ELSE @]
      BY DEF DndRows
    <3>2. op \in Ops /\ op # "flag" /\ (on => op = "dnd_on")
      BY DEF Ops
    <3>3. room[rr] \in RoomRow /\ Consistent(room[rr])
      BY <1>0, <2>1 DEF TypeOK, RowsConsistent
    <3>4. y \in RoomRow /\ (on => y.status = "dnd")
      BY <3>2, <3>3, TransitionRow
    <3> QED BY <3>1, <3>4 DEF RoomRow
  <2>5. UNCHANGED <<room, occupant, tick, clock>>
    BY <1>3 DEF SetDndRead
  <2>6. \A y \in Rooms : ~Hook(p, y)
    BY <2>1 DEF Hook
  <2> HIDE DEF q
  <2>7. DndOfTheStay'
    BY <2>1, <2>3, <2>4, <2>5, <2>6, DndReadKeeps
  <2> QED BY <1>0, <2>5, <2>7, TickStands
<1>4. ASSUME VacateRead(p) PROVE DndOfTheStay' /\ TickFresh'
  <2> DEFINE rr == req[p].room
  <2>1. rr \in Rooms /\ req[p] \in Request /\ req[p].pc = "vacate"
    BY <1>0, <1>4 DEF VacateRead, TypeOK, RequestsBound
  <2>2. PICK y \in Transition(room[rr], "vacate", None) :
          Go(p, [req[p] EXCEPT !.pc = "save", !.op = "vacate", !.row = [y EXCEPT !.dndBy = None]])
    BY <1>4 DEF VacateRead
  <2> DEFINE row == [y EXCEPT !.dndBy = None]
             q == [req[p] EXCEPT !.pc = "save", !.op = "vacate", !.row = row]
  <2>3. row.dndBy = None
    <3>1. y \in RoomRow
      BY <1>0, <2>1, TransitionRow DEF TypeOK, RowsConsistent, Ops
    <3> QED BY <3>1 DEF RoomRow
  <2>4. Go(p, q) /\ q.pc = "save" /\ q.room = rr /\ q.op = "vacate" /\ q.row = row
    BY <2>1, <2>2 DEF Request
  <2>5. UNCHANGED <<room, occupant, tick, clock>>
    BY <1>4 DEF VacateRead
  <2> HIDE DEF q, row
  <2>6. \A z \in Rooms : Hook(p, z) => Hook(p, z)'
    BY <1>0, <2>4, GoOne DEF Hook
  <2>7. DndOfTheStay'
    BY <2>3, <2>4, <2>5, <2>6, DndReadKeeps
  <2> QED BY <1>0, <2>5, <2>7, TickStands
<1> QED BY <1>1, <1>2, <1>3, <1>4

(* The save of a request: nobody else is under way before or after.        *)
LEMMA SerialSave ==
  ASSUME SerialInv, NEW p \in Reqs, Save(p)
  PROVE  /\ DndOfTheStay' /\ TickFresh'
         /\ \A r \in Rooms : DndEnds(r) => ProperEnd(r)
<1> DEFINE rr == req[p].room
           row == req[p].row
<1>0. /\ TypeOK /\ RequestsBound /\ DndOfTheStay /\ TickFresh /\ Sole
      /\ req[p].pc = "save" /\ rr \in Rooms
  BY SoleNow DEF SerialInv, BoardInv, Save, RequestsBound
<1>1. /\ room' = [room EXCEPT ![rr] = row] /\ Go(p, IdleReq) /\ IdleReq.pc = "idle"
      /\ UNCHANGED <<occupant, tick, clock>>
  BY DEF Save, IdleReq
<1>2. req'[p] = IdleReq /\ \A x \in Reqs \ {p} : req[x].pc = "idle" /\ req'[x].pc = "idle"
  BY <1>0, <1>1, GoOne DEF Sole
<1>3. \A x \in Reqs : req'[x].pc = "idle"
  BY <1>1, <1>2
<1>4. tick'.pc = "idle" /\ tick'.queue = {}
  BY <1>0, <1>1 DEF Sole, TickFresh
<1>5. /\ room'[rr] = row
      /\ \A r \in Rooms \ {rr} : room'[r] = room[r]
  BY <1>0, <1>1 DEF TypeOK
<1>6. \A r \in Rooms : room'[r].dndBy # None => occupant'[r] = room'[r].dndBy
  <2>1. \A r \in Rooms \ {rr}, x \in Reqs : ~Hook(x, r)
    BY <1>2 DEF Hook
  <2> QED BY <1>0, <1>1, <1>5, <2>1 DEF DndOfTheStay
<1>7. DndOfTheStay' /\ TickFresh'
  BY <1>3, <1>4, <1>6 DEF DndOfTheStay, TickFresh
<1>8. ASSUME NEW r \in Rooms, DndEnds(r) PROVE ProperEnd(r)
  <2>1. r = rr /\ room[rr].status = "dnd" /\ row.status # "dnd"
    BY <1>5, <1>8 DEF DndEnds
  <2>2. req[p].op \in {"dnd_off", "vacate"}
    BY <1>0, <2>1 DEF DndOfTheStay
  <2>3. req'[p] # req[p]
    BY <1>0, <1>1, <1>2
  <2> QED BY <2>1, <2>2, <2>3 DEF ProperEnd
<1> QED BY <1>7, <1>8

(* The desk: whoever leaves takes the room's hook along, whoever comes in  *)
(* enters a room no stay, and so no Do-Not-Disturb but a dying one, is in. *)
LEMMA SerialDesk ==
  ASSUME SerialInv, OneAtATime', NEW s \in Stays, NEW r \in Rooms
  PROVE  /\ \A p \in Reqs : Leave(p, s, r) => DndOfTheStay' /\ TickFresh'
         /\ \A p \in Reqs, to \in Rooms : Move(p, s, r, to) => DndOfTheStay' /\ TickFresh'
         /\ CheckIn(s, r) => DndOfTheStay' /\ TickFresh'
<1>0. /\ TypeOK /\ RequestsBound /\ DndOfTheStay /\ TickFresh /\ Sole /\ Sole'
      /\ s # None /\ None \notin Stays
  BY SoleNow, SoleNext, HousekeepingAssumption DEF SerialInv, BoardInv
<1>1. ASSUME NEW p \in Reqs, Idle(p), occupant[r] = s,
             Go(p, [IdleReq EXCEPT !.pc = "vacate", !.room = r]),
             UNCHANGED <<room, tick, clock>>,
             \A x \in Rooms \ {r} : occupant'[x] = occupant[x] \/ occupant[x] = None
      PROVE  DndOfTheStay' /\ TickFresh'
  <2> DEFINE q == [IdleReq EXCEPT !.pc = "vacate", !.room = r]
  <2>1. q.pc = "vacate" /\ q.room = r
    BY DEF IdleReq
  <2>2. req'[p] = q /\ \A x \in Reqs \ {p} : req'[x] = req[x]
    BY <1>0, <1>1, GoOne
  <2>3. \A x \in Reqs : req[x].pc = "idle" /\ req'[x].pc \in {"idle", "vacate"}
    BY <1>0, <1>1, <2>1, <2>2 DEF Sole, Idle
  <2>4. Hook(p, r)'
    BY <2>1, <2>2 DEF Hook
  <2>5. ASSUME NEW x \in Rooms \ {r} PROVE room'[x].dndBy # None => occupant'[x] = room'[x].dndBy
    <3>1. room[x].dndBy # None => occupant[x] = room[x].dndBy
      BY <1>0, <2>3 DEF DndOfTheStay, Hook
    <3> QED BY <1>1, <3>1
  <2>6. DndOfTheStay'
    BY <2>3, <2>4, <2>5 DEF DndOfTheStay
  <2> QED BY <1>0, <1>1, <2>6, TickStands
<1>2. ASSUME NEW p \in Reqs, Leave(p, s, r) PROVE DndOfTheStay' /\ TickFresh'
  BY <1>0, <1>1, <1>2 DEF Leave, Begins, TypeOK
<1>3. ASSUME NEW p \in Reqs, NEW to \in Rooms, Move(p, s, r, to) PROVE DndOfTheStay' /\ TickFresh'
  BY <1>0, <1>1, <1>3 DEF Move, Begins, TypeOK
<1>4. ASSUME CheckIn(s, r) PROVE DndOfTheStay' /\ TickFresh'
  <2>1. /\ occupant[r] = None /\ UNCHANGED <<room, req, tick, clock>>
        /\ \A x \in Rooms \ {r} : occupant'[x] = occupant[x]
    BY <1>0, <1>4 DEF CheckIn, TypeOK
  <2>2. \A x \in Rooms, y \in Reqs : Hook(y, x) => Hook(y, x)'
    BY <2>1 DEF Hook
  <2>3. ASSUME NEW p \in Reqs
        PROVE  /\ req'[p].pc = "guest" => occupant'[req'[p].room] = req'[p].sid
               /\ req'[p].pc = "save" /\ req'[p].row.dndBy # None =>
                    occupant'[req'[p].room] = req'[p].row.dndBy
               /\ req'[p].pc = "save" /\ req'[p].op \notin {"dnd_off", "vacate"} =>
                    (room'[req'[p].room].status = "dnd" => req'[p].row.status = "dnd")
    <3>1. req[p].pc = "guest" => req[p].sid \in Stays
      BY <1>0 DEF RequestsBound
    <3>2. req[p].pc # "idle" => req[p].room \in Rooms
      BY <1>0 DEF RequestsBound
    <3> QED BY <1>0, <2>1, <3>1, <3>2 DEF DndOfTheStay
  <2>4. \A x \in Rooms : room'[x].dndBy # None =>
          occupant'[x] = room'[x].dndBy \/ \E y \in Reqs : Hook(y, x)'
    BY <1>0, <2>1, <2>2 DEF DndOfTheStay
  <2>5. DndOfTheStay'
    BY <2>3, <2>4 DEF DndOfTheStay
  <2> QED BY <1>0, <2>1, <2>5, TickStands
<1> QED BY <1>2, <1>3, <1>4

(* The rows the tick saves: handled today, and no Do-Not-Disturb ended by  *)
(* the flags.                                                              *)
LEMMA ReleasedStamp ==
  ASSUME NEW r, NEW row \in RoomRow, Consistent(row), NEW x \in Released(r, row)
  PROVE  x.stamp = Today /\ x.dndBy = None
<1>1. PICK z \in UNION {Reflag(r, y) : y \in Transition(row, "dnd_off", None)} :
        x = [z EXCEPT !.dndBy = None, !.stamp = Today]
  BY Zenon DEF Released
<1>2. PICK y \in Transition(row, "dnd_off", None) : z \in Reflag(r, y)
  BY <1>1
<1>3. "dnd_off" \in Ops /\ "flag" \in Ops /\ "daily" \in Types
  BY DEF Ops, BoardOps, Types
<1>4. y \in RoomRow
  BY <1>3, TransitionRow
<1>5. z \in RoomRow
  <2>1. CASE z = y BY <1>4, <2>1
  <2>2. CASE y.status = "clean" /\ z \in Transition(y, "flag", "daily")
    BY <1>4, <2>2 DEF Transition, To, RoomRow, Statuses, Types
  <2> QED BY <1>2, <2>1, <2>2 DEF Reflag
<1> QED BY <1>1, <1>5 DEF RoomRow

LEMMA FlaggedStamp ==
  ASSUME NEW row \in RoomRow, row.status = "clean", Consistent(row),
         NEW y \in Transition(row, "flag", "daily")
  PROVE  LET x == [y EXCEPT !.stamp = Today] IN
         x.stamp = Today /\ x.dndBy = None /\ x.status # "dnd"
<1>1. y = [row EXCEPT !.status = "needs_cleaning", !.type = "daily"]
  BY DEF Transition, To, RoomRow
<1> QED BY <1>1 DEF RoomRow, Consistent

(* The tick saves one row of its queue: that room is handled today, the    *)
(* others and their rows in the queue are as they were.                    *)
LEMMA TickSaves ==
  ASSUME SerialInv, NEW e \in tick.queue, NEW x, x.stamp = Today, x.dndBy = None,
         tick.pc \in {"release", "flag"},
         room' = [room EXCEPT ![e[1]] = x],
         tick' = [tick EXCEPT !.queue = @ \ {<<e[1], e[2]>>}],
         UNCHANGED <<req, occupant, clock>>
  PROVE  DndOfTheStay' /\ TickFresh'
<1>1. /\ TypeOK /\ DndOfTheStay /\ TickFresh /\ tick \in Tick
      /\ \A p \in Reqs : req[p].pc = "idle"
  BY SoleNow DEF SerialInv, BoardInv, TypeOK, Sole
<1>2. /\ e[1] \in Rooms /\ e = <<e[1], e[2]>> /\ tick.occ \subseteq Rooms
      /\ \A f \in tick.queue : f[1] \in Rooms /\ f = <<f[1], f[2]>>
  BY <1>1 DEF Tick
<1>3. /\ tick'.pc = tick.pc /\ tick'.occ = tick.occ
      /\ tick'.queue = tick.queue \ {e}
  BY <1>1, <1>2 DEF Tick
<1>4. /\ room'[e[1]] = x
      /\ \A r \in Rooms \ {e[1]} : room'[r] = room[r]
  BY <1>1, <1>2 DEF TypeOK
<1>5. \A f \in tick'.queue : f[1] # e[1] /\ f[1] \in Rooms /\ f \in tick.queue
  BY <1>1, <1>2, <1>3 DEF TickFresh
<1>6. DndOfTheStay'
  BY <1>1, <1>4 DEF DndOfTheStay, Hook
<1>7. TickFresh'
  <2>1. \A f \in tick'.queue : f[2] = room'[f[1]] /\ f[2].status = IF tick'.pc = "release" THEN "dnd" ELSE "clean"
    BY <1>1, <1>3, <1>4, <1>5 DEF TickFresh
  <2>2. ASSUME NEW r \in Rooms, room'[r].stamp # Today
        PROVE  /\ r # e[1] /\ room'[r] = room[r]
               /\ <<r, room[r]>> \in tick.queue => <<r, room'[r]>> \in tick'.queue
    <3>1. r # e[1]
      BY <1>4, <2>2
    <3> QED BY <1>3, <1>4, <3>1
  <2>3. Today' = Today
    BY DEF Today
  <2>4. \A r \in Rooms : room'[r].status = "dnd" /\ room'[r].stamp # Today =>
          tick'.pc = "release" /\ <<r, room'[r]>> \in tick'.queue
    BY <1>1, <1>3, <2>2 DEF TickFresh
  <2>5. tick'.pc = "flag" =>
       \A r \in tick'.occ : room'[r].status = "clean" /\ room'[r].stamp # Today =>
                             <<r, room'[r]>> \in tick'.queue
    BY <1>1, <1>2, <1>3, <2>2 DEF TickFresh
  <2> QED BY <1>3, <2>1, <2>3, <2>4, <2>5 DEF TickFresh
<1> QED BY <1>6, <1>7

LEMMA SerialTick ==
  ASSUME SerialInv, TickRun
  PROVE  /\ DndOfTheStay' /\ TickFresh'
         /\ \A r \in Rooms : DndEnds(r) => ProperEnd(r)
<1>1. TypeOK /\ RowsConsistent /\ DndOfTheStay /\ TickFresh /\ tick \in Tick
  BY DEF SerialInv, BoardInv, TypeOK
<1>2. ASSUME UNCHANGED <<room, req, occupant>> PROVE DndOfTheStay' /\ \A r \in Rooms : ~DndEnds(r)
  BY <1>1, <1>2 DEF DndOfTheStay, Hook, DndEnds
<1>3. CASE TickStart
  <2>1. tick'.pc = "dnd" /\ tick'.queue = {} /\ UNCHANGED <<room, req, occupant>>
    BY <1>3 DEF TickStart, TickStep, IdleTick
  <2> QED BY <1>2, <2>1 DEF TickFresh
<1>4. CASE TickReadDnd
  <2> DEFINE rs == {x \in Rooms : room[x].status = "dnd" /\ room[x].stamp # Today}
  <2>1. /\ tick'.pc = "release" /\ tick'.queue = Read(rs)
        /\ UNCHANGED <<room, req, occupant, clock>>
    BY <1>1, <1>4 DEF TickReadDnd, TickStep, Tick
  <2>2. \A f \in Read(rs) : f[2] = room[f[1]] /\ f[2].status = "dnd"
    BY DEF Read
  <2>3. \A r \in rs : <<r, room[r]>> \in Read(rs)
    BY DEF Read
  <2>4. Today' = Today
    BY <2>1 DEF Today
  <2>5. TickFresh'
    BY <2>1, <2>2, <2>3, <2>4 DEF TickFresh
  <2> QED BY <1>2, <2>1, <2>5
<1>5. CASE TickReadClean
  <2> DEFINE rs == {x \in tick.occ : room[x].status = "clean" /\ room[x].stamp # Today}
  <2>1. /\ tick'.pc = "flag" /\ tick'.queue = Read(rs) /\ tick'.occ = tick.occ
        /\ tick.pc = "release" /\ tick.queue = {}
        /\ UNCHANGED <<room, req, occupant, clock>>
    BY <1>1, <1>5 DEF TickReadClean, TickStep, Tick
  <2>2. \A f \in Read(rs) : f[2] = room[f[1]] /\ f[2].status = "clean"
    BY DEF Read
  <2>3. \A r \in rs : <<r, room[r]>> \in Read(rs)
    BY DEF Read
  <2>4. Today' = Today
    BY <2>1 DEF Today
  <2>5. TickFresh'
    BY <1>1, <2>1, <2>2, <2>3, <2>4 DEF TickFresh
  <2> QED BY <1>2, <2>1, <2>5
<1>6. CASE TickDone
  <2>1. tick'.pc = "idle" /\ tick'.queue = {} /\ UNCHANGED <<room, req, occupant>>
    BY <1>6 DEF TickDone, TickStep, IdleTick
  <2> QED BY <1>2, <2>1 DEF TickFresh
<1>7. ASSUME NEW e \in tick.queue PROVE e[1] \in Rooms /\ e[2] \in RoomRow /\ Consistent(e[2])
  BY <1>1 DEF Tick, RowsConsistent
<1>8. ASSUME NEW e \in tick.queue, TickRelease(e[1], e[2])
      PROVE  DndOfTheStay' /\ TickFresh' /\ \A r \in Rooms : DndEnds(r) => ProperEnd(r)
  <2>1. PICK x \in Released(e[1], e[2]) : room' = [room EXCEPT ![e[1]] = x]
    BY <1>8 DEF TickRelease
  <2>2. x.stamp = Today /\ x.dndBy = None
    BY <1>7, ReleasedStamp
  <2>3. DndOfTheStay' /\ TickFresh'
    BY <1>8, <2>1, <2>2, TickSaves DEF TickRelease, TickStep
  <2> QED BY <1>8, <2>3 DEF TickRelease, ProperEnd
<1>9. ASSUME NEW e \in tick.queue, TickFlag(e[1], e[2])
      PROVE  DndOfTheStay' /\ TickFresh' /\ \A r \in Rooms : DndEnds(r) => ProperEnd(r)
  <2>1. PICK y \in Transition(e[2], "flag", "daily") :
          room' = [room EXCEPT ![e[1]] = [y EXCEPT !.stamp = Today]]
    BY <1>9 DEF TickFlag
  <2> DEFINE x == [y EXCEPT !.stamp = Today]
  <2>2. tick.pc = "flag" /\ e[2].status = "clean" /\ e[2] = room[e[1]]
    BY <1>1, <1>9 DEF TickFlag, TickFresh
  <2>3. x.stamp = Today /\ x.dndBy = None
    BY <1>7, <2>2, FlaggedStamp
  <2>4. DndOfTheStay' /\ TickFresh'
    BY <1>9, <2>1, <2>2, <2>3, TickSaves DEF TickFlag, TickStep
  <2>5. \A r \in Rooms : ~DndEnds(r)
    BY <1>1, <1>7, <2>1, <2>2 DEF DndEnds, TypeOK
  <2> QED BY <2>4, <2>5
<1> QED BY <1>2, <1>3, <1>4, <1>5, <1>6, <1>8, <1>9 DEF TickRun, TickFresh

(* One step of a behaviour without overlaps. *)
LEMMA SerialStep ==
  ASSUME SerialInv, Next, OneAtATime', faults' = 0
  PROVE  /\ DndOfTheStay' /\ TickFresh'
         /\ \A r \in Rooms : DndEnds(r) => ProperEnd(r)
<1>1. TypeOK /\ DndOfTheStay /\ TickFresh
  BY DEF SerialInv, BoardInv
<1>2. ASSUME UNCHANGED room PROVE \A r \in Rooms : ~DndEnds(r)
  BY <1>2 DEF DndEnds
<1>3. ASSUME NEW p \in Reqs, Handler(p)
      PROVE  DndOfTheStay' /\ TickFresh' /\ \A r \in Rooms : DndEnds(r) => ProperEnd(r)
  <2>1. CASE Save(p)
    BY <2>1, SerialSave
  <2>2. ASSUME NEW s \in Stays, NEW r \in Rooms, NEW to \in Rooms, Leave(p, s, r) \/ Move(p, s, r, to)
        PROVE  DndOfTheStay' /\ TickFresh' /\ UNCHANGED room
    BY <2>2, SerialDesk DEF Leave, Move
  <2>3. ASSUME NEW s \in Stays, NEW r \in Rooms, GuestEnter(p, s, r)
        PROVE  DndOfTheStay' /\ TickFresh' /\ UNCHANGED room
    BY <2>3, SerialReads DEF GuestEnter
  <2>4. ASSUME NEW r \in Rooms, NEW op \in BoardOps, NEW t \in Types, NEW a \in Attendants,
               BoardRead(p, r, op, t, a)
        PROVE  DndOfTheStay' /\ TickFresh' /\ UNCHANGED room
    BY <2>4, SerialReads DEF BoardRead
  <2>5. ASSUME NEW on \in BOOLEAN, SetDndRead(p, on)
        PROVE  DndOfTheStay' /\ TickFresh' /\ UNCHANGED room
    BY <2>5, SerialReads DEF SetDndRead
  <2>6. CASE VacateRead(p)
    BY <1>2, <2>6, SerialReads DEF VacateRead
  <2> QED BY <1>2, <1>3, <2>1, <2>2, <2>3, <2>4, <2>5, <2>6 DEF Handler
<1>4. ASSUME NEW s \in Stays, NEW r \in Rooms, CheckIn(s, r)
      PROVE  DndOfTheStay' /\ TickFresh' /\ UNCHANGED room
  BY <1>4, SerialDesk DEF CheckIn
<1>5. ~TickFail
  <2>1. faults \in Nat BY <1>1 DEF TypeOK
  <2> QED BY <2>1 DEF TickFail
<1>6. CASE Clock
  <2>1. tick'.pc = "idle" /\ tick'.queue = {} /\ UNCHANGED <<room, occupant, req>>
    BY <1>1, <1>6 DEF Clock, TickFresh
  <2>2. DndOfTheStay'
    BY <1>1, <2>1 DEF DndOfTheStay, Hook
  <2> QED BY <1>2, <2>1, <2>2 DEF TickFresh
<1> QED BY <1>2, <1>3, <1>4, <1>5, <1>6, SerialTick DEF Next

LEMMA AloneInvariance == MCFairSpec => []AloneInv
<1>1. MCInit => AloneInv
  <2> SUFFICES ASSUME MCInit PROVE AloneInv
    OBVIOUS
  <2>1. BoardInv /\ alone \in BOOLEAN
    BY InitInvariant DEF MCInit
  <2>2. \A p \in Reqs : req[p].pc = "idle"
    BY DEF MCInit, Init, IdleReq
  <2>3. OneAtATime /\ DndOfTheStay /\ TickFresh
    BY <2>2 DEF MCInit, Init, OneAtATime, Busy, Idle, DndOfTheStay, TickFresh, IdleTick, CleanRow
  <2> QED BY <2>1, <2>3 DEF AloneInv, SerialInv
<1>2. AloneInv /\ [MCNext]_<<vars, alone>> => AloneInv'
  <2> SUFFICES ASSUME AloneInv, [MCNext]_<<vars, alone>> PROVE AloneInv'
    OBVIOUS
  <2>1. [Next]_vars /\ alone' = alone
    BY DEF MCNext
  <2>2. BoardInv'
    BY <2>1, InductiveStep DEF AloneInv
  <2>3. ASSUME alone, MCNext PROVE SerialInv'
    BY <2>2, <2>3, SerialStep DEF AloneInv, SerialInv, MCNext
  <2>4. ASSUME alone, UNCHANGED <<vars, alone>> PROVE SerialInv'
    <3>1. UNCHANGED vars BY <2>4
    <3>2. DndOfTheStay'
      BY <2>4, <3>1 DEF AloneInv, SerialInv, DndOfTheStay, Hook, vars
    <3>3. OneAtATime' /\ TickFresh'
      BY <2>4, <3>1, TickStands DEF AloneInv, SerialInv, OneAtATime, Busy, Idle, vars
    <3> QED BY <2>2, <3>2, <3>3 DEF SerialInv
  <2> QED BY <2>1, <2>2, <2>3, <2>4 DEF AloneInv
<1> QED BY <1>1, <1>2, PTL DEF MCFairSpec

(* Served one at a time, a Do-Not-Disturb is of the stay that is in the    *)
(* room, for every number of rooms, stays and days: it goes with a         *)
(* checkout, stays behind at no move, and nothing but the guest's switch,  *)
(* a vacate or the next day's tick ends it.                                *)
THEOREM DndFollowsItsStay == MCFairSpec => AloneDndIsTheStays
<1>1. AloneInv => (alone => DndDiesWithStay)
  BY DEF AloneInv, SerialInv, DndOfTheStay, DndDiesWithStay, Quiet, Hook
<1>2. AloneInv /\ [MCNext]_<<vars, alone>>
        => [alone => \A r \in Rooms : DndEnds(r) => ProperEnd(r)]_<<vars, alone>>
  BY SerialStep DEF AloneInv, MCNext
<1> QED BY <1>1, <1>2, AloneInvariance, PTL DEF MCFairSpec, AloneDndIsTheStays

(* Served one at a time, a completed run leaves no Do-Not-Disturb of an    *)
(* earlier day and no room it found occupied clean and unhandled.          *)
THEOREM ServiceIsDone == MCFairSpec => AloneServiceDone
<1>1. AloneInv /\ [MCNext]_<<vars, alone>>
        => [alone /\ RunCompletes => \A r \in Rooms : Served(r)]_<<vars, alone>>
  <2> SUFFICES ASSUME AloneInv, MCNext, alone, RunCompletes, NEW r \in Rooms PROVE Served(r)
    OBVIOUS
  <2>1. SerialInv /\ TypeOK /\ TickFresh /\ tick.pc = "flag" /\ tick'.pc = "idle"
    BY DEF AloneInv, SerialInv, BoardInv, RunCompletes
  <2>2. TickDone
    <3>1. tick' # tick
      BY <2>1
    <3>2. ~TickFail
      BY <2>1 DEF MCNext, TickFail, TypeOK
    <3>3. ~(\E p \in Reqs : Handler(p)) /\ ~Clock /\ ~(\E s \in Stays, x \in Rooms : CheckIn(s, x))
      BY <3>1 DEF Handler, BoardRead, GuestEnter, Leave, Move, SetDndRead, VacateRead, Save,
                  Clock, CheckIn
    <3>4. ~TickStart /\ ~TickReadDnd /\ ~TickReadClean
      BY <2>1 DEF TickStart, TickReadDnd, TickReadClean
    <3>5. ASSUME NEW e \in tick.queue, TickRelease(e[1], e[2]) \/ TickFlag(e[1], e[2]) PROVE FALSE
      <4>1. tick' = [tick EXCEPT !.queue = @ \ {<<e[1], e[2]>>}]
        BY <3>5 DEF TickRelease, TickFlag, TickStep
      <4> QED BY <2>1, <4>1 DEF TypeOK, Tick
    <3> QED BY <3>2, <3>3, <3>4, <3>5 DEF MCNext, Next, TickRun
  <2>3. tick.queue = {}
    BY <2>2 DEF TickDone
  <2> QED BY <2>1, <2>3 DEF TickFresh, Served
<1> QED BY <1>1, AloneInvariance, PTL DEF MCFairSpec, AloneServiceDone
=============================================================================
