---------------------------- MODULE StaysProofs ----------------------------
(***************************************************************************)
(* Proofs about Stays, for every number of rooms, stays, codes, requests,  *)
(* days and faults: the state is well typed, the two indexes keep rooms    *)
(* and codes unique whatever snapshots are saved, and guests only enter    *)
(* rooms that are active at that moment.  Requests one at a time: rooms    *)
(* follow their stays, and the desk implements StayBook.                   *)
(***************************************************************************)
EXTENDS MCStays, TLAPS

(* Every stay that is read, and so every snapshot, names a room: without   *)
(* it the vacate hook could be called for no room at all.                  *)
RoomsNamed ==
  /\ \A s \in Stays : Active(s) => stay[s].room \in Rooms
  /\ \A p \in Procs :
       /\ req[p].pc \in {"code", "insert", "move", "vacate", "vacate_save", "hk_save", "room_save"}
            => req[p].room \in Rooms
       /\ req[p].pc \in {"update", "regen", "regen_save", "move", "checkout"}
            => req[p].row.room \in Rooms
  /\ \A e \in cand : e[2].room \in Rooms

LEMMA IdleReqType == IdleReq \in Request /\ NoStay \in StayRow /\ NoRoom \in RoomRow
<1>1. NoStay \in StayRow
  BY StaysAssumption DEF NoStay, StayRow, Days
<1>2. NoRoom \in RoomRow
  BY DEF NoRoom, RoomRow
<1> QED
  BY <1>1, <1>2 DEF IdleReq, Request, PCs

(* A step that replaces one request by a request keeps req well typed.     *)
LEMMA GoType ==
  ASSUME req \in [Procs -> Request], NEW p, NEW q \in Request, Go(p, q)
  PROVE  req' \in [Procs -> Request]
BY DEF Go

LEMMA InitType == Init => TypeOK
<1> SUFFICES ASSUME Init PROVE TypeOK
  OBVIOUS
<1>1. stay \in [Stays -> StayRow] /\ req \in [Procs -> Request]
  BY IdleReqType DEF Init
<1>2. room \in [Rooms -> RoomRow]
  BY DEF Init, RoomRow
<1>3. clock \in 0..(2 * MaxDay + 1) /\ faults \in 0..MaxFaults
  BY StaysAssumption DEF Init
<1>4. hotelLock \in Procs \cup {None} /\ cand \subseteq Stays \X StayRow
  BY DEF Init
<1>5. running \in BOOLEAN /\ owed \subseteq Rooms
  BY DEF Init
<1> QED
  BY <1>1, <1>2, <1>3, <1>4, <1>5 DEF TypeOK

LEMMA ReleaseType ==
  ASSUME hotelLock \in Procs \cup {None}, NEW p, Release(p)
  PROVE  hotelLock' \in Procs \cup {None}
BY DEF Release

(* The row that a close, a check-in or a room change writes is a row.      *)
LEMMA RowTypes ==
  ASSUME NEW row \in StayRow
  PROVE  /\ \A how \in {"manual", "automatic"} : Closed(row, how) \in StayRow
         /\ \A r \in Rooms : [row EXCEPT !.room = r] \in StayRow
         /\ \A c \in Codes : [row EXCEPT !.code = c] \in StayRow
         /\ \A d \in Days : [row EXCEPT !.due = d] \in StayRow
BY DEF Closed, StayRow

LEMMA LeaveRoomType ==
  ASSUME TypeOK, NEW s, NEW row \in StayRow, LeaveRoom(s, row)
  PROVE  stay' \in [Stays -> StayRow] /\ owed' \subseteq Rooms
BY DEF TypeOK, LeaveRoom, Vacates

(* The steps of the requests, grouped by the handler they belong to.       *)
LEMMA CheckInType ==
  ASSUME TypeOK, NEW p \in Procs
  PROVE  /\ \A r \in Rooms : CheckInLock(p, r) => TypeOK'
         /\ \A c \in Codes : CheckInCode(p, c) => TypeOK'
         /\ CodesExhausted(p) => TypeOK'
         /\ \A s \in Stays, d \in Days : CheckInInsert(p, s, d) => TypeOK'
<1> USE DEF TypeOK
<1>1. ASSUME NEW r \in Rooms, CheckInLock(p, r) PROVE TypeOK'
  <2>1. [IdleReq EXCEPT !.pc = "code", !.room = r] \in Request
    BY IdleReqType DEF Request, PCs, IdleReq
  <2> QED
    BY <1>1, <2>1, GoType DEF CheckInLock, LockHotel
<1>2. ASSUME NEW c \in Codes, CheckInCode(p, c) PROVE TypeOK'
  <2>1. [req[p] EXCEPT !.pc = "insert", !.row.code = c] \in Request
    <3>1. req[p] \in Request /\ req[p].row \in StayRow
      BY DEF Request
    <3>2. [req[p].row EXCEPT !.code = c] \in StayRow
      BY <3>1, RowTypes
    <3>3. [req[p] EXCEPT !.pc = "insert", !.row.code = c]
            = [req[p] EXCEPT !.pc = "insert", !.row = [req[p].row EXCEPT !.code = c]]
      BY <3>1 DEF Request
    <3> QED
      BY <3>1, <3>2, <3>3 DEF Request, PCs
  <2> QED
    BY <1>2, <2>1, GoType DEF CheckInCode
<1>3. ASSUME CodesExhausted(p) PROVE TypeOK'
  BY <1>3, GoType, IdleReqType, ReleaseType DEF CodesExhausted, Finish
<1>4. ASSUME NEW s \in Stays, NEW d \in Days, CheckInInsert(p, s, d) PROVE TypeOK'
  <2>1. NewStay(req[p].room, req[p].row.code, d) \in StayRow
    BY DEF NewStay, StayRow, Request
  <2> QED
    BY <1>4, <2>1, GoType, IdleReqType, ReleaseType DEF CheckInInsert, Finish
<1> QED
  BY <1>1, <1>2, <1>3, <1>4

LEMMA StaySnapshotType ==
  ASSUME TypeOK, NEW p \in Procs
  PROVE  /\ \A s \in Stays, d \in Days : UpdateRead(p, s, d) => TypeOK'
         /\ \A s \in Stays : RegenRead(p, s) => TypeOK'
         /\ \A c \in Codes : RegenCode(p, c) => TypeOK'
         /\ SaveSnapshot(p) => TypeOK'
         /\ \A s \in Stays : CheckoutRead(p, s) => TypeOK'
         /\ CheckoutSave(p) => TypeOK'
<1> USE DEF TypeOK
<1>1. ASSUME NEW s \in Stays, NEW d \in Days, UpdateRead(p, s, d) PROVE TypeOK'
  <2>1. [IdleReq EXCEPT !.pc = "update", !.sid = s, !.row = [stay[s] EXCEPT !.due = d]] \in Request
    BY IdleReqType, RowTypes DEF Request, PCs, IdleReq
  <2> QED
    BY <1>1, <2>1, GoType DEF UpdateRead
<1>2. ASSUME NEW s \in Stays, RegenRead(p, s) PROVE TypeOK'
  <2>1. [IdleReq EXCEPT !.pc = "regen", !.sid = s, !.row = stay[s]] \in Request
    BY IdleReqType DEF Request, PCs, IdleReq
  <2> QED
    BY <1>2, <2>1, GoType DEF RegenRead
<1>3. ASSUME NEW c \in Codes, RegenCode(p, c) PROVE TypeOK'
  <2>1. [req[p] EXCEPT !.pc = "regen_save", !.row.code = c] \in Request
    <3>1. req[p] \in Request /\ req[p].row \in StayRow
      BY DEF Request
    <3>2. [req[p].row EXCEPT !.code = c] \in StayRow
      BY <3>1, RowTypes
    <3>3. [req[p] EXCEPT !.pc = "regen_save", !.row.code = c]
            = [req[p] EXCEPT !.pc = "regen_save", !.row = [req[p].row EXCEPT !.code = c]]
      BY <3>1 DEF Request
    <3> QED
      BY <3>1, <3>2, <3>3 DEF Request, PCs
  <2> QED
    BY <1>3, <2>1, GoType DEF RegenCode
<1>4. ASSUME SaveSnapshot(p) PROVE TypeOK'
  <2>1. req[p].row \in StayRow
    BY DEF Request
  <2> QED
    BY <1>4, <2>1, GoType, IdleReqType DEF SaveSnapshot, Finish
<1>5. ASSUME NEW s \in Stays, CheckoutRead(p, s) PROVE TypeOK'
  <2>1. [IdleReq EXCEPT !.pc = "checkout", !.sid = s, !.row = stay[s]] \in Request
    BY IdleReqType DEF Request, PCs, IdleReq
  <2> QED
    BY <1>5, <2>1, GoType DEF CheckoutRead
<1>6. ASSUME CheckoutSave(p) PROVE TypeOK'
  <2>1. req[p].row \in StayRow /\ Closed(req[p].row, "manual") \in StayRow
    BY RowTypes DEF Request
  <2>2. [IdleReq EXCEPT !.pc = "vacate", !.room = req[p].row.room] \in Request
    BY <2>1, IdleReqType DEF Request, PCs, IdleReq, StayRow
  <2> QED
    BY <1>6, <2>1, <2>2, GoType, LeaveRoomType DEF CheckoutSave
<1> QED
  BY <1>1, <1>2, <1>3, <1>4, <1>5, <1>6

LEMMA MoveType ==
  ASSUME TypeOK, NEW p \in Procs
  PROVE  /\ \A s \in Stays, r \in Rooms : MoveLock(p, s, r) => TypeOK'
         /\ MoveSave(p) => TypeOK'
<1> USE DEF TypeOK
<1>1. ASSUME NEW s \in Stays, NEW r \in Rooms, MoveLock(p, s, r) PROVE TypeOK'
  <2>1. [IdleReq EXCEPT !.pc = "move", !.sid = s, !.row = stay[s], !.room = r] \in Request
    BY IdleReqType DEF Request, PCs, IdleReq
  <2> QED
    BY <1>1, <2>1, GoType DEF MoveLock, LockHotel
<1>2. ASSUME MoveSave(p) PROVE TypeOK'
  <2> DEFINE row == [req[p].row EXCEPT !.room = req[p].room]
  <2>1. req[p].row \in StayRow /\ row \in StayRow
    BY DEF Request, StayRow
  <2>2. [IdleReq EXCEPT !.pc = "vacate", !.room = req[p].row.room] \in Request
    BY <2>1, IdleReqType DEF Request, PCs, IdleReq, StayRow
  <2>3. CASE IndexesAllow(req[p].sid, row)
    <3>1. LeaveRoom(req[p].sid, row) /\ Go(p, [IdleReq EXCEPT !.pc = "vacate", !.room = req[p].row.room])
      BY <1>2, <2>3 DEF MoveSave
    <3>2. stay' \in [Stays -> StayRow] /\ owed' \subseteq Rooms
      BY <3>1, <2>1, LeaveRoomType
    <3> QED
      BY <1>2, <3>1, <3>2, <2>2, GoType, ReleaseType DEF MoveSave
  <2>4. CASE ~IndexesAllow(req[p].sid, row)
    BY <1>2, <2>4, GoType, IdleReqType, ReleaseType DEF MoveSave, Finish
  <2> QED
    BY <2>3, <2>4
<1> QED
  BY <1>1, <1>2

LEMMA AfterVacateType == ASSUME NEW p PROVE AfterVacate(p) \in Request
BY IdleReqType DEF AfterVacate, IdleReq, Request, PCs

(* The room row a request saves is a row, since it was read as one.        *)
LEMMA RoomSaveType ==
  ASSUME TypeOK, RoomsNamed, NEW p \in Procs
  PROVE  /\ VacateRead(p) => TypeOK'
         /\ VacateSave(p) => TypeOK'
         /\ VacateFail(p) => TypeOK'
         /\ \A r \in Rooms, flag \in BOOLEAN : HkRead(p, r, flag) => TypeOK'
         /\ HkSave(p) => TypeOK'
         /\ \A r \in Rooms, st \in Targets : RoomStatusRead(p, r, st) => TypeOK'
         /\ RoomStatusSave(p) => TypeOK'
<1> USE DEF TypeOK
<1>0. req[p].rrow \in RoomRow /\ [req[p].rrow EXCEPT !.turnover = TRUE] \in RoomRow
  BY DEF Request, RoomRow
<1>1. ASSUME VacateRead(p) PROVE TypeOK'
  <2>1. room[req[p].room] \in RoomRow
    BY <1>1 DEF VacateRead, RoomsNamed
  <2>2. [req[p] EXCEPT !.pc = "vacate_save", !.rrow = room[req[p].room]] \in Request
    BY <2>1 DEF Request, PCs
  <2> QED
    BY <1>1, <2>2, GoType DEF VacateRead
<1>2. ASSUME VacateSave(p) PROVE TypeOK'
  BY <1>2, <1>0, GoType, AfterVacateType DEF VacateSave
<1>3. ASSUME VacateFail(p) PROVE TypeOK'
  BY <1>3, GoType, AfterVacateType, StaysAssumption DEF VacateFail
<1>4. ASSUME NEW r \in Rooms, NEW flag \in BOOLEAN, HkRead(p, r, flag) PROVE TypeOK'
  <2>1. [IdleReq EXCEPT !.pc = "hk_save", !.room = r,
                        !.rrow = [room[r] EXCEPT !.turnover = flag]] \in Request
    BY IdleReqType DEF Request, PCs, IdleReq, RoomRow
  <2> QED
    BY <1>4, <2>1, GoType DEF HkRead
<1>5. ASSUME HkSave(p) PROVE TypeOK'
  BY <1>5, <1>0, GoType, IdleReqType DEF HkSave, Finish
<1>6. ASSUME NEW r \in Rooms, NEW st \in Targets, RoomStatusRead(p, r, st) PROVE TypeOK'
  <2>1. [IdleReq EXCEPT !.pc = "room_save", !.room = r,
                        !.rrow = [room[r] EXCEPT !.status = st]] \in Request
    <3>1. room[r] \in RoomRow /\ st \in {"active", "out_of_service", "inactive"}
      BY StaysAssumption
    <3>2. [room[r] EXCEPT !.status = st] \in RoomRow
      BY <3>1 DEF RoomRow
    <3> QED
      BY <3>2, IdleReqType DEF Request, PCs, IdleReq
  <2> QED
    BY <1>6, <2>1, GoType DEF RoomStatusRead, LockHotel
<1>7. ASSUME RoomStatusSave(p) PROVE TypeOK'
  BY <1>7, <1>0, GoType, IdleReqType, ReleaseType DEF RoomStatusSave, Finish
<1> QED
  BY <1>1, <1>2, <1>3, <1>4, <1>5, <1>6, <1>7

LEMMA AutoType ==
  ASSUME TypeOK
  PROVE  /\ AutoRun => TypeOK'
         /\ AutoFail => TypeOK'
         /\ Crash => TypeOK'
         /\ Tick => TypeOK'
<1> USE DEF TypeOK
<1>0. [IdleReq EXCEPT !.pc = "auto"] \in Request
  BY IdleReqType DEF Request, PCs, IdleReq
<1>1. ASSUME AutoStart PROVE TypeOK'
  <2>1. cand' \subseteq Stays \X StayRow
    BY <1>1 DEF AutoStart
  <2> QED
    BY <1>1, <1>0, <2>1, GoType DEF AutoStart
<1>2. ASSUME NEW e \in cand, AutoClose(e[1], e[2]) PROVE TypeOK'
  <2>1. e[1] \in Stays /\ e[2] \in StayRow
    OBVIOUS
  <2>2. Closed(e[2], "automatic") \in StayRow
    BY <2>1, RowTypes
  <2>3. [IdleReq EXCEPT !.pc = "vacate", !.room = e[2].room] \in Request
    <3>1. e[2].room \in Rooms \cup {None}
      BY <2>1 DEF StayRow
    <3> QED
      BY <3>1, IdleReqType DEF Request, PCs, IdleReq
  <2>4. stay' \in [Stays -> StayRow] /\ owed' \subseteq Rooms
    BY <1>2, <2>2, LeaveRoomType DEF AutoClose
  <2> QED
    BY <1>2, <2>3, <2>4, GoType DEF AutoClose
<1>3. ASSUME AutoDone PROVE TypeOK'
  BY <1>3, GoType, IdleReqType DEF AutoDone, Finish
<1>4. ASSUME AutoFail PROVE TypeOK'
  <2>1. faults' \in 0..MaxFaults
    BY <1>4, StaysAssumption DEF AutoFail
  <2>2. req' \in [Procs -> Request]
    BY <1>4, GoType, IdleReqType DEF AutoFail, Finish
  <2>3. cand' = {} /\ running' = FALSE /\ UNCHANGED <<stay, room, hotelLock, clock, owed>>
    BY <1>4 DEF AutoFail
  <2> QED
    BY <2>1, <2>2, <2>3
<1>5. ASSUME Crash PROVE TypeOK'
  <2>1. faults' \in 0..MaxFaults
    BY <1>5, StaysAssumption DEF Crash
  <2>2. req' \in [Procs -> Request]
    BY <1>5, IdleReqType DEF Crash
  <2>3. /\ cand' = {} /\ running' = FALSE /\ hotelLock' = None
        /\ UNCHANGED <<stay, room, clock, owed>>
    BY <1>5 DEF Crash
  <2> QED
    BY <2>1, <2>2, <2>3
<1>6. ASSUME Tick PROVE TypeOK'
  BY <1>6, StaysAssumption DEF Tick
<1> QED
  BY <1>1, <1>2, <1>3, <1>4, <1>5, <1>6 DEF AutoRun

LEMMA NextType == TypeOK /\ RoomsNamed /\ [Next]_vars => TypeOK'
<1> SUFFICES ASSUME TypeOK, RoomsNamed, [Next]_vars PROVE TypeOK'
  OBVIOUS
<1>1. ASSUME NEW p \in Procs, Begin(p) PROVE TypeOK'
  <2>1. ASSUME NEW r \in Rooms, CheckInLock(p, r) PROVE TypeOK'
    BY <2>1, CheckInType
  <2>2. ASSUME NEW s \in Stays, NEW d \in Days, UpdateRead(p, s, d) PROVE TypeOK'
    BY <2>2, StaySnapshotType
  <2>3. ASSUME NEW s \in Stays, RegenRead(p, s) \/ CheckoutRead(p, s) PROVE TypeOK'
    BY <2>3, StaySnapshotType
  <2>4. ASSUME NEW s \in Stays, NEW r \in Rooms, MoveLock(p, s, r) PROVE TypeOK'
    BY <2>4, MoveType
  <2>5. ASSUME NEW r \in Rooms, NEW st \in Targets, RoomStatusRead(p, r, st) PROVE TypeOK'
    BY <2>5, RoomSaveType
  <2>6. ASSUME NEW r \in Rooms, NEW flag \in BOOLEAN, HkRead(p, r, flag) PROVE TypeOK'
    BY <2>6, RoomSaveType
  <2> QED
    BY <1>1, <2>1, <2>2, <2>3, <2>4, <2>5, <2>6 DEF Begin
<1>2. ASSUME NEW p \in Procs, Continue(p) PROVE TypeOK'
  <2>1. ASSUME NEW c \in Codes, CheckInCode(p, c) PROVE TypeOK'
    BY <2>1, CheckInType
  <2>2. ASSUME NEW s \in Stays, NEW d \in Days, CheckInInsert(p, s, d) PROVE TypeOK'
    BY <2>2, CheckInType
  <2>3. ASSUME NEW c \in Codes, RegenCode(p, c) PROVE TypeOK'
    BY <2>3, StaySnapshotType
  <2>4. ASSUME CodesExhausted(p) \/ SaveSnapshot(p) \/ CheckoutSave(p) PROVE TypeOK'
    BY <2>4, CheckInType, StaySnapshotType
  <2>5. ASSUME MoveSave(p) PROVE TypeOK'
    BY <2>5, MoveType
  <2>6. ASSUME VacateRead(p) \/ VacateSave(p) \/ HkSave(p) \/ RoomStatusSave(p) PROVE TypeOK'
    BY <2>6, RoomSaveType
  <2> QED
    BY <1>2, <2>1, <2>2, <2>3, <2>4, <2>5, <2>6 DEF Continue
<1>3. CASE AutoRun \/ Fault \/ Tick
  BY <1>3, AutoType, RoomSaveType DEF Fault
<1>4. CASE UNCHANGED vars
  BY <1>4 DEF vars, TypeOK
<1> QED
  BY <1>1, <1>2, <1>3, <1>4 DEF Next, Procs

----------------------------------------------------------------------------
(* Every write of the stays table passes the indexes: an insert, the save  *)
(* of a snapshot and a room change are tested, a checked-out row is exempt. *)
StayWrite ==
  \/ UNCHANGED stay
  \/ \E s \in Stays \cup {None}, row \in StayRow :
       IndexesAllow(s, row) /\ stay' = [stay EXCEPT ![s] = row]

LEMMA ClosedAllowed ==
  ASSUME NEW s, NEW row \in StayRow, NEW how PROVE IndexesAllow(s, Closed(row, how))
BY DEF IndexesAllow, Closed, StayRow

LEMMA StayWrites == TypeOK /\ [Next]_vars => StayWrite
<1> SUFFICES ASSUME TypeOK, [Next]_vars PROVE StayWrite
  OBVIOUS
<1>1. ASSUME NEW p \in Procs PROVE req[p] \in Request /\ req[p].row \in StayRow
                                   /\ req[p].sid \in Stays \cup {None}
  BY DEF TypeOK, Request
<1>2. ASSUME NEW p \in Staff, Begin(p) PROVE StayWrite
  BY <1>2 DEF Begin, StayWrite, CheckInLock, UpdateRead, RegenRead, CheckoutRead,
              MoveLock, RoomStatusRead, HkRead
<1>3. ASSUME NEW p \in Procs, NEW s \in Stays, NEW d \in Days, CheckInInsert(p, s, d)
      PROVE StayWrite
  <2>1. NewStay(req[p].room, req[p].row.code, d) \in StayRow
    BY <1>1 DEF NewStay, StayRow, Request
  <2> QED
    BY <1>3, <2>1 DEF CheckInInsert, StayWrite
<1>4. ASSUME NEW p \in Procs, SaveSnapshot(p) PROVE StayWrite
  BY <1>1, <1>4 DEF SaveSnapshot, StayWrite
<1>5. ASSUME NEW p \in Procs, CheckoutSave(p) PROVE StayWrite
  BY <1>1, <1>5, ClosedAllowed, RowTypes DEF CheckoutSave, LeaveRoom, StayWrite
<1>6. ASSUME NEW p \in Procs, MoveSave(p) PROVE StayWrite
  <2>1. [req[p].row EXCEPT !.room = req[p].room] \in StayRow
    BY <1>1 DEF StayRow, Request
  <2> QED
    BY <1>1, <1>6, <2>1 DEF MoveSave, LeaveRoom, StayWrite
<1>7. ASSUME NEW p \in Procs, Continue(p) PROVE StayWrite
  <2>1. ASSUME NEW c \in Codes, CheckInCode(p, c) \/ RegenCode(p, c) PROVE UNCHANGED stay
    BY <2>1 DEF CheckInCode, RegenCode
  <2>2. ASSUME CodesExhausted(p) \/ VacateRead(p) \/ VacateSave(p) \/ HkSave(p) \/ RoomStatusSave(p)
        PROVE UNCHANGED stay
    BY <2>2 DEF CodesExhausted, VacateRead, VacateSave, HkSave, RoomStatusSave
  <2> QED
    BY <1>3, <1>4, <1>5, <1>6, <1>7, <2>1, <2>2 DEF Continue, StayWrite
<1>8. ASSUME NEW e \in cand, AutoClose(e[1], e[2]) PROVE StayWrite
  <2>1. e[1] \in Stays /\ e[2] \in StayRow
    BY DEF TypeOK
  <2> QED
    BY <1>8, <2>1, ClosedAllowed, RowTypes DEF AutoClose, LeaveRoom, StayWrite
<1>9. CASE AutoStart \/ AutoDone \/ Fault \/ Tick \/ UNCHANGED vars
  BY <1>9 DEF AutoStart, AutoDone, Fault, VacateFail, AutoFail, Crash, Tick, vars, StayWrite
<1> QED
  BY <1>2, <1>7, <1>8, <1>9 DEF Next, AutoRun


LEMMA UniqueStep == TypeOK /\ ActiveStaysUnique /\ StayWrite => ActiveStaysUnique'
<1> SUFFICES ASSUME TypeOK, ActiveStaysUnique, StayWrite PROVE ActiveStaysUnique'
  OBVIOUS
<1> USE DEF ActiveStaysUnique, Active
<1>1. CASE UNCHANGED stay
  BY <1>1
<1>2. ASSUME NEW s \in Stays \cup {None}, NEW row \in StayRow, IndexesAllow(s, row),
             stay' = [stay EXCEPT ![s] = row]
      PROVE ActiveStaysUnique'
  BY <1>2 DEF IndexesAllow, TypeOK
<1> QED
  BY <1>1, <1>2 DEF StayWrite

----------------------------------------------------------------------------
(* A request between its room test and its insert or save holds the hotel  *)
(* row, and with it the only right to test rooms; its room stays active.   *)
HoldsRoom(p) == req[p].pc \in {"code", "insert", "move"}

RoomsHeld ==
  /\ \A p \in Procs : HoldsRoom(p) \/ req[p].pc = "room_save" => hotelLock = p
  /\ \A p \in Procs : HoldsRoom(p) => room[req[p].room].status = "active"

IInv == TypeOK /\ RoomsNamed /\ RoomsHeld /\ ActiveStaysUnique

LEMMA BeginStep ==
  ASSUME IInv, NEW p \in Procs, Begin(p) PROVE RoomsNamed' /\ RoomsHeld'
<1> USE DEF IInv, TypeOK, RoomsNamed, RoomsHeld, HoldsRoom, Active, Go, Begins, Idle, IdleReq
<1>1. ASSUME NEW r \in Rooms, CheckInLock(p, r) PROVE RoomsNamed' /\ RoomsHeld'
  BY <1>1, StaysAssumption DEF CheckInLock, LockHotel, RoomAvailable, Procs
<1>2. ASSUME NEW s \in Stays, NEW d \in Days, UpdateRead(p, s, d) PROVE RoomsNamed' /\ RoomsHeld'
  BY <1>2 DEF UpdateRead, StayRow
<1>3. ASSUME NEW s \in Stays, RegenRead(p, s) PROVE RoomsNamed' /\ RoomsHeld'
  BY <1>3 DEF RegenRead
<1>7. ASSUME NEW s \in Stays, CheckoutRead(p, s) PROVE RoomsNamed' /\ RoomsHeld'
  BY <1>7 DEF CheckoutRead
<1>4. ASSUME NEW s \in Stays, NEW r \in Rooms, MoveLock(p, s, r) PROVE RoomsNamed' /\ RoomsHeld'
  BY <1>4, StaysAssumption DEF MoveLock, LockHotel, RoomAvailable, Procs
<1>5. ASSUME NEW r \in Rooms, NEW st \in Targets, RoomStatusRead(p, r, st) PROVE RoomsNamed' /\ RoomsHeld'
  BY <1>5, StaysAssumption DEF RoomStatusRead, LockHotel, Procs
<1>6. ASSUME NEW r \in Rooms, NEW flag \in BOOLEAN, HkRead(p, r, flag) PROVE RoomsNamed' /\ RoomsHeld'
  BY <1>6 DEF HkRead
<1> QED
  BY <1>1, <1>2, <1>3, <1>4, <1>5, <1>6, <1>7 DEF Begin

LEMMA ContinueStep ==
  ASSUME IInv, NEW p \in Procs, Continue(p) PROVE RoomsNamed' /\ RoomsHeld'
<1> USE DEF IInv, TypeOK, RoomsNamed, RoomsHeld, HoldsRoom, Active, Go, Begins, Idle, IdleReq
<1>1. ASSUME NEW c \in Codes, CheckInCode(p, c) PROVE RoomsNamed' /\ RoomsHeld'
  BY <1>1 DEF CheckInCode, Request, StayRow
<1>2. ASSUME CodesExhausted(p) PROVE RoomsNamed' /\ RoomsHeld'
  BY <1>2 DEF CodesExhausted, Finish, Release
<1>3. ASSUME NEW s \in Stays, NEW d \in Days, CheckInInsert(p, s, d) PROVE RoomsNamed' /\ RoomsHeld'
  BY <1>3 DEF CheckInInsert, Finish, Release, NewStay
<1>4. ASSUME NEW c \in Codes, RegenCode(p, c) PROVE RoomsNamed' /\ RoomsHeld'
  BY <1>4 DEF RegenCode, Request, StayRow
<1>5. ASSUME SaveSnapshot(p) PROVE RoomsNamed' /\ RoomsHeld'
  BY <1>5 DEF SaveSnapshot, Finish
<1>6. ASSUME CheckoutSave(p) PROVE RoomsNamed' /\ RoomsHeld'
  BY <1>6 DEF CheckoutSave, LeaveRoom, Closed, Request, StayRow
<1>7. ASSUME MoveSave(p) PROVE RoomsNamed' /\ RoomsHeld'
  <2> DEFINE row == [req[p].row EXCEPT !.room = req[p].room]
  <2>1. /\ req[p].row \in StayRow /\ row.room = req[p].room
        /\ req[p].room \in Rooms /\ req[p].row.room \in Rooms /\ req[p].pc = "move"
    BY <1>7 DEF MoveSave, Request, StayRow
  <2>2. hotelLock' = None /\ UNCHANGED <<room, cand>>
    BY <1>7, <2>1 DEF MoveSave, Release
  <2>3. stay' = stay \/ stay' = [stay EXCEPT ![req[p].sid] = row]
    BY <1>7 DEF MoveSave, LeaveRoom
  <2>4. PICK q : /\ req' = [req EXCEPT ![p] = q]
                 /\ q.pc = "idle" \/ (q.pc = "vacate" /\ q.room = req[p].row.room)
    <3>1. \/ req' = [req EXCEPT ![p] = IdleReq]
          \/ req' = [req EXCEPT ![p] = [IdleReq EXCEPT !.pc = "vacate", !.room = req[p].row.room]]
      BY <1>7 DEF MoveSave, Finish
    <3> QED
      BY <3>1
  <2>5. RoomsNamed'
    <3>1. \A s \in Stays : Active(s)' => stay'[s].room \in Rooms
      BY <2>1, <2>3
    <3> QED
      BY <2>1, <2>2, <2>4, <3>1
  <2>6. RoomsHeld'
    <3>1. \A x \in Procs : HoldsRoom(x) \/ req[x].pc = "room_save" => x = p
      BY <2>1
    <3> QED
      BY <2>2, <2>4, <3>1
  <2> QED
    BY <2>5, <2>6
<1>8. ASSUME VacateRead(p) PROVE RoomsNamed' /\ RoomsHeld'
  BY <1>8 DEF VacateRead, Request
<1>9. ASSUME VacateSave(p) PROVE RoomsNamed' /\ RoomsHeld'
  BY <1>9 DEF VacateSave, RoomLocked, AfterVacate
<1>10. ASSUME HkSave(p) PROVE RoomsNamed' /\ RoomsHeld'
  BY <1>10 DEF HkSave, RoomLocked, Finish
<1>11. ASSUME RoomStatusSave(p) PROVE RoomsNamed' /\ RoomsHeld'
  BY <1>11 DEF RoomStatusSave, RoomLocked, Finish, Release
<1> QED
  BY <1>1, <1>2, <1>3, <1>4, <1>5, <1>6, <1>7, <1>8, <1>9, <1>10, <1>11 DEF Continue

LEMMA OtherStep ==
  ASSUME IInv, AutoRun \/ Fault \/ Tick \/ UNCHANGED vars PROVE RoomsNamed' /\ RoomsHeld'
<1> USE DEF IInv, TypeOK, RoomsNamed, RoomsHeld, HoldsRoom, Active, Go, Begins, Idle, IdleReq
<1>1. CASE AutoStart
  BY <1>1 DEF AutoStart
<1>2. ASSUME NEW e \in cand, AutoClose(e[1], e[2]) PROVE RoomsNamed' /\ RoomsHeld'
  <2>1. e[1] \in Stays /\ e[2] \in StayRow /\ e[2].room \in Rooms
    OBVIOUS
  <2>2. Sched \in Procs /\ req' = [req EXCEPT ![Sched] = [IdleReq EXCEPT !.pc = "vacate", !.room = e[2].room]]
    BY <1>2 DEF AutoClose, Procs
  <2>3. /\ stay' = [stay EXCEPT ![e[1]] = Closed(e[2], "automatic")]
        /\ cand' \subseteq cand /\ UNCHANGED <<room, hotelLock>>
    BY <1>2 DEF AutoClose, LeaveRoom
  <2>4. Closed(e[2], "automatic").status = "checked_out"
    BY <2>1 DEF Closed, StayRow
  <2> QED
    BY <2>1, <2>2, <2>3, <2>4
<1>3. CASE AutoDone
  BY <1>3 DEF AutoDone, Finish
<1>4. ASSUME NEW p \in Procs, VacateFail(p) PROVE RoomsNamed' /\ RoomsHeld'
  BY <1>4 DEF VacateFail, AfterVacate
<1>5. CASE AutoFail
  BY <1>5 DEF AutoFail, Finish
<1>6. CASE Crash
  BY <1>6 DEF Crash
<1>7. CASE Tick \/ UNCHANGED vars
  BY <1>7 DEF Tick, vars
<1> QED
  BY <1>1, <1>2, <1>3, <1>4, <1>5, <1>6, <1>7 DEF AutoRun, Fault

LEMMA InductiveStep == IInv /\ [Next]_vars => IInv'
<1> SUFFICES ASSUME IInv, [Next]_vars PROVE IInv'
  OBVIOUS
<1>1. TypeOK' /\ ActiveStaysUnique'
  BY NextType, StayWrites, UniqueStep DEF IInv
<1>2. RoomsNamed' /\ RoomsHeld'
  BY BeginStep, ContinueStep, OtherStep DEF Next, Procs
<1> QED
  BY <1>1, <1>2 DEF IInv

LEMMA InitInvariant == Init => IInv
<1> SUFFICES ASSUME Init PROVE IInv
  OBVIOUS
<1>1. TypeOK
  BY InitType
<1>2. RoomsNamed /\ RoomsHeld /\ ActiveStaysUnique
  BY DEF Init, RoomsNamed, RoomsHeld, HoldsRoom, Active, IdleReq, NoStay,
         ActiveStaysUnique
<1> QED
  BY <1>1, <1>2 DEF IInv

LEMMA Invariance == Spec => []IInv
BY InitInvariant, InductiveStep, PTL DEF Spec

----------------------------------------------------------------------------
(* Every reachable state of the stay desk is well typed.                   *)
THEOREM TypeCorrect == Spec => []TypeOK
<1>1. IInv => TypeOK
  BY DEF IInv
<1> QED
  BY <1>1, Invariance, PTL

(* However requests overlap and whatever stale snapshots they save, two    *)
(* active stays never share a room nor a code.                             *)
THEOREM RoomsAndCodesUnique == Spec => []ActiveStaysUnique
<1>1. IInv => ActiveStaysUnique
  BY DEF IInv
<1> QED
  BY <1>1, Invariance, PTL

(* The room a check-in or a room change commits into is active then: the   *)
(* hotel lock keeps status changes out and the room lock keeps the saves   *)
(* of other requests' room snapshots out.                                  *)
THEOREM EntersActiveRooms == Spec => GuestsEnterActiveRooms
<1> DEFINE Enter(p) == req[p].pc \in {"insert", "move"} /\ stay' # stay /\ req'[p] # req[p]
                         => room[req[p].room].status = "active"
<1>1. IInv /\ [Next]_vars => [\A p \in Procs : Enter(p)]_vars
  BY DEF IInv, RoomsHeld, HoldsRoom
<1> QED
  BY <1>1, Invariance, PTL DEF Spec, GuestsEnterActiveRooms

----------------------------------------------------------------------------
(* Requests one at a time.  Nothing a request read has changed when it     *)
(* saves: the row it holds is the row of the table, but for what it was    *)
(* asked to change, and what it tested still holds.                        *)
Fresh(p) ==
  /\ req[p].pc \in {"update", "regen", "regen_save", "checkout", "move"} =>
       /\ req[p].sid \in Stays /\ Active(req[p].sid)
       /\ req[p].row.status = "active" /\ req[p].row.by = "none"
       /\ req[p].row.room = stay[req[p].sid].room
  /\ req[p].pc \in {"code", "insert", "move"} => ActiveIn(req[p].room) = {}
  /\ req[p].pc \in {"vacate_save", "hk_save"} => req[p].rrow.status = room[req[p].room].status
  /\ req[p].pc = "room_save" /\ req[p].rrow.status # "active" => ActiveIn(req[p].room) = {}

(* The auto-checkout run goes through its own steps, and its candidates    *)
(* are active and overdue as the table has them.                           *)
RunFresh ==
  /\ req[Sched].pc \in {"idle", "auto", "vacate", "vacate_save"}
  /\ Idle(Sched) => cand = {}
  /\ \A e \in cand : Active(e[1]) /\ e[2] = stay[e[1]] /\ Overdue(e[2].due)

OwedFresh ==
  faults = 0 => \A r \in owed : \E p \in Procs :
                  req[p].pc \in {"vacate", "vacate_save"} /\ req[p].room = r

NotEnded == \A s \in Stays : Active(s) => stay[s].by = "none"

SerialInv ==
  /\ IInv /\ OneAtATime /\ (\A p \in Procs : Fresh(p)) /\ RunFresh
  /\ OwedFresh /\ NotEnded /\ OccupiedRoomIsActive

AloneInv == IInv /\ alone \in BOOLEAN /\ (alone => SerialInv)

Rest ==
  /\ \A p \in Procs : Fresh(p)
  /\ RunFresh /\ OwedFresh /\ NotEnded /\ OccupiedRoomIsActive

LEMMA SerialParts == SerialInv <=> IInv /\ OneAtATime /\ Rest
BY DEF SerialInv, Rest

(* A step of one request moves no other. *)
LEMMA GoOne ==
  ASSUME TypeOK, NEW p \in Procs, NEW q, Go(p, q)
  PROVE  req'[p] = q /\ \A x \in Procs \ {p} : req'[x] = req[x]
BY DEF TypeOK, Go

(* A request under way is the only one: the others are idle and stay so.   *)
LEMMA OthersIdle ==
  ASSUME SerialInv, NEW p \in Procs, NEW q, Go(p, q), ~Idle(p)
  PROVE  /\ req'[p] = q
         /\ \A x \in Procs \ {p} : req[x].pc = "idle" /\ req'[x].pc = "idle"
BY GoOne DEF SerialInv, IInv, OneAtATime, Idle

(* Steps of requests that touch no row. *)
LEMMA ReadKeeps ==
  ASSUME SerialInv, NEW p \in Procs, NEW q, Go(p, q),
         UNCHANGED <<stay, room, cand, clock, faults, owed>>,
         Fresh(p)',
         p = Sched => q.pc \in {"auto", "vacate", "vacate_save"},
         req[p].pc \in {"vacate", "vacate_save"} => q.pc = "vacate_save" /\ q.room = req[p].room
  PROVE  Rest'
<1>1. TypeOK /\ Rest
  BY SerialParts DEF IInv
<1>2. req'[p] = q /\ \A x \in Procs \ {p} : req'[x] = req[x]
  BY <1>1, GoOne
<1>3. \A x \in Procs : Fresh(x)'
  <2> SUFFICES ASSUME NEW x \in Procs \ {p} PROVE Fresh(x)'
    OBVIOUS
  <2>1. req'[x] = req[x] /\ Fresh(x)
    BY <1>1, <1>2 DEF Rest
  <2> QED
    BY <2>1 DEF Fresh, Active, ActiveIn
<1>4. RunFresh'
  BY <1>1, <1>2 DEF Rest, RunFresh, Idle, Active, Overdue, Today, PastCheckoutTime, Procs
<1>5. OwedFresh'
  BY <1>1, <1>2 DEF Rest, OwedFresh
<1>6. NotEnded' /\ OccupiedRoomIsActive'
  BY <1>1 DEF Rest, NotEnded, OccupiedRoomIsActive, Active
<1> QED
  BY <1>3, <1>4, <1>5, <1>6 DEF Rest

LEMMA SerialBegin ==
  ASSUME SerialInv, NEW p \in Staff, Begin(p)
  PROVE  Rest'
<1>0. p \in Procs /\ p # Sched /\ req[p].pc = "idle" /\ TypeOK /\ RoomsNamed
  BY StaysAssumption DEF Procs, SerialInv, IInv, Begin, CheckInLock, UpdateRead, RegenRead,
     CheckoutRead, MoveLock, RoomStatusRead, HkRead, Begins, Idle
<1>a. NotEnded /\ OccupiedRoomIsActive
  BY DEF SerialInv
<1> USE DEF IdleReq
<1>1. ASSUME NEW r \in Rooms, CheckInLock(p, r) PROVE Rest'
  <2> DEFINE q == [IdleReq EXCEPT !.pc = "code", !.room = r]
  <2>1. Go(p, q) /\ UNCHANGED <<stay, room, cand, clock, faults, owed>> /\ ActiveIn(r) = {}
    BY <1>1 DEF CheckInLock, RoomAvailable
  <2>2. req'[p] = q
    BY <1>0, <2>1, GoOne
  <2>3. Fresh(p)'
    BY <2>1, <2>2 DEF Fresh, ActiveIn, Active
  <2> QED
    BY <1>0, <2>1, <2>3, ReadKeeps
<1>2. ASSUME NEW s \in Stays, NEW d \in Days, UpdateRead(p, s, d) PROVE Rest'
  <2> DEFINE q == [IdleReq EXCEPT !.pc = "update", !.sid = s, !.row = [stay[s] EXCEPT !.due = d]]
  <2>1. Go(p, q) /\ UNCHANGED <<stay, room, cand, clock, faults, owed>> /\ Active(s)
    BY <1>2 DEF UpdateRead
  <2>2. req'[p] = q
    BY <1>0, <2>1, GoOne
  <2>3. stay[s] \in StayRow /\ stay[s].by = "none"
    BY <1>0, <1>a, <2>1 DEF TypeOK, NotEnded
  <2>4. Fresh(p)'
    BY <2>1, <2>2, <2>3 DEF Fresh, ActiveIn, Active, StayRow
  <2> QED
    BY <1>0, <2>1, <2>4, ReadKeeps
<1>3. ASSUME NEW s \in Stays, NEW pc \in {"regen", "checkout"}, Active(s),
             Go(p, [IdleReq EXCEPT !.pc = pc, !.sid = s, !.row = stay[s]]),
             UNCHANGED <<stay, room, cand, clock, faults, owed>>
      PROVE  Rest'
  <2> DEFINE q == [IdleReq EXCEPT !.pc = pc, !.sid = s, !.row = stay[s]]
  <2>1. req'[p] = q
    BY <1>0, <1>3, GoOne
  <2>2. stay[s] \in StayRow /\ stay[s].by = "none"
    BY <1>0, <1>a, <1>3 DEF TypeOK, NotEnded
  <2>3. Fresh(p)'
    BY <1>3, <2>1, <2>2 DEF Fresh, ActiveIn, Active, StayRow
  <2> QED
    BY <1>0, <1>3, <2>3, ReadKeeps
<1>4. ASSUME NEW s \in Stays, NEW r \in Rooms, MoveLock(p, s, r) PROVE Rest'
  <2> DEFINE q == [IdleReq EXCEPT !.pc = "move", !.sid = s, !.row = stay[s], !.room = r]
  <2>1. /\ Go(p, q) /\ UNCHANGED <<stay, room, cand, clock, faults, owed>>
        /\ Active(s) /\ ActiveIn(r) = {}
    BY <1>4 DEF MoveLock, RoomAvailable
  <2>2. req'[p] = q
    BY <1>0, <2>1, GoOne
  <2>3. stay[s] \in StayRow /\ stay[s].by = "none"
    BY <1>0, <1>a, <2>1 DEF TypeOK, NotEnded
  <2>4. Fresh(p)'
    BY <2>1, <2>2, <2>3 DEF Fresh, ActiveIn, Active, StayRow
  <2> QED
    BY <1>0, <2>1, <2>4, ReadKeeps
<1>5. ASSUME NEW r \in Rooms, NEW st \in Targets, RoomStatusRead(p, r, st) PROVE Rest'
  <2> DEFINE q == [IdleReq EXCEPT !.pc = "room_save", !.room = r,
                                  !.rrow = [room[r] EXCEPT !.status = st]]
  <2>1. /\ Go(p, q) /\ UNCHANGED <<stay, room, cand, clock, faults, owed>>
        /\ st # room[r].status /\ room[r].status = "active" => ActiveIn(r) = {}
    BY <1>5 DEF RoomStatusRead
  <2>2. req'[p] = q /\ room[r] \in RoomRow
    BY <1>0, <2>1, GoOne DEF TypeOK
  <2>3. q.rrow.status = st /\ q.room = r /\ q.pc = "room_save"
    BY <2>2 DEF RoomRow
  <2>4. st # "active" => ActiveIn(r) = {}
    BY <1>a, <2>1 DEF OccupiedRoomIsActive, ActiveIn
  <2>5. Fresh(p)'
    BY <2>1, <2>2, <2>3, <2>4 DEF Fresh, ActiveIn, Active
  <2> QED
    BY <1>0, <2>1, <2>5, ReadKeeps
<1>6. ASSUME NEW r \in Rooms, NEW flag \in BOOLEAN, HkRead(p, r, flag) PROVE Rest'
  <2> DEFINE q == [IdleReq EXCEPT !.pc = "hk_save", !.room = r,
                                  !.rrow = [room[r] EXCEPT !.turnover = flag]]
  <2>1. Go(p, q) /\ UNCHANGED <<stay, room, cand, clock, faults, owed>>
    BY <1>6 DEF HkRead
  <2>2. req'[p] = q /\ room[r] \in RoomRow
    BY <1>0, <2>1, GoOne DEF TypeOK
  <2>3. q.rrow.status = room[r].status /\ q.room = r /\ q.pc = "hk_save"
    BY <2>2 DEF RoomRow
  <2>4. Fresh(p)'
    BY <2>1, <2>2, <2>3 DEF Fresh
  <2> QED
    BY <1>0, <2>1, <2>4, ReadKeeps
<1>7. ASSUME NEW s \in Stays, RegenRead(p, s) \/ CheckoutRead(p, s) PROVE Rest'
  BY <1>3, <1>7 DEF RegenRead, CheckoutRead
<1> QED
  BY <1>1, <1>2, <1>4, <1>5, <1>6, <1>7 DEF Begin

(* After a save no request holds a row of the table: what is left to show  *)
(* is about the run and the tables.                                        *)
LEMMA SavedIsFresh ==
  ASSUME SerialInv, NEW p \in Procs, NEW q, Go(p, q), ~Idle(p),
         q.pc \in {"idle", "auto", "vacate"}
  PROVE  \A x \in Procs : Fresh(x)'
<1>1. req'[p] = q /\ \A x \in Procs \ {p} : req'[x].pc = "idle"
  BY OthersIdle
<1>2. \A x \in Procs : req'[x].pc \in {"idle", "auto", "vacate"}
  BY <1>1
<1> QED
  BY <1>2 DEF Fresh

(* A request of the staff is under way: the run is not, and stays so.      *)
LEMMA RunIdle ==
  ASSUME SerialInv, NEW p \in Procs, NEW q, Go(p, q), UNCHANGED cand,
         req[p].pc \notin {"idle", "auto", "vacate", "vacate_save"}
  PROVE  p # Sched /\ RunFresh'
<1>1. ~Idle(p) /\ p # Sched /\ RunFresh
  BY DEF SerialInv, RunFresh, Idle
<1>2. req[Sched].pc = "idle" /\ req'[Sched].pc = "idle"
  BY <1>1, OthersIdle DEF Procs
<1>3. cand = {} /\ cand' = {}
  BY <1>1, <1>2 DEF RunFresh, Idle
<1> QED
  BY <1>1, <1>2, <1>3 DEF RunFresh, Idle

(* ... and no room is owed a flag that nobody is about to set.             *)
LEMMA NothingOwed ==
  ASSUME SerialInv, NEW p \in Procs, NEW q, Go(p, q),
         req[p].pc \notin {"idle", "vacate", "vacate_save"}
  PROVE  faults = 0 => owed = {}
<1>1. \A x \in Procs : req[x].pc \notin {"vacate", "vacate_save"}
  BY OthersIdle DEF Idle
<1> QED
  BY <1>1 DEF SerialInv, OwedFresh

(* The save of an edit or of a new code changes neither room nor status.   *)
LEMMA SerialSnapshot ==
  ASSUME SerialInv, NEW p \in Procs, SaveSnapshot(p)
  PROVE  /\ Rest'
         /\ \A s \in Stays : /\ stay'[s].status = stay[s].status
                             /\ Active(s) => stay'[s].room = stay[s].room
<1>1. TypeOK /\ Fresh(p) /\ Rest /\ req[p].pc \in {"update", "regen_save"}
  BY SerialParts DEF SerialInv, IInv, SaveSnapshot
<1>2. Go(p, IdleReq) /\ IdleReq.pc = "idle" /\ ~Idle(p)
  BY <1>1 DEF SaveSnapshot, Finish, IdleReq, Idle
<1>3. \A x \in Procs : Fresh(x)'
  BY <1>2, SavedIsFresh
<1>4. RunFresh' /\ UNCHANGED <<room, faults, owed>>
  BY <1>1, <1>2, RunIdle DEF SaveSnapshot
<1>5. OwedFresh'
  BY <1>1, <1>2, <1>4, NothingOwed DEF OwedFresh
<1>6. stay' = stay \/ stay' = [stay EXCEPT ![req[p].sid] = req[p].row]
  BY DEF SaveSnapshot
<1>7. \A s \in Stays : /\ stay'[s].status = stay[s].status
                       /\ Active(s) => /\ stay'[s].room = stay[s].room
                                       /\ stay'[s].by = "none"
  BY <1>1, <1>6 DEF TypeOK, Fresh, Active, Rest, NotEnded
<1>8. NotEnded' /\ OccupiedRoomIsActive'
  BY <1>1, <1>4, <1>7 DEF Rest, NotEnded, OccupiedRoomIsActive, Active
<1> QED
  BY <1>3, <1>4, <1>5, <1>7, <1>8 DEF Rest

(* The insert of a check-in enters the room that was found free and active. *)
LEMMA SerialInsert ==
  ASSUME SerialInv, NEW p \in Procs, NEW s \in Stays, NEW d \in Days, CheckInInsert(p, s, d)
  PROVE  /\ Rest'
         /\ \/ stay' = stay
            \/ /\ stay[s].status = "none" /\ ActiveIn(req[p].room) = {} /\ req[p].room \in Rooms
               /\ stay' = [stay EXCEPT ![s] = NewStay(req[p].room, req[p].row.code, d)]
<1>1. TypeOK /\ Fresh(p) /\ Rest /\ RoomsNamed /\ RoomsHeld /\ req[p].pc = "insert"
  BY SerialParts DEF SerialInv, IInv, CheckInInsert
<1>2. Go(p, IdleReq) /\ IdleReq.pc = "idle" /\ ~Idle(p)
  BY <1>1 DEF CheckInInsert, Finish, IdleReq, Idle
<1>3. \A x \in Procs : Fresh(x)'
  BY <1>2, SavedIsFresh
<1>4. RunFresh' /\ UNCHANGED <<room, faults, owed>>
  BY <1>1, <1>2, RunIdle DEF CheckInInsert
<1>5. OwedFresh'
  BY <1>1, <1>2, <1>4, NothingOwed DEF OwedFresh
<1>6. \/ stay' = stay
      \/ /\ stay[s].status = "none" /\ ActiveIn(req[p].room) = {} /\ req[p].room \in Rooms
         /\ stay' = [stay EXCEPT ![s] = NewStay(req[p].room, req[p].row.code, d)]
  BY <1>1 DEF CheckInInsert, Fresh, RoomsNamed
<1>7. room[req[p].room].status = "active"
  BY <1>1 DEF RoomsHeld, HoldsRoom
<1>8. NotEnded' /\ OccupiedRoomIsActive'
  BY <1>1, <1>4, <1>6, <1>7 DEF Rest, NotEnded, OccupiedRoomIsActive, Active, NewStay, TypeOK
<1> QED
  BY <1>3, <1>4, <1>5, <1>6, <1>8 DEF Rest

(* A checkout ends the stay in the room it is in, and goes on to flag it.  *)
LEMMA SerialCheckout ==
  ASSUME SerialInv, NEW p \in Procs, CheckoutSave(p)
  PROVE  /\ Rest'
         /\ LET s == req[p].sid IN
            s \in Stays /\ Active(s) /\ stay' = [stay EXCEPT ![s] = Closed(req[p].row, "manual")]
<1> DEFINE s == req[p].sid
           q == [IdleReq EXCEPT !.pc = "vacate", !.room = req[p].row.room]
<1>1. TypeOK /\ Fresh(p) /\ Rest /\ req[p].pc = "checkout" /\ req[p].row \in StayRow
  BY SerialParts DEF SerialInv, IInv, CheckoutSave, TypeOK, Request
<1>2. Go(p, q) /\ q.pc = "vacate" /\ q.room = stay[s].room /\ ~Idle(p)
  BY <1>1 DEF CheckoutSave, Fresh, IdleReq, Idle
<1>3. \A x \in Procs : Fresh(x)'
  BY <1>2, SavedIsFresh
<1>4. RunFresh' /\ UNCHANGED <<room, faults>>
  BY <1>1, <1>2, RunIdle DEF CheckoutSave
<1>5. s \in Stays /\ Active(s) /\ stay' = [stay EXCEPT ![s] = Closed(req[p].row, "manual")]
  BY <1>1 DEF CheckoutSave, LeaveRoom, Fresh
<1>6. Closed(req[p].row, "manual").status = "checked_out"
  BY <1>1 DEF Closed, StayRow
<1>7. owed' \subseteq owed \cup {stay[s].room}
  BY <1>1 DEF CheckoutSave, LeaveRoom, Vacates, ActiveIn
<1>8. OwedFresh'
  <2>1. faults = 0 => owed = {}
    BY <1>1, <1>2, NothingOwed
  <2>2. req'[p].pc = "vacate" /\ req'[p].room = stay[s].room
    BY <1>1, <1>2, GoOne
  <2> QED
    BY <1>4, <1>7, <2>1, <2>2 DEF OwedFresh
<1>9. NotEnded' /\ OccupiedRoomIsActive'
  BY <1>1, <1>4, <1>5, <1>6 DEF Rest, NotEnded, OccupiedRoomIsActive, Active, TypeOK
<1> QED
  BY <1>3, <1>4, <1>5, <1>8, <1>9 DEF Rest

(* A room change moves the stay into the free, active room it locked.      *)
LEMMA SerialMove ==
  ASSUME SerialInv, NEW p \in Procs, MoveSave(p)
  PROVE  /\ Rest'
         /\ LET s == req[p].sid  r == req[p].room IN
            /\ s \in Stays /\ Active(s) /\ r \in Rooms /\ ActiveIn(r) = {}
            /\ \/ stay' = stay
               \/ stay' = [stay EXCEPT ![s] = [req[p].row EXCEPT !.room = r]]
<1> DEFINE s == req[p].sid
           r == req[p].room
           row == [req[p].row EXCEPT !.room = r]
           q == [IdleReq EXCEPT !.pc = "vacate", !.room = req[p].row.room]
<1>1. /\ TypeOK /\ Fresh(p) /\ Rest /\ RoomsNamed /\ RoomsHeld
      /\ req[p].pc = "move" /\ req[p].row \in StayRow
  BY SerialParts DEF SerialInv, IInv, MoveSave, TypeOK, Request
<1>2. s \in Stays /\ Active(s) /\ r \in Rooms /\ ActiveIn(r) = {} /\ ~Idle(p)
  BY <1>1 DEF Fresh, RoomsNamed, Idle
<1>3. room[r].status = "active" /\ row.status = "active" /\ row.by = "none" /\ row.room = r
  BY <1>1 DEF RoomsHeld, HoldsRoom, Fresh, StayRow
<1>4. UNCHANGED <<room, cand, faults>> /\ (faults = 0 => owed = {})
  <2>1. Go(p, q) \/ Go(p, IdleReq)
    BY DEF MoveSave, Finish
  <2>2. faults = 0 => owed = {}
    BY <1>1, <2>1, NothingOwed
  <2> QED
    BY <2>2 DEF MoveSave
<1>5. CASE IndexesAllow(s, row)
  <2>1. stay' = [stay EXCEPT ![s] = row] /\ Go(p, q)
    BY <1>5 DEF MoveSave, LeaveRoom
  <2>2. q.pc = "vacate" /\ q.room = stay[s].room
    BY <1>1 DEF Fresh, IdleReq
  <2>3. owed' \subseteq owed \cup {stay[s].room}
    BY <1>5 DEF MoveSave, LeaveRoom, Vacates, ActiveIn
  <2>4. \A x \in Procs : Fresh(x)'
    BY <1>2, <2>1, <2>2, SavedIsFresh
  <2>5. RunFresh' /\ req'[p] = q
    BY <1>1, <1>4, <2>1, RunIdle, GoOne
  <2>6. OwedFresh'
    BY <1>4, <2>2, <2>3, <2>5 DEF OwedFresh
  <2>7. NotEnded' /\ OccupiedRoomIsActive'
    BY <1>1, <1>3, <1>4, <2>1 DEF Rest, NotEnded, OccupiedRoomIsActive, Active, TypeOK
  <2> QED
    BY <1>2, <2>1, <2>4, <2>5, <2>6, <2>7 DEF Rest
<1>6. CASE ~IndexesAllow(s, row)
  <2>1. UNCHANGED <<stay, owed>> /\ Go(p, IdleReq) /\ IdleReq.pc = "idle"
    BY <1>6 DEF MoveSave, Finish, IdleReq
  <2>2. \A x \in Procs : Fresh(x)'
    BY <1>2, <2>1, SavedIsFresh
  <2>3. RunFresh'
    BY <1>1, <1>4, <2>1, RunIdle
  <2>4. OwedFresh'
    BY <1>4, <2>1 DEF OwedFresh
  <2>5. NotEnded' /\ OccupiedRoomIsActive'
    BY <1>1, <1>4, <2>1 DEF Rest, NotEnded, OccupiedRoomIsActive, Active
  <2> QED
    BY <1>2, <2>1, <2>2, <2>3, <2>4, <2>5 DEF Rest
<1> QED
  BY <1>5, <1>6

(* The run closes a candidate: the row is the one of the table, overdue.   *)
LEMMA SerialAutoClose ==
  ASSUME SerialInv, NEW e \in cand, AutoClose(e[1], e[2])
  PROVE  /\ Rest'
         /\ e[1] \in Stays /\ Active(e[1]) /\ Overdue(stay[e[1]].due)
         /\ stay' = [stay EXCEPT ![e[1]] = Closed(stay[e[1]], "automatic")]
<1> DEFINE s == e[1]
           q == [IdleReq EXCEPT !.pc = "vacate", !.room = e[2].room]
<1>1. TypeOK /\ Rest /\ RunFresh /\ req[Sched].pc = "auto" /\ Sched \in Procs
  BY SerialParts DEF SerialInv, IInv, AutoClose, Procs
<1>2. s \in Stays /\ Active(s) /\ Overdue(stay[s].due) /\ e[2] = stay[s] /\ stay[s] \in StayRow
  BY <1>1 DEF TypeOK, RunFresh
<1>3. Go(Sched, q) /\ q.pc = "vacate" /\ q.room = stay[s].room /\ ~Idle(Sched)
  BY <1>1, <1>2 DEF AutoClose, IdleReq, Idle
<1>4. \A x \in Procs : Fresh(x)'
  BY <1>1, <1>3, SavedIsFresh
<1>5. UNCHANGED <<room, faults, clock>> /\ stay' = [stay EXCEPT ![s] = Closed(stay[s], "automatic")]
  BY <1>2 DEF AutoClose, LeaveRoom
<1>6. Closed(stay[s], "automatic").status = "checked_out"
  BY <1>2 DEF Closed, StayRow
<1>7. owed' \subseteq owed \cup {stay[s].room}
  BY DEF AutoClose, LeaveRoom, Vacates, ActiveIn
<1>8. req'[Sched] = q
  BY <1>1, <1>3, GoOne
<1>9. OwedFresh'
  <2>1. faults = 0 => owed = {}
    BY <1>1, <1>3, NothingOwed
  <2> QED
    BY <1>1, <1>3, <1>5, <1>7, <1>8, <2>1 DEF OwedFresh
<1>10. RunFresh'
  <2>1. \A f \in cand \ {<<e[1], e[2]>>} : f[1] \in Stays /\ f[1] # s
    BY <1>1, <1>2 DEF TypeOK, RunFresh
  <2>2. \A f \in cand \ {<<e[1], e[2]>>} : stay'[f[1]] = stay[f[1]]
    BY <1>1, <1>5, <2>1 DEF TypeOK
  <2>3. cand' = cand \ {<<e[1], e[2]>>}
    BY DEF AutoClose
  <2> QED
    BY <1>1, <1>3, <1>5, <1>8, <2>2, <2>3
       DEF RunFresh, Idle, Active, Overdue, Today, PastCheckoutTime
<1>11. NotEnded' /\ OccupiedRoomIsActive'
  BY <1>1, <1>2, <1>5, <1>6 DEF Rest, NotEnded, OccupiedRoomIsActive, Active, TypeOK
<1> QED
  BY <1>2, <1>4, <1>5, <1>9, <1>10, <1>11 DEF Rest

(* Steps that draw a code, give up on one or read the vacated room.        *)
LEMMA SerialDraw ==
  ASSUME SerialInv, NEW p \in Procs
  PROVE  /\ \A c \in Codes : CheckInCode(p, c) => Rest'
         /\ \A c \in Codes : RegenCode(p, c) => Rest'
         /\ CodesExhausted(p) => Rest'
         /\ VacateRead(p) => Rest'
<1>1. /\ TypeOK /\ Fresh(p) /\ Rest /\ RunFresh /\ RoomsNamed
      /\ req[p] \in Request /\ req[p].row \in StayRow
  BY SerialParts DEF SerialInv, IInv, TypeOK, Request
<1>2. ASSUME NEW c \in Codes, CheckInCode(p, c) PROVE Rest'
  <2> DEFINE q == [req[p] EXCEPT !.pc = "insert", !.row.code = c]
  <2>1. Go(p, q) /\ UNCHANGED <<stay, room, cand, clock, faults, owed>> /\ req[p].pc = "code"
    BY <1>2 DEF CheckInCode
  <2>2. req'[p] = q /\ q.pc = "insert" /\ q.room = req[p].room /\ p # Sched
    BY <1>1, <2>1, GoOne DEF Request, RunFresh
  <2>3. Fresh(p)'
    BY <1>1, <2>1, <2>2 DEF Fresh, ActiveIn, Active
  <2> QED
    BY <2>1, <2>2, <2>3, ReadKeeps
<1>3. ASSUME NEW c \in Codes, RegenCode(p, c) PROVE Rest'
  <2> DEFINE q == [req[p] EXCEPT !.pc = "regen_save", !.row.code = c]
  <2>1. Go(p, q) /\ UNCHANGED <<stay, room, cand, clock, faults, owed>> /\ req[p].pc = "regen"
    BY <1>3 DEF RegenCode
  <2>2. /\ req'[p] = q /\ q.pc = "regen_save" /\ q.sid = req[p].sid /\ p # Sched
        /\ q.row.status = req[p].row.status /\ q.row.by = req[p].row.by
        /\ q.row.room = req[p].row.room
    BY <1>1, <2>1, GoOne DEF Request, RunFresh, StayRow
  <2>3. Fresh(p)'
    BY <1>1, <2>1, <2>2 DEF Fresh, ActiveIn, Active
  <2> QED
    BY <2>1, <2>2, <2>3, ReadKeeps
<1>4. ASSUME CodesExhausted(p) PROVE Rest'
  <2>1. /\ Go(p, IdleReq) /\ UNCHANGED <<stay, room, cand, clock, faults, owed>>
        /\ req[p].pc \in {"code", "regen"}
    BY <1>4 DEF CodesExhausted, Finish
  <2>2. req'[p] = IdleReq /\ IdleReq.pc = "idle" /\ p # Sched
    BY <1>1, <2>1, GoOne DEF IdleReq, RunFresh
  <2>3. Fresh(p)'
    BY <2>2 DEF Fresh
  <2> QED
    BY <2>1, <2>2, <2>3, ReadKeeps
<1>5. ASSUME VacateRead(p) PROVE Rest'
  <2> DEFINE q == [req[p] EXCEPT !.pc = "vacate_save", !.rrow = room[req[p].room]]
  <2>1. Go(p, q) /\ UNCHANGED <<stay, room, cand, clock, faults, owed>> /\ req[p].pc = "vacate"
    BY <1>5 DEF VacateRead
  <2>2. /\ req'[p] = q /\ q.pc = "vacate_save" /\ q.room = req[p].room
        /\ q.rrow = room[req[p].room]
    BY <1>1, <2>1, GoOne DEF Request
  <2>3. Fresh(p)'
    BY <2>1, <2>2 DEF Fresh
  <2> QED
    BY <2>1, <2>2, <2>3, ReadKeeps
<1> QED
  BY <1>2, <1>3, <1>4, <1>5

LEMMA AfterVacateIdles ==
  ASSUME NEW p
  PROVE  /\ AfterVacate(p).pc \in {"idle", "auto"}
         /\ p = Sched => AfterVacate(p).pc = "auto"
         /\ IdleReq.pc = "idle"
BY DEF AfterVacate, IdleReq

(* A hook step leaves the run where it was. *)
LEMMA HookRun ==
  ASSUME SerialInv, NEW p \in Procs, Go(p, AfterVacate(p)), UNCHANGED <<stay, cand, clock>>
  PROVE  RunFresh'
<1>1. TypeOK /\ RunFresh
  BY DEF SerialInv, IInv
<1>2. req'[p] = AfterVacate(p) /\ \A x \in Procs \ {p} : req'[x] = req[x]
  BY <1>1, GoOne
<1>3. req'[Sched].pc \in {"idle", "auto", "vacate", "vacate_save"} /\ (Idle(Sched)' => Idle(Sched))
  BY <1>1, <1>2, AfterVacateIdles DEF RunFresh, Idle, Procs
<1> QED
  BY <1>1, <1>3 DEF RunFresh, Active, Overdue, Today, PastCheckoutTime

(* Saves of a room row: the status is what the table has, or the room has  *)
(* no active stay.                                                         *)
LEMMA SerialRoomSave ==
  ASSUME SerialInv, NEW p \in Procs
  PROVE  /\ VacateSave(p) => Rest'
         /\ HkSave(p) => Rest'
         /\ RoomStatusSave(p) => Rest'
<1>1. /\ TypeOK /\ Fresh(p) /\ Rest /\ RoomsNamed
      /\ req[p] \in Request /\ req[p].rrow \in RoomRow
  BY SerialParts DEF SerialInv, IInv, TypeOK, Request
<1>2. ASSUME VacateSave(p) PROVE Rest'
  <2>1. /\ Go(p, AfterVacate(p)) /\ ~Idle(p) /\ UNCHANGED <<stay, cand, clock, faults>>
        /\ req[p].pc = "vacate_save" /\ owed' = owed \ {req[p].room}
    BY <1>2 DEF VacateSave, Idle
  <2>2. (\A x \in Procs : Fresh(x)') /\ RunFresh'
    BY <2>1, SavedIsFresh, AfterVacateIdles, HookRun
  <2>3. OwedFresh'
    <3>1. \A x \in Procs \ {p} : req[x].pc = "idle"
      BY <2>1, OthersIdle
    <3>2. faults = 0 => owed' = {}
      BY <1>1, <2>1, <3>1 DEF Rest, OwedFresh
    <3> QED
      BY <2>1, <3>2 DEF OwedFresh
  <2>4. \A r \in Rooms : room'[r].status = room[r].status
    BY <1>1, <1>2 DEF VacateSave, Fresh, TypeOK, RoomRow
  <2>5. NotEnded' /\ OccupiedRoomIsActive'
    BY <1>1, <2>1, <2>4 DEF Rest, NotEnded, OccupiedRoomIsActive, Active, RoomsNamed
  <2> QED
    BY <2>2, <2>3, <2>5 DEF Rest
<1>3. ASSUME HkSave(p) PROVE Rest'
  <2>1. /\ Go(p, IdleReq) /\ ~Idle(p) /\ UNCHANGED <<stay, cand, clock, faults, owed>>
        /\ req[p].pc = "hk_save"
    BY <1>3 DEF HkSave, Finish, Idle
  <2>2. (\A x \in Procs : Fresh(x)') /\ RunFresh'
    BY <2>1, SavedIsFresh, AfterVacateIdles, RunIdle
  <2>3. OwedFresh'
    BY <2>1, NothingOwed DEF OwedFresh
  <2>4. \A r \in Rooms : room'[r].status = room[r].status
    BY <1>1, <1>3 DEF HkSave, Fresh, TypeOK, RoomRow
  <2>5. NotEnded' /\ OccupiedRoomIsActive'
    BY <1>1, <2>1, <2>4 DEF Rest, NotEnded, OccupiedRoomIsActive, Active, RoomsNamed
  <2> QED
    BY <2>2, <2>3, <2>5 DEF Rest
<1>4. ASSUME RoomStatusSave(p) PROVE Rest'
  <2>1. /\ Go(p, IdleReq) /\ ~Idle(p) /\ UNCHANGED <<stay, cand, clock, faults, owed>>
        /\ req[p].pc = "room_save"
    BY <1>4 DEF RoomStatusSave, Finish, Idle
  <2>2. (\A x \in Procs : Fresh(x)') /\ RunFresh'
    BY <2>1, SavedIsFresh, AfterVacateIdles, RunIdle
  <2>3. OwedFresh'
    BY <2>1, NothingOwed DEF OwedFresh
  <2>4. \A s \in Stays : Active(s) => room'[stay[s].room].status = "active"
    BY <1>1, <1>4 DEF RoomStatusSave, Fresh, ActiveIn, TypeOK, RoomsNamed, Rest,
                      OccupiedRoomIsActive
  <2>5. NotEnded' /\ OccupiedRoomIsActive'
    BY <1>1, <2>1, <2>4 DEF Rest, NotEnded, OccupiedRoomIsActive, Active
  <2> QED
    BY <2>2, <2>3, <2>5 DEF Rest
<1> QED
  BY <1>2, <1>3, <1>4

(* What is overdue stays overdue. *)
LEMMA OverdueGrows ==
  ASSUME clock \in Nat, clock' = clock + 1, NEW d \in Nat, Overdue(d)
  PROVE  Overdue(d)'
<1>1. clock % 2 = 0 \/ clock % 2 = 1
  OBVIOUS
<1>2. CASE clock % 2 = 1
  <2>1. clock' \div 2 = clock \div 2 + 1 /\ clock \div 2 \in Nat
    BY <1>2
  <2> QED
    BY <2>1 DEF Overdue, Today, PastCheckoutTime
<1>3. CASE clock % 2 = 0
  <2>1. clock' \div 2 = clock \div 2
    BY <1>3
  <2> QED
    BY <1>3, <2>1 DEF Overdue, Today, PastCheckoutTime
<1> QED
  BY <1>1, <1>2, <1>3

(* The steps of the run besides the closing of a candidate. *)
LEMMA SerialRun ==
  ASSUME SerialInv
  PROVE  /\ AutoStart => Rest'
         /\ AutoDone => Rest'
<1>1. TypeOK /\ Rest /\ Sched \in Procs /\ RunFresh
  BY SerialParts DEF SerialInv, IInv, Procs
<1>2. ASSUME AutoStart PROVE Rest'
  <2> DEFINE q == [IdleReq EXCEPT !.pc = "auto"]
  <2>1. /\ Go(Sched, q) /\ q.pc = "auto" /\ req[Sched].pc = "idle"
        /\ UNCHANGED <<stay, room, clock, faults, owed>>
    BY <1>2 DEF AutoStart, Begins, Idle, IdleReq
  <2>2. req'[Sched] = q /\ \A x \in Procs \ {Sched} : req'[x] = req[x]
    BY <1>1, <2>1, GoOne
  <2>3. \A x \in Procs : Fresh(x)'
    <3>1. Fresh(Sched)'
      BY <2>1, <2>2 DEF Fresh
    <3>2. ASSUME NEW x \in Procs \ {Sched} PROVE Fresh(x)'
      BY <1>1, <2>1, <2>2 DEF Rest, Fresh, Active, ActiveIn
    <3> QED
      BY <3>1, <3>2
  <2>4. cand' = {<<s, stay[s]>> : s \in {t \in Stays : Active(t) /\ Overdue(stay[t].due)}}
    BY <1>2 DEF AutoStart
  <2>5. \A e \in cand' : Active(e[1]) /\ e[2] = stay[e[1]] /\ Overdue(e[2].due)
    BY <2>4
  <2>6. RunFresh'
    BY <2>1, <2>2, <2>5 DEF RunFresh, Idle, Active, Overdue, Today, PastCheckoutTime
  <2>7. OwedFresh'
    BY <1>1, <2>1, <2>2 DEF Rest, OwedFresh
  <2>8. NotEnded' /\ OccupiedRoomIsActive'
    BY <1>1, <2>1 DEF Rest, NotEnded, OccupiedRoomIsActive, Active
  <2> QED
    BY <2>3, <2>6, <2>7, <2>8 DEF Rest
<1>3. ASSUME AutoDone PROVE Rest'
  <2>1. /\ Go(Sched, IdleReq) /\ IdleReq.pc = "idle" /\ req[Sched].pc = "auto" /\ cand = {}
        /\ UNCHANGED <<stay, room, cand, clock, faults, owed>>
    BY <1>3 DEF AutoDone, Finish, IdleReq
  <2>2. req'[Sched] = IdleReq /\ \A x \in Procs : Fresh(x)'
    BY <1>1, <2>1, GoOne, SavedIsFresh DEF Idle
  <2>3. RunFresh'
    BY <2>1, <2>2 DEF RunFresh
  <2>4. OwedFresh'
    BY <1>1, <2>1, NothingOwed DEF OwedFresh
  <2>5. NotEnded' /\ OccupiedRoomIsActive'
    BY <1>1, <2>1 DEF Rest, NotEnded, OccupiedRoomIsActive, Active
  <2> QED
    BY <2>2, <2>3, <2>4, <2>5 DEF Rest
<1> QED
  BY <1>2, <1>3

(* Faults end what is under way and excuse the flag; time changes no row.  *)
LEMMA SerialOther ==
  ASSUME SerialInv
  PROVE  /\ Fault => Rest'
         /\ Tick => Rest'
         /\ UNCHANGED vars => Rest'
<1>1. TypeOK /\ Rest /\ Sched \in Procs /\ RunFresh /\ faults \in Nat
  BY SerialParts DEF SerialInv, IInv, Procs, TypeOK
<1>2. ASSUME NEW p \in Procs, VacateFail(p) PROVE Rest'
  <2>1. /\ Go(p, AfterVacate(p)) /\ ~Idle(p) /\ faults' # 0
        /\ UNCHANGED <<stay, room, cand, clock>>
    BY <1>1, <1>2 DEF VacateFail, Idle
  <2>2. (\A x \in Procs : Fresh(x)') /\ RunFresh'
    BY <2>1, SavedIsFresh, AfterVacateIdles, HookRun
  <2>3. NotEnded' /\ OccupiedRoomIsActive'
    BY <1>1, <2>1 DEF Rest, NotEnded, OccupiedRoomIsActive, Active
  <2> QED
    BY <2>1, <2>2, <2>3 DEF Rest, OwedFresh
<1>3. ASSUME AutoFail PROVE Rest'
  <2>1. /\ Go(Sched, IdleReq) /\ ~Idle(Sched) /\ faults' # 0 /\ cand' = {}
        /\ UNCHANGED <<stay, room>>
    BY <1>1, <1>3 DEF AutoFail, Finish, Idle
  <2>2. (\A x \in Procs : Fresh(x)') /\ req'[Sched] = IdleReq
    BY <1>1, <2>1, SavedIsFresh, AfterVacateIdles, GoOne
  <2>3. RunFresh'
    BY <2>1, <2>2, AfterVacateIdles DEF RunFresh
  <2>4. NotEnded' /\ OccupiedRoomIsActive'
    BY <1>1, <2>1 DEF Rest, NotEnded, OccupiedRoomIsActive, Active
  <2> QED
    BY <2>1, <2>2, <2>3, <2>4 DEF Rest, OwedFresh
<1>4. ASSUME Crash PROVE Rest'
  <2>1. /\ req' = [p \in Procs |-> IdleReq] /\ faults' # 0 /\ cand' = {}
        /\ UNCHANGED <<stay, room>>
    BY <1>1, <1>4 DEF Crash
  <2>2. (\A x \in Procs : Fresh(x)') /\ RunFresh'
    BY <1>1, <2>1, AfterVacateIdles DEF Fresh, RunFresh
  <2>3. NotEnded' /\ OccupiedRoomIsActive'
    BY <1>1, <2>1 DEF Rest, NotEnded, OccupiedRoomIsActive, Active
  <2> QED
    BY <2>1, <2>2, <2>3 DEF Rest, OwedFresh
<1>5. ASSUME Tick PROVE Rest'
  <2>1. clock' = clock + 1 /\ clock \in Nat /\ UNCHANGED <<stay, room, req, cand, faults, owed>>
    BY <1>1, <1>5, StaysAssumption DEF Tick, TypeOK
  <2>2. \A e \in cand : Overdue(e[2].due) => Overdue(e[2].due)'
    <3> SUFFICES ASSUME NEW e \in cand, Overdue(e[2].due) PROVE Overdue(e[2].due)'
      OBVIOUS
    <3>1. e[2].due \in Nat
      BY <1>1 DEF TypeOK, StayRow, Days
    <3> QED
      BY <2>1, <3>1, OverdueGrows
  <2>3. RunFresh'
    BY <1>1, <2>1, <2>2 DEF RunFresh, Idle, Active
  <2>4. (\A x \in Procs : Fresh(x)') /\ OwedFresh' /\ NotEnded' /\ OccupiedRoomIsActive'
    BY <1>1, <2>1 DEF Rest, Fresh, OwedFresh, NotEnded, OccupiedRoomIsActive, Active, ActiveIn
  <2> QED
    BY <2>3, <2>4 DEF Rest
<1>6. ASSUME UNCHANGED vars PROVE Rest'
  BY <1>1, <1>6 DEF vars, Rest, Fresh, RunFresh, OwedFresh, NotEnded, OccupiedRoomIsActive,
     Active, ActiveIn, Idle, Overdue, Today, PastCheckoutTime
<1> QED
  BY <1>2, <1>3, <1>4, <1>5, <1>6 DEF Fault

LEMMA SerialStep == SerialInv /\ [Next]_vars => Rest'
<1> SUFFICES ASSUME SerialInv, [Next]_vars PROVE Rest'
  OBVIOUS
<1>1. ASSUME NEW p \in Procs, Continue(p) PROVE Rest'
  BY <1>1, SerialDraw, SerialInsert, SerialSnapshot, SerialCheckout, SerialMove, SerialRoomSave
     DEF Continue
<1>2. CASE AutoRun
  BY <1>2, SerialRun, SerialAutoClose DEF AutoRun
<1> QED
  BY <1>1, <1>2, SerialBegin, SerialOther DEF Next

LEMMA AloneInvariance == MCSpec => []AloneInv
<1>1. MCInit => AloneInv
  <2> SUFFICES ASSUME MCInit PROVE AloneInv
    OBVIOUS
  <2>1. IInv /\ alone \in BOOLEAN
    BY InitInvariant DEF MCInit
  <2>2. SerialInv
    BY <2>1, StaysAssumption DEF MCInit, Init, SerialInv, OneAtATime, Fresh, RunFresh, OwedFresh,
       NotEnded, OccupiedRoomIsActive, Idle, Active, IdleReq, NoStay, Procs
  <2> QED
    BY <2>1, <2>2 DEF AloneInv
<1>2. AloneInv /\ [MCNext]_<<vars, alone>> => AloneInv'
  <2> SUFFICES ASSUME AloneInv, [MCNext]_<<vars, alone>> PROVE AloneInv'
    OBVIOUS
  <2>1. [Next]_vars /\ alone' = alone
    BY DEF MCNext
  <2>2. IInv'
    BY <2>1, InductiveStep DEF AloneInv
  <2>3. ASSUME alone PROVE OneAtATime'
    <3>1. CASE MCNext
      BY <2>3, <3>1 DEF MCNext
    <3>2. CASE UNCHANGED <<vars, alone>>
      BY <2>3, <3>2 DEF AloneInv, SerialInv, OneAtATime, Idle, vars
    <3> QED
      BY <3>1, <3>2
  <2>4. ASSUME alone PROVE SerialInv'
    BY <2>1, <2>2, <2>3, <2>4, SerialStep DEF AloneInv, SerialInv, Rest
  <2> QED
    BY <2>1, <2>2, <2>4 DEF AloneInv
<1> QED
  BY <1>1, <1>2, PTL DEF MCSpec

(* Served one at a time, with crashes and failures of the hook or the run  *)
(* at any step, an occupied room is active, and without a failure every    *)
(* vacated room has its checkout flag once the request is answered.        *)
THEOREM RoomsFollowStays == MCSpec => []AloneRoomsFollowStays
<1>1. AloneInv => AloneRoomsFollowStays
  BY DEF AloneInv, SerialInv, AloneRoomsFollowStays, VacatedRoomIsFlagged, OwedFresh, Idle, IInv, TypeOK
<1> QED
  BY <1>1, AloneInvariance, PTL

----------------------------------------------------------------------------
(* What a step served alone does to the stays: it leaves every guest where *)
(* he is, lets one into a free room, moves one into a free room, or ends   *)
(* one stay, by itself only when it is overdue.                            *)
Write(s, row) == stay' = [stay EXCEPT ![s] = row]

Stands ==
  \A s \in Stays : /\ stay'[s].status = stay[s].status
                   /\ Active(s) => stay'[s].room = stay[s].room /\ stay'[s].by = "none"
Enters(s, r, row) ==
  stay[s].status = "none" /\ ActiveIn(r) = {} /\ Write(s, row) /\ row.status = "active" /\ row.room = r
Moves(s, r, row) ==
  /\ Active(s) /\ ActiveIn(r) = {} /\ Write(s, row)
  /\ row.status = "active" /\ row.room = r /\ row.by = "none"
Ends(s, row) ==
  /\ Active(s) /\ Write(s, row) /\ row.status = "checked_out"
  /\ row.by = "automatic" => Overdue(stay[s].due)

DeskStep ==
  \/ Stands
  \/ \E s \in Stays, r \in Rooms, row \in StayRow : Enters(s, r, row) \/ Moves(s, r, row)
  \/ \E s \in Stays, row \in StayRow : Ends(s, row)

LEMMA DeskSteps == SerialInv /\ [Next]_vars => DeskStep
<1> SUFFICES ASSUME SerialInv, [Next]_vars PROVE DeskStep
  OBVIOUS
<1>1. TypeOK /\ NotEnded
  BY DEF SerialInv, IInv
<1>2. ASSUME UNCHANGED stay PROVE Stands
  BY <1>1, <1>2 DEF Stands, NotEnded
<1>3. ASSUME NEW p \in Procs PROVE req[p] \in Request /\ req[p].row \in StayRow
  BY <1>1 DEF TypeOK, Request
<1>4. ASSUME NEW p \in Procs, SaveSnapshot(p) PROVE Stands
  <2>1. \A s \in Stays : /\ stay'[s].status = stay[s].status
                         /\ Active(s) => stay'[s].room = stay[s].room
    BY <1>4, SerialSnapshot
  <2>2. NotEnded'
    BY <1>4, SerialSnapshot DEF Rest
  <2> QED
    BY <2>1, <2>2 DEF Stands, NotEnded, Active
<1>5. ASSUME NEW p \in Procs, NEW s \in Stays, NEW d \in Days, CheckInInsert(p, s, d) PROVE DeskStep
  <2> DEFINE row == NewStay(req[p].room, req[p].row.code, d)
  <2>1. row \in StayRow /\ row.status = "active" /\ row.room = req[p].room
    BY <1>3 DEF NewStay, StayRow, Request
  <2> QED
    BY <1>2, <1>5, <2>1, SerialInsert DEF DeskStep, Enters, Write
<1>6. ASSUME NEW p \in Procs, CheckoutSave(p) PROVE DeskStep
  <2> DEFINE s == req[p].sid
             row == Closed(req[p].row, "manual")
  <2>1. row \in StayRow /\ row.status = "checked_out" /\ row.by = "manual"
    BY <1>3 DEF Closed, StayRow
  <2>2. s \in Stays /\ Active(s) /\ Write(s, row)
    BY <1>6, SerialCheckout DEF Write
  <2> QED
    BY <2>1, <2>2 DEF DeskStep, Ends
<1>7. ASSUME NEW p \in Procs, MoveSave(p) PROVE DeskStep
  <2> DEFINE s == req[p].sid
             r == req[p].room
             row == [req[p].row EXCEPT !.room = r]
  <2>1. Fresh(p) /\ req[p].pc = "move"
    BY <1>7 DEF SerialInv, MoveSave
  <2>2. s \in Stays /\ Active(s) /\ r \in Rooms /\ ActiveIn(r) = {}
    BY <1>7, SerialMove
  <2>3. row \in StayRow /\ row.status = "active" /\ row.room = r /\ row.by = "none"
    BY <1>3, <2>1, <2>2 DEF StayRow, Fresh
  <2>4. stay' = stay \/ Write(s, row)
    BY <1>7, SerialMove DEF Write
  <2> QED
    BY <1>2, <2>2, <2>3, <2>4 DEF DeskStep, Moves
<1>8. ASSUME NEW p \in Procs, Continue(p) PROVE DeskStep
  <2>1. ASSUME NEW c \in Codes, CheckInCode(p, c) \/ RegenCode(p, c) PROVE UNCHANGED stay
    BY <2>1 DEF CheckInCode, RegenCode
  <2>2. ASSUME CodesExhausted(p) \/ VacateRead(p) \/ VacateSave(p) \/ HkSave(p) \/ RoomStatusSave(p)
        PROVE  UNCHANGED stay
    BY <2>2 DEF CodesExhausted, VacateRead, VacateSave, HkSave, RoomStatusSave
  <2> QED
    BY <1>2, <1>4, <1>5, <1>6, <1>7, <1>8, <2>1, <2>2 DEF Continue, DeskStep
<1>9. ASSUME NEW e \in cand, AutoClose(e[1], e[2]) PROVE DeskStep
  <2> DEFINE s == e[1]
             row == Closed(stay[s], "automatic")
  <2>1. s \in Stays /\ Active(s) /\ Overdue(stay[s].due) /\ Write(s, row)
    BY <1>9, SerialAutoClose DEF Write
  <2>2. stay[s] \in StayRow
    BY <1>1, <2>1 DEF TypeOK
  <2>3. row \in StayRow /\ row.status = "checked_out"
    BY <2>2 DEF Closed, StayRow
  <2> QED
    BY <2>1, <2>3 DEF DeskStep, Ends
<1>10. ASSUME NEW p \in Staff, Begin(p) PROVE UNCHANGED stay
  BY <1>10 DEF Begin, CheckInLock, UpdateRead, RegenRead, CheckoutRead, MoveLock,
               RoomStatusRead, HkRead
<1>11. CASE AutoStart \/ AutoDone \/ Fault \/ Tick \/ UNCHANGED vars
  BY <1>2, <1>11 DEF AutoStart, AutoDone, Fault, VacateFail, AutoFail, Crash, Tick, vars, DeskStep
<1> QED
  BY <1>2, <1>8, <1>9, <1>10, <1>11 DEF Next, AutoRun, DeskStep

LEMMA EndsOverdue ==
  ASSUME SerialInv, DeskStep, NEW s \in Stays, AutomaticEnd(s) PROVE Overdue(stay[s].due)
BY DEF SerialInv, IInv, TypeOK, NotEnded, DeskStep, Stands, Enters, Moves, Ends, Write,
       Active, AutomaticEnd

(* The occupant of a room is the one active stay in it. *)
LEMMA OccupantOf ==
  ASSUME NEW st \in [Stays -> StayRow],
         \A s, t \in Stays : st[s].status = "active" /\ st[t].status = "active"
                               /\ st[s].room = st[t].room => s = t,
         NEW occ,
         occ = [r \in Rooms |->
                  IF {s \in Stays : st[s].status = "active" /\ st[s].room = r} = {} THEN None
                  ELSE CHOOSE s \in {s \in Stays : st[s].status = "active" /\ st[s].room = r} : TRUE]
  PROVE  /\ occ = [r \in Rooms |-> occ[r]]
         /\ \A r \in Rooms : occ[r] \in Stays \cup {None}
         /\ \A r \in Rooms, s \in Stays :
              occ[r] = s <=> st[s].status = "active" /\ st[s].room = r
<1>1. occ = [r \in Rooms |-> occ[r]]
  OBVIOUS
<1>2. ASSUME NEW r \in Rooms
      PROVE  /\ occ[r] \in Stays \cup {None}
             /\ \A s \in Stays : occ[r] = s <=> st[s].status = "active" /\ st[s].room = r
  <2> DEFINE In == {s \in Stays : st[s].status = "active" /\ st[s].room = r}
  <2>1. CASE In = {}
    <3>1. occ[r] = None
      BY <2>1
    <3> QED
      BY <2>1, <3>1, StaysAssumption
  <2>2. CASE In # {}
    <3>1. occ[r] = CHOOSE s \in In : TRUE
      BY <2>2
    <3>2. occ[r] \in In
      BY <2>2, <3>1
    <3> QED
      BY <3>2
  <2> QED
    BY <2>1, <2>2
<1> QED
  BY <1>1, <1>2

Book == INSTANCE StayBook WITH occupant <- Occupant, ended <- Ended

(* Occupant and Ended, before and after a step. *)
OccupantFits ==
  /\ Occupant = [r \in Rooms |-> Occupant[r]]
  /\ \A r \in Rooms : Occupant[r] \in Stays \cup {None}
  /\ \A r \in Rooms, s \in Stays : Occupant[r] = s <=> Active(s) /\ stay[s].room = r

LEMMA OccupantNow == IInv => OccupantFits
<1> SUFFICES ASSUME IInv PROVE OccupantFits
  OBVIOUS
<1>1. /\ stay \in [Stays -> StayRow]
      /\ \A s, t \in Stays : stay[s].status = "active" /\ stay[t].status = "active"
                               /\ stay[s].room = stay[t].room => s = t
  BY DEF IInv, TypeOK, ActiveStaysUnique, Active
<1>2. Occupant = [r \in Rooms |->
                    IF {s \in Stays : stay[s].status = "active" /\ stay[s].room = r} = {} THEN None
                    ELSE CHOOSE s \in {s \in Stays : stay[s].status = "active" /\ stay[s].room = r} : TRUE]
  BY DEF Occupant, ActiveIn, Active
<1> QED
  BY <1>1, <1>2, OccupantOf DEF OccupantFits, Active

LEMMA OccupantNext == IInv' => OccupantFits'
BY OccupantNow, PTL

(* Every step served alone is a step of the book. *)
LEMMA KeepsBook ==
  ASSUME SerialInv, IInv', DeskStep PROVE [Book!Next]_<<Occupant, Ended>>
<1>1. /\ stay \in [Stays -> StayRow] /\ stay' \in [Stays -> StayRow]
      /\ OccupantFits /\ OccupantFits' /\ RoomsNamed /\ None \notin Stays
  BY OccupantNow, OccupantNext, StaysAssumption DEF SerialInv, IInv, TypeOK
<1>2. ASSUME Stands PROVE UNCHANGED <<Occupant, Ended>>
  <2>1. \A r \in Rooms : Occupant'[r] = Occupant[r]
    BY <1>1, <1>2 DEF Stands, OccupantFits, Active
  <2>2. Ended' = Ended
    BY <1>2 DEF Stands, Ended
  <2> QED
    BY <1>1, <2>1, <2>2 DEF OccupantFits
<1>3. ASSUME NEW s \in Stays, NEW r \in Rooms, NEW row \in StayRow, Enters(s, r, row)
      PROVE  Book!Arrive(s, r)
  <2>1. /\ \A x \in Rooms : Occupant[x] # s
        /\ Occupant[r] = None
    BY <1>1, <1>3 DEF Enters, OccupantFits, Active, ActiveIn
  <2>2. Occupant'[r] = s /\ \A x \in Rooms \ {r} : Occupant'[x] = Occupant[x]
    BY <1>1, <1>3 DEF Enters, Write, OccupantFits, Active
  <2>3. s \notin Ended /\ Ended' = Ended
    BY <1>1, <1>3 DEF Enters, Write, Ended
  <2>4. Occupant' = [Occupant EXCEPT ![r] = s]
    BY <1>1, <2>2 DEF OccupantFits
  <2> QED
    BY <1>1, <2>1, <2>3, <2>4 DEF Book!Arrive, Book!Present
<1>4. ASSUME NEW s \in Stays, NEW r \in Rooms, NEW row \in StayRow, Moves(s, r, row)
      PROVE  \E from \in Rooms : Book!Move(s, from, r)
  <2> DEFINE from == stay[s].room
  <2>1. from \in Rooms /\ Occupant[from] = s /\ Occupant[r] = None /\ from # r
    BY <1>1, <1>4 DEF Moves, OccupantFits, Active, ActiveIn, RoomsNamed
  <2>2. /\ Occupant'[r] = s /\ Occupant'[from] = None
        /\ \A x \in Rooms \ {r, from} : Occupant'[x] = Occupant[x]
    BY <1>1, <1>4, <2>1 DEF Moves, Write, OccupantFits, Active
  <2>3. Ended' = Ended
    BY <1>1, <1>4 DEF Moves, Write, Ended, Active
  <2>4. Occupant' = [Occupant EXCEPT ![from] = None, ![r] = s]
    BY <1>1, <2>1, <2>2 DEF OccupantFits
  <2> QED
    BY <2>1, <2>3, <2>4 DEF Book!Move
<1>5. ASSUME NEW s \in Stays, NEW row \in StayRow, Ends(s, row)
      PROVE  \E r \in Rooms : Book!Leave(s, r)
  <2> DEFINE r == stay[s].room
  <2>1. r \in Rooms /\ Occupant[r] = s
    BY <1>1, <1>5 DEF Ends, OccupantFits, Active, RoomsNamed
  <2>2. Occupant'[r] = None /\ \A x \in Rooms \ {r} : Occupant'[x] = Occupant[x]
    BY <1>1, <1>5, <2>1 DEF Ends, Write, OccupantFits, Active
  <2>3. Ended' = Ended \cup {s}
    BY <1>1, <1>5 DEF Ends, Write, Ended
  <2>4. Occupant' = [Occupant EXCEPT ![r] = None]
    BY <1>1, <2>1, <2>2 DEF OccupantFits
  <2> QED
    BY <2>1, <2>3, <2>4 DEF Book!Leave
<1> QED
  BY <1>2, <1>3, <1>4, <1>5 DEF DeskStep, Book!Next

(* Served one at a time, the desk keeps the book of StayBook: a stay       *)
(* enters one free room, moves between free rooms and ends for good; and   *)
(* the auto-checkout ends only a stay that the database has as overdue.    *)
THEOREM StaysEndRightly == MCSpec => AloneStaysEndRightly
<1>1. AloneInv /\ AloneInv' /\ [MCNext]_<<vars, alone>>
        => [alone => \A s \in Stays : AutomaticEnd(s) => Overdue(stay[s].due)]_<<vars, alone>>
  <2> SUFFICES ASSUME AloneInv, MCNext, alone, NEW s \in Stays, AutomaticEnd(s)
               PROVE  Overdue(stay[s].due)
    OBVIOUS
  <2> QED
    BY DeskSteps, EndsOverdue DEF AloneInv, MCNext
<1>2. MCInit => AloneBook!Init
  <2> SUFFICES ASSUME MCInit PROVE AloneBook!Init
    OBVIOUS
  <2>1. Occupant = [r \in Rooms |-> None] /\ Ended = {}
    BY DEF MCInit, Init, Occupant, Ended, ActiveIn, Active, NoStay
  <2> QED
    BY <2>1 DEF AloneBook!Init
<1>3. AloneInv /\ AloneInv' /\ [MCNext]_<<vars, alone>> => [AloneBook!Next]_AloneBook!vars
  <2> SUFFICES ASSUME AloneInv, AloneInv', [MCNext]_<<vars, alone>>
               PROVE  [AloneBook!Next]_AloneBook!vars
    OBVIOUS
  <2>1. [Next]_vars /\ alone' = alone /\ alone \in BOOLEAN
    BY DEF MCNext, AloneInv
  <2>2. CASE alone
    <3>1. [Book!Next]_<<Occupant, Ended>>
      BY <2>1, <2>2, DeskSteps, KeepsBook DEF AloneInv
    <3>2. ASSUME UNCHANGED <<Occupant, Ended>> PROVE UNCHANGED AloneBook!vars
      BY <2>1, <2>2, <3>2 DEF AloneBook!vars
    <3>3. ASSUME Book!Next PROVE AloneBook!Next
      BY <2>1, <2>2, <3>3
         DEF Book!Next, Book!Arrive, Book!Move, Book!Leave, Book!Present,
             AloneBook!Next, AloneBook!Arrive, AloneBook!Move, AloneBook!Leave, AloneBook!Present
    <3> QED
      BY <3>1, <3>2, <3>3
  <2>3. CASE ~alone
    BY <2>1, <2>3 DEF AloneBook!vars
  <2> QED
    BY <2>2, <2>3
<1> QED
  BY <1>1, <1>2, <1>3, AloneInvariance, PTL
     DEF MCSpec, AloneStaysEndRightly, AloneClosesOnlyOverdue, AloneBook!Spec
=============================================================================
