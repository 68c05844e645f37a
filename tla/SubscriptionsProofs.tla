------------------------ MODULE SubscriptionsProofs ------------------------
(***************************************************************************)
(* Proofs about Subscriptions, for every number of rows, rooms, plans and  *)
(* requests and any clock and faults: rooms never exceed the plan they     *)
(* were added under, whatever overlaps; and one request at a time the      *)
(* hotel has one plan, a true counter and one free trial.  Of MCSubs, also *)
(* that the catalog holds, that an order is booked as the menu showed it,  *)
(* and that what the hotel's lock guards of its rooms stands, for every    *)
(* value of their constants.                                               *)
(*                                                                         *)
(* SeatsInv is what the lock of the hotel row is for: what a request under *)
(* it has counted is still so when it saves.  SerialInv says of a request  *)
(* under way alone what it has established so far.                         *)
(***************************************************************************)
EXTENDS MCSubs, FiniteSetTheorems, WellFoundedInduction, TLAPS

Taken == Cardinality(Countable)

TrialRow(row) == row.status \in {"trial", "expired"} <=> row.ends # 0

SnapshotsSound ==
  /\ \A p \in Admins : TrialRow(req[p].row)
  /\ \A b \in batch : TrialRow(b[2])

LockHeld == \A p \in Admins : req[p].pc \in {"limit", "rooms"} => lock = p

SeatsInv ==
  \A p \in Admins :
    /\ req[p].pc = "limit" => Counts(req[p].to)
    /\ req[p].pc = "rooms" /\ Counts(req[p].to) =>
         \/ req[p].set \subseteq Countable
         \/ Taken + Cardinality(req[p].set) <= req[p].limit

SubsInv == TypeOK /\ SnapshotsSound /\ LockHeld /\ SeatsInv

----------------------------------------------------------------------------
(* Alone: requests do not overlap and nothing fails.                       *)
Alone == crowd = 1 /\ faults = 0
Busy == {p \in Procs : ~Idle(p)}
Fits(row) == row.forced \/ Taken <= row.plan
Free == {s \in Subs : sub[s].ends # 0 /\ ~sub[s].forced}

ChangeOK(q) ==
  /\ q.pc \in {"trial", "read", "close", "insert"} =>
       Unused # {} /\ (q.force \/ Taken <= q.plan)
  /\ q.pc \in {"read", "close", "insert"} /\ q.plan \in Trials /\ ~q.force => PriorTrials = {}
  /\ q.pc = "insert" => Open = {}
  /\ q.pc = "close" => /\ q.s \in Open /\ ~q.row.open
                       /\ q.row.status = sub[q.s].status /\ q.row.plan = sub[q.s].plan
                       /\ q.row.ends = sub[q.s].ends /\ q.row.forced = sub[q.s].forced

OthersOK(q) ==
  /\ q.pc = "extend" => /\ sub[q.s].ends # 0 /\ q.row.ends # 0
                        /\ q.row.open = sub[q.s].open /\ q.row.status = sub[q.s].status
                        /\ q.row.plan = sub[q.s].plan /\ q.row.forced = sub[q.s].forced
  /\ q.pc = "hotel" => q.hotel.rooms = Taken
  /\ q.pc = "rooms" /\ Counts(q.to) =>
       \/ q.set \subseteq Countable
       \/ \A s \in Open : Taken + Cardinality(q.set) <= sub[s].plan

BatchOK ==
  \A b \in batch : /\ sub[b[1]].ends # 0 /\ b[2].ends # 0
                   /\ b[2].open = sub[b[1]].open /\ b[2].status # "none" 
                   /\ b[2].plan = sub[b[1]].plan /\ b[2].forced = sub[b[1]].forced

OnePlan ==
  /\ \A s, t \in Open : s = t
  /\ Open = {} => \E p \in Admins : req[p].pc = "insert"
  /\ \A s \in Open : Fits(sub[s])

SerialInv ==
  /\ \A p, q \in Busy : p = q
  /\ \A p \in Admins : ChangeOK(req[p]) /\ OthersOK(req[p])
  /\ BatchOK /\ OnePlan
  /\ hotel.rooms = Taken
  /\ \A s, t \in Free : s = t

AloneInv == SubsInv /\ (Alone => SerialInv)

----------------------------------------------------------------------------
(* Values and sets of the model. *)
LEMMA RoomsCounted ==
  ASSUME NEW S \in SUBSET Rooms
  PROVE  IsFiniteSet(S) /\ Cardinality(S) \in Nat /\ Cardinality(S) <= Cardinality(Rooms)
BY FS_Subset, FS_CardinalityType, SubscriptionsAssumption DEF SubscriptionsAssumption

LEMMA AddedRooms ==
  ASSUME NEW S \in SUBSET Rooms, NEW T \in SUBSET Rooms
  PROVE  Cardinality(S \cup T) <= Cardinality(S) + Cardinality(T)
<1>1. IsFiniteSet(S) /\ IsFiniteSet(T) /\ Cardinality(S) \in Nat /\ Cardinality(T) \in Nat
  BY RoomsCounted
<1>2. Cardinality(S \cap T) \in Nat
  BY RoomsCounted, S \cap T \in SUBSET Rooms
<1>3. Cardinality(S \cup T) = Cardinality(S) + Cardinality(T) - Cardinality(S \cap T)
  BY <1>1, FS_Union
<1>. QED BY <1>1, <1>2, <1>3

LEMMA TakenTyped == Taken \in Nat /\ Taken <= Cardinality(Rooms) /\ Countable \in SUBSET Rooms
<1>1. Countable \in SUBSET Rooms
  BY DEF Countable
<1>. QED BY <1>1, RoomsCounted DEF Taken

LEMMA EmptyRow == NoSub \in SubRow /\ TrialRow(NoSub)
<1>1. 0 \in Days
  BY SubscriptionsAssumption DEF SubscriptionsAssumption, Days
<1>2. NoSub.plan \in Plans
  BY SubscriptionsAssumption DEF SubscriptionsAssumption, NoSub
<1>. QED BY <1>1, <1>2 DEF NoSub, SubRow, TrialRow

LEMMA NewRow ==
  ASSUME NEW plan_ \in Plans, NEW force \in BOOLEAN, day \in 0..MaxDay
  PROVE  NewSub(plan_, force) \in SubRow /\ TrialRow(NewSub(plan_, force))
<1>1. day + TrialDays \in Days /\ 0 \in Days /\ day + TrialDays # 0
  BY SubscriptionsAssumption DEF SubscriptionsAssumption, Days
<1>. QED BY <1>1 DEF NewSub, SubRow, TrialRow

LEMMA IdleTyped ==
  /\ IdleReq \in Request /\ IdleReq.pc = "idle" /\ TrialRow(IdleReq.row)
<1>1. 1 \in Subs /\ 0 \in 0..Cardinality(Rooms) /\ NoSub.plan \in Plans
  BY SubscriptionsAssumption, EmptyRow, RoomsCounted, Rooms \in SUBSET Rooms
     DEF SubscriptionsAssumption, Subs, SubRow
<1>2. {} \in SUBSET Rooms /\ "none" \in RoomStatuses
  BY DEF RoomStatuses
<1>. QED BY <1>1, <1>2, EmptyRow DEF IdleReq, Request, Hotel

----------------------------------------------------------------------------
(* A request that neither is nor comes under the lock. *)
RequestsOK ==
  /\ req \in [Admins -> Request] /\ lock \in Admins \cup {None}
  /\ \A p \in Admins : TrialRow(req[p].row)
  /\ LockHeld /\ SeatsInv

LEMMA QuietRequest ==
  ASSUME SubsInv, NEW p \in Admins, NEW q \in Request, Go(p, q), TrialRow(q.row),
         q.pc \notin {"limit", "rooms"}, UNCHANGED room, Release(p) \/ lock' = lock
  PROVE  RequestsOK'
<1>1. /\ req' \in [Admins -> Request] /\ lock' \in Admins \cup {None}
      /\ \A o \in Admins : TrialRow(req'[o].row)
  BY DEF SubsInv, TypeOK, SnapshotsSound, Go, Release
<1>2. LockHeld'
  <2> SUFFICES ASSUME NEW o \in Admins, req'[o].pc \in {"limit", "rooms"}
               PROVE  lock' = o
    BY DEF LockHeld
  <2>1. o # p /\ req'[o] = req[o]
    BY DEF Go, SubsInv, TypeOK
  <2>. QED BY <2>1 DEF SubsInv, LockHeld, Release
<1>3. SeatsInv'
  <2> SUFFICES ASSUME NEW o \in Admins, req'[o].pc \in {"limit", "rooms"}
               PROVE  req'[o] = req[o]
    BY Countable' = Countable, Taken' = Taken DEF SubsInv, SeatsInv, Countable, Taken
  <2>. QED BY DEF Go, SubsInv, TypeOK
<1>. QED BY <1>1, <1>2, <1>3 DEF RequestsOK

LEMMA Refitted ==
  ASSUME RequestsOK', sub' \in [Subs -> SubRow], \A s \in Subs : TrialRow(sub'[s]),
         room' \in [Rooms -> RoomStatuses], hotel' \in Hotel,
         batch' \subseteq Subs \X SubRow, \A b \in batch' : TrialRow(b[2]),
         day' \in 0..MaxDay, faults' \in 0..MaxFaults, crowd' \in Crowds
  PROVE  SubsInv'
BY DEF SubsInv, TypeOK, SnapshotsSound, RequestsOK, TrialRow

----------------------------------------------------------------------------
(* SubsInv, one lemma per kind of request. *)
LEMMA RequestFields ==
  ASSUME SubsInv, NEW p \in Admins
  PROVE  /\ req[p] \in Request /\ req[p].row \in SubRow /\ TrialRow(req[p].row) /\ req[p].s \in Subs
         /\ req[p].plan \in Plans /\ req[p].force \in BOOLEAN /\ req[p].hotel \in Hotel
         /\ req[p].set \in SUBSET Rooms /\ req[p].to \in RoomStatuses /\ req[p].limit \in Nat
         /\ day \in 0..MaxDay /\ faults \in 0..MaxFaults
BY DEF SubsInv, TypeOK, Request, SnapshotsSound

LEMMA TableSound ==
  ASSUME SubsInv
  PROVE  /\ sub \in [Subs -> SubRow] /\ \A s \in Subs : sub[s] \in SubRow /\ TrialRow(sub[s])
         /\ room \in [Rooms -> RoomStatuses] /\ hotel \in Hotel
         /\ batch \subseteq Subs \X SubRow /\ \A b \in batch : TrialRow(b[2])
         /\ day \in 0..MaxDay /\ faults \in 0..MaxFaults /\ crowd \in Crowds
BY DEF SubsInv, TypeOK, SnapshotsSound, TrialRow

LEMMA ChangeStep ==
  ASSUME SubsInv, NEW p \in Admins,
         \/ \E n \in Plans, force \in BOOLEAN : ChangeStart(p, n, force)
         \/ ChangeTrial(p) \/ ChangeRead(p) \/ ChangeClose(p) \/ ChangeInsert(p)
  PROVE  SubsInv'
<1>1. ASSUME NEW n \in Plans, NEW force \in BOOLEAN, ChangeStart(p, n, force) PROVE SubsInv'
  <2>1. [IdleReq EXCEPT !.pc = "trial", !.plan = n, !.force = force] \in Request
    BY IdleTyped DEF Request
  <2>2. RequestsOK'
    BY <1>1, <2>1, IdleTyped, QuietRequest DEF ChangeStart, Request
  <2>. QED BY <1>1, <2>2, TableSound, Refitted DEF ChangeStart
<1>2. ASSUME ChangeTrial(p) PROVE SubsInv'
  <2>1. [req[p] EXCEPT !.pc = "read"] \in Request
    BY RequestFields DEF Request
  <2>2. RequestsOK'
    <3>1. CASE Finish(p)
      BY <1>2, <3>1, IdleTyped, QuietRequest DEF ChangeTrial, Finish
    <3>2. CASE Go(p, [req[p] EXCEPT !.pc = "read"])
      BY <1>2, <2>1, <3>2, RequestFields, QuietRequest DEF ChangeTrial, Request
    <3>. QED BY <1>2, <3>1, <3>2 DEF ChangeTrial
  <2>. QED BY <1>2, <2>2, TableSound, Refitted DEF ChangeTrial
<1>3. ASSUME ChangeRead(p) PROVE SubsInv'
  <2>1. RequestsOK'
    <3>1. CASE Go(p, [req[p] EXCEPT !.pc = "insert"])
      <4>1. [req[p] EXCEPT !.pc = "insert"] \in Request
        BY RequestFields DEF Request
      <4>. QED BY <1>3, <3>1, <4>1, RequestFields, QuietRequest DEF ChangeRead, Request
    <3>2. ASSUME NEW s \in Open,
                 Go(p, [req[p] EXCEPT !.pc = "close", !.s = s, !.row = [sub[s] EXCEPT !.open = FALSE]])
          PROVE  RequestsOK'
      <4>1. s \in Subs
        BY DEF Open
      <4> DEFINE row == [sub[s] EXCEPT !.open = FALSE]
      <4>2. row \in SubRow /\ TrialRow(row)
        BY <4>1, TableSound DEF SubRow, TrialRow
      <4> HIDE DEF row
      <4>3. /\ [req[p] EXCEPT !.pc = "close", !.s = s, !.row = row] \in Request
            /\ [req[p] EXCEPT !.pc = "close", !.s = s, !.row = row].row = row
            /\ [req[p] EXCEPT !.pc = "close", !.s = s, !.row = row].pc = "close"
        BY <4>1, <4>2, RequestFields DEF Request
      <4>4. Go(p, [req[p] EXCEPT !.pc = "close", !.s = s, !.row = row])
        BY <3>2 DEF row
      <4>. QED BY <1>3, <4>2, <4>3, <4>4, QuietRequest DEF ChangeRead
    <3>. QED BY <1>3, <3>1, <3>2 DEF ChangeRead
  <2>. QED BY <1>3, <2>1, TableSound, Refitted DEF ChangeRead
<1>4. ASSUME ChangeClose(p) PROVE SubsInv'
  <2>1. RequestsOK'
    <3>1. [req[p] EXCEPT !.pc = "insert"] \in Request
      BY RequestFields DEF Request
    <3>. QED BY <1>4, <3>1, RequestFields, QuietRequest DEF ChangeClose, Request
  <2>2. sub' \in [Subs -> SubRow] /\ \A s \in Subs : TrialRow(sub'[s])
    BY <1>4, RequestFields, TableSound DEF ChangeClose
  <2>. QED BY <1>4, <2>1, <2>2, TableSound, Refitted DEF ChangeClose
<1>5. ASSUME ChangeInsert(p) PROVE SubsInv'
  <2>1. RequestsOK'
    BY <1>5, IdleTyped, QuietRequest DEF ChangeInsert, Finish
  <2>2. NewSub(req[p].plan, req[p].force) \in SubRow /\ TrialRow(NewSub(req[p].plan, req[p].force))
    BY RequestFields, NewRow
  <2>3. PICK s : sub' = [sub EXCEPT ![s] = NewSub(req[p].plan, req[p].force)]
    BY <1>5 DEF ChangeInsert
  <2>4. sub' \in [Subs -> SubRow] /\ \A t \in Subs : TrialRow(sub'[t])
    BY <2>2, <2>3, TableSound
  <2>. QED BY <1>5, <2>1, <2>4, TableSound, Refitted DEF ChangeInsert
<1>. QED BY <1>1, <1>2, <1>3, <1>4, <1>5

LEMMA EditStep ==
  ASSUME SubsInv, NEW p \in Admins,
         \/ \E s \in Subs : ExtendRead(p, s)
         \/ \E suspended \in BOOLEAN : HotelRead(p, suspended)
         \/ ExtendSave(p) \/ HotelSave(p) \/ Fail(p)
  PROVE  SubsInv'
<1>1. ASSUME NEW s \in Subs, ExtendRead(p, s) PROVE SubsInv'
  <2> DEFINE row == [sub[s] EXCEPT !.ends = @ + TrialDays]
  <2>1. row \in SubRow /\ TrialRow(row)
    <3>1. sub[s].ends \in Nat /\ TrialDays \in Nat /\ sub[s].ends + TrialDays \in Days
      <4>1. sub[s].ends \in Days /\ sub[s].ends + TrialDays \in Days
        BY <1>1, TableSound DEF ExtendRead, SubRow
      <4>2. Days \subseteq Nat
        BY SubscriptionsAssumption DEF SubscriptionsAssumption, Days
      <4>. QED BY <4>1, <4>2, SubscriptionsAssumption DEF SubscriptionsAssumption
    <3>2. sub[s].status = "trial" /\ sub[s].ends # 0
      BY <1>1, TableSound DEF ExtendRead, TrialRow
    <3>3. sub[s].ends + TrialDays # 0
      BY <3>1, <3>2
    <3>. QED BY <3>1, <3>2, <3>3, TableSound DEF SubRow, TrialRow
  <2> HIDE DEF row
  <2>2. /\ [IdleReq EXCEPT !.pc = "extend", !.s = s, !.row = row] \in Request
        /\ [IdleReq EXCEPT !.pc = "extend", !.s = s, !.row = row].row = row
        /\ [IdleReq EXCEPT !.pc = "extend", !.s = s, !.row = row].pc = "extend"
    BY <2>1, IdleTyped DEF Request
  <2>3. Go(p, [IdleReq EXCEPT !.pc = "extend", !.s = s, !.row = row])
    BY <1>1 DEF row, ExtendRead
  <2>4. RequestsOK'
    BY <1>1, <2>1, <2>2, <2>3, QuietRequest DEF ExtendRead
  <2>. QED BY <1>1, <2>4, TableSound, Refitted DEF ExtendRead
<1>2. ASSUME NEW suspended \in BOOLEAN, HotelRead(p, suspended) PROVE SubsInv'
  <2>1. [hotel EXCEPT !.suspended = suspended] \in Hotel
    BY TableSound DEF Hotel
  <2>2. [IdleReq EXCEPT !.pc = "hotel", !.hotel = [hotel EXCEPT !.suspended = suspended]] \in Request
    BY <2>1, IdleTyped DEF Request
  <2>3. RequestsOK'
    BY <1>2, <2>2, IdleTyped, QuietRequest DEF HotelRead, Request
  <2>. QED BY <1>2, <2>3, TableSound, Refitted DEF HotelRead
<1>3. ASSUME ExtendSave(p) PROVE SubsInv'
  <2>1. RequestsOK'
    BY <1>3, IdleTyped, QuietRequest DEF ExtendSave, Finish
  <2>2. sub' \in [Subs -> SubRow] /\ \A s \in Subs : TrialRow(sub'[s])
    BY <1>3, RequestFields, TableSound DEF ExtendSave
  <2>. QED BY <1>3, <2>1, <2>2, TableSound, Refitted DEF ExtendSave
<1>4. ASSUME HotelSave(p) PROVE SubsInv'
  <2>1. RequestsOK'
    BY <1>4, IdleTyped, QuietRequest DEF HotelSave, Finish
  <2>. QED BY <1>4, <2>1, RequestFields, TableSound, Refitted DEF HotelSave
<1>5. ASSUME Fail(p) PROVE SubsInv'
  <2>1. RequestsOK'
    BY <1>5, IdleTyped, QuietRequest DEF Fail, Finish
  <2>2. faults' \in 0..MaxFaults
    BY <1>5, TableSound, SubscriptionsAssumption DEF Fail, SubscriptionsAssumption
  <2>. QED BY <1>5, <2>1, <2>2, TableSound, Refitted DEF Fail
<1>. QED BY <1>1, <1>2, <1>3, <1>4, <1>5

LEMMA JobStep ==
  ASSUME SubsInv, JobRead \/ JobSave \/ JobFail \/ Tick
  PROVE  SubsInv'
<1>1. RequestsOK'
  BY Countable' = Countable, Taken' = Taken
     DEF JobRead, JobSave, JobFail, Tick, SubsInv, TypeOK, SnapshotsSound, RequestsOK,
         LockHeld, SeatsInv, Countable, Taken
<1>2. CASE JobRead
  <2>1. ASSUME NEW b \in batch' PROVE b \in Subs \X SubRow /\ TrialRow(b[2])
    <3>1. PICK s \in Subs : Overdue(sub[s]) /\ b = <<s, [sub[s] EXCEPT !.status = "expired"]>>
      BY <1>2, <2>1 DEF JobRead
    <3>2. /\ [sub[s] EXCEPT !.status = "expired"] \in SubRow
          /\ TrialRow([sub[s] EXCEPT !.status = "expired"])
      BY <3>1, TableSound DEF Overdue, SubRow, TrialRow
    <3>. QED BY <3>1, <3>2
  <2>. QED BY <1>1, <1>2, <2>1, TableSound, Refitted DEF JobRead
<1>3. CASE JobSave
  <2>1. PICK b \in batch : sub' = [sub EXCEPT ![b[1]] = b[2]] /\ batch' = batch \ {b}
    BY <1>3 DEF JobSave
  <2>2. sub' \in [Subs -> SubRow] /\ \A s \in Subs : TrialRow(sub'[s])
    BY <2>1, TableSound
  <2>. QED BY <1>1, <1>3, <2>1, <2>2, TableSound, Refitted DEF JobSave
<1>4. CASE JobFail
  <2>1. faults' \in 0..MaxFaults
    BY <1>4, TableSound, SubscriptionsAssumption DEF JobFail, SubscriptionsAssumption
  <2>. QED BY <1>1, <1>4, <2>1, TableSound, Refitted DEF JobFail
<1>5. CASE Tick
  <2>1. day' \in 0..MaxDay
    BY <1>5, TableSound, SubscriptionsAssumption DEF Tick, SubscriptionsAssumption
  <2>. QED BY <1>1, <1>5, <2>1, TableSound, Refitted DEF Tick
<1>. QED BY <1>2, <1>3, <1>4, <1>5

----------------------------------------------------------------------------
(* Under the lock. *)
LEMMA SeatsHad ==
  ASSUME NEW set \in SUBSET Rooms, NEW to, Applies(set, to), ~NeedsSeats(set, to), Counts(to)
  PROVE  set \subseteq Countable
<1>1. PICK r \in Rooms : r \in set /\ r \in Countable
  BY DEF NeedsSeats
<1>2. room[r] # "none"
  BY <1>1 DEF Countable, Counts
<1>3. PICK x \in Rooms : set = {x}
  BY <1>1, <1>2 DEF Applies
<1>. QED BY <1>1, <1>3

LEMMA LockStep ==
  ASSUME SubsInv, NEW p \in Admins,
         \/ \E set \in SUBSET Rooms, to \in RoomStatuses : RoomsLock(p, set, to)
         \/ RoomsCheck(p)
  PROVE  SubsInv'
<1>. SUFFICES RequestsOK' /\ UNCHANGED <<sub, room, hotel, batch, day, faults, crowd>>
  BY TableSound, Refitted
<1>0. Countable' = Countable /\ Taken' = Taken
  BY DEF RoomsLock, RoomsCheck, Countable, Taken
<1>1. ASSUME NEW set \in SUBSET Rooms, NEW to \in RoomStatuses, RoomsLock(p, set, to) PROVE RequestsOK'
  <2> DEFINE q == [IdleReq EXCEPT !.pc = IF NeedsSeats(set, to) THEN "limit" ELSE "rooms",
                                  !.set = set, !.to = to]
  <2>1. /\ q \in Request /\ TrialRow(q.row) /\ q.set = set /\ q.to = to
        /\ q.pc \in {"limit", "rooms"} /\ (q.pc = "limit" <=> NeedsSeats(set, to))
    BY IdleTyped DEF Request
  <2>2. req' = [req EXCEPT ![p] = q]
    BY <1>1 DEF RoomsLock, Go
  <2> HIDE DEF q
  <2>3. /\ req' \in [Admins -> Request] /\ lock' \in Admins \cup {None}
        /\ \A o \in Admins : TrialRow(req'[o].row)
    BY <1>1, <2>1, <2>2 DEF RoomsLock, SubsInv, TypeOK, SnapshotsSound
  <2>4. \A o \in Admins : o # p => req'[o] = req[o] /\ req[o].pc \notin {"limit", "rooms"}
    <3>1. lock = None /\ None \notin Admins
      BY <1>1, SubscriptionsAssumption DEF RoomsLock, SubscriptionsAssumption, Procs
    <3>. QED BY <2>2, <3>1 DEF SubsInv, TypeOK, LockHeld
  <2>5. LockHeld'
    BY <1>1, <2>4 DEF LockHeld, RoomsLock
  <2>6. SeatsInv'
    <3>1. req'[p] = q
      BY <2>2 DEF SubsInv, TypeOK
    <3>2. q.pc = "limit" => Counts(to)
      BY <2>1 DEF NeedsSeats
    <3>3. q.pc = "rooms" /\ Counts(to) => set \subseteq Countable
      BY <1>1, <2>1, SeatsHad DEF RoomsLock
    <3>. QED BY <1>0, <2>1, <2>4, <3>1, <3>2, <3>3 DEF SeatsInv
  <2>. QED BY <2>3, <2>5, <2>6 DEF RequestsOK
<1>2. ASSUME RoomsCheck(p) PROVE RequestsOK'
  <2>1. PICK limit \in RoomsLimit :
          IF SeatsFit(p, limit)
          THEN Go(p, [req[p] EXCEPT !.pc = "rooms", !.limit = limit]) /\ UNCHANGED lock
          ELSE Finish(p) /\ Release(p)
    BY <1>2 DEF RoomsCheck
  <2>2. CASE ~SeatsFit(p, limit)
    BY <1>2, <2>1, <2>2, IdleTyped, QuietRequest DEF Finish, RoomsCheck
  <2>3. CASE SeatsFit(p, limit)
    <3> DEFINE q == [req[p] EXCEPT !.pc = "rooms", !.limit = limit]
    <3>1. limit \in Nat
      <4>1. Cardinality(Rooms) \in Nat
        BY RoomsCounted, Rooms \in SUBSET Rooms
      <4>2. \A s \in Open : sub[s].plan \in Nat
        BY TableSound, SubscriptionsAssumption DEF Open, SubRow, SubscriptionsAssumption
      <4>. QED BY <2>1, <4>1, <4>2 DEF RoomsLimit
    <3>2. /\ q \in Request /\ TrialRow(q.row) /\ q.set = req[p].set /\ q.to = req[p].to
          /\ q.pc = "rooms" /\ q.limit = limit
      BY <3>1, RequestFields DEF Request
    <3>3. req' = [req EXCEPT ![p] = q] /\ lock' = lock
      BY <2>1, <2>3 DEF Go
    <3> HIDE DEF q
    <3>4. /\ req' \in [Admins -> Request] /\ lock' \in Admins \cup {None}
          /\ \A o \in Admins : TrialRow(req'[o].row)
      BY <3>2, <3>3 DEF SubsInv, TypeOK, SnapshotsSound
    <3>5. req'[p] = q /\ \A o \in Admins : o # p => req'[o] = req[o]
      BY <3>3 DEF SubsInv, TypeOK
    <3>6. LockHeld'
      BY <1>2, <3>3, <3>5 DEF LockHeld, SubsInv, RoomsCheck
    <3>7. SeatsInv'
      BY <1>0, <2>3, <3>2, <3>5 DEF SeatsInv, SubsInv, SeatsFit, Taken
    <3>. QED BY <3>4, <3>6, <3>7 DEF RequestsOK
  <2>. QED BY <2>2, <2>3
<1>. QED BY <1>1, <1>2 DEF RoomsLock, RoomsCheck

LEMMA SavedRooms ==
  ASSUME SubsInv, NEW p \in Admins, RoomsSave(p)
  PROVE  /\ Countable' \in SUBSET Rooms
         /\ ~Counts(req[p].to) \/ req[p].set \subseteq Countable => Countable' \subseteq Countable
         /\ Countable' \subseteq Countable \cup req[p].set
BY RequestFields DEF RoomsSave, Countable

LEMMA SavedTaken ==
  ASSUME SubsInv, NEW p \in Admins, RoomsSave(p)
  PROVE  /\ Taken' \in Nat /\ Cardinality(req[p].set) \in Nat
         /\ ~Counts(req[p].to) \/ req[p].set \subseteq Countable => Taken' <= Taken
         /\ Taken' <= Taken + Cardinality(req[p].set)
<1> DEFINE C == Countable \cup req[p].set
<1>1. Countable \in SUBSET Rooms /\ req[p].set \in SUBSET Rooms /\ C \in SUBSET Rooms
  BY TakenTyped, RequestFields
<1>2. Cardinality(C) <= Taken + Cardinality(req[p].set)
  BY <1>1, AddedRooms DEF Taken
<1>3. Taken' <= Cardinality(C)
  BY <1>1, SavedRooms, RoomsCounted, FS_Subset DEF Taken
<1>4. /\ Cardinality(C) \in Nat /\ Taken \in Nat /\ Cardinality(req[p].set) \in Nat /\ Taken' \in Nat
  BY <1>1, RoomsCounted, SavedRooms, TakenTyped DEF Taken
<1>5. Countable' \subseteq Countable => Taken' <= Taken
  BY <1>1, RoomsCounted, FS_Subset DEF Taken
<1> HIDE DEF C
<1>. QED BY <1>2, <1>3, <1>4, <1>5, SavedRooms

LEMMA SaveStep ==
  ASSUME SubsInv, NEW p \in Admins, RoomsSave(p)
  PROVE  SubsInv'
<1>1. room' \in [Rooms -> RoomStatuses]
  BY RequestFields, TableSound DEF RoomsSave
<1>2. hotel' \in Hotel
  <2>1. Cardinality(Countable') \in 0..Cardinality(Rooms)
    BY SavedRooms, RoomsCounted, Rooms \in SUBSET Rooms
  <2>2. hotel' = [hotel EXCEPT !.rooms = Cardinality(Countable')]
    BY DEF RoomsSave
  <2>. HIDE DEF Countable
  <2>. QED BY <2>1, <2>2, TableSound DEF Hotel
<1>3. \A o \in Admins : o # p => req[o].pc \notin {"limit", "rooms"}
  BY DEF SubsInv, LockHeld, RoomsSave
<1>4. req'[p] = IdleReq /\ \A o \in Admins : o # p => req'[o] = req[o]
  BY DEF RoomsSave, Finish, Go, SubsInv, TypeOK
<1>5. RequestsOK'
  <2>1. /\ req' \in [Admins -> Request] /\ lock' \in Admins \cup {None}
        /\ \A o \in Admins : TrialRow(req'[o].row)
    BY IdleTyped DEF RoomsSave, Finish, Go, Release, SubsInv, TypeOK, SnapshotsSound
  <2>2. \A o \in Admins : req'[o].pc \notin {"limit", "rooms"}
    BY <1>3, <1>4, IdleTyped
  <2>. QED BY <2>1, <2>2 DEF RequestsOK, LockHeld, SeatsInv
<1>. QED BY <1>1, <1>2, <1>5, TableSound, Refitted DEF RoomsSave

LEMMA SubsInit == Init => SubsInv
<1>. SUFFICES ASSUME Init PROVE SubsInv
  OBVIOUS
<1>1. day \in 0..MaxDay /\ faults \in 0..MaxFaults /\ crowd \in Crowds
  BY SubscriptionsAssumption DEF Init, SubscriptionsAssumption
<1>2. sub \in [Subs -> SubRow] /\ \A s \in Subs : TrialRow(sub[s])
  <2>1. PICK n \in Plans : sub = [s \in Subs |-> IF s = 1 THEN NewSub(n, FALSE) ELSE NoSub]
    BY DEF Init
  <2>. QED BY <1>1, <2>1, NewRow, EmptyRow
<1>3. hotel \in Hotel /\ room \in [Rooms -> RoomStatuses]
  BY RoomsCounted, Rooms \in SUBSET Rooms DEF Init, Hotel, RoomStatuses
<1>4. req \in [Admins -> Request] /\ \A p \in Admins : TrialRow(req[p].row) /\ req[p].pc = "idle"
  BY IdleTyped DEF Init
<1>. QED BY <1>1, <1>2, <1>3, <1>4
         DEF Init, SubsInv, TypeOK, SnapshotsSound, LockHeld, SeatsInv, TrialRow

LEMMA SubsStep == SubsInv /\ [Next]_vars => SubsInv'
<1>. SUFFICES ASSUME SubsInv, [Next]_vars PROVE SubsInv'
  OBVIOUS
<1>1. CASE UNCHANGED vars
  BY <1>1, Countable' = Countable, Taken' = Taken
     DEF vars, SubsInv, TypeOK, SnapshotsSound, LockHeld, SeatsInv, TrialRow, Countable, Taken
<1>2. ASSUME NEW p \in Admins, Begin(p) PROVE SubsInv'
  BY <1>2, ChangeStep, EditStep, LockStep DEF Begin
<1>3. ASSUME NEW p \in Admins, Continue(p) PROVE SubsInv'
  BY <1>3, ChangeStep, EditStep, LockStep, SaveStep DEF Continue
<1>4. ASSUME NEW p \in Admins, Fail(p) PROVE SubsInv'
  BY <1>4, EditStep
<1>5. CASE JobRead \/ JobSave \/ JobFail \/ Tick
  BY <1>5, JobStep
<1>. QED BY <1>1, <1>2, <1>3, <1>4, <1>5 DEF Next

LEMMA SubsInvHolds == Spec => []SubsInv
BY SubsInit, SubsStep, PTL DEF Spec

----------------------------------------------------------------------------
(* The rooms that count grow in a save only, and up to the limit that the  *)
(* saving request looked up, however many requests race for the last seat: *)
(* TenantRoomsService locks the hotel row before it counts.                *)
LEMMA SeatsStep ==
  ASSUME SubsInv, [Next]_vars, Cardinality(Countable') > Cardinality(Countable)
  PROVE  \E p \in Admins : /\ req[p].pc = "rooms" /\ req'[p] # req[p]
                           /\ Cardinality(Countable') <= req[p].limit
<1>1. PICK p \in Admins : RoomsSave(p)
  <2> SUFFICES ASSUME \A o \in Admins : ~RoomsSave(o) PROVE room' = room
    BY TakenTyped, room' = room => Countable' = Countable DEF Countable, Taken
  <2>. QED BY DEF Next, vars, Begin, Continue, Fail, ChangeStart, ChangeTrial, ChangeRead,
                  ChangeClose, ChangeInsert, ExtendRead, ExtendSave, HotelRead, HotelSave,
                  RoomsLock, RoomsCheck, JobRead, JobSave, JobFail, Tick
<1>2. req[p].pc = "rooms" /\ req'[p] # req[p]
  BY <1>1, IdleTyped DEF RoomsSave, Finish, Go, SubsInv, TypeOK
<1>3. Taken' > Taken /\ Taken \in Nat /\ Taken' \in Nat
  BY <1>1, SavedTaken, TakenTyped DEF Taken
<1>4. Taken + Cardinality(req[p].set) <= req[p].limit
  BY <1>1, <1>2, <1>3, SavedTaken DEF SubsInv, SeatsInv
<1>5. Taken' <= req[p].limit
  BY <1>1, <1>3, <1>4, SavedTaken, RequestFields
<1>. QED BY <1>2, <1>5 DEF Taken

(* Every state of the plans, rooms and requests of a hotel is typed, and a *)
(* subscription has a trial end if and only if it began as a trial.        *)
THEOREM TypeCorrect == Spec => []TypeOK
<1>1. SubsInv => TypeOK
  BY DEF SubsInv
<1>. QED BY <1>1, SubsInvHolds, PTL

(* Rooms are added up to the limit of the plan that was current when the   *)
(* request looked it up, however many requests race for the last seat.     *)
THEOREM SeatsKept == Spec => SeatsWithinLimit
<1>1. SubsInv /\ [Next]_vars =>
        [Cardinality(Countable') > Cardinality(Countable) =>
           \E p \in Admins : /\ req[p].pc = "rooms" /\ req'[p] # req[p]
                             /\ Cardinality(Countable') <= req[p].limit]_vars
  BY SeatsStep
<1>. QED BY <1>1, SubsInvHolds, PTL DEF Spec, SeatsWithinLimit

----------------------------------------------------------------------------
(* Alone. *)
LEMMA AloneOne ==
  ASSUME AloneInv, Alone, NEW p \in Procs, Begins(p)
  PROVE  (\A o \in Admins : req[o].pc = "idle") /\ batch = {}
<1>1. IsFiniteSet(Procs)
  BY FS_AddElement, SubscriptionsAssumption DEF Procs, SubscriptionsAssumption, FS_Union, FS_Singleton
<1>2. IsFiniteSet({q \in Procs : ~Idle(q)}) /\ Cardinality({q \in Procs : ~Idle(q)}) \in Nat
  BY <1>1, FS_Subset, FS_CardinalityType
<1>3. Cardinality({q \in Procs : ~Idle(q)}) = 0
  BY <1>2 DEF Begins, Alone
<1>4. {q \in Procs : ~Idle(q)} = {}
  BY <1>2, <1>3, FS_EmptySet
<1>5. \A q \in Procs : Idle(q)
  BY <1>4
<1>. QED BY <1>5, SubscriptionsAssumption DEF Idle, Procs, SubscriptionsAssumption

LEMMA AloneBusy ==
  ASSUME AloneInv, Alone, NEW p \in Admins, req[p].pc # "idle"
  PROVE  /\ \A o \in Admins : o # p => req[o].pc = "idle"
         /\ batch = {} /\ ChangeOK(req[p]) /\ OthersOK(req[p])
         /\ req[p].pc # "insert" => Open # {}
<1>1. p \in Busy /\ p # Job
  BY SubscriptionsAssumption DEF Busy, Idle, Procs, SubscriptionsAssumption
<1>2. \A o \in Admins : o # p => req[o].pc = "idle"
  BY <1>1, SubscriptionsAssumption DEF AloneInv, SerialInv, Busy, Idle, Procs, SubscriptionsAssumption
<1>3. batch = {}
  BY <1>1 DEF AloneInv, SerialInv, Busy, Idle, Procs
<1>. QED BY <1>2, <1>3 DEF AloneInv, SerialInv, OnePlan

(* What is left to show of a step of one request. *)
LEMMA OneMoves ==
  ASSUME AloneInv, Alone, NEW p \in Admins, NEW q \in Request, Go(p, q), batch = {}, batch' = {},
         \A o \in Admins : o # p => req[o].pc = "idle",
         ChangeOK(q)', OthersOK(q)',
         (\A s, t \in Open : s = t)', Open' = {} => q.pc = "insert", (\A s \in Open : Fits(sub[s]))',
         (hotel.rooms = Taken)', (\A s, t \in Free : s = t)'
  PROVE  SerialInv'
<1>1. req'[p] = q /\ \A o \in Admins : o # p => req'[o] = req[o] /\ req'[o].pc = "idle"
  BY DEF Go, AloneInv, SubsInv, TypeOK
<1>2. (\A o, r \in Busy : o = r)'
  BY <1>1, SubscriptionsAssumption DEF Busy, Idle, Procs, SubscriptionsAssumption
<1>3. (\A o \in Admins : ChangeOK(req[o]) /\ OthersOK(req[o]))'
  <2> SUFFICES ASSUME NEW o \in Admins PROVE (ChangeOK(req[o]) /\ OthersOK(req[o]))'
    OBVIOUS
  <2>1. CASE o = p
    BY <1>1, <2>1 DEF ChangeOK, OthersOK
  <2>2. CASE o # p
    BY <1>1, <2>2 DEF ChangeOK, OthersOK
  <2>. QED BY <2>1, <2>2
<1>4. BatchOK' /\ OnePlan'
  BY <1>1 DEF BatchOK, OnePlan
<1>. QED BY <1>2, <1>3, <1>4 DEF SerialInv

LEMMA OneReads ==
  ASSUME AloneInv, Alone, NEW p \in Admins, NEW q \in Request, Go(p, q), batch = {},
         UNCHANGED <<sub, room, hotel, batch>>, \A o \in Admins : o # p => req[o].pc = "idle",
         ChangeOK(q), OthersOK(q), Open = {} => q.pc = "insert"
  PROVE  SerialInv'
<1>1. /\ Open' = Open /\ Unused' = Unused /\ PriorTrials' = PriorTrials /\ Free' = Free
      /\ Countable' = Countable /\ Taken' = Taken
  BY DEF Open, Unused, PriorTrials, Free, Countable, Taken
<1>2. ChangeOK(q)'
  BY <1>1 DEF ChangeOK
<1>3. OthersOK(q)'
  BY <1>1 DEF OthersOK
<1>. QED BY <1>1, <1>2, <1>3, OneMoves DEF AloneInv, SerialInv, OnePlan, Fits

LEMMA IdleAlone ==
  ASSUME AloneInv, Alone, NEW p \in Procs, Begins(p)
  PROVE  Open # {} /\ Idle(p)
BY AloneOne DEF AloneInv, SerialInv, OnePlan, Begins

LEMMA ChangeAlone ==
  ASSUME AloneInv, Alone, NEW p \in Admins,
         \/ \E n \in Plans, force \in BOOLEAN : ChangeStart(p, n, force)
         \/ ChangeTrial(p) \/ ChangeRead(p) \/ ChangeClose(p) \/ ChangeInsert(p)
  PROVE  SerialInv'
<1>0. SubsInv /\ SerialInv /\ p \in Procs
  BY DEF AloneInv, Procs
<1>a. ASSUME Finish(p), req[p].pc # "idle", req[p].pc # "insert", UNCHANGED <<sub, room, hotel, batch>>
      PROVE  SerialInv'
  BY <1>a, AloneBusy, IdleTyped, OneReads DEF Finish, ChangeOK, OthersOK
<1>1. ASSUME NEW n \in Plans, NEW force \in BOOLEAN, ChangeStart(p, n, force) PROVE SerialInv'
  <2> DEFINE q == [IdleReq EXCEPT !.pc = "trial", !.plan = n, !.force = force]
  <2>1. q \in Request /\ q.pc = "trial" /\ q.plan = n /\ q.force = force
    BY IdleTyped DEF Request
  <2>2. Go(p, q) /\ UNCHANGED <<sub, room, hotel, batch>> /\ Begins(p)
    BY <1>1 DEF ChangeStart
  <2> HIDE DEF q
  <2>3. Unused # {}
    <3>1. IsFiniteSet(Changing) /\ Cardinality(Changing) \in Nat
      BY FS_Subset, FS_CardinalityType, SubscriptionsAssumption DEF Changing, SubscriptionsAssumption
    <3>2. Cardinality(Changing) < Cardinality(Unused)
      BY <1>1 DEF ChangeStart
    <3>. QED BY <3>1, <3>2, FS_EmptySet
  <2>4. force \/ Taken <= n
    BY <1>0, <1>1 DEF ChangeStart, SerialInv
  <2>5. ChangeOK(q) /\ OthersOK(q)
    BY <2>1, <2>3, <2>4 DEF ChangeOK, OthersOK
  <2>. QED BY <1>0, <2>1, <2>2, <2>5, AloneOne, IdleAlone, OneReads
<1>2. ASSUME ChangeTrial(p) PROVE SerialInv'
  <2> DEFINE q == [req[p] EXCEPT !.pc = "read"]
  <2>1. q \in Request /\ q.pc = "read" /\ q.plan = req[p].plan /\ q.force = req[p].force
    BY <1>0, RequestFields DEF Request
  <2>2. req[p].pc = "trial" /\ UNCHANGED <<sub, room, hotel, batch>>
    BY <1>2 DEF ChangeTrial
  <2>3. CASE req[p].plan \in Trials /\ ~req[p].force /\ PriorTrials # {}
    BY <1>2, <1>a, <2>2, <2>3 DEF ChangeTrial
  <2>4. CASE ~(req[p].plan \in Trials /\ ~req[p].force /\ PriorTrials # {})
    <3>1. Go(p, q)
      BY <1>2, <2>4 DEF ChangeTrial
    <3> HIDE DEF q
    <3>2. ChangeOK(q) /\ OthersOK(q)
      BY <2>1, <2>2, <2>4, AloneBusy DEF ChangeOK, OthersOK
    <3>. QED BY <2>1, <2>2, <3>1, <3>2, AloneBusy, OneReads
  <2>. QED BY <2>3, <2>4
<1>3. ASSUME ChangeRead(p) PROVE SerialInv'
  <2>1. req[p].pc = "read" /\ UNCHANGED <<sub, room, hotel, batch>> /\ Open # {}
    BY <1>3, AloneBusy DEF ChangeRead
  <2>2. PICK s \in Open : Go(p, [req[p] EXCEPT !.pc = "close", !.s = s,
                                               !.row = [sub[s] EXCEPT !.open = FALSE]])
    BY <1>3, <2>1 DEF ChangeRead
  <2> DEFINE row == [sub[s] EXCEPT !.open = FALSE]
  <2>3. s \in Subs
    BY DEF Open
  <2>4. /\ row \in SubRow /\ ~row.open /\ row.status = sub[s].status /\ row.plan = sub[s].plan
        /\ row.ends = sub[s].ends /\ row.forced = sub[s].forced
    BY <1>0, <2>3, TableSound DEF SubRow
  <2> HIDE DEF row
  <2> DEFINE q == [req[p] EXCEPT !.pc = "close", !.s = s, !.row = row]
  <2>5. /\ q \in Request /\ q.pc = "close" /\ q.plan = req[p].plan /\ q.force = req[p].force
        /\ q.s = s /\ q.row = row
    BY <1>0, <2>3, <2>4, RequestFields DEF Request
  <2>6. Go(p, q)
    BY <2>2 DEF row
  <2> HIDE DEF q
  <2>7. ChangeOK(q) /\ OthersOK(q)
    BY <2>1, <2>4, <2>5, AloneBusy DEF ChangeOK, OthersOK
  <2>. QED BY <2>1, <2>5, <2>6, <2>7, AloneBusy, OneReads
<1>4. ASSUME ChangeClose(p) PROVE SerialInv'
  <2>0. [req[p] EXCEPT !.pc = "insert"] \in Request
    BY <1>0, RequestFields DEF Request
  <2> PICK q \in Request : q = [req[p] EXCEPT !.pc = "insert"]
    BY <2>0
  <2>1. q.pc = "insert" /\ q.plan = req[p].plan /\ q.force = req[p].force
    BY <1>0, RequestFields DEF Request
  <2>2. req[p].pc = "close" /\ Go(p, q) /\ UNCHANGED <<room, hotel, batch>>
    BY <1>4 DEF ChangeClose
  <2>3. /\ ChangeOK(req[p]) /\ batch = {} /\ batch' = {}
        /\ \A o \in Admins : o # p => req[o].pc = "idle"
    BY <2>2, AloneBusy
  <2>4. /\ req[p].s \in Open /\ ~req[p].row.open
        /\ req[p].row.status = sub[req[p].s].status /\ req[p].row.plan = sub[req[p].s].plan
        /\ req[p].row.ends = sub[req[p].s].ends /\ req[p].row.forced = sub[req[p].s].forced
    BY <2>2, <2>3 DEF ChangeOK
  <2>5. /\ sub'[req[p].s] = req[p].row
        /\ \A s \in Subs : s # req[p].s => sub'[s] = sub[s]
    BY <1>0, <1>4, RequestFields, TableSound DEF ChangeClose
  <2>6. Open' = {}
    BY <1>0, <2>4, <2>5 DEF Open, SerialInv, OnePlan
  <2>7. Unused' = Unused /\ PriorTrials' = PriorTrials /\ Free' = Free
    BY <2>4, <2>5 DEF Unused, PriorTrials, Free
  <2>8. Countable' = Countable /\ Taken' = Taken
    BY <2>2 DEF Countable, Taken
  <2>9. ChangeOK(q)' /\ OthersOK(q)'
    BY <2>1, <2>2, <2>3, <2>6, <2>7, <2>8 DEF ChangeOK, OthersOK
  <2>. QED BY <1>0, <2>1, <2>2, <2>3, <2>6, <2>7, <2>8, <2>9, OneMoves DEF SerialInv
<1>5. ASSUME ChangeInsert(p) PROVE SerialInv'
  <2>1. req[p].pc = "insert" /\ Go(p, IdleReq) /\ UNCHANGED <<room, hotel, batch>>
    BY <1>5 DEF ChangeInsert, Finish
  <2>2. /\ ChangeOK(req[p]) /\ batch = {} /\ batch' = {}
        /\ \A o \in Admins : o # p => req[o].pc = "idle"
    BY <2>1, AloneBusy
  <2>3. /\ Unused # {} /\ (req[p].force \/ Taken <= req[p].plan) /\ Open = {}
        /\ req[p].plan \in Trials /\ ~req[p].force => PriorTrials = {}
    BY <2>1, <2>2 DEF ChangeOK
  <2>4. \E s \in Unused : \A t \in Unused : s <= t
    <3>1. Unused \subseteq Nat
      BY DEF Unused, Subs
    <3>2. PICK s \in Unused : \A t \in Unused : <<t, s>> \notin OpToRel(<, Nat)
      BY <2>3, <3>1, NatLessThanWellFounded, WFMin
    <3>3. \A t \in Unused : ~(t < s)
      BY <3>1, <3>2 DEF OpToRel
    <3>. QED BY <3>1, <3>3
  <2> DEFINE s == CHOOSE s \in Unused : \A t \in Unused : s <= t
             new == NewSub(req[p].plan, req[p].force)
  <2>5. s \in Unused
    BY <2>4
  <2>6. sub' = [sub EXCEPT ![s] = new]
    BY <1>5 DEF ChangeInsert
  <2>7. /\ new.open /\ new.status # "none" /\ new.plan = req[p].plan /\ new.forced = req[p].force
        /\ new.ends # 0 => req[p].plan \in Trials
    BY DEF NewSub
  <2> HIDE DEF s, new
  <2>8. s \in Subs /\ sub'[s] = new /\ \A t \in Subs : t # s => sub'[t] = sub[t]
    BY <1>0, <2>5, <2>6, TableSound DEF Unused
  <2>9. Open' = {s}
    BY <2>3, <2>7, <2>8 DEF Open
  <2>10. (\A t, u \in Free : t = u)'
    <3>1. CASE req[p].force
      BY <1>0, <2>7, <2>8, <3>1 DEF Free, SerialInv
    <3>2. CASE ~req[p].force /\ new.ends = 0
      BY <1>0, <2>7, <2>8, <3>2 DEF Free, SerialInv
    <3>3. CASE ~req[p].force /\ new.ends # 0
      <4>1. \A t \in Subs : sub[t].ends = 0
        BY <2>3, <2>7, <3>3 DEF PriorTrials
      <4>. QED BY <2>8, <4>1 DEF Free
    <3>. QED BY <3>1, <3>2, <3>3
  <2>11. Countable' = Countable /\ Taken' = Taken
    BY <2>1 DEF Countable, Taken
  <2>12. (\A t \in Open : Fits(sub[t]))'
    BY <2>3, <2>7, <2>8, <2>9, <2>11 DEF Fits
  <2>13. ChangeOK(IdleReq)' /\ OthersOK(IdleReq)'
    BY IdleTyped DEF ChangeOK, OthersOK
  <2>. QED BY <1>0, <2>1, <2>2, <2>9, <2>10, <2>11, <2>12, <2>13, IdleTyped, OneMoves DEF SerialInv
<1>. QED BY <1>1, <1>2, <1>3, <1>4, <1>5

LEMMA EditAlone ==
  ASSUME AloneInv, Alone, NEW p \in Admins,
         \/ \E s \in Subs : ExtendRead(p, s)
         \/ \E suspended \in BOOLEAN : HotelRead(p, suspended)
         \/ ExtendSave(p) \/ HotelSave(p)
  PROVE  SerialInv'
<1>0. SubsInv /\ SerialInv /\ p \in Procs
  BY DEF AloneInv, Procs
<1>1. ASSUME NEW s \in Subs, ExtendRead(p, s) PROVE SerialInv'
  <2> DEFINE row == [sub[s] EXCEPT !.ends = @ + TrialDays]
  <2>1. sub[s].ends \in Nat /\ TrialDays \in Nat /\ sub[s].ends # 0 /\ row.ends = sub[s].ends + TrialDays
        /\ sub[s].ends + TrialDays \in Days
    <3>1. sub[s].ends \in Days /\ sub[s].ends # 0 /\ sub[s].ends + TrialDays \in Days
      BY <1>0, <1>1, TableSound DEF ExtendRead, SubRow, TrialRow
    <3>2. Days \subseteq Nat
      BY SubscriptionsAssumption DEF SubscriptionsAssumption, Days
    <3>. QED BY <1>0, <3>1, <3>2, TableSound, SubscriptionsAssumption DEF SubscriptionsAssumption, SubRow
  <2>2. /\ row \in SubRow /\ row.open = sub[s].open /\ row.status = sub[s].status /\ row.plan = sub[s].plan
        /\ row.forced = sub[s].forced
    BY <1>0, <2>1, TableSound DEF SubRow
  <2>3. row.ends # 0
    BY <2>1
  <2> HIDE DEF row
  <2> DEFINE q == [IdleReq EXCEPT !.pc = "extend", !.s = s, !.row = row]
  <2>4. q \in Request /\ q.pc = "extend" /\ q.s = s /\ q.row = row
    BY <2>2, IdleTyped DEF Request
  <2>5. Go(p, q) /\ UNCHANGED <<sub, room, hotel, batch>> /\ Begins(p)
    BY <1>1 DEF ExtendRead, row
  <2> HIDE DEF q
  <2>6. ChangeOK(q) /\ OthersOK(q)
    BY <2>1, <2>2, <2>3, <2>4 DEF ChangeOK, OthersOK
  <2>. QED BY <1>0, <2>4, <2>5, <2>6, AloneOne, IdleAlone, OneReads
<1>2. ASSUME NEW suspended \in BOOLEAN, HotelRead(p, suspended) PROVE SerialInv'
  <2> DEFINE row == [hotel EXCEPT !.suspended = suspended]
  <2>1. row \in Hotel /\ row.rooms = Taken
    BY <1>0, TableSound DEF Hotel, SerialInv
  <2> HIDE DEF row
  <2> DEFINE q == [IdleReq EXCEPT !.pc = "hotel", !.hotel = row]
  <2>2. q \in Request /\ q.pc = "hotel" /\ q.hotel = row
    BY <2>1, IdleTyped DEF Request
  <2>3. Go(p, q) /\ UNCHANGED <<sub, room, hotel, batch>> /\ Begins(p)
    BY <1>2 DEF HotelRead, row
  <2> HIDE DEF q
  <2>4. ChangeOK(q) /\ OthersOK(q)
    BY <2>1, <2>2 DEF ChangeOK, OthersOK
  <2>. QED BY <1>0, <2>2, <2>3, <2>4, AloneOne, IdleAlone, OneReads
<1>3. ASSUME ExtendSave(p) PROVE SerialInv'
  <2>1. req[p].pc = "extend" /\ Go(p, IdleReq) /\ UNCHANGED <<room, hotel, batch>>
    BY <1>3 DEF ExtendSave, Finish
  <2>2. /\ OthersOK(req[p]) /\ batch = {} /\ batch' = {} /\ Open # {}
        /\ \A o \in Admins : o # p => req[o].pc = "idle"
    BY <2>1, AloneBusy
  <2>3. /\ sub[req[p].s].ends # 0 /\ req[p].row.ends # 0
        /\ req[p].row.open = sub[req[p].s].open /\ req[p].row.status = sub[req[p].s].status
        /\ req[p].row.plan = sub[req[p].s].plan /\ req[p].row.forced = sub[req[p].s].forced
    BY <2>1, <2>2 DEF OthersOK
  <2>4. /\ req[p].s \in Subs /\ sub'[req[p].s] = req[p].row
        /\ \A s \in Subs : s # req[p].s => sub'[s] = sub[s]
    BY <1>0, <1>3, RequestFields, TableSound DEF ExtendSave
  <2>5. Open' = Open /\ Free' = Free
    BY <2>3, <2>4 DEF Open, Free
  <2>6. Countable' = Countable /\ Taken' = Taken
    BY <2>1 DEF Countable, Taken
  <2>7. (\A s \in Open : Fits(sub[s]))'
    BY <1>0, <2>3, <2>4, <2>5, <2>6 DEF Fits, SerialInv, OnePlan, Open
  <2>8. ChangeOK(IdleReq)' /\ OthersOK(IdleReq)'
    BY IdleTyped DEF ChangeOK, OthersOK
  <2>. QED BY <1>0, <2>1, <2>2, <2>5, <2>6, <2>7, <2>8, IdleTyped, OneMoves DEF SerialInv, OnePlan
<1>4. ASSUME HotelSave(p) PROVE SerialInv'
  <2>1. req[p].pc = "hotel" /\ Go(p, IdleReq) /\ UNCHANGED <<sub, room, batch>> /\ hotel' = req[p].hotel
    BY <1>4 DEF HotelSave, Finish
  <2>2. /\ OthersOK(req[p]) /\ batch = {} /\ batch' = {} /\ Open # {}
        /\ \A o \in Admins : o # p => req[o].pc = "idle"
    BY <2>1, AloneBusy
  <2>3. Open' = Open /\ Free' = Free /\ Countable' = Countable /\ Taken' = Taken
    BY <2>1 DEF Open, Free, Countable, Taken
  <2>4. hotel'.rooms = Taken'
    BY <2>1, <2>2, <2>3 DEF OthersOK
  <2>5. ChangeOK(IdleReq)' /\ OthersOK(IdleReq)'
    BY IdleTyped DEF ChangeOK, OthersOK
  <2>. QED BY <1>0, <2>1, <2>2, <2>3, <2>4, <2>5, IdleTyped, OneMoves DEF SerialInv, OnePlan, Fits
<1>. QED BY <1>1, <1>2, <1>3, <1>4

LEMMA RoomsAlone ==
  ASSUME AloneInv, Alone, NEW p \in Admins,
         \/ \E set \in SUBSET Rooms, to \in RoomStatuses : RoomsLock(p, set, to)
         \/ RoomsCheck(p) \/ RoomsSave(p)
  PROVE  SerialInv'
<1>0. SubsInv /\ SerialInv /\ p \in Procs
  BY DEF AloneInv, Procs
<1>1. ASSUME NEW set \in SUBSET Rooms, NEW to \in RoomStatuses, RoomsLock(p, set, to) PROVE SerialInv'
  <2> DEFINE q == [IdleReq EXCEPT !.pc = IF NeedsSeats(set, to) THEN "limit" ELSE "rooms",
                                  !.set = set, !.to = to]
  <2>1. /\ q \in Request /\ q.set = set /\ q.to = to
        /\ q.pc \in {"limit", "rooms"} /\ (q.pc = "limit" <=> NeedsSeats(set, to))
    BY IdleTyped DEF Request
  <2>2. Go(p, q) /\ UNCHANGED <<sub, room, hotel, batch>> /\ Begins(p)
    BY <1>1 DEF RoomsLock
  <2> HIDE DEF q
  <2>3. q.pc = "rooms" /\ Counts(to) => set \subseteq Countable
    BY <1>1, <2>1, SeatsHad DEF RoomsLock
  <2>4. ChangeOK(q) /\ OthersOK(q)
    BY <2>1, <2>3 DEF ChangeOK, OthersOK
  <2>. QED BY <1>0, <2>1, <2>2, <2>4, AloneOne, IdleAlone, OneReads
<1>2. ASSUME RoomsCheck(p) PROVE SerialInv'
  <2>1. req[p].pc = "limit" /\ UNCHANGED <<sub, room, hotel, batch>>
    BY <1>2 DEF RoomsCheck
  <2>2. Open # {}
    BY <2>1, AloneBusy
  <2>3. PICK limit \in RoomsLimit :
          IF SeatsFit(p, limit)
          THEN Go(p, [req[p] EXCEPT !.pc = "rooms", !.limit = limit]) /\ UNCHANGED lock
          ELSE Finish(p) /\ Release(p)
    BY <1>2 DEF RoomsCheck
  <2>4. \A s \in Open : sub[s].plan = limit
    BY <1>0, <2>2, <2>3 DEF RoomsLimit, SerialInv, OnePlan
  <2>5. CASE ~SeatsFit(p, limit)
    BY <2>1, <2>2, <2>3, <2>5, AloneBusy, IdleTyped, OneReads DEF Finish, ChangeOK, OthersOK
  <2>6. CASE SeatsFit(p, limit)
    <3> DEFINE q == [req[p] EXCEPT !.pc = "rooms", !.limit = limit]
    <3>1. limit \in Nat
      BY <1>0, <2>2, <2>4, TableSound, SubscriptionsAssumption
         DEF Open, SubRow, SubscriptionsAssumption
    <3>2. q \in Request /\ q.pc = "rooms" /\ q.set = req[p].set
      BY <1>0, <3>1, RequestFields DEF Request
    <3>3. Go(p, q)
      BY <2>3, <2>6
    <3> HIDE DEF q
    <3>4. ChangeOK(q) /\ OthersOK(q)
      BY <2>4, <2>6, <3>2 DEF ChangeOK, OthersOK, SeatsFit, Taken
    <3>. QED BY <2>1, <2>2, <3>2, <3>3, <3>4, AloneBusy, OneReads
  <2>. QED BY <2>5, <2>6
<1>3. ASSUME RoomsSave(p) PROVE SerialInv'
  <2>1. req[p].pc = "rooms" /\ Go(p, IdleReq) /\ UNCHANGED <<sub, batch>>
    BY <1>3 DEF RoomsSave, Finish
  <2>2. /\ OthersOK(req[p]) /\ batch = {} /\ batch' = {} /\ Open # {}
        /\ \A o \in Admins : o # p => req[o].pc = "idle"
    BY <2>1, AloneBusy
  <2>3. Open' = Open /\ Free' = Free
    BY <2>1 DEF Open, Free
  <2>4. hotel'.rooms = Taken'
    <3>1. hotel' = [hotel EXCEPT !.rooms = Taken']
      BY <1>3 DEF RoomsSave, Taken
    <3>. QED BY <1>0, <3>1, TableSound DEF Hotel
  <2>5. (\A s \in Open : Fits(sub[s]))'
    <3> SUFFICES ASSUME NEW s \in Open, ~sub[s].forced PROVE Taken' <= sub[s].plan
      BY <2>1, <2>3 DEF Fits
    <3>1. Taken <= sub[s].plan /\ sub[s].plan \in Nat
      BY <1>0, TableSound, SubscriptionsAssumption
         DEF SerialInv, OnePlan, Fits, Open, SubRow, SubscriptionsAssumption
    <3>2. CASE ~Counts(req[p].to) \/ req[p].set \subseteq Countable
      BY <1>0, <1>3, <3>1, <3>2, SavedTaken, TakenTyped
    <3>3. CASE Taken + Cardinality(req[p].set) <= sub[s].plan
      BY <1>0, <1>3, <3>1, <3>3, SavedTaken, TakenTyped
    <3>. QED BY <2>1, <2>2, <3>2, <3>3 DEF OthersOK
  <2>6. ChangeOK(IdleReq)' /\ OthersOK(IdleReq)'
    BY IdleTyped DEF ChangeOK, OthersOK
  <2>. QED BY <1>0, <2>1, <2>2, <2>3, <2>4, <2>5, <2>6, IdleTyped, OneMoves DEF SerialInv, OnePlan
<1>. QED BY <1>1, <1>2, <1>3

LEMMA JobAlone ==
  ASSUME AloneInv, Alone, JobRead \/ JobSave \/ Tick
  PROVE  SerialInv'
<1>0. SubsInv /\ SerialInv /\ Job \in Procs
  BY DEF AloneInv, Procs
<1>1. Countable' = Countable /\ Taken' = Taken /\ UNCHANGED <<req, hotel>>
  BY DEF JobRead, JobSave, Tick, Countable, Taken
<1>2. CASE Tick
  <2>1. /\ Open' = Open /\ Unused' = Unused /\ PriorTrials' = PriorTrials /\ Free' = Free
        /\ Busy' = Busy /\ UNCHANGED <<sub, batch>>
    BY <1>2 DEF Tick, Open, Unused, PriorTrials, Free, Busy, Idle
  <2>. QED BY <1>0, <1>1, <2>1 DEF SerialInv, ChangeOK, OthersOK, BatchOK, OnePlan, Fits
<1>3. CASE JobRead \/ JobSave
  <2>1. \A o \in Admins : req[o].pc = "idle"
    <3>1. CASE JobRead
      BY <1>0, <3>1, AloneOne DEF JobRead
    <3>2. CASE JobSave
      <4>1. Job \in Busy
        BY <1>0, <3>2 DEF JobSave, Busy, Idle
      <4>. QED BY <1>0, <4>1, SubscriptionsAssumption
               DEF SerialInv, Busy, Idle, Procs, SubscriptionsAssumption
    <3>. QED BY <1>3, <3>1, <3>2
  <2>2. (\A p, q \in Busy : p = q)' /\ (\A p \in Admins : ChangeOK(req[p]) /\ OthersOK(req[p]))'
    BY <1>1, <2>1 DEF Busy, Idle, Procs, ChangeOK, OthersOK
  <2>3. CASE JobRead
    <3>1. /\ Open' = Open /\ Free' = Free /\ sub' = sub
      BY <2>3 DEF JobRead, Open, Free
    <3>2. BatchOK'
      <4> SUFFICES ASSUME NEW b \in batch'
                   PROVE  /\ sub[b[1]].ends # 0 /\ b[2].ends # 0
                          /\ b[2].open = sub[b[1]].open /\ b[2].status # "none" 
                          /\ b[2].plan = sub[b[1]].plan /\ b[2].forced = sub[b[1]].forced
        BY <3>1 DEF BatchOK
      <4>1. PICK s \in Subs : Overdue(sub[s]) /\ b = <<s, [sub[s] EXCEPT !.status = "expired"]>>
        BY <2>3 DEF JobRead
      <4>2. b[1] = s /\ b[2] = [sub[s] EXCEPT !.status = "expired"] /\ sub[s].ends # 0
        BY <1>0, <4>1, TableSound DEF Overdue, TrialRow
      <4>. QED BY <1>0, <4>2, TableSound DEF SubRow
    <3>. QED BY <1>0, <1>1, <2>2, <3>1, <3>2 DEF SerialInv, OnePlan, Fits
  <2>4. CASE JobSave
    <3>1. PICK b \in batch : sub' = [sub EXCEPT ![b[1]] = b[2]] /\ batch' = batch \ {b}
      BY <2>4 DEF JobSave
    <3>2. /\ sub[b[1]].ends # 0 /\ b[2].ends # 0
          /\ b[2].open = sub[b[1]].open /\ b[2].status # "none" 
          /\ b[2].plan = sub[b[1]].plan /\ b[2].forced = sub[b[1]].forced
      BY <1>0 DEF SerialInv, BatchOK
    <3>3. b[1] \in Subs /\ sub'[b[1]] = b[2] /\ \A s \in Subs : s # b[1] => sub'[s] = sub[s]
      BY <1>0, <3>1, TableSound
    <3>4. Open' = Open /\ Free' = Free
      BY <3>2, <3>3 DEF Open, Free
    <3>5. (\A s \in Open : Fits(sub[s]))'
      BY <1>0, <1>1, <3>2, <3>3, <3>4 DEF Fits, SerialInv, OnePlan, Open
    <3>6. BatchOK'
      <4>1. \A c \in batch : c[1] \in Subs
        BY <1>0, TableSound
      <4>. QED BY <1>0, <3>1, <3>2, <3>3, <4>1 DEF SerialInv, BatchOK
    <3>. QED BY <1>0, <1>1, <2>2, <3>4, <3>5, <3>6 DEF SerialInv, OnePlan
  <2>. QED BY <1>3, <2>3, <2>4
<1>. QED BY <1>2, <1>3

LEMMA AloneInit == Init => AloneInv
<1>. SUFFICES ASSUME Init PROVE AloneInv
  OBVIOUS
<1>1. SubsInv
  BY SubsInit
<1>2. \A p \in Admins : req[p].pc = "idle"
  BY IdleTyped DEF Init
<1>3. (\A p, q \in Busy : p = q) /\ \A p \in Admins : ChangeOK(req[p]) /\ OthersOK(req[p])
  BY <1>2 DEF Init, Busy, Idle, Procs, ChangeOK, OthersOK
<1>4. PICK n \in Plans : sub = [s \in Subs |-> IF s = 1 THEN NewSub(n, FALSE) ELSE NoSub]
  BY DEF Init
<1>5. Countable = {} /\ Taken = 0
  BY FS_EmptySet DEF Init, Countable, Counts, Taken
<1>6. Open = {1} /\ Free \subseteq {1}
  BY <1>4, SubscriptionsAssumption DEF Open, Free, Subs, NewSub, NoSub, SubscriptionsAssumption
<1>7. Fits(sub[1])
  BY <1>4, <1>5, SubscriptionsAssumption DEF Fits, Subs, NewSub, SubscriptionsAssumption
<1>. QED BY <1>1, <1>3, <1>5, <1>6, <1>7 DEF Init, AloneInv, SerialInv, BatchOK, OnePlan

LEMMA AloneStep == AloneInv /\ [Next]_vars => AloneInv'
<1>. SUFFICES ASSUME AloneInv, [Next]_vars PROVE AloneInv'
  OBVIOUS
<1>1. SubsInv'
  BY SubsStep DEF AloneInv
<1>2. ASSUME Alone' PROVE SerialInv'
  <2>1. CASE UNCHANGED vars
    <3>1. /\ Open' = Open /\ Unused' = Unused /\ PriorTrials' = PriorTrials /\ Free' = Free
          /\ Busy' = Busy /\ Countable' = Countable /\ Taken' = Taken /\ Alone
      BY <1>2, <2>1 DEF vars, Open, Unused, PriorTrials, Free, Busy, Idle, Countable, Taken, Alone
    <3>. QED BY <2>1, <3>1 DEF vars, AloneInv, SerialInv, ChangeOK, OthersOK, BatchOK, OnePlan, Fits
  <2>2. ASSUME NEW p \in Admins, Begin(p) PROVE SerialInv'
    <3>1. Alone
      BY <1>2, <2>2 DEF Alone, Begin, ChangeStart, ExtendRead, HotelRead, RoomsLock
    <3>. QED BY <2>2, <3>1, ChangeAlone, EditAlone, RoomsAlone DEF Begin
  <2>3. ASSUME NEW p \in Admins, Continue(p) PROVE SerialInv'
    <3>1. Alone
      BY <1>2, <2>3 DEF Alone, Continue, ChangeTrial, ChangeRead, ChangeClose, ChangeInsert,
                        ExtendSave, HotelSave, RoomsCheck, RoomsSave
    <3>. QED BY <2>3, <3>1, ChangeAlone, EditAlone, RoomsAlone DEF Continue
  <2>4. ~JobFail /\ \A p \in Admins : ~Fail(p)
    <3>1. faults \in 0..MaxFaults /\ faults' = 0
      BY <1>2 DEF AloneInv, SubsInv, TypeOK, Alone
    <3>. QED BY <3>1, SubscriptionsAssumption DEF JobFail, Fail, SubscriptionsAssumption
  <2>5. CASE JobRead \/ JobSave \/ Tick
    <3>1. Alone
      BY <1>2, <2>5 DEF Alone, JobRead, JobSave, Tick
    <3>. QED BY <2>5, <3>1, JobAlone
  <2>. QED BY <2>1, <2>2, <2>3, <2>4, <2>5 DEF Next
<1>. QED BY <1>1, <1>2 DEF AloneInv

LEMMA AloneInvHolds == Spec => []AloneInv
BY AloneInit, AloneStep, PTL DEF Spec

LEMMA AtMostOne ==
  ASSUME NEW S, \A s, t \in S : s = t
  PROVE  Cardinality(S) <= 1
<1>1. CASE S = {}
  BY <1>1, FS_EmptySet
<1>2. ASSUME NEW s \in S PROVE Cardinality(S) <= 1
  <2>1. S = {s}
    OBVIOUS
  <2>2. Cardinality({s}) = 1
    BY FS_Singleton
  <2>. QED BY <2>1, <2>2
<1>. QED BY <1>1, <1>2

LEMMA AlonePlan == AloneInv => AlonePlanHolds
<1>. SUFFICES ASSUME AloneInv, AtRest
              PROVE  /\ \E s \in Subs : Open = {s} /\ (sub[s].forced \/ Taken <= sub[s].plan)
                     /\ hotel.rooms = Taken /\ Cardinality(Free) <= 1
  BY DEF AloneInv, SubsInv, AlonePlanHolds, Taken, Free
<1>1. SerialInv
  BY DEF AtRest, AloneInv, Alone
<1>2. Open # {}
  BY <1>1, SubscriptionsAssumption DEF AtRest, Procs, Idle, SerialInv, OnePlan, SubscriptionsAssumption
<1>3. PICK s \in Open : TRUE
  BY <1>2
<1>4. s \in Subs /\ Open = {s}
  BY <1>1, <1>3 DEF SerialInv, OnePlan, Open
<1>. QED BY <1>1, <1>4, AtMostOne DEF SerialInv, OnePlan, Fits

(* One request at a time and without failures, the hotel has one open      *)
(* subscription between requests, no more rooms than its plan unless the   *)
(* plan was forced on it, a true counter and at most one unforced trial.   *)
THEOREM OnePlanAlone == Spec => []AlonePlanHolds
BY AlonePlan, AloneInvHolds, PTL

----------------------------------------------------------------------------
(* The vendor's catalog (Plans): CatalogInv adds that what a call has      *)
(* judged is still so when it saves, as long as no two calls were ever     *)
(* under way at once.                                                      *)
PlanRow == [status : {"none", "active", "archived"}, name : Names \cup {None},
            trial : BOOLEAN, limit : Nat]
Place == [to : Ids \cup {None}, forced : BOOLEAN]

CallTyped(c) ==
  \/ c = Shop!Idle
  \/ c.pc = "plan" /\ c.key \in Ids /\ c.row \in PlanRow
  \/ c.pc \in {"subscribe", "force"} /\ c.key \in Chain /\ c.to \in Ids

ShopTyped ==
  /\ plan \in [Ids -> PlanRow] /\ built \in [Chain -> Nat] /\ lapped \in BOOLEAN
  /\ onPlan \in [Chain -> Place]
  /\ \A h \in Chain : onPlan[h] = Shop!NoSub \/ onPlan[h].to \in Ids
  /\ DOMAIN call = Vendors /\ call = [p \in Vendors |-> call[p]]
  /\ \A p \in Vendors : CallTyped(call[p])

Distinct ==
  \A i, j \in Ids : plan[i].status # "none" /\ plan[j].status # "none" /\ i # j =>
    /\ plan[i].name # plan[j].name
    /\ ~(plan[i].trial /\ plan[j].trial /\ plan[i].status = "active" /\ plan[j].status = "active")

ServedAt(h) ==
  onPlan[h] # Shop!NoSub =>
    /\ plan[onPlan[h].to].status = "active"
    /\ onPlan[h].forced \/ built[h] <= plan[onPlan[h].to].limit
Served == \A h \in Chain : ServedAt(h)

Apart(i, row) ==
  \A j \in Ids : j # i /\ plan[j].status # "none" =>
    /\ plan[j].name # row.name
    /\ row.trial /\ row.status = "active" => ~(plan[j].trial /\ plan[j].status = "active")

Roomy(i, row) ==
  \A h \in Chain : onPlan[h].to = i =>
    row.status = "active" /\ (onPlan[h].forced \/ built[h] <= row.limit)

RowFits(i, row) == Apart(i, row) /\ Roomy(i, row)

JudgedOK(c) ==
  /\ c.pc = "plan" => RowFits(c.key, c.row)
  /\ c.pc \in {"subscribe", "force"} => plan[c.to].status = "active"
  /\ c.pc = "subscribe" => built[c.key] <= plan[c.to].limit

Orderly ==
  /\ \A p, q \in Vendors : call[p] # Shop!Idle /\ call[q] # Shop!Idle => p = q
  /\ \A p \in Vendors : JudgedOK(call[p])
  /\ Distinct /\ Served

CatalogInv == ShopTyped /\ (lapped \/ Orderly)

LEMMA IdleCall == Shop!Idle.pc = "idle" /\ CallTyped(Shop!Idle) /\ JudgedOK(Shop!Idle)
BY DEF Shop!Idle, CallTyped, JudgedOK

LEMMA ShopBounds == Limits \subseteq Nat /\ None \notin Ids
BY ScenesAssumption DEF Shop!Parameters

LEMMA CallBegins ==
  ASSUME CatalogInv, NEW p \in Vendors, NEW c, Shop!Begin(p, c), CallTyped(c), ~lapped => JudgedOK(c)
  PROVE  CatalogInv'
<1>1. /\ call[p] = Shop!Idle /\ call' = [call EXCEPT ![p] = c] /\ UNCHANGED <<plan, onPlan, built>>
      /\ lapped' = (lapped \/ \E q \in Vendors : call[q] # Shop!Idle)
  BY DEF Shop!Begin, Shop!Note
<1>2. call'[p] = c /\ \A q \in Vendors : q # p => call'[q] = call[q]
  BY <1>1 DEF CatalogInv, ShopTyped
<1>3. ShopTyped'
  <2>1. DOMAIN call' = Vendors /\ call' = [q \in Vendors |-> call'[q]]
    BY <1>1 DEF CatalogInv, ShopTyped
  <2>2. lapped' \in BOOLEAN
    BY <1>1
  <2>3. \A q \in Vendors : CallTyped(call'[q])
    BY <1>2 DEF CatalogInv, ShopTyped
  <2>4. (\A q \in Vendors : CallTyped(call[q]))'
    BY <2>3 DEF CallTyped
  <2>. QED BY <1>1, <2>1, <2>2, <2>4 DEF CatalogInv, ShopTyped
<1>4. ASSUME ~lapped' PROVE Orderly'
  <2>1. ~lapped /\ \A q \in Vendors : call[q] = Shop!Idle
    BY <1>1, <1>4
  <2>2. (\A q, r \in Vendors : call[q] # Shop!Idle /\ call[r] # Shop!Idle => q = r)'
    BY <1>2, <2>1
  <2>3. (\A q \in Vendors : JudgedOK(call[q]))'
    <3> SUFFICES ASSUME NEW q \in Vendors PROVE JudgedOK(call[q])'
      OBVIOUS
    <3>1. JudgedOK(call'[q])
      BY <1>2, <2>1, IdleCall
    <3>. QED BY <1>1, <3>1 DEF JudgedOK, RowFits, Apart, Roomy
  <2>. QED BY <1>1, <2>1, <2>2, <2>3 DEF CatalogInv, Orderly, Distinct, Served, ServedAt
<1>. QED BY <1>3, <1>4 DEF CatalogInv

LEMMA PlanTyped ==
  ASSUME CatalogInv, NEW i \in Ids
  PROVE  /\ plan[i] \in PlanRow /\ plan[i].limit \in Nat
         /\ plan[i].status \in {"none", "active", "archived"}
BY DEF CatalogInv, ShopTyped, PlanRow

LEMMA HotelTyped ==
  ASSUME CatalogInv, NEW h \in Chain
  PROVE  /\ built[h] \in Nat /\ onPlan[h] \in Place
         /\ onPlan[h] # Shop!NoSub => onPlan[h].to \in Ids
         /\ \A i \in Ids : onPlan[h].to = i => onPlan[h] # Shop!NoSub
BY ShopBounds DEF CatalogInv, ShopTyped, Shop!NoSub

LEMMA PlanJudged ==
  ASSUME CatalogInv, NEW p \in Vendors, NEW i \in Ids, NEW row \in PlanRow, Shop!Judged(p, i, row),
         ~lapped => RowFits(i, row)
  PROVE  CatalogInv'
<1>1. PICK c : c = [Shop!Idle EXCEPT !.pc = "plan", !.key = i, !.row = row]
  OBVIOUS
<1>2. c.pc = "plan" /\ c.key = i /\ c.row = row
  BY <1>1 DEF Shop!Idle
<1>3. Shop!Begin(p, c)
  BY <1>1 DEF Shop!Judged
<1>. QED BY <1>2, <1>3, CallBegins DEF CallTyped, JudgedOK

LEMMA Created ==
  ASSUME CatalogInv, NEW p \in Vendors, NEW i \in Ids,
         NEW name \in Names, NEW trial \in BOOLEAN, NEW limit \in Limits,
         Shop!Create(p, i, name, trial, limit)
  PROVE  CatalogInv'
<1>1. PICK row : row = [status |-> "active", name |-> name, trial |-> trial, limit |-> limit]
  OBVIOUS
<1>2. row \in PlanRow /\ row.name = name /\ row.trial = trial
  BY <1>1, ShopBounds DEF PlanRow
<1>3. Shop!Judged(p, i, row)
  BY <1>1 DEF Shop!Create
<1>4. /\ plan[i].status = "none"
      /\ \A j \in Ids : j # i /\ plan[j].status # "none" => plan[j].name # name
      /\ trial => \A j \in Ids : j # i /\ plan[j].trial => plan[j].status # "active"
  BY DEF Shop!Create, Shop!Exists, Shop!NameFree, Shop!SingleActiveTrial
<1>5. ASSUME ~lapped PROVE RowFits(i, row)
  <2>1. ASSUME NEW h \in Chain PROVE onPlan[h].to # i
    BY <1>4, <1>5, HotelTyped DEF CatalogInv, Orderly, Served, ServedAt
  <2>. QED BY <1>2, <1>4, <2>1 DEF RowFits, Apart, Roomy
<1>. QED BY <1>2, <1>3, <1>5, PlanJudged

LEMMA Updated ==
  ASSUME CatalogInv, NEW p \in Vendors, NEW i \in Ids, Shop!Update(p, i)
  PROVE  CatalogInv'
<1>1. PICK row \in Shop!Edits(i) : Shop!Judged(p, i, row)
  BY DEF Shop!Update
<1>2. plan[i].status # "none" /\ plan[i] \in PlanRow /\ plan[i].limit \in Nat
  BY PlanTyped DEF Shop!Update, Shop!Exists
<1>3. /\ row \in PlanRow /\ row.status = plan[i].status
      /\ \/ row.name = plan[i].name
         \/ \A j \in Ids : j # i /\ plan[j].status # "none" => plan[j].name # row.name
      /\ \/ row.limit >= plan[i].limit
         \/ \A h \in Chain : onPlan[h].to = i => built[h] <= row.limit
      /\ row.trial => \/ plan[i].trial \/ plan[i].status # "active"
                      \/ \A j \in Ids : j # i /\ plan[j].trial => plan[j].status # "active"
  <2>1. ASSUME NEW name \in Names, Shop!NameFree(name, i), row = [plan[i] EXCEPT !.name = name]
        PROVE  <1>3!:
    BY <1>2, <2>1 DEF PlanRow, Shop!NameFree, Shop!Exists
  <2>2. ASSUME NEW limit \in Limits, Shop!LimitHolds(i, limit), row = [plan[i] EXCEPT !.limit = limit]
        PROVE  <1>3!:
    <3>1. row \in PlanRow /\ row.limit = limit /\ row.status = plan[i].status
          /\ row.name = plan[i].name /\ row.trial = plan[i].trial
      BY <1>2, <2>2, ShopBounds DEF PlanRow
    <3>2. limit < plan[i].limit => \A h \in Chain : onPlan[h].to = i => built[h] <= limit
      BY <2>2 DEF Shop!LimitHolds, Shop!countCurrentSubscribers
    <3>3. limit \in Nat
      BY ShopBounds
    <3>. QED BY <1>2, <3>1, <3>2, <3>3
  <2>3. CASE row = [plan[i] EXCEPT !.trial = FALSE]
    <3>1. row \in PlanRow /\ row.limit = plan[i].limit /\ row.status = plan[i].status
          /\ row.name = plan[i].name /\ ~row.trial
      BY <1>2, <2>3 DEF PlanRow
    <3>. QED BY <1>2, <3>1
  <2>4. CASE /\ row = [plan[i] EXCEPT !.trial = TRUE]
             /\ plan[i].trial \/ plan[i].status # "active" \/ Shop!SingleActiveTrial(i)
    <3>1. row \in PlanRow /\ row.limit = plan[i].limit /\ row.status = plan[i].status
          /\ row.name = plan[i].name
      BY <1>2, <2>4 DEF PlanRow
    <3>2. \/ plan[i].trial \/ plan[i].status # "active"
          \/ \A j \in Ids : j # i /\ plan[j].trial => plan[j].status # "active"
      BY <2>4 DEF Shop!SingleActiveTrial
    <3>. QED BY <1>2, <3>1, <3>2
  <2>. QED BY <1>1, <2>1, <2>2, <2>3, <2>4 DEF Shop!Edits
<1>4. ASSUME ~lapped PROVE RowFits(i, row)
  <2>1. Distinct /\ Served
    BY <1>4 DEF CatalogInv, Orderly
  <2>2. Apart(i, row)
    BY <1>2, <1>3, <2>1 DEF Distinct, Apart
  <2>3. ASSUME NEW h \in Chain, onPlan[h].to = i
        PROVE  row.status = "active" /\ (onPlan[h].forced \/ built[h] <= row.limit)
    <3>1. plan[i].status = "active" /\ (onPlan[h].forced \/ built[h] <= plan[i].limit)
      BY <2>1, <2>3, HotelTyped DEF Served, ServedAt
    <3>2. row.limit \in Nat /\ built[h] \in Nat
      BY <1>3, HotelTyped DEF PlanRow
    <3>. QED BY <1>2, <1>3, <2>3, <3>1, <3>2
  <2>. QED BY <2>2, <2>3 DEF RowFits, Roomy
<1>. QED BY <1>1, <1>3, <1>4, PlanJudged

LEMMA Shelved ==
  ASSUME CatalogInv, NEW p \in Vendors, NEW i \in Ids, Shop!Archive(p, i) \/ Shop!Restore(p, i)
  PROVE  CatalogInv'
<1>0. plan[i] \in PlanRow
  BY PlanTyped
<1>1. CASE Shop!Archive(p, i)
  <2>1. PICK row : row = [plan[i] EXCEPT !.status = "archived"]
    OBVIOUS
  <2>2. row \in PlanRow /\ row.status = "archived" /\ row.name = plan[i].name
    BY <1>0, <2>1 DEF PlanRow
  <2>3. Shop!Judged(p, i, row) /\ plan[i].status = "active" /\ \A h \in Chain : onPlan[h].to # i
    BY <1>1, <2>1 DEF Shop!Archive, Shop!countCurrentSubscribers
  <2>4. ~lapped => RowFits(i, row)
    BY <2>2, <2>3 DEF RowFits, Apart, Roomy, CatalogInv, Orderly, Distinct
  <2>. QED BY <2>2, <2>3, <2>4, PlanJudged
<1>2. CASE Shop!Restore(p, i)
  <2>1. PICK row : row = [plan[i] EXCEPT !.status = "active"]
    OBVIOUS
  <2>2. row \in PlanRow /\ row.status = "active" /\ row.name = plan[i].name /\ row.trial = plan[i].trial
    BY <1>0, <2>1 DEF PlanRow
  <2>3. /\ Shop!Judged(p, i, row) /\ plan[i].status = "archived"
        /\ plan[i].trial => \A j \in Ids : j # i /\ plan[j].trial => plan[j].status # "active"
    BY <1>2, <2>1 DEF Shop!Restore, Shop!SingleActiveTrial
  <2>4. ASSUME ~lapped PROVE RowFits(i, row)
    <3>1. ASSUME NEW h \in Chain PROVE onPlan[h].to # i
      BY <2>3, <2>4, HotelTyped DEF CatalogInv, Orderly, Served, ServedAt
    <3>. QED BY <2>2, <2>3, <2>4, <3>1 DEF RowFits, Apart, Roomy, CatalogInv, Orderly, Distinct
  <2>. QED BY <2>2, <2>3, <2>4, PlanJudged
<1>. QED BY <1>1, <1>2

LEMMA Subscribed ==
  ASSUME CatalogInv, NEW p \in Vendors, NEW i \in Ids, NEW h \in Chain, NEW force \in BOOLEAN,
         Shop!Subscribe(p, h, i, force)
  PROVE  CatalogInv'
<1>1. PICK c : c = [Shop!Idle EXCEPT !.pc = IF force THEN "force" ELSE "subscribe", !.key = h, !.to = i]
  OBVIOUS
<1>2. /\ c.pc \in {"subscribe", "force"} /\ (c.pc = "subscribe" => ~force)
      /\ c.key = h /\ c.to = i
  BY <1>1 DEF Shop!Idle
<1>3. /\ Shop!Begin(p, c) /\ plan[i].status = "active"
      /\ ~force => built[h] <= plan[i].limit
  BY <1>1 DEF Shop!Subscribe
<1>. QED BY <1>2, <1>3, CallBegins DEF CallTyped, JudgedOK

LEMMA CallEnds ==
  ASSUME CatalogInv, NEW p \in Vendors, call' = [call EXCEPT ![p] = Shop!Idle], lapped' = lapped,
         ~lapped /\ call[p] # Shop!Idle => (Distinct /\ Served)',
         call[p] # Shop!Idle,
         plan' \in [Ids -> PlanRow], built' = built, onPlan' \in [Chain -> Place],
         \A h \in Chain : onPlan'[h] = Shop!NoSub \/ onPlan'[h].to \in Ids
  PROVE  CatalogInv'
<1>1. call'[p] = Shop!Idle /\ \A q \in Vendors : q # p => call'[q] = call[q]
  BY DEF CatalogInv, ShopTyped
<1>2. ShopTyped'
  <2>1. DOMAIN call' = Vendors /\ call' = [q \in Vendors |-> call'[q]]
    BY DEF CatalogInv, ShopTyped
  <2>2. \A q \in Vendors : CallTyped(call'[q])
    BY <1>1, IdleCall DEF CatalogInv, ShopTyped
  <2>3. (\A q \in Vendors : CallTyped(call[q]))'
    BY <2>2 DEF CallTyped
  <2>. QED BY <2>1, <2>3 DEF CatalogInv, ShopTyped
<1>3. ASSUME ~lapped PROVE Orderly'
  <2>1. \A q \in Vendors : call'[q] = Shop!Idle
    BY <1>1, <1>3 DEF CatalogInv, Orderly
  <2>2. (\A q \in Vendors : JudgedOK(call[q]))'
    BY <2>1, IdleCall DEF JudgedOK
  <2>. QED BY <1>3, <2>1, <2>2 DEF Orderly
<1>. QED BY <1>2, <1>3 DEF CatalogInv

LEMMA CatalogSaves ==
  ASSUME CatalogInv, NEW p \in Vendors, Shop!SavePlan(p) \/ Shop!SaveSub(p)
  PROVE  CatalogInv'
<1>0. call[p] # Shop!Idle
  BY IdleCall DEF Shop!SavePlan, Shop!SaveSub
<1>1. CASE Shop!SavePlan(p)
  <2>1. call[p].key \in Ids /\ call[p].row \in PlanRow
    BY <1>1, IdleCall DEF Shop!SavePlan, CatalogInv, ShopTyped, CallTyped
  <2>2. plan' \in [Ids -> PlanRow]
    BY <1>1, <2>1 DEF Shop!SavePlan, CatalogInv, ShopTyped
  <2>3. /\ plan'[call[p].key] = call[p].row
        /\ \A j \in Ids : j # call[p].key => plan'[j] = plan[j]
    BY <1>1, <2>1 DEF Shop!SavePlan, CatalogInv, ShopTyped
  <2>4. ASSUME ~lapped PROVE (Distinct /\ Served)'
    <3>1. Distinct /\ Served /\ RowFits(call[p].key, call[p].row)
      BY <1>1, <2>4 DEF CatalogInv, Orderly, JudgedOK, Shop!SavePlan
    <3>2. UNCHANGED <<onPlan, built>>
      BY <1>1 DEF Shop!SavePlan
    <3>3. Distinct'
      BY <2>1, <2>3, <3>1 DEF Distinct, RowFits, Apart
    <3>4. ASSUME NEW h \in Chain PROVE ServedAt(h)'
      <4>1. CASE onPlan[h].to = call[p].key
        BY <2>3, <3>1, <3>2, <4>1 DEF RowFits, Roomy, ServedAt
      <4>2. CASE onPlan[h].to # call[p].key
        <5>1. onPlan[h] # Shop!NoSub => onPlan[h].to \in Ids
          BY HotelTyped
        <5>. QED BY <2>3, <3>1, <3>2, <4>2, <5>1 DEF Served, ServedAt
      <4>. QED BY <4>1, <4>2
    <3>. QED BY <3>3, <3>4 DEF Served
  <2>. QED BY <1>0, <1>1, <2>2, <2>4, CallEnds DEF Shop!SavePlan, CatalogInv, ShopTyped
<1>2. CASE Shop!SaveSub(p)
  <2>1. call[p].key \in Chain /\ call[p].to \in Ids /\ call[p].pc \in {"subscribe", "force"}
    BY <1>2, IdleCall DEF Shop!SaveSub, CatalogInv, ShopTyped, CallTyped
  <2>2. PICK h \in Chain : h = call[p].key
    BY <2>1
  <2>3. PICK f \in BOOLEAN : f = (call[p].pc = "force")
    OBVIOUS
  <2>4. PICK new : new = [to |-> call[p].to, forced |-> f]
    OBVIOUS
  <2>5. onPlan' = [onPlan EXCEPT ![h] = new]
    BY <1>2, <2>2, <2>3, <2>4 DEF Shop!SaveSub
  <2>6. new \in Place /\ new.to = call[p].to /\ new.forced = f
    BY <2>1, <2>4 DEF Place
  <2>7. /\ onPlan' \in [Chain -> Place] /\ onPlan'[h] = new
        /\ \A g \in Chain : g # h => onPlan'[g] = onPlan[g]
    BY <2>5, <2>6 DEF CatalogInv, ShopTyped
  <2>8. ASSUME ~lapped PROVE (Distinct /\ Served)'
    <3>1. Distinct /\ Served /\ JudgedOK(call[p])
      BY <2>8 DEF CatalogInv, Orderly
    <3>2. UNCHANGED <<plan, built>>
      BY <1>2 DEF Shop!SaveSub
    <3>3. ASSUME NEW g \in Chain PROVE ServedAt(g)'
      <4>1. CASE g = h
        BY <2>1, <2>2, <2>3, <2>6, <2>7, <3>1, <3>2, <4>1 DEF ServedAt, JudgedOK
      <4>2. CASE g # h
        BY <2>7, <3>1, <3>2, <4>2 DEF Served, ServedAt
      <4>. QED BY <4>1, <4>2
    <3>. QED BY <3>1, <3>2, <3>3 DEF Distinct, Served
  <2>9. \A g \in Chain : onPlan'[g] = Shop!NoSub \/ onPlan'[g].to \in Ids
    BY <2>1, <2>6, <2>7 DEF CatalogInv, ShopTyped
  <2>. QED BY <1>0, <1>2, <2>7, <2>8, <2>9, CallEnds DEF Shop!SaveSub, CatalogInv, ShopTyped
<1>. QED BY <1>1, <1>2

LEMMA CatalogRooms ==
  ASSUME CatalogInv, NEW h \in Chain, Shop!AddRoom(h) \/ Shop!CloseRoom(h)
  PROVE  CatalogInv'
<1>0. built[h] \in Nat /\ built \in [Chain -> Nat]
  BY DEF CatalogInv, ShopTyped
<1>1. /\ UNCHANGED <<plan, onPlan, call>> /\ lapped' \in BOOLEAN /\ (lapped => lapped')
      /\ built' \in [Chain -> Nat] /\ \A g \in Chain : g # h => built'[g] = built[g]
      /\ \/ ~lapped' => /\ \A q \in Vendors : call[q] = Shop!Idle
                        /\ onPlan[h] # Shop!NoSub
                        /\ built'[h] <= plan[onPlan[h].to].limit
         \/ built'[h] <= built[h]
  <2>1. CASE Shop!AddRoom(h)
    <3>1. built' = [built EXCEPT ![h] = @ + 1] /\ UNCHANGED <<plan, onPlan, call>>
          /\ lapped' = (lapped \/ \E q \in Vendors : call[q] # Shop!Idle)
          /\ onPlan[h] # Shop!NoSub /\ built[h] + 1 <= plan[onPlan[h].to].limit
      BY <2>1 DEF Shop!AddRoom, Shop!Note
    <3>2. built'[h] = built[h] + 1 /\ built' \in [Chain -> Nat] /\ \A g \in Chain : g # h => built'[g] = built[g]
      BY <1>0, <3>1
    <3>. QED BY <1>0, <3>1, <3>2
  <2>2. CASE Shop!CloseRoom(h)
    <3>1. built' = [built EXCEPT ![h] = @ - 1] /\ UNCHANGED <<plan, onPlan, call, lapped>> /\ built[h] > 0
      BY <2>2 DEF Shop!CloseRoom
    <3>2. built[h] - 1 \in Nat /\ built[h] - 1 <= built[h]
      BY <1>0, <3>1
    <3>3. built' \in [Chain -> Nat] /\ built'[h] <= built[h] /\ \A g \in Chain : g # h => built'[g] = built[g]
      BY <1>0, <3>1, <3>2
    <3>. QED BY <3>1, <3>3 DEF CatalogInv, ShopTyped
  <2>. QED BY <2>1, <2>2
<1>2. ShopTyped'
  BY <1>1 DEF CatalogInv, ShopTyped, CallTyped
<1>3. ASSUME ~lapped' PROVE Orderly'
  <2>1. ~lapped /\ Orderly
    BY <1>1, <1>3 DEF CatalogInv
  <2>2. built'[h] \in Nat /\ \A i \in Ids : plan[i].limit \in Nat
    BY <1>1, PlanTyped
  <2>3. ASSUME NEW g \in Chain PROVE ServedAt(g)'
    <3>1. onPlan[g] # Shop!NoSub => onPlan[g].to \in Ids
      BY HotelTyped
    <3>2. ServedAt(g)
      BY <2>1 DEF Orderly, Served
    <3>3. CASE g # h
      BY <1>1, <3>2, <3>3 DEF ServedAt
    <3>4. CASE g = h
      <4>1. onPlan[h] # Shop!NoSub => plan[onPlan[h].to].limit \in Nat
        BY <2>2, <3>1, <3>4
      <4>. QED BY <1>0, <1>1, <1>3, <2>2, <3>2, <3>4, <4>1 DEF ServedAt
    <3>. QED BY <3>3, <3>4
  <2>4. (\A q \in Vendors : JudgedOK(call[q]))'
    <3> SUFFICES ASSUME NEW q \in Vendors PROVE JudgedOK(call[q])'
      OBVIOUS
    <3>1. CASE call[q] = Shop!Idle
      BY <1>1, <3>1, IdleCall DEF JudgedOK
    <3>2. CASE call[q] # Shop!Idle
      <4>1. built'[h] <= built[h] /\ JudgedOK(call[q])
        BY <1>1, <1>3, <2>1, <3>2 DEF Orderly
      <4>2. \A g \in Chain : built[g] \in Nat /\ built'[g] \in Nat /\ built'[g] <= built[g]
        BY <1>0, <1>1, <4>1
      <4>3. /\ call[q].pc = "plan" => call[q].row.limit \in Nat
            /\ call[q].pc = "subscribe" => call[q].to \in Ids /\ call[q].key \in Chain
        BY <3>2, IdleCall DEF CatalogInv, ShopTyped, CallTyped, PlanRow
      <4>4. \A g \in Chain, n \in Nat : built[g] <= n => built'[g] <= n
        BY <4>2
      <4>5. call[q].pc = "plan" => RowFits(call[q].key, call[q].row)'
        BY <1>1, <4>1, <4>3, <4>4 DEF JudgedOK, RowFits, Apart, Roomy
      <4>. QED BY <1>1, <2>2, <4>1, <4>3, <4>4, <4>5 DEF JudgedOK
    <3>. QED BY <3>1, <3>2
  <2>. QED BY <1>1, <2>1, <2>3, <2>4 DEF Orderly, Distinct, Served
<1>. QED BY <1>2, <1>3 DEF CatalogInv

LEMMA CatalogStep == CatalogInv /\ Shop!Next => CatalogInv'
<1>. SUFFICES ASSUME CatalogInv, Shop!Next PROVE CatalogInv'
  OBVIOUS
<1>. QED BY Created, Updated, Shelved, Subscribed, CatalogSaves, CatalogRooms DEF Shop!Next

LEMMA CatalogInit == Shop!Init => CatalogInv
<1>. SUFFICES ASSUME Shop!Init PROVE CatalogInv
  OBVIOUS
<1>1. /\ plan = [i \in Ids |-> Shop!NoPlan] /\ onPlan = [h \in Chain |-> Shop!NoSub]
      /\ built = [h \in Chain |-> 0] /\ call = [p \in Vendors |-> Shop!Idle] /\ lapped = FALSE
  BY DEF Shop!Init
<1>2. Shop!NoPlan \in PlanRow /\ Shop!NoSub \in Place /\ Shop!NoPlan.status = "none"
  BY DEF PlanRow, Place, Shop!NoPlan, Shop!NoSub
<1>3. ShopTyped
  BY <1>1, <1>2, IdleCall DEF ShopTyped
<1>4. Orderly
  BY <1>1, <1>2, IdleCall DEF Orderly, Distinct, Served, ServedAt
<1>. QED BY <1>3, <1>4 DEF CatalogInv

LEMMA CatalogHeld == CatalogInv => Shop!CatalogHolds
<1>. SUFFICES ASSUME CatalogInv, ~lapped PROVE Shop!CatalogHolds
  BY DEF Shop!CatalogHolds
<1>1. Distinct /\ Served
  BY DEF CatalogInv, Orderly
<1>. QED BY <1>1 DEF Shop!CatalogHolds, Shop!Exists, Distinct, Served, ServedAt

MCInv == AloneInv /\ (scene # "rooms" => CatalogInv)

(* In every scene of MCSubs the hotel's plan holds one request at a time,  *)
(* and outside the rooms' scene so does the catalog: no name is used       *)
(* twice, one trial is active, and no plan is smaller than its hotels.     *)
THEOREM PlansStand == MCSpec => []PlansHold
<1>1. MCInit => MCInv
  BY AloneInit, CatalogInit DEF MCInit, MCInv
<1>2. MCInv /\ [MCNext]_<<vars, kitchenVars, shopVars, scene>> => MCInv'
  <2> SUFFICES ASSUME MCInv, [MCNext]_<<vars, kitchenVars, shopVars, scene>> PROVE MCInv'
    OBVIOUS
  <2>1. [Next]_vars
    BY DEF MCNext, HotelNext
  <2>2. scene' = scene
    BY DEF MCNext
  <2>3. ASSUME scene # "rooms" PROVE Shop!Next \/ UNCHANGED shopVars
    BY <2>3 DEF MCNext, Selling
  <2>4. CatalogInv /\ UNCHANGED shopVars => CatalogInv'
    BY DEF CatalogInv, ShopTyped, CallTyped, Orderly, Distinct, Served, ServedAt, JudgedOK, RowFits, Apart, Roomy,
           shopVars
  <2>. QED BY <2>1, <2>2, <2>3, <2>4, AloneStep, CatalogStep DEF MCInv
<1>3. MCInv => PlansHold
  BY AlonePlan, CatalogHeld DEF MCInv, PlansHold
<1>. QED BY <1>1, <1>2, <1>3, PTL DEF MCSpec

----------------------------------------------------------------------------
(* The order of a guest, for every catalog and any number of managers and  *)
(* guests.  What an order has read is of two moments at most if there was  *)
(* one edit at most: when it began, and now; and the two differ in a row.  *)
TableRow(v) ==
  /\ v = [has |-> v.has, on |-> v.on, inc |-> v.inc, price |-> v.price, hours |-> v.hours, key |-> v.key]
  /\ v.price \in PriceLists

Serves(r, a, h) ==
  /\ r[a.item].has /\ r[a.item].on /\ r[SectionOf[a.item]].on /\ r[MenuOf[a.item]].on
  /\ Kitchen!Open(r[MenuOf[a.item]], h) /\ a.option \in DOMAIN r[a.item].price
Delivers(r, a) == a.place # None => r[a.place].has /\ r[a.place].on
Price(r, a) == Kitchen!resolvePrice(r[a.item], r[MenuOf[a.item]], a.option)
Offered(r, ch, a, h) ==
  IF Serves(r, a, h) /\ Delivers(r, a) THEN {[price |-> Price(r, a), charge |-> ch]} ELSE {}

OneEdit(r, ch, q, dh) ==
  /\ \E k : \A j \in Kitchen!Rows \ {k} : r[j] = q[j]
  /\ ch = dh \/ r = q

(* The catalog r of the moment the call began, and q of now.               *)
Began(c, S, r, q, ch, n) ==
  /\ Offered(r, c.charge, c.ask, c.hour) \subseteq S
  /\ n = c.since => r = q /\ c.charge = ch
  /\ OneEdit(r, c.charge, q, ch)

HasRead(c, r, q) ==
  /\ c.pc = "parents" =>
       /\ c.item.has /\ c.item \in {r[c.ask.item], q[c.ask.item]}
       /\ c.read # <<>> => \E k \in {SectionOf[c.ask.item], MenuOf[c.ask.item]} :
                             \E v \in {r[k], q[k]} : c.read = [x \in {k} |-> v]
  /\ c.pc = "place" => \E z \in {r, q} : Serves(z, c.ask, c.hour) /\ c.price = Price(z, c.ask)

Fair(c, S) ==
  \E t \in S : /\ c.price = t.price
               /\ c.ask.pay = "room_charge" => t.charge
               /\ (c.ask.pay = "nothing") = (t.price = 0)

CartTyped(c) ==
  /\ c.pc \in {"idle", "item", "parents", "place", "insert"}
  /\ c.pc # "idle" => c.ask \in Kitchen!Ask /\ c.since \in Nat
  /\ c.pc = "parents" =>
       /\ c = [pc |-> "parents", ask |-> c.ask, hour |-> c.hour, charge |-> c.charge, since |-> c.since,
               item |-> c.item, read |-> c.read]
       /\ c.item.price \in PriceLists
  /\ c.pc = "place" =>
       /\ c = [pc |-> "place", ask |-> c.ask, hour |-> c.hour, charge |-> c.charge, since |-> c.since,
               price |-> c.price]
       /\ c.price \in Nat

CartTrue(c, S, q, ch, n) ==
  c.pc # "idle" =>
    /\ c.since <= n /\ Offered(q, ch, c.ask, c.hour) \subseteq S
    /\ n < c.since + 2 =>
         IF c.pc = "insert" THEN Fair(c, S)
         ELSE \E r : Began(c, S, r, q, ch, n) /\ HasRead(c, r, q)

EditOK(e, q) ==
  /\ e.pc \in {"idle", "save", "create"}
  /\ e.pc # "idle" => e.key \in Kitchen!Rows /\ TableRow(e.row)
  /\ e.pc = "save" => q[e.key].has /\ e.row.has /\ e.row.key = q[e.key].key
  /\ e.pc = "create" => e.key \in Places

FoodTyped ==
  /\ food = [k \in Kitchen!Rows |-> food[k]] /\ \A k \in Kitchen!Rows : TableRow(food[k])
  /\ commits \in Nat
  /\ edit = [p \in Managers |-> edit[p]] /\ \A p \in Managers : EditOK(edit[p], food)
  /\ cart = [g \in Guests |-> cart[g]] /\ \A g \in Guests : CartTyped(cart[g])
  /\ book = [g \in Guests |-> book[g]]

KeysApart ==
  \A l, k \in Places : l # k /\ food[l].has /\ food[k].has => food[l].key # food[k].key

KitchenInv ==
  /\ FoodTyped /\ KeysApart
  /\ \A g \in Guests : CartTrue(cart[g], shown[g], food, roomCharge, commits)

----------------------------------------------------------------------------
LEMMA KitchenBounds ==
  /\ SectionOf \in [Items -> Sections] /\ MenuOf \in [Items -> Menus]
  /\ Items \cap (Sections \cup Menus) = {} /\ Sections \cap Menus = {}
  /\ Places \cap (Items \cup Sections \cup Menus) = {}
  /\ PriceLists # {} /\ \A l \in PriceLists : \A option \in DOMAIN l : l[option] \in Nat
  /\ None \notin Kitchen!Rows
  /\ Kitchen!Rows = Items \cup Sections \cup Menus \cup Places
BY ScenesAssumption DEF Kitchen!Parameters, Kitchen!Rows

(* What an order asks for hangs in three rows of their own.                *)
LEMMA AskedRows ==
  ASSUME NEW a \in Kitchen!Ask
  PROVE  /\ a.item \in Items /\ SectionOf[a.item] \in Sections /\ MenuOf[a.item] \in Menus
         /\ a.item # SectionOf[a.item] /\ a.item # MenuOf[a.item] /\ SectionOf[a.item] # MenuOf[a.item]
         /\ {a.item, SectionOf[a.item], MenuOf[a.item]} \subseteq Kitchen!Rows
         /\ a.place # None => /\ a.place \in Places /\ a.place \in Kitchen!Rows
                              /\ a.place \notin {a.item, SectionOf[a.item], MenuOf[a.item]}
         /\ a = [item |-> a.item, option |-> a.option, place |-> a.place, pay |-> a.pay]
         /\ a.pay \in {"cash", "room_charge", "nothing"}
<1>1. /\ a.item \in Items /\ a.place \in Places \cup {None} /\ a.pay \in {"cash", "room_charge", "nothing"}
      /\ a = [item |-> a.item, option |-> a.option, place |-> a.place, pay |-> a.pay]
  BY DEF Kitchen!Ask
<1>2. SectionOf[a.item] \in Sections /\ MenuOf[a.item] \in Menus
  BY <1>1, KitchenBounds
<1> QED
  BY <1>1, <1>2, KitchenBounds

LEMMA MenuShows ==
  \A a, h : Kitchen!OnTheMenu(a, h) = Offered(food, roomCharge, a, h)
BY DEF Kitchen!OnTheMenu, Offered, Serves, Delivers, Price, Kitchen!resolvePrice, Kitchen!Included

(* What the guest could have been shown only grows.                        *)
LEMMA ShownGrows ==
  ASSUME Kitchen!Watch, NEW g \in Guests, cart'[g].pc # "idle"
  PROVE  /\ Offered(food', roomCharge', cart'[g].ask, cart'[g].hour) \subseteq shown'[g]
         /\ cart[g].pc # "idle" => shown[g] \subseteq shown'[g]
<1>1. shown'[g] = (IF cart[g].pc = "idle" THEN {} ELSE shown[g])
                    \cup Kitchen!OnTheMenu(cart[g].ask, cart[g].hour)'
  BY DEF Kitchen!Watch
<1>2. Kitchen!OnTheMenu(cart[g].ask, cart[g].hour)' = Offered(food', roomCharge', cart'[g].ask, cart'[g].hour)
  BY DEF Kitchen!OnTheMenu, Offered, Serves, Delivers, Price, Kitchen!resolvePrice, Kitchen!Included,
         Kitchen!Open
<1> QED
  BY <1>1, <1>2

----------------------------------------------------------------------------
(* Steps of others, as an order sees them.                                 *)
Calm == UNCHANGED <<food, roomCharge, commits>>

Writes(k, v) ==
  /\ k \in Kitchen!Rows /\ TableRow(v) /\ food' = [food EXCEPT ![k] = v]
  /\ food[k].has => v.has /\ v.key = food[k].key
  /\ ~food[k].has /\ k \in Places => v.key \notin Kitchen!Keys

Edited == (\E k, v : Writes(k, v)) /\ roomCharge' = roomCharge /\ commits' = commits + 1
Switched == food' = food /\ commits' = commits + 1

LEMMA CartStays ==
  ASSUME FoodTyped, Calm \/ Edited \/ Switched, NEW c, CartTyped(c), NEW S, NEW T,
         CartTrue(c, S, food, roomCharge, commits), c.pc # "idle" => S \subseteq T,
         c.pc # "idle" => Offered(food', roomCharge', c.ask, c.hour) \subseteq T
  PROVE  CartTrue(c, T, food', roomCharge', commits')
<1> SUFFICES ASSUME c.pc # "idle"
             PROVE  /\ c.since <= commits'
                    /\ commits' < c.since + 2 =>
                         IF c.pc = "insert" THEN Fair(c, T)
                         ELSE \E r : Began(c, T, r, food', roomCharge', commits') /\ HasRead(c, r, food')
  BY DEF CartTrue
<1>1. c.since \in Nat /\ commits \in Nat /\ c.since <= commits /\ c.ask \in Kitchen!Ask
  BY DEF CartTyped, CartTrue, FoodTyped
<1>2. commits' = commits \/ commits' = commits + 1
  BY DEF Calm, Edited, Switched
<1>3. c.since <= commits'
  BY <1>1, <1>2
<1>4. ASSUME commits' < c.since + 2, c.pc = "insert" PROVE Fair(c, T)
  <2>1. Fair(c, S)
    BY <1>1, <1>2, <1>4 DEF CartTrue
  <2> QED
    BY <2>1 DEF Fair
<1>5. ASSUME commits' < c.since + 2, c.pc # "insert"
      PROVE  \E r : Began(c, T, r, food', roomCharge', commits') /\ HasRead(c, r, food')
  <2>1. commits < c.since + 2
    BY <1>1, <1>2, <1>5
  <2>2. PICK r : Began(c, S, r, food, roomCharge, commits) /\ HasRead(c, r, food)
    BY <1>5, <2>1 DEF CartTrue
  <2>3. Offered(r, c.charge, c.ask, c.hour) \subseteq T
    BY <2>2 DEF Began
  <2>4. CASE Calm
    BY <2>2, <2>3, <2>4 DEF Calm, Began
  <2>5. CASE Edited \/ Switched
    <3>1. commits' = commits + 1
      BY <2>5 DEF Edited, Switched
    <3>2. commits = c.since /\ commits' # c.since
      BY <1>1, <1>5, <3>1
    <3>3. r = food /\ c.charge = roomCharge
      BY <2>2, <3>2 DEF Began
    <3>4. OneEdit(r, c.charge, food', roomCharge')
      <4>1. CASE Switched
        BY <3>3, <4>1 DEF Switched, OneEdit
      <4>2. CASE Edited
        <5>1. PICK k, v : Writes(k, v)
          BY <4>2 DEF Edited
        <5>2. \A j \in Kitchen!Rows \ {k} : food[j] = food'[j]
          BY <5>1 DEF Writes, FoodTyped
        <5> QED
          BY <3>3, <4>2, <5>2 DEF Edited, OneEdit
      <4> QED
        BY <2>5, <4>1, <4>2
    <3>5. Began(c, T, r, food', roomCharge', commits')
      BY <2>3, <3>2, <3>4 DEF Began
    <3>6. HasRead(c, r, food')
      BY <2>2, <3>3 DEF HasRead
    <3> QED
      BY <3>5, <3>6
  <2> QED
    BY <2>4, <2>5
<1> QED
  BY <1>3, <1>4, <1>5

----------------------------------------------------------------------------
(* Steps of the order itself.                                              *)
Same(c, d) == d.ask = c.ask /\ d.hour = c.hour /\ d.charge = c.charge /\ d.since = c.since

Carries(c, d) ==
  \A r : OneEdit(r, c.charge, food, roomCharge) /\ HasRead(c, r, food) => HasRead(d, r, food)

LEMMA CartMoves ==
  ASSUME NEW c, NEW d, c.pc \in {"item", "parents", "place"}, d.pc \in {"parents", "place"}, Same(c, d),
         NEW S, NEW T, S \subseteq T, CartTrue(c, S, food, roomCharge, commits), Carries(c, d)
  PROVE  CartTrue(d, T, food, roomCharge, commits)
<1> SUFFICES /\ d.since <= commits /\ Offered(food, roomCharge, d.ask, d.hour) \subseteq T
             /\ commits < d.since + 2 =>
                  \E r : Began(d, T, r, food, roomCharge, commits) /\ HasRead(d, r, food)
  BY DEF CartTrue
<1>1. d.since <= commits /\ Offered(food, roomCharge, d.ask, d.hour) \subseteq T
  BY DEF CartTrue, Same
<1>2. ASSUME commits < d.since + 2
      PROVE  \E r : Began(d, T, r, food, roomCharge, commits) /\ HasRead(d, r, food)
  <2>1. PICK r : Began(c, S, r, food, roomCharge, commits) /\ HasRead(c, r, food)
    BY <1>2 DEF CartTrue, Same
  <2>2. Began(d, T, r, food, roomCharge, commits)
    BY <2>1 DEF Began, Same
  <2>3. HasRead(d, r, food)
    BY <2>1 DEF Began, Carries
  <2> QED
    BY <2>2, <2>3
<1> QED
  BY <1>1, <1>2

Parent(c, k) == IF k \in DOMAIN c.read THEN c.read[k] ELSE food[k]

(* Both parents are read and the line is judged: all three rows were so at *)
(* one moment.                                                             *)
LEMMA JudgedOnce ==
  ASSUME NEW c, NEW r, NEW a, a = c.ask, a \in Kitchen!Ask, c.pc = "parents", c.read # <<>>,
         OneEdit(r, c.charge, food, roomCharge), HasRead(c, r, food),
         NEW s, s = Parent(c, SectionOf[a.item]), NEW m, m = Parent(c, MenuOf[a.item])
  PROVE  c.item.has /\ \E z \in {r, food} : c.item = z[a.item] /\ s = z[SectionOf[a.item]] /\ m = z[MenuOf[a.item]]
<1>1. PICK k : \A j \in Kitchen!Rows \ {k} : r[j] = food[j]
  BY DEF OneEdit
<1>2. PICK x \in {SectionOf[a.item], MenuOf[a.item]} : \E v \in {r[x], food[x]} : c.read = [y \in {x} |-> v]
  BY DEF HasRead
<1>3. PICK v \in {r[x], food[x]} : c.read = [y \in {x} |-> v]
  BY <1>2
<1>4. DOMAIN c.read = {x} /\ c.read[x] = v
  BY <1>3
<1>5. /\ s \in {r[SectionOf[a.item]], food[SectionOf[a.item]]}
      /\ m \in {r[MenuOf[a.item]], food[MenuOf[a.item]]}
      /\ c.item \in {r[a.item], food[a.item]} /\ c.item.has
  BY <1>3, <1>4 DEF HasRead, Parent
<1> QED
  BY <1>1, <1>5, AskedRows

LEMMA PriceCounts ==
  ASSUME NEW a \in Kitchen!Ask, NEW i, i.price \in PriceLists, NEW m, a.option \in DOMAIN i.price
  PROVE  Kitchen!resolvePrice(i, m, a.option) \in Nat
<1>1. i.price[a.option] \in Nat
  BY KitchenBounds
<1> QED
  BY <1>1 DEF Kitchen!resolvePrice

(* The location is read and the payment judged: so the menu showed it.     *)
LEMMA PlacedFairly ==
  ASSUME FoodTyped, NEW c, CartTyped(c), c.pc = "place", NEW S, CartTrue(c, S, food, roomCharge, commits),
         Delivers(food, c.ask), Kitchen!Payable(c), commits < c.since + 2,
         NEW d, d.price = c.price,
         d.ask = [c.ask EXCEPT !.pay = IF c.price > 0 THEN c.ask.pay ELSE "nothing"]
  PROVE  Fair(d, S)
<1>1. c.ask \in Kitchen!Ask /\ c.price \in Nat
  BY DEF CartTyped
<1>2. PICK r : Began(c, S, r, food, roomCharge, commits) /\ HasRead(c, r, food)
  BY DEF CartTrue
<1>3. PICK z \in {r, food} : Serves(z, c.ask, c.hour) /\ c.price = Price(z, c.ask)
  BY <1>2 DEF HasRead
<1>4. PICK k : \A j \in Kitchen!Rows \ {k} : r[j] = food[j]
  BY <1>2 DEF Began, OneEdit
<1>5. \E y \in {r, food} : Serves(y, c.ask, c.hour) /\ c.price = Price(y, c.ask) /\ Delivers(y, c.ask)
  <2>1. CASE z = food
    BY <1>3, <2>1
  <2>2. CASE z = r /\ (c.ask.place = None \/ r[c.ask.place] = food[c.ask.place])
    BY <1>3, <2>2 DEF Delivers
  <2>3. CASE z = r /\ c.ask.place # None /\ r[c.ask.place] # food[c.ask.place]
    <3>1. k = c.ask.place
      BY <1>1, <1>4, <2>3, AskedRows
    <3>2. /\ r[c.ask.item] = food[c.ask.item] /\ r[SectionOf[c.ask.item]] = food[SectionOf[c.ask.item]]
          /\ r[MenuOf[c.ask.item]] = food[MenuOf[c.ask.item]]
      BY <1>1, <1>4, <2>3, <3>1, AskedRows
    <3>3. Serves(food, c.ask, c.hour) /\ c.price = Price(food, c.ask)
      BY <1>3, <2>3, <3>2 DEF Serves, Price
    <3> QED
      BY <3>3
  <2> QED
    BY <2>1, <2>2, <2>3
<1>6. PICK y \in {r, food} : Serves(y, c.ask, c.hour) /\ c.price = Price(y, c.ask) /\ Delivers(y, c.ask)
  BY <1>5
<1>7. [price |-> c.price, charge |-> c.charge] \in S
  <2>1. CASE y = r
    <3>1. Offered(r, c.charge, c.ask, c.hour) \subseteq S
      BY <1>2 DEF Began
    <3> QED
      BY <1>6, <2>1, <3>1 DEF Offered
  <2>2. CASE y = food /\ y # r
    <3>1. c.charge = roomCharge
      BY <1>2, <2>2 DEF Began, OneEdit
    <3>2. Offered(food, c.charge, c.ask, c.hour) \subseteq S
      BY <3>1 DEF CartTrue
    <3> QED
      BY <1>6, <2>2, <3>2 DEF Offered
  <2> QED
    BY <1>6, <2>1, <2>2
<1>8. c.ask.pay \in {"cash", "room_charge", "nothing"} /\ d.ask.pay = IF c.price > 0 THEN c.ask.pay ELSE "nothing"
  BY <1>1, AskedRows
<1>9. /\ d.ask.pay = "room_charge" => c.charge
      /\ (d.ask.pay = "nothing") = (c.price = 0)
  BY <1>1, <1>8 DEF Kitchen!Payable
<1>10. PICK t : t = [price |-> c.price, charge |-> c.charge]
  OBVIOUS
<1> QED
  BY <1>7, <1>9, <1>10 DEF Fair

(* A step of one order: what it becomes, and why that is true.             *)
Dines(g, d) ==
  /\ Calm /\ UNCHANGED <<edit, hour>> /\ cart' = [cart EXCEPT ![g] = d]
  /\ book' = [book EXCEPT ![g] = book'[g]]

LEMMA DineKeeps ==
  ASSUME KitchenInv, Kitchen!Watch, NEW g \in Guests, NEW d, Dines(g, d), CartTyped(d),
         d.pc # "idle" => CartTrue(d, shown'[g], food, roomCharge, commits)
  PROVE  KitchenInv'
<1>1. FoodTyped /\ KeysApart /\ Calm
  BY DEF KitchenInv, Dines
<1>2. \A h \in Guests : cart'[h] = IF h = g THEN d ELSE cart[h]
  BY <1>1 DEF Dines, FoodTyped
<1>3. FoodTyped'
  <2>1. cart' = [h \in Guests |-> cart'[h]] /\ book' = [h \in Guests |-> book'[h]]
    BY <1>1 DEF Dines, FoodTyped
  <2>2. \A h \in Guests : CartTyped(cart'[h])
    BY <1>1, <1>2 DEF FoodTyped
  <2> QED
    BY <1>1, <2>1, <2>2 DEF Dines, Calm, FoodTyped
<1>4. KeysApart'
  BY <1>1 DEF Calm, KeysApart
<1>5. ASSUME NEW h \in Guests PROVE CartTrue(cart'[h], shown'[h], food', roomCharge', commits')
  <2>1. CASE h = g
    <3>1. cart'[h] = d
      BY <1>2, <2>1
    <3>2. CartTrue(d, shown'[g], food, roomCharge, commits)
      BY DEF CartTrue
    <3> QED
      BY <1>1, <2>1, <3>1, <3>2 DEF Calm
  <2>2. CASE h # g
    <3>1. cart'[h] = cart[h]
      BY <1>2, <2>2
    <3>2. CartTrue(cart[h], shown[h], food, roomCharge, commits) /\ CartTyped(cart[h])
      BY <1>1 DEF KitchenInv, FoodTyped
    <3>3. cart[h].pc # "idle" => /\ shown[h] \subseteq shown'[h]
                                 /\ Offered(food', roomCharge', cart[h].ask, cart[h].hour) \subseteq shown'[h]
      BY <3>1, ShownGrows
    <3> QED
      BY <1>1, <3>1, <3>2, <3>3, CartStays
  <2> QED
    BY <2>1, <2>2
<1> QED
  BY <1>3, <1>4, <1>5 DEF KitchenInv

LEMMA IdleCart == Kitchen!IdleCart.pc = "idle" /\ CartTyped(Kitchen!IdleCart)
BY DEF Kitchen!IdleCart, CartTyped

LEMMA Refused ==
  ASSUME KitchenInv, Kitchen!Watch, NEW g \in Guests, Kitchen!Refuse(g), Kitchen!OrderFrame
  PROVE  KitchenInv'
<1>1. Dines(g, Kitchen!IdleCart)
  BY DEF Dines, Calm, Kitchen!Refuse, Kitchen!OrderFrame, KitchenInv, FoodTyped
<1> QED
  BY <1>1, IdleCart, DineKeeps

(* The call goes on with d.                                                *)
LEMMA GoesOn ==
  ASSUME KitchenInv, Kitchen!Watch, NEW g \in Guests, NEW d, Kitchen!Go(g, d), Kitchen!OrderFrame,
         CartTyped(d), d.pc \in {"parents", "place"}, Same(cart[g], d), Carries(cart[g], d),
         cart[g].pc \in {"item", "parents", "place"}
  PROVE  KitchenInv'
<1>1. Dines(g, d)
  BY DEF Dines, Calm, Kitchen!Go, Kitchen!OrderFrame, KitchenInv, FoodTyped
<1>2. cart'[g] = d
  BY <1>1 DEF Dines, KitchenInv, FoodTyped
<1>3. shown[g] \subseteq shown'[g]
  BY <1>2, ShownGrows
<1>4. CartTrue(cart[g], shown[g], food, roomCharge, commits)
  BY DEF KitchenInv
<1>5. CartTrue(d, shown'[g], food, roomCharge, commits)
  BY <1>3, <1>4, CartMoves
<1> QED
  BY <1>1, <1>5, DineKeeps

LEMMA StartKeeps ==
  ASSUME KitchenInv, Kitchen!Watch, NEW g \in Guests, NEW a \in Kitchen!Ask, Kitchen!OrderStart(g, a)
  PROVE  KitchenInv'
<1>1. PICK d : d = [pc |-> "item", ask |-> a, hour |-> hour, charge |-> roomCharge, since |-> commits]
  OBVIOUS
<1>2. d.pc = "item" /\ d.ask = a /\ d.hour = hour /\ d.charge = roomCharge /\ d.since = commits
  BY <1>1
<1>3. Dines(g, d)
  BY <1>1 DEF Dines, Calm, Kitchen!OrderStart, Kitchen!Go, Kitchen!OrderFrame, KitchenInv, FoodTyped
<1>4. cart'[g] = d /\ commits \in Nat /\ Calm
  BY <1>3 DEF Dines, KitchenInv, FoodTyped
<1>5. CartTyped(d)
  BY <1>2, <1>4 DEF CartTyped
<1>6. Offered(food, roomCharge, d.ask, d.hour) \subseteq shown'[g]
  BY <1>2, <1>4, ShownGrows DEF Calm
<1>7. Began(d, shown'[g], food, food, roomCharge, commits) /\ HasRead(d, food, food)
  BY <1>2, <1>6 DEF Began, OneEdit, HasRead
<1>8. CartTrue(d, shown'[g], food, roomCharge, commits)
  BY <1>2, <1>4, <1>6, <1>7 DEF CartTrue
<1> QED
  BY <1>3, <1>5, <1>8, DineKeeps

LEMMA ItemKeeps ==
  ASSUME KitchenInv, Kitchen!Watch, NEW g \in Guests, Kitchen!OrderItem(g)
  PROVE  KitchenInv'
<1>1. PICK c : c = cart[g]
  OBVIOUS
<1>2. PICK i : i = food[c.ask.item]
  OBVIOUS
<1>3. PICK d : d = [pc |-> "parents", ask |-> c.ask, hour |-> c.hour, charge |-> c.charge,
                    since |-> c.since, item |-> i, read |-> <<>>]
  OBVIOUS
<1>4. /\ c.pc = "item" /\ Kitchen!OrderFrame /\ CartTyped(c)
      /\ (i.has /\ Kitchen!Go(g, d)) \/ Kitchen!Refuse(g)
  BY <1>1, <1>2, <1>3 DEF Kitchen!OrderItem, KitchenInv, FoodTyped
<1>5. CASE i.has /\ Kitchen!Go(g, d)
  <2>1. /\ d.pc = "parents" /\ d.ask = c.ask /\ d.hour = c.hour /\ d.charge = c.charge /\ d.since = c.since
        /\ d.item = i /\ d.read = <<>>
    BY <1>3
  <2>2. c.ask \in Kitchen!Ask /\ c.since \in Nat /\ c.ask.item \in Kitchen!Rows
    BY <1>4, AskedRows DEF CartTyped
  <2>3. i.price \in PriceLists
    BY <1>2, <2>2 DEF KitchenInv, FoodTyped, TableRow
  <2>4. CartTyped(d)
    BY <1>3, <2>1, <2>2, <2>3 DEF CartTyped
  <2>5. Carries(c, d)
    BY <1>2, <1>5, <2>1 DEF Carries, HasRead
  <2> QED
    BY <1>1, <1>4, <1>5, <2>1, <2>4, <2>5, GoesOn DEF Same
<1>6. CASE Kitchen!Refuse(g)
  BY <1>4, <1>6, Refused
<1> QED
  BY <1>4, <1>5, <1>6

LEMMA ParentKeeps ==
  ASSUME KitchenInv, Kitchen!Watch, NEW g \in Guests, NEW k, Kitchen!OrderParent(g, k)
  PROVE  KitchenInv'
<1>1. PICK c : c = cart[g]
  OBVIOUS
<1>2. PICK d : d = [c EXCEPT !.read = [x \in {k} |-> food[k]]]
  OBVIOUS
<1>3. /\ c.pc = "parents" /\ k \in {SectionOf[c.ask.item], MenuOf[c.ask.item]}
      /\ Kitchen!Go(g, d) /\ Kitchen!OrderFrame /\ CartTyped(c)
  BY <1>1, <1>2 DEF Kitchen!OrderParent, KitchenInv, FoodTyped
<1>4. /\ d = [pc |-> "parents", ask |-> c.ask, hour |-> c.hour, charge |-> c.charge, since |-> c.since,
              item |-> c.item, read |-> [x \in {k} |-> food[k]]]
      /\ c.item.price \in PriceLists /\ c.ask \in Kitchen!Ask /\ c.since \in Nat
  BY <1>2, <1>3 DEF CartTyped
<1>5. /\ d.pc = "parents" /\ d.ask = c.ask /\ d.hour = c.hour /\ d.charge = c.charge /\ d.since = c.since
      /\ d.item = c.item /\ d.read = [x \in {k} |-> food[k]]
  BY <1>4
<1>6. CartTyped(d)
  BY <1>4, <1>5 DEF CartTyped
<1>7. Carries(c, d)
  <2> SUFFICES ASSUME NEW r, HasRead(c, r, food) PROVE HasRead(d, r, food)
    BY DEF Carries
  <2>1. d.item.has /\ d.item \in {r[d.ask.item], food[d.ask.item]}
    BY <1>3, <1>5 DEF HasRead
  <2>2. \E j \in {SectionOf[d.ask.item], MenuOf[d.ask.item]} :
           \E v \in {r[j], food[j]} : d.read = [x \in {j} |-> v]
    BY <1>3, <1>5
  <2> QED
    BY <1>5, <2>1, <2>2 DEF HasRead
<1> QED
  BY <1>1, <1>3, <1>5, <1>6, <1>7, GoesOn DEF Same

LEMMA JudgeKeeps ==
  ASSUME KitchenInv, Kitchen!Watch, NEW g \in Guests, Kitchen!OrderJudge(g)
  PROVE  KitchenInv'
<1>1. PICK c, a : c = cart[g] /\ a = c.ask
  OBVIOUS
<1>2. PICK s, m : s = Parent(c, SectionOf[a.item]) /\ m = Parent(c, MenuOf[a.item])
  OBVIOUS
<1>3. PICK d : d = [pc |-> "place", ask |-> a, hour |-> c.hour, charge |-> c.charge, since |-> c.since,
                    price |-> Kitchen!resolvePrice(c.item, m, a.option)]
  OBVIOUS
<1>4. /\ c.pc = "parents" /\ c.read # <<>> /\ Kitchen!OrderFrame /\ CartTyped(c)
      /\ \/ /\ c.item.on /\ s.on /\ m.on /\ Kitchen!Open(m, c.hour) /\ Kitchen!Choosable(c.item, a.option)
            /\ Kitchen!Go(g, d)
         \/ Kitchen!Refuse(g)
  BY <1>1, <1>2, <1>3 DEF Parent, Kitchen!OrderJudge, KitchenInv, FoodTyped
<1>5. CASE /\ c.item.on /\ s.on /\ m.on /\ Kitchen!Open(m, c.hour) /\ Kitchen!Choosable(c.item, a.option)
           /\ Kitchen!Go(g, d)
  <2>1. /\ d.pc = "place" /\ d.ask = a /\ d.hour = c.hour /\ d.charge = c.charge /\ d.since = c.since
        /\ d.price = Kitchen!resolvePrice(c.item, m, a.option)
    BY <1>3
  <2>2. a \in Kitchen!Ask /\ c.since \in Nat /\ c.item.price \in PriceLists /\ a.option \in DOMAIN c.item.price
    BY <1>1, <1>4, <1>5 DEF CartTyped, Kitchen!Choosable
  <2>3. CartTyped(d)
    BY <1>3, <2>1, <2>2, PriceCounts DEF CartTyped
  <2>4. Carries(c, d)
    <3> SUFFICES ASSUME NEW r, OneEdit(r, c.charge, food, roomCharge), HasRead(c, r, food)
                 PROVE  HasRead(d, r, food)
      BY DEF Carries
    <3>1. /\ c.item.has
          /\ \E z \in {r, food} : c.item = z[a.item] /\ s = z[SectionOf[a.item]] /\ m = z[MenuOf[a.item]]
      BY <1>1, <1>2, <1>4, <2>2, JudgedOnce
    <3>2. PICK z \in {r, food} : c.item = z[a.item] /\ s = z[SectionOf[a.item]] /\ m = z[MenuOf[a.item]]
      BY <3>1
    <3>3. Serves(z, a, c.hour) /\ d.price = Price(z, a)
      BY <1>5, <2>1, <2>2, <3>1, <3>2 DEF Serves, Price
    <3> QED
      BY <2>1, <3>3 DEF HasRead
  <2> QED
    BY <1>1, <1>4, <1>5, <2>1, <2>3, <2>4, GoesOn DEF Same
<1>6. CASE Kitchen!Refuse(g)
  BY <1>4, <1>6, Refused
<1> QED
  BY <1>4, <1>5, <1>6

LEMMA PlaceKeeps ==
  ASSUME KitchenInv, Kitchen!Watch, NEW g \in Guests, Kitchen!OrderPlace(g)
  PROVE  KitchenInv'
<1>1. PICK c : c = cart[g]
  OBVIOUS
<1>2. PICK d : d = [c EXCEPT !.pc = "insert", !.ask.pay = IF c.price > 0 THEN @ ELSE "nothing"]
  OBVIOUS
<1>3. /\ c.pc = "place" /\ Kitchen!OrderFrame /\ CartTyped(c)
      /\ (Delivers(food, c.ask) /\ Kitchen!Payable(c) /\ Kitchen!Go(g, d)) \/ Kitchen!Refuse(g)
  BY <1>1, <1>2 DEF Kitchen!OrderPlace, KitchenInv, FoodTyped, Delivers
<1>4. CASE Delivers(food, c.ask) /\ Kitchen!Payable(c) /\ Kitchen!Go(g, d)
  <2>1. /\ c.ask \in Kitchen!Ask /\ c.since \in Nat
        /\ c = [pc |-> "place", ask |-> c.ask, hour |-> c.hour, charge |-> c.charge, since |-> c.since,
                price |-> c.price]
    BY <1>3 DEF CartTyped
  <2>2. /\ d.ask = [c.ask EXCEPT !.pay = IF c.price > 0 THEN c.ask.pay ELSE "nothing"]
        /\ d.pc = "insert" /\ d.hour = c.hour /\ d.charge = c.charge /\ d.since = c.since /\ d.price = c.price
    BY <1>2, <2>1
  <2>3. d.ask \in Kitchen!Ask
    BY <2>1, <2>2, AskedRows DEF Kitchen!Ask
  <2>4. CartTyped(d)
    BY <2>1, <2>2, <2>3 DEF CartTyped
  <2>5. Dines(g, d)
    BY <1>3, <1>4 DEF Dines, Calm, Kitchen!Go, Kitchen!OrderFrame, KitchenInv, FoodTyped
  <2>6. cart'[g] = d /\ Calm
    BY <2>5 DEF Dines, KitchenInv, FoodTyped
  <2>7. shown[g] \subseteq shown'[g] /\ Offered(food, roomCharge, d.ask, d.hour) \subseteq shown'[g]
    BY <1>1, <1>3, <2>2, <2>6, ShownGrows DEF Calm
  <2>8. CartTrue(c, shown[g], food, roomCharge, commits)
    BY <1>1 DEF KitchenInv
  <2>9. commits < c.since + 2 => Fair(d, shown[g])
    BY <1>3, <1>4, <2>2, <2>8, PlacedFairly DEF KitchenInv
  <2>10. commits < c.since + 2 => Fair(d, shown'[g])
    BY <2>7, <2>9 DEF Fair
  <2>11. CartTrue(d, shown'[g], food, roomCharge, commits)
    BY <1>3, <2>2, <2>7, <2>8, <2>10 DEF CartTrue
  <2> QED
    BY <2>4, <2>5, <2>11, DineKeeps
<1>5. CASE Kitchen!Refuse(g)
  BY <1>3, <1>5, Refused
<1> QED
  BY <1>3, <1>4, <1>5

LEMMA InsertKeeps ==
  ASSUME KitchenInv, Kitchen!Watch, NEW g \in Guests, Kitchen!OrderInsert(g)
  PROVE  KitchenInv'
<1>1. Dines(g, Kitchen!IdleCart)
  BY DEF Dines, Calm, Kitchen!OrderInsert, Kitchen!OrderFrame, KitchenInv, FoodTyped
<1> QED
  BY <1>1, IdleCart, DineKeeps

----------------------------------------------------------------------------
(* Steps of the managers and of the clock.                                 *)
Turns == \/ edit' = edit
         \/ \E p \in Managers : \E e : EditOK(e, food') /\ edit' = [edit EXCEPT ![p] = e]

LEMMA WritesKeep ==
  ASSUME FoodTyped, KeysApart, NEW k, NEW v, Writes(k, v)
  PROVE  /\ food' = [j \in Kitchen!Rows |-> food'[j]] /\ \A j \in Kitchen!Rows : TableRow(food'[j])
         /\ KeysApart' /\ \A e : EditOK(e, food) => EditOK(e, food')
         /\ \A l \in Places : food[l].has => food'[l].has /\ food'[l].key = food[l].key
<1>1. /\ food' = [j \in Kitchen!Rows |-> food'[j]]
      /\ \A j \in Kitchen!Rows : food'[j] = IF j = k THEN v ELSE food[j]
  BY DEF FoodTyped, Writes
<1>2. \A j \in Kitchen!Rows : TableRow(food'[j])
  BY <1>1 DEF FoodTyped, Writes
<1>3. \A j \in Kitchen!Rows : food[j].has => food'[j].has /\ food'[j].key = food[j].key
  BY <1>1 DEF Writes
<1>4. Places \subseteq Kitchen!Rows
  BY KitchenBounds
<1>5. ASSUME NEW l \in Places, NEW j \in Places, l # j, food'[l].has, food'[j].has
      PROVE  food'[l].key # food'[j].key
  <2>1. CASE l # k /\ j # k
    BY <1>1, <1>4, <1>5, <2>1 DEF KeysApart
  <2>2. CASE (l = k \/ j = k) /\ food[k].has
    BY <1>1, <1>3, <1>4, <1>5, <2>2 DEF KeysApart
  <2>3. CASE l = k /\ ~food[k].has
    <3>1. food'[l].key = v.key /\ food'[j] = food[j] /\ v.key \notin Kitchen!Keys
      BY <1>1, <1>4, <1>5, <2>3 DEF Writes
    <3> QED
      BY <1>5, <3>1 DEF Kitchen!Keys
  <2>4. CASE j = k /\ ~food[k].has
    <3>1. food'[j].key = v.key /\ food'[l] = food[l] /\ v.key \notin Kitchen!Keys
      BY <1>1, <1>4, <1>5, <2>4 DEF Writes
    <3> QED
      BY <1>5, <3>1 DEF Kitchen!Keys
  <2> QED
    BY <2>1, <2>2, <2>3, <2>4
<1>6. \A e : EditOK(e, food) => EditOK(e, food')
  BY <1>3 DEF EditOK
<1> QED
  BY <1>1, <1>2, <1>3, <1>4, <1>5, <1>6 DEF KeysApart

LEMMA MovesKeep ==
  ASSUME KitchenInv, Kitchen!Watch, Calm \/ Edited \/ Switched, Turns, cart' = cart, book' = book
  PROVE  KitchenInv' /\ Kitchen!KeysStand
<1>1. FoodTyped /\ KeysApart
  BY DEF KitchenInv
<1>2. /\ food' = [j \in Kitchen!Rows |-> food'[j]] /\ \A j \in Kitchen!Rows : TableRow(food'[j])
      /\ KeysApart' /\ \A e : EditOK(e, food) => EditOK(e, food')
      /\ \A l \in Places : food[l].has => food'[l].has /\ food'[l].key = food[l].key
  <2>1. CASE food' = food
    BY <1>1, <2>1 DEF FoodTyped, KeysApart
  <2>2. CASE Edited
    BY <1>1, <2>2, WritesKeep DEF Edited
  <2> QED
    BY <2>1, <2>2 DEF Calm, Switched
<1>3. edit' = [p \in Managers |-> edit'[p]] /\ \A p \in Managers : EditOK(edit'[p], food')
  <2>1. CASE edit' = edit
    BY <1>1, <1>2, <2>1 DEF FoodTyped
  <2>2. CASE edit' # edit
    <3>1. PICK p \in Managers : \E e : EditOK(e, food') /\ edit' = [edit EXCEPT ![p] = e]
      BY <2>2 DEF Turns
    <3>2. PICK e : EditOK(e, food') /\ edit' = [edit EXCEPT ![p] = e]
      BY <3>1
    <3>3. /\ edit' = [q \in Managers |-> edit'[q]]
          /\ \A q \in Managers : edit'[q] = IF q = p THEN e ELSE edit[q]
      BY <1>1, <3>2 DEF FoodTyped
    <3> QED
      BY <1>1, <1>2, <3>2, <3>3 DEF FoodTyped
  <2> QED
    BY <2>1, <2>2
<1>4. commits' \in Nat
  BY <1>1 DEF FoodTyped, Calm, Edited, Switched
<1>5. FoodTyped'
  BY <1>1, <1>2, <1>3, <1>4 DEF FoodTyped
<1>6. ASSUME NEW g \in Guests PROVE CartTrue(cart'[g], shown'[g], food', roomCharge', commits')
  <2>1. CartTrue(cart[g], shown[g], food, roomCharge, commits) /\ CartTyped(cart[g])
    BY <1>1 DEF KitchenInv, FoodTyped
  <2>2. cart[g].pc # "idle" => /\ shown[g] \subseteq shown'[g]
                               /\ Offered(food', roomCharge', cart[g].ask, cart[g].hour) \subseteq shown'[g]
    BY ShownGrows
  <2> QED
    BY <1>1, <2>1, <2>2, CartStays
<1>7. Kitchen!KeysStand
  BY <1>2 DEF Kitchen!KeysStand, KeysApart
<1> QED
  BY <1>2, <1>5, <1>6, <1>7 DEF KitchenInv

(* A row is created at once, or an edit of it begins.                      *)
LEMMA Blanks ==
  ASSUME NEW k
  PROVE  /\ TableRow(Kitchen!Blank(k))
         /\ \A v : TableRow(v) => DOMAIN v = {"has", "on", "inc", "price", "hours", "key"}
<1>1. (CHOOSE l \in PriceLists : TRUE) \in PriceLists
  BY KitchenBounds
<1>2. TableRow(Kitchen!Blank(k))
  BY <1>1 DEF TableRow, Kitchen!Blank
<1>3. \A v : TableRow(v) => DOMAIN v = {"has", "on", "inc", "price", "hours", "key"}
  BY DEF TableRow
<1> QED
  BY <1>2, <1>3

LEMMA Creates ==
  ASSUME KitchenInv, Kitchen!Watch, NEW k \in Kitchen!Rows \ Places, ~food[k].has,
         NEW v, TableRow(v), Kitchen!Commit(k, v), edit' = edit, Kitchen!EditFrame
  PROVE  KitchenInv' /\ Kitchen!KeysStand
<1>1. Writes(k, v)
  BY DEF Writes, Kitchen!Commit
<1>2. Edited
  BY <1>1 DEF Edited, Kitchen!Commit
<1> QED
  BY <1>2, MovesKeep DEF Turns, Kitchen!EditFrame

LEMMA Holds ==
  ASSUME KitchenInv, Kitchen!Watch, NEW p \in Managers, NEW k \in Kitchen!Rows,
         NEW v, TableRow(v), v.has = food[k].has, v.key = food[k].key, Kitchen!Hold(p, k, v)
  PROVE  KitchenInv' /\ Kitchen!KeysStand
<1>1. PICK e : e = IF v = food[k] THEN Kitchen!IdleEdit ELSE [pc |-> "save", key |-> k, row |-> v]
  OBVIOUS
<1>2. food[k].has /\ edit' = [edit EXCEPT ![p] = e] /\ Calm /\ Kitchen!EditFrame
  BY <1>1 DEF Kitchen!Hold, Calm
<1>3. EditOK(e, food)
  BY <1>1, <1>2 DEF EditOK, Kitchen!IdleEdit
<1>4. Turns
  BY <1>2, <1>3 DEF Turns, Calm
<1> QED
  BY <1>2, <1>4, MovesKeep DEF Kitchen!EditFrame

LEMMA ManageKeeps ==
  ASSUME KitchenInv, Kitchen!Watch, Kitchen!Manage
  PROVE  KitchenInv' /\ Kitchen!KeysStand
<1>1. PICK on \in BOOLEAN :
        \/ \E m \in Menus, inc \in {"in", "out"}, hours \in SUBSET Hours :
             \/ Kitchen!CreateMenu(m, on, inc, hours)
             \/ \E p \in Managers : Kitchen!UpdateMenu(p, m, on, inc, hours)
        \/ \E i \in Items, inc \in Kitchen!Covers, price \in PriceLists :
             \/ Kitchen!CreateItem(i, on, inc, price)
             \/ \E p \in Managers : Kitchen!UpdateItem(p, i, on, inc, price)
        \/ \E s \in Sections : Kitchen!CreateSection(s, on) \/ \E p \in Managers : Kitchen!UpdateSection(p, s, on)
  BY DEF Kitchen!Manage
<1>2. ASSUME NEW m \in Menus, NEW inc, NEW hours,
             \/ Kitchen!CreateMenu(m, on, inc, hours)
             \/ \E p \in Managers : Kitchen!UpdateMenu(p, m, on, inc, hours)
      PROVE  KitchenInv' /\ Kitchen!KeysStand
  <2>1. m \in Kitchen!Rows \ Places /\ TableRow(food[m])
    BY KitchenBounds DEF KitchenInv, FoodTyped
  <2>2. PICK v : v = [Kitchen!Blank(m) EXCEPT !.has = TRUE, !.on = on, !.inc = inc, !.hours = hours]
    OBVIOUS
  <2>3. PICK w : w = [food[m] EXCEPT !.on = on, !.inc = inc, !.hours = hours]
    OBVIOUS
  <2>4. TableRow(v)
    BY <2>2, Blanks DEF TableRow
  <2>5. TableRow(w) /\ w.has = food[m].has /\ w.key = food[m].key
    BY <2>1, <2>3 DEF TableRow
  <2>6. CASE Kitchen!CreateMenu(m, on, inc, hours)
    <3>1. ~food[m].has /\ Kitchen!Commit(m, v) /\ edit' = edit /\ Kitchen!EditFrame
      BY <2>2, <2>6 DEF Kitchen!CreateMenu
    <3> QED
      BY <2>1, <2>4, <3>1, Creates
  <2>7. CASE \E p \in Managers : Kitchen!UpdateMenu(p, m, on, inc, hours)
    <3>1. PICK p \in Managers : Kitchen!Hold(p, m, w)
      BY <2>3, <2>7 DEF Kitchen!UpdateMenu
    <3> QED
      BY <2>1, <2>5, <3>1, Holds
  <2> QED
    BY <1>2, <2>6, <2>7
<1>3. ASSUME NEW i \in Items, NEW inc, NEW price \in PriceLists,
             \/ Kitchen!CreateItem(i, on, inc, price)
             \/ \E p \in Managers : Kitchen!UpdateItem(p, i, on, inc, price)
      PROVE  KitchenInv' /\ Kitchen!KeysStand
  <2>1. i \in Kitchen!Rows \ Places /\ TableRow(food[i])
    BY KitchenBounds DEF KitchenInv, FoodTyped
  <2>2. PICK v : v = [Kitchen!Blank(i) EXCEPT !.has = TRUE, !.on = on, !.inc = inc, !.price = price]
    OBVIOUS
  <2>3. PICK w : w = [food[i] EXCEPT !.on = on, !.inc = inc, !.price = price]
    OBVIOUS
  <2>4. TableRow(v)
    BY <2>2, Blanks DEF TableRow
  <2>5. TableRow(w) /\ w.has = food[i].has /\ w.key = food[i].key
    BY <2>1, <2>3 DEF TableRow
  <2>6. CASE Kitchen!CreateItem(i, on, inc, price)
    <3>1. ~food[i].has /\ Kitchen!Commit(i, v) /\ edit' = edit /\ Kitchen!EditFrame
      BY <2>2, <2>6 DEF Kitchen!CreateItem
    <3> QED
      BY <2>1, <2>4, <3>1, Creates
  <2>7. CASE \E p \in Managers : Kitchen!UpdateItem(p, i, on, inc, price)
    <3>1. PICK p \in Managers : Kitchen!Hold(p, i, w)
      BY <2>3, <2>7 DEF Kitchen!UpdateItem
    <3> QED
      BY <2>1, <2>5, <3>1, Holds
  <2> QED
    BY <1>3, <2>6, <2>7
<1>4. ASSUME NEW s \in Sections,
             Kitchen!CreateSection(s, on) \/ \E p \in Managers : Kitchen!UpdateSection(p, s, on)
      PROVE  KitchenInv' /\ Kitchen!KeysStand
  <2>1. s \in Kitchen!Rows \ Places /\ TableRow(food[s])
    BY KitchenBounds DEF KitchenInv, FoodTyped
  <2>2. PICK v : v = [Kitchen!Blank(s) EXCEPT !.has = TRUE, !.on = on]
    OBVIOUS
  <2>3. PICK w : w = [food[s] EXCEPT !.on = on]
    OBVIOUS
  <2>4. TableRow(v)
    BY <2>2, Blanks DEF TableRow
  <2>5. TableRow(w) /\ w.has = food[s].has /\ w.key = food[s].key
    BY <2>1, <2>3 DEF TableRow
  <2>6. CASE Kitchen!CreateSection(s, on)
    <3>1. ~food[s].has /\ Kitchen!Commit(s, v) /\ edit' = edit /\ Kitchen!EditFrame
      BY <2>2, <2>6 DEF Kitchen!CreateSection
    <3> QED
      BY <2>1, <2>4, <3>1, Creates
  <2>7. CASE \E p \in Managers : Kitchen!UpdateSection(p, s, on)
    <3>1. PICK p \in Managers : Kitchen!Hold(p, s, w)
      BY <2>3, <2>7 DEF Kitchen!UpdateSection
    <3> QED
      BY <2>1, <2>5, <3>1, Holds
  <2> QED
    BY <1>4, <2>6, <2>7
<1> QED
  BY <1>1, <1>2, <1>3, <1>4

LEMMA SaveKeepsMenu ==
  ASSUME KitchenInv, Kitchen!Watch, NEW p \in Managers, Kitchen!Save(p)
  PROVE  KitchenInv' /\ Kitchen!KeysStand
<1>1. PICK k, v : k = edit[p].key /\ v = edit[p].row
  OBVIOUS
<1>2. /\ edit[p].pc = "save" /\ Kitchen!Commit(k, v) /\ edit' = [edit EXCEPT ![p] = Kitchen!IdleEdit]
      /\ Kitchen!EditFrame
  BY <1>1 DEF Kitchen!Save
<1>3. EditOK(edit[p], food)
  BY DEF KitchenInv, FoodTyped
<1>4. Writes(k, v)
  BY <1>1, <1>2, <1>3 DEF Writes, EditOK, Kitchen!Commit
<1>5. Edited
  BY <1>2, <1>4 DEF Edited, Kitchen!Commit
<1>6. Turns
  BY <1>2 DEF Turns, EditOK, Kitchen!IdleEdit
<1> QED
  BY <1>2, <1>5, <1>6, MovesKeep DEF Kitchen!EditFrame

LEMMA LocateKeeps ==
  ASSUME KitchenInv, Kitchen!Watch, Kitchen!Locate
  PROVE  KitchenInv' /\ Kitchen!KeysStand
<1>1. PICK l \in Places, p \in Managers :
        \/ \E on \in BOOLEAN : Kitchen!CreateLocationRead(p, l, on) \/ Kitchen!UpdateLocation(p, l, on)
        \/ Kitchen!CreateLocationInsert(p)
  BY DEF Kitchen!Locate
<1>2. l \in Kitchen!Rows /\ TableRow(food[l]) /\ EditOK(edit[p], food)
  BY KitchenBounds DEF KitchenInv, FoodTyped
<1>3. ASSUME NEW on, Kitchen!CreateLocationRead(p, l, on) PROVE KitchenInv' /\ Kitchen!KeysStand
  <2>1. PICK first : first = CHOOSE n \in 1..Kitchen!Cardinality(Places) :
                       n \notin Kitchen!Keys /\ \A k \in 1..(n - 1) : k \in Kitchen!Keys
    OBVIOUS
  <2>2. PICK v : v = [Kitchen!Blank(l) EXCEPT !.has = TRUE, !.on = on, !.key = first]
    OBVIOUS
  <2>3. TableRow(v) /\ v.has
    BY <2>2, Blanks DEF TableRow
  <2>4. PICK e : e = [pc |-> "create", key |-> l, row |-> v]
    OBVIOUS
  <2>5. edit' = [edit EXCEPT ![p] = e] /\ Calm /\ Kitchen!EditFrame
    BY <1>3, <2>1, <2>2, <2>4 DEF Kitchen!CreateLocationRead, Calm
  <2>6. EditOK(e, food)
    BY <1>2, <2>3, <2>4 DEF EditOK
  <2>7. Turns
    BY <2>5, <2>6 DEF Turns, Calm
  <2> QED
    BY <2>5, <2>7, MovesKeep DEF Kitchen!EditFrame
<1>4. ASSUME NEW on, Kitchen!UpdateLocation(p, l, on) PROVE KitchenInv' /\ Kitchen!KeysStand
  <2>1. PICK w : w = [food[l] EXCEPT !.on = on]
    OBVIOUS
  <2>2. TableRow(w) /\ w.has = food[l].has /\ w.key = food[l].key
    BY <1>2, <2>1 DEF TableRow
  <2>3. Kitchen!Hold(p, l, w)
    BY <1>4, <2>1 DEF Kitchen!UpdateLocation
  <2> QED
    BY <1>2, <2>2, <2>3, Holds
<1>5. CASE Kitchen!CreateLocationInsert(p)
  <2>1. PICK k, v : k = edit[p].key /\ v = edit[p].row
    OBVIOUS
  <2>2. /\ edit[p].pc = "create" /\ ~food[k].has /\ edit' = [edit EXCEPT ![p] = Kitchen!IdleEdit]
        /\ Kitchen!EditFrame /\ k \in Kitchen!Rows /\ TableRow(v)
        /\ Calm \/ (v.key \notin Kitchen!Keys /\ Kitchen!Commit(k, v))
    BY <1>2, <1>5, <2>1 DEF Kitchen!CreateLocationInsert, Calm, EditOK
  <2>3. Turns
    BY <2>2 DEF Turns, EditOK, Kitchen!IdleEdit
  <2>4. Calm \/ Edited
    BY <2>2 DEF Edited, Writes, Kitchen!Commit
  <2> QED
    BY <2>2, <2>3, <2>4, MovesKeep DEF Kitchen!EditFrame
<1> QED
  BY <1>1, <1>3, <1>4, <1>5

----------------------------------------------------------------------------
(* Every step.                                                             *)
LEMMA DiningKeeps ==
  ASSUME KitchenInv, Kitchen!Watch, NEW g \in Guests, Kitchen!Dine(g)
  PROVE  KitchenInv'
BY StartKeeps, ItemKeeps, ParentKeeps, JudgeKeeps, PlaceKeeps, InsertKeeps DEF Kitchen!Dine

LEMMA KitchenStep == KitchenInv /\ [Kitchen!Next]_(Kitchen!vars) => KitchenInv'
<1>1. ASSUME KitchenInv, Kitchen!Next PROVE KitchenInv'
  <2>1. Kitchen!Step /\ Kitchen!Watch
    BY <1>1 DEF Kitchen!Next
  <2>2. CASE \E on \in BOOLEAN : Kitchen!SetRoomCharge(on)
    <3>1. Switched /\ Turns /\ cart' = cart /\ book' = book
      BY <2>2 DEF Kitchen!SetRoomCharge, Kitchen!EditFrame, Switched, Turns
    <3> QED
      BY <1>1, <2>1, <3>1, MovesKeep
  <2>3. CASE \E h \in Hours : Kitchen!Tick(h)
    <3>1. Calm /\ Turns /\ cart' = cart /\ book' = book
      BY <2>3 DEF Kitchen!Tick, Calm, Turns
    <3> QED
      BY <1>1, <2>1, <3>1, MovesKeep
  <2> QED
    BY <1>1, <2>1, <2>2, <2>3, ManageKeeps, LocateKeeps, SaveKeepsMenu, DiningKeeps DEF Kitchen!Step
<1>2. ASSUME KitchenInv, UNCHANGED Kitchen!vars PROVE KitchenInv'
  <2>1. UNCHANGED <<food, roomCharge, edit, cart, book, shown, commits>>
    BY <1>2 DEF Kitchen!vars
  <2>2. FoodTyped' /\ KeysApart'
    BY <1>2, <2>1 DEF KitchenInv, FoodTyped, KeysApart
  <2>3. \A g \in Guests : CartTrue(cart'[g], shown'[g], food', roomCharge', commits')
    BY <1>2, <2>1 DEF KitchenInv
  <2> QED
    BY <2>2, <2>3 DEF KitchenInv
<1> QED
  BY <1>1, <1>2

LEMMA KitchenInit == Kitchen!Init => KitchenInv
<1> SUFFICES ASSUME Kitchen!Init PROVE KitchenInv
  OBVIOUS
<1>1. PICK there \in {{}, Items \cup Sections \cup Menus} :
        food = [k \in Kitchen!Rows |-> [Kitchen!Blank(k) EXCEPT !.has = k \in there]]
  BY DEF Kitchen!Init
<1>2. /\ edit = [p \in Managers |-> Kitchen!IdleEdit] /\ cart = [g \in Guests |-> Kitchen!IdleCart]
      /\ book = [g \in Guests |-> Kitchen!NoOrder] /\ commits = 0
  BY DEF Kitchen!Init
<1>3. ASSUME NEW k \in Kitchen!Rows PROVE TableRow(food[k]) /\ food[k].has = (k \in there)
  <2>1. food[k] = [Kitchen!Blank(k) EXCEPT !.has = k \in there]
    BY <1>1
  <2> QED
    BY <2>1, Blanks DEF TableRow
<1>4. FoodTyped
  <2>1. food = [k \in Kitchen!Rows |-> food[k]]
    BY <1>1
  <2>2. \A p \in Managers : EditOK(edit[p], food)
    BY <1>2 DEF EditOK, Kitchen!IdleEdit
  <2> QED
    BY <1>2, <1>3, <2>1, <2>2, IdleCart DEF FoodTyped
<1>5. KeysApart
  BY <1>1, <1>3, KitchenBounds DEF KeysApart
<1>6. \A g \in Guests : CartTrue(cart[g], shown[g], food, roomCharge, commits)
  BY <1>2, IdleCart DEF CartTrue
<1> QED
  BY <1>4, <1>5, <1>6 DEF KitchenInv

(* An order that is booked is the one that was inserted.                   *)
LEMMA Booked ==
  ASSUME KitchenInv, Kitchen!Step, NEW g \in Guests, book'[g] # book[g]
  PROVE  Kitchen!OrderInsert(g)
<1>1. PICK h \in Guests : Kitchen!Dine(h)
  BY DEF Kitchen!Step, Kitchen!Manage, Kitchen!Locate, Kitchen!Save, Kitchen!SetRoomCharge, Kitchen!Tick,
         Kitchen!CreateMenu, Kitchen!UpdateMenu, Kitchen!CreateItem, Kitchen!UpdateItem,
         Kitchen!CreateSection, Kitchen!UpdateSection, Kitchen!Hold, Kitchen!UpdateLocation,
         Kitchen!CreateLocationRead, Kitchen!CreateLocationInsert, Kitchen!EditFrame
<1>2. Kitchen!OrderInsert(h)
  BY <1>1 DEF Kitchen!Dine, Kitchen!OrderStart, Kitchen!OrderItem, Kitchen!OrderParent, Kitchen!OrderJudge,
              Kitchen!OrderPlace, Kitchen!Go, Kitchen!Refuse
<1>3. h = g
  BY <1>2 DEF Kitchen!OrderInsert, KitchenInv, FoodTyped
<1> QED
  BY <1>2, <1>3

LEMMA BookedFairly ==
  ASSUME KitchenInv, Kitchen!Step, NEW g \in Guests, book'[g] # book[g], commits - cart[g].since < 2
  PROVE  \E t \in shown[g] : /\ book'[g].price = t.price
                             /\ book'[g].pay = "room_charge" => t.charge
                             /\ (book'[g].pay = "nothing") = (t.price = 0)
<1>1. Kitchen!OrderInsert(g)
  BY Booked
<1>2. /\ cart[g].pc = "insert"
      /\ book'[g] = [made |-> TRUE, price |-> cart[g].price, pay |-> cart[g].ask.pay]
  BY <1>1 DEF Kitchen!OrderInsert, KitchenInv, FoodTyped
<1>3. /\ CartTrue(cart[g], shown[g], food, roomCharge, commits)
      /\ cart[g].since \in Nat /\ commits \in Nat
  BY <1>2 DEF KitchenInv, FoodTyped, CartTyped
<1>4. commits < cart[g].since + 2
  BY <1>3
<1>5. Fair(cart[g], shown[g])
  BY <1>2, <1>3, <1>4 DEF CartTrue
<1> QED
  BY <1>2, <1>5 DEF Fair

LEMMA KeysStandStill ==
  ASSUME KitchenInv, Kitchen!Next
  PROVE  Kitchen!KeysStand
<1>1. Kitchen!Step /\ Kitchen!Watch
  BY DEF Kitchen!Next
<1>2. KitchenInv /\ KeysApart
  BY DEF KitchenInv
<1>3. CASE food' = food
  BY <1>2, <1>3 DEF Kitchen!KeysStand, KeysApart
<1>4. CASE food' # food
  BY <1>1, <1>4, ManageKeeps, LocateKeeps, SaveKeepsMenu
     DEF Kitchen!Step, Kitchen!SetRoomCharge, Kitchen!Tick, Kitchen!Dine, Kitchen!OrderStart, Kitchen!OrderItem,
         Kitchen!OrderParent, Kitchen!OrderJudge, Kitchen!OrderPlace, Kitchen!OrderInsert, Kitchen!OrderFrame
<1> QED
  BY <1>3, <1>4

(* For every catalog and any number of managers and guests: the keys of    *)
(* locations stay and are unique, and an order that met at most one edit   *)
(* costs, and is charged to the room, as the menu showed it at one moment  *)
(* of the call (GuestFnbService.createOrder, uniqueKey).                   *)
THEOREM OrdersAsShown == Kitchen!Spec => OrderedAsShown
<1>1. Kitchen!Init => KitchenInv
  BY KitchenInit
<1>2. KitchenInv /\ [Kitchen!Next]_(Kitchen!vars) => KitchenInv'
  BY KitchenStep
<1>3. KitchenInv /\ [Kitchen!Next]_(Kitchen!vars) =>
        [/\ Kitchen!KeysStand
         /\ \A g \in Guests : book'[g] # book[g] /\ commits - cart[g].since < 2 =>
              \E t \in shown[g] :
                /\ book'[g].price = t.price
                /\ book'[g].pay = "room_charge" => t.charge
                /\ (book'[g].pay = "nothing") = (t.price = 0)]_(Kitchen!vars)
  <2> SUFFICES ASSUME KitchenInv, Kitchen!Next
               PROVE  /\ Kitchen!KeysStand
                      /\ \A g \in Guests : book'[g] # book[g] /\ commits - cart[g].since < 2 =>
                           \E t \in shown[g] :
                             /\ book'[g].price = t.price
                             /\ book'[g].pay = "room_charge" => t.charge
                             /\ (book'[g].pay = "nothing") = (t.price = 0)
    OBVIOUS
  <2>1. Kitchen!Step
    BY DEF Kitchen!Next
  <2> QED
    BY <2>1, KeysStandStill, BookedFairly
<1> QED
  BY <1>1, <1>2, <1>3, PTL DEF Kitchen!Spec, OrderedAsShown, Kitchen!OrderedAsShown

----------------------------------------------------------------------------
(* The rooms of a hotel, for any numbers, types, batches, limit and calls. *)
(* What a call under the lock will write was judged against the rooms, and *)
(* as nobody else writes rooms or moves a guest in until it has, it still  *)
(* fits: WrittenOK says so of the table as it will be.                     *)
RoomRow == [number : Numbers, type : Types, status : {"active", "out_of_service", "inactive"}]

NumbersOf(s) == {s[i].number : i \in DOMAIN s}
RoomsDiffer(s) == \A i, j \in DOMAIN s : i # j => s[i].number # s[j].number
Seats(s) == {i \in DOMAIN s : s[i].status \in Stock!Countable}

WrittenTo(s, at, rows) ==
  [i \in 1..(IF at + Len(rows) > Len(s) THEN at + Len(rows) ELSE Len(s)) |->
     IF i \in (at + 1)..(at + Len(rows)) THEN rows[i - at] ELSE s[i]]

WrittenOK(new, s, st) ==
  /\ RoomsDiffer(new) /\ Cardinality(Seats(new)) <= Limit
  /\ \A i \in DOMAIN s : /\ new[i].number # s[i].number => st[i] = {}
                         /\ "now" \in st[i] => new[i].status = "active"

BatchDone(s, new, asked) ==
  asked # <<>> =>
    /\ NumbersOf(new) = NumbersOf(s) \cup {asked[k].number : k \in DOMAIN asked}
    /\ \A i \in (Len(s) + 1)..Len(new) : new[i].type = Stock!First(asked, new[i].number).type

RoomsCall(c, s, st) ==
  /\ c.at \in Nat /\ c.at <= Len(s) /\ c.rows \in Seq(RoomRow) /\ c.at + Len(c.rows) <= MaxRooms
  /\ WrittenOK(WrittenTo(s, c.at, c.rows), s, st)
  /\ BatchDone(s, WrittenTo(s, c.at, c.rows), c.ask)

TypeCall(c, s, ty) ==
  ty[c.key].active /\ ~c.row.active => \A i \in DOMAIN s : s[i].type # c.key

StockCall(c, s, st) ==
  /\ c.pc \in {"idle", "rooms", "type"}
  /\ c.pc = "idle" => c = Stock!Idle
  /\ c.pc = "rooms" => RoomsCall(c, s, st)

StockTyped ==
  /\ built \in Seq(RoomRow) /\ Len(built) <= MaxRooms /\ RoomsDiffer(built)
  /\ Cardinality(Seats(built)) <= Limit
  /\ plan = [t \in Types |-> plan[t]] /\ onPlan = [i \in 1..MaxRooms |-> onPlan[i]]
  /\ call = [p \in Callers |-> call[p]]
  /\ \A i \in 1..MaxRooms : "now" \in onPlan[i] => i \in DOMAIN built /\ built[i].status = "active"

StockInv ==
  /\ StockTyped
  /\ \A p \in Callers : StockCall(call[p], built, onPlan)
  /\ \A p, q \in Callers : call[p].pc = "rooms" /\ call[q].pc = "rooms" => p = q
  /\ \/ lapped
     \/ /\ \A p, q \in Callers : p # q => call[p] = Stock!Idle \/ call[q] = Stock!Idle
        /\ \A p \in Callers : call[p].pc = "type" => TypeCall(call[p], built, plan)

----------------------------------------------------------------------------
LEMMA StockBounds ==
  /\ Limit \in Nat /\ MaxRooms \in Nat /\ None \notin Types \cup TypeNames \cup Numbers
  /\ Batches \subseteq Seq([number : Numbers, type : Types])
  /\ \A S : Stock!Cardinality(S) = Cardinality(S)
<1>1. /\ Limit \in Nat /\ MaxRooms \in Nat /\ None \notin Types \cup TypeNames \cup Numbers
      /\ Batches \subseteq Seq([number : Numbers, type : Types])
  BY ScenesAssumption DEF Stock!Parameters
<1>2. \A S : Stock!Cardinality(S) = Cardinality(S)
  BY Zenon DEF Stock!Cardinality, Cardinality
<1> QED
  BY <1>1, <1>2

LEMMA LeastNumber ==
  ASSUME NEW X \in SUBSET Nat, X # {}
  PROVE  \E m \in X : \A j \in X : m <= j
<1>1. PICK m \in X : \A j \in X : ~(<<j, m>> \in OpToRel(<, Nat))
  BY NatLessThanWellFounded, WFMin
<1>2. \A j \in X : ~(j < m)
  BY <1>1 DEF OpToRel
<1>3. \A j \in X : j \in Nat /\ m \in Nat
  OBVIOUS
<1> QED
  BY <1>2, <1>3

(* BulkRows folds over the asked; the fold exists for every asked.         *)
Kept(g, k, out, rows) ==
  IF k = 0 THEN <<>> ELSE IF k \in out THEN g[k - 1] ELSE Append(g[k - 1], rows[k])
Folds(g, n, out, rows) == g = [k \in 0..n |-> Kept(g, k, out, rows)]

LEMMA FoldExists ==
  ASSUME NEW out, NEW rows, NEW n \in Nat
  PROVE  \E g : Folds(g, n, out, rows)
<1>1. PICK X : X = {m \in Nat : ~\E g : Folds(g, m, out, rows)}
  OBVIOUS
<1>2. SUFFICES X = {}
  BY <1>1
<1>3. SUFFICES ASSUME X # {} PROVE FALSE
  OBVIOUS
<1>4. PICK m \in X : \A j \in X : m <= j
  BY <1>1, <1>3, LeastNumber
<1>5. m \in Nat /\ ~\E g : Folds(g, m, out, rows)
  BY <1>1
<1>6. CASE m = 0
  <2>1. PICK g : g = [k \in 0..0 |-> <<>>]
    OBVIOUS
  <2>2. \A k \in 0..0 : Kept(g, k, out, rows) = <<>>
    BY DEF Kept
  <2>3. Folds(g, 0, out, rows)
    BY <2>1, <2>2 DEF Folds
  <2> QED
    BY <1>5, <1>6, <2>3
<1>7. CASE m # 0
  <2>1. m - 1 \in Nat /\ m - 1 \notin X
    BY <1>4, <1>5, <1>7
  <2>2. PICK g : Folds(g, m - 1, out, rows)
    BY <1>1, <2>1
  <2>3. PICK last : last = IF m \in out THEN g[m - 1] ELSE Append(g[m - 1], rows[m])
    OBVIOUS
  <2>4. PICK h : h = [k \in 0..m |-> IF k = m THEN last ELSE g[k]]
    OBVIOUS
  <2>5. ASSUME NEW k \in 0..m PROVE h[k] = Kept(h, k, out, rows)
    <3>1. CASE k = 0
      <4>1. h[k] = g[0] /\ g[0] = Kept(g, 0, out, rows)
        BY <1>7, <2>1, <2>2, <2>4, <3>1 DEF Folds
      <4> QED
        BY <3>1, <4>1 DEF Kept
    <3>2. CASE k # 0 /\ k # m
      <4>1. k \in 0..(m - 1) /\ k - 1 \in 0..m /\ k - 1 # m
        BY <1>5, <3>2
      <4>2. h[k] = g[k] /\ h[k - 1] = g[k - 1] /\ g[k] = Kept(g, k, out, rows)
        BY <2>2, <2>4, <3>2, <4>1 DEF Folds
      <4> QED
        BY <3>2, <4>2 DEF Kept
    <3>3. CASE k = m
      <4>1. h[m] = last /\ h[m - 1] = g[m - 1]
        BY <1>5, <1>7, <2>1, <2>4
      <4> QED
        BY <1>7, <2>3, <3>3, <4>1 DEF Kept
    <3> QED
      BY <3>1, <3>2, <3>3
  <2>6. Folds(h, m, out, rows)
    BY <2>4, <2>5 DEF Folds
  <2> QED
    BY <1>5, <2>6
<1> QED
  BY <1>6, <1>7

Dups(b) == {k \in DOMAIN b : Stock!Duplicate(b, k)}
ActiveRows(b) == [k \in DOMAIN b |-> [number |-> b[k].number, type |-> b[k].type, status |-> "active"]]

LEMMA BulkFolds ==
  ASSUME NEW asked \in Batches
  PROVE  \E g : Folds(g, Len(asked), Dups(asked), ActiveRows(asked)) /\ Stock!BulkRows(asked) = g[Len(asked)]
<1> DEFINE Fold(g) ==
      g = [k \in 0..Len(asked) |->
             IF k = 0 THEN <<>>
             ELSE IF Stock!Duplicate(asked, k) THEN g[k - 1]
             ELSE Append(g[k - 1], [number |-> asked[k].number, type |-> asked[k].type, status |-> "active"])]
<1>1. Len(asked) \in Nat /\ DOMAIN asked = 1..Len(asked)
  BY StockBounds
<1>2. PICK g : Folds(g, Len(asked), Dups(asked), ActiveRows(asked))
  BY <1>1, FoldExists
<1>3. ASSUME NEW h
      PROVE  Fold(h) <=> Folds(h, Len(asked), Dups(asked), ActiveRows(asked))
  <2>1. ASSUME NEW k \in 0..Len(asked)
        PROVE  Kept(h, k, Dups(asked), ActiveRows(asked)) =
                 IF k = 0 THEN <<>>
                 ELSE IF Stock!Duplicate(asked, k) THEN h[k - 1]
                 ELSE Append(h[k - 1], [number |-> asked[k].number, type |-> asked[k].type, status |-> "active"])
    <3>1. k # 0 => k \in DOMAIN asked
      BY <1>1
    <3>2. k # 0 => /\ k \in Dups(asked) <=> Stock!Duplicate(asked, k)
                   /\ ActiveRows(asked)[k] = [number |-> asked[k].number, type |-> asked[k].type, status |-> "active"]
      BY <3>1 DEF Dups, ActiveRows
    <3> QED
      BY <3>2 DEF Kept
  <2> QED
    BY <2>1 DEF Folds
<1>4. \E h : Fold(h)
  BY <1>2, <1>3
<1>5. Fold(CHOOSE h : Fold(h))
  BY <1>4
<1>6. Stock!BulkRows(asked) = (CHOOSE h : Fold(h))[Len(asked)]
  BY DEF Stock!BulkRows
<1> HIDE DEF Fold
<1> QED
  BY <1>3, <1>5, <1>6

(* What the fold keeps: of each number the hotel lacks, the first row.     *)
KeepsFirsts(b, q, k) ==
  /\ q \in Seq(RoomRow) /\ Len(q) <= k /\ RoomsDiffer(q)
  /\ \A j \in DOMAIN q : \E n \in 1..k : n \notin Dups(b) /\ q[j] = ActiveRows(b)[n]
  /\ \A n \in 1..k : n \notin Dups(b) => \E j \in DOMAIN q : q[j] = ActiveRows(b)[n]

LEMMA OneMore ==
  ASSUME NEW asked \in Batches, NEW k \in DOMAIN asked, k \notin Dups(asked),
         NEW q, KeepsFirsts(asked, q, k - 1)
  PROVE  KeepsFirsts(asked, Append(q, ActiveRows(asked)[k]), k)
<1>1. /\ Len(asked) \in Nat /\ DOMAIN asked = 1..Len(asked)
      /\ k \in Nat /\ k - 1 \in Nat /\ 1..(k - 1) \subseteq DOMAIN asked
  BY StockBounds
<1>2. PICK v : v = ActiveRows(asked)[k]
  OBVIOUS
<1>3. /\ v = [number |-> asked[k].number, type |-> asked[k].type, status |-> "active"]
      /\ asked[k] \in [number : Numbers, type : Types]
  <2>1. asked \in Seq([number : Numbers, type : Types])
    BY StockBounds
  <2>2. asked[k] \in [number : Numbers, type : Types]
    <3>1. PICK S : S = [number : Numbers, type : Types]
      OBVIOUS
    <3>2. asked \in Seq(S) /\ k \in 1..Len(asked)
      BY <1>1, <2>1, <3>1
    <3>3. asked[k] \in S
      BY <3>2
    <3> QED
      BY <3>1, <3>3
  <2>3. v = [number |-> asked[k].number, type |-> asked[k].type, status |-> "active"]
    BY <1>2 DEF ActiveRows
  <2> QED
    BY <2>2, <2>3
<1>4. v \in RoomRow /\ v.number = asked[k].number
  BY <1>3 DEF RoomRow
<1>5. PICK w : w = Append(q, v)
  OBVIOUS
<1>6. /\ q \in Seq(RoomRow) /\ w \in Seq(RoomRow) /\ Len(w) = Len(q) + 1 /\ w[Len(q) + 1] = v
      /\ \A j \in 1..Len(q) : w[j] = q[j]
      /\ DOMAIN q = 1..Len(q) /\ DOMAIN w = 1..(Len(q) + 1) /\ Len(q) \in Nat
  BY <1>4, <1>5 DEF KeepsFirsts
<1>7. ASSUME NEW j \in DOMAIN q PROVE q[j].number # v.number
  <2>1. PICK n \in 1..(k - 1) : n \notin Dups(asked) /\ q[j] = ActiveRows(asked)[n]
    BY DEF KeepsFirsts
  <2>2. q[j].number = asked[n].number
    BY <1>1, <2>1 DEF ActiveRows
  <2>3. asked[n].number # asked[k].number
    BY DEF Dups, Stock!Duplicate
  <2> QED
    BY <1>4, <2>2, <2>3
<1>8. RoomsDiffer(w)
  <2> SUFFICES ASSUME NEW i \in DOMAIN w, NEW j \in DOMAIN w, i # j PROVE w[i].number # w[j].number
    BY DEF RoomsDiffer
  <2>1. CASE i = Len(q) + 1
    <3>1. j \in DOMAIN q /\ w[j] = q[j]
      BY <1>6, <2>1
    <3> QED
      BY <1>6, <1>7, <2>1, <3>1
  <2>2. CASE j = Len(q) + 1
    <3>1. i \in DOMAIN q /\ w[i] = q[i]
      BY <1>6, <2>2
    <3> QED
      BY <1>6, <1>7, <2>2, <3>1
  <2>3. CASE i # Len(q) + 1 /\ j # Len(q) + 1
    <3>1. i \in DOMAIN q /\ j \in DOMAIN q /\ w[i] = q[i] /\ w[j] = q[j]
      BY <1>6, <2>3
    <3> QED
      BY <3>1 DEF KeepsFirsts, RoomsDiffer
  <2> QED
    BY <2>1, <2>2, <2>3
<1>9. ASSUME NEW j \in DOMAIN w PROVE \E n \in 1..k : n \notin Dups(asked) /\ w[j] = ActiveRows(asked)[n]
  <2>1. CASE j = Len(q) + 1
    BY <1>1, <1>2, <1>6, <2>1
  <2>2. CASE j # Len(q) + 1
    <3>1. j \in DOMAIN q /\ w[j] = q[j]
      BY <1>6, <2>2
    <3>2. PICK n \in 1..(k - 1) : n \notin Dups(asked) /\ q[j] = ActiveRows(asked)[n]
      BY <3>1 DEF KeepsFirsts
    <3>3. n \in 1..k
      BY <1>1
    <3> QED
      BY <3>1, <3>2, <3>3
  <2> QED
    BY <2>1, <2>2
<1>10. ASSUME NEW n \in 1..k, n \notin Dups(asked) PROVE \E j \in DOMAIN w : w[j] = ActiveRows(asked)[n]
  <2>1. CASE n = k
    BY <1>2, <1>6, <2>1
  <2>2. CASE n # k
    <3>1. n \in 1..(k - 1)
      BY <1>1, <2>2
    <3>2. PICK j \in DOMAIN q : q[j] = ActiveRows(asked)[n]
      BY <1>10, <3>1 DEF KeepsFirsts
    <3>3. j \in DOMAIN w /\ w[j] = q[j]
      BY <1>6
    <3> QED
      BY <3>2, <3>3
  <2> QED
    BY <2>1, <2>2
<1>11. Len(w) <= k
  BY <1>1, <1>6 DEF KeepsFirsts
<1> QED
  BY <1>2, <1>5, <1>6, <1>8, <1>9, <1>10, <1>11 DEF KeepsFirsts

LEMMA BulkKeeps ==
  ASSUME NEW asked \in Batches
  PROVE  KeepsFirsts(asked, Stock!BulkRows(asked), Len(asked))
<1>1. Len(asked) \in Nat /\ DOMAIN asked = 1..Len(asked)
  BY StockBounds
<1>2. PICK g : Folds(g, Len(asked), Dups(asked), ActiveRows(asked)) /\ Stock!BulkRows(asked) = g[Len(asked)]
  BY BulkFolds
<1>3. \A k \in 0..Len(asked) : g[k] = Kept(g, k, Dups(asked), ActiveRows(asked))
  BY <1>2 DEF Folds
<1>4. PICK X : X = {k \in 0..Len(asked) : ~KeepsFirsts(asked, g[k], k)}
  OBVIOUS
<1>5. SUFFICES X = {}
  BY <1>1, <1>2, <1>4
<1>6. SUFFICES ASSUME X # {} PROVE FALSE
  OBVIOUS
<1>7. PICK m \in X : \A j \in X : m <= j
  <2>1. X \in SUBSET Nat
    BY <1>1, <1>4
  <2> QED
    BY <1>6, <2>1, LeastNumber
<1>8. m \in 0..Len(asked) /\ ~KeepsFirsts(asked, g[m], m)
  BY <1>4
<1>9. CASE m = 0
  <2>1. g[0] = <<>>
    BY <1>1, <1>3 DEF Kept
  <2>2. PICK q : q = <<>>
    OBVIOUS
  <2>3. q \in Seq(RoomRow) /\ Len(q) = 0 /\ DOMAIN q = {}
    BY <2>2
  <2>4. KeepsFirsts(asked, q, 0)
    BY <2>3 DEF KeepsFirsts, RoomsDiffer
  <2> QED
    BY <1>8, <1>9, <2>1, <2>2, <2>4
<1>10. CASE m # 0
  <2>1. m - 1 \in 0..Len(asked) /\ m - 1 \notin X /\ m \in DOMAIN asked /\ m \in Nat
    BY <1>1, <1>7, <1>8, <1>10
  <2>2. KeepsFirsts(asked, g[m - 1], m - 1)
    BY <1>4, <2>1
  <2>3. CASE m \notin Dups(asked)
    <3>1. g[m] = Append(g[m - 1], ActiveRows(asked)[m])
      BY <1>3, <1>8, <1>10, <2>3 DEF Kept
    <3> QED
      BY <1>8, <2>1, <2>2, <2>3, <3>1, OneMore
  <2>4. CASE m \in Dups(asked)
    <3>1. g[m] = g[m - 1]
      BY <1>3, <1>8, <1>10, <2>4 DEF Kept
    <3>2. PICK q : q = g[m] /\ KeepsFirsts(asked, q, m - 1)
      BY <2>2, <3>1
    <3>3. Len(q) <= m
      BY <2>1, <3>2 DEF KeepsFirsts
    <3>4. \A j \in DOMAIN q : \E n \in 1..m : n \notin Dups(asked) /\ q[j] = ActiveRows(asked)[n]
      <4> SUFFICES ASSUME NEW j \in DOMAIN q
                   PROVE  \E n \in 1..m : n \notin Dups(asked) /\ q[j] = ActiveRows(asked)[n]
        OBVIOUS
      <4>1. PICK n \in 1..(m - 1) : n \notin Dups(asked) /\ q[j] = ActiveRows(asked)[n]
        BY <3>2 DEF KeepsFirsts
      <4> QED
        BY <2>1, <4>1
    <3>5. \A n \in 1..m : n \notin Dups(asked) => n \in 1..(m - 1)
      BY <2>1, <2>4
    <3>6. KeepsFirsts(asked, q, m)
      BY <3>2, <3>3, <3>4, <3>5 DEF KeepsFirsts
    <3> QED
      BY <1>8, <3>2, <3>6
  <2> QED
    BY <2>3, <2>4
<1> QED
  BY <1>9, <1>10

(* A bulk commit takes up each number that the hotel lacked, as the first  *)
(* row with it asks.                                                       *)
LEMMA BulkFresh ==
  ASSUME NEW asked \in Batches, NEW q, q = Stock!BulkRows(asked)
  PROVE  /\ q \in Seq(RoomRow) /\ Len(q) <= Len(asked) /\ RoomsDiffer(q)
         /\ \A j \in DOMAIN q : /\ q[j].number \notin NumbersOf(built) /\ q[j].status = "active"
                                /\ q[j].type = Stock!First(asked, q[j].number).type
         /\ NumbersOf(built) \cup NumbersOf(q) = NumbersOf(built) \cup {asked[k].number : k \in DOMAIN asked}
<1>1. Len(asked) \in Nat /\ DOMAIN asked = 1..Len(asked)
  BY StockBounds
<1>2. KeepsFirsts(asked, q, Len(asked))
  BY BulkKeeps
<1>3. Stock!Existing = NumbersOf(built)
  BY DEF Stock!Existing, NumbersOf
<1>4. ASSUME NEW n \in DOMAIN asked
      PROVE  /\ ActiveRows(asked)[n].number = asked[n].number /\ ActiveRows(asked)[n].type = asked[n].type
             /\ ActiveRows(asked)[n].status = "active"
  BY DEF ActiveRows
<1>5. ASSUME NEW j \in DOMAIN q
      PROVE  /\ q[j].number \notin NumbersOf(built) /\ q[j].status = "active"
             /\ q[j].type = Stock!First(asked, q[j].number).type
             /\ q[j].number \in {asked[k].number : k \in DOMAIN asked}
  <2>1. PICK n \in 1..Len(asked) : n \notin Dups(asked) /\ q[j] = ActiveRows(asked)[n]
    BY <1>2 DEF KeepsFirsts
  <2>2. n \in DOMAIN asked /\ n \in Nat
    BY <1>1
  <2>3. q[j].number = asked[n].number /\ q[j].type = asked[n].type /\ q[j].status = "active"
    BY <1>4, <2>1, <2>2
  <2>4. asked[n].number \notin NumbersOf(built) /\ \A i \in 1..(n - 1) : asked[i].number # asked[n].number
    BY <1>3, <2>1, <2>2 DEF Dups, Stock!Duplicate
  <2>5. PICK x : x = asked[n].number
    OBVIOUS
  <2>6. \A k \in DOMAIN asked :
          asked[k].number = x /\ (\A i \in 1..(k - 1) : asked[i].number # x) => k = n
    <3> SUFFICES ASSUME NEW k \in DOMAIN asked, asked[k].number = x,
                        \A i \in 1..(k - 1) : asked[i].number # x, k # n
                 PROVE  FALSE
      OBVIOUS
    <3>1. k \in Nat /\ k >= 1 /\ n >= 1
      BY <1>1
    <3>2. CASE k < n
      <4>1. k \in 1..(n - 1)
        BY <2>2, <3>1, <3>2
      <4> QED
        BY <2>4, <2>5, <4>1
    <3>3. CASE n < k
      <4>1. n \in 1..(k - 1)
        BY <2>2, <3>1, <3>3
      <4> QED
        BY <2>5, <4>1
    <3> QED
      BY <2>2, <3>1, <3>2, <3>3
  <2>7. n = CHOOSE k \in DOMAIN asked : asked[k].number = x /\ \A i \in 1..(k - 1) : asked[i].number # x
    BY <2>2, <2>4, <2>5, <2>6
  <2>8. Stock!First(asked, x) = asked[n]
    BY <2>7 DEF Stock!First
  <2> QED
    BY <2>2, <2>3, <2>4, <2>5, <2>8
<1>6. ASSUME NEW k \in DOMAIN asked, asked[k].number \notin NumbersOf(built)
      PROVE  asked[k].number \in NumbersOf(q)
  <2>1. PICK x : x = asked[k].number
    OBVIOUS
  <2>2. PICK X : X = {n \in DOMAIN asked : asked[n].number = x}
    OBVIOUS
  <2>3. X \in SUBSET Nat /\ X # {}
    BY <1>1, <2>1, <2>2
  <2>4. PICK m \in X : \A n \in X : m <= n
    BY <2>3, LeastNumber
  <2>5. m \in DOMAIN asked /\ asked[m].number = x /\ m \in Nat
    BY <1>1, <2>2
  <2>6. \A n \in 1..(m - 1) : asked[n].number # asked[m].number
    <3> SUFFICES ASSUME NEW n \in 1..(m - 1), asked[n].number = x PROVE FALSE
      BY <2>5
    <3>1. n \in DOMAIN asked /\ n \in Nat /\ n < m
      BY <1>1, <2>5
    <3> QED
      BY <2>2, <2>4, <2>5, <3>1
  <2>7. m \notin Dups(asked)
    BY <1>3, <1>6, <2>1, <2>5, <2>6 DEF Dups, Stock!Duplicate
  <2>8. PICK j \in DOMAIN q : q[j] = ActiveRows(asked)[m]
    BY <1>1, <1>2, <2>5, <2>7 DEF KeepsFirsts
  <2> QED
    BY <1>4, <2>1, <2>5, <2>8 DEF NumbersOf
<1>7. NumbersOf(q) \subseteq {asked[k].number : k \in DOMAIN asked}
  BY <1>5 DEF NumbersOf
<1>8. \A x \in {asked[k].number : k \in DOMAIN asked} : x \in NumbersOf(built) \cup NumbersOf(q)
  BY <1>6
<1>9. q \in Seq(RoomRow) /\ Len(q) <= Len(asked) /\ RoomsDiffer(q)
  BY <1>2 DEF KeepsFirsts
<1> QED
  BY <1>5, <1>7, <1>8, <1>9

----------------------------------------------------------------------------
(* What a room transaction writes. *)
LEMMA WrittenFacts ==
  ASSUME NEW s \in Seq(RoomRow), NEW rows \in Seq(RoomRow), NEW at \in Nat, at <= Len(s),
         NEW new, new = WrittenTo(s, at, rows)
  PROVE  /\ new \in Seq(RoomRow) /\ Len(s) \in Nat /\ Len(rows) \in Nat
         /\ DOMAIN s = 1..Len(s) /\ DOMAIN rows = 1..Len(rows) /\ DOMAIN new = 1..Len(new)
         /\ Len(new) = IF at + Len(rows) > Len(s) THEN at + Len(rows) ELSE Len(s)
         /\ \A i \in DOMAIN new : new[i] = IF i \in (at + 1)..(at + Len(rows)) THEN rows[i - at] ELSE s[i]
<1>1. /\ Len(s) \in Nat /\ Len(rows) \in Nat /\ DOMAIN s = 1..Len(s) /\ DOMAIN rows = 1..Len(rows)
  OBVIOUS
<1>a. PICK a : a = Len(rows)
  OBVIOUS
<1>b. PICK b : b = Len(s)
  OBVIOUS
<1>c. a \in Nat /\ b \in Nat /\ at <= b
  BY <1>1, <1>a, <1>b
<1>2. PICK n : n = IF at + a > b THEN at + a ELSE b
  OBVIOUS
<1>3. n \in Nat /\ n >= b /\ n >= at + a /\ (n = b \/ n = at + a)
  BY <1>c, <1>2
<1>4. new = [i \in 1..n |-> IF i \in (at + 1)..(at + a) THEN rows[i - at] ELSE s[i]]
  BY <1>a, <1>b, <1>2 DEF WrittenTo
<1>5. ASSUME NEW i \in 1..n PROVE new[i] \in RoomRow
  <2>1. CASE i \in (at + 1)..(at + a)
    <3>1. i - at \in 1..a
      BY <1>c, <1>3, <2>1
    <3>2. rows[i - at] \in RoomRow
      BY <1>a, <3>1
    <3> QED
      BY <1>4, <2>1, <3>2
  <2>2. CASE i \notin (at + 1)..(at + a)
    <3>1. i \in 1..b
      BY <1>c, <1>3, <2>2
    <3>2. s[i] \in RoomRow
      BY <1>b, <3>1
    <3> QED
      BY <1>4, <2>2, <3>2
  <2> QED
    BY <2>1, <2>2
<1>6. new \in [1..n -> RoomRow]
  BY <1>4, <1>5
<1>7. new \in Seq(RoomRow) /\ Len(new) = n /\ DOMAIN new = 1..n
  BY <1>3, <1>6
<1> QED
  BY <1>1, <1>a, <1>b, <1>2, <1>4, <1>7

LEMMA SeatsCount ==
  ASSUME NEW s \in Seq(RoomRow)
  PROVE  IsFiniteSet(Seats(s)) /\ Cardinality(Seats(s)) \in Nat
<1>1. Len(s) \in Nat /\ Seats(s) \subseteq 1..Len(s)
  BY DEF Seats
<1>2. IsFiniteSet(1..Len(s))
  BY <1>1, FS_Interval
<1>3. IsFiniteSet(Seats(s))
  BY <1>1, <1>2, FS_Subset
<1> QED
  BY <1>3, FS_CardinalityType

(* What a judgement of rows to append must have found. *)
Appended(s, rows) ==
  /\ rows \in Seq(RoomRow) /\ RoomsDiffer(rows)
  /\ \A j \in DOMAIN rows : rows[j].number \notin NumbersOf(s)
  /\ Cardinality(Seats(s)) + Len(rows) <= Limit

LEMMA AppendFits ==
  ASSUME StockTyped, NEW rows, Appended(built, rows), NEW new, new = WrittenTo(built, Len(built), rows)
  PROVE  WrittenOK(new, built, onPlan) /\ NumbersOf(new) = NumbersOf(built) \cup NumbersOf(rows)
<1>1. PICK s : s = built /\ s \in Seq(RoomRow) /\ Cardinality(Seats(s)) <= Limit /\ RoomsDiffer(s) /\ Appended(s, rows)
  BY DEF StockTyped
<1>a. PICK a : a = Len(rows)
  OBVIOUS
<1>b. PICK b : b = Len(s)
  OBVIOUS
<1>2. rows \in Seq(RoomRow)
  BY <1>1 DEF Appended
<1>3. a \in Nat /\ b \in Nat
  BY <1>1, <1>a, <1>b, <1>2
<1>4. /\ new \in Seq(RoomRow) /\ DOMAIN s = 1..b /\ DOMAIN rows = 1..a /\ DOMAIN new = 1..Len(new)
      /\ Len(new) = IF b + a > b THEN b + a ELSE b
      /\ \A i \in DOMAIN new : new[i] = IF i \in (b + 1)..(b + a) THEN rows[i - b] ELSE s[i]
  <2>1. b <= Len(s) /\ new = WrittenTo(s, b, rows)
    BY <1>1, <1>3, <1>b
  <2>2. /\ new \in Seq(RoomRow) /\ DOMAIN s = 1..Len(s) /\ DOMAIN rows = 1..Len(rows) /\ DOMAIN new = 1..Len(new)
        /\ Len(new) = IF b + Len(rows) > Len(s) THEN b + Len(rows) ELSE Len(s)
        /\ \A i \in DOMAIN new : new[i] = IF i \in (b + 1)..(b + Len(rows)) THEN rows[i - b] ELSE s[i]
    BY <1>1, <1>2, <1>3, <2>1, WrittenFacts
  <2> QED
    BY <1>a, <1>b, <2>2
<1>5. Len(new) = b + a
  BY <1>3, <1>4
<1>6. ASSUME NEW i \in 1..b PROVE i \in DOMAIN new /\ new[i] = s[i] /\ i \in DOMAIN s
  BY <1>3, <1>4, <1>5
<1>7. ASSUME NEW i \in DOMAIN new, i \notin 1..b PROVE i - b \in DOMAIN rows /\ new[i] = rows[i - b]
  <2>1. i \in (b + 1)..(b + a) /\ i - b \in 1..a
    BY <1>3, <1>4, <1>5, <1>7
  <2> QED
    BY <1>4, <2>1
<1>8. RoomsDiffer(new)
  <2> SUFFICES ASSUME NEW i \in DOMAIN new, NEW j \in DOMAIN new, i # j PROVE new[i].number # new[j].number
    BY DEF RoomsDiffer
  <2>1. CASE i \in 1..b /\ j \in 1..b
    BY <1>1, <1>6, <2>1 DEF RoomsDiffer
  <2>2. CASE i \in 1..b /\ j \notin 1..b
    BY <1>1, <1>6, <1>7, <2>2 DEF Appended, NumbersOf
  <2>3. CASE i \notin 1..b /\ j \in 1..b
    BY <1>1, <1>6, <1>7, <2>3 DEF Appended, NumbersOf
  <2>4. CASE i \notin 1..b /\ j \notin 1..b
    <3>1. i - b # j - b
      BY <1>3, <1>4
    <3> QED
      BY <1>1, <1>7, <2>4, <3>1 DEF Appended, RoomsDiffer
  <2> QED
    BY <2>1, <2>2, <2>3, <2>4
<1>9. Cardinality(Seats(new)) <= Limit
  <2>1. Seats(new) \subseteq Seats(s) \cup ((b + 1)..(b + a))
    <3> SUFFICES ASSUME NEW i \in Seats(new), i \notin (b + 1)..(b + a) PROVE i \in Seats(s)
      OBVIOUS
    <3>1. i \in DOMAIN new /\ new[i].status \in Stock!Countable
      BY DEF Seats
    <3>2. i \in 1..b
      BY <1>3, <1>4, <1>5, <3>1
    <3> QED
      BY <1>6, <3>1, <3>2 DEF Seats
  <2>2. IsFiniteSet(Seats(s)) /\ Cardinality(Seats(s)) \in Nat
    BY <1>1, SeatsCount
  <2>3. /\ IsFiniteSet((b + 1)..(b + a))
        /\ Cardinality((b + 1)..(b + a)) = IF b + 1 > b + a THEN 0 ELSE b + a - (b + 1) + 1
    BY <1>3, FS_Interval
  <2>4. Cardinality((b + 1)..(b + a)) = a
    BY <1>3, <2>3
  <2>5. PICK U : U = Seats(s) \cup ((b + 1)..(b + a))
    OBVIOUS
  <2>6. PICK V : V = Seats(s) \cap ((b + 1)..(b + a))
    OBVIOUS
  <2>7. IsFiniteSet(U) /\ Cardinality(U) = Cardinality(Seats(s)) + Cardinality((b + 1)..(b + a)) - Cardinality(V)
    BY <2>2, <2>3, <2>5, <2>6, FS_Union
  <2>8. IsFiniteSet(V)
    BY <2>2, <2>6, FS_Subset
  <2>9. Cardinality(V) \in Nat /\ Cardinality(U) \in Nat
    BY <2>7, <2>8, FS_CardinalityType
  <2>10. Cardinality(Seats(new)) <= Cardinality(U)
    BY <2>1, <2>5, <2>7, FS_Subset
  <2>11. Cardinality(Seats(new)) \in Nat
    BY <1>4, SeatsCount
  <2>12. Cardinality(Seats(s)) + a <= Limit /\ Limit \in Nat
    BY <1>1, <1>a, StockBounds DEF Appended
  <2> QED
    BY <1>3, <2>2, <2>4, <2>7, <2>9, <2>10, <2>11, <2>12
<1>10. ASSUME NEW i \in DOMAIN built
       PROVE  /\ new[i].number # built[i].number => onPlan[i] = {}
              /\ "now" \in onPlan[i] => new[i].status = "active"
  <2>1. i \in 1..b /\ new[i] = built[i] /\ b = Len(built)
    BY <1>1, <1>4, <1>6, <1>b
  <2>2. i \in 1..MaxRooms
    BY <1>3, <2>1, StockBounds DEF StockTyped
  <2> QED
    BY <2>1, <2>2 DEF StockTyped
<1>11. NumbersOf(new) = NumbersOf(s) \cup NumbersOf(rows)
  <2>1. ASSUME NEW i \in DOMAIN new PROVE new[i].number \in NumbersOf(s) \cup NumbersOf(rows)
    BY <1>6, <1>7 DEF NumbersOf
  <2>2. ASSUME NEW i \in DOMAIN s PROVE s[i].number \in NumbersOf(new)
    BY <1>4, <1>6 DEF NumbersOf
  <2>3. ASSUME NEW i \in DOMAIN rows PROVE rows[i].number \in NumbersOf(new)
    <3>1. i + b \in DOMAIN new /\ i + b \notin 1..b /\ (i + b) - b = i
      BY <1>3, <1>4, <1>5
    <3>2. new[i + b] = rows[i]
      BY <1>7, <3>1
    <3> QED
      BY <3>1, <3>2 DEF NumbersOf
  <2>4. NumbersOf(new) \subseteq NumbersOf(s) \cup NumbersOf(rows)
    BY <2>1 DEF NumbersOf
  <2>5. NumbersOf(s) \subseteq NumbersOf(new) /\ NumbersOf(rows) \subseteq NumbersOf(new)
    BY <2>2, <2>3 DEF NumbersOf
  <2> QED
    BY <2>4, <2>5
<1> QED
  BY <1>1, <1>8, <1>9, <1>10, <1>11 DEF WrittenOK

LEMMA LimitCounts ==
  ASSUME StockTyped, NEW n \in Nat, Stock!WithinLimit(n)
  PROVE  Cardinality(Seats(built)) + n <= Limit
<1>1. Stock!countCountable = Stock!Cardinality(Seats(built))
  BY DEF Stock!countCountable, Seats
<1>2. Stock!Cardinality(Seats(built)) = Cardinality(Seats(built))
  BY StockBounds
<1> QED
  BY <1>1, <1>2 DEF Stock!WithinLimit

(* What the judgement of an edit of room i must have found. *)
Editable(i, edited) ==
  /\ i \in DOMAIN built /\ edited \in RoomRow
  /\ edited.number # built[i].number => onPlan[i] = {} /\ edited.number \notin NumbersOf(built)
  /\ built[i].status = "active" /\ edited.status # "active" => "now" \notin onPlan[i]
  /\ built[i].status = "inactive" /\ edited.status # "inactive" => Cardinality(Seats(built)) + 1 <= Limit

Replaced(new, s, i, edited) ==
  new \in Seq(RoomRow) /\ DOMAIN new = 1..Len(s) /\ \A j \in 1..Len(s) : new[j] = IF j = i THEN edited ELSE s[j]

OneRow(rows, edited) == Len(rows) = 1 /\ rows[1] = edited

LEMMA EditWrites ==
  ASSUME NEW s \in Seq(RoomRow), NEW edited, NEW rows \in Seq(RoomRow), OneRow(rows, edited), NEW i \in 1..Len(s),
         NEW new, new = WrittenTo(s, i - 1, rows)
  PROVE  Replaced(new, s, i, edited)
<1>a. PICK a : a = i - 1
  OBVIOUS
<1>b. PICK b : b = Len(s)
  OBVIOUS
<1>1. b \in Nat /\ i \in Nat /\ a \in Nat /\ a + 1 = i /\ a <= b /\ a + 1 <= b
  BY <1>a, <1>b
<1>2. /\ new \in Seq(RoomRow) /\ DOMAIN new = 1..Len(new)
      /\ Len(new) = IF a + Len(rows) > Len(s) THEN a + Len(rows) ELSE Len(s)
      /\ \A j \in DOMAIN new : new[j] = IF j \in (a + 1)..(a + Len(rows)) THEN rows[j - a] ELSE s[j]
  <2>1. a <= Len(s) /\ new = WrittenTo(s, a, rows)
    BY <1>a, <1>b, <1>1
  <2> QED
    BY <1>1, <2>1, WrittenFacts
<1>3. Len(new) = b
  BY <1>b, <1>1, <1>2 DEF OneRow
<1>4. ASSUME NEW j \in 1..b PROVE new[j] = IF j = i THEN edited ELSE s[j]
  <2>1. j \in DOMAIN new /\ (j \in (a + 1)..(a + Len(rows)) <=> j = i)
    BY <1>1, <1>2, <1>3 DEF OneRow
  <2>2. CASE j = i
    <3>1. j - a = 1
      BY <1>1, <2>2
    <3> QED
      BY <1>2, <2>1, <2>2, <3>1 DEF OneRow
  <2>3. CASE j # i
    BY <1>2, <2>1, <2>3
  <2> QED
    BY <2>2, <2>3
<1> QED
  BY <1>b, <1>2, <1>3, <1>4 DEF Replaced

LEMMA EditFits ==
  ASSUME StockTyped, NEW i \in Nat, NEW edited, Editable(i, edited),
         
         NEW rows \in Seq(RoomRow), OneRow(rows, edited), NEW new, new = WrittenTo(built, i - 1, rows)
  PROVE  /\ WrittenOK(new, built, onPlan) /\ rows \in Seq(RoomRow) /\ Len(rows) = 1
         /\ i - 1 \in Nat /\ i - 1 <= Len(built) /\ i <= MaxRooms
<1>1. PICK s : s = built /\ s \in Seq(RoomRow) /\ Cardinality(Seats(s)) <= Limit /\ RoomsDiffer(s)
  BY DEF StockTyped
<1>b. PICK b : b = Len(s)
  OBVIOUS
<1>2. rows \in Seq(RoomRow) /\ Len(rows) = 1
  BY DEF OneRow
<1>3. b \in Nat /\ i \in 1..b /\ i \in DOMAIN s /\ DOMAIN s = 1..b
  BY <1>1, <1>b DEF Editable
<1>4. i - 1 \in Nat /\ i - 1 <= b /\ i - 1 + 1 = i
  BY <1>3
<1>5. new \in Seq(RoomRow) /\ DOMAIN new = 1..b /\ \A j \in 1..b : new[j] = IF j = i THEN edited ELSE s[j]
  <2>1. i \in 1..Len(s) /\ new = WrittenTo(s, i - 1, rows)
    BY <1>1, <1>3, <1>b
  <2>2. Replaced(new, s, i, edited)
    BY <1>1, <1>2, <2>1, EditWrites
  <2> QED
    BY <1>b, <2>2 DEF Replaced
<1>6. RoomsDiffer(new)
  <2> SUFFICES ASSUME NEW j \in DOMAIN new, NEW k \in DOMAIN new, j # k PROVE new[j].number # new[k].number
    BY DEF RoomsDiffer
  <2>1. \A m \in 1..b : m # i => s[m].number # edited.number
    <3> SUFFICES ASSUME NEW m \in 1..b, m # i PROVE s[m].number # edited.number
      OBVIOUS
    <3>1. CASE edited.number = s[i].number
      BY <1>1, <1>3, <3>1 DEF RoomsDiffer
    <3>2. CASE edited.number # s[i].number
      <4>1. edited.number \notin NumbersOf(s)
        BY <1>1, <3>2 DEF Editable
      <4> QED
        BY <1>3, <4>1 DEF NumbersOf
    <3> QED
      BY <3>1, <3>2
  <2>2. CASE j # i /\ k # i
    <3>1. j \in DOMAIN s /\ k \in DOMAIN s /\ new[j] = s[j] /\ new[k] = s[k]
      BY <1>3, <1>5, <2>2
    <3> QED
      BY <1>1, <3>1 DEF RoomsDiffer
  <2>3. CASE j = i
    BY <1>5, <2>1, <2>3
  <2>4. CASE k = i
    BY <1>5, <2>1, <2>4
  <2> QED
    BY <2>2, <2>3, <2>4
<1>7. Cardinality(Seats(new)) <= Limit
  <2>1. IsFiniteSet(Seats(s)) /\ Cardinality(Seats(s)) \in Nat /\ Limit \in Nat
    BY <1>1, SeatsCount, StockBounds
  <2>2. Cardinality(Seats(new)) \in Nat
    BY <1>5, SeatsCount
  <2>3. CASE s[i].status = "inactive" /\ edited.status # "inactive"
    <3>1. Seats(new) \subseteq Seats(s) \cup {i}
      BY <1>3, <1>5 DEF Seats
    <3>2. PICK U : U = Seats(s) \cup {i}
      OBVIOUS
    <3>3. IsFiniteSet(U) /\ Cardinality(U) = IF i \in Seats(s) THEN Cardinality(Seats(s)) ELSE Cardinality(Seats(s)) + 1
      BY <2>1, <3>2, FS_AddElement
    <3>4. Cardinality(Seats(new)) <= Cardinality(U)
      BY <3>1, <3>2, <3>3, FS_Subset
    <3>5. Cardinality(Seats(s)) + 1 <= Limit
      BY <1>1, <2>3 DEF Editable
    <3>6. Cardinality(U) \in Nat /\ Cardinality(U) <= Cardinality(Seats(s)) + 1
      BY <2>1, <3>3
    <3> QED
      BY <2>1, <2>2, <3>4, <3>5, <3>6
  <2>4. CASE ~(s[i].status = "inactive" /\ edited.status # "inactive")
    <3>1. s[i] \in RoomRow
      BY <1>1, <1>3
    <3>2. s[i].status # "inactive" => s[i].status \in Stock!Countable
      BY <3>1 DEF RoomRow, Stock!Countable
    <3>3. edited.status = "inactive" => edited.status \notin Stock!Countable
      BY DEF Stock!Countable
    <3>4. Seats(new) \subseteq Seats(s)
      BY <1>3, <1>5, <2>4, <3>2, <3>3 DEF Seats
    <3>5. Cardinality(Seats(new)) <= Cardinality(Seats(s))
      BY <2>1, <3>4, FS_Subset
    <3> QED
      BY <1>1, <2>1, <2>2, <3>5
  <2> QED
    BY <2>3, <2>4
<1>8. ASSUME NEW j \in DOMAIN built
      PROVE  /\ new[j].number # built[j].number => onPlan[j] = {}
             /\ "now" \in onPlan[j] => new[j].status = "active"
  <2>1. j \in 1..b /\ b = Len(built) /\ built[j] = s[j]
    BY <1>1, <1>3, <1>b
  <2>2. j \in 1..MaxRooms
    BY <1>3, <2>1, StockBounds DEF StockTyped
  <2>3. "now" \in onPlan[j] => built[j].status = "active"
    BY <2>2 DEF StockTyped
  <2>4. CASE j = i
    BY <1>5, <2>1, <2>3, <2>4 DEF Editable
  <2>5. CASE j # i
    BY <1>5, <2>1, <2>3, <2>5
  <2> QED
    BY <2>4, <2>5
<1>9. i <= MaxRooms
  BY <1>1, <1>3, <1>b, StockBounds DEF StockTyped
<1> QED
  BY <1>1, <1>2, <1>4, <1>6, <1>7, <1>8, <1>9, <1>b DEF WrittenOK

----------------------------------------------------------------------------
(* What a call has read when it begins to save. *)
MayBegin(c) ==
  \/ c.pc = "rooms" /\ Stock!lockHotel /\ RoomsCall(c, built, onPlan)
  \/ c.pc = "type" /\ TypeCall(c, built, plan)

LEMMA StockBegins ==
  ASSUME StockInv, NEW p \in Callers, NEW c, MayBegin(c), Stock!Begin(p, c)
  PROVE  StockInv' /\ Stock!NumbersStay
<1>1. /\ call[p] = Stock!Idle /\ call' = [call EXCEPT ![p] = c]
      /\ lapped' = (lapped \/ \E q \in Callers : call[q] # Stock!Idle)
      /\ UNCHANGED <<built, plan, onPlan>>
  BY DEF Stock!Begin
<1>2. StockTyped /\ \A q \in Callers : StockCall(call[q], built, onPlan)
  BY DEF StockInv
<1>3. call'[p] = c /\ (\A q \in Callers : q # p => call'[q] = call[q]) /\ call' = [q \in Callers |-> call'[q]]
  BY <1>1, <1>2 DEF StockTyped
<1>4. StockTyped'
  BY <1>1, <1>2, <1>3 DEF StockTyped
<1>5. StockCall(c, built, onPlan)
  BY DEF MayBegin, StockCall
<1>6. \A q \in Callers : StockCall(call'[q], built', onPlan')
  BY <1>1, <1>2, <1>3, <1>5
<1>7. \A r, q \in Callers : call'[r].pc = "rooms" /\ call'[q].pc = "rooms" => r = q
  BY <1>3 DEF StockInv, MayBegin, Stock!lockHotel
<1>8. ASSUME ~lapped'
      PROVE  /\ \A r, q \in Callers : r # q => call'[r] = Stock!Idle \/ call'[q] = Stock!Idle
             /\ \A q \in Callers : call'[q].pc = "type" => TypeCall(call'[q], built', plan')
  <2>1. \A q \in Callers : call[q] = Stock!Idle
    BY <1>1, <1>8
  <2>2. Stock!Idle.pc = "idle"
    BY DEF Stock!Idle
  <2> QED
    BY <1>1, <1>3, <2>1, <2>2 DEF MayBegin
<1>9. StockInv'
  BY <1>4, <1>6, <1>7, <1>8 DEF StockInv
<1>10. ASSUME NEW i \in DOMAIN built
       PROVE "now" \in onPlan[i] => built[i].status = "active"
  <2>1. i \in 1..MaxRooms
    BY <1>2, StockBounds DEF StockTyped
  <2> QED
    BY <1>2, <2>1 DEF StockTyped
<1> QED
  BY <1>1, <1>9, <1>10 DEF Stock!NumbersStay

LEMMA CreatesRoom ==
  ASSUME StockInv, NEW p \in Callers, NEW number \in Numbers, NEW t \in Types,
         NEW status \in Stock!Countable, Stock!CreateRoom(p, number, t, status)
  PROVE  StockInv' /\ Stock!NumbersStay
<1>1. StockTyped
  BY DEF StockInv
<1>2. PICK new : new = [number |-> number, type |-> t, status |-> status]
  OBVIOUS
<1>3. new \in RoomRow /\ new.number = number
  BY <1>2 DEF RoomRow, Stock!Countable
<1>4. PICK rows : rows = <<new>>
  OBVIOUS
<1>5. rows \in Seq(RoomRow) /\ Len(rows) = 1 /\ DOMAIN rows = 1..1 /\ rows[1] = new
  BY <1>3, <1>4
<1>6. number \notin NumbersOf(built)
  BY DEF Stock!CreateRoom, Stock!Existing, NumbersOf
<1>7. Cardinality(Seats(built)) + 1 <= Limit
  <2>1. Stock!WithinLimit(1)
    BY DEF Stock!CreateRoom
  <2> QED
    BY <1>1, <2>1, LimitCounts
<1>8. Appended(built, rows)
  BY <1>3, <1>5, <1>6, <1>7 DEF Appended, RoomsDiffer
<1>9. PICK c : c = [Stock!Idle EXCEPT !.pc = "rooms", !.at = Len(built), !.rows = rows]
  OBVIOUS
<1>10. c.pc = "rooms" /\ c.at = Len(built) /\ c.rows = rows /\ c.ask = <<>>
  BY <1>9 DEF Stock!Idle
<1>11. Stock!Begin(p, c)
  BY <1>2, <1>4, <1>9 DEF Stock!CreateRoom
<1>12. WrittenOK(WrittenTo(built, Len(built), rows), built, onPlan)
  BY <1>1, <1>8, AppendFits
<1>13. Len(built) \in Nat /\ Len(built) + 1 <= MaxRooms
  BY <1>1, StockBounds DEF Stock!CreateRoom, StockTyped
<1>14. RoomsCall(c, built, onPlan)
  <2>1. c.at \in Nat /\ c.at <= Len(built) /\ c.at + Len(c.rows) <= MaxRooms
    <3>1. PICK n : n = Len(built)
      OBVIOUS
    <3>2. n \in Nat /\ n + 1 <= MaxRooms /\ c.at = n
      BY <1>10, <1>13, <3>1
    <3>3. c.at + Len(c.rows) = n + 1
      BY <1>5, <1>10, <3>1
    <3> QED
      BY <3>1, <3>2, <3>3
  <2>2. BatchDone(built, WrittenTo(built, c.at, c.rows), c.ask)
    BY <1>10 DEF BatchDone
  <2> QED
    BY <1>5, <1>10, <1>12, <2>1, <2>2 DEF RoomsCall
<1>15. MayBegin(c)
  BY <1>10, <1>14 DEF MayBegin, Stock!CreateRoom
<1> QED
  BY <1>11, <1>15, StockBegins

LEMMA UpdatesRoom ==
  ASSUME StockInv, NEW p \in Callers, NEW i \in DOMAIN built,
         NEW edited \in [number : Numbers, type : Types, status : Stock!Countable \cup {"inactive"}],
         Stock!UpdateRoom(p, i, edited)
  PROVE  StockInv' /\ Stock!NumbersStay
<1>1. StockTyped /\ i \in Nat
  BY DEF StockInv, StockTyped
<1>2. edited \in RoomRow
  BY DEF RoomRow, Stock!Countable
<1>3. PICK rows : rows = <<edited>>
  OBVIOUS
<1>4. rows \in Seq(RoomRow) /\ Len(rows) = 1 /\ rows[1] = edited
  BY <1>2, <1>3
<1>5. PICK old : old = built[i]
  OBVIOUS
<1>6. /\ Stock!lockHotel
      /\ edited.number # old.number => onPlan[i] = {} /\ edited.number \notin NumbersOf(built)
      /\ edited.status # old.status =>
           /\ old.status = "active" => "now" \notin onPlan[i]
           /\ old.status = "inactive" => Stock!WithinLimit(1)
  BY <1>5 DEF Stock!UpdateRoom, Stock!hasStayHistory, Stock!Existing, NumbersOf
<1>7. Stock!WithinLimit(1) => Cardinality(Seats(built)) + 1 <= Limit
  BY <1>1, LimitCounts
<1>8. Editable(i, edited)
  BY <1>2, <1>5, <1>6, <1>7 DEF Editable
<1>9. PICK new : new = WrittenTo(built, i - 1, rows)
  OBVIOUS
<1>10. OneRow(rows, edited)
  BY <1>4 DEF OneRow
<1>11. /\ WrittenOK(new, built, onPlan) /\ i - 1 \in Nat /\ i - 1 <= Len(built) /\ i <= MaxRooms
  BY <1>1, <1>4, <1>8, <1>9, <1>10, EditFits
<1>12. PICK c : c = [Stock!Idle EXCEPT !.pc = "rooms", !.at = i - 1, !.rows = rows]
  OBVIOUS
<1>13. c.pc = "rooms" /\ c.at = i - 1 /\ c.rows = rows /\ c.ask = <<>>
  BY <1>12 DEF Stock!Idle
<1>14. Stock!Begin(p, c)
  BY <1>3, <1>12 DEF Stock!UpdateRoom
<1>15. c.at + Len(c.rows) <= MaxRooms
  <2>1. i - 1 + 1 = i
    BY <1>1
  <2>2. c.at + Len(c.rows) = i - 1 + 1
    BY <1>4, <1>13
  <2> QED
    BY <1>11, <2>1, <2>2
<1>16. RoomsCall(c, built, onPlan)
  BY <1>4, <1>9, <1>11, <1>13, <1>15 DEF RoomsCall, BatchDone
<1>17. MayBegin(c)
  BY <1>6, <1>13, <1>16 DEF MayBegin
<1> QED
  BY <1>14, <1>17, StockBegins

LEMMA CommitsBulk ==
  ASSUME StockInv, NEW p \in Callers, NEW asked \in Batches, NEW skipDuplicates \in BOOLEAN,
         Stock!BulkCommit(p, asked, skipDuplicates)
  PROVE  StockInv' /\ Stock!NumbersStay
<1>1. StockTyped
  BY DEF StockInv
<1>2. PICK q : q = Stock!BulkRows(asked)
  OBVIOUS
<1>3. /\ q \in Seq(RoomRow) /\ Len(q) <= Len(asked) /\ RoomsDiffer(q)
      /\ \A j \in DOMAIN q : /\ q[j].number \notin NumbersOf(built) /\ q[j].status = "active"
                             /\ q[j].type = Stock!First(asked, q[j].number).type
      /\ NumbersOf(built) \cup NumbersOf(q) = NumbersOf(built) \cup {asked[k].number : k \in DOMAIN asked}
  BY <1>2, BulkFresh
<1>4. Len(q) \in Nat /\ Len(asked) \in Nat /\ Len(built) \in Nat /\ built \in Seq(RoomRow)
  BY <1>1, <1>3, StockBounds DEF StockTyped
<1>5. Cardinality(Seats(built)) + Len(q) <= Limit
  <2>1. Stock!WithinLimit(Len(q))
    BY <1>2 DEF Stock!BulkCommit
  <2> QED
    BY <1>1, <1>4, <2>1, LimitCounts
<1>6. Appended(built, q)
  BY <1>3, <1>5 DEF Appended
<1>7. PICK new : new = WrittenTo(built, Len(built), q)
  OBVIOUS
<1>8. WrittenOK(new, built, onPlan) /\ NumbersOf(new) = NumbersOf(built) \cup NumbersOf(q)
  BY <1>1, <1>6, <1>7, AppendFits
<1>9. PICK c : c = [Stock!Idle EXCEPT !.pc = "rooms", !.at = Len(built), !.rows = q, !.ask = asked]
  OBVIOUS
<1>10. c.pc = "rooms" /\ c.at = Len(built) /\ c.rows = q /\ c.ask = asked
  BY <1>9 DEF Stock!Idle
<1>11. Stock!Begin(p, c) /\ Stock!lockHotel /\ Len(built) + Len(asked) <= MaxRooms
  BY <1>2, <1>9 DEF Stock!BulkCommit
<1>12. \A i \in (Len(built) + 1)..Len(new) : new[i].type = Stock!First(asked, new[i].number).type
  <2>a. PICK b : b = Len(built)
    OBVIOUS
  <2>b. PICK a : a = Len(q)
    OBVIOUS
  <2>1. b \in Nat /\ a \in Nat /\ DOMAIN q = 1..a
    BY <1>3, <1>4, <2>a, <2>b
  <2>2. /\ Len(new) = IF b + a > b THEN b + a ELSE b
        /\ DOMAIN new = 1..Len(new)
        /\ \A i \in DOMAIN new : new[i] = IF i \in (b + 1)..(b + a) THEN q[i - b] ELSE built[i]
    <3>1. b <= Len(built) /\ new = WrittenTo(built, b, q)
      BY <1>7, <2>1, <2>a
    <3> QED
      BY <1>3, <1>4, <2>1, <2>a, <2>b, <3>1, WrittenFacts
  <2>3. ASSUME NEW i \in (b + 1)..Len(new) PROVE new[i].type = Stock!First(asked, new[i].number).type
    <3>1. i \in DOMAIN new /\ i \in (b + 1)..(b + a) /\ i - b \in DOMAIN q
      BY <2>1, <2>2
    <3>2. new[i] = q[i - b]
      BY <2>2, <3>1
    <3> QED
      BY <1>3, <3>1, <3>2
  <2> QED
    BY <2>3, <2>a
<1>13. BatchDone(built, new, asked)
  BY <1>3, <1>8, <1>12 DEF BatchDone
<1>14. Len(built) + Len(q) <= MaxRooms /\ Len(built) <= Len(built)
  BY <1>3, <1>4, <1>11, StockBounds
<1>15. RoomsCall(c, built, onPlan)
  BY <1>3, <1>4, <1>7, <1>8, <1>10, <1>13, <1>14 DEF RoomsCall
<1>16. MayBegin(c)
  BY <1>10, <1>11, <1>15 DEF MayBegin
<1> QED
  BY <1>11, <1>16, StockBegins

LEMMA EditsType ==
  ASSUME StockInv, NEW p \in Callers, NEW t \in Types, NEW name \in TypeNames,
         \/ Stock!CreateType(p, t, name)
         \/ \E active \in BOOLEAN : Stock!UpdateType(p, t, name, active)
  PROVE  StockInv' /\ Stock!NumbersStay
<1>1. CASE Stock!CreateType(p, t, name)
  <2>1. PICK c : c = [Stock!Idle EXCEPT !.pc = "type", !.key = t,
                                        !.row = [has |-> TRUE, name |-> name, active |-> TRUE]]
    OBVIOUS
  <2>2. c.pc = "type" /\ c.row.active = TRUE
    BY <2>1 DEF Stock!Idle
  <2>3. Stock!Begin(p, c)
    BY <1>1, <2>1 DEF Stock!CreateType
  <2>4. MayBegin(c)
    BY <2>2 DEF MayBegin, TypeCall
  <2> QED
    BY <2>3, <2>4, StockBegins
<1>2. ASSUME NEW active \in BOOLEAN, Stock!UpdateType(p, t, name, active) PROVE StockInv' /\ Stock!NumbersStay
  <2>1. PICK c : c = [Stock!Idle EXCEPT !.pc = "type", !.key = t,
                                        !.row = [has |-> TRUE, name |-> name, active |-> active]]
    OBVIOUS
  <2>2. c.pc = "type" /\ c.key = t /\ c.row.active = active
    BY <2>1 DEF Stock!Idle
  <2>3. Stock!Begin(p, c)
    BY <1>2, <2>1 DEF Stock!UpdateType
  <2>4. plan[t].active /\ ~active => \A i \in DOMAIN built : built[i].type # t
    BY <1>2 DEF Stock!UpdateType, Stock!InUse
  <2>5. TypeCall(c, built, plan)
    BY <2>2, <2>4 DEF TypeCall
  <2>6. MayBegin(c)
    BY <2>2, <2>5 DEF MayBegin
  <2> QED
    BY <2>3, <2>6, StockBegins
<1> QED
  BY <1>1, <1>2

----------------------------------------------------------------------------
LEMMA SavesRooms ==
  ASSUME StockInv, NEW p \in Callers, Stock!SaveRooms(p)
  PROVE  StockInv' /\ Stock!NumbersStay
<1>1. PICK c : c = call[p]
  OBVIOUS
<1>2. StockTyped /\ c.pc = "rooms" /\ RoomsCall(c, built, onPlan)
  BY <1>1 DEF StockInv, StockCall, Stock!SaveRooms
<1>3. PICK new : new = WrittenTo(built, c.at, c.rows)
  OBVIOUS
<1>4. new = Stock!Written(c.at, c.rows)
  BY <1>3 DEF WrittenTo, Stock!Written
<1>5. /\ c.at \in Nat /\ c.at <= Len(built) /\ c.rows \in Seq(RoomRow) /\ c.at + Len(c.rows) <= MaxRooms
      /\ WrittenOK(new, built, onPlan)
  BY <1>2, <1>3 DEF RoomsCall
<1>6. RoomsDiffer(new)
  BY <1>5 DEF WrittenOK
<1>7. /\ built' = new /\ call' = [call EXCEPT ![p] = Stock!Idle] /\ UNCHANGED <<plan, onPlan, lapped>>
  <2>1. built' = IF \E i, j \in DOMAIN new : i # j /\ new[i].number = new[j].number THEN built ELSE new
    BY <1>1, <1>4 DEF Stock!SaveRooms
  <2> QED
    BY <1>6, <2>1 DEF RoomsDiffer, Stock!SaveRooms
<1>8. PICK b : b = Len(built)
  OBVIOUS
<1>9. PICK a : a = c.at + Len(c.rows)
  OBVIOUS
<1>10. /\ new \in Seq(RoomRow) /\ b \in Nat /\ a \in Nat /\ b <= MaxRooms /\ a <= MaxRooms
       /\ DOMAIN built = 1..b /\ DOMAIN new = 1..Len(new) /\ Len(new) = IF a > b THEN a ELSE b
  <2>1. built \in Seq(RoomRow) /\ b <= MaxRooms
    BY <1>2, <1>8 DEF StockTyped
  <2>2. PICK at : at = c.at
    OBVIOUS
  <2>3. PICK rows : rows = c.rows
    OBVIOUS
  <2>4. at \in Nat /\ at <= Len(built) /\ rows \in Seq(RoomRow) /\ new = WrittenTo(built, at, rows)
    BY <1>3, <1>5, <2>2, <2>3
  <2>5. /\ new \in Seq(RoomRow) /\ Len(built) \in Nat /\ Len(rows) \in Nat
        /\ DOMAIN built = 1..Len(built) /\ DOMAIN new = 1..Len(new)
        /\ Len(new) = IF at + Len(rows) > Len(built) THEN at + Len(rows) ELSE Len(built)
    BY <2>1, <2>4, WrittenFacts
  <2>6. a = at + Len(rows) /\ a \in Nat
    BY <1>9, <2>2, <2>3, <2>4, <2>5
  <2> QED
    BY <1>5, <1>8, <1>9, <2>1, <2>5, <2>6
<1>11. Len(new) \in Nat /\ Len(new) <= MaxRooms /\ b <= Len(new)
  BY <1>10, StockBounds
<1>12. /\ \A i \in DOMAIN built : /\ new[i].number # built[i].number => onPlan[i] = {}
                                  /\ "now" \in onPlan[i] => new[i].status = "active"
       /\ Cardinality(Seats(new)) <= Limit
  BY <1>5, <1>10, <1>11 DEF WrittenOK
<1>13. ASSUME NEW i \in 1..MaxRooms, "now" \in onPlan[i] PROVE i \in DOMAIN new /\ new[i].status = "active"
  <2>1. i \in DOMAIN built
    BY <1>2, <1>13 DEF StockTyped
  <2> QED
    BY <1>10, <1>11, <1>12, <1>13, <2>1
<1>14. call'[p] = Stock!Idle /\ (\A q \in Callers : q # p => call'[q] = call[q]) /\ call' = [q \in Callers |-> call'[q]]
  BY <1>2, <1>7 DEF StockTyped
<1>15. Stock!Idle.pc = "idle"
  BY DEF Stock!Idle
<1>16. StockTyped'
  BY <1>2, <1>6, <1>7, <1>10, <1>11, <1>12, <1>13, <1>14 DEF StockTyped
<1>17. \A q \in Callers : q # p => call[q].pc # "rooms" /\ StockCall(call[q], built, onPlan)
  BY <1>1, <1>2 DEF StockInv
<1>18. \A q \in Callers : StockCall(call'[q], built', onPlan') /\ call'[q].pc # "rooms"
  <2> SUFFICES ASSUME NEW q \in Callers PROVE StockCall(call'[q], built', onPlan') /\ call'[q].pc # "rooms"
    OBVIOUS
  <2>1. CASE q = p
    BY <1>14, <1>15, <2>1 DEF StockCall
  <2>2. CASE q # p
    BY <1>14, <1>17, <2>2 DEF StockCall
  <2> QED
    BY <2>1, <2>2
<1>19. ASSUME ~lapped'
       PROVE  /\ \A r, q \in Callers : r # q => call'[r] = Stock!Idle \/ call'[q] = Stock!Idle
              /\ \A q \in Callers : call'[q].pc = "type" => TypeCall(call'[q], built', plan')
  <2>1. ~lapped
    BY <1>7, <1>19
  <2>2. \A q \in Callers : q # p => call[q] = Stock!Idle
    BY <1>1, <1>2, <1>15, <2>1 DEF StockInv
  <2>3. \A q \in Callers : call'[q] = Stock!Idle
    BY <1>14, <2>2
  <2> QED
    BY <1>15, <2>3
<1>20. StockInv'
  BY <1>16, <1>18, <1>19 DEF StockInv
<1>21. Stock!NumbersStay
  <2>1. \A i \in DOMAIN built : /\ built'[i].number # built[i].number => onPlan[i] = {}
                                /\ "now" \in onPlan[i] => built'[i].status = "active"
    BY <1>7, <1>12
  <2>2. \A i \in DOMAIN built : plan[built[i].type].active => plan'[built[i].type].active
    BY <1>7
  <2> QED
    BY <2>1, <2>2 DEF Stock!NumbersStay
<1> QED
  BY <1>20, <1>21

LEMMA SavesType ==
  ASSUME StockInv, NEW p \in Callers, Stock!SaveType(p)
  PROVE  StockInv' /\ Stock!NumbersStay
<1>1. PICK c : c = call[p]
  OBVIOUS
<1>2. /\ StockTyped /\ c.pc = "type" /\ call' = [call EXCEPT ![p] = Stock!Idle] /\ UNCHANGED <<built, onPlan, lapped>>
      /\ plan' = IF Stock!TypeNameFree(c.row.name, c.key) THEN [plan EXCEPT ![c.key] = c.row] ELSE plan
  BY <1>1 DEF StockInv, Stock!SaveType
<1>3. call'[p] = Stock!Idle /\ (\A q \in Callers : q # p => call'[q] = call[q]) /\ call' = [q \in Callers |-> call'[q]]
  BY <1>2 DEF StockTyped
<1>4. Stock!Idle.pc = "idle"
  BY DEF Stock!Idle
<1>5. plan = [t \in Types |-> plan[t]]
  BY <1>2 DEF StockTyped
<1>6. plan' = [t \in Types |-> plan'[t]] /\ \A t \in Types : plan'[t] = plan[t] \/ (t = c.key /\ plan'[t] = c.row)
  BY <1>2, <1>5
<1>7. StockTyped'
  BY <1>2, <1>3, <1>6 DEF StockTyped
<1>8. \A q \in Callers : StockCall(call'[q], built', onPlan')
  <2> SUFFICES ASSUME NEW q \in Callers PROVE StockCall(call'[q], built', onPlan')
    OBVIOUS
  <2>1. CASE q = p
    BY <1>3, <1>4, <2>1 DEF StockCall
  <2>2. CASE q # p
    BY <1>2, <1>3, <2>2 DEF StockInv
  <2> QED
    BY <2>1, <2>2
<1>9. \A r, q \in Callers : call'[r].pc = "rooms" /\ call'[q].pc = "rooms" => r = q
  BY <1>3, <1>4 DEF StockInv
<1>10. ASSUME ~lapped'
       PROVE  /\ \A q \in Callers : call'[q] = Stock!Idle
              /\ TypeCall(c, built, plan)
  <2>1. ~lapped
    BY <1>2, <1>10
  <2>2. \A q \in Callers : q # p => call[q] = Stock!Idle
    BY <1>1, <1>2, <1>4, <2>1 DEF StockInv
  <2> QED
    BY <1>1, <1>2, <1>3, <2>1, <2>2 DEF StockInv
<1>11. StockInv'
  BY <1>4, <1>7, <1>8, <1>9, <1>10 DEF StockInv
<1>12. ASSUME NEW i \in DOMAIN built PROVE "now" \in onPlan[i] => built[i].status = "active"
  <2>1. i \in 1..MaxRooms
    BY <1>2, StockBounds DEF StockTyped
  <2> QED
    BY <1>2, <2>1 DEF StockTyped
<1>13. ASSUME ~lapped', NEW i \in DOMAIN built, plan[built[i].type].active PROVE plan'[built[i].type].active
  <2>1. built[i] \in RoomRow
    <3>1. built \in Seq(RoomRow)
      BY <1>2 DEF StockTyped
    <3> QED
      BY <3>1
  <2>2. PICK t : t = built[i].type
    OBVIOUS
  <2>3. t \in Types
    BY <2>1, <2>2 DEF RoomRow
  <2>4. plan'[t] = plan[t] \/ (t = c.key /\ plan'[t] = c.row)
    BY <1>6, <2>3
  <2>5. TypeCall(c, built, plan)
    BY <1>10, <1>13
  <2>6. t = c.key => c.row.active
    BY <1>13, <2>2, <2>5 DEF TypeCall
  <2> QED
    BY <1>13, <2>2, <2>4, <2>6
<1> QED
  BY <1>2, <1>11, <1>12, <1>13 DEF Stock!NumbersStay

----------------------------------------------------------------------------
(* Guests come under the lock, when no rooms are about to be written, and  *)
(* leave whenever they like: who leaves only frees a room.                 *)
GuestMoves(to, st) ==
  /\ st = [i \in 1..MaxRooms |-> st[i]]
  /\ \A i \in 1..MaxRooms : "now" \in st[i] => "now" \in onPlan[i] \/ i \in to
  /\ \A i \in 1..MaxRooms : to = {} => (onPlan[i] = {} => st[i] = {})
  /\ \A i \in to : i \in DOMAIN built /\ built[i].status = "active"
  /\ to # {} => Stock!lockHotel

LEMMA GuestSteps ==
  ASSUME StockInv, NEW to, GuestMoves(to, onPlan'), UNCHANGED <<built, plan, call, lapped>>
  PROVE  StockInv' /\ Stock!NumbersStay
<1>1. StockTyped
  BY DEF StockInv
<1>2. StockTyped'
  BY <1>1 DEF StockTyped, GuestMoves
<1>3. ASSUME NEW p \in Callers PROVE StockCall(call'[p], built', onPlan')
  <2>1. StockCall(call[p], built, onPlan)
    BY DEF StockInv
  <2>2. ASSUME call[p].pc = "rooms" PROVE RoomsCall(call[p], built, onPlan')
    <3>1. to = {}
      BY <2>2 DEF GuestMoves, Stock!lockHotel
    <3>2. PICK new : new = WrittenTo(built, call[p].at, call[p].rows)
      OBVIOUS
    <3>3. RoomsCall(call[p], built, onPlan) /\ WrittenOK(new, built, onPlan)
      BY <2>1, <2>2, <3>2 DEF StockCall, RoomsCall
    <3>4. \A i \in DOMAIN built : i \in 1..MaxRooms
      BY <1>1, StockBounds DEF StockTyped
    <3>5. WrittenOK(new, built, onPlan')
      <4>1. ASSUME NEW i \in DOMAIN built
            PROVE  /\ onPlan[i] = {} => onPlan'[i] = {}
                   /\ "now" \in onPlan'[i] => "now" \in onPlan[i]
        BY <3>1, <3>4 DEF GuestMoves
      <4> QED
        BY <3>3, <4>1 DEF WrittenOK
    <3> QED
      BY <3>2, <3>3, <3>5 DEF RoomsCall
  <2> QED
    BY <2>1, <2>2 DEF StockCall
<1>4. StockInv'
  BY <1>2, <1>3 DEF StockInv
<1>5. ASSUME NEW i \in DOMAIN built PROVE "now" \in onPlan[i] => built[i].status = "active"
  <2>1. i \in 1..MaxRooms
    BY <1>1, StockBounds DEF StockTyped
  <2> QED
    BY <1>1, <2>1 DEF StockTyped
<1> QED
  BY <1>4, <1>5 DEF Stock!NumbersStay

LEMMA GuestsMove ==
  ASSUME StockInv, NEW i \in 1..MaxRooms,
         Stock!CheckIn(i) \/ Stock!CheckOut(i) \/ \E j \in 1..MaxRooms : Stock!ChangeRoom(i, j)
  PROVE  StockInv' /\ Stock!NumbersStay
<1>1. onPlan = [k \in 1..MaxRooms |-> onPlan[k]]
  BY DEF StockInv, StockTyped
<1>2. CASE Stock!CheckIn(i)
  <2>1. onPlan' = [onPlan EXCEPT ![i] = onPlan[i] \cup {"now"}] /\ UNCHANGED <<built, plan, call, lapped>>
    BY <1>2 DEF Stock!CheckIn
  <2>2. onPlan' = [k \in 1..MaxRooms |-> onPlan'[k]]
        /\ onPlan'[i] = onPlan[i] \cup {"now"} /\ \A k \in 1..MaxRooms : k # i => onPlan'[k] = onPlan[k]
    BY <1>1, <2>1
  <2>3. Stock!lockHotel /\ i \in DOMAIN built /\ built[i].status = "active"
    BY <1>2 DEF Stock!CheckIn, Stock!lockAvailableRoom
  <2>4. GuestMoves({i}, onPlan')
    BY <2>2, <2>3 DEF GuestMoves
  <2> QED
    BY <2>1, <2>4, GuestSteps
<1>3. CASE Stock!CheckOut(i)
  <2>1. "now" \in onPlan[i] /\ onPlan' = [onPlan EXCEPT ![i] = {"was"}] /\ UNCHANGED <<built, plan, call, lapped>>
    BY <1>3 DEF Stock!CheckOut
  <2>2. onPlan' = [k \in 1..MaxRooms |-> onPlan'[k]]
        /\ onPlan'[i] = {"was"} /\ \A k \in 1..MaxRooms : k # i => onPlan'[k] = onPlan[k]
    BY <1>1, <2>1
  <2>3. GuestMoves({}, onPlan')
    BY <2>1, <2>2 DEF GuestMoves
  <2> QED
    BY <2>1, <2>3, GuestSteps
<1>4. ASSUME NEW j \in 1..MaxRooms, Stock!ChangeRoom(i, j) PROVE StockInv' /\ Stock!NumbersStay
  <2>1. /\ onPlan' = [onPlan EXCEPT ![i] = @ \ {"now"}, ![j] = @ \cup {"now"}]
        /\ UNCHANGED <<built, plan, call, lapped>>
        /\ "now" \in onPlan[i] /\ "now" \notin onPlan[j]
        /\ Stock!lockHotel /\ j \in DOMAIN built /\ built[j].status = "active"
    BY <1>4 DEF Stock!ChangeRoom, Stock!lockAvailableRoom
  <2>2. i # j
    BY <2>1
  <2>3. onPlan' = [k \in 1..MaxRooms |-> onPlan'[k]]
        /\ onPlan'[i] = onPlan[i] \ {"now"} /\ \A k \in 1..MaxRooms : k # i /\ k # j => onPlan'[k] = onPlan[k]
    BY <1>1, <2>1, <2>2
  <2>4. GuestMoves({j}, onPlan')
    BY <2>1, <2>3 DEF GuestMoves
  <2> QED
    BY <2>1, <2>4, GuestSteps
<1> QED
  BY <1>2, <1>3, <1>4

LEMMA StockStep == StockInv /\ Stock!Next => StockInv' /\ Stock!NumbersStay
<1> SUFFICES ASSUME StockInv, Stock!Next PROVE StockInv' /\ Stock!NumbersStay
  OBVIOUS
<1>1. CASE \E p \in Callers : Stock!SaveRooms(p) \/ Stock!SaveType(p)
  BY <1>1, SavesRooms, SavesType
<1>2. CASE \E p \in Callers, number \in Numbers, t \in Types, status \in Stock!Countable :
             Stock!CreateRoom(p, number, t, status)
  BY <1>2, CreatesRoom
<1>3. CASE \E p \in Callers, i \in DOMAIN built :
             \E new \in [number : Numbers, type : Types, status : Stock!Countable \cup {"inactive"}] :
               Stock!UpdateRoom(p, i, new)
  BY <1>3, UpdatesRoom
<1>4. CASE \E p \in Callers, asked \in Batches, skipDuplicates \in BOOLEAN :
             Stock!BulkCommit(p, asked, skipDuplicates)
  BY <1>4, CommitsBulk
<1>5. CASE \E p \in Callers, t \in Types, name \in TypeNames :
             Stock!CreateType(p, t, name) \/ \E active \in BOOLEAN : Stock!UpdateType(p, t, name, active)
  BY <1>5, EditsType
<1>6. CASE \E i \in 1..MaxRooms :
             Stock!CheckIn(i) \/ Stock!CheckOut(i) \/ \E j \in 1..MaxRooms : Stock!ChangeRoom(i, j)
  BY <1>6, GuestsMove
<1> QED
  BY <1>1, <1>2, <1>3, <1>4, <1>5, <1>6 DEF Stock!Next

LEMMA StockStill ==
  StockInv /\ UNCHANGED <<plan, onPlan, built, call, lapped>> => StockInv' /\ Stock!NumbersStay
<1> SUFFICES ASSUME StockInv, UNCHANGED <<plan, onPlan, built, call, lapped>> PROVE StockInv' /\ Stock!NumbersStay
  OBVIOUS
<1>1. StockTyped /\ onPlan' = onPlan
  BY DEF StockInv
<1>2. GuestMoves({}, onPlan')
  BY <1>1 DEF GuestMoves, StockTyped
<1> QED
  BY <1>2, GuestSteps

LEMMA StockInit == Stock!Init => StockInv
<1> SUFFICES ASSUME Stock!Init PROVE StockInv
  OBVIOUS
<1>1. /\ built = <<>> /\ onPlan = [i \in 1..MaxRooms |-> {}] /\ call = [p \in Callers |-> Stock!Idle] /\ lapped = FALSE
      /\ \E t \in Types, n \in TypeNames :
           plan = [u \in Types |-> IF u = t THEN [has |-> TRUE, name |-> n, active |-> TRUE] ELSE Stock!NoType]
  BY DEF Stock!Init
<1>2. plan = [u \in Types |-> plan[u]]
  BY <1>1
<1>3. built \in Seq(RoomRow) /\ Len(built) = 0 /\ DOMAIN built = {}
  BY <1>1
<1>4. Seats(built) = {}
  BY <1>3 DEF Seats
<1>5. Cardinality(Seats(built)) <= Limit /\ 0 <= MaxRooms
  BY <1>4, FS_EmptySet, StockBounds
<1>6. StockTyped
  BY <1>1, <1>2, <1>3, <1>5 DEF StockTyped, RoomsDiffer
<1>7. Stock!Idle.pc = "idle"
  BY DEF Stock!Idle
<1> QED
  BY <1>1, <1>6, <1>7 DEF StockInv, StockCall

(* A table in which numbers differ has as many numbers as rows. *)
LEMMA NumbersCount ==
  ASSUME NEW s \in Seq(RoomRow), RoomsDiffer(s)
  PROVE  Cardinality(NumbersOf(s)) = Len(s)
<1>1. Len(s) \in Nat /\ DOMAIN s = 1..Len(s)
  OBVIOUS
<1>2. PICK f : f = [i \in 1..Len(s) |-> s[i].number]
  OBVIOUS
<1>3. f \in Surjection(1..Len(s), NumbersOf(s))
  BY <1>1, <1>2 DEF Surjection, NumbersOf
<1>4. f \in Injection(1..Len(s), NumbersOf(s))
  BY <1>1, <1>2 DEF Injection, IsInjective, NumbersOf, RoomsDiffer
<1>5. IsFiniteSet(1..Len(s)) /\ Cardinality(1..Len(s)) = Len(s)
  BY <1>1, FS_Interval
<1> QED
  BY <1>3, <1>4, <1>5, FS_Surjection

LEMMA StockFits == StockInv => Stock!LockedWritesFit
<1> SUFFICES ASSUME StockInv PROVE Stock!LockedWritesFit
  OBVIOUS
<1>1. StockTyped
  BY DEF StockInv
<1>2. Stock!countCountable <= Limit
  <2>1. Stock!countCountable = Stock!Cardinality(Seats(built))
    BY DEF Stock!countCountable, Seats
  <2> QED
    BY <1>1, <2>1, StockBounds DEF StockTyped
<1>3. ASSUME NEW p \in Callers, call[p].pc = "rooms", NEW new, new = Stock!Written(call[p].at, call[p].rows)
      PROVE  /\ Stock!Cardinality(NumbersOf(new)) = Len(new)
             /\ call[p].at < Len(built) \/ call[p].at = Len(built)
             /\ BatchDone(built, new, call[p].ask)
  <2>1. PICK c : c = call[p]
    OBVIOUS
  <2>2. RoomsCall(c, built, onPlan) /\ built \in Seq(RoomRow)
    BY <1>1, <1>3, <2>1 DEF StockInv, StockCall, StockTyped
  <2>3. new = WrittenTo(built, c.at, c.rows)
    BY <1>3, <2>1 DEF WrittenTo, Stock!Written
  <2>4. /\ c.at \in Nat /\ c.at <= Len(built) /\ c.rows \in Seq(RoomRow)
        /\ RoomsDiffer(new) /\ BatchDone(built, new, c.ask)
    BY <2>2, <2>3 DEF RoomsCall, WrittenOK
  <2>5. new \in Seq(RoomRow)
    BY <2>2, <2>3, <2>4, WrittenFacts
  <2>6. Stock!Cardinality(NumbersOf(new)) = Len(new)
    BY <2>4, <2>5, NumbersCount, StockBounds
  <2>7. Len(built) \in Nat
    BY <2>2
  <2> QED
    BY <2>1, <2>4, <2>6, <2>7
<1> QED
  BY <1>2, <1>3 DEF Stock!LockedWritesFit, BatchDone, NumbersOf, Stock!Existing

----------------------------------------------------------------------------
RoomsInv == SubsInv /\ (scene = "rooms" => StockInv)

(* Whatever overlaps: rooms never exceed the plan they were added under,   *)
(* what a call under the lock of the hotel will write fits when it is      *)
(* written, a batch adds every number the hotel lacked, a room that a stay *)
(* names keeps its number, a room with a guest stays active, and where     *)
(* calls do not overlap no type is deactivated under a room                *)
(* (TenantRoomsService, RoomTypesService, the limits of a plan).           *)
THEOREM RoomsKept == MCSpec => RoomsStand
<1>1. MCInit => RoomsInv
  BY SubsInit, StockInit DEF MCInit, RoomsInv
<1>2. RoomsInv /\ [MCNext]_<<vars, kitchenVars, shopVars, scene>> => RoomsInv'
  <2> SUFFICES ASSUME RoomsInv, [MCNext]_<<vars, kitchenVars, shopVars, scene>> PROVE RoomsInv'
    OBVIOUS
  <2>1. [Next]_vars /\ scene' = scene
    BY DEF MCNext, HotelNext
  <2>2. ASSUME scene = "rooms" PROVE Stock!Next \/ UNCHANGED <<plan, onPlan, built, call, lapped>>
    BY <2>2 DEF MCNext, Stocking, shopVars
  <2> QED
    BY <2>1, <2>2, SubsStep, StockStep, StockStill DEF RoomsInv
<1>3. RoomsInv /\ [MCNext]_<<vars, kitchenVars, shopVars, scene>> =>
        [Cardinality(Countable') > Cardinality(Countable) =>
           \E p \in Admins : /\ req[p].pc = "rooms" /\ req'[p] # req[p]
                             /\ Cardinality(Countable') <= req[p].limit]_vars
  <2>1. [MCNext]_<<vars, kitchenVars, shopVars, scene>> => [Next]_vars
    BY DEF MCNext, HotelNext
  <2> QED
    BY <2>1, SeatsStep DEF RoomsInv
<1>4. RoomsInv /\ [MCNext]_<<vars, kitchenVars, shopVars, scene>> => [scene = "rooms" => Stock!NumbersStay]_shopVars
  <2> SUFFICES ASSUME RoomsInv, MCNext, scene = "rooms", ~UNCHANGED shopVars PROVE Stock!NumbersStay
    OBVIOUS
  <2>1. Stock!Next
    BY DEF MCNext, Stocking
  <2> QED
    BY <2>1, StockStep DEF RoomsInv
<1>5. RoomsInv => (scene = "rooms" => Stock!LockedWritesFit)
  BY StockFits DEF RoomsInv
<1> QED
  BY <1>1, <1>2, <1>3, <1>4, <1>5, PTL DEF MCSpec, RoomsStand, SeatsWithinLimit
=============================================================================
