------------------------------ MODULE Inventory ------------------------------
(***************************************************************************)
(* The rooms of a hotel and their types: TenantRoomsService (createRoom,   *)
(* updateRoom, bulkPreview, bulkCommit), RoomTypesService and the row      *)
(* validation of room-rows.ts.                                             *)
(*                                                                         *)
(* Who writes rooms or checks a guest in holds the lock of the hotel row   *)
(* from its first read to its commit.  Edits of types do not take it.      *)
(***************************************************************************)
EXTENDS Naturals, Sequences, FiniteSets

CONSTANTS Types, Names, Numbers,
          Batches,   \* the rows a bulk commit may bring: sequences of [number, type]
          Callers,
          Limit,     \* maxRooms of the plan
          MaxRooms,  \* bound on the rooms of the hotel, inactive ones included
          None

Parameters ==
  /\ Limit \in Nat /\ MaxRooms \in Nat /\ None \notin Types \cup Names \cup Numbers
  /\ Batches \subseteq Seq([number : Numbers, type : Types])

VARIABLES rooms,  \* table rooms, in the order of their creation
          types,  \* table room_types
          stay,   \* of each room, whether a stay of now and one that ended name it
          call,   \* what each call has read and will save
          lapped  \* whether two calls were ever under way at once

vars == <<rooms, types, stay, call, lapped>>

NoType == [has |-> FALSE, name |-> None, active |-> FALSE]
Idle == [pc |-> "idle", key |-> None, row |-> NoType, at |-> 0, rows |-> <<>>, ask |-> <<>>]

(* Onboarding seeds the default types; here it seeds one. *)
Init ==
  /\ rooms = <<>>
  /\ \E t \in Types, n \in Names :
       types = [u \in Types |-> IF u = t THEN [has |-> TRUE, name |-> n, active |-> TRUE] ELSE NoType]
  /\ stay = [i \in 1..MaxRooms |-> {}]
  /\ call = [p \in Callers |-> Idle] /\ lapped = FALSE

----------------------------------------------------------------------------
Begin(p, next) ==
  /\ call[p] = Idle /\ call' = [call EXCEPT ![p] = next]
  /\ lapped' = (lapped \/ \E q \in Callers : call[q] # Idle)
  /\ UNCHANGED <<rooms, types, stay>>

lockHotel == \A q \in Callers : call[q].pc # "rooms"

Countable == {"active", "out_of_service"}
countCountable == Cardinality({i \in DOMAIN rooms : rooms[i].status \in Countable})
Existing == {rooms[i].number : i \in DOMAIN rooms}
WithinLimit(adding) == countCountable + adding <= Limit

(* The type of one room must exist; it may be inactive. *)
CreateRoom(p, number, t, status) ==
  /\ lockHotel /\ WithinLimit(1) /\ Len(rooms) < MaxRooms
  /\ types[t].has /\ number \notin Existing /\ status \in Countable
  /\ Begin(p, [Idle EXCEPT !.pc = "rooms", !.at = Len(rooms),
                           !.rows = <<[number |-> number, type |-> t, status |-> status]>>])

hasStayHistory_Occupied(i) == "now" \in stay[i]
hasStayHistory(i) == stay[i] # {}

UpdateRoom(p, i, new) ==
  LET old == rooms[i] IN
  /\ lockHotel
  /\ new.type # old.type => types[new.type].has
  /\ new.number # old.number => ~hasStayHistory(i) /\ new.number \notin Existing
  /\ new.status # old.status =>
       /\ old.status = "active" => "now" \notin stay[i]
       /\ old.status = "inactive" => WithinLimit(1)
  /\ new # old
  /\ Begin(p, [Idle EXCEPT !.pc = "rooms", !.at = i - 1, !.rows = <<new>>])

Duplicate_InHotel(batch, k) == batch[k].number \in Existing
Duplicate(batch, k) ==
  batch[k].number \in Existing \/ \E j \in 1..(k - 1) : batch[j].number = batch[k].number

(* validateRoomRows: any issue of a row that is no duplicate refuses all.  *)
BulkRows(batch) ==
  LET kept[k \in 0..Len(batch)] ==
        IF k = 0 THEN <<>>
        ELSE IF Duplicate(batch, k) THEN kept[k - 1]
        ELSE Append(kept[k - 1], [number |-> batch[k].number, type |-> batch[k].type, status |-> "active"])
  IN kept[Len(batch)]

BulkCommit_ReadBefore(p, batch, skipDuplicates) ==
  /\ \A k \in DOMAIN batch : Duplicate(batch, k) \/ types[batch[k].type].active
  /\ skipDuplicates \/ \A k \in DOMAIN batch : ~Duplicate(batch, k)
  /\ WithinLimit(Len(BulkRows(batch))) /\ Len(rooms) + Len(batch) <= MaxRooms
  /\ Begin(p, [Idle EXCEPT !.pc = "rooms", !.at = Len(rooms), !.rows = BulkRows(batch), !.ask = batch])

BulkCommit(p, batch, skipDuplicates) ==
  /\ lockHotel
  /\ \A k \in DOMAIN batch : Duplicate(batch, k) \/ types[batch[k].type].active
  /\ skipDuplicates \/ \A k \in DOMAIN batch : ~Duplicate(batch, k)
  /\ WithinLimit(Len(BulkRows(batch))) /\ Len(rooms) + Len(batch) <= MaxRooms
  /\ Begin(p, [Idle EXCEPT !.pc = "rooms", !.at = Len(rooms), !.rows = BulkRows(batch), !.ask = batch])

(* The commit of a room transaction; numbers are unique in the table. *)
Written(at, rows) ==
  [i \in 1..(IF at + Len(rows) > Len(rooms) THEN at + Len(rows) ELSE Len(rooms)) |->
     IF i \in (at + 1)..(at + Len(rows)) THEN rows[i - at] ELSE rooms[i]]

SaveRooms(p) ==
  LET new == Written(call[p].at, call[p].rows) IN
  /\ call[p].pc = "rooms"
  /\ rooms' = IF \E i, j \in DOMAIN new : i # j /\ new[i].number = new[j].number THEN rooms ELSE new
  /\ call' = [call EXCEPT ![p] = Idle]
  /\ UNCHANGED <<types, stay, lapped>>

----------------------------------------------------------------------------
TypeNameFree(name, t) == \A u \in Types \ {t} : types[u].has => types[u].name # name

CreateType(p, t, name) ==
  /\ ~types[t].has /\ TypeNameFree(name, t)
  /\ Begin(p, [Idle EXCEPT !.pc = "type", !.key = t, !.row = [has |-> TRUE, name |-> name, active |-> TRUE]])

InUse(t) == \E i \in DOMAIN rooms : rooms[i].type = t

UpdateType_Anytime(p, t, name, active) ==
  /\ types[t].has /\ TypeNameFree(name, t)
  /\ Begin(p, [Idle EXCEPT !.pc = "type", !.key = t, !.row = [has |-> TRUE, name |-> name, active |-> active]])

UpdateType(p, t, name, active) ==
  /\ types[t].has /\ TypeNameFree(name, t)
  /\ types[t].active /\ ~active => ~InUse(t)
  /\ Begin(p, [Idle EXCEPT !.pc = "type", !.key = t, !.row = [has |-> TRUE, name |-> name, active |-> active]])

SaveType(p) ==
  LET t == call[p].key row == call[p].row IN
  /\ call[p].pc = "type"
  /\ types' = IF TypeNameFree(row.name, t) THEN [types EXCEPT ![t] = row] ELSE types
  /\ call' = [call EXCEPT ![p] = Idle]
  /\ UNCHANGED <<rooms, stay, lapped>>

(* The stay desk, as far as the rooms know of it.  A guest who changes     *)
(* rooms takes the one row of the stay along.                              *)
lockAvailableRoom_NoHotel(i) ==
  i \in DOMAIN rooms /\ rooms[i].status = "active" /\ "now" \notin stay[i]
lockAvailableRoom(i) ==
  lockHotel /\ i \in DOMAIN rooms /\ rooms[i].status = "active" /\ "now" \notin stay[i]

CheckIn(i) ==
  /\ lockAvailableRoom(i)
  /\ stay' = [stay EXCEPT ![i] = @ \cup {"now"}] /\ UNCHANGED <<rooms, types, call, lapped>>
ChangeRoom(i, j) ==
  /\ "now" \in stay[i] /\ lockAvailableRoom(j)
  /\ stay' = [stay EXCEPT ![i] = @ \ {"now"}, ![j] = @ \cup {"now"}]
  /\ UNCHANGED <<rooms, types, call, lapped>>
CheckOut(i) ==
  "now" \in stay[i] /\ stay' = [stay EXCEPT ![i] = {"was"}] /\ UNCHANGED <<rooms, types, call, lapped>>

Next ==
  \/ \E p \in Callers : SaveRooms(p) \/ SaveType(p)
  \/ \E p \in Callers, number \in Numbers, t \in Types, status \in Countable : CreateRoom(p, number, t, status)
  \/ \E p \in Callers, i \in DOMAIN rooms :
       \E new \in [number : Numbers, type : Types, status : Countable \cup {"inactive"}] : UpdateRoom(p, i, new)
  \/ \E p \in Callers, batch \in Batches, skipDuplicates \in BOOLEAN : BulkCommit(p, batch, skipDuplicates)
  \/ \E p \in Callers, t \in Types, name \in Names :
       CreateType(p, t, name) \/ \E active \in BOOLEAN : UpdateType(p, t, name, active)
  \/ \E i \in 1..MaxRooms : CheckIn(i) \/ CheckOut(i) \/ \E j \in 1..MaxRooms : ChangeRoom(i, j)

Spec == Init /\ [][Next]_vars

----------------------------------------------------------------------------
First(batch, number) ==
  batch[CHOOSE k \in DOMAIN batch : batch[k].number = number /\ \A j \in 1..(k - 1) : batch[j].number # number]

(* What a call under the lock will write still fits when it writes it,     *)
(* whatever overlaps: no number it adds is taken, nor named twice, and the *)
(* rooms stay within the plan.  A batch adds every number it names that    *)
(* the hotel lacked, as the first row with that number asks.               *)
LockedWritesFit ==
  /\ countCountable <= Limit
  /\ \A p \in Callers : call[p].pc = "rooms" =>
       LET new == Written(call[p].at, call[p].rows) batch == call[p].ask
           numbers == {new[i].number : i \in DOMAIN new}
       IN /\ Cardinality(numbers) = Len(new)
          /\ call[p].at < Len(rooms) \/ call[p].at = Len(rooms)
          /\ batch # <<>> =>
               /\ numbers = Existing \cup {batch[k].number : k \in DOMAIN batch}
               /\ \A i \in (Len(rooms) + 1)..Len(new) : new[i].type = First(batch, new[i].number).type

(* Whatever overlaps, a room that a stay names, of now or ended, keeps its *)
(* number, which is printed on its code, and a room with a guest stays     *)
(* active.  Where calls do not overlap, no type is deactivated under a     *)
(* room.                                                                   *)
NumbersStay ==
  /\ \A i \in DOMAIN rooms :
       /\ rooms'[i].number # rooms[i].number => stay[i] = {}
       /\ "now" \in stay[i] => rooms'[i].status = "active"
  /\ lapped' \/ \A i \in DOMAIN rooms : types[rooms[i].type].active => types'[rooms[i].type].active
=============================================================================
