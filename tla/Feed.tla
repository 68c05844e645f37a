-------------------------------- MODULE Feed --------------------------------
(***************************************************************************)
(* The boards the staff app polls: requests, food orders and rooms come    *)
(* whole once, then as deltas of what changed since the last answer, cut   *)
(* to the caller's lanes (listBoard of three services, common/lanes.ts).   *)
(*                                                                         *)
(* An update is stamped when its transaction begins and seen when it       *)
(* commits; an answer is stamped after its query has read.  `missed` holds *)
(* the updates that fall between, which no delta will ever deliver.        *)
(***************************************************************************)
EXTENDS Naturals, FiniteSets

CONSTANTS Tickets, Rooms,  \* rows of requests and food orders; rows of rooms
          Users, None,     \* staff rows are assigned to, or nobody
          Clients,         \* those of them who poll
          Writers,         \* concurrent transactions that update rows
          MaxNow           \* bound: updates

\* What the parameters have to be; the modules that instantiate this one assume it.
Parameters ==
  /\ MaxNow \in Nat /\ Tickets \cap Rooms = {}
  /\ Clients \subseteq Users /\ None \notin Users

VARIABLES row, stamp, \* the tables: their rows and updatedAt
          tx,         \* transactions under way
          poll,       \* polls under way
          view,       \* what each client shows
          cursor,     \* the serverTime of its last answer
          now,
          missed      \* ghost: updates that came after a read but before its cursor

vars == <<row, stamp, tx, poll, view, cursor, now, missed>>

Rows == Tickets \cup Rooms
Open == {"new", "working"}
Cleanable == {"new", "working", "dnd"}
Row == [status: Cleanable \cup {"closed", "inactive"}, by: Users \cup {None}]
Lanes == {"mine", "available"}
NoTx == [at |-> 0, r |-> None, to |-> [status |-> "closed", by |-> None]]
NoPoll == [pc |-> "idle", got |-> [r \in {} |-> "none"]]

Init ==
  /\ row = [r \in Rows |-> [status |-> "new", by |-> None]]
  /\ stamp = [r \in Rows |-> 0]
  /\ tx = [w \in Writers |-> NoTx]
  /\ poll = [u \in Clients |-> NoPoll]
  /\ view = [u \in Clients |-> [r \in Rows |-> "none"]]
  /\ cursor = [u \in Clients |-> 0]
  /\ now = 1
  /\ missed = [u \in Clients |-> Rows]

(* Which lane of a user a row belongs to, if any. *)
LaneOf(u, r) ==
  LET mine == IF r \in Tickets THEN Open ELSE Cleanable
      free == IF r \in Tickets THEN Open ELSE {"new"}
  IN CASE row[r].by = u /\ row[r].status \in mine -> "mine"
       [] row[r].by = None /\ row[r].status \in free -> "available"
       [] OTHER -> "none"

----------------------------------------------------------------------------
(* Any handler that changes a row: CURRENT_TIMESTAMP is its beginning. *)
Begin(w, r, to) ==
  /\ tx[w] = NoTx /\ now < MaxNow
  /\ r \in Tickets => to.status \in Open \cup {"closed"}
  /\ now' = now + 1
  /\ tx' = [tx EXCEPT ![w] = [at |-> now + 1, r |-> r, to |-> to]]
  /\ UNCHANGED <<row, stamp, poll, view, cursor, missed>>

Commit(w) ==
  LET r == tx[w].r
  IN /\ tx[w] # NoTx
     /\ row' = [row EXCEPT ![r] = tx[w].to]
     /\ stamp' = [stamp EXCEPT ![r] = tx[w].at]
     /\ tx' = [tx EXCEPT ![w] = NoTx]
     /\ missed' = [u \in Clients |-> IF poll[u] # NoPoll \/ tx[w].at <= cursor[u]
                                   THEN missed[u] \cup {r} ELSE missed[u]]
     /\ UNCHANGED <<poll, view, cursor, now>>

----------------------------------------------------------------------------
(* The answer holds, for each row it speaks of, its lane or a tombstone.   *)
Answer(u, rs) ==
  /\ poll[u] = NoPoll
  /\ poll' = [poll EXCEPT ![u] = [pc |-> "read", got |-> [r \in rs |-> LaneOf(u, r)]]]
  /\ missed' = [missed EXCEPT ![u] = @ \ rs]
  /\ UNCHANGED <<row, stamp, tx, view, cursor, now>>

(* The full board, when the app starts. *)
FullRead(u) == Answer(u, Rows)

Changed_OnlyOpen(u) == {r \in Rows : stamp[r] > cursor[u] /\ row[r].status \in Open}

(* updatedSince: what changed, whatever its status is now. *)
Changed(u) == {r \in Rows : stamp[r] > cursor[u]}

DeltaRead(u) == cursor[u] # 0 /\ Answer(u, Changed(u))

(* serverTime is taken last; the client merges by id.                      *)
Reply(u) ==
  /\ poll[u] # NoPoll
  /\ view' = [view EXCEPT ![u] = [r \in Rows |->
                IF r \in DOMAIN poll[u].got THEN poll[u].got[r] ELSE view[u][r]]]
  /\ cursor' = [cursor EXCEPT ![u] = now]
  /\ poll' = [poll EXCEPT ![u] = NoPoll]
  /\ UNCHANGED <<row, stamp, tx, now, missed>>

Next ==
  \/ \E w \in Writers, r \in Rows, to \in Row : Begin(w, r, to)
  \/ \E w \in Writers : Commit(w)
  \/ \E u \in Clients : FullRead(u) \/ DeltaRead(u) \/ Reply(u)

Spec == Init /\ [][Next]_vars

----------------------------------------------------------------------------
TypeOK ==
  /\ row \in [Rows -> Row] /\ stamp \in [Rows -> 0..MaxNow] /\ now \in Nat
  /\ view \in [Clients -> [Rows -> Lanes \cup {"none"}]]
  /\ cursor \in [Clients -> Nat] /\ missed \in [Clients -> SUBSET Rows]

Lane(u, r) ==
  IF row[r].by \notin {u, None} \/ row[r].status \in {"closed", "inactive"} THEN "none"
  ELSE IF row[r].by = u THEN (IF r \in Tickets /\ row[r].status = "dnd" THEN "none" ELSE "mine")
  ELSE IF row[r].status = "new" \/ (r \in Tickets /\ row[r].status = "working") THEN "available"
  ELSE "none"

Stale(u) == {r \in Rows : view[u][r] # Lane(u, r)}
Deliverable(u) == {r \in Rows : stamp[r] > cursor[u]}
Answered == {u \in Clients : poll[u] = NoPoll /\ cursor[u] # 0}

(* A client that merged its deltas shows exactly the lanes of a full load: *)
(* whatever it shows wrongly will come with the next delta or was updated  *)
(* between a read and its cursor.  A row another took, closed or cancelled *)
(* leaves the client's lanes.                                              *)
OnlyTheGapIsMissed ==
  TypeOK /\ \A u \in Answered : Stale(u) \subseteq Deliverable(u) \cup missed[u]

(* The promise of request.entity.ts:33, "`updatedSince` returns exactly    *)
(* the changed rows": a client misses nothing.  The code breaks it.        *)
DeltaMissesNothing == \A u \in Answered : Stale(u) \subseteq Deliverable(u)
=============================================================================
