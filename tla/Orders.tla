------------------------------- MODULE Orders -------------------------------
(***************************************************************************)
(* The room bill of one stay: food orders (GuestFnbService and             *)
(* TenantFnbOrdersService), event bookings as charges, and the settlement  *)
(* at the desk over both sources (StaySettlementService).                  *)
(*                                                                         *)
(* No handler locks a row: each reads it, judges it and saves it whole     *)
(* later, so requests on the same row undo each other.  `raced` collects   *)
(* the rows two open requests have held at once; the properties speak of   *)
(* all the others, whatever else overlaps.                                 *)
(***************************************************************************)
EXTENDS Naturals, FiniteSets

CONSTANTS Orders, Bookings,
          Cash,                   \* the charges their guests chose to pay in cash
          Guests, Workers, Desk,  \* concurrent requests of guests, staff, settlement
          MaxOpen, MaxPerDay,     \* the order throttles of a stay
          MaxRaced                \* bound: rows that requests collide on

ASSUME OrdersAssumption ==
  /\ MaxOpen \in Nat \ {0} /\ MaxPerDay \in Nat \ {0} /\ MaxRaced \in Nat
  /\ Orders \cap Bookings = {} /\ Cash \subseteq Orders \cup Bookings
  /\ IsFiniteSet(Orders) /\ IsFiniteSet(Guests \cup Workers \cup Desk)

VARIABLES row,    \* tables fnb_orders and event_bookings
          req,    \* what each request has read
          placed, \* the orders placed since the last midnight of the hotel
          taken,  \* ghost: how often a settlement collected each charge
          raced   \* ghost: rows held by two requests at once

vars == <<row, req, placed, taken, raced>>

Procs == Guests \cup Workers \cup Desk
Charges == Orders \cup Bookings
Sources == {"fnb", "events"}
Of(src) == IF src = "fnb" THEN Orders ELSE Bookings
Open == {"new", "preparing", "on_the_way"}
Statuses == Open \cup {"none", "delivered", "booked", "cancelled"}
Row == [status: Statuses, settled: BOOLEAN]
Request == [pc: {"idle", "create", "save", "settle"},
            held: SUBSET (Charges \X Row),  \* rows to be saved
            todo: SUBSET Sources,           \* sources still to read
            due: SUBSET Charges]            \* ghost: charges due when it began

NoRow == [status |-> "none", settled |-> FALSE]
IdleReq == [pc |-> "idle", held |-> {}, todo |-> {}, due |-> {}]

Init ==
  /\ row = [c \in Charges |-> NoRow]
  /\ req = [p \in Procs |-> IdleReq]
  /\ placed = {}
  /\ taken = [c \in Charges |-> 0] /\ raced = {}

Idle(p) == req[p].pc = "idle"
Go(p, q) == req' = [req EXCEPT ![p] = q]
Hold(p, c, r) == Go(p, [IdleReq EXCEPT !.pc = "save", !.held = {<<c, r>>}])
Held(p) == {h[1] : h \in req[p].held}

Due(c) ==
  /\ row[c].status = IF c \in Orders THEN "delivered" ELSE "booked"
  /\ c \notin Cash /\ ~row[c].settled

----------------------------------------------------------------------------
(* Guests. *)
OpenOrders_NotPreparing == {o \in Orders : row[o].status \in {"new", "on_the_way"}}
OpenOrders == {o \in Orders : row[o].status \in Open}

TodaysOrders_OpenOnly == {o \in placed : row[o].status \in Open}
TodaysOrders == placed

(* createOrder counts, and inserts in a later transaction. *)
CreateCheck(p) ==
  /\ Idle(p)
  /\ Cardinality(OpenOrders) < MaxOpen /\ Cardinality(TodaysOrders) < MaxPerDay
  /\ Go(p, [IdleReq EXCEPT !.pc = "create"])
  /\ UNCHANGED <<row, placed, taken>>

CreateInsert_Pending(p, o) ==
  /\ req[p].pc = "create" /\ row[o].status = "none"
  /\ row' = [row EXCEPT ![o] = [NoRow EXCEPT !.status = "pending"]]
  /\ placed' = placed \cup {o}
  /\ Go(p, IdleReq)
  /\ UNCHANGED taken

CreateInsert(p, o) ==
  /\ req[p].pc = "create" /\ row[o].status = "none"
  /\ row' = [row EXCEPT ![o] = [NoRow EXCEPT !.status = "new"]]
  /\ placed' = placed \cup {o}
  /\ Go(p, IdleReq)
  /\ UNCHANGED taken

(* An item, menu, location or payment method that is not available. *)
CreateRefused(p) ==
  /\ req[p].pc = "create"
  /\ Go(p, IdleReq)
  /\ UNCHANGED <<row, placed, taken>>

(* An event booking, as far as the bill sees it (modelled in Events). *)
Book(b) ==
  /\ row[b].status = "none"
  /\ row' = [row EXCEPT ![b] = [NoRow EXCEPT !.status = "booked"]]
  /\ UNCHANGED <<req, placed, taken>>

CancelOwnRead_ClearsSettled(p, c) ==
  /\ Idle(p) /\ row[c].status \in {"new", "booked"}
  /\ Hold(p, c, [NoRow EXCEPT !.status = "cancelled"])
  /\ UNCHANGED <<row, placed, taken>>

(* A guest cancels an order while it is new, a booking while it is booked. *)
CancelOwnRead(p, c) ==
  /\ Idle(p) /\ row[c].status \in {"new", "booked"}
  /\ Hold(p, c, [row[c] EXCEPT !.status = "cancelled"])
  /\ UNCHANGED <<row, placed, taken>>

----------------------------------------------------------------------------
(* Staff. *)
Transitions_Redelivers ==
  [new |-> {"preparing", "cancelled"}, preparing |-> {"on_the_way", "cancelled"},
   on_the_way |-> {"delivered"}, delivered |-> {"cancelled"}, cancelled |-> {},
   booked |-> {"cancelled"}, none |-> {}]

(* FNB_ORDER_TRANSITIONS; a booking is cancelled with its event. *)
Transitions ==
  [new |-> {"preparing", "cancelled"}, preparing |-> {"on_the_way", "cancelled"},
   on_the_way |-> {"delivered"}, delivered |-> {}, cancelled |-> {},
   booked |-> {"cancelled"}, none |-> {}]

(* start, outForDelivery, deliver, cancel. *)
AdvanceRead(p, c, to) ==
  /\ Idle(p) /\ to \in Transitions[row[c].status]
  /\ Hold(p, c, [row[c] EXCEPT !.status = to])
  /\ UNCHANGED <<row, placed, taken>>

(* assign: the assignee changes, every other column is saved as read. *)
AssignRead(p, o) ==
  /\ Idle(p) /\ row[o].status \in Open
  /\ Hold(p, o, row[o])
  /\ UNCHANGED <<row, placed, taken>>

Save(p) ==
  /\ req[p].pc = "save"
  /\ \E h \in req[p].held : row' = [row EXCEPT ![h[1]] = h[2]]
  /\ Go(p, IdleReq)
  /\ UNCHANGED <<placed, taken>>

----------------------------------------------------------------------------
(* The desk: settle over both sources, or over food orders alone.          *)
SettleStart(p, srcs) ==
  /\ Idle(p)
  /\ Go(p, [IdleReq EXCEPT !.pc = "settle", !.todo = srcs,
                           !.due = {c \in UNION {Of(s) : s \in srcs} : Due(c)}])
  /\ UNCHANGED <<row, placed, taken>>

Eligible(src) == {c \in Of(src) : Due(c)}

SettleRead_OneSource(p, src) ==
  /\ req[p].pc = "settle" /\ src \in req[p].todo
  /\ Go(p, [req[p] EXCEPT !.todo = {},
            !.held = @ \cup {<<c, [row[c] EXCEPT !.settled = TRUE]>> : c \in Eligible(src)}])
  /\ UNCHANGED <<row, placed, taken>>

(* markSettled of one source: the charges due are read ... *)
SettleRead(p, src) ==
  /\ req[p].pc = "settle" /\ src \in req[p].todo
  /\ Go(p, [req[p] EXCEPT !.todo = @ \ {src},
            !.held = @ \cup {<<c, [row[c] EXCEPT !.settled = TRUE]>> : c \in Eligible(src)}])
  /\ UNCHANGED <<row, placed, taken>>

(* ... and saved, each source in a transaction of its own. *)
SettleSave(p, src) ==
  LET mine == {h \in req[p].held : h[1] \in Of(src)}
      cs   == {h[1] : h \in mine}
  IN /\ req[p].pc = "settle" /\ mine # {}
     /\ row' = [c \in Charges |-> IF c \in cs THEN (CHOOSE h \in mine : h[1] = c)[2] ELSE row[c]]
     /\ taken' = [c \in Charges |-> IF c \in cs THEN taken[c] + 1 ELSE taken[c]]
     /\ Go(p, [req[p] EXCEPT !.held = @ \ mine])
     /\ UNCHANGED placed

(* The answer: the sources are read again, nothing else is written. *)
SettleReply(p) ==
  /\ req[p].pc = "settle" /\ req[p].todo = {} /\ req[p].held = {}
  /\ Go(p, IdleReq)
  /\ UNCHANGED <<row, placed, taken>>

Midnight ==
  /\ placed # {} /\ placed' = {}
  /\ UNCHANGED <<row, req, taken>>

----------------------------------------------------------------------------
GuestStep(p) ==
  \/ CreateCheck(p) \/ CreateRefused(p)
  \/ \E o \in Orders : CreateInsert(p, o)
  \/ \E c \in Charges : CancelOwnRead(p, c)
  \/ Save(p)

WorkerStep(p) ==
  \/ \E c \in Charges, to \in Statuses : AdvanceRead(p, c, to)
  \/ \E o \in Orders : AssignRead(p, o)
  \/ Save(p)

DeskStep(p) ==
  \/ \E srcs \in {Sources, {"fnb"}} : SettleStart(p, srcs)
  \/ \E src \in Sources : SettleRead(p, src) \/ SettleSave(p, src)
  \/ SettleReply(p)

Step ==
  \/ \E p \in Guests : GuestStep(p)
  \/ \E p \in Workers : WorkerStep(p)
  \/ \E p \in Desk : DeskStep(p)
  \/ \E b \in Bookings : Book(b)
  \/ Midnight

Next ==
  /\ Step
  /\ raced' = raced \cup {c \in Charges : Cardinality({p \in Procs : c \in Held(p)'}) > 1}
  /\ Cardinality(raced') <= MaxRaced

Spec == Init /\ [][Next]_vars

----------------------------------------------------------------------------
TypeOK ==
  /\ row \in [Charges -> Row]
  /\ req \in [Procs -> Request]
  /\ placed \subseteq Orders /\ taken \in [Charges -> Nat] /\ raced \subseteq Charges

Creating == {p \in Guests : req[p].pc = "create"}

(* The count and the insert of an order are apart: a stay exceeds its open *)
(* limit by at most the other requests it has under way, and so it does    *)
(* the daily limit, which cancelled orders count against too.              *)
Throttles ==
  /\ Cardinality({o \in Orders \ raced : row[o].status \in Open}) + Cardinality(Creating)
       <= MaxOpen - 1 + Cardinality(Guests)
  /\ Cardinality(placed) + Cardinality(Creating) <= MaxPerDay - 1 + Cardinality(Guests)

(* Money and table agree: a charge is marked settled exactly when one      *)
(* settlement collected it, and only what was delivered or booked on the   *)
(* room is ever collected.                                                 *)
LedgerAgrees ==
  /\ TypeOK
  /\ \A c \in Charges \ raced :
       /\ taken[c] = IF row[c].settled THEN 1 ELSE 0
       /\ row[c].settled => c \notin Cash /\ (c \in Orders => row[c].status = "delivered")

(* A settlement leaves out nothing: what was due when it began has been    *)
(* collected, or was cancelled meanwhile, when it answers, though each     *)
(* source is read and saved in a transaction of its own.                   *)
SettleIsComplete ==
  [][\A p \in Desk :
       req[p].pc = "settle" /\ req'[p].pc = "idle" =>
         \A c \in req[p].due \ raced : row[c].settled \/ row[c].status = "cancelled"]_vars

(* Apart from raced rows the bill keeps the promise of Folio: a charge is  *)
(* owed once, then withdrawn or collected, and never owed again.           *)
Bill == INSTANCE Folio WITH
          owed <- {c \in Charges \ raced : Due(c)},
          collected <- {c \in Charges \ raced : row[c].settled},
          aside <- raced
KeepsTheFolio == Bill!Spec
=============================================================================
