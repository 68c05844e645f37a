---------------------------- MODULE OrdersProofs ----------------------------
(***************************************************************************)
(* Proofs about Orders, for every set of orders, bookings, guests, workers *)
(* and desks: money and table agree, a settlement leaves out nothing, the  *)
(* throttles hold up to the requests under way, and the bill implements    *)
(* Folio, all of it for the rows that no two requests held at once.  Then  *)
(* the theorems of PushProofs, carried over to the device of the runs;     *)
(* that guessing at the door is bounded, for all limits and windows; and   *)
(* that the reports add up, for any day, clocks and periods.               *)
(***************************************************************************)
EXTENDS MCOrders, Sequences, FunctionTheorems, FiniteSetTheorems, WellFoundedInduction, TLAPS

(* Orders are never booked, and bookings are booked and cancelled only.    *)
KindOK(c, r) ==
  r.status \in IF c \in Orders THEN Statuses \ {"booked"} ELSE {"none", "booked", "cancelled"}

(* A row that guests and staff hold: an order is still open in the table,  *)
(* so nobody settles it before the save; a booking is being cancelled.     *)
Changes(h) ==
  /\ h[2].settled = row[h[1]].settled
  /\ IF h[1] \in Orders THEN row[h[1]].status \in Open
     ELSE row[h[1]].status # "none" /\ h[2].status = "cancelled"

(* A row that a settlement holds is still due, and only its mark changes.  *)
Collects(h) == Due(h[1]) /\ h[2] = [row[h[1]] EXCEPT !.settled = TRUE]

HeldOK(q) ==
  \A h \in q.held :
    /\ KindOK(h[1], h[2]) /\ q.pc \in {"save", "settle"}
    /\ h[1] \notin raced => IF q.pc = "save" THEN Changes(h) ELSE Collects(h)

(* What was due when a settlement began is settled, cancelled, held by it, *)
(* or still due in a source that it has not read.                          *)
Accounted(q, c) ==
  \/ row[c].settled \/ row[c].status = "cancelled"
  \/ \E h \in q.held : h[1] = c
  \/ Due(c) /\ \E src \in q.todo : c \in Of(src)

DueOK(q) == q.pc = "settle" => \A c \in q.due \ raced : Accounted(q, c)

MoneyOK(c) ==
  /\ taken[c] = IF row[c].settled THEN 1 ELSE 0
  /\ row[c].settled =>
       /\ c \notin Cash /\ row[c].status # "none"
       /\ c \in Orders => row[c].status = "delivered"

OneHolder ==
  \A c \in Charges \ raced : \A p, q \in Procs : c \in Held(p) /\ c \in Held(q) => p = q

(* The inductive invariant.  Only rows outside `raced` are promised to be  *)
(* what their holder believes them to be.                                  *)
BillInv ==
  /\ TypeOK /\ OneHolder
  /\ \A c \in Charges : KindOK(c, row[c])
  /\ \A c \in Charges \ raced : MoneyOK(c)
  /\ \A p \in Procs : HeldOK(req[p]) /\ DueOK(req[p])

----------------------------------------------------------------------------
(* Two holders at most is what the ghost counts.                           *)
LEMMA CountsHolders ==
  ASSUME NEW S \in SUBSET Procs, NEW p \in S, NEW q \in S, p # q
  PROVE  Cardinality(S) > 1
<1>1. IsFiniteSet(S)
  BY OrdersAssumption, FS_Subset DEF Procs
<1>2. {p, q} \subseteq S /\ Cardinality({p, q}) = 2
  <2>1. IsFiniteSet({p}) /\ Cardinality({p}) = 1
    BY FS_Singleton
  <2>2. Cardinality({p} \cup {q}) = 2
    BY <2>1, FS_AddElement
  <2> QED
    BY <2>2
<1>3. Cardinality({p, q}) <= Cardinality(S)
  BY <1>1, <1>2, FS_Subset
<1> QED
  BY <1>1, <1>2, <1>3, FS_CardinalityType

LEMMA WatchKeeps ==
  ASSUME Next
  PROVE  OneHolder' /\ raced \subseteq raced'
<1>1. ASSUME NEW c \in Charges, c \notin raced', NEW p \in Procs, NEW q \in Procs,
             c \in Held(p)', c \in Held(q)', p # q
      PROVE  FALSE
  <2> DEFINE S == {o \in Procs : c \in Held(o)'}
  <2>1. S \in SUBSET Procs /\ p \in S /\ q \in S
    BY <1>1
  <2>2. Cardinality(S) > 1
    BY <1>1, <2>1, CountsHolders
  <2> QED
    BY <1>1, <2>2 DEF Next
<1> QED
  BY <1>1 DEF Next, OneHolder

(* What is said of a request survives a step that leaves the rows alone.   *)
LEMMA RowsSame ==
  ASSUME NEW q, HeldOK(q), DueOK(q), row' = row, raced \subseteq raced'
  PROVE  HeldOK(q)' /\ DueOK(q)'
BY DEF HeldOK, DueOK, Changes, Collects, Accounted, Due, KindOK

(* A step in which one request reads: the rows stay, and what is said of   *)
(* its new state holds there.                                              *)
LEMMA ReadKeeps ==
  ASSUME BillInv, Next, NEW p \in Procs, NEW q \in Request, Go(p, q),
         UNCHANGED <<row, taken>>, placed' \subseteq Orders, HeldOK(q), DueOK(q)
  PROVE  BillInv'
<1>1. TypeOK'
  BY DEF BillInv, TypeOK, Go, Next
<1>2. \A c \in Charges : KindOK(c, row[c])'
  BY DEF BillInv, KindOK
<1>3. \A c \in Charges \ raced' : MoneyOK(c)'
  BY WatchKeeps DEF BillInv, MoneyOK
<1>4. ASSUME NEW x \in Procs PROVE HeldOK(req[x])' /\ DueOK(req[x])'
  <2>1. req'[x] = IF x = p THEN q ELSE req[x]
    BY DEF Go, BillInv, TypeOK
  <2>2. HeldOK(req'[x]) /\ DueOK(req'[x])
    BY <2>1 DEF BillInv
  <2> QED
    BY <2>2, RowsSame, WatchKeeps DEF HeldOK, DueOK, Changes, Collects, Accounted, Due, KindOK
<1> QED
  BY <1>1, <1>2, <1>3, <1>4, WatchKeeps DEF BillInv

(* A step that writes the rows W: a request that does not take part in it  *)
(* holds none of them, unless raced, and what it owes of them is settled   *)
(* or cancelled by the step.                                               *)
LEMMA OthersKeep ==
  ASSUME BillInv, Next, NEW W, NEW x \in Procs, req'[x] = req[x],
         \A c \in Charges \ W : row'[c] = row[c],
         \A c \in W \ raced : /\ \A h \in req[x].held : h[1] # c
                              /\ Accounted(req[x], c) =>
                                   row'[c].settled \/ row'[c].status = "cancelled"
  PROVE  HeldOK(req[x])' /\ DueOK(req[x])'
<1>1. req[x] \in Request /\ raced \subseteq raced' /\ HeldOK(req[x]) /\ DueOK(req[x])
  BY WatchKeeps DEF BillInv, TypeOK
<1>2. ASSUME NEW h \in req[x].held, h[1] \notin raced
      PROVE  h[1] \in Charges \ W /\ row'[h[1]] = row[h[1]]
  BY <1>1, <1>2 DEF Request
<1>3. HeldOK(req[x])'
  <2> SUFFICES ASSUME NEW h \in req[x].held
               PROVE  /\ KindOK(h[1], h[2]) /\ req[x].pc \in {"save", "settle"}
                      /\ h[1] \notin raced' =>
                           IF req[x].pc = "save" THEN Changes(h)' ELSE Collects(h)'
    BY DEF HeldOK, KindOK
  <2> QED
    BY <1>1, <1>2 DEF HeldOK, Changes, Collects, Due
<1>4. ASSUME req[x].pc = "settle", NEW c \in req[x].due \ raced'
      PROVE  Accounted(req[x], c)'
  <2>1. c \in Charges \ raced /\ Accounted(req[x], c)
    BY <1>1, <1>4 DEF DueOK, Request
  <2>2. CASE c \in W
    BY <2>1, <2>2 DEF Accounted
  <2>3. CASE c \notin W
    BY <2>1, <2>3 DEF Accounted, Due
  <2> QED
    BY <2>2, <2>3
<1> QED
  BY <1>3, <1>4 DEF DueOK

LEMMA HoldKeeps ==
  ASSUME BillInv, Next, NEW p \in Procs, NEW c \in Charges, NEW r \in Row,
         KindOK(c, r), Changes(<<c, r>>), Hold(p, c, r), UNCHANGED <<row, placed, taken>>
  PROVE  BillInv'
<1> DEFINE q == [IdleReq EXCEPT !.pc = "save", !.held = {<<c, r>>}]
<1>1. q.pc = "save" /\ q.held = {<<c, r>>}
  BY DEF IdleReq
<1>2. q \in Request
  <2>1. {<<c, r>>} \in SUBSET (Charges \X Row)
    OBVIOUS
  <2>2. ASSUME NEW H \in SUBSET (Charges \X Row)
        PROVE  [IdleReq EXCEPT !.pc = "save", !.held = H] \in Request
    BY DEF IdleReq, Request
  <2> QED
    BY <2>1, <2>2
<1>3. HeldOK(q)
  <2> SUFFICES ASSUME NEW h \in q.held
               PROVE  KindOK(h[1], h[2]) /\ q.pc = "save" /\ Changes(h)
    BY DEF HeldOK
  <2>1. h = <<c, r>> /\ h[1] = c /\ h[2] = r
    BY <1>1
  <2> QED
    BY <1>1, <2>1
<1>4. DueOK(q)
  BY <1>1 DEF DueOK
<1> HIDE DEF q
<1> QED
  BY <1>2, <1>3, <1>4, ReadKeeps DEF BillInv, TypeOK, Hold, q

(* The reads, handler by handler.                                          *)
LEMMA GuestReadsKeep ==
  ASSUME BillInv, Next, NEW p \in Procs
  PROVE  /\ CreateCheck(p) => BillInv'
         /\ CreateRefused(p) => BillInv'
         /\ \A c \in Charges : CancelOwnRead(p, c) => BillInv'
<1> DEFINE creating == [IdleReq EXCEPT !.pc = "create"]
<1>1. IdleReq \in Request /\ HeldOK(IdleReq) /\ DueOK(IdleReq)
  BY DEF IdleReq, Request, HeldOK, DueOK
<1>2. creating \in Request /\ HeldOK(creating) /\ DueOK(creating)
  BY DEF IdleReq, Request, HeldOK, DueOK
<1>3. placed \subseteq Orders
  BY DEF BillInv, TypeOK
<1>4. CreateCheck(p) => BillInv'
  BY <1>2, <1>3, ReadKeeps DEF CreateCheck
<1>5. CreateRefused(p) => BillInv'
  BY <1>1, <1>3, ReadKeeps DEF CreateRefused
<1>6. ASSUME NEW c \in Charges, CancelOwnRead(p, c) PROVE BillInv'
  <2> DEFINE r == [row[c] EXCEPT !.status = "cancelled"]
  <2>1. row[c] \in Row /\ KindOK(c, row[c])
    BY DEF BillInv, TypeOK
  <2>2. r \in Row /\ KindOK(c, r) /\ Changes(<<c, r>>)
    BY <1>6, <2>1 DEF Row, Statuses, KindOK, Changes, CancelOwnRead, Open
  <2> QED
    BY <1>6, <2>2, HoldKeeps DEF CancelOwnRead
<1> QED
  BY <1>4, <1>5, <1>6

LEMMA WorkerReadsKeep ==
  ASSUME BillInv, Next, NEW p \in Procs
  PROVE  /\ \A c \in Charges, to \in Statuses : AdvanceRead(p, c, to) => BillInv'
         /\ \A o \in Orders : AssignRead(p, o) => BillInv'
<1>2. ASSUME NEW c \in Charges, NEW to \in Statuses, AdvanceRead(p, c, to) PROVE BillInv'
  <2> DEFINE r == [row[c] EXCEPT !.status = to]
  <2>1. row[c] \in Row /\ KindOK(c, row[c])
    BY DEF BillInv, TypeOK
  <2>2. r \in Row /\ KindOK(c, r) /\ Changes(<<c, r>>)
    BY <1>2, <2>1 DEF Row, Statuses, KindOK, Changes, AdvanceRead, Transitions, Open
  <2> QED
    BY <1>2, <2>2, HoldKeeps DEF AdvanceRead
<1>3. ASSUME NEW o \in Orders, AssignRead(p, o) PROVE BillInv'
  <2>1. o \in Charges /\ row[o] \in Row /\ KindOK(o, row[o])
    BY DEF BillInv, TypeOK, Charges
  <2>2. Changes(<<o, row[o]>>)
    BY <1>3 DEF Changes, AssignRead
  <2> QED
    BY <1>3, <2>1, <2>2, HoldKeeps DEF AssignRead
<1> QED
  BY <1>2, <1>3

LEMMA DeskReadsKeep ==
  ASSUME BillInv, Next, NEW p \in Procs
  PROVE  /\ \A srcs \in {Sources, {"fnb"}} : SettleStart(p, srcs) => BillInv'
         /\ \A src \in Sources : SettleRead(p, src) => BillInv'
         /\ SettleReply(p) => BillInv'
<1>1. placed \subseteq Orders /\ req[p] \in Request /\ HeldOK(req[p]) /\ DueOK(req[p])
  BY DEF BillInv, TypeOK
<1>2. ASSUME NEW srcs \in {Sources, {"fnb"}}, SettleStart(p, srcs) PROVE BillInv'
  <2> DEFINE cs == {c \in UNION {Of(s) : s \in srcs} : Due(c)}
             q == [IdleReq EXCEPT !.pc = "settle", !.todo = srcs, !.due = cs]
  <2>1. cs \subseteq Charges /\ srcs \subseteq Sources
    BY DEF Charges, Of, Sources
  <2>2. q \in Request /\ HeldOK(q)
    BY <2>1 DEF IdleReq, Request, HeldOK
  <2>3. DueOK(q)
    BY DEF IdleReq, DueOK, Accounted
  <2> QED
    BY <1>1, <1>2, <2>2, <2>3, ReadKeeps DEF SettleStart
<1>3. ASSUME NEW src \in Sources, SettleRead(p, src) PROVE BillInv'
  <2> DEFINE new == {<<c, [row[c] EXCEPT !.settled = TRUE]>> : c \in Eligible(src)}
             q == [req[p] EXCEPT !.todo = @ \ {src}, !.held = @ \cup new]
  <2>1. ASSUME NEW c \in Eligible(src)
        PROVE  /\ c \in Charges /\ Due(c) /\ [row[c] EXCEPT !.settled = TRUE] \in Row
               /\ KindOK(c, [row[c] EXCEPT !.settled = TRUE])
    BY DEF Eligible, Of, Charges, BillInv, TypeOK, Row, KindOK
  <2>2. ASSUME NEW h \in new
        PROVE  h \in Charges \X Row /\ KindOK(h[1], h[2]) /\ Collects(h)
    <3>1. PICK c \in Eligible(src) : h = <<c, [row[c] EXCEPT !.settled = TRUE]>>
      BY <2>2
    <3>2. h[1] = c /\ h[2] = [row[c] EXCEPT !.settled = TRUE]
      BY <3>1
    <3> QED
      BY <2>1, <3>1, <3>2 DEF Collects
  <2>3. q \in Request /\ q.pc = "settle" /\ q.due = req[p].due
        /\ q.todo = req[p].todo \ {src} /\ q.held = req[p].held \cup new
    BY <1>1, <1>3, <2>2 DEF Request, SettleRead
  <2>4. HeldOK(q)
    BY <1>1, <1>3, <2>2, <2>3 DEF HeldOK, SettleRead
  <2>5. ASSUME NEW c \in q.due \ raced PROVE Accounted(q, c)
    <3>1. Accounted(req[p], c)
      BY <1>1, <1>3, <2>3, <2>5 DEF DueOK, SettleRead
    <3>2. ASSUME Due(c), c \in Of(src) PROVE \E h \in q.held : h[1] = c
      <4>1. <<c, [row[c] EXCEPT !.settled = TRUE]>> \in q.held
        BY <2>3, <3>2 DEF Eligible
      <4> HIDE DEF q
      <4> QED
        BY <4>1
    <3>3. ASSUME Due(c), NEW s \in req[p].todo, c \in Of(s) PROVE Accounted(q, c)
      BY <2>3, <3>2, <3>3 DEF Accounted
    <3> QED
      BY <2>3, <3>1, <3>3 DEF Accounted
  <2> HIDE DEF q, new
  <2> QED
    BY <1>1, <1>3, <2>3, <2>4, <2>5, ReadKeeps DEF SettleRead, DueOK, q, new
<1>4. SettleReply(p) => BillInv'
  <2>1. IdleReq \in Request /\ HeldOK(IdleReq) /\ DueOK(IdleReq)
    BY DEF IdleReq, Request, HeldOK, DueOK
  <2> QED
    BY <1>1, <2>1, ReadKeeps DEF SettleReply
<1> QED
  BY <1>2, <1>3, <1>4

(* The writes.  A row that did not exist is held by nobody and owed by     *)
(* nobody.                                                                 *)
LEMMA NewRowKeeps ==
  ASSUME BillInv, Next, NEW c \in Charges, NEW st \in Statuses \ {"none", "delivered"},
         row[c].status = "none", KindOK(c, [NoRow EXCEPT !.status = st]),
         row' = [row EXCEPT ![c] = [NoRow EXCEPT !.status = st]],
         taken' = taken, placed' \subseteq Orders,
         \/ req' = req
         \/ \E p \in Procs : Go(p, IdleReq)
  PROVE  BillInv'
<1>1. /\ [NoRow EXCEPT !.status = st] \in Row /\ row' \in [Charges -> Row]
      /\ row'[c].status = st /\ row'[c].settled = FALSE
      /\ \A d \in Charges \ {c} : row'[d] = row[d]
  BY DEF NoRow, Row, BillInv, TypeOK
<1>2. IdleReq \in Request /\ HeldOK(IdleReq)' /\ DueOK(IdleReq)'
  BY DEF IdleReq, Request, HeldOK, DueOK
<1>3. req' \in [Procs -> Request] /\ \A x \in Procs : req'[x] \in {req[x], IdleReq}
  BY <1>2 DEF BillInv, TypeOK, Go
<1>4. TypeOK'
  BY <1>1, <1>3, WatchKeeps DEF BillInv, TypeOK, Next
<1>5. \A d \in Charges : KindOK(d, row[d])'
  BY <1>1 DEF BillInv, KindOK, NoRow
<1>6. ASSUME NEW d \in Charges \ raced' PROVE MoneyOK(d)'
  <2>1. MoneyOK(d)
    BY <1>6, WatchKeeps DEF BillInv
  <2> QED
    BY <1>1, <2>1 DEF MoneyOK
<1>7. ASSUME NEW x \in Procs, req'[x] = req[x] PROVE HeldOK(req[x])' /\ DueOK(req[x])'
  <2>1. ASSUME c \notin raced, NEW h \in req[x].held, h[1] = c PROVE FALSE
    BY <2>1 DEF BillInv, HeldOK, Changes, Collects, Due, Open
  <2>2. ASSUME c \notin raced, Accounted(req[x], c) PROVE FALSE
    <3>1. MoneyOK(c)
      BY <2>2 DEF BillInv
    <3> QED
      BY <2>1, <2>2, <3>1 DEF MoneyOK, Accounted, Due
  <2>3. \A d \in {c} \ raced :
          /\ \A h \in req[x].held : h[1] # d
          /\ Accounted(req[x], d) => row'[d].settled \/ row'[d].status = "cancelled"
    BY <2>1, <2>2
  <2> QED
    BY <1>1, <1>7, <2>3, OthersKeep
<1>8. ASSUME NEW x \in Procs PROVE HeldOK(req[x])' /\ DueOK(req[x])'
  <2>1. CASE req'[x] = req[x]
    BY <1>7, <2>1 DEF HeldOK, DueOK, Changes, Collects, Accounted, Due
  <2>2. CASE req'[x] = IdleReq
    BY <2>2 DEF IdleReq, HeldOK, DueOK
  <2> QED
    BY <1>3, <2>1, <2>2
<1> QED
  BY <1>4, <1>5, <1>6, <1>8, WatchKeeps DEF BillInv

LEMMA InsertsKeep ==
  ASSUME BillInv, Next
  PROVE  /\ \A p \in Procs, o \in Orders : CreateInsert(p, o) => BillInv'
         /\ \A b \in Bookings : Book(b) => BillInv'
<1>1. ASSUME NEW p \in Procs, NEW o \in Orders, CreateInsert(p, o) PROVE BillInv'
  <2>1. o \in Charges /\ KindOK(o, [NoRow EXCEPT !.status = "new"])
    BY DEF Charges, KindOK, NoRow, Statuses, Open
  <2>2. placed' \subseteq Orders
    BY <1>1 DEF CreateInsert, BillInv, TypeOK
  <2> QED
    BY <1>1, <2>1, <2>2, NewRowKeeps DEF CreateInsert, Statuses, Open
<1>2. ASSUME NEW b \in Bookings, Book(b) PROVE BillInv'
  <2>1. b \in Charges /\ KindOK(b, [NoRow EXCEPT !.status = "booked"])
    BY OrdersAssumption DEF Charges, KindOK, NoRow
  <2> QED
    BY <1>2, <2>1, NewRowKeeps DEF Book, BillInv, TypeOK, Statuses, Open
<1> QED
  BY <1>1, <1>2

(* A save of a row that nobody else holds leaves its mark as it was, and   *)
(* what a settlement owes of it can only be cancelled.                     *)
LEMMA SaveKeeps ==
  ASSUME BillInv, Next, NEW p \in Procs, Save(p)
  PROVE  BillInv'
<1>1. PICK h \in req[p].held : row' = [row EXCEPT ![h[1]] = h[2]]
  BY DEF Save
<1> DEFINE c == h[1]
<1>2. /\ req[p].pc = "save" /\ c \in Charges /\ h[2] \in Row /\ KindOK(c, h[2])
      /\ c \notin raced => Changes(h)
  BY DEF Save, BillInv, TypeOK, Request, HeldOK
<1>3. row' \in [Charges -> Row] /\ row'[c] = h[2] /\ \A d \in Charges \ {c} : row'[d] = row[d]
  BY <1>1, <1>2 DEF BillInv, TypeOK
<1>4. IdleReq \in Request /\ HeldOK(IdleReq)' /\ DueOK(IdleReq)'
  BY DEF IdleReq, Request, HeldOK, DueOK
<1>5. /\ req' \in [Procs -> Request] /\ req'[p] = IdleReq
      /\ \A x \in Procs \ {p} : req'[x] = req[x]
  BY <1>4 DEF BillInv, TypeOK, Go, Save
<1>6. TypeOK'
  BY <1>3, <1>5, WatchKeeps DEF BillInv, TypeOK, Next, Save
<1>7. \A d \in Charges : KindOK(d, row[d])'
  BY <1>2, <1>3 DEF BillInv, KindOK
<1>8. ASSUME NEW d \in Charges \ raced' PROVE MoneyOK(d)'
  <2>1. MoneyOK(d) /\ d \notin raced
    BY <1>8, WatchKeeps DEF BillInv
  <2>2. CASE d # c
    BY <1>3, <2>1, <2>2 DEF MoneyOK, Save
  <2>3. CASE d = c
    BY <1>2, <1>3, <2>1, <2>3 DEF MoneyOK, Save, Changes, Open
  <2> QED
    BY <2>2, <2>3
<1>9. ASSUME NEW x \in Procs \ {p} PROVE HeldOK(req[x])' /\ DueOK(req[x])'
  <2>1. ASSUME c \notin raced, NEW k \in req[x].held, k[1] = c PROVE FALSE
    BY <1>2, <2>1 DEF BillInv, OneHolder, Held
  <2>2. ASSUME c \notin raced, Accounted(req[x], c)
        PROVE  row'[c].settled \/ row'[c].status = "cancelled"
    <3>1. Changes(h) /\ MoneyOK(c) /\ KindOK(c, row[c]) /\ Charges = Orders \cup Bookings
      BY <1>2, <2>2 DEF BillInv, Charges
    <3> QED
      BY <1>3, <2>1, <2>2, <3>1 DEF MoneyOK, Accounted, Due, Changes, Open
  <2>3. \A d \in {c} \ raced :
          /\ \A k \in req[x].held : k[1] # d
          /\ Accounted(req[x], d) => row'[d].settled \/ row'[d].status = "cancelled"
    BY <2>1, <2>2
  <2> HIDE DEF c
  <2> QED
    BY <1>3, <1>5, <2>3, OthersKeep
<1>10. ASSUME NEW x \in Procs PROVE HeldOK(req[x])' /\ DueOK(req[x])'
  <2>1. CASE x # p
    BY <1>5, <1>9, <2>1 DEF HeldOK, DueOK, Changes, Collects, Accounted, Due
  <2>2. CASE x = p
    BY <1>5, <2>2 DEF IdleReq, HeldOK, DueOK
  <2> QED
    BY <2>1, <2>2
<1> QED
  BY <1>6, <1>7, <1>8, <1>10, WatchKeeps DEF BillInv

(* A settlement saves one source: every row it holds there is marked, and  *)
(* one that nobody else held was due until then.                           *)
LEMMA SettleSaveRows ==
  ASSUME BillInv, NEW p \in Procs, NEW src \in Sources, SettleSave(p, src)
  PROVE  LET mine == {h \in req[p].held : h[1] \in Of(src)}
             cs   == {h[1] : h \in mine}
         IN /\ cs \subseteq Charges /\ row' \in [Charges -> Row]
            /\ \A c \in Charges \ cs : row'[c] = row[c] /\ taken'[c] = taken[c]
            /\ \A c \in cs : /\ KindOK(c, row'[c]) /\ taken'[c] = taken[c] + 1
                             /\ c \notin raced => /\ Due(c)
                                                  /\ row'[c] = [row[c] EXCEPT !.settled = TRUE]
<1> DEFINE mine == {h \in req[p].held : h[1] \in Of(src)}
           cs   == {h[1] : h \in mine}
<1>1. /\ req[p].pc = "settle" /\ HeldOK(req[p]) /\ req[p].held \subseteq Charges \X Row
      /\ row \in [Charges -> Row]
      /\ row' = [c \in Charges |-> IF c \in cs THEN (CHOOSE h \in mine : h[1] = c)[2] ELSE row[c]]
      /\ taken' = [c \in Charges |-> IF c \in cs THEN taken[c] + 1 ELSE taken[c]]
  BY DEF SettleSave, BillInv, TypeOK, Request
<1>2. ASSUME NEW c \in cs
      PROVE  /\ c \in Charges /\ row'[c] \in Row /\ KindOK(c, row'[c])
             /\ c \notin raced => /\ Due(c)
                                  /\ row'[c] = [row[c] EXCEPT !.settled = TRUE]
  <2> DEFINE k == CHOOSE h \in mine : h[1] = c
  <2>1. k \in mine /\ k[1] = c
    BY <1>2
  <2>2. c \in Charges /\ row'[c] = k[2] /\ k[2] \in Row
    BY <1>1, <2>1
  <2> HIDE DEF k
  <2> QED
    BY <1>1, <2>1, <2>2 DEF HeldOK, Collects
<1>3. \A c \in Charges : row'[c] \in Row
  BY <1>1, <1>2
<1> QED
  BY <1>1, <1>2, <1>3

LEMMA SettleSaveKeeps ==
  ASSUME BillInv, Next, NEW p \in Procs, NEW src \in Sources, SettleSave(p, src)
  PROVE  BillInv'
<1> DEFINE mine == {h \in req[p].held : h[1] \in Of(src)}
           cs   == {h[1] : h \in mine}
<1>1. /\ cs \subseteq Charges /\ row' \in [Charges -> Row]
      /\ \A c \in Charges \ cs : row'[c] = row[c] /\ taken'[c] = taken[c]
      /\ \A c \in cs : /\ KindOK(c, row'[c]) /\ taken'[c] = taken[c] + 1
                       /\ c \notin raced => /\ Due(c)
                                            /\ row'[c] = [row[c] EXCEPT !.settled = TRUE]
  BY SettleSaveRows
<1>2. PICK q \in Request :
        /\ q = [req[p] EXCEPT !.held = @ \ mine]
        /\ q.pc = "settle" /\ q.held = req[p].held \ mine
        /\ q.todo = req[p].todo /\ q.due = req[p].due /\ req[p].pc = "settle"
  <2>1. [req[p] EXCEPT !.held = @ \ mine] \in Request
    BY DEF BillInv, TypeOK, Request
  <2> QED
    BY <2>1 DEF SettleSave, BillInv, TypeOK, Request
<1>3. /\ req' \in [Procs -> Request] /\ req'[p] = q
      /\ \A x \in Procs \ {p} : req'[x] = req[x]
  BY <1>2 DEF SettleSave, BillInv, TypeOK, Go
<1>4. taken' \in [Charges -> Nat]
  BY DEF SettleSave, BillInv, TypeOK
<1>5. TypeOK'
  BY <1>1, <1>3, <1>4, WatchKeeps DEF BillInv, TypeOK, Next, SettleSave
<1>6. \A c \in Charges : KindOK(c, row[c])'
  BY <1>1 DEF BillInv, KindOK
<1>7. ASSUME NEW c \in Charges \ raced' PROVE MoneyOK(c)'
  <2>1. MoneyOK(c) /\ c \notin raced
    BY <1>7, WatchKeeps DEF BillInv
  <2>2. CASE c \notin cs
    BY <1>1, <2>1, <2>2 DEF MoneyOK
  <2>3. CASE c \in cs
    <3>1. Due(c) /\ row[c] \in Row
      BY <1>1, <2>1, <2>3 DEF BillInv, TypeOK
    <3>2. row'[c].settled = TRUE /\ row'[c].status = row[c].status /\ taken'[c] = taken[c] + 1
      BY <1>1, <2>1, <2>3, <3>1 DEF Row
    <3> QED
      BY <2>1, <3>1, <3>2 DEF MoneyOK, Due
  <2> QED
    BY <2>2, <2>3
<1>8. ASSUME NEW x \in Procs \ {p} PROVE HeldOK(req[x])' /\ DueOK(req[x])'
  <2>1. ASSUME NEW c \in cs \ raced
        PROVE  (\A k \in req[x].held : k[1] # c) /\ row'[c].settled
    <3>1. \A k \in req[x].held : k[1] # c
      BY <1>1 DEF BillInv, OneHolder, Held
    <3>2. row[c] \in Row
      BY <1>1 DEF BillInv, TypeOK
    <3> QED
      BY <1>1, <3>1, <3>2 DEF Row
  <2>2. \A c \in Charges \ cs : row'[c] = row[c]
    BY <1>1
  <2> HIDE DEF cs
  <2> QED
    BY <1>3, <2>1, <2>2, OthersKeep
<1>9. HeldOK(q)'
  <2>1. ASSUME NEW h \in q.held
        PROVE  h \in req[p].held /\ h[1] \in Charges \ cs
    BY <1>2 DEF BillInv, TypeOK, Request
  <2>2. HeldOK(req[p]) /\ raced \subseteq raced' /\ \A c \in Charges \ cs : row'[c] = row[c]
    BY <1>1, WatchKeeps DEF BillInv
  <2> HIDE DEF cs, mine
  <2> QED
    BY <1>2, <2>1, <2>2 DEF HeldOK, KindOK, Collects, Due
<1>10. DueOK(q)'
  <2> SUFFICES ASSUME NEW c \in q.due \ raced' PROVE Accounted(q, c)'
    BY DEF DueOK
  <2>1. Accounted(req[p], c) /\ c \in Charges \ raced
    BY <1>2, WatchKeeps DEF BillInv, TypeOK, Request, DueOK
  <2>2. CASE c \in cs
    <3>1. row[c] \in Row
      BY <2>1 DEF BillInv, TypeOK
    <3> QED
      BY <1>1, <2>1, <2>2, <3>1 DEF Row, Accounted
  <2>3. CASE c \notin cs
    <3>1. ASSUME NEW h \in req[p].held, h[1] = c PROVE h \in q.held
      BY <1>2, <2>3, <3>1
    <3>2. row'[c] = row[c]
      BY <1>1, <2>1, <2>3
    <3> QED
      BY <1>2, <2>1, <3>1, <3>2 DEF Accounted, Due
  <2> QED
    BY <2>2, <2>3
<1>11. ASSUME NEW x \in Procs PROVE HeldOK(req[x])' /\ DueOK(req[x])'
  <2>1. CASE x # p
    BY <1>3, <1>8, <2>1 DEF HeldOK, DueOK, Changes, Collects, Accounted, Due
  <2>2. CASE x = p
    BY <1>3, <1>9, <1>10, <2>2 DEF HeldOK, DueOK, Changes, Collects, Accounted, Due
  <2> QED
    BY <2>1, <2>2
<1> QED
  BY <1>5, <1>6, <1>7, <1>11, WatchKeeps DEF BillInv

----------------------------------------------------------------------------
LEMMA InitBill == Init => BillInv
<1> SUFFICES ASSUME Init PROVE BillInv
  OBVIOUS
<1>1. NoRow \in Row /\ IdleReq \in Request
  BY DEF NoRow, Row, Statuses, IdleReq, Request
<1>2. TypeOK
  BY <1>1 DEF Init, TypeOK
<1>3. OneHolder
  BY DEF Init, OneHolder, Held, IdleReq
<1>4. \A c \in Charges : KindOK(c, row[c]) /\ MoneyOK(c)
  BY DEF Init, KindOK, MoneyOK, NoRow, Statuses
<1>5. \A p \in Procs : HeldOK(req[p]) /\ DueOK(req[p])
  BY DEF Init, HeldOK, DueOK, IdleReq
<1> QED
  BY <1>2, <1>3, <1>4, <1>5 DEF BillInv

LEMMA StepKeepsBill == BillInv /\ [Next]_vars => BillInv'
<1> SUFFICES ASSUME BillInv, [Next]_vars PROVE BillInv'
  OBVIOUS
<1>1. CASE UNCHANGED vars
  BY <1>1 DEF vars, BillInv, TypeOK, OneHolder, Held, KindOK, MoneyOK, HeldOK, DueOK,
              Changes, Collects, Accounted, Due
<1>2. CASE Next
  <2>1. ASSUME NEW p \in Guests, GuestStep(p) PROVE BillInv'
    <3>1. p \in Procs
      BY DEF Procs
    <3> QED
      BY <1>2, <2>1, <3>1, GuestReadsKeep, InsertsKeep, SaveKeeps DEF GuestStep
  <2>2. ASSUME NEW p \in Workers, WorkerStep(p) PROVE BillInv'
    <3>1. p \in Procs
      BY DEF Procs
    <3> QED
      BY <1>2, <2>2, <3>1, WorkerReadsKeep, SaveKeeps DEF WorkerStep
  <2>3. ASSUME NEW p \in Desk, DeskStep(p) PROVE BillInv'
    <3>1. p \in Procs
      BY DEF Procs
    <3> QED
      BY <1>2, <2>3, <3>1, DeskReadsKeep, SettleSaveKeeps DEF DeskStep
  <2>4. ASSUME NEW b \in Bookings, Book(b) PROVE BillInv'
    BY <1>2, <2>4, InsertsKeep
  <2>5. CASE Midnight
    <3>1. TypeOK'
      BY <1>2, <2>5, WatchKeeps DEF Midnight, BillInv, TypeOK, Next
    <3>2. \A c \in Charges \ raced' : MoneyOK(c)'
      BY <1>2, <2>5, WatchKeeps DEF Midnight, BillInv, MoneyOK
    <3>3. ASSUME NEW x \in Procs PROVE HeldOK(req[x])' /\ DueOK(req[x])'
      BY <1>2, <2>5, WatchKeeps
         DEF Midnight, BillInv, HeldOK, DueOK, Changes, Collects, Accounted, Due
    <3> QED
      BY <1>2, <2>5, <3>1, <3>2, <3>3, WatchKeeps DEF Midnight, BillInv, KindOK
  <2> QED
    BY <1>2, <2>1, <2>2, <2>3, <2>4, <2>5 DEF Next, Step
<1> QED
  BY <1>1, <1>2

LEMMA BillHolds == Spec => []BillInv
BY InitBill, StepKeepsBill, PTL DEF Spec

(* Money and table agree, whatever guests, staff and desks overlap: a      *)
(* charge is marked settled exactly when one settlement collected it, and  *)
(* only what was delivered, or booked on the room, is ever collected.      *)
THEOREM LedgerKept == Spec => []LedgerAgrees
<1>1. BillInv => LedgerAgrees
  BY DEF BillInv, LedgerAgrees, MoneyOK
<1> QED
  BY <1>1, BillHolds, PTL

(* A settlement that answers has left out nothing of what was due when it  *)
(* began, though each source is read and saved in a transaction of its own. *)
THEOREM SettlementsComplete == Spec => SettleIsComplete
<1> DEFINE Answers ==
      \A p \in Desk :
        req[p].pc = "settle" /\ req'[p].pc = "idle" =>
          \A c \in req[p].due \ raced : row[c].settled \/ row[c].status = "cancelled"
<1>1. BillInv /\ [Next]_vars => [Answers]_vars
  <2> SUFFICES ASSUME BillInv, Next, NEW p \in Desk,
                      req[p].pc = "settle", req'[p].pc = "idle",
                      NEW c \in req[p].due \ raced
               PROVE  row[c].settled \/ row[c].status = "cancelled"
    BY DEF vars
  <2>1. p \in Procs /\ req \in [Procs -> Request]
    BY DEF Procs, BillInv, TypeOK
  <2>2. ASSUME NEW x \in Procs, NEW q, Go(x, q) PROVE x = p /\ q.pc = "idle"
    BY <2>1, <2>2 DEF Go
  <2>3. ASSUME NEW x \in Guests, GuestStep(x) PROVE FALSE
    BY <2>2, <2>3 DEF GuestStep, Procs, Idle, CreateCheck, CreateRefused, CreateInsert,
                      CancelOwnRead, Hold, Save
  <2>4. ASSUME NEW x \in Workers, WorkerStep(x) PROVE FALSE
    BY <2>2, <2>4 DEF WorkerStep, Procs, Idle, AdvanceRead, AssignRead, Hold, Save
  <2>5. ASSUME NEW x \in Desk, DeskStep(x) PROVE SettleReply(p)
    <3>1. x \in Procs /\ req[x] \in Request
      BY <2>1 DEF Procs
    <3>2. ASSUME NEW srcs, SettleStart(x, srcs) PROVE FALSE
      BY <2>2, <3>1, <3>2 DEF SettleStart, Idle
    <3>3. ASSUME NEW src, SettleRead(x, src) PROVE FALSE
      <4> DEFINE new == {<<d, [row[d] EXCEPT !.settled = TRUE]>> : d \in Eligible(src)}
                 q == [req[x] EXCEPT !.todo = @ \ {src}, !.held = @ \cup new]
      <4>1. q.pc = req[x].pc /\ req[x].pc = "settle" /\ Go(x, q)
        BY <3>1, <3>3 DEF Request, SettleRead
      <4> HIDE DEF q
      <4> QED
        BY <2>2, <3>1, <4>1
    <3>4. ASSUME NEW src, SettleSave(x, src) PROVE FALSE
      BY <2>2, <3>1, <3>4 DEF SettleSave, Request
    <3> QED
      BY <2>2, <2>5, <3>1, <3>2, <3>3, <3>4 DEF DeskStep, SettleReply
  <2>6. SettleReply(p)
    BY <2>3, <2>4, <2>5 DEF Next, Step, Book, Midnight
  <2> QED
    BY <2>1, <2>6 DEF SettleReply, BillInv, DueOK, Accounted
<1> QED
  BY <1>1, BillHolds, PTL DEF Spec, SettleIsComplete

----------------------------------------------------------------------------
(* The throttles.                                                          *)
OpenNow == {o \in Orders \ raced : row[o].status \in Open}

LEMMA Finite ==
  /\ IsFiniteSet(Guests)
  /\ \A S \in SUBSET Orders : IsFiniteSet(S) /\ Cardinality(S) \in Nat
  /\ \A S \in SUBSET Guests : IsFiniteSet(S) /\ Cardinality(S) \in Nat
  /\ \A S \in SUBSET Guests : Cardinality(S) <= Cardinality(Guests)
<1>1. IsFiniteSet(Guests)
  BY OrdersAssumption, FS_Subset
<1> QED
  BY <1>1, OrdersAssumption, FS_Subset, FS_CardinalityType

(* A step that opens no order and begins no placement.                     *)
LEMMA ShrinkKeeps ==
  ASSUME BillInv, BillInv', Throttles,
         OpenNow' \subseteq OpenNow, Creating' \subseteq Creating, placed' \subseteq placed
  PROVE  Throttles'
<1>1. /\ OpenNow \in SUBSET Orders /\ OpenNow' \in SUBSET Orders
      /\ placed \in SUBSET Orders /\ placed' \in SUBSET Orders
      /\ Creating \in SUBSET Guests /\ Creating' \in SUBSET Guests
  BY DEF OpenNow, Creating, BillInv, TypeOK
<1>2. /\ Cardinality(OpenNow') <= Cardinality(OpenNow)
      /\ Cardinality(Creating') <= Cardinality(Creating)
      /\ Cardinality(placed') <= Cardinality(placed)
  BY <1>1, Finite, FS_Subset
<1> QED
  BY <1>1, <1>2, Finite, OrdersAssumption DEF Throttles, OpenNow

(* What a request may do to the open orders and to the placements.         *)
LEMMA CreateCheckThrottles ==
  ASSUME BillInv, BillInv', Next, Throttles, NEW p \in Guests, CreateCheck(p)
  PROVE  Throttles'
<1>1. /\ OpenNow' \subseteq OpenOrders /\ placed' = placed
      /\ OpenOrders \in SUBSET Orders /\ OpenNow' \in SUBSET Orders
      /\ placed \in SUBSET Orders /\ Creating' \in SUBSET Guests
  BY WatchKeeps DEF OpenNow, OpenOrders, CreateCheck, Creating, BillInv, TypeOK
<1>2. Cardinality(OpenNow') <= Cardinality(OpenOrders)
  BY <1>1, Finite, FS_Subset
<1> QED
  BY <1>1, <1>2, Finite, OrdersAssumption DEF Throttles, OpenNow, CreateCheck, TodaysOrders

LEMMA CreateInsertThrottles ==
  ASSUME BillInv, BillInv', Next, Throttles, NEW p \in Guests, NEW o \in Orders, CreateInsert(p, o)
  PROVE  Throttles'
<1>1. Creating' = Creating \ {p} /\ p \in Creating
  BY DEF CreateInsert, Creating, Go, IdleReq, Procs, BillInv, TypeOK
<1>2. OpenNow' \subseteq OpenNow \cup {o} /\ placed' = placed \cup {o}
  BY WatchKeeps DEF CreateInsert, OpenNow, BillInv, TypeOK, Charges
<1>3. /\ OpenNow \in SUBSET Orders /\ OpenNow' \in SUBSET Orders
      /\ placed \in SUBSET Orders /\ Creating \in SUBSET Guests
  BY DEF OpenNow, Creating, BillInv, TypeOK
<1>4. Cardinality(Creating') = Cardinality(Creating) - 1
  BY <1>1, <1>3, Finite, FS_RemoveElement
<1>5. /\ Cardinality(OpenNow') <= Cardinality(OpenNow) + 1
      /\ Cardinality(placed') <= Cardinality(placed) + 1
  <2>1. /\ IsFiniteSet(OpenNow \cup {o})
        /\ Cardinality(OpenNow \cup {o}) \in {Cardinality(OpenNow), Cardinality(OpenNow) + 1}
    BY <1>3, Finite, FS_AddElement
  <2>2. Cardinality(OpenNow') <= Cardinality(OpenNow \cup {o})
    BY <1>2, <2>1, FS_Subset
  <2>3. Cardinality(placed') \in {Cardinality(placed), Cardinality(placed) + 1}
    BY <1>2, <1>3, Finite, FS_AddElement
  <2> QED
    BY <1>3, <2>1, <2>2, <2>3, Finite
<1> HIDE DEF OpenNow
<1>6. Cardinality(placed') \in Nat
  BY <1>2, <1>3, Finite
<1> QED
  BY <1>3, <1>4, <1>5, <1>6, Finite, OrdersAssumption DEF Throttles, OpenNow

LEMMA SavesShrink ==
  ASSUME BillInv, Next, NEW p \in Procs
  PROVE  /\ Save(p) => OpenNow' \subseteq OpenNow
         /\ \A src \in Sources : SettleSave(p, src) => OpenNow' \subseteq OpenNow
<1>1. ASSUME Save(p), NEW o \in OpenNow' PROVE o \in OpenNow
  <2>1. PICK h \in req[p].held : row' = [row EXCEPT ![h[1]] = h[2]]
    BY <1>1 DEF Save
  <2>2. h[1] \in Charges /\ (h[1] \notin raced => Changes(h))
    BY <1>1 DEF Save, BillInv, TypeOK, Request, HeldOK
  <2>3. o \in Orders \ raced /\ row'[o].status \in Open
    BY WatchKeeps DEF OpenNow
  <2> QED
    BY <2>1, <2>2, <2>3 DEF OpenNow, Changes, BillInv, TypeOK, Charges
<1>2. ASSUME NEW src \in Sources, SettleSave(p, src), NEW o \in OpenNow' PROVE o \in OpenNow
  <2>1. o \in Orders \ raced /\ row'[o].status \in Open /\ o \in Charges /\ row[o] \in Row
    BY WatchKeeps DEF OpenNow, Charges, BillInv, TypeOK
  <2>2. row'[o] = row[o] \/ row'[o] = [row[o] EXCEPT !.settled = TRUE]
    BY <1>2, <2>1, SettleSaveRows
  <2> QED
    BY <2>1, <2>2 DEF OpenNow, Row
<1> QED
  BY <1>1, <1>2

(* Only a check begins a placement; every other step leaves the callers    *)
(* that are placing an order, or takes one away.                           *)
LEMMA NoneBegins ==
  ASSUME BillInv, NEW p \in Procs, NEW q, Go(p, q), q.pc # "create"
  PROVE  Creating' \subseteq Creating
BY DEF BillInv, TypeOK, Go, Creating, Procs

LEMMA StepThrottles == BillInv /\ Throttles /\ [Next]_vars => Throttles'
<1> SUFFICES ASSUME BillInv, Throttles, [Next]_vars PROVE Throttles'
  OBVIOUS
<1>1. CASE UNCHANGED vars
  BY <1>1 DEF vars, Throttles, Creating
<1>2. CASE Next
  <2>1. BillInv'
    BY StepKeepsBill
  <2>2. ASSUME row' = row PROVE OpenNow' \subseteq OpenNow
    BY <1>2, <2>2, WatchKeeps DEF OpenNow
  <2>3. ASSUME NEW p \in Guests, GuestStep(p) PROVE Throttles'
    <3>1. p \in Procs
      BY DEF Procs
    <3>2. CreateRefused(p) => Throttles'
      BY <2>1, <2>2, <3>1, ShrinkKeeps, NoneBegins DEF CreateRefused, IdleReq
    <3>3. ASSUME NEW c \in Charges, CancelOwnRead(p, c) PROVE Throttles'
      BY <2>1, <2>2, <3>1, <3>3, ShrinkKeeps, NoneBegins DEF CancelOwnRead, Hold, IdleReq
    <3>4. Save(p) => Throttles'
      BY <1>2, <2>1, <3>1, ShrinkKeeps, NoneBegins, SavesShrink DEF Save, IdleReq
    <3> QED
      BY <1>2, <2>1, <2>3, <3>2, <3>3, <3>4, CreateCheckThrottles, CreateInsertThrottles
         DEF GuestStep
  <2>4. ASSUME NEW p \in Workers, WorkerStep(p) PROVE Throttles'
    <3>1. p \in Procs
      BY DEF Procs
    <3>2. ASSUME NEW c \in Charges, NEW to \in Statuses, AdvanceRead(p, c, to) PROVE Throttles'
      BY <2>1, <2>2, <3>1, <3>2, ShrinkKeeps, NoneBegins DEF AdvanceRead, Hold, IdleReq
    <3>3. ASSUME NEW o \in Orders, AssignRead(p, o) PROVE Throttles'
      BY <2>1, <2>2, <3>1, <3>3, ShrinkKeeps, NoneBegins DEF AssignRead, Hold, IdleReq
    <3>4. Save(p) => Throttles'
      BY <1>2, <2>1, <3>1, ShrinkKeeps, NoneBegins, SavesShrink DEF Save, IdleReq
    <3> QED
      BY <2>4, <3>2, <3>3, <3>4 DEF WorkerStep
  <2>5. ASSUME NEW p \in Desk, DeskStep(p) PROVE Throttles'
    <3>1. p \in Procs /\ req[p] \in Request
      BY DEF Procs, BillInv, TypeOK
    <3>2. \A T, H : [req[p] EXCEPT !.todo = T, !.held = H].pc = req[p].pc
      BY <3>1 DEF Request
    <3>3. \A H : [req[p] EXCEPT !.held = H].pc = req[p].pc
      BY <3>1 DEF Request
    <3>4. ASSUME NEW srcs, SettleStart(p, srcs) PROVE Throttles'
      BY <2>1, <2>2, <3>1, <3>4, ShrinkKeeps, NoneBegins DEF SettleStart, IdleReq
    <3>5. ASSUME NEW src \in Sources, SettleRead(p, src) PROVE Throttles'
      BY <2>1, <2>2, <3>1, <3>2, <3>5, ShrinkKeeps, NoneBegins DEF SettleRead
    <3>6. ASSUME NEW src \in Sources, SettleSave(p, src) PROVE Throttles'
      BY <1>2, <2>1, <3>1, <3>3, <3>6, ShrinkKeeps, NoneBegins, SavesShrink DEF SettleSave
    <3>7. SettleReply(p) => Throttles'
      BY <2>1, <2>2, <3>1, ShrinkKeeps, NoneBegins DEF SettleReply, IdleReq
    <3> QED
      BY <2>5, <3>4, <3>5, <3>6, <3>7 DEF DeskStep
  <2>6. ASSUME NEW b \in Bookings, Book(b) PROVE Throttles'
    <3>1. b \notin Orders /\ row' \in [Charges -> Row] /\ \A o \in Orders : row'[o] = row[o]
      BY <2>1, <2>6, OrdersAssumption DEF Book, BillInv, TypeOK, Charges
    <3>2. OpenNow' \subseteq OpenNow
      BY <1>2, <3>1, WatchKeeps DEF OpenNow
    <3> QED
      BY <2>1, <2>6, <3>2, ShrinkKeeps DEF Book, Creating
  <2>7. CASE Midnight
    BY <2>1, <2>2, <2>7, ShrinkKeeps DEF Midnight, Creating
  <2> QED
    BY <1>2, <2>3, <2>4, <2>5, <2>6, <2>7 DEF Next, Step
<1> QED
  BY <1>1, <1>2

(* The count and the insert of an order are apart, so a stay exceeds its   *)
(* open limit and its daily limit, but by no more than the other requests  *)
(* it has under way.                                                       *)
THEOREM OrdersThrottled == Spec => []Throttles
<1>1. Init => Throttles
  <2> SUFFICES ASSUME Init PROVE Throttles
    OBVIOUS
  <2>1. OpenNow = {} /\ Creating = {} /\ placed = {}
    BY DEF Init, OpenNow, Creating, NoRow, IdleReq, Procs, Charges, Open
  <2> QED
    BY <2>1, Finite, FS_EmptySet, OrdersAssumption DEF Throttles, OpenNow
<1> QED
  BY <1>1, StepThrottles, BillHolds, PTL DEF Spec

----------------------------------------------------------------------------
(* The bill implements Folio. *)
OwedNow == {c \in Charges \ raced : Due(c)}
CollectedNow == {c \in Charges \ raced : row[c].settled}

(* Two requests that both hold a row are needed to race it, so a step      *)
(* after which every request holds at most what it held races no row.      *)
LEMMA RacesNone ==
  ASSUME BillInv, Next, \A p \in Procs, c \in Charges : c \in Held(p)' => c \in Held(p)
  PROVE  raced' = raced
<1> SUFFICES ASSUME NEW c \in Charges \ raced,
                    Cardinality({p \in Procs : c \in Held(p)'}) > 1
             PROVE  FALSE
  BY DEF Next
<1> DEFINE S == {p \in Procs : c \in Held(p)'}
<1>1. ASSUME S = {} PROVE FALSE
  BY <1>1, FS_EmptySet
<1>2. ASSUME NEW p \in S, NEW q \in S, p # q PROVE FALSE
  BY <1>2 DEF BillInv, OneHolder
<1>3. PICK p \in S : S = {p}
  BY <1>1, <1>2
<1>4. Cardinality(S) > 1
  OBVIOUS
<1> HIDE DEF S
<1>5. Cardinality(S) = 1
  BY <1>3, FS_Singleton
<1> QED
  BY <1>4, <1>5

(* A step that leaves the rows alone at most sets some of them aside.      *)
LEMMA RowsSameFolio ==
  ASSUME BillInv, BillInv', Next, row' = row
  PROVE  [Bill!Next]_<<OwedNow, CollectedNow, raced>>
<1>1. PICK C \in SUBSET Charges : raced' = raced \cup C
  BY WatchKeeps DEF BillInv, TypeOK
<1>2. OwedNow' = OwedNow \ C /\ CollectedNow' = CollectedNow \ C
  BY <1>1 DEF OwedNow, CollectedNow, Due
<1>3. Bill!SetAside(C)
  BY <1>1, <1>2 DEF Bill!SetAside, OwedNow, CollectedNow
<1> QED
  BY <1>1, <1>3 DEF Bill!Next

(* A step that writes one row without marking it charges or withdraws it.  *)
LEMMA OneRowFolio ==
  ASSUME BillInv, raced' = raced, NEW c \in Charges,
         \A d \in Charges \ {c} : row'[d] = row[d],
         c \notin raced => row'[c].settled = row[c].settled
  PROVE  [Bill!Next]_<<OwedNow, CollectedNow, raced>>
<1>1. CollectedNow' = CollectedNow
  BY DEF CollectedNow
<1>2. \A d \in Charges \ {c} : Due(d)' = Due(d)
  BY DEF Due
<1>3. CASE c \in raced \/ Due(c)' = Due(c)
  <2>1. OwedNow' = OwedNow
    BY <1>2, <1>3 DEF OwedNow
  <2> QED
    BY <1>1, <2>1
<1>4. CASE c \notin raced /\ Due(c) /\ ~Due(c)'
  <2>1. OwedNow' = OwedNow \ {c} /\ {c} \subseteq OwedNow
    BY <1>2, <1>4 DEF OwedNow
  <2>2. Bill!Withdraw({c})
    BY <1>1, <2>1 DEF Bill!Withdraw, OwedNow, CollectedNow
  <2> QED
    BY <2>2 DEF Bill!Next
<1>5. CASE c \notin raced /\ ~Due(c) /\ Due(c)'
  <2>1. OwedNow' = OwedNow \cup {c} /\ c \notin OwedNow \cup CollectedNow \cup raced
    BY <1>2, <1>5 DEF OwedNow, CollectedNow, Due
  <2>2. Bill!Charge(c)
    BY <1>1, <2>1 DEF Bill!Charge, OwedNow, CollectedNow
  <2> QED
    BY <2>2 DEF Bill!Next
<1> QED
  BY <1>3, <1>4, <1>5 DEF Due

(* A step after which one request holds no more than it held.              *)
LEMMA HoldsLess ==
  ASSUME BillInv, Next, NEW p \in Procs, NEW q, Go(p, q), q.held \subseteq req[p].held
  PROVE  raced' = raced
<1>1. \A x \in Procs, c \in Charges : c \in Held(x)' => c \in Held(x)
  BY DEF Go, Held, BillInv, TypeOK
<1> QED
  BY <1>1, RacesNone

LEMMA WritesFolio ==
  ASSUME BillInv, Next
  PROVE  /\ \A p \in Procs, o \in Orders :
              CreateInsert(p, o) => [Bill!Next]_<<OwedNow, CollectedNow, raced>>
         /\ \A b \in Bookings : Book(b) => [Bill!Next]_<<OwedNow, CollectedNow, raced>>
         /\ \A p \in Procs : Save(p) => [Bill!Next]_<<OwedNow, CollectedNow, raced>>
<1>1. \A c \in Charges \ raced : row[c].status = "none" => ~row[c].settled
  BY DEF BillInv, MoneyOK
<1>2. ASSUME NEW p \in Procs, NEW o \in Orders, CreateInsert(p, o)
      PROVE  [Bill!Next]_<<OwedNow, CollectedNow, raced>>
  <2>1. raced' = raced
    BY <1>2, HoldsLess DEF CreateInsert, IdleReq
  <2>2. o \in Charges /\ row'[o] = [NoRow EXCEPT !.status = "new"]
        /\ \A d \in Charges \ {o} : row'[d] = row[d]
    BY <1>2 DEF CreateInsert, Charges, BillInv, TypeOK
  <2>3. o \notin raced => row'[o].settled = row[o].settled
    BY <1>1, <1>2, <2>2 DEF CreateInsert, NoRow, BillInv, TypeOK, Row
  <2> QED
    BY <2>1, <2>2, <2>3, OneRowFolio
<1>3. ASSUME NEW b \in Bookings, Book(b)
      PROVE  [Bill!Next]_<<OwedNow, CollectedNow, raced>>
  <2>1. raced' = raced
    BY <1>3, RacesNone DEF Book, Held
  <2>2. b \in Charges /\ row'[b] = [NoRow EXCEPT !.status = "booked"]
        /\ \A d \in Charges \ {b} : row'[d] = row[d]
    BY <1>3 DEF Book, Charges, BillInv, TypeOK
  <2>3. b \notin raced => row'[b].settled = row[b].settled
    BY <1>1, <1>3, <2>2 DEF Book, NoRow, BillInv, TypeOK, Row
  <2> QED
    BY <2>1, <2>2, <2>3, OneRowFolio
<1>4. ASSUME NEW p \in Procs, Save(p)
      PROVE  [Bill!Next]_<<OwedNow, CollectedNow, raced>>
  <2>1. raced' = raced
    BY <1>4, HoldsLess DEF Save, IdleReq
  <2>2. PICK h \in req[p].held : row' = [row EXCEPT ![h[1]] = h[2]]
    BY <1>4 DEF Save
  <2>3. h[1] \in Charges /\ (h[1] \notin raced => Changes(h))
    BY <1>4 DEF Save, BillInv, TypeOK, Request, HeldOK
  <2>4. row'[h[1]] = h[2] /\ \A d \in Charges \ {h[1]} : row'[d] = row[d]
    BY <2>2, <2>3 DEF BillInv, TypeOK
  <2> QED
    BY <2>1, <2>3, <2>4, OneRowFolio DEF Changes
<1> QED
  BY <1>2, <1>3, <1>4

(* The save of a source collects what the settlement held of it.           *)
LEMMA SettleSaveFolio ==
  ASSUME BillInv, Next, NEW p \in Procs, NEW src \in Sources, SettleSave(p, src)
  PROVE  [Bill!Next]_<<OwedNow, CollectedNow, raced>>
<1> DEFINE mine == {h \in req[p].held : h[1] \in Of(src)}
           cs   == {h[1] : h \in mine}
<1>1. /\ cs \subseteq Charges
      /\ \A c \in Charges \ cs : row'[c] = row[c]
      /\ \A c \in cs \ raced : Due(c) /\ row'[c] = [row[c] EXCEPT !.settled = TRUE]
  BY SettleSaveRows
<1>2. raced' = raced
  <2>1. [req[p] EXCEPT !.held = @ \ mine].held \subseteq req[p].held
    BY DEF BillInv, TypeOK, Request
  <2> QED
    BY <2>1, HoldsLess DEF SettleSave
<1>3. PICK C \in SUBSET Charges : C = cs \ raced
  BY <1>1
<1> HIDE DEF cs
<1>4. ASSUME NEW c \in C PROVE Due(c) /\ ~Due(c)' /\ row'[c].settled
  <2>1. Due(c) /\ row'[c] = [row[c] EXCEPT !.settled = TRUE] /\ row[c] \in Row
    BY <1>1, <1>3 DEF BillInv, TypeOK
  <2>2. row'[c].settled = TRUE
    BY <2>1 DEF Row
  <2> QED
    BY <2>1, <2>2 DEF Due
<1>5. \A c \in Charges \ (C \cup raced) : row'[c] = row[c]
  BY <1>1, <1>3
<1>6. C \subseteq OwedNow /\ OwedNow' = OwedNow \ C /\ CollectedNow' = CollectedNow \cup C
  BY <1>2, <1>3, <1>4, <1>5 DEF OwedNow, CollectedNow, Due
<1>7. Bill!Collect(C)
  BY <1>2, <1>6 DEF Bill!Collect, OwedNow, CollectedNow
<1> QED
  BY <1>7 DEF Bill!Next

LEMMA StepFolio ==
  BillInv /\ [Next]_vars => [Bill!Next]_<<OwedNow, CollectedNow, raced>>
<1> SUFFICES ASSUME BillInv, [Next]_vars
             PROVE  [Bill!Next]_<<OwedNow, CollectedNow, raced>>
  OBVIOUS
<1>1. CASE UNCHANGED vars
  BY <1>1 DEF vars, OwedNow, CollectedNow, Due
<1>2. CASE Next
  <2>1. ASSUME row' = row PROVE [Bill!Next]_<<OwedNow, CollectedNow, raced>>
    BY <1>2, <2>1, StepKeepsBill, RowsSameFolio
  <2>2. ASSUME NEW p \in Guests, GuestStep(p)
        PROVE  [Bill!Next]_<<OwedNow, CollectedNow, raced>>
    <3>1. p \in Procs
      BY DEF Procs
    <3> QED
      BY <1>2, <2>1, <2>2, <3>1, WritesFolio
         DEF GuestStep, CreateCheck, CreateRefused, CancelOwnRead
  <2>3. ASSUME NEW p \in Workers, WorkerStep(p)
        PROVE  [Bill!Next]_<<OwedNow, CollectedNow, raced>>
    <3>1. p \in Procs
      BY DEF Procs
    <3> QED
      BY <1>2, <2>1, <2>3, <3>1, WritesFolio DEF WorkerStep, AdvanceRead, AssignRead
  <2>4. ASSUME NEW p \in Desk, DeskStep(p)
        PROVE  [Bill!Next]_<<OwedNow, CollectedNow, raced>>
    <3>1. p \in Procs
      BY DEF Procs
    <3> QED
      BY <1>2, <2>1, <2>4, <3>1, SettleSaveFolio DEF DeskStep, SettleStart, SettleRead, SettleReply
  <2> QED
    BY <1>2, <2>1, <2>2, <2>3, <2>4, WritesFolio DEF Next, Step, Midnight
<1> QED
  BY <1>1, <1>2

(* The room bill implements Folio: outside the raced rows a charge is owed *)
(* once, then withdrawn or collected, and a collected one is never owed    *)
(* again, though reads, saves and settlements overlap in every way.        *)
THEOREM BillImplementsFolio == Spec => KeepsTheFolio
<1>1. Init => Bill!Init
  BY DEF Init, Bill!Init, Due, NoRow
<1>2. BillInv /\ [Next]_vars
        => [Bill!Next]_<<{c \in Charges \ raced : Due(c)}, {c \in Charges \ raced : row[c].settled}, raced>>
  BY StepFolio DEF OwedNow, CollectedNow
<1> QED
  BY <1>1, <1>2, BillHolds, PTL DEF Spec, KeepsTheFolio, Bill!Spec

(* The device of the runs, to which the theorems about Push apply.         *)
Told == INSTANCE PushProofs WITH
          Rows <- Notices, Subs <- {"sub"}, Owners <- {"guest"}, Callers <- Senders,
          Kinds <- {"announcement", "status"}, MaxAttempts <- 2, MaxTries <- 2, MaxFaults <- 1

(* The operators of the two instances are the same, and so are the steps. *)
LEMMA DeviceCounts == \A S : Device!Cardinality(S) = Told!Cardinality(S)
BY Zenon DEF Device!Cardinality, Told!Cardinality

LEMMA DeviceSteps == Device!Next => Told!Next
<1>1. /\ Device!Final = Told!Final /\ Device!NoRow = Told!NoRow /\ Device!IdleCall = Told!IdleCall
      /\ Device!Free = Told!Free /\ Device!Inserting = Told!Inserting
      /\ \A i \in Notices : Device!Pending(i) <=> Told!Pending(i)
      /\ \A i : Device!RowLocked(i) <=> Told!RowLocked(i)
  BY DEF Device!Final, Told!Final, Device!NoRow, Told!NoRow, Device!IdleCall, Told!IdleCall, Device!Free, Told!Free,
         Device!Inserting, Told!Inserting, Device!Pending, Told!Pending, Device!RowLocked, Told!RowLocked
<1>2. \A kind, owner : /\ Device!Topic(kind, owner) = Told!Topic(kind, owner)
                       /\ Device!Key(kind, owner) = Told!Key(kind, owner)
  BY Zenon DEF Device!Topic, Told!Topic, Device!Key, Told!Key
<1>3. ASSUME NEW p \in Senders, NEW u \in {"sub"}, NEW kind, NEW held \in BOOLEAN,
             Device!Enqueue(p, u, kind, held)
      PROVE  Told!Enqueue(p, u, kind, held)
  BY <1>1, <1>2, <1>3, DeviceCounts
  DEF Device!Enqueue, Told!Enqueue, Device!SameTopic, Told!SameTopic, Device!Pending, Told!Pending
<1>4. ASSUME NEW p \in Senders, NEW i \in Notices, Device!Insert(p, i)
      PROVE  Told!Insert(p, i)
  BY <1>4, Zenon DEF Device!Insert, Told!Insert, Device!Taken, Told!Taken, Device!NewRow, Told!NewRow,
                     Device!Decided, Told!Decided, Device!Free, Told!Free, Device!IdleCall, Told!IdleCall,
                     Device!Key, Told!Key, Device!Topic, Told!Topic
<1>5. ASSUME NEW i \in Notices, NEW polled \in BOOLEAN, Device!Try(i, polled)
      PROVE  Told!Try(i, polled)
  BY <1>1, <1>2, <1>5, Zenon DEF Device!Try, Told!Try, Device!Gate, Told!Gate, Device!Send, Told!Send,
        Device!DropSub, Told!DropSub,
       Device!RecordSent, Told!RecordSent, Device!RecordFailed, Told!RecordFailed, Device!SaveSub, Told!SaveSub,
       Device!Guarded, Told!Guarded, Device!Failed, Told!Failed, Device!Decided, Told!Decided,
       Device!Advance, Told!Advance, Device!Leave, Told!Leave, Device!Pending, Told!Pending
<1>6. ASSUME NEW a \in att, Device!TryError(a)
      PROVE  Told!TryError(a)
  BY <1>1, <1>6, Zenon DEF Device!TryError, Told!TryError, Device!Guarded, Told!Guarded, Device!Failed, Told!Failed,
                    Device!Decided, Told!Decided, Device!Leave, Told!Leave, Device!Pending, Told!Pending
<1>7. Device!Poll => Told!Poll
  BY <1>1 DEF Device!Poll, Told!Poll, Device!PollStart, Told!PollStart, Device!PollNext, Told!PollNext,
              Device!PollDone, Told!PollDone, Device!Polling, Told!Polling, Device!Pending, Told!Pending
<1>8. ASSUME NEW i \in Notices
      PROVE  (Device!Ripen(i) => Told!Ripen(i)) /\ (Device!Prune(i) => Told!Prune(i))
  BY <1>1, <1>2 DEF Device!Ripen, Told!Ripen, Device!Prune, Told!Prune
<1>9. ASSUME NEW u \in {"sub"}, NEW g \in {"guest"}
      PROVE  /\ Device!Subscribe(u, g) => Told!Subscribe(u, g)
             /\ Device!Unsubscribe(g) => Told!Unsubscribe(g)
             /\ Device!Depart(g) => Told!Depart(g)
  BY Zenon DEF Device!Subscribe, Told!Subscribe, Device!Unsubscribe, Told!Unsubscribe, Device!Depart, Told!Depart
<1>10. Device!Crash => Told!Crash
  BY <1>1 DEF Device!Crash, Told!Crash
<1> QED
  BY <1>3, <1>4, <1>5, <1>6, <1>7, <1>8, <1>9, <1>10, Zenon DEF Device!Next, Told!Next

(* Whatever the runs do, the device follows its own specification.        *)
LEMMA DeviceRuns == MCSpec => Told!Spec
<1> DEFINE MCvars == <<scene, vars, deviceVars, doorVars, bookVars>>
<1>1. MCInit => Told!Init
  BY DEF MCInit, Device!Init, Told!Init, Device!NoRow, Told!NoRow, Device!IdleCall, Told!IdleCall
<1>2. [MCNext]_MCvars => [Told!Next]_(Told!vars)
  <2>1. CASE MCNext
    BY <2>1, DeviceSteps DEF MCNext, deviceVars, Told!vars
  <2>2. CASE UNCHANGED MCvars
    BY <2>2 DEF deviceVars, Told!vars
  <2> QED
    BY <2>1, <2>2
<1> QED
  BY <1>1, <1>2, PTL DEF MCSpec, Told!Spec

LEMMA DeviceFits == Told!Parameters
BY ScenesAssumption DEF Told!Parameters, Device!Parameters

(* At no moment do two notices of one topic wait for one phone: a newer    *)
(* event takes the place of the one that waits (push.service.ts, enqueue). *)
THEOREM OneNoticePending == MCSpec => []OnePending
<1>1. Told!Spec => []Told!OnePending
  BY DeviceFits, Told!NoticesCollapse
<1>2. Told!OnePending => OnePending
  BY DeviceCounts
  DEF OnePending, Device!OnePending, Told!OnePending, Device!TypeOK, Told!TypeOK, Device!Pending, Told!Pending,
      Device!Topic, Told!Topic, Device!Final, Told!Final, Device!Dispatch, Told!Dispatch,
      Device!Call, Told!Call, Device!Attempt, Told!Attempt
<1> QED
  BY <1>1, <1>2, DeviceRuns, PTL

(* No retry, poll or crash reopens a notice that was sent, failed or       *)
(* skipped, and no repeat of its event loses a keyed one that waits.       *)
THEOREM NoticesStandFirm == MCSpec => NoticesStand
<1>1. Told!Spec => Told!DecidedIsFinal /\ Told!RepeatsLoseNothing
  BY DeviceFits, Told!OutcomesStand, Told!RepeatsHarmless
<1>2. Told!DecidedIsFinal => Device!DecidedIsFinal
  BY PTL DEF Told!DecidedIsFinal, Device!DecidedIsFinal, Told!Final, Device!Final, Told!vars, Device!vars
<1>3. Told!RepeatsLoseNothing => Device!RepeatsLoseNothing
  BY PTL DEF Told!RepeatsLoseNothing, Device!RepeatsLoseNothing, Told!Pending, Device!Pending,
             Told!Key, Device!Key, Told!Topic, Device!Topic, Told!vars, Device!vars
<1> QED
  BY <1>1, <1>2, <1>3, DeviceRuns, PTL DEF NoticesStand

(* Nothing more is sent to the phone of a guest who has left, except by an *)
(* attempt that was past its gate by then.                                 *)
THEOREM DeparturesSilenced == MCSpec => DepartureSilences
<1>1. Told!Spec => Told!DepartureSilences
  BY DeviceFits, Told!DeparturesSilence
<1>2. Told!DepartureSilences => Device!DepartureSilences
  BY PTL DEF Told!DepartureSilences, Device!DepartureSilences, Told!PastGate, Device!PastGate,
             Told!vars, Device!vars
<1> QED
  BY <1>1, <1>2, DeviceRuns, PTL DEF DepartureSilences

----------------------------------------------------------------------------
(***************************************************************************)
(* The door.  What is kept about the log of wrong attempts speaks of the   *)
(* log, of the attempts H that a room has heard since its guest entered,   *)
(* and of the counter w of that room.                                      *)
(***************************************************************************)
Wrong == [room : Doors, at : Nat, over : BOOLEAN, lock : Nat]
Counter == [has : BOOLEAN, count : Nat, start : Nat, locked : Nat, lockouts : Nat]
InHand == Tries - 1

Heard(log, r) == {i \in DOMAIN log : log[i].room = r /\ ~log[i].over}
Later(H, k) == {i \in H : i > k}
Recent(H, log, k, f) == {i \in H : i <= k /\ log[i].at > f}
InTime(H, log, i) == {j \in H : j > i /\ log[j].at < log[i].at + log[i].lock}
Looking(r) == {p \in 1..Tries : try[p].pc = "lookup" /\ try[p].room = r}
Flying == {p \in 1..Tries : try[p].pc = "lookup"}

DoorTyped ==
  /\ rooms \in [Doors -> Counter] /\ hour \in Nat \ {0}
  /\ hotels \in [has : BOOLEAN, count : Nat, start : Nat]
  /\ try \in [1..Tries -> [pc : {"idle", "lookup"}, room : Doors \cup {None}, code : Codes \cup {None}]]
  /\ \A p \in 1..Tries : try[p].pc = "lookup" => try[p].room \in Doors
  /\ wrong \in Seq(Wrong)
  /\ \A i \in DOMAIN wrong : 0 < wrong[i].at /\ wrong[i].at <= hour

(* The counter counts the attempts after the k-th.  Those before belong to *)
(* earlier windows: the last of them ended in a lock at the very start of  *)
(* this one, or so few are recent that they did not fill a window.         *)
Framed(w, H, log) ==
  IF ~w.has THEN H = {} /\ w = Door!NoRoom
  ELSE /\ w.count < RoomLimit
       /\ \E k \in 0..Len(log) :
            /\ Cardinality(Later(H, k)) = w.count
            /\ \A i \in H : i <= k => log[i].at <= w.start
            /\ \/ \E i \in H : i <= k /\ log[i].lock > 0 /\ log[i].at = w.start
               \/ Cardinality(Recent(H, log, k, w.start - RoomWindow)) < RoomLimit

(* No lock but the last attempt: two windows at most.                      *)
Spanned(H, log) ==
  \A m \in H : \A f \in Int :
    (f >= log[m].at - RoomWindow /\ \A j \in H : j < m /\ log[j].at > f => log[j].lock = 0)
      => Cardinality(Recent(H, log, m, f)) <= 2 * RoomLimit - 1

(* The counter remembers the longest lock, and how long it lasts.          *)
Escalating(w, H, log) ==
  \A i \in H : log[i].lock > 0 =>
    /\ w.lockouts > 0 /\ log[i].lock <= Door!Lockout(w.lockouts)
    /\ LockoutBase <= log[i].lock
    /\ log[i].at + log[i].lock <= w.locked
    /\ \A j \in H : j > i /\ log[j].lock > 0 => log[j].lock >= Door!Smaller(2 * log[i].lock, LockoutMax)

(* While a lock lasts, the attempts under way are all that is to come.     *)
Waited(H, log, t, coming) ==
  \A i \in H : log[i].lock > 0 =>
    Cardinality(InTime(H, log, i)) + (IF t < log[i].at + log[i].lock THEN coming ELSE 0) <= InHand

RoomOK(r) ==
  /\ rooms[r].start <= hour
  /\ Framed(rooms[r], Heard(wrong, r), wrong)
  /\ Spanned(Heard(wrong, r), wrong)
  /\ Escalating(rooms[r], Heard(wrong, r), wrong)
  /\ Waited(Heard(wrong, r), wrong, hour, Cardinality(Looking(r)))

(* The window of the hotel counts the last attempts of the log.            *)
HotelOK(w, log, t, coming) ==
  IF ~w.has THEN log = <<>>
  ELSE \E k \in 0..Len(log) :
    /\ w.count = Len(log) - k /\ w.count > 0 /\ w.count <= HotelLimit + InHand
    /\ w.start <= t /\ log[k + 1].at = w.start
    /\ \A i \in 1..k : log[i].at <= w.start
    /\ Cardinality({i \in 1..k : log[i].at > w.start - HotelWindow}) < HotelLimit + InHand
    /\ w.count >= HotelLimit /\ t - w.start < HotelWindow => w.count + coming <= HotelLimit + InHand

DoorInv ==
  /\ DoorTyped
  /\ \A r \in Doors : RoomOK(r)
  /\ HotelOK(hotels, wrong, hour, Cardinality(Flying))

LEMMA DoorBounds ==
  /\ {RoomLimit, RoomWindow, LockoutBase, LockoutMax, HotelLimit, HotelWindow} \subseteq Nat \ {0}
  /\ LockoutMax >= LockoutBase /\ LockoutBase >= RoomWindow
  /\ None \notin Doors \cup Codes
  /\ Tries \in Nat \ {0}
BY ScenesAssumption DEF Door!Parameters

(* A set with one element more has twice as many subsets.                  *)
LEMMA Doubling == ASSUME NEW n \in Nat PROVE 2^(n + 1) = 2 * 2^n /\ 2^n \in Nat \ {0}
<1>1. /\ IsFiniteSet(1..n) /\ Cardinality(1..n) = n
      /\ IsFiniteSet(1..(n + 1)) /\ Cardinality(1..(n + 1)) = n + 1
  BY FS_Interval
<1>2. PICK A : A = SUBSET (1..n)
  OBVIOUS
<1>3. PICK B : B = {X \in SUBSET (1..(n + 1)) : n + 1 \in X}
  OBVIOUS
<1>4. IsFiniteSet(A) /\ Cardinality(A) = 2^n
  BY <1>1, <1>2, FS_SUBSET
<1>5. IsFiniteSet(SUBSET (1..(n + 1))) /\ Cardinality(SUBSET (1..(n + 1))) = 2^(n + 1)
  BY <1>1, FS_SUBSET
<1>6. SUBSET (1..(n + 1)) = A \cup B /\ A \cap B = {}
  BY <1>2, <1>3
<1>7. ExistsBijection(A, B)
  <2>1. PICK f : f = [X \in A |-> X \cup {n + 1}]
    OBVIOUS
  <2>2. f \in [A -> B]
    BY <2>1, <1>2, <1>3
  <2>3. ASSUME NEW X \in A, NEW Y \in A, f[X] = f[Y] PROVE X = Y
    <3>1. X \cup {n + 1} = Y \cup {n + 1} /\ n + 1 \notin X /\ n + 1 \notin Y
      BY <2>1, <2>3, <1>2
    <3>. QED BY <3>1
  <2>4. ASSUME NEW Y \in B PROVE \E X \in A : f[X] = Y
    <3>1. Y \ {n + 1} \in A /\ (Y \ {n + 1}) \cup {n + 1} = Y
      BY <1>2, <1>3, <2>4
    <3>. QED BY <3>1, <2>1
  <2>. QED BY <2>2, <2>3, <2>4, Fun_IsBij DEF ExistsBijection
<1>8. IsFiniteSet(B) /\ Cardinality(B) = Cardinality(A)
  BY <1>4, <1>7, FS_Bijection
<1>9. Cardinality(A \cup B) = Cardinality(A) + Cardinality(B)
  <2>1. Cardinality(A \cap B) = 0
    BY <1>6, FS_EmptySet
  <2>2. Cardinality(A) \in Nat
    BY <1>4, FS_CardinalityType
  <2>. QED BY <2>1, <2>2, <1>4, <1>8, FS_Union
<1>10. Cardinality(A) \in Nat /\ Cardinality(A) # 0
  BY <1>2, <1>4, FS_CardinalityType, FS_EmptySet
<1>11. 2^(n + 1) = Cardinality(A) + Cardinality(A)
  BY <1>5, <1>6, <1>8, <1>9
<1>. QED BY <1>4, <1>10, <1>11

LEMMA Lengthening ==
  ASSUME NEW n \in Nat \ {0}
  PROVE  /\ Door!Lockout(n) \in Nat /\ Door!Lockout(n) >= LockoutBase /\ Door!Lockout(n) <= LockoutMax
         /\ Door!Lockout(n + 1) = Door!Smaller(2 * Door!Lockout(n), LockoutMax)
<1>1. PICK x \in Nat \ {0} : x = 2^(n - 1)
  BY Doubling
<1>2. 2^((n + 1) - 1) = 2 * x
  <2>1. 2^((n - 1) + 1) = 2 * 2^(n - 1)
    BY Doubling, n - 1 \in Nat
  <2>2. (n - 1) + 1 = (n + 1) - 1
    OBVIOUS
  <2>. QED BY <1>1, <2>1, <2>2
<1>3. PICK y \in Nat : y = LockoutBase * x
  BY DoorBounds
<1>4. y >= LockoutBase
  BY <1>3, DoorBounds
<1>5. LockoutBase * (2 * x) = 2 * y
  BY <1>3, DoorBounds
<1>. QED BY <1>1, <1>2, <1>3, <1>4, <1>5, DoorBounds DEF Door!Lockout, Door!Smaller

LEMMA HeardSome ==
  ASSUME NEW log \in Seq(Wrong), NEW r, NEW S \in SUBSET Heard(log, r)
  PROVE  IsFiniteSet(S) /\ Cardinality(S) \in Nat /\ Heard(log, r) \subseteq 1..Len(log)
<1>1. Heard(log, r) \subseteq 1..Len(log)
  BY DEF Heard
<1>2. IsFiniteSet(1..Len(log))
  BY FS_Interval
<1>3. S \subseteq 1..Len(log)
  BY <1>1
<1>. QED BY <1>1, <1>2, <1>3, FS_Subset, FS_CardinalityType

LEMMA Logged ==
  ASSUME NEW log \in Seq(Wrong), NEW e \in Wrong, NEW r
  PROVE  LET new == Append(log, e) n == Len(log) IN
         /\ new \in Seq(Wrong) /\ n \in Nat /\ Len(new) = n + 1
         /\ DOMAIN log = 1..n /\ DOMAIN new = 1..(n + 1)
         /\ \A i \in 1..n : new[i] = log[i]
         /\ new[n + 1] = e
         /\ Heard(new, r) = IF e.room = r /\ ~e.over THEN Heard(log, r) \cup {n + 1} ELSE Heard(log, r)
<1>1. PICK n \in Nat : n = Len(log)
  OBVIOUS
<1>2. PICK new : new = Append(log, e)
  OBVIOUS
<1>3. /\ new \in Seq(Wrong) /\ Len(new) = n + 1
      /\ DOMAIN log = 1..n /\ DOMAIN new = 1..(n + 1)
      /\ \A i \in 1..n : new[i] = log[i]
      /\ new[n + 1] = e
  BY <1>1, <1>2
<1>4. Heard(new, r) = IF e.room = r /\ ~e.over THEN Heard(log, r) \cup {n + 1} ELSE Heard(log, r)
  <2>1. \A i \in 1..n : i \in Heard(new, r) <=> i \in Heard(log, r)
    BY <1>3 DEF Heard
  <2>2. n + 1 \in Heard(new, r) <=> e.room = r /\ ~e.over
    BY <1>3 DEF Heard
  <2>3. Heard(log, r) \subseteq 1..n /\ Heard(new, r) \subseteq 1..(n + 1) /\ n + 1 \notin 1..n
    BY <1>3 DEF Heard
  <2>4. \A i \in 1..(n + 1) : i \in 1..n \/ i = n + 1
    OBVIOUS
  <2>5. CASE e.room = r /\ ~e.over
    <3>1. \A i : i \in Heard(new, r) <=> i \in Heard(log, r) \cup {n + 1}
      BY <2>1, <2>2, <2>3, <2>4, <2>5
    <3>. QED BY <3>1, <2>5
  <2>6. CASE ~(e.room = r /\ ~e.over)
    <3>1. \A i : i \in Heard(new, r) <=> i \in Heard(log, r)
      BY <2>1, <2>2, <2>3, <2>4, <2>6
    <3>. QED BY <3>1, <2>6
  <2>. QED BY <2>5, <2>6
<1>. QED BY <1>1, <1>2, <1>3, <1>4

(* What one more wrong attempt at time t does to the counter w, and the    *)
(* lock it leads to, if any.                                               *)
Fresh(w, t) == ~w.has \/ t - w.start >= RoomWindow
Counts(w, t) == IF Fresh(w, t) THEN 1 ELSE w.count + 1
Judges(w, v, t, lock) ==
  /\ v \in Counter /\ v.has
  /\ IF Counts(w, t) < RoomLimit
     THEN /\ v.count = Counts(w, t) /\ v.start = (IF Fresh(w, t) THEN t ELSE w.start)
          /\ v.locked = w.locked /\ v.lockouts = w.lockouts /\ lock = 0
     ELSE /\ v.count = 0 /\ v.start = t /\ v.lockouts = w.lockouts + 1
          /\ lock = Door!Lockout(w.lockouts + 1) /\ v.locked = t + lock

Hears(log, e, r, w, v) ==
  /\ e.room = r /\ ~e.over
  /\ \A i \in DOMAIN log : log[i].at <= e.at
  /\ w.start <= e.at
  /\ Judges(w, v, e.at, e.lock)
  /\ Framed(w, Heard(log, r), log)

LEMMA Heeded ==
  ASSUME NEW log \in Seq(Wrong), NEW e \in Wrong, NEW r, NEW w, NEW v, Hears(log, e, r, w, v)
  PROVE  LET new == Append(log, e) n == Len(log) H == Heard(log, r) N == Heard(new, r) IN
         /\ Len(new) = n + 1 /\ N = H \cup {n + 1} /\ H \subseteq 1..n /\ N \subseteq 1..(n + 1)
         /\ \A i \in 1..n : new[i] = log[i] /\ log[i] \in Wrong
         /\ \A i \in H : log[i].at \in Nat /\ log[i].lock \in Nat /\ log[i].at <= e.at
         /\ new[n + 1] = e /\ e.at \in Nat /\ e.lock \in Nat /\ new \in Seq(Wrong)
<1>1. PICK new : new = Append(log, e)
  OBVIOUS
<1>2. PICK n \in Nat : n = Len(log)
  OBVIOUS
<1>3. PICK H : H = Heard(log, r)
  OBVIOUS
<1>4. PICK N : N = Heard(new, r)
  OBVIOUS
<1>5. \A i \in 1..n : log[i] \in Wrong
  BY <1>2
<1>6. H \subseteq 1..n
  BY <1>2, <1>3, HeardSome
<1>7. /\ Len(new) = n + 1 /\ \A i \in 1..n : new[i] = log[i]
      /\ new[n + 1] = e /\ new \in Seq(Wrong)
  BY <1>1, <1>2, Logged
<1>8. N = H \cup {n + 1}
  BY <1>1, <1>2, <1>3, <1>4, Logged DEF Hears
<1>9. N \subseteq 1..(n + 1)
  BY <1>6, <1>8
<1>10. ASSUME NEW i \in H PROVE log[i].at \in Nat /\ log[i].lock \in Nat /\ log[i].at <= e.at
  <2>1. log[i].at \in Nat /\ log[i].lock \in Nat
    BY <1>5, <1>6 DEF Wrong
  <2>2. log[i].at <= e.at
    BY <1>6, <1>2 DEF Hears
  <2>. QED BY <2>1, <2>2
<1>11. e.at \in Nat /\ e.lock \in Nat
  BY DEF Wrong
<1>. QED BY <1>1, <1>2, <1>3, <1>4, <1>5, <1>6, <1>7, <1>8, <1>9, <1>10, <1>11

(* The counted attempts, those before them, and one that comes after all.  *)
LEMMA FramedAfter ==
  ASSUME NEW log \in Seq(Wrong), NEW e \in Wrong, NEW r, NEW w \in Counter, NEW v,
         Hears(log, e, r, w, v)
  PROVE  Framed(v, Heard(Append(log, e), r), Append(log, e))
<1>1. PICK new : new = Append(log, e)
  OBVIOUS
<1>2. PICK n \in Nat : n = Len(log)
  OBVIOUS
<1>3. PICK H : H = Heard(log, r)
  OBVIOUS
<1>4. PICK N : N = Heard(new, r)
  OBVIOUS
<1>5. /\ Len(new) = n + 1 /\ N = H \cup {n + 1} /\ H \subseteq 1..n /\ N \subseteq 1..(n + 1)
      /\ \A i \in 1..n : new[i] = log[i] /\ log[i] \in Wrong
      /\ \A i \in H : log[i].at \in Nat /\ log[i].at <= e.at
      /\ new[n + 1] = e /\ e.at \in Nat /\ e.lock \in Nat /\ new \in Seq(Wrong)
  BY <1>1, <1>2, <1>3, <1>4, Heeded
<1>6. \A S \in SUBSET H : IsFiniteSet(S) /\ Cardinality(S) \in Nat
  BY <1>3, HeardSome
<1>7. /\ w.start \in Nat /\ w.count \in Nat /\ v.start \in Nat /\ v.count \in Nat
      /\ w.has \in BOOLEAN /\ w.lockouts \in Nat
      /\ w.start <= e.at /\ v.has
  BY DEF Counter, Hears, Judges
<1>8. RoomLimit \in Nat \ {0} /\ RoomWindow \in Nat \ {0}
  BY DoorBounds
<1>9. CASE Counts(w, e.at) >= RoomLimit
  <2>1. v.count = 0 /\ v.start = e.at /\ e.lock = Door!Lockout(w.lockouts + 1)
    BY <1>7, <1>8, <1>9 DEF Hears, Judges, Counts
  <2>2. e.lock > 0
    <3>1. w.lockouts + 1 \in Nat \ {0}
      BY <1>7
    <3>2. e.lock \in Nat /\ e.lock >= LockoutBase
      BY <2>1, <3>1, Lengthening
    <3>. QED BY <3>2, DoorBounds
  <2>3. Later(N, n + 1) = {}
    <3>1. ASSUME NEW i \in N PROVE ~(i > n + 1)
      <4>1. i \in 1..(n + 1)
        BY <1>5
      <4>. QED BY <4>1
    <3>. QED BY <3>1 DEF Later
  <2>4. Cardinality(Later(N, n + 1)) = 0
    BY <2>3, FS_EmptySet
  <2>5. \A i \in N : new[i].at <= e.at
    BY <1>5
  <2>6. n + 1 \in N /\ n + 1 \in 0..Len(new)
    BY <1>2, <1>5
  <2>7. \E i \in N : i <= n + 1 /\ new[i].lock > 0 /\ new[i].at = v.start
    BY <1>2, <1>5, <2>1, <2>2, <2>6
  <2>8. /\ v.count < RoomLimit /\ Cardinality(Later(N, n + 1)) = v.count
        /\ \A i \in N : i <= n + 1 => new[i].at <= v.start
    BY <1>8, <2>1, <2>4, <2>5
  <2>. QED BY <1>1, <1>4, <1>7, <2>6, <2>7, <2>8 DEF Framed
<1>10. CASE Counts(w, e.at) < RoomLimit /\ Fresh(w, e.at)
  <2>1. v.count = 1 /\ v.start = e.at /\ v.count < RoomLimit
    BY <1>10 DEF Hears, Judges, Counts
  <2>2. Later(N, n) = {n + 1}
    <3>1. \A i \in N : i > n <=> i = n + 1
      BY <1>5
    <3>2. n + 1 \in N
      BY <1>5
    <3>. QED BY <3>1, <3>2 DEF Later
  <2>3. Cardinality(Later(N, n)) = 1
    BY <2>2, FS_Singleton
  <2>4. \A i \in N : new[i].at <= e.at
    BY <1>5
  <2>5. Cardinality(Recent(N, new, n, e.at - RoomWindow)) < RoomLimit
    <3>1. CASE ~w.has
      <4>1. H = {}
        BY <3>1, <1>3 DEF Hears, Framed
      <4>2. Recent(N, new, n, e.at - RoomWindow) = {}
        BY <4>1, <1>5 DEF Recent
      <4>3. Cardinality(Recent(N, new, n, e.at - RoomWindow)) = 0
        BY <4>2, FS_EmptySet
      <4>. QED BY <4>3, <1>8
    <3>2. CASE w.has
      <4>1. PICK k \in 0..n : Cardinality(Later(H, k)) = w.count /\ w.count < RoomLimit
                              /\ \A i \in H : i <= k => log[i].at <= w.start
        BY <3>2, <1>2, <1>3 DEF Hears, Framed
      <4>2. e.at - w.start >= RoomWindow
        BY <3>2, <1>10 DEF Fresh
      <4>3. Recent(N, new, n, e.at - RoomWindow) \subseteq Later(H, k)
        <5>. SUFFICES ASSUME NEW i \in N, i <= n, new[i].at > e.at - RoomWindow
                      PROVE  i \in H /\ i > k
          BY DEF Recent, Later
        <5>1. i \in H /\ new[i] = log[i] /\ log[i].at \in Nat /\ i \in Nat
          BY <1>5
        <5>2. log[i].at > w.start
          BY <5>1, <4>2, <1>5, <1>7, <1>8
        <5>. QED BY <5>1, <5>2, <4>1, <1>7
      <4>4. IsFiniteSet(Later(H, k)) /\ Later(H, k) \subseteq H
        BY <1>6 DEF Later
      <4>5. Cardinality(Recent(N, new, n, e.at - RoomWindow)) <= Cardinality(Later(H, k))
            /\ Cardinality(Recent(N, new, n, e.at - RoomWindow)) \in Nat
        BY <4>3, <4>4, <1>6, FS_Subset
      <4>. QED BY <4>1, <4>5, <1>7, <1>8
    <3>. QED BY <3>1, <3>2, <1>7
  <2>. QED BY <1>1, <1>4, <1>5, <1>7, <1>8, <2>1, <2>3, <2>4, <2>5 DEF Framed
<1>11. CASE Counts(w, e.at) < RoomLimit /\ ~Fresh(w, e.at)
  <2>1. v.count = w.count + 1 /\ v.start = w.start /\ v.count < RoomLimit /\ w.has
    BY <1>11 DEF Hears, Judges, Counts, Fresh
  <2>2. PICK k \in 0..n :
            /\ Cardinality(Later(H, k)) = w.count
            /\ \A i \in H : i <= k => log[i].at <= w.start
            /\ \/ \E i \in H : i <= k /\ log[i].lock > 0 /\ log[i].at = w.start
               \/ Cardinality(Recent(H, log, k, w.start - RoomWindow)) < RoomLimit
    BY <2>1, <1>2, <1>3 DEF Hears, Framed
  <2>3. Later(N, k) = Later(H, k) \cup {n + 1} /\ n + 1 \notin Later(H, k)
    BY <1>5 DEF Later
  <2>4. Cardinality(Later(N, k)) = w.count + 1
    <3>1. IsFiniteSet(Later(H, k))
      BY <1>6 DEF Later
    <3>. QED BY <3>1, <2>2, <2>3, FS_AddElement
  <2>5. \A i \in N : i <= k => i \in H /\ new[i] = log[i]
    BY <1>5
  <2>6. Recent(N, new, k, w.start - RoomWindow) = Recent(H, log, k, w.start - RoomWindow)
    BY <2>5, <1>5 DEF Recent
  <2>7. \/ \E i \in N : i <= k /\ new[i].lock > 0 /\ new[i].at = w.start
        \/ Cardinality(Recent(N, new, k, w.start - RoomWindow)) < RoomLimit
    BY <2>2, <2>6, <1>5
  <2>8. k \in 0..(n + 1)
    BY <2>2
  <2>. QED BY <1>1, <1>4, <1>5, <2>1, <2>2, <2>4, <2>5, <2>7, <2>8, <1>7 DEF Framed
<1>12. Counts(w, e.at) \in Nat
  BY <1>7 DEF Counts
<1>. QED BY <1>8, <1>9, <1>10, <1>11, <1>12

LEMMA SpannedAfter ==
  ASSUME NEW log \in Seq(Wrong), NEW e \in Wrong, NEW r, NEW w \in Counter, NEW v,
         Hears(log, e, r, w, v), Spanned(Heard(log, r), log)
  PROVE  Spanned(Heard(Append(log, e), r), Append(log, e))
<1>1. PICK new : new = Append(log, e)
  OBVIOUS
<1>2. PICK n \in Nat : n = Len(log)
  OBVIOUS
<1>3. PICK H : H = Heard(log, r)
  OBVIOUS
<1>4. PICK N : N = Heard(new, r)
  OBVIOUS
<1>5. /\ N = H \cup {n + 1} /\ H \subseteq 1..n
      /\ \A i \in 1..n : new[i] = log[i] /\ log[i] \in Wrong
      /\ \A i \in H : log[i].at \in Nat /\ log[i].at <= e.at
      /\ new[n + 1] = e /\ e.at \in Nat
  BY <1>1, <1>2, <1>3, <1>4, Heeded
<1>6. \A S \in SUBSET H : IsFiniteSet(S) /\ Cardinality(S) \in Nat
  BY <1>3, HeardSome
<1>7. /\ w.start \in Nat /\ w.count \in Nat /\ w.has \in BOOLEAN
      /\ RoomLimit \in Nat \ {0} /\ RoomWindow \in Nat \ {0}
  BY DoorBounds DEF Counter
<1>8. ASSUME NEW m \in H, NEW f \in Int, f >= new[m].at - RoomWindow,
             \A j \in N : j < m /\ new[j].at > f => new[j].lock = 0
      PROVE  Cardinality(Recent(N, new, m, f)) <= 2 * RoomLimit - 1
  <2>1. new[m] = log[m] /\ \A j \in H : new[j] = log[j]
    BY <1>5
  <2>2. Recent(N, new, m, f) = Recent(H, log, m, f)
    <3>1. \A j \in N : j <= m => j \in H
      BY <1>5
    <3>. QED BY <2>1, <3>1, <1>5 DEF Recent
  <2>3. \A j \in H : j < m /\ log[j].at > f => log[j].lock = 0
    BY <1>8, <2>1, <1>5
  <2>. QED BY <1>3, <1>8, <2>1, <2>2, <2>3 DEF Spanned
<1>9. ASSUME NEW f \in Int, f >= e.at - RoomWindow,
             \A j \in N : j < n + 1 /\ new[j].at > f => new[j].lock = 0
      PROVE  Cardinality(Recent(N, new, n + 1, f)) <= 2 * RoomLimit - 1
  <2>1. PICK Old : Old = {j \in H : log[j].at > f}
    OBVIOUS
  <2>2. \A j \in H : j <= n /\ new[j] = log[j]
    BY <1>5
  <2>3. Recent(N, new, n + 1, f) \subseteq Old \cup {n + 1}
    BY <2>1, <2>2, <1>5 DEF Recent
  <2>4. \A j \in Old : log[j].lock = 0 /\ j \in H
    <3>1. \A j \in H : j < n + 1
      BY <2>2, <1>5
    <3>. QED BY <2>1, <2>2, <3>1, <1>5, <1>9
  <2>5. IsFiniteSet(Old) /\ Cardinality(Old) \in Nat /\ n + 1 \notin Old
    BY <2>1, <1>5, <1>6
  <2>6. Cardinality(Recent(N, new, n + 1, f)) <= Cardinality(Old) + 1
    <3>1. IsFiniteSet(Old \cup {n + 1}) /\ Cardinality(Old \cup {n + 1}) = Cardinality(Old) + 1
      BY <2>5, FS_AddElement
    <3>. QED BY <2>3, <3>1, FS_Subset
  <2>7. Cardinality(Recent(N, new, n + 1, f)) \in Nat
    <3>1. IsFiniteSet(Recent(N, new, n + 1, f))
      BY <2>3, <2>5, FS_AddElement, FS_Subset
    <3>. QED BY <3>1, FS_CardinalityType
  <2>8. Cardinality(Old) <= 2 * RoomLimit - 2
    <3>1. CASE ~w.has
      <4>1. Old = {}
        BY <3>1, <2>1, <1>3 DEF Hears, Framed
      <4>2. Cardinality(Old) = 0
        BY <4>1, FS_EmptySet
      <4>. QED BY <4>2, <1>7
    <3>2. CASE w.has
      <4>1. PICK k \in 0..n :
                /\ Cardinality(Later(H, k)) = w.count /\ w.count < RoomLimit
                /\ \A i \in H : i <= k => log[i].at <= w.start
                /\ \/ \E i \in H : i <= k /\ log[i].lock > 0 /\ log[i].at = w.start
                   \/ Cardinality(Recent(H, log, k, w.start - RoomWindow)) < RoomLimit
        BY <3>2, <1>2, <1>3 DEF Hears, Framed
      <4>2. IsFiniteSet(Later(H, k)) /\ Later(H, k) \subseteq H
        BY <1>6 DEF Later
      <4>3. CASE f >= w.start
        <5>1. Old \subseteq Later(H, k)
          <6>. SUFFICES ASSUME NEW i \in Old PROVE i \in H /\ i > k
            BY DEF Later
          <6>1. i \in H /\ log[i].at \in Nat /\ log[i].at > f /\ i \in Nat
            BY <2>1, <1>5
          <6>. QED BY <6>1, <4>1, <4>3, <1>7
        <5>2. Cardinality(Old) <= Cardinality(Later(H, k))
          BY <5>1, <4>2, FS_Subset
        <5>. QED BY <5>2, <4>1, <2>5, <1>7
      <4>4. CASE f < w.start
        <5>1. w.start <= e.at
          BY DEF Hears
        <5>2. ~\E i \in H : i <= k /\ log[i].lock > 0 /\ log[i].at = w.start
          BY <4>4, <2>1, <2>4
        <5>3. PICK R : R = Recent(H, log, k, w.start - RoomWindow)
          OBVIOUS
        <5>4. R \subseteq H /\ IsFiniteSet(R) /\ Cardinality(R) \in Nat /\ Cardinality(R) < RoomLimit
          BY <5>2, <5>3, <4>1, <1>6 DEF Recent
        <5>5. Old \subseteq Later(H, k) \cup R
          <6>. SUFFICES ASSUME NEW i \in Old, ~(i > k)
                        PROVE  i \in H /\ i <= k /\ log[i].at > w.start - RoomWindow
            BY <5>3, <2>4 DEF Later, Recent
          <6>1. i \in H /\ log[i].at \in Nat /\ log[i].at > f /\ i \in Nat
            BY <2>1, <1>5
          <6>2. f >= w.start - RoomWindow
            BY <5>1, <1>9, <1>7, <1>5
          <6>. QED BY <6>1, <6>2, <4>1, <1>7
        <5>6. PICK L : L = Later(H, k)
          OBVIOUS
        <5>7. IsFiniteSet(L \cup R) /\ Cardinality(L \cup R) <= Cardinality(L) + Cardinality(R)
          <6>1. /\ IsFiniteSet(L \cup R) /\ IsFiniteSet(L \cap R)
                /\ Cardinality(L \cup R) = Cardinality(L) + Cardinality(R) - Cardinality(L \cap R)
            BY <4>2, <5>4, <5>6, FS_Union, FS_Intersection
          <6>2. Cardinality(L \cap R) \in Nat /\ Cardinality(L) \in Nat
            BY <6>1, <4>2, <5>6, FS_CardinalityType
          <6>. QED BY <6>1, <6>2, <5>4
        <5>8. Cardinality(Old) <= Cardinality(L \cup R) /\ Cardinality(L \cup R) \in Nat
          BY <5>5, <5>6, <5>7, FS_Subset, FS_CardinalityType
        <5>. QED BY <5>4, <5>6, <5>7, <5>8, <4>1, <2>5, <1>7
      <4>. QED BY <4>3, <4>4, <1>7
    <3>. QED BY <3>1, <3>2, <1>7
  <2>. QED BY <2>5, <2>6, <2>7, <2>8, <1>7
<1>10. ASSUME NEW m \in N, NEW f \in Int, f >= new[m].at - RoomWindow,
              \A j \in N : j < m /\ new[j].at > f => new[j].lock = 0
       PROVE  Cardinality(Recent(N, new, m, f)) <= 2 * RoomLimit - 1
  <2>1. CASE m \in H
    BY <1>8, <1>10, <2>1
  <2>2. CASE m = n + 1
    <3>1. f >= e.at - RoomWindow
      BY <1>5, <1>10, <2>2
    <3>. QED BY <1>9, <1>10, <2>2, <3>1
  <2>. QED BY <2>1, <2>2, <1>5
<1>. QED BY <1>1, <1>4, <1>10 DEF Spanned

LEMMA EscalatingAfter ==
  ASSUME NEW log \in Seq(Wrong), NEW e \in Wrong, NEW r, NEW w \in Counter, NEW v,
         Hears(log, e, r, w, v), Escalating(w, Heard(log, r), log)
  PROVE  Escalating(v, Heard(Append(log, e), r), Append(log, e))
<1>1. PICK new : new = Append(log, e)
  OBVIOUS
<1>2. PICK n \in Nat : n = Len(log)
  OBVIOUS
<1>3. PICK H : H = Heard(log, r)
  OBVIOUS
<1>4. PICK N : N = Heard(new, r)
  OBVIOUS
<1>5. /\ N = H \cup {n + 1} /\ H \subseteq 1..n
      /\ \A i \in H : log[i].at \in Nat /\ log[i].lock \in Nat /\ log[i].at <= e.at
      /\ \A i \in 1..n : new[i] = log[i]
      /\ new[n + 1] = e /\ e.at \in Nat /\ e.lock \in Nat
  BY <1>1, <1>2, <1>3, <1>4, Heeded
<1>6. \A i \in H : new[i] = log[i] /\ ~(i > n + 1)
  BY <1>5
<1>7. /\ w.lockouts \in Nat /\ w.locked \in Nat /\ v.lockouts \in Nat /\ v.locked \in Nat
      /\ LockoutMax \in Nat \ {0} /\ LockoutBase \in Nat \ {0} /\ RoomLimit \in Nat \ {0}
  BY DoorBounds DEF Counter, Hears, Judges
<1>8. CASE Counts(w, e.at) < RoomLimit
  <2>1. e.lock = 0 /\ v.lockouts = w.lockouts /\ v.locked = w.locked
    BY <1>8 DEF Hears, Judges
  <2>2. ASSUME NEW i \in H, log[i].lock > 0
        PROVE  /\ v.lockouts > 0 /\ log[i].lock <= Door!Lockout(v.lockouts)
               /\ LockoutBase <= log[i].lock
               /\ log[i].at + log[i].lock <= v.locked
               /\ \A j \in H : j > i /\ log[j].lock > 0 =>
                    log[j].lock >= Door!Smaller(2 * log[i].lock, LockoutMax)
    BY <1>3, <2>1, <2>2 DEF Escalating
  <2>3. ~(new[n + 1].lock > 0)
    BY <2>1, <1>5
  <2>4. ASSUME NEW i \in N, new[i].lock > 0
        PROVE  i \in H /\ new[i] = log[i]
    BY <1>5, <2>3, <2>4
  <2>5. ASSUME NEW i \in N, new[i].lock > 0
        PROVE  /\ v.lockouts > 0 /\ new[i].lock <= Door!Lockout(v.lockouts)
               /\ LockoutBase <= new[i].lock
               /\ new[i].at + new[i].lock <= v.locked
               /\ \A j \in N : j > i /\ new[j].lock > 0 =>
                    new[j].lock >= Door!Smaller(2 * new[i].lock, LockoutMax)
    BY <2>2, <2>4, <2>5
  <2>. QED BY <1>1, <1>4, <2>5 DEF Escalating
<1>9. CASE ~(Counts(w, e.at) < RoomLimit)
  <2>1. /\ v.lockouts = w.lockouts + 1 /\ e.lock = Door!Lockout(v.lockouts)
        /\ v.locked = e.at + e.lock
    BY <1>9 DEF Hears, Judges
  <2>2. v.lockouts > 0 /\ e.lock >= LockoutBase /\ e.lock > 0 /\ e.lock <= LockoutMax
    <3>1. v.lockouts \in Nat \ {0}
      BY <2>1, <1>7
    <3>2. e.lock \in Nat /\ e.lock >= LockoutBase /\ e.lock <= LockoutMax
      BY <3>1, <2>1, Lengthening
    <3>. QED BY <3>1, <3>2, <1>7
  <2>3. ASSUME NEW i \in H, log[i].lock > 0
        PROVE  /\ LockoutBase <= log[i].lock
               /\ e.lock >= Door!Smaller(2 * log[i].lock, LockoutMax)
               /\ log[i].lock <= e.lock
               /\ log[i].at + log[i].lock <= v.locked
               /\ \A j \in H : j > i /\ log[j].lock > 0 =>
                    log[j].lock >= Door!Smaller(2 * log[i].lock, LockoutMax)
    <3>1. /\ w.lockouts > 0 /\ log[i].lock <= Door!Lockout(w.lockouts)
          /\ LockoutBase <= log[i].lock
          /\ \A j \in H : j > i /\ log[j].lock > 0 =>
               log[j].lock >= Door!Smaller(2 * log[i].lock, LockoutMax)
      BY <1>3, <2>3 DEF Escalating
    <3>2. PICK a \in Nat : a = Door!Lockout(w.lockouts) /\ a <= LockoutMax
      <4>1. w.lockouts \in Nat \ {0}
        BY <3>1, <1>7
      <4>. QED BY <4>1, Lengthening
    <3>3. e.lock = Door!Smaller(2 * a, LockoutMax)
      <4>1. w.lockouts \in Nat \ {0}
        BY <3>1, <1>7
      <4>. QED BY <4>1, <2>1, <3>2, Lengthening
    <3>4. log[i].lock \in Nat /\ log[i].at \in Nat /\ log[i].at <= e.at /\ log[i].lock <= a
      BY <1>5, <3>1, <3>2
    <3>5. /\ e.lock >= Door!Smaller(2 * log[i].lock, LockoutMax)
          /\ log[i].lock <= e.lock
      BY <3>2, <3>3, <3>4, <1>7 DEF Door!Smaller
    <3>6. log[i].at + log[i].lock <= v.locked
      BY <3>4, <3>5, <2>1, <1>5
    <3>. QED BY <3>1, <3>5, <3>6
  <2>4. ASSUME NEW i \in N, new[i].lock > 0
        PROVE  /\ v.lockouts > 0 /\ new[i].lock <= Door!Lockout(v.lockouts)
               /\ LockoutBase <= new[i].lock
               /\ new[i].at + new[i].lock <= v.locked
               /\ \A j \in N : j > i /\ new[j].lock > 0 =>
                    new[j].lock >= Door!Smaller(2 * new[i].lock, LockoutMax)
    <3>1. CASE i \in H
      BY <2>1, <2>2, <2>3, <2>4, <3>1, <1>5, <1>6
    <3>2. CASE i = n + 1
      <4>1. \A j \in N : ~(j > i)
        <5>1. \A j \in H : ~(j > n + 1)
          BY <1>6
        <5>2. ~(n + 1 > n + 1)
          OBVIOUS
        <5>. QED BY <5>1, <5>2, <3>2, <1>5
      <4>. QED BY <2>1, <2>2, <3>2, <4>1, <1>5
    <3>. QED BY <3>1, <3>2, <1>5
  <2>. QED BY <1>1, <1>4, <2>4 DEF Escalating
<1>. QED BY <1>8, <1>9

LEMMA WaitedAfter ==
  ASSUME NEW log \in Seq(Wrong), NEW e \in Wrong, NEW r, NEW w \in Counter, NEW v,
         Hears(log, e, r, w, v), NEW coming \in Nat, NEW left \in Nat, coming = left + 1, left <= InHand,
         Waited(Heard(log, r), log, e.at, coming), Tries \in Nat
  PROVE  Waited(Heard(Append(log, e), r), Append(log, e), e.at, left)
<1>1. PICK new : new = Append(log, e)
  OBVIOUS
<1>2. PICK n \in Nat : n = Len(log)
  OBVIOUS
<1>3. PICK H : H = Heard(log, r)
  OBVIOUS
<1>4. PICK N : N = Heard(new, r)
  OBVIOUS
<1>5. /\ N = H \cup {n + 1} /\ H \subseteq 1..n
      /\ \A i \in H : log[i].at \in Nat /\ log[i].lock \in Nat /\ log[i].at <= e.at
      /\ \A i \in 1..n : new[i] = log[i]
      /\ new[n + 1] = e /\ e.at \in Nat /\ e.lock \in Nat
  BY <1>1, <1>2, <1>3, <1>4, Heeded
<1>6. \A i \in H : new[i] = log[i] /\ i < n + 1 /\ i \in Nat
  BY <1>5
<1>7. InHand \in Int
  BY DEF InHand
<1>8. ASSUME NEW i \in H, log[i].lock > 0
      PROVE  Cardinality(InTime(N, new, i)) + (IF e.at < log[i].at + log[i].lock THEN left ELSE 0) <= InHand
  <2>1. PICK S : S = InTime(H, log, i)
    OBVIOUS
  <2>2. IsFiniteSet(S) /\ Cardinality(S) \in Nat /\ n + 1 \notin S
    <3>1. S \subseteq H
      BY <2>1 DEF InTime
    <3>2. n + 1 \notin S
      BY <3>1, <1>6
    <3>. QED BY <3>1, <3>2, <1>3, HeardSome
  <2>3. Cardinality(S) + (IF e.at < log[i].at + log[i].lock THEN coming ELSE 0) <= InHand
    BY <1>3, <1>8, <2>1 DEF Waited
  <2>4. CASE e.at < log[i].at + log[i].lock
    <3>1. InTime(N, new, i) = S \cup {n + 1}
      BY <2>1, <2>4, <1>5, <1>6 DEF InTime
    <3>2. Cardinality(InTime(N, new, i)) = Cardinality(S) + 1
      BY <3>1, <2>2, FS_AddElement
    <3>. QED BY <2>2, <2>3, <2>4, <3>2, <1>7
  <2>5. CASE ~(e.at < log[i].at + log[i].lock)
    <3>1. InTime(N, new, i) = S
      BY <2>1, <2>5, <1>5, <1>6 DEF InTime
    <3>. QED BY <2>2, <2>3, <2>5, <3>1, <1>7
  <2>. QED BY <2>4, <2>5
<1>9. Cardinality(InTime(N, new, n + 1)) = 0
  <2>1. \A j \in N : ~(j > n + 1)
    BY <1>5, <1>6
  <2>2. InTime(N, new, n + 1) = {}
    BY <2>1 DEF InTime
  <2>. QED BY <2>2, FS_EmptySet
<1>10. ASSUME NEW i \in N, new[i].lock > 0
       PROVE  Cardinality(InTime(N, new, i)) + (IF e.at < new[i].at + new[i].lock THEN left ELSE 0) <= InHand
  <2>1. CASE i \in H
    BY <1>6, <1>8, <1>10, <2>1
  <2>2. CASE i = n + 1
    BY <1>5, <1>7, <1>9, <2>2
  <2>. QED BY <2>1, <2>2, <1>5
<1>. QED BY <1>1, <1>4, <1>10 DEF Waited

HotelHears(log, e, w, v) ==
  /\ \A i \in DOMAIN log : log[i].at <= e.at
  /\ w \in [has : BOOLEAN, count : Nat, start : Nat]
  /\ v.has
  /\ IF ~w.has \/ e.at - w.start >= HotelWindow THEN v.count = 1 /\ v.start = e.at
     ELSE v.count = w.count + 1 /\ v.start = w.start

LEMMA HotelAfter ==
  ASSUME NEW log \in Seq(Wrong), NEW e \in Wrong, NEW w, NEW v, HotelHears(log, e, w, v),
         NEW coming \in Nat, NEW left \in Nat, coming = left + 1, left <= InHand, Tries \in Nat,
         HotelOK(w, log, e.at, coming)
  PROVE  HotelOK(v, Append(log, e), e.at, left)
<1>1. PICK new : new = Append(log, e)
  OBVIOUS
<1>2. PICK n \in Nat : n = Len(log)
  OBVIOUS
<1>3. /\ Len(new) = n + 1 /\ \A i \in 1..n : new[i] = log[i] /\ log[i].at \in Nat /\ log[i].at <= e.at
      /\ new[n + 1] = e /\ e.at \in Nat
  <2>1. Len(new) = n + 1 /\ (\A i \in 1..n : new[i] = log[i]) /\ new[n + 1] = e /\ DOMAIN log = 1..n
    BY <1>1, <1>2, Logged
  <2>2. \A i \in 1..n : log[i] \in Wrong
    BY <1>2
  <2>3. \A i \in 1..n : log[i].at \in Nat
    BY <2>2 DEF Wrong
  <2>4. e.at \in Nat
    BY DEF Wrong
  <2>5. \A i \in 1..n : log[i].at <= e.at
    BY <2>1 DEF HotelHears
  <2>. QED BY <2>1, <2>3, <2>4, <2>5
<1>4. /\ w.has \in BOOLEAN /\ w.count \in Nat /\ w.start \in Nat /\ InHand \in Nat
      /\ HotelLimit \in Nat \ {0} /\ HotelWindow \in Nat \ {0}
  BY DoorBounds DEF InHand, HotelHears
<1>5. CASE ~w.has \/ e.at - w.start >= HotelWindow
  <2>1. v.has /\ v.count = 1 /\ v.start = e.at
    BY <1>5 DEF HotelHears
  <2>2. PICK R : R = {i \in 1..n : new[i].at > e.at - HotelWindow}
    OBVIOUS
  <2>3. Cardinality(R) < HotelLimit + InHand
    <3>1. CASE ~w.has
      <4>1. n = 0
        BY <3>1, <1>2 DEF HotelOK
      <4>2. R = {}
        BY <4>1, <2>2
      <4>3. Cardinality(R) = 0
        BY <4>2, FS_EmptySet
      <4>. QED BY <4>3, <1>4
    <3>2. CASE w.has
      <4>1. PICK k \in 0..n :
                /\ w.count = n - k /\ w.count > 0 /\ w.count <= HotelLimit + InHand
                /\ log[k + 1].at = w.start /\ \A i \in 1..k : log[i].at <= w.start
        BY <3>2, <1>2 DEF HotelOK
      <4>2. e.at - w.start >= HotelWindow
        BY <3>2, <1>5
      <4>3. R \subseteq (k + 2)..n
        <5>. SUFFICES ASSUME NEW i \in R PROVE i \in (k + 2)..n
          OBVIOUS
        <5>1. i \in 1..n /\ log[i].at \in Nat /\ log[i].at > e.at - HotelWindow
          BY <2>2, <1>3
        <5>2. log[i].at > w.start
          <6>1. PICK a \in Nat : a = log[i].at
            BY <5>1
          <6>2. PICK s \in Nat : s = w.start
            BY <1>4
          <6>. QED BY <5>1, <6>1, <6>2, <4>2, <1>3, <1>4
        <5>3. ~(i \in 1..k) /\ i # k + 1
          <6>1. i \in 1..k => log[i].at <= w.start
            BY <4>1
          <6>2. i = k + 1 => log[i].at = w.start
            BY <4>1
          <6>. QED BY <5>1, <5>2, <6>1, <6>2, <1>4
        <5>. QED BY <5>1, <5>3, <4>1
      <4>4. IsFiniteSet((k + 2)..n) /\ Cardinality((k + 2)..n) <= n - (k + 1)
        <5>1. Cardinality((k + 2)..n) = IF k + 2 > n THEN 0 ELSE n - (k + 2) + 1
          <6>1. k + 2 \in Int /\ n \in Int
            BY <4>1
          <6>. QED BY <6>1, FS_Interval
        <5>2. n - k > 0 /\ k \in Nat
          BY <4>1
        <5>3. IsFiniteSet((k + 2)..n)
          BY <5>2, FS_Interval
        <5>. QED BY <5>1, <5>2, <5>3
      <4>5. Cardinality(R) <= Cardinality((k + 2)..n) /\ Cardinality(R) \in Nat /\ Cardinality((k + 2)..n) \in Nat
        BY <4>3, <4>4, FS_Subset, FS_CardinalityType
      <4>. QED BY <4>1, <4>4, <4>5, <1>4
    <3>. QED BY <3>1, <3>2, <1>4
  <2>4. \A i \in 1..n : new[i].at <= v.start
    BY <2>1, <1>3
  <2>5. v.count >= HotelLimit /\ e.at - v.start < HotelWindow => v.count + left <= HotelLimit + InHand
    BY <2>1, <1>4
  <2>6. v.count = (n + 1) - n /\ v.count > 0 /\ v.count <= HotelLimit + InHand /\ v.start <= e.at
        /\ new[n + 1].at = v.start /\ n \in 0..(n + 1)
    BY <2>1, <1>3, <1>4
  <2>7. {i \in 1..n : new[i].at > v.start - HotelWindow} = R
    BY <2>1, <2>2
  <2>. QED BY <1>1, <1>3, <2>1, <2>3, <2>4, <2>5, <2>6, <2>7 DEF HotelOK
<1>6. CASE ~(~w.has \/ e.at - w.start >= HotelWindow)
  <2>1. v.has /\ v.count = w.count + 1 /\ v.start = w.start /\ w.has
    BY <1>6 DEF HotelHears
  <2>2. PICK k \in 0..n :
            /\ w.count = n - k /\ w.count > 0 /\ w.count <= HotelLimit + InHand
            /\ w.start <= e.at /\ log[k + 1].at = w.start
            /\ \A i \in 1..k : log[i].at <= w.start
            /\ Cardinality({i \in 1..k : log[i].at > w.start - HotelWindow}) < HotelLimit + InHand
            /\ w.count >= HotelLimit /\ e.at - w.start < HotelWindow => w.count + coming <= HotelLimit + InHand
    BY <2>1, <1>2 DEF HotelOK
  <2>3. \A i \in 1..k : new[i] = log[i]
    BY <2>2, <1>3
  <2>4. {i \in 1..k : new[i].at > v.start - HotelWindow} = {i \in 1..k : log[i].at > w.start - HotelWindow}
    BY <2>1, <2>3
  <2>5. k + 1 \in 1..n /\ k \in 0..(n + 1) /\ v.count = (n + 1) - k
    BY <2>1, <2>2
  <2>6. new[k + 1].at = v.start
    BY <2>1, <2>2, <2>5, <1>3
  <2>7. e.at - w.start < HotelWindow
    BY <1>3, <1>4, <1>6
  <2>8. v.count <= HotelLimit + InHand /\ (v.count >= HotelLimit => v.count + left <= HotelLimit + InHand)
    BY <2>1, <2>2, <2>7, <1>4
  <2>9. v.count > 0 /\ v.start <= e.at /\ \A i \in 1..k : new[i].at <= v.start
    <3>1. \A i \in 1..k : log[i].at <= w.start
      BY <2>2
    <3>2. v.count > 0 /\ v.start <= e.at
      BY <2>1, <2>2, <1>4
    <3>. QED BY <2>1, <2>3, <3>1, <3>2
  <2>. QED BY <1>1, <1>3, <2>1, <2>2, <2>4, <2>5, <2>6, <2>8, <2>9 DEF HotelOK
<1>. QED BY <1>5, <1>6

(* Nothing but the times and locks of the attempts heard matters.          *)
LEMMA SameHeard ==
  ASSUME NEW log, NEW new, NEW H, NEW w, Len(log) \in Nat, Len(new) \in Nat, Len(new) >= Len(log),
         \A i \in H : new[i].at = log[i].at /\ new[i].lock = log[i].lock
  PROVE  /\ Framed(w, H, log) => Framed(w, H, new)
         /\ Spanned(H, log) => Spanned(H, new)
         /\ Escalating(w, H, log) => Escalating(w, H, new)
         /\ \A t, coming : Waited(H, log, t, coming) => Waited(H, new, t, coming)
<1>1. \A k, f : Recent(H, new, k, f) = Recent(H, log, k, f)
  BY DEF Recent
<1>2. \A i \in H : InTime(H, new, i) = InTime(H, log, i)
  BY DEF InTime
<1>3. \A k \in 0..Len(log) : k \in 0..Len(new)
  OBVIOUS
<1>4. Framed(w, H, log) => Framed(w, H, new)
  BY <1>1, <1>3 DEF Framed
<1>5. Spanned(H, log) => Spanned(H, new)
  <2>. SUFFICES ASSUME Spanned(H, log), NEW m \in H, NEW f \in Int, f >= new[m].at - RoomWindow,
                       \A j \in H : j < m /\ new[j].at > f => new[j].lock = 0
                PROVE  Cardinality(Recent(H, new, m, f)) <= 2 * RoomLimit - 1
    BY DEF Spanned
  <2>1. f >= log[m].at - RoomWindow /\ \A j \in H : j < m /\ log[j].at > f => log[j].lock = 0
    OBVIOUS
  <2>. QED BY <1>1, <2>1 DEF Spanned
<1>6. Escalating(w, H, log) => Escalating(w, H, new)
  BY DEF Escalating
<1>7. \A t, coming : Waited(H, log, t, coming) => Waited(H, new, t, coming)
  BY <1>2 DEF Waited
<1>. QED BY <1>4, <1>5, <1>6, <1>7

LEMMA Unheard ==
  ASSUME NEW log
  PROVE  /\ Framed(Door!NoRoom, {}, log) /\ Spanned({}, log) /\ Escalating(Door!NoRoom, {}, log)
         /\ \A t, coming : Waited({}, log, t, coming)
BY DEF Framed, Spanned, Escalating, Waited, Door!NoRoom

LEMMA Sooner ==
  ASSUME NEW w, NEW log \in Seq(Wrong), NEW t \in Nat, NEW u \in Nat, t <= u, NEW coming \in Nat, NEW left \in Nat,
         left <= coming
  PROVE  /\ \A r : Waited(Heard(log, r), log, t, coming) => Waited(Heard(log, r), log, u, left)
         /\ w \in [has : BOOLEAN, count : Nat, start : Nat] /\ HotelOK(w, log, t, coming) => HotelOK(w, log, u, left)
<1>1. InHand \in Int /\ HotelLimit \in Nat /\ HotelWindow \in Nat
  BY DoorBounds DEF InHand
<1>2. ASSUME NEW r, Waited(Heard(log, r), log, t, coming)
      PROVE  Waited(Heard(log, r), log, u, left)
  <2>. SUFFICES ASSUME NEW i \in Heard(log, r), log[i].lock > 0
                PROVE  Cardinality(InTime(Heard(log, r), log, i))
                         + (IF u < log[i].at + log[i].lock THEN left ELSE 0) <= InHand
    BY DEF Waited
  <2>1. Cardinality(InTime(Heard(log, r), log, i))
          + (IF t < log[i].at + log[i].lock THEN coming ELSE 0) <= InHand
    BY <1>2 DEF Waited
  <2>2. log[i].at \in Nat /\ log[i].lock \in Nat
    <3>1. log[i] \in Wrong
      BY DEF Heard
    <3>. QED BY <3>1 DEF Wrong
  <2>3. Cardinality(InTime(Heard(log, r), log, i)) \in Nat
    <3>1. InTime(Heard(log, r), log, i) \subseteq Heard(log, r)
      BY DEF InTime
    <3>. QED BY <3>1, HeardSome
  <2>. QED BY <2>1, <2>2, <2>3, <1>1
<1>3. ASSUME w \in [has : BOOLEAN, count : Nat, start : Nat], HotelOK(w, log, t, coming)
      PROVE  HotelOK(w, log, u, left)
  <2>1. CASE ~w.has
    BY <1>3, <2>1 DEF HotelOK
  <2>2. CASE w.has
    <3>1. PICK k \in 0..Len(log) :
            /\ w.count = Len(log) - k /\ w.count > 0 /\ w.count <= HotelLimit + InHand
            /\ w.start <= t /\ log[k + 1].at = w.start
            /\ \A i \in 1..k : log[i].at <= w.start
            /\ Cardinality({i \in 1..k : log[i].at > w.start - HotelWindow}) < HotelLimit + InHand
            /\ w.count >= HotelLimit /\ t - w.start < HotelWindow => w.count + coming <= HotelLimit + InHand
      BY <1>3, <2>2 DEF HotelOK
    <3>2. w.count >= HotelLimit /\ u - w.start < HotelWindow => w.count + left <= HotelLimit + InHand
      BY <3>1, <1>1, <1>3
    <3>3. w.start <= u
      BY <3>1, <1>1, <1>3
    <3>. QED BY <2>2, <3>1, <3>2, <3>3 DEF HotelOK
  <2>. QED BY <2>1, <2>2
<1>. QED BY <1>2, <1>3

LEMMA Callers ==
  ASSUME DoorTyped, NEW r
  PROVE  /\ IsFiniteSet(Looking(r)) /\ Cardinality(Looking(r)) \in Nat /\ Cardinality(Looking(r)) <= Tries
         /\ IsFiniteSet(Flying) /\ Cardinality(Flying) \in Nat /\ Cardinality(Flying) <= Tries
<1>1. IsFiniteSet(1..Tries) /\ Cardinality(1..Tries) = Tries
  <2>1. Tries \in Int /\ 1 \in Int /\ ~(1 > Tries) /\ Tries - 1 + 1 = Tries
    BY DoorBounds
  <2>. QED BY <2>1, FS_Interval
<1>2. Looking(r) \subseteq 1..Tries /\ Flying \subseteq 1..Tries
  BY DEF Looking, Flying
<1>3. \A S \in SUBSET (1..Tries) : IsFiniteSet(S) /\ Cardinality(S) <= Tries
  BY <1>1, FS_Subset
<1>. QED BY <1>2, <1>3, FS_CardinalityType

(* An attempt that ends is one less to come.                               *)
LEMMA Ended ==
  ASSUME DoorTyped, NEW p \in 1..Tries, NEW r, r = try[p].room, try[p].pc = "lookup",
         try' = [try EXCEPT ![p] = Door!Idle]
  PROVE  /\ Cardinality(Looking(r)) = Cardinality(Looking(r)') + 1
         /\ Cardinality(Flying) = Cardinality(Flying') + 1
         /\ Cardinality(Looking(r)') \in Nat /\ Cardinality(Looking(r)') <= InHand
         /\ Cardinality(Flying') \in Nat /\ Cardinality(Flying') <= InHand
         /\ \A q : q # r => Looking(q)' = Looking(q)
<1>1. /\ try'[p].pc = "idle" /\ \A o \in 1..Tries : o # p => try'[o] = try[o]
  BY DEF DoorTyped, Door!Idle
<1>2. Looking(r)' = Looking(r) \ {p} /\ p \in Looking(r) /\ Flying' = Flying \ {p} /\ p \in Flying
  BY <1>1 DEF Looking, Flying
<1>3. /\ Cardinality(Looking(r) \ {p}) = Cardinality(Looking(r)) - 1
      /\ Cardinality(Flying \ {p}) = Cardinality(Flying) - 1
      /\ IsFiniteSet(Looking(r) \ {p}) /\ IsFiniteSet(Flying \ {p})
  BY <1>2, Callers, FS_RemoveElement
<1>4. /\ Cardinality(Looking(r) \ {p}) \in Nat /\ Cardinality(Flying \ {p}) \in Nat
  BY <1>3, FS_CardinalityType
<1>5. \A q : q # r => Looking(q)' = Looking(q)
  BY <1>1 DEF Looking
<1>. QED BY <1>2, <1>3, <1>4, <1>5, Callers, DoorBounds DEF InHand

(* RoomFailure does what Judges says.                                      *)
LEMMA Judged ==
  ASSUME NEW r \in Doors, rooms[r] \in Counter, hour \in Nat, rooms[r].start <= hour,
         ~rooms[r].has => rooms[r] = Door!NoRoom, NEW v, v = Door!RoomFailure(r)
  PROVE  /\ v.start \in Nat /\ v.start <= hour
         /\ Judges(rooms[r], v, hour,
              v.locked - (IF v.lockouts > rooms[r].lockouts THEN hour ELSE v.locked))
<1>1. PICK w \in Counter : w = rooms[r]
  OBVIOUS
<1>2. PICK old \in Counter : old = IF w.has THEN w ELSE [Door!NoRoom EXCEPT !.has = TRUE, !.start = hour]
  BY <1>1 DEF Counter, Door!NoRoom
<1>3. /\ old.has /\ old.lockouts = w.lockouts /\ old.locked = w.locked
      /\ old.start = (IF w.has THEN w.start ELSE hour) /\ old.count = (IF w.has THEN w.count ELSE 0)
      /\ w.has \in BOOLEAN /\ w.count \in Nat /\ w.lockouts \in Nat /\ w.locked \in Nat
      /\ w.start \in Nat /\ w.start <= hour /\ RoomWindow \in Nat \ {0} /\ RoomLimit \in Nat \ {0}
  BY <1>1, <1>2, DoorBounds DEF Counter, Door!NoRoom
<1>4. PICK new \in Counter : new = IF hour - old.start >= RoomWindow
                                   THEN [old EXCEPT !.count = 1, !.start = hour]
                                   ELSE [old EXCEPT !.count = @ + 1]
  <2>1. PICK c \in Nat : c = old.count + 1
    BY <1>3
  <2>2. [old EXCEPT !.count = 1, !.start = hour] \in Counter /\ [old EXCEPT !.count = c] \in Counter
    BY <1>2 DEF Counter
  <2>3. [old EXCEPT !.count = @ + 1] = [old EXCEPT !.count = c]
    BY <2>1
  <2>. QED BY <2>2, <2>3
<1>5. /\ new.has /\ new.lockouts = w.lockouts /\ new.locked = w.locked
      /\ new.count = Counts(w, hour) /\ new.start = (IF Fresh(w, hour) THEN hour ELSE w.start)
  <2>1. CASE hour - old.start >= RoomWindow
    <3>1. new.has /\ new.lockouts = old.lockouts /\ new.locked = old.locked /\ new.count = 1 /\ new.start = hour
      BY <2>1, <1>3, <1>4 DEF Counter
    <3>2. Fresh(w, hour)
      BY <2>1, <1>3 DEF Fresh
    <3>. QED BY <3>1, <3>2, <1>3 DEF Counts
  <2>2. CASE ~(hour - old.start >= RoomWindow)
    <3>1. /\ new.has /\ new.lockouts = old.lockouts /\ new.locked = old.locked /\ new.count = old.count + 1
          /\ new.start = old.start
      BY <2>2, <1>3, <1>4 DEF Counter
    <3>2. Fresh(w, hour) <=> ~w.has
      BY <2>2, <1>3 DEF Fresh
    <3>. QED BY <3>1, <3>2, <1>3 DEF Counts
  <2>. QED BY <2>1, <2>2
<1>6. v = IF new.count < RoomLimit THEN new
          ELSE [new EXCEPT !.lockouts = @ + 1, !.locked = hour + Door!Lockout(new.lockouts + 1),
                           !.count = 0, !.start = hour]
  BY <1>1, <1>2, <1>4 DEF Door!RoomFailure
<1>7. CASE Counts(w, hour) < RoomLimit
  <2>1. v = new
    BY <1>5, <1>6, <1>7
  <2>2. v.locked - (IF v.lockouts > w.lockouts THEN hour ELSE v.locked) = 0
    BY <2>1, <1>3, <1>5
  <2>3. v.start \in Nat /\ v.start <= hour
    BY <2>1, <1>3, <1>5
  <2>. QED BY <2>1, <2>2, <2>3, <1>1, <1>5, <1>7 DEF Judges
<1>8. CASE ~(Counts(w, hour) < RoomLimit)
  <2>1. PICK lock \in Nat : lock = Door!Lockout(w.lockouts + 1)
    <3>1. w.lockouts + 1 \in Nat \ {0}
      BY <1>3
    <3>. QED BY <3>1, Lengthening
  <2>2. v = [new EXCEPT !.lockouts = @ + 1, !.locked = hour + lock, !.count = 0, !.start = hour]
    BY <2>1, <1>5, <1>6, <1>8
  <2>3. v \in Counter /\ v.has /\ v.lockouts = w.lockouts + 1 /\ v.locked = hour + lock /\ v.count = 0 /\ v.start = hour
    <3>1. PICK n \in Nat : n = new.lockouts + 1 /\ n = w.lockouts + 1
      BY <1>3, <1>5
    <3>2. PICK t \in Nat : t = hour + lock
      OBVIOUS
    <3>3. v = [new EXCEPT !.lockouts = n, !.locked = t, !.count = 0, !.start = hour]
      BY <2>2, <3>1, <3>2
    <3>4. v \in Counter
      <4>1. PICK a \in Counter : a = [new EXCEPT !.lockouts = n, !.locked = t]
        BY <1>4 DEF Counter
      <4>2. PICK u \in Counter : u = [a EXCEPT !.count = 0, !.start = hour]
        BY <4>1 DEF Counter
      <4>3. v = u
        BY <3>3, <4>1, <4>2, <1>4 DEF Counter
      <4>. QED BY <4>3
    <3>5. v.has = new.has /\ v.lockouts = n /\ v.locked = t /\ v.count = 0 /\ v.start = hour
      BY <3>3, <1>4 DEF Counter
    <3>. QED BY <3>1, <3>2, <3>4, <3>5, <1>5
  <2>4. v.locked - (IF v.lockouts > w.lockouts THEN hour ELSE v.locked) = lock
    BY <2>3, <1>3
  <2>. QED BY <2>1, <2>3, <2>4, <1>1, <1>8 DEF Judges
<1>. QED BY <1>7, <1>8

LEMMA DoorStarts == Door!Init => DoorInv
<1>. SUFFICES ASSUME Door!Init PROVE DoorInv
  OBVIOUS
<1>1. DoorTyped
  BY DEF Door!Init, DoorTyped, Door!NoRoom, Door!NoHotel, Door!Idle, Counter
<1>2. ASSUME NEW r \in Doors PROVE RoomOK(r)
  <2>1. Heard(wrong, r) = {} /\ rooms[r] = Door!NoRoom /\ hour = 1
    BY DEF Door!Init, Heard
  <2>. QED BY <2>1, Unheard DEF RoomOK, Door!NoRoom
<1>3. HotelOK(hotels, wrong, hour, Cardinality(Flying))
  BY DEF Door!Init, HotelOK, Door!NoHotel
<1>. QED BY <1>1, <1>2, <1>3 DEF DoorInv

(* What a room is told when its own log and counter do not change.         *)
LEMMA RoomWaits ==
  ASSUME NEW r \in Doors, DoorTyped, DoorTyped', RoomOK(r), rooms'[r] = rooms[r], hour <= hour',
         Heard(wrong', r) = Heard(wrong, r), Len(wrong') >= Len(wrong),
         \A i \in Heard(wrong, r) : wrong'[i].at = wrong[i].at /\ wrong'[i].lock = wrong[i].lock,
         Cardinality(Looking(r)') <= Cardinality(Looking(r))
  PROVE  RoomOK(r)'
<1>1. PICK H : H = Heard(wrong, r)
  OBVIOUS
<1>2. PICK w : w = rooms[r]
  OBVIOUS
<1>3. /\ wrong \in Seq(Wrong) /\ wrong' \in Seq(Wrong) /\ hour \in Nat /\ hour' \in Nat
      /\ Len(wrong) \in Nat /\ Len(wrong') \in Nat /\ w.start \in Nat
  BY <1>2 DEF DoorTyped, Counter
<1>4. /\ w.start <= hour /\ Framed(w, H, wrong) /\ Spanned(H, wrong) /\ Escalating(w, H, wrong)
      /\ Waited(H, wrong, hour, Cardinality(Looking(r)))
  BY <1>1, <1>2 DEF RoomOK
<1>5. /\ Framed(w, H, wrong') /\ Spanned(H, wrong') /\ Escalating(w, H, wrong')
      /\ Waited(H, wrong', hour, Cardinality(Looking(r)))
  BY <1>1, <1>3, <1>4, SameHeard
<1>6. Cardinality(Looking(r)) \in Nat /\ Cardinality(Looking(r)') \in Nat
  <2>1. (IsFiniteSet(Looking(r)))' /\ Cardinality(Looking(r)) \in Nat
    <3>1. IsFiniteSet(1..Tries)
      BY DoorBounds, FS_Interval
    <3>2. Looking(r)' \subseteq 1..Tries
      BY DEF Looking
    <3>. QED BY <3>1, <3>2, FS_Subset, Callers
  <2>. QED BY <2>1, FS_CardinalityType
<1>7. Waited(H, wrong', hour', Cardinality(Looking(r)'))
  BY <1>1, <1>3, <1>5, <1>6, Sooner
<1>8. w.start <= hour'
  BY <1>3, <1>4 DEF DoorTyped
<1>. QED BY <1>1, <1>2, <1>5, <1>7, <1>8 DEF RoomOK

(* The hotel's window, when no attempt ends wrongly.                       *)
LEMMA HotelWaits ==
  ASSUME DoorTyped, DoorTyped', HotelOK(hotels, wrong, hour, Cardinality(Flying)),
         hotels' = hotels, hour <= hour', Cardinality(Flying') <= Cardinality(Flying),
         Len(wrong') = Len(wrong), \A i \in 1..Len(wrong) : wrong'[i].at = wrong[i].at
  PROVE  HotelOK(hotels', wrong', hour', Cardinality(Flying'))
<1>1. PICK w \in [has : BOOLEAN, count : Nat, start : Nat] : w = hotels
  BY DEF DoorTyped
<1>2. PICK n \in Nat : n = Len(wrong) /\ n = Len(wrong')
  BY DEF DoorTyped
<1>3. wrong = <<>> => wrong' = <<>>
  <2>1. wrong' \in Seq(Wrong) /\ (wrong = <<>> => n = 0)
    BY <1>2 DEF DoorTyped
  <2>. QED BY <2>1, <1>2
<1>4. Cardinality(Flying) \in Nat /\ Cardinality(Flying') \in Nat
  <2>1. IsFiniteSet(1..Tries)
    BY DoorBounds, FS_Interval
  <2>2. Flying' \subseteq 1..Tries
    BY DEF Flying
  <2>. QED BY <2>1, <2>2, FS_Subset, FS_CardinalityType, Callers
<1>5. HotelOK(w, wrong, hour', Cardinality(Flying'))
  BY <1>1, <1>4, Sooner DEF DoorTyped
<1>6. CASE ~w.has
  BY <1>1, <1>3, <1>5, <1>6 DEF HotelOK
<1>7. CASE w.has
  <2>1. PICK k \in 0..n :
          /\ w.count = n - k /\ w.count > 0 /\ w.count <= HotelLimit + InHand
          /\ w.start <= hour' /\ wrong[k + 1].at = w.start
          /\ \A i \in 1..k : wrong[i].at <= w.start
          /\ Cardinality({i \in 1..k : wrong[i].at > w.start - HotelWindow}) < HotelLimit + InHand
          /\ w.count >= HotelLimit /\ hour' - w.start < HotelWindow =>
               w.count + Cardinality(Flying') <= HotelLimit + InHand
    BY <1>2, <1>5, <1>7 DEF HotelOK
  <2>2. k + 1 \in 1..n
    BY <2>1
  <2>3. \A i \in 1..k : wrong'[i].at = wrong[i].at
    BY <1>2, <2>1
  <2>4. wrong'[k + 1].at = w.start /\ \A i \in 1..k : wrong'[i].at <= w.start
    BY <1>2, <2>1, <2>2, <2>3
  <2>5. {i \in 1..k : wrong'[i].at > w.start - HotelWindow} = {i \in 1..k : wrong[i].at > w.start - HotelWindow}
    BY <2>3
  <2>. QED BY <1>1, <1>2, <1>7, <2>1, <2>4, <2>5 DEF HotelOK
<1>. QED BY <1>6, <1>7

LEMMA Rejected == ASSUME DoorInv, NEW p \in 1..Tries, Door!Reject(p) PROVE DoorInv'
<1>1. PICK r \in Doors : r = try[p].room /\ try[p].pc = "lookup"
  BY DEF DoorInv, DoorTyped, Door!Reject
<1>2. /\ rooms' = [rooms EXCEPT ![r] = Door!RoomFailure(r)] /\ hotels' = Door!HotelFailure
      /\ try' = [try EXCEPT ![p] = Door!Idle] /\ hour' = hour
  BY <1>1 DEF Door!Reject
<1>3. DoorTyped /\ RoomOK(r) /\ rooms[r] \in Counter /\ rooms[r].start <= hour
      /\ (~rooms[r].has => rooms[r] = Door!NoRoom)
  BY DEF DoorInv, DoorTyped, RoomOK, Framed
<1>4. /\ hour \in Nat \ {0} /\ wrong \in Seq(Wrong)
      /\ \A i \in DOMAIN wrong : 0 < wrong[i].at /\ wrong[i].at <= hour
  BY <1>3 DEF DoorTyped
<1>5. rooms'[r] = Door!RoomFailure(r) /\ \A q \in Doors : q # r => rooms'[q] = rooms[q]
  BY <1>2, <1>3 DEF DoorTyped
<1>6. PICK e : e = [room |-> r, at |-> hour, over |-> FALSE,
                    lock |-> rooms'[r].locked - (IF rooms'[r].lockouts > rooms[r].lockouts
                                                 THEN hour ELSE rooms'[r].locked)]
  OBVIOUS
<1>7. wrong' = Append(wrong, e)
  BY <1>1, <1>6 DEF Door!Reject
<1>8. Judges(rooms[r], rooms'[r], hour, e.lock) /\ rooms'[r].start \in Nat /\ rooms'[r].start <= hour
  BY <1>3, <1>4, <1>5, <1>6, Judged
<1>9. e \in Wrong /\ e.room = r /\ e.at = hour /\ ~e.over
  <2>1. e.lock \in Nat
    <3>1. rooms[r].lockouts \in Nat
      BY <1>3 DEF Counter
    <3>2. rooms[r].lockouts + 1 \in Nat \ {0}
      BY <3>1
    <3>3. Door!Lockout(rooms[r].lockouts + 1) \in Nat
      BY <3>2, Lengthening
    <3>. QED BY <1>8, <3>3 DEF Judges
  <2>. QED BY <2>1, <1>4, <1>6 DEF Wrong
<1>10. Hears(wrong, e, r, rooms[r], rooms'[r])
  BY <1>3, <1>4, <1>8, <1>9 DEF Hears, RoomOK
<1>11. /\ wrong' \in Seq(Wrong) /\ Len(wrong') = Len(wrong) + 1 /\ Len(wrong) \in Nat
       /\ DOMAIN wrong = 1..Len(wrong) /\ DOMAIN wrong' = 1..(Len(wrong) + 1)
       /\ \A i \in 1..Len(wrong) : wrong'[i] = wrong[i]
       /\ wrong'[Len(wrong) + 1] = e
       /\ \A q : q # r => Heard(wrong', q) = Heard(wrong, q)
  BY <1>4, <1>7, <1>9, Logged
<1>12. DoorTyped'
  <2>1. rooms' \in [Doors -> Counter]
    BY <1>2, <1>3, <1>5, <1>8 DEF DoorTyped, Judges
  <2>2. hotels' \in [has : BOOLEAN, count : Nat, start : Nat]
    <3>1. hotels \in [has : BOOLEAN, count : Nat, start : Nat]
      BY <1>3 DEF DoorTyped
    <3>2. PICK c \in Nat : c = hotels.count + 1
      BY <3>1
    <3>3. [hotels EXCEPT !.count = @ + 1] = [hotels EXCEPT !.count = c]
      BY <3>2
    <3>4. [hotels EXCEPT !.count = c] \in [has : BOOLEAN, count : Nat, start : Nat]
      BY <3>1
    <3>5. [has |-> TRUE, count |-> 1, start |-> hour] \in [has : BOOLEAN, count : Nat, start : Nat]
      BY <1>4
    <3>. QED BY <1>2, <3>3, <3>4, <3>5 DEF Door!HotelFailure
  <2>3. \A i \in DOMAIN wrong' : 0 < wrong'[i].at /\ wrong'[i].at <= hour'
    <3>. SUFFICES ASSUME NEW i \in 1..(Len(wrong) + 1) PROVE 0 < wrong'[i].at /\ wrong'[i].at <= hour'
      BY <1>11
    <3>1. CASE i \in 1..Len(wrong)
      BY <3>1, <1>2, <1>4, <1>11
    <3>2. CASE i = Len(wrong) + 1
      BY <3>2, <1>2, <1>4, <1>9, <1>11
    <3>. QED BY <3>1, <3>2, <1>11
  <2>4. /\ try' \in [1..Tries -> [pc : {"idle", "lookup"}, room : Doors \cup {None}, code : Codes \cup {None}]]
        /\ \A o \in 1..Tries : try'[o].pc = "lookup" => try'[o].room \in Doors
    BY <1>2, <1>3 DEF DoorTyped, Door!Idle
  <2>. QED BY <2>1, <2>2, <2>3, <2>4, <1>2, <1>4, <1>11 DEF DoorTyped
<1>13. /\ Cardinality(Looking(r)) = Cardinality(Looking(r)') + 1
       /\ Cardinality(Flying) = Cardinality(Flying') + 1
       /\ Cardinality(Looking(r)') \in Nat /\ Cardinality(Looking(r)') <= InHand
       /\ Cardinality(Flying') \in Nat /\ Cardinality(Flying') <= InHand
       /\ \A q : q # r => Looking(q)' = Looking(q)
  BY <1>1, <1>2, <1>3, Ended
<1>14. Cardinality(Looking(r)) \in Nat /\ Cardinality(Flying) \in Nat
  BY <1>3, Callers
<1>15. RoomOK(r)'
  <2>1. PICK v : v = rooms'[r]
    OBVIOUS
  <2>2. Framed(v, Heard(Append(wrong, e), r), Append(wrong, e))
    BY <1>3, <1>4, <1>9, <1>10, <2>1, FramedAfter
  <2>3. Spanned(Heard(Append(wrong, e), r), Append(wrong, e))
    BY <1>3, <1>4, <1>9, <1>10, <2>1, SpannedAfter DEF RoomOK
  <2>4. Escalating(v, Heard(Append(wrong, e), r), Append(wrong, e))
    BY <1>3, <1>4, <1>9, <1>10, <2>1, EscalatingAfter DEF RoomOK
  <2>5. Waited(Heard(Append(wrong, e), r), Append(wrong, e), e.at, Cardinality(Looking(r)'))
    <3>1. PICK coming \in Nat : coming = Cardinality(Looking(r))
      BY <1>14
    <3>2. PICK left \in Nat : left = Cardinality(Looking(r)')
      BY <1>13
    <3>3. Waited(Heard(wrong, r), wrong, e.at, coming)
      BY <1>3, <1>9, <3>1 DEF RoomOK
    <3>. QED BY <3>1, <3>2, <3>3, <1>3, <1>4, <1>9, <1>10, <1>13, DoorBounds, WaitedAfter
  <2>. QED BY <2>1, <2>2, <2>3, <2>4, <2>5, <1>2, <1>7, <1>8, <1>9 DEF RoomOK
<1>16. ASSUME NEW q \in Doors, q # r PROVE RoomOK(q)'
  <2>1. RoomOK(q) /\ rooms'[q] = rooms[q] /\ Heard(wrong', q) = Heard(wrong, q)
        /\ Cardinality(Looking(q)') <= Cardinality(Looking(q))
    <3>1. Cardinality(Looking(q)) \in Nat
      BY <1>3, Callers
    <3>2. Looking(q)' = Looking(q)
      BY <1>13, <1>16
    <3>3. Cardinality(Looking(q)') <= Cardinality(Looking(q))
      BY <3>1, <3>2
    <3>. QED BY <3>3, <1>5, <1>11, <1>16 DEF DoorInv
  <2>2. \A i \in Heard(wrong, q) : wrong'[i].at = wrong[i].at /\ wrong'[i].lock = wrong[i].lock
    BY <1>11 DEF Heard
  <2>3. hour <= hour' /\ Len(wrong') >= Len(wrong)
    BY <1>2, <1>4, <1>11
  <2>. QED BY <2>1, <2>2, <2>3, <1>3, <1>12, RoomWaits
<1>17. HotelOK(hotels', wrong', hour', Cardinality(Flying'))
  <2>1. HotelHears(wrong, e, hotels, hotels')
    <3>1. hotels \in [has : BOOLEAN, count : Nat, start : Nat]
      BY <1>3 DEF DoorTyped
    <3>. QED BY <3>1, <1>2, <1>4, <1>9 DEF HotelHears, Door!HotelFailure
  <2>2. PICK coming \in Nat : coming = Cardinality(Flying)
    BY <1>14
  <2>3. PICK left \in Nat : left = Cardinality(Flying')
    BY <1>13
  <2>4. HotelOK(hotels, wrong, e.at, coming)
    BY <1>9, <2>2 DEF DoorInv
  <2>5. PICK v : v = hotels'
    OBVIOUS
  <2>6. HotelOK(v, Append(wrong, e), e.at, left)
    BY <2>1, <2>2, <2>3, <2>4, <2>5, <1>4, <1>9, <1>13, DoorBounds, HotelAfter
  <2>. QED BY <2>3, <2>5, <2>6, <1>2, <1>7, <1>9
<1>18. \A q \in Doors : RoomOK(q)'
  BY <1>15, <1>16
<1>. QED BY <1>12, <1>17, <1>18 DEF DoorInv

LEMMA Admitted == ASSUME DoorInv, NEW p \in 1..Tries, Door!Admit(p) PROVE DoorInv'
<1>1. PICK r \in Doors : r = try[p].room /\ try[p].pc = "lookup"
  BY DEF DoorInv, DoorTyped, Door!Admit
<1>2. /\ rooms' = [rooms EXCEPT ![r] = Door!NoRoom] /\ hotels' = hotels
      /\ try' = [try EXCEPT ![p] = Door!Idle] /\ hour' = hour
      /\ wrong' = [i \in DOMAIN wrong |-> [wrong[i] EXCEPT !.over = @ \/ wrong[i].room = r]]
  BY <1>1 DEF Door!Admit, Door!recordSuccess
<1>3. DoorTyped /\ wrong \in Seq(Wrong) /\ hour \in Nat
  BY DEF DoorInv, DoorTyped
<1>4. PICK n \in Nat : n = Len(wrong)
  BY <1>3
<1>5. /\ DOMAIN wrong = 1..n /\ \A i \in 1..n : wrong[i] \in Wrong
  BY <1>3, <1>4
<1>6. ASSUME NEW i \in 1..n
      PROVE  /\ wrong'[i] \in Wrong
             /\ wrong'[i].at = wrong[i].at /\ wrong'[i].lock = wrong[i].lock /\ wrong'[i].room = wrong[i].room
             /\ wrong'[i].over <=> wrong[i].over \/ wrong[i].room = r
  <2>1. PICK f \in BOOLEAN : f <=> wrong[i].over \/ wrong[i].room = r
    OBVIOUS
  <2>2. wrong[i].over \in BOOLEAN
    BY <1>5 DEF Wrong
  <2>3. wrong'[i] = [wrong[i] EXCEPT !.over = f]
    BY <1>2, <1>5, <2>1, <2>2
  <2>4. /\ wrong'[i] \in Wrong
        /\ wrong'[i].at = wrong[i].at /\ wrong'[i].lock = wrong[i].lock /\ wrong'[i].room = wrong[i].room
        /\ wrong'[i].over = f
    BY <1>5, <2>3 DEF Wrong
  <2>. QED BY <2>1, <2>4
<1>7. wrong' \in Seq(Wrong) /\ Len(wrong') = n /\ DOMAIN wrong' = 1..n
  <2>1. wrong' = [i \in 1..n |-> wrong'[i]]
    BY <1>2, <1>5
  <2>2. wrong' \in [1..n -> Wrong]
    BY <1>6, <2>1
  <2>. QED BY <2>2
<1>8. Heard(wrong', r) = {} /\ \A q : q # r => Heard(wrong', q) = Heard(wrong, q)
  BY <1>5, <1>6, <1>7 DEF Heard
<1>9. rooms'[r] = Door!NoRoom /\ \A q \in Doors : q # r => rooms'[q] = rooms[q]
  BY <1>2, <1>3 DEF DoorTyped
<1>10. DoorTyped'
  <2>1. rooms' \in [Doors -> Counter]
    BY <1>2, <1>3 DEF DoorTyped, Counter, Door!NoRoom
  <2>2. /\ try' \in [1..Tries -> [pc : {"idle", "lookup"}, room : Doors \cup {None}, code : Codes \cup {None}]]
        /\ \A o \in 1..Tries : try'[o].pc = "lookup" => try'[o].room \in Doors
    BY <1>2, <1>3 DEF DoorTyped, Door!Idle
  <2>3. \A i \in DOMAIN wrong' : 0 < wrong'[i].at /\ wrong'[i].at <= hour'
    BY <1>2, <1>3, <1>5, <1>6, <1>7 DEF DoorTyped
  <2>. QED BY <2>1, <2>2, <2>3, <1>2, <1>3, <1>7 DEF DoorTyped
<1>11. /\ Cardinality(Flying) = Cardinality(Flying') + 1 /\ Cardinality(Flying') \in Nat
       /\ \A q : q # r => Looking(q)' = Looking(q)
  BY <1>1, <1>2, <1>3, Ended
<1>12. RoomOK(r)'
  <2>1. Heard(wrong', r) = {} /\ rooms'[r] = Door!NoRoom /\ hour' \in Nat
    BY <1>2, <1>3, <1>8, <1>9
  <2>. QED BY <2>1, Unheard DEF RoomOK, Door!NoRoom
<1>13. ASSUME NEW q \in Doors, q # r PROVE RoomOK(q)'
  <2>1. Cardinality(Looking(q)') <= Cardinality(Looking(q))
    <3>1. Cardinality(Looking(q)) \in Nat
      BY <1>3, Callers
    <3>2. Looking(q)' = Looking(q)
      BY <1>11, <1>13
    <3>. QED BY <3>1, <3>2
  <2>2. \A i \in Heard(wrong, q) : wrong'[i].at = wrong[i].at /\ wrong'[i].lock = wrong[i].lock
    BY <1>5, <1>6 DEF Heard
  <2>3. hour <= hour' /\ Len(wrong') >= Len(wrong)
    BY <1>2, <1>3, <1>4, <1>7
  <2>4. RoomOK(q) /\ rooms'[q] = rooms[q] /\ Heard(wrong', q) = Heard(wrong, q)
    BY <1>8, <1>9, <1>13 DEF DoorInv
  <2>. QED BY <2>1, <2>2, <2>3, <2>4, <1>3, <1>10, RoomWaits
<1>14. HotelOK(hotels', wrong', hour', Cardinality(Flying'))
  <2>1. hour <= hour' /\ Cardinality(Flying') <= Cardinality(Flying)
    BY <1>2, <1>3, <1>11
  <2>2. HotelOK(hotels, wrong, hour, Cardinality(Flying))
    BY DEF DoorInv
  <2>. QED BY <2>1, <2>2, <1>2, <1>3, <1>4, <1>6, <1>7, <1>10, HotelWaits
<1>15. \A q \in Doors : RoomOK(q)'
  BY <1>12, <1>13
<1>. QED BY <1>10, <1>14, <1>15 DEF DoorInv

LEMMA Entered ==
  ASSUME DoorInv, NEW p \in 1..Tries, NEW r \in Doors, NEW c \in Codes, Door!Enter(p, r, c)
  PROVE  DoorInv'
<1>1. /\ rooms' = rooms /\ hotels' = hotels /\ wrong' = wrong /\ hour' = hour
      /\ try[p].pc = "idle" /\ try' = [try EXCEPT ![p] = [pc |-> "lookup", room |-> r, code |-> c]]
      /\ ~(rooms[r].has /\ rooms[r].locked > hour)
      /\ ~(hotels.has /\ hour - hotels.start < HotelWindow /\ hotels.count >= HotelLimit)
  BY DEF Door!Enter, Door!assertAllowed
<1>2. DoorTyped /\ wrong \in Seq(Wrong) /\ hour \in Nat
  BY DEF DoorInv, DoorTyped
<1>3. DoorTyped'
  BY <1>1, <1>2 DEF DoorTyped
<1>4. \A q : q # r => Looking(q)' = Looking(q)
  BY <1>1, <1>2 DEF Looking, DoorTyped
<1>5. \A q : Cardinality(Looking(q)) \in Nat
  BY <1>2, Callers
<1>6. ASSUME NEW q \in Doors, q # r PROVE RoomOK(q)'
  <2>1. Cardinality(Looking(q)') <= Cardinality(Looking(q))
    <3>1. Looking(q)' = Looking(q)
      BY <1>4, <1>6
    <3>. QED BY <1>5, <3>1
  <2>2. Len(wrong') >= Len(wrong)
    BY <1>1, <1>2
  <2>3. RoomOK(q)
    BY DEF DoorInv
  <2>. QED BY <2>1, <2>2, <2>3, <1>1, <1>2, <1>3, RoomWaits
<1>7. RoomOK(r)'
  <2>1. PICK H : H = Heard(wrong, r)
    OBVIOUS
  <2>2. PICK w \in Counter : w = rooms[r]
    BY <1>2 DEF DoorTyped
  <2>3. /\ w.start <= hour /\ Framed(w, H, wrong) /\ Spanned(H, wrong) /\ Escalating(w, H, wrong)
        /\ Waited(H, wrong, hour, Cardinality(Looking(r)))
    BY <2>1, <2>2 DEF DoorInv, RoomOK
  <2>4. ASSUME NEW i \in H, wrong[i].lock > 0
        PROVE  ~(hour < wrong[i].at + wrong[i].lock)
    <3>1. w.has
      BY <2>3, <2>4 DEF Framed
    <3>2. w.locked <= hour /\ w.locked \in Nat
      BY <1>1, <1>2, <2>2, <3>1 DEF Counter
    <3>3. wrong[i].at + wrong[i].lock <= w.locked
      BY <2>3, <2>4 DEF Escalating
    <3>4. wrong[i].at \in Nat /\ wrong[i].lock \in Nat
      <4>1. wrong[i] \in Wrong
        BY <1>2, <2>1 DEF Heard
      <4>. QED BY <4>1 DEF Wrong
    <3>. QED BY <3>2, <3>3, <3>4, <1>2
  <2>5. Waited(H, wrong, hour, Cardinality(Looking(r)'))
    BY <2>3, <2>4 DEF Waited
  <2>. QED BY <2>1, <2>2, <2>3, <2>5, <1>1 DEF RoomOK
<1>8. HotelOK(hotels', wrong', hour', Cardinality(Flying'))
  <2>1. HotelOK(hotels, wrong, hour, Cardinality(Flying))
    BY DEF DoorInv
  <2>2. CASE ~hotels.has
    BY <1>1, <2>1, <2>2 DEF HotelOK
  <2>3. CASE hotels.has
    <3>1. ~(hotels.count >= HotelLimit /\ hour - hotels.start < HotelWindow)
      BY <1>1, <2>3
    <3>. QED BY <1>1, <2>1, <2>3, <3>1 DEF HotelOK
  <2>. QED BY <2>2, <2>3
<1>9. \A q \in Doors : RoomOK(q)'
  BY <1>6, <1>7
<1>. QED BY <1>3, <1>8, <1>9 DEF DoorInv

(* Guests come and go, and time passes.                                    *)
LEMMA DoorIdles ==
  ASSUME DoorInv, hour' \in Nat, hour <= hour', UNCHANGED <<rooms, hotels, try, wrong>>
  PROVE  DoorInv'
<1>1. DoorTyped /\ wrong \in Seq(Wrong) /\ hour \in Nat \ {0}
  BY DEF DoorInv, DoorTyped
<1>2. DoorTyped'
  <2>1. \A i \in DOMAIN wrong : wrong[i].at \in Nat
    <3>1. \A i \in DOMAIN wrong : wrong[i] \in Wrong
      BY <1>1
    <3>. QED BY <3>1 DEF Wrong
  <2>2. \A i \in DOMAIN wrong : 0 < wrong[i].at /\ wrong[i].at <= hour'
    BY <1>1, <2>1 DEF DoorTyped
  <2>3. hour' \in Nat \ {0}
    BY <1>1
  <2>. QED BY <1>1, <2>2, <2>3 DEF DoorTyped
<1>3. \A q : Looking(q)' = Looking(q)
  BY DEF Looking
<1>4. Flying' = Flying
  BY DEF Flying
<1>5. ASSUME NEW q \in Doors PROVE RoomOK(q)'
  <2>1. Cardinality(Looking(q)') <= Cardinality(Looking(q))
    <3>1. Cardinality(Looking(q)) \in Nat
      BY <1>1, Callers
    <3>2. Looking(q)' = Looking(q)
      BY <1>3
    <3>. QED BY <3>1, <3>2
  <2>2. Len(wrong') >= Len(wrong) /\ RoomOK(q)
    BY <1>1 DEF DoorInv
  <2>. QED BY <2>1, <2>2, <1>1, <1>2, RoomWaits
<1>6. HotelOK(hotels', wrong', hour', Cardinality(Flying'))
  <2>1. Cardinality(Flying') <= Cardinality(Flying)
    <3>1. Cardinality(Flying) \in Nat
      BY <1>1, Callers
    <3>. QED BY <3>1, <1>4
  <2>2. HotelOK(hotels, wrong, hour, Cardinality(Flying))
    BY DEF DoorInv
  <2>. QED BY <2>1, <2>2, <1>1, <1>2, HotelWaits
<1>. QED BY <1>2, <1>5, <1>6 DEF DoorInv

LEMMA DoorRestarts == ASSUME DoorInv, Door!Restart PROVE DoorInv'
<1>1. /\ rooms' = [r \in Doors |-> Door!NoRoom] /\ hotels' = Door!NoHotel /\ hour' = hour
      /\ try' = [p \in 1..Tries |-> Door!Idle] /\ wrong' = <<>>
  BY DEF Door!Restart
<1>2. DoorTyped'
  BY <1>1 DEF DoorInv, DoorTyped, Door!NoRoom, Door!NoHotel, Door!Idle, Counter
<1>3. ASSUME NEW r \in Doors PROVE RoomOK(r)'
  <2>1. Heard(wrong', r) = {} /\ rooms'[r] = Door!NoRoom
    BY <1>1 DEF Heard
  <2>2. hour' \in Nat
    BY <1>2 DEF DoorTyped
  <2>. QED BY <2>1, <2>2, Unheard DEF RoomOK, Door!NoRoom
<1>4. HotelOK(hotels', wrong', hour', Cardinality(Flying'))
  BY <1>1 DEF HotelOK, Door!NoHotel
<1>. QED BY <1>2, <1>3, <1>4 DEF DoorInv

LEMMA DoorHolds == DoorInv /\ [Door!Next]_doorVars => DoorInv'
<1>. SUFFICES ASSUME DoorInv, [Door!Next]_doorVars PROVE DoorInv'
  OBVIOUS
<1>1. hour \in Nat
  BY DEF DoorInv, DoorTyped
<1>2. ASSUME NEW p \in 1..Tries, Door!Reject(p) PROVE DoorInv'
  BY <1>2, Rejected
<1>3. ASSUME NEW p \in 1..Tries, Door!Admit(p) PROVE DoorInv'
  BY <1>3, Admitted
<1>4. ASSUME NEW p \in 1..Tries, NEW r \in Doors, NEW c \in Codes, Door!Enter(p, r, c) PROVE DoorInv'
  BY <1>4, Entered
<1>5. ASSUME NEW r \in Doors, Door!Leave(r) \/ \E c \in Codes : Door!Arrive(r, c) PROVE DoorInv'
  BY <1>1, <1>5, DoorIdles DEF Door!Leave, Door!Arrive
<1>6. ASSUME Door!Tick PROVE DoorInv'
  BY <1>1, <1>6, DoorIdles DEF Door!Tick
<1>7. ASSUME UNCHANGED doorVars PROVE DoorInv'
  BY <1>1, <1>7, DoorIdles DEF doorVars
<1>. QED BY <1>2, <1>3, <1>4, <1>5, <1>6, <1>7, DoorRestarts DEF Door!Next

LEMMA FirstOne ==
  ASSUME NEW X \in SUBSET Nat, X # {}
  PROVE  \E m \in X : \A j \in X : m <= j
<1>1. PICK m \in X : \A j \in X : ~(<<j, m>> \in OpToRel(<, Nat))
  BY NatLessThanWellFounded, WFMin
<1>2. \A j \in X : ~(j < m)
  BY <1>1 DEF OpToRel
<1>3. \A j \in X : j \in Nat /\ m \in Nat
  OBVIOUS
<1>. QED BY <1>2, <1>3

LEMMA LastOne ==
  ASSUME NEW n \in Nat, NEW X \in SUBSET (1..n), X # {}
  PROVE  \E m \in X : \A j \in X : j <= m
<1>1. PICK Y : Y = {n - j : j \in X}
  OBVIOUS
<1>2. Y \subseteq Nat /\ Y # {}
  <2>1. \A j \in X : n - j \in Nat
    OBVIOUS
  <2>. QED BY <1>1, <2>1
<1>3. PICK y \in Y : \A z \in Y : y <= z
  BY <1>2, FirstOne
<1>4. PICK m \in X : y = n - m
  BY <1>1, <1>3
<1>5. ASSUME NEW j \in X PROVE j <= m
  BY <1>1, <1>3, <1>4
<1>. QED BY <1>4, <1>5

LEMMA DoorCounts == \A S : Door!Cardinality(S) = Cardinality(S)
BY Zenon DEF Door!Cardinality, Cardinality

LEMMA DoorBounded == DoorInv => Door!GuessesBounded
<1>. SUFFICES ASSUME DoorInv PROVE Door!GuessesBounded
  OBVIOUS
<1>1. DoorTyped /\ wrong \in Seq(Wrong) /\ hour \in Nat
  BY DEF DoorInv, DoorTyped
<1>2. Door!UnderWay = InHand /\ InHand \in Nat
  <2>1. Cardinality(1..Tries) = Tries
    <3>1. Tries \in Int /\ 1 \in Int /\ ~(1 > Tries) /\ Tries - 1 + 1 = Tries
      BY DoorBounds
    <3>. QED BY <3>1, FS_Interval
  <2>. QED BY <2>1, DoorBounds, DoorCounts DEF Door!UnderWay, InHand
<1>3. \A i \in DOMAIN wrong : wrong[i].at \in Nat /\ wrong[i].lock \in Nat /\ 0 < wrong[i].at /\ wrong[i].at <= hour
  <2>1. \A i \in DOMAIN wrong : wrong[i] \in Wrong
    BY <1>1
  <2>. QED BY <1>1, <2>1 DEF Wrong, DoorTyped
<1>4. ASSUME NEW r \in Doors
      PROVE  /\ Cardinality(Door!Since(r, hour - RoomWindow)) <= 2 * RoomLimit - 1 + InHand
             /\ \A i \in Door!Locks(r) :
                  /\ Cardinality({j \in Door!Since(r, 0) :
                                    j > i /\ wrong[j].at < wrong[i].at + wrong[i].lock}) <= InHand
                  /\ \A j \in Door!Locks(r) : j > i => wrong[j].lock >= Door!Smaller(2 * wrong[i].lock, LockoutMax)
  <2>1. PICK H : H = Heard(wrong, r)
    OBVIOUS
  <2>2. H \subseteq DOMAIN wrong /\ DOMAIN wrong \subseteq Nat
    BY <2>1, <1>1 DEF Heard
  <2>3. Door!Since(r, 0) = H /\ Door!Locks(r) = {i \in H : wrong[i].lock > 0}
    BY <2>1, <1>3 DEF Heard, Door!Since, Door!Locks
  <2>4. PICK X : X = Door!Since(r, hour - RoomWindow)
    OBVIOUS
  <2>5. X = {i \in H : wrong[i].at > hour - RoomWindow}
    BY <2>1, <2>4 DEF Heard, Door!Since
  <2>6. /\ Spanned(H, wrong) /\ Escalating(rooms[r], H, wrong)
        /\ Waited(H, wrong, hour, Cardinality(Looking(r))) /\ Cardinality(Looking(r)) \in Nat
    BY <2>1, <1>1, Callers DEF DoorInv, RoomOK
  <2>7. \A S \in SUBSET H : IsFiniteSet(S) /\ Cardinality(S) \in Nat
    BY <2>1, <1>1, HeardSome
  <2>8. RoomLimit \in Nat \ {0} /\ RoomWindow \in Nat \ {0} /\ LockoutBase >= RoomWindow /\ LockoutBase \in Nat
    BY DoorBounds
  <2>9. ASSUME NEW i \in H, wrong[i].lock > 0
        PROVE  Cardinality(InTime(H, wrong, i)) <= InHand /\ LockoutBase <= wrong[i].lock
    <3>1. InTime(H, wrong, i) \subseteq H
      BY DEF InTime
    <3>2. Cardinality(InTime(H, wrong, i)) \in Nat
      BY <3>1, <2>7
    <3>3. Cardinality(InTime(H, wrong, i))
            + (IF hour < wrong[i].at + wrong[i].lock THEN Cardinality(Looking(r)) ELSE 0) <= InHand
      BY <2>6, <2>9 DEF Waited
    <3>. QED BY <2>6, <2>9, <3>2, <3>3, <1>2 DEF Escalating
  <2>10. ASSUME NEW m \in X, \A j \in X : j < m => wrong[j].lock = 0
         PROVE  Cardinality(Recent(H, wrong, m, hour - RoomWindow)) <= 2 * RoomLimit - 1
    <3>1. m \in H /\ wrong[m].at <= hour /\ wrong[m].at \in Nat
      BY <2>2, <2>5, <1>3
    <3>2. PICK f \in Int : f = hour - RoomWindow
      BY <2>8, <1>1
    <3>3. f >= wrong[m].at - RoomWindow /\ \A j \in H : j < m /\ wrong[j].at > f => wrong[j].lock = 0
      BY <2>5, <2>8, <2>10, <3>1, <3>2, <1>1
    <3>. QED BY <2>6, <3>1, <3>2, <3>3 DEF Spanned
  <2>11. Cardinality(X) <= 2 * RoomLimit - 1 + InHand
    <3>1. CASE X = {}
      <4>1. Cardinality(X) = 0
        BY <3>1, FS_EmptySet
      <4>. QED BY <4>1, <2>8, <1>2
    <3>2. CASE \E i \in X : wrong[i].lock > 0
      <4>1. PICK Y : Y = {i \in X : wrong[i].lock > 0}
        OBVIOUS
      <4>2. Y \subseteq Nat /\ Y # {}
        BY <3>2, <4>1, <2>2, <2>5
      <4>3. PICK m \in Y : \A j \in Y : m <= j
        BY <4>2, FirstOne
      <4>4. \A j \in X : j < m => wrong[j].lock = 0
        <5>. SUFFICES ASSUME NEW j \in X, j < m, wrong[j].lock # 0 PROVE FALSE
          OBVIOUS
        <5>1. wrong[j].lock \in Nat /\ j \in Nat /\ m \in Nat
          BY <2>2, <2>5, <4>2, <1>3
        <5>2. j \in Y
          BY <5>1, <4>1
        <5>. QED BY <5>1, <5>2, <4>3
      <4>5. PICK A : A = Recent(H, wrong, m, hour - RoomWindow)
        OBVIOUS
      <4>6. Cardinality(A) <= 2 * RoomLimit - 1 /\ m \in X /\ wrong[m].lock > 0 /\ m \in H
        BY <2>5, <2>10, <4>1, <4>4, <4>5
      <4>7. PICK B : B = InTime(H, wrong, m)
        OBVIOUS
      <4>8. Cardinality(B) <= InHand /\ LockoutBase <= wrong[m].lock
        BY <2>9, <4>6, <4>7
      <4>9. X \subseteq A \cup B
        <5>. SUFFICES ASSUME NEW j \in X, ~(j <= m)
                      PROVE  j > m /\ wrong[j].at < wrong[m].at + wrong[m].lock /\ j \in H
          BY <2>5, <4>5, <4>7 DEF Recent, InTime
        <5>1. j \in H /\ j \in Nat /\ m \in Nat /\ wrong[j].at \in Nat /\ wrong[j].at <= hour
          BY <2>2, <2>5, <4>6, <1>3
        <5>2. wrong[m].at \in Nat /\ wrong[m].lock \in Nat /\ wrong[m].at > hour - RoomWindow
          BY <2>2, <2>5, <4>6, <1>3
        <5>. QED BY <5>1, <5>2, <4>8, <2>8, <1>1
      <4>10. A \subseteq H /\ B \subseteq H
        BY <4>5, <4>7 DEF Recent, InTime
      <4>11. IsFiniteSet(A) /\ IsFiniteSet(B) /\ Cardinality(A) \in Nat /\ Cardinality(B) \in Nat
        BY <4>10, <2>7
      <4>12. /\ IsFiniteSet(A \cup B) /\ Cardinality(A \cap B) \in Nat
             /\ Cardinality(A \cup B) = Cardinality(A) + Cardinality(B) - Cardinality(A \cap B)
        <5>1. A \cap B \subseteq H
          BY <4>10
        <5>. QED BY <5>1, <4>11, <2>7, FS_Union
      <4>13. Cardinality(X) <= Cardinality(A \cup B) /\ Cardinality(X) \in Nat
        <5>1. X \subseteq H
          BY <2>5
        <5>. QED BY <5>1, <4>9, <4>12, <2>7, FS_Subset
      <4>. QED BY <4>6, <4>8, <4>11, <4>12, <4>13, <2>8, <1>2
    <3>3. CASE X # {} /\ ~\E i \in X : wrong[i].lock > 0
      <4>1. PICK m \in X : \A j \in X : j <= m
        <5>1. X \subseteq 1..Len(wrong) /\ Len(wrong) \in Nat
          BY <2>2, <2>5, <1>1
        <5>. QED BY <3>3, <5>1, LastOne
      <4>2. \A j \in X : wrong[j].lock = 0
        BY <3>3, <2>2, <2>5, <1>3
      <4>3. X = Recent(H, wrong, m, hour - RoomWindow)
        BY <4>1, <2>5 DEF Recent
      <4>4. X \subseteq H
        BY <2>5
      <4>5. Cardinality(X) \in Nat
        BY <4>4, <2>7
      <4>. QED BY <4>1, <4>2, <4>3, <4>5, <2>8, <2>10, <1>2
    <3>. QED BY <3>1, <3>2, <3>3
  <2>12. ASSUME NEW i \in H, wrong[i].lock > 0
         PROVE  /\ Cardinality({j \in H : j > i /\ wrong[j].at < wrong[i].at + wrong[i].lock}) <= InHand
                /\ \A j \in H : j > i /\ wrong[j].lock > 0 =>
                     wrong[j].lock >= Door!Smaller(2 * wrong[i].lock, LockoutMax)
    BY <2>6, <2>9, <2>12 DEF InTime, Escalating
  <2>. QED BY <2>3, <2>4, <2>11, <2>12
<1>5. Cardinality({i \in DOMAIN wrong : wrong[i].at > hour - HotelWindow}) <= 2 * (HotelLimit + InHand) - 1
  <2>1. PICK n \in Nat : n = Len(wrong)
    BY <1>1
  <2>2. DOMAIN wrong = 1..n
    BY <1>1, <2>1
  <2>3. PICK X : X = {i \in DOMAIN wrong : wrong[i].at > hour - HotelWindow}
    OBVIOUS
  <2>4. HotelLimit \in Nat \ {0} /\ HotelWindow \in Nat \ {0}
    BY DoorBounds
  <2>5. CASE ~hotels.has
    <3>1. wrong = <<>>
      BY <2>5 DEF DoorInv, HotelOK
    <3>2. Cardinality(X) = 0
      BY <3>1, <2>3, FS_EmptySet
    <3>. QED BY <3>2, <2>3, <2>4, <1>2
  <2>6. CASE hotels.has
    <3>1. PICK k \in 0..n :
            /\ hotels.count = n - k /\ hotels.count <= HotelLimit + InHand /\ hotels.start <= hour
            /\ Cardinality({i \in 1..k : wrong[i].at > hotels.start - HotelWindow}) < HotelLimit + InHand
      BY <2>1, <2>6 DEF DoorInv, HotelOK
    <3>2. PICK A : A = {i \in 1..k : wrong[i].at > hotels.start - HotelWindow}
      OBVIOUS
    <3>3. IsFiniteSet(A) /\ Cardinality(A) \in Nat
      <4>1. IsFiniteSet(1..k)
        BY <3>1, FS_Interval
      <4>. QED BY <4>1, <3>2, FS_Subset, FS_CardinalityType
    <3>4. IsFiniteSet((k + 1)..n) /\ Cardinality((k + 1)..n) = n - k
      <4>1. k + 1 \in Int /\ n \in Int /\ (k + 1 > n => n - k = 0) /\ n - (k + 1) + 1 = n - k
        BY <3>1
      <4>. QED BY <4>1, FS_Interval
    <3>5. X \subseteq A \cup ((k + 1)..n)
      <4>. SUFFICES ASSUME NEW i \in X, i \notin (k + 1)..n PROVE i \in A
        OBVIOUS
      <4>1. i \in 1..n /\ wrong[i].at \in Nat /\ wrong[i].at > hour - HotelWindow
        BY <2>2, <2>3, <1>3
      <4>2. hotels.start \in Nat
        BY <1>1 DEF DoorTyped
      <4>3. i \in 1..k
        BY <4>1, <3>1
      <4>. QED BY <4>1, <4>2, <4>3, <3>1, <3>2, <2>4, <1>1
    <3>6. PICK B : B = (k + 1)..n
      OBVIOUS
    <3>7. /\ IsFiniteSet(A \cup B) /\ Cardinality(A \cap B) \in Nat
          /\ Cardinality(A \cup B) = Cardinality(A) + Cardinality(B) - Cardinality(A \cap B)
      BY <3>3, <3>4, <3>6, FS_Union, FS_Intersection, FS_CardinalityType
    <3>8. Cardinality(X) <= Cardinality(A \cup B) /\ Cardinality(X) \in Nat /\ Cardinality(A \cup B) \in Nat
      BY <3>5, <3>6, <3>7, FS_Subset, FS_CardinalityType
    <3>. QED BY <3>1, <3>2, <3>3, <3>4, <3>6, <3>7, <3>8, <2>3, <2>4, <1>2
  <2>. QED BY <2>5, <2>6
<1>. QED BY <1>2, <1>4, <1>5, DoorCounts DEF Door!GuessesBounded

(* At the door of the runs, for any rooms, codes, attempts at a time,      *)
(* limits, windows and locks: guesses are few, and fewer with every lock.  *)
THEOREM GuessesFew == MCSpec => []GuessesBounded
<1>1. MCInit => DoorInv
  BY DoorStarts DEF MCInit
<1>2. MCNext => [Door!Next]_doorVars
  BY DEF MCNext, Entering, doorVars
<1>3. DoorInv /\ [MCNext]_<<scene, vars, deviceVars, doorVars, bookVars>> => DoorInv'
  <2>1. DoorInv /\ MCNext => DoorInv'
    BY <1>2, DoorHolds
  <2>2. DoorInv /\ UNCHANGED doorVars => DoorInv'
    BY DoorHolds
  <2>. QED BY <2>1, <2>2
<1>4. DoorInv => GuessesBounded
  BY DoorBounded DEF GuessesBounded
<1>. QED BY <1>1, <1>3, <1>4, PTL DEF MCSpec


----------------------------------------------------------------------------
(* The reports, for any day, clocks, periods and instants.                 *)
(*                                                                         *)
(* The clock of a zone, z, which may skip or repeat some instants once.    *)
Skew(z, t) == z.offset + IF t >= z.change THEN z.shift ELSE 0
ShownAt(z, t) == t + Skew(z, t)
DayStart(z, d) == Day * d - Skew(z, Day * d - Skew(z, Day * d))
PlainAt(z, d) == \E t \in (d - 1) * Day .. (d + 1) * Day :
                   \A u \in (d - 1) * Day .. (d + 1) * Day : ShownAt(z, u) = d * Day <=> u = t
Forward(z) == IF z.shift > 0 THEN z.shift ELSE 0

LEMMA BookBounds ==
  /\ Day \in Nat \ {0} /\ Spans \subseteq Nat \ {0} /\ MaxSpan \in Nat \ {0} /\ Opening \in Nat
  /\ \A z \in Zones : /\ z.offset \in Int /\ z.shift \in Int /\ z.change \in Int
                      /\ -Day <= z.offset /\ z.offset <= Day
                      /\ -Day <= z.offset + z.shift /\ z.offset + z.shift <= Day
<1>1. /\ Day \in Nat \ {0} /\ Spans \subseteq Nat \ {0} /\ MaxSpan \in Nat \ {0} /\ Opening \in Nat
      /\ \A z \in Zones : {z.offset, z.offset + z.shift} \subseteq -Day .. Day /\ {z.shift, z.change} \subseteq Int
  BY ScenesAssumption DEF Books!Parameters
<1>2. ASSUME NEW z \in Zones
      PROVE  /\ z.offset \in Int /\ z.shift \in Int /\ z.change \in Int
             /\ -Day <= z.offset /\ z.offset <= Day
             /\ -Day <= z.offset + z.shift /\ z.offset + z.shift <= Day
  <2>1. /\ z.offset \in -Day .. Day /\ z.offset + z.shift \in -Day .. Day /\ z.shift \in Int /\ z.change \in Int
    BY <1>1
  <2> QED
    BY <1>1, <2>1
<1> QED
  BY <1>1, <1>2

LEMMA SkewTyped ==
  ASSUME NEW z \in Zones, NEW t \in Int
  PROVE  Skew(z, t) \in Int /\ ShownAt(z, t) \in Int /\ (Skew(z, t) = z.offset \/ Skew(z, t) = z.offset + z.shift)
BY BookBounds DEF Skew, ShownAt

(* Days are no shorter than Day; what follows is all the arithmetic of     *)
(* products that is needed.                                                *)
LEMMA DaysScale ==
  ASSUME NEW a \in Int, NEW b \in Int
  PROVE  /\ Day * a \in Int /\ (a <= b => Day * a <= Day * b) /\ a * Day = Day * a
         /\ Day * (a - 1) = Day * a - Day /\ Day * (a + 1) = Day * a + Day
         /\ (a - 1) * Day = Day * a - Day /\ (a + 1) * Day = Day * a + Day
         /\ (a - b) * Day = Day * a - Day * b
<1>1. Day \in Nat \ {0}
  BY BookBounds
<1>2. a <= b => Day * a <= Day * b
  BY <1>1
<1>3. Day * a \in Int /\ a * Day = Day * a /\ Day * (a - 1) = Day * a - Day /\ Day * (a + 1) = Day * a + Day
  BY <1>1
<1>4. (a - 1) * Day = Day * a - Day /\ (a + 1) * Day = Day * a + Day /\ (a - b) * Day = Day * a - Day * b
  BY <1>1
<1> QED
  BY <1>2, <1>3, <1>4

LEMMA Divides ==
  ASSUME NEW x \in Int
  PROVE  x \div Day \in Int /\ x % Day \in 0 .. (Day - 1) /\ x = Day * (x \div Day) + (x % Day)
BY BookBounds

LEMMA DivOrder ==
  ASSUME NEW x \in Int, NEW d \in Int
  PROVE  x \div Day >= d <=> x >= Day * d
<1>1. PICK q : q = x \div Day
  OBVIOUS
<1>2. PICK r : r = x % Day
  OBVIOUS
<1>3. q \in Int /\ r \in 0 .. (Day - 1) /\ x = Day * q + r /\ Day \in Nat
  BY <1>1, <1>2, Divides, BookBounds
<1>4. CASE q >= d
  <2>1. Day * d <= Day * q /\ Day * d \in Int /\ Day * q \in Int
    BY <1>3, <1>4, DaysScale
  <2> QED
    BY <1>1, <1>3, <1>4, <2>1
<1>5. CASE q < d
  <2>1. q + 1 <= d /\ q + 1 \in Int
    BY <1>3, <1>5
  <2>2. Day * (q + 1) <= Day * d /\ Day * (q + 1) = Day * q + Day /\ Day * d \in Int /\ Day * q \in Int
    BY <1>3, <2>1, DaysScale
  <2> QED
    BY <1>1, <1>3, <1>5, <2>2
<1> QED
  BY <1>3, <1>4, <1>5

(* What the operators of the module are on the clock of zone. *)
LEMMA ClockReads ==
  ASSUME zone \in Zones, NEW t \in Int
  PROVE  /\ Books!Local(t) = ShownAt(zone, t) /\ Books!date(t) \in Int /\ Books!minutes(t) \in 0 .. (Day - 1)
         /\ \A d \in Int : Books!date(t) >= d <=> ShownAt(zone, t) >= Day * d
         /\ \A d \in Int : Books!Correct(d, t) = Day * d - Skew(zone, t)
<1>1. PICK x : x = ShownAt(zone, t)
  OBVIOUS
<1>2. x \in Int /\ Skew(zone, t) \in Int /\ x = t + Skew(zone, t)
  BY <1>1, SkewTyped DEF ShownAt
<1>3. Books!Local(t) = x
  <2>1. zone.offset \in Int /\ zone.shift \in Int /\ zone.change \in Int
    BY BookBounds
  <2> QED
    BY <1>1, <2>1 DEF ShownAt, Skew, Books!Local
<1>4. Books!date(t) = x \div Day /\ Books!minutes(t) = x % Day
  BY <1>3 DEF Books!date, Books!minutes
<1>5. PICK q : q = x \div Day
  OBVIOUS
<1>6. PICK r : r = x % Day
  OBVIOUS
<1>7. q \in Int /\ r \in 0 .. (Day - 1) /\ x = Day * q + r
  BY <1>2, <1>5, <1>6, Divides
<1>8. ASSUME NEW d \in Int PROVE q >= d <=> x >= Day * d
  BY <1>2, <1>5, DivOrder
<1>9. ASSUME NEW d \in Int PROVE Books!Correct(d, t) = Day * d - Skew(zone, t)
  <2>1. Books!Correct(d, t) = t - ((q - d) * Day + r)
    BY <1>4, <1>5, <1>6 DEF Books!Correct
  <2>2. (q - d) * Day = Day * q - Day * d /\ Day * q \in Int /\ Day * d \in Int
    BY <1>7, DaysScale
  <2>3. r \in Int
    BY <1>7, BookBounds
  <2> QED
    BY <1>2, <1>7, <2>1, <2>2, <2>3
<1> QED
  BY <1>1, <1>3, <1>4, <1>5, <1>6, <1>7, <1>8, <1>9

LEMMA StartsDay ==
  ASSUME zone \in Zones, NEW d \in Int
  PROVE  Books!utcInstantOfLocalMidnight(d) = DayStart(zone, d) /\ DayStart(zone, d) \in Int
<1>1. PICK g : g = Day * d - Skew(zone, Day * d)
  OBVIOUS
<1>2. Day * d \in Int /\ d * Day = Day * d
  BY DaysScale
<1>3. g \in Int
  BY <1>1, <1>2, SkewTyped
<1>4. Books!Correct(d, d * Day) = g
  BY <1>1, <1>2, ClockReads
<1>5. Books!Correct(d, g) = Day * d - Skew(zone, g)
  BY <1>3, ClockReads
<1>6. Skew(zone, g) \in Int
  BY <1>3, SkewTyped
<1> QED
  BY <1>1, <1>2, <1>4, <1>5, <1>6 DEF Books!utcInstantOfLocalMidnight, DayStart

(* A midnight that comes once is on one side of the shift, as seen from    *)
(* either side.                                                            *)
LEMMA OneSide ==
  ASSUME NEW z \in Zones, NEW d \in Int, PlainAt(z, d), NEW a, a = Day * d - z.offset, NEW b, b = a - z.shift
  PROVE  /\ a \in Int /\ b \in Int
         /\ (a < z.change /\ b < z.change) \/ (a >= z.change /\ b >= z.change)
<1>1. PICK m : m = Day * d
  OBVIOUS
<1>2. /\ m \in Int /\ d * Day = m /\ (d - 1) * Day = m - Day /\ (d + 1) * Day = m + Day /\ Day \in Nat
  BY <1>1, DaysScale, BookBounds
<1>3. /\ z.offset \in Int /\ z.shift \in Int /\ z.change \in Int
      /\ -Day <= z.offset /\ z.offset <= Day
      /\ -Day <= z.offset + z.shift /\ z.offset + z.shift <= Day
  BY BookBounds
<1>4. a = m - z.offset /\ b = m - z.offset - z.shift /\ a \in Int /\ b \in Int
  BY <1>1, <1>2, <1>3
<1>5. a \in (m - Day) .. (m + Day) /\ b \in (m - Day) .. (m + Day)
  BY <1>2, <1>3, <1>4
<1>6. PICK t \in (m - Day) .. (m + Day) : \A u \in (m - Day) .. (m + Day) : ShownAt(z, u) = m <=> u = t
  <2>1. PICK S : S = (d - 1) * Day .. (d + 1) * Day
    OBVIOUS
  <2>2. PICK n : n = d * Day
    OBVIOUS
  <2>3. \E t \in S : \A u \in S : ShownAt(z, u) = n <=> u = t
    BY <2>1, <2>2 DEF PlainAt
  <2>4. S = (m - Day) .. (m + Day) /\ n = m
    BY <1>2, <2>1, <2>2
  <2> QED
    BY <2>3, <2>4
<1>7. t \in Int /\ ShownAt(z, t) = m
  BY <1>2, <1>6
<1>8. t >= z.change => t = b
  BY <1>3, <1>4, <1>7 DEF ShownAt, Skew
<1>9. ~(t >= z.change) => t = a
  BY <1>3, <1>4, <1>7 DEF ShownAt, Skew
<1>10. ~(a >= z.change) => a = t
  <2>1. ~(a >= z.change) => ShownAt(z, a) = m
    BY <1>3, <1>4, <1>2 DEF ShownAt, Skew
  <2> QED
    BY <1>5, <1>6, <2>1
<1>11. b >= z.change => b = t
  <2>1. b >= z.change => ShownAt(z, b) = m
    BY <1>3, <1>4, <1>2 DEF ShownAt, Skew
  <2> QED
    BY <1>5, <1>6, <2>1
<1> QED
  BY <1>3, <1>4, <1>7, <1>8, <1>9, <1>10, <1>11

LEMMA DayBegins ==
  ASSUME NEW z \in Zones, NEW d \in Int, PlainAt(z, d)
  PROVE  /\ \A t \in Int : ShownAt(z, t) >= Day * d <=> t >= DayStart(z, d)
         /\ DayStart(z, d) \in Int /\ DayStart(z, d - 1) \in Int
         /\ DayStart(z, d - 1) + Day <= DayStart(z, d) + Forward(z)
<1>a. PICK a : a = Day * d - z.offset
  OBVIOUS
<1>b. PICK b : b = a - z.shift
  OBVIOUS
<1>1. PICK m : m = Day * d
  OBVIOUS
<1>2. m \in Int /\ Day * (d - 1) = m - Day /\ Day \in Nat
  BY <1>1, DaysScale, BookBounds
<1>3. z.offset \in Int /\ z.shift \in Int /\ z.change \in Int
  BY BookBounds
<1>4. /\ a \in Int /\ b \in Int
      /\ (a < z.change /\ b < z.change) \/ (a >= z.change /\ b >= z.change)
  BY <1>a, <1>b, OneSide
<1>5. a = m - z.offset /\ b = m - z.offset - z.shift
  BY <1>a, <1>b, <1>1, <1>2, <1>3
<1>6. PICK g : g = m - Skew(z, m)
  OBVIOUS
<1>7. PICK h : h = m - Day - Skew(z, m - Day)
  OBVIOUS
<1>8. (g = a \/ g = b) /\ (h = a - Day \/ h = b - Day) /\ g \in Int /\ h \in Int
  <2>1. m - Day \in Int
    BY <1>2
  <2>2. /\ Skew(z, m) \in Int /\ (Skew(z, m) = z.offset \/ Skew(z, m) = z.offset + z.shift)
        /\ Skew(z, m - Day) \in Int /\ (Skew(z, m - Day) = z.offset \/ Skew(z, m - Day) = z.offset + z.shift)
    BY <1>2, <2>1, SkewTyped
  <2> QED
    BY <1>2, <1>3, <1>5, <1>6, <1>7, <2>2
<1>9. DayStart(z, d) = m - Skew(z, g) /\ DayStart(z, d - 1) = m - Day - Skew(z, h)
  BY <1>1, <1>2, <1>6, <1>7 DEF DayStart
<1>10. CASE a < z.change /\ b < z.change
  <2>1. g < z.change /\ h < z.change
    BY <1>2, <1>3, <1>4, <1>8, <1>10
  <2>2. Skew(z, g) = z.offset /\ Skew(z, h) = z.offset
    BY <1>3, <1>8, <2>1 DEF Skew
  <2>3. DayStart(z, d) = a /\ DayStart(z, d - 1) = a - Day
    BY <1>2, <1>3, <1>5, <1>9, <2>2
  <2>4. ASSUME NEW t \in Int PROVE ShownAt(z, t) >= m <=> t >= a
    <3>1. CASE t >= z.change
      BY <1>2, <1>3, <1>4, <1>5, <1>10, <3>1 DEF ShownAt, Skew
    <3>2. CASE ~(t >= z.change)
      BY <1>2, <1>3, <1>4, <1>5, <1>10, <3>2 DEF ShownAt, Skew
    <3> QED
      BY <3>1, <3>2
  <2>5. Forward(z) \in Int /\ Forward(z) >= 0
    BY <1>3 DEF Forward
  <2>6. a - Day \in Int /\ a - Day + Day <= a + Forward(z)
    BY <1>2, <1>4, <2>5
  <2> QED
    BY <1>1, <1>4, <2>3, <2>4, <2>6
<1>11. CASE a >= z.change /\ b >= z.change
  <2>1. g >= z.change
    BY <1>2, <1>3, <1>4, <1>8, <1>11
  <2>2. Skew(z, g) = z.offset + z.shift /\ (Skew(z, h) = z.offset \/ Skew(z, h) = z.offset + z.shift)
    BY <1>3, <1>8, <2>1, SkewTyped DEF Skew
  <2>3. DayStart(z, d) = b /\ (DayStart(z, d - 1) = a - Day \/ DayStart(z, d - 1) = b - Day)
    BY <1>2, <1>3, <1>5, <1>9, <2>2
  <2>4. ASSUME NEW t \in Int PROVE ShownAt(z, t) >= m <=> t >= b
    <3>1. CASE t >= z.change
      BY <1>2, <1>3, <1>4, <1>5, <1>11, <3>1 DEF ShownAt, Skew
    <3>2. CASE ~(t >= z.change)
      BY <1>2, <1>3, <1>4, <1>5, <1>11, <3>2 DEF ShownAt, Skew
    <3> QED
      BY <3>1, <3>2
  <2>5. a - Day + Day <= b + Forward(z) /\ b - Day + Day <= b + Forward(z)
    BY <1>2, <1>3, <1>4, <1>5 DEF Forward
  <2>6. a - Day \in Int /\ b - Day \in Int
    BY <1>2, <1>4
  <2> QED
    BY <1>1, <1>4, <2>3, <2>4, <2>5, <2>6
<1> QED
  BY <1>4, <1>10, <1>11

LEMMA PlainDays ==
  ASSUME zone \in Zones, NEW d \in Int
  PROVE  Books!Plain(d) <=> PlainAt(zone, d)
<1>1. PICK S : S = (d - 1) * Day .. (d + 1) * Day
  OBVIOUS
<1>2. \A t \in S : t \in Int
  BY <1>1
<1>3. \A u \in S : Books!Local(u) = ShownAt(zone, u)
  BY <1>2, ClockReads
<1>4. Books!Plain(d) <=> \E t \in S : \A u \in S : Books!Local(u) = d * Day <=> u = t
  BY <1>1 DEF Books!Plain
<1>5. PlainAt(zone, d) <=> \E t \in S : \A u \in S : ShownAt(zone, u) = d * Day <=> u = t
  BY <1>1 DEF PlainAt
<1> QED
  BY <1>3, <1>4, <1>5

----------------------------------------------------------------------------
(* What is true of a report under way, of the charge c and the stay s of   *)
(* now, by what it has asked already: what it has seen is of its period,   *)
(* and is still so but for what may change for good; and all of it is of   *)
(* now if nothing moved.                                                   *)
IsBetween(t, p) == p.start <= t /\ t <= p.end
EarnedIn(c, p) ==
  /\ c.status = "earned"
  /\ \/ c.kind = "order" /\ IsBetween(c.at, p)
     \/ c.kind = "booking" /\ c.at \in p.from .. p.to
DepartedIn(s, p) == s.status = "checked_out" /\ IsBetween(s.out, p)
Owing(c) == c.status = "earned" /\ c.by = "room" /\ ~c.settled

ChargeOK(c) ==
  /\ c = [kind |-> c.kind, status |-> c.status, by |-> c.by, made |-> c.made, at |-> c.at, settled |-> c.settled]
  /\ c.made \in Int /\ c.at \in Int /\ c.settled \in BOOLEAN /\ c.kind \in {"none", "order", "booking"}
  /\ c.kind = "none" => c = Books!NoCharge
VisitOK(s) == s = [status |-> s.status, out |-> s.out] /\ s.out \in Int /\ s.status \in {"active", "checked_out"}

PeriodOK(z, p, before) ==
  /\ p.from \in Int /\ p.to \in Int /\ p.start = DayStart(z, p.from) /\ p.end = DayStart(z, p.to + 1)
  /\ PlainAt(z, p.from) => before.end \in Int /\ before.end <= p.start + Forward(z)

Ahead(r, q) == \E i \in DOMAIN r.todo : r.todo[i] = q
TodoOK(r) ==
  \/ r.kind = "totals" /\ r.todo \in {<<"earned", "unsettled">>, <<"unsettled">>, <<>>}
  \/ r.kind = "balances" /\ r.todo \in {<<"unsettled", "inHouse">>, <<"inHouse">>, <<>>}
  \/ r.kind = "leakage" /\ r.todo \in {<<"departed", "unsettled">>, <<"unsettled">>, <<>>}
  \/ /\ r.kind = "guests"
     /\ r.todo \in {<<"departed", "before">>, <<"before", "departed">>, <<"departed">>, <<"before">>, <<>>}

SawCharge(r, c) ==
  /\ r.charge # Books!NoCharge =>
       /\ EarnedIn(r.charge, r.of) /\ r.charge.at \in Int /\ c # Books!NoCharge
       /\ c.by = r.charge.by /\ (r.charge.settled => c.settled)
       /\ r.unsettled => r.charge.by # "cash" /\ ~r.charge.settled
  /\ Ahead(r, "earned") => ~r.unsettled
SawVisit(r, s) ==
  /\ r.kind # "balances" /\ r.stay # Books!NoStay => r.stay = s /\ DepartedIn(s, r.of)
  /\ r.previous => DepartedIn(s, r.before)
SawNow(r, c, s) ==
  /\ r.kind = "totals" /\ ~Ahead(r, "earned") =>
       r.charge = IF EarnedIn(c, r.of) THEN c ELSE Books!NoCharge
  /\ r.kind # "guests" /\ ~Ahead(r, "unsettled") => r.unsettled = Owing(c)
  /\ r.kind = "balances" /\ ~Ahead(r, "inHouse") => r.stay = IF s.status = "active" THEN s ELSE Books!NoStay
  /\ r.kind = "leakage" /\ ~Ahead(r, "departed") => r.stay = IF DepartedIn(s, r.of) THEN s ELSE Books!NoStay

ReportOK(z, r, c, s) ==
  /\ r = [kind |-> r.kind, todo |-> r.todo, of |-> r.of, before |-> r.before, moved |-> r.moved,
          charge |-> r.charge, stay |-> r.stay, unsettled |-> r.unsettled, previous |-> r.previous]
  /\ TodoOK(r) /\ PeriodOK(z, r.of, r.before) /\ r.moved \in BOOLEAN
  /\ SawCharge(r, c) /\ SawVisit(r, s) /\ (~r.moved => SawNow(r, c, s))

BooksInv ==
  /\ zone \in Zones /\ now \in Int /\ ChargeOK(charge) /\ VisitOK(visit)
  /\ report = Books!NoReport \/ ReportOK(zone, report, charge, visit)

LEMMA ReportIsOne ==
  ASSUME NEW r, TodoOK(r)
  PROVE  r # Books!NoReport /\ r.kind \in {"totals", "balances", "leakage", "guests"}
BY DEF TodoOK, Books!NoReport

(* The hotel at work under a report. *)
LEMMA HotelMoves ==
  ASSUME BooksInv, NEW c, NEW s, Books!Changes(c, s), ChargeOK(c), VisitOK(s),
         charge # Books!NoCharge => c # Books!NoCharge /\ c.by = charge.by /\ (charge.settled => c.settled),
         visit.status = "checked_out" => s = visit
  PROVE  BooksInv'
<1>1. /\ charge' = c /\ visit' = s /\ zone' = zone /\ now' = now
      /\ report' = IF report = Books!NoReport THEN report ELSE [report EXCEPT !.moved = TRUE]
  BY DEF Books!Changes
<1>2. CASE report = Books!NoReport
  BY <1>1, <1>2 DEF BooksInv
<1>3. CASE report # Books!NoReport
  <2>1. PICK r : r = report
    OBVIOUS
  <2>2. ReportOK(zone, r, charge, visit)
    BY <1>3, <2>1 DEF BooksInv
  <2>3. PICK n : n = [r EXCEPT !.moved = TRUE]
    OBVIOUS
  <2>4. /\ n = [kind |-> r.kind, todo |-> r.todo, of |-> r.of, before |-> r.before, moved |-> TRUE,
                charge |-> r.charge, stay |-> r.stay, unsettled |-> r.unsettled, previous |-> r.previous]
    BY <2>2, <2>3 DEF ReportOK
  <2>5. /\ n.kind = r.kind /\ n.todo = r.todo /\ n.of = r.of /\ n.before = r.before /\ n.moved = TRUE
        /\ n.charge = r.charge /\ n.stay = r.stay /\ n.unsettled = r.unsettled /\ n.previous = r.previous
    BY <2>4
  <2>6. TodoOK(n) /\ PeriodOK(zone, n.of, n.before)
    BY <2>2, <2>5 DEF ReportOK, TodoOK
  <2>7. SawCharge(n, c)
    BY <2>2, <2>5 DEF ReportOK, SawCharge, Ahead
  <2>8. SawVisit(n, s)
    BY <2>2, <2>5 DEF ReportOK, SawVisit, DepartedIn
  <2>9. ReportOK(zone, n, c, s)
    BY <2>4, <2>5, <2>6, <2>7, <2>8 DEF ReportOK
  <2> QED
    BY <1>1, <1>3, <2>1, <2>3, <2>9 DEF BooksInv
<1> QED
  BY <1>2, <1>3

LEMMA ChargeMoves ==
  ASSUME BooksInv, NEW c, Books!Changes(c, visit), ChargeOK(c),
         charge # Books!NoCharge => c # Books!NoCharge /\ c.by = charge.by /\ (charge.settled => c.settled)
  PROVE  BooksInv'
BY HotelMoves DEF BooksInv

LEMMA HotelWorks ==
  ASSUME BooksInv,
         \/ \E by \in Books!Methods : Books!Order(by)
         \/ \E by \in Books!Methods : \E d \in Books!date(now) .. Books!date(now) + 1 : Books!Book(by, d)
         \/ Books!Deliver \/ Books!Cancel \/ Books!Settle \/ Books!CheckOut \/ Books!Tick
  PROVE  BooksInv'
<1>1. zone \in Zones /\ now \in Int /\ ChargeOK(charge) /\ VisitOK(visit)
  BY DEF BooksInv
<1>2. /\ charge = [kind |-> charge.kind, status |-> charge.status, by |-> charge.by, made |-> charge.made,
                   at |-> charge.at, settled |-> charge.settled]
      /\ charge.made \in Int /\ charge.at \in Int /\ charge.settled \in BOOLEAN
      /\ charge.kind \in {"none", "order", "booking"} /\ (charge.kind = "none" => charge = Books!NoCharge)
  BY <1>1 DEF ChargeOK
<1>3. ASSUME NEW by, Books!Order(by) PROVE BooksInv'
  <2>1. PICK c : c = [Books!NoCharge EXCEPT !.kind = "order", !.status = "open", !.by = by, !.made = now]
    OBVIOUS
  <2>2. c = [kind |-> "order", status |-> "open", by |-> by, made |-> now, at |-> 0, settled |-> FALSE]
    BY <2>1 DEF Books!NoCharge
  <2>3. ChargeOK(c)
    BY <1>1, <2>2 DEF ChargeOK
  <2>4. charge = Books!NoCharge /\ Books!Changes(c, visit)
    BY <1>3, <2>1 DEF Books!Order
  <2> QED
    BY <2>3, <2>4, ChargeMoves
<1>4. ASSUME NEW by, NEW d \in Books!date(now) .. Books!date(now) + 1, Books!Book(by, d) PROVE BooksInv'
  <2>1. PICK c : c = [kind |-> "booking", status |-> "earned", by |-> by, made |-> now, at |-> d, settled |-> FALSE]
    OBVIOUS
  <2>2. d \in Int
    BY <1>1, ClockReads
  <2>3. ChargeOK(c)
    BY <1>1, <2>1, <2>2 DEF ChargeOK
  <2>4. charge = Books!NoCharge /\ Books!Changes(c, visit)
    BY <1>4, <2>1 DEF Books!Book
  <2> QED
    BY <2>3, <2>4, ChargeMoves
<1>5. CASE Books!Deliver
  <2>1. PICK c : c = [charge EXCEPT !.status = "earned", !.at = now]
    OBVIOUS
  <2>2. c = [kind |-> charge.kind, status |-> "earned", by |-> charge.by, made |-> charge.made,
             at |-> now, settled |-> charge.settled]
    BY <1>2, <2>1
  <2>3. charge.kind = "order" /\ Books!Changes(c, visit)
    BY <1>5, <2>1 DEF Books!Deliver
  <2>4. ChargeOK(c) /\ c.kind = "order" /\ c.by = charge.by /\ c.settled = charge.settled
    BY <1>1, <1>2, <2>2, <2>3 DEF ChargeOK
  <2>5. c # Books!NoCharge
    BY <2>4 DEF Books!NoCharge
  <2> QED
    BY <2>3, <2>4, <2>5, ChargeMoves
<1>6. CASE Books!Cancel
  <2>1. PICK c : c = [charge EXCEPT !.status = "cancelled"]
    OBVIOUS
  <2>2. c = [kind |-> charge.kind, status |-> "cancelled", by |-> charge.by, made |-> charge.made,
             at |-> charge.at, settled |-> charge.settled]
    BY <1>2, <2>1
  <2>3. (charge.status = "open" \/ charge.kind = "booking") /\ Books!Changes(c, visit)
    BY <1>6, <2>1 DEF Books!Cancel
  <2>4. charge.kind # "none"
    BY <1>2, <2>3 DEF Books!NoCharge
  <2>5. ChargeOK(c) /\ c.kind # "none" /\ c.by = charge.by /\ c.settled = charge.settled
    BY <1>1, <1>2, <2>2, <2>4 DEF ChargeOK
  <2>6. c # Books!NoCharge
    BY <2>5 DEF Books!NoCharge
  <2> QED
    BY <2>3, <2>5, <2>6, ChargeMoves
<1>7. CASE Books!Settle
  <2>1. PICK c : c = [charge EXCEPT !.settled = TRUE]
    OBVIOUS
  <2>2. c = [kind |-> charge.kind, status |-> charge.status, by |-> charge.by, made |-> charge.made,
             at |-> charge.at, settled |-> TRUE]
    BY <1>2, <2>1
  <2>3. charge.status = "earned" /\ Books!Changes(c, visit)
    BY <1>7, <2>1 DEF Books!Settle, Books!isEligible
  <2>4. charge.kind # "none"
    BY <1>2, <2>3 DEF Books!NoCharge
  <2>5. ChargeOK(c) /\ c.kind # "none" /\ c.by = charge.by /\ c.settled
    BY <1>1, <1>2, <2>2, <2>4 DEF ChargeOK
  <2>6. c # Books!NoCharge
    BY <2>5 DEF Books!NoCharge
  <2> QED
    BY <2>3, <2>5, <2>6, ChargeMoves
<1>8. CASE Books!CheckOut
  <2>1. PICK s : s = [status |-> "checked_out", out |-> now]
    OBVIOUS
  <2>2. visit.status = "active" /\ Books!Changes(charge, s) /\ VisitOK(s)
    BY <1>1, <1>8, <2>1 DEF Books!CheckOut, VisitOK
  <2> QED
    BY <1>1, <2>2, HotelMoves
<1>9. CASE Books!Tick
  <2>1. now' = now + 1 /\ UNCHANGED <<zone, visit, charge, report>>
    BY <1>9 DEF Books!Tick
  <2> QED
    BY <1>1, <2>1 DEF BooksInv
<1> QED
  BY <1>3, <1>4, <1>5, <1>6, <1>7, <1>8, <1>9

(* The periods asked for, and the window before each. *)
LEMMA PeriodsOK ==
  ASSUME BooksInv, NEW p \in Books!Periods
  PROVE  PeriodOK(zone, p, Books!previousWindow(p))
<1>1. zone \in Zones /\ now \in Int
  BY DEF BooksInv
<1>2. PICK today : today = Books!date(now)
  OBVIOUS
<1>3. today \in Int
  BY <1>1, <1>2, ClockReads
<1>4. \E from, to \in Int : p = Books!Period(from, to)
  <2>1. \/ p = Books!Period(today, today) \/ p = Books!Period(today - 1, today - 1)
        \/ \E n \in Spans : p = Books!Period(today - (n - 1), today)
        \/ \E r \in (today - 1 .. today + 1) \X (today - 1 .. today + 1) :
             p = Books!Period(r[1], IF r[2] > today THEN today ELSE r[2])
    BY <1>2 DEF Books!Periods
  <2>2. \A n \in Spans : n \in Int
    BY BookBounds
  <2>3. \A n \in Spans : today - (n - 1) \in Int
    BY <1>3, <2>2
  <2>4. \A r \in (today - 1 .. today + 1) \X (today - 1 .. today + 1) :
          r[1] \in Int /\ (IF r[2] > today THEN today ELSE r[2]) \in Int
    BY <1>3
  <2>5. today - 1 \in Int
    BY <1>3
  <2> QED
    BY <1>3, <2>1, <2>3, <2>4, <2>5
<1>5. PICK from \in Int, to \in Int : p = Books!Period(from, to)
  BY <1>4
<1>6. to + 1 \in Int /\ from - 1 \in Int
  BY <1>5
<1>7. p.from = from /\ p.to = to /\ p.start = DayStart(zone, from) /\ p.end = DayStart(zone, to + 1)
  BY <1>1, <1>5, <1>6, StartsDay DEF Books!Period
<1>8. PICK last : last = from - 1
  OBVIOUS
<1>9. PICK w : w = Books!Period(last - (to - from), last)
  OBVIOUS
<1>10. last \in Int /\ last + 1 = from
  BY <1>6, <1>8
<1>11. w.end = DayStart(zone, from)
  BY <1>1, <1>9, <1>10, StartsDay DEF Books!Period
<1>12. PICK v : v = Books!previousWindow(p)
  OBVIOUS
<1>13. v = IF to # today THEN w ELSE [w EXCEPT !.end = Books!utcInstantOfLocalMidnight(last) + Books!minutes(now)]
  BY <1>2, <1>7, <1>8, <1>9, <1>12 DEF Books!previousWindow
<1>14. ASSUME PlainAt(zone, from) PROVE v.end \in Int /\ v.end <= p.start + Forward(zone)
  <2>1. /\ DayStart(zone, from) \in Int /\ DayStart(zone, last) \in Int
        /\ DayStart(zone, last) + Day <= DayStart(zone, from) + Forward(zone)
    BY <1>1, <1>5, <1>8, <1>14, DayBegins
  <2>2. Forward(zone) \in Int /\ Forward(zone) >= 0 /\ Day \in Nat
    BY <1>1, BookBounds DEF Forward
  <2>3. CASE to # today
    BY <1>7, <1>11, <1>13, <2>1, <2>2, <2>3
  <2>4. CASE to = today
    <3>1. v.end = DayStart(zone, last) + Books!minutes(now)
      <4>1. w = [from |-> w.from, to |-> w.to, start |-> w.start, end |-> w.end]
        BY <1>9 DEF Books!Period
      <4>2. v = [from |-> w.from, to |-> w.to, start |-> w.start, end |-> DayStart(zone, last) + Books!minutes(now)]
        BY <1>1, <1>10, <1>13, <2>4, <4>1, StartsDay
      <4> QED
        BY <4>2
    <3>2. Books!minutes(now) \in 0 .. (Day - 1)
      BY <1>1, ClockReads
    <3> QED
      BY <1>7, <2>1, <2>2, <3>1, <3>2
  <2> QED
    BY <2>3, <2>4
<1> QED
  BY <1>5, <1>7, <1>12, <1>14 DEF PeriodOK

LEMMA ReportBegins ==
  ASSUME BooksInv, NEW kind \in DOMAIN Books!Plans, NEW p \in Books!Periods, Books!Begin(kind, p)
  PROVE  BooksInv'
<1>1. PICK before : before = Books!previousWindow(p)
  OBVIOUS
<1>2. PICK todo \in Books!Plans[kind] :
        report' = [kind |-> kind, todo |-> todo, of |-> p, before |-> before, moved |-> FALSE,
                   charge |-> Books!NoCharge, stay |-> Books!NoStay, unsettled |-> FALSE, previous |-> FALSE]
  BY <1>1 DEF Books!Begin
<1>3. PICK r : r = report'
  OBVIOUS
<1>4. /\ r.kind = kind /\ r.todo = todo /\ r.of = p /\ r.before = before /\ r.moved = FALSE
      /\ r.charge = Books!NoCharge /\ r.stay = Books!NoStay /\ r.unsettled = FALSE /\ r.previous = FALSE
  BY <1>2, <1>3
<1>5. PeriodOK(zone, p, before)
  BY <1>1, PeriodsOK
<1>6. /\ kind \in {"totals", "balances", "leakage", "guests"}
      /\ kind = "totals" => todo = <<"earned", "unsettled">>
      /\ kind = "balances" => todo = <<"unsettled", "inHouse">>
      /\ kind = "leakage" => todo = <<"departed", "unsettled">>
      /\ kind = "guests" => todo \in {<<"departed", "before">>, <<"before", "departed">>}
  <2>1. kind \in {"totals", "balances", "leakage", "guests"}
    BY DEF Books!Plans
  <2>2. kind = "totals" => todo = <<"earned", "unsettled">>
    BY DEF Books!Plans
  <2>3. kind = "balances" => todo = <<"unsettled", "inHouse">>
    BY DEF Books!Plans
  <2>4. kind = "leakage" => todo = <<"departed", "unsettled">>
    BY DEF Books!Plans
  <2>5. kind = "guests" => todo \in {<<"departed", "before">>, <<"before", "departed">>}
    BY DEF Books!Plans
  <2> QED
    BY <2>1, <2>2, <2>3, <2>4, <2>5
<1>7. TodoOK(r)
  BY <1>4, <1>6 DEF TodoOK
<1>8. \A a, b : DOMAIN <<a, b>> = {1, 2} /\ <<a, b>>[1] = a /\ <<a, b>>[2] = b
  OBVIOUS
<1>9. /\ kind = "totals" => Ahead(r, "earned") /\ Ahead(r, "unsettled")
      /\ kind = "balances" => Ahead(r, "unsettled") /\ Ahead(r, "inHouse")
      /\ kind = "leakage" => Ahead(r, "departed") /\ Ahead(r, "unsettled")
  BY <1>4, <1>6, <1>8 DEF Ahead
<1>10. SawCharge(r, charge) /\ SawVisit(r, visit) /\ SawNow(r, charge, visit)
  BY <1>4, <1>6, <1>9 DEF SawCharge, SawVisit, SawNow
<1>11. ReportOK(zone, r, charge, visit)
  BY <1>2, <1>3, <1>4, <1>5, <1>7, <1>10 DEF ReportOK
<1> QED
  BY <1>3, <1>11 DEF BooksInv, Books!Begin

(* Reading: the queries do not repeat. *)
LEMMA OneQueryLess ==
  ASSUME NEW r, TodoOK(r), r.todo # <<>>, NEW n, n.kind = r.kind, n.todo = Tail(r.todo)
  PROVE  /\ TodoOK(n) /\ Ahead(r, Head(r.todo))
         /\ \A q : Ahead(n, q) <=> Ahead(r, q) /\ q # Head(r.todo)
         /\ Head(r.todo) \in {"earned", "unsettled", "inHouse", "departed", "before"}
         /\ Head(r.todo) = "earned" => r.kind = "totals"
         /\ Head(r.todo) = "unsettled" => r.kind # "guests" /\ ~Ahead(r, "earned")
         /\ Head(r.todo) = "inHouse" => r.kind = "balances"
         /\ Head(r.todo) = "departed" => r.kind \in {"leakage", "guests"}
         /\ Head(r.todo) = "before" => r.kind = "guests"
<1>1. ASSUME NEW a, NEW b, r.todo = <<a, b>>, a # b
      PROVE  /\ Head(r.todo) = a /\ n.todo = <<b>> /\ Ahead(r, a)
             /\ \A q : (Ahead(n, q) <=> q = b) /\ (Ahead(r, q) <=> q \in {a, b})
  <2>1. Head(r.todo) = a /\ n.todo = <<b>>
    BY <1>1
  <2>2. DOMAIN r.todo = {1, 2} /\ r.todo[1] = a /\ r.todo[2] = b /\ DOMAIN n.todo = {1} /\ n.todo[1] = b
    BY <1>1, <2>1
  <2> QED
    BY <2>1, <2>2 DEF Ahead
<1>2. ASSUME NEW a, r.todo = <<a>>
      PROVE  /\ Head(r.todo) = a /\ n.todo = <<>> /\ Ahead(r, a)
             /\ \A q : ~Ahead(n, q) /\ (Ahead(r, q) <=> q = a)
  <2>1. Head(r.todo) = a /\ n.todo = <<>>
    BY <1>2
  <2>2. DOMAIN r.todo = {1} /\ r.todo[1] = a /\ DOMAIN n.todo = {}
    BY <1>2, <2>1
  <2> QED
    BY <2>1, <2>2 DEF Ahead
<1>3. CASE r.kind = "totals" /\ r.todo = <<"earned", "unsettled">>
  BY <1>1, <1>3 DEF TodoOK
<1>4. CASE r.kind = "balances" /\ r.todo = <<"unsettled", "inHouse">>
  BY <1>1, <1>4 DEF TodoOK
<1>5. CASE r.kind = "leakage" /\ r.todo = <<"departed", "unsettled">>
  BY <1>1, <1>5 DEF TodoOK
<1>6. CASE r.kind = "guests" /\ r.todo = <<"departed", "before">>
  BY <1>1, <1>6 DEF TodoOK
<1>7. CASE r.kind = "guests" /\ r.todo = <<"before", "departed">>
  BY <1>1, <1>7 DEF TodoOK
<1>8. CASE r.kind \in {"totals", "leakage"} /\ r.todo = <<"unsettled">>
  BY <1>2, <1>8 DEF TodoOK
<1>9. CASE r.kind = "balances" /\ r.todo = <<"inHouse">>
  BY <1>2, <1>9 DEF TodoOK
<1>10. CASE r.kind = "guests" /\ r.todo \in {<<"departed">>, <<"before">>}
  BY <1>2, <1>10 DEF TodoOK
<1> QED
  BY <1>3, <1>4, <1>5, <1>6, <1>7, <1>8, <1>9, <1>10 DEF TodoOK

LEMMA SeesNow ==
  /\ Owing(charge) \in BOOLEAN /\ Books!isEligible(charge) = Owing(charge)
  /\ \A p : /\ Books!Earned(p) <=> EarnedIn(charge, p)
            /\ Books!Departed(p) <=> DepartedIn(visit, p)
BY DEF Owing, Books!isEligible, Books!Earned, EarnedIn, Books!Departed, DepartedIn, Books!Between, IsBetween

(* What one query adds to a report. *)
Adds(n, r, q, c, s) ==
  /\ n.charge = IF q = "earned" THEN IF EarnedIn(c, r.of) THEN c ELSE Books!NoCharge ELSE r.charge
  /\ n.unsettled = IF q = "unsettled" THEN Owing(c) ELSE r.unsettled
  /\ n.stay = IF q = "inHouse" THEN IF s.status = "active" THEN s ELSE Books!NoStay
              ELSE IF q = "departed" THEN IF DepartedIn(s, r.of) THEN s ELSE Books!NoStay ELSE r.stay
  /\ n.previous = IF q = "before" THEN DepartedIn(s, r.before) ELSE r.previous

LEMMA ReportReads ==
  ASSUME BooksInv, Books!Read
  PROVE  BooksInv'
<1>1. report # Books!NoReport /\ report.todo # <<>> /\ UNCHANGED <<zone, now, visit, charge>>
  BY DEF Books!Read, Books!NoReport
<1>2. PICK r : r = report
  OBVIOUS
<1>3. ReportOK(zone, r, charge, visit)
  BY <1>1, <1>2 DEF BooksInv
<1>4. PICK q : q = Head(r.todo)
  OBVIOUS
<1>5. PICK n : n = report'
  OBVIOUS
<1>6. PICK base : base = [r EXCEPT !.todo = Tail(r.todo)]
  OBVIOUS
<1>7. base = [kind |-> r.kind, todo |-> Tail(r.todo), of |-> r.of, before |-> r.before, moved |-> r.moved,
              charge |-> r.charge, stay |-> r.stay, unsettled |-> r.unsettled, previous |-> r.previous]
  BY <1>3, <1>6 DEF ReportOK
<1>8. base.kind = r.kind /\ base.todo = Tail(r.todo) /\ r.todo # <<>> /\ TodoOK(r)
  BY <1>1, <1>2, <1>3, <1>7 DEF ReportOK
<1>9. q \in {"earned", "unsettled", "inHouse", "departed", "before"}
  BY <1>4, <1>8, OneQueryLess
<1>10. n = CASE q = "earned" -> [base EXCEPT !.charge = IF EarnedIn(charge, r.of) THEN charge ELSE Books!NoCharge]
             [] q = "unsettled" -> [base EXCEPT !.unsettled = Owing(charge)]
             [] q = "inHouse" -> [base EXCEPT !.stay = IF visit.status = "active" THEN visit ELSE Books!NoStay]
             [] q = "departed" -> [base EXCEPT !.stay = IF DepartedIn(visit, r.of) THEN visit ELSE Books!NoStay]
             [] q = "before" -> [base EXCEPT !.previous = DepartedIn(visit, r.before)]
  <2>1. Books!isEligible(charge) = Owing(charge)
    BY SeesNow
  <2>2. Books!Departed(r.before) = DepartedIn(visit, r.before)
    BY SeesNow DEF Books!Departed, DepartedIn
  <2>3. (Books!Earned(r.of) <=> EarnedIn(charge, r.of)) /\ (Books!Departed(r.of) <=> DepartedIn(visit, r.of))
    BY SeesNow
  <2> QED
    BY <1>2, <1>4, <1>5, <1>6, <2>1, <2>2, <2>3 DEF Books!Read
<1>11. /\ n = [kind |-> r.kind, todo |-> Tail(r.todo), of |-> r.of, before |-> r.before, moved |-> r.moved,
               charge |-> n.charge, stay |-> n.stay, unsettled |-> n.unsettled, previous |-> n.previous]
       /\ Adds(n, r, q, charge, visit)
  <2>1. CASE q = "earned"
    <3>1. n = [base EXCEPT !.charge = IF EarnedIn(charge, r.of) THEN charge ELSE Books!NoCharge]
      BY <1>10, <2>1
    <3>2. n = [kind |-> r.kind, todo |-> Tail(r.todo), of |-> r.of, before |-> r.before, moved |-> r.moved,
               charge |-> IF EarnedIn(charge, r.of) THEN charge ELSE Books!NoCharge,
               stay |-> r.stay, unsettled |-> r.unsettled, previous |-> r.previous]
      BY <1>7, <3>1
    <3> QED
      BY <2>1, <3>2 DEF Adds
  <2>2. CASE q = "unsettled"
    <3>1. n = [base EXCEPT !.unsettled = Owing(charge)]
      BY <1>10, <2>2
    <3>2. n = [kind |-> r.kind, todo |-> Tail(r.todo), of |-> r.of, before |-> r.before, moved |-> r.moved,
               charge |-> r.charge, stay |-> r.stay, unsettled |-> Owing(charge), previous |-> r.previous]
      BY <1>7, <3>1
    <3> QED
      BY <2>2, <3>2 DEF Adds
  <2>3. CASE q = "inHouse"
    <3>1. n = [base EXCEPT !.stay = IF visit.status = "active" THEN visit ELSE Books!NoStay]
      BY <1>10, <2>3
    <3>2. n = [kind |-> r.kind, todo |-> Tail(r.todo), of |-> r.of, before |-> r.before, moved |-> r.moved,
               charge |-> r.charge, stay |-> IF visit.status = "active" THEN visit ELSE Books!NoStay,
               unsettled |-> r.unsettled, previous |-> r.previous]
      BY <1>7, <3>1
    <3> QED
      BY <2>3, <3>2 DEF Adds
  <2>4. CASE q = "departed"
    <3>1. n = [base EXCEPT !.stay = IF DepartedIn(visit, r.of) THEN visit ELSE Books!NoStay]
      BY <1>10, <2>4
    <3>2. n = [kind |-> r.kind, todo |-> Tail(r.todo), of |-> r.of, before |-> r.before, moved |-> r.moved,
               charge |-> r.charge, stay |-> IF DepartedIn(visit, r.of) THEN visit ELSE Books!NoStay,
               unsettled |-> r.unsettled, previous |-> r.previous]
      BY <1>7, <3>1
    <3> QED
      BY <2>4, <3>2 DEF Adds
  <2>5. CASE q = "before"
    <3>1. n = [base EXCEPT !.previous = DepartedIn(visit, r.before)]
      BY <1>10, <2>5
    <3>2. n = [kind |-> r.kind, todo |-> Tail(r.todo), of |-> r.of, before |-> r.before, moved |-> r.moved,
               charge |-> r.charge, stay |-> r.stay, unsettled |-> r.unsettled,
               previous |-> DepartedIn(visit, r.before)]
      BY <1>7, <3>1
    <3> QED
      BY <2>5, <3>2 DEF Adds
  <2> QED
    BY <1>9, <2>1, <2>2, <2>3, <2>4, <2>5
<1>12. /\ n.kind = r.kind /\ n.todo = Tail(r.todo) /\ n.of = r.of /\ n.before = r.before /\ n.moved = r.moved
  BY <1>11
<1>13. /\ TodoOK(n) /\ Ahead(r, q)
       /\ \A o : Ahead(n, o) <=> Ahead(r, o) /\ o # q
       /\ q = "earned" => r.kind = "totals"
       /\ q = "unsettled" => r.kind # "guests" /\ ~Ahead(r, "earned")
       /\ q = "inHouse" => r.kind = "balances"
       /\ q = "departed" => r.kind \in {"leakage", "guests"}
       /\ q = "before" => r.kind = "guests"
  BY <1>4, <1>8, <1>12, OneQueryLess
<1>14. SawCharge(r, charge) /\ SawVisit(r, visit) /\ (~r.moved => SawNow(r, charge, visit))
  BY <1>3 DEF ReportOK
<1>15. SawCharge(n, charge)
  <2>1. CASE q = "earned"
    <3>1. n.charge = (IF EarnedIn(charge, r.of) THEN charge ELSE Books!NoCharge) /\ n.unsettled = r.unsettled
      BY <1>11, <2>1 DEF Adds
    <3>2. ~r.unsettled
      BY <1>13, <1>14, <2>1 DEF SawCharge
    <3>3. charge.at \in Int
      BY DEF BooksInv, ChargeOK
    <3> QED
      BY <1>12, <3>1, <3>2, <3>3 DEF SawCharge
  <2>2. CASE q = "unsettled"
    <3>1. n.charge = r.charge /\ n.unsettled = Owing(charge)
      BY <1>11, <2>2 DEF Adds
    <3>2. ~Ahead(n, "earned")
      BY <1>13, <2>2
    <3>3. Owing(charge) => charge.by = "room" /\ ~charge.settled
      BY DEF Owing
    <3> QED
      BY <1>12, <1>14, <3>1, <3>2, <3>3 DEF SawCharge
  <2>3. CASE q \notin {"earned", "unsettled"}
    <3>1. n.charge = r.charge /\ n.unsettled = r.unsettled
      BY <1>11, <2>3 DEF Adds
    <3> QED
      BY <1>12, <1>13, <1>14, <3>1 DEF SawCharge
  <2> QED
    BY <2>1, <2>2, <2>3
<1>16. SawVisit(n, visit)
  <2>1. n.kind # "balances" /\ n.stay # Books!NoStay => n.stay = visit /\ DepartedIn(visit, n.of)
    <3>1. CASE q = "departed"
      BY <1>11, <1>12, <3>1 DEF Adds
    <3>2. CASE q = "inHouse"
      BY <1>12, <1>13, <3>2
    <3>3. CASE q \notin {"departed", "inHouse"}
      <4>1. n.stay = r.stay
        BY <1>11, <3>3 DEF Adds
      <4> QED
        BY <1>12, <1>14, <4>1 DEF SawVisit
    <3> QED
      BY <3>1, <3>2, <3>3
  <2>2. n.previous => DepartedIn(visit, n.before)
    BY <1>11, <1>12, <1>14 DEF Adds, SawVisit
  <2> QED
    BY <2>1, <2>2 DEF SawVisit
<1>17. ASSUME ~n.moved PROVE SawNow(n, charge, visit)
  <2>1. SawNow(r, charge, visit)
    BY <1>12, <1>14, <1>17
  <2>2. n.kind = "totals" /\ ~Ahead(n, "earned") =>
          n.charge = IF EarnedIn(charge, n.of) THEN charge ELSE Books!NoCharge
    BY <1>11, <1>12, <1>13, <2>1 DEF SawNow, Adds
  <2>3. n.kind # "guests" /\ ~Ahead(n, "unsettled") => n.unsettled = Owing(charge)
    BY <1>11, <1>12, <1>13, <2>1 DEF SawNow, Adds
  <2>4. n.kind = "balances" /\ ~Ahead(n, "inHouse") =>
          n.stay = IF visit.status = "active" THEN visit ELSE Books!NoStay
    BY <1>11, <1>12, <1>13, <2>1 DEF SawNow, Adds
  <2>5. n.kind = "leakage" /\ ~Ahead(n, "departed") =>
          n.stay = IF DepartedIn(visit, n.of) THEN visit ELSE Books!NoStay
    BY <1>11, <1>12, <1>13, <2>1 DEF SawNow, Adds
  <2> QED
    BY <2>2, <2>3, <2>4, <2>5 DEF SawNow
<1>18. PeriodOK(zone, n.of, n.before) /\ n.moved \in BOOLEAN
  BY <1>3, <1>12 DEF ReportOK
<1>19. n = [kind |-> n.kind, todo |-> n.todo, of |-> n.of, before |-> n.before, moved |-> n.moved,
            charge |-> n.charge, stay |-> n.stay, unsettled |-> n.unsettled, previous |-> n.previous]
  BY <1>11, <1>12
<1>20. ReportOK(zone, n, charge, visit)
  BY <1>13, <1>15, <1>16, <1>17, <1>18, <1>19 DEF ReportOK
<1> QED
  BY <1>1, <1>5, <1>20 DEF BooksInv

LEMMA BooksStep == BooksInv /\ Books!Next => BooksInv'
<1> SUFFICES ASSUME BooksInv, Books!Next PROVE BooksInv'
  OBVIOUS
<1>1. CASE Books!End
  BY <1>1 DEF Books!End, BooksInv
<1> QED
  BY <1>1, HotelWorks, ReportBegins, ReportReads DEF Books!Next

LEMMA BooksInit == Books!Init => BooksInv
<1> SUFFICES ASSUME Books!Init PROVE BooksInv
  OBVIOUS
<1>1. /\ zone \in Zones /\ now = Opening /\ visit = [status |-> "active", out |-> 0]
      /\ charge = Books!NoCharge /\ report = Books!NoReport
  BY DEF Books!Init
<1>2. ChargeOK(charge) /\ VisitOK(visit)
  BY <1>1 DEF ChargeOK, VisitOK, Books!NoCharge
<1> QED
  BY <1>1, <1>2, BookBounds DEF BooksInv

----------------------------------------------------------------------------
(* On plain days the instants of a period are those of its days. *)
LEMMA DaysOfPeriod ==
  ASSUME zone \in Zones, NEW p, NEW before, PeriodOK(zone, p, before),
         Books!Plain(p.from), Books!Plain(p.to + 1), NEW t \in Int
  PROVE  /\ Books!date(t) \in p.from .. p.to <=> p.start <= t /\ t < p.end
         /\ IsBetween(t, p) => Books!date(t) \in p.from .. p.to \/ t = p.end
<1>1. /\ p.from \in Int /\ p.to \in Int /\ p.to + 1 \in Int
      /\ p.start = DayStart(zone, p.from) /\ p.end = DayStart(zone, p.to + 1)
  BY DEF PeriodOK
<1>2. PlainAt(zone, p.from) /\ PlainAt(zone, p.to + 1)
  BY <1>1, PlainDays
<1>3. /\ Books!date(t) \in Int
      /\ Books!date(t) >= p.from <=> ShownAt(zone, t) >= Day * p.from
      /\ Books!date(t) >= p.to + 1 <=> ShownAt(zone, t) >= Day * (p.to + 1)
  BY <1>1, ClockReads
<1>4. /\ ShownAt(zone, t) >= Day * p.from <=> t >= p.start
      /\ p.start \in Int /\ p.end \in Int
  BY <1>1, <1>2, DayBegins
<1>5. ShownAt(zone, t) >= Day * (p.to + 1) <=> t >= p.end
  BY <1>1, <1>2, DayBegins
<1>6. PICK d : d = Books!date(t)
  OBVIOUS
<1>7. d \in Int /\ (d >= p.from <=> t >= p.start) /\ (d >= p.to + 1 <=> t >= p.end)
  BY <1>3, <1>4, <1>5, <1>6
<1>8. d \in p.from .. p.to <=> p.start <= t /\ t < p.end
  BY <1>1, <1>4, <1>7
<1>9. IsBetween(t, p) => d \in p.from .. p.to \/ t = p.end
  BY <1>4, <1>8 DEF IsBetween
<1> QED
  BY <1>6, <1>8, <1>9

LEMMA BooksAdded == BooksInv => Books!ReportsAddUp
<1> SUFFICES ASSUME BooksInv PROVE Books!ReportsAddUp
  OBVIOUS
<1>1. CASE report = Books!NoReport
  <2>1. report.kind = "none"
    BY <1>1 DEF Books!NoReport
  <2> QED
    BY <2>1 DEF Books!ReportsAddUp, Books!Answered
<1>2. CASE report # Books!NoReport
  <2>1. PICK r : r = report
    OBVIOUS
  <2>2. PICK p : p = r.of
    OBVIOUS
  <2>3. /\ zone \in Zones /\ ReportOK(zone, r, charge, visit) /\ ChargeOK(charge) /\ VisitOK(visit)
    BY <1>2, <2>1 DEF BooksInv
  <2>4. /\ PeriodOK(zone, p, r.before) /\ SawCharge(r, charge) /\ SawVisit(r, visit)
        /\ ~r.moved => SawNow(r, charge, visit)
    BY <2>2, <2>3 DEF ReportOK
  <2>5. ASSUME r.todo = <<>>, NEW q PROVE ~Ahead(r, q)
    BY <2>5 DEF Ahead
  <2>6. charge.at \in Int /\ charge.made \in Int /\ visit.out \in Int /\ charge.kind \in {"none", "order", "booking"}
    BY <2>3 DEF ChargeOK, VisitOK
  <2>7. PICK exact : exact = (Books!Plain(p.from) /\ Books!Plain(p.to + 1))
    OBVIOUS
  <2>8. ASSUME exact, NEW t \in Int
        PROVE  /\ Books!date(t) \in p.from .. p.to <=> p.start <= t /\ t < p.end
               /\ IsBetween(t, p) => Books!date(t) \in p.from .. p.to \/ t = p.end
    BY <2>3, <2>4, <2>7, <2>8, DaysOfPeriod
  <2>9. p.start \in Int /\ p.end \in Int
    <3>1. p.from \in Int /\ p.to + 1 \in Int /\ p.start = DayStart(zone, p.from) /\ p.end = DayStart(zone, p.to + 1)
      BY <2>4 DEF PeriodOK
    <3> QED
      BY <2>3, <3>1, StartsDay
  <2>10. \A c : Books!isEligible(c) = Owing(c)
    BY DEF Books!isEligible, Owing
  <2>11. ASSUME r.kind = "totals", r.todo = <<>>
         PROVE  /\ exact /\ Books!Counted => Books!InPeriod(Books!DayShown) \/ r.charge.at = p.end
                /\ ~(Books!Collected /\ Books!Outstanding)
    <3>1. exact /\ Books!Counted => Books!InPeriod(Books!DayShown) \/ r.charge.at = p.end
      <4> SUFFICES ASSUME exact, Books!Counted PROVE Books!InPeriod(Books!DayShown) \/ r.charge.at = p.end
        OBVIOUS
      <4>1. EarnedIn(r.charge, p) /\ r.charge.at \in Int
        BY <2>1, <2>2, <2>4 DEF Books!Counted, SawCharge
      <4>2. CASE r.charge.kind = "order" /\ IsBetween(r.charge.at, p)
        <5>1. Books!date(r.charge.at) \in p.from .. p.to \/ r.charge.at = p.end
          BY <2>8, <4>1, <4>2
        <5> QED
          BY <2>1, <2>2, <4>2, <5>1 DEF Books!InPeriod, Books!DayShown
      <4>3. CASE r.charge.kind = "booking" /\ r.charge.at \in p.from .. p.to
        BY <2>1, <2>2, <4>3 DEF Books!InPeriod, Books!DayShown
      <4> QED
        BY <4>1, <4>2, <4>3 DEF EarnedIn
    <3>2. ~(Books!Collected /\ Books!Outstanding)
      BY <2>1, <2>4 DEF Books!Collected, Books!Outstanding, Books!Counted, SawCharge
    <3> QED
      BY <3>1, <3>2
  <2>12. ASSUME r.kind = "totals", r.todo = <<>>, exact, ~r.moved, charge.status = "earned"
         PROVE  /\ (/\ charge.by # "none"
                    /\ Books!InPeriod(IF charge.kind = "order" THEN Books!date(charge.at) ELSE charge.at))
                     => Books!Counted
                /\ Books!Counted /\ charge.by = "room" /\ Books!InPeriod(Books!date(charge.made))
                     => Books!Collected \/ Books!Outstanding
    <3>1. ~Ahead(r, "earned") /\ ~Ahead(r, "unsettled")
      BY <2>5, <2>12
    <3>2. /\ r.charge = IF EarnedIn(charge, p) THEN charge ELSE Books!NoCharge
          /\ r.unsettled = Owing(charge)
      BY <2>2, <2>4, <2>12, <3>1 DEF SawNow
    <3>3. charge # Books!NoCharge /\ charge.kind \in {"order", "booking"}
      BY <2>3, <2>6, <2>12 DEF Books!NoCharge, ChargeOK
    <3>4. ASSUME charge.by # "none",
                 Books!InPeriod(IF charge.kind = "order" THEN Books!date(charge.at) ELSE charge.at)
          PROVE  Books!Counted
      <4>1. EarnedIn(charge, p)
        <5>1. CASE charge.kind = "order"
          <6>1. Books!date(charge.at) \in p.from .. p.to
            BY <2>1, <2>2, <3>4, <5>1 DEF Books!InPeriod
          <6>2. p.start <= charge.at /\ charge.at < p.end
            BY <2>6, <2>8, <2>12, <6>1
          <6> QED
            BY <2>6, <2>9, <2>12, <5>1, <6>2 DEF EarnedIn, IsBetween
        <5>2. CASE charge.kind = "booking"
          BY <2>1, <2>2, <2>12, <3>4, <5>2 DEF EarnedIn, Books!InPeriod
        <5> QED
          BY <3>3, <5>1, <5>2
      <4> QED
        BY <2>1, <3>2, <3>3, <3>4, <4>1 DEF Books!Counted
    <3>5. ASSUME Books!Counted, charge.by = "room", Books!InPeriod(Books!date(charge.made))
          PROVE  Books!Collected \/ Books!Outstanding
      <4>1. r.charge = charge
        BY <2>1, <3>2, <3>5 DEF Books!Counted
      <4>2. CASE charge.settled
        BY <2>1, <3>5, <4>1, <4>2 DEF Books!Collected
      <4>3. CASE ~charge.settled
        <5>1. r.unsettled
          BY <2>12, <3>2, <3>5, <4>3 DEF Owing
        <5>2. p.start <= charge.made /\ charge.made < p.end
          BY <2>1, <2>2, <2>6, <2>8, <2>12, <3>5 DEF Books!InPeriod
        <5> QED
          BY <2>1, <2>2, <5>1, <5>2 DEF Books!Outstanding
      <4> QED
        BY <4>2, <4>3
    <3> QED
      BY <3>4, <3>5
  <2>13. ASSUME r.kind = "balances", r.todo = <<>>, ~r.moved
         PROVE  Books!Owed <=> Books!isEligible(charge) /\ visit.status = "active"
    <3>1. ~Ahead(r, "unsettled") /\ ~Ahead(r, "inHouse")
      BY <2>5, <2>13
    <3>2. r.unsettled = Owing(charge) /\ r.stay = IF visit.status = "active" THEN visit ELSE Books!NoStay
      BY <2>4, <2>13, <3>1 DEF SawNow
    <3>3. visit.status = "active" => visit # Books!NoStay
      BY DEF Books!NoStay
    <3> QED
      BY <2>1, <2>10, <3>2, <3>3 DEF Books!Owed
  <2>14. ASSUME r.kind \in {"leakage", "guests"}, exact, r.stay # Books!NoStay
         PROVE  Books!InPeriod(Books!date(r.stay.out)) \/ r.stay.out = p.end
    <3>1. r.stay = visit /\ IsBetween(visit.out, p)
      BY <2>2, <2>4, <2>14 DEF SawVisit, DepartedIn
    <3> QED
      BY <2>1, <2>2, <2>6, <2>8, <2>14, <3>1 DEF Books!InPeriod
  <2>15. ASSUME r.kind = "leakage", r.todo = <<>>, exact, ~r.moved, Books!isEligible(charge),
                visit.status = "checked_out", Books!InPeriod(Books!date(visit.out))
         PROVE  Books!Owed
    <3>1. ~Ahead(r, "unsettled") /\ ~Ahead(r, "departed")
      BY <2>5, <2>15
    <3>2. r.unsettled = Owing(charge) /\ r.stay = IF DepartedIn(visit, p) THEN visit ELSE Books!NoStay
      BY <2>2, <2>4, <2>15, <3>1 DEF SawNow
    <3>3. p.start <= visit.out /\ visit.out < p.end
      BY <2>1, <2>2, <2>6, <2>8, <2>15 DEF Books!InPeriod
    <3>4. DepartedIn(visit, p)
      BY <2>6, <2>9, <2>15, <3>3 DEF DepartedIn, IsBetween
    <3>5. visit # Books!NoStay
      BY <2>15 DEF Books!NoStay
    <3> QED
      BY <2>1, <2>10, <2>15, <3>2, <3>4, <3>5 DEF Books!Owed
  <2>16. ASSUME r.kind = "guests", exact, r.stay # Books!NoStay, r.previous
         PROVE  r.stay.out <= p.start + (IF zone.shift > 0 THEN zone.shift ELSE 0)
    <3>1. r.stay = visit /\ IsBetween(visit.out, r.before)
      BY <2>4, <2>16 DEF SawVisit, DepartedIn
    <3>2. p.from \in Int /\ PlainAt(zone, p.from)
      BY <2>3, <2>4, <2>7, <2>16, PlainDays DEF PeriodOK
    <3>3. r.before.end \in Int /\ r.before.end <= p.start + Forward(zone)
      BY <2>4, <3>2 DEF PeriodOK
    <3>4. zone.shift \in Int
      BY <2>3, BookBounds
    <3> QED
      BY <2>6, <2>9, <3>1, <3>3, <3>4 DEF IsBetween, Forward
  <2> QED
    BY <2>1, <2>2, <2>7, <2>11, <2>12, <2>13, <2>14, <2>15, <2>16
       DEF Books!ReportsAddUp, Books!Answered, Books!Owed
<1> QED
  BY <1>1, <1>2

(* For any day, clocks, periods and instants, and a hotel at work while a  *)
(* report reads: every report counts what belongs to its days, as          *)
(* ReportsAddUp says (reports-period.ts, the report services).             *)
THEOREM ReportsAgree == MCSpec => []ReportsAddUp
<1>1. MCInit => BooksInv
  BY BooksInit DEF MCInit
<1>2. BooksInv /\ [MCNext]_<<scene, vars, deviceVars, doorVars, bookVars>> => BooksInv'
  <2> SUFFICES ASSUME BooksInv, [MCNext]_<<scene, vars, deviceVars, doorVars, bookVars>> PROVE BooksInv'
    OBVIOUS
  <2>1. Books!Next \/ UNCHANGED <<zone, now, visit, charge, report>>
    BY DEF MCNext, Reporting, bookVars
  <2>2. UNCHANGED <<zone, now, visit, charge, report>> => BooksInv'
    BY DEF BooksInv
  <2> QED
    BY <2>1, <2>2, BooksStep
<1>3. BooksInv => ReportsAddUp
  BY BooksAdded DEF ReportsAddUp
<1> QED
  BY <1>1, <1>2, <1>3, PTL DEF MCSpec
=============================================================================
