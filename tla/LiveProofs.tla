----------------------------- MODULE LiveProofs -----------------------------
(***************************************************************************)
(* Proofs about the events and the mails of MCLive, for any guests,        *)
(* tickets, capacities, prices, mails and callers, but one editor: an      *)
(* event is never overbooked and its bookings stand, and what the outbox   *)
(* says of a mail is what became of it.                                    *)
(*                                                                         *)
(* In PartyInv, EditOK and TickOK say of a row that the editor or the tick *)
(* is about to save what makes it harmless to the bookings made since it   *)
(* was read.  In MailInv, a mail that one attempt at most has held, and    *)
(* whose outcomes were all recorded, is what its attempt believes it to be.*)
(***************************************************************************)
EXTENDS MCLive, Sequences, FiniteSetTheorems, TLAPS

Holds(c) == c # None => Party!Sold <= c
Wider(new, old) == new = None \/ (old # None /\ new >= old)

EditOK(r) ==
  \/ r.status = "draft" /\ event.status = "draft"
  \/ r.status = "published" /\ r.price = event.price /\ Wider(r.cap, event.cap)

TickOK(r) ==
  /\ r.status = "completed" /\ event.status # "draft" /\ phase = 2
  /\ r.price = event.price /\ Wider(event.cap, r.cap) /\ Holds(r.cap)

VisitorOK(q) ==
  /\ q.pc \in {"wait", "insert"} => q.b \in Tickets /\ booking[q.b].status = "none"
  /\ q.pc = "insert" => /\ q.size \in 1..MaxParty /\ q.row.price = event.price
                        /\ event.cap # None => Party!Sold + q.size <= event.cap
  /\ q.pc = "withdraw" => q.b \in Tickets /\ booking[q.b].status # "none"
  /\ phase = 2 => q.pc = "idle"

RequestOK(p, q) ==
  /\ q.pc \in {"cancel", "insert"} => lock = p
  /\ p = Editor => q.pc \in {"idle", "save", "cancel"} /\ (q.pc = "save" => EditOK(q.row))
  /\ p = Sched => q.pc \in {"idle", "save"} /\ (q.pc = "save" => TickOK(q.row))
  /\ p \in Visitors => q.pc \in {"idle", "wait", "insert", "withdraw"} /\ VisitorOK(q)

BookingsOK ==
  /\ event.status \in {"draft", "cancelled"} => Party!Booked = {}
  /\ \A b \in Party!Booked : booking[b].price = event.price
  /\ Holds(event.cap)

Asking(q) == q.pc \in {"wait", "insert"}
Apiece == \A p, q \in Party!Procs : p # q /\ Asking(show[p]) /\ Asking(show[q]) => show[p].b # show[q].b

PartyInv ==
  /\ Party!TypeOK /\ BookingsOK /\ Apiece
  /\ lock # None => event.status = "published"
  /\ \A p \in Party!Procs : RequestOK(p, show[p])

----------------------------------------------------------------------------
LEMMA Bounds ==
  /\ Caps \subseteq Nat \ {0} /\ MaxParty \in Nat \ {0} /\ IsFiniteSet(Tickets) /\ MaxFaults \in Nat
  /\ None \notin Caps /\ None \notin Tickets /\ None \notin Party!Procs /\ Prices # {}
  /\ Editor \notin Visitors /\ Sched \notin Visitors /\ Sched # Editor
  /\ Editor \in Party!Procs /\ Sched \in Party!Procs /\ Visitors \subseteq Party!Procs
<1>1. \A S : Party!IsFiniteSet(S) <=> IsFiniteSet(S)
  BY Zenon DEF Party!IsFiniteSet, IsFiniteSet
<1>2. IsFiniteSet(Tickets)
  BY <1>1, ScenesAssumption DEF Party!Parameters
<1> QED
  BY <1>2, ScenesAssumption DEF Party!Parameters, Party!Procs

LEMMA SameCount == \A S : Party!Cardinality(S) = Cardinality(S)
<1>1. \A S : Party!IsFiniteSet(S) <=> IsFiniteSet(S)
  BY Zenon DEF Party!IsFiniteSet, IsFiniteSet
<1> QED
  BY <1>1, Zenon DEF Party!Cardinality, Cardinality

SeatsFinite ==
  /\ IsFiniteSet(Party!Seats) /\ Party!Sold \in Nat
  /\ Party!Booked = {} => Party!Sold = 0

LEMMA SeatsCounted == SeatsFinite
<1>0. IsFiniteSet(1..MaxParty)
  BY Bounds, FS_Interval
<1>1. IsFiniteSet(Tickets \X (1..MaxParty))
  BY <1>0, Bounds, FS_Product
<1>2. Party!Seats \in SUBSET (Tickets \X (1..MaxParty))
  BY DEF Party!Seats
<1>3. IsFiniteSet(Party!Seats)
  BY <1>1, <1>2, FS_Subset
<1>4. Party!Sold = Cardinality(Party!Seats)
  BY SameCount DEF Party!Sold
<1>5. Party!Booked = {} => Party!Seats = {}
  BY DEF Party!Seats, Party!Booked
<1> QED
  BY <1>3, <1>4, <1>5, FS_CardinalityType, FS_EmptySet DEF SeatsFinite

LEMMA SeatsCountedNext == SeatsFinite'
BY SeatsCounted, PTL

(* No booking is made: no seat is sold.                                    *)
LEMMA SeatsFreed ==
  ASSUME \A b \in Tickets : booking'[b].status = "booked" =>
           booking[b].status = "booked" /\ booking'[b].size = booking[b].size
  PROVE  Party!Sold' <= Party!Sold
<1>1. Party!Seats' \in SUBSET Party!Seats
  BY DEF Party!Seats
<1>2. Party!Sold = Cardinality(Party!Seats) /\ Party!Sold' = Cardinality(Party!Seats')
  BY SameCount DEF Party!Sold
<1> QED
  BY <1>1, <1>2, SeatsCounted, FS_Subset DEF SeatsFinite

(* One booking is made: its party's seats are sold.                        *)
LEMMA SeatsTaken ==
  ASSUME NEW k \in Tickets, NEW n \in 1..MaxParty,
         \A b \in Tickets \ {k} : booking'[b] = booking[b],
         booking'[k].size = n
  PROVE  Party!Sold' <= Party!Sold + n
<1> DEFINE new == {k} \X (1..n)
           f == [i \in 1..n |-> <<k, i>>]
<1>1. Party!Seats' \in SUBSET (Party!Seats \cup new)
  <2> SUFFICES ASSUME NEW s \in Party!Seats' PROVE s \in Party!Seats \cup new
    OBVIOUS
  <2>1. s \in Tickets \X (1..MaxParty) /\ booking'[s[1]].status = "booked" /\ s[2] <= booking'[s[1]].size
    BY DEF Party!Seats
  <2>2. CASE s[1] = k
    <3>1. s[2] \in 1..n
      BY <2>1, <2>2, Bounds
    <3> QED
      BY <2>1, <2>2, <3>1
  <2>3. CASE s[1] # k
    BY <2>1, <2>3 DEF Party!Seats
  <2> QED
    BY <2>2, <2>3
<1>2. n \in Nat /\ IsFiniteSet(1..n) /\ Cardinality(1..n) = n
  BY FS_Interval, Bounds
<1>3. f \in Surjection(1..n, new)
  <2>1. f \in [1..n -> new]
    OBVIOUS
  <2>2. ASSUME NEW t \in new PROVE \E i \in 1..n : f[i] = t
    <3>1. PICK i \in 1..n : t = <<k, i>>
      OBVIOUS
    <3> QED
      BY <3>1
  <2> QED
    BY <2>1, <2>2, Zenon DEF Surjection
<1>4. IsFiniteSet(new) /\ Cardinality(new) <= n
  BY <1>2, <1>3, FS_Surjection
<1> HIDE DEF new
<1>5. /\ IsFiniteSet(Party!Seats \cup new)
      /\ Cardinality(Party!Seats \cup new) =
           Cardinality(Party!Seats) + Cardinality(new) - Cardinality(Party!Seats \cap new)
  BY <1>4, SeatsCounted, FS_Union DEF SeatsFinite
<1>6. Cardinality(Party!Seats \cap new) \in Nat
  <2>1. (Party!Seats \cap new) \in SUBSET new
    OBVIOUS
  <2> QED
    BY <1>4, <2>1, FS_Subset, FS_CardinalityType
<1>7. Cardinality(Party!Seats') <= Cardinality(Party!Seats \cup new)
  BY <1>1, <1>5, FS_Subset
<1>8. /\ Cardinality(Party!Seats') \in Nat /\ Cardinality(Party!Seats) \in Nat /\ Cardinality(new) \in Nat
      /\ Cardinality(Party!Seats \cup new) \in Nat
  BY <1>4, <1>5, SeatsCounted, SeatsCountedNext, FS_CardinalityType DEF SeatsFinite
<1>9. Party!Sold = Cardinality(Party!Seats) /\ Party!Sold' = Cardinality(Party!Seats')
  BY SameCount DEF Party!Sold
<1> QED
  BY <1>2, <1>4, <1>5, <1>6, <1>7, <1>8, <1>9

LEMMA IdleTyped == Party!IdleReq \in Party!Request /\ Party!IdleReq.pc = "idle" /\ Party!IdleReq.b = None
<1>1. Party!AnyPrice \in Prices
  BY Bounds DEF Party!AnyPrice
<1>2. Party!NoRow \in Party!EventRow
  BY <1>1 DEF Party!NoRow, Party!EventRow, Party!Capacity
<1> QED
  BY <1>2, Bounds DEF Party!IdleReq, Party!Request

LEMMA IdleOK == \A p : RequestOK(p, Party!IdleReq)
BY IdleTyped DEF RequestOK, VisitorOK

LEMMA IdleOKNext == \A p : RequestOK(p, Party!IdleReq)'
BY IdleTyped DEF RequestOK, VisitorOK

LEMMA RowFields ==
  ASSUME Party!TypeOK
  PROVE  /\ event.cap \in Caps \cup {None} /\ event.price \in Prices
         /\ event.status \in {"draft", "published", "completed", "cancelled"}
         /\ \A p \in Party!Procs : show[p] \in Party!Request
BY DEF Party!TypeOK, Party!EventRow, Party!Capacity

(* A request goes on and neither the event nor a booking changes: what the *)
(* others believe is still so.                                             *)
LEMMA TalkKeeps ==
  ASSUME PartyInv, NEW p \in Party!Procs, NEW q \in Party!Request, show' = [show EXCEPT ![p] = q],
         UNCHANGED <<event, booking, phase>>, ticking' \in BOOLEAN, eventFaults' \in 0..MaxFaults,
         lock' = lock \/ (lock = None /\ lock' = p), lock' # None => event.status = "published",
         RequestOK(p, q)',
         Asking(q) => \/ Asking(show[p]) /\ q.b = show[p].b
                      \/ \A x \in Party!Procs : show[x].b # q.b
  PROVE  PartyInv'
<1>0. show \in [Party!Procs -> Party!Request] /\ lock \in Party!Procs \cup {None}
  BY DEF PartyInv, Party!TypeOK
<1>1. Party!TypeOK'
  BY <1>0 DEF PartyInv, Party!TypeOK
<1>2. BookingsOK'
  BY DEF PartyInv, BookingsOK, Holds, Party!Sold, Party!Seats, Party!Booked
<1>3. Apiece'
  <2> SUFFICES ASSUME NEW x \in Party!Procs, NEW y \in Party!Procs, x # y,
                      Asking(show'[x]), Asking(show'[y]), show'[x].b = show'[y].b
               PROVE  FALSE
    BY DEF Apiece, Asking
  <2> QED
    BY <1>0 DEF PartyInv, Apiece
<1>4. ASSUME NEW x \in Party!Procs PROVE RequestOK(x, show[x])'
  <2>1. CASE x = p
    <3>1. show'[x] = q
      BY <1>0, <2>1
    <3> QED
      BY <2>1, <3>1 DEF RequestOK, VisitorOK, EditOK, TickOK, Holds
  <2>2. CASE x # p
    <3>1. show'[x] = show[x] /\ RequestOK(x, show[x]) /\ x # None
      BY <1>0, <2>2, Bounds DEF PartyInv
    <3>2. show[x].pc \in {"cancel", "insert"} => lock' = x
      BY <3>1 DEF RequestOK
    <3>3. Party!Sold' = Party!Sold
      BY DEF Party!Sold, Party!Seats
    <3> QED
      BY <3>1, <3>2, <3>3 DEF RequestOK, VisitorOK, EditOK, TickOK, Holds
  <2> QED
    BY <2>1, <2>2
<1> QED
  BY <1>1, <1>2, <1>3, <1>4 DEF PartyInv

(* The editor or the tick saves the row it has read before.                *)
LEMMA SaveKeeps ==
  ASSUME PartyInv, NEW p \in {Editor, Sched}, show[p].pc = "save", lock = None,
         event' = show[p].row, show' = [show EXCEPT ![p] = Party!IdleReq],
         UNCHANGED <<booking, lock, phase, eventFaults>>, ticking' \in BOOLEAN
  PROVE  PartyInv'
<1>0. /\ show \in [Party!Procs -> Party!Request] /\ p \in Party!Procs
      /\ booking' = booking /\ lock' = lock /\ phase' = phase
  BY Bounds DEF PartyInv, Party!TypeOK
<1>1. PICK r : r = show[p].row
  OBVIOUS
<1>2. r \in Party!EventRow /\ event' = r
  BY <1>0, <1>1 DEF Party!Request
<1>3. /\ p = Editor => EditOK(r)
      /\ p = Sched => TickOK(r)
  BY <1>0, <1>1 DEF PartyInv, RequestOK
<1>4. Party!TypeOK'
  BY <1>0, <1>2, IdleTyped DEF PartyInv, Party!TypeOK
<1>5. Party!Booked' = Party!Booked /\ Party!Sold' = Party!Sold
  BY <1>0 DEF Party!Booked, Party!Sold, Party!Seats
<1>6. /\ event.cap \in Caps \cup {None} /\ r.cap \in Caps \cup {None} /\ Party!Sold \in Nat
      /\ \A c \in Caps : c \in Nat
  BY <1>2, RowFields, SeatsCounted, Bounds DEF PartyInv, SeatsFinite, Party!EventRow, Party!Capacity
<1>7. BookingsOK'
  <2>1. r.status # "cancelled" /\ (r.status = "draft" => event.status = "draft")
    BY <1>3 DEF EditOK, TickOK
  <2>2. r.status # "draft" => r.price = event.price
    BY <1>3 DEF EditOK, TickOK
  <2>3. Party!Booked = {} => Party!Sold = 0
    BY SeatsCounted DEF SeatsFinite
  <2>4. r.cap # None => Party!Sold <= r.cap
    <3>1. CASE r.status = "draft"
      BY <1>6, <2>1, <2>3, <3>1 DEF PartyInv, BookingsOK
    <3>2. CASE p = Editor /\ r.status # "draft"
      <4>1. r.cap # None => event.cap # None /\ r.cap >= event.cap
        BY <1>3, <3>2 DEF EditOK, Wider
      <4>2. event.cap # None => Party!Sold <= event.cap
        BY DEF PartyInv, BookingsOK, Holds
      <4> QED
        BY <1>6, <4>1, <4>2
    <3>3. CASE p = Sched
      BY <1>3, <3>3 DEF TickOK, Holds
    <3> QED
      BY <3>1, <3>2, <3>3
  <2> QED
    BY <1>0, <1>2, <1>5, <2>1, <2>2, <2>4 DEF PartyInv, BookingsOK, Holds
<1>8. Apiece'
  BY <1>0, IdleTyped DEF PartyInv, Apiece, Asking
<1>9. ASSUME NEW x \in Party!Procs PROVE RequestOK(x, show[x])'
  <2>1. CASE x = p
    BY <1>0, <2>1, IdleOKNext DEF RequestOK, VisitorOK, EditOK, TickOK, Holds
  <2>2. CASE x # p
    <3>1. PICK q : q = show[x]
      OBVIOUS
    <3>2. show'[x] = q /\ RequestOK(x, q) /\ x # None /\ q \in Party!Request
      BY <1>0, <2>2, <3>1, Bounds DEF PartyInv
    <3>3. q.pc \notin {"cancel", "insert"}
      BY <3>2 DEF RequestOK
    <3>4. VisitorOK(q) => VisitorOK(q)'
      BY <1>0, <3>3 DEF VisitorOK
    <3>5. ASSUME x = Editor, q.pc = "save" PROVE EditOK(q.row)'
      <4>1. EditOK(q.row) /\ TickOK(r)
        BY <1>3, <2>2, <3>2, <3>5 DEF RequestOK
      <4>2. q.row.status = "published" /\ q.row.price = event.price /\ Wider(q.row.cap, event.cap)
        BY <4>1 DEF EditOK, TickOK
      <4>3. q.row.cap \in Caps \cup {None}
        BY <3>2 DEF Party!Request, Party!EventRow, Party!Capacity
      <4>4. Wider(q.row.cap, r.cap)
        BY <1>6, <4>1, <4>2, <4>3 DEF TickOK, Wider
      <4>5. r.price = event.price
        BY <4>1 DEF TickOK
      <4> QED
        BY <1>2, <4>2, <4>4, <4>5 DEF EditOK, Wider
    <3>6. ASSUME x = Sched, q.pc = "save" PROVE TickOK(q.row)'
      <4>1. EditOK(r) /\ TickOK(q.row)
        BY <1>3, <2>2, <3>2, <3>6 DEF RequestOK
      <4>2. r.status = "published" /\ r.price = event.price /\ Wider(r.cap, event.cap)
        BY <4>1 DEF EditOK, TickOK
      <4>3. q.row.cap \in Caps \cup {None}
        BY <3>2 DEF Party!Request, Party!EventRow, Party!Capacity
      <4>4. Wider(r.cap, q.row.cap)
        BY <1>6, <4>1, <4>2, <4>3 DEF TickOK, Wider
      <4> QED
        BY <1>0, <1>2, <1>5, <4>1, <4>2, <4>4 DEF TickOK, Wider, Holds
    <3>7. RequestOK(x, q)'
      BY <3>2, <3>3, <3>4, <3>5, <3>6 DEF RequestOK
    <3> QED
      BY <3>2, <3>7 DEF RequestOK, VisitorOK, EditOK, TickOK, Holds
  <2> QED
    BY <2>1, <2>2
<1> QED
  BY <1>0, <1>4, <1>7, <1>8, <1>9 DEF PartyInv

(* The event is cancelled with all that was booked.                        *)
LEMMA CancelKeeps ==
  ASSUME PartyInv, Party!CancelCommit(Editor)
  PROVE  PartyInv'
<1>0. /\ show[Editor].pc = "cancel" /\ event' = [event EXCEPT !.status = "cancelled"] /\ lock' = None
      /\ booking' = [b \in Tickets |-> IF b \in Party!Booked THEN [booking[b] EXCEPT !.status = "cancelled"]
                                       ELSE booking[b]]
      /\ show' = [show EXCEPT ![Editor] = Party!IdleReq] /\ UNCHANGED <<ticking, phase, eventFaults>>
  BY DEF Party!CancelCommit, Party!Go
<1>1. show \in [Party!Procs -> Party!Request] /\ booking \in [Tickets -> Party!BookingRow] /\ event \in Party!EventRow
  BY DEF PartyInv, Party!TypeOK
<1>2. lock = Editor /\ lock # None
  BY <1>0, Bounds DEF PartyInv, RequestOK
<1>3. event.status = "published"
  BY <1>2 DEF PartyInv
<1>4. /\ event'.status = "cancelled" /\ event'.cap = event.cap /\ event'.price = event.price
      /\ event' \in Party!EventRow
  BY <1>0, <1>1 DEF Party!EventRow
<1>5. ASSUME NEW b \in Tickets
      PROVE  /\ booking'[b] \in Party!BookingRow /\ booking'[b].status # "booked"
             /\ booking[b].status # "booked" => booking'[b] = booking[b]
             /\ booking[b].status # "none" => booking'[b].status # "none"
  <2>1. booking[b] \in Party!BookingRow
    BY <1>1
  <2>2. CASE booking[b].status = "booked"
    <3>1. booking'[b] = [booking[b] EXCEPT !.status = "cancelled"]
      BY <1>0, <2>2 DEF Party!Booked
    <3> QED
      BY <2>1, <2>2, <3>1 DEF Party!BookingRow
  <2>3. CASE booking[b].status # "booked"
    BY <1>0, <2>1, <2>3 DEF Party!Booked
  <2> QED
    BY <2>2, <2>3
<1>6. booking' \in [Tickets -> Party!BookingRow]
  BY <1>0, <1>5
<1>7. Party!TypeOK'
  BY <1>0, <1>1, <1>4, <1>6, IdleTyped DEF PartyInv, Party!TypeOK
<1>8. Party!Booked' = {}
  BY <1>5 DEF Party!Booked
<1>9. Party!Sold' = 0 /\ Party!Sold \in Nat
  BY <1>8, SeatsCounted, SeatsCountedNext DEF SeatsFinite
<1>10. BookingsOK'
  <2>1. event'.cap # None => event'.cap \in Nat
    BY <1>4, RowFields, Bounds DEF PartyInv
  <2>2. event'.cap # None => Party!Sold' <= event'.cap
    BY <1>9, <2>1
  <2> QED
    BY <1>8, <2>2 DEF BookingsOK, Holds, Party!Booked
<1>11. Apiece'
  BY <1>0, <1>1, IdleTyped DEF PartyInv, Apiece, Asking
<1>12. ASSUME NEW x \in Party!Procs PROVE RequestOK(x, show[x])'
  <2>1. CASE x = Editor
    BY <1>0, <1>1, <2>1, IdleOKNext DEF RequestOK, VisitorOK, EditOK, TickOK, Holds
  <2>2. CASE x # Editor
    <3>1. PICK q : q = show[x]
      OBVIOUS
    <3>2. show'[x] = q /\ RequestOK(x, q) /\ q \in Party!Request
      BY <1>0, <1>1, <2>2, <3>1 DEF PartyInv
    <3>3. q.pc \notin {"cancel", "insert"}
      BY <1>2, <2>2, <3>2 DEF RequestOK
    <3>4. VisitorOK(q) => VisitorOK(q)'
      BY <1>0, <1>5, <3>3 DEF VisitorOK
    <3>5. TickOK(q.row) => TickOK(q.row)'
      <4>1. q.row.cap \in Caps \cup {None}
        BY <3>2 DEF Party!Request, Party!EventRow, Party!Capacity
      <4>2. q.row.cap # None => q.row.cap \in Nat
        BY <4>1, Bounds
      <4>3. q.row.cap # None => Party!Sold' <= q.row.cap
        BY <4>2, <1>9
      <4> QED
        BY <1>0, <1>4, <4>3 DEF TickOK, Wider, Holds
    <3>6. RequestOK(x, q)'
      BY <2>2, <3>2, <3>3, <3>4, <3>5 DEF RequestOK
    <3> QED
      BY <3>2, <3>6 DEF RequestOK, VisitorOK, EditOK, TickOK, Holds
  <2> QED
    BY <2>1, <2>2
<1> QED
  BY <1>0, <1>7, <1>10, <1>11, <1>12 DEF PartyInv

(* A booking comes to be or is withdrawn; the event stays.                 *)
LEMMA BookingKeeps ==
  ASSUME PartyInv, NEW p \in Visitors, NEW k \in Tickets, NEW r \in Party!BookingRow,
         booking' = [booking EXCEPT ![k] = r], r.status # "none", phase # 2,
         show' = [show EXCEPT ![p] = Party!IdleReq], UNCHANGED <<event, ticking, phase, eventFaults>>,
         lock' = lock \/ (lock = p /\ lock' = None),
         Holds(event.cap)', BookingsOK',
         \A x \in Party!Procs \ {p} :
           /\ Asking(show[x]) => show[x].b # k
           /\ show[x].pc = "insert" => Party!Sold' <= Party!Sold
  PROVE  PartyInv'
<1>0. /\ show \in [Party!Procs -> Party!Request] /\ booking \in [Tickets -> Party!BookingRow]
      /\ p \in Party!Procs /\ event' = event /\ phase' = phase
  BY Bounds DEF PartyInv, Party!TypeOK
<1>1. Party!TypeOK'
  BY <1>0, IdleTyped DEF PartyInv, Party!TypeOK
<1>2. Apiece'
  BY <1>0, IdleTyped DEF PartyInv, Apiece, Asking
<1>3. ASSUME NEW x \in Party!Procs PROVE RequestOK(x, show[x])'
  <2>1. CASE x = p
    BY <1>0, <2>1, IdleOKNext DEF RequestOK, VisitorOK, EditOK, TickOK, Holds
  <2>2. CASE x # p
    <3>1. PICK q : q = show[x]
      OBVIOUS
    <3>2. /\ show'[x] = q /\ RequestOK(x, q) /\ q \in Party!Request /\ x # None
          /\ Asking(q) => q.b # k
          /\ q.pc = "insert" => Party!Sold' <= Party!Sold
      BY <1>0, <2>2, <3>1, Bounds DEF PartyInv
    <3>3. q.pc \in {"cancel", "insert"} => lock' = x
      BY <2>2, <3>2 DEF RequestOK
    <3>4. VisitorOK(q) => VisitorOK(q)'
      <4>1. q.pc = "insert" /\ q.size \in 1..MaxParty /\ event.cap # None => 
              (Party!Sold + q.size <= event.cap => Party!Sold' + q.size <= event.cap)
        <5>1. event.cap # None => event.cap \in Nat
          BY RowFields, Bounds DEF PartyInv
        <5>2. Party!Sold \in Nat /\ Party!Sold' \in Nat /\ (q.size \in 1..MaxParty => q.size \in Nat)
          BY SeatsCounted, SeatsCountedNext, Bounds DEF SeatsFinite
        <5> QED
          BY <3>2, <5>1, <5>2
      <4> QED
        BY <1>0, <3>2, <4>1 DEF VisitorOK, Asking
    <3>5. TickOK(q.row) => FALSE
      BY DEF TickOK
    <3>6. EditOK(q.row) => EditOK(q.row)'
      BY <1>0 DEF EditOK, Wider
    <3>7. RequestOK(x, q)'
      BY <3>2, <3>3, <3>4, <3>5, <3>6 DEF RequestOK
    <3> QED
      BY <3>2, <3>7 DEF RequestOK, VisitorOK, EditOK, TickOK, Holds
  <2> QED
    BY <2>1, <2>2
<1> QED
  BY <1>0, <1>1, <1>2, <1>3 DEF PartyInv

LEMMA InsertKeeps ==
  ASSUME PartyInv, NEW p \in Visitors, Party!BookInsert(p)
  PROVE  PartyInv'
<1>0. /\ p \in Party!Procs /\ p # None /\ p # Editor /\ p # Sched
      /\ show \in [Party!Procs -> Party!Request] /\ booking \in [Tickets -> Party!BookingRow]
  BY Bounds DEF PartyInv, Party!TypeOK
<1>1. PICK q \in Party!Request : q = show[p]
  BY <1>0
<1>2. q.pc = "insert" /\ lock = p /\ VisitorOK(q) /\ event.status = "published"
  BY <1>0, <1>1 DEF Party!BookInsert, PartyInv, RequestOK
<1>3. /\ q.b \in Tickets /\ booking[q.b].status = "none" /\ q.size \in 1..MaxParty /\ q.row.price = event.price
      /\ event.cap # None => Party!Sold + q.size <= event.cap
      /\ phase # 2
  BY <1>2 DEF VisitorOK
<1>4. PICK r \in Party!BookingRow : r = [status |-> "booked", size |-> q.size, price |-> q.row.price]
  <2>1. q.row.price \in Prices /\ q.size \in 0..MaxParty
    BY <1>1, <1>3, Bounds DEF Party!Request, Party!EventRow
  <2>2. [status |-> "booked", size |-> q.size, price |-> q.row.price] \in Party!BookingRow
    BY <2>1 DEF Party!BookingRow
  <2> QED
    BY <2>2
<1>5. /\ booking' = [booking EXCEPT ![q.b] = r] /\ lock' = None
      /\ show' = [show EXCEPT ![p] = Party!IdleReq] /\ UNCHANGED <<event, ticking, phase, eventFaults>>
  BY <1>1, <1>2, <1>4 DEF Party!BookInsert, Party!Go
<1>6. \A b \in Tickets \ {q.b} : booking'[b] = booking[b]
  BY <1>0, <1>5
<1>7. booking'[q.b] = r /\ r.size = q.size /\ r.price = event.price /\ r.status = "booked"
  BY <1>0, <1>3, <1>4, <1>5
<1>8. Party!Sold' <= Party!Sold + q.size
  BY <1>3, <1>6, <1>7, SeatsTaken
<1>9. event' = event
  BY <1>5
<1>10. Holds(event.cap)'
  <2>1. event.cap # None => event.cap \in Nat
    BY RowFields, Bounds DEF PartyInv
  <2>2. Party!Sold \in Nat /\ Party!Sold' \in Nat /\ q.size \in Nat
    BY <1>3, SeatsCounted, SeatsCountedNext, Bounds DEF SeatsFinite
  <2> QED
    BY <1>3, <1>8, <1>9, <2>1, <2>2 DEF Holds
<1>11. BookingsOK'
  <2>1. ASSUME NEW b \in Tickets, booking'[b].status = "booked" PROVE booking'[b].price = event.price
    BY <1>6, <1>7, <2>1 DEF PartyInv, BookingsOK, Party!Booked
  <2> QED
    BY <1>2, <1>9, <1>10, <2>1 DEF BookingsOK, Party!Booked
<1>12. ASSUME NEW x \in Party!Procs \ {p}
       PROVE  (Asking(show[x]) => show[x].b # q.b) /\ show[x].pc # "insert"
  BY <1>0, <1>1, <1>2 DEF PartyInv, Apiece, Asking, RequestOK
<1> QED
  BY <1>2, <1>3, <1>4, <1>5, <1>7, <1>10, <1>11, <1>12, BookingKeeps

LEMMA WithdrawKeeps ==
  ASSUME PartyInv, NEW p \in Visitors, Party!WithdrawSave(p)
  PROVE  PartyInv'
<1>0. /\ p \in Party!Procs /\ p # None
      /\ show \in [Party!Procs -> Party!Request] /\ booking \in [Tickets -> Party!BookingRow]
  BY Bounds DEF PartyInv, Party!TypeOK
<1>1. PICK q \in Party!Request : q = show[p]
  BY <1>0
<1>2. q.pc = "withdraw" /\ VisitorOK(q)
  BY <1>0, <1>1 DEF Party!WithdrawSave, PartyInv, RequestOK
<1>3. q.b \in Tickets /\ booking[q.b].status # "none" /\ phase # 2
  BY <1>2 DEF VisitorOK
<1>4. PICK r : r = [booking[q.b] EXCEPT !.status = "cancelled"]
  OBVIOUS
<1>5. r \in Party!BookingRow /\ r.status = "cancelled"
  BY <1>0, <1>3, <1>4 DEF Party!BookingRow
<1>6. /\ booking' = [booking EXCEPT ![q.b] = r]
      /\ show' = [show EXCEPT ![p] = Party!IdleReq] /\ UNCHANGED <<event, lock, ticking, phase, eventFaults>>
  BY <1>1, <1>4 DEF Party!WithdrawSave, Party!Go
<1>7. \A b \in Tickets : booking'[b].status = "booked" => booking'[b] = booking[b] /\ b # q.b
  BY <1>0, <1>5, <1>6
<1>8. Party!Sold' <= Party!Sold
  BY <1>7, SeatsFreed
<1>9. event' = event
  BY <1>6
<1>10. Holds(event.cap)'
  <2>1. event.cap # None => event.cap \in Nat
    BY RowFields, Bounds DEF PartyInv
  <2>2. Party!Sold \in Nat /\ Party!Sold' \in Nat
    BY SeatsCounted, SeatsCountedNext DEF SeatsFinite
  <2> QED
    BY <1>8, <1>9, <2>1, <2>2 DEF PartyInv, BookingsOK, Holds
<1>11. BookingsOK'
  <2>1. Party!Booked' \subseteq Party!Booked
    BY <1>7 DEF Party!Booked
  <2> QED
    BY <1>7, <1>9, <1>10, <2>1 DEF PartyInv, BookingsOK, Party!Booked
<1>12. ASSUME NEW x \in Party!Procs \ {p}
       PROVE  Asking(show[x]) => show[x].b # q.b
  <2>1. x \in Visitors => VisitorOK(show[x])
    BY DEF PartyInv, RequestOK
  <2>2. Asking(show[x]) => x \in Visitors
    BY DEF PartyInv, RequestOK, Asking, Party!Procs
  <2> QED
    BY <1>3, <2>1, <2>2 DEF VisitorOK, Asking
<1>13. r.status # "none" /\ lock' = lock
  BY <1>5, <1>6
<1>14. /\ UNCHANGED <<event, ticking, phase, eventFaults>> /\ booking' = [booking EXCEPT ![q.b] = r]
       /\ show' = [show EXCEPT ![p] = Party!IdleReq]
  BY <1>6
<1>15. \A x \in Party!Procs \ {p} :
         /\ Asking(show[x]) => show[x].b # q.b
         /\ show[x].pc = "insert" => Party!Sold' <= Party!Sold
  BY <1>8, <1>12
<1> QED
  BY <1>3, <1>5, <1>10, <1>11, <1>13, <1>14, <1>15, BookingKeeps

LEMMA ClockKeeps ==
  ASSUME PartyInv, Party!Clock
  PROVE  PartyInv'
<1>0. /\ UNCHANGED <<event, booking, lock, show, ticking, eventFaults>> /\ phase < 2 /\ phase' = phase + 1
      /\ phase = 1 => \A x \in Visitors : show[x].pc = "idle"
      /\ phase \in 0..2
  BY DEF Party!Clock, Party!Idle, PartyInv, Party!TypeOK
<1>1. Party!TypeOK'
  BY <1>0 DEF PartyInv, Party!TypeOK
<1>2. Party!Booked' = Party!Booked /\ Party!Sold' = Party!Sold
  BY <1>0 DEF Party!Booked, Party!Sold, Party!Seats
<1>3. BookingsOK' /\ Apiece'
  BY <1>0, <1>2 DEF PartyInv, BookingsOK, Holds, Apiece
<1>4. ASSUME NEW x \in Party!Procs PROVE RequestOK(x, show[x])'
  <2>1. PICK q : q = show[x]
    OBVIOUS
  <2>2. show'[x] = q /\ RequestOK(x, q)
    BY <1>0, <2>1 DEF PartyInv
  <2>3. ~TickOK(q.row)
    BY <1>0 DEF TickOK
  <2>4. EditOK(q.row) => EditOK(q.row)'
    BY <1>0 DEF EditOK, Wider
  <2>5. x \in Visitors /\ VisitorOK(q) => VisitorOK(q)'
    <3>1. x \in Visitors /\ phase' = 2 => q.pc = "idle"
      BY <1>0, <2>1
    <3> QED
      BY <1>0, <1>2, <3>1 DEF VisitorOK
  <2>6. RequestOK(x, q)'
    BY <1>0, <2>2, <2>3, <2>4, <2>5 DEF RequestOK
  <2> QED
    BY <2>2, <2>6 DEF RequestOK, VisitorOK, EditOK, TickOK, Holds
<1> QED
  BY <1>0, <1>1, <1>3, <1>4 DEF PartyInv

----------------------------------------------------------------------------
(* Requests that only read, one action at a time.                          *)
LEMMA EditorReads ==
  ASSUME PartyInv,
         \/ \E c \in Party!Capacity, pr \in Prices : Party!EditRead(Editor, c, pr)
         \/ Party!PublishRead(Editor) \/ Party!CancelLock(Editor)
  PROVE  PartyInv'
<1>0. /\ show[Editor].pc = "idle" /\ Editor \in Party!Procs /\ event \in Party!EventRow
      /\ UNCHANGED <<event, booking, ticking, phase, eventFaults>>
      /\ ticking \in BOOLEAN /\ eventFaults \in 0..MaxFaults
  BY Bounds DEF Party!EditRead, Party!PublishRead, Party!CancelLock, Party!Idle, PartyInv, Party!TypeOK
<1>1. ASSUME NEW new \in Party!EventRow, EditOK(new), UNCHANGED lock,
             show' = [show EXCEPT ![Editor] = [Party!IdleReq EXCEPT !.pc = "save", !.row = new]]
      PROVE  PartyInv'
  <2>1. PICK q : q = [Party!IdleReq EXCEPT !.pc = "save", !.row = new]
    OBVIOUS
  <2>2. q \in Party!Request /\ q.pc = "save" /\ q.row = new
    BY <1>1, <2>1, IdleTyped DEF Party!Request
  <2>3. EditOK(new)'
    BY <1>0, <1>1 DEF EditOK, Wider
  <2>4. RequestOK(Editor, q)'
    BY <2>2, <2>3, Bounds DEF RequestOK
  <2>5. lock' # None => event.status = "published"
    BY <1>1 DEF PartyInv
  <2> QED
    BY <1>0, <1>1, <2>1, <2>2, <2>4, <2>5, TalkKeeps DEF Asking
<1>2. ASSUME NEW c \in Party!Capacity, NEW pr \in Prices, Party!EditRead(Editor, c, pr) PROVE PartyInv'
  <2>1. PICK new : new = [event EXCEPT !.cap = c, !.price = pr]
    OBVIOUS
  <2>2. /\ new \in Party!EventRow /\ new.status = event.status /\ new.cap = c /\ new.price = pr
        /\ \A d \in Caps : d \in Nat
    BY <1>0, <1>2, <2>1, Bounds DEF Party!EventRow
  <2>3. Party!Editable(event, new) /\ event.cap \in Caps \cup {None} /\ c \in Caps \cup {None}
    BY <1>2, <2>1, RowFields DEF Party!EditRead, PartyInv, Party!Capacity
  <2>4. EditOK(new)
    BY <2>2, <2>3 DEF EditOK, Party!Editable, Party!RaisesOnly, Wider
  <2>5. UNCHANGED lock /\ show' = [show EXCEPT ![Editor] = [Party!IdleReq EXCEPT !.pc = "save", !.row = new]]
    BY <1>2, <2>1 DEF Party!EditRead, Party!Go
  <2> QED
    BY <1>1, <2>2, <2>4, <2>5
<1>3. ASSUME Party!PublishRead(Editor) PROVE PartyInv'
  <2>1. PICK new : new = [event EXCEPT !.status = "published"]
    OBVIOUS
  <2>2. /\ new \in Party!EventRow /\ new.status = "published" /\ new.cap = event.cap /\ new.price = event.price
        /\ \A d \in Caps : d \in Nat
    BY <1>0, <2>1, Bounds DEF Party!EventRow
  <2>3. EditOK(new)
    BY <2>2, RowFields DEF EditOK, Wider, PartyInv
  <2>4. UNCHANGED lock /\ show' = [show EXCEPT ![Editor] = [Party!IdleReq EXCEPT !.pc = "save", !.row = new]]
    BY <1>3, <2>1 DEF Party!PublishRead, Party!Go
  <2> QED
    BY <1>1, <2>2, <2>3, <2>4
<1>4. ASSUME Party!CancelLock(Editor) PROVE PartyInv'
  <2>1. PICK q : q = [Party!IdleReq EXCEPT !.pc = "cancel"]
    OBVIOUS
  <2>2. q \in Party!Request /\ q.pc = "cancel"
    BY <2>1, IdleTyped DEF Party!Request
  <2>3. lock = None /\ lock' = Editor /\ event.status = "published" /\ show' = [show EXCEPT ![Editor] = q]
    BY <1>4, <2>1 DEF Party!CancelLock, Party!Go
  <2>4. RequestOK(Editor, q)'
    BY <2>2, <2>3, Bounds DEF RequestOK
  <2> QED
    BY <1>0, <2>2, <2>3, <2>4, TalkKeeps DEF Asking
<1> QED
  BY <1>2, <1>3, <1>4

LEMMA GuestReads ==
  ASSUME PartyInv, NEW p \in Visitors,
         \/ \E b \in Tickets, n \in 0..(MaxParty + 1) : Party!BookStart(p, b, n)
         \/ \E b \in Tickets : Party!WithdrawRead(p, b)
         \/ Party!BookLock(p) \/ Party!BookRefused(p)
  PROVE  PartyInv'
<1>0. /\ p \in Party!Procs /\ p # Editor /\ p # Sched /\ show[p] \in Party!Request
      /\ UNCHANGED <<event, booking, ticking, phase, eventFaults>>
      /\ ticking \in BOOLEAN /\ eventFaults \in 0..MaxFaults
      /\ lock # None => event.status = "published"
  BY Bounds, RowFields
     DEF Party!BookStart, Party!WithdrawRead, Party!BookLock, Party!BookRefused, PartyInv, Party!TypeOK
<1>1. ASSUME NEW b \in Tickets, NEW n \in 0..(MaxParty + 1), Party!BookStart(p, b, n) PROVE PartyInv'
  <2>1. PICK q : q = [Party!IdleReq EXCEPT !.pc = "wait", !.b = b, !.size = n]
    OBVIOUS
  <2>2. q \in Party!Request /\ q.pc = "wait" /\ q.b = b
    BY <2>1, IdleTyped DEF Party!Request
  <2>3. /\ UNCHANGED lock /\ show' = [show EXCEPT ![p] = q] /\ phase = 0 /\ booking[b].status = "none"
        /\ \A x \in Party!Procs : show[x].b # q.b
    BY <1>1, <2>1, <2>2 DEF Party!BookStart, Party!Go
  <2>4. RequestOK(p, q)'
    BY <1>0, <2>2, <2>3 DEF RequestOK, VisitorOK
  <2> QED
    BY <1>0, <2>2, <2>3, <2>4, TalkKeeps
<1>2. ASSUME NEW b \in Tickets, Party!WithdrawRead(p, b) PROVE PartyInv'
  <2>1. PICK q : q = [Party!IdleReq EXCEPT !.pc = "withdraw", !.b = b]
    OBVIOUS
  <2>2. q \in Party!Request /\ q.pc = "withdraw" /\ q.b = b
    BY <2>1, IdleTyped DEF Party!Request
  <2>3. UNCHANGED lock /\ show' = [show EXCEPT ![p] = q] /\ phase = 0 /\ booking[b].status = "booked"
    BY <1>2, <2>1 DEF Party!WithdrawRead, Party!Go, Party!Booked
  <2>4. RequestOK(p, q)'
    BY <1>0, <2>2, <2>3 DEF RequestOK, VisitorOK
  <2> QED
    BY <1>0, <2>2, <2>3, <2>4, TalkKeeps DEF Asking
<1>3. ASSUME Party!BookLock(p) PROVE PartyInv'
  <2>0. PICK old \in Party!Request : old = show[p]
    BY <1>0
  <2>1. PICK q : q = [old EXCEPT !.pc = "insert", !.row = event]
    OBVIOUS
  <2>2. q \in Party!Request /\ q.pc = "insert" /\ q.b = old.b /\ q.size = old.size /\ q.row = event
    BY <2>1 DEF Party!Request, PartyInv, Party!TypeOK
  <2>3. /\ old.pc = "wait" /\ lock = None /\ lock' = p /\ old.size \in 1..MaxParty /\ event.status = "published"
        /\ event.cap # None => Party!Sold + old.size <= event.cap
        /\ show' = [show EXCEPT ![p] = q]
    BY <1>3, <2>0, <2>1 DEF Party!BookLock, Party!Go, Party!PartyAllowed, Party!Fits
  <2>4. old.b \in Tickets /\ booking[old.b].status = "none" /\ phase # 2
    BY <2>0, <2>3, <1>0 DEF PartyInv, RequestOK, VisitorOK
  <2>5. Party!Sold' = Party!Sold /\ event' = event /\ booking' = booking /\ phase' = phase
    BY <1>0 DEF Party!Sold, Party!Seats
  <2>6. VisitorOK(q)'
    BY <2>2, <2>3, <2>4, <2>5 DEF VisitorOK
  <2>7. RequestOK(p, q)'
    BY <1>0, <2>2, <2>3, <2>6 DEF RequestOK
  <2>8. Asking(show[p]) /\ q.b = show[p].b
    BY <2>0, <2>2, <2>3 DEF Asking
  <2> QED
    BY <1>0, <2>2, <2>3, <2>7, <2>8, TalkKeeps
<1>4. ASSUME Party!BookRefused(p) PROVE PartyInv'
  <2>1. UNCHANGED lock /\ show' = [show EXCEPT ![p] = Party!IdleReq]
    BY <1>4 DEF Party!BookRefused, Party!Go
  <2> QED
    BY <1>0, <2>1, IdleTyped, IdleOKNext, TalkKeeps DEF Asking
<1> QED
  BY <1>1, <1>2, <1>3, <1>4

LEMMA TickReads ==
  ASSUME PartyInv, Party!TickRead \/ Party!TickFail
  PROVE  PartyInv'
<1>0. /\ Sched \in Party!Procs /\ UNCHANGED <<event, booking, lock, phase>> /\ event \in Party!EventRow
      /\ lock # None => event.status = "published"
  BY Bounds DEF Party!TickRead, Party!TickFail, PartyInv, Party!TypeOK
<1>1. CASE Party!TickRead
  <2>1. PICK new : new = [event EXCEPT !.status = "completed"]
    OBVIOUS
  <2>2. /\ new \in Party!EventRow /\ new.status = "completed" /\ new.cap = event.cap /\ new.price = event.price
        /\ \A d \in Caps : d \in Nat
    BY <1>0, <2>1, Bounds DEF Party!EventRow
  <2>3. PICK q : q = [Party!IdleReq EXCEPT !.pc = "save", !.row = new]
    OBVIOUS
  <2>4. q \in Party!Request /\ q.pc = "save" /\ q.row = new
    BY <2>2, <2>3, IdleTyped DEF Party!Request
  <2>5. /\ event.status = "published" /\ phase = 2 /\ show' = [show EXCEPT ![Sched] = q]
        /\ ticking' \in BOOLEAN /\ UNCHANGED eventFaults
    BY <1>1, <2>1, <2>3 DEF Party!TickRead, Party!Go
  <2>6. Wider(event.cap, new.cap) /\ Holds(new.cap)
    BY <2>2, RowFields DEF PartyInv, Wider, BookingsOK, Holds
  <2>7. TickOK(new)
    BY <2>2, <2>5, <2>6 DEF TickOK
  <2>8. TickOK(new)'
    BY <1>0, <2>7 DEF TickOK, Wider, Holds, Party!Sold, Party!Seats
  <2>9. RequestOK(Sched, q)'
    BY <2>4, <2>8, Bounds DEF RequestOK
  <2>10. eventFaults' \in 0..MaxFaults
    BY <2>5 DEF PartyInv, Party!TypeOK
  <2> QED
    BY <1>0, <2>4, <2>5, <2>9, <2>10, TalkKeeps DEF Asking
<1>2. CASE Party!TickFail
  <2>1. show' = [show EXCEPT ![Sched] = Party!IdleReq] /\ ticking' \in BOOLEAN
    BY <1>2 DEF Party!TickFail, Party!Go
  <2>2. eventFaults' \in 0..MaxFaults
    BY <1>2, Bounds DEF Party!TickFail, PartyInv, Party!TypeOK
  <2> QED
    BY <1>0, <2>1, <2>2, IdleTyped, IdleOKNext, TalkKeeps DEF Asking
<1> QED
  BY <1>1, <1>2

LEMMA PartyInit == Party!Init => PartyInv
<1> SUFFICES ASSUME Party!Init PROVE PartyInv
  OBVIOUS
<1>1. Party!AnyPrice \in Prices
  BY Bounds DEF Party!AnyPrice
<1>2. Party!NoBooking \in Party!BookingRow /\ Party!NoBooking.status = "none"
  BY <1>1, Bounds DEF Party!NoBooking, Party!BookingRow
<1>3. Party!TypeOK
  <2>1. event \in Party!EventRow
    BY DEF Party!Init, Party!EventRow
  <2>2. booking \in [Tickets -> Party!BookingRow] /\ show \in [Party!Procs -> Party!Request]
    BY <1>2, IdleTyped DEF Party!Init
  <2>3. 0 \in 0..MaxFaults /\ 0 \in 0..2
    BY Bounds
  <2> QED
    BY <2>1, <2>2, <2>3 DEF Party!Init, Party!TypeOK
<1>4. Party!Booked = {}
  BY <1>2 DEF Party!Init, Party!Booked
<1>5. event.cap # None => event.cap \in Nat
  BY <1>3, RowFields, Bounds
<1>6. event.cap # None => Party!Sold <= event.cap
  BY <1>4, <1>5, SeatsCounted DEF SeatsFinite
<1>7. BookingsOK
  BY <1>4, <1>6 DEF BookingsOK, Holds
<1>8. \A p \in Party!Procs : show[p] = Party!IdleReq
  BY DEF Party!Init
<1> QED
  BY <1>3, <1>7, <1>8, IdleOK, IdleTyped DEF PartyInv, Apiece, Asking, Party!Init

LEMMA PartyStep == PartyInv /\ [Party!Next]_partyVars => PartyInv'
<1> SUFFICES ASSUME PartyInv, [Party!Next]_partyVars PROVE PartyInv'
  OBVIOUS
<1>1. CASE UNCHANGED partyVars
  <2>1. UNCHANGED <<event, booking, lock, show, ticking, phase, eventFaults>>
    BY <1>1 DEF partyVars
  <2>2. Party!TypeOK'
    BY <2>1 DEF PartyInv, Party!TypeOK
  <2> QED
    BY <2>1, <2>2 DEF PartyInv, BookingsOK, Apiece, Asking, RequestOK, EditOK, TickOK, VisitorOK, Holds, Wider,
                      Party!Booked, Party!Sold, Party!Seats
<1>2. CASE Party!Begin
  BY <1>2, EditorReads, GuestReads DEF Party!Begin
<1>3. ASSUME NEW p \in {Editor} \cup Visitors, Party!Continue(p) PROVE PartyInv'
  <2>1. RequestOK(p, show[p]) /\ p # Sched
    BY Bounds DEF PartyInv
  <2>2. CASE p = Editor
    <3>1. Party!SaveEvent(Editor) \/ Party!CancelCommit(Editor)
      BY <1>3, <2>1, <2>2 DEF Party!Continue, RequestOK, Party!BookLock, Party!BookRefused, Party!BookInsert,
                              Party!WithdrawSave
    <3>2. CASE Party!SaveEvent(Editor)
      <4>1. ticking' \in BOOLEAN
        BY <3>2 DEF Party!SaveEvent, PartyInv, Party!TypeOK
      <4> QED
        BY <3>2, <4>1, SaveKeeps DEF Party!SaveEvent, Party!SaveRow, Party!Go
    <3> QED
      BY <3>1, <3>2, CancelKeeps
  <2>3. CASE p \in Visitors
    <3>1. Party!BookLock(p) \/ Party!BookRefused(p) \/ Party!BookInsert(p) \/ Party!WithdrawSave(p)
      BY <1>3, <2>1, <2>3, Bounds DEF Party!Continue, RequestOK, Party!SaveEvent, Party!CancelCommit
    <3> QED
      BY <2>3, <3>1, GuestReads, InsertKeeps, WithdrawKeeps
  <2> QED
    BY <2>2, <2>3
<1>4. CASE Party!TickSave
  BY <1>4, SaveKeeps DEF Party!TickSave, Party!SaveRow, Party!Go
<1> QED
  BY <1>1, <1>2, <1>3, <1>4, TickReads, ClockKeeps DEF Party!Next

(* What the behaviours of MCLive say of the event.                         *)
LEMMA PartySteps == MCSpec => Party!Init /\ [][Party!Next]_partyVars
<1>1. MCInit => Party!Init
  BY DEF MCInit
<1>2. [MCNext]_allVars => [Party!Next]_partyVars
  BY DEF MCNext, Apart, allVars
<1> QED
  BY <1>1, <1>2, PTL DEF MCSpec

(* One editor at a time, any number of guests: the seats sold never exceed *)
(* the capacity the event shows, because book counts them under the lock   *)
(* of the event row and no save can bring a smaller capacity back.         *)
THEOREM SeatsStaySold == MCSpec => []NeverOverbooked
<1>1. PartyInv => NeverOverbooked
  BY DEF PartyInv, BookingsOK, Holds, NeverOverbooked, Party!NeverOverbooked
<1> QED
  BY <1>1, PartyInit, PartyStep, PartySteps, PTL

(* A cancelled event keeps no booking and gets none later, and nobody who  *)
(* holds a booking pays another price than the event shows.                *)
THEOREM BookingsAreKept == MCSpec => []BookingsStand
<1>1. PartyInv => BookingsStand
  BY DEF PartyInv, BookingsOK, BookingsStand, Party!BookingsStand
<1> QED
  BY <1>1, PartyInit, PartyStep, PartySteps, PTL

----------------------------------------------------------------------------
(* Mails. *)
Workers == Queuers \cup {Poller}
Trials == {"prepare", "send", "success", "failure", "obsolete"}

TryRow == [pc: Trials, key: Mails, row: Post!Row, copy: Post!Copies, fresh: BOOLEAN]
TryTyped(a) == a = Post!Free \/ a \in TryRow

Busied(a, m) == a.pc # "idle" /\ a.key = m
Credits(a, m) == a.pc = "success" /\ a.key = m

MailTyped ==
  /\ row \in [Mails -> Post!Row] /\ copies \in [Mails -> Seq(Post!Copies)] /\ waits \subseteq Mails
  /\ DOMAIN batch \subseteq Mails /\ \A m \in DOMAIN batch : batch[m] \in Post!Row
  /\ try = [p \in Workers |-> try[p]] /\ \A p \in Workers : TryTyped(try[p])

PollerOK ==
  /\ ~sending => try[Poller] = Post!Free /\ DOMAIN batch = {}
  /\ try[Poller].key \notin DOMAIN batch

OneHolder == \A m \in Mails \ raced : \A p, q \in Workers : Post!HeldBy(p, m) /\ Post!HeldBy(q, m) => p = q

(* What an attempt at a mail believes, and what the table says of it.      *)
TryOK(a, m) ==
  /\ a.row = row[m] /\ row[m].status # "none"
  /\ a.pc # "prepare" => row[m].status = "pending"
  /\ a.pc = "success" => Len(copies[m]) = 1

MailOK(m) ==
  /\ \A p \in Workers : Busied(try[p], m) => TryOK(try[p], m)
  /\ m \in DOMAIN batch => batch[m] = row[m] /\ row[m].status = "pending"
  /\ row[m].status = "none" => copies[m] = <<>>
  /\ row[m].status = "pending" => /\ row[m].tries < MaxTries
                                  /\ (\A p \in Workers : ~Credits(try[p], m)) => copies[m] = <<>>
  /\ row[m].status = "sent" => Len(copies[m]) = 1
  /\ row[m].status = "failed" => copies[m] = <<>> /\ row[m].tries <= MaxTries

MailInv ==
  /\ MailTyped /\ PollerOK /\ OneHolder
  /\ \A m \in Mails \ (raced \cup lost) : MailOK(m)

Decided(m) == row[m].status \in {"sent", "failed"}

LEMMA MailBounds ==
  /\ MaxTries \in Nat /\ MaxTries > 0 /\ Kinds \subseteq Post!Types /\ Occasions \subseteq Mails
  /\ Poller \notin Queuers /\ Poller \in Workers /\ None \notin Mails
BY ScenesAssumption DEF Post!Parameters, Workers

LEMMA FreeIs == Post!Free.pc = "idle" /\ Post!Free.key = None /\ TryTyped(Post!Free)
BY DEF Post!Free, TryTyped

LEMMA TryFields ==
  ASSUME MailTyped, NEW p \in Workers, try[p].pc # "idle"
  PROVE  /\ try[p].pc \in Trials /\ try[p].key \in Mails /\ try[p].row \in Post!Row
         /\ try[p].copy \in Post!Copies /\ try[p] \in TryRow
BY FreeIs DEF MailTyped, TryTyped, TryRow

LEMMA HolderOne ==
  ASSUME Post!Noting, OneHolder
  PROVE  OneHolder' /\ raced \subseteq raced'
BY DEF Post!Noting, Post!Colliding, OneHolder, Workers

(* The new row, copies and attempt of a mail, where nothing went astray.   *)
Believed(a, r, c, k) ==
  /\ a.pc # "idle" => a.row = r /\ r.status # "none"
  /\ a.pc \notin {"idle", "prepare"} => r.status = "pending"
  /\ a.pc = "success" => Len(c) = 1
  /\ r.status = "none" => c = <<>>
  /\ r.status = "pending" => r.tries < MaxTries /\ (a.pc # "success" => c = <<>>)
  /\ r.status = "sent" => Len(c) = 1
  /\ r.status = "failed" => c = <<>> /\ r.tries <= MaxTries
  /\ Decided(k) => r = row[k]

(* A worker goes on with its mail: the row, the copies or the batch may    *)
(* change, and what is believed of the mail holds unless it was shared or  *)
(* its outcome lost.                                                       *)
LEMMA WorkStep ==
  ASSUME MailInv, Post!Noting, lost \subseteq lost',
         NEW p \in Workers, NEW k \in Mails, NEW a, NEW r \in Post!Row, NEW c \in Seq(Post!Copies),
         TryTyped(a), a.pc # "idle" => a.key = k,
         try[p].pc # "idle" => try[p].key = k,
         try' = [try EXCEPT ![p] = a], row' = [row EXCEPT ![k] = r], copies' = [copies EXCEPT ![k] = c],
         waits' \subseteq Mails, PollerOK',
         DOMAIN batch' \subseteq DOMAIN batch, \A m \in DOMAIN batch' : batch'[m] = batch[m],
         k \notin raced' \cup lost' => /\ Believed(a, r, c, k)
                                       /\ \A q \in Workers \ {p} : ~Busied(try[q], k)
                                       /\ k \notin DOMAIN batch'
  PROVE  MailInv' /\ \A m \in Mails \ (raced' \cup lost') : Decided(m) => row'[m] = row[m]
<1>9. k \notin raced' \cup lost' => k \notin DOMAIN batch'
  OBVIOUS
<1> USE DEF Believed
<1>0. /\ try = [q \in Workers |-> try[q]] /\ row \in [Mails -> Post!Row] /\ copies \in [Mails -> Seq(Post!Copies)]
  BY DEF MailInv, MailTyped
<1>1. /\ try' = [q \in Workers |-> IF q = p THEN a ELSE try[q]]
      /\ \A m \in Mails : row'[m] = (IF m = k THEN r ELSE row[m]) /\ copies'[m] = (IF m = k THEN c ELSE copies[m])
  BY <1>0
<1>2. MailTyped'
  <2>1. \A q \in Workers : TryTyped(try'[q])
    BY <1>1 DEF MailInv, MailTyped
  <2>2. \A q \in Workers : TryTyped(try[q])'
    BY <2>1 DEF TryTyped
  <2>3. try' = [q \in Workers |-> try'[q]]
    BY <1>1
  <2>4. row' \in [Mails -> Post!Row] /\ copies' \in [Mails -> Seq(Post!Copies)]
    BY <1>0
  <2> QED
    BY <2>2, <2>3, <2>4 DEF MailInv, MailTyped
<1>3. OneHolder' /\ raced \subseteq raced'
  BY HolderOne DEF MailInv
<1>4. ASSUME NEW m \in Mails, m \notin raced' \cup lost'
      PROVE  MailOK(m)' /\ (Decided(m) => row'[m] = row[m])
  <2>1. m \notin raced \cup lost /\ MailOK(m)
    BY <1>3, <1>4 DEF MailInv
  <2>2. CASE m = k
    <3>0. m \notin DOMAIN batch'
      BY <1>4, <1>9, <2>2
    <3>1. row'[m] = r /\ copies'[m] = c /\ m \notin DOMAIN batch'
      BY <1>1, <2>2, <3>0
    <3>2. ASSUME NEW q \in Workers, q # p PROVE ~Busied(try'[q], m)
      BY <1>1, <1>4, <2>2, <3>2 DEF Busied
    <3>3. try'[p] = a
      BY <1>1
    <3>4. ASSUME NEW q \in Workers, Busied(try'[q], m)
          PROVE  /\ try'[q].row = row'[m] /\ row'[m].status # "none"
                 /\ try'[q].pc # "prepare" => row'[m].status = "pending"
                 /\ try'[q].pc = "success" => Len(copies'[m]) = 1
      BY <1>4, <2>2, <3>1, <3>2, <3>3, <3>4 DEF Busied
    <3>5. r.status = "pending" /\ (\A q \in Workers : ~Credits(try'[q], m)) => c = <<>>
      <4>1. a.pc = "success" => Credits(try'[p], m)
        BY <2>2, <3>3 DEF Credits
      <4> QED
        BY <1>4, <2>2, <4>1
    <3>6. MailOK(m)'
      BY <1>4, <2>2, <3>1, <3>4, <3>5 DEF MailOK, TryOK, Busied, Credits
    <3> QED
      BY <1>4, <2>2, <3>1, <3>6
  <2>3. CASE m # k
    <3>1. row'[m] = row[m] /\ copies'[m] = copies[m]
      BY <1>1, <2>3
    <3>2. ASSUME NEW q \in Workers
          PROVE  /\ Busied(try'[q], m) => Busied(try[q], m) /\ try'[q] = try[q]
                 /\ Credits(try[q], m) => Credits(try'[q], m)
      <4>1. CASE q = p
        BY <1>1, <2>3, <4>1 DEF Busied, Credits
      <4>2. CASE q # p
        BY <1>1, <4>2
      <4> QED
        BY <4>1, <4>2
    <3>3. ASSUME NEW q \in Workers, Busied(try'[q], m)
          PROVE  /\ try'[q].row = row'[m] /\ row'[m].status # "none"
                 /\ try'[q].pc # "prepare" => row'[m].status = "pending"
                 /\ try'[q].pc = "success" => Len(copies'[m]) = 1
      BY <2>1, <3>1, <3>2, <3>3 DEF MailOK, TryOK
    <3>4. m \in DOMAIN batch' => batch'[m] = row'[m] /\ row'[m].status = "pending"
      BY <2>1, <3>1 DEF MailOK
    <3>5. (\A q \in Workers : ~Credits(try'[q], m)) => (\A q \in Workers : ~Credits(try[q], m))
      BY <3>2
    <3>6. MailOK(m)'
      BY <2>1, <3>1, <3>3, <3>4, <3>5 DEF MailOK, TryOK, Busied, Credits
    <3> QED
      BY <3>1, <3>6
  <2> QED
    BY <2>2, <2>3
<1> QED
  BY <1>2, <1>3, <1>4 DEF MailInv

(* Between the attempts: rows and copies stay, holders only let go.        *)
LEMMA IdleStep ==
  ASSUME MailInv, Post!Noting, lost \subseteq lost', row' = row, copies' = copies,
         waits' \subseteq Mails, PollerOK',
         DOMAIN batch' \subseteq Mails, \A m \in DOMAIN batch' :
           (batch'[m] = row[m] /\ row[m].status = "pending") \/ (m \in DOMAIN batch /\ batch'[m] = batch[m]),
         try' = try
           \/ /\ try' = [p \in Workers |-> Post!Free]
              /\ \A p \in Workers : try[p].pc # "idle" => try[p].key \in lost'
  PROVE  MailInv' /\ \A m \in Mails \ (raced' \cup lost') : Decided(m) => row'[m] = row[m]
<1>0. try = [q \in Workers |-> try[q]] /\ row \in [Mails -> Post!Row]
  BY DEF MailInv, MailTyped
<1>1. MailTyped'
  <2>1. \A q \in Workers : TryTyped(try'[q])
    BY FreeIs DEF MailInv, MailTyped
  <2>2. \A q \in Workers : TryTyped(try[q])'
    BY <2>1 DEF TryTyped
  <2>3. try' = [q \in Workers |-> try'[q]]
    BY <1>0
  <2>4. \A m \in DOMAIN batch' : batch'[m] \in Post!Row
    BY <1>0 DEF MailInv, MailTyped
  <2> QED
    BY <2>2, <2>3, <2>4 DEF MailInv, MailTyped
<1>2. OneHolder' /\ raced \subseteq raced'
  BY HolderOne DEF MailInv
<1>3. ASSUME NEW m \in Mails, m \notin raced' \cup lost' PROVE MailOK(m)'
  <2>1. MailOK(m)
    BY <1>2, <1>3 DEF MailInv
  <2>2. ASSUME NEW q \in Workers
        PROVE  /\ Busied(try'[q], m) => Busied(try[q], m) /\ try'[q] = try[q]
               /\ Credits(try[q], m) => Credits(try'[q], m)
    BY <1>3, FreeIs DEF Busied, Credits
  <2>3. ASSUME NEW q \in Workers, Busied(try'[q], m)
        PROVE  /\ try'[q].row = row'[m] /\ row'[m].status # "none"
               /\ try'[q].pc # "prepare" => row'[m].status = "pending"
               /\ try'[q].pc = "success" => Len(copies'[m]) = 1
    BY <2>1, <2>2, <2>3 DEF MailOK, TryOK
  <2>4. m \in DOMAIN batch' => batch'[m] = row'[m] /\ row'[m].status = "pending"
    BY <2>1 DEF MailOK
  <2>5. (\A q \in Workers : ~Credits(try'[q], m)) => (\A q \in Workers : ~Credits(try[q], m))
    BY <2>2
  <2> QED
    BY <2>1, <2>3, <2>4, <2>5 DEF MailOK, TryOK, Busied, Credits
<1> QED
  BY <1>1, <1>2, <1>3 DEF MailInv

LEMMA SoleHolder ==
  ASSUME MailInv, NEW p \in Workers, try[p].pc # "idle", try[p].key \notin raced
  PROVE  /\ \A q \in Workers \ {p} : ~Busied(try[q], try[p].key)
         /\ try[p].key \notin DOMAIN batch
<1>1. try[p].key \in Mails
  BY TryFields DEF MailInv
<1>2. Post!HeldBy(p, try[p].key)
  BY DEF Post!HeldBy, Post!Idle
<1>3. \A q \in Workers : Post!HeldBy(q, try[p].key) => q = p
  BY <1>1, <1>2 DEF MailInv, OneHolder
<1>4. ASSUME NEW q \in Workers \ {p} PROVE ~Busied(try[q], try[p].key)
  BY <1>3 DEF Busied, Post!HeldBy, Post!Idle
<1>5. try[p].key \in DOMAIN batch => p = Poller
  BY <1>3, MailBounds DEF Post!HeldBy
<1>6. try[p].key \notin DOMAIN batch
  BY <1>5 DEF MailInv, PollerOK
<1> QED
  BY <1>4, <1>6

(* What is known of the mail that an attempt alone holds.                  *)
LEMMA TryKnows ==
  ASSUME MailInv, NEW p \in Workers, try[p].pc # "idle", NEW k \in Mails, k = try[p].key,
         k \notin raced \cup lost
  PROVE  /\ MailOK(k) /\ TryOK(try[p], k)
         /\ row[k].status = "pending" /\ try[p].pc # "success" => copies[k] = <<>>
<1>1. MailOK(k)
  BY DEF MailInv
<1>2. TryOK(try[p], k)
  BY <1>1 DEF MailOK, Busied
<1>3. ASSUME try[p].pc # "success", NEW q \in Workers PROVE ~Credits(try[q], k)
  BY <1>3, SoleHolder DEF Credits, Busied
<1> QED
  BY <1>1, <1>2, <1>3 DEF MailOK

(* A worker that has finished is free, and the poller's flag is as it was. *)
LEMMA PollerFreed ==
  ASSUME MailInv, NEW p \in Workers, try' = [try EXCEPT ![p] = Post!Free], UNCHANGED <<batch, sending>>
  PROVE  PollerOK'
<1>1. Poller \in Workers /\ DOMAIN batch \subseteq Mails /\ None \notin Mails
  BY MailBounds DEF MailInv, MailTyped
<1>2. try'[Poller] = Post!Free \/ try'[Poller] = try[Poller]
  BY <1>1 DEF MailInv, MailTyped
<1> QED
  BY <1>1, <1>2, FreeIs DEF MailInv, PollerOK

(* So it is while a worker that has a mail goes on with it.                *)
LEMMA PollerGoesOn ==
  ASSUME MailInv, NEW p \in Workers, try[p].pc # "idle", NEW a, a.key = try[p].key,
         try' = [try EXCEPT ![p] = a], UNCHANGED <<batch, sending>>
  PROVE  PollerOK'
<1>1. Poller \in Workers /\ try'[Poller] = IF Poller = p THEN a ELSE try[Poller]
  BY MailBounds DEF MailInv, MailTyped
<1>2. Poller = p => sending
  BY FreeIs DEF MailInv, PollerOK
<1> QED
  BY <1>1, <1>2 DEF MailInv, PollerOK

LEMMA RowsThere ==
  ASSUME MailInv, NEW m \in Mails
  PROVE  /\ row[m] \in Post!Row /\ copies[m] \in Seq(Post!Copies)
         /\ row = [row EXCEPT ![m] = row[m]] /\ copies = [copies EXCEPT ![m] = copies[m]]
         /\ row[m].tries \in Nat /\ row[m].status \in {"none", "pending", "sent", "failed"}
BY DEF MailInv, MailTyped, Post!Row

StepKeeps == MailInv' /\ \A m \in Mails \ (raced' \cup lost') : Decided(m) => row'[m] = row[m]

LEMMA QueueKeeps ==
  ASSUME MailInv, Post!Noting, NEW p \in Queuers, Post!Queue(p)
  PROVE  StepKeeps
<1>0. p \in Workers /\ p # Poller /\ try = [q \in Workers |-> try[q]]
  BY MailBounds DEF Workers, MailInv, MailTyped
<1>1. ASSUME NEW m \in Mails, NEW r \in Post!Row, NEW f \in BOOLEAN, try[p].pc = "idle", row[m].status = "none",
             r.status \in {"pending", "failed"}, r.tries = 0,
             row' = [row EXCEPT ![m] = r], Post!Start(p, m, r, f), waits' \subseteq Mails,
             UNCHANGED <<batch, sending, copies, lost>>
      PROVE  StepKeeps
  <2>1. PICK a : a = [pc |-> "prepare", key |-> m, row |-> r, copy |-> "plain", fresh |-> f]
    OBVIOUS
  <2>2. a.pc = "prepare" /\ a.key = m /\ a.row = r /\ TryTyped(a)
    BY <2>1 DEF TryTyped, TryRow, Trials, Post!Copies
  <2>3. try' = [try EXCEPT ![p] = a]
    BY <1>1, <2>1 DEF Post!Start
  <2>4. PollerOK'
    BY <1>0, <1>1, <2>3, MailBounds DEF MailInv, PollerOK, MailTyped
  <2>5. ASSUME m \notin raced' \cup lost'
        PROVE  copies[m] = <<>> /\ (\A q \in Workers : ~Busied(try[q], m)) /\ m \notin DOMAIN batch
    <3>1. MailOK(m)
      BY <1>1, <2>5, HolderOne DEF MailInv
    <3> QED
      BY <1>1, <3>1 DEF MailOK, TryOK
  <2>6. copies' = [copies EXCEPT ![m] = copies[m]] /\ copies[m] \in Seq(Post!Copies)
    BY <1>1, RowsThere
  <2>7. DOMAIN batch' \subseteq DOMAIN batch /\ (\A x \in DOMAIN batch' : batch'[x] = batch[x]) /\ lost \subseteq lost'
    BY <1>1
  <2>8. m \notin raced' \cup lost' => /\ Believed(a, r, copies[m], m)
                                      /\ \A q \in Workers \ {p} : ~Busied(try[q], m)
                                      /\ m \notin DOMAIN batch'
    BY <1>1, <2>2, <2>5, MailBounds DEF Decided, Believed
  <2> QED
    BY <1>0, <1>1, <2>2, <2>3, <2>4, <2>6, <2>7, <2>8, WorkStep DEF StepKeeps
<1>2. ASSUME NEW m \in Mails, NEW kind \in Kinds, Post!Enqueue(p, m, kind) PROVE StepKeeps
  <2>1. PICK r : r = [status |-> "pending", kind |-> kind, tries |-> 0]
    OBVIOUS
  <2>2. r \in Post!Row /\ r.status = "pending" /\ r.tries = 0
    BY <2>1, MailBounds DEF Post!Row
  <2>3. /\ try[p].pc = "idle" /\ row[m].status = "none" /\ row' = [row EXCEPT ![m] = r] /\ Post!Start(p, m, r, TRUE)
        /\ UNCHANGED <<batch, sending, copies, lost>>
    BY <1>2, <2>1 DEF Post!Enqueue, Post!Idle
  <2>4. waits' \subseteq Mails
    BY <1>2 DEF Post!Enqueue, MailInv, MailTyped
  <2> QED
    BY <1>1, <2>2, <2>3, <2>4
<1>3. ASSUME NEW m \in Mails, NEW o \in Mails, Post!Resend(p, o, m) PROVE StepKeeps
  <2>1. PICK r : r = [status |-> IF row[o].kind \in Post!Secrets THEN "failed" ELSE "pending",
                      kind |-> row[o].kind, tries |-> 0]
    OBVIOUS
  <2>2. r \in Post!Row /\ r.status \in {"pending", "failed"} /\ r.tries = 0
    BY <2>1, RowsThere DEF Post!Row
  <2>3. /\ try[p].pc = "idle" /\ row[m].status = "none" /\ row' = [row EXCEPT ![m] = r] /\ Post!Start(p, m, r, FALSE)
        /\ UNCHANGED <<batch, sending, copies, lost>>
    BY <1>3, <2>1 DEF Post!Resend, Post!Idle
  <2>4. waits' \subseteq Mails
    BY <1>3 DEF Post!Resend, MailInv, MailTyped
  <2> QED
    BY <1>1, <2>2, <2>3, <2>4
<1> QED
  BY <1>2, <1>3 DEF Post!Queue

(* A step of an attempt: what it stores and whether it goes on.            *)
LEMMA AttemptStep ==
  ASSUME MailInv, Post!Noting, lost \subseteq lost',
         NEW p \in Workers, try[p].pc # "idle", NEW k \in Mails, k = try[p].key,
         NEW a, a = Post!Free \/ (TryTyped(a) /\ a.key = k),
         NEW r \in Post!Row, NEW c \in Seq(Post!Copies),
         try' = [try EXCEPT ![p] = a], row' = [row EXCEPT ![k] = r], copies' = [copies EXCEPT ![k] = c],
         waits' \subseteq Mails, UNCHANGED <<batch, sending>>,
         k \notin raced' \cup lost' => Believed(a, r, c, k)
  PROVE  StepKeeps
<1>1. PollerOK'
  BY PollerFreed, PollerGoesOn, FreeIs
<1>2. k \notin raced' \cup lost' =>
        /\ \A q \in Workers \ {p} : ~Busied(try[q], k)
        /\ k \notin DOMAIN batch'
  <2>1. k \notin raced' => k \notin raced
    BY HolderOne DEF MailInv
  <2> QED
    BY <2>1, SoleHolder
<1>3. TryTyped(a) /\ (a.pc # "idle" => a.key = k)
  BY FreeIs
<1>4. DOMAIN batch' \subseteq DOMAIN batch /\ \A m \in DOMAIN batch' : batch'[m] = batch[m]
  OBVIOUS
<1> QED
  BY <1>1, <1>2, <1>3, <1>4, WorkStep DEF StepKeeps

LEMMA AfterRow ==
  ASSUME NEW r \in Post!Row, NEW terminal \in BOOLEAN
  PROVE  Post!AfterFailure(r, terminal) \in Post!Row
<1>1. r.tries + 1 \in Nat
  BY DEF Post!Row
<1>2. PICK s \in {"none", "pending", "sent", "failed"} :
        s = IF terminal \/ r.tries + 1 >= MaxTries THEN "failed" ELSE r.status
  BY DEF Post!Row
<1>3. Post!AfterFailure(r, terminal) = [r EXCEPT !.tries = r.tries + 1, !.status = s]
  BY <1>2 DEF Post!AfterFailure
<1> QED
  BY <1>1, <1>2, <1>3 DEF Post!Row

LEMMA AttemptKeeps ==
  ASSUME MailInv, Post!Noting, NEW p \in Workers, Post!Attempt(p)
  PROVE  StepKeeps
<1>0. PICK old : old = try[p]
  OBVIOUS
<1>1. old.pc \in Trials /\ old.pc # "idle" /\ try[p].pc # "idle"
  BY <1>0, TryFields, FreeIs
     DEF Post!Attempt, Post!Prepare, Post!Deliver, Post!Reject, Post!RecordSuccess, Post!RecordFailure, Trials
<1>2. old \in TryRow
  BY <1>0, <1>1, TryFields DEF MailInv
<1>3. /\ old.key \in Mails /\ old.row \in Post!Row /\ old.copy \in Post!Copies
  BY <1>0, <1>1, TryFields DEF MailInv
<1>4. PICK k \in Mails : k = old.key
  BY <1>3
<1>5. /\ row[k] \in Post!Row /\ copies[k] \in Seq(Post!Copies)
      /\ row = [row EXCEPT ![k] = row[k]] /\ copies = [copies EXCEPT ![k] = copies[k]]
      /\ row[k].tries \in Nat /\ row[k].status \in {"none", "pending", "sent", "failed"}
  BY RowsThere
<1>6. ASSUME k \notin raced' \cup lost
      PROVE  /\ MailOK(k) /\ old.row = row[k] /\ row[k].status # "none"
             /\ old.pc # "prepare" => row[k].status = "pending"
             /\ old.pc = "success" => Len(copies[k]) = 1
             /\ row[k].status = "pending" /\ old.pc # "success" => copies[k] = <<>>
             /\ row[k].status = "pending" => row[k].tries < MaxTries
             /\ row[k].status = "sent" => Len(copies[k]) = 1
             /\ row[k].status = "failed" => copies[k] = <<>> /\ row[k].tries <= MaxTries
  <2>1. k \notin raced \cup lost
    BY <1>6, HolderOne DEF MailInv
  <2> QED
    BY <1>0, <1>1, <1>4, <2>1, TryKnows DEF TryOK, MailOK
<1>7. waits \subseteq Mails /\ try[p].pc # "idle" /\ k = try[p].key
  BY <1>0, <1>1, <1>4 DEF MailInv, MailTyped
<1>8. CASE Post!Prepare(p)
  <2>0. old.pc = "prepare" /\ UNCHANGED <<waits, batch, sending, copies, lost>>
    BY <1>0, <1>8 DEF Post!Prepare
  <2>9. copies' = [copies EXCEPT ![k] = copies[k]] /\ lost \subseteq lost' /\ waits' \subseteq Mails
    BY <1>5, <1>7, <2>0
  <2>1. CASE old.row.status # "pending"
    <3>1. try' = [try EXCEPT ![p] = Post!Free] /\ row' = row
      BY <1>0, <1>8, <2>1 DEF Post!Prepare
    <3>2. k \notin raced' \cup lost' => row[k].status # "pending" /\ row[k].status # "none"
      BY <1>6, <2>0, <2>1
    <3>3. k \notin raced' \cup lost' => Believed(Post!Free, row[k], copies[k], k)
      BY <1>6, <2>0, <3>2, FreeIs DEF Believed
    <3>4. row' = [row EXCEPT ![k] = row[k]]
      BY <1>5, <3>1
    <3> QED
      BY <1>5, <1>7, <2>0, <2>9, <3>1, <3>3, <3>4, AttemptStep
  <2>2. CASE old.row.status = "pending" /\ Post!Mints(p) /\ active
    <3>1. PICK a : a = [old EXCEPT !.pc = "obsolete"]
      OBVIOUS
    <3>2. a.pc = "obsolete" /\ a.key = k /\ a.row = old.row /\ a.copy = old.copy
      BY <1>2, <1>4, <3>1 DEF TryRow
    <3>3. TryTyped(a)
      BY <1>2, <3>1 DEF TryTyped, TryRow, Trials
    <3>4. try' = [try EXCEPT ![p] = a] /\ row' = row
      BY <1>0, <1>8, <2>2, <3>1 DEF Post!Prepare
    <3>5. k \notin raced' \cup lost' => Believed(a, row[k], copies[k], k)
      BY <1>6, <2>0, <2>2, <3>2 DEF Believed
    <3>6. row' = [row EXCEPT ![k] = row[k]]
      BY <1>5, <3>4
    <3> QED
      BY <1>5, <1>7, <2>0, <2>9, <3>2, <3>3, <3>4, <3>5, <3>6, AttemptStep
  <2>3. CASE old.row.status = "pending" /\ ~(Post!Mints(p) /\ active)
    <3>0. Post!Prepared(p) \in Post!Copies
      BY DEF Post!Prepared, Post!Copies
    <3>1. PICK a : a = [old EXCEPT !.pc = "send", !.copy = Post!Prepared(p)]
      OBVIOUS
    <3>2. a.pc = "send" /\ a.key = k /\ a.row = old.row /\ a.copy \in Post!Copies
      BY <1>2, <1>4, <3>0, <3>1 DEF TryRow
    <3>3. TryTyped(a)
      BY <1>2, <3>0, <3>1 DEF TryTyped, TryRow, Trials
    <3>4. try' = [try EXCEPT ![p] = a]
      BY <1>0, <1>8, <2>3, <3>1 DEF Post!Prepare
    <3>5. PICK r \in Post!Row : row' = [row EXCEPT ![k] = r] /\ (r = old.row \/ r = row[k])
      BY <1>0, <1>3, <1>4, <1>5, <1>8, <2>3 DEF Post!Prepare
    <3>6. k \notin raced' \cup lost' => r = row[k] /\ r = old.row
      BY <1>6, <2>0, <3>5
    <3>7. k \notin raced' \cup lost' => Believed(a, r, copies[k], k)
      BY <1>6, <2>0, <2>3, <3>2, <3>6 DEF Believed
    <3> QED
      BY <1>5, <1>7, <2>0, <2>9, <3>2, <3>3, <3>4, <3>5, <3>7, AttemptStep
  <2> QED
    BY <2>1, <2>2, <2>3
<1>9. CASE Post!Deliver(p)
  <2>1. /\ old.pc = "send" /\ UNCHANGED <<row, waits, batch, sending, lost>>
    BY <1>0, <1>9 DEF Post!Deliver
  <2>2. PICK c : c = Append(copies[k], old.copy)
    OBVIOUS
  <2>3. c \in Seq(Post!Copies) /\ (copies[k] = <<>> => Len(c) = 1)
    BY <1>3, <1>5, <2>2
  <2>4. PICK a : a = [old EXCEPT !.pc = "success"]
    OBVIOUS
  <2>5. a.pc = "success" /\ a.key = k /\ a.row = old.row /\ a.copy = old.copy
    BY <1>2, <1>4, <2>4 DEF TryRow
  <2>6. TryTyped(a)
    BY <1>2, <2>4 DEF TryTyped, TryRow, Trials
  <2>7. try' = [try EXCEPT ![p] = a] /\ copies' = [copies EXCEPT ![k] = c]
    BY <1>0, <1>4, <1>9, <2>2, <2>4 DEF Post!Deliver
  <2>8. k \notin raced' \cup lost' => Believed(a, row[k], c, k)
    <3>1. ASSUME k \notin raced' \cup lost'
          PROVE  row[k].status = "pending" /\ copies[k] = <<>> /\ old.row = row[k] /\ row[k].tries < MaxTries
      BY <1>6, <2>1, <3>1
    <3> QED
      BY <2>3, <2>5, <3>1 DEF Believed
  <2>9. row' = [row EXCEPT ![k] = row[k]] /\ lost \subseteq lost' /\ waits' \subseteq Mails
    BY <1>5, <1>7, <2>1
  <2> QED
    BY <1>5, <1>7, <2>1, <2>3, <2>5, <2>6, <2>7, <2>8, <2>9, AttemptStep
<1>10. CASE Post!Reject(p)
  <2>1. /\ old.pc = "send" /\ UNCHANGED <<row, waits, batch, sending, copies, lost>>
    BY <1>0, <1>10 DEF Post!Reject
  <2>4. PICK a : a = [old EXCEPT !.pc = "failure"]
    OBVIOUS
  <2>5. a.pc = "failure" /\ a.key = k /\ a.row = old.row /\ a.copy = old.copy
    BY <1>2, <1>4, <2>4 DEF TryRow
  <2>6. TryTyped(a)
    BY <1>2, <2>4 DEF TryTyped, TryRow, Trials
  <2>7. try' = [try EXCEPT ![p] = a]
    BY <1>0, <1>10, <2>4 DEF Post!Reject
  <2>8. k \notin raced' \cup lost' => Believed(a, row[k], copies[k], k)
    BY <1>6, <2>1, <2>5 DEF Believed
  <2>9. /\ row' = [row EXCEPT ![k] = row[k]] /\ copies' = [copies EXCEPT ![k] = copies[k]]
        /\ lost \subseteq lost' /\ waits' \subseteq Mails
    BY <1>5, <1>7, <2>1
  <2> QED
    BY <1>5, <1>7, <2>1, <2>5, <2>6, <2>7, <2>8, <2>9, AttemptStep
<1>11. CASE Post!RecordSuccess(p)
  <2>1. PICK r : r = [old.row EXCEPT !.status = "sent", !.tries = @ + 1]
    OBVIOUS
  <2>2. r \in Post!Row /\ r.status = "sent"
    <3>1. PICK o \in Post!Row : o = old.row
      BY <1>3
    <3>2. o.tries + 1 \in Nat
      BY <3>1 DEF Post!Row
    <3> QED
      BY <2>1, <3>1, <3>2 DEF Post!Row
  <2>3. /\ old.pc = "success" /\ UNCHANGED <<batch, sending, copies, lost>>
        /\ row' = [row EXCEPT ![k] = r] /\ try' = [try EXCEPT ![p] = Post!Free] /\ waits' \subseteq Mails
    BY <1>0, <1>4, <1>7, <1>11, <2>1 DEF Post!RecordSuccess, Post!Store
  <2>4. k \notin raced' \cup lost' => ~Decided(k) /\ Len(copies[k]) = 1
    BY <1>6, <2>3 DEF Decided
  <2>5. k \notin raced' \cup lost' => Believed(Post!Free, r, copies[k], k)
    BY <2>2, <2>4, FreeIs DEF Believed
  <2>6. copies' = [copies EXCEPT ![k] = copies[k]] /\ lost \subseteq lost' /\ try[p].pc # "idle" /\ k = try[p].key
    BY <1>0, <1>1, <1>4, <1>5, <2>3
  <2> QED
    BY <1>5, <2>2, <2>3, <2>5, <2>6, AttemptStep
<1>12. CASE Post!RecordFailure(p)
  <2>1. PICK r : r = Post!AfterFailure(old.row, old.pc = "obsolete")
    OBVIOUS
  <2>2. old.row.tries \in Nat /\ MaxTries \in Nat
    BY <1>3, MailBounds DEF Post!Row
  <2>3. r \in Post!Row
    BY <1>3, <2>1, AfterRow
  <2>4. /\ r.tries = old.row.tries + 1
        /\ (r.status = "failed" \/ (r.status = old.row.status /\ old.row.tries + 1 < MaxTries))
    BY <1>3, <2>1, <2>2 DEF Post!Row, Post!AfterFailure
  <2>5. /\ old.pc \in {"failure", "obsolete"} /\ UNCHANGED <<batch, sending, copies, lost>>
        /\ row' = [row EXCEPT ![k] = r] /\ try' = [try EXCEPT ![p] = Post!Free] /\ waits' \subseteq Mails
    BY <1>0, <1>4, <1>7, <1>12, <2>1 DEF Post!RecordFailure, Post!Store
  <2>6. ASSUME k \notin raced' \cup lost'
        PROVE  ~Decided(k) /\ copies[k] = <<>> /\ r.tries <= MaxTries
               /\ (r.status = "failed" \/ (r.status = "pending" /\ r.tries < MaxTries))
    <3>1. row[k].status = "pending" /\ copies[k] = <<>> /\ old.row = row[k] /\ row[k].tries < MaxTries
      BY <1>6, <2>5, <2>6
    <3> QED
      BY <2>2, <2>4, <3>1 DEF Decided
  <2>7. k \notin raced' \cup lost' => Believed(Post!Free, r, copies[k], k)
    BY <2>6, FreeIs DEF Believed
  <2>8. copies' = [copies EXCEPT ![k] = copies[k]] /\ lost \subseteq lost' /\ try[p].pc # "idle" /\ k = try[p].key
    BY <1>0, <1>1, <1>4, <1>5, <2>5
  <2> QED
    BY <1>5, <2>3, <2>5, <2>7, <2>8, AttemptStep
<1> QED
  BY <1>8, <1>9, <1>10, <1>11, <1>12 DEF Post!Attempt

LEMMA FaultKeeps ==
  ASSUME MailInv, Post!Noting, Post!Fault
  PROVE  StepKeeps
<1>0. waits \subseteq Mails
  BY DEF MailInv, MailTyped
<1>1. CASE Post!Crash
  <2>1. /\ row' = row /\ copies' = copies /\ waits' = waits /\ lost \subseteq lost'
        /\ DOMAIN batch' = {} /\ sending' = FALSE /\ try' = [p \in Workers |-> Post!Free]
    BY <1>1 DEF Post!Crash, Workers
  <2>2. \A p \in Workers : try[p].pc # "idle" => try[p].key \in lost'
    BY <1>1 DEF Post!Crash, Workers, Post!Idle
  <2>3. PollerOK'
    BY <2>1, MailBounds DEF PollerOK
  <2> QED
    BY <1>0, <2>1, <2>2, <2>3, IdleStep DEF StepKeeps
<1>2. ASSUME NEW p \in Workers, Post!RecordSuccessAsFailure(p) PROVE StepKeeps
  <2>0. PICK old : old = try[p]
    OBVIOUS
  <2>1. old.pc = "success" /\ old.key \in Mails /\ old.row \in Post!Row /\ try[p].pc # "idle"
    BY <1>2, <2>0, TryFields DEF Post!RecordSuccessAsFailure, MailInv
  <2>2. PICK k \in Mails : k = old.key
    BY <2>1
  <2>3. PICK mid : mid = [old.row EXCEPT !.status = "sent", !.tries = @ + 1]
    OBVIOUS
  <2>4. mid \in Post!Row
    <3>1. PICK o \in Post!Row : o = old.row
      BY <2>1
    <3>2. o.tries + 1 \in Nat
      BY <3>1 DEF Post!Row
    <3> QED
      BY <2>3, <3>1, <3>2 DEF Post!Row
  <2>5. PICK r : r = Post!AfterFailure(mid, FALSE)
    OBVIOUS
  <2>6. r \in Post!Row
    BY <2>4, <2>5, AfterRow
  <2>7. /\ UNCHANGED <<batch, sending, copies>> /\ lost' = lost \cup {k}
        /\ row' = [row EXCEPT ![k] = r] /\ try' = [try EXCEPT ![p] = Post!Free] /\ waits' \subseteq Mails
    BY <1>0, <1>2, <2>0, <2>2, <2>3, <2>5 DEF Post!RecordSuccessAsFailure, Post!Store
  <2>8. copies' = [copies EXCEPT ![k] = copies[k]] /\ copies[k] \in Seq(Post!Copies)
    BY <2>7, RowsThere
  <2>9. lost \subseteq lost' /\ k \in lost' /\ k = try[p].key /\ UNCHANGED <<batch, sending>>
    BY <2>0, <2>2, <2>7
  <2> QED
    BY <2>1, <2>6, <2>7, <2>8, <2>9, AttemptStep
<1>3. ASSUME NEW p \in Workers, Post!RecordFails(p) PROVE StepKeeps
  <2>0. PICK old : old = try[p]
    OBVIOUS
  <2>1. old.pc # "idle" /\ old.key \in Mails /\ try[p].pc # "idle"
    BY <1>3, <2>0, TryFields DEF Post!RecordFails, MailInv
  <2>2. PICK k \in Mails : k = old.key
    BY <2>1
  <2>3. /\ UNCHANGED <<copies, row, waits>> /\ lost' = lost \cup {k} /\ try' = [try EXCEPT ![p] = Post!Free]
        /\ IF p = Poller THEN DOMAIN batch' = {} /\ sending' = FALSE ELSE UNCHANGED <<batch, sending>>
    BY <1>3, <2>0, <2>2 DEF Post!RecordFails
  <2>4. /\ copies' = [copies EXCEPT ![k] = copies[k]] /\ copies[k] \in Seq(Post!Copies)
        /\ row' = [row EXCEPT ![k] = row[k]] /\ row[k] \in Post!Row
    BY <2>3, RowsThere
  <2>5. PollerOK'
    <3>1. CASE p = Poller
      <4>1. try'[Poller] = Post!Free
        BY <2>3, <3>1, MailBounds DEF MailInv, MailTyped
      <4> QED
        BY <2>3, <3>1, <4>1 DEF PollerOK
    <3>2. CASE p # Poller
      BY <2>3, <3>2, PollerFreed
    <3> QED
      BY <3>1, <3>2
  <2>6. DOMAIN batch' \subseteq DOMAIN batch /\ \A m \in DOMAIN batch' : batch'[m] = batch[m]
    BY <2>3
  <2>7. waits' \subseteq Mails /\ lost \subseteq lost' /\ k \in lost' /\ k = try[p].key
    BY <1>0, <2>0, <2>2, <2>3
  <2>8. k \notin raced' \cup lost' => /\ Believed(Post!Free, row[k], copies[k], k)
                                      /\ \A q \in Workers \ {p} : ~Busied(try[q], k)
                                      /\ k \notin DOMAIN batch'
    BY <2>7
  <2>9. /\ Post!Free.pc # "idle" => Post!Free.key = k
        /\ try[p].pc # "idle" => try[p].key = k
        /\ try' = [try EXCEPT ![p] = Post!Free] /\ TryTyped(Post!Free)
    BY <2>3, <2>7, FreeIs
  <2>10. waits' \subseteq Mails /\ lost \subseteq lost'
    BY <2>7
  <2> QED
    BY <2>4, <2>5, <2>6, <2>8, <2>9, <2>10, WorkStep DEF StepKeeps
<1> QED
  BY <1>1, <1>2, <1>3 DEF Post!Fault, Workers

LEMMA PollKeeps ==
  ASSUME MailInv, Post!Noting, Post!Poll
  PROVE  StepKeeps
<1>0. waits \subseteq Mails /\ DOMAIN batch \subseteq Mails /\ Poller \in Workers /\ None \notin Mails
  BY MailBounds DEF MailInv, MailTyped
<1>1. CASE Post!PollStart
  <2>1. /\ ~sending /\ sending' /\ batch' = [m \in Post!DueMails |-> row[m]]
        /\ UNCHANGED <<row, waits, try, copies, lost>>
    BY <1>1 DEF Post!PollStart
  <2>2. Post!DueMails \subseteq Mails /\ \A m \in Post!DueMails : row[m].status = "pending"
    BY DEF Post!DueMails
  <2>3. try[Poller].key \notin Post!DueMails
    BY <1>0, <2>1, <2>2, FreeIs DEF MailInv, PollerOK
  <2>4. PollerOK'
    BY <2>1, <2>3 DEF PollerOK
  <2>5. DOMAIN batch' \subseteq Mails /\ \A m \in DOMAIN batch' : batch'[m] = row[m] /\ row[m].status = "pending"
    BY <2>1, <2>2
  <2>6. waits' \subseteq Mails /\ row' = row /\ copies' = copies /\ try' = try /\ lost \subseteq lost'
    BY <1>0, <2>1
  <2> QED
    BY <2>4, <2>5, <2>6, IdleStep DEF StepKeeps
<1>2. ASSUME NEW m \in Mails, Post!PollNext(m) PROVE StepKeeps
  <2>1. /\ sending /\ try[Poller].pc = "idle" /\ m \in DOMAIN batch
        /\ batch' = [n \in DOMAIN batch \ {m} |-> batch[n]]
        /\ UNCHANGED <<row, waits, sending, copies, lost>>
    BY <1>2 DEF Post!PollNext, Post!Idle
  <2>2. PICK r : r = batch[m]
    OBVIOUS
  <2>3. r \in Post!Row
    BY <2>1, <2>2 DEF MailInv, MailTyped
  <2>4. PICK a : a = [pc |-> "prepare", key |-> m, row |-> r, copy |-> "plain", fresh |-> FALSE]
    OBVIOUS
  <2>5. a.pc = "prepare" /\ a.key = m /\ a.row = r /\ TryTyped(a)
    BY <2>3, <2>4 DEF TryTyped, TryRow, Trials, Post!Copies
  <2>6. try' = [try EXCEPT ![Poller] = a]
    BY <1>2, <2>2, <2>4 DEF Post!PollNext, Post!Start
  <2>7. try'[Poller] = a
    BY <1>0, <2>6 DEF MailInv, MailTyped
  <2>8. PollerOK'
    BY <2>1, <2>5, <2>7 DEF PollerOK
  <2>9. ASSUME m \notin raced' \cup lost'
        PROVE  /\ r = row[m] /\ r.status = "pending" /\ r.tries < MaxTries /\ copies[m] = <<>>
               /\ \A q \in Workers \ {Poller} : ~Busied(try[q], m)
    <3>1. m \notin raced \cup lost /\ MailOK(m)
      BY <2>1, <2>9, HolderOne DEF MailInv
    <3>2. \A q \in Workers \ {Poller} : ~Busied(try[q], m)
      BY <1>0, <2>1, <3>1 DEF MailInv, OneHolder, Post!HeldBy, Post!Idle, Busied
    <3>3. \A q \in Workers : ~Credits(try[q], m)
      BY <2>1, <3>2 DEF Credits, Busied
    <3> QED
      BY <2>1, <2>2, <3>1, <3>2, <3>3 DEF MailOK
  <2>10. /\ copies' = [copies EXCEPT ![m] = copies[m]] /\ copies[m] \in Seq(Post!Copies)
         /\ row' = [row EXCEPT ![m] = row[m]] /\ row[m] \in Post!Row
    BY <2>1, RowsThere
  <2>11. /\ DOMAIN batch' \subseteq DOMAIN batch /\ m \notin DOMAIN batch'
         /\ \A n \in DOMAIN batch' : batch'[n] = batch[n]
    BY <2>1
  <2>12. waits' \subseteq Mails /\ lost \subseteq lost'
    BY <1>0, <2>1
  <2>13. m \notin raced' \cup lost' => /\ Believed(a, row[m], copies[m], m)
                                       /\ \A q \in Workers \ {Poller} : ~Busied(try[q], m)
                                       /\ m \notin DOMAIN batch'
    BY <2>5, <2>9, <2>11 DEF Believed
  <2>14. /\ a.pc # "idle" => a.key = m
         /\ try[Poller].pc # "idle" => try[Poller].key = m
         /\ Poller \in Workers /\ TryTyped(a)
    BY <1>0, <2>1, <2>5
  <2>15. DOMAIN batch' \subseteq DOMAIN batch /\ \A n \in DOMAIN batch' : batch'[n] = batch[n]
    BY <2>11
  <2> QED
    BY <2>6, <2>8, <2>10, <2>12, <2>13, <2>14, <2>15, WorkStep DEF StepKeeps
<1>3. CASE Post!PollEnd
  <2>1. /\ DOMAIN batch = {} /\ try[Poller].pc = "idle" /\ UNCHANGED <<row, waits, try, batch, copies, lost>>
    BY <1>3 DEF Post!PollEnd, Post!Idle
  <2>2. try[Poller] = Post!Free
    BY <1>0, <2>1 DEF MailInv, MailTyped, TryTyped, TryRow, Trials
  <2>3. PollerOK'
    BY <2>1, <2>2 DEF PollerOK
  <2> QED
    BY <1>0, <2>1, <2>3, IdleStep DEF StepKeeps
<1> QED
  BY <1>1, <1>2, <1>3 DEF Post!Poll

LEMMA MailStep ==
  ASSUME MailInv, Post!Next
  PROVE  StepKeeps
<1>0. Post!Noting /\ waits \subseteq Mails
  BY DEF Post!Next, MailInv, MailTyped
<1>1. ASSUME NEW m \in Mails, Post!Elapse(m) \/ Post!SetUp PROVE StepKeeps
  <2>1. waits' \subseteq Mails /\ UNCHANGED <<row, try, batch, sending, copies, lost>>
    BY <1>0, <1>1 DEF Post!Elapse, Post!SetUp
  <2>2. PollerOK'
    BY <2>1 DEF MailInv, PollerOK
  <2>3. DOMAIN batch' \subseteq Mails /\ \A x \in DOMAIN batch' : x \in DOMAIN batch /\ batch'[x] = batch[x]
    BY <2>1 DEF MailInv, MailTyped
  <2> QED
    BY <1>0, <2>1, <2>2, <2>3, IdleStep DEF StepKeeps
<1>2. ASSUME Post!SetUp PROVE \E m \in Mails : TRUE
  BY <1>2 DEF Post!SetUp
<1> QED
  BY <1>0, <1>1, <1>2, QueueKeeps, AttemptKeeps, FaultKeeps, PollKeeps DEF Post!Next, Post!Step, Workers

LEMMA MailInit == Post!Init => MailInv
<1> SUFFICES ASSUME Post!Init PROVE MailInv
  OBVIOUS
<1>1. Post!NoRow \in Post!Row /\ Post!NoRow.status = "none"
  BY DEF Post!NoRow, Post!Row, Post!Types, Post!Plain
<1>2. row \in [Mails -> Post!Row] /\ copies \in [Mails -> Seq(Post!Copies)] /\ DOMAIN batch = {}
  BY <1>1 DEF Post!Init
<1>3. try = [p \in Workers |-> Post!Free]
  BY DEF Post!Init, Workers
<1>4. MailTyped
  BY <1>2, <1>3, FreeIs DEF MailTyped, Post!Init
<1>5. PollerOK /\ OneHolder
  BY <1>2, <1>3, FreeIs, MailBounds DEF PollerOK, OneHolder, Post!HeldBy, Post!Idle
<1>6. ASSUME NEW m \in Mails PROVE MailOK(m)
  BY <1>1, <1>2, <1>3, FreeIs DEF MailOK, TryOK, Busied, Post!Init
<1> QED
  BY <1>4, <1>5, <1>6 DEF MailInv

LEMMA MailStutter == MailInv /\ UNCHANGED postVars => MailInv'
<1> SUFFICES ASSUME MailInv, UNCHANGED postVars PROVE MailInv'
  OBVIOUS
<1>1. UNCHANGED <<row, waits, active, try, batch, sending, copies, raced, lost, mailFaults>>
  BY DEF postVars
<1>2. MailTyped'
  BY <1>1 DEF MailInv, MailTyped, TryTyped
<1>3. PollerOK' /\ OneHolder'
  BY <1>1 DEF MailInv, PollerOK, OneHolder, Post!HeldBy, Post!Idle
<1>4. ASSUME NEW m \in Mails \ (raced \cup lost) PROVE MailOK(m)'
  BY <1>1 DEF MailInv, MailOK, TryOK, Busied, Credits
<1> QED
  BY <1>1, <1>2, <1>3, <1>4 DEF MailInv

LEMMA LostStay == Post!Next => lost \subseteq lost' /\ raced \subseteq raced'
<1> SUFFICES ASSUME Post!Next PROVE lost \subseteq lost' /\ raced \subseteq raced'
  OBVIOUS
<1>1. raced \subseteq raced'
  BY DEF Post!Next, Post!Noting
<1>2. ASSUME NEW p \in Workers, Post!Queue(p) PROVE lost \subseteq lost'
  BY <1>2 DEF Post!Queue, Post!Enqueue, Post!Resend
<1>3. ASSUME NEW p \in Workers, Post!Attempt(p) PROVE lost \subseteq lost'
  BY <1>3 DEF Post!Attempt, Post!Prepare, Post!Deliver, Post!Reject, Post!RecordSuccess, Post!RecordFailure
<1>4. ASSUME Post!Poll PROVE lost \subseteq lost'
  BY <1>4 DEF Post!Poll, Post!PollStart, Post!PollNext, Post!PollEnd
<1>5. ASSUME Post!Fault PROVE lost \subseteq lost'
  BY <1>5 DEF Post!Fault, Post!Crash, Post!RecordSuccessAsFailure, Post!RecordFails
<1>6. ASSUME NEW m \in Mails, Post!Elapse(m) PROVE lost \subseteq lost'
  BY <1>6 DEF Post!Elapse
<1>7. ASSUME Post!SetUp PROVE lost \subseteq lost'
  BY <1>7 DEF Post!SetUp
<1> QED
  BY <1>1, <1>2, <1>3, <1>4, <1>5, <1>6, <1>7 DEF Post!Next, Post!Step, Workers

LEMMA MailTypes == MailInv => Post!TypeOK
<1> SUFFICES ASSUME MailInv PROVE Post!TypeOK
  OBVIOUS
<1>1. ASSUME NEW p \in Workers PROVE try[p].row \in Post!Row /\ (Post!Idle(p) <=> try[p].key = None)
  <2>1. CASE try[p] = Post!Free
    BY <2>1, FreeIs DEF Post!Idle, Post!Free, Post!NoRow, Post!Row, Post!Types, Post!Plain
  <2>2. CASE try[p] \in TryRow
    BY <2>2, MailBounds DEF Post!Idle, TryRow, Trials
  <2> QED
    BY <2>1, <2>2 DEF MailInv, MailTyped, TryTyped
<1>2. \A m \in Mails : copies[m] \in Seq(Post!Copies)
  BY DEF MailInv, MailTyped
<1> QED
  BY <1>1, <1>2 DEF MailInv, MailTyped, Post!TypeOK, Workers

(* The mail whose attempt has been delivered is counted once.              *)
LEMMA MailTold ==
  ASSUME MailInv, NEW m \in Mails \ (raced \cup lost)
  PROVE  Post!Told(m)
<1>1. MailOK(m)
  BY DEF MailInv
<1>2. CASE row[m].status = "sent"
  BY <1>1, <1>2 DEF MailOK, Post!Told
<1>3. CASE row[m].status = "failed"
  BY <1>1, <1>3 DEF MailOK, Post!Told
<1>4. CASE row[m].status \in {"none", "pending"}
  <2>1. PICK S : S = {p \in Queuers \cup {Poller} : try[p].pc = "success" /\ try[p].key = m}
    OBVIOUS
  <2>2. Post!Cardinality(S) = Cardinality(S)
    <3>1. Post!IsFiniteSet(S) = IsFiniteSet(S)
      BY Zenon DEF Post!IsFiniteSet, IsFiniteSet
    <3> QED
      BY <3>1, Zenon DEF Post!Cardinality, Cardinality, Post!IsFiniteSet, IsFiniteSet
  <2>3. Len(copies[m]) = Cardinality(S)
    <3>1. CASE S = {}
      <4>1. \A p \in Workers : ~Credits(try[p], m)
        BY <2>1, <3>1 DEF Credits, Workers
      <4>2. copies[m] = <<>>
        BY <1>1, <1>4, <4>1 DEF MailOK
      <4>3. Cardinality(S) = 0
        BY <3>1, FS_EmptySet
      <4> QED
        BY <4>2, <4>3
    <3>2. ASSUME NEW p \in S PROVE Len(copies[m]) = Cardinality(S)
      <4>1. p \in Workers /\ Busied(try[p], m) /\ try[p].pc = "success"
        BY <2>1, <3>2 DEF Workers, Busied
      <4>2. Len(copies[m]) = 1
        BY <1>1, <4>1 DEF MailOK, TryOK
      <4>3. \A q \in S : q = p
        BY <2>1, <3>2 DEF MailInv, OneHolder, Post!HeldBy, Post!Idle, Workers
      <4>4. S = {p}
        BY <3>2, <4>3
      <4>5. Cardinality(S) = 1
        BY <4>4, FS_Singleton
      <4> QED
        BY <4>2, <4>5
    <3> QED
      BY <3>1, <3>2
  <2> QED
    BY <1>4, <2>1, <2>2, <2>3 DEF Post!Told
<1> QED
  BY <1>1, <1>2, <1>3, <1>4, RowsThere

(* What the behaviours of MCLive say of the mails.                         *)
LEMMA MailSteps == MCSpec => Post!Init /\ [][Post!Next]_postVars
<1>1. MCInit => Post!Init
  BY DEF MCInit
<1>2. [MCNext]_allVars => [Post!Next]_postVars
  BY DEF MCNext, Apart, allVars
<1> QED
  BY <1>1, <1>2, PTL DEF MCSpec

(* Of a mail that one attempt at a time has held, and whose outcomes were  *)
(* all recorded, the log tells what happened: one copy delivered of a sent *)
(* one, none of a failed one or of one still to send but for the attempt   *)
(* that has just delivered it; and what was decided stays.                 *)
THEOREM MailsTold == MCSpec => OutcomesStand
<1>1. MailInv /\ [Post!Next]_postVars => MailInv'
  BY MailStep, MailStutter DEF StepKeeps
<1>2. MailInv /\ [Post!Next]_postVars =>
        [Post!TypeOK /\ \A m \in Mails \ (raced' \cup lost') :
           Post!Told(m) /\ (row[m].status \in {"sent", "failed"} => row'[m] = row[m])]_(Post!vars)
  <2>1. SUFFICES ASSUME MailInv, Post!Next
                 PROVE  /\ Post!TypeOK
                        /\ \A m \in Mails \ (raced' \cup lost') :
                             Post!Told(m) /\ (row[m].status \in {"sent", "failed"} => row'[m] = row[m])
    BY DEF postVars, Post!vars
  <2>2. StepKeeps
    BY <2>1, MailStep
  <2>3. ASSUME NEW m \in Mails \ (raced' \cup lost')
        PROVE  Post!Told(m) /\ (row[m].status \in {"sent", "failed"} => row'[m] = row[m])
    <3>1. m \in Mails \ (raced \cup lost)
      BY <2>1, LostStay
    <3> QED
      BY <2>1, <2>2, <3>1, MailTold DEF StepKeeps, Decided
  <2> QED
    BY <2>1, <2>3, MailTypes
<1> QED
  BY <1>1, <1>2, MailInit, MailSteps, PTL DEF OutcomesStand, Post!OutcomesStand

=============================================================================
