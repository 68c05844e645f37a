------------------------------- MODULE Reports -------------------------------
(***************************************************************************)
(* The revenue, balance and guest reports of a hotel (reports-period,      *)
(* ReportsRevenueService, ReportsBalancesService, the departures of        *)
(* ReportsOperationalService).                                             *)
(*                                                                         *)
(* A report adds up rows, each by itself, so one stay with one charge is   *)
(* enough to see every way a row can be counted twice or not at all.  Its  *)
(* period is days on the clock of the hotel, which is changed once; the    *)
(* rows carry instants.  A report reads in several queries while the       *)
(* hotel works on.                                                         *)
(***************************************************************************)
EXTENDS Integers, Sequences

CONSTANTS Day,      \* instants in a day
          Zones,    \* clocks: an offset of a day at most, and a shift at an instant
          Spans,    \* lengths of the presets that end today
          MaxSpan,  \* longest custom period
          First, Horizon,  \* bounds on the clock
          None

Parameters ==
  /\ Day \in Nat \ {0} /\ MaxSpan \in Nat \ {0} /\ Spans \subseteq Nat \ {0}
  /\ First \in Nat /\ Horizon \in Nat
  /\ \A z \in Zones : {z.offset, z.offset + z.shift} \subseteq -Day .. Day /\ {z.shift, z.change} \subseteq Int

VARIABLES zone, now,
          stay,    \* the stay
          charge,  \* its order or booking
          report   \* the report under way

vars == <<zone, now, stay, charge, report>>

NoCharge == [kind |-> "none", status |-> "none", by |-> None, made |-> 0, at |-> 0, settled |-> FALSE]
NoStay == [status |-> "none", out |-> 0]
NoReport == [kind |-> "none", todo |-> <<>>]

----------------------------------------------------------------------------
(* hotelLocalParts *)
Local(t) == t + zone.offset + IF t >= zone.change THEN zone.shift ELSE 0
date(t) == Local(t) \div Day
minutes(t) == Local(t) % Day

(* The guess is the midnight of Greenwich, corrected twice by what the     *)
(* clock of the hotel shows at the guess.                                  *)
Correct(d, guess) == guess - ((date(guess) - d) * Day + minutes(guess))
utcInstantOfLocalMidnight_Once(d) == Correct(d, d * Day)
utcInstantOfLocalMidnight(d) == Correct(d, Correct(d, d * Day))

Period(from, to) ==
  [from |-> from, to |-> to, start |-> utcInstantOfLocalMidnight(from),
   end |-> utcInstantOfLocalMidnight(to + 1)]

(* Presets, and custom ranges cut off at today. *)
Periods ==
  LET today == date(now)
      Cut(to) == IF to > today THEN today ELSE to
  IN {Period(today, today), Period(today - 1, today - 1)}
       \cup {Period(today - (n - 1), today) : n \in Spans}
       \cup {Period(r[1], Cut(r[2])) : r \in {r \in (today - 1 .. today + 1) \X (today - 1 .. today + 1) :
                r[1] <= Cut(r[2]) /\ Cut(r[2]) - r[1] + 1 <= MaxSpan}}

(* The window before, of as many days; as long into its last day as today  *)
(* has come, if the period ends today.                                     *)
previousWindow_Overlaps(p) ==
  LET to == p.from from == to - (p.to - p.from) IN Period(from, to)

previousWindow(p) ==
  LET to == p.from - 1 from == to - (p.to - p.from) IN
  IF p.to # date(now) THEN Period(from, to)
  ELSE [Period(from, to) EXCEPT !.end = utcInstantOfLocalMidnight(to) + minutes(now)]

----------------------------------------------------------------------------
(* The hotel at work.  Charges are paid in cash, to the room, or included. *)
Methods == {"cash", "room", None}

Init ==
  /\ zone \in Zones /\ now = First
  /\ stay = [status |-> "active", out |-> 0]
  /\ charge = NoCharge /\ report = NoReport

Changes(c, s) ==
  /\ charge' = c /\ stay' = s
  /\ report' = IF report = NoReport THEN report ELSE [report EXCEPT !.moved = TRUE]
  /\ UNCHANGED <<zone, now>>

Order(by) ==
  /\ charge = NoCharge /\ stay.status = "active"
  /\ Changes([NoCharge EXCEPT !.kind = "order", !.status = "open", !.by = by, !.made = now], stay)

Deliver ==
  /\ charge.kind = "order" /\ charge.status = "open"
  /\ Changes([charge EXCEPT !.status = "earned", !.at = now], stay)

(* A booking is for a day of the hotel's calendar. *)
Book(by, d) ==
  /\ charge = NoCharge /\ stay.status = "active" /\ d >= date(now)
  /\ Changes([kind |-> "booking", status |-> "earned", by |-> by, made |-> now, at |-> d, settled |-> FALSE], stay)

Cancel ==
  /\ charge.status = "open" \/ (charge.kind = "booking" /\ charge.status = "earned")
  /\ Changes([charge EXCEPT !.status = "cancelled"], stay)

isEligible_Settled(c) == c.status = "earned" /\ c.by = "room"
isEligible(c) == c.status = "earned" /\ c.by = "room" /\ ~c.settled
Settle == isEligible(charge) /\ Changes([charge EXCEPT !.settled = TRUE], stay)

CheckOut == stay.status = "active" /\ Changes(charge, [status |-> "checked_out", out |-> now])

Tick == now < Horizon /\ now' = now + 1 /\ UNCHANGED <<zone, stay, charge, report>>

----------------------------------------------------------------------------
(* SQL's BETWEEN takes both ends. *)
Between(t, p) == p.start <= t /\ t <= p.end

(* The queries of a report in their order; those of one Promise.all come   *)
(* in any.  The balances are of now and have no period.                    *)
Plans == [totals |-> {<<"earned", "unsettled">>}, balances |-> {<<"unsettled", "inHouse">>},
          leakage |-> {<<"departed", "unsettled">>},
          guests |-> {<<"departed", "before">>, <<"before", "departed">>}]

Begin(kind, p) ==
  /\ report = NoReport /\ (kind = "balances" => p.from = date(now) /\ p.to = date(now))
  /\ \E todo \in Plans[kind] :
       report' = [kind |-> kind, todo |-> todo, of |-> p, before |-> previousWindow(p), moved |-> FALSE,
                  charge |-> NoCharge, stay |-> NoStay, unsettled |-> FALSE, previous |-> FALSE]
  /\ UNCHANGED <<zone, now, stay, charge>>

(* Delivered orders by their instant, events by their day. *)
Earned_Made(p) ==
  /\ charge.status = "earned"
  /\ \/ charge.kind = "order" /\ Between(charge.made, p)
     \/ charge.kind = "booking" /\ charge.at \in p.from .. p.to

Earned(p) ==
  /\ charge.status = "earned"
  /\ \/ charge.kind = "order" /\ Between(charge.at, p)
     \/ charge.kind = "booking" /\ charge.at \in p.from .. p.to
Departed(p) == stay.status = "checked_out" /\ Between(stay.out, p)

Read ==
  /\ report.todo # <<>>
  /\ LET q == Head(report.todo) r == [report EXCEPT !.todo = Tail(@)] p == report.of IN
     report' =
       CASE q = "earned" -> [r EXCEPT !.charge = IF Earned(p) THEN charge ELSE NoCharge]
         [] q = "unsettled" -> [r EXCEPT !.unsettled = isEligible(charge)]
         [] q = "inHouse" -> [r EXCEPT !.stay = IF stay.status = "active" THEN stay ELSE NoStay]
         [] q = "departed" -> [r EXCEPT !.stay = IF Departed(p) THEN stay ELSE NoStay]
         [] q = "before" -> [r EXCEPT !.previous = Departed(report.before)]
  /\ UNCHANGED <<zone, now, stay, charge>>

End ==
  /\ report # NoReport /\ report.todo = <<>>
  /\ report' = NoReport /\ UNCHANGED <<zone, now, stay, charge>>

Next ==
  \/ \E by \in Methods : Order(by) \/ \E d \in date(now) .. date(now) + 1 : Book(by, d)
  \/ Deliver \/ Cancel \/ Settle \/ CheckOut \/ Tick
  \/ \E kind \in DOMAIN Plans, p \in Periods : Begin(kind, p)
  \/ Read \/ End

Spec == Init /\ [][Next]_vars

----------------------------------------------------------------------------
(* What the answer shows: `grandTotal`, `byDay`, `collected`, and          *)
(* `outstanding`, which goes by the instant a charge was made.             *)
Counted == report.charge # NoCharge /\ report.charge.by # None
DayShown == IF report.charge.kind = "order" THEN date(report.charge.at) ELSE report.charge.at
Collected == Counted /\ (report.charge.by = "cash" \/ report.charge.settled)
Outstanding == report.unsettled /\ report.of.start <= charge.made /\ charge.made < report.of.end
Owed == report.unsettled /\ report.stay # NoStay

InPeriod(d) == d \in report.of.from .. report.of.to
Answered(kind) == report.kind = kind /\ report.todo = <<>>

(* Midnight comes once. *)
Plain(d) == \E t \in (d - 1) * Day .. (d + 1) * Day :
              \A u \in (d - 1) * Day .. (d + 1) * Day : Local(u) = d * Day <=> u = t

(* Every report counts what belongs to its days: a charge once, on a day   *)
(* of the period, a departure once, a debt under the house or under the    *)
(* day the guest left (where the clock neither skips nor repeats the       *)
(* midnights the period begins and ends with).  A row whose instant is the *)
(* very end of a period is in two reports; a departure may be compared     *)
(* with itself if the clock was put forward since the period before.  What *)
(* was collected is never outstanding as well; a room charge made and      *)
(* earned in the period is the one or the other; and nothing is promised   *)
(* of what changes while the report runs.                                  *)
ReportsAddUp ==
  LET p == report.of
      Exact == Plain(p.from) /\ Plain(p.to + 1)
      earned == IF charge.kind = "order" THEN date(charge.at) ELSE charge.at
  IN
  /\ Answered("totals") =>
       /\ Exact /\ Counted => InPeriod(DayShown) \/ report.charge.at = p.end
       /\ ~(Collected /\ Outstanding)
       /\ Exact /\ ~report.moved /\ charge.status = "earned" =>
            /\ charge.by # None /\ InPeriod(earned) => Counted
            /\ Counted /\ charge.by = "room" /\ InPeriod(date(charge.made)) => Collected \/ Outstanding
  /\ Answered("balances") /\ ~report.moved => (Owed <=> isEligible(charge) /\ stay.status = "active")
  /\ Answered("leakage") /\ Exact =>
       /\ Owed => InPeriod(date(report.stay.out)) \/ report.stay.out = p.end
       /\ ~report.moved /\ isEligible(charge) /\ stay.status = "checked_out" /\ InPeriod(date(stay.out)) => Owed
  /\ Answered("guests") /\ Exact =>
       /\ report.stay # NoStay => InPeriod(date(report.stay.out)) \/ report.stay.out = p.end
       /\ report.stay # NoStay /\ report.previous =>
            report.stay.out <= p.start + (IF zone.shift > 0 THEN zone.shift ELSE 0)
=============================================================================
