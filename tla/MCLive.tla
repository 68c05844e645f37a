------------------------------- MODULE MCLive -------------------------------
(* What must eventually happen, without the symmetry the other runs use:   *)
(* a behaviour is one of the stays and the auto-checkout, of an event, of  *)
(* the push outbox or of the mail outbox.                                  *)
EXTENDS Stays

CONSTANTS Editor, Visitors, Tickets, Caps, Prices, MaxParty,  \* the event, with one editor
          Mails, Occasions, Queuers, Poller, Kinds, MaxTries  \* the mails

VARIABLES scene,
          event, booking, lock, show, ticking, phase, eventFaults,
          disp, sub, live, call, att, queue, polling, pushFaults,
          row, waits, active, try, batch, sending, copies, raced, lost, mailFaults

Party == INSTANCE Events WITH
           Staff <- {Editor}, Guests <- Visitors, Bookings <- Tickets,
           req <- show, running <- ticking, faults <- eventFaults
partyVars == <<event, booking, lock, show, ticking, phase, eventFaults>>

Device == INSTANCE Push WITH
            Rows <- {1, 2}, Subs <- {"sub"}, Owners <- {"guest"}, Callers <- {"call"}, None <- None,
            Kinds <- {"status"}, MaxAttempts <- 2, MaxTries <- 1, MaxFaults <- 1,
            running <- polling, faults <- pushFaults
deviceVars == <<disp, sub, live, call, att, queue, polling, pushFaults>>

Post == INSTANCE Mail WITH
          Events <- Occasions, Callers <- Queuers,
          att <- try, running <- sending, faults <- mailFaults
postVars == <<row, waits, active, try, batch, sending, copies, raced, lost, mailFaults>>

allVars == <<scene, vars, partyVars, deviceVars, postVars>>

ASSUME ScenesAssumption == Party!Parameters /\ Device!Parameters /\ Post!Parameters

MCInit ==
  /\ Init /\ Party!Init /\ Device!Init /\ Post!Init
  /\ scene \in {"stays", "event", "push", "mail"}
  /\ scene # "event" => event.cap = None /\ event.price = Party!AnyPrice
\* Nothing of the other scenes moves.
Apart ==
  /\ scene' = scene
  /\ scene # "stays" => UNCHANGED vars
  /\ scene # "event" => UNCHANGED partyVars
  /\ scene # "push" => UNCHANGED deviceVars
  /\ scene # "mail" => UNCHANGED postVars

MCNext ==
  /\ \/ scene = "stays" /\ Next
     \/ scene = "event" /\ Party!Next
     \/ scene = "push" /\ Device!Next
     \/ scene = "mail" /\ Post!Next
  /\ Apart

First == CHOOSE p \in Visitors : TRUE

\* The fairness of the four modules, action by action: only those of the
\* behaviour's scene are ever enabled.
StronglyFair(i) ==
  CASE scene = "stays" -> \E p \in Procs : (p = Sched <=> i = 2) /\ VacateSave(p)
    [] scene = "event" -> IF i = 1 THEN Party!SaveEvent(Editor) ELSE Party!TickSave
    [] scene = "push" -> \E polled \in BOOLEAN : Device!Try(i, polled)
    [] scene = "mail" -> FALSE

WeaklyFair(i) ==
  CASE scene = "stays" ->
         (i = 1 /\ Continue(Sched)) \/ (i = 2 /\ \E p \in Staff : Continue(p)) \/ (i = 3 /\ AutoRun)
    [] scene = "event" ->
         (i = 1 /\ Party!Continue(Editor)) \/ (i = 2 /\ Party!Continue(First))
           \/ (i = 3 /\ \E p \in Visitors \ {First} : Party!Continue(p)) \/ (i = 4 /\ Party!TickRead)
    [] scene = "push" ->
         (i \in {1, 2} /\ Device!Ripen(i)) \/ (i = 3 /\ Device!Poll)
           \/ (i = 4 /\ \E n \in {1, 2} : Device!Insert("call", n))
    [] scene = "mail" ->
         (i \in {1, 2} /\ Post!Goes(i)) \/ (i = 3 /\ Post!Runs)
           \/ (i = 4 /\ \E p \in Queuers : Post!Carries(p)) \/ (i = 5 /\ Post!Carries(Poller))

MCSpec ==
  /\ MCInit /\ [][MCNext]_allVars
  /\ \A i \in {1, 2} : SF_allVars(StronglyFair(i) /\ Apart)
  /\ \A i \in 1..5 : WF_allVars(WeaklyFair(i) /\ Apart)

NeverOverbooked == Party!NeverOverbooked
BookingsStand == Party!BookingsStand
OutcomesStand == Post!OutcomesStand

Waits(i) ==
  CASE scene = "stays" -> i = 1 /\ \E s \in Stays : Active(s) /\ Overdue(stay[s].due)
    [] scene = "event" -> i = 1 /\ event.status = "published" /\ phase = 2
    [] scene = "push" -> Device!Pending(i)
    [] scene = "mail" -> row[i].status = "pending"

(* No stay stays overdue (a later hourly run closes it, or it is extended),  *)
(* no event stays published once it is over (the tick completes it), no      *)
(* notice of the push outbox and no mail stays pending (they are sent,       *)
(* superseded or given up): through runs that crash, fail half way or are    *)
(* skipped while one runs, refusals and outcomes that could not be recorded. *)
NothingWaitsForever == \A i \in {1, 2} : Waits(i) ~> ~Waits(i)
=============================================================================
