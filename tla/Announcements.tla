--------------------------- MODULE Announcements ---------------------------
(***************************************************************************)
(* Announcements of one hotel: drafting, scheduling, sending, retracting   *)
(* (TenantAnnouncementsService), the tick that publishes and expires       *)
(* (AnnouncementSchedulerService), the guests' inbox with its receipts     *)
(* (GuestAnnouncementsService) and the push of a publication.              *)
(*                                                                         *)
(* A handler reads a row, judges it and saves it whole later; the tick     *)
(* does so with all the rows it read at its start.  `raced` collects the   *)
(* rows that two of them held at once.                                     *)
(***************************************************************************)
EXTENDS Naturals, FiniteSets

CONSTANTS Anns,      \* rows of the table announcements
          Stays, Floors,
          Audiences, \* audiences the staff picks: [by, of]
          Editors,   \* concurrent calls of the staff
          Ticker,    \* the scheduler
          None,
          Asked,     \* publication and closing times the staff asks for, 0: none
          Horizon,   \* bound: the hotel-local clock stops there
          MaxFaults, \* bound: failed saves of the tick and restarts
          MaxWrites  \* bound: saves of the staff

\* What the parameters have to be; the modules that instantiate this one assume
\* it.  An audience that lists nobody is stored as everyone (normalizeAudience).
Parameters ==
  /\ Horizon \in Nat \ {0} /\ MaxFaults \in Nat /\ MaxWrites \in Nat
  /\ Audiences \subseteq [by: {"all", "floors", "stays"}, of: SUBSET (Stays \cup Floors)]
  /\ \A au \in Audiences : au.by # "all" => au.of # {}
  /\ 0 \in Asked /\ Asked \subseteq Nat /\ Ticker \notin Editors /\ None \notin Anns

VARIABLES ann,    \* table announcements
          here,   \* the stays that are active
          floor,  \* the floor of each stay's room
          now,    \* the hotel-local clock
          call,   \* what each call of the staff has read
          tick,   \* the run of the scheduler
          reads,  \* table announcement_reads
          pushed, \* dedupe keys of the push outbox: announcement and device
          raced,  \* ghost: rows held by two at once
          faults, writes

vars == <<ann, here, floor, now, call, tick, reads, pushed, raced, faults, writes>>

Published == {"live", "retracted", "expired"}
Statuses == Published \cup {"none", "draft", "scheduled"}
Everyone == [by |-> "all", of |-> {}]
Row == [status: Statuses, pub: Asked, until: Asked, push: BOOLEAN,
        aud: [by: {"all", "floors", "stays"}, of: SUBSET (Stays \cup Floors)]]

NoRow == [status |-> "none", pub |-> 0, until |-> 0, push |-> FALSE, aud |-> Everyone]
IdleCall == [pc |-> "idle", key |-> None, row |-> NoRow]
IdleTick == [pc |-> "idle", batch |-> [a \in {} |-> NoRow], done |-> <<>>]

Init ==
  /\ ann = [a \in Anns |-> NoRow]
  /\ here = Stays /\ floor \in [Stays -> Floors]
  /\ now = 1
  /\ call = [p \in Editors |-> IdleCall] /\ tick = IdleTick
  /\ reads = {} /\ pushed = {} /\ raced = {}
  /\ faults = 0 /\ writes = 0

Idle(p) == call[p].pc = "idle"
Hold(p, a, r) == call' = [call EXCEPT ![p] = [pc |-> "save", key |-> a, row |-> r]]

House == <<here, floor, now>>

----------------------------------------------------------------------------
(* Who sees what: an empty list of stays means everyone, as no list does. *)
Matches(au, s) ==
  /\ (au.by = "stays" /\ au.of # {}) => s \in au.of
  /\ au.by = "floors" => floor[s] \in au.of

Open(until, t) == until = 0 \/ until > t
WithinWindow(r, t) == Open(r.until, t)

VisibleToStay(r, s) == r.status = "live" /\ WithinWindow(r, now) /\ Matches(r.aud, s)

\* previewAudience counts these; a push of the announcement goes to them.
Reached(au) == {s \in here : Matches(au, s)}

\* Guests the audience names who are no longer here; an event's notice drops
\* them, and is not written when nobody is left.
Unresolved(au) == IF au.by = "stays" THEN au.of \ here ELSE {}

NotifyOf(a, au) ==
  pushed' = pushed \cup ({a} \X Reached(au))

----------------------------------------------------------------------------
(* The staff. *)
Fresh(p, a) == Idle(p) /\ ann[a].status = "none" /\ \A q \in Editors : call[q].key # a

Timed(r) ==
  CASE r.status = "live" -> r.pub = 0 /\ Open(r.until, now)
    [] r.status = "scheduled" -> r.pub > now /\ Open(r.until, r.pub)
    [] OTHER -> TRUE

CreateRead(p, a, r) ==
  /\ Fresh(p, a)
  /\ Timed(r)
  /\ Unresolved(r.aud) = {}
  /\ Hold(p, a, r)

NoticeRead(p, a, au) ==
  /\ Fresh(p, a)
  /\ au.by = "stays" /\ au.of \cap here # {}
  /\ Hold(p, a, [NoRow EXCEPT !.status = "live", !.push = TRUE,
                              !.aud = [au EXCEPT !.of = @ \cap here]])

\* Of the times only the one the call gives is judged: a later publication
\* alone may pass the end of the window.
Editable_Any(r) == r.status # "none"
Editable(r) == r.status \in {"draft", "scheduled"}

Retimed(r, pub, until) ==
  /\ (pub # r.pub /\ r.status = "scheduled") => pub > now
  /\ until # r.until => Open(until, IF pub = 0 THEN now ELSE pub)

UpdateRead(p, a, au, pub, until) ==
  /\ Idle(p) /\ Editable(ann[a])
  /\ pub = 0 => ann[a].pub = 0
  /\ Retimed(ann[a], pub, until) /\ (au # ann[a].aud => Unresolved(au) = {})
  /\ Hold(p, a, [ann[a] EXCEPT !.aud = au, !.pub = pub, !.until = until])

SendNowRead(p, a) ==
  /\ Idle(p) /\ ann[a].status \in {"draft", "scheduled"} /\ Open(ann[a].until, now)
  /\ Hold(p, a, [ann[a] EXCEPT !.status = "live", !.pub = 0])

CancelScheduleRead(p, a) ==
  /\ Idle(p) /\ ann[a].status = "scheduled"
  /\ Hold(p, a, [ann[a] EXCEPT !.status = "draft", !.pub = 0])

RetractRead(p, a) ==
  /\ Idle(p) /\ ann[a].status = "live"
  /\ Hold(p, a, [ann[a] EXCEPT !.status = "retracted"])

\* The save of any of these; a publication pushes after it.
Save(p) ==
  /\ call[p].pc = "save" /\ writes < MaxWrites
  /\ LET r == call[p].row
         out == r.status = "live" /\ r.push
     IN  /\ ann' = [ann EXCEPT ![call[p].key] = r]
         /\ call' = [call EXCEPT ![p] = IF out THEN [@ EXCEPT !.pc = "notify"] ELSE IdleCall]
  /\ writes' = writes + 1
  /\ UNCHANGED <<tick, pushed, faults>>

Notify(p) ==
  /\ call[p].pc = "notify"
  /\ NotifyOf(call[p].key, call[p].row.aud)
  /\ call' = [call EXCEPT ![p] = IdleCall]
  /\ UNCHANGED <<ann, tick, faults, writes>>

----------------------------------------------------------------------------
(* The scheduler. *)
DueAt_Early(r, t) ==
  \/ r.status = "scheduled" /\ r.pub # 0
  \/ r.status = "live" /\ ~WithinWindow(r, t)
DueAt(r, t) ==
  \/ r.status = "scheduled" /\ r.pub # 0 /\ r.pub <= t
  \/ r.status = "live" /\ ~WithinWindow(r, t)

\* The rows it will change; the others it passes over.
Candidates == {a \in Anns : ann[a].status \in {"scheduled", "live"}}
TickStart ==
  /\ tick.pc = "idle" /\ Candidates # {}
  /\ tick' = [pc |-> "rows",
              batch |-> [a \in {b \in Candidates : DueAt(ann[b], now)} |-> ann[a]], done |-> <<>>]
  /\ UNCHANGED <<ann, call, pushed, faults, writes>>

Rest(a) == [tick EXCEPT !.batch = [b \in DOMAIN @ \ {a} |-> @[b]]]

TickRow(a) ==
  /\ tick.pc = "rows" /\ a \in DOMAIN tick.batch
  /\ LET r == tick.batch[a]
         out == r.status = "scheduled" /\ r.push
     IN  /\ ann' = [ann EXCEPT ![a] = [r EXCEPT !.status = IF @ = "scheduled" THEN "live" ELSE "expired"]]
         /\ tick' = IF out THEN [Rest(a) EXCEPT !.pc = "notify", !.done = <<a, r.aud>>] ELSE Rest(a)
         /\ UNCHANGED <<call, pushed, faults, writes>>

TickNotify ==
  /\ tick.pc = "notify"
  /\ NotifyOf(tick.done[1], tick.done[2])
  /\ tick' = [tick EXCEPT !.pc = "rows", !.done = <<>>]
  /\ UNCHANGED <<ann, call, faults, writes>>

TickEnd ==
  /\ tick.pc = "rows" /\ DOMAIN tick.batch = {}
  /\ tick' = IdleTick
  /\ UNCHANGED <<ann, call, pushed, faults, writes>>

\* A save that fails ends the run; the rest waits for the next one.
TickFails ==
  /\ tick.pc = "rows" /\ DOMAIN tick.batch # {} /\ faults < MaxFaults
  /\ tick' = IdleTick /\ faults' = faults + 1
  /\ UNCHANGED <<ann, call, pushed, writes>>

Restart ==
  /\ faults < MaxFaults /\ faults' = faults + 1
  /\ call' = [p \in Editors |-> IdleCall] /\ tick' = IdleTick
  /\ UNCHANGED <<ann, pushed, writes>>

----------------------------------------------------------------------------
(* The guests. *)
MarkRead(s, a) ==
  /\ s \in here /\ VisibleToStay(ann[a], s) /\ <<a, s>> \notin reads
  /\ reads' = reads \cup {<<a, s>>}

(* The hotel. *)
Elapse == now < Horizon /\ now' = now + 1 /\ UNCHANGED <<here, floor>>
CheckOut(s) == s \in here /\ here' = here \ {s} /\ UNCHANGED <<floor, now>>
ChangeRoom(s, f) == s \in here /\ floor[s] # f /\ floor' = [floor EXCEPT ![s] = f] /\ UNCHANGED <<here, now>>

----------------------------------------------------------------------------
EditorStep(p) ==
  \E a \in Anns :
    /\ \/ \E r \in [status: {"draft", "scheduled", "live"}, pub: Asked, until: Asked,
                    push: BOOLEAN, aud: Audiences] : CreateRead(p, a, r)
       \/ \E au \in Audiences : NoticeRead(p, a, au)
       \/ \E au \in Audiences, pub, until \in Asked : UpdateRead(p, a, au, pub, until)
       \/ SendNowRead(p, a) \/ CancelScheduleRead(p, a) \/ RetractRead(p, a)
    /\ writes < MaxWrites
    /\ UNCHANGED <<ann, tick, pushed, faults, writes>>

TickStep == TickStart \/ (\E a \in Anns : TickRow(a)) \/ TickNotify \/ TickEnd

GuestStep == \E s \in Stays, a \in Anns : MarkRead(s, a)
HouseStep == Elapse \/ (\E s \in Stays : CheckOut(s) \/ \E f \in Floors : ChangeRoom(s, f))

\* Rows the calls p that are about to save hold, and the run of the scheduler.
HeldBy(p, a) == IF p = Ticker THEN a \in DOMAIN tick.batch ELSE call[p].pc = "save" /\ call[p].key = a
Colliding == {a \in Anns : \E p, q \in Editors \cup {Ticker} : p # q /\ HeldBy(p, a) /\ HeldBy(q, a)}

Work == (\E p \in Editors : EditorStep(p) \/ Save(p) \/ Notify(p)) \/ TickStep \/ TickFails \/ Restart
Next ==
  \/ Work /\ raced' = raced \cup Colliding' /\ UNCHANGED <<House, reads>>
  \/ GuestStep /\ UNCHANGED <<ann, House, call, tick, pushed, raced, faults, writes>>
  \/ HouseStep /\ UNCHANGED <<ann, call, tick, reads, pushed, raced, faults, writes>>

Spec == Init /\ [][Next]_vars

----------------------------------------------------------------------------
TypeOK ==
  /\ \A a \in Anns : ann[a] \in Row
  /\ here \subseteq Stays /\ floor \in [Stays -> Floors] /\ now \in 1..Horizon
  /\ reads \subseteq Anns \X Stays /\ pushed \subseteq Anns \X Stays /\ raced \subseteq Anns

(* A draft is sent, a schedule is sent, cancelled or due, what is live can   *)
(* only be retracted or run out, each at its time, and what has ended stays  *)
(* as it was: whatever the tick read before, unless it and a call of the     *)
(* staff, or two calls, were about to save the same row (resolveTiming,      *)
(* assertStatus, transition).                                                *)
Moved(r, q) ==
  /\ r.status \in {"retracted", "expired"} => q = r
  /\ r.status = "live" =>
       /\ q.status \in Published /\ [q EXCEPT !.status = "live"] = r
       /\ q.status = "expired" => ~WithinWindow(r, now)
  /\ q.status = "scheduled" => r.status \in {"none", "scheduled"}
  /\ (r.status # "live" /\ q.status = "live" /\ q.pub # 0) => r.status = "scheduled" /\ q.pub <= now
AnnouncementsMoveForward == [][\A a \in Anns \ raced' : Moved(ann[a], ann'[a])]_vars

(* What guests were pushed or have read was published and is not edited      *)
(* afterwards ("guests may have read version 1"), and a notice for           *)
(* particular guests never reaches anybody else (update, markRead,           *)
(* resolveAudience).                                                         *)
WhatGuestsSawStands == [][
  TypeOK /\ \A x \in pushed \cup reads :
    LET r == ann[x[1]]
    IN  x[1] \notin raced =>
          /\ r.status \in Published /\ ann'[x[1]].aud = r.aud
          /\ r.aud.by = "stays" => x[2] \in r.aud.of]_vars
=============================================================================
