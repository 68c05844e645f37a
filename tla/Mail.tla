-------------------------------- MODULE Mail --------------------------------
(***************************************************************************)
(* The e-mail outbox (NotificationsService, NotificationsListener and the  *)
(* retry cron).  A mail is stored before its first attempt, which whoever  *)
(* queued it makes; the poller makes the others.  An attempt reads the row *)
(* at its start and saves it whole at its end.                             *)
(*                                                                         *)
(* What is stored of a mail with a secret is a masked copy.  `raced`       *)
(* collects the mails two attempts held at once, `lost` those whose        *)
(* outcome could not be recorded.                                          *)
(***************************************************************************)
EXTENDS Naturals, FiniteSets, Sequences

CONSTANTS Mails,     \* rows of notification_outbox
          Events,    \* those an event queues, one per occurrence; the others are resends
          Callers,   \* requests and crons that queue mails
          Poller, None,
          Kinds,     \* the types of mail that are queued
          MaxTries,
          MaxFaults  \* bound: crashes and failed saves

\* What the handlers of the listener queue: two mails with a link to set an
\* account up, two with a secret nobody can tell again, five with neither.
Links == {"owner_setup_link", "staff_invite"}
Secrets == {"tenant_password_reset", "stay_code"}
Plain == {"staff_welcome", "trial_countdown", "trial_expired", "hotel_suspended", "hotel_reactivated"}
Types == Links \cup Secrets \cup Plain

\* What the parameters have to be; the modules that instantiate this one assume it.
Parameters ==
  /\ MaxTries \in Nat \ {0} /\ MaxFaults \in Nat
  /\ Kinds \subseteq Types
  /\ Events \subseteq Mails /\ Poller \notin Callers /\ None \notin Mails

VARIABLES row,     \* table notification_outbox
          waits,   \* mails whose nextAttemptAt is to come
          active,  \* whether the invited account has been set up
          att,     \* the attempt each caller and the poller is making
          batch,   \* the due mails the poller has still to attempt
          running, \* the poller's flag
          copies,  \* ghost: what was delivered of each mail, in order
          raced, lost, faults

vars == <<row, waits, active, att, batch, running, copies, raced, lost, faults>>

Row == [status: {"none", "pending", "sent", "failed"}, kind: Types, tries: Nat]
Copies == {"plain", "link", "real", "masked"}

NoRow == [status |-> "none", kind |-> "staff_welcome", tries |-> 0]
Free == [pc |-> "idle", key |-> None, row |-> NoRow, copy |-> "plain", fresh |-> FALSE]

Init ==
  /\ row = [m \in Mails |-> NoRow]
  /\ waits = {} /\ active = FALSE
  /\ att = [p \in Callers \cup {Poller} |-> Free]
  /\ batch = <<>> /\ running = FALSE
  /\ copies = [m \in Mails |-> <<>>]
  /\ raced = {} /\ lost = {} /\ faults = 0

Idle(p) == att[p].pc = "idle"
Start(p, m, r, fresh) ==
  att' = [att EXCEPT ![p] = [pc |-> "prepare", key |-> m, row |-> r, copy |-> "plain", fresh |-> fresh]]

----------------------------------------------------------------------------
(* Queuing.  A repeated event meets the unique dedupe key and queues         *)
(* nothing: an occurrence has the one row.  The caller holds the real copy.  *)
Enqueue(p, m, k) ==
  /\ m \in Events /\ Idle(p) /\ row[m].status = "none"
  /\ LET r == [status |-> "pending", kind |-> k, tries |-> 0]
     IN  row' = [row EXCEPT ![m] = r] /\ Start(p, m, r, TRUE)
  /\ waits' = waits \cup {m}
  /\ UNCHANGED <<active, batch, running, copies, lost, faults>>

\* Of a failed mail, as a new one: a link is minted anew, a secret is gone
\* and fails to render.
Resend_Any(p, o, m) ==
  /\ m \notin Events /\ Idle(p) /\ row[o].status # "none" /\ row[m].status = "none"
  /\ LET r == [row[o] EXCEPT !.status = "pending", !.tries = 0]
     IN  /\ row' = [row EXCEPT ![o] = r] /\ waits' = waits \cup {o}
         /\ Start(p, o, r, FALSE)
  /\ UNCHANGED <<active, batch, running, copies, lost, faults>>

Resend(p, o, m) ==
  /\ m \notin Events /\ Idle(p) /\ row[o].status = "failed" /\ row[m].status = "none"
  /\ LET bad == row[o].kind \in Secrets
         r == [status |-> IF bad THEN "failed" ELSE "pending", kind |-> row[o].kind, tries |-> 0]
     IN  /\ row' = [row EXCEPT ![m] = r]
         /\ waits' = IF bad THEN waits ELSE waits \cup {m}
         /\ Start(p, m, r, FALSE)
  /\ UNCHANGED <<active, batch, running, copies, lost, faults>>

----------------------------------------------------------------------------
(* One attempt: attemptSend. *)
Prepared(p) ==
  LET a == att[p]
  IN  CASE a.row.kind \in Plain -> "plain"
        [] a.row.kind \in Links -> "link"
        [] OTHER -> IF a.fresh THEN "real" ELSE "masked"

\* A link that is not at hand is minted anew and the row saved with it, unless
\* the account has been set up meanwhile: that fails for good.
Mints(p) == att[p].row.kind \in Links /\ ~att[p].fresh

Prepare(p) ==
  /\ att[p].pc = "prepare"
  /\ IF att[p].row.status # "pending"
     THEN att' = [att EXCEPT ![p] = Free] /\ UNCHANGED row
     ELSE IF Mints(p) /\ active
     THEN att' = [att EXCEPT ![p].pc = "obsolete"] /\ UNCHANGED row
     ELSE /\ att' = [att EXCEPT ![p].pc = "send", ![p].copy = Prepared(p)]
          /\ row' = IF Mints(p) THEN [row EXCEPT ![att[p].key] = att[p].row] ELSE row
  /\ UNCHANGED <<waits, active, batch, running, copies, lost, faults>>

Deliver(p) ==
  /\ att[p].pc = "send"
  /\ copies' = [copies EXCEPT ![att[p].key] = Append(@, att[p].copy)]
  /\ att' = [att EXCEPT ![p].pc = "success"]
  /\ UNCHANGED <<row, waits, active, batch, running, lost, faults>>

Reject(p) ==
  /\ att[p].pc = "send"
  /\ att' = [att EXCEPT ![p].pc = "failure"]
  /\ UNCHANGED <<row, waits, active, batch, running, copies, lost, faults>>

Store(p, r, due) ==
  /\ row' = [row EXCEPT ![att[p].key] = r]
  /\ waits' = IF due THEN waits \cup {att[p].key} ELSE waits \ {att[p].key}
  /\ att' = [att EXCEPT ![p] = Free]
  /\ UNCHANGED <<active, batch, running, copies>>

RecordSuccess(p) ==
  /\ att[p].pc = "success"
  /\ Store(p, [att[p].row EXCEPT !.status = "sent", !.tries = @ + 1], FALSE)
  /\ UNCHANGED <<lost, faults>>

AfterFailure(r, terminal) ==
  [r EXCEPT !.tries = @ + 1,
            !.status = IF terminal \/ r.tries + 1 >= MaxTries THEN "failed" ELSE @]

RecordFailure_Unbounded(p) ==
  /\ att[p].pc \in {"failure", "obsolete"}
  /\ LET r == [att[p].row EXCEPT !.status = "pending"] IN Store(p, r, TRUE)
  /\ UNCHANGED <<lost, faults>>

RecordFailure(p) ==
  /\ att[p].pc \in {"failure", "obsolete"}
  /\ LET r == AfterFailure(att[p].row, att[p].pc = "obsolete")
     IN  Store(p, r, r.status = "pending")
  /\ UNCHANGED <<lost, faults>>

\* The save of a success fails: it is recorded as a failure on a row that
\* already says "sent" and has counted the attempt.
RecordSuccessAsFailure(p) ==
  /\ att[p].pc = "success" /\ faults < MaxFaults
  /\ LET r == AfterFailure([att[p].row EXCEPT !.status = "sent", !.tries = @ + 1], FALSE)
     IN  Store(p, r, r.status # "failed")
  /\ lost' = lost \cup {att[p].key} /\ faults' = faults + 1

\* The outcome cannot be saved at all; the poller's run ends with it.
RecordFails(p) ==
  /\ att[p].pc \in {"success", "failure", "obsolete"} /\ faults < MaxFaults
  /\ att' = [att EXCEPT ![p] = Free]
  /\ lost' = lost \cup {att[p].key} /\ faults' = faults + 1
  /\ IF p = Poller THEN batch' = <<>> /\ running' = FALSE ELSE UNCHANGED <<batch, running>>
  /\ UNCHANGED <<row, waits, active, copies>>

----------------------------------------------------------------------------
(* The poller: a run at a time, mail after mail. *)
DueMails == {m \in Mails : row[m].status = "pending" /\ m \notin waits}

PollStart ==
  /\ ~running /\ DueMails # {}
  /\ running' = TRUE /\ batch' = [m \in DueMails |-> row[m]]
  /\ UNCHANGED <<row, waits, active, att, copies, lost, faults>>

PollNext(m) ==
  /\ running /\ Idle(Poller) /\ m \in DOMAIN batch
  /\ Start(Poller, m, batch[m], FALSE)
  /\ batch' = [n \in DOMAIN batch \ {m} |-> batch[n]]
  /\ UNCHANGED <<row, waits, active, running, copies, lost, faults>>

PollEnd ==
  /\ running /\ Idle(Poller) /\ DOMAIN batch = {}
  /\ running' = FALSE
  /\ UNCHANGED <<row, waits, active, att, batch, copies, lost, faults>>

(* The grace of the first attempt or the backoff of the last one is over. *)
Elapse(m) ==
  /\ waits' = waits \ {m} /\ m \in waits
  /\ UNCHANGED <<row, active, att, batch, running, copies, lost, faults>>

\* The invited person sets the account up.
SetUp ==
  /\ ~active /\ active' = TRUE
  /\ \E m \in Mails : row[m].kind \in Links /\ row[m].status # "none"
  /\ UNCHANGED <<row, waits, att, batch, running, copies, lost, faults>>

Crash ==
  /\ faults < MaxFaults /\ faults' = faults + 1
  /\ lost' = lost \cup {att[p].key : p \in {q \in Callers \cup {Poller} : ~Idle(q)}}
  /\ att' = [p \in Callers \cup {Poller} |-> Free] /\ batch' = <<>> /\ running' = FALSE
  /\ UNCHANGED <<row, waits, active, copies>>

----------------------------------------------------------------------------
Attempt(p) == Prepare(p) \/ Deliver(p) \/ Reject(p) \/ RecordSuccess(p) \/ RecordFailure(p)
Poll == PollStart \/ (\E m \in Mails : PollNext(m)) \/ PollEnd
Fault == Crash \/ \E p \in Callers \cup {Poller} : RecordSuccessAsFailure(p) \/ RecordFails(p)

HeldBy(p, m) == (~Idle(p) /\ att[p].key = m) \/ (p = Poller /\ m \in DOMAIN batch)
Colliding == {m \in Mails : \E p, q \in Callers \cup {Poller} : p # q /\ HeldBy(p, m) /\ HeldBy(q, m)}
Noting == raced' = raced \cup Colliding'

Queue(p) == \E m \in Mails : (\E k \in Kinds : Enqueue(p, m, k)) \/ (\E o \in Mails : Resend(p, o, m))
Step ==
  \/ \E p \in Callers : Queue(p)
  \/ \E p \in Callers \cup {Poller} : Attempt(p)
  \/ Poll \/ Fault \/ SetUp
  \/ \E m \in Mails : Elapse(m)
Next == Step /\ Noting

\* The server runs: attempts end, the cron fires, time goes by.
Carries(p) == Attempt(p) /\ Noting
Runs == Poll /\ Noting
Goes(m) == Elapse(m) /\ Noting
Fairness ==
  /\ \A p \in Callers \cup {Poller} : WF_vars(Carries(p))
  /\ WF_vars(Runs)
  /\ \A m \in Mails : WF_vars(Goes(m))
Spec == Init /\ [][Next]_vars /\ Fairness

----------------------------------------------------------------------------
TypeOK ==
  /\ row \in [Mails -> Row] /\ waits \subseteq Mails /\ DOMAIN batch \subseteq Mails
  /\ \A p \in Callers \cup {Poller} : att[p].row \in Row /\ (Idle(p) <=> att[p].key = None)
  /\ \A m \in Mails : copies[m] \in Seq(Copies)

(* What the log says of a mail is what happened and stays so: "sent" is      *)
(* delivered once, "failed" is not delivered after its last try; except of   *)
(* mails that a slow first attempt and the poller held together and of those *)
(* whose outcome was lost (attemptSend, recordSuccess, recordFailure,        *)
(* resend).                                                                  *)
Told(m) ==
  CASE row[m].status = "sent" -> Len(copies[m]) = 1
    [] row[m].status = "failed" -> copies[m] = <<>> /\ row[m].tries <= MaxTries
    [] OTHER -> Len(copies[m]) = Cardinality({p \in Callers \cup {Poller} : att[p].pc = "success" /\ att[p].key = m})
OutcomesStand == [][
  TypeOK /\ \A m \in Mails \ (raced' \cup lost') :
    Told(m) /\ (row[m].status \in {"sent", "failed"} => row'[m] = row[m])]_vars

(* What is delivered is the real copy, never the masked one that is stored   *)
(* ("masked copy persisted, real copy sent", stay-code.template.ts).         *)
RealCopySent == \A m \in Mails : "masked" \notin {copies[m][i] : i \in DOMAIN copies[m]}
=============================================================================
