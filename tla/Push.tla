-------------------------------- MODULE Push --------------------------------
(***************************************************************************)
(* The push outbox (PushDispatchService) as one device sees it: notices    *)
(* are queued as rows, sent at once by the request that queued them and    *)
(* later by the every-minute poller, while guests subscribe, leave and the *)
(* server crashes.  Rows of different devices never meet.                  *)
(*                                                                         *)
(* Owners are stays and tenant users.  A device has one subscription row   *)
(* at a time (unique endpoint); Subs are the ids of its successive rows.   *)
(***************************************************************************)
EXTENDS Naturals, FiniteSets

CONSTANTS Rows,          \* ids of push_dispatches
          Subs, Owners,
          Callers,       \* requests and ticks that call notify
          None,
          Kinds,         \* types of notices asked for
          MaxAttempts,   \* PUSH_MAX_ATTEMPTS
          MaxTries,      \* bound: attempts under way when a notice is queued
          MaxFaults      \* bound: crashes and database errors

\* What the parameters have to be; the modules that instantiate this one assume it.
Parameters ==
  /\ MaxAttempts \in Nat \ {0} /\ MaxTries \in Nat /\ MaxFaults \in Nat
  /\ Kinds \subseteq {"announcement", "status", "reminder"}
  /\ None \notin Owners \cup Subs

VARIABLES disp,     \* table push_dispatches
          sub,      \* table push_subscriptions: the owner of a row, None when there is no row
          live,     \* owners that may receive: active, in an active hotel
          call,     \* transactions of enqueueAndSend
          att,      \* calls of attemptSend under way
          queue, running,  \* the batch of the poller, its re-entrancy flag
          faults

vars == <<disp, sub, live, call, att, queue, running, faults>>

Final == {"sent", "failed", "superseded"}
Dispatch == [status: Final \cup {"none", "pending"}, u: Subs \cup {None}, owner: Owners \cup {None},
             kind: Kinds \cup {None}, n: 0..MaxAttempts, due: {"never", "later", "now"}]
Call == [pc: {"idle", "insert"}, u: Subs \cup {None}, owner: Owners \cup {None},
         kind: Kinds \cup {None}, held: BOOLEAN, hits: SUBSET Rows]
Attempt == [id: Rows, polled: BOOLEAN, n: 0..MaxAttempts, snap: Owners \cup {None},
            pc: {"gate", "send", "ok", "bad", "gone", "end", "save"}]

NoRow == [status |-> "none", u |-> None, owner |-> None, kind |-> None, n |-> 0, due |-> "never"]
IdleCall == [pc |-> "idle", u |-> None, owner |-> None, kind |-> None, held |-> FALSE, hits |-> {}]

Init ==
  /\ disp = [i \in Rows |-> NoRow]
  /\ sub = [u \in Subs |-> None]
  /\ live = Owners
  /\ call = [p \in Callers |-> IdleCall]
  /\ att = {} /\ queue = {} /\ running = FALSE /\ faults = 0

----------------------------------------------------------------------------
(* PUSH_REGISTRY: a status or an announcement collapses with its own       *)
(* repeats; announcements and reminders are queued once per device.        *)
Topic(kind, owner) ==
  CASE kind = "announcement" -> <<kind>>
    [] kind = "status"       -> <<kind, owner>>
    [] kind = "reminder"     -> <<kind, owner>>

Key(kind, owner) == IF kind = "status" THEN None ELSE Topic(kind, owner)

Pending(i) == disp[i].status = "pending"
SameTopic(i, c) == disp[i].u = c.u /\ Topic(disp[i].kind, disp[i].owner) = Topic(c.kind, c.owner)
Free == {i \in Rows : disp[i].status = "none"}
Inserting == {p \in Callers : call[p].pc = "insert"}
RowLocked(i) == \E p \in Inserting : i \in call[p].hits

----------------------------------------------------------------------------
Enqueue_NoLock(p, u, kind, held) ==
  LET c == [pc |-> "insert", u |-> u, owner |-> sub[u], kind |-> kind, held |-> held, hits |-> {}]
  IN /\ call[p].pc = "idle" /\ sub[u] \in live
     /\ Cardinality(Free) > Cardinality(Inserting)
     /\ Cardinality(att) + Cardinality(Inserting) < MaxTries
     /\ held => kind = "announcement"
     /\ call' = [call EXCEPT ![p] = [c EXCEPT !.hits = {i \in Rows : Pending(i) /\ SameTopic(i, c)}]]
     /\ UNCHANGED <<disp, sub, live, att, queue, running, faults>>

(* notify finds the device of an owner; the transaction takes the advisory *)
(* lock of (topic, subscription) and updates the pending rows of the topic. *)
Enqueue(p, u, kind, held) ==
  LET c == [pc |-> "insert", u |-> u, owner |-> sub[u], kind |-> kind, held |-> held, hits |-> {}]
  IN /\ call[p].pc = "idle" /\ sub[u] \in live
     /\ Cardinality(Free) > Cardinality(Inserting)
     /\ Cardinality(att) + Cardinality(Inserting) < MaxTries
     /\ held => kind = "announcement"
     /\ \A q \in Inserting : ~(call[q].u = u /\ Topic(call[q].kind, call[q].owner) = Topic(kind, sub[u]))
     /\ call' = [call EXCEPT ![p] = [c EXCEPT !.hits = {i \in Rows : Pending(i) /\ SameTopic(i, c)}]]
     /\ UNCHANGED <<disp, sub, live, att, queue, running, faults>>

Taken(c) ==
  /\ Key(c.kind, c.owner) # None
  /\ \E i \in Rows \ Free : disp[i].u = c.u /\ Key(disp[i].kind, disp[i].owner) = Key(c.kind, c.owner)

(* Attempts are counted until the row is decided. *)
Decided(row, status) == [row EXCEPT !.status = status, !.n = 0, !.due = "never"]

NewRow_NoGrace(c) ==
  [status |-> "pending", u |-> c.u, owner |-> c.owner, kind |-> c.kind, n |-> 0,
   due |-> IF c.held THEN "later" ELSE "never"]

(* nextAttemptAt is the end of the hold, or of a grace for the caller.     *)
NewRow(c) ==
  [status |-> "pending", u |-> c.u, owner |-> c.owner, kind |-> c.kind, n |-> 0, due |-> "later"]

Insert_NotAtomic(p, i) ==
  LET c == call[p] IN
  /\ c.pc = "insert" /\ i \in Free
  /\ disp' = [j \in Rows |-> IF j \in c.hits THEN Decided(disp[j], "superseded")
                             ELSE IF j = i /\ ~Taken(c) THEN NewRow(c) ELSE disp[j]]
  /\ att' = IF Taken(c) \/ c.held THEN att
            ELSE att \cup {[id |-> i, polled |-> FALSE, n |-> 0, pc |-> "gate", snap |-> None]}
  /\ call' = [call EXCEPT ![p] = IdleCall]
  /\ UNCHANGED <<sub, live, queue, running, faults>>

(* The insert: a dedupe key in use rolls the whole transaction back; a row *)
(* that is not held is sent by the caller itself.                          *)
Insert(p, i) ==
  LET c == call[p] IN
  /\ c.pc = "insert" /\ i \in Free
  /\ IF Taken(c) THEN UNCHANGED <<disp, att>>
     ELSE /\ disp' = [j \in Rows |->
                       IF j = i THEN NewRow(c)
                       ELSE IF j \in c.hits THEN Decided(disp[j], "superseded")
                       ELSE disp[j]]
          /\ att' = IF c.held THEN att
                    ELSE att \cup {[id |-> i, polled |-> FALSE, n |-> 0, pc |-> "gate", snap |-> None]}
  /\ call' = [call EXCEPT ![p] = IdleCall]
  /\ UNCHANGED <<sub, live, queue, running, faults>>

----------------------------------------------------------------------------
(* attemptSend, over a row as its sender read it.                          *)
Advance(a, pc) == att' = (att \ {a}) \cup {[a EXCEPT !.pc = pc]}
Leave(a) == att' = att \ {a}

Gate_FirstOnly(a) ==
  /\ a.pc = "gate"
  /\ Advance(a, IF a.n > 0 \/ disp[a.id].owner \in live THEN "send" ELSE "end")
  /\ UNCHANGED <<disp, sub>>

(* The stay (or the staff account) and its hotel must be active. *)
Gate(a) ==
  /\ a.pc = "gate"
  /\ Advance(a, IF disp[a.id].owner \in live THEN "send" ELSE "end")
  /\ UNCHANGED <<disp, sub>>

(* The subscription is read and the message handed to the push service,    *)
(* which takes it, refuses it, or reports the device gone.                 *)
Send(a) ==
  LET owner == sub[disp[a.id].u] IN
  /\ a.pc = "send"
  /\ \E pc \in IF owner = None THEN {"end"} ELSE {"ok", "bad", "gone"} :
       att' = (att \ {a}) \cup {[a EXCEPT !.pc = pc, !.snap = owner]}
  /\ UNCHANGED <<disp, sub>>

(* The subscription of a device that is gone is deleted. *)
DropSub(a) ==
  /\ a.pc = "gone"
  /\ sub' = [sub EXCEPT ![disp[a.id].u] = None]
  /\ Advance(a, "end")
  /\ UNCHANGED disp

Guarded_Always(i, row) == disp' = [disp EXCEPT ![i] = row]

(* The UPDATE of recordSuccess and recordFailure waits for a transaction   *)
(* that holds the row and then finds it only if it is still pending.       *)
Guarded(i, row) ==
  disp' = IF Pending(i) THEN [disp EXCEPT ![i] = row] ELSE disp

Failed_OneMore(row, n, terminal) ==
  IF terminal \/ n > MaxAttempts
  THEN Decided(row, "failed")
  ELSE [row EXCEPT !.status = "pending", !.n = n, !.due = "later"]

(* The last attempt, or a failure for good, decides; else the row backs off. *)
Failed(row, n, terminal) ==
  IF terminal \/ n >= MaxAttempts
  THEN Decided(row, "failed")
  ELSE [row EXCEPT !.status = "pending", !.n = n, !.due = "later"]

RecordSent(a) ==
  /\ a.pc = "ok" /\ ~RowLocked(a.id)
  /\ Guarded(a.id, Decided(disp[a.id], "sent"))
  /\ IF Pending(a.id) THEN Advance(a, "save") ELSE Leave(a)
  /\ UNCHANGED sub

RecordFailed(a) ==
  /\ a.pc \in {"bad", "end"} /\ ~RowLocked(a.id)
  /\ Guarded(a.id, Failed(disp[a.id], a.n + 1, a.pc = "end"))
  /\ IF Pending(a.id) /\ a.pc = "bad" /\ a.n + 1 < MaxAttempts THEN Advance(a, "save") ELSE Leave(a)
  /\ UNCHANGED sub

(* The subscription's health is saved as the whole row it was read as; a   *)
(* row deleted since is inserted again, unless the device has a new one.   *)
SaveSub(a) ==
  LET u == disp[a.id].u IN
  /\ a.pc = "save"
  /\ sub' = IF \E v \in Subs \ {u} : sub[v] # None THEN sub ELSE [sub EXCEPT ![u] = a.snap]
  /\ Leave(a)
  /\ UNCHANGED disp

Try(i, polled) ==
  /\ \E a \in att : /\ a.id = i /\ a.polled = polled
                    /\ \/ Gate(a) \/ Send(a) \/ DropSub(a)
                       \/ RecordSent(a) \/ RecordFailed(a) \/ SaveSub(a)
  /\ UNCHANGED <<live, call, queue, running, faults>>

(* A lookup or a write throws: the attempt is recorded as failed, or, with *)
(* the database away, not recorded at all.                                 *)
TryError(a) ==
  /\ faults < MaxFaults /\ faults' = faults + 1
  /\ ~RowLocked(a.id)
  /\ \/ Guarded(a.id, Failed(disp[a.id], a.n + 1, FALSE))
     \/ UNCHANGED disp
  /\ Leave(a)
  /\ UNCHANGED <<sub, live, call, queue, running>>

----------------------------------------------------------------------------
(* The poller: due rows are read once and tried one after the other.       *)
PollStart ==
  LET due == {i \in Rows : Pending(i) /\ disp[i].due = "now"} IN
  /\ ~running /\ due # {}
  /\ running' = TRUE /\ queue' = {<<i, disp[i].n>> : i \in due}
  /\ UNCHANGED <<disp, sub, live, call, att, faults>>

Polling == \E a \in att : a.polled

PollNext(i, n) ==
  /\ running /\ ~Polling
  /\ queue' = queue \ {<<i, n>>}
  /\ att' = att \cup {[id |-> i, polled |-> TRUE, n |-> n, pc |-> "gate", snap |-> None]}
  /\ UNCHANGED <<disp, sub, live, call, running, faults>>

PollDone ==
  /\ running /\ queue = {} /\ ~Polling
  /\ running' = FALSE
  /\ UNCHANGED <<disp, sub, live, call, att, queue, faults>>

Poll == PollStart \/ (\E e \in queue : PollNext(e[1], e[2])) \/ PollDone

(* nextAttemptAt comes: the end of a hold, of a back-off or of the grace   *)
(* for the first attempt, which may take longer than that.                 *)
Ripen(i) ==
  /\ Pending(i) /\ disp[i].due = "later"
  /\ disp' = [disp EXCEPT ![i].due = "now"]
  /\ UNCHANGED <<sub, live, call, att, queue, running, faults>>

(* pruneOld, a month later.  Rows with a dedupe key are kept: their key is *)
(* never asked for again after so long.                                    *)
Prune(i) ==
  /\ disp[i].status \in Final /\ Key(disp[i].kind, disp[i].owner) = None
  /\ \A a \in att : a.id # i
  /\ \A e \in queue : e[1] # i
  /\ disp' = [disp EXCEPT ![i] = NoRow]
  /\ UNCHANGED <<sub, live, call, att, queue, running, faults>>

----------------------------------------------------------------------------
(* The device subscribes (a row of its own is bound anew, else a new row   *)
(* is inserted) and unsubscribes; an owner leaves; the server stops.       *)
Subscribe(u, g) ==
  /\ g \in live
  /\ \/ sub[u] # None
     \/ /\ \A v \in Subs : sub[v] = None
        /\ \A i \in Rows : disp[i].u # u /\ \A p \in Callers : call[p].u # u
  /\ sub' = [sub EXCEPT ![u] = g]
  /\ UNCHANGED <<disp, live, call, att, queue, running, faults>>

Unsubscribe(g) ==
  /\ g \in live /\ \E u \in Subs : sub[u] = g
  /\ sub' = [u \in Subs |-> IF sub[u] = g THEN None ELSE sub[u]]
  /\ UNCHANGED <<disp, live, call, att, queue, running, faults>>

Depart(g) ==
  /\ g \in live /\ live' = live \ {g}
  /\ UNCHANGED <<disp, sub, call, att, queue, running, faults>>

Crash ==
  /\ faults < MaxFaults /\ faults' = faults + 1
  /\ call' = [p \in Callers |-> IdleCall]
  /\ att' = {} /\ queue' = {} /\ running' = FALSE
  /\ UNCHANGED <<disp, sub, live>>

Next ==
  \/ \E p \in Callers, u \in Subs, kind \in Kinds, held \in BOOLEAN : Enqueue(p, u, kind, held)
  \/ \E p \in Callers, i \in Rows : Insert(p, i)
  \/ \E i \in Rows, polled \in BOOLEAN : Try(i, polled)
  \/ \E a \in att : TryError(a)
  \/ Poll
  \/ \E i \in Rows : Ripen(i) \/ Prune(i)
  \/ \E u \in Subs, g \in Owners : Subscribe(u, g)
  \/ \E g \in Owners : Unsubscribe(g) \/ Depart(g)
  \/ Crash

Spec == Init /\ [][Next]_vars

(* Attempts and transactions under way go on (PostgreSQL grants row locks  *)
(* in turn), time passes, and the cron fires every minute.                 *)
Fairness ==
  /\ \A p \in Callers : WF_vars(\E i \in Rows : Insert(p, i))
  /\ \A i \in Rows : SF_vars(\E polled \in BOOLEAN : Try(i, polled))
  /\ \A i \in Rows : WF_vars(Ripen(i))
  /\ WF_vars(Poll)
FairSpec == Spec /\ Fairness

----------------------------------------------------------------------------
TypeOK ==
  /\ disp \in [Rows -> Dispatch] /\ \A i \in Rows : Pending(i) => disp[i].n < MaxAttempts
  /\ sub \in [Subs -> Owners \cup {None}]
  /\ live \subseteq Owners
  /\ call \in [Callers -> Call] /\ att \subseteq Attempt
  /\ queue \subseteq Rows \X (0..MaxAttempts) /\ running \in BOOLEAN
  /\ faults \in 0..MaxFaults
  /\ Cardinality({u \in Subs : sub[u] # None}) <= 1

(* Rapid notices on one topic collapse: whatever callers, attempts and the *)
(* poller overlap, at most one of them waits for a device at any time.     *)
OnePending ==
  /\ TypeOK
  /\ \A i, j \in Rows :
       Pending(i) /\ Pending(j) /\ disp[i].u = disp[j].u
         /\ Topic(disp[i].kind, disp[i].owner) = Topic(disp[j].kind, disp[j].owner) => i = j

(* A decided notice stays decided: an attempt that returns late revives no *)
(* superseded row and overwrites no outcome; only the pruning removes it.  *)
DecidedIsFinal ==
  [][\A i \in Rows :
       disp[i].status \in Final => disp'[i].status \in {disp[i].status, "none"}]_vars

(* A keyed notice (a reminder each tick asks for again, an announcement     *)
(* published twice) loses nothing to its repeats: the repeat that the key  *)
(* refuses leaves the row that is waiting alone.                           *)
RepeatsLoseNothing ==
  [][\A i \in Rows :
       Pending(i) /\ Key(disp[i].kind, disp[i].owner) # None => disp'[i].status # "superseded"]_vars

PastGate(g) == {a \in att : disp[a.id].owner = g /\ a.pc = "send"}

(* A checkout silences: apart from attempts that were past the gate, none  *)
(* comes to sending for that owner any more, retries and holds included.   *)
DepartureSilences ==
  [][\A g \in Owners : g \notin live /\ PastGate(g) = {} => PastGate(g)' = {}]_vars
=============================================================================
