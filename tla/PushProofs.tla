----------------------------- MODULE PushProofs -----------------------------
(***************************************************************************)
(* Proofs about Push, for every set of rows, devices, owners and callers   *)
(* and any number of attempts and faults: one notice of a topic waits for  *)
(* a device, a decided notice stays decided, repeats of a keyed notice     *)
(* lose nothing, and a departure silences.                                 *)
(*                                                                         *)
(* CallOK is what the advisory lock is for: the rows that an enqueuing     *)
(* transaction has updated are, until it inserts its own, exactly the      *)
(* pending rows of its topic.                                              *)
(***************************************************************************)
EXTENDS Push, FiniteSetTheorems, TLAPS

RowOK(d) == d.status # "none" => d.u \in Subs /\ d.owner \in Owners /\ d.kind \in Kinds
CallOK(c) ==
  c.pc = "insert" => /\ c.u \in Subs /\ c.owner \in Owners /\ c.kind \in Kinds
                     /\ c.hits = {i \in Rows : Pending(i) /\ SameTopic(i, c)}

OneSub == \A u, v \in Subs : sub[u] # None /\ sub[v] # None => u = v

OneInserter ==
  \A p, q \in Inserting :
    call[p].u = call[q].u /\ Topic(call[p].kind, call[p].owner) = Topic(call[q].kind, call[q].owner)
      => p = q

OneOfTopic ==
  \A i, j \in Rows :
    Pending(i) /\ Pending(j) /\ disp[i].u = disp[j].u
      /\ Topic(disp[i].kind, disp[i].owner) = Topic(disp[j].kind, disp[j].owner) => i = j

Types ==
  /\ disp \in [Rows -> Dispatch] /\ sub \in [Subs -> Owners \cup {None}] /\ live \subseteq Owners
  /\ call \in [Callers -> Call] /\ att \subseteq Attempt
  /\ queue \subseteq Rows \X (0..MaxAttempts) /\ running \in BOOLEAN /\ faults \in 0..MaxFaults

PushInv ==
  /\ Types /\ OneSub /\ OneInserter /\ OneOfTopic
  /\ \A i \in Rows : RowOK(disp[i]) /\ (Pending(i) => disp[i].n < MaxAttempts)
  /\ \A p \in Callers : CallOK(call[p])
  /\ \A a \in att : disp[a.id].status # "none"
  /\ \A e \in queue : disp[e[1]].status # "none"

----------------------------------------------------------------------------
(* Steps of the model. *)
LEMMA Fields ==
  ASSUME PushInv, NEW i \in Rows
  PROVE  /\ disp[i] \in Dispatch /\ disp[i].n \in 0 .. MaxAttempts
         /\ disp[i].status # "none" => /\ disp[i].u \in Subs /\ disp[i].owner \in Owners
                                       /\ disp[i].kind \in Kinds
                                       /\ sub[disp[i].u] \in Owners \cup {None}
BY DEF PushInv, Types, Dispatch, RowOK

(* A step that touches neither the notices nor the transactions.           *)
LEMMA QuietKeeps ==
  ASSUME PushInv, UNCHANGED <<disp, call>>,
         sub' \in [Subs -> Owners \cup {None}], OneSub', live' \subseteq Owners,
         att' \subseteq Attempt, \A a \in att' : disp[a.id].status # "none",
         queue' \subseteq Rows \X (0..MaxAttempts), \A e \in queue' : disp[e[1]].status # "none",
         running' \in BOOLEAN, faults' \in 0..MaxFaults
  PROVE  PushInv'
<1>1. Types' /\ OneInserter' /\ OneOfTopic'
  BY DEF PushInv, Types, OneInserter, OneOfTopic, Inserting, Pending
<1>2. \A p \in Callers : CallOK(call[p])'
  BY DEF PushInv, CallOK, Pending, SameTopic
<1>3. \A i \in Rows : RowOK(disp[i])' /\ (Pending(i)' => disp'[i].n < MaxAttempts)
  BY DEF PushInv, RowOK, Pending
<1> QED
  BY <1>1, <1>2, <1>3 DEF PushInv

(* An outcome of a waiting notice that no transaction has locked, or a     *)
(* change that leaves it waiting.                                          *)
LEMMA OutcomeKeeps ==
  ASSUME PushInv, NEW i \in Rows, Pending(i), NEW r \in Dispatch,
         disp' = [disp EXCEPT ![i] = r], UNCHANGED <<call, sub, live>>,
         r.u = disp[i].u, r.owner = disp[i].owner, r.kind = disp[i].kind, r.status # "none",
         r.status = "pending" => r.n < MaxAttempts,
         r.status # "pending" => ~RowLocked(i),
         att' \subseteq Attempt, \A a \in att' : disp[a.id].status # "none",
         queue' = queue, running' = running, faults' \in 0..MaxFaults
  PROVE  PushInv'
<1>1. /\ disp' \in [Rows -> Dispatch] /\ disp'[i] = r
      /\ \A j \in Rows \ {i} : disp'[j] = disp[j]
  BY DEF PushInv, Types
<1>2. \A j \in Rows : /\ Pending(j)' => Pending(j)
                      /\ disp'[j].u = disp[j].u /\ disp'[j].owner = disp[j].owner
                      /\ disp'[j].kind = disp[j].kind
                      /\ disp[j].status # "none" => disp'[j].status # "none"
  BY <1>1 DEF Pending
<1>3. Types' /\ OneSub' /\ OneInserter'
  BY <1>1 DEF PushInv, Types, OneSub, OneInserter, Inserting
<1>4. OneOfTopic'
  BY <1>2 DEF PushInv, OneOfTopic
<1>5. ASSUME NEW p \in Callers PROVE CallOK(call[p])'
  <2> SUFFICES ASSUME call[p].pc = "insert"
               PROVE  call[p].hits = {j \in Rows : Pending(j)' /\ SameTopic(j, call[p])'}
    BY DEF PushInv, CallOK
  <2>1. call[p].hits = {j \in Rows : Pending(j) /\ SameTopic(j, call[p])}
    BY DEF PushInv, CallOK
  <2>2. \A j \in Rows : SameTopic(j, call[p])' <=> SameTopic(j, call[p])
    BY <1>2 DEF SameTopic
  <2>3. \A j \in Rows \ {i} : Pending(j)' <=> Pending(j)
    BY <1>1 DEF Pending
  <2>4. CASE i \in call[p].hits
    <3>1. RowLocked(i)
      BY <2>4 DEF RowLocked, Inserting
    <3>2. Pending(i)'
      BY <1>1, <3>1 DEF Pending
    <3> QED
      BY <2>1, <2>2, <2>3, <2>4, <3>2
  <2>5. CASE i \notin call[p].hits
    BY <2>1, <2>2, <2>3, <2>5
  <2> QED
    BY <2>4, <2>5
<1>6. \A j \in Rows : RowOK(disp[j])' /\ (Pending(j)' => disp'[j].n < MaxAttempts)
  BY <1>1 DEF PushInv, RowOK, Pending
<1>7. /\ \A a \in att' : disp'[a.id].status # "none"
      /\ \A e \in queue' : disp'[e[1]].status # "none"
  BY <1>2 DEF PushInv, Types, Attempt
<1> QED
  BY <1>3, <1>4, <1>5, <1>6, <1>7 DEF PushInv

LEMMA EnqueueKeeps ==
  ASSUME PushInv, NEW p \in Callers, NEW u \in Subs, NEW kind \in Kinds, NEW held \in BOOLEAN,
         Enqueue(p, u, kind, held)
  PROVE  PushInv'
<1>1. sub[u] \in Owners
  BY DEF Enqueue, PushInv, Types
<1> DEFINE c == [pc |-> "insert", u |-> u, owner |-> sub[u], kind |-> kind, held |-> held, hits |-> {}]
           H == {i \in Rows : Pending(i) /\ SameTopic(i, c)}
<1>2. PICK q \in Call : /\ call' = [call EXCEPT ![p] = q]
                        /\ q.pc = "insert" /\ q.u = u /\ q.owner = sub[u] /\ q.kind = kind /\ q.hits = H
  <2>1. H \in SUBSET Rows
    OBVIOUS
  <2> HIDE DEF H
  <2>2. [c EXCEPT !.hits = H] \in Call
    BY <1>1, <2>1 DEF Call
  <2>3. call' = [call EXCEPT ![p] = [c EXCEPT !.hits = H]]
    BY DEF Enqueue, H
  <2> QED
    BY <2>2, <2>3
<1>3. H = {i \in Rows : Pending(i) /\ SameTopic(i, q)}
  BY <1>2 DEF SameTopic
<1>4. UNCHANGED <<disp, sub, live, att, queue, running, faults>>
  BY DEF Enqueue
<1>5. call' \in [Callers -> Call] /\ call'[p] = q /\ \A x \in Callers \ {p} : call'[x] = call[x]
  BY <1>2 DEF PushInv, Types
<1>6. \A x \in Callers \ {p} : x \in Inserting =>
        ~(call[x].u = u /\ Topic(call[x].kind, call[x].owner) = Topic(kind, sub[u]))
  BY DEF Enqueue
<1>7. OneInserter'
  BY <1>2, <1>5, <1>6 DEF PushInv, OneInserter, Inserting
<1>8. ASSUME NEW x \in Callers PROVE CallOK(call[x])'
  <2>1. CASE x = p
    BY <1>1, <1>2, <1>3, <1>4, <1>5, <2>1 DEF CallOK, Pending, SameTopic
  <2>2. CASE x # p
    BY <1>4, <1>5, <2>2 DEF PushInv, CallOK, Pending, SameTopic
  <2> QED
    BY <2>1, <2>2
<1>9. Types' /\ OneSub' /\ OneOfTopic'
  BY <1>4, <1>5 DEF PushInv, Types, OneSub, OneOfTopic, Pending
<1> QED
  BY <1>4, <1>7, <1>8, <1>9 DEF PushInv, RowOK, Pending

LEMMA Bases ==
  ASSUME Parameters
  PROVE  /\ NoRow \in Dispatch /\ NoRow.status = "none"
         /\ IdleCall \in Call /\ IdleCall.pc = "idle"
BY DEF Parameters, NoRow, Dispatch, IdleCall, Call

LEMMA DecidedOf ==
  ASSUME Parameters, NEW d \in Dispatch, NEW status \in Final
  PROVE  LET e == Decided(d, status)
         IN /\ e \in Dispatch /\ e.status = status /\ e.n = 0
            /\ e.u = d.u /\ e.owner = d.owner /\ e.kind = d.kind
<1>1. 0 \in 0 .. MaxAttempts
  BY DEF Parameters
<1>2. [d EXCEPT !.status = status, !.n = 0, !.due = "never"] \in Dispatch
  BY <1>1 DEF Dispatch
<1> QED
  BY <1>2 DEF Decided, Dispatch

(* A transaction ends: the others keep their locks.                        *)
LEMMA LocksKept ==
  ASSUME Parameters, PushInv, NEW p \in Callers, call' = [call EXCEPT ![p] = IdleCall]
  PROVE  /\ call' \in [Callers -> Call] /\ call'[p].pc = "idle" /\ OneInserter'
         /\ \A x \in Callers \ {p} : call'[x] = call[x]
BY Bases DEF PushInv, Types, OneInserter, Inserting

LEMMA InsertTakenKeeps ==
  ASSUME Parameters, PushInv, NEW p \in Callers, NEW i \in Rows, Insert(p, i), Taken(call[p])
  PROVE  PushInv'
<1>1. UNCHANGED <<disp, att, sub, live, queue, running, faults>> /\ call' = [call EXCEPT ![p] = IdleCall]
  BY DEF Insert
<1>2. \A x \in Callers : CallOK(call[x])'
  BY <1>1, LocksKept DEF PushInv, CallOK, Pending, SameTopic
<1> QED
  BY <1>1, <1>2, LocksKept
     DEF PushInv, Types, OneSub, OneOfTopic, Pending, RowOK

LEMMA InsertKeeps ==
  ASSUME Parameters, PushInv, NEW p \in Callers, NEW i \in Rows, Insert(p, i), ~Taken(call[p])
  PROVE  PushInv'
<1> DEFINE c == call[p]
<1>1. /\ c \in Call /\ c.u \in Subs /\ c.owner \in Owners /\ c.kind \in Kinds
      /\ c.hits = {j \in Rows : Pending(j) /\ SameTopic(j, c)}
      /\ c.pc = "insert" /\ i \in Free
  BY DEF Insert, PushInv, Types, CallOK
<1>2. PICK r \in Dispatch : /\ r = NewRow(c) /\ r.status = "pending" /\ r.n = 0
                            /\ r.u = c.u /\ r.owner = c.owner /\ r.kind = c.kind
  <2>1. NewRow(c) \in Dispatch
    BY <1>1 DEF NewRow, Dispatch, Parameters
  <2> QED
    BY <2>1 DEF NewRow
<1>3. i \notin c.hits
  BY <1>1 DEF Free, Pending
<1>4. ASSUME NEW j \in c.hits
      PROVE  /\ disp'[j] \in Dispatch /\ disp'[j].status = "superseded"
             /\ disp'[j].u = disp[j].u /\ disp'[j].owner = disp[j].owner /\ disp'[j].kind = disp[j].kind
  <2>1. j \in Rows /\ disp'[j] = Decided(disp[j], "superseded")
    BY <1>1, <1>3 DEF Insert
  <2> QED
    BY <2>1, Fields, DecidedOf DEF Final
<1>5. disp'[i] = r /\ \A j \in Rows \ {i} : j \notin c.hits => disp'[j] = disp[j]
  BY <1>2 DEF Insert
<1>6. disp' \in [Rows -> Dispatch]
  <2>1. DOMAIN disp' = Rows /\ disp' = [j \in Rows |-> disp'[j]]
    BY DEF Insert
  <2>2. \A j \in Rows : disp'[j] \in Dispatch
    BY <1>4, <1>5, Fields
  <2> QED
    BY <2>1, <2>2
<1>7. \A j \in Rows \ {i} :
        /\ disp'[j].u = disp[j].u /\ disp'[j].owner = disp[j].owner /\ disp'[j].kind = disp[j].kind
        /\ disp[j].status # "none" => disp'[j].status # "none"
        /\ disp'[j].status # "none" => disp[j].status # "none"
        /\ Pending(j)' <=> Pending(j) /\ j \notin c.hits
        /\ disp'[j].status = "pending" => disp'[j].n = disp[j].n
  BY <1>1, <1>4, <1>5 DEF Pending
<1>8. call' = [call EXCEPT ![p] = IdleCall] /\ UNCHANGED <<sub, live, queue, running, faults>>
  BY DEF Insert
<1>9. att' \subseteq Attempt /\ \A a \in att' : disp'[a.id].status # "none"
  <2>1. [id |-> i, polled |-> FALSE, n |-> 0, pc |-> "gate", snap |-> None] \in Attempt
    BY DEF Attempt, Parameters
  <2>2. ASSUME NEW a \in att' PROVE a \in Attempt /\ disp'[a.id].status # "none"
    <3>1. CASE a \in att
      <4>1. a \in Attempt /\ a.id \in Rows /\ disp[a.id].status # "none"
        BY <3>1 DEF PushInv, Types, Attempt
      <4> QED
        BY <1>2, <1>5, <1>7, <4>1
    <3>2. CASE a \notin att
      <4>1. a = [id |-> i, polled |-> FALSE, n |-> 0, pc |-> "gate", snap |-> None]
        BY <2>2, <3>2 DEF Insert
      <4>2. a.id = i
        BY <4>1
      <4> QED
        BY <1>2, <1>5, <2>1, <4>1, <4>2
    <3> QED
      BY <3>1, <3>2
  <2> QED
    BY <2>2
<1>10. OneOfTopic'
  <2> SUFFICES ASSUME NEW j \in Rows, NEW k \in Rows, Pending(j)', Pending(k)',
                      disp'[j].u = disp'[k].u,
                      Topic(disp'[j].kind, disp'[j].owner) = Topic(disp'[k].kind, disp'[k].owner)
               PROVE  j = k
    BY DEF OneOfTopic
  <2>1. ASSUME NEW x \in Rows \ {i}, Pending(x)', disp'[x].u = r.u,
               Topic(disp'[x].kind, disp'[x].owner) = Topic(r.kind, r.owner)
        PROVE  FALSE
    <3>1. Pending(x) /\ x \notin c.hits /\ SameTopic(x, c)
      BY <1>2, <1>7, <2>1 DEF SameTopic
    <3> QED
      BY <1>1, <3>1
  <2>2. CASE j = i \/ k = i
    BY <1>5, <2>1, <2>2
  <2>3. CASE j # i /\ k # i
    BY <1>7, <2>3 DEF PushInv, OneOfTopic
  <2> QED
    BY <2>2, <2>3
<1>11. ASSUME NEW x \in Callers, call'[x].pc = "insert"
       PROVE  call'[x].hits = {j \in Rows : Pending(j)' /\ SameTopic(j, call[x])'}
  <2>1. x # p /\ call'[x] = call[x] /\ x \in Inserting /\ p \in Inserting
    BY <1>1, <1>8, <1>11, LocksKept DEF Inserting
  <2>2. ~(call[x].u = c.u /\ Topic(call[x].kind, call[x].owner) = Topic(c.kind, c.owner))
    BY <2>1 DEF PushInv, OneInserter
  <2>3. call[x].hits = {j \in Rows : Pending(j) /\ SameTopic(j, call[x])}
    BY <2>1 DEF PushInv, CallOK, Inserting
  <2>4. ~SameTopic(i, call[x])' /\ ~Pending(i)
    BY <1>1, <1>2, <1>5, <2>1, <2>2 DEF SameTopic, Free, Pending
  <2>5. ASSUME NEW j \in Rows \ {i}
        PROVE  Pending(j)' /\ SameTopic(j, call[x])' <=> Pending(j) /\ SameTopic(j, call[x])
    <3>1. SameTopic(j, call[x])' <=> SameTopic(j, call[x])
      BY <1>7, <2>1 DEF SameTopic
    <3>2. j \in c.hits => SameTopic(j, c)
      BY <1>1
    <3>3. SameTopic(j, c) => ~SameTopic(j, call[x])
      BY <2>2 DEF SameTopic
    <3> QED
      BY <1>7, <3>1, <3>2, <3>3
  <2> QED
    BY <2>1, <2>3, <2>4, <2>5
<1>12. \A x \in Callers : CallOK(call[x])'
  <2> SUFFICES ASSUME NEW x \in Callers, call'[x].pc = "insert" PROVE CallOK(call[x])'
    BY DEF CallOK
  <2>1. call'[x] = call[x] /\ CallOK(call[x])
    BY <1>8, LocksKept DEF PushInv
  <2> QED
    BY <1>11, <2>1 DEF CallOK
<1>13. \A j \in Rows : RowOK(disp[j])' /\ (Pending(j)' => disp'[j].n < MaxAttempts)
  BY <1>1, <1>2, <1>5, <1>7 DEF PushInv, RowOK, Pending, Parameters
<1>14. \A e \in queue' : disp'[e[1]].status # "none"
  <2>1. \A e \in queue : e[1] \in Rows /\ disp[e[1]].status # "none"
    BY DEF PushInv, Types
  <2> QED
    BY <1>2, <1>5, <1>7, <1>8, <2>1
<1>15. Types' /\ OneSub' /\ OneInserter'
  BY <1>6, <1>8, <1>9, LocksKept DEF PushInv, Types, OneSub
<1> QED
  BY <1>9, <1>10, <1>12, <1>13, <1>14, <1>15 DEF PushInv

----------------------------------------------------------------------------
(* Attempts. *)
Phases == {"gate", "send", "ok", "bad", "gone", "end", "save"}

LEMMA AttemptMoves ==
  ASSUME PushInv, NEW a \in att,
         \/ Leave(a) \/ UNCHANGED att
         \/ \E pc \in Phases : Advance(a, pc)
         \/ \E pc \in Phases, g \in Owners \cup {None} :
              att' = (att \ {a}) \cup {[a EXCEPT !.pc = pc, !.snap = g]}
  PROVE  att' \subseteq Attempt /\ \A b \in att' : disp[b.id].status # "none"
<1>1. a \in Attempt /\ att \subseteq Attempt /\ \A b \in att : disp[b.id].status # "none"
  BY DEF PushInv, Types
<1>2. ASSUME NEW pc \in Phases, Advance(a, pc)
      PROVE  att' \subseteq Attempt /\ \A b \in att' : disp[b.id].status # "none"
  <2>1. [a EXCEPT !.pc = pc] \in Attempt /\ [a EXCEPT !.pc = pc].id = a.id
    BY <1>1 DEF Attempt, Phases
  <2> QED
    BY <1>1, <1>2, <2>1 DEF Advance
<1>3. ASSUME NEW pc \in Phases, NEW g \in Owners \cup {None},
             att' = (att \ {a}) \cup {[a EXCEPT !.pc = pc, !.snap = g]}
      PROVE  att' \subseteq Attempt /\ \A b \in att' : disp[b.id].status # "none"
  <2>1. [a EXCEPT !.pc = pc, !.snap = g] \in Attempt /\ [a EXCEPT !.pc = pc, !.snap = g].id = a.id
    BY <1>1 DEF Attempt, Phases
  <2> QED
    BY <1>1, <1>3, <2>1
<1> QED
  BY <1>1, <1>2, <1>3 DEF Leave

LEMMA FailedOf ==
  ASSUME Parameters, NEW d \in Dispatch, NEW n \in 0 .. MaxAttempts, NEW terminal \in BOOLEAN
  PROVE  LET e == Failed(d, n + 1, terminal)
         IN /\ e \in Dispatch /\ e.status \in {"failed", "pending"}
            /\ e.status = "pending" => e.n < MaxAttempts
            /\ e.u = d.u /\ e.owner = d.owner /\ e.kind = d.kind
<1>1. CASE terminal \/ n + 1 >= MaxAttempts
  <2>1. Failed(d, n + 1, terminal) = Decided(d, "failed")
    BY <1>1 DEF Failed
  <2> QED
    BY <2>1, DecidedOf DEF Final
<1>2. CASE ~(terminal \/ n + 1 >= MaxAttempts)
  <2>1. n + 1 < MaxAttempts /\ n + 1 \in 0 .. MaxAttempts
    BY <1>2 DEF Parameters
  <2>2. [d EXCEPT !.status = "pending", !.n = n + 1, !.due = "later"] \in Dispatch
    BY <2>1 DEF Dispatch
  <2>3. Failed(d, n + 1, terminal) = [d EXCEPT !.status = "pending", !.n = n + 1, !.due = "later"]
    BY <1>2 DEF Failed
  <2> QED
    BY <2>1, <2>2, <2>3 DEF Dispatch
<1> QED
  BY <1>1, <1>2

(* A guarded outcome: it decides a row that is free, or nothing.           *)
LEMMA GuardedKeeps ==
  ASSUME PushInv, NEW a \in att, NEW r \in Dispatch, Guarded(a.id, r), ~RowLocked(a.id),
         UNCHANGED <<call, sub, live, queue, running>>,
         r.u = disp[a.id].u, r.owner = disp[a.id].owner, r.kind = disp[a.id].kind, r.status # "none",
         r.status = "pending" => r.n < MaxAttempts,
         Leave(a) \/ \E pc \in Phases : Advance(a, pc),
         faults' \in 0..MaxFaults
  PROVE  PushInv'
<1>1. a.id \in Rows
  BY DEF PushInv, Types, Attempt
<1>2. att' \subseteq Attempt /\ \A b \in att' : disp[b.id].status # "none"
  BY AttemptMoves
<1>3. CASE Pending(a.id)
  BY <1>1, <1>2, <1>3, OutcomeKeeps DEF Guarded
<1>4. CASE ~Pending(a.id)
  BY <1>2, <1>4, QuietKeeps DEF Guarded, PushInv, Types, OneSub
<1> QED
  BY <1>3, <1>4

LEMMA TryKeeps ==
  ASSUME Parameters, PushInv, NEW i \in Rows, NEW polled \in BOOLEAN, Try(i, polled)
  PROVE  PushInv'
<1>1. PICK a \in att : /\ a.id = i
                       /\ \/ Gate(a) \/ Send(a) \/ DropSub(a)
                          \/ RecordSent(a) \/ RecordFailed(a) \/ SaveSub(a)
  BY DEF Try
<1>2. UNCHANGED <<live, call, queue, running, faults>>
  BY DEF Try
<1>3. a \in Attempt /\ disp[i].status # "none" /\ disp[i] \in Dispatch
  BY <1>1, Fields DEF PushInv, Types
<1>4. /\ live \subseteq Owners /\ queue \subseteq Rows \X (0..MaxAttempts) /\ running \in BOOLEAN
      /\ faults \in 0..MaxFaults /\ sub \in [Subs -> Owners \cup {None}] /\ OneSub
      /\ \A e \in queue : disp[e[1]].status # "none"
  BY DEF PushInv, Types
<1>5. CASE Gate(a)
  <2>1. att' \subseteq Attempt /\ \A b \in att' : disp[b.id].status # "none"
    BY <1>5, AttemptMoves DEF Gate, Phases
  <2>2. UNCHANGED <<disp, sub>> /\ OneSub'
    BY <1>4, <1>5 DEF Gate, OneSub
  <2> QED
    BY <1>2, <1>4, <2>1, <2>2, QuietKeeps
<1>6. CASE Send(a)
  <2>1. sub[disp[i].u] \in Owners \cup {None}
    BY <1>3, Fields
  <2>2. PICK pc \in Phases : att' = (att \ {a}) \cup {[a EXCEPT !.pc = pc, !.snap = sub[disp[i].u]]}
    BY <1>1, <1>6 DEF Send, Phases
  <2>3. att' \subseteq Attempt /\ \A b \in att' : disp[b.id].status # "none"
    BY <2>1, <2>2, AttemptMoves
  <2>4. UNCHANGED <<disp, sub>> /\ OneSub'
    BY <1>4, <1>6 DEF Send, OneSub
  <2> QED
    BY <1>2, <1>4, <2>3, <2>4, QuietKeeps
<1>7. CASE DropSub(a)
  <2>1. att' \subseteq Attempt /\ \A b \in att' : disp[b.id].status # "none"
    BY <1>7, AttemptMoves DEF DropSub, Phases
  <2>2. sub' = [sub EXCEPT ![disp[i].u] = None] /\ disp' = disp
    BY <1>1, <1>7 DEF DropSub
  <2>3. sub' \in [Subs -> Owners \cup {None}] /\ \A u \in Subs : sub'[u] # None => sub[u] # None
    BY <1>4, <2>2
  <2>4. OneSub'
    BY <1>4, <2>3 DEF OneSub
  <2> QED
    BY <1>2, <1>4, <2>1, <2>2, <2>3, <2>4, QuietKeeps
<1>8. CASE SaveSub(a)
  <2>1. att' \subseteq Attempt /\ \A b \in att' : disp[b.id].status # "none"
    BY <1>8, AttemptMoves DEF SaveSub
  <2>2. a.snap \in Owners \cup {None}
    BY <1>3 DEF Attempt
  <2>3. /\ sub' = sub \/ (/\ sub' = [sub EXCEPT ![disp[i].u] = a.snap]
                          /\ \A v \in Subs \ {disp[i].u} : sub[v] = None)
        /\ disp' = disp
    BY <1>1, <1>8 DEF SaveSub
  <2>4. sub' \in [Subs -> Owners \cup {None}]
    BY <1>4, <2>2, <2>3
  <2>5. OneSub'
    BY <1>4, <2>3 DEF OneSub
  <2> QED
    BY <1>2, <1>4, <2>1, <2>3, <2>4, <2>5, QuietKeeps
<1>9. CASE RecordSent(a)
  <2>1. Leave(a) \/ \E pc \in Phases : Advance(a, pc)
    BY <1>9 DEF RecordSent, Phases
  <2>2. PICK r \in Dispatch : /\ r = Decided(disp[a.id], "sent") /\ r.status = "sent"
                              /\ r.u = disp[a.id].u /\ r.owner = disp[a.id].owner /\ r.kind = disp[a.id].kind
    BY <1>1, <1>3, DecidedOf DEF Final
  <2> QED
    BY <1>2, <1>4, <1>9, <2>1, <2>2, GuardedKeeps DEF RecordSent
<1>10. CASE RecordFailed(a)
  <2>1. Leave(a) \/ \E pc \in Phases : Advance(a, pc)
    BY <1>10 DEF RecordFailed, Phases
  <2>2. PICK t \in BOOLEAN : t = (a.pc = "end")
    OBVIOUS
  <2>3. a.n \in 0 .. MaxAttempts
    BY <1>3 DEF Attempt
  <2>4. PICK r \in Dispatch : /\ r = Failed(disp[a.id], a.n + 1, t) /\ r.status \in {"failed", "pending"}
                              /\ r.status = "pending" => r.n < MaxAttempts
                              /\ r.u = disp[a.id].u /\ r.owner = disp[a.id].owner /\ r.kind = disp[a.id].kind
    BY <1>1, <1>3, <2>3, FailedOf
  <2>5. Guarded(a.id, r) /\ ~RowLocked(a.id) /\ UNCHANGED sub
    BY <1>10, <2>2, <2>4 DEF RecordFailed
  <2> QED
    BY <1>2, <1>4, <2>1, <2>4, <2>5, GuardedKeeps
<1> QED
  BY <1>1, <1>5, <1>6, <1>7, <1>8, <1>9, <1>10

LEMMA TryErrorKeeps ==
  ASSUME Parameters, PushInv, NEW a \in att, TryError(a)
  PROVE  PushInv'
<1>1. /\ a \in Attempt /\ a.id \in Rows /\ disp[a.id] \in Dispatch /\ disp[a.id].status # "none"
      /\ a.n \in 0 .. MaxAttempts
  BY Fields DEF PushInv, Types, Attempt
<1>2. faults' \in 0 .. MaxFaults /\ ~RowLocked(a.id) /\ UNCHANGED <<sub, live, call, queue, running>> /\ Leave(a)
  BY DEF TryError, PushInv, Types, Parameters
<1>3. PICK r \in Dispatch : /\ r = Failed(disp[a.id], a.n + 1, FALSE) /\ r.status \in {"failed", "pending"}
                            /\ r.status = "pending" => r.n < MaxAttempts
                            /\ r.u = disp[a.id].u /\ r.owner = disp[a.id].owner /\ r.kind = disp[a.id].kind
  BY <1>1, FailedOf
<1>4. CASE Guarded(a.id, r)
  BY <1>2, <1>3, <1>4, GuardedKeeps
<1>5. CASE UNCHANGED disp
  BY <1>2, <1>5, AttemptMoves, QuietKeeps DEF PushInv, Types, OneSub
<1> QED
  BY <1>3, <1>4, <1>5 DEF TryError

----------------------------------------------------------------------------
(* The poller, time, the device and its owner. *)
LEMMA PollKeeps ==
  ASSUME PushInv, Poll
  PROVE  PushInv'
<1>1. Types /\ OneSub /\ \A b \in att : disp[b.id].status # "none"
  BY DEF PushInv
<1>2. CASE PollStart
  <2> DEFINE due == {i \in Rows : Pending(i) /\ disp[i].due = "now"}
  <2>1. \A i \in due : i \in Rows /\ disp[i].n \in 0 .. MaxAttempts /\ disp[i].status # "none"
    BY Fields DEF Pending
  <2>2. queue' = {<<i, disp[i].n>> : i \in due}
    BY <1>2 DEF PollStart
  <2>3. ASSUME NEW e \in queue'
        PROVE  e \in Rows \X (0 .. MaxAttempts) /\ disp[e[1]].status # "none"
    <3>1. PICK i \in due : e = <<i, disp[i].n>>
      BY <2>2
    <3>2. e[1] = i
      BY <3>1
    <3> QED
      BY <2>1, <3>1, <3>2
  <2>4. running' = TRUE /\ UNCHANGED <<disp, sub, live, call, att, faults>>
    BY <1>2 DEF PollStart
  <2> QED
    BY <1>1, <2>3, <2>4, QuietKeeps DEF Types, OneSub
<1>3. ASSUME NEW e \in queue, PollNext(e[1], e[2]) PROVE PushInv'
  <2>1. e[1] \in Rows /\ e[2] \in 0 .. MaxAttempts /\ disp[e[1]].status # "none"
    BY DEF PushInv, Types
  <2> DEFINE b == [id |-> e[1], polled |-> TRUE, n |-> e[2], pc |-> "gate", snap |-> None]
  <2>2. b \in Attempt /\ b.id = e[1]
    BY <2>1 DEF Attempt
  <2>3. att' = att \cup {b} /\ queue' \subseteq queue /\ UNCHANGED <<disp, sub, live, call, running, faults>>
    BY <1>3 DEF PollNext
  <2> HIDE DEF b
  <2>4. att' \subseteq Attempt /\ \A x \in att' : disp[x.id].status # "none"
    BY <1>1, <2>1, <2>2, <2>3 DEF Types
  <2> QED
    BY <1>1, <2>3, <2>4, QuietKeeps DEF PushInv, Types, OneSub
<1>4. CASE PollDone
  BY <1>4, QuietKeeps DEF PollDone, PushInv, Types, OneSub
<1> QED
  BY <1>2, <1>3, <1>4 DEF Poll

LEMMA RipenKeeps ==
  ASSUME PushInv, NEW i \in Rows, Ripen(i)
  PROVE  PushInv'
<1>1. PICK r \in Dispatch : /\ r = [disp[i] EXCEPT !.due = "now"] /\ r.status = disp[i].status
                            /\ r.u = disp[i].u /\ r.owner = disp[i].owner /\ r.kind = disp[i].kind
                            /\ r.n = disp[i].n
  <2>1. [disp[i] EXCEPT !.due = "now"] \in Dispatch
    BY Fields DEF Dispatch
  <2> QED
    BY <2>1, Fields DEF Dispatch
<1>2. Pending(i) /\ r.status = "pending" /\ r.n < MaxAttempts
  BY <1>1 DEF Ripen, Pending, PushInv
<1>3. disp' = [disp EXCEPT ![i] = r] /\ UNCHANGED <<sub, live, call, att, queue, running, faults>>
  BY <1>1 DEF Ripen
<1> QED
  BY <1>1, <1>2, <1>3, OutcomeKeeps DEF PushInv, Types

LEMMA PruneKeeps ==
  ASSUME Parameters, PushInv, NEW i \in Rows, Prune(i)
  PROVE  PushInv'
<1>1. /\ disp' \in [Rows -> Dispatch] /\ disp'[i] = NoRow
      /\ \A j \in Rows \ {i} : disp'[j] = disp[j]
      /\ UNCHANGED <<sub, live, call, att, queue, running, faults>>
  BY Bases DEF Prune, PushInv, Types
<1>2. ~Pending(i) /\ ~Pending(i)'
  BY <1>1, Bases DEF Prune, Pending, Final
<1>3. \A j \in Rows : Pending(j)' => Pending(j) /\ disp'[j] = disp[j]
  BY <1>1, <1>2 DEF Pending
<1>4. Types' /\ OneSub' /\ OneInserter' /\ OneOfTopic'
  BY <1>1, <1>3 DEF PushInv, Types, OneSub, OneInserter, OneOfTopic, Inserting
<1>5. ASSUME NEW p \in Callers PROVE CallOK(call[p])'
  <2>1. \A j \in Rows : Pending(j)' /\ SameTopic(j, call[p])' <=> Pending(j) /\ SameTopic(j, call[p])
    BY <1>1, <1>2 DEF Pending, SameTopic
  <2> QED
    BY <1>1, <2>1 DEF PushInv, CallOK
<1>6. \A j \in Rows : RowOK(disp[j])' /\ (Pending(j)' => disp'[j].n < MaxAttempts)
  BY <1>1, <1>3, Bases DEF PushInv, RowOK
<1>7. /\ \A a \in att' : disp'[a.id].status # "none"
      /\ \A e \in queue' : disp'[e[1]].status # "none"
  BY <1>1 DEF Prune, PushInv, Types, Attempt
<1> QED
  BY <1>4, <1>5, <1>6, <1>7 DEF PushInv

LEMMA DeviceKeeps ==
  ASSUME PushInv
  PROVE  /\ \A u \in Subs, g \in Owners : Subscribe(u, g) => PushInv'
         /\ \A g \in Owners : Unsubscribe(g) => PushInv'
         /\ \A g \in Owners : Depart(g) => PushInv'
<1>1. Types /\ OneSub /\ \A b \in att : disp[b.id].status # "none"
  BY DEF PushInv
<1>2. ASSUME NEW u \in Subs, NEW g \in Owners, Subscribe(u, g) PROVE PushInv'
  <2>1. /\ sub' = [sub EXCEPT ![u] = g]
        /\ sub[u] # None \/ \A v \in Subs : sub[v] = None
        /\ UNCHANGED <<disp, live, call, att, queue, running, faults>>
    BY <1>2 DEF Subscribe
  <2>2. sub' \in [Subs -> Owners \cup {None}] /\ OneSub'
    BY <1>1, <2>1 DEF Types, OneSub
  <2> QED
    BY <1>1, <2>1, <2>2, QuietKeeps DEF PushInv, Types
<1>3. ASSUME NEW g \in Owners, Unsubscribe(g) PROVE PushInv'
  <2>1. /\ sub' = [u \in Subs |-> IF sub[u] = g THEN None ELSE sub[u]]
        /\ UNCHANGED <<disp, live, call, att, queue, running, faults>>
    BY <1>3 DEF Unsubscribe
  <2>2. sub' \in [Subs -> Owners \cup {None}] /\ OneSub'
    BY <1>1, <2>1 DEF Types, OneSub
  <2> QED
    BY <1>1, <2>1, <2>2, QuietKeeps DEF PushInv, Types
<1>4. ASSUME NEW g \in Owners, Depart(g) PROVE PushInv'
  BY <1>1, <1>4, QuietKeeps DEF Depart, PushInv, Types, OneSub
<1> QED
  BY <1>2, <1>3, <1>4

LEMMA CrashKeeps ==
  ASSUME Parameters, PushInv, Crash
  PROVE  PushInv'
<1>1. \A p \in Callers : call'[p] = IdleCall
  BY DEF Crash
<1>2. Types'
  <2>1. faults' \in 0 .. MaxFaults
    BY DEF Crash, PushInv, Types, Parameters
  <2>2. call' \in [Callers -> Call]
    BY Bases DEF Crash
  <2> QED
    BY <2>1, <2>2 DEF Crash, PushInv, Types
<1>3. OneSub' /\ OneOfTopic'
  BY DEF Crash, PushInv, OneSub, OneOfTopic, Pending
<1>4. OneInserter' /\ \A p \in Callers : CallOK(call[p])'
  BY <1>1, Bases DEF OneInserter, Inserting, CallOK
<1> QED
  BY <1>2, <1>3, <1>4 DEF Crash, PushInv, RowOK, Pending

----------------------------------------------------------------------------
(* All steps. *)
LEMMA InitKeeps ==
  ASSUME Parameters, Init
  PROVE  PushInv
<1>1. \A i \in Rows : disp[i] = NoRow /\ ~Pending(i) /\ RowOK(disp[i])
  BY Bases DEF Init, Pending, RowOK
<1>2. \A p \in Callers : call[p] = IdleCall /\ CallOK(call[p])
  BY Bases DEF Init, CallOK
<1>3. Types
  <2>1. disp \in [Rows -> Dispatch] /\ call \in [Callers -> Call]
    BY Bases DEF Init
  <2>2. 0 \in 0 .. MaxFaults
    BY DEF Parameters
  <2> QED
    BY <2>1, <2>2 DEF Init, Types
<1>4. OneSub /\ OneInserter /\ OneOfTopic
  BY <1>1, <1>2, Bases DEF Init, OneSub, OneInserter, OneOfTopic, Inserting
<1> QED
  BY <1>1, <1>2, <1>3, <1>4 DEF Init, PushInv

LEMMA StepKeeps ==
  ASSUME Parameters, PushInv, [Next]_vars
  PROVE  PushInv'
<1>1. CASE UNCHANGED vars
  <2>1. Types' /\ OneSub' /\ OneInserter' /\ OneOfTopic'
    BY <1>1 DEF vars, PushInv, Types, OneSub, OneInserter, OneOfTopic, Inserting, Pending
  <2>2. \A p \in Callers : CallOK(call[p])'
    BY <1>1 DEF vars, PushInv, CallOK, Pending, SameTopic
  <2> QED
    BY <1>1, <2>1, <2>2 DEF vars, PushInv, RowOK, Pending
<1>2. CASE Next
  BY <1>2, EnqueueKeeps, InsertKeeps, InsertTakenKeeps, TryKeeps, TryErrorKeeps, PollKeeps, RipenKeeps,
     PruneKeeps, DeviceKeeps, CrashKeeps DEF Next
<1> QED
  BY <1>1, <1>2

LEMMA InvHolds == ASSUME Parameters PROVE Spec => []PushInv
<1>1. Init => PushInv
  BY InitKeeps
<1>2. PushInv /\ [Next]_vars => PushInv'
  BY StepKeeps
<1> QED
  BY <1>1, <1>2, PTL DEF Spec

(* Rapid notices on one topic collapse: the advisory lock of the enqueuing *)
(* transaction and the guarded outcomes leave at most one of them waiting  *)
(* for a device, for any number of callers, attempts, crashes and errors.  *)
THEOREM NoticesCollapse == ASSUME Parameters PROVE Spec => []OnePending
<1>1. PushInv => OnePending
  <2> SUFFICES ASSUME PushInv PROVE OnePending
    OBVIOUS
  <2> DEFINE S == {u \in Subs : sub[u] # None}
  <2>1. Cardinality(S) <= 1
    <3>1. CASE S = {}
      BY <3>1, FS_EmptySet
    <3>2. CASE S # {}
      <4>1. PICK u \in S : S = {u}
        BY <3>2 DEF PushInv, OneSub
      <4> HIDE DEF S
      <4> QED
        BY <4>1, FS_Singleton
    <3> QED
      BY <3>1, <3>2
  <2>2. TypeOK
    BY <2>1 DEF PushInv, Types, TypeOK
  <2> QED
    BY <2>2 DEF PushInv, OnePending, OneOfTopic
<1> QED
  BY <1>1, InvHolds, PTL

----------------------------------------------------------------------------
(* What the steps never do. *)
LEMMA KeyedTopics ==
  ASSUME Parameters, NEW k \in Kinds, NEW l \in Kinds, NEW g, NEW h,
         Topic(k, g) = Topic(l, h), Key(k, g) # None
  PROVE  Key(l, h) = Key(k, g)
<1>1. k # "status" /\ Key(k, g) = Topic(k, g)
  BY DEF Key
<1>2. l # "status"
  <2>1. Topic(k, g)[1] = k
    BY DEF Topic, Parameters
  <2>2. Topic(l, h)[1] = l
    BY DEF Topic, Parameters
  <2> QED
    BY <1>1, <2>1, <2>2
<1> QED
  BY <1>1, <1>2 DEF Key

(* An attempt that returns late revives no notice that was superseded and  *)
(* overwrites no outcome, whatever else runs: only the pruning removes a   *)
(* decided row.                                                            *)
LEMMA StepDecides ==
  ASSUME Parameters, PushInv, Next, NEW i \in Rows, disp[i].status \in Final
  PROVE  disp'[i].status \in {disp[i].status, "none"}
<1>1. ~Pending(i) /\ i \notin Free /\ disp \in [Rows -> Dispatch]
  BY DEF PushInv, Types, Pending, Free, Final
<1>2. ASSUME NEW p \in Callers, NEW j \in Rows, Insert(p, j) PROVE disp'[i] = disp[i]
  <2>1. i \notin call[p].hits
    BY <1>1, <1>2 DEF Insert, PushInv, CallOK
  <2> QED
    BY <1>1, <1>2, <2>1 DEF Insert
<1>3. ASSUME NEW j \in Rows, NEW r, Guarded(j, r) PROVE disp'[i] = disp[i]
  BY <1>1, <1>3 DEF Guarded
<1>4. ASSUME NEW j \in Rows, Prune(j) PROVE disp'[i] = disp[i] \/ disp'[i].status = "none"
  BY <1>1, <1>4, Bases DEF Prune
<1>5. ASSUME NEW j \in Rows, Ripen(j) PROVE disp'[i] = disp[i]
  BY <1>1, <1>5 DEF Ripen
<1>6. ASSUME NEW a \in att, TryError(a) PROVE disp'[i] = disp[i]
  BY <1>3, <1>6 DEF TryError, PushInv, Types, Attempt
<1>7. ASSUME NEW j \in Rows, NEW polled \in BOOLEAN, Try(j, polled) PROVE disp'[i] = disp[i]
  BY <1>3, <1>7 DEF Try, Gate, Send, DropSub, RecordSent, RecordFailed, SaveSub, PushInv, Types, Attempt
<1> QED
  BY <1>2, <1>4, <1>5, <1>6, <1>7
     DEF Next, Enqueue, Poll, PollStart, PollNext, PollDone, Subscribe, Unsubscribe, Depart, Crash

(* A late attempt, a crash, a retry or a repeat never rewrites a notice    *)
(* that was sent, superseded or given up: every record is guarded.         *)
THEOREM OutcomesStand == ASSUME Parameters PROVE Spec => DecidedIsFinal
<1>1. PushInv /\ [Next]_vars
        => [\A i \in Rows :
              disp[i].status \in Final => disp'[i].status \in {disp[i].status, "none"}]_vars
  BY StepDecides
<1> QED
  BY <1>1, InvHolds, PTL DEF Spec, DecidedIsFinal

(* A repeat that the dedupe key refuses supersedes nothing: its            *)
(* transaction rolls back with the update of the waiting row.              *)
LEMMA StepSupersedes ==
  ASSUME Parameters, PushInv, Next, NEW i \in Rows, Pending(i), disp'[i].status = "superseded",
         Key(disp[i].kind, disp[i].owner) # None
  PROVE  FALSE
<1>1. disp[i] \in Dispatch /\ disp[i].status = "pending" /\ disp[i].kind \in Kinds
  BY Fields DEF Pending
<1>2. ASSUME NEW p \in Callers, NEW j \in Rows, Insert(p, j) PROVE FALSE
  <2>1. CASE Taken(call[p])
    BY <1>1, <1>2, <2>1 DEF Insert
  <2>2. CASE ~Taken(call[p])
    <3>1. i # j /\ disp'[i] = IF i \in call[p].hits THEN Decided(disp[i], "superseded") ELSE disp[i]
      BY <1>1, <1>2, <2>2 DEF Insert, Free
    <3>2. i \in call[p].hits /\ call[p].kind \in Kinds /\ SameTopic(i, call[p])
      BY <1>1, <1>2, <3>1 DEF Insert, PushInv, CallOK
    <3>3. Key(call[p].kind, call[p].owner) = Key(disp[i].kind, disp[i].owner) /\ disp[i].u = call[p].u
      BY <1>1, <3>2, KeyedTopics DEF SameTopic
    <3>4. i \in Rows \ Free
      BY <1>1 DEF Free
    <3> QED
      BY <2>2, <3>3, <3>4 DEF Taken
  <2> QED
    BY <2>1, <2>2
<1>3. ASSUME NEW j \in Rows, NEW r \in Dispatch, Guarded(j, r), r.status # "superseded" PROVE FALSE
  BY <1>1, <1>3 DEF Guarded, PushInv, Types
<1>4. ASSUME NEW a \in att, NEW t \in BOOLEAN, Guarded(a.id, Failed(disp[a.id], a.n + 1, t)) PROVE FALSE
  <2>1. a.id \in Rows /\ disp[a.id] \in Dispatch /\ a.n \in 0 .. MaxAttempts
    BY Fields DEF PushInv, Types, Attempt
  <2> QED
    BY <1>3, <1>4, <2>1, FailedOf
<1>5. ASSUME NEW a \in att, Guarded(a.id, Decided(disp[a.id], "sent")) PROVE FALSE
  <2>1. a.id \in Rows /\ disp[a.id] \in Dispatch
    BY Fields DEF PushInv, Types, Attempt
  <2> QED
    BY <1>3, <1>5, <2>1, DecidedOf DEF Final
<1>6. ASSUME NEW j \in Rows, NEW polled \in BOOLEAN, Try(j, polled) PROVE FALSE
  <2>1. PICK a \in att : \/ Gate(a) \/ Send(a) \/ DropSub(a)
                         \/ RecordSent(a) \/ RecordFailed(a) \/ SaveSub(a)
    BY <1>6 DEF Try
  <2>2. CASE RecordFailed(a)
    <3>1. PICK t \in BOOLEAN : t = (a.pc = "end")
      OBVIOUS
    <3> QED
      BY <1>4, <2>2, <3>1 DEF RecordFailed
  <2>3. CASE RecordSent(a)
    BY <1>5, <2>3 DEF RecordSent
  <2> QED
    BY <1>1, <2>1, <2>2, <2>3 DEF Gate, Send, DropSub, SaveSub
<1>7. ASSUME NEW a \in att, TryError(a) PROVE FALSE
  BY <1>1, <1>4, <1>7 DEF TryError
<1>8. ASSUME NEW j \in Rows, Prune(j) PROVE FALSE
  BY <1>1, <1>8, Bases DEF Prune, PushInv, Types
<1>9. ASSUME NEW j \in Rows, Ripen(j) PROVE FALSE
  BY <1>1, <1>9 DEF Ripen, PushInv, Types, Dispatch
<1> QED
  BY <1>1, <1>2, <1>6, <1>7, <1>8, <1>9
     DEF Next, Enqueue, Poll, PollStart, PollNext, PollDone, Subscribe, Unsubscribe, Depart, Crash

(* A keyed notice that is waiting is never superseded by a repeat the key  *)
(* refuses: the index rolls the whole enqueuing transaction back.          *)
THEOREM RepeatsHarmless == ASSUME Parameters PROVE Spec => RepeatsLoseNothing
<1>1. PushInv /\ [Next]_vars
        => [\A i \in Rows :
              Pending(i) /\ Key(disp[i].kind, disp[i].owner) # None => disp'[i].status # "superseded"]_vars
  BY StepSupersedes
<1> QED
  BY <1>1, InvHolds, PTL DEF Spec, RepeatsLoseNothing

(* The notice under an attempt keeps its owner.                            *)
LEMMA OwnersStay ==
  ASSUME Parameters, PushInv, Next, NEW b \in att
  PROVE  disp'[b.id].owner = disp[b.id].owner
<1>1. b.id \in Rows /\ disp[b.id].status # "none" /\ disp[b.id] \in Dispatch
  BY Fields DEF PushInv, Types, Attempt
<1>2. \A j \in Rows : \A r \in Dispatch : Guarded(j, r) /\ r.owner = disp[j].owner
                                            => disp'[b.id].owner = disp[b.id].owner
  BY <1>1 DEF Guarded, PushInv, Types
<1>3. ASSUME NEW p \in Callers, NEW j \in Rows, Insert(p, j) PROVE disp'[b.id].owner = disp[b.id].owner
  <2>1. Decided(disp[b.id], "superseded").owner = disp[b.id].owner
    BY <1>1, DecidedOf DEF Final
  <2> QED
    BY <1>1, <1>3, <2>1 DEF Insert, Free
<1>4. ASSUME NEW a \in att, NEW t \in BOOLEAN, Guarded(a.id, Failed(disp[a.id], a.n + 1, t))
      PROVE  disp'[b.id].owner = disp[b.id].owner
  <2>1. a.id \in Rows /\ disp[a.id] \in Dispatch /\ a.n \in 0 .. MaxAttempts
    BY Fields DEF PushInv, Types, Attempt
  <2> QED
    BY <1>2, <1>4, <2>1, FailedOf
<1>5. ASSUME NEW a \in att, Guarded(a.id, Decided(disp[a.id], "sent"))
      PROVE  disp'[b.id].owner = disp[b.id].owner
  <2>1. a.id \in Rows /\ disp[a.id] \in Dispatch
    BY Fields DEF PushInv, Types, Attempt
  <2> QED
    BY <1>2, <1>5, <2>1, DecidedOf DEF Final
<1>6. ASSUME NEW j \in Rows, NEW polled \in BOOLEAN, Try(j, polled)
      PROVE  disp'[b.id].owner = disp[b.id].owner
  <2>1. PICK a \in att : \/ Gate(a) \/ Send(a) \/ DropSub(a)
                         \/ RecordSent(a) \/ RecordFailed(a) \/ SaveSub(a)
    BY <1>6 DEF Try
  <2>2. CASE RecordFailed(a)
    <3>1. PICK t \in BOOLEAN : t = (a.pc = "end")
      OBVIOUS
    <3> QED
      BY <1>4, <2>2, <3>1 DEF RecordFailed
  <2>3. CASE RecordSent(a)
    BY <1>5, <2>3 DEF RecordSent
  <2> QED
    BY <2>1, <2>2, <2>3 DEF Gate, Send, DropSub, SaveSub
<1>7. ASSUME NEW a \in att, TryError(a) PROVE disp'[b.id].owner = disp[b.id].owner
  BY <1>4, <1>7 DEF TryError
<1>8. ASSUME NEW j \in Rows, Prune(j) PROVE disp'[b.id].owner = disp[b.id].owner
  BY <1>1, <1>8 DEF Prune
<1>9. ASSUME NEW j \in Rows, Ripen(j) PROVE disp'[b.id].owner = disp[b.id].owner
  BY <1>1, <1>9 DEF Ripen, PushInv, Types, Dispatch
<1> QED
  BY <1>3, <1>6, <1>7, <1>8, <1>9
     DEF Next, Enqueue, Poll, PollStart, PollNext, PollDone, Subscribe, Unsubscribe, Depart, Crash

(* Only the gate lets an attempt go on to sending.                         *)
LEMMA GateOnly ==
  ASSUME PushInv, Next, NEW b \in att', b \notin att, b.pc = "send"
  PROVE  \E a \in att : b.id = a.id /\ disp[a.id].owner \in live
<1>1. ASSUME NEW a \in att, NEW pc, Advance(a, pc) PROVE b.id = a.id /\ pc = "send"
  <2>1. b = [a EXCEPT !.pc = pc] /\ a \in Attempt
    BY <1>1 DEF Advance, PushInv, Types
  <2> QED
    BY <2>1 DEF Attempt
<1>2. ASSUME NEW i \in Rows, NEW polled \in BOOLEAN, Try(i, polled)
      PROVE  \E a \in att : b.id = a.id /\ disp[a.id].owner \in live
  <2>1. PICK a \in att : \/ Gate(a) \/ Send(a) \/ DropSub(a)
                         \/ RecordSent(a) \/ RecordFailed(a) \/ SaveSub(a)
    BY <1>2 DEF Try
  <2>2. CASE Gate(a)
    BY <1>1, <2>2 DEF Gate
  <2>3. CASE Send(a)
    <3>1. PICK pc \in {"end", "ok", "bad", "gone"} :
            att' = (att \ {a}) \cup {[a EXCEPT !.pc = pc, !.snap = sub[disp[a.id].u]]}
      BY <2>3 DEF Send
    <3>2. b = [a EXCEPT !.pc = pc, !.snap = sub[disp[a.id].u]] /\ a \in Attempt
      BY <3>1 DEF PushInv, Types
    <3> QED
      BY <3>2 DEF Attempt
  <2>4. CASE DropSub(a)
    BY <1>1, <2>4 DEF DropSub
  <2>5. CASE RecordSent(a)
    BY <1>1, <2>5 DEF RecordSent, Leave
  <2>6. CASE RecordFailed(a)
    BY <1>1, <2>6 DEF RecordFailed, Leave
  <2>7. CASE SaveSub(a)
    BY <2>7 DEF SaveSub, Leave
  <2> QED
    BY <2>1, <2>2, <2>3, <2>4, <2>5, <2>6, <2>7
<1>3. ASSUME NEW p \in Callers, NEW i \in Rows, Insert(p, i) PROVE FALSE
  <2>1. b = [id |-> i, polled |-> FALSE, n |-> 0, pc |-> "gate", snap |-> None]
    BY <1>3 DEF Insert
  <2> QED
    BY <2>1
<1>4. ASSUME NEW i, NEW n, PollNext(i, n) PROVE FALSE
  <2>1. b = [id |-> i, polled |-> TRUE, n |-> n, pc |-> "gate", snap |-> None]
    BY <1>4 DEF PollNext
  <2> QED
    BY <2>1
<1>5. ASSUME att' \subseteq att PROVE FALSE
  BY <1>5
<1> QED
  BY <1>2, <1>3, <1>4, <1>5
     DEF Next, Enqueue, TryError, Leave, Poll, PollStart, PollDone, Ripen, Prune,
         Subscribe, Unsubscribe, Depart, Crash

(* Once an owner has left and no attempt for it is past the gate, none     *)
(* ever is: retries, held notices and rows queued before included.         *)
THEOREM DeparturesSilence == ASSUME Parameters PROVE Spec => DepartureSilences
<1>1. ASSUME PushInv, Next, NEW g \in Owners, g \notin live, PastGate(g) = {},
             NEW b \in att', disp'[b.id].owner = g, b.pc = "send"
      PROVE  FALSE
  <2>1. CASE b \in att
    BY <1>1, <2>1, OwnersStay DEF PastGate
  <2>2. CASE b \notin att
    BY <1>1, <2>2, GateOnly, OwnersStay
  <2> QED
    BY <2>1, <2>2
<1>2. PushInv /\ [Next]_vars
        => [\A g \in Owners : g \notin live /\ PastGate(g) = {} => PastGate(g)' = {}]_vars
  <2> SUFFICES ASSUME PushInv, [Next]_vars, vars' # vars, NEW g \in Owners, g \notin live,
                      PastGate(g) = {}
               PROVE  PastGate(g)' = {}
    OBVIOUS
  <2> QED
    BY <1>1 DEF PastGate
<1> QED
  BY <1>2, InvHolds, PTL DEF Spec, DepartureSilences
=============================================================================
