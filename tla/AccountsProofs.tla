--------------------------- MODULE AccountsProofs ---------------------------
(***************************************************************************)
(* Proofs about the modules of MCAccounts, for every set of rows and calls *)
(* and every bound.  Accounts: the rows make sense whatever overlaps, the  *)
(* requests racing for the last seats under the hotel lock never exceed    *)
(* the plan, and one at a time sessions, counter and status agree.  The    *)
(* panel (Admins): one at a time, sessions are current and an active admin *)
(* remains.  Announcements: they only move forward, and what guests saw    *)
(* stands.  Photos and the directory (Assets): no photo is lost or left    *)
(* over, and the entries of a section are in order.                        *)
(***************************************************************************)
EXTENDS MCAccounts, Sequences, FunctionTheorems, FiniteSetTheorems, WellFoundedInduction, TLAPS

(* A row about to be saved: one that gets a new password is active; every  *)
(* other one makes sense already.                                          *)
SaveOK(q) == IF q.fresh THEN q.row.status = "active" ELSE RowOK(q.row)

RequestOK(q) ==
  /\ q.pc \in {"save", "tokens"} => SaveOK(q)
  /\ q.pc = "tokens" => q.fresh
  /\ q.pc \in {"lock", "seat"} =>
       q.op \in SeatOps /\ (q.op = "enable" => q.row.refresh = 0) /\ (q.op = "create" => q.fresh)

(* Passwords under way are counted before they are set. *)
PasswordsLeft == \A u \in Users : used[u] + Cardinality(Pending(u)) <= MaxPw

RowsInv ==
  /\ RowsConsistent /\ PasswordsLeft
  /\ \A p \in Reqs : RequestOK(req[p])

Limited == Seated \ revived

(* Under the lock there is one request, and a seat for it.                 *)
SeatInv ==
  /\ Cardinality(Limited) <= Limit
  /\ \A p, q \in Reqs : req[p].pc = "seat" /\ req[q].pc = "seat" => p = q
  /\ \A p \in Reqs : req[p].pc = "seat" /\ req[p].op # "disable" => Cardinality(Limited) < Limit

----------------------------------------------------------------------------
LEMMA Sizes ==
  /\ \A S \in SUBSET Users : IsFiniteSet(S) /\ Cardinality(S) \in Nat
                             /\ Cardinality(S) <= Cardinality(Users)
  /\ \A S \in SUBSET Reqs : IsFiniteSet(S) /\ Cardinality(S) \in Nat
  /\ Cardinality(Users) \in Nat
BY AccountsAssumption, FS_Subset, FS_CardinalityType

LEMMA Bases ==
  /\ NoRow \in Row /\ RowOK(NoRow)
  /\ IdleReq \in Request /\ RequestOK(IdleReq)
  /\ IdleReq.pc = "idle" /\ ~IdleReq.fresh
<1>1. NoRow \in Row /\ RowOK(NoRow)
  BY AccountsAssumption DEF NoRow, Row, Statuses, Passwords, RowOK
<1>2. (CHOOSE u \in Users : TRUE) \in Users
  BY AccountsAssumption
<1>3. 0 \in 0..Cardinality(Users)
  BY Sizes
<1>4. IdleReq \in Request
  BY <1>1, <1>2, <1>3 DEF IdleReq, Request
<1> QED
  BY <1>1, <1>4 DEF IdleReq, RequestOK

(* Changing a column of an active row.                                     *)
LEMMA ActiveUpdates ==
  ASSUME NEW row \in Row, row.status = "active"
  PROVE  /\ [row EXCEPT !.refresh = 0] \in Row /\ [row EXCEPT !.refresh = 0].status = "active"
         /\ \A b \in BOOLEAN :
              /\ [row EXCEPT !.must = b] \in Row /\ [row EXCEPT !.must = b].status = "active"
              /\ [row EXCEPT !.setup = b] \in Row /\ [row EXCEPT !.setup = b].status = "active"
              /\ [row EXCEPT !.reset = b] \in Row /\ [row EXCEPT !.reset = b].status = "active"
<1>1. 0 \in Passwords
  BY AccountsAssumption DEF Passwords
<1> QED
  BY <1>1 DEF Row

(* What an unlocked operation computes from a row that makes sense.        *)
LEMMA RowsSafe ==
  ASSUME NEW op \in RowOps, NEW old \in Row, RowOK(old), NEW new \in Rows(op, old)
  PROVE  /\ new \in Row
         /\ IF op \in NewPassword THEN new.status = "active" ELSE RowOK(new)
<1> USE AccountsAssumption DEF NewPassword, Row, RowOK, Statuses
<1>1. CASE new \in SessionRows(op, old)
  BY <1>1 DEF SessionRows
<1>2. CASE new \in ResetRows(op, old)
  <2>1. CASE op = "forgot"
    BY <1>2, <2>1 DEF ResetRows
  <2>2. CASE op = "confirm"
    <3>1. new = [old EXCEPT !.reset = FALSE, !.refresh = 0, !.must = FALSE] /\ old.status = "active"
      BY <1>2, <2>2 DEF ResetRows
    <3>2. new \in Row /\ new.status = "active"
      BY <3>1, ActiveUpdates
    <3> QED
      BY <2>2, <3>2
  <2> QED
    BY <1>2, <2>1, <2>2 DEF ResetRows
<1>3. CASE new \in SetupRows(op, old)
  BY <1>3 DEF SetupRows
<1>4. CASE new \in ProfileRows(op, old)
  <2>1. CASE op = "profile"
    BY <1>4, <2>1 DEF ProfileRows
  <2>2. CASE op = "change"
    <3>1. new = [old EXCEPT !.refresh = 0, !.must = FALSE] /\ old.status = "active"
      BY <1>4, <2>2 DEF ProfileRows
    <3>2. new \in Row /\ new.status = "active"
      BY <3>1, ActiveUpdates
    <3> QED
      BY <2>2, <3>2
  <2> QED
    BY <1>4, <2>1, <2>2 DEF ProfileRows
<1>5. CASE new \in UpdateRows(op, old)
  BY <1>5 DEF UpdateRows
<1>6. CASE new \in ResendRows(op, old)
  BY <1>6 DEF ResendRows
<1>7. CASE new \in ResetByManager(op, old)
  <2>1. /\ op = "reset" /\ old.status = "active"
        /\ new = [old EXCEPT !.must = TRUE, !.refresh = 0, !.setup = FALSE, !.reset = FALSE]
    BY <1>7 DEF ResetByManager
  <2>2. new \in Row /\ new.status = "active"
    BY <2>1, ActiveUpdates
  <2> QED
    BY <2>1, <2>2
<1>8. CASE new \in MailRows(op, old)
  BY <1>8 DEF MailRows
<1> QED
  BY <1>1, <1>2, <1>3, <1>4, <1>5, <1>6, <1>7, <1>8 DEF Rows

(* The passwords under way, when one request goes on.                      *)
LEMMA PendingOf ==
  ASSUME req \in [Reqs -> Request], NEW p \in Reqs, NEW q, Go(p, q)
  PROVE  \A u \in Users :
           /\ Pending(u) \in SUBSET Reqs
           /\ Pending(u)' = IF q.pc # "idle" /\ q.fresh /\ q.u = u
                            THEN Pending(u) \cup {p} ELSE Pending(u) \ {p}
BY DEF Go, Pending, Idle

LEMMA LeavesPending ==
  ASSUME RowsInv, NEW p \in Reqs, NEW q, Go(p, q), q.pc = "idle" \/ ~q.fresh
  PROVE  \A u \in Users :
           /\ Cardinality(Pending(u)') <= Cardinality(Pending(u))
           /\ p \in Pending(u) => Cardinality(Pending(u)') = Cardinality(Pending(u)) - 1
           /\ Cardinality(Pending(u)) \in Nat /\ Cardinality(Pending(u)') \in Nat
<1> SUFFICES ASSUME NEW u \in Users
             PROVE  /\ Cardinality(Pending(u)') <= Cardinality(Pending(u))
                    /\ p \in Pending(u) => Cardinality(Pending(u)') = Cardinality(Pending(u)) - 1
                    /\ Cardinality(Pending(u)) \in Nat /\ Cardinality(Pending(u)') \in Nat
  OBVIOUS
<1>1. PICK S \in SUBSET Reqs : S = Pending(u) /\ Pending(u)' = S \ {p}
  BY PendingOf DEF RowsInv, RowsConsistent, TypeOK
<1>2. IsFiniteSet(S) /\ Cardinality(S) \in Nat /\ Cardinality(S \ {p}) \in Nat
  BY Sizes
<1>3. Cardinality(S \ {p}) = IF p \in S THEN Cardinality(S) - 1 ELSE Cardinality(S)
  BY <1>2, FS_RemoveElement
<1> QED
  BY <1>1, <1>2, <1>3

(* A request that asks for a new password, or one that asks for none.      *)
LEMMA EntersPending ==
  ASSUME RowsInv, NEW p \in Reqs, Idle(p), NEW q \in Request, Go(p, q), used' = used,
         q.fresh => used[q.u] + Cardinality(Pending(q.u)) < MaxPw
  PROVE  PasswordsLeft'
<1> SUFFICES ASSUME NEW u \in Users
             PROVE  used[u] + Cardinality(Pending(u)') <= MaxPw
  BY DEF PasswordsLeft
<1>1. PICK S \in SUBSET Reqs : S = Pending(u)
  BY DEF Pending
<1>2. /\ IsFiniteSet(S) /\ Cardinality(S) \in Nat /\ used[u] \in Nat
      /\ used[u] + Cardinality(S) <= MaxPw /\ p \notin S /\ MaxPw \in Nat
  BY <1>1, Sizes, AccountsAssumption
     DEF RowsInv, PasswordsLeft, RowsConsistent, TypeOK, Passwords, Pending
<1>3. Pending(u)' = IF q.pc # "idle" /\ q.fresh /\ q.u = u THEN S \cup {p} ELSE S \ {p}
  BY <1>1, PendingOf DEF RowsInv, RowsConsistent, TypeOK
<1>4. S \ {p} = S
  BY <1>2
<1>5. Cardinality(S \cup {p}) = Cardinality(S) + 1
  BY <1>2, FS_AddElement
<1> QED
  BY <1>1, <1>2, <1>3, <1>4, <1>5

(* A step in which one request reads or is refused: the table stays.       *)
LEMMA ReadKeeps ==
  ASSUME RowsInv, NEW p \in Reqs, NEW q \in Request, Go(p, q), RequestOK(q), PasswordsLeft',
         UNCHANGED <<acct, counter, used, revived, crowd>>
  PROVE  RowsInv'
<1>1. TypeOK' /\ \A u \in Users : RowOK(acct'[u])
  BY DEF RowsInv, RowsConsistent, TypeOK, Go
<1>2. \A x \in Reqs : RequestOK(req'[x])
  BY DEF RowsInv, RowsConsistent, TypeOK, Go
<1> QED
  BY <1>1, <1>2 DEF RowsInv, RowsConsistent, RequestOK, SaveOK, RowOK

LEMMA RowReadKeeps ==
  ASSUME RowsInv, NEW p \in Reqs, NEW u \in Users, NEW op \in RowOps, RowRead(p, u, op)
  PROVE  RowsInv'
<1>1. acct[u] \in Row /\ RowOK(acct[u])
  BY DEF RowsInv, RowsConsistent, TypeOK
<1>2. PICK new \in Rows(op, acct[u]) :
        Go(p, [IdleReq EXCEPT !.pc = IF op = "setup" THEN "tokens" ELSE "save", !.u = u,
                              !.row = new, !.fresh = op \in NewPassword])
  BY DEF RowRead
<1>3. new \in Row /\ IF op \in NewPassword THEN new.status = "active" ELSE RowOK(new)
  BY <1>1, RowsSafe
<1>4. PICK pc \in {"save", "tokens"}, f \in BOOLEAN :
        /\ pc = (IF op = "setup" THEN "tokens" ELSE "save") /\ f = (op \in NewPassword)
        /\ pc = "tokens" => f
  <2>1. CASE op \in NewPassword
    BY <2>1
  <2>2. CASE op \notin NewPassword
    <3>1. op # "setup" /\ (op \in NewPassword) = FALSE
      BY <2>2 DEF NewPassword
    <3>2. "save" = IF op = "setup" THEN "tokens" ELSE "save"
      BY <3>1
    <3>3. "save" \in {"save", "tokens"} /\ FALSE \in BOOLEAN /\ ("save" = "tokens" => FALSE)
      OBVIOUS
    <3> WITNESS "save" \in {"save", "tokens"}, FALSE \in BOOLEAN
    <3> QED
      BY <3>1, <3>2, <3>3
  <2> QED
    BY <2>1, <2>2
<1>5. PICK q \in Request :
        /\ q = [IdleReq EXCEPT !.pc = pc, !.u = u, !.row = new, !.fresh = f]
        /\ q.pc = pc /\ q.u = u /\ q.row = new /\ q.fresh = f
  <2>1. [IdleReq EXCEPT !.pc = pc, !.u = u, !.row = new, !.fresh = f] \in Request
    BY <1>3, Bases DEF Request
  <2> QED
    BY <2>1, Bases DEF Request
<1>6. RequestOK(q) /\ Go(p, q)
  BY <1>2, <1>3, <1>4, <1>5 DEF RequestOK, SaveOK
<1>7. PasswordsLeft'
  BY <1>4, <1>5, <1>6, EntersPending DEF RowRead, Begins
<1> QED
  BY <1>5, <1>6, <1>7, ReadKeeps DEF RowRead

(* The password a request is about to set is one of those left.            *)
LEMMA PasswordFits ==
  ASSUME RowsInv, NEW p \in Reqs, ~Idle(p), req[p].fresh
  PROVE  used[req[p].u] + 1 \in Passwords /\ used[req[p].u] + 1 # 0
<1> DEFINE u == req[p].u
<1>1. u \in Users /\ used[u] \in Nat /\ p \in Pending(u) /\ Pending(u) \in SUBSET Reqs
  BY DEF RowsInv, RowsConsistent, TypeOK, Request, Passwords, Pending
<1>2. Cardinality({p}) = 1 /\ Cardinality({p}) <= Cardinality(Pending(u))
  BY <1>1, Sizes, FS_Subset, FS_Singleton
<1>3. used[u] + Cardinality(Pending(u)) <= MaxPw /\ Cardinality(Pending(u)) \in Nat
  BY <1>1, Sizes DEF RowsInv, PasswordsLeft
<1> HIDE DEF u
<1> QED
  BY <1>1, <1>2, <1>3, AccountsAssumption DEF Passwords, u

LEMMA StampedOK ==
  ASSUME RowsInv, NEW p \in Reqs, req[p].pc \in {"save", "tokens"}
  PROVE  /\ Stamped(req[p]) \in Row /\ RowOK(Stamped(req[p]))
         /\ req[p].pc = "tokens" => Tokens(req[p]) \in Row /\ RowOK(Tokens(req[p]))
<1>1. PICK q \in Request :
        q = req[p] /\ q.row \in Row /\ SaveOK(q) /\ (q.pc = "tokens" => q.fresh)
  BY DEF RowsInv, RowsConsistent, TypeOK, Request, RequestOK
<1>2. CASE q.fresh
  <2>1. PICK n \in Passwords : n = used[q.u] + 1 /\ n # 0
    BY <1>1, <1>2, PasswordFits DEF Idle
  <2>2. PICK r \in Row : r = [q.row EXCEPT !.pw = n] /\ r.pw = n /\ r.status = "active"
    <3>1. [q.row EXCEPT !.pw = n] \in Row
      BY <1>1, <2>1 DEF Row
    <3>2. [q.row EXCEPT !.pw = n].pw = n /\ [q.row EXCEPT !.pw = n].status = "active"
      BY <1>1, <1>2 DEF SaveOK, Row
    <3> QED
      BY <3>1, <3>2
  <2>3. Stamped(q) = r
    BY <1>2, <2>1, <2>2 DEF Stamped
  <2>4. PICK t \in Row : t = [r EXCEPT !.refresh = n] /\ t.status = "active" /\ t.pw = n
    <3>1. [r EXCEPT !.refresh = n] \in Row
      BY <2>1, <2>2 DEF Row
    <3>2. [r EXCEPT !.refresh = n].pw = n /\ [r EXCEPT !.refresh = n].status = "active"
      BY <2>2 DEF Row
    <3> QED
      BY <3>1, <3>2
  <2>5. Tokens(q) = t
    BY <2>2, <2>3, <2>4 DEF Tokens
  <2> QED
    BY <1>1, <2>1, <2>2, <2>3, <2>4, <2>5 DEF RowOK
<1>3. CASE ~q.fresh
  BY <1>1, <1>3 DEF Stamped, SaveOK
<1> QED
  BY <1>1, <1>2, <1>3

(* A step in which a request saves a row, and sets the password it counted. *)
LEMMA WriteKeeps ==
  ASSUME RowsInv, NEW p \in Reqs, ~Idle(p), NEW r \in Row, RowOK(r),
         acct' = [acct EXCEPT ![req[p].u] = r],
         used' = IF req[p].fresh THEN [used EXCEPT ![req[p].u] = @ + 1] ELSE used,
         NEW q \in Request, Go(p, q), ~q.fresh, RequestOK(q),
         counter' \in 0..(Cardinality(Users) + 1), revived' \subseteq Users, crowd' = crowd
  PROVE  RowsInv'
<1> DEFINE u == req[p].u
<1>1. u \in Users /\ acct \in [Users -> Row] /\ used \in [Users -> Passwords]
      /\ req \in [Reqs -> Request]
  BY DEF RowsInv, RowsConsistent, TypeOK, Request
<1>2. used' \in [Users -> Passwords]
  <2>1. CASE req[p].fresh
    BY <1>1, <2>1, PasswordFits
  <2>2. CASE ~req[p].fresh
    BY <1>1, <2>2
  <2> QED
    BY <2>1, <2>2
<1>3. req' \in [Reqs -> Request] /\ \A x \in Reqs : RequestOK(req'[x])
  BY <1>1 DEF Go, RowsInv
<1>4. TypeOK' /\ \A v \in Users : RowOK(acct'[v])
  BY <1>1, <1>2, <1>3 DEF RowsInv, RowsConsistent, TypeOK
<1>5. PasswordsLeft'
  <2> SUFFICES ASSUME NEW v \in Users PROVE used'[v] + Cardinality(Pending(v)') <= MaxPw
    BY DEF PasswordsLeft
  <2>1. /\ used[v] \in Nat /\ used[v] + Cardinality(Pending(v)) <= MaxPw /\ MaxPw \in Nat
        /\ Cardinality(Pending(v)) \in Nat /\ Cardinality(Pending(v)') \in Nat
        /\ Cardinality(Pending(v)') <= Cardinality(Pending(v))
        /\ p \in Pending(v) => Cardinality(Pending(v)') = Cardinality(Pending(v)) - 1
    BY <1>1, LeavesPending, AccountsAssumption DEF RowsInv, PasswordsLeft, Passwords
  <2>2. CASE req[p].fresh /\ v = u
    BY <1>1, <2>1, <2>2 DEF Pending
  <2>3. CASE ~(req[p].fresh /\ v = u)
    BY <1>1, <2>1, <2>3
  <2> QED
    BY <2>2, <2>3
<1> QED
  BY <1>3, <1>4, <1>5 DEF RowsInv, RowsConsistent, RequestOK, SaveOK, RowOK

LEMMA RowSaveKeeps ==
  ASSUME RowsInv, NEW p \in Reqs, RowSave(p)
  PROVE  RowsInv'
<1> DEFINE q == req[p]
<1>1. q.pc \in {"save", "tokens"} /\ q.u \in Users /\ ~Idle(p)
  BY DEF RowSave, RowsInv, RowsConsistent, TypeOK, Request, Idle
<1>2. revived' \subseteq Users
  BY <1>1 DEF RowSave, Store, RowsInv, RowsConsistent, TypeOK
<1>3. counter' \in 0..(Cardinality(Users) + 1)
  BY DEF RowSave, RowsInv, RowsConsistent, TypeOK
<1>4. CASE q.pc = "save"
  BY <1>1, <1>2, <1>3, <1>4, StampedOK, Bases, WriteKeeps DEF RowSave, Store
<1>5. CASE q.pc = "tokens"
  <2>1. PICK t \in Row : t = Tokens(q) /\ RowOK(t)
    BY <1>1, <1>5, StampedOK
  <2>2. PICK n \in Request :
          /\ n = [IdleReq EXCEPT !.pc = "save", !.u = q.u, !.row = t]
          /\ n.pc = "save" /\ n.row = t /\ n.fresh = FALSE
    <3>1. [IdleReq EXCEPT !.pc = "save", !.u = q.u, !.row = t] \in Request
      BY <1>1, Bases DEF Request
    <3> QED
      BY <3>1, Bases DEF Request
  <2>3. RequestOK(n) /\ Go(p, n)
    BY <1>5, <2>1, <2>2 DEF RequestOK, SaveOK, RowSave
  <2> QED
    BY <1>1, <1>2, <1>3, <2>2, <2>3, StampedOK, WriteKeeps DEF RowSave, Store
<1> QED
  BY <1>1, <1>4, <1>5

LEMMA LogoutKeeps ==
  ASSUME RowsInv, NEW u \in Users, Logout(u)
  PROVE  RowsInv'
<1>1. [acct[u] EXCEPT !.refresh = 0] \in Row /\ RowOK([acct[u] EXCEPT !.refresh = 0])
  BY AccountsAssumption DEF RowsInv, RowsConsistent, TypeOK, RowOK, Row, Passwords
<1>2. acct' = [acct EXCEPT ![u] = [acct[u] EXCEPT !.refresh = 0]]
  BY DEF Logout
<1>3. TypeOK' /\ \A v \in Users : RowOK(acct'[v])
  BY <1>1, <1>2 DEF Logout, RowsInv, RowsConsistent, TypeOK
<1>4. PasswordsLeft' /\ \A x \in Reqs : RequestOK(req[x])'
  BY DEF Logout, RowsInv, PasswordsLeft, Pending, Idle, RequestOK, SaveOK, RowOK
<1> QED
  BY <1>3, <1>4 DEF RowsInv, RowsConsistent, RowOK

LEMMA SeatBeginKeeps ==
  ASSUME RowsInv, NEW p \in Reqs, NEW u \in Users, NEW op \in SeatOps, SeatBegin(p, u, op)
  PROVE  RowsInv'
<1>1. acct[u] \in Row /\ RowOK(acct[u]) /\ Idle(p)
  BY DEF RowsInv, RowsConsistent, TypeOK, SeatBegin, Begins
<1>2. PICK f \in BOOLEAN : f = (op = "create")
  OBVIOUS
<1>3. PICK q \in Request :
        /\ q = [IdleReq EXCEPT !.pc = "lock", !.op = op, !.u = u, !.row = acct[u], !.fresh = f]
        /\ q.pc = "lock" /\ q.op = op /\ q.u = u /\ q.row = acct[u] /\ q.fresh = f
  <2>1. [IdleReq EXCEPT !.pc = "lock", !.op = op, !.u = u, !.row = acct[u], !.fresh = f] \in Request
    BY <1>1, Bases DEF Request
  <2> QED
    BY <2>1, Bases DEF Request
<1>4. Go(p, q)
  BY <1>2, <1>3 DEF SeatBegin
<1>5. RequestOK(q)
  BY <1>1, <1>2, <1>3 DEF RequestOK, SeatBegin, RowOK
<1>6. PasswordsLeft'
  BY <1>1, <1>2, <1>3, <1>4, EntersPending DEF SeatBegin
<1> QED
  BY <1>3, <1>4, <1>5, <1>6, ReadKeeps DEF SeatBegin

LEMMA SeatsCounted ==
  ASSUME RowsInv
  PROVE  /\ Seated \in SUBSET Users /\ Cardinality(Seated) \in 0..Cardinality(Users)
         /\ \A u \in Users : Cardinality(Seated \ {u}) \in 0..Cardinality(Users)
BY Sizes DEF Seated

LEMMA SeatLockKeeps ==
  ASSUME RowsInv, NEW p \in Reqs, SeatLock(p)
  PROVE  RowsInv'
<1> DEFINE q == req[p]
<1>1. q \in Request /\ q.pc = "lock" /\ RequestOK(q)
  BY DEF RowsInv, RowsConsistent, TypeOK, SeatLock
<1>2. CASE Go(p, IdleReq)
  <2>1. PasswordsLeft'
    <3>1. \A u \in Users : /\ Cardinality(Pending(u)') <= Cardinality(Pending(u))
                           /\ Cardinality(Pending(u)) \in Nat /\ Cardinality(Pending(u)') \in Nat
      BY <1>2, Bases, LeavesPending
    <3>2. MaxPw \in Nat /\ used' = used /\ \A u \in Users : used[u] \in Nat
      BY AccountsAssumption DEF SeatLock, RowsInv, RowsConsistent, TypeOK, Passwords
    <3> QED
      BY <3>1, <3>2 DEF RowsInv, PasswordsLeft
  <2> QED
    BY <1>2, <2>1, Bases, ReadKeeps DEF SeatLock
<1>3. CASE Go(p, [q EXCEPT !.pc = "seat", !.n = Cardinality(Seated)])
  <2>1. PICK n \in Request :
          /\ n = [q EXCEPT !.pc = "seat", !.n = Cardinality(Seated)]
          /\ n.pc = "seat" /\ n.op = q.op /\ n.row = q.row /\ n.fresh = q.fresh /\ n.u = q.u
    <3>1. PICK k \in 0..Cardinality(Users) : k = Cardinality(Seated)
      BY SeatsCounted
    <3>2. [q EXCEPT !.pc = "seat", !.n = k] \in Request
      BY <1>1, <3>1 DEF Request
    <3> HIDE DEF q
    <3> QED
      BY <1>1, <3>1, <3>2 DEF Request
  <2>2. RequestOK(n)
    BY <1>1, <2>1 DEF RequestOK
  <2>3. \A u \in Users : Pending(u)' = Pending(u)
    BY <1>1, <1>3, <2>1 DEF Pending, Go, Idle, RowsInv, RowsConsistent, TypeOK
  <2>4. PasswordsLeft'
    BY <2>3 DEF RowsInv, PasswordsLeft, SeatLock
  <2> QED
    BY <1>3, <2>1, <2>2, <2>4, ReadKeeps DEF SeatLock
<1> QED
  BY <1>2, <1>3 DEF SeatLock

LEMMA SeatRowOK ==
  ASSUME RowsInv, NEW p \in Reqs, req[p].pc = "seat"
  PROVE  /\ SeatRow(req[p]) \in Row /\ RowOK(SeatRow(req[p]))
         /\ req[p].op = "disable" => ~Holds(SeatRow(req[p]))
<1>1. PICK q \in Request :
        /\ q = req[p] /\ q.op \in SeatOps /\ q.row \in Row
        /\ q.op = "enable" => q.row.refresh = 0
        /\ q.op = "create" => q.fresh
  BY DEF RowsInv, RowsConsistent, TypeOK, RequestOK, Request
<1>2. 0 \in Passwords
  BY AccountsAssumption DEF Passwords
<1>3. CASE q.op = "invite"
  <2>1. SeatRow(q) = Invited
    BY <1>3 DEF SeatRow
  <2>2. Invited \in Row /\ RowOK(Invited)
    BY <1>2 DEF Invited, NoRow, Row, RowOK, Statuses
  <2> QED
    BY <1>1, <1>3, <2>1, <2>2
<1>4. CASE q.op = "create"
  <2>1. PICK n \in Passwords : n = used[q.u] + 1 /\ n # 0
    BY <1>1, <1>4, PasswordFits DEF Idle
  <2>2. SeatRow(q) = Created(n)
    BY <1>4, <2>1 DEF SeatRow
  <2>3. Created(n) \in Row /\ RowOK(Created(n))
    BY <1>2, <2>1 DEF Created, NoRow, Row, RowOK, Statuses
  <2> QED
    BY <1>1, <1>4, <2>2, <2>3
<1>5. CASE q.op = "disable"
  <2>1. SeatRow(q) = Disabled(q.row)
    BY <1>5 DEF SeatRow
  <2>2. Disabled(q.row) \in Row /\ RowOK(Disabled(q.row)) /\ ~Holds(Disabled(q.row))
    BY <1>1, <1>2 DEF Disabled, Row, RowOK, Statuses, Holds
  <2> QED
    BY <1>1, <2>1, <2>2
<1>6. CASE q.op = "enable"
  <2>1. SeatRow(q) = Enabled(q.row)
    BY <1>6 DEF SeatRow
  <2>2. Enabled(q.row) \in Row /\ RowOK(Enabled(q.row))
    BY <1>1, <1>6 DEF Enabled, Row, RowOK, Statuses
  <2> QED
    BY <1>1, <1>6, <2>1, <2>2
<1> QED
  BY <1>1, <1>3, <1>4, <1>5, <1>6 DEF SeatOps

LEMMA SeatCommitKeeps ==
  ASSUME RowsInv, NEW p \in Reqs, SeatCommit(p)
  PROVE  RowsInv'
<1>1. req[p].pc = "seat" /\ ~Idle(p) /\ req[p].n \in 0..Cardinality(Users) /\ req[p].u \in Users
  BY DEF SeatCommit, Idle, RowsInv, RowsConsistent, TypeOK, Request
<1>2. counter' \in 0..(Cardinality(Users) + 1)
  BY <1>1, SeatsCounted, Sizes DEF SeatCommit, SeatsAfter
<1>3. revived' \subseteq Users
  BY DEF SeatCommit, RowsInv, RowsConsistent, TypeOK
<1> QED
  BY <1>1, <1>2, <1>3, SeatRowOK, Bases, WriteKeeps DEF SeatCommit

LEMMA InitRows == Init => RowsInv
<1> SUFFICES ASSUME Init PROVE RowsInv
  OBVIOUS
<1>1. RowsConsistent
  BY Bases, Sizes, AccountsAssumption DEF Init, RowsConsistent, TypeOK, Passwords
<1>2. PasswordsLeft
  <2> SUFFICES ASSUME NEW u \in Users PROVE used[u] + Cardinality(Pending(u)) <= MaxPw
    BY DEF PasswordsLeft
  <2>1. Pending(u) = {} /\ used[u] = 0
    BY Bases DEF Init, Pending, Idle
  <2> QED
    BY <2>1, FS_EmptySet, AccountsAssumption
<1> QED
  BY <1>1, <1>2, Bases DEF RowsInv, Init

LEMMA StepRows == RowsInv /\ [Next]_vars => RowsInv'
<1> SUFFICES ASSUME RowsInv, [Next]_vars PROVE RowsInv'
  OBVIOUS
<1>1. CASE UNCHANGED vars
  BY <1>1 DEF vars, RowsInv, RowsConsistent, TypeOK, PasswordsLeft, Pending, Idle,
              RequestOK, SaveOK, RowOK
<1>2. CASE Next
  BY <1>2, RowReadKeeps, RowSaveKeeps, LogoutKeeps, SeatBeginKeeps, SeatLockKeeps, SeatCommitKeeps
     DEF Next
<1> QED
  BY <1>1, <1>2

LEMMA RowsHold == Spec => []RowsInv
BY InitRows, StepRows, PTL DEF Spec

(* Whatever overlaps, the row of an account makes sense: only an active    *)
(* account has a session, it is active when it has a password, and no save *)
(* of a stale row brings back another state.                               *)
THEOREM RowsStayConsistent == Spec => []RowsConsistent
<1>1. RowsInv => RowsConsistent
  BY DEF RowsInv
<1> QED
  BY <1>1, RowsHold, PTL

----------------------------------------------------------------------------
(* The staff limit. *)
LEMMA LimitedSizes ==
  ASSUME RowsInv
  PROVE  /\ Limited \in SUBSET Users /\ Limited \subseteq Seated
         /\ IsFiniteSet(Limited) /\ Cardinality(Limited) \in Nat
         /\ IsFiniteSet(Seated) /\ Cardinality(Seated) \in Nat
         /\ Cardinality(Limited) <= Cardinality(Seated)
<1>1. Seated \in SUBSET Users /\ Limited \in SUBSET Users /\ Limited \subseteq Seated
  BY DEF Seated, Limited
<1> QED
  BY <1>1, Sizes, FS_Subset

(* A step that takes no seat and lets no further request under the lock.   *)
LEMMA ShrinkKeeps ==
  ASSUME RowsInv, RowsInv', SeatInv, Limited' \subseteq Limited,
         \A x \in Reqs : req'[x].pc = "seat" => req'[x] = req[x]
  PROVE  SeatInv'
<1>1. Cardinality(Limited') <= Cardinality(Limited)
      /\ Cardinality(Limited) \in Nat /\ Cardinality(Limited') \in Nat
  <2>1. Limited' \in SUBSET Users
    BY DEF Limited, Seated
  <2> QED
    BY <2>1, LimitedSizes, Sizes, FS_Subset
<1>2. Limit \in Nat
  BY AccountsAssumption
<1> HIDE DEF Limited
<1> QED
  BY <1>1, <1>2 DEF SeatInv

(* Saves outside the lock: what they add to the seats is set apart.        *)
LEMMA StoreShrinks ==
  ASSUME RowsInv, NEW u \in Users, NEW r, Store(u, r)
  PROVE  Limited' \subseteq Limited
<1>1. acct' \in [Users -> {acct[v] : v \in Users} \cup {r}] /\ acct'[u] = r
      /\ \A v \in Users \ {u} : acct'[v] = acct[v]
  BY DEF Store, RowsInv, RowsConsistent, TypeOK
<1>2. ASSUME NEW v \in Limited' PROVE v \in Limited
  <2>1. v \in Users /\ Holds(acct'[v]) /\ v \notin revived'
    BY DEF Limited, Seated, Holds
  <2>2. CASE v # u
    BY <1>1, <2>1, <2>2 DEF Store, Limited, Seated
  <2>3. CASE v = u
    BY <1>1, <2>1, <2>3 DEF Store, Limited, Seated
  <2> QED
    BY <2>2, <2>3
<1> QED
  BY <1>2

LEMMA SeatLockSeats ==
  ASSUME RowsInv, RowsInv', SeatInv, NEW p \in Reqs, SeatLock(p)
  PROVE  SeatInv'
<1>1. /\ Limited' = Limited /\ req[p].pc = "lock" /\ \A x \in Reqs : req[x].pc # "seat"
      /\ req \in [Reqs -> Request] /\ req[p] \in Request
  BY DEF SeatLock, Limited, Seated, RowsInv, RowsConsistent, TypeOK
<1>2. CASE Go(p, IdleReq)
  BY <1>1, <1>2, Bases, ShrinkKeeps DEF Go
<1>3. CASE /\ Go(p, [req[p] EXCEPT !.pc = "seat", !.n = Cardinality(Seated)])
           /\ req[p].op # "disable" => ~(Cardinality(Seated) >= Limit)
  <2>1. \A x \in Reqs : /\ req'[x].pc = "seat" => x = p
                        /\ x = p => req'[x].op = req[p].op
    BY <1>1, <1>3 DEF Go, Request
  <2>2. req[p].op # "disable" => Cardinality(Limited) < Limit
    BY <1>3, LimitedSizes, AccountsAssumption
  <2> HIDE DEF Limited
  <2> QED
    BY <1>1, <2>1, <2>2 DEF SeatInv
<1> QED
  BY <1>2, <1>3 DEF SeatLock

LEMMA SeatCommitSeats ==
  ASSUME RowsInv, RowsInv', SeatInv, NEW p \in Reqs, SeatCommit(p)
  PROVE  SeatInv'
<1> DEFINE u == req[p].u
<1>1. /\ req[p].pc = "seat" /\ u \in Users /\ acct'[u] = SeatRow(req[p])
      /\ \A v \in Users \ {u} : acct'[v] = acct[v]
  BY DEF SeatCommit, RowsInv, RowsConsistent, TypeOK, Request
<1>2. \A x \in Reqs : req'[x].pc # "seat"
  BY <1>1, Bases DEF SeatCommit, Go, SeatInv, RowsInv, RowsConsistent, TypeOK
<1>3. CASE req[p].op = "disable"
  <2>1. ~Holds(acct'[u]) /\ revived' = revived \ {u}
    BY <1>1, <1>3, SeatRowOK DEF SeatCommit
  <2>2. Limited' \subseteq Limited
    BY <1>1, <2>1 DEF Limited, Seated, Holds
  <2> QED
    BY <1>2, <2>2, ShrinkKeeps
<1>4. CASE req[p].op # "disable"
  <2>1. Limited' \subseteq Limited \cup {u}
    BY <1>1, <1>4 DEF SeatCommit, Limited, Seated, Holds
  <2>2. Cardinality(Limited) < Limit /\ Limit \in Nat
    BY <1>1, <1>4, AccountsAssumption DEF SeatInv
  <2>3. /\ IsFiniteSet(Limited \cup {u})
        /\ Cardinality(Limited \cup {u}) \in {Cardinality(Limited), Cardinality(Limited) + 1}
    BY LimitedSizes, FS_AddElement
  <2>4. Cardinality(Limited') <= Cardinality(Limited \cup {u})
    BY <2>1, <2>3, FS_Subset
  <2>5. Cardinality(Limited) \in Nat /\ Cardinality(Limited') \in Nat
    <3>1. Limited' \in SUBSET Users
      BY DEF Limited, Seated
    <3> QED
      BY <3>1, LimitedSizes, Sizes
  <2> HIDE DEF Limited
  <2>6. Cardinality(Limited') <= Limit
    BY <2>2, <2>3, <2>4, <2>5
  <2> QED
    BY <1>2, <2>6 DEF SeatInv
<1> QED
  BY <1>3, <1>4

LEMMA StepSeats == RowsInv /\ SeatInv /\ [Next]_vars => SeatInv'
<1> SUFFICES ASSUME RowsInv, SeatInv, [Next]_vars PROVE SeatInv'
  OBVIOUS
<1>1. RowsInv' /\ req \in [Reqs -> Request] /\ acct \in [Users -> Row]
  BY StepRows DEF RowsInv, RowsConsistent, TypeOK
<1>2. CASE UNCHANGED vars
  BY <1>2 DEF vars, SeatInv, Limited, Seated
<1>3. ASSUME NEW p \in Reqs, NEW u \in Users, NEW op \in RowOps, RowRead(p, u, op)
      PROVE  SeatInv'
  <2>1. PICK new \in Rows(op, acct[u]) :
          Go(p, [IdleReq EXCEPT !.pc = IF op = "setup" THEN "tokens" ELSE "save", !.u = u,
                                !.row = new, !.fresh = op \in NewPassword])
    BY <1>3 DEF RowRead
  <2>2. req'[p].pc \in {"save", "tokens"} /\ \A x \in Reqs \ {p} : req'[x] = req[x]
    BY <1>1, <2>1 DEF Go, IdleReq
  <2>3. Limited' = Limited
    BY <1>3 DEF RowRead, Limited, Seated
  <2> QED
    BY <1>1, <2>2, <2>3, ShrinkKeeps
<1>4. ASSUME NEW p \in Reqs, RowSave(p) PROVE SeatInv'
  <2>1. Limited' \subseteq Limited
    BY <1>1, <1>4, StoreShrinks DEF RowSave, Request
  <2>2. req'[p].pc \in {"idle", "save"} /\ \A x \in Reqs \ {p} : req'[x] = req[x]
    BY <1>1, <1>4 DEF RowSave, Go, IdleReq
  <2> QED
    BY <1>1, <2>1, <2>2, ShrinkKeeps
<1>5. ASSUME NEW u \in Users, Logout(u) PROVE SeatInv'
  <2>1. \A v \in Users : acct'[v].status = acct[v].status
    BY <1>1, <1>5 DEF Logout, Row
  <2>2. Limited' = Limited /\ req' = req
    BY <1>5, <2>1 DEF Logout, Limited, Seated, Holds
  <2> QED
    BY <1>1, <2>2, ShrinkKeeps
<1>6. ASSUME NEW p \in Reqs, NEW u \in Users, NEW op \in SeatOps, SeatBegin(p, u, op)
      PROVE  SeatInv'
  <2>1. req'[p].pc = "lock" /\ \A x \in Reqs \ {p} : req'[x] = req[x]
    BY <1>1, <1>6 DEF SeatBegin, Go, IdleReq
  <2>2. Limited' = Limited
    BY <1>6 DEF SeatBegin, Limited, Seated
  <2> QED
    BY <1>1, <2>1, <2>2, ShrinkKeeps
<1> QED
  BY <1>1, <1>2, <1>3, <1>4, <1>5, <1>6, SeatLockSeats, SeatCommitSeats DEF Next

(* The staff limit of the plan: invitations, direct accounts and enabled   *)
(* accounts that race for the last seats, each counting under the lock of  *)
(* the hotel row, never take more than there are.                          *)
THEOREM SeatsLimited == Spec => []SeatLimit
<1>1. Init => SeatInv
  <2> SUFFICES ASSUME Init PROVE SeatInv
    OBVIOUS
  <2>1. Limited = {}
    BY DEF Init, Limited, Seated, Holds, NoRow
  <2>2. Cardinality(Limited) = 0
    BY <2>1, FS_EmptySet
  <2> HIDE DEF Limited
  <2> QED
    BY <2>2, Bases, AccountsAssumption DEF Init, SeatInv
<1>2. SeatInv => SeatLimit
  BY DEF SeatInv, SeatLimit, Limited
<1> QED
  BY <1>1, <1>2, StepSeats, RowsHold, PTL DEF Spec

----------------------------------------------------------------------------
(* When requests do not overlap: what the one request under way has read   *)
(* is still so, and an account disagrees with its session only between the *)
(* two saves of a set-up.                                                  *)
Agrees(row) == row.refresh \in {0, row.pw}
Tokening(u) == \E p \in Reqs : req[p].pc = "save" /\ req[p].u = u

RowHeld(q) ==
  q.pc \in {"save", "tokens"} =>
    /\ q.row.status # "none" /\ acct[q.u].status # "none"
    /\ q.row.status = "disabled" <=> acct[q.u].status = "disabled"
    /\ q.pc = "save" => Agrees(q.row) /\ (q.fresh => q.row.refresh = 0)

SeatHeld(q) ==
  /\ q.pc \in {"lock", "seat"} /\ q.op = "enable" => acct[q.u].status = "disabled"
  /\ q.pc = "seat" => /\ q.n = Cardinality(Seated)
                      /\ q.op \in {"invite", "create"} => acct[q.u].status = "none"

SerialInv ==
  /\ \A p, q \in Reqs : ~Idle(p) /\ ~Idle(q) => p = q
  /\ \A p \in Reqs : RowHeld(req[p]) /\ SeatHeld(req[p])
  /\ \A u \in Users : Agrees(acct[u]) \/ Tokening(u)
  /\ \A u \in Users : acct[u].status = "none" => ~acct[u].setup
  /\ counter = Cardinality(Seated)

AloneInv == RowsInv /\ (crowd = 1 => SerialInv)

LEMMA SerialOne ==
  ASSUME AloneInv, crowd = 1, NEW p \in Reqs, Begins(p)
  PROVE  \A q \in Reqs : Idle(q)
<1> DEFINE busy == {q \in Reqs : ~Idle(q)}
<1>1. busy \in SUBSET Reqs /\ Cardinality(busy) < 1
  BY DEF Begins
<1>2. IsFiniteSet(busy) /\ Cardinality(busy) = 0
  BY <1>1, Sizes
<1> QED
  BY <1>2, FS_EmptySet

LEMMA Typed ==
  ASSUME RowsInv
  PROVE  /\ acct \in [Users -> Row] /\ req \in [Reqs -> Request] /\ \A u \in Users : RowOK(acct[u])
         /\ \A p \in Reqs : RequestOK(req[p])
BY DEF RowsInv, RowsConsistent, TypeOK

(* What an unlocked operation leaves as it was.                            *)
LEMMA RowsAgree ==
  ASSUME NEW op \in RowOps, NEW old \in Row, RowOK(old), NEW new \in Rows(op, old),
         Agrees(old), old.status = "none" => ~old.setup
  PROVE  /\ new.status # "none" /\ old.status # "none"
         /\ new.status = "disabled" <=> old.status = "disabled"
         /\ op # "setup" => Agrees(new)
         /\ op # "setup" /\ op \in NewPassword => new.refresh = 0
<1> USE DEF NewPassword, Row, RowOK, Statuses, Agrees
<1>1. CASE new \in SessionRows(op, old)
  BY <1>1 DEF SessionRows
<1>2. CASE new \in ResetRows(op, old)
  BY <1>2 DEF ResetRows
<1>3. CASE new \in SetupRows(op, old)
  BY <1>3 DEF SetupRows
<1>4. CASE new \in ProfileRows(op, old)
  BY <1>4 DEF ProfileRows
<1>5. CASE new \in UpdateRows(op, old)
  BY <1>5 DEF UpdateRows
<1>6. CASE new \in ResendRows(op, old)
  BY <1>6 DEF ResendRows
<1>7. CASE new \in ResetByManager(op, old)
  BY <1>7 DEF ResetByManager
<1>8. CASE new \in MailRows(op, old)
  BY <1>8 DEF MailRows
<1> QED
  BY <1>1, <1>2, <1>3, <1>4, <1>5, <1>6, <1>7, <1>8 DEF Rows

(* What is left to show of a step of one request that moves alone.         *)
LEMMA SerialMove ==
  ASSUME AloneInv, NEW p \in Reqs, NEW q \in Request, Go(p, q),
         \A o \in Reqs : o # p => Idle(o),
         RowHeld(q)', SeatHeld(q)',
         (\A u \in Users : Agrees(acct[u]) \/ (q.pc = "save" /\ q.u = u))',
         (\A u \in Users : acct[u].status = "none" => ~acct[u].setup)',
         (counter = Cardinality(Seated))'
  PROVE  SerialInv'
<1>1. req'[p] = q /\ \A o \in Reqs : o # p => req'[o] = req[o] /\ req'[o].pc = "idle"
  BY Typed DEF AloneInv, Go, Idle
<1>2. (\A o, r \in Reqs : ~Idle(o) /\ ~Idle(r) => o = r)'
  BY <1>1 DEF Idle
<1>3. (\A o \in Reqs : RowHeld(req[o]) /\ SeatHeld(req[o]))'
  <2> SUFFICES ASSUME NEW o \in Reqs PROVE (RowHeld(req[o]) /\ SeatHeld(req[o]))'
    OBVIOUS
  <2>1. CASE o = p
    BY <1>1, <2>1 DEF RowHeld, SeatHeld
  <2>2. CASE o # p
    BY <1>1, <2>2 DEF RowHeld, SeatHeld
  <2> QED
    BY <2>1, <2>2
<1>4. (\A u \in Users : Agrees(acct[u]) \/ Tokening(u))'
  BY <1>1 DEF Tokening
<1> QED
  BY <1>2, <1>3, <1>4 DEF SerialInv

LEMMA SerialRead ==
  ASSUME AloneInv, crowd = 1, NEW p \in Reqs, NEW u \in Users, NEW op \in RowOps, RowRead(p, u, op)
  PROVE  SerialInv'
<1>1. \A o \in Reqs : Idle(o)
  BY SerialOne DEF RowRead
<1>2. \A v \in Users : Agrees(acct[v])
  BY <1>1 DEF AloneInv, SerialInv, Tokening, Idle
<1>3. PICK new \in Rows(op, acct[u]) :
        Go(p, [IdleReq EXCEPT !.pc = IF op = "setup" THEN "tokens" ELSE "save", !.u = u,
                              !.row = new, !.fresh = op \in NewPassword])
  BY DEF RowRead
<1>4. acct[u] \in Row /\ RowOK(acct[u]) /\ (acct[u].status = "none" => ~acct[u].setup)
  BY Typed DEF AloneInv, SerialInv
<1>5. /\ new \in Row /\ new.status # "none" /\ acct[u].status # "none"
      /\ new.status = "disabled" <=> acct[u].status = "disabled"
      /\ op # "setup" => Agrees(new) /\ (op \in NewPassword => new.refresh = 0)
  BY <1>2, <1>4, RowsAgree, RowsSafe
<1>6. PICK f \in BOOLEAN : f = (op \in NewPassword)
  <2>1. CASE op \in NewPassword
    BY <2>1
  <2>2. CASE op \notin NewPassword
    <3>1. (op \in NewPassword) = FALSE
      BY <2>2 DEF NewPassword
    <3> WITNESS FALSE \in BOOLEAN
    <3> QED
      BY <3>1
  <2> QED
    BY <2>1, <2>2
<1>7. PICK q \in Request :
        /\ q = [IdleReq EXCEPT !.pc = IF op = "setup" THEN "tokens" ELSE "save", !.u = u,
                               !.row = new, !.fresh = f]
        /\ q.pc \in {"save", "tokens"} /\ (q.pc = "save" => op # "setup")
        /\ q.u = u /\ q.row = new /\ q.fresh = f
  <2>1. [IdleReq EXCEPT !.pc = IF op = "setup" THEN "tokens" ELSE "save", !.u = u,
                        !.row = new, !.fresh = f] \in Request
    BY <1>5, Bases DEF Request
  <2> QED
    BY <2>1, Bases DEF Request
<1>8. Go(p, q) /\ UNCHANGED <<acct, counter>>
  BY <1>3, <1>6, <1>7 DEF RowRead
<1>9. RowHeld(q)' /\ SeatHeld(q)'
  BY <1>5, <1>6, <1>7, <1>8 DEF RowHeld, SeatHeld
<1>10. Seated' = Seated
  BY <1>8 DEF Seated
<1> QED
  BY <1>1, <1>2, <1>7, <1>8, <1>9, <1>10, SerialMove DEF AloneInv, SerialInv, Agrees

LEMMA SerialBusy ==
  ASSUME AloneInv, crowd = 1, NEW p \in Reqs, ~Idle(p)
  PROVE  /\ \A o \in Reqs : o # p => Idle(o)
         /\ RowHeld(req[p]) /\ SeatHeld(req[p]) /\ req[p] \in Request /\ RequestOK(req[p])
BY Typed DEF AloneInv, SerialInv

(* A save keeps who holds a seat and who is disabled.                      *)
LEMMA SavedStatus ==
  ASSUME AloneInv, crowd = 1, NEW p \in Reqs, RowSave(p)
  PROVE  LET u == req[p].u new == Stamped(req[p]) IN
         /\ u \in Users /\ acct' = [acct EXCEPT ![u] = new] /\ new \in Row
         /\ acct'[u] = new /\ \A v \in Users : v # u => acct'[v] = acct[v]
         /\ new.status # "none" /\ acct[u].status # "none"
         /\ new.status = "disabled" <=> acct[u].status = "disabled"
         /\ req[p].pc = "save" => Agrees(new)
<1> DEFINE u == req[p].u new == Stamped(req[p])
<1>1. req[p].pc \in {"save", "tokens"} /\ acct' = [acct EXCEPT ![u] = new]
  BY DEF RowSave, Store
<1>2. RowHeld(req[p]) /\ req[p] \in Request /\ RequestOK(req[p])
  BY <1>1, SerialBusy DEF Idle
<1>3. new \in Row /\ u \in Users
  BY <1>1, <1>2, StampedOK DEF AloneInv, Request
<1>4. acct'[u] = new /\ \A v \in Users : v # u => acct'[v] = acct[v]
  BY <1>1, <1>3, Typed DEF AloneInv
<1>5. req[p].row \in Row
  BY <1>2 DEF Request
<1>6. new.status = req[p].row.status /\ new.refresh = req[p].row.refresh
      /\ (~req[p].fresh => new = req[p].row)
  BY <1>5 DEF Stamped, Row
<1> HIDE DEF new, u
<1>7. req[p].pc = "save" => Agrees(new)
  BY <1>2, <1>6 DEF RowHeld, Agrees
<1>8. /\ req[p].row.status # "none" /\ acct[u].status # "none"
      /\ req[p].row.status = "disabled" <=> acct[u].status = "disabled"
  BY <1>1, <1>2 DEF RowHeld, u
<1> QED
  BY <1>1, <1>3, <1>4, <1>6, <1>7, <1>8 DEF new, u

LEMMA SerialSave ==
  ASSUME AloneInv, crowd = 1, NEW p \in Reqs, RowSave(p)
  PROVE  SerialInv'
<1> DEFINE u == req[p].u new == Stamped(req[p])
<1>1. /\ u \in Users /\ new \in Row
      /\ acct'[u] = new /\ \A v \in Users : v # u => acct'[v] = acct[v]
      /\ new.status # "none" /\ acct[u].status # "none"
      /\ new.status = "disabled" <=> acct[u].status = "disabled"
      /\ req[p].pc = "save" => Agrees(new)
  BY SavedStatus
<1>2. req[p].pc \in {"save", "tokens"} /\ counter' = counter
  BY DEF RowSave
<1>3. /\ \A o \in Reqs : o # p => Idle(o)
      /\ RowHeld(req[p]) /\ req[p] \in Request /\ RequestOK(req[p])
  BY <1>2, SerialBusy DEF Idle
<1>4. \A v \in Users : v # u => Agrees(acct[v])
  BY <1>3 DEF AloneInv, SerialInv, Tokening, Idle
<1>5. Seated' = Seated
  <2>1. acct \in [Users -> Row]
    BY Typed DEF AloneInv
  <2>2. Holds(new) <=> Holds(acct[u])
    BY <1>1, <2>1 DEF Holds, Row, Statuses
  <2> HIDE DEF u, new
  <2> QED
    BY <1>1, <2>2 DEF Seated
<1>6. (\A v \in Users : acct[v].status = "none" => ~acct[v].setup)'
  BY <1>1 DEF AloneInv, SerialInv
<1>7. (counter = Cardinality(Seated))'
  BY <1>2, <1>5 DEF AloneInv, SerialInv
<1>8. CASE req[p].pc = "save"
  <2>1. Go(p, IdleReq)
    BY <1>8 DEF RowSave
  <2>2. RowHeld(IdleReq)' /\ SeatHeld(IdleReq)'
    BY Bases DEF RowHeld, SeatHeld
  <2>3. (\A v \in Users : Agrees(acct[v]) \/ (IdleReq.pc = "save" /\ IdleReq.u = v))'
    BY <1>1, <1>4, <1>8 DEF Agrees
  <2> HIDE DEF u, new
  <2> QED
    BY <1>3, <1>6, <1>7, <2>1, <2>2, <2>3, Bases, SerialMove
<1>9. CASE req[p].pc = "tokens"
  <2>1. PICK t \in Row : t = Tokens(req[p]) /\ t.status = new.status /\ Agrees(t)
    <3>1. Tokens(req[p]) \in Row
      BY <1>2, <1>9, StampedOK DEF AloneInv
    <3>2. Tokens(req[p]) = [new EXCEPT !.refresh = new.pw]
      BY DEF Tokens
    <3> HIDE DEF new
    <3> QED
      BY <1>1, <3>1, <3>2 DEF Agrees, Row
  <2>2. PICK q \in Request :
          /\ q = [IdleReq EXCEPT !.pc = "save", !.u = u, !.row = t]
          /\ q.pc = "save" /\ q.u = u /\ q.row = t /\ q.fresh = FALSE
    <3>1. [IdleReq EXCEPT !.pc = "save", !.u = u, !.row = t] \in Request
      BY <1>1, Bases DEF Request
    <3> QED
      BY <3>1, Bases DEF Request
  <2>3. Go(p, q)
    BY <1>9, <2>1, <2>2 DEF RowSave
  <2>4. PICK v \in Users : v = u
    BY <1>1
  <2>5. /\ acct'[v] = new /\ q.u = v
        /\ \A w \in Users : w # v => acct'[w] = acct[w] /\ Agrees(acct[w])
    BY <1>1, <1>4, <2>2, <2>4
  <2>6. RowHeld(q)' /\ SeatHeld(q)'
    BY <1>1, <2>1, <2>2, <2>5 DEF RowHeld, SeatHeld
  <2>7. (\A w \in Users : Agrees(acct[w]) \/ (q.pc = "save" /\ q.u = w))'
    BY <2>2, <2>5 DEF Agrees
  <2> HIDE DEF u, new
  <2> QED
    BY <1>3, <1>6, <1>7, <2>3, <2>6, <2>7, SerialMove
<1> QED
  BY <1>2, <1>8, <1>9

LEMMA SerialLogout ==
  ASSUME AloneInv, crowd = 1, NEW u \in Users, Logout(u)
  PROVE  SerialInv'
<1>1. /\ acct' = [acct EXCEPT ![u].refresh = 0] /\ UNCHANGED <<req, counter>>
      /\ acct \in [Users -> Row]
  BY Typed DEF Logout, AloneInv
<1>2. /\ acct'[u].refresh = 0 /\ \A v \in Users : v # u => acct'[v] = acct[v]
      /\ \A v \in Users : acct'[v].status = acct[v].status /\ acct'[v].setup = acct[v].setup
  BY <1>1 DEF Row
<1>3. Seated' = Seated
  BY <1>2 DEF Seated, Holds
<1>4. (\A p \in Reqs : RowHeld(req[p]) /\ SeatHeld(req[p]))'
  <2>1. \A p \in Reqs : req[p].u \in Users
    BY Typed DEF AloneInv, Request
  <2> QED
    BY <1>1, <1>2, <1>3, <2>1 DEF AloneInv, SerialInv, RowHeld, SeatHeld
<1>5. (\A v \in Users : Agrees(acct[v]) \/ Tokening(v))'
  BY <1>1, <1>2 DEF AloneInv, SerialInv, Agrees, Tokening
<1> QED
  BY <1>1, <1>2, <1>3, <1>4, <1>5 DEF AloneInv, SerialInv, Idle

LEMMA SerialBegin ==
  ASSUME AloneInv, crowd = 1, NEW p \in Reqs, NEW u \in Users, NEW op \in SeatOps, SeatBegin(p, u, op)
  PROVE  SerialInv'
<1>1. \A o \in Reqs : Idle(o)
  BY SerialOne DEF SeatBegin
<1>2. \A v \in Users : Agrees(acct[v])
  BY <1>1 DEF AloneInv, SerialInv, Tokening, Idle
<1>3. acct[u] \in Row
  BY Typed DEF AloneInv
<1>4. PICK f \in BOOLEAN : f = (op = "create")
  OBVIOUS
<1>5. PICK q \in Request :
        /\ q = [IdleReq EXCEPT !.pc = "lock", !.op = op, !.u = u, !.row = acct[u], !.fresh = f]
        /\ q.pc = "lock" /\ q.op = op /\ q.u = u
  <2>1. [IdleReq EXCEPT !.pc = "lock", !.op = op, !.u = u, !.row = acct[u], !.fresh = f] \in Request
    BY <1>3, Bases DEF Request
  <2> QED
    BY <2>1, Bases DEF Request
<1>6. Go(p, q) /\ UNCHANGED <<acct, counter>>
  BY <1>4, <1>5 DEF SeatBegin
<1>7. op = "enable" => acct[u].status = "disabled"
  BY DEF SeatBegin
<1>8. RowHeld(q)' /\ SeatHeld(q)'
  BY <1>5, <1>6, <1>7 DEF RowHeld, SeatHeld
<1>9. Seated' = Seated
  BY <1>6 DEF Seated
<1> QED
  BY <1>1, <1>2, <1>5, <1>6, <1>8, <1>9, SerialMove DEF AloneInv, SerialInv, Agrees

LEMMA SerialLock ==
  ASSUME AloneInv, crowd = 1, NEW p \in Reqs, SeatLock(p)
  PROVE  SerialInv'
<1>1. req[p].pc = "lock" /\ UNCHANGED <<acct, counter>>
  BY DEF SeatLock
<1>2. /\ \A o \in Reqs : o # p => Idle(o)
      /\ SeatHeld(req[p]) /\ req[p] \in Request
  BY <1>1, SerialBusy DEF Idle
<1>3. \A v \in Users : Agrees(acct[v])
  BY <1>1, <1>2 DEF AloneInv, SerialInv, Tokening, Idle
<1>4. Seated' = Seated
  BY <1>1 DEF Seated
<1>5. CASE Go(p, IdleReq)
  <2>1. RowHeld(IdleReq)' /\ SeatHeld(IdleReq)'
    BY Bases DEF RowHeld, SeatHeld
  <2> QED
    BY <1>1, <1>2, <1>3, <1>4, <1>5, <2>1, Bases, SerialMove DEF AloneInv, SerialInv, Agrees
<1>6. CASE /\ Go(p, [req[p] EXCEPT !.pc = "seat", !.n = Cardinality(Seated)])
           /\ req[p].op \in {"invite", "create"} => acct[req[p].u].status = "none"
  <2>1. PICK n \in 0..Cardinality(Users) : n = Cardinality(Seated)
    BY SeatsCounted DEF AloneInv
  <2>2. PICK q \in Request :
          /\ q = [req[p] EXCEPT !.pc = "seat", !.n = n]
          /\ q.pc = "seat" /\ q.op = req[p].op /\ q.u = req[p].u /\ q.n = n
    <3>1. [req[p] EXCEPT !.pc = "seat", !.n = n] \in Request
      BY <1>2, <2>1 DEF Request
    <3> QED
      BY <1>2, <3>1 DEF Request
  <2>3. Go(p, q)
    BY <1>6, <2>1, <2>2
  <2>4. /\ q.op = "enable" => acct[q.u].status = "disabled"
        /\ q.op \in {"invite", "create"} => acct[q.u].status = "none"
    BY <1>1, <1>2, <1>6, <2>2 DEF SeatHeld
  <2>5. RowHeld(q)' /\ SeatHeld(q)'
    BY <1>1, <1>4, <2>1, <2>2, <2>4 DEF RowHeld, SeatHeld
  <2> QED
    BY <1>1, <1>2, <1>3, <1>4, <2>3, <2>5, SerialMove DEF AloneInv, SerialInv, Agrees
<1> QED
  BY <1>5, <1>6 DEF SeatLock

(* The row a seat operation stores has no session.                         *)
LEMMA SeatRowFresh ==
  ASSUME AloneInv, NEW p \in Reqs, req[p].pc = "seat"
  PROVE  /\ SeatRow(req[p]).refresh = 0 /\ SeatRow(req[p]).status # "none"
         /\ req[p].op = "disable" <=> SeatRow(req[p]).status = "disabled"
         /\ req[p].op # "disable" => Holds(SeatRow(req[p]))
<1>1. PICK q \in Request : q = req[p] /\ q.op \in SeatOps /\ q.row \in Row
                           /\ (q.op = "enable" => q.row.refresh = 0)
  BY Typed DEF AloneInv, RequestOK, Request
<1>2. CASE q.op = "invite"
  BY <1>1, <1>2 DEF SeatRow, Invited, NoRow, Holds
<1>3. CASE q.op = "create"
  <2>1. SeatRow(q) = Created(used[q.u] + 1)
    BY <1>3 DEF SeatRow
  <2>2. \A n : Created(n).refresh = 0 /\ Created(n).status = "active"
    BY DEF Created, NoRow
  <2> QED
    BY <1>1, <1>3, <2>1, <2>2 DEF Holds
<1>4. CASE q.op = "disable"
  BY <1>1, <1>4 DEF SeatRow, Disabled, Row, Holds
<1>5. CASE q.op = "enable"
  BY <1>1, <1>5 DEF SeatRow, Enabled, Row, Holds
<1> QED
  BY <1>1, <1>2, <1>3, <1>4, <1>5 DEF SeatOps

LEMMA SerialCommit ==
  ASSUME AloneInv, crowd = 1, NEW p \in Reqs, SeatCommit(p)
  PROVE  SerialInv'
<1> DEFINE u == req[p].u new == SeatRow(req[p])
<1>1. /\ req[p].pc = "seat" /\ acct' = [acct EXCEPT ![u] = new] /\ counter' = SeatsAfter(req[p])
      /\ Go(p, IdleReq)
  BY DEF SeatCommit
<1>2. /\ \A o \in Reqs : o # p => Idle(o)
      /\ SeatHeld(req[p]) /\ req[p] \in Request /\ RequestOK(req[p])
  BY <1>1, SerialBusy DEF Idle
<1>3. u \in Users /\ req[p].op \in SeatOps
  BY <1>1, <1>2 DEF Request, RequestOK
<1>4. /\ new.refresh = 0 /\ new.status # "none"
      /\ req[p].op = "disable" <=> new.status = "disabled"
      /\ req[p].op # "disable" => Holds(new)
  BY <1>1, SeatRowFresh
<1>5. acct'[u] = new /\ \A v \in Users : v # u => acct'[v] = acct[v]
  BY <1>1, <1>3, Typed DEF AloneInv
<1>6. \A v \in Users : Agrees(acct[v])
  BY <1>1, <1>2 DEF AloneInv, SerialInv, Tokening, Idle
<1>7. counter' = Cardinality(Seated')
  <2>1. CASE req[p].op = "disable"
    <3>1. Seated' = Seated \ {u}
      BY <1>3, <1>4, <1>5, <2>1 DEF Seated, Holds
    <3> QED
      BY <1>1, <2>1, <3>1 DEF SeatsAfter
  <2>2. CASE req[p].op # "disable"
    <3>1. ~Holds(acct[u])
      BY <1>1, <1>2, <1>3, <2>2 DEF SeatHeld, SeatOps, Holds
    <3>2. Seated' = Seated \cup {u} /\ u \notin Seated
      BY <1>3, <1>4, <1>5, <2>2, <3>1 DEF Seated
    <3>3. IsFiniteSet(Seated)
      BY Sizes DEF Seated
    <3>4. Cardinality(Seated') = Cardinality(Seated) + 1
      BY <3>2, <3>3, FS_AddElement
    <3> QED
      BY <1>1, <1>2, <2>2, <3>4 DEF SeatsAfter, SeatHeld
  <2> QED
    BY <2>1, <2>2
<1>8. RowHeld(IdleReq)' /\ SeatHeld(IdleReq)'
  BY Bases DEF RowHeld, SeatHeld
<1> HIDE DEF u, new
<1>9. (\A v \in Users : Agrees(acct[v]) \/ (IdleReq.pc = "save" /\ IdleReq.u = v))'
  BY <1>4, <1>5, <1>6 DEF Agrees
<1>10. (\A v \in Users : acct[v].status = "none" => ~acct[v].setup)'
  BY <1>4, <1>5 DEF AloneInv, SerialInv
<1> QED
  BY <1>1, <1>2, <1>7, <1>8, <1>9, <1>10, Bases, SerialMove

LEMMA AloneInit == Init => AloneInv
<1> SUFFICES ASSUME Init PROVE AloneInv
  OBVIOUS
<1>1. RowsInv
  BY InitRows
<1>2. Seated = {} /\ Cardinality(Seated) = 0
  BY FS_EmptySet DEF Init, Seated, Holds, NoRow
<1>3. \A p \in Reqs : req[p].pc = "idle"
  BY Bases DEF Init
<1>4. \A u \in Users : Agrees(acct[u]) /\ (acct[u].status = "none" => ~acct[u].setup)
  BY DEF Init, NoRow, Agrees
<1>5. \A p \in Reqs : RowHeld(req[p]) /\ SeatHeld(req[p])
  BY <1>3 DEF RowHeld, SeatHeld
<1> QED
  BY <1>1, <1>2, <1>3, <1>4, <1>5 DEF AloneInv, SerialInv, Idle, Init

LEMMA StepAlone == AloneInv /\ [Next]_vars => AloneInv'
<1> SUFFICES ASSUME AloneInv, [Next]_vars PROVE AloneInv'
  OBVIOUS
<1>1. RowsInv'
  BY StepRows DEF AloneInv
<1>2. crowd' = crowd
  BY DEF Next, vars, RowRead, RowSave, Logout, SeatBegin, SeatLock, SeatCommit
<1>3. ASSUME crowd = 1 PROVE SerialInv'
  <2>1. CASE UNCHANGED vars
    BY <1>3, <2>1 DEF vars, AloneInv, SerialInv, Idle, RowHeld, SeatHeld, Agrees, Tokening, Seated, Holds
  <2>2. CASE Next
    BY <1>3, <2>2, SerialRead, SerialSave, SerialLogout, SerialBegin, SerialLock, SerialCommit DEF Next
  <2> QED
    BY <2>1, <2>2
<1> QED
  BY <1>1, <1>2, <1>3 DEF AloneInv

LEMMA AloneAgree == AloneInv => AloneAccountsAgree
<1> SUFFICES ASSUME AloneInv, crowd = 1
             PROVE  /\ \A u \in Users : Settled(u) => acct[u].refresh \in {0, acct[u].pw}
                    /\ counter = Cardinality(Seated)
  BY DEF AloneAccountsAgree
<1> QED
  BY DEF AloneInv, SerialInv, Agrees, Tokening, Settled, Idle

LEMMA StepStaysOut ==
  ASSUME AloneInv, [Next]_vars, crowd = 1, NEW u \in Users,
         acct[u].status = "disabled", acct'[u].status # "disabled"
  PROVE  \E p \in Reqs : req[p].pc = "seat" /\ req[p].op = "enable" /\ req[p].u = u
<1>0. acct \in [Users -> Row]
  BY Typed DEF AloneInv
<1>1. ASSUME NEW p \in Reqs, RowSave(p) PROVE FALSE
  <2>1. CASE req[p].u = u
    BY <1>1, <2>1, SavedStatus
  <2>2. CASE req[p].u # u
    BY <1>1, <2>2, SavedStatus
  <2> QED
    BY <2>1, <2>2
<1>2. ASSUME NEW v \in Users, Logout(v) PROVE FALSE
  BY <1>0, <1>2 DEF Logout, Row
<1>3. PICK p \in Reqs : SeatCommit(p)
  BY <1>1, <1>2 DEF Next, vars, RowRead, SeatBegin, SeatLock
<1>4. /\ req[p].pc = "seat" /\ req[p].u = u /\ SeatHeld(req[p]) /\ req[p].op \in SeatOps
      /\ acct'[u] = SeatRow(req[p])
  <2>1. req[p].pc = "seat" /\ acct' = [acct EXCEPT ![req[p].u] = SeatRow(req[p])]
    BY <1>3 DEF SeatCommit
  <2>2. SeatHeld(req[p]) /\ RequestOK(req[p])
    BY <2>1, SerialBusy DEF Idle
  <2> QED
    BY <1>0, <2>1, <2>2 DEF RequestOK
<1>5. req[p].op # "disable"
  BY <1>4, SeatRowFresh
<1>6. req[p].op \notin {"invite", "create"}
  BY <1>4 DEF SeatHeld
<1> QED
  BY <1>4, <1>5, <1>6 DEF SeatOps

----------------------------------------------------------------------------
(* The vendor's panel, for all admins, roles and calls.  What a call will  *)
(* save agrees with itself whatever overlaps; while no calls               *)
(* ever did, who began it may still do so, and does not lock themselves    *)
(* out.                                                                    *)
PanelRow == [has : BOOLEAN, email : Emails \cup {None}, pw : Passwords, refresh : Passwords,
             active : BOOLEAN, role : Roles]
PanelRole == [has : BOOLEAN, may : SUBSET {"admins", "roles"}]

RowFresh(row) == row.refresh # 0 => row.active /\ row.refresh = row.pw

DeskTyped(c) ==
  \/ c = Panel!Idle
  \/ /\ c.pc = "admin" /\ c.by \in Admins /\ c.key \in Admins
     /\ c.row \in PanelRow /\ c.row.has /\ RowFresh(c.row)
  \/ c.pc = "erase" /\ c.by \in Admins /\ c.key \in Admins
  \/ c.pc = "role" /\ c.key \in Roles /\ c.row \in PanelRole

PanelTyped ==
  /\ admin \in [Admins -> PanelRow] /\ role \in [Roles -> PanelRole]
  /\ DOMAIN desk = Callers /\ desk = [p \in Callers |-> desk[p]]
  /\ \A p \in Callers : DeskTyped(desk[p])
  /\ \A a \in Admins : RowFresh(admin[a]) /\ (admin[a].has => role[admin[a].role].has)

DeskOK(c) ==
  /\ c.pc = "admin" /\ c.by = c.key => Panel!SignedIn(c.key) /\ c.row.active
  /\ c.pc = "admin" /\ c.by # c.key => Panel!May(c.by, "admins")
  /\ c.pc = "erase" => c.by # c.key /\ Panel!SignedIn(c.by)

PanelOrderly ==
  /\ \A p, q \in Callers : desk[p] # Panel!Idle /\ desk[q] # Panel!Idle => p = q
  /\ \E a \in Admins : Panel!SignedIn(a)
  /\ \A p \in Callers : DeskOK(desk[p])

PanelInv == PanelTyped /\ (lapped \/ PanelOrderly)

LEMMA PanelBounds ==
  /\ 0 \in Passwords /\ 1 \in Passwords /\ SuperAdmin \in Roles
  /\ \A n \in Passwords : n < MaxPw => n + 1 \in Passwords
BY ScenesAssumption DEF Panel!Parameters, Passwords

LEMMA DeskIdle == Panel!Idle.pc = "idle" /\ DeskTyped(Panel!Idle) /\ DeskOK(Panel!Idle)
BY DEF Panel!Idle, DeskTyped, DeskOK

LEMMA PanelFields ==
  ASSUME PanelTyped, NEW a \in Admins
  PROVE  /\ admin[a] \in PanelRow /\ RowFresh(admin[a]) /\ admin[a].role \in Roles
         /\ admin[a].pw \in Passwords /\ admin[a].refresh \in Passwords
BY DEF PanelTyped, PanelRow

(* The rows a call may compute from that of an admin.                      *)
LEMMA PanelRowsKeep ==
  ASSUME PanelTyped, NEW a \in Admins, admin[a].has,
         NEW row \in Panel!SessionRows(a) \cup Panel!ProfileRows(a) \cup Panel!UpdateRows(a)
                       \cup {[admin[a] EXCEPT !.active = TRUE], [admin[a] EXCEPT !.active = FALSE, !.refresh = 0]}
  PROVE  /\ row \in PanelRow /\ row.has /\ RowFresh(row)
         /\ row \in Panel!UpdateRows(a) \/ row = [admin[a] EXCEPT !.active = TRUE] =>
              (admin[a].active => row.active)
         /\ row \in Panel!SessionRows(a) \cup Panel!ProfileRows(a) => Panel!SignedIn(a) /\ row.active
<1> DEFINE old == admin[a]
<1>1. old \in PanelRow /\ RowFresh(old) /\ old.has
  BY PanelFields
<1>a. ASSUME row \in Panel!NewPassword(old)
      PROVE  row \in PanelRow /\ row.has /\ RowFresh(row) /\ row.active = old.active
  <2>1. old.pw < MaxPw /\ row = [old EXCEPT !.pw = @ + 1, !.refresh = 0]
    BY <1>a DEF Panel!NewPassword
  <2>2. old.pw + 1 \in Passwords /\ 0 \in Passwords
    <3>1. old.pw \in Passwords
      BY <1>1 DEF PanelRow
    <3> QED
      BY <2>1, <3>1, PanelBounds
  <2> HIDE DEF old
  <2>3. row.refresh = 0 /\ row.has = old.has /\ row.active = old.active
    BY <1>1, <2>1 DEF PanelRow
  <2>4. row \in PanelRow
    BY <1>1, <2>1, <2>2 DEF PanelRow
  <2> QED
    BY <1>1, <2>3, <2>4 DEF RowFresh
<1>b. ASSUME NEW email \in Emails, row = [old EXCEPT !.email = email]
      PROVE  row \in PanelRow /\ row.has /\ RowFresh(row) /\ row.active = old.active
  BY <1>1, <1>b DEF PanelRow, RowFresh
<1>2. CASE row \in Panel!SessionRows(a)
  <2>1. Panel!SignedIn(a) /\ (row = [old EXCEPT !.refresh = old.pw] \/ row = old)
    BY <1>2 DEF Panel!SessionRows
  <2>2. old.active
    BY <2>1 DEF Panel!SignedIn
  <2> HIDE DEF old
  <2>3. row \in PanelRow /\ row.has /\ RowFresh(row) /\ row.active
    BY <1>1, <2>1, <2>2 DEF PanelRow, RowFresh
  <2> QED
    BY <2>1, <2>3
<1>3. CASE row \in Panel!ProfileRows(a)
  <2>1. /\ Panel!SignedIn(a)
        /\ \/ \E email \in Emails : row = [old EXCEPT !.email = email]
           \/ row \in Panel!NewPassword(old)
    BY <1>3 DEF Panel!ProfileRows
  <2> QED
    BY <1>a, <1>b, <2>1 DEF Panel!SignedIn
<1>4. CASE row \in Panel!UpdateRows(a)
  <2>1. \/ \E email \in Emails : row = [old EXCEPT !.email = email]
        \/ \E r \in Roles : row = [old EXCEPT !.role = r]
        \/ row \in Panel!NewPassword(old)
    BY <1>4 DEF Panel!UpdateRows, Panel!ResetByAdmin
  <2>2. ASSUME NEW r \in Roles, row = [old EXCEPT !.role = r]
        PROVE  row \in PanelRow /\ row.has /\ RowFresh(row) /\ row.active = old.active
    BY <1>1, <2>2 DEF PanelRow, RowFresh
  <2>3. row \in PanelRow /\ row.has /\ RowFresh(row) /\ row.active = old.active
    BY <1>a, <1>b, <2>1, <2>2
  <2> QED
    BY <2>3, <1>2, <1>3
<1>5. CASE row \in {[old EXCEPT !.active = TRUE], [old EXCEPT !.active = FALSE, !.refresh = 0]}
  <2>1. 0 \in Passwords
    BY PanelBounds
  <2>2. row \in PanelRow /\ row.has /\ RowFresh(row) /\ (row = [old EXCEPT !.active = TRUE] => row.active)
    BY <1>1, <1>5, <2>1 DEF PanelRow, RowFresh
  <2> QED
    BY <1>2, <1>3, <1>4, <2>2
<1> QED
  BY <1>2, <1>3, <1>4, <1>5

LEMMA DeskBegins ==
  ASSUME PanelInv, NEW p \in Callers, NEW by, NEW pc, NEW key, NEW row, Panel!Begin(p, by, pc, key, row),
         DeskTyped([pc |-> pc, by |-> by, key |-> key, row |-> row]),
         DeskOK([pc |-> pc, by |-> by, key |-> key, row |-> row])
  PROVE  PanelInv'
<1> DEFINE c == [pc |-> pc, by |-> by, key |-> key, row |-> row]
<1>1. /\ desk[p] = Panel!Idle /\ desk' = [desk EXCEPT ![p] = c] /\ UNCHANGED <<admin, role>>
      /\ lapped' = (lapped \/ \E q \in Callers : desk[q] # Panel!Idle)
  BY DEF Panel!Begin
<1> HIDE DEF c
<1>2. desk'[p] = c /\ \A q \in Callers : q # p => desk'[q] = desk[q]
  BY <1>1 DEF PanelInv, PanelTyped
<1>3. DeskTyped(c) /\ DeskOK(c)
  BY DEF c
<1>4. PanelTyped'
  <2>1. DOMAIN desk' = Callers /\ desk' = [q \in Callers |-> desk'[q]]
    BY <1>1 DEF PanelInv, PanelTyped
  <2>2. (\A q \in Callers : DeskTyped(desk[q]))'
    BY <1>2, <1>3 DEF PanelInv, PanelTyped, DeskTyped
  <2> QED
    BY <1>1, <2>1, <2>2 DEF PanelInv, PanelTyped
<1>5. ASSUME ~lapped' PROVE PanelOrderly'
  <2>1. PanelOrderly /\ \A q \in Callers : desk[q] = Panel!Idle
    BY <1>1, <1>5 DEF PanelInv
  <2>2. (\A q \in Callers : DeskOK(desk[q]))'
    <3> SUFFICES ASSUME NEW q \in Callers PROVE DeskOK(desk[q])'
      OBVIOUS
    <3>1. DeskOK(desk'[q])
      BY <1>2, <1>3, <2>1, DeskIdle
    <3> QED
      BY <1>1, <3>1 DEF DeskOK, Panel!SignedIn, Panel!May
  <2>3. (\A q, r \in Callers : desk[q] # Panel!Idle /\ desk[r] # Panel!Idle => q = r)'
    BY <1>2, <2>1
  <2> QED
    BY <1>1, <2>1, <2>2, <2>3 DEF PanelOrderly, Panel!SignedIn
<1> QED
  BY <1>4, <1>5 DEF PanelInv

LEMMA DeskCalls ==
  ASSUME PanelInv, NEW p \in Callers, NEW by \in Admins, NEW a \in Admins,
         \/ Panel!Own(p, a) \/ Panel!Update(p, by, a) \/ Panel!UpdateStatus(p, by, a)
         \/ Panel!Remove(p, by, a)
         \/ \E email \in Emails, r \in Roles : Panel!Create(p, by, a, email, r)
  PROVE  PanelInv'
<1>0. PanelTyped
  BY DEF PanelInv
<1>1. CASE Panel!Own(p, a)
  <2>1. PICK row \in Panel!SessionRows(a) \cup Panel!ProfileRows(a) : Panel!Begin(p, a, "admin", a, row)
    BY <1>1 DEF Panel!Own
  <2>2. Panel!SignedIn(a)
    BY <2>1 DEF Panel!SessionRows, Panel!ProfileRows
  <2>3. row \in PanelRow /\ row.has /\ RowFresh(row) /\ row.active
    BY <1>0, <2>1, <2>2, PanelRowsKeep DEF Panel!SignedIn
  <2> QED
    BY <2>1, <2>2, <2>3, DeskBegins DEF DeskTyped, DeskOK
<1>2. CASE Panel!Update(p, by, a)
  <2>1. PICK row \in Panel!UpdateRows(a) : Panel!Begin(p, by, "admin", a, row)
    BY <1>2 DEF Panel!Update
  <2>2. Panel!May(by, "admins") /\ admin[a].has
    BY <1>2 DEF Panel!Update
  <2>3. row \in PanelRow /\ row.has /\ RowFresh(row) /\ (admin[a].active => row.active)
    BY <1>0, <2>1, <2>2, PanelRowsKeep
  <2> QED
    BY <2>1, <2>2, <2>3, DeskBegins DEF DeskTyped, DeskOK, Panel!May, Panel!SignedIn
<1>3. CASE Panel!UpdateStatus(p, by, a)
  <2>1. PICK row \in Panel!StatusRows(by, a) : Panel!Begin(p, by, "admin", a, row)
    BY <1>3 DEF Panel!UpdateStatus
  <2>2. Panel!May(by, "admins") /\ admin[a].has
    BY <1>3 DEF Panel!UpdateStatus
  <2>3. /\ row \in {[admin[a] EXCEPT !.active = TRUE], [admin[a] EXCEPT !.active = FALSE, !.refresh = 0]}
        /\ a = by => row = [admin[a] EXCEPT !.active = TRUE]
    BY <2>1 DEF Panel!StatusRows
  <2>4. row \in PanelRow /\ row.has /\ RowFresh(row) /\ (a = by /\ admin[a].active => row.active)
    BY <1>0, <2>2, <2>3, PanelRowsKeep
  <2> QED
    BY <2>1, <2>2, <2>4, DeskBegins DEF DeskTyped, DeskOK, Panel!May, Panel!SignedIn
<1>4. CASE Panel!Remove(p, by, a)
  BY <1>4, DeskBegins DEF Panel!Remove, DeskTyped, DeskOK, Panel!May
<1>5. ASSUME NEW email \in Emails, NEW r \in Roles, Panel!Create(p, by, a, email, r)
      PROVE  PanelInv'
  <2> DEFINE row == [Panel!NoAdmin EXCEPT !.has = TRUE, !.email = email, !.pw = 1, !.active = TRUE, !.role = r]
  <2>1. row \in PanelRow /\ row.has /\ row.active /\ RowFresh(row)
    <3>1. Panel!NoAdmin \in PanelRow /\ Panel!NoAdmin.refresh = 0 /\ 1 \in Passwords
      BY PanelBounds DEF Panel!NoAdmin, PanelRow
    <3>2. row \in PanelRow
      BY <3>1 DEF PanelRow
    <3> QED
      BY <3>1, <3>2 DEF RowFresh, PanelRow
  <2>2. Panel!May(by, "admins") /\ Panel!Begin(p, by, "admin", a, row) /\ ~admin[a].has
    BY <1>5 DEF Panel!Create
  <2> HIDE DEF row
  <2> QED
    BY <2>1, <2>2, DeskBegins DEF DeskTyped, DeskOK, Panel!May, Panel!SignedIn
<1> QED
  BY <1>1, <1>2, <1>3, <1>4, <1>5

LEMMA DeskRoles ==
  ASSUME PanelInv, NEW p \in Callers, NEW by \in Admins, NEW r \in Roles,
         \/ Panel!RemoveRole(p, by, r)
         \/ \E may \in SUBSET {"admins", "roles"} :
              Panel!CreateRole(p, by, r, may) \/ Panel!UpdateRole(p, by, r, may)
  PROVE  PanelInv'
<1>1. PICK row \in PanelRole : Panel!Begin(p, by, "role", r, row)
  <2>1. CASE Panel!RemoveRole(p, by, r)
    <3>1. Panel!NoRole \in PanelRole
      BY DEF Panel!NoRole, PanelRole
    <3> QED
      BY <2>1, <3>1 DEF Panel!RemoveRole
  <2>2. ASSUME NEW may \in SUBSET {"admins", "roles"},
               Panel!CreateRole(p, by, r, may) \/ Panel!UpdateRole(p, by, r, may)
        PROVE  \E row \in PanelRole : Panel!Begin(p, by, "role", r, row)
    <3>1. [has |-> TRUE, may |-> may] \in PanelRole
      BY DEF PanelRole
    <3> QED
      BY <2>2, <3>1 DEF Panel!CreateRole, Panel!UpdateRole
  <2> QED
    BY <2>1, <2>2
<1> QED
  BY <1>1, DeskBegins DEF DeskTyped, DeskOK

LEMMA DeskEnds ==
  ASSUME PanelInv, NEW p \in Callers, desk' = [desk EXCEPT ![p] = Panel!Idle], desk[p] # Panel!Idle,
         lapped' = lapped,
         admin' \in [Admins -> PanelRow], role' \in [Roles -> PanelRole],
         (\A a \in Admins : RowFresh(admin[a]) /\ (admin[a].has => role[admin[a].role].has))',
         ~lapped => \E a \in Admins : Panel!SignedIn(a)'
  PROVE  PanelInv'
<1>1. desk'[p] = Panel!Idle /\ \A q \in Callers : q # p => desk'[q] = desk[q]
  BY DEF PanelInv, PanelTyped
<1>2. PanelTyped'
  <2>1. DOMAIN desk' = Callers /\ desk' = [q \in Callers |-> desk'[q]]
    BY DEF PanelInv, PanelTyped
  <2>2. (\A q \in Callers : DeskTyped(desk[q]))'
    BY <1>1 DEF PanelInv, PanelTyped, DeskTyped
  <2> QED
    BY <2>1, <2>2 DEF PanelTyped
<1>3. ASSUME ~lapped PROVE PanelOrderly'
  <2>1. \A q \in Callers : desk'[q] = Panel!Idle
    BY <1>1, <1>3 DEF PanelInv, PanelOrderly
  <2>2. (\A q \in Callers : DeskOK(desk[q]))'
    BY <2>1, DeskIdle DEF DeskOK
  <2> QED
    BY <1>3, <2>1, <2>2 DEF PanelOrderly
<1> QED
  BY <1>2, <1>3 DEF PanelInv

LEMMA DeskSaves ==
  ASSUME PanelInv, NEW p \in Callers, Panel!SaveAdmin(p) \/ Panel!Erase(p) \/ Panel!SaveRole(p)
  PROVE  PanelInv'
<1>0. PanelTyped /\ desk[p] # Panel!Idle /\ lapped' = lapped /\ desk' = [desk EXCEPT ![p] = Panel!Idle]
  BY DeskIdle DEF PanelInv, Panel!SaveAdmin, Panel!Erase, Panel!SaveRole, Panel!Done
<1> DEFINE a == desk[p].key row == desk[p].row
<1>1. CASE Panel!SaveAdmin(p)
  <2>1. desk[p].pc = "admin" /\ role' = role
    BY <1>1 DEF Panel!SaveAdmin
  <2>2. /\ a \in Admins /\ desk[p].by \in Admins
        /\ row \in PanelRow /\ row.has /\ RowFresh(row)
    BY <1>0, <2>1, DeskIdle DEF PanelTyped, DeskTyped
  <2>3. \/ admin' = admin
        \/ admin' = [admin EXCEPT ![a] = row] /\ role[row.role].has
    BY <1>1 DEF Panel!SaveAdmin
  <2> HIDE DEF a, row
  <2>4. \/ admin' = admin
        \/ /\ admin'[a] = row /\ role[row.role].has
           /\ \A b \in Admins : b # a => admin'[b] = admin[b]
    BY <1>0, <2>2, <2>3 DEF PanelTyped
  <2>5. admin' \in [Admins -> PanelRow] /\ role' \in [Roles -> PanelRole]
    BY <1>0, <2>1, <2>2, <2>3 DEF PanelTyped
  <2>6. (\A b \in Admins : RowFresh(admin[b]) /\ (admin[b].has => role[admin[b].role].has))'
    BY <1>0, <2>1, <2>2, <2>4 DEF PanelTyped, RowFresh
  <2>7. ASSUME ~lapped PROVE \E b \in Admins : Panel!SignedIn(b)'
    <3>1. DeskOK(desk[p]) /\ \E b \in Admins : Panel!SignedIn(b)
      BY <2>7 DEF PanelInv, PanelOrderly
    <3>2. CASE admin' = admin
      BY <3>1, <3>2 DEF Panel!SignedIn
    <3>3. CASE admin' # admin /\ desk[p].by = a
      <4>1. row.active
        BY <2>1, <3>1, <3>3 DEF DeskOK, a, row
      <4> QED
        BY <2>2, <2>4, <3>3, <4>1 DEF Panel!SignedIn
    <3>4. CASE admin' # admin /\ desk[p].by # a
      <4>1. Panel!SignedIn(desk[p].by)
        BY <2>1, <3>1, <3>4 DEF DeskOK, Panel!May, a
      <4> QED
        BY <2>2, <2>4, <3>4, <4>1 DEF Panel!SignedIn
    <3> QED
      BY <3>2, <3>3, <3>4
  <2> QED
    BY <1>0, <2>5, <2>6, <2>7, DeskEnds
<1>2. CASE Panel!Erase(p)
  <2>1. desk[p].pc = "erase" /\ role' = role
    BY <1>2 DEF Panel!Erase
  <2>2. a \in Admins /\ desk[p].by \in Admins
    BY <1>0, <2>1, DeskIdle DEF PanelTyped, DeskTyped
  <2>3. admin' = admin \/ admin' = [admin EXCEPT ![a] = Panel!NoAdmin]
    BY <1>2 DEF Panel!Erase
  <2>4. Panel!NoAdmin \in PanelRow /\ RowFresh(Panel!NoAdmin) /\ ~Panel!NoAdmin.has
    BY PanelBounds DEF Panel!NoAdmin, PanelRow, RowFresh
  <2> HIDE DEF a, row
  <2>5. \/ admin' = admin
        \/ admin'[a] = Panel!NoAdmin /\ \A b \in Admins : b # a => admin'[b] = admin[b]
    BY <1>0, <2>2, <2>3 DEF PanelTyped
  <2>6. admin' \in [Admins -> PanelRow] /\ role' \in [Roles -> PanelRole]
    BY <1>0, <2>1, <2>2, <2>3, <2>4 DEF PanelTyped
  <2>7. (\A b \in Admins : RowFresh(admin[b]) /\ (admin[b].has => role[admin[b].role].has))'
    BY <1>0, <2>1, <2>2, <2>4, <2>5 DEF PanelTyped, RowFresh
  <2>8. ASSUME ~lapped PROVE \E b \in Admins : Panel!SignedIn(b)'
    <3>1. desk[p].by # a /\ Panel!SignedIn(desk[p].by)
      BY <2>1, <2>8 DEF PanelInv, PanelOrderly, DeskOK, a
    <3> QED
      BY <2>2, <2>5, <3>1 DEF Panel!SignedIn
  <2> QED
    BY <1>0, <2>6, <2>7, <2>8, DeskEnds
<1>3. CASE Panel!SaveRole(p)
  <2>1. desk[p].pc = "role" /\ admin' = admin
    BY <1>3 DEF Panel!SaveRole
  <2>2. a \in Roles /\ row \in PanelRole
    BY <1>0, <2>1, DeskIdle DEF PanelTyped, DeskTyped
  <2>3. \/ role' = role
        \/ /\ role' = [role EXCEPT ![a] = row]
           /\ row.has \/ \A b \in Admins : admin[b].has => admin[b].role # a
    BY <1>3 DEF Panel!SaveRole, Panel!InUse
  <2> HIDE DEF a, row
  <2>4. admin' \in [Admins -> PanelRow] /\ role' \in [Roles -> PanelRole]
    BY <1>0, <2>1, <2>2, <2>3 DEF PanelTyped
  <2>5. (\A b \in Admins : RowFresh(admin[b]) /\ (admin[b].has => role[admin[b].role].has))'
    BY <1>0, <2>1, <2>2, <2>3, PanelFields DEF PanelTyped, RowFresh
  <2>6. ~lapped => \E b \in Admins : Panel!SignedIn(b)'
    BY <2>1 DEF PanelInv, PanelOrderly, Panel!SignedIn
  <2> QED
    BY <1>0, <2>4, <2>5, <2>6, DeskEnds
<1> QED
  BY <1>1, <1>2, <1>3

LEMMA PanelLogout ==
  ASSUME PanelInv, NEW a \in Admins, Panel!Logout(a)
  PROVE  PanelInv'
<1>1. /\ admin' = [admin EXCEPT ![a].refresh = 0] /\ UNCHANGED <<role, desk, lapped>> /\ PanelTyped
  BY DEF Panel!Logout, PanelInv
<1>2. [admin[a] EXCEPT !.refresh = 0] \in PanelRow /\ [admin[a] EXCEPT !.refresh = 0].refresh = 0
  BY <1>1, PanelFields, PanelBounds DEF PanelRow
<1>3. /\ admin' \in [Admins -> PanelRow]
      /\ \A b \in Admins :
           /\ admin'[b] = admin[b] \/ admin'[b].refresh = 0
           /\ admin'[b].has = admin[b].has /\ admin'[b].active = admin[b].active
           /\ admin'[b].role = admin[b].role
  <2>1. admin' = [admin EXCEPT ![a] = [admin[a] EXCEPT !.refresh = 0]]
    BY <1>1
  <2>2. admin' \in [Admins -> PanelRow]
    BY <1>1, <1>2, <2>1 DEF PanelTyped
  <2>3. admin[a] \in PanelRow
    BY <1>1, PanelFields
  <2> QED
    BY <1>1, <2>1, <2>2, <2>3 DEF PanelTyped, PanelRow
<1>4. PanelTyped'
  BY <1>1, <1>3 DEF PanelTyped, DeskTyped, RowFresh
<1>5. \A b \in Admins :
        /\ Panel!SignedIn(b)' <=> Panel!SignedIn(b)
        /\ Panel!May(b, "admins")' <=> Panel!May(b, "admins")
  BY <1>1, <1>3 DEF Panel!SignedIn, Panel!May
<1>6. ASSUME ~lapped PROVE PanelOrderly'
  <2>1. PanelOrderly
    BY <1>6 DEF PanelInv
  <2>2. ASSUME NEW p \in Callers PROVE DeskOK(desk[p])'
    <3>1. CASE desk[p] = Panel!Idle
      BY <1>1, <3>1, DeskIdle DEF DeskOK
    <3>2. CASE desk[p].pc = "role"
      BY <1>1, <3>2 DEF DeskOK
    <3>3. CASE desk[p].pc \in {"admin", "erase"}
      <4>1. desk[p].by \in Admins /\ desk[p].key \in Admins
        BY <1>1, <3>3, DeskIdle DEF PanelTyped, DeskTyped
      <4> QED
        BY <1>1, <1>5, <2>1, <4>1 DEF PanelOrderly, DeskOK
    <3> QED
      BY <1>1, <3>1, <3>2, <3>3 DEF PanelTyped, DeskTyped
  <2> QED
    BY <1>1, <1>5, <2>1, <2>2 DEF PanelOrderly
<1> QED
  BY <1>1, <1>4, <1>6 DEF PanelInv

LEMMA PanelStep == PanelInv /\ Panel!Next => PanelInv'
<1> SUFFICES ASSUME PanelInv, Panel!Next PROVE PanelInv'
  OBVIOUS
<1> QED
  BY DeskCalls, DeskRoles, DeskSaves, PanelLogout
     DEF Panel!Next, Panel!Powers

LEMMA PanelInit == Panel!Init => PanelInv
<1> SUFFICES ASSUME Panel!Init PROVE PanelInv
  OBVIOUS
<1>1. PICK first \in Admins, email \in Emails :
        admin = [a \in Admins |->
                   IF a = first THEN [Panel!NoAdmin EXCEPT !.has = TRUE, !.email = email, !.pw = 1, !.active = TRUE]
                   ELSE Panel!NoAdmin]
  BY DEF Panel!Init
<1>2. /\ role = [r \in Roles |-> IF r = SuperAdmin THEN [has |-> TRUE, may |-> {"admins", "roles"}]
                                      ELSE Panel!NoRole]
      /\ desk = [p \in Callers |-> Panel!Idle] /\ lapped = FALSE
  BY DEF Panel!Init, Panel!Powers
<1> DEFINE one == [Panel!NoAdmin EXCEPT !.has = TRUE, !.email = email, !.pw = 1, !.active = TRUE]
<1>3. Panel!NoAdmin \in PanelRow /\ Panel!NoAdmin.refresh = 0 /\ ~Panel!NoAdmin.has
      /\ Panel!NoAdmin.role = SuperAdmin /\ 1 \in Passwords
  BY PanelBounds DEF Panel!NoAdmin, PanelRow
<1>4. one \in PanelRow
  BY <1>3 DEF PanelRow
<1>5. one.refresh = 0 /\ one.role = SuperAdmin /\ one.has /\ one.active
  BY <1>3 DEF PanelRow
<1> HIDE DEF one
<1>6. admin = [a \in Admins |-> IF a = first THEN one ELSE Panel!NoAdmin]
  BY <1>1 DEF one
<1>7. role \in [Roles -> PanelRole] /\ role[SuperAdmin].has
  BY <1>2, PanelBounds DEF PanelRole, Panel!NoRole
<1>8. PanelTyped
  <2>1. \A p \in Callers : DeskTyped(desk[p])
    BY <1>2, DeskIdle
  <2> QED
    BY <1>2, <1>3, <1>4, <1>5, <1>6, <1>7, <2>1 DEF PanelTyped, RowFresh
<1>9. PanelOrderly
  BY <1>2, <1>5, <1>6, DeskIdle DEF PanelOrderly, Panel!SignedIn
<1> QED
  BY <1>8, <1>9 DEF PanelInv

LEMMA PanelHeld == PanelInv => Panel!SessionsAreCurrent /\ Panel!SomeoneRemains
BY DEF PanelInv, PanelTyped, PanelOrderly, RowFresh, Panel!SessionsAreCurrent,
       Panel!SomeoneRemains

LEMMA BroughtBack ==
  ASSUME PanelInv, Panel!Next, ~lapped, NEW a \in Admins,
         ~Panel!SignedIn(a), Panel!SignedIn(a)'
  PROVE  \E p \in Callers : desk[p].key = a /\ desk[p].by # a /\ Panel!May(desk[p].by, "admins")
<1>0. PanelTyped /\ PanelOrderly
  BY DEF PanelInv
<1>1. PICK p \in Callers : Panel!SaveAdmin(p)
  <2>1. ASSUME NEW b \in Admins, Panel!Logout(b) PROVE FALSE
    BY <1>0, <2>1, PanelFields DEF Panel!Logout, Panel!SignedIn, PanelTyped, PanelRow
  <2>2. ASSUME NEW p \in Callers, Panel!Erase(p) PROVE FALSE
    <3>1. desk[p].key \in Admins
      BY <1>0, <2>2, DeskIdle DEF Panel!Erase, PanelTyped, DeskTyped
    <3>2. admin' = admin \/ admin' = [admin EXCEPT ![desk[p].key] = Panel!NoAdmin]
      BY <2>2 DEF Panel!Erase
    <3>3. ~Panel!NoAdmin.has
      BY DEF Panel!NoAdmin
    <3> QED
      BY <1>0, <3>1, <3>2, <3>3 DEF PanelTyped, Panel!SignedIn
  <2>3. admin' # admin
    BY DEF Panel!SignedIn
  <2>4. ASSUME NEW q \in Callers, NEW b \in Admins, NEW pc, NEW k, NEW row, Panel!Begin(q, b, pc, k, row)
        PROVE  FALSE
    BY <2>3, <2>4 DEF Panel!Begin
  <2>5. ASSUME NEW q \in Callers, Panel!SaveRole(q) PROVE FALSE
    BY <2>3, <2>5 DEF Panel!SaveRole
  <2>6. ASSUME NEW q \in Callers, NEW b \in Admins, Panel!Own(q, b) PROVE FALSE
    BY <2>4, <2>6 DEF Panel!Own
  <2>7. ASSUME NEW q \in Callers, NEW by \in Admins, NEW b \in Admins,
               \/ Panel!Update(q, by, b) \/ Panel!UpdateStatus(q, by, b) \/ Panel!Remove(q, by, b)
               \/ \E email \in Emails, r \in Roles : Panel!Create(q, by, b, email, r)
        PROVE  FALSE
    BY <2>4, <2>7 DEF Panel!Update, Panel!UpdateStatus, Panel!Remove, Panel!Create
  <2>8. ASSUME NEW q \in Callers, NEW by \in Admins, NEW r \in Roles,
               \/ Panel!RemoveRole(q, by, r)
               \/ \E may \in SUBSET Panel!Powers : Panel!CreateRole(q, by, r, may) \/ Panel!UpdateRole(q, by, r, may)
        PROVE  FALSE
    BY <2>4, <2>8 DEF Panel!RemoveRole, Panel!CreateRole, Panel!UpdateRole
  <2> QED
    BY <2>1, <2>2, <2>5, <2>6, <2>7, <2>8 DEF Panel!Next
<1>2. desk[p].pc = "admin" /\ desk[p].key \in Admins
  BY <1>0, <1>1, DeskIdle DEF Panel!SaveAdmin, PanelTyped, DeskTyped
<1>3. desk[p].key = a
  <2>1. admin' = admin \/ admin' = [admin EXCEPT ![desk[p].key] = desk[p].row]
    BY <1>1 DEF Panel!SaveAdmin
  <2> QED
    BY <1>0, <1>2, <2>1 DEF PanelTyped, Panel!SignedIn
<1> QED
  BY <1>0, <1>2, <1>3 DEF PanelOrderly, DeskOK

MCInv == AloneInv /\ PanelInv

(* When requests do not overlap, a session is as young as its password,    *)
(* the counter is the seats taken and a disabled account comes back by     *)
(* enabling only; and the vendor's panel, with the admins MCAccounts gives *)
(* it, keeps current sessions whatever overlaps and, alone, an active      *)
(* admin, whom only another brings back.                                   *)
THEOREM AccountsHoldAlone == MCSpec => AloneAccountsHold
<1> DEFINE MCvars == <<scene, vars, newsVars, guideVars, panelVars>>
<1>1. MCInit => MCInv
  BY AloneInit, PanelInit DEF MCInit, MCInv
<1>2. [MCNext]_MCvars => [Next]_vars /\ (Panel!Next \/ UNCHANGED <<admin, role, desk, lapped>>)
  BY DEF MCNext, Staffing, Administering, panelVars
<1>3. MCInv /\ [MCNext]_MCvars => MCInv'
  <2> SUFFICES ASSUME MCInv, [MCNext]_MCvars PROVE MCInv'
    OBVIOUS
  <2>1. PanelInv /\ UNCHANGED <<admin, role, desk, lapped>> => PanelInv'
    BY DEF PanelInv, PanelTyped, PanelOrderly, DeskTyped, DeskOK, RowFresh, Panel!SignedIn, Panel!May
  <2> QED
    BY <1>2, <2>1, StepAlone, PanelStep DEF MCInv
<1>4. MCInv => AloneAccountsAgree /\ Panel!SessionsAreCurrent /\ Panel!SomeoneRemains
  BY AloneAgree, PanelHeld DEF MCInv
<1>5. MCInv /\ [MCNext]_MCvars =>
        [crowd = 1 => \A u \in Users :
           acct[u].status = "disabled" /\ acct'[u].status # "disabled"
             => \E p \in Reqs : req[p].pc = "seat" /\ req[p].op = "enable" /\ req[p].u = u]_vars
  BY <1>2, StepStaysOut DEF MCInv
<1>6. MCInv /\ [MCNext]_MCvars =>
        [\A a \in Admins : ~Panel!SignedIn(a) /\ Panel!SignedIn(a)' =>
           lapped \/ \E p \in Callers : desk[p].key = a /\ desk[p].by # a
                                      /\ Panel!May(desk[p].by, "admins")]_<<admin, role, desk, lapped>>
  BY <1>2, BroughtBack DEF MCInv
<1>7. MCSpec => AloneDisabledStaysOut
  BY <1>1, <1>3, <1>5, PTL DEF MCSpec, AloneDisabledStaysOut
<1>8. MCSpec => Panel!OthersBringBack
  BY <1>1, <1>3, <1>6, PTL DEF MCSpec, Panel!OthersBringBack, Panel!vars
<1>9. MCSpec => []AloneAccountsAgree /\ [](Panel!SessionsAreCurrent /\ Panel!SomeoneRemains)
  BY <1>1, <1>3, <1>4, PTL DEF MCSpec
<1> QED
  BY <1>7, <1>8, <1>9 DEF AloneAccountsHold

----------------------------------------------------------------------------
(* Announcements, for all rows, audiences and times.  A row that one alone *)
(* holds may be replaced by what it will save: the tick holds rows that    *)
(* are due, which time does not undo, and no call holds a row that ended.  *)
NamesSomeone(au) == au.by # "all" => au.of # {}
Stored(r) == r \in News!Row /\ NamesSomeone(r.aud)

CallTyped(c) ==
  \/ c = News!IdleCall
  \/ /\ c = [pc |-> c.pc, key |-> c.key, row |-> c.row]
     /\ c.pc \in {"save", "notify"} /\ c.key \in Anns /\ Stored(c.row)

TickTyped(t) ==
  /\ t = [pc |-> t.pc, batch |-> t.batch, done |-> t.done]
  /\ DOMAIN t.batch \subseteq Anns /\ \A a \in DOMAIN t.batch : Stored(t.batch[a])
  /\ t.pc \in {"idle", "rows", "notify"} /\ (t.pc = "notify" => t.done[1] \in Anns)

NewsTyped ==
  /\ ann \in [Anns -> News!Row] /\ \A a \in Anns : NamesSomeone(ann[a].aud)
  /\ here \subseteq Stays /\ floor \in [Stays -> Floors] /\ now \in 1..Horizon
  /\ reads \subseteq Anns \X Stays /\ pushed \subseteq Anns \X Stays /\ raced \subseteq Anns
  /\ call = [p \in Editors |-> call[p]] /\ \A p \in Editors : CallTyped(call[p])
  /\ TickTyped(tick)

OneKeeper(a) ==
  \A p, q \in Editors \cup {Ticker} : News!HeldBy(p, a) /\ News!HeldBy(q, a) => p = q

MayReplace(r, q) ==
  /\ r.status \notin {"retracted", "expired"}
  /\ r.status = "live" => q = [r EXCEPT !.status = "retracted"]
  /\ q.status = "scheduled" => r.status \in {"none", "scheduled"}
  /\ r.status # "live" /\ q.status = "live" => q.pub = 0

Told(a, au) == ann[a].status \in News!Published /\ au = ann[a].aud

AnnOK(a) ==
  /\ \A p \in Editors : call[p].pc = "save" /\ call[p].key = a => MayReplace(ann[a], call[p].row)
  /\ a \in DOMAIN tick.batch => tick.batch[a] = ann[a] /\ News!DueAt(ann[a], now)
  /\ \A p \in Editors : call[p].pc = "notify" /\ call[p].key = a => Told(a, call[p].row.aud)
  /\ tick.pc = "notify" /\ tick.done[1] = a => Told(a, tick.done[2])
  /\ \A s \in Stays : <<a, s>> \in pushed \cup reads =>
       ann[a].status \in News!Published /\ (ann[a].aud.by = "stays" => s \in ann[a].aud.of)

NewsInv == NewsTyped /\ \A a \in Anns \ raced : OneKeeper(a) /\ AnnOK(a)

LEMMA NewsBounds ==
  /\ Asked \subseteq Nat /\ 0 \in Asked /\ Horizon \in Nat /\ Horizon > 0 /\ Ticker \notin Editors /\ None \notin Anns
  /\ Audiences \subseteq [by: {"all", "floors", "stays"}, of: SUBSET (Stays \cup Floors)]
  /\ \A au \in Audiences : NamesSomeone(au)
BY ScenesAssumption DEF News!Parameters, NamesSomeone

LEMMA NewsBases ==
  /\ Stored(News!NoRow) /\ CallTyped(News!IdleCall) /\ News!IdleCall.pc = "idle"
  /\ News!IdleCall.key = None
  /\ TickTyped(News!IdleTick) /\ News!IdleTick.pc = "idle" /\ DOMAIN News!IdleTick.batch = {}
<1>1. Stored(News!NoRow)
  BY NewsBounds DEF Stored, News!NoRow, News!Row, News!Everyone, NamesSomeone, News!Statuses
<1>2. CallTyped(News!IdleCall) /\ News!IdleCall.pc = "idle" /\ News!IdleCall.key = None
  BY DEF CallTyped, News!IdleCall
<1>3. TickTyped(News!IdleTick) /\ News!IdleTick.pc = "idle" /\ DOMAIN News!IdleTick.batch = {}
  BY DEF TickTyped, News!IdleTick
<1> QED
  BY <1>1, <1>2, <1>3

LEMMA NewsInit == News!Init => NewsInv
<1> SUFFICES ASSUME News!Init PROVE NewsInv
  OBVIOUS
<1>1. NewsTyped
  <2>1. now \in 1..Horizon
    BY NewsBounds DEF News!Init
  <2>2. ann \in [Anns -> News!Row] /\ \A a \in Anns : NamesSomeone(ann[a].aud)
    BY NewsBases DEF News!Init, Stored
  <2> QED
    BY <2>1, <2>2, NewsBases DEF News!Init, NewsTyped
<1>2. ASSUME NEW a \in Anns PROVE OneKeeper(a) /\ AnnOK(a)
  BY <1>2, NewsBases DEF News!Init, OneKeeper, AnnOK, News!HeldBy
<1> QED
  BY <1>1, <1>2 DEF NewsInv

(* Rows that no two held before the step or hold after it.                 *)
LEMMA Watched ==
  ASSUME raced' = raced \cup News!Colliding', NEW a \in Anns, a \notin raced'
  PROVE  a \notin raced /\ OneKeeper(a)'
BY DEF News!Colliding, OneKeeper

LEMMA RowsTyped ==
  ASSUME NewsTyped, NEW a \in Anns
  PROVE  Stored(ann[a]) /\ ann[a].pub \in Asked /\ ann[a].until \in Asked /\ ann[a].status \in News!Statuses
BY DEF NewsTyped, Stored, News!Row

(* A call of the staff begins: what it will save may replace what it read. *)
LEMMA EditorReads ==
  ASSUME NewsTyped, NEW p \in Editors, News!EditorStep(p)
  PROVE  \E a \in Anns : \E r :
           /\ call' = [call EXCEPT ![p] = [pc |-> "save", key |-> a, row |-> r]]
           /\ call[p].pc = "idle" /\ Stored(r) /\ MayReplace(ann[a], r)
           /\ UNCHANGED <<ann, tick, pushed>>
<1>1. PICK a \in Anns :
        /\ \/ \E r \in [status: {"draft", "scheduled", "live"}, pub: Asked, until: Asked,
                        push: BOOLEAN, aud: Audiences] : News!CreateRead(p, a, r)
           \/ \E au \in Audiences : News!NoticeRead(p, a, au)
           \/ \E au \in Audiences, pub, until \in Asked : News!UpdateRead(p, a, au, pub, until)
           \/ News!SendNowRead(p, a) \/ News!CancelScheduleRead(p, a) \/ News!RetractRead(p, a)
        /\ UNCHANGED <<ann, tick, pushed>>
  BY DEF News!EditorStep
<1>0. /\ ann[a] \in News!Row /\ NamesSomeone(ann[a].aud)
      /\ News!Row = [status: News!Statuses, pub: Asked, until: Asked, push: BOOLEAN,
                     aud: [by: {"all", "floors", "stays"}, of: SUBSET (Stays \cup Floors)]]
  BY RowsTyped DEF Stored, News!Row
<1> SUFFICES \E r : News!Hold(p, a, r) /\ News!Idle(p) /\ Stored(r) /\ MayReplace(ann[a], r)
  BY <1>1 DEF News!Hold, News!Idle
<1>2. ASSUME NEW r \in [status: {"draft", "scheduled", "live"}, pub: Asked, until: Asked,
                        push: BOOLEAN, aud: Audiences], News!CreateRead(p, a, r)
      PROVE  \E q : News!Hold(p, a, q) /\ News!Idle(p) /\ Stored(q) /\ MayReplace(ann[a], q)
  <2>1. ann[a].status = "none" /\ News!Hold(p, a, r) /\ News!Idle(p) /\ (r.status = "live" => r.pub = 0)
    BY <1>2 DEF News!CreateRead, News!Fresh, News!Timed
  <2>2. Stored(r)
    BY <1>0, NewsBounds DEF Stored, News!Statuses, News!Published
  <2> QED
    BY <2>1, <2>2 DEF MayReplace
<1>3. ASSUME NEW au \in Audiences, News!NoticeRead(p, a, au)
      PROVE  \E q : News!Hold(p, a, q) /\ News!Idle(p) /\ Stored(q) /\ MayReplace(ann[a], q)
  <2>1. PICK au2 : au2 = [au EXCEPT !.of = @ \cap here]
    OBVIOUS
  <2>2. /\ au2 \in [by: {"all", "floors", "stays"}, of: SUBSET (Stays \cup Floors)]
        /\ NamesSomeone(au2)
    BY <1>3, <2>1, NewsBounds DEF News!NoticeRead, NamesSomeone
  <2>3. PICK r : r = [News!NoRow EXCEPT !.status = "live", !.push = TRUE, !.aud = au2]
    OBVIOUS
  <2>4. Stored(r) /\ r.status = "live" /\ r.pub = 0
    BY <1>0, <2>2, <2>3, NewsBases DEF Stored, News!Statuses, News!Published, News!NoRow
  <2>5. ann[a].status = "none" /\ News!Hold(p, a, r) /\ News!Idle(p)
    BY <1>3, <2>1, <2>3 DEF News!NoticeRead, News!Fresh
  <2> QED
    BY <2>4, <2>5 DEF MayReplace
<1>4. ASSUME NEW au \in Audiences, NEW pub \in Asked, NEW until \in Asked,
             News!UpdateRead(p, a, au, pub, until)
      PROVE  \E q : News!Hold(p, a, q) /\ News!Idle(p) /\ Stored(q) /\ MayReplace(ann[a], q)
  <2>1. PICK r : r = [ann[a] EXCEPT !.aud = au, !.pub = pub, !.until = until]
    OBVIOUS
  <2>2. r \in News!Row /\ r.aud = au /\ r.status = ann[a].status
    BY <1>0, <2>1, NewsBounds
  <2>3. Stored(r)
    BY <2>2, NewsBounds DEF Stored
  <2>4. ann[a].status \in {"draft", "scheduled"} /\ News!Hold(p, a, r) /\ News!Idle(p)
    BY <1>4, <2>1 DEF News!UpdateRead, News!Editable
  <2> QED
    BY <2>2, <2>3, <2>4 DEF MayReplace
<1>5. CASE News!SendNowRead(p, a)
  <2>1. PICK r : r = [ann[a] EXCEPT !.status = "live", !.pub = 0]
    OBVIOUS
  <2>2. r \in News!Row /\ r.aud = ann[a].aud /\ r.status = "live" /\ r.pub = 0
    BY <1>0, <2>1, NewsBounds DEF News!Statuses, News!Published
  <2>3. ann[a].status \in {"draft", "scheduled"} /\ News!Hold(p, a, r) /\ News!Idle(p)
    BY <1>5, <2>1 DEF News!SendNowRead
  <2> QED
    BY <1>0, <2>2, <2>3 DEF MayReplace, Stored
<1>6. CASE News!CancelScheduleRead(p, a)
  <2>1. PICK r : r = [ann[a] EXCEPT !.status = "draft", !.pub = 0]
    OBVIOUS
  <2>2. r \in News!Row /\ r.aud = ann[a].aud /\ r.status = "draft"
    BY <1>0, <2>1, NewsBounds DEF News!Statuses
  <2>3. ann[a].status = "scheduled" /\ News!Hold(p, a, r) /\ News!Idle(p)
    BY <1>6, <2>1 DEF News!CancelScheduleRead
  <2> QED
    BY <1>0, <2>2, <2>3 DEF MayReplace, Stored
<1>7. CASE News!RetractRead(p, a)
  <2>1. PICK r : r = [ann[a] EXCEPT !.status = "retracted"]
    OBVIOUS
  <2>2. r \in News!Row /\ r.aud = ann[a].aud /\ r.status = "retracted"
    BY <1>0, <2>1 DEF News!Statuses, News!Published
  <2>3. ann[a].status = "live" /\ News!Hold(p, a, r) /\ News!Idle(p)
    BY <1>7, <2>1 DEF News!RetractRead
  <2> QED
    BY <1>0, <2>1, <2>2, <2>3 DEF MayReplace, Stored
<1> QED
  BY <1>1, <1>2, <1>3, <1>4, <1>5, <1>6, <1>7

(* Some step writes one row that a call or the tick held.                  *)
LEMMA NewsWrites ==
  ASSUME NewsInv, News!Next
  PROVE  \/ ann' = ann
         \/ \E p \in Editors : /\ call[p].pc = "save" /\ ann' = [ann EXCEPT ![call[p].key] = call[p].row]
                               /\ News!Save(p)
         \/ \E a \in Anns : /\ a \in DOMAIN tick.batch /\ tick.pc = "rows" /\ News!TickRow(a)
                            /\ ann' = [ann EXCEPT ![a] = [tick.batch[a] EXCEPT !.status =
                                         IF @ = "scheduled" THEN "live" ELSE "expired"]]
<1>1. CASE News!Work
  <2>1. ASSUME NEW p \in Editors, News!EditorStep(p) \/ News!Notify(p) PROVE ann' = ann
    BY <2>1 DEF News!EditorStep, News!Notify
  <2>2. ASSUME News!TickStart \/ News!TickNotify \/ News!TickEnd \/ News!TickFails \/ News!Restart PROVE ann' = ann
    BY <2>2 DEF News!TickStart, News!TickNotify, News!TickEnd, News!TickFails, News!Restart
  <2>3. ASSUME NEW p \in Editors, News!Save(p)
        PROVE  call[p].pc = "save" /\ ann' = [ann EXCEPT ![call[p].key] = call[p].row]
    BY <2>3 DEF News!Save
  <2>4. ASSUME NEW a \in Anns, News!TickRow(a)
        PROVE  /\ a \in DOMAIN tick.batch /\ tick.pc = "rows"
               /\ ann' = [ann EXCEPT ![a] = [tick.batch[a] EXCEPT !.status =
                            IF @ = "scheduled" THEN "live" ELSE "expired"]]
    BY <2>4 DEF News!TickRow
  <2> QED
    BY <1>1, <2>1, <2>2, <2>3, <2>4 DEF News!Work, News!TickStep
<1>2. CASE ~News!Work
  BY <1>2 DEF News!Next, News!GuestStep, News!HouseStep, News!MarkRead
<1> QED
  BY <1>1, <1>2

(* A row that the tick changes at its time.                                *)
LEMMA TickMoves ==
  ASSUME NewsTyped, NEW a \in Anns, News!DueAt(ann[a], now), NEW r,
         r = [ann[a] EXCEPT !.status = IF @ = "scheduled" THEN "live" ELSE "expired"]
  PROVE  /\ News!Moved(ann[a], r) /\ Stored(r) /\ r.aud = ann[a].aud
         /\ r.status \in News!Published /\ (r.status = "live" <=> ann[a].status = "scheduled")
         /\ r.push = ann[a].push
<1>1. ann[a] \in News!Row /\ NamesSomeone(ann[a].aud)
  BY RowsTyped DEF Stored
<1>2. /\ r.status = IF ann[a].status = "scheduled" THEN "live" ELSE "expired"
      /\ r.pub = ann[a].pub /\ r.until = ann[a].until /\ r.push = ann[a].push /\ r.aud = ann[a].aud
      /\ r \in News!Row
  BY <1>1 DEF News!Row, News!Statuses, News!Published
<1>3. \/ ann[a].status = "scheduled" /\ ann[a].pub <= now
      \/ ann[a].status = "live" /\ ~News!WithinWindow(ann[a], now) /\ [r EXCEPT !.status = "live"] = ann[a]
  BY <1>1, <1>2 DEF News!DueAt, News!Row
<1> QED
  BY <1>1, <1>2, <1>3 DEF News!Moved, Stored, News!Published

LEMMA NewsMoves ==
  ASSUME NewsInv, News!Next, NEW a \in Anns, a \notin raced
  PROVE  /\ News!Moved(ann[a], ann'[a])
         /\ ann[a].status \in News!Published =>
              ann'[a].aud = ann[a].aud /\ ann'[a].status \in News!Published
<1>1. NewsTyped /\ AnnOK(a) /\ ann[a] \in News!Row
  BY RowsTyped DEF NewsInv, Stored
<1>2. CASE ann'[a] = ann[a]
  <2>1. ann[a].status = "live" => [ann[a] EXCEPT !.status = "live"] = ann[a]
    BY <1>1 DEF News!Row
  <2> QED
    BY <1>2, <2>1 DEF News!Moved, News!Published
<1>3. ASSUME NEW p \in Editors, call[p].pc = "save", call[p].key = a, ann'[a] = call[p].row
      PROVE  /\ News!Moved(ann[a], ann'[a])
             /\ ann[a].status \in News!Published =>
                  ann'[a].aud = ann[a].aud /\ ann'[a].status \in News!Published
  <2>1. MayReplace(ann[a], call[p].row)
    BY <1>1, <1>3 DEF AnnOK
  <2>2. CASE ann[a].status = "live"
    <3>1. call[p].row = [ann[a] EXCEPT !.status = "retracted"]
      BY <2>1, <2>2 DEF MayReplace
    <3>2. call[p].row.status = "retracted" /\ call[p].row.aud = ann[a].aud
          /\ [call[p].row EXCEPT !.status = "live"] = ann[a]
      BY <1>1, <2>2, <3>1 DEF News!Row
    <3> QED
      BY <1>3, <2>2, <3>2 DEF News!Moved, News!Published
  <2>3. CASE ann[a].status # "live"
    BY <1>3, <2>1, <2>3 DEF News!Moved, News!Published, MayReplace
  <2> QED
    BY <2>2, <2>3
<1>4. ASSUME a \in DOMAIN tick.batch,
             ann'[a] = [tick.batch[a] EXCEPT !.status = IF @ = "scheduled" THEN "live" ELSE "expired"]
      PROVE  /\ News!Moved(ann[a], ann'[a])
             /\ ann[a].status \in News!Published =>
                  ann'[a].aud = ann[a].aud /\ ann'[a].status \in News!Published
  <2>1. tick.batch[a] = ann[a] /\ News!DueAt(ann[a], now)
    BY <1>1, <1>4 DEF AnnOK
  <2>2. ann'[a] = [ann[a] EXCEPT !.status = IF @ = "scheduled" THEN "live" ELSE "expired"]
    BY <1>4, <2>1
  <2> QED
    BY <1>1, <2>1, <2>2, TickMoves
<1>5. \/ ann'[a] = ann[a]
      \/ \E p \in Editors : call[p].pc = "save" /\ call[p].key = a /\ ann'[a] = call[p].row
      \/ a \in DOMAIN tick.batch
         /\ ann'[a] = [tick.batch[a] EXCEPT !.status = IF @ = "scheduled" THEN "live" ELSE "expired"]
  BY <1>1, NewsWrites DEF NewsTyped
<1> QED
  BY <1>2, <1>3, <1>4, <1>5

Seen(a, s) == ann[a].status \in News!Published /\ (ann[a].aud.by = "stays" => s \in ann[a].aud.of)

(* What is left of the invariant where only calls, the tick and the outbox *)
(* moved on.                                                               *)
LEMMA NewsFrame ==
  ASSUME NewsInv, UNCHANGED <<ann, here, floor, now, reads>>,
         raced' = raced \cup News!Colliding', pushed' \subseteq Anns \X Stays,
         call' = [p \in Editors |-> call'[p]], \A p \in Editors : CallTyped(call'[p]), TickTyped(tick'),
         \A a \in Anns \ raced :
           /\ \A p \in Editors : call'[p].pc = "save" /\ call'[p].key = a => MayReplace(ann[a], call'[p].row)
           /\ a \in DOMAIN tick'.batch => tick'.batch[a] = ann[a] /\ News!DueAt(ann[a], now)
           /\ \A p \in Editors : call'[p].pc = "notify" /\ call'[p].key = a => Told(a, call'[p].row.aud)
           /\ tick'.pc = "notify" /\ tick'.done[1] = a => Told(a, tick'.done[2])
           /\ \A s \in Stays : <<a, s>> \in pushed' => <<a, s>> \in pushed \/ Seen(a, s)
  PROVE  NewsInv'
<1>1. NewsTyped'
  <2>1. (\A p \in Editors : CallTyped(call[p]))' /\ TickTyped(tick)'
    BY DEF CallTyped, TickTyped
  <2> QED
    BY <2>1 DEF NewsInv, NewsTyped, News!Colliding
<1>2. ASSUME NEW a \in Anns, a \notin raced' PROVE OneKeeper(a)' /\ AnnOK(a)'
  <2>1. a \notin raced /\ OneKeeper(a)'
    BY <1>2, Watched
  <2>2. AnnOK(a)'
    BY <2>1 DEF NewsInv, AnnOK, Seen, Told, MayReplace, News!DueAt, News!WithinWindow, News!Open
  <2> QED
    BY <2>1, <2>2
<1> QED
  BY <1>1, <1>2 DEF NewsInv

LEMMA EditorSteps ==
  ASSUME NewsInv, UNCHANGED <<here, floor, now, reads>>, raced' = raced \cup News!Colliding',
         NEW p \in Editors, News!EditorStep(p)
  PROVE  NewsInv'
<1>1. NewsTyped
  BY DEF NewsInv
<1>0. PICK a \in Anns : \E r :
        /\ call' = [call EXCEPT ![p] = [pc |-> "save", key |-> a, row |-> r]]
        /\ call[p].pc = "idle" /\ Stored(r) /\ MayReplace(ann[a], r)
        /\ UNCHANGED <<ann, tick, pushed>>
  BY <1>1, EditorReads
<1>2. PICK r :
        /\ call' = [call EXCEPT ![p] = [pc |-> "save", key |-> a, row |-> r]]
        /\ call[p].pc = "idle" /\ Stored(r) /\ MayReplace(ann[a], r)
        /\ UNCHANGED <<ann, tick, pushed>>
  BY <1>0
<1>3. /\ call' = [q \in Editors |-> call'[q]]
      /\ call'[p] = [pc |-> "save", key |-> a, row |-> r]
      /\ \A q \in Editors : q # p => call'[q] = call[q]
  BY <1>1, <1>2 DEF NewsTyped
<1>4. \A q \in Editors : CallTyped(call'[q])
  BY <1>1, <1>2, <1>3 DEF NewsTyped, CallTyped
<1>5. TickTyped(tick') /\ pushed' \subseteq Anns \X Stays
  BY <1>1, <1>2 DEF NewsTyped
<1>6. \A b \in Anns \ raced :
        /\ \A q \in Editors : call'[q].pc = "save" /\ call'[q].key = b => MayReplace(ann[b], call'[q].row)
        /\ b \in DOMAIN tick'.batch => tick'.batch[b] = ann[b] /\ News!DueAt(ann[b], now)
        /\ \A q \in Editors : call'[q].pc = "notify" /\ call'[q].key = b => Told(b, call'[q].row.aud)
        /\ tick'.pc = "notify" /\ tick'.done[1] = b => Told(b, tick'.done[2])
        /\ \A s \in Stays : <<b, s>> \in pushed' => <<b, s>> \in pushed \/ Seen(b, s)
  BY <1>2, <1>3 DEF NewsInv, AnnOK
<1> QED
  BY <1>2, <1>3, <1>4, <1>5, <1>6, NewsFrame

(* Whom a notice goes to belongs to its audience.                          *)
LEMMA NoticeReaches ==
  ASSUME NewsTyped, NEW a \in Anns, NEW au, Told(a, au), NEW s \in News!Reached(au)
  PROVE  s \in Stays /\ Seen(a, s)
BY DEF NewsTyped, Told, Seen, News!Reached, News!Matches, NamesSomeone

LEMMA NotifySteps ==
  ASSUME NewsInv, UNCHANGED <<here, floor, now, reads>>, raced' = raced \cup News!Colliding',
         NEW p \in Editors, News!Notify(p)
  PROVE  NewsInv'
<1>1. NewsTyped /\ CallTyped(call[p])
  BY DEF NewsInv, NewsTyped
<1>2. /\ call[p].pc = "notify" /\ call' = [call EXCEPT ![p] = News!IdleCall]
      /\ pushed' = pushed \cup ({call[p].key} \X News!Reached(call[p].row.aud))
      /\ UNCHANGED <<ann, tick>>
  BY DEF News!Notify, News!NotifyOf
<1>3. /\ call' = [q \in Editors |-> call'[q]] /\ call'[p] = News!IdleCall
      /\ \A q \in Editors : q # p => call'[q] = call[q]
  BY <1>1, <1>2 DEF NewsTyped
<1>4. \A q \in Editors : CallTyped(call'[q])
  BY <1>1, <1>3, NewsBases DEF NewsTyped
<1>5. call[p].key \in Anns /\ News!Reached(call[p].row.aud) \subseteq Stays
  BY <1>1, <1>2, NewsBases DEF CallTyped, NewsTyped, News!Reached
<1>6. TickTyped(tick') /\ pushed' \subseteq Anns \X Stays
  BY <1>1, <1>2, <1>5 DEF NewsTyped
<1>7. ASSUME NEW b \in Anns \ raced
      PROVE  /\ \A q \in Editors : call'[q].pc = "save" /\ call'[q].key = b => MayReplace(ann[b], call'[q].row)
             /\ b \in DOMAIN tick'.batch => tick'.batch[b] = ann[b] /\ News!DueAt(ann[b], now)
             /\ \A q \in Editors : call'[q].pc = "notify" /\ call'[q].key = b => Told(b, call'[q].row.aud)
             /\ tick'.pc = "notify" /\ tick'.done[1] = b => Told(b, tick'.done[2])
             /\ \A s \in Stays : <<b, s>> \in pushed' => <<b, s>> \in pushed \/ Seen(b, s)
  <2>1. AnnOK(b)
    BY DEF NewsInv
  <2>2. \A s \in Stays : <<b, s>> \in pushed' => <<b, s>> \in pushed \/ Seen(b, s)
    BY <1>1, <1>2, <2>1, NoticeReaches DEF AnnOK
  <2> QED
    BY <1>2, <1>3, <2>1, <2>2, NewsBases DEF AnnOK
<1> QED
  BY <1>2, <1>3, <1>4, <1>6, <1>7, NewsFrame

LEMMA TickSteps ==
  ASSUME NewsInv, UNCHANGED <<here, floor, now, reads>>, raced' = raced \cup News!Colliding',
         News!TickStart \/ News!TickNotify \/ News!TickEnd \/ News!TickFails \/ News!Restart
  PROVE  NewsInv'
<1>1. NewsTyped /\ TickTyped(tick)
  BY DEF NewsInv, NewsTyped
<1> DEFINE Due == {b \in News!Candidates : News!DueAt(ann[b], now)}
<1>2. CASE News!TickStart
  <2>1. /\ tick' = [pc |-> "rows", batch |-> [a \in Due |-> ann[a]], done |-> <<>>]
        /\ UNCHANGED <<ann, call, pushed>> /\ Due \subseteq Anns
    BY <1>2 DEF News!TickStart, News!Candidates
  <2>2. TickTyped(tick') /\ \A b \in Anns : b \in DOMAIN tick'.batch => tick'.batch[b] = ann[b] /\ b \in Due
    BY <1>1, <2>1, RowsTyped DEF TickTyped
  <2>3. call' = [q \in Editors |-> call'[q]] /\ (\A q \in Editors : CallTyped(call'[q]))
       /\ pushed' \subseteq Anns \X Stays
    BY <1>1, <2>1 DEF NewsTyped
  <2> QED
    BY <2>1, <2>2, <2>3, NewsFrame DEF NewsInv, AnnOK
<1>3. CASE News!TickNotify
  <2>1. /\ tick.pc = "notify" /\ tick' = [tick EXCEPT !.pc = "rows", !.done = <<>>]
        /\ pushed' = pushed \cup ({tick.done[1]} \X News!Reached(tick.done[2]))
        /\ UNCHANGED <<ann, call>>
    BY <1>3 DEF News!TickNotify, News!NotifyOf
  <2>2. TickTyped(tick') /\ tick'.batch = tick.batch /\ tick'.pc = "rows"
    BY <1>1, <2>1 DEF TickTyped
  <2>3. call' = [q \in Editors |-> call'[q]] /\ (\A q \in Editors : CallTyped(call'[q]))
    BY <1>1, <2>1 DEF NewsTyped
  <2>4. pushed' \subseteq Anns \X Stays
    BY <1>1, <2>1 DEF NewsTyped, TickTyped, News!Reached
  <2>5. ASSUME NEW b \in Anns \ raced, NEW s \in Stays, <<b, s>> \in pushed'
        PROVE  <<b, s>> \in pushed \/ Seen(b, s)
    BY <1>1, <2>1, <2>5, NoticeReaches DEF NewsInv, AnnOK
  <2> QED
    BY <2>1, <2>2, <2>3, <2>4, <2>5, NewsFrame DEF NewsInv, AnnOK
<1>4. CASE News!TickEnd \/ News!TickFails
  <2>1. tick' = News!IdleTick /\ UNCHANGED <<ann, call, pushed>>
    BY <1>4 DEF News!TickEnd, News!TickFails
  <2>2. call' = [q \in Editors |-> call'[q]] /\ (\A q \in Editors : CallTyped(call'[q]))
       /\ pushed' \subseteq Anns \X Stays
    BY <1>1, <2>1 DEF NewsTyped
  <2> QED
    BY <2>1, <2>2, NewsBases, NewsFrame DEF NewsInv, AnnOK
<1>5. CASE News!Restart
  <2>1. tick' = News!IdleTick /\ call' = [p \in Editors |-> News!IdleCall] /\ UNCHANGED <<ann, pushed>>
    BY <1>5 DEF News!Restart
  <2>2. call' = [q \in Editors |-> call'[q]] /\ (\A q \in Editors : call'[q] = News!IdleCall)
       /\ pushed' \subseteq Anns \X Stays
    BY <1>1, <2>1 DEF NewsTyped
  <2> QED
    BY <2>1, <2>2, NewsBases, NewsFrame DEF NewsInv, AnnOK
<1> QED
  BY <1>2, <1>3, <1>4, <1>5

(* A row is saved, by a call or by the tick: it is the only one changed,   *)
(* and where one alone held it, the others go on as before.                *)
LEMMA RowSaved ==
  ASSUME NewsInv, UNCHANGED <<here, floor, now, reads, pushed>>, raced' = raced \cup News!Colliding',
         NEW k \in Anns, NEW r, Stored(r), ann' = [ann EXCEPT ![k] = r],
         k \notin raced => (ann[k].status \in News!Published =>
                             r.status \in News!Published /\ r.aud = ann[k].aud),
         call' = [p \in Editors |-> call'[p]], \A p \in Editors : CallTyped(call'[p]), TickTyped(tick'),
         \A a \in Anns \ raced :
           /\ \A p \in Editors : call'[p].pc = "save" /\ call'[p].key = a =>
                                   a # k /\ call'[p] = call[p]
           /\ a \in DOMAIN tick'.batch => a # k /\ a \in DOMAIN tick.batch /\ tick'.batch[a] = tick.batch[a]
           /\ \A p \in Editors : call'[p].pc = "notify" /\ call'[p].key = a =>
                \/ call'[p] = call[p]
                \/ a = k /\ r.status \in News!Published /\ call'[p].row.aud = r.aud
           /\ tick'.pc = "notify" /\ tick'.done[1] = a =>
                \/ tick.pc = "notify" /\ tick'.done = tick.done
                \/ a = k /\ r.status \in News!Published /\ tick'.done[2] = r.aud
  PROVE  NewsInv'
<1>0. NewsTyped /\ r \in News!Row /\ NamesSomeone(r.aud)
  BY DEF NewsInv, Stored
<1>1. ann'[k] = r /\ \A a \in Anns : a # k => ann'[a] = ann[a]
  BY <1>0 DEF NewsTyped
<1>2. NewsTyped'
  <2>1. (\A p \in Editors : CallTyped(call[p]))' /\ TickTyped(tick)'
    BY DEF CallTyped, TickTyped
  <2>2. (ann \in [Anns -> News!Row])' /\ (\A a \in Anns : NamesSomeone(ann[a].aud))'
    BY <1>0, <1>1 DEF NewsTyped
  <2> QED
    BY <1>0, <2>1, <2>2 DEF NewsTyped, News!Colliding
<1>3. ASSUME NEW a \in Anns, a \notin raced' PROVE OneKeeper(a)' /\ AnnOK(a)'
  <2>1. a \notin raced /\ OneKeeper(a)' /\ AnnOK(a)
    BY <1>3, Watched DEF NewsInv
  <2>2. CASE a # k
    <3>1. ann'[a] = ann[a]
      BY <1>1, <2>2
    <3>2. (\A p \in Editors : call[p].pc = "save" /\ call[p].key = a => MayReplace(ann[a], call[p].row))'
      BY <2>1, <3>1 DEF AnnOK, MayReplace
    <3>3. (a \in DOMAIN tick.batch => tick.batch[a] = ann[a] /\ News!DueAt(ann[a], now))'
      BY <2>1, <3>1 DEF AnnOK, News!DueAt, News!WithinWindow, News!Open
    <3>4. (\A p \in Editors : call[p].pc = "notify" /\ call[p].key = a => Told(a, call[p].row.aud))'
      BY <2>1, <2>2, <3>1 DEF AnnOK, Told
    <3>5. (tick.pc = "notify" /\ tick.done[1] = a => Told(a, tick.done[2]))'
      BY <2>1, <2>2, <3>1 DEF AnnOK, Told
    <3> QED
      BY <2>1, <3>1, <3>2, <3>3, <3>4, <3>5 DEF AnnOK
  <2>3. CASE a = k
    <3>1. ann'[a] = r /\ (ann[a].status \in News!Published => r.status \in News!Published /\ r.aud = ann[a].aud)
      BY <1>1, <2>1, <2>3
    <3>2. (\A p \in Editors : call[p].pc = "save" /\ call[p].key = a => MayReplace(ann[a], call[p].row))'
      BY <2>1, <2>3
    <3>3. (a \in DOMAIN tick.batch => tick.batch[a] = ann[a] /\ News!DueAt(ann[a], now))'
      BY <2>1, <2>3
    <3>4. (\A p \in Editors : call[p].pc = "notify" /\ call[p].key = a => Told(a, call[p].row.aud))'
      BY <2>1, <3>1 DEF AnnOK, Told
    <3>5. (tick.pc = "notify" /\ tick.done[1] = a => Told(a, tick.done[2]))'
      BY <2>1, <3>1 DEF AnnOK, Told
    <3>6. (\A s \in Stays : <<a, s>> \in pushed \cup reads =>
             ann[a].status \in News!Published /\ (ann[a].aud.by = "stays" => s \in ann[a].aud.of))'
      BY <2>1, <3>1 DEF AnnOK
    <3> QED
      BY <2>1, <3>2, <3>3, <3>4, <3>5, <3>6 DEF AnnOK
  <2> QED
    BY <2>1, <2>2, <2>3
<1> QED
  BY <1>2, <1>3 DEF NewsInv

LEMMA SaveSteps ==
  ASSUME NewsInv, UNCHANGED <<here, floor, now, reads>>, raced' = raced \cup News!Colliding',
         NEW p \in Editors, News!Save(p)
  PROVE  NewsInv'
<1> DEFINE k == call[p].key
           r == call[p].row
<1>1. /\ call[p].pc = "save" /\ ann' = [ann EXCEPT ![k] = r] /\ UNCHANGED <<tick, pushed>>
      /\ call' = [call EXCEPT ![p] = IF r.status = "live" /\ r.push THEN [@ EXCEPT !.pc = "notify"]
                                     ELSE News!IdleCall]
  BY DEF News!Save
<1>2. NewsTyped /\ CallTyped(call[p]) /\ call[p] = [pc |-> "save", key |-> k, row |-> r] /\ k \in Anns /\ Stored(r)
  BY <1>1, NewsBases DEF NewsInv, NewsTyped, CallTyped
<1>3. /\ call' = [q \in Editors |-> call'[q]] /\ (\A q \in Editors : q # p => call'[q] = call[q])
      /\ \/ call'[p] = News!IdleCall
         \/ call'[p] = [pc |-> "notify", key |-> k, row |-> r] /\ r.status = "live"
  <2>1. call[p] = [pc |-> "save", key |-> k, row |-> r] 
          => [call[p] EXCEPT !.pc = "notify"] = [pc |-> "notify", key |-> k, row |-> r]
    OBVIOUS
  <2> HIDE DEF k, r
  <2> QED
    BY <1>1, <1>2, <2>1 DEF NewsTyped
<1> HIDE DEF k, r
<1>4. \A q \in Editors : CallTyped(call'[q])
  BY <1>2, <1>3, NewsBases DEF NewsTyped, CallTyped
<1>5. k \notin raced => /\ \A q \in Editors : call[q].pc = "save" /\ call[q].key = k => q = p
                        /\ k \notin DOMAIN tick.batch
                        /\ MayReplace(ann[k], r)
  BY <1>1, <1>2, NewsBounds DEF NewsInv, OneKeeper, News!HeldBy, AnnOK, k, r
<1>6. k \notin raced => (ann[k].status \in News!Published =>
                             r.status \in News!Published /\ r.aud = ann[k].aud)
  <2>1. ann[k] \in News!Row
    BY <1>2, RowsTyped DEF Stored
  <2> QED
    BY <1>5, <2>1 DEF MayReplace, News!Published, News!Row
<1>7. ASSUME NEW a \in Anns \ raced
      PROVE  /\ \A q \in Editors : call'[q].pc = "save" /\ call'[q].key = a => a # k /\ call'[q] = call[q]
             /\ a \in DOMAIN tick'.batch => a # k /\ a \in DOMAIN tick.batch /\ tick'.batch[a] = tick.batch[a]
             /\ \A q \in Editors : call'[q].pc = "notify" /\ call'[q].key = a =>
                  \/ call'[q] = call[q]
                  \/ a = k /\ r.status \in News!Published /\ call'[q].row.aud = r.aud
             /\ tick'.pc = "notify" /\ tick'.done[1] = a =>
                  \/ tick.pc = "notify" /\ tick'.done = tick.done
                  \/ a = k /\ r.status \in News!Published /\ tick'.done[2] = r.aud
  <2>1. \A q \in Editors : call'[q].pc = "save" /\ call'[q].key = a => a # k /\ call'[q] = call[q]
    BY <1>3, <1>5, NewsBases
  <2>2. \A q \in Editors : call'[q].pc = "notify" /\ call'[q].key = a =>
          \/ call'[q] = call[q]
          \/ a = k /\ r.status \in News!Published /\ call'[q].row.aud = r.aud
    BY <1>3, NewsBases DEF News!Published
  <2> QED
    BY <1>1, <1>5, <2>1, <2>2
<1>8. TickTyped(tick') /\ UNCHANGED pushed
  BY <1>1, <1>2 DEF NewsTyped
<1> QED
  BY <1>1, <1>2, <1>3, <1>4, <1>6, <1>7, <1>8, RowSaved

LEMMA TickRows ==
  ASSUME NewsInv, UNCHANGED <<here, floor, now, reads>>, raced' = raced \cup News!Colliding',
         NEW k \in Anns, News!TickRow(k)
  PROVE  NewsInv'
<1> DEFINE old == tick.batch[k]
<1>1. PICK r : r = [old EXCEPT !.status = IF @ = "scheduled" THEN "live" ELSE "expired"]
  OBVIOUS
<1>2. /\ tick.pc = "rows" /\ k \in DOMAIN tick.batch /\ ann' = [ann EXCEPT ![k] = r]
      /\ tick' = IF old.status = "scheduled" /\ old.push
                 THEN [News!Rest(k) EXCEPT !.pc = "notify", !.done = <<k, old.aud>>] ELSE News!Rest(k)
      /\ UNCHANGED <<call, pushed>>
  BY <1>1 DEF News!TickRow
<1>3. NewsTyped /\ TickTyped(tick) /\ Stored(old)
  BY <1>2 DEF NewsInv, NewsTyped, TickTyped
<1> HIDE DEF old
<1>4. /\ Stored(r) /\ r.aud = old.aud /\ r.status \in {"live", "expired"}
  BY <1>1, <1>3 DEF Stored, News!Row, News!Statuses, News!Published
<1>5. PICK batch : batch = [b \in DOMAIN tick.batch \ {k} |-> tick.batch[b]]
  OBVIOUS
<1>6. /\ tick' = [pc |-> tick'.pc, batch |-> batch, done |-> tick'.done]
      /\ \/ tick'.pc = "rows"
         \/ tick'.pc = "notify" /\ tick'.done = <<k, old.aud>>
  <2>1. PICK rest : rest = [pc |-> "rows", batch |-> batch, done |-> tick.done]
    OBVIOUS
  <2>2. News!Rest(k) = rest
    BY <1>2, <1>3, <1>5, <2>1 DEF News!Rest, TickTyped
  <2>3. PICK next : next = [rest EXCEPT !.pc = "notify", !.done = <<k, old.aud>>]
    OBVIOUS
  <2>4. next = [pc |-> "notify", batch |-> batch, done |-> <<k, old.aud>>]
    BY <2>1, <2>3
  <2>5. tick' = rest \/ tick' = next
    BY <1>2, <2>2, <2>3
  <2> QED
    BY <2>1, <2>4, <2>5
<1>7. TickTyped(tick')
  BY <1>3, <1>5, <1>6 DEF TickTyped
<1>8. k \notin raced => ~\E q \in Editors : call[q].pc = "save" /\ call[q].key = k
  BY <1>2, NewsBounds DEF NewsInv, OneKeeper, News!HeldBy
<1>9. k \notin raced => (ann[k].status \in News!Published => r.status \in News!Published /\ r.aud = ann[k].aud)
  <2>1. k \notin raced => old = ann[k]
    BY <1>2 DEF NewsInv, AnnOK, old
  <2> QED
    BY <1>4, <2>1 DEF News!Published
<1>10. ASSUME NEW a \in Anns \ raced
      PROVE  /\ \A q \in Editors : call'[q].pc = "save" /\ call'[q].key = a => a # k /\ call'[q] = call[q]
             /\ a \in DOMAIN tick'.batch => a # k /\ a \in DOMAIN tick.batch /\ tick'.batch[a] = tick.batch[a]
             /\ \A q \in Editors : call'[q].pc = "notify" /\ call'[q].key = a =>
                  \/ call'[q] = call[q]
                  \/ a = k /\ r.status \in News!Published /\ call'[q].row.aud = r.aud
             /\ tick'.pc = "notify" /\ tick'.done[1] = a =>
                  \/ tick.pc = "notify" /\ tick'.done = tick.done
                  \/ a = k /\ r.status \in News!Published /\ tick'.done[2] = r.aud
  <2>1. tick'.batch = batch
    BY <1>6
  <2>2. tick'.pc = "notify" /\ tick'.done[1] = a => a = k /\ r.status \in News!Published /\ tick'.done[2] = r.aud
    BY <1>4, <1>6 DEF News!Published
  <2> QED
    BY <1>2, <1>5, <1>8, <2>1, <2>2
<1>11. call' = [q \in Editors |-> call'[q]] /\ \A q \in Editors : CallTyped(call'[q])
  BY <1>2, <1>3 DEF NewsTyped
<1> QED
  BY <1>2, <1>4, <1>7, <1>9, <1>10, <1>11, RowSaved

(* The guests and the hotel change no announcement, and what is due stays  *)
(* so as time passes.                                                      *)
LEMMA HouseSteps ==
  ASSUME NewsInv, UNCHANGED <<ann, call, tick, pushed, raced>>,
         \/ News!GuestStep /\ UNCHANGED <<here, floor, now>>
         \/ News!HouseStep /\ UNCHANGED reads
  PROVE  NewsInv'
<1>0. NewsTyped
  BY DEF NewsInv
<1>1. /\ now' \in 1..Horizon /\ now' >= now
      /\ here' \subseteq Stays /\ floor' \in [Stays -> Floors]
  BY <1>0, NewsBounds DEF NewsTyped, News!GuestStep, News!HouseStep, News!Elapse, News!CheckOut, News!ChangeRoom
<1>2. \/ reads' = reads
      \/ \E s \in here, a \in Anns : reads' = reads \cup {<<a, s>>} /\ Seen(a, s)
  <2>1. ASSUME NEW s \in Stays, NEW a \in Anns, News!MarkRead(s, a)
        PROVE  s \in here /\ reads' = reads \cup {<<a, s>>} /\ Seen(a, s)
    BY <1>0, <2>1 DEF News!MarkRead, News!VisibleToStay, News!Matches, Seen, News!Published, NewsTyped, NamesSomeone
  <2> QED
    BY <2>1 DEF News!GuestStep
<1>3. reads' \subseteq Anns \X Stays
  BY <1>0, <1>2 DEF NewsTyped
<1>4. NewsTyped'
  BY <1>0, <1>1, <1>3 DEF NewsTyped, CallTyped, TickTyped
<1>5. ASSUME NEW a \in Anns, a \notin raced' PROVE OneKeeper(a)' /\ AnnOK(a)'
  <2>1. OneKeeper(a) /\ AnnOK(a)
    BY <1>5 DEF NewsInv
  <2>2. News!DueAt(ann[a], now) => News!DueAt(ann[a], now')
    <3>1. ann[a].pub \in Nat /\ ann[a].until \in Nat /\ now \in Nat /\ now' \in Nat
      BY <1>0, <1>1, NewsBounds, RowsTyped DEF NewsTyped
    <3> QED
      BY <1>1, <3>1 DEF News!DueAt, News!WithinWindow, News!Open
  <2>3. (\A s \in Stays : <<a, s>> \in pushed \cup reads =>
           ann[a].status \in News!Published /\ (ann[a].aud.by = "stays" => s \in ann[a].aud.of))'
    BY <1>2, <2>1 DEF AnnOK, Seen
  <2>4. OneKeeper(a)'
    BY <2>1 DEF OneKeeper, News!HeldBy
  <2>5. (a \in DOMAIN tick.batch => tick.batch[a] = ann[a] /\ News!DueAt(ann[a], now))'
    <3>1. a \in DOMAIN tick.batch => tick.batch[a] = ann[a] /\ News!DueAt(ann[a], now')
      BY <2>1, <2>2 DEF AnnOK
    <3> QED
      BY <3>1 DEF News!DueAt, News!WithinWindow, News!Open
  <2> QED
    BY <2>1, <2>3, <2>4, <2>5 DEF AnnOK, Told, MayReplace
<1> QED
  BY <1>4, <1>5 DEF NewsInv

LEMMA NewsStep == NewsInv /\ [News!Next]_(News!vars) => NewsInv'
<1> SUFFICES ASSUME NewsInv, [News!Next]_(News!vars) PROVE NewsInv'
  OBVIOUS
<1>1. CASE News!Work /\ raced' = raced \cup News!Colliding' /\ UNCHANGED <<here, floor, now, reads>>
  BY <1>1, EditorSteps, NotifySteps, TickSteps, SaveSteps, TickRows DEF News!Work, News!TickStep
<1>2. CASE \/ News!GuestStep /\ UNCHANGED <<ann, here, floor, now, call, tick, pushed, raced>>
           \/ News!HouseStep /\ UNCHANGED <<ann, call, tick, reads, pushed, raced>>
  BY <1>2, HouseSteps
<1>3. CASE UNCHANGED News!vars
  <2>1. NewsTyped'
    BY <1>3 DEF News!vars, NewsInv, NewsTyped, CallTyped, TickTyped
  <2>2. ASSUME NEW a \in Anns \ raced PROVE OneKeeper(a)' /\ AnnOK(a)'
    BY <1>3 DEF News!vars, NewsInv, OneKeeper, AnnOK, Told, MayReplace,
                News!HeldBy, News!DueAt, News!WithinWindow, News!Open
  <2> QED
    BY <1>3, <2>1, <2>2 DEF News!vars, NewsInv
<1> QED
  BY <1>1, <1>2, <1>3 DEF News!Next, News!House

(* An announcement is drafted, scheduled, sent and ended in its order and   *)
(* at its time, and what guests were pushed or have read stays as it was:   *)
(* whatever calls of the staff, runs of the tick and guests overlap, for    *)
(* every row that no two of them were about to save at once.                *)
THEOREM AnnouncementsStandFirm == News!Spec => AnnouncementsStand
<1>1. News!Spec => []NewsInv
  BY NewsInit, NewsStep, PTL DEF News!Spec
<1>2. NewsInv /\ [News!Next]_(News!vars) => [\A a \in Anns \ raced' : News!Moved(ann[a], ann'[a])]_(News!vars)
  <2> SUFFICES ASSUME NewsInv, News!Next, NEW a \in Anns, a \notin raced' PROVE News!Moved(ann[a], ann'[a])
    OBVIOUS
  <2>1. raced \subseteq raced'
    BY DEF News!Next
  <2> QED
    BY <2>1, NewsMoves
<1>3. NewsInv /\ [News!Next]_(News!vars) =>
        [News!TypeOK /\ \A x \in pushed \cup reads :
           LET r == ann[x[1]]
           IN  x[1] \notin raced =>
                 /\ r.status \in News!Published /\ ann'[x[1]].aud = r.aud
                 /\ r.aud.by = "stays" => x[2] \in r.aud.of]_(News!vars)
  <2> SUFFICES ASSUME NewsInv, News!Next
               PROVE  /\ News!TypeOK
                      /\ \A x \in pushed \cup reads :
                           x[1] \notin raced =>
                             /\ ann[x[1]].status \in News!Published /\ ann'[x[1]].aud = ann[x[1]].aud
                             /\ ann[x[1]].aud.by = "stays" => x[2] \in ann[x[1]].aud.of
    OBVIOUS
  <2>1. News!TypeOK
    BY DEF NewsInv, NewsTyped, News!TypeOK
  <2>2. ASSUME NEW x \in pushed \cup reads, x[1] \notin raced
        PROVE  /\ ann[x[1]].status \in News!Published /\ ann'[x[1]].aud = ann[x[1]].aud
               /\ ann[x[1]].aud.by = "stays" => x[2] \in ann[x[1]].aud.of
    <3>1. x[1] \in Anns /\ x[2] \in Stays /\ x = <<x[1], x[2]>>
      BY DEF NewsInv, NewsTyped
    <3>2. PICK a \in Anns, s \in Stays : a = x[1] /\ s = x[2] /\ <<a, s>> \in pushed \cup reads
      BY <3>1
    <3>3. /\ ann[a].status \in News!Published /\ (ann[a].aud.by = "stays" => s \in ann[a].aud.of)
      BY <2>2, <3>2 DEF NewsInv, AnnOK
    <3>4. ann'[a].aud = ann[a].aud
      BY <2>2, <3>2, <3>3, NewsMoves
    <3> QED
      BY <3>2, <3>3, <3>4
  <2> QED
    BY <2>1, <2>2
<1> QED
  BY <1>1, <1>2, <1>3, PTL
     DEF News!Spec, AnnouncementsStand, News!AnnouncementsMoveForward, News!WhatGuestsSawStands

----------------------------------------------------------------------------
(* Photos and the directory, for all rows, files and calls.  Every file has *)
(* one row, the one it was uploaded for.  A row that one call alone holds   *)
(* is as the call read it, so what the call will save loses no photo but    *)
(* the one it will delete; and the rows of a section that one call alone    *)
(* holds will be in order once the call has saved its own.                  *)
Places == Singles \cup Entries

EntryRow == [is: {"never", "there", "gone"}, section: Sections \cup {None},
             photos: SUBSET Files, more: BOOLEAN, sort: Nat]

Allowed(k, r) == IF k \in Singles THEN 1 ELSE MaxPhotos[r.section]

Fitting(k, r) ==
  /\ r \in EntryRow
  /\ r.is = "there" =>
       /\ k \in Entries => r.section \in Sections
       /\ k \in Singles => r.section = None
       /\ Cardinality(r.photos) <= Allowed(k, r)

SaveOf == [key: Places, row: EntryRow]

(* What a call is about to do makes sense in itself.                       *)
Planned(c) ==
  /\ c = [pc |-> c.pc, saves |-> c.saves, drop |-> c.drop, section |-> c.section]
  /\ c.pc \in {"idle", "store", "save", "remove", "delete"}
  /\ c.saves \in Seq(SaveOf) /\ c.drop \subseteq Files /\ c.section \in Sections \cup {None}
  /\ c.pc = "idle" => c = Guide!Idle
  /\ c.pc = "delete" => c.saves = <<>>
  /\ c.pc = "save" => Len(c.saves) >= 1
  /\ c.pc \in {"store", "remove"} => Len(c.saves) = 1
  /\ \A i \in DOMAIN c.saves :
       /\ Fitting(c.saves[i].key, c.saves[i].row) /\ c.saves[i].row.is = "there"
       /\ c.saves[i].row.photos \cap c.drop = {}
       /\ c.section # None => c.saves[i].key \in Entries /\ c.saves[i].row.section = c.section
       /\ c.pc = "store" => Cardinality(c.saves[i].row.photos) < Allowed(c.saves[i].key, c.saves[i].row)
       /\ c.pc = "remove" => c.saves[i].row.photos = {}
  /\ \A i, j \in DOMAIN c.saves : i # j =>
       /\ c.saves[i].key # c.saves[j].key /\ c.saves[i].row.sort # c.saves[j].row.sort
       /\ c.drop = {} /\ c.section # None /\ c.section \notin Singletons
  /\ c.pc = "remove" => c.drop = {}
  /\ c.pc = "store" => c.section = None

(* ... and its files are those of its row.                                 *)
Owned(c, o) ==
  /\ \A i \in DOMAIN c.saves : \A f \in c.saves[i].row.photos \cup c.drop : o[f] = c.saves[i].key
  /\ \A f \in c.drop : o[f] # None

GuideTyped ==
  /\ entry = [k \in Places |-> entry[k]] /\ \A k \in Places : Fitting(k, entry[k])
  /\ of \in [Files -> Places \cup {None}]
  /\ \A k \in Places : \A f \in entry[k].photos : of[f] = k
  /\ stored \subseteq Files /\ \A f \in stored : of[f] # None
  /\ upload = [p \in Callers |-> upload[p]]
  /\ \A p \in Callers : Planned(upload[p]) /\ Owned(upload[p], of)
  /\ broken \in Nat

Parted ==
  \A p, q \in Callers : p # q => Guide!Together(p, q) \subseteq mixed

(* What the call's i-th row has to do with the row r of the table.         *)
Believes(c, i, r, S) ==
  /\ c.saves[i].row.photos \subseteq S
  /\ r.is = "there" =>
       /\ r.photos \subseteq c.saves[i].row.photos \cup c.drop
       /\ c.saves[i].row.section = r.section
       /\ c.section = None => c.saves[i].row.sort = r.sort
  /\ r.is # "there" => c.section # None
  /\ c.pc = "store" => r.is = "there" /\ c.saves[i].row.photos \cup c.drop \subseteq r.photos

Spares(c, P) == c.pc = "delete" => c.drop \cap P = {}

KeptRow(k, r, S, u) ==
  /\ r.is = "there" => r.photos \subseteq S
  /\ r.is # "there" => r.photos = {}
  /\ \A q \in Callers : Spares(u[q], r.photos)
  /\ \A p \in Callers : \A i \in DOMAIN u[p].saves : u[p].saves[i].key = k =>
       /\ Believes(u[p], i, r, S)
       /\ \A q \in Callers : Spares(u[q], u[p].saves[i].row.photos)

RowsKept == \A k \in Places \ mixed : KeptRow(k, entry[k], stored, upload)

Names(c) == c.drop \cup UNION {c.saves[i].row.photos : i \in DOMAIN c.saves}
Keys(c) == {c.saves[i].key : i \in DOMAIN c.saves}

Remembered(f, r, u) ==
  (r.is = "there" /\ f \in r.photos) \/ \E p \in Callers : f \in Names(u[p])

NoneForgotten == \A f \in stored \ left : of[f] \in mixed \/ Remembered(f, entry[of[f]], upload)

Inside(e, m, s) == {k \in Entries : e[k].is = "there" /\ e[k].section = s} \ m

Apart(s, m, n) == s \notin Singletons /\ m # n

Free(u, s, k) == \A p \in Callers : u[p].section = s => k \notin Keys(u[p])

Arranged(e, u, m, s) ==
  /\ \A k, l \in Inside(e, m, s) : k # l /\ Free(u, s, k) /\ Free(u, s, l) =>
       Apart(s, e[k].sort, e[l].sort)
  /\ \A p \in Callers : u[p].section = s =>
       \A i \in DOMAIN u[p].saves : \A l \in Inside(e, m, s) \ Keys(u[p]) :
         u[p].saves[i].key \notin m => Apart(s, u[p].saves[i].row.sort, e[l].sort)

GuideInv ==
  /\ GuideTyped /\ Parted /\ RowsKept /\ NoneForgotten
  /\ \A s \in Sections \ mixed : Arranged(entry, upload, mixed, s)

----------------------------------------------------------------------------
LEMMA GuideCounts ==
  /\ \A S : Guide!Cardinality(S) = Cardinality(S)
  /\ \A S : Guide!IsFiniteSet(S) = IsFiniteSet(S)
<1>1. \A S : Guide!Cardinality(S) = Cardinality(S)
  BY Zenon DEF Guide!Cardinality, Cardinality
<1>2. \A S : Guide!IsFiniteSet(S) = IsFiniteSet(S)
  BY Zenon DEF Guide!IsFiniteSet, IsFiniteSet
<1> QED
  BY <1>1, <1>2

LEMMA GuideBounds ==
  /\ Singletons \subseteq Sections /\ MaxPhotos \in [Sections -> Nat]
  /\ Singles \cap Entries = {} /\ Places \cap Sections = {}
  /\ None \notin Places \cup Sections \cup Files
  /\ IsFiniteSet(Files) /\ IsFiniteSet(Entries)
  /\ Guide!Rows = Places
BY ScenesAssumption, GuideCounts DEF Guide!Parameters, Guide!Rows, Places

LEMMA PhotoCounts ==
  /\ \A S \in SUBSET Files : IsFiniteSet(S) /\ Cardinality(S) \in Nat
  /\ \A S \in SUBSET Files : \A f : Cardinality(S \cup {f}) <= Cardinality(S) + 1
                                      /\ Cardinality(S \ {f}) <= Cardinality(S)
  /\ Cardinality({}) = 0
<1>1. \A S \in SUBSET Files : IsFiniteSet(S) /\ Cardinality(S) \in Nat
  BY GuideBounds, FS_Subset, FS_CardinalityType
<1>2. ASSUME NEW S \in SUBSET Files, NEW f
      PROVE  Cardinality(S \cup {f}) <= Cardinality(S) + 1 /\ Cardinality(S \ {f}) <= Cardinality(S)
  <2>1. IsFiniteSet(S) /\ Cardinality(S) \in Nat
    BY <1>1
  <2>2. Cardinality(S \cup {f}) = IF f \in S THEN Cardinality(S) ELSE Cardinality(S) + 1
    BY <2>1, FS_AddElement
  <2>3. Cardinality(S \ {f}) = IF f \in S THEN Cardinality(S) - 1 ELSE Cardinality(S)
    BY <2>1, FS_RemoveElement
  <2> QED
    BY <2>1, <2>2, <2>3
<1> QED
  BY <1>1, <1>2, FS_EmptySet

LEMMA FirstNumber ==
  ASSUME NEW X \in SUBSET Nat, X # {}
  PROVE  \E m \in X : \A j \in X : m <= j
<1>1. PICK m \in X : \A j \in X : ~(<<j, m>> \in OpToRel(<, Nat))
  BY NatLessThanWellFounded, WFMin
<1>2. \A j \in X : ~(j < m)
  BY <1>1 DEF OpToRel
<1>3. \A j \in X : j \in Nat /\ m \in Nat
  OBVIOUS
<1> QED
  BY <1>2, <1>3

(* A finite set of numbers has a greatest: a smallest set without one      *)
(* would have one without any of its elements.                             *)
LEMMA GreatestNumber ==
  ASSUME NEW S, IsFiniteSet(S), S \subseteq Nat, S # {}
  PROVE  \E m \in S : \A j \in S : m >= j
<1> DEFINE Topped(T) == \E m \in T : \A j \in T : m >= j
           Sizes0 == {n \in Nat : \E T \in SUBSET S : T # {} /\ ~Topped(T) /\ Cardinality(T) = n}
<1>1. \A T \in SUBSET S : IsFiniteSet(T) /\ Cardinality(T) \in Nat
  BY FS_Subset, FS_CardinalityType
<1> SUFFICES ASSUME ~Topped(S) PROVE FALSE
  OBVIOUS
<1>2. Cardinality(S) \in Sizes0
  BY <1>1
<1>3. PICK n \in Sizes0 : \A j \in Sizes0 : n <= j
  <2>1. Sizes0 \subseteq Nat /\ Sizes0 # {}
    BY <1>2
  <2> HIDE DEF Sizes0
  <2> QED
    BY <2>1, FirstNumber
<1>4. PICK T \in SUBSET S : T # {} /\ ~Topped(T) /\ Cardinality(T) = n
  BY <1>3
<1>5. PICK x \in T : TRUE
  BY <1>4
<1>6. PICK U : U = T \ {x}
  OBVIOUS
<1>7. U \in SUBSET S /\ Cardinality(U) = n - 1 /\ n \in Nat
  BY <1>1, <1>3, <1>4, <1>5, <1>6, FS_RemoveElement
<1>8. Cardinality(U) \notin Sizes0
  BY <1>1, <1>3, <1>7
<1>9. U = {} \/ Topped(U)
  BY <1>1, <1>7, <1>8
<1>10. \A j \in T : j \in Nat
  BY <1>4
<1>11. CASE U = {}
  <2>1. \A j \in T : j = x
    BY <1>6, <1>11
  <2>2. Topped(T)
    BY <1>5, <1>10, <2>1
  <2> QED
    BY <1>4, <2>2
<1>12. CASE Topped(U)
  <2>1. PICK m \in U : \A j \in U : m >= j
    BY <1>12
  <2>2. PICK y \in {x, m} : y >= x /\ y >= m
    BY <1>5, <1>6, <1>10, <2>1
  <2>3. \A j \in T : y >= j
    BY <1>5, <1>6, <1>10, <2>1, <2>2
  <2>4. y \in T
    BY <1>5, <1>6, <2>1, <2>2
  <2> QED
    BY <1>4, <2>3, <2>4
<1> QED
  BY <1>9, <1>11, <1>12

(* The number a new entry of a section gets comes after those there.       *)
LEMMA SortIsNew ==
  ASSUME GuideTyped, NEW s \in Sections
  PROVE  Guide!NextSort(s) \in Nat /\ \A l \in Guide!Of(s) : entry[l].sort # Guide!NextSort(s)
<1>1. Guide!Of(s) \subseteq Entries /\ \A l \in Guide!Of(s) : entry[l].sort \in Nat
  BY DEF GuideTyped, Fitting, EntryRow, Guide!Of, Places
<1>2. CASE Guide!Of(s) = {}
  BY <1>2 DEF Guide!NextSort
<1>3. CASE Guide!Of(s) # {}
  <2>1. PICK N : N = {entry[l].sort : l \in Guide!Of(s)}
    OBVIOUS
  <2>2. N \subseteq Nat /\ N # {}
    BY <1>1, <1>3, <2>1
  <2>3. IsFiniteSet(N)
    <3>1. IsFiniteSet(Guide!Of(s))
      BY <1>1, GuideBounds, FS_Subset
    <3>2. PICK F : F = [l \in Guide!Of(s) |-> entry[l].sort]
      OBVIOUS
    <3>3. F \in [Guide!Of(s) -> N] /\ \A x \in N : \E l \in Guide!Of(s) : F[l] = x
      BY <2>1, <3>2
    <3>4. F \in Surjection(Guide!Of(s), N)
      BY <3>3, Fun_IsSurj
    <3> QED
      BY <3>1, <3>4, FS_Surjection
  <2>4. PICK m \in N : \A j \in N : m >= j
    BY <2>2, <2>3, GreatestNumber
  <2>5. Guide!Max(N) \in N /\ \A j \in N : Guide!Max(N) >= j
    BY <2>4 DEF Guide!Max
  <2>6. Guide!NextSort(s) = Guide!Max(N) + 1
    BY <1>3, <2>1 DEF Guide!NextSort
  <2>7. \A l \in Guide!Of(s) : entry[l].sort \in N
    BY <2>1
  <2>8. PICK n \in Nat : n = Guide!Max(N)
    BY <2>2, <2>5
  <2>9. \A j \in N : n >= j /\ j \in Nat
    BY <2>2, <2>5, <2>8
  <2>10. \A j \in N : j # n + 1
    BY <2>9
  <2> QED
    BY <2>6, <2>7, <2>8, <2>10
<1> QED
  BY <1>2, <1>3

----------------------------------------------------------------------------
(* A call begins: what it read of its rows, and of its section.            *)
GuideBegins(p, c) ==
  /\ upload[p].pc = "idle" /\ upload' = [upload EXCEPT ![p] = c]
  /\ UNCHANGED <<entry, stored, of, left, broken>>

ReadsRow(c, k, w) ==
  \/ /\ entry[k].is = "there" /\ w.section = entry[k].section
     /\ w.photos \subseteq entry[k].photos /\ entry[k].photos \subseteq w.photos \cup c.drop
     /\ c.section = None => w.sort = entry[k].sort
     /\ c.pc = "store" => c.drop \subseteq entry[k].photos
  \/ /\ Guide!Unused(k) /\ w.photos = {}
     /\ c.section # None /\ c.pc = "save"

ReadsSection(c) ==
  \/ Guide!Of(c.section) \subseteq Keys(c)
  \/ \A i \in DOMAIN c.saves :
       c.saves[i].key \in Guide!Of(c.section) /\ c.saves[i].row.sort = entry[c.saves[i].key].sort
  \/ \A i \in DOMAIN c.saves : \A l \in Guide!Of(c.section) :
       Apart(c.section, c.saves[i].row.sort, entry[l].sort)

Ready(c) ==
  /\ Planned(c) /\ Owned(c, of) /\ c.pc \in {"store", "save", "remove"}
  /\ \A i \in DOMAIN c.saves : ReadsRow(c, c.saves[i].key, c.saves[i].row)
  /\ c.section # None => ReadsSection(c)

MayKeep(k, w, pc, drop, s) ==
  /\ Fitting(k, w) /\ w.is = "there" /\ w.photos \cap drop = {}
  /\ k \in Places /\ pc \in {"store", "save", "remove"} /\ drop \subseteq Files
  /\ s \in Sections \cup {None} /\ (s # None => k \in Entries /\ w.section = s)
  /\ pc = "store" => s = None /\ Cardinality(w.photos) < Allowed(k, w)
  /\ pc = "remove" => w.photos = {} /\ drop = {}

LEMMA KeepsOne ==
  ASSUME NEW k, NEW w, NEW pc, NEW drop, NEW s, MayKeep(k, w, pc, drop, s),
         NEW c, c = [pc |-> pc, saves |-> Guide!One(k, w), drop |-> drop, section |-> s]
  PROVE  /\ Planned(c) /\ c.pc = pc /\ c.drop = drop /\ c.section = s
         /\ DOMAIN c.saves = {1} /\ c.saves[1].key = k /\ c.saves[1].row = w
<1>1. PICK v : v = [key |-> k, row |-> w]
  OBVIOUS
<1>2. v \in SaveOf /\ v.key = k /\ v.row = w
  BY <1>1 DEF SaveOf, Fitting, MayKeep
<1>3. c = [pc |-> pc, saves |-> <<v>>, drop |-> drop, section |-> s]
  BY <1>1 DEF Guide!One
<1>4. PICK q : q = <<v>>
  OBVIOUS
<1>5. q \in Seq(SaveOf) /\ Len(q) = 1 /\ DOMAIN q = {1} /\ q[1] = v /\ q # <<>>
  BY <1>2, <1>4
<1>6. /\ c.saves = q /\ c.pc = pc /\ c.drop = drop /\ c.section = s
      /\ c = [pc |-> c.pc, saves |-> c.saves, drop |-> c.drop, section |-> c.section]
  BY <1>3, <1>4
<1>7. Planned(c)
  BY <1>2, <1>5, <1>6 DEF Planned, MayKeep
<1> QED
  BY <1>2, <1>5, <1>6, <1>7

MayAsk(k, w, pc, drop, s) == MayKeep(k, w, pc, drop, s) /\ \A f \in w.photos \cup drop : of[f] = k

LEMMA OneCall ==
  ASSUME NEW k, NEW w, NEW pc, NEW drop, NEW s, MayAsk(k, w, pc, drop, s),
         NEW c, c = [pc |-> pc, saves |-> Guide!One(k, w), drop |-> drop, section |-> s]
  PROVE  /\ Planned(c) /\ Owned(c, of) /\ c.pc = pc /\ c.drop = drop /\ c.section = s
         /\ DOMAIN c.saves = {1} /\ c.saves[1].key = k /\ c.saves[1].row = w
<1>1. /\ Planned(c) /\ c.pc = pc /\ c.drop = drop /\ c.section = s
      /\ DOMAIN c.saves = {1} /\ c.saves[1].key = k /\ c.saves[1].row = w
  BY KeepsOne DEF MayAsk
<1>2. Owned(c, of)
  BY <1>1, GuideBounds DEF Owned, MayAsk, MayKeep
<1> QED
  BY <1>1, <1>2

LEMMA EntryFacts ==
  ASSUME GuideTyped, NEW k \in Places
  PROVE  /\ Fitting(k, entry[k]) /\ entry[k] \in EntryRow /\ entry[k].photos \subseteq Files
         /\ entry[k].sort \in Nat /\ entry[k].section \in Sections \cup {None}
         /\ \A f \in entry[k].photos : of[f] = k
         /\ k \in Singles => k \notin Entries
         /\ entry[k].is = "there" => Allowed(k, entry[k]) \in Nat
<1>1. Fitting(k, entry[k]) /\ entry[k] \in EntryRow /\ \A f \in entry[k].photos : of[f] = k
  BY DEF GuideTyped, Fitting
<1>2. entry[k].is = "there" => Allowed(k, entry[k]) \in Nat
  BY <1>1, GuideBounds DEF Fitting, Allowed, Places
<1> QED
  BY <1>1, <1>2, GuideBounds DEF EntryRow

LEMMA PhotoReads ==
  ASSUME GuideTyped, NEW p \in Callers,
         \/ \E k \in Singles : Guide!SetPhotoRead(p, k)
         \/ \E k \in Entries : Guide!AddPhotoRead(p, k)
         \/ \E k \in Guide!Rows, f \in Files : Guide!RemovePhotoRead(p, k, f)
         \/ \E k \in Guide!Rows : Guide!EditRead(p, k)
  PROVE  \E c : GuideBegins(p, c) /\ Ready(c)
<1>0. None \in Sections \cup {None} /\ Singles \subseteq Places /\ Entries \subseteq Places
  BY DEF Places
<1>1. ASSUME NEW k \in Singles, Guide!SetPhotoRead(p, k)
      PROVE  \E c : GuideBegins(p, c) /\ Ready(c)
  <2>1. PICK w : w = [entry[k] EXCEPT !.photos = {}]
    OBVIOUS
  <2>2. PICK c : c = [pc |-> "store", saves |-> Guide!One(k, w), drop |-> entry[k].photos, section |-> None]
    OBVIOUS
  <2>3. entry[k].is = "there" /\ GuideBegins(p, c)
    BY <1>1, <2>1, <2>2 DEF Guide!SetPhotoRead, Guide!PhotoEditable, Guide!There, Guide!Begin, GuideBegins
  <2>4. /\ w \in EntryRow /\ w.is = "there" /\ w.photos = {}
        /\ w.section = entry[k].section /\ w.sort = entry[k].sort
    BY <1>0, <2>1, <2>3, EntryFacts DEF EntryRow
  <2>5. Fitting(k, w) /\ Cardinality(w.photos) < Allowed(k, w)
    BY <1>0, <2>3, <2>4, EntryFacts, PhotoCounts DEF Fitting, Allowed
  <2>6. /\ Planned(c) /\ Owned(c, of) /\ c.pc = "store" /\ c.drop = entry[k].photos /\ c.section = None
        /\ DOMAIN c.saves = {1} /\ c.saves[1].key = k /\ c.saves[1].row = w
    <3>1. MayAsk(k, w, "store", entry[k].photos, None)
      BY <1>0, <2>4, <2>5, EntryFacts DEF MayAsk, MayKeep
    <3> QED
      BY <2>2, <3>1, OneCall
  <2> QED
    BY <2>3, <2>4, <2>6 DEF Ready, ReadsRow
<1>2. ASSUME NEW k \in Entries, Guide!AddPhotoRead(p, k)
      PROVE  \E c : GuideBegins(p, c) /\ Ready(c)
  <2>1. PICK w : w = entry[k]
    OBVIOUS
  <2>2. PICK c : c = [pc |-> "store", saves |-> Guide!One(k, w), drop |-> {}, section |-> None]
    OBVIOUS
  <2>3. entry[k].is = "there" /\ GuideBegins(p, c) /\ Cardinality(w.photos) < Allowed(k, w)
    BY <1>2, <2>1, <2>2, GuideCounts
       DEF Guide!AddPhotoRead, Guide!There, Guide!Begin, GuideBegins, Guide!Cap, Allowed
  <2>6. /\ Planned(c) /\ Owned(c, of) /\ c.pc = "store" /\ c.drop = {} /\ c.section = None
        /\ DOMAIN c.saves = {1} /\ c.saves[1].key = k /\ c.saves[1].row = w
    <3>1. MayAsk(k, w, "store", {}, None)
      BY <1>0, <2>1, <2>3, EntryFacts DEF MayAsk, MayKeep
    <3> QED
      BY <2>2, <3>1, OneCall
  <2> QED
    BY <2>1, <2>3, <2>6 DEF Ready, ReadsRow
<1>3. ASSUME NEW k \in Places, NEW f \in Files, Guide!RemovePhotoRead(p, k, f)
      PROVE  \E c : GuideBegins(p, c) /\ Ready(c)
  <2>1. PICK w : w = [entry[k] EXCEPT !.photos = @ \ {f}]
    OBVIOUS
  <2>2. PICK c : c = [pc |-> "save", saves |-> Guide!One(k, w), drop |-> {f}, section |-> None]
    OBVIOUS
  <2>3. entry[k].is = "there" /\ GuideBegins(p, c) /\ f \in entry[k].photos
    BY <1>3, <2>1, <2>2 DEF Guide!RemovePhotoRead, Guide!PhotoEditable, Guide!There, Guide!Begin, GuideBegins
  <2>4. /\ w \in EntryRow /\ w.is = "there" /\ w.photos = entry[k].photos \ {f}
        /\ w.section = entry[k].section /\ w.sort = entry[k].sort
    BY <2>1, <2>3, EntryFacts DEF EntryRow
  <2>5. Fitting(k, w)
    <3>1. Cardinality(w.photos) \in Nat /\ Cardinality(entry[k].photos) \in Nat
          /\ Cardinality(w.photos) <= Cardinality(entry[k].photos)
      BY <2>4, EntryFacts, PhotoCounts
    <3>2. Allowed(k, w) = Allowed(k, entry[k]) /\ Allowed(k, w) \in Nat
      BY <2>3, <2>4, EntryFacts DEF Allowed
    <3>3. Cardinality(entry[k].photos) <= Allowed(k, w)
      BY <2>3, <3>2, EntryFacts DEF Fitting
    <3>4. Cardinality(w.photos) <= Allowed(k, w)
      BY <3>1, <3>2, <3>3
    <3> QED
      BY <2>3, <2>4, <3>4, EntryFacts DEF Fitting
  <2>6. /\ Planned(c) /\ Owned(c, of) /\ c.pc = "save" /\ c.drop = {f} /\ c.section = None
        /\ DOMAIN c.saves = {1} /\ c.saves[1].key = k /\ c.saves[1].row = w
    <3>1. w.photos \cap {f} = {} /\ \A g \in w.photos \cup {f} : of[g] = k
      BY <2>3, <2>4, EntryFacts
    <3> QED
      <4>1. MayAsk(k, w, "save", {f}, None)
        BY <1>0, <2>4, <2>5, <3>1 DEF MayAsk, MayKeep
      <4> QED
        BY <2>2, <4>1, OneCall
  <2> QED
    BY <2>3, <2>4, <2>6 DEF Ready, ReadsRow
<1>4. ASSUME NEW k \in Places, Guide!EditRead(p, k)
      PROVE  \E c : GuideBegins(p, c) /\ Ready(c)
  <2>1. PICK w : w = [entry[k] EXCEPT !.more = ~@]
    OBVIOUS
  <2>2. PICK c : c = [pc |-> "save", saves |-> Guide!One(k, w), drop |-> {}, section |-> None]
    OBVIOUS
  <2>3. entry[k].is = "there" /\ GuideBegins(p, c)
    BY <1>4, <2>1, <2>2 DEF Guide!EditRead, Guide!There, Guide!Begin, GuideBegins
  <2>4. /\ w \in EntryRow /\ w.is = "there" /\ w.photos = entry[k].photos
        /\ w.section = entry[k].section /\ w.sort = entry[k].sort
    BY <2>1, <2>3, EntryFacts DEF EntryRow
  <2>5. Fitting(k, w)
    BY <2>3, <2>4, EntryFacts DEF Fitting, Allowed
  <2>6. /\ Planned(c) /\ Owned(c, of) /\ c.pc = "save" /\ c.drop = {} /\ c.section = None
        /\ DOMAIN c.saves = {1} /\ c.saves[1].key = k /\ c.saves[1].row = w
    <3>1. MayAsk(k, w, "save", {}, None)
      BY <1>0, <2>4, <2>5, EntryFacts DEF MayAsk, MayKeep
    <3> QED
      BY <2>2, <3>1, OneCall
  <2> QED
    BY <2>3, <2>4, <2>6 DEF Ready, ReadsRow
<1> QED
  BY <1>1, <1>2, <1>3, <1>4, GuideBounds

(* A row of the directory that is not there yet. *)
LEMMA NewEntry ==
  ASSUME NEW s \in Sections, NEW more \in BOOLEAN, NEW n \in Nat, NEW k \in Entries
  PROVE  /\ Fitting(k, Guide!New(s, more, n)) /\ Guide!New(s, more, n).is = "there"
         /\ Guide!New(s, more, n).photos = {} /\ Guide!New(s, more, n).section = s
         /\ Guide!New(s, more, n).sort = n
<1>1. PICK w : w = Guide!New(s, more, n)
  OBVIOUS
<1>2. w \in EntryRow /\ w.is = "there" /\ w.photos = {} /\ w.section = s /\ w.sort = n
  BY <1>1 DEF Guide!New, EntryRow
<1>3. Fitting(k, w)
  BY <1>2, GuideBounds, PhotoCounts DEF Fitting, Allowed
<1> QED
  BY <1>1, <1>2, <1>3

LEMMA PageReads ==
  ASSUME GuideTyped, NEW p \in Callers,
         \/ \E s \in Singletons, more \in BOOLEAN : Guide!UpsertRead(p, s, more)
         \/ \E s \in Sections : Guide!CreateRead(p, s)
  PROVE  \E c : GuideBegins(p, c) /\ Ready(c)
<1>0. /\ Singletons \subseteq Sections /\ Entries \subseteq Places /\ {} \in SUBSET Files
      /\ \A s \in Sections : s # None /\ s \in Sections \cup {None}
  BY GuideBounds DEF Places
<1>1. ASSUME NEW s \in Sections, NEW k \in Guide!Of(s), NEW w, Fitting(k, w), w.is = "there",
             w.photos = entry[k].photos, w.section = entry[k].section, w.sort = entry[k].sort,
             NEW pc \in {"save", "remove"}, pc = "remove" => w.photos = {},
             Guide!Begin(p, pc, Guide!One(k, w), {}, s)
      PROVE  \E c : GuideBegins(p, c) /\ Ready(c)
  <2>1. PICK c : c = [pc |-> pc, saves |-> Guide!One(k, w), drop |-> {}, section |-> s]
    OBVIOUS
  <2>2. GuideBegins(p, c)
    BY <1>1, <2>1 DEF Guide!Begin, GuideBegins
  <2>3. k \in Entries /\ k \in Places /\ entry[k].is = "there" /\ entry[k].section = s
    BY <1>0 DEF Guide!Of, Guide!There
  <2>4. /\ w.photos \cap {} = {} /\ \A f \in w.photos \cup {} : of[f] = k
    BY <1>1, <2>3, EntryFacts
  <2>5. pc \in {"store", "save", "remove"} /\ pc # "store"
    OBVIOUS
  <2>6. /\ Planned(c) /\ Owned(c, of) /\ c.pc = pc /\ c.drop = {} /\ c.section = s
        /\ DOMAIN c.saves = {1} /\ c.saves[1].key = k /\ c.saves[1].row = w
    <3>1. MayAsk(k, w, pc, {}, s)
      BY <1>0, <1>1, <2>3, <2>4, <2>5 DEF MayAsk, MayKeep
    <3> QED
      BY <2>1, <3>1, OneCall
  <2>7. ReadsRow(c, k, w)
    BY <1>0, <1>1, <2>3, <2>5, <2>6 DEF ReadsRow
  <2>8. ReadsSection(c)
    BY <1>1, <2>6 DEF ReadsSection
  <2> QED
    BY <2>2, <2>5, <2>6, <2>7, <2>8 DEF Ready
<1>2. ASSUME NEW s \in Sections, NEW k \in Entries, Guide!Unused(k), NEW more \in BOOLEAN, NEW n \in Nat,
             Guide!Begin(p, "save", Guide!One(k, Guide!New(s, more, n)), {}, s),
             \/ Guide!Of(s) = {}
             \/ \A l \in Guide!Of(s) : Apart(s, n, entry[l].sort)
      PROVE  \E c : GuideBegins(p, c) /\ Ready(c)
  <2>0. PICK w : w = Guide!New(s, more, n)
    OBVIOUS
  <2>1. PICK c : c = [pc |-> "save", saves |-> Guide!One(k, w), drop |-> {}, section |-> s]
    OBVIOUS
  <2>2. GuideBegins(p, c)
    BY <1>2, <2>0, <2>1 DEF Guide!Begin, GuideBegins
  <2>3. Fitting(k, w) /\ w.is = "there" /\ w.photos = {} /\ w.section = s /\ w.sort = n
    BY <2>0, NewEntry
  <2>4. k \in Places /\ w.photos \cap {} = {} /\ \A f \in w.photos \cup {} : of[f] = k
    BY <1>0, <2>3
  <2>6. /\ Planned(c) /\ Owned(c, of) /\ c.pc = "save" /\ c.drop = {} /\ c.section = s
        /\ DOMAIN c.saves = {1} /\ c.saves[1].key = k /\ c.saves[1].row = w
    <3>1. MayAsk(k, w, "save", {}, s)
      BY <1>0, <2>3, <2>4 DEF MayAsk, MayKeep
    <3> QED
      BY <2>1, <3>1, OneCall
  <2>7. ReadsRow(c, k, w)
    BY <1>0, <1>2, <2>3, <2>6 DEF ReadsRow
  <2>8. ReadsSection(c)
    BY <1>2, <2>3, <2>6 DEF ReadsSection
  <2> QED
    BY <1>0, <2>2, <2>6, <2>7, <2>8 DEF Ready
<1>3. ASSUME NEW s \in Singletons, NEW more \in BOOLEAN, Guide!UpsertRead(p, s, more)
      PROVE  \E c : GuideBegins(p, c) /\ Ready(c)
  <2>1. ASSUME NEW k \in Guide!Of(s), ~more /\ entry[k].photos = {},
               Guide!Begin(p, "remove", Guide!One(k, entry[k]), {}, s)
        PROVE  \E c : GuideBegins(p, c) /\ Ready(c)
    <3>1. k \in Places /\ entry[k].is = "there"
      BY <1>0 DEF Guide!Of, Guide!There
    <3>2. Fitting(k, entry[k])
      BY <3>1, EntryFacts
    <3> QED
      BY <1>0, <1>1, <2>1, <3>1, <3>2
  <2>2. ASSUME NEW k \in Guide!Of(s),
               Guide!Begin(p, "save", Guide!One(k, [entry[k] EXCEPT !.more = more]), {}, s)
        PROVE  \E c : GuideBegins(p, c) /\ Ready(c)
    <3>1. k \in Places /\ entry[k].is = "there"
      BY <1>0 DEF Guide!Of, Guide!There
    <3>2. PICK w : w = [entry[k] EXCEPT !.more = more]
      OBVIOUS
    <3>3. /\ w \in EntryRow /\ w.is = "there" /\ w.photos = entry[k].photos
          /\ w.section = entry[k].section /\ w.sort = entry[k].sort
      BY <3>1, <3>2, EntryFacts DEF EntryRow
    <3>4. Fitting(k, w)
      BY <3>1, <3>3, EntryFacts DEF Fitting, Allowed
    <3> QED
      BY <1>0, <1>1, <2>2, <3>2, <3>3, <3>4
  <2>3. ASSUME Guide!Of(s) = {}, more,
               NEW k \in Entries, Guide!Unused(k), Guide!Begin(p, "save", Guide!One(k, Guide!New(s, more, 0)), {}, s)
        PROVE  \E c : GuideBegins(p, c) /\ Ready(c)
    BY <1>0, <1>2, <2>3
  <2> QED
    BY <1>3, <2>1, <2>2, <2>3 DEF Guide!UpsertRead
<1>4. ASSUME NEW s \in Sections, Guide!CreateRead(p, s)
      PROVE  \E c : GuideBegins(p, c) /\ Ready(c)
  <2>1. PICK k \in Entries, more \in BOOLEAN :
          Guide!Unused(k) /\ Guide!Begin(p, "save", Guide!One(k, Guide!New(s, more, Guide!NextSort(s))), {}, s)
    BY <1>4 DEF Guide!CreateRead
  <2>2. s \notin Singletons
    BY <1>4 DEF Guide!CreateRead
  <2>3. PICK n : n = Guide!NextSort(s)
    OBVIOUS
  <2>4. n \in Nat /\ \A l \in Guide!Of(s) : Apart(s, n, entry[l].sort)
    BY <2>2, <2>3, SortIsNew DEF Apart
  <2> QED
    BY <1>2, <2>1, <2>3, <2>4
<1> QED
  BY <1>3, <1>4

(* A new order of a section names every entry of it.                       *)
LEMMA OrdersAll ==
  ASSUME NEW S, IsFiniteSet(S), NEW order \in Guide!SetToSeqs(S)
  PROVE  /\ Cardinality(S) \in Nat /\ order \in [1..Cardinality(S) -> S]
         /\ DOMAIN order = 1..Cardinality(S)
         /\ \A i, j \in DOMAIN order : i # j => order[i] # order[j]
         /\ \A l \in S : \E i \in DOMAIN order : order[i] = l
<1>1. Cardinality(S) \in Nat
  BY FS_CardinalityType
<1>2. /\ order \in [1..Cardinality(S) -> S]
      /\ \A i, j \in 1..Cardinality(S) : i # j => order[i] # order[j]
  BY GuideCounts DEF Guide!SetToSeqs
<1>3. PICK D : D = 1..Cardinality(S)
  OBVIOUS
<1>4. IsFiniteSet(D) /\ Cardinality(D) = Cardinality(S)
  <2>1. Cardinality(S) \in Int /\ 1 \in Int
        /\ (IF 1 > Cardinality(S) THEN 0 ELSE Cardinality(S) - 1 + 1) = Cardinality(S)
    BY <1>1
  <2> QED
    BY <1>3, <2>1, FS_Interval
<1>5. order \in Injection(D, S)
  BY <1>2, <1>3, Fun_IsInj
<1>6. order \in Surjection(D, S)
  BY <1>4, <1>5, FS_Injection
<1>7. \A l \in S : \E i \in D : order[i] = l
  BY <1>6 DEF Surjection
<1> QED
  BY <1>1, <1>2, <1>3, <1>7

LEMMA ReorderReads ==
  ASSUME GuideTyped, NEW p \in Callers, NEW s \in Sections, NEW order, Guide!ReorderRead(p, s, order)
  PROVE  \E c : GuideBegins(p, c) /\ Ready(c)
<1>0. s # None /\ Entries \subseteq Places /\ s \notin Singletons
  BY GuideBounds DEF Places, Guide!ReorderRead
<1>1. PICK S : S = Guide!Of(s)
  OBVIOUS
<1>2. S \subseteq Entries /\ \A k \in S : entry[k].is = "there" /\ entry[k].section = s
  BY <1>1 DEF Guide!Of, Guide!There
<1>3. IsFiniteSet(S) /\ S # {} /\ order \in Guide!SetToSeqs(S)
  BY <1>1, <1>2, GuideBounds, FS_Subset DEF Guide!ReorderRead
<1>4. PICK n \in Nat : n = Cardinality(S)
  BY <1>3, OrdersAll
<1>5. /\ order \in [1..n -> S] /\ DOMAIN order = 1..n
      /\ \A i, j \in 1..n : i # j => order[i] # order[j]
      /\ \A l \in S : \E i \in 1..n : order[i] = l
  BY <1>3, <1>4, OrdersAll
<1>6. n >= 1
  BY <1>3, <1>4, <1>5
<1>7. PICK q : q = [i \in 1..n |-> [key |-> order[i], row |-> [entry[order[i]] EXCEPT !.sort = i - 1]]]
  OBVIOUS
<1>8. PICK c : c = [pc |-> "save", saves |-> q, drop |-> {}, section |-> s]
  OBVIOUS
<1>9. GuideBegins(p, c)
  BY <1>5, <1>7, <1>8 DEF Guide!ReorderRead, Guide!Begin, GuideBegins
<1>10. ASSUME NEW i \in 1..n
       PROVE  /\ q[i] \in SaveOf /\ q[i].key = order[i] /\ order[i] \in S /\ order[i] \in Places
              /\ Fitting(q[i].key, q[i].row) /\ q[i].row.is = "there" /\ q[i].row.sort = i - 1
              /\ q[i].row.photos = entry[order[i]].photos /\ q[i].row.section = s
  <2>1. order[i] \in S /\ order[i] \in Places
    BY <1>0, <1>2, <1>5
  <2>2. PICK r : r = entry[order[i]]
    OBVIOUS
  <2>3. PICK w : w = [r EXCEPT !.sort = i - 1]
    OBVIOUS
  <2>4. i - 1 \in Nat
    OBVIOUS
  <2>5. r \in EntryRow /\ Fitting(order[i], r) /\ r.is = "there" /\ r.section = s
    BY <1>2, <2>1, <2>2, EntryFacts
  <2>6. /\ w \in EntryRow /\ w.is = "there" /\ w.photos = r.photos /\ w.section = s /\ w.sort = i - 1
    BY <2>3, <2>4, <2>5 DEF EntryRow
  <2>7. Fitting(order[i], w)
    BY <2>5, <2>6 DEF Fitting, Allowed
  <2>8. q[i] = [key |-> order[i], row |-> w]
    BY <1>7, <2>2, <2>3
  <2> QED
    BY <2>1, <2>2, <2>5, <2>6, <2>7, <2>8 DEF SaveOf
<1>11. q \in Seq(SaveOf) /\ Len(q) = n /\ DOMAIN q = 1..n
  BY <1>7, <1>10
<1>12. /\ c.saves = q /\ c.pc = "save" /\ c.drop = {} /\ c.section = s
       /\ c = [pc |-> c.pc, saves |-> c.saves, drop |-> c.drop, section |-> c.section]
  BY <1>8
<1>13. Planned(c)
  <2>1. /\ \A i \in DOMAIN c.saves :
             /\ Fitting(c.saves[i].key, c.saves[i].row) /\ c.saves[i].row.is = "there"
             /\ c.saves[i].row.photos \cap c.drop = {}
             /\ c.saves[i].key \in Entries /\ c.saves[i].row.section = c.section
    BY <1>2, <1>10, <1>11, <1>12
  <2>2. \A i, j \in DOMAIN c.saves : i # j =>
             /\ c.saves[i].key # c.saves[j].key /\ c.saves[i].row.sort # c.saves[j].row.sort
             /\ c.drop = {} /\ c.section # None /\ c.section \notin Singletons
    <3>1. \A i, j \in 1..n : i # j => i - 1 # j - 1
      OBVIOUS
    <3> QED
      BY <1>0, <1>5, <1>10, <1>11, <1>12, <3>1
  <2> QED
    BY <1>6, <1>11, <1>12, <2>1, <2>2 DEF Planned
<1>14. Owned(c, of)
  BY <1>10, <1>11, <1>12, EntryFacts DEF Owned
<1>15. \A i \in DOMAIN c.saves : ReadsRow(c, c.saves[i].key, c.saves[i].row)
  BY <1>0, <1>2, <1>10, <1>11, <1>12 DEF ReadsRow
<1>16. ReadsSection(c)
  BY <1>1, <1>5, <1>10, <1>11, <1>12 DEF ReadsSection, Keys
<1> QED
  BY <1>9, <1>12, <1>13, <1>14, <1>15, <1>16 DEF Ready

----------------------------------------------------------------------------
(* What is watched: no row or section that two calls hold goes unnoticed,  *)
(* nor one whose changes were cut off.                                     *)
LEMMA GuideWatched ==
  ASSUME Guide!Watch
  PROVE  /\ Parted' /\ mixed \subseteq mixed'
         /\ \A p \in Callers : /\ Len(upload[p].saves) > 0 /\ broken' # broken
                               /\ upload'[p].pc = "idle"
                               => upload[p].section \in mixed'
<1>1. mixed \subseteq mixed'
  BY DEF Guide!Watch
<1>2. ASSUME NEW p \in Callers, NEW q \in Callers, p # q PROVE Guide!Together(p, q)' \subseteq mixed'
  <2>1. q \in Callers \ {p}
    BY <1>2
  <2>2. Guide!Together(p, q)' \subseteq UNION {Guide!Together(p, q2)' : q2 \in Callers \ {p}}
    BY <2>1
  <2>3. PICK X : X = UNION {Guide!Together(p, q2)' : q2 \in Callers \ {p}}
    OBVIOUS
  <2>4. X \in {UNION {Guide!Together(p2, q2)' : q2 \in Callers \ {p2}} : p2 \in Callers}
    BY <2>3
  <2>5. PICK Y : Y = UNION {UNION {Guide!Together(p2, q2)' : q2 \in Callers \ {p2}} : p2 \in Callers}
    OBVIOUS
  <2>6. X \subseteq Y
    BY <2>4, <2>5
  <2>7. Y \subseteq mixed'
    BY <2>5 DEF Guide!Watch
  <2> QED
    BY <2>2, <2>3, <2>6, <2>7
<1>3. ASSUME NEW p \in Callers, Len(upload[p].saves) > 0, broken' # broken, upload'[p].pc = "idle"
      PROVE  upload[p].section \in mixed'
  <2>1. PICK P : P = {p2 \in Callers : /\ Len(upload[p2].saves) > 0 /\ broken' # broken
                                       /\ upload'[p2].pc = "idle"}
    OBVIOUS
  <2>2. p \in P
    BY <1>3, <2>1
  <2>3. {upload[p2].section : p2 \in P} \subseteq mixed'
    BY <2>1 DEF Guide!Watch
  <2> QED
    BY <2>2, <2>3
<1> QED
  BY <1>1, <1>2, <1>3 DEF Parted

(* Two calls hold no row outside `mixed` and change no section outside it. *)
LEMMA OneCaller ==
  ASSUME Parted, GuideTyped, NEW p \in Callers, NEW q \in Callers, p # q
  PROVE  /\ \A k \in Places \ mixed : k \notin Keys(upload[p]) \/ k \notin Keys(upload[q])
         /\ \A s \in Sections \ mixed : upload[p].section # s \/ upload[q].section # s
<1>1. Guide!Together(p, q) \subseteq mixed
  BY DEF Parted
<1>2. ASSUME NEW k \in Places \ mixed, k \in Keys(upload[p]), k \in Keys(upload[q]) PROVE FALSE
  BY <1>1, <1>2, GuideBounds DEF Guide!Together, Guide!Holds, Guide!Held, Keys
<1>3. ASSUME NEW s \in Sections \ mixed, upload[p].section = s, upload[q].section = s PROVE FALSE
  BY <1>1, <1>3, GuideBounds DEF Guide!Together, Guide!Holds
<1> QED
  BY <1>2, <1>3

LEMMA CallFacts ==
  ASSUME GuideTyped, NEW p \in Callers
  PROVE  /\ Planned(upload[p]) /\ Owned(upload[p], of)
         /\ upload[p].pc = "idle" => /\ upload[p].saves = <<>> /\ upload[p].drop = {}
                                     /\ upload[p].section = None
         /\ \A i \in DOMAIN upload[p].saves :
              /\ upload[p].saves[i].key \in Places /\ upload[p].saves[i].row \in EntryRow
              /\ upload[p].saves[i].row.photos \subseteq Files
              /\ \A f \in upload[p].saves[i].row.photos : of[f] = upload[p].saves[i].key /\ of[f] # None
              /\ Fitting(upload[p].saves[i].key, upload[p].saves[i].row)
<1>1. Planned(upload[p]) /\ Owned(upload[p], of)
  BY DEF GuideTyped
<1>2. upload[p].pc = "idle" => upload[p].saves = <<>> /\ upload[p].drop = {} /\ upload[p].section = None
  BY <1>1 DEF Planned, Guide!Idle
<1>3. ASSUME NEW i \in DOMAIN upload[p].saves
      PROVE  /\ upload[p].saves[i].key \in Places /\ upload[p].saves[i].row \in EntryRow
             /\ Fitting(upload[p].saves[i].key, upload[p].saves[i].row)
  <2>1. upload[p].saves[i] \in SaveOf
    BY <1>1 DEF Planned
  <2> QED
    BY <1>1, <2>1 DEF Planned, SaveOf
<1>4. ASSUME NEW i \in DOMAIN upload[p].saves, NEW f \in upload[p].saves[i].row.photos
      PROVE  of[f] = upload[p].saves[i].key /\ of[f] # None
  BY <1>1, <1>3, GuideBounds DEF Owned
<1> QED
  BY <1>1, <1>2, <1>3, <1>4 DEF EntryRow

LEMMA IdleFacts ==
  /\ Planned(Guide!Idle) /\ \A o : Owned(Guide!Idle, o)
  /\ Guide!Idle.pc = "idle" /\ Guide!Idle.saves = <<>> /\ Guide!Idle.drop = {} /\ Guide!Idle.section = None
  /\ DOMAIN Guide!Idle.saves = {} /\ Names(Guide!Idle) = {} /\ Keys(Guide!Idle) = {}
<1>1. /\ Guide!Idle.pc = "idle" /\ Guide!Idle.saves = <<>> /\ Guide!Idle.drop = {}
      /\ Guide!Idle.section = None
      /\ Guide!Idle = [pc |-> Guide!Idle.pc, saves |-> Guide!Idle.saves,
                       drop |-> Guide!Idle.drop, section |-> Guide!Idle.section]
  BY DEF Guide!Idle
<1>2. <<>> \in Seq(SaveOf) /\ DOMAIN <<>> = {}
  OBVIOUS
<1>3. Planned(Guide!Idle)
  BY <1>1, <1>2 DEF Planned
<1> QED
  BY <1>1, <1>2, <1>3 DEF Owned, Names, Keys

(* The types, when one call changes and no file gets an owner.             *)
LEMMA TypedCalls ==
  ASSUME GuideTyped, NEW p \in Callers, NEW c, upload' = [upload EXCEPT ![p] = c],
         Planned(c), Owned(c, of), of' = of
  PROVE  /\ upload' = [q \in Callers |-> upload'[q]]
         /\ \A q \in Callers : Planned(upload'[q]) /\ Owned(upload'[q], of')
<1>1. upload' = [q \in Callers |-> upload'[q]]
  BY DEF GuideTyped
<1>2. \A q \in Callers : upload'[q] = IF q = p THEN c ELSE upload[q]
  BY DEF GuideTyped
<1>3. \A q \in Callers : Planned(upload'[q]) /\ Owned(upload'[q], of)
  BY <1>2, CallFacts
<1> QED
  BY <1>1, <1>3

----------------------------------------------------------------------------
(* A call begins. *)
LEMMA BeginTyped ==
  ASSUME GuideTyped, NEW p \in Callers, NEW c, GuideBegins(p, c), Ready(c)
  PROVE  GuideTyped'
<1>1. UNCHANGED <<entry, stored, of, left, broken>> /\ upload' = [upload EXCEPT ![p] = c]
  BY DEF GuideBegins
<1>2. /\ upload' = [q \in Callers |-> upload'[q]]
      /\ \A q \in Callers : Planned(upload'[q]) /\ Owned(upload'[q], of')
  BY <1>1, TypedCalls DEF Ready
<1> QED
  BY <1>1, <1>2 DEF GuideTyped

LEMMA BeginKept ==
  ASSUME GuideTyped, NEW p \in Callers, NEW c, GuideBegins(p, c), Ready(c),
         NEW k \in Places, KeptRow(k, entry[k], stored, upload)
  PROVE  KeptRow(k, entry'[k], stored', upload')
<1>1. entry' = entry /\ stored' = stored /\ upload[p].pc = "idle"
  BY DEF GuideBegins
<1>2. \A q \in Callers : upload'[q] = IF q = p THEN c ELSE upload[q]
  BY DEF GuideBegins, GuideTyped
<1>3. c.pc # "delete"
  BY DEF Ready
<1>4. ASSUME NEW q \in Callers, NEW P, P \subseteq entry[k].photos PROVE Spares(upload'[q], P)
  <2>1. Spares(upload[q], entry[k].photos)
    BY DEF KeptRow
  <2> QED
    BY <1>2, <1>3, <1>4, <2>1 DEF Spares
<1>5. ASSUME NEW i \in DOMAIN c.saves, c.saves[i].key = k
      PROVE  Believes(c, i, entry[k], stored) /\ c.saves[i].row.photos \subseteq entry[k].photos
  <2>1. ReadsRow(c, k, c.saves[i].row)
    BY <1>5 DEF Ready
  <2>2. entry[k].is = "there" => entry[k].photos \subseteq stored
    BY DEF KeptRow
  <2>3. Guide!Unused(k) => entry[k].is = "never"
    BY DEF Guide!Unused
  <2> QED
    BY <2>1, <2>2, <2>3 DEF ReadsRow, Believes
<1>6. ASSUME NEW q \in Callers, NEW i \in DOMAIN upload'[q].saves, upload'[q].saves[i].key = k
      PROVE  /\ Believes(upload'[q], i, entry[k], stored)
             /\ \A q2 \in Callers : Spares(upload'[q2], upload'[q].saves[i].row.photos)
  <2>1. CASE q = p
    BY <1>2, <1>4, <1>5, <1>6, <2>1
  <2>2. CASE q # p
    <3>1. /\ Believes(upload[q], i, entry[k], stored)
          /\ \A q2 \in Callers : Spares(upload[q2], upload[q].saves[i].row.photos)
      BY <1>2, <1>6, <2>2 DEF KeptRow
    <3> QED
      BY <1>2, <1>3, <2>2, <3>1 DEF Spares
  <2> QED
    BY <2>1, <2>2
<1> QED
  BY <1>1, <1>4, <1>6 DEF KeptRow

LEMMA BeginRemembers ==
  ASSUME GuideTyped, NEW p \in Callers, NEW c, GuideBegins(p, c), mixed \subseteq mixed', NoneForgotten
  PROVE  NoneForgotten'
<1>1. entry' = entry /\ stored' = stored /\ of' = of /\ left' = left /\ upload[p].pc = "idle"
  BY DEF GuideBegins
<1>2. \A q \in Callers : upload'[q] = IF q = p THEN c ELSE upload[q]
  BY DEF GuideBegins, GuideTyped
<1>3. Names(upload[p]) = {}
  BY <1>1, CallFacts DEF Names
<1> QED
  BY <1>1, <1>2, <1>3 DEF NoneForgotten, Remembered

LEMMA BeginArranged ==
  ASSUME GuideTyped, GuideTyped', Parted', NEW p \in Callers, NEW c, GuideBegins(p, c), Ready(c),
         mixed \subseteq mixed', NEW s \in Sections \ mixed', Arranged(entry, upload, mixed, s)
  PROVE  Arranged(entry', upload', mixed', s)
<1>1. entry' = entry /\ upload[p].pc = "idle"
  BY DEF GuideBegins
<1>2. \A q \in Callers : upload'[q] = IF q = p THEN c ELSE upload[q]
  BY DEF GuideBegins, GuideTyped
<1>3. upload[p].section = None /\ s # None /\ s \in Sections /\ Keys(upload[p]) = {}
  BY <1>1, CallFacts, GuideBounds DEF Keys
<1>4. PICK I : I = Inside(entry', mixed', s)
  OBVIOUS
<1>5. I \subseteq Inside(entry, mixed, s)
  BY <1>1, <1>4 DEF Inside
<1>6. \A k : Free(upload', s, k) => Free(upload, s, k)
  BY <1>2, <1>3 DEF Free
<1>7. ASSUME NEW k \in I, NEW l \in I, k # l, Free(upload', s, k), Free(upload', s, l)
      PROVE  Apart(s, entry[k].sort, entry[l].sort)
  BY <1>5, <1>6, <1>7 DEF Arranged
<1>8. ASSUME NEW q \in Callers, upload'[q].section = s, NEW i \in DOMAIN upload'[q].saves,
             NEW l \in I \ Keys(upload'[q]), upload'[q].saves[i].key \notin mixed'
      PROVE  Apart(s, upload'[q].saves[i].row.sort, entry[l].sort)
  <2>1. CASE q # p
    BY <1>2, <1>5, <1>8, <2>1 DEF Arranged
  <2>2. CASE q = p
    <3>1. c.section = s /\ i \in DOMAIN c.saves /\ l \notin Keys(c) /\ c.saves[i].key \notin mixed'
      BY <1>2, <1>8, <2>2
    <3>2. l \in Guide!Of(s)
      BY <1>1, <1>4 DEF Inside, Guide!Of, Guide!There
    <3>3. ReadsSection(c)
      BY <1>3, <3>1 DEF Ready
    <3>4. CASE Guide!Of(s) \subseteq Keys(c)
      BY <3>1, <3>2, <3>4
    <3>5. CASE c.saves[i].key \in Guide!Of(s) /\ c.saves[i].row.sort = entry[c.saves[i].key].sort
      <4>1. PICK k : k = c.saves[i].key
        OBVIOUS
      <4>2. k \in I /\ k # l
        BY <1>1, <1>4, <3>1, <3>5, <4>1 DEF Inside, Guide!Of, Guide!There, Keys
      <4>3. \A q2 \in Callers : q2 # p => upload'[q2].section # s
        <5> SUFFICES ASSUME NEW q2 \in Callers, q2 # p PROVE upload'[q2].section # s
          OBVIOUS
        <5>1. upload'[p].section = s
          BY <1>8, <2>2
        <5>2. Guide!Together(p, q2)' \subseteq mixed'
          BY DEF Parted
        <5> QED
          BY <1>3, <5>1, <5>2 DEF Guide!Together, Guide!Holds
      <4>4. \A j : Free(upload, s, j)
        BY <1>2, <1>3, <4>3 DEF Free
      <4>5. Apart(s, entry[k].sort, entry[l].sort)
        BY <1>5, <4>2, <4>4 DEF Arranged
      <4> QED
        BY <1>2, <2>2, <3>5, <4>1, <4>5
    <3>6. CASE Apart(s, c.saves[i].row.sort, entry[l].sort)
      BY <1>2, <2>2, <3>6
    <3> QED
      BY <3>1, <3>2, <3>3, <3>4, <3>5, <3>6 DEF ReadsSection
  <2> QED
    BY <2>1, <2>2
<1> QED
  BY <1>1, <1>4, <1>7, <1>8 DEF Arranged

----------------------------------------------------------------------------
(* A file is stored, or not.                                               *)
Stores(p, f, k, c) ==
  /\ upload[p].pc = "store" /\ of[f] = None /\ k = upload[p].saves[1].key
  /\ of' = [of EXCEPT ![f] = k] /\ entry' = entry /\ upload' = [upload EXCEPT ![p] = c]
  /\ stored' \in {stored, stored \cup {f}} /\ broken' \in Nat
  /\ \/ /\ c.pc = "save" /\ f \in stored' /\ left' = left
        /\ Planned(c) /\ DOMAIN c.saves = {1} /\ c.drop = upload[p].drop /\ c.section = None
        /\ c.saves[1].key = k /\ c.saves[1].row.photos = upload[p].saves[1].row.photos \cup {f}
        /\ c.saves[1].row.section = upload[p].saves[1].row.section
        /\ c.saves[1].row.sort = upload[p].saves[1].row.sort
     \/ c = Guide!Idle /\ left' = left \cup {f}

LEMMA StoringFacts ==
  ASSUME GuideTyped, NEW p \in Callers, upload[p].pc = "store"
  PROVE  /\ DOMAIN upload[p].saves = {1} /\ upload[p].section = None
         /\ upload[p].saves[1].key \in Places
         /\ \A f \in Names(upload[p]) : of[f] = upload[p].saves[1].key
         /\ Names(upload[p]) = upload[p].saves[1].row.photos \cup upload[p].drop
<1>1. Planned(upload[p]) /\ Owned(upload[p], of)
  BY CallFacts
<1>2. upload[p].saves \in Seq(SaveOf) /\ Len(upload[p].saves) = 1 /\ upload[p].section = None
  BY <1>1 DEF Planned
<1>3. DOMAIN upload[p].saves = {1}
  BY <1>2
<1> QED
  BY <1>1, <1>2, <1>3, CallFacts DEF Owned, Names

LEMMA StoreMoves ==
  ASSUME GuideTyped, NEW p \in Callers, NEW f \in Files, Guide!Store(p, f)
  PROVE  \E k \in Places : \E c : Stores(p, f, k, c)
<1>1. /\ upload[p].pc = "store" /\ of[f] = None /\ entry' = entry
      /\ of' = [of EXCEPT ![f] = upload[p].saves[1].key]
  BY DEF Guide!Store
<1>2. PICK k \in Places : k = upload[p].saves[1].key
  BY <1>1, StoringFacts
<1>3. ASSUME broken' = broken + 1, stored' \in {stored, stored \cup {f}}, left' = left \cup {f},
             upload' = [upload EXCEPT ![p] = Guide!Idle]
      PROVE  \E c : Stores(p, f, k, c)
  <2>1. broken' \in Nat
    BY <1>3 DEF GuideTyped
  <2>2. Stores(p, f, k, Guide!Idle)
    BY <1>1, <1>2, <1>3, <2>1 DEF Stores
  <2> QED
    BY <2>2
<1>4. ASSUME UNCHANGED <<left, broken>>, stored' = stored \cup {f},
             upload' = [upload EXCEPT ![p].pc = "save", ![p].saves[1].row.photos = @ \cup {f}]
      PROVE  \E c : Stores(p, f, k, c)
  <2>1. PICK b : b = upload[p]
    OBVIOUS
  <2>2. PICK v : v = b.saves[1]
    OBVIOUS
  <2>3. PICK w : w = [v.row EXCEPT !.photos = @ \cup {f}]
    OBVIOUS
  <2>4. PICK c : c = [pc |-> "save", saves |-> Guide!One(k, w), drop |-> b.drop, section |-> b.section]
    OBVIOUS
  <2>5. /\ Planned(b) /\ Owned(b, of) /\ DOMAIN b.saves = {1} /\ b.section = None
        /\ v = [key |-> k, row |-> v.row] /\ v.row \in EntryRow /\ b.saves = <<v>>
        /\ v.row.photos \subseteq Files /\ Fitting(k, v.row) /\ v.row.is = "there"
    <3>1. Planned(b) /\ Owned(b, of) /\ DOMAIN b.saves = {1} /\ b.section = None /\ v.key = k
      BY <1>1, <1>2, <2>1, <2>2, CallFacts, StoringFacts
    <3>2. b.saves \in Seq(SaveOf) /\ Len(b.saves) = 1
      BY <1>1, <2>1, <3>1 DEF Planned
    <3>3. b.saves = <<v>> /\ v \in SaveOf
      BY <2>2, <3>1, <3>2
    <3>4. v.row.is = "there" /\ Fitting(k, v.row)
      BY <2>2, <3>1 DEF Planned
    <3> QED
      BY <3>1, <3>3, <3>4 DEF SaveOf, EntryRow
  <2>6. /\ w \in EntryRow /\ w.is = "there" /\ w.photos = v.row.photos \cup {f}
        /\ w.section = v.row.section /\ w.sort = v.row.sort
    BY <2>3, <2>5 DEF EntryRow
  <2>7. Fitting(k, w)
    <3>1. Cardinality(v.row.photos) < Allowed(k, v.row) /\ Cardinality(w.photos) <= Cardinality(v.row.photos) + 1
      <4>1. Cardinality(v.row.photos) < Allowed(k, v.row)
        BY <1>1, <1>2, <2>1, <2>2, <2>5 DEF Planned
      <4> QED
        BY <2>5, <2>6, <4>1, PhotoCounts
    <3>2. Cardinality(w.photos) \in Nat /\ Cardinality(v.row.photos) \in Nat
      <4>1. w.photos \subseteq Files
        BY <2>5, <2>6
      <4> QED
        BY <2>5, <4>1, PhotoCounts
    <3>3. Allowed(k, w) = Allowed(k, v.row) /\ Allowed(k, w) \in Nat
      BY <2>5, <2>6, GuideBounds DEF Allowed, Fitting, Places
    <3>4. Cardinality(w.photos) <= Allowed(k, w)
      BY <3>1, <3>2, <3>3
    <3> QED
      BY <2>5, <2>6, <3>4 DEF Fitting
  <2>8. upload' = [upload EXCEPT ![p] = c]
    <3>1. PICK u : u = <<[key |-> k, row |-> w]>>
      OBVIOUS
    <3>2. u = [b.saves EXCEPT ![1] = [v EXCEPT !.row = w]]
      BY <2>5, <3>1
    <3>3. b = [pc |-> b.pc, saves |-> b.saves, drop |-> b.drop, section |-> b.section]
      BY <2>5 DEF Planned
    <3>4. c = [[b EXCEPT !.pc = "save"] EXCEPT !.saves = u]
      <4>1. PICK b1 : b1 = [b EXCEPT !.pc = "save"]
        OBVIOUS
      <4>2. b1 = [pc |-> "save", saves |-> b.saves, drop |-> b.drop, section |-> b.section]
        BY <3>3, <4>1
      <4>3. [b1 EXCEPT !.saves = u] = [pc |-> "save", saves |-> u, drop |-> b.drop, section |-> b.section]
        BY <4>2
      <4>4. Guide!One(k, w) = u
        BY <3>1 DEF Guide!One
      <4> QED
        BY <2>4, <4>1, <4>3, <4>4
    <3>5. u = [b.saves EXCEPT ![1].row.photos = @ \cup {f}]
      BY <2>2, <2>3, <2>5, <3>2
    <3>6. c = [[b EXCEPT !.pc = "save"] EXCEPT !.saves[1].row.photos = @ \cup {f}]
      BY <3>3, <3>4, <3>5
    <3>7. upload = [q \in Callers |-> upload[q]]
      BY DEF GuideTyped
    <3> QED
      BY <1>4, <2>1, <3>6, <3>7
  <2>9. MayKeep(k, w, "save", b.drop, b.section)
    <3>1. w.photos \cap b.drop = {}
      <4>1. v.row.photos \cap b.drop = {}
        BY <2>2, <2>5 DEF Planned
      <4>2. f \notin b.drop
        BY <1>1, <2>5 DEF Owned
      <4> QED
        BY <2>6, <4>1, <4>2
    <3> QED
      BY <2>5, <2>6, <2>7, <3>1 DEF MayKeep, Planned
  <2>10. Planned(c) /\ DOMAIN c.saves = {1} /\ c.saves[1].key = k /\ c.saves[1].row = w
    BY <2>4, <2>9, KeepsOne
  <2>11. Stores(p, f, k, c)
    BY <1>1, <1>2, <1>4, <2>1, <2>2, <2>4, <2>5, <2>6, <2>8, <2>10 DEF Stores, GuideTyped
  <2> QED
    BY <2>11
<1> QED
  BY <1>2, <1>3, <1>4 DEF Guide!Store

LEMMA StoreTyped ==
  ASSUME GuideTyped, NEW p \in Callers, NEW f \in Files, NEW k \in Places, NEW c, Stores(p, f, k, c)
  PROVE  GuideTyped'
<1>1. /\ of[f] = None /\ of' = [of EXCEPT ![f] = k] /\ entry' = entry
      /\ stored' \subseteq stored \cup {f} /\ broken' \in Nat
      /\ upload' = [upload EXCEPT ![p] = c]
  BY DEF Stores
<1>2. of' \in [Files -> Places \cup {None}] /\ of'[f] = k /\ \A g \in Files : g # f => of'[g] = of[g]
  BY <1>1 DEF GuideTyped
<1>3. stored' \subseteq Files /\ \A g \in stored' : of'[g] # None
  BY <1>1, <1>2, GuideBounds DEF GuideTyped
<1>4. \A j \in Places : \A g \in entry[j].photos : of'[g] = j
  <2> SUFFICES ASSUME NEW j \in Places, NEW g \in entry[j].photos PROVE of'[g] = j
    OBVIOUS
  <2>1. g \in Files /\ of[g] = j /\ j # None
    BY EntryFacts, GuideBounds
  <2> QED
    BY <1>1, <1>2, <2>1
<1>5. ASSUME NEW q \in Callers PROVE Owned(upload[q], of')
  <2>1. Owned(upload[q], of) /\ Planned(upload[q])
    BY CallFacts
  <2>2. upload[q].drop \subseteq Files
    BY <2>1 DEF Planned
  <2>3. \A i \in DOMAIN upload[q].saves : upload[q].saves[i].row.photos \subseteq Files /\ upload[q].saves[i].key # None
    BY CallFacts, GuideBounds
  <2> QED
    BY <1>1, <1>2, <2>1, <2>2, <2>3 DEF Owned
<1>6. Planned(c) /\ Owned(c, of')
  <2>1. CASE c = Guide!Idle
    BY <2>1, IdleFacts
  <2>2. CASE c # Guide!Idle
    <3>1. /\ Planned(c) /\ DOMAIN c.saves = {1} /\ c.drop = upload[p].drop
          /\ c.saves[1].key = k /\ c.saves[1].row.photos = upload[p].saves[1].row.photos \cup {f}
          /\ k = upload[p].saves[1].key /\ upload[p].pc = "store"
      BY <2>2 DEF Stores
    <3>2. DOMAIN upload[p].saves = {1}
      BY <3>1, StoringFacts
    <3> QED
      BY <1>2, <1>5, <3>1, <3>2 DEF Owned
  <2> QED
    BY <2>1, <2>2
<1>7. \A q \in Callers : upload'[q] = IF q = p THEN c ELSE upload[q]
  BY <1>1 DEF GuideTyped
<1>8. \A q \in Callers : Planned(upload'[q]) /\ Owned(upload'[q], of')
  BY <1>5, <1>6, <1>7, CallFacts
<1>9. upload' = [q \in Callers |-> upload'[q]]
  BY <1>1 DEF GuideTyped
<1> QED
  BY <1>1, <1>2, <1>3, <1>4, <1>8, <1>9 DEF GuideTyped

LEMMA StoreKept ==
  ASSUME GuideTyped, NEW p \in Callers, NEW f \in Files, NEW k \in Places, NEW c, Stores(p, f, k, c),
         NEW j \in Places, KeptRow(j, entry[j], stored, upload)
  PROVE  KeptRow(j, entry'[j], stored', upload')
<1>1. /\ entry' = entry /\ stored \subseteq stored' /\ c.pc # "delete" /\ upload[p].pc = "store"
      /\ of[f] = None /\ k = upload[p].saves[1].key
  BY IdleFacts DEF Stores
<1>2. \A q \in Callers : upload'[q] = IF q = p THEN c ELSE upload[q]
  BY DEF Stores, GuideTyped
<1>3. ASSUME NEW q \in Callers, NEW P, Spares(upload[q], P) PROVE Spares(upload'[q], P)
  BY <1>1, <1>2, <1>3 DEF Spares
<1>4. ASSUME NEW q \in Callers PROVE Spares(upload'[q], {f})
  <2>1. Owned(upload[q], of)
    BY CallFacts
  <2> QED
    BY <1>1, <1>2, <2>1 DEF Spares, Owned
<1>5. ASSUME NEW q \in Callers, NEW i \in DOMAIN upload'[q].saves, upload'[q].saves[i].key = j
      PROVE  /\ Believes(upload'[q], i, entry[j], stored')
             /\ \A q2 \in Callers : Spares(upload'[q2], upload'[q].saves[i].row.photos)
  <2>1. CASE q # p
    <3>1. /\ Believes(upload[q], i, entry[j], stored)
          /\ \A q2 \in Callers : Spares(upload[q2], upload[q].saves[i].row.photos)
      BY <1>2, <1>5, <2>1 DEF KeptRow
    <3>2. Believes(upload[q], i, entry[j], stored')
      BY <1>1, <3>1 DEF Believes
    <3> QED
      BY <1>2, <1>3, <2>1, <3>1, <3>2
  <2>2. CASE q = p
    <3>1. c # Guide!Idle /\ i \in DOMAIN c.saves
      BY <1>2, <1>5, <2>2, IdleFacts
    <3>2. /\ DOMAIN c.saves = {1} /\ c.drop = upload[p].drop /\ c.pc = "save" /\ c.section = None
          /\ c.saves[1].key = k /\ c.saves[1].row.photos = upload[p].saves[1].row.photos \cup {f}
          /\ c.saves[1].row.section = upload[p].saves[1].row.section
          /\ c.saves[1].row.sort = upload[p].saves[1].row.sort /\ f \in stored'
      BY <3>1 DEF Stores
    <3>3. i = 1 /\ j = k /\ DOMAIN upload[p].saves = {1} /\ upload[p].section = None
      BY <1>1, <1>2, <1>5, <2>2, <3>1, <3>2, StoringFacts
    <3>4. /\ Believes(upload[p], 1, entry[j], stored)
          /\ \A q2 \in Callers : Spares(upload[q2], upload[p].saves[1].row.photos)
      BY <1>1, <3>3 DEF KeptRow
    <3>5. Believes(c, 1, entry[j], stored')
      BY <1>1, <3>2, <3>3, <3>4 DEF Believes
    <3>6. \A q2 \in Callers : Spares(upload'[q2], c.saves[1].row.photos)
      BY <1>3, <1>4, <3>2, <3>4 DEF Spares
    <3> QED
      BY <1>2, <2>2, <3>3, <3>5, <3>6
  <2> QED
    BY <2>1, <2>2
<1>6. \A q \in Callers : Spares(upload'[q], entry[j].photos)
  BY <1>3 DEF KeptRow
<1> QED
  BY <1>1, <1>5, <1>6 DEF KeptRow

LEMMA StoreRemembers ==
  ASSUME GuideTyped, NEW p \in Callers, NEW f \in Files, NEW k \in Places, NEW c, Stores(p, f, k, c),
         mixed \subseteq mixed', NoneForgotten, RowsKept
  PROVE  NoneForgotten'
<1>1. /\ entry' = entry /\ upload[p].pc = "store" /\ left \subseteq left' /\ stored' \subseteq stored \cup {f}
      /\ of' = [of EXCEPT ![f] = k] /\ k = upload[p].saves[1].key
      /\ c = Guide!Idle => f \in left'
  BY IdleFacts DEF Stores
<1>2. \A q \in Callers : upload'[q] = IF q = p THEN c ELSE upload[q]
  BY DEF Stores, GuideTyped
<1>3. c # Guide!Idle => Names(upload[p]) \cup {f} \subseteq Names(c)
  BY <1>1, StoringFacts DEF Stores, Names
<1> SUFFICES ASSUME NEW g \in stored' \ left', of'[g] \notin mixed'
             PROVE  Remembered(g, entry'[of'[g]], upload')
  BY DEF NoneForgotten
<1>4. CASE g = f
  BY <1>1, <1>2, <1>3, <1>4 DEF Remembered
<1>5. CASE g # f
  <2>1. g \in stored \ left /\ of'[g] = of[g]
    BY <1>1, <1>5 DEF GuideTyped
  <2>2. Remembered(g, entry[of[g]], upload) /\ of[g] \notin mixed
    BY <2>1 DEF NoneForgotten
  <2>3. CASE g \notin Names(upload[p])
    BY <1>1, <1>2, <2>1, <2>2, <2>3 DEF Remembered
  <2>4. CASE g \in Names(upload[p]) /\ c # Guide!Idle
    BY <1>2, <1>3, <2>4 DEF Remembered
  <2>5. CASE g \in Names(upload[p]) /\ c = Guide!Idle
    <3>1. of[g] = k /\ k \in Places \ mixed /\ DOMAIN upload[p].saves = {1}
      BY <1>1, <2>2, <2>5, StoringFacts
    <3>2. Believes(upload[p], 1, entry[k], stored)
      BY <1>1, <3>1 DEF RowsKept, KeptRow
    <3>3. entry[k].is = "there" /\ g \in entry[k].photos
      BY <1>1, <2>5, <3>2, StoringFacts DEF Believes
    <3> QED
      BY <1>1, <2>1, <3>1, <3>3 DEF Remembered
  <2> QED
    BY <2>3, <2>4, <2>5
<1> QED
  BY <1>4, <1>5

LEMMA StoreArranged ==
  ASSUME GuideTyped, NEW p \in Callers, NEW f \in Files, NEW k \in Places, NEW c, Stores(p, f, k, c),
         mixed \subseteq mixed', NEW s \in Sections \ mixed', Arranged(entry, upload, mixed, s)
  PROVE  Arranged(entry', upload', mixed', s)
<1>1. entry' = entry /\ upload[p].pc = "store" /\ c.section = None
  BY IdleFacts DEF Stores
<1>2. \A q \in Callers : upload'[q] = IF q = p THEN c ELSE upload[q]
  BY DEF Stores, GuideTyped
<1>3. upload[p].section = None /\ s # None
  BY <1>1, StoringFacts, GuideBounds
<1>4. Inside(entry', mixed', s) \subseteq Inside(entry, mixed, s)
  BY <1>1 DEF Inside
<1>5. \A j : Free(upload', s, j) => Free(upload, s, j)
  BY <1>1, <1>2, <1>3 DEF Free
<1>6. \A q \in Callers : upload'[q].section = s => upload'[q] = upload[q] /\ upload[q].section = s
  BY <1>1, <1>2, <1>3
<1> QED
  BY <1>1, <1>4, <1>5, <1>6 DEF Arranged

----------------------------------------------------------------------------
(* A row is saved; the call's other rows, or the file it replaced, remain. *)
Saves(p, k, w, c) ==
  LET b == upload[p] IN
  /\ b.pc = "save" /\ upload' = [upload EXCEPT ![p] = c] /\ entry' = [entry EXCEPT ![k] = w]
  /\ UNCHANGED <<stored, of, left, broken>>
  /\ 1 \in DOMAIN b.saves /\ b.saves[1].key = k /\ b.saves[1].row = w
  /\ c.pc \in {"save", "delete", "idle"} /\ c.drop = b.drop /\ Planned(c)
  /\ \A i \in DOMAIN c.saves :
       /\ i + 1 \in DOMAIN b.saves /\ i + 1 # 1 /\ c.saves[i] = b.saves[i + 1]
       /\ c.section = b.section /\ c.pc = "save"
  /\ \A i \in DOMAIN b.saves : i # 1 => i - 1 \in DOMAIN c.saves /\ c.saves[i - 1] = b.saves[i]
  /\ c.section \in {b.section, None}

LEMMA SaveMoves ==
  ASSUME GuideTyped, NEW p \in Callers, Guide!Save(p)
  PROVE  \E k \in Places : \E w, c : Saves(p, k, w, c)
<1>1. PICK b : b = upload[p]
  OBVIOUS
<1>2. Planned(b) /\ b.pc = "save" /\ b.saves \in Seq(SaveOf) /\ Len(b.saves) \in Nat /\ Len(b.saves) >= 1
  <2>1. Planned(b) /\ b.pc = "save"
    BY <1>1, CallFacts DEF Guide!Save
  <2>2. b.saves \in Seq(SaveOf)
    BY <2>1 DEF Planned
  <2> QED
    BY <2>1, <2>2 DEF Planned
<1>3. PICK q : q = b.saves
  OBVIOUS
<1>4. PICK n \in Nat : n = Len(q)
  BY <1>2, <1>3
<1>5. n >= 1 /\ DOMAIN q = 1..n /\ q \in Seq(SaveOf) /\ Head(q) = q[1] /\ 1 \in DOMAIN q
  BY <1>2, <1>3, <1>4
<1>6. PICK k, w : k = q[1].key /\ w = q[1].row
  OBVIOUS
<1>7. k \in Places
  <2>1. q[1] \in SaveOf
    BY <1>5
  <2> QED
    BY <1>6, <2>1 DEF SaveOf
<1>8. /\ entry' = [entry EXCEPT ![k] = w] /\ UNCHANGED <<stored, of, left, broken>>
      /\ upload' = [upload EXCEPT ![p] =
           IF n > 1 THEN [b EXCEPT !.saves = Tail(q)]
           ELSE IF b.drop # {} THEN [Guide!Idle EXCEPT !.pc = "delete", !.drop = b.drop]
           ELSE Guide!Idle]
  <2>1. entry' = [entry EXCEPT ![k] = w] /\ UNCHANGED <<stored, of, left, broken>>
    BY <1>1, <1>3, <1>5, <1>6 DEF Guide!Save
  <2>2. upload' = [upload EXCEPT ![p] =
           IF Len(upload[p].saves) > 1 THEN [upload[p] EXCEPT !.saves = Tail(upload[p].saves)]
           ELSE IF upload[p].drop # {} THEN [Guide!Idle EXCEPT !.pc = "delete", !.drop = upload[p].drop]
           ELSE Guide!Idle]
    BY DEF Guide!Save
  <2> QED
    BY <1>1, <1>3, <1>4, <2>1, <2>2
<1>9. b = [pc |-> b.pc, saves |-> b.saves, drop |-> b.drop, section |-> b.section]
  BY <1>2 DEF Planned
<1>10. ASSUME n > 1 PROVE \E c : Saves(p, k, w, c)
  <2>1. PICK t : t = Tail(q)
    OBVIOUS
  <2>2. PICK c : c = [b EXCEPT !.saves = t]
    OBVIOUS
  <2>3. /\ t \in Seq(SaveOf) /\ Len(t) = n - 1 /\ DOMAIN t = 1..(n - 1) /\ n - 1 >= 1
        /\ \A i \in 1..(n - 1) : t[i] = q[i + 1] /\ i + 1 \in 1..n /\ i + 1 # 1
        /\ \A i \in 1..n : i # 1 => i - 1 \in 1..(n - 1) /\ t[i - 1] = q[i]
    BY <1>5, <1>10, <2>1, <1>4
  <2>4. /\ c = [pc |-> c.pc, saves |-> c.saves, drop |-> c.drop, section |-> c.section]
        /\ c.pc = "save" /\ c.saves = t /\ c.drop = b.drop /\ c.section = b.section
    BY <1>2, <1>9, <2>2
  <2>5. \A i, j \in 1..(n - 1) : i # j => i + 1 # j + 1
    OBVIOUS
  <2>6. b.drop \subseteq Files /\ b.section \in Sections \cup {None}
    BY <1>2 DEF Planned
  <2>7. \A i \in DOMAIN c.saves :
          /\ Fitting(c.saves[i].key, c.saves[i].row) /\ c.saves[i].row.is = "there"
          /\ c.saves[i].row.photos \cap c.drop = {}
          /\ c.section # None => c.saves[i].key \in Entries /\ c.saves[i].row.section = c.section
    BY <1>2, <1>3, <1>5, <2>3, <2>4 DEF Planned
  <2>8. \A i, j \in DOMAIN c.saves : i # j =>
          /\ c.saves[i].key # c.saves[j].key /\ c.saves[i].row.sort # c.saves[j].row.sort
          /\ c.drop = {} /\ c.section # None /\ c.section \notin Singletons
    <3> SUFFICES ASSUME NEW i \in 1..(n - 1), NEW j \in 1..(n - 1), i # j
                 PROVE  /\ c.saves[i].key # c.saves[j].key /\ c.saves[i].row.sort # c.saves[j].row.sort
                        /\ c.drop = {} /\ c.section # None /\ c.section \notin Singletons
      BY <2>3, <2>4
    <3>1. i + 1 \in DOMAIN b.saves /\ j + 1 \in DOMAIN b.saves /\ i + 1 # j + 1
      BY <1>3, <1>5, <2>3, <2>5
    <3>2. c.saves[i] = b.saves[i + 1] /\ c.saves[j] = b.saves[j + 1]
      BY <1>3, <2>3, <2>4
    <3> QED
      BY <1>2, <2>4, <3>1, <3>2 DEF Planned
  <2>9. Planned(c)
    BY <2>3, <2>4, <2>6, <2>7, <2>8 DEF Planned
  <2> QED
    <3>1. upload' = [upload EXCEPT ![p] = c]
      BY <1>3, <1>8, <1>10, <2>1, <2>2
    <3>2. \A i \in DOMAIN c.saves :
            /\ i + 1 \in DOMAIN b.saves /\ i + 1 # 1 /\ c.saves[i] = b.saves[i + 1]
            /\ c.section = b.section /\ c.pc = "save"
      BY <1>3, <1>5, <2>3, <2>4
    <3>3. \A i \in DOMAIN b.saves : i # 1 => i - 1 \in DOMAIN c.saves /\ c.saves[i - 1] = b.saves[i]
      BY <1>3, <1>5, <2>3, <2>4
    <3>4. 1 \in DOMAIN b.saves /\ b.saves[1].key = k /\ b.saves[1].row = w
      BY <1>3, <1>5, <1>6
    <3> QED
      BY <1>1, <1>2, <1>8, <2>4, <2>9, <3>1, <3>2, <3>3, <3>4 DEF Saves
<1>11. ASSUME ~(n > 1), b.drop # {} PROVE \E c : Saves(p, k, w, c)
  <2>1. PICK c : c = [Guide!Idle EXCEPT !.pc = "delete", !.drop = b.drop]
    OBVIOUS
  <2>2. c = [pc |-> "delete", saves |-> <<>>, drop |-> b.drop, section |-> None]
    BY <2>1 DEF Guide!Idle
  <2>3. <<>> \in Seq(SaveOf) /\ DOMAIN <<>> = {} /\ n = 1 /\ \A i \in 1..n : i = 1
    BY <1>5, <1>11
  <2>4. b.drop \subseteq Files
    BY <1>2 DEF Planned
  <2>5. Planned(c)
    BY <2>2, <2>3, <2>4 DEF Planned
  <2> QED
    <3>1. upload' = [upload EXCEPT ![p] = c]
      BY <1>8, <1>11, <2>1
    <3>2. DOMAIN c.saves = {} /\ c.pc = "delete" /\ c.drop = b.drop /\ c.section = None
      BY <2>2, <2>3
    <3>3. \A i \in DOMAIN b.saves : i = 1
      BY <1>3, <1>5, <2>3
    <3>4. 1 \in DOMAIN b.saves /\ b.saves[1].key = k /\ b.saves[1].row = w
      BY <1>3, <1>5, <1>6
    <3> QED
      BY <1>1, <1>2, <1>8, <2>5, <3>1, <3>2, <3>3, <3>4 DEF Saves
<1>12. ASSUME ~(n > 1), b.drop = {} PROVE \E c : Saves(p, k, w, c)
  <2>1. n = 1 /\ \A i \in 1..n : i = 1
    BY <1>5, <1>12
  <2>2. Saves(p, k, w, Guide!Idle)
    BY <1>1, <1>2, <1>3, <1>5, <1>6, <1>8, <1>12, <2>1, IdleFacts DEF Saves
  <2> QED
    BY <2>2
<1> QED
  BY <1>7, <1>10, <1>11, <1>12

(* What the saver's rows and files are. *)
LEMMA SaverFacts ==
  ASSUME GuideTyped, NEW p \in Callers, NEW k \in Places, NEW w, NEW c, Saves(p, k, w, c)
  PROVE  /\ Fitting(k, w) /\ w.is = "there" /\ w.photos \subseteq Files
         /\ \A f \in w.photos \cup c.drop : of[f] = k
         /\ \A f \in c.drop : of[f] # None
         /\ w.photos \cap c.drop = {} /\ k \notin Keys(c) /\ Keys(upload[p]) = Keys(c) \cup {k}
         /\ Names(upload[p]) = Names(c) \cup w.photos
<1>1. /\ upload[p].pc = "save" /\ 1 \in DOMAIN upload[p].saves /\ upload[p].saves[1].key = k
      /\ upload[p].saves[1].row = w /\ c.drop = upload[p].drop
      /\ \A i \in DOMAIN c.saves :
           i + 1 \in DOMAIN upload[p].saves /\ i + 1 # 1 /\ c.saves[i] = upload[p].saves[i + 1]
      /\ \A i \in DOMAIN upload[p].saves :
           i # 1 => i - 1 \in DOMAIN c.saves /\ c.saves[i - 1] = upload[p].saves[i]
  BY DEF Saves
<1>2. Planned(upload[p]) /\ Owned(upload[p], of)
  BY CallFacts
<1>3. Fitting(k, w) /\ w.is = "there" /\ w.photos \subseteq Files /\ w.photos \cap c.drop = {}
  BY <1>1, <1>2, CallFacts DEF Planned
<1>4. (\A f \in w.photos \cup c.drop : of[f] = k) /\ \A f \in c.drop : of[f] # None
  BY <1>1, <1>2 DEF Owned
<1>5. k \notin Keys(c)
  BY <1>1, <1>2 DEF Keys, Planned
<1>6. Keys(upload[p]) = Keys(c) \cup {k}
  <2>1. ASSUME NEW i \in DOMAIN upload[p].saves PROVE upload[p].saves[i].key \in Keys(c) \cup {k}
    BY <1>1 DEF Keys
  <2>2. \A i \in DOMAIN c.saves : c.saves[i].key \in Keys(upload[p])
    BY <1>1 DEF Keys
  <2>3. k \in Keys(upload[p])
    BY <1>1 DEF Keys
  <2> QED
    BY <2>1, <2>2, <2>3 DEF Keys
<1>7. Names(upload[p]) = Names(c) \cup w.photos
  <2>1. ASSUME NEW i \in DOMAIN upload[p].saves
        PROVE  upload[p].saves[i].row.photos \subseteq Names(c) \cup w.photos
    BY <1>1 DEF Names
  <2>2. ASSUME NEW i \in DOMAIN c.saves PROVE c.saves[i].row.photos \subseteq Names(upload[p])
    BY <1>1 DEF Names
  <2>3. w.photos \subseteq Names(upload[p])
    BY <1>1 DEF Names
  <2>4. upload[p].drop = c.drop
    BY <1>1
  <2> QED
    BY <2>1, <2>2, <2>3, <2>4 DEF Names
<1> QED
  BY <1>3, <1>4, <1>5, <1>6, <1>7

LEMMA SaveTyped ==
  ASSUME GuideTyped, NEW p \in Callers, NEW k \in Places, NEW w, NEW c, Saves(p, k, w, c)
  PROVE  GuideTyped'
<1>1. /\ entry' = [entry EXCEPT ![k] = w] /\ UNCHANGED <<stored, of, left, broken>>
      /\ upload' = [upload EXCEPT ![p] = c] /\ Planned(c)
  BY DEF Saves
<1>2. Owned(c, of)
  <2>1. \A i \in DOMAIN c.saves :
          \E j \in DOMAIN upload[p].saves : c.saves[i] = upload[p].saves[j]
    BY DEF Saves
  <2>2. Owned(upload[p], of) /\ c.drop = upload[p].drop
    BY CallFacts DEF Saves
  <2> QED
    BY <2>1, <2>2 DEF Owned
<1>3. \A j \in Places : entry'[j] = IF j = k THEN w ELSE entry[j]
  BY <1>1 DEF GuideTyped
<1>4. /\ upload' = [q \in Callers |-> upload'[q]]
      /\ \A q \in Callers : Planned(upload'[q]) /\ Owned(upload'[q], of')
  BY <1>1, <1>2, TypedCalls
<1>5. \A j \in Places : Fitting(j, entry'[j]) /\ \A f \in entry'[j].photos : of'[f] = j
  BY <1>1, <1>3, SaverFacts, EntryFacts
<1>6. entry' = [j \in Places |-> entry'[j]]
  BY <1>1 DEF GuideTyped
<1> QED
  BY <1>1, <1>4, <1>5, <1>6 DEF GuideTyped

LEMMA SaveKept ==
  ASSUME GuideTyped, Parted, NEW p \in Callers, NEW k \in Places, NEW w, NEW c, Saves(p, k, w, c),
         NEW j \in Places \ mixed, KeptRow(j, entry[j], stored, upload)
  PROVE  KeptRow(j, entry'[j], stored', upload')
<1>1. /\ stored' = stored /\ upload[p].pc = "save" /\ c.drop = upload[p].drop
      /\ c.pc = "delete" => DOMAIN c.saves = {}
  BY DEF Saves
<1>2. \A q \in Callers : upload'[q] = IF q = p THEN c ELSE upload[q]
  BY DEF Saves, GuideTyped
<1>3. entry'[j] = IF j = k THEN w ELSE entry[j]
  BY DEF Saves, GuideTyped
<1>4. ASSUME NEW P, \A f \in P : of[f] = j, \A q \in Callers : Spares(upload[q], P), j # k \/ P = w.photos
      PROVE  \A q \in Callers : Spares(upload'[q], P)
  <2>1. c.drop \cap P = {}
    BY <1>4, SaverFacts
  <2> QED
    BY <1>2, <1>4, <2>1 DEF Spares
<1>5. ASSUME j # k, NEW q \in Callers, NEW i \in DOMAIN upload'[q].saves, upload'[q].saves[i].key = j
      PROVE  /\ Believes(upload'[q], i, entry[j], stored)
             /\ \A q2 \in Callers : Spares(upload'[q2], upload'[q].saves[i].row.photos)
  <2>1. PICK h \in DOMAIN upload[q].saves :
          /\ upload[q].saves[h] = upload'[q].saves[i]
          /\ upload'[q].drop = upload[q].drop /\ upload'[q].section = upload[q].section
          /\ upload'[q].pc = upload[q].pc
    <3>1. CASE q = p
      BY <1>1, <1>2, <1>5, <3>1 DEF Saves
    <3>2. CASE q # p
      BY <1>2, <1>5, <3>2
    <3> QED
      BY <3>1, <3>2
  <2>2. /\ Believes(upload[q], h, entry[j], stored)
        /\ \A q2 \in Callers : Spares(upload[q2], upload[q].saves[h].row.photos)
    BY <1>5, <2>1 DEF KeptRow
  <2>3. Believes(upload'[q], i, entry[j], stored)
    BY <2>1, <2>2 DEF Believes
  <2>4. \A f \in upload[q].saves[h].row.photos : of[f] = j
    BY <1>5, <2>1, CallFacts
  <2>5. \A q2 \in Callers : Spares(upload'[q2], upload[q].saves[h].row.photos)
    BY <1>4, <1>5, <2>2, <2>4
  <2> QED
    BY <2>1, <2>3, <2>5
<1>6. CASE j # k
  <2>1. \A f \in entry[j].photos : of[f] = j
    BY EntryFacts
  <2>2. \A q \in Callers : Spares(upload[q], entry[j].photos)
    BY DEF KeptRow
  <2>3. \A q \in Callers : Spares(upload'[q], entry[j].photos)
    BY <1>4, <1>6, <2>1, <2>2
  <2> QED
    BY <1>1, <1>3, <1>5, <1>6, <2>3 DEF KeptRow
<1>7. CASE j = k
  <2>1. \A q \in Callers : q # p => k \notin Keys(upload[q])
    <3> SUFFICES ASSUME NEW q \in Callers, q # p PROVE k \notin Keys(upload[q])
      OBVIOUS
    <3>1. k \in Keys(upload[p])
      BY SaverFacts
    <3> QED
      BY <1>7, <3>1, OneCaller
  <2>2. \A q \in Callers : k \notin Keys(upload'[q])
    BY <1>2, <2>1, SaverFacts
  <2>3. /\ w.photos \subseteq stored /\ \A q \in Callers : Spares(upload[q], w.photos)
    <3>1. 1 \in DOMAIN upload[p].saves /\ upload[p].saves[1].key = j /\ upload[p].saves[1].row = w
      BY <1>7 DEF Saves
    <3> QED
      BY <3>1 DEF KeptRow, Believes
  <2>4. \A q \in Callers : Spares(upload'[q], w.photos)
    <3>1. \A f \in w.photos : of[f] = j
      BY <1>7, SaverFacts
    <3> QED
      BY <1>4, <2>3, <3>1
  <2>5. \A q \in Callers : \A i \in DOMAIN upload'[q].saves : upload'[q].saves[i].key # j
    BY <1>7, <2>2 DEF Keys
  <2>6. entry'[j] = w /\ w.is = "there"
    BY <1>3, <1>7, SaverFacts
  <2> QED
    BY <1>1, <2>3, <2>4, <2>5, <2>6 DEF KeptRow
<1> QED
  BY <1>6, <1>7

LEMMA SaveRemembers ==
  ASSUME GuideTyped, NEW p \in Callers, NEW k \in Places, NEW w, NEW c, Saves(p, k, w, c),
         mixed \subseteq mixed', NoneForgotten, RowsKept
  PROVE  NoneForgotten'
<1>1. /\ stored' = stored /\ left' = left /\ of' = of /\ upload[p].pc = "save"
      /\ 1 \in DOMAIN upload[p].saves /\ upload[p].saves[1].key = k /\ upload[p].saves[1].row = w
      /\ c.drop = upload[p].drop
  BY DEF Saves
<1>2. \A q \in Callers : upload'[q] = IF q = p THEN c ELSE upload[q]
  BY DEF Saves, GuideTyped
<1>3. entry'[k] = w /\ \A j : j # k => entry'[j] = entry[j]
  BY DEF Saves, GuideTyped
<1>4. w.is = "there" /\ Names(upload[p]) = Names(c) \cup w.photos /\ \A f \in w.photos : of[f] = k
  BY SaverFacts
<1> SUFFICES ASSUME NEW g \in stored \ left, of[g] \notin mixed
             PROVE  Remembered(g, entry'[of[g]], upload')
  BY <1>1 DEF NoneForgotten
<1>5. Remembered(g, entry[of[g]], upload)
  BY DEF NoneForgotten
<1>6. ASSUME NEW q \in Callers, g \in Names(upload[q]) PROVE Remembered(g, entry'[of[g]], upload')
  BY <1>2, <1>3, <1>4, <1>6 DEF Remembered
<1>7. ASSUME entry[of[g]].is = "there", g \in entry[of[g]].photos
      PROVE  Remembered(g, entry'[of[g]], upload')
  <2>1. CASE of[g] # k
    BY <1>3, <1>7, <2>1 DEF Remembered
  <2>2. CASE of[g] = k
    <3>1. Believes(upload[p], 1, entry[k], stored)
      BY <1>1, <2>2 DEF RowsKept, KeptRow
    <3>2. g \in w.photos \/ g \in c.drop
      BY <1>1, <1>7, <2>2, <3>1 DEF Believes
    <3>3. g \in c.drop => g \in Names(c)
      BY DEF Names
    <3> QED
      BY <1>2, <1>3, <1>4, <2>2, <3>2, <3>3 DEF Remembered
  <2> QED
    BY <2>1, <2>2
<1> QED
  BY <1>5, <1>6, <1>7 DEF Remembered

LEMMA ApartEither == \A s, m, n : Apart(s, m, n) => Apart(s, n, m)
BY DEF Apart

LEMMA SaveArranged ==
  ASSUME GuideTyped, Parted, RowsKept, NEW p \in Callers, NEW k \in Places, NEW w, NEW c,
         Saves(p, k, w, c), mixed \subseteq mixed',
         NEW s \in Sections \ mixed', Arranged(entry, upload, mixed, s)
  PROVE  Arranged(entry', upload', mixed', s)
<1>0. s \in Sections \ mixed /\ s # None
  BY GuideBounds
<1>1. /\ upload[p].pc = "save" /\ c.section \in {upload[p].section, None}
      /\ 1 \in DOMAIN upload[p].saves /\ upload[p].saves[1].key = k /\ upload[p].saves[1].row = w
      /\ Planned(upload[p])
  BY CallFacts DEF Saves
<1>2. \A q \in Callers : upload'[q] = IF q = p THEN c ELSE upload[q]
  BY DEF Saves, GuideTyped
<1>3. entry'[k] = w /\ \A j : j # k => entry'[j] = entry[j]
  BY DEF Saves, GuideTyped
<1>4. Keys(upload[p]) = Keys(c) \cup {k} /\ k \notin Keys(c) /\ w.is = "there"
  BY SaverFacts
<1>5. PICK I : I = Inside(entry', mixed', s)
  OBVIOUS
<1>6. \A j \in I : j # k => j \in Inside(entry, mixed, s) /\ entry'[j] = entry[j]
  BY <1>3, <1>5 DEF Inside
<1>7. \A q \in Callers : q # p => upload[p].section # s \/ upload[q].section # s
  BY <1>0, OneCaller
\* A row outside `mixed` that another section's saver, or none's, puts there was there.
<1>8. ASSUME upload[p].section # s, k \in I
      PROVE  k \in Inside(entry, mixed, s) /\ entry'[k].sort = entry[k].sort
  <2>1. k \in Places \ mixed /\ k \in Entries /\ w.section = s
    BY <1>3, <1>5, <1>8 DEF Inside
  <2>2. Believes(upload[p], 1, entry[k], stored)
    BY <1>1, <2>1 DEF RowsKept, KeptRow
  <2>3. upload[p].section = None
    BY <1>1, <1>8, <2>1 DEF Planned
  <2>4. entry[k].is = "there" /\ w.section = entry[k].section /\ w.sort = entry[k].sort
    BY <1>1, <2>2, <2>3 DEF Believes
  <2> QED
    BY <1>3, <2>1, <2>4 DEF Inside
<1>9. ASSUME NEW j \in I, NEW l \in I, j # l, Free(upload', s, j), Free(upload', s, l)
      PROVE  Apart(s, entry'[j].sort, entry'[l].sort)
  <2>1. CASE upload[p].section # s
    <3>1. \A i : Free(upload', s, i) => Free(upload, s, i)
      BY <1>2, <2>1 DEF Free
    <3>2. \A i \in I : i \in Inside(entry, mixed, s) /\ entry'[i].sort = entry[i].sort
      BY <1>6, <1>8, <2>1
    <3> QED
      BY <1>9, <3>1, <3>2 DEF Arranged
  <2>2. CASE upload[p].section = s
    <3>1. c.section = s \/ Keys(c) = {}
      BY <2>2 DEF Saves, Keys
    <3>2. \A i : Free(upload', s, i) => i \notin Keys(c)
      BY <1>2, <3>1 DEF Free
    <3>3. \A i : i \notin Keys(upload[p]) => Free(upload, s, i)
      BY <1>7, <2>2 DEF Free
    <3>4. j # k => j \in Inside(entry, mixed, s) /\ entry'[j] = entry[j] /\ j \notin Keys(upload[p])
      BY <1>4, <1>6, <1>9, <3>2
    <3>5. l # k => l \in Inside(entry, mixed, s) /\ entry'[l] = entry[l] /\ l \notin Keys(upload[p])
      BY <1>4, <1>6, <1>9, <3>2
    <3>6. k \in I => k \notin mixed
      BY <1>5 DEF Inside
    <3>7. k \in I => \A i \in Inside(entry, mixed, s) \ Keys(upload[p]) : Apart(s, w.sort, entry[i].sort)
      BY <1>1, <2>2, <3>6 DEF Arranged
    <3>8. CASE j # k /\ l # k
      BY <1>9, <3>3, <3>4, <3>5, <3>8 DEF Arranged
    <3>9. CASE j = k
      BY <1>3, <1>9, <3>5, <3>7, <3>9
    <3>10. CASE l = k
      <4>1. Apart(s, w.sort, entry[j].sort)
        BY <1>9, <3>4, <3>7, <3>10
      <4> QED
        BY <1>3, <1>9, <3>4, <3>10, <4>1, ApartEither
    <3> QED
      BY <3>8, <3>9, <3>10
  <2> QED
    BY <2>1, <2>2
<1>10. ASSUME NEW q \in Callers, upload'[q].section = s, NEW i \in DOMAIN upload'[q].saves,
              NEW l \in I \ Keys(upload'[q]), upload'[q].saves[i].key \notin mixed'
       PROVE  Apart(s, upload'[q].saves[i].row.sort, entry'[l].sort)
  <2>1. CASE q # p
    <3>1. upload'[q] = upload[q] /\ upload[p].section # s
      BY <1>2, <1>7, <1>10, <2>1
    <3>2. l \in Inside(entry, mixed, s) /\ entry'[l].sort = entry[l].sort
      BY <1>6, <1>8, <3>1
    <3> QED
      BY <1>10, <3>1, <3>2 DEF Arranged
  <2>2. CASE q = p
    <3>1. c.section = s /\ i \in DOMAIN c.saves /\ l \notin Keys(c) /\ c.saves[i].key \notin mixed
      BY <1>2, <1>10, <2>2
    <3>2. /\ upload[p].section = s /\ i + 1 \in DOMAIN upload[p].saves /\ i + 1 # 1
          /\ c.saves[i] = upload[p].saves[i + 1]
      BY <1>0, <1>1, <3>1 DEF Saves
    <3>3. CASE l = k
      <4>1. Apart(s, upload[p].saves[i + 1].row.sort, w.sort)
        BY <1>1, <3>2 DEF Planned, Apart
      <4> QED
        BY <1>2, <1>3, <2>2, <3>2, <3>3, <4>1
    <3>4. CASE l # k
      <4>1. l \in Inside(entry, mixed, s) \ Keys(upload[p]) /\ entry'[l] = entry[l]
        BY <1>4, <1>6, <3>1, <3>4
      <4>2. Apart(s, upload[p].saves[i + 1].row.sort, entry[l].sort)
        BY <3>1, <3>2, <4>1 DEF Arranged
      <4> QED
        BY <1>2, <2>2, <3>2, <4>1, <4>2
    <3> QED
      BY <3>3, <3>4
  <2> QED
    BY <2>1, <2>2
<1> QED
  BY <1>5, <1>9, <1>10 DEF Arranged

----------------------------------------------------------------------------
(* A call ends without saving: its entry is removed, its file deleted, or  *)
(* it was cut off.                                                         *)
Ends(p) == upload' = [upload EXCEPT ![p] = Guide!Idle] /\ of' = of

LEMMA EndTyped ==
  ASSUME GuideTyped, NEW p \in Callers, Ends(p)
  PROVE  /\ upload' = [q \in Callers |-> upload'[q]]
         /\ \A q \in Callers : Planned(upload'[q]) /\ Owned(upload'[q], of')
         /\ \A q \in Callers : upload'[q] = IF q = p THEN Guide!Idle ELSE upload[q]
<1>1. /\ upload' = [q \in Callers |-> upload'[q]]
      /\ \A q \in Callers : Planned(upload'[q]) /\ Owned(upload'[q], of')
  BY TypedCalls, IdleFacts DEF Ends
<1>2. \A q \in Callers : upload'[q] = IF q = p THEN Guide!Idle ELSE upload[q]
  BY DEF Ends, GuideTyped
<1> QED
  BY <1>1, <1>2

LEMMA EndKept ==
  ASSUME GuideTyped, NEW p \in Callers, Ends(p), entry' = entry, NEW j \in Places,
         KeptRow(j, entry[j], stored, upload),
         \/ stored' = stored
         \/ upload[p].pc = "delete" /\ stored' = stored \ upload[p].drop
  PROVE  KeptRow(j, entry'[j], stored', upload')
<1>1. \A q \in Callers : upload'[q] = IF q = p THEN Guide!Idle ELSE upload[q]
  BY EndTyped
<1>2. ASSUME NEW P, Spares(upload[p], P), P \subseteq stored PROVE P \subseteq stored'
  BY <1>2 DEF Spares
<1>3. ASSUME NEW q \in Callers, NEW P, Spares(upload[q], P) PROVE Spares(upload'[q], P)
  BY <1>1, <1>3, IdleFacts DEF Spares
<1>4. ASSUME NEW q \in Callers, NEW i \in DOMAIN upload'[q].saves, upload'[q].saves[i].key = j
      PROVE  /\ Believes(upload'[q], i, entry[j], stored')
             /\ \A q2 \in Callers : Spares(upload'[q2], upload'[q].saves[i].row.photos)
  <2>1. q # p /\ upload'[q] = upload[q]
    BY <1>1, <1>4, IdleFacts
  <2>2. /\ Believes(upload[q], i, entry[j], stored)
        /\ \A q2 \in Callers : Spares(upload[q2], upload[q].saves[i].row.photos)
    BY <1>4, <2>1 DEF KeptRow
  <2>3. upload[q].saves[i].row.photos \subseteq stored'
    BY <1>2, <2>2 DEF Believes
  <2>4. Believes(upload[q], i, entry[j], stored')
    BY <2>2, <2>3 DEF Believes
  <2> QED
    BY <1>3, <2>1, <2>2, <2>4
<1>5. entry[j].is = "there" => entry[j].photos \subseteq stored'
  BY <1>2 DEF KeptRow
<1>6. \A q \in Callers : Spares(upload'[q], entry[j].photos)
  BY <1>3 DEF KeptRow
<1> QED
  BY <1>4, <1>5, <1>6 DEF KeptRow

(* ... no section is disturbed that nobody was changing.                   *)
LEMMA EndArranged ==
  ASSUME GuideTyped, NEW p \in Callers, Ends(p), mixed \subseteq mixed', NEW s \in Sections \ mixed',
         \A j \in Inside(entry', mixed', s) : j \in Inside(entry, mixed, s) /\ entry'[j] = entry[j],
         upload[p].section = s => \A j \in Inside(entry', mixed', s) : j \notin Keys(upload[p]),
         Arranged(entry, upload, mixed, s)
  PROVE  Arranged(entry', upload', mixed', s)
<1>1. \A q \in Callers : upload'[q] = IF q = p THEN Guide!Idle ELSE upload[q]
  BY EndTyped
<1>2. \A j \in Inside(entry', mixed', s) : Free(upload', s, j) => Free(upload, s, j)
  BY <1>1 DEF Free
<1>3. \A q \in Callers : upload'[q].section = s => upload'[q] = upload[q] /\ upload[q].section = s
  BY <1>1, IdleFacts, GuideBounds
<1> QED
  BY <1>2, <1>3 DEF Arranged

LEMMA RemoveKeeps ==
  ASSUME GuideInv, NEW p \in Callers, Guide!RemoveEntry(p), Guide!Watch
  PROVE  GuideInv'
<1>1. GuideTyped /\ Parted /\ RowsKept /\ NoneForgotten /\ mixed \subseteq mixed' /\ Parted'
  BY GuideWatched DEF GuideInv
<1>2. PICK k : k = upload[p].saves[1].key
  OBVIOUS
<1>3. /\ upload[p].pc = "remove" /\ Ends(p) /\ UNCHANGED <<stored, of, left, broken>>
      /\ entry' = [entry EXCEPT ![k].is = "gone"]
  BY <1>2 DEF Guide!RemoveEntry, Ends
<1>4. Planned(upload[p]) /\ Owned(upload[p], of)
  BY <1>1, CallFacts
<1>5. DOMAIN upload[p].saves = {1} /\ upload[p].saves[1].row.photos = {} /\ upload[p].drop = {}
  <2>1. upload[p].saves \in Seq(SaveOf) /\ Len(upload[p].saves) = 1
    BY <1>3, <1>4 DEF Planned
  <2>2. DOMAIN upload[p].saves = {1}
    BY <2>1
  <2> QED
    BY <1>3, <1>4, <2>2 DEF Planned
<1>6. k \in Places /\ Keys(upload[p]) = {k} /\ Names(upload[p]) = {}
  BY <1>1, <1>2, <1>5, CallFacts DEF Keys, Names
<1>7. PICK r : r = [entry[k] EXCEPT !.is = "gone"]
  OBVIOUS
<1>8. r \in EntryRow /\ r.is = "gone" /\ r.photos = entry[k].photos
  BY <1>1, <1>6, <1>7, EntryFacts DEF EntryRow
<1>9. entry'[k] = r /\ (\A j : j # k => entry'[j] = entry[j]) /\ entry' = [j \in Places |-> entry'[j]]
  BY <1>1, <1>3, <1>6, <1>7 DEF GuideTyped
<1>10. \A q \in Callers : upload'[q] = IF q = p THEN Guide!Idle ELSE upload[q]
  BY <1>1, <1>3, EndTyped
<1>11. GuideTyped'
  <2>1. \A j \in Places : Fitting(j, entry'[j]) /\ \A f \in entry'[j].photos : of[f] = j
    BY <1>1, <1>8, <1>9, EntryFacts DEF Fitting
  <2>2. /\ upload' = [q \in Callers |-> upload'[q]]
        /\ \A q \in Callers : Planned(upload'[q]) /\ Owned(upload'[q], of')
    BY <1>1, <1>3, EndTyped
  <2> QED
    BY <1>1, <1>3, <1>9, <2>1, <2>2 DEF GuideTyped
<1>12. k \notin mixed => entry[k].photos = {}
  <2> SUFFICES ASSUME k \notin mixed PROVE entry[k].photos = {}
    OBVIOUS
  <2>1. KeptRow(k, entry[k], stored, upload)
    BY <1>1, <1>6 DEF RowsKept
  <2>2. Believes(upload[p], 1, entry[k], stored)
    BY <1>2, <1>5, <2>1 DEF KeptRow
  <2> QED
    BY <1>5, <2>1, <2>2 DEF KeptRow, Believes
<1>13. RowsKept'
  <2> SUFFICES ASSUME NEW j \in Places \ mixed' PROVE KeptRow(j, entry'[j], stored', upload')
    BY DEF RowsKept
  <2>1. KeptRow(j, entry[j], stored, upload)
    BY <1>1 DEF RowsKept
  <2>2. CASE j # k
    <3>1. ASSUME NEW q \in Callers, NEW P, Spares(upload[q], P) PROVE Spares(upload'[q], P)
      BY <1>10, <3>1, IdleFacts DEF Spares
    <3>2. \A q \in Callers : \A i \in DOMAIN upload'[q].saves : upload'[q] = upload[q] /\ i \in DOMAIN upload[q].saves
      BY <1>10, IdleFacts
    <3>3. \A q \in Callers : Spares(upload'[q], entry[j].photos)
      BY <2>1, <3>1 DEF KeptRow
    <3>4. ASSUME NEW q \in Callers, NEW i \in DOMAIN upload'[q].saves, upload'[q].saves[i].key = j
          PROVE  /\ Believes(upload'[q], i, entry[j], stored)
                 /\ \A q2 \in Callers : Spares(upload'[q2], upload'[q].saves[i].row.photos)
      BY <2>1, <3>1, <3>2, <3>4 DEF KeptRow
    <3> QED
      BY <1>3, <1>9, <2>1, <2>2, <3>3, <3>4 DEF KeptRow
  <2>3. CASE j = k
    <3>1. \A q \in Callers : \A i \in DOMAIN upload'[q].saves : upload'[q].saves[i].key # k
      <4> SUFFICES ASSUME NEW q \in Callers, NEW i \in DOMAIN upload'[q].saves, upload'[q].saves[i].key = k
                   PROVE  FALSE
        OBVIOUS
      <4>1. q # p /\ upload'[q] = upload[q]
        BY <1>10, IdleFacts
      <4>2. k \in Keys(upload[q]) /\ k \in Keys(upload[p]) /\ k \in Places \ mixed
        BY <1>1, <1>6, <2>3, <4>1 DEF Keys
      <4> QED
        BY <1>1, <4>1, <4>2, OneCaller
    <3>2. r.photos = {}
      BY <1>1, <1>8, <1>12, <2>3
    <3> QED
      BY <1>8, <1>9, <2>3, <3>1, <3>2 DEF KeptRow, Spares
  <2> QED
    BY <2>2, <2>3
<1>14. NoneForgotten'
  <2> SUFFICES ASSUME NEW g \in stored \ left, of[g] \notin mixed' PROVE Remembered(g, entry'[of[g]], upload')
    BY <1>3 DEF NoneForgotten
  <2>1. Remembered(g, entry[of[g]], upload) /\ of[g] \notin mixed
    BY <1>1 DEF NoneForgotten
  <2>2. of[g] = k => g \notin entry[of[g]].photos
    BY <1>12, <2>1
  <2> QED
    BY <1>6, <1>9, <1>10, <2>1, <2>2 DEF Remembered
<1>15. ASSUME NEW s \in Sections \ mixed' PROVE Arranged(entry', upload', mixed', s)
  <2>1. Arranged(entry, upload, mixed, s)
    BY <1>1 DEF GuideInv
  <2>2. \A j \in Inside(entry', mixed', s) : j # k /\ j \in Inside(entry, mixed, s) /\ entry'[j] = entry[j]
    BY <1>1, <1>8, <1>9 DEF Inside
  <2> QED
    BY <1>1, <1>3, <1>6, <2>1, <2>2, EndArranged
<1> QED
  BY <1>1, <1>11, <1>13, <1>14, <1>15 DEF GuideInv

LEMMA DeleteKeeps ==
  ASSUME GuideInv, NEW p \in Callers, Guide!Delete(p), Guide!Watch
  PROVE  GuideInv'
<1>1. GuideTyped /\ Parted /\ RowsKept /\ NoneForgotten /\ mixed \subseteq mixed' /\ Parted'
  BY GuideWatched DEF GuideInv
<1>2. /\ upload[p].pc = "delete" /\ Ends(p) /\ entry' = entry /\ of' = of
      /\ \/ stored' = stored \ upload[p].drop /\ left' = left /\ broken' = broken
         \/ stored' = stored /\ left' = left \cup upload[p].drop /\ broken' = broken + 1
  BY DEF Guide!Delete, Ends
<1>3. \A q \in Callers : upload'[q] = IF q = p THEN Guide!Idle ELSE upload[q]
  BY <1>1, <1>2, EndTyped
<1>4. Names(upload[p]) = upload[p].drop /\ Keys(upload[p]) = {}
  <2>1. upload[p].saves = <<>>
    BY <1>1, <1>2, CallFacts DEF Planned
  <2>2. DOMAIN upload[p].saves = {}
    BY <2>1
  <2> QED
    BY <2>2 DEF Names, Keys
<1>5. GuideTyped'
  <2>1. /\ upload' = [q \in Callers |-> upload'[q]]
        /\ \A q \in Callers : Planned(upload'[q]) /\ Owned(upload'[q], of')
    BY <1>1, <1>2, EndTyped
  <2>2. broken' \in Nat /\ stored' \subseteq stored
    BY <1>1, <1>2 DEF GuideTyped
  <2> QED
    BY <1>1, <1>2, <2>1, <2>2 DEF GuideTyped
<1>6. RowsKept'
  BY <1>1, <1>2, EndKept DEF RowsKept
<1>7. NoneForgotten'
  <2> SUFFICES ASSUME NEW g \in stored' \ left', of[g] \notin mixed' PROVE Remembered(g, entry[of[g]], upload')
    BY <1>2 DEF NoneForgotten
  <2>1. g \in stored \ left /\ g \notin upload[p].drop
    BY <1>2
  <2>2. Remembered(g, entry[of[g]], upload)
    BY <1>1, <2>1 DEF NoneForgotten
  <2> QED
    BY <1>3, <1>4, <2>1, <2>2 DEF Remembered
<1>8. ASSUME NEW s \in Sections \ mixed' PROVE Arranged(entry', upload', mixed', s)
  <2>1. Arranged(entry, upload, mixed, s)
    BY <1>1 DEF GuideInv
  <2>2. \A j \in Inside(entry', mixed', s) : j \in Inside(entry, mixed, s) /\ entry'[j] = entry[j]
    BY <1>1, <1>2 DEF Inside
  <2> QED
    BY <1>1, <1>2, <1>4, <2>1, <2>2, EndArranged
<1> QED
  BY <1>1, <1>5, <1>6, <1>7, <1>8 DEF GuideInv

LEMMA CrashKeeps ==
  ASSUME GuideInv, NEW p \in Callers, Guide!Crash(p), Guide!Watch
  PROVE  GuideInv'
<1>1. /\ GuideTyped /\ Parted /\ RowsKept /\ NoneForgotten /\ mixed \subseteq mixed' /\ Parted'
      /\ Len(upload[p].saves) > 0 /\ broken' # broken /\ upload'[p].pc = "idle" => upload[p].section \in mixed'
  BY GuideWatched DEF GuideInv
<1>2. /\ Ends(p) /\ entry' = entry /\ of' = of /\ stored' = stored /\ broken' = broken + 1
      /\ left' = left \cup {f \in Guide!Named(p) : \A k \in Places : f \notin entry[k].photos}
  BY GuideBounds DEF Guide!Crash, Ends
<1>3. \A q \in Callers : upload'[q] = IF q = p THEN Guide!Idle ELSE upload[q]
  BY <1>1, <1>2, EndTyped
<1>4. Guide!Named(p) = Names(upload[p])
  BY DEF Guide!Named, Names
<1>5. GuideTyped'
  <2>1. /\ upload' = [q \in Callers |-> upload'[q]]
        /\ \A q \in Callers : Planned(upload'[q]) /\ Owned(upload'[q], of')
    BY <1>1, <1>2, EndTyped
  <2>2. broken' \in Nat
    BY <1>1, <1>2 DEF GuideTyped
  <2> QED
    BY <1>1, <1>2, <2>1, <2>2 DEF GuideTyped
<1>6. RowsKept'
  BY <1>1, <1>2, EndKept DEF RowsKept
<1>7. NoneForgotten'
  <2> SUFFICES ASSUME NEW g \in stored \ left', of[g] \notin mixed' PROVE Remembered(g, entry[of[g]], upload')
    BY <1>2 DEF NoneForgotten
  <2>1. Remembered(g, entry[of[g]], upload) /\ of[g] \notin mixed
    BY <1>1, <1>2 DEF NoneForgotten
  <2>2. CASE g \notin Names(upload[p])
    BY <1>3, <2>1, <2>2 DEF Remembered
  <2>3. CASE g \in Names(upload[p])
    <3>1. PICK k \in Places : g \in entry[k].photos
      BY <1>2, <1>4, <2>3
    <3>2. of[g] = k
      BY <1>1, <3>1, EntryFacts
    <3>3. entry[k].is = "there"
      BY <1>1, <2>1, <3>1, <3>2 DEF RowsKept, KeptRow
    <3> QED
      BY <3>1, <3>2, <3>3 DEF Remembered
  <2> QED
    BY <2>2, <2>3
<1>8. ASSUME NEW s \in Sections \ mixed' PROVE Arranged(entry', upload', mixed', s)
  <2>1. Arranged(entry, upload, mixed, s)
    BY <1>1 DEF GuideInv
  <2>2. \A j \in Inside(entry', mixed', s) : j \in Inside(entry, mixed, s) /\ entry'[j] = entry[j]
    BY <1>1, <1>2 DEF Inside
  <2>3. upload[p].section = s => Keys(upload[p]) = {}
    <3> SUFFICES ASSUME upload[p].section = s PROVE Keys(upload[p]) = {}
      OBVIOUS
    <3>1. broken' # broken /\ upload'[p].pc = "idle"
      BY <1>1, <1>2, <1>3, IdleFacts DEF GuideTyped
    <3>2. ~(Len(upload[p].saves) > 0) /\ upload[p].saves \in Seq(SaveOf)
      BY <1>1, <3>1, CallFacts DEF Planned
    <3>3. DOMAIN upload[p].saves = {}
      BY <3>2
    <3> QED
      BY <3>3 DEF Keys
  <2> QED
    BY <1>1, <1>2, <2>1, <2>2, <2>3, EndArranged
<1> QED
  BY <1>1, <1>5, <1>6, <1>7, <1>8 DEF GuideInv

LEMMA BeginKeeps ==
  ASSUME GuideInv, NEW p \in Callers, NEW c, GuideBegins(p, c), Ready(c), Guide!Watch
  PROVE  GuideInv'
<1>1. GuideTyped /\ Parted /\ RowsKept /\ NoneForgotten /\ mixed \subseteq mixed' /\ Parted'
  BY GuideWatched DEF GuideInv
<1>2. GuideTyped'
  BY <1>1, BeginTyped
<1>3. RowsKept'
  BY <1>1, BeginKept DEF RowsKept
<1>4. NoneForgotten'
  BY <1>1, BeginRemembers
<1>5. ASSUME NEW s \in Sections \ mixed' PROVE Arranged(entry', upload', mixed', s)
  <2>1. Arranged(entry, upload, mixed, s)
    BY <1>1 DEF GuideInv
  <2> QED
    BY <1>1, <1>2, <2>1, BeginArranged
<1> QED
  BY <1>1, <1>2, <1>3, <1>4, <1>5 DEF GuideInv

LEMMA StoreKeeps ==
  ASSUME GuideInv, NEW p \in Callers, NEW f \in Files, Guide!Store(p, f), Guide!Watch
  PROVE  GuideInv'
<1>1. GuideTyped /\ Parted /\ RowsKept /\ NoneForgotten /\ mixed \subseteq mixed' /\ Parted'
  BY GuideWatched DEF GuideInv
<1>2. PICK k \in Places : \E c : Stores(p, f, k, c)
  BY <1>1, StoreMoves
<1>3. PICK c : Stores(p, f, k, c)
  BY <1>2
<1>4. GuideTyped'
  BY <1>1, <1>3, StoreTyped
<1>5. RowsKept'
  BY <1>1, <1>3, StoreKept DEF RowsKept
<1>6. NoneForgotten'
  BY <1>1, <1>3, StoreRemembers
<1>7. ASSUME NEW s \in Sections \ mixed' PROVE Arranged(entry', upload', mixed', s)
  <2>1. Arranged(entry, upload, mixed, s)
    BY <1>1 DEF GuideInv
  <2> QED
    BY <1>1, <1>3, <2>1, StoreArranged
<1> QED
  BY <1>1, <1>4, <1>5, <1>6, <1>7 DEF GuideInv

LEMMA SaveKeeps ==
  ASSUME GuideInv, NEW p \in Callers, Guide!Save(p), Guide!Watch
  PROVE  GuideInv'
<1>1. GuideTyped /\ Parted /\ RowsKept /\ NoneForgotten /\ mixed \subseteq mixed' /\ Parted'
  BY GuideWatched DEF GuideInv
<1>2. PICK k \in Places : \E w, c : Saves(p, k, w, c)
  BY <1>1, SaveMoves
<1>3. PICK w, c : Saves(p, k, w, c)
  BY <1>2
<1>4. GuideTyped'
  BY <1>1, <1>3, SaveTyped
<1>5. RowsKept'
  <2>1. ASSUME NEW j \in Places \ mixed PROVE KeptRow(j, entry'[j], stored', upload')
    <3>1. KeptRow(j, entry[j], stored, upload)
      BY <1>1 DEF RowsKept
    <3> QED
      BY <1>1, <1>3, <3>1, SaveKept
  <2> QED
    BY <1>1, <2>1 DEF RowsKept
<1>6. NoneForgotten'
  BY <1>1, <1>3, SaveRemembers
<1>7. ASSUME NEW s \in Sections \ mixed' PROVE Arranged(entry', upload', mixed', s)
  <2>1. Arranged(entry, upload, mixed, s)
    BY <1>1 DEF GuideInv
  <2> QED
    BY <1>1, <1>3, <2>1, SaveArranged
<1> QED
  BY <1>1, <1>4, <1>5, <1>6, <1>7 DEF GuideInv

----------------------------------------------------------------------------
(* Every step.                                                             *)
LEMMA PhotographKeeps ==
  ASSUME GuideInv, NEW p \in Callers, Guide!Photograph(p), Guide!Watch
  PROVE  GuideInv'
<1>1. GuideTyped /\ Guide!Rows = Places
  BY GuideBounds DEF GuideInv
<1>2. CASE \/ \E k \in Singles : Guide!SetPhotoRead(p, k)
           \/ \E k \in Entries : Guide!AddPhotoRead(p, k)
           \/ \E k \in Places, f \in Files : Guide!RemovePhotoRead(p, k, f)
  <2>1. PICK c : GuideBegins(p, c) /\ Ready(c)
    BY <1>1, <1>2, PhotoReads
  <2> QED
    BY <2>1, BeginKeeps
<1>3. CASE \E f \in Files : Guide!Store(p, f)
  BY <1>3, StoreKeeps
<1>4. CASE Guide!Delete(p)
  BY <1>4, DeleteKeeps
<1> QED
  BY <1>1, <1>2, <1>3, <1>4 DEF Guide!Photograph

LEMMA PageKeeps ==
  ASSUME GuideInv, NEW p \in Callers, Guide!Page(p), Guide!Watch
  PROVE  GuideInv'
<1>1. GuideTyped /\ Guide!Rows = Places
  BY GuideBounds DEF GuideInv
<1>2. CASE \E k \in Places : Guide!EditRead(p, k)
  <2>1. PICK c : GuideBegins(p, c) /\ Ready(c)
    BY <1>1, <1>2, PhotoReads
  <2> QED
    BY <2>1, BeginKeeps
<1>3. CASE \/ \E s \in Singletons, more \in BOOLEAN : Guide!UpsertRead(p, s, more)
           \/ \E s \in Sections : Guide!CreateRead(p, s)
  <2>1. PICK c : GuideBegins(p, c) /\ Ready(c)
    BY <1>1, <1>3, PageReads
  <2> QED
    BY <2>1, BeginKeeps
<1>4. CASE \E s \in Sections : \E order \in Guide!SetToSeqs(Guide!Of(s)) : Guide!ReorderRead(p, s, order)
  <2>1. PICK c : GuideBegins(p, c) /\ Ready(c)
    BY <1>1, <1>4, ReorderReads
  <2> QED
    BY <2>1, BeginKeeps
<1>5. CASE Guide!Save(p)
  BY <1>5, SaveKeeps
<1>6. CASE Guide!RemoveEntry(p)
  BY <1>6, RemoveKeeps
<1> QED
  BY <1>1, <1>2, <1>3, <1>4, <1>5, <1>6 DEF Guide!Page

LEMMA GuideStep == GuideInv /\ [Guide!Next]_(Guide!vars) => GuideInv'
<1>1. ASSUME GuideInv, Guide!Next PROVE GuideInv'
  <2>1. PICK p \in Callers : Guide!Photograph(p) \/ Guide!Page(p) \/ Guide!Crash(p)
    BY <1>1 DEF Guide!Next, Guide!Step
  <2>2. Guide!Watch
    BY <1>1 DEF Guide!Next
  <2> QED
    BY <1>1, <2>1, <2>2, PhotographKeeps, PageKeeps, CrashKeeps
<1>2. ASSUME GuideInv, UNCHANGED Guide!vars PROVE GuideInv'
  <2>1. UNCHANGED <<entry, stored, upload, of, left, mixed, broken>>
    BY <1>2 DEF Guide!vars
  <2>2. GuideTyped'
    BY <1>2, <2>1 DEF GuideInv, GuideTyped
  <2>3. Parted'
    BY <1>2, <2>1 DEF GuideInv, Parted, Guide!Together, Guide!Holds, Guide!Held
  <2>4. RowsKept' /\ NoneForgotten'
    BY <1>2, <2>1 DEF GuideInv, RowsKept, NoneForgotten
  <2>5. \A s \in Sections \ mixed' : Arranged(entry', upload', mixed', s)
    BY <1>2, <2>1 DEF GuideInv
  <2> QED
    BY <2>2, <2>3, <2>4, <2>5 DEF GuideInv
<1> QED
  BY <1>1, <1>2

LEMMA GuideInit == Guide!Init => GuideInv
<1> SUFFICES ASSUME Guide!Init PROVE GuideInv
  OBVIOUS
<1>1. /\ stored = {} /\ left = {} /\ mixed = {} /\ broken = 0
      /\ upload = [p \in Callers |-> Guide!Idle] /\ of = [f \in Files |-> None]
      /\ entry = [k \in Places |-> IF k \in Singles THEN Guide!New(None, TRUE, 0)
                                   ELSE [Guide!New(None, TRUE, 0) EXCEPT !.is = "never"]]
  BY GuideBounds DEF Guide!Init
<1>2. PICK v : v = Guide!New(None, TRUE, 0)
  OBVIOUS
<1>3. /\ v \in EntryRow /\ v.is = "there" /\ v.photos = {} /\ v.section = None
      /\ [v EXCEPT !.is = "never"] \in EntryRow /\ [v EXCEPT !.is = "never"].is = "never"
      /\ [v EXCEPT !.is = "never"].photos = {}
  BY <1>2 DEF Guide!New, EntryRow
<1>4. ASSUME NEW k \in Places
      PROVE  /\ Fitting(k, entry[k]) /\ entry[k].photos = {}
             /\ k \in Entries => entry[k].is = "never"
  <2>1. CASE k \in Singles
    <3>1. entry[k] = v /\ k \notin Entries
      BY <1>1, <1>2, <2>1, GuideBounds
    <3>2. Allowed(k, v) = 1
      BY <2>1 DEF Allowed
    <3>3. Cardinality(v.photos) <= Allowed(k, v)
      BY <1>3, <3>2, PhotoCounts
    <3>4. Fitting(k, v)
      BY <1>3, <3>1, <3>3 DEF Fitting
    <3> QED
      BY <1>3, <3>1, <3>4
  <2>2. CASE k \notin Singles
    <3>1. entry[k] = [v EXCEPT !.is = "never"]
      BY <1>1, <1>2, <2>2
    <3> QED
      BY <1>3, <3>1 DEF Fitting
  <2> QED
    BY <2>1, <2>2
<1>5. \A p \in Callers : upload[p] = Guide!Idle
  BY <1>1
<1>6. GuideTyped
  <2>1. entry = [k \in Places |-> entry[k]]
    BY <1>1
  <2>2. upload = [p \in Callers |-> upload[p]]
    BY <1>1
  <2> QED
    BY <1>1, <1>4, <1>5, <2>1, <2>2, IdleFacts DEF GuideTyped
<1>7. Parted
  BY <1>5, IdleFacts, GuideBounds DEF Parted, Guide!Together, Guide!Holds, Guide!Held
<1>8. RowsKept
  BY <1>1, <1>4, <1>5, IdleFacts DEF RowsKept, KeptRow, Spares
<1>9. NoneForgotten
  BY <1>1 DEF NoneForgotten
<1>10. ASSUME NEW s \in Sections PROVE Arranged(entry, upload, mixed, s)
  <2>1. Inside(entry, mixed, s) = {}
    BY <1>4 DEF Inside, Places
  <2>2. \A p \in Callers : DOMAIN upload[p].saves = {}
    BY <1>5, IdleFacts
  <2> QED
    BY <2>1, <2>2 DEF Arranged
<1> QED
  BY <1>6, <1>7, <1>8, <1>9, <1>10 DEF GuideInv

LEMMA GuideHolds == GuideInv => PhotosStand /\ EntriesInOrder
<1> SUFFICES ASSUME GuideInv PROVE PhotosStand /\ EntriesInOrder
  OBVIOUS
<1>1. GuideTyped /\ RowsKept /\ NoneForgotten /\ Guide!Rows = Places /\ Entries \subseteq Places
  BY GuideBounds DEF GuideInv, Places
<1>2. ASSUME NEW k \in Places \ mixed, Guide!There(k)
      PROVE  entry[k].photos \subseteq stored /\ Guide!Cardinality(entry[k].photos) <= Guide!Cap(k)
  <2>1. entry[k].is = "there" /\ Fitting(k, entry[k])
    BY <1>1, <1>2, EntryFacts DEF Guide!There
  <2>2. Guide!Cap(k) = Allowed(k, entry[k])
    BY DEF Guide!Cap, Allowed
  <2>3. entry[k].photos \subseteq stored
    BY <1>1, <2>1 DEF RowsKept, KeptRow
  <2>4. Cardinality(entry[k].photos) <= Allowed(k, entry[k])
    BY <2>1 DEF Fitting
  <2> QED
    BY <2>2, <2>3, <2>4, GuideCounts
<1>3. ASSUME NEW f \in stored \ left
      PROVE  \/ of[f] \in mixed
             \/ Guide!There(of[f]) /\ f \in entry[of[f]].photos
             \/ \E p \in Callers : f \in Guide!Named(p)
  <2>1. of[f] \in mixed \/ Remembered(f, entry[of[f]], upload)
    BY <1>1 DEF NoneForgotten
  <2>2. \A p \in Callers : Guide!Named(p) = Names(upload[p])
    BY DEF Guide!Named, Names
  <2> QED
    BY <2>1, <2>2 DEF Remembered, Guide!There
<1>4. ASSUME NEW s \in Sections \ (mixed \cup {upload[p].section : p \in Callers}),
             NEW k \in Guide!Of(s) \ mixed, NEW l \in Guide!Of(s) \ mixed, k # l
      PROVE  s \notin Singletons /\ entry[k].sort # entry[l].sort
  <2>1. Arranged(entry, upload, mixed, s)
    BY DEF GuideInv
  <2>2. k \in Inside(entry, mixed, s) /\ l \in Inside(entry, mixed, s)
    BY DEF Inside, Guide!Of, Guide!There
  <2>3. Free(upload, s, k) /\ Free(upload, s, l)
    BY DEF Free
  <2> QED
    BY <1>4, <2>1, <2>2, <2>3 DEF Arranged, Apart
<1>5. PhotosStand
  BY <1>1, <1>2, <1>3 DEF PhotosStand, Guide!PhotosStand
<1>6. EntriesInOrder
  BY <1>4 DEF EntriesInOrder, Guide!EntriesInOrder
<1> QED
  BY <1>5, <1>6

(* Apart from rows two calls held at once, no row names a photo that is    *)
(* gone or more than it may, whichever step of an upload, a replacement or *)
(* a removal fails, and no photo is left that nothing names                *)
(* (FnbPhotoService, EventPhotoService, HotelInfoPhotoService).            *)
THEOREM PhotosKept == Guide!Spec => []PhotosStand
<1>1. Guide!Init => GuideInv
  BY GuideInit
<1>2. GuideInv /\ [Guide!Next]_(Guide!vars) => GuideInv'
  BY GuideStep
<1>3. GuideInv => PhotosStand
  BY GuideHolds
<1> QED
  BY <1>1, <1>2, <1>3, PTL DEF Guide!Spec

(* A section that one call at a time changes is one row if it is a         *)
(* singleton and in one order if it is not, whoever edits its entries      *)
(* meanwhile (TenantHotelInfoService.upsert, create, reorder).             *)
THEOREM SectionsOrdered == Guide!Spec => []EntriesInOrder
<1>1. Guide!Init => GuideInv
  BY GuideInit
<1>2. GuideInv /\ [Guide!Next]_(Guide!vars) => GuideInv'
  BY GuideStep
<1>3. GuideInv => EntriesInOrder
  BY GuideHolds
<1> QED
  BY <1>1, <1>2, <1>3, PTL DEF Guide!Spec
=============================================================================
