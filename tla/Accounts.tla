------------------------------ MODULE Accounts ------------------------------
(***************************************************************************)
(* The staff accounts of one hotel: invitations, direct accounts, disable  *)
(* and enable under the lock of the hotel row, and the sessions, set-up    *)
(* links and passwords that the accounts' owners and their managers        *)
(* change without it.                                                      *)
(*                                                                         *)
(* A request reads the row of an account, computes a new one and saves all *)
(* of it later.  The hotel is active; refused requests are no steps.       *)
(***************************************************************************)
EXTENDS Naturals, FiniteSets

CONSTANTS Users,    \* staff accounts, the owner excepted
          Direct,   \* those created with a user name, who have no e-mail
          Reqs,     \* concurrent requests and mail retries
          Limit,    \* maxStaffUsers of the hotel's plan
          Crowds,   \* bound: how many of them may be under way at once
          MaxPw     \* bound: passwords an account ever has

ASSUME AccountsAssumption ==
  /\ Direct \subseteq Users /\ Users # {} /\ IsFiniteSet(Users) /\ IsFiniteSet(Reqs)
  /\ Limit \in Nat /\ MaxPw \in Nat /\ Crowds \subseteq Nat

VARIABLES acct,     \* table tenant_users
          counter,  \* hotels.staffUsersCount
          req,      \* what each request has read
          used,     \* passwords set so far
          revived,  \* seats taken by a save outside the hotel lock
          crowd     \* requests that overlap at most, fixed in a behaviour

vars == <<acct, counter, req, used, revived, crowd>>

Statuses == {"none", "pending", "active", "disabled"}
Passwords == 0..MaxPw
Row == [status: Statuses, pw: Passwords, must: BOOLEAN, refresh: Passwords,
        setup: BOOLEAN, reset: BOOLEAN]
SeatOps == {"invite", "create", "disable", "enable"}
Request == [pc: {"idle", "lock", "seat", "save", "tokens"}, op: SeatOps \cup {"row"},
            u: Users, row: Row, fresh: BOOLEAN, n: 0..Cardinality(Users)]

NoRow == [status |-> "none", pw |-> 0, must |-> FALSE, refresh |-> 0, setup |-> FALSE, reset |-> FALSE]
IdleReq == [pc |-> "idle", op |-> "row", u |-> CHOOSE u \in Users : TRUE, row |-> NoRow, fresh |-> FALSE, n |-> 0]

Init ==
  /\ acct = [u \in Users |-> NoRow] /\ counter = 0
  /\ req = [p \in Reqs |-> IdleReq]
  /\ used = [u \in Users |-> 0] /\ revived = {} /\ crowd \in Crowds

Holds(row) == row.status \in {"pending", "active"}
Seated == {u \in Users : Holds(acct[u])}

----------------------------------------------------------------------------
(* The rows an operation may save, none when it refuses the row it reads.  *)
(* A refresh token counts as the password it was issued under.             *)
SessionRows(op, row) ==
  IF row.status = "active" /\ (op = "login" \/ (op = "refresh" /\ row.refresh # 0))
  THEN {[row EXCEPT !.refresh = row.pw]} ELSE {}

ResetRows(op, row) ==
  CASE op = "forgot" /\ row.status = "active" -> {[row EXCEPT !.reset = TRUE]}
    [] op = "confirm" /\ row.status = "active" /\ row.reset ->
         {[row EXCEPT !.reset = FALSE, !.refresh = 0, !.must = FALSE]}
    [] OTHER -> {}

SetupRows_Disabled(op, row) ==
  IF op = "setup" /\ row.setup
  THEN {[row EXCEPT !.status = "active", !.setup = FALSE]} ELSE {}

SetupRows(op, row) ==
  IF op = "setup" /\ row.setup /\ row.status # "disabled"
  THEN {[row EXCEPT !.status = "active", !.setup = FALSE]} ELSE {}

(* updateProfile, dismissHint, undismissHint and changePassword run on the *)
(* row the token strategy loaded.                                          *)
ProfileRows(op, row) ==
  CASE op = "profile" /\ row.status = "active" /\ ~row.must -> {row}
    [] op = "change" /\ row.status = "active" -> {[row EXCEPT !.refresh = 0, !.must = FALSE]}
    [] OTHER -> {}

UpdateRows(op, row) == IF op = "update" /\ row.status # "none" THEN {row} ELSE {}

ResendRows(op, row) ==
  IF op = "resend" /\ row.status = "pending" THEN {[row EXCEPT !.setup = TRUE]} ELSE {}

ResetByManager_KeepsSession(op, row) ==
  IF op = "reset" /\ row.status = "active"
  THEN {[row EXCEPT !.must = TRUE, !.setup = FALSE, !.reset = FALSE]} ELSE {}

ResetByManager(op, row) ==
  IF op = "reset" /\ row.status = "active"
  THEN {[row EXCEPT !.must = TRUE, !.refresh = 0, !.setup = FALSE, !.reset = FALSE]} ELSE {}

(* A retried invitation mints a new link for an account not yet active.    *)
MailRows(op, row) ==
  IF op = "mail" /\ row.status \in {"pending", "disabled"} THEN {[row EXCEPT !.setup = TRUE]} ELSE {}

Rows(op, row) ==
  SessionRows(op, row) \cup ResetRows(op, row) \cup SetupRows(op, row)
    \cup ProfileRows(op, row) \cup UpdateRows(op, row) \cup ResendRows(op, row)
    \cup ResetByManager(op, row) \cup MailRows(op, row)

NewPassword == {"confirm", "setup", "change", "reset"}
ByMail == {"forgot", "resend", "mail"}
RowOps == {"login", "refresh", "profile", "update"} \cup NewPassword \cup ByMail

----------------------------------------------------------------------------
Idle(p) == req[p].pc = "idle"
Begins(p) == Idle(p) /\ Cardinality({q \in Reqs : ~Idle(q)}) < crowd
Go(p, q) == req' = [req EXCEPT ![p] = q]
Pending(u) == {p \in Reqs : ~Idle(p) /\ req[p].fresh /\ req[p].u = u}

(* Every unlocked operation: the read, and the computing of the new row.   *)
RowRead(p, u, op) ==
  /\ Begins(p)
  /\ op \in ByMail => u \notin Direct
  /\ op \in NewPassword => used[u] + Cardinality(Pending(u)) < MaxPw
  /\ \E row \in Rows(op, acct[u]) :
       Go(p, [IdleReq EXCEPT !.pc = IF op = "setup" THEN "tokens" ELSE "save", !.u = u,
                             !.row = row, !.fresh = op \in NewPassword])
  /\ UNCHANGED <<acct, counter, used, revived, crowd>>

Store(u, row) ==
  /\ acct' = [acct EXCEPT ![u] = row]
  /\ revived' = IF ~Holds(row) THEN revived \ {u}
                ELSE IF u \in Seated THEN revived ELSE revived \cup {u}

Stamped(q) == IF q.fresh THEN [q.row EXCEPT !.pw = used[q.u] + 1] ELSE q.row

(* The row with a session for its password, which setup saves next.        *)
Tokens(q) == [Stamped(q) EXCEPT !.refresh = Stamped(q).pw]

(* The save.  setup goes on to issue tokens, which saves its row again.    *)
RowSave(p) ==
  LET q == req[p] IN
  /\ q.pc \in {"save", "tokens"}
  /\ Store(q.u, Stamped(q))
  /\ used' = IF q.fresh THEN [used EXCEPT ![q.u] = @ + 1] ELSE used
  /\ Go(p, IF q.pc = "save" THEN IdleReq
           ELSE [IdleReq EXCEPT !.pc = "save", !.u = q.u, !.row = Tokens(q)])
  /\ UNCHANGED <<counter, crowd>>

(* logout clears one column in one statement. *)
Logout(u) ==
  /\ acct[u].refresh # 0
  /\ acct' = [acct EXCEPT ![u].refresh = 0]
  /\ UNCHANGED <<counter, req, used, revived, crowd>>

----------------------------------------------------------------------------
(* invite and createDirect open a transaction at once; disable and enable  *)
(* read and judge the account before theirs.                               *)
SeatBegin(p, u, op) ==
  /\ Begins(p)
  /\ CASE op = "invite" -> u \notin Direct
       [] op = "create" -> u \in Direct /\ used[u] + Cardinality(Pending(u)) < MaxPw
       [] op = "disable" -> Holds(acct[u])
       [] op = "enable" -> acct[u].status = "disabled"
  /\ Go(p, [IdleReq EXCEPT !.pc = "lock", !.op = op, !.u = u, !.row = acct[u],
                           !.fresh = op = "create"])
  /\ UNCHANGED <<acct, counter, used, revived, crowd>>

SeatLock_NoLock(p) ==
  LET q == req[p] IN
  /\ q.pc = "lock"
  /\ Go(p, IF \/ q.op \in {"invite", "create"} /\ acct[q.u].status # "none"
              \/ q.op # "disable" /\ Cardinality(Seated) >= Limit
           THEN IdleReq
           ELSE [q EXCEPT !.pc = "seat", !.n = Cardinality(Seated)])
  /\ UNCHANGED <<acct, counter, used, revived, crowd>>

(* With the hotel row locked: duplicates are refused and seats counted.    *)
SeatLock(p) ==
  LET q == req[p] IN
  /\ q.pc = "lock" /\ \A o \in Reqs : req[o].pc # "seat"
  /\ Go(p, IF \/ q.op \in {"invite", "create"} /\ acct[q.u].status # "none"
              \/ q.op # "disable" /\ Cardinality(Seated) >= Limit
           THEN IdleReq
           ELSE [q EXCEPT !.pc = "seat", !.n = Cardinality(Seated)])
  /\ UNCHANGED <<acct, counter, used, revived, crowd>>

Invited == [NoRow EXCEPT !.status = "pending", !.setup = TRUE]

Created(n) == [NoRow EXCEPT !.status = "active", !.pw = n, !.must = TRUE]

Disabled_KeepsSession(row) == [row EXCEPT !.status = "disabled", !.setup = FALSE]

Disabled(row) == [row EXCEPT !.status = "disabled", !.refresh = 0, !.setup = FALSE]

Enabled(row) == [row EXCEPT !.status = IF row.pw # 0 THEN "active" ELSE "pending"]

SeatRow(q) ==
  CASE q.op = "invite" -> Invited
    [] q.op = "create" -> Created(used[q.u] + 1)
    [] q.op = "disable" -> Disabled(q.row)
    [] q.op = "enable" -> Enabled(q.row)

SeatsAfter_Disable(q) == q.n + 1

(* disable counts again after its save; the others add the seat they took. *)
SeatsAfter(q) == IF q.op = "disable" THEN Cardinality(Seated \ {q.u}) ELSE q.n + 1

SeatCommit(p) ==
  LET q == req[p] IN
  /\ q.pc = "seat"
  /\ acct' = [acct EXCEPT ![q.u] = SeatRow(q)]
  /\ counter' = SeatsAfter(q)
  /\ revived' = IF q.op = "disable" THEN revived \ {q.u} ELSE revived
  /\ used' = IF q.fresh THEN [used EXCEPT ![q.u] = @ + 1] ELSE used
  /\ Go(p, IdleReq) /\ UNCHANGED crowd

Next ==
  \/ \E p \in Reqs, u \in Users, op \in RowOps : RowRead(p, u, op)
  \/ \E p \in Reqs : RowSave(p)
  \/ \E u \in Users : Logout(u)
  \/ \E p \in Reqs, u \in Users, op \in SeatOps : SeatBegin(p, u, op)
  \/ \E p \in Reqs : SeatLock(p) \/ SeatCommit(p)

Spec == Init /\ [][Next]_vars

----------------------------------------------------------------------------
(* Two enables of one account count its seat twice. *)
TypeOK ==
  /\ acct \in [Users -> Row] /\ counter \in 0..(Cardinality(Users) + 1)
  /\ req \in [Reqs -> Request] /\ used \in [Users -> Passwords]
  /\ revived \subseteq Users /\ crowd \in Crowds

RowOK(row) ==
  /\ row.status = "active" => row.pw # 0
  /\ row.status = "pending" => row.pw = 0
  /\ row.refresh # 0 => row.status = "active"

(* Whatever overlaps, the row of an account makes sense: only an active    *)
(* account has a session, and an account is active when it has a password. *)
RowsConsistent == TypeOK /\ \A u \in Users : RowOK(acct[u])

Settled(u) == \A p \in Reqs : Idle(p) \/ req[p].u # u

(* When requests do not overlap, a session is as young as its password (a  *)
(* reset, a change of password and a set-up end the sessions before them), *)
(* and the counter the plans are compared with is the seats taken.         *)
AloneAccountsAgree == crowd = 1 =>
  /\ \A u \in Users : Settled(u) => acct[u].refresh \in {0, acct[u].pw}
  /\ counter = Cardinality(Seated)

(* The plan's staff limit: invitations, direct accounts and re-enabled     *)
(* accounts racing for the last seat never take more than there are.       *)
SeatLimit == Cardinality(Seated \ revived) <= Limit

(* When requests do not overlap, a disabled account comes back only by the *)
(* enable of a manager: no login, reset or left-over set-up link does it.  *)
AloneDisabledStaysOut ==
  [][crowd = 1 => \A u \in Users :
       acct[u].status = "disabled" /\ acct'[u].status # "disabled"
         => \E p \in Reqs : req[p].pc = "seat" /\ req[p].op = "enable" /\ req[p].u = u]_vars
=============================================================================
