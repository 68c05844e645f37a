------------------------------- MODULE Admins -------------------------------
(***************************************************************************)
(* The accounts of the vendor's panel: AuthService, AdminsService and      *)
(* RolesService with the token strategy and the guard in front of them.    *)
(*                                                                         *)
(* A call reads a row, computes a new one and saves all of it later; the   *)
(* unique e-mail and the foreign key to the role are all that can refuse   *)
(* the save.  Permissions are two: to keep admins and to keep roles.       *)
(***************************************************************************)
EXTENDS Naturals

CONSTANTS Admins, Roles,
          SuperAdmin,  \* the system role
          Emails, Callers,
          MaxPw,       \* bound: passwords an account ever has
          None

Parameters == SuperAdmin \in Roles /\ MaxPw \in Nat \ {0} /\ None \notin Admins \cup Emails

VARIABLES admin,  \* table admins
          role,   \* table roles
          call,   \* what each call has read and will save
          lapped  \* whether two calls were ever under way at once

vars == <<admin, role, call, lapped>>

Powers == {"admins", "roles"}
NoRole == [has |-> FALSE, may |-> {}]
NoAdmin == [has |-> FALSE, email |-> None, pw |-> 0, refresh |-> 0, active |-> FALSE, role |-> SuperAdmin]
Idle == [pc |-> "idle", by |-> None, key |-> None, row |-> NoAdmin]

(* The seed leaves one account with the system role. *)
Init ==
  /\ \E first \in Admins, email \in Emails :
       admin = [a \in Admins |->
                  IF a = first THEN [NoAdmin EXCEPT !.has = TRUE, !.email = email, !.pw = 1, !.active = TRUE]
                                 ELSE NoAdmin]
  /\ role = [r \in Roles |-> IF r = SuperAdmin THEN [has |-> TRUE, may |-> Powers] ELSE NoRole]
  /\ call = [p \in Callers |-> Idle] /\ lapped = FALSE

----------------------------------------------------------------------------
(* JwtStrategy loads the account and its role for every request. *)
SignedIn(by) == admin[by].has /\ admin[by].active
May(by, power) == SignedIn(by) /\ power \in role[admin[by].role].may

Begin(p, by, pc, key, row) ==
  /\ call[p] = Idle
  /\ call' = [call EXCEPT ![p] = [pc |-> pc, by |-> by, key |-> key, row |-> row]]
  /\ lapped' = (lapped \/ \E q \in Callers : call[q] # Idle)
  /\ UNCHANGED <<admin, role>>

EmailFree(email, a) == \A b \in Admins \ {a} : admin[b].has => admin[b].email # email
NewPassword(row) == IF row.pw < MaxPw THEN {[row EXCEPT !.pw = @ + 1, !.refresh = 0]} ELSE {}

(* A refresh token counts as the password its session began with. *)
SessionRows(a) ==
  LET row == admin[a] IN
  IF ~SignedIn(a) THEN {}
  ELSE {[row EXCEPT !.refresh = row.pw]} \cup (IF row.refresh # 0 THEN {row} ELSE {})

ProfileRows(a) ==
  IF ~SignedIn(a) THEN {}
  ELSE {[admin[a] EXCEPT !.email = email] : email \in {e \in Emails : EmailFree(e, a)}}
         \cup NewPassword(admin[a])

(* login, refresh, updateProfile and changePassword. *)
Own(p, a) == \E row \in SessionRows(a) \cup ProfileRows(a) : Begin(p, a, "admin", a, row)

(* logout writes the one column. *)
Logout(a) ==
  /\ SignedIn(a) /\ admin' = [admin EXCEPT ![a].refresh = 0]
  /\ UNCHANGED <<role, call, lapped>>

Create(p, by, a, email, r) ==
  /\ May(by, "admins") /\ ~admin[a].has /\ EmailFree(email, a) /\ role[r].has
  /\ Begin(p, by, "admin", a, [NoAdmin EXCEPT !.has = TRUE, !.email = email, !.pw = 1, !.active = TRUE, !.role = r])

ResetByAdmin_KeepsSession(row) == IF row.pw < MaxPw THEN {[row EXCEPT !.pw = @ + 1]} ELSE {}
ResetByAdmin(row) == NewPassword(row)

UpdateRows(a) ==
  {[admin[a] EXCEPT !.email = email] : email \in {e \in Emails : EmailFree(e, a)}}
    \cup {[admin[a] EXCEPT !.role = r] : r \in {r \in Roles : role[r].has}}
    \cup ResetByAdmin(admin[a])

Update(p, by, a) ==
  /\ May(by, "admins") /\ admin[a].has
  /\ \E row \in UpdateRows(a) : Begin(p, by, "admin", a, row)

StatusRows_Self(by, a) ==
  {[admin[a] EXCEPT !.active = TRUE], [admin[a] EXCEPT !.active = FALSE, !.refresh = 0]}

(* updateStatus, where no one deactivates themselves. *)
StatusRows(by, a) ==
  {[admin[a] EXCEPT !.active = TRUE]}
    \cup (IF a = by THEN {} ELSE {[admin[a] EXCEPT !.active = FALSE, !.refresh = 0]})

UpdateStatus(p, by, a) ==
  /\ May(by, "admins") /\ admin[a].has
  /\ \E row \in StatusRows(by, a) : Begin(p, by, "admin", a, row)

Remove(p, by, a) ==
  /\ May(by, "admins") /\ admin[a].has /\ a # by
  /\ Begin(p, by, "erase", a, NoAdmin)

----------------------------------------------------------------------------
(* Roles: names apart, a role is what it permits. *)
CreateRole(p, by, r, may) ==
  /\ May(by, "roles") /\ ~role[r].has
  /\ Begin(p, by, "role", r, [has |-> TRUE, may |-> may])

UpdateRole(p, by, r, may) ==
  /\ May(by, "roles") /\ role[r].has /\ r # SuperAdmin
  /\ Begin(p, by, "role", r, [has |-> TRUE, may |-> may])

InUse(r) == \E a \in Admins : admin[a].has /\ admin[a].role = r

RemoveRole(p, by, r) ==
  /\ May(by, "roles") /\ role[r].has /\ r # SuperAdmin /\ ~InUse(r)
  /\ Begin(p, by, "role", r, NoRole)

----------------------------------------------------------------------------
Done(p) == call' = [call EXCEPT ![p] = Idle] /\ UNCHANGED lapped

(* A row removed in the meantime is inserted again; what the constraints   *)
(* refuse changes nothing.                                                 *)
SaveAdmin(p) ==
  LET a == call[p].key row == call[p].row IN
  /\ call[p].pc = "admin"
  /\ admin' = IF EmailFree(row.email, a) /\ role[row.role].has THEN [admin EXCEPT ![a] = row] ELSE admin
  /\ Done(p) /\ UNCHANGED role

(* Hotels and plans may still name the admin: their keys keep the row. *)
Erase(p) ==
  /\ call[p].pc = "erase"
  /\ \E named \in BOOLEAN : admin' = IF named THEN admin ELSE [admin EXCEPT ![call[p].key] = NoAdmin]
  /\ Done(p) /\ UNCHANGED role

SaveRole(p) ==
  LET r == call[p].key IN
  /\ call[p].pc = "role"
  /\ role' = IF call[p].row.has \/ ~InUse(r) THEN [role EXCEPT ![r] = call[p].row] ELSE role
  /\ Done(p) /\ UNCHANGED admin

Next ==
  \/ \E p \in Callers : SaveAdmin(p) \/ Erase(p) \/ SaveRole(p)
  \/ \E a \in Admins : Logout(a) \/ \E p \in Callers : Own(p, a)
  \/ \E p \in Callers, by, a \in Admins :
       \/ Update(p, by, a) \/ UpdateStatus(p, by, a) \/ Remove(p, by, a)
       \/ \E email \in Emails, r \in Roles : Create(p, by, a, email, r)
  \/ \E p \in Callers, by \in Admins, r \in Roles :
       \/ RemoveRole(p, by, r)
       \/ \E may \in SUBSET Powers : CreateRole(p, by, r, may) \/ UpdateRole(p, by, r, may)

Spec == Init /\ [][Next]_vars

----------------------------------------------------------------------------
(* Whatever overlaps, only an active admin has a session, which began      *)
(* with the password of now, and every admin has a role.                   *)
SessionsAreCurrent ==
  \A a \in Admins :
    /\ admin[a].refresh # 0 => admin[a].active /\ admin[a].refresh = admin[a].pw
    /\ admin[a].has => role[admin[a].role].has

(* When calls do not overlap, the panel is never without an active admin.  *)
SomeoneRemains == lapped \/ \E a \in Admins : SignedIn(a)

(* Nor does an admin come back but by the hand of another who may.         *)
OthersBringBack ==
  [][\A a \in Admins : ~SignedIn(a) /\ SignedIn(a)' =>
       lapped \/ \E p \in Callers : call[p].key = a /\ call[p].by # a /\ May(call[p].by, "admins")]_vars
=============================================================================
