------------------------------- MODULE Access -------------------------------
(***************************************************************************)
(* What a request of the staff has to pass, and the roles behind it        *)
(* (TenantJwtStrategy, PermissionsGuard, TenantAccessGuard,                *)
(* TenantAccessService, MustChangePasswordGuard, TenantRolesService).      *)
(*                                                                         *)
(* Account and role are loaded afresh for each request.  What the hotel    *)
(* may do is loaded by two queries, kept in memory for a while and never   *)
(* invalidated.  Past the guards the role editor reads, judges and saves   *)
(* whole rows; keys and foreign keys of the tables are checked on saving.  *)
(***************************************************************************)
EXTENDS Naturals, FiniteSets

CONSTANTS Users, Roles, Names,
          Owner,         \* the system role, which holds the wildcard
          Permissions,   \* the catalog
          Manage,        \* ... the one for editing roles
          Calls,
          Ttl, MaxLoad,  \* life of a cached state; bound: what a load takes
          Horizon,       \* bound on the clock
          None

Parameters ==
  /\ Owner \in Roles /\ Manage \in Permissions /\ Names # {}
  /\ None \notin Users \cup Roles \cup Names \cup Permissions
  /\ Ttl \in Nat \ {0} /\ MaxLoad \in Nat /\ Horizon \in Nat

VARIABLES hotel,    \* the columns of the hotel and its open subscription
          role,     \* table tenant_roles
          user,     \* table tenant_users
          cache,    \* the cached access state
          call,     \* the requests under way
          now,
          allowed,  \* ghost: when each condition of the hotel last held
          granted,  \* ghost: what holders have put into each role
          raced     \* ghost: roles that two requests held at once

vars == <<hotel, role, user, cache, call, now, allowed, granted, raced>>

Editable == Roles \ {Owner}
Grantable == SUBSET Permissions
Role == [is: {"never", "there", "gone"}, perms: Grantable, name: Names \cup {None}]
Idle == [pc |-> "idle"]
NoState == [until |-> 0, suspended |-> FALSE, module |-> FALSE, readOnly |-> FALSE]

OwnerRow == [is |-> "there", perms |-> Permissions, name |-> None]
NoRole == [is |-> "never", perms |-> {}, name |-> None]

(* The default roles are seeded with the hotel. *)
SeededRoles ==
  {t \in [Roles -> Role] :
     /\ t[Owner] = OwnerRow
     /\ \A r \in Editable :
          \/ t[r] = NoRole
          \/ t[r].is = "there" /\ t[r].perms \in {{}, {Manage}} /\ t[r].name # None
     /\ \A r, q \in Editable : t[r].name = t[q].name /\ t[r].name # None => r = q}

Init ==
  /\ hotel = [suspended |-> FALSE, sub |-> "active", module |-> TRUE]
  /\ role \in SeededRoles
  /\ user \in [Users -> [active: {TRUE}, must: BOOLEAN, role: Roles]]
  /\ \A u \in Users : role[user[u].role].is = "there"
  /\ cache = NoState /\ now = 0
  /\ call = [p \in Calls |-> Idle]
  /\ allowed = [c \in {"open", "module", "writable"} |-> 0]
  /\ granted = [r \in Roles |-> role[r].perms] /\ raced = {}

----------------------------------------------------------------------------
(* The vendor and the cron, on the hotel; the clock. *)
HotelChanges(h) == h # hotel /\ hotel' = h /\ UNCHANGED <<role, user, cache, call, now>>

Suspend == HotelChanges([hotel EXCEPT !.suspended = ~@])
Expire == hotel.sub = "active" /\ HotelChanges([hotel EXCEPT !.sub = "expired"])

(* A plan change closes the open subscription and inserts the next. *)
ChangePlanClose == hotel.sub # "none" /\ HotelChanges([hotel EXCEPT !.sub = "none", !.module = FALSE])
ChangePlanOpen(module) ==
  hotel.sub = "none" /\ HotelChanges([hotel EXCEPT !.sub = "active", !.module = module])

Tick ==
  /\ now < Horizon /\ now' = now + 1
  /\ \A p \in Calls : call[p].pc \in {"hotel", "sub"} => now < call[p].start + MaxLoad
  /\ UNCHANGED <<hotel, role, user, cache, call>>

----------------------------------------------------------------------------
(* The guards, in their order. *)
Suspended(s) == s.suspended
Excluded(s, op) == op.module /\ ~s.module
ReadOnly(s, op) == op.mutates /\ s.readOnly

Pass(c, s) ==
  IF Suspended(s) \/ Excluded(s, c.op) \/ ReadOnly(s, c.op) THEN Idle
  ELSE [pc |-> "in", who |-> c.who, op |-> c.op, perms |-> c.perms]

Cached_Late(s) == s.until + 1 > now
Cached(s) == s.until > now

Ops == [perm: Permissions, module: BOOLEAN, mutates: BOOLEAN]

(* A token in hand: the account with its role, then its permissions, then  *)
(* the hotel's state, from memory if it is there. *)
Enter(p, u, op) ==
  /\ call[p].pc = "idle"
  /\ user[u].active /\ op.perm \in role[user[u].role].perms /\ ~user[u].must
  /\ LET c == [pc |-> "hotel", who |-> u, op |-> op, perms |-> role[user[u].role].perms, start |-> now]
     IN call' = [call EXCEPT ![p] = IF Cached(cache) THEN Pass(c, cache) ELSE c]
  /\ UNCHANGED <<hotel, role, user, cache, now>>

LoadHotel(p) ==
  /\ call[p].pc = "hotel"
  /\ call' = [call EXCEPT ![p] = [pc |-> "sub", who |-> @.who, op |-> @.op, perms |-> @.perms,
                                  start |-> @.start, suspended |-> hotel.suspended]]
  /\ UNCHANGED <<hotel, role, user, cache, now>>

LoadSubscription(p) ==
  /\ call[p].pc = "sub"
  /\ cache' = [until |-> now + Ttl, suspended |-> call[p].suspended,
               module |-> hotel.module, readOnly |-> hotel.sub = "expired"]
  /\ call' = [call EXCEPT ![p] = Pass(@, cache')]
  /\ UNCHANGED <<hotel, role, user, now>>

(* Whatever the handler of a route without roles does. *)
Handle(p) ==
  /\ call[p].pc = "in" /\ call[p].op.perm # Manage
  /\ call' = [call EXCEPT ![p] = Idle] /\ UNCHANGED <<hotel, role, user, cache, now>>

----------------------------------------------------------------------------
(* The role editor. *)
There(r) == role[r].is = "there"
Taken(name, r) == \E q \in Roles \ {r} : There(q) /\ role[q].name = name
Escalates(perms, c) == ~(perms \subseteq c.perms)
Editing(p) == call[p].pc = "in" /\ call[p].op.perm = Manage
EditFrame == UNCHANGED <<hotel, user, cache, now>>
Judged(p, pc, r, row) ==
  /\ call' = [call EXCEPT ![p] = [pc |-> pc, who |-> @.who, perms |-> @.perms, key |-> r, row |-> row]]
  /\ UNCHANGED role /\ EditFrame

CreateRole(p, r, perms, name) ==
  /\ Editing(p) /\ role[r].is = "never" /\ \A q \in Calls : call[q].pc = "save" => call[q].key # r
  /\ ~Escalates(perms, call[p]) /\ ~Taken(name, r)
  /\ Judged(p, "save", r, [is |-> "there", perms |-> perms, name |-> name])

(* Permissions, or a name, or both. *)
UpdateRole_NoCheck(p, r, perms, name) ==
  /\ Editing(p) /\ There(r) /\ r # Owner
  /\ ~Taken(name, r)
  /\ Judged(p, "save", r, [role[r] EXCEPT !.perms = perms, !.name = name])

UpdateRole(p, r, perms, name) ==
  /\ Editing(p) /\ There(r) /\ r # Owner
  /\ perms # role[r].perms => ~Escalates(perms, call[p])
  /\ name # role[r].name => ~Taken(name, r)
  /\ Judged(p, "save", r, [role[r] EXCEPT !.perms = perms, !.name = name])

(* A row removed meanwhile is inserted again; a name taken meanwhile is    *)
(* refused by the table.                                                   *)
SaveRole(p) ==
  /\ call[p].pc = "save"
  /\ role' = IF Taken(call[p].row.name, call[p].key) THEN role
             ELSE [role EXCEPT ![call[p].key] = call[p].row]
  /\ call' = [call EXCEPT ![p] = Idle] /\ EditFrame

DeleteRole(p, r) ==
  /\ Editing(p) /\ There(r) /\ r # Owner
  /\ \A u \in Users : user[u].role # r
  /\ Judged(p, "remove", r, role[r])

RemoveRole_Unkeyed(p) ==
  /\ call[p].pc = "remove"
  /\ role' = [role EXCEPT ![call[p].key].is = "gone"]
  /\ call' = [call EXCEPT ![p] = Idle] /\ EditFrame

(* Refused when an account has been given the role meanwhile. *)
RemoveRole(p) ==
  /\ call[p].pc = "remove"
  /\ role' = IF \E u \in Users : user[u].role = call[p].key THEN role
             ELSE [role EXCEPT ![call[p].key].is = "gone"]
  /\ call' = [call EXCEPT ![p] = Idle] /\ EditFrame

(* A manager gives an account another role, in a request of its own: never *)
(* the owner's, to or from.  An account is disabled, enabled, or sets its  *)
(* password (see Accounts).                                                *)
AssignRole(u, r) ==
  /\ There(r) /\ r # Owner /\ user[u].role \notin {r, Owner}
  /\ user' = [user EXCEPT ![u].role = r] /\ UNCHANGED <<hotel, role, cache, call, now>>

ChangeAccount(u, active, must) ==
  /\ user[u].role # Owner \/ active
  /\ user' = [user EXCEPT ![u].active = active, ![u].must = must] /\ user' # user
  /\ UNCHANGED <<hotel, role, cache, call, now>>

----------------------------------------------------------------------------
World ==
  \/ Suspend \/ Expire \/ ChangePlanClose \/ Tick
  \/ \E module \in BOOLEAN : ChangePlanOpen(module)

Guard(p) ==
  \/ \E u \in Users, op \in Ops : Enter(p, u, op)
  \/ LoadHotel(p) \/ LoadSubscription(p) \/ Handle(p)

Edit(p) ==
  \/ \E r \in Editable, perms \in Grantable, name \in Names :
       CreateRole(p, r, perms, name) \/ UpdateRole(p, r, perms, name)
  \/ \E r \in Editable : DeleteRole(p, r)
  \/ SaveRole(p) \/ RemoveRole(p)

Staffing ==
  \E u \in Users :
    \/ \E r \in Editable : AssignRole(u, r)
    \/ \E active, must \in BOOLEAN : ChangeAccount(u, active, must)

Step == World \/ Staffing \/ \E p \in Calls : Guard(p) \/ Edit(p)

HoldsRole(p, r) == call[p].pc \in {"save", "remove"} /\ call[p].key = r
Saves(r) == {p \in Calls : /\ call[p].pc = "save" /\ call'[p].pc = "idle"
                            /\ call[p].key = r /\ role'[r] = call[p].row}

Watch ==
  /\ allowed' = [c \in DOMAIN allowed |->
       IF CASE c = "open" -> ~hotel'.suspended
            [] c = "module" -> hotel'.module
            [] c = "writable" -> hotel'.sub # "expired"
       THEN now' ELSE allowed[c]]
  /\ granted' = [r \in Roles |->
       IF Saves(r) = {} THEN granted[r]
       ELSE UNION {call[p].row.perms \cap (call[p].perms \cup granted[r]) : p \in Saves(r)}]
  /\ raced' = raced \cup {r \in Roles : \E p, q \in Calls : p # q /\ HoldsRole(p, r)' /\ HoldsRole(q, r)'}

Next == Step /\ Watch
Spec == Init /\ [][Next]_vars

----------------------------------------------------------------------------
(* A request that is let in was allowed in: the hotel was open, had the    *)
(* module and could be written to within the last life of a cached state   *)
(* and a load, however loads overlap and whatever the vendor changes.      *)
AdmittedWasAllowed ==
  [][\A p \in Calls : call[p].pc # "in" /\ call'[p].pc = "in" =>
       LET op == call'[p].op
           Recently(c) == now < allowed[c] + Ttl + MaxLoad
       IN /\ Recently("open")
          /\ op.module => Recently("module")
          /\ op.mutates => Recently("writable")]_vars

(* A role holds nothing but what somebody put there who held it (apart     *)
(* from roles that two requests edit at once), the owner's holds all, no   *)
(* two roles share a name, and every account has a role: whatever edits,   *)
(* removals and assignments come between.                                  *)
RolesAreGranted ==
  /\ role \in [Roles -> Role]
  /\ role[Owner].perms = Permissions
  /\ \A r \in Editable : There(r) =>
       /\ r \notin raced => role[r].perms \subseteq granted[r]
       /\ \A q \in Editable : There(q) /\ role[q].name = role[r].name => q = r
  /\ \A u \in Users : There(user[u].role)
=============================================================================
