----------------------------- MODULE MCRequests -----------------------------
(* `scene` chooses what a behaviour explores: up to three calls of guests  *)
(* and staff on the requests; two managers on different settings and a     *)
(* submission, where the second item is only switched off and reordered;   *)
(* the boards the requests are polled from; the gate of the hotel under    *)
(* two requests of its staff; or the role editor under two.                *)
EXTENDS Requests, TLC

CONSTANTS Cards, Rooms, Users, Clients, Writers, MaxNow,     \* the boards (Feed)
          Accounts, Roles, Names, Owner, Permissions, Manage, \* the gate (Access)
          Calls, Ttl, MaxLoad, Horizon

VARIABLES scene, frow, stamp, tx, poll, view, cursor, now, missed,
          hotel, role, user, cache, entry, clock, allowed, granted, mixed

Board == INSTANCE Feed WITH row <- frow, Tickets <- Cards
boardVars == <<frow, stamp, tx, poll, view, cursor, now, missed>>

Gate == INSTANCE Access WITH call <- entry, now <- clock, raced <- mixed, Users <- Accounts
gateVars == <<hotel, role, user, cache, entry, clock, allowed, granted, mixed>>

ASSUME ScenesAssumption == Board!Parameters /\ Gate!Parameters

Busy == {p \in Procs : ~Idle(p)}

Working == Work /\ Watch /\ Cardinality(Busy') <= 3

Curating ==
  /\ Curate \/ \E p \in Guests : GuestStep(p)
  /\ Watch
  /\ Cardinality(Busy' \cap Guests) <= 1 /\ raced' = {}
  /\ row' # row => placed' # placed
  /\ \A i \in Custom : setting'[i].on # "yes" /\ setting'[i].sla = 0

(* The owner works in "c1" and the clerk in "c2". *)
Begins(c) == entry[c].pc = "idle" /\ entry'[c].pc # "idle"
Seats == (Begins("c1") => entry'["c1"].who = "owner") /\ (Begins("c2") => entry'["c2"].who = "clerk")

(* No roles change; a route needs a module, another writes; the hotel is   *)
(* suspended with its plan in force.                                       *)
Gating ==
  /\ Gate!Step /\ role' = role /\ user' = user /\ Seats
  /\ hotel'.suspended => hotel'.sub = "active" /\ hotel'.module
  /\ \A c \in {"c1", "c2"} : Begins(c) =>
       entry'[c].op = [perm |-> "orders", module |-> c = "c1", mutates |-> c = "c2"]
  /\ Gate!Watch

(* No time passes, and the clerk comes and goes between requests; once two *)
(* held a role, no request begins.                                         *)
Casting ==
  /\ Gate!Step /\ clock' = 0 /\ hotel' = hotel /\ Seats
  /\ user'["owner"] = user["owner"] /\ ~user'["clerk"].must
  /\ user'["clerk"].active \/ \A c \in {"c1", "c2"} : entry'[c].pc = "idle"
  /\ \A c \in {"c1", "c2"} : Begins(c) =>
       mixed = {} /\ entry'[c].op = [perm |-> "roles", module |-> FALSE, mutates |-> TRUE]
  /\ Gate!Watch

MCInit ==
  /\ Init /\ Board!Init /\ Gate!Init
  /\ scene \in {"work", "catalog", "board", "gate", "roles"}
  /\ user["owner"] = [active |-> TRUE, must |-> FALSE, role |-> "all"]
  /\ user["clerk"].must = FALSE
  /\ IF scene = "roles" THEN role["back"].is = "never" /\ user["clerk"].role = "front"
     ELSE user["clerk"].role = "all" /\ role["front"].is = "never" /\ role["back"].is = "never"
  /\ role["front"].name \in {None, "Front"}

MCNext ==
  /\ scene' = scene
  /\ \/ scene = "work" /\ Working /\ UNCHANGED <<boardVars, gateVars>>
     \/ scene = "catalog" /\ Curating /\ UNCHANGED <<boardVars, gateVars>>
     \/ scene = "board" /\ Board!Next /\ UNCHANGED <<vars, gateVars>>
     \/ scene = "gate" /\ Gating /\ UNCHANGED <<vars, boardVars>>
     \/ scene = "roles" /\ Casting /\ UNCHANGED <<vars, boardVars>>
MCSpec == MCInit /\ [][MCNext]_<<vars, boardVars, gateVars, scene>>

OnlyTheGapIsMissed == Board!OnlyTheGapIsMissed
AdmittedWasAllowed == Gate!AdmittedWasAllowed
RolesAreGranted == Gate!RolesAreGranted

Symmetry == Permutations(Tickets) \cup Permutations(Guests) \cup Permutations(Staff)
              \cup Permutations(Editors)
=============================================================================
