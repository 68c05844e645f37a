------------------------------- MODULE Plans -------------------------------
(***************************************************************************)
(* The vendor's catalog of plans (PlansService) with the hotels that       *)
(* subscribe to them and the rooms they add.  `Subscriptions` follows one  *)
(* hotel closely with plans that never change; here the plans change, and  *)
(* a hotel is its open subscription and its `roomsCount`.                  *)
(*                                                                         *)
(* A plan is edited by whole-row saves; neither its name nor its being the *)
(* one trial is guarded by the database.                                   *)
(***************************************************************************)
EXTENDS Naturals

CONSTANTS Ids, Names, Hotels, Callers,
          Limits,     \* values of maxRooms, null being the largest
          None

Parameters == Limits \subseteq Nat /\ Limits # {} /\ None \notin Ids

VARIABLES plan,   \* table plans
          sub,    \* the open subscription of each hotel
          rooms,  \* hotels.roomsCount
          call,   \* what each call has read and will save
          lapped  \* whether two calls were ever under way at once

vars == <<plan, sub, rooms, call, lapped>>

NoPlan == [status |-> "none", name |-> None, trial |-> FALSE, limit |-> 0]
NoSub == [to |-> None, forced |-> FALSE]
Idle == [pc |-> "idle", key |-> None, row |-> NoPlan, to |-> None]

Init ==
  /\ plan = [i \in Ids |-> NoPlan]
  /\ sub = [h \in Hotels |-> NoSub] /\ rooms = [h \in Hotels |-> 0]
  /\ call = [p \in Callers |-> Idle] /\ lapped = FALSE

----------------------------------------------------------------------------
Note == lapped' = (lapped \/ \E q \in Callers : call[q] # Idle)

Begin(p, next) ==
  /\ call[p] = Idle /\ call' = [call EXCEPT ![p] = next]
  /\ Note /\ UNCHANGED <<plan, sub, rooms>>

Judged(p, i, row) == Begin(p, [Idle EXCEPT !.pc = "plan", !.key = i, !.row = row])

Exists(i) == plan[i].status # "none"
countCurrentSubscribers(i) == {h \in Hotels : sub[h].to = i}
NameFree(name, i) == \A j \in Ids \ {i} : Exists(j) => plan[j].name # name

SingleActiveTrial(i) == \A j \in Ids \ {i} : plan[j].trial => plan[j].status # "active"

(* A limit may not be tightened below the rooms of a subscriber. *)
LimitHolds_Looser(i, limit) ==
  limit > plan[i].limit => \A h \in countCurrentSubscribers(i) : rooms[h] <= limit
LimitHolds(i, limit) ==
  limit < plan[i].limit => \A h \in countCurrentSubscribers(i) : rooms[h] <= limit

Create(p, i, name, trial, limit) ==
  /\ ~Exists(i) /\ NameFree(name, i)
  /\ trial => SingleActiveTrial(i)
  /\ Judged(p, i, [status |-> "active", name |-> name, trial |-> trial, limit |-> limit])

(* What one edit may set.  An active plan becomes the trial only if no     *)
(* other is; the duration a trial asks for is left out: a later edit may   *)
(* set it to null.                                                         *)
Edits(i) ==
  {[plan[i] EXCEPT !.name = name] : name \in {n \in Names : NameFree(n, i)}}
    \cup {[plan[i] EXCEPT !.limit = limit] : limit \in {n \in Limits : LimitHolds(i, n)}}
    \cup {[plan[i] EXCEPT !.trial = FALSE]}
    \cup {row \in {[plan[i] EXCEPT !.trial = TRUE]} :
            plan[i].trial \/ plan[i].status # "active" \/ SingleActiveTrial(i)}

Update(p, i) == Exists(i) /\ \E row \in Edits(i) : Judged(p, i, row)

Archive_Subscribed(p, i) ==
  /\ plan[i].status = "active"
  /\ Judged(p, i, [plan[i] EXCEPT !.status = "archived"])

Archive(p, i) ==
  /\ plan[i].status = "active" /\ countCurrentSubscribers(i) = {}
  /\ Judged(p, i, [plan[i] EXCEPT !.status = "archived"])

Restore_Unchecked(p, i) ==
  /\ plan[i].status = "archived"
  /\ Judged(p, i, [plan[i] EXCEPT !.status = "active"])

Restore(p, i) ==
  /\ plan[i].status = "archived"
  /\ plan[i].trial => SingleActiveTrial(i)
  /\ Judged(p, i, [plan[i] EXCEPT !.status = "active"])

SavePlan(p) ==
  /\ call[p].pc = "plan"
  /\ plan' = [plan EXCEPT ![call[p].key] = call[p].row]
  /\ call' = [call EXCEPT ![p] = Idle]
  /\ UNCHANGED <<sub, rooms, lapped>>

----------------------------------------------------------------------------
(* createInitialSubscription and changePlan, as far as they look at the    *)
(* plan; the row they insert is a subscription to its id.                  *)
Subscribe(p, h, i, force) ==
  /\ plan[i].status = "active"
  /\ sub[h] = NoSub => ~force
  /\ ~force => rooms[h] <= plan[i].limit
  /\ Begin(p, [Idle EXCEPT !.pc = IF force THEN "force" ELSE "subscribe", !.key = h, !.to = i])

SaveSub(p) ==
  /\ call[p].pc \in {"subscribe", "force"}
  /\ sub' = [sub EXCEPT ![call[p].key] = [to |-> call[p].to, forced |-> call[p].pc = "force"]]
  /\ call' = [call EXCEPT ![p] = Idle]
  /\ UNCHANGED <<plan, rooms, lapped>>

(* Rooms come under the lock of the hotel, up to the limit of its plan. *)
AddRoom(h) ==
  /\ sub[h] # NoSub /\ rooms[h] + 1 <= plan[sub[h].to].limit
  /\ rooms' = [rooms EXCEPT ![h] = @ + 1] /\ Note /\ UNCHANGED <<plan, sub, call>>

CloseRoom(h) == rooms[h] > 0 /\ rooms' = [rooms EXCEPT ![h] = @ - 1] /\ UNCHANGED <<plan, sub, call, lapped>>

Next ==
  \/ \E p \in Callers : SavePlan(p) \/ SaveSub(p)
  \/ \E p \in Callers, i \in Ids :
       \/ Update(p, i) \/ Archive(p, i) \/ Restore(p, i)
       \/ \E name \in Names, trial \in BOOLEAN, limit \in Limits : Create(p, i, name, trial, limit)
       \/ \E h \in Hotels, force \in BOOLEAN : Subscribe(p, h, i, force)
  \/ \E h \in Hotels : AddRoom(h) \/ CloseRoom(h)

Spec == Init /\ [][Next]_vars

----------------------------------------------------------------------------
(* When neither calls nor new rooms fall between the reads and the save of *)
(* a call: no name is used twice, archived plans included, there is one    *)
(* active trial at most, nobody is subscribed to an archived plan, and a   *)
(* plan is as large as every hotel on it that was not forced there,        *)
(* however plans are edited and hotels grow and move.                      *)
CatalogHolds == lapped \/
  /\ \A i, j \in Ids : Exists(i) /\ Exists(j) /\ i # j =>
       /\ plan[i].name # plan[j].name
       /\ ~(plan[i].trial /\ plan[j].trial /\ plan[i].status = "active" /\ plan[j].status = "active")
  /\ \A h \in Hotels : sub[h] # NoSub =>
       /\ plan[sub[h].to].status = "active"
       /\ sub[h].forced \/ rooms[h] <= plan[sub[h].to].limit
=============================================================================
