------------------------------- MODULE MCSubs -------------------------------
(***************************************************************************)
(* Subscriptions on a small hotel. Requests come one at a time over three  *)
(* days, for one of the rooms or for all, with none out of service; or two *)
(* room operations and edits of the hotel overlap; or two plan changes,    *)
(* extensions and the cron run overlap over all days, with failures, in a  *)
(* hotel that has no rooms and forces no plan.  Or, in the hotel's         *)
(* kitchen, one manager edits a menu, column by column, under an order; or *)
(* two managers build one.  Or the vendor edits two plans while a hotel    *)
(* subscribes, moves and grows; or two managers of a hotel add and edit    *)
(* rooms and types around a guest.                                         *)
(***************************************************************************)
EXTENDS Subscriptions, Sequences, TLC

CONSTANTS Ids, Names, Chain, Vendors, Cataloger, Limits,  \* the vendor's plans, and who edits them
          \* the kitchen:
          Items, Sections, Menus, Places, SectionOf, MenuOf, PriceLists, Plain, Hours, Guests, Managers, MaxCommits,
          \* the rooms:
          Types, TypeNames, Numbers, Batches, Callers, Limit, MaxRooms

VARIABLES scene, plan, onPlan, built, call, lapped,
          food, roomCharge, hour, edit, cart, book, shown, commits

Kitchen == INSTANCE Menus WITH row <- food, charge <- roomCharge
kitchenVars == <<food, roomCharge, hour, edit, cart, book, shown, commits>>

Shop == INSTANCE Plans WITH sub <- onPlan, rooms <- built, Hotels <- Chain, Callers <- Vendors
shopVars == <<plan, onPlan, built, call, lapped>>

\* The rooms use the variables of the shop.
Stock == INSTANCE Inventory WITH types <- plan, rooms <- built, stay <- onPlan, Names <- TypeNames

ASSUME ScenesAssumption == Kitchen!Parameters /\ Shop!Parameters /\ Stock!Parameters

\* What the run gives SectionOf, MenuOf, PriceLists and Batches.
DishSection == "dish" :> "section"
DishMenu == "dish" :> "menu"
Prices == {"plain" :> 2, "small" :> 3}
Pairs ==
  LET Row == [number : {"101", "102"}, type : {"single", "suite"}] IN {<<a, b>> : a, b \in Row}

\* An order to the pool on the room, of an option in cash, of what is included.
Asked == {[item |-> "dish", option |-> "plain", place |-> "pool", pay |-> "room_charge"],
          [item |-> "dish", option |-> "small", place |-> None, pay |-> "cash"],
          [item |-> "dish", option |-> "plain", place |-> None, pay |-> "nothing"]}

Dining ==
  /\ Kitchen!Step
  /\ edit'["host"].pc = "idle" /\ commits' <= 2 /\ ~food'["bar"].has
  /\ hour' # hour => cart["diner"].pc # "idle" \/ book["diner"].made
  /\ cart'["diner"].pc # "idle" => cart'["diner"].ask \in Asked
  /\ cart'["diner"].pc = "item" => hour = 1
  /\ edit["chef"].pc = "idle" /\ edit'["chef"].pc = "save" =>
       LET new == edit'["chef"].row old == food[edit'["chef"].key]
       IN new.hours # {1} /\ Cardinality({c \in DOMAIN old : new[c] # old[c]}) = 1
  /\ book["diner"].made => <<food, roomCharge, edit>>' = <<food, roomCharge, edit>>
  /\ Kitchen!Watch

Building ==
  /\ Kitchen!Step /\ cart' = cart /\ roomCharge' = roomCharge
  /\ \A p \in DOMAIN edit : edit'[p].pc # "idle" => edit'[p].key \in {"pool", "bar"}
  /\ Kitchen!Watch

\* One edits plans, one subscriptions; after they have overlapped, only the first.
Selling ==
  /\ Shop!Next
  /\ call'[Cataloger].pc \in {"idle", "plan"}
  /\ \A p \in Vendors \ {Cataloger} : call'[p].pc # "plan" /\ (lapped => call'[p].pc = "idle")
  /\ lapped => built' = built

\* Bulk commits beside edits of rooms, column by column, of types, and stays in two.
Stocking ==
  /\ Stock!Next
  /\ call["clerk"].pc = "idle" /\ call'["clerk"].pc # "idle" => ~lapped /\ call'["clerk"].ask # <<>>
  /\ call'["manager"].ask = <<>>
  /\ LET next == call'["manager"] IN
       /\ call["manager"].pc = "idle" /\ next.pc = "rooms" =>
            /\ ~lapped /\ (next.at = 0 \/ next.rows[1].status # "out_of_service")
            /\ IF next.at = Len(built) THEN next.rows[1] = [number |-> "103", type |-> "suite", status |-> "active"]
               ELSE Cardinality({c \in DOMAIN next.rows[1] : next.rows[1][c] # built[next.at + 1][c]}) = 1
       /\ next.pc = "type" => next.row.name = (IF next.key = "suite" THEN "one" ELSE "two")
  /\ "was" \notin onPlan'[2] /\ onPlan'[3] = {}

MCInit ==
  /\ Init /\ Kitchen!Init
  /\ scene \in IF crowd = 1 THEN {"alone", "dine", "build", "shop", "rooms"} ELSE {"seats", "trials"}
  /\ IF scene = "rooms" THEN Stock!Init /\ plan["suite"].has /\ plan["suite"].name = "one" ELSE Shop!Init
  /\ food["dish"].has = (scene = "dine") /\ hour = 1
  /\ scene \in {"dine", "build", "shop", "rooms"} => sub[1].ends = 0

First == CHOOSE p \in Admins : TRUE
FirstRoom == CHOOSE r \in Rooms : TRUE

HotelNext ==
  /\ Next
  /\ scene # "trials" => faults' = 0
  /\ scene = "alone" => day' <= 2 /\ \A p \in Admins : req'[p] # IdleReq =>
       p = First /\ req'[p].to # "out_of_service" /\ req'[p].set \in {{}, {FirstRoom}, Rooms}
  /\ scene = "seats" => day' = 0 /\ Changing' = {} /\ \A p \in Admins : req'[p].pc # "extend"
  /\ scene = "trials" => \A p \in Admins : req'[p].pc \notin {"hotel", "limit"} /\ ~req'[p].force
                         /\ room' = room

MCNext ==
  /\ scene' = scene
  /\ \/ scene \in {"alone", "seats", "trials"} /\ HotelNext /\ UNCHANGED <<kitchenVars, shopVars>>
     \/ scene = "dine" /\ Dining /\ UNCHANGED <<vars, shopVars>>
     \/ scene = "build" /\ Building /\ UNCHANGED <<vars, shopVars>>
     \/ scene = "shop" /\ Selling /\ UNCHANGED <<vars, kitchenVars>>
     \/ scene = "rooms" /\ Stocking /\ UNCHANGED <<vars, kitchenVars>>

MCSpec == MCInit /\ [][MCNext]_<<vars, kitchenVars, shopVars, scene>>

MCFairSpec ==
  /\ MCSpec
  /\ \A p \in Admins : WF_vars(Continue(p))
  /\ SF_vars(JobRead) /\ WF_vars(JobSave)

\* One hotel's plan (Subscriptions!AlonePlanHolds) and the catalog (Plans!CatalogHolds).
PlansHold == AlonePlanHolds /\ (scene # "rooms" => Shop!CatalogHolds)

\* Seats under the lock: Subscriptions!SeatsWithinLimit, and what Inventory promises.
RoomsStand ==
  /\ SeatsWithinLimit
  /\ [](scene = "rooms" => Stock!LockedWritesFit)
  /\ [][scene = "rooms" => Stock!NumbersStay]_shopVars

OrderedAsShown == Kitchen!OrderedAsShown
=============================================================================
