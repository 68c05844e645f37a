------------------------------- MODULE Menus -------------------------------
(***************************************************************************)
(* The food catalog of a hotel and the order a guest places from it        *)
(* (TenantFnbMenusService, TenantFnbLocationsService, GuestFnbService,     *)
(* resolvePrice).                                                          *)
(*                                                                         *)
(* The catalog is four tables.  A manager's edit reads a row, merges the   *)
(* columns sent and saves the row whole, later.  An order of a guest reads *)
(* the item, then its section and its menu, then the delivery location,    *)
(* each in a query of its own, while the catalog is being edited.          *)
(***************************************************************************)
EXTENDS Naturals, FiniteSets

CONSTANTS Items, Sections, Menus, Places, \* rows of the four tables
          SectionOf, MenuOf,     \* functions of Items: where an item hangs
          PriceLists,            \* what an item may cost: option key -> price
          Plain,                 \* the key of an item without options
          Hours,                 \* hotel-local times that windows tell apart
          Guests, Managers,      \* concurrent calls
          None,
          MaxCommits             \* bound: writes to the catalog

Rows == Items \cup Sections \cup Menus \cup Places

Parameters ==
  /\ SectionOf \in [Items -> Sections] /\ MenuOf \in [Items -> Menus]
  /\ Items \cap (Sections \cup Menus) = {} /\ Sections \cap Menus = {}
  /\ Places \cap (Items \cup Sections \cup Menus) = {}
  /\ PriceLists # {} /\ \A l \in PriceLists : \A option \in DOMAIN l : l[option] \in Nat
  /\ Plain # None /\ None \notin Rows /\ Guests \cap Managers = {} /\ MaxCommits \in Nat

VARIABLES row,     \* tables fnb_items, fnb_menu_sections, fnb_menus, fnb_locations
          charge,  \* hotels.roomChargeEnabled
          hour,    \* the time at the hotel
          edit,    \* what each manager's call has read
          cart,    \* what each guest's call has read
          book,    \* table fnb_orders: the order of each guest's call
          shown,   \* ghost: the terms each open call could have been shown
          commits  \* number of writes to the catalog

vars == <<row, charge, hour, edit, cart, book, shown, commits>>

Covers == {"inherit", "in", "out"}  \* includedFor, as seen by the guest's stay type
Row == [has: BOOLEAN, on: BOOLEAN, inc: Covers, price: PriceLists, hours: SUBSET Hours, key: Nat]

(* What the create calls give a row that the manager says nothing of.      *)
Blank(k) == [has |-> FALSE, on |-> TRUE, inc |-> IF k \in Menus THEN "out" ELSE "inherit",
             price |-> CHOOSE l \in PriceLists : TRUE, hours |-> {}, key |-> 0]

Ask == [item: Items, option: {Plain} \cup UNION {DOMAIN l : l \in PriceLists},
        place: Places \cup {None}, pay: {"cash", "room_charge", "nothing"}]
Terms == [price: Nat, charge: BOOLEAN]
IdleEdit == [pc |-> "idle"]
IdleCart == [pc |-> "idle"]
NoOrder == [made |-> FALSE]

(* A new hotel, or one whose catalog stands. *)
Init ==
  /\ \E there \in {{}, Items \cup Sections \cup Menus} :
       row = [k \in Rows |-> [Blank(k) EXCEPT !.has = k \in there]]
  /\ charge = FALSE /\ hour \in Hours
  /\ edit = [p \in Managers |-> IdleEdit] /\ cart = [g \in Guests |-> IdleCart]
  /\ book = [g \in Guests |-> NoOrder] /\ shown = [g \in Guests |-> {}] /\ commits = 0

----------------------------------------------------------------------------
(* Pricing and availability. *)
Open(m, h) == m.hours = {} \/ h \in m.hours

Included(i, m) == "in" = IF i.inc = "inherit" THEN m.inc ELSE i.inc

(* An option the item has; a plain item takes none. *)
Choosable(i, option) == option \in DOMAIN i.price

resolvePrice_EmptyInherits(i, m, option) ==
  IF i.inc = "in" \/ m.inc = "in" THEN 0 ELSE i.price[option]
resolvePrice(i, m, option) == IF Included(i, m) THEN 0 ELSE i.price[option]

(* The guest's menu (getMenus, toGuestItemView): what an order of `a` would *)
(* be shown at the time h, if its item is on the menu at all.              *)
OnTheMenu(a, h) ==
  LET i == row[a.item] s == row[SectionOf[a.item]] m == row[MenuOf[a.item]]
  IN IF /\ i.has /\ i.on /\ s.on /\ m.on /\ Open(m, h) /\ a.option \in DOMAIN i.price
        /\ (a.place # None => row[a.place].has /\ row[a.place].on)
     THEN {[price |-> IF "in" = (IF i.inc = "inherit" THEN m.inc ELSE i.inc) THEN 0 ELSE i.price[a.option],
            charge |-> charge]}
     ELSE {}

----------------------------------------------------------------------------
(* Managers. *)
EditFrame == UNCHANGED <<hour, cart, book>>

Commit(k, new) ==
  /\ commits < MaxCommits /\ commits' = commits + 1
  /\ row' = [row EXCEPT ![k] = new] /\ UNCHANGED charge

CreateMenu(m, on, inc, hours) ==
  /\ ~row[m].has
  /\ Commit(m, [Blank(m) EXCEPT !.has = TRUE, !.on = on, !.inc = inc, !.hours = hours])
  /\ UNCHANGED edit /\ EditFrame

CreateSection(s, on) ==
  /\ ~row[s].has /\ \A i \in Items : SectionOf[i] = s => row[MenuOf[i]].has
  /\ Commit(s, [Blank(s) EXCEPT !.has = TRUE, !.on = on])
  /\ UNCHANGED edit /\ EditFrame

CreateItem(i, on, inc, price) ==
  /\ ~row[i].has /\ row[SectionOf[i]].has
  /\ Commit(i, [Blank(i) EXCEPT !.has = TRUE, !.on = on, !.inc = inc, !.price = price])
  /\ UNCHANGED edit /\ EditFrame

(* The columns that were sent over the row that was found; an edit that    *)
(* changes nothing saves nothing.                                          *)
Hold(p, k, new) ==
  /\ edit[p].pc = "idle" /\ row[k].has
  /\ edit' = [edit EXCEPT ![p] = IF new = row[k] THEN IdleEdit
                                 ELSE [pc |-> "save", key |-> k, row |-> new]]
  /\ UNCHANGED <<row, charge, commits>> /\ EditFrame

UpdateMenu(p, m, on, inc, hours) ==
  Hold(p, m, [row[m] EXCEPT !.on = on, !.inc = inc, !.hours = hours])

UpdateSection(p, s, on) == Hold(p, s, [row[s] EXCEPT !.on = on])

UpdateItem(p, i, on, inc, price) ==
  Hold(p, i, [row[i] EXCEPT !.on = on, !.inc = inc, !.price = price])

(* A renamed location keeps its key. *)
UpdateLocation(p, l, on) == Hold(p, l, [row[l] EXCEPT !.on = on])

Save(p) ==
  /\ edit[p].pc = "save"
  /\ Commit(edit[p].key, edit[p].row)
  /\ edit' = [edit EXCEPT ![p] = IdleEdit] /\ EditFrame

(* uniqueKey: the first free number behind the name, read before the insert. *)
Keys == {row[l].key : l \in {l \in Places : row[l].has}}

CreateLocationRead(p, l, on) ==
  /\ edit[p].pc = "idle" /\ ~row[l].has
  /\ edit' = [edit EXCEPT ![p] =
       [pc |-> "create", key |-> l,
        row |-> [Blank(l) EXCEPT !.has = TRUE, !.on = on,
                   !.key = CHOOSE n \in 1..Cardinality(Places) :
                             n \notin Keys /\ \A k \in 1..(n - 1) : k \in Keys]]]
  /\ UNCHANGED <<row, charge, commits>> /\ EditFrame

CreateLocationInsert_NoIndex(p) ==
  /\ edit[p].pc = "create" /\ ~row[edit[p].key].has
  /\ Commit(edit[p].key, edit[p].row)
  /\ edit' = [edit EXCEPT ![p] = IdleEdit] /\ EditFrame

(* A key taken meanwhile is refused by the unique index and ends the call. *)
CreateLocationInsert(p) ==
  /\ edit[p].pc = "create" /\ ~row[edit[p].key].has
  /\ IF edit[p].row.key \in Keys THEN UNCHANGED <<row, charge, commits>>
     ELSE Commit(edit[p].key, edit[p].row)
  /\ edit' = [edit EXCEPT ![p] = IdleEdit] /\ EditFrame

(* The room-charge setting of the hotel profile. *)
SetRoomCharge(on) ==
  /\ charge # on /\ charge' = on
  /\ commits < MaxCommits /\ commits' = commits + 1
  /\ UNCHANGED <<row, edit>> /\ EditFrame

Tick(h) == h # hour /\ hour' = h /\ UNCHANGED <<row, charge, edit, cart, book, commits>>

----------------------------------------------------------------------------
(* Guests. *)
OrderFrame == UNCHANGED <<row, charge, hour, edit, commits>>
Refuse(g) == cart' = [cart EXCEPT ![g] = IdleCart] /\ UNCHANGED book
Go(g, c) == cart' = [cart EXCEPT ![g] = c] /\ UNCHANGED book

(* The time, and the hotel that the session's guard has loaded. *)
OrderStart(g, a) ==
  /\ cart[g].pc = "idle" /\ ~book[g].made
  /\ Go(g, [pc |-> "item", ask |-> a, hour |-> hour, charge |-> charge, since |-> commits])
  /\ OrderFrame

OrderItem(g) ==
  /\ cart[g].pc = "item"
  /\ LET c == cart[g] i == row[c.ask.item]
     IN IF i.has THEN Go(g, [pc |-> "parents", ask |-> c.ask, hour |-> c.hour, charge |-> c.charge,
                             since |-> c.since, item |-> i, read |-> <<>>])
        ELSE Refuse(g)
  /\ OrderFrame

(* Section and menu are read in parallel, the first of the two here. *)
OrderParent(g, k) ==
  /\ cart[g].pc = "parents" /\ cart[g].read = <<>>
  /\ k \in {SectionOf[cart[g].ask.item], MenuOf[cart[g].ask.item]}
  /\ Go(g, [cart[g] EXCEPT !.read = [x \in {k} |-> row[k]]])
  /\ OrderFrame

(* ... and the second, after which the line is judged and priced. *)
OrderJudge_ItemOnly(g) ==
  /\ cart[g].pc = "parents" /\ cart[g].read # <<>>
  /\ LET c == cart[g]
         m == IF MenuOf[c.ask.item] \in DOMAIN c.read THEN c.read[MenuOf[c.ask.item]]
              ELSE row[MenuOf[c.ask.item]]
     IN IF c.item.on /\ Choosable(c.item, c.ask.option)
        THEN Go(g, [pc |-> "place", ask |-> c.ask, hour |-> c.hour, charge |-> c.charge,
                    since |-> c.since, price |-> resolvePrice(c.item, m, c.ask.option)])
        ELSE Refuse(g)
  /\ OrderFrame

OrderJudge(g) ==
  /\ cart[g].pc = "parents" /\ cart[g].read # <<>>
  /\ LET c == cart[g]
         Read(k) == IF k \in DOMAIN c.read THEN c.read[k] ELSE row[k]
         s == Read(SectionOf[c.ask.item])
         m == Read(MenuOf[c.ask.item])
     IN IF /\ c.item.on /\ s.on /\ m.on /\ Open(m, c.hour)
           /\ Choosable(c.item, c.ask.option)
        THEN Go(g, [pc |-> "place", ask |-> c.ask, hour |-> c.hour, charge |-> c.charge,
                    since |-> c.since, price |-> resolvePrice(c.item, m, c.ask.option)])
        ELSE Refuse(g)
  /\ OrderFrame

Payable(c) == c.price > 0 => c.ask.pay = "cash" \/ (c.ask.pay = "room_charge" /\ c.charge)

(* To the room, or to a location that is active; a total of nothing is     *)
(* paid by nothing.                                                        *)
OrderPlace(g) ==
  /\ cart[g].pc = "place"
  /\ LET c == cart[g] l == c.ask.place
     IN IF (l # None => row[l].has /\ row[l].on) /\ Payable(c)
        THEN Go(g, [c EXCEPT !.pc = "insert", !.ask.pay = IF c.price > 0 THEN @ ELSE "nothing"])
        ELSE Refuse(g)
  /\ OrderFrame

OrderInsert(g) ==
  /\ cart[g].pc = "insert"
  /\ book' = [book EXCEPT ![g] = [made |-> TRUE, price |-> cart[g].price, pay |-> cart[g].ask.pay]]
  /\ cart' = [cart EXCEPT ![g] = IdleCart]
  /\ OrderFrame

----------------------------------------------------------------------------
Manage ==
  \E on \in BOOLEAN :
    \/ \E m \in Menus, inc \in {"in", "out"}, hours \in SUBSET Hours :
         \/ CreateMenu(m, on, inc, hours)
         \/ \E p \in Managers : UpdateMenu(p, m, on, inc, hours)
    \/ \E i \in Items, inc \in Covers, price \in PriceLists :
         \/ CreateItem(i, on, inc, price)
         \/ \E p \in Managers : UpdateItem(p, i, on, inc, price)
    \/ \E s \in Sections : CreateSection(s, on) \/ \E p \in Managers : UpdateSection(p, s, on)

Locate ==
  \E l \in Places, p \in Managers :
    \/ \E on \in BOOLEAN : CreateLocationRead(p, l, on) \/ UpdateLocation(p, l, on)
    \/ CreateLocationInsert(p)

Dine(g) ==
  \/ \E a \in Ask : OrderStart(g, a)
  \/ OrderItem(g) \/ OrderJudge(g) \/ OrderPlace(g) \/ OrderInsert(g)
  \/ \E k \in Rows : OrderParent(g, k)

Step ==
  \/ Manage \/ Locate
  \/ \E p \in Managers : Save(p)
  \/ \E on \in BOOLEAN : SetRoomCharge(on)
  \/ \E h \in Hours : Tick(h)
  \/ \E g \in Guests : Dine(g)

Watch ==
  shown' = [g \in Guests |->
    IF cart'[g].pc = "idle" THEN {}
    ELSE (IF cart[g].pc = "idle" THEN {} ELSE shown[g])
           \cup OnTheMenu(cart[g].ask, cart[g].hour)']

Next == Step /\ Watch
Spec == Init /\ [][Next]_vars

----------------------------------------------------------------------------
(* Keys of locations are on printed codes: no two locations share one, and *)
(* none ever changes, whatever two managers create and rename at once.     *)
KeysStand ==
  \A l \in Places : row[l].has =>
    /\ row'[l].has /\ row'[l].key = row[l].key
    /\ \A k \in Places \ {l} : row'[k].has => row'[k].key # row[l].key

(* An order costs, and may be charged to the room, as the menu showed it   *)
(* at one moment of the call: item, section, menu and location are read    *)
(* apart, but it takes two edits between the reads to make up an offer     *)
(* that never held.                                                        *)
OrderedAsShown ==
  [][/\ KeysStand
     /\ \A g \in Guests : book'[g] # book[g] /\ commits - cart[g].since < 2 =>
          \E t \in shown[g] :
            /\ book'[g].price = t.price
            /\ book'[g].pay = "room_charge" => t.charge
            /\ (book'[g].pay = "nothing") = (t.price = 0)]_vars
=============================================================================
