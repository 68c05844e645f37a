------------------------------ MODULE Requests ------------------------------
(***************************************************************************)
(* Service requests of one stay (GuestRequestsService,                     *)
(* TenantRequestsService) and the hotel's request catalog they are made    *)
(* from (TenantRequestCatalogService, RequestCatalogViewService).          *)
(*                                                                         *)
(* A request or a setting is read, judged and saved whole later, without a *)
(* lock.  `raced` collects the rows that two open calls held at once; the  *)
(* properties speak of all the others.                                     *)
(***************************************************************************)
EXTENDS Naturals, FiniteSets, SequencesExt

CONSTANTS Tickets,                \* rows of the table requests
          Items, Custom,          \* catalog items; those the hotel may add
          Guests, Staff, Editors, \* concurrent calls of guests, staff, management
          None,
          Slas,                   \* SLA targets a hotel may set
          MaxOpen, MaxPerDay,     \* throttles of a stay
          MaxRaced                \* bound: rows that calls collide on

ASSUME RequestsAssumption ==
  /\ MaxOpen \in Nat \ {0} /\ MaxPerDay \in Nat \ {0} /\ MaxRaced \in Nat
  /\ Slas \subseteq Nat \ {0} /\ Custom \subseteq Items
  /\ Tickets \cap Items = {} /\ None \notin Staff \cup Tickets \cup Items
  /\ Guests \cap Staff = {} /\ Guests \cap Editors = {} /\ Staff \cap Editors = {}
  /\ IsFiniteSet(Tickets) /\ IsFiniteSet(Items) /\ IsFiniteSet(Guests \cup Staff \cup Editors)

VARIABLES row,     \* table requests
          setting, \* table hotel_request_item_settings
          item,    \* request_items: the sort order of an item, 0 when absent
          catOn,   \* the setting of the category
          call,    \* what each call has read
          placed,  \* the requests placed since the last midnight of the hotel
          chosen,  \* ghost: what the calls that ended asked of each setting
          offered, \* ghost: submissions whose item was on offer meanwhile
          raced    \* ghost: rows held by two calls at once

vars == <<row, setting, item, catOn, call, placed, chosen, offered, raced>>

Procs == Guests \cup Staff \cup Editors
Open == {"new", "in_progress"}
Statuses == Open \cup {"none", "done", "cancelled"}
Row == [status: Statuses, by: Staff \cup {None}]
Columns == {"on", "sla", "sort"}
Setting == [has: BOOLEAN, on: {"null", "yes", "no"}, sla: {0} \cup Slas, sort: Nat]

NoRow == [status |-> "none", by |-> None]
NoSetting == [has |-> FALSE, on |-> "null", sla |-> 0, sort |-> 0]
IdleCall == [pc |-> "idle", key |-> None, row |-> NoRow, set |-> NoSetting, ask |-> {}, rest |-> <<>>]
Call == [pc: {"idle", "submit", "insert", "save", "curate", "order", "create"},
         key: Tickets \cup Items \cup {None}, row: Row,
         set: Setting, ask: SUBSET Columns,  \* the setting to save, the columns asked for
         rest: Seq(Items \X Nat)]            \* items still to be put in order, and where

Init ==
  /\ row = [c \in Tickets |-> NoRow]
  /\ setting = [i \in Items |-> NoSetting]
  /\ item = [i \in Items |-> IF i \in Custom THEN 0 ELSE 1]
  /\ catOn = TRUE
  /\ call = [p \in Procs |-> IdleCall]
  /\ placed = {}
  /\ chosen = [i \in Items |-> NoSetting]
  /\ offered = {} /\ raced = {}

Idle(p) == call[p].pc = "idle"
Go(p, q) == call' = [call EXCEPT ![p] = q]
Hold(p, c, r) == Go(p, [IdleCall EXCEPT !.pc = "save", !.key = c, !.row = r])
Held(p) == IF call[p].pc \in {"save", "curate"} THEN {call[p].key} ELSE {}

Catalog == <<setting, item, catOn, chosen>>
Feed == <<row, placed>>

----------------------------------------------------------------------------
(* The effective catalog: the platform's items under the hotel's settings. *)
Offered(i) == catOn /\ item[i] > 0 /\ setting[i].on # "no"
SortOf(i) == IF setting[i].sort = 0 THEN item[i] ELSE setting[i].sort
Visible == {i \in Items : item[i] > 0}

----------------------------------------------------------------------------
(* Guests. *)
OpenTickets_NewOnly == {c \in Tickets : row[c].status = "new"}
OpenTickets == {c \in Tickets : row[c].status \in Open}

TodaysTickets == placed

(* submit counts, then reads the catalog, then inserts. *)
SubmitCheck(p, i) ==
  /\ Idle(p)
  /\ Cardinality(OpenTickets) < MaxOpen /\ Cardinality(TodaysTickets) < MaxPerDay
  /\ Go(p, [IdleCall EXCEPT !.pc = "submit", !.key = i])
  /\ UNCHANGED <<Feed, Catalog>>

(* An item that is unknown or switched off is refused: 404 or 409. *)
SubmitResolve_ItemOnly(p) ==
  /\ call[p].pc = "submit"
  /\ Go(p, IF item[call[p].key] > 0 THEN [call[p] EXCEPT !.pc = "insert"] ELSE IdleCall)
  /\ UNCHANGED <<Feed, Catalog>>

SubmitResolve(p) ==
  /\ call[p].pc = "submit"
  /\ Go(p, IF Offered(call[p].key) THEN [call[p] EXCEPT !.pc = "insert"] ELSE IdleCall)
  /\ UNCHANGED <<Feed, Catalog>>

SubmitInsert(p, c) ==
  /\ call[p].pc = "insert" /\ row[c].status = "none"
  /\ row' = [row EXCEPT ![c] = [NoRow EXCEPT !.status = "new"]]
  /\ placed' = placed \cup {c}
  /\ Go(p, IdleCall)
  /\ UNCHANGED Catalog

CancelOwnRead(p, c) ==
  /\ Idle(p) /\ row[c].status = "new"
  /\ Hold(p, c, [row[c] EXCEPT !.status = "cancelled"])
  /\ UNCHANGED <<Feed, Catalog>>

----------------------------------------------------------------------------
(* Staff. *)
(* Starting a request nobody owns takes it. *)
StartRead(p, c) ==
  /\ Idle(p) /\ row[c].status = "new"
  /\ Hold(p, c, [status |-> "in_progress", by |-> IF row[c].by = None THEN p ELSE row[c].by])
  /\ UNCHANGED <<Feed, Catalog>>

CompleteRead(p, c) ==
  /\ Idle(p) /\ row[c].status = "in_progress"
  /\ Hold(p, c, [row[c] EXCEPT !.status = "done"])
  /\ UNCHANGED <<Feed, Catalog>>

CancelRead_Anytime(p, c) ==
  /\ Idle(p) /\ row[c].status # "none"
  /\ Hold(p, c, [row[c] EXCEPT !.status = "cancelled"])
  /\ UNCHANGED <<Feed, Catalog>>

CancelRead(p, c) ==
  /\ Idle(p) /\ row[c].status \in Open
  /\ Hold(p, c, [row[c] EXCEPT !.status = "cancelled"])
  /\ UNCHANGED <<Feed, Catalog>>

(* To an active member of the staff who may work requests, or to nobody. *)
AssignRead(p, c, to) ==
  /\ Idle(p) /\ row[c].status \in Open
  /\ Hold(p, c, [row[c] EXCEPT !.by = to])
  /\ UNCHANGED <<Feed, Catalog>>

Save(p) ==
  /\ call[p].pc = "save"
  /\ row' = [row EXCEPT ![call[p].key] = call[p].row]
  /\ Go(p, IdleCall)
  /\ UNCHANGED <<placed, Catalog>>

----------------------------------------------------------------------------
(* Management. *)
Merge(old, new, cols) ==
  [old EXCEPT !.on = IF "on" \in cols THEN new.on ELSE @,
              !.sla = IF "sla" \in cols THEN new.sla ELSE @,
              !.sort = IF "sort" \in cols THEN new.sort ELSE @]

HoldSetting_Fresh(p, i, new, cols, rest) ==
  Go(p, [IdleCall EXCEPT !.pc = "curate", !.key = i, !.ask = cols, !.rest = rest,
                         !.set = Merge([NoSetting EXCEPT !.has = setting[i].has], new, cols)])

(* The row found, or a new one whose other columns are null. *)
HoldSetting(p, i, new, cols, rest) ==
  Go(p, [IdleCall EXCEPT !.pc = "curate", !.key = i, !.ask = cols, !.rest = rest,
                         !.set = Merge(setting[i], new, cols)])

(* updateItem: whether the item is enabled, its SLA target, or both. *)
UpdateItemRead(p, i, new, cols) ==
  /\ Idle(p) /\ i \in Visible /\ cols # {} /\ cols \subseteq {"on", "sla"}
  /\ HoldSetting(p, i, new, cols, <<>>)
  /\ UNCHANGED <<Feed, Catalog>>

(* reorderItems: items of the category, each once; one row after another. *)
ReorderStart(p, order) ==
  /\ Idle(p) /\ order # <<>> /\ ToSet(order) \subseteq Visible /\ IsInjective(order)
  /\ Go(p, [IdleCall EXCEPT !.pc = "order", !.rest = [k \in DOMAIN order |-> <<order[k], k>>]])
  /\ UNCHANGED <<Feed, Catalog>>

ReorderRead(p) ==
  /\ call[p].pc = "order"
  /\ LET next == Head(call[p].rest)
     IN HoldSetting(p, next[1], [NoSetting EXCEPT !.sort = next[2]], {"sort"}, Tail(call[p].rest))
  /\ UNCHANGED <<Feed, Catalog>>

(* A new setting that another call has inserted meanwhile is refused by    *)
(* the unique index and ends the call.                                     *)
CurateSave(p) ==
  LET i == call[p].key
      taken == ~call[p].set.has /\ setting[i].has
  IN /\ call[p].pc = "curate"
     /\ setting' = IF taken THEN setting ELSE [setting EXCEPT ![i] = [call[p].set EXCEPT !.has = TRUE]]
     /\ chosen' = IF taken THEN chosen ELSE [chosen EXCEPT ![i] = Merge(@, call[p].set, call[p].ask)]
     /\ Go(p, IF taken \/ call[p].rest = <<>> THEN IdleCall
              ELSE [IdleCall EXCEPT !.pc = "order", !.rest = call[p].rest])
     /\ UNCHANGED <<Feed, item, catOn>>

(* createCustomItem: behind the last item it saw, into the table later.   *)
CreateCustomRead(p, i) ==
  /\ Idle(p) /\ i \in Custom \ Visible
  /\ Go(p, [IdleCall EXCEPT !.pc = "create", !.key = i,
                            !.set.sort = 1 + Max({0} \cup {SortOf(j) : j \in Visible})])
  /\ UNCHANGED <<Feed, Catalog>>

CreateCustomInsert(p) ==
  /\ call[p].pc = "create"
  /\ item' = [item EXCEPT ![call[p].key] = call[p].set.sort]
  /\ Go(p, IdleCall)
  /\ UNCHANGED <<Feed, setting, catOn, chosen>>

(* setCategoryEnabled: the setting has one column, so the last save wins   *)
(* whatever was read.                                                      *)
SetCategoryEnabled(on) ==
  /\ catOn # on /\ catOn' = on
  /\ UNCHANGED <<Feed, setting, item, chosen, call>>

Midnight ==
  /\ placed # {} /\ placed' = {}
  /\ UNCHANGED <<row, call, Catalog>>

----------------------------------------------------------------------------
GuestStep(p) ==
  \/ \E i \in Items : SubmitCheck(p, i)
  \/ SubmitResolve(p)
  \/ \E c \in Tickets : SubmitInsert(p, c) \/ CancelOwnRead(p, c)
  \/ Save(p)

StaffStep(p) ==
  \/ \E c \in Tickets :
       \/ StartRead(p, c) \/ CompleteRead(p, c) \/ CancelRead(p, c)
       \/ \E to \in Staff \cup {None} : AssignRead(p, c, to)
  \/ Save(p)

EditorStep(p) ==
  \/ \E i \in Items, on \in {"yes", "no"}, sla \in Slas, cols \in SUBSET Columns :
       UpdateItemRead(p, i, [NoSetting EXCEPT !.on = on, !.sla = sla], cols)
  \/ \E order \in SeqOf(Items, Cardinality(Items)) : ReorderStart(p, order)
  \/ ReorderRead(p) \/ CurateSave(p)
  \/ \E i \in Custom : CreateCustomRead(p, i)
  \/ CreateCustomInsert(p)

Work ==
  \/ \E p \in Guests : GuestStep(p)
  \/ \E p \in Staff : StaffStep(p)
  \/ Midnight

Curate ==
  \/ \E p \in Editors : EditorStep(p)
  \/ \E on \in BOOLEAN : SetCategoryEnabled(on)

Step == Work \/ Curate

Submitting == {p \in Guests : call[p].pc \in {"submit", "insert"}}
OnOffer == {p \in Submitting : Offered(call[p].key)}

Watch ==
  /\ raced' = raced \cup {c \in Tickets \cup Items : Cardinality({p \in Procs : c \in Held(p)'}) > 1}
  /\ offered' = Submitting' \cap (offered \cup OnOffer')
  /\ Cardinality(raced') <= MaxRaced

Next == Step /\ Watch

Spec == Init /\ [][Next]_vars

----------------------------------------------------------------------------
TypeOK ==
  /\ row \in [Tickets -> Row] /\ placed \subseteq Tickets
  /\ setting \in [Items -> Setting] /\ chosen \in [Items -> Setting]
  /\ item \in [Items -> Nat] /\ catOn \in BOOLEAN
  /\ call \in [Procs -> Call] /\ offered \subseteq Guests
  /\ raced \subseteq Tickets \cup Items

(* Count and insert of a request are apart: a stay exceeds its limits by   *)
(* at most the other submissions it has under way.                         *)
RequestsThrottled ==
  /\ Cardinality({c \in Tickets \ raced : row[c].status \in Open}) + Cardinality(Submitting)
       <= MaxOpen - 1 + Cardinality(Guests)
  /\ Cardinality(placed) + Cardinality(Submitting) <= MaxPerDay - 1 + Cardinality(Guests)

(* Well-formed rows, and the setting of an item is what the calls that     *)
(* ended asked of it, column by column: curating one column gives back no  *)
(* other, though the whole row is saved, and a reorder moves nothing else. *)
CurationSticks ==
  /\ TypeOK
  /\ \A i \in Items \ raced : setting[i].has \/ chosen[i] # NoSetting =>
       [setting[i] EXCEPT !.has = FALSE] = chosen[i]

(* A request that was submitted came from an item that was on offer at     *)
(* some moment of the submission: a switch that was off all along, of the  *)
(* item or of its category, lets none through.                             *)
OnlyWhatIsOffered ==
  [][\A p \in Guests : call[p].pc = "insert" /\ call'[p].pc = "idle" => p \in offered]_vars

Moves == {<<"none", "new">>, <<"new", "in_progress">>, <<"new", "cancelled">>,
          <<"in_progress", "done">>, <<"in_progress", "cancelled">>}

(* A request moves through new, in_progress, done or cancelled, never back *)
(* and never out of a final state, it gets an owner when work on it        *)
(* starts, and a final row is not written again.                           *)
TicketsMoveForward ==
  [][\A c \in Tickets \ raced' : row'[c] # row[c] =>
       /\ row[c].status \in Open \cup {"none"}
       /\ row'[c].status # row[c].status => <<row[c].status, row'[c].status>> \in Moves
       /\ row[c].status = "new" /\ row'[c].status = "in_progress" => row'[c].by # None]_vars
=============================================================================
