# Hotello backend: TLA+ models and proofs

Hotello is a multi-tenant hotel backend: NestJS services over TypeORM and one
PostgreSQL database, with cron jobs inside the same Node process. This project
models its stateful core in TLA+, model-checks it with TLC and proves its safety
properties with TLAPS. `PROJECT.json` lists components, runs, theorems, findings
and hazards, and maps every modelled definition to the source lines it stands
for (paths below are relative to `src/src/modules/`).

1. How the program can go wrong
2. Inventory
3. The modules
4. Runs and what they show
5. Proofs
6. What the models found
7. Not modelled
8. Plan

## 1. How the program can go wrong

Most services follow one pattern: **read** a row with `findOne`, **judge** it
(status machine, limits, ownership), `await` something else, then
`repository.save(entity)`. Three facts shape every model:

- Handlers interleave at every `await`, and several Node processes may run.
- TypeORM's `save` re-reads the row and writes each column that differs from
  the entity. Its effect is that the row becomes what the handler read plus
  what it changed: *columns the handler never touched are written back to the
  value they had when it read them*. All models save whole rows.
- Only some paths take `FOR UPDATE` locks (check-in and room change, bookings
  and event cancellation, staff and room seats, the push outbox); a plain read
  does not wait for them. Partial unique indexes and conditional `UPDATE ...
  WHERE status = 'pending'` are the other guards.

A request that is refused (4xx) changes nothing and is not a step. A crash
drops the requests of the process, and PostgreSQL rolls open transactions back.

## 2. Inventory

| Component | State | Operations | Talks to |
|---|---|---|---|
| Stay desk (`tenant-stays`) | `stays`: status, room, code, expected check-out; hotel row lock | check-in, edit, room change, code regeneration, checkout | rooms, housekeeping hook, push |
| Auto-checkout | `running` flag, batch of candidates | hourly run that closes overdue stays | stays, housekeeping hook |
| Rooms and types (`tenant-rooms`) | `rooms`: number, status, type; `room_types`; `hotels.roomsCount` | create, bulk preview and commit, update; create, rename, switch types | plan limit, stays |
| Housekeeping | `rooms`: cleaning status, type, assignee, DND stay, day stamp | flag, clear, start, complete, interrupt, assign, guest DND, vacate hook, five-minute daily service | stays, push |
| Events | `events`, `event_bookings` | edit, publish, cancel; book, withdraw; completion tick | settlement, announcements |
| Food menus (`fnb`) | menus, sections, items, delivery locations | create and edit rows; the menu a guest sees and orders from | orders |
| Food orders (`fnb`) | `fnb_orders` | place, withdraw, start, out for delivery, deliver, cancel, assign | settlement, push |
| Settlement | `settledAt` of charges | settle over all sources, food-only settle | fnb, events |
| Guest requests and catalog (`requests`) | `requests`, `request_settings` | submit, withdraw, start, complete, cancel, assign; switch, target, order and add items | stays, push |
| Staff boards | a client's copy of the rows and its cursor | full load, delta | requests, fnb, rooms |
| Push outbox and subscriptions | `push_dispatches`, `push_subscriptions`, poller flag | enqueue, attempt, retry, prune; subscribe, unsubscribe | every module that notifies |
| E-mail outbox (`notifications`) | `notification_outbox` | enqueue, attempt, poll, resend | accounts, subscriptions, stays |
| Announcements | `announcements`, receipts | draft, schedule, send, cancel, retract, publishing tick, inbox | push |
| Staff accounts, tenant auth, profile | `tenant_users`: status, password, session, links; `hotels.staffUsersCount` | invite, create, update, disable, enable, resend, reset; login, refresh, logout, forgot, confirm; set-up; change password | e-mail outbox, plan limit |
| Tenant access and roles | ten second cache, `tenant_roles` | the guards of a staff route; create, edit, remove, assign roles | subscriptions, hotels |
| Guest session and rate limit (`guest`) | counters per hotel and address | enter with a code, verify each request | stays |
| Admin panel | `admins`, `roles` | sign in, refresh, edit, deactivate, remove admins; roles | - |
| Subscriptions, plans | `subscriptions`, `plans` | subscribe, change plan, extend trial, expiry; create, edit, archive, restore plans | hotels, e-mail |
| Hotels, onboarding | `hotels` | onboard, edit, suspend, reactivate | accounts, subscriptions |
| Information pages, branding, photos | `hotel_info_entries`, photo columns, stored files | upload, replace, remove; singletons, entries, order | file storage |
| Reports | none | periods, revenue, balances, leakage, departures | stays, fnb, events |

What is hard in each of them, at its line, is the list `hazards` of
`PROJECT.json`. The properties that make the system correct:

- **Stays**: one active stay per room and per code; guests enter only active
  rooms; a room with a guest stays active; a finished stay is final; every
  vacated room is flagged for cleaning; auto-checkout closes only, and
  eventually, what is overdue.
- **Rooms**: what is judged under the lock still fits when written: numbers
  unique, types there, seats within the plan; a number with a history stays.
- **Housekeeping**: the columns of a room never drift apart; a Do-Not-Disturb
  ends with its stay and by nothing but its proper ends; daily service misses
  no room.
- **Events**: never overbooked, no booking on a cancelled event, terms locked
  once published, ended events close.
- **Menus and bill**: an order costs what the menu showed at one moment;
  throttles hold up to the requests under way; a charge is collected at most
  once, only when due, and a settlement leaves nothing out.
- **Requests and boards**: requests move forward only, come from items on
  offer, curating one column undoes no other; a board lacks only what
  committed in the gap of a poll.
- **Push and e-mail**: at most one notice waits per topic; what is decided is
  final and true; a repeated keyed notice loses nothing; departed owners get
  nothing new; everything queued is decided.
- **Announcements**: only forward; what guests saw stands.
- **Accounts, roles, access, panel**: seats never exceed the plan; only active
  accounts have sessions; a disabled account comes back only by a manager;
  nobody grants what they do not hold; whoever was let in was allowed in a
  moment ago; an active admin remains.
- **Guest session**: guessing a code is bounded per hotel and room.
- **Subscriptions and plans**: rooms never exceed the plan they were added
  under; one open subscription; one free trial; ended trials expire; history is
  final; no hotel is on an archived or too small plan.
- **Photos and pages**: no row names a file that is gone and no file is
  forgotten; a section has an order.
- **Reports**: each row is counted on its day, once.

## 3. The modules

| Module | Models | Composes / refines |
|---|---|---|
| `Stays` | check-in, edit, room change, code regeneration, checkout, auto-checkout, room status, vacate hook | implements `StayBook` (one request at a time) |
| `StayBook` | abstract: a stay arrives in a free room, moves between free rooms, leaves for good | |
| `Housekeeping` | board actions, guest DND, vacate hook, daily service tick; occupancy is the environment | |
| `Events` | one event, its bookings, editors, guests, completion tick | |
| `Orders` | the bill of one stay: orders, bookings as charges, settlement | implements `Folio` |
| `Folio` | abstract: a charge is owed, then withdrawn or collected, once | |
| `Menus` | the four tables of the food catalog under managers, and an order read from them | |
| `Requests` | requests of one stay and the catalog they come from | |
| `Feed` | the boards polled by deltas of what was stamped since the last answer | |
| `Push` | notices and subscription of one device: enqueue, attempts, poller, prune, crashes | |
| `Mail` | the e-mail outbox: first attempt by whoever queued, the poller for the rest | |
| `Announcements` | an announcement between editors, the tick and the guests' inbox | |
| `Accounts` | staff accounts of a hotel: seats under the lock, sessions, links and passwords without it | |
| `Access` | the guards of a staff route, the cached state of the hotel, the role editor | |
| `Admins` | the accounts and roles of the vendor's panel | |
| `GuestAccess` | room and code behind two counters, their windows and lockouts | |
| `Subscriptions` | subscriptions of a hotel: change, extension, trial cron; seats of rooms, unlocked saves of the hotel row | |
| `Plans` | the vendor's catalog of plans beside hotels that subscribe and grow | |
| `Inventory` | rooms with number, type and status, one by one and in batches; room types | |
| `Assets` | photos and the directory: a file store and rows that no transaction spans | |
| `Reports` | periods on a clock that is changed once, and what reports count of a stay and its charge | |
| `MCStays`, `MCHousekeeping` | instances for TLC that choose whether requests overlap | `MCStays!AloneBook` |
| `MCLive` | stays, an event, pushes or mails under the fairness of a running server | `Stays`, `Events`, `Push`, `Mail` |
| `MCOrders` | the bill, a device, the door or the books | `Orders`, `Push`, `GuestAccess`, `Reports` |
| `MCRequests` | work, catalog, board, gate or roles | `Requests`, `Feed`, `Access` |
| `MCAccounts` | accounts, news, photos, entries or panel | `Accounts`, `Announcements`, `Assets`, `Admins` |
| `MCSubs` | alone, seats, trials, dine, build, shop or rooms | `Subscriptions`, `Menus`, `Plans`, `Inventory` |
| `...Proofs` | inductive invariants and theorems (section 5) | |

**Common shape.** Table rows are functions from ids to records; absent rows
have status `"none"`. A request or cron run is a process in `req` (in `att`,
`call`, `tick`, `cand` where its shape differs). `XRead` reads, judges and
computes; the row it will save travels in the request; `XSave` makes the table
row equal to it. Where the code holds a lock between the two, the request holds
`hotelLock`, `lock` or a pc that other actions test. `raced` (in some modules
`mixed`, `lapped`) is a ghost: the rows that two open requests held at once, of
which last save wins and nothing can be promised. Definitions whose name has
an underscore (`IndexesAllow_CodeOnly`) are *slips*: the definition with one
plausible mistake; they are used by no action and exist to show that each
property notices one.

**Scenes.** The `MC` modules for several components choose in the initial state
which of them moves (`scene`); the others stand still. A scene is that module
alone: composition by choice keeps one run per question, not one state space
per product. A comment at each scene says what it leaves out.

**`Stays`.** `CheckInLock`/`CheckInCode`/`CheckInInsert` are `checkIn`'s
transaction; `MoveLock`/`MoveSave` are `changeRoom`'s. `UpdateRead` and
`SaveSnapshot` are `update`: the pair is not locked, and the partial unique
indexes (`IndexesAllow`) are all that can refuse the save. Regeneration draws
without the hotel lock. Checkout saves, then runs the vacate hook on the room
of its own snapshot; auto-checkout does the same per candidate with rows read
at the start of the run. `HkSave` and `RoomStatusSave` write whole room rows.
The clock counts half days, so that both sides of the check-out time of a day
occur. Payment terms, guest names and pagination are left out.

**`Housekeeping`.** The transition matrix is an operator; each board action is
read, transition, save. The guest switch first checks the session's stay
(`GuestEnter`) and judges later. The tick reads all DND rooms, saves them one
by one, reads the clean ones, saves those. `CheckIn`, `Leave` and `Move`
stand for the stay desk, reduced to who is where. Notes and attendants' rosters
are left out, bulk assignment is a sequence of assignments.

**`Events`.** `book` and `cancel` lock the event row; edits, publishing and the
tick save rows read before. `book` takes the time before it waits for the lock
and the model assumes no booking request is open from before the start of the
event until after its end. `Seats` counts the sum of the booked parties seat by
seat. Money and settlement of bookings are in `Orders`.

**`Orders`.** Throttle check and insert are separate steps. `SettleRead` and
`SettleSave` are one source's transaction; `SettleReply` is the second look
that reports leftovers. Amounts are left out: a charge is due or not.

**`Menus`.** A manager's edit merges the columns sent into the row it read. An
order reads item, section, menu and location in queries of their own, judges
and prices, and inserts. An order has one line: lines are read and judged
alike.

**`Requests`.** Like `Orders`, with assignment and with the catalog: the
effective state of an item is the code's default, the setting of its category
and its own, read by the submission before the insert.

**`Feed`.** An update has a stamp, taken when its transaction begins, and is
seen when it commits; a poll reads rows, then takes the time it answers with.
`missed` are the updates that fall between.

**`Push`.** `Enqueue` and `Insert` are one transaction that supersedes the
waiting row and inserts the new one or rolls back on a taken dedupe key. An
attempt is a record in `att` that walks gate, send, record; records are
conditional updates; the subscription's health is a whole-row save. The poller
works down its batch; `Ripen` is time passing until a row is due. Endpoints are
unique, so the rows of different devices never meet and one device suffices.
A second row under the same key is not modelled after the first was pruned.

**`Mail`.** As `Push`, but the outcome is saved as a whole row, so a slow first
attempt and the poller can meet on a mail (`raced`); `lost` are the mails whose
outcome could not be recorded. What is stored of a mail with a secret is a
masked copy; links are minted anew by a later attempt.

**`Announcements`.** Edits, sending, cancelling and the tick read, judge and
save; the tick works on the rows of its start. Guests see what is published
for their stay or floor, read it, and a published one is pushed once.

**`Accounts`.** Passwords are numbered per account in the order they are set;
a session is the number of the password it was opened under. `RowRead` computes
the row that any unlocked operation will save; `RowSave` saves it; `setup`
saves twice, the second time with the session `issueTokens` made. `SeatBegin`,
`SeatLock`, `SeatCommit` are the four operations under the hotel lock, of which
`disable` and `enable` judged the account before. `revived` gathers seats taken
by unlocked saves (a login that outlives a disable), which no limit test sees.

**`Access`.** A request loads account and role, then the state of the hotel by
two queries or from the cache, and is judged guard by guard; `allowed` records
until when each condition was last true. The role editor beyond the guards
judges escalation against the caller's own role; `granted` collects what
somebody who held it put into a role.

**`Admins`.** Sessions, edits, deactivation and removal of admins by each
other, and roles; the unique e-mail and the foreign key to the role are checked
when a row is saved.

**`GuestAccess`.** An attempt passes the counters, waits for its query and is
counted afterwards, so attempts under way do not see each other; a restart
forgets the counters.

**`Subscriptions`.** Rows are numbered as they are inserted and a plan is named
by its room limit, which a hotel between two plans does not have (`RoomsLimit`).
`ChangeStart` to `ChangeInsert` are the awaits of `changePlan`, with nothing
around them. `RoomsLock`, `RoomsCheck`, `RoomsSave` are the one shape of
creation, bulk commit and change of status; `HotelRead`/`HotelSave` are every
edit of the hotel row outside that lock. `JobRead` takes every overdue row, the
closed ones too, as the query does. `Plans` is the other half: plans change, and
a hotel is its open subscription and its number of rooms. `Inventory` has the
rooms themselves, under the same lock, with types edited outside it.

**`Assets`.** Store under a fresh name, save the row, delete the old file:
three steps, a failure possible between any two, no lock anywhere. `left` are
files a failure left behind.

**`Reports`.** One stay with one charge shows every way a row can be counted
twice or not at all. The clock of the hotel has an offset that changes once, by
a forward or a backward shift; a period is local days turned into instants. A
report reads in several queries while the hotel works on.

## 4. Runs and what they show

| Run | Scenes and bounds | Question | Distinct states |
|---|---|---|---|
| `stays` | 2 rooms, stays and codes, 2 staff and the cron; three at once on one day, or one at a time over 2 days | what overlap cannot break: unique rooms and codes, entered rooms are active; serially: rooms follow stays, the desk implements `StayBook` | 2,048,267 |
| `hk` | 2 rooms, 2 requests and the tick, 1 fault; overlapping on one day, or one at a time over 2 days | rows agree in themselves and every room is served in the end; serially: the life of a Do-Not-Disturb, a run misses no room | 1,723,884 |
| `live` | stays, an event (1 editor, 2 guests, 3 tickets), 2 notices or 2 mails, 1 fault each | nothing waits forever; seats, terms and the log of mails stand | 355,434 |
| `orders` | bill: 2 orders, 1 booking, 2 guests, worker, desk, three at once; push: 2 notices, 2 callers, 2 tries; door: 2 rooms, 1 code, 2 attempts at a time, 6 hours; books: 4 clocks, 8 half days | throttles, ledger, settlement, `Folio`; notices; guessing; reports | 1,571,161 |
| `accounts` | accounts: 2 users, 1 seat, 2 passwords each; news: 1 announcement, 2 stays, 3 writes; photos, entries: 2 single rows, 3 entries, 2 sections, 2 files, 1 fault; panel: 2 admins, 2 roles | seats, sessions, announcements, files and sections, the last admin | 1,532,689 |
| `requests` | work: 2 tickets, three at once; catalog: 2 items, 2 managers, a guest; board: 1 card, 1 room, 2 writers, 3 ticks; gate and roles: 2 calls, 3 roles, 4 ticks | throttles, transitions, curation, deltas, guards, escalation | 799,893 |
| `subs` | alone, seats, trials: 3 subscriptions, 2 plans, 2 rooms, 2 admins and the cron, 4 days, 1 fault; dine, build: one dish, 2 managers, an order; shop: 2 plans, 1 hotel; rooms: 3 rooms, batches of 2 | plans, seats, trials, prices, what is judged under the lock | 530,038 |
| `events_editors` | 2 editors, 1 guest | *violation*: a stale edit lowers capacity | 11,308 |
| `stays_final` | 1 room, 1 stay, 2 staff | *violation*: an edit undoes a checkout | 379 |
| `subs_final` | 1 request, 3 days | *violation*: the cron rewrites a closed trial | 4,747 |
| `feed_gap` | 1 card, 1 client, 1 writer | *violation*: a commit in the gap of a poll is never delivered | 116 |
| `mail_masked` | 1 mail, 1 call | *violation*: a retry sends the masked copy | 98 |

(States of the violations are those found before the counterexample.)

**Why the bounds are enough.** A lost update needs two requests and one row, an
index conflict two stays, a last-seat race two requests and one seat, a missed
delta one commit and one poll, a window two attempts more than its limit. Each
scene has at least that, and every action of every module fires in some run.
The constants named as bounds in the modules (`MaxBusy`, `MaxDay`, `MaxFaults`,
`MaxTries`, `MaxRaced`, `MaxPw`, `Crowds`, `MaxCommits`, `MaxWrites`, `Horizon`,
`LastHour`) limit only how often the same happens. What a scene leaves out is
said at its definition in the `MC` module; the proofs of section 5 are about
the component's own next-state relation, without what the scenes leave out,
except where a property is itself one of behaviours that serve one request at a
time.

**Overlapping and alone.** Properties named `Alone...` are promises the code
keeps only while requests do not overlap: a save of a whole row read earlier
undoes whatever was saved between. Behaviours with `alone` (or `crowd = 1`, or
the scene `alone`) serve requests one at a time over long histories, the others
overlap over short ones. Properties that except `raced` rows are checked with
overlap: what is excepted is exactly the rows two requests held at once. Where
a comment or document promises a property without that condition and the code
breaks it, the break is a finding with its own run.

**Deadlock** is checked in `stays`, `hk`, `subs` and two violations. In the
others the system may rightly stop: an event is over, a guest has left, every
request is final, the clock of a scene has reached its horizon.

**Fairness.** `live`: requests in progress and cron runs are weakly fair (Node
runs what is scheduled, `@Cron` fires again and again); actions that wait for a
row lock others take repeatedly (`VacateSave`, `SaveEvent`, `TickSave`, a push
attempt) are strongly fair, because PostgreSQL queues waiters. `hk`: weak
fairness of the tick. `subs`: weak fairness of requests in progress and of a
run that began, strong fairness of the start of the trial run, which in serial
behaviours waits its turn. Nothing forces a guest or a staff member to act.
Symmetry is used only in runs without liveness.

**Properties and mutants.** Every property of a passing run has a mutant in
`PROJECT.json`: one definition replaced by one of its slips, by which the run
must fail.

## 5. Proofs

TLAPS proves the theorems below for every value of the constants: any number of
rooms, stays, requests, callers, limits and days. Assumptions are the named
`ASSUME`s of the modules and, for modules that are instantiated, their
`Parameters`, assumed by the `MC` module that instantiates them; TLC evaluates
all of them in the runs. They say that ids are finite sets apart from `None`,
that limits are numbers and that roles of processes are disjoint.

| Module | Theorem | States |
|---|---|---|
| `StaysProofs` | `TypeCorrect` | `TypeOK` |
| | `RoomsAndCodesUnique` | `ActiveStaysUnique` |
| | `EntersActiveRooms` | `GuestsEnterActiveRooms` |
| | `RoomsFollowStays` | `AloneRoomsFollowStays` |
| | `StaysEndRightly` | `AloneStaysEndRightly`: refinement of `StayBook` |
| `HousekeepingProofs` | `TypeCorrect`, `RowsStayConsistent` | `TypeOK`, `RowsConsistent` |
| | `DndFollowsItsStay`, `ServiceIsDone` | `AloneDndIsTheStays`, `AloneServiceDone` |
| `OrdersProofs` | `OrdersThrottled`, `LedgerKept`, `SettlementsComplete` | `Throttles`, `LedgerAgrees`, `SettleIsComplete` |
| | `BillImplementsFolio` | `KeepsTheFolio`: refinement of `Folio` |
| | `OneNoticePending`, `NoticesStandFirm`, `DeparturesSilenced` | `OnePending`, `NoticesStand`, `DepartureSilences` |
| | `GuessesFew`, `ReportsAgree` | `GuessesBounded`, `ReportsAddUp` |
| `PushProofs` | `NoticesCollapse`, `OutcomesStand`, `RepeatsHarmless`, `DeparturesSilence` | the same of any device (`Push`) |
| `AccountsProofs` | `RowsStayConsistent`, `SeatsLimited` | `RowsConsistent`, `SeatLimit` |
| | `AccountsHoldAlone`, `AnnouncementsStandFirm` | `AloneAccountsHold`, `AnnouncementsStand` |
| | `PhotosKept`, `SectionsOrdered` | `PhotosStand`, `EntriesInOrder` |
| `RequestsProofs` | `SubmissionsThrottled`, `RequestsMoveForward` | `RequestsThrottled`, `TicketsMoveForward` |
| | `SubmissionsWereOffered`, `CurationNeverUndone` | `OnlyWhatIsOffered`, `CurationSticks` |
| | `BoardsConverge` | `OnlyTheGapIsMissed` |
| | `AdmissionsWereAllowed`, `RolesStayGranted` | `AdmittedWasAllowed`, `RolesAreGranted` |
| `SubscriptionsProofs` | `TypeCorrect`, `SeatsKept`, `OnePlanAlone` | `TypeOK`, `SeatsWithinLimit`, `AlonePlanHolds` |
| | `PlansStand` | `PlansHold`: one hotel and the catalog |
| | `RoomsKept`, `OrdersAsShown` | `RoomsStand`, `OrderedAsShown` |
| `LiveProofs` | `SeatsStaySold`, `BookingsAreKept`, `MailsTold` | `NeverOverbooked`, `BookingsStand`, `OutcomesStand` |

**The argument.** Nearly every property is about a row that somebody wrote with
what he had read several steps earlier. None is inductive as it stands; each
proof adds to it what the requests under way know of the rows they read.

- *Locks.* `RoomsHeld` (`Stays`), `SeatInv` (`Accounts`), `SeatsInv`
  (`Subscriptions`): between the test and the write the request holds the
  hotel's lock, at most one does, and what was tested is still so. Under
  `ActiveStaysUnique` there is no lock but the index: the proof shows that
  every write of the table is one row the index admits (`StayWrites`).
- *Rows in flight.* `BoardInv` (`Housekeeping`), `RowsInv` (`Accounts`), `EditOK`
  and `TickOK` in `PartyInv` (`Events`): the row a request will save makes
  sense in itself and against the table, so a stale save cannot store
  anything that was never right.
- *Sole holders.* `OneHolder` in `RequestsInv`, `MailInv`, `NewsInv`, `RolesInv`:
  for a row outside `raced` at most one call holds it, and what that call
  believes of the row is still true. This is the invariant that makes the
  exception of raced rows precise.
- *One at a time.* `AloneInv` (`Stays`, `Housekeeping`, `Accounts`), `SerialInv`
  (`Subscriptions`), `PanelInv`, `CatalogInv`: while one request runs, table and
  snapshot differ by what it changed and nothing else.
- *Counting.* `Throttles` and its twin in `Requests` bound the rows of a stay
  by the limit and the requests past their test, as cardinalities of disjoint
  sets. `PushInv` keeps the number of records in flight equal to the pending
  rows of a topic.
- *Clocks.* `BoardInv` of the boards (`Merged`: during a poll the client has
  what is stamped before its cursor, or it is in `missed`); `CacheInv`
  (`Until`: a condition in the cache was true less than a life ago).
- *Guessing.* `DoorInv` ties a counter to the log of wrong attempts: `Framed`
  (the counter counts those after some attempt k; the earlier ones are outside
  the window, or a lock lies between), `Spanned`, `Escalating` (locks double
  up to their maximum; powers of two are counted as subsets because no
  recursion may be used), `Waited`. The attempt to prove an earlier bound of the
  hotel-wide counter failed for three attempts at a time, and TLC confirmed a
  counterexample: attempts under way count at the close of each of two
  windows. The bound is now `2 * (HotelLimit + UnderWay) - 1`.
- *Two stores.* `GuideInv` (`Assets`): a file has one row for its life, the one
  it was uploaded for. `KeptRow`/`Believes`: outside `mixed`, what the holder of
  a row will save loses no photo of it but the one it will delete, and what a
  call is deleting (`Spares`) nobody names or will name. `NoneForgotten`: a file
  a step drops from a row is still named by the call. `Arranged` speaks of a
  section as it will be once its one holder has saved all its rows, so that a
  reordering half done is no exception; that a new entry's number is new needs
  the greatest element of a finite set, by minimality over its subsets.
- *Rooms.* `StockInv` (`Inventory`): what a call under the lock will write is
  judged as the table it will leave (`WrittenOK`, `BatchDone`), and no step of
  anybody else can spoil that: guests enter under the same lock, and who leaves
  only frees a room. What the fold over a bulk commit keeps (`BulkKeeps`: of
  each number the hotel lacks, the first row) is shown for batches of any
  length by a least counterexample.
- *Orders.* `KitchenInv` (`Menus`): an order that met at most one edit has read
  of two catalogs, the one of its beginning and the one of now, and these
  differ in one row (`Began`, `HasRead`); prices, options and places it judged
  are those of one of the two.
- *Reports.* `BooksInv` (`Reports`): what a report has read so far, against the
  charge and the stay of now, by the queries it has still to make; what it saw
  of a charge settled in between is in one of its two readings. The arithmetic
  is about any clock that is shifted once: a midnight that comes once lies on
  one side of the shift, from whichever side it is looked for (`OneSide`), so
  two corrections find it (`DayBegins`), and the instants of a period are
  those of its days, but for its very end, where SQL `BETWEEN` is inclusive.
  It needs offsets of at most a day, which every zone of the world keeps.

Modules instantiated for the runs are proved with arbitrary constants where
`MC` leaves them open (`MCOrders` with its clocks, `MCAccounts`, `MCRequests`,
the catalog, the kitchen and the rooms of `MCSubs`); the event of `MCLive` has one editor, which
is part of its claim, and its device and the notices of `MCOrders` have one
owner, while `PushProofs` states the same for any. The theorems about `Guide`,
`News`, `Panel`, `Kitchen` and the other instances are about the specification
of that module (`Guide!Spec`), of which a scene shows some behaviours;
`PlansStand` and `RoomsKept` are about `MCSpec` itself.

**Only model-checked.** Every invariant and action property of the passing runs
is stated by one of these theorems. What remains is `NothingWaitsForever`,
`DailyServiceHappens` and `OverdueTrialEnds`: liveness under fairness rests on
ENABLED, which the provers do not handle. Induction over data is out of their
reach too, since the library's induction theorems take an operator as a
parameter; where a proof needs it (a fold over a batch, a greatest element) it
is an argument by a least counterexample, written out for that case. The five
violations are counterexamples and have nothing to prove.

## 6. What the models found

Findings, each with a run that exhibits it:

- `stays_final`: `update`, `changeRoom` and `regenerateCode` save a whole stay
  read before their awaits, so a checkout between is undone
  (tenant-stays.service.ts:726 says a checked-out stay is final).
- `events_editors`: an edit read from the draft is saved over the published
  event; the capacity can fall below the seats sold.
- `subs_final`: without any overlap, the trial run rewrites a trial that was
  converted early as expired and tells the owner of a paying hotel so.
- `feed_gap`: `listBoard` takes `serverTime` after its query; what commits
  between is in no later delta.
- `mail_masked`: the retry of a stay code or a password reset sends the masked
  copy and records it as sent.

Observations, met while modelling and kept in no run of their own:

- Two overlapping enables of one account count its seat twice.
- An order line keeps `photoThumbKey` though replacing the photo deletes that
  file (fnb-order-line.entity.ts:78); two simultaneous removals from a gallery
  leave a row naming a deleted file.
- Assigning a role to staff has no escalation rule; editing a role has.
- `changePlan` is not one transaction. `addCycle` overflows months
  (subscriptions.service.ts:400: 31 January renews on 3 March).
- A PATCH of `trialDurationDays` to null leaves a trial plan without a
  duration; plan names and the one trial plan are not guarded by the database.
- `createRoom` and `updateRoom` accept an inactive room type
  (`assertTypeInHotel` does not ask `isActive`; the bulk commit does).
- `changeRoom` rewrites `stay.roomId`, so the vacated room has no history and
  may be renumbered, though tenant-rooms.service.ts:731 says "EVER hosted".
- Two overlapping `complete` requests may both record a completed event.
- An admin may demote themselves, so nobody may be left to keep admins; the
  removal of an admin refused by a foreign key is answered with 500.
- Reports: SQL `BETWEEN` is inclusive, so a row at the very midnight is in two
  reports though `toUtcExclusive` is called exclusive (reports-period.ts:26,
  reports-revenue.service.ts:76); `outstanding` goes by `createdAt`, totals by
  `deliveredAt` or the event's day; the overview compares with full previous
  days; the occupancy trend goes by planned dates; zones that skip midnight
  start a day an hour early, and after a spring-forward the previous window of
  `countDepartures` may overlap.
- The hotel-wide limit on guesses admits, per window, as many more as there
  are attempts at a time (see `GuessesFew`).

## 7. Not modelled

Everything with status `not_modelled` in `PROJECT.json`: pure I/O (mail and push
drivers, QR codes, posters, spreadsheets, image work), read-only views (guest
profile and hotel context, the audit log), migrations, seeds and
configuration. Within modelled components: texts, translations, amounts of
money (a charge is due or not; `Menus` has prices), pagination, permissions
other than those of `Access` (a request in a model is one its guard let in),
tenancy (one hotel: every query filters by it), roster notes and attachments.

## 8. Plan

1. Proofs: `PlansStand` for several hotels, `SeatsStaySold` for several editors
   of one event, as far as either holds; abstract specifications, beside
   `StayBook` and `Folio`, of the seats of an event and of a subscription.
2. Quiet hours and the cleaning log of `Housekeeping` as components of their own.
3. Event announcements and attendees beside `Events`; the guest profile beside
   `Stays`.
