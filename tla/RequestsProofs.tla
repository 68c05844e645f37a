--------------------------- MODULE RequestsProofs ---------------------------
(***************************************************************************)
(* Proofs about the modules of MCRequests, for every set of rows and calls *)
(* and every bound.  Requests: the throttles hold up to the submissions    *)
(* under way, requests only move forward, nothing comes from an item that  *)
(* was off all along, and curating one column of a setting gives back no   *)
(* other, for the rows that no two calls held at once.  Feed: a board      *)
(* lacks what committed in the gap of a poll and nothing else.  Access:    *)
(* nobody is let in or granted what nothing justified.                     *)
(***************************************************************************)
EXTENDS MCRequests, FiniteSetTheorems, SequenceTheorems, TLAPS

OneHolder ==
  \A c \in (Tickets \cup Items) \ raced :
    \A p, q \in Procs : c \in Held(p) /\ c \in Held(q) => p = q

(* A row of the table and the row a call saves over it. *)
Forward(old, new) ==
  /\ old.status \in Open
  /\ new.status # old.status => <<old.status, new.status>> \in Moves
  /\ old.status = "new" /\ new.status = "in_progress" => new.by # None

(* The setting a call holds differs from the table in what it asks for.    *)
OnlyAsked(q) ==
  /\ q.set.has = setting[q.key].has
  /\ "on" \notin q.ask => q.set.on = setting[q.key].on
  /\ "sla" \notin q.ask => q.set.sla = setting[q.key].sla
  /\ "sort" \notin q.ask => q.set.sort = setting[q.key].sort

CallOK(q) ==
  /\ q.pc = "save" => q.key \in Tickets /\ (q.key \notin raced => Forward(row[q.key], q.row))
  /\ q.pc \in {"submit", "insert", "curate", "create"} => q.key \in Items
  /\ q.pc = "curate" => (q.key \notin raced => OnlyAsked(q))
  /\ q.pc = "order" => q.rest # <<>>

Bare(s) == [s EXCEPT !.has = FALSE]

RequestsInv ==
  /\ TypeOK /\ OneHolder
  /\ \A p \in Procs : CallOK(call[p])
  /\ \A i \in Items \ raced : Bare(setting[i]) = chosen[i]
  /\ \A p \in Guests : call[p].pc = "insert" => p \in offered

----------------------------------------------------------------------------
(* Facts about the data. *)
LEMMA RecordsEqual ==
  ASSUME NEW s \in Setting, NEW t \in Setting,
         s.has = t.has, s.on = t.on, s.sla = t.sla, s.sort = t.sort
  PROVE  s = t
BY DEF Setting

LEMMA MergeOf ==
  ASSUME NEW old \in Setting, NEW new \in Setting, NEW cols
  PROVE  LET m == Merge(old, new, cols)
         IN /\ m \in Setting /\ m.has = old.has
            /\ m.on = IF "on" \in cols THEN new.on ELSE old.on
            /\ m.sla = IF "sla" \in cols THEN new.sla ELSE old.sla
            /\ m.sort = IF "sort" \in cols THEN new.sort ELSE old.sort
<1>1. PICK a \in {"null", "yes", "no"}, b \in {0} \cup Slas, c \in Nat :
        /\ a = IF "on" \in cols THEN new.on ELSE old.on
        /\ b = IF "sla" \in cols THEN new.sla ELSE old.sla
        /\ c = IF "sort" \in cols THEN new.sort ELSE old.sort
  BY DEF Setting
<1>2. Merge(old, new, cols) = [old EXCEPT !.on = a, !.sla = b, !.sort = c]
  BY <1>1 DEF Merge, Setting
<1>3. [old EXCEPT !.on = a, !.sla = b, !.sort = c] \in Setting
  BY <1>1 DEF Setting
<1> QED
  BY <1>1, <1>2, <1>3 DEF Setting

LEMMA HasOf ==
  ASSUME NEW s \in Setting, NEW b \in BOOLEAN
  PROVE  LET t == [s EXCEPT !.has = b]
         IN t \in Setting /\ t.has = b /\ t.on = s.on /\ t.sla = s.sla /\ t.sort = s.sort
BY DEF Setting

(* A finite set of naturals has a largest element: a smallest subset that  *)
(* has none would have none without one of its elements either.            *)
LEMMA MaxOf ==
  ASSUME NEW S \in SUBSET Nat, IsFiniteSet(S), S # {}
  PROVE  Max(S) \in S
<1> DEFINE HasMax(T) == \E m \in T : \A y \in T : m >= y
           Bad == {T \in SUBSET S : T # {} /\ ~HasMax(T)}
<1>1. Bad = {}
  <2> SUFFICES ASSUME Bad # {} PROVE FALSE
    OBVIOUS
  <2>1. IsWellFoundedOn(StrictSubsetOrdering(S), FiniteSubsetsOf(S))
    BY FS_StrictSubsetOrderingWellFounded
  <2>2. Bad \subseteq FiniteSubsetsOf(S)
    BY FS_Subset DEF FiniteSubsetsOf
  <2>3. PICK T \in Bad : \A U \in Bad : <<U, T>> \notin StrictSubsetOrdering(S)
    BY <2>1, <2>2, WFMin
  <2>4. PICK x \in T : TRUE
    OBVIOUS
  <2>5. T \ {x} \notin Bad
    <3>1. <<T \ {x}, T>> \in (SUBSET S) \X (SUBSET S) /\ T \ {x} # T
      BY <2>4
    <3>2. <<T \ {x}, T>> \in StrictSubsetOrdering(S)
      BY <3>1 DEF StrictSubsetOrdering
    <3> QED
      BY <2>3, <3>2
  <2>6. CASE T \ {x} = {}
    <3>1. T = {x} /\ x \in Nat
      BY <2>4, <2>6
    <3> QED
      BY <3>1, <2>3
  <2>7. CASE T \ {x} # {}
    <3>1. PICK m \in T \ {x} : \A y \in T \ {x} : m >= y
      BY <2>5, <2>7
    <3>2. x \in Nat /\ m \in Nat /\ T \subseteq Nat
      BY <2>4, <3>1
    <3>3. HasMax(T)
      <4>1. CASE m >= x
        BY <3>1, <3>2, <4>1
      <4>2. CASE x > m
        <5>1. \A y \in T : x >= y
          BY <3>1, <3>2, <4>2
        <5> QED
          BY <2>4, <5>1
      <4> QED
        BY <3>2, <4>1, <4>2
    <3> QED
      BY <2>3, <3>3
  <2> QED
    BY <2>6, <2>7
<1>2. \E m \in S : \A y \in S : m >= y
  BY <1>1
<1> QED
  BY <1>2 DEF Max

LEMMA Bases ==
  /\ NoRow \in Row /\ NoSetting \in Setting
  /\ IdleCall \in Call /\ CallOK(IdleCall) /\ IdleCall.pc = "idle"
<1>1. NoRow \in Row
  BY DEF NoRow, Row, Statuses
<1>2. NoSetting \in Setting
  BY DEF NoSetting, Setting
<1>3. <<>> \in Seq(Items \X Nat)
  BY EmptySeq
<1>4. IdleCall \in Call
  BY <1>1, <1>2, <1>3 DEF IdleCall, Call
<1> QED
  BY <1>1, <1>2, <1>4 DEF IdleCall, CallOK

----------------------------------------------------------------------------
(* Steps of the calls. *)
LEMMA CountsHolders ==
  ASSUME NEW S \in SUBSET Procs, NEW p \in S, NEW q \in S, p # q
  PROVE  Cardinality(S) > 1
<1>1. IsFiniteSet(S)
  BY RequestsAssumption, FS_Subset DEF Procs
<1>2. {p, q} \subseteq S /\ Cardinality({p, q}) = 2
  <2>1. IsFiniteSet({p}) /\ Cardinality({p}) = 1
    BY FS_Singleton
  <2>2. Cardinality({p} \cup {q}) = 2
    BY <2>1, FS_AddElement
  <2> QED
    BY <2>2
<1>3. Cardinality({p, q}) <= Cardinality(S)
  BY <1>1, <1>2, FS_Subset
<1> QED
  BY <1>1, <1>2, <1>3, FS_CardinalityType

LEMMA WatchKeeps ==
  ASSUME RequestsInv, Watch
  PROVE  /\ OneHolder' /\ raced \subseteq raced' /\ raced' \subseteq Tickets \cup Items
         /\ offered' \subseteq Guests
<1>1. ASSUME NEW c \in Tickets \cup Items, c \notin raced', NEW p \in Procs, NEW q \in Procs,
             c \in Held(p)', c \in Held(q)', p # q
      PROVE  FALSE
  <2> DEFINE S == {o \in Procs : c \in Held(o)'}
  <2>1. S \in SUBSET Procs /\ p \in S /\ q \in S
    BY <1>1
  <2>2. Cardinality(S) > 1
    BY <1>1, <2>1, CountsHolders
  <2> QED
    BY <1>1, <2>2 DEF Watch
<1>2. OneHolder'
  BY <1>1 DEF OneHolder
<1> QED
  BY <1>2 DEF Watch, Submitting, RequestsInv, TypeOK

(* A step of one call: what it writes, nobody else holds, unless raced.    *)
LEMMA CallKeeps ==
  ASSUME RequestsInv, Watch, NEW p \in Procs, NEW q \in Call, Go(p, q),
         row' \in [Tickets -> Row], placed' \subseteq Tickets,
         setting' \in [Items -> Setting], chosen' \in [Items -> Setting],
         item' \in [Items -> Nat], catOn' = catOn,
         \A x \in Procs \ {p} : \A c \in Held(x) \ raced :
           /\ c \in Tickets => row'[c] = row[c]
           /\ c \in Items => setting'[c] = setting[c],
         \A i \in Items \ raced : Bare(setting'[i]) = chosen'[i],
         CallOK(q)',
         p \in Guests /\ q.pc = "insert" => p \in offered'
  PROVE  RequestsInv'
<1>1. call' \in [Procs -> Call] /\ call'[p] = q /\ \A x \in Procs \ {p} : call'[x] = call[x]
  BY DEF Go, RequestsInv, TypeOK
<1>2. TypeOK'
  BY <1>1, WatchKeeps DEF RequestsInv, TypeOK
<1>3. ASSUME NEW x \in Procs \ {p} PROVE CallOK(call[x])'
  <2>1. call'[x] = call[x] /\ CallOK(call[x]) /\ raced \subseteq raced'
    BY <1>1, WatchKeeps DEF RequestsInv
  <2>2. call[x].pc = "save" /\ call[x].key \notin raced => row'[call[x].key] = row[call[x].key]
    BY <2>1 DEF Held, CallOK
  <2>3. call[x].pc = "curate" /\ call[x].key \notin raced
          => setting'[call[x].key] = setting[call[x].key]
    BY <2>1 DEF Held, CallOK
  <2> QED
    BY <2>1, <2>2, <2>3 DEF CallOK, Forward, OnlyAsked
<1>4. \A x \in Procs : CallOK(call[x])'
  BY <1>1, <1>3 DEF CallOK, Forward, OnlyAsked
<1>5. \A i \in Items \ raced' : Bare(setting'[i]) = chosen'[i]
  BY WatchKeeps
<1>6. ASSUME NEW g \in Guests, call'[g].pc = "insert" PROVE g \in offered'
  <2>1. CASE g = p
    BY <1>1, <1>6, <2>1
  <2>2. CASE g # p
    <3>1. call'[g] = call[g] /\ g \in offered /\ g \in Submitting'
      BY <1>1, <1>6, <2>2 DEF RequestsInv, Submitting, Procs
    <3> QED
      BY <3>1 DEF Watch
  <2> QED
    BY <2>1, <2>2
<1> QED
  BY <1>2, <1>4, <1>5, <1>6, WatchKeeps DEF RequestsInv, Bare

(* A step of one call that writes nothing.                                 *)
LEMMA ReadKeeps ==
  ASSUME RequestsInv, Watch, NEW p \in Procs, NEW q \in Call, Go(p, q),
         UNCHANGED <<Feed, Catalog>>, CallOK(q),
         p \in Guests /\ q.pc = "insert" => Offered(q.key)
  PROVE  RequestsInv'
<1>1. CallOK(q)'
  BY WatchKeeps DEF CallOK, Forward, OnlyAsked, Feed, Catalog
<1>2. ASSUME p \in Guests, q.pc = "insert" PROVE p \in offered'
  <2>1. call'[p] = q
    BY DEF Go, RequestsInv, TypeOK
  <2>2. p \in Submitting'
    BY <1>2, <2>1 DEF Submitting
  <2>3. catOn' /\ item'[q.key] > 0 /\ setting'[q.key].on # "no"
    BY <1>2 DEF Offered, Catalog
  <2>4. p \in OnOffer'
    BY <2>1, <2>2, <2>3 DEF OnOffer, Offered
  <2> QED
    BY <2>2, <2>4 DEF Watch
<1> QED
  BY <1>1, <1>2, CallKeeps DEF RequestsInv, TypeOK, Feed, Catalog

(* The reads that end with a row of a request in hand.                     *)
LEMMA HoldKeeps ==
  ASSUME RequestsInv, Watch, NEW p \in Procs, NEW c \in Tickets, NEW r \in Row,
         Hold(p, c, r), UNCHANGED <<Feed, Catalog>>, Forward(row[c], r)
  PROVE  RequestsInv'
<1>1. PICK q \in Call : /\ q = [IdleCall EXCEPT !.pc = "save", !.key = c, !.row = r]
                        /\ q.pc = "save" /\ q.key = c /\ q.row = r
  <2>1. [IdleCall EXCEPT !.pc = "save", !.key = c, !.row = r] \in Call
    BY Bases DEF Call
  <2> QED
    BY <2>1, Bases DEF Call
<1>2. CallOK(q)
  BY <1>1 DEF CallOK
<1> QED
  BY <1>1, <1>2, ReadKeeps DEF Hold

LEMMA TicketReadsKeep ==
  ASSUME RequestsInv, Watch, NEW c \in Tickets
  PROVE  /\ \A p \in Guests : CancelOwnRead(p, c) => RequestsInv'
         /\ \A p \in Staff : StartRead(p, c) => RequestsInv'
         /\ \A p \in Staff : CompleteRead(p, c) => RequestsInv'
         /\ \A p \in Staff : CancelRead(p, c) => RequestsInv'
         /\ \A p \in Staff, to \in Staff \cup {None} : AssignRead(p, c, to) => RequestsInv'
<1>1. row[c] \in Row /\ row[c].status \in Statuses /\ row[c].by \in Staff \cup {None}
  BY DEF RequestsInv, TypeOK, Row
<1>2. \A st \in Statuses : [row[c] EXCEPT !.status = st] \in Row
  BY <1>1 DEF Row
<1>3. Guests \subseteq Procs /\ Staff \subseteq Procs /\ None \notin Staff
  BY RequestsAssumption DEF Procs
<1>4. ASSUME NEW p \in Guests, CancelOwnRead(p, c) PROVE RequestsInv'
  <2> DEFINE r == [row[c] EXCEPT !.status = "cancelled"]
  <2>1. r \in Row /\ Forward(row[c], r)
    BY <1>1, <1>2, <1>4 DEF CancelOwnRead, Forward, Moves, Open, Statuses, Row
  <2> QED
    BY <1>3, <1>4, <2>1, HoldKeeps DEF CancelOwnRead
<1>5. ASSUME NEW p \in Staff, StartRead(p, c) PROVE RequestsInv'
  <2>1. PICK by \in Staff : by = IF row[c].by = None THEN p ELSE row[c].by
    BY <1>1
  <2> DEFINE r == [status |-> "in_progress", by |-> by]
  <2>2. r \in Row /\ Forward(row[c], r)
    BY <1>3, <1>5, <2>1 DEF StartRead, Forward, Moves, Open, Statuses, Row
  <2> QED
    BY <1>3, <1>5, <2>1, <2>2, HoldKeeps DEF StartRead
<1>6. ASSUME NEW p \in Staff, CompleteRead(p, c) PROVE RequestsInv'
  <2> DEFINE r == [row[c] EXCEPT !.status = "done"]
  <2>1. r \in Row /\ Forward(row[c], r)
    BY <1>1, <1>2, <1>6 DEF CompleteRead, Forward, Moves, Open, Statuses, Row
  <2> QED
    BY <1>3, <1>6, <2>1, HoldKeeps DEF CompleteRead
<1>7. ASSUME NEW p \in Staff, CancelRead(p, c) PROVE RequestsInv'
  <2> DEFINE r == [row[c] EXCEPT !.status = "cancelled"]
  <2>1. r \in Row /\ Forward(row[c], r)
    BY <1>1, <1>2, <1>7 DEF CancelRead, Forward, Moves, Open, Statuses, Row
  <2> QED
    BY <1>3, <1>7, <2>1, HoldKeeps DEF CancelRead
<1>8. ASSUME NEW p \in Staff, NEW to \in Staff \cup {None}, AssignRead(p, c, to) PROVE RequestsInv'
  <2> DEFINE r == [row[c] EXCEPT !.by = to]
  <2>1. r \in Row /\ r.status = row[c].status
    BY <1>1 DEF Row
  <2>2. Forward(row[c], r)
    BY <1>8, <2>1 DEF AssignRead, Forward
  <2> QED
    BY <1>3, <1>8, <2>1, <2>2, HoldKeeps DEF AssignRead
<1> QED
  BY <1>4, <1>5, <1>6, <1>7, <1>8

LEMMA CallTypes ==
  ASSUME RequestsInv, NEW p \in Procs
  PROVE  /\ call[p] \in Call /\ CallOK(call[p])
         /\ call[p].set \in Setting /\ call[p].row \in Row /\ call[p].rest \in Seq(Items \X Nat)
BY DEF RequestsInv, TypeOK, Call

LEMMA SubmitReadsKeep ==
  ASSUME RequestsInv, Watch, NEW p \in Guests
  PROVE  /\ \A i \in Items : SubmitCheck(p, i) => RequestsInv'
         /\ SubmitResolve(p) => RequestsInv'
<1>1. p \in Procs
  BY DEF Procs
<1>2. ASSUME NEW i \in Items, SubmitCheck(p, i) PROVE RequestsInv'
  <2>1. PICK q \in Call : /\ q = [IdleCall EXCEPT !.pc = "submit", !.key = i]
                          /\ q.pc = "submit" /\ q.key = i
    <3>1. [IdleCall EXCEPT !.pc = "submit", !.key = i] \in Call
      BY Bases DEF Call
    <3> QED
      BY <3>1, Bases DEF Call
  <2>2. CallOK(q)
    BY <2>1 DEF CallOK
  <2> QED
    BY <1>1, <1>2, <2>1, <2>2, ReadKeeps DEF SubmitCheck
<1>3. ASSUME SubmitResolve(p), Offered(call[p].key) PROVE RequestsInv'
  <2>1. PICK q \in Call : /\ q = [call[p] EXCEPT !.pc = "insert"]
                          /\ q.pc = "insert" /\ q.key = call[p].key
    <3>1. [call[p] EXCEPT !.pc = "insert"] \in Call
      BY <1>1, CallTypes DEF Call
    <3> QED
      BY <1>1, <3>1, CallTypes DEF Call
  <2>2. CallOK(q) /\ Offered(q.key)
    BY <1>1, <1>3, <2>1, CallTypes DEF CallOK, SubmitResolve
  <2> QED
    BY <1>1, <1>3, <2>1, <2>2, ReadKeeps DEF SubmitResolve
<1>4. ASSUME SubmitResolve(p), ~Offered(call[p].key) PROVE RequestsInv'
  BY <1>1, <1>4, Bases, ReadKeeps DEF SubmitResolve
<1> QED
  BY <1>2, <1>3, <1>4

(* A reader of a setting holds it with the columns it was asked for.       *)
LEMMA HoldSettingKeeps ==
  ASSUME RequestsInv, Watch, NEW p \in Editors, NEW i \in Items, NEW new \in Setting,
         NEW cols \in SUBSET Columns, NEW rest \in Seq(Items \X Nat),
         HoldSetting(p, i, new, cols, rest), UNCHANGED <<Feed, Catalog>>
  PROVE  RequestsInv'
<1>1. p \in Procs /\ p \notin Guests
  BY RequestsAssumption DEF Procs
<1>2. setting[i] \in Setting
  BY DEF RequestsInv, TypeOK
<1>3. PICK s \in Setting :
        /\ s = Merge(setting[i], new, cols) /\ s.has = setting[i].has
        /\ "on" \notin cols => s.on = setting[i].on
        /\ "sla" \notin cols => s.sla = setting[i].sla
        /\ "sort" \notin cols => s.sort = setting[i].sort
  BY <1>2, MergeOf
<1>4. PICK q \in Call :
        /\ q = [IdleCall EXCEPT !.pc = "curate", !.key = i, !.ask = cols, !.rest = rest, !.set = s]
        /\ q.pc = "curate" /\ q.key = i /\ q.ask = cols /\ q.set = s
  <2>1. [IdleCall EXCEPT !.pc = "curate", !.key = i, !.ask = cols, !.rest = rest, !.set = s] \in Call
    BY Bases DEF Call
  <2> QED
    BY <2>1, Bases DEF Call
<1>5. CallOK(q)
  BY <1>3, <1>4 DEF CallOK, OnlyAsked
<1>6. Go(p, q)
  BY <1>3, <1>4 DEF HoldSetting
<1> QED
  BY <1>1, <1>4, <1>5, <1>6, ReadKeeps

LEMMA CurateReadsKeep ==
  ASSUME RequestsInv, Watch, NEW p \in Editors
  PROVE  /\ \A i \in Items, new \in Setting, cols \in SUBSET Columns :
              UpdateItemRead(p, i, new, cols) => RequestsInv'
         /\ ReorderRead(p) => RequestsInv'
<1>1. p \in Procs
  BY DEF Procs
<1>2. <<>> \in Seq(Items \X Nat)
  BY EmptySeq
<1>3. ASSUME NEW i \in Items, NEW new \in Setting, NEW cols \in SUBSET Columns,
             UpdateItemRead(p, i, new, cols)
      PROVE  RequestsInv'
  BY <1>2, <1>3, HoldSettingKeeps DEF UpdateItemRead
<1>4. ASSUME ReorderRead(p) PROVE RequestsInv'
  <2>1. call[p].rest \in Seq(Items \X Nat) /\ call[p].rest # <<>>
    BY <1>1, <1>4, CallTypes DEF CallOK, ReorderRead
  <2>2. PICK next \in Items \X Nat, rest \in Seq(Items \X Nat) :
          next = Head(call[p].rest) /\ rest = Tail(call[p].rest)
    BY <2>1, HeadTailProperties
  <2>3. PICK new \in Setting : new = [NoSetting EXCEPT !.sort = next[2]]
    BY <2>2, Bases DEF Setting
  <2>4. HoldSetting(p, next[1], new, {"sort"}, rest) /\ UNCHANGED <<Feed, Catalog>>
    BY <1>4, <2>2, <2>3 DEF ReorderRead
  <2> QED
    BY <2>2, <2>3, <2>4, HoldSettingKeeps DEF Columns
<1> QED
  BY <1>3, <1>4

LEMMA StartsKeep ==
  ASSUME RequestsInv, Watch, NEW p \in Editors
  PROVE  /\ \A order \in SeqOf(Items, Cardinality(Items)) : ReorderStart(p, order) => RequestsInv'
         /\ \A i \in Custom : CreateCustomRead(p, i) => RequestsInv'
<1>1. p \in Procs /\ p \notin Guests
  BY RequestsAssumption DEF Procs
<1>2. ASSUME NEW order \in SeqOf(Items, Cardinality(Items)), ReorderStart(p, order)
      PROVE  RequestsInv'
  <2>1. Cardinality(Items) \in Nat
    BY RequestsAssumption, FS_CardinalityType
  <2>2. PICK m \in 0 .. Cardinality(Items) : order \in [1 .. m -> Items]
    BY <2>1 DEF SeqOf
  <2>3. m \in Nat /\ m # 0
    <3>1. order # <<>> /\ m \in Nat
      BY <1>2, <2>1, <2>2 DEF ReorderStart
    <3>2. m = 0 => order = <<>>
      BY <2>2
    <3> QED
      BY <3>1, <3>2
  <2>4. PICK rest \in Seq(Items \X Nat) : rest = [k \in DOMAIN order |-> <<order[k], k>>] /\ rest # <<>>
    <3> DEFINE e == [k \in 1 .. m |-> <<order[k], k>>]
    <3>1. e \in [1 .. m -> Items \X Nat]
      BY <2>2, <2>3
    <3>2. e \in Seq(Items \X Nat)
      BY <2>3, <3>1
    <3>3. DOMAIN e = 1 .. m /\ DOMAIN e # {}
      BY <2>3
    <3>4. e # <<>>
      BY <3>3
    <3>5. e = [k \in DOMAIN order |-> <<order[k], k>>]
      BY <2>2
    <3> QED
      BY <3>2, <3>4, <3>5
  <2>5. PICK q \in Call : /\ q = [IdleCall EXCEPT !.pc = "order", !.rest = rest]
                          /\ q.pc = "order" /\ q.rest = rest
    <3>1. [IdleCall EXCEPT !.pc = "order", !.rest = rest] \in Call
      BY Bases DEF Call
    <3> QED
      BY <3>1, Bases DEF Call
  <2>6. Go(p, q) /\ CallOK(q)
    BY <1>2, <2>4, <2>5 DEF ReorderStart, CallOK
  <2> QED
    BY <1>1, <1>2, <2>5, <2>6, ReadKeeps DEF ReorderStart
<1>3. ASSUME NEW i \in Custom, CreateCustomRead(p, i) PROVE RequestsInv'
  <2> DEFINE Sorts == {SortOf(j) : j \in Visible}
             top == Max({0} \cup Sorts)
  <2>1. \A j \in Visible : SortOf(j) \in Nat
    BY DEF RequestsInv, TypeOK, Visible, SortOf, Setting
  <2>2. IsFiniteSet({0} \cup Sorts)
    <3>1. IsFiniteSet(Visible)
      BY RequestsAssumption, FS_Subset DEF Visible
    <3> DEFINE f == [j \in Visible |-> SortOf(j)]
    <3>2. f \in Surjection(Visible, Sorts)
      BY DEF Surjection
    <3>3. IsFiniteSet(Sorts)
      BY <3>1, <3>2, FS_Surjection
    <3> QED
      BY <3>3, FS_AddElement
  <2>3. top \in Nat
    <3>1. {0} \cup Sorts \in SUBSET Nat /\ {0} \cup Sorts # {}
      BY <2>1
    <3> HIDE DEF Sorts
    <3>2. top \in {0} \cup Sorts
      BY <2>2, <3>1, MaxOf
    <3> QED
      BY <3>1, <3>2
  <2>4. PICK n \in Nat : n = 1 + top
    BY <2>3
  <2>5. PICK q \in Call : q = [IdleCall EXCEPT !.pc = "create", !.key = i, !.set.sort = n]
                          /\ q.pc = "create" /\ q.key = i
    <3>1. [NoSetting EXCEPT !.sort = n] \in Setting
      BY Bases DEF Setting
    <3>2. [IdleCall EXCEPT !.pc = "create", !.key = i, !.set.sort = n] \in Call
      BY RequestsAssumption, <3>1, Bases DEF Call, IdleCall
    <3> QED
      BY <3>2, Bases DEF Call
  <2>6. Go(p, q) /\ CallOK(q)
    BY RequestsAssumption, <1>3, <2>4, <2>5 DEF CreateCustomRead, CallOK
  <2> QED
    BY <1>1, <1>3, <2>5, <2>6, ReadKeeps DEF CreateCustomRead
<1> QED
  BY <1>2, <1>3

----------------------------------------------------------------------------
(* Writes of the calls. *)
LEMMA SubmitInsertKeeps ==
  ASSUME RequestsInv, Watch, NEW p \in Guests, NEW c \in Tickets, SubmitInsert(p, c)
  PROVE  RequestsInv'
<1>1. p \in Procs
  BY DEF Procs
<1>2. [NoRow EXCEPT !.status = "new"] \in Row
  BY Bases DEF Row, Statuses, Open
<1>3. row' \in [Tickets -> Row] /\ \A d \in Tickets \ {c} : row'[d] = row[d]
  BY <1>2 DEF SubmitInsert, RequestsInv, TypeOK
<1>4. \A x \in Procs : c \in Held(x) => c \in raced
  <2> SUFFICES ASSUME NEW x \in Procs, c \in Held(x), c \notin raced PROVE FALSE
    OBVIOUS
  <2>1. call[x].key = c /\ CallOK(call[x]) /\ call[x].pc \in {"save", "curate"}
    BY DEF Held, RequestsInv
  <2>2. call[x].pc = "save"
    BY RequestsAssumption, <2>1 DEF CallOK
  <2>3. row[c].status \in Open
    BY <2>1, <2>2 DEF CallOK, Forward
  <2> QED
    BY <2>3 DEF SubmitInsert, Open
<1>5. CallOK(IdleCall)'
  BY Bases DEF CallOK, IdleCall
<1>6. Go(p, IdleCall) /\ placed' \subseteq Tickets /\ UNCHANGED Catalog
  BY DEF SubmitInsert, RequestsInv, TypeOK
<1> QED
  BY <1>1, <1>3, <1>4, <1>5, <1>6, Bases, CallKeeps DEF RequestsInv, TypeOK, Catalog

LEMMA SaveKeeps ==
  ASSUME RequestsInv, Watch, NEW p \in Procs, Save(p)
  PROVE  RequestsInv'
<1>1. call[p].key \in Tickets /\ call[p].row \in Row /\ call[p].pc = "save"
  BY CallTypes DEF Save, CallOK
<1>2. row' \in [Tickets -> Row] /\ \A d \in Tickets \ {call[p].key} : row'[d] = row[d]
  BY <1>1 DEF Save, RequestsInv, TypeOK
<1>3. call[p].key \in Held(p)
  BY <1>1 DEF Held
<1>4. \A x \in Procs \ {p} : call[p].key \in Held(x) => call[p].key \in raced
  BY <1>1, <1>3 DEF RequestsInv, OneHolder
<1>5. CallOK(IdleCall)'
  BY Bases DEF CallOK, IdleCall
<1>6. Go(p, IdleCall) /\ UNCHANGED <<placed, Catalog>>
  BY DEF Save
<1> QED
  BY <1>2, <1>4, <1>5, <1>6, Bases, CallKeeps DEF RequestsInv, TypeOK, Catalog

(* Saving the whole row changes the columns asked for and no other.        *)
LEMMA AskedMerge ==
  ASSUME NEW old \in Setting, NEW new \in Setting, NEW c \in Setting, NEW cols,
         Bare(old) = c,
         "on" \notin cols => new.on = old.on,
         "sla" \notin cols => new.sla = old.sla,
         "sort" \notin cols => new.sort = old.sort
  PROVE  Bare([new EXCEPT !.has = TRUE]) = Merge(c, new, cols)
<1>1. c.has = FALSE /\ c.on = old.on /\ c.sla = old.sla /\ c.sort = old.sort
  BY HasOf DEF Bare
<1>2. PICK t \in Setting : /\ t = [new EXCEPT !.has = TRUE]
                           /\ t.on = new.on /\ t.sla = new.sla /\ t.sort = new.sort
  BY HasOf
<1>3. PICK b \in Setting : /\ b = Bare(t) /\ b.has = FALSE
                           /\ b.on = new.on /\ b.sla = new.sla /\ b.sort = new.sort
  BY <1>2, HasOf DEF Bare
<1>4. PICK m \in Setting : /\ m = Merge(c, new, cols) /\ m.has = c.has
                           /\ m.on = IF "on" \in cols THEN new.on ELSE c.on
                           /\ m.sla = IF "sla" \in cols THEN new.sla ELSE c.sla
                           /\ m.sort = IF "sort" \in cols THEN new.sort ELSE c.sort
  BY MergeOf
<1>5. b.has = m.has /\ b.on = m.on /\ b.sla = m.sla /\ b.sort = m.sort
  BY <1>1, <1>3, <1>4
<1>6. b = m
  BY <1>5, RecordsEqual
<1> QED
  BY <1>2, <1>3, <1>4, <1>6

LEMMA CurateSaveKeeps ==
  ASSUME RequestsInv, Watch, NEW p \in Editors, CurateSave(p)
  PROVE  RequestsInv'
<1>1. p \in Procs /\ p \notin Guests
  BY RequestsAssumption DEF Procs
<1>2. PICK i \in Items : i = call[p].key
  BY <1>1, CallTypes DEF CurateSave, CallOK
<1>3. PICK s \in Setting, ask \in SUBSET Columns : s = call[p].set /\ ask = call[p].ask
  BY <1>1, CallTypes DEF Call
<1>4. i \in Held(p) /\ call[p].pc = "curate"
  BY <1>2 DEF CurateSave, Held
<1>5. \A x \in Procs \ {p} : i \in Held(x) => i \in raced
  BY <1>1, <1>4 DEF RequestsInv, OneHolder
<1>6. i \notin raced => /\ s.has = setting[i].has
                        /\ "on" \notin ask => s.on = setting[i].on
                        /\ "sla" \notin ask => s.sla = setting[i].sla
                        /\ "sort" \notin ask => s.sort = setting[i].sort
  BY <1>1, <1>2, <1>3, <1>4, CallTypes DEF CallOK, OnlyAsked
<1>7. setting[i] \in Setting /\ chosen[i] \in Setting /\ setting[i].has \in BOOLEAN /\ s.has \in BOOLEAN
  BY DEF RequestsInv, TypeOK, Setting
<1> DEFINE taken == ~s.has /\ setting[i].has
<1>8. [s EXCEPT !.has = TRUE] \in Setting /\ Merge(chosen[i], s, ask) \in Setting
  BY <1>7, HasOf, MergeOf
<1>9. /\ setting' = IF taken THEN setting ELSE [setting EXCEPT ![i] = [s EXCEPT !.has = TRUE]]
      /\ chosen' = IF taken THEN chosen ELSE [chosen EXCEPT ![i] = Merge(chosen[i], s, ask)]
  BY <1>2, <1>3 DEF CurateSave
<1>10. /\ setting' \in [Items -> Setting] /\ chosen' \in [Items -> Setting]
       /\ \A j \in Items \ {i} : setting'[j] = setting[j] /\ chosen'[j] = chosen[j]
  BY <1>8, <1>9 DEF RequestsInv, TypeOK
<1>11. i \notin raced => Bare(setting'[i]) = chosen'[i]
  <2> SUFFICES ASSUME i \notin raced PROVE Bare(setting'[i]) = chosen'[i]
    OBVIOUS
  <2>1. ~taken /\ Bare(setting[i]) = chosen[i]
    BY <1>6, <1>7 DEF RequestsInv
  <2>2. setting'[i] = [s EXCEPT !.has = TRUE] /\ chosen'[i] = Merge(chosen[i], s, ask)
    BY <1>9, <2>1 DEF RequestsInv, TypeOK
  <2> QED
    BY <1>6, <1>7, <2>1, <2>2, AskedMerge
<1>12. PICK q \in Call : /\ Go(p, q) /\ q.pc \in {"idle", "order"}
                         /\ q.pc = "order" => q.rest # <<>>
  <2>1. [IdleCall EXCEPT !.pc = "order", !.rest = call[p].rest] \in Call
    BY <1>1, CallTypes, Bases DEF Call
  <2>2. /\ [IdleCall EXCEPT !.pc = "order", !.rest = call[p].rest].pc = "order"
        /\ [IdleCall EXCEPT !.pc = "order", !.rest = call[p].rest].rest = call[p].rest
    BY Bases DEF Call
  <2>3. CASE Go(p, IdleCall)
    BY <2>3, Bases
  <2>4. CASE ~Go(p, IdleCall)
    BY <2>1, <2>2, <2>4 DEF CurateSave
  <2> QED
    BY <2>3, <2>4
<1>13. CallOK(q)'
  BY <1>12 DEF CallOK
<1>14. UNCHANGED <<row, placed, item, catOn>>
  BY DEF CurateSave, Feed
<1>15. \A x \in Procs \ {p} : \A c \in Held(x) \ raced :
          /\ c \in Tickets => row'[c] = row[c]
          /\ c \in Items => setting'[c] = setting[c]
  BY <1>5, <1>10, <1>14
<1>16. \A j \in Items \ raced : Bare(setting'[j]) = chosen'[j]
  BY <1>10, <1>11 DEF RequestsInv
<1> QED
  BY <1>1, <1>10, <1>12, <1>13, <1>14, <1>15, <1>16, CallKeeps DEF RequestsInv, TypeOK

LEMMA CreateCustomInsertKeeps ==
  ASSUME RequestsInv, Watch, NEW p \in Editors, CreateCustomInsert(p)
  PROVE  RequestsInv'
<1>1. p \in Procs /\ p \notin Guests
  BY RequestsAssumption DEF Procs
<1>2. call[p].set.sort \in Nat
  BY <1>1, CallTypes DEF Setting
<1>3. item' \in [Items -> Nat]
  BY <1>2 DEF CreateCustomInsert, RequestsInv, TypeOK
<1>4. CallOK(IdleCall)'
  BY Bases DEF CallOK, IdleCall
<1>5. Go(p, IdleCall) /\ UNCHANGED <<row, placed, setting, catOn, chosen>>
  BY DEF CreateCustomInsert, Feed
<1> QED
  BY <1>1, <1>3, <1>4, <1>5, Bases, CallKeeps DEF RequestsInv, TypeOK

(* Steps that touch no call. *)
LEMMA NoCallKeeps ==
  ASSUME RequestsInv, Watch, UNCHANGED <<row, setting, item, chosen, call>>,
         catOn' \in BOOLEAN, placed' \subseteq Tickets
  PROVE  RequestsInv'
<1>1. TypeOK'
  BY WatchKeeps DEF RequestsInv, TypeOK
<1>2. \A p \in Procs : CallOK(call[p])'
  BY WatchKeeps DEF RequestsInv, CallOK, Forward, OnlyAsked
<1>3. \A i \in Items \ raced' : Bare(setting[i])' = chosen'[i]
  BY WatchKeeps DEF RequestsInv, Bare
<1>4. ASSUME NEW g \in Guests, call'[g].pc = "insert" PROVE g \in offered'
  <2>1. g \in offered /\ g \in Submitting'
    BY <1>4 DEF RequestsInv, Submitting
  <2> QED
    BY <2>1 DEF Watch
<1> QED
  BY <1>1, <1>2, <1>3, <1>4, WatchKeeps DEF RequestsInv

----------------------------------------------------------------------------
(* All steps. *)
LEMMA InitKeeps ==
  ASSUME Init
  PROVE  RequestsInv
<1>1. TypeOK
  BY Bases DEF Init, TypeOK
<1>2. OneHolder
  BY Bases DEF Init, OneHolder, Held
<1>3. \A p \in Procs : CallOK(call[p]) /\ call[p].pc = "idle"
  BY Bases DEF Init
<1>4. Bare(NoSetting) = NoSetting
  <2>1. PICK b \in Setting : /\ b = Bare(NoSetting) /\ b.has = FALSE /\ b.on = NoSetting.on
                            /\ b.sla = NoSetting.sla /\ b.sort = NoSetting.sort
    BY Bases, HasOf DEF Bare
  <2>2. NoSetting.has = FALSE
    BY DEF NoSetting
  <2>3. b = NoSetting
    BY <2>1, <2>2, Bases, RecordsEqual
  <2> QED
    BY <2>1, <2>3
<1>5. \A i \in Items : Bare(setting[i]) = chosen[i]
  BY <1>4 DEF Init
<1>6. Guests \subseteq Procs
  BY DEF Procs
<1> QED
  BY <1>1, <1>2, <1>3, <1>5, <1>6 DEF RequestsInv

LEMMA StepKeeps ==
  ASSUME RequestsInv, [Next]_vars
  PROVE  RequestsInv'
<1>1. CASE UNCHANGED vars
  BY <1>1 DEF vars, RequestsInv, TypeOK, OneHolder, Held, CallOK, Forward, OnlyAsked, Bare
<1>2. ASSUME Next PROVE RequestsInv'
  <2>1. Watch /\ Step
    BY <1>2 DEF Next
  <2>2. Guests \subseteq Procs /\ Staff \subseteq Procs
    BY DEF Procs
  <2>3. ASSUME NEW p \in Guests, GuestStep(p) PROVE RequestsInv'
    <3>1. CASE \E i \in Items : SubmitCheck(p, i)
      BY <2>1, <3>1, SubmitReadsKeep
    <3>2. CASE SubmitResolve(p)
      BY <2>1, <3>2, SubmitReadsKeep
    <3>3. CASE \E c \in Tickets : SubmitInsert(p, c)
      BY <2>1, <3>3, SubmitInsertKeeps
    <3>4. CASE \E c \in Tickets : CancelOwnRead(p, c)
      BY <2>1, <3>4, TicketReadsKeep
    <3>5. CASE Save(p)
      BY <2>1, <2>2, <3>5, SaveKeeps
    <3> QED
      BY <2>3, <3>1, <3>2, <3>3, <3>4, <3>5 DEF GuestStep
  <2>4. ASSUME NEW p \in Staff, StaffStep(p) PROVE RequestsInv'
    <3>1. CASE Save(p)
      BY <2>1, <2>2, <3>1, SaveKeeps
    <3>2. ASSUME NEW c \in Tickets, StartRead(p, c) \/ CompleteRead(p, c) \/ CancelRead(p, c)
          PROVE  RequestsInv'
      BY <2>1, <3>2, TicketReadsKeep
    <3>3. ASSUME NEW c \in Tickets, NEW to \in Staff \cup {None}, AssignRead(p, c, to)
          PROVE  RequestsInv'
      BY <2>1, <3>3, TicketReadsKeep
    <3> QED
      BY <2>4, <3>1, <3>2, <3>3 DEF StaffStep
  <2>5. CASE Midnight
    <3>1. catOn' \in BOOLEAN /\ placed' \subseteq Tickets
      BY <2>5 DEF Midnight, Catalog, RequestsInv, TypeOK
    <3> QED
      BY <2>1, <2>5, <3>1, NoCallKeeps DEF Midnight, Catalog
  <2>6. ASSUME NEW p \in Editors, EditorStep(p) PROVE RequestsInv'
    <3>1. ASSUME NEW i \in Items, NEW on \in {"yes", "no"}, NEW sla \in Slas,
                 NEW cols \in SUBSET Columns,
                 UpdateItemRead(p, i, [NoSetting EXCEPT !.on = on, !.sla = sla], cols)
          PROVE  RequestsInv'
      <4>1. [NoSetting EXCEPT !.on = on, !.sla = sla] \in Setting
        BY Bases DEF Setting
      <4> QED
        BY <2>1, <3>1, <4>1, CurateReadsKeep
    <3>2. CASE \E order \in SeqOf(Items, Cardinality(Items)) : ReorderStart(p, order)
      BY <2>1, <3>2, StartsKeep
    <3>3. CASE ReorderRead(p)
      BY <2>1, <3>3, CurateReadsKeep
    <3>4. CASE CurateSave(p)
      BY <2>1, <3>4, CurateSaveKeeps
    <3>5. CASE \E i \in Custom : CreateCustomRead(p, i)
      BY <2>1, <3>5, StartsKeep
    <3>6. CASE CreateCustomInsert(p)
      BY <2>1, <3>6, CreateCustomInsertKeeps
    <3> QED
      BY <2>6, <3>1, <3>2, <3>3, <3>4, <3>5, <3>6 DEF EditorStep
  <2>7. ASSUME NEW on \in BOOLEAN, SetCategoryEnabled(on) PROVE RequestsInv'
    <3>1. catOn' \in BOOLEAN /\ placed' \subseteq Tickets
      BY <2>7 DEF SetCategoryEnabled, Feed, RequestsInv, TypeOK
    <3> QED
      BY <2>1, <2>7, <3>1, NoCallKeeps DEF SetCategoryEnabled, Feed
  <2> QED
    BY <2>1, <2>3, <2>4, <2>5, <2>6, <2>7 DEF Step, Work, Curate
<1> QED
  BY <1>1, <1>2

LEMMA InvHolds == Spec => []RequestsInv
<1>1. Init => RequestsInv
  BY InitKeeps
<1>2. RequestsInv /\ [Next]_vars => RequestsInv'
  BY StepKeeps
<1> QED
  BY <1>1, <1>2, PTL DEF Spec

(* Curating a column of a setting gives back no other, for every catalog   *)
(* and every interleaving of the managers that keep off each other's rows: *)
(* what a whole-row save writes was asked for or is what the table has.    *)
THEOREM CurationNeverUndone == Spec => []CurationSticks
<1>1. RequestsInv => CurationSticks
  BY DEF RequestsInv, CurationSticks, Bare
<1> QED
  BY <1>1, InvHolds, PTL

(* An item that was switched off during the whole of a submission lets     *)
(* nothing through, whoever switches items and categories meanwhile.       *)
THEOREM SubmissionsWereOffered == Spec => OnlyWhatIsOffered
<1>1. RequestsInv /\ [Next]_vars
        => [\A p \in Guests : call[p].pc = "insert" /\ call'[p].pc = "idle" => p \in offered]_vars
  BY DEF RequestsInv
<1> QED
  BY <1>1, InvHolds, PTL DEF Spec, OnlyWhatIsOffered

----------------------------------------------------------------------------
(* Requests move forward. *)
LEMMA StepForward ==
  ASSUME RequestsInv, Next, NEW c \in Tickets \ raced', row'[c] # row[c]
  PROVE  /\ row[c].status \in Open \cup {"none"}
         /\ row'[c].status # row[c].status => <<row[c].status, row'[c].status>> \in Moves
         /\ row[c].status = "new" /\ row'[c].status = "in_progress" => row'[c].by # None
<1>1. c \notin raced /\ row \in [Tickets -> Row]
  BY WatchKeeps DEF Next, RequestsInv, TypeOK
<1>2. ASSUME NEW p \in Guests, NEW d \in Tickets, SubmitInsert(p, d)
      PROVE  row[c].status = "none" /\ row'[c].status = "new"
  BY <1>1, <1>2, Bases DEF SubmitInsert, Row
<1>3. ASSUME NEW p \in Procs, Save(p) PROVE Forward(row[c], row'[c])
  <2>1. call[p].key = c /\ row'[c] = call[p].row /\ CallOK(call[p])
    BY <1>1, <1>3, CallTypes DEF Save
  <2> QED
    BY <1>1, <1>3, <2>1 DEF Save, CallOK
<1>4. \/ \E p \in Guests, d \in Tickets : SubmitInsert(p, d)
      \/ \E p \in Procs : Save(p)
  BY DEF Next, Step, Work, Curate, GuestStep, StaffStep, EditorStep, Procs, Feed, SubmitCheck, SubmitResolve,
         CancelOwnRead, StartRead, CompleteRead, CancelRead, AssignRead, Midnight, UpdateItemRead,
         ReorderStart, ReorderRead, CurateSave, CreateCustomRead, CreateCustomInsert, SetCategoryEnabled
<1>5. CASE \E p \in Guests, d \in Tickets : SubmitInsert(p, d)
  BY <1>2, <1>5 DEF Moves, Open
<1>6. CASE \E p \in Procs : Save(p)
  BY <1>3, <1>6 DEF Forward
<1> QED
  BY <1>4, <1>5, <1>6

(* A request that no two calls held at once never goes back and is never   *)
(* written once it is final, and work on it has an owner, although every   *)
(* handler judges the row it read and saves it later.                      *)
THEOREM RequestsMoveForward == Spec => TicketsMoveForward
<1>1. RequestsInv /\ [Next]_vars
        => [\A c \in Tickets \ raced' : row'[c] # row[c] =>
              /\ row[c].status \in Open \cup {"none"}
              /\ row'[c].status # row[c].status => <<row[c].status, row'[c].status>> \in Moves
              /\ row[c].status = "new" /\ row'[c].status = "in_progress" => row'[c].by # None]_vars
  BY StepForward
<1> QED
  BY <1>1, InvHolds, PTL DEF Spec, TicketsMoveForward

----------------------------------------------------------------------------
(* The throttles. *)
OpenNow == {c \in Tickets \ raced : row[c].status \in Open}

LEMMA Finite ==
  /\ IsFiniteSet(Tickets) /\ IsFiniteSet(Guests) /\ Cardinality(Guests) \in Nat
  /\ \A S \in SUBSET Tickets : IsFiniteSet(S) /\ Cardinality(S) \in Nat
  /\ \A S \in SUBSET Guests :
       IsFiniteSet(S) /\ Cardinality(S) \in Nat /\ Cardinality(S) <= Cardinality(Guests)
<1>1. IsFiniteSet(Tickets) /\ IsFiniteSet(Guests)
  <2>1. Guests \subseteq Guests \cup Staff \cup Editors
    OBVIOUS
  <2> QED
    BY <2>1, RequestsAssumption, FS_Subset
<1> QED
  BY <1>1, FS_Subset, FS_CardinalityType

LEMMA ShrinkKeeps ==
  ASSUME RequestsInv, RequestsInv', RequestsThrottled,
         OpenNow' \subseteq OpenNow, Submitting' \subseteq Submitting, placed' \subseteq placed
  PROVE  RequestsThrottled'
<1>1. /\ OpenNow \in SUBSET Tickets /\ OpenNow' \in SUBSET Tickets
      /\ placed \in SUBSET Tickets /\ placed' \in SUBSET Tickets
      /\ Submitting \in SUBSET Guests /\ Submitting' \in SUBSET Guests
  BY DEF OpenNow, Submitting, RequestsInv, TypeOK
<1>2. /\ Cardinality(OpenNow') <= Cardinality(OpenNow)
      /\ Cardinality(Submitting') <= Cardinality(Submitting)
      /\ Cardinality(placed') <= Cardinality(placed)
  BY <1>1, Finite, FS_Subset
<1> QED
  BY <1>1, <1>2, Finite, RequestsAssumption DEF RequestsThrottled, OpenNow

LEMMA SubmitCheckThrottles ==
  ASSUME RequestsInv, RequestsInv', Next, RequestsThrottled,
         NEW p \in Guests, NEW i \in Items, SubmitCheck(p, i)
  PROVE  RequestsThrottled'
<1>1. /\ OpenNow' \subseteq OpenTickets /\ placed' = placed
      /\ OpenTickets \in SUBSET Tickets /\ OpenNow' \in SUBSET Tickets
      /\ placed \in SUBSET Tickets /\ Submitting' \in SUBSET Guests
  BY DEF OpenNow, OpenTickets, SubmitCheck, Submitting, RequestsInv, TypeOK, Feed
<1>2. Cardinality(OpenNow') <= Cardinality(OpenTickets)
  BY <1>1, Finite, FS_Subset
<1> QED
  BY <1>1, <1>2, Finite, RequestsAssumption DEF RequestsThrottled, OpenNow, SubmitCheck, TodaysTickets

LEMMA SubmitInsertThrottles ==
  ASSUME RequestsInv, RequestsInv', Next, RequestsThrottled,
         NEW p \in Guests, NEW c \in Tickets, SubmitInsert(p, c)
  PROVE  RequestsThrottled'
<1>1. Submitting' = Submitting \ {p} /\ p \in Submitting
  BY DEF SubmitInsert, Submitting, Go, IdleCall, Procs, RequestsInv, TypeOK
<1>2. OpenNow' \subseteq OpenNow \cup {c} /\ placed' = placed \cup {c}
  BY WatchKeeps DEF Next, SubmitInsert, OpenNow, RequestsInv, TypeOK
<1>3. /\ OpenNow \in SUBSET Tickets /\ OpenNow' \in SUBSET Tickets
      /\ placed \in SUBSET Tickets /\ Submitting \in SUBSET Guests
  BY DEF OpenNow, Submitting, RequestsInv, TypeOK
<1>4. Cardinality(Submitting') = Cardinality(Submitting) - 1
  BY <1>1, <1>3, Finite, FS_RemoveElement
<1>5. /\ Cardinality(OpenNow') <= Cardinality(OpenNow) + 1
      /\ Cardinality(placed') <= Cardinality(placed) + 1
  <2>1. /\ IsFiniteSet(OpenNow \cup {c})
        /\ Cardinality(OpenNow \cup {c}) \in {Cardinality(OpenNow), Cardinality(OpenNow) + 1}
    BY <1>3, Finite, FS_AddElement
  <2>2. Cardinality(OpenNow') <= Cardinality(OpenNow \cup {c})
    BY <1>2, <2>1, FS_Subset
  <2>3. Cardinality(placed') \in {Cardinality(placed), Cardinality(placed) + 1}
    BY <1>2, <1>3, Finite, FS_AddElement
  <2> QED
    BY <1>3, <2>1, <2>2, <2>3, Finite
<1> HIDE DEF OpenNow
<1>6. Cardinality(placed') \in Nat
  BY <1>2, <1>3, Finite
<1> QED
  BY <1>3, <1>4, <1>5, <1>6, Finite, RequestsAssumption DEF RequestsThrottled, OpenNow

LEMMA SaveShrinks ==
  ASSUME RequestsInv, Next, NEW p \in Procs, Save(p)
  PROVE  OpenNow' \subseteq OpenNow
<1> SUFFICES ASSUME NEW c \in OpenNow' PROVE c \in OpenNow
  OBVIOUS
<1>1. c \in Tickets \ raced /\ row'[c].status \in Open /\ CallOK(call[p]) /\ call[p].pc = "save"
  BY WatchKeeps, CallTypes DEF Next, OpenNow, Save
<1>2. CASE c = call[p].key
  BY <1>1, <1>2 DEF CallOK, Forward, OpenNow
<1>3. CASE c # call[p].key
  BY <1>1, <1>3 DEF Save, OpenNow, RequestsInv, TypeOK
<1> QED
  BY <1>2, <1>3

(* Only a check begins a submission; every other step leaves the guests    *)
(* that are submitting, or takes one away.                                 *)
LEMMA NoneBegins ==
  ASSUME RequestsInv, NEW p \in Procs, NEW q, Go(p, q),
         q.pc \notin {"submit", "insert"} \/ p \notin Guests \/ call[p].pc = "submit"
  PROVE  Submitting' \subseteq Submitting
BY DEF RequestsInv, TypeOK, Go, Submitting, Procs

LEMMA CurateShrinks ==
  ASSUME RequestsInv, Next, Curate
  PROVE  Submitting' \subseteq Submitting
<1>1. \A p \in Editors : p \in Procs /\ p \notin Guests
  BY RequestsAssumption DEF Procs
<1>2. \/ call' = call
      \/ \E p \in Editors : \E q : Go(p, q)
  BY DEF Curate, EditorStep, UpdateItemRead, ReorderStart, ReorderRead, HoldSetting, CurateSave,
         CreateCustomRead, CreateCustomInsert, SetCategoryEnabled
<1> QED
  BY <1>1, <1>2, NoneBegins DEF Submitting

LEMMA StepThrottles == RequestsInv /\ RequestsThrottled /\ [Next]_vars => RequestsThrottled'
<1> SUFFICES ASSUME RequestsInv, RequestsThrottled, [Next]_vars PROVE RequestsThrottled'
  OBVIOUS
<1>1. CASE UNCHANGED vars
  BY <1>1 DEF vars, RequestsThrottled, Submitting
<1>2. CASE Next
  <2>1. RequestsInv'
    BY StepKeeps
  <2>2. ASSUME row' = row PROVE OpenNow' \subseteq OpenNow
    BY <1>2, <2>2, WatchKeeps DEF Next, OpenNow
  <2>3. ASSUME NEW p \in Guests, GuestStep(p) PROVE RequestsThrottled'
    <3>1. p \in Procs
      BY DEF Procs
    <3>2. SubmitResolve(p) => RequestsThrottled'
      BY <2>1, <2>2, <3>1, ShrinkKeeps, NoneBegins DEF SubmitResolve, Feed
    <3>3. ASSUME NEW c \in Tickets, CancelOwnRead(p, c) PROVE RequestsThrottled'
      <4>1. \A r : [IdleCall EXCEPT !.pc = "save", !.key = c, !.row = r].pc = "save"
        BY Bases DEF IdleCall
      <4> QED
        BY <2>1, <2>2, <3>1, <3>3, <4>1, ShrinkKeeps, NoneBegins DEF CancelOwnRead, Hold, Feed
    <3>4. Save(p) => RequestsThrottled'
      BY <1>2, <2>1, <3>1, ShrinkKeeps, NoneBegins, SaveShrinks, Bases DEF Save
    <3> QED
      BY <1>2, <2>1, <2>3, <3>2, <3>3, <3>4, SubmitCheckThrottles, SubmitInsertThrottles
         DEF GuestStep
  <2>4. ASSUME NEW p \in Staff, StaffStep(p) PROVE RequestsThrottled'
    <3>1. p \in Procs /\ p \notin Guests
      BY RequestsAssumption DEF Procs
    <3>2. CASE Save(p)
      BY <1>2, <2>1, <3>1, <3>2, ShrinkKeeps, NoneBegins, SaveShrinks DEF Save
    <3>3. CASE UNCHANGED Feed /\ \E q : Go(p, q)
      BY <2>1, <2>2, <3>1, <3>3, ShrinkKeeps, NoneBegins DEF Feed
    <3> QED
      BY <2>4, <3>2, <3>3
         DEF StaffStep, StartRead, CompleteRead, CancelRead, AssignRead, Hold
  <2>5. CASE Midnight
    BY <2>1, <2>2, <2>5, ShrinkKeeps DEF Midnight, Submitting
  <2>6. CASE Curate
    <3>1. UNCHANGED Feed
      BY <2>6 DEF Curate, EditorStep, UpdateItemRead, ReorderStart, ReorderRead, CurateSave,
                  CreateCustomRead, CreateCustomInsert, SetCategoryEnabled
    <3> QED
      BY <1>2, <2>1, <2>2, <2>6, <3>1, ShrinkKeeps, CurateShrinks DEF Feed
  <2> QED
    BY <1>2, <2>3, <2>4, <2>5, <2>6 DEF Next, Step, Work
<1> QED
  BY <1>1, <1>2

(* The count and the insert of a request are apart, so a stay exceeds its  *)
(* open limit and its daily limit, but by no more than the other           *)
(* submissions it has under way.                                           *)
THEOREM SubmissionsThrottled == Spec => []RequestsThrottled
<1>1. Init => RequestsThrottled
  <2> SUFFICES ASSUME Init PROVE RequestsThrottled
    OBVIOUS
  <2>1. OpenNow = {} /\ Submitting = {} /\ placed = {}
    BY Bases DEF Init, OpenNow, Submitting, NoRow, Procs, Open
  <2> QED
    BY <2>1, Finite, FS_EmptySet, RequestsAssumption DEF RequestsThrottled, OpenNow
<1> QED
  BY <1>1, StepThrottles, InvHolds, PTL DEF Spec

----------------------------------------------------------------------------
(* The boards, for every set of rows, users and transactions.  The property *)
(* speaks of clients at rest; the invariant adds what is true while an     *)
(* answer is under way: each row is told correctly by the answer, or shown *)
(* correctly already, or was updated since the read.                       *)
TxOK(t) == t = Board!NoTx \/ (t.at \in 1 .. MaxNow /\ t.r \in Board!Rows /\ t.to \in Board!Row)
PollOK(q) ==
  \/ q = Board!NoPoll
  \/ /\ q.pc = "read" /\ DOMAIN q.got \subseteq Board!Rows
     /\ \A r \in DOMAIN q.got : q.got[r] \in Board!Lanes \cup {"none"}

(* What the client will show of a row once the answer is merged. *)
Merged(u, r) == IF r \in DOMAIN poll[u].got THEN poll[u].got[r] ELSE view[u][r]

ClientOK(u) ==
  /\ poll[u] # Board!NoPoll => \A r \in Board!Rows : Merged(u, r) = Board!Lane(u, r) \/ r \in missed[u]
  /\ poll[u] = Board!NoPoll /\ cursor[u] # 0 => Board!Stale(u) \subseteq Board!Deliverable(u) \cup missed[u]

BoardInv ==
  /\ Board!TypeOK /\ now >= 1
  /\ \A w \in Writers : TxOK(tx[w])
  /\ tx = [w \in Writers |-> tx[w]] /\ poll = [u \in Clients |-> poll[u]]
  /\ \A u \in Clients : PollOK(poll[u]) /\ ClientOK(u)

LEMMA LanesAgree ==
  ASSUME Board!Parameters, Board!TypeOK, NEW u \in Clients, NEW r \in Board!Rows
  PROVE  Board!LaneOf(u, r) = Board!Lane(u, r) /\ Board!Lane(u, r) \in Board!Lanes \cup {"none"}
<1>1. frow[r] \in Board!Row /\ frow[r].status \in Board!Cleanable \cup {"closed", "inactive"}
  BY DEF Board!TypeOK, Board!Row
<1>2. u # None
  BY DEF Board!Parameters
<1>3. CASE frow[r].by = u
  BY <1>1, <1>2, <1>3 DEF Board!LaneOf, Board!Lane, Board!Lanes, Board!Open, Board!Cleanable
<1>4. CASE frow[r].by = None
  BY <1>1, <1>2, <1>4 DEF Board!LaneOf, Board!Lane, Board!Lanes, Board!Open, Board!Cleanable
<1>5. CASE frow[r].by \notin {u, None}
  BY <1>1, <1>5 DEF Board!LaneOf, Board!Lane, Board!Lanes
<1> QED
  BY <1>3, <1>4, <1>5

(* A handler begins: nothing is told or stored yet.                        *)
LEMMA BeginKeeps ==
  ASSUME Board!Parameters, BoardInv, NEW w \in Writers, NEW r \in Board!Rows, NEW to \in Board!Row,
         Board!Begin(w, r, to)
  PROVE  BoardInv'
<1> DEFINE t == [at |-> now + 1, r |-> r, to |-> to]
<1>1. TxOK(t)
  BY DEF Board!Begin, BoardInv, Board!TypeOK, TxOK, Board!Parameters
<1>2. tx' = [tx EXCEPT ![w] = t] /\ now' = now + 1 /\ UNCHANGED <<frow, stamp, poll, view, cursor, missed>>
  BY DEF Board!Begin
<1> HIDE DEF t
<1>3. tx' = [x \in Writers |-> tx'[x]] /\ \A x \in Writers : TxOK(tx[x])'
  BY <1>1, <1>2 DEF BoardInv, TxOK
<1>4. Board!TypeOK' /\ now' >= 1
  BY <1>2 DEF BoardInv, Board!TypeOK
<1>5. \A u \in Clients : PollOK(poll[u])' /\ ClientOK(u)'
  BY <1>2 DEF BoardInv, PollOK, ClientOK, Merged, Board!Lane,
                 Board!Stale, Board!Deliverable
<1> QED
  BY <1>2, <1>3, <1>4, <1>5 DEF BoardInv

(* A row that commits behind a read or behind a cursor is missed; else its *)
(* stamp is ahead of the cursor and a delta will bring it.                 *)
LEMMA CommitKeeps ==
  ASSUME Board!Parameters, BoardInv, NEW w \in Writers, Board!Commit(w)
  PROVE  BoardInv'
<1>1. PICK r \in Board!Rows, at \in 1 .. MaxNow, to \in Board!Row : tx[w].r = r /\ tx[w].at = at /\ tx[w].to = to
  BY DEF Board!Commit, BoardInv, TxOK
<1>2. /\ frow' = [frow EXCEPT ![r] = to] /\ stamp' = [stamp EXCEPT ![r] = at]
      /\ tx' = [tx EXCEPT ![w] = Board!NoTx] /\ UNCHANGED <<poll, view, cursor, now>>
      /\ missed' = [u \in Clients |-> IF poll[u] # Board!NoPoll \/ at <= cursor[u]
                                      THEN missed[u] \cup {r} ELSE missed[u]]
  BY <1>1 DEF Board!Commit
<1>3. /\ frow' \in [Board!Rows -> Board!Row] /\ stamp' \in [Board!Rows -> 0 .. MaxNow]
      /\ missed' \in [Clients -> SUBSET Board!Rows]
      /\ stamp'[r] = at /\ \A s \in Board!Rows \ {r} : frow'[s] = frow[s] /\ stamp'[s] = stamp[s]
  BY <1>2 DEF BoardInv, Board!TypeOK, Board!Parameters
<1>4. Board!TypeOK' /\ now' >= 1
  BY <1>2, <1>3 DEF BoardInv, Board!TypeOK
<1>5. tx' = [x \in Writers |-> tx'[x]] /\ \A x \in Writers : TxOK(tx[x])'
  BY <1>2 DEF BoardInv, TxOK
<1>6. \A u \in Clients, s \in Board!Rows \ {r} : Board!Lane(u, s)' = Board!Lane(u, s)
  BY <1>3 DEF Board!Lane
<1>7. ASSUME NEW u \in Clients PROVE ClientOK(u)'
  <2>1. /\ missed[u] \subseteq missed'[u] /\ poll'[u] = poll[u] /\ view'[u] = view[u]
        /\ cursor'[u] = cursor[u] /\ cursor[u] \in Nat
        /\ (poll[u] # Board!NoPoll \/ at <= cursor[u]) => r \in missed'[u]
    BY <1>2 DEF BoardInv, Board!TypeOK
  <2>2. ASSUME poll[u] # Board!NoPoll, NEW s \in Board!Rows
        PROVE  Merged(u, s)' = Board!Lane(u, s)' \/ s \in missed'[u]
    BY <1>2, <1>6, <2>1, <2>2 DEF BoardInv, ClientOK, Merged
  <2>3. ASSUME poll[u] = Board!NoPoll, cursor[u] # 0, NEW s \in Board!Stale(u)'
        PROVE  s \in Board!Deliverable(u)' \cup missed'[u]
    <3>1. CASE s = r
      BY <1>3, <2>1, <3>1 DEF Board!Deliverable
    <3>2. CASE s # r
      <4>1. s \in Board!Rows \ {r} /\ s \in Board!Stale(u)
        BY <1>6, <2>1, <2>3, <3>2 DEF Board!Stale
      <4> QED
        BY <1>3, <2>1, <2>3, <4>1 DEF BoardInv, ClientOK, Board!Deliverable
    <3> QED
      BY <3>1, <3>2
  <2> QED
    BY <2>1, <2>2, <2>3 DEF ClientOK
<1> QED
  BY <1>2, <1>4, <1>5, <1>7 DEF BoardInv, PollOK

(* An answer that tells every row the client shows wrongly or has missed.  *)
LEMMA AnswerKeeps ==
  ASSUME Board!Parameters, BoardInv, NEW u \in Clients, NEW rs \in SUBSET Board!Rows, Board!Answer(u, rs),
         \A r \in Board!Rows \ rs : view[u][r] = Board!Lane(u, r) \/ r \in missed[u]
  PROVE  BoardInv'
<1> DEFINE g == [r \in rs |-> Board!LaneOf(u, r)]
<1>1. DOMAIN g = rs /\ \A r \in rs : g[r] = Board!Lane(u, r) /\ g[r] \in Board!Lanes \cup {"none"}
  BY LanesAgree DEF BoardInv
<1> HIDE DEF g
<1> DEFINE q == [pc |-> "read", got |-> g]
<1>2. q.pc = "read" /\ q.got = g
  OBVIOUS
<1>3. /\ poll' = [poll EXCEPT ![u] = q] /\ missed' = [missed EXCEPT ![u] = @ \ rs]
      /\ UNCHANGED <<frow, stamp, tx, view, cursor, now>>
  BY DEF Board!Answer, g
<1> HIDE DEF q
<1>4. /\ poll' = [x \in Clients |-> poll'[x]] /\ poll'[u] = q
      /\ \A x \in Clients \ {u} : poll'[x] = poll[x] /\ missed'[x] = missed[x]
      /\ missed'[u] = missed[u] \ rs /\ missed' \in [Clients -> SUBSET Board!Rows]
  BY <1>3 DEF BoardInv, Board!TypeOK
<1>5. PollOK(q) /\ q # Board!NoPoll
  BY <1>1, <1>2 DEF PollOK, Board!NoPoll
<1>6. Board!TypeOK'
  BY <1>3, <1>4 DEF BoardInv, Board!TypeOK
<1>7. \A x \in Clients, r \in Board!Rows : Board!Lane(x, r)' = Board!Lane(x, r)
  BY <1>3 DEF Board!Lane
<1>8. ClientOK(u)'
  <2>1. \A r \in Board!Rows : Merged(u, r)' = Board!Lane(u, r) \/ r \in missed'[u]
    BY <1>1, <1>2, <1>3, <1>4 DEF Merged
  <2> QED
    BY <1>4, <1>5, <1>7, <2>1 DEF ClientOK
<1>9. ASSUME NEW x \in Clients \ {u} PROVE ClientOK(x)'
  BY <1>3, <1>4, <1>7 DEF BoardInv, ClientOK, Merged, Board!Stale, Board!Deliverable
<1>10. \A x \in Clients : PollOK(poll[x])'
  BY <1>2, <1>4, <1>5 DEF BoardInv, PollOK
<1> QED
  BY <1>3, <1>4, <1>6, <1>8, <1>9, <1>10 DEF BoardInv, TxOK

LEMMA ReplyKeeps ==
  ASSUME Board!Parameters, BoardInv, NEW u \in Clients, Board!Reply(u)
  PROVE  BoardInv'
<1>1. /\ view' = [view EXCEPT ![u] = [r \in Board!Rows |-> Merged(u, r)]]
      /\ cursor' = [cursor EXCEPT ![u] = now] /\ poll' = [poll EXCEPT ![u] = Board!NoPoll]
      /\ UNCHANGED <<frow, stamp, tx, now, missed>> /\ poll[u] # Board!NoPoll
  BY DEF Board!Reply, Merged
<1>2. \A r \in Board!Rows : Merged(u, r) \in Board!Lanes \cup {"none"}
  BY <1>1 DEF BoardInv, Board!TypeOK, Merged, PollOK
<1>3. /\ view' \in [Clients -> [Board!Rows -> Board!Lanes \cup {"none"}]]
      /\ \A r \in Board!Rows : view'[u][r] = Merged(u, r)
      /\ poll'[u] = Board!NoPoll /\ poll' = [x \in Clients |-> poll'[x]] /\ cursor' \in [Clients -> Nat]
      /\ \A x \in Clients \ {u} : view'[x] = view[x] /\ poll'[x] = poll[x] /\ cursor'[x] = cursor[x]
  BY <1>1, <1>2 DEF BoardInv, Board!TypeOK
<1>4. Board!TypeOK'
  BY <1>1, <1>3 DEF BoardInv, Board!TypeOK
<1>5. \A x \in Clients, r \in Board!Rows : Board!Lane(x, r)' = Board!Lane(x, r)
  BY <1>1 DEF Board!Lane
<1>6. ClientOK(u)'
  BY <1>1, <1>3, <1>5 DEF BoardInv, ClientOK, Board!Stale
<1>7. ASSUME NEW x \in Clients \ {u} PROVE ClientOK(x)'
  BY <1>1, <1>3, <1>5 DEF BoardInv, ClientOK, Merged, Board!Stale, Board!Deliverable
<1>8. \A x \in Clients : PollOK(poll[x])'
  BY <1>3 DEF BoardInv, PollOK
<1> QED
  BY <1>1, <1>3, <1>4, <1>6, <1>7, <1>8 DEF BoardInv, TxOK

LEMMA BoardInit ==
  ASSUME Board!Parameters, Board!Init
  PROVE  BoardInv
BY DEF Board!Parameters, Board!Init, BoardInv, Board!TypeOK, Board!Row, Board!Cleanable, TxOK, PollOK, ClientOK

LEMMA BoardStep ==
  ASSUME Board!Parameters, BoardInv, [Board!Next]_(Board!vars)
  PROVE  BoardInv'
<1>1. CASE UNCHANGED Board!vars
  BY <1>1 DEF Board!vars, BoardInv, Board!TypeOK, TxOK, PollOK, ClientOK, Merged, Board!Lane,
                 Board!Stale, Board!Deliverable
<1>2. ASSUME NEW u \in Clients, Board!FullRead(u) PROVE BoardInv'
  BY <1>2, AnswerKeeps DEF Board!FullRead
<1>3. ASSUME NEW u \in Clients, Board!DeltaRead(u) PROVE BoardInv'
  <2>1. /\ poll[u] = Board!NoPoll /\ cursor[u] # 0
        /\ Board!Answer(u, Board!Changed(u)) /\ Board!Changed(u) \in SUBSET Board!Rows
    BY <1>3 DEF Board!DeltaRead, Board!Answer, Board!Changed
  <2>2. \A r \in Board!Rows \ Board!Changed(u) : view[u][r] = Board!Lane(u, r) \/ r \in missed[u]
    BY <2>1 DEF BoardInv, ClientOK, Board!Stale, Board!Deliverable, Board!Changed
  <2> QED
    BY <2>1, <2>2, AnswerKeeps
<1> QED
  BY <1>1, <1>2, <1>3, BeginKeeps, CommitKeeps, ReplyKeeps DEF Board!Next

(* Whatever handlers commit while boards are polled, full or by deltas, a  *)
(* client at rest shows every row as a full load would, or the next delta  *)
(* will bring it, or it was updated between a read and its cursor.         *)
THEOREM BoardsConverge == Board!Spec => []OnlyTheGapIsMissed
<1>1. Board!Init => BoardInv
  BY BoardInit, ScenesAssumption
<1>2. BoardInv /\ [Board!Next]_(Board!vars) => BoardInv'
  BY BoardStep, ScenesAssumption
<1>3. BoardInv => OnlyTheGapIsMissed
  BY DEF BoardInv, ClientOK, OnlyTheGapIsMissed, Board!OnlyTheGapIsMissed, Board!Answered
<1> QED
  BY <1>1, <1>2, <1>3, PTL DEF Board!Spec

----------------------------------------------------------------------------
(* The gate and the role editor behind it, for every set of accounts,      *)
(* roles and requests, every lifetime and load.                            *)
Passing == {"hotel", "sub", "in"}
EntryOK(c) ==
  /\ c.pc \in {"idle", "save", "remove"} \cup Passing
  /\ c.pc \in Passing => c.who \in Accounts /\ c.op \in Gate!Ops
  /\ c.pc # "idle" => c.perms \subseteq Permissions
  /\ c.pc \in {"save", "remove"} => c.key \in Gate!Editable
  /\ c.pc = "save" => c.row \in Gate!Role /\ c.row.is = "there"

(* What is about to be saved, the caller or an earlier holder may grant.   *)
Justified(c) ==
  c.pc = "save" /\ c.key \notin mixed => c.row.perms \subseteq c.perms \cup granted[c.key]

OneEditor ==
  \A r \in Gate!Editable \ mixed :
    \A p, q \in Calls : Gate!HoldsRole(p, r) /\ Gate!HoldsRole(q, r) => p = q

RolesInv ==
  /\ Gate!RolesAreGranted /\ OneEditor
  /\ user \in [Accounts -> [active: BOOLEAN, must: BOOLEAN, role: Roles]]
  /\ granted \in [Roles -> SUBSET Permissions] /\ mixed \subseteq Roles
  /\ entry = [p \in Calls |-> entry[p]]
  /\ \A p \in Calls : EntryOK(entry[p]) /\ Justified(entry[p])

(* When a condition of the hotel holds, it holds now; what a load has read *)
(* and what is kept was true a load, or a life and a load, ago at most.    *)
Holds(c) == CASE c = "open"     -> ~hotel.suspended
              [] c = "module"   -> hotel.module
              [] c = "writable" -> hotel.sub # "expired"
Until(c) == allowed[c] + Ttl + MaxLoad

LoadOK(c) ==
  c.pc \in {"hotel", "sub"} =>
    /\ c.start \in Nat /\ c.start <= clock /\ clock <= c.start + MaxLoad
    /\ c.pc = "sub" => c.suspended \in BOOLEAN /\ (~c.suspended => c.start <= allowed["open"])

CacheInv ==
  /\ hotel \in [suspended: BOOLEAN, sub: {"active", "expired", "none"}, module: BOOLEAN]
  /\ cache \in [until: Nat, suspended: BOOLEAN, module: BOOLEAN, readOnly: BOOLEAN]
  /\ clock \in Nat /\ allowed \in [{"open", "module", "writable"} -> Nat]
  /\ \A c \in {"open", "module", "writable"} : allowed[c] <= clock /\ (Holds(c) => allowed[c] = clock)
  /\ ~cache.suspended => cache.until <= Until("open")
  /\ cache.module => cache.until <= Until("module")
  /\ ~cache.readOnly => cache.until <= Until("writable")
  /\ entry = [p \in Calls |-> entry[p]]
  /\ \A p \in Calls : LoadOK(entry[p])


LEMMA RolesFrame ==
  ASSUME RolesInv, UNCHANGED <<role, entry>>, Gate!Watch,
         user' \in [Accounts -> [active: BOOLEAN, must: BOOLEAN, role: Roles]],
         \A u \in Accounts : Gate!There(user'[u].role)
  PROVE  RolesInv'
<1>1. granted' = granted
  <2>1. \A r : Gate!Saves(r) = {}
    BY DEF Gate!Saves
  <2> QED
    BY <2>1 DEF Gate!Watch, RolesInv
<1>2. mixed \subseteq mixed' /\ mixed' \subseteq Roles
  BY DEF Gate!Watch, RolesInv
<1> QED
  BY <1>1, <1>2 DEF RolesInv, Gate!RolesAreGranted, OneEditor, Justified, EntryOK, Gate!There, Gate!HoldsRole

(* One call moves on, and no row changes. *)
LEMMA EntryKeeps ==
  ASSUME RolesInv, NEW p \in Calls, NEW c, entry' = [entry EXCEPT ![p] = c], UNCHANGED <<role, user>>,
         Gate!Watch, EntryOK(c), entry[p].pc # "save",
         c.pc = "save" => \/ c.row.perms \subseteq c.perms
                          \/ Gate!There(c.key) /\ c.row.perms = role[c.key].perms
  PROVE  RolesInv'
<1>1. granted' = granted
  <2>1. \A r : Gate!Saves(r) = {}
    BY DEF Gate!Saves, RolesInv
  <2> QED
    BY <2>1 DEF Gate!Watch, RolesInv
<1>2. mixed \subseteq mixed' /\ mixed' \subseteq Roles
  BY DEF Gate!Watch, RolesInv
<1>3. entry'[p] = c /\ entry' = [q \in Calls |-> entry'[q]] /\ \A q \in Calls \ {p} : entry'[q] = entry[q]
  BY DEF RolesInv
<1>4. OneEditor'
  BY DEF OneEditor, Gate!Watch, Gate!HoldsRole, Gate!Editable
<1>5. Gate!RolesAreGranted'
  BY <1>1, <1>2 DEF RolesInv, Gate!RolesAreGranted, Gate!There
<1>6. c.pc = "save" /\ c.key \notin mixed => c.row.perms \subseteq c.perms \cup granted[c.key]
  BY DEF RolesInv, Gate!RolesAreGranted, EntryOK, Gate!There
<1>7. \A q \in Calls : EntryOK(entry'[q]) /\ Justified(entry[q])'
  BY <1>1, <1>2, <1>3, <1>6 DEF RolesInv, Justified
<1> QED
  BY <1>1, <1>2, <1>3, <1>4, <1>5, <1>7 DEF RolesInv

(* Going through the guards, or starting to edit.                          *)
LEMMA GuardKeepsRoles ==
  ASSUME RolesInv, Gate!Watch, NEW p \in Calls, Gate!Guard(p)
  PROVE  RolesInv'
<1>1. entry[p].pc # "save" /\ UNCHANGED <<role, user>>
  BY DEF Gate!Guard, Gate!Enter, Gate!LoadHotel, Gate!LoadSubscription, Gate!Handle
<1>2. EntryOK(Gate!Idle) /\ Gate!Idle.pc # "save"
  BY DEF EntryOK, Gate!Idle, Passing
<1>3. EntryOK(entry[p])
  BY DEF RolesInv
<1>4. ASSUME NEW c, NEW s, EntryOK(c), c.pc \in Passing
      PROVE  EntryOK(Gate!Pass(c, s)) /\ Gate!Pass(c, s).pc # "save"
  BY <1>2, <1>4 DEF Gate!Pass, EntryOK, Passing
<1>5. \A u \in Accounts : role[user[u].role].perms \subseteq Permissions
  BY DEF RolesInv, Gate!RolesAreGranted, Gate!Role, Gate!Grantable
<1>6. CASE \E u \in Accounts, op \in Gate!Ops : Gate!Enter(p, u, op)
  <2>1. PICK u \in Accounts, op \in Gate!Ops : Gate!Enter(p, u, op)
    BY <1>6
  <2> DEFINE c == [pc |-> "hotel", who |-> u, op |-> op, perms |-> role[user[u].role].perms, start |-> clock]
  <2>2. EntryOK(c) /\ c.pc \in Passing /\ c.pc # "save"
    BY <1>5 DEF EntryOK, Passing
  <2>3. \/ entry' = [entry EXCEPT ![p] = Gate!Pass(c, cache)] \/ entry' = [entry EXCEPT ![p] = c]
    BY <2>1 DEF Gate!Enter
  <2> HIDE DEF c
  <2> QED
    BY <1>1, <1>4, <2>2, <2>3, EntryKeeps
<1>7. CASE Gate!LoadHotel(p)
  <2> DEFINE c == [pc |-> "sub", who |-> entry[p].who, op |-> entry[p].op, perms |-> entry[p].perms,
                   start |-> entry[p].start, suspended |-> hotel.suspended]
  <2>1. EntryOK(c) /\ c.pc # "save"
    BY <1>3, <1>7 DEF EntryOK, Passing, Gate!LoadHotel
  <2>2. entry' = [entry EXCEPT ![p] = c]
    BY <1>7 DEF Gate!LoadHotel
  <2> HIDE DEF c
  <2> QED
    BY <1>1, <2>1, <2>2, EntryKeeps
<1>8. CASE Gate!LoadSubscription(p)
  <2> DEFINE c == Gate!Pass(entry[p], cache')
  <2>1. EntryOK(c) /\ c.pc # "save"
    BY <1>3, <1>4, <1>8 DEF Passing, Gate!LoadSubscription
  <2>2. entry' = [entry EXCEPT ![p] = c]
    BY <1>8 DEF Gate!LoadSubscription
  <2> HIDE DEF c
  <2> QED
    BY <1>1, <2>1, <2>2, EntryKeeps
<1>9. CASE Gate!Handle(p)
  BY <1>1, <1>2, <1>9, EntryKeeps DEF Gate!Handle
<1> QED
  BY <1>6, <1>7, <1>8, <1>9 DEF Gate!Guard

LEMMA JudgeKeeps ==
  ASSUME RolesInv, Gate!Watch, NEW p \in Calls, NEW r \in Gate!Editable, NEW perms \in Gate!Grantable,
         NEW name \in Names,
         Gate!CreateRole(p, r, perms, name) \/ Gate!UpdateRole(p, r, perms, name) \/ Gate!DeleteRole(p, r)
  PROVE  RolesInv'
<1>1. /\ entry[p].pc = "in" /\ entry[p].perms \subseteq Permissions /\ UNCHANGED <<role, user>>
      /\ r \in Roles /\ role[r] \in Gate!Role
  BY DEF Gate!CreateRole, Gate!UpdateRole, Gate!DeleteRole, Gate!Editing, Gate!Judged, Gate!EditFrame,
         RolesInv, EntryOK, Gate!RolesAreGranted, Gate!Editable
<1> DEFINE Came(pc, new) == [pc |-> pc, who |-> entry[p].who, perms |-> entry[p].perms, key |-> r, row |-> new]
<1>2. CASE Gate!CreateRole(p, r, perms, name)
  <2> DEFINE c == Came("save", [is |-> "there", perms |-> perms, name |-> name])
  <2>1. entry' = [entry EXCEPT ![p] = c] /\ c.pc = "save" /\ c.row.perms \subseteq c.perms
    BY <1>2 DEF Gate!CreateRole, Gate!Judged, Gate!Escalates
  <2>2. EntryOK(c)
    BY <1>1 DEF EntryOK, Passing, Gate!Role
  <2> HIDE DEF c
  <2> QED
    BY <1>1, <2>1, <2>2, EntryKeeps
<1>3. CASE Gate!UpdateRole(p, r, perms, name)
  <2> DEFINE row1 == [role[r] EXCEPT !.perms = perms, !.name = name]
             c == Came("save", row1)
  <2>1. row1 \in Gate!Role /\ row1.is = "there" /\ row1.perms = perms /\ Gate!There(r)
    BY <1>1, <1>3 DEF Gate!Role, Gate!UpdateRole, Gate!There
  <2>2. perms \subseteq entry[p].perms \/ perms = role[r].perms
    BY <1>3 DEF Gate!UpdateRole, Gate!Escalates
  <2>3. entry' = [entry EXCEPT ![p] = c]
    BY <1>3 DEF Gate!UpdateRole, Gate!Judged
  <2> HIDE DEF row1
  <2>4. c.pc = "save" /\ c.row = row1 /\ c.key = r /\ c.perms = entry[p].perms
    OBVIOUS
  <2>5. EntryOK(c)
    BY <1>1, <2>1 DEF EntryOK, Passing
  <2> HIDE DEF c
  <2> QED
    BY <1>1, <2>1, <2>2, <2>3, <2>4, <2>5, EntryKeeps
<1>4. CASE Gate!DeleteRole(p, r)
  <2> DEFINE c == Came("remove", role[r])
  <2>1. entry' = [entry EXCEPT ![p] = c] /\ c.pc = "remove"
    BY <1>4 DEF Gate!DeleteRole, Gate!Judged
  <2>2. EntryOK(c)
    BY <1>1 DEF EntryOK, Passing
  <2> HIDE DEF c
  <2> QED
    BY <1>1, <2>1, <2>2, EntryKeeps
<1> QED
  BY <1>2, <1>3, <1>4

(* One row is saved or goes, and its call ends.                            *)
LEMMA EndKeeps ==
  ASSUME RolesInv, Gate!Watch, NEW p \in Calls, entry' = [entry EXCEPT ![p] = Gate!Idle], UNCHANGED user,
         NEW r \in Gate!Editable, Gate!HoldsRole(p, r), role' \in [Roles -> Gate!Role],
         \A q \in Roles \ {r} : role'[q] = role[q],
         \A u \in Accounts : Gate!There(user[u].role)',
         \A q \in Gate!Editable : Gate!There(r)' /\ Gate!There(q)' /\ role'[r].name = role'[q].name => q = r,
         r \notin mixed /\ Gate!There(r)' => role'[r].perms \subseteq granted'[r],
         granted' \in [Roles -> SUBSET Permissions]
  PROVE  RolesInv'
<1>1. mixed \subseteq mixed' /\ mixed' \subseteq Roles
  BY DEF Gate!Watch, RolesInv
<1>2. /\ entry'[p] = Gate!Idle /\ entry' = [q \in Calls |-> entry'[q]]
      /\ \A q \in Calls \ {p} : entry'[q] = entry[q]
  BY DEF RolesInv
<1>3. OneEditor'
  BY DEF OneEditor, Gate!Watch, Gate!HoldsRole, Gate!Editable
<1>4. ASSUME NEW q \in Roles \ {r} PROVE granted'[q] = granted[q]
  <2>1. Gate!Saves(q) = {}
    BY <1>2 DEF Gate!Saves, Gate!HoldsRole
  <2> QED
    BY <2>1 DEF Gate!Watch
<1>5. Gate!RolesAreGranted'
  <2>1. role'[Owner].perms = Permissions
    BY ScenesAssumption DEF Gate!Parameters, RolesInv, Gate!RolesAreGranted, Gate!Editable
  <2>2. ASSUME NEW q \in Gate!Editable, Gate!There(q)', q \notin mixed'
        PROVE  role'[q].perms \subseteq granted'[q]
    BY <1>1, <1>4, <2>2 DEF RolesInv, Gate!RolesAreGranted, Gate!There, Gate!Editable
  <2>3. ASSUME NEW q \in Gate!Editable, Gate!There(q)', NEW x \in Gate!Editable, Gate!There(x)',
               role'[q].name = role'[x].name
        PROVE  q = x
    BY <2>3 DEF RolesInv, Gate!RolesAreGranted, Gate!There, Gate!Editable
  <2> QED
    BY <2>1, <2>2, <2>3 DEF Gate!RolesAreGranted, Gate!There
<1>6. ASSUME NEW q \in Calls PROVE EntryOK(entry'[q]) /\ Justified(entry[q])'
  <2>1. CASE q = p
    BY <1>2, <2>1 DEF EntryOK, Justified, Gate!Idle, Passing
  <2>2. CASE q # p
    <3>1. entry'[q] = entry[q] /\ EntryOK(entry[q]) /\ Justified(entry[q])
      BY <1>2, <2>2 DEF RolesInv
    <3>2. entry[q].pc = "save" /\ entry[q].key \notin mixed => entry[q].key # r
      BY <2>2 DEF RolesInv, OneEditor, Gate!HoldsRole
    <3>3. entry[q].pc = "save" => entry[q].key \in Roles
      BY <3>1 DEF EntryOK, Gate!Editable
    <3> QED
      BY <1>1, <1>4, <3>1, <3>2, <3>3 DEF Justified
  <2> QED
    BY <2>1, <2>2
<1> QED
  BY <1>1, <1>2, <1>3, <1>5, <1>6 DEF RolesInv

(* A saved row holds nothing but what was justified.                       *)
LEMMA SaveRoleKeeps ==
  ASSUME RolesInv, Gate!Watch, NEW p \in Calls, Gate!SaveRole(p)
  PROVE  RolesInv'
<1>1. PICK c : /\ c = entry[p] /\ c.pc = "save" /\ EntryOK(c) /\ Justified(c)
               /\ entry' = [entry EXCEPT ![p] = Gate!Idle] /\ UNCHANGED user
  BY DEF Gate!SaveRole, Gate!EditFrame, RolesInv
<1>2. /\ c.key \in Gate!Editable /\ c.key \in Roles /\ c.row \in Gate!Role /\ c.row.is = "there"
      /\ c.perms \subseteq Permissions /\ Gate!HoldsRole(p, c.key) /\ c.row.perms \subseteq Permissions
  BY <1>1 DEF EntryOK, Gate!Editable, Gate!HoldsRole, Gate!Role, Gate!Grantable
<1>3. /\ role' = IF Gate!Taken(c.row.name, c.key) THEN role ELSE [role EXCEPT ![c.key] = c.row]
      /\ role \in [Roles -> Gate!Role]
  BY <1>1 DEF Gate!SaveRole, RolesInv, Gate!RolesAreGranted
<1>4. role' \in [Roles -> Gate!Role] /\ \A q \in Roles \ {c.key} : role'[q] = role[q]
  BY <1>2, <1>3
<1>5. \A u \in Accounts : Gate!There(user[u].role)'
  BY <1>1, <1>2, <1>3 DEF RolesInv, Gate!RolesAreGranted, Gate!There
<1>6. \A q \in Gate!Editable :
        Gate!There(c.key)' /\ Gate!There(q)' /\ role'[c.key].name = role'[q].name => q = c.key
  BY <1>2, <1>3 DEF RolesInv, Gate!RolesAreGranted, Gate!There, Gate!Taken, Gate!Editable
<1>7. granted' \in [Roles -> SUBSET Permissions]
  <2>1. \A q \in Gate!Saves(c.key) : q \in Calls /\ entry[q].row.perms \subseteq Permissions
    BY DEF Gate!Saves, RolesInv, EntryOK, Gate!Role, Gate!Grantable
  <2>2. ASSUME NEW q \in Roles PROVE granted'[q] \subseteq Permissions
    <3>1. \A x \in Gate!Saves(q) : x \in Calls /\ entry[x].row.perms \subseteq Permissions
      BY DEF Gate!Saves, RolesInv, EntryOK, Gate!Role, Gate!Grantable
    <3> QED
      BY <3>1 DEF Gate!Watch, RolesInv
  <2> QED
    BY <2>2 DEF Gate!Watch
<1>8. c.key \notin mixed /\ Gate!There(c.key)' => role'[c.key].perms \subseteq granted'[c.key]
  <2> SUFFICES ASSUME c.key \notin mixed, Gate!There(c.key)'
               PROVE  role'[c.key].perms \subseteq granted'[c.key]
    OBVIOUS
  <2>1. CASE role'[c.key] = c.row
    <3>1. p \in Gate!Saves(c.key)
      BY <1>1, <2>1 DEF Gate!Saves, Gate!Idle, RolesInv
    <3>2. c.row.perms \cap (c.perms \cup granted[c.key]) \subseteq granted'[c.key]
      BY <1>1, <1>2, <3>1 DEF Gate!Watch
    <3> QED
      BY <1>1, <2>1, <3>2 DEF Justified
  <2>2. CASE role'[c.key] # c.row
    <3>1. role' = role
      BY <1>2, <1>3, <2>2
    <3>2. Gate!Saves(c.key) = {}
      <4>1. \A q \in Gate!Saves(c.key) : q = p
        BY <1>1 DEF Gate!Saves, RolesInv
      <4> QED
        BY <1>1, <2>2, <4>1 DEF Gate!Saves
    <3>3. granted'[c.key] = granted[c.key]
      BY <1>2, <3>2 DEF Gate!Watch
    <3> QED
      BY <1>2, <3>1, <3>3 DEF RolesInv, Gate!RolesAreGranted, Gate!There
  <2> QED
    BY <2>1, <2>2
<1> QED
  BY <1>1, <1>2, <1>4, <1>5, <1>6, <1>7, <1>8, EndKeeps

LEMMA RemoveRoleKeeps ==
  ASSUME RolesInv, Gate!Watch, NEW p \in Calls, Gate!RemoveRole(p)
  PROVE  RolesInv'
<1>1. PICK r \in Gate!Editable : /\ r = entry[p].key /\ entry[p].pc = "remove" /\ Gate!HoldsRole(p, r)
                                /\ entry' = [entry EXCEPT ![p] = Gate!Idle] /\ UNCHANGED user
  BY DEF Gate!RemoveRole, Gate!EditFrame, RolesInv, EntryOK, Gate!HoldsRole
<1>2. /\ r \in Roles /\ role \in [Roles -> Gate!Role]
      /\ role' = IF \E u \in Accounts : user[u].role = r THEN role ELSE [role EXCEPT ![r].is = "gone"]
  BY <1>1 DEF Gate!RemoveRole, RolesInv, Gate!RolesAreGranted, Gate!Editable
<1>3. [role[r] EXCEPT !.is = "gone"] \in Gate!Role
  BY <1>2 DEF Gate!Role
<1>4. role' \in [Roles -> Gate!Role] /\ \A q \in Roles \ {r} : role'[q] = role[q]
  BY <1>2, <1>3
<1>5. Gate!There(r)' => role'[r] = role[r] /\ role' = role
  BY <1>2 DEF Gate!There, Gate!Role
<1>6. \A u \in Accounts : Gate!There(user[u].role)'
  BY <1>1, <1>2 DEF RolesInv, Gate!RolesAreGranted, Gate!There
<1>7. granted' = granted
  <2>1. \A q : Gate!Saves(q) = {}
    BY <1>1 DEF Gate!Saves, RolesInv
  <2> QED
    BY <2>1 DEF Gate!Watch, RolesInv
<1>8. \A q \in Gate!Editable :
        Gate!There(r)' /\ Gate!There(q)' /\ role'[r].name = role'[q].name => q = r
  BY <1>1, <1>5 DEF RolesInv, Gate!RolesAreGranted, Gate!There
<1>9. r \notin mixed /\ Gate!There(r)' => role'[r].perms \subseteq granted'[r]
  BY <1>1, <1>5, <1>7 DEF RolesInv, Gate!RolesAreGranted, Gate!There
<1> QED
  BY <1>1, <1>4, <1>6, <1>7, <1>8, <1>9, EndKeeps DEF RolesInv

LEMMA RolesInit == Gate!Init => RolesInv
<1> SUFFICES ASSUME Gate!Init PROVE RolesInv
  OBVIOUS
<1>1. role \in [Roles -> Gate!Role] /\ role[Owner] = Gate!OwnerRow /\ Owner \in Roles
  BY ScenesAssumption DEF Gate!Init, Gate!SeededRoles, Gate!Parameters
<1>2. ASSUME NEW r \in Gate!Editable, NEW q \in Gate!Editable, Gate!There(r), Gate!There(q),
             role[r].name = role[q].name
      PROVE  r = q
  BY <1>2 DEF Gate!Init, Gate!SeededRoles, Gate!NoRole, Gate!There
<1>3. /\ granted = [r \in Roles |-> role[r].perms] /\ mixed = {} /\ entry = [p \in Calls |-> Gate!Idle]
      /\ user \in [Accounts -> [active: {TRUE}, must: BOOLEAN, role: Roles]]
      /\ \A u \in Accounts : role[user[u].role].is = "there"
  BY DEF Gate!Init
<1>4. granted \in [Roles -> SUBSET Permissions] /\ \A r \in Gate!Editable : role[r].perms \subseteq granted[r]
  BY <1>1, <1>3 DEF Gate!Role, Gate!Grantable, Gate!Editable
<1>5. Gate!RolesAreGranted
  BY <1>1, <1>2, <1>3, <1>4 DEF Gate!RolesAreGranted, Gate!There, Gate!OwnerRow
<1>6. \A p \in Calls : EntryOK(entry[p]) /\ Justified(entry[p]) /\ entry[p].pc = "idle"
  BY <1>3 DEF EntryOK, Justified, Gate!Idle, Passing
<1>7. entry = [p \in Calls |-> entry[p]]
  BY <1>3
<1>8. user \in [Accounts -> [active: BOOLEAN, must: BOOLEAN, role: Roles]]
  BY <1>3
<1> QED
  BY <1>3, <1>4, <1>5, <1>6, <1>7, <1>8 DEF RolesInv, OneEditor, Gate!HoldsRole

LEMMA RolesStep == RolesInv /\ [Gate!Next]_(Gate!vars) => RolesInv'
<1> SUFFICES ASSUME RolesInv, [Gate!Next]_(Gate!vars) PROVE RolesInv'
  OBVIOUS
<1>1. CASE UNCHANGED Gate!vars
  BY <1>1 DEF Gate!vars, RolesInv, Gate!RolesAreGranted, OneEditor, Gate!HoldsRole, EntryOK, Justified, Gate!There
<1>2. ASSUME Gate!World, Gate!Watch PROVE RolesInv'
  <2>1. UNCHANGED <<role, entry, user>>
    BY <1>2 DEF Gate!World, Gate!Suspend, Gate!Expire, Gate!ChangePlanClose, Gate!Tick, Gate!ChangePlanOpen,
                Gate!HotelChanges
  <2>2. \A u \in Accounts : Gate!There(user[u].role)
    BY DEF RolesInv, Gate!RolesAreGranted
  <2> QED
    BY <1>2, <2>1, <2>2, RolesFrame DEF RolesInv
<1>3. ASSUME Gate!Staffing, Gate!Watch PROVE RolesInv'
  <2>1. PICK u \in Accounts : \/ \E r \in Gate!Editable : Gate!AssignRole(u, r)
                              \/ \E active \in BOOLEAN, must \in BOOLEAN : Gate!ChangeAccount(u, active, must)
    BY <1>3 DEF Gate!Staffing
  <2>2. UNCHANGED <<role, entry>>
    BY <2>1 DEF Gate!AssignRole, Gate!ChangeAccount
  <2>3. \A w \in Accounts : Gate!There(user[w].role) /\ user[w] \in [active: BOOLEAN, must: BOOLEAN, role: Roles]
    BY DEF RolesInv, Gate!RolesAreGranted
  <2>4. CASE \E r \in Gate!Editable : Gate!AssignRole(u, r)
    <3>1. PICK r \in Gate!Editable : Gate!AssignRole(u, r)
      BY <2>4
    <3>2. [user[u] EXCEPT !.role = r] \in [active: BOOLEAN, must: BOOLEAN, role: Roles] /\ Gate!There(r)
      BY <2>3, <3>1 DEF Gate!AssignRole, Gate!Editable
    <3>3. /\ user' \in [Accounts -> [active: BOOLEAN, must: BOOLEAN, role: Roles]]
          /\ \A w \in Accounts : Gate!There(user'[w].role)
      BY <2>3, <3>1, <3>2 DEF Gate!AssignRole, RolesInv
    <3> QED
      BY <1>3, <2>2, <3>3, RolesFrame
  <2>5. CASE \E active \in BOOLEAN, must \in BOOLEAN : Gate!ChangeAccount(u, active, must)
    <3>1. PICK active \in BOOLEAN, must \in BOOLEAN : Gate!ChangeAccount(u, active, must)
      BY <2>5
    <3>2. PICK x : x = [user[u] EXCEPT !.active = active, !.must = must]
      OBVIOUS
    <3>3. user' = [user EXCEPT ![u] = x]
      BY <3>1, <3>2, <2>3 DEF Gate!ChangeAccount, RolesInv
    <3>5. x \in [active: BOOLEAN, must: BOOLEAN, role: Roles] /\ x.role = user[u].role
      BY <2>3, <3>2
    <3>4. /\ user' \in [Accounts -> [active: BOOLEAN, must: BOOLEAN, role: Roles]]
          /\ \A w \in Accounts : Gate!There(user'[w].role)
      BY <2>3, <3>3, <3>5 DEF RolesInv
    <3> QED
      BY <1>3, <2>2, <3>4, RolesFrame
  <2> QED
    BY <2>1, <2>4, <2>5
<1>4. ASSUME NEW p \in Calls, Gate!Edit(p), Gate!Watch PROVE RolesInv'
  <2>1. PICK name \in Names, perms \in Gate!Grantable : TRUE
    BY ScenesAssumption DEF Gate!Parameters, Gate!Grantable
  <2> QED
    BY <1>4, <2>1, JudgeKeeps, SaveRoleKeeps, RemoveRoleKeeps DEF Gate!Edit
<1> QED
  BY <1>1, <1>2, <1>3, <1>4, GuardKeepsRoles DEF Gate!Next, Gate!Step

(* Whatever edits, removals and assignments overlap, a role that no two    *)
(* requests edit at once holds only what somebody put there who held it,   *)
(* names stay apart, and every account keeps a role.                       *)
THEOREM RolesStayGranted == Gate!Spec => []RolesAreGranted
<1>1. RolesInv => RolesAreGranted
  BY DEF RolesInv, RolesAreGranted
<1> QED
  BY <1>1, RolesInit, RolesStep, PTL DEF Gate!Spec

----------------------------------------------------------------------------
(* The cached state of the hotel.                                          *)
Conditions == {"open", "module", "writable"}

LEMMA CacheTypes ==
  ASSUME CacheInv
  PROVE  /\ Ttl \in Nat \ {0} /\ MaxLoad \in Nat /\ clock \in Nat
         /\ \A c \in Conditions : allowed[c] \in Nat /\ Until(c) = allowed[c] + Ttl + MaxLoad
BY ScenesAssumption DEF Gate!Parameters, CacheInv, Until, Conditions

(* What was noted stays noted.                                             *)
LEMMA NotedKeeps ==
  ASSUME CacheInv, Gate!Watch, clock' \in Nat, clock <= clock'
  PROVE  /\ allowed' \in [Conditions -> Nat]
         /\ \A c \in Conditions : allowed[c] <= allowed'[c] /\ allowed'[c] <= clock'
         /\ ~hotel'.suspended => allowed'["open"] = clock'
         /\ hotel'.module => allowed'["module"] = clock'
         /\ hotel'.sub # "expired" => allowed'["writable"] = clock'
         /\ UNCHANGED hotel => \A c \in Conditions : Holds(c)' = Holds(c)
<1>1. /\ DOMAIN allowed = Conditions /\ allowed \in [Conditions -> Nat]
      /\ \A c \in Conditions : allowed[c] <= clock
  BY DEF CacheInv, Conditions
<1>2. /\ DOMAIN allowed' = Conditions
      /\ allowed'["open"] = IF ~hotel'.suspended THEN clock' ELSE allowed["open"]
      /\ allowed'["module"] = IF hotel'.module THEN clock' ELSE allowed["module"]
      /\ allowed'["writable"] = IF hotel'.sub # "expired" THEN clock' ELSE allowed["writable"]
  BY <1>1 DEF Gate!Watch, Conditions
<1>3. \A c \in Conditions : allowed'[c] \in {clock', allowed[c]}
  BY <1>2 DEF Conditions
<1>4. allowed' = [c \in Conditions |-> allowed'[c]]
  BY <1>1 DEF Gate!Watch
<1>5. clock \in Nat
  BY DEF CacheInv
<1>6. \A c \in Conditions : allowed'[c] \in Nat /\ allowed[c] <= allowed'[c] /\ allowed'[c] <= clock'
  BY <1>1, <1>3, <1>5
<1>7. UNCHANGED hotel => \A c \in Conditions : Holds(c)' = Holds(c)
  BY DEF Holds, Conditions
<1> QED
  BY <1>2, <1>4, <1>6, <1>7

LEMMA HoldsNoted ==
  ASSUME CacheInv, Gate!Watch, clock' \in Nat, clock <= clock'
  PROVE  \A c \in Conditions : allowed'[c] <= clock' /\ (Holds(c)' => allowed'[c] = clock')
BY NotedKeeps DEF Holds, Conditions

(* A kept state is bounded by what was noted, which only grows.            *)
LEMMA CacheFrame ==
  ASSUME CacheInv, Gate!Watch, UNCHANGED cache, clock' \in Nat, clock <= clock',
         hotel' \in [suspended: BOOLEAN, sub: {"active", "expired", "none"}, module: BOOLEAN],
         entry' = [p \in Calls |-> entry'[p]], \A p \in Calls : LoadOK(entry[p])'
  PROVE  CacheInv'
<1>1. \A c \in Conditions : Until(c) \in Nat /\ Until(c)' \in Nat /\ Until(c) <= Until(c)'
  BY NotedKeeps, CacheTypes DEF Until
<1>2. cache.until \in Nat
  BY DEF CacheInv
<1>3. /\ ~cache.suspended => cache.until <= Until("open")'
      /\ cache.module => cache.until <= Until("module")'
      /\ ~cache.readOnly => cache.until <= Until("writable")'
  BY <1>1, <1>2 DEF CacheInv, Conditions
<1> QED
  BY <1>3, NotedKeeps, HoldsNoted DEF CacheInv, Conditions

LEMMA LoadsKeep ==
  ASSUME CacheInv, Gate!Watch, clock' = clock, NEW q \in Calls, entry'[q] = entry[q]
  PROVE  LoadOK(entry[q])'
BY NotedKeeps DEF CacheInv, LoadOK, Conditions

(* A call that is not loading, one that begins to load, one half way.      *)
LEMMA CallKeepsCache ==
  ASSUME CacheInv, Gate!Watch, UNCHANGED <<hotel, clock, cache>>, NEW p \in Calls, NEW c,
         entry' = [entry EXCEPT ![p] = c],
         \/ c.pc \notin {"hotel", "sub"}
         \/ c.pc = "hotel" /\ c.start = clock
         \/ /\ c.pc = "sub" /\ entry[p].pc = "hotel" /\ c.start = entry[p].start
            /\ c.suspended = hotel.suspended
  PROVE  CacheInv'
<1>1. /\ entry'[p] = c /\ \A q \in Calls \ {p} : entry'[q] = entry[q]
      /\ entry' = [q \in Calls |-> entry'[q]]
  BY DEF CacheInv
<1>2. LoadOK(entry[p])'
  <2>1. CASE c.pc \notin {"hotel", "sub"}
    BY <1>1, <2>1 DEF LoadOK
  <2>2. CASE c.pc = "hotel" /\ c.start = clock
    BY <1>1, <2>2, CacheTypes DEF LoadOK
  <2>3. CASE c.pc = "sub" /\ entry[p].pc = "hotel" /\ c.start = entry[p].start /\ c.suspended = hotel.suspended
    <3>1. c.start \in Nat /\ c.start <= clock /\ clock <= c.start + MaxLoad
      BY <2>3 DEF CacheInv, LoadOK
    <3>2. ~hotel.suspended => allowed'["open"] = clock
      BY NotedKeeps, CacheTypes
    <3>3. c.suspended \in BOOLEAN
      BY <2>3 DEF CacheInv
    <3> QED
      BY <1>1, <2>3, <3>1, <3>2, <3>3 DEF LoadOK
  <2> QED
    BY <2>1, <2>2, <2>3
<1>3. \A q \in Calls : LoadOK(entry[q])'
  BY <1>1, <1>2, LoadsKeep
<1> QED
  BY <1>1, <1>3, CacheFrame, CacheTypes DEF CacheInv

LEMMA PassOut == \A c, s : Gate!Pass(c, s).pc \in {"idle", "in"}
BY DEF Gate!Pass, Gate!Idle

LEMMA EnterKeepsCache ==
  ASSUME CacheInv, Gate!Watch, NEW p \in Calls, NEW u, NEW op, Gate!Enter(p, u, op)
  PROVE  CacheInv'
<1> DEFINE c == [pc |-> "hotel", who |-> u, op |-> op, perms |-> role[user[u].role].perms, start |-> clock]
<1>1. entry' = [entry EXCEPT ![p] = Gate!Pass(c, cache)] \/ entry' = [entry EXCEPT ![p] = c]
  BY DEF Gate!Enter
<1>2. c.pc = "hotel" /\ c.start = clock /\ Gate!Pass(c, cache).pc \notin {"hotel", "sub"}
  BY PassOut
<1> HIDE DEF c
<1> QED
  BY <1>1, <1>2, CallKeepsCache DEF Gate!Enter

LEMMA LoadSubKeepsCache ==
  ASSUME CacheInv, Gate!Watch, NEW p \in Calls, Gate!LoadSubscription(p)
  PROVE  CacheInv'
<1>1. /\ entry[p].pc = "sub" /\ UNCHANGED <<hotel, clock>>
      /\ cache' = [until |-> clock + Ttl, suspended |-> entry[p].suspended,
                   module |-> hotel.module, readOnly |-> hotel.sub = "expired"]
      /\ entry' = [entry EXCEPT ![p] = Gate!Pass(entry[p], cache')]
  BY DEF Gate!LoadSubscription
<1>2. LoadOK(entry[p]) /\ entry[p].suspended \in BOOLEAN
  BY <1>1 DEF CacheInv, LoadOK
<1>3. /\ hotel \in [suspended: BOOLEAN, sub: {"active", "expired", "none"}, module: BOOLEAN]
      /\ cache'.until = clock + Ttl /\ cache'.suspended = entry[p].suspended /\ cache'.module = hotel.module
      /\ cache'.readOnly = (hotel.sub = "expired")
      /\ cache' \in [until: Nat, suspended: BOOLEAN, module: BOOLEAN, readOnly: BOOLEAN]
  BY <1>1, <1>2, CacheTypes DEF CacheInv
<1>4. /\ entry' = [q \in Calls |-> entry'[q]] /\ entry'[p].pc \notin {"hotel", "sub"}
      /\ \A q \in Calls \ {p} : entry'[q] = entry[q]
  BY <1>1, PassOut DEF CacheInv
<1>5. \A q \in Calls : LoadOK(entry[q])'
  BY <1>1, <1>4, LoadsKeep DEF LoadOK
<1>6. \A c \in Conditions : Until(c)' = allowed'[c] + Ttl + MaxLoad /\ allowed'[c] \in Nat
  BY NotedKeeps, <1>1, CacheTypes DEF Until
<1>7. ~cache'.suspended => cache'.until <= Until("open")'
  <2> SUFFICES ASSUME ~cache'.suspended PROVE cache'.until <= Until("open")'
    OBVIOUS
  <2>1. entry[p].start \in Nat /\ clock <= entry[p].start + MaxLoad /\ entry[p].start <= allowed["open"]
    BY <1>1, <1>2, <1>3 DEF LoadOK
  <2>2. allowed["open"] <= allowed'["open"] /\ allowed["open"] \in Nat
    BY <1>1, NotedKeeps, CacheTypes DEF Conditions
  <2> QED
    BY <1>3, <1>6, <2>1, <2>2, CacheTypes DEF Conditions
<1>8. cache'.module => cache'.until <= Until("module")'
  BY <1>1, <1>3, <1>6, NotedKeeps, CacheTypes DEF Conditions
<1>9. ~cache'.readOnly => cache'.until <= Until("writable")'
  <2>1. cache'.readOnly \/ hotel.sub # "expired"
    BY <1>3
  <2> QED
    BY <1>1, <1>3, <1>6, <2>1, NotedKeeps, CacheTypes DEF Conditions
<1>10. \A c \in Conditions : allowed'[c] <= clock' /\ (Holds(c)' => allowed'[c] = clock')
  BY <1>1, HoldsNoted, CacheTypes
<1>11. allowed' \in [Conditions -> Nat] /\ clock' \in Nat
  BY <1>1, NotedKeeps, CacheTypes
<1> QED
  BY <1>1, <1>3, <1>4, <1>5, <1>7, <1>8, <1>9, <1>10, <1>11 DEF CacheInv, Conditions

LEMMA HotelKeepsCache ==
  ASSUME CacheInv, Gate!Watch, UNCHANGED <<cache, entry, clock>>,
         hotel' \in [suspended: BOOLEAN, sub: {"active", "expired", "none"}, module: BOOLEAN]
  PROVE  CacheInv'
<1>1. \A q \in Calls : LoadOK(entry[q])'
  BY LoadsKeep
<1> QED
  BY <1>1, CacheFrame, CacheTypes DEF CacheInv

LEMMA TickKeepsCache ==
  ASSUME CacheInv, Gate!Watch, Gate!Tick
  PROVE  CacheInv'
<1>1. /\ clock' = clock + 1 /\ UNCHANGED <<hotel, cache, entry>> /\ clock' \in Nat /\ clock <= clock'
      /\ \A p \in Calls : entry[p].pc \in {"hotel", "sub"} => clock < entry[p].start + MaxLoad
  BY CacheTypes DEF Gate!Tick
<1>2. ASSUME NEW p \in Calls PROVE LoadOK(entry[p])'
  BY <1>1, NotedKeeps, CacheTypes DEF CacheInv, LoadOK, Conditions
<1> QED
  BY <1>1, <1>2, CacheFrame DEF CacheInv

LEMMA CacheInit == Gate!Init => CacheInv
<1> SUFFICES ASSUME Gate!Init PROVE CacheInv
  OBVIOUS
<1>1. Ttl \in Nat /\ MaxLoad \in Nat
  BY ScenesAssumption DEF Gate!Parameters
<1>2. /\ allowed = [c \in Conditions |-> 0] /\ clock = 0 /\ cache = Gate!NoState
      /\ entry = [p \in Calls |-> Gate!Idle]
      /\ hotel = [suspended |-> FALSE, sub |-> "active", module |-> TRUE]
  BY DEF Gate!Init, Conditions
<1>3. \A c \in Conditions : allowed[c] = 0 /\ Until(c) \in Nat /\ 0 <= Until(c)
  BY <1>1, <1>2 DEF Until
<1>4. /\ cache \in [until: Nat, suspended: BOOLEAN, module: BOOLEAN, readOnly: BOOLEAN] /\ cache.until = 0
      /\ hotel \in [suspended: BOOLEAN, sub: {"active", "expired", "none"}, module: BOOLEAN]
  BY <1>2 DEF Gate!NoState
<1>5. allowed \in [Conditions -> Nat] /\ entry = [p \in Calls |-> entry[p]]
      /\ \A p \in Calls : LoadOK(entry[p])
  BY <1>2 DEF LoadOK, Gate!Idle
<1> QED
  BY <1>2, <1>3, <1>4, <1>5 DEF CacheInv, Conditions

LEMMA CacheStep == CacheInv /\ [Gate!Next]_(Gate!vars) => CacheInv'
<1> SUFFICES ASSUME CacheInv, [Gate!Next]_(Gate!vars) PROVE CacheInv'
  OBVIOUS
<1> DEFINE Hotel == [suspended: BOOLEAN, sub: {"active", "expired", "none"}, module: BOOLEAN]
<1>1. CASE UNCHANGED Gate!vars
  BY <1>1 DEF Gate!vars, CacheInv, LoadOK, Until, Holds
<1>2. ASSUME Gate!World, Gate!Watch PROVE CacheInv'
  <2>1. hotel \in Hotel /\ hotel.suspended \in BOOLEAN
    BY DEF CacheInv
  <2>2. ASSUME NEW h \in Hotel, Gate!HotelChanges(h) PROVE CacheInv'
    BY <1>2, <2>2, HotelKeepsCache DEF Gate!HotelChanges
  <2>3. CASE Gate!Suspend
    <3>1. [hotel EXCEPT !.suspended = ~@] \in Hotel
      BY <2>1
    <3> QED
      BY <2>2, <2>3, <3>1 DEF Gate!Suspend
  <2>4. CASE Gate!Expire
    <3>1. [hotel EXCEPT !.sub = "expired"] \in Hotel
      BY <2>1
    <3> QED
      BY <2>2, <2>4, <3>1 DEF Gate!Expire
  <2>5. CASE Gate!ChangePlanClose
    <3>1. [hotel EXCEPT !.sub = "none", !.module = FALSE] \in Hotel
      BY <2>1
    <3> QED
      BY <2>2, <2>5, <3>1 DEF Gate!ChangePlanClose
  <2>6. ASSUME NEW module \in BOOLEAN, Gate!ChangePlanOpen(module) PROVE CacheInv'
    <3>1. [hotel EXCEPT !.sub = "active", !.module = module] \in Hotel
      BY <2>1
    <3> QED
      BY <2>2, <2>6, <3>1 DEF Gate!ChangePlanOpen
  <2> QED
    BY <1>2, <2>3, <2>4, <2>5, <2>6, TickKeepsCache DEF Gate!World
<1>3. ASSUME Gate!Staffing, Gate!Watch PROVE CacheInv'
  <2>1. UNCHANGED <<hotel, cache, entry, clock>>
    BY <1>3 DEF Gate!Staffing, Gate!AssignRole, Gate!ChangeAccount
  <2> QED
    BY <1>3, <2>1, HotelKeepsCache DEF CacheInv
<1>4. ASSUME NEW p \in Calls, Gate!Guard(p), Gate!Watch PROVE CacheInv'
  <2>1. CASE Gate!LoadHotel(p)
    BY <1>4, <2>1, CallKeepsCache DEF Gate!LoadHotel
  <2>2. CASE Gate!Handle(p)
    BY <1>4, <2>2, CallKeepsCache DEF Gate!Handle, Gate!Idle
  <2> QED
    BY <1>4, <2>1, <2>2, EnterKeepsCache, LoadSubKeepsCache DEF Gate!Guard
<1>5. ASSUME NEW p \in Calls, Gate!Edit(p), Gate!Watch PROVE CacheInv'
  <2>1. UNCHANGED <<hotel, cache, clock>>
    BY <1>5 DEF Gate!Edit, Gate!CreateRole, Gate!UpdateRole, Gate!DeleteRole, Gate!SaveRole, Gate!RemoveRole,
                Gate!Judged, Gate!EditFrame
  <2>2. PICK c : entry' = [entry EXCEPT ![p] = c] /\ c.pc \notin {"hotel", "sub"}
    <3>1. CASE Gate!SaveRole(p) \/ Gate!RemoveRole(p)
      BY <3>1 DEF Gate!SaveRole, Gate!RemoveRole, Gate!Idle
    <3>2. ASSUME NEW pc \in {"save", "remove"}, NEW r, NEW x, Gate!Judged(p, pc, r, x)
          PROVE  \E c : entry' = [entry EXCEPT ![p] = c] /\ c.pc \notin {"hotel", "sub"}
      <4> DEFINE c == [pc |-> pc, who |-> entry[p].who, perms |-> entry[p].perms, key |-> r, row |-> x]
      <4>1. entry' = [entry EXCEPT ![p] = c] /\ c.pc = pc
        BY <3>2 DEF Gate!Judged
      <4> HIDE DEF c
      <4> QED
        BY <4>1
    <3>3. CASE ~(Gate!SaveRole(p) \/ Gate!RemoveRole(p))
      BY <1>5, <3>2, <3>3 DEF Gate!Edit, Gate!CreateRole, Gate!UpdateRole, Gate!DeleteRole
    <3> QED
      BY <3>1, <3>3
  <2> QED
    BY <1>5, <2>1, <2>2, CallKeepsCache
<1> QED
  BY <1>1, <1>2, <1>3, <1>4, <1>5 DEF Gate!Next, Gate!Step

(* Whoever is let in, from memory or after a load, was allowed in within   *)
(* the last life of a cached state and a load, however loads overlap and   *)
(* whatever the vendor changes meanwhile.                                  *)
THEOREM AdmissionsWereAllowed == Gate!Spec => AdmittedWasAllowed
<1> DEFINE Recently(c) == clock < allowed[c] + Ttl + MaxLoad
           Admitted(p, op) == /\ Recently("open")
                              /\ op.module => Recently("module")
                              /\ op.mutates => Recently("writable")
<1>1. ASSUME CacheInv, Gate!Next, NEW p \in Calls, entry[p].pc # "in", entry'[p].pc = "in"
      PROVE  Admitted(p, entry'[p].op)
  <2>1. PICK c, s : /\ entry'[p] = Gate!Pass(c, s)
                    /\ \/ s = cache /\ clock < cache.until
                       \/ s = cache' /\ c = entry[p] /\ Gate!LoadSubscription(p)
    <3>1. PICK q \in Calls : Gate!Guard(q) \/ Gate!Edit(q)
      <4>1. ~Gate!World /\ ~Gate!Staffing
        BY <1>1 DEF Gate!World, Gate!Suspend, Gate!Expire, Gate!ChangePlanClose, Gate!Tick, Gate!ChangePlanOpen,
                    Gate!HotelChanges, Gate!Staffing, Gate!AssignRole, Gate!ChangeAccount
      <4> QED
        BY <1>1, <4>1 DEF Gate!Next, Gate!Step
    <3>2. ~Gate!Edit(q)
      <4>1. ASSUME NEW pc \in {"idle", "save", "remove"}, NEW x, x.pc = pc, entry' = [entry EXCEPT ![q] = x]
            PROVE  FALSE
        BY <1>1, <4>1 DEF CacheInv
      <4>2. ASSUME NEW pc \in {"save", "remove"}, NEW r, NEW x, Gate!Judged(q, pc, r, x) PROVE FALSE
        BY <4>1, <4>2 DEF Gate!Judged
      <4>3. ~Gate!SaveRole(q) /\ ~Gate!RemoveRole(q)
        BY <4>1 DEF Gate!SaveRole, Gate!RemoveRole, Gate!Idle
      <4> QED
        BY <4>2, <4>3 DEF Gate!Edit, Gate!CreateRole, Gate!UpdateRole, Gate!DeleteRole
    <3>3. CASE Gate!LoadSubscription(q)
      <4>1. entry' = [entry EXCEPT ![q] = Gate!Pass(entry[q], cache')]
        BY <3>3 DEF Gate!LoadSubscription
      <4>2. p = q /\ entry'[p] = Gate!Pass(entry[p], cache')
        BY <1>1, <4>1 DEF CacheInv
      <4> QED
        BY <3>3, <4>2
    <3>4. ASSUME NEW u, NEW op, Gate!Enter(q, u, op)
          PROVE  \E c : entry'[p] = Gate!Pass(c, cache) /\ clock < cache.until
      <4> DEFINE c == [pc |-> "hotel", who |-> u, op |-> op, perms |-> role[user[u].role].perms, start |-> clock]
      <4>1. entry' = [entry EXCEPT ![q] = IF Gate!Cached(cache) THEN Gate!Pass(c, cache) ELSE c] /\ c.pc = "hotel"
        BY <3>4 DEF Gate!Enter
      <4> HIDE DEF c
      <4>2. p = q /\ entry'[p] = Gate!Pass(c, cache) /\ Gate!Cached(cache)
        BY <1>1, <4>1 DEF CacheInv
      <4>3. cache.until \in Nat /\ clock \in Nat /\ cache.until > clock
        BY <1>1, <4>2 DEF CacheInv, Gate!Cached
      <4> QED
        BY <4>2, <4>3
    <3>5. ~Gate!LoadHotel(q) /\ ~Gate!Handle(q)
      BY <1>1 DEF Gate!LoadHotel, Gate!Handle, Gate!Idle, CacheInv
    <3> QED
      BY <3>1, <3>2, <3>3, <3>4, <3>5 DEF Gate!Guard
  <2>2. /\ entry'[p].op = c.op /\ ~s.suspended /\ (c.op.module => s.module)
        /\ c.op.mutates => ~s.readOnly
    BY <1>1, <2>1 DEF Gate!Pass, Gate!Idle, Gate!Suspended, Gate!Excluded, Gate!ReadOnly
  <2>3. CASE s = cache /\ clock < cache.until
    BY <1>1, <2>2, <2>3, CacheTypes DEF CacheInv, Until, Conditions
  <2>4. CASE s = cache' /\ c = entry[p] /\ Gate!LoadSubscription(p)
    <3>1. LoadOK(entry[p]) /\ entry[p].pc = "sub" /\ entry[p].suspended \in BOOLEAN
      BY <1>1, <2>4 DEF CacheInv, LoadOK, Gate!LoadSubscription
    <3>2. /\ s.suspended = entry[p].suspended /\ s.module = hotel.module
          /\ s.readOnly \/ hotel.sub # "expired"
      BY <2>4 DEF Gate!LoadSubscription
    <3>3. Recently("open")
      BY <1>1, <2>2, <3>1, <3>2, CacheTypes DEF LoadOK, Conditions
    <3>4. c.op.module => Recently("module")
      BY <1>1, <2>2, <3>2, CacheTypes DEF CacheInv, Holds, Conditions
    <3>5. c.op.mutates => Recently("writable")
      BY <1>1, <2>2, <3>2, CacheTypes DEF CacheInv, Holds, Conditions
    <3> QED
      BY <2>2, <3>3, <3>4, <3>5
  <2> QED
    BY <2>1, <2>3, <2>4
<1>2. CacheInv /\ [Gate!Next]_(Gate!vars)
        => [\A p \in Calls : entry[p].pc # "in" /\ entry'[p].pc = "in" => Admitted(p, entry'[p].op)]_(Gate!vars)
  BY <1>1
<1> QED
  BY <1>2, CacheInit, CacheStep, PTL DEF Gate!Spec, AdmittedWasAllowed, Gate!AdmittedWasAllowed
=============================================================================
