------------------------------- MODULE Assets -------------------------------
(***************************************************************************)
(* Photos and the hotel directory: a food item, an event and the hotel     *)
(* itself name one photo each, an entry of the directory as many as its    *)
(* section allows (FnbPhotoService, EventPhotoService,                     *)
(* TenantBrandingService, HotelsService.uploadLogo, HotelInfoPhotoService, *)
(* TenantHotelInfoService).                                                *)
(*                                                                         *)
(* The files are in an object store that no transaction spans.  A call     *)
(* reads a row, puts a file, saves the row whole and deletes the old file, *)
(* and may fail or die between any two of these; no row is locked.         *)
(***************************************************************************)
EXTENDS SequencesExt

CONSTANTS Singles,      \* rows with at most one photo, which an upload replaces
          Closing,      \* those that take no photo once they are over: events
          Entries,      \* rows of the directory
          Sections, Singletons,  \* sections of the directory; those of one row
          MaxPhotos,    \* function: how many photos an entry of a section may have
          Files,        \* objects, named by fresh uuids
          Callers,
          None,
          MaxFaults     \* bound: failures and crashes

Rows == Singles \cup Entries

Parameters ==
  /\ Singletons \subseteq Sections /\ MaxPhotos \in [Sections -> Nat]
  /\ Closing \subseteq Singles /\ Singles \cap Entries = {} /\ Rows \cap Sections = {}
  /\ None \notin Rows \cup Sections \cup Files /\ MaxFaults \in Nat
  /\ IsFiniteSet(Files) /\ IsFiniteSet(Entries)

VARIABLES row,     \* tables fnb_items, events, hotels, hotel_info_entries
          stored,  \* the object store
          call,    \* what each call has read and is about to do
          of,      \* ghost: whose upload a file was; None: not uploaded yet
          left,    \* ghost: files that a failure has left behind
          raced,   \* ghost: rows and sections that two calls held at once
          faults   \* number of failures

vars == <<row, stored, call, of, left, raced, faults>>

Idle == [pc |-> "idle", saves |-> <<>>, drop |-> {}, section |-> None]

(* `more` stands for the other columns as far as a call judges them: an    *)
(* entry or an item is active, a singleton has text, an event is not over. *)
New(s, more, sort) == [is |-> "there", section |-> s, photos |-> {}, more |-> more, sort |-> sort]

Init ==
  /\ row = [k \in Rows |-> IF k \in Singles THEN New(None, TRUE, 0)
                           ELSE [New(None, TRUE, 0) EXCEPT !.is = "never"]]
  /\ stored = {} /\ left = {} /\ raced = {} /\ faults = 0
  /\ call = [p \in Callers |-> Idle] /\ of = [f \in Files |-> None]

There(k) == row[k].is = "there"
Of(s) == {k \in Entries : There(k) /\ row[k].section = s}
Cap(k) == IF k \in Singles THEN 1 ELSE MaxPhotos[row[k].section]
Held(p) == {call[p].saves[i].key : i \in DOMAIN call[p].saves}
Named(p) == call[p].drop \cup UNION {call[p].saves[i].row.photos : i \in DOMAIN call[p].saves}

Begin(p, pc, saves, drop, s) ==
  /\ call[p].pc = "idle"
  /\ call' = [call EXCEPT ![p] = [pc |-> pc, saves |-> saves, drop |-> drop, section |-> s]]
  /\ UNCHANGED <<row, stored, of, left, faults>>

One(k, r) == <<[key |-> k, row |-> r]>>

----------------------------------------------------------------------------
(* Photos. *)
PhotoEditable(k) == There(k) /\ (k \in Closing => row[k].more)

SetPhotoRead(p, k) ==
  /\ PhotoEditable(k)
  /\ Begin(p, "store", One(k, [row[k] EXCEPT !.photos = {}]), row[k].photos, None)

AddPhotoRead_NoCap(p, k) == There(k) /\ Begin(p, "store", One(k, row[k]), {}, None)
AddPhotoRead(p, k) ==
  /\ There(k) /\ Cardinality(row[k].photos) < Cap(k)
  /\ Begin(p, "store", One(k, row[k]), {}, None)

RemovePhotoRead(p, k, f) ==
  /\ PhotoEditable(k) /\ f \in row[k].photos
  /\ Begin(p, "save", One(k, [row[k] EXCEPT !.photos = @ \ {f}]), {f}, None)

(* Both renditions, under a fresh name.  What is no image or cannot be put *)
(* ends the call, perhaps with one of the two already there.               *)
Store(p, f) ==
  /\ call[p].pc = "store" /\ of[f] = None
  /\ of' = [of EXCEPT ![f] = call[p].saves[1].key]
  /\ \/ /\ stored' = stored \cup {f}
        /\ call' = [call EXCEPT ![p].pc = "save", ![p].saves[1].row.photos = @ \cup {f}]
        /\ UNCHANGED <<left, faults>>
     \/ /\ faults < MaxFaults /\ faults' = faults + 1
        /\ stored' \in {stored, stored \cup {f}} /\ left' = left \cup {f}
        /\ call' = [call EXCEPT ![p] = Idle]
  /\ UNCHANGED row

----------------------------------------------------------------------------
(* The other columns. *)
EditRead(p, k) ==
  /\ There(k) /\ (k \in Entries => row[k].section \notin Singletons)
  /\ Begin(p, "save", One(k, [row[k] EXCEPT !.more = ~@]), {}, None)

Unused(k) == row[k].is = "never" /\ \A p \in Callers : k \notin Held(p)

UpsertRead_DropsPhotos(p, s, more) ==
  \/ \E k \in Of(s) :
       \/ ~more /\ Begin(p, "remove", One(k, row[k]), {}, s)
       \/ more # row[k].more /\ Begin(p, "save", One(k, [row[k] EXCEPT !.more = more]), {}, s)
  \/ /\ Of(s) = {} /\ more
     /\ \E k \in Entries : Unused(k) /\ Begin(p, "save", One(k, New(s, more, 0)), {}, s)

(* The one row of a singleton, found by its section alone: emptied of text *)
(* it is removed unless it has photos.                                     *)
UpsertRead(p, s, more) ==
  \/ \E k \in Of(s) :
       IF ~more /\ row[k].photos = {} THEN Begin(p, "remove", One(k, row[k]), {}, s)
       ELSE more # row[k].more /\ Begin(p, "save", One(k, [row[k] EXCEPT !.more = more]), {}, s)
  \/ /\ Of(s) = {} /\ more
     /\ \E k \in Entries : Unused(k) /\ Begin(p, "save", One(k, New(s, more, 0)), {}, s)

NextSort_Count(s) == Cardinality({k \in Of(s) : row[k].more})
NextSort(s) == IF Of(s) = {} THEN 0 ELSE Max({row[k].sort : k \in Of(s)}) + 1

CreateRead(p, s) ==
  /\ s \notin Singletons
  /\ \E k \in Entries, more \in BOOLEAN :
       Unused(k) /\ Begin(p, "save", One(k, New(s, more, NextSort(s))), {}, s)

(* Every entry of the section once, in the order asked for; the rows that  *)
(* were read are saved one by one.                                         *)
ReorderRead(p, s, order) ==
  /\ s \notin Singletons /\ Of(s) # {} /\ order \in SetToSeqs(Of(s))
  /\ Begin(p, "save", [i \in DOMAIN order |-> [key |-> order[i],
                         row |-> [row[order[i]] EXCEPT !.sort = i - 1]]], {}, s)

----------------------------------------------------------------------------
(* A row is saved whole, and inserted again if it was removed meanwhile;   *)
(* then the old file is deleted, quietly.                                  *)
Save(p) ==
  /\ call[p].pc = "save"
  /\ row' = [row EXCEPT ![Head(call[p].saves).key] = Head(call[p].saves).row]
  /\ call' = [call EXCEPT ![p] =
       IF Len(@.saves) > 1 THEN [@ EXCEPT !.saves = Tail(call[p].saves)]
       ELSE IF @.drop # {} THEN [Idle EXCEPT !.pc = "delete", !.drop = call[p].drop]
       ELSE Idle]
  /\ UNCHANGED <<stored, of, left, faults>>

RemoveEntry(p) ==
  /\ call[p].pc = "remove"
  /\ row' = [row EXCEPT ![call[p].saves[1].key].is = "gone"]
  /\ call' = [call EXCEPT ![p] = Idle]
  /\ UNCHANGED <<stored, of, left, faults>>

Delete(p) ==
  /\ call[p].pc = "delete"
  /\ \/ stored' = stored \ call[p].drop /\ UNCHANGED <<left, faults>>
     \/ /\ faults < MaxFaults /\ faults' = faults + 1
        /\ left' = left \cup call[p].drop /\ UNCHANGED stored
  /\ call' = [call EXCEPT ![p] = Idle]
  /\ UNCHANGED <<row, of>>

(* The process dies, or the database refuses the save. *)
Crash(p) ==
  /\ call[p].pc # "idle" /\ faults < MaxFaults /\ faults' = faults + 1
  /\ left' = left \cup {f \in Named(p) : \A k \in Rows : f \notin row[k].photos}
  /\ call' = [call EXCEPT ![p] = Idle]
  /\ UNCHANGED <<row, stored, of>>

----------------------------------------------------------------------------
Photograph(p) ==
  \/ \E k \in Singles : SetPhotoRead(p, k)
  \/ \E k \in Entries : AddPhotoRead(p, k)
  \/ \E k \in Rows, f \in Files : RemovePhotoRead(p, k, f)
  \/ \E f \in Files : Store(p, f)
  \/ Delete(p)

Page(p) ==
  \/ \E k \in Rows : EditRead(p, k)
  \/ \E s \in Singletons, more \in BOOLEAN : UpsertRead(p, s, more)
  \/ \E s \in Sections : CreateRead(p, s)
  \/ \E s \in Sections : \E order \in SetToSeqs(Of(s)) : ReorderRead(p, s, order)
  \/ Save(p) \/ RemoveEntry(p)

Step == \E p \in Callers : Photograph(p) \/ Page(p) \/ Crash(p)

Holds(p) == Held(p) \cup {call[p].section}
Together(p, q) == (Holds(p) \cap Holds(q)) \ {None}

(* Also a section whose reordering was cut off. *)
Watch ==
  raced' = raced
    \cup (UNION {UNION {Together(p, q)' : q \in Callers \ {p}} : p \in Callers})
    \cup {call[p].section : p \in {p \in Callers :
            Len(call[p].saves) > 0 /\ faults' # faults /\ call'[p].pc = "idle"}}

Next == Step /\ Watch
Spec == Init /\ [][Next]_vars

----------------------------------------------------------------------------
(* Apart from rows that two calls held at once, no row names a file that   *)
(* is gone or more files than it may, whichever step of an upload, a       *)
(* replacement or a removal fails; and no file stays that no row names,    *)
(* unless a failure left it.                                               *)
PhotosStand ==
  /\ \A k \in Rows \ raced : There(k) =>
       row[k].photos \subseteq stored /\ Cardinality(row[k].photos) <= Cap(k)
  /\ \A f \in stored \ left :
       \/ of[f] \in raced
       \/ There(of[f]) /\ f \in row[of[f]].photos
       \/ \E p \in Callers : f \in Named(p)

(* A section whose structure one call at a time changes keeps its promise  *)
(* to the guest: a singleton is one row, the entries of any other have an  *)
(* order, whoever edits the same rows meanwhile.                           *)
EntriesInOrder ==
  \A s \in Sections \ (raced \cup {call[p].section : p \in Callers}) :
    \A k, l \in Of(s) \ raced : k # l => s \notin Singletons /\ row[k].sort # row[l].sort
=============================================================================
