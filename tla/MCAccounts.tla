----------------------------- MODULE MCAccounts -----------------------------
(* Two staff accounts and one seat, where the two requests are alike; the  *)
(* announcement of a hotel with two guests; two managers on the photo of   *)
(* one food item and on a directory of two or three rows; or the vendor's  *)
(* panel with two admins and a role besides the system's.                  *)
EXTENDS Accounts, TLC

CONSTANTS Anns, Stays, Floors, Editors, Audiences, Ticker,   \* announcements
          Asked, Horizon, MaxWrites,
          Singles, Closing, Entries, Sections, Singletons,   \* photos and the directory
          MaxPhotos, Files,
          Admins, Roles, SuperAdmin, Emails,                 \* the panel
          Callers, None, MaxFaults                           \* of all of them

VARIABLES scene, ann, here, floor, now, call, tick, reads, pushed, raced, faults, writes,
          entry, stored, upload, of, left, mixed, broken,
          admin, role, desk, lapped

News == INSTANCE Announcements
newsVars == <<ann, here, floor, now, call, tick, reads, pushed, raced, faults, writes>>

Guide == INSTANCE Assets WITH row <- entry, call <- upload, raced <- mixed, faults <- broken
guideVars == <<entry, stored, upload, of, left, mixed, broken>>

Panel == INSTANCE Admins WITH call <- desk
panelVars == <<admin, role, desk, lapped>>

ASSUME ScenesAssumption == News!Parameters /\ Guide!Parameters /\ Panel!Parameters

\* What the runs give Audiences and MaxPhotos.
OneFloorOneStay == {[by |-> "floors", of |-> {"f1"}], [by |-> "stays", of |-> {"s1"}]}
PhotoLimits == "about" :> 2 @@ "facilities" :> 1

MCInit ==
  /\ Init /\ News!Init /\ Guide!Init /\ Panel!Init
  /\ scene \in {"accounts", "news", "photos", "entries", "panel"}
  /\ admin["root"].email = "e"
  /\ floor = [s \in {"s1", "s2"} |-> IF s = "s1" THEN "f1" ELSE "f2"]
  /\ scene # "accounts" => crowd = 1

(* Where requests overlap, the direct account keeps its first password.    *)
Staffing ==
  /\ Next
  /\ crowd = 2 => \A u \in Direct : used'[u] <= 1

(* Files and rows are taken in order: their names mean nothing.  Photos go *)
(* with one entry and one single row, the order of three entries with no   *)
(* photo; once two calls held a row or a section, no new call begins.      *)
Fits ==
  /\ of'["b"] # "nobody" => of'["a"] # "nobody"
  /\ entry'["e2"].is # "never" => entry'["e1"].is # "never"
  /\ entry'["e3"].is # "never" => entry'["e2"].is # "never"
  /\ scene = "photos" => entry'["e2"].is = "never"
  /\ \A p \in Callers : upload'[p].pc # "idle" /\ upload[p].pc = "idle" => mixed = {}
  /\ scene = "entries" => \A p \in Callers :
       /\ upload'[p].pc # "store"
       /\ \A i \in DOMAIN upload'[p].saves : upload'[p].saves[i].key \notin {"dish", "event"}

Guiding == Guide!Step /\ Fits /\ Guide!Watch

(* Once two calls overlapped, no new call begins; the first admin keeps    *)
(* the e-mail.                                                             *)
Administering ==
  /\ Panel!Next /\ \A p \in Callers : desk'[p].key = "root" => desk'[p].row.email \in {"e", "nobody"}
  /\ role'["staff"].may \in {{}, {"admins"}}
  /\ lapped => \A p \in Callers : desk[p] = Panel!Idle => desk'[p] = Panel!Idle
  /\ desk["me"] = Panel!Idle => desk'["you"] \in {desk["you"], Panel!Idle}

MCNext ==
  /\ scene' = scene
  /\ \/ scene = "accounts" /\ Staffing /\ UNCHANGED <<newsVars, guideVars, panelVars>>
     \/ scene = "news" /\ News!Next /\ UNCHANGED <<vars, guideVars, panelVars>>
     \/ scene \in {"photos", "entries"} /\ Guiding /\ UNCHANGED <<vars, newsVars, panelVars>>
     \/ scene = "panel" /\ Administering /\ UNCHANGED <<vars, newsVars, guideVars>>
MCSpec == MCInit /\ [][MCNext]_<<scene, vars, newsVars, guideVars, panelVars>>

(* When requests do not overlap, an account's session and the seat counter *)
(* agree with its status, and a disabled one comes back by enabling only;  *)
(* the panel keeps an active admin, and only another brings one back.      *)
AloneAccountsHold ==
  /\ []AloneAccountsAgree /\ AloneDisabledStaysOut
  /\ [](Panel!SessionsAreCurrent /\ Panel!SomeoneRemains) /\ Panel!OthersBringBack

(* An announcement only moves forward, apart from rows two calls held at   *)
(* once, and once guests can see it nothing they were told changes.        *)
AnnouncementsStand == News!AnnouncementsMoveForward /\ News!WhatGuestsSawStands

PhotosStand == Guide!PhotosStand
EntriesInOrder == Guide!EntriesInOrder

Symmetry == Permutations(Reqs)
=============================================================================
