---------------------------- MODULE GuestAccess -----------------------------
(***************************************************************************)
(* How a guest enters: the room and the code of a stay, behind two layers  *)
(* of counting (GuestSessionService, GuestRateLimitService,                *)
(* GuestJwtStrategy).                                                      *)
(*                                                                         *)
(* The counters are in the memory of one process and one address.  An      *)
(* attempt is admitted by the counters, waits for the query of its stay    *)
(* and is counted only then, so attempts under way do not see each other.  *)
(***************************************************************************)
EXTENDS Integers, FiniteSets, Sequences

CONSTANTS Rooms, Codes, None,
          Attempts,                  \* concurrent calls
          RoomLimit, RoomWindow, LockoutBase, LockoutMax,
          HotelLimit, HotelWindow,
          Horizon                    \* bound on the clock

Parameters ==
  /\ {RoomLimit, RoomWindow, LockoutBase, LockoutMax, HotelLimit, HotelWindow, Horizon} \subseteq Nat \ {0}
  /\ LockoutMax >= LockoutBase /\ LockoutBase >= RoomWindow
  /\ IsFiniteSet(Attempts) /\ Attempts # {}
  /\ None \notin Rooms \cup Codes

VARIABLES stay,    \* per room, the code of its active stay
          rooms,   \* GuestRateLimitService.rooms
          hotels,  \* GuestRateLimitService.hotels
          call,    \* attempts under way
          now,
          wrong    \* ghost: the wrong attempts since the process started, each
                   \* with the lock it led to; `over` since the room's guest entered

vars == <<stay, rooms, hotels, call, now, wrong>>

NoRoom == [has |-> FALSE, count |-> 0, start |-> 0, locked |-> 0, lockouts |-> 0]
NoHotel == [has |-> FALSE, count |-> 0, start |-> 0]
Idle == [pc |-> "idle", room |-> None, code |-> None]

Init ==
  /\ stay = [r \in Rooms |-> None]
  /\ rooms = [r \in Rooms |-> NoRoom] /\ hotels = NoHotel
  /\ call = [p \in Attempts |-> Idle]
  /\ now = 1 /\ wrong = <<>>

Smaller(a, b) == IF a < b THEN a ELSE b

----------------------------------------------------------------------------
assertAllowed_RoomOnly(r) == ~(rooms[r].has /\ rooms[r].locked > now)
assertAllowed(r) ==
  /\ ~(rooms[r].has /\ rooms[r].locked > now)
  /\ ~(hotels.has /\ now - hotels.start < HotelWindow /\ hotels.count >= HotelLimit)

(* One window over all rooms. *)
HotelFailure ==
  IF ~hotels.has \/ now - hotels.start >= HotelWindow
  THEN [has |-> TRUE, count |-> 1, start |-> now]
  ELSE [hotels EXCEPT !.count = @ + 1]

(* Each lockout lasts twice as long as the one before, up to a maximum.    *)
Lockout(n) == Smaller(LockoutBase * 2 ^ (n - 1), LockoutMax)

(* One window per room; a new one forgets the attempts, not the lockouts.  *)
RoomFailure_Restarts(r) ==
  LET old == IF rooms[r].has THEN rooms[r] ELSE [NoRoom EXCEPT !.has = TRUE, !.start = now]
      new == [old EXCEPT !.count = @ + 1, !.start = now]
  IN IF new.count < RoomLimit THEN new
     ELSE [new EXCEPT !.lockouts = @ + 1, !.locked = now + Lockout(1), !.count = 0]

RoomFailure(r) ==
  LET old == IF rooms[r].has THEN rooms[r] ELSE [NoRoom EXCEPT !.has = TRUE, !.start = now]
      new == IF now - old.start >= RoomWindow THEN [old EXCEPT !.count = 1, !.start = now]
             ELSE [old EXCEPT !.count = @ + 1]
  IN IF new.count < RoomLimit THEN new
     ELSE [new EXCEPT !.lockouts = @ + 1, !.locked = now + Lockout(new.lockouts + 1),
                      !.count = 0, !.start = now]

----------------------------------------------------------------------------
Enter(p, r, c) ==
  /\ call[p].pc = "idle" /\ assertAllowed(r)
  /\ call' = [call EXCEPT ![p] = [pc |-> "lookup", room |-> r, code |-> c]]
  /\ UNCHANGED <<stay, rooms, hotels, now, wrong>>

(* The answer of the query, the counting and the session are one turn of   *)
(* the event loop.                                                         *)
Reject(p) ==
  LET r == call[p].room IN
  /\ call[p].pc = "lookup" /\ stay[r] # call[p].code
  /\ hotels' = HotelFailure /\ rooms' = [rooms EXCEPT ![r] = RoomFailure(r)]
  /\ call' = [call EXCEPT ![p] = Idle]
  /\ wrong' = Append(wrong, [room |-> r, at |-> now, over |-> FALSE,
                              lock |-> rooms'[r].locked - (IF rooms'[r].lockouts > rooms[r].lockouts
                                                           THEN now ELSE rooms'[r].locked)])
  /\ UNCHANGED <<stay, now>>

recordSuccess_All(r) == rooms' = [rooms EXCEPT ![r] = NoRoom] /\ hotels' = NoHotel
recordSuccess(r) == rooms' = [rooms EXCEPT ![r] = NoRoom] /\ UNCHANGED hotels

Admit(p) ==
  LET r == call[p].room IN
  /\ call[p].pc = "lookup" /\ stay[r] = call[p].code
  /\ recordSuccess(r)
  /\ call' = [call EXCEPT ![p] = Idle]
  /\ wrong' = [i \in DOMAIN wrong |-> [wrong[i] EXCEPT !.over = @ \/ wrong[i].room = r]]
  /\ UNCHANGED <<stay, now>>

(* Check-in and check-out at the desk; codes of active stays are unique.   *)
Arrive(r, c) ==
  /\ stay[r] = None /\ \A q \in Rooms : stay[q] # c
  /\ stay' = [stay EXCEPT ![r] = c]
  /\ UNCHANGED <<rooms, hotels, call, now, wrong>>

Leave(r) ==
  /\ stay[r] # None /\ stay' = [stay EXCEPT ![r] = None]
  /\ UNCHANGED <<rooms, hotels, call, now, wrong>>

Tick ==
  /\ now < Horizon /\ now' = now + 1
  /\ UNCHANGED <<stay, rooms, hotels, call, wrong>>

(* The process restarts and forgets. *)
Restart ==
  /\ wrong # <<>>
  /\ rooms' = [r \in Rooms |-> NoRoom] /\ hotels' = NoHotel
  /\ call' = [p \in Attempts |-> Idle] /\ wrong' = <<>>
  /\ UNCHANGED <<stay, now>>

Next ==
  \/ \E p \in Attempts : Reject(p) \/ Admit(p) \/ \E r \in Rooms, c \in Codes : Enter(p, r, c)
  \/ \E r \in Rooms : Leave(r) \/ \E c \in Codes : Arrive(r, c)
  \/ Tick \/ Restart

Spec == Init /\ [][Next]_vars

----------------------------------------------------------------------------
Since(r, from) == {i \in DOMAIN wrong : wrong[i].room = r /\ ~wrong[i].over /\ wrong[i].at > from}
Locks(r) == {i \in Since(r, 0) : wrong[i].lock > 0}
UnderWay == Cardinality(Attempts) - 1

(* Guessing is slow and gets slower, whatever attempts overlap, windows    *)
(* begin and other rooms' guests enter: in any span of a window a room     *)
(* hears the attempts of two windows and those under way when it locked;   *)
(* while it is locked only the latter; each lock lasts twice as long as    *)
(* the last, up to the maximum; and all rooms together hear two windows of *)
(* the hotel, each with those under way when it closed, less the attempt   *)
(* that opened the first.                                                  *)
GuessesBounded ==
  /\ \A r \in Rooms :
       /\ Cardinality(Since(r, now - RoomWindow)) <= 2 * RoomLimit - 1 + UnderWay
       /\ \A i \in Locks(r) :
            /\ Cardinality({j \in Since(r, 0) : j > i /\ wrong[j].at < wrong[i].at + wrong[i].lock}) <= UnderWay
            /\ \A j \in Locks(r) : j > i => wrong[j].lock >= Smaller(2 * wrong[i].lock, LockoutMax)
  /\ Cardinality({i \in DOMAIN wrong : wrong[i].at > now - HotelWindow}) <= 2 * (HotelLimit + UnderWay) - 1
=============================================================================
