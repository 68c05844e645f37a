------------------------------- MODULE Folio -------------------------------
(***************************************************************************)
(* What the room bill of a stay promises: a charge is owed once, and it is *)
(* either withdrawn or collected; a collected charge is never owed again.  *)
(* Charges in `aside` are those the promise does not speak of.             *)
(***************************************************************************)
CONSTANT Charges
VARIABLES owed, collected, aside

Init == owed = {} /\ collected = {} /\ aside = {}

Charge(c) ==
  /\ c \notin owed \cup collected \cup aside
  /\ owed' = owed \cup {c} /\ UNCHANGED <<collected, aside>>

Withdraw(C) ==
  /\ C \subseteq owed /\ owed' = owed \ C
  /\ UNCHANGED <<collected, aside>>

Collect(C) ==
  /\ C \subseteq owed
  /\ owed' = owed \ C /\ collected' = collected \cup C
  /\ UNCHANGED aside

SetAside(C) ==
  /\ aside' = aside \cup C
  /\ owed' = owed \ C /\ collected' = collected \ C

Next ==
  \/ \E c \in Charges : Charge(c)
  \/ \E C \in SUBSET Charges : Withdraw(C) \/ Collect(C) \/ SetAside(C)

Spec == Init /\ [][Next]_<<owed, collected, aside>>
=============================================================================
