-------------------------- MODULE MC_Notification --------------------------
(***************************************************************************)
(* Notification on small instances: one order of the merchant m1.          *)
(***************************************************************************)
EXTENDS Notification

CONSTANTS m1

OwnedByM1 == [o \in Orders |-> m1]

AllOne == [o \in Orders |-> 1]
=============================================================================
