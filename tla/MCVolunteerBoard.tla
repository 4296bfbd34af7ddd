--------------------------- MODULE MCVolunteerBoard ---------------------------
(* Two phones of two users over the volunteer board.                       *)
EXTENDS VolunteerBoard

CONSTANTS d1, d2, u1, u2

MCOwner == [d \in Devices |-> IF d = d1 THEN u1 ELSE u2]

(* One place on offer, and a number below zero, which the dialog accepts.  *)
MCNumbers == {-1, 1}
=============================================================================
