-------------------------- MODULE MCTripSafeguard --------------------------
(* Small instances of TripSafeguard for TLC. *)
EXTENDS TripSafeguard

CONSTANTS s1, s2, p1, p2, c1, c2

MCOneStop == [s \in Students |-> p1]
MCOneAlertEach == [t \in AlertType |-> 1]
MCNotDroppedTwice == [t \in AlertType |-> IF t = "child_not_dropped" THEN 2 ELSE 1]
MCNotDroppedOnly == [t \in AlertType |-> IF t = "child_not_dropped" THEN 1 ELSE 0]

=============================================================================
