--------------------------- MODULE TripLifecycle ---------------------------
(***************************************************************************)
(* What the safeguarding gate promises for one trip, with no request       *)
(* handling in it: a trip is started once, may be held while a boarded     *)
(* child is not accounted for, is completed only in a state in which every *)
(* boarded child is, and its end is announced once.  TripSafeguard, the    *)
(* model of the handlers, implements it when the requests on a trip do not *)
(* overlap; with overlapping requests it does not (see the findings).      *)
(***************************************************************************)
EXTENDS Naturals

CONSTANT Students

VARIABLES
  status,     \* trips.status
  onboard,    \* the boarded children without a drop-off
  announced   \* how often trip_ended was emitted

vars == <<status, onboard, announced>>

Active == {"in_progress", "pending_safeguard_check"}

Init ==
  /\ status = "scheduled"
  /\ onboard = {}
  /\ announced = 0

Start ==
  /\ status = "scheduled"
  /\ status' = "in_progress"
  /\ UNCHANGED <<onboard, announced>>

Cancel ==
  /\ status \notin {"completed", "cancelled"}
  /\ status' = "cancelled"
  /\ UNCHANGED <<onboard, announced>>

\* Attendance and drop-offs may be recorded in any status: the attendance
\* endpoint checks the driver, never the trip.
Record ==
  /\ onboard' \in SUBSET Students
  /\ UNCHANGED <<status, announced>>

Hold ==
  /\ status = "in_progress"
  /\ onboard # {}
  /\ status' = "pending_safeguard_check"
  /\ UNCHANGED <<onboard, announced>>

Complete ==
  /\ status \in Active
  /\ onboard = {}
  /\ status' = "completed"
  /\ UNCHANGED <<onboard, announced>>

\* Emission follows the commit and may be lost, never repeated.
Announce ==
  /\ status = "completed"
  /\ announced = 0
  /\ announced' = 1
  /\ UNCHANGED <<status, onboard>>

Next == Start \/ Cancel \/ Record \/ Hold \/ Complete \/ Announce

Spec == Init /\ [][Next]_vars

=============================================================================
