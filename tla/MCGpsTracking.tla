--------------------------- MODULE MCGpsTracking ---------------------------
(* Small instances of GpsTracking for TLC. *)
EXTENDS GpsTracking

CONSTANTS p1, p2, p3

=============================================================================
