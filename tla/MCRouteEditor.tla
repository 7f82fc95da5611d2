--------------------------- MODULE MCRouteEditor ---------------------------
(* A small instance of RouteEditor for TLC. *)
EXTENDS RouteEditor

CONSTANTS t1, t2, t3

=============================================================================
