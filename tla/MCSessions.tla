----------------------------- MODULE MCSessions -----------------------------
(* Small instances of Sessions for TLC. *)
EXTENDS Sessions, TLC

CONSTANTS t1, t2, t3, t4, r1, r2, l1

\* Tokens differ in nothing but what happens to them, and no property of the
\* runs is a liveness property.
MCSymmetry == Permutations(Tokens)

=============================================================================
