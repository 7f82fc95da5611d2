-------------------------- MODULE MCClientSession --------------------------
(* A small instance of ClientSession for TLC: two people of different roles *)
(* share the browser; a token is issued for a sign-in or for a rotation.    *)
EXTENDS ClientSession, TLC

CONSTANTS ada, ben, c1, c2

MCRoleOf == (ada :> "parent") @@ (ben :> "school_admin")

=============================================================================
