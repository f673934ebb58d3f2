------------------------------ MODULE MCLogins ------------------------------
(* An instance of Logins for TLC.  Accounts share nothing, so one is enough. *)
EXTENDS Logins

CONSTANTS a1
=============================================================================
