------------------------------ MODULE MCRoster ------------------------------
(* Instances of Roster for TLC. *)
EXTENDS Roster, TLC

CONSTANTS w, a, b

Roles == w :> "member" @@ a :> "host" @@ b :> "member"
=============================================================================
