----------------------------- MODULE MCBreakout ------------------------------
(* Instances of Breakout for TLC. *)
EXTENDS Breakout

CONSTANTS m1, m2, u1, u2, i1

\* The owner of one meeting may be a guest of the other.
Owners == [m \in Meeting |-> IF m = m1 THEN u1 ELSE u2]
=============================================================================
