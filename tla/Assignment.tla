----------------------------- MODULE Assignment ------------------------------
(***************************************************************************)
(* What the breakout manager promises: every user is in at most one        *)
(* breakout room, and a step moves one user, or sends the users of one     *)
(* room back to the main room, or (a restart of the server) sends          *)
(* everybody back.                                                         *)
(***************************************************************************)
CONSTANTS User, BreakoutId

VARIABLES
  exists,  \* the breakout rooms there are
  where    \* where[u]: the breakout room u is in, as a set of at most one

vars == <<exists, where>>

Init ==
  /\ exists = {}
  /\ where = [u \in User |-> {}]

Move(u, i) ==
  /\ i \in exists
  /\ where' = [where EXCEPT ![u] = {i}]
  /\ UNCHANGED exists

Return(u) ==
  /\ where' = [where EXCEPT ![u] = {}]
  /\ UNCHANGED exists

\* A room is opened or closed; nobody is in it afterwards, and nobody else
\* moves.
Evicted(i) == [u \in User |-> where[u] \ {i}]

Open(i) == exists' = exists \cup {i} /\ where' = Evicted(i)

Close(i) == exists' = exists \ {i} /\ where' = Evicted(i)

Reset == exists' = {} /\ where' = [u \in User |-> {}]

Next ==
  \/ \E u \in User : Return(u) \/ \E i \in BreakoutId : Move(u, i)
  \/ \E i \in BreakoutId : Open(i) \/ Close(i)
  \/ Reset

Spec == Init /\ [][Next]_vars
=============================================================================
