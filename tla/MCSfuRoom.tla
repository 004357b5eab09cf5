------------------------------ MODULE MCSfuRoom ------------------------------
(* Instances of SfuRoom for TLC. *)
EXTENDS SfuRoom, TLC

CONSTANTS p1, p2, x, y

\* Anybody may be anything, and ids may collide: two tabs or a reconnecting
\* client may choose the same one.
Anyone == [p \in Peer |-> [id : PeerId, role : Role]]

\* Ids and *Room objects are interchangeable; so are connections when anybody
\* may be anything.
Symmetry == Permutations(PeerId) \cup Permutations(RoomObj)
FullSymmetry == Symmetry \cup Permutations(Peer)
=============================================================================
