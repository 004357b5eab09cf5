---------------------------- MODULE MCSfuFanout ----------------------------
(* Instances of SfuFanout for TLC. *)
EXTENDS SfuFanout

\* Two moderators and a guest, any of whom publishes the track.
CONSTANTS m, n, p
=============================================================================
