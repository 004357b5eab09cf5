------------------------------ MODULE SfuFanout ------------------------------
(***************************************************************************)
(* Who is sent which track: room.tracks, the senders each participant's    *)
(* connection has and p.subscriptions, by which they are found again       *)
(* (media/main.go).                                                        *)
(*                                                                         *)
(* A track is attached to a participant by the OnTrack of its publisher,   *)
(* by the participant's own join, or by the moderator that approves it; it *)
(* is taken away by removePeer of the publisher or by removePublication.   *)
(* Each of these looks at the room in one critical section and goes        *)
(* through what it found afterwards, one connection at a time: the loops   *)
(* of several goroutines mix.                                              *)
(*                                                                         *)
(* One room.  A peer joins once and a track is published once; one who     *)
(* comes back has new ids.  AddTrack and the entry of its sender are one   *)
(* step: whatever comes between them has the same effect before.  What a   *)
(* removed peer is sent until its connection is closed is left out.        *)
(* SfuProofs extends this module and SfuRoom, hence names of its own.      *)
(***************************************************************************)
EXTENDS Integers, FiniteSets

CONSTANTS
  Participant,
  Moderator,  \* hosts and cohosts
  Track,
  Nobody

ASSUME FanoutAssumption ==
  /\ Moderator \subseteq Participant
  /\ Participant \cap Track = {} /\ Nobody \notin Participant

VARIABLES
  stage,          \* of a peer
  inLobby,        \* p.waiting
  served,         \* peers whose reader has begun
  tracks,         \* room.tracks
  owner,          \* t.ownerID, Nobody before the track is published
  onTrack,        \* how far the OnTrack of a track is
  approving,      \* the peer a moderator found waiting
  cleared,        \* moderators that have let that peer in
  senders,        \* senders of a track on the connection of a peer
  subscriptions,  \* p.subscriptions
  attach,         \* what each goroutine has still to attach
  detach,         \* and to take away
  crossed         \* peers with a track they were given when they had it, when
                  \* it was gone, or though it is their own (history)

members == <<stage, inLobby, served>>
publications == <<tracks, owner, onTrack>>
approvals == <<approving, cleared>>
connections == <<senders, subscriptions, crossed>>
fanoutVars == <<members, publications, approvals, connections, attach, detach>>

Goroutine == Participant \cup Track

FanoutTypeOK ==
  /\ stage \in [Participant -> {"out", "joining", "in", "closed", "unlinked",
                             "gone"}]
  /\ inLobby \subseteq Participant /\ served \subseteq Participant
  /\ tracks \subseteq Track
  /\ owner \in [Track -> Participant \cup {Nobody}]
  /\ onTrack \in [Track -> {"none", "registered", "serving", "ended"}]
  /\ approving \in [Moderator -> Participant \cup {Nobody}]
  /\ cleared \subseteq Moderator
  /\ senders \in [Participant -> [Track -> Nat]]
  /\ subscriptions \in [Participant -> SUBSET Track]
  /\ attach \in [Goroutine -> SUBSET (Participant \X Track)]
  /\ detach \in [Goroutine -> SUBSET (Participant \X Track)]
  /\ crossed \subseteq Participant \X Track

FanoutInit ==
  /\ stage = [p \in Participant |-> "out"]
  /\ inLobby = {} /\ served = {} /\ tracks = {}
  /\ cleared = {} /\ crossed = {}
  /\ owner = [t \in Track |-> Nobody]
  /\ onTrack = [t \in Track |-> "none"]
  /\ approving = [q \in Moderator |-> Nobody]
  /\ senders = [p \in Participant |-> [t \in Track |-> 0]]
  /\ subscriptions = [p \in Participant |-> {}]
  /\ attach = [g \in Goroutine |-> {}] /\ detach = [g \in Goroutine |-> {}]

\* room.peers
InRoom == {p \in Participant : stage[p] \in {"joining", "in", "closed"}}

Present == InRoom \ inLobby

Open(p) == stage[p] \in {"joining", "in"}

TracksOf(p) == {t \in tracks : owner[t] = p}

\* The publisher's connection is closed.
Gone(t) == owner[t] # Nobody /\ stage[owner[t]] = "gone"

-----------------------------------------------------------------------------
(* Joining *)

\* handleWS lists the peer and looks at the tracks in one critical section.
\* Whoever is no moderator waits if the lobby is on, as it may be or not.
Enter(p) ==
  /\ stage[p] = "out"
  /\ stage' = [stage EXCEPT ![p] = "joining"]
  /\ \/ /\ attach' = [attach EXCEPT ![p] = {p} \X (tracks \ TracksOf(p))]
        /\ UNCHANGED inLobby
     \/ /\ p \notin Moderator
        /\ inLobby' = inLobby \cup {p}
        /\ UNCHANGED attach
  /\ UNCHANGED <<served, publications, approvals, connections, detach>>

\* The loop over the tracks is done and the reader begins.
Serve(p) ==
  /\ stage[p] = "joining" /\ attach[p] = {}
  /\ stage' = [stage EXCEPT ![p] = "in"]
  /\ served' = served \cup {p}
  /\ UNCHANGED <<inLobby, publications, approvals, connections, attach,
                 detach>>

-----------------------------------------------------------------------------
(* Publishing *)

\* OnTrack, in a goroutine of its own, after the first exchange, which is made
\* with a peer that need not wait.  It may have been removed since.
Register(p, t) ==
  /\ onTrack[t] = "none"
  /\ p \in served \ inLobby
  /\ onTrack' = [onTrack EXCEPT ![t] = "registered"]
  /\ owner' = [owner EXCEPT ![t] = p]
  /\ tracks' = tracks \cup {t}
  /\ UNCHANGED <<members, approvals, connections, attach, detach>>

\* mutant: those still joining are left to their join
OthersServed(p) == {r \in Present \ {p} : stage[r] = "in"}

\* othersSnapshot
Others(p) == Present \ {p}

LookForOthers(t) ==
  /\ onTrack[t] = "registered"
  /\ onTrack' = [onTrack EXCEPT ![t] = "serving"]
  /\ attach' = [attach EXCEPT ![t] = Others(owner[t]) \X {t}]
  /\ UNCHANGED <<members, tracks, owner, approvals, connections, detach>>

\* mutant: returns when the publisher is gone
EndTrackIfListed(t) ==
  /\ onTrack[t] = "serving" /\ attach[t] = {}
  /\ onTrack' = [onTrack EXCEPT ![t] = "ended"]
  /\ tracks' = IF owner[t] \in InRoom THEN tracks \ {t} ELSE tracks
  /\ detach' = IF t \in tracks /\ owner[t] \in InRoom
               THEN [detach EXCEPT ![t] = InRoom \X {t}] ELSE detach
  /\ UNCHANGED <<members, owner, approvals, connections, attach>>

\* track.Read fails, and removePublication: a removed publisher's tracks are
\* gone already.
EndTrack(t) ==
  /\ onTrack[t] = "serving" /\ attach[t] = {}
  /\ onTrack' = [onTrack EXCEPT ![t] = "ended"]
  /\ tracks' = tracks \ {t}
  /\ detach' = IF t \in tracks THEN [detach EXCEPT ![t] = InRoom \X {t}]
               ELSE detach
  /\ UNCHANGED <<members, owner, approvals, connections, attach>>

-----------------------------------------------------------------------------
(* Approving *)

\* A moderator, even one removed since, finds a peer waiting.
FindWaiting(q, p) ==
  /\ q \in served /\ attach[q] = {} /\ approving[q] = Nobody
  /\ p \in InRoom \cap inLobby
  /\ approving' = [approving EXCEPT ![q] = p]
  /\ UNCHANGED <<members, publications, cleared, connections, attach, detach>>

\* It lets the peer in, whoever else has done so meanwhile,
LetIn(q) ==
  /\ approving[q] # Nobody /\ q \notin cleared
  /\ cleared' = cleared \cup {q}
  /\ inLobby' = inLobby \ {approving[q]}
  /\ UNCHANGED <<stage, served, publications, approving, connections, attach,
                 detach>>

\* and looks at the tracks after that.
LookForTracks(q) ==
  /\ q \in cleared
  /\ cleared' = cleared \ {q}
  /\ approving' = [approving EXCEPT ![q] = Nobody]
  /\ attach' = [attach EXCEPT ![q] = {approving[q]} \X tracks]
  /\ UNCHANGED <<members, publications, connections, detach>>

-----------------------------------------------------------------------------
(* The connections *)

\* AddTrack and the entry of its sender, over that of an earlier one.
Attach(g, p, t) ==
  /\ <<p, t>> \in attach[g]
  /\ attach' = [attach EXCEPT ![g] = @ \ {<<p, t>>}]
  /\ IF Open(p)
     THEN /\ senders' = [senders EXCEPT ![p][t] = @ + 1]
          /\ subscriptions' = [subscriptions EXCEPT ![p] = @ \cup {t}]
          /\ crossed' = IF senders[p][t] = 0 /\ t \in tracks /\ owner[t] # p
                        THEN crossed ELSE crossed \cup {<<p, t>>}
     ELSE UNCHANGED connections
  /\ UNCHANGED <<members, publications, approvals, detach>>

DetachAny(p, t) ==      \* mutant: without a look at the entry
  /\ senders' = [senders EXCEPT ![p][t] = @ - 1]
  /\ subscriptions' = [subscriptions EXCEPT ![p] = @ \ {t}]

DetachEntry(p, t) ==    \* mutant: the sender stays
  /\ subscriptions' = [subscriptions EXCEPT ![p] = @ \ {t}]
  /\ UNCHANGED senders

\* removeSubscription
RemoveSubscription(p, t) ==
  IF t \in subscriptions[p]
  THEN /\ senders' = [senders EXCEPT ![p][t] = @ - 1]
       /\ subscriptions' = [subscriptions EXCEPT ![p] = @ \ {t}]
  ELSE UNCHANGED <<senders, subscriptions>>

Detach(g, p, t) ==
  /\ <<p, t>> \in detach[g]
  /\ detach' = [detach EXCEPT ![g] = @ \ {<<p, t>>}]
  /\ RemoveSubscription(p, t)
  /\ UNCHANGED <<members, publications, approvals, attach, crossed>>

-----------------------------------------------------------------------------
(* removePeer *)

Remove(p) ==
  /\ Open(p)
  /\ stage' = [stage EXCEPT ![p] = "closed"]
  /\ senders' = [senders EXCEPT ![p] = [t \in Track |-> 0]]
  /\ subscriptions' = [subscriptions EXCEPT ![p] = {}]
  /\ UNCHANGED <<inLobby, served, publications, approvals, attach, detach,
                 crossed>>

Unlist(p) ==
  /\ stage[p] = "closed"
  /\ stage' = [stage EXCEPT ![p] = "unlinked"]
  /\ tracks' = tracks \ TracksOf(p)
  /\ detach' = [detach EXCEPT ![p] = Others(p) \X TracksOf(p)]
  /\ UNCHANGED <<inLobby, served, owner, onTrack, approvals, connections,
                 attach>>

\* pc.Close, after which the publisher's tracks can no longer be read
CloseConnection(p) ==
  /\ stage[p] = "unlinked" /\ detach[p] = {}
  /\ stage' = [stage EXCEPT ![p] = "gone"]
  /\ UNCHANGED <<inLobby, served, publications, approvals, connections, attach,
                 detach>>

-----------------------------------------------------------------------------

Loops(g) ==
  \/ \E w \in attach[g] : Attach(g, w[1], w[2])
  \/ \E w \in detach[g] : Detach(g, w[1], w[2])

FanoutNext ==
  \/ \E p \in Participant :
       Enter(p) \/ Serve(p) \/ Remove(p) \/ Unlist(p) \/ CloseConnection(p)
  \/ \E t \in Track :
       LookForOthers(t) \/ EndTrack(t) \/ \E p \in Participant : Register(p, t)
  \/ \E q \in Moderator :
       LetIn(q) \/ LookForTracks(q) \/ \E p \in Participant : FindWaiting(q, p)
  \/ \E g \in Goroutine : Loops(g)

FanoutSpec == FanoutInit /\ [][FanoutNext]_fanoutVars

\* Goroutines go on.  A track whose publisher is gone ends; any other need not.
FanoutFairness ==
  /\ \A p \in Participant : /\ WF_fanoutVars(Unlist(p))
                           /\ WF_fanoutVars(CloseConnection(p))
  /\ \A t \in Track :
       /\ WF_fanoutVars(LookForOthers(t))
       /\ WF_fanoutVars(Gone(t) /\ EndTrack(t))
  /\ \A g \in Goroutine : WF_fanoutVars(Loops(g))

FanoutFairSpec == FanoutSpec /\ FanoutFairness

-----------------------------------------------------------------------------
(* Properties *)

\* No goroutine has something to attach or to take away.
AtRest ==
  /\ \A g \in Goroutine : attach[g] = {} /\ detach[g] = {}
  /\ \A t \in Track : onTrack[t] # "registered"
  /\ cleared = {}
  /\ \A p \in Participant : stage[p] \notin {"closed", "unlinked"}

Wanted(p) == {t \in tracks : owner[t] # p}

\* main.go:374, main.go:403, main.go:559: whoever is in the room is sent every
\* track of the others, however its join or approval and their publications
\* overlap: one of the two goroutines has seen the other.
EveryoneServed ==
  AtRest => \A p \in Present : Wanted(p) \subseteq subscriptions[p]

\* main.go:747, main.go:797: a track that is gone is sent to nobody, a track
\* that is there once, and nobody is sent its own; except that the loops of a
\* publication, a join and an approval, none of which looks at what the others
\* did, may attach a track twice, or after it was taken away, or to its
\* publisher (an approval by a second moderator).
NothingLeft ==
  AtRest => \A p \in Present, t \in Track :
    \/ <<p, t>> \in crossed
    \/ senders[p][t] = IF t \in Wanted(p) THEN 1 ELSE 0

\* A track that is registered after its publisher was removed does not stay.
PublicationsEnd ==
  \A t \in Track : t \in tracks /\ Gone(t) ~> t \notin tracks
=============================================================================
