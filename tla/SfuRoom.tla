------------------------------- MODULE SfuRoom -------------------------------
(***************************************************************************)
(* The room lifecycle of the SFU (media/main.go): the registry of rooms,   *)
(* the admission of a WebSocket connection, the lobby and the lock,        *)
(* moderation, role updates from the control plane, host succession and    *)
(* removePeer.                                                             *)
(*                                                                         *)
(* Every connection is a goroutine (handleWS).  A step is one critical     *)
(* section of roomsMu, room.mu or peer.mu, so goroutines interleave where  *)
(* the code releases a lock.  The state of one room name is modelled:      *)
(* rooms of different names share nothing but the two gauges.  Messages to *)
(* the browsers change no state here and are left out.                     *)
(***************************************************************************)
EXTENDS Integers, FiniteSets

CONSTANTS
  Peer,          \* connections: each is one handleWS goroutine and one *Peer
  PeerId,        \* peer ids, chosen by the client or by newID()
  Joins,         \* Joins[p]: the ids and token roles p may join with
  RoomObj,       \* the *Room objects getRoom may allocate
  MaxRoomPeers,  \* maxRoomPeers()
  MaxControl,    \* bound: calls of /control/role and /control/chat
  None           \* nil, or the empty string

Role == {"host", "cohost", "member"}
Moderators == {"host", "cohost"}

ASSUME ConstantsAssumption ==
  /\ None \notin Peer \cup PeerId \cup RoomObj
  /\ Joins \in [Peer -> SUBSET [id : PeerId, role : Role]]
  /\ IsFiniteSet(Peer)
  /\ MaxRoomPeers \in Nat
  /\ MaxControl \in Nat

VARIABLES
  rooms,        \* rooms[name]: the registered *Room or nil
  created,      \* *Room objects allocated so far
  activeRooms,  \* the gauge of the same name
  hostID, locked, lobby, peers,       \* the fields of each *Room
  activePeers,  \* the gauge of the same name
  pc,           \* where each connection's goroutine stands
  id, role, room, waiting, closed,    \* the fields of each *Peer
  cmd,          \* the moderation command a goroutine is in the middle of
  removal,      \* how far removePeer(p) has come
  remover,      \* the connection whose goroutine runs removePeer(p), if any
  ctlRoom, ctlTarget, controls        \* the control call in flight, and a count

roomVars == <<hostID, locked, lobby, peers>>
registryVars == <<rooms, created, activeRooms>>
removalVars == <<closed, removal, remover>>
controlVars == <<ctlRoom, ctlTarget, controls>>
vars == <<registryVars, roomVars, activePeers, pc, id, role, room, waiting,
          cmd, removalVars, controlVars>>

PeerCmd == [action : {"approve", "deny", "remove"}, target : Peer]

TypeOK ==
  /\ rooms \in RoomObj \cup {None}
  /\ created \in SUBSET RoomObj
  /\ activeRooms \in Int
  /\ hostID \in [RoomObj -> PeerId \cup {None}]
  /\ locked \in [RoomObj -> BOOLEAN]
  /\ lobby \in [RoomObj -> BOOLEAN]
  /\ peers \in [RoomObj -> [PeerId -> Peer \cup {None}]]
  /\ activePeers \in Int
  /\ pc \in [Peer -> {"idle", "getRoom", "admit", "insert", "serve", "end",
                      "refused"}]
  /\ id \in [Peer -> PeerId \cup {None}]
  /\ role \in [Peer -> Role]
  /\ room \in [Peer -> RoomObj \cup {None}]
  /\ waiting \in [Peer -> BOOLEAN]
  /\ closed \in [Peer -> BOOLEAN]
  /\ cmd \in [Peer -> PeerCmd \cup {None}]
  /\ removal \in [Peer -> {"none", "unlink", "drop", "done"}]
  /\ remover \in [Peer -> Peer \cup {None}]
  /\ ctlRoom \in RoomObj \cup {None}
  /\ ctlTarget \in Peer \cup {None}
  /\ controls \in Nat

Init ==
  /\ rooms = None
  /\ created = {}
  /\ activeRooms = 0
  /\ hostID = [r \in RoomObj |-> None]
  /\ locked = [r \in RoomObj |-> FALSE]
  /\ lobby = [r \in RoomObj |-> FALSE]
  /\ peers = [r \in RoomObj |-> [i \in PeerId |-> None]]
  /\ activePeers = 0
  /\ pc = [p \in Peer |-> "idle"]
  /\ id = [p \in Peer |-> None]
  /\ role = [p \in Peer |-> "member"]
  /\ room = [p \in Peer |-> None]
  /\ waiting = [p \in Peer |-> FALSE]
  /\ closed = [p \in Peer |-> FALSE]
  /\ cmd = [p \in Peer |-> None]
  /\ removal = [p \in Peer |-> "none"]
  /\ remover = [p \in Peer |-> None]
  /\ ctlRoom = None
  /\ ctlTarget = None
  /\ controls = 0

-----------------------------------------------------------------------------
(* Helpers *)

\* The ids and the peers in room.peers.
ListedIds(r) == {i \in PeerId : peers[r][i] # None}
Listed(r) == {peers[r][i] : i \in ListedIds(r)}

\* getRoom(name), under roomsMu, returning r.
GetRoomAs(r) ==
  \/ /\ rooms # None
     /\ r = rooms
     /\ UNCHANGED registryVars
  \/ /\ rooms = None
     /\ r \in RoomObj \ created
     /\ rooms' = r
     /\ created' = created \cup {r}
     /\ activeRooms' = activeRooms + 1

\* canModerate(actor, nil, action) and canModerate(actor, target, action).
CanModerate(actor) == role[actor] \in Moderators
CanModerateAnyone(actor, target) == CanModerate(actor)   \* mutant: no rank

CanModerateTarget(actor, target) ==
  /\ CanModerate(actor)
  /\ role[target] = "host" => role[actor] = "host"

\* A goroutine that runs removePeer for a connection does nothing else
\* until it returns.
Busy(p) == \E t \in Peer : remover[t] = p /\ removal[t] \in {"unlink", "drop"}

\* The reader loop of p is about to read the next message.
Reading(p) == pc[p] = "serve" /\ cmd[p] = None /\ ~Busy(p)

\* The guard of removePeer: the first caller closes t and goes on to unlink
\* it, a later one returns at once.
Close(t, by) ==
  /\ closed' = [closed EXCEPT ![t] = TRUE]
  /\ removal' = [removal EXCEPT ![t] = "unlink"]
  /\ remover' = [remover EXCEPT ![t] = by]

RemovePeerTwice(t, by) == Close(t, by)   \* mutant: no guard

RemovePeer(t, by) == IF closed[t] THEN UNCHANGED removalVars ELSE Close(t, by)

\* room.peers after the delete in removePeer(t): the entry of the id goes,
\* whichever connection holds it.
LeftUnlessWaiting(t) ==   \* mutant: a peer of the lobby keeps its entry
  IF waiting[t] THEN peers[room[t]] ELSE [peers[room[t]] EXCEPT ![id[t]] = None]

Left(t) == [peers[room[t]] EXCEPT ![id[t]] = None]

EmptyBeforeDelete(t) ==   \* mutant: looks at the map before the delete
  ListedIds(room[t]) = {}

EmptyAfter(t) == \A i \in PeerId : Left(t)[i] = None

\* removePeer's remaining: the peers left that do not wait in the lobby.
Remaining(t) == {q \in Peer : (\E i \in PeerId : Left(t)[i] = q) /\ ~waiting[q]}

\* The peers among S one of which becomes the host: a host, else a cohost,
\* else anyone (the first in the order of a map iteration).
Heirs(S) ==
  LET with(ro) == {q \in S : role[q] = ro}
  IN IF with("host") # {} THEN with("host")
     ELSE IF with("cohost") # {} THEN with("cohost")
     ELSE S

-----------------------------------------------------------------------------
(* Joining: handleWS up to its reader loop *)

\* A connection whose join message carries a valid token.
Connect(p) ==
  /\ pc[p] = "idle"
  /\ pc' = [pc EXCEPT ![p] = "getRoom"]
  /\ \E j \in Joins[p] : /\ id' = [id EXCEPT ![p] = j.id]
                       /\ role' = [role EXCEPT ![p] = j.role]
  /\ UNCHANGED <<registryVars, roomVars, activePeers, room, waiting, cmd,
                 removalVars, controlVars>>

JoinGetRoom(p) ==
  /\ pc[p] = "getRoom"
  /\ \E r \in RoomObj :
       /\ GetRoomAs(r)
       /\ room' = [room EXCEPT ![p] = r]
  /\ pc' = [pc EXCEPT ![p] = "admit"]
  /\ UNCHANGED <<roomVars, activePeers, id, role, waiting, cmd, removalVars,
                 controlVars>>

LockedOutToo(p, host) ==   \* mutant: refuses the host it has just set
  locked[room[p]] /\ role[p] \notin Moderators

LockedOut(p, host) ==
  locked[room[p]] /\ id[p] # host /\ role[p] \notin Moderators

\* The checks of the first critical section.  The host is set before the
\* lock is looked at, so the first peer of an empty locked room passes.
Admit(p) ==
  LET r == room[p]
      host == IF hostID[r] = None THEN id[p] ELSE hostID[r]
      refused == \/ peers[r][id[p]] # None
                 \/ Cardinality(ListedIds(r)) >= MaxRoomPeers
  IN /\ pc[p] = "admit"
     /\ hostID' = IF refused THEN hostID ELSE [hostID EXCEPT ![r] = host]
     /\ pc' = [pc EXCEPT ![p] = IF refused \/ LockedOut(p, host)
                                THEN "refused" ELSE "insert"]
     /\ UNCHANGED <<registryVars, locked, lobby, peers, activePeers, id, role,
                    room, waiting, cmd, removalVars, controlVars>>

\* The second critical section: nothing is checked again.
Insert(p) ==
  LET r == room[p]
  IN /\ pc[p] = "insert"
     /\ waiting' = [waiting EXCEPT ![p] = lobby[r] /\ role[p] \notin Moderators]
     /\ peers' = [peers EXCEPT ![r][id[p]] = p]
     /\ activePeers' = activePeers + 1
     /\ pc' = [pc EXCEPT ![p] = "serve"]
     /\ UNCHANGED <<registryVars, hostID, locked, lobby, id, role, room, cmd,
                    removalVars, controlVars>>

-----------------------------------------------------------------------------
(* Moderation, in the reader loop of p.  A peer that was removed but whose   *)
(* socket is still open goes on reading.                                     *)

SetLobby(p, on) ==
  /\ Reading(p)
  /\ CanModerate(p)
  /\ lobby' = [lobby EXCEPT ![room[p]] = on]
  /\ UNCHANGED <<registryVars, hostID, locked, peers, activePeers, pc, id, role,
                 room, waiting, cmd, removalVars, controlVars>>

SetLocked(p, on) ==
  /\ Reading(p)
  /\ CanModerate(p)
  /\ locked' = [locked EXCEPT ![room[p]] = on]
  /\ UNCHANGED <<registryVars, hostID, lobby, peers, activePeers, pc, id, role,
                 room, waiting, cmd, removalVars, controlVars>>

PickNil(p, action, i) ==   \* mutant: no nil check on the peer found
  LET t == peers[room[p]][i]
  IN /\ Reading(p)
     /\ CanModerate(p)
     /\ t # None => CanModerateTarget(p, t)
     /\ cmd' = [cmd EXCEPT ![p] = [action |-> action, target |-> t]]
     /\ UNCHANGED <<registryVars, roomVars, activePeers, pc, id, role, room,
                    waiting, removalVars, controlVars>>

\* findPeer and the checks on the target.
PickTarget(p, action, i) ==
  LET t == peers[room[p]][i]
  IN /\ Reading(p)
     /\ CanModerate(p)
     /\ t # None
     /\ IF action = "remove"
        THEN i # id[p] /\ CanModerateTarget(p, t)
        ELSE waiting[t]
     /\ cmd' = [cmd EXCEPT ![p] = [action |-> action, target |-> t]]
     /\ UNCHANGED <<registryVars, roomVars, activePeers, pc, id, role, room,
                    waiting, removalVars, controlVars>>

\* The command acts on the *Peer found before, whatever became of it since.
Approve(p) ==
  /\ cmd[p] # None
  /\ cmd[p].action = "approve"
  /\ waiting' = [waiting EXCEPT ![cmd[p].target] = FALSE]
  /\ cmd' = [cmd EXCEPT ![p] = None]
  /\ UNCHANGED <<registryVars, roomVars, activePeers, pc, id, role, room,
                 removalVars, controlVars>>

Expel(p) ==
  /\ cmd[p] # None
  /\ cmd[p].action \in {"deny", "remove"}
  /\ RemovePeer(cmd[p].target, p)
  /\ cmd' = [cmd EXCEPT ![p] = None]
  /\ UNCHANGED <<registryVars, roomVars, activePeers, pc, id, role, room,
                 waiting, controlVars>>

-----------------------------------------------------------------------------
(* Leaving *)

\* The reader loop breaks; the deferred calls run after removePeer.
Disconnect(p) ==
  /\ Reading(p)
  /\ RemovePeer(p, p)
  /\ pc' = [pc EXCEPT ![p] = "end"]
  /\ UNCHANGED <<registryVars, roomVars, activePeers, id, role, room, waiting,
                 cmd, controlVars>>

\* OnConnectionStateChange reports failed or closed, in a goroutine of Pion.
ConnectionFailed(p) ==
  /\ pc[p] = "serve"
  /\ ~closed[p]
  /\ RemovePeer(p, None)
  /\ UNCHANGED <<registryVars, roomVars, activePeers, pc, id, role, room,
                 waiting, cmd, controlVars>>

\* removePeer under room.mu.
Unlink(t) ==
  LET r == room[t]
  IN /\ removal[t] = "unlink"
     /\ peers' = [peers EXCEPT ![r] = Left(t)]
     /\ activePeers' = activePeers - 1
     /\ \/ hostID[r] # id[t] /\ UNCHANGED hostID
        \/ /\ hostID[r] = id[t]
           /\ Remaining(t) = {}
           /\ hostID' = [hostID EXCEPT ![r] = None]
        \/ /\ hostID[r] = id[t]
           /\ \E q \in Heirs(Remaining(t)) :
                hostID' = [hostID EXCEPT ![r] = id[q]]
     /\ removal' = [removal EXCEPT ![t] = IF EmptyAfter(t) THEN "drop" ELSE "done"]
     /\ UNCHANGED <<registryVars, locked, lobby, pc, id, role, room, waiting,
                    cmd, closed, remover, controlVars>>

\* removePeer under roomsMu: the room was empty when it was last looked at.
DropRoom(t) ==
  /\ removal[t] = "drop"
  /\ rooms' = None
  /\ activeRooms' = activeRooms - 1
  /\ removal' = [removal EXCEPT ![t] = "done"]
  /\ UNCHANGED <<created, roomVars, activePeers, pc, id, role, room, waiting,
                 cmd, closed, remover, controlVars>>

-----------------------------------------------------------------------------
(* handleRoleControl and handleChatControl *)

\* Both begin with getRoom, which registers a room when there is none.
ControlGetRoom ==
  /\ ctlRoom = None
  /\ ctlTarget = None
  /\ controls < MaxControl
  /\ controls' = controls + 1
  /\ \E r \in RoomObj : GetRoomAs(r) /\ ctlRoom' = r
  /\ UNCHANGED <<roomVars, activePeers, pc, id, role, room, waiting, cmd,
                 removalVars, ctlTarget>>

\* A role call picks a peer of the user; a chat call, or a role call for a
\* user who is not there, picks none.
ControlFind ==
  /\ ctlRoom # None
  /\ ctlTarget' \in Listed(ctlRoom) \cup {None}
  /\ ctlRoom' = None
  /\ UNCHANGED <<registryVars, roomVars, activePeers, pc, id, role, room,
                 waiting, cmd, removalVars, controls>>

ControlSetRole ==
  /\ ctlTarget # None
  /\ \E ro \in {"cohost", "member"} :
       role' = [role EXCEPT ![ctlTarget] = IF @ = "host" THEN @ ELSE ro]
  /\ ctlTarget' = None
  /\ UNCHANGED <<registryVars, roomVars, activePeers, pc, id, room, waiting,
                 cmd, removalVars, ctlRoom, controls>>

-----------------------------------------------------------------------------

Join(p) == Connect(p) \/ JoinGetRoom(p) \/ Admit(p) \/ Insert(p)

Moderate(p) ==
  \/ \E on \in BOOLEAN : SetLobby(p, on) \/ SetLocked(p, on)
  \/ \E action \in {"approve", "deny", "remove"}, i \in PeerId :
       PickTarget(p, action, i)
  \/ Approve(p)
  \/ Expel(p)

Leave(p) == Disconnect(p) \/ ConnectionFailed(p) \/ Unlink(p) \/ DropRoom(p)

Control == ControlGetRoom \/ ControlFind \/ ControlSetRole

Next == (\E p \in Peer : Join(p) \/ Moderate(p) \/ Leave(p)) \/ Control

Spec == Init /\ [][Next]_vars

\* The Go scheduler runs every goroutine that is not blocked; connecting,
\* sending a command and leaving are up to the clients.
Fairness ==
  /\ \A p \in Peer : /\ WF_vars(JoinGetRoom(p))
                     /\ WF_vars(Admit(p))
                     /\ WF_vars(Insert(p))
                     /\ WF_vars(Approve(p))
                     /\ WF_vars(Expel(p))
                     /\ WF_vars(Unlink(p))
                     /\ WF_vars(DropRoom(p))
  /\ WF_vars(ControlFind)
  /\ WF_vars(ControlSetRole)

FairSpec == Spec /\ Fairness

-----------------------------------------------------------------------------
(* Properties *)

\* The gauge activePeers counts every connection inserted into a room and not
\* yet unlinked, once, although removePeer may be called for the same peer by
\* its own reader, by Pion's callback and by any number of moderators.
Counted == {p \in Peer : pc[p] \in {"serve", "end"}
                         /\ removal[p] \in {"none", "unlink"}}
PeerGaugeExact == activePeers = Cardinality(Counted)

\* Once removePeer has unlinked a connection, no room lists it: nothing the
\* other goroutines do later (an approval in flight, a duplicate join) brings
\* it back.
NoGhostListing ==
  \A p \in Peer, r \in RoomObj :
    removal[p] \in {"drop", "done"} => p \notin Listed(r)

\* The host of a room is in the room, or has been admitted and is about to be
\* inserted: succession and the early assignment in the join never leave the
\* room with the id of somebody who is gone or was refused.
HostPresent ==
  \A r \in RoomObj :
    hostID[r] # None =>
      \/ peers[r][hostID[r]] # None
      \/ \E p \in Peer : pc[p] = "insert" /\ room[p] = r /\ id[p] = hostID[r]

\* A host is removed only by itself, by its own transport or by another host,
\* even when roles change between the check and the removal, and by no command
\* (deny has no rank check).
OutrankedNever ==
  \A p \in Peer :
    /\ role[p] = "host"
    /\ removal[p] = "none"
    /\ removal'[p] = "unlink"
    /\ remover'[p] \notin {p, None}
    => role[remover'[p]] = "host"
ModeratorOutranks == [][OutrankedNever]_vars

\* Once every connection has ended for good, the registry drains: the room is
\* dropped and the gauge of peers returns to zero.
Over == \A p \in Peer : pc[p] \in {"idle", "end", "refused"}
RegistryDrains == <>[]Over => <>[](rooms = None /\ activePeers = 0)
=============================================================================
