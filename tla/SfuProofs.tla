------------------------------ MODULE SfuProofs ------------------------------
(***************************************************************************)
(* Proofs about the SFU, for any connections, ids, room objects, tracks    *)
(* and bounds.  SfuRoom: its type invariant, the invariants of the lobby,  *)
(* of the room's map and of the host, the gauge of peers, and the rank     *)
(* check of moderation.  SfuFanout: its type invariant, that everybody is  *)
(* sent the tracks of the others, and that nothing else is sent.           *)
(***************************************************************************)
EXTENDS SfuRoom, SfuFanout, FiniteSetTheorems, TLAPS

-----------------------------------------------------------------------------
(* The rooms: the inductive invariant *)

\* A connection has an id from its join message on and a room from getRoom on.
JoinedOK ==
  \A p \in Peer :
    /\ pc[p] # "idle" => id[p] \in PeerId
    /\ pc[p] \in {"admit", "insert", "serve", "end"} => room[p] \in RoomObj

\* Nothing happens to a *Peer before it is inserted into its room, and it is
\* closed exactly when its removal has begun.
LifeOK ==
  \A p \in Peer :
    /\ pc[p] \notin {"serve", "end"} =>
         removal[p] = "none" /\ ~waiting[p] /\ cmd[p] = None
    /\ closed[p] <=> removal[p] # "none"

\* An entry of room.peers is a connection of that id and that room, inserted
\* and not yet unlinked.
ListedOK ==
  \A r \in RoomObj, i \in PeerId :
    peers[r][i] # None =>
      /\ id[peers[r][i]] = i
      /\ room[peers[r][i]] = r
      /\ pc[peers[r][i]] \in {"serve", "end"}
      /\ removal[peers[r][i]] \in {"none", "unlink"}

\* A host never waits in the lobby, and a goroutine about to expel a host is
\* itself a host's.
RankOK ==
  \A p \in Peer :
    /\ waiting[p] => role[p] # "host"
    /\ cmd[p] # None =>
         /\ pc[cmd[p].target] \in {"serve", "end"}
         /\ cmd[p].action # "approve" /\ role[cmd[p].target] = "host"
              => role[p] = "host"

IInv == TypeOK /\ JoinedOK /\ LifeOK /\ ListedOK /\ RankOK /\ HostPresent

-----------------------------------------------------------------------------
(* Type correctness *)

LEMMA TypeInit == Init => TypeOK
BY ConstantsAssumption DEF Init, TypeOK, Role

LEMMA RemovePeerType ==
  ASSUME TypeOK, NEW t \in Peer, NEW by \in Peer \cup {None}, RemovePeer(t, by)
  PROVE  /\ closed' \in [Peer -> BOOLEAN]
         /\ removal' \in [Peer -> {"none", "unlink", "drop", "done"}]
         /\ remover' \in [Peer -> Peer \cup {None}]
BY DEF TypeOK, RemovePeer, Close, removalVars

LEMMA GetRoomType ==
  ASSUME TypeOK, NEW r \in RoomObj, GetRoomAs(r)
  PROVE  /\ rooms' \in RoomObj \cup {None}
         /\ created' \in SUBSET RoomObj
         /\ activeRooms' \in Int
BY DEF TypeOK, GetRoomAs, registryVars

LEMMA TypeStep == TypeOK /\ JoinedOK /\ LifeOK /\ [Next]_vars => TypeOK'
<1> SUFFICES ASSUME TypeOK, JoinedOK, LifeOK, [Next]_vars PROVE TypeOK'
  OBVIOUS
<1> USE ConstantsAssumption
<1> USE DEF registryVars, roomVars, removalVars, controlVars
<1>1. ASSUME NEW p \in Peer, Connect(p) PROVE TypeOK'
  BY <1>1 DEF TypeOK, Connect, Role
<1>2. ASSUME NEW p \in Peer, JoinGetRoom(p) PROVE TypeOK'
  <2>1. PICK r \in RoomObj : GetRoomAs(r) /\ room' = [room EXCEPT ![p] = r]
    BY <1>2 DEF JoinGetRoom
  <2>2. QED
    BY <1>2, <2>1, GetRoomType DEF TypeOK, JoinGetRoom
<1>3. ASSUME NEW p \in Peer, Admit(p) PROVE TypeOK'
  BY <1>3 DEF TypeOK, Admit
<1>4. ASSUME NEW p \in Peer, Insert(p) PROVE TypeOK'
  <2>1. room[p] \in RoomObj /\ id[p] \in PeerId
    BY <1>4 DEF JoinedOK, Insert
  <2>2. peers' \in [RoomObj -> [PeerId -> Peer \cup {None}]]
    BY <1>4, <2>1 DEF TypeOK, Insert
  <2>3. QED
    BY <1>4, <2>2 DEF TypeOK, Insert
<1>5. ASSUME NEW p \in Peer, NEW on \in BOOLEAN, SetLobby(p, on) PROVE TypeOK'
  BY <1>5 DEF TypeOK, SetLobby
<1>6. ASSUME NEW p \in Peer, NEW on \in BOOLEAN, SetLocked(p, on) PROVE TypeOK'
  BY <1>6 DEF TypeOK, SetLocked
<1>7. ASSUME NEW p \in Peer, NEW action \in {"approve", "deny", "remove"},
             NEW i \in PeerId, PickTarget(p, action, i)
      PROVE TypeOK'
  <2>1. peers[room[p]][i] \in Peer
    BY <1>7 DEF TypeOK, JoinedOK, PickTarget, Reading
  <2>2. cmd' \in [Peer -> PeerCmd \cup {None}]
    BY <1>7, <2>1 DEF TypeOK, PickTarget, PeerCmd
  <2>3. QED
    BY <1>7, <2>2 DEF TypeOK, PickTarget
<1>8. ASSUME NEW p \in Peer, Approve(p) PROVE TypeOK'
  BY <1>8 DEF TypeOK, Approve
<1>9. ASSUME NEW p \in Peer, Expel(p) PROVE TypeOK'
  <2>1. cmd[p].target \in Peer
    BY <1>9 DEF Expel, TypeOK, PeerCmd
  <2>2. QED
    BY <1>9, <2>1, RemovePeerType DEF TypeOK, Expel
<1>10. ASSUME NEW p \in Peer, Disconnect(p) PROVE TypeOK'
  BY <1>10, RemovePeerType DEF TypeOK, Disconnect
<1>11. ASSUME NEW p \in Peer, ConnectionFailed(p) PROVE TypeOK'
  BY <1>11, RemovePeerType DEF TypeOK, ConnectionFailed
<1>12. ASSUME NEW p \in Peer, Unlink(p) PROVE TypeOK'
  <2>1. room[p] \in RoomObj /\ id[p] \in PeerId
    BY <1>12 DEF JoinedOK, LifeOK, Unlink
  <2>2. Left(p) \in [PeerId -> Peer \cup {None}]
    BY <2>1 DEF TypeOK, Left
  <2>3. Heirs(Remaining(p)) \subseteq Peer
    BY DEF Heirs, Remaining
  <2>4. hostID' \in [RoomObj -> PeerId \cup {None}]
    <3>1. CASE UNCHANGED hostID
      BY <3>1 DEF TypeOK
    <3>2. CASE hostID' = [hostID EXCEPT ![room[p]] = None]
      BY <3>2 DEF TypeOK
    <3>3. CASE \E q \in Peer : hostID' = [hostID EXCEPT ![room[p]] = id[q]]
      BY <3>3 DEF TypeOK
    <3>4. QED
      BY <1>12, <2>3, <3>1, <3>2, <3>3, Zenon DEF Unlink
  <2>5. peers' \in [RoomObj -> [PeerId -> Peer \cup {None}]]
    BY <1>12, <2>2 DEF TypeOK, Unlink
  <2>6. removal' \in [Peer -> {"none", "unlink", "drop", "done"}]
    BY <1>12 DEF TypeOK, Unlink
  <2>7. activePeers' \in Int
    BY <1>12 DEF TypeOK, Unlink
  <2>8. UNCHANGED <<registryVars, locked, lobby, pc, id, role, room, waiting,
                    cmd, closed, remover, controlVars>>
    BY <1>12 DEF Unlink
  <2>9. QED
    BY <2>4, <2>5, <2>6, <2>7, <2>8 DEF TypeOK
<1>13. ASSUME NEW p \in Peer, DropRoom(p) PROVE TypeOK'
  BY <1>13 DEF TypeOK, DropRoom
<1>14. CASE ControlGetRoom
  BY <1>14, GetRoomType DEF TypeOK, ControlGetRoom
<1>15. CASE ControlFind
  BY <1>15 DEF TypeOK, ControlFind, Listed, ListedIds
<1>16. CASE ControlSetRole
  BY <1>16 DEF TypeOK, ControlSetRole, Role
<1>17. CASE UNCHANGED vars
  BY <1>17 DEF TypeOK, vars
<1>18. QED
  BY <1>1, <1>2, <1>3, <1>4, <1>5, <1>6, <1>7, <1>8, <1>9, <1>10, <1>11,
     <1>12, <1>13, <1>14, <1>15, <1>16, <1>17
  DEF Next, Join, Moderate, Leave, Control

-----------------------------------------------------------------------------
(* The life of a connection *)

LEMMA JoinedStep == TypeOK /\ JoinedOK /\ [Next]_vars => JoinedOK'
<1> SUFFICES ASSUME TypeOK, JoinedOK, [Next]_vars PROVE JoinedOK'
  OBVIOUS
<1> USE DEF registryVars, roomVars, removalVars, controlVars
<1>1. ASSUME NEW p \in Peer, Connect(p) PROVE JoinedOK'
  <2>1. PICK j \in Joins[p] : id' = [id EXCEPT ![p] = j.id]
    BY <1>1 DEF Connect
  <2>2. j.id \in PeerId
    BY ConstantsAssumption
  <2>3. QED
    BY <1>1, <2>1, <2>2 DEF TypeOK, JoinedOK, Connect
<1>2. ASSUME NEW p \in Peer, JoinGetRoom(p) PROVE JoinedOK'
  <2>1. PICK r \in RoomObj : room' = [room EXCEPT ![p] = r]
    BY <1>2 DEF JoinGetRoom
  <2>2. QED
    BY <1>2, <2>1 DEF TypeOK, JoinedOK, JoinGetRoom
<1>3. ASSUME NEW p \in Peer, Admit(p) PROVE JoinedOK'
  BY <1>3 DEF TypeOK, JoinedOK, Admit
<1>4. ASSUME NEW p \in Peer, Insert(p) PROVE JoinedOK'
  BY <1>4 DEF TypeOK, JoinedOK, Insert
<1>5. ASSUME NEW p \in Peer, Disconnect(p) PROVE JoinedOK'
  BY <1>5 DEF TypeOK, JoinedOK, Disconnect, Reading
<1>6. ASSUME NEW p \in Peer,
             Moderate(p) \/ ConnectionFailed(p) \/ Unlink(p) \/ DropRoom(p)
      PROVE UNCHANGED <<pc, id, room>>
  BY <1>6 DEF Moderate, SetLobby, SetLocked, PickTarget, Approve, Expel,
              ConnectionFailed, Unlink, DropRoom
<1>7. ASSUME Control \/ UNCHANGED vars PROVE UNCHANGED <<pc, id, room>>
  BY <1>7 DEF Control, ControlGetRoom, ControlFind, ControlSetRole, vars
<1>8. ASSUME UNCHANGED <<pc, id, room>> PROVE JoinedOK'
  BY <1>8 DEF JoinedOK
<1>9. QED
  BY <1>1, <1>2, <1>3, <1>4, <1>5, <1>6, <1>7, <1>8
  DEF Next, Join, Leave

LEMMA RemovePeerLife ==
  ASSUME TypeOK, LifeOK, NEW t \in Peer, NEW by, RemovePeer(t, by),
         pc[t] \in {"serve", "end"}
  PROVE  \A p \in Peer :
           /\ removal'[p] # removal[p] => p = t /\ removal[t] = "none"
                                                /\ removal'[t] = "unlink"
           /\ closed'[p] <=> removal'[p] # "none"
BY DEF TypeOK, LifeOK, RemovePeer, Close, removalVars

LEMMA LifeStep ==
  TypeOK /\ JoinedOK /\ LifeOK /\ RankOK /\ [Next]_vars => LifeOK'
<1> SUFFICES ASSUME TypeOK, JoinedOK, LifeOK, RankOK, [Next]_vars
             PROVE  LifeOK'
  OBVIOUS
<1> USE DEF registryVars, roomVars, removalVars, controlVars
<1>1. ASSUME NEW p \in Peer, Connect(p) \/ JoinGetRoom(p) \/ Admit(p)
      PROVE LifeOK'
  BY <1>1 DEF TypeOK, LifeOK, Connect, JoinGetRoom, Admit
<1>2. ASSUME NEW p \in Peer, Insert(p) PROVE LifeOK'
  BY <1>2 DEF TypeOK, LifeOK, Insert
<1>3. ASSUME NEW p \in Peer, NEW on \in BOOLEAN,
             SetLobby(p, on) \/ SetLocked(p, on)
      PROVE UNCHANGED <<pc, waiting, cmd, removalVars>>
  BY <1>3 DEF SetLobby, SetLocked
<1>4. ASSUME NEW p \in Peer, NEW action \in {"approve", "deny", "remove"},
             NEW i \in PeerId, PickTarget(p, action, i)
      PROVE LifeOK'
  BY <1>4 DEF TypeOK, LifeOK, PickTarget, Reading
<1>5. ASSUME NEW p \in Peer, Approve(p) PROVE LifeOK'
  BY <1>5 DEF TypeOK, LifeOK, Approve
<1>6. ASSUME NEW p \in Peer, Expel(p) PROVE LifeOK'
  <2>1. /\ cmd[p].target \in Peer
        /\ pc[cmd[p].target] \in {"serve", "end"}
        /\ RemovePeer(cmd[p].target, p)
    BY <1>6 DEF Expel, TypeOK, PeerCmd, RankOK
  <2>2. QED
    BY <1>6, <2>1, RemovePeerLife DEF TypeOK, LifeOK, Expel
<1>7. ASSUME NEW p \in Peer, Disconnect(p) PROVE LifeOK'
  <2>1. pc[p] = "serve" /\ RemovePeer(p, p)
    BY <1>7 DEF Disconnect, Reading
  <2>2. QED
    BY <1>7, <2>1, RemovePeerLife DEF TypeOK, LifeOK, Disconnect
<1>8. ASSUME NEW p \in Peer, ConnectionFailed(p) PROVE LifeOK'
  <2>1. pc[p] = "serve" /\ RemovePeer(p, None)
    BY <1>8 DEF ConnectionFailed
  <2>2. QED
    BY <1>8, <2>1, RemovePeerLife DEF TypeOK, LifeOK, ConnectionFailed
<1>9. ASSUME NEW p \in Peer, Unlink(p) PROVE LifeOK'
  BY <1>9 DEF TypeOK, LifeOK, Unlink
<1>10. ASSUME NEW p \in Peer, DropRoom(p) PROVE LifeOK'
  BY <1>10 DEF TypeOK, LifeOK, DropRoom
<1>11. ASSUME Control \/ UNCHANGED vars
       PROVE UNCHANGED <<pc, waiting, cmd, removalVars>>
  BY <1>11 DEF Control, ControlGetRoom, ControlFind, ControlSetRole, vars
<1>12. ASSUME UNCHANGED <<pc, waiting, cmd, removalVars>> PROVE LifeOK'
  BY <1>12 DEF LifeOK
<1>13. QED
  BY <1>1, <1>2, <1>3, <1>4, <1>5, <1>6, <1>7, <1>8, <1>9, <1>10, <1>11,
     <1>12
  DEF Next, Join, Moderate, Leave

-----------------------------------------------------------------------------
(* The map of a room *)

\* A step that leaves room.peers alone and keeps the fields ListedOK looks at,
\* of every connection that may be listed, preserves it.
LEMMA ListedKept ==
  ASSUME TypeOK, ListedOK, UNCHANGED peers,
         \A p \in Peer :
           /\ pc[p] \in {"serve", "end"}
           /\ removal[p] \in {"none", "unlink"}
           => /\ id'[p] = id[p] /\ room'[p] = room[p]
              /\ pc'[p] \in {"serve", "end"}
              /\ removal'[p] \in {"none", "unlink"}
  PROVE  ListedOK'
<1> SUFFICES ASSUME NEW r \in RoomObj, NEW i \in PeerId, peers[r][i] # None
             PROVE  /\ id'[peers[r][i]] = i
                    /\ room'[peers[r][i]] = r
                    /\ pc'[peers[r][i]] \in {"serve", "end"}
                    /\ removal'[peers[r][i]] \in {"none", "unlink"}
  BY DEF ListedOK
<1>1. peers[r][i] \in Peer
  BY DEF TypeOK
<1>2. QED
  BY <1>1 DEF ListedOK

LEMMA ListedStep ==
  TypeOK /\ JoinedOK /\ LifeOK /\ ListedOK /\ RankOK /\ [Next]_vars => ListedOK'
<1> SUFFICES ASSUME TypeOK, JoinedOK, LifeOK, ListedOK, RankOK, [Next]_vars
             PROVE  ListedOK'
  OBVIOUS
<1> USE DEF registryVars, roomVars, removalVars, controlVars
<1>1. ASSUME NEW p \in Peer, Connect(p) \/ JoinGetRoom(p) \/ Admit(p)
      PROVE ListedOK'
  <2>1. \A q \in Peer \ {p} : /\ id'[q] = id[q] /\ room'[q] = room[q]
                              /\ pc'[q] = pc[q]
    BY <1>1 DEF TypeOK, Connect, JoinGetRoom, Admit
  <2>2. pc[p] \notin {"serve", "end"} /\ UNCHANGED <<peers, removal>>
    BY <1>1 DEF Connect, JoinGetRoom, Admit
  <2>3. QED
    BY <2>1, <2>2, ListedKept
<1>2. ASSUME NEW p \in Peer, Insert(p) PROVE ListedOK'
  <2>1. removal[p] = "none" /\ room[p] \in RoomObj /\ id[p] \in PeerId
    BY <1>2 DEF JoinedOK, LifeOK, Insert
  <2>2. \A r \in RoomObj, i \in PeerId :
          peers'[r][i] = IF r = room[p] /\ i = id[p] THEN p ELSE peers[r][i]
    BY <1>2, <2>1 DEF TypeOK, Insert
  <2>3. UNCHANGED <<id, room, removal>> /\ pc' = [pc EXCEPT ![p] = "serve"]
    BY <1>2 DEF Insert
  <2>4. QED
    BY <2>1, <2>2, <2>3 DEF TypeOK, ListedOK
<1>3. ASSUME NEW p \in Peer, NEW on \in BOOLEAN,
             SetLobby(p, on) \/ SetLocked(p, on)
      PROVE UNCHANGED <<peers, id, room, pc, removal>>
  BY <1>3 DEF SetLobby, SetLocked
<1>4. ASSUME NEW p \in Peer, NEW action \in {"approve", "deny", "remove"},
             NEW i \in PeerId, PickTarget(p, action, i)
      PROVE UNCHANGED <<peers, id, room, pc, removal>>
  BY <1>4 DEF PickTarget
<1>5. ASSUME NEW p \in Peer, Approve(p)
      PROVE UNCHANGED <<peers, id, room, pc, removal>>
  BY <1>5 DEF Approve
<1>6. ASSUME NEW p \in Peer, Expel(p) PROVE ListedOK'
  <2>1. /\ cmd[p].target \in Peer
        /\ pc[cmd[p].target] \in {"serve", "end"}
        /\ RemovePeer(cmd[p].target, p)
    BY <1>6 DEF Expel, TypeOK, PeerCmd, RankOK
  <2>2. UNCHANGED <<peers, id, room, pc>>
    BY <1>6 DEF Expel
  <2>3. QED
    BY <2>1, <2>2, RemovePeerLife, ListedKept
<1>7. ASSUME NEW p \in Peer, Disconnect(p) PROVE ListedOK'
  <2>1. pc[p] = "serve" /\ RemovePeer(p, p)
    BY <1>7 DEF Disconnect, Reading
  <2>2. UNCHANGED <<peers, id, room>> /\ pc' = [pc EXCEPT ![p] = "end"]
    BY <1>7 DEF Disconnect
  <2>3. \A q \in Peer : pc[q] \in {"serve", "end"} => pc'[q] \in {"serve", "end"}
    BY <2>2 DEF TypeOK
  <2>4. QED
    BY <2>1, <2>2, <2>3, RemovePeerLife, ListedKept
<1>8. ASSUME NEW p \in Peer, ConnectionFailed(p) PROVE ListedOK'
  <2>1. pc[p] = "serve" /\ RemovePeer(p, None) /\ UNCHANGED <<peers, id, room, pc>>
    BY <1>8 DEF ConnectionFailed
  <2>2. QED
    BY <2>1, RemovePeerLife, ListedKept
<1>9. ASSUME NEW p \in Peer, Unlink(p) PROVE ListedOK'
  <2>1. room[p] \in RoomObj /\ id[p] \in PeerId
    BY <1>9 DEF JoinedOK, LifeOK, Unlink
  <2>2. \A r \in RoomObj, i \in PeerId :
          peers'[r][i] = IF r = room[p] /\ i = id[p] THEN None ELSE peers[r][i]
    BY <1>9, <2>1 DEF TypeOK, Unlink, Left
  <2>3. /\ UNCHANGED <<id, room, pc>>
        /\ \A q \in Peer \ {p} : removal'[q] = removal[q]
    BY <1>9 DEF TypeOK, Unlink
  <2>4. \A r \in RoomObj, i \in PeerId :
          peers'[r][i] # None => peers'[r][i] \in Peer \ {p}
    BY <2>1, <2>2 DEF TypeOK, ListedOK
  <2>5. QED
    BY <2>1, <2>2, <2>3, <2>4 DEF ListedOK
<1>10. ASSUME NEW p \in Peer, DropRoom(p) PROVE ListedOK'
  <2>1. /\ UNCHANGED <<peers, id, room, pc>>
        /\ removal[p] = "drop"
        /\ \A q \in Peer \ {p} : removal'[q] = removal[q]
    BY <1>10 DEF TypeOK, DropRoom
  <2>2. QED
    BY <2>1, ListedKept
<1>11. ASSUME Control \/ UNCHANGED vars
       PROVE UNCHANGED <<peers, id, room, pc, removal>>
  BY <1>11 DEF Control, ControlGetRoom, ControlFind, ControlSetRole, vars
<1>12. ASSUME UNCHANGED <<peers, id, room, pc, removal>> PROVE ListedOK'
  BY <1>12 DEF ListedOK
<1>13. QED
  BY <1>1, <1>2, <1>3, <1>4, <1>5, <1>6, <1>7, <1>8, <1>9, <1>10, <1>11,
     <1>12
  DEF Next, Join, Moderate, Leave

-----------------------------------------------------------------------------
(* Rank *)

LEMMA RankStep ==
  TypeOK /\ LifeOK /\ ListedOK /\ JoinedOK /\ RankOK /\ [Next]_vars => RankOK'
<1> SUFFICES ASSUME TypeOK, LifeOK, ListedOK, JoinedOK, RankOK, [Next]_vars
             PROVE  RankOK'
  OBVIOUS
<1> USE ConstantsAssumption
<1> USE DEF registryVars, roomVars, removalVars, controlVars
<1>0. \A p \in Peer : cmd[p] # None => cmd[p].target \in Peer
  BY DEF TypeOK, PeerCmd
<1>1. ASSUME NEW p \in Peer, Connect(p) PROVE RankOK'
  <2>1. ~waiting[p] /\ cmd[p] = None /\ pc[p] = "idle"
    BY <1>1 DEF LifeOK, Connect
  <2>2. /\ UNCHANGED <<waiting, cmd>>
        /\ \A q \in Peer \ {p} : role'[q] = role[q] /\ pc'[q] = pc[q]
    BY <1>1 DEF TypeOK, Connect
  <2>3. QED
    BY <1>0, <2>1, <2>2 DEF RankOK
<1>2. ASSUME NEW p \in Peer, JoinGetRoom(p) \/ Admit(p) PROVE RankOK'
  <2>1. pc[p] \in {"getRoom", "admit"} /\ UNCHANGED <<waiting, cmd, role>>
    BY <1>2 DEF JoinGetRoom, Admit
  <2>2. \A q \in Peer \ {p} : pc'[q] = pc[q]
    BY <1>2 DEF TypeOK, JoinGetRoom, Admit
  <2>3. QED
    BY <1>0, <2>1, <2>2 DEF RankOK
<1>3. ASSUME NEW p \in Peer, Insert(p) PROVE RankOK'
  BY <1>0, <1>3 DEF TypeOK, RankOK, Insert, Moderators
<1>4. ASSUME NEW p \in Peer, NEW on \in BOOLEAN,
             SetLobby(p, on) \/ SetLocked(p, on)
      PROVE UNCHANGED <<waiting, cmd, role, pc>>
  BY <1>4 DEF SetLobby, SetLocked
<1>5. ASSUME NEW p \in Peer, NEW action \in {"approve", "deny", "remove"},
             NEW i \in PeerId, PickTarget(p, action, i)
      PROVE RankOK'
  <2> DEFINE t == peers[room[p]][i]
  <2>1. t \in Peer /\ pc[t] \in {"serve", "end"}
    BY <1>5 DEF TypeOK, JoinedOK, ListedOK, PickTarget, Reading
  <2>2. action # "approve" /\ role[t] = "host" => role[p] = "host"
    BY <1>5, <2>1 DEF PickTarget, CanModerateTarget, RankOK
  <2>3. /\ cmd' = [cmd EXCEPT ![p] = [action |-> action, target |-> t]]
        /\ UNCHANGED <<waiting, role, pc>>
    BY <1>5 DEF PickTarget
  <2>4. QED
    BY <2>1, <2>2, <2>3 DEF TypeOK, RankOK
<1>6. ASSUME NEW p \in Peer, Approve(p) PROVE RankOK'
  BY <1>6 DEF TypeOK, RankOK, Approve
<1>7. ASSUME NEW p \in Peer, Expel(p) PROVE RankOK'
  BY <1>7 DEF TypeOK, RankOK, Expel
<1>8. ASSUME NEW p \in Peer, Disconnect(p) PROVE RankOK'
  <2>1. /\ UNCHANGED <<waiting, cmd, role>>
        /\ pc' = [pc EXCEPT ![p] = "end"]
    BY <1>8 DEF Disconnect
  <2>2. QED
    BY <1>0, <2>1 DEF TypeOK, RankOK
<1>9. ASSUME NEW p \in Peer, ConnectionFailed(p) \/ Unlink(p) \/ DropRoom(p)
      PROVE UNCHANGED <<waiting, cmd, role, pc>>
  BY <1>9 DEF ConnectionFailed, Unlink, DropRoom
<1>10. CASE ControlSetRole
  <2>1. UNCHANGED <<waiting, cmd, pc>>
    BY <1>10 DEF ControlSetRole
  <2>2. \A q \in Peer : role'[q] = "host" <=> role[q] = "host"
    BY <1>10 DEF TypeOK, ControlSetRole, Role
  <2>3. QED
    BY <1>0, <2>1, <2>2 DEF RankOK
<1>11. ASSUME ControlGetRoom \/ ControlFind \/ UNCHANGED vars
       PROVE UNCHANGED <<waiting, cmd, role, pc>>
  BY <1>11 DEF ControlGetRoom, ControlFind, vars
<1>12. ASSUME UNCHANGED <<waiting, cmd, role, pc>> PROVE RankOK'
  BY <1>12 DEF RankOK
<1>13. QED
  BY <1>1, <1>2, <1>3, <1>4, <1>5, <1>6, <1>7, <1>8, <1>9, <1>10, <1>11,
     <1>12
  DEF Next, Join, Moderate, Leave, Control

-----------------------------------------------------------------------------
(* The host *)

LEMMA HostStep ==
  TypeOK /\ JoinedOK /\ LifeOK /\ ListedOK /\ HostPresent /\ [Next]_vars
    => HostPresent'
<1> SUFFICES ASSUME TypeOK, JoinedOK, LifeOK, ListedOK, HostPresent,
                    [Next]_vars
             PROVE  HostPresent'
  OBVIOUS
<1> USE ConstantsAssumption
<1> USE DEF registryVars, roomVars, removalVars, controlVars
<1>1. ASSUME NEW p \in Peer, Connect(p) \/ JoinGetRoom(p) PROVE HostPresent'
  <2>1. /\ UNCHANGED <<hostID, peers>>
        /\ pc[p] # "insert"
        /\ \A q \in Peer \ {p} : /\ pc'[q] = pc[q] /\ id'[q] = id[q]
                                 /\ room'[q] = room[q]
    BY <1>1 DEF TypeOK, Connect, JoinGetRoom
  <2>2. QED
    BY <2>1 DEF HostPresent
<1>2. ASSUME NEW p \in Peer, Admit(p) PROVE HostPresent'
  <2>1. /\ pc[p] = "admit" /\ UNCHANGED <<peers, id, room>>
        /\ room[p] \in RoomObj
        /\ \A q \in Peer \ {p} : pc'[q] = pc[q]
    BY <1>2 DEF TypeOK, JoinedOK, Admit
  <2>2. CASE UNCHANGED hostID
    BY <2>1, <2>2 DEF HostPresent
  <2>3. CASE /\ hostID[room[p]] = None
             /\ hostID' = [hostID EXCEPT ![room[p]] = id[p]]
             /\ pc'[p] = "insert"
    BY <2>1, <2>3 DEF TypeOK, HostPresent
  <2>4. QED
    BY <1>2, <2>1, <2>2, <2>3 DEF TypeOK, Admit, LockedOut
<1>3. ASSUME NEW p \in Peer, Insert(p) PROVE HostPresent'
  <2>1. room[p] \in RoomObj /\ id[p] \in PeerId
    BY <1>3 DEF JoinedOK, Insert
  <2>2. \A r \in RoomObj, i \in PeerId :
          peers'[r][i] = IF r = room[p] /\ i = id[p] THEN p ELSE peers[r][i]
    BY <1>3, <2>1 DEF TypeOK, Insert
  <2>3. /\ UNCHANGED <<id, room, hostID>>
        /\ \A q \in Peer \ {p} : pc'[q] = pc[q]
    BY <1>3 DEF TypeOK, Insert
  <2>4. SUFFICES ASSUME NEW r \in RoomObj, hostID[r] # None
                 PROVE  \/ peers'[r][hostID[r]] # None
                        \/ \E q \in Peer : /\ pc'[q] = "insert" /\ room[q] = r
                                           /\ id[q] = hostID[r]
    BY <2>3 DEF HostPresent
  <2>5. CASE r = room[p] /\ hostID[r] = id[p]
    BY <2>1, <2>2, <2>5
  <2>6. CASE ~(r = room[p] /\ hostID[r] = id[p])
    <3>1. hostID[r] \in PeerId
      BY <2>4 DEF TypeOK
    <3>2. peers'[r][hostID[r]] = peers[r][hostID[r]]
      BY <2>2, <2>6, <3>1
    <3>3. QED
      BY <2>3, <2>4, <2>6, <3>2 DEF HostPresent
  <2>7. QED
    BY <2>5, <2>6
<1>4. ASSUME NEW p \in Peer, Moderate(p) PROVE HostPresent'
  <2>1. UNCHANGED <<hostID, peers, pc, id, room>>
    BY <1>4 DEF Moderate, SetLobby, SetLocked, PickTarget, Approve, Expel
  <2>2. QED
    BY <2>1 DEF HostPresent
<1>5. ASSUME NEW p \in Peer, Disconnect(p) PROVE HostPresent'
  <2>1. /\ UNCHANGED <<hostID, peers, id, room>>
        /\ pc[p] = "serve"
        /\ \A q \in Peer \ {p} : pc'[q] = pc[q]
    BY <1>5 DEF TypeOK, Disconnect, Reading
  <2>2. QED
    BY <2>1 DEF HostPresent
<1>6. ASSUME NEW p \in Peer, ConnectionFailed(p) \/ DropRoom(p)
      PROVE HostPresent'
  <2>1. UNCHANGED <<hostID, peers, pc, id, room>>
    BY <1>6 DEF ConnectionFailed, DropRoom
  <2>2. QED
    BY <2>1 DEF HostPresent
<1>7. ASSUME NEW p \in Peer, Unlink(p) PROVE HostPresent'
  <2>1. room[p] \in RoomObj /\ id[p] \in PeerId
    BY <1>7 DEF JoinedOK, LifeOK, Unlink
  <2>2. \A r \in RoomObj, i \in PeerId :
          peers'[r][i] = IF r = room[p] /\ i = id[p] THEN None ELSE peers[r][i]
    BY <1>7, <2>1 DEF TypeOK, Unlink, Left
  <2>3. UNCHANGED <<pc, id, room>>
    BY <1>7 DEF Unlink
  <2>4. CASE hostID[room[p]] # id[p] /\ UNCHANGED hostID
    BY <2>1, <2>2, <2>3, <2>4 DEF TypeOK, HostPresent
  <2>5. CASE hostID' = [hostID EXCEPT ![room[p]] = None]
    BY <2>1, <2>2, <2>3, <2>5 DEF TypeOK, HostPresent
  <2>6. ASSUME NEW q \in Heirs(Remaining(p)),
               hostID' = [hostID EXCEPT ![room[p]] = id[q]]
        PROVE HostPresent'
    <3>1. q \in Remaining(p)
      BY DEF Heirs
    <3>2. PICK i \in PeerId : Left(p)[i] = q
      BY <3>1 DEF Remaining
    <3>3. q \in Peer /\ i # id[p] /\ peers[room[p]][i] = q
      BY <2>1, <3>1, <3>2 DEF TypeOK, Left, Remaining
    <3>4. id[q] = i
      BY <2>1, <3>3 DEF ListedOK
    <3>5. peers'[room[p]][id[q]] # None
      BY <2>1, <2>2, <3>3, <3>4
    <3>6. QED
      BY <2>1, <2>2, <2>3, <2>6, <3>5 DEF TypeOK, HostPresent
  <2>7. QED
    BY <1>7, <2>4, <2>5, <2>6 DEF Unlink
<1>8. ASSUME Control \/ UNCHANGED vars PROVE HostPresent'
  <2>1. UNCHANGED <<hostID, peers, pc, id, room>>
    BY <1>8 DEF Control, ControlGetRoom, ControlFind, ControlSetRole, vars
  <2>2. QED
    BY <2>1 DEF HostPresent
<1>9. QED
  BY <1>1, <1>2, <1>3, <1>4, <1>5, <1>6, <1>7, <1>8 DEF Next, Join, Leave

-----------------------------------------------------------------------------
(* The theorems *)

LEMMA InvInit == Init => IInv
<1> SUFFICES ASSUME Init PROVE IInv
  OBVIOUS
<1>1. TypeOK
  BY TypeInit
<1>2. JoinedOK /\ LifeOK /\ ListedOK /\ RankOK /\ HostPresent
  BY DEF Init, JoinedOK, LifeOK, ListedOK, RankOK, HostPresent
<1>3. QED
  BY <1>1, <1>2 DEF IInv

LEMMA InvStep == IInv /\ [Next]_vars => IInv'
BY TypeStep, JoinedStep, LifeStep, ListedStep, RankStep, HostStep DEF IInv

LEMMA Invariance == Spec => []IInv
BY InvInit, InvStep, PTL DEF Spec

\* Every variable of the room lifecycle stays in its type.
THEOREM TypeCorrect == Spec => []TypeOK
<1>1. IInv => TypeOK
  BY DEF IInv
<1>2. QED
  BY <1>1, Invariance, PTL

\* The host of a room is in the room or about to be inserted into it, however
\* joins, duplicate ids, removals and succession interleave.
THEOREM HostAlwaysPresent == Spec => []HostPresent
<1>1. IInv => HostPresent
  BY DEF IInv
<1>2. QED
  BY <1>1, Invariance, PTL

\* A connection that removePeer has unlinked is never listed again.
THEOREM NoGhosts == Spec => []NoGhostListing
<1>1. IInv => NoGhostListing
  <2> SUFFICES ASSUME IInv, NEW p \in Peer, NEW r \in RoomObj,
                      removal[p] \in {"drop", "done"}
               PROVE  p \notin Listed(r)
    BY DEF NoGhostListing
  <2>1. \A i \in PeerId : peers[r][i] # None => peers[r][i] # p
    BY DEF IInv, ListedOK
  <2>2. QED
    BY <2>1 DEF Listed, ListedIds
<1>2. QED
  BY <1>1, Invariance, PTL

\* A host is never expelled by anyone but a host.
THEOREM HostsAreOutrankedByNobody == Spec => ModeratorOutranks
<1>1. IInv /\ [Next]_vars => [OutrankedNever]_vars
  <2> SUFFICES ASSUME IInv, Next, NEW t \in Peer,
                      role[t] = "host", removal[t] = "none",
                      removal'[t] = "unlink", remover'[t] \notin {t, None}
               PROVE  role[remover'[t]] = "host"
    BY DEF OutrankedNever
  <2> USE DEF IInv
  <2> USE DEF registryVars, roomVars, removalVars, controlVars
  <2>1. ASSUME NEW p \in Peer, Expel(p) PROVE role[remover'[t]] = "host"
    <3>1. cmd[p].target \in Peer /\ RemovePeer(cmd[p].target, p)
      BY <2>1 DEF Expel, TypeOK, PeerCmd
    <3>2. cmd[p].target = t /\ remover'[t] = p
      BY <3>1 DEF TypeOK, RemovePeer, Close
    <3>3. QED
      BY <2>1, <3>2 DEF RankOK, Expel
  <2>2. ASSUME NEW p \in Peer, NEW by \in {p, None}, RemovePeer(p, by)
        PROVE  FALSE
    BY <2>2 DEF TypeOK, RemovePeer, Close
  <2>3. ASSUME NEW p \in Peer, Unlink(p) \/ DropRoom(p) PROVE FALSE
    BY <2>3 DEF TypeOK, Unlink, DropRoom
  <2>4. ASSUME UNCHANGED removal PROVE FALSE
    BY <2>4
  <2>5. ASSUME NEW p \in Peer, Join(p) PROVE UNCHANGED removal
    BY <2>5 DEF Join, Connect, JoinGetRoom, Admit, Insert
  <2>6. ASSUME NEW p \in Peer, Moderate(p)
        PROVE  Expel(p) \/ UNCHANGED removal
    BY <2>6 DEF Moderate, SetLobby, SetLocked, PickTarget, Approve
  <2>7. ASSUME Control PROVE UNCHANGED removal
    BY <2>7 DEF Control, ControlGetRoom, ControlFind, ControlSetRole
  <2>8. ASSUME NEW p \in Peer, Leave(p)
        PROVE  \/ RemovePeer(p, p) \/ RemovePeer(p, None)
               \/ Unlink(p) \/ DropRoom(p)
    BY <2>8 DEF Leave, Disconnect, ConnectionFailed
  <2>9. QED
    BY <2>1, <2>2, <2>3, <2>4, <2>5, <2>6, <2>7, <2>8 DEF Next
<1>2. QED
  BY <1>1, Invariance, PTL DEF Spec, ModeratorOutranks

-----------------------------------------------------------------------------
(* The gauge of peers *)

LEMMA CountedFinite == IsFiniteSet(Counted)
BY ConstantsAssumption, FS_Subset DEF Counted

\* A step that inserts nobody and unlinks nobody leaves the gauge exact.
LEMMA GaugeKept ==
  ASSUME PeerGaugeExact, UNCHANGED activePeers, Counted' = Counted
  PROVE  PeerGaugeExact'
BY DEF PeerGaugeExact

LEMMA RemovePeerCounted ==
  ASSUME IInv, NEW t \in Peer, NEW by, RemovePeer(t, by),
         \A p \in Peer : pc'[p] \in {"serve", "end"} <=> pc[p] \in {"serve", "end"},
         pc[t] \in {"serve", "end"}
  PROVE  Counted' = Counted
BY RemovePeerLife DEF IInv, Counted

LEMMA GaugeStep == IInv /\ PeerGaugeExact /\ [Next]_vars => PeerGaugeExact'
<1> SUFFICES ASSUME IInv, PeerGaugeExact, [Next]_vars PROVE PeerGaugeExact'
  OBVIOUS
<1> USE DEF IInv
<1> USE DEF registryVars, roomVars, removalVars, controlVars
<1>1. ASSUME NEW p \in Peer, Connect(p) \/ JoinGetRoom(p) \/ Admit(p)
      PROVE PeerGaugeExact'
  <2>1. /\ UNCHANGED <<activePeers, removal>>
        /\ pc[p] \notin {"serve", "end"} /\ pc'[p] \notin {"serve", "end"}
        /\ \A q \in Peer \ {p} : pc'[q] = pc[q]
    BY <1>1 DEF TypeOK, Connect, JoinGetRoom, Admit
  <2>2. Counted' = Counted
    BY <2>1 DEF Counted
  <2>3. QED
    BY <2>1, <2>2, GaugeKept
<1>2. ASSUME NEW p \in Peer, Insert(p) PROVE PeerGaugeExact'
  <2>1. /\ activePeers' = activePeers + 1
        /\ UNCHANGED removal /\ removal[p] = "none"
        /\ pc[p] = "insert" /\ pc' = [pc EXCEPT ![p] = "serve"]
    BY <1>2 DEF Insert, LifeOK
  <2>2. Counted' = Counted \cup {p} /\ p \notin Counted
    BY <2>1 DEF Counted, TypeOK
  <2>3. Cardinality(Counted') = Cardinality(Counted) + 1
    BY <2>2, CountedFinite, FS_AddElement
  <2>4. QED
    BY <2>1, <2>3 DEF PeerGaugeExact
<1>3. ASSUME NEW p \in Peer, Moderate(p), ~Expel(p) PROVE PeerGaugeExact'
  <2>1. UNCHANGED <<activePeers, pc, removal>>
    BY <1>3 DEF Moderate, SetLobby, SetLocked, PickTarget, Approve
  <2>2. QED
    BY <2>1, GaugeKept DEF Counted
<1>4. ASSUME NEW p \in Peer, Expel(p) PROVE PeerGaugeExact'
  <2>1. /\ cmd[p].target \in Peer
        /\ pc[cmd[p].target] \in {"serve", "end"}
        /\ RemovePeer(cmd[p].target, p)
        /\ UNCHANGED <<activePeers, pc>>
    BY <1>4 DEF Expel, TypeOK, PeerCmd, RankOK
  <2>2. QED
    BY <2>1, RemovePeerCounted, GaugeKept
<1>5. ASSUME NEW p \in Peer, Disconnect(p) PROVE PeerGaugeExact'
  <2>1. /\ pc[p] = "serve" /\ pc' = [pc EXCEPT ![p] = "end"]
        /\ RemovePeer(p, p) /\ UNCHANGED activePeers
    BY <1>5 DEF Disconnect, Reading
  <2>2. \A q \in Peer : pc'[q] \in {"serve", "end"} <=> pc[q] \in {"serve", "end"}
    BY <2>1 DEF TypeOK
  <2>3. QED
    BY <2>1, <2>2, RemovePeerCounted, GaugeKept
<1>6. ASSUME NEW p \in Peer, ConnectionFailed(p) PROVE PeerGaugeExact'
  <2>1. pc[p] = "serve" /\ RemovePeer(p, None) /\ UNCHANGED <<activePeers, pc>>
    BY <1>6 DEF ConnectionFailed
  <2>2. QED
    BY <2>1, RemovePeerCounted, GaugeKept
<1>7. ASSUME NEW p \in Peer, Unlink(p) PROVE PeerGaugeExact'
  <2>1. /\ activePeers' = activePeers - 1 /\ UNCHANGED pc
        /\ removal[p] = "unlink" /\ pc[p] \in {"serve", "end"}
        /\ removal'[p] \in {"drop", "done"}
        /\ \A q \in Peer \ {p} : removal'[q] = removal[q]
    BY <1>7 DEF Unlink, LifeOK, TypeOK
  <2>2. Counted' = Counted \ {p} /\ p \in Counted
    BY <2>1 DEF Counted
  <2>3. Cardinality(Counted') = Cardinality(Counted) - 1
    BY <2>2, CountedFinite, FS_RemoveElement
  <2>4. QED
    BY <2>1, <2>3 DEF PeerGaugeExact
<1>8. ASSUME NEW p \in Peer, DropRoom(p) PROVE PeerGaugeExact'
  <2>1. /\ UNCHANGED <<activePeers, pc>>
        /\ removal[p] = "drop" /\ removal'[p] = "done"
        /\ \A q \in Peer \ {p} : removal'[q] = removal[q]
    BY <1>8 DEF DropRoom, TypeOK
  <2>2. Counted' = Counted
    BY <2>1 DEF Counted
  <2>3. QED
    BY <2>1, <2>2, GaugeKept
<1>9. ASSUME Control \/ UNCHANGED vars PROVE PeerGaugeExact'
  <2>1. UNCHANGED <<activePeers, pc, removal>>
    BY <1>9 DEF Control, ControlGetRoom, ControlFind, ControlSetRole, vars
  <2>2. QED
    BY <2>1, GaugeKept DEF Counted
<1>10. QED
  BY <1>1, <1>2, <1>3, <1>4, <1>5, <1>6, <1>7, <1>8, <1>9
  DEF Next, Join, Leave

\* activePeers is at every moment the number of connections inserted and not
\* yet unlinked: no removal is counted twice and none is forgotten.
THEOREM GaugeExact == Spec => []PeerGaugeExact
<1>1. Init => PeerGaugeExact
  <2> SUFFICES ASSUME Init PROVE PeerGaugeExact
    OBVIOUS
  <2>1. Counted = {} /\ activePeers = 0
    BY DEF Init, Counted
  <2>2. QED
    BY <2>1, FS_EmptySet DEF PeerGaugeExact
<1>2. QED
  BY <1>1, GaugeStep, Invariance, PTL DEF Spec

-----------------------------------------------------------------------------
(* The tracks: the inductive invariant.  A goroutine is named by its peer or *)
(* its track.                                                                *)

\* What a goroutine has to do is empty before it has looked at the room, so
\* that nothing is forgotten when it does.
Idle ==
  /\ \A p \in Participant :
       /\ stage[p] = "out" => attach[p] = {} /\ p \notin served \cup inLobby
       /\ stage[p] \notin {"unlinked", "gone"} => detach[p] = {}
  /\ \A t \in Track :
       /\ onTrack[t] \in {"none", "registered"} => attach[t] = {}
       /\ onTrack[t] # "ended" => detach[t] = {}

\* A moderator approves somebody who came, and looks at the tracks when that
\* peer waits no more.
Approvals ==
  \A q \in Moderator :
    /\ q \in cleared =>
         approving[q] # Nobody /\ approving[q] \notin inLobby
    /\ approving[q] # Nobody =>
         attach[q] = {} /\ stage[q] # "out" /\ stage[approving[q]] # "out"

\* Nobody of the lobby is to be given a track, and no track of the room is to
\* be taken away.
Pairs ==
  \A g \in Goroutine, p \in Participant, t \in Track :
    /\ <<p, t>> \in attach[g] => stage[p] # "out" /\ p \notin inLobby
    /\ <<p, t>> \in detach[g] => t \notin tracks /\ onTrack[t] # "none"

\* The OnTrack of a track of the room has not ended.
Published == \A t \in tracks : onTrack[t] \in {"registered", "serving"}

\* A subscription is that of a sender, and of somebody in the room.
Sending ==
  \A p \in Participant : \A t \in subscriptions[p] :
    senders[p][t] >= 1 /\ Open(p) /\ p \notin inLobby

\* Whoever is in the room has a track of another, or some goroutine has it in
\* hand: one that has found both, the OnTrack of the track before it looks at
\* the peers, or an approval of the peer before it looks at the tracks.
InHand(p, t) ==
  \/ \E g \in Goroutine : <<p, t>> \in attach[g]
  \/ onTrack[t] = "registered"
  \/ \E q \in cleared : approving[q] = p

Served(p, t) ==
  stage[p] = "closed" \/ t \in subscriptions[p] \/ InHand(p, t)

Serving == \A p \in Present : \A t \in Wanted(p) : Served(p, t)

\* Whoever has a track in order has one sender of it, of another's track that
\* is of the room or that some goroutine is about to take away.
InOrder(p, t) ==
  /\ senders[p][t] = IF t \in subscriptions[p] THEN 1 ELSE 0
  /\ t \in subscriptions[p] =>
       /\ owner[t] # p
       /\ t \in tracks \/ \E g \in Goroutine : <<p, t>> \in detach[g]

Uncrossed ==
  \A p \in Participant, t \in Track : <<p, t>> \notin crossed => InOrder(p, t)

FanoutInv ==
  /\ FanoutTypeOK
  /\ Idle
  /\ Approvals
  /\ Pairs
  /\ Published
  /\ Sending
  /\ Serving
  /\ Uncrossed

-----------------------------------------------------------------------------
(* The tracks: every step keeps every part *)

\* The steps, with the pairs of the loops taken apart.
LEMMA FanoutCases ==
  ASSUME FanoutTypeOK, [FanoutNext]_fanoutVars
  PROVE  \/ \E p \in Participant : \/ Enter(p) \/ Serve(p) \/ Remove(p)
                                 \/ Unlist(p) \/ CloseConnection(p)
         \/ \E t \in Track : \/ LookForOthers(t) \/ EndTrack(t)
                            \/ \E p \in Participant : Register(p, t)
         \/ \E q \in Moderator : \/ LetIn(q) \/ LookForTracks(q)
                                \/ \E p \in Participant : FindWaiting(q, p)
         \/ \E g \in Goroutine, p \in Participant, t \in Track :
              Attach(g, p, t) \/ Detach(g, p, t)
         \/ UNCHANGED fanoutVars
<1>1. CASE UNCHANGED fanoutVars
  BY <1>1
<1>2. ASSUME NEW g \in Goroutine, Loops(g)
      PROVE  \E p \in Participant, t \in Track :
               Attach(g, p, t) \/ Detach(g, p, t)
  <2>1. attach[g] \cup detach[g] \subseteq Participant \X Track
    BY DEF FanoutTypeOK
  <2>2. PICK w \in Participant \X Track :
               Attach(g, w[1], w[2]) \/ Detach(g, w[1], w[2])
    BY <1>2, <2>1 DEF Loops
  <2>3. w[1] \in Participant /\ w[2] \in Track
    BY <2>2
  <2>4. QED
    BY <2>2, <2>3
<1>3. QED
  BY <1>1, <1>2 DEF FanoutNext

LEMMA SendersType ==
  ASSUME NEW s \in [Participant -> [Track -> Nat]], NEW p \in Participant,
         NEW t \in Track, NEW n \in Nat
  PROVE  [s EXCEPT ![p][t] = n] \in [Participant -> [Track -> Nat]]
<1>1. [s[p] EXCEPT ![t] = n] \in [Track -> Nat]
  OBVIOUS
<1>2. [s EXCEPT ![p] = [s[p] EXCEPT ![t] = n]]
        \in [Participant -> [Track -> Nat]]
  BY <1>1
<1>3. QED
  BY <1>2

LEMMA FanoutTypeStep ==
  ASSUME FanoutTypeOK, Approvals, Sending, [FanoutNext]_fanoutVars
  PROVE  FanoutTypeOK'
<1> USE FanoutAssumption DEF Goroutine
<1>1. ASSUME NEW p \in Participant, Enter(p) PROVE FanoutTypeOK'
  <2>1. attach' \in [Goroutine -> SUBSET (Participant \X Track)]
    <3>1. CASE UNCHANGED attach
      BY <3>1 DEF FanoutTypeOK
    <3>2. CASE attach' = [attach EXCEPT ![p] = {p} \X (tracks \ TracksOf(p))]
      <4>1. {p} \X (tracks \ TracksOf(p)) \subseteq Participant \X Track
        BY DEF FanoutTypeOK
      <4>2. QED
        BY <3>2, <4>1 DEF FanoutTypeOK
    <3>3. QED
      BY <1>1, <3>1, <3>2 DEF Enter
  <2>2. /\ stage' = [stage EXCEPT ![p] = "joining"]
        /\ inLobby' \subseteq inLobby \cup {p}
        /\ UNCHANGED <<served, publications, approvals, connections, detach>>
    BY <1>1 DEF Enter
  <2>3. QED
    BY <2>1, <2>2 DEF FanoutTypeOK, publications, approvals, connections
<1>2. ASSUME NEW p \in Participant, Serve(p) PROVE FanoutTypeOK'
  BY <1>2 DEF Serve, FanoutTypeOK, publications, approvals, connections
<1>3. ASSUME NEW p \in Participant, Remove(p) PROVE FanoutTypeOK'
  BY <1>3 DEF Remove, FanoutTypeOK, publications, approvals
<1>4. ASSUME NEW p \in Participant, Unlist(p) PROVE FanoutTypeOK'
  BY <1>4 DEF Unlist, FanoutTypeOK, approvals, connections, InRoom, Present,
              Others, TracksOf
<1>5. ASSUME NEW p \in Participant, CloseConnection(p) PROVE FanoutTypeOK'
  BY <1>5 DEF CloseConnection, FanoutTypeOK, publications, approvals,
              connections
<1>6. ASSUME NEW t \in Track, LookForOthers(t) PROVE FanoutTypeOK'
  BY <1>6 DEF LookForOthers, FanoutTypeOK, members, approvals, connections,
              InRoom, Present, Others
<1>7. ASSUME NEW t \in Track, EndTrack(t) PROVE FanoutTypeOK'
  BY <1>7 DEF EndTrack, FanoutTypeOK, members, approvals, connections, InRoom
<1>8. ASSUME NEW t \in Track, NEW p \in Participant, Register(p, t)
      PROVE  FanoutTypeOK'
  BY <1>8 DEF Register, FanoutTypeOK, members, approvals, connections
<1>9. ASSUME NEW q \in Moderator, NEW p \in Participant, FindWaiting(q, p)
      PROVE  FanoutTypeOK'
  BY <1>9 DEF FindWaiting, FanoutTypeOK, members, publications, connections
<1>10. ASSUME NEW q \in Moderator, LetIn(q) PROVE FanoutTypeOK'
  BY <1>10 DEF LetIn, FanoutTypeOK, publications, connections
<1>11. ASSUME NEW q \in Moderator, LookForTracks(q) PROVE FanoutTypeOK'
  <2>1. approving[q] \in Participant
    BY <1>11 DEF LookForTracks, Approvals, FanoutTypeOK
  <2>2. {approving[q]} \X tracks \subseteq Participant \X Track
    BY <2>1 DEF FanoutTypeOK
  <2>3. attach' \in [Goroutine -> SUBSET (Participant \X Track)]
    BY <1>11, <2>2 DEF LookForTracks, FanoutTypeOK
  <2>4. QED
    BY <1>11, <2>3 DEF LookForTracks, FanoutTypeOK, members, publications,
                       connections
<1>12. ASSUME NEW g \in Goroutine, NEW p \in Participant, NEW t \in Track,
              Attach(g, p, t)
       PROVE  FanoutTypeOK'
  <2>1. attach' \in [Goroutine -> SUBSET (Participant \X Track)]
    BY <1>12 DEF Attach, FanoutTypeOK
  <2>2. CASE Open(p)
    <3>1. senders[p][t] \in Nat
      BY DEF FanoutTypeOK
    <3>2. senders' = [senders EXCEPT ![p][t] = @ + 1]
      BY <1>12, <2>2 DEF Attach
    <3>3. senders' \in [Participant -> [Track -> Nat]]
      BY <3>1, <3>2, SendersType DEF FanoutTypeOK
    <3>4. /\ subscriptions' \in [Participant -> SUBSET Track]
          /\ crossed' \subseteq Participant \X Track
      BY <1>12, <2>2 DEF Attach, FanoutTypeOK
    <3>5. QED
      BY <1>12, <2>1, <3>3, <3>4 DEF Attach, FanoutTypeOK, members,
                                     publications, approvals
  <2>3. CASE ~Open(p)
    BY <1>12, <2>1, <2>3 DEF Attach, FanoutTypeOK, members, publications,
                             approvals, connections
  <2>4. QED
    BY <2>2, <2>3
<1>13. ASSUME NEW g \in Goroutine, NEW p \in Participant, NEW t \in Track,
              Detach(g, p, t)
       PROVE  FanoutTypeOK'
  <2>1. detach' \in [Goroutine -> SUBSET (Participant \X Track)]
    BY <1>13 DEF Detach, FanoutTypeOK
  <2>2. CASE t \in subscriptions[p]
    <3>1. senders[p][t] - 1 \in Nat
      BY <2>2 DEF FanoutTypeOK, Sending
    <3>2. /\ senders' = [senders EXCEPT ![p][t] = @ - 1]
          /\ subscriptions' = [subscriptions EXCEPT ![p] = @ \ {t}]
      BY <1>13, <2>2 DEF Detach, RemoveSubscription
    <3>3. senders' \in [Participant -> [Track -> Nat]]
      BY <3>1, <3>2, SendersType DEF FanoutTypeOK
    <3>4. subscriptions' \in [Participant -> SUBSET Track]
      BY <3>2 DEF FanoutTypeOK
    <3>5. QED
      BY <1>13, <2>1, <3>3, <3>4 DEF Detach, FanoutTypeOK, members,
                                     publications, approvals
  <2>3. CASE t \notin subscriptions[p]
    BY <1>13, <2>1, <2>3 DEF Detach, RemoveSubscription, FanoutTypeOK, members,
                             publications, approvals
  <2>4. QED
    BY <2>2, <2>3
<1>14. CASE UNCHANGED fanoutVars
  BY <1>14 DEF fanoutVars, FanoutTypeOK, members, publications, approvals,
               connections
<1>15. QED
  BY <1>1, <1>2, <1>3, <1>4, <1>5, <1>6, <1>7, <1>8, <1>9, <1>10, <1>11, <1>12,
     <1>13, <1>14, FanoutCases

\* What becomes of the senders.
LEMMA SendersAt ==
  ASSUME NEW s \in [Participant -> [Track -> Nat]], NEW p \in Participant,
         NEW t \in Track, NEW n, NEW r \in Participant, NEW x \in Track
  PROVE  [s EXCEPT ![p][t] = n][r][x] = IF r = p /\ x = t THEN n ELSE s[r][x]
OBVIOUS

LEMMA AttachDoes ==
  ASSUME FanoutTypeOK, NEW g \in Goroutine, NEW p \in Participant,
         NEW t \in Track, Attach(g, p, t), Open(p),
         NEW r \in Participant, NEW x \in Track
  PROVE  /\ (x \in subscriptions'[r] <=>
               x \in subscriptions[r] \/ (r = p /\ x = t))
         /\ subscriptions'[r] \subseteq Track
         /\ senders[r][x] \in Nat
         /\ r = p /\ x = t => senders'[r][x] = senders[r][x] + 1
         /\ ~(r = p /\ x = t) => senders'[r][x] = senders[r][x]
<1>1. /\ senders' = [senders EXCEPT ![p][t] = @ + 1]
      /\ subscriptions' = [subscriptions EXCEPT ![p] = @ \cup {t}]
  BY DEF Attach
<1>2. /\ (x \in subscriptions'[r] <=>
        x \in subscriptions[r] \/ (r = p /\ x = t))
      /\ subscriptions'[r] \subseteq Track
  BY <1>1 DEF FanoutTypeOK
<1>3. /\ senders[r][x] \in Nat
      /\ r = p /\ x = t => senders'[r][x] = senders[r][x] + 1
      /\ ~(r = p /\ x = t) => senders'[r][x] = senders[r][x]
  BY <1>1, SendersAt DEF FanoutTypeOK
<1>4. QED
  BY <1>2, <1>3

LEMMA DetachDoes ==
  ASSUME FanoutTypeOK, NEW g \in Goroutine, NEW p \in Participant,
         NEW t \in Track, Detach(g, p, t),
         NEW r \in Participant, NEW x \in Track
  PROVE  /\ (x \in subscriptions'[r] <=>
               x \in subscriptions[r] /\ ~(r = p /\ x = t))
         /\ subscriptions'[r] \subseteq Track
         /\ senders[r][x] \in Nat
         /\ r = p /\ x = t /\ t \in subscriptions[p] =>
              senders'[r][x] = senders[r][x] - 1
         /\ ~(r = p /\ x = t /\ t \in subscriptions[p]) =>
              senders'[r][x] = senders[r][x]
<1>1. CASE t \in subscriptions[p]
  <2>1. /\ senders' = [senders EXCEPT ![p][t] = @ - 1]
        /\ subscriptions' = [subscriptions EXCEPT ![p] = @ \ {t}]
    BY <1>1 DEF Detach, RemoveSubscription
  <2>2. /\ (x \in subscriptions'[r] <=>
          x \in subscriptions[r] /\ ~(r = p /\ x = t))
        /\ subscriptions'[r] \subseteq Track
    BY <2>1 DEF FanoutTypeOK
  <2>3. /\ senders[r][x] \in Nat
        /\ r = p /\ x = t => senders'[r][x] = senders[r][x] - 1
        /\ ~(r = p /\ x = t) => senders'[r][x] = senders[r][x]
    BY <2>1, SendersAt DEF FanoutTypeOK
  <2>4. QED
    BY <1>1, <2>2, <2>3
<1>2. CASE t \notin subscriptions[p]
  BY <1>2 DEF Detach, RemoveSubscription, FanoutTypeOK
<1>3. QED
  BY <1>1, <1>2


LEMMA IdleStep ==
  ASSUME FanoutTypeOK, Approvals, Published, Idle, [FanoutNext]_fanoutVars
  PROVE  Idle'
<1> USE FanoutAssumption DEF Goroutine, FanoutTypeOK
<1>1. ASSUME NEW p \in Participant, Enter(p) PROVE Idle'
  BY <1>1 DEF Enter, Idle, Published, publications
<1>2. ASSUME NEW p \in Participant, Serve(p) PROVE Idle'
  BY <1>2 DEF Serve, Idle, publications
<1>3. ASSUME NEW p \in Participant, Remove(p) PROVE Idle'
  BY <1>3 DEF Remove, Idle, Open, publications
<1>4. ASSUME NEW p \in Participant, Unlist(p) PROVE Idle'
  BY <1>4 DEF Unlist, Idle
<1>5. ASSUME NEW p \in Participant, CloseConnection(p) PROVE Idle'
  BY <1>5 DEF CloseConnection, Idle, publications
<1>6. ASSUME NEW t \in Track, LookForOthers(t) PROVE Idle'
  BY <1>6 DEF LookForOthers, Idle, members
<1>7. ASSUME NEW t \in Track, EndTrack(t) PROVE Idle'
  BY <1>7 DEF EndTrack, Idle, members
<1>8. ASSUME NEW t \in Track, NEW p \in Participant, Register(p, t) PROVE Idle'
  BY <1>8 DEF Register, Idle, members
<1>9. ASSUME NEW q \in Moderator, NEW p \in Participant, FindWaiting(q, p)
      PROVE  Idle'
  BY <1>9 DEF FindWaiting, Idle, members, publications
<1>10. ASSUME NEW q \in Moderator, LetIn(q) PROVE Idle'
  BY <1>10 DEF LetIn, Idle, publications
<1>11. ASSUME NEW q \in Moderator, LookForTracks(q) PROVE Idle'
  BY <1>11 DEF LookForTracks, Idle, Approvals, members, publications
<1>12. ASSUME NEW g \in Goroutine, NEW p \in Participant, NEW t \in Track,
              Attach(g, p, t)
       PROVE  Idle'
  BY <1>12 DEF Attach, Idle, members, publications
<1>13. ASSUME NEW g \in Goroutine, NEW p \in Participant, NEW t \in Track,
              Detach(g, p, t)
       PROVE  Idle'
  BY <1>13 DEF Detach, Idle, members, publications
<1>14. CASE UNCHANGED fanoutVars
  BY <1>14 DEF fanoutVars, Idle, members, publications
<1>15. QED
  BY <1>1, <1>2, <1>3, <1>4, <1>5, <1>6, <1>7, <1>8, <1>9, <1>10, <1>11, <1>12,
     <1>13, <1>14, FanoutCases

LEMMA ApprovalsStep ==
  ASSUME FanoutTypeOK, Idle, Approvals, [FanoutNext]_fanoutVars
  PROVE  Approvals'
<1> USE FanoutAssumption DEF Goroutine, FanoutTypeOK
<1>1. ASSUME NEW p \in Participant, Enter(p) PROVE Approvals'
  BY <1>1 DEF Enter, Approvals, approvals
<1>2. ASSUME NEW p \in Participant, Serve(p) PROVE Approvals'
  BY <1>2 DEF Serve, Approvals, approvals
<1>3. ASSUME NEW p \in Participant, Remove(p) PROVE Approvals'
  BY <1>3 DEF Remove, Approvals, approvals
<1>4. ASSUME NEW p \in Participant, Unlist(p) PROVE Approvals'
  BY <1>4 DEF Unlist, Approvals, approvals
<1>5. ASSUME NEW p \in Participant, CloseConnection(p) PROVE Approvals'
  BY <1>5 DEF CloseConnection, Approvals, approvals
<1>6. ASSUME NEW t \in Track, LookForOthers(t) PROVE Approvals'
  BY <1>6 DEF LookForOthers, Approvals, members, approvals
<1>7. ASSUME NEW t \in Track, EndTrack(t) PROVE Approvals'
  BY <1>7 DEF EndTrack, Approvals, members, approvals
<1>8. ASSUME NEW t \in Track, NEW p \in Participant, Register(p, t)
      PROVE  Approvals'
  BY <1>8 DEF Register, Approvals, members, approvals
<1>9. ASSUME NEW q \in Moderator, NEW p \in Participant, FindWaiting(q, p)
      PROVE  Approvals'
  BY <1>9 DEF FindWaiting, Idle, Approvals, members
<1>10. ASSUME NEW q \in Moderator, LetIn(q) PROVE Approvals'
  BY <1>10 DEF LetIn, Approvals
<1>11. ASSUME NEW q \in Moderator, LookForTracks(q) PROVE Approvals'
  BY <1>11 DEF LookForTracks, Approvals, members
<1>12. ASSUME NEW g \in Goroutine, NEW p \in Participant, NEW t \in Track,
              Attach(g, p, t)
       PROVE  Approvals'
  BY <1>12 DEF Attach, Approvals, members, approvals
<1>13. ASSUME NEW g \in Goroutine, NEW p \in Participant, NEW t \in Track,
              Detach(g, p, t)
       PROVE  Approvals'
  BY <1>13 DEF Detach, Approvals, members, approvals
<1>14. CASE UNCHANGED fanoutVars
  BY <1>14 DEF fanoutVars, Approvals, members, approvals
<1>15. QED
  BY <1>1, <1>2, <1>3, <1>4, <1>5, <1>6, <1>7, <1>8, <1>9, <1>10, <1>11, <1>12,
     <1>13, <1>14, FanoutCases

LEMMA PublishedStep ==
  ASSUME FanoutTypeOK, Published, [FanoutNext]_fanoutVars
  PROVE  Published'
<1> USE FanoutAssumption DEF Goroutine, FanoutTypeOK
<1>1. ASSUME NEW p \in Participant, Enter(p) PROVE Published'
  BY <1>1 DEF Enter, Published, publications
<1>2. ASSUME NEW p \in Participant, Serve(p) PROVE Published'
  BY <1>2 DEF Serve, Published, publications
<1>3. ASSUME NEW p \in Participant, Remove(p) PROVE Published'
  BY <1>3 DEF Remove, Published, publications
<1>4. ASSUME NEW p \in Participant, Unlist(p) PROVE Published'
  BY <1>4 DEF Unlist, Published
<1>5. ASSUME NEW p \in Participant, CloseConnection(p) PROVE Published'
  BY <1>5 DEF CloseConnection, Published, publications
<1>6. ASSUME NEW t \in Track, LookForOthers(t) PROVE Published'
  BY <1>6 DEF LookForOthers, Published
<1>7. ASSUME NEW t \in Track, EndTrack(t) PROVE Published'
  BY <1>7 DEF EndTrack, Published
<1>8. ASSUME NEW t \in Track, NEW p \in Participant, Register(p, t)
      PROVE  Published'
  BY <1>8 DEF Register, Published
<1>9. ASSUME NEW q \in Moderator, NEW p \in Participant, FindWaiting(q, p)
      PROVE  Published'
  BY <1>9 DEF FindWaiting, Published, publications
<1>10. ASSUME NEW q \in Moderator, LetIn(q) PROVE Published'
  BY <1>10 DEF LetIn, Published, publications
<1>11. ASSUME NEW q \in Moderator, LookForTracks(q) PROVE Published'
  BY <1>11 DEF LookForTracks, Published, publications
<1>12. ASSUME NEW g \in Goroutine, NEW p \in Participant, NEW t \in Track,
              Attach(g, p, t)
       PROVE  Published'
  BY <1>12 DEF Attach, Published, publications
<1>13. ASSUME NEW g \in Goroutine, NEW p \in Participant, NEW t \in Track,
              Detach(g, p, t)
       PROVE  Published'
  BY <1>13 DEF Detach, Published, publications
<1>14. CASE UNCHANGED fanoutVars
  BY <1>14 DEF fanoutVars, Published, publications
<1>15. QED
  BY <1>1, <1>2, <1>3, <1>4, <1>5, <1>6, <1>7, <1>8, <1>9, <1>10, <1>11, <1>12,
     <1>13, <1>14, FanoutCases

LEMMA PairsStep ==
  ASSUME FanoutTypeOK, Idle, Approvals, Published, Pairs,
         [FanoutNext]_fanoutVars
  PROVE  Pairs'
<1> USE FanoutAssumption DEF Goroutine, FanoutTypeOK
<1>1. ASSUME NEW p \in Participant, Enter(p) PROVE Pairs'
  <2> SUFFICES ASSUME NEW g \in Goroutine, NEW r \in Participant,
                      NEW t \in Track
               PROVE  /\ <<r, t>> \in attach'[g] =>
                           stage'[r] # "out" /\ r \notin inLobby'
                      /\ <<r, t>> \in detach'[g] =>
                           t \notin tracks' /\ onTrack'[t] # "none"
    BY DEF Pairs
  <2>1. /\ stage[p] = "out" /\ stage' = [stage EXCEPT ![p] = "joining"]
        /\ UNCHANGED <<tracks, onTrack, detach>>
    BY <1>1 DEF Enter, publications
  <2>2. CASE UNCHANGED attach /\ inLobby' = inLobby \cup {p}
    BY <2>1, <2>2 DEF Pairs
  <2>3. CASE /\ UNCHANGED inLobby
             /\ attach' = [attach EXCEPT ![p] = {p} \X (tracks \ TracksOf(p))]
    <3>1. g = p => (<<r, t>> \in attach'[g] => r = p)
      BY <2>3
    <3>2. g # p => attach'[g] = attach[g]
      BY <2>3
    <3>3. p \notin inLobby
      BY <2>1 DEF Idle
    <3>4. QED
      BY <2>1, <2>3, <3>1, <3>2, <3>3 DEF Pairs
  <2>4. QED
    BY <1>1, <2>2, <2>3 DEF Enter
<1>2. ASSUME NEW p \in Participant, Serve(p) PROVE Pairs'
  BY <1>2 DEF Serve, Pairs, publications
<1>3. ASSUME NEW p \in Participant, Remove(p) PROVE Pairs'
  BY <1>3 DEF Remove, Pairs, publications
<1>4. ASSUME NEW p \in Participant, Unlist(p) PROVE Pairs'
  BY <1>4 DEF Unlist, Pairs, Published, TracksOf
<1>5. ASSUME NEW p \in Participant, CloseConnection(p) PROVE Pairs'
  BY <1>5 DEF CloseConnection, Pairs, publications
<1>6. ASSUME NEW t \in Track, LookForOthers(t) PROVE Pairs'
  BY <1>6 DEF LookForOthers, Pairs, Others, Present, InRoom, members
<1>7. ASSUME NEW t \in Track, EndTrack(t) PROVE Pairs'
  BY <1>7 DEF EndTrack, Pairs, members
<1>8. ASSUME NEW t \in Track, NEW p \in Participant, Register(p, t) PROVE Pairs'
  BY <1>8 DEF Register, Pairs, members
<1>9. ASSUME NEW q \in Moderator, NEW p \in Participant, FindWaiting(q, p)
      PROVE  Pairs'
  BY <1>9 DEF FindWaiting, Pairs, members, publications
<1>10. ASSUME NEW q \in Moderator, LetIn(q) PROVE Pairs'
  BY <1>10 DEF LetIn, Pairs, publications
<1>11. ASSUME NEW q \in Moderator, LookForTracks(q) PROVE Pairs'
  <2> SUFFICES ASSUME NEW g \in Goroutine, NEW r \in Participant,
                      NEW t \in Track
               PROVE  /\ <<r, t>> \in attach'[g] =>
                           stage'[r] # "out" /\ r \notin inLobby'
                      /\ <<r, t>> \in detach'[g] =>
                           t \notin tracks' /\ onTrack'[t] # "none"
    BY DEF Pairs
  <2>1. /\ q \in cleared
        /\ attach' = [attach EXCEPT ![q] = {approving[q]} \X tracks]
        /\ UNCHANGED <<stage, inLobby, tracks, onTrack, detach>>
    BY <1>11 DEF LookForTracks, members, publications
  <2>2. g = q => (<<r, t>> \in attach'[g] => r = approving[q])
    BY <2>1
  <2>3. g # q => attach'[g] = attach[g]
    BY <2>1
  <2>4. stage[approving[q]] # "out" /\ approving[q] \notin inLobby
    BY <2>1 DEF Approvals
  <2>5. QED
    BY <2>1, <2>2, <2>3, <2>4 DEF Pairs
<1>12. ASSUME NEW g \in Goroutine, NEW p \in Participant, NEW t \in Track,
              Attach(g, p, t)
       PROVE  Pairs'
  BY <1>12 DEF Attach, Pairs, members, publications
<1>13. ASSUME NEW g \in Goroutine, NEW p \in Participant, NEW t \in Track,
              Detach(g, p, t)
       PROVE  Pairs'
  BY <1>13 DEF Detach, Pairs, members, publications
<1>14. CASE UNCHANGED fanoutVars
  BY <1>14 DEF fanoutVars, Pairs, members, publications
<1>15. QED
  BY <1>1, <1>2, <1>3, <1>4, <1>5, <1>6, <1>7, <1>8, <1>9, <1>10, <1>11, <1>12,
     <1>13, <1>14, FanoutCases

LEMMA SendingStep ==
  ASSUME FanoutTypeOK, Idle, Pairs, Sending, [FanoutNext]_fanoutVars
  PROVE  Sending'
<1>1. ASSUME NEW p \in Participant, Enter(p) PROVE Sending'
  BY <1>1 DEF Enter, Sending, Open, connections
<1>2. ASSUME NEW p \in Participant, Serve(p) PROVE Sending'
  BY <1>2 DEF Serve, Sending, Open, connections
<1>3. ASSUME NEW p \in Participant, Remove(p) PROVE Sending'
  BY <1>3 DEF Remove, FanoutTypeOK, Sending, Open
<1>4. ASSUME NEW p \in Participant, Unlist(p) PROVE Sending'
  BY <1>4 DEF Unlist, Sending, Open, connections
<1>5. ASSUME NEW p \in Participant, CloseConnection(p) PROVE Sending'
  BY <1>5 DEF CloseConnection, Sending, Open, connections
<1>6. ASSUME NEW t \in Track, LookForOthers(t) PROVE Sending'
  BY <1>6 DEF LookForOthers, Sending, Open, members, connections
<1>7. ASSUME NEW t \in Track, EndTrack(t) PROVE Sending'
  BY <1>7 DEF EndTrack, Sending, Open, members, connections
<1>8. ASSUME NEW t \in Track, NEW p \in Participant, Register(p, t)
      PROVE  Sending'
  BY <1>8 DEF Register, Sending, Open, members, connections
<1>9. ASSUME NEW q \in Moderator, NEW p \in Participant, FindWaiting(q, p)
      PROVE  Sending'
  BY <1>9 DEF FindWaiting, Sending, Open, members, connections
<1>10. ASSUME NEW q \in Moderator, LetIn(q) PROVE Sending'
  BY <1>10 DEF LetIn, Sending, Open, connections
<1>11. ASSUME NEW q \in Moderator, LookForTracks(q) PROVE Sending'
  BY <1>11 DEF LookForTracks, Sending, Open, members, connections
<1>12. ASSUME NEW g \in Goroutine, NEW p \in Participant, NEW t \in Track,
              Attach(g, p, t)
       PROVE  Sending'
  <2>1. CASE Open(p)
    <3> SUFFICES ASSUME NEW r \in Participant, NEW x \in subscriptions'[r]
                 PROVE  senders'[r][x] >= 1 /\ Open(r)' /\ r \notin inLobby'
      BY DEF Sending
    <3>1. UNCHANGED <<stage, inLobby>> /\ p \notin inLobby
      BY <1>12 DEF Attach, members, Pairs
    <3>2. x \in Track
      BY <1>12, <2>1, AttachDoes
    <3>3. /\ (x \in subscriptions'[r] <=>
            x \in subscriptions[r] \/ (r = p /\ x = t))
          /\ senders[r][x] \in Nat
          /\ r = p /\ x = t => senders'[r][x] = senders[r][x] + 1
          /\ ~(r = p /\ x = t) => senders'[r][x] = senders[r][x]
      BY <1>12, <2>1, <3>2, AttachDoes
    <3>4. QED
      BY <2>1, <3>1, <3>3 DEF Sending, Open
  <2>2. CASE ~Open(p)
    BY <1>12, <2>2 DEF Attach, FanoutTypeOK, Sending, Open, members, connections
  <2>3. QED
    BY <2>1, <2>2
<1>13. ASSUME NEW g \in Goroutine, NEW p \in Participant, NEW t \in Track,
              Detach(g, p, t)
       PROVE  Sending'
  <2> SUFFICES ASSUME NEW r \in Participant, NEW x \in subscriptions'[r]
               PROVE  senders'[r][x] >= 1 /\ Open(r)' /\ r \notin inLobby'
    BY DEF Sending
  <2>1. UNCHANGED <<stage, inLobby>>
    BY <1>13 DEF Detach, members
  <2>2. x \in Track
    BY <1>13, DetachDoes
  <2>3. /\ (x \in subscriptions'[r] <=>
          x \in subscriptions[r] /\ ~(r = p /\ x = t))
        /\ senders[r][x] \in Nat
        /\ r = p /\ x = t /\ t \in subscriptions[p] =>
             senders'[r][x] = senders[r][x] - 1
        /\ ~(r = p /\ x = t /\ t \in subscriptions[p]) =>
             senders'[r][x] = senders[r][x]
    BY <1>13, <2>2, DetachDoes
  <2>4. QED
    BY <2>1, <2>3 DEF Sending, Open
<1>14. CASE UNCHANGED fanoutVars
  BY <1>14 DEF fanoutVars, Sending, Open, members, connections
<1>15. QED
  BY <1>1, <1>2, <1>3, <1>4, <1>5, <1>6, <1>7, <1>8, <1>9, <1>10, <1>11, <1>12,
     <1>13, <1>14, FanoutCases

\* What a goroutine has in hand it keeps, unless the step is about it.
LEMMA StillServed ==
  ASSUME FanoutTypeOK, Serving,
         NEW r \in Present, NEW x \in Wanted(r),
         stage[r] = "closed" => stage'[r] = "closed",
         x \in subscriptions[r] => x \in subscriptions'[r],
         \A g \in Goroutine : <<r, x>> \in attach[g] => <<r, x>> \in attach'[g],
         onTrack[x] = "registered" => onTrack'[x] = "registered",
         \A q \in cleared : approving[q] = r =>
           q \in cleared' /\ approving'[q] = r
  PROVE  Served(r, x)'
BY DEF Serving, Served, InHand

LEMMA ServingStep ==
  ASSUME FanoutTypeOK, Idle, Approvals, Pairs, Serving, [FanoutNext]_fanoutVars
  PROVE  Serving'
<1> USE FanoutAssumption
<1>1. ASSUME NEW p \in Participant, Enter(p) PROVE Serving'
  <2> SUFFICES ASSUME NEW r \in Present', NEW x \in Wanted(r)'
               PROVE  Served(r, x)'
    BY DEF Serving
  <2>1. /\ stage[p] = "out" /\ attach[p] = {}
        /\ stage' = [stage EXCEPT ![p] = "joining"]
        /\ UNCHANGED <<tracks, owner, onTrack, approving, cleared,
                       subscriptions>>
    BY <1>1 DEF Enter, Idle, publications, approvals, connections
  <2>2. CASE r # p
    <3>1. r \in Present /\ x \in Wanted(r) /\ stage'[r] = stage[r]
      BY <1>1, <2>1, <2>2 DEF Enter, Present, InRoom, Wanted, FanoutTypeOK
    <3>2. \A g \in Goroutine : <<r, x>> \in attach[g] => <<r, x>> \in attach'[g]
      BY <1>1, <2>1 DEF Enter, FanoutTypeOK
    <3>3. QED
      BY <2>1, <3>1, <3>2, StillServed
  <2>3. CASE r = p
    <3>1. attach' = [attach EXCEPT ![p] = {p} \X (tracks \ TracksOf(p))]
      BY <1>1, <2>3 DEF Enter, Present
    <3>2. x \in tracks \ TracksOf(p)
      BY <2>1, <2>3 DEF Wanted, TracksOf
    <3>3. p \in Goroutine /\ <<p, x>> \in attach'[p]
      BY <3>1, <3>2 DEF Goroutine, FanoutTypeOK
    <3>4. QED
      BY <2>3, <3>3 DEF Served, InHand
  <2>4. QED
    BY <2>2, <2>3
<1>2. ASSUME NEW p \in Participant, Serve(p) PROVE Serving'
  <2> SUFFICES ASSUME NEW r \in Present', NEW x \in Wanted(r)'
               PROVE  Served(r, x)'
    BY DEF Serving
  <2>1. /\ stage[p] = "joining" /\ stage' = [stage EXCEPT ![p] = "in"]
        /\ UNCHANGED <<inLobby, tracks, owner, onTrack, approving, cleared,
                       subscriptions, attach>>
    BY <1>2 DEF Serve, publications, approvals, connections
  <2>2. /\ r \in Present /\ x \in Wanted(r)
        /\ stage[r] = "closed" => stage'[r] = "closed"
    BY <2>1 DEF Present, InRoom, Wanted, FanoutTypeOK
  <2>3. QED
    BY <2>1, <2>2, StillServed
<1>3. ASSUME NEW p \in Participant, Remove(p) PROVE Serving'
  <2> SUFFICES ASSUME NEW r \in Present', NEW x \in Wanted(r)'
               PROVE  Served(r, x)'
    BY DEF Serving
  <2>1. /\ Open(p) /\ stage' = [stage EXCEPT ![p] = "closed"]
        /\ subscriptions' = [subscriptions EXCEPT ![p] = {}]
        /\ UNCHANGED <<inLobby, tracks, owner, onTrack, approving, cleared,
                       attach>>
    BY <1>3 DEF Remove, publications, approvals
  <2>2. r \in Present /\ x \in Wanted(r)
    BY <2>1 DEF Present, InRoom, Wanted, FanoutTypeOK, Open
  <2>3. CASE r = p
    BY <2>1, <2>2, <2>3 DEF Served, FanoutTypeOK
  <2>4. CASE r # p
    <3>1. stage'[r] = stage[r] /\ subscriptions'[r] = subscriptions[r]
      BY <2>1, <2>4 DEF FanoutTypeOK, Present, InRoom
    <3>2. QED
      BY <2>1, <2>2, <3>1, StillServed
  <2>5. QED
    BY <2>3, <2>4
<1>4. ASSUME NEW p \in Participant, Unlist(p) PROVE Serving'
  <2> SUFFICES ASSUME NEW r \in Present', NEW x \in Wanted(r)'
               PROVE  Served(r, x)'
    BY DEF Serving
  <2>1. /\ stage[p] = "closed" /\ stage' = [stage EXCEPT ![p] = "unlinked"]
        /\ tracks' \subseteq tracks
        /\ UNCHANGED <<inLobby, owner, onTrack, approving, cleared,
                       subscriptions, attach>>
    BY <1>4 DEF Unlist, approvals, connections
  <2>2. r \in Present /\ x \in Wanted(r) /\ stage'[r] = stage[r]
    BY <2>1 DEF Present, InRoom, Wanted, FanoutTypeOK
  <2>3. QED
    BY <2>1, <2>2, StillServed
<1>5. ASSUME NEW p \in Participant, CloseConnection(p) PROVE Serving'
  <2> SUFFICES ASSUME NEW r \in Present', NEW x \in Wanted(r)'
               PROVE  Served(r, x)'
    BY DEF Serving
  <2>1. /\ stage[p] = "unlinked" /\ stage' = [stage EXCEPT ![p] = "gone"]
        /\ UNCHANGED <<inLobby, tracks, owner, onTrack, approving, cleared,
                       subscriptions, attach>>
    BY <1>5 DEF CloseConnection, publications, approvals, connections
  <2>2. r \in Present /\ x \in Wanted(r) /\ stage'[r] = stage[r]
    BY <2>1 DEF Present, InRoom, Wanted, FanoutTypeOK
  <2>3. QED
    BY <2>1, <2>2, StillServed
<1>6. ASSUME NEW t \in Track, LookForOthers(t) PROVE Serving'
  <2> SUFFICES ASSUME NEW r \in Present', NEW x \in Wanted(r)'
               PROVE  Served(r, x)'
    BY DEF Serving
  <2>1. /\ onTrack[t] = "registered" /\ attach[t] = {}
        /\ onTrack' = [onTrack EXCEPT ![t] = "serving"]
        /\ attach' = [attach EXCEPT ![t] = Others(owner[t]) \X {t}]
        /\ UNCHANGED <<stage, inLobby, tracks, owner, approving, cleared,
                       subscriptions>>
    BY <1>6 DEF LookForOthers, Idle, members, approvals, connections
  <2>2. r \in Present /\ x \in Wanted(r)
    BY <2>1 DEF Present, InRoom, Wanted
  <2>3. CASE x = t
    <3>1. r \in Others(owner[t])
      BY <2>2, <2>3 DEF Others, Wanted
    <3>2. t \in Goroutine /\ <<r, x>> \in attach'[t]
      BY <2>1, <2>3, <3>1 DEF Goroutine, FanoutTypeOK
    <3>3. QED
      BY <3>2 DEF Served, InHand
  <2>4. CASE x # t
    <3>1. onTrack'[x] = onTrack[x]
      BY <2>1, <2>2, <2>4 DEF FanoutTypeOK, Wanted
    <3>2. \A g \in Goroutine : <<r, x>> \in attach[g] => <<r, x>> \in attach'[g]
      BY <2>1 DEF FanoutTypeOK
    <3>3. QED
      BY <2>1, <2>2, <3>1, <3>2, StillServed
  <2>5. QED
    BY <2>3, <2>4
<1>7. ASSUME NEW t \in Track, EndTrack(t) PROVE Serving'
  <2> SUFFICES ASSUME NEW r \in Present', NEW x \in Wanted(r)'
               PROVE  Served(r, x)'
    BY DEF Serving
  <2>1. /\ onTrack' = [onTrack EXCEPT ![t] = "ended"] /\ tracks' = tracks \ {t}
        /\ UNCHANGED <<stage, inLobby, owner, approving, cleared,
                       subscriptions, attach>>
    BY <1>7 DEF EndTrack, members, approvals, connections
  <2>2. r \in Present /\ x \in Wanted(r) /\ x # t
    BY <2>1 DEF Present, InRoom, Wanted
  <2>3. onTrack'[x] = onTrack[x]
    BY <2>1, <2>2 DEF FanoutTypeOK, Wanted
  <2>4. QED
    BY <2>1, <2>2, <2>3, StillServed
<1>8. ASSUME NEW t \in Track, NEW p \in Participant, Register(p, t)
      PROVE  Serving'
  <2> SUFFICES ASSUME NEW r \in Present', NEW x \in Wanted(r)'
               PROVE  Served(r, x)'
    BY DEF Serving
  <2>1. /\ onTrack' = [onTrack EXCEPT ![t] = "registered"]
        /\ owner' = [owner EXCEPT ![t] = p] /\ tracks' = tracks \cup {t}
        /\ UNCHANGED <<stage, inLobby, approving, cleared, subscriptions,
                       attach>>
    BY <1>8 DEF Register, members, approvals, connections
  <2>2. CASE x = t
    BY <2>1, <2>2 DEF Served, InHand, FanoutTypeOK
  <2>3. CASE x # t
    <3>1. r \in Present /\ x \in Wanted(r) /\ onTrack'[x] = onTrack[x]
      BY <2>1, <2>3 DEF Present, InRoom, Wanted, FanoutTypeOK
    <3>2. QED
      BY <2>1, <3>1, StillServed
  <2>4. QED
    BY <2>2, <2>3
<1>9. ASSUME NEW q \in Moderator, NEW p \in Participant, FindWaiting(q, p)
      PROVE  Serving'
  <2> SUFFICES ASSUME NEW r \in Present', NEW x \in Wanted(r)'
               PROVE  Served(r, x)'
    BY DEF Serving
  <2>1. /\ approving[q] = Nobody /\ approving' = [approving EXCEPT ![q] = p]
        /\ UNCHANGED <<stage, inLobby, tracks, owner, onTrack, cleared,
                       subscriptions, attach>>
    BY <1>9 DEF FindWaiting, members, publications, connections
  <2>2. r \in Present /\ x \in Wanted(r)
    BY <2>1 DEF Present, InRoom, Wanted
  <2>3. q \notin cleared
    BY <2>1 DEF Approvals
  <2>4. \A w \in cleared : approving'[w] = approving[w]
    BY <2>1, <2>3 DEF FanoutTypeOK
  <2>5. QED
    BY <2>1, <2>2, <2>4, StillServed
<1>10. ASSUME NEW q \in Moderator, LetIn(q) PROVE Serving'
  <2> SUFFICES ASSUME NEW r \in Present', NEW x \in Wanted(r)'
               PROVE  Served(r, x)'
    BY DEF Serving
  <2>1. /\ approving[q] # Nobody /\ cleared' = cleared \cup {q}
        /\ inLobby' = inLobby \ {approving[q]}
        /\ UNCHANGED <<stage, tracks, owner, onTrack, approving, subscriptions,
                       attach>>
    BY <1>10 DEF LetIn, publications, connections
  <2>2. CASE r = approving[q]
    BY <2>1, <2>2 DEF Served, InHand
  <2>3. CASE r # approving[q]
    <3>1. r \in Present /\ x \in Wanted(r)
      BY <2>1, <2>3 DEF Present, InRoom, Wanted
    <3>2. QED
      BY <2>1, <3>1, StillServed
  <2>4. QED
    BY <2>2, <2>3
<1>11. ASSUME NEW q \in Moderator, LookForTracks(q) PROVE Serving'
  <2> SUFFICES ASSUME NEW r \in Present', NEW x \in Wanted(r)'
               PROVE  Served(r, x)'
    BY DEF Serving
  <2>1. /\ q \in cleared /\ cleared' = cleared \ {q}
        /\ approving' = [approving EXCEPT ![q] = Nobody]
        /\ attach' = [attach EXCEPT ![q] = {approving[q]} \X tracks]
        /\ UNCHANGED <<stage, inLobby, tracks, owner, onTrack, subscriptions>>
    BY <1>11 DEF LookForTracks, members, publications, connections
  <2>2. r \in Present /\ x \in Wanted(r)
    BY <2>1 DEF Present, InRoom, Wanted
  <2>3. CASE r = approving[q]
    <3>1. q \in Goroutine /\ x \in tracks
      BY <2>2 DEF Goroutine, Wanted
    <3>2. <<r, x>> \in attach'[q]
      BY <2>1, <2>3, <3>1 DEF FanoutTypeOK
    <3>3. QED
      BY <3>1, <3>2 DEF Served, InHand
  <2>4. CASE r # approving[q]
    <3>1. attach[q] = {}
      BY <2>1 DEF Approvals
    <3>2. \A g \in Goroutine : <<r, x>> \in attach[g] => <<r, x>> \in attach'[g]
      BY <2>1, <3>1 DEF FanoutTypeOK
    <3>3. \A w \in cleared : approving[w] = r =>
            w \in cleared' /\ approving'[w] = r
      BY <2>1, <2>4 DEF FanoutTypeOK
    <3>4. QED
      BY <2>1, <2>2, <3>2, <3>3, StillServed
  <2>5. QED
    BY <2>3, <2>4
<1>12. ASSUME NEW g \in Goroutine, NEW p \in Participant, NEW t \in Track,
              Attach(g, p, t)
       PROVE  Serving'
  <2> SUFFICES ASSUME NEW r \in Present', NEW x \in Wanted(r)'
               PROVE  Served(r, x)'
    BY DEF Serving
  <2>1. /\ attach' = [attach EXCEPT ![g] = @ \ {<<p, t>>}]
        /\ UNCHANGED <<stage, inLobby, tracks, owner, onTrack, approving,
                       cleared>>
    BY <1>12 DEF Attach, members, publications, approvals
  <2>2. r \in Present /\ x \in Wanted(r) /\ r \in Participant /\ x \in Track
    BY <2>1 DEF Present, InRoom, Wanted, FanoutTypeOK
  <2>3. ASSUME Open(p)
        PROVE  x \in subscriptions'[r] <=>
                 (x \in subscriptions[r] \/ (r = p /\ x = t))
    BY <1>12, <2>2, <2>3, AttachDoes
  <2>4. ASSUME ~Open(p) PROVE subscriptions' = subscriptions
    BY <1>12, <2>4 DEF Attach, connections
  <2>5. CASE r = p /\ x = t
    BY <2>1, <2>2, <2>3, <2>5 DEF Served, Present, InRoom, Open
  <2>6. CASE ~(r = p /\ x = t)
    <3>1. \A h \in Goroutine : <<r, x>> \in attach[h] => <<r, x>> \in attach'[h]
      BY <2>1, <2>6 DEF FanoutTypeOK
    <3>2. x \in subscriptions[r] => x \in subscriptions'[r]
      BY <2>3, <2>4
    <3>3. QED
      BY <2>1, <2>2, <3>1, <3>2, StillServed
  <2>7. QED
    BY <2>5, <2>6
<1>13. ASSUME NEW g \in Goroutine, NEW p \in Participant, NEW t \in Track,
              Detach(g, p, t)
       PROVE  Serving'
  <2> SUFFICES ASSUME NEW r \in Present', NEW x \in Wanted(r)'
               PROVE  Served(r, x)'
    BY DEF Serving
  <2>1. UNCHANGED <<stage, inLobby, tracks, owner, onTrack, approving, cleared,
                    attach>>
    BY <1>13 DEF Detach, members, publications, approvals
  <2>2. r \in Present /\ x \in Wanted(r) /\ r \in Participant /\ x \in Track
    BY <2>1 DEF Present, InRoom, Wanted, FanoutTypeOK
  <2>3. x # t
    BY <1>13, <2>2 DEF Detach, Pairs, Wanted
  <2>4. x \in subscriptions'[r] <=> x \in subscriptions[r]
    BY <1>13, <2>2, <2>3, DetachDoes
  <2>5. QED
    BY <2>1, <2>2, <2>4, StillServed
<1>14. CASE UNCHANGED fanoutVars
  BY <1>14 DEF fanoutVars, Serving, Served, InHand, Wanted, Present, InRoom,
               members, publications, approvals, connections
<1>15. QED
  BY <1>1, <1>2, <1>3, <1>4, <1>5, <1>6, <1>7, <1>8, <1>9, <1>10, <1>11, <1>12,
     <1>13, <1>14, FanoutCases

\* A sender in order stays so if its track stays, or is to be taken away.
LEMMA StillInOrder ==
  ASSUME NEW r \in Participant, NEW x \in Track, InOrder(r, x),
         senders'[r][x] = senders[r][x],
         x \in subscriptions'[r] <=> x \in subscriptions[r],
         x \in subscriptions[r] => owner'[x] = owner[x],
         x \in subscriptions[r] /\ x \in tracks =>
           x \in tracks' \/ \E g \in Goroutine : <<r, x>> \in detach'[g],
         \A g \in Goroutine : <<r, x>> \in detach[g] => <<r, x>> \in detach'[g]
  PROVE  InOrder(r, x)'
<1>1. senders'[r][x] = IF x \in subscriptions'[r] THEN 1 ELSE 0
  BY DEF InOrder
<1>2. ASSUME x \in subscriptions'[r] PROVE owner'[x] # r
  BY <1>2 DEF InOrder
<1>3. ASSUME x \in subscriptions'[r]
      PROVE  x \in tracks' \/ \E g \in Goroutine : <<r, x>> \in detach'[g]
  BY <1>3 DEF InOrder
<1>4. QED
  BY <1>1, <1>2, <1>3 DEF InOrder


LEMMA UncrossedKept ==
  ASSUME Uncrossed, UNCHANGED <<senders, subscriptions, crossed, tracks, owner,
                                detach>>
  PROVE  Uncrossed'
BY DEF Uncrossed, InOrder

LEMMA UncrossedStep ==
  ASSUME FanoutTypeOK, Idle, Pairs, Published, Sending, Uncrossed,
         [FanoutNext]_fanoutVars
  PROVE  Uncrossed'
<1>1. ASSUME NEW p \in Participant, Enter(p) PROVE Uncrossed'
  BY <1>1, UncrossedKept DEF Enter, publications, connections
<1>2. ASSUME NEW p \in Participant, Serve(p) PROVE Uncrossed'
  BY <1>2, UncrossedKept DEF Serve, publications, connections
<1>3. ASSUME NEW p \in Participant, Remove(p) PROVE Uncrossed'
  <2> SUFFICES ASSUME NEW r \in Participant, NEW x \in Track,
                      <<r, x>> \notin crossed'
               PROVE  InOrder(r, x)'
    BY DEF Uncrossed
  <2>1. /\ stage' = [stage EXCEPT ![p] = "closed"]
        /\ senders' = [senders EXCEPT ![p] = [y \in Track |-> 0]]
        /\ subscriptions' = [subscriptions EXCEPT ![p] = {}]
        /\ UNCHANGED <<crossed, tracks, owner, detach>>
    BY <1>3 DEF Remove, publications
  <2>2. CASE r = p
    BY <2>1, <2>2 DEF InOrder, FanoutTypeOK
  <2>3. CASE r # p
    <3>1. InOrder(r, x)
      BY <2>1 DEF Uncrossed
    <3>2. senders'[r] = senders[r] /\ subscriptions'[r] = subscriptions[r]
      BY <2>1, <2>3 DEF FanoutTypeOK
    <3>3. QED
      BY <2>1, <3>1, <3>2, StillInOrder
  <2>4. QED
    BY <2>2, <2>3
<1>4. ASSUME NEW p \in Participant, Unlist(p) PROVE Uncrossed'
  <2> SUFFICES ASSUME NEW r \in Participant, NEW x \in Track,
                      <<r, x>> \notin crossed'
               PROVE  InOrder(r, x)'
    BY DEF Uncrossed
  <2>1. /\ stage[p] = "closed" /\ detach[p] = {}
        /\ tracks' = tracks \ TracksOf(p)
        /\ detach' = [detach EXCEPT ![p] = Others(p) \X TracksOf(p)]
        /\ UNCHANGED <<senders, subscriptions, crossed, owner>>
    BY <1>4 DEF Unlist, Idle, connections
  <2>2. InOrder(r, x)
    BY <2>1 DEF Uncrossed
  <2>3. \A h \in Goroutine : <<r, x>> \in detach[h] => <<r, x>> \in detach'[h]
    BY <2>1 DEF FanoutTypeOK
  <2>4. ASSUME x \in subscriptions[r], x \in TracksOf(p)
        PROVE  p \in Goroutine /\ <<r, x>> \in detach'[p]
    <3>1. r # p
      BY <2>2, <2>4 DEF InOrder, TracksOf
    <3>2. r \in Others(p)
      BY <2>4, <3>1 DEF Sending, Open, InRoom, Present, Others
    <3>3. p \in Goroutine
      BY DEF Goroutine
    <3>4. QED
      BY <2>1, <2>4, <3>2, <3>3 DEF FanoutTypeOK
  <2>5. x \in subscriptions[r] /\ x \in tracks =>
          x \in tracks' \/ \E h \in Goroutine : <<r, x>> \in detach'[h]
    BY <2>1, <2>4
  <2>6. QED
    BY <2>1, <2>2, <2>3, <2>5, StillInOrder
<1>5. ASSUME NEW p \in Participant, CloseConnection(p) PROVE Uncrossed'
  BY <1>5, UncrossedKept DEF CloseConnection, publications, connections
<1>6. ASSUME NEW t \in Track, LookForOthers(t) PROVE Uncrossed'
  BY <1>6, UncrossedKept DEF LookForOthers, publications, connections
<1>7. ASSUME NEW t \in Track, EndTrack(t) PROVE Uncrossed'
  <2> SUFFICES ASSUME NEW r \in Participant, NEW x \in Track,
                      <<r, x>> \notin crossed'
               PROVE  InOrder(r, x)'
    BY DEF Uncrossed
  <2>1. /\ tracks' = tracks \ {t} /\ detach[t] = {}
        /\ detach' = IF t \in tracks THEN [detach EXCEPT ![t] = InRoom \X {t}]
                     ELSE detach
        /\ UNCHANGED <<senders, subscriptions, crossed, owner>>
    BY <1>7 DEF EndTrack, Idle, connections
  <2>2. InOrder(r, x)
    BY <2>1 DEF Uncrossed
  <2>3. \A h \in Goroutine : <<r, x>> \in detach[h] => <<r, x>> \in detach'[h]
    BY <2>1 DEF FanoutTypeOK
  <2>4. ASSUME x \in subscriptions[r], x \in tracks, x = t
        PROVE  t \in Goroutine /\ <<r, x>> \in detach'[t]
    <3>1. r \in InRoom
      BY <2>4 DEF Sending, Open, InRoom
    <3>2. t \in Goroutine
      BY DEF Goroutine
    <3>3. detach' = [detach EXCEPT ![t] = InRoom \X {t}]
      BY <2>1, <2>4
    <3>4. QED
      BY <2>4, <3>1, <3>2, <3>3 DEF FanoutTypeOK
  <2>5. x \in subscriptions[r] /\ x \in tracks =>
          x \in tracks' \/ \E h \in Goroutine : <<r, x>> \in detach'[h]
    BY <2>1, <2>4
  <2>6. QED
    BY <2>1, <2>2, <2>3, <2>5, StillInOrder
<1>8. ASSUME NEW t \in Track, NEW p \in Participant, Register(p, t)
      PROVE  Uncrossed'
  <2> SUFFICES ASSUME NEW r \in Participant, NEW x \in Track,
                      <<r, x>> \notin crossed'
               PROVE  InOrder(r, x)'
    BY DEF Uncrossed
  <2>1. /\ onTrack[t] = "none" /\ owner' = [owner EXCEPT ![t] = p]
        /\ tracks' = tracks \cup {t}
        /\ UNCHANGED <<senders, subscriptions, crossed, detach>>
    BY <1>8 DEF Register, connections
  <2>2. InOrder(r, x)
    BY <2>1 DEF Uncrossed
  <2>3. x \in subscriptions[r] => x # t
    BY <2>1, <2>2 DEF InOrder, Published, Pairs
  <2>4. x \in subscriptions[r] => owner'[x] = owner[x]
    BY <2>1, <2>3 DEF FanoutTypeOK
  <2>5. QED
    BY <2>1, <2>2, <2>4, StillInOrder
<1>9. ASSUME NEW q \in Moderator, NEW p \in Participant, FindWaiting(q, p)
      PROVE  Uncrossed'
  BY <1>9, UncrossedKept DEF FindWaiting, publications, connections
<1>10. ASSUME NEW q \in Moderator, LetIn(q) PROVE Uncrossed'
  BY <1>10, UncrossedKept DEF LetIn, publications, connections
<1>11. ASSUME NEW q \in Moderator, LookForTracks(q) PROVE Uncrossed'
  BY <1>11, UncrossedKept DEF LookForTracks, publications, connections
<1>12. ASSUME NEW g \in Goroutine, NEW p \in Participant, NEW t \in Track,
              Attach(g, p, t)
       PROVE  Uncrossed'
  <2>1. UNCHANGED <<tracks, owner, detach>>
    BY <1>12 DEF Attach, publications
  <2>2. CASE ~Open(p)
    BY <1>12, <2>1, <2>2, UncrossedKept DEF Attach, connections
  <2>3. CASE Open(p)
    <3> SUFFICES ASSUME NEW r \in Participant, NEW x \in Track,
                        <<r, x>> \notin crossed'
                 PROVE  InOrder(r, x)'
      BY DEF Uncrossed
    <3>1. crossed' = IF senders[p][t] = 0 /\ t \in tracks /\ owner[t] # p
                     THEN crossed ELSE crossed \cup {<<p, t>>}
      BY <1>12, <2>3 DEF Attach
    <3>2. /\ x \in subscriptions'[r] <=>
            x \in subscriptions[r] \/ (r = p /\ x = t)
          /\ senders[r][x] \in Nat
          /\ r = p /\ x = t => senders'[r][x] = senders[r][x] + 1
          /\ ~(r = p /\ x = t) => senders'[r][x] = senders[r][x]
      BY <1>12, <2>3, AttachDoes
    <3>3. CASE r = p /\ x = t
      <4>1. senders[p][t] = 0 /\ t \in tracks /\ owner[t] # p
        BY <3>1, <3>3
      <4>2. senders'[r][x] = 1 /\ x \in subscriptions'[r]
        BY <3>2, <3>3, <4>1
      <4>3. QED
        BY <2>1, <3>3, <4>1, <4>2 DEF InOrder
    <3>4. CASE ~(r = p /\ x = t)
      <4>1. InOrder(r, x)
        BY <3>1 DEF Uncrossed
      <4>2. QED
        BY <2>1, <3>2, <3>4, <4>1, StillInOrder
    <3>5. QED
      BY <3>3, <3>4
  <2>4. QED
    BY <2>2, <2>3
<1>13. ASSUME NEW g \in Goroutine, NEW p \in Participant, NEW t \in Track,
              Detach(g, p, t)
       PROVE  Uncrossed'
  <2> SUFFICES ASSUME NEW r \in Participant, NEW x \in Track,
                      <<r, x>> \notin crossed'
               PROVE  InOrder(r, x)'
    BY DEF Uncrossed
  <2>1. /\ detach' = [detach EXCEPT ![g] = @ \ {<<p, t>>}]
        /\ UNCHANGED <<tracks, owner, crossed>>
    BY <1>13 DEF Detach, publications
  <2>2. InOrder(r, x)
    BY <2>1 DEF Uncrossed
  <2>3. /\ x \in subscriptions'[r] <=>
          (x \in subscriptions[r] /\ ~(r = p /\ x = t))
        /\ senders[r][x] \in Nat
        /\ r = p /\ x = t /\ t \in subscriptions[p] =>
             senders'[r][x] = senders[r][x] - 1
        /\ ~(r = p /\ x = t /\ t \in subscriptions[p]) =>
             senders'[r][x] = senders[r][x]
    BY <1>13, DetachDoes
  <2>4. CASE r = p /\ x = t
    <3>1. x \notin subscriptions'[r]
      BY <2>3, <2>4
    <3>2. senders[r][x] = IF x \in subscriptions[r] THEN 1 ELSE 0
      BY <2>2 DEF InOrder
    <3>3. senders'[r][x] = 0
      BY <2>3, <2>4, <3>2
    <3>4. QED
      BY <3>1, <3>3 DEF InOrder
  <2>5. CASE ~(r = p /\ x = t)
    <3>1. \A h \in Goroutine : <<r, x>> \in detach[h] => <<r, x>> \in detach'[h]
      BY <2>1, <2>5 DEF FanoutTypeOK
    <3>2. QED
      BY <2>1, <2>2, <2>3, <2>5, <3>1, StillInOrder
  <2>6. QED
    BY <2>4, <2>5
<1>14. CASE UNCHANGED fanoutVars
  BY <1>14, UncrossedKept DEF fanoutVars, publications, connections
<1>15. QED
  BY <1>1, <1>2, <1>3, <1>4, <1>5, <1>6, <1>7, <1>8, <1>9, <1>10, <1>11, <1>12,
     <1>13, <1>14, FanoutCases

-----------------------------------------------------------------------------
(* The tracks: the theorems *)

LEMMA FanoutInvInit == FanoutInit => FanoutInv
<1> SUFFICES ASSUME FanoutInit PROVE FanoutInv
  OBVIOUS
<1> USE FanoutAssumption DEF FanoutInit, Goroutine
<1>1. FanoutTypeOK
  BY DEF FanoutTypeOK
<1>2. Idle /\ Approvals /\ Published
  BY DEF Idle, Approvals, Published
<1>3. Pairs /\ Sending
  BY DEF Pairs, Sending
<1>4. Serving
  BY DEF Serving, Wanted
<1>5. Uncrossed
  BY DEF Uncrossed, InOrder
<1>6. QED
  BY <1>1, <1>2, <1>3, <1>4, <1>5 DEF FanoutInv

LEMMA FanoutInvStep == FanoutInv /\ [FanoutNext]_fanoutVars => FanoutInv'
BY FanoutTypeStep, IdleStep, ApprovalsStep, PublishedStep, PairsStep,
   SendingStep, ServingStep, UncrossedStep DEF FanoutInv

LEMMA FanoutInvariance == FanoutSpec => []FanoutInv
BY FanoutInvInit, FanoutInvStep, PTL DEF FanoutSpec

\* Every set of work names peers and tracks, and no connection has less than
\* no sender of a track, though removeSubscription looks only at the entry.
THEOREM FanoutTypeCorrect == FanoutSpec => []FanoutTypeOK
<1>1. FanoutInv => FanoutTypeOK
  BY DEF FanoutInv
<1>2. QED
  BY <1>1, FanoutInvariance, PTL

\* With nothing left to do for any goroutine, whoever is in the room is sent
\* every track of the others.
THEOREM NobodyMissed == FanoutSpec => []EveryoneServed
<1>1. FanoutInv => EveryoneServed
  <2> SUFFICES ASSUME FanoutInv, AtRest, NEW p \in Present, NEW t \in Wanted(p)
               PROVE  t \in subscriptions[p]
    BY DEF EveryoneServed
  <2>1. p \in Participant /\ t \in Track /\ stage[p] # "closed"
    BY DEF FanoutInv, FanoutTypeOK, AtRest, Present, InRoom, Wanted
  <2>2. ~InHand(p, t)
    BY <2>1 DEF AtRest, InHand
  <2>3. QED
    BY <2>1, <2>2 DEF FanoutInv, Serving, Served
<1>2. QED
  BY <1>1, FanoutInvariance, PTL

\* With nothing left to do, whoever is in the room has one sender of a track
\* it wants and none of any other, unless it was given that track crosswise.
THEOREM NothingStays == FanoutSpec => []NothingLeft
<1>1. FanoutInv => NothingLeft
  <2> SUFFICES ASSUME FanoutInv, AtRest, NEW p \in Present, NEW t \in Track,
                      <<p, t>> \notin crossed
               PROVE  senders[p][t] = IF t \in Wanted(p) THEN 1 ELSE 0
    BY DEF NothingLeft
  <2>1. p \in Participant /\ stage[p] # "closed"
    BY DEF AtRest, Present, InRoom
  <2>2. InOrder(p, t)
    BY <2>1 DEF FanoutInv, Uncrossed
  <2>3. t \in Wanted(p) => t \in subscriptions[p]
    BY <2>1 DEF AtRest, FanoutInv, Serving, Served, InHand
  <2>4. t \in subscriptions[p] => t \in Wanted(p)
    BY <2>2 DEF AtRest, InOrder, Wanted
  <2>5. QED
    BY <2>2, <2>3, <2>4 DEF InOrder
<1>2. QED
  BY <1>1, FanoutInvariance, PTL
=============================================================================
