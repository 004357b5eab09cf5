------------------------------- MODULE Breakout ------------------------------
(***************************************************************************)
(* Breakout rooms: BreakoutManager (server/src/breakout/manager.ts) under  *)
(* the handlers of server/src/index.ts that call it.  Its state is in the  *)
(* memory of one Node process, so each handler's call of the manager is    *)
(* one step; what the handlers read from the database before it (the owner *)
(* of a meeting, a membership) never stops being true.                     *)
(***************************************************************************)
EXTENDS FiniteSets

CONSTANTS
  User, Meeting, BreakoutId,
  Owner,      \* Owner[m]: the owner of a meeting
  Repeating,  \* the random ids of breakout rooms that may come up again
  None

ASSUME ConstantsAssumption ==
  /\ Owner \in [Meeting -> User]
  /\ Repeating \subseteq BreakoutId
  /\ None \notin Meeting

VARIABLES
  members,       \* room_members: the users of each meeting
  parent,        \* parentRoomId of each room, None when there is no room
  participants,  \* the users in each room
  used,          \* ids given out so far
  granted        \* unexpired room access tokens for breakout rooms

managerVars == <<parent, participants>>
vars == <<members, managerVars, used, granted>>

Rooms == {i \in BreakoutId : parent[i] # None}

TypeOK ==
  /\ members \in [Meeting -> SUBSET User]
  /\ parent \in [BreakoutId -> Meeting \cup {None}]
  /\ participants \in [BreakoutId -> SUBSET User]
  /\ used \in SUBSET BreakoutId
  /\ granted \in SUBSET (User \X BreakoutId)

Init ==
  /\ members = [m \in Meeting |-> {Owner[m]}]
  /\ parent = [i \in BreakoutId |-> None]
  /\ participants = [i \in BreakoutId |-> {}]
  /\ used = {}
  /\ granted = {}

-----------------------------------------------------------------------------
(* BreakoutManager *)

HasAny(m, i) == parent[i] # None   \* mutant: any meeting's room will do

\* this.rooms.get(id), of this meeting.
Has(m, i) == parent[i] = m

AssignedToo(u, i) ==   \* mutant: the user is not taken out of the other rooms
  [participants EXCEPT ![i] = @ \cup {u}]

\* assign takes the user out of every room there is, then puts it into i.
Assigned(u, i) ==
  [j \in BreakoutId |-> IF j = i THEN participants[j] \cup {u}
                        ELSE participants[j] \ {u}]

-----------------------------------------------------------------------------
(* The handlers *)

\* POST access: a user becomes a member of a meeting.
Access(u, m) ==
  /\ members' = [members EXCEPT ![m] = @ \cup {u}]
  /\ UNCHANGED <<managerVars, used, granted>>

CreateKeeping(m, i) ==   \* mutant: the room there is under the id is renamed
  /\ i \in used => i \in Repeating
  /\ used' = used \cup {i}
  /\ parent' = [parent EXCEPT ![i] = m]
  /\ UNCHANGED <<members, participants, granted>>

\* POST breakouts: a random id is not checked against the rooms there are.
Create(m, i) ==
  /\ i \in used => i \in Repeating
  /\ used' = used \cup {i}
  /\ parent' = [parent EXCEPT ![i] = m]
  /\ participants' = [participants EXCEPT ![i] = {}]
  /\ UNCHANGED <<members, granted>>

Delete(m, i) ==
  /\ Has(m, i)
  /\ parent' = [parent EXCEPT ![i] = None]
  /\ participants' = [participants EXCEPT ![i] = {}]
  /\ UNCHANGED <<members, used, granted>>

\* POST assign, by the owner of the meeting for one of its members.
Assign(m, i, u) ==
  /\ u \in members[m]
  /\ Has(m, i)
  /\ participants' = Assigned(u, i)
  /\ UNCHANGED <<members, parent, used, granted>>

JoinSwapped(m, i, u) ==   \* mutant: the token names the user as the room
  /\ u \in members[m]
  /\ Has(m, i)
  /\ participants' = Assigned(u, i)
  /\ granted' = granted \cup {<<i, u>>}
  /\ UNCHANGED <<members, parent, used>>

\* POST join, by a member: it is assigned, whoever it was assigned to before,
\* and gets a token for the SFU room of that id.
Join(m, i, u) ==
  /\ u \in members[m]
  /\ Has(m, i)
  /\ participants' = Assigned(u, i)
  /\ granted' = granted \cup {<<u, i>>}
  /\ UNCHANGED <<members, parent, used>>

\* DELETE participants, by the owner.
Remove(m, i, u) ==
  /\ Has(m, i)
  /\ u \in participants[i]
  /\ participants' = [participants EXCEPT ![i] = @ \ {u}]
  /\ UNCHANGED <<members, parent, used, granted>>

Expire(t) ==
  /\ granted' = granted \ {t}
  /\ UNCHANGED <<members, managerVars, used>>

\* The process restarts: the rooms are gone, the database and the tokens stay.
Restart ==
  /\ parent' = [i \in BreakoutId |-> None]
  /\ participants' = [i \in BreakoutId |-> {}]
  /\ UNCHANGED <<members, used, granted>>

Next ==
  \/ \E m \in Meeting, u \in User : Access(u, m)
  \/ \E m \in Meeting, i \in BreakoutId : Create(m, i) \/ Delete(m, i)
  \/ \E m \in Meeting, i \in BreakoutId, u \in User :
       Assign(m, i, u) \/ Join(m, i, u) \/ Remove(m, i, u)
  \/ \E t \in granted : Expire(t)
  \/ Restart

Spec == Init /\ [][Next]_vars

-----------------------------------------------------------------------------
(* Properties *)

\* Everybody in a breakout room is a member of the meeting the room belongs
\* to, and a room that does not exist holds nobody: an id deleted, or given to
\* another meeting, brings no participant along.
MembersOnly ==
  \A i \in BreakoutId :
    IF parent[i] = None THEN participants[i] = {}
    ELSE participants[i] \subseteq members[parent[i]]

\* Unless its id came up again, a token for a breakout room opens a room of a
\* meeting its user belongs to, through deletions and restarts.
TokenWithinMeeting ==
  \A t \in granted :
    t[2] \notin Repeating /\ parent[t[2]] # None =>
      t[1] \in members[parent[t[2]]]

\* The manager implements the abstract assignment of users to rooms.
Where == [u \in User |-> {i \in BreakoutId : u \in participants[i]}]

A == INSTANCE Assignment WITH exists <- Rooms, where <- Where

AssignmentSpec == A!Spec

\* A user is in at most one breakout room at any moment.
OneRoomEach ==
  \A u \in User, i, j \in BreakoutId :
    u \in participants[i] /\ u \in participants[j] => i = j
=============================================================================
