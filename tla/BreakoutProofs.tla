---------------------------- MODULE BreakoutProofs ---------------------------
(***************************************************************************)
(* Theorems about Breakout, for every set of users, meetings and ids.      *)
(***************************************************************************)
EXTENDS Breakout, TLAPS

\* The state is of the right shape in every behaviour of the handlers.
THEOREM TypeCorrect == Spec => []TypeOK
<1>1. Init => TypeOK
  BY ConstantsAssumption DEF Init, TypeOK
<1>2. TypeOK /\ [Next]_vars => TypeOK'
  <2> SUFFICES ASSUME TypeOK, [Next]_vars
               PROVE  TypeOK'
    OBVIOUS
  <2> USE DEF TypeOK
  <2>1. ASSUME NEW m \in Meeting, NEW u \in User, Access(u, m)
        PROVE  TypeOK'
    BY <2>1 DEF Access, managerVars
  <2>2. ASSUME NEW m \in Meeting, NEW i \in BreakoutId, Create(m, i)
        PROVE  TypeOK'
    BY <2>2 DEF Create
  <2>3. ASSUME NEW m \in Meeting, NEW i \in BreakoutId, Delete(m, i)
        PROVE  TypeOK'
    BY <2>3 DEF Delete
  <2>4. ASSUME NEW m \in Meeting, NEW i \in BreakoutId, NEW u \in User,
               Assign(m, i, u)
        PROVE  TypeOK'
    BY <2>4 DEF Assign, Assigned
  <2>5. ASSUME NEW m \in Meeting, NEW i \in BreakoutId, NEW u \in User,
               Join(m, i, u)
        PROVE  TypeOK'
    BY <2>5 DEF Join, Assigned
  <2>6. ASSUME NEW m \in Meeting, NEW i \in BreakoutId, NEW u \in User,
               Remove(m, i, u)
        PROVE  TypeOK'
    BY <2>6 DEF Remove
  <2>7. ASSUME NEW t \in granted, Expire(t)
        PROVE  TypeOK'
    BY <2>7 DEF Expire, managerVars
  <2>8. CASE Restart
    BY <2>8 DEF Restart
  <2>9. CASE UNCHANGED vars
    BY <2>9 DEF vars, managerVars
  <2>10. QED
    BY <2>1, <2>2, <2>3, <2>4, <2>5, <2>6, <2>7, <2>8, <2>9 DEF Next
<1>3. QED
  BY <1>1, <1>2, PTL DEF Spec

-----------------------------------------------------------------------------

\* Nobody is in two breakout rooms, not even of different meetings: assign
\* takes the user out of every other room first.
THEOREM AtMostOneRoom == Spec => []OneRoomEach
<1>1. Init => OneRoomEach
  BY DEF Init, OneRoomEach
<1>2. TypeOK /\ OneRoomEach /\ [Next]_vars => OneRoomEach'
  <2> SUFFICES ASSUME TypeOK, OneRoomEach, [Next]_vars
               PROVE  OneRoomEach'
    OBVIOUS
  <2> USE DEF TypeOK, OneRoomEach
  <2>1. CASE UNCHANGED participants
    BY <2>1
  <2>2. ASSUME NEW m \in Meeting, NEW i \in BreakoutId,
               Create(m, i) \/ Delete(m, i)
        PROVE  OneRoomEach'
    BY <2>2 DEF Create, Delete
  <2>3. ASSUME NEW m \in Meeting, NEW i \in BreakoutId, NEW u \in User,
               Assign(m, i, u) \/ Join(m, i, u)
        PROVE  OneRoomEach'
    BY <2>3 DEF Assign, Join, Assigned
  <2>4. ASSUME NEW m \in Meeting, NEW i \in BreakoutId, NEW u \in User,
               Remove(m, i, u)
        PROVE  OneRoomEach'
    BY <2>4 DEF Remove
  <2>5. CASE Restart
    BY <2>5 DEF Restart
  <2>6. QED
    BY <2>1, <2>2, <2>3, <2>4, <2>5 DEF Next, vars, managerVars, Access, Expire
<1>3. QED
  BY <1>1, <1>2, TypeCorrect, PTL DEF Spec

\* Whoever is in a breakout room is a member of its meeting, whatever the ids
\* are: a room that is gone, or whose id comes up again, holds nobody.
THEOREM OnlyMembers == Spec => []MembersOnly
<1>1. Init => MembersOnly
  BY DEF Init, MembersOnly
<1>2. TypeOK /\ MembersOnly /\ [Next]_vars => MembersOnly'
  <2> SUFFICES ASSUME TypeOK, MembersOnly, [Next]_vars
               PROVE  MembersOnly'
    OBVIOUS
  <2> USE ConstantsAssumption DEF TypeOK, MembersOnly
  <2>1. ASSUME NEW m \in Meeting, NEW u \in User, Access(u, m)
        PROVE  MembersOnly'
    BY <2>1 DEF Access, managerVars
  <2>2. ASSUME NEW m \in Meeting, NEW i \in BreakoutId,
               Create(m, i) \/ Delete(m, i)
        PROVE  MembersOnly'
    BY <2>2 DEF Create, Delete
  <2>3. ASSUME NEW m \in Meeting, NEW i \in BreakoutId, NEW u \in User,
               Assign(m, i, u) \/ Join(m, i, u)
        PROVE  MembersOnly'
    BY <2>3 DEF Assign, Join, Assigned, Has
  <2>4. ASSUME NEW m \in Meeting, NEW i \in BreakoutId, NEW u \in User,
               Remove(m, i, u)
        PROVE  MembersOnly'
    BY <2>4 DEF Remove, Has
  <2>5. CASE Restart
    BY <2>5 DEF Restart
  <2>6. CASE UNCHANGED <<members, managerVars>>
    BY <2>6 DEF managerVars
  <2>7. QED
    BY <2>1, <2>2, <2>3, <2>4, <2>5, <2>6 DEF Next, vars, Expire
<1>3. QED
  BY <1>1, <1>2, TypeCorrect, PTL DEF Spec

-----------------------------------------------------------------------------

\* A token is for an id that was given out, as is every room there is.
TokensUsed == Rooms \subseteq used /\ \A t \in granted : t[2] \in used

TokenInv == TokensUsed /\ TokenWithinMeeting

\* Unless its id comes up again, a breakout token never opens a room of a
\* meeting its user is not a member of, through deletions and restarts.
THEOREM TokensStayWithinMeeting == Spec => []TokenWithinMeeting
<1>1. Init => TokenInv
  BY DEF Init, TokenInv, TokensUsed, TokenWithinMeeting, Rooms
<1>2. TypeOK /\ TokenInv /\ [Next]_vars => TokenInv'
  <2> SUFFICES ASSUME TypeOK, TokenInv, [Next]_vars
               PROVE  TokenInv'
    OBVIOUS
  <2> USE ConstantsAssumption
      DEF TypeOK, TokenInv, TokensUsed, TokenWithinMeeting, Rooms
  <2>1. ASSUME NEW m \in Meeting, NEW u \in User, Access(u, m)
        PROVE  TokenInv'
    BY <2>1 DEF Access, managerVars
  <2>2. ASSUME NEW m \in Meeting, NEW i \in BreakoutId, Create(m, i)
        PROVE  TokenInv'
    <3>1. i \in used => i \in Repeating
      BY <2>2 DEF Create
    <3>2. \A t \in granted : t[2] \notin Repeating => t[2] # i
      BY <3>1
    <3>3. QED
      BY <2>2, <3>2 DEF Create
  <2>3. ASSUME NEW m \in Meeting, NEW i \in BreakoutId, Delete(m, i)
        PROVE  TokenInv'
    BY <2>3 DEF Delete
  <2>4. ASSUME NEW m \in Meeting, NEW i \in BreakoutId, NEW u \in User,
               Join(m, i, u)
        PROVE  TokenInv'
    <3>1. parent[i] = m /\ u \in members[m] /\ i \in used
      BY <2>4 DEF Join, Has
    <3>2. \A t \in granted' : t \in granted \/ (t[1] = u /\ t[2] = i)
      BY <2>4 DEF Join
    <3>3. UNCHANGED <<members, parent, used>>
      BY <2>4 DEF Join
    <3>4. QED
      BY <3>1, <3>2, <3>3
  <2>5. ASSUME NEW t \in granted, Expire(t)
        PROVE  TokenInv'
    BY <2>5 DEF Expire, managerVars
  <2>6. CASE Restart
    BY <2>6 DEF Restart
  <2>7. CASE UNCHANGED <<members, parent, used, granted>>
    BY <2>7
  <2>8. QED
    BY <2>1, <2>2, <2>3, <2>4, <2>5, <2>6, <2>7
    DEF Next, vars, managerVars, Assign, Remove
<1>3. TokenInv => TokenWithinMeeting
  BY DEF TokenInv
<1>4. QED
  BY <1>1, <1>2, <1>3, TypeCorrect, PTL DEF Spec

-----------------------------------------------------------------------------
(* The refinement *)

\* assign moves one user, into a room that exists, and nobody else.
LEMMA AssignedMoves ==
  ASSUME TypeOK, NEW i \in Rooms, NEW u \in User,
         participants' = Assigned(u, i), parent' = parent
  PROVE  A!Move(u, i)
<1>1. Rooms' = Rooms
  BY DEF Rooms
<1>2. \A j \in BreakoutId : participants'[j] = IF j = i
                            THEN participants[j] \cup {u} ELSE participants[j] \ {u}
  BY DEF Assigned
<1>3. ASSUME NEW v \in User
      PROVE  {j \in BreakoutId : v \in participants'[j]}
               = IF v = u THEN {i} ELSE {j \in BreakoutId : v \in participants[j]}
  BY <1>2 DEF Rooms
<1>4. Where' = [Where EXCEPT ![u] = {i}]
  BY <1>3 DEF Where
<1>5. QED
  BY <1>1, <1>4 DEF A!Move

\* Emptying one room sends its participants back and moves nobody else.
LEMMA EmptiedEvicts ==
  ASSUME TypeOK, NEW i \in BreakoutId,
         participants' = [participants EXCEPT ![i] = {}]
  PROVE  Where' = A!Evicted(i)
<1>1. ASSUME NEW v \in User
      PROVE  {j \in BreakoutId : v \in participants'[j]}
               = {j \in BreakoutId : v \in participants[j]} \ {i}
  BY DEF TypeOK
<1>2. QED
  BY <1>1 DEF Where, A!Evicted

\* The manager implements the assignment of users to rooms: each handler's
\* call of it is a step of Assignment, or changes nothing of it.
THEOREM ImplementsAssignment == Spec => AssignmentSpec
<1>1. Init => A!Init
  BY ConstantsAssumption DEF Init, A!Init, Rooms, Where
<1>2. TypeOK /\ OneRoomEach /\ [Next]_vars => [A!Next]_(A!vars)
  <2> SUFFICES ASSUME TypeOK, OneRoomEach, [Next]_vars
               PROVE  A!Next \/ UNCHANGED <<Rooms, Where>>
    BY DEF A!vars
  <2>1. CASE UNCHANGED managerVars
    BY <2>1 DEF managerVars, Rooms, Where
  <2>2. ASSUME NEW m \in Meeting, NEW i \in BreakoutId, Create(m, i)
        PROVE  A!Next
    <3>1. Where' = A!Evicted(i)
      BY <2>2, EmptiedEvicts DEF Create
    <3>2. Rooms' = Rooms \cup {i}
      BY <2>2, ConstantsAssumption DEF Create, Rooms, TypeOK
    <3>3. QED
      BY <3>1, <3>2 DEF A!Next, A!Open
  <2>3. ASSUME NEW m \in Meeting, NEW i \in BreakoutId, Delete(m, i)
        PROVE  A!Next
    <3>1. Where' = A!Evicted(i)
      BY <2>3, EmptiedEvicts DEF Delete
    <3>2. Rooms' = Rooms \ {i}
      BY <2>3 DEF Delete, Rooms, TypeOK
    <3>3. QED
      BY <3>1, <3>2 DEF A!Next, A!Close
  <2>4. ASSUME NEW m \in Meeting, NEW i \in BreakoutId, NEW u \in User,
               Assign(m, i, u) \/ Join(m, i, u)
        PROVE  A!Next
    <3>1. i \in Rooms
      BY <2>4, ConstantsAssumption DEF Assign, Join, Has, Rooms
    <3>2. A!Move(u, i)
      BY <2>4, <3>1, AssignedMoves DEF Assign, Join
    <3>3. QED
      BY <3>2 DEF A!Next
  <2>5. ASSUME NEW m \in Meeting, NEW i \in BreakoutId, NEW u \in User,
               Remove(m, i, u)
        PROVE  A!Next
    <3>1. /\ u \in participants[i]
          /\ participants' = [participants EXCEPT ![i] = @ \ {u}]
          /\ parent' = parent
      BY <2>5 DEF Remove
    <3>2. ASSUME NEW v \in User
          PROVE  {j \in BreakoutId : v \in participants'[j]}
                   = IF v = u THEN {}
                     ELSE {j \in BreakoutId : v \in participants[j]}
      BY <3>1 DEF TypeOK, OneRoomEach
    <3>3. Where' = [Where EXCEPT ![u] = {}] /\ Rooms' = Rooms
      BY <3>1, <3>2 DEF Where, Rooms
    <3>4. QED
      BY <3>3 DEF A!Next, A!Return
  <2>6. CASE Restart
    BY <2>6 DEF Restart, A!Next, A!Reset, Rooms, Where
  <2>7. QED
    BY <2>1, <2>2, <2>3, <2>4, <2>5, <2>6
    DEF Next, vars, managerVars, Access, Expire
<1>3. QED
  BY <1>1, <1>2, TypeCorrect, AtMostOneRoom, PTL DEF Spec, AssignmentSpec, A!Spec
=============================================================================
