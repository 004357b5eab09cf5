-------------------------- MODULE MembershipProofs --------------------------
(***************************************************************************)
(* Theorems about Membership, for every set of users and connections and   *)
(* any number of role changes.                                             *)
(***************************************************************************)
EXTENDS Membership, FiniteSetTheorems, TLAPS

\* The state is of the right shape in every behaviour of the handlers.
THEOREM TypeCorrect == Spec => []TypeOK
<1>1. Init => TypeOK
  BY DEF Init, TypeOK
<1>2. TypeOK /\ [Next]_vars => TypeOK'
  <2> SUFFICES ASSUME TypeOK, [Next]_vars
               PROVE  TypeOK'
    OBVIOUS
  <2> USE DEF TypeOK, Claim, Role
  <2>1. ASSUME NEW u \in User, Create(u)
        PROVE  TypeOK'
    BY <2>1 DEF Create
  <2>2. ASSUME NEW u \in User, Access(u) \/ Refresh(u)
        PROVE  TypeOK'
    <3>1. HasRow(u) => Token(u) \in Claim
      BY DEF HasRow, Row, Token
    <3>2. tokens' \subseteq Claim
      BY <2>2, <3>1 DEF Access, Refresh
    <3>3. inserting' \in [User -> Nat]
      BY <2>2 DEF Access, Refresh
    <3>4. QED
      BY <2>2, <3>2, <3>3 DEF Access, Refresh
  <2>3. ASSUME NEW u \in User, Insert(u)
        PROVE  TypeOK'
    <3>1. inserting' \in [User -> Nat]
      BY <2>3 DEF Insert
    <3>2. Inserted(u) \in Seq(Role)
      <4>1. <<"member">> \in Seq(Role)
        OBVIOUS
      <4>2. roles[u] \in Seq(Role)
        OBVIOUS
      <4>3. QED
        BY <4>1, <4>2 DEF Inserted
    <3>3. [user |-> u, role |-> "member", n |-> 1] \in Claim
      OBVIOUS
    <3>4. QED
      BY <2>3, <3>1, <3>2, <3>3 DEF Insert
  <2>4. ASSUME NEW u \in User, NEW r \in {"cohost", "member"}, ChangeRole(u, r)
        PROVE  TypeOK'
    BY <2>4 DEF ChangeRole
  <2>5. ASSUME NEW c \in calls, CallFails(c)
        PROVE  TypeOK'
    BY <2>5 DEF CallFails
  <2>6. ASSUME NEW c \in calls, RoleControl(c)
        PROVE  TypeOK'
    <3>1. Admitted(c) \in Peer
      BY DEF Admitted, Peer
    <3>2. conn' \in [Conn -> Peer \cup {None}]
      BY <2>6, <3>1 DEF RoleControl, Of
    <3>3. QED
      BY <2>6, <3>2 DEF RoleControl
  <2>7. ASSUME NEW k \in Conn, NEW t \in tokens, Join(k, t)
        PROVE  TypeOK'
    BY <2>7 DEF Join, Admitted, Peer
  <2>8. ASSUME NEW k \in Conn, Leave(k)
        PROVE  TypeOK'
    BY <2>8 DEF Leave
  <2>9. ASSUME NEW t \in tokens, Expire(t)
        PROVE  TypeOK'
    BY <2>9 DEF Expire
  <2>10. CASE UNCHANGED vars
    BY <2>10 DEF vars
  <2>11. QED
    BY <2>1, <2>2, <2>3, <2>4, <2>5, <2>6, <2>7, <2>8, <2>9, <2>10
    DEF Next, Request
<1>3. QED
  BY <1>1, <1>2, PTL DEF Spec

-----------------------------------------------------------------------------
(* Where a role comes from *)

\* Before there is a room nobody has a row or is about to have one.
Unstarted ==
  owner = None => \A u \in User : roles[u] = <<>> /\ inserting[u] = 0

\* The owner's row never changed; no other row was ever a host's; and there
\* is no call about the owner.
OneHost ==
  /\ owner # None => roles[owner] = <<"host">>
  /\ \A u \in User : \A i \in 1 .. Len(roles[u]) :
       roles[u][i] = "host" => u = owner
  /\ \A c \in calls : c.user # owner

RoleInv == Unstarted /\ OneHost /\ RolesGiven

\* The step of the induction the theorems below share.
LEMMA RoleStep ==
  ASSUME TypeOK, RoleInv, [Next]_vars
  PROVE  RoleInv'
<1> USE ConstantsAssumption
    DEF TypeOK, RoleInv, Unstarted, OneHost, RolesGiven, Claim, Role, Peer
<1>1. ASSUME NEW u \in User, Create(u)
      PROVE  RoleInv'
  <2>1. /\ tokens = {} /\ calls = {}
        /\ \A k \in Conn : conn[k] = None
    BY <1>1 DEF Create
  <2>2. QED
    BY <1>1, <2>1 DEF Create
<1>2. ASSUME NEW u \in User, Access(u) \/ Refresh(u)
      PROVE  RoleInv'
  <2>1. HasRow(u) => /\ Token(u).n \in 1 .. Len(roles[u])
                     /\ Token(u).role = roles[u][Token(u).n]
                     /\ Token(u).user = u
    BY DEF HasRow, Row, Token
  <2>2. HasRow(u) => owner # None
    BY DEF HasRow
  <2>3. QED
    BY <1>2, <2>1, <2>2 DEF Access, Refresh
<1>3. ASSUME NEW u \in User, Insert(u)
      PROVE  RoleInv'
  <2>1. owner # None
    BY <1>3 DEF Insert
  <2>2. CASE HasRow(u)
    BY <1>3, <2>1, <2>2 DEF Insert, Inserted
  <2>3. CASE ~HasRow(u)
    <3>1. roles[u] = <<>> /\ Len(roles[u]) = 0 /\ u # owner
      <4>1. roles[u] = <<>> /\ Len(<<>>) = 0
        BY <2>3 DEF HasRow
      <4>2. Len(<<"host">>) = 1
        OBVIOUS
      <4>3. roles[owner] = <<"host">>
        BY <2>1
      <4>4. QED
        BY <4>1, <4>2, <4>3
    <3>2. \A c \in tokens \cup calls : c.user # u
      BY <3>1
    <3>3. \A k \in Conn : conn[k] # None => conn[k].user # u
      BY <3>1
    <3>4. roles' = [roles EXCEPT ![u] = <<"member">>]
      BY <1>3, <2>3 DEF Insert, Inserted
    <3>5. tokens' = tokens \cup {[user |-> u, role |-> "member", n |-> 1]}
      BY <1>3, <2>3 DEF Insert
    <3>6. UNCHANGED <<owner, calls, conn>>
      BY <1>3 DEF Insert
    <3>7. Unstarted' /\ OneHost'
      BY <2>1, <3>1, <3>2, <3>4, <3>6
    <3>8. \A c \in tokens' \cup calls' : c.n \in 1 .. Len(roles'[c.user])
                                        /\ c.role = roles'[c.user][c.n]
      BY <3>2, <3>4, <3>5, <3>6
    <3>9. \A k \in Conn : conn'[k] # None =>
            /\ conn'[k].n \in 1 .. Len(roles'[conn'[k].user])
            /\ conn'[k].role = roles'[conn'[k].user][conn'[k].n]
      BY <3>3, <3>4, <3>6
    <3>10. QED
      BY <3>7, <3>8, <3>9
  <2>4. QED
    BY <2>2, <2>3
<1>4. ASSUME NEW u \in User, NEW r \in {"cohost", "member"}, ChangeRole(u, r)
      PROVE  RoleInv'
  <2>1. /\ u # owner /\ owner # None
        /\ roles' = [roles EXCEPT ![u] = Append(@, r)]
        /\ calls' = calls \cup {[user |-> u, role |-> r, n |-> Len(roles[u]) + 1]}
        /\ UNCHANGED <<owner, inserting, tokens, conn>>
    BY <1>4 DEF ChangeRole, MayChange, HasRow
  <2>2. /\ Len(roles'[u]) = Len(roles[u]) + 1
        /\ \A i \in 1 .. Len(roles[u]) : roles'[u][i] = roles[u][i]
        /\ roles'[u][Len(roles[u]) + 1] = r
        /\ \A v \in User : v # u => roles'[v] = roles[v]
    BY <2>1
  <2>3. Unstarted' /\ OneHost'
    BY <2>1, <2>2
  <2>4. \A c \in calls' : c.n \in 1 .. Len(roles'[c.user])
                          /\ c.role = roles'[c.user][c.n]
    BY <2>1, <2>2
  <2>5. \A c \in tokens' : c.n \in 1 .. Len(roles'[c.user])
                           /\ c.role = roles'[c.user][c.n]
    BY <2>1, <2>2
  <2>6. \A k \in Conn : conn'[k] # None =>
          /\ conn'[k].n \in 1 .. Len(roles'[conn'[k].user])
          /\ conn'[k].role = roles'[conn'[k].user][conn'[k].n]
    <3>1. ASSUME NEW k \in Conn, conn[k] # None
          PROVE  /\ conn[k].user \in User
                 /\ conn[k].n \in 1 .. Len(roles[conn[k].user])
                 /\ conn[k].role = roles[conn[k].user][conn[k].n]
      BY <3>1
    <3>2. QED
      BY <2>1, <2>2, <3>1
  <2>7. RolesGiven'
    BY <2>4, <2>5, <2>6 DEF RolesGiven
  <2>8. QED
    BY <2>3, <2>7 DEF RoleInv
<1>5. ASSUME NEW c \in calls, CallFails(c)
      PROVE  RoleInv'
  BY <1>5 DEF CallFails
<1>6. ASSUME NEW c \in calls, RoleControl(c)
      PROVE  RoleInv'
  <2>1. \A k \in Conn : conn'[k] = conn[k] \/ conn'[k] = Admitted(c)
    BY <1>6 DEF RoleControl, Of
  <2>2. QED
    BY <1>6, <2>1 DEF RoleControl, Admitted
<1>7. ASSUME NEW k \in Conn, NEW t \in tokens, Join(k, t)
      PROVE  RoleInv'
  BY <1>7 DEF Join, Admitted
<1>8. ASSUME NEW k \in Conn, Leave(k)
      PROVE  RoleInv'
  BY <1>8 DEF Leave
<1>9. ASSUME NEW t \in tokens, Expire(t)
      PROVE  RoleInv'
  BY <1>9 DEF Expire
<1>10. CASE UNCHANGED vars
  BY <1>10 DEF vars
<1>11. QED
  BY <1>1, <1>2, <1>3, <1>4, <1>5, <1>6, <1>7, <1>8, <1>9, <1>10
  DEF Next, Request

LEMMA RoleInvariant == Spec => []RoleInv
<1>1. Init => RoleInv
  BY ConstantsAssumption
  DEF Init, RoleInv, Unstarted, OneHost, RolesGiven
<1>2. TypeOK /\ RoleInv /\ [Next]_vars => RoleInv'
  BY RoleStep
<1>3. QED
  BY <1>1, <1>2, TypeCorrect, PTL DEF Spec

\* Whatever a token, a call or a connection says of a user's role, the table
\* said it once: nothing between the database and the SFU makes a role up.
THEOREM RolesComeFromTheTable == Spec => []RolesGiven
<1>1. RoleInv => RolesGiven
  BY DEF RoleInv
<1>2. QED
  BY <1>1, RoleInvariant, PTL

\* Only the owner is ever host, in the table, by a token and in the SFU.
THEOREM OnlyOwnerIsHost == Spec => []HostIsOwner
<1>1. TypeOK /\ RoleInv => HostIsOwner
  <2> SUFFICES ASSUME TypeOK, RoleInv
               PROVE  HostIsOwner
    OBVIOUS
  <2> USE ConstantsAssumption
      DEF TypeOK, RoleInv, OneHost, RolesGiven, HasRow, Row, Claim, Peer
  <2>1. owner # None => Row(owner) = "host"
    <3>1. Len(<<"host">>) = 1 /\ <<"host">>[1] = "host"
      OBVIOUS
    <3>2. QED
      BY <3>1
  <2>2. \A u \in User : HasRow(u) /\ Row(u) = "host" => u = owner
    OBVIOUS
  <2>3. \A t \in tokens : t.role = "host" => t.user = owner
    OBVIOUS
  <2>4. \A k \in Conn :
          conn[k] # None /\ conn[k].role = "host" => conn[k].user = owner
    OBVIOUS
  <2>5. QED
    BY <2>1, <2>2, <2>3, <2>4 DEF HostIsOwner
<1>2. QED
  BY <1>1, RoleInvariant, TypeCorrect, PTL

\* A row that is there is changed by the owner's request alone, which leaves a
\* call of the SFU behind; a late INSERT never overwrites it.
THEOREM RowsChangeByOwner == Spec => OnlyOwnerChanges
<1>1. TypeOK /\ RoleInv /\ [Next]_vars =>
        [\A u \in User : HasRow(u) /\ roles'[u] # roles[u] =>
           /\ u # owner
           /\ \E c \in calls' \ calls : c.user = u /\ c.n = Len(roles'[u])]_vars
  <2> SUFFICES ASSUME TypeOK, RoleInv, Next, NEW u \in User,
                      HasRow(u), roles'[u] # roles[u]
               PROVE  /\ u # owner
                      /\ \E c \in calls' \ calls :
                           c.user = u /\ c.n = Len(roles'[u])
    OBVIOUS
  <2>1. owner # None
    BY DEF RoleInv, Unstarted, HasRow
  <2>2. \A v \in User : ~(Insert(v) /\ HasRow(u) /\ roles'[u] # roles[u])
    BY DEF Insert, Inserted, TypeOK
  <2>3. PICK v \in User, r \in {"cohost", "member"} : ChangeRole(v, r)
    BY <2>1, <2>2
    DEF Next, Request, Create, Access, Refresh, CallFails, RoleControl, Join,
        Leave, Expire
  <2>4. v = u
    BY <2>3 DEF ChangeRole, TypeOK
  <2> DEFINE call == [user |-> u, role |-> r, n |-> Len(roles[u]) + 1]
  <2>5. call \notin calls
    BY DEF RoleInv, RolesGiven, TypeOK, Claim
  <2>6. call \in calls' /\ Len(roles'[u]) = Len(roles[u]) + 1
    BY <2>3, <2>4 DEF ChangeRole, TypeOK, Role
  <2>7. QED
    BY <2>3, <2>4, <2>5, <2>6 DEF ChangeRole, MayChange
<1>2. QED
  BY <1>1, RoleInvariant, TypeCorrect, PTL DEF Spec, OnlyOwnerChanges

-----------------------------------------------------------------------------
(* The SFU follows the table *)

\* A connection that learnt its user's role when it was the last one either
\* still has the last one, or the call that says so is under way.
Followed ==
  \A k \in Conn :
    /\ conn[k] # None /\ conn[k].fresh
    /\ conn[k].user \notin astray
    => \/ conn[k].n = Len(roles[conn[k].user])
       \/ \E c \in calls : /\ c.user = conn[k].user
                           /\ c.n = Len(roles[conn[k].user])

\* Two connections of a user are more than one.
LEMMA TwoOf ==
  ASSUME NEW u, NEW k \in Of(u), NEW l \in Of(u), k # l
  PROVE  Cardinality(Of(u)) > 1
<1>1. IsFiniteSet(Of(u))
  BY ConstantsAssumption, FS_Subset DEF Of
<1>2. IsFiniteSet({k, l}) /\ Cardinality({k, l}) = 2
  <2>1. IsFiniteSet({l}) /\ Cardinality({l}) = 1
    BY FS_Singleton
  <2>2. {k, l} = {l} \cup {k} /\ k \notin {l}
    OBVIOUS
  <2>3. QED
    BY <2>1, <2>2, FS_AddElement
<1>3. Cardinality({k, l}) <= Cardinality(Of(u)) /\ Cardinality(Of(u)) \in Nat
  BY <1>1, <1>2, FS_Subset, FS_CardinalityType
<1>4. QED
  BY <1>2, <1>3

\* The call of a role change as the SFU handles it.
LEMMA RoleControlFollows ==
  ASSUME TypeOK, RoleInv, Followed, NEW c \in calls, RoleControl(c)
  PROVE  Followed'
<1> USE DEF TypeOK, Claim
<1> SUFFICES ASSUME NEW k \in Conn,
                    conn'[k] # None, conn'[k].fresh, conn'[k].user \notin astray'
             PROVE  \/ conn'[k].n = Len(roles[conn'[k].user])
                    \/ \E d \in calls' : /\ d.user = conn'[k].user
                                         /\ d.n = Len(roles[conn'[k].user])
  BY DEF Followed, RoleControl
<1> DEFINE u == c.user
<1>1. /\ calls' = calls \ {c} /\ u \in User /\ c.n \in 1 .. Len(roles[u])
      /\ u # owner
  BY DEF RoleControl, RoleInv, RolesGiven, OneHost
<1>2. conn[k] # None /\ conn'[k].user = conn[k].user
  <2>1. \A l \in Of(u) : conn[l] # None /\ conn[l].user = u
    BY DEF Of
  <2>2. \/ conn'[k] = conn[k]
        \/ k \in Of(u) /\ conn'[k] = Admitted(c)
    BY DEF RoleControl
  <2>3. Admitted(c).user = u
    BY DEF Admitted
  <2>4. QED
    BY <2>1, <2>2, <2>3
<1>3. CASE conn[k].user # u
  <2>1. conn'[k] = conn[k]
    BY <1>3 DEF RoleControl, Of
  <2>2. conn[k].user \notin astray
    BY <1>2, <1>3 DEF RoleControl
  <2>3. \A d \in calls : d.user = conn[k].user => d \in calls'
    BY <1>1, <1>3
  <2>4. QED
    BY <2>1, <2>2, <2>3 DEF Followed
<1>4. CASE conn[k].user = u
  <2>1. k \in Of(u)
    BY <1>2, <1>4 DEF Of
  <2>2. ~Overtaken(c) /\ ~(Cardinality(Of(u)) > 1)
    BY <1>2, <1>4 DEF RoleControl
  <2>3. \A l \in Of(u) : l = k
    BY <2>1, <2>2, TwoOf
  <2>4. ~Immune(k)
    BY <1>1, <1>2, <1>4, ConstantsAssumption
    DEF Immune, RoleInv, RolesGiven, OneHost, Peer
  <2>5. conn'[k] = Admitted(c)
    BY <2>1, <2>3, <2>4 DEF RoleControl
  <2>6. CASE c.n = Len(roles[u])
    BY <2>5, <2>6 DEF Admitted
  <2>7. CASE c.n # Len(roles[u])
    <3>1. Len(roles[u]) \in c.n + 1 .. Len(roles[u])
      BY <1>1, <2>7
    <3>2. PICK d \in calls : d.user = u /\ d.n = Len(roles[u])
      BY <2>2, <3>1 DEF Overtaken
    <3>3. d \in calls'
      BY <1>1, <2>7, <3>2
    <3>4. QED
      BY <1>2, <1>4, <3>2, <3>3
  <2>8. QED
    BY <2>6, <2>7
<1>5. QED
  BY <1>3, <1>4

\* Once no call is under way the SFU serves a user by the role in the table,
\* unless a call went astray or the connection came with an old token.
THEOREM SfuFollowsTheTable == Spec => []SfuFollows
<1>1. Init => Followed
  BY DEF Init, Followed
<1>2. TypeOK /\ RoleInv /\ Followed /\ [Next]_vars => Followed'
  <2> SUFFICES ASSUME TypeOK, RoleInv, Followed, [Next]_vars
               PROVE  Followed'
    OBVIOUS
  <2> USE ConstantsAssumption DEF TypeOK, Followed, Claim, Peer
  <2>1. ASSUME NEW u \in User, Create(u)
        PROVE  Followed'
    <3>1. \A k \in Conn : conn[k] = None
      BY <2>1 DEF Create, RoleInv, Unstarted, RolesGiven
    <3>2. QED
      BY <2>1, <3>1 DEF Create
  <2>2. ASSUME NEW u \in User, Access(u) \/ Refresh(u)
        PROVE  Followed'
    BY <2>2 DEF Access, Refresh
  <2>3. ASSUME NEW u \in User, Insert(u)
        PROVE  Followed'
    <3>1. UNCHANGED <<conn, calls, astray>>
      BY <2>3 DEF Insert
    <3>2. ASSUME NEW k \in Conn, conn[k] # None
          PROVE  roles'[conn[k].user] = roles[conn[k].user]
      <4>1. HasRow(conn[k].user)
        BY <3>2 DEF RoleInv, RolesGiven, HasRow
      <4>2. conn[k].user \in User
        BY <3>2
      <4>3. QED
        BY <2>3, <4>1, <4>2 DEF Insert, Inserted
    <3>3. QED
      BY <3>1, <3>2
  <2>4. ASSUME NEW u \in User, NEW r \in {"cohost", "member"}, ChangeRole(u, r)
        PROVE  Followed'
    <3> DEFINE call == [user |-> u, role |-> r, n |-> Len(roles[u]) + 1]
    <3>1. calls' = calls \cup {call} /\ UNCHANGED <<conn, astray>>
      BY <2>4 DEF ChangeRole
    <3>2. /\ Len(roles'[u]) = Len(roles[u]) + 1
          /\ \A v \in User : v # u => roles'[v] = roles[v]
      BY <2>4 DEF ChangeRole, Role
    <3>3. call.user = u /\ call.n = Len(roles'[u]) /\ call \in calls'
      BY <3>1, <3>2
    <3> HIDE DEF call
    <3>4. ASSUME NEW k \in Conn, conn[k] # None, conn[k].user # u
          PROVE  roles'[conn[k].user] = roles[conn[k].user]
      <4>1. conn[k].user \in User
        BY <3>4
      <4>2. QED
        BY <3>2, <3>4, <4>1
    <3>5. \A c \in calls : c \in calls'
      BY <3>1
    <3>6. SUFFICES ASSUME NEW k \in Conn, conn[k] # None, conn[k].fresh,
                          conn[k].user \notin astray
                   PROVE  \/ conn[k].n = Len(roles'[conn[k].user])
                          \/ \E c \in calls' :
                               /\ c.user = conn[k].user
                               /\ c.n = Len(roles'[conn[k].user])
      BY <3>1
    <3>7. CASE conn[k].user = u
      BY <3>3, <3>7
    <3>8. CASE conn[k].user # u
      <4>1. roles'[conn[k].user] = roles[conn[k].user]
        BY <3>4, <3>6, <3>8
      <4>2. \/ conn[k].n = Len(roles[conn[k].user])
            \/ \E c \in calls : /\ c.user = conn[k].user
                                /\ c.n = Len(roles[conn[k].user])
        BY <3>6
      <4>3. QED
        BY <3>5, <4>1, <4>2
    <3>9. QED
      BY <3>7, <3>8
  <2>5. ASSUME NEW c \in calls, CallFails(c)
        PROVE  Followed'
    BY <2>5 DEF CallFails
  <2>6. ASSUME NEW c \in calls, RoleControl(c)
        PROVE  Followed'
    BY <2>6, RoleControlFollows
  <2>7. ASSUME NEW k \in Conn, NEW t \in tokens, Join(k, t)
        PROVE  Followed'
    BY <2>7 DEF Join, Admitted
  <2>8. ASSUME NEW k \in Conn, Leave(k)
        PROVE  Followed'
    BY <2>8 DEF Leave
  <2>9. ASSUME NEW t \in tokens, Expire(t)
        PROVE  Followed'
    BY <2>9 DEF Expire
  <2>10. CASE UNCHANGED vars
    BY <2>10 DEF vars
  <2>11. QED
    BY <2>1, <2>2, <2>3, <2>4, <2>5, <2>6, <2>7, <2>8, <2>9, <2>10
    DEF Next, Request
<1>3. TypeOK /\ RoleInv /\ Followed => SfuFollows
  BY DEF TypeOK, RoleInv, RolesGiven, Followed, SfuFollows, Row
<1>4. QED
  BY <1>1, <1>2, <1>3, TypeCorrect, RoleInvariant, PTL DEF Spec
=============================================================================
