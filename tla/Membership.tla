----------------------------- MODULE Membership -----------------------------
(***************************************************************************)
(* Who may be what in a room: the row each user has in room_members        *)
(* (server/src/index.ts), the room tokens issued from it, the role the SFU *)
(* (media/main.go) gives a connection, and the calls of /control/role that *)
(* keep the SFU up to date.                                                *)
(*                                                                         *)
(* A step is one database statement, or one call as the SFU handles it; a  *)
(* handler that awaits one goes on in another step.  Rooms share nothing,  *)
(* so there is one.  Requests that are refused (a wrong password, no       *)
(* session, not the owner) change nothing and are left out.                *)
(***************************************************************************)
EXTENDS Integers, Sequences, FiniteSets

CONSTANTS
  User,
  Conn,         \* connections to the SFU
  MaxChanges,   \* bound: role changes of a user
  MaxAccesses,  \* bound: first accesses of one user at the same time
  None

Role == {"host", "cohost", "member"}

ASSUME ConstantsAssumption ==
  /\ None \notin User
  /\ MaxChanges \in Nat /\ MaxAccesses \in Nat
  /\ IsFiniteSet(Conn)

VARIABLES
  owner,      \* rooms.owner_id, None before the room is there
  roles,      \* the roles the user's row has had, the last is the one it has
  inserting,  \* accesses of the user that found no row and will insert one
  calls,      \* calls of /control/role under way: the n-th role of a user
  tokens,     \* room tokens that have not expired
  conn,       \* the claim by which the SFU serves a connection, or None
  astray      \* users whose last call failed, was overtaken by an older one,
              \* or reached one of several connections (history)

vars == <<owner, roles, inserting, calls, tokens, conn, astray>>

\* The n-th role given to a user.
Claim == [user : User, role : Role, n : Nat]
\* fresh: it was the user's last role when the SFU learnt of it (history).
Peer == [user : User, role : Role, n : Nat, fresh : BOOLEAN]

TypeOK ==
  /\ owner \in User \cup {None}
  /\ roles \in [User -> Seq(Role)]
  /\ inserting \in [User -> Nat]
  /\ calls \subseteq Claim
  /\ tokens \subseteq Claim
  /\ conn \in [Conn -> Peer \cup {None}]
  /\ astray \subseteq User

Init ==
  /\ owner = None
  /\ roles = [u \in User |-> <<>>]
  /\ inserting = [u \in User |-> 0]
  /\ calls = {} /\ tokens = {} /\ astray = {}
  /\ conn = [k \in Conn |-> None]

HasRow(u) == roles[u] # <<>>
Row(u) == roles[u][Len(roles[u])]

\* issueRoomAccessToken
Token(u) == [user |-> u, role |-> Row(u), n |-> Len(roles[u])]

\* The peers a role call finds for a user.
Of(u) == {k \in Conn : conn[k] # None /\ conn[k].user = u}

-----------------------------------------------------------------------------
(* The API server *)

\* POST /api/rooms: the room and the host's row, in one transaction.  An id
\* that is taken rolls it back and another is tried.
Create(u) ==
  /\ owner = None
  /\ owner' = u
  /\ roles' = [roles EXCEPT ![u] = <<"host">>]
  /\ tokens' = {[user |-> u, role |-> "host", n |-> 1]}
  /\ UNCHANGED <<inserting, calls, conn, astray>>

\* POST .../access: the row gives the role, and when there is none an INSERT
\* follows.  (Only a user who is not the owner has none.)
Access(u) ==
  /\ owner # None
  /\ \/ /\ HasRow(u)
        /\ tokens' = tokens \cup {Token(u)}
        /\ UNCHANGED inserting
     \/ /\ ~HasRow(u) /\ inserting[u] < MaxAccesses
        /\ inserting' = [inserting EXCEPT ![u] = @ + 1]
        /\ UNCHANGED tokens
  /\ UNCHANGED <<owner, roles, calls, conn, astray>>

InsertedOver(u) == Append(roles[u], "member")   \* mutant: ON CONFLICT UPDATE
InsertedNull(u) == <<None>>   \* mutant: the role that was read, which is null

\* The INSERT: it fails on the primary key when another access was faster.
Inserted(u) == IF HasRow(u) THEN roles[u] ELSE <<"member">>

\* The INSERT is carried out; when it fails, so does the request.
Insert(u) ==
  /\ inserting[u] > 0
  /\ inserting' = [inserting EXCEPT ![u] = @ - 1]
  /\ roles' = [roles EXCEPT ![u] = Inserted(u)]
  /\ tokens' = IF HasRow(u) THEN tokens
               ELSE tokens \cup {[user |-> u, role |-> "member", n |-> 1]}
  /\ UNCHANGED <<owner, calls, conn, astray>>

\* POST .../token
Refresh(u) ==
  /\ HasRow(u)
  /\ tokens' = tokens \cup {Token(u)}
  /\ UNCHANGED <<owner, roles, inserting, calls, conn, astray>>

MayChangeAny(u) == HasRow(u)   \* mutant: the owner may demote itself

\* CANNOT_CHANGE_OWNER, MEMBER_NOT_FOUND
MayChange(u) == u # owner /\ HasRow(u)

\* PATCH .../members/:userId by the owner: the UPDATE, then the call of the
\* SFU, which is answered or fails before the request is.
ChangeRole(u, r) ==
  /\ MayChange(u)
  /\ Len(roles[u]) <= MaxChanges
  /\ roles' = [roles EXCEPT ![u] = Append(@, r)]
  /\ calls' = calls \cup {[user |-> u, role |-> r, n |-> Len(roles[u]) + 1]}
  /\ UNCHANGED <<owner, inserting, tokens, conn, astray>>

\* fetch throws: the error is logged and the request answered all the same.
CallFails(c) ==
  /\ c \in calls
  /\ calls' = calls \ {c}
  /\ astray' = astray \cup {c.user}
  /\ UNCHANGED <<owner, roles, inserting, tokens, conn>>

-----------------------------------------------------------------------------
(* The SFU *)

\* A later call for the user is done already.
Overtaken(c) ==
  \E n \in c.n + 1 .. Len(roles[c.user]) :
    \A d \in calls : d.user = c.user => d.n # n

\* What the SFU knows of a peer by a token or a call.
Admitted(t) == [user |-> t.user, role |-> t.role, n |-> t.n,
                fresh |-> t.n = Len(roles[t.user])]

ImmuneModerator(k) == conn[k].role \in {"host", "cohost"}   \* mutant

Immune(k) == conn[k].role = "host"

\* handleRoleControl finds one peer of the user, if there is any, and sets its
\* role, unless it is a host.
RoleControl(c) ==
  /\ c \in calls
  /\ calls' = calls \ {c}
  /\ \/ Of(c.user) = {} /\ UNCHANGED conn
     \/ \E k \in Of(c.user) :
          conn' = IF Immune(k) THEN conn ELSE [conn EXCEPT ![k] = Admitted(c)]
  /\ astray' = IF Overtaken(c) \/ Cardinality(Of(c.user)) > 1
               THEN astray \cup {c.user}
               ELSE IF c.n = Len(roles[c.user]) THEN astray \ {c.user}
                    ELSE astray
  /\ UNCHANGED <<owner, roles, inserting, tokens>>

\* handleWS serves a connection by the role its token names.
Join(k, t) ==
  /\ conn[k] = None /\ t \in tokens
  /\ conn' = [conn EXCEPT ![k] = Admitted(t)]
  /\ UNCHANGED <<owner, roles, inserting, calls, tokens, astray>>

Leave(k) ==
  /\ conn[k] # None
  /\ conn' = [conn EXCEPT ![k] = None]
  /\ UNCHANGED <<owner, roles, inserting, calls, tokens, astray>>

\* verifyRoomAccessToken refuses a token past its exp.
Expire(t) ==
  /\ t \in tokens
  /\ tokens' = tokens \ {t}
  /\ UNCHANGED <<owner, roles, inserting, calls, conn, astray>>

-----------------------------------------------------------------------------

Request(u) ==
  \/ Create(u) \/ Access(u) \/ Refresh(u)
  \/ \E r \in {"cohost", "member"} : ChangeRole(u, r)

Next ==
  \/ \E u \in User : Request(u) \/ Insert(u)
  \/ \E c \in calls : RoleControl(c) \/ CallFails(c)
  \/ \E k \in Conn : Leave(k) \/ \E t \in tokens : Join(k, t)
  \/ \E t \in tokens : Expire(t)

Spec == Init /\ [][Next]_vars

-----------------------------------------------------------------------------
(* Properties *)

\* Nobody but the owner is host, in the table, by a token or in the SFU, and
\* the owner's row says so from the first moment and for good: whatever
\* accesses, role changes and stale tokens there are.
HostIsOwner ==
  /\ owner # None => Row(owner) = "host"
  /\ \A u \in User : HasRow(u) /\ Row(u) = "host" => u = owner
  /\ \A t \in tokens : t.role = "host" => t.user = owner
  /\ \A k \in Conn : conn[k] # None /\ conn[k].role = "host" => conn[k].user = owner

\* Roles do not appear on the way: what a token, a call or a connection says of
\* a user, the table said once.
RolesGiven ==
  /\ \A c \in tokens \cup calls :
       c.n \in 1 .. Len(roles[c.user]) /\ c.role = roles[c.user][c.n]
  /\ \A k \in Conn : conn[k] # None =>
       /\ conn[k].n \in 1 .. Len(roles[conn[k].user])
       /\ conn[k].role = roles[conn[k].user][conn[k].n]

\* index.ts:621: once no call is under way the SFU serves a user by the role in
\* the table, unless its last call went astray or it joined with a token of an
\* earlier role and no call has come since.
SfuFollows ==
  \A k \in Conn :
    /\ conn[k] # None /\ conn[k].fresh
    /\ conn[k].user \notin astray
    /\ \A c \in calls : c.user # conn[k].user
    => conn[k].role = Row(conn[k].user)

\* index.ts:366: no access, however late, changes a row that is there; only the
\* owner's request does, and it tells the SFU.
OnlyOwnerChanges ==
  [][\A u \in User : HasRow(u) /\ roles'[u] # roles[u] =>
       /\ u # owner
       /\ \E c \in calls' \ calls : c.user = u /\ c.n = Len(roles'[u])]_vars

=============================================================================
