------------------------------- MODULE Roster -------------------------------
(***************************************************************************)
(* What one page, W's, knows of who is in the room: the list of            *)
(* participants with their roles, the host, the lobby (web/src/Room.tsx,   *)
(* web/src/participantModel.ts), and how the SFU (media/main.go) tells it. *)
(*                                                                         *)
(* The SFU changes the room in critical sections and sends afterwards, to  *)
(* the peers it found in them, from the goroutine of whoever joins, leaves *)
(* or moderates: what several of them send to W may come in any order.     *)
(* A socket keeps the order, so that W's page may as well handle a message *)
(* when it is sent.  Every peer has a user and an id of its own and joins  *)
(* once; W stays.  A moderator who was removed goes on moderating until its *)
(* browser closes the socket.  The list of those who wait, which the host's *)
(* page keeps, is left out: "lobby-join" and "lobby-waiting" change nothing *)
(* here.                                                                   *)
(***************************************************************************)
EXTENDS Integers, Sequences, FiniteSets

CONSTANTS
  Peer,
  W,            \* the peer whose page it is
  InitialRole,  \* by the tokens of the peers
  Controlled,   \* bound: peers whose roles are changed
  MaxCommands,  \* bound: times the lobby is switched or a role is changed
  None

Role == {"host", "cohost", "member"}
Moderators == {"host", "cohost"}

ASSUME ConstantsAssumption ==
  /\ W \in Peer /\ None \notin Peer /\ None \notin BOOLEAN
  /\ InitialRole \in [Peer -> Role] /\ Controlled \subseteq Peer
  /\ MaxCommands \in Nat

VARIABLES
  (* the SFU *)
  stage,      \* of a peer: out, admitted, in, gone
  waiting,    \* peers that wait in the lobby
  role,       \* p.role
  host,       \* room.hostID
  lobby,      \* room.lobby
  commands,   \* switches of the lobby and calls of handleRoleControl
  found,      \* the hostID W's join found when it was admitted, or None
  checking,   \* approvals that have found their peer waiting
  approving,  \* approvals that have let it in and not looked at the room yet
  greeting,   \* what joins and approvals have found in the room
  announcing, \* what the reader of a moderator has to say of the lobby, or None
  changing,   \* role changes that have found their peer and those to tell
  sending,    \* what each goroutine has yet to send to W
  (* the page *)
  list,       \* participants: a role or "unknown" for each id
  hostId, lobbyOn,
  joined,     \* "joined" has come
  (* history *)
  crossed,    \* peers of whom W was told out of order (see ListRight)
  mixed       \* the lobby was told out of order (see LobbyRight)

sfuVars == <<stage, waiting, role, host, lobby, commands, found>>
sendVars == <<checking, approving, greeting, announcing, changing, sending>>
pageVars == <<list, hostId, lobbyOn, joined>>
vars == <<sfuVars, sendVars, pageVars, crossed, mixed>>

Lists == UNION {[S -> Role \cup {"unknown"}] : S \in SUBSET Peer}
Message ==
  [type : {"peer-left", "host-changed"}, peer : Peer]
  \cup [type : {"peer-joined"}, roles : Lists, by : Peer]
  \cup [type : {"role-updated"}, roles : Lists, call : 0 .. MaxCommands]
  \cup [type : {"joined"}, roles : Lists, host : Peer \cup {None},
        lobby : BOOLEAN, by : Peer]
Change == [call : 0 .. MaxCommands, peer : Peer, role : Role, told : SUBSET {W}]
\* Whose goroutine lets whom in or has somebody to greet.
Approval == [by : Peer, of : Peer]
Greeting == [by : Peer, of : Peer, others : SUBSET Peer, approved : BOOLEAN,
             lobby : BOOLEAN]

TypeOK ==
  /\ stage \in [Peer -> {"out", "admitted", "in", "gone"}]
  /\ waiting \subseteq Peer
  /\ role \in [Peer -> Role]
  /\ host \in Peer \cup {None}
  /\ lobby \in BOOLEAN /\ commands \in 0 .. MaxCommands
  /\ found \in Peer \cup {None}
  /\ checking \subseteq Approval /\ approving \subseteq Approval
  /\ greeting \subseteq Greeting
  /\ announcing \in [Peer -> BOOLEAN \cup {None}]
  /\ changing \subseteq Change
  /\ \A s \in sending : s \in Seq(Message) /\ s # <<>>
  /\ list \in Lists
  /\ hostId \in Peer \cup {None}
  /\ lobbyOn \in BOOLEAN /\ joined \in BOOLEAN
  /\ crossed \subseteq Peer /\ mixed \in BOOLEAN

Init ==
  /\ stage = [p \in Peer |-> "out"]
  /\ waiting = {} /\ role = InitialRole
  /\ host = None /\ lobby = FALSE /\ commands = 0
  /\ found = None
  /\ checking = {} /\ approving = {} /\ greeting = {}
  /\ announcing = [p \in Peer |-> None]
  /\ changing = {} /\ sending = {}
  /\ list = <<>> /\ hostId = None
  /\ lobbyOn = FALSE /\ joined = FALSE
  /\ crossed = {} /\ mixed = FALSE

-----------------------------------------------------------------------------
(* The SFU *)

In == {p \in Peer : stage[p] = "in"}

PresentAll == In   \* mutant: those in the lobby count

\* Whom announcements go to and whom they are about.
Present == {p \in In : p \notin waiting}

\* Of those a join finds in the room: all for W, for another's join only W.
Others(p) == (IF p = W THEN Peer ELSE {W}) \cap (Present \ {p})

\* One more goroutine has something to send to W, if W is to hear of it.
Tell(told, s) == sending' = IF W \in told THEN sending \cup {s} ELSE sending

\* What a join or an approval finds matters if W is to hear of it.
Finds(g) ==
  greeting' = IF g.of = W \/ W \in g.others THEN greeting \cup {g} ELSE greeting

\* handleWS, the first critical section
Admit(p) ==
  /\ stage[p] = "out"
  /\ stage' = [stage EXCEPT ![p] = "admitted"]
  /\ host' = IF host = None THEN p ELSE host
  /\ found' = IF p = W THEN host' ELSE found
  /\ UNCHANGED <<waiting, role, lobby, commands, sendVars, pageVars,
                 crossed, mixed>>

\* The second: who has to wait is not announced.
Insert(p) ==
  LET waits == lobby /\ role[p] \notin Moderators
  IN /\ stage[p] = "admitted"
     /\ stage' = [stage EXCEPT ![p] = "in"]
     /\ waiting' = IF waits THEN waiting \cup {p} ELSE waiting
     /\ IF waits
        THEN UNCHANGED greeting
        ELSE Finds([by |-> p, of |-> p, others |-> Others(p),
                    approved |-> FALSE, lobby |-> FALSE])
     /\ UNCHANGED <<role, host, lobby, commands, found, checking,
                    approving, announcing, changing, sending, pageVars, crossed,
                    mixed>>

\* The roles as "joined" and "peer-joined" give them: an approval gives none.
Meta(g, S) == [q \in S |-> IF g.approved THEN "unknown" ELSE role[q]]

JoinedOfSelf(g) ==   \* mutant: no hostId
  [type |-> "joined", roles |-> Meta(g, g.others \cup {g.of}),
   host |-> g.of, lobby |-> lobby, by |-> g.by]

JoinedOfOpen(g) ==   \* mutant: no lobby
  [type |-> "joined", roles |-> Meta(g, g.others \cup {g.of}),
   host |-> IF g.approved THEN host ELSE found, lobby |-> FALSE, by |-> g.by]

JoinedOf(g) ==
  [type |-> "joined", roles |-> Meta(g, g.others \cup {g.of}),
   host |-> IF g.approved THEN host ELSE found,
   lobby |-> IF g.approved THEN g.lobby ELSE lobby, by |-> g.by]

PeerJoined(g) ==
  [type |-> "peer-joined", roles |-> Meta(g, {g.of}), by |-> g.by]

\* What the goroutine of a join or an approval will say is put together.
Greet(g) ==
  /\ g \in greeting
  /\ greeting' = greeting \ {g}
  /\ IF g.of = W THEN Tell({W}, <<JoinedOf(g)>>)
     ELSE Tell(g.others, <<PeerJoined(g)>>)
  /\ UNCHANGED <<sfuVars, checking, approving, announcing, changing, pageVars,
                 crossed, mixed>>

\* removePeer, which elects a host among those who remain.
Heirs(S) ==
  LET with(r) == {q \in S : role[q] = r}
  IN IF with("host") # {} THEN with("host")
     ELSE IF with("cohost") # {} THEN with("cohost")
     ELSE S

Leave(p) ==
  LET remaining == Present \ {p}
      left == [type |-> "peer-left", peer |-> p]
  IN /\ p # W /\ stage[p] = "in"
     /\ stage' = [stage EXCEPT ![p] = "gone"]
     /\ IF host = p /\ remaining # {}
        THEN \E h \in Heirs(remaining) :
               /\ host' = h
               /\ Tell(remaining,
                       <<left, [type |-> "host-changed", peer |-> h]>>)
        ELSE /\ host' = IF host = p THEN None ELSE host
             /\ Tell(remaining, <<left>>)
     /\ waiting' = waiting \ {p}
     /\ UNCHANGED <<role, lobby, commands, found, checking, approving,
                    greeting, announcing, changing, pageVars, crossed, mixed>>

\* q's reader waits for its next command, if canModerate lets q give any: one
\* who waits and was made a cohost meanwhile may, too.
Moderates(q) ==
  /\ stage[q] \in {"in", "gone"} /\ role[q] \in Moderators
  /\ announcing[q] = None
  /\ \A a \in checking \cup approving \cup greeting : a.by # q
  /\ \A s \in sending : s[1].type \in {"joined", "peer-joined"} => s[1].by # q

\* "approve", with two looks at the peer and one at the room, each under a lock
\* of its own: two moderators may find the same peer waiting and both go on.
FindWaiting(q, p) ==
  /\ Moderates(q)
  /\ p \in In \cap waiting
  /\ checking' = checking \cup {[by |-> q, of |-> p]}
  /\ UNCHANGED <<sfuVars, approving, greeting, announcing, changing, sending,
                 pageVars, crossed, mixed>>

LetIn(a) ==
  /\ a \in checking
  /\ checking' = checking \ {a} /\ approving' = approving \cup {a}
  /\ waiting' = waiting \ {a.of}
  /\ UNCHANGED <<stage, role, host, lobby, commands, found, greeting,
                 announcing, changing, sending, pageVars, crossed, mixed>>

LookAround(a) ==
  /\ a \in approving
  /\ approving' = approving \ {a}
  /\ Finds([by |-> a.by, of |-> a.of, others |-> Others(a.of),
            approved |-> TRUE, lobby |-> lobby])
  /\ crossed' = IF stage[a.of] = "gone" THEN crossed \cup {a.of} ELSE crossed
  /\ UNCHANGED <<sfuVars, checking, announcing, changing, sending, pageVars,
                 mixed>>

\* A moderator switches the lobby, or says again what it is, and tells everybody
\* under room.mu.
SetLobby(p) ==
  /\ Moderates(p)
  /\ commands < MaxCommands /\ commands' = commands + 1
  /\ lobby' \in BOOLEAN
  /\ announcing' = [announcing EXCEPT ![p] = lobby']
  /\ UNCHANGED <<stage, waiting, role, host, found, checking, approving,
                 greeting, changing, sending, pageVars, crossed, mixed>>

\* handleRoleControl finds the peer, in the lobby too, and those to tell, and
\* changes the role afterwards.
FindPeer(p) ==
  /\ p \in In
  /\ p \in Controlled
  /\ commands < MaxCommands /\ commands' = commands + 1
  /\ \E r \in {"cohost", "member"} :
       changing' = changing \cup
         {[call |-> commands, peer |-> p, role |-> r,
           told |-> {W} \cap Present]}
  /\ UNCHANGED <<stage, waiting, role, host, lobby, found, checking, approving,
                 greeting, announcing, sending, pageVars, crossed, mixed>>

\* A host's role stays, and is told.
NewRole(c) == IF role[c.peer] = "host" THEN "host" ELSE c.role

RoleUpdated(c) ==
  [type |-> "role-updated", roles |-> [q \in {c.peer} |-> NewRole(c)],
   call |-> c.call]

SetRole(c) ==
  /\ c \in changing
  /\ changing' = changing \ {c}
  /\ role' = [role EXCEPT ![c.peer] = NewRole(c)]
  /\ Tell(c.told, <<RoleUpdated(c)>>)
  /\ crossed' = IF /\ c.told = {} /\ W \in Present
                   /\ \A g \in greeting : g.of = W => g.approved
                THEN crossed \cup {c.peer} ELSE crossed
  /\ UNCHANGED <<stage, waiting, host, lobby, commands, found, checking,
                 approving, greeting, announcing, pageVars, mixed>>

-----------------------------------------------------------------------------
(* The page: the handler of ws.onmessage *)

\* g over f, as a spread of records
With(f, g) ==
  [p \in DOMAIN f \cup DOMAIN g |-> IF p \in DOMAIN g THEN g[p] ELSE f[p]]

\* mutant: the entry is emptied
WithoutHole(f, p) == [q \in DOMAIN f |-> IF q = p THEN None ELSE f[q]]

\* removeParticipant
Without(f, p) == [q \in DOMAIN f \ {p} |-> f[q]]

UpdatedNot(g) == list   \* mutant: role-updated is not handled

\* An update finds a participant by its user, which it must know.
Updated(g) ==
  [p \in DOMAIN list |->
     IF p \in DOMAIN g /\ list[p] # "unknown" THEN g[p] ELSE list[p]]

\* The peer's "peer-joined" is still to come.
Announcing(p) ==
  \/ \E a \in approving \cup greeting : a.of = p
  \/ \E s \in sending : s[1].type = "peer-joined" /\ p \in DOMAIN s[1].roles

\* A change of p's role to what it is now is still to come, after m.
Rectified(p, m) ==
  \E s \in sending : /\ s[1].type = "role-updated" /\ s[1] # m
                     /\ p \in DOMAIN s[1].roles /\ s[1].roles[p] = role[p]

\* A second one, of a second approval, replaces what the page had.
OnJoined(m) ==
  LET old == DOMAIN list
      new == DOMAIN m.roles
  IN /\ m.type = "joined"
     /\ list' = m.roles /\ hostId' = m.host /\ lobbyOn' = m.lobby
     /\ joined' = TRUE
     /\ crossed' = IF joined THEN crossed \cup (old \ new) \cup (new \ old)
                   ELSE crossed
     /\ mixed' = (mixed \/ (joined /\ m.lobby # lobby))

\* lobby-on, lobby-off
OnLobby(on) ==
  /\ lobbyOn' = on
  /\ UNCHANGED <<list, hostId, joined>>

OnRole(m) ==
  /\ m.type = "role-updated"
  /\ list' = Updated(m.roles)
  /\ crossed' = crossed \cup {p \in DOMAIN m.roles :
                             \/ p \notin DOMAIN list \/ Announcing(p)
                             \/ m.roles[p] # role[p] /\ ~Rectified(p, m)}
  /\ UNCHANGED <<hostId, lobbyOn, joined, mixed>>

OnPeerJoined(m) ==
  /\ m.type = "peer-joined"
  /\ list' = With(list, m.roles)
  /\ crossed' = IF joined THEN crossed ELSE crossed \cup DOMAIN m.roles
  /\ UNCHANGED <<hostId, lobbyOn, joined, mixed>>

OnPeerLeft(m) ==
  /\ m.type = "peer-left"
  /\ list' = Without(list, m.peer)
  /\ crossed' = IF m.peer \in DOMAIN list /\ ~Announcing(m.peer) THEN crossed
                ELSE crossed \cup {m.peer}
  /\ UNCHANGED <<hostId, lobbyOn, joined, mixed>>

OnHostChanged(m) ==
  /\ m.type = "host-changed"
  /\ hostId' = m.peer
  /\ UNCHANGED <<list, lobbyOn, joined, crossed, mixed>>

\* One of the goroutines sends its next message to W.
Send(s) ==
  /\ s \in sending
  /\ sending' = (sending \ {s}) \cup IF Len(s) = 1 THEN {} ELSE {Tail(s)}
  /\ LET m == Head(s)
     IN \/ OnJoined(m)
        \/ OnRole(m) \/ OnPeerJoined(m) \/ OnPeerLeft(m) \/ OnHostChanged(m)
  /\ UNCHANGED <<sfuVars, checking, approving, greeting, announcing, changing>>

AnnounceLobby(p) ==
  /\ announcing[p] # None
  /\ announcing' = [announcing EXCEPT ![p] = None]
  /\ IF W \in Present THEN OnLobby(announcing[p]) ELSE UNCHANGED pageVars
  /\ mixed' = (mixed \/ announcing[p] # lobby \/ (W \in Present /\ ~joined))
  /\ UNCHANGED <<sfuVars, checking, approving, greeting, changing, sending,
                 crossed>>

-----------------------------------------------------------------------------

Next ==
  \/ \E p \in Peer :
       \/ Admit(p) \/ Insert(p) \/ Leave(p)
       \/ SetLobby(p) \/ AnnounceLobby(p) \/ FindPeer(p)
  \/ \E q, p \in Peer : FindWaiting(q, p)
  \/ \E a \in checking : LetIn(a)
  \/ \E a \in approving : LookAround(a)
  \/ \E g \in greeting : Greet(g)
  \/ \E c \in changing : SetRole(c)
  \/ \E s \in sending : Send(s)

Spec == Init /\ [][Next]_vars

-----------------------------------------------------------------------------
(* Properties *)

\* A page in the lobby learns of no participant, and no page lists one who waits
\* there: six places of main.go filter on p.waiting.
LobbyApart ==
  /\ W \in waiting => list = <<>>
  /\ DOMAIN list \cap waiting = {}

\* W is in the room and has been told all there is to tell.
AtRest ==
  /\ W \in Present /\ joined
  /\ checking = {} /\ approving = {} /\ greeting = {}
  /\ changing = {} /\ sending = {}
  /\ \A p \in Peer : announcing[p] = None

\* The list is that of the room, with the right roles where they are known,
\* except for peers of whom W was told out of order:
\*   - before it had them (before its own "joined", or their "peer-joined"),
\*   - by an approval after they had left,
\*   - differently by two "joined", of two moderators who let W in both,
\*   - of their role by a call that had looked for those to tell before W came
\*     and was carried out after, or by two calls in the wrong order.
ListRight ==
  AtRest => \A p \in Peer \ crossed :
    /\ p \in DOMAIN list <=> p \in Present
    /\ p \in DOMAIN list => list[p] \in {role[p], "unknown"}

\* The page never takes another participant for the host, whatever overtook
\* what: if it is wrong, it shows nobody or one who has left.
HostRight == hostId = host \/ hostId \notin In

\* The switch of the lobby is right, unless two moderators' announcements
\* overtook one another, an announcement W's "joined", or a switch of the lobby
\* a second "joined".
LobbyRight == AtRest /\ ~mixed => lobbyOn = lobby
=============================================================================
