---------------------------- MODULE RosterProofs ----------------------------
(***************************************************************************)
(* Proofs about Roster, whoever joins, leaves, is approved and moderates:  *)
(* its type correctness, that the lobby is kept apart, and that the host,  *)
(* the switch of the lobby and the list the page shows are the room's.     *)
(***************************************************************************)
EXTENDS Roster, SequenceTheorems, TLAPS

RoleOrNot == Role \cup {"unknown"}

-----------------------------------------------------------------------------
(* Lists of participants *)

LEMMA ListsAre ==
  /\ \A S \in SUBSET Peer : [S -> RoleOrNot] \subseteq Lists
  /\ \A f \in Lists : DOMAIN f \in SUBSET Peer /\ f \in [DOMAIN f -> RoleOrNot]
BY DEF Lists, RoleOrNot

LEMMA EmptyList == <<>> \in Lists /\ DOMAIN <<>> = {}
<1>1. <<>> \in [{} -> RoleOrNot] /\ DOMAIN <<>> = {}
  OBVIOUS
<1> QED
  BY <1>1, ListsAre

LEMMA WithIs ==
  ASSUME NEW f \in Lists, NEW g \in Lists
  PROVE  With(f, g) \in Lists /\ DOMAIN With(f, g) = DOMAIN f \cup DOMAIN g
<1>1. /\ DOMAIN f \in SUBSET Peer /\ f \in [DOMAIN f -> RoleOrNot]
      /\ DOMAIN g \in SUBSET Peer /\ g \in [DOMAIN g -> RoleOrNot]
  BY ListsAre
<1>2. With(f, g) \in [DOMAIN f \cup DOMAIN g -> RoleOrNot]
  BY <1>1 DEF With
<1>3. DOMAIN f \cup DOMAIN g \in SUBSET Peer
  BY <1>1
<1> QED
  BY <1>2, <1>3, ListsAre

LEMMA WithoutIs ==
  ASSUME NEW f \in Lists, NEW p
  PROVE  Without(f, p) \in Lists /\ DOMAIN Without(f, p) = DOMAIN f \ {p}
<1>1. DOMAIN f \in SUBSET Peer /\ f \in [DOMAIN f -> RoleOrNot]
  BY ListsAre
<1>2. Without(f, p) \in [DOMAIN f \ {p} -> RoleOrNot]
  BY <1>1 DEF Without
<1>3. DOMAIN f \ {p} \in SUBSET Peer
  BY <1>1
<1> QED
  BY <1>2, <1>3, ListsAre

LEMMA UpdatedIs ==
  ASSUME list \in Lists, NEW g \in Lists
  PROVE  Updated(g) \in Lists /\ DOMAIN Updated(g) = DOMAIN list
<1>1. /\ DOMAIN list \in SUBSET Peer /\ list \in [DOMAIN list -> RoleOrNot]
      /\ g \in [DOMAIN g -> RoleOrNot]
  BY ListsAre
<1>2. Updated(g) \in [DOMAIN list -> RoleOrNot]
  BY <1>1 DEF Updated
<1> QED
  BY <1>1, <1>2, ListsAre

\* Messages as the SFU builds them.
LEMMA JoinedMessage ==
  ASSUME NEW f \in Lists, NEW h \in Peer \cup {None}, NEW on \in BOOLEAN,
         NEW q \in Peer
  PROVE  [type |-> "joined", roles |-> f, host |-> h, lobby |-> on, by |-> q]
           \in Message
BY DEF Message

LEMMA PeerJoinedMessage ==
  ASSUME NEW f \in Lists, NEW q \in Peer
  PROVE  [type |-> "peer-joined", roles |-> f, by |-> q] \in Message
BY DEF Message

LEMMA RoleMessage ==
  ASSUME NEW f \in Lists, NEW n \in 0 .. MaxCommands
  PROVE  [type |-> "role-updated", roles |-> f, call |-> n] \in Message
BY DEF Message

LEMMA PeerMessage ==
  ASSUME NEW p \in Peer, NEW t \in {"peer-left", "host-changed"}
  PROVE  [type |-> t, peer |-> p] \in Message
BY DEF Message

\* What a message of each type carries.
LEMMA MessageHas ==
  ASSUME NEW m \in Message
  PROVE  /\ m.type = "joined" =>
              m.roles \in Lists /\ m.host \in Peer \cup {None} /\ m.lobby \in BOOLEAN
         /\ m.type \in {"peer-joined", "role-updated"} => m.roles \in Lists
         /\ m.type \in {"peer-left", "host-changed"} => m.peer \in Peer
BY DEF Message

-----------------------------------------------------------------------------
(* Types *)

Sendings == \A s \in sending : s \in Seq(Message) /\ s # <<>>

LEMMA TellIs ==
  ASSUME Sendings, NEW told, NEW s \in Seq(Message), s # <<>>, Tell(told, s)
  PROVE  Sendings'
BY DEF Sendings, Tell

LEMMA InitType == Init => TypeOK
<1> SUFFICES ASSUME Init PROVE TypeOK
  OBVIOUS
<1>1. list \in Lists
  BY EmptyList DEF Init
<1>2. role \in [Peer -> Role] /\ commands \in 0 .. MaxCommands
  BY ConstantsAssumption DEF Init
<1> QED
  BY <1>1, <1>2 DEF Init, TypeOK

\* The roles a join or an approval tells are a list.
LEMMA MetaIs ==
  ASSUME TypeOK, NEW g, NEW S \in SUBSET Peer
  PROVE  Meta(g, S) \in Lists /\ DOMAIN Meta(g, S) = S
<1>1. Meta(g, S) \in [S -> RoleOrNot]
  BY DEF Meta, TypeOK, RoleOrNot
<1> QED
  BY <1>1, ListsAre

LEMMA JoinedIs ==
  ASSUME TypeOK, NEW g \in greeting
  PROVE  /\ JoinedOf(g) \in Message /\ JoinedOf(g).type = "joined"
         /\ DOMAIN JoinedOf(g).roles = g.others \cup {g.of}
<1>1. g \in Greeting
  BY DEF TypeOK
<1>2. /\ g.others \cup {g.of} \in SUBSET Peer /\ g.lobby \in BOOLEAN
      /\ g.by \in Peer
  BY <1>1 DEF Greeting
<1> DEFINE f == Meta(g, g.others \cup {g.of})
           h == IF g.approved THEN host ELSE found
           on == IF g.approved THEN g.lobby ELSE lobby
<1>3. f \in Lists /\ DOMAIN f = g.others \cup {g.of}
  BY <1>2, MetaIs
<1>4. h \in Peer \cup {None}
  BY DEF TypeOK
<1>5. on \in BOOLEAN
  BY <1>2 DEF TypeOK
<1>6. JoinedOf(g) =
        [type |-> "joined", roles |-> f, host |-> h, lobby |-> on, by |-> g.by]
  BY DEF JoinedOf
<1> HIDE DEF f, h, on
<1>7. JoinedOf(g) \in Message
  BY <1>2, <1>3, <1>4, <1>5, <1>6, JoinedMessage
<1> QED
  BY <1>3, <1>6, <1>7

LEMMA PeerJoinedIs ==
  ASSUME TypeOK, NEW g \in greeting
  PROVE  /\ PeerJoined(g) \in Message /\ PeerJoined(g).type = "peer-joined"
         /\ DOMAIN PeerJoined(g).roles = {g.of} /\ g.of \in Peer
<1>1. g.of \in Peer /\ g.by \in Peer
  BY DEF TypeOK, Greeting
<1> DEFINE f == Meta(g, {g.of})
<1>2. f \in Lists /\ DOMAIN f = {g.of}
  BY <1>1, MetaIs
<1>3. PeerJoined(g) = [type |-> "peer-joined", roles |-> f, by |-> g.by]
  BY DEF PeerJoined
<1> HIDE DEF f
<1>4. PeerJoined(g) \in Message
  BY <1>1, <1>2, <1>3, PeerJoinedMessage
<1> QED
  BY <1>1, <1>2, <1>3, <1>4

\* What a goroutine says of what it found, and to whom.
LEMMA GreetTells ==
  ASSUME TypeOK, NEW g \in greeting, Greet(g)
  PROVE  \E m \in Message, told \in {{W}, g.others} :
           /\ Tell(told, <<m>>)
           /\ <<m>> \in Seq(Message) /\ <<m>> # <<>>
           /\ m = IF g.of = W THEN JoinedOf(g) ELSE PeerJoined(g)
           /\ told = IF g.of = W THEN {W} ELSE g.others
<1> DEFINE m == IF g.of = W THEN JoinedOf(g) ELSE PeerJoined(g)
           told == IF g.of = W THEN {W} ELSE g.others
<1>1. m \in Message
  BY JoinedIs, PeerJoinedIs
<1>2. Tell(told, <<m>>)
  <2>1. CASE g.of = W
    BY <2>1 DEF Greet
  <2>2. CASE g.of # W
    BY <2>2 DEF Greet
  <2> QED
    BY <2>1, <2>2
<1>3. told \in {{W}, g.others}
  OBVIOUS
<1> HIDE DEF m
<1>4. <<m>> \in Seq(Message) /\ <<m>> # <<>>
  BY <1>1
<1> QED
  BY <1>1, <1>2, <1>3, <1>4 DEF m

LEMMA GreetType ==
  ASSUME TypeOK, NEW g \in greeting, Greet(g)
  PROVE  TypeOK'
<1>1. PICK m \in Message, told \in {{W}, g.others} :
        Tell(told, <<m>>) /\ <<m>> \in Seq(Message) /\ <<m>> # <<>>
  BY GreetTells
<1>2. Sendings'
  BY <1>1, TellIs DEF Sendings, TypeOK
<1>3. greeting' \subseteq Greeting
  BY DEF Greet, TypeOK
<1> QED
  BY <1>2, <1>3 DEF Greet, TypeOK, Sendings, sfuVars, pageVars

LEMMA LeaveType ==
  ASSUME TypeOK, NEW p \in Peer, Leave(p)
  PROVE  TypeOK'
<1> DEFINE left == [type |-> "peer-left", peer |-> p]
<1>1. Sendings
  BY DEF Sendings, TypeOK
<1>2. left \in Message
  BY PeerMessage
<1>3. Present \in SUBSET Peer
  BY DEF Present, In
<1>4. Sendings' /\ host' \in Peer \cup {None}
  <2>1. CASE host = p /\ Present \ {p} # {}
    <3>1. PICK h \in Heirs(Present \ {p}) :
            /\ host' = h
            /\ Tell(Present \ {p}, <<left, [type |-> "host-changed", peer |-> h]>>)
      BY <2>1 DEF Leave
    <3>2. h \in Peer
      BY <1>3, <3>1 DEF Heirs
    <3> DEFINE changed == [type |-> "host-changed", peer |-> h]
    <3>3. changed \in Message
      BY <3>2, PeerMessage
    <3> HIDE DEF left, changed
    <3>4. <<left, changed>> \in Seq(Message) /\ <<left, changed>> # <<>>
      BY <1>2, <3>3
    <3>5. Tell(Present \ {p}, <<left, changed>>)
      BY <3>1 DEF changed
    <3> QED
      BY <1>1, <3>1, <3>2, <3>4, <3>5, TellIs
  <2>2. CASE ~(host = p /\ Present \ {p} # {})
    <3> HIDE DEF left
    <3>1. /\ host' = IF host = p THEN None ELSE host
          /\ Tell(Present \ {p}, <<left>>)
      BY <2>2 DEF Leave, left
    <3>2. <<left>> \in Seq(Message) /\ <<left>> # <<>>
      BY <1>2
    <3> QED
      BY <1>1, <3>1, <3>2, TellIs DEF TypeOK
  <2> QED
    BY <2>1, <2>2
<1>5. stage' \in [Peer -> {"out", "admitted", "in", "gone"}] /\ waiting' \subseteq Peer
  BY DEF Leave, TypeOK
<1> QED
  BY <1>4, <1>5 DEF Leave, TypeOK, Sendings, pageVars

\* What SetRole has to say is a message.
LEMMA RoleTold ==
  ASSUME TypeOK, NEW c \in changing
  PROVE  /\ c.peer \in Peer /\ NewRole(c) \in Role /\ c.told \subseteq {W}
         /\ RoleUpdated(c) \in Message /\ RoleUpdated(c).type = "role-updated"
         /\ DOMAIN RoleUpdated(c).roles = {c.peer}
         /\ RoleUpdated(c).roles[c.peer] = NewRole(c)
<1>1. c \in Change
  BY DEF TypeOK
<1>2. /\ c.peer \in Peer /\ c.call \in 0 .. MaxCommands /\ c.role \in Role
      /\ c.told \subseteq {W}
  BY <1>1 DEF Change
<1>3. NewRole(c) \in Role
  BY <1>2 DEF NewRole, Role
<1> DEFINE f == [q \in {c.peer} |-> NewRole(c)]
<1>4. f \in [{c.peer} -> RoleOrNot] /\ {c.peer} \in SUBSET Peer
  BY <1>2, <1>3 DEF RoleOrNot
<1>5. f \in Lists /\ DOMAIN f = {c.peer} /\ f[c.peer] = NewRole(c)
  BY <1>4, ListsAre
<1>6. RoleUpdated(c) = [type |-> "role-updated", roles |-> f, call |-> c.call]
  BY DEF RoleUpdated
<1> HIDE DEF f
<1>7. RoleUpdated(c) \in Message
  BY <1>2, <1>5, <1>6, RoleMessage
<1> QED
  BY <1>2, <1>3, <1>5, <1>6, <1>7

LEMMA SetRoleType ==
  ASSUME TypeOK, NEW c \in changing, SetRole(c)
  PROVE  TypeOK'
<1>1. /\ c.peer \in Peer /\ NewRole(c) \in Role
      /\ RoleUpdated(c) \in Message
  BY RoleTold
<1>2. Tell(c.told, <<RoleUpdated(c)>>)
  BY DEF SetRole
<1>3. <<RoleUpdated(c)>> \in Seq(Message) /\ <<RoleUpdated(c)>> # <<>>
  BY <1>1
<1>4. Sendings'
  BY <1>2, <1>3, TellIs DEF Sendings, TypeOK
<1>5. role' \in [Peer -> Role] /\ crossed' \subseteq Peer /\ changing' \subseteq Change
  BY <1>1 DEF SetRole, TypeOK
<1> QED
  BY <1>4, <1>5 DEF SetRole, TypeOK, Sendings, pageVars

LEMMA HeadAndTail ==
  ASSUME NEW S, NEW s \in Seq(S), s # <<>>
  PROVE  Head(s) \in S /\ (Len(s) # 1 => Tail(s) \in Seq(S) /\ Tail(s) # <<>>)
<1>1. Len(s) \in Nat /\ Len(s) # 0
  BY EmptySeq, LenProperties
<1>2. Head(s) \in S /\ Tail(s) \in Seq(S) /\ Len(Tail(s)) = Len(s) - 1
  BY HeadTailProperties
<1>3. Len(<<>>) = 0
  OBVIOUS
<1> QED
  BY <1>1, <1>2, <1>3

LEMMA SendType ==
  ASSUME TypeOK, NEW s \in sending, Send(s)
  PROVE  TypeOK'
<1>1. s \in Seq(Message) /\ s # <<>>
  BY DEF TypeOK
<1>2. Head(s) \in Message /\ (Len(s) # 1 => Tail(s) \in Seq(Message) /\ Tail(s) # <<>>)
  BY <1>1, HeadAndTail
<1>3. Sendings'
  BY <1>2 DEF Send, Sendings, TypeOK
<1> DEFINE m == Head(s)
<1>4. /\ list' \in Lists /\ hostId' \in Peer \cup {None}
      /\ lobbyOn' \in BOOLEAN /\ joined' \in BOOLEAN
      /\ crossed' \subseteq Peer /\ mixed' \in BOOLEAN
  <2> HIDE DEF m
  <2>1. m \in Message
    BY <1>2 DEF m
  <2>2. CASE OnJoined(m)
    <3>1. m.roles \in Lists /\ m.host \in Peer \cup {None} /\ m.lobby \in BOOLEAN
      BY <2>1, <2>2, MessageHas DEF OnJoined
    <3>2. DOMAIN m.roles \in SUBSET Peer /\ DOMAIN list \in SUBSET Peer
      BY <3>1, ListsAre DEF TypeOK
    <3>3. crossed' \subseteq Peer
      BY <2>2, <3>2 DEF OnJoined, TypeOK
    <3>4. mixed' \in BOOLEAN
      <4>1. mixed' = (mixed \/ (joined /\ m.lobby # lobby))
        BY <2>2 DEF OnJoined
      <4> QED
        BY <4>1, Zenon
    <3> QED
      BY <2>2, <3>1, <3>3, <3>4 DEF OnJoined
  <2>3. CASE OnRole(m)
    <3>1. m.roles \in Lists
      BY <2>1, <2>3, MessageHas DEF OnRole
    <3> QED
      BY <2>3, <3>1, UpdatedIs, ListsAre DEF OnRole, TypeOK
  <2>4. CASE OnPeerJoined(m)
    <3>1. m.roles \in Lists
      BY <2>1, <2>4, MessageHas DEF OnPeerJoined
    <3> QED
      BY <2>4, <3>1, WithIs, ListsAre DEF OnPeerJoined, TypeOK
  <2>5. CASE OnPeerLeft(m)
    <3>1. m.peer \in Peer
      BY <2>1, <2>5, MessageHas DEF OnPeerLeft
    <3> QED
      BY <2>5, <3>1, WithoutIs DEF OnPeerLeft, TypeOK
  <2>6. CASE OnHostChanged(m)
    BY <2>1, <2>6, MessageHas DEF OnHostChanged, TypeOK
  <2> QED
    BY <2>2, <2>3, <2>4, <2>5, <2>6 DEF Send, m
<1> QED
  BY <1>3, <1>4 DEF Send, TypeOK, Sendings, sfuVars

LEMMA OtherType ==
  ASSUME TypeOK, NEW p \in Peer,
         \/ Admit(p) \/ Insert(p)
         \/ SetLobby(p) \/ AnnounceLobby(p) \/ FindPeer(p)
  PROVE  TypeOK'
<1>0. W \in Peer /\ MaxCommands \in Nat
  BY ConstantsAssumption
<1>1. Others(p) \in SUBSET Peer
  BY DEF Others, Present, In
<1>2. CASE Admit(p)
  BY <1>2 DEF Admit, TypeOK, sendVars, pageVars
<1>3. CASE Insert(p)
  <2>1. greeting' \subseteq Greeting
    <3> DEFINE g == [by |-> p, of |-> p, others |-> Others(p),
                     approved |-> FALSE, lobby |-> FALSE]
    <3>1. g \in Greeting
      BY <1>1 DEF Greeting
    <3>2. greeting' = greeting \/ greeting' = greeting \cup {g}
      BY <1>3 DEF Insert, Finds
    <3> HIDE DEF g
    <3> QED
      BY <3>1, <3>2 DEF TypeOK
  <2>2. stage' \in [Peer -> {"out", "admitted", "in", "gone"}] /\ waiting' \subseteq Peer
    BY <1>3 DEF Insert, TypeOK
  <2> QED
    BY <1>3, <2>1, <2>2 DEF Insert, TypeOK, pageVars
<1>6. CASE SetLobby(p)
  <2>1. commands' \in 0 .. MaxCommands /\ lobby' \in BOOLEAN
    BY <1>0, <1>6 DEF SetLobby, TypeOK
  <2>2. announcing' \in [Peer -> BOOLEAN \cup {None}]
    BY <1>6, <2>1 DEF SetLobby, TypeOK
  <2> QED
    BY <1>6, <2>1, <2>2 DEF SetLobby, TypeOK, pageVars
<1>7. CASE AnnounceLobby(p)
  <2>1. announcing' \in [Peer -> BOOLEAN \cup {None}]
    BY <1>7 DEF AnnounceLobby, TypeOK
  <2>2. announcing[p] \in BOOLEAN
    BY <1>7 DEF AnnounceLobby, TypeOK
  <2>3. /\ lobbyOn' \in BOOLEAN
        /\ UNCHANGED <<list, hostId, joined>>
    BY <1>7, <2>2 DEF AnnounceLobby, OnLobby, TypeOK, pageVars
  <2>4. mixed' \in BOOLEAN
    <3>1. mixed' = (mixed \/ announcing[p] # lobby \/ (W \in Present /\ ~joined))
      BY <1>7 DEF AnnounceLobby
    <3> QED
      BY <3>1, Zenon
  <2> QED
    BY <1>7, <2>1, <2>3, <2>4 DEF AnnounceLobby, TypeOK, sfuVars
<1>8. CASE FindPeer(p)
  <2>1. changing' \subseteq Change
    <3>1. PICK r \in {"cohost", "member"} :
            changing' = changing \cup
              {[call |-> commands, peer |-> p, role |-> r, told |-> {W} \cap Present]}
      BY <1>8 DEF FindPeer
    <3>2. [call |-> commands, peer |-> p, role |-> r, told |-> {W} \cap Present]
            \in Change
      BY <3>1 DEF Change, Role, TypeOK
    <3> QED
      BY <3>1, <3>2 DEF TypeOK
  <2>2. commands' \in 0 .. MaxCommands
    BY <1>0, <1>8 DEF FindPeer, TypeOK
  <2> QED
    BY <1>8, <2>1, <2>2 DEF FindPeer, TypeOK, pageVars
<1> QED
  BY <1>2, <1>3, <1>6, <1>7, <1>8

\* The three steps of an approval.
LEMMA ApprovalType ==
  ASSUME TypeOK,
         \/ \E q, p \in Peer : FindWaiting(q, p)
         \/ \E a \in checking : LetIn(a)
         \/ \E a \in approving : LookAround(a)
  PROVE  TypeOK'
<1>1. ASSUME NEW q \in Peer, NEW p \in Peer, FindWaiting(q, p)
      PROVE  TypeOK'
  <2>1. [by |-> q, of |-> p] \in Approval
    BY DEF Approval
  <2>2. checking' \subseteq Approval
    BY <1>1, <2>1 DEF FindWaiting, TypeOK
  <2> QED
    BY <1>1, <2>2 DEF FindWaiting, TypeOK, sfuVars, pageVars
<1>2. ASSUME NEW a \in checking, LetIn(a)
      PROVE  TypeOK'
  BY <1>2 DEF LetIn, TypeOK, pageVars
<1>3. ASSUME NEW a \in approving, LookAround(a)
      PROVE  TypeOK'
  <2>1. a.by \in Peer /\ a.of \in Peer
    BY DEF TypeOK, Approval
  <2> DEFINE g == [by |-> a.by, of |-> a.of, others |-> Others(a.of),
                   approved |-> TRUE, lobby |-> lobby]
  <2>2. g \in Greeting
    <3>1. Others(a.of) \in SUBSET Peer
      BY DEF Others, Present, In
    <3> QED
      BY <2>1, <3>1 DEF Greeting, TypeOK
  <2>3. greeting' = greeting \/ greeting' = greeting \cup {g}
    BY <1>3 DEF LookAround, Finds
  <2> HIDE DEF g
  <2>4. greeting' \subseteq Greeting
    BY <2>2, <2>3 DEF TypeOK
  <2>5. approving' \subseteq Approval /\ crossed' \subseteq Peer
    BY <1>3, <2>1 DEF LookAround, TypeOK
  <2> QED
    BY <1>3, <2>4, <2>5 DEF LookAround, TypeOK, sfuVars, pageVars
<1> QED
  BY <1>1, <1>2, <1>3

LEMMA TypeStep == TypeOK /\ [Next]_vars => TypeOK'
<1> SUFFICES ASSUME TypeOK, [Next]_vars
             PROVE  TypeOK'
  OBVIOUS
<1>1. CASE UNCHANGED vars
  BY <1>1 DEF vars, sfuVars, sendVars, pageVars, TypeOK
<1> QED
  BY <1>1, GreetType, LeaveType, SetRoleType, SendType, OtherType, ApprovalType
  DEF Next

\* The state of the SFU, what it sends and what the page makes of it are of the
\* right shape in every behaviour.
THEOREM TypeCorrect == Spec => []TypeOK
BY InitType, TypeStep, PTL DEF Spec

-----------------------------------------------------------------------------
(* The lobby *)

\* Those the room may be told of: who waits, or is not in yet, is not among them.
SeenOnes == {p \in Peer : stage[p] \in {"in", "gone"} /\ p \notin waiting}

\* Whom a message puts in the list.
Tells(m) == IF m.type \in {"joined", "peer-joined"} THEN DOMAIN m.roles ELSE {}

Queued == \A s \in sending : \A i \in DOMAIN s : Tells(s[i]) \subseteq SeenOnes
Greeted == \A g \in greeting : g.of \in SeenOnes /\ g.others \subseteq SeenOnes
Checked == \A a \in checking : stage[a.of] \in {"in", "gone"}
Approved == \A a \in approving : a.of \in SeenOnes

\* Every name on its way to the page is of one who does not wait, and nothing is
\* on its way to a page that waits.
LobbyInv ==
  /\ TypeOK
  /\ \A p \in waiting : stage[p] = "in"
  /\ Checked /\ Approved /\ Greeted
  /\ \A c \in changing : c.told \subseteq SeenOnes
  /\ Queued
  /\ DOMAIN list \subseteq SeenOnes
  /\ W \notin SeenOnes => sending = {} /\ list = <<>>

LEMMA InitLobby == Init => LobbyInv
<1> SUFFICES ASSUME Init PROVE LobbyInv
  OBVIOUS
<1>1. DOMAIN list = {}
  BY EmptyList DEF Init
<1> QED
  BY <1>1, InitType DEF Init, LobbyInv, Checked, Approved, Greeted, Queued

LEMMA LobbyApartHolds == LobbyInv => LobbyApart
BY DEF LobbyInv, LobbyApart, SeenOnes

LEMMA PresentSeen == ASSUME LobbyInv PROVE Present \subseteq SeenOnes
BY DEF Present, In, SeenOnes

\* What a step leaves to be shown when it lets nobody out of those seen.
LEMMA Kept ==
  ASSUME LobbyInv, TypeOK', SeenOnes \subseteq SeenOnes'
  PROVE  /\ UNCHANGED <<checking, stage>> => Checked'
         /\ UNCHANGED approving => Approved'
         /\ UNCHANGED greeting => Greeted'
         /\ UNCHANGED sending => Queued'
         /\ UNCHANGED changing => \A c \in changing' : c.told \subseteq SeenOnes'
         /\ UNCHANGED list => DOMAIN list' \subseteq SeenOnes'
         /\ UNCHANGED <<sending, list>> =>
              (W \notin SeenOnes' => sending' = {} /\ list' = <<>>)
<1>1. UNCHANGED sending => Queued'
  <2> SUFFICES ASSUME UNCHANGED sending, NEW s \in sending, NEW i \in DOMAIN s
               PROVE  Tells(s[i]) \subseteq SeenOnes'
    BY DEF Queued, Tells
  <2> QED
    BY DEF LobbyInv, Queued
<1>2. UNCHANGED greeting => Greeted'
  BY DEF LobbyInv, Greeted
<1> QED
  BY <1>1, <1>2 DEF LobbyInv, Checked, Approved

\* A message more for the page.
LEMMA TellKeeps ==
  ASSUME LobbyInv, SeenOnes \subseteq SeenOnes', UNCHANGED list,
         NEW told \in SUBSET SeenOnes, NEW s \in Seq(Message), Tell(told, s),
         \A i \in DOMAIN s : Tells(s[i]) \subseteq SeenOnes'
  PROVE  /\ Queued'
         /\ W \notin SeenOnes' => sending' = {} /\ list' = <<>>
<1>1. Queued'
  <2> SUFFICES ASSUME NEW t \in sending', NEW i \in DOMAIN t
               PROVE  Tells(t[i]) \subseteq SeenOnes'
    BY DEF Queued, Tells
  <2>1. t = s \/ t \in sending
    BY DEF Tell
  <2> QED
    BY <2>1 DEF LobbyInv, Queued
<1>2. W \notin SeenOnes' => sending' = {} /\ list' = <<>>
  BY DEF Tell, LobbyInv
<1> QED
  BY <1>1, <1>2

LEMMA GreetLobby ==
  ASSUME LobbyInv, TypeOK', NEW g \in greeting, Greet(g)
  PROVE  LobbyInv'
<1>0. /\ TypeOK /\ UNCHANGED <<stage, waiting, checking, approving, changing, list>>
      /\ greeting' = greeting \ {g}
  BY DEF LobbyInv, Greet, sfuVars, pageVars
<1>1. SeenOnes' = SeenOnes
  BY <1>0 DEF SeenOnes
<1>2. g.of \in SeenOnes /\ g.others \subseteq SeenOnes
  BY DEF LobbyInv, Greeted
<1>3. Greeted'
  BY <1>0, <1>1 DEF LobbyInv, Greeted
<1>4. Queued' /\ (W \notin SeenOnes' => sending' = {} /\ list' = <<>>)
  <2>1. PICK m \in Message, told \in {{W}, g.others} :
          /\ Tell(told, <<m>>) /\ <<m>> \in Seq(Message)
          /\ m = IF g.of = W THEN JoinedOf(g) ELSE PeerJoined(g)
          /\ told = IF g.of = W THEN {W} ELSE g.others
    BY <1>0, GreetTells
  <2>2. told \in SUBSET SeenOnes
    BY <1>2, <2>1
  <2>3. Tells(m) \subseteq SeenOnes'
    BY <1>0, <1>1, <1>2, <2>1, JoinedIs, PeerJoinedIs DEF Tells
  <2>4. \A i \in DOMAIN <<m>> : Tells(<<m>>[i]) \subseteq SeenOnes'
    BY <2>3
  <2> QED
    BY <1>0, <1>1, <2>1, <2>2, <2>4, TellKeeps
<1> QED
  BY <1>0, <1>1, <1>3, <1>4, Kept DEF LobbyInv

LEMMA LeaveLobby ==
  ASSUME LobbyInv, TypeOK', NEW p \in Peer, Leave(p)
  PROVE  LobbyInv'
<1> DEFINE left == [type |-> "peer-left", peer |-> p]
<1>0. /\ TypeOK /\ UNCHANGED <<checking, approving, greeting, changing, list>>
      /\ stage' = [stage EXCEPT ![p] = "gone"] /\ waiting' = waiting \ {p}
  BY DEF LobbyInv, Leave, pageVars
<1>1. SeenOnes \subseteq SeenOnes'
  BY <1>0 DEF SeenOnes, TypeOK
<1>2. \A q \in waiting' : stage'[q] = "in"
  BY <1>0 DEF LobbyInv, TypeOK
<1>3. Present \ {p} \in SUBSET SeenOnes
  BY PresentSeen
<1>4. left \in Message /\ Tells(left) = {}
  BY PeerMessage DEF Tells
<1>5. Queued' /\ (W \notin SeenOnes' => sending' = {} /\ list' = <<>>)
  <2>1. CASE host = p /\ Present \ {p} # {}
    <3>1. PICK h \in Heirs(Present \ {p}) :
            Tell(Present \ {p}, <<left, [type |-> "host-changed", peer |-> h]>>)
      BY <2>1 DEF Leave
    <3>2. h \in Peer
      BY <3>1 DEF Heirs, Present, In
    <3> DEFINE changed == [type |-> "host-changed", peer |-> h]
               s == <<left, changed>>
    <3>3. changed \in Message /\ Tells(changed) = {}
      BY <3>2, PeerMessage DEF Tells
    <3>4. Tell(Present \ {p}, s)
      BY <3>1
    <3> HIDE DEF left, changed
    <3>5. s \in Seq(Message) /\ \A i \in DOMAIN s : s[i] = left \/ s[i] = changed
      BY <1>4, <3>3
    <3>6. \A i \in DOMAIN s : Tells(s[i]) \subseteq SeenOnes'
      BY <1>4, <3>3, <3>5
    <3> HIDE DEF s
    <3> QED
      BY <1>0, <1>1, <1>3, <3>4, <3>5, <3>6, TellKeeps
  <2>2. CASE ~(host = p /\ Present \ {p} # {})
    <3> DEFINE s == <<left>>
    <3>1. Tell(Present \ {p}, s)
      BY <2>2 DEF Leave
    <3> HIDE DEF left
    <3>2. s \in Seq(Message) /\ \A i \in DOMAIN s : s[i] = left
      BY <1>4
    <3>3. \A i \in DOMAIN s : Tells(s[i]) \subseteq SeenOnes'
      BY <1>4, <3>2
    <3> HIDE DEF s
    <3> QED
      BY <1>0, <1>1, <1>3, <3>1, <3>2, <3>3, TellKeeps
  <2> QED
    BY <2>1, <2>2
<1>6. Checked'
  BY <1>0 DEF LobbyInv, Checked, TypeOK
<1> QED
  BY <1>0, <1>1, <1>2, <1>5, <1>6, Kept DEF LobbyInv

LEMMA SetRoleLobby ==
  ASSUME LobbyInv, TypeOK', NEW c \in changing, SetRole(c)
  PROVE  LobbyInv'
<1>0. /\ TypeOK /\ UNCHANGED <<stage, waiting, checking, approving, greeting, list>>
      /\ changing' \subseteq changing
  BY DEF LobbyInv, SetRole, pageVars
<1>1. SeenOnes' = SeenOnes
  BY <1>0 DEF SeenOnes
<1> DEFINE m == RoleUpdated(c)
           s == <<m>>
<1>2. Tell(c.told, s) /\ c.told \in SUBSET SeenOnes
  BY DEF SetRole, LobbyInv
<1>3. m \in Message /\ Tells(m) = {}
  BY <1>0, RoleTold DEF Tells
<1> HIDE DEF m
<1>4. s \in Seq(Message) /\ \A i \in DOMAIN s : s[i] = m
  BY <1>3
<1>5. \A i \in DOMAIN s : Tells(s[i]) \subseteq SeenOnes'
  BY <1>3, <1>4
<1> HIDE DEF s
<1>6. Queued' /\ (W \notin SeenOnes' => sending' = {} /\ list' = <<>>)
  BY <1>0, <1>1, <1>2, <1>4, <1>5, TellKeeps
<1>7. \A d \in changing' : d.told \subseteq SeenOnes'
  BY <1>0, <1>1 DEF LobbyInv
<1> QED
  BY <1>0, <1>1, <1>6, <1>7, Kept DEF LobbyInv

LEMMA SendLobby ==
  ASSUME LobbyInv, TypeOK', NEW s \in sending, Send(s)
  PROVE  LobbyInv'
<1>0. /\ TypeOK
      /\ UNCHANGED <<stage, waiting, checking, approving, greeting, changing>>
  BY DEF LobbyInv, Send, sfuVars
<1>1. SeenOnes' = SeenOnes
  BY <1>0 DEF SeenOnes
<1>2. W \in SeenOnes
  BY DEF LobbyInv
<1>3. s \in Seq(Message) /\ s # <<>>
  BY <1>0 DEF TypeOK
<1>4. \A i \in DOMAIN s : Tells(s[i]) \subseteq SeenOnes
  BY DEF LobbyInv, Queued
<1>5. Head(s) \in Message /\ Tells(Head(s)) \subseteq SeenOnes
  <2>1. Len(s) \in Nat /\ Len(s) # 0 /\ DOMAIN s = 1 .. Len(s)
    BY <1>3, EmptySeq, LenProperties
  <2>2. 1 \in DOMAIN s /\ Head(s) = s[1]
    BY <1>3, <2>1
  <2> QED
    BY <1>3, <1>4, <2>2, HeadAndTail
<1>6. Queued'
  <2> SUFFICES ASSUME NEW t \in sending', NEW i \in DOMAIN t
               PROVE  Tells(t[i]) \subseteq SeenOnes
    BY <1>1 DEF Queued, Tells
  <2>1. CASE t \in sending
    BY <2>1 DEF LobbyInv, Queued
  <2>2. CASE t = Tail(s) /\ Len(s) # 1
    <3>1. /\ Tail(s) \in Seq(Message) /\ Len(Tail(s)) = Len(s) - 1
          /\ \A j \in 1 .. Len(Tail(s)) : Tail(s)[j] = s[j + 1]
      BY <1>3, HeadTailProperties
    <3>2. /\ Len(s) \in Nat /\ DOMAIN s = 1 .. Len(s)
          /\ DOMAIN Tail(s) = 1 .. Len(Tail(s))
      BY <1>3, <3>1, LenProperties
    <3>3. i \in 1 .. Len(Tail(s)) /\ t[i] = s[i + 1]
      BY <2>2, <3>1, <3>2
    <3>4. i + 1 \in DOMAIN s
      BY <3>1, <3>2, <3>3
    <3> QED
      BY <1>4, <3>3, <3>4
  <2> QED
    BY <2>1, <2>2 DEF Send
<1> DEFINE m == Head(s)
<1>7. DOMAIN list' \subseteq SeenOnes
  <2>0. list \in Lists /\ DOMAIN list \subseteq SeenOnes
    BY <1>0 DEF LobbyInv, TypeOK
  <2> HIDE DEF m
  <2>1. m \in Message /\ Tells(m) \subseteq SeenOnes
    BY <1>5 DEF m
  <2>2. CASE OnJoined(m)
    BY <2>1, <2>2 DEF OnJoined, Tells
  <2>3. CASE OnRole(m)
    <3>1. m.roles \in Lists /\ list' = Updated(m.roles)
      BY <2>1, <2>3, MessageHas DEF OnRole
    <3> QED
      BY <2>0, <3>1, UpdatedIs
  <2>4. CASE OnPeerJoined(m)
    <3>1. m.roles \in Lists /\ list' = With(list, m.roles) /\ m.type = "peer-joined"
      BY <2>1, <2>4, MessageHas DEF OnPeerJoined
    <3>2. DOMAIN m.roles \subseteq SeenOnes
      BY <2>1, <3>1 DEF Tells
    <3>3. DOMAIN list' = DOMAIN list \cup DOMAIN m.roles
      BY <2>0, <3>1, WithIs
    <3> QED
      BY <2>0, <3>2, <3>3
  <2>5. CASE OnPeerLeft(m)
    <3>1. list' = Without(list, m.peer)
      BY <2>5 DEF OnPeerLeft
    <3> QED
      BY <2>0, <3>1, WithoutIs
  <2>6. CASE OnHostChanged(m)
    BY <2>0, <2>6 DEF OnHostChanged
  <2> QED
    BY <2>2, <2>3, <2>4, <2>5, <2>6 DEF Send, m
<1> QED
  BY <1>0, <1>1, <1>2, <1>6, <1>7, Kept DEF LobbyInv

\* The steps that say nothing, when they leave what is right of what was found.
LEMMA Silent ==
  ASSUME LobbyInv, TypeOK', UNCHANGED <<sending, list>>, SeenOnes \subseteq SeenOnes',
         \A q \in waiting' : stage'[q] = "in",
         Checked', Approved',
         \A c \in changing' : c \in changing \/ c.told \subseteq Present,
         \A g \in greeting' :
           g \in greeting \/ (g.of \in SeenOnes' /\ g.others \subseteq Present)
  PROVE  LobbyInv'
<1>1. Greeted'
  BY PresentSeen DEF LobbyInv, Greeted
<1>2. \A c \in changing' : c.told \subseteq SeenOnes'
  BY PresentSeen DEF LobbyInv
<1> QED
  BY <1>1, <1>2, Kept DEF LobbyInv

LEMMA OtherLobby ==
  ASSUME LobbyInv, TypeOK', NEW p \in Peer,
         Admit(p) \/ Insert(p) \/ SetLobby(p) \/ AnnounceLobby(p) \/ FindPeer(p)
  PROVE  LobbyInv'
<1>0. TypeOK /\ UNCHANGED <<checking, approving, sending, list>>
  BY DEF LobbyInv, Admit, Insert, SetLobby, AnnounceLobby, FindPeer, OnLobby,
         sfuVars, sendVars, pageVars
<1>1. Checked /\ Approved /\ \A q \in waiting : stage[q] = "in"
  BY DEF LobbyInv
<1>2. CASE Admit(p)
  <2>1. SeenOnes \subseteq SeenOnes'
    BY <1>0, <1>2 DEF Admit, SeenOnes, TypeOK
  <2>2. Checked' /\ Approved' /\ \A q \in waiting' : stage'[q] = "in"
    BY <1>0, <1>1, <1>2, <2>1 DEF Admit, Checked, Approved, TypeOK
  <2> QED
    BY <1>0, <1>2, <2>1, <2>2, Silent DEF Admit, sendVars
<1>3. CASE Insert(p)
  <2>1. SeenOnes \subseteq SeenOnes'
    BY <1>0, <1>3 DEF Insert, SeenOnes, TypeOK
  <2>2. Checked' /\ Approved' /\ \A q \in waiting' : stage'[q] = "in"
    BY <1>0, <1>1, <1>3, <2>1 DEF Insert, Checked, Approved, TypeOK
  <2>3. \A g \in greeting' :
          g \in greeting \/ (g.of \in SeenOnes' /\ g.others \subseteq Present)
    <3> SUFFICES ASSUME NEW g \in greeting', g \notin greeting
                 PROVE  g.of \in SeenOnes' /\ g.others \subseteq Present
      OBVIOUS
    <3>1. /\ ~(lobby /\ role[p] \notin Moderators)
          /\ g.of = p /\ g.others = Others(p)
      BY <1>3 DEF Insert, Finds
    <3>2. p \in SeenOnes'
      BY <1>0, <1>1, <1>3, <3>1 DEF Insert, SeenOnes, TypeOK
    <3> QED
      BY <3>1, <3>2 DEF Others
  <2> QED
    BY <1>0, <1>3, <2>1, <2>2, <2>3, Silent DEF Insert
<1>4. CASE SetLobby(p) \/ AnnounceLobby(p) \/ FindPeer(p)
  <2>1. UNCHANGED <<stage, waiting, greeting>>
    BY <1>4 DEF SetLobby, AnnounceLobby, FindPeer, sfuVars
  <2>2. SeenOnes' = SeenOnes
    BY <2>1 DEF SeenOnes
  <2>3. Checked' /\ Approved'
    BY <1>0, <1>1, <2>1, <2>2 DEF Checked, Approved
  <2>4. \A c \in changing' : c \in changing \/ c.told \subseteq Present
    BY <1>4 DEF SetLobby, AnnounceLobby, FindPeer
  <2> QED
    BY <1>0, <1>1, <2>1, <2>2, <2>3, <2>4, Silent
<1> QED
  BY <1>2, <1>3, <1>4

\* An approval lets out one more, who is in the room or has left it.
LEMMA ApprovalLobby ==
  ASSUME LobbyInv, TypeOK',
         \/ \E q, p \in Peer : FindWaiting(q, p)
         \/ \E a \in checking : LetIn(a)
         \/ \E a \in approving : LookAround(a)
  PROVE  LobbyInv'
<1>0. TypeOK /\ Checked /\ Approved /\ \A q \in waiting : stage[q] = "in"
  BY DEF LobbyInv
<1>1. ASSUME NEW q \in Peer, NEW p \in Peer, FindWaiting(q, p)
      PROVE  LobbyInv'
  <2>1. /\ UNCHANGED <<stage, waiting, approving, greeting, changing, sending, list>>
        /\ checking' = checking \cup {[by |-> q, of |-> p]} /\ stage[p] = "in"
    BY <1>1 DEF FindWaiting, In, sfuVars, pageVars
  <2>2. SeenOnes' = SeenOnes
    BY <2>1 DEF SeenOnes
  <2>3. Checked' /\ Approved'
    BY <1>0, <2>1, <2>2 DEF Checked, Approved
  <2> QED
    BY <1>0, <2>1, <2>2, <2>3, Silent
<1>2. ASSUME NEW a \in checking, LetIn(a)
      PROVE  LobbyInv'
  <2>1. /\ UNCHANGED <<stage, greeting, changing, sending, list>>
        /\ checking' = checking \ {a} /\ approving' = approving \cup {a}
        /\ waiting' = waiting \ {a.of}
    BY <1>2 DEF LetIn, pageVars
  <2>2. SeenOnes \subseteq SeenOnes'
    BY <2>1 DEF SeenOnes
  <2>3. a.of \in SeenOnes'
    <3>1. a.of \in Peer
      BY <1>0 DEF TypeOK, Approval
    <3> QED
      BY <1>0, <2>1, <3>1 DEF SeenOnes, Checked
  <2>4. Checked' /\ Approved'
    BY <1>0, <2>1, <2>2, <2>3 DEF Checked, Approved
  <2> QED
    BY <1>0, <2>1, <2>2, <2>4, Silent
<1>3. ASSUME NEW a \in approving, LookAround(a)
      PROVE  LobbyInv'
  <2>1. /\ UNCHANGED <<stage, waiting, checking, changing, sending, list>>
        /\ approving' = approving \ {a}
    BY <1>3 DEF LookAround, sfuVars, pageVars
  <2>2. SeenOnes' = SeenOnes
    BY <2>1 DEF SeenOnes
  <2>3. Checked' /\ Approved'
    BY <1>0, <2>1, <2>2 DEF Checked, Approved
  <2>4. \A g \in greeting' :
          g \in greeting \/ (g.of \in SeenOnes' /\ g.others \subseteq Present)
    <3> SUFFICES ASSUME NEW g \in greeting', g \notin greeting
                 PROVE  g.of \in SeenOnes' /\ g.others \subseteq Present
      OBVIOUS
    <3>1. g.of = a.of /\ g.others = Others(a.of)
      BY <1>3 DEF LookAround, Finds
    <3> QED
      BY <1>0, <2>2, <3>1 DEF Approved, Others
  <2> QED
    BY <1>0, <2>1, <2>2, <2>3, <2>4, Silent
<1> QED
  BY <1>1, <1>2, <1>3

LEMMA LobbyStep == LobbyInv /\ [Next]_vars => LobbyInv'
<1> SUFFICES ASSUME LobbyInv, [Next]_vars
             PROVE  LobbyInv'
  OBVIOUS
<1>1. TypeOK'
  BY TypeStep DEF LobbyInv
<1>2. CASE UNCHANGED vars
  <2>1. SeenOnes' = SeenOnes
    BY <1>2 DEF vars, sfuVars, SeenOnes
  <2> QED
    BY <1>1, <1>2, <2>1, Kept DEF vars, sfuVars, sendVars, pageVars, LobbyInv
<1> QED
  BY <1>1, <1>2, GreetLobby, LeaveLobby, SetRoleLobby, SendLobby, OtherLobby,
     ApprovalLobby DEF Next

\* A page in the lobby learns of nobody and no page lists one who waits there,
\* whatever overtakes what between the SFU's goroutines.
THEOREM LobbyKeptApart == Spec => []LobbyApart
BY InitLobby, LobbyStep, LobbyApartHolds, PTL DEF Spec

-----------------------------------------------------------------------------
(* What is on its way to the page *)

Within(M) == \A s \in sending : \A i \in DOMAIN s : s[i] \in M

\* A message more, and one less.
LEMMA TellWithin ==
  ASSUME NEW M, Within(M), NEW told, NEW s, Tell(told, s),
         W \in told => \A i \in DOMAIN s : s[i] \in M
  PROVE  Within(M)'
BY DEF Within, Tell

LEMMA SendWithin ==
  ASSUME TypeOK, NEW s \in sending, Send(s)
  PROVE  /\ \A M : Within(M) => Within(M)' /\ Head(s) \in M
         /\ s \in Seq(Message) /\ s # <<>> /\ Head(s) \in Message
         /\ 1 \in DOMAIN s /\ Head(s) = s[1]
<1>1. s \in Seq(Message) /\ s # <<>>
  BY DEF TypeOK
<1>2. Len(s) \in Nat /\ Len(s) # 0 /\ DOMAIN s = 1 .. Len(s)
  BY <1>1, EmptySeq, LenProperties
<1>3. 1 \in DOMAIN s /\ Head(s) = s[1] /\ Head(s) \in Message
  BY <1>1, <1>2, HeadAndTail
<1>4. ASSUME NEW M, Within(M)
      PROVE  Within(M)' /\ Head(s) \in M
  <2>1. \A i \in DOMAIN s : s[i] \in M
    BY <1>4 DEF Within
  <2>2. ASSUME NEW t \in sending', NEW i \in DOMAIN t
        PROVE  t[i] \in M
    <3>1. CASE t \in sending
      BY <1>4, <2>2, <3>1 DEF Within
    <3>2. CASE t = Tail(s) /\ Len(s) # 1
      <4>1. /\ Len(Tail(s)) = Len(s) - 1 /\ Tail(s) \in Seq(Message)
            /\ \A j \in 1 .. Len(Tail(s)) : Tail(s)[j] = s[j + 1]
        BY <1>1, HeadTailProperties
      <4>2. DOMAIN Tail(s) = 1 .. Len(Tail(s))
        BY <4>1, LenProperties
      <4>3. i \in 1 .. Len(Tail(s)) /\ t[i] = s[i + 1]
        BY <2>2, <3>2, <4>1, <4>2
      <4>4. i + 1 \in DOMAIN s
        BY <1>2, <4>1, <4>3
      <4> QED
        BY <2>1, <4>3, <4>4
    <3> QED
      BY <2>2, <3>1, <3>2 DEF Send
  <2>3. Within(M)'
    BY <2>2 DEF Within
  <2> QED
    BY <1>3, <2>1, <2>3
<1> QED
  BY <1>1, <1>3, <1>4

-----------------------------------------------------------------------------
(* The host *)

\* Whoever was host is it still, or has left.
HostOnes == {host, None} \cup {p \in Peer : stage[p] = "gone"}

\* Whom a message makes the host.
Names(m) == IF m.type = "joined" THEN {m.host}
            ELSE IF m.type = "host-changed" THEN {m.peer} ELSE {}

Naming(H) == {m \in Message : Names(m) \subseteq H}

\* Whoever the page has for the host, or a message makes the host, is one.
HostInv ==
  /\ {found, hostId} \subseteq HostOnes
  /\ Within(Naming(HostOnes))

LEMMA InitHost == Init => HostInv
BY DEF Init, HostInv, HostOnes, Within

LEMMA HostRightHolds == TypeOK /\ HostInv => HostRight
BY ConstantsAssumption DEF TypeOK, HostInv, HostOnes, HostRight, In

\* The host changes when there is none, and when it leaves.
LEMMA HostGrows ==
  ASSUME TypeOK, [Next]_vars
  PROVE  HostOnes \subseteq HostOnes'
<1>1. ASSUME NEW p \in Peer, Admit(p)
      PROVE  HostOnes \subseteq HostOnes'
  BY <1>1 DEF Admit, TypeOK, HostOnes
<1>2. ASSUME NEW p \in Peer, Leave(p)
      PROVE  HostOnes \subseteq HostOnes'
  <2>1. host' = host \/ (host = p /\ stage'[p] = "gone")
    BY <1>2 DEF Leave, TypeOK
  <2>2. \A q \in Peer : stage[q] = "gone" => stage'[q] = "gone"
    BY <1>2 DEF Leave, TypeOK
  <2> QED
    BY <2>1, <2>2 DEF HostOnes
<1>3. ASSUME NEW p \in Peer, Insert(p)
      PROVE  HostOnes \subseteq HostOnes'
  BY <1>3 DEF Insert, TypeOK, HostOnes
<1>4. UNCHANGED <<stage, host>> => HostOnes \subseteq HostOnes'
  BY DEF HostOnes
<1>5. CASE \/ \E p \in Peer : SetLobby(p) \/ AnnounceLobby(p) \/ FindPeer(p)
           \/ \E q, p \in Peer : FindWaiting(q, p)
           \/ \E a \in checking : LetIn(a)
           \/ \E a \in approving : LookAround(a)
           \/ \E g \in greeting : Greet(g)
  <2>1. UNCHANGED <<stage, host>>
    BY <1>5 DEF Greet, FindWaiting, LetIn, LookAround, SetLobby, AnnounceLobby,
                FindPeer, sfuVars
  <2> QED
    BY <1>4, <2>1
<1>6. ASSUME NEW c \in changing, SetRole(c)
      PROVE  UNCHANGED <<stage, host>>
  BY <1>6 DEF SetRole
<1>7. ASSUME NEW s \in sending, Send(s)
      PROVE  UNCHANGED <<stage, host>>
  BY <1>7 DEF Send, sfuVars
<1>8. CASE UNCHANGED vars
  BY <1>4, <1>8 DEF vars, sfuVars
<1> QED
  BY <1>1, <1>2, <1>3, <1>4, <1>5, <1>6, <1>7, <1>8 DEF Next

LEMMA WithinMore ==
  ASSUME NEW M, NEW N, M \subseteq N, Within(M)
  PROVE  Within(N)
BY DEF Within

LEMMA NamingMore ==
  ASSUME NEW H, NEW K, H \subseteq K
  PROVE  Naming(H) \subseteq Naming(K)
BY DEF Naming

LEMMA HostStep == TypeOK /\ TypeOK' /\ HostInv /\ [Next]_vars => HostInv'
<1> SUFFICES ASSUME TypeOK, TypeOK', HostInv, [Next]_vars
             PROVE  HostInv'
  OBVIOUS
<1>1. PICK H : H = HostOnes'
  OBVIOUS
<1>2. HostOnes \subseteq H /\ host' \in H /\ None \in H
  BY <1>1, HostGrows DEF HostOnes
<1>3. {found, hostId, host} \subseteq H
  BY <1>2 DEF HostInv, HostOnes
<1>4. Within(Naming(H))
  BY <1>2, NamingMore, WithinMore DEF HostInv
<1> SUFFICES {found', hostId'} \subseteq H /\ Within(Naming(H))'
  BY <1>1 DEF HostInv, Within, Naming, Names
<1> DEFINE M == Naming(H)
<1>5. UNCHANGED sending => Within(M)'
  BY <1>4 DEF Within
<1> HIDE DEF M
<1>6. ASSUME NEW g \in greeting, Greet(g)
      PROVE  {found', hostId'} \subseteq H /\ Within(M)'
  <2>1. found' = found /\ hostId' = hostId
    BY <1>6 DEF Greet, sfuVars, pageVars
  <2>2. PICK m \in Message, told \in {{W}, g.others} :
          /\ Tell(told, <<m>>)
          /\ m = IF g.of = W THEN JoinedOf(g) ELSE PeerJoined(g)
    BY <1>6, GreetTells
  <2>3. JoinedOf(g).type = "joined" /\ PeerJoined(g).type = "peer-joined"
    BY JoinedIs, PeerJoinedIs
  <2>4. JoinedOf(g).host \in {host, found}
    BY DEF JoinedOf
  <2>5. m \in M
    BY <1>3, <2>2, <2>3, <2>4 DEF M, Naming, Names
  <2>6. \A i \in DOMAIN <<m>> : <<m>>[i] \in M
    BY <2>5
  <2>7. Within(M)'
    BY <1>4, <2>2, <2>6, TellWithin DEF M
  <2> QED
    BY <1>3, <2>1, <2>7
<1>7. ASSUME NEW p \in Peer, Leave(p)
      PROVE  {found', hostId'} \subseteq H /\ Within(M)'
  <2> DEFINE left == [type |-> "peer-left", peer |-> p]
  <2>1. found' = found /\ hostId' = hostId
    BY <1>7 DEF Leave, pageVars
  <2>2. left \in Message /\ left.type = "peer-left"
    BY PeerMessage
  <2>3. left \in M
    BY <2>2 DEF M, Naming, Names
  <2>4. CASE host = p /\ Present \ {p} # {}
    <3>1. PICK h \in Heirs(Present \ {p}) :
            /\ host' = h
            /\ Tell(Present \ {p}, <<left, [type |-> "host-changed", peer |-> h]>>)
      BY <1>7, <2>4 DEF Leave
    <3> DEFINE changed == [type |-> "host-changed", peer |-> h]
    <3>2. h \in Peer /\ h \in H
      BY <1>2, <3>1 DEF Heirs, Present, In
    <3>3. changed \in M
      BY <3>2, PeerMessage DEF M, Naming, Names
    <3>4. Tell(Present \ {p}, <<left, changed>>)
      BY <3>1
    <3> HIDE DEF left, changed
    <3>5. \A i \in DOMAIN <<left, changed>> : <<left, changed>>[i] \in M
      BY <2>3, <3>3
    <3>6. Within(M)'
      BY <1>4, <3>4, <3>5, TellWithin DEF M
    <3> QED
      BY <1>3, <2>1, <3>6
  <2>5. CASE ~(host = p /\ Present \ {p} # {})
    <3>1. Tell(Present \ {p}, <<left>>)
      BY <1>7, <2>5 DEF Leave
    <3> HIDE DEF left
    <3>2. \A i \in DOMAIN <<left>> : <<left>>[i] \in M
      BY <2>3
    <3>3. Within(M)'
      BY <1>4, <3>1, <3>2, TellWithin DEF M
    <3> QED
      BY <1>3, <2>1, <3>3
  <2> QED
    BY <2>4, <2>5
<1>8. ASSUME NEW c \in changing, SetRole(c)
      PROVE  {found', hostId'} \subseteq H /\ Within(M)'
  <2> DEFINE m == RoleUpdated(c)
  <2>1. m \in M
    BY RoleTold DEF M, Naming, Names
  <2>2. Tell(c.told, <<m>>) /\ found' = found /\ hostId' = hostId
    BY <1>8 DEF SetRole, pageVars
  <2> HIDE DEF m
  <2>3. \A i \in DOMAIN <<m>> : <<m>>[i] \in M
    BY <2>1
  <2>4. Within(M)'
    BY <1>4, <2>2, <2>3, TellWithin DEF M
  <2> QED
    BY <1>3, <2>2, <2>4
<1>9. ASSUME NEW s \in sending, Send(s)
      PROVE  {found', hostId'} \subseteq H /\ Within(M)'
  <2>1. Within(M)' /\ Head(s) \in M
    BY <1>4, <1>9, SendWithin DEF M
  <2> DEFINE m == Head(s)
  <2>2. Names(m) \subseteq H
    BY <2>1 DEF M, Naming
  <2>3. found' = found
    BY <1>9 DEF Send, sfuVars
  <2>4. hostId' = hostId \/ hostId' \in Names(m)
    <3> HIDE DEF m
    <3>1. CASE OnJoined(m)
      BY <3>1 DEF OnJoined, Names
    <3>2. CASE OnHostChanged(m)
      BY <3>2 DEF OnHostChanged, Names
    <3>3. CASE OnRole(m) \/ OnPeerJoined(m) \/ OnPeerLeft(m)
      BY <3>3 DEF OnRole, OnPeerJoined, OnPeerLeft
    <3> QED
      BY <1>9, <3>1, <3>2, <3>3 DEF Send, m
  <2> QED
    BY <1>3, <2>1, <2>2, <2>3, <2>4
<1>10. CASE \/ \E p \in Peer : \/ Admit(p) \/ Insert(p) \/ SetLobby(p)
                               \/ AnnounceLobby(p) \/ FindPeer(p)
            \/ \E q, p \in Peer : FindWaiting(q, p)
            \/ \E a \in checking : LetIn(a)
            \/ \E a \in approving : LookAround(a)
  <2>1. sending' = sending /\ hostId' = hostId
    BY <1>10 DEF Admit, Insert, FindWaiting, LetIn, LookAround, SetLobby,
                 AnnounceLobby, FindPeer, OnLobby, sendVars, pageVars
  <2>2. found' \in {found, host'}
    BY <1>10 DEF Admit, Insert, FindWaiting, LetIn, LookAround, SetLobby,
                 AnnounceLobby, FindPeer, sfuVars
  <2> QED
    BY <1>2, <1>3, <1>5, <2>1, <2>2 DEF M
<1>11. CASE UNCHANGED vars
  BY <1>3, <1>5, <1>11 DEF vars, sfuVars, sendVars, pageVars, M
<1> QED
  BY <1>6, <1>7, <1>8, <1>9, <1>10, <1>11 DEF Next, M

\* The page never takes another participant for the host: a host is host until
\* it leaves (main.go removePeer), so that what is late names one who has left.
THEOREM HostNeverAnother == Spec => []HostRight
BY InitType, TypeStep, InitHost, HostStep, HostRightHolds, PTL DEF Spec

-----------------------------------------------------------------------------
(* What comes next *)

\* Only "host-changed" follows another message, "peer-left".
Shape ==
  \A s \in sending :
    \/ Len(s) = 1
    \/ Len(s) = 2 /\ s[1].type = "peer-left" /\ s[2].type = "host-changed"

Heads == {s[1] : s \in sending}

LEMMA InitShape == Init => Shape /\ Heads = {}
BY DEF Init, Shape, Heads

\* A goroutine has one message to send, or two.
LEMMA TellHeads ==
  ASSUME Shape, NEW told, NEW s, Tell(told, s),
         \/ Len(s) = 1
         \/ Len(s) = 2 /\ s[1].type = "peer-left" /\ s[2].type = "host-changed"
  PROVE  /\ Shape'
         /\ Heads' = IF W \in told THEN Heads \cup {s[1]} ELSE Heads
<1>1. sending' = IF W \in told THEN sending \cup {s} ELSE sending
  BY DEF Tell
<1>2. Shape'
  BY <1>1 DEF Shape
<1>3. Heads' = IF W \in told THEN Heads \cup {s[1]} ELSE Heads
  BY <1>1 DEF Heads
<1> QED
  BY <1>2, <1>3

\* It sends the first.
LEMMA SendHeads ==
  ASSUME TypeOK, Shape, NEW s \in sending, Send(s)
  PROVE  /\ Shape'
         /\ Head(s) \in Heads /\ Head(s) \in Message
         /\ \A n \in Heads : n # Head(s) => n \in Heads'
         /\ \A n \in Heads' : n \in Heads \/ n.type = "host-changed"
         /\ Head(s).type # "peer-left" => Head(s) \notin Heads'
<1>1. /\ s \in Seq(Message) /\ s # <<>> /\ Head(s) \in Message
      /\ 1 \in DOMAIN s /\ Head(s) = s[1]
  BY SendWithin
<1>2. sending' = (sending \ {s}) \cup IF Len(s) = 1 THEN {} ELSE {Tail(s)}
  BY DEF Send
<1>3. Len(s) # 1 =>
        /\ Len(s) = 2 /\ s[1].type = "peer-left" /\ s[2].type = "host-changed"
        /\ Len(Tail(s)) = 1 /\ Tail(s)[1] = s[2]
  <2> SUFFICES ASSUME Len(s) # 1
               PROVE  /\ Len(s) = 2 /\ s[1].type = "peer-left" /\ s[2].type = "host-changed"
                      /\ Len(Tail(s)) = 1 /\ Tail(s)[1] = s[2]
    OBVIOUS
  <2>1. Len(s) = 2 /\ s[1].type = "peer-left" /\ s[2].type = "host-changed"
    BY DEF Shape
  <2>2. /\ Len(Tail(s)) = Len(s) - 1
        /\ \A j \in 1 .. Len(Tail(s)) : Tail(s)[j] = s[j + 1]
    BY <1>1, HeadTailProperties
  <2> QED
    BY <2>1, <2>2
<1>4. Shape'
  BY <1>2, <1>3 DEF Shape
<1>5. \A t \in sending' : (t \in sending /\ t # s) \/ t[1].type = "host-changed"
  BY <1>2, <1>3
<1>6. \A t \in sending : t # s => t \in sending'
  BY <1>2
<1>7. \A n \in Heads : n # Head(s) => n \in Heads'
  BY <1>1, <1>6 DEF Heads
<1>8. \A n \in Heads' : n \in Heads \/ n.type = "host-changed"
  BY <1>5 DEF Heads
<1>9. ASSUME Head(s).type # "peer-left" PROVE Head(s) \notin Heads'
  <2> SUFFICES ASSUME NEW t \in sending', t[1] = Head(s) PROVE FALSE
    BY DEF Heads
  <2>1. Len(s) = 1 /\ sending' = sending \ {s}
    BY <1>1, <1>2, <1>3, <1>9
  <2>2. t \in sending /\ t # s /\ t \in Seq(Message)
    BY <2>1 DEF TypeOK
  <2>3. Len(t) = 1
    BY <1>9, <2>2 DEF Shape
  <2>4. \A i \in 1 .. Len(t) : t[i] = s[i]
    BY <1>1, <2>3
  <2> QED
    BY <1>1, <2>1, <2>2, <2>3, <2>4, SeqEqual
<1> QED
  BY <1>1, <1>4, <1>7, <1>8, <1>9 DEF Heads


LEMMA GreetHeads ==
  ASSUME TypeOK, Shape, NEW g \in greeting, Greet(g)
  PROVE  /\ Shape'
         /\ g.of = W => Heads' = Heads \cup {JoinedOf(g)}
         /\ g.of # W =>
              Heads' = IF W \in g.others THEN Heads \cup {PeerJoined(g)} ELSE Heads
<1>1. PICK m \in Message, told \in {{W}, g.others} :
        /\ Tell(told, <<m>>)
        /\ m = IF g.of = W THEN JoinedOf(g) ELSE PeerJoined(g)
        /\ told = IF g.of = W THEN {W} ELSE g.others
  BY GreetTells
<1>2. Len(<<m>>) = 1 /\ <<m>>[1] = m
  OBVIOUS
<1>3. Shape' /\ Heads' = IF W \in told THEN Heads \cup {m} ELSE Heads
  BY <1>1, <1>2, TellHeads
<1> QED
  BY <1>1, <1>3

LEMMA LeaveHeads ==
  ASSUME TypeOK, Shape, NEW p \in Peer, Leave(p)
  PROVE  /\ Shape'
         /\ Heads' = IF W \in Present \ {p}
                     THEN Heads \cup {[type |-> "peer-left", peer |-> p]}
                     ELSE Heads
<1> DEFINE left == [type |-> "peer-left", peer |-> p]
<1>1. left.type = "peer-left"
  OBVIOUS
<1>2. CASE host = p /\ Present \ {p} # {}
  <2>1. PICK h : Tell(Present \ {p}, <<left, [type |-> "host-changed", peer |-> h]>>)
    BY <1>2 DEF Leave
  <2> DEFINE changed == [type |-> "host-changed", peer |-> h]
  <2>2. Tell(Present \ {p}, <<left, changed>>) /\ changed.type = "host-changed"
    BY <2>1
  <2> HIDE DEF left, changed
  <2>3. /\ Len(<<left, changed>>) = 2
        /\ <<left, changed>>[1] = left /\ <<left, changed>>[2] = changed
    OBVIOUS
  <2>4. Shape' /\ Heads' = IF W \in Present \ {p} THEN Heads \cup {left} ELSE Heads
    BY <1>1, <2>2, <2>3, TellHeads
  <2> QED
    BY <2>4 DEF left
<1>3. CASE ~(host = p /\ Present \ {p} # {})
  <2>1. Tell(Present \ {p}, <<left>>)
    BY <1>3 DEF Leave
  <2> HIDE DEF left
  <2>2. Len(<<left>>) = 1 /\ <<left>>[1] = left
    OBVIOUS
  <2>3. Shape' /\ Heads' = IF W \in Present \ {p} THEN Heads \cup {left} ELSE Heads
    BY <2>1, <2>2, TellHeads
  <2> QED
    BY <2>3 DEF left
<1> QED
  BY <1>2, <1>3

LEMMA SetRoleHeads ==
  ASSUME TypeOK, Shape, NEW c \in changing, SetRole(c)
  PROVE  /\ Shape'
         /\ Heads' = IF W \in c.told THEN Heads \cup {RoleUpdated(c)} ELSE Heads
<1> DEFINE m == RoleUpdated(c)
<1>1. Tell(c.told, <<m>>)
  BY DEF SetRole
<1> HIDE DEF m
<1>2. Len(<<m>>) = 1 /\ <<m>>[1] = m
  OBVIOUS
<1>3. Shape' /\ Heads' = IF W \in c.told THEN Heads \cup {m} ELSE Heads
  BY <1>1, <1>2, TellHeads
<1> QED
  BY <1>3 DEF m

LEMMA OtherHeads ==
  ASSUME Shape, UNCHANGED sending
  PROVE  Shape' /\ Heads' = Heads
BY DEF Shape, Heads

-----------------------------------------------------------------------------
(* How far W is on its way in *)

JoinedOnes == {m \in Heads : m.type = "joined"}
Admissions == {g \in greeting : g.of = W}

\* W's own join tells roles, an approval none.
Known(m) == \E p \in DOMAIN m.roles : m.roles[p] # "unknown"

\* A moderator is letting W in.
LettingIn == \E a \in checking \cup approving : a.of = W

\* W is greeted when it is in the room, by its own join, alone, or by approvals.
Entering ==
  /\ Shape /\ stage[W] # "gone"
  /\ \/ \E a \in approving : a.of = W
     \/ Admissions # {} \/ JoinedOnes # {} \/ joined
     => W \in Present
  /\ \A g \in Admissions : ~g.approved =>
       Admissions = {g} /\ JoinedOnes = {} /\ ~joined /\ ~LettingIn
  /\ \A m \in JoinedOnes : Known(m) =>
       JoinedOnes = {m} /\ Admissions = {} /\ ~joined /\ ~LettingIn

LEMMA InitEntering == Init => Entering
BY InitShape, ConstantsAssumption
DEF Init, Entering, JoinedOnes, Admissions, LettingIn

\* Once in, W stays.
LEMMA PresentStays ==
  ASSUME LobbyInv, [Next]_vars, W \in Present
  PROVE  W \in Present'
<1>0. stage[W] = "in" /\ W \notin waiting /\ W \in Peer /\ TypeOK
  BY DEF Present, In, LobbyInv
<1>1. ASSUME stage'[W] = "in", W \notin waiting'
      PROVE  W \in Present'
  BY <1>0, <1>1 DEF Present, In
<1>2. ASSUME NEW p \in Peer, Admit(p) \/ Insert(p) \/ Leave(p)
      PROVE  stage'[W] = "in" /\ W \notin waiting'
  BY <1>0, <1>2 DEF Admit, Insert, Leave, TypeOK
<1>3. CASE \/ \E p \in Peer : SetLobby(p) \/ AnnounceLobby(p) \/ FindPeer(p)
           \/ \E q, p \in Peer : FindWaiting(q, p)
           \/ \E a \in checking : LetIn(a)
           \/ \E a \in approving : LookAround(a)
           \/ \E g \in greeting : Greet(g)
           \/ \E c \in changing : SetRole(c)
           \/ \E s \in sending : Send(s)
           \/ UNCHANGED vars
  <2>1. stage' = stage /\ waiting' \subseteq waiting
    BY <1>3 DEF Greet, FindWaiting, LetIn, LookAround, SetLobby, AnnounceLobby,
                FindPeer, SetRole, Send, vars, sfuVars
  <2> QED
    BY <1>0, <1>1, <2>1
<1> QED
  BY <1>1, <1>2, <1>3 DEF Next

LEMMA EnteringStep == LobbyInv /\ Entering /\ [Next]_vars => Entering'
<1> SUFFICES ASSUME LobbyInv, Entering, [Next]_vars
             PROVE  Entering'
  OBVIOUS
<1>0. TypeOK /\ Shape /\ W \in Peer
  BY ConstantsAssumption DEF LobbyInv, Entering
<1>1. W \in Present => W \in Present'
  BY PresentStays
<1>2. W \notin Present =>
        /\ Admissions = {} /\ JoinedOnes = {} /\ ~joined
        /\ \A a \in approving : a.of # W
  BY DEF Entering
\* Nothing of W's own progress changes.
<1>3. ASSUME Shape', UNCHANGED <<JoinedOnes, Admissions, joined>>,
             checking' = checking, approving' = approving, stage'[W] = stage[W]
      PROVE  Entering'
  BY <1>1, <1>3 DEF Entering, Known, LettingIn
<1>4. ASSUME UNCHANGED sending PROVE Shape' /\ JoinedOnes' = JoinedOnes
  BY <1>0, <1>4, OtherHeads DEF JoinedOnes
<1>5. UNCHANGED greeting => Admissions' = Admissions
  BY DEF Admissions
<1>6. ASSUME NEW g \in greeting, Greet(g)
      PROVE  Entering'
  <2>1. Shape' /\ UNCHANGED <<stage, checking, approving, joined>>
    BY <1>0, <1>6, GreetHeads DEF Greet, sfuVars, pageVars
  <2>2. greeting' = greeting \ {g}
    BY <1>6 DEF Greet
  <2>3. CASE g.of = W
    <3>1. g \in Admissions /\ W \in Present /\ Admissions' = Admissions \ {g}
      BY <2>2, <2>3 DEF Entering, Admissions
    <3> DEFINE m == JoinedOf(g)
    <3>2. Heads' = Heads \cup {m} /\ m.type = "joined"
      BY <1>0, <1>6, <2>3, GreetHeads, JoinedIs
    <3>3. g.approved => ~Known(m)
      BY DEF JoinedOf, Meta, Known
    <3> HIDE DEF m
    <3>4. JoinedOnes' = JoinedOnes \cup {m}
      BY <3>2 DEF JoinedOnes
    <3>5. LettingIn' = LettingIn
      BY <2>1 DEF LettingIn
    <3>6. CASE g.approved
      <4>1. /\ \A h \in Admissions : h.approved
            /\ \A n \in JoinedOnes : ~Known(n)
        BY <3>1, <3>6 DEF Entering
      <4> QED
        BY <1>1, <2>1, <3>1, <3>3, <3>4, <3>6, <4>1 DEF Entering, Known
    <3>7. CASE ~g.approved
      <4>1. Admissions = {g} /\ JoinedOnes = {} /\ ~joined /\ ~LettingIn
        BY <3>1, <3>7 DEF Entering
      <4> QED
        BY <1>1, <2>1, <3>1, <3>4, <3>5, <4>1 DEF Entering
    <3> QED
      BY <3>6, <3>7
  <2>4. CASE g.of # W
    <3> DEFINE m == PeerJoined(g)
    <3>1. Heads' = Heads \/ Heads' = Heads \cup {m}
      BY <1>0, <1>6, <2>4, GreetHeads
    <3>2. m.type = "peer-joined"
      BY <1>0, PeerJoinedIs
    <3> HIDE DEF m
    <3>3. JoinedOnes' = JoinedOnes
      BY <3>1, <3>2 DEF JoinedOnes
    <3>4. Admissions' = Admissions
      BY <2>2, <2>4 DEF Admissions
    <3> QED
      BY <1>3, <2>1, <3>3, <3>4
  <2> QED
    BY <2>3, <2>4
<1>7. ASSUME NEW p \in Peer, Leave(p)
      PROVE  Entering'
  <2> DEFINE m == [type |-> "peer-left", peer |-> p]
  <2>1. Shape' /\ (Heads' = Heads \/ Heads' = Heads \cup {m}) /\ m.type = "peer-left"
    BY <1>0, <1>7, LeaveHeads
  <2> HIDE DEF m
  <2>2. JoinedOnes' = JoinedOnes
    BY <2>1 DEF JoinedOnes
  <2>3. UNCHANGED <<checking, approving, greeting, joined>> /\ stage'[W] = stage[W]
    BY <1>0, <1>7 DEF Leave, pageVars, TypeOK
  <2> QED
    BY <1>3, <1>5, <2>1, <2>2, <2>3
<1>8. ASSUME NEW c \in changing, SetRole(c)
      PROVE  Entering'
  <2> DEFINE m == RoleUpdated(c)
  <2>1. Shape' /\ (Heads' = Heads \/ Heads' = Heads \cup {m}) /\ m.type = "role-updated"
    BY <1>0, <1>8, SetRoleHeads, RoleTold
  <2> HIDE DEF m
  <2>2. JoinedOnes' = JoinedOnes
    BY <2>1 DEF JoinedOnes
  <2> QED
    BY <1>3, <1>5, <1>8, <2>1, <2>2 DEF SetRole, pageVars
<1>9. ASSUME NEW s \in sending, Send(s)
      PROVE  Entering'
  <2> DEFINE m == Head(s)
  <2>1. /\ Shape' /\ m \in Heads
        /\ \A n \in Heads : n # m => n \in Heads'
        /\ \A n \in Heads' : n \in Heads \/ n.type = "host-changed"
        /\ m.type # "peer-left" => m \notin Heads'
    BY <1>0, <1>9, SendHeads
  <2>2. UNCHANGED <<stage, checking, approving, greeting>>
    BY <1>9 DEF Send, sfuVars
  <2>3. \/ OnJoined(m) \/ OnRole(m) \/ OnPeerJoined(m)
        \/ OnPeerLeft(m) \/ OnHostChanged(m)
    BY <1>9 DEF Send
  <2> HIDE DEF m
  <2>4. CASE OnJoined(m)
    <3>1. m \in JoinedOnes /\ joined'
      BY <2>1, <2>4 DEF OnJoined, JoinedOnes
    <3>2. JoinedOnes' = JoinedOnes \ {m}
      BY <2>1, <3>1 DEF JoinedOnes
    <3>3. W \in Present /\ \A g \in Admissions : g.approved
      BY <3>1 DEF Entering
    <3>4. \A n \in JoinedOnes' : ~Known(n)
      BY <3>1, <3>2 DEF Entering
    <3> QED
      BY <1>1, <1>5, <2>1, <2>2, <3>1, <3>3, <3>4 DEF Entering, Known
  <2>5. CASE OnRole(m) \/ OnPeerJoined(m) \/ OnPeerLeft(m) \/ OnHostChanged(m)
    <3>1. m.type # "joined" /\ joined' = joined
      BY <2>5 DEF OnRole, OnPeerJoined, OnPeerLeft, OnHostChanged
    <3>2. JoinedOnes' = JoinedOnes
      BY <2>1, <3>1 DEF JoinedOnes
    <3> QED
      BY <1>3, <1>5, <2>1, <2>2, <3>1, <3>2
  <2> QED
    BY <2>3, <2>4, <2>5
<1>10. ASSUME NEW p \in Peer, Insert(p)
       PROVE  Entering'
  <2>1. UNCHANGED <<checking, approving, sending, joined>>
    BY <1>10 DEF Insert, pageVars
  <2> DEFINE g == [by |-> p, of |-> p, others |-> Others(p),
                   approved |-> FALSE, lobby |-> FALSE]
  <2>2. g.of = p
    OBVIOUS
  <2>3. greeting' = greeting \/ greeting' = greeting \cup {g}
    BY <1>10 DEF Insert, Finds
  <2>4. CASE p = W
    <3>1. W \notin Present /\ stage[W] = "admitted"
      BY <1>10, <2>4 DEF Insert, Present, In
    <3>2. ~LettingIn
      BY <1>2, <3>1 DEF LettingIn, LobbyInv, Checked
    <3>3. Admissions' = {} \/ (Admissions' = {g} /\ greeting' # greeting)
      BY <1>2, <2>2, <2>3, <2>4, <3>1 DEF Admissions
    <3>4. greeting' # greeting => W \in Present'
      BY <1>0, <1>10, <2>4 DEF Insert, Present, In, TypeOK, LobbyInv
    <3>5. stage'[W] # "gone"
      BY <1>0, <1>10, <2>4 DEF Insert, TypeOK
    <3>6. ~LettingIn'
      BY <2>1, <3>2 DEF LettingIn
    <3> HIDE DEF g
    <3> QED
      BY <1>2, <1>4, <2>1, <3>1, <3>3, <3>4, <3>5, <3>6 DEF Entering
  <2>5. CASE p # W
    <3>1. Admissions' = Admissions
      BY <2>2, <2>3, <2>5 DEF Admissions
    <3>2. stage'[W] = stage[W]
      BY <1>0, <1>10, <2>5 DEF Insert, TypeOK
    <3> QED
      BY <1>3, <1>4, <2>1, <3>1, <3>2
  <2> QED
    BY <2>4, <2>5
<1>11. ASSUME NEW q \in Peer, NEW p \in Peer, FindWaiting(q, p)
       PROVE  Entering'
  <2>1. /\ UNCHANGED <<stage, approving, greeting, sending, joined>>
        /\ checking' = checking \cup {[by |-> q, of |-> p]} /\ p \in waiting
    BY <1>11 DEF FindWaiting, sfuVars, pageVars
  <2>2. CASE p = W
    <3>1. W \notin Present
      BY <2>1, <2>2 DEF Present
    <3> QED
      BY <1>2, <1>4, <1>5, <2>1, <3>1 DEF Entering
  <2>3. CASE p # W
    <3>1. LettingIn' = LettingIn
      BY <2>1, <2>3 DEF LettingIn
    <3> QED
      BY <1>1, <1>4, <1>5, <2>1, <3>1 DEF Entering, Known
  <2> QED
    BY <2>2, <2>3
<1>12. ASSUME NEW a \in checking, LetIn(a)
       PROVE  Entering'
  <2>1. /\ UNCHANGED <<stage, greeting, sending, joined>>
        /\ checking' = checking \ {a} /\ approving' = approving \cup {a}
        /\ waiting' = waiting \ {a.of}
    BY <1>12 DEF LetIn, pageVars
  <2>2. a.of = W => W \in Present'
    BY <1>0, <2>1 DEF Entering, LobbyInv, Checked, Present, In
  <2>3. LettingIn' = LettingIn
    BY <2>1 DEF LettingIn
  <2> QED
    BY <1>1, <1>4, <1>5, <2>1, <2>2, <2>3 DEF Entering, Known
<1>13. ASSUME NEW a \in approving, LookAround(a)
       PROVE  Entering'
  <2>1. /\ UNCHANGED <<stage, checking, sending, joined>>
        /\ approving' = approving \ {a}
    BY <1>13 DEF LookAround, sfuVars, pageVars
  <2> DEFINE g == [by |-> a.by, of |-> a.of, others |-> Others(a.of),
                   approved |-> TRUE, lobby |-> lobby]
  <2>2. g.of = a.of /\ g.approved
    OBVIOUS
  <2>3. greeting' = greeting \/ greeting' = greeting \cup {g}
    BY <1>13 DEF LookAround, Finds
  <2> HIDE DEF g
  <2>4. LettingIn' => LettingIn
    BY <2>1 DEF LettingIn
  <2>5. CASE a.of = W
    <3>1. LettingIn /\ W \in Present
      BY <2>5 DEF LettingIn, Entering
    <3>2. /\ \A h \in Admissions : h.approved
          /\ \A n \in JoinedOnes : ~Known(n)
      BY <3>1 DEF Entering
    <3>3. \A h \in Admissions' : h.approved
      BY <2>2, <2>3, <3>2 DEF Admissions
    <3> QED
      BY <1>1, <1>4, <2>1, <3>1, <3>2, <3>3 DEF Entering, Known
  <2>6. CASE a.of # W
    <3>1. Admissions' = Admissions
      BY <2>2, <2>3, <2>6 DEF Admissions
    <3> QED
      BY <1>1, <1>4, <2>1, <2>4, <3>1 DEF Entering, Known
  <2> QED
    BY <2>5, <2>6
<1>14. ASSUME NEW p \in Peer, Admit(p) \/ SetLobby(p) \/ AnnounceLobby(p) \/ FindPeer(p)
       PROVE  Entering'
  <2>1. UNCHANGED <<checking, approving, greeting, sending, joined>>
    BY <1>14 DEF Admit, SetLobby, AnnounceLobby, OnLobby, FindPeer, sendVars, pageVars
  <2>2. stage'[W] # "gone"
    BY <1>0, <1>14 DEF Admit, SetLobby, AnnounceLobby, FindPeer, sfuVars, TypeOK,
                       Entering
  <2> QED
    BY <1>1, <1>4, <1>5, <2>1, <2>2 DEF Entering, Known, LettingIn
<1>15. CASE UNCHANGED vars
  BY <1>3, <1>4, <1>5, <1>15 DEF vars, sfuVars, sendVars, pageVars
<1> QED
  BY <1>6, <1>7, <1>8, <1>9, <1>10, <1>11, <1>12, <1>13, <1>14, <1>15 DEF Next

-----------------------------------------------------------------------------
(* The switch of the lobby *)

\* Right, or about to be announced.
Fresh(on) == on = lobby \/ \E p \in Peer : announcing[p] = lobby

\* As long as nothing got mixed up, what the page has of the switch, or is going
\* to have first, is right or about to be announced.
FreshInv ==
  ~mixed =>
    /\ joined => Fresh(lobbyOn)
    /\ ~joined =>
         /\ \A m \in JoinedOnes : Fresh(m.lobby)
         /\ \A g \in Admissions : g.approved => Fresh(g.lobby)

LEMMA InitFresh == Init => FreshInv
BY InitShape DEF Init, FreshInv, JoinedOnes, Admissions

LEMMA LobbyRightHolds == TypeOK /\ FreshInv => LobbyRight
<1> SUFFICES ASSUME TypeOK, FreshInv, AtRest, ~mixed PROVE lobbyOn = lobby
  BY DEF LobbyRight
<1>1. joined /\ \A p \in Peer : announcing[p] = None
  BY DEF AtRest
<1>2. Fresh(lobbyOn)
  BY <1>1 DEF FreshInv
<1>3. lobby # None
  BY ConstantsAssumption DEF TypeOK
<1> QED
  BY <1>1, <1>2, <1>3 DEF Fresh

\* Which of the messages to come are W's "joined".
LEMMA JoinedStep ==
  ASSUME LobbyInv, Entering, [Next]_vars
  PROVE  \A m \in JoinedOnes' :
           \/ m \in JoinedOnes
           \/ \E g \in Admissions : Greet(g) /\ m = JoinedOf(g)
<1>0. TypeOK /\ Shape /\ W \in Peer
  BY ConstantsAssumption DEF LobbyInv, Entering
<1> SUFFICES ASSUME NEW m \in Heads', m.type = "joined", m \notin Heads
             PROVE  \E g \in Admissions : Greet(g) /\ m = JoinedOf(g)
  BY DEF JoinedOnes
<1>1. ASSUME NEW g \in greeting, Greet(g)
      PROVE  g \in Admissions /\ m = JoinedOf(g)
  <2>1. CASE g.of = W
    BY <1>0, <1>1, <2>1, GreetHeads DEF Admissions
  <2>2. CASE g.of # W
    <3> DEFINE n == PeerJoined(g)
    <3>1. (Heads' = Heads \/ Heads' = Heads \cup {n}) /\ n.type = "peer-joined"
      BY <1>0, <1>1, <2>2, GreetHeads, PeerJoinedIs
    <3> HIDE DEF n
    <3> QED
      BY <3>1
  <2> QED
    BY <2>1, <2>2
<1>2. ASSUME NEW p \in Peer, Leave(p)
      PROVE  FALSE
  <2> DEFINE n == [type |-> "peer-left", peer |-> p]
  <2>1. (Heads' = Heads \/ Heads' = Heads \cup {n}) /\ n.type = "peer-left"
    BY <1>0, <1>2, LeaveHeads
  <2> HIDE DEF n
  <2> QED
    BY <2>1
<1>3. ASSUME NEW c \in changing, SetRole(c)
      PROVE  FALSE
  <2> DEFINE n == RoleUpdated(c)
  <2>1. (Heads' = Heads \/ Heads' = Heads \cup {n}) /\ n.type = "role-updated"
    BY <1>0, <1>3, SetRoleHeads, RoleTold
  <2> HIDE DEF n
  <2> QED
    BY <2>1
<1>4. ASSUME NEW s \in sending, Send(s)
      PROVE  FALSE
  BY <1>0, <1>4, SendHeads
<1>5. ASSUME UNCHANGED sending PROVE FALSE
  BY <1>0, <1>5, OtherHeads
<1>6. CASE \/ \E p \in Peer : \/ Admit(p) \/ Insert(p) \/ SetLobby(p)
                              \/ AnnounceLobby(p) \/ FindPeer(p)
           \/ \E q, p \in Peer : FindWaiting(q, p)
           \/ \E a \in checking : LetIn(a)
           \/ \E a \in approving : LookAround(a)
           \/ UNCHANGED vars
  BY <1>5, <1>6 DEF Admit, Insert, FindWaiting, LetIn, LookAround, SetLobby,
                    AnnounceLobby, FindPeer, sendVars, vars
<1> QED
  BY <1>1, <1>2, <1>3, <1>4, <1>6 DEF Next

\* What approvals find of the lobby is what it is.
LEMMA AdmissionStep ==
  ASSUME LobbyInv, [Next]_vars
  PROVE  \A g \in Admissions' :
           g \in Admissions \/ ~g.approved \/ (g.lobby = lobby /\ UNCHANGED lobby)
<1>1. ASSUME NEW p \in Peer, Insert(p), NEW g \in greeting', g \notin greeting
      PROVE  ~g.approved
  <2> DEFINE h == [by |-> p, of |-> p, others |-> Others(p),
                   approved |-> FALSE, lobby |-> FALSE]
  <2>1. greeting' = greeting \/ greeting' = greeting \cup {h}
    BY <1>1 DEF Insert, Finds
  <2>2. ~h.approved
    OBVIOUS
  <2> HIDE DEF h
  <2> QED
    BY <1>1, <2>1, <2>2
<1>2. ASSUME NEW a \in approving, LookAround(a), NEW g \in greeting', g \notin greeting
      PROVE  g.lobby = lobby /\ UNCHANGED lobby
  <2> DEFINE h == [by |-> a.by, of |-> a.of, others |-> Others(a.of),
                   approved |-> TRUE, lobby |-> lobby]
  <2>1. greeting' = greeting \/ greeting' = greeting \cup {h}
    BY <1>2 DEF LookAround, Finds
  <2>2. h.lobby = lobby
    OBVIOUS
  <2> HIDE DEF h
  <2> QED
    BY <1>2, <2>1, <2>2 DEF LookAround, sfuVars
<1>3. CASE \/ \E p \in Peer : \/ Admit(p) \/ Leave(p) \/ SetLobby(p)
                              \/ AnnounceLobby(p) \/ FindPeer(p)
           \/ \E q, p \in Peer : FindWaiting(q, p)
           \/ \E a \in checking : LetIn(a)
           \/ \E g \in greeting : Greet(g)
           \/ \E c \in changing : SetRole(c)
           \/ \E s \in sending : Send(s)
           \/ UNCHANGED vars
  <2>1. greeting' \subseteq greeting
    BY <1>3 DEF Admit, Leave, SetLobby, AnnounceLobby, FindPeer, FindWaiting, LetIn,
                Greet, SetRole, Send, sendVars, vars
  <2> QED
    BY <2>1 DEF Admissions
<1> QED
  BY <1>1, <1>2, <1>3 DEF Next, Admissions

LEMMA FreshStep == LobbyInv /\ Entering /\ FreshInv /\ [Next]_vars => FreshInv'
<1> SUFFICES ASSUME LobbyInv, Entering, FreshInv, [Next]_vars, ~mixed'
             PROVE  /\ joined' => Fresh(lobbyOn)'
                    /\ ~joined' =>
                         /\ \A m \in JoinedOnes' : Fresh(m.lobby)'
                         /\ \A g \in Admissions' : g.approved => Fresh(g.lobby)'
  BY DEF FreshInv
<1>0. TypeOK /\ Shape /\ W \in Peer
  BY ConstantsAssumption DEF LobbyInv, Entering
<1>1. \A m \in JoinedOnes' :
        \/ m \in JoinedOnes
        \/ \E g \in Admissions : Greet(g) /\ m = JoinedOf(g)
  BY JoinedStep
<1>2. \A g \in Admissions' :
        g \in Admissions \/ ~g.approved \/ (g.lobby = lobby /\ UNCHANGED lobby)
  BY AdmissionStep
\* Steps that leave the switch, what is said of it and what the page shows.
<1>3. ASSUME UNCHANGED <<lobby, announcing, lobbyOn, joined, mixed>>
      PROVE  /\ joined' => Fresh(lobbyOn)'
             /\ ~joined' =>
                  /\ \A m \in JoinedOnes' : Fresh(m.lobby)'
                  /\ \A g \in Admissions' : g.approved => Fresh(g.lobby)'
  <2>1. \A on : Fresh(on) => Fresh(on)'
    BY <1>3 DEF Fresh
  <2>2. Fresh(lobby)
    BY DEF Fresh
  <2>3. ASSUME NEW g \in Admissions, NEW m, m = JoinedOf(g), ~joined
        PROVE  Fresh(m.lobby)
    <3>1. m.lobby = IF g.approved THEN g.lobby ELSE lobby
      BY <2>3 DEF JoinedOf
    <3> QED
      BY <1>3, <2>2, <2>3, <3>1 DEF FreshInv
  <2>4. joined' => Fresh(lobbyOn)'
    BY <1>3, <2>1 DEF FreshInv
  <2>5. ~joined' => \A m \in JoinedOnes' : Fresh(m.lobby)'
    BY <1>1, <1>3, <2>1, <2>3 DEF FreshInv
  <2>6. ~joined' => \A g \in Admissions' : g.approved => Fresh(g.lobby)'
    BY <1>2, <1>3, <2>1, <2>2 DEF FreshInv
  <2> QED
    BY <2>4, <2>5, <2>6
<1>4. CASE \E p \in Peer : SetLobby(p)
  <2>1. PICK p \in Peer : SetLobby(p)
    BY <1>4
  <2>2. announcing'[p] = lobby'
    BY <1>0, <2>1 DEF SetLobby, TypeOK
  <2>3. \A on : Fresh(on)'
    BY <2>2 DEF Fresh
  <2> QED
    BY <2>3
<1>5. ASSUME NEW p \in Peer, AnnounceLobby(p)
      PROVE  /\ joined' => Fresh(lobbyOn)'
             /\ ~joined' =>
                  /\ \A m \in JoinedOnes' : Fresh(m.lobby)'
                  /\ \A g \in Admissions' : g.approved => Fresh(g.lobby)'
  <2>1. mixed' = (mixed \/ announcing[p] # lobby \/ (W \in Present /\ ~joined))
    BY <1>5 DEF AnnounceLobby
  <2>2. announcing[p] = lobby /\ (W \in Present => joined)
    BY <2>1, Zenon
  <2>3. UNCHANGED <<lobby, joined, greeting, sending>>
    BY <1>5 DEF AnnounceLobby, OnLobby, sfuVars, pageVars
  <2>4. JoinedOnes' = JoinedOnes /\ Admissions' = Admissions
    BY <1>0, <2>3, OtherHeads DEF JoinedOnes, Admissions
  <2>5. ~joined => JoinedOnes = {} /\ Admissions = {}
    BY <2>2 DEF Entering
  <2>6. joined' => lobbyOn' = lobby
    BY <1>5, <2>2, <2>3 DEF AnnounceLobby, OnLobby, Entering
  <2> QED
    BY <2>3, <2>4, <2>5, <2>6 DEF Fresh
<1>6. ASSUME NEW s \in sending, Send(s)
      PROVE  /\ joined' => Fresh(lobbyOn)'
             /\ ~joined' =>
                  /\ \A m \in JoinedOnes' : Fresh(m.lobby)'
                  /\ \A g \in Admissions' : g.approved => Fresh(g.lobby)'
  <2> DEFINE m == Head(s)
  <2>1. UNCHANGED <<lobby, announcing>>
    BY <1>6 DEF Send, sfuVars
  <2>2. m \in Heads
    BY <1>0, <1>6, SendHeads
  <2>3. \/ OnJoined(m) \/ OnRole(m) \/ OnPeerJoined(m)
        \/ OnPeerLeft(m) \/ OnHostChanged(m)
    BY <1>6 DEF Send
  <2> HIDE DEF m
  <2>4. CASE OnJoined(m)
    <3>1. /\ m \in JoinedOnes /\ lobbyOn' = m.lobby /\ joined'
          /\ mixed' = (mixed \/ (joined /\ m.lobby # lobby))
      BY <2>2, <2>4 DEF OnJoined, JoinedOnes
    <3>2. ~mixed /\ (joined => m.lobby = lobby)
      BY <3>1, Zenon
    <3>3. Fresh(m.lobby)
      BY <3>1, <3>2 DEF FreshInv, Fresh
    <3> QED
      BY <2>1, <3>1, <3>3 DEF Fresh
  <2>5. CASE OnRole(m) \/ OnPeerJoined(m) \/ OnPeerLeft(m) \/ OnHostChanged(m)
    <3>1. UNCHANGED <<lobbyOn, joined, mixed>>
      BY <2>5 DEF OnRole, OnPeerJoined, OnPeerLeft, OnHostChanged
    <3> QED
      BY <1>3, <2>1, <3>1
  <2> QED
    BY <2>3, <2>4, <2>5
<1>7. CASE \/ \E p \in Peer : Admit(p) \/ Insert(p) \/ Leave(p) \/ FindPeer(p)
           \/ \E q, p \in Peer : FindWaiting(q, p)
           \/ \E a \in checking : LetIn(a)
           \/ \E a \in approving : LookAround(a)
           \/ \E g \in greeting : Greet(g)
           \/ \E c \in changing : SetRole(c)
           \/ UNCHANGED vars
  <2>1. UNCHANGED <<lobby, announcing, lobbyOn, joined, mixed>>
    BY <1>7 DEF Admit, Insert, Leave, FindPeer, FindWaiting, LetIn, LookAround,
                Greet, SetRole, vars, sfuVars, sendVars, pageVars
  <2> QED
    BY <1>3, <2>1
<1> QED
  BY <1>4, <1>5, <1>6, <1>7 DEF Next

\* The page's switch is right when nothing is under way, however the lobby was
\* switched while W was on its way in and whoever let it in, unless what it was
\* told of the switch came out of order.
THEOREM LobbySwitchRight == Spec => []LobbyRight
BY InitLobby, LobbyStep, InitEntering, EnteringStep, InitFresh, FreshStep,
   LobbyRightHolds, PTL DEF Spec, LobbyInv

-----------------------------------------------------------------------------
(* The list: who is in it *)

\* Whose "peer-joined" and whose "peer-left" come next from some goroutine.
Announced ==
  {p \in Peer : \E m \in Heads : m.type = "peer-joined" /\ p \in DOMAIN m.roles}
LeftOnes == {p \in Peer : \E m \in Heads : m.type = "peer-left" /\ m.peer = p}

LEMMA AnnouncingIs ==
  ASSUME NEW p \in Peer
  PROVE  Announcing(p) <=> \/ \E a \in approving \cup greeting : a.of = p
                           \/ p \in Announced
BY DEF Announcing, Announced, Heads

LEMMA HeadsKept ==
  ASSUME Heads' = Heads
  PROVE  UNCHANGED <<Announced, LeftOnes, JoinedOnes>>
BY DEF Announced, LeftOnes, JoinedOnes

LEMMA HeadAdded ==
  ASSUME NEW m, Heads' = Heads \cup {m}
  PROVE  /\ Announced' = Announced \cup IF m.type = "peer-joined"
                                        THEN Peer \cap DOMAIN m.roles ELSE {}
         /\ LeftOnes' = LeftOnes \cup IF m.type = "peer-left"
                                      THEN Peer \cap {m.peer} ELSE {}
         /\ JoinedOnes' = JoinedOnes \cup IF m.type = "joined" THEN {m} ELSE {}
<1>1. Announced' = Announced \cup IF m.type = "peer-joined"
                                  THEN Peer \cap DOMAIN m.roles ELSE {}
  BY DEF Announced
<1>2. LeftOnes' = LeftOnes \cup IF m.type = "peer-left"
                                THEN Peer \cap {m.peer} ELSE {}
  BY DEF LeftOnes
<1>3. JoinedOnes' = JoinedOnes \cup IF m.type = "joined" THEN {m} ELSE {}
  BY DEF JoinedOnes
<1> QED
  BY <1>1, <1>2, <1>3

\* What is left of them when a message is sent.
LEMMA HeadSent ==
  ASSUME TypeOK, Shape, NEW s \in sending, Send(s), NEW m, m = Head(s)
  PROVE  /\ m \in Heads /\ m \in Message
         /\ Announced' \subseteq Announced
         /\ IF m.type = "peer-joined"
            THEN /\ DOMAIN m.roles \in SUBSET Announced
                 /\ Announced \ DOMAIN m.roles \subseteq Announced'
            ELSE Announced' = Announced
         /\ LeftOnes' \subseteq LeftOnes
         /\ IF m.type = "peer-left"
            THEN m.peer \in LeftOnes /\ LeftOnes \ {m.peer} \subseteq LeftOnes'
            ELSE LeftOnes' = LeftOnes
         /\ JoinedOnes' = IF m.type = "joined" THEN JoinedOnes \ {m} ELSE JoinedOnes
<1>1. /\ m \in Heads /\ m \in Message
      /\ \A n \in Heads : n # m => n \in Heads'
      /\ \A n \in Heads' : n \in Heads \/ n.type = "host-changed"
      /\ m.type # "peer-left" => m \notin Heads'
  BY SendHeads
<1>2. m.type = "peer-joined" => DOMAIN m.roles \in SUBSET Peer
  BY <1>1, MessageHas, ListsAre
<1>3. m.type = "peer-left" => m.peer \in Peer
  BY <1>1, MessageHas
<1>4. Announced' \subseteq Announced
  BY <1>1 DEF Announced
<1>5. LeftOnes' \subseteq LeftOnes
  BY <1>1 DEF LeftOnes
<1>6. CASE m.type = "peer-joined"
  <2>1. DOMAIN m.roles \in SUBSET Announced
    BY <1>1, <1>2, <1>6 DEF Announced
  <2>2. Announced \ DOMAIN m.roles \subseteq Announced'
    BY <1>1 DEF Announced
  <2>3. LeftOnes' = LeftOnes
    BY <1>1, <1>6 DEF LeftOnes
  <2>4. JoinedOnes' = JoinedOnes
    BY <1>1, <1>6 DEF JoinedOnes
  <2> QED
    BY <1>1, <1>4, <1>6, <2>1, <2>2, <2>3, <2>4
<1>7. CASE m.type = "peer-left"
  <2>1. Announced' = Announced
    BY <1>1, <1>7 DEF Announced
  <2>2. m.peer \in LeftOnes
    BY <1>1, <1>3, <1>7 DEF LeftOnes
  <2>3. LeftOnes \ {m.peer} \subseteq LeftOnes'
    BY <1>1 DEF LeftOnes
  <2>4. JoinedOnes' = JoinedOnes
    BY <1>1, <1>7 DEF JoinedOnes
  <2> QED
    BY <1>1, <1>5, <1>7, <2>1, <2>2, <2>3, <2>4
<1>8. CASE m.type \notin {"peer-joined", "peer-left"}
  <2>1. Announced' = Announced
    BY <1>1, <1>8 DEF Announced
  <2>2. LeftOnes' = LeftOnes
    BY <1>1, <1>8 DEF LeftOnes
  <2>3. JoinedOnes' = IF m.type = "joined" THEN JoinedOnes \ {m} ELSE JoinedOnes
    BY <1>1, <1>8 DEF JoinedOnes
  <2> QED
    BY <1>1, <1>8, <2>1, <2>2, <2>3
<1> QED
  BY <1>6, <1>7, <1>8

\* p is on its way into the list.
OnTheWay(p) ==
  \/ \E a \in approving \cup greeting : a.of = p
  \/ p \in Announced

\* W has, or is going to have, p in its list: its first "joined" makes it.
Listed(p) ==
  \/ p \in DOMAIN list \/ p \in Announced
  \/ \E g \in greeting : g.of = p
  \/ /\ ~joined
     /\ \/ \E g \in Admissions : p \in g.others
        \/ \E m \in JoinedOnes : p \in DOMAIN m.roles

\* Who is in the room is in the list or on its way; who is not, and is listed
\* nevertheless, has its "peer-left" on the way.
Followed(p) ==
  /\ p \in DOMAIN list => joined
  /\ p \in Present =>
       /\ joined => p \in DOMAIN list \/ OnTheWay(p)
       /\ ~joined =>
            /\ \A g \in Admissions : p \in g.others \/ OnTheWay(p)
            /\ \A m \in JoinedOnes : p \in DOMAIN m.roles \/ OnTheWay(p)
  /\ p \notin Present /\ Listed(p) => p \in LeftOnes

MemberInv ==
  /\ \A p \in LeftOnes : stage[p] = "gone"
  /\ W \notin Announced
  /\ \A g \in greeting : g.of # W => W \in g.others
  /\ W \in DOMAIN list <=> joined
  /\ \A m \in JoinedOnes : W \in DOMAIN m.roles
  /\ \A p \in Peer \ crossed : p # W => Followed(p)

LEMMA InitMember == Init => MemberInv
<1> SUFFICES ASSUME Init PROVE MemberInv
  OBVIOUS
<1>1. Heads = {} /\ DOMAIN list = {} /\ Present = {} /\ W \in Peer
  BY InitShape, EmptyList, ConstantsAssumption DEF Init, Present, In
<1>2. Announced = {} /\ LeftOnes = {} /\ JoinedOnes = {}
  BY <1>1 DEF Announced, LeftOnes, JoinedOnes
<1> QED
  BY <1>1, <1>2 DEF Init, MemberInv, Followed, Listed, Admissions

\* Nothing is on its way to W before W is in.
LEMMA Outside ==
  ASSUME LobbyInv, Entering, MemberInv, W \notin Present
  PROVE  /\ Heads = {} /\ DOMAIN list = {} /\ ~joined /\ greeting = {}
         /\ Announced = {} /\ JoinedOnes = {} /\ Admissions = {}
<1>1. W \notin SeenOnes /\ ~joined /\ Admissions = {}
  BY ConstantsAssumption DEF SeenOnes, Present, In, Entering
<1>2. sending = {} /\ DOMAIN list = {}
  BY <1>1, EmptyList DEF LobbyInv
<1>3. greeting = {}
  BY <1>1 DEF LobbyInv, Greeted, MemberInv
<1>4. Heads = {}
  BY <1>2 DEF Heads
<1> QED
  BY <1>1, <1>2, <1>3, <1>4 DEF Announced, JoinedOnes

\* There, nobody is followed.
LEMMA NoneFollowed ==
  ASSUME NEW p, DOMAIN list' = {}, ~joined', greeting' = {},
         Announced' = {}, JoinedOnes' = {}
  PROVE  Followed(p)'
BY DEF Followed, Listed, Admissions

\* What follows a peer still does after a step that is nothing to it.
LEMMA FollowedKept ==
  ASSUME NEW p, Followed(p), joined' = joined,
         p \in Present' <=> p \in Present,
         p \in DOMAIN list' <=> p \in DOMAIN list,
         Admissions' \subseteq Admissions, JoinedOnes' \subseteq JoinedOnes,
         OnTheWay(p) => OnTheWay(p)', Listed(p)' => Listed(p),
         p \in LeftOnes => p \in LeftOnes'
  PROVE  Followed(p)'
BY DEF Followed

\* Steps that are nothing to the list.
LEMMA MemberSame ==
  ASSUME MemberInv, crossed \subseteq crossed', Present' = Present,
         UNCHANGED <<approving, greeting, list, joined>>,
         UNCHANGED <<Announced, LeftOnes, JoinedOnes>>,
         \A p \in LeftOnes : stage'[p] = "gone"
  PROVE  MemberInv'
<1>1. \A p \in Peer \ crossed' : p # W => Followed(p)'
  BY DEF MemberInv, Followed, Listed, OnTheWay, Admissions
<1> QED
  BY <1>1 DEF MemberInv

LEMMA InsertMember ==
  ASSUME LobbyInv, TypeOK', Entering, MemberInv, NEW a \in Peer, Insert(a)
  PROVE  MemberInv'
<1>0. TypeOK /\ Shape /\ W \in Peer
  BY ConstantsAssumption DEF LobbyInv, Entering
<1>1. UNCHANGED <<Announced, LeftOnes, JoinedOnes>>
  BY <1>0, OtherHeads, HeadsKept DEF Insert
<1>2. UNCHANGED <<approving, list, joined, crossed>>
  BY DEF Insert, pageVars
<1>3. stage[a] = "admitted" /\ stage' = [stage EXCEPT ![a] = "in"]
  BY DEF Insert
<1>4. \A p \in LeftOnes : stage'[p] = "gone"
  BY <1>0, <1>3 DEF MemberInv, TypeOK, LeftOnes
<1>5. a \notin Present
  BY <1>3 DEF Present, In
<1>6. CASE lobby /\ role[a] \notin Moderators
  <2>1. greeting' = greeting /\ waiting' = waiting \cup {a}
    BY <1>6 DEF Insert
  <2>2. Present' = Present
    BY <1>0, <1>3, <1>5, <2>1 DEF Present, In, TypeOK
  <2> QED
    BY <1>1, <1>2, <1>4, <2>1, <2>2, MemberSame
<1>7. CASE ~(lobby /\ role[a] \notin Moderators)
  <2> DEFINE g == [by |-> a, of |-> a, others |-> Others(a),
                   approved |-> FALSE, lobby |-> FALSE]
  <2>1. /\ waiting' = waiting
        /\ greeting' = IF g.of = W \/ W \in g.others THEN greeting \cup {g}
                       ELSE greeting
    BY <1>7 DEF Insert, Finds
  <2>2. Present' = Present \cup {a}
    BY <1>0, <1>3, <2>1 DEF Present, In, TypeOK, LobbyInv
  <2>3. CASE a = W
    <3>1. /\ DOMAIN list = {} /\ ~joined /\ greeting = {}
          /\ Announced = {} /\ JoinedOnes = {}
      BY <1>5, <2>3, Outside
    <3>2. g.of = W /\ g.others = Present
      BY <1>0, <1>5, <2>3 DEF Others, Present, In
    <3> HIDE DEF g
    <3>3. greeting' = {g} /\ Admissions' = {g}
      BY <2>1, <3>1, <3>2 DEF Admissions
    <3>4. \A p \in Peer \ crossed' : p # W => Followed(p)'
      BY <1>1, <1>2, <2>2, <2>3, <3>1, <3>2, <3>3 DEF Followed, Listed
    <3> QED
      BY <1>1, <1>2, <1>4, <3>1, <3>2, <3>3, <3>4 DEF MemberInv
  <2>4. CASE a # W /\ W \in Present
    <3>1. g.of = a /\ W \in g.others
      BY <1>0, <2>4 DEF Others
    <3> HIDE DEF g
    <3>2. greeting' = greeting \cup {g} /\ Admissions' = Admissions
      BY <2>1, <2>4, <3>1 DEF Admissions
    <3>3. ASSUME NEW p \in Peer \ crossed', p # W PROVE Followed(p)'
      <4>1. Followed(p)
        BY <1>2, <3>3 DEF MemberInv
      <4>2. CASE p = a
        <5>1. OnTheWay(p)' /\ p \in Present'
          BY <2>2, <3>1, <3>2, <4>2 DEF OnTheWay
        <5> QED
          BY <1>2, <4>1, <5>1 DEF Followed
      <4>3. CASE p # a
        <5>1. (OnTheWay(p) => OnTheWay(p)') /\ (Listed(p)' => Listed(p))
          BY <1>1, <1>2, <3>1, <3>2, <4>3 DEF OnTheWay, Listed
        <5> QED
          BY <1>1, <1>2, <2>2, <3>2, <4>1, <4>3, <5>1, FollowedKept
      <4> QED
        BY <4>2, <4>3
    <3> QED
      BY <1>1, <1>2, <1>4, <3>1, <3>2, <3>3 DEF MemberInv
  <2>5. CASE a # W /\ W \notin Present
    <3>1. g.of = a /\ W \notin g.others
      BY <2>5 DEF Others
    <3> HIDE DEF g
    <3>2. greeting' = greeting
      BY <2>1, <2>5, <3>1
    <3>3. /\ DOMAIN list = {} /\ ~joined /\ greeting = {}
          /\ Announced = {} /\ JoinedOnes = {}
      BY <2>5, Outside
    <3>4. \A p \in Peer \ crossed' : p # W => Followed(p)'
      BY <1>1, <1>2, <3>2, <3>3, NoneFollowed
    <3> QED
      BY <1>1, <1>2, <1>4, <3>2, <3>3, <3>4 DEF MemberInv
  <2> QED
    BY <2>3, <2>4, <2>5
<1> QED
  BY <1>6, <1>7

LEMMA LetInMember ==
  ASSUME LobbyInv, TypeOK', Entering, MemberInv, NEW a \in checking, LetIn(a)
  PROVE  MemberInv'
<1>0. TypeOK /\ Shape /\ W \in Peer
  BY ConstantsAssumption DEF LobbyInv, Entering
<1>1. UNCHANGED <<Announced, LeftOnes, JoinedOnes>>
  BY <1>0, OtherHeads, HeadsKept DEF LetIn
<1>2. /\ UNCHANGED <<stage, greeting, list, joined, crossed>>
      /\ approving' = approving \cup {a} /\ waiting' = waiting \ {a.of}
  BY DEF LetIn, pageVars
<1>3. /\ Present \subseteq Present'
      /\ \A p \in Present' : p \in Present \/ p = a.of
  BY <1>2 DEF Present, In
<1>4. Admissions' = Admissions
  BY <1>2 DEF Admissions
<1>5. ASSUME NEW p \in Peer \ crossed', p # W PROVE Followed(p)'
  <2>1. Followed(p)
    BY <1>2, <1>5 DEF MemberInv
  <2>2. (OnTheWay(p) => OnTheWay(p)') /\ (Listed(p)' => Listed(p))
    BY <1>1, <1>2, <1>4 DEF OnTheWay, Listed
  <2>3. CASE p = a.of
    <3>1. OnTheWay(p)'
      BY <1>2, <2>3 DEF OnTheWay
    <3> QED
      BY <1>1, <1>2, <1>3, <2>1, <2>2, <3>1 DEF Followed
  <2>4. CASE p # a.of
    <3>1. p \in Present' <=> p \in Present
      BY <1>3, <2>4
    <3> QED
      BY <1>1, <1>2, <1>4, <2>1, <2>2, <3>1, FollowedKept
  <2> QED
    BY <2>3, <2>4
<1> QED
  BY <1>1, <1>2, <1>5 DEF MemberInv

LEMMA LookAroundMember ==
  ASSUME LobbyInv, TypeOK', Entering, MemberInv, NEW a \in approving, LookAround(a)
  PROVE  MemberInv'
<1>0. TypeOK /\ Shape /\ W \in Peer
  BY ConstantsAssumption DEF LobbyInv, Entering
<1>1. UNCHANGED <<Announced, LeftOnes, JoinedOnes>>
  BY <1>0, OtherHeads, HeadsKept DEF LookAround
<1>2. UNCHANGED <<stage, waiting, list, joined>>
  BY DEF LookAround, sfuVars, pageVars
<1>3. Present' = Present
  BY <1>2 DEF Present, In
<1>4. /\ approving' = approving \ {a}
      /\ crossed' = IF stage[a.of] = "gone" THEN crossed \cup {a.of} ELSE crossed
  BY DEF LookAround
<1> DEFINE g == [by |-> a.by, of |-> a.of, others |-> Others(a.of),
                 approved |-> TRUE, lobby |-> lobby]
<1>5. greeting' = IF g.of = W \/ W \in g.others THEN greeting \cup {g} ELSE greeting
  BY DEF LookAround, Finds
<1>6. a.of \notin crossed' => a.of \in Present
  <2>1. a.of \in SeenOnes
    BY DEF LobbyInv, Approved
  <2> QED
    BY <1>4, <2>1 DEF SeenOnes, Present, In
<1>7. crossed \subseteq crossed'
  BY <1>4
<1>8. CASE a.of = W
  <2>1. g.of = W /\ g.others = Present \ {W}
    BY <1>0, <1>8 DEF Others, Present, In
  <2> HIDE DEF g
  <2>2. greeting' = greeting \cup {g} /\ Admissions' = Admissions \cup {g}
    BY <1>5, <2>1 DEF Admissions
  <2>3. ASSUME NEW p \in Peer \ crossed', p # W PROVE Followed(p)'
    <3>1. Followed(p)
      BY <1>7, <2>3 DEF MemberInv
    <3>2. OnTheWay(p) => OnTheWay(p)'
      BY <1>1, <1>4, <1>8, <2>2, <2>3 DEF OnTheWay
    <3>3. Listed(p)' => Listed(p) \/ p \in Present
      BY <1>1, <1>2, <2>1, <2>2, <2>3 DEF Listed
    <3> QED
      BY <1>1, <1>2, <1>3, <2>1, <2>2, <2>3, <3>1, <3>2, <3>3 DEF Followed
  <2> QED
    BY <1>1, <1>2, <2>1, <2>2, <2>3 DEF MemberInv
<1>9. CASE a.of # W /\ W \in Present
  <2>1. g.of = a.of /\ W \in g.others
    BY <1>0, <1>9 DEF Others
  <2> HIDE DEF g
  <2>2. greeting' = greeting \cup {g} /\ Admissions' = Admissions
    BY <1>5, <1>9, <2>1 DEF Admissions
  <2>3. ASSUME NEW p \in Peer \ crossed', p # W PROVE Followed(p)'
    <3>1. Followed(p)
      BY <1>7, <2>3 DEF MemberInv
    <3>2. OnTheWay(p) => OnTheWay(p)'
      BY <1>1, <1>4, <2>1, <2>2 DEF OnTheWay
    <3>3. Listed(p)' => Listed(p) \/ p = a.of
      BY <1>1, <1>2, <2>1, <2>2 DEF Listed
    <3>4. p = a.of => p \in Present'
      BY <1>3, <1>6
    <3> QED
      BY <1>1, <1>2, <1>3, <2>2, <3>1, <3>2, <3>3, <3>4 DEF Followed
  <2> QED
    BY <1>1, <1>2, <2>1, <2>2, <2>3 DEF MemberInv
<1>10. CASE a.of # W /\ W \notin Present
  <2>1. g.of = a.of /\ W \notin g.others
    BY <1>10 DEF Others
  <2> HIDE DEF g
  <2>2. greeting' = greeting
    BY <1>5, <1>10, <2>1
  <2>3. /\ DOMAIN list = {} /\ ~joined /\ greeting = {}
        /\ Announced = {} /\ JoinedOnes = {}
    BY <1>10, Outside
  <2>4. \A p \in Peer \ crossed' : p # W => Followed(p)'
    BY <1>1, <1>2, <2>2, <2>3, NoneFollowed
  <2> QED
    BY <1>1, <1>2, <2>2, <2>3, <2>4 DEF MemberInv
<1> QED
  BY <1>8, <1>9, <1>10

LEMMA GreetMember ==
  ASSUME LobbyInv, TypeOK', Entering, MemberInv, NEW g \in greeting, Greet(g)
  PROVE  MemberInv'
<1>0. TypeOK /\ Shape /\ W \in Peer
  BY ConstantsAssumption DEF LobbyInv, Entering
<1>1. /\ UNCHANGED <<stage, waiting, approving, list, joined, crossed>>
      /\ greeting' = greeting \ {g}
  BY DEF Greet, sfuVars, pageVars
<1>2. Present' = Present
  BY <1>1 DEF Present, In
<1>3. CASE g.of = W
  <2> DEFINE m == JoinedOf(g)
  <2>1. /\ Heads' = Heads \cup {m} /\ m.type = "joined"
        /\ DOMAIN m.roles = g.others \cup {W}
    BY <1>0, <1>3, GreetHeads, JoinedIs
  <2> HIDE DEF m
  <2>2. UNCHANGED <<Announced, LeftOnes>> /\ JoinedOnes' = JoinedOnes \cup {m}
    BY <2>1, HeadAdded
  <2>3. g \in Admissions /\ Admissions' = Admissions \ {g}
    BY <1>1, <1>3 DEF Admissions
  <2>4. ASSUME NEW p \in Peer \ crossed', p # W PROVE Followed(p)'
    <3>1. Followed(p)
      BY <1>1, <2>4 DEF MemberInv
    <3>2. OnTheWay(p) => OnTheWay(p)'
      BY <1>1, <1>3, <2>2, <2>4 DEF OnTheWay
    <3>3. Listed(p)' => Listed(p)
      BY <1>1, <2>1, <2>2, <2>3, <2>4 DEF Listed
    <3> QED
      BY <1>1, <1>2, <2>1, <2>2, <2>3, <3>1, <3>2, <3>3 DEF Followed
  <2> QED
    BY <1>1, <2>1, <2>2, <2>4 DEF MemberInv
<1>4. CASE g.of # W
  <2> DEFINE m == PeerJoined(g)
  <2>1. /\ m.type = "peer-joined" /\ DOMAIN m.roles = {g.of} /\ g.of \in Peer
        /\ W \in g.others
    BY <1>0, <1>4, PeerJoinedIs DEF MemberInv
  <2>2. Heads' = Heads \cup {m}
    BY <1>0, <1>4, <2>1, GreetHeads
  <2> HIDE DEF m
  <2>3. /\ UNCHANGED <<LeftOnes, JoinedOnes>>
        /\ Announced' = Announced \cup {g.of}
    BY <2>1, <2>2, HeadAdded
  <2>4. Admissions' = Admissions
    BY <1>1, <1>4 DEF Admissions
  <2>5. ASSUME NEW p \in Peer \ crossed', p # W PROVE Followed(p)'
    <3>1. Followed(p)
      BY <1>1, <2>5 DEF MemberInv
    <3>2. OnTheWay(p) => OnTheWay(p)'
      BY <1>1, <2>3 DEF OnTheWay
    <3>3. Listed(p)' => Listed(p)
      BY <1>1, <2>3, <2>4 DEF Listed
    <3> QED
      BY <1>1, <1>2, <2>3, <2>4, <3>1, <3>2, <3>3, FollowedKept
  <2> QED
    BY <1>1, <1>4, <2>3, <2>5 DEF MemberInv
<1> QED
  BY <1>3, <1>4

LEMMA LeaveMember ==
  ASSUME LobbyInv, TypeOK', Entering, MemberInv, NEW a \in Peer, Leave(a)
  PROVE  MemberInv'
<1>0. TypeOK /\ Shape /\ W \in Peer
  BY ConstantsAssumption DEF LobbyInv, Entering
<1>1. UNCHANGED <<approving, greeting, list, joined, crossed>>
  BY DEF Leave, pageVars
<1>2. /\ a # W /\ stage[a] = "in" /\ stage' = [stage EXCEPT ![a] = "gone"]
      /\ waiting' = waiting \ {a}
  BY DEF Leave
<1>3. Present' = Present \ {a}
  BY <1>0, <1>2 DEF Present, In, TypeOK
<1>4. W \in Present \ {a} <=> W \in Present
  BY <1>2
<1>5. CASE W \in Present
  <2> DEFINE m == [type |-> "peer-left", peer |-> a]
  <2>1. Heads' = Heads \cup {m} /\ m.type = "peer-left" /\ m.peer = a
    BY <1>0, <1>4, <1>5, LeaveHeads
  <2> HIDE DEF m
  <2>2. UNCHANGED <<Announced, JoinedOnes>> /\ LeftOnes' = LeftOnes \cup {a}
    BY <2>1, HeadAdded
  <2>3. Admissions' = Admissions
    BY <1>1 DEF Admissions
  <2>4. ASSUME NEW p \in Peer \ crossed', p # W PROVE Followed(p)'
    <3>1. Followed(p)
      BY <1>1, <2>4 DEF MemberInv
    <3>2. (OnTheWay(p) => OnTheWay(p)') /\ (Listed(p)' => Listed(p))
      BY <1>1, <2>2, <2>3 DEF OnTheWay, Listed
    <3> QED
      BY <1>1, <1>3, <2>2, <2>3, <3>1, <3>2 DEF Followed
  <2>5. \A p \in LeftOnes' : stage'[p] = "gone"
    BY <1>0, <1>2, <2>2 DEF MemberInv, TypeOK, LeftOnes
  <2> QED
    BY <1>1, <2>2, <2>4, <2>5 DEF MemberInv
<1>6. CASE W \notin Present
  <2>1. UNCHANGED <<Announced, LeftOnes, JoinedOnes>>
    BY <1>0, <1>4, <1>6, LeaveHeads, HeadsKept
  <2>2. /\ DOMAIN list = {} /\ ~joined /\ greeting = {}
        /\ Announced = {} /\ JoinedOnes = {}
    BY <1>6, Outside
  <2>3. \A p \in Peer \ crossed' : p # W => Followed(p)'
    BY <1>1, <2>1, <2>2, NoneFollowed
  <2>4. \A p \in LeftOnes' : stage'[p] = "gone"
    BY <1>0, <1>2, <2>1 DEF MemberInv, TypeOK, LeftOnes
  <2> QED
    BY <1>1, <2>1, <2>2, <2>3, <2>4 DEF MemberInv
<1> QED
  BY <1>5, <1>6

LEMMA SendMember ==
  ASSUME LobbyInv, TypeOK', Entering, MemberInv, NEW s \in sending, Send(s)
  PROVE  MemberInv'
<1>0. TypeOK /\ Shape /\ W \in Peer
  BY ConstantsAssumption DEF LobbyInv, Entering
<1> DEFINE m == Head(s)
<1>1. UNCHANGED <<stage, waiting, approving, greeting>>
  BY DEF Send, sfuVars
<1>2. Present' = Present /\ Admissions' = Admissions
  BY <1>1 DEF Present, In, Admissions
<1>3. \/ OnJoined(m) \/ OnRole(m) \/ OnPeerJoined(m)
      \/ OnPeerLeft(m) \/ OnHostChanged(m)
  BY DEF Send
<1>4. /\ m \in Heads /\ m \in Message
      /\ Announced' \subseteq Announced
      /\ IF m.type = "peer-joined"
         THEN /\ DOMAIN m.roles \in SUBSET Announced
              /\ Announced \ DOMAIN m.roles \subseteq Announced'
         ELSE Announced' = Announced
      /\ LeftOnes' \subseteq LeftOnes
      /\ IF m.type = "peer-left"
         THEN m.peer \in LeftOnes /\ LeftOnes \ {m.peer} \subseteq LeftOnes'
         ELSE LeftOnes' = LeftOnes
      /\ JoinedOnes' = IF m.type = "joined" THEN JoinedOnes \ {m} ELSE JoinedOnes
  BY <1>0, HeadSent
<1> HIDE DEF m
<1>5. ASSUME W \in DOMAIN list' <=> joined',
             \A p \in Peer \ crossed' : p # W => Followed(p)'
      PROVE  MemberInv'
  BY <1>1, <1>4, <1>5 DEF MemberInv
<1>6. CASE OnJoined(m)
  <2>1. /\ m.type = "joined" /\ m \in JoinedOnes
        /\ list' = m.roles /\ joined' /\ crossed \subseteq crossed'
    BY <1>4, <1>6 DEF OnJoined, JoinedOnes
  <2>2. UNCHANGED <<Announced, LeftOnes>>
    BY <1>4, <2>1
  <2>3. W \in DOMAIN list'
    BY <2>1 DEF MemberInv
  <2>4. ASSUME NEW p \in Peer \ crossed', p # W PROVE Followed(p)'
    <3>1. Followed(p)
      BY <2>1, <2>4 DEF MemberInv
    <3>2. OnTheWay(p) <=> OnTheWay(p)'
      BY <1>1, <2>2 DEF OnTheWay
    <3>3. CASE ~joined
      <4>1. Listed(p)' => Listed(p)
        BY <1>1, <2>1, <2>2, <3>3 DEF Listed
      <4> QED
        BY <1>2, <2>1, <2>2, <3>1, <3>2, <3>3, <4>1 DEF Followed
    <3>4. CASE joined
      <4>1. p \in DOMAIN list' <=> p \in DOMAIN list
        BY <1>6, <2>4, <3>4 DEF OnJoined
      <4>2. Listed(p)' => Listed(p)
        BY <1>1, <2>1, <2>2, <4>1 DEF Listed
      <4> QED
        BY <1>2, <2>1, <2>2, <3>1, <3>2, <3>4, <4>1, <4>2 DEF Followed
    <3> QED
      BY <3>3, <3>4
  <2> QED
    BY <1>5, <2>1, <2>3, <2>4
<1>7. CASE OnRole(m) \/ OnHostChanged(m)
  <2>1. /\ m.type \in {"role-updated", "host-changed"}
        /\ joined' = joined /\ crossed \subseteq crossed'
    BY <1>7 DEF OnRole, OnHostChanged
  <2>2. DOMAIN list' = DOMAIN list
    BY <1>7 DEF OnRole, OnHostChanged, Updated
  <2>3. UNCHANGED <<LeftOnes, JoinedOnes, Announced>>
    BY <1>4, <2>1
  <2>4. ASSUME NEW p \in Peer \ crossed', p # W PROVE Followed(p)'
    <3>1. Followed(p)
      BY <2>1, <2>4 DEF MemberInv
    <3>2. (OnTheWay(p) => OnTheWay(p)') /\ (Listed(p)' => Listed(p))
      BY <1>1, <1>2, <2>1, <2>2, <2>3 DEF OnTheWay, Listed
    <3> QED
      BY <1>2, <2>1, <2>2, <2>3, <3>1, <3>2, FollowedKept
  <2> QED
    BY <1>5, <2>1, <2>2, <2>4 DEF MemberInv
<1>8. CASE OnPeerJoined(m)
  <2>1. /\ m.type = "peer-joined" /\ joined' = joined
        /\ crossed' = IF joined THEN crossed ELSE crossed \cup DOMAIN m.roles
    BY <1>8 DEF OnPeerJoined
  <2>2. DOMAIN list' = DOMAIN list \cup DOMAIN m.roles
    BY <1>8 DEF OnPeerJoined, With
  <2>3. UNCHANGED <<LeftOnes, JoinedOnes>>
    BY <1>4, <2>1
  <2>4. W \notin DOMAIN m.roles
    BY <1>4, <2>1 DEF MemberInv
  <2>5. ASSUME NEW p \in Peer \ crossed', p # W PROVE Followed(p)'
    <3>1. Followed(p)
      BY <2>1, <2>5 DEF MemberInv
    <3>2. CASE p \in DOMAIN m.roles
      <4>1. joined /\ p \in Announced
        BY <1>4, <2>1, <2>5, <3>2
      <4>2. Listed(p)
        BY <4>1 DEF Listed
      <4> QED
        BY <1>2, <2>1, <2>2, <2>3, <3>1, <3>2, <4>1, <4>2 DEF Followed
    <3>3. CASE p \notin DOMAIN m.roles
      <4>1. OnTheWay(p) => OnTheWay(p)'
        BY <1>1, <1>4, <2>1, <3>3 DEF OnTheWay
      <4>2. Listed(p)' => Listed(p)
        BY <1>1, <1>2, <1>4, <2>1, <2>2, <2>3, <3>3 DEF Listed
      <4> QED
        BY <1>2, <2>1, <2>2, <2>3, <3>1, <3>3, <4>1, <4>2, FollowedKept
    <3> QED
      BY <3>2, <3>3
  <2> QED
    BY <1>5, <2>1, <2>2, <2>4, <2>5 DEF MemberInv
<1>9. CASE OnPeerLeft(m)
  <2>1. /\ m.type = "peer-left" /\ joined' = joined
        /\ crossed' = IF m.peer \in DOMAIN list /\ ~Announcing(m.peer) THEN crossed
                      ELSE crossed \cup {m.peer}
    BY <1>9 DEF OnPeerLeft
  <2>2. DOMAIN list' = DOMAIN list \ {m.peer}
    BY <1>9 DEF OnPeerLeft, Without
  <2>3. m.peer \in LeftOnes /\ m.peer \in Peer /\ m.peer # W
    BY <1>4, <2>1 DEF LeftOnes, MemberInv, Entering
  <2>4. UNCHANGED <<Announced, JoinedOnes>>
    BY <1>4, <2>1
  <2>5. ASSUME NEW p \in Peer \ crossed', p # W PROVE Followed(p)'
    <3>1. Followed(p)
      BY <2>1, <2>5 DEF MemberInv
    <3>2. OnTheWay(p) <=> OnTheWay(p)'
      BY <1>1, <2>4 DEF OnTheWay
    <3>3. CASE p = m.peer
      <4>1. p \in DOMAIN list /\ ~Announcing(p)
        BY <2>1, <2>5, <3>3
      <4>2. ~OnTheWay(p)
        BY <2>3, <3>3, <4>1, AnnouncingIs DEF OnTheWay
      <4>3. joined /\ p \notin Present
        BY <2>3, <3>1, <3>3, <4>1 DEF Followed, MemberInv, Present, In
      <4>4. ~Listed(p)'
        BY <1>1, <2>1, <2>2, <2>4, <3>3, <4>2, <4>3 DEF Listed, OnTheWay
      <4> QED
        BY <1>2, <2>1, <2>2, <3>3, <4>3, <4>4 DEF Followed
    <3>4. CASE p # m.peer
      <4>1. Listed(p)' => Listed(p)
        BY <1>1, <1>2, <2>1, <2>2, <2>4, <3>4 DEF Listed
      <4>2. p \in LeftOnes => p \in LeftOnes'
        BY <1>4, <2>1, <3>4
      <4> QED
        BY <1>2, <2>1, <2>2, <2>4, <3>1, <3>2, <3>4, <4>1, <4>2, FollowedKept
    <3> QED
      BY <3>3, <3>4
  <2> QED
    BY <1>5, <2>1, <2>2, <2>3, <2>5 DEF MemberInv
<1> QED
  BY <1>3, <1>6, <1>7, <1>8, <1>9

LEMMA MemberStep ==
  LobbyInv /\ TypeOK' /\ Entering /\ MemberInv /\ [Next]_vars => MemberInv'
<1> SUFFICES ASSUME LobbyInv, TypeOK', Entering, MemberInv, [Next]_vars
             PROVE  MemberInv'
  OBVIOUS
<1>0. TypeOK /\ Shape
  BY DEF LobbyInv, Entering
<1>1. ASSUME UNCHANGED sending
      PROVE  UNCHANGED <<Announced, LeftOnes, JoinedOnes>>
  BY <1>0, <1>1, OtherHeads, HeadsKept
<1>2. ASSUME NEW p \in Peer, SetLobby(p) \/ AnnounceLobby(p) \/ FindPeer(p)
      PROVE  MemberInv'
  <2>1. UNCHANGED <<stage, waiting, approving, greeting, sending, list, joined, crossed>>
    BY <1>2 DEF SetLobby, AnnounceLobby, OnLobby, FindPeer, sfuVars, pageVars
  <2>2. Present' = Present /\ \A q \in LeftOnes : stage'[q] = "gone"
    BY <2>1 DEF Present, In, MemberInv
  <2> QED
    BY <1>1, <2>1, <2>2, MemberSame
<1>3. ASSUME NEW c \in changing, SetRole(c)
      PROVE  MemberInv'
  <2>1. /\ UNCHANGED <<stage, waiting, approving, greeting, list, joined>>
        /\ crossed \subseteq crossed'
    BY <1>3 DEF SetRole, pageVars
  <2>2. UNCHANGED <<Announced, LeftOnes, JoinedOnes>>
    <3> DEFINE m == RoleUpdated(c)
    <3>1. (Heads' = Heads \/ Heads' = Heads \cup {m}) /\ m.type = "role-updated"
      BY <1>0, <1>3, SetRoleHeads, RoleTold
    <3> HIDE DEF m
    <3>2. CASE Heads' = Heads
      BY <3>2, HeadsKept
    <3>3. CASE Heads' = Heads \cup {m}
      BY <3>1, <3>3, HeadAdded
    <3> QED
      BY <3>1, <3>2, <3>3
  <2>3. Present' = Present /\ \A q \in LeftOnes : stage'[q] = "gone"
    BY <2>1 DEF Present, In, MemberInv
  <2> QED
    BY <2>1, <2>2, <2>3, MemberSame
<1>4. CASE \E q, p \in Peer : FindWaiting(q, p)
  <2>1. UNCHANGED <<stage, waiting, approving, greeting, sending, list, joined, crossed>>
    BY <1>4 DEF FindWaiting, sfuVars, pageVars
  <2>2. Present' = Present /\ \A q \in LeftOnes : stage'[q] = "gone"
    BY <2>1 DEF Present, In, MemberInv
  <2> QED
    BY <1>1, <2>1, <2>2, MemberSame
<1>5. ASSUME NEW a \in Peer, Admit(a)
      PROVE  MemberInv'
  <2>1. UNCHANGED <<approving, greeting, sending, list, joined, crossed>>
    BY <1>5 DEF Admit, sendVars, pageVars
  <2>2. Present' = Present
    BY <1>0, <1>5 DEF Admit, Present, In, TypeOK
  <2>3. \A p \in LeftOnes : stage'[p] = "gone"
    BY <1>0, <1>5 DEF Admit, MemberInv, TypeOK, LeftOnes
  <2> QED
    BY <1>1, <2>1, <2>2, <2>3, MemberSame
<1>6. CASE UNCHANGED vars
  <2>1. UNCHANGED <<stage, waiting, approving, greeting, sending, list, joined, crossed>>
    BY <1>6 DEF vars, sfuVars, sendVars, pageVars
  <2>2. Present' = Present /\ \A q \in LeftOnes : stage'[q] = "gone"
    BY <2>1 DEF Present, In, MemberInv
  <2> QED
    BY <1>1, <2>1, <2>2, MemberSame
<1> QED
  BY <1>2, <1>3, <1>4, <1>5, <1>6, InsertMember, LetInMember, LookAroundMember,
     GreetMember, LeaveMember, SendMember DEF Next

-----------------------------------------------------------------------------
(* The list: their roles *)

\* The change of p's role to what it is now is on its way.
Updating(p) ==
  \E m \in Heads : /\ m.type = "role-updated"
                   /\ p \in DOMAIN m.roles /\ m.roles[p] = role[p]

\* What W is told of p's role is right, or not said, or about to be put right.
Right(v, p) == v \in {role[p], "unknown"} \/ Updating(p)

\* A change W is not told of found W outside, and whoever comes in later than W
\* without being asked for its role was approved.
Changes ==
  \A c \in changing :
    /\ stage[c.peer] \in {"in", "gone"}
    /\ c.told = {} /\ c.peer # W =>
         /\ \A g \in greeting : g.of = c.peer => g.approved
         /\ \A m \in Heads : m.type = "peer-joined" /\ c.peer \in DOMAIN m.roles =>
              m.roles[c.peer] = "unknown"

\* What the page has, or is sent, of a role is right or about to be.
RolesTold ==
  \A p \in Peer \ crossed :
    /\ p \in DOMAIN list => Right(list[p], p)
    /\ \A m \in Heads : m.type \in {"joined", "peer-joined"} /\ p \in DOMAIN m.roles =>
         Right(m.roles[p], p)

RoleInv == Changes /\ RolesTold

LEMMA InitRole == Init => RoleInv
<1> SUFFICES ASSUME Init PROVE RoleInv
  OBVIOUS
<1>1. Heads = {} /\ DOMAIN list = {}
  BY InitShape, EmptyList DEF Init
<1> QED
  BY <1>1 DEF Init, RoleInv, Changes, RolesTold

LEMMA ListRightHolds == LobbyInv /\ MemberInv /\ RoleInv => ListRight
<1> SUFFICES ASSUME LobbyInv, MemberInv, RoleInv, AtRest, NEW p \in Peer \ crossed
             PROVE  /\ p \in DOMAIN list <=> p \in Present
                    /\ p \in DOMAIN list => list[p] \in {role[p], "unknown"}
  BY DEF ListRight
<1>1. /\ W \in Present /\ joined /\ approving = {} /\ sending = {} /\ greeting = {}
  BY DEF AtRest
<1>2. Heads = {} /\ Announced = {} /\ LeftOnes = {}
  BY <1>1 DEF Heads, Announced, LeftOnes
<1>3. p # W => Followed(p)
  BY DEF MemberInv
<1>4. p \in DOMAIN list <=> p \in Present
  <2>1. CASE p = W
    BY <1>1, <2>1 DEF MemberInv
  <2>2. CASE p # W
    <3>1. ~OnTheWay(p) /\ (p \in DOMAIN list => Listed(p))
      BY <1>1, <1>2 DEF OnTheWay, Listed
    <3> QED
      BY <1>1, <1>2, <1>3, <2>2, <3>1 DEF Followed
  <2> QED
    BY <2>1, <2>2
<1>5. p \in DOMAIN list => list[p] \in {role[p], "unknown"}
  BY <1>2 DEF RoleInv, RolesTold, Right, Updating
<1> QED
  BY <1>4, <1>5

\* Steps that change no role and say of none.
LEMMA RoleSame ==
  ASSUME RoleInv, UNCHANGED <<role, list>>, crossed \subseteq crossed',
         \A n \in Heads' : n \in Heads \/ n.type \in {"peer-left", "host-changed"},
         Heads \subseteq Heads',
         changing' \subseteq changing,
         \A c \in changing : stage'[c.peer] \in {"in", "gone"},
         \A g \in greeting' :
           g \in greeting \/ g.approved \/ \A c \in changing : c.peer # g.of
  PROVE  RoleInv'
<1>1. Changes'
  BY DEF RoleInv, Changes
<1>2. \A p : Updating(p) => Updating(p)'
  BY DEF Updating
<1>3. RolesTold'
  BY <1>2 DEF RoleInv, RolesTold, Right
<1> QED
  BY <1>1, <1>3 DEF RoleInv

LEMMA GreetRole ==
  ASSUME LobbyInv, TypeOK', Entering, MemberInv, RoleInv, NEW g \in greeting, Greet(g)
  PROVE  RoleInv'
<1>0. TypeOK /\ Shape /\ W \in Peer
  BY ConstantsAssumption DEF LobbyInv, Entering
<1>1. /\ UNCHANGED <<stage, role, changing, list, crossed>>
      /\ greeting' = greeting \ {g}
  BY DEF Greet, sfuVars, pageVars
<1> DEFINE m == IF g.of = W THEN JoinedOf(g) ELSE PeerJoined(g)
<1>2. Heads' = Heads \cup {m}
  BY <1>0, GreetHeads DEF MemberInv
<1>3. m.type = IF g.of = W THEN "joined" ELSE "peer-joined"
  BY DEF JoinedOf, PeerJoined
<1>4. \A p \in DOMAIN m.roles :
        m.roles[p] = IF g.approved THEN "unknown" ELSE role[p]
  BY DEF JoinedOf, PeerJoined, Meta
<1>5. g.of # W => DOMAIN m.roles = {g.of}
  BY DEF PeerJoined, Meta
<1> HIDE DEF m
<1>6. Changes'
  <2> SUFFICES ASSUME NEW c \in changing, c.told = {}, c.peer # W
               PROVE  /\ \A h \in greeting' : h.of = c.peer => h.approved
                      /\ \A n \in Heads' : n.type = "peer-joined" /\ c.peer \in DOMAIN n.roles =>
                           n.roles[c.peer] = "unknown"
    BY <1>1 DEF RoleInv, Changes
  <2>1. /\ \A h \in greeting : h.of = c.peer => h.approved
        /\ \A n \in Heads : n.type = "peer-joined" /\ c.peer \in DOMAIN n.roles =>
             n.roles[c.peer] = "unknown"
    BY DEF RoleInv, Changes
  <2> QED
    BY <1>1, <1>2, <1>3, <1>4, <1>5, <2>1
<1>7. \A p : Updating(p) => Updating(p)'
  BY <1>1, <1>2 DEF Updating
<1>8. RolesTold'
  <2> SUFFICES ASSUME NEW p \in Peer \ crossed
               PROVE  /\ p \in DOMAIN list => Right(list[p], p)'
                      /\ \A n \in Heads' :
                           n.type \in {"joined", "peer-joined"} /\ p \in DOMAIN n.roles =>
                             Right(n.roles[p], p)'
    BY <1>1 DEF RolesTold
  <2>1. /\ p \in DOMAIN list => Right(list[p], p)
        /\ \A n \in Heads : n.type \in {"joined", "peer-joined"} /\ p \in DOMAIN n.roles =>
             Right(n.roles[p], p)
    BY DEF RoleInv, RolesTold
  <2> QED
    BY <1>1, <1>2, <1>4, <1>7, <2>1 DEF Right
<1> QED
  BY <1>6, <1>8 DEF RoleInv

LEMMA FindPeerRole ==
  ASSUME LobbyInv, TypeOK', Entering, MemberInv, RoleInv, NEW a \in Peer, FindPeer(a)
  PROVE  RoleInv'
<1>0. TypeOK /\ Shape /\ W \in Peer
  BY ConstantsAssumption DEF LobbyInv, Entering
<1>1. UNCHANGED <<stage, role, greeting, sending, list, crossed>>
  BY DEF FindPeer, sfuVars, pageVars
<1>2. Heads' = Heads
  BY <1>0, <1>1, OtherHeads
<1>3. PICK r \in {"cohost", "member"} :
        changing' = changing \cup
          {[call |-> commands, peer |-> a, role |-> r, told |-> {W} \cap Present]}
  BY DEF FindPeer
<1> DEFINE d == [call |-> commands, peer |-> a, role |-> r, told |-> {W} \cap Present]
<1>4. d.peer = a /\ (d.told = {} => W \notin Present)
  OBVIOUS
<1>5. changing' = changing \cup {d}
  BY <1>3
<1> HIDE DEF d
<1>6. stage[a] = "in"
  BY DEF FindPeer, In
<1>7. RolesTold'
  BY <1>1, <1>2 DEF RoleInv, RolesTold, Right, Updating
<1>8. d.told = {} => Heads = {} /\ greeting = {}
  BY <1>4, Outside
<1>9. Changes'
  <2>1. Changes
    BY DEF RoleInv
  <2> QED
    BY <1>1, <1>2, <1>4, <1>5, <1>6, <1>8, <2>1 DEF Changes
<1> QED
  BY <1>7, <1>9 DEF RoleInv

LEMMA SetRoleRole ==
  ASSUME LobbyInv, TypeOK', Entering, MemberInv, RoleInv, NEW c \in changing, SetRole(c)
  PROVE  RoleInv'
<1>0. TypeOK /\ Shape /\ W \in Peer
  BY ConstantsAssumption DEF LobbyInv, Entering
<1>1. UNCHANGED <<stage, greeting, list>>
  BY DEF SetRole, pageVars
<1> DEFINE m == RoleUpdated(c)
           r == NewRole(c)
<1>2. /\ c.peer \in Peer /\ c.told \subseteq {W}
      /\ m.type = "role-updated" /\ DOMAIN m.roles = {c.peer} /\ m.roles[c.peer] = r
  BY <1>0, RoleTold
<1>3. /\ changing' = changing \ {c} /\ role' = [role EXCEPT ![c.peer] = r]
      /\ crossed' = IF /\ c.told = {} /\ W \in Present
                       /\ \A g \in greeting : g.of = W => g.approved
                    THEN crossed \cup {c.peer} ELSE crossed
  BY DEF SetRole
<1>4. Heads' = IF W \in c.told THEN Heads \cup {m} ELSE Heads
  BY <1>0, SetRoleHeads
<1> HIDE DEF m, r
<1>5. role'[c.peer] = r /\ \A p \in Peer \ {c.peer} : role'[p] = role[p]
  BY <1>0, <1>2, <1>3 DEF TypeOK
<1>6. Changes'
  <2>1. Changes
    BY DEF RoleInv
  <2>2. \A n \in Heads' : n.type = "peer-joined" => n \in Heads
    BY <1>2, <1>4
  <2> QED
    BY <1>1, <1>3, <2>1, <2>2 DEF Changes
<1>7. RolesTold'
  <2> SUFFICES ASSUME NEW p \in Peer \ crossed'
               PROVE  /\ p \in DOMAIN list => Right(list[p], p)'
                      /\ \A n \in Heads :
                           n.type \in {"joined", "peer-joined"} /\ p \in DOMAIN n.roles =>
                             Right(n.roles[p], p)'
    BY <1>1, <1>2, <1>4 DEF RolesTold
  <2>1. p \in Peer \ crossed
    BY <1>3
  <2>2. /\ p \in DOMAIN list => Right(list[p], p)
        /\ \A n \in Heads : n.type \in {"joined", "peer-joined"} /\ p \in DOMAIN n.roles =>
             Right(n.roles[p], p)
    BY <2>1 DEF RoleInv, RolesTold
  <2>3. CASE p # c.peer
    <3>1. role'[p] = role[p]
      BY <1>5, <2>1, <2>3
    <3>2. Updating(p) => Updating(p)'
      BY <1>4, <3>1 DEF Updating
    <3> QED
      BY <1>1, <2>2, <3>1, <3>2 DEF Right
  <2>4. CASE p = c.peer /\ W \in c.told
    <3>1. Updating(p)'
      BY <1>2, <1>4, <1>5, <2>4 DEF Updating
    <3> QED
      BY <3>1 DEF Right
  <2>5. CASE p = c.peer /\ W \notin c.told
    <3>1. c.told = {}
      BY <1>2, <2>5
    <3>2. W \notin Present \/ \E g \in greeting : g.of = W /\ ~g.approved
      BY <1>3, <2>1, <2>5, <3>1
    <3>3. CASE W \notin Present
      BY <3>3, Outside
    <3>4. CASE \E g \in greeting : g.of = W /\ ~g.approved
      <4>1. JoinedOnes = {} /\ ~joined
        BY <3>4 DEF Entering, Admissions
      <4>2. p \notin DOMAIN list
        BY <2>1, <4>1 DEF MemberInv, Followed
      <4>3. ASSUME NEW n \in Heads, n.type \in {"joined", "peer-joined"}, p \in DOMAIN n.roles
            PROVE  n.roles[p] = "unknown"
        <5>1. n.type = "peer-joined"
          BY <4>1, <4>3 DEF JoinedOnes
        <5>2. p \in Announced
          BY <4>3, <5>1 DEF Announced
        <5>3. p # W
          BY <5>2 DEF MemberInv
        <5> QED
          BY <2>5, <3>1, <4>3, <5>1, <5>3 DEF RoleInv, Changes
      <4> QED
        BY <4>2, <4>3 DEF Right
    <3> QED
      BY <3>2, <3>3, <3>4
  <2> QED
    BY <2>3, <2>4, <2>5
<1> QED
  BY <1>6, <1>7 DEF RoleInv

LEMMA SendRole ==
  ASSUME LobbyInv, TypeOK', Entering, MemberInv, RoleInv, NEW s \in sending, Send(s)
  PROVE  RoleInv'
<1>0. TypeOK /\ Shape /\ W \in Peer
  BY ConstantsAssumption DEF LobbyInv, Entering
<1> DEFINE m == Head(s)
<1>1. UNCHANGED <<stage, role, greeting, changing>>
  BY DEF Send, sfuVars
<1>2. \/ OnJoined(m) \/ OnRole(m) \/ OnPeerJoined(m)
      \/ OnPeerLeft(m) \/ OnHostChanged(m)
  BY DEF Send
<1>3. /\ m \in Heads /\ m \in Message
      /\ \A n \in Heads : n # m => n \in Heads'
      /\ \A n \in Heads' : n \in Heads \/ n.type = "host-changed"
  BY <1>0, SendHeads
<1> HIDE DEF m
<1>4. Changes'
  BY <1>1, <1>3 DEF RoleInv, Changes
<1>5. crossed \subseteq crossed'
  BY <1>2 DEF OnJoined, OnRole, OnPeerJoined, OnPeerLeft, OnHostChanged
<1>6. \A p : Updating(p) =>
        Updating(p)' \/ (m.type = "role-updated" /\ p \in DOMAIN m.roles)
  BY <1>1, <1>3 DEF Updating
<1> SUFFICES RolesTold'
  BY <1>4 DEF RoleInv
\* A message that says nothing new of a role.
<1>7. ASSUME m.type # "role-updated",
             \A p \in Peer \ crossed' : p \in DOMAIN list' =>
               \/ p \in DOMAIN list /\ list'[p] = list[p]
               \/ m.type \in {"joined", "peer-joined"} /\ p \in DOMAIN m.roles
                    /\ list'[p] = m.roles[p]
      PROVE  RolesTold'
  BY <1>1, <1>3, <1>5, <1>6, <1>7 DEF RoleInv, RolesTold, Right
<1>8. CASE OnJoined(m)
  BY <1>7, <1>8 DEF OnJoined
<1>9. CASE OnPeerJoined(m)
  BY <1>7, <1>9 DEF OnPeerJoined, With
<1>10. CASE OnPeerLeft(m)
  BY <1>7, <1>10 DEF OnPeerLeft, Without
<1>11. CASE OnHostChanged(m)
  BY <1>7, <1>11 DEF OnHostChanged
<1>12. CASE OnRole(m)
  <2>1. /\ m.type = "role-updated" /\ list' = Updated(m.roles)
        /\ crossed' = crossed \cup
             {p \in DOMAIN m.roles :
                \/ p \notin DOMAIN list \/ Announcing(p)
                \/ m.roles[p] # role[p] /\ ~Rectified(p, m)}
    BY <1>12 DEF OnRole
  <2> SUFFICES ASSUME NEW p \in Peer \ crossed'
               PROVE  /\ p \in DOMAIN list' => Right(list[p], p)'
                      /\ \A n \in Heads' :
                           n.type \in {"joined", "peer-joined"} /\ p \in DOMAIN n.roles =>
                             Right(n.roles[p], p)'
    BY DEF RolesTold
  <2>2. p \in Peer \ crossed
    BY <1>5
  <2>3. /\ p \in DOMAIN list => Right(list[p], p)
        /\ \A n \in Heads : n.type \in {"joined", "peer-joined"} /\ p \in DOMAIN n.roles =>
             Right(n.roles[p], p)
    BY <2>2 DEF RoleInv, RolesTold
  <2>4. CASE p \in DOMAIN m.roles
    <3>1. /\ p \in DOMAIN list /\ ~Announcing(p)
          /\ m.roles[p] = role[p] \/ Rectified(p, m)
      BY <2>1, <2>4
    <3>2. p \notin Announced
      BY <2>2, <3>1, AnnouncingIs
    <3>3. joined
      BY <2>2, <3>1 DEF MemberInv, Followed
    <3>4. ASSUME NEW n \in Heads, n.type \in {"joined", "peer-joined"}, p \in DOMAIN n.roles
          PROVE  n.roles[p] = "unknown"
      <4>1. n \in JoinedOnes
        BY <2>2, <3>2, <3>4 DEF Announced, JoinedOnes
      <4>2. ~Known(n)
        BY <3>3, <4>1 DEF Entering
      <4> QED
        BY <3>4, <4>2 DEF Known
    <3>5. CASE m.roles[p] = role[p]
      <4>1. list'[p] \in {role[p], "unknown"}
        BY <2>1, <2>4, <3>1, <3>5 DEF Updated
      <4> QED
        BY <1>1, <1>3, <3>4, <4>1 DEF Right
    <3>6. CASE Rectified(p, m)
      <4>1. Updating(p)'
        BY <1>1, <1>3, <3>6 DEF Rectified, Updating, Heads
      <4> QED
        BY <4>1 DEF Right
    <3> QED
      BY <3>1, <3>5, <3>6
  <2>5. CASE p \notin DOMAIN m.roles
    <3>1. p \in DOMAIN list' => p \in DOMAIN list /\ list'[p] = list[p]
      BY <2>1, <2>5 DEF Updated
    <3>2. Updating(p) => Updating(p)'
      BY <1>6, <2>5
    <3> QED
      BY <1>1, <1>3, <2>3, <3>1, <3>2 DEF Right
  <2> QED
    BY <2>4, <2>5
<1> QED
  BY <1>2, <1>8, <1>9, <1>10, <1>11, <1>12

LEMMA RoleStep ==
  LobbyInv /\ TypeOK' /\ Entering /\ MemberInv /\ RoleInv /\ [Next]_vars => RoleInv'
<1> SUFFICES ASSUME LobbyInv, TypeOK', Entering, MemberInv, RoleInv, [Next]_vars
             PROVE  RoleInv'
  OBVIOUS
<1>0. TypeOK /\ Shape /\ W \in Peer
  BY ConstantsAssumption DEF LobbyInv, Entering
<1>1. \A c \in changing : c.peer \in Peer /\ stage[c.peer] \in {"in", "gone"}
  BY <1>0 DEF TypeOK, Change, RoleInv, Changes
<1>2. ASSUME UNCHANGED sending PROVE Heads' = Heads
  BY <1>0, <1>2, OtherHeads
<1>3. ASSUME NEW a \in Peer, Admit(a)
      PROVE  RoleInv'
  <2>1. UNCHANGED <<role, greeting, changing, sending, list, crossed>>
    BY <1>3 DEF Admit, sendVars, pageVars
  <2>2. \A c \in changing : stage'[c.peer] \in {"in", "gone"}
    BY <1>0, <1>1, <1>3 DEF Admit, TypeOK
  <2> QED
    BY <1>2, <2>1, <2>2, RoleSame
<1>4. ASSUME NEW a \in Peer, Insert(a)
      PROVE  RoleInv'
  <2>1. UNCHANGED <<role, changing, sending, list, crossed>>
    BY <1>4 DEF Insert, pageVars
  <2>2. \A c \in changing : c.peer # a /\ stage'[c.peer] \in {"in", "gone"}
    BY <1>0, <1>1, <1>4 DEF Insert, TypeOK
  <2>3. \A g \in greeting' : g \in greeting \/ g.of = a
    <3> DEFINE g == [by |-> a, of |-> a, others |-> Others(a),
                     approved |-> FALSE, lobby |-> FALSE]
    <3>1. greeting' = greeting \/ greeting' = greeting \cup {g}
      BY <1>4 DEF Insert, Finds
    <3>2. g.of = a
      OBVIOUS
    <3> HIDE DEF g
    <3> QED
      BY <3>1, <3>2
  <2> QED
    BY <1>2, <2>1, <2>2, <2>3, RoleSame
<1>5. ASSUME NEW a \in approving, LookAround(a)
      PROVE  RoleInv'
  <2>1. /\ UNCHANGED <<stage, role, changing, sending, list>>
        /\ crossed \subseteq crossed'
    BY <1>5 DEF LookAround, sfuVars, pageVars
  <2>2. \A g \in greeting' : g \in greeting \/ g.approved
    <3> DEFINE g == [by |-> a.by, of |-> a.of, others |-> Others(a.of),
                     approved |-> TRUE, lobby |-> lobby]
    <3>1. greeting' = greeting \/ greeting' = greeting \cup {g}
      BY <1>5 DEF LookAround, Finds
    <3>2. g.approved
      OBVIOUS
    <3> HIDE DEF g
    <3> QED
      BY <3>1, <3>2
  <2> QED
    BY <1>1, <1>2, <2>1, <2>2, RoleSame
<1>6. ASSUME NEW a \in Peer, Leave(a)
      PROVE  RoleInv'
  <2>1. UNCHANGED <<role, greeting, changing, list, crossed>>
    BY <1>6 DEF Leave, pageVars
  <2>2. \A c \in changing : stage'[c.peer] \in {"in", "gone"}
    BY <1>0, <1>1, <1>6 DEF Leave, TypeOK
  <2> DEFINE m == [type |-> "peer-left", peer |-> a]
  <2>3. (Heads' = Heads \/ Heads' = Heads \cup {m}) /\ m.type = "peer-left"
    BY <1>0, <1>6, LeaveHeads
  <2> HIDE DEF m
  <2> QED
    BY <2>1, <2>2, <2>3, RoleSame
<1>7. CASE \/ \E a \in Peer : SetLobby(a) \/ AnnounceLobby(a)
           \/ \E q, p \in Peer : FindWaiting(q, p)
           \/ \E a \in checking : LetIn(a)
           \/ UNCHANGED vars
  <2>1. UNCHANGED <<stage, role, greeting, changing, sending, list, crossed>>
    BY <1>7 DEF FindWaiting, LetIn, SetLobby, AnnounceLobby, OnLobby, vars, sfuVars,
                sendVars, pageVars
  <2> QED
    BY <1>1, <1>2, <2>1, RoleSame
<1> QED
  BY <1>3, <1>4, <1>5, <1>6, <1>7, GreetRole, FindPeerRole, SetRoleRole, SendRole
     DEF Next

\* The list is that of the room when nothing is under way, with the right roles
\* where they are known, for everybody but those the page was told of out of
\* order, whoever let them in and however often their roles were changed.
THEOREM ListOfTheRoom == Spec => []ListRight
BY InitType, TypeStep, InitLobby, LobbyStep, InitEntering, EnteringStep, InitMember,
   MemberStep, InitRole, RoleStep, ListRightHolds, PTL DEF Spec
=============================================================================
