# Verification of yazykOn

TLA+ models of yazykOn, a video meeting service: a Go SFU (`media/`), an API
server (`server/`) and a browser client (`web/`). TLC checks the models on
small instances, TLAPS proves the main safety theorems for every instance.

Source lines below are of the repository beside this directory.

## 1. The system

| Component | State | Operations | Interacts with |
|---|---|---|---|
| SFU rooms and peers, `media/main.go` | `rooms` (name to `*Room`), `Room.{hostID, locked, lobby, peers}`, `Peer.{role, waiting, closed}`, gauges `activeRooms`, `activePeers` | join (`handleWS`), moderation, lobby, lock, role and chat control, `removePeer` | browsers (WebSocket), API server (HTTP control calls) |
| SFU track fan-out, `media/main.go` | `Room.tracks`, `Peer.subscriptions`, the senders of a connection | `OnTrack`, the loops of joins and approvals, `removePublication`, `removeSubscription` | joins, approvals and removals; negotiation |
| SFU negotiation, `media/main.go` | `Peer.{negotiating, negotiationPending, pendingOffer, pendingICE}`, Pion's signaling state | offers, answers, candidates, `renegotiate`, `negotiationFinished`, approval | the browser's handlers in `web/src/Room.tsx` |
| SFU limits, tokens, shutdown | `mediaConnByIP` | connection count, `verifyRoomAccessToken`, SIGTERM | |
| Room page, joining, `web/src/Room.tsx` | refs `socket`, `peer`, `reconnectTimer`, `reconnecting`, `connectionGeneration`; state `sfuRoomId`, `sfuAccessToken` | the effect and its cleanup, `start()`, `onopen`, `onclose`, the timer, room switches | API requests, SFU, React |
| Room page, roster, `Room.tsx`, `participantModel.ts` | participants with roles, host, lobby, waiting peers, lock | one case of `onmessage` per message | the SFU's announcements |
| Chat, `index.ts`, `chatModel.ts`, `Room.tsx` | `room_messages`; the page's list, `chatHasMore`, `chatBefore` | post, cursor pages, merge, append, load older | SFU `/control/chat` |
| Memberships, roles, tokens, `index.ts` | `rooms`, `room_members`, tokens | create room, access, refresh token, change role | SFU `/control/role` and the role a connection is served by |
| Breakout rooms, `server/src/breakout/manager.ts`, `index.ts` | `BreakoutManager.rooms` | create, delete, assign, join, remove | memberships, room tokens |
| Accounts and sessions, `index.ts`, `security.ts`, `main.tsx`, `api.ts` | `users`, `sessions`, the browser's cookie, the user the home page shows | register, login, logout, me, cleanup | rate limit |
| Rate limit, `index.ts` | `authRate`: a counter and its end per address | count, refuse, cleanup | the proxy in front, which gives all users one address |
| Presence, Redis, rooms in memory, recording, load test | | | |

What is hard here:

* every connection of the SFU is a goroutine, and joins, removals, approvals
  and publications release and retake `room.mu`, `roomsMu` and `peer.mu`
  between a check and its effect;
* one peer is acted on by its own reader, by moderators' readers, by Pion's
  callbacks and by other peers' `OnTrack`;
* what the SFU found under a lock it announces, or attaches, after the unlock,
  so that messages and loops of several goroutines overtake one another;
* both ends of a negotiation may offer at the same time, and the browser's
  handlers interleave at every `await`;
* the page's effect is run again and again while the `start()` of older runs
  is still at work on the same refs;
* a chat message reaches a page by up to three ways, none of which knows of
  the others, and the history is cut at cursors coarser than the database's
  clock;
* roles are in three places, the table, the tokens and the SFU, kept in step
  by calls that may fail or cross;
* the home page has several requests under way, whose answers may cross, while
  the browser keeps the cookie of whichever comes last;
* breakout rooms live in memory and have random ids; their tokens outlive them.

What makes the components correct:

* rooms: the registry and gauges agree with who is there, nobody lingers, the
  host is somebody of the room, rank protects hosts;
* fan-out: everybody in the room is sent every track of the others, nobody one
  that is gone, and no track of somebody gone stays;
* negotiation: exchanges are serialized, no request and no candidate is lost,
  both ends agree at rest, every track arrives;
* page: one socket at most, for the room the user chose; it comes back;
* roster: at rest the page's list, roles, host and lobby are those of the
  room, and the lobby learns of nobody and nobody of it;
* chat: every message once, and none lost;
* memberships: one row per user, the owner alone is host, the SFU serves by
  the table's role;
* accounts: a session is earned by the account's password, and the page shows
  whose session the browser has;
* breakout rooms: one room per user, members only, tokens stay in the meeting.

The hazards are listed, each at its line, in `PROJECT.json`.

## 2. The modules

| Module | Models | Extends |
|---|---|---|
| `SfuRoom` | room lifecycle of the SFU | |
| `SfuFanout` | who is sent which track | |
| `SfuProofs` | proofs about these two | both modules and `TLAPS`; the other proofs extend their module and `TLAPS` |
| `Negotiation`, `NegotiationProofs` | one participant's negotiation, SFU and browser | |
| `Roster`, `RosterProofs` | SFU announcements and one page's list | |
| `Reconnect`, `ReconnectProofs` | the effect of the room page | |
| `Chat`, `ChatProofs` | messages, history, announcements and one page's list | |
| `Membership`, `MembershipProofs` | rows, tokens, role calls and the roles the SFU serves by | |
| `Assignment` | abstract: users in at most one breakout room | |
| `Breakout`, `BreakoutProofs` | the manager and its handlers, refines `Assignment` | `INSTANCE Assignment` |
| `Accounts`, `AccountsProofs` | accounts, sessions, rate limit and the home page | |
| `MC*` | instances for TLC | the module |

The SFU is cut into four modules along what a lock or a message separates: each
abstracts the others to what they may do to it. `SfuRoom` has who is listed,
and no tracks or messages; `SfuFanout` and `Roster` reduce joins, approvals and
removals to the critical sections in which tracks and members are looked at;
`Negotiation` takes one connection of these, for which a track attached is one
call of `renegotiate`.

### SfuRoom

A step is one critical section of the code. `pc[p]` says where the goroutine of
connection `p` stands: `getRoom` (line 333), `admit` (334-360), `insert`
(361-379), `serve` (the reader loop), `end`. `removePeer` has three steps, as
in the code: the guard under `peer.mu` (`RemovePeer`), `Unlink` under
`room.mu`, and `DropRoom` under `roomsMu` when the room was empty; `removal[t]`
says how far it has come and `remover[t]` whose goroutine runs it, which does
nothing else meanwhile (`Busy`). A moderation command that names a peer is two
steps, `PickTarget` (find and check) and `Approve` or `Expel` (act on the
`*Peer` found), since other goroutines run between. A control call is
`ControlGetRoom`, `ControlFind`, `ControlSetRole`.

One room *name* is modelled, with several `*Room` objects (`RoomObj`), since
the registry may drop one and make another; rooms of other names share only the
gauges. Peer ids are distinct from connections, since a client may choose its
id. Messages to browsers change no state here. The token's claims are the
choice in `Joins[p]`; which user a role update means is a choice among the
peers listed, and includes nobody.

### SfuFanout

`OnTrack` is three steps: it lists the track (`Register`, 400), looks for
others (`LookForOthers`, 403) and, when its loop is done and the track ends,
runs `removePublication` (`EndTrack`). A join looks at the tracks in the
critical section that lists the peer (`Enter`), an approval after it has let the
peer in (`LetIn`, `LookForTracks`). What a goroutine found is in `attach[g]` or
`detach[g]` and worked off one connection at a time, in any order, as the code
ranges over maps. `AddTrack` and the entry in `subscriptions` are one step: the
entry is written over an earlier one, whose sender is then out of reach, which
`senders` counts. A peer removed has its connection closed soon; what it is
sent until then is left out. Whether the lobby is on is a choice at each join.
Which goroutine runs `removePeer` is left open. `SfuProofs` extends
`SfuRoom` as well, so the module has names of its own for what both have:
`Participant` and `Nobody`, `inLobby` for `p.waiting`, `FanoutInit` and so on.

### Negotiation

The SFU side has a reader and the goroutines of moderators who approve
(`Approver`), each at a `stage` of its exchange, goroutines about to call
`renegotiate` (`calls`), and offerers (`creating`, `sending`). An approval is
three steps, as `SfuFanout` has them: `FindWaiting` (542-548), `LetIn`
(554-558), which does not look again, and `AttachRoom`; so two moderators may
let in the same peer, of whom one takes the offer that was kept and both attach
the tracks of the room. `send` (175-182) writes to the socket, does nothing once
the peer is closed, or fails (`WriteFails`), at any time; all later writes fail,
too (`broken`). Only the offerer looks at the error: it ends the exchange, while
the connection keeps the local offer (682-684). The peer connection is its signaling state, whether it has a remote
description, and how many tracks of others are attached. The browser side has
one variable per handler with an `await`: the local offer (`bOffering`), the
answer being applied (`bAnswer`), the SFU's offer (`bOffer`). The WebSocket is
two queues. A description is the number of tracks it can carry: an answer has
the m-lines of its offer, an offer of the SFU every track attached. Pion's and
the browser's connection are modelled by their state machines from how the code
uses them (an operation in the wrong state fails); the operations of the
browser's connection queue up, so a rollback waits for an answer being applied.
Tracks only come; that they go is left to `SfuFanout`.

### Roster

One page, `W`'s. The SFU side changes the room as `SfuRoom` does and notes what
each goroutine has still to send to `W`: `greeting` (a join or an approval that
has looked at the room), `announcing` (the lobby), `changing` (a role change
that has found its peer), `sending` (messages put together). An approval is
`FindWaiting`, `LetIn`, `LookAround` and `Greet`, so that two moderators may let
in the same peer, which then gets two "joined". A moderator is busy with one
command at a time (`Moderates`), and one who was removed goes on until its
socket closes. A call of `/control/role` is `FindPeer` and `SetRole`; any number
of them may be under way, for the same peer, too, and cross. A socket keeps
order, so the page may handle a message when it is sent; messages of different
goroutines come in any order. One action per message is the page's handler.
Every peer has a user of its own and joins once; `W` stays. The list of those
who wait, the lock and mute are left out.

### Reconnect

Runs of the effect are numbered, and `stage[i]` is what `start()` of run `i`
does after its next `await`. `Render` is React running the cleanup of the last
run and then the next run, in one step. `stopped` and the generation check of
the code hold of the same runs and are the one predicate `Stopped`. The `await`
of lines 150-153 is met only when the screen is shared, which is a choice in
`MakeConnection`. Delays are not modelled: the timer fires some time later.

### Chat

Times are ticks of the database's clock, `Ticks` of them to a millisecond: the
cursor (`encodeChatCursor`), the page's sort and the timestamps it is sent use
milliseconds. An `INSERT` is visible up to `Delay` ticks after its
`created_at`, so messages may appear out of order. A page of history
(`Page`), the cursor (`Cursor`) and the list functions `Appended`, `Merged`,
`Sorted` and `LastOf` are operators over sets and sequences. The page reads the
history, joins, hears announcements and answers to its own posts, and loads
older pages; any request may fail, a call of the SFU too, and the connection
may drop. `missed` is the history of what the known gaps took from the page.

### Membership

One room, as rooms share nothing. A step is one statement of the database or
one call as the SFU handles it. `roles[u]` is the sequence of roles the user's
row has had, so that a token, a call or a connection can be related to the
moment its role is of. `Insert` is the statement after an access that found no
row. Calls of `/control/role` may fail or be handled in another order.
`RoleControl` finds one of the user's connections. Requests that are refused
change nothing and are left out.

### Breakout and Assignment

Each handler's call of the manager is one step: Node runs it without a break,
and what the handler read before it (the owner of a meeting, a membership)
never stops being true, since nothing deletes memberships. `Repeating` are the
random ids that may come up again; the code does not check them. `granted` are the
unexpired tokens of breakout rooms. The map from the manager to `Assignment`
reads off, for every user, the set of rooms it is in.

### Accounts

The requests of one browser, each with the cookie it carries, are served from
one await to the next: `Admit` (the rate limit), then the statements of the
handler. `Fail` is a statement that fails or an answer that is lost. The
browser keeps an answer's cookie (`Arrive`) before the page takes the answer
(`Handle`). Accounts of the first version have legacy hashes, which a login
replaces (`Upgrade`). A password of `None` is one the rules refuse. The rate
limit is a function of time in ticks; other users of the proxy are
`OtherRequest`, since the limit sees the proxy's address for all of them.

## 3. The runs

All bounds are constants of the configurations; symmetry is used for
interchangeable connections, names and passwords where every definition treats
them alike (`SfuRoom_roles`, `Accounts_page`), and not in runs that check
liveness.

| Run | Instance | Shows |
|---|---|---|
| `SfuRoom_roles` | 2 connections of any rank and id, 2 control calls | `PeerGaugeExact`, `NoGhostListing`, `HostPresent`, `ModeratorOutranks` |
| `SfuRoom_drain` | no control calls, fair | `RegistryDrains` |
| `SfuFanout_room` | 2 moderators, a guest, a track of any of them, fair | `EveryoneServed`, `NothingLeft`, `PublicationsEnd` |
| `Negotiation_direct` | 3 publications, 2 restarts, 2 candidates, failing writes | `NoLostRequest`, `NoStrandedCandidate`, `QuietInStep`, `ExistingTracksIncluded` |
| `Negotiation_lobby` | 2 moderators approve after the offer, tracks after the first exchange, failing writes, fair | `Serialized`, `TracksArrive` |
| `Roster_page` | the page, a host and a member, 2 switches of the lobby or role calls, for any of them | `LobbyApart`, `ListRight`, `HostRight`, `LobbyRight` |
| `Reconnect_page` | a drop, a failed attempt, a move, a removal, fair | `OneSocket`, `ComesBackAfterDrops` |
| `Chat_page` | 3 messages, pages of 1, a list of 2, 2 ticks to a millisecond | `NoDuplicates`, `NothingElseLost` |
| `Membership_roles` | an owner, a guest, 2 connections, 2 role changes, 2 first accesses | `HostIsOwner`, `SfuFollows`, `OnlyOwnerChanges` |
| `Breakout_rooms` | 2 meetings, 2 users, 3 ids, one may repeat | `MembersOnly`, `TokenWithinMeeting`, refinement of `Assignment` |
| `Accounts_page` | 3 requests, 2 names, 2 passwords, a window of 2 ticks, a limit of 2 | `SessionsEarned`, `ShownIsSignedIn`, `AtMostTwice` |

Each run of a component also checks its `TypeOK`, once per module.

Why the bounds are enough: the hazards of `SfuRoom` need two connections that
race, each with a role of its own, and an object of the registry for each time
the room is made anew; larger rooms are covered by the theorems. In
`SfuFanout` a pair of a peer and a track is touched by the publisher, the
peer's own join, a first and a second approver: three peers, two of them
moderators, play all of these, and tracks meet only in that one goroutine
attaches them in turn. Those of `Negotiation` need one exchange in hand, one
request behind it and one more behind the mark, which three publications give.
Two approvers do what several do: one takes the offer kept, the
others none. In `Roster` two others are enough for a departure to cross an
approval while a third, `W`, listens, and two commands for role calls to cross,
or for announcements of the lobby. That a second "joined" brings an outdated
switch takes three; the theorems have no bound, and TLC found nothing in
instances with three commands or a second moderator either. A page of one message in a list of two reaches every limit
with three messages, two of which share a millisecond. A guest's role has to
change twice for calls to cross, and a second connection makes a call miss one.
A breakout id has to be used, freed and used again. Two attempts to sign in
besides the start's "me" cross in every order. A run of the effect has to be
overtaken by the next one or two.

One more run (`expect: violation`) shows where the code and what the
repository says of it part; it is the finding in `PROJECT.json`:

| Run | What happens |
|---|---|
| `Negotiation_queued` | the queued offer is ignored by the browser, and the SFU waits for ever |

The models have more behaviours of this kind. Where a property has an excuse,
TLC refutes the property without it (but for one that says less than it could,
named below); the behaviour behind each excuse is here.

SFU rooms:

* joins pass the capacity check together and exceed the limit
  (`main.go:341`; `deploy/.env.example:18` calls it a limit);
* a room is dropped by name while a join holds it: two participants of one name
  do not meet (`main.go:756`);
* a control call for a room nobody is in registers an empty room that nothing
  drops (`main.go:239`): `RegistryDrains` holds only while `MaxControl = 0`;
* a moderator whose role is taken away, or who is removed, may finish what it
  began; a peer in the lobby made cohost is a moderator, too, and can let
  itself in (`main.go:526`).

Fan-out:

* a join or an approval that comes between the two critical sections of an
  `OnTrack` makes both attach the track: the participant gets it twice, and one
  of the senders is never removed (`main.go:374`, `403`, `559`);
* so do two moderators who approve the same peer (`main.go:546-555`);
* a track that ends, or whose publisher is removed, while a join, an approval
  or an `OnTrack` is still attaching it leaves a dead sender behind: its entry
  is written after `removeSubscription` looked for it (`main.go:404`, `431`,
  `566`);
* an approval whose target already publishes, since it was answered by its own
  reader or approved twice, sends it its own track back: only the join skips
  tracks by owner (`main.go:432`, `566`).

Negotiation:

* tracks beyond the m-lines of the first offer are not in its answer, and
  nobody asks for more (`main.go:430`, against the comment at 467);
* an approval overlaps another exchange on the same connection
  (`main.go:576`);
* when the offer cannot be written, `negotiationFinished` lowers the flag and
  takes the mark while the connection keeps the local offer: an offerer that
  comes behind fails in `have-local-offer`, and what it was asked for is never
  offered (`main.go:682-684`). The participant is as good as gone then: the
  socket is broken, and its reader removes it. `Serialized` and `NoLostRequest`
  hold until such a write, `TracksArrive` because of the removal;
* two moderators who pass the check together let in the same peer
  (`main.go:545-558`): the tracks of the room are attached twice, the second
  senders are offered only when something else asks for an exchange, and one may
  take the line of another in the answer. `TracksArrive` does not count them, and
  `ExistingTracksIncluded` speaks of one approval (as tracks are only counted,
  TLC does not refute it for two);
* a peer approved before its offer arrives may be answered by its reader before
  the approver has attached the room's tracks (`main.go:555-571`);
* an offer of the browser for an ICE restart that comes between the answer of
  the approver and its `negotiationFinished` is read and dropped, since
  `negotiating` is still set; the browser is left waiting for an answer with
  nothing in flight (`main.go:493`, `576`);
* a track published right after a join makes the SFU offer before the browser's
  first exchange, which the comment at `main.go:469` rules out.

Roster:

* the "joined" and "peer-joined" of an approval carry no roles and no users:
  the page shows members of unknown role, and no later "role-updated" finds
  them (`main.go:572-574`);
* "peer-left" sent before "peer-joined" leaves a participant who is gone, and
  "joined" overwrites a "peer-joined" that came first (`main.go:466`, `748`);
* an approval that goes on after its target has left announces it
  (`main.go:555-574`);
* a peer that two moderators let in gets two "joined", of which the second
  replaces the list, the host and the switch of the lobby by what its sender
  had found, which may be older: a peer announced in between is dropped from
  the list (`main.go:545-573`, `Room.tsx:286`);
* of two role calls for a peer the one that set the role first may be told last
  and leaves the page with the older role (`main.go:249-254`);
* a role change that found its audience before `W` joined, and set the role
  after `W`'s join had read it, leaves `W` with the old role
  (`main.go:240-254`);
* "lobby-waiting" may come after an approval's "joined" and show the waiting
  view to somebody in the room (`main.go:459`); switching the lobby off
  empties the host's list of those who wait while they go on waiting
  (`Room.tsx:315`), and a new host is not told of them.

Room page:

* after one failed attempt `reconnecting` stays set, and the timer that
  announces the next attempt does nothing (`Room.tsx:449-452`):
  `ComesBackAfterDrops` excuses a failed attempt for this;
* a stopped run overwrites the ref of the last run's connection, which the
  cleanup then does not close (`Room.tsx:148`);
* a token refresh that was under way when the user entered a breakout room
  clears the token of that room (`Room.tsx:102`);
* the page of a removed user closes its socket, and its own `onclose` joins
  again (`Room.tsx:365`, `444`).

Server and home page:

* messages posted between a page's reading of the history and its join come by
  no way, nor do those whose call of the SFU fails; messages in the millisecond
  of a page's oldest are skipped (`index.ts:403`); a live message cuts the
  history loaded before it (`chatModel.ts:13`); a post whose answer is lost
  keeps its text in the field, to be posted again (`Room.tsx:654`);
* role calls that cross leave the SFU with the older role until the next join,
  and a call reaches one connection of a user who has two (`index.ts:621`,
  `main.go:244`);
* of two first accesses at the same time one is answered with an error
  (`index.ts:366`);
* a registration whose session cannot be stored is answered
  `USERNAME_TAKEN`, though the account is there (`index.ts:265`);
* answers that cross make the home page show another user than the cookie's,
  and a "me" refused by the rate limit shows the form to somebody signed in
  (`main.tsx:19`, `api.ts:54`);
* users behind one proxy share one limit (`index.ts:45`).

### Fairness

* `SfuRoom`, `SfuFanout`: weak fairness of every step between two lock
  operations, since Go runs a goroutine that is not blocked. Clients need not
  connect, command, publish or leave: `RegistryDrains` is conditional on
  everybody having left, and a track must end only when its publisher's
  connection is closed, on which `track.Read` fails.
* `Negotiation`: goroutines run, the queues deliver, promises settle, and a
  reader whose socket is broken gets an error from its read and removes its
  peer (`main.go:472`, `620`). Publications, approvals, restarts, failing writes
  and other removals may never come. `TracksArrive` excuses a participant that
  has left or still waits.
* `Reconnect`: requests are answered or fail, sockets open or close, the timer
  fires, React renders. `ComesBackAfterDrops` excuses a page that is gone and a
  run that failed, which tells the user and promises nothing; it also excuses
  an attempt lost before it opened.
* The other modules have safety properties only, and no fairness.

Deadlock is checked in `Membership_roles` and `Chat_page`, where something can
always happen, and not where the system may rest: everybody has left or a bound
is reached.

## 4. The proofs

TLAPS checks every proof to its last leaf, for any sets of connections, ids,
rooms, users, messages and names, from the named assumptions on the constants
alone.

`SfuProofs`, rooms. `HostPresent` is not inductive: it needs that whoever is
listed under an id has that id and that room and stands in the reader loop, not
yet unlinked. `IInv` adds that: `TypeOK`, `JoinedOK` (what a connection past the join has),
`LifeOK` (how `pc`, `closed`, `removal` and `remover` go together), `ListedOK`
(a room lists a connection under its own id, in its own room, before its
removal), and `RankOK` (what holds of a command between its check and its
effect). One step per action shows that each part is preserved; from `IInv`
follow `HostAlwaysPresent`, `NoGhosts` and `HostsAreOutrankedByNobody`.
`GaugeExact` goes by the cardinality of the set of counted connections, which
each step changes by at most one element, and so uses that `Peer` is finite.
`IInv` was checked with TLC on the instances above before it was proved.

`SfuProofs`, tracks. `EveryoneServed` and `NothingLeft` speak of moments when
no goroutine has anything to do, and `FanoutInv` says what holds in between.
`Serving`: whoever is in the room has a track of another, or some goroutine has
it in hand, either as a pair it has found, or because it will look at the room
yet (an `OnTrack` that has listed its track, an approval that has let its peer
in). `Uncrossed`: a participant that is no known exception has one sender of
what it is subscribed to and none else, and a subscription to a track that is
gone is about to be taken away. Both need that a goroutine has nothing in hand
before it looks, or it would forget that (`Idle`, `Approvals`), and that what is
taken away is gone for good and nobody of the lobby is given anything
(`Pairs`, `Published`). The type invariant needs `Sending` in turn: a
subscription has a sender to remove.

`NegotiationProofs`. `CandidatesFlushed`: `NoStrandedCandidate` is inductive
once the stages are typed, because whoever sets the remote description flushes
next and buffering stops with the description. The other four theorems rest on
`Ordered`, which speaks of a participant that is there and of a socket on which
no write has failed (`Alive`). `Turns` relates the flag `negotiating`, the
signaling state and the stages of the reader, the approvers and the offerers,
of whom one at most is busy; `Tokens` says that an offer of the SFU is in one
place at a time, on its way, with the browser or on the way back; `Waits` is the
lobby, in which one approver at most takes the offer that was kept and the SFU
offers nothing before the first exchange. `ExchangesSerialized` and
`RequestsKept` follow from it. `QuietMeansInStep` adds `Offers`, `Lined` and
`Knows` (where the browser's offers are, and which tracks each description
carries), `FoundWithOffer` (who finds the participant waiting finds its offer)
and `Waited` (a browser that waits has something coming), and `RoomIncluded`
adds `Included`. Without a lobby the theorems have no hypothesis. With one they
have, for the behaviours listed above: that tracks come after the first exchange
(`InOrder`), without which TLC refutes all of them but `ExistingTracksIncluded`;
for `ExistingTracksIncluded` and `QuietInStep` that the participant is let in
with its offer there (`LetInWithOffer`), without which TLC refutes the former;
and, for `QuietInStep` alone, that no ICE restart meets the approver
(`NoRestartFromLobby`), without which TLC refutes it. The runs are instances of
these hypotheses; the theorems hold for any number of approvers, tracks, changes
and candidates. That `ExistingTracksIncluded` needs no `InOrder` and
`QuietInStep` no `LetInWithOffer` TLC finds on small instances; it is not proved.

`RosterProofs`. `LobbyKeptApart`: `LobbyApart` speaks of the page and needs
what is on its way to it. `LobbyInv` says of everything a goroutine has found
and not sent (`greeting`, `changing`, `sending`) that it is of peers who were
seen past the lobby, and that nobody returns to it. `HostNeverAnother`: whoever
was host is it or has left (`HostInv`), so a late message names nobody who is
there. `LobbySwitchRight`: `W` is greeted by its own join, once, or by any number
of approvals (`Entering`), and as long as nothing was mixed up, what it has or
is going to be told of the switch is right or about to be announced
(`FreshInv`). `ListOfTheRoom`: of a peer told of in order, whoever is in the room
is in the list or on its way there, by every "joined" still to come as well, and
whoever is not has its "peer-left" on the way (`MemberInv`); the role in the
list, in a greeting or in a message is right, not said, or about to be put right
by a "role-updated" with the role the SFU has (`RoleInv`). None of these theorems
has a hypothesis: approvals, switches and role calls may be any number.

`ReconnectProofs`. `AtMostOneSocket`: `OneSocket` is inductive once it is known
that the last run is for the room the user chose unless a render is due
(`LastRunOK`); the cleanup, which closes only what the ref names, then closes
all there is to close (`CleanupClosesAll`). `TypeCorrect` is not plain either:
runs are numbered up to what drops, failed attempts, moves and removals account
for, so it says that the effect never runs by itself again and again. `Budget`
gives every run a cause of its own, among those past and those due.

`ChatProofs`. `ShownOnce`: the list has no message twice, whatever the limits.
It rests on lemmas about the list functions: that a stable sort given by
counting is a permutation, that ranks in a finite set of messages are its
positions, and that cutting and appending keep the elements apart.
`OnlyTiesAreSkipped` is about the cursor: a message before the cursor of a page
and neither in the page nor before the next cursor is in the millisecond of the
page's oldest. `NoOtherLoss` follows every message that no known gap has taken:
until the history is answered, the answer under way has it or leads on to it
(`FirstLeads`); afterwards it is shown, before the cursor, on the wire or in a
call (`InSight`), and an older page under way has what is before the cursor
or leads on to it (`OlderLeads`). A cursor is always that of a full page
(`CursorsFull`), so that a first page answered late leads on at least as far as
the cursors in use (`FirstCovers`).

`MembershipProofs`. `RoleInv` says that the owner's row has been "host" alone,
that nobody else's row ever was, that no call is about the owner, and
(`RolesGiven`, the theorem `RolesComeFromTheTable`) that what a token, a call
or a connection says the table said once. From it follow `OnlyOwnerIsHost`,
`SfuFollowsTheTable` and `RowsChangeByOwner`.

`BreakoutProofs`. `OneRoomEach` and `MembersOnly` are inductive over the type
invariant; `OneRoomEach`, which the refinement implies, has no place of its own
in the run. `TokenWithinMeeting` needs that every room and every token is of an
id given out before (`TokensUsed`), and says nothing of ids that repeat.
`ImplementsAssignment` shows that the initial state maps to the initial state
and each handler's step to a step of `Assignment` or a stutter; `Remove` needs
`OneRoomEach`, since the abstract step leaves the user in no room at all.

`AccountsProofs`. `SessionsByPassword`: `SessionsEarned` is kept when a session
is issued because a login past its check still names the account's password
(`Asked`): an account, once made, keeps its password, and the upgrade of a hash
is of the password just verified. `Made` says that a request is one of those
sent, and `Unissued` that its session is not there before it is answered, for
the uniqueness of ids in `TypeOK`. `TwiceTheLimit` cuts a stretch of time where
the entry of the address began: the entry counts all that passed since
(`Dated`), and of the window before it no more than the limit passed
(`Within`), wherever the stretch begins. `PageShowsUser`: an answer names the
user of the cookie it was asked with, or sets (`Answers`), and the page agrees
with the cookie or an answer it will take is under way (`InStep`).

Assumptions. Every constant's assumptions are named and evaluated by TLC. Most
are that sizes are naturals and that the marker for "nothing" is no value of
the kind it stands beside (`None \notin Message` and the like:
`CursorAssumption`, `RequestAssumption`). `Peer` of
`SfuRoom` is finite, for the gauge.

Only model-checked: every liveness property, since fairness is beyond the
prover: `RegistryDrains`, `PublicationsEnd`, `TracksArrive` and
`ComesBackAfterDrops`. Every safety property and type invariant that a run
checks has a theorem; for the four of `Negotiation` that `Ordered` serves it
covers the lobby within the hypotheses. No module has
a `RECURSIVE` operator, and none of the results needs an induction over data,
which the prover cannot do.

## 5. Not modelled

* The locks themselves: a critical section is one step, so that a writer
  blocked on a stalled socket under `room.mu` (`main.go:538`) is not seen.
* SFU limits, tokens and shutdown: a counter per address that its handler
  raises and lowers, checks of signatures, and an end of the process.
* The SFU's candidates to the browser and the buffer they wait in
  (`Room.tsx:434`), and the timer that starts an ICE restart (`Room.tsx:188`):
  both depend on when the network fails and not on an order of steps the code
  controls. The restart itself is in `Negotiation`.
* The page's lists of remote media and of those who wait, lock, mute and
  buttons: they follow single messages.
* Presence and Redis: keys with a time to live that no page reads; claims and
  messages nothing calls. `getRedis` replaces a client that is reconnecting by
  a new one (`redis.ts:17`), on which no state of the program depends.
* The Go copy of the breakout manager and `server/src/rooms.ts`: nothing calls
  them.
* Recording and captions: objects of one page (a second recording started
  before the first has stopped shares its chunks, `MeetingFeatures.tsx:11-21`).
* Password hashing as such (a hash is its password and its form), cookies'
  attributes, the load test, deployment files.
