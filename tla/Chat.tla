-------------------------------- MODULE Chat --------------------------------
(***************************************************************************)
(* The chat of a room as one page shows it: the messages in the database   *)
(* and the pages of history cut from them (server/src/index.ts), the calls *)
(* of /control/chat by which the SFU (media/main.go) hears of new ones and *)
(* its announcements, and the list of the page (web/src/chatModel.ts,      *)
(* web/src/Room.tsx), which is filled from the history, by announcements   *)
(* and by the answers to the user's own posts.                             *)
(*                                                                         *)
(* Times are ticks of the database's clock; the program everywhere else    *)
(* counts in milliseconds, each of which has Ticks ticks.                  *)
(***************************************************************************)
EXTENDS Integers, Sequences, FiniteSets

CONSTANTS
  Id,        \* message ids: random, in an order of their own
  Own,       \* those the user of the page posts
  Ticks,     \* database ticks in a millisecond
  MaxTick,   \* bound: the last tick of the clock
  Delay,     \* bound: ticks an INSERT takes
  PageSize,  \* messages in a page of history (50)
  Live,      \* messages the list keeps when one arrives (100)
  Loaded,    \* messages the list keeps when older ones are loaded (500)
  None

ASSUME ConstantsAssumption ==
  /\ Id \subseteq Int /\ Own \subseteq Id
  /\ Ticks \in Nat \ {0} /\ MaxTick \in Nat /\ Delay \in Nat
  /\ PageSize \in Nat \ {0} /\ PageSize <= Live /\ Live <= Loaded
  /\ Live \in Nat /\ Loaded \in Nat

VARIABLES
  db,       \* room_messages
  calls,    \* messages whose call of the SFU is under way
  replies,  \* the user's posts whose answer is under way
  wire,     \* announcements under way to the page
  stage,    \* of the page: reading the history, joining, joined
  first,    \* the answer to the page's request for the history, or None
  older,    \* the answer to a request for older messages, or None
  chat,     \* the page's list
  more,     \* chatHasMore
  before,   \* chatBefore, a cursor or None
  missed    \* messages one of the known gaps took from the page (history)

vars == <<db, calls, replies, wire, stage, first, older, chat, more,
          before, missed>>

page == <<stage, first, older, chat, more, before>>

Message == [t : 0 .. MaxTick, id : Id]
ASSUME CursorAssumption == None \notin Message
\* stale: a later request for the history has been answered since (history).
Answer == [rows : SUBSET Message, next : Message \cup {None}, more : BOOLEAN,
           stale : BOOLEAN]

Shown == {chat[p] : p \in DOMAIN chat}

TypeOK ==
  /\ db \subseteq Message /\ calls \subseteq db /\ replies \subseteq db
  /\ wire \in Seq(db)
  /\ stage \in {"reading", "joining", "joined"}
  /\ first \in Answer \cup {None} /\ older \in Answer \cup {None}
  /\ chat \in Seq(db)
  /\ more \in BOOLEAN /\ before \in Message \cup {None}
  /\ missed \subseteq db

Init ==
  /\ db = {} /\ calls = {} /\ replies = {} /\ missed = {}
  /\ wire = <<>> /\ chat = <<>>
  /\ stage = "reading"
  /\ first = None /\ older = None
  /\ more = FALSE /\ before = None

-----------------------------------------------------------------------------
(* Pages of history *)

\* (created_at, id) < (created_at, id)
Before(a, b) == a.t < b.t \/ (a.t = b.t /\ a.id < b.id)

Millisecond(m) == m.t \div Ticks

\* ORDER BY created_at DESC, id DESC LIMIT
Newest(S) == {m \in S : Cardinality({n \in S : Before(m, n)}) < PageSize}

Oldest(S) == CHOOSE m \in S : \A n \in S \ {m} : Before(m, n)

\* mutant: the cursor is rounded up
CursorAfter(m) == [t |-> (Millisecond(m) + 1) * Ticks, id |-> m.id]

\* encodeChatCursor: toISOString ends with the milliseconds.
Cursor(m) == [t |-> Millisecond(m) * Ticks, id |-> m.id]

HasMoreThan(rows) == Cardinality(rows) > PageSize   \* mutant

HasMore(rows) == Cardinality(rows) = PageSize

\* GET .../messages with the cursor, or without one.
Page(cursor) ==
  LET S == IF cursor = None THEN db ELSE {m \in db : Before(m, cursor)}
      rows == Newest(S)
  IN  [rows |-> rows,
       next |-> IF rows = {} THEN None ELSE Cursor(Oldest(rows)),
       more |-> HasMore(rows),
       stale |-> FALSE]

\* Older than the page and yet not before its cursor.
Tied(p) == {m \in db : /\ p.next # None
                       /\ Before(m, Oldest(p.rows)) /\ ~Before(m, p.next)}

\* The messages "load older" still leads to.
Ahead == {m \in db : more /\ before # None /\ Before(m, before)}

-----------------------------------------------------------------------------
(* The list of the page: chatModel.ts *)

\* slice(-limit)
LastOf(s, limit) ==
  IF Len(s) <= limit THEN s ELSE SubSeq(s, Len(s) - limit + 1, Len(s))

AppendedTwice(m) == LastOf(Append(chat, m), Live)   \* mutant: the id is not looked up

\* appendChatMessage
Appended(m) == IF m \in Shown THEN chat ELSE LastOf(Append(chat, m), Live)

\* A set of rows in their order.
Ascending(S) ==
  [p \in 1 .. Cardinality(S) |->
     CHOOSE m \in S : Cardinality({n \in S : Before(n, m)}) = p - 1]

\* A stable sort by the timestamp.
Sorted(s) ==
  [p \in DOMAIN s |->
     s[CHOOSE i \in DOMAIN s : p = Cardinality(
         {j \in DOMAIN s : \/ Millisecond(s[j]) < Millisecond(s[i])
                           \/ Millisecond(s[j]) = Millisecond(s[i]) /\ j <= i})]]

\* mergeChatMessages
Merged(rows, limit) == LastOf(Sorted(chat \o Ascending(rows \ Shown)), limit)

\* What the list loses for good when a page is merged.
Dropped(p) == (Shown \cup p.rows) \ (Shown' \cup Ahead')

-----------------------------------------------------------------------------
(* Posting *)

\* POST .../messages: the row is there.  Its created_at is the time at which
\* the statement began, by a clock that does not go back.
Store(m) ==
  /\ \A n \in db : n.id # m.id /\ n.t <= m.t + Delay
  /\ db' = db \cup {m}
  /\ calls' = calls \cup {m}
  /\ UNCHANGED <<replies, wire, missed, page>>

Called(m) ==
  /\ m \in calls
  /\ calls' = calls \ {m}
  /\ replies' = IF m.id \in Own THEN replies \cup {m} ELSE replies
  /\ UNCHANGED <<db, page>>

\* handleChatControl sends to all who are in the room and not waiting.
Announce(m) ==
  /\ Called(m)
  /\ IF stage = "joined" THEN wire' = Append(wire, m) /\ UNCHANGED missed
                         ELSE missed' = missed \cup {m} /\ UNCHANGED wire

\* fetch throws, or the SFU refuses the body (more than 8 KB): the post is
\* answered all the same.
CallFails(m) ==
  /\ Called(m)
  /\ missed' = missed \cup {m}
  /\ UNCHANGED wire

\* A message comes; what the limit drops is gone.
Arrive(m) ==
  /\ chat' = Appended(m)
  /\ missed' = (missed \ {m}) \cup (Shown \ Shown')

\* sendChat goes on.
Reply(m) ==
  /\ m \in replies
  /\ replies' = replies \ {m}
  /\ Arrive(m)
  /\ UNCHANGED <<db, calls, wire, stage, first, older, more, before>>

\* "Не удалось отправить сообщение"
ReplyFails(m) ==
  /\ m \in replies
  /\ replies' = replies \ {m}
  /\ UNCHANGED <<db, calls, wire, missed, page>>

\* The page's handler of "chat"
Deliver ==
  /\ wire # <<>>
  /\ wire' = Tail(wire)
  /\ Arrive(Head(wire))
  /\ UNCHANGED <<db, calls, replies, stage, first, older, more, before>>

-----------------------------------------------------------------------------
(* The page *)

\* start(): getRoomMessages, as the server answers it
ReadHistory ==
  /\ stage = "reading" /\ first = None
  /\ first' = Page(None)
  /\ missed' = {}
  /\ UNCHANGED <<db, calls, replies, wire, stage, older, chat, more, before>>

FirstAnswer ==
  /\ first # None
  /\ chat' = Merged(first.rows, Live)
  /\ more' = first.more /\ before' = first.next
  /\ stage' = "joining" /\ first' = None
  /\ older' = IF older = None THEN None ELSE [older EXCEPT !.stale = TRUE]
  /\ UNCHANGED <<db, calls, replies, wire>>
  /\ missed' = missed \cup Tied(first) \cup Dropped(first)

\* "chat history unavailable": start() goes on without.
FirstFails ==
  /\ first # None
  /\ stage' = "joining" /\ first' = None
  /\ missed' = db \ Shown
  /\ UNCHANGED <<db, calls, replies, wire, older, chat, more, before>>

\* The SFU lets the page in.
Join ==
  /\ stage = "joining"
  /\ stage' = "joined"
  /\ UNCHANGED <<db, calls, replies, wire, first, older, chat, more,
                 before, missed>>

\* The connection is lost and start() runs again.
Disconnect ==
  /\ stage # "reading"
  /\ stage' = "reading" /\ wire' = <<>>
  /\ UNCHANGED <<db, calls, replies, first, older, chat, more, before,
                 missed>>

\* loadOlderChat
AskOlder ==
  /\ older = None /\ more /\ before # None
  /\ older' = Page(before)
  /\ UNCHANGED <<db, calls, replies, wire, stage, first, chat, more,
                 before, missed>>

OlderAnswer ==
  /\ older # None
  /\ chat' = Merged(older.rows, Loaded)
  /\ more' = older.more /\ before' = older.next
  /\ older' = None
  /\ UNCHANGED <<db, calls, replies, wire, stage, first>>
  /\ missed' = missed \cup Tied(older) \cup Dropped(older)
                 \cup IF older.stale THEN db \ Shown' ELSE {}

OlderFails ==
  /\ older # None
  /\ older' = None
  /\ UNCHANGED <<db, calls, replies, wire, stage, first, chat, more,
                 before, missed>>

-----------------------------------------------------------------------------

Handled(m) == Announce(m) \/ CallFails(m)

Answered(m) == Reply(m) \/ ReplyFails(m)

Next ==
  \/ \E m \in Message : Store(m) \/ Handled(m) \/ Answered(m)
  \/ Deliver
  \/ ReadHistory \/ FirstAnswer \/ FirstFails \/ Join \/ Disconnect
  \/ AskOlder \/ OlderAnswer \/ OlderFails

Spec == Init /\ [][Next]_vars

-----------------------------------------------------------------------------
(* Properties *)

\* A message that comes by its answer, by its announcement and in pages of the
\* history, in any order, is in the list once.
NoDuplicates == \A p, q \in DOMAIN chat : chat[p] = chat[q] => p = q

\* index.ts:403, Room.tsx:96, Room.tsx:632: of the messages there are, a page in
\* the room shows, is about to get or can still load every one but those it is
\* known to lose: announced between its reading of the history and its joining
\* or not at all, in the same millisecond as the oldest of a page, dropped by a
\* limit of the list, or skipped by an answer that came after a later one.
NothingElseLost ==
  stage = "joined" => db \ missed \subseteq Shown \cup Ahead \cup calls
                                      \cup {wire[p] : p \in DOMAIN wire}
=============================================================================
