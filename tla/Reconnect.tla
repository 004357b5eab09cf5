------------------------------ MODULE Reconnect ------------------------------
(***************************************************************************)
(* How the room page (web/src/Room.tsx) joins the SFU, moves between the   *)
(* meeting and a breakout room, and reconnects.                            *)
(*                                                                         *)
(* A React effect does it, run anew whenever the room, the token or the    *)
(* reconnect counter of the component changes.  A run of the effect calls  *)
(* start(), which goes on across its awaits after the run was cleaned up,  *)
(* and the runs share the component's refs.  Runs are numbered; the last   *)
(* one is the only one that is not stopped.                                *)
(***************************************************************************)
EXTENDS Integers

CONSTANTS
  MaxDrops,     \* bound: connections lost after they were open
  MaxFails,     \* bound: connections lost before they were open
  MaxSwitches,  \* bound: moves of the user between rooms
  Removals      \* the host may remove the user

ASSUME ConstantsAssumption ==
  /\ MaxDrops \in Nat /\ MaxFails \in Nat /\ MaxSwitches \in Nat
  /\ Removals \in BOOLEAN

\* Enough of them: a move may cause two, when a token is refreshed after it,
\* and there is at most one removal before the first move and after each.
Run == 1 .. 1 + MaxDrops + MaxFails + 2 * MaxSwitches
            + (IF Removals THEN 1 + MaxSwitches ELSE 0)

VARIABLES
  \* the component's state
  mounted,
  room,          \* sfuRoomId
  token,         \* sfuAccessToken is not null
  dirty,         \* the state changed: the effect has to run anew
  \* its refs
  run,           \* connectionGeneration
  socket, peer,  \* the run that set it, 0 for none
  timer,         \* the run whose reconnectTimer is set, 0 for none
  reconnecting,
  \* each run
  stage,         \* what start() does next
  inRoom, withToken,  \* sfuRoomId and sfuAccessToken as the run captured them
  ws,            \* its WebSocket
  pc,            \* its RTCPeerConnection is not closed
  \* outside
  stored,        \* sessionStorage has the token of the breakout room
  removed,       \* the host removed the user, who has done nothing since
  drops, fails, switches   \* counts, for the bounds

stateVars == <<mounted, room, token, dirty>>
refVars == <<run, socket, peer, timer, reconnecting>>
runVars == <<stage, inRoom, withToken, ws, pc>>
countVars == <<drops, fails, switches>>
vars == <<stateVars, refVars, runVars, stored, removed, countVars>>

Room == {"meeting", "breakout"}
Live == {"connecting", "open"}

TypeOK ==
  /\ {mounted, token, dirty, reconnecting, stored, removed} \subseteq BOOLEAN
  /\ room \in Room /\ run \in Run
  /\ {socket, peer, timer} \subseteq Run \cup {0}
  /\ stage \in [Run -> {"none", "load", "refresh", "connection", "socket",
                        "done", "failed", "noToken"}]
  /\ inRoom \in [Run -> Room] /\ withToken \in [Run -> BOOLEAN]
  /\ ws \in [Run -> Live \cup {"none", "closing", "closed"}]
  /\ pc \in [Run -> BOOLEAN]
  /\ {drops, fails, switches} \subseteq Nat

Init ==
  /\ mounted = TRUE /\ room = "meeting" /\ token = FALSE /\ dirty = FALSE
  /\ run = 1 /\ socket = 0 /\ peer = 0 /\ timer = 0 /\ reconnecting = FALSE
  /\ stage = [i \in Run |-> IF i = 1 THEN "load" ELSE "none"]
  /\ inRoom = [i \in Run |-> "meeting"] /\ withToken = [i \in Run |-> FALSE]
  /\ ws = [i \in Run |-> "none"] /\ pc = [i \in Run |-> FALSE]
  /\ stored = FALSE /\ removed = FALSE
  /\ drops = 0 /\ fails = 0 /\ switches = 0

Stopped(i) == i # run \/ ~mounted

Goto(i, st) == stage' = [stage EXCEPT ![i] = st]

-----------------------------------------------------------------------------
(* start() *)

\* The room and the chat history have come; then the token is looked up.  For
\* a breakout room it is stored at once, and without one the run ends.
Load(i) ==
  /\ stage[i] = "load"
  /\ \/ /\ inRoom[i] = "meeting"
        /\ Goto(i, "refresh")
        /\ UNCHANGED stored
     \/ /\ inRoom[i] = "breakout" /\ (withToken[i] \/ stored)
        /\ stored' = TRUE
        /\ Goto(i, "connection")
     \/ /\ inRoom[i] = "breakout" /\ ~(withToken[i] \/ stored)
        /\ Goto(i, "noToken")
        /\ UNCHANGED stored
  /\ UNCHANGED <<stateVars, refVars, inRoom, withToken, ws, pc, removed,
                 countVars>>

\* The token of the meeting is refreshed, which clears sfuAccessToken, whoever
\* set it; or it could not be, and access was asked for instead.
Refresh(i) ==
  /\ stage[i] = "refresh"
  /\ \/ token' = FALSE /\ dirty' = (dirty \/ token)
     \/ UNCHANGED <<token, dirty>>
  /\ Goto(i, "connection")
  /\ UNCHANGED <<mounted, room, refVars, inRoom, withToken, ws, pc, stored,
                 removed, countVars>>

\* A request or the camera failed, or a stopped run gave the camera back.
Fail(i) ==
  /\ stage[i] \in {"load", "refresh", "connection"}
  /\ Goto(i, "failed")
  /\ UNCHANGED <<stateVars, refVars, inRoom, withToken, ws, pc, stored, removed,
                 countVars>>

OpenOrCloseAnyway(i) ==   \* mutant: does not look whether the run is stopped
  /\ pc' = [pc EXCEPT ![i] = TRUE]
  /\ ws' = [ws EXCEPT ![i] = "connecting"]
  /\ socket' = i

\* The last lines of start(): a stopped run closes its connection, another one
\* opens its socket.
OpenOrClose(i) ==
  /\ pc' = [pc EXCEPT ![i] = ~Stopped(i)]
  /\ ws' = [ws EXCEPT ![i] = IF Stopped(i) THEN @ ELSE "connecting"]
  /\ socket' = IF Stopped(i) THEN socket ELSE i

\* new RTCPeerConnection, stopped or not.  When the screen is shared at that
\* moment, start() then awaits the replacement of the camera's track.
MakeConnection(i) ==
  /\ stage[i] = "connection"
  /\ peer' = i
  /\ \/ /\ pc' = [pc EXCEPT ![i] = TRUE]
        /\ Goto(i, "socket")
        /\ UNCHANGED <<ws, socket>>
     \/ OpenOrClose(i) /\ Goto(i, "done")
  /\ UNCHANGED <<stateVars, run, timer, reconnecting, inRoom, withToken, stored,
                 removed, countVars>>

TrackReplaced(i) ==
  /\ stage[i] = "socket"
  /\ OpenOrClose(i)
  /\ Goto(i, "done")
  /\ UNCHANGED <<stateVars, run, peer, timer, reconnecting, inRoom, withToken,
                 stored, removed, countVars>>

-----------------------------------------------------------------------------
(* The socket *)

OpenedStillReconnecting(i) ==   \* mutant: reconnecting stays set
  /\ ws[i] = "connecting"
  /\ ~Stopped(i)
  /\ ws' = [ws EXCEPT ![i] = "open"]
  /\ UNCHANGED <<stateVars, refVars, stage, inRoom, withToken, pc, stored,
                 removed, countVars>>

\* onopen: the page sends its join message.
Opened(i) ==
  /\ ws[i] = "connecting"
  /\ ~Stopped(i)
  /\ ws' = [ws EXCEPT ![i] = "open"]
  /\ reconnecting' = FALSE
  /\ UNCHANGED <<stateVars, run, socket, peer, timer, stage, inRoom, withToken,
                 pc, stored, removed, countVars>>

\* The host removed the user or denied it entry: the page closes the socket
\* and the connection.
Removed(i) ==
  /\ Removals /\ ~removed
  /\ ws[i] = "open" /\ ~Stopped(i)
  /\ removed' = TRUE
  /\ ws' = [ws EXCEPT ![i] = "closing"]
  /\ pc' = [pc EXCEPT ![peer] = FALSE]
  /\ UNCHANGED <<stateVars, refVars, stage, inRoom, withToken, stored, countVars>>

\* onclose, whatever closed the socket, sets the timer.
Closed(i) ==
  /\ ws[i] \in {"connecting", "open", "closing"}
  /\ ~Stopped(i) /\ socket = i
  /\ ws[i] = "connecting" => fails < MaxFails
  /\ ws[i] = "open" => drops < MaxDrops
  /\ fails' = IF ws[i] = "connecting" THEN fails + 1 ELSE fails
  /\ drops' = IF ws[i] = "open" THEN drops + 1 ELSE drops
  /\ ws' = [ws EXCEPT ![i] = "closed"]
  /\ timer' = i
  /\ UNCHANGED <<stateVars, run, socket, peer, reconnecting, stage, inRoom,
                 withToken, pc, stored, removed, switches>>

\* The timer's callback gives up when a reconnect is under way.
TimerFires ==
  /\ timer # 0
  /\ timer' = 0
  /\ dirty' = (dirty \/ (~Stopped(timer) /\ ~reconnecting))
  /\ reconnecting' = (reconnecting \/ ~Stopped(timer))
  /\ UNCHANGED <<mounted, room, token, run, socket, peer, runVars, stored,
                 removed, countVars>>

-----------------------------------------------------------------------------
(* React and the user *)

\* What the cleanup of the last run does to the sockets and connections: it
\* closes those that the refs name.
WsCleaned ==
  [i \in Run |-> IF i = socket /\ ws[i] # "none" THEN "closed" ELSE ws[i]]
PcCleaned == [i \in Run |-> pc[i] /\ i # peer]

CleanupLeavesSocket ==   \* mutant: the socket stays
  timer' = 0 /\ ws' = ws /\ pc' = PcCleaned

Cleanup == timer' = 0 /\ ws' = WsCleaned /\ pc' = PcCleaned

RenderAgain ==   \* mutant: what the effect depends on changes on every render
  /\ mounted /\ dirty
  /\ UNCHANGED <<mounted, room, token, dirty>>
  /\ Cleanup
  /\ run' = run + 1
  /\ Goto(run + 1, "load")
  /\ inRoom' = [inRoom EXCEPT ![run + 1] = room]
  /\ withToken' = [withToken EXCEPT ![run + 1] = token]
  /\ UNCHANGED <<socket, peer, reconnecting, stored, removed, countVars>>

\* The component renders: the last run is cleaned up and the next one starts.
Render ==
  /\ mounted /\ dirty
  /\ dirty' = FALSE
  /\ Cleanup
  /\ run' = run + 1
  /\ Goto(run + 1, "load")
  /\ inRoom' = [inRoom EXCEPT ![run + 1] = room]
  /\ withToken' = [withToken EXCEPT ![run + 1] = token]
  /\ UNCHANGED <<mounted, room, token, socket, peer, reconnecting, stored,
                 removed, countVars>>

Unmount ==
  /\ mounted
  /\ mounted' = FALSE
  /\ Cleanup
  /\ UNCHANGED <<room, token, dirty, run, socket, peer, reconnecting, stage,
                 inRoom, withToken, stored, removed, countVars>>

\* enterBreakout with the token the API gave, or returnToMainRoom with the one
\* in sessionStorage.
SwitchRoom ==
  /\ mounted
  /\ switches < MaxSwitches
  /\ switches' = switches + 1
  /\ room' = IF room = "meeting" THEN "breakout" ELSE "meeting"
  /\ token' = TRUE
  /\ dirty' = TRUE
  /\ removed' = FALSE
  /\ UNCHANGED <<mounted, refVars, runVars, stored, drops, fails>>

-----------------------------------------------------------------------------

Start(i) == Load(i) \/ Refresh(i) \/ MakeConnection(i) \/ TrackReplaced(i)

Next ==
  \/ \E i \in Run : \/ Start(i) \/ Fail(i)
                    \/ Opened(i) \/ Removed(i) \/ Closed(i)
  \/ TimerFires \/ Render \/ Unmount \/ SwitchRoom

Spec == Init /\ [][Next]_vars

\* Requests are answered or fail, a socket opens or is closed, a timer fires
\* and React renders; the user and the host need not do anything.
Fairness ==
  /\ \A i \in Run : /\ WF_vars(Start(i) \/ Fail(i))
                    /\ WF_vars(ws[i] # "open" /\ (Opened(i) \/ Closed(i)))
  /\ WF_vars(TimerFires)
  /\ WF_vars(Render)

FairSpec == Spec /\ Fairness

-----------------------------------------------------------------------------
(* Properties *)

\* However many runs are still at work, at most one has a live socket: the last
\* one of a mounted page, and, unless a render is due, for the room the user
\* chose.
OneSocket ==
  \A i \in Run : ws[i] \in Live =>
    ~Stopped(i) /\ socket = i /\ (dirty \/ inRoom[i] = room)

\* The page comes back after every drop, move and removal, unless its start()
\* failed, as long as no attempt to connect was lost before it opened.
ComesBackAfterDrops ==
  []<>(\/ ~mounted \/ ws[run] = "open" \/ stage[run] \in {"failed", "noToken"}
       \/ fails > 0)

=============================================================================
