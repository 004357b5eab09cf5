--------------------------- MODULE ReconnectProofs ---------------------------
(***************************************************************************)
(* Theorems about Reconnect, for any number of drops, failed attempts and  *)
(* moves, and so for any number of runs of the effect.                     *)
(***************************************************************************)
EXTENDS Reconnect, TLAPS

\* The parts of TypeOK that OneSocket rests on.
RunsOK ==
  /\ room \in Room
  /\ stage \in [Run -> {"none", "load", "refresh", "connection", "socket",
                        "done", "failed", "noToken"}]
  /\ inRoom \in [Run -> Room]
  /\ ws \in [Run -> Live \cup {"none", "closing", "closed"}]

\* Unless a render is due, the last run is for the room the user chose.
LastRunOK == run \in Run /\ ~dirty => inRoom[run] = room

IInv == RunsOK /\ LastRunOK /\ OneSocket

\* What the last run of the cleanup closes is all there is to close.
LEMMA CleanupClosesAll ==
  ASSUME IInv, Cleanup
  PROVE  /\ ws' \in [Run -> Live \cup {"none", "closing", "closed"}]
         /\ \A i \in Run : ws'[i] \notin Live
<1>1. \A i \in Run : ws'[i] = IF i = socket /\ ws[i] # "none" THEN "closed" ELSE ws[i]
  BY DEF Cleanup, WsCleaned
<1>2. \A i \in Run : ws[i] \in Live => socket = i
  BY DEF IInv, OneSocket
<1>3. ws' \in [Run -> Live \cup {"none", "closing", "closed"}]
  BY DEF Cleanup, WsCleaned, IInv, RunsOK
<1>4. QED
  BY <1>1, <1>2, <1>3 DEF Live

\* A step that leaves the choice of the room and the sockets' owners alone,
\* and opens no socket, keeps the invariant.
LEMMA NothingOpened ==
  ASSUME IInv, RunsOK',
         UNCHANGED <<mounted, room, run, socket, inRoom>>, dirty => dirty',
         \A i \in Run : ws'[i] \in Live => ws[i] \in Live
  PROVE  IInv'
BY DEF IInv, LastRunOK, OneSocket, Stopped

\* The last lines of start() open a socket for the last run only.
LEMMA OpensForTheLastRun ==
  ASSUME IInv, RunsOK', NEW i \in Run, OpenOrClose(i),
         UNCHANGED <<mounted, room, dirty, run, inRoom>>
  PROVE  IInv'
<1>1. CASE Stopped(i)
  <2>1. ws' = ws /\ socket' = socket
    BY <1>1 DEF OpenOrClose, IInv, RunsOK
  <2>2. QED
    BY <2>1 DEF IInv, LastRunOK, OneSocket, Stopped
<1>2. CASE ~Stopped(i)
  <2>1. i = run /\ mounted /\ socket' = i
    BY <1>2 DEF OpenOrClose, Stopped
  <2>2. \A j \in Run : j # i => ws'[j] = ws[j]
    BY <1>2 DEF OpenOrClose, IInv, RunsOK
  <2>3. \A j \in Run : ws'[j] \in Live => j = i
    BY <2>1, <2>2 DEF IInv, OneSocket, Stopped
  <2>4. QED
    BY <2>1, <2>3 DEF IInv, LastRunOK, OneSocket, Stopped
<1>3. QED
  BY <1>1, <1>2

\* However many runs of the effect are at work at once, at most one socket is
\* live: that of the last run, for the room the user chose.
THEOREM AtMostOneSocket == Spec => []OneSocket
<1>1. Init => IInv
  BY DEF Init, IInv, RunsOK, LastRunOK, OneSocket, Room, Live, Run
<1>2. IInv /\ [Next]_vars => IInv'
  <2> SUFFICES ASSUME IInv, [Next]_vars
               PROVE  IInv'
    OBVIOUS
  <2>1. ASSUME NEW i \in Run, Load(i) \/ Refresh(i) \/ Fail(i)
        PROVE  IInv'
    <3>1. RunsOK' /\ UNCHANGED <<mounted, room, run, socket, inRoom, ws>>
      BY <2>1 DEF Load, Refresh, Fail, Goto, IInv, RunsOK, refVars, stateVars
    <3>2. dirty => dirty'
      BY <2>1 DEF Load, Refresh, Fail, stateVars
    <3>3. QED
      BY <3>1, <3>2, NothingOpened
  <2>2. ASSUME NEW i \in Run, MakeConnection(i)
        PROVE  IInv'
    <3>1. UNCHANGED <<mounted, room, dirty, run, inRoom>>
      BY <2>2 DEF MakeConnection, stateVars
    <3>2. CASE UNCHANGED <<ws, socket>> /\ Goto(i, "socket")
      <4>1. RunsOK'
        BY <3>1, <3>2 DEF Goto, IInv, RunsOK
      <4>2. QED
        BY <3>1, <3>2, <4>1, NothingOpened
    <3>3. CASE OpenOrClose(i) /\ Goto(i, "done")
      <4>1. RunsOK'
        BY <3>1, <3>3 DEF OpenOrClose, Goto, IInv, RunsOK, Live
      <4>2. QED
        BY <3>1, <3>3, <4>1, OpensForTheLastRun
    <3>4. QED
      BY <2>2, <3>2, <3>3 DEF MakeConnection
  <2>3. ASSUME NEW i \in Run, TrackReplaced(i)
        PROVE  IInv'
    <3>1. /\ OpenOrClose(i) /\ Goto(i, "done")
          /\ UNCHANGED <<mounted, room, dirty, run, inRoom>>
      BY <2>3 DEF TrackReplaced, stateVars
    <3>2. RunsOK'
      BY <3>1 DEF OpenOrClose, Goto, IInv, RunsOK, Live
    <3>3. QED
      BY <3>1, <3>2, OpensForTheLastRun
  <2>4. ASSUME NEW i \in Run, Opened(i) \/ Removed(i) \/ Closed(i)
        PROVE  IInv'
    <3>1. /\ UNCHANGED <<mounted, room, dirty, run, socket, stage, inRoom>>
          /\ \/ ws[i] = "connecting" /\ ws' = [ws EXCEPT ![i] = "open"]
             \/ ws' = [ws EXCEPT ![i] = "closing"]
             \/ ws' = [ws EXCEPT ![i] = "closed"]
      BY <2>4 DEF Opened, Removed, Closed, stateVars, refVars
    <3>2. RunsOK' /\ \A j \in Run : ws'[j] \in Live => ws[j] \in Live
      BY <3>1 DEF IInv, RunsOK, Live
    <3>3. QED
      BY <3>1, <3>2, NothingOpened
  <2>5. CASE TimerFires
    <3>1. /\ UNCHANGED <<mounted, room, run, socket, stage, inRoom, ws>>
          /\ dirty => dirty'
      BY <2>5 DEF TimerFires, runVars
    <3>2. QED
      BY <3>1, NothingOpened DEF IInv, RunsOK
  <2>6. CASE Render
    <3>1. /\ ws' \in [Run -> Live \cup {"none", "closing", "closed"}]
          /\ \A i \in Run : ws'[i] \notin Live
      BY <2>6, CleanupClosesAll DEF Render
    <3>2. RunsOK'
      BY <2>6, <3>1 DEF Render, Goto, IInv, RunsOK
    <3>3. LastRunOK'
      BY <2>6 DEF Render, IInv, RunsOK, LastRunOK
    <3>4. QED
      BY <3>1, <3>2, <3>3 DEF IInv, OneSocket
  <2>7. CASE Unmount
    <3>1. /\ ws' \in [Run -> Live \cup {"none", "closing", "closed"}]
          /\ \A i \in Run : ws'[i] \notin Live
      BY <2>7, CleanupClosesAll DEF Unmount
    <3>2. UNCHANGED <<room, dirty, run, stage, inRoom>>
      BY <2>7 DEF Unmount
    <3>3. QED
      BY <3>1, <3>2 DEF IInv, RunsOK, LastRunOK, OneSocket
  <2>8. CASE SwitchRoom
    <3>1. /\ dirty' = TRUE /\ room' \in Room
          /\ UNCHANGED <<mounted, run, socket, stage, inRoom, ws>>
      BY <2>8 DEF SwitchRoom, refVars, runVars, Room
    <3>2. QED
      BY <3>1 DEF IInv, RunsOK, LastRunOK, OneSocket, Stopped
  <2>9. CASE UNCHANGED vars
    BY <2>9 DEF vars, stateVars, refVars, runVars, IInv, RunsOK, LastRunOK,
                OneSocket, Stopped
  <2>10. QED
    BY <2>1, <2>2, <2>3, <2>4, <2>5, <2>6, <2>7, <2>8, <2>9 DEF Next, Start
<1>3. IInv => OneSocket
  BY DEF IInv
<1>4. QED
  BY <1>1, <1>2, <1>3, PTL DEF Spec

-----------------------------------------------------------------------------
(* Types, and how often the effect runs *)

FlagsOK ==
  /\ mounted \in BOOLEAN /\ token \in BOOLEAN /\ dirty \in BOOLEAN
  /\ reconnecting \in BOOLEAN /\ stored \in BOOLEAN /\ removed \in BOOLEAN

RefsOK ==
  /\ run \in Run /\ socket \in Run \cup {0} /\ peer \in Run \cup {0}
  /\ timer \in Run \cup {0}

CapturedOK == withToken \in [Run -> BOOLEAN] /\ pc \in [Run -> BOOLEAN]

CountsOK == drops \in Nat /\ fails \in Nat /\ switches \in Nat

LEMMA TypeParts == TypeOK <=> FlagsOK /\ RefsOK /\ RunsOK /\ CapturedOK /\ CountsOK
<1>1. {mounted, token, dirty, reconnecting, stored, removed} \subseteq BOOLEAN <=> FlagsOK
  BY Zenon DEF FlagsOK
<1>2. run \in Run /\ {socket, peer, timer} \subseteq Run \cup {0} <=> RefsOK
  BY Zenon DEF RefsOK
<1>3. {drops, fails, switches} \subseteq Nat <=> CountsOK
  BY Zenon DEF CountsOK
<1> QED
  BY <1>1, <1>2, <1>3, Zenon DEF TypeOK, RunsOK, CapturedOK

One(b) == IF b THEN 1 ELSE 0

\* What may still bring about a run: a render that is due, a token that a
\* refresh will clear, the timer of the last run, and its closing socket, which
\* will set that timer.
Due == One(dirty) + One(token) + One(timer = run) + One(ws[run] = "closing")

\* What has happened to the page.
Causes ==
  drops + fails + 2 * switches + (IF Removals THEN switches + One(removed) ELSE 0)

\* Every run but the first has a cause of its own: the effect never runs by
\* itself again and again.
Budget ==
  /\ drops <= MaxDrops /\ fails <= MaxFails /\ switches <= MaxSwitches
  /\ run + Due <= 1 + Causes
  /\ \A i \in Run : i > run => ws[i] = "none"

LEMMA RunRange ==
  /\ 1 \in Run
  /\ \A i \in Run : i \in Nat \ {0}
  /\ FlagsOK /\ CountsOK /\ run \in Nat \ {0} /\ Budget /\ dirty => run + 1 \in Run
<1>1. 1 \in Run /\ \A i \in Run : i \in Nat \ {0}
  BY ConstantsAssumption DEF Run
<1>2. ASSUME FlagsOK, CountsOK, run \in Nat \ {0}, Budget, dirty
      PROVE  run + 1 \in Run
  <2>1. run + 1 <= 1 + Causes
    BY <1>2 DEF Budget, Due, One, Causes, FlagsOK, CountsOK
  <2>2. Causes <= MaxDrops + MaxFails + 2 * MaxSwitches
                    + (IF Removals THEN 1 + MaxSwitches ELSE 0)
    BY <1>2, ConstantsAssumption DEF Budget, Causes, One, CountsOK
  <2> QED
    BY <1>2, <2>1, <2>2, ConstantsAssumption DEF Run, Causes, CountsOK, One
<1> QED
  BY <1>1, <1>2

LEMMA Sums == Due \in Nat /\ (CountsOK => Causes \in Nat)
BY DEF Due, Causes, One, CountsOK

LEMMA Balance ==
  ASSUME NEW r \in Nat, NEW due \in Nat, NEW newDue \in Nat, NEW causes \in Nat,
         NEW newCauses \in Nat, r + due <= 1 + causes, newDue - due <= newCauses - causes
  PROVE  r + newDue <= 1 + newCauses
OBVIOUS

Parts == FlagsOK /\ RefsOK /\ RunsOK /\ CapturedOK /\ CountsOK

LEMMA InitParts == Init => Parts /\ Budget
<1> SUFFICES ASSUME Init
             PROVE  Parts /\ Budget
  OBVIOUS
<1>1. FlagsOK
  BY DEF Init, FlagsOK
<1>2. RefsOK
  BY RunRange DEF Init, RefsOK
<1>3. RunsOK /\ CapturedOK
  BY DEF Init, RunsOK, CapturedOK, Room, Live
<1>4. CountsOK
  BY DEF Init, CountsOK
<1>5. Budget
  BY RunRange, ConstantsAssumption DEF Init, Budget, Due, Causes, One
<1> QED
  BY <1>1, <1>2, <1>3, <1>4, <1>5 DEF Parts

LEMMA PartsStep == Parts /\ Budget /\ [Next]_vars => Parts' /\ Budget'
<1> SUFFICES ASSUME Parts, Budget, [Next]_vars
             PROVE  Parts' /\ Budget'
  OBVIOUS
<1>0. run \in Nat \ {0} /\ ws[run] \in Live \cup {"none", "closing", "closed"}
  BY RunRange DEF Parts, RefsOK, RunsOK
<1>a. /\ Due \in Nat /\ (CountsOK => Causes \in Nat)
      /\ Due' \in Nat /\ (CountsOK' => Causes' \in Nat)
  BY Sums DEF Due, Causes, One, CountsOK
<1> USE DEF Parts, FlagsOK, RefsOK, RunsOK, CapturedOK, CountsOK, Goto
<1>1. ASSUME NEW i \in Run, Load(i) \/ Fail(i)
      PROVE  Parts' /\ Budget'
  <2>1. /\ UNCHANGED <<stateVars, refVars, inRoom, withToken, ws, pc, removed, countVars>>
        /\ stored' \in BOOLEAN
        /\ \E st \in {"refresh", "connection", "noToken", "failed"} :
             stage' = [stage EXCEPT ![i] = st]
    BY <1>1 DEF Load, Fail
  <2>2. Parts'
    BY <2>1 DEF stateVars, refVars, countVars
  <2>3. Budget'
    BY <2>1 DEF stateVars, refVars, countVars, Budget, Due, Causes
  <2> QED
    BY <2>2, <2>3
<1>2. ASSUME NEW i \in Run, Refresh(i)
      PROVE  Parts' /\ Budget'
  <2>1. /\ UNCHANGED <<mounted, room, refVars, inRoom, withToken, ws, pc, stored, removed,
                       countVars>>
        /\ stage' = [stage EXCEPT ![i] = "connection"]
    BY <1>2 DEF Refresh
  <2>c. \/ token' = FALSE /\ dirty' = (dirty \/ token)
        \/ token' = token /\ dirty' = dirty
    BY <1>2 DEF Refresh
  <2>a. /\ token' \in BOOLEAN /\ dirty' \in BOOLEAN
        /\ \/ (token' <=> token) /\ (dirty' <=> dirty)
           \/ token /\ ~token' /\ dirty'
           \/ ~token /\ ~token' /\ (dirty' <=> dirty)
    <3>1. CASE token' = token /\ dirty' = dirty
      BY <3>1, Zenon
    <3>2. CASE token' = FALSE /\ dirty' = (dirty \/ token)
      BY <3>2, Zenon
    <3> QED
      BY <2>c, <3>1, <3>2
  <2>b. One(dirty') + One(token') <= One(dirty) + One(token)
    BY <2>a DEF One
  <2>2. Parts'
    BY <2>1, <2>a DEF refVars, countVars
  <2>3. Budget'
    BY <1>0, <2>1, <2>a, <2>b DEF refVars, countVars, Budget, Due, Causes, One
  <2> QED
    BY <2>2, <2>3
<1>3. ASSUME NEW i \in Run, MakeConnection(i) \/ TrackReplaced(i)
      PROVE  Parts' /\ Budget'
  <2>1. /\ UNCHANGED <<stateVars, run, timer, reconnecting, inRoom, withToken, stored,
                       removed, countVars>>
        /\ peer' \in {peer, i} /\ socket' \in {socket, i}
        /\ \E st \in {"socket", "done"} : stage' = [stage EXCEPT ![i] = st]
        /\ \E b \in BOOLEAN : pc' = [pc EXCEPT ![i] = b]
        /\ ws' = ws \/ (i = run /\ ws' = [ws EXCEPT ![i] = "connecting"])
    BY <1>3 DEF MakeConnection, TrackReplaced, OpenOrClose, Stopped
  <2>2. Parts'
    BY <2>1 DEF stateVars, countVars, Live
  <2>3. CASE ws' = ws
    BY <2>1, <2>3 DEF stateVars, countVars, Budget, Due, Causes
  <2>4. CASE i = run /\ ws' = [ws EXCEPT ![i] = "connecting"]
    <3>1. ws'[run] # "closing" /\ \A j \in Run : j > run => ws'[j] = "none"
      BY <2>4, RunRange DEF Budget
    <3>2. Due' <= Due /\ Causes' = Causes /\ Due \in Nat /\ Due' \in Nat
      BY <2>1, <3>1 DEF stateVars, countVars, Due, Causes, One
    <3>3. run' + Due' <= 1 + Causes'
      BY <1>0, <2>1, <3>2, ConstantsAssumption DEF Budget, Causes, One
    <3> QED
      BY <2>1, <2>2, <3>1, <3>3 DEF Budget, countVars
  <2> QED
    BY <2>1, <2>2, <2>3, <2>4
<1>4. ASSUME NEW i \in Run, Opened(i)
      PROVE  Parts' /\ Budget'
  <2>1. /\ UNCHANGED <<stateVars, run, socket, peer, timer, stage, inRoom, withToken, pc,
                       stored, removed, countVars>>
        /\ reconnecting' \in BOOLEAN
        /\ i = run /\ ws[i] = "connecting" /\ ws' = [ws EXCEPT ![i] = "open"]
    BY <1>4 DEF Opened, Stopped
  <2>2. Parts'
    BY <2>1 DEF stateVars, countVars, Live
  <2>3. ws'[run] # "closing" /\ ws[run] # "closing" /\ \A j \in Run : j > run => ws'[j] = "none"
    BY <2>1, RunRange DEF Budget
  <2>4. Due' = Due /\ Causes' = Causes
    BY <2>1, <2>3 DEF stateVars, countVars, Due, Causes, One
  <2> QED
    BY <2>1, <2>2, <2>3, <2>4 DEF Budget, countVars
<1>5. ASSUME NEW i \in Run, Removed(i)
      PROVE  Parts' /\ Budget'
  <2>1. /\ UNCHANGED <<stateVars, refVars, stage, inRoom, withToken, stored, countVars>>
        /\ Removals /\ ~removed /\ removed' = TRUE
        /\ i = run /\ ws[i] = "open" /\ ws' = [ws EXCEPT ![i] = "closing"]
        /\ pc' = [pc EXCEPT ![peer] = FALSE]
    BY <1>5 DEF Removed, Stopped
  <2>2. Parts'
    BY <2>1 DEF stateVars, refVars, countVars
  <2>3. ws'[run] = "closing" /\ ws[run] # "closing" /\ \A j \in Run : j > run => ws'[j] = "none"
    BY <2>1, RunRange DEF Budget
  <2>4. Due' = Due + 1 /\ Causes' = Causes + 1
    BY <2>1, <2>3 DEF stateVars, refVars, countVars, Due, Causes, One
  <2>5. run' + Due' <= 1 + Causes'
    BY <1>0, <2>1, <2>4 DEF Budget, Due, Causes, One, refVars
  <2> QED
    BY <2>1, <2>2, <2>3, <2>5 DEF Budget, countVars, refVars
<1>6. ASSUME NEW i \in Run, Closed(i)
      PROVE  Parts' /\ Budget'
  <2>1. /\ UNCHANGED <<stateVars, run, socket, peer, reconnecting, stage, inRoom, withToken,
                       pc, stored, removed, switches>>
        /\ i = run /\ timer' = i /\ ws' = [ws EXCEPT ![i] = "closed"]
        /\ ws[i] = "connecting" => fails < MaxFails
        /\ ws[i] = "open" => drops < MaxDrops
        /\ fails' = IF ws[i] = "connecting" THEN fails + 1 ELSE fails
        /\ drops' = IF ws[i] = "open" THEN drops + 1 ELSE drops
        /\ ws[i] \in {"connecting", "open", "closing"}
    BY <1>6 DEF Closed, Stopped
  <2>2. Parts'
    BY <2>1 DEF stateVars
  <2>3. ws'[run] = "closed" /\ \A j \in Run : j > run => ws'[j] = "none"
    BY <2>1, RunRange DEF Budget
  <2>4. drops' <= MaxDrops /\ fails' <= MaxFails
    BY <2>1, ConstantsAssumption DEF Budget
  <2>5. Due' - Due <= Causes' - Causes
    <3>1. CASE ws[i] = "closing"
      BY <2>1, <2>3, <3>1 DEF stateVars, Due, Causes, One
    <3>2. CASE ws[i] = "connecting"
      BY <2>1, <2>3, <3>2 DEF stateVars, Due, Causes, One
    <3>3. CASE ws[i] = "open"
      BY <2>1, <2>3, <3>3 DEF stateVars, Due, Causes, One
    <3> QED
      BY <2>1, <3>1, <3>2, <3>3
  <2>6. Due \in Nat /\ Due' \in Nat /\ Causes \in Nat /\ Causes' \in Nat
    BY <1>a, <2>2
  <2>7. run' + Due' <= 1 + Causes'
    <3>1. run + Due <= 1 + Causes /\ run' = run
      BY <2>1 DEF Budget
    <3> QED
      BY <1>0, <2>5, <2>6, <3>1, Balance
  <2> QED
    BY <2>1, <2>2, <2>3, <2>4, <2>7 DEF Budget
<1>7. CASE TimerFires
  <2>1. /\ UNCHANGED <<mounted, room, token, run, socket, peer, runVars, stored, removed,
                       countVars>>
        /\ timer' = 0
        /\ dirty' = (dirty \/ (~Stopped(timer) /\ ~reconnecting))
        /\ reconnecting' = (reconnecting \/ ~Stopped(timer))
    BY <1>7 DEF TimerFires
  <2>2. dirty' \in BOOLEAN /\ reconnecting' \in BOOLEAN /\ (dirty' => dirty \/ timer = run)
    BY <2>1, Zenon DEF Stopped
  <2>3. Parts'
    BY <2>1, <2>2 DEF runVars, countVars
  <2>4. One(dirty') + One(timer' = run') <= One(dirty) + One(timer = run)
    BY <1>0, <2>1, <2>2 DEF One
  <2>5. run' + Due' <= 1 + Causes'
    BY <1>0, <2>1, <2>4 DEF Budget, Due, Causes, One, runVars, countVars
  <2> QED
    BY <2>1, <2>3, <2>5 DEF Budget, runVars, countVars
<1>8. CASE Render
  <2>1. /\ dirty /\ dirty' = FALSE /\ timer' = 0 /\ run' = run + 1
        /\ ws' = WsCleaned /\ pc' = PcCleaned
        /\ stage' = [stage EXCEPT ![run + 1] = "load"]
        /\ inRoom' = [inRoom EXCEPT ![run + 1] = room]
        /\ withToken' = [withToken EXCEPT ![run + 1] = token]
        /\ UNCHANGED <<mounted, room, token, socket, peer, reconnecting, stored, removed,
                       countVars>>
    BY <1>8 DEF Render, Cleanup
  <2>2. run + 1 \in Run
    BY <1>0, <2>1, RunRange
  <2>3. Parts'
    BY <2>1, <2>2 DEF WsCleaned, PcCleaned, countVars
  <2>4. \A j \in Run : j > run => ws'[j] = "none"
    BY <2>1 DEF WsCleaned, Budget
  <2>5. ws'[run'] = "none"
    BY <1>0, <2>1, <2>2, <2>4
  <2>6. run' + Due' <= 1 + Causes'
    BY <1>0, <2>1, <2>5 DEF Budget, Due, Causes, One, countVars
  <2>7. \A j \in Run : j > run' => ws'[j] = "none"
    BY <1>0, <2>1, <2>4, RunRange
  <2> QED
    BY <2>1, <2>3, <2>6, <2>7 DEF Budget, countVars
<1>9. CASE Unmount
  <2>1. /\ timer' = 0 /\ mounted' = FALSE
        /\ ws' = WsCleaned /\ pc' = PcCleaned
        /\ UNCHANGED <<room, token, dirty, run, socket, peer, reconnecting, stage, inRoom,
                       withToken, stored, removed, countVars>>
    BY <1>9 DEF Unmount, Cleanup
  <2>2. Parts'
    BY <2>1 DEF WsCleaned, PcCleaned, countVars
  <2>3. /\ ws'[run] = "closing" => ws[run] = "closing"
        /\ \A j \in Run : j > run => ws'[j] = "none"
    BY <2>1 DEF WsCleaned, Budget
  <2>4. run' + Due' <= 1 + Causes'
    BY <1>0, <2>1, <2>3 DEF Budget, Due, Causes, One, countVars
  <2> QED
    BY <2>1, <2>2, <2>3, <2>4 DEF Budget, countVars
<1>10. CASE SwitchRoom
  <2>1. /\ switches < MaxSwitches /\ switches' = switches + 1
        /\ room' \in Room
        /\ UNCHANGED <<mounted, refVars, runVars, stored, drops, fails>>
    BY <1>10 DEF SwitchRoom, Room
  <2>b. token' /\ dirty' /\ ~removed' /\ FlagsOK'
    BY <1>10, Zenon DEF SwitchRoom, refVars
  <2>a. FlagsOK' /\ CountsOK'
    BY <2>1, <2>b DEF refVars
  <2>2. Parts'
    BY <2>1, <2>a DEF refVars, runVars
  <2>3. Due' - Due <= Causes' - Causes
    BY <2>1, <2>b DEF refVars, runVars, Due, Causes, One
  <2>4. Due \in Nat /\ Due' \in Nat /\ Causes \in Nat /\ Causes' \in Nat
    BY <1>a, <2>2
  <2>5. run' + Due' <= 1 + Causes'
    <3>1. run + Due <= 1 + Causes /\ run' = run
      BY <2>1 DEF Budget, refVars
    <3> QED
      BY <1>0, <2>3, <2>4, <3>1, Balance
  <2>6. switches' <= MaxSwitches
    BY <2>1, ConstantsAssumption
  <2> QED
    BY <2>1, <2>2, <2>5, <2>6 DEF Budget, refVars, runVars
<1>11. CASE UNCHANGED vars
  <2>1. UNCHANGED <<stateVars, refVars, runVars, stored, removed, countVars>>
    BY <1>11 DEF vars
  <2>2. Parts'
    BY <2>1 DEF stateVars, refVars, runVars, countVars
  <2>3. Budget'
    BY <2>1 DEF stateVars, refVars, runVars, countVars, Budget, Due, Causes
  <2> QED
    BY <2>2, <2>3
<1> QED
  BY <1>1, <1>2, <1>3, <1>4, <1>5, <1>6, <1>7, <1>8, <1>9, <1>10, <1>11 DEF Next, Start

\* The component's state, its refs and its runs are of the right shape in every
\* behaviour; in particular there are no more runs of the effect than drops,
\* failed attempts, moves and removals account for, however they interleave.
THEOREM TypeCorrect == Spec => []TypeOK
<1>1. Parts /\ Budget => TypeOK
  BY TypeParts DEF Parts
<1> QED
  BY <1>1, InitParts, PartsStep, PTL DEF Spec
=============================================================================
