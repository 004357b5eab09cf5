----------------------------- MODULE Negotiation -----------------------------
(***************************************************************************)
(* The offer/answer negotiation between the SFU's peer connection of one   *)
(* participant (media/main.go) and that participant's browser              *)
(* (web/src/Room.tsx).                                                     *)
(*                                                                         *)
(* On the SFU: the reader goroutine of the participant, the goroutines of  *)
(* moderators that approve it, those of other participants' OnTrack that   *)
(* attach a track and call renegotiate, and the offerers that renegotiate  *)
(* starts.  A step is one critical section of peer.mu or one operation on  *)
(* the peer connection.  In the browser: the handlers of ws.onmessage,     *)
(* which run concurrently between their awaits, the initial offer and the  *)
(* ICE restart.  Signaling travels over one WebSocket, in order, until a   *)
(* write to it fails.  Descriptions are abstracted to the number of remote *)
(* tracks they can carry: senders, numbered in the order they are attached *)
(***************************************************************************)
EXTENDS Integers, Sequences, FiniteSets

CONSTANTS
  Lobby,         \* the participant starts in the lobby
  Approver,      \* moderators that may let it in
  Initial,       \* tracks of others that the room has when it is let in
  Lines,         \* m-lines of the browser's first offer (camera, microphone)
  When,          \* when tracks of others may come: see Publish
  ApproveEarly,  \* the approval may come before the browser's first offer
  MaxChanges,    \* bound: tracks published by others after it is let in
  MaxRestarts,   \* bound: ICE restarts
  MaxIce         \* bound: candidates sent by the browser

ASSUME ConstantsAssumption ==
  /\ "reader" \notin Approver
  /\ Lobby \in BOOLEAN /\ When \in {"any", "answering", "settled"}
  /\ ApproveEarly \in BOOLEAN
  /\ Initial \in Nat /\ Lines \in Nat \ {0}
  /\ MaxChanges \in Nat /\ MaxRestarts \in Nat /\ MaxIce \in Nat

VARIABLES
  \* the *Peer
  waiting, closed, negotiating, negotiationPending,
  pendingOffer,  \* m-lines of the offer kept for the approval, or NoOffer
  pendingICE,    \* candidates buffered
  \* the peer connection of the SFU
  signaling, remoteSet, attached,
  offered,       \* tracks in the last offer of the SFU
  \* goroutines of the SFU
  stage,         \* the exchange a reader or an approver is in
  lines,         \* m-lines of the offer it answers, or NoOffer
  calls,         \* goroutines about to call renegotiate
  creating, sending,                    \* offerers, by what they do next
  changes,       \* tracks published by others so far
  \* the WebSocket, one queue per direction
  up, down, open,
  broken,        \* a write of the SFU has failed
  \* the browser
  bSignaling, makingOffer,
  bOffering,     \* a local offer under way
  bAnswer,       \* tracks of the answer being applied, or NoAnswer
  bOffer,        \* what the handler of an offer does next
  bOfferTracks,  \* tracks of that offer
  seen,          \* remote tracks the browser knows of
  settled,       \* an exchange has completed in the browser
  restarts, candidates,                 \* counts, for the bounds
  \* history
  letIn,         \* moderators that have let it in
  carried        \* tracks published by others in the last offer of the SFU

peerVars == <<waiting, closed, negotiating, negotiationPending, pendingOffer,
              pendingICE>>
sfuVars == <<signaling, remoteSet, attached, offered, carried>>
goVars == <<stage, lines, letIn, calls, creating, sending, changes>>
browserVars == <<bSignaling, makingOffer, bOffering, bAnswer, bOffer,
                 bOfferTracks, seen, settled, restarts, candidates>>
netVars == <<up, down, open, broken>>
vars == <<peerVars, sfuVars, goVars, netVars, browserVars>>

Signaling == {"stable", "haveLocal", "haveRemote"}
Answerer == {"reader"} \cup Approver
Stage == {"idle", "found", "attach", "setRemote", "flush", "answer",
          "flushAnswer", "finish", "renegotiate"}
NoAnswer == -1
NoOffer == -1
Message == [type : {"offer", "answer", "ice"}, tracks : Nat]

TypeOK ==
  /\ {waiting, closed, negotiating, negotiationPending, remoteSet, open,
      broken, makingOffer, settled} \subseteq BOOLEAN
  /\ {pendingICE, attached, offered, carried, calls, creating, sending, changes,
      seen, bOfferTracks, restarts, candidates} \subseteq Nat
  /\ pendingOffer \in Nat \cup {NoOffer}
  /\ signaling \in Signaling /\ bSignaling \in Signaling
  /\ stage \in [Answerer -> Stage] /\ lines \in [Answerer -> Nat \cup {NoOffer}]
  \* Who answers has an offer: the pointer is not nil.
  /\ \A w \in Answerer :
       stage[w] \in {"setRemote", "flush", "answer"} => lines[w] \in Nat
  /\ letIn \subseteq Approver
  /\ up \in Seq(Message) /\ down \in Seq(Message)
  /\ bOffering \in {"none", "initial", "restart"}
  /\ bAnswer \in Nat \cup {NoAnswer}
  /\ bOffer \in {"idle", "rollback", "apply", "answer"}

Init ==
  /\ waiting = Lobby
  /\ attached = IF Lobby THEN 0 ELSE Initial
  /\ closed = FALSE /\ negotiating = FALSE /\ negotiationPending = FALSE
  /\ pendingOffer = NoOffer /\ pendingICE = 0
  /\ signaling = "stable" /\ remoteSet = FALSE /\ offered = 0 /\ carried = 0
  /\ stage = [w \in Answerer |-> "idle"] /\ lines = [w \in Answerer |-> NoOffer]
  /\ letIn = {} /\ calls = 0 /\ creating = 0 /\ sending = 0 /\ changes = 0
  /\ up = <<>> /\ down = <<>> /\ open = TRUE /\ broken = FALSE
  \* ws.onopen has sent the join message and begun the first offer.
  /\ bSignaling = "stable" /\ makingOffer = TRUE /\ bOffering = "initial"
  /\ bAnswer = NoAnswer /\ bOffer = "idle" /\ bOfferTracks = 0
  /\ seen = 0 /\ settled = FALSE /\ restarts = 0 /\ candidates = 0

-----------------------------------------------------------------------------
(* renegotiate and negotiationFinished *)

AtMostLess(m, n) == IF m < n THEN m ELSE n - 1   \* mutant: a line is left out

AtMost(m, n) == IF m < n THEN m ELSE n

RenegotiateForgetful ==   \* mutant: a request during an exchange is dropped
  /\ negotiating' = (negotiating \/ ~closed)
  /\ creating' = IF closed \/ negotiating THEN creating ELSE creating + 1
  /\ UNCHANGED negotiationPending

RenegotiateEager ==   \* mutant: does not look at negotiating
  /\ negotiating' = (negotiating \/ ~closed)
  /\ creating' = IF closed THEN creating ELSE creating + 1
  /\ UNCHANGED negotiationPending

\* The critical section of renegotiate.
Renegotiate ==
  IF closed
  THEN UNCHANGED <<negotiating, negotiationPending, creating>>
  ELSE /\ negotiating' = TRUE
       /\ negotiationPending' = (negotiationPending \/ negotiating)
       /\ creating' = IF negotiating THEN creating ELSE creating + 1

\* The critical section of negotiationFinished; Again holds when the caller
\* goes on to call renegotiate.
Finished == negotiating' = FALSE /\ negotiationPending' = FALSE
Again == negotiationPending /\ ~closed

-----------------------------------------------------------------------------
(* The offerer *)

\* CreateOffer and SetLocalDescription.  The connection takes a local offer
\* only in the stable state; when it is closed any operation may fail.
CreateOffer ==
  /\ creating > 0
  /\ creating' = creating - 1
  /\ \/ /\ signaling = "stable"
        /\ signaling' = "haveLocal"
        /\ offered' = attached /\ carried' = changes
        /\ sending' = sending + 1
        /\ UNCHANGED <<negotiating, negotiationPending, calls>>
     \/ /\ signaling # "stable" \/ closed
        /\ Finished
        /\ calls' = IF Again THEN calls + 1 ELSE calls
        /\ UNCHANGED <<signaling, offered, carried, sending>>
  /\ UNCHANGED <<waiting, closed, pendingOffer, pendingICE, remoteSet, attached,
                 stage, lines, letIn, changes, netVars, browserVars>>

\* send does nothing once the peer is closed.  A write may fail at any time,
\* and all that follow fail, too.
Written(m) ==
  /\ ~closed /\ ~broken
  /\ down' = Append(down, m)
  /\ UNCHANGED broken
WriteFails ==
  /\ ~closed
  /\ broken' = TRUE
  /\ UNCHANGED down
NotWritten == closed /\ UNCHANGED <<down, broken>>

\* When the offer cannot be written the exchange is over for the peer, while
\* its connection keeps the local offer.
SendOffer ==
  /\ sending > 0
  /\ sending' = sending - 1
  /\ \/ /\ Written([type |-> "offer", tracks |-> offered]) \/ NotWritten
        /\ UNCHANGED <<negotiating, negotiationPending, calls>>
     \/ /\ WriteFails
        /\ Finished
        /\ calls' = IF Again THEN calls + 1 ELSE calls
  /\ UNCHANGED <<waiting, closed, pendingOffer, pendingICE, sfuVars, stage,
                 lines,
                 letIn, creating, changes, up, open, browserVars>>

-----------------------------------------------------------------------------
(* The reader goroutine and the approvers *)

ReadHead(type) == stage["reader"] = "idle" /\ up # <<>> /\ Head(up).type = type

Goto(w, st) == stage' = [stage EXCEPT ![w] = st]

DropsNothing == closed   \* mutant: answers whatever exchange is in progress

DropsOffer == closed \/ negotiating

\* An offer of the browser: kept while in the lobby, dropped while another
\* exchange is in progress.
TakeOffer ==
  /\ ReadHead("offer")
  /\ up' = Tail(up)
  /\ \/ /\ waiting
        /\ pendingOffer' = Head(up).tracks
        /\ UNCHANGED <<negotiating, stage, lines>>
     \/ /\ ~waiting
        /\ DropsOffer
        /\ UNCHANGED <<pendingOffer, negotiating, stage, lines>>
     \/ /\ ~waiting /\ ~DropsOffer
        /\ negotiating' = TRUE
        /\ Goto("reader", "setRemote")
        /\ lines' = [lines EXCEPT !["reader"] = Head(up).tracks]
        /\ UNCHANGED pendingOffer
  /\ UNCHANGED <<waiting, closed, negotiationPending, pendingICE, sfuVars,
                 letIn,
                 calls, creating, sending, changes, down, open, broken,
                 browserVars>>

SetRemoteOffer(w) ==
  /\ stage[w] = "setRemote"
  /\ \/ /\ signaling = "stable"
        /\ signaling' = "haveRemote" /\ remoteSet' = TRUE
        /\ Goto(w, "flush")
     \/ /\ signaling # "stable" \/ closed
        /\ Goto(w, "finish")
        /\ UNCHANGED <<signaling, remoteSet>>
  /\ UNCHANGED <<peerVars, attached, offered, carried, lines, letIn, calls,
                 creating, sending, changes, netVars, browserVars>>

KeptAfterAnswer(w) ==   \* mutant: no flush after an answer
  IF stage[w] = "flushAnswer" THEN pendingICE ELSE 0

KeptAfterFlush(w) == 0

FlushPendingICE(w) ==
  /\ stage[w] \in {"flush", "flushAnswer"}
  /\ pendingICE' = KeptAfterFlush(w)
  /\ Goto(w, IF stage[w] = "flush" THEN "answer" ELSE "finish")
  /\ UNCHANGED <<waiting, closed, negotiating, negotiationPending, pendingOffer,
                 sfuVars, lines, letIn, calls, creating, sending, changes,
                 netVars, browserVars>>

\* CreateAnswer, SetLocalDescription and send, whose failure is ignored.  An
\* answer has the m-lines of its offer: the tracks beyond them are not in it.
Answer(w) ==
  /\ stage[w] = "answer"
  /\ \/ /\ signaling = "haveRemote"
        /\ signaling' = "stable"
        /\ \/ Written([type |-> "answer",
                       tracks |-> AtMost(attached, lines[w])])
           \/ WriteFails \/ NotWritten
     \/ /\ signaling # "haveRemote" \/ closed
        /\ UNCHANGED <<signaling, down, broken>>
  /\ Goto(w, "finish")
  /\ UNCHANGED <<peerVars, remoteSet, attached, offered, carried, lines, letIn,
                 calls, creating, sending, changes, up, open, browserVars>>

Finish(w) ==
  /\ stage[w] = "finish"
  /\ Finished
  /\ Goto(w, IF Again THEN "renegotiate" ELSE "idle")
  /\ UNCHANGED <<waiting, closed, pendingOffer, pendingICE, sfuVars, lines,
                 letIn,
                 calls, creating, sending, changes, netVars, browserVars>>

RenegotiateAfter(w) ==
  /\ stage[w] = "renegotiate"
  /\ Renegotiate
  /\ Goto(w, "idle")
  /\ UNCHANGED <<waiting, closed, pendingOffer, pendingICE, sfuVars, lines,
                 letIn,
                 calls, sending, changes, netVars, browserVars>>

\* An answer that does not fit the signaling state is ignored.
ReadAnswer ==
  /\ ReadHead("answer")
  /\ up' = Tail(up)
  /\ \/ /\ signaling = "haveLocal"
        /\ signaling' = "stable" /\ remoteSet' = TRUE
        /\ Goto("reader", "flushAnswer")
     \/ /\ signaling # "haveLocal" \/ closed
        /\ UNCHANGED <<signaling, remoteSet, stage>>
  /\ UNCHANGED <<peerVars, attached, offered, carried, lines, letIn, calls,
                 creating, sending, changes, down, open, broken, browserVars>>

\* A candidate is buffered until there is a remote description.
ReadIce ==
  /\ ReadHead("ice")
  /\ up' = Tail(up)
  /\ pendingICE' = IF closed \/ remoteSet THEN pendingICE ELSE pendingICE + 1
  /\ UNCHANGED <<waiting, closed, negotiating, negotiationPending, pendingOffer,
                 sfuVars, goVars, down, open, broken, browserVars>>

\* The approval: a moderator finds the participant waiting, ...
FindWaiting(q) ==
  /\ stage[q] = "idle"
  /\ waiting
  /\ ApproveEarly \/ pendingOffer # NoOffer
  /\ Goto(q, "found")
  /\ UNCHANGED <<peerVars, sfuVars, lines, letIn, calls, creating, sending,
                 changes,
                 netVars, browserVars>>

\* ... lets it in without looking again, though another may have done so by
\* now, and takes the offer kept, ...
LetIn(q) ==
  /\ stage[q] = "found"
  /\ waiting' = FALSE
  /\ pendingOffer' = NoOffer
  /\ lines' = [lines EXCEPT ![q] = pendingOffer]
  /\ letIn' = letIn \cup {q}
  /\ Goto(q, "attach")
  /\ UNCHANGED <<closed, negotiating, negotiationPending, pendingICE, sfuVars,
                 calls, creating, sending, changes, netVars, browserVars>>

AttachRoomUnasked(q) ==   \* mutant: an offer is answered that was not kept
  /\ stage[q] = "attach"
  /\ attached' = attached + Initial
  /\ Goto(q, "setRemote") /\ negotiating' = TRUE
  /\ UNCHANGED <<waiting, closed, negotiationPending, pendingOffer, pendingICE,
                 signaling, remoteSet, offered, carried, lines, letIn, calls,
                 creating, sending, changes, netVars, browserVars>>

\* ... attaches the tracks of the room, in addition to those it may have by
\* another approval, and answers, whatever exchange is in progress by then.
AttachRoom(q) ==
  /\ stage[q] = "attach"
  /\ attached' = attached + Initial
  /\ IF lines[q] = NoOffer
     THEN Goto(q, "idle") /\ UNCHANGED negotiating
     ELSE Goto(q, "setRemote") /\ negotiating' = TRUE
  /\ UNCHANGED <<waiting, closed, negotiationPending, pendingOffer, pendingICE,
                 signaling, remoteSet, offered, carried, lines, letIn, calls,
                 creating, sending, changes, netVars, browserVars>>

-----------------------------------------------------------------------------
(* Other goroutines *)

\* OnTrack of another participant: AddTrack, then renegotiate.  It may come
\* at any time; the instances also look at the scenarios in which it comes
\* after the first exchange, or while an offer of the browser is answered.
Publish ==
  /\ ~waiting /\ ~closed
  /\ When = "settled" => settled
  /\ When = "answering" => negotiating /\ stage["reader"] # "idle"
  /\ changes < MaxChanges
  /\ changes' = changes + 1
  /\ attached' = attached + 1
  /\ calls' = calls + 1
  /\ UNCHANGED <<peerVars, signaling, remoteSet, offered, carried, stage, lines,
                 letIn, creating, sending, netVars, browserVars>>

RenegotiateCall ==
  /\ calls > 0
  /\ calls' = calls - 1
  /\ Renegotiate
  /\ UNCHANGED <<waiting, closed, pendingOffer, pendingICE, sfuVars, stage,
                 lines, letIn, sending, changes, netVars, browserVars>>

\* removePeer, for any of its reasons.
RemovePeer ==
  /\ ~closed
  /\ closed' = TRUE
  /\ Finished
  /\ UNCHANGED <<waiting, pendingOffer, pendingICE, sfuVars, goVars, netVars,
                 browserVars>>

-----------------------------------------------------------------------------
(* The browser *)

\* setLocalDescription(offer) and ws.send.  The first offer clears
\* makingOffer at once, an ICE restart leaves it set until the answer.
SendLocalOffer ==
  /\ open
  /\ bOffering # "none"
  /\ bOffering' = "none"
  /\ \/ /\ bSignaling = "stable"
        /\ bSignaling' = "haveLocal"
        /\ up' = Append(up, [type |-> "offer",
                             tracks |-> IF seen > Lines THEN seen ELSE Lines])
        /\ makingOffer' = (bOffering = "restart")
     \/ /\ bSignaling # "stable"
        /\ makingOffer' = FALSE
        /\ UNCHANGED <<bSignaling, up>>
  /\ UNCHANGED <<peerVars, sfuVars, goVars, down, open, broken, bAnswer, bOffer,
                 bOfferTracks, seen, settled, restarts, candidates>>

IceRestart ==
  /\ open /\ settled
  /\ bSignaling = "stable" /\ ~makingOffer
  /\ restarts < MaxRestarts
  /\ restarts' = restarts + 1
  /\ makingOffer' = TRUE
  /\ bOffering' = "restart"
  /\ UNCHANGED <<peerVars, sfuVars, goVars, netVars, bSignaling, bAnswer,
                 bOffer, bOfferTracks, seen, settled, candidates>>

SendIce ==
  /\ open
  /\ candidates < MaxIce
  /\ candidates' = candidates + 1
  /\ up' = Append(up, [type |-> "ice", tracks |-> 0])
  /\ UNCHANGED <<peerVars, sfuVars, goVars, down, open, broken, bSignaling,
                 makingOffer,
                 bOffering, bAnswer, bOffer, bOfferTracks, seen, settled,
                 restarts>>

OnMessage(type) == open /\ down # <<>> /\ Head(down).type = type

\* The answer handler up to its await.
OnAnswer ==
  /\ OnMessage("answer")
  /\ down' = Tail(down)
  /\ IF bSignaling = "haveLocal"
     THEN bAnswer' = Head(down).tracks /\ UNCHANGED makingOffer
     ELSE makingOffer' = FALSE /\ UNCHANGED bAnswer
  /\ UNCHANGED <<peerVars, sfuVars, goVars, up, open, broken, bSignaling,
                 bOffering,
                 bOffer, bOfferTracks, seen, settled, restarts, candidates>>

\* setRemoteDescription(answer) resolves, or rejects and the socket is closed.
ApplyAnswer ==
  /\ open
  /\ bAnswer # NoAnswer
  /\ bAnswer' = NoAnswer
  /\ makingOffer' = FALSE
  /\ IF bSignaling = "haveLocal"
     THEN /\ bSignaling' = "stable" /\ seen' = bAnswer /\ settled' = TRUE
          /\ UNCHANGED open
     ELSE /\ open' = FALSE
          /\ UNCHANGED <<bSignaling, seen, settled>>
  /\ UNCHANGED <<peerVars, sfuVars, goVars, up, down, broken, bOffering, bOffer,
                 bOfferTracks, restarts, candidates>>

\* The offer handler up to its first await: it goes on when stable, rolls back
\* an offer of its own, and ignores the SFU's offer otherwise.
OnOffer ==
  /\ OnMessage("offer")
  /\ bOffer = "idle"
  /\ down' = Tail(down)
  /\ bOfferTracks' = Head(down).tracks
  /\ bOffer' = CASE bSignaling = "stable" -> "apply"
                 [] bSignaling = "haveLocal" /\ makingOffer -> "rollback"
                 [] OTHER -> "idle"
  /\ UNCHANGED <<peerVars, sfuVars, goVars, up, open, broken, bSignaling,
                 makingOffer,
                 bOffering, bAnswer, seen, settled, restarts, candidates>>

\* Operations on the browser's connection queue up: the rollback waits for an
\* answer being applied, and is rejected when that made the state stable.
Rollback ==
  /\ open
  /\ bOffer = "rollback"
  /\ bAnswer = NoAnswer
  /\ IF bSignaling = "haveLocal"
     THEN bSignaling' = "stable" /\ makingOffer' = FALSE /\ bOffer' = "apply"
     ELSE bOffer' = "idle" /\ UNCHANGED <<bSignaling, makingOffer>>
  /\ UNCHANGED <<peerVars, sfuVars, goVars, netVars, bOffering, bAnswer,
                 bOfferTracks, seen, settled, restarts, candidates>>

\* setRemoteDescription(offer); a local offer made meanwhile is rolled back by
\* the browser itself.
ApplyOffer ==
  /\ open
  /\ bOffer = "apply"
  /\ bSignaling \in {"stable", "haveLocal"}
  /\ bSignaling' = "haveRemote"
  /\ seen' = bOfferTracks
  /\ bOffer' = "answer"
  /\ UNCHANGED <<peerVars, sfuVars, goVars, netVars, makingOffer, bOffering,
                 bAnswer, bOfferTracks, settled, restarts, candidates>>

AnswerOffer ==
  /\ open
  /\ bOffer = "answer"
  /\ bSignaling' = "stable"
  /\ settled' = TRUE
  /\ bOffer' = "idle"
  /\ up' = Append(up, [type |-> "answer", tracks |-> 0])
  /\ UNCHANGED <<peerVars, sfuVars, goVars, down, open, broken, makingOffer,
                 bOffering, bAnswer, bOfferTracks, seen, restarts, candidates>>

-----------------------------------------------------------------------------

Serve ==
  \/ TakeOffer \/ ReadAnswer \/ ReadIce
  \/ \E w \in Answerer : \/ SetRemoteOffer(w) \/ FlushPendingICE(w)
                         \/ Answer(w) \/ Finish(w) \/ RenegotiateAfter(w)
  \/ \E q \in Approver : LetIn(q) \/ AttachRoom(q)
  \/ CreateOffer \/ SendOffer \/ RenegotiateCall

Browse ==
  \/ SendLocalOffer \/ OnAnswer \/ ApplyAnswer
  \/ OnOffer \/ Rollback \/ ApplyOffer \/ AnswerOffer

Environment ==
  \/ \E q \in Approver : FindWaiting(q)
  \/ Publish \/ RemovePeer \/ IceRestart \/ SendIce

Next == Serve \/ Browse \/ Environment

Spec == Init /\ [][Next]_vars

\* Goroutines that can run do, messages are delivered, and the browser's
\* promises settle; approvals, publications, removals and restarts may never
\* come.  But the read of the reader fails when the socket is broken, and the
\* reader then removes its peer.
Fairness ==
  /\ WF_vars(TakeOffer \/ ReadAnswer \/ ReadIce)
  /\ \A w \in Answerer :
       WF_vars(\/ SetRemoteOffer(w) \/ FlushPendingICE(w)
               \/ Answer(w) \/ Finish(w) \/ RenegotiateAfter(w))
  /\ \A q \in Approver : WF_vars(LetIn(q) \/ AttachRoom(q))
  /\ WF_vars(broken /\ RemovePeer)
  /\ WF_vars(CreateOffer) /\ WF_vars(SendOffer) /\ WF_vars(RenegotiateCall)
  /\ WF_vars(SendLocalOffer)
  /\ WF_vars(OnAnswer \/ OnOffer)
  /\ WF_vars(ApplyAnswer)
  /\ WF_vars(Rollback \/ ApplyOffer \/ AnswerOffer)

FairSpec == Spec /\ Fairness

-----------------------------------------------------------------------------
(* Properties *)

\* Exchanges that the SFU has begun: offers to be made or sent, or one that is
\* out; and those of the browser that the reader or an approver answers, or the
\* end of the SFU's own.
Own ==
  creating + sending
  + (IF signaling = "haveLocal" /\ sending = 0 THEN 1 ELSE 0)
Busy(w) ==
  stage[w] \in {"setRemote", "flush", "answer", "flushAnswer", "finish"}

\* README.md: "serialized SFU renegotiation".  Until a write to the socket
\* fails, exchanges never overlap, and the flag negotiating is up as long as one
\* is in hand.  (When it is the offer that could not be written, the flag is
\* lowered while the connection keeps that offer: the peer is as good as gone.)
Serialized ==
  ~closed /\ ~broken =>
    /\ Own <= 1
    /\ \A w \in Answerer :
         Busy(w) => Own = 0 /\ \A v \in Answerer \ {w} : ~Busy(v)
    /\ Own = 1 \/ (\E w \in Answerer : Busy(w)) => negotiating

\* A track that was published is in an offer already made, or somebody still has
\* to ask for one or to make it: until a write fails, no request to renegotiate
\* is lost between the flag, the pending mark and the goroutines.
NoLostRequest ==
  ~closed /\ ~broken /\ changes > carried =>
    \/ calls > 0 \/ creating > 0 \/ negotiationPending
    \/ \E w \in Answerer : stage[w] = "renegotiate"

\* A candidate is never left in the buffer once there is a remote description
\* and the goroutine that set it has flushed.
NoStrandedCandidate ==
  /\ remoteSet
  /\ \A w \in Answerer : stage[w] \notin {"flush", "flushAnswer"}
  => pendingICE = 0

\* Nothing is in flight, and nobody is about to negotiate.
Quiet ==
  /\ ~closed /\ open /\ ~broken /\ ~waiting /\ settled /\ ~negotiating
  /\ up = <<>> /\ down = <<>> /\ calls = 0
  /\ \A w \in Answerer : stage[w] = "idle"
  /\ bOffering = "none" /\ bAnswer = NoAnswer /\ bOffer = "idle"

\* When nothing is in flight and the SFU does not negotiate, both ends are
\* stable and the browser knows every track it was ever offered.
QuietInStep ==
  Quiet => signaling = "stable" /\ bSignaling = "stable" /\ seen >= offered

\* Two moderators have let it in.
Twice == \E q, r \in letIn : q # r

\* media/main.go:467: the tracks of the room "are included in that answer", if
\* the participant's offer has lines for them all: it knows them as soon as
\* nothing is in flight, through the lobby, too, when it is let in after its
\* offer has come.  (When it is let in twice the tracks of the room are attached
\* twice, and one may take the line of another.)
ExistingTracksIncluded == Quiet /\ Initial <= Lines /\ ~Twice => seen >= Initial

\* Senders that further approvals have put on: they ask nobody to renegotiate.
Doubled == IF Twice THEN Initial * (Cardinality(letIn) - 1) ELSE 0

\* media/main.go:489: track changes observed during the browser's exchange are
\* "queued and renegotiated after this exchange becomes stable": every track
\* reaches the browser, unless the participant leaves.
TracksArrive == <>[](closed \/ ~open \/ waiting \/ attached - seen <= Doubled)
=============================================================================
