-------------------------- MODULE NegotiationProofs --------------------------
(***************************************************************************)
(* Proofs about Negotiation, for every value of its constants: any number  *)
(* of moderators, tracks, changes, candidates and ICE restarts, with or    *)
(* without a lobby where the theorem does not say otherwise.               *)
(***************************************************************************)
EXTENDS Negotiation, SequenceTheorems, TLAPS

-----------------------------------------------------------------------------
(* Messages in a queue *)

Has(q, type) == \E i \in DOMAIN q : q[i].type = type

Followed(q, i, type) == \E j \in DOMAIN q : j > i /\ q[j].type = type

\* What sending does to a queue, and what receiving does.
LEMMA Sent ==
  ASSUME NEW q \in Seq(Message), NEW m \in Message
  PROVE  /\ Append(q, m) \in Seq(Message)
         /\ Len(q) \in Nat /\ DOMAIN q = 1 .. Len(q)
         /\ DOMAIN Append(q, m) = 1 .. Len(q) + 1
         /\ \A i \in 1 .. Len(q) : Append(q, m)[i] = q[i]
         /\ Append(q, m)[Len(q) + 1] = m
BY AppendProperties, LenProperties

LEMMA Received ==
  ASSUME NEW q \in Seq(Message), q # <<>>
  PROVE  /\ Tail(q) \in Seq(Message) /\ Head(q) \in Message
         /\ Len(q) \in Nat \ {0} /\ DOMAIN q = 1 .. Len(q)
         /\ DOMAIN Tail(q) = 1 .. Len(q) - 1
         /\ Head(q) = q[1]
         /\ \A i \in 1 .. Len(q) - 1 : Tail(q)[i] = q[i + 1]
<1>1. Len(q) \in Nat /\ Len(q) # 0 /\ DOMAIN q = 1 .. Len(q)
  BY EmptySeq, LenProperties
<1>2. /\ Tail(q) \in Seq(Message) /\ Head(q) \in Message
      /\ Len(Tail(q)) = Len(q) - 1
      /\ \A i \in 1 .. Len(Tail(q)) : Tail(q)[i] = q[i + 1]
  BY HeadTailProperties
<1>3. DOMAIN Tail(q) = 1 .. Len(q) - 1
  BY <1>2, LenProperties
<1>4. Head(q) = q[1]
  BY <1>1
<1> QED
  BY <1>1, <1>2, <1>3, <1>4

LEMMA MessageHas ==
  /\ \A m \in Message : m.type \in {"offer", "answer", "ice"} /\ m.tracks \in Nat
  /\ \A t \in {"offer", "answer", "ice"}, n \in Nat : [type |-> t, tracks |-> n] \in Message
BY DEF Message

-----------------------------------------------------------------------------
(* Types *)

Flags ==
  /\ waiting \in BOOLEAN /\ closed \in BOOLEAN
  /\ negotiating \in BOOLEAN /\ negotiationPending \in BOOLEAN
  /\ remoteSet \in BOOLEAN /\ open \in BOOLEAN
  /\ broken \in BOOLEAN /\ makingOffer \in BOOLEAN /\ settled \in BOOLEAN

Counts ==
  /\ pendingICE \in Nat
  /\ attached \in Nat /\ offered \in Nat /\ carried \in Nat
  /\ calls \in Nat /\ creating \in Nat /\ sending \in Nat /\ changes \in Nat
  /\ seen \in Nat /\ bOfferTracks \in Nat
  /\ restarts \in Nat /\ candidates \in Nat

Places ==
  /\ signaling \in Signaling /\ bSignaling \in Signaling
  /\ pendingOffer \in Nat \cup {NoOffer}
  /\ stage \in [Answerer -> Stage] /\ lines \in [Answerer -> Nat \cup {NoOffer}]
  /\ \A w \in Answerer :
       stage[w] \in {"setRemote", "flush", "answer"} => lines[w] \in Nat
  /\ letIn \subseteq Approver
  /\ up \in Seq(Message) /\ down \in Seq(Message)
  /\ bOffering \in {"none", "initial", "restart"}
  /\ bAnswer \in Nat \cup {NoAnswer}
  /\ bOffer \in {"idle", "rollback", "apply", "answer"}

LEMMA TypeParts == TypeOK <=> Flags /\ Counts /\ Places
<1>1. {waiting, closed, negotiating, negotiationPending, remoteSet, open,
       broken, makingOffer, settled} \subseteq BOOLEAN <=> Flags
  BY Zenon DEF Flags
<1>2. {pendingICE, attached, offered, carried, calls, creating, sending, changes,
       seen, bOfferTracks, restarts, candidates} \subseteq Nat <=> Counts
  BY Zenon DEF Counts
<1> QED
  BY <1>1, <1>2, Zenon DEF TypeOK, Places

LEMMA InitType == Init => TypeOK
<1> SUFFICES ASSUME Init PROVE Flags /\ Counts /\ Places
  BY TypeParts
<1>1. Flags
  BY ConstantsAssumption DEF Init, Flags
<1>2. Counts
  BY ConstantsAssumption DEF Init, Counts
<1>3. Places
  BY DEF Init, Places, Signaling, Stage, Answerer, NoAnswer, NoOffer
<1> QED
  BY <1>1, <1>2, <1>3

LEMMA FlagsStep == Flags /\ [Next]_vars => Flags'
<1> SUFFICES ASSUME Flags, [Next]_vars
             PROVE  Flags'
  OBVIOUS
<1> USE DEF Flags, peerVars, sfuVars, goVars, netVars, browserVars
<1>1. CASE TakeOffer \/ ReadAnswer \/ ReadIce
  BY <1>1 DEF TakeOffer, ReadAnswer, ReadIce
<1>2. ASSUME NEW w \in Answerer, SetRemoteOffer(w) \/ FlushPendingICE(w) \/ Answer(w)
      PROVE  Flags'
  BY <1>2 DEF SetRemoteOffer, FlushPendingICE, Answer, Written, WriteFails, NotWritten
<1>3. ASSUME NEW w \in Answerer, Finish(w) \/ RenegotiateAfter(w)
      PROVE  Flags'
  BY <1>3, Zenon DEF Finish, RenegotiateAfter, Finished, Renegotiate
<1>4. CASE CreateOffer \/ SendOffer \/ RenegotiateCall
  BY <1>4, Zenon DEF CreateOffer, SendOffer, Written, WriteFails, NotWritten,
                     RenegotiateCall, Finished, Renegotiate
<1>5. CASE SendLocalOffer \/ OnAnswer \/ ApplyAnswer
  BY <1>5, Zenon DEF SendLocalOffer, OnAnswer, ApplyAnswer
<1>6. CASE OnOffer \/ Rollback \/ ApplyOffer \/ AnswerOffer
  BY <1>6, Zenon DEF OnOffer, Rollback, ApplyOffer, AnswerOffer
<1>7. CASE Publish \/ RemovePeer \/ IceRestart \/ SendIce
  BY <1>7, Zenon DEF Publish, RemovePeer, IceRestart, SendIce, Finished
<1>8. ASSUME NEW q \in Approver, FindWaiting(q) \/ LetIn(q) \/ AttachRoom(q)
      PROVE  Flags'
  BY <1>8 DEF FindWaiting, LetIn, AttachRoom
<1>9. CASE UNCHANGED vars
  BY <1>9 DEF vars
<1> QED
  BY <1>1, <1>2, <1>3, <1>4, <1>5, <1>6, <1>7, <1>8, <1>9
  DEF Next, Serve, Browse, Environment

LEMMA CountsStep == Counts /\ Places /\ [Next]_vars => Counts'
<1> SUFFICES ASSUME Counts, Places, [Next]_vars
             PROVE  Counts'
  OBVIOUS
<1> USE DEF Counts, peerVars, sfuVars, goVars, netVars, browserVars
<1>1. CASE TakeOffer \/ ReadAnswer \/ ReadIce
  <2>1. up # <<>> /\ up \in Seq(Message)
    BY <1>1 DEF TakeOffer, ReadAnswer, ReadIce, ReadHead, Places
  <2>2. Head(up).tracks \in Nat
    BY <2>1, Received, MessageHas
  <2>3. CASE TakeOffer
    BY <2>2, <2>3 DEF TakeOffer
  <2>4. CASE ReadAnswer
    BY <2>4 DEF ReadAnswer
  <2>5. CASE ReadIce
    BY <2>5 DEF ReadIce
  <2> QED
    BY <1>1, <2>3, <2>4, <2>5
<1>2. ASSUME NEW w \in Answerer, SetRemoteOffer(w) \/ FlushPendingICE(w) \/ Answer(w)
      PROVE  Counts'
  <2>1. CASE SetRemoteOffer(w)
    BY <2>1 DEF SetRemoteOffer
  <2>2. CASE FlushPendingICE(w)
    BY <2>2 DEF FlushPendingICE, KeptAfterFlush
  <2>3. CASE Answer(w)
    BY <2>3 DEF Answer
  <2> QED
    BY <1>2, <2>1, <2>2, <2>3
<1>3. ASSUME NEW w \in Answerer, Finish(w) \/ RenegotiateAfter(w)
      PROVE  Counts'
  BY <1>3 DEF Finish, RenegotiateAfter, Renegotiate
<1>4. CASE CreateOffer \/ SendOffer \/ RenegotiateCall
  <2>1. CASE CreateOffer
    BY <2>1 DEF CreateOffer
  <2>2. CASE SendOffer
    BY <2>2 DEF SendOffer
  <2>3. CASE RenegotiateCall
    BY <2>3 DEF RenegotiateCall, Renegotiate
  <2> QED
    BY <1>4, <2>1, <2>2, <2>3
<1>5. CASE SendLocalOffer \/ OnAnswer \/ ApplyAnswer
  BY <1>5 DEF SendLocalOffer, OnAnswer, ApplyAnswer, Places
<1>6. CASE OnOffer
  <2>1. down # <<>> /\ down \in Seq(Message)
    BY <1>6 DEF OnOffer, OnMessage, Places
  <2>2. Head(down).tracks \in Nat
    BY <2>1, Received, MessageHas
  <2> QED
    BY <1>6, <2>2 DEF OnOffer
<1>7. CASE Rollback \/ ApplyOffer \/ AnswerOffer
  BY <1>7 DEF Rollback, ApplyOffer, AnswerOffer
<1>8. CASE Publish \/ RemovePeer \/ IceRestart \/ SendIce
  <2>1. CASE Publish
    BY <2>1 DEF Publish
  <2>2. CASE RemovePeer
    BY <2>2 DEF RemovePeer
  <2>3. CASE IceRestart
    BY <2>3 DEF IceRestart
  <2>4. CASE SendIce
    BY <2>4, ConstantsAssumption DEF SendIce
  <2> QED
    BY <1>8, <2>1, <2>2, <2>3, <2>4
<1>9. ASSUME NEW q \in Approver, FindWaiting(q) \/ LetIn(q) \/ AttachRoom(q)
      PROVE  Counts'
  <2>1. CASE FindWaiting(q) \/ LetIn(q)
    BY <2>1 DEF FindWaiting, LetIn
  <2>2. CASE AttachRoom(q)
    BY <2>2, ConstantsAssumption DEF AttachRoom
  <2> QED
    BY <1>9, <2>1, <2>2
<1>10. CASE UNCHANGED vars
  BY <1>10 DEF vars
<1> QED
  BY <1>1, <1>2, <1>3, <1>4, <1>5, <1>6, <1>7, <1>8, <1>9, <1>10
  DEF Next, Serve, Browse, Environment

LEMMA QueuesStep ==
  Counts /\ Places /\ [Next]_vars => up' \in Seq(Message) /\ down' \in Seq(Message)
<1> SUFFICES ASSUME Counts, Places, [Next]_vars
             PROVE  up' \in Seq(Message) /\ down' \in Seq(Message)
  OBVIOUS
<1>0. up \in Seq(Message) /\ down \in Seq(Message)
  BY DEF Places
<1> USE DEF peerVars, sfuVars, goVars, netVars, browserVars
<1>1. CASE TakeOffer \/ ReadAnswer \/ ReadIce
  <2>1. up # <<>> /\ up' = Tail(up) /\ UNCHANGED down
    BY <1>1 DEF TakeOffer, ReadAnswer, ReadIce, ReadHead
  <2> QED
    BY <1>0, <2>1, Received
<1>2. ASSUME NEW w \in Answerer, Answer(w)
      PROVE  up' \in Seq(Message) /\ down' \in Seq(Message)
  <2> DEFINE n == AtMost(attached, lines[w])
  <2>1. n \in Nat
    BY <1>2 DEF Answer, Places, Counts, AtMost
  <2> HIDE DEF n
  <2>2. [type |-> "answer", tracks |-> n] \in Message
    BY <2>1, MessageHas
  <2>3. /\ UNCHANGED up
        /\ UNCHANGED down \/ down' = Append(down, [type |-> "answer", tracks |-> n])
    BY <1>2 DEF Answer, Written, WriteFails, NotWritten, n
  <2> QED
    BY <1>0, <2>2, <2>3, Sent
<1>3. CASE SendOffer
  <2>1. [type |-> "offer", tracks |-> offered] \in Message
    BY MessageHas DEF Counts
  <2> QED
    BY <1>0, <1>3, <2>1, Sent DEF SendOffer, Written, WriteFails, NotWritten
<1>4. CASE SendLocalOffer
  <2> DEFINE n == IF seen > Lines THEN seen ELSE Lines
  <2>1. n \in Nat
    BY ConstantsAssumption DEF Counts
  <2> HIDE DEF n
  <2>2. [type |-> "offer", tracks |-> n] \in Message
    BY <2>1, MessageHas
  <2>3. UNCHANGED down /\ (UNCHANGED up \/ up' = Append(up, [type |-> "offer", tracks |-> n]))
    BY <1>4 DEF SendLocalOffer, n
  <2> QED
    BY <1>0, <2>2, <2>3, Sent
<1>5. CASE AnswerOffer \/ SendIce
  <2>1. /\ [type |-> "answer", tracks |-> 0] \in Message
        /\ [type |-> "ice", tracks |-> 0] \in Message
    BY MessageHas
  <2> QED
    BY <1>0, <1>5, <2>1, Sent DEF AnswerOffer, SendIce
<1>6. CASE OnAnswer \/ OnOffer
  <2>1. down # <<>> /\ down' = Tail(down) /\ UNCHANGED up
    BY <1>6 DEF OnAnswer, OnOffer, OnMessage
  <2> QED
    BY <1>0, <2>1, Received
<1>7. CASE UNCHANGED <<up, down>>
  BY <1>0, <1>7
<1>8. (\E w \in Answerer : SetRemoteOffer(w) \/ FlushPendingICE(w) \/ Finish(w)
                             \/ RenegotiateAfter(w))
        \/ (\E q \in Approver : FindWaiting(q) \/ LetIn(q) \/ AttachRoom(q))
        \/ CreateOffer \/ RenegotiateCall \/ ApplyAnswer \/ Rollback
        \/ ApplyOffer \/ Publish \/ RemovePeer \/ IceRestart
        \/ UNCHANGED vars
      => UNCHANGED <<up, down>>
  BY DEF SetRemoteOffer, FlushPendingICE, Finish, RenegotiateAfter, FindWaiting, LetIn,
         AttachRoom, CreateOffer, RenegotiateCall, ApplyAnswer, Rollback, ApplyOffer,
         Publish, RemovePeer, IceRestart, vars
<1> QED
  BY <1>1, <1>2, <1>3, <1>4, <1>5, <1>6, <1>7, <1>8
  DEF Next, Serve, Browse, Environment

LEMMA PlacesStep == Counts /\ Places /\ [Next]_vars => Places'
<1> SUFFICES ASSUME Counts, Places, [Next]_vars
             PROVE  Places'
  OBVIOUS
<1>0. up' \in Seq(Message) /\ down' \in Seq(Message)
  BY QueuesStep
<1> USE DEF Places, Signaling, Stage, Goto, peerVars, sfuVars, goVars, netVars,
            browserVars
<1>1. CASE TakeOffer \/ ReadAnswer \/ ReadIce
  <2>1. up # <<>> /\ up \in Seq(Message)
    BY <1>1 DEF TakeOffer, ReadAnswer, ReadIce, ReadHead
  <2>2. Head(up).tracks \in Nat
    BY <2>1, Received, MessageHas
  <2> QED
    BY <1>0, <1>1, <2>2 DEF TakeOffer, ReadAnswer, ReadIce, Answerer
<1>2. ASSUME NEW w \in Answerer, SetRemoteOffer(w) \/ FlushPendingICE(w) \/ Answer(w)
      PROVE  Places'
  <2>1. CASE SetRemoteOffer(w)
    BY <1>0, <2>1 DEF SetRemoteOffer
  <2>2. CASE FlushPendingICE(w)
    BY <1>0, <2>2 DEF FlushPendingICE
  <2>3. CASE Answer(w)
    BY <1>0, <2>3 DEF Answer
  <2> QED
    BY <1>2, <2>1, <2>2, <2>3
<1>3. ASSUME NEW w \in Answerer, Finish(w) \/ RenegotiateAfter(w)
      PROVE  Places'
  BY <1>0, <1>3 DEF Finish, RenegotiateAfter
<1>4. CASE CreateOffer \/ SendOffer \/ RenegotiateCall
  BY <1>0, <1>4 DEF CreateOffer, SendOffer, RenegotiateCall
<1>5. CASE SendLocalOffer \/ ApplyAnswer
  BY <1>0, <1>5 DEF SendLocalOffer, ApplyAnswer
<1>6. CASE OnAnswer
  <2>1. Head(down).tracks \in Nat
    BY <1>6, Received, MessageHas DEF OnAnswer, OnMessage
  <2> QED
    BY <1>0, <1>6, <2>1 DEF OnAnswer
<1>7. CASE OnOffer \/ Rollback \/ ApplyOffer \/ AnswerOffer
  BY <1>0, <1>7 DEF OnOffer, Rollback, ApplyOffer, AnswerOffer
<1>8. CASE Publish \/ RemovePeer \/ IceRestart \/ SendIce
  BY <1>0, <1>8 DEF Publish, RemovePeer, IceRestart, SendIce
<1>9. ASSUME NEW q \in Approver, FindWaiting(q) \/ LetIn(q) \/ AttachRoom(q)
      PROVE  Places'
  <2>1. CASE FindWaiting(q)
    BY <1>0, <2>1 DEF FindWaiting, Answerer
  <2>2. CASE LetIn(q)
    BY <1>0, <2>2 DEF LetIn, Answerer
  <2>3. CASE AttachRoom(q)
    BY <1>0, <2>3 DEF AttachRoom, Answerer
  <2> QED
    BY <1>9, <2>1, <2>2, <2>3
<1>10. CASE UNCHANGED vars
  BY <1>10 DEF vars
<1> QED
  BY <1>1, <1>2, <1>3, <1>4, <1>5, <1>6, <1>7, <1>8, <1>9, <1>10
  DEF Next, Serve, Browse, Environment

LEMMA TypeStep == TypeOK /\ [Next]_vars => TypeOK'
<1>1. TypeOK' <=> Flags' /\ Counts' /\ Places'
  BY TypeParts, PTL
<1> QED
  BY <1>1, TypeParts, FlagsStep, CountsStep, PlacesStep

\* The peer, its connection, the queues and the browser are of the right shape
\* in every behaviour.
THEOREM TypeCorrect == Spec => []TypeOK
BY InitType, TypeStep, PTL DEF Spec

-----------------------------------------------------------------------------
(* Candidates *)

\* No candidate of the browser is left in the buffer: whoever sets the remote
\* description flushes it, the approver as well as the reader, and none is
\* buffered afterwards.
THEOREM CandidatesFlushed == Spec => []NoStrandedCandidate
<1>1. Init => NoStrandedCandidate
  BY DEF Init, NoStrandedCandidate
<1>2. Places /\ NoStrandedCandidate /\ [Next]_vars => NoStrandedCandidate'
  <2> SUFFICES ASSUME Places, NoStrandedCandidate, [Next]_vars
               PROVE  NoStrandedCandidate'
    OBVIOUS
  <2> USE DEF Places, Stage, NoStrandedCandidate, Answerer, Goto, peerVars, sfuVars
  \* Those who set the remote description have to flush.
  <2>1. ASSUME NEW w \in Answerer, SetRemoteOffer(w)
        PROVE  NoStrandedCandidate'
    BY <2>1 DEF SetRemoteOffer
  <2>2. CASE ReadAnswer
    BY <2>2 DEF ReadAnswer, ReadHead
  \* Who flushes empties the buffer.
  <2>3. ASSUME NEW w \in Answerer, FlushPendingICE(w)
        PROVE  NoStrandedCandidate'
    BY <2>3 DEF FlushPendingICE, KeptAfterFlush
  \* A candidate is buffered only without a remote description.
  <2>4. CASE ReadIce
    BY <2>4 DEF ReadIce, goVars
  \* The others who move an exchange on do not move it past a flush.
  <2>5. CASE TakeOffer
    BY <2>5 DEF TakeOffer, ReadHead
  <2>6. ASSUME NEW w \in Answerer,
               Answer(w) \/ Finish(w) \/ RenegotiateAfter(w)
        PROVE  NoStrandedCandidate'
    BY <2>6 DEF Answer, Finish, RenegotiateAfter
  <2>7. ASSUME NEW q \in Approver, FindWaiting(q) \/ LetIn(q)
        PROVE  NoStrandedCandidate'
    BY <2>7 DEF FindWaiting, LetIn
  <2>8. ASSUME NEW q \in Approver, AttachRoom(q)
        PROVE  NoStrandedCandidate'
    BY <2>8 DEF AttachRoom
  \* Nobody else touches the buffer, the description or an exchange.
  <2>9. CreateOffer \/ SendOffer \/ RenegotiateCall \/ Publish \/ RemovePeer
          \/ IceRestart \/ SendIce \/ Browse \/ UNCHANGED vars
        => UNCHANGED <<remoteSet, pendingICE, stage>>
    BY DEF CreateOffer, SendOffer, RenegotiateCall, Publish, RemovePeer,
           IceRestart, SendIce, Browse, SendLocalOffer, OnAnswer, ApplyAnswer,
           OnOffer, Rollback, ApplyOffer, AnswerOffer, vars, goVars
  <2>10. CASE UNCHANGED <<remoteSet, pendingICE, stage>>
    BY <2>10
  <2>11. QED
    BY <2>1, <2>2, <2>3, <2>4, <2>5, <2>6, <2>7, <2>8, <2>9, <2>10
    DEF Next, Serve, Environment
<1>3. QED
  BY <1>1, <1>2, TypeParts, TypeCorrect, PTL DEF Spec
-----------------------------------------------------------------------------
(* What is in the queues *)

\* At most one message of a type.
Once(q, type) ==
  \A i, j \in DOMAIN q : q[i].type = type /\ q[j].type = type => i = j

\* An offer of the browser after which its queue has no answer: unless the
\* browser is about to send one, it is the offer that is out now.
Unanswered(q) ==
  \E i \in DOMAIN q : q[i].type = "offer" /\ ~Followed(q, i, "answer")

\* One of two such offers.
Overtaken(q) ==
  \E i, j \in DOMAIN q : /\ i < j /\ q[i].type = "offer" /\ q[j].type = "offer"
                         /\ ~Followed(q, i, "answer")

\* An answer after which there is no offer.
AnswerLast(q) ==
  \E i \in DOMAIN q : q[i].type = "answer" /\ ~Followed(q, i, "offer")

\* Every answer comes before every offer.
AnswersFirst(q) ==
  \A i, j \in DOMAIN q : q[i].type = "offer" /\ q[j].type = "answer" => j < i

LEMMA OfferSent ==
  ASSUME NEW q \in Seq(Message), NEW m \in Message, m.type = "offer"
  PROVE  /\ Has(Append(q, m), "offer")
         /\ Has(Append(q, m), "answer") <=> Has(q, "answer")
         /\ Once(q, "answer") => Once(Append(q, m), "answer")
         /\ ~Has(q, "offer") => Once(Append(q, m), "offer")
         /\ Overtaken(Append(q, m)) => Unanswered(q)
         /\ ~AnswerLast(Append(q, m))
         /\ AnswersFirst(q) => AnswersFirst(Append(q, m))
<1> DEFINE r == Append(q, m)
           n == Len(q) + 1
<1>1. /\ DOMAIN q = 1 .. Len(q) /\ DOMAIN r = 1 .. n /\ Len(q) \in Nat
      /\ \A i \in 1 .. Len(q) : r[i] = q[i]
      /\ r[n].type = "offer"
  BY Sent
<1> HIDE DEF r
<1>2. Has(r, "offer") /\ (Has(r, "answer") <=> Has(q, "answer"))
  BY <1>1 DEF Has
<1>3. /\ Once(q, "answer") => Once(r, "answer")
      /\ ~Has(q, "offer") => Once(r, "offer")
  BY <1>1 DEF Once, Has
<1>4. \A i \in 1 .. Len(q) : Followed(r, i, "answer") <=> Followed(q, i, "answer")
  BY <1>1 DEF Followed
<1>5. Overtaken(r) => Unanswered(q)
  BY <1>1, <1>4 DEF Overtaken, Unanswered
<1>6. ~AnswerLast(r)
  BY <1>1 DEF AnswerLast, Followed
<1>7. AnswersFirst(q) => AnswersFirst(r)
  BY <1>1 DEF AnswersFirst
<1> QED
  BY <1>2, <1>3, <1>5, <1>6, <1>7 DEF r

LEMMA AnswerSent ==
  ASSUME NEW q \in Seq(Message), NEW m \in Message, m.type = "answer"
  PROVE  /\ Has(Append(q, m), "answer")
         /\ Has(Append(q, m), "offer") <=> Has(q, "offer")
         /\ Once(q, "offer") => Once(Append(q, m), "offer")
         /\ ~Has(q, "answer") => Once(Append(q, m), "answer")
         /\ ~Unanswered(Append(q, m)) /\ ~Overtaken(Append(q, m))
         /\ ~Has(q, "offer") => AnswersFirst(Append(q, m))
<1> DEFINE r == Append(q, m)
           n == Len(q) + 1
<1>1. /\ DOMAIN q = 1 .. Len(q) /\ DOMAIN r = 1 .. n /\ Len(q) \in Nat
      /\ \A i \in 1 .. Len(q) : r[i] = q[i]
      /\ r[n].type = "answer"
  BY Sent
<1> HIDE DEF r
<1>2. Has(r, "answer") /\ (Has(r, "offer") <=> Has(q, "offer"))
  BY <1>1 DEF Has
<1>3. /\ Once(q, "offer") => Once(r, "offer")
      /\ ~Has(q, "answer") => Once(r, "answer")
  BY <1>1 DEF Once, Has
<1>4. \A i \in 1 .. Len(q) : Followed(r, i, "answer")
  BY <1>1 DEF Followed
<1>5. ~Unanswered(r) /\ ~Overtaken(r)
  BY <1>1, <1>4 DEF Unanswered, Overtaken
<1>6. ~Has(q, "offer") => AnswersFirst(r)
  BY <1>1 DEF AnswersFirst, Has
<1> QED
  BY <1>2, <1>3, <1>5, <1>6 DEF r

LEMMA IceSent ==
  ASSUME NEW q \in Seq(Message), NEW m \in Message, m.type = "ice"
  PROVE  /\ \A t \in {"offer", "answer"} :
              /\ Has(Append(q, m), t) <=> Has(q, t)
              /\ Once(q, t) => Once(Append(q, m), t)
         /\ Unanswered(Append(q, m)) <=> Unanswered(q)
         /\ Overtaken(Append(q, m)) <=> Overtaken(q)
         /\ AnswerLast(Append(q, m)) <=> AnswerLast(q)
<1> DEFINE r == Append(q, m)
           n == Len(q) + 1
<1>1. /\ DOMAIN q = 1 .. Len(q) /\ DOMAIN r = 1 .. n /\ Len(q) \in Nat
      /\ \A i \in 1 .. Len(q) : r[i] = q[i]
      /\ r[n].type = "ice"
  BY Sent
<1> HIDE DEF r
<1>2. \A t \in {"offer", "answer"} : /\ Has(r, t) <=> Has(q, t)
                                     /\ Once(q, t) => Once(r, t)
  BY <1>1 DEF Has, Once
<1>3. \A i \in 1 .. Len(q), t \in {"offer", "answer"} :
        Followed(r, i, t) <=> Followed(q, i, t)
  BY <1>1 DEF Followed
<1>4. Unanswered(r) <=> Unanswered(q)
  BY <1>1, <1>3 DEF Unanswered
<1>5. Overtaken(r) <=> Overtaken(q)
  BY <1>1, <1>3 DEF Overtaken
<1>6. AnswerLast(r) <=> AnswerLast(q)
  BY <1>1, <1>3 DEF AnswerLast
<1> QED
  BY <1>2, <1>4, <1>5, <1>6 DEF r

\* The places of a queue and of what is left when its head is taken.
LEMMA Shifted ==
  ASSUME NEW q \in Seq(Message), q # <<>>
  PROVE  /\ 1 \in DOMAIN q /\ Head(q) = q[1]
         /\ \A k \in DOMAIN Tail(q) :
              k \in Nat \ {0} /\ k + 1 \in DOMAIN q /\ q[k + 1] = Tail(q)[k]
         /\ \A i \in DOMAIN q :
              /\ i \in Nat \ {0}
              /\ i = 1 \/ (i - 1 \in DOMAIN Tail(q) /\ Tail(q)[i - 1] = q[i])
<1> DEFINE r == Tail(q)
<1>1. /\ Len(q) \in Nat \ {0} /\ DOMAIN q = 1 .. Len(q)
      /\ DOMAIN r = 1 .. Len(q) - 1 /\ Head(q) = q[1]
      /\ \A i \in 1 .. Len(q) - 1 : r[i] = q[i + 1]
  BY Received
<1> HIDE DEF r
<1>2. \A k \in DOMAIN r : k \in Nat \ {0} /\ k + 1 \in DOMAIN q /\ q[k + 1] = r[k]
  BY <1>1
<1>3. ASSUME NEW i \in DOMAIN q, i # 1
      PROVE  i - 1 \in DOMAIN r /\ r[i - 1] = q[i]
  <2>1. i - 1 \in DOMAIN r
    BY <1>1, <1>3
  <2>2. r[i - 1] = q[(i - 1) + 1] /\ (i - 1) + 1 = i
    BY <1>1, <1>3, <2>1
  <2> QED
    BY <2>1, <2>2
<1> QED
  BY <1>1, <1>2, <1>3 DEF r

LEMMA FollowedTail ==
  ASSUME NEW q \in Seq(Message), q # <<>>, NEW k \in DOMAIN Tail(q), NEW t
  PROVE  Followed(Tail(q), k, t) <=> Followed(q, k + 1, t)
<1> DEFINE r == Tail(q)
<1>1. \A l \in DOMAIN r :
        l \in Nat \ {0} /\ l + 1 \in DOMAIN q /\ q[l + 1] = r[l]
  BY Shifted
<1>2. \A i \in DOMAIN q :
        /\ i \in Nat \ {0}
        /\ i = 1 \/ (i - 1 \in DOMAIN r /\ r[i - 1] = q[i])
  BY Shifted
<1> HIDE DEF r
<1>3. ASSUME Followed(r, k, t) PROVE Followed(q, k + 1, t)
  <2>1. PICK l \in DOMAIN r : l > k /\ r[l].type = t
    BY <1>3 DEF Followed
  <2>2. l + 1 \in DOMAIN q /\ l + 1 > k + 1 /\ q[l + 1].type = t
    BY <1>1, <2>1 DEF r
  <2> QED
    BY <2>2 DEF Followed
<1>4. ASSUME Followed(q, k + 1, t) PROVE Followed(r, k, t)
  <2>1. PICK j \in DOMAIN q : j > k + 1 /\ q[j].type = t
    BY <1>4 DEF Followed
  <2>2. j - 1 \in DOMAIN r /\ j - 1 > k /\ r[j - 1].type = t
    BY <1>1, <1>2, <2>1 DEF r
  <2> QED
    BY <2>2 DEF Followed
<1> QED
  BY <1>3, <1>4 DEF r

\* A message is taken from the head of a queue.
LEMMA HeadTaken ==
  ASSUME NEW q \in Seq(Message), q # <<>>
  PROVE  /\ \A t \in {"offer", "answer"} :
              /\ Has(Tail(q), t) => Has(q, t)
              /\ Has(q, t) => Has(Tail(q), t) \/ Head(q).type = t
              /\ Head(q).type = t => Has(q, t)
              /\ Once(q, t) => Once(Tail(q), t)
              /\ Once(q, t) /\ Head(q).type = t => ~Has(Tail(q), t)
         /\ Unanswered(Tail(q)) => Unanswered(q)
         /\ Overtaken(Tail(q)) => Overtaken(q)
         /\ AnswerLast(Tail(q)) => AnswerLast(q)
         /\ AnswersFirst(q) => AnswersFirst(Tail(q))
<1> DEFINE r == Tail(q)
<1>0. 1 \in DOMAIN q /\ Head(q) = q[1]
  BY Shifted
<1>1. \A k \in DOMAIN r :
        k \in Nat \ {0} /\ k + 1 \in DOMAIN q /\ q[k + 1] = r[k]
  BY Shifted
<1>2. \A i \in DOMAIN q :
        /\ i \in Nat \ {0}
        /\ i = 1 \/ (i - 1 \in DOMAIN r /\ r[i - 1] = q[i])
  BY Shifted
<1> HIDE DEF r
<1>3. \A t \in {"offer", "answer"} :
        /\ Has(r, t) => Has(q, t)
        /\ Has(q, t) => Has(r, t) \/ Head(q).type = t
        /\ Head(q).type = t => Has(q, t)
  BY <1>0, <1>1, <1>2, Zenon DEF Has
<1>4. ASSUME NEW t, Once(q, t)
      PROVE  Once(r, t) /\ (Head(q).type = t => ~Has(r, t))
  <2>1. ASSUME NEW k \in DOMAIN r, NEW l \in DOMAIN r, r[k].type = t, r[l].type = t
        PROVE  k = l
    <3>1. k + 1 \in DOMAIN q /\ l + 1 \in DOMAIN q /\ q[k + 1].type = t /\ q[l + 1].type = t
      BY <1>1, <2>1
    <3>2. k + 1 = l + 1
      BY <1>4, <3>1 DEF Once
    <3> QED
      BY <1>1, <3>2
  <2>2. ASSUME NEW k \in DOMAIN r, r[k].type = t, q[1].type = t
        PROVE  FALSE
    <3>1. k + 1 \in DOMAIN q /\ q[k + 1].type = t
      BY <1>1, <2>2
    <3>2. k + 1 = 1
      BY <1>0, <1>4, <2>2, <3>1 DEF Once
    <3> QED
      BY <1>1, <3>2
  <2> QED
    BY <1>0, <2>1, <2>2 DEF Once, Has
<1>5. ASSUME NEW k \in DOMAIN r, NEW t
      PROVE  Followed(r, k, t) <=> Followed(q, k + 1, t)
  BY FollowedTail DEF r
<1>6. Unanswered(r) => Unanswered(q)
  BY <1>1, <1>5 DEF Unanswered
<1>7. Overtaken(r) => Overtaken(q)
  <2> SUFFICES ASSUME Overtaken(r) PROVE Overtaken(q)
    OBVIOUS
  <2>1. PICK k, l \in DOMAIN r : /\ k < l /\ r[k].type = "offer" /\ r[l].type = "offer"
                                /\ ~Followed(r, k, "answer")
    BY DEF Overtaken
  <2>2. /\ k + 1 \in DOMAIN q /\ l + 1 \in DOMAIN q /\ k + 1 < l + 1
        /\ q[k + 1].type = "offer" /\ q[l + 1].type = "offer"
    BY <1>1, <2>1
  <2>3. ~Followed(q, k + 1, "answer")
    BY <1>5, <2>1
  <2> QED
    BY <2>2, <2>3 DEF Overtaken
<1>8. AnswerLast(r) => AnswerLast(q)
  BY <1>1, <1>5 DEF AnswerLast
<1>9. AnswersFirst(q) => AnswersFirst(r)
  <2> SUFFICES ASSUME AnswersFirst(q), NEW k \in DOMAIN r, NEW l \in DOMAIN r,
                      r[k].type = "offer", r[l].type = "answer"
               PROVE  l < k
    BY DEF AnswersFirst
  <2>1. l + 1 < k + 1
    BY <1>1 DEF AnswersFirst
  <2> QED
    BY <1>1, <2>1
<1> QED
  BY <1>3, <1>4, <1>6, <1>7, <1>8, <1>9 DEF r

\* What the head of a queue says of the rest.
LEMMA HeadSays ==
  ASSUME NEW q \in Seq(Message), q # <<>>
  PROVE  /\ Head(q).type = "offer" /\ AnswersFirst(q) => ~Has(q, "answer")
         /\ Head(q).type = "answer" /\ ~AnswerLast(q) => Has(Tail(q), "offer")
         /\ Head(q).type = "offer" /\ ~Has(q, "answer") => Unanswered(q)
         /\ Head(q).type = "offer" /\ ~Has(q, "answer") /\ ~Overtaken(q) =>
              ~Has(Tail(q), "offer")
<1> DEFINE r == Tail(q)
           n == Len(q) - 1
<1>1. /\ n \in Nat /\ DOMAIN q = 1 .. n + 1 /\ DOMAIN r = 1 .. n
      /\ Head(q) = q[1]
      /\ \A i \in 1 .. n : r[i] = q[i + 1]
  BY Received
<1> HIDE DEF r, n
<1>2. Head(q).type = "offer" /\ AnswersFirst(q) => ~Has(q, "answer")
  BY <1>1 DEF AnswersFirst, Has
<1>3. Head(q).type = "answer" /\ ~AnswerLast(q) => Has(r, "offer")
  <2> SUFFICES ASSUME q[1].type = "answer", ~AnswerLast(q)
               PROVE  Has(r, "offer")
    BY <1>1
  <2>1. Followed(q, 1, "offer")
    BY <1>1 DEF AnswerLast
  <2>2. PICK j \in 1 .. n + 1 : j > 1 /\ q[j].type = "offer"
    BY <1>1, <2>1 DEF Followed
  <2>3. j - 1 \in 1 .. n /\ r[j - 1] = q[j]
    BY <1>1, <2>2
  <2> QED
    BY <1>1, <2>2, <2>3 DEF Has
<1>4. ~Has(q, "answer") => \A i \in DOMAIN q : ~Followed(q, i, "answer")
  BY DEF Has, Followed
<1>5. Head(q).type = "offer" /\ ~Has(q, "answer") => Unanswered(q)
  BY <1>1, <1>4 DEF Unanswered
<1>6. Head(q).type = "offer" /\ ~Has(q, "answer") /\ Has(r, "offer") => Overtaken(q)
  <2> SUFFICES ASSUME q[1].type = "offer", ~Has(q, "answer"), Has(r, "offer")
               PROVE  Overtaken(q)
    BY <1>1
  <2>1. PICK j \in 1 .. n : r[j].type = "offer"
    BY <1>1 DEF Has
  <2>2. j + 1 \in DOMAIN q /\ 1 \in DOMAIN q /\ 1 < j + 1 /\ q[j + 1].type = "offer"
    BY <1>1, <2>1
  <2> QED
    BY <1>4, <2>2 DEF Overtaken
<1> QED
  BY <1>2, <1>3, <1>5, <1>6 DEF r

-----------------------------------------------------------------------------
(* One exchange at a time *)

\* The participant is in the room and no write to its socket has failed.
Alive == ~closed /\ ~broken

\* The tracks of others come in order: to a participant of the lobby only once
\* its first exchange is over.  (Before, AttachRoom would begin the approver's
\* exchange whatever the flag says.)
InOrder == Lobby => When = "settled"

\* The flag is up exactly while an exchange is in hand, and the signaling state
\* of the connection says how far it is.
Turns ==
  /\ Own <= 1
  /\ \A w \in Answerer : Busy(w) => Own = 0
  /\ \A v, w \in Answerer : Busy(v) /\ Busy(w) => v = w
  /\ negotiating <=> Own = 1 \/ \E w \in Answerer : Busy(w)
  /\ signaling = "haveRemote" <=> \E w \in Answerer : stage[w] \in {"flush", "answer"}
  /\ sending > 0 => signaling = "haveLocal"

\* The browser is at an offer of the SFU.
AtOffer == bOffer # "idle"

\* An offer of the SFU is in one place only: on its way to the browser, in its
\* hands, or on the way back as an answer; and the SFU waits for that answer.
Tokens ==
  /\ Has(up, "answer") \/ AtOffer \/ Has(down, "offer") =>
       signaling = "haveLocal" /\ sending = 0
  /\ ~(Has(up, "answer") /\ AtOffer)
  /\ ~(Has(up, "answer") /\ Has(down, "offer"))
  /\ ~(AtOffer /\ Has(down, "offer"))
  /\ Once(up, "answer") /\ Once(down, "offer")

\* An approver still has an exchange to begin, or may have.
Takes(q) == stage[q] = "attach" /\ lines[q] # NoOffer
Attaching == \E q \in Approver : Takes(q)
Undecided == waiting \/ Attaching

\* An offer of the browser is kept for the approval.
Kept == pendingOffer # NoOffer \/ Attaching

\* The lobby: before the first exchange the SFU starts none of its own, the
\* browser makes one offer only, nothing is answered before the approval, and of
\* the moderators that approve one at most takes the offer.
Waits ==
  /\ ~Lobby => ~waiting /\ \A q \in Approver : stage[q] = "idle"
  /\ ~waiting => pendingOffer = NoOffer
  /\ waiting => \A q \in Approver : stage[q] \in {"idle", "found"}
  /\ \A q, r \in Approver : Takes(q) /\ Takes(r) => q = r
  /\ stage["reader"] \notin {"found", "attach"}
  /\ Lobby /\ ~settled =>
       /\ calls = 0 /\ creating = 0 /\ sending = 0 /\ ~negotiationPending
       /\ signaling # "haveLocal"
       /\ \A w \in Answerer : stage[w] # "renegotiate"
       /\ bOffering # "restart"
       /\ Once(up, "offer")
       /\ bOffering = "initial" => ~Has(up, "offer")
  /\ Lobby /\ Undecided =>
       /\ ~settled /\ ~negotiating
       /\ ~Has(down, "answer") /\ bAnswer = NoAnswer
  /\ Lobby /\ Kept => bOffering = "none" /\ ~Has(up, "offer")

LEMMA InitOrdered == Init => Turns /\ Tokens /\ Waits
BY ConstantsAssumption
DEF Init, Turns, Tokens, Waits, Own, Busy, Answerer, Has, Once, AtOffer, Kept,
    Undecided, Attaching, Takes

LEMMA TurnsStep ==
  ASSUME InOrder, Flags, Counts, Places, Alive, Alive', Turns, Tokens, Waits, [Next]_vars
  PROVE  Turns'
<1> USE DEF Alive, Turns, Own, Busy, Goto, Flags, Counts, Places, Signaling
<1>0. "reader" \in Answerer /\ Approver \subseteq Answerer
  BY DEF Answerer
<1>1. CASE TakeOffer
  BY <1>0, <1>1 DEF TakeOffer, DropsOffer, ReadHead, sfuVars
<1>2. CASE ReadAnswer
  <2>1. Has(up, "answer")
    BY <1>2, HeadTaken DEF ReadAnswer, ReadHead
  <2>2. signaling = "haveLocal" /\ sending = 0
    BY <2>1 DEF Tokens
  <2> QED
    BY <1>0, <1>2, <2>2 DEF ReadAnswer, ReadHead, peerVars
<1>3. ASSUME NEW w \in Answerer, SetRemoteOffer(w)
      PROVE  Turns'
  BY <1>3 DEF SetRemoteOffer, peerVars
<1>4. ASSUME NEW w \in Answerer, FlushPendingICE(w)
      PROVE  Turns'
  BY <1>4 DEF FlushPendingICE, sfuVars
<1>5. ASSUME NEW w \in Answerer, Answer(w)
      PROVE  Turns'
  BY <1>5 DEF Answer, WriteFails, peerVars
<1>6. ASSUME NEW w \in Answerer, Finish(w)
      PROVE  Turns'
  BY <1>6 DEF Finish, Finished, sfuVars
<1>7. ASSUME NEW w \in Answerer, RenegotiateAfter(w)
      PROVE  Turns'
  BY <1>7 DEF RenegotiateAfter, Renegotiate, sfuVars
<1>8. ASSUME NEW q \in Approver, AttachRoom(q)
      PROVE  Turns'
  <2>1. CASE lines[q] = NoOffer
    BY <1>0, <1>8, <2>1 DEF AttachRoom
  <2>2. CASE lines[q] # NoOffer
    <3>1. ~negotiating
      BY <1>8, <2>2 DEF AttachRoom, Waits, Undecided, Attaching, Takes
    <3> QED
      BY <1>0, <1>8, <2>2, <3>1 DEF AttachRoom
  <2> QED
    BY <2>1, <2>2
<1>9. CASE CreateOffer
  BY <1>9 DEF CreateOffer, Finished
<1>10. CASE SendOffer
  BY <1>10 DEF SendOffer, WriteFails, peerVars, sfuVars
<1>11. CASE RenegotiateCall
  BY <1>11 DEF RenegotiateCall, Renegotiate, sfuVars
<1>12. ASSUME NEW q \in Approver, FindWaiting(q) \/ LetIn(q)
       PROVE  Turns'
  BY <1>0, <1>12 DEF FindWaiting, LetIn, peerVars, sfuVars
<1>13. CASE UNCHANGED <<negotiating, signaling, creating, sending, stage>>
  BY <1>13
<1>14. ReadIce \/ Browse \/ Publish \/ IceRestart \/ SendIce \/ UNCHANGED vars
       => UNCHANGED <<negotiating, signaling, creating, sending, stage>>
  BY DEF ReadIce, Browse, SendLocalOffer, OnAnswer, ApplyAnswer, OnOffer, Rollback,
         ApplyOffer, AnswerOffer, Publish, IceRestart, SendIce, vars, peerVars,
         sfuVars, goVars
<1>15. ~RemovePeer
  BY DEF RemovePeer, Alive
<1> QED
  BY <1>1, <1>2, <1>3, <1>4, <1>5, <1>6, <1>7, <1>8, <1>9, <1>10, <1>11, <1>12,
     <1>13, <1>14, <1>15 DEF Next, Serve, Environment

\* The first offer or a restart, when the browser's connection takes it: one
\* offer more on the way up.
LEMMA LocalOffer ==
  ASSUME Counts, Places, SendLocalOffer
  PROVE  \/ /\ bSignaling # "stable" /\ UNCHANGED <<bSignaling, up>>
         \/ /\ bSignaling = "stable" /\ bSignaling' = "haveLocal"
            /\ \E m \in Message : /\ m.type = "offer" /\ up' = Append(up, m)
                                  /\ m.tracks >= seen /\ m.tracks >= Lines
<1> DEFINE n == IF seen > Lines THEN seen ELSE Lines
           m == [type |-> "offer", tracks |-> n]
<1>1. n \in Nat /\ n >= seen /\ n >= Lines
  BY ConstantsAssumption DEF Counts
<1> HIDE DEF n
<1>2. m \in Message /\ m.type = "offer" /\ m.tracks = n
  BY <1>1, MessageHas
<1>3. \/ bSignaling # "stable" /\ UNCHANGED <<bSignaling, up>>
      \/ bSignaling = "stable" /\ bSignaling' = "haveLocal" /\ up' = Append(up, m)
  BY SendLocalOffer DEF SendLocalOffer, n
<1> HIDE DEF m
<1> QED
  BY <1>1, <1>2, <1>3

\* The answer to an offer of the browser.
LEMMA Answered ==
  ASSUME Counts, Places, Alive, Alive', NEW w \in Answerer, Answer(w)
  PROVE  \/ signaling # "haveRemote" /\ UNCHANGED <<signaling, down>>
         \/ /\ signaling = "haveRemote" /\ signaling' = "stable"
            /\ \E m \in Message : /\ m.type = "answer" /\ down' = Append(down, m)
                                  /\ m.tracks = AtMost(attached, lines[w])
<1> DEFINE n == AtMost(attached, lines[w])
           m == [type |-> "answer", tracks |-> n]
<1>1. n \in Nat
  BY DEF Answer, Places, Counts, AtMost
<1> HIDE DEF n
<1>2. m \in Message /\ m.type = "answer" /\ m.tracks = n
  BY <1>1, MessageHas
<1>3. \/ signaling # "haveRemote" /\ UNCHANGED <<signaling, down>>
      \/ signaling = "haveRemote" /\ signaling' = "stable" /\ down' = Append(down, m)
  BY DEF Answer, Written, WriteFails, NotWritten, Alive, n
<1> HIDE DEF m
<1> QED
  BY <1>2, <1>3 DEF n

\* The other messages.
LEMMA OthersSent ==
  /\ Counts /\ SendOffer /\ Alive /\ Alive' =>
       \E m \in Message : /\ m.type = "offer" /\ down' = Append(down, m)
                          /\ m.tracks = offered
  /\ AnswerOffer => \E m \in Message : m.type = "answer" /\ up' = Append(up, m)
  /\ SendIce => \E m \in Message : m.type = "ice" /\ up' = Append(up, m)
<1>1. ASSUME Counts, SendOffer, Alive, Alive'
      PROVE  \E m \in Message : /\ m.type = "offer" /\ down' = Append(down, m)
                                /\ m.tracks = offered
  <2> DEFINE m == [type |-> "offer", tracks |-> offered]
  <2>1. m \in Message /\ m.type = "offer" /\ m.tracks = offered
    BY <1>1, MessageHas DEF Counts
  <2>2. down' = Append(down, m)
    BY <1>1 DEF SendOffer, Written, WriteFails, NotWritten, Alive
  <2> HIDE DEF m
  <2> QED
    BY <2>1, <2>2
<1>2. ASSUME AnswerOffer
      PROVE  \E m \in Message : m.type = "answer" /\ up' = Append(up, m)
  <2> DEFINE m == [type |-> "answer", tracks |-> 0]
  <2>1. m \in Message /\ m.type = "answer" /\ up' = Append(up, m)
    BY <1>2, MessageHas DEF AnswerOffer
  <2> HIDE DEF m
  <2> QED
    BY <2>1
<1>3. ASSUME SendIce
      PROVE  \E m \in Message : m.type = "ice" /\ up' = Append(up, m)
  <2> DEFINE m == [type |-> "ice", tracks |-> 0]
  <2>1. m \in Message /\ m.type = "ice" /\ up' = Append(up, m)
    BY <1>3, MessageHas DEF SendIce
  <2> HIDE DEF m
  <2> QED
    BY <2>1
<1> QED
  BY <1>1, <1>2, <1>3

LEMMA TokensStep ==
  ASSUME InOrder, Flags, Counts, Places, Alive, Alive', Turns, Tokens, Waits, [Next]_vars
  PROVE  Tokens'
<1>0. up \in Seq(Message) /\ down \in Seq(Message)
  BY DEF Places
<1> USE DEF Tokens, AtOffer
<1>1. CASE TakeOffer \/ ReadIce
  <2>1. /\ up # <<>> /\ up' = Tail(up)
        /\ UNCHANGED <<down, bOffer, signaling, sending>>
    BY <1>1 DEF TakeOffer, ReadIce, ReadHead, sfuVars, goVars, browserVars
  <2> QED
    BY <1>0, <2>1, HeadTaken
<1>2. CASE ReadAnswer
  <2>1. /\ up # <<>> /\ up' = Tail(up) /\ Head(up).type = "answer"
        /\ UNCHANGED <<down, bOffer>>
    BY <1>2 DEF ReadAnswer, ReadHead, browserVars
  <2> QED
    BY <1>0, <2>1, HeadTaken
<1>3. ASSUME NEW w \in Answerer, SetRemoteOffer(w)
      PROVE  Tokens'
  BY <1>3 DEF SetRemoteOffer, Turns, Own, Busy, Answerer, Places, Counts,
              netVars, browserVars
<1>4. ASSUME NEW w \in Answerer, Answer(w)
      PROVE  Tokens'
  <2>1. stage[w] = "answer" /\ signaling = "haveRemote"
    BY <1>4 DEF Answer, Turns
  <2>2. ~Has(up, "answer") /\ ~AtOffer /\ ~Has(down, "offer")
    BY <2>1
  <2>3. PICK m \in Message : m.type = "answer" /\ down' = Append(down, m)
    BY <1>4, <2>1, Answered
  <2>4. UNCHANGED <<up, bOffer, sending>>
    BY <1>4 DEF Answer, browserVars
  <2> QED
    BY <1>0, <2>2, <2>3, <2>4, AnswerSent
<1>5. CASE CreateOffer
  <2>1. UNCHANGED <<up, down, bOffer>>
    BY <1>5 DEF CreateOffer, netVars, browserVars
  <2>2. signaling # "haveLocal"
    BY <1>5 DEF CreateOffer, Turns, Own, Counts
  <2> QED
    BY <2>1, <2>2
<1>6. CASE SendOffer
  <2>1. PICK m \in Message : m.type = "offer" /\ down' = Append(down, m)
    BY <1>6, OthersSent
  <2>2. /\ signaling = "haveLocal" /\ sending # 0 /\ sending' = 0
        /\ UNCHANGED <<up, bOffer, signaling>>
    BY <1>6 DEF SendOffer, Turns, Own, Counts, sfuVars, browserVars
  <2>3. ~Has(up, "answer") /\ ~AtOffer /\ ~Has(down, "offer")
    BY <2>2
  <2> QED
    BY <1>0, <2>1, <2>2, <2>3, OfferSent
<1>7. CASE SendLocalOffer
  <2>1. UNCHANGED <<down, bOffer, signaling, sending>>
    BY <1>7 DEF SendLocalOffer, sfuVars, goVars
  <2>2. CASE UNCHANGED up
    BY <2>1, <2>2
  <2>3. CASE \E m \in Message : m.type = "offer" /\ up' = Append(up, m)
    BY <1>0, <2>1, <2>3, OfferSent
  <2> QED
    BY <1>7, <2>2, <2>3, LocalOffer
<1>8. CASE AnswerOffer
  <2>1. PICK m \in Message : m.type = "answer" /\ up' = Append(up, m)
    BY <1>8, OthersSent
  <2>2. /\ bOffer = "answer" /\ bOffer' = "idle"
        /\ UNCHANGED <<down, signaling, sending>>
    BY <1>8 DEF AnswerOffer, sfuVars, goVars
  <2> QED
    BY <1>0, <2>1, <2>2, AnswerSent
<1>9. CASE SendIce
  <2>1. PICK m \in Message : m.type = "ice" /\ up' = Append(up, m)
    BY <1>9, OthersSent
  <2>2. UNCHANGED <<down, bOffer, signaling, sending>>
    BY <1>9 DEF SendIce, sfuVars, goVars
  <2> QED
    BY <1>0, <2>1, <2>2, IceSent
<1>10. CASE OnAnswer
  <2>1. /\ down # <<>> /\ down' = Tail(down)
        /\ UNCHANGED <<up, bOffer, signaling, sending>>
    BY <1>10 DEF OnAnswer, OnMessage, sfuVars, goVars
  <2> QED
    BY <1>0, <2>1, HeadTaken
<1>11. CASE OnOffer
  <2>1. /\ down # <<>> /\ down' = Tail(down) /\ Head(down).type = "offer"
        /\ UNCHANGED <<up, signaling, sending>>
    BY <1>11 DEF OnOffer, OnMessage, sfuVars, goVars
  <2>2. Has(down, "offer") /\ ~Has(down', "offer")
    BY <1>0, <2>1, HeadTaken
  <2> QED
    BY <1>0, <2>1, <2>2, HeadTaken
<1>12. CASE Rollback \/ ApplyOffer
  BY <1>12 DEF Rollback, ApplyOffer, sfuVars, goVars, netVars
<1>13. CASE UNCHANGED <<up, down, bOffer, signaling, sending>>
  BY <1>13
<1>14. (\E w \in Answerer : FlushPendingICE(w) \/ Finish(w) \/ RenegotiateAfter(w))
         \/ (\E q \in Approver : FindWaiting(q) \/ LetIn(q) \/ AttachRoom(q))
         \/ RenegotiateCall \/ ApplyAnswer \/ Publish
         \/ IceRestart \/ UNCHANGED vars
       => UNCHANGED <<up, down, bOffer, signaling, sending>>
  BY DEF FlushPendingICE, Finish, RenegotiateAfter, FindWaiting, LetIn, AttachRoom,
         RenegotiateCall, ApplyAnswer, Publish, IceRestart, vars, sfuVars, goVars,
         netVars, browserVars
<1>15. ~RemovePeer
  BY DEF RemovePeer, Alive
<1> QED
  BY <1>1, <1>2, <1>3, <1>4, <1>5, <1>6, <1>7, <1>8, <1>9, <1>10, <1>11, <1>12,
     <1>13, <1>14, <1>15 DEF Next, Serve, Browse, Environment

LEMMA WaitsStep ==
  ASSUME InOrder, Flags, Counts, Places, Alive, Alive', Turns, Tokens, Waits, [Next]_vars
  PROVE  Waits'
<1>0. up \in Seq(Message) /\ down \in Seq(Message)
  BY DEF Places
<1>a. Lobby /\ Undecided => \A w \in Answerer : stage[w] # "answer"
  BY DEF Waits, Turns, Busy
<1>b. /\ "reader" \in Answerer /\ "reader" \notin Approver
      /\ \A q \in Approver : q \in Answerer
  BY ConstantsAssumption DEF Answerer
<1> USE DEF Waits, Undecided, Attaching, Takes, Kept, Places, Goto
<1>1. CASE TakeOffer
  <2>1. /\ up # <<>> /\ up' = Tail(up) /\ Head(up).type = "offer"
    BY <1>1 DEF TakeOffer, ReadHead
  <2>2. /\ Has(up, "offer")
        /\ Once(up, "offer") => ~Has(up', "offer") /\ Once(up', "offer")
    BY <1>0, <2>1, HeadTaken
  <2>3. CASE waiting
    BY <1>1, <1>b, <2>2, <2>3 DEF TakeOffer, sfuVars, browserVars
  <2>4. CASE ~waiting
    BY <1>1, <1>b, <2>2, <2>4 DEF TakeOffer, sfuVars, browserVars
  <2> QED
    BY <2>3, <2>4
<1>2. CASE ReadAnswer
  <2>1. /\ up # <<>> /\ up' = Tail(up) /\ Head(up).type = "answer"
    BY <1>2 DEF ReadAnswer, ReadHead
  <2>2. /\ Has(up', "offer") => Has(up, "offer")
        /\ Once(up, "offer") => Once(up', "offer")
        /\ Has(up, "answer")
    BY <1>0, <2>1, HeadTaken
  <2>3. signaling = "haveLocal"
    BY <2>2 DEF Tokens
  <2> QED
    BY <1>2, <1>b, <2>2, <2>3 DEF ReadAnswer, peerVars, sfuVars, browserVars
<1>3. CASE ReadIce
  <2>1. up # <<>> /\ up' = Tail(up)
    BY <1>3 DEF ReadIce, ReadHead
  <2>2. /\ Has(up', "offer") => Has(up, "offer")
        /\ Once(up, "offer") => Once(up', "offer")
    BY <1>0, <2>1, HeadTaken
  <2> QED
    BY <1>3, <2>2 DEF ReadIce, sfuVars, goVars, browserVars
<1>4. ASSUME NEW w \in Answerer, SetRemoteOffer(w) \/ FlushPendingICE(w)
      PROVE  Waits'
  <2>1. CASE SetRemoteOffer(w)
    BY <1>b, <2>1 DEF SetRemoteOffer, peerVars, netVars, browserVars
  <2>2. CASE FlushPendingICE(w)
    BY <1>b, <2>2 DEF FlushPendingICE, sfuVars, netVars, browserVars
  <2> QED
    BY <1>4, <2>1, <2>2
<1>5. ASSUME NEW w \in Answerer, Answer(w)
      PROVE  Waits'
  <2>1. ~(Lobby /\ Undecided) /\ ~(Lobby /\ Undecided)'
    BY <1>a, <1>b, <1>5 DEF Answer, peerVars
  <2>2. ~Lobby \/ ~Kept
    BY <2>1
  <2> QED
    BY <1>5, <1>b, <2>1, <2>2 DEF Answer, peerVars, browserVars
<1>6. ASSUME NEW w \in Answerer, Finish(w)
      PROVE  Waits'
  BY <1>6, <1>b DEF Finish, Finished, Again, sfuVars, netVars, browserVars
<1>7. ASSUME NEW w \in Answerer, RenegotiateAfter(w)
      PROVE  Waits'
  BY <1>7, <1>b DEF RenegotiateAfter, Renegotiate, sfuVars, netVars, browserVars
<1>8. ASSUME NEW q \in Approver, AttachRoom(q)
      PROVE  Waits'
  BY <1>8, <1>b DEF AttachRoom, netVars, browserVars
<1>9. CASE CreateOffer
  BY <1>9 DEF CreateOffer, Finished, netVars, browserVars
<1>10. CASE SendOffer
  <2>1. PICK m \in Message : m.type = "offer" /\ down' = Append(down, m)
    BY <1>10, OthersSent
  <2>2. Has(down', "answer") => Has(down, "answer")
    BY <1>0, <2>1, OfferSent
  <2> QED
    BY <1>10, <2>2 DEF SendOffer, WriteFails, Alive, peerVars, sfuVars, browserVars
<1>11. CASE RenegotiateCall
  BY <1>11 DEF RenegotiateCall, Renegotiate, sfuVars, netVars, browserVars
<1>12. ASSUME NEW q \in Approver, FindWaiting(q) \/ LetIn(q)
       PROVE  Waits'
  <2>1. CASE FindWaiting(q)
    BY <1>b, <2>1 DEF FindWaiting, peerVars, sfuVars, netVars, browserVars
  <2>2. CASE LetIn(q)
    BY <1>b, <2>2 DEF LetIn, sfuVars, netVars, browserVars
  <2> QED
    BY <1>12, <2>1, <2>2
<1>13. CASE Publish
  BY <1>13 DEF Publish, InOrder, peerVars, netVars, browserVars
<1>14. CASE SendLocalOffer
  <2>1. /\ bOffering # "none" /\ bOffering' = "none"
        /\ UNCHANGED <<peerVars, sfuVars, goVars, down, settled, bAnswer>>
    BY <1>14 DEF SendLocalOffer
  <2>2. CASE UNCHANGED up
    BY <2>1, <2>2 DEF peerVars, sfuVars, goVars
  <2>3. CASE \E m \in Message : m.type = "offer" /\ up' = Append(up, m)
    <3>1. ~Has(up, "offer") => Once(up', "offer")
      BY <1>0, <2>3, OfferSent
    <3> QED
      BY <2>1, <3>1 DEF peerVars, sfuVars, goVars
  <2> QED
    BY <1>14, <2>2, <2>3, LocalOffer
<1>15. CASE IceRestart
  BY <1>15 DEF IceRestart, peerVars, sfuVars, goVars, netVars
<1>16. CASE SendIce
  <2>1. PICK m \in Message : m.type = "ice" /\ up' = Append(up, m)
    BY <1>16, OthersSent
  <2>2. /\ Has(up', "offer") => Has(up, "offer")
        /\ Once(up, "offer") => Once(up', "offer")
    BY <1>0, <2>1, IceSent
  <2> QED
    BY <1>16, <2>2 DEF SendIce, peerVars, sfuVars, goVars
<1>17. CASE OnAnswer
  <2>1. down # <<>> /\ Head(down).type = "answer" /\ down' = Tail(down)
    BY <1>17 DEF OnAnswer, OnMessage
  <2>2. Has(down, "answer")
    BY <1>0, <2>1, HeadTaken
  <2> QED
    BY <1>17, <2>2 DEF OnAnswer, peerVars, sfuVars, goVars
<1>18. CASE ApplyAnswer
  BY <1>18 DEF ApplyAnswer, peerVars, sfuVars, goVars
<1>19. CASE OnOffer
  <2>1. down # <<>> /\ down' = Tail(down)
    BY <1>19 DEF OnOffer, OnMessage
  <2>2. Has(down', "answer") => Has(down, "answer")
    BY <1>0, <2>1, HeadTaken
  <2> QED
    BY <1>19, <2>2 DEF OnOffer, peerVars, sfuVars, goVars
<1>20. CASE Rollback \/ ApplyOffer
  BY <1>20 DEF Rollback, ApplyOffer, peerVars, sfuVars, goVars, netVars
<1>21. CASE AnswerOffer
  <2>1. PICK m \in Message : m.type = "answer" /\ up' = Append(up, m)
    BY <1>21, OthersSent
  <2>2. Has(up', "offer") => Has(up, "offer")
    BY <1>0, <2>1, AnswerSent
  <2>3. signaling = "haveLocal"
    BY <1>21 DEF AnswerOffer, Tokens, AtOffer
  <2> QED
    BY <1>21, <2>2, <2>3 DEF AnswerOffer, peerVars, sfuVars, goVars
<1>22. CASE UNCHANGED vars
  BY <1>22 DEF vars, peerVars, sfuVars, goVars, netVars, browserVars
<1>23. ~RemovePeer
  BY DEF RemovePeer, Alive
<1> QED
  BY <1>1, <1>2, <1>3, <1>4, <1>5, <1>6, <1>7, <1>8, <1>9, <1>10, <1>11, <1>12,
     <1>13, <1>14, <1>15, <1>16, <1>17, <1>18, <1>19, <1>20, <1>21, <1>22, <1>23
  DEF Next, Serve, Browse, Environment

LEMMA LostStays == Flags /\ [Next]_vars /\ Alive' => Alive
<1> SUFFICES ASSUME Flags, [Next]_vars, Alive'
             PROVE  Alive
  OBVIOUS
<1>1. UNCHANGED closed \/ RemovePeer
  BY DEF Next, Serve, Browse, Environment, TakeOffer, ReadAnswer, ReadIce, SetRemoteOffer,
         FlushPendingICE, Answer, Finish, RenegotiateAfter, FindWaiting, LetIn,
         AttachRoom, CreateOffer, SendOffer, RenegotiateCall, SendLocalOffer, OnAnswer,
         ApplyAnswer, OnOffer, Rollback, ApplyOffer, AnswerOffer, Publish, IceRestart,
         SendIce, vars, peerVars
<1>2. UNCHANGED broken \/ SendOffer \/ \E w \in Answerer : Answer(w)
  BY DEF Next, Serve, Browse, Environment, TakeOffer, ReadAnswer, ReadIce, SetRemoteOffer,
         FlushPendingICE, Finish, RenegotiateAfter, FindWaiting, LetIn, AttachRoom,
         CreateOffer, RenegotiateCall, SendLocalOffer, OnAnswer, ApplyAnswer, OnOffer,
         Rollback, ApplyOffer, AnswerOffer, Publish, RemovePeer, IceRestart, SendIce,
         vars, netVars
<1>3. SendOffer \/ (\E w \in Answerer : Answer(w)) => UNCHANGED broken \/ broken'
  BY DEF SendOffer, Answer, Written, WriteFails, NotWritten
<1>4. ~closed
  BY <1>1 DEF RemovePeer, Alive
<1>5. ~broken
  BY <1>2, <1>3 DEF Alive
<1> QED
  BY <1>4, <1>5 DEF Alive

Ordered == Alive => Turns /\ Tokens /\ Waits

LEMMA OrderedStep == InOrder /\ TypeOK /\ Ordered /\ [Next]_vars => Ordered'
BY TypeParts, TurnsStep, TokensStep, WaitsStep, LostStays DEF Ordered

LEMMA AlwaysOrdered == InOrder => (Spec => []Ordered)
<1> SUFFICES ASSUME InOrder
             PROVE  Spec => []Ordered
  OBVIOUS
<1>1. Init => Ordered
  BY InitOrdered DEF Ordered
<1>2. TypeOK /\ Ordered /\ [Next]_vars => Ordered'
  BY OrderedStep
<1> QED
  BY <1>1, <1>2, TypeCorrect, PTL DEF Spec

\* Exchanges of the SFU with one participant never overlap, and the flag
\* negotiating is up as long as one is in hand: for a participant without a
\* lobby whenever tracks come and go, for one of the lobby when they come after
\* its first exchange.
THEOREM ExchangesSerialized == InOrder => (Spec => []Serialized)
<1> SUFFICES ASSUME InOrder
             PROVE  Spec => []Serialized
  OBVIOUS
<1>1. Ordered => Serialized
  BY DEF Ordered, Alive, Turns, Serialized
<1> QED
  BY <1>1, AlwaysOrdered, PTL

-----------------------------------------------------------------------------
(* Requests to renegotiate *)

\* A call of renegotiate makes an offerer or leaves the mark.
LEMMA Asked ==
  ASSUME Flags, Counts, ~closed, Renegotiate
  PROVE  creating' > 0 \/ negotiationPending'
<1>1. CASE negotiating
  <2>1. negotiationPending'
    BY <1>1, Zenon DEF Renegotiate, Flags
  <2> QED
    BY <2>1
<1>2. CASE ~negotiating
  <2>1. creating' > 0
    BY <1>2 DEF Renegotiate, Flags, Counts
  <2> QED
    BY <2>1
<1> QED
  BY <1>1, <1>2

\* The connection of an offerer is free.
LEMMA OffererStable ==
  ASSUME Counts, Places, Turns, creating > 0
  PROVE  signaling = "stable"
<1>1. Own <= 1
  BY DEF Turns
<1>2. signaling # "haveLocal"
  BY <1>1 DEF Own, Counts
<1>3. signaling # "haveRemote"
  BY <1>1 DEF Own, Counts, Turns, Busy
<1> QED
  BY <1>2, <1>3 DEF Places, Signaling

LEMMA RequestStep ==
  ASSUME Flags, Counts, Places, Alive, Alive', Turns, Waits, NoLostRequest, [Next]_vars
  PROVE  NoLostRequest'
<1> USE DEF NoLostRequest, Alive, Places, Goto
\* Those who take a request up make the offer or leave the mark: the connection
\* of an offerer is stable.
<1>1. CASE CreateOffer
  BY <1>1, OffererStable DEF CreateOffer, Counts
<1>2. CASE RenegotiateCall
  BY <1>2, Asked DEF RenegotiateCall
<1>3. ASSUME NEW w \in Answerer, RenegotiateAfter(w)
      PROVE  NoLostRequest'
  BY <1>3, Asked DEF RenegotiateAfter
\* The mark is cleared by one who goes on to renegotiate.
<1>4. ASSUME NEW w \in Answerer, Finish(w)
      PROVE  NoLostRequest'
  BY <1>4 DEF Finish, Finished, Again, sfuVars
\* A track more comes with a call.
<1>5. CASE Publish
  BY <1>5 DEF Publish, Counts, peerVars
\* The others leave all of this alone.
<1>6. ASSUME NEW w \in Answerer, SetRemoteOffer(w) \/ FlushPendingICE(w) \/ Answer(w)
      PROVE  NoLostRequest'
  <2>1. CASE SetRemoteOffer(w)
    BY <2>1 DEF SetRemoteOffer, peerVars
  <2>2. CASE FlushPendingICE(w)
    BY <2>2 DEF FlushPendingICE, sfuVars
  <2>3. CASE Answer(w)
    BY <2>3 DEF Answer, peerVars
  <2> QED
    BY <1>6, <2>1, <2>2, <2>3
<1>7. CASE TakeOffer \/ ReadAnswer
  BY <1>7, ConstantsAssumption
  DEF TakeOffer, ReadAnswer, ReadHead, Answerer, sfuVars, peerVars
<1>8. ASSUME NEW q \in Approver, FindWaiting(q) \/ LetIn(q) \/ AttachRoom(q)
      PROVE  NoLostRequest'
  BY <1>8 DEF FindWaiting, LetIn, AttachRoom, Answerer, peerVars, sfuVars
<1>9. CASE SendOffer
  BY <1>9 DEF SendOffer, WriteFails, sfuVars
<1>10. CASE UNCHANGED <<changes, carried, calls, creating, negotiationPending, stage>>
  BY <1>10
<1>11. ReadIce \/ Browse \/ IceRestart \/ SendIce \/ UNCHANGED vars
       => UNCHANGED <<changes, carried, calls, creating, negotiationPending, stage>>
  BY DEF ReadIce, Browse, SendLocalOffer, OnAnswer, ApplyAnswer, OnOffer, Rollback,
         ApplyOffer, AnswerOffer, IceRestart, SendIce, vars, peerVars, sfuVars, goVars
<1>12. ~RemovePeer
  BY DEF RemovePeer
<1> QED
  BY <1>1, <1>2, <1>3, <1>4, <1>5, <1>6, <1>7, <1>8, <1>9, <1>10, <1>11, <1>12
  DEF Next, Serve, Environment

\* Until a write to the socket fails no request to renegotiate is lost between
\* the flag, the mark and the goroutines: a track that was published and is in no
\* offer yet still has somebody to ask for one or to make one.
THEOREM RequestsKept == InOrder => (Spec => []NoLostRequest)
<1> SUFFICES ASSUME InOrder
             PROVE  Spec => []NoLostRequest
  OBVIOUS
<1>1. Init => NoLostRequest
  BY DEF Init, NoLostRequest
<1>2. TypeOK /\ Ordered /\ NoLostRequest /\ [Next]_vars => NoLostRequest'
  <2>1. ~Alive' => NoLostRequest'
    BY DEF NoLostRequest, Alive
  <2> QED
    BY <2>1, TypeParts, RequestStep, LostStays DEF Ordered
<1> QED
  BY <1>1, <1>2, TypeCorrect, AlwaysOrdered, PTL DEF Spec

-----------------------------------------------------------------------------
(* The tracks that the messages of a queue carry *)

\* Every message of the type carries n tracks at least.
Carries(q, type, n) == \A i \in DOMAIN q : q[i].type = type => q[i].tracks >= n

\* Every offer carries n tracks.
AllOffer(q, n) == \A i \in DOMAIN q : q[i].type = "offer" => q[i].tracks = n

\* Every offer after which there is no answer has lines for n tracks at least.
Fresh(q, n) ==
  \A i \in DOMAIN q : q[i].type = "offer" /\ ~Followed(q, i, "answer") => q[i].tracks >= n

LEMMA NoneCarried ==
  ASSUME NEW q
  PROVE  /\ ~Has(q, "offer") =>
              /\ ~Unanswered(q) /\ ~Overtaken(q)
              /\ \A n : AllOffer(q, n) /\ Fresh(q, n) /\ Carries(q, "offer", n)
         /\ ~Has(q, "answer") => \A n : Carries(q, "answer", n)
BY Zenon DEF Has, Unanswered, Overtaken, AllOffer, Fresh, Carries

LEMMA TracksSent ==
  ASSUME NEW q \in Seq(Message), NEW m \in Message, NEW n
  PROVE  /\ \A t : Carries(q, t, n) /\ (m.type = t => m.tracks >= n) =>
                     Carries(Append(q, m), t, n)
         /\ AllOffer(q, n) /\ (m.type = "offer" => m.tracks = n) =>
              AllOffer(Append(q, m), n)
         /\ Fresh(q, n) /\ (m.type = "offer" => m.tracks >= n) =>
              Fresh(Append(q, m), n)
         /\ m.type = "answer" => Fresh(Append(q, m), n)
<1> DEFINE r == Append(q, m)
           l == Len(q) + 1
<1>1. /\ DOMAIN q = 1 .. Len(q) /\ DOMAIN r = 1 .. l /\ Len(q) \in Nat
      /\ \A i \in 1 .. Len(q) : r[i] = q[i]
      /\ r[l] = m
  BY Sent
<1> HIDE DEF r
<1>2. \A t : Carries(q, t, n) /\ (m.type = t => m.tracks >= n) => Carries(r, t, n)
  BY <1>1 DEF Carries
<1>3. AllOffer(q, n) /\ (m.type = "offer" => m.tracks = n) => AllOffer(r, n)
  BY <1>1 DEF AllOffer
<1>4. \A i \in 1 .. Len(q) : Followed(q, i, "answer") => Followed(r, i, "answer")
  BY <1>1 DEF Followed
<1>5. Fresh(q, n) /\ (m.type = "offer" => m.tracks >= n) => Fresh(r, n)
  BY <1>1, <1>4 DEF Fresh
<1>6. m.type = "answer" => \A i \in 1 .. Len(q) : Followed(r, i, "answer")
  BY <1>1 DEF Followed
<1>7. m.type = "answer" => Fresh(r, n)
  BY <1>1, <1>6 DEF Fresh
<1> QED
  BY <1>2, <1>3, <1>5, <1>7 DEF r

LEMMA TracksTaken ==
  ASSUME NEW q \in Seq(Message), q # <<>>, NEW n
  PROVE  /\ \A t : Carries(q, t, n) =>
                     /\ Carries(Tail(q), t, n)
                     /\ Head(q).type = t => Head(q).tracks >= n
         /\ AllOffer(q, n) =>
              /\ AllOffer(Tail(q), n)
              /\ Head(q).type = "offer" => Head(q).tracks = n
         /\ Fresh(q, n) =>
              /\ Fresh(Tail(q), n)
              /\ Head(q).type = "offer" /\ ~Has(q, "answer") => Head(q).tracks >= n
<1> DEFINE r == Tail(q)
<1>1. 1 \in DOMAIN q /\ Head(q) = q[1]
  BY Shifted
<1>2. \A k \in DOMAIN r : k + 1 \in DOMAIN q /\ q[k + 1] = r[k]
  BY Shifted
<1>3. \A k \in DOMAIN r : Followed(r, k, "answer") <=> Followed(q, k + 1, "answer")
  BY FollowedTail
<1>4. ~Has(q, "answer") => ~Followed(q, 1, "answer")
  BY Zenon DEF Has, Followed
<1> HIDE DEF r
<1>5. \A t : Carries(q, t, n) => /\ Carries(r, t, n)
                                 /\ Head(q).type = t => Head(q).tracks >= n
  BY <1>1, <1>2 DEF Carries
<1>6. AllOffer(q, n) => /\ AllOffer(r, n)
                        /\ Head(q).type = "offer" => Head(q).tracks = n
  BY <1>1, <1>2 DEF AllOffer
<1>7. Fresh(q, n) =>
        /\ Fresh(r, n)
        /\ Head(q).type = "offer" /\ ~Has(q, "answer") => Head(q).tracks >= n
  BY <1>1, <1>2, <1>3, <1>4 DEF Fresh
<1> QED
  BY <1>5, <1>6, <1>7 DEF r

-----------------------------------------------------------------------------
(* The browser's offers and their answers *)

Answering == \E w \in Answerer : stage[w] \in {"setRemote", "flush", "answer"}

\* An offer of the browser is with the SFU, or its answer is on the way back.
InAnswer == Kept \/ Answering \/ Has(down, "answer") \/ bAnswer # NoAnswer

\* An offer of the browser is at one place at a time; as long as it is beyond
\* the queue the browser waits for its answer, with no other message of the
\* negotiation on the way up.  In the queue, the offers that no answer of the
\* browser follows are those it made since, one at most; none if the browser is
\* stable again, unless an offer of the SFU has taken its place.
Offers ==
  /\ InAnswer => /\ bSignaling = "haveLocal" /\ bOffer \in {"idle", "rollback"}
                 /\ ~Has(up, "offer") /\ ~Has(up, "answer")
  /\ Kept => ~Answering /\ ~Has(down, "answer") /\ bAnswer = NoAnswer
  /\ Answering => ~Has(down, "answer") /\ bAnswer = NoAnswer
  /\ Has(down, "answer") => bAnswer = NoAnswer
  /\ Once(down, "answer") /\ AnswersFirst(down)
  /\ AtOffer => ~Has(down, "answer")
  /\ bSignaling = "haveRemote" <=> bOffer = "answer"
  /\ Unanswered(up) => bOffer \in {"apply", "answer"} \/ bSignaling = "haveLocal"
  /\ Overtaken(up) => bOffer \in {"apply", "answer"}
  /\ bSignaling = "haveLocal" => ~AnswerLast(up)

LEMMA InitOffers == Init => Offers
BY ConstantsAssumption
DEF Init, Offers, InAnswer, Kept, Attaching, Takes, Answering, AtOffer, Has, Once,
    AnswersFirst, Unanswered, Overtaken, AnswerLast, Answerer

\* While an offer of the SFU is out, or none of the SFU's exchanges is in hand,
\* no offer of the browser is being answered; and none is kept while an exchange
\* is in hand.
LEMMA Apart ==
  ASSUME Counts, Turns, Tokens, Waits
  PROVE  /\ AtOffer \/ Has(up, "answer") => ~Kept /\ ~Answering
         /\ Kept => Lobby /\ Undecided /\ ~negotiating
         /\ ~negotiating => ~Answering /\ signaling # "haveLocal"
<1>1. Kept => Lobby /\ Undecided
  BY DEF Waits, Kept, Undecided, Attaching, Takes
<1>2. Kept => ~negotiating /\ ~settled
  BY <1>1 DEF Waits
<1>3. signaling = "haveLocal" => ~Answering
  <2>1. signaling = "haveLocal" => Own > 0
    BY DEF Own, Counts
  <2> QED
    BY <2>1 DEF Turns, Busy, Answering
<1>4. ~negotiating => ~Answering /\ signaling # "haveLocal"
  <2>1. signaling = "haveLocal" /\ Own <= 1 => Own = 1
    BY DEF Own, Counts
  <2> QED
    BY <2>1 DEF Turns, Busy, Answering
<1>5. signaling = "haveLocal" => ~Kept
  BY <1>1, <1>2 DEF Waits
<1> QED
  BY <1>1, <1>2, <1>3, <1>4, <1>5 DEF Tokens

\* An offer that the SFU takes from its queue, to keep or to answer it, is the
\* one that the browser waits for, and the last of the queue.
LEMMA OfferTaken ==
  ASSUME Counts, Places, Turns, Tokens, Waits, Offers, ReadHead("offer"),
         waiting \/ ~negotiating
  PROVE  /\ bSignaling = "haveLocal" /\ bOffer = "idle"
         /\ ~Has(up, "answer") /\ ~Has(Tail(up), "offer") /\ ~Has(Tail(up), "answer")
         /\ ~InAnswer
<1>0. up \in Seq(Message) /\ up # <<>> /\ Head(up).type = "offer"
  BY DEF Places, ReadHead
<1>1. ~negotiating
  BY DEF Waits, Undecided
<1>2. signaling # "haveLocal"
  BY <1>1, Apart
<1>3. ~Has(up, "answer") /\ bOffer = "idle"
  BY <1>2 DEF Tokens, AtOffer
<1>4. Has(up, "offer") /\ (Has(Tail(up), "answer") => Has(up, "answer"))
  BY <1>0, HeadTaken
<1>5. Unanswered(up) /\ (~Overtaken(up) => ~Has(Tail(up), "offer"))
  BY <1>0, <1>3, HeadSays
<1> QED
  BY <1>3, <1>4, <1>5 DEF Offers

\* The steps of an exchange take no offer that was kept.
LEMMA StillAttaching ==
  ASSUME Places, NEW w \in Answerer, NEW t, stage[w] # "attach", t # "attach",
         Goto(w, t), UNCHANGED lines
  PROVE  UNCHANGED Attaching
<1>1. \A q \in Approver : stage'[q] = "attach" <=> stage[q] = "attach"
  BY DEF Goto, Places, Answerer
<1>2. ASSUME NEW q \in Approver PROVE Takes(q)' <=> Takes(q)
  BY <1>1, Zenon DEF Takes
<1> QED
  BY <1>2, Zenon DEF Attaching

LEMMA ExchangeMoves ==
  ASSUME Places, NEW w \in Answerer,
         \/ SetRemoteOffer(w) \/ FlushPendingICE(w) \/ Answer(w) \/ Finish(w)
         \/ RenegotiateAfter(w)
  PROVE  /\ UNCHANGED <<Kept, Attaching, lines, pendingOffer>>
         /\ \A v \in Answerer : stage'[v] \in {"setRemote", "flush", "answer"} =>
                                  stage[v] \in {"setRemote", "flush", "answer"}
         /\ Answering' => Answering
<1>1. PICK t : /\ t # "attach" /\ Goto(w, t)
               /\ t \in {"setRemote", "flush", "answer"} =>
                    stage[w] \in {"setRemote", "flush", "answer"}
  BY DEF SetRemoteOffer, FlushPendingICE, Answer, Finish, RenegotiateAfter
<1>2. stage[w] # "attach" /\ UNCHANGED <<lines, pendingOffer>>
  BY DEF SetRemoteOffer, FlushPendingICE, Answer, Finish, RenegotiateAfter, peerVars
<1>3. UNCHANGED Attaching
  BY <1>1, <1>2, StillAttaching
<1>4. UNCHANGED Kept
  BY <1>2, <1>3 DEF Kept
<1>5. \A v \in Answerer : stage'[v] \in {"setRemote", "flush", "answer"} =>
                           stage[v] \in {"setRemote", "flush", "answer"}
  BY <1>1 DEF Goto, Places
<1> QED
  BY <1>2, <1>3, <1>4, <1>5 DEF Answering

\* An approver that attaches the tracks of the room takes the offer kept.
LEMMA OfferKept ==
  ASSUME Places, Waits, NEW q \in Approver, AttachRoom(q)
  PROVE  /\ UNCHANGED <<lines, pendingOffer>> /\ pendingOffer = NoOffer
         /\ lines[q] # NoOffer => Attaching /\ ~Attaching' /\ Answering'
         /\ lines[q] = NoOffer => UNCHANGED <<Attaching, Answering>>
         /\ \A w \in Answerer : stage'[w] \in {"setRemote", "flush", "answer"} =>
                                  \/ stage[w] \in {"setRemote", "flush", "answer"}
                                  \/ w = q /\ lines[q] # NoOffer
<1>0. /\ stage[q] = "attach" /\ UNCHANGED <<lines, pendingOffer>> /\ q \in Answerer
      /\ Approver \subseteq Answerer /\ ~waiting
  BY DEF AttachRoom, Waits, Answerer
<1>1. pendingOffer = NoOffer
  BY <1>0 DEF Waits
<1>2. CASE lines[q] # NoOffer
  <2>1. stage' = [stage EXCEPT ![q] = "setRemote"]
    BY <1>2 DEF AttachRoom, Goto
  <2>2. Takes(q) /\ \A r \in Approver : Takes(r) => r = q
    BY <1>0, <1>2 DEF Takes, Waits
  <2>3. Attaching /\ ~Attaching'
    BY <1>0, <2>1, <2>2 DEF Attaching, Takes, Places
  <2>4. Answering'
    BY <1>0, <2>1 DEF Answering, Places
  <2> QED
    BY <1>0, <1>1, <1>2, <2>1, <2>3, <2>4 DEF Places
<1>3. CASE lines[q] = NoOffer
  <2>1. stage' = [stage EXCEPT ![q] = "idle"]
    BY <1>3 DEF AttachRoom, Goto
  <2>2. \A r \in Approver : Takes(r)' <=> Takes(r)
    BY <1>0, <1>3, <2>1 DEF Takes, Places
  <2>3. UNCHANGED Attaching
    BY <2>2, Zenon DEF Attaching
  <2>4. UNCHANGED Answering
    BY <1>0, <2>1 DEF Answering, Places
  <2> QED
    BY <1>0, <1>1, <1>3, <2>1, <2>3, <2>4 DEF Places
<1> QED
  BY <1>2, <1>3

\* One that lets the participant in takes what there is to take.
LEMMA OfferPassedOn ==
  ASSUME Places, Waits, NEW q \in Approver, FindWaiting(q) \/ LetIn(q)
  PROVE  /\ UNCHANGED <<Kept, Answering>>
         /\ \A w \in Answerer : stage'[w] \in {"setRemote", "flush", "answer"} =>
                                  /\ stage[w] \in {"setRemote", "flush", "answer"}
                                  /\ lines'[w] = lines[w]
         /\ pendingOffer' \in {pendingOffer, NoOffer}
         /\ \A r \in Approver : Takes(r)' =>
               \/ Takes(r) /\ lines'[r] = lines[r]
               \/ pendingOffer # NoOffer /\ lines'[r] = pendingOffer
<1>0. q \in Answerer /\ Approver \subseteq Answerer
  BY DEF Answerer
<1>1. CASE FindWaiting(q)
  <2>1. /\ stage' = [stage EXCEPT ![q] = "found"] /\ stage[q] = "idle"
        /\ UNCHANGED <<lines, pendingOffer>>
    BY <1>1 DEF FindWaiting, Goto, peerVars
  <2>2. UNCHANGED Attaching
    BY <1>0, <1>1, <2>1, StillAttaching DEF FindWaiting
  <2>3. UNCHANGED <<Kept, Answering>>
    BY <1>0, <2>1, <2>2 DEF Kept, Answering, Places
  <2> QED
    BY <1>0, <2>1, <2>3 DEF Takes, Places
<1>2. CASE LetIn(q)
  <2>1. /\ stage' = [stage EXCEPT ![q] = "attach"] /\ stage[q] = "found"
        /\ lines' = [lines EXCEPT ![q] = pendingOffer] /\ pendingOffer' = NoOffer
    BY <1>2 DEF LetIn, Goto
  <2>2. Takes(q)' <=> pendingOffer # NoOffer
    BY <1>0, <2>1 DEF Takes, Places
  <2>3. \A r \in Approver \ {q} : (Takes(r)' <=> Takes(r)) /\ lines'[r] = lines[r]
    BY <1>0, <2>1 DEF Takes, Places
  <2>4. ~Takes(q)
    BY <2>1 DEF Takes
  <2>5. UNCHANGED Kept
    BY <2>1, <2>2, <2>3, <2>4 DEF Kept, Attaching
  <2>6. /\ UNCHANGED Answering
        /\ \A w \in Answerer : stage'[w] \in {"setRemote", "flush", "answer"} =>
                                 /\ stage[w] \in {"setRemote", "flush", "answer"}
                                 /\ lines'[w] = lines[w]
    BY <1>0, <2>1 DEF Answering, Places
  <2>7. lines'[q] = pendingOffer
    BY <1>0, <2>1 DEF Places
  <2> QED
    BY <2>1, <2>2, <2>3, <2>5, <2>6, <2>7
<1> QED
  BY <1>1, <1>2

LEMMA OffersStep ==
  ASSUME InOrder, Flags, Counts, Places, Alive, Alive', Turns, Tokens, Waits, Offers,
         [Next]_vars
  PROVE  Offers'
<1>0. up \in Seq(Message) /\ down \in Seq(Message)
  BY DEF Places
<1> USE DEF Offers
\* What is left of an exchange when somebody else moves.
<1>a. ASSUME UNCHANGED <<pendingOffer, stage, lines>>
      PROVE  UNCHANGED <<Kept, Answering>>
  BY <1>a DEF Kept, Attaching, Takes, Answering
<1>1. CASE TakeOffer
  <2>1. /\ ReadHead("offer") /\ up # <<>> /\ up' = Tail(up)
        /\ UNCHANGED <<down, bOffer, bAnswer, bSignaling>>
    BY <1>1 DEF TakeOffer, ReadHead, browserVars
  <2>2. /\ Has(up, "offer")
        /\ Unanswered(up') => Unanswered(up)
        /\ Overtaken(up') => Overtaken(up)
        /\ AnswerLast(up') => AnswerLast(up)
    BY <1>0, <2>1, HeadTaken DEF ReadHead
  <2>3. CASE waiting
    <3>1. /\ bSignaling = "haveLocal" /\ bOffer = "idle" /\ ~InAnswer
          /\ ~Has(up', "offer") /\ ~Has(up', "answer")
      BY <2>1, <2>3, OfferTaken
    <3>2. UNCHANGED Answering
      BY <1>1, <2>3 DEF TakeOffer, Answering
    <3> QED
      BY <2>1, <2>2, <3>1, <3>2 DEF InAnswer, AtOffer
  <2>4. CASE ~waiting /\ DropsOffer
    <3>1. UNCHANGED <<Kept, Answering>>
      BY <1>1, <1>a, <2>4 DEF TakeOffer, DropsOffer
    <3>2. ~InAnswer
      BY <2>2
    <3> QED
      BY <2>1, <2>2, <3>1, <3>2 DEF InAnswer, AtOffer
  <2>5. CASE ~waiting /\ ~DropsOffer
    <3>1. /\ bSignaling = "haveLocal" /\ bOffer = "idle" /\ ~InAnswer
          /\ ~Has(up', "offer") /\ ~Has(up', "answer")
      BY <2>1, <2>5, OfferTaken DEF DropsOffer
    <3>2. UNCHANGED Kept
      <4>1. /\ UNCHANGED pendingOffer /\ stage' = [stage EXCEPT !["reader"] = "setRemote"]
            /\ lines' = [lines EXCEPT !["reader"] = Head(up).tracks]
        BY <1>1, <2>5 DEF TakeOffer, Goto
      <4>2. \A q \in Approver : stage'[q] = stage[q] /\ lines'[q] = lines[q]
        BY <4>1, ConstantsAssumption DEF Places, Answerer
      <4> QED
        BY <4>1, <4>2, Zenon DEF Kept, Attaching, Takes
    <3> QED
      BY <2>1, <2>2, <3>1, <3>2 DEF InAnswer, AtOffer
  <2> QED
    BY <2>3, <2>4, <2>5
<1>2. CASE ReadAnswer \/ ReadIce
  <2>1. /\ up # <<>> /\ up' = Tail(up)
        /\ UNCHANGED <<down, bOffer, bAnswer, bSignaling>>
    BY <1>2 DEF ReadAnswer, ReadIce, ReadHead, browserVars
  <2>2. /\ \A t \in {"offer", "answer"} : Has(up', t) => Has(up, t)
        /\ Unanswered(up') => Unanswered(up)
        /\ Overtaken(up') => Overtaken(up)
        /\ AnswerLast(up') => AnswerLast(up)
    BY <1>0, <2>1, HeadTaken
  <2>3. UNCHANGED Kept /\ (Answering' => Answering)
    <3>1. CASE ReadAnswer
      <4>1. /\ stage["reader"] = "idle" /\ UNCHANGED <<pendingOffer, lines>>
            /\ Goto("reader", "flushAnswer") \/ UNCHANGED stage
        BY <3>1 DEF ReadAnswer, ReadHead, peerVars
      <4>2. UNCHANGED Attaching
        <5>1. CASE UNCHANGED stage
          BY <4>1, <5>1 DEF Attaching, Takes
        <5>2. CASE Goto("reader", "flushAnswer")
          BY <4>1, <5>2, StillAttaching DEF Answerer
        <5> QED
          BY <4>1, <5>1, <5>2
      <4> QED
        BY <4>1, <4>2 DEF Kept, Answering, Answerer, Places, Goto
    <3>2. CASE ReadIce
      BY <3>2, <1>a DEF ReadIce, goVars
    <3> QED
      BY <1>2, <3>1, <3>2
  <2> QED
    BY <2>1, <2>2, <2>3 DEF InAnswer, AtOffer
<1>3. ASSUME NEW w \in Answerer, SetRemoteOffer(w) \/ FlushPendingICE(w)
      PROVE  Offers'
  <2>1. UNCHANGED Kept /\ (Answering' => Answering)
    BY <1>3, ExchangeMoves
  <2>2. UNCHANGED <<up, down, bOffer, bAnswer, bSignaling>>
    BY <1>3 DEF SetRemoteOffer, FlushPendingICE, netVars, browserVars
  <2> QED
    BY <2>1, <2>2 DEF InAnswer, AtOffer
<1>4. ASSUME NEW w \in Answerer, Answer(w)
      PROVE  Offers'
  <2>1. /\ stage[w] = "answer" /\ signaling = "haveRemote" /\ Answering
        /\ UNCHANGED <<up, bOffer, bAnswer, bSignaling>>
    BY <1>4 DEF Answer, Turns, Answering, browserVars
  <2>2. PICK m \in Message : m.type = "answer" /\ down' = Append(down, m)
    BY <1>4, <2>1, Answered
  <2>3. UNCHANGED Kept /\ ~Answering'
    <3>1. \A v \in Answerer : Busy(v) => v = w
      BY <2>1 DEF Turns, Busy
    <3>2. ~Answering'
      BY <1>4, <3>1 DEF Answer, Goto, Answering, Busy, Places
    <3> QED
      BY <1>4, <3>2, ExchangeMoves
  <2>4. ~Has(down, "offer") /\ ~AtOffer
    BY <2>1 DEF Tokens
  <2>5. Once(down', "answer") /\ AnswersFirst(down')
    BY <1>0, <2>1, <2>2, <2>4, AnswerSent
  <2> QED
    BY <2>1, <2>3, <2>4, <2>5 DEF InAnswer, AtOffer
<1>5. ASSUME NEW w \in Answerer, Finish(w) \/ RenegotiateAfter(w)
      PROVE  Offers'
  <2>1. UNCHANGED Kept /\ (Answering' => Answering)
    BY <1>5, ExchangeMoves
  <2>2. UNCHANGED <<up, down, bOffer, bAnswer, bSignaling>>
    BY <1>5 DEF Finish, RenegotiateAfter, netVars, browserVars
  <2> QED
    BY <2>1, <2>2 DEF InAnswer, AtOffer
<1>6. ASSUME NEW q \in Approver, AttachRoom(q)
      PROVE  Offers'
  <2>1. UNCHANGED <<up, down, bOffer, bAnswer, bSignaling>>
    BY <1>6 DEF AttachRoom, netVars, browserVars
  <2>2. CASE lines[q] = NoOffer
    BY <1>6, <2>1, <2>2, OfferKept DEF InAnswer, AtOffer, Kept
  <2>3. CASE lines[q] # NoOffer
    <3>1. Kept /\ ~Kept'
      BY <1>6, <2>3, OfferKept DEF Kept
    <3> QED
      BY <2>1, <3>1 DEF InAnswer, AtOffer
  <2> QED
    BY <2>2, <2>3
<1>7. ASSUME NEW q \in Approver, FindWaiting(q) \/ LetIn(q)
      PROVE  Offers'
  <2>1. UNCHANGED <<up, down, bOffer, bAnswer, bSignaling>>
    BY <1>7 DEF FindWaiting, LetIn, netVars, browserVars
  <2> QED
    BY <1>7, <2>1, OfferPassedOn DEF InAnswer, AtOffer
<1>8. CASE SendOffer
  <2>1. PICK m \in Message : m.type = "offer" /\ down' = Append(down, m)
    BY <1>8, OthersSent
  <2>2. /\ Has(down', "answer") <=> Has(down, "answer")
        /\ Once(down', "answer") /\ AnswersFirst(down')
    BY <1>0, <2>1, OfferSent
  <2>3. UNCHANGED <<up, bOffer, bAnswer, bSignaling, pendingOffer, stage, lines>>
    BY <1>8 DEF SendOffer, peerVars, browserVars
  <2> QED
    BY <1>a, <2>2, <2>3 DEF InAnswer, AtOffer
<1>9. CASE SendLocalOffer
  <2>1. UNCHANGED <<down, bOffer, bAnswer, pendingOffer, stage, lines>>
    BY <1>9 DEF SendLocalOffer, peerVars, goVars
  <2>2. CASE UNCHANGED <<bSignaling, up>>
    BY <1>a, <2>1, <2>2 DEF InAnswer, AtOffer
  <2>3. CASE /\ bSignaling = "stable" /\ bSignaling' = "haveLocal"
             /\ \E m \in Message : m.type = "offer" /\ up' = Append(up, m)
    <3>1. (Overtaken(up') => Unanswered(up)) /\ ~AnswerLast(up')
      BY <1>0, <2>3, OfferSent
    <3>2. ~InAnswer /\ ~InAnswer'
      BY <1>a, <2>1, <2>3 DEF InAnswer
    <3> QED
      BY <1>a, <2>1, <2>3, <3>1, <3>2 DEF InAnswer, AtOffer
  <2> QED
    BY <1>9, <2>2, <2>3, LocalOffer
<1>10. CASE SendIce
  <2>1. PICK m \in Message : m.type = "ice" /\ up' = Append(up, m)
    BY <1>10, OthersSent
  <2>2. /\ \A t \in {"offer", "answer"} : Has(up', t) <=> Has(up, t)
        /\ Unanswered(up') <=> Unanswered(up)
        /\ Overtaken(up') <=> Overtaken(up)
        /\ AnswerLast(up') <=> AnswerLast(up)
    BY <1>0, <2>1, IceSent
  <2>3. UNCHANGED <<down, bOffer, bAnswer, bSignaling, pendingOffer, stage, lines>>
    BY <1>10 DEF SendIce, peerVars, goVars
  <2> QED
    BY <1>a, <2>2, <2>3 DEF InAnswer, AtOffer
<1>11. CASE OnAnswer
  <2>1. /\ down # <<>> /\ down' = Tail(down) /\ Head(down).type = "answer"
        /\ UNCHANGED <<up, bOffer, bSignaling, pendingOffer, stage, lines>>
    BY <1>11 DEF OnAnswer, OnMessage, peerVars, goVars
  <2>2. /\ Has(down, "answer") /\ ~Has(down', "answer")
        /\ Once(down', "answer") /\ AnswersFirst(down')
    BY <1>0, <2>1, HeadTaken
  <2>3. InAnswer
    BY <2>2 DEF InAnswer
  <2> QED
    BY <1>a, <2>1, <2>2, <2>3 DEF InAnswer, AtOffer
<1>12. CASE ApplyAnswer
  <2>1. /\ bAnswer # NoAnswer /\ bAnswer' = NoAnswer /\ InAnswer
        /\ UNCHANGED <<up, down, bOffer, pendingOffer, stage, lines>>
    BY <1>12 DEF ApplyAnswer, InAnswer, peerVars, goVars
  <2>2. bSignaling' = "stable"
    BY <1>12, <2>1 DEF ApplyAnswer
  <2>3. ~Unanswered(up) /\ ~Overtaken(up)
    BY <2>1, NoneCarried
  <2> QED
    BY <1>a, <2>1, <2>2, <2>3 DEF InAnswer, AtOffer
<1>13. CASE OnOffer
  <2>1. /\ down # <<>> /\ down' = Tail(down) /\ Head(down).type = "offer"
        /\ bOffer = "idle"
        /\ UNCHANGED <<up, bAnswer, bSignaling, pendingOffer, stage, lines>>
    BY <1>13 DEF OnOffer, OnMessage, peerVars, goVars
  <2>2. ~Has(down, "answer") /\ ~Has(down', "answer") /\ Once(down', "answer")
          /\ AnswersFirst(down')
    BY <1>0, <2>1, HeadTaken, HeadSays
  <2>3. \/ bSignaling = "stable" /\ bOffer' = "apply"
        \/ bSignaling = "haveLocal" /\ bOffer' \in {"idle", "rollback"}
    BY <1>13, <2>1 DEF OnOffer, Places, Signaling
  <2> QED
    BY <1>a, <2>1, <2>2, <2>3 DEF InAnswer, AtOffer
<1>14. CASE Rollback
  <2>1. /\ bOffer = "rollback" /\ bAnswer = NoAnswer
        /\ UNCHANGED <<up, down, bAnswer, pendingOffer, stage, lines>>
    BY <1>14 DEF Rollback, peerVars, goVars, netVars
  <2>2. ~InAnswer
    BY <2>1, Apart DEF InAnswer, AtOffer
  <2>3. \/ bSignaling = "haveLocal" /\ bSignaling' = "stable" /\ bOffer' = "apply"
        \/ bSignaling = "stable" /\ bSignaling' = "stable" /\ bOffer' = "idle"
    BY <1>14, <2>1 DEF Rollback, Places, Signaling
  <2> QED
    BY <1>a, <2>1, <2>2, <2>3 DEF InAnswer, AtOffer
<1>15. CASE ApplyOffer
  <2>1. /\ bOffer = "apply" /\ bOffer' = "answer" /\ bSignaling' = "haveRemote"
        /\ UNCHANGED <<up, down, bAnswer, pendingOffer, stage, lines>>
    BY <1>15 DEF ApplyOffer, peerVars, goVars, netVars
  <2> QED
    BY <1>a, <2>1 DEF InAnswer, AtOffer
<1>16. CASE AnswerOffer
  <2>1. /\ bOffer = "answer" /\ bOffer' = "idle" /\ bSignaling' = "stable"
        /\ UNCHANGED <<down, bAnswer, pendingOffer, stage, lines>>
    BY <1>16 DEF AnswerOffer, peerVars, goVars
  <2>2. PICK m \in Message : m.type = "answer" /\ up' = Append(up, m)
    BY <1>16, OthersSent
  <2>3. ~Unanswered(up') /\ ~Overtaken(up')
    BY <1>0, <2>2, AnswerSent
  <2> QED
    BY <1>a, <2>1, <2>3 DEF InAnswer, AtOffer
<1>17. CASE UNCHANGED <<up, down, bOffer, bAnswer, bSignaling, pendingOffer, stage, lines>>
  BY <1>a, <1>17 DEF InAnswer, AtOffer
<1>18. CreateOffer \/ RenegotiateCall \/ Publish \/ IceRestart \/ UNCHANGED vars
       => UNCHANGED <<up, down, bOffer, bAnswer, bSignaling, pendingOffer, stage, lines>>
  BY DEF CreateOffer, RenegotiateCall, Publish, IceRestart, vars, peerVars, sfuVars, goVars,
         netVars, browserVars
<1>19. ~RemovePeer
  BY DEF RemovePeer, Alive
<1> QED
  BY <1>1, <1>2, <1>3, <1>4, <1>5, <1>6, <1>7, <1>8, <1>9, <1>10, <1>11, <1>12, <1>13,
     <1>14, <1>15, <1>16, <1>17, <1>18, <1>19 DEF Next, Serve, Browse, Environment

-----------------------------------------------------------------------------
(* What each end knows of the tracks *)

\* The browser knows every track offered, unless an offer is out that it has
\* yet to answer; and every offer of the browser on its way, and every answer,
\* has lines for the tracks known when it is used.
Knows ==
  /\ offered <= attached
  /\ signaling = "haveLocal" \/ seen >= offered
  /\ Has(up, "answer") \/ bOffer = "answer" => seen >= offered
  /\ AllOffer(down, offered)
  /\ AtOffer => bOfferTracks = offered
  /\ signaling = "haveLocal" \/ Carries(down, "answer", offered)
  /\ bAnswer # NoAnswer => bAnswer >= offered \/ signaling = "haveLocal"
  /\ Fresh(up, seen) \/ bOffer \in {"apply", "answer"}
  /\ \A w \in Answerer : stage[w] \in {"setRemote", "flush", "answer"} => lines[w] >= seen
  /\ pendingOffer # NoOffer => pendingOffer >= seen
  /\ \A q \in Approver : Takes(q) => lines[q] >= seen

LEMMA InitKnows == Init => Knows
BY ConstantsAssumption
DEF Init, Knows, Has, AllOffer, Carries, Fresh, AtOffer, Answerer, Takes

LEMMA KnowsStep ==
  ASSUME InOrder, Flags, Counts, Places, Alive, Alive', Turns, Tokens, Waits, Offers,
         Knows, [Next]_vars
  PROVE  Knows'
<1>0. up \in Seq(Message) /\ down \in Seq(Message)
  BY DEF Places
<1> USE DEF Knows
<1>r. /\ "reader" \in Answerer /\ \A q \in Approver : q \in Answerer /\ q # "reader"
  BY ConstantsAssumption DEF Answerer
<1>1. CASE TakeOffer
  <2>1. /\ ReadHead("offer") /\ up # <<>> /\ up' = Tail(up) /\ Head(up).type = "offer"
        /\ UNCHANGED <<down, bOffer, bOfferTracks, bAnswer, seen, signaling, attached, offered>>
    BY <1>1 DEF TakeOffer, ReadHead, sfuVars, browserVars
  <2>2. /\ Has(up', "answer") => Has(up, "answer")
        /\ Fresh(up, seen) => /\ Fresh(up', seen)
                              /\ ~Has(up, "answer") => Head(up).tracks >= seen
    BY <1>0, <2>1, HeadTaken, TracksTaken
  <2>3. waiting \/ ~negotiating => Head(up).tracks >= seen
    BY <2>1, <2>2, OfferTaken
  <2>4. CASE waiting
    BY <1>1, <2>1, <2>2, <2>3, <2>4 DEF TakeOffer, AtOffer, Takes
  <2>5. CASE ~waiting /\ DropsOffer
    BY <1>1, <2>1, <2>2, <2>5 DEF TakeOffer, DropsOffer, AtOffer, Takes
  <2>6. CASE ~waiting /\ ~DropsOffer
    <3>1. UNCHANGED pendingOffer /\ stage' = [stage EXCEPT !["reader"] = "setRemote"]
          /\ lines' = [lines EXCEPT !["reader"] = Head(up).tracks]
      BY <1>1, <2>6 DEF TakeOffer, Goto
    <3>2. Head(up).tracks >= seen
      BY <2>3, <2>6 DEF DropsOffer
    <3>3. \A w \in Answerer : stage'[w] \in {"setRemote", "flush", "answer"} =>
                                lines'[w] >= seen
      BY <3>1, <3>2 DEF Places
    <3>4. \A q \in Approver : Takes(q)' => Takes(q) /\ lines'[q] = lines[q]
      BY <1>r, <3>1 DEF Takes, Places
    <3> QED
      BY <2>1, <2>2, <3>1, <3>3, <3>4 DEF AtOffer
  <2> QED
    BY <2>4, <2>5, <2>6
<1>2. CASE ReadAnswer
  <2>1. /\ up # <<>> /\ up' = Tail(up) /\ Head(up).type = "answer"
        /\ UNCHANGED <<down, bOffer, bOfferTracks, bAnswer, seen, attached, offered,
                       pendingOffer, lines>>
    BY <1>2 DEF ReadAnswer, ReadHead, peerVars, browserVars
  <2>2. /\ Has(up, "answer") /\ ~Has(up', "answer")
        /\ Fresh(up, seen) => Fresh(up', seen)
    BY <1>0, <2>1, HeadTaken, TracksTaken DEF Tokens
  <2>3. ~InAnswer
    BY <2>2 DEF Offers
  <2>4. Carries(down, "answer", offered) /\ bAnswer = NoAnswer
    BY <2>3, NoneCarried DEF InAnswer
  <2>5. /\ \A q \in Approver : Takes(q)' => Takes(q)
        /\ \A w \in Answerer : stage'[w] \in {"setRemote", "flush", "answer"} =>
                                 stage[w] \in {"setRemote", "flush", "answer"}
    BY <1>2, <1>r, <2>1 DEF ReadAnswer, Goto, Takes, Places
  <2> QED
    BY <2>1, <2>2, <2>4, <2>5 DEF AtOffer
<1>3. CASE ReadIce
  <2>1. /\ up # <<>> /\ up' = Tail(up)
        /\ UNCHANGED <<down, bOffer, bOfferTracks, bAnswer, seen, signaling, attached, offered,
                       pendingOffer, lines, stage>>
    BY <1>3 DEF ReadIce, ReadHead, sfuVars, goVars, browserVars
  <2>2. /\ Has(up', "answer") => Has(up, "answer")
        /\ Fresh(up, seen) => Fresh(up', seen)
    BY <1>0, <2>1, HeadTaken, TracksTaken
  <2> QED
    BY <2>1, <2>2 DEF AtOffer, Takes
<1>4. ASSUME NEW w \in Answerer, SetRemoteOffer(w)
      PROVE  Knows'
  <2>1. /\ UNCHANGED <<up, down, bOffer, bOfferTracks, bAnswer, seen, attached, offered,
                       pendingOffer, lines>>
        /\ signaling = "haveLocal" <=> signaling' = "haveLocal"
    BY <1>4 DEF SetRemoteOffer, Turns, Own, Busy, Counts, Places, peerVars, netVars,
                browserVars
  <2>2. /\ \A q \in Approver : Takes(q)' => Takes(q)
        /\ \A v \in Answerer : stage'[v] \in {"setRemote", "flush", "answer"} =>
                                 stage[v] \in {"setRemote", "flush", "answer"}
    BY <1>4, <1>r DEF SetRemoteOffer, Goto, Takes, Places
  <2> QED
    BY <2>1, <2>2 DEF AtOffer
<1>5. ASSUME NEW w \in Answerer, FlushPendingICE(w) \/ Finish(w) \/ RenegotiateAfter(w)
      PROVE  Knows'
  <2>1. UNCHANGED <<up, down, bOffer, bOfferTracks, bAnswer, seen, signaling, attached,
                    offered, pendingOffer, lines>>
    BY <1>5 DEF FlushPendingICE, Finish, RenegotiateAfter, sfuVars, netVars, browserVars
  <2>2. /\ \A q \in Approver : Takes(q)' => Takes(q)
        /\ \A v \in Answerer : stage'[v] \in {"setRemote", "flush", "answer"} =>
                                 stage[v] \in {"setRemote", "flush", "answer"}
    BY <1>5, <1>r DEF FlushPendingICE, Finish, RenegotiateAfter, Goto, Takes, Places
  <2> QED
    BY <2>1, <2>2 DEF AtOffer
<1>6. ASSUME NEW w \in Answerer, Answer(w)
      PROVE  Knows'
  <2>1. /\ stage[w] = "answer" /\ signaling = "haveRemote" /\ Answering
        /\ UNCHANGED <<up, bOffer, bOfferTracks, bAnswer, seen, attached, offered,
                       pendingOffer, lines>>
    BY <1>6 DEF Answer, Turns, Answering, peerVars, browserVars
  <2>2. PICK m \in Message : /\ m.type = "answer" /\ down' = Append(down, m)
                             /\ m.tracks = AtMost(attached, lines[w])
    BY <1>6, <2>1, Answered
  <2>3. m.tracks >= offered
    BY <2>1, <2>2 DEF AtMost, Counts, Places
  <2>4. bAnswer = NoAnswer /\ Carries(down, "answer", offered)
    BY <2>1 DEF Offers
  <2>5. Carries(down', "answer", offered) /\ AllOffer(down', offered)
    BY <1>0, <2>2, <2>3, <2>4, TracksSent
  <2>6. /\ \A q \in Approver : Takes(q)' => Takes(q)
        /\ \A v \in Answerer : stage'[v] \in {"setRemote", "flush", "answer"} =>
                                 stage[v] \in {"setRemote", "flush", "answer"}
    BY <1>6, <1>r, <2>1 DEF Answer, Goto, Takes, Places
  <2> QED
    BY <2>1, <2>4, <2>5, <2>6 DEF AtOffer
<1>7. ASSUME NEW q \in Approver, AttachRoom(q)
      PROVE  Knows'
  <2>1. UNCHANGED <<up, down, bOffer, bOfferTracks, bAnswer, seen, signaling, offered,
                    pendingOffer, lines>>
    BY <1>7 DEF AttachRoom, netVars, browserVars
  <2>2. offered <= attached'
    BY <1>7, ConstantsAssumption DEF AttachRoom, Counts
  <2>3. \A r \in Approver : Takes(r)' => Takes(r)
    BY <1>7, <1>r DEF AttachRoom, Goto, Takes, Places
  <2>4. \A w \in Answerer : stage'[w] \in {"setRemote", "flush", "answer"} =>
                               lines[w] >= seen
    BY <1>7, OfferKept DEF AttachRoom, Takes
  <2> QED
    BY <2>1, <2>2, <2>3, <2>4 DEF AtOffer
<1>8. ASSUME NEW q \in Approver, FindWaiting(q) \/ LetIn(q)
      PROVE  Knows'
  <2>1. UNCHANGED <<up, down, bOffer, bOfferTracks, bAnswer, seen, signaling, attached, offered>>
    BY <1>8 DEF FindWaiting, LetIn, sfuVars, netVars, browserVars
  <2>2. /\ pendingOffer' # NoOffer => pendingOffer' >= seen
        /\ \A r \in Approver : Takes(r)' => lines'[r] >= seen
        /\ \A w \in Answerer : stage'[w] \in {"setRemote", "flush", "answer"} =>
                                 lines'[w] >= seen
    BY <1>8, OfferPassedOn
  <2> QED
    BY <2>1, <2>2 DEF AtOffer
<1>9. CASE CreateOffer
  <2>1. /\ signaling # "haveLocal" /\ signaling' = "haveLocal" /\ offered' = attached
        /\ UNCHANGED <<up, down, bOffer, bOfferTracks, bAnswer, seen, attached, pendingOffer,
                       lines, stage>>
    BY <1>9, OffererStable DEF CreateOffer, Alive, netVars, browserVars
  <2>2. ~Has(up, "answer") /\ ~AtOffer /\ ~Has(down, "offer")
    BY <2>1 DEF Tokens
  <2>3. AllOffer(down, attached)
    BY <2>2, NoneCarried
  <2> QED
    BY <2>1, <2>2, <2>3 DEF AtOffer, Takes, Counts
<1>10. CASE SendOffer
  <2>1. PICK m \in Message : /\ m.type = "offer" /\ down' = Append(down, m)
                             /\ m.tracks = offered
    BY <1>10, OthersSent
  <2>2. /\ signaling = "haveLocal"
        /\ UNCHANGED <<up, bOffer, bOfferTracks, bAnswer, seen, signaling, attached, offered,
                       pendingOffer, lines, stage>>
    BY <1>10 DEF SendOffer, Turns, peerVars, sfuVars, browserVars
  <2>3. AllOffer(down', offered)
    BY <1>0, <2>1, TracksSent
  <2> QED
    BY <2>2, <2>3 DEF AtOffer, Takes
<1>11. CASE Publish
  <2>1. /\ attached' = attached + 1
        /\ UNCHANGED <<up, down, bOffer, bOfferTracks, bAnswer, seen, signaling, offered,
                       pendingOffer, lines, stage>>
    BY <1>11 DEF Publish, peerVars, netVars, browserVars
  <2> QED
    BY <2>1 DEF AtOffer, Takes, Counts
<1>12. CASE SendLocalOffer
  <2>1. UNCHANGED <<down, bOffer, bOfferTracks, bAnswer, seen, signaling, attached, offered,
                    pendingOffer, lines, stage>>
    BY <1>12 DEF SendLocalOffer, peerVars, sfuVars, goVars
  <2>2. CASE UNCHANGED up
    BY <2>1, <2>2 DEF AtOffer, Takes
  <2>3. CASE \E m \in Message : m.type = "offer" /\ up' = Append(up, m) /\ m.tracks >= seen
    <3>1. /\ Has(up', "answer") <=> Has(up, "answer")
          /\ Fresh(up, seen) => Fresh(up', seen)
      BY <1>0, <2>3, OfferSent, TracksSent
    <3> QED
      BY <2>1, <3>1 DEF AtOffer, Takes
  <2> QED
    BY <1>12, <2>2, <2>3, LocalOffer
<1>13. CASE SendIce
  <2>1. PICK m \in Message : m.type = "ice" /\ up' = Append(up, m)
    BY <1>13, OthersSent
  <2>2. UNCHANGED <<down, bOffer, bOfferTracks, bAnswer, seen, signaling, attached, offered,
                    pendingOffer, lines, stage>>
    BY <1>13 DEF SendIce, peerVars, sfuVars, goVars
  <2>3. /\ Has(up', "answer") <=> Has(up, "answer")
        /\ Fresh(up, seen) => Fresh(up', seen)
    BY <1>0, <2>1, IceSent, TracksSent
  <2> QED
    BY <2>2, <2>3 DEF AtOffer, Takes
<1>14. CASE OnAnswer
  <2>1. /\ down # <<>> /\ down' = Tail(down) /\ Head(down).type = "answer"
        /\ UNCHANGED <<up, bOffer, bOfferTracks, seen, signaling, attached, offered,
                       pendingOffer, lines, stage>>
    BY <1>14 DEF OnAnswer, OnMessage, peerVars, sfuVars, goVars
  <2>2. bSignaling = "haveLocal"
    BY <1>0, <2>1, HeadTaken DEF Offers, InAnswer
  <2>3. bAnswer' = Head(down).tracks
    BY <1>14, <2>2 DEF OnAnswer
  <2>4. /\ AllOffer(down', offered)
        /\ Carries(down, "answer", offered) =>
             Carries(down', "answer", offered) /\ Head(down).tracks >= offered
    BY <1>0, <2>1, TracksTaken
  <2> QED
    BY <2>1, <2>3, <2>4 DEF AtOffer, Takes
<1>15. CASE ApplyAnswer
  <2>1. /\ InAnswer /\ bAnswer # NoAnswer
        /\ UNCHANGED <<up, down, bOffer, bOfferTracks, signaling, attached, offered,
                       pendingOffer, lines, stage>>
    BY <1>15 DEF ApplyAnswer, InAnswer, peerVars, sfuVars, goVars
  <2>2. /\ seen' = bAnswer /\ bAnswer' = NoAnswer
        /\ ~Has(up, "answer") /\ ~Has(up, "offer") /\ bOffer \in {"idle", "rollback"}
    BY <1>15, <2>1 DEF ApplyAnswer, Offers
  <2>3. Fresh(up, seen')
    BY <2>2, NoneCarried
  <2>4. ~Kept /\ ~Answering
    BY <2>1 DEF Offers
  <2> QED
    BY <2>1, <2>2, <2>3, <2>4 DEF AtOffer, Kept, Answering, Attaching, Takes
<1>16. CASE OnOffer
  <2>1. /\ down # <<>> /\ down' = Tail(down) /\ Head(down).type = "offer"
        /\ bOffer = "idle" /\ bOfferTracks' = Head(down).tracks
        /\ bOffer' # "answer"
        /\ UNCHANGED <<up, bAnswer, seen, signaling, attached, offered, pendingOffer, lines,
                       stage>>
    BY <1>16 DEF OnOffer, OnMessage, peerVars, sfuVars, goVars
  <2>2. /\ AllOffer(down', offered) /\ Head(down).tracks = offered
        /\ Carries(down, "answer", offered) => Carries(down', "answer", offered)
    BY <1>0, <2>1, TracksTaken
  <2> QED
    BY <2>1, <2>2 DEF AtOffer, Takes
<1>17. CASE Rollback
  <2>1. /\ bOffer = "rollback" /\ bOffer' \in {"idle", "apply"}
        /\ UNCHANGED <<up, down, bOfferTracks, bAnswer, seen, signaling, attached, offered,
                       pendingOffer, lines, stage>>
    BY <1>17 DEF Rollback, peerVars, sfuVars, goVars, netVars
  <2> QED
    BY <2>1 DEF AtOffer, Takes
<1>18. CASE ApplyOffer
  <2>1. /\ bOffer = "apply" /\ bOffer' = "answer" /\ seen' = bOfferTracks
        /\ UNCHANGED <<up, down, bOfferTracks, bAnswer, signaling, attached, offered,
                       pendingOffer, lines, stage>>
    BY <1>18 DEF ApplyOffer, peerVars, sfuVars, goVars, netVars
  <2>2. seen' = offered
    BY <2>1 DEF AtOffer
  <2>3. ~Kept /\ ~Answering
    BY <2>1 DEF Offers, InAnswer
  <2> QED
    BY <2>1, <2>2, <2>3 DEF AtOffer, Kept, Answering, Attaching, Takes, Counts
<1>19. CASE AnswerOffer
  <2>1. PICK m \in Message : m.type = "answer" /\ up' = Append(up, m)
    BY <1>19, OthersSent
  <2>2. /\ bOffer = "answer" /\ bOffer' = "idle"
        /\ UNCHANGED <<down, bOfferTracks, bAnswer, seen, signaling, attached, offered,
                       pendingOffer, lines, stage>>
    BY <1>19 DEF AnswerOffer, peerVars, sfuVars, goVars
  <2>3. Fresh(up', seen)
    BY <1>0, <2>1, TracksSent
  <2> QED
    BY <2>2, <2>3 DEF AtOffer, Takes
<1>20. CASE UNCHANGED <<up, down, bOffer, bOfferTracks, bAnswer, seen, signaling, attached,
                        offered, pendingOffer, lines, stage>>
  BY <1>20 DEF AtOffer, Takes
<1>21. RenegotiateCall \/ IceRestart \/ UNCHANGED vars
       => UNCHANGED <<up, down, bOffer, bOfferTracks, bAnswer, seen, signaling, attached,
                      offered, pendingOffer, lines, stage>>
  BY DEF RenegotiateCall, IceRestart, vars, peerVars, sfuVars, goVars, netVars, browserVars
<1>22. ~RemovePeer
  BY DEF RemovePeer, Alive
<1> QED
  BY <1>1, <1>2, <1>3, <1>4, <1>5, <1>6, <1>7, <1>8, <1>9, <1>10, <1>11, <1>12, <1>13,
     <1>14, <1>15, <1>16, <1>17, <1>18, <1>19, <1>20, <1>21, <1>22
  DEF Next, Serve, Browse, Environment

-----------------------------------------------------------------------------
(* An offer of the browser is not forgotten *)

\* Every offer of the browser has the lines of its camera and microphone.
Lined == Carries(up, "offer", Lines)

LEMMA LinedStep ==
  ASSUME Counts, Places, Lined, [Next]_vars
  PROVE  Lined'
<1>0. up \in Seq(Message)
  BY DEF Places
<1> USE DEF Lined
<1>1. CASE TakeOffer \/ ReadAnswer \/ ReadIce
  <2>1. up # <<>> /\ up' = Tail(up)
    BY <1>1 DEF TakeOffer, ReadAnswer, ReadIce, ReadHead
  <2> QED
    BY <1>0, <2>1, TracksTaken
<1>2. CASE SendLocalOffer
  BY <1>0, <1>2, LocalOffer, TracksSent
<1>3. CASE AnswerOffer \/ SendIce
  <2>1. PICK m \in Message : m.type # "offer" /\ up' = Append(up, m)
    BY <1>3, OthersSent
  <2> QED
    BY <1>0, <2>1, TracksSent
<1>4. CASE UNCHANGED up
  BY <1>4
<1>5. (\E w \in Answerer : \/ SetRemoteOffer(w) \/ FlushPendingICE(w) \/ Answer(w)
                           \/ Finish(w) \/ RenegotiateAfter(w))
        \/ (\E q \in Approver : FindWaiting(q) \/ LetIn(q) \/ AttachRoom(q))
        \/ CreateOffer \/ SendOffer \/ RenegotiateCall \/ OnAnswer
        \/ ApplyAnswer \/ OnOffer \/ Rollback \/ ApplyOffer \/ Publish
        \/ RemovePeer \/ IceRestart \/ UNCHANGED vars
      => UNCHANGED up
  BY DEF SetRemoteOffer, FlushPendingICE, Answer, Finish, RenegotiateAfter, FindWaiting,
         LetIn, AttachRoom, CreateOffer, SendOffer, RenegotiateCall, OnAnswer, ApplyAnswer,
         OnOffer, Rollback, ApplyOffer, Publish, RemovePeer, IceRestart, vars, netVars
<1> QED
  BY <1>1, <1>2, <1>3, <1>4, <1>5 DEF Next, Serve, Browse, Environment

\* In addition, a participant is let in only once its offer has come.
LetInWithOffer == Lobby => When = "settled" /\ ~ApproveEarly

\* In addition, no ICE restart for a participant of the lobby: between the
\* answer of the approver and its negotiationFinished the SFU would drop the
\* restart's offer, and the browser would wait for an answer that nobody makes.
NoRestartFromLobby ==
  Lobby => When = "settled" /\ ~ApproveEarly /\ MaxRestarts = 0

\* A moderator that has found the participant waiting has seen its offer, too.
FoundWithOffer ==
  Lobby /\ waiting => \A q \in Approver : stage[q] = "found" => pendingOffer # NoOffer

\* The browser makes one offer, and the approval finds it kept.
OneOffer ==
  Lobby => /\ bOffering # "restart"
           /\ ~waiting => bOffering = "none" /\ ~Has(up, "offer")

\* An offer of the SFU is being made or is out.
Offering == creating > 0 \/ sending > 0 \/ signaling = "haveLocal"

\* A browser that waits has an offer on the way, or in answer, or an offer of
\* the SFU will make it roll its own back.
Waited == bSignaling = "haveLocal" => Has(up, "offer") \/ InAnswer \/ Offering

LEMMA FoundStep ==
  ASSUME Lobby => ~ApproveEarly, Places, FoundWithOffer, [Next]_vars
  PROVE  FoundWithOffer'
<1> USE DEF FoundWithOffer, Places, Goto
<1>r. /\ "reader" \in Answerer /\ \A q \in Approver : q \in Answerer /\ q # "reader"
  BY ConstantsAssumption DEF Answerer
<1>1. CASE TakeOffer
  <2>1. Head(up).tracks # NoOffer
    BY <1>1, Received, MessageHas DEF TakeOffer, ReadHead, NoOffer
  <2> QED
    BY <1>1, <1>r, <2>1 DEF TakeOffer
<1>2. CASE ReadAnswer
  BY <1>2, <1>r DEF ReadAnswer, peerVars
<1>3. ASSUME NEW w \in Answerer,
             \/ SetRemoteOffer(w) \/ FlushPendingICE(w) \/ Answer(w)
             \/ Finish(w) \/ RenegotiateAfter(w)
      PROVE  FoundWithOffer'
  <2>1. PICK t : t # "found" /\ Goto(w, t)
    BY <1>3 DEF SetRemoteOffer, FlushPendingICE, Answer, Finish, RenegotiateAfter
  <2>2. UNCHANGED <<waiting, pendingOffer>>
    BY <1>3 DEF SetRemoteOffer, FlushPendingICE, Answer, Finish, RenegotiateAfter, peerVars
  <2> QED
    BY <1>r, <2>1, <2>2
<1>4. ASSUME NEW q \in Approver, FindWaiting(q) \/ LetIn(q) \/ AttachRoom(q)
      PROVE  FoundWithOffer'
  <2>1. CASE FindWaiting(q)
    BY <1>r, <2>1 DEF FindWaiting, peerVars
  <2>2. CASE LetIn(q)
    BY <2>2 DEF LetIn
  <2>3. CASE AttachRoom(q)
    BY <1>r, <2>3 DEF AttachRoom
  <2> QED
    BY <1>4, <2>1, <2>2, <2>3
<1>5. CASE UNCHANGED <<waiting, pendingOffer, stage>>
  BY <1>5
<1>6. ReadIce \/ CreateOffer \/ SendOffer \/ RenegotiateCall \/ Browse \/ Publish
        \/ RemovePeer \/ IceRestart \/ SendIce \/ UNCHANGED vars
      => UNCHANGED <<waiting, pendingOffer, stage>>
  BY DEF ReadIce, CreateOffer, SendOffer, RenegotiateCall, Browse, SendLocalOffer,
         OnAnswer, ApplyAnswer, OnOffer, Rollback, ApplyOffer, AnswerOffer, Publish,
         RemovePeer, IceRestart, SendIce, vars, peerVars, goVars
<1> QED
  BY <1>1, <1>2, <1>3, <1>4, <1>5, <1>6 DEF Next, Serve, Environment

LEMMA OneOfferStep ==
  ASSUME NoRestartFromLobby, Counts, Places, Waits, FoundWithOffer, OneOffer, [Next]_vars
  PROVE  OneOffer'
<1>0. up \in Seq(Message)
  BY DEF Places
<1> USE DEF OneOffer
<1>1. CASE TakeOffer \/ ReadAnswer \/ ReadIce
  <2>1. up # <<>> /\ up' = Tail(up) /\ UNCHANGED <<waiting, bOffering>>
    BY <1>1 DEF TakeOffer, ReadAnswer, ReadIce, ReadHead, peerVars, browserVars
  <2> QED
    BY <1>0, <2>1, HeadTaken
<1>2. CASE SendLocalOffer
  BY <1>2 DEF SendLocalOffer, peerVars
<1>3. CASE AnswerOffer \/ SendIce
  <2>1. PICK m \in Message : m.type \in {"answer", "ice"} /\ up' = Append(up, m)
    BY <1>3, OthersSent
  <2>2. UNCHANGED <<waiting, bOffering>>
    BY <1>3 DEF AnswerOffer, SendIce, peerVars
  <2> QED
    BY <1>0, <2>1, <2>2, AnswerSent, IceSent
<1>4. CASE IceRestart
  BY <1>4 DEF IceRestart, NoRestartFromLobby, Counts, peerVars, netVars
<1>5. ASSUME NEW q \in Approver, LetIn(q)
      PROVE  OneOffer'
  <2>1. Lobby /\ waiting => pendingOffer # NoOffer
    BY <1>5 DEF LetIn, FoundWithOffer
  <2> QED
    BY <1>5, <2>1 DEF LetIn, Waits, Kept, netVars, browserVars
<1>6. CASE UNCHANGED <<up, waiting, bOffering>>
  BY <1>6
<1>7. (\E w \in Answerer : \/ SetRemoteOffer(w) \/ FlushPendingICE(w) \/ Answer(w)
                           \/ Finish(w) \/ RenegotiateAfter(w))
        \/ (\E q \in Approver : FindWaiting(q) \/ AttachRoom(q))
        \/ CreateOffer \/ SendOffer \/ RenegotiateCall \/ OnAnswer
        \/ ApplyAnswer \/ OnOffer \/ Rollback \/ ApplyOffer \/ Publish
        \/ RemovePeer \/ UNCHANGED vars
      => UNCHANGED <<up, waiting, bOffering>>
  BY DEF SetRemoteOffer, FlushPendingICE, Answer, Finish, RenegotiateAfter, FindWaiting,
         AttachRoom, CreateOffer, SendOffer, RenegotiateCall, OnAnswer, ApplyAnswer,
         OnOffer, Rollback, ApplyOffer, Publish, RemovePeer, vars, netVars, peerVars,
         browserVars
<1> QED
  BY <1>1, <1>2, <1>3, <1>4, <1>5, <1>6, <1>7 DEF Next, Serve, Browse, Environment

LEMMA WaitedStep ==
  ASSUME Flags, Counts, Places, Alive, Alive', Turns, Tokens, Waits, Offers, Lined,
         OneOffer, Waited, [Next]_vars
  PROVE  Waited'
<1>0. up \in Seq(Message) /\ down \in Seq(Message)
  BY DEF Places
<1> USE DEF Waited
<1>1. CASE TakeOffer
  <2>1. /\ ReadHead("offer") /\ up # <<>> /\ up' = Tail(up) /\ Head(up).type = "offer"
        /\ UNCHANGED <<down, bAnswer, bSignaling, creating, sending, signaling>>
    BY <1>1 DEF TakeOffer, ReadHead, sfuVars, goVars, browserVars
  \* Kept.
  <2>2. CASE waiting
    <3>1. Head(up).tracks \in Nat
      BY <1>0, <2>1, Received, MessageHas
    <3>2. pendingOffer' # NoOffer
      BY <1>1, <2>2, <3>1 DEF TakeOffer, NoOffer
    <3> QED
      BY <3>2 DEF InAnswer, Kept
  \* Dropped for an offer of the SFU; it cannot be for another of the browser's.
  <2>3. CASE ~waiting /\ DropsOffer
    <3>1. Has(up, "offer")
      BY <1>0, <2>1, HeadTaken
    <3>2. \A w \in Answerer : stage[w] = "idle"
      BY <2>1, <2>3, <3>1 DEF OneOffer, ReadHead, Waits, Answerer
    <3>3. Own = 1
      BY <2>3, <3>2 DEF DropsOffer, Alive, Turns, Busy
    <3>4. Offering
      BY <3>3 DEF Own, Counts, Offering
    <3> QED
      BY <2>1, <3>4 DEF Offering
  \* Taken.
  <2>4. CASE ~waiting /\ ~DropsOffer
    BY <1>1, <2>4 DEF TakeOffer, InAnswer, Answering, Goto, Places, Answerer
  <2> QED
    BY <2>2, <2>3, <2>4
\* The SFU's offer has been answered: the browser has made one of its own since,
\* or waits for nothing.
<1>2. CASE ReadAnswer
  <2>1. /\ up # <<>> /\ up' = Tail(up) /\ Head(up).type = "answer"
        /\ UNCHANGED <<bSignaling>>
    BY <1>2 DEF ReadAnswer, ReadHead, browserVars
  <2> QED
    BY <1>0, <2>1, HeadSays DEF Offers
<1>3. CASE ReadIce
  <2>1. /\ up # <<>> /\ up' = Tail(up) /\ Head(up).type = "ice"
        /\ UNCHANGED <<down, bAnswer, bSignaling, creating, sending, signaling,
                       pendingOffer, stage, lines>>
    BY <1>3 DEF ReadIce, ReadHead, sfuVars, goVars, browserVars
  <2>2. Has(up, "offer") => Has(up', "offer")
    BY <1>0, <2>1, HeadTaken
  <2> QED
    BY <2>1, <2>2 DEF InAnswer, Kept, Attaching, Takes, Answering, Offering
<1>4. ASSUME NEW w \in Answerer, SetRemoteOffer(w) \/ FlushPendingICE(w) \/ Finish(w)
                                   \/ RenegotiateAfter(w)
      PROVE  Waited'
  <2>1. UNCHANGED <<up, down, bAnswer, bSignaling, sending, pendingOffer, lines>>
    BY <1>4 DEF SetRemoteOffer, FlushPendingICE, Finish, RenegotiateAfter, netVars,
                browserVars, goVars, peerVars
  <2>2. Answering => Answering'
    <3>1. CASE SetRemoteOffer(w)
      <4>1. Busy(w) /\ Own = 0
        BY <3>1 DEF SetRemoteOffer, Turns, Busy
      <4>2. signaling # "haveLocal"
        BY <4>1 DEF Own, Counts
      <4>3. signaling # "haveRemote"
        BY <3>1, <4>1 DEF SetRemoteOffer, Turns, Busy
      <4>4. Goto(w, "flush")
        BY <3>1, <4>2, <4>3 DEF SetRemoteOffer, Alive, Places, Signaling
      <4> QED
        BY <4>4 DEF Answering, Goto, Places
    <3>2. CASE FlushPendingICE(w)
      BY <3>2 DEF FlushPendingICE, Answering, Goto, Places
    <3>3. CASE Finish(w) \/ RenegotiateAfter(w)
      BY <3>3 DEF Finish, RenegotiateAfter, Answering, Goto, Places
    <3> QED
      BY <1>4, <3>1, <3>2, <3>3
  <2>3. Kept => Kept'
    BY <1>4, ExchangeMoves
  <2>4. Offering => Offering'
    BY <1>4 DEF SetRemoteOffer, FlushPendingICE, Finish, RenegotiateAfter, Renegotiate,
                Offering, Counts, sfuVars, goVars
  <2> QED
    BY <2>1, <2>2, <2>3, <2>4 DEF InAnswer
<1>5. ASSUME NEW w \in Answerer, Answer(w)
      PROVE  Waited'
  <2>1. signaling = "haveRemote"
    BY <1>5 DEF Answer, Turns
  <2>2. PICK m \in Message : m.type = "answer" /\ down' = Append(down, m)
    BY <1>5, <2>1, Answered
  <2> QED
    BY <1>0, <2>2, AnswerSent DEF InAnswer
<1>6. ASSUME NEW q \in Approver, AttachRoom(q)
      PROVE  Waited'
  <2>1. UNCHANGED <<up, down, bAnswer, bSignaling, creating, sending, signaling>>
    BY <1>6 DEF AttachRoom, netVars, browserVars
  <2>2. Kept \/ Answering => Kept' \/ Answering'
    BY <1>6, OfferKept DEF Kept
  <2> QED
    BY <2>1, <2>2 DEF InAnswer, Offering
<1>7. ASSUME NEW q \in Approver, FindWaiting(q) \/ LetIn(q)
      PROVE  Waited'
  <2>1. UNCHANGED <<up, down, bAnswer, bSignaling, creating, sending, signaling>>
    BY <1>7 DEF FindWaiting, LetIn, sfuVars, netVars, browserVars
  <2>2. UNCHANGED <<Kept, Answering>>
    BY <1>7, OfferPassedOn
  <2> QED
    BY <2>1, <2>2 DEF InAnswer, Offering
<1>8. CASE CreateOffer
  <2>1. signaling' = "haveLocal"
    BY <1>8, OffererStable DEF CreateOffer, Alive
  <2> QED
    BY <2>1 DEF Offering
<1>9. CASE SendOffer
  <2>1. signaling' = "haveLocal"
    BY <1>9 DEF SendOffer, Turns, sfuVars
  <2> QED
    BY <2>1 DEF Offering
<1>10. CASE RenegotiateCall
  <2>1. /\ UNCHANGED <<up, down, bAnswer, bSignaling, sending, signaling, pendingOffer, stage,
                       lines>>
        /\ creating > 0 => creating' > 0
    BY <1>10 DEF RenegotiateCall, Renegotiate, Counts, sfuVars, netVars, browserVars
  <2> QED
    BY <2>1 DEF InAnswer, Kept, Attaching, Takes, Answering, Offering
<1>11. CASE SendLocalOffer
  <2>1. UNCHANGED <<down, bAnswer, creating, sending, signaling, pendingOffer, stage, lines>>
    BY <1>11 DEF SendLocalOffer, peerVars, sfuVars, goVars
  <2>2. CASE UNCHANGED <<bSignaling, up>>
    BY <2>1, <2>2 DEF InAnswer, Kept, Attaching, Takes, Answering, Offering
  <2>3. CASE \E m \in Message : m.type = "offer" /\ up' = Append(up, m)
    BY <1>0, <2>3, OfferSent
  <2> QED
    BY <1>11, <2>2, <2>3, LocalOffer
<1>12. CASE SendIce
  <2>1. PICK m \in Message : m.type = "ice" /\ up' = Append(up, m)
    BY <1>12, OthersSent
  <2>2. UNCHANGED <<down, bAnswer, bSignaling, creating, sending, signaling, pendingOffer,
                    stage, lines>>
    BY <1>12 DEF SendIce, peerVars, sfuVars, goVars
  <2>3. Has(up, "offer") => Has(up', "offer")
    BY <1>0, <2>1, IceSent
  <2> QED
    BY <2>2, <2>3 DEF InAnswer, Kept, Attaching, Takes, Answering, Offering
<1>13. CASE OnAnswer
  <2>1. bSignaling = "haveLocal"
    BY <1>0, <1>13, HeadTaken DEF OnAnswer, OnMessage, Offers, InAnswer
  <2>2. bAnswer' # NoAnswer
    BY <1>0, <1>13, <2>1, Received, MessageHas DEF OnAnswer, OnMessage, NoAnswer
  <2> QED
    BY <2>2 DEF InAnswer
<1>14. CASE ApplyAnswer
  <2>1. bSignaling' # "haveLocal"
    BY <1>14 DEF ApplyAnswer
  <2> QED
    BY <2>1
<1>15. CASE OnOffer
  <2>1. /\ down # <<>> /\ down' = Tail(down) /\ Head(down).type = "offer"
        /\ UNCHANGED <<up, bAnswer, bSignaling, creating, sending, signaling, pendingOffer,
                       stage, lines>>
    BY <1>15 DEF OnOffer, OnMessage, peerVars, sfuVars, goVars
  <2>2. Has(down, "answer") => Has(down', "answer")
    BY <1>0, <2>1, HeadTaken
  <2> QED
    BY <2>1, <2>2 DEF InAnswer, Kept, Attaching, Takes, Answering, Offering
<1>16. CASE Rollback \/ ApplyOffer \/ AnswerOffer
  <2>1. bSignaling' # "haveLocal"
    BY <1>16 DEF Rollback, ApplyOffer, AnswerOffer
  <2> QED
    BY <2>1
<1>17. CASE Publish \/ IceRestart \/ UNCHANGED vars
  <2>1. UNCHANGED <<up, down, bAnswer, bSignaling, creating, sending, signaling, pendingOffer,
                    stage, lines>>
    BY <1>17 DEF Publish, IceRestart, vars, peerVars, sfuVars, goVars, netVars, browserVars
  <2> QED
    BY <2>1 DEF InAnswer, Kept, Attaching, Takes, Answering, Offering
<1>18. ~RemovePeer
  BY DEF RemovePeer, Alive
<1> QED
  BY <1>1, <1>2, <1>3, <1>4, <1>5, <1>6, <1>7, <1>8, <1>9, <1>10, <1>11, <1>12, <1>13,
     <1>14, <1>15, <1>16, <1>17, <1>18 DEF Next, Serve, Browse, Environment

LEMMA AlwaysKnows ==
  InOrder => (Spec => [](Alive => Turns /\ Tokens /\ Waits /\ Offers /\ Knows))
<1> SUFFICES ASSUME InOrder
             PROVE  Spec => [](Alive => Turns /\ Tokens /\ Waits /\ Offers /\ Knows)
  OBVIOUS
<1> DEFINE Inv == Alive => Offers /\ Knows
<1>1. Init => Inv
  BY InitOffers, InitKnows
<1>2. TypeOK /\ Ordered /\ Inv /\ [Next]_vars => Inv'
  BY TypeParts, OffersStep, KnowsStep, LostStays DEF Ordered
<1>3. Ordered /\ Inv => (Alive => Turns /\ Tokens /\ Waits /\ Offers /\ Knows)
  BY DEF Ordered
<1> HIDE DEF Inv
<1> QED
  BY <1>1, <1>2, <1>3, TypeCorrect, AlwaysOrdered, PTL DEF Spec

\* When nothing is in flight the browser and the SFU agree: both are stable, and
\* the browser knows every track that it was ever offered.  A restart while the
\* approver finishes is the exception that the hypothesis excludes.
THEOREM QuietMeansInStep == NoRestartFromLobby => (Spec => []QuietInStep)
<1> SUFFICES ASSUME NoRestartFromLobby
             PROVE  Spec => []QuietInStep
  OBVIOUS
<1>1. InOrder
  BY DEF InOrder, NoRestartFromLobby
<1> DEFINE All == Turns /\ Tokens /\ Waits /\ Offers /\ Knows
           Inv == Alive => All
           Rest == FoundWithOffer /\ (Alive => Lined /\ OneOffer /\ Waited)
<1>2. Spec => []Inv
  BY <1>1, AlwaysKnows
<1>3. Init => Rest
  BY ConstantsAssumption DEF Init, Lined, Carries, OneOffer, FoundWithOffer, Answerer,
                             Waited
<1>4. TypeOK /\ Inv /\ Rest /\ [Next]_vars => Rest'
  <2> SUFFICES ASSUME Flags, Counts, Places, Inv, Rest, [Next]_vars
               PROVE  Rest'
    BY TypeParts
  <2>1. FoundWithOffer'
    BY FoundStep DEF NoRestartFromLobby
  <2>2. ASSUME Alive' PROVE (Lined /\ OneOffer /\ Waited)'
    BY <2>2, LinedStep, OneOfferStep, WaitedStep, LostStays
  <2> QED
    BY <2>1, <2>2
<1>5. TypeOK /\ Inv /\ Rest => QuietInStep
  <2> SUFFICES ASSUME Flags, Counts, Places, All, Waited, Quiet
               PROVE  signaling = "stable" /\ bSignaling = "stable" /\ seen >= offered
    BY TypeParts DEF QuietInStep, Quiet, Alive
  <2>1. Own = 0
    BY DEF Quiet, Turns, Own, Counts
  <2>2. ~Offering /\ signaling = "stable"
    <3>1. ~Offering
      BY <2>1 DEF Own, Counts, Offering
    <3>2. signaling # "haveRemote"
      BY DEF Quiet, Turns
    <3> QED
      BY <3>1, <3>2 DEF Offering, Places, Signaling
  <2>3. ~Has(up, "offer") /\ ~InAnswer
    <3>1. ~Has(up, "offer") /\ ~Has(down, "answer") /\ bAnswer = NoAnswer
      BY DEF Quiet, Has
    <3>2. ~Answering /\ ~Attaching
      BY DEF Quiet, Answering, Attaching, Takes, Answerer
    <3> QED
      BY <3>1, <3>2 DEF Quiet, Waits, Kept, InAnswer
  <2>4. bSignaling = "stable"
    BY <2>2, <2>3 DEF Quiet, Waited, Offers, Places, Signaling
  <2> QED
    BY <2>2, <2>4 DEF Knows
<1> HIDE DEF Rest, Inv
<1> QED
  BY <1>2, <1>3, <1>4, <1>5, TypeCorrect, PTL DEF Spec

-----------------------------------------------------------------------------
(* The tracks of the room when the participant comes *)

\* The room's tracks are attached unless the participant is still in the lobby
\* or an approver is at it; then every offer and answer carries them, and the
\* browser knows them once an exchange has completed.
Included ==
  /\ settled => seen >= Initial
  /\ Carries(down, "answer", Initial)
  /\ bAnswer # NoAnswer => bAnswer >= Initial
  /\ sending > 0 \/ signaling = "haveLocal" => offered >= Initial
  /\ \A w \in Answerer : stage[w] \in {"setRemote", "flush", "answer"} => lines[w] >= Lines
  /\ pendingOffer # NoOffer => pendingOffer >= Lines
  /\ \A q \in Approver : Takes(q) => lines[q] >= Lines
  /\ (Lobby /\ Undecided) \/ attached >= Initial

LEMMA InitIncluded == Init => Included
BY ConstantsAssumption
DEF Init, Included, Carries, Answerer, Takes, Undecided, NoAnswer, NoOffer

\* Whoever makes an offer or an answer finds them attached.
LEMMA Attached ==
  ASSUME Counts, Turns, Waits, Included, creating > 0 \/ Answering
  PROVE  attached >= Initial
<1>1. Answering => negotiating
  BY DEF Turns, Busy, Answering
<1>2. creating > 0 /\ Own <= 1 => Own = 1
  BY DEF Own, Counts
<1>3. ~(Lobby /\ Undecided)
  BY <1>1, <1>2 DEF Turns, Waits
<1> QED
  BY <1>3 DEF Included

LEMMA IncludedStep ==
  ASSUME Initial <= Lines, InOrder, Flags, Counts, Places, Alive, Alive', Turns, Tokens,
         Waits, FoundWithOffer, Offers, Knows, Lined, Included, [Next]_vars
  PROVE  Included'
<1>0. up \in Seq(Message) /\ down \in Seq(Message)
  BY DEF Places
<1> USE DEF Included
<1>r. /\ "reader" \in Answerer /\ \A q \in Approver : q \in Answerer /\ q # "reader"
  BY ConstantsAssumption DEF Answerer
\* Where nobody touches the lobby or the approvals.
<1>a. ASSUME UNCHANGED waiting, UNCHANGED stage, UNCHANGED lines
      PROVE  UNCHANGED Undecided /\ \A q \in Approver : Takes(q)' <=> Takes(q)
  BY <1>a DEF Undecided, Attaching, Takes
<1>1. CASE TakeOffer
  <2>1. /\ up # <<>> /\ Head(up).type = "offer"
        /\ UNCHANGED <<waiting, down, bAnswer, seen, settled, sending, signaling, attached,
                       offered>>
    BY <1>1 DEF TakeOffer, ReadHead, sfuVars, goVars, browserVars
  <2>2. Head(up).tracks >= Lines
    BY <1>0, <2>1, TracksTaken DEF Lined
  <2>3. CASE waiting
    BY <1>1, <1>a, <2>1, <2>2, <2>3 DEF TakeOffer
  <2>4. CASE ~waiting /\ DropsOffer
    BY <1>1, <1>a, <2>1, <2>4 DEF TakeOffer, DropsOffer
  <2>5. CASE ~waiting /\ ~DropsOffer
    <3>1. UNCHANGED pendingOffer /\ stage' = [stage EXCEPT !["reader"] = "setRemote"]
          /\ lines' = [lines EXCEPT !["reader"] = Head(up).tracks]
      BY <1>1, <2>5 DEF TakeOffer, Goto
    <3>2. \A w \in Answerer : stage'[w] \in {"setRemote", "flush", "answer"} =>
                                lines'[w] >= Lines
      BY <2>2, <3>1 DEF Places
    <3>3. \A q \in Approver : /\ Takes(q)' <=> Takes(q)
                              /\ lines'[q] = lines[q]
      BY <1>r, <3>1 DEF Takes, Places
    <3>4. UNCHANGED Undecided
      BY <2>1, <3>3, Zenon DEF Undecided, Attaching
    <3> QED
      BY <2>1, <3>1, <3>2, <3>3, <3>4
  <2> QED
    BY <2>3, <2>4, <2>5
<1>2. CASE ReadAnswer
  <2>1. /\ UNCHANGED <<waiting, down, bAnswer, seen, settled, sending, attached, offered,
                       pendingOffer, lines>>
        /\ signaling' = "haveLocal" => signaling = "haveLocal"
    BY <1>2 DEF ReadAnswer, peerVars, browserVars, goVars
  <2>2. /\ \A q \in Approver : Takes(q)' <=> Takes(q)
        /\ \A w \in Answerer : stage'[w] \in {"setRemote", "flush", "answer"} =>
                                 stage[w] \in {"setRemote", "flush", "answer"}
    BY <1>2, <1>r, <2>1 DEF ReadAnswer, Goto, Takes, Places
  <2>3. UNCHANGED Undecided
    BY <2>1, <2>2, Zenon DEF Undecided, Attaching
  <2> QED
    BY <2>1, <2>2, <2>3
<1>3. ASSUME NEW w \in Answerer,
             SetRemoteOffer(w) \/ FlushPendingICE(w) \/ Finish(w) \/ RenegotiateAfter(w)
      PROVE  Included'
  <2>1. /\ UNCHANGED <<waiting, down, bAnswer, seen, settled, sending, attached, offered,
                       pendingOffer, lines>>
        /\ signaling' = "haveLocal" => signaling = "haveLocal"
    BY <1>3 DEF SetRemoteOffer, FlushPendingICE, Finish, RenegotiateAfter, peerVars, sfuVars,
                netVars, browserVars
  <2>2. /\ UNCHANGED Attaching
        /\ \A v \in Answerer : stage'[v] \in {"setRemote", "flush", "answer"} =>
                                 stage[v] \in {"setRemote", "flush", "answer"}
    BY <1>3, ExchangeMoves
  <2>3. \A q \in Approver : Takes(q)' => Takes(q)
    BY <1>3, <1>r, <2>1 DEF SetRemoteOffer, FlushPendingICE, Finish, RenegotiateAfter,
                            Goto, Takes, Places
  <2> QED
    BY <2>1, <2>2, <2>3 DEF Undecided
<1>4. ASSUME NEW w \in Answerer, Answer(w)
      PROVE  Included'
  <2>1. /\ stage[w] = "answer" /\ signaling = "haveRemote" /\ Answering
        /\ signaling' # "haveLocal"
        /\ UNCHANGED <<waiting, bAnswer, seen, settled, sending, attached, offered,
                       pendingOffer, lines>>
    BY <1>4 DEF Answer, Turns, Answering, peerVars, browserVars
  <2>2. PICK m \in Message : /\ m.type = "answer" /\ down' = Append(down, m)
                             /\ m.tracks = AtMost(attached, lines[w])
    BY <1>4, <2>1, Answered
  <2>3. attached >= Initial /\ lines[w] >= Lines
    BY <2>1, Attached
  <2>4. m.tracks >= Initial
    <3>1. lines[w] \in Nat
      BY <2>1 DEF Places
    <3> QED
      BY <2>2, <2>3, <3>1, ConstantsAssumption DEF AtMost, Counts
  <2>5. Carries(down', "answer", Initial)
    BY <1>0, <2>2, <2>4, TracksSent
  <2>6. /\ UNCHANGED Attaching
        /\ \A v \in Answerer : stage'[v] \in {"setRemote", "flush", "answer"} =>
                                 stage[v] \in {"setRemote", "flush", "answer"}
    BY <1>4, ExchangeMoves
  <2>7. \A q \in Approver : Takes(q)' => Takes(q)
    BY <1>4, <1>r, <2>1 DEF Answer, Goto, Takes, Places
  <2> QED
    BY <2>1, <2>5, <2>6, <2>7 DEF Undecided
<1>5. ASSUME NEW q \in Approver, AttachRoom(q)
      PROVE  Included'
  <2>1. /\ attached' = attached + Initial
        /\ UNCHANGED <<down, bAnswer, seen, settled, sending, signaling, offered,
                       pendingOffer, lines>>
    BY <1>5 DEF AttachRoom, netVars, browserVars
  <2>2. \A w \in Answerer : stage'[w] \in {"setRemote", "flush", "answer"} =>
                               lines[w] >= Lines
    BY <1>5, OfferKept DEF AttachRoom, Takes
  <2>3. \A r \in Approver : Takes(r)' => Takes(r)
    BY <1>5, <1>r DEF AttachRoom, Goto, Takes, Places
  <2>4. attached' >= Initial
    BY <2>1, ConstantsAssumption DEF Counts
  <2> QED
    BY <2>1, <2>2, <2>3, <2>4
<1>6. ASSUME NEW q \in Approver, FindWaiting(q) \/ LetIn(q)
      PROVE  Included'
  <2>1. UNCHANGED <<down, bAnswer, seen, settled, sending, signaling, attached, offered>>
    BY <1>6 DEF FindWaiting, LetIn, sfuVars, goVars, netVars, browserVars
  <2>2. /\ pendingOffer' # NoOffer => pendingOffer' >= Lines
        /\ \A r \in Approver : Takes(r)' => lines'[r] >= Lines
        /\ \A w \in Answerer : stage'[w] \in {"setRemote", "flush", "answer"} =>
                                 lines'[w] >= Lines
    BY <1>6, OfferPassedOn
  <2>3. Lobby /\ Undecided => Undecided'
    <3>1. CASE FindWaiting(q)
      BY <3>1 DEF FindWaiting, peerVars, Undecided
    <3>2. CASE LetIn(q)
      <4>1. Lobby /\ Undecided => Kept
        BY <3>2 DEF LetIn, FoundWithOffer, Undecided, Kept
      <4>2. Kept' => Undecided'
        BY <3>2 DEF LetIn, Kept, Undecided
      <4> QED
        BY <1>6, <4>1, <4>2, OfferPassedOn
    <3> QED
      BY <1>6, <3>1, <3>2
  <2> QED
    BY <2>1, <2>2, <2>3
<1>7. CASE CreateOffer
  <2>1. attached >= Initial
    BY <1>7, Attached DEF CreateOffer
  <2>2. /\ offered' = attached
        /\ UNCHANGED <<waiting, down, bAnswer, seen, settled, attached, pendingOffer, stage,
                       lines>>
    BY <1>7, OffererStable DEF CreateOffer, Alive, netVars, browserVars
  <2> QED
    BY <1>a, <2>1, <2>2
<1>8. CASE SendOffer
  <2>1. PICK m \in Message : m.type = "offer" /\ down' = Append(down, m)
    BY <1>8, OthersSent
  <2>2. /\ sending > 0
        /\ UNCHANGED <<waiting, bAnswer, seen, settled, signaling, attached, offered,
                       pendingOffer, stage, lines>>
    BY <1>8 DEF SendOffer, peerVars, sfuVars, browserVars
  <2>3. Carries(down', "answer", Initial)
    BY <1>0, <2>1, TracksSent
  <2> QED
    BY <1>a, <2>2, <2>3
<1>9. CASE Publish
  <2>1. /\ attached' = attached + 1
        /\ UNCHANGED <<waiting, down, bAnswer, seen, settled, sending, signaling, offered,
                       pendingOffer, stage, lines>>
    BY <1>9 DEF Publish, peerVars, netVars, browserVars
  <2> QED
    BY <1>a, <2>1, ConstantsAssumption DEF Counts
<1>10. CASE OnAnswer
  <2>1. /\ down # <<>> /\ down' = Tail(down) /\ Head(down).type = "answer"
        /\ bAnswer' = bAnswer \/ bAnswer' = Head(down).tracks
        /\ UNCHANGED <<waiting, seen, settled, sending, signaling, attached, offered,
                       pendingOffer, stage, lines>>
    BY <1>10 DEF OnAnswer, OnMessage, peerVars, sfuVars, goVars
  <2>2. Carries(down', "answer", Initial) /\ Head(down).tracks >= Initial
    BY <1>0, <2>1, TracksTaken
  <2> QED
    BY <1>a, <2>1, <2>2
<1>11. CASE ApplyAnswer
  <2>1. /\ bAnswer # NoAnswer /\ bAnswer' = NoAnswer
        /\ UNCHANGED <<waiting, down, sending, signaling, attached, offered, pendingOffer,
                       stage, lines>>
        /\ \/ seen' = bAnswer
           \/ UNCHANGED <<seen, settled>>
    BY <1>11 DEF ApplyAnswer, peerVars, sfuVars, goVars
  <2> QED
    BY <1>a, <2>1
<1>12. CASE OnOffer
  <2>1. /\ down # <<>> /\ down' = Tail(down)
        /\ UNCHANGED <<waiting, bAnswer, seen, settled, sending, signaling, attached, offered,
                       pendingOffer, stage, lines>>
    BY <1>12 DEF OnOffer, OnMessage, peerVars, sfuVars, goVars
  <2>2. Carries(down', "answer", Initial)
    BY <1>0, <2>1, TracksTaken
  <2> QED
    BY <1>a, <2>1, <2>2
<1>13. CASE ApplyOffer
  <2>1. /\ bOffer = "apply" /\ seen' = bOfferTracks
        /\ UNCHANGED <<waiting, down, bAnswer, settled, sending, signaling, attached, offered,
                       pendingOffer, stage, lines>>
    BY <1>13 DEF ApplyOffer, peerVars, sfuVars, goVars, netVars
  <2>2. seen' >= Initial
    BY <2>1 DEF Tokens, AtOffer, Knows
  <2> QED
    BY <1>a, <2>1, <2>2
<1>14. CASE AnswerOffer
  <2>1. /\ bOffer = "answer"
        /\ UNCHANGED <<waiting, down, bAnswer, seen, sending, signaling, attached, offered,
                       pendingOffer, stage, lines>>
    BY <1>14 DEF AnswerOffer, peerVars, sfuVars, goVars
  <2>2. seen >= Initial
    BY <2>1, ConstantsAssumption DEF Tokens, AtOffer, Knows, Counts
  <2> QED
    BY <1>a, <2>1, <2>2
<1>15. CASE UNCHANGED <<waiting, down, bAnswer, seen, settled, sending, signaling, attached,
                        offered, pendingOffer, stage, lines>>
  BY <1>a, <1>15
<1>16. ReadIce \/ RenegotiateCall \/ SendLocalOffer \/ IceRestart \/ SendIce \/ Rollback
         \/ UNCHANGED vars
       => UNCHANGED <<waiting, down, bAnswer, seen, settled, sending, signaling, attached,
                      offered, pendingOffer, stage, lines>>
  BY DEF ReadIce, RenegotiateCall, SendLocalOffer, IceRestart, SendIce, Rollback, vars,
         peerVars, sfuVars, goVars, netVars, browserVars
<1>17. ~RemovePeer
  BY DEF RemovePeer, Alive
<1> QED
  BY <1>1, <1>2, <1>3, <1>4, <1>5, <1>6, <1>7, <1>8, <1>9, <1>10, <1>11, <1>12, <1>13,
     <1>14, <1>15, <1>16, <1>17 DEF Next, Serve, Browse, Environment

\* A participant whose offer has lines for the tracks of the room knows them all
\* when nothing is in flight, whether it came in directly or from the lobby.
THEOREM RoomIncluded == LetInWithOffer => (Spec => []ExistingTracksIncluded)
<1> SUFFICES ASSUME LetInWithOffer
             PROVE  Spec => []ExistingTracksIncluded
  OBVIOUS
<1> DEFINE All == Alive => Turns /\ Tokens /\ Waits /\ Offers /\ Knows
           Rest == FoundWithOffer /\ (Alive => Lined /\ Included)
<1>1. InOrder
  BY DEF InOrder, LetInWithOffer
<1>2. CASE Initial <= Lines
  <2>1. Spec => []All
    BY <1>1, AlwaysKnows
  <2>2. Init => Rest
    BY InitIncluded, ConstantsAssumption
    DEF Init, Lined, Carries, FoundWithOffer, Answerer
  <2>3. TypeOK /\ All /\ Rest /\ [Next]_vars => Rest'
    <3> SUFFICES ASSUME Flags, Counts, Places, All, Rest, [Next]_vars
                 PROVE  Rest'
      BY TypeParts
    <3>1. FoundWithOffer'
      BY FoundStep DEF LetInWithOffer
    <3>2. ASSUME Alive' PROVE (Lined /\ Included)'
      BY <1>1, <1>2, <3>2, LinedStep, IncludedStep, LostStays
    <3> QED
      BY <3>1, <3>2
  <2>4. Rest => ExistingTracksIncluded
    BY DEF ExistingTracksIncluded, Quiet, Included, Alive
  <2> HIDE DEF Rest, All
  <2> QED
    BY <2>1, <2>2, <2>3, <2>4, TypeCorrect, PTL DEF Spec
<1>3. CASE ~(Initial <= Lines)
  <2>1. ExistingTracksIncluded
    BY <1>3 DEF ExistingTracksIncluded
  <2> QED
    BY <2>1, PTL
<1> QED
  BY <1>2, <1>3
=============================================================================
