--------------------------- MODULE AccountsProofs ---------------------------
(***************************************************************************)
(* Proofs about Accounts: its type correctness, that whoever holds a       *)
(* session gave the password the account has, that a window lets no more   *)
(* than twice the limit pass, and that the page shows the session's user.  *)
(***************************************************************************)
EXTENDS Accounts, FiniteSetTheorems, TLAPS

At == {"sent", "admitted", "legacy", "checked", "created", "answered",
       "failed", "arrived"}

\* A request to get in names somebody; once its password is verified, or its
\* row is there, the account has that password.
Asked ==
  \A r \in Slot :
    req[r] # None /\ req[r].kind \in {"login", "register"} =>
      /\ req[r].name \in Name /\ req[r].pw \in Password
      /\ req[r].at \in {"legacy", "checked", "created"} =>
           /\ users[req[r].name] \in Row
           /\ users[req[r].name].pw = req[r].pw

\* The session of a request is not there before the request is answered.
Unissued ==
  \A s \in sessions :
    s.id # 0 => /\ s.id <= sent
                /\ req[s.id] # None => req[s.id].at \in {"answered", "failed", "arrived"}

\* A request is one of those made.
Made == \A r \in Slot : req[r] # None => r <= sent

AccountInv == TypeOK /\ Asked /\ Unissued /\ Made /\ SessionsEarned

\* A request stays one when it gets further, and when it gets an answer.
LEMMA Further ==
  ASSUME NEW q \in Request, NEW at \in At
  PROVE  [q EXCEPT !.at = at] \in Request
BY DEF Request, At

LEMMA Granted ==
  ASSUME NEW q \in Request, NEW at \in At, NEW sid \in Session \cup {None},
         NEW user \in Name \cup {None}
  PROVE  /\ [q EXCEPT !.at = at, !.sid = sid, !.user = user] \in Request
         /\ [q EXCEPT !.at = at, !.sid = sid] \in Request
         /\ [q EXCEPT !.at = at, !.user = user] \in Request
<1>1. \A p \in Request : [p EXCEPT !.sid = sid] \in Request
  BY DEF Request
<1>2. \A p \in Request : [p EXCEPT !.user = user] \in Request
  BY DEF Request
<1>3. [q EXCEPT !.at = at] \in Request
  BY Further
<1>4. [[q EXCEPT !.at = at] EXCEPT !.sid = sid] \in Request
  BY <1>1, <1>3
<1> QED
  BY <1>2, <1>3, <1>4

\* A new request is one.
LEMMA AskingTyped ==
  ASSUME NEW kind \in {"me", "login", "register", "logout"},
         NEW name \in Name \cup {None}, NEW pw \in Password \cup {None},
         jar \in Session \cup {None}
  PROVE  Asking(kind, name, pw) \in Request
BY DEF Asking, Request

LEMMA InitInv == Init => AccountInv
<1> SUFFICES ASSUME Init PROVE AccountInv
  OBVIOUS
<1> USE ConstantsAssumption
<1>1. /\ 1 \in Slot /\ 0 \in Session
      /\ jar \in Session \cup {None}
  BY DEF Init, Slot, Session
<1>2. Asking("me", None, None) \in Request
  BY <1>1, AskingTyped
<1>3. req \in [Slot -> Request \cup {None}]
  BY <1>2 DEF Init
<1>4. users \in [Name -> Row \cup {None}]
  BY DEF Init, Row
<1>5. /\ sessions \subseteq SessionRow
      /\ \A s, t \in sessions : s.id = t.id => s = t
      /\ \A s \in sessions : s.id = 0
  <2>1. CASE sessions = {}
    BY <2>1
  <2>2. CASE sessions # {}
    <3>1. PICK n \in Name :
            /\ users[n] # None
            /\ sessions = {[id |-> 0, user |-> n, until |-> Ttl, pw |-> users[n].pw]}
      BY <2>2 DEF Init
    <3>2. users[n] \in Row
      BY <3>1, <1>4
    <3> QED
      BY <3>1, <3>2, <1>1 DEF SessionRow, Row
  <2> QED
    BY <2>1, <2>2
<1>6. SessionsEarned
  <2> SUFFICES ASSUME NEW s \in sessions
               PROVE  users[s.user] \in Row /\ users[s.user].pw = s.pw
    BY DEF SessionsEarned
  <2>1. PICK n \in Name :
          /\ users[n] # None
          /\ sessions = {[id |-> 0, user |-> n, until |-> Ttl, pw |-> users[n].pw]}
    BY DEF Init
  <2> QED
    BY <2>1, <1>4
<1>7. TypeOK
  <2>1. /\ now \in 0 .. MaxTime
        /\ admits \subseteq [at : 0 .. MaxTime, nr : Nat] /\ IsFiniteSet(admits)
    BY FS_EmptySet DEF Init
  <2>2. rate = None /\ shown = None /\ astray = FALSE /\ sent = 1
    BY DEF Init
  <2> QED
    BY <2>1, <2>2, <1>1, <1>3, <1>4, <1>5 DEF TypeOK
<1>8. Asked
  BY DEF Init, Asked, Asking
<1>9. Unissued
  BY <1>5 DEF Unissued
<1>10. Made
  BY DEF Init, Made
<1> QED
  BY <1>6, <1>7, <1>8, <1>9, <1>10 DEF AccountInv

-----------------------------------------------------------------------------
(* The steps *)

\* A request that passes is counted within the limit.
LEMMA CountedTyped ==
  ASSUME TypeOK, Passes, Counted
  PROVE  /\ rate' \in [count : 1 .. Limit, resetAt : Int] \cup {None}
         /\ admits' \subseteq [at : 0 .. MaxTime, nr : Nat] /\ IsFiniteSet(admits')
<1> USE ConstantsAssumption
<1>1. /\ now \in 0 .. MaxTime /\ admits \subseteq [at : 0 .. MaxTime, nr : Nat] /\ IsFiniteSet(admits)
      /\ rate \in [count : 1 .. Limit, resetAt : Int] \cup {None}
  BY DEF TypeOK
<1>2. admits' \subseteq [at : 0 .. MaxTime, nr : Nat] /\ IsFiniteSet(admits')
  <2>1. admits' = admits \cup {[at |-> now, nr |-> Cardinality(admits) + 1]}
    BY DEF Counted
  <2>2. Cardinality(admits) + 1 \in Nat
    BY <1>1, FS_CardinalityType
  <2>3. IsFiniteSet(admits')
    BY <1>1, <2>1, FS_AddElement
  <2> QED
    BY <2>1, <2>2, <2>3, <1>1
<1>3. CASE Current(now)
  <2>1. /\ rate \in [count : 1 .. Limit, resetAt : Int]
        /\ rate.count < Limit
        /\ rate' = [rate EXCEPT !.count = @ + 1]
    BY <1>1, <1>3 DEF Current, Passes, Counted
  <2>2. rate.count + 1 \in 1 .. Limit
    BY <2>1
  <2> QED
    BY <2>1, <2>2, <1>2
<1>4. CASE ~Current(now)
  <2>1. rate' = [count |-> 1, resetAt |-> now + Window]
    BY <1>4 DEF Counted
  <2>2. 1 \in 1 .. Limit /\ now + Window \in Int
    BY <1>1
  <2> QED
    BY <2>1, <2>2, <1>2
<1> QED
  BY <1>3, <1>4

\* A step that moves one request on, and at most adds an account or hashes its
\* password again, keeps what is known of the requests and sessions.
LEMMA Moved ==
  ASSUME AccountInv, NEW r \in Slot, req[r] # None,
         NEW q \in Request,
         req' = [req EXCEPT ![r] = q],
         q.kind = req[r].kind, q.name = req[r].name, q.pw = req[r].pw,
         q.at \in {"legacy", "checked", "created"} /\ q.kind \in {"login", "register"} =>
           users'[q.name] \in Row /\ users'[q.name].pw = q.pw,
         req[r].at \in {"answered", "failed", "arrived"} =>
           q.at \in {"answered", "failed", "arrived"},
         \A n \in Name : users[n] \in Row =>
           users'[n] \in Row /\ users'[n].pw = users[n].pw,
         UNCHANGED <<sessions, sent>>
  PROVE  /\ req' \in [Slot -> Request \cup {None}]
         /\ Asked' /\ Unissued' /\ Made' /\ SessionsEarned'
<1>1. /\ req \in [Slot -> Request \cup {None}]
      /\ sessions \subseteq SessionRow
  BY DEF AccountInv, TypeOK
<1>2. req' \in [Slot -> Request \cup {None}]
  BY <1>1
<1>3. Asked'
  <2> SUFFICES ASSUME NEW p \in Slot, req'[p] # None,
                      req'[p].kind \in {"login", "register"}
               PROVE  /\ req'[p].name \in Name /\ req'[p].pw \in Password
                      /\ req'[p].at \in {"legacy", "checked", "created"} =>
                           /\ users'[req'[p].name] \in Row
                           /\ users'[req'[p].name].pw = req'[p].pw
    BY DEF Asked, Row
  <2>1. CASE p = r
    BY <2>1, <1>1 DEF AccountInv, Asked
  <2>2. CASE p # r
    BY <2>2, <1>1 DEF AccountInv, Asked
  <2> QED
    BY <2>1, <2>2
<1>4. Unissued'
  BY <1>1 DEF AccountInv, Unissued, SessionRow, Session, Slot
<1>5. SessionsEarned'
  BY <1>1 DEF AccountInv, SessionsEarned, SessionRow
<1>6. Made'
  BY <1>1 DEF AccountInv, Made
<1> QED
  BY <1>2, <1>3, <1>4, <1>5, <1>6

\* The two awaits that write an account.
LEMMA AccountWritten ==
  ASSUME AccountInv, NEW r \in Slot, Register(r) \/ Upgrade(r)
  PROVE  AccountInv'
<1> USE ConstantsAssumption
<1>1. /\ users \in [Name -> Row \cup {None}]
      /\ req \in [Slot -> Request \cup {None}]
  BY DEF AccountInv, TypeOK
<1>2. req[r] \in Request /\ req[r] # None
  BY <1>1 DEF Register, Upgrade, Serving
<1>3. req[r].name \in Name /\ req[r].pw \in Password
  BY <1>2 DEF Register, Upgrade, Serving, AccountInv, Asked
<1>4. UNCHANGED <<now, sessions, rate, admits, sent, jar, shown, astray>>
  BY DEF Register, Upgrade, browser
<1> DEFINE row == [pw |-> req[r].pw, form |-> "v2"]
<1>5. row \in Row
  BY <1>3 DEF Row
<1>6. \A at \in At : [req[r] EXCEPT !.at = at] \in Request
  BY <1>2, Further
<1>7. /\ users' \in [Name -> Row \cup {None}]
      /\ req' \in [Slot -> Request \cup {None}]
      /\ Asked' /\ Unissued' /\ Made' /\ SessionsEarned'
  <2>1. CASE Upgrade(r) \/ MayTake(req[r])
    <3>0. users' = [users EXCEPT ![req[r].name] = row]
      BY <2>1, <1>2 DEF Register, Upgrade, Serving
    <3>1. users' \in [Name -> Row \cup {None}]
      BY <3>0, <1>1, <1>3, <1>5
    <3>2. users[req[r].name] \in Row => users[req[r].name].pw = req[r].pw
      <4>1. CASE MayTake(req[r])
        BY <4>1 DEF MayTake, Row
      <4>2. CASE Upgrade(r)
        BY <4>2, <1>2 DEF Upgrade, Serving, AccountInv, Asked
      <4> QED
        BY <2>1, <4>1, <4>2
    <3>3. \A n \in Name : users[n] \in Row =>
            users'[n] \in Row /\ users'[n].pw = users[n].pw
      BY <3>0, <1>1, <1>3, <1>5, <3>2
    <3>4. users'[req[r].name] \in Row /\ users'[req[r].name].pw = req[r].pw
      BY <3>0, <1>1, <1>3, <1>5
    <3>5. PICK at \in At :
            /\ req' = [req EXCEPT ![r] = [req[r] EXCEPT !.at = at]]
            /\ req[r].at \notin {"answered", "failed", "arrived"}
      <4>1. CASE Upgrade(r)
        BY <4>1, <1>1, <1>2 DEF Upgrade, Serving, At
      <4>2. CASE Register(r) /\ MayTake(req[r])
        BY <4>2, <1>1, <1>2 DEF Register, Serving, At
      <4> QED
        BY <2>1, <4>1, <4>2
    <3>6. [req[r] EXCEPT !.at = at] \in Request
      BY <1>6
    <3>7. /\ [req[r] EXCEPT !.at = at].kind = req[r].kind
          /\ [req[r] EXCEPT !.at = at].name = req[r].name
          /\ [req[r] EXCEPT !.at = at].pw = req[r].pw
      BY <1>2 DEF Request
    <3> HIDE DEF row
    <3> QED
      BY <3>1, <3>3, <3>4, <3>5, <3>6, <3>7, <1>2, <1>4, Moved
  <2>2. CASE Register(r) /\ ~MayTake(req[r])
    <3>1. /\ users' = users
          /\ req' = [req EXCEPT ![r] = [req[r] EXCEPT !.at = "failed"]]
      BY <2>2, <1>1 DEF Register
    <3>2. [req[r] EXCEPT !.at = "failed"] \in Request
      BY <1>6 DEF At
    <3>3. /\ [req[r] EXCEPT !.at = "failed"].kind = req[r].kind
          /\ [req[r] EXCEPT !.at = "failed"].name = req[r].name
          /\ [req[r] EXCEPT !.at = "failed"].pw = req[r].pw
          /\ [req[r] EXCEPT !.at = "failed"].at = "failed"
      BY <1>2 DEF Request
    <3> QED
      BY <3>1, <3>2, <3>3, <1>1, <1>2, <1>4, Moved
  <2> QED
    BY <2>1, <2>2
<1> QED
  BY <1>4, <1>7 DEF AccountInv, TypeOK

\* The same of a step that changes nothing of a request but how far it is.
LEMMA StageMoved ==
  ASSUME AccountInv, NEW r \in Slot, req[r] # None, NEW at \in At,
         req' = [req EXCEPT ![r].at = at],
         at \in {"legacy", "checked", "created"} =>
           users[req[r].name] \in Row /\ users[req[r].name].pw = req[r].pw,
         req[r].at \in {"answered", "failed", "arrived"} =>
           at \in {"answered", "failed", "arrived"},
         UNCHANGED <<users, sessions, sent>>
  PROVE  /\ req' \in [Slot -> Request \cup {None}]
         /\ Asked' /\ Unissued' /\ Made' /\ SessionsEarned'
<1> DEFINE q == [req[r] EXCEPT !.at = at]
<1>1. /\ req \in [Slot -> Request \cup {None}]
      /\ req[r] \in Request
  BY DEF AccountInv, TypeOK
<1>2. q \in Request
  BY <1>1, Further
<1>3. /\ q.kind = req[r].kind /\ q.name = req[r].name /\ q.pw = req[r].pw
      /\ q.at = at
  BY <1>1 DEF Request
<1>4. req' = [req EXCEPT ![r] = q]
  BY <1>1
<1> HIDE DEF q
<1> QED
  BY <1>2, <1>3, <1>4, Moved

LEMMA AdmitInv ==
  ASSUME AccountInv, NEW r \in Slot, Admit(r)
  PROVE  AccountInv'
<1>1. PICK at \in At :
        /\ req' = [req EXCEPT ![r].at = at]
        /\ at \in {"admitted", "failed"}
  BY DEF Admit, At
<1>2. /\ rate' \in [count : 1 .. Limit, resetAt : Int] \cup {None}
      /\ admits' \subseteq [at : 0 .. MaxTime, nr : Nat] /\ IsFiniteSet(admits')
  <2>1. CASE Passes
    BY <2>1, CountedTyped DEF Admit, AccountInv
  <2>2. CASE ~Passes
    BY <2>2 DEF Admit, AccountInv, TypeOK
  <2> QED
    BY <2>1, <2>2
<1>3. /\ req' \in [Slot -> Request \cup {None}]
      /\ Asked' /\ Unissued' /\ Made' /\ SessionsEarned'
  BY <1>1, StageMoved DEF Admit, browser
<1> QED
  BY <1>2, <1>3 DEF Admit, AccountInv, TypeOK, browser

LEMMA LoginInv ==
  ASSUME AccountInv, NEW r \in Slot, Login(r)
  PROVE  AccountInv'
<1>1. /\ req[r] \in Request /\ req[r] # None /\ req[r].kind = "login"
      /\ req[r].at = "admitted"
      /\ req[r].name \in Name
  BY DEF Login, Serving, AccountInv, TypeOK, Asked
<1>2. PICK at \in At :
        /\ req' = [req EXCEPT ![r].at = at]
        /\ at \in {"failed", "legacy", "checked"}
        /\ at # "failed" => Verified(req[r])
  BY DEF Login, At
<1>3. Verified(req[r]) => users[req[r].name] \in Row /\ users[req[r].name].pw = req[r].pw
  BY <1>1 DEF Verified, AccountInv, TypeOK
<1>4. /\ req' \in [Slot -> Request \cup {None}]
      /\ Asked' /\ Unissued' /\ Made' /\ SessionsEarned'
  BY <1>1, <1>2, <1>3, StageMoved DEF Login, server, browser
<1> QED
  BY <1>4 DEF Login, AccountInv, TypeOK, server, browser

LEMMA FailOrArriveInv ==
  ASSUME AccountInv, NEW r \in Slot, Fail(r) \/ Arrive(r)
  PROVE  AccountInv'
<1>1. PICK at \in At :
        /\ req' = [req EXCEPT ![r].at = at]
        /\ at \in {"failed", "arrived"}
  BY DEF Fail, Arrive, At
<1>2. req[r] \in Request /\ req[r] # None
  BY DEF Fail, Arrive, AccountInv, TypeOK
<1>3. UNCHANGED <<now, users, sessions, rate, admits, sent, shown>>
  BY DEF Fail, Arrive, server, browser
<1>4. /\ req' \in [Slot -> Request \cup {None}]
      /\ Asked' /\ Unissued' /\ Made' /\ SessionsEarned'
  BY <1>1, <1>2, <1>3, StageMoved
<1>5. jar' \in Session \cup {None} /\ astray' \in BOOLEAN
  <2>1. CASE Fail(r)
    BY <2>1 DEF Fail, browser, AccountInv, TypeOK
  <2>2. CASE Arrive(r)
    <3>1. jar' \in Session \cup {None}
      BY <2>2, <1>2 DEF Arrive, Request
    <3>2. astray' \in BOOLEAN
      BY <2>2, Zenon DEF Arrive
    <3> QED
      BY <3>1, <3>2
  <2> QED
    BY <2>1, <2>2
<1> QED
  BY <1>3, <1>4, <1>5 DEF AccountInv, TypeOK

LEMMA UserTyped ==
  ASSUME TypeOK, NEW sid
  PROVE  UserOf(sid) \in Name \cup {None}
BY DEF UserOf, Valid, TypeOK, SessionRow

LEMMA MeInv ==
  ASSUME AccountInv, NEW r \in Slot, Me(r)
  PROVE  AccountInv'
<1> DEFINE q == [req[r] EXCEPT !.at = "answered", !.user = UserOf(req[r].sid)]
<1>1. /\ req \in [Slot -> Request \cup {None}]
      /\ req[r] \in Request /\ req[r] # None
  BY DEF Me, Serving, AccountInv, TypeOK
<1>2. UserOf(req[r].sid) \in Name \cup {None}
  BY UserTyped DEF AccountInv
<1>3. q \in Request
  <2>1. "answered" \in At /\ None \in Session \cup {None}
    BY DEF At
  <2> QED
    BY <2>1, <1>1, <1>2, Granted
<1>4. /\ q.kind = req[r].kind /\ q.name = req[r].name /\ q.pw = req[r].pw
      /\ q.at = "answered"
  BY <1>1 DEF Request
<1>5. req' = [req EXCEPT ![r] = q]
  BY <1>1 DEF Me
<1> HIDE DEF q
<1>6. /\ req' \in [Slot -> Request \cup {None}]
      /\ Asked' /\ Unissued' /\ Made' /\ SessionsEarned'
  BY <1>1, <1>3, <1>4, <1>5, Moved DEF Me, server, browser
<1> QED
  BY <1>6 DEF Me, AccountInv, TypeOK, server, browser

\* A session is new with the request that gets it, whose password is verified.
LEMMA IssueInv ==
  ASSUME AccountInv, NEW r \in Slot, Issue(r)
  PROVE  AccountInv'
<1> USE ConstantsAssumption
<1> DEFINE q == [req[r] EXCEPT !.at = "answered", !.sid = r, !.user = req[r].name]
           s == [id |-> r, user |-> req[r].name, until |-> now + Ttl,
                 pw |-> req[r].pw]
<1>1. /\ req \in [Slot -> Request \cup {None}]
      /\ req[r] \in Request /\ req[r] # None
      /\ req[r].kind \in {"login", "register"}
      /\ req[r].at \in {"checked", "created"}
  BY DEF Issue, Serving, AccountInv, TypeOK
<1>2. /\ req[r].name \in Name /\ req[r].pw \in Password
      /\ users[req[r].name] \in Row /\ users[req[r].name].pw = req[r].pw
  BY <1>1 DEF AccountInv, Asked
<1>3. r \in Session /\ r # 0 /\ r \in Int
  BY DEF Slot, Session
<1>4. q \in Request
  <2>1. "answered" \in At
    BY DEF At
  <2> QED
    BY <2>1, <1>1, <1>2, <1>3, Granted
<1>5. /\ q.kind = req[r].kind /\ q.name = req[r].name /\ q.pw = req[r].pw
      /\ q.at = "answered"
  BY <1>1 DEF Request
<1>6. req' = [req EXCEPT ![r] = q]
  BY <1>1 DEF Issue
<1>7. s \in SessionRow
  BY <1>2, <1>3 DEF SessionRow, AccountInv, TypeOK
<1>8. /\ sessions' = sessions \cup {s}
      /\ UNCHANGED <<now, users, rate, admits, sent, jar, shown, astray>>
  BY DEF Issue, browser
<1>9. s.id = r /\ s.user = req[r].name /\ s.pw = req[r].pw
  OBVIOUS
<1> HIDE DEF q, s
<1>10. req' \in [Slot -> Request \cup {None}]
  BY <1>1, <1>4, <1>6
<1>11. \A t \in sessions : t.id # r
  BY <1>1, <1>3 DEF AccountInv, Unissued
<1>12. r <= sent
  BY <1>1 DEF AccountInv, Made
<1>13. TypeOK'
  <2>1. sessions' \subseteq SessionRow
    BY <1>7, <1>8 DEF AccountInv, TypeOK
  <2>2. \A t, u \in sessions' : t.id = u.id => t = u
    BY <1>8, <1>9, <1>11 DEF AccountInv, TypeOK
  <2> QED
    BY <2>1, <2>2, <1>8, <1>10 DEF AccountInv, TypeOK
<1>14. Asked'
  BY <1>1, <1>2, <1>5, <1>6, <1>8 DEF AccountInv, Asked
<1>15. Unissued'
  BY <1>1, <1>5, <1>6, <1>8, <1>9, <1>12 DEF AccountInv, TypeOK, Unissued, SessionRow, Session, Slot
<1>16. SessionsEarned'
  BY <1>2, <1>8, <1>9 DEF AccountInv, SessionsEarned
<1>17. Made'
  BY <1>1, <1>6, <1>8 DEF AccountInv, Made
<1> QED
  BY <1>13, <1>14, <1>15, <1>16, <1>17 DEF AccountInv

\* Sessions may go, by a logout or in the cleanup.
LEMMA SessionsGoInv ==
  ASSUME AccountInv, (\E r \in Slot : Logout(r)) \/ Cleanup
  PROVE  AccountInv'
<1>1. sessions' \subseteq sessions /\ users' = users /\ sent' = sent
  BY DEF Logout, Cleanup, browser
<1>2. SessionsEarned'
  BY <1>1 DEF AccountInv, SessionsEarned
<1>3. CASE Cleanup
  <2>1. rate' \in [count : 1 .. Limit, resetAt : Int] \cup {None}
    BY <1>3 DEF Cleanup, AccountInv, TypeOK
  <2>2. TypeOK'
    BY <2>1, <1>1, <1>3 DEF Cleanup, AccountInv, TypeOK, browser
  <2>3. Asked' /\ Made'
    BY <1>3, <1>1 DEF Cleanup, AccountInv, Asked, Made
  <2>4. Unissued'
    BY <1>3, <1>1 DEF Cleanup, AccountInv, Unissued
  <2> QED
    BY <1>2, <2>2, <2>3, <2>4 DEF AccountInv
<1>4. ASSUME NEW r \in Slot, Logout(r)
      PROVE  AccountInv'
  <2> DEFINE q == [req[r] EXCEPT !.at = "answered", !.sid = None]
  <2>1. /\ req \in [Slot -> Request \cup {None}]
        /\ req[r] \in Request /\ req[r] # None /\ req[r].kind = "logout"
    BY <1>4 DEF Logout, Serving, AccountInv, TypeOK
  <2>2. q \in Request
    <3>1. "answered" \in At /\ None \in Session \cup {None} /\ None \in Name \cup {None}
      BY DEF At
    <3> QED
      BY <3>1, <2>1, Granted
  <2>3. q.kind = "logout" /\ q.at = "answered"
    BY <2>1 DEF Request
  <2>4. req' = [req EXCEPT ![r] = q]
    BY <1>4, <2>1 DEF Logout
  <2> HIDE DEF q
  <2>5. req' \in [Slot -> Request \cup {None}]
    BY <2>1, <2>2, <2>4
  <2>6. TypeOK'
    BY <2>5, <1>1, <1>4 DEF Logout, AccountInv, TypeOK, browser
  <2>7. Asked'
    BY <2>1, <2>3, <2>4, <1>1 DEF AccountInv, Asked
  <2>8. Unissued'
    BY <2>1, <2>3, <2>4, <1>1 DEF AccountInv, TypeOK, Unissued, SessionRow, Session, Slot
  <2>9. Made'
    BY <2>1, <2>4, <1>1 DEF AccountInv, Made
  <2> QED
    BY <1>2, <2>6, <2>7, <2>8, <2>9 DEF AccountInv
<1> QED
  BY <1>3, <1>4

\* A new request and an answer taken.
LEMMA BrowserInv ==
  ASSUME AccountInv, (\E r \in Slot : Handle(r)) \/ Submit \/ SignOut
  PROVE  AccountInv'
<1> USE ConstantsAssumption
<1>1. CASE Submit \/ SignOut
  <2>1. PICK kind \in {"login", "register", "logout"}, name \in Name \cup {None},
             pw \in Password \cup {None} :
          /\ Ask(kind, name, pw)
          /\ kind # "logout" => name \in Name /\ pw \in Password
    BY <1>1 DEF Submit, SignOut
  <2> DEFINE q == Asking(kind, name, pw)
  <2>2. /\ q \in Request
        /\ q.kind = kind /\ q.name = name /\ q.pw = pw /\ q.at = "sent"
    BY AskingTyped DEF AccountInv, TypeOK, Asking
  <2>3. /\ sent + 1 \in Slot /\ sent' = sent + 1
        /\ req' = [req EXCEPT ![sent + 1] = q]
        /\ UNCHANGED <<now, users, sessions, rate, admits, jar, shown, astray>>
    BY <2>1 DEF Ask, AccountInv, TypeOK, Slot, server
  <2> HIDE DEF q
  <2>4. TypeOK'
    BY <2>2, <2>3 DEF AccountInv, TypeOK
  <2>5. Asked'
    BY <2>1, <2>2, <2>3 DEF AccountInv, TypeOK, Asked
  <2>6. Unissued'
    BY <2>2, <2>3 DEF AccountInv, TypeOK, Unissued, SessionRow, Session, Slot
  <2>7. Made'
    BY <2>3 DEF AccountInv, TypeOK, Made, Slot
  <2>8. SessionsEarned'
    BY <2>3 DEF AccountInv, SessionsEarned
  <2> QED
    BY <2>4, <2>5, <2>6, <2>7, <2>8 DEF AccountInv
<1>2. ASSUME NEW r \in Slot, Handle(r)
      PROVE  AccountInv'
  <2>1. /\ req' = [req EXCEPT ![r] = None]
        /\ UNCHANGED <<now, users, sessions, rate, admits, sent, jar>>
    BY <1>2 DEF Handle, server
  <2>2. req[r] \in Request
    BY <1>2 DEF Handle, Serving, AccountInv, TypeOK
  <2>3. shown' \in Name \cup {None} /\ astray' \in BOOLEAN
    <3>1. shown' \in Name \cup {None}
      <4>1. req[r].user \in Name \cup {None}
        BY <2>2 DEF Request
      <4>2. shown' \in {shown, None, req[r].user}
        BY <1>2 DEF Handle
      <4> QED
        BY <4>1, <4>2 DEF AccountInv, TypeOK
    <3>2. ASSUME Tells(req[r]) PROVE astray' \in BOOLEAN
      <4>1. astray' = \/ req[r].kind = "me" /\ req[r].at = "failed"
                      \/ req[r].sid # jar
        BY <1>2, <3>2 DEF Handle
      <4> QED
        BY <4>1, Zenon
    <3>3. ASSUME ~Tells(req[r]) PROVE astray' \in BOOLEAN
      BY <1>2, <3>3 DEF Handle, AccountInv, TypeOK
    <3> QED
      BY <3>1, <3>2, <3>3
  <2>4. TypeOK'
    BY <2>1, <2>3 DEF AccountInv, TypeOK
  <2>5. Asked' /\ Made' /\ SessionsEarned'
    BY <2>1 DEF AccountInv, TypeOK, Asked, Made, SessionsEarned
  <2>6. Unissued'
    BY <2>1 DEF AccountInv, TypeOK, Unissued, SessionRow, Session, Slot
  <2> QED
    BY <2>4, <2>5, <2>6 DEF AccountInv
<1> QED
  BY <1>1, <1>2

LEMMA ElsewhereInv ==
  ASSUME AccountInv, OtherRequest \/ Tick
  PROVE  AccountInv'
<1>1. /\ rate' \in [count : 1 .. Limit, resetAt : Int] \cup {None}
      /\ admits' \subseteq [at : 0 .. MaxTime, nr : Nat] /\ IsFiniteSet(admits')
  BY CountedTyped DEF OtherRequest, Tick, AccountInv, TypeOK, server
<1>2. now' \in 0 .. MaxTime
  BY ConstantsAssumption DEF OtherRequest, Tick, AccountInv, TypeOK
<1>3. UNCHANGED <<users, sessions, sent, req, jar, shown, astray>>
  BY DEF OtherRequest, Tick, server, browser
<1> QED
  BY <1>1, <1>2, <1>3
     DEF AccountInv, TypeOK, Asked, Unissued, Made, SessionsEarned

LEMMA StepInv == AccountInv /\ [Next]_vars => AccountInv'
<1> SUFFICES ASSUME AccountInv, [Next]_vars
             PROVE  AccountInv'
  OBVIOUS
<1>1. ASSUME NEW r \in Slot, Step(r)
      PROVE  AccountInv'
  BY <1>1, AccountWritten, AdmitInv, LoginInv, FailOrArriveInv, MeInv,
     IssueInv, SessionsGoInv, BrowserInv DEF Step
<1>2. CASE UNCHANGED vars
  BY <1>2 DEF vars, AccountInv, TypeOK, Asked, Unissued, Made, SessionsEarned
<1> QED
  BY <1>1, <1>2, ElsewhereInv, SessionsGoInv, BrowserInv DEF Next

-----------------------------------------------------------------------------
(* The rate limit *)

\* When the entry of the address began to count.
Begun == rate.resetAt - Window

\* What has passed was counted by an entry that had not run out.
Dated ==
  \A a \in admits :
    /\ a.at <= now
    /\ rate = None => a.at < now
    /\ rate # None => a.at < rate.resetAt

\* The entry counts every request since it began, and it never began before
\* the one it took the place of had run out: of the stretch before it no more
\* than the limit passed.  An entry that is gone had run out as well.
Within ==
  /\ rate = None => Passed(now - Window, now) <= Limit
  /\ rate # None =>
       /\ Begun <= now
       /\ Passed(Begun, now) <= rate.count
       /\ Passed(Begun - Window, Begun - 1) <= Limit

\* No stretch of a window's length lets more than twice the limit pass.
RateInv == Dated /\ Within /\ AtMostTwice

\* Requests of one stretch are among those of another.
LEMMA PassedAmong ==
  ASSUME TypeOK, NEW p \in Int, NEW q \in Int, NEW m \in Int, NEW n \in Int,
         \A a \in admits : a.at \in p .. q => a.at \in m .. n
  PROVE  Passed(p, q) <= Passed(m, n)
<1> DEFINE S == {a \in admits : a.at \in p .. q}
           T == {a \in admits : a.at \in m .. n}
<1>1. IsFiniteSet(T)
  BY FS_Subset DEF TypeOK
<1>2. S \in SUBSET T
  OBVIOUS
<1> HIDE DEF S, T
<1>3. Cardinality(S) <= Cardinality(T)
  BY <1>1, <1>2, FS_Subset
<1> QED
  BY <1>3 DEF Passed, S, T

LEMMA PassedNumber ==
  ASSUME TypeOK, NEW p \in Int, NEW q \in Int
  PROVE  Passed(p, q) \in Nat
<1>1. IsFiniteSet({a \in admits : a.at \in p .. q})
  BY FS_Subset DEF TypeOK
<1> QED
  BY <1>1, FS_CardinalityType DEF Passed

LEMMA PassedNumberNext ==
  ASSUME TypeOK', NEW p \in Int, NEW q \in Int
  PROVE  Passed(p, q)' \in Nat
<1>1. IsFiniteSet({a \in admits' : a.at \in p .. q})
  BY FS_Subset DEF TypeOK
<1> QED
  BY <1>1, FS_CardinalityType DEF Passed

\* Requests of one stretch that are in one or the other of two.
LEMMA PassedSplit ==
  ASSUME TypeOK', NEW p \in Int, NEW q \in Int, NEW m \in Int, NEW n \in Int,
         NEW k \in Int, NEW l \in Int,
         \A a \in admits' : a.at \in p .. q => a.at \in m .. n \/ a.at \in k .. l
  PROVE  Passed(p, q)' <= Passed(m, n)' + Passed(k, l)'
<1> DEFINE S == {a \in admits' : a.at \in p .. q}
           T == {a \in admits' : a.at \in m .. n}
           U == {a \in admits' : a.at \in k .. l}
<1>1. IsFiniteSet(T) /\ IsFiniteSet(U)
  BY FS_Subset DEF TypeOK
<1>2. S \in SUBSET (T \cup U)
  OBVIOUS
<1> HIDE DEF S, T, U
<1>3. /\ IsFiniteSet(T \cup U)
      /\ Cardinality(T \cup U) =
           Cardinality(T) + Cardinality(U) - Cardinality(T \cap U)
  BY <1>1, FS_Union
<1>4. Cardinality(T \cap U) \in Nat
  <2>1. IsFiniteSet(T \cap U)
    BY <1>1, FS_Subset
  <2> QED
    BY <2>1, FS_CardinalityType
<1>5. Cardinality(S) <= Cardinality(T \cup U)
  BY <1>2, <1>3, FS_Subset
<1>6. Cardinality(T) \in Nat /\ Cardinality(U) \in Nat /\ Cardinality(S) \in Nat
  BY <1>1, <1>2, <1>3, FS_Subset, FS_CardinalityType
<1>7. Cardinality(S) <= Cardinality(T) + Cardinality(U)
  BY <1>3, <1>4, <1>5, <1>6
<1> QED
  BY <1>7 DEF Passed, S, T, U

\* A request that passes is one more in the stretches that hold its time.
LEMMA PassedCounted ==
  ASSUME TypeOK, Counted, NEW p \in Int, NEW q \in Int
  PROVE  /\ Passed(p, q)' <= Passed(p, q) + 1
         /\ now \notin p .. q => Passed(p, q)' = Passed(p, q)
<1> DEFINE S == {a \in admits : a.at \in p .. q}
           N == {a \in admits' : a.at \in p .. q}
           x == [at |-> now, nr |-> Cardinality(admits) + 1]
<1>1. admits' = admits \cup {x} /\ x.at = now
  BY DEF Counted
<1> HIDE DEF x
<1>2. IsFiniteSet(S)
  BY FS_Subset DEF TypeOK
<1>3. N = IF now \in p .. q THEN S \cup {x} ELSE S
  BY <1>1
<1>4. /\ Cardinality(S) \in Nat
      /\ Cardinality(S \cup {x}) <= Cardinality(S) + 1
  <2> HIDE DEF S
  <2>1. Cardinality(S) \in Nat
    BY <1>2, FS_CardinalityType
  <2>2. Cardinality(S \cup {x}) = IF x \in S THEN Cardinality(S) ELSE Cardinality(S) + 1
    BY <1>2, FS_AddElement
  <2> QED
    BY <2>1, <2>2
<1>5. /\ Passed(p, q) = Cardinality(S)
      /\ Passed(p, q)' = Cardinality(N)
  BY DEF Passed
<1> HIDE DEF S, N
<1> QED
  BY <1>3, <1>4, <1>5

\* No request of a stretch.
LEMMA PassedNone ==
  ASSUME TypeOK, NEW p \in Int, NEW q \in Int,
         \A a \in admits : a.at \notin p .. q
  PROVE  Passed(p, q) = 0
<1>1. {a \in admits : a.at \in p .. q} = {}
  OBVIOUS
<1> QED
  BY <1>1, FS_EmptySet DEF Passed

LEMMA RateTyped ==
  ASSUME TypeOK
  PROVE  /\ now \in Nat /\ Window \in Nat \ {0} /\ Limit \in Nat \ {0}
         /\ rate # None => /\ rate.count \in 1 .. Limit /\ rate.resetAt \in Int
                           /\ Begun \in Int /\ rate.resetAt = Begun + Window
         /\ \A a \in admits : a.at \in Nat
<1>1. rate # None => rate.count \in 1 .. Limit /\ rate.resetAt \in Int
  BY DEF TypeOK
<1>2. \A a \in admits : a.at \in Nat
  BY ConstantsAssumption DEF TypeOK
<1> QED
  BY <1>1, <1>2, ConstantsAssumption DEF TypeOK, Begun

LEMMA RateTypedNext ==
  ASSUME TypeOK'
  PROVE  /\ now' \in Nat /\ Window \in Nat \ {0} /\ Limit \in Nat \ {0}
         /\ rate' # None => /\ rate'.count \in 1 .. Limit /\ rate'.resetAt \in Int
                           /\ Begun' \in Int /\ rate'.resetAt = Begun' + Window
         /\ \A a \in admits' : a.at \in Nat
<1>1. rate' # None => rate'.count \in 1 .. Limit /\ rate'.resetAt \in Int
  BY DEF TypeOK
<1>2. \A a \in admits' : a.at \in Nat
  BY ConstantsAssumption DEF TypeOK
<1> QED
  BY <1>1, <1>2, ConstantsAssumption DEF TypeOK, Begun

\* The invariant of the next state, told by the numbers of the next state.
LEMMA RateNext ==
  ASSUME TypeOK', NEW t \in Int, t = now',
         NEW b \in Int, b <= t,
         \A a \in admits' : a.at <= t /\ a.at < b + Window,
         rate' # None, rate'.resetAt = b + Window,
         Passed(b, t)' <= rate'.count,
         Passed(b - Window, b - 1)' <= Limit
  PROVE  Dated' /\ Within'
<1>1. Begun' = b
  BY RateTypedNext DEF Begun
<1>2. Dated'
  BY DEF Dated
<1>3. Within'
  BY <1>1 DEF Within, Passed
<1> QED
  BY <1>2, <1>3

\* A request passes while the entry counts.
LEMMA CountedWithin ==
  ASSUME TypeOK, TypeOK', RateInv, Passes, Counted, now' = now, Current(now)
  PROVE  Dated' /\ Within'
<1>1. PICK t \in Int : t = now
  BY RateTyped
<1>2. /\ rate # None /\ rate.count < Limit /\ rate.resetAt > t
      /\ rate' = [rate EXCEPT !.count = @ + 1]
      /\ rate \in [count : 1 .. Limit, resetAt : Int]
  BY <1>1, RateTyped DEF Current, Passes, Counted, TypeOK
<1>3. /\ rate'.count = rate.count + 1 /\ rate'.resetAt = rate.resetAt
      /\ rate' \in [count : Int, resetAt : Int]
  BY <1>2, ConstantsAssumption
<1>4. PICK b \in Int : b = Begun
  BY <1>2, RateTyped
<1>5. /\ rate.resetAt = b + Window /\ b <= t
      /\ Passed(b, t) <= rate.count
      /\ Passed(b - Window, b - 1) <= Limit
  BY <1>1, <1>2, <1>4, RateTyped DEF RateInv, Within
<1>6. Passed(b, t)' <= rate'.count
  <2>1. Passed(b, t) \in Nat /\ Passed(b, t)' \in Nat
    BY PassedNumber, PassedNumberNext
  <2>2. Passed(b, t)' <= Passed(b, t) + 1
    BY PassedCounted
  <2>3. rate.count \in Nat
    BY <1>2
  <2> QED
    BY <1>3, <1>5, <2>1, <2>2, <2>3
<1>7. Passed(b - Window, b - 1)' = Passed(b - Window, b - 1)
  <2>1. /\ b - Window \in Int /\ b - 1 \in Int
        /\ now \notin b - Window .. b - 1
    BY <1>1, <1>5, RateTyped
  <2> QED
    BY <2>1, PassedCounted
<1>8. \A a \in admits' : a.at <= t /\ a.at < b + Window
  BY <1>1, <1>2, <1>5 DEF RateInv, Dated, Counted
<1>9. rate' # None
  BY <1>3, ConstantsAssumption
<1> QED
  BY <1>1, <1>3, <1>5, <1>6, <1>7, <1>8, <1>9, RateNext

\* A request passes that begins an entry.
LEMMA CountedAnew ==
  ASSUME TypeOK, TypeOK', RateInv, Counted, now' = now, ~Current(now)
  PROVE  Dated' /\ Within'
<1>1. PICK t \in Int : t = now
  BY RateTyped
<1>2. /\ rate' = [count |-> 1, resetAt |-> t + Window]
      /\ admits' = admits \cup {[at |-> t, nr |-> Cardinality(admits) + 1]}
  BY <1>1 DEF Counted
<1>3. rate'.count = 1 /\ rate'.resetAt = t + Window /\ rate' # None
  <2>1. rate' \in [count : Int, resetAt : Int]
    BY <1>2, RateTyped
  <2> QED
    BY <1>2, <2>1, ConstantsAssumption
<1>4. rate # None => rate.resetAt <= t
  BY <1>1, RateTyped DEF Current
<1>5. \A a \in admits : a.at < t
  BY <1>1, <1>4, RateTyped DEF RateInv, Dated
<1>6. Passed(t, t)' <= rate'.count
  <2>1. Passed(t, t) = 0
    BY <1>5, RateTyped, PassedNone
  <2>2. Passed(t, t)' <= Passed(t, t) + 1 /\ Passed(t, t)' \in Nat
    BY PassedCounted, PassedNumberNext
  <2> QED
    BY <1>3, <2>1, <2>2
<1>7. Passed(t - Window, t - 1)' <= Limit
  <2>1. /\ t - Window \in Int /\ t - 1 \in Int
        /\ t \notin t - Window .. t - 1
    BY RateTyped
  <2>2. Passed(t - Window, t - 1)' = Passed(t - Window, t - 1)
    BY <1>1, <2>1, PassedCounted
  <2>3. Passed(t - Window, t - 1) \in Nat /\ Limit \in Nat
    BY <2>1, PassedNumber, RateTyped
  <2>4. CASE rate = None
    <3>1. Passed(t - Window, t) <= Limit /\ Passed(t - Window, t) \in Nat
      BY <1>1, <2>1, <2>4, PassedNumber DEF RateInv, Within
    <3>2. Passed(t - Window, t - 1) <= Passed(t - Window, t)
      <4>1. \A a \in admits : a.at \in t - Window .. t - 1 => a.at \in t - Window .. t
        BY <2>1
      <4> QED
        BY <2>1, <4>1, PassedAmong
    <3> QED
      BY <2>2, <2>3, <3>1, <3>2
  <2>5. CASE rate # None
    <3>1. PICK b \in Int : b = Begun
      BY <2>5, RateTyped
    <3>2. b + Window <= t
      BY <1>4, <2>5, <3>1, RateTyped
    <3>3. Passed(b, t) <= rate.count /\ rate.count \in 1 .. Limit
      BY <1>1, <2>5, <3>1, RateTyped DEF RateInv, Within
    <3>4. Passed(t - Window, t - 1) <= Passed(b, t)
      <4> DEFINE e == t - Window
                 f == t - 1
      <4>1. e \in Int /\ f \in Int
        BY <2>1
      <4>2. \A a \in admits : a.at \in e .. f => a.at \in b .. t
        BY <2>1, <3>2, RateTyped
      <4> HIDE DEF e, f
      <4>3. Passed(e, f) <= Passed(b, t)
        BY <4>1, <4>2, PassedAmong
      <4> QED
        BY <4>3 DEF e, f
    <3>5. Passed(b, t) \in Nat
      BY PassedNumber
    <3> QED
      BY <2>2, <2>3, <3>3, <3>4, <3>5
  <2> QED
    BY <2>4, <2>5
<1>8. \A a \in admits' : a.at <= t /\ a.at < t + Window
  BY <1>2, <1>5, RateTyped
<1> QED
  BY <1>1, <1>3, <1>6, <1>7, <1>8, RateNext

\* A stretch that ends with the passing request is part of the one before the
\* entry began and of the one since.
LEMMA CountedTwice ==
  ASSUME TypeOK, TypeOK', RateInv, Passes, Counted, now' = now, Dated', Within'
  PROVE  AtMostTwice'
<1> SUFFICES ASSUME NEW f \in 0 .. MaxTime
             PROVE  Passed(f, f + Window - 1)' <= 2 * Limit
  BY DEF AtMostTwice
<1>1. PICK t \in Int : t = now
  BY RateTyped
<1>2. f \in Int /\ f + Window - 1 \in Int
  BY RateTyped, ConstantsAssumption
<1>3. CASE t \notin f .. f + Window - 1
  <2>1. Passed(f, f + Window - 1)' = Passed(f, f + Window - 1)
    BY <1>1, <1>2, <1>3, PassedCounted
  <2>2. Passed(f, f + Window - 1) <= 2 * Limit
    BY DEF RateInv, AtMostTwice
  <2> QED
    BY <2>1, <2>2
<1>4. CASE t \in f .. f + Window - 1
  <2>1. rate' # None
    <3>1. rate' \in [count : Int, resetAt : Int]
      BY RateTyped, ConstantsAssumption DEF Counted, Current, TypeOK
    <3> QED
      BY <3>1, ConstantsAssumption
  <2>2. PICK b \in Int : b = Begun'
    BY <2>1, RateTypedNext
  <2>3. /\ b <= t
        /\ Passed(b, t)' <= Limit
        /\ Passed(b - Window, b - 1)' <= Limit
    <3>1. b <= t /\ Passed(b - Window, b - 1)' <= Limit
      BY <1>1, <2>1, <2>2 DEF Within, Passed
    <3>2. Passed(b, t)' <= rate'.count
      BY <1>1, <2>1, <2>2 DEF Within, Passed
    <3>3. rate'.count \in 1 .. Limit
      BY <2>1, RateTypedNext
    <3>4. Passed(b, t)' \in Nat
      BY PassedNumberNext
    <3> QED
      BY <3>1, <3>2, <3>3, <3>4, RateTyped
  <2> DEFINE l == f + Window - 1
             c == b - Window
             d == b - 1
  <2>4. l \in Int /\ c \in Int /\ d \in Int
    BY <1>2, RateTyped
  <2>5. \A a \in admits' : a.at \in f .. l => a.at \in c .. d \/ a.at \in b .. t
    BY <1>1, <1>2, <1>4, <2>3, RateTyped, RateTypedNext DEF Dated
  <2>6. Passed(c, d)' <= Limit /\ Passed(b, t)' <= Limit
    BY <2>3
  <2> HIDE DEF l, c, d
  <2>7. Passed(f, l)' <= Passed(c, d)' + Passed(b, t)'
    BY <1>2, <2>4, <2>5, PassedSplit
  <2>8. Passed(f, l)' \in Nat /\ Passed(c, d)' \in Nat /\ Passed(b, t)' \in Nat
    BY <1>2, <2>4, PassedNumberNext
  <2>9. Passed(f, l)' <= 2 * Limit
    BY <2>6, <2>7, <2>8, RateTyped
  <2> QED
    BY <2>9 DEF l
<1> QED
  BY <1>3, <1>4

LEMMA CountedRate ==
  ASSUME TypeOK, TypeOK', RateInv, Passes, Counted, now' = now
  PROVE  RateInv'
BY CountedWithin, CountedAnew, CountedTwice DEF RateInv

\* The cleanup drops an entry that has run out.
LEMMA CleanupRate ==
  ASSUME TypeOK, TypeOK', RateInv, Cleanup
  PROVE  RateInv'
<1>1. PICK t \in Int : t = now
  BY RateTyped
<1>2. now' = now /\ admits' = admits
  BY DEF Cleanup
<1>3. AtMostTwice'
  BY <1>2 DEF RateInv, AtMostTwice, Passed
<1>4. CASE Current(now) \/ rate = None
  <2>1. rate' = rate
    BY <1>4 DEF Cleanup
  <2> QED
    BY <1>2, <1>3, <2>1 DEF RateInv, Dated, Within, Passed, Begun
<1>5. CASE rate # None /\ ~Current(now)
  <2>1. rate' = None /\ rate.resetAt <= t
    BY <1>1, <1>5, RateTyped DEF Cleanup, Current
  <2>2. Dated'
    BY <1>1, <1>2, <1>5, <2>1, RateTyped DEF RateInv, Dated
  <2>3. PICK b \in Int : b = Begun
    BY <1>5, RateTyped
  <2>4. b + Window <= t
    BY <1>5, <2>1, <2>3, RateTyped
  <2>5. Passed(b, t) <= rate.count /\ rate.count \in 1 .. Limit
    BY <1>1, <1>5, <2>3, RateTyped DEF RateInv, Within
  <2>6. Passed(t - Window, t) <= Passed(b, t)
    <3>1. t - Window \in Int /\ b <= t - Window
      BY <2>4, RateTyped
    <3> DEFINE e == t - Window
    <3>2. e \in Int
      BY <3>1
    <3>3. \A a \in admits : a.at \in e .. t => a.at \in b .. t
      BY <3>1, RateTyped
    <3> HIDE DEF e
    <3>4. Passed(e, t) <= Passed(b, t)
      BY <3>2, <3>3, PassedAmong
    <3> QED
      BY <3>4 DEF e
  <2>7. Passed(t - Window, t) \in Nat /\ Passed(b, t) \in Nat
    <3>1. t - Window \in Int
      BY RateTyped
    <3> QED
      BY <3>1, PassedNumber
  <2>8. Passed(t - Window, t) <= Limit
    BY <2>5, <2>6, <2>7, RateTyped
  <2>9. Within'
    BY <1>1, <1>2, <2>1, <2>8 DEF Within, Passed
  <2> QED
    BY <1>3, <2>2, <2>9 DEF RateInv
<1> QED
  BY <1>4, <1>5

\* Nothing has passed at the new time.
LEMMA TickRate ==
  ASSUME TypeOK, TypeOK', RateInv, Tick
  PROVE  RateInv'
<1>1. PICK t \in Int : t = now
  BY RateTyped
<1> DEFINE u == t + 1
<1>2. now' = u /\ admits' = admits /\ rate' = rate
  BY <1>1 DEF Tick, server
<1>3. AtMostTwice'
  BY <1>2 DEF RateInv, AtMostTwice, Passed
<1>4. Dated'
  BY <1>1, <1>2, RateTyped DEF RateInv, Dated
<1>5. \A a \in admits : a.at <= t
  BY <1>1 DEF RateInv, Dated
<1>6. CASE rate = None
  <2> DEFINE e == u - Window
             f == t - Window
  <2>1. e \in Int /\ f \in Int /\ u \in Int
    BY RateTyped
  <2>2. \A a \in admits : a.at \in e .. u => a.at \in f .. t
    BY <1>5, RateTyped
  <2>3. Passed(f, t) <= Limit
    BY <1>1, <1>6 DEF RateInv, Within
  <2>4. e = now' - Window
    BY <1>2
  <2> HIDE DEF e, f, u
  <2>5. /\ Passed(e, u) <= Passed(f, t)
        /\ Passed(e, u) \in Nat /\ Passed(f, t) \in Nat
    BY <2>1, <2>2, PassedAmong, PassedNumber
  <2>6. Passed(e, u) <= Limit
    BY <2>3, <2>5, RateTyped
  <2>7. Within'
    BY <1>2, <1>6, <2>4, <2>6 DEF Within, Passed
  <2> QED
    BY <1>3, <1>4, <2>7 DEF RateInv
<1>7. CASE rate # None
  <2>1. PICK b \in Int : b = Begun
    BY <1>7, RateTyped
  <2>2. /\ b <= t /\ Passed(b, t) <= rate.count
        /\ Passed(b - Window, b - 1) <= Limit
    BY <1>1, <1>7, <2>1 DEF RateInv, Within
  <2>3. u \in Int /\ b <= u
    BY <2>2
  <2>4. \A a \in admits : a.at \in b .. u => a.at \in b .. t
    BY <1>5, RateTyped
  <2> HIDE DEF u
  <2>5. /\ Passed(b, u) <= Passed(b, t)
        /\ Passed(b, u) \in Nat /\ Passed(b, t) \in Nat
    BY <2>3, <2>4, PassedAmong, PassedNumber
  <2>6. Passed(b, u) <= rate.count
    BY <1>7, <2>2, <2>5, RateTyped
  <2>7. Begun' = b
    BY <1>2, <2>1 DEF Begun
  <2>8. Within'
    BY <1>2, <1>7, <2>2, <2>3, <2>6, <2>7 DEF Within, Passed
  <2> QED
    BY <1>3, <1>4, <2>8 DEF RateInv
<1> QED
  BY <1>6, <1>7

LEMMA InitRate == Init => RateInv
<1> SUFFICES ASSUME Init PROVE RateInv
  OBVIOUS
<1>1. TypeOK
  BY InitInv DEF AccountInv
<1>2. rate = None /\ admits = {}
  BY DEF Init
<1>3. \A p, q \in Int : Passed(p, q) = 0
  BY <1>1, <1>2, PassedNone
<1>4. now - Window \in Int /\ now \in Int /\ Limit \in Nat
  BY <1>1, RateTyped
<1>5. Dated /\ Within
  BY <1>2, <1>3, <1>4 DEF Dated, Within
<1>6. AtMostTwice
  <2>1. \A f \in 0 .. MaxTime : f \in Int /\ f + Window - 1 \in Int
    BY <1>1, RateTyped, ConstantsAssumption
  <2> QED
    BY <1>3, <1>4, <2>1 DEF AtMostTwice
<1> QED
  BY <1>5, <1>6 DEF RateInv

LEMMA StepRate == TypeOK /\ TypeOK' /\ RateInv /\ [Next]_vars => RateInv'
<1> SUFFICES ASSUME TypeOK, TypeOK', RateInv, [Next]_vars
             PROVE  RateInv'
  OBVIOUS
<1>1. ASSUME UNCHANGED <<now, rate, admits>>
      PROVE  RateInv'
  BY <1>1 DEF RateInv, Dated, Within, AtMostTwice, Passed, Begun
<1>2. ASSUME Passes, Counted, now' = now
      PROVE  RateInv'
  BY <1>2, CountedRate
<1>3. ASSUME NEW r \in Slot, Step(r)
      PROVE  RateInv'
  <2>1. CASE Admit(r)
    <3>1. CASE Passes
      BY <1>2, <2>1, <3>1 DEF Admit
    <3>2. CASE ~Passes
      BY <1>1, <2>1, <3>2 DEF Admit
    <3> QED
      BY <3>1, <3>2
  <2>2. CASE ~Admit(r)
    <3>1. UNCHANGED <<now, rate, admits>>
      BY <1>3, <2>2
         DEF Step, Me, Register, Login, Upgrade, Issue, Logout, Fail, Arrive,
             Handle, server
    <3> QED
      BY <1>1, <3>1
  <2> QED
    BY <2>1, <2>2
<1>4. CASE OtherRequest
  BY <1>2, <1>4 DEF OtherRequest
<1>5. CASE Submit \/ SignOut
  <2>1. UNCHANGED <<now, rate, admits>>
    BY <1>5 DEF Submit, SignOut, Ask, server
  <2> QED
    BY <1>1, <2>1
<1>6. CASE UNCHANGED vars
  BY <1>1, <1>6 DEF vars
<1> QED
  BY <1>3, <1>4, <1>5, <1>6, CleanupRate, TickRate DEF Next

-----------------------------------------------------------------------------
(* The user the page shows *)

\* name is the user of a session that is still good, and of no cookie nobody.
Agree(sid, name) ==
  /\ \A s \in Valid(sid) : s.user = name
  /\ sid = None => name = None

\* What an answer names agrees with the cookie it was asked with, or sets.
Answered(r, q) ==
  /\ q.kind = "me" =>
       /\ q.sid \in {None, 0}
       /\ q.at # "arrived"
       /\ q.at = "answered" => Agree(q.sid, q.user)
  /\ q.kind \in {"login", "register"} /\ q.at \in {"answered", "arrived"} =>
       /\ q.sid = r
       /\ Agree(r, q.user)
  /\ q.kind = "logout" /\ q.at = "answered" => q.sid = None

Answers == \A r \in Slot : req[r] # None => Answered(r, req[r])

\* The cookie is of an answer that has arrived: its session is not to come.
Kept ==
  jar \in Slot =>
    /\ jar <= sent
    /\ req[jar] # None => req[jar].at = "arrived"

\* The page agrees with the cookie, or an answer it will take is on its way.
InStep ==
  \/ astray
  \/ Agree(jar, shown)
  \/ \E r \in Slot : req[r] # None /\ Tells(req[r])

PageInv == Answers /\ Kept /\ InStep

\* A session that runs out, or goes, leaves what agrees in agreement.
LEMMA AgreeStays ==
  ASSUME TypeOK, NEW sid, NEW name, Agree(sid, name),
         now' \in Int, now <= now',
         \A s \in sessions' : s \in sessions \/ s.id # sid
  PROVE  Agree(sid, name)'
<1>1. now \in Int /\ \A s \in sessions : s.until \in Int
  BY ConstantsAssumption DEF TypeOK, SessionRow
<1>2. \A s \in Valid(sid)' : s \in Valid(sid)
  BY <1>1 DEF Valid
<1> QED
  BY <1>2 DEF Agree

\* No session has a cookie that is none, and the one of a cookie has its user.
LEMMA UserAgrees ==
  ASSUME TypeOK, NEW sid
  PROVE  Agree(sid, UserOf(sid))
<1>1. \A s, t \in Valid(sid) : s = t
  BY DEF TypeOK, Valid
<1>2. \A s \in Valid(sid) : s.user = UserOf(sid)
  BY <1>1 DEF UserOf
<1>3. sid = None => Valid(sid) = {}
  BY ConstantsAssumption DEF TypeOK, Valid, SessionRow, Session
<1> QED
  BY <1>2, <1>3 DEF Agree, UserOf

\* A request gets further on the server, and may get its session there.
LEMMA PageMoved ==
  ASSUME AccountInv, PageInv, NEW r \in Slot, req[r] # None,
         NEW q, q # None, req' = [req EXCEPT ![r] = q],
         q.kind = req[r].kind, req[r].at # "arrived", q.at # "arrived",
         q.kind = "me" =>
           /\ q.sid = req[r].sid
           /\ q.at = "answered" => Agree(q.sid, q.user)',
         q.kind \in {"login", "register"} /\ q.at = "answered" =>
           q.sid = r /\ Agree(r, q.user)',
         q.kind = "logout" /\ q.at = "answered" => q.sid = None,
         \A s \in sessions' : s \in sessions \/ s.id = r,
         now' = now, UNCHANGED <<sent, jar, shown, astray>>
  PROVE  PageInv'
<1>1. /\ req \in [Slot -> Request \cup {None}]
      /\ r \in Int /\ r # 0 /\ r # None
      /\ now \in Int /\ now <= now'
  BY ConstantsAssumption DEF AccountInv, TypeOK, Slot
<1>2. jar # r
  BY DEF PageInv, Kept
<1>3. \A sid, name : sid # r /\ Agree(sid, name) => Agree(sid, name)'
  <2> SUFFICES ASSUME NEW sid, NEW name, sid # r, Agree(sid, name)
               PROVE  Agree(sid, name)'
    OBVIOUS
  <2> QED
    BY <1>1, AgreeStays DEF AccountInv
<1>4. Answers'
  <2> SUFFICES ASSUME NEW p \in Slot, NEW c, c = req'[p], c # None
               PROVE  Answered(p, c)'
    BY DEF Answers, Answered, Agree, Valid
  <2>1. CASE p = r
    BY <1>1, <2>1 DEF PageInv, Answers, Answered
  <2>2. CASE p # r
    <3>1. c = req[p] /\ Answered(p, c)
      BY <1>1, <2>2 DEF PageInv, Answers
    <3>2. r # None /\ r # 0
      BY <1>1
    <3> QED
      BY <1>3, <2>2, <3>1, <3>2 DEF Answered
  <2> QED
    BY <2>1, <2>2
<1>5. Kept'
  BY <1>1, <1>2 DEF PageInv, Kept, AccountInv, TypeOK
<1>6. InStep'
  <2>1. CASE astray
    BY <2>1 DEF InStep
  <2>2. CASE Agree(jar, shown)
    <3>1. Agree(jar, shown)'
      BY <1>2, <1>3, <2>2 DEF Agree, Valid
    <3> QED
      BY <3>1 DEF InStep
  <2>3. ASSUME NEW p \in Slot, req[p] # None, Tells(req[p])
        PROVE  InStep'
    <3>1. req'[p] # None /\ Tells(req'[p])
      BY <1>1, <2>3 DEF Tells
    <3> QED
      BY <3>1 DEF InStep, Tells
  <2> QED
    BY <2>1, <2>2, <2>3 DEF PageInv, InStep
<1> QED
  BY <1>4, <1>5, <1>6 DEF PageInv

\* The same of a step that changes nothing of a request but how far it is.
LEMMA PageStage ==
  ASSUME AccountInv, PageInv, NEW r \in Slot, req[r] # None, NEW at \in At,
         req' = [req EXCEPT ![r].at = at],
         req[r].at # "arrived", at \notin {"answered", "arrived"},
         sessions' = sessions, now' = now, UNCHANGED <<sent, jar, shown, astray>>
  PROVE  PageInv'
<1> DEFINE q == [req[r] EXCEPT !.at = at]
<1>1. /\ req \in [Slot -> Request \cup {None}]
      /\ req[r] \in Request
  BY DEF AccountInv, TypeOK
<1>2. /\ q.kind = req[r].kind /\ q.at = at /\ q.sid = req[r].sid
      /\ q \in Request
  BY <1>1, Further DEF Request
<1>3. q # None
  BY <1>2, RequestAssumption
<1>4. req' = [req EXCEPT ![r] = q]
  BY <1>1
<1> HIDE DEF q
<1> QED
  BY <1>2, <1>3, <1>4, PageMoved

LEMMA PageServed ==
  ASSUME AccountInv, PageInv, NEW r \in Slot,
         Admit(r) \/ Register(r) \/ Login(r) \/ Upgrade(r) \/ Fail(r)
  PROVE  PageInv'
<1>1. /\ req[r] # None /\ req[r].at # "arrived"
      /\ sessions' = sessions /\ now' = now /\ UNCHANGED <<sent, jar, shown, astray>>
  BY DEF Admit, Register, Login, Upgrade, Fail, Serving, server, browser
<1>2. PICK at \in At :
        /\ req' = [req EXCEPT ![r].at = at]
        /\ at \notin {"answered", "arrived"}
  BY DEF Admit, Register, Login, Upgrade, Fail, At
<1> QED
  BY <1>1, <1>2, PageStage

LEMMA PageMe ==
  ASSUME AccountInv, PageInv, NEW r \in Slot, Me(r)
  PROVE  PageInv'
<1> DEFINE u == UserOf(req[r].sid)
           q == [req[r] EXCEPT !.at = "answered", !.user = u]
<1>1. /\ req \in [Slot -> Request \cup {None}]
      /\ req[r] \in Request /\ req[r] # None
      /\ req[r].kind = "me" /\ req[r].at = "admitted"
  BY DEF Me, Serving, AccountInv, TypeOK
<1>2. u \in Name \cup {None}
  BY UserTyped DEF AccountInv
<1>3. q \in Request
  <2>1. "answered" \in At /\ None \in Session \cup {None}
    BY DEF At
  <2> QED
    BY <2>1, <1>1, <1>2, Granted
<1>4. /\ q.kind = "me" /\ q.at = "answered" /\ q.sid = req[r].sid /\ q.user = u
      /\ q # None
  BY <1>1, <1>3, RequestAssumption DEF Request
<1>5. /\ req' = [req EXCEPT ![r] = q]
      /\ sessions' = sessions /\ now' = now /\ UNCHANGED <<sent, jar, shown, astray>>
  BY <1>1 DEF Me, server, browser
<1>6. Agree(req[r].sid, u)
  BY UserAgrees DEF AccountInv
<1> HIDE DEF q, u
<1>7. Agree(q.sid, q.user)
  BY <1>4, <1>6
<1>8. PICK sid, name : sid = q.sid /\ name = q.user
  OBVIOUS
<1>9. Agree(sid, name)'
  BY <1>5, <1>7, <1>8 DEF Agree, Valid
<1> QED
  BY <1>1, <1>4, <1>5, <1>8, <1>9, PageMoved

LEMMA PageIssue ==
  ASSUME AccountInv, PageInv, NEW r \in Slot, Issue(r)
  PROVE  PageInv'
<1> DEFINE n == req[r].name
           q == [req[r] EXCEPT !.at = "answered", !.sid = r, !.user = n]
           s == [id |-> r, user |-> n, until |-> now + Ttl, pw |-> req[r].pw]
<1>1. /\ req \in [Slot -> Request \cup {None}]
      /\ req[r] \in Request /\ req[r] # None
      /\ req[r].kind \in {"login", "register"}
      /\ req[r].at \in {"checked", "created"}
      /\ n \in Name
  BY DEF Issue, Serving, AccountInv, TypeOK, Asked
<1>2. r \in Session /\ r # 0 /\ r # None
  BY ConstantsAssumption DEF Slot, Session
<1>3. q \in Request
  <2>1. "answered" \in At
    BY DEF At
  <2> QED
    BY <2>1, <1>1, <1>2, Granted
<1>4. /\ q.kind = req[r].kind /\ q.at = "answered" /\ q.sid = r /\ q.user = n
      /\ q # None
  BY <1>1, <1>3, RequestAssumption DEF Request
<1>5. /\ req' = [req EXCEPT ![r] = q]
      /\ sessions' = sessions \cup {s}
      /\ now' = now /\ UNCHANGED <<sent, jar, shown, astray>>
  BY <1>1 DEF Issue, browser
<1>6. s.id = r /\ s.user = n
  OBVIOUS
<1>7. \A t \in sessions : t.id # r
  BY <1>1, <1>2 DEF AccountInv, Unissued
<1> HIDE DEF q, n, s
<1>8. PICK name : name = q.user
  OBVIOUS
<1>9. Agree(r, name)'
  <2>1. \A t \in Valid(r)' : t.user = name
    BY <1>4, <1>5, <1>6, <1>7, <1>8 DEF Valid
  <2> QED
    BY <1>2, <2>1 DEF Agree
<1> QED
  BY <1>1, <1>4, <1>5, <1>6, <1>8, <1>9, PageMoved

LEMMA PageLogout ==
  ASSUME AccountInv, PageInv, NEW r \in Slot, Logout(r)
  PROVE  PageInv'
<1> DEFINE q == [req[r] EXCEPT !.at = "answered", !.sid = None]
<1>1. /\ req \in [Slot -> Request \cup {None}]
      /\ req[r] \in Request /\ req[r] # None /\ req[r].kind = "logout"
      /\ req[r].at = "admitted"
  BY DEF Logout, Serving, AccountInv, TypeOK
<1>2. q \in Request
  <2>1. "answered" \in At /\ None \in Session \cup {None} /\ None \in Name \cup {None}
    BY DEF At
  <2> QED
    BY <2>1, <1>1, Granted
<1>3. q.kind = "logout" /\ q.at = "answered" /\ q.sid = None /\ q # None
  BY <1>1, <1>2, RequestAssumption DEF Request
<1>4. /\ req' = [req EXCEPT ![r] = q]
      /\ sessions' \subseteq sessions
      /\ now' = now /\ UNCHANGED <<sent, jar, shown, astray>>
  BY <1>1 DEF Logout, browser
<1> HIDE DEF q
<1> QED
  BY <1>1, <1>3, <1>4, PageMoved

\* Time passes, sessions go, and others are served.
LEMMA PageElsewhere ==
  ASSUME AccountInv, PageInv, TypeOK', Cleanup \/ Tick \/ OtherRequest
  PROVE  PageInv'
<1>1. /\ sessions' \subseteq sessions
      /\ now' \in Int /\ now <= now'
      /\ UNCHANGED <<req, sent, jar, shown, astray>>
  BY ConstantsAssumption DEF Cleanup, Tick, OtherRequest, AccountInv, TypeOK, server, browser
<1>2. \A sid, name : Agree(sid, name) => Agree(sid, name)'
  BY <1>1, AgreeStays DEF AccountInv
<1>3. Answers'
  <2> SUFFICES ASSUME NEW p \in Slot, NEW c, c = req'[p], c # None
               PROVE  Answered(p, c)'
    BY DEF Answers, Answered, Agree, Valid
  <2>1. Answered(p, c)
    BY <1>1 DEF PageInv, Answers
  <2> QED
    BY <1>2, <2>1 DEF Answered
<1>4. Kept'
  BY <1>1 DEF PageInv, Kept
<1>5. InStep'
  BY <1>1, <1>2 DEF PageInv, InStep, Tells, Agree, Valid
<1> QED
  BY <1>3, <1>4, <1>5 DEF PageInv

LEMMA PageAsks ==
  ASSUME AccountInv, PageInv, Submit \/ SignOut
  PROVE  PageInv'
<1> USE ConstantsAssumption
<1>1. PICK kind \in {"login", "register", "logout"}, name \in Name \cup {None},
           pw \in Password \cup {None} : Ask(kind, name, pw)
  BY DEF Submit, SignOut
<1> DEFINE q == Asking(kind, name, pw)
<1>2. /\ q \in Request
      /\ q.kind = kind /\ q.at = "sent"
  BY AskingTyped DEF AccountInv, TypeOK, Asking
<1>3. /\ sent + 1 \in Slot
      /\ req' = [req EXCEPT ![sent + 1] = q]
      /\ UNCHANGED <<now, sessions, jar, shown, astray>>
      /\ sent' = sent + 1
  BY <1>1 DEF Ask, AccountInv, TypeOK, Slot, server
<1> HIDE DEF q
<1>4. req \in [Slot -> Request \cup {None}] /\ sent \in Int /\ Slot \subseteq Int
  BY DEF AccountInv, TypeOK, Slot
<1>5. req[sent + 1] = None
  BY <1>3, <1>4 DEF AccountInv, Made
<1>6. Answers'
  <2> SUFFICES ASSUME NEW p \in Slot, NEW c, c = req'[p], c # None
               PROVE  Answered(p, c)'
    BY DEF Answers, Answered, Agree, Valid
  <2>1. Answered(p, c)
    BY <1>1, <1>2, <1>3, <1>4 DEF PageInv, Answers, Answered
  <2> QED
    BY <1>3, <2>1 DEF Answered, Agree, Valid
<1>7. Kept'
  BY <1>3, <1>4 DEF PageInv, Kept
<1>8. InStep'
  <2>1. \A p \in Slot : req[p] # None => req'[p] = req[p]
    BY <1>3, <1>4, <1>5
  <2> QED
    BY <1>3, <2>1 DEF PageInv, InStep, Tells, Agree, Valid
<1> QED
  BY <1>6, <1>7, <1>8 DEF PageInv

LEMMA PageArrive ==
  ASSUME AccountInv, PageInv, NEW r \in Slot, Arrive(r)
  PROVE  PageInv'
<1> DEFINE q == [req[r] EXCEPT !.at = "arrived"]
<1>1. /\ req \in [Slot -> Request \cup {None}]
      /\ req[r] \in Request /\ req[r] # None
      /\ req[r].kind \in {"login", "register", "logout"}
      /\ req[r].at = "answered"
  BY DEF Arrive, AccountInv, TypeOK, Request
<1>2. /\ q \in Request /\ q # None
      /\ q.kind = req[r].kind /\ q.at = "arrived" /\ q.sid = req[r].sid
      /\ q.user = req[r].user
  <2>1. q \in Request
    BY <1>1, Further DEF At
  <2> QED
    BY <1>1, <2>1, RequestAssumption DEF Request
<1>3. /\ req' = [req EXCEPT ![r] = q]
      /\ jar' = req[r].sid
      /\ UNCHANGED <<now, sessions, sent, shown>>
  BY <1>1 DEF Arrive, server
<1>4. astray' <=> (astray \/ req[r].kind = "logout")
  BY Zenon DEF Arrive
<1> HIDE DEF q
<1>5. Answered(r, req[r])
  BY <1>1 DEF PageInv, Answers
<1>6. Answers'
  <2> SUFFICES ASSUME NEW p \in Slot, NEW c, c = req'[p], c # None
               PROVE  Answered(p, c)'
    BY DEF Answers, Answered, Agree, Valid
  <2>1. Answered(p, c)
    BY <1>1, <1>2, <1>3, <1>5 DEF PageInv, Answers, Answered
  <2> QED
    BY <1>3, <2>1 DEF Answered, Agree, Valid
<1>7. Kept'
  <2>1. r <= sent
    BY <1>1 DEF AccountInv, Made
  <2>2. jar' \in {r, None} /\ None \notin Slot
    BY <1>1, <1>3, <1>5, ConstantsAssumption DEF Answered, Slot
  <2> QED
    BY <1>1, <1>2, <1>3, <2>1, <2>2 DEF Kept
<1>8. InStep'
  <2>1. CASE req[r].kind = "logout"
    BY <1>4, <2>1 DEF InStep
  <2>2. CASE req[r].kind # "logout"
    <3>1. req'[r] # None /\ Tells(req'[r])
      BY <1>1, <1>2, <1>3, <2>2 DEF Tells
    <3> QED
      BY <3>1 DEF InStep, Tells
  <2> QED
    BY <2>1, <2>2
<1> QED
  BY <1>6, <1>7, <1>8 DEF PageInv

\* The page takes an answer: from then on it agrees with the cookie, or it is
\* known to be astray.
LEMMA PageHandle ==
  ASSUME AccountInv, PageInv, NEW r \in Slot, Handle(r)
  PROVE  PageInv'
<1>1. /\ req \in [Slot -> Request \cup {None}]
      /\ req[r] \in Request /\ req[r] # None
  BY DEF Handle, AccountInv, TypeOK
<1>2. /\ req' = [req EXCEPT ![r] = None]
      /\ UNCHANGED <<now, sessions, sent, jar>>
  BY DEF Handle, server
<1>3. Answered(r, req[r])
  BY <1>1 DEF PageInv, Answers
<1>4. Answers'
  <2> SUFFICES ASSUME NEW p \in Slot, NEW c, c = req'[p], c # None
               PROVE  Answered(p, c)'
    BY DEF Answers, Answered, Agree, Valid
  <2>1. Answered(p, c)
    BY <1>1, <1>2 DEF PageInv, Answers
  <2> QED
    BY <1>2, <2>1 DEF Answered, Agree, Valid
<1>5. Kept'
  BY <1>1, <1>2 DEF PageInv, Kept
<1>6. CASE Tells(req[r])
  <2>1. /\ shown' = IF req[r].at = "failed" THEN None ELSE req[r].user
        /\ astray' = \/ req[r].kind = "me" /\ req[r].at = "failed"
                     \/ req[r].sid # jar
    BY <1>6 DEF Handle
  <2>2. astray' <=> \/ req[r].kind = "me" /\ req[r].at = "failed"
                    \/ req[r].sid # jar
    BY <2>1
  <2>3. ASSUME astray' PROVE InStep'
    BY <2>3 DEF InStep
  <2>4. ASSUME ~astray' PROVE InStep'
    <3>1. req[r].sid = jar /\ ~(req[r].kind = "me" /\ req[r].at = "failed")
      BY <2>2, <2>4, Zenon
    <3>2. req[r].kind = "me" => req[r].at = "answered"
      BY <1>3, <3>1 DEF Handle, Serving, Answered
    <3>3. req[r].kind # "me" =>
            req[r].kind \in {"login", "register"} /\ req[r].at = "arrived"
      BY <1>1, <1>6 DEF Tells, Request
    <3>4. shown' = req[r].user /\ Agree(jar, req[r].user)
      BY <1>3, <2>1, <3>1, <3>2, <3>3 DEF Answered
    <3>5. PICK sid, name : sid = jar /\ name = req[r].user
      OBVIOUS
    <3>6. Agree(sid, name) /\ shown' = name /\ jar' = sid
      BY <1>2, <3>4, <3>5
    <3>7. \A s \in sessions' : s.id = jar' /\ s.until > now' => s.user = shown'
      BY <1>2, <3>6 DEF Agree, Valid
    <3>8. jar' = None => shown' = None
      BY <3>6 DEF Agree
    <3>9. Agree(jar, shown)'
      BY <3>7, <3>8 DEF Agree, Valid
    <3> QED
      BY <3>9 DEF InStep
  <2>5. InStep'
    BY <2>3, <2>4
  <2> QED
    BY <1>4, <1>5, <2>5 DEF PageInv
<1>7. CASE ~Tells(req[r])
  <2>1. UNCHANGED <<shown, astray>>
    BY <1>7 DEF Handle
  <2>2. \A p \in Slot : req[p] # None /\ Tells(req[p]) => req'[p] = req[p]
    BY <1>1, <1>2, <1>7
  <2>3. InStep'
    BY <1>2, <2>1, <2>2 DEF PageInv, InStep, Tells, Agree, Valid
  <2> QED
    BY <1>4, <1>5, <2>3 DEF PageInv
<1> QED
  BY <1>6, <1>7

LEMMA InitPage == Init => PageInv
<1> SUFFICES ASSUME Init PROVE PageInv
  OBVIOUS
<1> USE ConstantsAssumption
<1>1. TypeOK
  BY InitInv DEF AccountInv
<1>2. jar \in {None, 0} /\ 0 \notin Slot /\ None \notin Slot /\ 1 \in Slot
  BY DEF Init, Slot
<1> DEFINE q == Asking("me", None, None)
<1>3. q \in Request /\ q.kind = "me" /\ q.at = "sent" /\ q.sid = jar
  BY <1>1, AskingTyped DEF TypeOK, Asking
<1>4. req = [r \in Slot |-> IF r = 1 THEN q ELSE None]
  BY DEF Init
<1> HIDE DEF q
<1>5. Answers
  BY <1>2, <1>3, <1>4 DEF Answers, Answered
<1>6. Kept
  BY <1>2 DEF Kept
<1>7. InStep
  <2>1. req[1] # None /\ Tells(req[1])
    BY <1>2, <1>3, <1>4, RequestAssumption DEF Tells
  <2> QED
    BY <1>2, <2>1 DEF InStep
<1> QED
  BY <1>5, <1>6, <1>7 DEF PageInv

LEMMA StepPage == AccountInv /\ AccountInv' /\ PageInv /\ [Next]_vars => PageInv'
<1> SUFFICES ASSUME AccountInv, AccountInv', PageInv, [Next]_vars
             PROVE  PageInv'
  OBVIOUS
<1>1. ASSUME NEW r \in Slot, Step(r)
      PROVE  PageInv'
  BY <1>1, PageServed, PageMe, PageIssue, PageLogout, PageArrive, PageHandle
     DEF Step
<1>2. CASE UNCHANGED vars
  <2>1. UNCHANGED <<now, sessions, sent, req, jar, shown, astray>>
    BY <1>2 DEF vars
  <2>2. Answers'
    <3> SUFFICES ASSUME NEW p \in Slot, NEW c, c = req'[p], c # None
                 PROVE  Answered(p, c)'
      BY DEF Answers, Answered, Agree, Valid
    <3>1. Answered(p, c)
      BY <2>1 DEF PageInv, Answers
    <3> QED
      BY <2>1, <3>1 DEF Answered, Agree, Valid
  <2>3. Kept' /\ InStep'
    BY <2>1 DEF PageInv, Kept, InStep, Tells, Agree, Valid
  <2> QED
    BY <2>2, <2>3 DEF PageInv
<1>3. CASE Cleanup \/ Tick \/ OtherRequest
  BY <1>3, PageElsewhere DEF AccountInv
<1> QED
  BY <1>1, <1>2, <1>3, PageAsks DEF Next

\* With nothing under way and not astray the page agrees with the cookie.
LEMMA PageQuiet == AccountInv /\ PageInv => ShownIsSignedIn
<1> SUFFICES ASSUME AccountInv, PageInv, \A r \in Slot : req[r] = None, ~astray
             PROVE  /\ Valid(jar) # {} => shown = UserOf(jar)
                    /\ jar = None => shown = None
  BY DEF ShownIsSignedIn
<1>1. Agree(jar, shown)
  BY DEF PageInv, InStep
<1>2. Valid(jar) # {} => shown = UserOf(jar)
  BY <1>1 DEF Agree, UserOf
<1> QED
  BY <1>1, <1>2 DEF Agree

-----------------------------------------------------------------------------
(* The theorems *)

\* The state is of the right shape in every behaviour; in particular no two
\* sessions have an id in common.
THEOREM TypeCorrect == Spec => []TypeOK
<1>1. AccountInv => TypeOK
  BY DEF AccountInv
<1> QED
  BY <1>1, InitInv, StepInv, PTL DEF Spec

\* Every session was given for the password of its account (index.ts:251-286),
\* however many registrations and logins are under way.
THEOREM SessionsByPassword == Spec => []SessionsEarned
<1>1. AccountInv => SessionsEarned
  BY DEF AccountInv
<1> QED
  BY <1>1, InitInv, StepInv, PTL DEF Spec

\* At /api/auth no stretch of a window's length lets more than twice the limit
\* pass (rateLimit, index.ts), whatever the limit, the window and the times of
\* the requests and of the cleanup.
THEOREM TwiceTheLimit == Spec => []AtMostTwice
<1>1. AccountInv => TypeOK
  BY DEF AccountInv
<1>2. RateInv => AtMostTwice
  BY DEF RateInv
<1> QED
  BY <1>1, <1>2, InitInv, StepInv, InitRate, StepRate, PTL DEF Spec

\* With nothing under way and no answer about another cookie taken, the page
\* shows the user of the browser's session (main.tsx:19, 30), whatever the
\* order of the answers and of the server's statements.
THEOREM PageShowsUser == Spec => []ShownIsSignedIn
BY InitInv, StepInv, InitPage, StepPage, PageQuiet, PTL DEF Spec
=============================================================================
