------------------------------ MODULE Accounts ------------------------------
(***************************************************************************)
(* Accounts, sessions and the rate limit of /api/auth as the server keeps  *)
(* them (server/src/index.ts, server/src/security.ts), and the home page   *)
(* of one browser (web/src/main.tsx, web/src/api.ts) that asks who is      *)
(* signed in, signs in and registers.                                      *)
(*                                                                         *)
(* The button of the form stays enabled while an attempt is under way, so  *)
(* several requests of the page may be; the server serves each one await   *)
(* after the other, and the answers may overtake each other.  A password   *)
(* of None is one the rules refuse.                                        *)
(***************************************************************************)
EXTENDS Integers, FiniteSets

CONSTANTS
  Name,         \* usernames
  Password,
  MaxRequests,  \* bound: requests of the browser
  MaxTime,      \* bound: the last tick of the clock
  Ttl,          \* SESSION_TTL_SECONDS
  Window,       \* RATE_WINDOW_MS
  Limit,        \* requests in a window
  None

ASSUME ConstantsAssumption ==
  /\ MaxRequests \in Nat \ {0} /\ MaxTime \in Nat
  /\ Ttl \in Nat \ {0} /\ Window \in Nat \ {0} /\ Limit \in Nat \ {0}
  /\ None \notin Name /\ None \notin Password
  /\ None \notin 0 .. MaxRequests
  /\ None \notin [pw : Password, form : {"legacy", "v2"}]
  /\ None \notin [count : Int, resetAt : Int]

VARIABLES
  now,
  users,     \* users, by name
  sessions,  \* sessions
  rate,      \* authRate, the entry of the one address the proxy has
  admits,    \* the requests that passed, numbered, with their time (history)
  sent,      \* requests the browser has made
  req,       \* those under way
  jar,       \* the browser's yazykon_session cookie
  shown,     \* the user the page shows as signed in
  astray     \* the page has not heard of its cookie's session (history)

vars == <<now, users, sessions, rate, admits, sent, req, jar, shown, astray>>
server == <<users, sessions, rate, admits>>
browser == <<sent, jar, shown, astray>>

Slot == 1 .. MaxRequests
\* A session has the number of the request that got it; 0 is an old one.
Session == 0 .. MaxRequests
Row == [pw : Password, form : {"legacy", "v2"}]
\* at: how far the server or the browser is; sid: the cookie the request
\* carries, later the one its answer sets; user: whom the answer names.
Request ==
  [kind : {"me", "login", "register", "logout"},
   name : Name \cup {None}, pw : Password \cup {None},
   at : {"sent", "admitted", "legacy", "checked", "created", "answered",
         "failed", "arrived"},
   sid : Session \cup {None}, user : Name \cup {None}]
ASSUME RequestAssumption == None \notin Request

\* pw: the password it was given for (history).
SessionRow == [id : Session, user : Name, until : Int, pw : Password]

TypeOK ==
  /\ now \in 0 .. MaxTime
  /\ users \in [Name -> Row \cup {None}]
  /\ sessions \subseteq SessionRow
  /\ \A s, t \in sessions : s.id = t.id => s = t
  /\ rate \in [count : 1 .. Limit, resetAt : Int] \cup {None}
  /\ admits \subseteq [at : 0 .. MaxTime, nr : Nat] /\ IsFiniteSet(admits)
  /\ sent \in Slot
  /\ req \in [Slot -> Request \cup {None}]
  /\ jar \in Session \cup {None}
  /\ shown \in Name \cup {None}
  /\ astray \in BOOLEAN

Asking(kind, name, pw) ==
  [kind |-> kind, name |-> name, pw |-> pw, at |-> "sent", sid |-> jar,
   user |-> None]

\* The page is opened, with or without the cookie of an earlier visit, and
\* asks for its user.  Accounts of the first version have legacy hashes.
Init ==
  /\ now = 0 /\ rate = None /\ admits = {}
  /\ users \in [Name -> [pw : Password, form : {"legacy"}] \cup {None}]
  /\ \/ jar = None /\ sessions = {}
     \/ \E n \in Name :
          /\ users[n] # None
          /\ jar = 0
          /\ sessions = {[id |-> 0, user |-> n, until |-> Ttl, pw |-> users[n].pw]}
  /\ sent = 1
  /\ req = [r \in Slot |-> IF r = 1 THEN Asking("me", None, None) ELSE None]
  /\ shown = None /\ astray = FALSE

-----------------------------------------------------------------------------
(* The rate limit *)

\* The entry of the address still counts.
Current(t) == rate # None /\ rate.resetAt > t

PassesAlways == TRUE                               \* mutant: the limit is not looked at

Passes == ~(Current(now) /\ rate.count >= Limit)

Counted ==
  /\ rate' = IF Current(now) THEN [rate EXCEPT !.count = @ + 1]
             ELSE [count |-> 1, resetAt |-> now + Window]
  /\ admits' = admits \cup {[at |-> now, nr |-> Cardinality(admits) + 1]}

\* Another user of the same proxy.
OtherRequest ==
  /\ Passes
  /\ Counted
  /\ UNCHANGED <<now, users, sessions, req, browser>>

Admit(r) ==
  /\ req[r] # None /\ req[r].at = "sent"
  /\ IF Passes
     THEN Counted /\ req' = [req EXCEPT ![r].at = "admitted"]
     ELSE UNCHANGED <<rate, admits>> /\ req' = [req EXCEPT ![r].at = "failed"]
  /\ UNCHANGED <<now, users, sessions, browser>>

-----------------------------------------------------------------------------
(* The handlers, from one await to the next *)

Serving(r, kind, at) ==
  req[r] # None /\ req[r].kind = kind /\ req[r].at = at

\* currentUser
Valid(sid) == {s \in sessions : s.id = sid /\ s.until > now}

\* mutant: the row of the session goes out
UserOfRow(sid) == IF \E s \in Valid(sid) : TRUE
                  THEN CHOOSE s \in Valid(sid) : TRUE ELSE None

UserOf(sid) == IF \E s \in Valid(sid) : TRUE
               THEN (CHOOSE s \in Valid(sid) : TRUE).user ELSE None

Me(r) ==
  /\ Serving(r, "me", "admitted")
  /\ req' = [req EXCEPT ![r].at = "answered", ![r].user = UserOf(req[r].sid)]
  /\ UNCHANGED <<now, server, browser>>

MayTakeAny(q) == q.pw # None                       \* mutant: a taken name is taken over

\* INSERT INTO users: the name is unique, the password keeps the rules.
MayTake(q) == q.pw # None /\ users[q.name] = None

Register(r) ==
  /\ Serving(r, "register", "admitted")
  /\ IF MayTake(req[r])
     THEN /\ users' = [users EXCEPT ![req[r].name] =
                         [pw |-> req[r].pw, form |-> "v2"]]
          /\ req' = [req EXCEPT ![r].at = "created"]
     ELSE UNCHANGED users /\ req' = [req EXCEPT ![r].at = "failed"]
  /\ UNCHANGED <<now, sessions, rate, admits, browser>>

\* verifyPassword, of either form
Verified(q) == q.pw # None /\ users[q.name] # None /\ users[q.name].pw = q.pw

Login(r) ==
  /\ Serving(r, "login", "admitted")
  /\ req' = [req EXCEPT ![r].at =
               IF ~Verified(req[r]) THEN "failed"
               ELSE IF users[req[r].name].form = "legacy" THEN "legacy"
               ELSE "checked"]
  /\ UNCHANGED <<now, server, browser>>

\* A verified password is hashed again in the new form.
Upgrade(r) ==
  /\ Serving(r, "login", "legacy")
  /\ users' = [users EXCEPT ![req[r].name] = [pw |-> req[r].pw, form |-> "v2"]]
  /\ req' = [req EXCEPT ![r].at = "checked"]
  /\ UNCHANGED <<now, sessions, rate, admits, browser>>

\* INSERT INTO sessions, and the answer with its cookie.
Issue(r) ==
  /\ Serving(r, "login", "checked") \/ Serving(r, "register", "created")
  /\ sessions' = sessions \cup
       {[id |-> r, user |-> req[r].name, until |-> now + Ttl, pw |-> req[r].pw]}
  /\ req' = [req EXCEPT ![r].at = "answered", ![r].sid = r,
                        ![r].user = req[r].name]
  /\ UNCHANGED <<now, users, rate, admits, browser>>

\* No page of the repository calls it.
Logout(r) ==
  /\ Serving(r, "logout", "admitted")
  /\ sessions' = {s \in sessions : s.id # req[r].sid}
  /\ req' = [req EXCEPT ![r].at = "answered", ![r].sid = None]
  /\ UNCHANGED <<now, users, rate, admits, browser>>

\* A statement fails, or the answer is lost.  What was done stays done.
Fail(r) ==
  /\ req[r] # None
  /\ req[r].at \in {"admitted", "legacy", "checked", "created", "answered"}
  /\ req' = [req EXCEPT ![r].at = "failed"]
  /\ UNCHANGED <<now, server, browser>>

Expired == {s \in sessions : s.until <= now}

\* The hourly cleanup.
Cleanup ==
  /\ sessions' = sessions \ Expired
  /\ rate' = IF Current(now) THEN rate ELSE None
  /\ UNCHANGED <<now, users, admits, req, browser>>

Tick ==
  /\ now < MaxTime
  /\ now' = now + 1
  /\ UNCHANGED <<server, req, browser>>

-----------------------------------------------------------------------------
(* The home page *)

\* handleAuth, or a logout from outside the page.
Ask(kind, name, pw) ==
  /\ sent < MaxRequests
  /\ sent' = sent + 1
  /\ req' = [req EXCEPT ![sent + 1] = Asking(kind, name, pw)]
  /\ UNCHANGED <<now, server, jar, shown, astray>>

Submit == \E kind \in {"login", "register"}, n \in Name, pw \in Password :
            Ask(kind, n, pw)

SignOut == Ask("logout", None, None)

\* The browser keeps the cookie of an answer before the page reads its body.
Arrive(r) ==
  /\ req[r] # None /\ req[r].at = "answered" /\ req[r].kind # "me"
  /\ jar' = req[r].sid
  /\ astray' = (astray \/ req[r].kind = "logout")
  /\ req' = [req EXCEPT ![r].at = "arrived"]
  /\ UNCHANGED <<now, server, sent, shown>>

TellsAlways(q) == q.kind # "logout"    \* mutant: a refused attempt calls it, too

\* setUser is called: always with the answer of "me", and with the user an
\* attempt got in as.
Tells(q) == q.kind = "me" \/ (q.kind # "logout" /\ q.at = "arrived")

\* The page takes an answer; a failed "me" counts as nobody.
Handle(r) ==
  /\ req[r] # None
  /\ req[r].at \in {"arrived", "failed"} \/ Serving(r, "me", "answered")
  /\ IF Tells(req[r])
     THEN /\ shown' = IF req[r].at = "failed" THEN None ELSE req[r].user
          /\ astray' = \/ req[r].kind = "me" /\ req[r].at = "failed"
                       \/ req[r].sid # jar
     ELSE UNCHANGED <<shown, astray>>
  /\ req' = [req EXCEPT ![r] = None]
  /\ UNCHANGED <<now, server, sent, jar>>

Step(r) ==
  \/ Admit(r) \/ Me(r) \/ Register(r) \/ Login(r) \/ Upgrade(r) \/ Issue(r)
  \/ Logout(r) \/ Fail(r) \/ Arrive(r) \/ Handle(r)

Next ==
  \/ \E r \in Slot : Step(r)
  \/ OtherRequest \/ Cleanup \/ Tick \/ Submit \/ SignOut

Spec == Init /\ [][Next]_vars
-----------------------------------------------------------------------------
(* Properties *)

\* Whoever holds a session gave the password the account has: of two
\* registrations of a name one wins, and the new hash of a legacy account is
\* that of the old password, whatever the order of the statements.
SessionsEarned ==
  \A s \in sessions : users[s.user] \in Row /\ users[s.user].pw = s.pw

\* When nothing is under way the page shows the user of the browser's session,
\* and nobody without one.  It need not when the session has run out, and
\* not when it took an answer about another cookie than the browser's last
\* (main.tsx:19, 30 look at no order), when the "me" of its start failed or
\* was refused by the rate limit (api.ts:54), or after a logout elsewhere.
ShownIsSignedIn ==
  (\A r \in Slot : req[r] = None) /\ ~astray =>
    /\ Valid(jar) # {} => shown = UserOf(jar)
    /\ jar = None => shown = None

Passed(first, last) == Cardinality({a \in admits : a.at \in first .. last})

\* The window is fixed to the first request: what passes in any stretch of its
\* length may reach twice the limit and not more.
AtMostTwice ==
  \A t \in 0 .. MaxTime : Passed(t, t + Window - 1) <= 2 * Limit

=============================================================================
