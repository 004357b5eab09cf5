----------------------------- MODULE ChatProofs -----------------------------
(***************************************************************************)
(* Proofs about Chat: the type correctness of the page and the database,   *)
(* that no message is in the page's list twice, what a page of history     *)
(* leaves out, and that nothing else is lost.                              *)
(***************************************************************************)
EXTENDS Chat, FiniteSetTheorems, FunctionTheorems, SequenceTheorems, TLAPS

-----------------------------------------------------------------------------
(* The order of the messages, and ranks in it *)

LEMMA MessageNumbers ==
  ASSUME NEW m \in Message
  PROVE  m.t \in Int /\ m.id \in Int /\ m.t \in 0 .. MaxTick /\ m.id \in Id
<1>1. m.t \in 0 .. MaxTick /\ m.id \in Id
  BY DEF Message
<1>2. Id \subseteq Int /\ 0 .. MaxTick \subseteq Int
  BY ConstantsAssumption
<1> QED
  BY <1>1, <1>2

LEMMA BeforeOrder ==
  ASSUME NEW a \in Message, NEW b \in Message, NEW c \in Message
  PROVE  /\ ~Before(a, a)
         /\ a = b \/ Before(a, b) \/ Before(b, a)
         /\ Before(a, b) /\ Before(b, c) => Before(a, c)
<1>1. /\ a.t \in Int /\ b.t \in Int /\ c.t \in Int
      /\ a.id \in Int /\ b.id \in Int /\ c.id \in Int
  BY MessageNumbers
<1>2. a.t = b.t /\ a.id = b.id => a = b
  BY DEF Message
<1> HIDE DEF Message
<1>3. a = b \/ Before(a, b) \/ Before(b, a)
  BY <1>1, <1>2 DEF Before
<1>4. ~Before(a, a) /\ (Before(a, b) /\ Before(b, c) => Before(a, c))
  BY <1>1 DEF Before
<1> QED
  BY <1>3, <1>4

\* Different numbers for all of a finite set, as many as it has elements, leave
\* none out.
LEMMA Counted ==
  ASSUME NEW S, IsFiniteSet(S), NEW lo \in Int, NEW hi \in Int,
         lo <= hi + 1, Cardinality(S) = hi - lo + 1,
         NEW f \in [S -> lo .. hi],
         \A a, b \in S : f[a] = f[b] => a = b
  PROVE  \A k \in lo .. hi : \E m \in S : f[m] = k
<1>1. f \in Injection(S, lo .. hi)
  BY Fun_IsInj
<1>2. IsFiniteSet(lo .. hi) /\ Cardinality(lo .. hi) = hi - lo + 1
  BY FS_Interval
<1>3. f \in Surjection(S, lo .. hi)
  BY <1>1, <1>2, FS_Injection
<1> QED
  BY <1>3, Fun_SurjectionProperties

Rank(S, m) == Cardinality({n \in S : Before(n, m)})

LEMMA RankBounds ==
  ASSUME NEW S \in SUBSET Message, IsFiniteSet(S), NEW m \in S
  PROVE  Rank(S, m) \in 0 .. Cardinality(S) - 1
<1> DEFINE L == {n \in S : Before(n, m)}
<1>1. L \in SUBSET S /\ m \notin L /\ L # S
  BY BeforeOrder
<1>2. /\ IsFiniteSet(L) /\ Cardinality(L) <= Cardinality(S)
      /\ Cardinality(S) = Cardinality(L) => S = L
  BY <1>1, FS_Subset
<1>3. Cardinality(L) \in Nat /\ Cardinality(S) \in Nat
  BY <1>2, FS_CardinalityType
<1> QED
  BY <1>1, <1>2, <1>3 DEF Rank

LEMMA RankGrows ==
  ASSUME NEW S \in SUBSET Message, IsFiniteSet(S), NEW a \in S, NEW b \in S,
         Before(a, b)
  PROVE  Rank(S, a) < Rank(S, b)
<1> DEFINE A == {n \in S : Before(n, a)}
           B == {n \in S : Before(n, b)}
<1>1. A \in SUBSET B /\ a \in B /\ a \notin A /\ B \in SUBSET S
  BY BeforeOrder
<1>2. IsFiniteSet(B)
  BY <1>1, FS_Subset
<1>3. /\ IsFiniteSet(A) /\ Cardinality(A) <= Cardinality(B)
      /\ Cardinality(B) = Cardinality(A) => B = A
  BY <1>1, <1>2, FS_Subset
<1>4. Cardinality(A) \in Nat /\ Cardinality(B) \in Nat
  BY <1>2, <1>3, FS_CardinalityType
<1> QED
  BY <1>1, <1>3, <1>4 DEF Rank

\* Every rank is somebody's.
LEMMA Ranked ==
  ASSUME NEW S \in SUBSET Message, IsFiniteSet(S)
  PROVE  /\ \A k \in 0 .. Cardinality(S) - 1 : \E m \in S : Rank(S, m) = k
         /\ \A a, b \in S : Rank(S, a) = Rank(S, b) => a = b
<1> DEFINE f == [m \in S |-> Rank(S, m)]
<1>1. Cardinality(S) \in Nat
  BY FS_CardinalityType
<1>2. f \in [S -> 0 .. Cardinality(S) - 1]
  BY RankBounds
<1>3. \A a, b \in S : f[a] = f[b] => a = b
  <2> SUFFICES ASSUME NEW a \in S, NEW b \in S, Rank(S, a) = Rank(S, b)
               PROVE  a = b
    OBVIOUS
  <2>1. Rank(S, a) \in Nat /\ Rank(S, b) \in Nat
    BY <1>1, RankBounds
  <2> QED
    BY <2>1, RankGrows, BeforeOrder
<1> HIDE DEF f
<1>4. \A k \in 0 .. Cardinality(S) - 1 : \E m \in S : f[m] = k
  BY <1>1, <1>2, <1>3, Counted
<1> QED
  BY <1>3, <1>4 DEF f

\* A page that has rows has an oldest one.
LEMMA OldestIs ==
  ASSUME NEW S \in SUBSET Message, IsFiniteSet(S), S # {}
  PROVE  Oldest(S) \in S /\ \A n \in S \ {Oldest(S)} : Before(Oldest(S), n)
<1>1. Cardinality(S) \in Nat /\ Cardinality(S) # 0
  BY FS_CardinalityType, FS_EmptySet
<1>2. PICK m \in S : Rank(S, m) = 0
  BY <1>1, Ranked
<1>3. {n \in S : Before(n, m)} = {}
  <2>1. IsFiniteSet({n \in S : Before(n, m)})
    BY FS_Subset
  <2> QED
    BY <1>2, <2>1, FS_EmptySet DEF Rank
<1>4. \A n \in S \ {m} : Before(m, n)
  BY <1>3, BeforeOrder
<1> QED
  BY <1>4 DEF Oldest

-----------------------------------------------------------------------------
(* The list *)

Distinct(s) == \A p, q \in DOMAIN s : s[p] = s[q] => p = q

LEMMA LastOfKeeps ==
  ASSUME NEW S, NEW s \in Seq(S), NEW limit \in Nat
  PROVE  /\ LastOf(s, limit) \in Seq(S)
         /\ Distinct(s) => Distinct(LastOf(s, limit))
<1>1. CASE Len(s) <= limit
  BY <1>1 DEF LastOf
<1>2. CASE ~(Len(s) <= limit)
  <2> DEFINE k == Len(s) - limit
             r == SubSeq(s, k + 1, Len(s))
  <2>1. k \in Nat /\ k + limit = Len(s) /\ Len(s) \in Nat
    BY <1>2
  <2>2. /\ r \in Seq(S) /\ Len(r) = limit
        /\ \A p \in 1 .. limit : r[p] = s[k + p]
    BY <2>1
  <2>3. LastOf(s, limit) = r
    BY <1>2 DEF LastOf
  <2> HIDE DEF r
  <2>4. Distinct(s) => Distinct(r)
    <3> SUFFICES ASSUME Distinct(s), NEW p \in 1 .. limit, NEW q \in 1 .. limit,
                        r[p] = r[q]
                 PROVE  p = q
      BY <2>2 DEF Distinct
    <3>1. /\ k + p \in DOMAIN s /\ k + q \in DOMAIN s
          /\ s[k + p] = s[k + q]
      BY <2>1, <2>2
    <3>2. k + p = k + q
      BY <3>1 DEF Distinct
    <3> QED
      BY <2>1, <3>2
  <2> QED
    BY <2>2, <2>3, <2>4
<1> QED
  BY <1>1, <1>2

\* The rows of a page, in their order.
LEMMA AscendingIs ==
  ASSUME NEW S \in SUBSET Message, IsFiniteSet(S)
  PROVE  Ascending(S) \in Seq(S) /\ Distinct(Ascending(S))
<1> DEFINE n == Cardinality(S)
           f == [p \in 1 .. n |-> CHOOSE m \in S : Rank(S, m) = p - 1]
<1>1. n \in Nat
  BY FS_CardinalityType
<1>2. \A p \in 1 .. n : f[p] \in S /\ Rank(S, f[p]) = p - 1
  <2> TAKE p \in 1 .. n
  <2>1. p - 1 \in 0 .. n - 1
    BY <1>1
  <2>2. \E m \in S : Rank(S, m) = p - 1
    BY <2>1, Ranked
  <2> QED
    BY <2>2
<1>3. Ascending(S) = f
  BY DEF Ascending, Rank
<1> HIDE DEF f, n
<1>4. Ascending(S) \in [1 .. n -> S]
  BY <1>2, <1>3 DEF f
<1>5. Ascending(S) \in Seq(S)
  BY <1>1, <1>4
<1>6. Distinct(Ascending(S))
  BY <1>1, <1>2, <1>3, <1>4 DEF Distinct
<1> QED
  BY <1>5, <1>6

\* The place a stable sort by the timestamp gives to an element.
Preceding(s, i) ==
  {j \in DOMAIN s : \/ Millisecond(s[j]) < Millisecond(s[i])
                    \/ Millisecond(s[j]) = Millisecond(s[i]) /\ j <= i}
Place(s, i) == Cardinality(Preceding(s, i))

LEMMA MillisecondType ==
  ASSUME NEW m \in Message
  PROVE  Millisecond(m) \in Int
BY MessageNumbers, ConstantsAssumption DEF Millisecond

LEMMA Placed ==
  ASSUME NEW s \in Seq(Message)
  PROVE  /\ \A i \in DOMAIN s : Place(s, i) \in 1 .. Len(s)
         /\ \A i, j \in DOMAIN s : Place(s, i) = Place(s, j) => i = j
         /\ \A p \in DOMAIN s : \E i \in DOMAIN s : Place(s, i) = p
<1>1. /\ DOMAIN s = 1 .. Len(s) /\ Len(s) \in Nat
      /\ IsFiniteSet(DOMAIN s) /\ Cardinality(DOMAIN s) = Len(s)
  <2>1. DOMAIN s = 1 .. Len(s) /\ Len(s) \in Nat
    OBVIOUS
  <2> QED
    BY <2>1, FS_Interval
<1>2. \A i \in DOMAIN s : Millisecond(s[i]) \in Int
  BY MillisecondType
<1>3. \A i \in DOMAIN s :
        /\ IsFiniteSet(Preceding(s, i)) /\ Place(s, i) \in 1 .. Len(s)
  <2> TAKE i \in DOMAIN s
  <2>1. Preceding(s, i) \in SUBSET DOMAIN s /\ i \in Preceding(s, i)
    BY <1>1, <1>2 DEF Preceding
  <2>2. /\ IsFiniteSet(Preceding(s, i))
        /\ Cardinality(Preceding(s, i)) <= Len(s)
    BY <1>1, <2>1, FS_Subset
  <2>3. Cardinality(Preceding(s, i)) \in Nat /\ Cardinality(Preceding(s, i)) # 0
    BY <2>1, <2>2, FS_CardinalityType, FS_EmptySet
  <2> QED
    BY <1>1, <2>2, <2>3 DEF Place
<1>4. \A i, j \in DOMAIN s : i # j => i \in Preceding(s, j) \/ j \in Preceding(s, i)
  BY <1>1, <1>2 DEF Preceding
<1>5. \A i, j \in DOMAIN s : i # j /\ i \in Preceding(s, j) => Place(s, i) # Place(s, j)
  <2> SUFFICES ASSUME NEW i \in DOMAIN s, NEW j \in DOMAIN s, i # j,
                      i \in Preceding(s, j)
               PROVE  Place(s, i) # Place(s, j)
    OBVIOUS
  <2>1. /\ Preceding(s, i) \in SUBSET Preceding(s, j)
        /\ j \in Preceding(s, j) /\ j \notin Preceding(s, i)
    BY <1>1, <1>2 DEF Preceding
  <2> QED
    BY <1>3, <2>1, FS_Subset DEF Place
<1>6. \A i, j \in DOMAIN s : Place(s, i) = Place(s, j) => i = j
  BY <1>4, <1>5
<1>7. \A p \in DOMAIN s : \E i \in DOMAIN s : Place(s, i) = p
  <2> DEFINE D == 1 .. Len(s)
             f == [i \in D |-> Place(s, i)]
  <2>1. f \in [D -> 1 .. Len(s)]
    BY <1>1, <1>3
  <2>2. \A a, b \in D : f[a] = f[b] => a = b
    BY <1>1, <1>6
  <2>3. /\ IsFiniteSet(D) /\ Cardinality(D) = Len(s) - 1 + 1
        /\ 1 \in Int /\ Len(s) \in Int /\ 1 <= Len(s) + 1
    BY <1>1
  <2> HIDE DEF f, D
  <2>4. \A k \in 1 .. Len(s) : \E i \in D : f[i] = k
    BY <2>1, <2>2, <2>3, Counted
  <2> QED
    BY <1>1, <2>4 DEF f, D
<1> QED
  BY <1>3, <1>6, <1>7

\* Sorting rearranges the list.
LEMMA SortedIs ==
  ASSUME NEW S \in SUBSET Message, NEW s \in Seq(S)
  PROVE  Sorted(s) \in Seq(S) /\ (Distinct(s) => Distinct(Sorted(s)))
<1>1. s \in Seq(Message) /\ DOMAIN s = 1 .. Len(s) /\ Len(s) \in Nat
  OBVIOUS
<1> DEFINE at == [p \in DOMAIN s |-> CHOOSE i \in DOMAIN s : p = Place(s, i)]
<1>2. \A p \in DOMAIN s : at[p] \in DOMAIN s /\ Place(s, at[p]) = p
  BY <1>1, Placed
<1>3. Sorted(s) = [p \in DOMAIN s |-> s[at[p]]]
  BY DEF Sorted, Place, Preceding
<1> HIDE DEF at
<1>4. Sorted(s) \in [1 .. Len(s) -> S]
  BY <1>1, <1>2, <1>3
<1>5. Sorted(s) \in Seq(S)
  BY <1>1, <1>4
<1>6. Distinct(s) => Distinct(Sorted(s))
  <2>0. /\ DOMAIN Sorted(s) = DOMAIN s
        /\ \A p \in DOMAIN s : Sorted(s)[p] = s[at[p]]
    BY <1>3
  <2> SUFFICES ASSUME Distinct(s), NEW p \in DOMAIN s, NEW q \in DOMAIN s,
                      s[at[p]] = s[at[q]]
               PROVE  p = q
    BY <2>0 DEF Distinct
  <2>1. at[p] = at[q]
    BY <1>2 DEF Distinct
  <2> QED
    BY <1>2, <2>1
<1> QED
  BY <1>5, <1>6

-----------------------------------------------------------------------------
(* The steps *)

\* Answers under way hold rows of the database.
AnswersOf ==
  /\ first # None => first.rows \subseteq db
  /\ older # None => older.rows \subseteq db

ChatInv == TypeOK /\ IsFiniteSet(db) /\ AnswersOf /\ NoDuplicates

\* The cursor of a message is a time that may be.
LEMMA CursorType ==
  ASSUME NEW m \in Message
  PROVE  Cursor(m) \in Message
<1> USE ConstantsAssumption
<1>1. m.t \in 0 .. MaxTick /\ m.id \in Id
  BY MessageNumbers
<1> DEFINE q == m.t \div Ticks
<1>2. q \in Nat /\ q * Ticks <= m.t /\ q * Ticks \in Nat
  BY <1>1
<1>3. q * Ticks \in 0 .. MaxTick
  BY <1>1, <1>2
<1> QED
  BY <1>1, <1>3 DEF Cursor, Millisecond, Message

LEMMA PageIs ==
  ASSUME db \in SUBSET Message, IsFiniteSet(db), NEW cursor
  PROVE  Page(cursor) \in Answer /\ Page(cursor).rows \subseteq db
<1> DEFINE S == IF cursor = None THEN db ELSE {m \in db : Before(m, cursor)}
           rows == Newest(S)
           next == IF rows = {} THEN None ELSE Cursor(Oldest(rows))
<1>1. rows \subseteq db
  BY DEF Newest
<1>2. rows \in SUBSET Message /\ IsFiniteSet(rows)
  BY <1>1, FS_Subset
<1> HIDE DEF rows
<1>3. next \in Message \cup {None}
  BY <1>2, OldestIs, CursorType
<1>4. HasMore(rows) \in BOOLEAN
  BY DEF HasMore
<1>5. Page(cursor) = [rows |-> rows, next |-> next, more |-> HasMore(rows),
                      stale |-> FALSE]
  BY DEF Page, rows
<1> HIDE DEF next
<1> QED
  BY <1>1, <1>2, <1>3, <1>4, <1>5 DEF Answer

LEMMA ShownIs ==
  ASSUME NEW S, chat \in Seq(S)
  PROVE  Shown \subseteq S
BY DEF Shown

\* A message that arrives, and a page that is merged, leave a list of messages
\* of the database, each of them once.
LEMMA AppendedIs ==
  ASSUME chat \in Seq(db), NoDuplicates, NEW m \in db
  PROVE  Appended(m) \in Seq(db) /\ Distinct(Appended(m))
<1>1. CASE m \in Shown
  BY <1>1 DEF Appended, NoDuplicates, Distinct
<1>2. CASE m \notin Shown
  <2> DEFINE s == Append(chat, m)
  <2>1. s \in Seq(db) /\ Len(s) = Len(chat) + 1 /\ Len(chat) \in Nat
        /\ DOMAIN chat = 1 .. Len(chat) /\ DOMAIN s = 1 .. Len(chat) + 1
        /\ s[Len(chat) + 1] = m
        /\ \A p \in 1 .. Len(chat) : s[p] = chat[p]
    OBVIOUS
  <2> HIDE DEF s
  <2>2. Distinct(s)
    <3> SUFFICES ASSUME NEW p \in 1 .. Len(chat) + 1, NEW q \in 1 .. Len(chat) + 1,
                        s[p] = s[q]
                 PROVE  p = q
      BY <2>1 DEF Distinct
    <3>1. \A i \in 1 .. Len(chat) : chat[i] # m
      BY <1>2, <2>1 DEF Shown
    <3>2. CASE p \in 1 .. Len(chat) /\ q \in 1 .. Len(chat)
      BY <2>1, <3>2 DEF NoDuplicates
    <3>3. CASE p = Len(chat) + 1 \/ q = Len(chat) + 1
      BY <2>1, <3>1, <3>3
    <3> QED
      BY <2>1, <3>2, <3>3
  <2>3. Live \in Nat
    BY ConstantsAssumption
  <2>4. LastOf(s, Live) \in Seq(db) /\ Distinct(LastOf(s, Live))
    BY <2>1, <2>2, <2>3, LastOfKeeps
  <2> QED
    BY <1>2, <2>4 DEF Appended, s
<1> QED
  BY <1>1, <1>2

LEMMA MergedIs ==
  ASSUME db \in SUBSET Message, IsFiniteSet(db),
         chat \in Seq(db), NoDuplicates,
         NEW rows \in SUBSET db, NEW limit \in Nat
  PROVE  Merged(rows, limit) \in Seq(db) /\ Distinct(Merged(rows, limit))
<1> DEFINE new == Ascending(rows \ Shown)
           s == chat \o new
<1>1. new \in Seq(rows \ Shown) /\ Distinct(new)
  <2>1. rows \ Shown \in SUBSET Message /\ IsFiniteSet(rows \ Shown)
    BY FS_Subset
  <2> QED
    BY <2>1, AscendingIs
<1> HIDE DEF new
<1>2. new \in Seq(db) /\ \A p \in DOMAIN new : new[p] \notin Shown
  BY <1>1
<1>3. /\ s \in Seq(db) /\ Len(chat) \in Nat /\ Len(new) \in Nat
      /\ DOMAIN s = 1 .. Len(chat) + Len(new)
      /\ DOMAIN chat = 1 .. Len(chat) /\ DOMAIN new = 1 .. Len(new)
      /\ \A p \in 1 .. Len(chat) : s[p] = chat[p] /\ chat[p] \in Shown
      /\ \A p \in Len(chat) + 1 .. Len(chat) + Len(new) :
           s[p] = new[p - Len(chat)] /\ p - Len(chat) \in 1 .. Len(new)
  BY <1>2 DEF Shown
<1> HIDE DEF s
<1>4. Distinct(s)
  <2> SUFFICES ASSUME NEW p \in 1 .. Len(chat) + Len(new),
                      NEW q \in 1 .. Len(chat) + Len(new), s[p] = s[q]
               PROVE  p = q
    BY <1>3 DEF Distinct
  <2>1. CASE p <= Len(chat) /\ q <= Len(chat)
    BY <1>3, <2>1 DEF NoDuplicates
  <2>2. CASE p > Len(chat) /\ q > Len(chat)
    <3>1. /\ p \in Len(chat) + 1 .. Len(chat) + Len(new)
          /\ q \in Len(chat) + 1 .. Len(chat) + Len(new)
      BY <1>3, <2>2
    <3>2. /\ p - Len(chat) \in DOMAIN new /\ q - Len(chat) \in DOMAIN new
          /\ new[p - Len(chat)] = new[q - Len(chat)]
      BY <1>3, <3>1
    <3>3. p - Len(chat) = q - Len(chat)
      BY <1>1, <3>2 DEF Distinct
    <3> QED
      BY <1>3, <3>3
  <2>3. ASSUME NEW i \in 1 .. Len(chat) + Len(new),
               NEW j \in 1 .. Len(chat) + Len(new),
               i <= Len(chat), j > Len(chat)
        PROVE  s[i] # s[j]
    <3>1. i \in 1 .. Len(chat) /\ j \in Len(chat) + 1 .. Len(chat) + Len(new)
      BY <1>3, <2>3
    <3>2. s[i] \in Shown
      BY <1>3, <3>1
    <3>3. s[j] \notin Shown
      BY <1>2, <1>3, <3>1
    <3> QED
      BY <3>2, <3>3
  <2> QED
    BY <1>3, <2>1, <2>2, <2>3
<1>5. Sorted(s) \in Seq(db) /\ Distinct(Sorted(s))
  BY <1>3, <1>4, SortedIs
<1>6. LastOf(Sorted(s), limit) \in Seq(db) /\ Distinct(LastOf(Sorted(s), limit))
  BY <1>5, LastOfKeeps
<1> QED
  BY <1>6 DEF Merged, s, new

LEMMA InitInv == Init => ChatInv
<1> SUFFICES ASSUME Init PROVE ChatInv
  OBVIOUS
<1>1. <<>> \in Seq({}) /\ DOMAIN <<>> = {}
  OBVIOUS
<1>2. wire \in Seq(db) /\ chat \in Seq(db) /\ DOMAIN chat = {}
  BY <1>1 DEF Init
<1>3. TypeOK
  BY <1>2 DEF Init, TypeOK
<1>4. IsFiniteSet(db) /\ AnswersOf /\ NoDuplicates
  BY <1>2, FS_EmptySet DEF Init, AnswersOf, NoDuplicates
<1> QED
  BY <1>3, <1>4 DEF ChatInv

\* A new row.
LEMMA StoreInv ==
  ASSUME ChatInv, NEW m \in Message, Store(m)
  PROVE  ChatInv'
<1>1. /\ db' = db \cup {m} /\ calls' = calls \cup {m}
      /\ UNCHANGED <<replies, wire, missed, stage, first, older, chat, more, before>>
  BY DEF Store, page
<1>2. IsFiniteSet(db')
  BY <1>1, FS_AddElement DEF ChatInv
<1>3. wire' \in Seq(db') /\ chat' \in Seq(db')
  BY <1>1 DEF ChatInv, TypeOK
<1>4. TypeOK'
  BY <1>1, <1>3 DEF ChatInv, TypeOK
<1>5. AnswersOf' /\ NoDuplicates'
  BY <1>1 DEF ChatInv, AnswersOf, NoDuplicates
<1> QED
  BY <1>2, <1>4, <1>5 DEF ChatInv

\* What the SFU does, and an answer that is lost.
LEMMA CalledInv ==
  ASSUME ChatInv, NEW m \in Message, Handled(m) \/ ReplyFails(m)
  PROVE  ChatInv'
<1>1. /\ UNCHANGED <<db, stage, first, older, chat, more, before>>
      /\ calls' \subseteq calls
  BY DEF Handled, Announce, CallFails, Called, ReplyFails, page
<1>2. /\ replies' \subseteq db /\ missed' \subseteq db
      /\ wire' \in Seq(db)
  <2>1. CASE Handled(m)
    <3>1. m \in db
      BY <2>1 DEF Handled, Announce, CallFails, Called, ChatInv, TypeOK
    <3>2. wire' \in {wire, Append(wire, m)}
      BY <2>1 DEF Handled, Announce, CallFails
    <3>3. wire' \in Seq(db)
      BY <3>1, <3>2 DEF ChatInv, TypeOK
    <3>4. replies' \subseteq replies \cup {m} /\ missed' \subseteq missed \cup {m}
      BY <2>1 DEF Handled, Announce, CallFails, Called
    <3> QED
      BY <3>1, <3>3, <3>4 DEF ChatInv, TypeOK
  <2>2. CASE ReplyFails(m)
    BY <2>2 DEF ReplyFails, ChatInv, TypeOK
  <2> QED
    BY <2>1, <2>2
<1>3. TypeOK'
  BY <1>1, <1>2 DEF ChatInv, TypeOK
<1> QED
  BY <1>1, <1>3 DEF ChatInv, AnswersOf, NoDuplicates

\* A message comes to the page.
LEMMA ArriveInv ==
  ASSUME ChatInv, NEW m \in db, Arrive(m),
         replies' \subseteq replies, wire' \in Seq(db),
         UNCHANGED <<db, calls, stage, first, older, more, before>>
  PROVE  ChatInv'
<1>1. chat' \in Seq(db) /\ Distinct(chat')
  BY AppendedIs DEF Arrive, ChatInv, TypeOK
<1>2. Shown \subseteq db
  BY ShownIs DEF ChatInv, TypeOK
<1>3. missed' \subseteq db
  BY <1>2 DEF Arrive, ChatInv, TypeOK
<1>4. TypeOK'
  BY <1>1, <1>3 DEF ChatInv, TypeOK
<1>5. NoDuplicates'
  BY <1>1 DEF Distinct, NoDuplicates
<1> QED
  BY <1>4, <1>5 DEF ChatInv, AnswersOf

LEMMA ReplyInv ==
  ASSUME ChatInv, NEW m \in Message, Reply(m)
  PROVE  ChatInv'
<1>1. m \in db /\ wire \in Seq(db)
  BY DEF Reply, ChatInv, TypeOK
<1> QED
  BY <1>1, ArriveInv DEF Reply

LEMMA DeliverInv ==
  ASSUME ChatInv, Deliver
  PROVE  ChatInv'
<1>1. wire \in Seq(db) /\ wire # <<>>
  BY DEF Deliver, ChatInv, TypeOK
<1>2. Head(wire) \in db /\ Tail(wire) \in Seq(db)
  BY <1>1
<1> QED
  BY <1>2, ArriveInv DEF Deliver

\* A page of history is merged.
LEMMA MergeInv ==
  ASSUME ChatInv, FirstAnswer \/ OlderAnswer
  PROVE  ChatInv'
<1> USE ConstantsAssumption
<1>1. PICK p \in {first, older}, limit \in {Live, Loaded} :
        /\ p # None
        /\ chat' = Merged(p.rows, limit)
        /\ more' = p.more /\ before' = p.next
        /\ missed' \subseteq missed \cup Tied(p) \cup Dropped(p) \cup db
  BY DEF FirstAnswer, OlderAnswer
<1>2. /\ UNCHANGED <<db, calls, replies, wire>>
      /\ stage' \in {stage, "joining"}
  BY DEF FirstAnswer, OlderAnswer
<1>3. p \in Answer /\ p.rows \subseteq db
  BY <1>1 DEF ChatInv, TypeOK, AnswersOf
<1>4. chat' \in Seq(db) /\ Distinct(chat')
  BY <1>1, <1>3, MergedIs DEF ChatInv, TypeOK
<1>5. /\ first' \in Answer \cup {None} /\ (first' # None => first'.rows \subseteq db)
      /\ older' \in Answer \cup {None} /\ (older' # None => older'.rows \subseteq db)
  <2>1. \A q \in Answer : /\ [q EXCEPT !.stale = TRUE] \in Answer
                          /\ [q EXCEPT !.stale = TRUE].rows = q.rows
    BY DEF Answer
  <2>2. first' \in {first, None} /\ older' \in {older, None, [older EXCEPT !.stale = TRUE]}
    BY DEF FirstAnswer, OlderAnswer
  <2>3. older' # None => older # None
    BY DEF FirstAnswer, OlderAnswer
  <2> QED
    BY <2>1, <2>2, <2>3 DEF ChatInv, TypeOK, AnswersOf
<1>6. missed' \subseteq db
  <2>1. Tied(p) \subseteq db
    BY DEF Tied
  <2>2. Dropped(p) \subseteq db
    BY <1>3, ShownIs DEF Dropped, ChatInv, TypeOK
  <2> QED
    BY <1>1, <2>1, <2>2 DEF ChatInv, TypeOK
<1>7. more' \in BOOLEAN /\ before' \in Message \cup {None}
  <2>1. p.more \in BOOLEAN /\ p.next \in Message \cup {None}
    BY <1>3 DEF Answer
  <2> QED
    BY <1>1, <2>1
<1>8. TypeOK'
  BY <1>2, <1>4, <1>5, <1>6, <1>7 DEF ChatInv, TypeOK
<1>9. NoDuplicates'
  BY <1>4 DEF Distinct, NoDuplicates
<1> QED
  BY <1>2, <1>5, <1>8, <1>9 DEF ChatInv, AnswersOf

\* The page asks, joins, loses its connection, or hears of a failure.
LEMMA PageStepInv ==
  ASSUME ChatInv,
         \/ ReadHistory \/ FirstFails \/ Join \/ Disconnect
         \/ AskOlder \/ OlderFails
  PROVE  ChatInv'
<1>1. UNCHANGED <<db, calls, replies, chat, more, before>>
  BY DEF ReadHistory, FirstFails, Join, Disconnect, AskOlder, OlderFails
<1>2. /\ stage' \in {"reading", "joining", "joined"}
      /\ missed' \subseteq db
      /\ wire' \in Seq(db)
  <2>1. stage' \in {stage, "reading", "joining", "joined"}
    BY DEF ReadHistory, FirstFails, Join, Disconnect, AskOlder, OlderFails
  <2>2. missed' \in {missed, {}, db \ Shown}
    BY DEF ReadHistory, FirstFails, Join, Disconnect, AskOlder, OlderFails
  <2>3. wire' \in {wire, <<>>} /\ <<>> \in Seq(db)
    BY DEF ReadHistory, FirstFails, Join, Disconnect, AskOlder, OlderFails
  <2> QED
    BY <2>1, <2>2, <2>3 DEF ChatInv, TypeOK
<1>3. /\ first' \in Answer \cup {None} /\ (first' # None => first'.rows \subseteq db)
      /\ older' \in Answer \cup {None} /\ (older' # None => older'.rows \subseteq db)
  <2>1. first' \in {first, None, Page(None)} /\ older' \in {older, None, Page(before)}
    BY DEF ReadHistory, FirstFails, Join, Disconnect, AskOlder, OlderFails
  <2>2. \A c : Page(c) \in Answer /\ Page(c).rows \subseteq db
    BY PageIs DEF ChatInv, TypeOK
  <2> QED
    BY <2>1, <2>2 DEF ChatInv, TypeOK, AnswersOf
<1>4. TypeOK'
  BY <1>1, <1>2, <1>3 DEF ChatInv, TypeOK
<1> QED
  BY <1>1, <1>3, <1>4 DEF ChatInv, AnswersOf, NoDuplicates

LEMMA StepInv == ChatInv /\ [Next]_vars => ChatInv'
<1> SUFFICES ASSUME ChatInv, [Next]_vars
             PROVE  ChatInv'
  OBVIOUS
<1>1. CASE UNCHANGED vars
  BY <1>1 DEF vars, ChatInv, TypeOK, AnswersOf, NoDuplicates
<1>2. ASSUME NEW m \in Message, Store(m) \/ Handled(m) \/ Answered(m)
      PROVE  ChatInv'
  BY <1>2, StoreInv, CalledInv, ReplyInv DEF Answered
<1> QED
  BY <1>1, <1>2, DeliverInv, MergeInv, PageStepInv DEF Next

-----------------------------------------------------------------------------
(* Pages *)

\* A set of messages has a newest one.
LEMMA NewestIs ==
  ASSUME NEW S \in SUBSET Message, IsFiniteSet(S), S # {}
  PROVE  \E m \in S : \A n \in S \ {m} : Before(n, m)
<1>1. Cardinality(S) \in Nat /\ Cardinality(S) # 0
  BY FS_CardinalityType, FS_EmptySet
<1>2. PICK m \in S : Rank(S, m) = Cardinality(S) - 1
  BY <1>1, Ranked
<1> DEFINE L == {n \in S : Before(n, m)}
<1>3. IsFiniteSet(L) /\ m \notin L /\ L \cup {m} \in SUBSET S
  BY FS_Subset, BeforeOrder
<1>4. Cardinality(L \cup {m}) = Cardinality(S)
  <2>1. Cardinality(L) = Cardinality(S) - 1
    BY <1>2 DEF Rank
  <2>2. Cardinality(L \cup {m}) = Cardinality(L) + 1
    BY <1>3, FS_AddElement
  <2> QED
    BY <1>1, <2>1, <2>2
<1>5. L \cup {m} = S
  BY <1>3, <1>4, FS_Subset
<1> QED
  BY <1>5

\* The messages of a set newer than one of them.
Newer(S, m) == {n \in S : Before(m, n)}

\* A page is full when it leaves anything out, and what it leaves out is older
\* than all of it.
LEMMA PageCut ==
  ASSUME NEW S \in SUBSET Message, IsFiniteSet(S), NEW r \in S, r \notin Newest(S)
  PROVE  /\ Cardinality(Newest(S)) = PageSize /\ Newest(S) # {}
         /\ \A m \in Newest(S) : Before(r, m)
<1> DEFINE N == Newest(S)
<1>0. PageSize \in Nat \ {0}
  BY ConstantsAssumption
<1>1. \A m \in S : /\ Newer(S, m) \in SUBSET S /\ IsFiniteSet(Newer(S, m))
                   /\ Cardinality(Newer(S, m)) \in Nat
  <2> TAKE m \in S
  <2>1. Newer(S, m) \in SUBSET S
    BY DEF Newer
  <2> QED
    BY <2>1, FS_Subset, FS_CardinalityType
<1>2. N \in SUBSET S /\ \A m \in S : m \in N <=> Cardinality(Newer(S, m)) < PageSize
  BY DEF Newest, Newer
<1>3. IsFiniteSet(N) /\ Cardinality(N) \in Nat
  BY <1>2, FS_Subset, FS_CardinalityType
<1> HIDE DEF N
<1>4. \A m \in N : Before(r, m)
  <2> SUFFICES ASSUME NEW m \in N, ~Before(r, m)
               PROVE  FALSE
    OBVIOUS
  <2>1. r # m /\ Before(m, r)
    BY <1>2, BeforeOrder DEF N
  <2>2. Newer(S, r) \in SUBSET Newer(S, m)
    BY <2>1, <1>2, BeforeOrder DEF Newer
  <2>3. Cardinality(Newer(S, r)) <= Cardinality(Newer(S, m))
    BY <1>1, <1>2, <2>2, FS_Subset
  <2> QED
    BY <1>0, <1>1, <1>2, <2>3 DEF N
<1>5. Cardinality(N) >= PageSize
  <2>1. S \ N # {} /\ S \ N \in SUBSET Message /\ IsFiniteSet(S \ N)
    BY FS_Subset DEF N
  <2>2. PICK m \in S \ N : \A n \in (S \ N) \ {m} : Before(n, m)
    BY <2>1, NewestIs
  <2>3. Newer(S, m) \in SUBSET N
    BY <1>2, <2>2, BeforeOrder DEF Newer
  <2>4. Cardinality(Newer(S, m)) <= Cardinality(N)
    BY <1>3, <2>3, FS_Subset
  <2> QED
    BY <1>0, <1>1, <1>2, <1>3, <2>2, <2>4
<1>6. N # {}
  BY <1>0, <1>5, FS_EmptySet
<1>7. Cardinality(N) <= PageSize
  <2> DEFINE o == Oldest(N)
  <2>1. o \in N /\ \A n \in N \ {o} : Before(o, n)
    BY <1>2, <1>3, <1>6, OldestIs
  <2> HIDE DEF o
  <2>2. N \ {o} \in SUBSET Newer(S, o)
    BY <1>2, <2>1 DEF Newer
  <2>3. Cardinality(N \ {o}) <= Cardinality(Newer(S, o))
    BY <1>1, <1>2, <2>1, <2>2, FS_Subset
  <2>4. Cardinality(N \ {o}) = Cardinality(N) - 1
    BY <1>3, <2>1, FS_RemoveElement
  <2> QED
    BY <1>0, <1>1, <1>2, <1>3, <2>1, <2>3, <2>4
<1> QED
  BY <1>0, <1>3, <1>4, <1>5, <1>6, <1>7 DEF N

-----------------------------------------------------------------------------
(* What is not lost *)

OnWire == {wire[i] : i \in DOMAIN wire}

\* An answer has m, or leads on to it.
Leads(a, m) ==
  m \in a.rows \/ (a.more /\ a.next # None /\ Before(m, Oldest(a.rows)))

\* There is a page of messages from c on.
Full(c) ==
  \E R \in SUBSET db : Cardinality(R) = PageSize /\ \A n \in R : ~Before(n, c)

\* Whatever is before c, an answer leads on to.
Covers(a, c) ==
  \A m \in Message :
    Before(m, c) => a.more /\ a.next # None /\ Before(m, Oldest(a.rows))

\* A cursor, wherever it is, is of a page that was full.
CursorsFull ==
  /\ more /\ before # None => Full(before)
  /\ first # None /\ first.more /\ first.next # None => Full(first.next)
  /\ older # None /\ older.more /\ older.next # None => Full(older.next)

\* A first page leads on to whatever the cursors in use lead to.
FirstCovers ==
  first # None =>
    /\ more /\ before # None => Covers(first, before)
    /\ older # None /\ older.more /\ older.next # None => Covers(first, older.next)

\* A first page comes while the page of the browser reads, and has or leads to
\* every message that is not shown and not about to be announced.
FirstLeads ==
  first # None =>
    /\ stage = "reading"
    /\ \A m \in db \ missed : m \in Shown \cup calls \/ Leads(first, m)

\* After that every message is shown, ahead, or on its way.
InSight ==
  stage # "reading" =>
    \A m \in db \ missed : m \in Shown \cup Ahead \cup calls \cup OnWire

\* An older page that will be taken has, or leads on to, what is ahead.
OlderLeads ==
  stage # "reading" /\ older # None /\ ~older.stale =>
    \A m \in (db \ missed) \cap Ahead :
      m \in Shown \cup calls \cup OnWire \/ Leads(older, m)

\* Every message that no known gap takes can be reached from what is under way.
LostInv == CursorsFull /\ FirstCovers /\ FirstLeads /\ InSight /\ OlderLeads

\* A cursor is not after its message.
LEMMA CursorLow ==
  ASSUME NEW o \in Message, NEW m \in Message
  PROVE  Before(m, Cursor(o)) => Before(m, o)
<1> DEFINE b == o.t \div Ticks
<1>1. /\ Ticks \in Nat \ {0} /\ m.t \in Nat /\ o.t \in Nat
      /\ m.id \in Int /\ o.id \in Int
  BY MessageNumbers, ConstantsAssumption
<1>2. b \in Nat /\ b * Ticks <= o.t /\ b * Ticks \in Nat
  BY <1>1
<1> DEFINE d == b * Ticks
<1>3. d \in Nat /\ d <= o.t
  BY <1>2
<1>4. Cursor(o).t = d /\ Cursor(o).id = o.id
  BY DEF Cursor, Millisecond
<1> HIDE DEF b, d
<1> QED
  BY <1>1, <1>3, <1>4 DEF Before

\* A page of history, and what it is cut from.
LEMMA PageOf ==
  ASSUME db \in SUBSET Message, IsFiniteSet(db), NEW cursor
  PROVE  LET S == IF cursor = None THEN db ELSE {n \in db : Before(n, cursor)}
             a == Page(cursor)
         IN  /\ S \in SUBSET db /\ S \in SUBSET Message /\ IsFiniteSet(S)
             /\ a.rows = Newest(S)
             /\ a.rows \in SUBSET S /\ a.rows \in SUBSET Message /\ IsFiniteSet(a.rows)
             /\ a.more <=> Cardinality(a.rows) = PageSize
             /\ a.rows # {} => /\ Oldest(a.rows) \in a.rows
                               /\ \A n \in a.rows \ {Oldest(a.rows)} : Before(Oldest(a.rows), n)
                               /\ a.next = Cursor(Oldest(a.rows))
             /\ a.next # None => a.rows # {}
<1> DEFINE S == IF cursor = None THEN db ELSE {n \in db : Before(n, cursor)}
           rows == Newest(S)
<1>1. /\ Page(cursor).rows = rows
      /\ Page(cursor).next = IF rows = {} THEN None ELSE Cursor(Oldest(rows))
      /\ Page(cursor).more <=> Cardinality(rows) = PageSize
  BY DEF Page, HasMore
<1>2. S \in SUBSET db /\ S \in SUBSET Message /\ IsFiniteSet(S)
  BY FS_Subset
<1>3. rows \in SUBSET S /\ rows \in SUBSET Message /\ IsFiniteSet(rows)
  <2>1. rows \in SUBSET S
    BY DEF Newest
  <2> QED
    BY <1>2, <2>1, FS_Subset
<1> HIDE DEF rows
<1>4. rows # {} => Oldest(rows) \in rows /\ \A n \in rows \ {Oldest(rows)} : Before(Oldest(rows), n)
  BY <1>3, OldestIs
<1> QED
  BY <1>1, <1>2, <1>3, <1>4 DEF rows

\* A page has every message before its cursor, or leads on to it.
LEMMA PageLeads ==
  ASSUME db \in SUBSET Message, IsFiniteSet(db), NEW cursor, NEW m \in db,
         cursor = None \/ Before(m, cursor)
  PROVE  Leads(Page(cursor), m)
<1> DEFINE S == IF cursor = None THEN db ELSE {n \in db : Before(n, cursor)}
           a == Page(cursor)
<1>1. /\ S \in SUBSET Message /\ IsFiniteSet(S) /\ m \in S
      /\ a.rows = Newest(S) /\ a.rows \in SUBSET Message
      /\ a.more <=> Cardinality(a.rows) = PageSize
      /\ a.rows # {} => Oldest(a.rows) \in a.rows /\ a.next = Cursor(Oldest(a.rows))
  BY PageOf
<1> HIDE DEF S, a
<1> SUFFICES ASSUME m \notin a.rows
             PROVE  a.more /\ a.next # None /\ Before(m, Oldest(a.rows))
  BY DEF Leads, a
<1>2. /\ Cardinality(a.rows) = PageSize /\ a.rows # {}
      /\ \A n \in a.rows : Before(m, n)
  BY <1>1, PageCut
<1>3. Before(m, Oldest(a.rows)) /\ a.next # None
  BY <1>1, <1>2, CursorType, CursorAssumption
<1> QED
  BY <1>1, <1>2, <1>3

LEMMA PageFull ==
  ASSUME db \in SUBSET Message, IsFiniteSet(db), NEW cursor,
         Page(cursor).more, Page(cursor).next # None
  PROVE  Full(Page(cursor).next)
<1> DEFINE a == Page(cursor)
           o == Oldest(a.rows)
<1>1. /\ a.rows \in SUBSET db /\ a.rows \in SUBSET Message
      /\ Cardinality(a.rows) = PageSize
      /\ o \in a.rows /\ \A n \in a.rows \ {o} : Before(o, n)
      /\ a.next = Cursor(o)
  BY PageOf
<1> HIDE DEF a, o
<1>2. \A n \in a.rows : ~Before(n, Cursor(o))
  BY <1>1, CursorLow, BeforeOrder
<1>3. Full(a.next)
  BY <1>1, <1>2 DEF Full
<1> QED
  BY <1>3 DEF a

\* The newest page leads on to whatever is before a cursor that has a page of
\* messages from it on.
LEMMA NewestCovers ==
  ASSUME db \in SUBSET Message, IsFiniteSet(db), NEW c \in Message, Full(c)
  PROVE  Covers(Page(None), c)
<1> DEFINE a == Page(None)
           o == Oldest(a.rows)
<1>0. PageSize \in Nat \ {0}
  BY ConstantsAssumption
<1>1. /\ a.rows = Newest(db) /\ a.rows \in SUBSET db /\ IsFiniteSet(a.rows)
      /\ a.more <=> Cardinality(a.rows) = PageSize
      /\ a.rows # {} => /\ o \in a.rows
                        /\ \A n \in a.rows \ {o} : Before(o, n)
                        /\ a.next = Cursor(o)
  BY PageOf
<1> HIDE DEF a, o
<1>2. PICK R \in SUBSET db : Cardinality(R) = PageSize /\ \A n \in R : ~Before(n, c)
  BY DEF Full
<1>3. IsFiniteSet(R) /\ R # {}
  BY <1>0, <1>2, FS_Subset, FS_EmptySet
\* It is full,
<1>4. Cardinality(a.rows) = PageSize /\ a.rows # {}
  <2>1. CASE a.rows = db
    <3>1. \A m \in db : /\ Newer(db, m) \in SUBSET db /\ Cardinality(Newer(db, m)) < PageSize
      BY <1>1, <2>1 DEF Newest, Newer
    <3>2. Cardinality(R) <= Cardinality(db)
      BY <1>2, FS_Subset
    <3>3. db # {} /\ o \in db /\ \A n \in db \ {o} : Before(o, n)
      BY <1>1, <1>2, <1>3, <2>1
    <3>4. db \ {o} \in SUBSET Newer(db, o)
      BY <3>3 DEF Newer
    <3>5. IsFiniteSet(Newer(db, o))
      BY <3>1, <3>3, FS_Subset
    <3>6. Cardinality(db \ {o}) <= Cardinality(Newer(db, o))
      BY <3>4, <3>5, FS_Subset
    <3>7. Cardinality(db \ {o}) = Cardinality(db) - 1 /\ Cardinality(db) \in Nat
      BY <3>3, FS_RemoveElement, FS_CardinalityType
    <3>8. Cardinality(Newer(db, o)) \in Nat /\ Cardinality(Newer(db, o)) < PageSize
      BY <3>1, <3>3, <3>5, FS_CardinalityType
    <3> QED
      BY <1>0, <1>2, <2>1, <3>2, <3>3, <3>6, <3>7, <3>8
  <2>2. CASE a.rows # db
    BY <1>1, <2>2, PageCut
  <2> QED
    BY <2>1, <2>2
\* and its oldest is not before the cursor.
<1>5. o \in db /\ o \in Message /\ o \in Newest(db)
  BY <1>1, <1>4
<1>6. ~Before(o, c)
  <2> SUFFICES ASSUME Before(o, c) PROVE FALSE
    OBVIOUS
  <2>1. ASSUME NEW n \in R PROVE n \in Newer(db, o)
    <3>1. n \in Message /\ n \in db /\ ~Before(n, c)
      BY <1>2
    <3>2. n = o \/ Before(n, o) \/ Before(o, n)
      BY <1>5, <3>1, BeforeOrder
    <3>3. Before(n, o) => Before(n, c)
      BY <1>5, <3>1, BeforeOrder
    <3> QED
      BY <3>1, <3>2, <3>3 DEF Newer
  <2>2. R \in SUBSET Newer(db, o) /\ Newer(db, o) \in SUBSET db
    BY <2>1 DEF Newer
  <2>3. IsFiniteSet(Newer(db, o))
    BY <2>2, FS_Subset
  <2>4. Cardinality(R) <= Cardinality(Newer(db, o)) /\ Cardinality(Newer(db, o)) \in Nat
    BY <2>2, <2>3, FS_Subset, FS_CardinalityType
  <2>5. Cardinality(Newer(db, o)) < PageSize
    BY <1>5 DEF Newest, Newer
  <2> QED
    BY <1>0, <1>2, <2>4, <2>5
<1>7. a.next \in Message
  BY <1>1, <1>4, <1>5, CursorType
<1>8. \A m \in Message : Before(m, c) => Before(m, o)
  BY <1>5, <1>6, BeforeOrder
<1>9. Covers(a, c)
  BY <1>1, <1>4, <1>7, <1>8, CursorAssumption DEF Covers, o
<1> QED
  BY <1>9 DEF a

\* The next page is before its cursor.
LEMMA OlderCovers ==
  ASSUME db \in SUBSET Message, IsFiniteSet(db), NEW c \in Message, NEW a,
         Covers(a, c), Page(c).next # None
  PROVE  Covers(a, Page(c).next)
<1> DEFINE b == Page(c)
           o == Oldest(b.rows)
<1>0. c # None
  BY CursorAssumption
<1>1. o \in b.rows /\ b.next = Cursor(o) /\ b.rows \in SUBSET {n \in db : Before(n, c)}
  BY <1>0, PageOf
<1>2. o \in Message /\ Before(o, c)
  BY <1>1
<1> HIDE DEF b, o
<1>3. \A m \in Message : Before(m, Cursor(o)) => Before(m, c)
  BY <1>2, CursorLow, BeforeOrder
<1>4. Covers(a, b.next)
  BY <1>1, <1>3 DEF Covers
<1> QED
  BY <1>4 DEF b

\* The page's list after a message came has it.
LEMMA AppendedShows ==
  ASSUME chat \in Seq(db), NEW m \in db, chat' = Appended(m)
  PROVE  m \in Shown'
<1>1. CASE m \in Shown
  BY <1>1 DEF Appended, Shown
<1>2. CASE m \notin Shown
  <2> DEFINE s == Append(chat, m)
             n == Len(chat) + 1
  <2>1. s \in Seq(db) /\ Len(s) = n /\ n \in Nat \ {0} /\ s[n] = m
    OBVIOUS
  <2>2. Live \in Nat \ {0}
    BY ConstantsAssumption
  <2>3. chat' = LastOf(s, Live)
    BY <1>2 DEF Appended
  <2> HIDE DEF s, n
  <2>4. CASE n <= Live
    <3>1. chat' = s /\ n \in DOMAIN s
      BY <2>1, <2>3, <2>4 DEF LastOf
    <3> QED
      BY <2>1, <3>1 DEF Shown
  <2>5. CASE ~(n <= Live)
    <3> DEFINE k == n - Live
    <3>1. k + 1 \in 1 .. n /\ chat' = SubSeq(s, k + 1, n) /\ k + Live = n /\ k \in Nat
      BY <2>1, <2>2, <2>3, <2>5 DEF LastOf
    <3>2. /\ Len(chat') = Live /\ DOMAIN chat' = 1 .. Live
          /\ \A i \in 1 .. Live : chat'[i] = s[k + i]
      BY <2>1, <2>2, <3>1
    <3>3. Live \in DOMAIN chat' /\ chat'[Live] = m
      BY <2>1, <2>2, <3>1, <3>2
    <3> QED
      BY <3>3 DEF Shown
  <2> QED
    BY <2>1, <2>2, <2>4, <2>5
<1> QED
  BY <1>1, <1>2

LEMMA OnWireGrows ==
  ASSUME wire \in Seq(db), NEW m \in db, wire' = Append(wire, m)
  PROVE  OnWire' = OnWire \cup {m}
<1>1. /\ DOMAIN wire' = 1 .. Len(wire) + 1 /\ DOMAIN wire = 1 .. Len(wire)
      /\ Len(wire) \in Nat /\ wire'[Len(wire) + 1] = m
      /\ \A i \in 1 .. Len(wire) : wire'[i] = wire[i]
  OBVIOUS
<1>2. OnWire' \subseteq OnWire \cup {m}
  BY <1>1 DEF OnWire
<1>3. OnWire \subseteq OnWire'
  BY <1>1 DEF OnWire
<1>4. m \in OnWire'
  BY <1>1 DEF OnWire
<1> QED
  BY <1>2, <1>3, <1>4

LEMMA OnWireShrinks ==
  ASSUME wire \in Seq(db), wire # <<>>, wire' = Tail(wire)
  PROVE  OnWire \subseteq OnWire' \cup {Head(wire)}
<1> SUFFICES ASSUME NEW i \in DOMAIN wire, i # 1
             PROVE  wire[i] \in OnWire'
  BY DEF OnWire
<1>1. Len(wire) \in Nat /\ DOMAIN wire = 1 .. Len(wire)
  OBVIOUS
<1>2. /\ Len(wire') = Len(wire) - 1 /\ DOMAIN wire' = 1 .. Len(wire')
      /\ \A j \in 1 .. Len(wire') : wire'[j] = wire[j + 1]
  BY HeadTailProperties
<1> DEFINE j == i - 1
<1>3. j \in DOMAIN wire' /\ wire'[j] = wire[i]
  BY <1>1, <1>2
<1> HIDE DEF j
<1> QED
  BY <1>3 DEF OnWire

LEMMA InitLost == Init => LostInv
BY DEF Init, LostInv, CursorsFull, FirstCovers, FirstLeads, InSight, OlderLeads

\* What is known of cursors stays as the database grows.
LEMMA CursorsSame ==
  ASSUME LostInv, db \subseteq db', UNCHANGED <<first, older, more, before>>
  PROVE  CursorsFull' /\ FirstCovers'
<1>1. ASSUME NEW c, Full(c) PROVE Full(c)'
  BY <1>1 DEF Full
<1>2. FirstCovers'
  BY DEF LostInv, FirstCovers, Covers
<1>3. CursorsFull'
  BY <1>1 DEF LostInv, CursorsFull
<1> QED
  BY <1>2, <1>3

LEMMA StoreLost ==
  ASSUME ChatInv, LostInv, NEW m \in Message, Store(m)
  PROVE  LostInv'
<1>1. /\ db' = db \cup {m} /\ calls' = calls \cup {m}
      /\ UNCHANGED <<wire, missed, stage, first, older, chat, more, before>>
  BY DEF Store, page
<1>2. UNCHANGED <<Shown, OnWire>>
  BY <1>1 DEF Shown, OnWire
<1>3. \A x \in db : x \in Ahead <=> x \in Ahead'
  BY <1>1 DEF Ahead
<1>4. CursorsFull' /\ FirstCovers'
  BY <1>1, CursorsSame
<1>5. FirstLeads' /\ InSight' /\ OlderLeads'
  BY <1>1, <1>2, <1>3 DEF LostInv, FirstLeads, InSight, OlderLeads, Leads
<1> QED
  BY <1>4, <1>5 DEF LostInv

\* Steps of the SFU.
LEMMA HandledLost ==
  ASSUME ChatInv, LostInv, NEW m \in Message, Handled(m)
  PROVE  LostInv'
<1>1. /\ UNCHANGED <<db, stage, first, older, chat, more, before>>
      /\ m \in calls /\ calls' = calls \ {m}
  BY DEF Handled, Announce, CallFails, Called, page
<1>2. Shown' = Shown /\ Ahead' = Ahead
  BY <1>1 DEF Shown, Ahead
<1>3. m \in db /\ wire \in Seq(db)
  BY <1>1 DEF ChatInv, TypeOK
<1>4. \/ missed' = missed \cup {m} /\ OnWire' = OnWire
      \/ stage = "joined" /\ missed' = missed /\ OnWire' = OnWire \cup {m}
  <2>1. \/ missed' = missed \cup {m} /\ wire' = wire
        \/ stage = "joined" /\ missed' = missed /\ wire' = Append(wire, m)
    BY DEF Handled, Announce, CallFails
  <2>2. CASE missed' = missed \cup {m} /\ wire' = wire
    BY <2>2 DEF OnWire
  <2>3. CASE stage = "joined" /\ missed' = missed /\ wire' = Append(wire, m)
    BY <1>3, <2>3, OnWireGrows
  <2> QED
    BY <2>1, <2>2, <2>3
<1>5. CursorsFull' /\ FirstCovers'
  BY <1>1, CursorsSame
<1>6. FirstLeads' /\ InSight' /\ OlderLeads'
  BY <1>1, <1>2, <1>4 DEF LostInv, FirstLeads, InSight, OlderLeads, Leads
<1> QED
  BY <1>5, <1>6 DEF LostInv

LEMMA ArriveLost ==
  ASSUME ChatInv, LostInv, NEW m \in db, Arrive(m),
         OnWire \subseteq OnWire' \cup {m},
         UNCHANGED <<db, calls, stage, first, older, more, before>>
  PROVE  LostInv'
<1>1. m \in Shown'
  BY AppendedShows DEF Arrive, ChatInv, TypeOK
<1>2. \A x \in db \ missed' : x = m \/ (x \notin missed /\ (x \in Shown => x \in Shown'))
  BY DEF Arrive
<1>3. Ahead' = Ahead
  BY DEF Ahead
<1>4. CursorsFull' /\ FirstCovers'
  BY CursorsSame
<1>5. FirstLeads' /\ InSight' /\ OlderLeads'
  BY <1>1, <1>2, <1>3 DEF LostInv, FirstLeads, InSight, OlderLeads, Leads
<1> QED
  BY <1>4, <1>5 DEF LostInv

LEMMA ReplyLost ==
  ASSUME ChatInv, LostInv, NEW m \in Message, Reply(m)
  PROVE  LostInv'
<1>1. m \in db /\ UNCHANGED wire
  BY DEF Reply, ChatInv, TypeOK
<1>2. OnWire' = OnWire
  BY <1>1 DEF OnWire
<1> QED
  BY <1>1, <1>2, ArriveLost DEF Reply

LEMMA DeliverLost ==
  ASSUME ChatInv, LostInv, Deliver
  PROVE  LostInv'
<1>1. wire \in Seq(db) /\ wire # <<>> /\ wire' = Tail(wire)
  BY DEF Deliver, ChatInv, TypeOK
<1>2. Head(wire) \in db
  BY <1>1
<1>3. OnWire \subseteq OnWire' \cup {Head(wire)}
  BY <1>1, OnWireShrinks
<1> QED
  BY <1>2, <1>3, ArriveLost DEF Deliver

\* A message an answer leads on to is ahead once the answer has come, if it is
\* not of the millisecond at which the page was cut.
LEMMA LeadsAhead ==
  ASSUME NEW a, a.rows \subseteq db, NEW m \in db, Leads(a, m),
         m \notin Tied(a), m \notin Dropped(a),
         db' = db, more' = a.more, before' = a.next
  PROVE  m \in Shown' \/ m \in Ahead'
<1>1. CASE m \in a.rows
  BY <1>1 DEF Dropped
<1>2. CASE a.more /\ a.next # None /\ Before(m, Oldest(a.rows))
  <2>1. Before(m, a.next)
    BY <1>2 DEF Tied
  <2>2. more'
    BY <1>2
  <2> QED
    BY <1>2, <2>1, <2>2 DEF Ahead
<1> QED
  BY <1>1, <1>2 DEF Leads

LEMMA FirstAnswerLost ==
  ASSUME ChatInv, LostInv, FirstAnswer
  PROVE  LostInv'
<1>1. /\ first # None /\ first' = None /\ more' = first.more /\ before' = first.next
      /\ stage' = "joining"
      /\ older' = IF older = None THEN None ELSE [older EXCEPT !.stale = TRUE]
      /\ UNCHANGED <<db, calls, wire>>
      /\ missed' = missed \cup Tied(first) \cup Dropped(first)
  BY DEF FirstAnswer
<1>2. first.rows \subseteq db
  BY <1>1 DEF ChatInv, AnswersOf
<1>3. older' # None => older # None /\ older'.stale /\ older'.more = older.more
                       /\ older'.next = older.next
  BY <1>1 DEF ChatInv, TypeOK, Answer
<1>4. CursorsFull'
  <2>1. \A c : Full(c) => Full(c)'
    BY <1>1 DEF Full
  <2>2. more' /\ before' # None => Full(before')
    BY <1>1 DEF LostInv, CursorsFull
  <2>3. older' # None /\ older'.more /\ older'.next # None => Full(older'.next)
    BY <1>3 DEF LostInv, CursorsFull
  <2> QED
    BY <1>1, <2>1, <2>2, <2>3 DEF CursorsFull
<1>5. InSight'
  <2> SUFFICES ASSUME NEW m \in db \ missed'
               PROVE  m \in Shown' \cup Ahead' \cup calls'
    BY <1>1 DEF InSight
  <2>1. m \in Shown \cup calls \/ Leads(first, m)
    BY <1>1 DEF LostInv, FirstLeads
  <2>2. m \notin Tied(first) /\ m \notin Dropped(first)
    BY <1>1
  <2>3. m \in Shown => m \in Shown' \/ m \in Ahead'
    BY <2>2 DEF Dropped
  <2>4. Leads(first, m) => m \in Shown' \/ m \in Ahead'
    BY <1>1, <1>2, <2>2, LeadsAhead
  <2> QED
    BY <1>1, <2>1, <2>3, <2>4
<1>6. FirstCovers' /\ FirstLeads' /\ OlderLeads'
  BY <1>1, <1>3 DEF FirstCovers, FirstLeads, OlderLeads
<1> QED
  BY <1>4, <1>5, <1>6 DEF LostInv

LEMMA OlderAnswerLost ==
  ASSUME ChatInv, LostInv, OlderAnswer
  PROVE  LostInv'
<1>1. /\ older # None /\ older' = None /\ more' = older.more /\ before' = older.next
      /\ UNCHANGED <<db, calls, wire, stage, first>>
      /\ missed' = missed \cup Tied(older) \cup Dropped(older)
                     \cup IF older.stale THEN db \ Shown' ELSE {}
  BY DEF OlderAnswer
<1>2. older.rows \subseteq db /\ OnWire' = OnWire
  BY <1>1 DEF ChatInv, AnswersOf, OnWire
<1>3. more' /\ before' # None => /\ Full(older.next)
                                 /\ first # None => Covers(first, older.next)
  BY <1>1 DEF LostInv, CursorsFull, FirstCovers
<1>4. CursorsFull'
  <2>1. \A c : Full(c) => Full(c)'
    BY <1>1 DEF Full
  <2> QED
    BY <1>1, <1>3, <2>1 DEF LostInv, CursorsFull
<1>5. FirstCovers'
  BY <1>1, <1>3 DEF FirstCovers, Covers
<1>6. ASSUME NEW m \in db \ missed'
      PROVE  /\ m \notin missed
             /\ m \in Shown => m \in Shown' \cup Ahead'
             /\ older.stale => m \in Shown'
             /\ Leads(older, m) => m \in Shown' \cup Ahead'
  <2>1. m \notin missed /\ m \notin Tied(older) /\ m \notin Dropped(older)
        /\ (older.stale => m \in Shown')
    BY <1>1, <1>6
  <2>2. m \in Shown => m \in Shown' \/ m \in Ahead'
    BY <2>1 DEF Dropped
  <2>3. Leads(older, m) => m \in Shown' \/ m \in Ahead'
    BY <1>1, <1>2, <2>1, <1>6, LeadsAhead
  <2> QED
    BY <2>1, <2>2, <2>3
<1>7. InSight'
  <2> SUFFICES ASSUME stage # "reading", NEW m \in db \ missed'
               PROVE  m \in Shown' \cup Ahead' \cup calls \cup OnWire
    BY <1>1, <1>2 DEF InSight
  <2>1. m \in Shown \cup Ahead \cup calls \cup OnWire
    BY <1>6 DEF LostInv, InSight
  <2>2. CASE older.stale
    BY <1>6, <2>2
  <2>3. CASE ~older.stale
    <3>1. m \in Ahead => m \in Shown \cup calls \cup OnWire \/ Leads(older, m)
      BY <1>1, <1>6, <2>3 DEF LostInv, OlderLeads
    <3> QED
      BY <1>6, <2>1, <3>1
  <2> QED
    BY <2>2, <2>3
<1>8. FirstLeads'
  <2> SUFFICES ASSUME first # None, NEW m \in db \ missed'
               PROVE  m \in Shown' \cup calls \/ Leads(first, m)
    BY <1>1 DEF LostInv, FirstLeads, Leads
  <2>1. m \in Shown \cup calls \/ Leads(first, m)
    BY <1>6 DEF LostInv, FirstLeads
  <2>2. m \in Ahead' => Leads(first, m)
    <3> SUFFICES ASSUME m \in Ahead' PROVE Leads(first, m)
      OBVIOUS
    <3>1. more' /\ before' # None /\ Before(m, older.next)
      BY <1>1 DEF Ahead
    <3>2. m \in Message
      BY DEF ChatInv, TypeOK
    <3> QED
      BY <1>3, <3>1, <3>2 DEF Covers, Leads
  <2> QED
    BY <1>6, <2>1, <2>2
<1>9. OlderLeads'
  BY <1>1 DEF OlderLeads
<1> QED
  BY <1>4, <1>5, <1>7, <1>8, <1>9 DEF LostInv

LEMMA ReadLost ==
  ASSUME ChatInv, LostInv, ReadHistory
  PROVE  LostInv'
<1>1. /\ stage = "reading" /\ first = None /\ first' = Page(None) /\ missed' = {}
      /\ UNCHANGED <<db, calls, wire, stage, older, chat, more, before>>
  BY DEF ReadHistory
<1>2. db \in SUBSET Message /\ IsFiniteSet(db)
  BY DEF ChatInv, TypeOK
<1>3. \A c : Full(c) => Full(c)'
  BY <1>1 DEF Full
<1> DEFINE a == Page(None)
<1>4. /\ a.more /\ a.next # None => Full(a.next)
      /\ \A m \in db : Leads(a, m)
      /\ \A c \in Message : Full(c) => Covers(a, c)
  BY <1>2, PageFull, PageLeads, NewestCovers
<1>5. first' = a
  BY <1>1
<1> HIDE DEF a
<1>6. CursorsFull'
  BY <1>1, <1>3, <1>4, <1>5 DEF LostInv, CursorsFull
<1>7. FirstCovers'
  <2>1. /\ more /\ before # None => Covers(a, before)
        /\ older # None /\ older.more /\ older.next # None => Covers(a, older.next)
    BY <1>4 DEF LostInv, CursorsFull, ChatInv, TypeOK, Answer
  <2> QED
    BY <1>1, <1>5, <2>1 DEF FirstCovers, Covers
<1>8. FirstLeads' /\ InSight' /\ OlderLeads'
  BY <1>1, <1>4, <1>5 DEF FirstLeads, InSight, OlderLeads, Leads
<1> QED
  BY <1>6, <1>7, <1>8 DEF LostInv

LEMMA AskLost ==
  ASSUME ChatInv, LostInv, AskOlder
  PROVE  LostInv'
<1>1. /\ older = None /\ more /\ before # None /\ older' = Page(before)
      /\ UNCHANGED <<db, calls, wire, stage, first, chat, more, before, missed>>
  BY DEF AskOlder
<1>2. db \in SUBSET Message /\ IsFiniteSet(db) /\ before \in Message
  BY <1>1 DEF ChatInv, TypeOK
<1>3. \A c : Full(c) => Full(c)'
  BY <1>1 DEF Full
<1> DEFINE b == Page(before)
<1>4. /\ b.more /\ b.next # None => Full(b.next)
      /\ \A m \in db : Before(m, before) => Leads(b, m)
      /\ \A a : Covers(a, before) /\ b.next # None => Covers(a, b.next)
  BY <1>2, PageFull, PageLeads, OlderCovers
<1>5. older' = b
  BY <1>1
<1> HIDE DEF b
<1>6. CursorsFull'
  BY <1>1, <1>3, <1>4, <1>5 DEF LostInv, CursorsFull
<1>7. FirstCovers'
  <2>1. first # None => /\ Covers(first, before)
                        /\ b.next # None => Covers(first, b.next)
    BY <1>1, <1>4 DEF LostInv, FirstCovers
  <2> QED
    BY <1>1, <1>5, <2>1 DEF FirstCovers, Covers
<1>8. UNCHANGED <<Shown, Ahead, OnWire>>
  BY <1>1 DEF Shown, Ahead, OnWire
<1>9. FirstLeads' /\ InSight'
  BY <1>1, <1>8 DEF LostInv, FirstLeads, InSight, Leads
<1>10. OlderLeads'
  <2>1. \A m \in Ahead : m \in db /\ Before(m, before)
    BY DEF Ahead
  <2> QED
    BY <1>1, <1>4, <1>5, <1>8, <2>1 DEF OlderLeads, Leads
<1> QED
  BY <1>6, <1>7, <1>9, <1>10 DEF LostInv

LEMMA OtherLost ==
  ASSUME ChatInv, LostInv,
         \/ FirstFails \/ Join \/ Disconnect \/ OlderFails
         \/ (\E m \in Message : ReplyFails(m)) \/ UNCHANGED vars
  PROVE  LostInv'
<1>1. UNCHANGED <<db, calls, chat, more, before>>
  BY DEF FirstFails, Join, Disconnect, OlderFails, ReplyFails, vars, page
<1>2. first' \in {first, None} /\ older' \in {older, None}
  BY DEF FirstFails, Join, Disconnect, OlderFails, ReplyFails, vars, page
<1>3. UNCHANGED <<Shown, Ahead>>
  BY <1>1 DEF Shown, Ahead
<1>4. \A c : Full(c) => Full(c)'
  BY <1>1 DEF Full
<1>5. CursorsFull'
  BY <1>1, <1>2, <1>4 DEF LostInv, CursorsFull
<1>6. FirstCovers'
  BY <1>1, <1>2 DEF LostInv, FirstCovers, Covers
<1>7. CASE FirstFails
  <2>1. first' = None /\ missed' = db \ Shown
    BY <1>7 DEF FirstFails
  <2>2. FirstLeads' /\ InSight' /\ OlderLeads'
    BY <1>1, <1>3, <2>1 DEF FirstLeads, InSight, OlderLeads
  <2> QED
    BY <1>5, <1>6, <2>2 DEF LostInv
<1>8. CASE Disconnect
  <2>1. stage # "reading" /\ stage' = "reading" /\ first' = first
    BY <1>8 DEF Disconnect
  <2>2. first = None
    BY <2>1 DEF LostInv, FirstLeads
  <2>3. FirstLeads' /\ InSight' /\ OlderLeads'
    BY <2>1, <2>2 DEF FirstLeads, InSight, OlderLeads
  <2> QED
    BY <1>5, <1>6, <2>3 DEF LostInv
<1>9. CASE Join \/ OlderFails \/ (\E m \in Message : ReplyFails(m)) \/ UNCHANGED vars
  <2>1. /\ UNCHANGED <<wire, first, missed>> /\ (stage' = "reading" <=> stage = "reading")
        /\ first # None => stage' = stage
    BY <1>9 DEF Join, OlderFails, ReplyFails, vars, page, LostInv, FirstLeads
  <2>2. OnWire' = OnWire
    BY <2>1 DEF OnWire
  <2>3. FirstLeads' /\ InSight' /\ OlderLeads'
    BY <1>1, <1>2, <1>3, <2>1, <2>2 DEF LostInv, FirstLeads, InSight, OlderLeads, Leads
  <2> QED
    BY <1>5, <1>6, <2>3 DEF LostInv
<1> QED
  BY <1>7, <1>8, <1>9

LEMMA StepLost == ChatInv /\ LostInv /\ [Next]_vars => LostInv'
<1> SUFFICES ASSUME ChatInv, LostInv, [Next]_vars
             PROVE  LostInv'
  OBVIOUS
<1>1. ASSUME NEW m \in Message, Store(m) \/ Handled(m) \/ Answered(m)
      PROVE  LostInv'
  BY <1>1, StoreLost, HandledLost, ReplyLost, OtherLost DEF Answered
<1> QED
  BY <1>1, DeliverLost, FirstAnswerLost, OlderAnswerLost, ReadLost, AskLost, OtherLost
     DEF Next

-----------------------------------------------------------------------------
(* The theorems *)

\* The database and the page are of the right shape in every behaviour; the
\* page shows, and is sent, nothing that is not in the database.
THEOREM TypeCorrect == Spec => []TypeOK
<1>1. ChatInv => TypeOK
  BY DEF ChatInv
<1> QED
  BY <1>1, InitInv, StepInv, PTL DEF Spec

\* No message is in the list twice, by whichever of its three ways and in
\* whatever order it comes (chatModel.ts).
THEOREM ShownOnce == Spec => []NoDuplicates
<1>1. ChatInv => NoDuplicates
  BY DEF ChatInv
<1> QED
  BY <1>1, InitInv, StepInv, PTL DEF Spec

\* A message before the cursor that the page for it leaves out is not lost by
\* that: the page says that there is more, and the message is before the cursor
\* of the next page, unless it is of the millisecond of the oldest of the page
\* (index.ts:403, 419-463).
THEOREM OnlyTiesAreSkipped ==
  ASSUME db \in SUBSET Message, IsFiniteSet(db),
         NEW cursor, NEW m \in db,
         cursor = None \/ Before(m, cursor),
         m \notin Page(cursor).rows
  PROVE  /\ Page(cursor).more
         /\ \/ Before(m, Page(cursor).next)
            \/ Millisecond(m) = Millisecond(Oldest(Page(cursor).rows))
<1> DEFINE S == IF cursor = None THEN db ELSE {n \in db : Before(n, cursor)}
           rows == Newest(S)
<1>1. /\ Page(cursor).rows = rows
      /\ Page(cursor).next = IF rows = {} THEN None ELSE Cursor(Oldest(rows))
      /\ Page(cursor).more = HasMore(rows)
  BY DEF Page
<1>2. S \in SUBSET Message /\ IsFiniteSet(S) /\ m \in S
  BY FS_Subset
<1>3. /\ Cardinality(rows) = PageSize /\ rows # {}
      /\ \A n \in rows : Before(m, n)
  <2> HIDE DEF S
  <2> QED
    BY <1>1, <1>2, PageCut
<1>4. rows \in SUBSET Message /\ IsFiniteSet(rows)
  <2>1. rows \in SUBSET S
    BY DEF Newest
  <2> QED
    BY <1>2, <2>1, FS_Subset
<1> HIDE DEF rows, S
<1> DEFINE o == Oldest(rows)
<1>5. o \in rows
  BY <1>3, <1>4, OldestIs
<1>6. Before(m, o) /\ o \in Message /\ m \in Message
  BY <1>3, <1>4, <1>5
<1> HIDE DEF o
<1>7. Before(m, Cursor(o)) \/ Millisecond(m) = Millisecond(o)
  <2> DEFINE a == m.t \div Ticks
             b == o.t \div Ticks
  <2>1. Ticks \in Nat \ {0} /\ m.t \in Nat /\ o.t \in Nat /\ m.t <= o.t
    BY <1>6, MessageNumbers, ConstantsAssumption DEF Before
  <2>2. a \in Nat /\ b \in Nat /\ a <= b
    BY <2>1
  <2>3. a # b => m.t < b * Ticks
    BY <2>1, <2>2
  <2> QED
    BY <2>2, <2>3 DEF Before, Cursor, Millisecond
<1> QED
  BY <1>1, <1>3, <1>7 DEF HasMore, o

\* Whoever is in the room sees, is about to see or can load every message but
\* those the known gaps take, however announcements, answers and pages of the
\* history overtake one another (index.ts:403, Room.tsx:96, Room.tsx:632).
THEOREM NoOtherLoss == Spec => []NothingElseLost
<1>1. LostInv => NothingElseLost
  BY DEF LostInv, InSight, NothingElseLost, OnWire
<1> QED
  BY <1>1, InitInv, StepInv, InitLost, StepLost, PTL DEF Spec
=============================================================================
