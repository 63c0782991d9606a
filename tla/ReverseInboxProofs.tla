-------------------------- MODULE ReverseInboxProofs --------------------------
(***************************************************************************)
(* Proofs about ReverseInbox: the watcher never records a version whose    *)
(* changes are not in Postgres, and Postgres never has anything but the    *)
(* rows of a version.                                                      *)
(***************************************************************************)
EXTENDS ReverseInbox, WellFoundedInduction, TLAPS

(* Collapse() loses no key that was touched.                               *)

\* A nonempty set of bounded integers has a greatest element.
LEMMA MaxIsMember ==
    ASSUME NEW lo \in Int, NEW hi \in Int, NEW S, S \subseteq lo..hi, S # {}
    PROVE  Max(S) \in S /\ \A y \in S : Max(S) >= y
<1> DEFINE Below == {hi - v : v \in S}
<1>1. Below \subseteq Nat /\ Below # {}
  OBVIOUS
<1> DEFINE Less == OpToRel(<, Nat)
<1>2. IsWellFoundedOn(Less, Nat)
  BY NatLessThanWellFounded
<1>3. PICK d \in Below : \A e \in Below : ~ (<<e, d>> \in Less)
  <2> HIDE DEF Below, Less
  <2> QED
    BY <1>1, <1>2, WFMin
<1>4. \A e \in Below : e >= d
  <2> SUFFICES ASSUME NEW e \in Below, ~ (e >= d) PROVE FALSE
    OBVIOUS
  <2>1. e \in Nat /\ d \in Nat /\ e < d
    BY <1>1
  <2>2. <<e, d>> \in Less
    BY <2>1 DEF OpToRel
  <2> QED
    BY <2>2, <1>3
<1>5. PICK x \in S : d = hi - x
  OBVIOUS
<1>6. \A y \in S : x >= y
  <2> SUFFICES ASSUME NEW y \in S PROVE x >= y
    OBVIOUS
  <2>1. hi - y >= hi - x
    BY <1>4, <1>5
  <2> QED
    BY <2>1
<1> QED
  BY <1>6 DEF Max

\* When the collapsed feed is empty, no version it covers touched a key.
LEMMA NothingLeftOut ==
    ASSUME inbox \in Seq(Commits), NEW from \in Nat, NEW upto \in Int,
           upto <= Latest,
           Collapse(from, upto) = NothingChanged
    PROVE  \A v \in from..upto : inbox[v + 1].value = Same
<1> SUFFICES ASSUME NEW v \in from..upto, inbox[v + 1].value # Same
             PROVE  FALSE
  OBVIOUS
<1>1. inbox[v + 1] \in Commits
  BY DEF Latest
<1>2. PICK k \in Keys : inbox[v + 1].key = k
  BY <1>1 DEF Commits
<1> DEFINE vs == Touching(k, from, upto)
<1>3. vs \subseteq from..upto /\ vs # {}
  BY <1>2 DEF Touching
<1>4. Max(vs) \in vs
  BY <1>3, MaxIsMember
<1>5. Collapse(from, upto)[k] = inbox[Max(vs) + 1].value
  BY <1>3 DEF Collapse
<1> QED
  BY <1>4, <1>5 DEF Touching, NothingChanged

\* The collapsed feed gives every key a content, a delete or nothing.
LEMMA CollapseType ==
    ASSUME inbox \in Seq(Commits), NEW from \in Nat, NEW upto \in Int,
           upto <= Latest
    PROVE  Collapse(from, upto) \in [Keys -> Values \cup {Absent, Same}]
<1> SUFFICES ASSUME NEW k \in Keys, Touching(k, from, upto) # {}
             PROVE  inbox[Max(Touching(k, from, upto)) + 1].value
                      \in Values \cup {Absent, Same}
  BY DEF Collapse
<1>1. Touching(k, from, upto) \subseteq from..upto
  BY DEF Touching
<1> DEFINE m == Max(Touching(k, from, upto))
<1>2. m \in from..upto
  <2>1. m \in Touching(k, from, upto)
    BY <1>1, MaxIsMember
  <2> QED
    BY <1>1, <2>1
<1>3. inbox[m + 1] \in Commits
  BY <1>2 DEF Latest
<1> QED
  BY <1>3 DEF Commits

-----------------------------------------------------------------------------
(* Replaying the inbox.                                                    *)

LEMMA SetInduction ==
    \A S \in SUBSET Nat : 0 \in S /\ (\A n \in S : n + 1 \in S) => S = Nat
<1> SUFFICES ASSUME NEW S \in SUBSET Nat, 0 \in S, \A n \in S : n + 1 \in S,
                    Nat \ S # {}
             PROVE  FALSE
  OBVIOUS
<1> DEFINE Less == OpToRel(<, Nat)
<1>1. PICK n \in Nat \ S : \A m \in Nat \ S : ~ (<<m, n>> \in Less)
  <2>1. IsWellFoundedOn(Less, Nat)
    BY NatLessThanWellFounded
  <2> HIDE DEF Less
  <2> QED
    BY <2>1, WFMin
<1>2. n - 1 \in Nat /\ n - 1 < n
  OBVIOUS
<1>3. <<n - 1, n>> \in Less
  BY <1>2 DEF OpToRel
<1>4. n - 1 \in S
  BY <1>1, <1>2, <1>3
<1> QED
  BY <1>4

\* The equation by which LakeAt is defined has a solution.
LEMMA Replayed ==
    LakeAt = [v \in -1..(MaxCommits - 1) |->
                 IF v = -1 THEN EmptyTable ELSE Changed(LakeAt[v - 1], inbox[v + 1])]
<1> DEFINE At(f, v) == IF v = -1 THEN EmptyTable ELSE Changed(f[v - 1], inbox[v + 1])
           Solves(f, n) == f = [v \in -1..(n - 1) |-> At(f, v)]
           S == {n \in Nat : \E f : Solves(f, n)}
<1>1. 0 \in S
  <2>1. Solves([v \in -1..(0 - 1) |-> EmptyTable], 0)
    OBVIOUS
  <2> QED
    BY <2>1
<1>2. ASSUME NEW n \in S
      PROVE  n + 1 \in S
  <2>1. PICK f : Solves(f, n)
    OBVIOUS
  <2> DEFINE g == [v \in -1..((n + 1) - 1) |-> At(f, v)]
  <2>2. ASSUME NEW v \in -1..((n + 1) - 1), v # -1
        PROVE  g[v - 1] = f[v - 1]
    <3>1. v - 1 \in -1..(n - 1) /\ v - 1 \in -1..((n + 1) - 1)
      BY <2>2
    <3>2. f[v - 1] = At(f, v - 1)
      BY <2>1, <3>1
    <3>3. g[v - 1] = At(f, v - 1)
      BY <3>1
    <3> QED
      BY <3>2, <3>3
  <2>3. \A v \in -1..((n + 1) - 1) : At(f, v) = At(g, v)
    <3> HIDE DEF g
    <3> QED
      BY <2>2
  <2>4. Solves(g, n + 1)
    BY <2>3
  <2>5. \E f2 : Solves(f2, n + 1)
    <3> HIDE DEF g, Solves
    <3> QED
      BY <2>4
  <2> QED
    BY <2>5
<1>3. S = Nat
  <2> HIDE DEF S
  <2> QED
    BY <1>1, <1>2, SetInduction DEF S
<1>4. MaxCommits \in S
  BY <1>3, InboxAssumption
<1>5. \E f : Solves(f, MaxCommits)
  BY <1>4
<1> QED
  BY <1>5 DEF LakeAt

LEMMA LakeRows ==
    /\ LakeAt[-1] = EmptyTable
    /\ \A v \in 0..(MaxCommits - 1) : LakeAt[v] = Changed(LakeAt[v - 1], inbox[v + 1])
<1>1. \A v \in -1..(MaxCommits - 1) :
         LakeAt[v] = IF v = -1 THEN EmptyTable ELSE Changed(LakeAt[v - 1], inbox[v + 1])
  <2> DEFINE At(v) == IF v = -1 THEN EmptyTable ELSE Changed(LakeAt[v - 1], inbox[v + 1])
  <2>1. LakeAt = [v \in -1..(MaxCommits - 1) |-> At(v)]
    BY Replayed
  <2> HIDE DEF At
  <2>2. \A v \in -1..(MaxCommits - 1) : LakeAt[v] = At(v)
    BY <2>1
  <2> QED
    BY <2>2 DEF At
<1>2. -1 \in -1..(MaxCommits - 1)
  BY InboxAssumption
<1> QED
  BY <1>1, <1>2

LEMMA LakeRowsNext ==
    /\ (LakeAt[-1] = EmptyTable)'
    /\ (\A v \in 0..(MaxCommits - 1) : LakeAt[v] = Changed(LakeAt[v - 1], inbox[v + 1]))'
BY LakeRows, PTL

USE InboxAssumption

LEMMA LakeTables ==
    \A v \in -1..(MaxCommits - 1) : LakeAt[v] = [k \in Keys |-> LakeAt[v][k]]
<1> TAKE v \in -1..(MaxCommits - 1)
<1>1. CASE v = -1
  <2>1. EmptyTable = [k \in Keys |-> EmptyTable[k]]
    BY DEF EmptyTable
  <2> QED
    BY <1>1, <2>1, LakeRows
<1>2. CASE v # -1
  <2> DEFINE T == Changed(LakeAt[v - 1], inbox[v + 1])
  <2>1. v \in 0..(MaxCommits - 1)
    BY <1>2
  <2>2. LakeAt[v] = T
    BY <2>1, LakeRows
  <2>3. T = [k \in Keys |-> T[k]]
    BY DEF Changed
  <2> HIDE DEF T
  <2> QED
    BY <2>2, <2>3
<1> QED
  BY <1>1, <1>2

\* A commit that moves no row sets the key it touches and no other.
LEMMA OneCommit ==
    ASSUME TypeOK, KeysStay, NEW v \in 0..Latest, NEW k \in Keys
    PROVE  LakeAt[v][k] = IF inbox[v + 1].key = k /\ inbox[v + 1].value # Same
                          THEN inbox[v + 1].value ELSE LakeAt[v - 1][k]
<1>1. v \in 0..(MaxCommits - 1)
  BY DEF TypeOK, Latest
<1>2. LakeAt[v] = Changed(LakeAt[v - 1], inbox[v + 1])
  BY <1>1, LakeRows
<1>3. inbox[v + 1].left # k
  BY DEF KeysStay
<1> QED
  BY <1>2, <1>3 DEF Changed

\* A row stays what it is while no commit touches its key.
LEMMA Untouched ==
    ASSUME TypeOK, KeysStay, NEW k \in Keys,
           NEW a \in -1..Latest, NEW b \in a..Latest, Touching(k, a + 1, b) = {}
    PROVE  LakeAt[b][k] = LakeAt[a][k]
<1> DEFINE S == {n \in Nat : a + n <= b => LakeAt[a + n][k] = LakeAt[a][k]}
<1>0. Latest \in Int
  BY DEF TypeOK, Latest
<1>1. 0 \in S
  BY <1>0
<1>2. ASSUME NEW n \in S
      PROVE  n + 1 \in S
  <2> SUFFICES ASSUME a + (n + 1) <= b
               PROVE  LakeAt[a + (n + 1)][k] = LakeAt[a][k]
    OBVIOUS
  <2> DEFINE v == a + (n + 1)
  <2>1. v \in 0..Latest /\ v \in (a + 1)..b /\ v - 1 = a + n /\ a + n <= b
    BY <1>0
  <2>2. ~ (inbox[v + 1].key = k /\ inbox[v + 1].value # Same)
    BY <2>1 DEF Touching
  <2> HIDE DEF v
  <2>3. LakeAt[v][k] = LakeAt[v - 1][k]
    BY <2>1, <2>2, OneCommit
  <2>4. LakeAt[a + n][k] = LakeAt[a][k]
    BY <2>1
  <2> QED
    BY <2>1, <2>3, <2>4 DEF v
<1>3. S = Nat
  <2> HIDE DEF S
  <2> QED
    BY <1>1, <1>2, SetInduction DEF S
<1>4. b - a \in Nat /\ a + (b - a) = b
  BY <1>0
<1>5. b - a \in S
  <2> HIDE DEF S
  <2> QED
    BY <1>3, <1>4
<1> QED
  BY <1>0, <1>4, <1>5

\* Collapsed, the feed behind a version makes of the rows of that version, or
\* of a later one it covers, those of the version it goes up to: what is
\* carried twice lands where it was carried first.
LEMMA FeedApplied ==
    ASSUME TypeOK, KeysStay, NEW from \in Nat, NEW upto \in (from - 1)..Latest,
           NEW w \in (from - 1)..upto, pg = LakeAt[w]
    PROVE  After(Collapse(from, upto)) = LakeAt[upto]
<1>0. Latest \in Int /\ Latest <= MaxCommits - 1
  BY DEF TypeOK, Latest
<1> SUFFICES ASSUME NEW k \in Keys
             PROVE  After(Collapse(from, upto))[k] = LakeAt[upto][k]
  <2>1. upto \in -1..(MaxCommits - 1)
    BY <1>0
  <2>2. LakeAt[upto] = [k \in Keys |-> LakeAt[upto][k]]
    BY <2>1, LakeTables
  <2> QED
    BY <2>2 DEF After
<1> DEFINE vs == Touching(k, from, upto)
           m == Max(vs)
<1>1. CASE vs = {}
  <2>1. After(Collapse(from, upto))[k] = LakeAt[w][k]
    BY <1>1 DEF After, Collapse
  <2>2. Touching(k, w + 1, upto) = {}
    BY <1>1 DEF Touching
  <2>3. w \in -1..Latest /\ upto \in w..Latest
    BY <1>0
  <2> QED
    BY <2>1, <2>2, <2>3, Untouched
<1>2. CASE vs # {}
  <2>1. vs \subseteq from..upto
    BY DEF Touching
  <2>2. m \in vs /\ \A y \in vs : m >= y
    BY <1>2, <2>1, MaxIsMember
  <2>3. m \in from..upto /\ inbox[m + 1].key = k /\ inbox[m + 1].value # Same
    BY <2>2 DEF Touching
  <2>4. After(Collapse(from, upto))[k] = inbox[m + 1].value
    BY <1>2, <2>3 DEF After, Collapse
  <2> HIDE DEF m
  <2>5. m \in 0..Latest /\ upto \in m..Latest
    BY <1>0, <2>3
  <2>6. LakeAt[m][k] = inbox[m + 1].value
    BY <2>3, <2>5, OneCommit
  <2>7. Touching(k, m + 1, upto) = {}
    <3> SUFFICES ASSUME NEW v \in Touching(k, m + 1, upto) PROVE FALSE
      OBVIOUS
    <3>1. v \in (m + 1)..upto /\ inbox[v + 1].key = k /\ inbox[v + 1].value # Same
      BY DEF Touching
    <3>2. v \in vs /\ v > m
      BY <2>3, <3>1 DEF Touching
    <3> QED
      BY <2>2, <2>3, <3>1, <3>2
  <2>8. LakeAt[upto][k] = LakeAt[m][k]
    BY <2>5, <2>7, Untouched
  <2> QED
    BY <2>4, <2>6, <2>8
<1> QED
  BY <1>1, <1>2

\* The rows of a version never change while the inbox grows.
LEMMA Grown ==
    ASSUME TypeOK, NEW commit \in Commits, WriteInbox(commit)
    PROVE  \A v \in -1..Latest : LakeAt'[v] = LakeAt[v]
<1> DEFINE S == {n \in Nat : n - 1 <= Latest => LakeAt'[n - 1] = LakeAt[n - 1]}
<1>0. /\ Latest \in Int /\ Latest <= MaxCommits - 1
      /\ \A v \in 0..Latest : inbox'[v + 1] = inbox[v + 1]
  BY DEF TypeOK, WriteInbox, Latest
<1>1. 0 \in S
  BY LakeRows, LakeRowsNext DEF EmptyTable
<1>2. ASSUME NEW n \in S
      PROVE  n + 1 \in S
  <2> SUFFICES ASSUME (n + 1) - 1 <= Latest
               PROVE  LakeAt'[(n + 1) - 1] = LakeAt[(n + 1) - 1]
    OBVIOUS
  <2>1. n \in 0..Latest /\ n \in 0..(MaxCommits - 1) /\ (n + 1) - 1 = n
    BY <1>0
  <2>2. LakeAt[n] = Changed(LakeAt[n - 1], inbox[n + 1])
    BY <2>1, LakeRows
  <2>3. LakeAt'[n] = Changed(LakeAt'[n - 1], inbox'[n + 1])
    BY <2>1, LakeRowsNext DEF Changed
  <2>4. LakeAt'[n - 1] = LakeAt[n - 1]
    BY <2>1, <1>0
  <2>5. inbox'[n + 1] = inbox[n + 1]
    BY <1>0, <2>1
  <2>6. LakeAt'[n] = LakeAt[n]
    BY <2>2, <2>3, <2>4, <2>5
  <2> QED
    BY <2>1, <2>6
<1>3. S = Nat
  <2> HIDE DEF S
  <2> QED
    BY <1>1, <1>2, SetInduction DEF S
<1> SUFFICES ASSUME NEW v \in -1..Latest PROVE LakeAt'[v] = LakeAt[v]
  OBVIOUS
<1>4. v + 1 \in Nat /\ (v + 1) - 1 = v
  BY <1>0
<1>5. v + 1 \in S
  <2> HIDE DEF S
  <2> QED
    BY <1>3, <1>4
<1> QED
  BY <1>0, <1>4, <1>5

-----------------------------------------------------------------------------
(* The invariant.                                                          *)

Requests == [from : 0..MaxCommits, upto : -1..(MaxCommits - 1),
             changes : [Keys -> Values \cup {Absent, Same}]]

\* The watcher is in process_inbox(): it has seen a version of the inbox, its
\* request covers what is behind the recorded version up to at least that
\* one, and when it is about to record that version, all of it is carried.
InHand ==
    /\ request \in Requests
    /\ current <= Latest
    /\ pc = "posting" => /\ request.from = last + 1
                         /\ current <= request.upto
    /\ pc = "recording" => \A v \in (last + 1)..current : Carried(v)

InboxInv == TypeOK /\ InHand /\ NothingSkipped

LEMMA InitInv == Init => InboxInv
<1> SUFFICES ASSUME Init PROVE InboxInv
  OBVIOUS
<1>1. TypeOK
  BY DEF Init, TypeOK, EmptyTable
<1>2. InHand
  BY DEF Init, InHand, Requests, NoRequest, NothingChanged, Latest
<1>3. NothingSkipped
  BY DEF Init, NothingSkipped
<1> QED
  BY <1>1, <1>2, <1>3 DEF InboxInv

\* What has been carried stays so while the inbox grows.
LEMMA CarriedKept ==
    ASSUME inbox \in Seq(Commits), NEW commit \in Commits, WriteInbox(commit)
    PROVE  /\ Latest' = Latest + 1
           /\ \A v \in 0..Latest : Carried(v) => Carried(v)'
<1>1. /\ Len(inbox') = Len(inbox) + 1
      /\ \A v \in 0..Latest : inbox'[v + 1] = inbox[v + 1]
  BY DEF WriteInbox, Latest
<1> QED
  BY <1>1 DEF Carried, Latest, WriteInbox

\* A transaction carries what its request covers, and forgets nothing.
LEMMA TransactionTypes ==
    ASSUME TypeOK, NEW r \in Requests, Transaction(r)
    PROVE  /\ pg' \in [Keys -> Values \cup {Absent}]
           /\ carried' \subseteq Versions
           /\ carried \subseteq carried'
           /\ r.from..r.upto \subseteq carried'
<1>1. r.from..r.upto \subseteq Versions
  BY DEF Requests, Versions
<1>2. pg' \in [Keys -> Values \cup {Absent}]
  BY DEF Transaction, After, Requests, TypeOK
<1> QED
  BY <1>1, <1>2 DEF Transaction, TypeOK

-----------------------------------------------------------------------------
(* Every step keeps the invariant.                                         *)

LEMMA NoRequestIsRequest == NoRequest \in Requests
  BY DEF NoRequest, Requests, NothingChanged

LEMMA WriteKeeps ==
    ASSUME InboxInv, NEW commit \in Commits, WriteInbox(commit)
    PROVE  InboxInv'
<1>1. /\ Latest' = Latest + 1
      /\ \A v \in 0..Latest : Carried(v) => Carried(v)'
  BY CarriedKept DEF InboxInv, TypeOK
<1>2. Latest \in -1..(MaxCommits - 1) /\ last \in Int /\ current \in Int /\ -1 <= last
  BY DEF InboxInv, TypeOK, Latest
<1>3. TypeOK'
  BY DEF InboxInv, TypeOK, WriteInbox, watcher, budget
<1>4. InHand'
  BY <1>1, <1>2 DEF InboxInv, InHand, WriteInbox, watcher
<1>5. NothingSkipped'
  BY <1>1, <1>2 DEF InboxInv, NothingSkipped, WriteInbox
<1> QED
  BY <1>3, <1>4, <1>5 DEF InboxInv

LEMMA LookUpKeeps ==
    ASSUME InboxInv, LookUp
    PROVE  InboxInv'
<1>1. Latest \in -1..(MaxCommits - 1) /\ Latest' = Latest
  BY DEF InboxInv, TypeOK, Latest, LookUp
<1>2. TypeOK'
  BY <1>1 DEF InboxInv, TypeOK, LookUp, budget
<1>3. InHand'
  BY <1>1 DEF InboxInv, InHand, LookUp
<1>4. NothingSkipped'
  BY <1>1 DEF InboxInv, NothingSkipped, Carried, LookUp
<1> QED
  BY <1>2, <1>3, <1>4 DEF InboxInv

LEMMA ReadKeeps ==
    ASSUME InboxInv, ReadFeed
    PROVE  InboxInv'
<1>1. PICK upto \in current..Latest :
          request' = [from |-> last + 1, upto |-> upto,
                      changes |-> Collapse(last + 1, upto)]
  BY DEF ReadFeed
<1>2. /\ Latest \in -1..(MaxCommits - 1) /\ Latest' = Latest
      /\ last + 1 \in 0..MaxCommits /\ current \in -1..(MaxCommits - 1)
      /\ upto \in -1..(MaxCommits - 1) /\ current <= upto /\ upto <= Latest
  BY <1>1 DEF InboxInv, TypeOK, Latest, ReadFeed
<1>3. Collapse(last + 1, upto) \in [Keys -> Values \cup {Absent, Same}]
  BY <1>2, CollapseType DEF InboxInv, TypeOK
<1>4. request' \in Requests
  BY <1>1, <1>2, <1>3 DEF Requests
<1>5. TypeOK'
  BY DEF InboxInv, TypeOK, ReadFeed, budget
<1>6. pc' = "recording" => \A v \in (last + 1)..current : Carried(v)'
  <2> SUFFICES ASSUME pc' = "recording", NEW v \in (last + 1)..current
               PROVE  inbox[v + 1].value = Same
    BY DEF Carried, ReadFeed
  <2>1. Collapse(last + 1, upto) = NothingChanged
    BY <1>1 DEF ReadFeed
  <2>2. \A w \in (last + 1)..upto : inbox[w + 1].value = Same
    BY <1>2, <2>1, NothingLeftOut DEF InboxInv, TypeOK
  <2> QED
    BY <1>2, <2>2
<1>7. InHand'
  BY <1>1, <1>2, <1>4, <1>6 DEF InboxInv, InHand, ReadFeed
<1>8. NothingSkipped'
  BY <1>2 DEF InboxInv, NothingSkipped, Carried, ReadFeed
<1> QED
  BY <1>5, <1>7, <1>8 DEF InboxInv

\* What was carried before a transaction is carried after it.
LEMMA CarryMore ==
    ASSUME InboxInv, carried \subseteq carried', UNCHANGED <<inbox, last>>
    PROVE  Latest' = Latest /\ NothingSkipped'
  BY DEF InboxInv, NothingSkipped, Carried, Latest

LEMMA PostKeeps ==
    ASSUME InboxInv, PostOk
    PROVE  InboxInv'
<1>1. request \in Requests /\ Transaction(request)
  BY DEF InboxInv, InHand, PostOk
<1>2. /\ pg' \in [Keys -> Values \cup {Absent}] /\ carried' \subseteq Versions
      /\ carried \subseteq carried'
      /\ request.from..request.upto \subseteq carried'
  BY <1>1, TransactionTypes DEF InboxInv
<1>3. Latest' = Latest /\ NothingSkipped'
  BY <1>2, CarryMore DEF PostOk
<1>4. TypeOK'
  BY <1>2 DEF InboxInv, TypeOK, PostOk, budget
<1>5. \A v \in (last + 1)..current : v \in carried'
  BY <1>2 DEF InboxInv, InHand, PostOk, Requests, TypeOK
<1>6. InHand'
  BY <1>3, <1>5 DEF InboxInv, InHand, PostOk, Carried
<1> QED
  BY <1>3, <1>4, <1>6 DEF InboxInv

\* The watcher gives up: what it knew is forgotten, and nothing is recorded.
LEMMA LeaveKeeps ==
    ASSUME InboxInv, Leave, UNCHANGED <<inbox, last>>,
           carried \subseteq carried', TypeOK'
    PROVE  InboxInv'
<1>1. Latest' = Latest /\ NothingSkipped'
  BY CarryMore
<1>2. InHand'
  BY <1>1, NoRequestIsRequest DEF InboxInv, InHand, Leave, Latest, TypeOK
<1> QED
  BY <1>1, <1>2 DEF InboxInv

LEMMA RefusedKeeps ==
    ASSUME InboxInv, PostRefused
    PROVE  InboxInv'
<1>1. TypeOK'
  BY DEF InboxInv, TypeOK, PostRefused, Leave, budget
<1> QED
  BY <1>1, LeaveKeeps DEF PostRefused

LEMMA TroubleKeeps ==
    ASSUME InboxInv, Trouble
    PROVE  InboxInv'
<1>1. CASE PostFails
  <2>1. /\ pg' \in [Keys -> Values \cup {Absent}] /\ carried' \subseteq Versions
        /\ carried \subseteq carried'
    <3>1. CASE UNCHANGED <<pg, carried>>
      BY <3>1 DEF InboxInv, TypeOK
    <3>2. CASE Transaction(request)
      BY <3>2, TransactionTypes DEF InboxInv, InHand
    <3> QED
      BY <1>1, <3>1, <3>2 DEF PostFails
  <2>2. TypeOK'
    BY <1>1, <2>1 DEF InboxInv, TypeOK, PostFails, Error, Leave
  <2> QED
    BY <1>1, <2>1, <2>2, LeaveKeeps DEF PostFails
<1>2. CASE Abandon
  <2>1. TypeOK'
    BY <1>2 DEF InboxInv, InHand, Requests, TypeOK, Abandon, Leave
  <2> QED
    BY <1>2, <2>1, LeaveKeeps DEF Abandon
<1>3. CASE Interrupted
  <2>1. TypeOK'
    BY <1>3 DEF InboxInv, TypeOK, Interrupted, Error, Leave
  <2> QED
    BY <1>3, <2>1, LeaveKeeps DEF Interrupted
<1> QED
  BY <1>1, <1>2, <1>3 DEF Trouble

LEMMA OrphanKeeps ==
    ASSUME InboxInv, NEW r \in orphans, OrphanEnds(r)
    PROVE  InboxInv'
<1>1. r \in Requests
  BY DEF InboxInv, TypeOK, Requests
<1>2. /\ pg' \in [Keys -> Values \cup {Absent}] /\ carried' \subseteq Versions
      /\ carried \subseteq carried'
  <2>1. CASE Acceptable(r)
    BY <1>1, <2>1, TransactionTypes DEF InboxInv, OrphanEnds
  <2>2. CASE ~ Acceptable(r)
    BY <2>2 DEF InboxInv, TypeOK, OrphanEnds
  <2> QED
    BY <2>1, <2>2
<1>3. Latest' = Latest /\ NothingSkipped'
  BY <1>2, CarryMore DEF OrphanEnds
<1>4. TypeOK'
  BY <1>2 DEF InboxInv, TypeOK, OrphanEnds, watcher, budget
<1>5. InHand'
  BY <1>2, <1>3 DEF InboxInv, InHand, OrphanEnds, watcher, Carried
<1> QED
  BY <1>3, <1>4, <1>5 DEF InboxInv

\* The version recorded is one whose changes, and all before, are carried.
LEMMA RecordKeeps ==
    ASSUME InboxInv, SetVersion
    PROVE  InboxInv'
<1>1. last' = current /\ pc = "recording" /\ Latest' = Latest
  BY DEF SetVersion, Recorded, Latest
<1>2. TypeOK'
  BY <1>1 DEF InboxInv, TypeOK, SetVersion, Leave, budget
<1>3. InHand'
  BY <1>1, NoRequestIsRequest DEF InboxInv, InHand, SetVersion, Leave, Latest, TypeOK
<1>4. NothingSkipped'
  <2> SUFFICES ASSUME NEW v \in 0..current
               PROVE  v <= Latest /\ Carried(v)
    BY <1>1 DEF NothingSkipped, Carried, SetVersion
  <2>1. last \in Int /\ current \in Int /\ Latest \in Int
    BY DEF InboxInv, TypeOK, Latest
  <2>2. CASE v <= last
    BY <2>1, <2>2 DEF InboxInv, NothingSkipped
  <2>3. CASE v > last
    BY <1>1, <2>1, <2>3 DEF InboxInv, InHand
  <2> QED
    BY <2>1, <2>2, <2>3
<1> QED
  BY <1>2, <1>3, <1>4 DEF InboxInv

LEMMA StepInv == InboxInv /\ [Next]_vars => InboxInv'
<1> SUFFICES ASSUME InboxInv, [Next]_vars PROVE InboxInv'
  OBVIOUS
<1>1. CASE Watch
  BY <1>1, LookUpKeeps, ReadKeeps, PostKeeps, RefusedKeeps, RecordKeeps DEF Watch
<1>2. CASE Trouble
  BY <1>2, TroubleKeeps
<1>3. CASE \E r \in orphans : OrphanEnds(r)
  BY <1>3, OrphanKeeps
<1>4. CASE \E commit \in Commits : WriteInbox(commit)
  BY <1>4, WriteKeeps
<1>5. CASE UNCHANGED vars
  BY <1>5 DEF vars, watcher, budget, InboxInv, InHand, NothingSkipped, TypeOK,
              Carried, Latest
<1> QED
  BY <1>1, <1>2, <1>3, <1>4, <1>5 DEF Next

-----------------------------------------------------------------------------
(* Nothing old lands on top of something newer.                            *)

\* Postgres has the rows of version v, which is not older than the recorded
\* one.  A feed being read or sent begins at most at v and reaches it; once
\* it is applied, v is not older than the version to be recorded.
Settled(v) ==
    /\ v >= last
    /\ pg = LakeAt[v]
    /\ pc \in {"reading", "posting"} => v <= current
    /\ pc = "recording" => v >= current

Faithful ==
    pc = "posting" => /\ request.upto <= Latest
                      /\ request.changes = Collapse(last + 1, request.upto)

InOrder ==
    Calm => orphans = {} /\ Faithful /\ \E v \in -1..Latest : Settled(v)

LEMMA InitOrder == Init => InOrder
<1> SUFFICES ASSUME Init PROVE InOrder
  OBVIOUS
<1>1. Settled(-1)
  BY LakeRows DEF Init, Settled
<1>2. -1 \in -1..Latest
  BY DEF Init, Latest
<1> QED
  BY <1>1, <1>2 DEF Init, InOrder, Faithful

\* While the inbox does not change, neither do its versions.
LEMMA SameLake ==
    ASSUME UNCHANGED inbox
    PROVE  /\ LakeAt' = LakeAt /\ Latest' = Latest /\ KeysStay' = KeysStay
           /\ \A from, upto : Collapse(from, upto)' = Collapse(from, upto)
<1>1. Latest' = Latest /\ KeysStay' = KeysStay
  BY DEF Latest, KeysStay
<1>2. \A from, upto : Collapse(from, upto)' = Collapse(from, upto)
  BY DEF Collapse, Touching
<1>3. LakeAt' = LakeAt
  BY DEF LakeAt, Changed
<1> QED
  BY <1>1, <1>2, <1>3

LEMMA WriteOrder ==
    ASSUME InboxInv, InOrder, NEW commit \in Commits, WriteInbox(commit)
    PROVE  InOrder'
<1> SUFFICES ASSUME Calm' PROVE InOrder'
  BY DEF InOrder
<1>1. /\ Latest \in Int /\ Latest' = Latest + 1
      /\ \A v \in 0..Latest : inbox'[v + 1] = inbox[v + 1]
  BY DEF InboxInv, TypeOK, WriteInbox, Latest
<1>2. Calm
  <2>1. KeysStay' /\ abandoned = 0
    BY DEF Calm, WriteInbox, budget
  <2>2. \A v \in 0..Latest' : inbox'[v + 1].left = Absent
    BY <2>1 DEF KeysStay
  <2>3. \A v \in 0..Latest : inbox[v + 1].left = Absent
    BY <1>1, <2>2
  <2> QED
    BY <2>1, <2>3 DEF Calm, KeysStay
<1>3. PICK v \in -1..Latest : Settled(v)
  BY <1>2 DEF InOrder
<1>4. LakeAt'[v] = LakeAt[v]
  BY <1>3, Grown DEF InboxInv
<1>5. Settled(v)' /\ v \in -1..Latest'
  BY <1>1, <1>3, <1>4 DEF Settled, WriteInbox, watcher
<1>6. Faithful'
  <2> SUFFICES ASSUME pc = "posting"
               PROVE  /\ request.upto <= Latest'
                      /\ request.changes = Collapse(last + 1, request.upto)'
    BY DEF Faithful, WriteInbox, watcher
  <2>1. /\ request.upto <= Latest /\ request.changes = Collapse(last + 1, request.upto)
        /\ request.upto \in Int /\ last \in Int /\ last >= -1
    BY <1>2 DEF InOrder, Faithful, InboxInv, InHand, TypeOK, Requests
  <2>2. \A w \in (last + 1)..request.upto : inbox'[w + 1] = inbox[w + 1]
    BY <1>1, <2>1
  <2>3. last' = last /\ request' = request
    BY DEF WriteInbox, watcher
  <2>4. \A k \in Keys : Touching(k, last + 1, request.upto)'
                          = Touching(k, last + 1, request.upto)
    BY <2>2, <2>3 DEF Touching
  <2>5. ASSUME NEW k \in Keys
        PROVE  Collapse(last + 1, request.upto)'[k] = Collapse(last + 1, request.upto)[k]
    <3> DEFINE vs == Touching(k, last + 1, request.upto)
    <3>1. vs' = vs
      BY <2>4
    <3>2. CASE vs = {}
      BY <3>1, <3>2 DEF Collapse
    <3>3. CASE vs # {}
      <4>1. vs \subseteq (last + 1)..request.upto
        BY DEF Touching
      <4>2. Max(vs) \in (last + 1)..request.upto
        BY <2>1, <3>3, <4>1, MaxIsMember
      <4>3. Collapse(last + 1, request.upto)[k] = inbox[Max(vs) + 1].value
        BY <3>3 DEF Collapse
      <4>4. Collapse(last + 1, request.upto)'[k] = inbox'[Max(vs) + 1].value
        BY <3>1, <3>3 DEF Collapse
      <4> QED
        BY <2>2, <4>2, <4>3, <4>4
    <3> QED
      BY <3>2, <3>3
  <2>6. Collapse(last + 1, request.upto)' = Collapse(last + 1, request.upto)
    BY <2>5 DEF Collapse
  <2> QED
    BY <1>1, <2>1, <2>6
<1> QED
  BY <1>2, <1>5, <1>6 DEF InOrder, WriteInbox, budget

LEMMA LookUpOrder ==
    ASSUME InboxInv, InOrder, LookUp
    PROVE  InOrder'
<1> SUFFICES ASSUME Calm' PROVE InOrder'
  BY DEF InOrder
<1>1. LakeAt' = LakeAt /\ Latest' = Latest /\ KeysStay' = KeysStay
  BY SameLake DEF LookUp
<1>2. Calm
  BY <1>1 DEF Calm, LookUp, budget
<1>3. PICK v \in -1..Latest : Settled(v)
  BY <1>2 DEF InOrder
<1>4. Settled(v)'
  BY <1>1, <1>3 DEF Settled, LookUp
<1> QED
  BY <1>1, <1>2, <1>3, <1>4 DEF InOrder, Faithful, LookUp

LEMMA ReadOrder ==
    ASSUME InboxInv, InOrder, ReadFeed
    PROVE  InOrder'
<1> SUFFICES ASSUME Calm' PROVE InOrder'
  BY DEF InOrder
<1>1. /\ LakeAt' = LakeAt /\ Latest' = Latest /\ KeysStay' = KeysStay
      /\ \A from, upto : Collapse(from, upto)' = Collapse(from, upto)
  BY SameLake DEF ReadFeed
<1>2. Calm
  BY <1>1 DEF Calm, ReadFeed, budget
<1>3. PICK v \in -1..Latest : Settled(v)
  BY <1>2 DEF InOrder
<1>4. PICK upto \in current..Latest :
          request' = [from |-> last + 1, upto |-> upto,
                      changes |-> Collapse(last + 1, upto)]
  BY DEF ReadFeed
<1>5. /\ last \in Int /\ last >= -1 /\ current \in Int /\ Latest \in Int
      /\ v <= current /\ v >= last /\ upto >= v /\ upto \in Int
  BY <1>3, <1>4 DEF Settled, ReadFeed, InboxInv, TypeOK, Latest
<1>6. Faithful'
  <2>1. request'.changes = Collapse(last + 1, request'.upto) /\ request'.upto <= Latest
    BY <1>4, <1>5
  <2>2. last' = last
    BY DEF ReadFeed
  <2>3. Collapse(last + 1, request.upto)' = Collapse(last + 1, request'.upto)
    BY <2>2 DEF Collapse, Touching, ReadFeed
  <2> QED
    BY <1>1, <2>1, <2>3 DEF Faithful
<1>7. \E w \in -1..Latest' : Settled(w)'
  <2>1. CASE request'.changes = NothingChanged
    <3>1. pg = LakeAt[v] /\ pc' = "recording"
      BY <1>3, <2>1 DEF Settled, ReadFeed
    <3>2. After(Collapse(last + 1, upto)) = LakeAt[upto]
      BY <1>2, <1>4, <1>5, <3>1, FeedApplied DEF Calm, InboxInv
    <3>3. After(NothingChanged) = pg
      BY DEF After, NothingChanged, InboxInv, TypeOK
    <3>4. pg = LakeAt[upto]
      BY <1>4, <2>1, <3>2, <3>3
    <3>5. Settled(upto)' /\ upto \in -1..Latest'
      BY <1>1, <1>4, <1>5, <3>1, <3>4 DEF Settled, ReadFeed
    <3> QED
      BY <3>5
  <2>2. CASE request'.changes # NothingChanged
    BY <1>1, <1>3, <1>5, <2>2 DEF Settled, ReadFeed
  <2> QED
    BY <2>1, <2>2
<1> QED
  BY <1>2, <1>6, <1>7 DEF InOrder, ReadFeed

\* The request brings the rows of the version it goes up to.
LEMMA RequestApplied ==
    ASSUME InboxInv, InOrder, Calm, pc = "posting", Transaction(request)
    PROVE  /\ pg' = LakeAt[request.upto]
           /\ request.upto \in -1..Latest
           /\ request.upto >= current /\ request.upto >= last
<1>1. PICK v \in -1..Latest : Settled(v)
  BY DEF InOrder
<1>2. /\ last \in Int /\ last >= -1 /\ current \in Int /\ Latest \in Int
      /\ v <= current /\ v >= last /\ request.upto >= current
      /\ request.upto \in Int /\ request.upto <= Latest
  BY <1>1 DEF Settled, InboxInv, InHand, Requests, TypeOK, Latest, InOrder, Faithful
<1>3. pg = LakeAt[v] /\ request.changes = Collapse(last + 1, request.upto)
  BY <1>1 DEF Settled, InOrder, Faithful
<1>4. After(Collapse(last + 1, request.upto)) = LakeAt[request.upto]
  BY <1>2, <1>3, FeedApplied DEF InboxInv, Calm
<1> QED
  BY <1>2, <1>3, <1>4 DEF Transaction

LEMMA PostOrder ==
    ASSUME InboxInv, InOrder, PostOk
    PROVE  InOrder'
<1> SUFFICES ASSUME Calm' PROVE InOrder'
  BY DEF InOrder
<1>1. LakeAt' = LakeAt /\ Latest' = Latest /\ KeysStay' = KeysStay
  BY SameLake DEF PostOk
<1>2. Calm
  BY <1>1 DEF Calm, PostOk, budget
<1>3. /\ pg' = LakeAt[request.upto] /\ request.upto \in -1..Latest
      /\ request.upto >= current /\ request.upto >= last
  BY <1>2, RequestApplied DEF PostOk
<1>4. Settled(request.upto)'
  <2>1. /\ last' = last /\ current' = current /\ pc' = "recording"
        /\ request'.upto = request.upto
    BY DEF PostOk
  <2> QED
    BY <1>1, <1>3, <2>1 DEF Settled
<1>5. request.upto' \in -1..Latest'
  BY <1>1, <1>3 DEF PostOk
<1> QED
  BY <1>2, <1>4, <1>5 DEF InOrder, Faithful, PostOk

\* The watcher gives up, before or after its transaction: nothing is lost.
LEMMA LeaveOrder ==
    ASSUME InboxInv, InOrder, Leave, UNCHANGED <<inbox, last, orphans, abandoned>>,
           pg' = pg \/ (pc = "posting" /\ Transaction(request))
    PROVE  InOrder'
<1> SUFFICES ASSUME Calm' PROVE InOrder'
  BY DEF InOrder
<1>1. LakeAt' = LakeAt /\ Latest' = Latest /\ KeysStay' = KeysStay
  BY SameLake
<1>2. Calm
  BY <1>1 DEF Calm
<1>3. \E v \in -1..Latest : v >= last /\ pg' = LakeAt[v]
  <2>1. CASE pg' = pg
    BY <1>2, <2>1 DEF InOrder, Settled
  <2>2. CASE pc = "posting" /\ Transaction(request)
    BY <1>2, <2>2, RequestApplied
  <2> QED
    BY <2>1, <2>2
<1>4. \E v \in -1..Latest' : Settled(v)'
  BY <1>1, <1>3 DEF Settled, Leave
<1> QED
  BY <1>2, <1>4 DEF InOrder, Faithful, Leave

LEMMA RecordOrder ==
    ASSUME InboxInv, InOrder, SetVersion
    PROVE  InOrder'
<1> SUFFICES ASSUME Calm' PROVE InOrder'
  BY DEF InOrder
<1>1. LakeAt' = LakeAt /\ Latest' = Latest /\ KeysStay' = KeysStay
  BY SameLake DEF SetVersion
<1>2. Calm
  BY <1>1 DEF Calm, SetVersion, budget
<1>3. PICK v \in -1..Latest : Settled(v)
  BY <1>2 DEF InOrder
<1>4. Settled(v)'
  BY <1>1, <1>3 DEF Settled, SetVersion, Recorded, Leave
<1> QED
  BY <1>1, <1>2, <1>3, <1>4 DEF InOrder, Faithful, SetVersion, Leave

LEMMA StepOrder == InboxInv /\ InOrder /\ [Next]_vars => InOrder'
<1> SUFFICES ASSUME InboxInv, InOrder, [Next]_vars PROVE InOrder'
  OBVIOUS
<1>1. CASE LookUp
  BY <1>1, LookUpOrder
<1>2. CASE ReadFeed
  BY <1>2, ReadOrder
<1>3. CASE PostOk
  BY <1>3, PostOrder
<1>4. CASE PostRefused
  BY <1>4, LeaveOrder DEF PostRefused, budget
<1>5. CASE SetVersion
  BY <1>5, RecordOrder
<1>6. CASE PostFails
  BY <1>6, LeaveOrder DEF PostFails
<1>7. CASE Abandon
  BY <1>7 DEF Abandon, InOrder, Calm, InboxInv, TypeOK
<1>8. CASE Interrupted
  BY <1>8, LeaveOrder DEF Interrupted
<1>9. CASE \E r \in orphans : OrphanEnds(r)
  <2>1. UNCHANGED <<inbox, abandoned>> /\ orphans # {}
    BY <1>9 DEF OrphanEnds, budget
  <2>2. Calm' = Calm
    BY <2>1, SameLake DEF Calm
  <2> QED
    BY <2>1, <2>2 DEF InOrder
<1>10. CASE \E commit \in Commits : WriteInbox(commit)
  BY <1>10, WriteOrder
<1>11. CASE UNCHANGED vars
  <2>1. /\ LakeAt' = LakeAt /\ Latest' = Latest /\ KeysStay' = KeysStay
        /\ \A from, upto : Collapse(from, upto)' = Collapse(from, upto)
    BY <1>11, SameLake DEF vars
  <2>2. Collapse(last + 1, request.upto)' = Collapse(last + 1, request.upto)
    BY <1>11 DEF Collapse, Touching, vars, watcher
  <2>3. Calm' = Calm /\ Faithful' = Faithful
    BY <1>11, <2>1, <2>2 DEF Calm, Faithful, vars, watcher, budget
  <2>4. \A v \in -1..Latest : Settled(v) => Settled(v)'
    BY <1>11, <2>1 DEF Settled, vars, watcher
  <2> QED
    BY <1>11, <2>1, <2>3, <2>4 DEF InOrder, vars
<1> QED
  BY <1>1, <1>2, <1>3, <1>4, <1>5, <1>6, <1>7, <1>8, <1>9, <1>10, <1>11
  DEF Next, Watch, Trouble

-----------------------------------------------------------------------------
(* The watcher implements a mirror that only moves forward.                *)

LEMMA ShownMax ==
    TypeOK => /\ Shown \in -1..(MaxCommits - 1)
              /\ Shown \in carried \cup {-1}
              /\ \A v \in carried : v <= Shown
<1> SUFFICES ASSUME TypeOK
             PROVE  /\ Shown \in -1..(MaxCommits - 1)
                    /\ Shown \in carried \cup {-1}
                    /\ \A v \in carried : v <= Shown
  OBVIOUS
<1> DEFINE S == carried \cup {-1}
           lo == -1
           hi == MaxCommits - 1
<1>1. S \subseteq lo..hi /\ S # {} /\ lo \in Int /\ hi \in Int
  BY DEF TypeOK, Versions
<1>2. Max(S) \in S /\ \A v \in S : Max(S) >= v
  <2> HIDE DEF S, lo, hi
  <2> QED
    BY <1>1, MaxIsMember
<1> QED
  BY <1>1, <1>2 DEF Shown

LEMMA ShownMaxNext ==
    TypeOK' => /\ (Shown \in -1..(MaxCommits - 1))'
               /\ (Shown \in carried \cup {-1})'
               /\ (\A v \in carried : v <= Shown)'
BY ShownMax, PTL

\* Every version of the inbox is a table of rows.
LEMMA LakeType ==
    ASSUME TypeOK, NEW v \in -1..Latest
    PROVE  LakeAt[v] \in [Keys -> Values \cup {Absent}]
<1> DEFINE Tables == [Keys -> Values \cup {Absent}]
           S == {n \in Nat : n - 1 <= Latest => LakeAt[n - 1] \in Tables}
<1>0. Latest \in Int /\ Latest <= MaxCommits - 1
  BY DEF TypeOK, Latest
<1>1. 0 \in S
  <2>1. EmptyTable \in Tables
    BY DEF EmptyTable
  <2> QED
    BY <2>1, LakeRows
<1>2. ASSUME NEW n \in S
      PROVE  n + 1 \in S
  <2> SUFFICES ASSUME (n + 1) - 1 <= Latest
               PROVE  LakeAt[(n + 1) - 1] \in Tables
    OBVIOUS
  <2>1. n \in 0..Latest /\ n \in 0..(MaxCommits - 1) /\ (n + 1) - 1 = n
    BY <1>0
  <2>2. LakeAt[n - 1] \in Tables
    BY <2>1, <1>0
  <2>3. inbox[n + 1] \in Commits
    BY <2>1 DEF TypeOK, Latest
  <2>4. inbox[n + 1].value \in Values \cup {Absent, Same}
    BY <2>3 DEF Commits
  <2>5. Changed(LakeAt[n - 1], inbox[n + 1]) \in Tables
    BY <2>2, <2>4 DEF Changed
  <2>6. LakeAt[n] = Changed(LakeAt[n - 1], inbox[n + 1])
    BY <2>1, LakeRows
  <2> QED
    BY <2>1, <2>5, <2>6
<1>3. S = Nat
  <2> HIDE DEF S
  <2> QED
    BY <1>1, <1>2, SetInduction DEF S
<1>4. v + 1 \in Nat /\ (v + 1) - 1 = v
  BY <1>0
<1>5. v + 1 \in S
  <2> HIDE DEF S
  <2> QED
    BY <1>3, <1>4
<1> QED
  BY <1>0, <1>4, <1>5

LEMMA LakeTypeNext ==
    TypeOK' => \A v \in -1..Latest' : LakeAt'[v] \in [Keys -> Values \cup {Absent}]
<1>1. TypeOK => \A v \in -1..Latest : LakeAt[v] \in [Keys -> Values \cup {Absent}]
  BY LakeType
<1>2. TypeOK' => (\A v \in -1..Latest : LakeAt[v] \in [Keys -> Values \cup {Absent}])'
  BY <1>1, PTL
<1> QED
  BY <1>2

\* A commit adds one version behind the others.
LEMMA LakeGrows ==
    ASSUME TypeOK, TypeOK', NEW commit \in Commits, WriteInbox(commit)
    PROVE  Mirrored!Grows
<1>1. Latest \in Int /\ Latest >= -1 /\ Latest' = Latest + 1
  BY DEF TypeOK, WriteInbox, Latest
<1> DEFINE rows == LakeAt'[Latest + 1]
<1>2. rows \in [Keys -> Values \cup {Absent}]
  BY <1>1, LakeTypeNext
<1>3. \A v \in -1..Latest : LakeAt'[v] = LakeAt[v]
  BY Grown
<1>4. Lake' = [n \in 1..(Latest' + 2) |-> LakeAt'[n - 2]]
  BY DEF Lake
<1>5. Lake' = Append(Lake, rows)
  <2>1. /\ Append(Lake, rows) = [n \in 1..(Latest + 3) |->
                                   IF n = Latest + 3 THEN rows ELSE Lake[n]]
    BY <1>1 DEF Lake
  <2>2. \A n \in 1..(Latest + 3) :
           LakeAt'[n - 2] = IF n = Latest + 3 THEN rows ELSE Lake[n]
    BY <1>1, <1>3 DEF Lake
  <2>3. 1..(Latest' + 2) = 1..(Latest + 3)
    BY <1>1
  <2>4. Lake' = [n \in 1..(Latest + 3) |-> LakeAt'[n - 2]]
    BY <1>4, <2>3
  <2> HIDE DEF rows
  <2> QED
    BY <2>1, <2>2, <2>4
<1> QED
  BY <1>2, <1>5 DEF Mirrored!Grows, Mirrored!Tables

\* Postgres has the rows of the newest version that was carried; the request
\* being made goes beyond that one and beyond the recorded one.
InFront ==
    Calm => /\ pg = LakeAt[Shown] /\ Shown <= Latest
            /\ pc \in {"reading", "posting"} => Shown <= current /\ last < current

LEMMA InitFront == Init => InFront
<1> SUFFICES ASSUME Init PROVE InFront
  OBVIOUS
<1>1. Shown = -1
  BY InitInv, ShownMax DEF InboxInv, Init
<1> QED
  BY <1>1, LakeRows DEF Init, InFront, Latest

\* A request that is applied takes Postgres to the version it goes up to.
LEMMA MovesOn ==
    ASSUME InboxInv, InboxInv', InOrder, InFront, Calm,
           pc = "posting", Transaction(request)
    PROVE  /\ pg' = LakeAt[request.upto]
           /\ Shown' = request.upto
           /\ request.upto \in Shown..Latest
<1>1. /\ pg' = LakeAt[request.upto] /\ request.upto \in -1..Latest
      /\ request.upto >= current
  BY RequestApplied
<1>2. /\ Shown \in Int /\ \A v \in carried : v <= Shown
      /\ Shown' \in Int /\ Shown' \in carried' \cup {-1}
      /\ \A v \in carried' : v <= Shown'
  BY ShownMax, ShownMaxNext DEF InboxInv
<1>3. Shown <= current /\ last < current
  BY DEF InFront
<1>4. /\ request.from = last + 1 /\ last \in Int /\ last >= -1
      /\ current \in Int /\ request.upto \in Int /\ Latest \in Int
  BY DEF InboxInv, InHand, TypeOK, Requests, Latest
<1>5. carried' = carried \cup ((last + 1)..request.upto)
  BY <1>4 DEF Transaction
<1>6. carried \subseteq Int
  BY DEF InboxInv, TypeOK, Versions
<1>7. request.upto \in carried'
  BY <1>1, <1>3, <1>4, <1>5
<1>8. \A v \in carried' : v <= request.upto
  BY <1>1, <1>2, <1>3, <1>4, <1>5, <1>6
<1>9. Shown' >= request.upto /\ Shown' <= request.upto
  BY <1>1, <1>2, <1>3, <1>4, <1>7, <1>8
<1> QED
  BY <1>1, <1>2, <1>3, <1>4, <1>9

\* While nothing is carried and the inbox stays, Postgres stays in front.
LEMMA StaysInFront ==
    ASSUME InFront, UNCHANGED <<inbox, pg, carried, abandoned>>,
           pc' \in {"reading", "posting"} =>
               \/ pc \in {"reading", "posting"} /\ UNCHANGED <<current, last>>
               \/ current' = Latest /\ last' < current'
    PROVE  InFront'
<1>1. LakeAt' = LakeAt /\ Latest' = Latest /\ KeysStay' = KeysStay
  BY SameLake
<1>2. Calm' = Calm /\ Shown' = Shown
  BY <1>1 DEF Calm, Shown
<1> QED
  BY <1>1, <1>2 DEF InFront

\* The watcher's steps behind a transaction.
LEMMA GetsInFront ==
    ASSUME InboxInv, InboxInv', InOrder, InFront, pc = "posting",
           Transaction(request), UNCHANGED <<inbox, abandoned>>,
           pc' \notin {"reading", "posting"}
    PROVE  InFront' /\ (Calm => Mirrored!CarryOver)
<1>1. LakeAt' = LakeAt /\ Latest' = Latest /\ KeysStay' = KeysStay
  BY SameLake
<1>2. Calm' = Calm /\ Lake' = Lake
  BY <1>1 DEF Calm, Lake
<1> SUFFICES ASSUME Calm PROVE InFront' /\ Mirrored!CarryOver
  BY <1>2 DEF InFront
<1>3. /\ pg' = LakeAt[request.upto] /\ Shown' = request.upto
      /\ request.upto \in Shown..Latest
  BY MovesOn
<1>4. InFront'
  BY <1>1, <1>3 DEF InFront
<1>5. Shown \in Int /\ Shown >= -1 /\ Latest \in Int /\ Latest >= -1
  BY ShownMax DEF InboxInv, TypeOK, Latest
<1>6. Len(Lake) = Latest + 2 /\ Lake[Shown' + 2] = LakeAt[Shown']
  BY <1>3, <1>5 DEF Lake
<1>7. Shown' + 2 \in (Shown + 2)..Len(Lake) /\ pg' = Lake[Shown' + 2]
  BY <1>3, <1>5, <1>6
<1> QED
  BY <1>2, <1>4, <1>7 DEF Mirrored!CarryOver

\* A commit of the lakehouse is a commit of the mirrored table, or calls the
\* promise off.
LEMMA WriteMirrored ==
    ASSUME InboxInv, InboxInv', InFront, NEW commit \in Commits, WriteInbox(commit)
    PROVE  InFront' /\ Mirrored!Next
<1>1. Mirrored!Grows
  BY LakeGrows DEF InboxInv
<1>2. CASE ~ Calm'
  <2>1. pg' \in [Keys -> Values \cup {Absent}]
    BY DEF InboxInv, TypeOK
  <2>2. Mirrored!CallOff
    BY <1>1, <1>2, <2>1 DEF Mirrored!CallOff, Mirrored!Tables
  <2> QED
    BY <1>2, <2>2 DEF InFront, Mirrored!Next
<1>3. CASE Calm'
  <2>1. /\ Latest \in Int /\ Latest >= -1 /\ Latest' = Latest + 1
        /\ \A v \in 0..Latest : inbox'[v + 1] = inbox[v + 1]
    BY DEF InboxInv, TypeOK, WriteInbox, Latest
  <2>2. Calm
    <3>1. KeysStay' /\ abandoned = 0
      BY <1>3 DEF Calm, WriteInbox, budget
    <3>2. \A v \in 0..Latest' : inbox'[v + 1].left = Absent
      BY <3>1 DEF KeysStay
    <3>3. \A v \in 0..Latest : inbox[v + 1].left = Absent
      BY <2>1, <3>2
    <3> QED
      BY <3>1, <3>3 DEF Calm, KeysStay
  <2>3. UNCHANGED <<pg, carried, pc, current, last, Shown>>
    BY DEF WriteInbox, watcher, Shown
  <2>4. Calm' = Calm
    BY <1>3, <2>2 DEF Calm
  <2>5. Mirrored!Commit
    BY <1>1, <2>3, <2>4 DEF Mirrored!Commit
  <2>6. Shown \in -1..Latest
    BY <2>1, <2>2, ShownMax DEF InFront, InboxInv
  <2>7. LakeAt'[Shown] = LakeAt[Shown]
    BY <2>6, Grown DEF InboxInv
  <2>8. InFront'
    BY <2>1, <2>2, <2>3, <2>6, <2>7 DEF InFront
  <2> QED
    BY <2>5, <2>8 DEF Mirrored!Next
<1> QED
  BY <1>2, <1>3

\* Nothing is promised of Postgres any more.
LEMMA CalledOff ==
    ASSUME InboxInv', UNCHANGED inbox, ~ Calm'
    PROVE  InFront' /\ Mirrored!Next
<1>1. Lake' = Lake
  BY SameLake DEF Lake
<1>2. pg' \in [Keys -> Values \cup {Absent}]
  BY DEF InboxInv, TypeOK
<1> QED
  BY <1>1, <1>2 DEF InFront, Mirrored!CallOff, Mirrored!Tables, Mirrored!Next

\* The mirror sees nothing of a step that carries nothing.
LEMMA Unseen ==
    ASSUME UNCHANGED <<inbox, pg, carried, abandoned>>
    PROVE  UNCHANGED Mirrored!vars
<1>1. Lake' = Lake /\ Shown' = Shown
  BY SameLake DEF Lake, Shown
<1>2. Calm' = Calm
  BY SameLake DEF Calm
<1> QED
  BY <1>1, <1>2 DEF Mirrored!vars

LEMMA StepMirrored ==
    InboxInv /\ InboxInv' /\ InOrder /\ InFront /\ [Next]_vars
      => InFront' /\ [Mirrored!Next]_Mirrored!vars
<1> SUFFICES ASSUME InboxInv, InboxInv', InOrder, InFront, [Next]_vars
             PROVE  InFront' /\ [Mirrored!Next]_Mirrored!vars
  OBVIOUS
<1>1. CASE LookUp
  <2>1. /\ UNCHANGED <<inbox, pg, carried, abandoned>>
        /\ current' = Latest /\ last' = last /\ last < Latest
    BY <1>1 DEF LookUp, budget, InboxInv, TypeOK, Latest
  <2> QED
    BY <2>1, StaysInFront, Unseen
<1>2. CASE ReadFeed
  <2>1. /\ UNCHANGED <<inbox, pg, carried, abandoned, current, last>>
        /\ pc = "reading"
    BY <1>2 DEF ReadFeed, budget
  <2> QED
    BY <2>1, StaysInFront, Unseen
<1>3. ASSUME pc = "posting", Transaction(request), UNCHANGED <<inbox, abandoned>>,
             pc' \notin {"reading", "posting"}
      PROVE  InFront' /\ Mirrored!Next
  <2>1. Calm' = Calm
    BY <1>3, SameLake DEF Calm
  <2>2. CASE Calm
    BY <1>3, <2>2, GetsInFront DEF Mirrored!Next
  <2>3. CASE ~ Calm
    BY <1>3, <2>1, <2>3, CalledOff
  <2> QED
    BY <2>2, <2>3
<1>4. CASE PostOk
  <2>1. /\ pc = "posting" /\ Transaction(request) /\ UNCHANGED <<inbox, abandoned>>
        /\ pc' \notin {"reading", "posting"}
    BY <1>4 DEF PostOk, budget
  <2> QED
    BY <1>3, <2>1
<1>5. ASSUME UNCHANGED <<inbox, pg, carried, abandoned>>, Leave
      PROVE  InFront' /\ UNCHANGED Mirrored!vars
  BY <1>5, StaysInFront, Unseen DEF Leave
<1>6. CASE PostRefused \/ Interrupted
  BY <1>5, <1>6 DEF PostRefused, Interrupted, budget
<1>7. CASE PostFails
  <2>1. CASE UNCHANGED <<pg, carried>>
    BY <1>5, <1>7, <2>1 DEF PostFails
  <2>2. CASE Transaction(request)
    <3>1. /\ pc = "posting" /\ UNCHANGED <<inbox, abandoned>>
          /\ pc' \notin {"reading", "posting"}
      BY <1>7 DEF PostFails, Leave
    <3> QED
      BY <1>3, <2>2, <3>1
  <2> QED
    BY <1>7, <2>1, <2>2 DEF PostFails
<1>8. CASE SetVersion
  <2>1. UNCHANGED <<inbox, pg, carried, abandoned>> /\ pc' = "sleeping"
    BY <1>8 DEF SetVersion, Leave, budget
  <2> QED
    BY <2>1, StaysInFront, Unseen
<1>9. CASE Abandon
  <2>1. UNCHANGED inbox /\ abandoned' # 0
    BY <1>9 DEF Abandon, InboxInv, TypeOK
  <2>2. ~ Calm'
    BY <2>1 DEF Calm
  <2> QED
    BY <2>1, <2>2, CalledOff
<1>10. CASE \E r \in orphans : OrphanEnds(r)
  <2>1. UNCHANGED <<inbox, abandoned>> /\ orphans # {}
    BY <1>10 DEF OrphanEnds, budget
  <2>2. Calm' = Calm /\ ~ Calm
    BY <2>1, SameLake DEF Calm, InOrder
  <2> QED
    BY <2>1, <2>2, CalledOff
<1>11. CASE \E commit \in Commits : WriteInbox(commit)
  BY <1>11, WriteMirrored
<1>12. CASE UNCHANGED vars
  <2>1. UNCHANGED <<inbox, pg, carried, abandoned, pc, current, last>>
    BY <1>12 DEF vars, watcher, budget
  <2> QED
    BY <2>1, StaysInFront, Unseen
<1> QED
  BY <1>1, <1>2, <1>4, <1>6, <1>7, <1>8, <1>9, <1>10, <1>11, <1>12
  DEF Next, Watch, Trouble

LEMMA MirrorInit == Init => Mirrored!Init
<1> SUFFICES ASSUME Init PROVE Mirrored!Init
  OBVIOUS
<1>1. Latest = -1 /\ Latest + 2 = 1
  BY DEF Init, Latest
<1>2. Lake = [n \in 1..1 |-> LakeAt[n - 2]]
  BY <1>1 DEF Lake
<1>3. Lake = << EmptyTable >>
  BY <1>2, LakeRows
<1>4. Shown = -1
  BY InitInv, ShownMax DEF InboxInv, Init
<1>5. Calm = TRUE
  BY <1>1 DEF Calm, KeysStay, Init
<1> QED
  BY <1>3, <1>4, <1>5 DEF Mirrored!Init, Init, EmptyTable

-----------------------------------------------------------------------------
(* The theorems.                                                           *)

LEMMA AlwaysInv == Spec => []InboxInv
  BY InitInv, StepInv, PTL DEF Spec

\* The types of the variables, for any keys, rows and bounds.
THEOREM TypeCorrect == Spec => []TypeOK
<1>1. InboxInv => TypeOK
  BY DEF InboxInv
<1> QED
  BY <1>1, AlwaysInv, PTL

\* No version is recorded before its changes are in Postgres (watcher.py,
\* process_inbox), whatever calls fail and whenever the watcher is restarted.
THEOREM NothingSkippedHolds == Spec => []NothingSkipped
<1>1. InboxInv => NothingSkipped
  BY DEF InboxInv
<1> QED
  BY <1>1, AlwaysInv, PTL

\* What is in Postgres is the inbox as of one version, not older than the
\* recorded one (watcher.py, process_inbox and collapse; reverse_apply): an old
\* change never lands on top of a newer one, however often the watcher fails
\* or reads a part of the feed again, as long as no request is abandoned and
\* no update changes a key.
THEOREM AlwaysAPrefixHolds == Spec => []AlwaysAPrefix
<1>1. Spec => [](InboxInv /\ InOrder)
  BY InitInv, StepInv, InitOrder, StepOrder, PTL DEF Spec
<1>2. InboxInv /\ InOrder => AlwaysAPrefix
  BY DEF InOrder, Settled, AlwaysAPrefix, OrderKept
<1> QED
  BY <1>1, <1>2, PTL

\* Watcher and reverse-apply together (watcher.py, process_inbox; reverse_apply)
\* implement Mirror: each of their steps carries Postgres on to the rows of a
\* version that is not older, is a commit of the lakehouse, is not to be seen,
\* or comes after the promise was called off.
THEOREM WatcherImplementsMirror == Spec => MirrorSpec
<1>1. Spec => []InboxInv /\ []InOrder
  BY InitInv, StepInv, InitOrder, StepOrder, PTL DEF Spec
<1>2. InboxInv /\ InboxInv' /\ InOrder /\ InFront /\ [Next]_vars
        => InFront' /\ [Mirrored!Next]_Mirrored!vars
  BY StepMirrored
<1>3. Init => InFront /\ Mirrored!Init
  BY InitFront, MirrorInit
<1> QED
  BY <1>1, <1>2, <1>3, PTL DEF Spec, MirrorSpec, Mirrored!Spec
=============================================================================
