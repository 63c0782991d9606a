------------------------------ MODULE ProxyProofs ------------------------------
(***************************************************************************)
(* Proofs about Proxy: however sessions, idle timers and requests          *)
(* interleave, a suspend is undone by one cold start, and no idle timer    *)
(* is out of reach of the next session.                                    *)
(***************************************************************************)
EXTENDS Proxy, FiniteSetTheorems, TLAPS

-----------------------------------------------------------------------------
(* The inductive invariant.                                                *)

Places == {"idle", "lock", "inspect", "awake", "cold", "start", "wait",
           "woken", "dial", "replay", "spliced", "armed", "check", "stop",
           "mark", "look", "ask", "adopt", "done"}

Types ==
    /\ real \in BOOLEAN /\ running \in BOOLEAN /\ ready \in BOOLEAN
    /\ state \in {"active", "waking", "suspended"}
    /\ idleTimer \in Timers \cup {None}
    /\ wakeMu \in Conns \cup {None}
    /\ wakeCount \in Nat
    /\ pc \in [Procs -> Places]
    /\ cut \in SUBSET Conns
    /\ seen \in [Requests -> [conns : 0..Cardinality(Conns), running : BOOLEAN]]
    /\ suspends \in Nat
    /\ errors \in 0..MaxErrors

\* Who is between wakeMu.Lock() and Unlock() holds the lock.
Holding == {"inspect", "awake", "cold", "start", "wait", "woken"}

Locked == \A c \in Conns : pc[c] \in Holding <=> wakeMu = c

\* activeConns counts the open sessions.
Spliced == {c \in Conns : pc[c] = "spliced"}

Counted == activeConns = Cardinality(Spliced)

\* A cold start is under way; a stopped compute is about to be started.
Underway == \E c \in Conns : pc[c] \in {"cold", "start", "wait", "woken"}

Starting == \E c \in Conns : pc[c] \in {"cold", "start"}

\* The next connection will find a cold start to make.
Down == IF real THEN ~running /\ ~Starting ELSE state # "active" /\ ~Underway

\* In simulated mode, the suspends that are still to set the state.
Marking == {s \in Suspenders : pc[s] = "mark"}

ToMark == IF real THEN 0 ELSE Cardinality(Marking)

\* The cold starts that were made, are being made or will have to be made are
\* paid for by suspends and failures.
Debt ==
    /\ IsFiniteSet(Marking)
    /\ wakeCount + (IF Underway THEN 1 ELSE 0) + (IF Down THEN 1 ELSE 0) + ToMark
          <= suspends + errors

\* In simulated mode nobody asks Docker for the state.
NoDocker == real \/ \A r \in Requests : pc[r] \notin {"ask", "adopt"}

ProxyInv == Types /\ Locked /\ Counted /\ TimersInReach /\ NoDocker /\ Debt

USE ProxyAssumption

-----------------------------------------------------------------------------
(* The counters.                                                           *)

LEMMA SplicedFinite ==
    IsFiniteSet(Spliced) /\ Cardinality(Spliced) \in 0..Cardinality(Conns)
<1>1. Spliced \in SUBSET Conns
  BY DEF Spliced
<1>2. IsFiniteSet(Spliced) /\ Cardinality(Spliced) <= Cardinality(Conns)
  BY <1>1, FS_Subset
<1>3. Cardinality(Spliced) \in Nat /\ Cardinality(Conns) \in Nat
  BY <1>2, FS_CardinalityType
<1> QED
  BY <1>2, <1>3

LEMMA ActiveBounded ==
    ASSUME Counted
    PROVE  activeConns \in 0..Cardinality(Conns)
BY SplicedFinite DEF Counted

\* The types and the count of the sessions are the type invariant.
LEMMA TypesEnough == Types /\ Counted => TypeOK
BY ActiveBounded DEF Types, TypeOK, Places

LEMMA ToMarkNat ==
    ASSUME IsFiniteSet(Marking)
    PROVE  ToMark \in Nat
BY FS_CardinalityType DEF ToMark

\* One suspend more is to set the state.
LEMMA MarkAdded ==
    ASSUME NEW s \in Suspenders, IsFiniteSet(Marking), pc[s] # "mark", real' = real,
           Marking' = Marking \cup {s}
    PROVE  IsFiniteSet(Marking') /\ ToMark' = (IF real THEN 0 ELSE ToMark + 1)
<1>1. s \notin Marking
  BY DEF Marking
<1> QED
  BY <1>1, FS_AddElement DEF ToMark

LEMMA MarkRemoved ==
    ASSUME NEW s \in Suspenders, IsFiniteSet(Marking), pc[s] = "mark", real' = real,
           Marking' = Marking \ {s}
    PROVE  IsFiniteSet(Marking') /\ ToMark' = (IF real THEN 0 ELSE ToMark - 1)
<1>1. s \in Marking
  BY DEF Marking
<1> QED
  BY <1>1, FS_RemoveElement DEF ToMark

\* A session is opened, or closed.
LEMMA OneMore ==
    ASSUME NEW c \in Conns, Counted, pc[c] # "spliced",
           Spliced' = Spliced \cup {c}, activeConns' = activeConns + 1
    PROVE  Counted'
<1>1. c \notin Spliced
  BY DEF Spliced
<1> QED
  BY <1>1, SplicedFinite, FS_AddElement DEF Counted

LEMMA OneLess ==
    ASSUME NEW c \in Conns, Counted, pc[c] = "spliced",
           Spliced' = Spliced \ {c}, activeConns' = activeConns - 1
    PROVE  Counted' /\ activeConns > 0 /\ activeConns \in Nat
<1>1. c \in Spliced
  BY DEF Spliced
<1>2. Cardinality(Spliced) # 0
  BY <1>1, SplicedFinite, FS_EmptySet
<1>3. Cardinality(Spliced) \in Nat
  BY SplicedFinite
<1>4. Counted'
  BY <1>1, SplicedFinite, FS_RemoveElement DEF Counted
<1> QED
  BY <1>2, <1>3, <1>4 DEF Counted

-----------------------------------------------------------------------------
(* Every step keeps the types.                                             *)

LEMMA TypesInit == Init => Types
<1> SUFFICES ASSUME Init PROVE Types
  OBVIOUS
<1>1. Cardinality(Conns) \in Nat
  BY FS_CardinalityType
<1>2. Unread \in [conns : 0..Cardinality(Conns), running : BOOLEAN]
  BY <1>1 DEF Unread
<1> QED
  BY <1>2 DEF Init, Types, Places

\* A goroutine that moves on is at one of the places.
LEMMA GotoTypes ==
    ASSUME NEW x \in Procs, NEW from, NEW to \in Places, Types, Goto(x, from, to)
    PROVE  pc' \in [Procs -> Places]
BY DEF Goto, Types

LEMMA ConnTypes ==
    ASSUME Types, Counted, NEW c \in Conns,
           Arrive(c) \/ ConnStep(c) \/ ConnClosed(c)
    PROVE  Types'
<1> USE DEF compute, manager, tally
<1>0. c \in Procs /\ Conns \subseteq Procs /\ Timers \subseteq Procs /\ errors \in Nat
  BY DEF Procs, Suspenders, Types
<1>1. CASE Arrive(c)
  BY <1>0, <1>1, GotoTypes DEF Arrive, Types, Places, Goto
<1>2. CASE Lock(c)
  BY <1>0, <1>2 DEF Lock, Types, Places, Goto
<1>3. CASE Inspect(c)
  BY <1>0, <1>3 DEF Inspect, Types, Places, Goto, Error
<1>4. CASE Found(c)
  BY <1>0, <1>4 DEF Found, Types, Places, Goto
<1>5. CASE Waking(c)
  BY <1>0, <1>5 DEF Waking, Types, Places, Goto
<1>6. CASE Start(c)
  <2>1. pc' \in [Procs -> Places]
    BY <1>0, <1>6, GotoTypes DEF Start, Places
  <2>2. running' \in BOOLEAN
    BY <1>6, Zenon DEF Start, Types
  <2>3. errors' \in 0..MaxErrors
    BY <1>0, <1>6 DEF Start, Types, Error
  <2> QED
    BY <1>6, <2>1, <2>2, <2>3 DEF Start, Types
<1>7. CASE WaitReady(c)
  BY <1>0, <1>7 DEF WaitReady, Types, Places, Goto, Error
<1>8. CASE Woken(c)
  BY <1>0, <1>8 DEF Woken, Types, Places, Goto
<1>9. CASE Dial(c)
  BY <1>0, <1>9 DEF Dial, Types, Places, Goto
<1>10. CASE ConnOpened(c)
  <2>1. pc' \in [Procs -> Places]
    BY <1>0, <1>10 DEF ConnOpened, StopTimer, Types, Places
  <2> QED
    BY <1>10, <2>1 DEF ConnOpened, Types
<1>11. CASE ReplayFails(c)
  BY <1>0, <1>11 DEF ReplayFails, Types, Places, Goto
<1>12. CASE ConnClosed(c)
  <2>1. pc' \in [Procs -> Places] /\ idleTimer' \in Timers \cup {None}
    BY <1>0, <1>12 DEF ConnClosed, Types, Places
  <2> QED
    BY <1>12, <2>1 DEF ConnClosed, Types
<1> QED
  BY <1>1, <1>2, <1>3, <1>4, <1>5, <1>6, <1>7, <1>8, <1>9, <1>10, <1>11, <1>12
     DEF ConnStep

LEMMA SuspenderTypes ==
    ASSUME Types, Counted, NEW s \in Suspenders,
           \/ s \in Timers /\ TimerStep(s)
           \/ s \in Requests /\ (AskSuspend(s) \/ AskState(s) \/ RequestStep(s))
    PROVE  Types'
<1> USE DEF compute, manager, tally
<1>0. s \in Procs /\ errors \in Nat /\ activeConns \in 0..Cardinality(Conns)
  BY ActiveBounded DEF Procs, Types
<1>1. CASE Fire(s)
  BY <1>0, <1>1 DEF Fire, Types, Places, Goto
<1>2. CASE CheckIdle(s)
  BY <1>0, <1>2 DEF CheckIdle, Types, Places, Goto
<1>3. CASE AskSuspend(s)
  BY <1>0, <1>3 DEF AskSuspend, Types, Places, Goto
<1>4. CASE StopCompute(s)
  <2>1. pc' \in [Procs -> Places]
    BY <1>0, <1>4, GotoTypes DEF StopCompute, Places
  <2>2. running' \in BOOLEAN /\ ready' \in BOOLEAN
    BY <1>4, Zenon DEF StopCompute, Types
  <2>3. cut' \in SUBSET Conns
    BY <1>4 DEF StopCompute, Types
  <2>4. suspends' \in Nat /\ errors' \in 0..MaxErrors
    BY <1>0, <1>4 DEF StopCompute, Types, Error
  <2> QED
    BY <1>4, <2>1, <2>2, <2>3, <2>4 DEF StopCompute, Types
<1>5. CASE MarkSuspended(s)
  BY <1>0, <1>5 DEF MarkSuspended, Types, Places, Goto
<1>6. CASE AskState(s)
  BY <1>0, <1>6 DEF AskState, Types, Places, Goto
<1>7. CASE s \in Requests /\ Look(s)
  BY <1>0, <1>7 DEF Look, Types, Places, Goto
<1>8. CASE s \in Requests /\ AskDocker(s)
  BY <1>0, <1>8 DEF AskDocker, Types, Places, Goto, Error
<1>9. CASE s \in Requests /\ Adopt(s)
  BY <1>0, <1>9 DEF Adopt, Types, Places, Goto
<1> QED
  BY <1>1, <1>2, <1>3, <1>4, <1>5, <1>6, <1>7, <1>8, <1>9
     DEF TimerStep, RequestStep

-----------------------------------------------------------------------------
(* The lock, the sessions and the timers.                                  *)

\* Timers and requests touch neither the lock nor the sessions, and arm no
\* timer.
LEMMA SuspenderSpares ==
    ASSUME Types, NEW s \in Suspenders,
           \/ s \in Timers /\ TimerStep(s)
           \/ s \in Requests /\ (AskSuspend(s) \/ AskState(s) \/ RequestStep(s))
    PROVE  /\ \A c \in Conns : pc'[c] = pc[c]
           /\ \A t \in Timers : pc'[t] = "armed" => pc[t] = "armed"
           /\ real' = real /\ activeConns' = activeConns /\ idleTimer' = idleTimer
           /\ wakeMu' = wakeMu /\ wakeCount' = wakeCount
<1>1. /\ real' = real /\ activeConns' = activeConns /\ idleTimer' = idleTimer
      /\ wakeMu' = wakeMu /\ wakeCount' = wakeCount
  BY DEF TimerStep, RequestStep, AskSuspend, AskState, Fire, CheckIdle, StopCompute,
         MarkSuspended, Look, AskDocker, Adopt, manager
<1>2. \E from, to \in Places : to # "armed" /\ Goto(s, from, to)
  BY DEF TimerStep, RequestStep, AskSuspend, AskState, Fire, CheckIdle, StopCompute,
         MarkSuspended, Look, AskDocker, Adopt, Places
<1>3. /\ \A c \in Conns : c # s
      /\ \A x \in Procs : x # s => pc'[x] = pc[x]
      /\ pc'[s] # "armed"
  BY <1>2 DEF Types, Goto, Procs
<1> QED
  BY <1>1, <1>3 DEF Procs, Suspenders

LEMMA SpareKeeps ==
    ASSUME Locked, Counted, TimersInReach,
           \A c \in Conns : pc'[c] = pc[c],
           \A t \in Timers : pc'[t] = "armed" => pc[t] = "armed",
           activeConns' = activeConns, idleTimer' = idleTimer, wakeMu' = wakeMu
    PROVE  Locked' /\ Counted' /\ TimersInReach'
<1>1. Spliced' = Spliced
  BY DEF Spliced
<1>2. Counted'
  BY <1>1 DEF Counted
<1> QED
  BY <1>2 DEF Locked, TimersInReach

\* The lock is free when somebody takes it, and only its holder lets it go.
LEMMA ConnLocked ==
    ASSUME Types, Locked, NEW c \in Conns,
           Arrive(c) \/ ConnStep(c) \/ ConnClosed(c)
    PROVE  Locked'
<1> USE DEF Locked, Holding, Goto, Types, manager
<1>0. c \in Procs /\ Conns \subseteq Procs /\ (\A t \in Timers : t \in Procs /\ t \notin Conns)
  BY DEF Procs, Suspenders
<1>1. CASE Arrive(c)
  BY <1>0, <1>1 DEF Arrive
<1>2. CASE Lock(c)
  BY <1>0, <1>2 DEF Lock
<1>3. CASE Inspect(c)
  BY <1>0, <1>3 DEF Inspect
<1>4. CASE Found(c)
  BY <1>0, <1>4 DEF Found
<1>5. CASE Waking(c)
  BY <1>0, <1>5 DEF Waking
<1>6. CASE Start(c)
  BY <1>0, <1>6 DEF Start
<1>7. CASE WaitReady(c)
  BY <1>0, <1>7 DEF WaitReady
<1>8. CASE Woken(c)
  BY <1>0, <1>8 DEF Woken
<1>9. CASE Dial(c)
  BY <1>0, <1>9 DEF Dial
<1>10. CASE ConnOpened(c)
  BY <1>0, <1>10 DEF ConnOpened, StopTimer
<1>11. CASE ReplayFails(c)
  BY <1>0, <1>11 DEF ReplayFails
<1>12. CASE ConnClosed(c)
  BY <1>0, <1>12 DEF ConnClosed
<1> QED
  BY <1>1, <1>2, <1>3, <1>4, <1>5, <1>6, <1>7, <1>8, <1>9, <1>10, <1>11, <1>12
     DEF ConnStep

\* What a connection does outside of connOpened() and connClosed().
LEMMA ConnMovesOn ==
    ASSUME Types, NEW c \in Conns, Arrive(c) \/ ConnStep(c),
           ~ConnOpened(c), ~ConnClosed(c)
    PROVE  /\ activeConns' = activeConns /\ idleTimer' = idleTimer
           /\ Spliced' = Spliced
           /\ \A t \in Timers : pc'[t] = pc[t]
<1>1. activeConns' = activeConns /\ idleTimer' = idleTimer
  BY DEF ConnStep, Arrive, Lock, Inspect, Found, Waking, Start, WaitReady, Woken,
         Dial, ReplayFails, manager
<1>2. \E from, to \in Places : from # "spliced" /\ to # "spliced" /\ Goto(c, from, to)
  BY DEF ConnStep, Arrive, Lock, Inspect, Found, Waking, Start, WaitReady, Woken,
         Dial, ReplayFails, Places
<1>3. /\ \A x \in Procs : x # c => pc'[x] = pc[x]
      /\ pc[c] # "spliced" /\ pc'[c] # "spliced" /\ c \in Procs
  BY <1>2 DEF Types, Goto, Procs
<1>4. Spliced' = Spliced
  BY <1>3 DEF Spliced, Procs
<1> QED
  BY <1>1, <1>3, <1>4 DEF Procs, Suspenders

\* A session that opens takes the timer that is armed with it, and the last
\* one that closes arms the one that m.idleTimer leads to.
LEMMA ConnCounted ==
    ASSUME Types, Counted, TimersInReach, NEW c \in Conns,
           Arrive(c) \/ ConnStep(c) \/ ConnClosed(c)
    PROVE  Counted' /\ TimersInReach'
<1>0. c \in Procs /\ Conns \subseteq Procs /\ (\A t \in Timers : t \in Procs /\ t \notin Conns)
  BY DEF Procs, Suspenders
<1>1. CASE ConnOpened(c)
  <2>1. /\ pc[c] = "replay" /\ pc'[c] = "spliced"
        /\ \A d \in Conns : d # c => (pc'[d] = "spliced" <=> pc[d] = "spliced")
    BY <1>0, <1>1 DEF ConnOpened, StopTimer, Types
  <2>2. Spliced' = Spliced \cup {c}
    BY <2>1 DEF Spliced
  <2>3. Counted'
    BY <1>1, <2>1, <2>2, OneMore DEF ConnOpened
  <2>4. \A t \in Timers : pc'[t] # "armed"
    BY <1>0, <1>1 DEF ConnOpened, StopTimer, Types, TimersInReach
  <2> QED
    BY <2>3, <2>4 DEF TimersInReach
<1>2. CASE ConnClosed(c)
  <2>1. /\ pc[c] = "spliced" /\ pc'[c] = "done"
        /\ \A d \in Conns : d # c => pc'[d] = pc[d]
    BY <1>0, <1>2 DEF ConnClosed, Types
  <2>2. Spliced' = Spliced \ {c}
    BY <2>1 DEF Spliced
  <2>3. Counted' /\ activeConns > 0 /\ activeConns \in Nat
    BY <1>2, <2>1, <2>2, OneLess DEF ConnClosed
  <2>4. \A t \in Timers : pc[t] # "armed"
    BY <2>3 DEF TimersInReach
  <2>5. ASSUME NEW t \in Timers, pc'[t] = "armed"
        PROVE  idleTimer' = t /\ activeConns' = 0
    BY <1>0, <1>2, <2>3, <2>4, <2>5 DEF ConnClosed, Types
  <2> QED
    BY <2>3, <2>5 DEF TimersInReach
<1>3. CASE ~ConnOpened(c) /\ ~ConnClosed(c)
  BY <1>3, ConnMovesOn DEF Counted, TimersInReach
<1> QED
  BY <1>1, <1>2, <1>3

-----------------------------------------------------------------------------
(* The cold starts.                                                        *)

\* What Debt adds up is numbers.
LEMMA DebtNumbers ==
    ASSUME Types, Debt
    PROVE  wakeCount \in Nat /\ suspends \in Nat /\ errors \in Nat /\ ToMark \in Nat
BY ToMarkNat DEF Types, Debt

\* A suspend pays for what it adds to the debt.
LEMMA SuspendPays ==
    ASSUME NEW w \in Nat, NEW u \in 0..1, NEW d \in 0..1, NEW x \in 0..1,
           NEW m \in Nat, NEW s \in Nat, NEW e \in Nat, NEW f \in Nat, e <= f
    PROVE  /\ w + u + d <= s + e => w + u + x <= s + 1 + f
           /\ w + u + d + m <= s + e => w + u + d + (m + 1) <= s + 1 + f
OBVIOUS

\* The suspends that are still to set the state are none of a connection's.
LEMMA ConnMarksNothing ==
    ASSUME Types, NoDocker, NEW c \in Conns, Arrive(c) \/ ConnStep(c) \/ ConnClosed(c)
    PROVE  Marking' = Marking /\ real' = real /\ suspends' = suspends /\ NoDocker'
<1>0. c \in Procs /\ c \notin Suspenders /\ Suspenders \subseteq Procs
      /\ Conns \subseteq Procs /\ Timers \subseteq Suspenders
  BY DEF Procs, Suspenders
<1>1. real' = real /\ suspends' = suspends
  BY DEF ConnStep, Arrive, Lock, Inspect, Found, Waking, Start, WaitReady, Woken,
         Dial, ConnOpened, ReplayFails, ConnClosed, tally
<1>2. CASE ConnOpened(c)
  BY <1>0, <1>1, <1>2 DEF ConnOpened, StopTimer, Marking, Types, NoDocker, Suspenders
<1>3. CASE ConnClosed(c)
  <2>1. Marking' = Marking
    BY <1>0, <1>3 DEF ConnClosed, Marking, Types
  <2>2. NoDocker'
    BY <1>0, <1>1, <1>3 DEF ConnClosed, Types, NoDocker, Suspenders
  <2> QED
    BY <1>1, <2>1, <2>2
<1>4. CASE ~ConnOpened(c) /\ ~ConnClosed(c)
  <2>1. \E from, to \in Places : Goto(c, from, to)
    BY <1>4 DEF ConnStep, Arrive, Lock, Inspect, Found, Waking, Start, WaitReady,
                Woken, Dial, ReplayFails, Places
  <2>2. \A x \in Procs : x # c => pc'[x] = pc[x]
    BY <2>1 DEF Goto, Types
  <2> QED
    BY <1>0, <1>1, <2>2 DEF Marking, NoDocker, Suspenders
<1> QED
  BY <1>1, <1>2, <1>3, <1>4

\* While a connection has the lock, no other has a cold start to make.
LEMMA HolderAlone ==
    ASSUME Types, Locked, NEW c \in Conns, pc[c] \in Holding
    PROVE  /\ \A d \in Conns : pc[d] \in Holding => d = c
           /\ Underway <=> pc[c] \in {"cold", "start", "wait", "woken"}
           /\ Starting <=> pc[c] \in {"cold", "start"}
<1>1. \A d \in Conns : pc[d] \in Holding => d = c
  BY DEF Locked, Types
<1> QED
  BY <1>1 DEF Underway, Starting, Holding

\* ... before its step, and after it.
LEMMA HolderSteps ==
    ASSUME Types, Locked, NEW c \in Conns, pc[c] \in Holding,
           NEW from, NEW to, Goto(c, from, to)
    PROVE  /\ Underway <=> from \in {"cold", "start", "wait", "woken"}
           /\ Starting <=> from \in {"cold", "start"}
           /\ Underway' <=> to \in {"cold", "start", "wait", "woken"}
           /\ Starting' <=> to \in {"cold", "start"}
<1>1. pc[c] = from /\ pc'[c] = to /\ \A d \in Conns : d # c => pc'[d] = pc[d]
  BY DEF Goto, Types, Procs
<1> QED
  BY <1>1, HolderAlone DEF Underway, Starting, Holding

\* The steps of a connection without the lock.
LEMMA ElsewhereNoStart ==
    ASSUME Types, NEW c \in Conns,
           \/ Arrive(c) \/ Lock(c) \/ Dial(c) \/ ConnOpened(c) \/ ReplayFails(c)
           \/ ConnClosed(c)
    PROVE  /\ Underway' = Underway /\ Starting' = Starting
           /\ running' = running /\ state' = state
           /\ wakeCount' = wakeCount /\ errors' = errors
<1>0. c \in Procs /\ Conns \subseteq Procs /\ (\A t \in Timers : t \in Procs /\ t \notin Conns)
  BY DEF Procs, Suspenders
<1>1. /\ running' = running /\ state' = state
      /\ wakeCount' = wakeCount /\ errors' = errors
  BY DEF Arrive, Lock, Dial, ConnOpened, ReplayFails, ConnClosed, compute, manager, tally
<1>2. ASSUME ConnOpened(c)
      PROVE  /\ \A d \in Conns : d # c => pc'[d] = pc[d]
             /\ pc[c] = "replay" /\ pc'[c] = "spliced"
  <2>1. \A d \in Conns : d # idleTimer
    BY <1>0 DEF Types
  <2> QED
    BY <1>0, <1>2, <2>1 DEF ConnOpened, StopTimer, Types
<1>3. ASSUME Arrive(c) \/ Lock(c) \/ Dial(c) \/ ReplayFails(c) \/ ConnClosed(c)
      PROVE  /\ \A d \in Conns : d # c => pc'[d] = pc[d]
             /\ pc[c] \in {"idle", "lock", "dial", "replay", "spliced"}
             /\ pc'[c] \in {"lock", "inspect", "replay", "done"}
  BY <1>0, <1>3 DEF Arrive, Lock, Dial, ReplayFails, ConnClosed, Goto, Types
<1>4. \A d \in Conns :
         /\ pc'[d] \in {"cold", "start", "wait", "woken"}
               <=> pc[d] \in {"cold", "start", "wait", "woken"}
         /\ pc'[d] \in {"cold", "start"} <=> pc[d] \in {"cold", "start"}
  BY <1>2, <1>3
<1>5. Underway' = Underway /\ Starting' = Starting
  BY <1>4, Zenon DEF Underway, Starting
<1> QED
  BY <1>1, <1>5

\* A cold start is begun on account of a stopped compute, or of a failure to
\* look, and is counted when it is over.
LEMMA ConnDebt ==
    ASSUME Types, Locked, NoDocker, Debt, NEW c \in Conns,
           Arrive(c) \/ ConnStep(c) \/ ConnClosed(c)
    PROVE  Debt'
<1>0. /\ wakeCount \in Nat /\ suspends \in Nat /\ errors \in Nat /\ ToMark \in Nat
      /\ Marking' = Marking /\ real' = real /\ suspends' = suspends
  BY DebtNumbers, ConnMarksNothing
<1>1. IsFiniteSet(Marking') /\ ToMark' = ToMark
  BY <1>0 DEF ToMark, Debt
<1>2. CASE \/ Arrive(c) \/ Lock(c) \/ Dial(c) \/ ConnOpened(c) \/ ReplayFails(c)
           \/ ConnClosed(c)
  <2>1. Down' = Down
    BY <1>0, <1>2, ElsewhereNoStart DEF Down
  <2>2. Underway' = Underway /\ wakeCount' = wakeCount /\ errors' = errors
    BY <1>2, ElsewhereNoStart
  <2> QED
    BY <1>0, <1>1, <2>1, <2>2 DEF Debt
<1>3. CASE Inspect(c)
  <2>1. /\ wakeCount' = wakeCount /\ running' = running /\ state' = state
        /\ pc[c] = "inspect"
    BY <1>3 DEF Inspect, Goto, compute, manager
  <2>2. CASE Goto(c, "inspect", "awake") /\ errors' = errors
    <3>1. ~Underway /\ ~Starting /\ ~Underway' /\ ~Starting'
      BY <2>1, <2>2, HolderSteps DEF Holding
    <3>2. Down' = Down
      BY <1>0, <2>1, <3>1 DEF Down
    <3> QED
      BY <1>0, <1>1, <2>1, <2>2, <3>1, <3>2 DEF Debt
  <2>3. CASE Goto(c, "inspect", "cold")
    <3>1. ~Underway /\ ~Starting /\ Underway' /\ Starting'
      BY <2>1, <2>3, HolderSteps DEF Holding
    <3>2. ~Down'
      BY <1>0, <2>1, <3>1 DEF Down
    <3>3. (Down /\ errors' = errors) \/ errors' = errors + 1
      <4>1. ~Goto(c, "inspect", "awake")
        BY <1>0, <2>3 DEF Goto, Types, Procs
      <4>2. SaysAwake <=> ~Down
        BY <3>1 DEF Down, SaysAwake
      <4> QED
        BY <1>3, <4>1, <4>2, Zenon DEF Inspect, Error
    <3> QED
      BY <1>0, <1>1, <2>1, <3>1, <3>2, <3>3 DEF Debt
  <2> QED
    BY <1>3, <2>2, <2>3 DEF Inspect
<1>4. CASE Found(c)
  <2>1. /\ wakeCount' = wakeCount /\ running' = running /\ errors' = errors
        /\ real \/ state' = state
    BY <1>4 DEF Found, compute, tally
  <2>2. ~Underway /\ ~Starting /\ ~Underway' /\ ~Starting'
    <3>1. Goto(c, "awake", "dial") /\ pc[c] \in Holding
      BY <1>4 DEF Found, Holding, Goto
    <3> QED
      BY <3>1, HolderSteps
  <2>3. Down' = Down
    BY <1>0, <2>1, <2>2 DEF Down
  <2> QED
    BY <1>0, <1>1, <2>1, <2>2, <2>3 DEF Debt
<1>5. CASE Waking(c)
  <2>1. wakeCount' = wakeCount /\ running' = running /\ errors' = errors
    BY <1>5 DEF Waking, compute, tally
  <2>2. Underway /\ Underway' /\ (real => Starting /\ Starting')
    BY <1>5, HolderSteps DEF Waking, Holding, Goto
  <2>3. ~Down'
    BY <1>0, <2>2 DEF Down
  <2> QED
    BY <1>0, <1>1, <2>1, <2>2, <2>3 DEF Debt
<1>6. CASE Start(c)
  <2>1. wakeCount' = wakeCount /\ state' = state
    BY <1>6 DEF Start, manager
  <2>2. Underway /\ Starting /\ Underway' /\ ~Starting'
    <3>1. Goto(c, "start", "wait") /\ pc[c] \in Holding
      BY <1>6 DEF Start, Holding, Goto
    <3> QED
      BY <3>1, HolderSteps
  <2>3. \/ ~Down' /\ errors' = errors
        \/ errors' = errors + 1
    BY <1>0, <1>6, <2>2 DEF Start, Error, Down
  <2> QED
    BY <1>0, <1>1, <2>1, <2>2, <2>3 DEF Debt
<1>7. CASE WaitReady(c)
  <2>1. /\ wakeCount' = wakeCount /\ running' = running /\ state' = state
        /\ (errors' = errors \/ errors' = errors + 1)
    BY <1>7 DEF WaitReady, Error, compute, manager
  <2>2. Underway /\ ~Starting /\ Underway' /\ ~Starting'
    <3>1. Goto(c, "wait", "woken") /\ pc[c] \in Holding
      BY <1>7 DEF WaitReady, Holding, Goto
    <3> QED
      BY <3>1, HolderSteps
  <2>3. Down' = Down
    BY <1>0, <2>1, <2>2 DEF Down
  <2> QED
    BY <1>0, <1>1, <2>1, <2>2, <2>3 DEF Debt
<1>8. CASE Woken(c)
  <2>1. /\ wakeCount' = wakeCount + 1 /\ running' = running /\ errors' = errors
        /\ state' = "active"
    BY <1>8 DEF Woken, compute, tally
  <2>2. Underway /\ ~Starting /\ ~Underway' /\ ~Starting'
    <3>1. Goto(c, "woken", "dial") /\ pc[c] \in Holding
      BY <1>8 DEF Woken, Holding, Goto
    <3> QED
      BY <3>1, HolderSteps
  <2>3. Down' => Down
    BY <1>0, <2>1, <2>2 DEF Down
  <2> QED
    BY <1>0, <1>1, <2>1, <2>2, <2>3 DEF Debt
<1> QED
  BY <1>2, <1>3, <1>4, <1>5, <1>6, <1>7, <1>8 DEF ConnStep

\* A stop is a suspend; setting the state takes one of them off the list.
LEMMA SuspenderDebt ==
    ASSUME Types, NoDocker, Debt, NEW s \in Suspenders,
           \/ s \in Timers /\ TimerStep(s)
           \/ s \in Requests /\ (AskSuspend(s) \/ AskState(s) \/ RequestStep(s))
    PROVE  Debt'
<1>0. /\ wakeCount \in Nat /\ suspends \in Nat /\ errors \in Nat /\ ToMark \in Nat
      /\ real' = real /\ wakeCount' = wakeCount /\ s \in Procs
      /\ \A c \in Conns : pc'[c] = pc[c]
  BY DebtNumbers, SuspenderSpares DEF Procs
<1>1. Underway' = Underway /\ Starting' = Starting
  BY <1>0 DEF Underway, Starting
<1>2. CASE StopCompute(s)
  <2>1. Marking' = Marking \cup {s} /\ pc[s] = "stop"
    BY <1>0, <1>2 DEF StopCompute, Goto, Marking, Types, Procs
  <2>2. IsFiniteSet(Marking') /\ ToMark' = (IF real THEN 0 ELSE ToMark + 1)
    BY <1>0, <2>1, MarkAdded DEF Debt
  <2>3. /\ suspends' = suspends + 1 /\ errors' \in {errors, errors + 1}
        /\ state' = state
    BY <1>2 DEF StopCompute, Error, manager
  <2>4. ~real => Down' = Down
    BY <1>0, <1>1, <2>3 DEF Down
  <2>5. CASE real
    <3>1. ToMark = 0 /\ ToMark' = 0
      BY <2>2, <2>5 DEF ToMark
    <3>2. errors' \in Nat /\ errors <= errors' /\ suspends' = suspends + 1
          /\ IsFiniteSet(Marking')
      BY <1>0, <2>2, <2>3
    <3>3. wakeCount + (IF Underway THEN 1 ELSE 0) + (IF Down THEN 1 ELSE 0)
             <= suspends + errors
      BY <1>0, <3>1 DEF Debt
    <3>4. wakeCount' + (IF Underway' THEN 1 ELSE 0) + (IF Down' THEN 1 ELSE 0)
             <= suspends' + errors'
      <4> DEFINE u == IF Underway THEN 1 ELSE 0
                 d == IF Down THEN 1 ELSE 0
                 e == IF Down' THEN 1 ELSE 0
      <4>1. u \in 0..1 /\ d \in 0..1 /\ e \in 0..1
        OBVIOUS
      <4>2. (IF Underway' THEN 1 ELSE 0) = u
        BY <1>1
      <4>3. wakeCount + u + d <= suspends + errors
        BY <3>3
      <4>4. wakeCount \in Nat /\ suspends \in Nat /\ errors \in Nat /\ ToMark \in Nat
        BY <1>0
      <4> HIDE DEF u, d, e
      <4>5. wakeCount + u + e <= suspends + 1 + errors'
        BY <3>1, <3>2, <4>1, <4>3, <4>4, SuspendPays
      <4> QED
        BY <1>0, <3>2, <4>2, <4>5 DEF e
    <3>5. wakeCount' \in Nat /\ suspends' \in Nat
      BY <1>0, <3>2
    <3> QED
      BY <3>1, <3>2, <3>4, <3>5 DEF Debt
  <2>6. CASE ~real
    <3>1. ToMark' = ToMark + 1 /\ Down' = Down
      BY <2>2, <2>4, <2>6
    <3>2. errors' \in Nat /\ errors <= errors' /\ suspends' = suspends + 1
          /\ IsFiniteSet(Marking')
      BY <1>0, <2>2, <2>3
    <3>3. wakeCount' + (IF Underway' THEN 1 ELSE 0) + (IF Down' THEN 1 ELSE 0) + ToMark'
             <= suspends' + errors'
      <4> DEFINE u == IF Underway THEN 1 ELSE 0
                 d == IF Down THEN 1 ELSE 0
      <4>1. u \in 0..1 /\ d \in 0..1
        OBVIOUS
      <4>2. (IF Underway' THEN 1 ELSE 0) = u /\ (IF Down' THEN 1 ELSE 0) = d
        BY <1>1, <3>1
      <4>3. wakeCount + u + d + ToMark <= suspends + errors
        BY DEF Debt
      <4>4. wakeCount \in Nat /\ suspends \in Nat /\ errors \in Nat /\ ToMark \in Nat
        BY <1>0
      <4> HIDE DEF u, d
      <4>5. wakeCount + u + d + (ToMark + 1) <= suspends + 1 + errors'
        BY <3>1, <3>2, <4>1, <4>3, <4>4, SuspendPays
      <4> QED
        BY <1>0, <3>1, <3>2, <4>2, <4>5
    <3> QED
      BY <3>2, <3>3 DEF Debt
  <2> QED
    BY <2>5, <2>6
<1>3. CASE MarkSuspended(s)
  <2>1. Marking' = Marking \ {s} /\ pc[s] = "mark"
    BY <1>0, <1>3 DEF MarkSuspended, Goto, Marking, Types, Procs
  <2>2. IsFiniteSet(Marking') /\ ToMark' = (IF real THEN 0 ELSE ToMark - 1)
    BY <1>0, <2>1, MarkRemoved DEF Debt
  <2>3. suspends' = suspends /\ errors' = errors /\ running' = running
    BY <1>3 DEF MarkSuspended, compute, tally
  <2>4. real => Down' = Down /\ ToMark = 0
    BY <1>0, <1>1, <2>3 DEF Down, ToMark
  <2> QED
    BY <1>0, <1>1, <2>2, <2>3, <2>4 DEF Debt
<1>4. CASE \/ Fire(s) \/ CheckIdle(s) \/ AskSuspend(s) \/ AskState(s)
           \/ Look(s) \/ AskDocker(s)
           \/ s \in Requests /\ Adopt(s)
  <2>1. \E from, to \in Places \ {"mark"} : Goto(s, from, to)
    BY <1>4 DEF Fire, CheckIdle, AskSuspend, AskState, Look, AskDocker, Adopt, Places
  <2>2. Marking' = Marking
    BY <2>1 DEF Goto, Marking, Types, Procs
  <2>3. IsFiniteSet(Marking') /\ ToMark' = ToMark
    BY <1>0, <2>2 DEF Debt, ToMark
  <2>4. /\ suspends' = suspends /\ running' = running
        /\ (errors' = errors \/ errors' = errors + 1)
    BY <1>4 DEF Fire, CheckIdle, AskSuspend, AskState, Look, AskDocker, Adopt,
                Error, compute, tally
  <2>5. Down' = Down
    <3>1. CASE real
      BY <1>0, <1>1, <2>4, <3>1 DEF Down
    <3>2. CASE ~real
      <4>1. ~(s \in Requests /\ Adopt(s))
        BY <3>2 DEF NoDocker, Adopt, Goto
      <4>2. state' = state
        BY <1>4, <4>1 DEF Fire, CheckIdle, AskSuspend, AskState, Look, AskDocker, manager
      <4> QED
        BY <1>0, <1>1, <3>2, <4>2 DEF Down
    <3> QED
      BY <3>1, <3>2
  <2> QED
    BY <1>0, <1>1, <2>3, <2>4, <2>5 DEF Debt
<1>5. CASE TimerStep(s)
  BY <1>2, <1>3, <1>4, <1>5 DEF TimerStep
<1>6. CASE AskSuspend(s) \/ AskState(s)
  BY <1>4, <1>6
<1>7. CASE s \in Requests /\ RequestStep(s)
  <2>1. \/ StopCompute(s) \/ MarkSuspended(s) \/ Look(s) \/ AskDocker(s)
        \/ s \in Requests /\ Adopt(s)
    BY <1>7 DEF RequestStep
  <2> QED
    BY <1>2, <1>3, <1>4, <2>1
<1> QED
  BY <1>5, <1>6, <1>7

\* Docker is asked in real mode only.
LEMMA SuspenderNoDocker ==
    ASSUME Types, NoDocker, NEW s \in Suspenders,
           \/ s \in Timers /\ TimerStep(s)
           \/ s \in Requests /\ (AskSuspend(s) \/ AskState(s) \/ RequestStep(s))
    PROVE  NoDocker'
<1>1. real' = real
  BY SuspenderSpares
<1>2. CASE real
  BY <1>1, <1>2 DEF NoDocker
<1>3. CASE ~real
  <2>1. ASSUME s \in Requests
        PROVE  pc[s] \notin {"ask", "adopt"}
    BY <1>3, <2>1 DEF NoDocker
  <2>2. \E from, to \in Places \ {"ask", "adopt"} : Goto(s, from, to)
    BY <1>3, <2>1 DEF TimerStep, RequestStep, AskSuspend, AskState, Fire, CheckIdle,
       StopCompute, MarkSuspended, Look, AskDocker, Adopt, Goto, Places
  <2>3. \A r \in Requests : pc'[r] = pc[r] \/ pc'[r] \notin {"ask", "adopt"}
    BY <2>2 DEF Goto, Types, Procs, Suspenders
  <2> QED
    BY <1>3, <2>3 DEF NoDocker
<1> QED
  BY <1>2, <1>3

-----------------------------------------------------------------------------
(* The invariant and the theorems.                                         *)

LEMMA InvInit == Init => ProxyInv
<1> SUFFICES ASSUME Init PROVE ProxyInv
  OBVIOUS
<1>1. Types
  BY TypesInit
<1>2. /\ \A x \in Procs : pc[x] = "idle"
      /\ activeConns = 0 /\ wakeMu = None
  BY DEF Init
<1>3. Locked
  BY <1>2 DEF Locked, Holding, Procs
<1>4. Spliced = {} /\ Marking = {}
  BY <1>2 DEF Spliced, Marking, Procs
<1>5. Counted
  BY <1>2, <1>4, FS_EmptySet DEF Counted
<1>6. TimersInReach /\ NoDocker
  BY <1>2 DEF TimersInReach, NoDocker, Procs, Suspenders
<1>7. ~Underway /\ ~Starting
  BY <1>2 DEF Underway, Starting, Procs
<1>8. IsFiniteSet(Marking) /\ ToMark = 0
  BY <1>4, FS_EmptySet DEF ToMark
<1>9. wakeCount = 0 /\ errors = 0 /\ suspends = IF Down THEN 1 ELSE 0
  BY <1>7 DEF Init, Down
<1>10. Debt
  BY <1>7, <1>8, <1>9 DEF Debt
<1> QED
  BY <1>1, <1>3, <1>5, <1>6, <1>10 DEF ProxyInv

LEMMA ReadyKeeps ==
    ASSUME ProxyInv, BecomeReady \/ UNCHANGED vars
    PROVE  ProxyInv'
<1>1. /\ real' = real /\ running' = running /\ ready' \in BOOLEAN /\ state' = state
      /\ activeConns' = activeConns /\ idleTimer' = idleTimer /\ wakeMu' = wakeMu
      /\ wakeCount' = wakeCount /\ pc' = pc /\ cut' = cut /\ seen' = seen
      /\ suspends' = suspends /\ errors' = errors
  BY DEF BecomeReady, vars, manager, tally, ProxyInv, Types
<1>2. Types' /\ Locked' /\ Counted' /\ TimersInReach' /\ NoDocker'
  BY <1>1 DEF ProxyInv, Types, Locked, Counted, Spliced, TimersInReach, NoDocker
<1>3. Debt'
  BY <1>1 DEF ProxyInv, Debt, Underway, Starting, Down, Marking, ToMark
<1> QED
  BY <1>2, <1>3 DEF ProxyInv

LEMMA InvStep == ProxyInv /\ [Next]_vars => ProxyInv'
<1> SUFFICES ASSUME ProxyInv, [Next]_vars PROVE ProxyInv'
  OBVIOUS
<1> USE DEF ProxyInv
<1>1. CASE BecomeReady \/ UNCHANGED vars
  BY <1>1, ReadyKeeps
<1>2. ASSUME NEW c \in Conns, Arrive(c) \/ ConnStep(c) \/ ConnClosed(c)
      PROVE  ProxyInv'
  BY <1>2, ConnTypes, ConnLocked, ConnCounted, ConnMarksNothing, ConnDebt
<1>3. ASSUME NEW s \in Suspenders,
             \/ s \in Timers /\ TimerStep(s)
             \/ s \in Requests /\ (AskSuspend(s) \/ AskState(s) \/ RequestStep(s))
      PROVE  ProxyInv'
  <2>1. Locked' /\ Counted' /\ TimersInReach'
    BY <1>3, SuspenderSpares, SpareKeeps
  <2> QED
    BY <1>3, <2>1, SuspenderTypes, SuspenderNoDocker, SuspenderDebt
<1> QED
  BY <1>1, <1>2, <1>3 DEF Next, Suspenders

LEMMA AlwaysInv == Spec => []ProxyInv
BY InvInit, InvStep, PTL DEF Spec

\* The proxy's variables keep their types; among them the session count,
\* which is never negative and never more than the clients.
THEOREM ProxyTypesCorrect == Spec => []TypeOK
<1>1. ProxyInv => TypeOK
  BY TypesEnough DEF ProxyInv
<1> QED
  BY <1>1, AlwaysInv, PTL

\* For any clients, timers, requests and failures there are no more cold
\* starts than suspends and failed calls, in real and in simulated mode
\* (ensureAwake, main.go:106-149).
THEOREM OneColdStartHolds == Spec => []OneColdStart
<1>1. ProxyInv => OneColdStart
  <2> SUFFICES ASSUME ProxyInv PROVE OneColdStart
    OBVIOUS
  <2>1. wakeCount \in Nat /\ suspends \in Nat /\ errors \in Nat /\ ToMark \in Nat
    BY DebtNumbers DEF ProxyInv
  <2> QED
    BY <2>1 DEF ProxyInv, Debt, OneColdStart
<1> QED
  BY <1>1, AlwaysInv, PTL

\* An idle timer that can still be stopped is the one m.idleTimer leads to,
\* and no session is open (connOpened, connClosed, main.go:156-177).
THEOREM TimersInReachHolds == Spec => []TimersInReach
<1>1. ProxyInv => TimersInReach
  BY DEF ProxyInv
<1> QED
  BY <1>1, AlwaysInv, PTL

\* A connection makes no timer stop the compute.
LEMMA ConnStopsNothing ==
    ASSUME Types, NEW c \in Conns, Arrive(c) \/ ConnStep(c) \/ ConnClosed(c)
    PROVE  \A t \in Timers : ~(pc[t] = "check" /\ pc'[t] = "stop")
<1>0. c \in Procs /\ (\A t \in Timers : t \in Procs /\ t # c)
  BY DEF Procs, Suspenders
<1>1. CASE ConnOpened(c)
  BY <1>0, <1>1 DEF ConnOpened, StopTimer, Types
<1>2. CASE ConnClosed(c)
  BY <1>0, <1>2 DEF ConnClosed, Types
<1>3. CASE ~ConnOpened(c) /\ ~ConnClosed(c)
  BY <1>3, ConnMovesOn
<1> QED
  BY <1>1, <1>2, <1>3

\* A timer or a request moves nobody but itself.
LEMMA SuspenderAlone ==
    ASSUME Types, NEW s \in Suspenders,
           \/ s \in Timers /\ TimerStep(s)
           \/ s \in Requests /\ (AskSuspend(s) \/ AskState(s) \/ RequestStep(s))
    PROVE  \A x \in Procs : x # s => pc'[x] = pc[x]
<1>1. \E from, to \in Places : Goto(s, from, to)
  BY DEF TimerStep, RequestStep, AskSuspend, AskState, Fire, CheckIdle, StopCompute,
         MarkSuspended, Look, AskDocker, Adopt, Places
<1> QED
  BY <1>1 DEF Types, Goto

\* An idle timer decides to stop the compute only when no session is open
\* (suspendIfIdle, main.go:179-186).
THEOREM DecidesWhenIdleHolds == Spec => DecidesWhenIdle
<1>1. ProxyInv /\ [Next]_vars
        => [\A t \in Timers : pc[t] = "check" /\ pc'[t] = "stop"
               => \A c \in Conns : pc[c] # "spliced"]_vars
  <2> SUFFICES ASSUME ProxyInv, Next, NEW t \in Timers,
                      pc[t] = "check", pc'[t] = "stop"
               PROVE  \A c \in Conns : pc[c] # "spliced"
    OBVIOUS
  <2>1. activeConns = 0
    <3>1. ASSUME NEW c \in Conns, Arrive(c) \/ ConnStep(c) \/ ConnClosed(c)
          PROVE  FALSE
      BY <3>1, ConnStopsNothing DEF ProxyInv
    <3>2. ASSUME NEW s \in Suspenders,
                 \/ s \in Timers /\ TimerStep(s)
                 \/ s \in Requests /\ (AskSuspend(s) \/ AskState(s) \/ RequestStep(s))
          PROVE  activeConns = 0
      <4>1. s = t
        BY <3>2, SuspenderAlone DEF ProxyInv, Procs, Suspenders
      <4>2. CheckIdle(t)
        BY <3>2, <4>1 DEF TimerStep, Fire, StopCompute, MarkSuspended, Goto
      <4> QED
        BY <4>2 DEF CheckIdle, Goto, ProxyInv, Types, Procs, Suspenders
    <3>3. CASE BecomeReady
      BY <3>3 DEF BecomeReady
    <3> QED
      BY <3>1, <3>2, <3>3 DEF Next, Suspenders
  <2>2. Spliced = {}
    BY <2>1, SplicedFinite, FS_EmptySet DEF ProxyInv, Counted
  <2> QED
    BY <2>2 DEF Spliced
<1> QED
  BY <1>1, AlwaysInv, PTL DEF Spec, DecidesWhenIdle
=============================================================================
