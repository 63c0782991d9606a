-------------------------------- MODULE Proxy --------------------------------
(***************************************************************************)
(* The scale-to-zero proxy (src/services/proxy).  Every client connection  *)
(* is a goroutine that makes sure the compute is awake, dials it, replays  *)
(* the client's startup packet and then splices the two connections until  *)
(* one side closes.  The compute is suspended by an idle timer (a          *)
(* goroutine of its own once it fires) or by a request to /suspend.        *)
(*                                                                         *)
(* The goroutines share the manager's fields under m.mu, cold starts are   *)
(* serialised by m.wakeMu, and nothing serialises a suspend.  Each action  *)
(* is one critical section or one call to Docker or the network; between   *)
(* two of them any other goroutine may run.                                *)
(***************************************************************************)
EXTENDS Integers, FiniteSets

CONSTANTS
    Conns,       \* client connections, each used once
    Timers,      \* idle timers time.AfterFunc may create, each used once
    Requests,    \* HTTP requests to /state and /suspend, each used once
    None,        \* no timer, no holder
    AutoSuspend, \* AUTO_SUSPEND, with a positive idle timeout
    MaxErrors    \* bound: Docker calls that fail, cold starts over 60s

Suspenders == Timers \cup Requests

Procs == Conns \cup Suspenders

ASSUME ProxyAssumption ==
    /\ Conns \cap Suspenders = {} /\ Timers \cap Requests = {}
    /\ IsFiniteSet(Conns)
    /\ None \notin Procs
    /\ AutoSuspend \in BOOLEAN
    /\ MaxErrors \in Nat

VARIABLES
    real,         \* realSuspend(): Docker was reachable at start
    running,      \* the compute container runs
    ready,        \* the compute accepts connections
    state,        \* m.state
    activeConns,  \* m.activeConns
    idleTimer,    \* m.idleTimer
    wakeMu,       \* holder of m.wakeMu
    wakeCount,    \* m.wakeCount
    pc,           \* where each goroutine is
    cut,          \* connections whose backend side a stop has broken
    seen,         \* per request: what snapshot() has read so far
    suspends,     \* suspends so far, an initially stopped compute included
    errors        \* failed calls so far

compute == <<running, ready, cut>>
manager == <<state, activeConns, idleTimer, wakeMu, wakeCount>>
tally   == <<suspends, errors>>
vars    == <<real, running, ready, state, activeConns, idleTimer, wakeMu,
             wakeCount, pc, cut, seen, suspends, errors>>

Unread == [conns |-> 0, running |-> FALSE]

Init ==
    /\ real \in BOOLEAN
    /\ running \in BOOLEAN /\ (real \/ running)
    /\ ready = running
    /\ state = IF running THEN "active" ELSE "suspended"
    /\ activeConns = 0
    /\ idleTimer = None
    /\ wakeMu = None
    /\ wakeCount = 0
    /\ pc = [x \in Procs |-> "idle"]
    /\ cut = {}
    /\ seen = [r \in Requests |-> Unread]
    /\ suspends = IF running THEN 0 ELSE 1
    /\ errors = 0

Goto(x, from, to) == pc[x] = from /\ pc' = [pc EXCEPT ![x] = to]

Error == errors < MaxErrors /\ errors' = errors + 1

-----------------------------------------------------------------------------
(* ensureAwake()                                                           *)

\* A client has sent its startup packet; readStartup keeps it.
Arrive(c) ==
    /\ Goto(c, "idle", "lock")
    /\ UNCHANGED <<real, compute, manager, seen, tally>>

\* Mutant of Lock: no mutex around the cold start.
LockFree(c) ==
    /\ Goto(c, "lock", "inspect")
    /\ wakeMu' = c
    /\ UNCHANGED <<real, compute, state, activeConns, idleTimer, wakeCount,
                   seen, tally>>

Lock(c) ==
    /\ Goto(c, "lock", "inspect")
    /\ wakeMu = None
    /\ wakeMu' = c
    /\ UNCHANGED <<real, compute, state, activeConns, idleTimer, wakeCount,
                   seen, tally>>

\* Mutant of SaysAwake: m.state is taken for the state of the container.
StateSaysAwake == state = "active"

\* What the check goes by: the container, or the state in simulated mode.
SaysAwake == IF real THEN running ELSE state = "active"

\* docker.running(); an error counts as "not running".
Inspect(c) ==
    /\ \/ SaysAwake /\ Goto(c, "inspect", "awake") /\ UNCHANGED errors
       \/ ~SaysAwake /\ Goto(c, "inspect", "cold") /\ UNCHANGED errors
       \/ real /\ Goto(c, "inspect", "cold") /\ Error
    /\ UNCHANGED <<real, compute, manager, seen, suspends>>

\* Mutant of Found: the early return does not unlock.
FoundKeepsLock(c) ==
    /\ Goto(c, "awake", "dial")
    /\ state' = IF real THEN "active" ELSE state
    /\ UNCHANGED <<real, compute, activeConns, idleTimer, wakeMu, wakeCount,
                   seen, tally>>

\* Running already: the reported state is put right, and the lock released.
Found(c) ==
    /\ Goto(c, "awake", "dial")
    /\ state' = IF real THEN "active" ELSE state
    /\ wakeMu' = None
    /\ UNCHANGED <<real, compute, activeConns, idleTimer, wakeCount, seen,
                   tally>>

Waking(c) ==
    /\ Goto(c, "cold", IF real THEN "start" ELSE "woken")
    /\ state' = "waking"
    /\ UNCHANGED <<real, compute, activeConns, idleTimer, wakeMu, wakeCount,
                   seen, tally>>

\* docker.start(); its error is logged and the wait begins all the same.
Start(c) ==
    /\ Goto(c, "start", "wait")
    /\ \/ running' = TRUE /\ UNCHANGED errors
       \/ Error /\ UNCHANGED running
    /\ UNCHANGED <<real, ready, cut, manager, seen, suspends>>

\* waitReady(): the compute accepts a connection, or 60 seconds pass because
\* it is stopped or slow.
WaitReady(c) ==
    /\ Goto(c, "wait", "woken")
    /\ \/ (ready \/ ~running) /\ UNCHANGED errors
       \/ ~ready /\ Error
    /\ UNCHANGED <<real, compute, manager, seen, suspends>>

\* The cold start is over, successful or not; it is counted.
Woken(c) ==
    /\ Goto(c, "woken", "dial")
    /\ state' = "active"
    /\ wakeCount' = wakeCount + 1
    /\ wakeMu' = None
    /\ UNCHANGED <<real, compute, activeConns, idleTimer, seen, tally>>

-----------------------------------------------------------------------------
(* handle(), from the dial on                                              *)

Dial(c) ==
    /\ Goto(c, "dial", IF ready THEN "replay" ELSE "done")
    /\ UNCHANGED <<real, compute, manager, seen, tally>>

\* A timer that has fired is beyond stopping.
StopTimer(p) == [x \in Procs |-> IF x = idleTimer /\ pc[x] = "armed"
                                   THEN "done" ELSE p[x]]

\* Mutant of ConnOpened: the timer is forgotten, but not stopped.
ConnOpenedForgets(c) ==
    /\ pc[c] = "replay"
    /\ pc' = [pc EXCEPT ![c] = "spliced"]
    /\ activeConns' = activeConns + 1
    /\ idleTimer' = None
    /\ UNCHANGED <<real, compute, state, wakeMu, wakeCount, seen, tally>>

\* The startup packet is replayed and connOpened() counts the session and
\* stops the idle timer.
ConnOpened(c) ==
    /\ pc[c] = "replay"
    /\ pc' = StopTimer([pc EXCEPT ![c] = "spliced"])
    /\ activeConns' = activeConns + 1
    /\ idleTimer' = None
    /\ UNCHANGED <<real, compute, state, wakeMu, wakeCount, seen, tally>>

\* Mutant of ReplayFails: connClosed() is deferred before connOpened() ran.
ReplayFailsCloses(c) ==
    /\ c \in cut
    /\ Goto(c, "replay", "done")
    /\ activeConns' = activeConns - 1
    /\ UNCHANGED <<real, compute, state, idleTimer, wakeMu, wakeCount, seen,
                   tally>>

\* The write can fail when the compute was stopped since the dial.
ReplayFails(c) ==
    /\ c \in cut
    /\ Goto(c, "replay", "done")
    /\ UNCHANGED <<real, compute, manager, seen, tally>>

\* connClosed(): the last one out arms a new idle timer.
ConnClosed(c) ==
    /\ pc[c] = "spliced"
    /\ activeConns' = activeConns - 1
    /\ IF AutoSuspend /\ activeConns' <= 0
         THEN \E t \in Timers :
                 /\ pc[t] = "idle"
                 /\ pc' = [pc EXCEPT ![c] = "done", ![t] = "armed"]
                 /\ idleTimer' = t
         ELSE /\ pc' = [pc EXCEPT ![c] = "done"]
              /\ UNCHANGED idleTimer
    /\ UNCHANGED <<real, compute, state, wakeMu, wakeCount, seen, tally>>

-----------------------------------------------------------------------------
(* Suspending, from a timer or from /suspend                               *)

\* The idle timeout is over.  m.idleTimer keeps pointing at the timer.
Fire(t) ==
    /\ Goto(t, "armed", "check")
    /\ UNCHANGED <<real, compute, manager, seen, tally>>

\* Mutant of CheckIdle: the timer is bound to forceSuspend().
CheckNothing(t) ==
    /\ Goto(t, "check", "stop")
    /\ UNCHANGED <<real, compute, manager, seen, tally>>

\* suspendIfIdle(): m.mu is released between the check and doSuspend().
CheckIdle(t) ==
    /\ Goto(t, "check", IF activeConns = 0 THEN "stop" ELSE "done")
    /\ UNCHANGED <<real, compute, manager, seen, tally>>

AskSuspend(r) ==
    /\ Goto(r, "idle", "stop")
    /\ UNCHANGED <<real, compute, manager, seen, tally>>

\* doSuspend(): docker.stop() takes the sessions of the compute with it.
StopCompute(s) ==
    /\ Goto(s, "stop", "mark")
    /\ suspends' = suspends + 1
    /\ \/ /\ real
          /\ running' = FALSE
          /\ ready' = FALSE
          /\ cut' = cut \cup {c \in Conns : pc[c] \in {"replay", "spliced"}}
          /\ UNCHANGED errors
       \/ real /\ Error /\ UNCHANGED compute
       \/ ~real /\ UNCHANGED <<compute, errors>>
    /\ UNCHANGED <<real, manager, seen>>

\* ... and sets the state, whatever happened since.
MarkSuspended(s) ==
    /\ Goto(s, "mark", IF s \in Requests THEN "look" ELSE "done")
    /\ state' = "suspended"
    /\ UNCHANGED <<real, compute, activeConns, idleTimer, wakeMu, wakeCount,
                   seen, tally>>

-----------------------------------------------------------------------------
(* snapshot(), for /state and after /suspend                               *)

AskState(r) ==
    /\ Goto(r, "idle", "look")
    /\ UNCHANGED <<real, compute, manager, seen, tally>>

Look(r) ==
    /\ Goto(r, "look", IF real THEN "ask" ELSE "done")
    /\ seen' = [seen EXCEPT ![r].conns = activeConns]
    /\ UNCHANGED <<real, compute, manager, tally>>

AskDocker(r) ==
    /\ \/ Goto(r, "ask", IF seen[r].conns = 0 THEN "adopt" ELSE "done")
          /\ seen' = [seen EXCEPT ![r].running = running]
          /\ UNCHANGED errors
       \/ Goto(r, "ask", "done") /\ Error /\ UNCHANGED seen
    /\ UNCHANGED <<real, compute, manager, suspends>>

\* The state adopts what Docker said, unless a cold start is under way.
Adopt(r) ==
    /\ Goto(r, "adopt", "done")
    /\ state' = IF state = "waking" THEN state
                ELSE IF seen[r].running THEN "active" ELSE "suspended"
    /\ UNCHANGED <<real, compute, activeConns, idleTimer, wakeMu, wakeCount,
                   seen, tally>>

-----------------------------------------------------------------------------

\* Outside of the proxy: the started compute gets ready.
BecomeReady ==
    /\ running /\ ~ready
    /\ ready' = TRUE
    /\ UNCHANGED <<real, running, cut, manager, pc, seen, tally>>

\* The steps of a goroutine that wait for nothing but their turn.
ConnStep(c) ==
    \/ Lock(c) \/ Inspect(c) \/ Found(c) \/ Waking(c) \/ Start(c)
    \/ WaitReady(c) \/ Woken(c) \/ Dial(c) \/ ConnOpened(c) \/ ReplayFails(c)
    \/ c \in cut /\ ConnClosed(c)

TimerStep(t) ==
    Fire(t) \/ CheckIdle(t) \/ StopCompute(t) \/ MarkSuspended(t)

RequestStep(r) ==
    StopCompute(r) \/ MarkSuspended(r) \/ Look(r) \/ AskDocker(r) \/ Adopt(r)

Next ==
    \/ BecomeReady
    \/ \E c \in Conns : Arrive(c) \/ ConnStep(c) \/ ConnClosed(c)
    \/ \E t \in Timers : TimerStep(t)
    \/ \E r \in Requests : AskSuspend(r) \/ AskState(r) \/ RequestStep(r)

Spec == Init /\ [][Next]_vars

\* Goroutines are scheduled, calls to Docker return, a started compute gets
\* ready.  Clients and requests come, and clients leave, when they like.
FairSpec ==
    /\ Spec
    /\ WF_vars(BecomeReady)
    /\ \A c \in Conns : WF_vars(ConnStep(c))
    /\ \A t \in Timers : WF_vars(TimerStep(t))
    /\ \A r \in Requests : WF_vars(RequestStep(r))

-----------------------------------------------------------------------------
(* Properties.                                                             *)

TypeOK ==
    /\ real \in BOOLEAN /\ running \in BOOLEAN /\ ready \in BOOLEAN
    /\ state \in {"active", "waking", "suspended"}
    /\ activeConns \in 0..Cardinality(Conns)
    /\ idleTimer \in Timers \cup {None}
    /\ wakeMu \in Conns \cup {None}
    /\ wakeCount \in Nat
    /\ pc \in [Procs -> {"idle", "lock", "inspect", "awake", "cold", "start",
                         "wait", "woken", "dial", "replay", "spliced",
                         "armed", "check", "stop", "mark", "look", "ask",
                         "adopt", "done"}]
    /\ cut \in SUBSET Conns
    /\ seen \in [Requests -> [conns : 0..Cardinality(Conns), running : BOOLEAN]]
    /\ suspends \in Nat
    /\ errors \in 0..MaxErrors

\* "Exactly one cold start even if many connections arrive at once"
\* (main.go:107-108): there are no more of them than suspends to undo and
\* failed calls to make up for.
OneColdStart == wakeCount <= suspends + errors

\* An idle timer that can still be stopped is the one that m.idleTimer leads
\* to, and no session is open: opening one leaves no timer behind.
TimersInReach ==
    \A t \in Timers :
        pc[t] = "armed" => idleTimer = t /\ activeConns = 0

\* No client waits for ever: it gets its session or is turned away.
Answered ==
    \A c \in Conns : pc[c] = "lock" ~> pc[c] \in {"spliced", "done"}

\* No call can fail any more, and nobody is about to suspend the compute.
Calm ==
    /\ errors = MaxErrors
    /\ \A s \in Suspenders : pc[s] \in {"idle", "armed", "done"}

\* Once nothing interferes, every client that comes is let through to a
\* compute that is ready, however stale the state is by then, unless an idle
\* timer fires or a request arrives before it is.
ServedWhenCalm ==
    \A c \in Conns :
        Calm /\ pc[c] = "lock" /\ (ready \/ ~running)
           ~> pc[c] = "spliced" \/ ~Calm

\* An idle timer decides to stop the compute only when no session is open,
\* whatever has been counted, cut or turned away before.  (One that opens
\* between the decision and the stop is cut: m.mu is released in between.)
DecidesWhenIdle ==
    [][\A t \in Timers :
          pc[t] = "check" /\ pc'[t] = "stop"
             => \A c \in Conns : pc[c] # "spliced"]_vars
=============================================================================
