---------------------------- MODULE PeriodicTask ----------------------------
(***************************************************************************)
(* threads/PeriodicTask.cpp: a task that a pool thread runs once per       *)
(* period until the task asks to stop or stop() is called.                 *)
(*                                                                         *)
(* The owner calls start(), stop() and the destructor; the other clients   *)
(* only call join().  Every start() submits a new lambda to the thread     *)
(* pool.  The pool (stlab) skips a lambda whose future was dropped before  *)
(* a pool thread picked it up.                                             *)
(*                                                                         *)
(* m_mutex is held by a client only while it evaluates the predicate of    *)
(* join(); the other critical sections are a single step, which starts     *)
(* when the mutex is free.                                                 *)
(***************************************************************************)
EXTENDS Naturals

CONSTANTS Owner,      \* the thread that owns the PeriodicTask
          Joiners,    \* other threads that call join()
          MaxStarts,  \* bound on the calls of start()
          None        \* no lambda, no mutex holder

ASSUME ClientAssumption == Owner \notin Joiners /\ None \notin Joiners \cup {Owner}
ASSUME StartsAssumption == MaxStarts \in Nat \ {0} /\ None \notin 1 .. MaxStarts
                           /\ (Joiners \cup {Owner}) \cap (1 .. MaxStarts) = {}

VARIABLES m_stop,             \* set by stop(), never reset
          m_taskIsStopped,    \* what isStopped() returns
          m_futureTaskResult, \* the lambda whose future the object holds
          m_mutex,            \* the client that holds the mutex, or None
          m_cv,               \* the threads blocked on the condition variable
          lambda,             \* where each submitted lambda is
          pc,                 \* where each client is
          starts,             \* number of calls of start(), at most MaxStarts
          alive               \* FALSE once the destructor has finished

vars == <<m_stop, m_taskIsStopped, m_futureTaskResult, m_mutex, m_cv, lambda,
          pc, starts, alive>>

Clients == Joiners \cup {Owner}
Lambdas == 1 .. MaxStarts

\* A lambda that the pool may still start, or that is in its loop.
Looping == {"queued", "enter", "waiting", "timedOut", "loopTest", "task"}
Active == Looping \cup {"setStopped"}
LambdaStates == Active \cup {"none", "notify", "skipped", "threw", "done"}
\* A client that reads the flag of join() with the mutex.
Locked == {"predicate", "block"}
\* A client in join(), which stop() calls last.
Joining == Locked \cup {"joinTest", "joinLock", "blocked"}
ClientStates == Joining \cup {"idle", "stopLock", "destroyed"}
-----------------------------------------------------------------------------
Init == /\ m_stop = FALSE
        /\ m_taskIsStopped = TRUE
        /\ m_futureTaskResult = None
        /\ m_mutex = None
        /\ m_cv = {}
        /\ lambda = [l \in Lambdas |-> "none"]
        /\ pc = [c \in Clients |-> "idle"]
        /\ starts = 0
        /\ alive = TRUE

\* start(): the callers start a task only when none is running.
Start == /\ pc[Owner] = "idle" /\ m_taskIsStopped /\ starts < MaxStarts
         /\ starts' = starts + 1
         /\ m_taskIsStopped' = FALSE
         /\ m_futureTaskResult' = starts'
         /\ lambda' = [lambda EXCEPT ![starts'] = "queued"]
         /\ UNCHANGED <<m_stop, m_mutex, m_cv, pc, alive>>

\* stop(), the test of m_taskIsStopped on entry: nothing to do when it is set.
StopTest == /\ pc[Owner] = "idle" /\ ~m_taskIsStopped
            /\ pc' = [pc EXCEPT ![Owner] = "stopLock"]
            /\ UNCHANGED <<m_stop, m_taskIsStopped, m_futureTaskResult, m_mutex,
                           m_cv, lambda, starts, alive>>

\* notify_all: the blocked threads leave the condition variable and go on to
\* acquire the mutex again.
WokenLambdas(woken) == [l \in Lambdas |-> IF l \in woken THEN "enter" ELSE lambda[l]]
WokenClients(woken) == [c \in Clients |-> IF c \in woken THEN "joinLock" ELSE pc[c]]

\* Mutant of StopSignal: stop() marks the task as stopped itself.
StopSignalEarly == /\ pc[Owner] = "stopLock" /\ m_mutex = None
                   /\ m_stop' = TRUE
                   /\ m_taskIsStopped' = TRUE
                   /\ m_futureTaskResult' = None
                   /\ lambda' = WokenLambdas(m_cv)
                   /\ pc' = [WokenClients(m_cv) EXCEPT ![Owner] = "joinTest"]
                   /\ m_cv' = {}
                   /\ UNCHANGED <<m_mutex, starts, alive>>

\* stop(), the critical section: drop the future, set m_stop, notify_all; then
\* call join().
StopSignal == /\ pc[Owner] = "stopLock" /\ m_mutex = None
              /\ m_stop' = TRUE
              /\ m_futureTaskResult' = None
              /\ lambda' = WokenLambdas(m_cv)
              /\ pc' = [WokenClients(m_cv) EXCEPT ![Owner] = "joinTest"]
              /\ m_cv' = {}
              /\ UNCHANGED <<m_taskIsStopped, m_mutex, starts, alive>>

\* The destructor calls stop(), so it finishes when stop() would return: at
\* once if m_taskIsStopped.
Destroy == /\ pc[Owner] = "idle" /\ m_taskIsStopped
           /\ \A c \in Joiners : pc[c] = "idle"
           /\ alive' = FALSE
           /\ pc' = [c \in Clients |-> "destroyed"]
           /\ UNCHANGED <<m_stop, m_taskIsStopped, m_futureTaskResult, m_mutex,
                          m_cv, lambda, starts>>
-----------------------------------------------------------------------------
JoinCall(c) == /\ pc[c] = "idle"
               /\ pc' = [pc EXCEPT ![c] = "joinTest"]
               /\ UNCHANGED <<m_stop, m_taskIsStopped, m_futureTaskResult,
                              m_mutex, m_cv, lambda, starts, alive>>

\* Mutant of JoinTest: join() does not wait.
JoinTestOnly(c) == /\ pc[c] = "joinTest"
                   /\ pc' = [pc EXCEPT ![c] = "idle"]
                   /\ UNCHANGED <<m_stop, m_taskIsStopped, m_futureTaskResult,
                                  m_mutex, m_cv, lambda, starts, alive>>

\* The test on entry of join(), without the mutex.
JoinTest(c) == /\ pc[c] = "joinTest"
               /\ pc' = [pc EXCEPT ![c] = IF m_taskIsStopped THEN "idle" ELSE "joinLock"]
               /\ UNCHANGED <<m_stop, m_taskIsStopped, m_futureTaskResult,
                              m_mutex, m_cv, lambda, starts, alive>>

\* Mutant of JoinLock: the mutex that join() locks is not the one of the task.
JoinLockAnother(c) == /\ pc[c] = "joinLock"
                      /\ m_mutex' = c
                      /\ pc' = [pc EXCEPT ![c] = "predicate"]
                      /\ UNCHANGED <<m_stop, m_taskIsStopped, m_futureTaskResult, m_cv,
                                     lambda, starts, alive>>

JoinLock(c) == /\ pc[c] = "joinLock" /\ m_mutex = None
               /\ m_mutex' = c
               /\ pc' = [pc EXCEPT ![c] = "predicate"]
               /\ UNCHANGED <<m_stop, m_taskIsStopped, m_futureTaskResult, m_cv,
                              lambda, starts, alive>>

\* cv.wait evaluates its predicate, with the mutex held.
JoinPredicate(c) == /\ pc[c] = "predicate"
                    /\ IF m_taskIsStopped
                       THEN /\ pc' = [pc EXCEPT ![c] = "idle"]
                            /\ m_mutex' = None
                       ELSE /\ pc' = [pc EXCEPT ![c] = "block"]
                            /\ UNCHANGED m_mutex
                    /\ UNCHANGED <<m_stop, m_taskIsStopped, m_futureTaskResult,
                                   m_cv, lambda, starts, alive>>

\* cv.wait releases the mutex and blocks, in one step.
JoinBlock(c) == /\ pc[c] = "block"
                /\ pc' = [pc EXCEPT ![c] = "blocked"]
                /\ m_mutex' = None
                /\ m_cv' = m_cv \cup {c}
                /\ UNCHANGED <<m_stop, m_taskIsStopped, m_futureTaskResult,
                               lambda, starts, alive>>

SpuriousJoinWake(c) == /\ c \in m_cv
                       /\ m_cv' = m_cv \ {c}
                       /\ pc' = [pc EXCEPT ![c] = "joinLock"]
                       /\ UNCHANGED <<m_stop, m_taskIsStopped, m_futureTaskResult,
                                      m_mutex, lambda, starts, alive>>
-----------------------------------------------------------------------------
\* The steps of a lambda change neither the flags of stop() nor the clients.
LambdaStep(l, from, to) == /\ lambda[l] = from
                           /\ lambda' = [lambda EXCEPT ![l] = to]
                           /\ UNCHANGED <<m_stop, m_futureTaskResult, m_mutex,
                                          starts, alive>>

\* A pool thread picks the lambda up, and skips it if its future was dropped.
Begin(l) == /\ LambdaStep(l, "queued", IF m_futureTaskResult = l THEN "enter" ELSE "skipped")
            /\ UNCHANGED <<m_taskIsStopped, m_cv, pc>>

\* The top of the loop: with the mutex, test m_stop and wait until the period
\* has elapsed.  A spurious or notified wake comes back here.
Enter(l) == /\ m_mutex = None
            /\ IF m_stop
               THEN /\ LambdaStep(l, "enter", "loopTest")
                    /\ UNCHANGED m_cv
               ELSE /\ LambdaStep(l, "enter", "waiting")
                    /\ m_cv' = m_cv \cup {l}
            /\ UNCHANGED <<m_taskIsStopped, pc>>

\* wait_until ends, with the status timeout or with a spurious wake.
EndWait(l) == /\ l \in m_cv
              /\ m_cv' = m_cv \ {l}
              /\ \/ LambdaStep(l, "waiting", "timedOut")
                 \/ LambdaStep(l, "waiting", "enter")
              /\ UNCHANGED <<m_taskIsStopped, pc>>

\* wait_until returns the status timeout only with the mutex, which the end of
\* the block then releases.
TimedOut(l) == /\ m_mutex = None
               /\ LambdaStep(l, "timedOut", "loopTest")
               /\ UNCHANGED <<m_taskIsStopped, m_cv, pc>>

\* Mutants of LoopTest: the condition forgets m_stop; m_stop restarts the wait.
LoopTestIgnoresStop(l) == /\ LambdaStep(l, "loopTest", "task")
                          /\ UNCHANGED <<m_taskIsStopped, m_cv, pc>>
LoopTestWaitsAgain(l) == /\ LambdaStep(l, "loopTest", IF m_stop THEN "enter" ELSE "task")
                         /\ UNCHANGED <<m_taskIsStopped, m_cv, pc>>

\* The condition of the loop, evaluated without the mutex.
LoopTest(l) == /\ LambdaStep(l, "loopTest", IF m_stop THEN "setStopped" ELSE "task")
               /\ UNCHANGED <<m_taskIsStopped, m_cv, pc>>

\* task() returns repeatTask or stopTask, or throws: the future then holds the
\* exception and the rest of the lambda is not executed.
TaskReturns(l) == /\ \E next \in {"enter", "setStopped", "threw"} :
                         LambdaStep(l, "task", next)
                  /\ UNCHANGED <<m_taskIsStopped, m_cv, pc>>

\* m_taskIsStopped = true, without the mutex.
SetStopped(l) == /\ LambdaStep(l, "setStopped", "notify")
                 /\ m_taskIsStopped' = TRUE
                 /\ UNCHANGED <<m_cv, pc>>

\* notify_one, without the mutex: wakes one blocked thread if there is one.
Notify(l) == /\ lambda[l] = "notify"
             /\ \/ /\ m_cv = {}
                   /\ lambda' = [lambda EXCEPT ![l] = "done"]
                   /\ UNCHANGED <<m_cv, pc>>
                \/ \E t \in m_cv :
                      /\ m_cv' = m_cv \ {t}
                      /\ lambda' = [WokenLambdas({t}) EXCEPT ![l] = "done"]
                      /\ pc' = WokenClients({t})
             /\ UNCHANGED <<m_stop, m_taskIsStopped, m_futureTaskResult, m_mutex,
                            starts, alive>>
-----------------------------------------------------------------------------
JoinSteps(c) == JoinTest(c) \/ JoinLock(c) \/ JoinPredicate(c) \/ JoinBlock(c)
LambdaSteps(l) == \/ Begin(l) \/ Enter(l) \/ EndWait(l) \/ TimedOut(l)
                  \/ LoopTest(l) \/ TaskReturns(l) \/ SetStopped(l) \/ Notify(l)

Next == \/ Start \/ StopTest \/ StopSignal \/ Destroy
        \/ \E c \in Clients : JoinCall(c) \/ JoinSteps(c) \/ SpuriousJoinWake(c)
        \/ \E l \in Lambdas : LambdaSteps(l)

Spec == Init /\ [][Next]_vars

(***************************************************************************)
(* The operating system keeps every thread running, the task returns, and  *)
(* the mutex is not denied for ever to a thread that asks for it again and *)
(* again.  Nobody is obliged to call an operation, and a spurious wake may *)
(* never happen.                                                           *)
(***************************************************************************)
Fairness == /\ SF_vars(StopSignal)
            /\ \A c \in Clients : SF_vars(JoinSteps(c))
            /\ \A l \in Lambdas : SF_vars(LambdaSteps(l))

FairSpec == Spec /\ Fairness
-----------------------------------------------------------------------------
Types == /\ m_stop \in BOOLEAN
         /\ m_taskIsStopped \in BOOLEAN
         /\ m_futureTaskResult \in Lambdas \cup {None}
         /\ m_mutex \in Clients \cup {None}
         /\ m_cv \subseteq Clients \cup Lambdas
         /\ lambda \in [Lambdas -> LambdaStates]
         /\ pc \in [Clients -> ClientStates]
         /\ starts \in 0 .. MaxStarts
         /\ alive \in BOOLEAN

\* A thread on the condition variable is where wait() or wait_until() blocks.
Blocked == /\ \A l \in Lambdas : l \in m_cv => lambda[l] = "waiting"
           /\ \A c \in Clients : c \in m_cv => pc[c] = "blocked"

\* One client at a time is between the lock and the wait of join(): it holds the
\* mutex.
Exclusive == \A c \in Clients : pc[c] \in Locked <=> m_mutex = c

\* Every variable has its type, a blocked thread waits, and the mutex excludes
\* whatever the lambdas and the other clients do meanwhile.  So the notification
\* of stop() never falls between the predicate and the wait of join(); that of a
\* lambda, which does not lock, may (lines 38-63, 83-84).
TypeOK == Types /\ Blocked /\ Exclusive

\* Two runs of the task never overlap, and none goes on while isStopped() says
\* that the task is stopped, although a new start() may come while the lambda
\* of the previous one is still on its way out (lines 67-84).
OneTaskAtATime ==
    \A l \in Lambdas : lambda[l] \in Active =>
        /\ ~m_taskIsStopped
        /\ \A k \in Lambdas : lambda[k] \in Active => k = l

\* Once stop() has returned to the owner the task is not running, and what its
\* captures refer to may be released (lines 38-56).
QuietAfterStop ==
    m_stop /\ pc[Owner] = "idle" => \A l \in Lambdas : lambda[l] # "task"

\* The clients see a life cycle (TaskLifecycle): one run at a time, each begun
\* while the task was started and no stop was requested (lines 38-85).
Life == INSTANCE TaskLifecycle WITH
            running <- ~m_taskIsStopped,
            stopRequested <- m_stop,
            busy <- \E l \in Lambdas : lambda[l] = "task"
ImplementsLifecycle == Life!LifeSpec

\* A lambda that is running after stop() leaves its loop, even if every
\* notification is missed: the wait has a timeout (lines 68-80).
LoopEndsAfterStop == m_stop ~> \A l \in Lambdas : lambda[l] \notin Looping

\* "Stops the task as soon as possible" (PeriodicTask.hpp:28): once the latest
\* lambda can no longer run, isStopped() says so and join() can return.
EndedTaskIsStopped == \A l \in Lambdas :
    lambda[l] \in {"skipped", "threw", "notify", "done"} => m_taskIsStopped \/ l < starts

\* "Blocks until the given task returns false or stop() is called"
\* (PeriodicTask.hpp:33): a call of join() does not outlast the task.
JoinReturns == \A c \in Clients :
    (pc[c] \in Joining /\ m_taskIsStopped) ~> (pc[c] \notin Joining \/ ~m_taskIsStopped)

\* The object outlives the lambdas that use its members: the destructor calls
\* stop() for that (PeriodicTask.cpp:30-36).
LambdasEndBeforeObject ==
    ~alive => \A l \in Lambdas : lambda[l] \notin Active \cup {"notify"}
=============================================================================
