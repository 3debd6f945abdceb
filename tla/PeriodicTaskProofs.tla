------------------------- MODULE PeriodicTaskProofs -------------------------
(***************************************************************************)
(* Proofs about PeriodicTask, for any joiners and any number of starts.    *)
(***************************************************************************)
EXTENDS PeriodicTask, TLAPS

\* While the task runs after m_stop was set, the owner is still inside stop().
OwnerInv == \A l \in Lambdas : m_stop /\ lambda[l] = "task" => pc[Owner] \in Joining

\* The inductive invariant: a blocked lambda is an active one, so a wake never
\* revives a lambda that has ended, and join() lets the owner go only when no
\* lambda is active.
IInv == Types /\ OneTaskAtATime /\ Blocked /\ Exclusive /\ OwnerInv

LEMMA ClientsLambdasDisjoint == Clients \cap Lambdas = {}
BY ClientAssumption, StartsAssumption DEF Clients, Lambdas

LEMMA StateNames ==
    /\ Active \subseteq LambdaStates /\ Joining \subseteq ClientStates
    /\ {"none", "notify", "skipped", "threw", "done"} \subseteq LambdaStates
    /\ {"idle", "stopLock", "destroyed"} \subseteq ClientStates
    /\ {"queued", "enter", "waiting", "timedOut", "loopTest", "task", "setStopped"} \subseteq Active
    /\ {"joinTest", "joinLock", "predicate", "block", "blocked"} \subseteq Joining
    /\ \A s \in {"none", "notify", "skipped", "threw", "done"} : s \notin Active
    /\ \A s \in {"idle", "stopLock", "destroyed"} : s \notin Joining
BY DEF Active, Looping, LambdaStates, Joining, Locked, ClientStates

LEMMA InitIInv == Init => IInv
<1> SUFFICES ASSUME Init PROVE IInv
    OBVIOUS
<1>1. Owner \in Clients
    BY DEF Clients
<1>2. Types
    <2>1. 0 \in 0 .. MaxStarts
        BY StartsAssumption
    <2> QED
        BY <2>1, StateNames DEF Init, Types
<1>3. \A l \in Lambdas : lambda[l] = "none"
    BY DEF Init
<1>4. OneTaskAtATime
    BY <1>3, StateNames DEF OneTaskAtATime
<1>5. Blocked /\ OwnerInv
    BY <1>3 DEF Init, Blocked, OwnerInv
<1>6. Exclusive
    BY ClientAssumption DEF Init, Exclusive, Clients, Locked
<1> QED
    BY <1>2, <1>4, <1>5, <1>6 DEF IInv

\* Waking blocked threads moves lambdas from "waiting" to "enter" and clients
\* from "blocked" to "joinLock", and nothing else.
LEMMA Woken ==
    ASSUME IInv, NEW W, W \subseteq m_cv
    PROVE  /\ WokenLambdas(W) \in [Lambdas -> LambdaStates]
           /\ WokenClients(W) \in [Clients -> ClientStates]
           /\ \A l \in Lambdas : WokenLambdas(W)[l] = IF l \in W THEN "enter" ELSE lambda[l]
           /\ \A c \in Clients : WokenClients(W)[c] = IF c \in W THEN "joinLock" ELSE pc[c]
           /\ \A l \in Lambdas : WokenLambdas(W)[l] \in Active <=> lambda[l] \in Active
           /\ \A l \in Lambdas : WokenLambdas(W)[l] = "task" <=> lambda[l] = "task"
           /\ \A c \in Clients : WokenClients(W)[c] \in Joining <=> pc[c] \in Joining
           /\ \A c \in Clients : WokenClients(W)[c] \in Locked <=> pc[c] \in Locked
<1> USE StateNames DEF IInv, Types, Blocked, WokenLambdas, WokenClients
<1>1. /\ WokenLambdas(W) \in [Lambdas -> LambdaStates]
      /\ \A l \in Lambdas : WokenLambdas(W)[l] = IF l \in W THEN "enter" ELSE lambda[l]
      /\ \A l \in Lambdas : WokenLambdas(W)[l] \in Active <=> lambda[l] \in Active
      /\ \A l \in Lambdas : WokenLambdas(W)[l] = "task" <=> lambda[l] = "task"
    OBVIOUS
<1>2. /\ WokenClients(W) \in [Clients -> ClientStates]
      /\ \A c \in Clients : WokenClients(W)[c] = IF c \in W THEN "joinLock" ELSE pc[c]
      /\ \A c \in Clients : WokenClients(W)[c] \in Joining <=> pc[c] \in Joining
    OBVIOUS
<1>3. \A c \in Clients : WokenClients(W)[c] \in Locked <=> pc[c] \in Locked
    BY DEF Locked
<1> QED
    BY <1>1, <1>2, <1>3
-----------------------------------------------------------------------------
\* The steps that change m_cv and lambda are split by who takes them.
LEMMA TypeStep ==
    ASSUME IInv, Next PROVE Types'
<1> USE StateNames DEF IInv, Types
<1>1. CASE Start
    <2>1. starts' \in 0 .. MaxStarts /\ starts' \in Lambdas
        BY <1>1, StartsAssumption DEF Start, Lambdas
    <2> QED
        BY <1>1, <2>1 DEF Start
<1>2. CASE StopTest
    BY <1>2 DEF StopTest
<1>3. CASE StopSignal
    BY <1>3, Woken DEF StopSignal
<1>4. CASE Destroy
    BY <1>4 DEF Destroy
<1>5. ASSUME NEW c \in Clients, JoinCall(c) \/ JoinSteps(c) \/ SpuriousJoinWake(c)
      PROVE Types'
    BY <1>5 DEF JoinCall, JoinSteps, JoinTest, JoinLock, JoinPredicate, JoinBlock,
                SpuriousJoinWake
<1>6. ASSUME NEW l \in Lambdas, LambdaSteps(l), ~Notify(l)
      PROVE Types'
    <2> USE DEF LambdaStep
    <2>1. CASE Begin(l)
        <3>1. CASE m_futureTaskResult = l
            BY <2>1, <3>1 DEF Begin
        <3>2. CASE m_futureTaskResult # l
            BY <2>1, <3>2 DEF Begin
        <3> QED
            BY <3>1, <3>2
    <2>2. CASE Enter(l)
        BY <2>2 DEF Enter
    <2>3. CASE EndWait(l)
        BY <2>3 DEF EndWait
    <2>4. CASE TimedOut(l) \/ LoopTest(l) \/ SetStopped(l)
        BY <2>4 DEF TimedOut, LoopTest, SetStopped
    <2>5. CASE TaskReturns(l)
        BY <2>5 DEF TaskReturns
    <2> QED
        BY <1>6, <2>1, <2>2, <2>3, <2>4, <2>5 DEF LambdaSteps
<1>7. ASSUME NEW l \in Lambdas, Notify(l)
      PROVE Types'
    <2>1. CASE m_cv = {} /\ lambda' = [lambda EXCEPT ![l] = "done"] /\ UNCHANGED <<m_cv, pc>>
        BY <1>7, <2>1 DEF Notify
    <2>2. ASSUME NEW t \in m_cv, m_cv' = m_cv \ {t},
                 lambda' = [WokenLambdas({t}) EXCEPT ![l] = "done"],
                 pc' = WokenClients({t})
          PROVE Types'
        <3>1. {t} \subseteq m_cv
            OBVIOUS
        <3>2. WokenLambdas({t}) \in [Lambdas -> LambdaStates]
              /\ WokenClients({t}) \in [Clients -> ClientStates]
            BY <3>1, Woken
        <3> QED
            BY <1>7, <2>2, <3>2 DEF Notify
    <2> QED
        BY <1>7, <2>1, <2>2 DEF Notify
<1> QED
    BY <1>1, <1>2, <1>3, <1>4, <1>5, <1>6, <1>7 DEF Next, LambdaSteps

LEMMA BlockedStep ==
    ASSUME IInv, Next PROVE Blocked'
<1> USE ClientsLambdasDisjoint DEF IInv, Types, Blocked
<1>1. CASE Start
    <2>1. starts' \in Lambdas /\ starts' \notin m_cv
        <3>1. starts' \in Lambdas
            BY <1>1, StartsAssumption DEF Start, Lambdas
        <3>2. \A l \in Lambdas : l \notin m_cv
            BY <1>1, StateNames DEF Start, OneTaskAtATime
        <3> QED
            BY <3>1, <3>2
    <2> QED
        BY <1>1, <2>1 DEF Start
<1>2. CASE StopTest
    BY <1>2 DEF StopTest
<1>3. CASE StopSignal
    BY <1>3 DEF StopSignal
<1>4. CASE Destroy
    <2>1. \A c \in Clients : c \notin m_cv
        BY <1>4 DEF Destroy, Clients
    <2> QED
        BY <1>4, <2>1 DEF Destroy
<1>5. ASSUME NEW c \in Clients, JoinCall(c) \/ JoinSteps(c) \/ SpuriousJoinWake(c)
      PROVE Blocked'
    BY <1>5 DEF JoinCall, JoinSteps, JoinTest, JoinLock, JoinPredicate, JoinBlock,
                SpuriousJoinWake
<1>6. ASSUME NEW l \in Lambdas, LambdaSteps(l), ~Notify(l)
      PROVE Blocked'
    <2> USE DEF LambdaStep
    <2>1. CASE Begin(l) \/ TimedOut(l) \/ LoopTest(l) \/ TaskReturns(l) \/ SetStopped(l)
        BY <1>6, <2>1 DEF Begin, TimedOut, LoopTest, TaskReturns, SetStopped
    <2>2. CASE Enter(l)
        BY <1>6, <2>2 DEF Enter
    <2>3. CASE EndWait(l)
        BY <1>6, <2>3 DEF EndWait
    <2> QED
        BY <1>6, <2>1, <2>2, <2>3 DEF LambdaSteps
<1>7. ASSUME NEW l \in Lambdas, Notify(l)
      PROVE Blocked'
    <2>1. CASE m_cv = {} /\ lambda' = [lambda EXCEPT ![l] = "done"] /\ UNCHANGED <<m_cv, pc>>
        BY <2>1
    <2>2. ASSUME NEW t \in m_cv, m_cv' = m_cv \ {t},
                 lambda' = [WokenLambdas({t}) EXCEPT ![l] = "done"],
                 pc' = WokenClients({t})
          PROVE Blocked'
        <3>1. l \notin m_cv
            BY <1>7 DEF Notify
        <3> QED
            BY <2>2, <3>1 DEF WokenLambdas, WokenClients
    <2> QED
        BY <1>7, <2>1, <2>2 DEF Notify
<1> QED
    BY <1>1, <1>2, <1>3, <1>4, <1>5, <1>6, <1>7 DEF Next, LambdaSteps

\* A client takes the mutex only when nobody has it, and keeps it until it leaves
\* join() or blocks.
LEMMA ExclusiveStep ==
    ASSUME IInv, Next PROVE Exclusive'
<1> USE DEF IInv, Types, Exclusive
<1>c. None \notin Clients /\ Owner \in Clients
    BY ClientAssumption DEF Clients
<1>1. CASE Start
    BY <1>1 DEF Start
<1>2. CASE StopTest
    BY <1>2, <1>c DEF StopTest, Locked
<1>3. CASE StopSignal
    <2>1. /\ WokenClients(m_cv) \in [Clients -> ClientStates]
          /\ \A c \in Clients : WokenClients(m_cv)[c] \in Locked <=> pc[c] \in Locked
        BY Woken
    <2>2. \A c \in Clients : pc[c] \notin Locked
        BY <1>3, <1>c DEF StopSignal
    <2> QED
        BY <1>3, <1>c, <2>1, <2>2 DEF StopSignal, Locked
<1>4. CASE Destroy
    <2>1. \A c \in Clients : pc[c] = "idle"
        BY <1>4 DEF Destroy, Clients
    <2> QED
        BY <1>4, <2>1 DEF Destroy, Locked
<1>5. ASSUME NEW c \in Clients, JoinCall(c) \/ JoinSteps(c) \/ SpuriousJoinWake(c)
      PROVE Exclusive'
    <2>1. CASE JoinCall(c) \/ JoinTest(c)
        BY <1>c, <2>1 DEF JoinCall, JoinTest, Locked
    <2>2. CASE JoinLock(c)
        BY <1>c, <2>2 DEF JoinLock, Locked
    <2>3. CASE JoinPredicate(c)
        BY <1>c, <2>3 DEF JoinPredicate, Locked
    <2>4. CASE JoinBlock(c)
        BY <1>c, <2>4 DEF JoinBlock, Locked
    <2>5. CASE SpuriousJoinWake(c)
        BY <1>c, <2>5 DEF SpuriousJoinWake, Blocked, Locked
    <2> QED
        BY <1>5, <2>1, <2>2, <2>3, <2>4, <2>5 DEF JoinSteps
<1>6. ASSUME NEW l \in Lambdas, LambdaSteps(l), ~Notify(l)
      PROVE Exclusive'
    <2>1. m_mutex' = m_mutex /\ pc' = pc
        BY <1>6 DEF LambdaSteps, LambdaStep, Begin, Enter, EndWait, TimedOut, LoopTest,
                    TaskReturns, SetStopped
    <2> QED
        BY <2>1
<1>7. ASSUME NEW l \in Lambdas, Notify(l)
      PROVE Exclusive'
    <2>1. m_mutex' = m_mutex
        BY <1>7 DEF Notify
    <2>2. CASE pc' = pc
        BY <2>1, <2>2
    <2>3. ASSUME NEW t \in m_cv, pc' = WokenClients({t})
          PROVE Exclusive'
        <3>1. {t} \subseteq m_cv
            OBVIOUS
        <3>2. \A c \in Clients : WokenClients({t})[c] \in Locked <=> pc[c] \in Locked
            BY <3>1, Woken
        <3> QED
            BY <2>1, <2>3, <3>2
    <2> QED
        BY <1>7, <2>2, <2>3 DEF Notify
<1> QED
    BY <1>1, <1>2, <1>3, <1>4, <1>5, <1>6, <1>7 DEF Next, LambdaSteps

\* How a step moves one lambda: the only facts the two remaining invariants
\* need about the steps that are neither start() nor stop()'s critical section.
LEMMA ActiveStep ==
    ASSUME IInv, Next, ~Start
    PROVE  /\ \A l \in Lambdas : lambda'[l] \in Active => lambda[l] \in Active
           /\ m_taskIsStopped' # m_taskIsStopped =>
                 \E l \in Lambdas : lambda[l] = "setStopped" /\ lambda'[l] \notin Active
<1> USE StateNames DEF IInv, Types
<1>1. CASE StopTest \/ Destroy
    BY <1>1 DEF StopTest, Destroy
<1>2. CASE StopSignal
    BY <1>2, Woken DEF StopSignal
<1>3. ASSUME NEW c \in Clients, JoinCall(c) \/ JoinSteps(c) \/ SpuriousJoinWake(c)
      PROVE lambda' = lambda /\ m_taskIsStopped' = m_taskIsStopped
    BY <1>3 DEF JoinCall, JoinSteps, JoinTest, JoinLock, JoinPredicate, JoinBlock,
                SpuriousJoinWake
<1>4. ASSUME NEW l \in Lambdas, LambdaSteps(l), ~Notify(l), ~SetStopped(l)
      PROVE /\ \A k \in Lambdas : lambda'[k] \in Active => lambda[k] \in Active
            /\ m_taskIsStopped' = m_taskIsStopped
    <2>1. lambda[l] \in Active /\ m_taskIsStopped' = m_taskIsStopped
        BY <1>4 DEF LambdaSteps, LambdaStep, Begin, Enter, EndWait, TimedOut, LoopTest,
                    TaskReturns
    <2>2. \A k \in Lambdas \ {l} : lambda'[k] = lambda[k]
        BY <1>4 DEF LambdaSteps, LambdaStep, Begin, Enter, EndWait, TimedOut, LoopTest,
                    TaskReturns
    <2> QED
        BY <2>1, <2>2
<1>5. ASSUME NEW l \in Lambdas, SetStopped(l)
      PROVE /\ \A k \in Lambdas : lambda'[k] \in Active => lambda[k] \in Active
            /\ lambda[l] = "setStopped" /\ lambda'[l] \notin Active
    BY <1>5 DEF SetStopped, LambdaStep
<1>6. ASSUME NEW l \in Lambdas, Notify(l)
      PROVE /\ \A k \in Lambdas : lambda'[k] \in Active => lambda[k] \in Active
            /\ m_taskIsStopped' = m_taskIsStopped
    <2>1. CASE lambda' = [lambda EXCEPT ![l] = "done"]
        BY <1>6, <2>1 DEF Notify
    <2>2. ASSUME NEW t \in m_cv, lambda' = [WokenLambdas({t}) EXCEPT ![l] = "done"]
          PROVE \A k \in Lambdas : lambda'[k] \in Active => lambda[k] \in Active
        <3>1. {t} \subseteq m_cv
            OBVIOUS
        <3>2. /\ WokenLambdas({t}) \in [Lambdas -> LambdaStates]
              /\ \A k \in Lambdas : WokenLambdas({t})[k] \in Active <=> lambda[k] \in Active
            BY <3>1, Woken
        <3> QED
            BY <2>2, <3>2
    <2> QED
        BY <1>6, <2>1, <2>2 DEF Notify
<1> QED
    BY <1>1, <1>2, <1>3, <1>4, <1>5, <1>6 DEF Next, LambdaSteps

LEMMA OneTaskStep ==
    ASSUME IInv, Next PROVE OneTaskAtATime'
<1>1. CASE Start
    <2>1. \A l \in Lambdas : lambda[l] \notin Active
        BY <1>1 DEF Start, IInv, OneTaskAtATime
    <2>2. \A l \in Lambdas : lambda'[l] \in Active => l = starts'
        BY <1>1, <2>1 DEF Start, IInv, Types
    <2> QED
        BY <1>1, <2>2 DEF Start, OneTaskAtATime
<1>2. CASE ~Start
    <2>1. \A l \in Lambdas : lambda'[l] \in Active => lambda[l] \in Active
        BY <1>2, ActiveStep
    <2>2. ASSUME NEW l \in Lambdas, lambda'[l] \in Active
          PROVE  ~m_taskIsStopped'
        <3>1. ~m_taskIsStopped /\ \A k \in Lambdas : lambda[k] \in Active => k = l
            BY <2>1, <2>2 DEF IInv, OneTaskAtATime
        <3>2. CASE m_taskIsStopped' # m_taskIsStopped
            <4>1. PICK k \in Lambdas : lambda[k] = "setStopped" /\ lambda'[k] \notin Active
                BY <1>2, <3>2, ActiveStep
            <4> QED
                BY <2>2, <3>1, <4>1, StateNames
        <3> QED
            BY <3>1, <3>2
    <2> QED
        BY <2>1, <2>2 DEF IInv, OneTaskAtATime
<1> QED
    BY <1>1, <1>2

\* A run that begins finds m_stop unset, and a client leaves join() only when
\* no lambda is active.
LEMMA OwnerStep ==
    ASSUME IInv, Next PROVE OwnerInv'
<1> SUFFICES ASSUME NEW l \in Lambdas, m_stop', lambda'[l] = "task"
             PROVE  pc'[Owner] \in Joining
    BY DEF OwnerInv
<1> USE StateNames
<1>o. Owner \in Clients
    BY DEF Clients
<1>1. CASE Start
    BY <1>1 DEF Start, IInv, Types, OneTaskAtATime, OwnerInv
<1>2. CASE StopSignal
    BY <1>2, <1>o DEF StopSignal, IInv, Types, WokenClients
<1>3. CASE StopTest \/ Destroy
    <2>1. lambda'[l] = lambda[l] /\ m_stop' = m_stop
        BY <1>3 DEF StopTest, Destroy
    <2>2. pc[Owner] \in Joining
        BY <2>1 DEF IInv, OwnerInv
    <2> QED
        BY <1>3, <2>2 DEF StopTest, Destroy
<1>4. ASSUME NEW c \in Clients, JoinCall(c) \/ JoinSteps(c) \/ SpuriousJoinWake(c)
      PROVE pc'[Owner] \in Joining
    <2>1. lambda' = lambda /\ m_stop' = m_stop
        BY <1>4 DEF JoinCall, JoinSteps, JoinTest, JoinLock, JoinPredicate, JoinBlock,
                    SpuriousJoinWake
    <2>2. pc[Owner] \in Joining /\ ~m_taskIsStopped
        BY <2>1 DEF IInv, OwnerInv, OneTaskAtATime
    <2> QED
        BY <1>4, <2>2, <1>o DEF JoinCall, JoinSteps, JoinTest, JoinLock, JoinPredicate,
            JoinBlock, SpuriousJoinWake, IInv, Types
<1>5. ASSUME NEW k \in Lambdas, LambdaSteps(k), ~Notify(k)
      PROVE pc'[Owner] \in Joining
    <2>1. pc' = pc /\ m_stop' = m_stop
        BY <1>5 DEF LambdaSteps, LambdaStep, Begin, Enter, EndWait, TimedOut, LoopTest,
                    TaskReturns, SetStopped
    <2>2. lambda[l] = "task"
        BY <1>5, <2>1 DEF LambdaSteps, LambdaStep, Begin, Enter, EndWait, TimedOut, LoopTest,
                    TaskReturns, SetStopped, IInv, Types
    <2> QED
        BY <2>1, <2>2 DEF IInv, OwnerInv
<1>6. ASSUME NEW k \in Lambdas, Notify(k)
      PROVE pc'[Owner] \in Joining
    <2>1. m_stop' = m_stop
        BY <1>6 DEF Notify
    <2>2. CASE lambda' = [lambda EXCEPT ![k] = "done"] /\ UNCHANGED <<m_cv, pc>>
        BY <2>1, <2>2 DEF IInv, Types, OwnerInv
    <2>3. ASSUME NEW t \in m_cv, lambda' = [WokenLambdas({t}) EXCEPT ![k] = "done"],
                 pc' = WokenClients({t})
          PROVE pc'[Owner] \in Joining
        <3>1. {t} \subseteq m_cv
            OBVIOUS
        <3>2. /\ WokenLambdas({t}) \in [Lambdas -> LambdaStates]
              /\ WokenLambdas({t})[l] = "task" <=> lambda[l] = "task"
              /\ WokenClients({t})[Owner] \in Joining <=> pc[Owner] \in Joining
            BY <3>1, <1>o, Woken
        <3> QED
            BY <2>1, <2>3, <3>2 DEF IInv, OwnerInv
    <2> QED
        BY <1>6, <2>2, <2>3 DEF Notify
<1> QED
    BY <1>1, <1>2, <1>3, <1>4, <1>5, <1>6 DEF Next, LambdaSteps

LEMMA Inductive == IInv /\ [Next]_vars => IInv'
<1>1. CASE UNCHANGED vars
    BY <1>1 DEF vars, IInv, Types, OneTaskAtATime, Blocked, Exclusive, OwnerInv
<1> QED
    BY <1>1, TypeStep, BlockedStep, ExclusiveStep, OneTaskStep, OwnerStep DEF IInv

LEMMA Invariance == Spec => []IInv
BY InitIInv, Inductive, PTL DEF Spec
-----------------------------------------------------------------------------
\* Every variable keeps its type, a blocked thread waits and the mutex excludes,
\* whatever the clients and the lambdas do.
THEOREM TypeCorrect == Spec => []TypeOK
<1>1. IInv => TypeOK
    BY DEF IInv, TypeOK
<1> QED
    BY <1>1, Invariance, PTL

\* Runs of the task never overlap, and none is in progress while isStopped()
\* holds, for every number of start() calls.
THEOREM RunsNeverOverlap == Spec => []OneTaskAtATime
<1>1. IInv => OneTaskAtATime
    BY DEF IInv
<1> QED
    BY <1>1, Invariance, PTL

\* After stop() has returned to the owner, the task is not running.
THEOREM StopIsSafe == Spec => []QuietAfterStop
<1>1. IInv => QuietAfterStop
    BY StateNames DEF IInv, OwnerInv, QuietAfterStop
<1> QED
    BY <1>1, Invariance, PTL
-----------------------------------------------------------------------------
\* The value of busy in the refinement mapping.
Busy == \E l \in Lambdas : lambda[l] = "task"

\* Steps that leave the three mapped values alone, or request the stop.
LEMMA ClientRefinement ==
    ASSUME IInv, \/ StopTest \/ StopSignal \/ Destroy
                 \/ \E c \in Clients : JoinCall(c) \/ JoinSteps(c) \/ SpuriousJoinWake(c)
    PROVE  [Life!LifeNext]_(Life!life)
<1>1. m_taskIsStopped' = m_taskIsStopped /\ (m_stop' = m_stop \/ m_stop' = TRUE)
    BY DEF StopTest, StopSignal, Destroy, JoinCall, JoinSteps, JoinTest, JoinLock,
           JoinPredicate, JoinBlock, SpuriousJoinWake
<1>2. \A l \in Lambdas : lambda'[l] = "task" <=> lambda[l] = "task"
    <2>1. CASE StopSignal
        BY <2>1, Woken DEF StopSignal
    <2>2. CASE ~StopSignal
        BY <2>2 DEF StopTest, Destroy, JoinCall, JoinSteps, JoinTest, JoinLock,
                    JoinPredicate, JoinBlock, SpuriousJoinWake
    <2> QED
        BY <2>1, <2>2
<1>3. Busy' <=> Busy
    BY <1>2 DEF Busy
<1> QED
    BY <1>1, <1>3 DEF Busy, Life!LifeNext, Life!LifeStop, Life!life

LEMMA LambdaRefinement ==
    ASSUME IInv, NEW l \in Lambdas, LambdaSteps(l)
    PROVE  [Life!LifeNext]_(Life!life)
<1> USE StateNames DEF IInv, Types
<1>1. CASE Begin(l) \/ Enter(l) \/ EndWait(l) \/ TimedOut(l)
    <2>1. m_taskIsStopped' = m_taskIsStopped /\ m_stop' = m_stop
        BY <1>1 DEF Begin, Enter, EndWait, TimedOut, LambdaStep
    <2>2. \A k \in Lambdas : lambda'[k] = "task" <=> lambda[k] = "task"
        BY <1>1 DEF Begin, Enter, EndWait, TimedOut, LambdaStep
    <2>3. Busy' <=> Busy
        BY <2>2 DEF Busy
    <2> QED
        BY <2>1, <2>3 DEF Busy, Life!life
<1>2. CASE LoopTest(l)
    <2>1. m_taskIsStopped' = m_taskIsStopped /\ m_stop' = m_stop /\ ~m_taskIsStopped
        BY <1>2 DEF LoopTest, LambdaStep, OneTaskAtATime
    <2>2. ~Busy
        BY <1>2 DEF LoopTest, LambdaStep, OneTaskAtATime, Busy
    <2>3. CASE m_stop
        <3>1. \A k \in Lambdas : lambda'[k] # "task"
            BY <1>2, <2>2, <2>3 DEF LoopTest, LambdaStep, Busy
        <3>2. ~Busy'
            BY <3>1 DEF Busy
        <3> QED
            BY <2>1, <2>2, <3>2 DEF Busy, Life!life
    <2>4. CASE ~m_stop
        <3>1. lambda'[l] = "task"
            BY <1>2, <2>4 DEF LoopTest, LambdaStep
        <3>2. Busy'
            BY <3>1 DEF Busy
        <3> QED
            BY <2>1, <2>2, <2>4, <3>2 DEF Busy, Life!LifeNext, Life!BeginRun
    <2> QED
        BY <2>3, <2>4
<1>3. CASE TaskReturns(l)
    <2>1. m_taskIsStopped' = m_taskIsStopped /\ m_stop' = m_stop
        BY <1>3 DEF TaskReturns, LambdaStep
    <2>2. Busy
        BY <1>3 DEF TaskReturns, LambdaStep, Busy
    <2>3. \A k \in Lambdas : lambda'[k] # "task"
        BY <1>3 DEF TaskReturns, LambdaStep, OneTaskAtATime
    <2>4. ~Busy'
        BY <2>3 DEF Busy
    <2> QED
        BY <2>1, <2>2, <2>4 DEF Busy, Life!LifeNext, Life!EndRun
<1>4. CASE SetStopped(l)
    <2>1. ~m_taskIsStopped /\ m_taskIsStopped' /\ m_stop' = m_stop
        BY <1>4 DEF SetStopped, LambdaStep, OneTaskAtATime
    <2>2. ~Busy
        BY <1>4 DEF SetStopped, LambdaStep, OneTaskAtATime, Busy
    <2>3. \A k \in Lambdas : lambda'[k] # "task"
        BY <1>4, <2>2 DEF SetStopped, LambdaStep, Busy
    <2>4. ~Busy'
        BY <2>3 DEF Busy
    <2> QED
        BY <2>1, <2>2, <2>4 DEF Busy, Life!LifeNext, Life!Finish
<1>5. CASE Notify(l)
    <2>1. m_taskIsStopped' = m_taskIsStopped /\ m_stop' = m_stop
        BY <1>5 DEF Notify
    <2>2. \A k \in Lambdas : lambda'[k] = "task" <=> lambda[k] = "task"
        <3>1. CASE lambda' = [lambda EXCEPT ![l] = "done"]
            BY <1>5, <3>1 DEF Notify
        <3>2. ASSUME NEW t \in m_cv, lambda' = [WokenLambdas({t}) EXCEPT ![l] = "done"]
              PROVE \A k \in Lambdas : lambda'[k] = "task" <=> lambda[k] = "task"
            <4>1. {t} \subseteq m_cv
                OBVIOUS
            <4>2. /\ WokenLambdas({t}) \in [Lambdas -> LambdaStates]
                  /\ \A k \in Lambdas : WokenLambdas({t})[k] = "task" <=> lambda[k] = "task"
                BY <4>1, Woken
            <4> QED
                BY <1>5, <3>2, <4>2 DEF Notify
        <3> QED
            BY <1>5, <3>1, <3>2 DEF Notify
    <2>3. Busy' <=> Busy
        BY <2>2 DEF Busy
    <2> QED
        BY <2>1, <2>3 DEF Busy, Life!life
<1> QED
    BY <1>1, <1>2, <1>3, <1>4, <1>5 DEF LambdaSteps

\* PeriodicTask implements the life cycle its users rely on.
THEOREM Refinement == Spec => ImplementsLifecycle
<1>1. Init => Life!LifeInit
    BY DEF Init, Life!LifeInit
<1>2. IInv /\ [Next]_vars => [Life!LifeNext]_(Life!life)
    <2> SUFFICES ASSUME IInv, [Next]_vars PROVE [Life!LifeNext]_(Life!life)
        OBVIOUS
    <2>1. CASE Start
        <3>1. \A l \in Lambdas : lambda[l] # "task" /\ lambda'[l] # "task"
            BY <2>1, StateNames DEF Start, IInv, Types, OneTaskAtATime
        <3>2. ~Busy /\ ~Busy'
            BY <3>1 DEF Busy
        <3> QED
            BY <2>1, <3>2 DEF Start, Busy, Life!LifeNext, Life!LifeStart
    <2>2. CASE UNCHANGED vars
        <3>1. Busy' <=> Busy
            BY <2>2 DEF vars, Busy
        <3> QED
            BY <2>2, <3>1 DEF vars, Busy, Life!life
    <2> QED
        BY <2>1, <2>2, ClientRefinement, LambdaRefinement DEF Next
<1> QED
    BY <1>1, <1>2, Invariance, PTL DEF Spec, ImplementsLifecycle, Life!LifeSpec
=============================================================================
