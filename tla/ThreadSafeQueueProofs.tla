------------------------ MODULE ThreadSafeQueueProofs ------------------------
(***************************************************************************)
(* Proofs about ThreadSafeQueue, for any producers, consumers, values and  *)
(* number of nodes.                                                        *)
(***************************************************************************)
EXTENDS ThreadSafeQueue, TLAPS

Pushing == {"setData", "setNext", "setTail"}
Popping == {"waitTest", "waitSleep", "take", "unlink"}

PcType == /\ \A p \in Producers : pc[p] \in ProducerStates
          /\ \A c \in Consumers : pc[c] \in ConsumerStates
          /\ \A p \in Producers : pc[p] # "idle" => pushing[p] \in Values

\* Each mutex is held by the thread that is inside its critical section.
LockInv == /\ \A p \in Producers : pc[p] \in Pushing <=> m_pTailMutex = p
           /\ \A c \in Consumers : pc[c] \in Popping <=> m_pHeadMutex = c
           /\ \A c \in Consumers : c \in m_condition <=> pc[c] = "asleep"

\* From the head to the tail every node but the last has a value and is
\* followed by the next one.
ListInv == /\ m_pHead <= m_pTail
           /\ \A n \in Nodes : m_pHead <= n /\ n < m_pTail =>
                  data[n] \in Values /\ next[n] = n + 1

\* What the thread inside a critical section knows.
TailInv == \A p \in Producers :
    /\ pc[p] \in Pushing => m_pTail < MaxNodes
    /\ pc[p] \in {"setNext", "setTail"} => data[m_pTail] \in Values
    /\ pc[p] = "setTail" => next[m_pTail] = m_pTail + 1
HeadInv == \A c \in Consumers : pc[c] \in {"take", "unlink"} => m_pHead < m_pTail

IInv == TypeOK /\ PcType /\ LockInv /\ ListInv /\ TailInv /\ HeadInv

LEMMA Constants ==
    /\ MaxNodes \in Nat /\ Nodes \subseteq Nat /\ 1 \in Nodes
    /\ \A n \in Nodes : n < MaxNodes => n + 1 \in Nodes
    /\ \A n \in Nodes : n # Nothing
    /\ \A t \in Threads : t # Nothing
    /\ \A p \in Producers : p \in Threads /\ p \notin Consumers
    /\ \A c \in Consumers : c \in Threads /\ c \notin Producers
    /\ Nothing \notin Values
BY QueueAssumption, NodeAssumption DEF Nodes, Threads

LEMMA InitIInv == Init => IInv
<1> SUFFICES ASSUME Init PROVE IInv
    OBVIOUS
<1> USE Constants DEF Init
<1>1. TypeOK
    BY DEF TypeOK, ProducerStates
<1>2. PcType /\ LockInv
    BY DEF PcType, LockInv, ProducerStates, ConsumerStates, Pushing, Popping
<1>3. ListInv
    BY DEF ListInv, Nodes
<1>4. TailInv /\ HeadInv
    BY DEF TailInv, HeadInv, Pushing
<1> QED
    BY <1>1, <1>2, <1>3, <1>4 DEF IInv

\* The two ways in which the list changes.
LEMMA PopHeadType ==
    ASSUME TypeOK, ListInv, m_pHead # m_pTail, PopHead
    PROVE  /\ m_pHead' = m_pHead + 1 /\ m_pHead' \in Nodes
           /\ data' \in [Nodes -> Values \cup {Nothing}]
           /\ next' \in [Nodes -> Nodes \cup {Nothing}]
           /\ \A n \in Nodes : n # m_pHead => data'[n] = data[n] /\ next'[n] = next[n]
<1>1. next[m_pHead] = m_pHead + 1
    BY Constants DEF TypeOK, ListInv
<1>2. m_pHead + 1 \in Nodes
    BY Constants, NodeAssumption DEF TypeOK, ListInv, Nodes
<1> QED
    BY <1>1, <1>2 DEF PopHead, TypeOK
-----------------------------------------------------------------------------

LEMMA PushCallStep ==
    ASSUME IInv, NEW p \in Producers, NEW v \in Values, PushCall(p, v)
    PROVE  IInv'
<1> USE Constants DEF IInv, PushCall, Goto, ProducerStates, ConsumerStates
<1>1. TypeOK'
    BY DEF TypeOK, PcType
<1>2. PcType'
    BY DEF TypeOK, PcType
<1>3. LockInv'
    BY DEF TypeOK, PcType, LockInv, Pushing, Popping
<1>4. ListInv'
    BY DEF TypeOK, PcType, LockInv, ListInv, TailInv, Pushing
<1>5. TailInv'
    BY DEF TypeOK, PcType, LockInv, ListInv, TailInv, Pushing
<1>6. HeadInv'
    BY DEF TypeOK, PcType, LockInv, ListInv, HeadInv, Popping
<1> QED
    BY <1>1, <1>2, <1>3, <1>4, <1>5, <1>6

LEMMA PushLockStep ==
    ASSUME IInv, NEW p \in Producers, PushLock(p)
    PROVE  IInv'
<1> USE Constants DEF IInv, PushLock, Goto, ProducerStates, ConsumerStates
<1>1. TypeOK'
    BY DEF TypeOK, PcType
<1>2. PcType'
    BY DEF TypeOK, PcType
<1>3. LockInv'
    BY DEF TypeOK, PcType, LockInv, Pushing, Popping
<1>4. ListInv'
    BY DEF TypeOK, PcType, LockInv, ListInv, TailInv, Pushing
<1>5. TailInv'
    BY DEF TypeOK, PcType, LockInv, ListInv, TailInv, Pushing
<1>6. HeadInv'
    BY DEF TypeOK, PcType, LockInv, ListInv, HeadInv, Popping
<1> QED
    BY <1>1, <1>2, <1>3, <1>4, <1>5, <1>6

LEMMA SetDataStep ==
    ASSUME IInv, NEW p \in Producers, SetData(p)
    PROVE  IInv'
<1> USE Constants DEF IInv, SetData, Goto, ProducerStates, ConsumerStates
<1>1. TypeOK'
    BY DEF TypeOK, PcType
<1>2. PcType'
    BY DEF TypeOK, PcType
<1>3. LockInv'
    BY DEF TypeOK, PcType, LockInv, Pushing, Popping
<1>4. ListInv'
    BY DEF TypeOK, PcType, LockInv, ListInv, TailInv, Pushing
<1>5. TailInv'
    BY DEF TypeOK, PcType, LockInv, ListInv, TailInv, Pushing
<1>6. HeadInv'
    BY DEF TypeOK, PcType, LockInv, ListInv, HeadInv, Popping
<1> QED
    BY <1>1, <1>2, <1>3, <1>4, <1>5, <1>6

LEMMA SetNextStep ==
    ASSUME IInv, NEW p \in Producers, SetNext(p)
    PROVE  IInv'
<1> USE Constants DEF IInv, SetNext, Goto, ProducerStates, ConsumerStates
<1>1. TypeOK'
    BY DEF TypeOK, PcType, TailInv, Pushing
<1>2. PcType'
    BY DEF TypeOK, PcType
<1>3. LockInv'
    BY DEF TypeOK, PcType, LockInv, Pushing, Popping
<1>4. ListInv'
    BY DEF TypeOK, PcType, LockInv, ListInv, TailInv, Pushing
<1>5. TailInv'
    BY DEF TypeOK, PcType, LockInv, ListInv, TailInv, Pushing
<1>6. HeadInv'
    BY DEF TypeOK, PcType, LockInv, ListInv, HeadInv, Popping
<1> QED
    BY <1>1, <1>2, <1>3, <1>4, <1>5, <1>6

LEMMA SetTailStep ==
    ASSUME IInv, NEW p \in Producers, SetTail(p)
    PROVE  IInv'
<1> USE Constants DEF IInv, SetTail, Goto, ProducerStates, ConsumerStates
<1>1. TypeOK'
    BY DEF TypeOK, PcType, TailInv, Pushing
<1>2. PcType'
    BY DEF TypeOK, PcType
<1>3. LockInv'
    BY DEF TypeOK, PcType, LockInv, Pushing, Popping
<1>4. ListInv'
    BY DEF TypeOK, PcType, LockInv, ListInv, TailInv, Pushing
<1>5. TailInv'
    BY DEF TypeOK, PcType, LockInv, ListInv, TailInv, Pushing
<1>6. HeadInv'
    BY DEF TypeOK, PcType, LockInv, ListInv, HeadInv, Popping
<1> QED
    BY <1>1, <1>2, <1>3, <1>4, <1>5, <1>6

LEMMA NotifyStep ==
    ASSUME IInv, NEW p \in Producers, Notify(p)
    PROVE  IInv'
<1> USE Constants DEF IInv, Notify, Goto, ProducerStates, ConsumerStates
<1>1. TypeOK'
    BY DEF TypeOK, PcType
<1>2. PcType'
    BY DEF TypeOK, PcType
<1>3. LockInv'
    BY DEF TypeOK, PcType, LockInv, Pushing, Popping
<1>4. ListInv'
    BY DEF TypeOK, PcType, LockInv, ListInv, TailInv, Pushing
<1>5. TailInv'
    BY DEF TypeOK, PcType, LockInv, ListInv, TailInv, Pushing
<1>6. HeadInv'
    BY DEF TypeOK, PcType, LockInv, ListInv, HeadInv, Popping
<1> QED
    BY <1>1, <1>2, <1>3, <1>4, <1>5, <1>6

LEMMA TryPopStep ==
    ASSUME IInv, NEW c \in Consumers, TryPop(c)
    PROVE  IInv'
<1> USE Constants DEF IInv
<1>1. CASE m_pHead = m_pTail
    <2>1. /\ UNCHANGED <<m_pHead, m_pTail, m_pHeadMutex, m_pTailMutex, m_condition,
                          data, next, pc, pushing>>
          /\ result' = [result EXCEPT ![c] = Nothing]
        BY <1>1 DEF TryPop
    <2> QED
        BY <2>1 DEF TypeOK, PcType, LockInv, ListInv, TailInv, HeadInv
<1>2. CASE m_pHead # m_pTail
    <2>1. /\ UNCHANGED <<m_pTail, m_pHeadMutex, m_pTailMutex, m_condition, pc, pushing>>
          /\ result' = [result EXCEPT ![c] = data[m_pHead]]
          /\ PopHead
          /\ \A k \in Consumers : pc[k] \notin Popping
        BY <1>2 DEF TryPop, LockInv
    <2>2. /\ m_pHead' = m_pHead + 1 /\ m_pHead' \in Nodes
          /\ data' \in [Nodes -> Values \cup {Nothing}]
          /\ next' \in [Nodes -> Nodes \cup {Nothing}]
          /\ \A n \in Nodes : n # m_pHead => data'[n] = data[n] /\ next'[n] = next[n]
        BY <1>2, <2>1, PopHeadType
    <2>3. TypeOK' /\ PcType' /\ LockInv'
        BY <2>1, <2>2 DEF TypeOK, PcType, LockInv
    <2>4. ListInv'
        BY <1>2, <2>1, <2>2 DEF TypeOK, ListInv
    <2>5. TailInv' /\ HeadInv'
        BY <1>2, <2>1, <2>2 DEF TypeOK, TailInv, HeadInv, Popping
    <2> QED
        BY <2>3, <2>4, <2>5
<1> QED
    BY <1>1, <1>2

LEMMA WaitCallStep ==
    ASSUME IInv, NEW c \in Consumers, WaitCall(c)
    PROVE  IInv'
<1> USE Constants DEF IInv, WaitCall, Goto, ProducerStates, ConsumerStates
<1>1. TypeOK'
    BY DEF TypeOK, PcType
<1>2. PcType'
    BY DEF TypeOK, PcType
<1>3. LockInv'
    BY DEF TypeOK, PcType, LockInv, Pushing, Popping
<1>4. ListInv'
    BY DEF TypeOK, PcType, LockInv, ListInv, TailInv, Pushing
<1>5. TailInv'
    BY DEF TypeOK, PcType, LockInv, ListInv, TailInv, Pushing
<1>6. HeadInv'
    BY DEF TypeOK, PcType, LockInv, ListInv, HeadInv, Popping
<1> QED
    BY <1>1, <1>2, <1>3, <1>4, <1>5, <1>6

LEMMA WaitLockStep ==
    ASSUME IInv, NEW c \in Consumers, WaitLock(c)
    PROVE  IInv'
<1> USE Constants DEF IInv, WaitLock, Goto, ProducerStates, ConsumerStates
<1>1. TypeOK'
    BY DEF TypeOK, PcType
<1>2. PcType'
    BY DEF TypeOK, PcType
<1>3. LockInv'
    BY DEF TypeOK, PcType, LockInv, Pushing, Popping
<1>4. ListInv'
    BY DEF TypeOK, PcType, LockInv, ListInv, TailInv, Pushing
<1>5. TailInv'
    BY DEF TypeOK, PcType, LockInv, ListInv, TailInv, Pushing
<1>6. HeadInv'
    BY DEF TypeOK, PcType, LockInv, ListInv, HeadInv, Popping
<1> QED
    BY <1>1, <1>2, <1>3, <1>4, <1>5, <1>6

LEMMA WaitTestStep ==
    ASSUME IInv, NEW c \in Consumers, WaitTest(c)
    PROVE  IInv'
<1> USE Constants DEF IInv, WaitTest, Goto, ProducerStates, ConsumerStates
<1>1. TypeOK'
    BY DEF TypeOK, PcType
<1>2. PcType'
    BY DEF TypeOK, PcType
<1>3. LockInv'
    BY DEF TypeOK, PcType, LockInv, Pushing, Popping
<1>4. ListInv'
    BY DEF TypeOK, PcType, LockInv, ListInv, TailInv, Pushing
<1>5. TailInv'
    BY DEF TypeOK, PcType, LockInv, ListInv, TailInv, Pushing
<1>6. HeadInv'
    BY DEF TypeOK, PcType, LockInv, ListInv, HeadInv, Popping
<1> QED
    BY <1>1, <1>2, <1>3, <1>4, <1>5, <1>6

LEMMA WaitSleepStep ==
    ASSUME IInv, NEW c \in Consumers, WaitSleep(c)
    PROVE  IInv'
<1> USE Constants DEF IInv, WaitSleep, Goto, ProducerStates, ConsumerStates
<1>1. TypeOK'
    BY DEF TypeOK, PcType
<1>2. PcType'
    BY DEF TypeOK, PcType
<1>3. LockInv'
    BY DEF TypeOK, PcType, LockInv, Pushing, Popping
<1>4. ListInv'
    BY DEF TypeOK, PcType, LockInv, ListInv, TailInv, Pushing
<1>5. TailInv'
    BY DEF TypeOK, PcType, LockInv, ListInv, TailInv, Pushing
<1>6. HeadInv'
    BY DEF TypeOK, PcType, LockInv, ListInv, HeadInv, Popping
<1> QED
    BY <1>1, <1>2, <1>3, <1>4, <1>5, <1>6

LEMMA SpuriousWakeStep ==
    ASSUME IInv, NEW c \in Consumers, SpuriousWake(c)
    PROVE  IInv'
<1> USE Constants DEF IInv, SpuriousWake, Goto, ProducerStates, ConsumerStates
<1>1. TypeOK'
    BY DEF TypeOK, PcType
<1>2. PcType'
    BY DEF TypeOK, PcType
<1>3. LockInv'
    BY DEF TypeOK, PcType, LockInv, Pushing, Popping
<1>4. ListInv'
    BY DEF TypeOK, PcType, LockInv, ListInv, TailInv, Pushing
<1>5. TailInv'
    BY DEF TypeOK, PcType, LockInv, ListInv, TailInv, Pushing
<1>6. HeadInv'
    BY DEF TypeOK, PcType, LockInv, ListInv, HeadInv, Popping
<1> QED
    BY <1>1, <1>2, <1>3, <1>4, <1>5, <1>6

LEMMA TakeStep ==
    ASSUME IInv, NEW c \in Consumers, Take(c)
    PROVE  IInv'
<1> USE Constants DEF IInv, Take, Goto, ProducerStates, ConsumerStates
<1>1. TypeOK'
    BY DEF TypeOK, PcType
<1>2. PcType'
    BY DEF TypeOK, PcType
<1>3. LockInv'
    BY DEF TypeOK, PcType, LockInv, Pushing, Popping
<1>4. ListInv'
    BY DEF TypeOK, PcType, LockInv, ListInv, TailInv, Pushing
<1>5. TailInv'
    BY DEF TypeOK, PcType, LockInv, ListInv, TailInv, Pushing
<1>6. HeadInv'
    BY DEF TypeOK, PcType, LockInv, ListInv, HeadInv, Popping
<1> QED
    BY <1>1, <1>2, <1>3, <1>4, <1>5, <1>6

LEMMA UnlinkStep ==
    ASSUME IInv, NEW c \in Consumers, Unlink(c)
    PROVE  IInv'
<1> USE Constants DEF IInv
<1>1. /\ UNCHANGED <<m_pTail, m_pTailMutex, m_condition, pushing, result>>
      /\ pc[c] = "unlink" /\ pc' = [pc EXCEPT ![c] = "idle"]
      /\ m_pHeadMutex = c /\ m_pHeadMutex' = Nothing
      /\ m_pHead # m_pTail /\ PopHead
    BY DEF Unlink, Goto, TypeOK, LockInv, HeadInv, Popping
<1>2. /\ m_pHead' = m_pHead + 1 /\ m_pHead' \in Nodes
      /\ data' \in [Nodes -> Values \cup {Nothing}]
      /\ next' \in [Nodes -> Nodes \cup {Nothing}]
      /\ \A n \in Nodes : n # m_pHead => data'[n] = data[n] /\ next'[n] = next[n]
    BY <1>1, PopHeadType
<1>3. TypeOK' /\ PcType'
    BY <1>1, <1>2 DEF TypeOK, PcType, ConsumerStates
<1>4. LockInv'
    BY <1>1 DEF TypeOK, LockInv, Pushing, Popping
<1>5. ListInv'
    BY <1>1, <1>2 DEF TypeOK, ListInv
<1>6. TailInv'
    BY <1>1, <1>2 DEF TypeOK, TailInv
<1>7. HeadInv'
    BY <1>1 DEF TypeOK, LockInv, HeadInv, Popping
<1> QED
    BY <1>3, <1>4, <1>5, <1>6, <1>7

LEMMA Inductive == IInv /\ [Next]_vars => IInv'
<1>1. CASE UNCHANGED vars
    BY <1>1 DEF vars, IInv, TypeOK, PcType, LockInv, ListInv, TailInv, HeadInv
<1>2. ASSUME IInv, NEW p \in Producers, PushSteps(p) \/ \E v \in Values : PushCall(p, v)
      PROVE IInv'
    BY <1>2, PushCallStep, PushLockStep, SetDataStep, SetNextStep, SetTailStep,
       NotifyStep DEF PushSteps
<1>3. ASSUME IInv, NEW c \in Consumers,
             TryPop(c) \/ WaitCall(c) \/ PopSteps(c) \/ SpuriousWake(c)
      PROVE IInv'
    BY <1>3, TryPopStep, WaitCallStep, WaitLockStep, WaitTestStep, WaitSleepStep,
       SpuriousWakeStep, TakeStep, UnlinkStep DEF PopSteps
<1> QED
    BY <1>1, <1>2, <1>3 DEF Next

LEMMA Invariance == Spec => []IInv
BY InitIInv, Inductive, PTL DEF Spec
-----------------------------------------------------------------------------
\* Every variable keeps its type.
THEOREM TypeCorrect == Spec => []TypeOK
<1>1. IInv => TypeOK
    BY DEF IInv
<1> QED
    BY <1>1, Invariance, PTL

\* waitPop() reads a complete node with the lock of the head alone: the two
\* locks are enough for any number of producers and consumers.
THEOREM HeadLockSuffices == Spec => []HeadNodeIsComplete
<1>1. IInv => HeadNodeIsComplete
    <2> SUFFICES ASSUME IInv, NEW c \in Consumers, pc[c] \in {"take", "unlink"}
                 PROVE  m_pHead # m_pTail /\ data[m_pHead] # Nothing /\ next[m_pHead] # Nothing
        BY DEF HeadNodeIsComplete
    <2>1. m_pHead \in Nodes /\ m_pTail \in Nodes /\ m_pHead < m_pTail
        BY DEF IInv, TypeOK, HeadInv
    <2>2. data[m_pHead] \in Values /\ next[m_pHead] = m_pHead + 1
        BY <2>1, Constants DEF IInv, ListInv
    <2>3. m_pHead + 1 \in Nodes
        BY <2>1, NodeAssumption DEF Nodes
    <2> QED
        BY <2>1, <2>2, <2>3, Constants
<1> QED
    BY <1>1, Invariance, PTL
-----------------------------------------------------------------------------
\* The contents of the queue, as positions of the list.
Shape == /\ First \in Nat \ {0} /\ First <= m_pTail /\ m_pTail \in Nat
         /\ First = m_pHead \/ First = m_pHead + 1
         /\ Contents \in Seq(Values)
         /\ Len(Contents) = m_pTail - First
         /\ \A i \in 1 .. m_pTail - First : Contents[i] = data[First + i - 1]

LEMMA ContentsShape == IInv => Shape
<1> SUFFICES ASSUME IInv PROVE Shape
    OBVIOUS
<1>1. /\ m_pHead \in Nodes /\ m_pTail \in Nodes /\ m_pHead <= m_pTail
    BY DEF IInv, TypeOK, ListInv
<1>2. First \in Nat \ {0} /\ m_pTail \in Nat /\ (First = m_pHead \/ First = m_pHead + 1)
    BY <1>1, NodeAssumption DEF First, Nodes
<1>3. First <= m_pTail
    BY <1>1, NodeAssumption DEF IInv, HeadInv, First, Nodes
<1>4. \A i \in 1 .. m_pTail - First : data[First + i - 1] \in Values
    <2> TAKE i \in 1 .. m_pTail - First
    <2>1. First + i - 1 \in Nodes /\ m_pHead <= First + i - 1 /\ First + i - 1 < m_pTail
        BY <1>1, <1>2, <1>3, NodeAssumption DEF Nodes
    <2> QED
        BY <2>1 DEF IInv, ListInv
<1>5. m_pTail - First \in Nat
    BY <1>2, <1>3
<1>6. Contents \in Seq(Values) /\ Len(Contents) = m_pTail - First
    BY <1>4, <1>5 DEF Contents
<1> QED
    BY <1>2, <1>3, <1>6 DEF Contents, Shape

\* The same in the next state.
LEMMA ContentsShapeNext == IInv' => Shape'
BY ContentsShape, PTL

\* Two sequences with the same length and the same elements are equal.
LEMMA SameContents ==
    ASSUME First' = First, m_pTail' = m_pTail, First \in Nat, m_pTail \in Nat,
           \A n \in Nat : First <= n /\ n < m_pTail => data'[n] = data[n]
    PROVE  Contents' = Contents
<1>1. \A i \in 1 .. m_pTail - First : data'[First + i - 1] = data[First + i - 1]
    <2> TAKE i \in 1 .. m_pTail - First
    <2>1. First + i - 1 \in Nat /\ First <= First + i - 1 /\ First + i - 1 < m_pTail
        OBVIOUS
    <2> QED
        BY <2>1
<1> QED
    BY <1>1 DEF Contents

\* Removing the oldest value, when the position of the first one advances.
LEMMA PoppedContents ==
    ASSUME IInv, IInv', First' = First + 1, m_pTail' = m_pTail,
           \A n \in Nat : First < n /\ n < m_pTail => data'[n] = data[n]
    PROVE  Contents # <<>> /\ Head(Contents) = data[First] /\ Contents' = Tail(Contents)
<1> DEFINE f == First
           t == m_pTail
<1>1. /\ f \in Nat \ {0} /\ t \in Nat /\ f + 1 <= t
      /\ Contents \in Seq(Values) /\ Len(Contents) = t - f
      /\ \A i \in 1 .. t - f : Contents[i] = data[f + i - 1]
    BY ContentsShape, ContentsShapeNext DEF Shape
<1>2. /\ Contents' \in Seq(Values) /\ Len(Contents') = t - (f + 1)
      /\ \A i \in 1 .. t - (f + 1) : Contents'[i] = data'[(f + 1) + i - 1]
    BY ContentsShapeNext DEF Shape
<1> HIDE DEF f, t
<1>3. Contents # <<>> /\ Head(Contents) = data[f]
    BY <1>1
<1>4. \A i \in 1 .. t - (f + 1) : Contents'[i] = Contents[i + 1]
    <2> TAKE i \in 1 .. t - (f + 1)
    <2>1. i + 1 \in 1 .. t - f /\ f + i \in Nat /\ f < f + i /\ f + i < t
        BY <1>1
    <2>2. data'[f + i] = data[f + i]
        BY <2>1 DEF f, t
    <2>3. (f + 1) + i - 1 = f + i /\ f + (i + 1) - 1 = f + i
        BY <1>1
    <2> QED
        BY <1>1, <1>2, <2>1, <2>2, <2>3
<1>5. Contents' = Tail(Contents)
    BY <1>1, <1>2, <1>3, <1>4
<1> QED
    BY <1>3, <1>5 DEF f

\* At most one consumer is about to unlink, with the lock of the head.
LEMMA FirstValue ==
    ASSUME IInv
    PROVE  /\ \A c \in Consumers : pc[c] = "unlink" => First = m_pHead + 1
           /\ \A c \in Consumers : pc[c] = "take" => First = m_pHead
           /\ m_pHeadMutex = Nothing => First = m_pHead
BY Constants DEF IInv, LockInv, Popping, First

\* The steps of push() before the new tail is visible, and the steps of
\* waitPop() before the value is moved out, do not change the contents.
LEMMA Stutter ==
    ASSUME IInv, IInv',
           \/ \E p \in Producers : \/ PushLock(p) \/ SetData(p) \/ SetNext(p) \/ Notify(p)
                                   \/ \E v \in Values : PushCall(p, v)
           \/ \E c \in Consumers : \/ WaitCall(c) \/ WaitLock(c) \/ WaitTest(c)
                                   \/ WaitSleep(c) \/ SpuriousWake(c)
    PROVE  UNCHANGED <<Contents, result>>
<1>1. m_pTail' = m_pTail /\ m_pHead' = m_pHead /\ result' = result
    BY DEF PushLock, SetData, SetNext, Notify, PushCall, WaitCall, WaitLock, WaitTest,
           WaitSleep, SpuriousWake
<1>2. \A c \in Consumers : pc'[c] = "unlink" <=> pc[c] = "unlink"
    BY Constants DEF PushLock, SetData, SetNext, Notify, PushCall, WaitCall, WaitLock,
           WaitTest, WaitSleep, SpuriousWake, Goto, IInv, TypeOK, LockInv
<1>3. First' = First
    BY <1>1, <1>2 DEF First
<1>4. \A n \in Nat : First <= n /\ n < m_pTail => data'[n] = data[n]
    <2>1. data' = data \/ data' = [data EXCEPT ![m_pTail] = data'[m_pTail]]
        BY DEF PushLock, SetData, SetNext, Notify, PushCall, WaitCall, WaitLock, WaitTest,
               WaitSleep, SpuriousWake, IInv, TypeOK
    <2>2. \A n \in Nat : First <= n /\ n < m_pTail => n \in Nodes /\ n # m_pTail
        BY ContentsShape, NodeAssumption DEF Shape, IInv, TypeOK, Nodes
    <2> QED
        BY <2>1, <2>2 DEF IInv, TypeOK
<1> QED
    BY <1>1, <1>3, <1>4, SameContents, ContentsShape DEF Shape

\* The new tail publishes the value.
LEMMA SetTailPuts ==
    ASSUME IInv, IInv', NEW p \in Producers, SetTail(p)
    PROVE  \E v \in Values : Fifo!Put(v)
<1> DEFINE f == First
           t == m_pTail
<1>1. /\ m_pTail' = t + 1 /\ m_pHead' = m_pHead /\ data' = data /\ result' = result
      /\ data[t] \in Values
    BY DEF SetTail, Goto, IInv, TailInv
<1>2. First' = f
    <2>1. \A c \in Consumers : pc'[c] = "unlink" <=> pc[c] = "unlink"
        BY Constants DEF SetTail, Goto, IInv, TypeOK
    <2> QED
        BY <1>1, <2>1 DEF First
<1>3. /\ f \in Nat \ {0} /\ t \in Nat /\ f <= t
      /\ Contents \in Seq(Values) /\ Len(Contents) = t - f
      /\ \A i \in 1 .. t - f : Contents[i] = data[f + i - 1]
    BY ContentsShape DEF Shape
<1>4. /\ Contents' \in Seq(Values) /\ Len(Contents') = (t + 1) - f
      /\ \A i \in 1 .. (t + 1) - f : Contents'[i] = data[f + i - 1]
    BY <1>1, <1>2, ContentsShapeNext DEF Shape
<1> HIDE DEF f, t
<1>5. \A i \in 1 .. (t + 1) - f : Contents'[i] = Append(Contents, data[t])[i]
    <2> TAKE i \in 1 .. (t + 1) - f
    <2>1. CASE i = (t + 1) - f
        BY <1>3, <1>4, <2>1
    <2>2. CASE i # (t + 1) - f
        BY <1>3, <1>4, <2>2
    <2> QED
        BY <2>1, <2>2
<1>6. Contents' = Append(Contents, data[t])
    BY <1>1, <1>3, <1>4, <1>5
<1> QED
    BY <1>1, <1>6 DEF Fifo!Put

\* tryPop() and the move of the value in waitPop() are the pops.
LEMMA PopsGet ==
    ASSUME IInv, IInv', NEW c \in Consumers, TryPop(c) \/ Take(c)
    PROVE  Fifo!Get(c) \/ Fifo!GetNothing(c)
<1>1. CASE TryPop(c) /\ m_pHead = m_pTail
    <2>1. /\ UNCHANGED <<m_pHead, m_pTail, data, pc>> /\ m_pHeadMutex = Nothing
          /\ result' = [result EXCEPT ![c] = Nothing]
        BY <1>1 DEF TryPop
    <2>2. First' = First /\ First = m_pTail
        BY <1>1, <2>1, FirstValue DEF First
    <2>3. Contents = <<>>
        BY <2>2, ContentsShape DEF Shape
    <2>4. Contents' = Contents
        BY <2>1, <2>2 DEF Contents
    <2> QED
        BY <2>1, <2>3, <2>4 DEF Fifo!GetNothing
<1>2. CASE TryPop(c) /\ m_pHead # m_pTail
    <2>1. /\ UNCHANGED <<m_pTail, m_pHeadMutex, pc>> /\ m_pHeadMutex = Nothing
          /\ result' = [result EXCEPT ![c] = data[m_pHead]] /\ PopHead
        BY <1>2 DEF TryPop
    <2>2. m_pHead' = m_pHead + 1
          /\ \A n \in Nodes : n # m_pHead => data'[n] = data[n]
        BY <1>2, <2>1, PopHeadType DEF IInv
    <2>3. First = m_pHead /\ First' = First + 1
        <3>1. \A k \in Consumers : pc[k] # "unlink"
            BY <2>1, Constants DEF IInv, LockInv, Popping
        <3> QED
            BY <2>1, <2>2, <3>1 DEF First
    <2>4. \A n \in Nat : First < n /\ n < m_pTail => data'[n] = data[n]
        <3> SUFFICES ASSUME NEW n \in Nat, First < n, n < m_pTail PROVE data'[n] = data[n]
            OBVIOUS
        <3>1. n \in Nodes /\ n # m_pHead
            BY <2>3, NodeAssumption DEF IInv, TypeOK, Nodes
        <3> QED
            BY <2>2, <3>1
    <2>5. Contents # <<>> /\ Head(Contents) = data[m_pHead] /\ Contents' = Tail(Contents)
        BY <2>1, <2>3, <2>4, PoppedContents
    <2> QED
        BY <2>1, <2>5 DEF Fifo!Get
<1>3. CASE Take(c)
    <2>1. /\ UNCHANGED <<m_pHead, m_pTail, data>>
          /\ result' = [result EXCEPT ![c] = data[m_pHead]]
          /\ pc[c] = "take" /\ pc'[c] = "unlink"
        BY <1>3, Constants DEF Take, Goto, IInv, TypeOK
    <2>2. First = m_pHead /\ First' = First + 1
        BY <2>1, FirstValue DEF First
    <2>3. Contents # <<>> /\ Head(Contents) = data[m_pHead] /\ Contents' = Tail(Contents)
        BY <2>1, <2>2, PoppedContents
    <2> QED
        BY <2>1, <2>3 DEF Fifo!Get
<1> QED
    BY <1>1, <1>2, <1>3

LEMMA UnlinkStutters ==
    ASSUME IInv, IInv', NEW c \in Consumers, Unlink(c)
    PROVE  UNCHANGED <<Contents, result>>
<1>1. /\ UNCHANGED <<m_pTail, result>> /\ pc[c] = "unlink" /\ PopHead
      /\ m_pHeadMutex' = Nothing /\ m_pHead # m_pTail
    BY Constants DEF Unlink, Goto, IInv, TypeOK, HeadInv
<1>2. m_pHead' = m_pHead + 1 /\ \A n \in Nodes : n # m_pHead => data'[n] = data[n]
    BY <1>1, PopHeadType DEF IInv
<1>3. First = m_pHead + 1 /\ First' = m_pHead'
    <2>1. \A k \in Consumers : pc'[k] # "unlink"
        BY <1>1, Constants DEF IInv, LockInv, Popping
    <2> QED
        BY <1>1, <2>1, FirstValue DEF First
<1>4. \A n \in Nat : First <= n /\ n < m_pTail => data'[n] = data[n]
    <2> SUFFICES ASSUME NEW n \in Nat, First <= n, n < m_pTail PROVE data'[n] = data[n]
        OBVIOUS
    <2>1. n \in Nodes /\ n # m_pHead
        BY <1>3, NodeAssumption DEF IInv, TypeOK, Nodes
    <2> QED
        BY <1>2, <2>1
<1> QED
    BY <1>1, <1>2, <1>3, <1>4, SameContents, ContentsShape DEF Shape

\* ThreadSafeQueue implements a first in, first out queue.
THEOREM Refinement == Spec => ImplementsFifo
<1>1. Init => Fifo!FifoInit
    <2> SUFFICES ASSUME Init PROVE Fifo!FifoInit
        OBVIOUS
    <2>1. First = 1 /\ m_pTail = 1
        BY Constants DEF Init, First
    <2>2. Contents = <<>>
        BY <2>1 DEF Contents
    <2> QED
        BY <2>2 DEF Init, Fifo!FifoInit
<1>2. IInv /\ IInv' /\ [Next]_vars => [Fifo!FifoNext]_(Fifo!fifo)
    <2> SUFFICES ASSUME IInv, IInv', [Next]_vars PROVE [Fifo!FifoNext]_(Fifo!fifo)
        OBVIOUS
    <2>1. CASE UNCHANGED vars
        BY <2>1 DEF vars, Contents, First, Fifo!fifo
    <2>2. ASSUME NEW p \in Producers, PushSteps(p) \/ \E v \in Values : PushCall(p, v)
          PROVE  [Fifo!FifoNext]_(Fifo!fifo)
        <3>1. CASE SetTail(p)
            BY <3>1, SetTailPuts DEF Fifo!FifoNext
        <3>2. CASE ~SetTail(p)
            BY <2>2, <3>2, Stutter DEF PushSteps, Fifo!fifo
        <3> QED
            BY <3>1, <3>2
    <2>3. ASSUME NEW c \in Consumers,
                 TryPop(c) \/ WaitCall(c) \/ PopSteps(c) \/ SpuriousWake(c)
          PROVE  [Fifo!FifoNext]_(Fifo!fifo)
        <3>1. CASE TryPop(c) \/ Take(c)
            BY <3>1, PopsGet DEF Fifo!FifoNext
        <3>2. CASE Unlink(c)
            BY <3>2, UnlinkStutters DEF Fifo!fifo
        <3>3. CASE ~(TryPop(c) \/ Take(c) \/ Unlink(c))
            BY <2>3, <3>3, Stutter DEF PopSteps, Fifo!fifo
        <3> QED
            BY <3>1, <3>2, <3>3
    <2> QED
        BY <2>1, <2>2, <2>3 DEF Next
<1> QED
    BY <1>1, <1>2, Invariance, PTL DEF Spec, ImplementsFifo, Fifo!FifoSpec
=============================================================================
