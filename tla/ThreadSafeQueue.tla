--------------------------- MODULE ThreadSafeQueue ---------------------------
(***************************************************************************)
(* threads/ThreadSafeQueue.hpp: a linked list that always ends with a node *)
(* without data, a mutex for its head and a mutex for its tail, so that a  *)
(* producer and a consumer work at the same time.                          *)
(*                                                                         *)
(* A node is the number of the push that linked it, plus one: node 1 is    *)
(* the node of the constructor.  Only the threads inside an operation hold *)
(* a mutex; tryPop() and isEmpty() hold both, so each is a single step,    *)
(* and isEmpty() changes nothing.                                          *)
(***************************************************************************)
EXTENDS Naturals, Sequences

CONSTANTS Producers, Consumers, \* the threads that push and that pop
          Values,               \* what is pushed
          MaxNodes,             \* bound on the nodes ever linked
          Nothing               \* no value, no node, no mutex holder

ASSUME QueueAssumption == /\ Producers \cap Consumers = {}
                          /\ Nothing \notin Producers \cup Consumers
                          /\ Nothing \notin Values
ASSUME NodeAssumption == MaxNodes \in Nat \ {0} /\ Nothing \notin 1 .. MaxNodes

VARIABLES m_pHead, m_pTail,           \* the first and the last node
          m_pHeadMutex, m_pTailMutex, \* their holders
          m_condition,                \* the consumers asleep in waitPop()
          data, next,                 \* the fields of each node
          pc,                         \* where each thread is
          pushing,                    \* the argument of the current push
          result                      \* what the latest pop gave; Nothing for false

vars == <<m_pHead, m_pTail, m_pHeadMutex, m_pTailMutex, m_condition, data, next,
          pc, pushing, result>>

Threads == Producers \cup Consumers
Nodes == 1 .. MaxNodes
ProducerStates == {"idle", "lock", "setData", "setNext", "setTail", "notify"}
ConsumerStates == {"idle", "waitLock", "waitTest", "waitSleep", "asleep", "take", "unlink"}
-----------------------------------------------------------------------------
Init == /\ m_pHead = 1 /\ m_pTail = 1
        /\ m_pHeadMutex = Nothing /\ m_pTailMutex = Nothing
        /\ m_condition = {}
        /\ data = [n \in Nodes |-> Nothing]
        /\ next = [n \in Nodes |-> Nothing]
        /\ pc = [t \in Threads |-> "idle"]
        /\ pushing = [p \in Producers |-> Nothing]
        /\ result = [c \in Consumers |-> Nothing]

Goto(t, from, to) == pc[t] = from /\ pc' = [pc EXCEPT ![t] = to]

PushCall(p, v) == /\ Goto(p, "idle", "lock")
                  /\ pushing' = [pushing EXCEPT ![p] = v]
                  /\ UNCHANGED <<m_pHead, m_pTail, m_pHeadMutex, m_pTailMutex,
                                 m_condition, data, next, result>>

\* push(): the lock of the tail.  MaxNodes bounds the pushes that go on.
PushLock(p) == /\ m_pTail < MaxNodes
               /\ m_pTailMutex = Nothing
               /\ Goto(p, "lock", "setData")
               /\ m_pTailMutex' = p
               /\ UNCHANGED <<m_pHead, m_pTail, m_pHeadMutex, m_condition,
                              data, next, pushing, result>>

\* The dummy node at the tail receives the value...
SetData(p) == /\ Goto(p, "setData", "setNext")
              /\ data' = [data EXCEPT ![m_pTail] = pushing[p]]
              /\ UNCHANGED <<m_pHead, m_pTail, m_pHeadMutex, m_pTailMutex,
                             m_condition, next, pushing, result>>

\* ... and a new dummy node as its successor ...
SetNext(p) == /\ Goto(p, "setNext", "setTail")
              /\ next' = [next EXCEPT ![m_pTail] = m_pTail + 1]
              /\ UNCHANGED <<m_pHead, m_pTail, m_pHeadMutex, m_pTailMutex,
                             m_condition, data, pushing, result>>

\* ... which becomes the tail; the lock is released.
SetTail(p) == /\ Goto(p, "setTail", "notify")
              /\ m_pTail' = m_pTail + 1
              /\ m_pTailMutex' = Nothing
              /\ UNCHANGED <<m_pHead, m_pHeadMutex, m_condition, data, next,
                             pushing, result>>

\* notify_one, with no mutex held.
Notify(p) == /\ pc[p] = "notify"
             /\ \/ /\ m_condition = {}
                   /\ pc' = [pc EXCEPT ![p] = "idle"]
                   /\ UNCHANGED m_condition
                \/ \E c \in m_condition :
                      /\ pc' = [pc EXCEPT ![p] = "idle", ![c] = "waitLock"]
                      /\ m_condition' = m_condition \ {c}
             /\ UNCHANGED <<m_pHead, m_pTail, m_pHeadMutex, m_pTailMutex, data,
                            next, pushing, result>>
-----------------------------------------------------------------------------
\* popHead(): the first node is destroyed with its fields.
PopHead == /\ m_pHead' = next[m_pHead]
           /\ data' = [data EXCEPT ![m_pHead] = Nothing]
           /\ next' = [next EXCEPT ![m_pHead] = Nothing]

\* Mutants of TryPop: no test of emptiness; the lock of the head is forgotten.
TryPopAnyway(c) == /\ pc[c] = "idle"
                   /\ m_pHeadMutex = Nothing /\ m_pTailMutex = Nothing
                   /\ result' = [result EXCEPT ![c] = data[m_pHead]]
                   /\ PopHead
                   /\ UNCHANGED <<m_pTail, m_pHeadMutex, m_pTailMutex, m_condition,
                                  pc, pushing>>
TryPopTailLock(c) == /\ pc[c] = "idle" /\ m_pTailMutex = Nothing
                     /\ m_pHead # m_pTail
                     /\ result' = [result EXCEPT ![c] = data[m_pHead]]
                     /\ PopHead
                     /\ UNCHANGED <<m_pTail, m_pHeadMutex, m_pTailMutex, m_condition,
                                    pc, pushing>>

\* tryPop(): scoped_lock takes both mutexes together.
TryPop(c) == /\ pc[c] = "idle"
             /\ m_pHeadMutex = Nothing /\ m_pTailMutex = Nothing
             /\ \/ /\ m_pHead = m_pTail
                   /\ result' = [result EXCEPT ![c] = Nothing]
                   /\ UNCHANGED <<m_pHead, data, next>>
                \/ /\ m_pHead # m_pTail
                   /\ result' = [result EXCEPT ![c] = data[m_pHead]]
                   /\ PopHead
             /\ UNCHANGED <<m_pTail, m_pHeadMutex, m_pTailMutex, m_condition,
                            pc, pushing>>

WaitCall(c) == /\ Goto(c, "idle", "waitLock")
               /\ UNCHANGED <<m_pHead, m_pTail, m_pHeadMutex, m_pTailMutex,
                              m_condition, data, next, pushing, result>>

\* waitPop(): the lock of the head, on entry and when the wait ends.
WaitLock(c) == /\ m_pHeadMutex = Nothing
               /\ Goto(c, "waitLock", "waitTest")
               /\ m_pHeadMutex' = c
               /\ UNCHANGED <<m_pHead, m_pTail, m_pTailMutex, m_condition, data,
                              next, pushing, result>>

\* Mutants of WaitTest: a wake is taken for a value; the lock of the tail is
\* kept during the wait.
WaitTestTrusts(c) == /\ m_pTailMutex = Nothing
                     /\ Goto(c, "waitTest", "take")
                     /\ UNCHANGED <<m_pHead, m_pTail, m_pHeadMutex, m_pTailMutex,
                                    m_condition, data, next, pushing, result>>
WaitTestKeepsTail(c) == /\ m_pTailMutex = Nothing
                        /\ Goto(c, "waitTest", IF m_pHead = m_pTail THEN "waitSleep" ELSE "take")
                        /\ m_pTailMutex' = IF m_pHead = m_pTail THEN c ELSE Nothing
                        /\ UNCHANGED <<m_pHead, m_pTail, m_pHeadMutex, m_condition,
                                       data, next, pushing, result>>

\* The tail is read under its lock, which is released before the wait.
WaitTest(c) == /\ m_pTailMutex = Nothing
               /\ Goto(c, "waitTest", IF m_pHead = m_pTail THEN "waitSleep" ELSE "take")
               /\ UNCHANGED <<m_pHead, m_pTail, m_pHeadMutex, m_pTailMutex,
                              m_condition, data, next, pushing, result>>

\* m_condition.wait(headLock)
WaitSleep(c) == /\ Goto(c, "waitSleep", "asleep")
                /\ m_condition' = m_condition \cup {c}
                /\ m_pHeadMutex' = Nothing
                /\ UNCHANGED <<m_pHead, m_pTail, m_pTailMutex, data, next, pushing, result>>

SpuriousWake(c) == /\ c \in m_condition
                   /\ Goto(c, "asleep", "waitLock")
                   /\ m_condition' = m_condition \ {c}
                   /\ UNCHANGED <<m_pHead, m_pTail, m_pHeadMutex, m_pTailMutex,
                                  data, next, pushing, result>>

\* The data is moved out while producers may be working on the tail.
Take(c) == /\ Goto(c, "take", "unlink")
           /\ result' = [result EXCEPT ![c] = data[m_pHead]]
           /\ UNCHANGED <<m_pHead, m_pTail, m_pHeadMutex, m_pTailMutex,
                          m_condition, data, next, pushing>>

Unlink(c) == /\ Goto(c, "unlink", "idle")
             /\ PopHead
             /\ m_pHeadMutex' = Nothing
             /\ UNCHANGED <<m_pTail, m_pTailMutex, m_condition, pushing, result>>
-----------------------------------------------------------------------------
PushSteps(p) == PushLock(p) \/ SetData(p) \/ SetNext(p) \/ SetTail(p) \/ Notify(p)
PopSteps(c) == WaitLock(c) \/ WaitTest(c) \/ WaitSleep(c) \/ Take(c) \/ Unlink(c)

Next == \/ \E p \in Producers : PushSteps(p) \/ \E v \in Values : PushCall(p, v)
        \/ \E c \in Consumers : TryPop(c) \/ WaitCall(c) \/ PopSteps(c) \/ SpuriousWake(c)

Spec == Init /\ [][Next]_vars

\* A thread inside an operation is scheduled, and gets a mutex it asks for that
\* is free again and again.  No thread has to begin an operation, and nothing
\* but a notification has to end a wait.
Fairness == /\ \A p \in Producers : SF_vars(PushSteps(p))
            /\ \A c \in Consumers : SF_vars(PopSteps(c))

FairSpec == Spec /\ Fairness
-----------------------------------------------------------------------------
TypeOK == /\ m_pHead \in Nodes /\ m_pTail \in Nodes
          /\ m_pHeadMutex \in Threads \cup {Nothing}
          /\ m_pTailMutex \in Threads \cup {Nothing}
          /\ m_condition \subseteq Consumers
          /\ data \in [Nodes -> Values \cup {Nothing}]
          /\ next \in [Nodes -> Nodes \cup {Nothing}]
          /\ pc \in [Threads -> ProducerStates \cup ConsumerStates]
          /\ pushing \in [Producers -> Values \cup {Nothing}]
          /\ result \in [Consumers -> Values \cup {Nothing}]

\* A consumer that holds only the lock of the head finds a node with a value
\* and a successor, and not the node on which a producer is working under the
\* lock of the tail (lines 58-91).
HeadNodeIsComplete ==
    \A c \in Consumers : pc[c] \in {"take", "unlink"} =>
        /\ m_pHead # m_pTail
        /\ data[m_pHead] # Nothing /\ next[m_pHead] # Nothing

\* The node whose value the next pop returns.
First == IF \E c \in Consumers : pc[c] = "unlink" THEN m_pHead + 1 ELSE m_pHead
Contents == [i \in 1 .. m_pTail - First |-> data[First + i - 1]]

\* Seen from outside, the operations on the two ends are those of a first in,
\* first out queue: no value is lost, returned twice or overtaken, and tryPop()
\* returns false only on an empty queue (lines 44-91).
Fifo == INSTANCE FifoQueue WITH queue <- Contents, got <- result
ImplementsFifo == Fifo!FifoSpec

\* The two locks, taken in different orders by the operations, never block a
\* producer for ever (lines 45, 59-64, 84).
PushReturns == \A p \in Producers :
    (pc[p] # "idle" /\ m_pTail < MaxNodes) ~> (pc[p] = "idle" \/ m_pTail = MaxNodes)

\* "Wait forever until there is a value to pop, then pop it"
\* (ThreadSafeQueue.hpp:56): nobody waits beside a value.
WaitPopReturns == \A c \in Consumers :
    (pc[c] = "asleep" /\ m_pHead # m_pTail) ~> (pc[c] # "asleep" \/ m_pHead = m_pTail)
=============================================================================
