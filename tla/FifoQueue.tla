------------------------------ MODULE FifoQueue ------------------------------
(***************************************************************************)
(* What ThreadSafeQueue promises (threads/ThreadSafeQueue.hpp): values come *)
(* out once each, in the order in which they were pushed, and a consumer   *)
(* is told that the queue is empty only when it is.                        *)
(***************************************************************************)
EXTENDS Sequences

CONSTANTS Consumers, Values, Nothing

VARIABLES queue, \* the values pushed and not yet popped, oldest first
          got    \* what the latest pop of each consumer returned

fifo == <<queue, got>>

FifoInit == queue = <<>> /\ got = [c \in Consumers |-> Nothing]

Put(v) == queue' = Append(queue, v) /\ UNCHANGED got

Get(c) == /\ queue # <<>>
          /\ got' = [got EXCEPT ![c] = Head(queue)]
          /\ queue' = Tail(queue)

GetNothing(c) == /\ queue = <<>>
                 /\ got' = [got EXCEPT ![c] = Nothing]
                 /\ UNCHANGED queue

FifoNext == \/ \E v \in Values : Put(v)
            \/ \E c \in Consumers : Get(c) \/ GetNothing(c)

FifoSpec == FifoInit /\ [][FifoNext]_fifo
=============================================================================
