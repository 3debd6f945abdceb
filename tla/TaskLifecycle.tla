---------------------------- MODULE TaskLifecycle ----------------------------
(***************************************************************************)
(* What PeriodicTask promises to its users (threads/PeriodicTask.hpp): the *)
(* task runs only between start() and the end of its lambda, one run at a  *)
(* time, and no run begins after stop() was requested.                     *)
(***************************************************************************)
VARIABLES running,       \* between start() and the end of the lambda
          stopRequested, \* stop() was called: for ever, there is no restart
          busy           \* the task is being executed

life == <<running, stopRequested, busy>>

LifeInit == ~running /\ ~stopRequested /\ ~busy

LifeStart == /\ ~running /\ ~busy
             /\ running' = TRUE
             /\ UNCHANGED <<stopRequested, busy>>

LifeStop == /\ stopRequested' = TRUE
            /\ UNCHANGED <<running, busy>>

BeginRun == /\ running /\ ~stopRequested /\ ~busy
            /\ busy' = TRUE
            /\ UNCHANGED <<running, stopRequested>>

EndRun == /\ busy
          /\ busy' = FALSE
          /\ UNCHANGED <<running, stopRequested>>

Finish == /\ running /\ ~busy
          /\ running' = FALSE
          /\ UNCHANGED <<stopRequested, busy>>

LifeNext == LifeStart \/ LifeStop \/ BeginRun \/ EndRun \/ Finish

LifeSpec == LifeInit /\ [][LifeNext]_life
=============================================================================
