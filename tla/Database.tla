------------------------------ MODULE Database ------------------------------
(***************************************************************************)
(* db/Database.cpp: save(Site), called by pool threads (the import of a    *)
(* directory, the reload of a watched file) on the one connection that the *)
(* Database holds.                                                         *)
(*                                                                         *)
(* SQLite executes one statement at a time on a connection; whether a      *)
(* transaction is open belongs to the connection and not to the thread     *)
(* that opened it.  Tables with the same key and the same statement order  *)
(* are one table here: "Game" is Game with CashGame or Tournament, "Hand"  *)
(* is Hand with HandPlayer, "Action" is the hand lists of the games and    *)
(* Action, the tables without a unique key.  The rows of a table are       *)
(* counted per game.                                                       *)
(***************************************************************************)
EXTENDS Naturals

CONSTANTS Savers,   \* the threads that call save(Site)
          Games,    \* the games of the history files
          MaxSaves  \* bound on the calls of save(Site)

ASSUME SavesAssumption == MaxSaves \in Nat

VARIABLES inTransaction, \* whether the connection has an open transaction
          rows, disk,    \* what the connection sees, and what is committed
          pc,            \* where each saver is
          site,          \* the games of the Site being saved
          task,          \* the pool task of each game, by saver
          failed,        \* whether an INSERT or END failed during the save
          stored,        \* the games of the saves that returned, none of them failed
          saves          \* number of calls of save(Site), at most MaxSaves

connection == <<inTransaction, rows, disk>>
vars == <<connection, pc, site, task, failed, stored, saves>>

Tables == {"Site", "Player", "Game", "Hand", "Action"}
KeyedTables == Tables \ {"Action"}
Following == [Game |-> "Hand", Hand |-> "Action", Action |-> "done"]
TaskStates == {"none", "Game", "Hand", "Action", "done"}
\* Between BEGIN and the end of the transaction.
InSave == {"Site", "Player", "await", "commit", "rollback"}
SaverStates == InSave \cup {"idle", "begin", "returned", "threw"}
NoRow == [t \in Tables |-> [g \in Games |-> 0]]
-----------------------------------------------------------------------------
Init == /\ inTransaction = FALSE
        /\ rows = NoRow /\ disk = NoRow
        /\ pc = [s \in Savers |-> "idle"]
        /\ site = [s \in Savers |-> {}]
        /\ task = [s \in Savers |-> [g \in Games |-> "none"]]
        /\ failed = [s \in Savers |-> FALSE]
        /\ stored = {}
        /\ saves = 0

\* save(Site) is called with the games of some history files.
SaveCall(s, games) == /\ pc[s] \in {"idle", "returned", "threw"} /\ saves < MaxSaves
                      /\ saves' = saves + 1
                      /\ pc' = [pc EXCEPT ![s] = "begin"]
                      /\ site' = [site EXCEPT ![s] = games]
                      /\ task' = [task EXCEPT ![s] = [g \in Games |-> "none"]]
                      /\ failed' = [failed EXCEPT ![s] = FALSE]
                      /\ UNCHANGED <<connection, stored>>

\* Mutant of Insert: every INSERT adds its rows, key or no key.
InsertAgain(t, games) ==
    rows' = [rows EXCEPT ![t] = [g \in Games |-> IF g \in games THEN @[g] + 1 ELSE @[g]]]

\* INSERT OR IGNORE: the rows of a table with a key are inserted once.
Insert(t, games) ==
    rows' = [rows EXCEPT ![t] =
                [g \in Games |-> CASE g \notin games -> @[g]
                                   [] g \in games /\ t \in KeyedTables -> 1
                                   [] OTHER -> @[g] + 1]]

\* executeSql of an INSERT, which outside of a transaction commits itself.
Execute(t, games) == /\ Insert(t, games)
                     /\ disk' = IF inTransaction THEN disk ELSE rows'
                     /\ UNCHANGED inTransaction

\* Transaction::Transaction: BEGIN fails inside a transaction.  The constructor
\* throws, so that ~Transaction is not called.
Begin(s) == /\ pc[s] = "begin"
            /\ IF inTransaction
               THEN pc' = [pc EXCEPT ![s] = "threw"] /\ UNCHANGED inTransaction
               ELSE pc' = [pc EXCEPT ![s] = "Site"] /\ inTransaction' = TRUE
            /\ UNCHANGED <<rows, disk, site, task, failed, stored, saves>>

\* saveSite, then save(players) ...
Header(s, t, then) ==
    /\ pc[s] = t
    /\ Execute(t, site[s])
    /\ pc' = [pc EXCEPT ![s] = then]
    /\ UNCHANGED <<site, failed, stored, saves>>

SaveSite(s) == Header(s, "Site", "Player") /\ UNCHANGED task

\* ... then saveGamesAsync submits a task for every game.
SavePlayers(s) ==
    /\ Header(s, "Player", "await")
    /\ task' = [task EXCEPT ![s] = [g \in Games |-> IF g \in site[s] THEN "Game" ELSE "none"]]

\* One of these two statements fails: the exception leaves save(Site).
HeaderFails(s) == /\ pc[s] \in {"Site", "Player"}
                  /\ pc' = [pc EXCEPT ![s] = "rollback"]
                  /\ failed' = [failed EXCEPT ![s] = TRUE]
                  /\ UNCHANGED <<connection, site, task, stored, saves>>
-----------------------------------------------------------------------------
\* saveGame, on a pool thread: the inserts of the game, of its hands, of their
\* actions.
TaskInsert(s, g) == /\ task[s][g] \in {"Game", "Hand", "Action"}
                    /\ Execute(task[s][g], {g})
                    /\ task' = [task EXCEPT ![s][g] = Following[@]]
                    /\ UNCHANGED <<pc, site, failed, stored, saves>>

\* Mutants of TaskFails: the next statement is executed all the same; the task
\* never ends.
TaskGoesOn(s, g) == /\ task[s][g] \in {"Game", "Hand", "Action"}
                    /\ task' = [task EXCEPT ![s][g] = Following[@]]
                    /\ failed' = [failed EXCEPT ![s] = TRUE]
                    /\ UNCHANGED <<connection, pc, site, stored, saves>>
TaskHangs(s, g) == /\ task[s][g] \in {"Game", "Hand", "Action"}
                   /\ task' = [task EXCEPT ![s][g] = "none"]
                   /\ failed' = [failed EXCEPT ![s] = TRUE]
                   /\ UNCHANGED <<connection, pc, site, stored, saves>>

\* A statement of the game fails, or its hands are refused: the exception is
\* logged and ends the task.
TaskFails(s, g) == /\ task[s][g] \in {"Game", "Hand", "Action"}
                   /\ task' = [task EXCEPT ![s][g] = "done"]
                   /\ failed' = [failed EXCEPT ![s] = TRUE]
                   /\ UNCHANGED <<connection, pc, site, stored, saves>>

\* Mutant of Await: the commit does not wait for the tasks.
AwaitNothing(s) == /\ pc[s] = "await"
                   /\ pc' = [pc EXCEPT ![s] = "commit"]
                   /\ UNCHANGED <<connection, site, task, failed, stored, saves>>

Await(s) == /\ pc[s] = "await"
            /\ \A g \in site[s] : task[s][g] = "done"
            /\ pc' = [pc EXCEPT ![s] = "commit"]
            /\ UNCHANGED <<connection, site, task, failed, stored, saves>>

Returned(s) == /\ pc' = [pc EXCEPT ![s] = "returned"]
               /\ stored' = IF failed[s] THEN stored ELSE stored \cup site[s]

\* Mutant of Commit: m_didCommit is set and END is not executed.
CommitForgotten(s) == /\ pc[s] = "commit"
                      /\ Returned(s)
                      /\ inTransaction' = FALSE /\ rows' = disk
                      /\ UNCHANGED <<disk, site, task, failed, saves>>

\* Transaction::commit, which throws if END fails.
Commit(s) == /\ pc[s] = "commit"
             /\ \/ /\ inTransaction
                   /\ Returned(s)
                   /\ inTransaction' = FALSE /\ disk' = rows
                   /\ UNCHANGED failed
                \/ /\ pc' = [pc EXCEPT ![s] = "rollback"]
                   /\ failed' = [failed EXCEPT ![s] = TRUE]
                   /\ UNCHANGED <<inTransaction, disk, stored>>
             /\ UNCHANGED <<rows, site, task, saves>>

\* Transaction::~Transaction without a commit.
Rollback(s) == /\ pc[s] = "rollback"
               /\ inTransaction' = FALSE /\ rows' = disk
               /\ pc' = [pc EXCEPT ![s] = "threw"]
               /\ UNCHANGED <<disk, site, task, failed, stored, saves>>

\* The program is killed and started again on the same file.
Crash == /\ \E s \in Savers : pc[s] \in InSave
         /\ inTransaction' = FALSE /\ rows' = disk
         /\ pc' = [s \in Savers |-> "idle"]
         /\ task' = [s \in Savers |-> [g \in Games |-> "none"]]
         /\ UNCHANGED <<disk, site, failed, stored, saves>>
-----------------------------------------------------------------------------
SaverSteps(s) == \/ Begin(s) \/ SaveSite(s) \/ SavePlayers(s) \/ HeaderFails(s)
                 \/ Await(s) \/ Commit(s) \/ Rollback(s)
TaskSteps(s, g) == TaskInsert(s, g) \/ TaskFails(s, g)

Next == \/ Crash
        \/ \E s \in Savers : \/ SaverSteps(s)
                             \/ \E games \in SUBSET Games : SaveCall(s, games)
                             \/ \E g \in Games : TaskSteps(s, g)

Spec == Init /\ [][Next]_vars

\* The pool executes what it was given.
Fairness == \A s \in Savers : /\ WF_vars(SaverSteps(s))
                              /\ \A g \in Games : WF_vars(TaskSteps(s, g))

FairSpec == Spec /\ Fairness
-----------------------------------------------------------------------------
RowCounts == [Tables -> [Games -> Nat]]

TypeOK == /\ inTransaction \in BOOLEAN
          /\ rows \in RowCounts /\ disk \in RowCounts
          /\ \A t \in KeyedTables : \A g \in Games : rows[t][g] <= 1 /\ disk[t][g] <= 1
          /\ pc \in [Savers -> SaverStates]
          /\ site \in [Savers -> SUBSET Games]
          /\ task \in [Savers -> [Games -> TaskStates]]
          /\ failed \in [Savers -> BOOLEAN]
          /\ stored \subseteq Games
          /\ saves \in 0 .. MaxSaves

Consistent(db) == \A g \in Games :
    /\ db["Action"][g] > 0 => db["Hand"][g] > 0
    /\ db["Hand"][g] > 0 => db["Game"][g] > 0
    /\ db["Game"][g] > 0 => db["Player"][g] > 0 /\ db["Site"][g] > 0

\* No row refers to a missing one, neither for the readers of the connection
\* nor after a restart.  SQLite does not enforce the foreign keys, the order of
\* the statements does: "we suppose the Player has been saved before this call"
\* (Database.cpp:375; lines 173-184, 314-327).
ReferencesHold == Consistent(rows) /\ Consistent(disk)

\* The games of a save that returned, none of whose inserts failed, are on
\* disk in full, whatever the other saves and a crash do (lines 196-231,
\* 314-327).
StoredGamesStay == \A g \in stored : \A t \in Tables : disk[t][g] > 0

\* What is committed changes only when a save commits, with its own tasks and
\* everyone else's at rest: nobody's rows commit themselves (lines 203-230).
DiskChangesAtCommit ==
    [][disk' # disk => \E s \in Savers :
            /\ pc[s] = "commit" /\ pc'[s] = "returned"
            /\ \A r \in Savers : \A g \in Games : task[r][g] \in {"none", "done"}]_vars

\* Every save ends, though its pool tasks may fail and another save may hold
\* the connection in a transaction (lines 292-327).
SaveEnds == \A s \in Savers : (pc[s] = "begin") ~> (pc[s] \notin InSave \cup {"begin"})

\* "@throws DatabaseException if an error occurs during the insert"
\* (Database.cpp:312).
ErrorsAreReported == \A s \in Savers : pc[s] = "returned" => ~failed[s]

\* "The database where each entity is persisted" (Database.hpp:17): a save none
\* of whose inserts failed is on disk when it ends.
EachSiteIsPersisted == \A s \in Savers :
    pc[s] \in {"returned", "threw"} /\ ~failed[s] =>
        \A g \in site[s] : \A t \in Tables : disk[t][g] > 0

\* "si jeu déjà existant on ne s'intéresse qu'aux mains postérieures à la
\* dernière sauvegardée" (doc/spec.txt): an action is stored once.
ActionsStoredOnce == \A g \in Games : disk["Action"][g] <= 1
=============================================================================
