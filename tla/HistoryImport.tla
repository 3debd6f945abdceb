---------------------------- MODULE HistoryImport ----------------------------
(***************************************************************************)
(* The import of a history directory: gui/HistoryService.cpp, which runs   *)
(* load, save and onDone one after the other on the thread pool, and       *)
(* history/WinamaxHistory.cpp, whose load() parses the files in batches of *)
(* pool tasks and then merges their results in order.                      *)
(*                                                                         *)
(* The user interface calls importHistory() when no import is running (its *)
(* button is inactive meanwhile) and stopImportingHistory() at any time;   *)
(* the program itself does so when the window or the service is destroyed. *)
(* m_tasks is changed by both without a lock: here each access to one of   *)
(* its elements is atomic, a reset or moved future is never ready again,   *)
(* and the elements of a cleared vector are gone.                          *)
(***************************************************************************)
EXTENDS Naturals, Sequences, FiniteSets

CONSTANTS NbFiles,    \* number of files of the history directory
          Cut,        \* those that end in the middle of a hand
          BatchSize,  \* twice the number of hardware threads, at least two
          MaxImports  \* bound on the calls of importHistory()

ASSUME FilesAssumption == NbFiles \in Nat
ASSUME CutAssumption == Cut \subseteq 1 .. NbFiles
ASSUME BatchAssumption == BatchSize \in Nat /\ BatchSize >= 2
ASSUME ImportsAssumption == MaxImports \in Nat

VARIABLES m_stop,             \* of the WinamaxHistory that loads
          m_tasks,            \* of the same: what each future of the vector is
          m_pokerSiteHistory, \* the history that the service holds
          m_loadTask,         \* whether the service holds a future
          task,               \* the parsing task of each file
          sited,              \* the files whose task gave a Site
          merged,             \* the files whose games are in the result
          load,               \* where the chain of the import is
          cursor,             \* the file the chain is at
          ui,                 \* where the user interface is
          counted, scan,      \* the locals of stopLoading()
          stopCalled,         \* whether stopLoading() was called on that history
          imports             \* number of imports, at most MaxImports

loadVars == <<task, sited, merged, load, cursor>>
stopVars == <<ui, counted, scan, stopCalled>>
serviceVars == <<m_pokerSiteHistory, m_loadTask, imports>>
vars == <<m_stop, m_tasks, loadVars, stopVars, serviceVars>>

Files == 1 .. NbFiles
\* The files whose task has not ended.
Running == {f \in Files : task[f] \in {"running", "looping"}}
LoadStates == {"none", "create", "start", "list", "submit", "await", "take", "add",
               "clear", "save", "onDone", "done"}
UiStates == {"idle", "setStop", "loopTest", "scan", "await"}
-----------------------------------------------------------------------------
Init == /\ m_stop = TRUE
        /\ m_tasks = <<>>
        /\ m_pokerSiteHistory \in {"none", "idle"}
        /\ m_loadTask = FALSE
        /\ task = [f \in Files |-> "none"]
        /\ sited = {} /\ merged = {}
        /\ load = "none" /\ cursor = 1
        /\ ui = "idle" /\ counted = 0 /\ scan = 1 /\ stopCalled = FALSE
        /\ imports = 0

\* HistoryService::importHistory: the history that loaded the previous import
\* stays in the service until Create, and loads nothing.
ImportHistory == /\ ui = "idle" /\ load \in {"none", "done"} /\ imports < MaxImports
                 /\ imports' = imports + 1
                 /\ load' = "create"
                 /\ m_loadTask' = TRUE
                 /\ task' = [f \in Files |-> "none"]
                 /\ sited' = {} /\ merged' = {} /\ cursor' = 1
                 /\ m_pokerSiteHistory' =
                        IF m_pokerSiteHistory = "loading" THEN "idle" ELSE m_pokerSiteHistory
                 /\ UNCHANGED <<m_stop, m_tasks, stopVars>>

\* HistoryService::setHistoryDir: a history that nobody loads, or none when the
\* directory is not valid.  The dialog that calls it needs the same button.
SetHistoryDir == /\ ui = "idle" /\ load \in {"none", "done"}
                 /\ m_pokerSiteHistory' \in {"none", "idle"}
                 /\ UNCHANGED <<m_stop, m_tasks, loadVars, stopVars, m_loadTask, imports>>

\* The first line of the chain: a new history, whose m_stop is TRUE, replaces
\* the one of the service; no history when the directory is not valid.
Create == /\ load = "create"
          /\ \/ /\ m_pokerSiteHistory' = "loading" /\ load' = "start"
                /\ m_stop' = TRUE /\ m_tasks' = <<>> /\ stopCalled' = FALSE
             \/ /\ m_pokerSiteHistory' = "none" /\ load' = "onDone"
                /\ UNCHANGED <<m_stop, m_tasks, stopCalled>>
          /\ UNCHANGED <<task, sited, merged, cursor, ui, counted, scan, m_loadTask, imports>>

\* WinamaxHistory::load
Start == /\ load = "start"
         /\ load' = "list"
         /\ m_stop' = FALSE
         /\ UNCHANGED <<m_tasks, task, sited, merged, cursor, stopVars, serviceVars>>

\* No file, or an exception while they are listed: the empty Site is saved.
List == /\ load = "list"
        /\ load' \in IF NbFiles = 0 THEN {"save"} ELSE {"save", "submit"}
        /\ UNCHANGED <<m_stop, m_tasks, task, sited, merged, cursor, stopVars, serviceVars>>
-----------------------------------------------------------------------------
\* Mutants of Submit: the last file is forgotten; the batches have no end.
SubmitButLast ==
    /\ load = "submit"
    /\ IF cursor >= NbFiles \/ m_stop
       THEN load' = "await" /\ cursor' = NbFiles + 1 /\ UNCHANGED task
       ELSE /\ task' = [task EXCEPT ![cursor] = "running"]
            /\ cursor' = cursor + 1
            /\ load' = IF cursor % BatchSize = 0 THEN "await" ELSE "submit"
    /\ UNCHANGED <<m_stop, m_tasks, sited, merged, stopVars, serviceVars>>
SubmitAll ==
    /\ load = "submit"
    /\ IF cursor > NbFiles \/ m_stop
       THEN load' = "await" /\ UNCHANGED <<task, cursor>>
       ELSE /\ task' = [task EXCEPT ![cursor] = "running"]
            /\ cursor' = cursor + 1
            /\ UNCHANGED load
    /\ UNCHANGED <<m_stop, m_tasks, sited, merged, stopVars, serviceVars>>

\* parseFilesAsyncBatched: cursor is the next file to submit.  m_stop is read
\* before every file, which covers the test before every batch.
Submit == /\ load = "submit"
          /\ IF cursor > NbFiles \/ m_stop
             THEN load' = "await" /\ UNCHANGED <<task, cursor>>
             ELSE /\ task' = [task EXCEPT ![cursor] = "running"]
                  /\ cursor' = cursor + 1
                  /\ load' = IF cursor % BatchSize = 0 THEN "await" ELSE "submit"
          /\ UNCHANGED <<m_stop, m_tasks, sited, merged, stopVars, serviceVars>>

\* Mutants of AwaitBatch: a stop does not wait for the batch; the size of
\* m_tasks is one too large.
AwaitBatchUnlessStop ==
    /\ load = "await"
    /\ m_stop \/ Running = {}
    /\ IF cursor > NbFiles \/ m_stop
       THEN /\ load' = "take" /\ cursor' = 1
            /\ m_tasks' = [f \in 1 .. cursor - 1 |-> "ready"]
       ELSE /\ load' = "submit" /\ UNCHANGED <<cursor, m_tasks>>
    /\ UNCHANGED <<m_stop, task, sited, merged, stopVars, serviceVars>>
AwaitBatchOneMore ==
    /\ load = "await"
    /\ Running = {}
    /\ IF cursor > NbFiles \/ m_stop
       THEN /\ load' = "take" /\ cursor' = 1
            /\ m_tasks' = [f \in 1 .. cursor |-> "ready"]
       ELSE /\ load' = "submit" /\ UNCHANGED <<cursor, m_tasks>>
    /\ UNCHANGED <<m_stop, task, sited, merged, stopVars, serviceVars>>

\* Every task of the batch is awaited; the last batch is followed by the
\* assignment of m_tasks and the start of the merge.
AwaitBatch == /\ load = "await"
              /\ Running = {}
              /\ IF cursor > NbFiles \/ m_stop
                 THEN /\ load' = "take" /\ cursor' = 1
                      /\ m_tasks' = [f \in 1 .. cursor - 1 |-> "ready"]
                 ELSE /\ load' = "submit" /\ UNCHANGED <<cursor, m_tasks>>
              /\ UNCHANGED <<m_stop, task, sited, merged, stopVars, serviceVars>>

\* A pool thread parses a file; an exception is logged and gives no Site.  On a
\* file that is cut the parser may loop for ever (module HandParser): it does not
\* look at m_stop.
Parse(f) == /\ task[f] = "running"
            /\ \/ /\ task' = [task EXCEPT ![f] = "ready"]
                  /\ sited' \in {sited, sited \cup {f}}
               \/ /\ f \in Cut
                  /\ task' = [task EXCEPT ![f] = "looping"]
                  /\ UNCHANGED sited
            /\ UNCHANGED <<m_stop, m_tasks, merged, load, cursor, stopVars, serviceVars>>
-----------------------------------------------------------------------------
\* The merge: cursor is the position in m_tasks.  The future is moved out and
\* awaited if it is still valid ...
Take == /\ load = "take"
        /\ IF cursor > Len(m_tasks)
           THEN load' = "clear" /\ UNCHANGED <<m_tasks, cursor>>
           ELSE IF m_tasks[cursor] = "ready"
           THEN /\ load' = "add" /\ UNCHANGED cursor
                /\ m_tasks' = [m_tasks EXCEPT ![cursor] = "gone"]
           ELSE load' = "take" /\ cursor' = cursor + 1 /\ UNCHANGED m_tasks
        /\ UNCHANGED <<m_stop, task, sited, merged, stopVars, serviceVars>>

\* Mutant of Add: m_stop is not read again after the future was awaited.
AddAlways == /\ load = "add"
             /\ merged' = IF cursor \in sited THEN merged \cup {cursor} ELSE merged
             /\ load' = "take" /\ cursor' = cursor + 1
             /\ UNCHANGED <<m_stop, m_tasks, task, sited, stopVars, serviceVars>>

\* ... and its Site is merged unless m_stop was set meanwhile.
Add == /\ load = "add"
       /\ merged' = IF ~m_stop /\ cursor \in sited THEN merged \cup {cursor} ELSE merged
       /\ load' = "take" /\ cursor' = cursor + 1
       /\ UNCHANGED <<m_stop, m_tasks, task, sited, stopVars, serviceVars>>

\* Mutant of Clear: the merge goes on until no future is left in m_tasks.
ClearWhenTaken == /\ load = "clear"
                  /\ load' = IF m_tasks = <<>> THEN "save" ELSE "clear"
                  /\ UNCHANGED <<m_stop, m_tasks, task, sited, merged, cursor, stopVars, serviceVars>>

\* m_tasks.clear(); the players of the shared cache are added to the result.
Clear == /\ load = "clear"
         /\ load' = "save"
         /\ m_tasks' = <<>>
         /\ UNCHANGED <<m_stop, task, sited, merged, cursor, stopVars, serviceVars>>

\* The second step of the chain saves the result, or logs that it could not.
Save == /\ load = "save"
        /\ load' = "onDone"
        /\ UNCHANGED <<m_stop, m_tasks, task, sited, merged, cursor, stopVars, serviceVars>>

OnDone == /\ load = "onDone"
          /\ load' = "done"
          /\ UNCHANGED <<m_stop, m_tasks, task, sited, merged, cursor, stopVars, serviceVars>>
-----------------------------------------------------------------------------
\* HistoryService::stopImportingHistory: stopLoading() of the history that the
\* service holds now, which has no task when it is not the one that loads.
StopImporting == /\ ui = "idle"
                 /\ ui' = IF m_pokerSiteHistory = "loading" THEN "setStop" ELSE "await"
                 /\ UNCHANGED <<m_stop, m_tasks, loadVars, counted, scan, stopCalled, serviceVars>>

SetStop == /\ ui = "setStop"
           /\ m_stop' = TRUE /\ stopCalled' = TRUE
           /\ counted' = 0
           /\ ui' = "loopTest"
           /\ UNCHANGED <<m_tasks, loadVars, scan, serviceVars>>

\* while (nbTasksFinished != m_tasks.size())
LoopTest == /\ ui = "loopTest"
            /\ ui' = IF counted = Len(m_tasks) THEN "await" ELSE "scan"
            /\ scan' = 1
            /\ UNCHANGED <<m_stop, m_tasks, loadVars, counted, stopCalled, serviceVars>>

\* One round of the inner loop: reset and count a ready future.
Scan == /\ ui = "scan"
        /\ IF scan > Len(m_tasks)
           THEN ui' = "loopTest" /\ UNCHANGED <<m_tasks, counted, scan>>
           ELSE /\ scan' = scan + 1 /\ UNCHANGED ui
                /\ IF m_tasks[scan] = "ready"
                   THEN /\ m_tasks' = [m_tasks EXCEPT ![scan] = "gone"]
                        /\ counted' = counted + 1
                   ELSE UNCHANGED <<m_tasks, counted>>
        /\ UNCHANGED <<m_stop, loadVars, stopCalled, serviceVars>>

\* The future of the chain, if there is one, is awaited and dropped.
AwaitImport == /\ ui = "await"
               /\ m_loadTask => load \in {"none", "done"}
               /\ m_loadTask' = FALSE
               /\ ui' = "idle"
               /\ UNCHANGED <<m_stop, m_tasks, loadVars, counted, scan, stopCalled,
                              m_pokerSiteHistory, imports>>
-----------------------------------------------------------------------------
LoadSteps == \/ Create \/ Start \/ List \/ Submit \/ AwaitBatch \/ Take \/ Add
             \/ Clear \/ Save \/ OnDone
StopSteps == SetStop \/ LoopTest \/ Scan \/ AwaitImport

Next == \/ ImportHistory \/ SetHistoryDir \/ StopImporting
        \/ LoadSteps \/ StopSteps
        \/ \E f \in Files : Parse(f)

Spec == Init /\ [][Next]_vars

\* The pool executes what it was given, as long as it has a thread that no endless
\* parse holds, and the user interface finishes the function it is in; nobody has
\* to begin an import or a stop.
Fairness == /\ WF_vars(LoadSteps) /\ WF_vars(StopSteps)
            /\ \A f \in Files : WF_vars(Parse(f))

FairSpec == Spec /\ Fairness
-----------------------------------------------------------------------------
TypeOK == /\ m_stop \in BOOLEAN
          /\ m_tasks \in Seq({"ready", "gone"}) /\ Len(m_tasks) <= NbFiles
          /\ m_pokerSiteHistory \in {"none", "idle", "loading"}
          /\ m_loadTask \in BOOLEAN
          /\ task \in [Files -> {"none", "running", "looping", "ready"}]
          /\ sited \subseteq Files /\ merged \subseteq Files
          /\ load \in LoadStates /\ cursor \in 1 .. NbFiles + 1
          /\ ui \in UiStates
          /\ counted \in Nat /\ scan \in 1 .. NbFiles + 1
          /\ stopCalled \in BOOLEAN
          /\ imports \in 0 .. MaxImports

\* The tasks refer to the PlayerCache and to the flag of load(): none is left
\* when the function goes on to the merge, even if a stop cut a batch short
\* (lines 101-131, 193-212).
CacheOutlivesTasks == Running # {} => load \in {"submit", "await"}

\* "Parse files in batches to limit concurrency" (line 78).
BatchesLimitTasks == Cardinality(Running) <= BatchSize

\* After a stop that load() saw, the result is the beginning of the history: it
\* never has the games of a file without those of an earlier one, although the
\* stop and the merge take futures from the same vector (lines 200-207, 231-238).
StoppedMergeIsPrefix ==
    m_stop /\ load \in {"take", "add", "clear", "save"} =>
        \A f \in merged : \A g \in 1 .. f : g \in sited => g \in merged

\* A load() that nobody stops parses every file and keeps every Site: when its
\* merge ends no batch was cut short and no future was taken (lines 80-138,
\* 196-207).
UndisturbedLoadIsComplete ==
    load = "clear" /\ ~stopCalled =>
        /\ \A f \in Files : task[f] = "ready"
        /\ merged = sited

\* "@returns a Site containing all the games which history files are located in
\* the given <historyDir>/history directory" (PokerSiteHistory.hpp:28): so does
\* a load() that ends without having seen a stop.
UnstoppedLoadIsComplete ==
    load = "clear" /\ ~m_stop => merged = sited

\* The import ends and its button comes back, stopped or not, whatever the
\* stop does to the vector meanwhile, unless the parser met the end of a cut file
\* in its endless loop (HistoryService.cpp:43-79, WinamaxHistory.cpp:111).
ImportEnds ==
    (load = "create") ~> (load = "done" \/ \E f \in Files : task[f] = "looping")

\* "Stops importing history" (HistoryService.hpp:49): the function returns.
StopReturns == (ui = "setStop") ~> (ui = "idle")

\* "Stops importing history" (HistoryService.hpp:49): the import that the user
\* interface awaits was told to stop.
StopIsHonoured == ui = "await" /\ Running # {} => m_stop
=============================================================================
