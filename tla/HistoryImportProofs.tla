------------------------ MODULE HistoryImportProofs ------------------------
(***************************************************************************)
(* Proofs about HistoryImport, for any number of files, size of the        *)
(* batches and number of imports.                                          *)
(***************************************************************************)
EXTENDS HistoryImport, FiniteSetTheorems, TLAPS

Parsing == {"submit", "await"}
Merging == {"take", "add", "clear", "save"}
Stopping == {"loopTest", "scan"}
\* No stopLoading() takes futures from the vector of the load, nor did so.
Unscanned == ui \in {"idle", "setStop"} \/ ~stopCalled
Before == {f \in sited : f < cursor}

\* A stop is heard by the history that loads: it is not confused with the one of
\* an earlier import, and it waits for the end of the import.
StopInv == /\ load \notin {"none", "done"} => m_loadTask
           /\ load = "create" => m_pokerSiteHistory # "loading" /\ ui \notin {"setStop"} \cup Stopping
           /\ load = "start" => m_tasks = <<>>
           /\ ui = "setStop" => m_pokerSiteHistory = "loading"
           /\ ui \in Stopping => stopCalled
           /\ load \in {"list"} \cup Parsing \cup Merging /\ ~stopCalled => ~m_stop

\* What the tasks have done.
TaskInv == /\ \A f \in sited : task[f] = "ready"
           /\ \A f \in Files : load \in {"create", "start", "list"} => task[f] = "none"
           /\ \A f \in Files : load \in Parsing => (f < cursor <=> task[f] # "none")
           /\ \A f \in Files : load \in {"take", "add", "clear"} /\ ~stopCalled => task[f] = "ready"

\* The position of the merge.
CursorInv == /\ load \in {"create", "start", "list"} => cursor = 1 /\ sited = {} /\ merged = {}
             /\ load \in Parsing => merged = {}
             /\ load = "add" => cursor <= Len(m_tasks)
             /\ load \in {"take", "add", "clear"} /\ ~stopCalled => Len(m_tasks) = NbFiles
             /\ load = "clear" => cursor > Len(m_tasks)

\* The merge of a load that heard no stop misses nothing; of one that did, it
\* is a beginning.
MergeInv == /\ load \in {"take", "add"} /\ ~m_stop /\ Unscanned =>
                   \A i \in DOMAIN m_tasks :
                       (i > cursor \/ (i = cursor /\ load = "take")) => m_tasks[i] = "ready"
            /\ load \in Merging /\ ~m_stop /\ Unscanned => merged = Before
            /\ merged \subseteq sited
            /\ load \in Merging => \A f \in merged : f < cursor

IInv == /\ TypeOK /\ StopInv /\ TaskInv /\ CursorInv /\ MergeInv
        /\ CacheOutlivesTasks /\ StoppedMergeIsPrefix /\ UndisturbedLoadIsComplete
-----------------------------------------------------------------------------
LEMMA StateNames ==
    /\ {"none", "create", "start", "list", "submit", "await", "take", "add", "clear",
        "save", "onDone", "done"} \subseteq LoadStates
    /\ {"idle", "setStop", "loopTest", "scan", "await"} \subseteq UiStates
BY DEF LoadStates, UiStates

\* The two values that m_tasks is given.
LEMMA NoTasks == /\ <<>> \in Seq({"ready", "gone"}) /\ Len(<<>>) = 0
OBVIOUS

LEMMA ReadyTasks ==
    ASSUME NEW n \in Nat
    PROVE  /\ [f \in 1 .. n |-> "ready"] \in Seq({"ready", "gone"})
           /\ Len([f \in 1 .. n |-> "ready"]) = n
           /\ DOMAIN [f \in 1 .. n |-> "ready"] = 1 .. n
OBVIOUS

LEMMA InitIInv == Init => IInv
<1> SUFFICES ASSUME Init PROVE IInv
  OBVIOUS
<1> USE FilesAssumption, ImportsAssumption DEF Init, Files, Parsing, Merging, Stopping
<1>1. TypeOK
  <2>1. m_tasks \in Seq({"ready", "gone"}) /\ Len(m_tasks) <= NbFiles BY NoTasks
  <2>2. task \in [Files -> {"none", "running", "looping", "ready"}] OBVIOUS
  <2>3. load \in LoadStates /\ ui \in UiStates BY StateNames
  <2>4. cursor \in 1 .. NbFiles + 1 /\ scan \in 1 .. NbFiles + 1 /\ imports \in 0 .. MaxImports
    OBVIOUS
  <2> QED BY <2>1, <2>2, <2>3, <2>4 DEF TypeOK
<1>2. StopInv /\ TaskInv /\ CursorInv /\ MergeInv BY DEF StopInv, TaskInv, CursorInv, MergeInv
<1>3. CacheOutlivesTasks BY DEF CacheOutlivesTasks, Running
<1>4. StoppedMergeIsPrefix /\ UndisturbedLoadIsComplete
  BY DEF StoppedMergeIsPrefix, UndisturbedLoadIsComplete
<1> QED BY <1>1, <1>2, <1>3, <1>4 DEF IInv
-----------------------------------------------------------------------------
\* The history of the previous import is no longer the one that loads.
LEMMA ImportHistoryIInv == ASSUME IInv, ImportHistory PROVE IInv'
<1> USE FilesAssumption, BatchAssumption, ImportsAssumption, StateNames
    DEF IInv, ImportHistory, loadVars, stopVars, serviceVars, Files, Parsing, Merging, Stopping
<1>1. TypeOK' BY DEF TypeOK, CursorInv
<1>2. StopInv' BY DEF TypeOK, StopInv
<1>3. TaskInv'
    BY DEF TypeOK, StopInv, TaskInv, CursorInv, CacheOutlivesTasks, Running
<1>4. CursorInv' BY DEF TypeOK, StopInv, CursorInv
<1>5. MergeInv' BY DEF TypeOK, StopInv, CursorInv, MergeInv, Unscanned, Before
<1>6. CacheOutlivesTasks' BY DEF TypeOK, CacheOutlivesTasks, Running
<1>7. StoppedMergeIsPrefix'
    BY DEF TypeOK, StopInv, CursorInv, MergeInv, StoppedMergeIsPrefix, Unscanned, Before
<1>8. UndisturbedLoadIsComplete'
    BY DEF TypeOK, StopInv, TaskInv, CursorInv, MergeInv, UndisturbedLoadIsComplete,
       Unscanned, Before
<1> QED BY <1>1, <1>2, <1>3, <1>4, <1>5, <1>6, <1>7, <1>8

\* No load is under way.
LEMMA SetHistoryDirIInv == ASSUME IInv, SetHistoryDir PROVE IInv'
<1> USE FilesAssumption, BatchAssumption, ImportsAssumption, StateNames
    DEF IInv, SetHistoryDir, loadVars, stopVars, serviceVars, Files, Parsing, Merging, Stopping
<1>1. TypeOK' BY DEF TypeOK, CursorInv
<1>2. StopInv' BY DEF TypeOK, StopInv
<1>3. TaskInv'
    BY DEF TypeOK, StopInv, TaskInv, CursorInv, CacheOutlivesTasks, Running
<1>4. CursorInv' BY DEF TypeOK, StopInv, CursorInv
<1>5. MergeInv' BY DEF TypeOK, StopInv, CursorInv, MergeInv, Unscanned, Before
<1>6. CacheOutlivesTasks' BY DEF TypeOK, CacheOutlivesTasks, Running
<1>7. StoppedMergeIsPrefix'
    BY DEF TypeOK, StopInv, CursorInv, MergeInv, StoppedMergeIsPrefix, Unscanned, Before
<1>8. UndisturbedLoadIsComplete'
    BY DEF TypeOK, StopInv, TaskInv, CursorInv, MergeInv, UndisturbedLoadIsComplete,
       Unscanned, Before
<1> QED BY <1>1, <1>2, <1>3, <1>4, <1>5, <1>6, <1>7, <1>8

\* Only the history that loads is told to stop.
LEMMA StopImportingIInv == ASSUME IInv, StopImporting PROVE IInv'
<1> USE FilesAssumption, BatchAssumption, ImportsAssumption, StateNames
    DEF IInv, StopImporting, loadVars, stopVars, serviceVars, Files, Parsing, Merging, Stopping
<1>1. TypeOK' BY DEF TypeOK, CursorInv
<1>2. StopInv' BY DEF TypeOK, StopInv
<1>3. TaskInv'
    BY DEF TypeOK, StopInv, TaskInv, CursorInv, CacheOutlivesTasks, Running
<1>4. CursorInv' BY DEF TypeOK, StopInv, CursorInv
<1>5. MergeInv' BY DEF TypeOK, StopInv, CursorInv, MergeInv, Unscanned, Before
<1>6. CacheOutlivesTasks' BY DEF TypeOK, CacheOutlivesTasks, Running
<1>7. StoppedMergeIsPrefix'
    BY DEF TypeOK, StopInv, CursorInv, MergeInv, StoppedMergeIsPrefix, Unscanned, Before
<1>8. UndisturbedLoadIsComplete'
    BY DEF TypeOK, StopInv, TaskInv, CursorInv, MergeInv, UndisturbedLoadIsComplete,
       Unscanned, Before
<1> QED BY <1>1, <1>2, <1>3, <1>4, <1>5, <1>6, <1>7, <1>8

\* A new history has no task and heard no stop.
LEMMA CreateIInv == ASSUME IInv, Create PROVE IInv'
<1> USE FilesAssumption, BatchAssumption, ImportsAssumption, StateNames, NoTasks
    DEF IInv, Create, loadVars, stopVars, serviceVars, Files, Parsing, Merging, Stopping
<1>1. TypeOK'
  <2>1. CASE m_tasks' = <<>>
    <3>1. m_tasks' \in Seq({"ready", "gone"}) BY <2>1, NoTasks
    <3>2. Len(m_tasks') <= NbFiles BY <2>1, NoTasks
    <3> QED BY <3>1, <3>2 DEF TypeOK
  <2>2. CASE m_tasks' = m_tasks BY <2>2 DEF TypeOK
  <2> QED BY <2>1, <2>2
<1>2. StopInv' BY DEF TypeOK, StopInv
<1>3. TaskInv'
    BY DEF TypeOK, StopInv, TaskInv, CursorInv, CacheOutlivesTasks, Running
<1>4. CursorInv' BY DEF TypeOK, StopInv, CursorInv
<1>5. MergeInv' BY DEF TypeOK, StopInv, CursorInv, MergeInv, Unscanned, Before
<1>6. CacheOutlivesTasks' BY DEF TypeOK, CacheOutlivesTasks, Running
<1>7. StoppedMergeIsPrefix'
    BY DEF TypeOK, StopInv, CursorInv, MergeInv, StoppedMergeIsPrefix, Unscanned, Before
<1>8. UndisturbedLoadIsComplete'
    BY DEF TypeOK, StopInv, TaskInv, CursorInv, MergeInv, UndisturbedLoadIsComplete,
       Unscanned, Before
<1> QED BY <1>1, <1>2, <1>3, <1>4, <1>5, <1>6, <1>7, <1>8

\* The load begins, maybe after a stop.
LEMMA StartIInv == ASSUME IInv, Start PROVE IInv'
<1> USE FilesAssumption, BatchAssumption, ImportsAssumption, StateNames
    DEF IInv, Start, loadVars, stopVars, serviceVars, Files, Parsing, Merging, Stopping
<1>1. TypeOK' BY DEF TypeOK, CursorInv
<1>2. StopInv' BY DEF TypeOK, StopInv
<1>3. TaskInv'
    BY DEF TypeOK, StopInv, TaskInv, CursorInv, CacheOutlivesTasks, Running
<1>4. CursorInv' BY DEF TypeOK, StopInv, CursorInv
<1>5. MergeInv' BY DEF TypeOK, StopInv, CursorInv, MergeInv, Unscanned, Before
<1>6. CacheOutlivesTasks' BY DEF TypeOK, CacheOutlivesTasks, Running
<1>7. StoppedMergeIsPrefix'
    BY DEF TypeOK, StopInv, CursorInv, MergeInv, StoppedMergeIsPrefix, Unscanned, Before
<1>8. UndisturbedLoadIsComplete'
    BY DEF TypeOK, StopInv, TaskInv, CursorInv, MergeInv, UndisturbedLoadIsComplete,
       Unscanned, Before
<1> QED BY <1>1, <1>2, <1>3, <1>4, <1>5, <1>6, <1>7, <1>8

\* There may be nothing to parse.
LEMMA ListIInv == ASSUME IInv, List PROVE IInv'
<1> USE FilesAssumption, BatchAssumption, ImportsAssumption, StateNames
    DEF IInv, List, loadVars, stopVars, serviceVars, Files, Parsing, Merging, Stopping
<1>1. TypeOK' BY DEF TypeOK, CursorInv
<1>2. StopInv' BY DEF TypeOK, StopInv
<1>3. TaskInv'
    BY DEF TypeOK, StopInv, TaskInv, CursorInv, CacheOutlivesTasks, Running
<1>4. CursorInv' BY DEF TypeOK, StopInv, CursorInv
<1>5. MergeInv' BY DEF TypeOK, StopInv, CursorInv, MergeInv, Unscanned, Before
<1>6. CacheOutlivesTasks' BY DEF TypeOK, CacheOutlivesTasks, Running
<1>7. StoppedMergeIsPrefix'
    BY DEF TypeOK, StopInv, CursorInv, MergeInv, StoppedMergeIsPrefix, Unscanned, Before
<1>8. UndisturbedLoadIsComplete'
    BY DEF TypeOK, StopInv, TaskInv, CursorInv, MergeInv, UndisturbedLoadIsComplete,
       Unscanned, Before
<1> QED BY <1>1, <1>2, <1>3, <1>4, <1>5, <1>6, <1>7, <1>8

\* A task for the file at the cursor.
LEMMA SubmitIInv == ASSUME IInv, Submit PROVE IInv'
<1> USE FilesAssumption, BatchAssumption, ImportsAssumption, StateNames
    DEF IInv, Submit, loadVars, stopVars, serviceVars, Files, Parsing, Merging, Stopping
<1>1. TypeOK' BY DEF TypeOK, CursorInv
<1>2. StopInv' BY DEF TypeOK, StopInv
<1>3. TaskInv'
    BY DEF TypeOK, StopInv, TaskInv, CursorInv, CacheOutlivesTasks, Running
<1>4. CursorInv' BY DEF TypeOK, StopInv, CursorInv
<1>5. MergeInv' BY DEF TypeOK, StopInv, CursorInv, MergeInv, Unscanned, Before
<1>6. CacheOutlivesTasks' BY DEF TypeOK, CacheOutlivesTasks, Running
<1>7. StoppedMergeIsPrefix'
    BY DEF TypeOK, StopInv, CursorInv, MergeInv, StoppedMergeIsPrefix, Unscanned, Before
<1>8. UndisturbedLoadIsComplete'
    BY DEF TypeOK, StopInv, TaskInv, CursorInv, MergeInv, UndisturbedLoadIsComplete,
       Unscanned, Before
<1> QED BY <1>1, <1>2, <1>3, <1>4, <1>5, <1>6, <1>7, <1>8

\* No task is running when the merge begins.
LEMMA AwaitBatchIInv == ASSUME IInv, AwaitBatch PROVE IInv'
<1> USE FilesAssumption, BatchAssumption, ImportsAssumption, StateNames, ReadyTasks
    DEF IInv, AwaitBatch, loadVars, stopVars, serviceVars, Files, Parsing, Merging, Stopping
<1>1. TypeOK' BY DEF TypeOK, CursorInv
<1>2. StopInv' BY DEF TypeOK, StopInv
<1>3. TaskInv'
    BY DEF TypeOK, StopInv, TaskInv, CursorInv, CacheOutlivesTasks, Running
<1>4. CursorInv' BY DEF TypeOK, StopInv, CursorInv
<1>5. MergeInv'
  <2>1. CASE load' = "submit" BY <2>1 DEF TypeOK, MergeInv
  <2>2. CASE load' = "take"
    <3>1. m_tasks' = [f \in 1 .. cursor - 1 |-> "ready"] /\ cursor - 1 \in Nat BY <2>2 DEF TypeOK
    <3>2. \A i \in DOMAIN m_tasks' : m_tasks'[i] = "ready" BY <3>1
    <3>3. merged' = {} /\ cursor' = 1 /\ sited' = sited BY <2>2 DEF CursorInv
    <3>4. \A f \in sited : f \in Nat /\ f >= 1 BY DEF TypeOK
    <3>5. Before' = {} BY <3>3, <3>4 DEF Before
    <3> QED BY <2>2, <3>2, <3>3, <3>5 DEF MergeInv
  <2> QED BY <2>1, <2>2
<1>6. CacheOutlivesTasks' BY DEF TypeOK, CacheOutlivesTasks, Running
<1>7. StoppedMergeIsPrefix'
    BY DEF TypeOK, StopInv, CursorInv, MergeInv, StoppedMergeIsPrefix, Unscanned, Before
<1>8. UndisturbedLoadIsComplete'
    BY DEF TypeOK, StopInv, TaskInv, CursorInv, MergeInv, UndisturbedLoadIsComplete,
       Unscanned, Before
<1> QED BY <1>1, <1>2, <1>3, <1>4, <1>5, <1>6, <1>7, <1>8

\* The futures from the cursor on are ready, unless a stop took them.
LEMMA TakeIInv == ASSUME IInv, Take PROVE IInv'
<1> USE FilesAssumption, BatchAssumption, ImportsAssumption, StateNames
    DEF IInv, Take, loadVars, stopVars, serviceVars, Files, Parsing, Merging, Stopping
<1>1. TypeOK' BY DEF TypeOK, CursorInv
<1>2. StopInv' BY DEF TypeOK, StopInv
<1>3. TaskInv'
    BY DEF TypeOK, StopInv, TaskInv, CursorInv, CacheOutlivesTasks, Running
<1>4. CursorInv' BY DEF TypeOK, StopInv, CursorInv
<1>5. MergeInv' BY DEF TypeOK, StopInv, CursorInv, MergeInv, Unscanned, Before
<1>6. CacheOutlivesTasks' BY DEF TypeOK, CacheOutlivesTasks, Running
<1>7. StoppedMergeIsPrefix'
    BY DEF TypeOK, StopInv, CursorInv, MergeInv, StoppedMergeIsPrefix, Unscanned, Before
<1>8. UndisturbedLoadIsComplete'
  <2> SUFFICES ASSUME load' = "clear", ~stopCalled PROVE UndisturbedLoadIsComplete'
    BY DEF UndisturbedLoadIsComplete
  <2>1. cursor > NbFiles BY DEF CursorInv
  <2>2. merged = Before BY DEF StopInv, MergeInv, Unscanned
  <2>3. \A f \in sited : f < cursor BY <2>1 DEF TypeOK
  <2>4. Before = sited BY <2>3, Zenon DEF Before
  <2> QED BY <2>2, <2>4 DEF TaskInv, UndisturbedLoadIsComplete
<1> QED BY <1>1, <1>2, <1>3, <1>4, <1>5, <1>6, <1>7, <1>8

\* The Site at the cursor is merged unless m_stop is set.
LEMMA AddIInv == ASSUME IInv, Add PROVE IInv'
<1> USE FilesAssumption, BatchAssumption, ImportsAssumption, StateNames
    DEF IInv, Add, loadVars, stopVars, serviceVars, Files, Parsing, Merging, Stopping
<1>1. TypeOK' BY DEF TypeOK, CursorInv
<1>2. StopInv' BY DEF TypeOK, StopInv
<1>3. TaskInv'
    BY DEF TypeOK, StopInv, TaskInv, CursorInv, CacheOutlivesTasks, Running
<1>4. CursorInv' BY DEF TypeOK, StopInv, CursorInv
<1>5. MergeInv'
  <2>1. cursor \in Nat /\ sited \subseteq Nat /\ cursor' = cursor + 1 /\ sited' = sited BY DEF TypeOK
  <2>2. \A f \in Nat : f < cursor + 1 <=> f < cursor \/ f = cursor BY <2>1
  <2>3. \A f : f \in Before' <=> f \in Before \/ (f \in sited /\ f = cursor) BY <2>1, <2>2 DEF Before
  <2>4. ASSUME ~m_stop, Unscanned PROVE merged' = Before'
    <3>1. merged = Before BY <2>4 DEF MergeInv
    <3>2. merged' = IF cursor \in sited THEN Before \cup {cursor} ELSE Before BY <2>4, <3>1
    <3>3. \A f : f \in merged' <=> f \in Before' BY <2>3, <3>2
    <3> QED BY <3>3 DEF Before
  <2>5. \A i \in DOMAIN m_tasks' : i \in Nat BY DEF TypeOK
  <2>6. ~m_stop /\ Unscanned =>
            \A i \in DOMAIN m_tasks' : i >= cursor' => m_tasks'[i] = "ready"
    BY <2>1, <2>5 DEF MergeInv
  <2>7. merged' \subseteq sited' /\ \A f \in merged' : f < cursor' BY <2>1 DEF TypeOK, MergeInv
  <2> QED BY <2>1, <2>4, <2>5, <2>6, <2>7 DEF MergeInv, Unscanned
<1>6. CacheOutlivesTasks' BY DEF TypeOK, CacheOutlivesTasks, Running
<1>7. StoppedMergeIsPrefix'
    BY DEF TypeOK, StopInv, CursorInv, MergeInv, StoppedMergeIsPrefix, Unscanned, Before
<1>8. UndisturbedLoadIsComplete'
    BY DEF TypeOK, StopInv, TaskInv, CursorInv, MergeInv, UndisturbedLoadIsComplete,
       Unscanned, Before
<1> QED BY <1>1, <1>2, <1>3, <1>4, <1>5, <1>6, <1>7, <1>8

\* The vector is emptied.
LEMMA ClearIInv == ASSUME IInv, Clear PROVE IInv'
<1> USE FilesAssumption, BatchAssumption, ImportsAssumption, StateNames, NoTasks
    DEF IInv, Clear, loadVars, stopVars, serviceVars, Files, Parsing, Merging, Stopping
<1>1. TypeOK' BY DEF TypeOK, CursorInv
<1>2. StopInv' BY DEF TypeOK, StopInv
<1>3. TaskInv'
    BY DEF TypeOK, StopInv, TaskInv, CursorInv, CacheOutlivesTasks, Running
<1>4. CursorInv' BY DEF TypeOK, StopInv, CursorInv
<1>5. MergeInv' BY DEF TypeOK, StopInv, CursorInv, MergeInv, Unscanned, Before
<1>6. CacheOutlivesTasks' BY DEF TypeOK, CacheOutlivesTasks, Running
<1>7. StoppedMergeIsPrefix'
    BY DEF TypeOK, StopInv, CursorInv, MergeInv, StoppedMergeIsPrefix, Unscanned, Before
<1>8. UndisturbedLoadIsComplete'
    BY DEF TypeOK, StopInv, TaskInv, CursorInv, MergeInv, UndisturbedLoadIsComplete,
       Unscanned, Before
<1> QED BY <1>1, <1>2, <1>3, <1>4, <1>5, <1>6, <1>7, <1>8

\* The result is saved.
LEMMA SaveIInv == ASSUME IInv, Save PROVE IInv'
<1> USE FilesAssumption, BatchAssumption, ImportsAssumption, StateNames
    DEF IInv, Save, loadVars, stopVars, serviceVars, Files, Parsing, Merging, Stopping
<1>1. TypeOK' BY DEF TypeOK, CursorInv
<1>2. StopInv' BY DEF TypeOK, StopInv
<1>3. TaskInv'
    BY DEF TypeOK, StopInv, TaskInv, CursorInv, CacheOutlivesTasks, Running
<1>4. CursorInv' BY DEF TypeOK, StopInv, CursorInv
<1>5. MergeInv' BY DEF TypeOK, StopInv, CursorInv, MergeInv, Unscanned, Before
<1>6. CacheOutlivesTasks' BY DEF TypeOK, CacheOutlivesTasks, Running
<1>7. StoppedMergeIsPrefix'
    BY DEF TypeOK, StopInv, CursorInv, MergeInv, StoppedMergeIsPrefix, Unscanned, Before
<1>8. UndisturbedLoadIsComplete'
    BY DEF TypeOK, StopInv, TaskInv, CursorInv, MergeInv, UndisturbedLoadIsComplete,
       Unscanned, Before
<1> QED BY <1>1, <1>2, <1>3, <1>4, <1>5, <1>6, <1>7, <1>8

\* The import is over.
LEMMA OnDoneIInv == ASSUME IInv, OnDone PROVE IInv'
<1> USE FilesAssumption, BatchAssumption, ImportsAssumption, StateNames
    DEF IInv, OnDone, loadVars, stopVars, serviceVars, Files, Parsing, Merging, Stopping
<1>1. TypeOK' BY DEF TypeOK, CursorInv
<1>2. StopInv' BY DEF TypeOK, StopInv
<1>3. TaskInv'
    BY DEF TypeOK, StopInv, TaskInv, CursorInv, CacheOutlivesTasks, Running
<1>4. CursorInv' BY DEF TypeOK, StopInv, CursorInv
<1>5. MergeInv' BY DEF TypeOK, StopInv, CursorInv, MergeInv, Unscanned, Before
<1>6. CacheOutlivesTasks' BY DEF TypeOK, CacheOutlivesTasks, Running
<1>7. StoppedMergeIsPrefix'
    BY DEF TypeOK, StopInv, CursorInv, MergeInv, StoppedMergeIsPrefix, Unscanned, Before
<1>8. UndisturbedLoadIsComplete'
    BY DEF TypeOK, StopInv, TaskInv, CursorInv, MergeInv, UndisturbedLoadIsComplete,
       Unscanned, Before
<1> QED BY <1>1, <1>2, <1>3, <1>4, <1>5, <1>6, <1>7, <1>8

\* What was merged before the stop is a beginning.
LEMMA SetStopIInv == ASSUME IInv, SetStop PROVE IInv'
<1> USE FilesAssumption, BatchAssumption, ImportsAssumption, StateNames
    DEF IInv, SetStop, loadVars, stopVars, serviceVars, Files, Parsing, Merging, Stopping
<1>1. TypeOK' BY DEF TypeOK, CursorInv
<1>2. StopInv' BY DEF TypeOK, StopInv
<1>3. TaskInv'
    BY DEF TypeOK, StopInv, TaskInv, CursorInv, CacheOutlivesTasks, Running
<1>4. CursorInv' BY DEF TypeOK, StopInv, CursorInv
<1>5. MergeInv' BY DEF TypeOK, StopInv, CursorInv, MergeInv, Unscanned, Before
<1>6. CacheOutlivesTasks' BY DEF TypeOK, CacheOutlivesTasks, Running
<1>7. StoppedMergeIsPrefix'
    BY DEF TypeOK, StopInv, CursorInv, MergeInv, StoppedMergeIsPrefix, Unscanned, Before
<1>8. UndisturbedLoadIsComplete'
    BY DEF TypeOK, StopInv, TaskInv, CursorInv, MergeInv, UndisturbedLoadIsComplete,
       Unscanned, Before
<1> QED BY <1>1, <1>2, <1>3, <1>4, <1>5, <1>6, <1>7, <1>8

\* Nothing changes for the load.
LEMMA LoopTestIInv == ASSUME IInv, LoopTest PROVE IInv'
<1> USE FilesAssumption, BatchAssumption, ImportsAssumption, StateNames
    DEF IInv, LoopTest, loadVars, stopVars, serviceVars, Files, Parsing, Merging, Stopping
<1>1. TypeOK' BY DEF TypeOK, CursorInv
<1>2. StopInv' BY DEF TypeOK, StopInv
<1>3. TaskInv'
    BY DEF TypeOK, StopInv, TaskInv, CursorInv, CacheOutlivesTasks, Running
<1>4. CursorInv' BY DEF TypeOK, StopInv, CursorInv
<1>5. MergeInv' BY DEF TypeOK, StopInv, CursorInv, MergeInv, Unscanned, Before
<1>6. CacheOutlivesTasks' BY DEF TypeOK, CacheOutlivesTasks, Running
<1>7. StoppedMergeIsPrefix'
    BY DEF TypeOK, StopInv, CursorInv, MergeInv, StoppedMergeIsPrefix, Unscanned, Before
<1>8. UndisturbedLoadIsComplete'
    BY DEF TypeOK, StopInv, TaskInv, CursorInv, MergeInv, UndisturbedLoadIsComplete,
       Unscanned, Before
<1> QED BY <1>1, <1>2, <1>3, <1>4, <1>5, <1>6, <1>7, <1>8

\* Only a load that heard a stop loses futures.
LEMMA ScanIInv == ASSUME IInv, Scan PROVE IInv'
<1> USE FilesAssumption, BatchAssumption, ImportsAssumption, StateNames
    DEF IInv, Scan, loadVars, stopVars, serviceVars, Files, Parsing, Merging, Stopping
<1>1. TypeOK' BY SMTT(30) DEF TypeOK, CursorInv
<1>2. StopInv' BY DEF TypeOK, StopInv
<1>3. TaskInv'
    BY DEF TypeOK, StopInv, TaskInv, CursorInv, CacheOutlivesTasks, Running
<1>4. CursorInv' BY DEF TypeOK, StopInv, CursorInv
<1>5. MergeInv' BY DEF TypeOK, StopInv, CursorInv, MergeInv, Unscanned, Before
<1>6. CacheOutlivesTasks' BY DEF TypeOK, CacheOutlivesTasks, Running
<1>7. StoppedMergeIsPrefix'
    BY DEF TypeOK, StopInv, CursorInv, MergeInv, StoppedMergeIsPrefix, Unscanned, Before
<1>8. UndisturbedLoadIsComplete'
    BY DEF TypeOK, StopInv, TaskInv, CursorInv, MergeInv, UndisturbedLoadIsComplete,
       Unscanned, Before
<1> QED BY <1>1, <1>2, <1>3, <1>4, <1>5, <1>6, <1>7, <1>8

\* The user interface is free again when no load is under way.
LEMMA AwaitImportIInv == ASSUME IInv, AwaitImport PROVE IInv'
<1> USE FilesAssumption, BatchAssumption, ImportsAssumption, StateNames
    DEF IInv, AwaitImport, loadVars, stopVars, serviceVars, Files, Parsing, Merging, Stopping
<1>1. TypeOK' BY DEF TypeOK, CursorInv
<1>2. StopInv' BY DEF TypeOK, StopInv
<1>3. TaskInv'
    BY DEF TypeOK, StopInv, TaskInv, CursorInv, CacheOutlivesTasks, Running
<1>4. CursorInv' BY DEF TypeOK, StopInv, CursorInv
<1>5. MergeInv' BY DEF TypeOK, StopInv, CursorInv, MergeInv, Unscanned, Before
<1>6. CacheOutlivesTasks' BY DEF TypeOK, CacheOutlivesTasks, Running
<1>7. StoppedMergeIsPrefix'
    BY DEF TypeOK, StopInv, CursorInv, MergeInv, StoppedMergeIsPrefix, Unscanned, Before
<1>8. UndisturbedLoadIsComplete'
    BY DEF TypeOK, StopInv, TaskInv, CursorInv, MergeInv, UndisturbedLoadIsComplete,
       Unscanned, Before
<1> QED BY <1>1, <1>2, <1>3, <1>4, <1>5, <1>6, <1>7, <1>8

\* Tasks run only before the merge.
LEMMA ParseIInv == ASSUME IInv, NEW f \in Files, Parse(f) PROVE IInv'
<1> USE FilesAssumption, BatchAssumption, ImportsAssumption, StateNames
    DEF IInv, Parse, loadVars, stopVars, serviceVars, Files, Parsing, Merging, Stopping
<1>0. load \in Parsing BY DEF CacheOutlivesTasks, Running
<1>1. TypeOK' BY <1>0 DEF TypeOK, CursorInv
<1>2. StopInv' BY <1>0 DEF TypeOK, StopInv
<1>3. TaskInv'
    BY <1>0 DEF TypeOK, StopInv, TaskInv, CursorInv, CacheOutlivesTasks, Running
<1>4. CursorInv' BY <1>0 DEF TypeOK, StopInv, CursorInv
<1>5. MergeInv' BY <1>0 DEF TypeOK, StopInv, CursorInv, MergeInv, Unscanned, Before
<1>6. CacheOutlivesTasks' BY <1>0 DEF TypeOK, CacheOutlivesTasks, Running
<1>7. StoppedMergeIsPrefix'
    BY <1>0 DEF TypeOK, StopInv, CursorInv, MergeInv, StoppedMergeIsPrefix, Unscanned, Before
<1>8. UndisturbedLoadIsComplete'
    BY <1>0 DEF TypeOK, StopInv, TaskInv, CursorInv, MergeInv, UndisturbedLoadIsComplete,
       Unscanned, Before
<1> QED BY <1>1, <1>2, <1>3, <1>4, <1>5, <1>6, <1>7, <1>8

-----------------------------------------------------------------------------
LEMMA StutterIInv == IInv /\ UNCHANGED vars => IInv'
BY DEF IInv, vars, loadVars, stopVars, serviceVars, TypeOK, StopInv, TaskInv, CursorInv, MergeInv,
       CacheOutlivesTasks, StoppedMergeIsPrefix, UndisturbedLoadIsComplete, Running, Parsing,
       Merging, Stopping, Unscanned, Before

LEMMA Inductive == Spec => []IInv
<1>1. ASSUME IInv, [Next]_vars PROVE IInv'
  <2>1. CASE LoadSteps
    BY <1>1, <2>1, CreateIInv, StartIInv, ListIInv, SubmitIInv, AwaitBatchIInv, TakeIInv, AddIInv,
       ClearIInv, SaveIInv, OnDoneIInv DEF LoadSteps
  <2>2. CASE StopSteps
    BY <1>1, <2>2, SetStopIInv, LoopTestIInv, ScanIInv, AwaitImportIInv DEF StopSteps
  <2>3. CASE ImportHistory \/ SetHistoryDir \/ StopImporting
    BY <1>1, <2>3, ImportHistoryIInv, SetHistoryDirIInv, StopImportingIInv
  <2>4. CASE \E f \in Files : Parse(f) BY <1>1, <2>4, ParseIInv
  <2>5. CASE UNCHANGED vars BY <1>1, <2>5, StutterIInv
  <2> QED BY <1>1, <2>1, <2>2, <2>3, <2>4, <2>5 DEF Next
<1> QED BY InitIInv, <1>1, PTL DEF Spec

\* Every variable keeps its type (history/WinamaxHistory.cpp:80-138, 176-239,
\* gui/HistoryService.cpp:43-97).
THEOREM TypeCorrect == Spec => []TypeOK
<1>1. IInv => TypeOK BY DEF IInv
<1> QED BY Inductive, <1>1, PTL

\* No task of parseFilesAsyncBatched runs once the merge began: the cache and the
\* flag they refer to outlive them (WinamaxHistory.cpp:101-131, 193-212).
THEOREM CacheIsSafe == Spec => []CacheOutlivesTasks
<1>1. IInv => CacheOutlivesTasks BY DEF IInv
<1> QED BY Inductive, <1>1, PTL

\* A stop cuts the merge short and never makes a hole in it, although
\* stopLoading() and load() take futures from one vector (lines 200-207, 231-238).
THEOREM StopLeavesPrefix == Spec => []StoppedMergeIsPrefix
<1>1. IInv => StoppedMergeIsPrefix BY DEF IInv
<1> QED BY Inductive, <1>1, PTL

\* A load() that nobody stops gives every Site that its tasks gave, for any
\* number of files and size of the batches (lines 80-138, 196-207).
THEOREM LoadIsComplete == Spec => []UndisturbedLoadIsComplete
<1>1. IInv => UndisturbedLoadIsComplete BY DEF IInv
<1> QED BY Inductive, <1>1, PTL
-----------------------------------------------------------------------------
\* The rest of a number by the size of the batches grows by one, or starts again.
LEMMA Multiples ==
    ASSUME NEW b \in Nat \ {0}, NEW p \in Nat, NEW q \in Nat, p < q
    PROVE  b * p + b <= b * q
<1>1. b * q - b * p = b * (q - p) /\ q - p >= 1 BY SMT
<1>2. b * (q - p) >= b * 1 BY <1>1, SMT
<1> QED BY <1>1, <1>2, SMT

LEMMA NextRest ==
    ASSUME NEW n \in Nat, NEW b \in Nat \ {0}
    PROVE  /\ n % b \in 0 .. b - 1
           /\ (n + 1) % b = IF n % b = b - 1 THEN 0 ELSE (n % b) + 1
<1> DEFINE p == n \div b
           q == (n + 1) \div b
           r == n % b
           s == (n + 1) % b
<1>1. n = b * p + r /\ r \in 0 .. b - 1 /\ p \in Nat BY SMT
<1>2. n + 1 = b * q + s /\ s \in 0 .. b - 1 /\ q \in Nat BY SMT
<1>3. b * p \in Nat /\ b * q \in Nat BY <1>1, <1>2, SMT
<1> HIDE DEF p, q, r, s
<1>4. CASE p < q BY <1>1, <1>2, <1>3, <1>4, Multiples DEF r, s
<1>5. CASE q < p BY <1>1, <1>2, <1>3, <1>5, Multiples DEF r, s
<1>6. CASE q = p BY <1>1, <1>2, <1>3, <1>6 DEF r, s
<1> QED BY <1>1, <1>2, <1>4, <1>5, <1>6

\* The files that are parsed were submitted since the last multiple of the size of
\* the batches, before the cursor.
BatchInv == \A f \in Running :
    /\ load = "submit" => f < cursor /\ f >= cursor - ((cursor - 1) % BatchSize)
    /\ load = "await" => f < cursor /\ f >= cursor - BatchSize

LEMMA SubmitBatch == ASSUME TypeOK, BatchInv, Submit PROVE BatchInv'
<1> USE FilesAssumption, BatchAssumption DEF Submit, Files
<1>1. /\ cursor - 1 \in Nat /\ (cursor - 1) % BatchSize \in 0 .. BatchSize - 1
      /\ cursor % BatchSize = IF (cursor - 1) % BatchSize = BatchSize - 1 THEN 0
                              ELSE ((cursor - 1) % BatchSize) + 1
  <2> DEFINE n == cursor - 1
  <2>1. n \in Nat /\ n + 1 = cursor /\ BatchSize \in Nat \ {0} BY DEF TypeOK
  <2> HIDE DEF n
  <2>2. /\ n % BatchSize \in 0 .. BatchSize - 1
        /\ (n + 1) % BatchSize = IF n % BatchSize = BatchSize - 1 THEN 0 ELSE (n % BatchSize) + 1
    BY <2>1, NextRest
  <2> QED BY <2>1, <2>2 DEF n
<1>2. CASE load' = "await" /\ UNCHANGED <<task, cursor>>
  BY <1>1, <1>2 DEF BatchInv, TypeOK, Running
<1>3. CASE /\ task' = [task EXCEPT ![cursor] = "running"] /\ cursor' = cursor + 1
           /\ load' = IF cursor % BatchSize = 0 THEN "await" ELSE "submit"
  <2>1. Running' \subseteq Running \cup {cursor} BY <1>3 DEF Running, TypeOK
  <2>2. cursor' - 1 = cursor BY <1>3 DEF TypeOK
  <2> QED BY <1>1, <1>3, <2>1, <2>2 DEF BatchInv, TypeOK, Running
<1> QED BY <1>2, <1>3

LEMMA BatchNext == ASSUME IInv, IInv', BatchInv, [Next]_vars PROVE BatchInv'
<1>1. CASE Submit BY <1>1, SubmitBatch DEF IInv
<1>2. CASE AwaitBatch BY <1>2 DEF AwaitBatch, BatchInv, Running, IInv
<1>3. ASSUME NEW f \in Files, Parse(f) PROVE BatchInv'
  <2>1. Running' \subseteq Running BY <1>3 DEF Parse, Running, IInv, TypeOK
  <2>2. UNCHANGED <<load, cursor>> BY <1>3 DEF Parse
  <2> QED BY <2>1, <2>2 DEF BatchInv
<1>4. CASE UNCHANGED <<load, cursor, task>> BY <1>4 DEF BatchInv, Running
<1>5. CASE List
  <2>1. Running' = {} BY <1>5 DEF List, Running, IInv, TaskInv
  <2> QED BY <2>1 DEF BatchInv
<1>6. CASE load' \notin {"submit", "await"} BY <1>6 DEF BatchInv
<1> QED
  BY <1>1, <1>2, <1>3, <1>4, <1>5, <1>6
  DEF Next, LoadSteps, StopSteps, ImportHistory, SetHistoryDir, StopImporting, Create, Start, Take,
      Add, Clear, Save, OnDone, SetStop, LoopTest, Scan, AwaitImport, vars, loadVars

\* "Parse files in batches to limit concurrency" (WinamaxHistory.cpp:78), for any
\* number of files and size of the batches.
THEOREM BatchesAreLimited == Spec => []BatchesLimitTasks
<1>1. Init => BatchInv BY DEF Init, BatchInv
<1>2. ASSUME IInv, BatchInv PROVE BatchesLimitTasks
  <2>1. CASE Running = {} BY <2>1, FS_EmptySet, BatchAssumption DEF BatchesLimitTasks
  <2>2. CASE Running # {}
    <3>1. /\ cursor \in Nat \ {0} /\ BatchSize \in Nat \ {0}
          /\ (cursor - 1) % BatchSize \in 0 .. BatchSize - 1
      <4>1. cursor - 1 \in Nat BY <1>2, FilesAssumption DEF IInv, TypeOK
      <4> QED BY <4>1, NextRest, BatchAssumption, <1>2, FilesAssumption DEF IInv, TypeOK
    <3>2. Running \subseteq cursor - BatchSize .. cursor - 1
      BY <1>2, <2>2, <3>1, FilesAssumption DEF IInv, CacheOutlivesTasks, BatchInv, Running, Files
    <3>3. /\ IsFiniteSet(cursor - BatchSize .. cursor - 1)
          /\ Cardinality(cursor - BatchSize .. cursor - 1) = BatchSize
      <4> DEFINE a == cursor - BatchSize
                 b == cursor - 1
      <4>1. a \in Int /\ b \in Int /\ ~(a > b) /\ b - a + 1 = BatchSize BY <3>1
      <4> HIDE DEF a, b
      <4>2. IsFiniteSet(a .. b) /\ Cardinality(a .. b) = BatchSize BY <4>1, FS_Interval
      <4> QED BY <4>2 DEF a, b
    <3>4. Cardinality(Running) <= Cardinality(cursor - BatchSize .. cursor - 1)
      BY <3>2, <3>3, FS_Subset
    <3> QED BY <3>3, <3>4 DEF BatchesLimitTasks
  <2> QED BY <2>1, <2>2
<1> QED BY <1>1, <1>2, BatchNext, Inductive, PTL DEF Spec
=============================================================================
