-------------------------------- MODULE Hud --------------------------------
(***************************************************************************)
(* The head-up display: gui/TableWatcher.cpp polls the titles of the poker *)
(* windows, gui/GuiFltk.cpp keeps the indicators of each table,            *)
(* gui/TableService.cpp watches a history file and runs a chain of pool    *)
(* tasks (parse, save, extract, notify) whenever it is modified.           *)
(*                                                                         *)
(* Four kinds of threads: the user interface, which executes the functions *)
(* given to Fl::awake in order; the pool thread of the TableWatcher; the   *)
(* thread of the file watcher; the pool threads of the chains.  A chain    *)
(* whose future is replaced or dropped finishes the step it is in and goes *)
(* no further.  A save may throw because another one has a transaction     *)
(* open, or log the games it could not store and return (module Database); *)
(* a parser may never leave a file that is cut (module HandParser).  The   *)
(* hands that an import stores are left out.                               *)
(* m_reloadTask is changed without a lock by the user interface and by the *)
(* watcher: each access is atomic here.                                    *)
(***************************************************************************)
EXTENDS Naturals, Sequences, FiniteSets

CONSTANTS Tables,     \* the poker tables, by the title of their window
          Dirs,       \* the history directories
          MaxChanges, \* bound on the changes of the set of windows
          MaxWrites,  \* bound on the modifications of history files
          None        \* no table, no chain, no directory, no Site

ASSUME NoneAssumption == None \notin Tables /\ None \notin Dirs /\ None \notin 0 .. MaxWrites
ASSUME TablesAssumption == IsFiniteSet(Tables)
ASSUME BoundAssumption == MaxChanges \in Nat /\ MaxWrites \in Nat

VARIABLES windows,                    \* the titles of the poker windows, in screen order
          file,                       \* the number of hands in each history file
          m_currentTableWindowTitles, \* of the TableWatcher: the titles it saw last
          awake,                      \* the functions that wait for the user interface
          ui, uiTitles, uiTable,      \* what the user interface does, for which table
          left,                       \* an exception made it leave the function for the tables
          m_playerIndicators,         \* the tables that have an entry
          shown,                      \* the hands behind the statistics on display
          historyDir, tableDir,       \* m_historyDir of the two services
          m_fileWatcher,              \* the table whose file is watched
          started,                    \* the tables for which a watch began
          event, callback,            \* a modification to notify; the callback under way
          m_reloadTask, awaited,      \* the chain the service holds, and the one it awaits
          orphans,                    \* the steps under way of the chains dropped
          db,                         \* the hands of each table in the database
          crashed,                    \* the program was aborted
          changes, writes             \* counters, at most MaxChanges and MaxWrites

screen == <<windows, file, changes, writes>>
uiVars == <<ui, uiTitles, uiTable, left, m_playerIndicators, shown>>
dirs == <<historyDir, tableDir>>
watch == <<m_fileWatcher, started, event, callback>>
chains == <<m_reloadTask, awaited, orphans>>
vars == <<screen, m_currentTableWindowTitles, awake, uiVars, dirs, watch, chains, db, crashed>>

Titles(s) == {s[i] : i \in DOMAIN s}
TitleLists == UNION {{s \in [1 .. n -> Tables] : Cardinality(Titles(s)) = n} :
                     n \in 0 .. Cardinality(Tables)}
Hands == 0 .. MaxWrites
\* "looping": the parser that the step runs never returns.  A chain has lost hands
\* when its save logged a game that it could not store.
Steps == {"parse", "looping", "save", "extract", "notify", "done", "threw"}
Chain == [table : Tables, step : Steps, running : BOOLEAN, hands : Hands \cup {None},
          lost : BOOLEAN, stats : Hands]
UiTask == [kind : {"tables"}, titles : TitleLists] \cup [kind : {"stats"}, table : Tables, stats : Hands]
-----------------------------------------------------------------------------
Init == /\ windows = <<>> /\ m_currentTableWindowTitles = <<>>
        /\ file = [t \in Tables |-> 0] /\ db = [t \in Tables |-> 0]
        /\ awake = <<>>
        /\ ui = "idle" /\ uiTitles = <<>> /\ uiTable = None /\ left = FALSE
        /\ m_playerIndicators = {} /\ shown = [t \in Tables |-> 0]
        /\ historyDir \in Dirs \cup {None} /\ tableDir = historyDir
        /\ m_fileWatcher = None /\ started = {} /\ event = FALSE /\ callback = None
        /\ m_reloadTask = None /\ awaited = None /\ orphans = {}
        /\ crashed = FALSE
        /\ changes = 0 /\ writes = 0

\* The player opens, closes or reorders the windows of his tables ...
ChangeWindows == /\ ~crashed /\ changes < MaxChanges
                 /\ changes' = changes + 1
                 /\ windows' \in TitleLists \ {windows}
                 /\ UNCHANGED <<file, writes, m_currentTableWindowTitles, awake, uiVars, dirs,
                                watch, chains, db, crashed>>

\* ... and the poker program writes the hands played at an open one.
Write(t) == /\ ~crashed /\ t \in Titles(windows) /\ writes < MaxWrites
            /\ writes' = writes + 1
            /\ file' = [file EXCEPT ![t] = @ + 1]
            /\ event' = (event \/ m_fileWatcher = t)
            /\ UNCHANGED <<windows, changes, m_currentTableWindowTitles, awake, uiVars, dirs,
                           m_fileWatcher, started, callback, chains, db, crashed>>

\* handleOk: the directory chosen is given to the HistoryService; the
\* TableService gets the history object of that directory.
ChooseDir(d) == /\ ~crashed /\ ui = "idle"
                /\ historyDir' = d
                /\ UNCHANGED <<tableDir, screen, m_currentTableWindowTitles, awake, uiVars,
                               watch, chains, db, crashed>>

\* Mutant of CheckForTables: the callback is not told that all windows are lost.
CheckQuietLoss == /\ ~crashed /\ windows # m_currentTableWindowTitles
                  /\ m_currentTableWindowTitles' = windows
                  /\ awake' = IF windows = <<>> THEN awake
                              ELSE Append(awake, [kind |-> "tables", titles |-> windows])
                  /\ UNCHANGED <<screen, uiVars, dirs, watch, chains, db, crashed>>

\* TableWatcher: one period of the task; the callback asks for a UI task.
CheckForTables == /\ ~crashed /\ windows # m_currentTableWindowTitles
                  /\ m_currentTableWindowTitles' = windows
                  /\ awake' = Append(awake, [kind |-> "tables", titles |-> windows])
                  /\ UNCHANGED <<screen, uiVars, dirs, watch, chains, db, crashed>>
-----------------------------------------------------------------------------
\* The user interface takes the next function of Fl::awake.
BeginTables == /\ ~crashed /\ ui = "idle" /\ awake # <<>> /\ Head(awake).kind = "tables"
               /\ ui' = "remove" /\ uiTitles' = Head(awake).titles /\ left' = FALSE
               /\ awake' = Tail(awake)
               /\ UNCHANGED <<screen, m_currentTableWindowTitles, uiTable, m_playerIndicators,
                              shown, dirs, watch, chains, db, crashed>>

\* The function of buildTableObserver: the table may be closed or forgotten.
ShowStats == /\ ~crashed /\ ui = "idle" /\ awake # <<>> /\ Head(awake).kind = "stats"
             /\ LET t == Head(awake).table IN
                shown' = IF t \in Titles(windows) /\ t \in m_playerIndicators
                         THEN [shown EXCEPT ![t] = Head(awake).stats] ELSE shown
             /\ awake' = Tail(awake)
             /\ UNCHANGED <<screen, m_currentTableWindowTitles, ui, uiTitles, uiTable,
                            left, m_playerIndicators, dirs, watch, chains, db, crashed>>

\* TableService::stopProducingStats stops the only watcher there is, and awaits
\* the only chain it holds.
StopProducingStats == /\ m_fileWatcher' = None /\ event' = FALSE
                      /\ awaited' = m_reloadTask /\ m_reloadTask' = None

\* removeUselessPlayerIndicators, the head of the loop: a table was closed.
Gone == m_playerIndicators \ Titles(uiTitles)
Remove == /\ ~crashed /\ ui = "remove"
          /\ IF Gone = {}
             THEN /\ ui' = "add" /\ UNCHANGED <<uiTable, m_fileWatcher, event, m_reloadTask, awaited>>
             ELSE /\ uiTable' \in Gone
                  /\ ui' = "await"
                  /\ StopProducingStats
          /\ UNCHANGED <<screen, m_currentTableWindowTitles, awake, uiTitles, left, m_playerIndicators,
                         shown, dirs, started, callback, orphans, db, crashed>>

\* The step that a dropped chain is in goes on alone.
Dropped(c) == IF c # None /\ c.running THEN {c} ELSE {}

Ended(c, step) == IF c = None THEN step = "done" ELSE c.step = step

\* Mutant of Await: a chain that threw is awaited for ever.
AwaitDone == /\ ~crashed /\ ui = "await" /\ Ended(awaited, "done")
             /\ awaited' = None /\ ui' = "remove"
             /\ m_playerIndicators' = m_playerIndicators \ {uiTable}
             /\ shown' = [shown EXCEPT ![uiTable] = 0]
             /\ m_reloadTask' = None /\ orphans' = orphans \cup Dropped(m_reloadTask)
             /\ UNCHANGED <<screen, m_currentTableWindowTitles, awake, uiTitles, uiTable, left,
                            dirs, watch, db, crashed>>

\* The rest of stopProducingStats and of the loop: await throws what the chain
\* threw, and the whole function of Fl::awake is left.
Await == /\ ~crashed /\ ui = "await"
         /\ awaited' = None
         /\ \/ /\ Ended(awaited, "done")
               /\ ui' = "remove"
               /\ m_playerIndicators' = m_playerIndicators \ {uiTable}
               /\ shown' = [shown EXCEPT ![uiTable] = 0]
               /\ m_reloadTask' = None /\ orphans' = orphans \cup Dropped(m_reloadTask)
               /\ UNCHANGED left
            \/ /\ Ended(awaited, "threw")
               /\ ui' = "idle" /\ left' = TRUE
               /\ UNCHANGED <<m_playerIndicators, shown, m_reloadTask, orphans>>
         /\ UNCHANGED <<screen, m_currentTableWindowTitles, awake, uiTitles, uiTable, dirs,
                        watch, db, crashed>>

\* TableService::startProducingStats needs a recent file of the table in
\* m_historyDir.  The new watcher replaces the one of the service.
StartProducingStats(t) ==
    \/ /\ tableDir # None
       /\ m_fileWatcher' = t /\ event' = FALSE
       /\ started' = started \cup {t}
    \/ UNCHANGED <<m_fileWatcher, event, started>>

\* updateUsefulPlayerIndicators: an entry for the next new table, watched or not.
Add == /\ ~crashed /\ ui = "add"
       /\ LET new == {i \in DOMAIN uiTitles : uiTitles[i] \notin m_playerIndicators} IN
          \/ /\ new = {} /\ ui' = "idle"
             /\ UNCHANGED <<m_playerIndicators, m_fileWatcher, started, event>>
          \/ \E i \in new :
                /\ \A j \in new : i <= j
                /\ m_playerIndicators' = m_playerIndicators \cup {uiTitles[i]}
                /\ StartProducingStats(uiTitles[i])
                /\ UNCHANGED ui
       /\ UNCHANGED <<screen, m_currentTableWindowTitles, awake, uiTitles, uiTable, left, shown,
                      dirs, callback, chains, db, crashed>>
-----------------------------------------------------------------------------
\* EfswFileWatcher::handleFileAction, which does not look at m_stopped ...
HandleFileAction == /\ ~crashed /\ event /\ callback = None
                    /\ event' = FALSE /\ callback' = m_fileWatcher
                    /\ UNCHANGED <<screen, m_currentTableWindowTitles, awake, uiVars, dirs,
                                   m_fileWatcher, started, chains, db, crashed>>

NewChain(t) == [table |-> t, step |-> "parse", running |-> FALSE, hands |-> None, lost |-> FALSE,
                stats |-> 0]


\* ... and calls the lambda of watchHistoFile: a new chain replaces the old one.
Callback == /\ ~crashed /\ callback # None
            /\ callback' = None
            /\ m_reloadTask' = NewChain(callback)
            /\ orphans' = orphans \cup Dropped(m_reloadTask)
            /\ UNCHANGED <<screen, m_currentTableWindowTitles, awake, uiVars, dirs,
                           m_fileWatcher, started, event, awaited, db, crashed>>

\* A pool thread begins the next step of c, which becomes d: the file is read
\* from here on.
Begins(c, d) == /\ c.step \in {"parse", "save", "extract", "notify"} /\ ~c.running
                /\ d = [c EXCEPT !.running = TRUE,
                                 !.hands = IF c.step = "parse" THEN file[c.table] ELSE @]
                /\ UNCHANGED <<db, awake, crashed>>

Then(c, step) == [c EXCEPT !.step = step, !.running = FALSE]

\* Mutant of Parsed: the Site is not saved before the statistics are read.
ParsedNotSaved(c, d) == /\ c.step = "parse"
                        /\ d = Then(c, "extract")
                        /\ UNCHANGED <<db, awake, crashed>>

\* reloadFile gives a null pointer when the parser throws, and does not return when
\* the parser loops on a file that is cut after the seats of a hand.
Parsed(c, d) == /\ c.step = "parse"
                /\ d \in {Then(c, "save"), [Then(c, "save") EXCEPT !.hands = None],
                          [c EXCEPT !.step = "looping", !.hands = None]}
                /\ UNCHANGED <<db, awake, crashed>>

\* Mutant of Saved: the hands of the file are added to those already stored.
SavedAgain(c, d) == /\ c.step = "save" /\ c.hands # None
                    /\ d = Then(c, "extract")
                    /\ db' = [db EXCEPT ![c.table] = @ + c.hands]
                    /\ UNCHANGED <<crashed, awake>>

\* The Site is saved without a look at the pointer.  save() may throw, or log that
\* the game was not stored, or not to its end, commit what was and return.
Saved(c, d) == /\ c.step = "save"
               /\ \/ /\ c.hands = None
                     /\ crashed' = TRUE /\ d = c /\ UNCHANGED db
                  \/ /\ c.hands # None
                     /\ d = Then(c, "extract")
                     /\ db' = [db EXCEPT ![c.table] = IF @ < c.hands THEN c.hands ELSE @]
                     /\ UNCHANGED crashed
                  \/ /\ c.hands # None
                     /\ d = [Then(c, "extract") EXCEPT !.lost = TRUE]
                     /\ \E n \in 0 .. c.hands : db' = [db EXCEPT ![c.table] = IF @ < n THEN n ELSE @]
                     /\ UNCHANGED crashed
                  \/ /\ c.hands # None
                     /\ d = Then(c, "threw") /\ UNCHANGED <<db, crashed>>
               /\ UNCHANGED awake

\* The queries give what is stored, or throw.
Extracted(c, d) == /\ c.step = "extract"
                   /\ d \in {[Then(c, "notify") EXCEPT !.stats = db[c.table]], Then(c, "threw")}
                   /\ UNCHANGED <<db, awake, crashed>>

\* The observer asks for a UI task, unless there is no statistic at all.
Notified(c, d) == /\ c.step = "notify"
                  /\ d = Then(c, "done")
                  /\ awake' = IF c.stats = 0 THEN awake
                              ELSE Append(awake, [kind |-> "stats", table |-> c.table,
                                                  stats |-> c.stats])
                  /\ UNCHANGED <<db, crashed>>

\* What a chain may be after its step.
Successors(c) == [table : {c.table}, step : Steps, running : {c.running, FALSE},
                  hands : {c.hands, None}, lost : {c.lost, TRUE}, stats : {c.stats, db[c.table]}]

Ends(c, d) == c.running /\ (Parsed(c, d) \/ Saved(c, d) \/ Extracted(c, d) \/ Notified(c, d))

ChainStep == /\ ~crashed /\ m_reloadTask # None
             /\ Begins(m_reloadTask, m_reloadTask') \/ Ends(m_reloadTask, m_reloadTask')
             /\ UNCHANGED <<screen, m_currentTableWindowTitles, uiVars, dirs, watch, awaited, orphans>>

AwaitedStep == /\ ~crashed /\ awaited # None
               /\ Begins(awaited, awaited') \/ Ends(awaited, awaited')
               /\ UNCHANGED <<screen, m_currentTableWindowTitles, uiVars, dirs, watch,
                              m_reloadTask, orphans>>

\* The last step of a chain that was dropped has no successor, if it ends.
OrphanStep(c) == /\ ~crashed /\ c \in orphans
                 /\ \E d \in Successors(c) : Ends(c, d) /\ orphans' = (orphans \ {c}) \cup Dropped(d)
                 /\ UNCHANGED <<screen, m_currentTableWindowTitles, uiVars, dirs, watch,
                                m_reloadTask, awaited>>
-----------------------------------------------------------------------------
Player == ChangeWindows \/ (\E t \in Tables : Write(t)) \/ \E d \in Dirs : ChooseDir(d)
UiSteps == BeginTables \/ ShowStats \/ Remove \/ Await \/ Add

Next == \/ Player \/ CheckForTables \/ UiSteps
        \/ HandleFileAction \/ Callback
        \/ ChainStep \/ AwaitedStep \/ \E c \in orphans : OrphanStep(c)

Spec == Init /\ [][Next]_vars

\* Every thread is scheduled; only the player has nothing he must do.  A pool thread
\* that loops in a parser is lost for the other chains: the liveness properties
\* promise nothing from then on.
Fairness == /\ WF_vars(CheckForTables) /\ WF_vars(UiSteps)
            /\ WF_vars(HandleFileAction) /\ WF_vars(Callback)
            /\ WF_vars(ChainStep) /\ WF_vars(AwaitedStep)

FairSpec == Spec /\ Fairness
-----------------------------------------------------------------------------
TypeOK == /\ windows \in TitleLists /\ m_currentTableWindowTitles \in TitleLists
          /\ file \in [Tables -> Hands] /\ db \in [Tables -> Hands] /\ shown \in [Tables -> Hands]
          /\ awake \in Seq(UiTask)
          /\ ui \in {"idle", "remove", "await", "add"}
          /\ uiTitles \in TitleLists /\ uiTable \in Tables \cup {None}
          /\ left \in BOOLEAN /\ m_playerIndicators \subseteq Tables
          /\ historyDir \in Dirs \cup {None} /\ tableDir \in Dirs \cup {None}
          /\ m_fileWatcher \in Tables \cup {None} /\ started \subseteq Tables
          /\ event \in BOOLEAN /\ callback \in Tables \cup {None}
          /\ m_reloadTask \in Chain \cup {None} /\ awaited \in Chain \cup {None}
          /\ orphans \subseteq Chain
          /\ crashed \in BOOLEAN
          /\ changes \in 0 .. MaxChanges /\ writes \in 0 .. MaxWrites

\* The statistics that a chain shows include every hand of the file it read, unless
\* its own save logged a game that it could not store: the save comes before the
\* query, and no failure of another chain takes the hands back
\* (TableService.cpp:131-151, Database.cpp:299-326).
StatsIncludeFile == \A c \in ({m_reloadTask, awaited} \ {None}) \cup orphans :
    c.step \in {"notify", "done"} /\ ~c.lost => c.stats >= c.hands

\* When the user interface has no more to do, the tables with an entry are the
\* windows the watcher saw last, whatever came in between: unless an exception of
\* a chain made it leave the function (GuiFltk.cpp:348-414, TableWatcher.cpp:41-58).
EntriesFollowWindows ==
    ui = "idle" /\ ~left /\ (\A i \in DOMAIN awake : awake[i].kind # "tables")
        => m_playerIndicators = Titles(m_currentTableWindowTitles)

\* A parser that never returns (WinamaxHistory.cpp:241-252): its pool thread is
\* lost, and so is who awaits the chain.
EndlessParse == \E c \in ({m_reloadTask, awaited} \ {None}) \cup orphans : c.step = "looping"

\* stopProducingStats returns to the user interface, whether the chain it awaits
\* succeeds or throws, unless a parser never returns (TableService.cpp:225-233).
StopReturns == (ui = "await") ~> (ui # "await" \/ crashed \/ EndlessParse)


\* "update the PlayerIndicators with the latest stats" (GuiFltk.cpp:322): the
\* display of a table never goes back to the statistics of fewer hands.
LatestStatsAreShown == [][\A t \in Tables : shown'[t] >= shown[t] \/ t \notin m_playerIndicators']_vars

\* "Starts producing statistics for the given table" (TableService.hpp:42): a
\* table whose watch began is watched until its window is closed.
StartedTablesAreWatched ==
    ui = "idle" => \A t \in started \cap m_playerIndicators \cap Titles(windows) : m_fileWatcher = t

\* "Connect HistoryService and TableService" (GuiFltk.cpp:461): they look for
\* history files in the same directory.
ServicesAgree == ui = "idle" => tableDir = historyDir
=============================================================================
