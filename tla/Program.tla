------------------------------ MODULE Program ------------------------------
(***************************************************************************)
(* The program from its launch to its end: phud/phud.cpp, the beginning    *)
(* and the end of gui/GuiFltk.cpp, gui/Preferences.cpp, the life of the    *)
(* two services and of the database, and the tool dbgen/dbgen.cpp.         *)
(*                                                                         *)
(* Three things outlive the process: the configuration file, the           *)
(* preferences that FLTK writes when their object is destroyed, and the    *)
(* database.  The process may be killed at any step.  Meanwhile the user   *)
(* changes the history directories.                                        *)
(*                                                                         *)
(* The import and the reloads are chains of pool tasks, with two steps     *)
(* here: load or reload files, save (modules HistoryImport, Hud, Database  *)
(* have the details).  A save may throw; a chain that lost its future ends *)
(* the step it is in.  ThreadPool::stop, that is stlab::pre_exit, is taken *)
(* to run what was submitted, and nothing after that.                      *)
(***************************************************************************)
EXTENDS Naturals, Sequences, FiniteSets, Startup, HistoryFiles

CONSTANTS Dirs,        \* the paths of directories; "" is the current one
          LongDirs,    \* those with more than MAX_PATH_LENGTH characters
          Contents,    \* what a directory may hold: NotFound (no directory), NoDir
                       \* (no 'history' in it), or the entries of 'history'
          Disks,       \* what the directories hold at the beginning
          Arguments,   \* the command lines of phud
          ToolArguments, \* those of dbgen
          Configs,     \* the files the user may write himself
          Titles,      \* titles of windows
          Places,      \* where the user may put the main window
          NbQueries,   \* how many queries create the schema
          MaxLaunches, MaxCrashes, MaxChanges, MaxChoices, MaxEvents

ASSUME DirAssumption == /\ "" \in Dirs /\ LongDirs \subseteq Dirs \ {""}
                        /\ Disks \subseteq [Dirs -> Contents]
ASSUME ConstantAssumption == /\ NbQueries \in Nat \ {0}
                             /\ {MaxLaunches, MaxCrashes, MaxChanges, MaxChoices, MaxEvents} \subseteq Nat
\* The model values are none of the values of the program.
ASSUME MarkersAssumption ==
    /\ {Failed, Aborted} \cap ({None, Help, "ended", "killed"} \cup Dirs \cup LoggingLevels) = {}
    /\ None \notin Dirs \cup LoggingLevels /\ NoEqual # Blank
    /\ \A dir \in Dirs \cup {None}, level \in LoggingLevels \cup {None} :
          [dir |-> dir, level |-> level] \notin {Failed, Aborted}
    /\ \A i \in {5, 9, 12} : DefaultConfigFile[i] \notin {Blank, NoEqual}
    /\ NotFound \notin (0 .. NbQueries) /\ NotFound \notin Configs \cup {<<>>, DefaultConfigFile}

VARIABLES config,      \* phud-config.properties: its lines, or NotFound
          preferences, \* on the disk: the directory ("" for none), the window
          schema,      \* the queries done on phud.db, or NotFound
          histories,   \* what each directory holds
          pc,          \* where the main thread is
          args, parsed, oHistoDir, \* the arguments; what was read of them and of the file
          outcome,     \* how the last process ended
          m_preferences, \* the preferences in memory
          window,      \* where the main window is
          active,      \* the button that chooses a directory can be clicked
          uiTasks,     \* the functions that wait for the user interface
          hs, ts,      \* the two services: m_historyDir, m_pokerSiteHistory or not
          m_fileWatcher, \* the file it watches
          callback,    \* a callback of the file watcher is under way
          futures,     \* the chains of m_loadTask, of m_reloadTask, and of the one awaited
          orphans,     \* those that lost their future
          pool,        \* the pool runs tasks
          latest, remembered, \* what the user chose in this process; in those that ended well
          moved,       \* a directory changed since the launch
          launches, crashes, changes, choices, events \* counters

disk == <<config, preferences, schema>>
settings == <<args, parsed, oHistoDir>>
gui == <<m_preferences, window, active, uiTasks>>
services == <<hs, ts, m_fileWatcher, callback>>
chains == <<futures, orphans, pool>>
notes == <<latest, remembered, moved>>
counts == <<launches, crashes, changes, choices, events>>
memory == <<gui, services, chains, latest>>
vars == <<disk, histories, pc, settings, outcome, memory, remembered, moved, counts>>

HistoryOf(d) == IF histories[d] = NotFound THEN NoDir ELSE histories[d]
IsValid(d) == isValidHistory(HistoryOf(d))
ExistingDirs == {d \in Dirs \ {""} : histories[d] # NotFound}

NoPreferences == [dir |-> "", window |-> "centre"]
NoFuture == [import |-> None, reload |-> None, awaited |-> None]
NoService == [dir |-> "", history |-> FALSE]
NothingInMemory == /\ m_preferences = NoPreferences /\ window = "centre" /\ active = TRUE /\ uiTasks = <<>>
                   /\ hs = NoService /\ ts = NoService /\ m_fileWatcher = None /\ callback = FALSE
                   /\ futures = NoFuture /\ orphans = {} /\ pool = TRUE
                   /\ latest = ""

Init == /\ config = NotFound /\ preferences = NoPreferences /\ schema = NotFound
        /\ histories \in Disks
        /\ pc = "off" /\ args = <<>> /\ parsed = None /\ oHistoDir = None /\ outcome = None
        /\ NothingInMemory
        /\ remembered = NoPreferences /\ moved = FALSE
        /\ launches = 0 /\ crashes = 0 /\ changes = 0 /\ choices = 0 /\ events = 0

\* The process is gone, with all that it had in memory.
Vanish(how) == /\ pc' = "off" /\ outcome' = how
               /\ m_preferences' = NoPreferences /\ window' = "centre" /\ active' = TRUE /\ uiTasks' = <<>>
               /\ hs' = NoService /\ ts' = NoService /\ m_fileWatcher' = None /\ callback' = FALSE
               /\ futures' = NoFuture /\ orphans' = {} /\ pool' = TRUE
               /\ latest' = ""
Ends(how) == Vanish(how) /\ UNCHANGED <<disk, histories, settings, remembered, moved, counts>>

\* One step of the main thread that only goes on with the start-up or the end.
Goes(next) == pc' = next /\ UNCHANGED <<histories, outcome, memory, remembered, moved, counts>>
-----------------------------------------------------------------------------
\* The user starts the program, edits its configuration, moves directories,
\* generates the database with dbgen.
Launch == /\ pc = "off" /\ launches < MaxLaunches
          /\ launches' = launches + 1
          /\ pc' = "arguments" /\ args' \in Arguments
          /\ parsed' = None /\ oHistoDir' = None /\ outcome' = None /\ moved' = FALSE
          /\ UNCHANGED <<disk, histories, memory, remembered, crashes, changes, choices, events>>

EditConfig == /\ pc = "off" /\ changes < MaxChanges
              /\ changes' = changes + 1
              /\ config' \in Configs
              /\ UNCHANGED <<preferences, schema, histories, pc, settings, outcome, memory,
                             remembered, moved, launches, crashes, choices, events>>

ChangeDirectory == /\ changes < MaxChanges
                   /\ changes' = changes + 1
                   /\ \E d \in Dirs, c \in Contents : /\ c # histories[d]
                                                      /\ histories' = [histories EXCEPT ![d] = c]
                   /\ moved' = TRUE
                   /\ UNCHANGED <<disk, pc, settings, outcome, memory, remembered, launches,
                                  crashes, choices, events>>

\* dbgen: PokerSiteHistory::load, Database(dbFile), save.
Dbgen == /\ pc = "off" /\ changes < MaxChanges
         /\ changes' = changes + 1
         /\ \E a \in ToolArguments :
              LET oRet == getOptionalDbAndHistory(a, IF schema = NotFound THEN {} ELSE {"phud.db"},
                                                  {d \in Dirs : IsValid(d)})
              IN schema' = IF oRet # None /\ oRet.db = "phud.db" THEN NbQueries ELSE schema
         /\ UNCHANGED <<config, preferences, histories, pc, settings, outcome, memory, remembered,
                        moved, launches, crashes, choices, events>>

\* A signal, a power cut, an abort in one of the steps that have no detail here.
Crash == /\ pc # "off" /\ crashes < MaxCrashes
         /\ crashes' = crashes + 1
         /\ Vanish("killed")
         /\ UNCHANGED <<disk, histories, settings, remembered, moved, launches, changes, choices, events>>
-----------------------------------------------------------------------------
\* parseProgramArguments: help is no error, an exception gives the exit code 1.
ParseArguments ==
    /\ pc = "arguments"
    /\ LET p == parseProgramArguments(args, ExistingDirs) IN
       IF p \in Endings THEN Ends(p)
       ELSE /\ parsed' = p /\ UNCHANGED <<disk, args, oHistoDir>>
            /\ Goes(IF config = NotFound THEN "create" ELSE "configure")

\* createDefaultConfigFile: the file is there before its text.
OpenConfigFile == /\ pc = "create" /\ config' = <<>>
                  /\ UNCHANGED <<preferences, schema, settings>> /\ Goes("write")
WriteConfigFile == /\ pc = "write" /\ config' = DefaultConfigFile
                   /\ UNCHANGED <<preferences, schema, settings>> /\ Goes("configure")

Configure == /\ pc = "configure"
             /\ LET c == readConfiguration(parsed, config) IN
                IF c = Failed THEN Ends(Failed)
                ELSE oHistoDir' = c.dir /\ UNCHANGED <<disk, args, parsed>> /\ Goes("open")

\* createDatabase: the queries that create the schema, unless there is a file.
OpenDatabase == /\ pc = "open"
                /\ IF schema = NotFound THEN schema' = 0 /\ Goes("schema")
                   ELSE UNCHANGED schema /\ Goes("check")
                /\ UNCHANGED <<config, preferences, settings>>
CreateSchema == /\ pc = "schema"
                /\ IF schema < NbQueries THEN schema' = schema + 1 /\ Goes("schema")
                   ELSE UNCHANGED schema /\ Goes("check")
                /\ UNCHANGED <<config, preferences, settings>>

\* The directory of the arguments or of the file is checked, then loaded, then saved.
CheckHistory == /\ pc = "check"
                /\ CASE oHistoDir = None -> UNCHANGED <<disk, settings>> /\ Goes("gui")
                     [] oHistoDir \in Dirs /\ IsValid(oHistoDir) -> UNCHANGED <<disk, settings>> /\ Goes("load")
                     [] OTHER -> Ends(Failed)
\* PokerSiteHistory::load gives a null pointer for a directory that is not valid
\* any more, and phud.cpp does not look at it.
LoadHistory == /\ pc = "load"
               /\ IF IsValid(oHistoDir) THEN UNCHANGED <<disk, settings>> /\ Goes("save") ELSE Ends(Aborted)
\* Database::save needs its tables.
SaveHistory == /\ pc = "save"
               /\ IF schema < NbQueries THEN Ends(Failed) ELSE UNCHANGED <<disk, settings>> /\ Goes("gui")

Starting == \/ ParseArguments \/ OpenConfigFile \/ WriteConfigFile \/ Configure
            \/ OpenDatabase \/ CreateSchema \/ CheckHistory \/ LoadHistory \/ SaveHistory
-----------------------------------------------------------------------------
\* Preferences::getPreferredHistoDir: a long path is cut, and is no directory.
getPreferredHistoDir(p) == IF p.dir \in ExistingDirs \ LongDirs THEN p.dir ELSE ""

\* Gui::Gui: the main window at its last place, the preferred directory, if it is
\* valid, given to both services.
BuildGui == /\ pc = "gui" /\ pc' = "run"
            /\ m_preferences' = preferences /\ window' = preferences.window
            /\ LET dir == getPreferredHistoDir(preferences) IN
               IF IsValid(dir) THEN hs' = [dir |-> dir, history |-> TRUE] /\ ts' = hs'
               ELSE UNCHANGED <<hs, ts>>
            /\ UNCHANGED <<disk, histories, settings, outcome, active, uiTasks, m_fileWatcher,
                           callback, chains, notes, counts>>

ImportTask(d) == [kind |-> "import", dir |-> d]
ActivateTask == [kind |-> "activate", dir |-> ""]

\* Mutant of HandleOk: the directory is saved before it is checked.
HandleOkEagerly(d) == /\ m_preferences' = [m_preferences EXCEPT !.dir = d]
                      /\ IF IsValid(d)
                         THEN /\ hs' = [dir |-> d, history |-> TRUE]
                              /\ ts' = [ts EXCEPT !.history = TRUE]
                              /\ uiTasks' = Append(uiTasks, ImportTask(d))
                              /\ latest' = d
                         ELSE UNCHANGED <<hs, ts, uiTasks, latest>>

\* DirectoryChoiceHandler::handleOk: the TableService gets the history object and
\* keeps its directory; the import waits for its turn in the user interface.
HandleOk(d) == IF IsValid(d)
               THEN /\ m_preferences' = [m_preferences EXCEPT !.dir = d]
                    /\ hs' = [dir |-> d, history |-> TRUE]
                    /\ ts' = [ts EXCEPT !.history = TRUE]
                    /\ uiTasks' = Append(uiTasks, ImportTask(d))
                    /\ latest' = d
               ELSE UNCHANGED <<m_preferences, hs, ts, uiTasks, latest>>

\* The user ends the directory chooser with a directory (there is nothing to do
\* when he cancels it, or when it fails).
ChooseDirectory == /\ pc = "run" /\ active /\ choices < MaxChoices
                   /\ choices' = choices + 1
                   /\ \E d \in ExistingDirs : HandleOk(d)
                   /\ UNCHANGED <<disk, histories, pc, settings, outcome, window, active,
                                  m_fileWatcher, callback, chains, remembered, moved, launches,
                                  crashes, changes, events>>
-----------------------------------------------------------------------------
\* A chain of pool tasks: its next step, and whether that one runs.
Chain(kind, d) == [kind |-> kind, dir |-> d, step |-> "load", running |-> FALSE]
HasSteps(c) == c # None /\ c.step \in {"load", "save"}

\* A chain whose future is replaced ends its step; one that waits is cancelled.
Lost(c) == IF HasSteps(c) /\ c.running THEN {c} ELSE {}

\* importDirAwakeCb and HistoryService::importHistory, or onImportDone, in the user
\* interface, while the main window is shown or is being hidden.
RunUITask == /\ pc \in {"run", "hide"} /\ uiTasks # <<>>
             /\ uiTasks' = Tail(uiTasks)
             /\ LET task == Head(uiTasks) IN
                \/ /\ task.kind = "activate"
                   /\ active' = TRUE
                   /\ UNCHANGED <<hs, futures, orphans>>
                \/ /\ task.kind = "import"
                   /\ active' = FALSE
                   /\ hs' = [hs EXCEPT !.dir = task.dir]
                   /\ orphans' = orphans \cup Lost(futures.import)
                   /\ futures' = [futures EXCEPT !.import = Chain("import", task.dir)]
             /\ UNCHANGED <<disk, histories, pc, settings, outcome, m_preferences, window, ts,
                            m_fileWatcher, callback, pool, notes, counts>>

\* Mutant of StartWatch: the file is watched without a look at whether there is one.
StartWatchOfNone == /\ pc \in {"run", "hide"} /\ ts.history /\ ~callback
                    /\ \E title \in Titles : /\ isPokerTable(title)
                                             /\ m_fileWatcher' \in getHistoryFileFromTableWindowTitle(HistoryOf(ts.dir), title)
                    /\ UNCHANGED <<disk, histories, pc, settings, outcome, gui, hs, ts, callback, chains,
                                   notes, counts>>

\* TableService::startProducingStats for a table that has just appeared (module Hud
\* has the tables and the indicators); the last watcher waits for its callback when
\* it is destroyed.  The 2 minutes of wasUpdatedLessThat2MinutesAgo are a choice.
StartWatch == /\ pc \in {"run", "hide"} /\ ts.history /\ ~callback
              /\ \E title \in Titles :
                     /\ isPokerTable(title)
                     /\ \E f \in getHistoryFileFromTableWindowTitle(HistoryOf(ts.dir), title) :
                            f # NotFound /\ m_fileWatcher' = f
              /\ UNCHANGED <<disk, histories, pc, settings, outcome, gui, hs, ts, callback, chains,
                             notes, counts>>

\* The watcher's thread: a change of the file, until the watch is removed; then the
\* callback, whatever happened in between.
FileChanges == /\ pc \in {"run", "hide", "stopImport", "awaitImport", "stopReload"}
               /\ m_fileWatcher # None /\ ~callback /\ events < MaxEvents
               /\ events' = events + 1
               /\ callback' = TRUE
               /\ UNCHANGED <<disk, histories, pc, settings, outcome, gui, hs, ts, m_fileWatcher, chains,
                              notes, launches, crashes, changes, choices>>
Reload == /\ callback /\ callback' = FALSE
          /\ orphans' = orphans \cup Lost(futures.reload)
          /\ futures' = [futures EXCEPT !.reload = Chain("reload", ts.dir)]
          /\ UNCHANGED <<disk, histories, pc, settings, outcome, gui, hs, ts, m_fileWatcher, pool, notes,
                         counts>>

\* A pool thread begins the next step of a chain, or ends it.
Begin(f) == /\ pool /\ HasSteps(futures[f]) /\ ~futures[f].running
            /\ futures' = [futures EXCEPT ![f].running = TRUE]
            /\ UNCHANGED <<disk, histories, pc, settings, outcome, gui, services, orphans, pool, notes, counts>>

\* What follows a step: the save of an import swallows every exception, the one of
\* a reload none.
Following(c) == CASE c.step = "load" -> {"save"}
                  [] c.step = "save" /\ c.kind = "import" -> {"done"}
                  [] OTHER -> {"done", "threw"}
\* The import creates the history object of its service.
AfterStep(c) == IF c.kind = "import" /\ c.step = "load" THEN [hs EXCEPT !.history = IsValid(c.dir)] ELSE hs

Finish(f) == LET c == futures[f] IN
    /\ HasSteps(c) /\ c.running
    /\ \E next \in Following(c) : futures' = [futures EXCEPT ![f].step = next, ![f].running = FALSE]
    /\ hs' = AfterStep(c)
    /\ uiTasks' = IF c.kind = "import" /\ c.step = "save" THEN Append(uiTasks, ActivateTask) ELSE uiTasks
    /\ UNCHANGED <<disk, histories, pc, settings, outcome, m_preferences, window, active, ts,
                   m_fileWatcher, callback, orphans, pool, notes, counts>>
FinishOrphan == \E c \in orphans :
    /\ orphans' = orphans \ {c}
    /\ hs' = AfterStep(c)
    /\ UNCHANGED <<disk, histories, pc, settings, outcome, gui, ts, m_fileWatcher, callback, futures,
                   pool, notes, counts>>
PoolStep == (\E f \in DOMAIN futures : Begin(f) \/ Finish(f)) \/ FinishOrphan
-----------------------------------------------------------------------------
\* exitCb: the preferences in memory learn where the user put the window, and every
\* window is hidden while the user interface goes on.
Exit == /\ pc = "run" /\ pc' = "hide"
        /\ window' \in Places
        /\ m_preferences' = [m_preferences EXCEPT !.window = window']
        /\ UNCHANGED <<disk, histories, settings, outcome, active, uiTasks, services, chains, notes, counts>>
Hidden == pc = "hide" /\ UNCHANGED <<disk, settings>> /\ Goes("stopImport")

\* The destructor of Gui::Implementation.  stlab::await takes the future and waits
\* for it; the service then forgets the one it has, which may be another.
Take(from, to, f) == /\ pc = from /\ pc' = to
                     /\ futures' = [futures EXCEPT !.awaited = futures[f], ![f] = None]
                     /\ UNCHANGED <<disk, histories, settings, outcome, gui, services, orphans, pool, notes, counts>>
Awaited(from, to, f) == /\ pc = from /\ ~HasSteps(futures.awaited)
                        /\ pc' = to
                        /\ orphans' = orphans \cup Lost(futures[f])
                        /\ futures' = [futures EXCEPT !.awaited = None, ![f] = None]
                        /\ UNCHANGED <<disk, histories, settings, outcome, gui, services, pool, notes, counts>>

\* HistoryService::stopImportingHistory (its stopLoading is that of HistoryImport).
StopImport == Take("stopImport", "awaitImport", "import") \/ Awaited("awaitImport", "stopReload", "import")

\* TableService::stopProducingStats rethrows what the chain threw, here in a destructor.
StopReload == \/ Take("stopReload", "awaitReload", "reload")
              \/ /\ futures.awaited # None => futures.awaited.step # "threw"
                 /\ Awaited("awaitReload", "stopPool", "reload")
              \/ /\ pc = "awaitReload" /\ futures.awaited # None /\ futures.awaited.step = "threw"
                 /\ Ends(Aborted)

\* Mutant of StopPool: the pool is left to its tasks.
LeavePool == pc = "stopPool" /\ UNCHANGED <<disk, settings>> /\ Goes("flush")

\* ThreadPool::stop.
StopPool == /\ pc = "stopPool" /\ pc' = "flush"
            /\ \A f \in DOMAIN futures : ~HasSteps(futures[f])
            /\ orphans = {}
            /\ pool' = FALSE
            /\ UNCHANGED <<disk, histories, settings, outcome, gui, services, futures, orphans, notes, counts>>

\* The object of the preferences is destroyed, and writes them.
FlushPreferences == /\ pc = "flush" /\ pc' = "services"
                    /\ preferences' = m_preferences
                    /\ remembered' = [dir |-> IF latest = "" THEN remembered.dir ELSE latest, window |-> window]
                    /\ UNCHANGED <<config, schema, histories, settings, outcome, memory, moved, counts>>

\* ~HistoryService has nothing to stop any more.  ~TableService awaits a reload that
\* came late, for ever if the pool was stopped before; a callback under way then
\* finds a service that is gone, and may end the process.
DestroyServices == /\ pc = "services" /\ ~HasSteps(futures.reload)
                   /\ \/ /\ pc' = "database"
                         /\ m_fileWatcher' = None /\ callback' = FALSE
                         /\ futures' = [futures EXCEPT !.reload = None]
                         /\ UNCHANGED <<disk, histories, settings, outcome, gui, hs, ts, orphans, pool, notes, counts>>
                      \/ callback /\ Ends(Aborted)
CloseDatabase == pc = "database" /\ Ends("ended")

Ending == \/ Exit \/ Hidden \/ StopImport \/ StopReload \/ StopPool
          \/ FlushPreferences \/ DestroyServices \/ CloseDatabase

Next == \/ Launch \/ EditConfig \/ ChangeDirectory \/ Dbgen \/ Crash
        \/ Starting \/ BuildGui \/ ChooseDirectory \/ RunUITask
        \/ StartWatch \/ FileChanges \/ Reload \/ PoolStep
        \/ Ending

Spec == Init /\ [][Next]_vars
-----------------------------------------------------------------------------
StartingPoints == {"arguments", "create", "write", "configure", "open", "schema", "check", "load", "save"}
Points == StartingPoints \cup {"off", "gui", "run", "hide", "stopImport", "awaitImport", "stopReload",
                               "awaitReload", "stopPool", "flush", "services", "database"}
Chains == [kind : {"import", "reload"}, dir : Dirs, step : {"load", "save", "done", "threw"}, running : BOOLEAN]
Entries == UNION {c \in Contents : c \notin {NotFound, NoDir}}

\* The disk, the processes and the user keep their shape: a service watches a file
\* that exists or existed, the user interface waits for imports and their ends, an
\* orphan is running, and nothing begins once the pool is stopped.
TypeOK ==
    /\ config \in Configs \cup {NotFound, <<>>, DefaultConfigFile}
    /\ preferences \in [dir : Dirs, window : Places \cup {"centre"}]
    /\ m_preferences \in [dir : Dirs, window : Places \cup {"centre"}]
    /\ schema \in {NotFound} \cup 0 .. NbQueries
    /\ histories \in [Dirs -> Contents]
    /\ pc \in Points /\ outcome \in {None, "ended", "killed"} \cup Endings
    /\ window \in Places \cup {"centre"} /\ active \in BOOLEAN /\ callback \in BOOLEAN /\ pool \in BOOLEAN
    /\ uiTasks \in Seq([kind : {"import"}, dir : Dirs] \cup {ActivateTask})
    /\ {hs, ts} \subseteq [dir : Dirs, history : BOOLEAN]
    /\ m_fileWatcher \in Entries \cup {None}
    /\ \A f \in DOMAIN futures : futures[f] \in Chains \cup {None}
    /\ orphans \subseteq {c \in Chains : HasSteps(c) /\ c.running}
    /\ ~pool => \A f \in DOMAIN futures : futures[f] # None => ~futures[f].running

\* What phud needs to start: the configuration file that it writes itself, no
\* argument or an existing directory with a history (and not with the name of the
\* other option, which would be taken for it), whose content stays the same
\* meanwhile, and a database that is absent or complete.
LegitArguments == {<<"phud">>} \cup {<<"phud", "-d", d>> : d \in {e \in ExistingDirs \ {"-l", "--logLevel"} : IsValid(e)}}
Legit == /\ config \in {NotFound, DefaultConfigFile}
         /\ args \in LegitArguments /\ ~moved
         /\ schema \in {NotFound, NbQueries}

\* A start-up fails, or aborts, only when something it needs is missing, whatever
\* earlier processes left behind when they ended or were killed (phud.cpp main,
\* ProgramConfiguration::readConfiguration, createDefaultConfigFile, createDatabase).
FailuresHaveCause ==
    [][pc' = "off" /\ pc \in StartingPoints /\ outcome' \in {Failed, Aborted} => ~Legit]_vars

\* A process that ended well had its preferences written: the next one that shows
\* the main window puts it where it was, and both services have the directory that
\* the user chose last, if it still holds a history and its path is short enough,
\* whatever imports, exits and crashes came in between (GuiFltk.cpp handleOk,
\* exitCb, Gui::Gui; Preferences.cpp).
ChosenDirIsRemembered ==
    [][pc = "gui" /\ pc' = "run" =>
          /\ window' = remembered.window
          /\ remembered.dir \notin LongDirs \cup {""} /\ IsValid(remembered.dir) =>
                 hs' = [dir |-> remembered.dir, history |-> TRUE] /\ ts' = hs']_vars

\* When the database is closed nothing saves into it any more: not the import, not
\* a reload, not one that lost its future (ThreadPool.hpp stop, the destructors of
\* Gui::Implementation and of the services).
DatabaseOutlivesSaves ==
    pc = "database" => orphans = {} /\ \A f \in DOMAIN futures : futures[f] # None => ~futures[f].running

\* Refuted, no run checks them.  The watched file may be a summary, which the import
\* leaves out; the two services may have two directories; the end may wait for a
\* reload that the stopped pool never begins.
WatchedFileIsAHistory == m_fileWatcher # None => \E d \in Dirs : m_fileWatcher \in getFiles(HistoryOf(d))
ServicesShareTheDirectory == hs.history /\ ts.history => hs.dir = ts.dir
NothingIsAwaitedForEver == pc = "services" => ~HasSteps(futures.reload)
=============================================================================
