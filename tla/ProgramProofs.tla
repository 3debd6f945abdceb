---------------------------- MODULE ProgramProofs ----------------------------
(***************************************************************************)
(* Proofs about Program, for any directories, arguments, configurations    *)
(* and numbers of launches, crashes, choices and changes.                  *)
(***************************************************************************)
EXTENDS Program, TLAPS

Keys == {"import", "reload", "awaited"}
IsChain(c) == c = [kind |-> c.kind, dir |-> c.dir, step |-> c.step, running |-> c.running]

\* The three futures, and what runs: a step of a chain that has one.
FuturesInv ==
    /\ futures = [import |-> futures.import, reload |-> futures.reload, awaited |-> futures.awaited]
    /\ \A f \in Keys : futures[f] # None =>
          /\ IsChain(futures[f]) /\ futures[f].running \in BOOLEAN
          /\ futures[f].running => HasSteps(futures[f])

\* Nothing runs once the pool is stopped, whatever is started after that.
Quiet == orphans = {} /\ \A f \in Keys : futures[f] # None => ~futures[f].running
PoolInv == /\ pool \in BOOLEAN
           /\ ~pool => Quiet

\* What is destroyed after the pool finds it stopped.
EndInv == pc \in {"flush", "services", "database"} => ~pool

\* The inductive invariant.
IInv == FuturesInv /\ PoolInv /\ EndInv

chainVars == <<futures, orphans, pool>>
-----------------------------------------------------------------------------
LEMMA InvImpliesProperty == IInv => DatabaseOutlivesSaves
<1> SUFFICES ASSUME IInv, pc = "database" PROVE orphans = {} /\ \A f \in DOMAIN futures : futures[f] # None => ~futures[f].running
  BY DEF DatabaseOutlivesSaves
<1>1. Quiet
  BY DEF IInv, EndInv, PoolInv
<1>2. DOMAIN futures = Keys
  BY DEF IInv, FuturesInv, Keys
<1>. QED
  BY <1>1, <1>2 DEF Quiet

\* A process that begins, or has vanished, has no chain.
LEMMA NothingRuns == ASSUME futures' = NoFuture, orphans' = {}, pool' = TRUE, pc' = "off"
                     PROVE  IInv'
<1>1. FuturesInv'
  BY DEF FuturesInv, NoFuture, Keys
<1>2. PoolInv' /\ EndInv'
  BY DEF PoolInv, EndInv
<1>. QED
  BY <1>1, <1>2 DEF IInv

LEMMA VanishInv == ASSUME NEW how, Vanish(how) PROVE IInv'
BY NothingRuns DEF Vanish

\* A step that touches no chain, and does not go past the stop of the pool.
LEMMA Frame == ASSUME IInv, UNCHANGED chainVars,
                      pc' \in {"flush", "services", "database"} => pc \in {"flush", "services", "database"}
               PROVE  IInv'
<1>1. FuturesInv'
  BY DEF IInv, FuturesInv, chainVars, HasSteps, IsChain
<1>2. PoolInv' /\ EndInv'
  BY DEF IInv, PoolInv, EndInv, Quiet, chainVars
<1>. QED
  BY <1>1, <1>2 DEF IInv

\* A future is replaced: by none, or by a chain that has not begun.
LEMMA Replaced ==
    ASSUME IInv, NEW f \in Keys, NEW c,
           futures' = [futures EXCEPT ![f] = c], orphans' = orphans \cup Lost(futures[f]), pool' = pool,
           c = None \/ (IsChain(c) /\ c.running = FALSE)
    PROVE  FuturesInv' /\ PoolInv'
<1>1. FuturesInv'
  <2>1. DOMAIN futures = Keys
    BY DEF IInv, FuturesInv, Keys
  <2>2. futures' = [import |-> futures'.import, reload |-> futures'.reload, awaited |-> futures'.awaited]
    BY DEF IInv, FuturesInv
  <2>3. futures'[f] = c /\ \A g \in Keys \ {f} : futures'[g] = futures[g]
    BY <2>1
  <2>. QED
    BY <2>2, <2>3 DEF IInv, FuturesInv, HasSteps
<1>2. PoolInv'
  <2>1. DOMAIN futures = Keys
    BY DEF IInv, FuturesInv, Keys
  <2>2. ASSUME ~pool PROVE Quiet'
    <3>1. Quiet
      BY <2>2 DEF IInv, PoolInv
    <3>2. Lost(futures[f]) = {}
      BY <3>1 DEF Quiet, Lost, HasSteps
    <3>. QED
      BY <2>1, <3>1, <3>2 DEF Quiet
  <2>. QED
    BY <2>2 DEF IInv, PoolInv
<1>. QED
  BY <1>1, <1>2
-----------------------------------------------------------------------------
\* Where a step of the start-up that does not end the process may go.
StartTargets == {"create", "write", "configure", "open", "schema", "check", "load", "save", "gui"}

LEMMA StartingSteps ==
    ASSUME Starting
    PROVE  (\E how : Ends(how)) \/ \E next \in StartTargets : Goes(next)
<1> USE DEF StartTargets
<1>1. CASE ParseArguments
  <2> DEFINE p == parseProgramArguments(args, ExistingDirs)
  <2>1. CASE p \in Endings
    <3>1. Ends(p)
      BY <1>1, <2>1 DEF ParseArguments
    <3>. QED
      BY <3>1
  <2>2. CASE p \notin Endings
    <3>1. Goes(IF config = NotFound THEN "create" ELSE "configure")
      BY <1>1, <2>2 DEF ParseArguments
    <3>. QED
      BY <3>1
  <2>. QED
    BY <2>1, <2>2
<1>2. CASE OpenConfigFile \/ WriteConfigFile
  BY <1>2 DEF OpenConfigFile, WriteConfigFile
<1>3. CASE Configure
  BY <1>3 DEF Configure
<1>4. CASE OpenDatabase \/ CreateSchema
  BY <1>4 DEF OpenDatabase, CreateSchema
<1>5. CASE CheckHistory
  <2>1. CASE oHistoDir = None
    BY <1>5, <2>1 DEF CheckHistory
  <2>2. CASE oHistoDir # None /\ oHistoDir \in Dirs /\ IsValid(oHistoDir)
    BY <1>5, <2>2 DEF CheckHistory
  <2>3. CASE oHistoDir # None /\ ~(oHistoDir \in Dirs /\ IsValid(oHistoDir))
    BY <1>5, <2>3 DEF CheckHistory
  <2>. QED
    BY <2>1, <2>2, <2>3
<1>6. CASE LoadHistory \/ SaveHistory
  BY <1>6 DEF LoadHistory, SaveHistory
<1>. QED
  BY <1>1, <1>2, <1>3, <1>4, <1>5, <1>6 DEF Starting

LEMMA StartingInv == ASSUME IInv, Starting PROVE IInv'
<1> USE DEF memory, chains
<1>1. CASE \E how : Ends(how)
  BY <1>1, VanishInv DEF Ends
<1>2. ASSUME NEW next \in StartTargets, Goes(next) PROVE IInv'
  BY <1>2, Frame DEF Goes, chainVars, StartTargets
<1>. QED
  BY <1>1, <1>2, StartingSteps

\* What the user and the watcher do, and the beginning of the main window.
LEMMA UserInv ==
    ASSUME IInv,
           Launch \/ EditConfig \/ ChangeDirectory \/ Dbgen \/ BuildGui \/ ChooseDirectory \/ StartWatch \/ FileChanges
    PROVE  IInv'
<1> USE DEF memory, chains, chainVars
<1>1. CASE Launch
  BY <1>1, Frame DEF Launch
<1>2. CASE EditConfig
  BY <1>2, Frame DEF EditConfig
<1>3. CASE ChangeDirectory
  BY <1>3, Frame DEF ChangeDirectory
<1>4. CASE Dbgen
  BY <1>4, Frame DEF Dbgen
<1>5. CASE BuildGui
  BY <1>5, Frame DEF BuildGui
<1>6. CASE ChooseDirectory
  BY <1>6, Frame DEF ChooseDirectory
<1>7. CASE StartWatch
  BY <1>7, Frame DEF StartWatch
<1>8. CASE FileChanges
  BY <1>8, Frame DEF FileChanges
<1>. QED
  BY <1>1, <1>2, <1>3, <1>4, <1>5, <1>6, <1>7, <1>8

LEMMA ChainIsChain == \A kind, d : IsChain(Chain(kind, d)) /\ Chain(kind, d).running = FALSE
BY DEF IsChain, Chain

LEMMA RunUITaskInv == ASSUME IInv, RunUITask PROVE IInv'
<1> DEFINE task == Head(uiTasks)
<1>1. CASE UNCHANGED <<futures, orphans>>
  BY <1>1, Frame DEF RunUITask, chainVars
<1>2. CASE orphans' = orphans \cup Lost(futures.import)
           /\ futures' = [futures EXCEPT !.import = Chain("import", task.dir)]
  <2>1. FuturesInv' /\ PoolInv'
    <3>1. "import" \in Keys /\ pool' = pool
      BY DEF RunUITask, Keys
    <3>. QED
      BY <1>2, <3>1, Replaced, ChainIsChain
  <2>2. EndInv'
    BY DEF RunUITask, IInv, EndInv
  <2>. QED
    BY <2>1, <2>2 DEF IInv
<1>. QED
  BY <1>1, <1>2 DEF RunUITask

LEMMA ReloadInv == ASSUME IInv, Reload PROVE IInv'
<1>1. FuturesInv' /\ PoolInv'
  BY Replaced, ChainIsChain DEF Reload, Keys
<1>2. EndInv'
  BY DEF Reload, IInv, EndInv
<1>. QED
  BY <1>1, <1>2 DEF IInv
-----------------------------------------------------------------------------
LEMMA PoolStepInv == ASSUME IInv, PoolStep PROVE IInv'
<1>0. DOMAIN futures = Keys
  BY DEF IInv, FuturesInv, Keys
<1>1. ASSUME NEW f \in Keys, Begin(f) PROVE IInv'
  <2> DEFINE c == futures[f]
  <2>1. pool /\ UNCHANGED <<orphans, pool, pc>> /\ c # None /\ IsChain(c) /\ HasSteps(c)
    BY <1>1 DEF Begin, HasSteps, IInv, FuturesInv
  <2>2. futures' = [futures EXCEPT ![f] = [c EXCEPT !.running = TRUE]]
    BY <1>1 DEF Begin
  <2>3. futures'[f] = [c EXCEPT !.running = TRUE] /\ \A g \in Keys \ {f} : futures'[g] = futures[g]
    BY <1>0, <2>2
  <2>4. /\ IsChain(futures'[f]) /\ futures'[f].running = TRUE
        /\ futures'[f] # None => HasSteps(futures'[f])
    BY <2>1, <2>3 DEF IsChain, HasSteps
  <2>5. futures' = [import |-> futures'.import, reload |-> futures'.reload, awaited |-> futures'.awaited]
    BY <2>2 DEF IInv, FuturesInv
  <2>6. FuturesInv'
    BY <2>3, <2>4, <2>5 DEF IInv, FuturesInv, HasSteps
  <2>. QED
    BY <2>1, <2>6 DEF IInv, PoolInv, EndInv
<1>2. ASSUME NEW f \in Keys, Finish(f) PROVE IInv'
  <2> DEFINE c == futures[f]
  <2>1. UNCHANGED <<orphans, pool, pc>> /\ c # None /\ IsChain(c) /\ c.running
    BY <1>2 DEF Finish, HasSteps, IInv, FuturesInv
  <2>2. PICK next : futures' = [futures EXCEPT ![f] = [[c EXCEPT !.step = next] EXCEPT !.running = FALSE]]
    BY <1>2 DEF Finish
  <2>3. futures'[f] = [[c EXCEPT !.step = next] EXCEPT !.running = FALSE] /\ \A g \in Keys \ {f} : futures'[g] = futures[g]
    BY <1>0, <2>2
  <2>4. IsChain(futures'[f]) /\ futures'[f].running = FALSE
    BY <2>1, <2>3 DEF IsChain
  <2>5. futures' = [import |-> futures'.import, reload |-> futures'.reload, awaited |-> futures'.awaited]
    BY <2>2 DEF IInv, FuturesInv
  <2>6. FuturesInv'
    BY <2>3, <2>4, <2>5 DEF IInv, FuturesInv, HasSteps
  <2>7. pool
    BY <2>1 DEF IInv, PoolInv, Quiet
  <2>. QED
    BY <2>1, <2>6, <2>7 DEF IInv, PoolInv, EndInv
<1>3. CASE FinishOrphan
  <2>1. PICK c \in orphans : orphans' = orphans \ {c}
    BY <1>3 DEF FinishOrphan
  <2>2. UNCHANGED <<futures, pool, pc>>
    BY <1>3 DEF FinishOrphan
  <2>3. FuturesInv' /\ EndInv'
    BY <2>2 DEF IInv, FuturesInv, EndInv, HasSteps, IsChain
  <2>4. PoolInv'
    BY <2>1, <2>2 DEF IInv, PoolInv, Quiet
  <2>. QED
    BY <2>3, <2>4 DEF IInv
<1>. QED
  BY <1>0, <1>1, <1>2, <1>3 DEF PoolStep
-----------------------------------------------------------------------------
\* stlab::await takes a future, and the service forgets the one it has then.
LEMMA TakeInv == ASSUME IInv, NEW from, NEW to, NEW f \in {"import", "reload"}, Take(from, to, f),
                        to \notin {"flush", "services", "database"}
                 PROVE  IInv'
<1>0. DOMAIN futures = Keys
  BY DEF IInv, FuturesInv, Keys
<1>1. /\ UNCHANGED <<orphans, pool>> /\ pc' = to
      /\ futures' = [[futures EXCEPT !.awaited = futures[f]] EXCEPT ![f] = None]
  BY DEF Take, chains
<1>2. \A g \in Keys : futures'[g] \in {futures[g], futures[f], None}
  BY <1>0, <1>1 DEF Keys
<1>3. futures' = [import |-> futures'.import, reload |-> futures'.reload, awaited |-> futures'.awaited]
  BY <1>1 DEF IInv, FuturesInv
<1>4. FuturesInv'
  BY <1>2, <1>3 DEF IInv, FuturesInv, HasSteps, Keys
<1>5. PoolInv'
  BY <1>1, <1>2 DEF IInv, PoolInv, Quiet, Keys
<1>. QED
  BY <1>1, <1>4, <1>5 DEF IInv, EndInv

LEMMA AwaitedInv == ASSUME IInv, NEW from, NEW to, NEW f \in {"import", "reload"}, Awaited(from, to, f),
                           to \notin {"flush", "services", "database"}
                    PROVE  IInv'
<1>0. DOMAIN futures = Keys
  BY DEF IInv, FuturesInv, Keys
<1>1. /\ UNCHANGED pool /\ pc' = to /\ orphans' = orphans \cup Lost(futures[f])
      /\ futures' = [[futures EXCEPT !.awaited = None] EXCEPT ![f] = None]
  BY DEF Awaited
<1>2. \A g \in Keys : futures'[g] \in {futures[g], None}
  BY <1>0, <1>1 DEF Keys
<1>3. futures' = [import |-> futures'.import, reload |-> futures'.reload, awaited |-> futures'.awaited]
  BY <1>1 DEF IInv, FuturesInv
<1>4. FuturesInv'
  BY <1>2, <1>3 DEF IInv, FuturesInv, HasSteps
<1>5. PoolInv'
  <2>1. ASSUME ~pool PROVE Quiet /\ Lost(futures[f]) = {}
    BY <2>1 DEF IInv, PoolInv, Quiet, Lost, HasSteps, Keys
  <2>. QED
    BY <1>1, <1>2, <2>1 DEF IInv, PoolInv, Quiet
<1>. QED
  BY <1>1, <1>4, <1>5 DEF IInv, EndInv

\* The pool stops when nothing runs and nothing waits to run.
LEMMA StopPoolInv == ASSUME IInv, StopPool PROVE IInv'
<1>0. DOMAIN futures = Keys
  BY DEF IInv, FuturesInv, Keys
<1>1. /\ UNCHANGED <<futures, orphans>> /\ pool' = FALSE
      /\ orphans = {} /\ \A f \in Keys : ~HasSteps(futures[f])
  BY <1>0 DEF StopPool
<1>2. \A f \in Keys : futures[f] # None => ~futures[f].running
  BY <1>1 DEF IInv, FuturesInv
<1>3. FuturesInv'
  BY <1>1 DEF IInv, FuturesInv, HasSteps, IsChain
<1>. QED
  BY <1>1, <1>2, <1>3 DEF IInv, PoolInv, Quiet, EndInv

LEMMA DestroyServicesInv == ASSUME IInv, DestroyServices PROVE IInv'
<1>1. CASE Ends(Aborted)
  BY <1>1, VanishInv DEF Ends
<1>2. CASE /\ pc = "services" /\ ~HasSteps(futures.reload) /\ pc' = "database"
           /\ futures' = [futures EXCEPT !.reload = None] /\ UNCHANGED <<orphans, pool>>
  <2>1. ~pool
    BY <1>2 DEF IInv, EndInv
  <2>2. Lost(futures.reload) = {}
    BY <1>2 DEF Lost
  <2>3. FuturesInv' /\ PoolInv'
    BY <1>2, <2>2, Replaced DEF Keys
  <2>. QED
    BY <1>2, <2>1, <2>3 DEF IInv, EndInv
<1>. QED
  BY <1>1, <1>2 DEF DestroyServices

LEMMA EndingInv == ASSUME IInv, Ending PROVE IInv'
<1>1. CASE Exit \/ Hidden
  BY <1>1, Frame DEF Exit, Hidden, Goes, memory, chains, chainVars
<1>2. CASE StopImport
  BY <1>2, TakeInv, AwaitedInv DEF StopImport
<1>3. CASE StopReload
  <2>1. CASE Ends(Aborted)
    BY <2>1, VanishInv DEF Ends
  <2>. QED
    BY <1>3, <2>1, TakeInv, AwaitedInv DEF StopReload
<1>4. CASE StopPool
  BY <1>4, StopPoolInv
<1>5. CASE FlushPreferences
  BY <1>5, Frame DEF FlushPreferences, memory, chains, chainVars
<1>6. CASE DestroyServices
  BY <1>6, DestroyServicesInv
<1>7. CASE CloseDatabase
  BY <1>7, VanishInv DEF CloseDatabase, Ends
<1>. QED
  BY <1>1, <1>2, <1>3, <1>4, <1>5, <1>6, <1>7 DEF Ending
-----------------------------------------------------------------------------
LEMMA InitIInv == Init => IInv
<1> SUFFICES ASSUME Init PROVE IInv
  OBVIOUS
<1>1. futures = NoFuture /\ orphans = {} /\ pool = TRUE /\ pc = "off"
  BY DEF Init, NothingInMemory
<1>2. FuturesInv
  BY <1>1 DEF FuturesInv, NoFuture, Keys
<1>3. PoolInv /\ EndInv
  BY <1>1 DEF PoolInv, EndInv
<1>. QED
  BY <1>2, <1>3 DEF IInv

LEMMA NextIInv == IInv /\ [Next]_vars => IInv'
<1> SUFFICES ASSUME IInv, [Next]_vars PROVE IInv'
  OBVIOUS
<1>1. CASE UNCHANGED vars
  BY <1>1, Frame DEF vars, memory, chains, chainVars
<1>2. CASE Crash
  BY <1>2, VanishInv DEF Crash
<1>. QED
  BY <1>1, <1>2, StartingInv, UserInv, RunUITaskInv, ReloadInv, PoolStepInv, EndingInv DEF Next

\* When the database is closed nothing saves into it any more: neither an import
\* nor a reload, which began before the pool was stopped, after it, or lost its
\* future (ThreadPool.hpp stop, GuiFltk.cpp:116, the destructors of the services).
THEOREM DatabaseClosesLast == Spec => []DatabaseOutlivesSaves
<1>1. IInv /\ [Next]_vars => IInv'
  BY NextIInv
<1>. QED
  BY <1>1, InitIInv, InvImpliesProperty, PTL DEF Spec
-----------------------------------------------------------------------------
(* What the process remembers, and what it left on the disk.               *)

\* Before the main window is built.
Early == StartingPoints \cup {"off", "gui"}

\* The preferences in memory hold the directory that the user chose, or the one of
\* the disk, and the place of the window; the disk holds what the last process that
\* ended well had.
PreferencesInv ==
    /\ preferences = remembered
    /\ remembered = [dir |-> remembered.dir, window |-> remembered.window]
    /\ remembered.dir \in Dirs /\ latest \in Dirs
    /\ pc \in Early => latest = ""
    /\ pc \notin Early =>
          m_preferences = [dir |-> IF latest = "" THEN remembered.dir ELSE latest, window |-> window]

prefVars == <<preferences, remembered, latest, m_preferences, window>>

\* A step that leaves the preferences alone does not build the window.
LEMMA PreferencesFrame ==
    ASSUME PreferencesInv, UNCHANGED prefVars, pc \in Early <=> pc' \in Early
    PROVE  PreferencesInv'
BY DEF PreferencesInv, prefVars, Early, StartingPoints

LEMMA PreferencesVanish ==
    ASSUME PreferencesInv, NEW how, Vanish(how), UNCHANGED <<preferences, remembered>>
    PROVE  PreferencesInv'
BY DirAssumption DEF PreferencesInv, Vanish, Early, StartingPoints

LEMMA PreferencesStarting == ASSUME PreferencesInv, Starting PROVE PreferencesInv'
<1>1. UNCHANGED preferences /\ pc \in Early
  BY DEF Starting, ParseArguments, OpenConfigFile, WriteConfigFile, Configure, OpenDatabase, CreateSchema,
         CheckHistory, LoadHistory, SaveHistory, Early, StartingPoints, disk, Ends, Goes, settings
<1>2. CASE \E how : Ends(how)
  BY <1>1, <1>2, PreferencesVanish DEF Ends
<1>3. ASSUME NEW next \in StartTargets, Goes(next) PROVE PreferencesInv'
  <2>1. UNCHANGED prefVars /\ pc' \in Early
    BY <1>1, <1>3 DEF Goes, memory, gui, prefVars, Early, StartingPoints, StartTargets
  <2>. QED
    BY <1>1, <2>1, PreferencesFrame
<1>. QED
  BY <1>2, <1>3, StartingSteps

LEMMA PreferencesUser ==
    ASSUME PreferencesInv,
           Launch \/ EditConfig \/ ChangeDirectory \/ Dbgen \/ StartWatch \/ FileChanges
    PROVE  PreferencesInv'
<1> SUFFICES UNCHANGED prefVars /\ (pc \in Early <=> pc' \in Early)
  BY PreferencesFrame
<1> USE DEF memory, gui, disk, notes, prefVars
<1>1. CASE Launch
  BY <1>1 DEF Launch, Early, StartingPoints
<1>2. CASE EditConfig
  BY <1>2 DEF EditConfig
<1>3. CASE ChangeDirectory
  BY <1>3 DEF ChangeDirectory
<1>4. CASE Dbgen
  BY <1>4 DEF Dbgen
<1>5. CASE StartWatch
  BY <1>5 DEF StartWatch
<1>6. CASE FileChanges
  BY <1>6 DEF FileChanges
<1>. QED
  BY <1>1, <1>2, <1>3, <1>4, <1>5, <1>6

LEMMA PreferencesChains ==
    ASSUME PreferencesInv, RunUITask \/ Reload \/ PoolStep
    PROVE  PreferencesInv'
<1> SUFFICES UNCHANGED prefVars /\ UNCHANGED pc
  BY PreferencesFrame
<1> USE DEF gui, disk, notes, prefVars
<1>1. CASE RunUITask
  BY <1>1 DEF RunUITask
<1>2. CASE Reload
  BY <1>2 DEF Reload
<1>3. CASE PoolStep
  <2>1. ASSUME NEW f, Begin(f) PROVE UNCHANGED prefVars /\ UNCHANGED pc
    BY <2>1 DEF Begin
  <2>2. ASSUME NEW f, Finish(f) PROVE UNCHANGED prefVars /\ UNCHANGED pc
    BY <2>2 DEF Finish
  <2>3. ASSUME FinishOrphan PROVE UNCHANGED prefVars /\ UNCHANGED pc
    BY <2>3 DEF FinishOrphan
  <2>. QED
    BY <1>3, <2>1, <2>2, <2>3 DEF PoolStep
<1>. QED
  BY <1>1, <1>2, <1>3

LEMMA PreferencesBuildGui == ASSUME PreferencesInv, BuildGui PROVE PreferencesInv'
<1>1. /\ pc = "gui" /\ pc' = "run" /\ UNCHANGED <<preferences, remembered, latest>>
      /\ m_preferences' = preferences /\ window' = preferences.window
  BY DEF BuildGui, disk, notes
<1>2. latest = "" /\ preferences = remembered
  BY <1>1 DEF PreferencesInv, Early
<1>. QED
  BY <1>1, <1>2 DEF PreferencesInv, Early, StartingPoints

LEMMA PreferencesChoose == ASSUME PreferencesInv, ChooseDirectory PROVE PreferencesInv'
<1>1. PICK d \in ExistingDirs : HandleOk(d)
  BY DEF ChooseDirectory
<1>2. UNCHANGED <<pc, preferences, remembered, window>> /\ pc = "run"
  BY DEF ChooseDirectory, disk
<1>3. d \in Dirs \ {""}
  BY DEF ExistingDirs
<1>4. CASE IsValid(d)
  <2>1. m_preferences' = [m_preferences EXCEPT !.dir = d] /\ latest' = d
    BY <1>1, <1>4 DEF HandleOk
  <2> DEFINE dir == IF latest = "" THEN remembered.dir ELSE latest
  <2>2. m_preferences = [dir |-> dir, window |-> window]
    BY <1>2 DEF PreferencesInv, Early, StartingPoints
  <2>3. m_preferences' = [dir |-> d, window |-> window]
    <3> HIDE DEF dir
    <3>. QED
      BY <2>1, <2>2
  <2>4. latest' = d /\ d # "" /\ d \in Dirs
    BY <1>3, <2>1
  <2>5. pc' = "run" /\ UNCHANGED <<preferences, remembered, window>>
    BY <1>2
  <2>. QED
    BY <2>3, <2>4, <2>5 DEF PreferencesInv, Early, StartingPoints
<1>5. CASE ~IsValid(d)
  BY <1>1, <1>2, <1>5, PreferencesFrame DEF HandleOk, prefVars
<1>. QED
  BY <1>4, <1>5

LEMMA PreferencesExit == ASSUME PreferencesInv, Exit PROVE PreferencesInv'
<1>1. /\ pc = "run" /\ pc' = "hide" /\ UNCHANGED <<preferences, remembered, latest>>
      /\ m_preferences' = [m_preferences EXCEPT !.window = window']
  BY DEF Exit, disk, notes
<1> DEFINE dir == IF latest = "" THEN remembered.dir ELSE latest
<1>0. m_preferences = [dir |-> dir, window |-> window]
  BY <1>1 DEF PreferencesInv, Early, StartingPoints
<1>2. m_preferences' = [dir |-> dir, window |-> window']
  <2> HIDE DEF dir
  <2>. QED
    BY <1>0, <1>1
<1>. QED
  BY <1>1, <1>2 DEF PreferencesInv, Early, StartingPoints

LEMMA PreferencesFlush == ASSUME PreferencesInv, FlushPreferences PROVE PreferencesInv'
<1>1. /\ pc = "flush" /\ pc' = "services" /\ UNCHANGED <<latest, m_preferences, window>>
      /\ preferences' = m_preferences
      /\ remembered' = [dir |-> IF latest = "" THEN remembered.dir ELSE latest, window |-> window]
  BY DEF FlushPreferences, memory, gui
<1>2. remembered' = m_preferences
  BY <1>1 DEF PreferencesInv, Early, StartingPoints
<1>3. remembered'.dir \in Dirs /\ remembered' = [dir |-> remembered'.dir, window |-> remembered'.window]
  BY <1>1 DEF PreferencesInv
<1>4. m_preferences = [dir |-> IF latest = "" THEN remembered'.dir ELSE latest, window |-> window]
  <2>1. remembered'.window = window /\ (latest # "" => remembered'.dir = latest)
    BY <1>1
  <2>2. remembered'.dir = IF latest = "" THEN remembered'.dir ELSE latest
    BY <2>1
  <2>. QED
    BY <1>2, <1>3, <2>1, <2>2
<1>. QED
  BY <1>1, <1>2, <1>3, <1>4 DEF PreferencesInv, Early, StartingPoints

LEMMA PreferencesEnding == ASSUME PreferencesInv, Ending PROVE PreferencesInv'
<1>1. CASE Exit
  BY <1>1, PreferencesExit
<1>2. CASE FlushPreferences
  BY <1>2, PreferencesFlush
<1>3. CASE \E how : Ends(how)
  BY <1>3, PreferencesVanish DEF Ends, disk
<1>4. CASE UNCHANGED prefVars /\ pc \notin Early /\ pc' \notin Early
  BY <1>4, PreferencesFrame
<1>5. ASSUME NEW from \in {"stopImport", "awaitImport", "stopReload", "awaitReload"},
             NEW to \in {"awaitImport", "stopReload", "awaitReload", "stopPool"}, NEW f,
             Take(from, to, f) \/ Awaited(from, to, f)
      PROVE  PreferencesInv'
  BY <1>5, <1>4 DEF Take, Awaited, disk, gui, notes, prefVars, Early, StartingPoints
<1>6. CASE Hidden
  BY <1>6, <1>4 DEF Hidden, Goes, disk, memory, gui, prefVars, Early, StartingPoints
<1>7. CASE StopImport
  BY <1>7, <1>5 DEF StopImport
<1>8. CASE StopReload
  BY <1>8, <1>3, <1>5 DEF StopReload
<1>9. CASE StopPool
  BY <1>9, <1>4 DEF StopPool, disk, gui, notes, prefVars, Early, StartingPoints
<1>10. CASE DestroyServices
  BY <1>10, <1>3, <1>4 DEF DestroyServices, disk, gui, notes, prefVars, Early, StartingPoints
<1>11. CASE CloseDatabase
  BY <1>11, <1>3 DEF CloseDatabase
<1>. QED
  BY <1>1, <1>2, <1>6, <1>7, <1>8, <1>9, <1>10, <1>11 DEF Ending

LEMMA PreferencesInit == Init => PreferencesInv
<1> SUFFICES ASSUME Init PROVE PreferencesInv
  OBVIOUS
<1>1. preferences = NoPreferences /\ remembered = NoPreferences /\ latest = "" /\ pc = "off"
  BY DEF Init, NothingInMemory
<1>2. "" \in Dirs
  BY DirAssumption
<1>. QED
  BY <1>1, <1>2 DEF NoPreferences, PreferencesInv, Early

LEMMA PreferencesNext == PreferencesInv /\ [Next]_vars => PreferencesInv'
<1> SUFFICES ASSUME PreferencesInv, [Next]_vars PROVE PreferencesInv'
  OBVIOUS
<1>1. CASE UNCHANGED vars
  BY <1>1, PreferencesFrame DEF vars, disk, memory, gui, prefVars
<1>2. CASE Crash
  BY <1>2, PreferencesVanish DEF Crash, disk
<1>. QED
  BY <1>1, <1>2, PreferencesStarting, PreferencesUser, PreferencesChains, PreferencesBuildGui,
     PreferencesChoose, PreferencesEnding DEF Next
-----------------------------------------------------------------------------
\* The name of the property's action.
Remembers == pc = "gui" /\ pc' = "run" =>
    /\ window' = remembered.window
    /\ remembered.dir \notin LongDirs \cup {""} /\ IsValid(remembered.dir) =>
          hs' = [dir |-> remembered.dir, history |-> TRUE] /\ ts' = hs'

\* Only BuildGui goes from "gui" to "run".
LEMMA OnlyBuildGui == ASSUME [Next]_vars, pc = "gui", pc' = "run" PROVE BuildGui
<1>1. ~UNCHANGED pc
  OBVIOUS
<1>2. CASE Launch \/ EditConfig \/ ChangeDirectory \/ Dbgen \/ ChooseDirectory \/ StartWatch \/ FileChanges
  BY <1>2 DEF Launch, EditConfig, ChangeDirectory, Dbgen, ChooseDirectory, StartWatch, FileChanges
<1>3. CASE Crash
  BY <1>3 DEF Crash, Vanish
<1>4. CASE Starting
  BY <1>4 DEF Starting, ParseArguments, OpenConfigFile, WriteConfigFile, Configure, OpenDatabase, CreateSchema,
              CheckHistory, LoadHistory, SaveHistory
<1>5. CASE RunUITask \/ Reload
  BY <1>5 DEF RunUITask, Reload
<1>6. CASE PoolStep
  BY <1>6 DEF PoolStep, Begin, Finish, FinishOrphan
<1>7. CASE Ending
  BY <1>7 DEF Ending, Exit, Hidden, StopImport, StopReload, StopPool, FlushPreferences, DestroyServices,
              CloseDatabase, Take, Awaited, Ends, Vanish
<1>. QED
  BY <1>1, <1>2, <1>3, <1>4, <1>5, <1>6, <1>7 DEF Next, vars

LEMMA ValidDirsExist == ASSUME NEW d \in Dirs \ {""}, IsValid(d) PROVE d \in ExistingDirs
BY NoDirAssumption DEF IsValid, HistoryOf, isValidHistory, getHistoryFilesOrErrorMessage, ExistingDirs

LEMMA StepRemembers == ASSUME PreferencesInv, [Next]_vars PROVE Remembers
<1> SUFFICES ASSUME pc = "gui", pc' = "run" PROVE Remembers
  BY DEF Remembers
<1>1. BuildGui /\ preferences = remembered /\ remembered.dir \in Dirs
  BY OnlyBuildGui DEF PreferencesInv
<1>2. window' = remembered.window
  BY <1>1 DEF BuildGui
<1>3. ASSUME remembered.dir \notin LongDirs \cup {""}, IsValid(remembered.dir)
      PROVE  hs' = [dir |-> remembered.dir, history |-> TRUE] /\ ts' = hs'
  <2>1. remembered.dir \in ExistingDirs \ LongDirs
    BY <1>1, <1>3, ValidDirsExist
  <2>2. getPreferredHistoDir(preferences) = remembered.dir
    BY <1>1, <2>1 DEF getPreferredHistoDir
  <2>. QED
    BY <1>1, <1>3, <2>2 DEF BuildGui
<1>. QED
  BY <1>2, <1>3 DEF Remembers

\* A process that ended well left its preferences, and the next one that shows its
\* window finds them, whatever processes were killed in between (GuiFltk.cpp
\* handleOk, exitCb, Gui::Gui; Preferences.cpp).
THEOREM PreferencesAreKept == Spec => ChosenDirIsRemembered
<1>1. PreferencesInv /\ [Next]_vars => PreferencesInv'
  BY PreferencesNext
<1>2. PreferencesInv /\ [Next]_vars => [Remembers]_vars
  BY StepRemembers
<1>3. Spec => [][Remembers]_vars
  BY <1>1, <1>2, PreferencesInit, PTL DEF Spec
<1>. QED
  BY <1>3 DEF Remembers, ChosenDirIsRemembered
-----------------------------------------------------------------------------
(* The types.                                                              *)

Preference == [dir : Dirs, window : Places \cup {"centre"}]
Service == [dir : Dirs, history : BOOLEAN]
UITasks == [kind : {"import"}, dir : Dirs] \cup {ActivateTask}

DiskType == /\ config \in Configs \cup {NotFound, <<>>, DefaultConfigFile}
            /\ preferences \in Preference /\ schema \in {NotFound} \cup 0 .. NbQueries
            /\ histories \in [Dirs -> Contents]
ProcessType == pc \in Points /\ outcome \in {None, "ended", "killed"} \cup Endings
GuiType == /\ m_preferences \in Preference /\ window \in Places \cup {"centre"} /\ active \in BOOLEAN
           /\ uiTasks \in Seq(UITasks)
ServiceType == /\ hs \in Service /\ ts \in Service
               /\ m_fileWatcher \in Entries \cup {None} /\ callback \in BOOLEAN
ChainType == /\ \A f \in Keys : futures[f] \in Chains \cup {None}
             /\ orphans \subseteq {c \in Chains : HasSteps(c) /\ c.running}

\* There is a database once it was opened.
SchemaInv == pc \in {"schema", "check", "load", "save"} => schema # NotFound

TypeInv == DiskType /\ ProcessType /\ GuiType /\ ServiceType /\ ChainType /\ SchemaInv

LEMMA TypeParts == ASSUME TypeInv, IInv PROVE TypeOK
<1>1. DOMAIN futures = Keys
  BY DEF IInv, FuturesInv, Keys
<1>2. \A f \in DOMAIN futures : futures[f] \in Chains \cup {None}
  BY <1>1 DEF TypeInv, ChainType
<1>3. pool \in BOOLEAN /\ (~pool => \A f \in DOMAIN futures : futures[f] # None => ~futures[f].running)
  BY <1>1 DEF IInv, PoolInv, Quiet
<1>. QED
  BY <1>2, <1>3 DEF TypeOK, TypeInv, DiskType, ProcessType, GuiType, ServiceType, ChainType, Preference,
                    Service, UITasks

\* What a step leaves alone keeps its type.
LEMMA TypeFrame ==
    /\ DiskType /\ UNCHANGED <<disk, histories>> => DiskType'
    /\ ProcessType /\ UNCHANGED <<pc, outcome>> => ProcessType'
    /\ GuiType /\ UNCHANGED gui => GuiType'
    /\ ServiceType /\ UNCHANGED services => ServiceType'
    /\ ChainType /\ UNCHANGED <<futures, orphans>> => ChainType'
    /\ SchemaInv /\ UNCHANGED <<pc, disk>> => SchemaInv'
BY DEF SchemaInv, DiskType, ProcessType, GuiType, ServiceType, ChainType, disk, gui, services, HasSteps

\* The process is gone.
LEMMA VanishType ==
    ASSUME TypeInv, NEW how \in {"ended", "killed"} \cup Endings, Vanish(how), UNCHANGED <<disk, histories>>
    PROVE  TypeInv'
<1>1. "" \in Dirs
  BY DirAssumption
<1>2. DiskType'
  BY TypeFrame DEF TypeInv
<1>3. ProcessType'
  BY DEF Vanish, ProcessType, Points
<1>4. GuiType'
  <2>1. /\ m_preferences' = [dir |-> "", window |-> "centre"] /\ window' = "centre"
        /\ active' = TRUE /\ uiTasks' = <<>>
    BY DEF Vanish, NoPreferences
  <2>2. <<>> \in Seq(UITasks)
    OBVIOUS
  <2>3. m_preferences' \in Preference
    BY <1>1, <2>1 DEF Preference
  <2>. QED
    BY <2>1, <2>2, <2>3 DEF GuiType, Preference, UITasks, ActivateTask
<1>5. ServiceType'
  BY <1>1 DEF Vanish, ServiceType, NoService, Service
<1>6. ChainType'
  <2>1. orphans' = {} /\ \A f \in Keys : futures'[f] = None
    <3>1. orphans' = {} /\ futures' = [import |-> None, reload |-> None, awaited |-> None]
      BY DEF Vanish, NoFuture
    <3>. QED
      BY <3>1 DEF Keys
  <2>. QED
    BY <2>1 DEF ChainType, Chains, HasSteps
<1>7. SchemaInv'
  BY DEF Vanish, SchemaInv
<1>. QED
  BY <1>2, <1>3, <1>4, <1>5, <1>6, <1>7 DEF TypeInv

\* A step of the start-up.
LEMMA StartingType == ASSUME TypeInv, Starting PROVE TypeInv'
<1>1. ASSUME NEW how \in Endings, Ends(how) PROVE TypeInv'
  BY <1>1, VanishType DEF Ends
<1>2. ASSUME NEW next \in StartTargets, Goes(next), DiskType', SchemaInv' PROVE TypeInv'
  BY <1>2, TypeFrame DEF Goes, memory, chains, TypeInv, ProcessType, Points, StartingPoints, StartTargets
<1> USE DEF StartTargets
<1>3. CASE ParseArguments
  <2> DEFINE p == parseProgramArguments(args, ExistingDirs)
  <2>1. CASE p \in Endings
    BY <1>1, <1>3, <2>1 DEF ParseArguments
  <2>2. CASE p \notin Endings
    <3>1. UNCHANGED disk /\ Goes(IF config = NotFound THEN "create" ELSE "configure")
      BY <1>3, <2>2 DEF ParseArguments
    <3>2. DiskType' /\ SchemaInv'
      BY <3>1, TypeFrame DEF Goes, TypeInv, SchemaInv
    <3>. QED
      BY <1>2, <3>1, <3>2
  <2>. QED
    BY <2>1, <2>2
<1>4. CASE OpenConfigFile
  <2>1. DiskType' /\ SchemaInv' /\ Goes("write")
    BY <1>4 DEF OpenConfigFile, Goes, TypeInv, DiskType, Preference, SchemaInv
  <2>. QED
    BY <1>2, <2>1
<1>5. CASE WriteConfigFile
  <2>1. DiskType' /\ SchemaInv' /\ Goes("configure")
    BY <1>5 DEF WriteConfigFile, Goes, TypeInv, DiskType, Preference, SchemaInv
  <2>. QED
    BY <1>2, <2>1
<1>6. CASE OpenDatabase \/ CreateSchema
  <2>0. NbQueries \in Nat /\ NotFound \notin 0 .. NbQueries
    BY ConstantAssumption, MarkersAssumption
  <2>1. DiskType' /\ SchemaInv' /\ (Goes("schema") \/ Goes("check"))
    <3>1. UNCHANGED <<config, preferences, histories>> /\ (Goes("schema") \/ Goes("check"))
      BY <1>6 DEF OpenDatabase, CreateSchema, Goes
    <3>2. schema' \in 0 .. NbQueries
      <4>1. CASE OpenDatabase
        BY <2>0, <4>1 DEF OpenDatabase, TypeInv, DiskType
      <4>2. CASE CreateSchema
        <5>1. schema \in 0 .. NbQueries /\ (schema' = schema \/ (schema < NbQueries /\ schema' = schema + 1))
          BY <4>2 DEF CreateSchema, TypeInv, DiskType, SchemaInv
        <5>. QED
          BY <2>0, <5>1
      <4>. QED
        BY <1>6, <4>1, <4>2
    <3>. QED
      BY <2>0, <3>1, <3>2 DEF TypeInv, DiskType, Preference, SchemaInv
  <2>. QED
    BY <1>2, <2>1
<1>7. CASE Configure \/ CheckHistory \/ LoadHistory \/ SaveHistory
  <2>1. \/ \E how \in Endings : Ends(how)
        \/ /\ UNCHANGED disk
           /\ \E next \in StartTargets :
                 Goes(next) /\ (next = "open" \/ next = "gui" \/ pc \in {"check", "load"})
    <3>1. CASE Configure
      BY <3>1 DEF Configure, Endings
    <3>2. CASE CheckHistory
      <4>1. CASE oHistoDir = None
        BY <3>2, <4>1 DEF CheckHistory
      <4>2. CASE oHistoDir # None /\ oHistoDir \in Dirs /\ IsValid(oHistoDir)
        BY <3>2, <4>2 DEF CheckHistory
      <4>3. CASE oHistoDir # None /\ ~(oHistoDir \in Dirs /\ IsValid(oHistoDir))
        BY <3>2, <4>3 DEF CheckHistory, Endings
      <4>. QED
        BY <4>1, <4>2, <4>3
    <3>3. CASE LoadHistory \/ SaveHistory
      BY <3>3 DEF LoadHistory, SaveHistory, Endings
    <3>. QED
      BY <1>7, <3>1, <3>2, <3>3
  <2>2. ASSUME UNCHANGED disk, NEW next \in StartTargets, Goes(next),
               next = "open" \/ next = "gui" \/ pc \in {"check", "load"}
        PROVE  TypeInv'
    <3>1. DiskType' /\ SchemaInv'
      BY <2>2, TypeFrame DEF Goes, TypeInv, SchemaInv, disk
    <3>. QED
      BY <1>2, <2>2, <3>1
  <2>. QED
    BY <1>1, <2>1, <2>2
<1>. QED
  BY <1>3, <1>4, <1>5, <1>6, <1>7 DEF Starting

\* What the user does outside the program.
LEMMA OutsideType ==
    ASSUME TypeInv, Launch \/ EditConfig \/ ChangeDirectory \/ Dbgen
    PROVE  TypeInv'
<1>1. CASE Launch
  <2>1. pc' = "arguments" /\ outcome' = None /\ UNCHANGED <<disk, histories, gui, services, futures, orphans>>
    BY <1>1 DEF Launch, memory, chains
  <2>2. ProcessType' /\ SchemaInv'
    BY <2>1 DEF ProcessType, SchemaInv, Points, StartingPoints
  <2>. QED
    BY <2>1, <2>2, TypeFrame DEF TypeInv
<1>2. CASE EditConfig
  <2>1. config' \in Configs /\ UNCHANGED <<preferences, schema, histories, pc, outcome, gui, services, futures, orphans>>
    BY <1>2 DEF EditConfig, memory, chains
  <2>2. DiskType' /\ SchemaInv'
    BY <2>1 DEF TypeInv, DiskType, SchemaInv, Preference
  <2>. QED
    BY <2>1, <2>2, TypeFrame DEF TypeInv
<1>3. CASE ChangeDirectory
  <2>1. UNCHANGED <<disk, pc, outcome, gui, services, futures, orphans>>
    BY <1>3 DEF ChangeDirectory, memory, chains
  <2>2. histories' \in [Dirs -> Contents]
    BY <1>3 DEF ChangeDirectory, TypeInv, DiskType
  <2>3. DiskType'
    BY <2>1, <2>2 DEF TypeInv, DiskType, Preference, disk
  <2>. QED
    BY <2>1, <2>3, TypeFrame DEF TypeInv
<1>4. CASE Dbgen
  <2>1. /\ pc = "off" /\ schema' \in {NbQueries, schema}
        /\ UNCHANGED <<config, preferences, histories, pc, outcome, gui, services, futures, orphans>>
    BY <1>4 DEF Dbgen, memory, chains
  <2>2. DiskType' /\ SchemaInv'
    BY <2>1, ConstantAssumption DEF TypeInv, DiskType, SchemaInv, Preference
  <2>. QED
    BY <2>1, <2>2, TypeFrame DEF TypeInv
<1>. QED
  BY <1>1, <1>2, <1>3, <1>4

\* What the user does in the main window.
LEMMA WindowType ==
    ASSUME TypeInv, BuildGui \/ ChooseDirectory \/ Exit
    PROVE  TypeInv'
<1>0. "" \in Dirs
  BY DirAssumption
<1>1. CASE BuildGui
  <2>1. /\ pc' = "run" /\ UNCHANGED <<disk, histories, outcome, active, uiTasks, m_fileWatcher, callback, futures, orphans>>
        /\ m_preferences' = preferences /\ window' = preferences.window
    BY <1>1 DEF BuildGui, chains
  <2>2. GuiType' /\ ProcessType' /\ SchemaInv'
    BY <2>1 DEF TypeInv, DiskType, GuiType, ProcessType, SchemaInv, Points, Preference, UITasks, ActivateTask
  <2> DEFINE dir == getPreferredHistoDir(preferences)
  <2>3. dir \in Dirs
    BY <1>0 DEF getPreferredHistoDir, ExistingDirs
  <2>4. (hs' = [dir |-> dir, history |-> TRUE] /\ ts' = hs') \/ UNCHANGED <<hs, ts>>
    BY <1>1 DEF BuildGui
  <2> HIDE DEF dir
  <2>5. hs' \in Service /\ ts' \in Service
    <3>1. [dir |-> dir, history |-> TRUE] \in Service
      BY <2>3 DEF Service
    <3>. QED
      BY <2>4, <3>1 DEF TypeInv, ServiceType
  <2>6. ServiceType'
    BY <2>1, <2>5 DEF TypeInv, ServiceType, Service
  <2>. QED
    BY <2>1, <2>2, <2>6, TypeFrame DEF TypeInv
<1>2. CASE ChooseDirectory
  <2>1. PICK d \in Dirs : HandleOk(d)
    BY <1>2 DEF ChooseDirectory, ExistingDirs
  <2>2. UNCHANGED <<disk, histories, pc, outcome, window, active, m_fileWatcher, callback, futures, orphans>>
    BY <1>2 DEF ChooseDirectory, chains
  <2>3. CASE IsValid(d)
    <3>1. /\ m_preferences' = [m_preferences EXCEPT !.dir = d] /\ uiTasks' = Append(uiTasks, ImportTask(d))
          /\ hs' = [dir |-> d, history |-> TRUE] /\ ts' = [ts EXCEPT !.history = TRUE]
      BY <2>1, <2>3 DEF HandleOk
    <3>2. m_preferences' \in Preference
      BY <3>1 DEF TypeInv, GuiType, Preference
    <3>3. uiTasks' \in Seq(UITasks)
      <4>1. ImportTask(d) \in UITasks
        BY DEF ImportTask, UITasks
      <4>. QED
        BY <3>1, <4>1 DEF TypeInv, GuiType
    <3>4. hs' \in Service /\ ts' \in Service
      BY <3>1 DEF TypeInv, ServiceType, Service
    <3>5. GuiType' /\ ServiceType'
      BY <2>2, <3>2, <3>3, <3>4 DEF TypeInv, GuiType, ServiceType, Preference, Service, UITasks, ActivateTask
    <3>. QED
      BY <2>2, <3>5, TypeFrame DEF TypeInv
  <2>4. CASE ~IsValid(d)
    <3>1. UNCHANGED <<gui, services>>
      BY <2>1, <2>2, <2>4 DEF HandleOk, gui, services
    <3>. QED
      BY <2>2, <3>1, TypeFrame DEF TypeInv
  <2>. QED
    BY <2>3, <2>4
<1>3. CASE Exit
  <2>1. /\ pc' = "hide" /\ window' \in Places /\ m_preferences' = [m_preferences EXCEPT !.window = window']
        /\ UNCHANGED <<disk, histories, outcome, active, uiTasks, services, futures, orphans>>
    BY <1>3 DEF Exit, chains
  <2>2. GuiType' /\ ProcessType' /\ SchemaInv'
    BY <2>1 DEF TypeInv, GuiType, ProcessType, SchemaInv, Points, Preference, UITasks, ActivateTask
  <2>. QED
    BY <2>1, <2>2, TypeFrame DEF TypeInv
<1>. QED
  BY <1>1, <1>2, <1>3

LEMMA ChainTypes == \A kind \in {"import", "reload"}, d \in Dirs : Chain(kind, d) \in Chains
BY DEF Chain, Chains

\* Chains that are replaced, one by one.
LEMMA FuturesType ==
    ASSUME ChainType, \A f \in Keys : futures'[f] \in Chains \cup {None},
           \A c \in orphans' \ orphans : c \in Chains /\ HasSteps(c) /\ c.running
    PROVE  ChainType'
BY DEF ChainType, Chains, HasSteps

LEMMA LostType == ASSUME NEW c \in Chains \cup {None}, NEW d \in Lost(c)
                  PROVE  d \in Chains /\ HasSteps(d) /\ d.running
BY DEF Lost, HasSteps

\* What follows the choice of a directory, the window of a table and a change of a file.
LEMMA TaskType ==
    ASSUME TypeInv, IInv, RunUITask \/ StartWatch \/ FileChanges \/ Reload
    PROVE  TypeInv'
<1>0. DOMAIN futures = Keys
  BY DEF IInv, FuturesInv, Keys
<1>1. CASE RunUITask
  <2> DEFINE task == Head(uiTasks)
  <2>1. /\ uiTasks # <<>> /\ uiTasks' = Tail(uiTasks)
        /\ UNCHANGED <<disk, histories, pc, outcome, m_preferences, window, ts, m_fileWatcher, callback>>
        /\ \/ active' = TRUE /\ UNCHANGED <<hs, futures, orphans>>
           \/ /\ task.kind = "import" /\ active' = FALSE
              /\ hs' = [hs EXCEPT !.dir = task.dir]
              /\ orphans' = orphans \cup Lost(futures.import)
              /\ futures' = [futures EXCEPT !.import = Chain("import", task.dir)]
    BY <1>1 DEF RunUITask
  <2>2. task \in UITasks /\ uiTasks' \in Seq(UITasks)
    BY <2>1 DEF TypeInv, GuiType
  <2> HIDE DEF task
  <2>3. task.dir \in Dirs
    <3>1. CASE task \in [kind : {"import"}, dir : Dirs]
      BY <3>1
    <3>2. CASE task = ActivateTask
      BY <3>2, DirAssumption DEF ActivateTask
    <3>. QED
      BY <2>2, <3>1, <3>2 DEF UITasks
  <2>4. GuiType'
    BY <2>1, <2>2 DEF TypeInv, GuiType, Preference, UITasks, ActivateTask
  <2>5. ServiceType'
    BY <2>1, <2>3 DEF TypeInv, ServiceType, Service
  <2>6. ChainType'
    <3>1. CASE UNCHANGED <<futures, orphans>>
      BY <3>1, TypeFrame DEF TypeInv
    <3>2. CASE /\ orphans' = orphans \cup Lost(futures.import)
               /\ futures' = [futures EXCEPT !.import = Chain("import", task.dir)]
      <4>1. \A f \in Keys : futures'[f] \in Chains \cup {None}
        BY <1>0, <2>3, <3>2, ChainTypes DEF TypeInv, ChainType
      <4>2. futures.import \in Chains \cup {None}
        BY DEF TypeInv, ChainType, Keys
      <4>3. \A c \in orphans' \ orphans : c \in Chains /\ HasSteps(c) /\ c.running
        BY <3>2, <4>2, LostType
      <4>. QED
        BY <4>1, <4>3, FuturesType DEF TypeInv
    <3>. QED
      BY <2>1, <3>1, <3>2
  <2>. QED
    BY <2>1, <2>4, <2>5, <2>6, TypeFrame DEF TypeInv
<1>2. CASE StartWatch
  <2>1. /\ m_fileWatcher' \in Entries
        /\ UNCHANGED <<disk, histories, pc, outcome, gui, hs, ts, callback, futures, orphans>>
    <3>0. PICK title \in Titles :
             \E f \in getHistoryFileFromTableWindowTitle(HistoryOf(ts.dir), title) :
                f # NotFound /\ m_fileWatcher' = f
      BY <1>2 DEF StartWatch
    <3>1. PICK f \in getHistoryFileFromTableWindowTitle(HistoryOf(ts.dir), title) :
             f # NotFound /\ m_fileWatcher' = f
      BY <3>0
    <3> DEFINE h == HistoryOf(ts.dir)
    <3>2. f \in listFilesAndDirs(h)
      BY <3>1 DEF getHistoryFileFromTableWindowTitle, listFilesMatchingPattern
    <3>3. h = histories[ts.dir] /\ h # NoDir /\ h # NotFound /\ f \in h
      BY <3>2 DEF listFilesAndDirs, HistoryOf
    <3>4. h \in Contents
      BY <3>3 DEF TypeInv, ServiceType, Service, DiskType
    <3> HIDE DEF h
    <3>5. f \in Entries
      BY <3>3, <3>4 DEF Entries
    <3>. QED
      BY <1>2, <3>1, <3>5 DEF StartWatch, chains
  <2>2. ServiceType'
    BY <2>1 DEF TypeInv, ServiceType, Service, Entries
  <2>. QED
    BY <2>1, <2>2, TypeFrame DEF TypeInv
<1>3. CASE FileChanges
  <2>1. /\ callback' = TRUE
        /\ UNCHANGED <<disk, histories, pc, outcome, gui, hs, ts, m_fileWatcher, futures, orphans>>
    BY <1>3 DEF FileChanges, chains
  <2>2. ServiceType'
    BY <2>1 DEF TypeInv, ServiceType, Service, Entries
  <2>. QED
    BY <2>1, <2>2, TypeFrame DEF TypeInv
<1>4. CASE Reload
  <2>1. /\ callback' = FALSE /\ orphans' = orphans \cup Lost(futures.reload)
        /\ futures' = [futures EXCEPT !.reload = Chain("reload", ts.dir)]
        /\ UNCHANGED <<disk, histories, pc, outcome, gui, hs, ts, m_fileWatcher>>
    BY <1>4 DEF Reload
  <2>2. ServiceType'
    BY <2>1 DEF TypeInv, ServiceType, Service, Entries
  <2>3. ts.dir \in Dirs
    BY DEF TypeInv, ServiceType, Service
  <2>4. \A f \in Keys : futures'[f] \in Chains \cup {None}
    BY <1>0, <2>1, <2>3, ChainTypes DEF TypeInv, ChainType
  <2>5. futures.reload \in Chains \cup {None}
    BY DEF TypeInv, ChainType, Keys
  <2>6. \A c \in orphans' \ orphans : c \in Chains /\ HasSteps(c) /\ c.running
    BY <2>1, <2>5, LostType
  <2>7. ChainType'
    BY <2>4, <2>6, FuturesType DEF TypeInv
  <2>. QED
    BY <2>1, <2>2, <2>7, TypeFrame DEF TypeInv
<1>. QED
  BY <1>1, <1>2, <1>3, <1>4

\* The steps of the chains.
LEMMA AfterStepType == ASSUME TypeInv, NEW c \in Chains PROVE AfterStep(c) \in Service
BY DEF TypeInv, ServiceType, AfterStep, Service, IsValid, HistoryOf, isValidHistory

LEMMA PoolType == ASSUME TypeInv, IInv, PoolStep PROVE TypeInv'
<1>0. DOMAIN futures = Keys
  BY DEF IInv, FuturesInv, Keys
<1>1. ASSUME NEW f \in Keys, Begin(f) PROVE TypeInv'
  <2> DEFINE c == futures[f]
  <2>1. c # None /\ UNCHANGED <<disk, histories, pc, outcome, gui, services, orphans>>
    BY <1>1 DEF Begin, HasSteps
  <2>2. c \in Chains
    BY <2>1 DEF TypeInv, ChainType
  <2>3. futures' = [futures EXCEPT ![f] = [c EXCEPT !.running = TRUE]]
    BY <1>1 DEF Begin
  <2>4. [c EXCEPT !.running = TRUE] \in Chains
    BY <2>2 DEF Chains
  <2>5. \A g \in Keys : futures'[g] \in Chains \cup {None}
    BY <1>0, <2>3, <2>4 DEF TypeInv, ChainType
  <2>6. ChainType'
    BY <2>1, <2>5, FuturesType DEF TypeInv
  <2>. QED
    BY <2>1, <2>6, TypeFrame DEF TypeInv
<1>2. ASSUME NEW f \in Keys, Finish(f) PROVE TypeInv'
  <2> DEFINE c == futures[f]
  <2>1. /\ c # None /\ hs' = AfterStep(c) /\ uiTasks' \in {uiTasks, Append(uiTasks, ActivateTask)}
        /\ UNCHANGED <<disk, histories, pc, outcome, m_preferences, window, active, ts, m_fileWatcher, callback, orphans>>
    BY <1>2 DEF Finish, HasSteps
  <2>2. c \in Chains
    BY <2>1 DEF TypeInv, ChainType
  <2>3. PICK next \in {"save", "done", "threw"} :
           futures' = [futures EXCEPT ![f] = [[c EXCEPT !.step = next] EXCEPT !.running = FALSE]]
    BY <1>2 DEF Finish, Following
  <2>4. [[c EXCEPT !.step = next] EXCEPT !.running = FALSE] \in Chains
    BY <2>2 DEF Chains
  <2>5. \A g \in Keys : futures'[g] \in Chains \cup {None}
    BY <1>0, <2>3, <2>4 DEF TypeInv, ChainType
  <2>6. ChainType'
    BY <2>1, <2>5, FuturesType DEF TypeInv
  <2>7. hs' \in Service
    BY <2>1, <2>2, AfterStepType
  <2>8. ServiceType'
    BY <2>1, <2>7 DEF TypeInv, ServiceType, Service, Entries
  <2>9. uiTasks' \in Seq(UITasks)
    BY <2>1 DEF TypeInv, GuiType, UITasks
  <2>10. GuiType'
    BY <2>1, <2>9 DEF TypeInv, GuiType, Preference, UITasks, ActivateTask
  <2>. QED
    BY <2>1, <2>6, <2>8, <2>10, TypeFrame DEF TypeInv
<1>3. CASE FinishOrphan
  <2>1. PICK c \in orphans : orphans' = orphans \ {c} /\ hs' = AfterStep(c)
    BY <1>3 DEF FinishOrphan
  <2>2. UNCHANGED <<disk, histories, pc, outcome, gui, ts, m_fileWatcher, callback, futures>>
    BY <1>3 DEF FinishOrphan
  <2>3. c \in Chains
    BY DEF TypeInv, ChainType
  <2>4. hs' \in Service
    BY <2>1, <2>3, AfterStepType
  <2>5. ServiceType'
    BY <2>2, <2>4 DEF TypeInv, ServiceType, Service, Entries
  <2>6. ChainType'
    BY <2>1, <2>2 DEF TypeInv, ChainType, Chains, HasSteps
  <2>. QED
    BY <2>2, <2>5, <2>6, TypeFrame DEF TypeInv
<1>. QED
  BY <1>0, <1>1, <1>2, <1>3 DEF PoolStep

\* The end of the process.
LEMMA TakeType ==
    ASSUME TypeInv, IInv, NEW from, NEW to \in Points \ StartingPoints, NEW f \in {"import", "reload"},
           Take(from, to, f) \/ Awaited(from, to, f)
    PROVE  TypeInv'
<1>0. DOMAIN futures = Keys /\ f \in Keys
  BY DEF IInv, FuturesInv, Keys
<1>1. pc' = to /\ UNCHANGED <<disk, histories, outcome, gui, services>>
  BY DEF Take, Awaited
<1>2. ProcessType' /\ SchemaInv'
  BY <1>1 DEF TypeInv, ProcessType, SchemaInv, Points, StartingPoints
<1>3. \A g \in Keys : futures'[g] \in {futures[g], futures[f], None}
  <2>1. CASE futures' = [[futures EXCEPT !.awaited = futures[f]] EXCEPT ![f] = None]
    BY <1>0, <2>1 DEF Keys
  <2>2. CASE futures' = [[futures EXCEPT !.awaited = None] EXCEPT ![f] = None]
    BY <1>0, <2>2 DEF Keys
  <2>. QED
    BY <2>1, <2>2 DEF Take, Awaited
<1>4. futures[f] \in Chains \cup {None}
  BY <1>0 DEF TypeInv, ChainType
<1>5. \A g \in Keys : futures'[g] \in Chains \cup {None}
  BY <1>3, <1>4 DEF TypeInv, ChainType
<1>6. \A c \in orphans' \ orphans : c \in Chains /\ HasSteps(c) /\ c.running
  BY <1>4, LostType DEF Take, Awaited
<1>7. ChainType'
  BY <1>5, <1>6, FuturesType DEF TypeInv
<1>. QED
  BY <1>1, <1>2, <1>7, TypeFrame DEF TypeInv

LEMMA EndingType == ASSUME TypeInv, IInv, Ending PROVE TypeInv'
<1>0. ASSUME NEW how \in {"ended", "killed"} \cup Endings, Ends(how) PROVE TypeInv'
  BY <1>0, VanishType DEF Ends
<1>1. CASE Exit
  BY <1>1, WindowType
<1>2. CASE Hidden
  <2>1. pc' = "stopImport" /\ UNCHANGED <<disk, histories, outcome, gui, services, futures, orphans>>
    BY <1>2 DEF Hidden, Goes, memory, chains
  <2>2. ProcessType' /\ SchemaInv'
    BY <2>1 DEF TypeInv, ProcessType, SchemaInv, Points
  <2>. QED
    BY <2>1, <2>2, TypeFrame DEF TypeInv
<1>3. CASE StopImport
  BY <1>3, TakeType DEF StopImport, Points, StartingPoints
<1>4. CASE StopReload
  BY <1>0, <1>4, TakeType DEF StopReload, Points, StartingPoints, Endings
<1>5. CASE StopPool
  <2>1. pc' = "flush" /\ UNCHANGED <<disk, histories, outcome, gui, services, futures, orphans>>
    BY <1>5 DEF StopPool
  <2>2. ProcessType' /\ SchemaInv'
    BY <2>1 DEF TypeInv, ProcessType, SchemaInv, Points
  <2>. QED
    BY <2>1, <2>2, TypeFrame DEF TypeInv
<1>6. CASE FlushPreferences
  <2>1. /\ pc' = "services" /\ preferences' = m_preferences
        /\ UNCHANGED <<config, schema, histories, outcome, gui, services, futures, orphans>>
    BY <1>6 DEF FlushPreferences, memory, chains
  <2>2. ProcessType' /\ SchemaInv' /\ DiskType'
    BY <2>1 DEF TypeInv, ProcessType, SchemaInv, Points, DiskType, GuiType, Preference
  <2>. QED
    BY <2>1, <2>2, TypeFrame DEF TypeInv
<1>7. CASE DestroyServices
  <2>1. CASE Ends(Aborted)
    BY <1>0, <2>1 DEF Endings
  <2>2. CASE /\ pc' = "database" /\ m_fileWatcher' = None /\ callback' = FALSE
             /\ futures' = [futures EXCEPT !.reload = None]
             /\ UNCHANGED <<disk, histories, outcome, gui, hs, ts, orphans>>
    <3>1. ProcessType' /\ SchemaInv' /\ ServiceType'
      BY <2>2 DEF TypeInv, ProcessType, SchemaInv, Points, ServiceType, Service, Entries
    <3>2. DOMAIN futures = Keys
      BY DEF IInv, FuturesInv, Keys
    <3>3. \A f \in Keys : futures'[f] \in Chains \cup {None}
      BY <2>2, <3>2 DEF TypeInv, ChainType
    <3>4. ChainType'
      BY <2>2, <3>3, FuturesType DEF TypeInv
    <3>. QED
      BY <2>2, <3>1, <3>4, TypeFrame DEF TypeInv
  <2>. QED
    BY <1>7, <2>1, <2>2 DEF DestroyServices
<1>8. CASE CloseDatabase
  BY <1>0, <1>8 DEF CloseDatabase
<1>. QED
  BY <1>1, <1>2, <1>3, <1>4, <1>5, <1>6, <1>7, <1>8 DEF Ending

LEMMA TypeInit == Init => TypeInv
<1> SUFFICES ASSUME Init PROVE TypeInv
  OBVIOUS
<1>1. "" \in Dirs /\ Disks \subseteq [Dirs -> Contents]
  BY DirAssumption
<1>2. DiskType /\ ProcessType /\ SchemaInv
  <2>1. preferences \in Preference
    BY <1>1 DEF Init, NoPreferences, Preference
  <2>. QED
    BY <1>1, <2>1 DEF Init, DiskType, ProcessType, SchemaInv, Points
<1>3. GuiType
  <2>1. /\ m_preferences = [dir |-> "", window |-> "centre"] /\ window = "centre"
        /\ active = TRUE /\ uiTasks = <<>>
    BY DEF Init, NothingInMemory, NoPreferences
  <2>2. <<>> \in Seq(UITasks)
    OBVIOUS
  <2>3. m_preferences \in Preference
    BY <1>1, <2>1 DEF Preference
  <2>. QED
    BY <2>1, <2>2, <2>3 DEF GuiType
<1>4. ServiceType
  BY <1>1 DEF Init, NothingInMemory, ServiceType, NoService, Service
<1>5. ChainType
  <2>1. orphans = {} /\ futures = [import |-> None, reload |-> None, awaited |-> None]
    BY DEF Init, NothingInMemory, NoFuture
  <2>2. \A f \in Keys : futures[f] = None
    BY <2>1 DEF Keys
  <2>. QED
    BY <2>1, <2>2 DEF ChainType
<1>. QED
  BY <1>2, <1>3, <1>4, <1>5 DEF TypeInv

LEMMA TypeNext == TypeInv /\ IInv /\ [Next]_vars => TypeInv'
<1> SUFFICES ASSUME TypeInv, IInv, [Next]_vars PROVE TypeInv'
  OBVIOUS
<1>1. CASE UNCHANGED vars
  BY <1>1, TypeFrame DEF vars, memory, chains, TypeInv
<1>2. CASE Crash
  BY <1>2, VanishType DEF Crash
<1>. QED
  BY <1>1, <1>2, StartingType, OutsideType, WindowType, TaskType, PoolType, EndingType DEF Next

\* The disk, the process, what waits for the user interface and the chains of tasks
\* keep their shape: a service watches a file that exists or existed, the user
\* interface waits for imports and their ends, an orphan is running, and nothing
\* begins once the pool is stopped (phud.cpp main, GuiFltk.cpp, HistoryService.cpp,
\* TableService.cpp).
THEOREM ProgramTypes == Spec => []TypeOK
<1>1. IInv /\ TypeInv /\ [Next]_vars => (IInv /\ TypeInv)'
  BY NextIInv, TypeNext
<1>2. Init => IInv /\ TypeInv
  BY InitIInv, TypeInit
<1>3. IInv /\ TypeInv => TypeOK
  BY TypeParts
<1>. QED
  BY <1>1, <1>2, <1>3, PTL DEF Spec
-----------------------------------------------------------------------------
(* Why a start-up fails.                                                   *)

LEMMA NoOption ==
    ASSUME NEW words, NEW short, NEW long, Len(words) # 0, \A i \in 1 .. Len(words) : words[i] \notin {short, long}
    PROVE  getOptionValue(words, short, long) = None
<1> DEFINE option == IF Contains(words, short) THEN short ELSE long
<1>1. option \in {short, long}
  OBVIOUS
<1>2. getOptionValue(words, short, long) =
         LET it == SelectInSeq(words, LAMBDA w : w = option)
         IN CASE it = 0 -> None
              [] it = Len(words) -> Aborted
              [] OTHER -> words[it + 1]
  BY DEF getOptionValue
<1> HIDE DEF option
<1>3. {i \in 1 .. Len(words) : words[i] = option} = {}
  BY <1>1
<1>4. SelectInSeq(words, LAMBDA w : w = option) = 0
  BY <1>3 DEF SelectInSeq
<1>. QED
  BY <1>2, <1>4

\* No argument, or an existing directory: help is asked, if this is its name, or
\* the arguments are read.
LEMMA LegitParse ==
    ASSUME TypeInv, NEW legit \in LegitArguments
    PROVE  \/ parseProgramArguments(legit, ExistingDirs) = Help
           \/ \E dir \in {None} \cup {d \in Dirs : IsValid(d)} :
                 parseProgramArguments(legit, ExistingDirs) = [dir |-> dir, level |-> None]
<1> DEFINE p == parseProgramArguments(legit, ExistingDirs)
           oDir == parseHistoryDir(legit, ExistingDirs)
           oLevel == parseLoggingLevel(legit)
           Shown == Contains(legit, "-h") \/ Contains(legit, "--help")
<1>0. {Failed, Aborted} \cap ({None} \cup Dirs) = {}
  BY MarkersAssumption
<1>1. CASE legit = <<"phud">>
  <2>1. Len(legit) = 1 /\ legit[1] = "phud"
    BY <1>1
  <2>2. \A option \in {"-d", "--historyDir", "-l", "--logLevel", "-h", "--help"} : ~Contains(legit, option)
    BY <2>1 DEF Contains
  <2>3. getOptionValue(legit, "-d", "--historyDir") = None /\ getOptionValue(legit, "-l", "--logLevel") = None
    <3>1. /\ Len(legit) # 0
          /\ \A i \in 1 .. Len(legit) : legit[i] \notin {"-d", "--historyDir"}
          /\ \A i \in 1 .. Len(legit) : legit[i] \notin {"-l", "--logLevel"}
      BY <2>1
    <3>. QED
      BY <3>1, NoOption, Zenon
  <2>4. oDir = None /\ oLevel = None
    BY <2>3 DEF parseHistoryDir, parseLoggingLevel
  <2>5. listUnknownArguments(legit) = {}
    BY <1>1 DEF listUnknownArguments
  <2>6. ~Shown
    BY <2>2
  <2>7. p = Help \/ p = [dir |-> None, level |-> None]
    <3> HIDE DEF oDir, oLevel, Shown
    <3>1. p = CASE Shown -> Help
                [] listUnknownArguments(legit) # {} -> Failed
                [] oDir \in Endings -> oDir
                [] oLevel \in Endings -> oLevel
                [] OTHER -> [dir |-> oDir, level |-> oLevel]
      BY DEF parseProgramArguments, oDir, oLevel, Shown
    <3>. QED
      BY <1>0, <2>4, <2>5, <2>6, <3>1 DEF Endings
  <2>. QED
    BY <2>7
<1>2. ASSUME NEW d \in ExistingDirs \ {"-l", "--logLevel"}, IsValid(d), legit = <<"phud", "-d", d>>
      PROVE  p = Help \/ p = [dir |-> d, level |-> None]
  <2>1. Len(legit) = 3 /\ legit[1] = "phud" /\ legit[2] = "-d" /\ legit[3] = d /\ d \in Dirs
    BY <1>2 DEF ExistingDirs
  <2>2. Contains(legit, "-d") /\ getOptionValue(legit, "-l", "--logLevel") = None
    <3>1. Len(legit) # 0 /\ \A i \in 1 .. Len(legit) : legit[i] \notin {"-l", "--logLevel"}
      BY <1>2, <2>1
    <3>2. Contains(legit, "-d")
      BY <2>1 DEF Contains
    <3>. QED
      BY <3>1, <3>2, NoOption, Zenon
  <2>3. SelectInSeq(legit, LAMBDA w : w = "-d") = 2
    <3> DEFINE I == {i \in 1 .. Len(legit) : legit[i] = "-d"}
    <3>1. 2 \in I /\ \A i \in I : 2 <= i
      BY <2>1
    <3>2. I # {} /\ I \subseteq Int
      BY <3>1
    <3>3. SelectInSeq(legit, LAMBDA w : w = "-d") = Min(I)
      BY <3>2 DEF SelectInSeq
    <3> HIDE DEF I
    <3>4. Min(I) \in I /\ \A i \in I : Min(I) <= i
      BY <3>1 DEF Min
    <3>. QED
      BY <3>1, <3>2, <3>3, <3>4
  <2>4. oDir = d
    <3>1. getOptionValue(legit, "-d", "--historyDir") = d
      BY <2>1, <2>2, <2>3 DEF getOptionValue
    <3>. QED
      BY <1>2, <3>1 DEF parseHistoryDir
  <2>5. oLevel = None
    BY <2>2 DEF parseLoggingLevel
  <2>6. listUnknownArguments(legit) = {}
    BY <1>2 DEF listUnknownArguments
  <2>7. p = CASE Shown -> Help
              [] listUnknownArguments(legit) # {} -> Failed
              [] oDir \in Endings -> oDir
              [] oLevel \in Endings -> oLevel
              [] OTHER -> [dir |-> oDir, level |-> oLevel]
    BY DEF parseProgramArguments
  <2>. QED
    <3> HIDE DEF oDir, oLevel, Shown, p
    <3>. QED
      BY <1>0, <2>1, <2>4, <2>5, <2>6, <2>7 DEF Endings
<1>3. ASSUME NEW d \in ExistingDirs \ {"-l", "--logLevel"}, IsValid(d), legit = <<"phud", "-d", d>>
      PROVE  \E dir \in {None} \cup {e \in Dirs : IsValid(e)} : p = Help \/ p = [dir |-> dir, level |-> None]
  <2>1. d \in {e \in Dirs : IsValid(e)}
    BY <1>3 DEF ExistingDirs
  <2>2. p = Help \/ p = [dir |-> d, level |-> None]
    BY <1>2, <1>3
  <2> HIDE DEF p
  <2>. QED
    BY <2>1, <2>2
<1>. QED
  BY <1>1, <1>3 DEF LegitArguments

\* The default configuration file gives a level and no directory.
LEMMA OneMatch == ASSUME NEW k \in Nat PROVE Max({k}) = k
<1>1. k \in {k} /\ \A j \in {k} : k >= j
  OBVIOUS
<1>2. Max({k}) \in {k}
  BY <1>1 DEF Max
<1>. QED
  BY <1>2

LEMMA DefaultLines ==
    /\ Len(DefaultConfigFile) = 12
    /\ \A i \in 1 .. 12 : Gives(DefaultConfigFile[i], "logging.level") <=> i = 5
    /\ \A i \in 1 .. 12 : ~Gives(DefaultConfigFile[i], "history.directory")
    /\ \A i \in 1 .. 12 : ~IsWrong(DefaultConfigFile[i])
<1>1. Blank # NoEqual /\ \A i \in {5, 9, 12} : DefaultConfigFile[i] \notin {Blank, NoEqual}
  BY MarkersAssumption
<1>2. Len(DefaultConfigFile) = 12
  BY DEF DefaultConfigFile
<1>3. \A i \in 1 .. 12 : i \notin {5, 9, 12} => DefaultConfigFile[i] = Blank
  <2>1. /\ DefaultConfigFile[1] = Blank /\ DefaultConfigFile[2] = Blank /\ DefaultConfigFile[3] = Blank
        /\ DefaultConfigFile[4] = Blank /\ DefaultConfigFile[6] = Blank /\ DefaultConfigFile[7] = Blank
        /\ DefaultConfigFile[8] = Blank /\ DefaultConfigFile[10] = Blank /\ DefaultConfigFile[11] = Blank
    BY DEF DefaultConfigFile
  <2>. QED
    BY <2>1
<1>4. /\ DefaultConfigFile[5].key = "logging.level" /\ DefaultConfigFile[5].value = "info"
      /\ DefaultConfigFile[9].key = "logging.pattern"
      /\ DefaultConfigFile[12].key = "history.directory" /\ DefaultConfigFile[12].value = ""
  BY DEF DefaultConfigFile, Property
<1>5. toLoggingLevel("info") # Failed
  BY MarkersAssumption DEF toLoggingLevel, LoggingLevels
<1>6. ASSUME NEW i \in 1 .. 12
      PROVE  /\ Gives(DefaultConfigFile[i], "logging.level") <=> i = 5
             /\ ~Gives(DefaultConfigFile[i], "history.directory")
             /\ ~IsWrong(DefaultConfigFile[i])
  <2> DEFINE line == DefaultConfigFile[i]
  <2>1. CASE i \notin {5, 9, 12}
    BY <1>1, <1>3, <2>1 DEF Gives, IsWrong
  <2>2. CASE i = 5
    <3>1. line \notin {Blank, NoEqual} /\ line.key = "logging.level" /\ line.value = "info"
      BY <1>1, <1>4, <2>2
    <3> HIDE DEF line
    <3>2. Gives(line, "logging.level") /\ ~Gives(line, "history.directory") /\ ~IsWrong(line)
      BY <1>5, <3>1 DEF Gives, IsWrong
    <3>. QED
      BY <2>2, <3>2 DEF line
  <2>3. CASE i = 9
    <3>1. line \notin {Blank, NoEqual} /\ line.key = "logging.pattern"
      BY <1>1, <1>4, <2>3
    <3> HIDE DEF line
    <3>2. ~Gives(line, "logging.level") /\ ~Gives(line, "history.directory") /\ ~IsWrong(line)
      BY <3>1 DEF Gives, IsWrong
    <3>. QED
      BY <2>3, <3>2 DEF line
  <2>4. CASE i = 12
    <3>1. line \notin {Blank, NoEqual} /\ line.key = "history.directory" /\ line.value = ""
      BY <1>1, <1>4, <2>4
    <3> HIDE DEF line
    <3>2. ~Gives(line, "logging.level") /\ ~Gives(line, "history.directory") /\ ~IsWrong(line)
      BY <3>1 DEF Gives, IsWrong
    <3>. QED
      BY <2>4, <3>2 DEF line
  <2>. QED
    BY <2>1, <2>2, <2>3, <2>4
<1>. QED
  BY <1>2, <1>6

LEMMA DefaultConfig ==
    ASSUME NEW dir \in Dirs \cup {None}
    PROVE  readConfiguration([dir |-> dir, level |-> None], DefaultConfigFile) = [dir |-> dir, level |-> "info"]
<1> DEFINE lines == DefaultConfigFile
           read == parsePropertiesFile(lines)
           Level == {i \in 1 .. Len(lines) : Gives(lines[i], "logging.level")}
           Directory == {i \in 1 .. Len(lines) : Gives(lines[i], "history.directory")}
<1>1. ~ConfigReaderThrows(lines)
  <2>1. DOMAIN lines = 1 .. 12
    BY DEF DefaultConfigFile
  <2>. QED
    BY <2>1, DefaultLines DEF ConfigReaderThrows
<1>2. Level = {5} /\ Directory = {}
  BY DefaultLines
<1>3. SelectLastInSeq(lines, LAMBDA line : Gives(line, "logging.level")) = 5
  <2>1. 5 \in Nat
    OBVIOUS
  <2>2. Max({5}) = 5
    BY <2>1, OneMatch
  <2>3. SelectLastInSeq(lines, LAMBDA line : Gives(line, "logging.level")) = IF Level # {} THEN Max(Level) ELSE 0
    BY DEF SelectLastInSeq
  <2> HIDE DEF Level
  <2>. QED
    BY <1>2, <2>2, <2>3
<1>4. read.historyDirectory = None
  <2>1. SelectLastInSeq(lines, LAMBDA line : Gives(line, "history.directory")) = 0
    BY <1>2 DEF SelectLastInSeq
  <2>. QED
    BY <2>1 DEF parsePropertiesFile
<1>5. read.loggingLevel = "info"
  <2>1. lines[5].value = "info"
    BY DEF DefaultConfigFile, Property
  <2>. QED
    BY <1>3, <2>1 DEF parsePropertiesFile
<1>6. "info" # None
  BY MarkersAssumption DEF LoggingLevels
<1>. QED
  <2> HIDE DEF lines, read
  <2>1. readConfiguration([dir |-> dir, level |-> None], lines) =
           IF ConfigReaderThrows(lines) \/ read.loggingLevel = None THEN Failed
           ELSE [dir |-> IF dir = None THEN read.historyDirectory ELSE dir, level |-> read.loggingLevel]
    BY DEF readConfiguration, read
  <2>2. readConfiguration([dir |-> dir, level |-> None], lines) = [dir |-> dir, level |-> "info"]
    BY <1>1, <1>4, <1>5, <1>6, <2>1
  <2>. QED
    BY <2>2 DEF lines

\* While the program starts: the arguments were read, in the directories of the
\* launch if nothing moved; there is a configuration file; the directory comes
\* from both; it is only loaded when it is valid.
ParsedInv == pc \in {"create", "write", "configure", "open", "schema", "check"} =>
                 /\ parsed \notin Endings
                 /\ ~moved => parsed = parseProgramArguments(args, ExistingDirs)
ConfigInv == pc \in {"configure", "open", "schema", "check"} => config # NotFound
DirectoryInv == pc \in {"open", "schema", "check"} => oHistoDir = readConfiguration(parsed, config).dir
LoadInv == pc = "load" /\ ~moved => IsValid(oHistoDir)
StartInv == ParsedInv /\ ConfigInv /\ DirectoryInv /\ LoadInv

startVars == <<pc, moved, settings, histories, config>>

LEMMA StartFrame == ASSUME StartInv, UNCHANGED startVars PROVE StartInv'
<1>1. UNCHANGED <<pc, moved, args, parsed, oHistoDir, histories, config>>
  BY DEF startVars, settings
<1>2. UNCHANGED <<ExistingDirs, IsValid(oHistoDir)>>
  BY <1>1 DEF ExistingDirs, IsValid, HistoryOf
<1>3. UNCHANGED <<parseProgramArguments(args, ExistingDirs), readConfiguration(parsed, config)>>
  BY <1>1, <1>2
<1>. QED
  BY <1>1, <1>2, <1>3 DEF StartInv, ParsedInv, ConfigInv, DirectoryInv, LoadInv

\* Before the arguments are read and after the history is loaded.
LEMMA StartPast ==
    ASSUME pc' \notin {"create", "write", "configure", "open", "schema", "check", "load"}
    PROVE  StartInv'
BY DEF StartInv, ParsedInv, ConfigInv, DirectoryInv, LoadInv

LEMMA StartVanish == ASSUME NEW how, Vanish(how) PROVE StartInv'
BY StartPast DEF Vanish

LEMMA StartStarting == ASSUME StartInv, Starting PROVE StartInv'
<1>0. CASE \E how : Ends(how)
  BY <1>0, StartVanish DEF Ends
<1>1. ASSUME NEW next, Goes(next), UNCHANGED <<args, parsed>>, config' = config \/ pc = "write" \/ pc = "create"
      PROVE  /\ pc' = next /\ UNCHANGED <<moved, histories>> /\ UNCHANGED <<ExistingDirs, parseProgramArguments(args, ExistingDirs)>>
             /\ UNCHANGED config => UNCHANGED readConfiguration(parsed, config)
  <2>1. pc' = next /\ UNCHANGED <<moved, histories>>
    BY <1>1 DEF Goes
  <2>2. UNCHANGED ExistingDirs
    BY <2>1 DEF ExistingDirs
  <2>3. UNCHANGED parseProgramArguments(args, ExistingDirs)
    BY <1>1, <2>2
  <2>4. UNCHANGED config => UNCHANGED readConfiguration(parsed, config)
    BY <1>1
  <2>. QED
    BY <2>1, <2>2, <2>3, <2>4
<1>2. CASE ParseArguments
  <2> DEFINE p == parseProgramArguments(args, ExistingDirs)
  <2>1. CASE p \in Endings
    BY <1>0, <1>2, <2>1 DEF ParseArguments
  <2>2. CASE p \notin Endings
    <3>1. /\ parsed' = p /\ UNCHANGED <<disk, args, oHistoDir>> /\ UNCHANGED histories
          /\ pc' = IF config = NotFound THEN "create" ELSE "configure"
      BY <1>2, <2>2 DEF ParseArguments, Goes
    <3>2. UNCHANGED ExistingDirs
      BY <3>1 DEF ExistingDirs
    <3>3. UNCHANGED parseProgramArguments(args, ExistingDirs)
      BY <3>1, <3>2
    <3>4. (parsed \notin Endings)'
      BY <2>2, <3>1 DEF Endings
    <3>. QED
      BY <3>1, <3>3, <3>4 DEF StartInv, ParsedInv, ConfigInv, DirectoryInv, LoadInv, disk
  <2>. QED
    BY <2>1, <2>2
<1>3. CASE OpenConfigFile
  <2>1. pc = "create" /\ Goes("write") /\ UNCHANGED settings
    BY <1>3 DEF OpenConfigFile
  <2>. QED
    BY <1>1, <2>1 DEF settings, StartInv, ParsedInv, ConfigInv, DirectoryInv, LoadInv
<1>4. CASE WriteConfigFile
  <2>1. pc = "write" /\ Goes("configure") /\ UNCHANGED settings /\ config' = DefaultConfigFile
    BY <1>4 DEF WriteConfigFile
  <2>2. config' # NotFound
    BY <2>1, MarkersAssumption
  <2>. QED
    BY <1>1, <2>1, <2>2 DEF settings, StartInv, ParsedInv, ConfigInv, DirectoryInv, LoadInv
<1>5. CASE Configure
  <2> DEFINE c == readConfiguration(parsed, config)
  <2>1. CASE c = Failed
    BY <1>0, <1>5, <2>1 DEF Configure
  <2>2. CASE c # Failed
    <3>1. pc = "configure" /\ Goes("open") /\ UNCHANGED <<args, parsed, config>> /\ oHistoDir' = c.dir
      BY <1>5, <2>2 DEF Configure, disk
    <3>2. UNCHANGED readConfiguration(parsed, config)
      BY <1>1, <3>1
    <3>. QED
      BY <1>1, <3>1, <3>2 DEF StartInv, ParsedInv, ConfigInv, DirectoryInv, LoadInv
  <2>. QED
    BY <2>1, <2>2
<1>6. CASE OpenDatabase \/ CreateSchema
  <2>1. /\ pc \in {"open", "schema"} /\ UNCHANGED <<args, parsed, oHistoDir, config>>
        /\ Goes("schema") \/ Goes("check")
    BY <1>6 DEF OpenDatabase, CreateSchema, settings
  <2>. QED
    BY <1>1, <2>1 DEF StartInv, ParsedInv, ConfigInv, DirectoryInv, LoadInv
<1>7. CASE CheckHistory
  <2>1. CASE oHistoDir = None
    <3>1. ~(oHistoDir \in Dirs)
      BY <2>1, MarkersAssumption
    <3>2. pc' = "gui"
      BY <1>7, <2>1, <3>1 DEF CheckHistory, Goes
    <3>. QED
      BY <3>2, StartPast
  <2>2. CASE oHistoDir # None /\ oHistoDir \in Dirs /\ IsValid(oHistoDir)
    <3>1. pc' = "load" /\ UNCHANGED <<oHistoDir, histories>>
      BY <1>7, <2>2 DEF CheckHistory, Goes, settings
    <3>2. IsValid(oHistoDir)'
      BY <2>2, <3>1 DEF IsValid, HistoryOf
    <3>. QED
      BY <3>1, <3>2 DEF StartInv, ParsedInv, ConfigInv, DirectoryInv, LoadInv
  <2>3. CASE oHistoDir # None /\ ~(oHistoDir \in Dirs /\ IsValid(oHistoDir))
    BY <1>0, <1>7, <2>3 DEF CheckHistory
  <2>. QED
    BY <2>1, <2>2, <2>3
<1>8. CASE LoadHistory \/ SaveHistory
  BY <1>0, <1>8, StartPast DEF LoadHistory, SaveHistory, Goes
<1>. QED
  BY <1>2, <1>3, <1>4, <1>5, <1>6, <1>7, <1>8 DEF Starting

LEMMA StartOther ==
    ASSUME StartInv,
           \/ Launch \/ EditConfig \/ ChangeDirectory \/ Dbgen \/ BuildGui \/ ChooseDirectory
           \/ RunUITask \/ StartWatch \/ FileChanges \/ Reload \/ PoolStep
    PROVE  StartInv'
<1> USE DEF startVars, disk, notes
<1>1. CASE Launch
  BY <1>1, StartPast DEF Launch
<1>2. CASE EditConfig
  BY <1>2, StartPast DEF EditConfig
<1>3. CASE ChangeDirectory
  <2>1. moved' = TRUE /\ UNCHANGED <<pc, args, parsed, oHistoDir, config>>
    BY <1>3 DEF ChangeDirectory, settings
  <2>2. UNCHANGED readConfiguration(parsed, config)
    BY <2>1
  <2>. QED
    BY <2>1, <2>2 DEF StartInv, ParsedInv, ConfigInv, DirectoryInv, LoadInv
<1>4. CASE Dbgen
  BY <1>4, StartPast DEF Dbgen
<1>5. CASE BuildGui
  BY <1>5, StartPast DEF BuildGui
<1>6. CASE ChooseDirectory
  BY <1>6, StartPast DEF ChooseDirectory
<1>7. CASE RunUITask
  BY <1>7, StartFrame DEF RunUITask
<1>8. CASE StartWatch
  BY <1>8, StartFrame DEF StartWatch
<1>9. CASE FileChanges
  BY <1>9, StartFrame DEF FileChanges
<1>10. CASE Reload
  BY <1>10, StartFrame DEF Reload
<1>11. CASE PoolStep
  <2>1. ASSUME NEW f, Begin(f) \/ Finish(f) PROVE StartInv'
    BY <2>1, StartFrame DEF Begin, Finish
  <2>2. CASE FinishOrphan
    BY <2>2, StartFrame DEF FinishOrphan
  <2>. QED
    BY <1>11, <2>1, <2>2 DEF PoolStep
<1>. QED
  BY <1>1, <1>2, <1>3, <1>4, <1>5, <1>6, <1>7, <1>8, <1>9, <1>10, <1>11

\* The end of a process has left the start-up behind.
LEMMA EndingPoints == ASSUME Ending PROVE pc \notin StartingPoints /\ pc' \notin StartingPoints
BY DEF Ending, Exit, Hidden, StopImport, StopReload, StopPool, FlushPreferences, DestroyServices, CloseDatabase,
       Take, Awaited, Ends, Vanish, Goes, StartingPoints

LEMMA StartNext == StartInv /\ [Next]_vars => StartInv'
<1> SUFFICES ASSUME StartInv, [Next]_vars PROVE StartInv'
  OBVIOUS
<1>1. CASE UNCHANGED vars
  BY <1>1, StartFrame DEF vars, disk, startVars
<1>2. CASE Crash
  BY <1>2, StartVanish DEF Crash
<1>3. CASE Ending
  BY <1>3, EndingPoints, StartPast DEF StartingPoints
<1>. QED
  BY <1>1, <1>2, <1>3, StartStarting, StartOther DEF Next
-----------------------------------------------------------------------------
\* The name of the property's action.
HasCause == pc' = "off" /\ pc \in StartingPoints /\ outcome' \in {Failed, Aborted} => ~Legit

\* What phud needs is there: what it reads is right.
LEMMA LegitReads ==
    ASSUME TypeInv, Legit
    PROVE  /\ parseProgramArguments(args, ExistingDirs) \notin {Failed, Aborted}
           /\ config # NotFound /\ parsed = parseProgramArguments(args, ExistingDirs) /\ parsed # Help =>
                 /\ readConfiguration(parsed, config) # Failed
                 /\ LET dir == readConfiguration(parsed, config).dir IN dir = None \/ (dir \in Dirs /\ IsValid(dir))
<1> DEFINE p == parseProgramArguments(args, ExistingDirs)
<1>1. args \in LegitArguments /\ config \in {NotFound, DefaultConfigFile}
  BY DEF Legit
<1>2. p = Help \/ \E dir \in {None} \cup {d \in Dirs : IsValid(d)} : p = [dir |-> dir, level |-> None]
  BY <1>1, LegitParse
<1>3. p \notin {Failed, Aborted}
  <2> HIDE DEF p
  <2>1. Help \notin {Failed, Aborted}
    BY MarkersAssumption
  <2>2. ASSUME NEW dir \in {None} \cup Dirs PROVE [dir |-> dir, level |-> None] \notin {Failed, Aborted}
    BY MarkersAssumption
  <2>. QED
    BY <1>2, <2>1, <2>2
<1>4. ASSUME config = DefaultConfigFile, NEW dir \in {None} \cup {d \in Dirs : IsValid(d)},
             parsed = [dir |-> dir, level |-> None]
      PROVE  /\ readConfiguration(parsed, config) # Failed
             /\ readConfiguration(parsed, config).dir = dir
  <2>1. readConfiguration(parsed, config) = [dir |-> dir, level |-> "info"]
    BY <1>4, DefaultConfig
  <2>2. [dir |-> dir, level |-> "info"] # Failed
    BY MarkersAssumption DEF LoggingLevels
  <2>. QED
    BY <2>1, <2>2
<1>. QED
  <2> HIDE DEF p
  <2>1. ASSUME config # NotFound, parsed = p, parsed # Help
        PROVE  /\ readConfiguration(parsed, config) # Failed
               /\ LET dir == readConfiguration(parsed, config).dir IN dir = None \/ (dir \in Dirs /\ IsValid(dir))
    <3>1. PICK dir \in {None} \cup {d \in Dirs : IsValid(d)} : parsed = [dir |-> dir, level |-> None]
      BY <1>2, <2>1
    <3>2. readConfiguration(parsed, config) # Failed /\ readConfiguration(parsed, config).dir = dir
      BY <1>1, <1>4, <2>1, <3>1
    <3>. QED
      BY <3>2
  <2>. QED
    BY <1>3, <2>1 DEF p

\* Which steps end a start-up with an exception.
LEMMA StartFailures ==
    ASSUME [Next]_vars, pc \in StartingPoints, pc' = "off", outcome' \in {Failed, Aborted}
    PROVE  \/ ParseArguments /\ parseProgramArguments(args, ExistingDirs) = outcome'
           \/ Configure /\ readConfiguration(parsed, config) = Failed
           \/ CheckHistory /\ oHistoDir # None /\ ~(oHistoDir \in Dirs /\ IsValid(oHistoDir))
           \/ LoadHistory /\ ~IsValid(oHistoDir)
           \/ SaveHistory /\ schema < NbQueries
<1>1. pc # pc' /\ pc # "off" /\ pc # "gui" /\ pc # "run"
  BY DEF StartingPoints
<1>2. ~Crash
  BY MarkersAssumption DEF Crash, Vanish
<1>3. ~(Launch \/ EditConfig \/ ChangeDirectory \/ Dbgen \/ BuildGui \/ ChooseDirectory \/ RunUITask
        \/ StartWatch \/ FileChanges \/ Reload \/ UNCHANGED vars)
  BY <1>1 DEF Launch, EditConfig, ChangeDirectory, Dbgen, BuildGui, ChooseDirectory, RunUITask, StartWatch,
              FileChanges, Reload, vars
<1>4. ~PoolStep
  BY <1>1 DEF PoolStep, Begin, Finish, FinishOrphan
<1>5. ~Ending
  BY EndingPoints
<1>6. Starting
  BY <1>2, <1>3, <1>4, <1>5 DEF Next
<1>7. \A next \in StartTargets : ~Goes(next)
  BY DEF Goes, StartTargets
<1> USE DEF StartTargets
<1>8. CASE ParseArguments
  <2> DEFINE p == parseProgramArguments(args, ExistingDirs)
  <2>1. p \in Endings
    BY <1>7, <1>8 DEF ParseArguments
  <2>2. outcome' = p
    BY <1>8, <2>1 DEF ParseArguments, Ends, Vanish
  <2>. QED
    BY <1>8, <2>2
<1>9. CASE OpenConfigFile \/ WriteConfigFile \/ OpenDatabase \/ CreateSchema
  BY <1>7, <1>9 DEF OpenConfigFile, WriteConfigFile, OpenDatabase, CreateSchema
<1>10. CASE Configure
  BY <1>7, <1>10 DEF Configure
<1>11. CASE CheckHistory
  <2>1. CASE oHistoDir = None
    BY <1>7, <1>11, <2>1 DEF CheckHistory
  <2>2. CASE oHistoDir # None /\ oHistoDir \in Dirs /\ IsValid(oHistoDir)
    BY <1>7, <1>11, <2>2 DEF CheckHistory
  <2>. QED
    BY <1>11, <2>1, <2>2
<1>12. CASE LoadHistory \/ SaveHistory
  BY <1>7, <1>12 DEF LoadHistory, SaveHistory
<1>. QED
  BY <1>6, <1>8, <1>9, <1>10, <1>11, <1>12 DEF Starting

LEMMA StepHasCause == ASSUME TypeInv, StartInv, [Next]_vars PROVE HasCause
<1> SUFFICES ASSUME pc' = "off", pc \in StartingPoints, outcome' \in {Failed, Aborted}, Legit PROVE FALSE
  BY DEF HasCause
<1>0. ~moved /\ schema \in {NotFound, NbQueries}
  BY DEF Legit
<1>1. CASE ParseArguments /\ parseProgramArguments(args, ExistingDirs) = outcome'
  BY <1>1, LegitReads
<1>2. ASSUME pc \in {"configure", "check"}
      PROVE  /\ readConfiguration(parsed, config) # Failed
             /\ LET dir == readConfiguration(parsed, config).dir IN dir = None \/ (dir \in Dirs /\ IsValid(dir))
  <2>1. config # NotFound /\ parsed = parseProgramArguments(args, ExistingDirs) /\ parsed # Help
    BY <1>0, <1>2 DEF StartInv, ParsedInv, ConfigInv, Endings
  <2>. QED
    BY <2>1, LegitReads
<1>3. CASE Configure /\ readConfiguration(parsed, config) = Failed
  BY <1>2, <1>3 DEF Configure
<1>4. CASE CheckHistory /\ oHistoDir # None /\ ~(oHistoDir \in Dirs /\ IsValid(oHistoDir))
  <2>1. pc = "check" /\ oHistoDir = readConfiguration(parsed, config).dir
    BY <1>4 DEF CheckHistory, StartInv, DirectoryInv
  <2>. QED
    BY <1>2, <1>4, <2>1
<1>5. CASE LoadHistory /\ ~IsValid(oHistoDir)
  BY <1>0, <1>5 DEF LoadHistory, StartInv, LoadInv
<1>6. CASE SaveHistory /\ schema < NbQueries
  <2>1. schema = NbQueries
    BY <1>0, <1>6 DEF SaveHistory, TypeInv, SchemaInv
  <2>. QED
    BY <1>6, <2>1, ConstantAssumption
<1>. QED
  BY <1>1, <1>3, <1>4, <1>5, <1>6, StartFailures

\* A start-up that ends with an exception lacked something: a configuration that
\* was not edited by hand, arguments that name an existing directory with a
\* history which nobody changes meanwhile, no database or a complete one; and this
\* after any launches, ends and crashes of earlier processes (phud.cpp main,
\* ProgramConfiguration.cpp, ProgramArguments.cpp, Database.cpp createDatabase).
THEOREM StartUpsFailWithCause == Spec => FailuresHaveCause
<1>1. IInv /\ TypeInv /\ StartInv /\ [Next]_vars => (IInv /\ TypeInv /\ StartInv)'
  BY NextIInv, TypeNext, StartNext
<1>2. Init => IInv /\ TypeInv /\ StartInv
  <2>1. Init => StartInv
    BY DEF Init, StartInv, ParsedInv, ConfigInv, DirectoryInv, LoadInv
  <2>. QED
    BY <2>1, InitIInv, TypeInit
<1>3. TypeInv /\ StartInv /\ [Next]_vars => [HasCause]_vars
  BY StepHasCause
<1>4. Spec => [][HasCause]_vars
  BY <1>1, <1>2, <1>3, PTL DEF Spec
<1>. QED
  BY <1>4 DEF HasCause, FailuresHaveCause
=============================================================================
