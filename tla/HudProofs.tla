------------------------------ MODULE HudProofs ------------------------------
(***************************************************************************)
(* Proofs about Hud, for any tables, directories and number of changes.    *)
(***************************************************************************)
EXTENDS Hud, FiniteSetTheorems, TLAPS

\* A change of the windows that waits for the user interface.
Waits(i) == i \in DOMAIN awake /\ awake[i].kind = "tables"

\* The last one that waits has the titles that the watcher saw last; when none
\* waits, the function under way has them, and the entries agree with them once it
\* has ended.
TitlesInv ==
    /\ \A i \in DOMAIN awake : Waits(i) /\ (\A j \in DOMAIN awake : j > i => ~Waits(j))
          => awake[i].titles = m_currentTableWindowTitles
    /\ (\A i \in DOMAIN awake : ~Waits(i)) /\ ui # "idle" => uiTitles = m_currentTableWindowTitles
EntriesInv ==
    /\ ui # "idle" => ~left
    /\ ui = "add" => m_playerIndicators \subseteq Titles(uiTitles)

\* What each step of a chain knows of the database, which only grows.
ChainInv(c) ==
    /\ c.step \in {"extract", "notify", "done"} => c.hands \in Hands
    /\ c.step = "extract" /\ ~c.lost => db[c.table] >= c.hands
    /\ c.step \in {"notify", "done"} /\ ~c.lost => c.stats >= c.hands
ChainsInv == \A c \in ({m_reloadTask, awaited} \ {None}) \cup orphans : ChainInv(c)

\* Each hand of a file was written.
FileInv == \A t \in Tables : file[t] <= writes

\* The inductive invariant.
IInv == TypeOK /\ FileInv /\ TitlesInv /\ EntriesInv /\ EntriesFollowWindows /\ ChainsInv
-----------------------------------------------------------------------------
LEMMA NoTitles == <<>> \in TitleLists /\ Titles(<<>>) = {}
<1>1. <<>> \in [1 .. 0 -> Tables] /\ Titles(<<>>) = {}
  BY DEF Titles
<1>2. 0 \in 0 .. Cardinality(Tables)
  BY TablesAssumption, FS_CardinalityType
<1>3. Cardinality(Titles(<<>>)) = 0
  BY <1>1, FS_EmptySet
<1>. QED
  BY <1>1, <1>2, <1>3 DEF TitleLists

LEMMA InitIInv == Init => IInv
<1> SUFFICES ASSUME Init PROVE IInv
  OBVIOUS
<1>1. TypeOK
  <2>1. 0 \in Hands /\ <<>> \in Seq(UiTask)
    BY BoundAssumption DEF Hands
  <2>2. /\ file \in [Tables -> Hands] /\ db \in [Tables -> Hands] /\ shown \in [Tables -> Hands]
        /\ awake \in Seq(UiTask)
    BY <2>1 DEF Init
  <2>3. changes \in 0 .. MaxChanges /\ writes \in 0 .. MaxWrites
    BY BoundAssumption DEF Init
  <2>. QED
    BY <2>2, <2>3, NoTitles DEF Init, TypeOK
<1>2. TitlesInv /\ EntriesInv /\ EntriesFollowWindows
  BY NoTitles DEF Init, TitlesInv, EntriesInv, EntriesFollowWindows
<1>3. ChainsInv /\ FileInv
  BY DEF Init, ChainsInv, FileInv
<1>. QED
  BY <1>1, <1>2, <1>3 DEF IInv

\* A function of Fl::awake is a record with its kind.
LEMMA UiTasks ==
    /\ \A t \in UiTask : /\ t.kind \in {"tables", "stats"}
                         /\ t.kind = "tables" => t.titles \in TitleLists
                         /\ t.kind = "stats" => t.table \in Tables /\ t.stats \in Hands
    /\ \A s \in TitleLists : [kind |-> "tables", titles |-> s] \in UiTask
    /\ \A t \in Tables, n \in Hands : [kind |-> "stats", table |-> t, stats |-> n] \in UiTask
BY DEF UiTask

\* What the other threads do to the functions that wait: one that shows statistics
\* comes last.
LEMMA StatsAppended ==
    ASSUME TypeOK, TitlesInv, EntriesInv, EntriesFollowWindows,
           NEW t \in UiTask, t.kind # "tables", awake' = Append(awake, t),
           UNCHANGED <<m_currentTableWindowTitles, uiVars>>
    PROVE  TitlesInv' /\ EntriesInv' /\ EntriesFollowWindows'
<1>1. awake \in Seq(UiTask) /\ Len(awake) \in Nat
  BY DEF TypeOK
<1>2. /\ DOMAIN awake = 1 .. Len(awake) /\ DOMAIN awake' = 1 .. Len(awake) + 1
      /\ \A i \in DOMAIN awake : awake'[i] = awake[i]
      /\ awake'[Len(awake) + 1].kind # "tables"
  BY <1>1
<1>3. /\ \A i \in DOMAIN awake : Waits(i)' <=> Waits(i)
      /\ ~Waits(Len(awake) + 1)' /\ DOMAIN awake \subseteq DOMAIN awake'
      /\ \A i : Waits(i)' => i \in DOMAIN awake
  BY <1>2 DEF Waits
<1>4. TitlesInv'
  BY <1>1, <1>2, <1>3 DEF TitlesInv, uiVars
<1>5. EntriesInv' /\ EntriesFollowWindows'
  BY <1>1, <1>2 DEF EntriesInv, EntriesFollowWindows, uiVars
<1>. QED
  BY <1>4, <1>5

\* What keeps the entries, the titles and the functions that wait.
LEMMA EntriesKept ==
    ASSUME TitlesInv, EntriesInv, EntriesFollowWindows,
           UNCHANGED <<m_currentTableWindowTitles, awake, uiVars>>
    PROVE  TitlesInv' /\ EntriesInv' /\ EntriesFollowWindows'
BY DEF TitlesInv, EntriesInv, EntriesFollowWindows, Waits, uiVars

\* The chains that are there are right when each of them was or is, and the
\* database keeps what it has.
LEMMA ChainsKept ==
    ASSUME TypeOK, ChainsInv, db' \in [Tables -> Hands], \A t \in Tables : db'[t] >= db[t],
           \A c \in ({m_reloadTask, awaited} \ {None})' \cup orphans' :
               c \in ({m_reloadTask, awaited} \ {None}) \cup orphans \/ ChainInv(c)'
    PROVE  ChainsInv'
<1> SUFFICES ASSUME NEW c \in ({m_reloadTask, awaited} \ {None})' \cup orphans'
             PROVE  ChainInv(c)'
  BY DEF ChainsInv
<1>1. CASE c \in ({m_reloadTask, awaited} \ {None}) \cup orphans
  <2>1. c \in Chain /\ c.table \in Tables /\ ChainInv(c)
    BY <1>1 DEF TypeOK, Chain, ChainsInv
  <2>2. db[c.table] \in Nat /\ db'[c.table] \in Nat /\ db'[c.table] >= db[c.table]
    BY <2>1 DEF TypeOK, Hands
  <2>. QED
    BY <2>1, <2>2 DEF ChainInv, Hands
<1>. QED
  BY <1>1

\* The chains without a change of the database.
LEMMA ChainsDropped ==
    ASSUME TypeOK, ChainsInv, UNCHANGED db,
           \A c \in ({m_reloadTask, awaited} \ {None})' \cup orphans' :
               c \in ({m_reloadTask, awaited} \ {None}) \cup orphans \/ c.step = "parse"
    PROVE  ChainsInv'
<1>1. db' \in [Tables -> Hands] /\ \A t \in Tables : db'[t] >= db[t]
  BY DEF TypeOK, Hands
<1>2. \A c : c.step = "parse" => ChainInv(c)'
  BY DEF ChainInv
<1>. QED
  BY <1>1, <1>2, ChainsKept

LEMMA DroppedChains == \A c : Dropped(c) \subseteq {c} \ {None}
BY DEF Dropped

\* One step of one chain.
LEMMA ChainMoves ==
    ASSUME TypeOK, NEW c \in Chain, ChainInv(c), NEW d, Begins(c, d) \/ Ends(c, d)
    PROVE  /\ d \in Chain /\ ChainInv(d)'
           /\ db' \in [Tables -> Hands] /\ \A t \in Tables : db'[t] >= db[t]
           /\ crashed' \in BOOLEAN
           /\ \/ UNCHANGED awake
              \/ \E t \in UiTask : t.kind # "tables" /\ awake' = Append(awake, t)
<1>1. /\ c.table \in Tables /\ c.step \in Steps /\ c.running \in BOOLEAN
      /\ c.hands \in Hands \cup {None} /\ c.lost \in BOOLEAN /\ c.stats \in Hands
      /\ db \in [Tables -> Hands] /\ file \in [Tables -> Hands] /\ crashed \in BOOLEAN
  BY DEF Chain, TypeOK
<1>2. /\ \A s \in Steps : Then(c, s) \in Chain /\ Then(c, s).step = s /\ Then(c, s).table = c.table
                          /\ Then(c, s).hands = c.hands /\ Then(c, s).stats = c.stats
                          /\ Then(c, s).lost = c.lost
      /\ {"parse", "looping", "save", "extract", "notify", "done", "threw"} \subseteq Steps
  BY <1>1 DEF Then, Chain, Steps
<1>3. ASSUME UNCHANGED db
      PROVE  db' \in [Tables -> Hands] /\ \A t \in Tables : db'[t] >= db[t]
  BY <1>1, <1>3 DEF Hands
<1>4. CASE Begins(c, d)
  <2>1. d \in Chain /\ d.step = c.step
    BY <1>1, <1>4 DEF Begins, Chain
  <2>2. c.step \in {"extract", "notify"} =>
          d.hands = c.hands /\ d.stats = c.stats /\ d.table = c.table /\ d.lost = c.lost
    BY <1>1, <1>4 DEF Begins, Chain
  <2>. QED
    BY <1>1, <1>3, <1>4, <2>1, <2>2 DEF Begins, ChainInv
<1>5. CASE Parsed(c, d)
  <2>1. d \in Chain /\ d.step \in {"save", "looping"}
    <3>1. CASE d = Then(c, "save")
      BY <1>2, <3>1
    <3>2. CASE d = [Then(c, "save") EXCEPT !.hands = None]
      BY <1>2, <3>2 DEF Chain
    <3>3. CASE d = [c EXCEPT !.step = "looping", !.hands = None]
      BY <1>2, <3>3 DEF Chain
    <3>. QED
      BY <1>5, <3>1, <3>2, <3>3 DEF Parsed
  <2>. QED
    BY <1>1, <1>3, <1>5, <2>1 DEF Parsed, ChainInv
<1>6. CASE Saved(c, d)
  <2>1. CASE c.hands = None /\ d = c /\ crashed' = TRUE /\ UNCHANGED <<db, awake>>
    BY <1>1, <1>3, <2>1 DEF ChainInv
  <2>2. CASE /\ c.hands # None /\ d = Then(c, "extract") /\ UNCHANGED <<crashed, awake>>
             /\ db' = [db EXCEPT ![c.table] = IF @ < c.hands THEN c.hands ELSE @]
    <3>1. c.hands \in Hands /\ c.hands \in Nat /\ \A t \in Tables : db[t] \in Nat
      BY <1>1, <2>2 DEF Hands
    <3>2. /\ db' \in [Tables -> Hands] /\ \A t \in Tables : db'[t] >= db[t]
          /\ db'[c.table] >= c.hands
      BY <1>1, <2>2, <3>1
    <3>. QED
      BY <1>1, <1>2, <2>2, <3>1, <3>2 DEF ChainInv
  <2>3. ASSUME NEW n \in 0 .. c.hands, c.hands # None, UNCHANGED <<crashed, awake>>,
               d = [Then(c, "extract") EXCEPT !.lost = TRUE],
               db' = [db EXCEPT ![c.table] = IF @ < n THEN n ELSE @]
        PROVE  /\ d \in Chain /\ ChainInv(d)'
               /\ db' \in [Tables -> Hands] /\ \A t \in Tables : db'[t] >= db[t]
    <3>1. /\ c.hands \in Hands /\ c.hands \in Nat /\ n \in Hands /\ n \in Nat
          /\ \A t \in Tables : db[t] \in Nat
      BY <1>1, <2>3, BoundAssumption DEF Hands
    <3>2. db' \in [Tables -> Hands] /\ \A t \in Tables : db'[t] >= db[t]
      BY <1>1, <2>3, <3>1
    <3>3. d \in Chain /\ d.step = "extract" /\ d.lost /\ d.hands = c.hands
      BY <1>1, <2>3 DEF Then, Chain, Steps
    <3>. QED
      BY <3>1, <3>2, <3>3 DEF ChainInv
  <2>4. CASE d = Then(c, "threw") /\ UNCHANGED <<db, crashed, awake>>
    BY <1>1, <1>2, <1>3, <2>4 DEF ChainInv
  <2>. QED
    BY <1>1, <1>6, <2>1, <2>2, <2>3, <2>4 DEF Saved
<1>7. CASE Extracted(c, d)
  <2>1. CASE d = Then(c, "threw")
    BY <1>1, <1>2, <1>3, <1>7, <2>1 DEF Extracted, ChainInv
  <2>2. CASE d = [Then(c, "notify") EXCEPT !.stats = db[c.table]]
    <3>1. db[c.table] \in Hands
      BY <1>1
    <3>2. d \in Chain /\ d.step = "notify" /\ d.hands = c.hands /\ d.stats = db[c.table]
          /\ d.lost = c.lost
      BY <1>1, <2>2, <3>1 DEF Then, Chain, Steps
    <3>. QED
      BY <1>1, <1>3, <1>7, <3>2 DEF Extracted, ChainInv
  <2>. QED
    BY <1>7, <2>1, <2>2 DEF Extracted
<1>8. CASE Notified(c, d)
  <2>1. ASSUME awake' = Append(awake, [kind |-> "stats", table |-> c.table, stats |-> c.stats])
        PROVE  \E t \in UiTask : t.kind # "tables" /\ awake' = Append(awake, t)
    BY <1>1, <2>1, UiTasks
  <2>. QED
    BY <1>1, <1>2, <1>3, <1>8, <2>1 DEF Notified, ChainInv
<1>. QED
  BY <1>4, <1>5, <1>6, <1>7, <1>8 DEF Ends

\* The rest of the state that no chain and no function of the user interface knows.
LEMMA AwakeTyped == ASSUME TypeOK, NEW t \in UiTask PROVE Append(awake, t) \in Seq(UiTask)
BY DEF TypeOK

LEMMA ChainStepKeeps ==
    ASSUME IInv, ChainStep \/ AwaitedStep \/ \E c \in orphans : OrphanStep(c)
    PROVE  IInv'
<1> USE DEF IInv
<1>1. ASSUME NEW c \in ({m_reloadTask, awaited} \ {None}) \cup orphans
      PROVE  c \in Chain /\ ChainInv(c)
  BY DEF TypeOK, ChainsInv
<1>2. ASSUME NEW c \in Chain, ChainInv(c), NEW d, Begins(c, d) \/ Ends(c, d),
             UNCHANGED <<m_currentTableWindowTitles, uiVars>>
      PROVE  TitlesInv' /\ EntriesInv' /\ EntriesFollowWindows' /\ awake' \in Seq(UiTask)
  <2>1. CASE UNCHANGED awake
    BY <1>2, <2>1, EntriesKept DEF TypeOK
  <2>2. CASE \E t \in UiTask : t.kind # "tables" /\ awake' = Append(awake, t)
    <3>1. PICK t \in UiTask : t.kind # "tables" /\ awake' = Append(awake, t)
      BY <2>2
    <3>. QED
      BY <1>2, <3>1, StatsAppended, AwakeTyped
  <2>. QED
    BY <1>2, <2>1, <2>2, ChainMoves
<1>3. CASE ChainStep
  <2>1. PICK c \in Chain : c = m_reloadTask /\ c # None
    BY <1>3 DEF ChainStep, TypeOK
  <2>2. ChainInv(c) /\ (Begins(c, m_reloadTask') \/ Ends(c, m_reloadTask'))
    BY <1>1, <1>3, <2>1 DEF ChainStep
  <2>3. /\ m_reloadTask' \in Chain /\ ChainInv(m_reloadTask)'
        /\ db' \in [Tables -> Hands] /\ (\A t \in Tables : db'[t] >= db[t]) /\ crashed' \in BOOLEAN
    BY <2>2, ChainMoves
  <2>4. TitlesInv' /\ EntriesInv' /\ EntriesFollowWindows' /\ awake' \in Seq(UiTask)
    BY <1>2, <1>3, <2>2 DEF ChainStep
  <2>5. ChainsInv'
    BY <1>3, <2>3, ChainsKept DEF ChainStep
  <2>6. TypeOK' /\ FileInv'
    BY <1>3, <2>3, <2>4 DEF ChainStep, TypeOK, FileInv, screen, uiVars, dirs, watch
  <2>. QED
    BY <2>4, <2>5, <2>6
<1>4. CASE AwaitedStep
  <2>1. PICK c \in Chain : c = awaited /\ c # None
    BY <1>4 DEF AwaitedStep, TypeOK
  <2>2. ChainInv(c) /\ (Begins(c, awaited') \/ Ends(c, awaited'))
    BY <1>1, <1>4, <2>1 DEF AwaitedStep
  <2>3. /\ awaited' \in Chain /\ ChainInv(awaited)'
        /\ db' \in [Tables -> Hands] /\ (\A t \in Tables : db'[t] >= db[t]) /\ crashed' \in BOOLEAN
    BY <2>2, ChainMoves
  <2>4. TitlesInv' /\ EntriesInv' /\ EntriesFollowWindows' /\ awake' \in Seq(UiTask)
    BY <1>2, <1>4, <2>2 DEF AwaitedStep
  <2>5. ChainsInv'
    BY <1>4, <2>3, ChainsKept DEF AwaitedStep
  <2>6. TypeOK' /\ FileInv'
    BY <1>4, <2>3, <2>4 DEF AwaitedStep, TypeOK, FileInv, screen, uiVars, dirs, watch
  <2>. QED
    BY <2>4, <2>5, <2>6
<1>5. ASSUME NEW c \in orphans, OrphanStep(c) PROVE IInv'
  <2>1. PICK d : Ends(c, d) /\ orphans' = (orphans \ {c}) \cup Dropped(d)
    BY <1>5 DEF OrphanStep
  <2>2. c \in Chain /\ ChainInv(c)
    BY <1>1
  <2>3. d \in Chain /\ ChainInv(d)' /\ Dropped(d) \subseteq {d} /\ db' \in [Tables -> Hands] /\ (\A t \in Tables : db'[t] >= db[t]) /\ crashed' \in BOOLEAN
    BY <2>1, <2>2, ChainMoves, DroppedChains
  <2>4. TitlesInv' /\ EntriesInv' /\ EntriesFollowWindows' /\ awake' \in Seq(UiTask)
    BY <1>2, <1>5, <2>1, <2>2 DEF OrphanStep
  <2>5. ChainsInv'
    BY <1>5, <2>1, <2>3, ChainsKept DEF OrphanStep
  <2>6. TypeOK' /\ FileInv'
    BY <1>5, <2>1, <2>3, <2>4 DEF OrphanStep, TypeOK, FileInv, screen, uiVars, dirs, watch
  <2>. QED
    BY <2>4, <2>5, <2>6
<1>. QED
  BY <1>3, <1>4, <1>5
-----------------------------------------------------------------------------
\* The steps of the player.
LEMMA PlayerKeeps == ASSUME IInv, Player PROVE IInv'
<1> USE DEF IInv
<1>1. CASE ChangeWindows
  <2>1. TypeOK' /\ FileInv'
    BY <1>1, BoundAssumption DEF ChangeWindows, TypeOK, FileInv, uiVars, dirs, watch, chains
  <2>. QED
    BY <1>1, <2>1, EntriesKept, ChainsDropped DEF ChangeWindows, chains
<1>2. ASSUME NEW t \in Tables, Write(t) PROVE IInv'
  <2>1. /\ file \in [Tables -> 0 .. MaxWrites] /\ writes \in 0 .. MaxWrites
        /\ writes < MaxWrites /\ writes' = writes + 1 /\ file' = [file EXCEPT ![t] = @ + 1]
        /\ file[t] <= writes
    BY <1>2 DEF TypeOK, Hands, Write, FileInv
  <2>2. /\ writes' \in 0 .. MaxWrites /\ file' \in [Tables -> 0 .. MaxWrites]
        /\ \A u \in Tables : file'[u] <= IF u = t THEN file[u] + 1 ELSE file[u]
    BY <2>1, BoundAssumption
  <2>3. FileInv'
    BY <2>1, <2>2 DEF FileInv
  <2>4. TypeOK'
    BY <1>2, <2>2, SMTT(60) DEF Write, TypeOK, Hands, uiVars, dirs, chains
  <2>. QED
    BY <1>2, <2>3, <2>4, EntriesKept, ChainsDropped DEF Write, chains
<1>3. ASSUME NEW d \in Dirs, ChooseDir(d) PROVE IInv'
  <2>1. TypeOK' /\ FileInv'
    BY <1>3 DEF ChooseDir, TypeOK, FileInv, screen, uiVars, watch, chains
  <2>. QED
    BY <1>3, <2>1, EntriesKept, ChainsDropped DEF ChooseDir, chains
<1>. QED
  BY <1>1, <1>2, <1>3 DEF Player

\* The steps of the two watchers.
LEMMA CheckForTablesKeeps == ASSUME IInv, CheckForTables PROVE IInv'
<1> USE DEF IInv
<1> DEFINE t == [kind |-> "tables", titles |-> windows]
<1>1. t \in UiTask /\ t.kind = "tables" /\ t.titles = windows
  BY UiTasks DEF TypeOK
<1>2. awake' = Append(awake, t) /\ m_currentTableWindowTitles' = windows
  BY DEF CheckForTables
<1>3. TypeOK' /\ FileInv'
  BY <1>1, <1>2, AwakeTyped DEF CheckForTables, TypeOK, FileInv, screen, uiVars, dirs, watch, chains
<1> HIDE DEF t
<1>4. /\ DOMAIN awake' = 1 .. Len(awake) + 1 /\ Len(awake) \in Nat
      /\ awake'[Len(awake) + 1] = t
  BY <1>2 DEF TypeOK
<1>5. TitlesInv'
  BY <1>1, <1>2, <1>4 DEF TitlesInv, Waits
<1>6. EntriesInv' /\ EntriesFollowWindows'
  BY <1>1, <1>4 DEF CheckForTables, EntriesInv, EntriesFollowWindows, uiVars
<1>7. ChainsInv'
  BY ChainsDropped DEF CheckForTables, chains
<1>. QED
  BY <1>3, <1>5, <1>6, <1>7

LEMMA WatcherKeeps == ASSUME IInv, HandleFileAction \/ Callback PROVE IInv'
<1> USE DEF IInv
<1>1. CASE HandleFileAction
  <2>1. TypeOK' /\ FileInv'
    <3>1. /\ event' = FALSE /\ callback' = m_fileWatcher
          /\ UNCHANGED <<screen, m_currentTableWindowTitles, awake, uiVars, dirs, m_fileWatcher, started,
                         chains, db, crashed>>
      BY <1>1 DEF HandleFileAction
    <3>2. m_fileWatcher \in Tables \cup {None} /\ TypeOK /\ FileInv
      BY DEF TypeOK
    <3>3. /\ UNCHANGED <<windows, file, changes, writes, ui, uiTitles, uiTable, left, m_playerIndicators,
                         shown>>
          /\ UNCHANGED <<historyDir, tableDir, m_reloadTask, awaited, orphans, db, crashed, awake, started,
                         m_currentTableWindowTitles, m_fileWatcher>>
      BY <3>1 DEF screen, uiVars, dirs, chains
    <3>4. TypeOK'
      <4>1. event' \in BOOLEAN /\ callback' \in Tables \cup {None}
        BY <3>1, <3>2
      <4> HIDE DEF IInv
      <4>. QED
        BY <3>2, <3>3, <4>1 DEF TypeOK
    <3>. QED
      BY <3>2, <3>3, <3>4 DEF FileInv
  <2>2. EntriesInv' /\ EntriesFollowWindows' /\ TitlesInv'
    BY <1>1, EntriesKept DEF HandleFileAction, chains
  <2>3. ChainsInv'
    BY <1>1, ChainsDropped DEF HandleFileAction, chains
  <2>. QED
    BY <2>1, <2>2, <2>3
<1>2. CASE Callback
  <2>1. /\ NewChain(callback) \in Chain /\ NewChain(callback).step = "parse"
        /\ m_reloadTask' = NewChain(callback)
    BY <1>2, BoundAssumption DEF Callback, NewChain, TypeOK, Chain, Steps, Hands
  <2>2. orphans' \subseteq orphans \cup ({m_reloadTask} \ {None})
    BY <1>2, DroppedChains DEF Callback
  <2>3. TypeOK' /\ FileInv'
    BY <1>2, <2>1, <2>2 DEF Callback, TypeOK, FileInv, screen, uiVars, dirs
  <2>4. UNCHANGED <<awaited, db>>
    BY <1>2 DEF Callback
  <2>5. ChainsInv'
    BY <2>1, <2>2, <2>4, ChainsDropped
  <2>. QED
    BY <1>2, <2>3, <2>5, EntriesKept DEF Callback
<1>. QED
  BY <1>1, <1>2
-----------------------------------------------------------------------------
\* The first of the functions that wait is taken.
LEMMA FirstTaken ==
    ASSUME TypeOK, awake # <<>>, awake' = Tail(awake)
    PROVE  /\ Head(awake) = awake[1] /\ 1 \in DOMAIN awake /\ awake[1] \in UiTask
           /\ awake' \in Seq(UiTask)
           /\ DOMAIN awake \subseteq Nat /\ DOMAIN awake' \subseteq Nat
           /\ \A i \in DOMAIN awake' : i + 1 \in DOMAIN awake /\ awake'[i] = awake[i + 1]
           /\ \A i \in DOMAIN awake : i = 1 \/ (i - 1 \in DOMAIN awake' /\ i > 1)
<1>1. awake \in Seq(UiTask) /\ Len(awake) \in Nat \ {0} /\ DOMAIN awake = 1 .. Len(awake)
  BY DEF TypeOK
<1>2. awake' \in Seq(UiTask) /\ DOMAIN awake' = 1 .. Len(awake) - 1
      /\ \A i \in 1 .. Len(awake) - 1 : awake'[i] = awake[i + 1]
  BY <1>1
<1>3. Head(awake) = awake[1] /\ awake[1] \in UiTask
  BY <1>1
<1>. QED
  BY <1>1, <1>2, <1>3

\* The last function for the tables stays the last one, or is the one that was taken.
LEMMA LastWaiting ==
    ASSUME TypeOK, TitlesInv, awake # <<>>, awake' = Tail(awake), UNCHANGED m_currentTableWindowTitles
    PROVE  /\ \A i \in DOMAIN awake' : Waits(i)' /\ (\A j \in DOMAIN awake' : j > i => ~Waits(j)')
                 => awake'[i].titles = m_currentTableWindowTitles'
           /\ (\A i \in DOMAIN awake' : ~Waits(i)')
                 => IF Waits(1) THEN awake[1].titles = m_currentTableWindowTitles
                    ELSE \A i \in DOMAIN awake : ~Waits(i)
<1>1. \A i \in DOMAIN awake' : Waits(i)' <=> Waits(i + 1)
  BY FirstTaken DEF Waits
<1>2. ASSUME NEW i \in DOMAIN awake', Waits(i)', \A j \in DOMAIN awake' : j > i => ~Waits(j)'
      PROVE  awake'[i].titles = m_currentTableWindowTitles'
  <2>1. ASSUME NEW k \in DOMAIN awake, k > i + 1 PROVE ~Waits(k)
    <3>1. k - 1 \in DOMAIN awake' /\ k - 1 > i /\ (k - 1) + 1 = k
      BY <2>1, FirstTaken
    <3>2. ~Waits(k - 1)'
      BY <1>2, <3>1
    <3>. QED
      BY <1>1, <3>1, <3>2
  <2>2. i + 1 \in DOMAIN awake /\ Waits(i + 1) /\ awake'[i] = awake[i + 1]
    BY <1>1, <1>2, FirstTaken
  <2>. QED
    BY <2>1, <2>2 DEF TitlesInv
<1>3. ASSUME \A i \in DOMAIN awake' : ~Waits(i)'
      PROVE  \A k \in DOMAIN awake : k > 1 => ~Waits(k)
  <2> TAKE k \in DOMAIN awake
  <2> HAVE k > 1
  <2>1. k - 1 \in DOMAIN awake' /\ (k - 1) + 1 = k
    BY FirstTaken
  <2>. QED
    BY <1>1, <1>3, <2>1
<1>4. ASSUME \A i \in DOMAIN awake' : ~Waits(i)', Waits(1)
      PROVE  awake[1].titles = m_currentTableWindowTitles
  BY <1>3, <1>4, FirstTaken DEF TitlesInv
<1>5. ASSUME \A i \in DOMAIN awake' : ~Waits(i)', ~Waits(1)
      PROVE  \A i \in DOMAIN awake : ~Waits(i)
  BY <1>3, <1>5, FirstTaken
<1>. QED
  BY <1>2, <1>4, <1>5

LEMMA BeginTablesKeeps == ASSUME IInv, BeginTables PROVE IInv'
<1> USE DEF IInv
<1>1. /\ awake # <<>> /\ awake' = Tail(awake) /\ Head(awake) = awake[1] /\ Waits(1)
      /\ awake[1] \in UiTask /\ awake' \in Seq(UiTask) /\ ui' = "remove" /\ left' = FALSE
      /\ uiTitles' = awake[1].titles /\ UNCHANGED m_currentTableWindowTitles
  BY FirstTaken DEF BeginTables, Waits
<1>2. awake[1].titles \in TitleLists
  BY <1>1, UiTasks DEF Waits
<1>3. TypeOK' /\ FileInv'
  BY <1>1, <1>2 DEF BeginTables, TypeOK, FileInv, screen, dirs, watch, chains
<1>4. TitlesInv'
  BY <1>1, LastWaiting DEF TitlesInv
<1>5. EntriesInv' /\ EntriesFollowWindows'
  BY <1>1 DEF EntriesInv, EntriesFollowWindows
<1>6. ChainsInv'
  BY ChainsDropped DEF BeginTables, chains
<1>. QED
  BY <1>3, <1>4, <1>5, <1>6

LEMMA ShowStatsKeeps == ASSUME IInv, ShowStats PROVE IInv'
<1> USE DEF IInv
<1>1. /\ awake # <<>> /\ awake' = Tail(awake) /\ Head(awake) = awake[1] /\ ~Waits(1)
      /\ awake[1] \in UiTask /\ awake' \in Seq(UiTask) /\ awake[1].kind = "stats"
      /\ ui = "idle"
      /\ UNCHANGED <<m_currentTableWindowTitles, ui, uiTitles, uiTable, left, m_playerIndicators>>
  BY FirstTaken DEF ShowStats, Waits
<1>2. awake[1].table \in Tables /\ awake[1].stats \in Hands
  BY <1>1, UiTasks
<1>3. shown' \in [Tables -> Hands]
  BY <1>1, <1>2 DEF ShowStats, TypeOK
<1>4. TypeOK' /\ FileInv'
  BY <1>1, <1>3 DEF ShowStats, TypeOK, FileInv, screen, dirs, watch, chains
<1>5. TitlesInv'
  BY <1>1, LastWaiting DEF TitlesInv
<1>6. (\A i \in DOMAIN awake' : ~Waits(i)') => \A i \in DOMAIN awake : ~Waits(i)
  BY <1>1, LastWaiting
<1>7. EntriesFollowWindows'
  BY <1>1, <1>6 DEF EntriesFollowWindows, Waits
<1>8. EntriesInv'
  BY <1>1 DEF EntriesInv
<1>9. ChainsInv'
  BY ChainsDropped DEF ShowStats, chains
<1>. QED
  BY <1>4, <1>5, <1>7, <1>8, <1>9

\* What a function under way does to the titles: nothing.
LEMMA TitlesKept ==
    ASSUME TitlesInv, ui # "idle", UNCHANGED <<m_currentTableWindowTitles, awake, uiTitles>>
    PROVE  TitlesInv'
BY DEF TitlesInv, Waits

LEMMA RemoveKeeps == ASSUME IInv, Remove PROVE IInv'
<1> USE DEF IInv
<1>1. ui = "remove" /\ UNCHANGED <<m_currentTableWindowTitles, awake, uiTitles, left, m_playerIndicators, db, orphans>>
  BY DEF Remove
<1>2. CASE Gone = {}
  <2>1. ui' = "add" /\ UNCHANGED <<uiTable, m_fileWatcher, event, m_reloadTask, awaited>>
    BY <1>2 DEF Remove
  <2>2. m_playerIndicators \subseteq Titles(uiTitles)
    BY <1>2 DEF Gone
  <2>3. TypeOK' /\ FileInv'
    BY <2>1 DEF Remove, TypeOK, FileInv, screen, dirs
  <2>4. EntriesInv' /\ EntriesFollowWindows'
    BY <1>1, <2>1, <2>2 DEF EntriesInv, EntriesFollowWindows, Titles
  <2>. QED
    BY <1>1, <2>1, <2>3, <2>4, TitlesKept, ChainsDropped
<1>3. CASE Gone # {}
  <2>1. /\ uiTable' \in Gone /\ ui' = "await" /\ m_fileWatcher' = None /\ event' = FALSE
        /\ awaited' = m_reloadTask /\ m_reloadTask' = None
    BY <1>3 DEF Remove, StopProducingStats
  <2>2. uiTable' \in Tables
    BY <2>1 DEF Gone, TypeOK
  <2>3. TypeOK' /\ FileInv'
    BY <2>1, <2>2 DEF Remove, TypeOK, FileInv, screen, dirs
  <2>4. EntriesInv' /\ EntriesFollowWindows'
    BY <1>1, <2>1 DEF EntriesInv, EntriesFollowWindows
  <2>5. ChainsInv'
    BY <1>1, <2>1, ChainsDropped
  <2>. QED
    BY <1>1, <2>3, <2>4, <2>5, TitlesKept
<1>. QED
  BY <1>2, <1>3

LEMMA AwaitKeeps == ASSUME IInv, Await PROVE IInv'
<1> USE DEF IInv
<1>1. /\ ui = "await" /\ awaited' = None
      /\ UNCHANGED <<m_currentTableWindowTitles, awake, uiTitles, db>>
  BY DEF Await
<1>2. CASE /\ ui' = "remove" /\ m_playerIndicators' = m_playerIndicators \ {uiTable}
           /\ shown' = [shown EXCEPT ![uiTable] = 0]
           /\ m_reloadTask' = None /\ orphans' = orphans \cup Dropped(m_reloadTask)
           /\ UNCHANGED left
  <2>1. orphans' \subseteq orphans \cup ({m_reloadTask} \ {None})
    BY <1>2, DroppedChains
  <2>2. shown' \in [Tables -> Hands]
    <3>1. shown \in [Tables -> Hands] /\ 0 \in Hands
      BY BoundAssumption DEF TypeOK, Hands
    <3>. QED
      BY <1>2, <3>1
  <2>3. TypeOK' /\ FileInv'
    BY <1>1, <1>2, <2>1, <2>2 DEF Await, TypeOK, FileInv, screen, dirs, watch
  <2>4. EntriesInv' /\ EntriesFollowWindows'
    BY <1>1, <1>2 DEF EntriesInv, EntriesFollowWindows
  <2>5. ChainsInv'
    BY <1>1, <1>2, <2>1, ChainsDropped
  <2>. QED
    BY <1>1, <2>3, <2>4, <2>5, TitlesKept
<1>3. CASE ui' = "idle" /\ left' = TRUE /\ UNCHANGED <<m_playerIndicators, shown, m_reloadTask, orphans>>
  <2>1. TypeOK' /\ FileInv'
    BY <1>1, <1>3 DEF Await, TypeOK, FileInv, screen, dirs, watch
  <2>2. EntriesInv' /\ EntriesFollowWindows'
    BY <1>1, <1>3 DEF EntriesInv, EntriesFollowWindows
  <2>3. ChainsInv'
    BY <1>1, <1>3, ChainsDropped
  <2>. QED
    BY <1>1, <2>1, <2>2, <2>3, TitlesKept
<1>. QED
  BY <1>2, <1>3 DEF Await

LEMMA AddKeeps == ASSUME IInv, Add PROVE IInv'
<1> USE DEF IInv
<1> DEFINE new == {i \in DOMAIN uiTitles : uiTitles[i] \notin m_playerIndicators}
<1>1. /\ ui = "add" /\ m_playerIndicators \subseteq Titles(uiTitles) /\ ~left
      /\ UNCHANGED <<m_currentTableWindowTitles, awake, uiTitles, uiTable, left, shown, dirs, callback,
                     chains, db, screen, crashed>>
  BY DEF Add, EntriesInv
<1>2. ChainsInv'
  BY <1>1, ChainsDropped DEF chains
<1>3. TitlesInv'
  BY <1>1, TitlesKept
<1>4. CASE new = {} /\ ui' = "idle" /\ UNCHANGED <<m_playerIndicators, m_fileWatcher, started, event>>
  <2>1. m_playerIndicators = Titles(uiTitles)
    BY <1>1, <1>4 DEF Titles
  <2>2. TypeOK' /\ FileInv'
    BY <1>1, <1>4 DEF TypeOK, FileInv, screen, dirs, chains
  <2>3. EntriesInv'
    BY <1>4 DEF EntriesInv
  <2>4. EntriesFollowWindows'
    BY <1>1, <1>4, <2>1 DEF EntriesFollowWindows, TitlesInv, Waits
  <2>. QED
    BY <1>2, <1>3, <2>2, <2>3, <2>4
<1>5. ASSUME NEW i \in new, m_playerIndicators' = m_playerIndicators \cup {uiTitles[i]},
             StartProducingStats(uiTitles[i]), UNCHANGED ui
      PROVE  IInv'
  <2>1. uiTitles[i] \in Titles(uiTitles) /\ uiTitles[i] \in Tables
    <3>1. PICK n \in 0 .. Cardinality(Tables) : uiTitles \in [1 .. n -> Tables]
      BY DEF TypeOK, TitleLists
    <3>. QED
      BY <3>1 DEF Titles
  <2>2. m_fileWatcher' \in Tables \cup {None} /\ started' \subseteq Tables /\ event' \in BOOLEAN
    BY <1>5, <2>1 DEF StartProducingStats, TypeOK
  <2>3. TypeOK' /\ FileInv'
    BY <1>1, <1>5, <2>1, <2>2 DEF TypeOK, FileInv, screen, dirs, chains
  <2>4. EntriesInv' /\ EntriesFollowWindows'
    BY <1>1, <1>5, <2>1 DEF EntriesInv, EntriesFollowWindows, Titles
  <2>. QED
    BY <1>2, <1>3, <2>3, <2>4
<1>. QED
  BY <1>4, <1>5 DEF Add
-----------------------------------------------------------------------------
LEMMA NextIInv == IInv /\ [Next]_vars => IInv'
<1> SUFFICES ASSUME IInv, [Next]_vars PROVE IInv'
  OBVIOUS
<1>1. CASE UNCHANGED vars
  <2>1. TypeOK' /\ FileInv'
    BY <1>1 DEF IInv, TypeOK, FileInv, vars, screen, uiVars, dirs, watch, chains
  <2>. QED
    BY <1>1, <2>1, EntriesKept, ChainsDropped DEF IInv, vars, chains
<1>. QED
  BY <1>1, PlayerKeeps, CheckForTablesKeeps, WatcherKeeps, ChainStepKeeps, BeginTablesKeeps,
     ShowStatsKeeps, RemoveKeeps, AwaitKeeps, AddKeeps DEF Next, UiSteps

LEMMA Inductive == Spec => []IInv
BY InitIInv, NextIInv, PTL DEF Spec

\* The state keeps its shape: the functions that wait, the chains and what they
\* carry, whatever is interrupted or dropped.
THEOREM TypeCorrect == Spec => []TypeOK
<1>1. IInv => TypeOK
  BY DEF IInv
<1>. QED
  BY <1>1, Inductive, PTL

\* The statistics that a chain shows include every hand of the file it read
\* (TableService.cpp:131-151), unless its own save logged a game that it could not
\* store and returned (Database.cpp:299-305): the database only grows between the
\* save of a chain and its query, a save that throws ends its chain, and what the
\* saves of other chains lose was not there before.
THEOREM ShownStatsIncludeFile == Spec => []StatsIncludeFile
<1>1. IInv => StatsIncludeFile
  BY DEF IInv, ChainsInv, ChainInv, StatsIncludeFile
<1>. QED
  BY <1>1, Inductive, PTL

\* The tables with an entry are the windows that the watcher saw last, once the
\* user interface has done what it was asked to (GuiFltk.cpp:348-414).
THEOREM EntriesAreTheWindows == Spec => []EntriesFollowWindows
<1>1. IInv => EntriesFollowWindows
  BY DEF IInv
<1>. QED
  BY <1>1, Inductive, PTL
=============================================================================
