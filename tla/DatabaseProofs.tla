--------------------------- MODULE DatabaseProofs ---------------------------
(***************************************************************************)
(* Proofs about Database, for any savers, games and number of calls.       *)
(***************************************************************************)
EXTENDS Database, TLAPS

Running == {"Game", "Hand", "Action"}

\* The transaction of the connection belongs to one saver, although nothing but
\* the failure of BEGIN keeps the others out.
OwnerInv == /\ \A s, r \in Savers : pc[s] \in InSave /\ pc[r] \in InSave => s = r
            /\ inTransaction <=> \E s \in Savers : pc[s] \in InSave
            /\ ~inTransaction => rows = disk

\* The tasks run only while their saver waits for them.
TaskInv == \A s \in Savers : \A g \in Games :
    /\ task[s][g] \in Running => pc[s] = "await" /\ g \in site[s]
    /\ pc[s] \in {"begin", "Site", "Player"} => task[s][g] = "none"
    /\ pc[s] = "await" /\ g \in site[s] => task[s][g] # "none"
    /\ pc[s] = "commit" /\ g \in site[s] => task[s][g] = "done"

\* What a save has already inserted.
HeaderInv == \A s \in Savers : \A g \in site[s] :
    /\ pc[s] \in {"Player", "await", "commit"} => rows["Site"][g] > 0
    /\ pc[s] \in {"await", "commit"} => rows["Player"][g] > 0
GameInv == \A s \in Savers : \A g \in Games :
    /\ task[s][g] = "Hand" => rows["Game"][g] > 0
    /\ task[s][g] = "Action" => rows["Hand"][g] > 0
    /\ pc[s] \in {"await", "commit"} /\ task[s][g] = "done" /\ ~failed[s] => rows["Action"][g] > 0

\* A transaction only adds rows.
GrowInv == \A t \in Tables : \A g \in Games : disk[t][g] > 0 => rows[t][g] > 0

\* The inductive invariant.
IInv == /\ TypeOK /\ OwnerInv /\ TaskInv /\ HeaderInv /\ GameInv /\ GrowInv
        /\ ReferencesHold /\ StoredGamesStay
-----------------------------------------------------------------------------
LEMMA Names ==
    /\ {"Site", "Player", "Game", "Hand", "Action"} \subseteq Tables
    /\ {"Site", "Player", "Game", "Hand"} \subseteq KeyedTables
    /\ Running \subseteq TaskStates /\ {"none", "done"} \subseteq TaskStates
    /\ InSave \subseteq SaverStates
    /\ {"Site", "Player", "await", "commit", "rollback"} \subseteq InSave
    /\ {"idle", "begin", "returned", "threw"} \subseteq SaverStates
    /\ \A x \in {"idle", "begin", "returned", "threw"} : x \notin InSave
    /\ "none" \notin Running /\ "done" \notin Running
    /\ Following["Game"] = "Hand" /\ Following["Hand"] = "Action" /\ Following["Action"] = "done"
BY DEF Tables, KeyedTables, Running, TaskStates, InSave, SaverStates, Following

\* INSERT adds the rows of the given games and changes no other row.
LEMMA InsertRows ==
    ASSUME TypeOK, NEW t \in Tables, NEW games \in SUBSET Games, Insert(t, games)
    PROVE  /\ rows' \in RowCounts
           /\ \A u \in KeyedTables : \A g \in Games : rows'[u][g] <= 1
           /\ \A u \in Tables : \A g \in Games :
                  /\ rows[u][g] > 0 => rows'[u][g] > 0
                  /\ u # t \/ g \notin games => rows'[u][g] = rows[u][g]
           /\ \A g \in games : rows'[t][g] > 0
<1> DEFINE new == [g \in Games |-> CASE g \notin games -> rows[t][g]
                                     [] g \in games /\ t \in KeyedTables -> 1
                                     [] OTHER -> rows[t][g] + 1]
<1>1. rows \in [Tables -> [Games -> Nat]]
    BY DEF TypeOK, RowCounts
<1>2. rows' = [rows EXCEPT ![t] = new]
    BY <1>1 DEF Insert
<1>3. \A g \in Games : /\ g \notin games => new[g] = rows[t][g]
                       /\ g \in games /\ t \in KeyedTables => new[g] = 1
                       /\ g \in games /\ t \notin KeyedTables => new[g] = rows[t][g] + 1
    OBVIOUS
<1>4. \A g \in Games : new[g] \in Nat
    BY <1>1, <1>3
<1> HIDE DEF new
<1>5. new \in [Games -> Nat]
    BY <1>4 DEF new
<1>6. rows' \in [Tables -> [Games -> Nat]]
    BY <1>1, <1>2, <1>5
<1>7. \A u \in Tables : rows'[u] = IF u = t THEN new ELSE rows[u]
    BY <1>1, <1>2
<1>8. \A g \in games : rows'[t][g] > 0
    BY <1>1, <1>3, <1>7
<1>9. \A u \in Tables : \A g \in Games :
          /\ rows[u][g] > 0 => rows'[u][g] > 0
          /\ u # t \/ g \notin games => rows'[u][g] = rows[u][g]
    BY <1>1, <1>3, <1>7
<1>10. \A u \in KeyedTables : \A g \in Games : rows'[u][g] <= 1
    <2> TAKE u \in KeyedTables
    <2> TAKE g \in Games
    <2>1. rows[u][g] <= 1 /\ u \in Tables
        BY DEF TypeOK, KeyedTables
    <2> QED
        BY <2>1, <1>3, <1>7
<1> QED
    BY <1>6, <1>8, <1>9, <1>10 DEF RowCounts

LEMMA InitIInv == Init => IInv
<1> SUFFICES ASSUME Init PROVE IInv
    OBVIOUS
<1> USE DEF Init
<1>1. \A t \in Tables : \A g \in Games : rows[t][g] = 0 /\ disk[t][g] = 0
    BY DEF NoRow
<1>2. TypeOK
    <2>1. NoRow \in RowCounts
        BY DEF NoRow, RowCounts
    <2>2. \A t \in KeyedTables : \A g \in Games : rows[t][g] <= 1 /\ disk[t][g] <= 1
        BY <1>1 DEF KeyedTables
    <2>3. saves \in 0 .. MaxSaves
        BY SavesAssumption
    <2>4. task \in [Savers -> [Games -> TaskStates]] /\ pc \in [Savers -> SaverStates]
        BY Names
    <2> QED
        BY <2>1, <2>2, <2>3, <2>4 DEF TypeOK
<1>3. OwnerInv
    BY Names DEF OwnerInv
<1>4. TaskInv /\ HeaderInv /\ GameInv
    BY DEF TaskInv, HeaderInv, GameInv, Running
<1>5. GrowInv /\ ReferencesHold /\ StoredGamesStay
    BY <1>1, Names DEF GrowInv, ReferencesHold, Consistent, StoredGamesStay
<1> QED
    BY <1>2, <1>3, <1>4, <1>5 DEF IInv
-----------------------------------------------------------------------------
LEMMA SaveCallStep ==
    ASSUME IInv, NEW s \in Savers, NEW games \in SUBSET Games, SaveCall(s, games)
    PROVE  IInv'
<1> USE Names DEF IInv, SaveCall, connection
<1>1. TypeOK'
    BY SavesAssumption DEF TypeOK
<1>2. OwnerInv'
    BY DEF OwnerInv, TypeOK
<1>3. TaskInv'
    BY DEF TaskInv, TypeOK
<1>4. HeaderInv' /\ GameInv'
    BY DEF HeaderInv, GameInv, TypeOK
<1>5. GrowInv' /\ ReferencesHold' /\ StoredGamesStay'
    BY DEF GrowInv, ReferencesHold, Consistent, StoredGamesStay
<1> QED
    BY <1>1, <1>2, <1>3, <1>4, <1>5

LEMMA BeginStep ==
    ASSUME IInv, NEW s \in Savers, Begin(s)
    PROVE  IInv'
<1> USE Names DEF IInv, Begin
<1>1. TypeOK'
    BY DEF TypeOK
<1>2. OwnerInv'
    BY DEF OwnerInv, TypeOK
<1>3. TaskInv'
    BY DEF TaskInv, TypeOK, Running
<1>4. HeaderInv' /\ GameInv'
    BY DEF HeaderInv, GameInv, TypeOK
<1>5. GrowInv' /\ ReferencesHold' /\ StoredGamesStay'
    BY DEF GrowInv, ReferencesHold, Consistent, StoredGamesStay
<1> QED
    BY <1>1, <1>2, <1>3, <1>4, <1>5

LEMMA HeaderFailsStep ==
    ASSUME IInv, NEW s \in Savers, HeaderFails(s)
    PROVE  IInv'
<1> USE Names DEF IInv, HeaderFails, connection
<1>1. TypeOK'
    BY DEF TypeOK
<1>2. OwnerInv'
    BY DEF OwnerInv, TypeOK
<1>3. TaskInv'
    BY DEF TaskInv, TypeOK, Running
<1>4. HeaderInv' /\ GameInv'
    BY DEF HeaderInv, GameInv, TypeOK
<1>5. GrowInv' /\ ReferencesHold' /\ StoredGamesStay'
    BY DEF GrowInv, ReferencesHold, Consistent, StoredGamesStay
<1> QED
    BY <1>1, <1>2, <1>3, <1>4, <1>5

LEMMA TaskFailsStep ==
    ASSUME IInv, NEW s \in Savers, NEW g \in Games, TaskFails(s, g)
    PROVE  IInv'
<1> USE Names DEF IInv, TaskFails, connection
<1>1. TypeOK'
    BY DEF TypeOK
<1>2. OwnerInv'
    BY DEF OwnerInv, TypeOK
<1>3. TaskInv'
    BY DEF TaskInv, TypeOK, Running
<1>4. HeaderInv'
    BY DEF HeaderInv, TypeOK
<1>5. GameInv'
    BY DEF GameInv, TypeOK
<1>6. GrowInv' /\ ReferencesHold' /\ StoredGamesStay'
    BY DEF GrowInv, ReferencesHold, Consistent, StoredGamesStay
<1> QED
    BY <1>1, <1>2, <1>3, <1>4, <1>5, <1>6

LEMMA AwaitStep ==
    ASSUME IInv, NEW s \in Savers, Await(s)
    PROVE  IInv'
<1> USE Names DEF IInv, Await, connection
<1>1. TypeOK'
    BY DEF TypeOK
<1>2. OwnerInv'
    BY DEF OwnerInv, TypeOK
<1>3. TaskInv'
    BY DEF TaskInv, TypeOK
<1>4. HeaderInv' /\ GameInv'
    BY DEF HeaderInv, GameInv, TypeOK
<1>5. GrowInv' /\ ReferencesHold' /\ StoredGamesStay'
    BY DEF GrowInv, ReferencesHold, Consistent, StoredGamesStay
<1> QED
    BY <1>1, <1>2, <1>3, <1>4, <1>5

LEMMA RollbackStep ==
    ASSUME IInv, NEW s \in Savers, Rollback(s)
    PROVE  IInv'
<1> USE Names DEF IInv, Rollback
<1>1. TypeOK'
    BY DEF TypeOK
<1>2. \A r \in Savers : pc'[r] \notin InSave
    BY DEF OwnerInv, TypeOK
<1>3. OwnerInv'
    BY <1>2 DEF OwnerInv
<1>4. TaskInv'
    BY DEF TaskInv, TypeOK, Running
<1>5. HeaderInv' /\ GameInv'
    BY <1>2, <1>4 DEF HeaderInv, GameInv, TaskInv, Running
<1>6. GrowInv' /\ ReferencesHold' /\ StoredGamesStay'
    BY DEF GrowInv, ReferencesHold, Consistent, StoredGamesStay
<1> QED
    BY <1>1, <1>3, <1>4, <1>5, <1>6

LEMMA CrashStep ==
    ASSUME IInv, Crash
    PROVE  IInv'
<1> USE Names DEF IInv, Crash
<1>1. TypeOK'
    BY DEF TypeOK
<1>2. OwnerInv'
    BY DEF OwnerInv
<1>3. TaskInv' /\ HeaderInv' /\ GameInv'
    BY DEF TaskInv, HeaderInv, GameInv, TypeOK
<1>4. GrowInv' /\ ReferencesHold' /\ StoredGamesStay'
    BY DEF GrowInv, ReferencesHold, Consistent, StoredGamesStay
<1> QED
    BY <1>1, <1>2, <1>3, <1>4
-----------------------------------------------------------------------------
LEMMA CommitStep ==
    ASSUME IInv, NEW s \in Savers, Commit(s)
    PROVE  IInv'
<1> USE Names DEF IInv
<1>1. CASE pc' = [pc EXCEPT ![s] = "rollback"] /\ failed' = [failed EXCEPT ![s] = TRUE]
           /\ UNCHANGED <<inTransaction, disk, stored, rows, site, task, saves>>
    <2> USE <1>1
    <2>1. pc[s] = "commit"
        BY DEF Commit
    <2>2. TypeOK'
        BY DEF TypeOK
    <2>3. OwnerInv'
        BY <2>1 DEF OwnerInv, TypeOK
    <2>4. TaskInv'
        BY <2>1 DEF TaskInv, TypeOK, Running
    <2>5. HeaderInv' /\ GameInv'
        BY <2>1 DEF HeaderInv, GameInv, TypeOK
    <2>6. GrowInv' /\ ReferencesHold' /\ StoredGamesStay'
        BY DEF GrowInv, ReferencesHold, Consistent, StoredGamesStay
    <2> QED
        BY <2>2, <2>3, <2>4, <2>5, <2>6
<1>2. CASE /\ inTransaction /\ Returned(s)
           /\ inTransaction' = FALSE /\ disk' = rows
           /\ UNCHANGED <<failed, rows, site, task, saves>>
    <2> USE <1>2 DEF Returned
    <2>1. pc[s] = "commit"
        BY DEF Commit
    <2>2. TypeOK'
        BY DEF TypeOK
    <2>3. \A r \in Savers : pc'[r] \notin InSave
        BY <2>1 DEF OwnerInv, TypeOK
    <2>4. OwnerInv'
        BY <2>3 DEF OwnerInv
    <2>5. TaskInv'
        BY <2>1 DEF TaskInv, TypeOK, Running
    <2>6. HeaderInv' /\ GameInv'
        BY <2>3, <2>5 DEF HeaderInv, GameInv, TaskInv, Running
    <2>7. GrowInv' /\ ReferencesHold'
        BY DEF GrowInv, ReferencesHold, Consistent
    <2>8. ~failed[s] => \A g \in site[s] : \A t \in Tables : rows[t][g] > 0
        <3> SUFFICES ASSUME ~failed[s], NEW g \in site[s] PROVE \A t \in Tables : rows[t][g] > 0
            OBVIOUS
        <3>1. g \in Games /\ rows["Action"][g] > 0
            BY <2>1 DEF TypeOK, TaskInv, GameInv
        <3>2. rows["Hand"][g] > 0 /\ rows["Game"][g] > 0 /\ rows["Player"][g] > 0 /\ rows["Site"][g] > 0
            BY <3>1 DEF ReferencesHold, Consistent
        <3> QED
            BY <3>1, <3>2 DEF Tables
    <2>9. \A g \in stored : \A t \in Tables : rows[t][g] > 0
        BY DEF StoredGamesStay, GrowInv, TypeOK
    <2>10. StoredGamesStay'
        BY <2>8, <2>9 DEF StoredGamesStay
    <2> QED
        BY <2>2, <2>4, <2>5, <2>6, <2>7, <2>10
<1> QED
    BY <1>1, <1>2 DEF Commit

\* Every INSERT of a save is executed inside its transaction.
LEMMA InTransactionInsert ==
    ASSUME IInv, NEW s \in Savers, pc[s] \in InSave, NEW t, NEW games, Execute(t, games)
    PROVE  inTransaction /\ UNCHANGED <<disk, inTransaction>> /\ Insert(t, games)
BY DEF Execute, IInv, OwnerInv

LEMMA SaveSiteStep ==
    ASSUME IInv, NEW s \in Savers, SaveSite(s)
    PROVE  IInv'
<1> USE Names DEF IInv
<1>1. /\ pc[s] = "Site" /\ Execute("Site", site[s]) /\ site[s] \in SUBSET Games
      /\ pc' = [pc EXCEPT ![s] = "Player"]
      /\ UNCHANGED <<site, task, failed, stored, saves>>
    BY DEF SaveSite, Header, TypeOK
<1>2. inTransaction /\ UNCHANGED <<disk, inTransaction>> /\ Insert("Site", site[s])
    BY <1>1, InTransactionInsert
<1>3. /\ rows' \in RowCounts
      /\ \A u \in KeyedTables : \A g \in Games : rows'[u][g] <= 1
      /\ \A u \in Tables : \A g \in Games :
             /\ rows[u][g] > 0 => rows'[u][g] > 0
             /\ u # "Site" \/ g \notin site[s] => rows'[u][g] = rows[u][g]
      /\ \A g \in site[s] : rows'["Site"][g] > 0
    BY <1>1, <1>2, InsertRows
<1> USE <1>1, <1>2, <1>3
<1>4. TypeOK'
    BY DEF TypeOK
<1>5. OwnerInv'
    BY DEF OwnerInv, TypeOK
<1>6. TaskInv'
    BY DEF TaskInv, TypeOK
<1>7. HeaderInv'
    BY DEF HeaderInv, OwnerInv, TypeOK
<1>8. GameInv'
    BY DEF GameInv, TypeOK
<1>9. GrowInv' /\ ReferencesHold' /\ StoredGamesStay'
    BY DEF GrowInv, ReferencesHold, Consistent, StoredGamesStay
<1> QED
    BY <1>4, <1>5, <1>6, <1>7, <1>8, <1>9

LEMMA SavePlayersStep ==
    ASSUME IInv, NEW s \in Savers, SavePlayers(s)
    PROVE  IInv'
<1> USE Names DEF IInv
<1>1. /\ pc[s] = "Player" /\ Execute("Player", site[s]) /\ site[s] \in SUBSET Games
      /\ pc' = [pc EXCEPT ![s] = "await"]
      /\ task' = [task EXCEPT ![s] = [g \in Games |-> IF g \in site[s] THEN "Game" ELSE "none"]]
      /\ UNCHANGED <<site, failed, stored, saves>>
    BY DEF SavePlayers, Header, TypeOK
<1>2. inTransaction /\ UNCHANGED <<disk, inTransaction>> /\ Insert("Player", site[s])
    BY <1>1, InTransactionInsert
<1>3. /\ rows' \in RowCounts
      /\ \A u \in KeyedTables : \A g \in Games : rows'[u][g] <= 1
      /\ \A u \in Tables : \A g \in Games :
             /\ rows[u][g] > 0 => rows'[u][g] > 0
             /\ u # "Player" \/ g \notin site[s] => rows'[u][g] = rows[u][g]
      /\ \A g \in site[s] : rows'["Player"][g] > 0
    BY <1>1, <1>2, InsertRows
<1> USE <1>1, <1>2, <1>3
<1>4. TypeOK'
    BY DEF TypeOK, Running
<1>5. OwnerInv'
    BY DEF OwnerInv, TypeOK
<1>6. TaskInv'
    BY DEF TaskInv, TypeOK
<1>7. HeaderInv'
    BY DEF HeaderInv, OwnerInv, TypeOK
<1>8. GameInv'
    BY DEF GameInv, TypeOK
<1>9. GrowInv' /\ ReferencesHold' /\ StoredGamesStay'
    BY DEF GrowInv, ReferencesHold, Consistent, StoredGamesStay
<1> QED
    BY <1>4, <1>5, <1>6, <1>7, <1>8, <1>9

LEMMA TaskInsertStep ==
    ASSUME IInv, NEW s \in Savers, NEW g \in Games, TaskInsert(s, g)
    PROVE  IInv'
<1> USE Names DEF IInv
<1> DEFINE t == task[s][g]
<1>1. /\ t \in Running /\ Execute(t, {g})
      /\ task' = [task EXCEPT ![s][g] = Following[t]]
      /\ UNCHANGED <<pc, site, failed, stored, saves>>
    BY DEF TaskInsert, Running, TypeOK
<1>2. pc[s] = "await" /\ g \in site[s]
    BY <1>1 DEF TaskInv
<1>3. inTransaction /\ UNCHANGED <<disk, inTransaction>> /\ Insert(t, {g})
    BY <1>1, <1>2, InTransactionInsert
<1>4. /\ rows' \in RowCounts
      /\ \A u \in KeyedTables : \A h \in Games : rows'[u][h] <= 1
      /\ \A u \in Tables : \A h \in Games :
             /\ rows[u][h] > 0 => rows'[u][h] > 0
             /\ u # t \/ h # g => rows'[u][h] = rows[u][h]
      /\ rows'[t][g] > 0
    <2>1. t \in Tables /\ {g} \in SUBSET Games
        BY <1>1 DEF Running
    <2> HIDE DEF t
    <2> QED
        BY <1>3, <2>1, InsertRows
<1>5. /\ t \in {"Game", "Hand", "Action"} /\ Following[t] \in {"Hand", "Action", "done"}
      /\ Following[t] = "Hand" => t = "Game"
      /\ Following[t] = "Action" => t = "Hand"
      /\ Following[t] = "done" => t = "Action"
    BY <1>1 DEF Running
<1>6. \A r \in Savers : \A h \in Games :
          task'[r][h] = IF r = s /\ h = g THEN Following[t] ELSE task[r][h]
    BY <1>1 DEF TypeOK
<1>7. TypeOK'
    BY <1>1, <1>3, <1>4, <1>5 DEF TypeOK, Running
<1>8. OwnerInv'
    BY <1>1, <1>2, <1>3 DEF OwnerInv
<1>9. TaskInv'
    BY <1>1, <1>2, <1>5, <1>6 DEF TaskInv, Running
<1>10. HeaderInv'
    BY <1>1, <1>4 DEF HeaderInv, TypeOK
<1>11. GameInv'
    <2> SUFFICES ASSUME NEW r \in Savers, NEW h \in Games
                 PROVE  /\ task'[r][h] = "Hand" => rows'["Game"][h] > 0
                        /\ task'[r][h] = "Action" => rows'["Hand"][h] > 0
                        /\ pc[r] \in {"await", "commit"} /\ task'[r][h] = "done" /\ ~failed[r]
                               => rows'["Action"][h] > 0
        BY <1>1 DEF GameInv
    <2>1. CASE r = s /\ h = g
        BY <2>1, <1>4, <1>5, <1>6
    <2>2. CASE ~(r = s /\ h = g)
        BY <2>2, <1>4, <1>6 DEF GameInv
    <2> QED
        BY <2>1, <2>2
<1>12. GrowInv'
    BY <1>3, <1>4 DEF GrowInv
<1>13. ReferencesHold'
    <2>1. Consistent(disk)'
        BY <1>3 DEF ReferencesHold, Consistent
    <2>2. rows["Player"][g] > 0 /\ rows["Site"][g] > 0
        BY <1>2 DEF HeaderInv
    <2>3. /\ t = "Hand" => rows["Game"][g] > 0
          /\ t = "Action" => rows["Hand"][g] > 0
        BY DEF GameInv
    <2>4. Consistent(rows)'
        BY <1>4, <1>5, <2>2, <2>3 DEF ReferencesHold, Consistent
    <2> QED
        BY <2>1, <2>4 DEF ReferencesHold
<1>14. StoredGamesStay'
    BY <1>1, <1>3 DEF StoredGamesStay
<1> QED
    BY <1>7, <1>8, <1>9, <1>10, <1>11, <1>12, <1>13, <1>14
-----------------------------------------------------------------------------
LEMMA StutterStep == IInv /\ UNCHANGED vars => IInv'
BY DEF vars, connection, IInv, TypeOK, OwnerInv, TaskInv, HeaderInv, GameInv, GrowInv,
       ReferencesHold, Consistent, StoredGamesStay

LEMMA NextIInv == IInv /\ [Next]_vars => IInv'
<1> SUFFICES ASSUME IInv, [Next]_vars PROVE IInv'
    OBVIOUS
<1>1. CASE Crash
    BY <1>1, CrashStep
<1>2. ASSUME NEW s \in Savers, SaverSteps(s) PROVE IInv'
    BY <1>2, BeginStep, SaveSiteStep, SavePlayersStep, HeaderFailsStep, AwaitStep, CommitStep,
       RollbackStep DEF SaverSteps
<1>3. ASSUME NEW s \in Savers, NEW games \in SUBSET Games, SaveCall(s, games) PROVE IInv'
    BY <1>3, SaveCallStep
<1>4. ASSUME NEW s \in Savers, NEW g \in Games, TaskSteps(s, g) PROVE IInv'
    BY <1>4, TaskInsertStep, TaskFailsStep DEF TaskSteps
<1>5. CASE UNCHANGED vars
    BY <1>5, StutterStep
<1> QED
    BY <1>1, <1>2, <1>3, <1>4, <1>5 DEF Next

LEMMA Invariance == Spec => []IInv
BY InitIInv, NextIInv, PTL DEF Spec

\* Every reachable state has its type; a table with a key has a row once,
\* whatever is saved again.
THEOREM TypeCorrect == Spec => []TypeOK
<1>1. IInv => TypeOK
    BY DEF IInv
<1> QED
    BY <1>1, Invariance, PTL

\* No row ever refers to a missing one, for any number of savers and whatever
\* statements fail.
THEOREM ReferencesAlwaysHold == Spec => []ReferencesHold
<1>1. IInv => ReferencesHold
    BY DEF IInv
<1> QED
    BY <1>1, Invariance, PTL

\* A save that returned without a failed insert is durable.
THEOREM StoredIsDurable == Spec => []StoredGamesStay
<1>1. IInv => StoredGamesStay
    BY DEF IInv
<1> QED
    BY <1>1, Invariance, PTL

\* What is committed changes only in the commit of a save whose tasks have ended.
THEOREM OnlyCommitsReachDisk == Spec => DiskChangesAtCommit
<1> DEFINE Only == disk' # disk => \E s \in Savers :
                      /\ pc[s] = "commit" /\ pc'[s] = "returned"
                      /\ \A r \in Savers : \A g \in Games : task[r][g] \in {"none", "done"}
<1>1. IInv /\ [Next]_vars => [Only]_vars
    <2> SUFFICES ASSUME IInv, Next, disk' # disk PROVE Only
        BY DEF vars, connection
    <2> USE Names DEF IInv
    <2>1. ASSUME NEW s \in Savers, NEW t, NEW games, pc[s] \in InSave, Execute(t, games)
          PROVE FALSE
        BY <2>1, InTransactionInsert
    <2>2. ASSUME NEW s \in Savers, NEW g \in Games, TaskSteps(s, g) PROVE FALSE
        <3>1. CASE TaskInsert(s, g)
            <4>1. pc[s] = "await" /\ Execute(task[s][g], {g})
                BY <3>1 DEF TaskInsert, TaskInv, Running
            <4> QED
                BY <4>1, <2>1
        <3>2. CASE TaskFails(s, g)
            BY <3>2 DEF TaskFails, connection
        <3> QED
            BY <2>2, <3>1, <3>2 DEF TaskSteps
    <2>3. ASSUME NEW s \in Savers, Header(s, "Site", "Player") \/ Header(s, "Player", "await")
          PROVE FALSE
        BY <2>3, <2>1 DEF Header
    <2>4. PICK s \in Savers : Commit(s)
        BY <2>2, <2>3 DEF Next, Crash, SaverSteps, SaveSite, SavePlayers, Begin, HeaderFails,
                          Await, Rollback, SaveCall, connection
    <2>5. pc[s] = "commit" /\ pc'[s] = "returned"
        BY <2>4 DEF Commit, Returned, TypeOK
    <2>6. \A r \in Savers : \A g \in Games : task[r][g] \in {"none", "done"}
        <3> SUFFICES ASSUME NEW r \in Savers, NEW g \in Games, task[r][g] \in Running PROVE FALSE
            BY DEF TypeOK, TaskStates, Running
        <3>1. pc[r] = "await"
            BY DEF TaskInv
        <3>2. r = s
            BY <2>5, <3>1 DEF OwnerInv
        <3> QED
            BY <2>5, <3>1, <3>2
    <2> QED
        BY <2>5, <2>6
<1> QED
    BY <1>1, Invariance, PTL DEF DiskChangesAtCommit, Spec
=============================================================================
