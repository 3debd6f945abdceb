----------------------------- MODULE Indicators -----------------------------
(***************************************************************************)
(* From the hands of a table to the indicators beside its players: an      *)
(* import and the chain of a file that changed save hands on the one       *)
(* connection, the chain reads the statistics (module Statistics) and      *)
(* notifies, the user interface draws the indicators (GuiFltk.cpp:305-346, *)
(* PlayerIndicator.cpp) and the user moves them (DragAndDropWindow.hpp).   *)
(* A save stores its games statement by statement; a game may fail between *)
(* two of them and the save still commits the rest (Database.cpp:299-326), *)
(* or all that it stored is rolled back.                                   *)
(*                                                                         *)
(* Left out: how titles, entries and watchers follow the windows (module   *)
(* Hud), a save that throws before its games (module Database: it stores   *)
(* nothing) and the order of the statements of two games of one save.      *)
(***************************************************************************)
EXTENDS Statistics

CONSTANTS Deals,    \* the hands that can be played
          Table,    \* the table that is watched
          MaxHands, \* bound on the hands that are played
          Rects,    \* where the user may put the window of the table
          Drops,    \* where the user may put an indicator
          None

ASSUME DealsAssumption ==
    \A d \in Deals : /\ d.seats \in Seq(Range(d.seats)) /\ Len(d.seats) \in TableSizes /\ PlayersAt(d) # {}
                     /\ d.preflop \in Seq(Range(d.preflop))
ASSUME TableAssumption == \E d \in Deals : d.tableName = Table
ASSUME SameTable == \A d, e \in Deals : d.tableName = e.tableName => Len(d.seats) = Len(e.seats)
ASSUME HandsAssumption == MaxHands \in Nat
ASSUME ScreenAssumption == /\ Rects \subseteq [x : Int, y : Int, w : Int, h : Int]
                           /\ Drops \subseteq [x : Int, y : Int]

TableSeats == 1 .. Len((CHOOSE d \in Deals : d.tableName = Table).seats)

\* What the rows, a save, the row of a player and an indicator may be.
Names == UNION {PlayersAt(d) : d \in Deals}
Ids == 1 .. MaxHands
RowSets == [hand : SUBSET Ids, handPlayer : SUBSET Ids, action : [Ids -> Nat],
            player : SUBSET Names, isHero : SUBSET Names, lost : SUBSET Ids]
Saves == [who : {"import", "chain", "dropped"}, step : {"player", "hand", "handPlayer", "action", "end"},
          ids : SUBSET Ids, before : RowSets]
StatRows == [player : Names, seat : TableSeats, isHero : BOOLEAN, vpip : 0 .. 100, pfr : 0 .. 100, nbHands : Ids]
Points == [x : Int, y : Int]
PlayerIndicators == [player : Names, stats : StatRows, base : Points, pos : Points, offset : Points]

ASSUME NoneAssumption == None \notin (1 .. SeatTen) \cup Saves \cup PlayerIndicators

VARIABLES hands,      \* the hands that were played: their index is their id and their date
          changed,    \* the watcher has yet to notify a change of the file of the table
          rows,       \* what the connection sees
          saver,      \* the save under way: who, its step, its hands, the rows before it
          chain,      \* the chain of the table: idle, parse, save, maxSeats, rows, notify
          stats,      \* what it has read
          imported,   \* the import was asked for
          awake,      \* statistics for the user interface
          rect,       \* the window of the table
          indicators, \* m_playerIndicators of the table, None where there is none
          drag,       \* the seat whose indicator the user is moving
          applied,    \* the statistics that were applied last, to the end
          asserts,    \* the build has assertions
          aborted     \* one of them ended the program

data == <<hands, changed, rows, saver, chain, stats, imported>>
screen == <<rect, indicators, drag, applied>>
vars == <<data, awake, screen, asserts, aborted>>

NoRows == [hand |-> {}, handPlayer |-> {}, action |-> [id \in Ids |-> 0], player |-> {}, isHero |-> {},
           lost |-> {}]
NoStats == [maxSeats |-> SeatUnknown, rows |-> {}]

Init == /\ hands = <<>> /\ changed = FALSE
        /\ rows = NoRows /\ saver = None
        /\ chain = "idle" /\ stats = NoStats /\ imported = FALSE
        /\ awake = <<>>
        /\ rect \in Rects /\ indicators = [seat \in TableSeats |-> None]
        /\ drag = None /\ applied = None
        /\ asserts \in BOOLEAN /\ aborted = FALSE
-----------------------------------------------------------------------------
\* A hand ends and is written in the file of its table.
PlayHand == /\ ~aborted /\ Len(hands) < MaxHands
            /\ \E d \in Deals : /\ hands' = Append(hands, d)
                                /\ changed' = (changed \/ d.tableName = Table)
            /\ UNCHANGED <<rows, saver, chain, stats, imported, awake, screen, asserts, aborted>>

\* Database::save begins a transaction, and throws if there is one.
Begin(who, ids) == saver' = [who |-> who, step |-> "player", ids |-> ids, before |-> rows]

\* TableService, the callback of the watcher: the new chain takes the place of the
\* other one, whose save ends alone; a notification under way is made or dropped.
FileChanged == /\ ~aborted /\ changed
               /\ changed' = FALSE /\ chain' = "parse"
               /\ saver' = IF saver # None /\ saver.who = "chain" THEN [saver EXCEPT !.who = "dropped"] ELSE saver
               /\ \/ UNCHANGED awake
                  \/ chain = "notify" /\ awake' = Append(awake, stats)
               /\ stats' = NoStats
               /\ UNCHANGED <<hands, rows, imported, screen, asserts, aborted>>

\* The hands of the file are read, then saved.
ReloadFile == /\ ~aborted /\ chain = "parse"
              /\ IF saver = None
                 THEN /\ Begin("chain", {id \in DOMAIN hands : hands[id].tableName = Table})
                      /\ chain' = "save"
                 ELSE chain' = "idle" /\ UNCHANGED saver
              /\ UNCHANGED <<hands, changed, rows, stats, imported, awake, screen, asserts, aborted>>

Import == /\ ~aborted /\ ~imported /\ saver = None
          /\ imported' = TRUE
          /\ Begin("import", DOMAIN hands)
          /\ UNCHANGED <<hands, changed, rows, chain, stats, awake, screen, asserts, aborted>>

\* The statements of a save, INSERT OR IGNORE: a player who is there stays as he
\* is, and Action has no key to ignore a row by.
Insert(step, ids) ==
    CASE step = "player" ->
           LET names == UNION {PlayersAt(hands[id]) : id \in ids}
               heroes == {hands[id].dealt : id \in ids} IN
           [rows EXCEPT !.player = @ \cup names, !.isHero = @ \cup ((heroes \cap names) \ rows.player)]
      [] step = "hand" -> [rows EXCEPT !.hand = @ \cup ids]
      [] step = "handPlayer" -> [rows EXCEPT !.handPlayer = @ \cup ids]
      [] step = "action" -> [rows EXCEPT !.action = [id \in Ids |-> @[id] + IF id \in ids THEN 1 ELSE 0],
                                        !.lost = @ \ ids]

NextStep == [player |-> "hand", hand |-> "handPlayer", handPlayer |-> "action", action |-> "end"]

Save == /\ ~aborted /\ saver # None /\ saver.step # "end"
        /\ rows' = Insert(saver.step, saver.ids)
        /\ saver' = [saver EXCEPT !.step = NextStep[@]]
        /\ UNCHANGED <<hands, changed, chain, stats, imported, awake, screen, asserts, aborted>>

\* A statement of a game fails: the error is logged, the rest of the game is left and
\* the save goes on.  The actions are stored hand by hand, some before the failure.
GameFails ==
    /\ ~aborted /\ saver # None /\ saver.step \in {"hand", "handPlayer", "action"}
    /\ \E failing \in saver.ids :
         LET game == {id \in saver.ids : hands[id].tableName = hands[failing].tableName} IN
         \E done \in SUBSET (game \ {failing}) :
            /\ saver.step = "action" \/ done = {}
            /\ rows' = [Insert("action", done) EXCEPT
                          !.lost = @ \cup {id \in (game \ done) \cap rows.hand : rows.action[id] = 0}]
            /\ saver' = [saver EXCEPT !.ids = @ \ game]
    /\ UNCHANGED <<hands, changed, chain, stats, imported, awake, screen, asserts, aborted>>

\* END, or the rollback of the destructor of the transaction.
End == /\ ~aborted /\ saver # None /\ saver.step = "end"
       /\ saver' = None
       /\ \/ /\ UNCHANGED rows
             /\ chain' = IF saver.who = "chain" THEN "maxSeats" ELSE chain
          \/ /\ rows' = saver.before
             /\ chain' = IF saver.who = "chain" THEN "idle" ELSE chain
       /\ UNCHANGED <<hands, changed, stats, imported, awake, screen, asserts, aborted>>

\* readTableStatistics: two queries, and nothing keeps others from a save between
\* them or around them.
ReadMaxSeats == /\ ~aborted /\ chain = "maxSeats"
                /\ chain' = "rows"
                /\ stats' = [NoStats EXCEPT !.maxSeats = GetTableMaxSeat(rows, hands, Table)]
                /\ UNCHANGED <<hands, changed, rows, saver, imported, awake, screen, asserts, aborted>>

ReadRows == /\ ~aborted /\ chain = "rows"
            /\ stats' = [stats EXCEPT !.rows = ReadTableRows(rows, hands, Table)]
            /\ chain' = IF IsValid(stats) THEN "notify" ELSE "idle"
            /\ UNCHANGED <<hands, changed, rows, saver, imported, awake, screen, asserts, aborted>>

\* notify, and scheduleUITask.
Notify == /\ ~aborted /\ chain = "notify"
          /\ chain' = "idle" /\ stats' = NoStats
          /\ awake' = Append(awake, stats)
          /\ UNCHANGED <<hands, changed, rows, saver, imported, screen, asserts, aborted>>
-----------------------------------------------------------------------------
Indicator(row, base) == [player |-> row.player, stats |-> row, base |-> base, pos |-> base,
                         offset |-> [x |-> 0, y |-> 0]]
Plus(p, q) == [x |-> p.x + q.x, y |-> p.y + q.y]
Minus(p, q) == [x |-> p.x - q.x, y |-> p.y - q.y]

\* Mutant of UpdateBasePosition: what the user did is forgotten.
UpdateBaseOnly(indicator, base) == [indicator EXCEPT !.base = base, !.pos = base]

\* PlayerIndicator::updateBasePosition.
UpdateBasePosition(indicator, base) ==
    [indicator EXCEPT !.base = base, !.pos = Plus(base, indicator.offset)]

\* refresh, updateBasePosition and setStats.
Update(indicator, row, base) ==
    [UpdateBasePosition(indicator, base) EXCEPT !.player = row.player, !.stats = row]

\* Mutant of Show: an empty seat keeps its indicator.
ShowOccupied(seat, s, base) == LET at == {r \in s.rows : r.seat = seat} IN
    IF at = {} THEN indicators[seat]
    ELSE LET row == CHOOSE r \in at : TRUE IN
         IF indicators[seat] = None THEN Indicator(row, base) ELSE Update(indicators[seat], row, base)

\* The turn of the loop of updateTablePlayerIndicators for a seat.
Show(seat, s, base) == LET at == {r \in s.rows : r.seat = seat} IN
    IF at = {} THEN None
    ELSE LET row == CHOOSE r \in at : TRUE IN
         IF indicators[seat] = None THEN Indicator(row, base) ELSE Update(indicators[seat], row, base)

\* Mutant of BaseOf: the seat is not rotated.
BaseOfSeat(seat, s) == BuildPlayerIndicatorPosition(seat, s.maxSeats, rect)

BaseOf(seat, s) == BuildPlayerIndicatorPosition(
                       RotateRelativeToHero(seat, GetHeroSeat(s), s.maxSeats), s.maxSeats, rect)

\* The seats whose rotation is not a seat: calculatePosition throws.
Throwing(s) == {row.seat : row \in {r \in s.rows :
                    RotateRelativeToHero(r.seat, GetHeroSeat(s), s.maxSeats) \notin 1 .. SeatTen}}

\* updateTablePlayerIndicators, which an assertion or an exception may end before
\* the last seat.
UpdateTablePlayerIndicators ==
    LET s == Head(awake)
        undone == {seat \in Seats(s) : \E t \in Throwing(s) : t <= seat} IN
    /\ ~aborted /\ awake # <<>>
    /\ awake' = Tail(awake)
    /\ IF asserts /\ \E row \in s.rows : ~CanRotate(row.seat, GetHeroSeat(s), s.maxSeats)
       THEN aborted' = TRUE /\ UNCHANGED screen
       ELSE /\ indicators' = [seat \in TableSeats |->
                                IF seat \in Seats(s) \ undone THEN Show(seat, s, BaseOf(seat, s))
                                ELSE indicators[seat]]
            /\ applied' = IF undone = {} THEN s ELSE None
            /\ drag' = IF drag = None \/ indicators'[drag] = None THEN None ELSE drag
            /\ UNCHANGED <<rect, aborted>>
    /\ UNCHANGED <<data, asserts>>

MoveTable == /\ ~aborted /\ rect' \in Rects
             /\ UNCHANGED <<data, awake, indicators, drag, applied, asserts, aborted>>

\* DragAndDropWindow::handle: FL_PUSH and FL_DRAG...
Drag(seat) == /\ ~aborted /\ indicators[seat] # None
              /\ drag \in {None, seat} /\ drag' = seat
              /\ \E drop \in Drops : indicators' = [indicators EXCEPT ![seat].pos = drop]
              /\ UNCHANGED <<data, awake, rect, applied, asserts, aborted>>

\* ... and FL_RELEASE, which calls the callback of the indicator.
Release == /\ ~aborted /\ drag # None
           /\ drag' = None
           /\ indicators' = [indicators EXCEPT ![drag].offset =
                               Minus(indicators[drag].pos, indicators[drag].base)]
           /\ UNCHANGED <<data, awake, rect, applied, asserts, aborted>>

Program == FileChanged \/ ReloadFile \/ Save \/ GameFails \/ End \/ ReadMaxSeats \/ ReadRows \/ Notify
             \/ UpdateTablePlayerIndicators
User == PlayHand \/ Import \/ MoveTable \/ Release \/ \E seat \in TableSeats : Drag(seat)
Next == Program \/ User
Spec == Init /\ [][Next]_vars
-----------------------------------------------------------------------------
IsRow(r) == r \in StatRows /\ r.pfr <= r.vpip /\ r.nbHands <= Len(hands)
IsStats(s) == /\ s.maxSeats \in {SeatUnknown, Cardinality(TableSeats)}
              /\ \A r \in s.rows : IsRow(r)
              /\ \A r, q \in s.rows : r.seat = q.seat => r = q

\* Whatever was read between the statements of a save, and however often a hand
\* was stored: pfr <= vpip (PlayerStatistics.hpp:90), no percentage is beyond 100,
\* no player has more hands than were played, no two have a seat, and the seats are
\* seats of the table.
TypeOK == /\ hands \in Seq(Deals) /\ Len(hands) <= MaxHands /\ changed \in BOOLEAN
          /\ rows \in RowSets /\ rows.hand \subseteq DOMAIN hands
          /\ rows.handPlayer \subseteq rows.hand /\ rows.isHero \subseteq rows.player
          /\ saver \in Saves \cup {None}
          /\ chain \in {"idle", "parse", "save", "maxSeats", "rows", "notify"}
          /\ (chain = "save") => saver # None /\ saver.who = "chain"
          /\ IsStats(stats) /\ \A s \in Range(awake) : IsStats(s) /\ IsValid(s)
          /\ rect \in Rects /\ indicators \in [TableSeats -> PlayerIndicators \cup {None}]
          /\ drag \in TableSeats \cup {None} /\ (drag # None => indicators[drag] # None)
          /\ imported \in BOOLEAN /\ aborted \in BOOLEAN /\ asserts \in BOOLEAN

\* Once statistics were applied to the end, the indicators are those of their
\* players, at their seats, with their values; the indicators of those who left are
\* gone (GuiFltk.cpp:312-345).
IndicatorsMatchStats == applied # None =>
    /\ {indicators[seat].stats : seat \in {s \in TableSeats : indicators[s] # None}} = applied.rows
    /\ \A seat \in TableSeats : indicators[seat] # None =>
          indicators[seat].stats.seat = seat /\ indicators[seat].player = indicators[seat].stats.player

\* No indicator is drawn upon another one, and that of the hero is below all others
\* (Position.hpp:34, "so that the hero seat always appears at the bottom").
HeroAtTheBottom == applied # None =>
    \A s, t \in TableSeats : s # t /\ None \notin {indicators[s], indicators[t]} =>
        /\ indicators[s].base # indicators[t].base
        /\ indicators[s].stats.isHero /\ ~indicators[t].stats.isHero =>
              indicators[s].base.y > indicators[t].base.y

\* An indicator that the user does not hold stands where its seat is, moved by what
\* the user moved it: through changes of the player, of the hero and of the window.
OffsetIsKept == \A seat \in TableSeats \ {drag} : indicators[seat] # None =>
    indicators[seat].pos = Plus(indicators[seat].base, indicators[seat].offset)

\* What the statistics of a table are, from the hands that were played and stored:
\* ratios of hands (doc/spec_stat.txt:16-20, PlayerStatistics.hpp:80-90), where bets
\* count as voluntary but PFR counts raises alone.  The comment of
\* PlayerStatistics.hpp:8-11 says otherwise: ratios of preflop actions, and bets in
\* PFR too.  The query does not follow it, and nor does this definition.
Reference == LET stored == {id \in rows.hand : hands[id].tableName = Table} IN
    IF stored = {} THEN {}
    ELSE LET last == hands[Max(stored)]
             Of(name) == {id \in stored : name \in PlayersAt(hands[id])}
             Did(name, types) == {id \in Of(name) : \E a \in Range(hands[id].preflop) :
                                                      a.player = name /\ a.type \in types}
             Pct(name, types) == (100 * Cardinality(Did(name, types))) \div Cardinality(Of(name)) IN
         {[player |-> n, seat |-> SeatOf(last, n), isHero |-> n \in rows.isHero,
           vpip |-> Pct(n, {"call", "bet", "raise"}), pfr |-> Pct(n, {"raise"}),
           nbHands |-> Cardinality(Of(n))] : n \in PlayersAt(last)}

\* Statistics of the table that were read while no save was under way are those of
\* its hands, however often they were stored (sqlQueries.hpp:246-247) and whatever
\* other games failed, but for hands of the table that are in rows.lost: a save
\* commits what it stored of a game that failed (Database.cpp:299-305, 326).
StatsMatchHands == [][chain = "rows" /\ chain' \in {"notify", "idle"} /\ saver = None
                           /\ TableHands(rows, hands, Table) \cap rows.lost = {}
                        => stats'.rows = Reference]_vars

\* "assert(Seat::seatUnknown != heroSeat)" (Position.cpp:141): there is a hero
\* among the players that are shown.
HeroSeatIsKnown == \A s \in Range(awake) : s.rows # {} => GetHeroSeat(s) # SeatUnknown

\* A player who was dealt cards in a stored hand is a hero in the database.
HeroesAreStored == saver = None =>
    {hands[id].dealt : id \in rows.hand} \ {NoPlayer} \subseteq rows.isHero

\* The display shows the hands that are stored once nothing is under way.
DisplayIsCurrent == (saver = None /\ chain = "idle" /\ awake = <<>> /\ ~changed /\ applied # None)
                       => applied.rows = Reference

\* "The percentage of hands" (PlayerStatistics.hpp:80-88) for the query by player.
PlayerStatsCountHands == saver = None => \A name \in rows.player :
    LET hs == {id \in rows.hand : name \in PlayersAt(hands[id])} IN
    ReadPlayerStatistics(rows, hands, name).nbHands = Cardinality(hs)
=============================================================================
