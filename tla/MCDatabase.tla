----------------------------- MODULE MCDatabase -----------------------------
(***************************************************************************)
(* What the saves of module Database are made of: the site that two        *)
(* history files are read into, its INSERTs and the rows they leave.       *)
(***************************************************************************)
EXTENDS Database, SqlText

Card(hand, kind, i) == hand \o kind \o ToString(i)
Did(hand, player, index, type) ==
    [street |-> "preflop", handId |-> hand, playerName |-> player, actionType |-> type,
     actionIndex |-> index, betAmount |-> 10 * index]
HandOf(id, seats, winners, actions) ==
    [columns |-> [c \in {"tableName", "buttonSeat", "maxSeats", "level", "startDate"} |-> id \o c]
                 @@ [c \in {"handId"} |-> id] @@ [c \in {"siteName"} |-> "W"],
     ante |-> 5, heroCards |-> [i \in 1 .. 5 |-> Card(id, "hero", i)],
     boardCards |-> [i \in 1 .. 5 |-> Card(id, "board", i)],
     seats |-> seats, winners |-> winners, actions |-> actions]
GameOf(id, hands) ==
    [gameId |-> id, siteName |-> "W", gameName |-> "name", variant |-> "holdem",
     limitType |-> "no-limit", isRealMoney |-> TRUE, nbMaxSeats |-> 3, startDate |-> "date",
     hands |-> hands]
PlayerOf(name, isHero) ==
    [playerName |-> name, siteName |-> "W", isHero |-> isHero, comments |-> ""]

Hand1 == HandOf("1", <<"x", "", "h">>, {"h"}, <<Did("1", "x", 0, "fold"), Did("1", "h", 1, "call")>>)
Hand2 == HandOf("2", <<"h", "y", "">>, {"h", "y"}, <<>>)
Hand3 == HandOf("3", <<"x", "y", "h">>, {}, <<Did("3", "y", 0, "raise")>>)

CashGames == GameOf("cash", <<Hand1, Hand2>>) @@ [f \in {"smallBlind", "bigBlind"} |-> 1]
Tournament1 == AddHand(GameOf("tournament", <<>>) @@ [f \in {"buyIn"} |-> 20], Hand3)
NoHand == [CashGames EXCEPT !.gameId = "empty", !.hands = <<>>]

File1 == AddCashGame(AddPlayer(AddPlayer(AddPlayer(NewSite("W"), PlayerOf("x", FALSE)),
                                         PlayerOf("h", TRUE)), PlayerOf("y", FALSE)), CashGames)
File2 == AddTournament(AddCashGame(AddPlayer(AddPlayer(NewSite("W"), PlayerOf("h", FALSE)),
                                             PlayerOf("z", FALSE)), NoHand), Tournament1)
Both == Merge(File1, File2)

\* The entities are ones that the constructors accept.
ASSUME EntitiesAreValid ==
    /\ \A hand \in {Hand1, Hand2, Hand3} :
          HandIsValid(hand) /\ \A i \in DOMAIN hand.actions : ActionIsValid(hand.actions[i])
    /\ CashGameIsValid(CashGames) /\ CashGameIsValid(NoHand) /\ TournamentIsValid(Tournament1)
    /\ \A s \in {File1, File2} :
          /\ MergeIsValid(s, File1)
          /\ \A name \in DOMAIN s.players : /\ PlayerIsValid(s.players[name])
                                               /\ AddPlayerIsValid(s, s.players[name])
          /\ \A i \in DOMAIN s.cashGames : AddGameIsValid(s, s.cashGames[i])

\* Seats survive their words, their indexes and their numbers (Seat.cpp).
ASSUME SeatsConvert ==
    \A seat \in 1 .. SeatTen :
        /\ FromStringIsValid(SeatWords[seat]) /\ FromString(SeatWords[seat]) = seat
        /\ FromArrayIndexIsValid(seat - 1) /\ FromArrayIndex(seat - 1) = seat
        /\ FromIntIsValid(seat) /\ FromInt(seat) = seat
        /\ ~FromStringIsValid(ToString(seat + SeatTen)) /\ ~FromIntIsValid(seat - SeatTen)

\* merge (Site.cpp:62-84): no game is lost, and the order of the files matters for
\* the players only: who is a hero of one file is one after the merge only if that
\* file was merged first.
ASSUME MergeKeeps ==
    /\ Len(Both.cashGames) = 2 /\ Len(Both.tournaments) = 1
    /\ DOMAIN Both.players = {"h", "x", "y", "z"}
    /\ Both.players["h"].isHero /\ ~Merge(File2, File1).players["h"].isHero
    /\ ViewHandsOf(CashGames, "h") = <<Hand1>>

Statements == SiteInserts(Both)
RowsIn(table) == Range(ExecuteAll(Statements)[table])

\* Every placeholder of every row is replaced (Database.cpp:112-392 with
\* SqlInsertor.cpp:83-212).
ASSUME StatementsAreComplete ==
    /\ Len(Statements) = 16
    /\ \A i \in DOMAIN Statements :
          /\ Statements[i].ok
          /\ \A row \in Range(Statements[i].rows) :
                /\ Len(row) = Len(Statements[i].columns)
                /\ Range(row) \cap Range(INSERT_HAND.holes \o INSERT_ACTION.holes) = {}

\* The columns are those of the schema (sqlQueries.hpp:7-139), all that it requires
\* among them.
ASSUME StatementsFitTheSchema ==
    \A i \in DOMAIN Statements :
        LET table == Schema[Statements[i].table] columns == Range(Statements[i].columns) IN
        columns \subseteq table.columns /\ table.columns \ columns \subseteq table.optional

\* Every column takes the value of its entity: the order of the setters is neither
\* the one of the columns nor the one of the placeholders.
ASSUME RowsHoldTheEntities ==
    /\ \A hand \in {Hand1, Hand2, Hand3} : \E row \in RowsIn("Hand") :
          /\ \A c \in DOMAIN hand.columns : row[c] = hand.columns[c]
          /\ row["ante"] = "5"
          /\ \A i \in 1 .. 5 : /\ row["heroCard" \o ToString(i)] = hand.heroCards[i]
                               /\ row["boardCard" \o ToString(i)] = hand.boardCards[i]
          /\ \A i \in 1 .. 3 : hand.seats[i] # "" =>
                [handId |-> hand.columns.handId, playerName |-> hand.seats[i],
                 playerSeat |-> ToString(i), isWinner |-> BoolWord(hand.seats[i] \in hand.winners)]
                \in RowsIn("HandPlayer")
    /\ Cardinality(RowsIn("Hand")) = 3 /\ Cardinality(RowsIn("HandPlayer")) = 7
    /\ {r["gameId"] : r \in RowsIn("Game")} = {"cash", "empty", "tournament"}
    /\ [tournamentId |-> "tournament", buyIn |-> "20"] \in RowsIn("Tournament")
    /\ {<<r["cashGameId"], r["handId"]>> : r \in RowsIn("CashGameHand")} =
           {<<"cash", "1">>, <<"cash", "2">>}
    /\ {<<r["handId"], r["playerName"], r["actionType"], r["actionIndex"], r["betAmount"]>> :
           r \in RowsIn("Action")} =
           {<<"1", "x", "fold", "0", "0">>, <<"1", "h", "call", "1", "10">>,
            <<"3", "y", "raise", "0", "0">>}

Refers(db, table, reference) ==
    \A row \in Range(db[table]) :
        \E of \in Range(db[reference.table]) : of[reference.of] = row[reference.column]

\* The rows refer to rows that are there after every statement, the foreign keys
\* on handId in the place of the two that the schema puts on a number of SQLite
\* (sqlQueries.hpp:91,101) ...
ASSUME ReferencesAreThere ==
    \A n \in 0 .. Len(Statements) : LET db == ExecuteAll(SubSeq(Statements, 1, n)) IN
        \A table \in DOMAIN Schema : \A reference \in Schema[table].references :
            Refers(db, table, IF reference.column \in {"cashGameHandId", "tournamentHandId"}
                              THEN Reference("handId", "Hand", "handId") ELSE reference)

\* ... because these two do not hold as they are declared: were SQLite told to
\* enforce them, a hand whose id is no such number would be refused.
ASSUME DeclaredKeysDoNotHold ==
    LET hands == Rows(INSERT_CASHGAME_HAND, <<<<<<"?gameId", "cash">>, <<"?handId", "h7">>>>>>) IN
    ~Refers(ExecuteAll(<<Rows(INSERT_HAND, <<HandCalls(HandOf("h7", <<"h">>, {}, <<>>))>>), hands>>),
            "CashGameHand", Reference("cashGameHandId", "Hand", "handId"))

\* Saving a site again adds rows to the tables without a key of their own only:
\* Action, and the lists of the hands of the games (sqlQueries.hpp:85-115).
ASSUME SavedAgain ==
    LET once == ExecuteAll(Statements) twice == ExecuteAll(Statements \o Statements) IN
    {table \in DOMAIN Schema : once[table] # twice[table]} =
        {"Action", "CashGameHand", "TournamentHand"}

\* A value that has the text of a placeholder takes the value of a later setter,
\* whose own place keeps its placeholder: the statement is not SQL.
ASSUME PlaceholderInAValue ==
    Rows(INSERT_PLAYER, <<PlayerCalls(PlayerOf("?siteName", FALSE))>>).rows =
        <<<<"W", "?siteName", "0", "">>>>

\* A hand without players is refused ("trying to save a hand with no players",
\* Database.cpp:370); a build without the assertion sends the placeholders.
ASSUME HandWithoutPlayers ==
    HandInserts([CashGames EXCEPT !.hands = <<HandOf("4", <<"", "">>, {}, <<>>)>>])[2].rows =
        <<INSERT_HAND_PLAYER.holes>>

\* The SELECTs of readTableStatistics, getTableMaxSeat and readPlayerStatistics
\* have all their values, unless a name has a question mark: toString asserts
\* that it has none (SqlSelector.hpp:17-21).
ASSUME SelectsAreComplete ==
    \A name \in {"x", "?"} :
        /\ ToStringIsValid(OfTable(GET_PREFLOP_STATS_BY_SITE_AND_TABLE_NAME, "W", name)) <=> name = "x"
        /\ ToStringIsValid(OfTable(GET_MAX_SEATS_BY_SITE_AND_TABLE_NAME, "W", name)) <=> name = "x"
        /\ ToStringIsValid(OfPlayer(GET_STATS_BY_SITE_AND_PLAYER_NAME, "W", name)) <=> name = "x"

\* readPlayerStatistics (Database.cpp:528-554): its query has no GROUP BY and gives
\* a row for a player without an action too, which is read as zeros; a player is
\* never missing.
ASSUME UnknownPlayerHasARow ==
    LET p == Step(PreparedStatement(<<<<Null, Null, Null, "0">>>>)) IN
    /\ HasRow(PreparedStatement(<<<<Null, Null, Null, "0">>>>)) /\ GetColumnCount(p) = 4
    /\ ~GetColumnAsBool(p, 0) /\ GetColumnAsNumber(p, 1) = "0" /\ GetColumnAsNumber(p, 3) = "0"
    /\ ~GetColumnAsStringIsValid(p, 0)
=============================================================================
