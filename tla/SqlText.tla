------------------------------ MODULE SqlText ------------------------------
(***************************************************************************)
(* db/SqlInsertor.cpp, db/SqlSelector.hpp and the statements that          *)
(* db/Database.cpp makes of the templates of db/sqlQueries.hpp.            *)
(*                                                                         *)
(* A text is the sequence of its words: a placeholder ("?handId") or what  *)
(* replaced one.  Quotes, commas and the columns' names around them are    *)
(* left out: the text of an INSERT is its table, its columns and the words *)
(* of its rows.  A value is one word; the value of a number is converted.  *)
(***************************************************************************)
EXTENDS Entities

Template(table, columns, holes) == [table |-> table, columns |-> columns, holes |-> holes]

INSERT_SITE == Template("Site", <<"siteName">>, <<"?siteName">>)
INSERT_GAME ==
    Template("Game",
        <<"gameId", "siteName", "gameName", "variant", "limitType", "isRealMoney", "nbMaxSeats",
          "startDate">>,
        <<"?gameId", "?siteName", "?gameName", "?variant", "?limitType", "?isRealMoney",
          "?nbMaxSeats", "?startDate">>)
INSERT_TOURNAMENT ==
    Template("Tournament", <<"tournamentId", "buyIn">>, <<"?tournamentId", "?buyIn">>)
INSERT_CASHGAME == Template("CashGame", <<"cashGameId", "smallBlind", "bigBlind">>,
                            <<"?cashGameId", "?smallBlind", "?bigBlind">>)
INSERT_TOURNAMENT_HAND ==
    Template("TournamentHand", <<"tournamentId", "handId">>, <<"?gameId", "?handId">>)
INSERT_CASHGAME_HAND ==
    Template("CashGameHand", <<"cashGameId", "handId">>, <<"?gameId", "?handId">>)
INSERT_HAND ==
    Template("Hand",
        <<"handId", "siteName", "tableName", "buttonSeat", "maxSeats", "ante", "level", "startDate",
          "heroCard1", "heroCard2", "heroCard3", "heroCard4", "heroCard5",
          "boardCard1", "boardCard2", "boardCard3", "boardCard4", "boardCard5">>,
        <<"?handId", "?siteName", "?tableName", "?buttonSeat", "?maxSeats", "?ante", "?level",
          "?startDate", "?heroCard1", "?heroCard2", "?heroCard3", "?heroCard4", "?heroCard5",
          "?boardCard1", "?boardCard2", "?boardCard3", "?boardCard4", "?boardCard5">>)
INSERT_ACTION ==
    Template("Action",
        <<"street", "handId", "playerName", "actionType", "actionIndex", "betAmount">>,
        <<"?street", "?handId", "?playerName", "?actionType", "?actionIndex", "?betAmount">>)
INSERT_PLAYER == Template("Player", <<"playerName", "siteName", "isHero", "comments">>,
                          <<"?playerName", "?siteName", "?isHero", "?comments">>)
INSERT_HAND_PLAYER == Template("HandPlayer", <<"handId", "playerName", "playerSeat", "isWinner">>,
                               <<"?handId", "?playerName", "?playerSeat", "?isWinner">>)
-----------------------------------------------------------------------------
\* SqlInsertor: m_query with its rows so far, m_valueModel in the template, and
\* m_values.  "ok" is lost by an exception.
SqlInsertor(template) == [template |-> template, rows |-> <<>>, values |-> template.holes,
                          ok |-> template.holes # <<>>]

\* REPLACE_IN_VALUES: the first place of the placeholder in m_values takes the
\* value.  Without one, an assertion fails or std::string::replace throws.
SetValue(insertor, hole, value) ==
    IF insertor.ok /\ Contains(insertor.values, hole)
    THEN [insertor EXCEPT !.values = ReplaceFirstSubSeq(<<value>>, <<hole>>, @)]
    ELSE [insertor EXCEPT !.ok = FALSE]

NewInsert(insertor) == [insertor EXCEPT !.rows = Append(@, insertor.values),
                                        !.values = insertor.template.holes]

\* build: what was set since the last newInsert is left out, unless there is none.
Build(insertor) ==
    [table |-> insertor.template.table, columns |-> insertor.template.columns,
     rows |-> IF insertor.rows = <<>> THEN <<insertor.values>> ELSE insertor.rows,
     ok |-> insertor.ok]

\* A row: the setters called one after the other, with the values of an entity.
Call(insertor, calls) == FoldLeft(LAMBDA i, call : SetValue(i, call[1], call[2]), insertor, calls)
Row(insertor, calls) == NewInsert(Call(insertor, calls))
Rows(template, allCalls) == Build(FoldLeft(Row, SqlInsertor(template), allCalls))
Single(template, calls) == Build(Call(SqlInsertor(template), calls))

\* toString<bool>.
BoolWord(b) == IF b THEN "1" ELSE "0"
-----------------------------------------------------------------------------
\* The statements of Database.cpp, with the setters in the order of the code.
SiteInsert(site) == Single(INSERT_SITE, <<<<"?siteName", site.name>>>>)

PlayerCalls(p) == <<<<"?playerName", p.playerName>>, <<"?siteName", p.siteName>>,
                    <<"?isHero", BoolWord(p.isHero)>>, <<"?comments", p.comments>>>>
PlayersInsert(players) == Rows(INSERT_PLAYER, [i \in DOMAIN players |-> PlayerCalls(players[i])])

GameInsert(g) ==
    Single(INSERT_GAME, <<<<"?gameId", g.gameId>>, <<"?siteName", g.siteName>>,
                          <<"?gameName", g.gameName>>, <<"?variant", g.variant>>,
                          <<"?limitType", g.limitType>>, <<"?isRealMoney", BoolWord(g.isRealMoney)>>,
                          <<"?nbMaxSeats", SeatWords[g.nbMaxSeats]>>, <<"?startDate", g.startDate>>>>)

IsTournament(g) == "buyIn" \in DOMAIN g
SpecificGameInsert(g) ==
    IF IsTournament(g)
    THEN Single(INSERT_TOURNAMENT, <<<<"?tournamentId", g.gameId>>, <<"?buyIn", ToString(g.buyIn)>>>>)
    ELSE Single(INSERT_CASHGAME, <<<<"?cashGameId", g.gameId>>,
                                   <<"?smallBlind", ToString(g.smallBlind)>>,
                                   <<"?bigBlind", ToString(g.bigBlind)>>>>)

\* insertHand: the columns are set by name, level before ante.
HandCalls(hand) ==
    LET c == hand.columns IN
    <<<<"?handId", c.handId>>, <<"?siteName", c.siteName>>, <<"?tableName", c.tableName>>,
      <<"?buttonSeat", c.buttonSeat>>, <<"?maxSeats", c.maxSeats>>, <<"?level", c.level>>,
      <<"?ante", ToString(hand.ante)>>, <<"?startDate", c.startDate>>>> \o
    [i \in 1 .. 5 |-> <<INSERT_HAND.holes[8 + i], hand.heroCards[i]>>] \o
    [i \in 1 .. 5 |-> <<INSERT_HAND.holes[13 + i], hand.boardCards[i]>>]

\* saveHands: the seats that have a player, in their order.
SeatCalls(hand) ==
    LET taken == SelectSeq([i \in DOMAIN hand.seats |-> i], LAMBDA i : hand.seats[i] # "") IN
    [k \in DOMAIN taken |->
        <<<<"?handId", hand.columns.handId>>, <<"?playerName", hand.seats[taken[k]]>>,
          <<"?playerSeat", SeatWords[taken[k]]>>,
          <<"?isWinner", BoolWord(IsWinner(hand, hand.seats[taken[k]]))>>>>]

HandInserts(g) ==
    LET OfHands(Calls(_)) == [i \in DOMAIN g.hands |-> Calls(g.hands[i])] IN
    IF g.hands = <<>> THEN <<>>
    ELSE <<Rows(INSERT_HAND, OfHands(HandCalls)),
           Rows(INSERT_HAND_PLAYER, FlattenSeq(OfHands(SeatCalls))),
           Rows(IF IsTournament(g) THEN INSERT_TOURNAMENT_HAND ELSE INSERT_CASHGAME_HAND,
                OfHands(LAMBDA h : <<<<"?gameId", g.gameId>>, <<"?handId", h.columns.handId>>>>))>>

\* saveActions of each hand that has some.
ActionCalls(a) == <<<<"?street", a.street>>, <<"?handId", a.handId>>,
                    <<"?playerName", a.playerName>>, <<"?actionType", a.actionType>>,
                    <<"?actionIndex", ToString(a.actionIndex)>>,
                    <<"?betAmount", ToString(a.betAmount)>>>>
ActionInserts(g) ==
    LET acted == SelectSeq(g.hands, LAMBDA h : h.actions # <<>>) IN
    [i \in DOMAIN acted |->
        Rows(INSERT_ACTION, [k \in DOMAIN acted[i].actions |-> ActionCalls(acted[i].actions[k])])]

\* saveGame, then save(Site) with the games one after the other.
GameInserts(g) == <<GameInsert(g), SpecificGameInsert(g)>> \o HandInserts(g) \o ActionInserts(g)
SiteInserts(site) ==
    LET games == site.cashGames \o site.tournaments IN
    <<SiteInsert(site)>> \o
    (IF DOMAIN site.players = {} THEN <<>> ELSE <<PlayersInsert(ViewPlayers(site))>>) \o
    FlattenSeq([i \in DOMAIN games |-> GameInserts(games[i])])
-----------------------------------------------------------------------------
\* The schema: the columns of each table, those that may be NULL or that a key
\* of SQLite's own gives, its key, and what its rows refer to.
Table(columns, optional, key, references) ==
    [columns |-> columns, optional |-> optional, key |-> key, references |-> references]
Reference(column, table, of) == [column |-> column, table |-> table, of |-> of]

TournamentOptions == {"prizepool", "buyIn", "startingStack", "rebuy", "rebuyCost", "rebuyChips",
                      "addOn", "addOnCost", "addOnChips", "knockout", "speed", "shootout", "reEntry",
                      "seatNGo", "canTime", "timeAmount", "satellite", "doubleOrNothing"}

Schema ==
    [Site |-> Table({"siteName"}, {}, {"siteName"}, {}),
     Hand |-> LET optional == {INSERT_HAND.columns[i] : i \in 11 .. 18} IN
              Table({"handId", "siteName", "tableName", "buttonSeat", "maxSeats", "level", "ante",
                     "startDate", "heroCard1", "heroCard2"} \cup optional, optional, {"handId"},
                    {Reference("siteName", "Site", "siteName")}),
     Game |-> Table({"gameId", "siteName", "gameName", "variant", "limitType", "isRealMoney",
                     "nbMaxSeats", "startDate"}, {}, {"gameId"},
                    {Reference("siteName", "Site", "siteName")}),
     CashGame |-> Table({"cashGameId", "smallBlind", "bigBlind"}, {}, {"cashGameId"},
                        {Reference("cashGameId", "Game", "gameId")}),
     Tournament |-> Table({"tournamentId"} \cup TournamentOptions, TournamentOptions,
                          {"tournamentId"}, {Reference("tournamentId", "Game", "gameId")}),
     CashGameHand |-> Table({"cashGameHandId", "cashGameId", "handId"}, {"cashGameHandId"},
                            {"cashGameHandId"},
                            {Reference("cashGameId", "CashGame", "cashGameId"),
                             Reference("cashGameHandId", "Hand", "handId")}),
     TournamentHand |-> Table({"tournamentHandId", "tournamentId", "handId"}, {"tournamentHandId"},
                              {"tournamentHandId"},
                              {Reference("tournamentId", "Tournament", "tournamentId"),
                               Reference("tournamentHandId", "Hand", "handId")}),
     Action |-> Table({"actionId", "street", "handId", "playerName", "actionType", "actionIndex",
                       "betAmount"}, {"actionId"}, {"actionId"},
                      {Reference("handId", "Hand", "handId")}),
     Player |-> Table({"playerName", "siteName", "isHero", "comments"}, {"isHero", "comments"},
                      {"playerName", "siteName"}, {Reference("siteName", "Site", "siteName")}),
     HandPlayer |-> Table({"handId", "playerName", "playerSeat", "isWinner"}, {"isWinner"},
                          {"handId", "playerName"}, {Reference("handId", "Hand", "handId"),
                                                     Reference("playerName", "Player", "playerName")})]

\* executeSql of an INSERT OR IGNORE: a row whose key is there is ignored; a key
\* that is SQLite's own is the number of the row.
EmptyTables == [t \in DOMAIN Schema |-> <<>>]
RowOf(statement, row, number) ==
    LET given == [c \in Range(statement.columns) |-> row[CHOOSE i \in DOMAIN row : statement.columns[i] = c]]
        key == Schema[statement.table].key IN
    IF key \subseteq DOMAIN given THEN given ELSE given @@ [c \in key |-> ToString(number)]
InsertOrIgnore(table, statement, row) ==
    LET new == RowOf(statement, row, Len(table) + 1) IN
    IF \E i \in DOMAIN table : \A c \in Schema[statement.table].key : table[i][c] = new[c]
    THEN table ELSE Append(table, new)
ExecuteSql(db, statement) ==
    [db EXCEPT ![statement.table] =
        FoldLeft(LAMBDA table, row : InsertOrIgnore(table, statement, row), @, statement.rows)]
ExecuteAll(statements) == FoldLeft(ExecuteSql, EmptyTables, statements)
-----------------------------------------------------------------------------
\* The SELECTs, their placeholders in the order of the text.
GET_STATS_BY_SITE_AND_PLAYER_NAME == <<"?playerName", "?siteName">>
GET_PREFLOP_STATS_BY_SITE_AND_TABLE_NAME ==
    <<"?tableName", "?siteName", "?tableName", "?siteName", "?tableName", "?siteName", "?siteName">>
GET_MAX_SEATS_BY_SITE_AND_TABLE_NAME == <<"?tableName", "?siteName">>

\* SqlSelector: a setter replaces its placeholder everywhere, toString asserts
\* that no '?' is left.  "?" is a value that has one.
Marked == {"?siteName", "?tableName", "?playerName", "?"}
SetAll(query, hole, value) == [i \in DOMAIN query |-> IF query[i] = hole THEN value ELSE query[i]]
ToStringIsValid(query) == \A i \in DOMAIN query : query[i] \notin Marked

OfTable(query, site, table) == SetAll(SetAll(query, "?siteName", site), "?tableName", table)
OfPlayer(query, site, name) == SetAll(SetAll(query, "?siteName", site), "?playerName", name)

\* PreparedStatement: the rows of the answer, one at each execute; a NULL is 0, or
\* false, and an exception when it is read as a string.
Null == "NULL"
PreparedStatement(rows) == [rows |-> rows, at |-> 0]
HasRow(p) == p.at < Len(p.rows)
Step(p) == [p EXCEPT !.at = @ + 1]
GetColumnCount(p) == Len(p.rows[p.at])
GetColumnAsNumber(p, column) ==
    LET value == p.rows[p.at][column + 1] IN IF value = Null THEN "0" ELSE value
GetColumnAsBool(p, column) == GetColumnAsNumber(p, column) # "0"
GetColumnAsStringIsValid(p, column) == p.rows[p.at][column + 1] # Null
=============================================================================
