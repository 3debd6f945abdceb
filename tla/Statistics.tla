----------------------------- MODULE Statistics -----------------------------
(***************************************************************************)
(* The statistics that db/Database.cpp reads with the queries of           *)
(* db/sqlQueries.hpp.  The rows are a record:                              *)
(*   hand        the ids of the rows of Hand, in the order of startDate    *)
(*   handPlayer  those whose rows of HandPlayer are there                  *)
(*   action      of each id, how many times its rows of Action were stored *)
(*   player      the names in Player                                       *)
(*   isHero      those that were stored as heroes                          *)
(*   lost        no row: the hands that no save has stored to the last     *)
(*               statement since one of their game failed                  *)
(* and what the row of a hand says is in the hand: its tableName, the      *)
(* player of each seat, and the preflop actions in their order.            *)
(***************************************************************************)
EXTENDS Position, SequencesExt, FiniteSets, FiniteSetsExt

CONSTANTS NoPlayer  \* an empty seat

Voluntary == {"call", "bet", "raise"}

SeatOf(hand, name) == CHOOSE seat \in DOMAIN hand.seats : hand.seats[seat] = name
PlayersAt(hand) == Range(hand.seats) \ {NoPlayer}

\* The hand of the table with the latest startDate, if any.
TableHands(rows, hands, table) == {id \in rows.hand : hands[id].tableName = table}
LastHand(rows, hands, table) == LET ids == TableHands(rows, hands, table) IN
                                IF ids = {} THEN {} ELSE {Max(ids)}

\* GET_MAX_SEATS_BY_SITE_AND_TABLE_NAME and getTableMaxSeat.
GetTableMaxSeat(rows, hands, table) ==
    LET last == LastHand(rows, hands, table) IN
    IF last = {} THEN SeatUnknown ELSE Len(hands[CHOOSE id \in last : TRUE].seats)

Percent(part, whole) == (100 * part) \div whole

\* The rows of Action of a player in a hand, of one of the types.
PreflopTypes == Voluntary \cup {"fold", "check"}
NbActions(rows, hands, id, name, types) ==
    LET preflop == hands[id].preflop IN
    rows.action[id] * Cardinality({i \in DOMAIN preflop : preflop[i].player = name /\ preflop[i].type \in types})

PlayerStatistics(name, seat, isHero, vpip, pfr, nbHands) ==
    [player |-> name, seat |-> seat, isHero |-> isHero, vpip |-> vpip, pfr |-> pfr,
     nbHands |-> nbHands]

PlayerHands(rows, hands, table, name) ==
    {id \in TableHands(rows, hands, table) \cap rows.handPlayer : name \in PlayersAt(hands[id])}

\* Mutant of TableRow: the rows of the join are counted, not the hands.
TableRowOfJoin(rows, hands, table, last, name) ==
    LET all == PlayerHands(rows, hands, table, name)
        Nb(types) == MapThenSumSet(LAMBDA id : NbActions(rows, hands, id, name, types), all)
        joined == MapThenSumSet(LAMBDA id : Max({1, NbActions(rows, hands, id, name, PreflopTypes)}), all)
    IN PlayerStatistics(name, SeatOf(hands[last], name), name \in rows.isHero,
                        Percent(Nb(Voluntary), joined), Percent(Nb({"raise"}), joined), joined)

\* GET_PREFLOP_STATS_BY_SITE_AND_TABLE_NAME: one row for each player of the last
\* hand; the hands of that player at the table are counted once, however many rows
\* the join has for them.
TableRow(rows, hands, table, last, name) ==
    LET all == PlayerHands(rows, hands, table, name)
        Nb(types) == Cardinality({id \in all : NbActions(rows, hands, id, name, types) > 0})
    IN PlayerStatistics(name, SeatOf(hands[last], name), name \in rows.isHero,
                        Percent(Nb(Voluntary), Cardinality(all)),
                        Percent(Nb({"raise"}), Cardinality(all)), Cardinality(all))

\* readTableStatisticsQuery: the rows, at the index of their seat.
ReadTableRows(rows, hands, table) ==
    UNION {{TableRow(rows, hands, table, last, name) : name \in PlayersAt(hands[last]) \cap rows.player} :
             last \in LastHand(rows, hands, table) \cap rows.handPlayer}

\* GET_STATS_BY_SITE_AND_PLAYER_NAME: the rows of Action are counted.  Without one,
\* the aggregates are one row all the same, NULL or 0.
ReadPlayerStatistics(rows, hands, name) ==
    LET Count(types) == MapThenSumSet(LAMBDA id : NbActions(rows, hands, id, name, types),
                                      DOMAIN rows.action)
        nb == IF name \in rows.player THEN Count(PreflopTypes) ELSE 0 IN
    PlayerStatistics(name, SeatUnknown, nb > 0 /\ name \in rows.isHero,
                     IF nb = 0 THEN 0 ELSE Percent(Count(Voluntary), nb),
                     IF nb = 0 THEN 0 ELSE Percent(Count({"raise"}), nb), nb)

\* TableStatistics: the seats of the table, and the first one with a hero.
Seats(stats) == IF stats.maxSeats \in 1 .. SeatTen THEN 1 .. stats.maxSeats ELSE {}
GetHeroSeat(stats) == LET heroes == {row.seat : row \in {r \in stats.rows : r.isHero}} IN
                      IF heroes = {} THEN SeatUnknown ELSE Min(heroes)
IsValid(stats) == stats.maxSeats # SeatUnknown
=============================================================================
