------------------------------ MODULE Entities ------------------------------
(***************************************************************************)
(* entities/*.cpp: what a history file is read into.  An entity is the     *)
(* record of the parameters of its constructor; the constructors assert    *)
(* their parameters, which ends a debug build and is not compiled          *)
(* otherwise (language/Validator.hpp): a predicate "...IsValid" is what the *)
(* constructor asserts.  Names, dates and cards are words, "" is an empty   *)
(* one; m_players, a map from the names, is a function.                     *)
(***************************************************************************)
EXTENDS Position, SequencesExt, TLC

\* The seats and their conversions: an index counts from 0, a seat from 1.
SeatWords == [seat \in 1 .. SeatTen |-> ToString(seat)]
FromStringIsValid(word) == \E seat \in DOMAIN SeatWords : SeatWords[seat] = word
FromString(word) == CHOOSE seat \in DOMAIN SeatWords : SeatWords[seat] = word
FromArrayIndexIsValid(i) == i \in 0 .. SeatTen - 1
FromArrayIndex(i) == i + 1
FromIntIsValid(i) == i \in 1 .. SeatTen
FromInt(i) == i

ActionIsValid(action) == /\ action.street # "none"
                         /\ action.handId # "" /\ action.playerName # ""
                         /\ action.betAmount >= 0

PlayerIsValid(player) == player.playerName # "" /\ player.siteName # ""

\* A hand: its columns, the players of its seats, its winners and its actions.
HandIsValid(hand) == /\ hand.columns.handId # ""
                     /\ hand.columns.siteName # ""
                     /\ hand.columns.tableName # ""
                     /\ hand.ante >= 0
IsPlayerInvolved(hand, name) == \E i \in DOMAIN hand.actions : hand.actions[i].playerName = name
IsWinner(hand, name) == name \in hand.winners

GameIsValid(game) == /\ game.gameId # "" /\ game.siteName # "" /\ game.gameName # ""
                     /\ game.nbMaxSeats # SeatUnknown
TournamentIsValid(game) == GameIsValid(game) /\ game.buyIn >= 0
CashGameIsValid(game) == GameIsValid(game) /\ game.smallBlind >= 0 /\ game.bigBlind >= 0

AddHand(game, hand) == [game EXCEPT !.hands = Append(@, hand)]
ViewHandsOf(game, name) == SelectSeq(game.hands, LAMBDA hand : IsPlayerInvolved(hand, name))

\* A Site: its players by name, its games in the order they were added.
NewSite(name) == [name |-> name, players |-> <<>>, cashGames |-> <<>>, tournaments |-> <<>>]

\* addPlayer: try_emplace keeps the player who is there.
AddPlayerIsValid(site, player) == player.siteName = site.name
AddPlayer(site, player) == [site EXCEPT !.players = @ @@ (player.playerName :> player)]

AddGameIsValid(site, game) == game.siteName = site.name
AddCashGame(site, game) == [site EXCEPT !.cashGames = Append(@, game)]
AddTournament(site, game) == [site EXCEPT !.tournaments = Append(@, game)]

\* viewPlayers: in any order, m_players is unordered.
ViewPlayers(site) == SetToSeq({site.players[name] : name \in DOMAIN site.players})

\* merge: the players and the games of another Site of the same name.
MergeIsValid(site, other) == other.name = site.name
Merge(site, other) == [site EXCEPT !.players = @ @@ other.players,
                                   !.cashGames = @ \o other.cashGames,
                                   !.tournaments = @ \o other.tournaments]
=============================================================================
