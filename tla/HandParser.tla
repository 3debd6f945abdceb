----------------------------- MODULE HandParser -----------------------------
(***************************************************************************)
(* The parsers of Winamax history files: history/WinamaxGameHistory.cpp,   *)
(* WinamaxHandBuilder.cpp and PokerSiteHandBuilder.cpp read the lines that *)
(* filesystem/TextFile.cpp gives them and build the games of               *)
(* entities/.  The parsers of one import run on threads of the pool and    *)
(* share a PlayerCache; WinamaxHistory::load merges what they built.       *)
(*                                                                         *)
(* A line is a record: what makes the parser recognise it, and whom it is  *)
(* about.  A file is written while it is read: it may be cut after any     *)
(* line, before or after the end of that line, or hold a last line that    *)
(* nothing recognises.  Amounts, cards and dates are left out.             *)
(***************************************************************************)
EXTENDS Naturals, Sequences, SequencesExt, FiniteSets

CONSTANTS Parsers,  \* the pool threads, one file each
          Live,     \* the one whose file Winamax may still be writing
          Players,  \* the names of players
          Spaced,   \* those that hold a space
          Scripts,  \* the hands that were played
          MaxHands, \* bound on the hands of two files
          None      \* no player

ActionTypes == {"folds", "checks", "calls", "bets", "raises"}
ActionTokens == ActionTypes \cup {"shows"}
MaxSeats == 10
Headers == <<"preflop", "flop", "turn", "river">>

ASSUME LiveAssumption == Live \in Parsers
ASSUME PlayersAssumption == Spaced \subseteq Players /\ None \notin Players
ASSUME HandsAssumption == MaxHands \in Nat \ {0}
\* A hand has players, who act, show and win; one of them is the hero, if any; the
\* lines of its winners are not more than the seats of a table can be.
ASSUME ScriptsAssumption == \A script \in Scripts :
    LET seated == Range(script.seats) IN
    /\ script.seats \in Seq(Players) \ {<<>>} /\ script.denies \in Seq(Players)
    /\ script.dealt \in Seq(seated) /\ Len(script.dealt) <= 1
    /\ script.streets \in Seq(Seq([type : ActionTypes, player : seated]))
    /\ Len(script.streets) <= Len(Headers)
    /\ script.shows \in Seq(seated)
    /\ script.collected \in Seq(seated) /\ Len(script.collected) \in 1 .. MaxSeats

VARIABLES file,         \* of each parser: the file it reads
          pc,           \* what it does next
          at,           \* the index of m_line, one more than the last line at the end
          m_seats, added, actions, street, winners, \* the hand under construction
          games,        \* the hands of its game
          m_players,    \* the names in the cache that the parsers share
          isHero,       \* those on which setIsHero was called
          merged,       \* the Site of the import: hands, players and heroes
          aborted       \* an assertion ended the program

builder == <<m_seats, added, actions, street, winners>>
cache == <<m_players, isHero>>
vars == <<file, pc, at, builder, games, cache, merged, aborted>>
-----------------------------------------------------------------------------
(* The text of a hand, as Winamax writes it.                               *)
Line(k) == [kind |-> k, player |-> None]
Lines(k, names) == [i \in DOMAIN names |-> [kind |-> k, player |-> names[i]]]
Played(script, i) == [j \in DOMAIN script.streets[i] |-> [kind |-> script.streets[i][j].type,
                                                           player |-> script.streets[i][j].player]]
Street(script, i) == IF i \in DOMAIN script.streets THEN <<Line(Headers[i])>> \o Played(script, i)
                     ELSE <<>>
Shown(script) == IF script.shows = <<>> THEN <<>>
                    ELSE <<Line("showdown")>> \o Lines("shows", script.shows)
Opening(script) ==
    <<Line("start"), Line("table")>> \o Lines("seat", script.seats) \o <<Line("blinds")>>
      \o Lines("denies", script.denies) \o Lines("posts", script.seats)
      \o Lines("dealt", script.dealt)
Betting(script) == Street(script, 1) \o Street(script, 2) \o Street(script, 3)
                     \o Street(script, 4) \o Shown(script)
Closing(script) ==
    Lines("collected", script.collected) \o <<Line("summary")>>
      \o (IF Len(script.streets) > 1 THEN <<Line("board")>> ELSE <<>>)
      \o Lines("seat", script.collected) \o <<Line(""), Line("")>>
Text(script) == Opening(script) \o Betting(script) \o Closing(script)

\* The text of the first n hands.
TextUpTo(scripts) == LET text[n \in 0 .. Len(scripts)] ==
                             IF n = 0 THEN <<>> ELSE text[n - 1] \o Text(scripts[n])
                     IN text
TextOf(scripts) == TextUpTo(scripts)[Len(scripts)]
\* The lines that come before the one that starts hand k.
Start(scripts, k) == Len(TextUpTo(scripts)[k - 1])

\* A file, cut after n lines, or whole: ended tells if its last line is; a last
\* line cut in its middle is not recognised.
Cut(s, n, end) == LET lines == SubSeq(TextOf(s), 1, n) IN
    [stem |-> "game", scripts |-> s, ended |-> end = "newline",
     whole |-> end = "newline" /\ n = Len(TextOf(s)),
     lines |-> IF end = "garbled" THEN [lines EXCEPT ![n] = Line("garbled")] ELSE lines]
\* A file with nothing in it yet, or one whose name is too short, has a '!' (the
\* file is the double of another one), or is neither of real nor of play money.
NoHand(stem) == [stem |-> stem, scripts |-> <<>>, ended |-> TRUE, whole |-> TRUE, lines |-> <<>>]

CutFiles(s) == {Cut(s, n, end) : n \in Start(s, Len(s)) + 1 .. Len(TextOf(s)),
                                 end \in {"newline", "none", "garbled"}}
Files == (UNION {CutFiles(s) : s \in BoundedSeq(Scripts, MaxHands) \ {<<>>}})
           \cup {NoHand(stem) : stem \in {"game", "short", "duplicate", "unknown"}}

\* TextFile: the line at index i.  Past the end, std::getline empties m_line if
\* the last line was ended, and leaves it as it is if not.
LineAt(f, i) == IF i <= Len(f.lines) THEN f.lines[i]
                ELSE IF f.ended THEN Line("") ELSE Last(f.lines)

\* Mutant of NextIndex: a line is counted past the end too.
NextIndexPastEnd(f, i) == i + 1

\* TextFile::next at line i.
NextIndex(f, i) == IF i <= Len(f.lines) THEN i + 1 ELSE i

\* Where a loop on tf.next() that starts at line i stops: nowhere, or at the
\* first line with one of the kinds (without one of them, for Skip).
Reach(f, i, kinds) == {j \in i .. Len(f.lines) + 1 : /\ LineAt(f, j).kind \in kinds
                                              /\ \A k \in i .. j - 1 : LineAt(f, k).kind \notin kinds}
Skip(f, i, kinds) == {j \in i .. Len(f.lines) + 1 : /\ LineAt(f, j).kind \notin kinds
                                             /\ \A k \in i .. j - 1 : LineAt(f, k).kind \in kinds}
Between(f, i, j) == [k \in 1 .. j - i |-> LineAt(f, i + k - 1)]
Names(lines) == [i \in DOMAIN lines |-> lines[i].player]
-----------------------------------------------------------------------------
\* parseStreet: what the line before the actions says.
StreetOf(line) == CASE line.kind \in {"preflop", "flop", "turn", "river"} -> line.kind
                    [] line.kind = "showdown" -> "river"
                    [] OTHER -> "none"

\* parseActions: the index is that of the action on its street; nothing is done
\* for " shows ".
ActionsIn(lines, st) ==
    LET acts[n \in 0 .. Len(lines)] ==
          IF n = 0 THEN <<>>
          ELSE IF lines[n].kind \in ActionTypes
          THEN Append(acts[n - 1], [player |-> lines[n].player, street |-> st,
                                    type |-> lines[n].kind, index |-> Len(acts[n - 1])])
          ELSE acts[n - 1]
    IN acts[Len(lines)]

\* createActionForWinnersWithoutAction, and what parseActionsAndWinners does with it.
WithWinners(acts, names, st) ==
    LET all[n \in 0 .. Len(names)] ==
          IF n = 0 THEN acts
          ELSE IF \A i \in DOMAIN acts : acts[i].player # names[n]
          THEN Append(all[n - 1], [player |-> names[n], street |-> st, type |-> "none",
                                   index |-> Len(all[n - 1])])
          ELSE all[n - 1]
    IN all[Len(names)]
-----------------------------------------------------------------------------
Init == /\ file \in [Parsers -> Files]
        /\ \A p \in Parsers \ {Live} : file[p].whole
        /\ \A p, q \in Parsers : p # q => Len(file[p].scripts) + Len(file[q].scripts) <= MaxHands
        /\ pc = [p \in Parsers |-> "open"] /\ at = [p \in Parsers |-> 0]
        /\ m_seats = [p \in Parsers |-> <<>>] /\ added = [p \in Parsers |-> 0]
        /\ actions = [p \in Parsers |-> <<>>] /\ street = [p \in Parsers |-> "none"]
        /\ winners = [p \in Parsers |-> <<>>] /\ games = [p \in Parsers |-> <<>>]
        /\ m_players = {} /\ isHero = {}
        /\ merged = [hands |-> {}, players |-> {}, heroes |-> {}]
        /\ aborted = FALSE

\* Mutant of AddIfMissing: a new Player replaces the one of the cache.
AddAlways(name) == m_players' = m_players \cup {name} /\ isHero' = isHero \ {name}

\* PlayerCache: each operation holds the mutex.
AddIfMissing(name) == m_players' = m_players \cup {name} /\ UNCHANGED isHero
SetIsHero(name) == isHero' = isHero \cup {name} /\ UNCHANGED m_players
ExtractPlayers == m_players' = {} /\ isHero' = {}

At(p, step) == ~aborted /\ pc[p] = step
Goto(p, step) == pc' = [pc EXCEPT ![p] = step]

\* parseGameHistory: the name decides if there is a game to read.
IsGame(f) == f.stem = "game"

\* handleGame: the Site is empty when there is none.
Open(p) == /\ At(p, "open")
           /\ Goto(p, IF IsGame(file[p]) THEN "next" ELSE "done")
           /\ UNCHANGED <<file, at, builder, games, cache, merged, aborted>>

\* createGame: while (tfl.next()) ...
NextHand(p) == /\ At(p, "next")
               /\ at' = [at EXCEPT ![p] = NextIndex(file[p], @)]
               /\ Goto(p, IF at[p] < Len(file[p].lines) THEN "start" ELSE "done")
               /\ UNCHANGED <<file, builder, games, cache, merged, aborted>>

\* parseStartOfWinamaxPokerLine throws when it is not given the start of a hand.
StartLine(p) == /\ At(p, "start")
                /\ IF LineAt(file[p], at[p]).kind = "start"
                   THEN /\ Goto(p, "table")
                        /\ at' = [at EXCEPT ![p] = NextIndex(file[p], @)]
                   ELSE Goto(p, "threw") /\ UNCHANGED at
                /\ UNCHANGED <<file, builder, games, cache, merged, aborted>>

\* getNbMaxSeatsTableNameButtonSeatFromTableLine: an empty line throws; another
\* one has no seat, which is an assertion, or a throw in a build without them.
TableLine(p) == LET kind == LineAt(file[p], at[p]).kind IN
    /\ At(p, "table")
    /\ \/ /\ kind = "table" /\ Goto(p, "seats")
          /\ at' = [at EXCEPT ![p] = NextIndex(file[p], @)]
          /\ UNCHANGED aborted
       \/ kind # "table" /\ Goto(p, "threw") /\ UNCHANGED <<at, aborted>>
       \/ kind \notin {"table", ""} /\ aborted' = TRUE /\ UNCHANGED <<at, pc>>
    /\ UNCHANGED <<file, builder, games, cache, merged>>

\* parseSeats: the lines of the seats, then whatever comes before the blinds.
Seats(p) == /\ At(p, "seats")
            /\ \E i \in Skip(file[p], at[p], {"seat"}) : \E j \in Reach(file[p], i, {"posts"}) :
                 /\ at' = [at EXCEPT ![p] = j]
                 /\ m_seats' = [m_seats EXCEPT ![p] = Names(Between(file[p], at[p], i))]
            /\ added' = [added EXCEPT ![p] = 0] /\ Goto(p, "players")
            /\ UNCHANGED <<file, actions, street, winners, games, cache, merged, aborted>>

\* getHand: the players of the seats, one after the other.
AddPlayer(p) == /\ At(p, "players") /\ added[p] < Len(m_seats[p])
                /\ added' = [added EXCEPT ![p] = @ + 1]
                /\ AddIfMissing(m_seats[p][added[p] + 1])
                /\ UNCHANGED <<file, pc, at, m_seats, actions, street, winners, games, merged, aborted>>

\* Mutant of Ante: the hero is looked for before the players are added.
AnteFirst(p) == /\ At(p, "players")
                /\ \E j \in Skip(file[p], at[p], {"posts"}) : at' = [at EXCEPT ![p] = j]
                /\ Goto(p, "hero")
                /\ UNCHANGED <<file, builder, games, cache, merged, aborted>>

\* parseAnte skips the blinds.
Ante(p) == /\ At(p, "players") /\ added[p] = Len(m_seats[p])
           /\ \E j \in Skip(file[p], at[p], {"posts"}) : at' = [at EXCEPT ![p] = j]
           /\ Goto(p, "hero")
           /\ UNCHANGED <<file, builder, games, cache, merged, aborted>>

\* parseHeroCards takes the name of the hero up to its first space, and
\* PlayerCache::setIsHero asserts that it knows it (and dereferences the end of a
\* map in a build without assertions).
Hero(p) == LET line == LineAt(file[p], at[p]) IN
    /\ At(p, "hero")
    /\ \/ /\ line.kind # "dealt"
          /\ UNCHANGED <<at, cache, aborted>>
       \/ /\ line.kind = "dealt" /\ line.player \in m_players \ Spaced
          /\ at' = [at EXCEPT ![p] = NextIndex(file[p], @)]
          /\ SetIsHero(line.player)
          /\ UNCHANGED aborted
       \/ /\ line.kind = "dealt" /\ line.player \notin m_players \ Spaced
          /\ aborted' = TRUE
          /\ UNCHANGED <<at, cache>>
    /\ actions' = [actions EXCEPT ![p] = <<>>] /\ street' = [street EXCEPT ![p] = "none"]
    /\ Goto(p, "streets")
    /\ UNCHANGED <<file, m_seats, added, winners, games, merged>>

\* Mutant of StreetActions: the end of the file ends the loop as well.
StreetActionsToEnd(p) ==
    /\ At(p, "streets") /\ LineAt(file[p], at[p]).kind # "collected"
    /\ \E j \in Skip(file[p], NextIndex(file[p], at[p]), ActionTokens) :
         LET st == StreetOf(LineAt(file[p], at[p])) IN
         /\ at' = [at EXCEPT ![p] = j]
         /\ street' = [street EXCEPT ![p] = st]
         /\ actions' = [actions EXCEPT ![p] =
                          @ \o ActionsIn(Between(file[p], NextIndex(file[p], at[p]), j), st)]
         /\ Goto(p, IF j > Len(file[p].lines) THEN "winners" ELSE "streets")
    /\ UNCHANGED <<file, m_seats, added, winners, games, cache, merged, aborted>>

\* parseActionsAndWinners, one turn of its loop: a street and its actions.
StreetActions(p) ==
    /\ At(p, "streets") /\ LineAt(file[p], at[p]).kind # "collected"
    /\ \E j \in Skip(file[p], NextIndex(file[p], at[p]), ActionTokens) :
         LET st == StreetOf(LineAt(file[p], at[p])) IN
         /\ at' = [at EXCEPT ![p] = j]
         /\ street' = [street EXCEPT ![p] = st]
         /\ actions' = [actions EXCEPT ![p] =
                          @ \o ActionsIn(Between(file[p], NextIndex(file[p], at[p]), j), st)]
    /\ UNCHANGED <<file, pc, m_seats, added, winners, games, cache, merged, aborted>>

\* parseWinners: at most a line for each seat of a table.
Winners(p) == /\ \/ At(p, "streets") /\ LineAt(file[p], at[p]).kind = "collected"
                 \/ At(p, "winners")
              /\ \E j \in at[p] .. at[p] + MaxSeats :
                   /\ \/ j \in Skip(file[p], at[p], {"collected"})
                      \/ j = at[p] + MaxSeats
                   /\ \A k \in at[p] .. j - 1 : LineAt(file[p], k).kind = "collected"
                   /\ at' = [at EXCEPT ![p] = IF j > Len(file[p].lines) THEN Len(file[p].lines) + 1 ELSE j]
                   /\ LET names == Names(Between(file[p], at[p], j)) IN
                      /\ winners' = [winners EXCEPT ![p] = names]
                      /\ actions' = [actions EXCEPT ![p] = WithWinners(@, names, street[p])]
              /\ Goto(p, "board")
              /\ UNCHANGED <<file, m_seats, added, street, games, cache, merged, aborted>>

Hand(p, board) == [seats |-> m_seats[p], actions |-> actions[p], winners |-> winners[p],
                   hasBoard |-> board]

\* createGame: the first hand of a file makes its game, each one is added to it.
AddHand(p, hand) == games' = [games EXCEPT ![p] = Append(@, hand)]

HasBoard(p, j) == \E k \in at[p] .. j : LineAt(file[p], k).kind = "board"

\* Mutant of Board: the second empty line is left for the next hand.
BoardOneLine(p) ==
    /\ At(p, "board")
    /\ \E j \in Reach(file[p], at[p], {""}) :
         /\ at' = [at EXCEPT ![p] = j]
         /\ AddHand(p, Hand(p, HasBoard(p, j)))
    /\ Goto(p, "next")
    /\ UNCHANGED <<file, builder, cache, merged, aborted>>

\* parseBoardCards: up to the empty line, which a second one follows.
Board(p) == /\ At(p, "board")
            /\ \E j \in Reach(file[p], at[p], {""}) :
                 /\ at' = [at EXCEPT ![p] = NextIndex(file[p], j)]
                 /\ AddHand(p, Hand(p, HasBoard(p, j)))
            /\ Goto(p, "next")
            /\ UNCHANGED <<file, builder, cache, merged, aborted>>

\* Site::merge and Site::addPlayer: the games of the parsers that did not throw,
\* and the players of all of them.
Merge == merged' = [hands |-> UNION {Range(games[p]) : p \in {q \in Parsers : pc[q] = "done"}},
                    players |-> m_players, heroes |-> isHero]

\* Mutant of Extract: the first parser that ends takes the players.
ExtractEarly == /\ ~aborted /\ \E p \in Parsers : pc[p] \in {"done", "threw"}
                /\ m_players # {}
                /\ Merge /\ ExtractPlayers
                /\ UNCHANGED <<file, pc, at, builder, games, aborted>>

\* WinamaxHistory::load, when no parser has more to read: the games are merged,
\* and the players of the cache go with them.
Extract == /\ ~aborted /\ \A p \in Parsers : pc[p] \in {"done", "threw"}
           /\ m_players # {}
           /\ Merge /\ ExtractPlayers
           /\ UNCHANGED <<file, pc, at, builder, games, aborted>>

\* A loop that no line ends is a step that is not enabled, or changes nothing.
Parse(p) == \/ Open(p) \/ NextHand(p) \/ StartLine(p) \/ TableLine(p) \/ Seats(p)
            \/ AddPlayer(p) \/ Ante(p) \/ Hero(p) \/ StreetActions(p) \/ Winners(p) \/ Board(p)

Next == Extract \/ \E p \in Parsers : Parse(p)

Spec == Init /\ [][Next]_vars
\* The threads of the pool are scheduled.
FairSpec == Spec /\ WF_vars(Extract) /\ \A p \in Parsers : WF_vars(Parse(p))
-----------------------------------------------------------------------------
Steps == {"open", "next", "start", "table", "seats", "players", "hero", "streets", "winners",
          "board", "done", "threw"}
IsAction(a) == /\ a.player \in Players /\ a.type \in ActionTypes \cup {"none"} /\ a.index \in Nat
               /\ a.street \in Range(Headers) \cup {"none"}
TypeOK == /\ pc \in [Parsers -> Steps]
          /\ \A p \in Parsers : /\ at[p] \in 0 .. Len(file[p].lines) + 1
                               /\ Range(m_seats[p]) \cup Range(winners[p]) \subseteq Players
                               /\ added[p] \in 0 .. Len(m_seats[p])
                               /\ \A a \in Range(actions[p]) : IsAction(a)
                               /\ street[p] \in Range(Headers) \cup {"none"}
                               /\ Len(games[p]) <= MaxHands
          /\ m_players \subseteq Players /\ isHero \subseteq m_players
          /\ merged.heroes \subseteq merged.players /\ merged.players \subseteq Players
          /\ aborted \in BOOLEAN

\* What a hand is worth, from the hand itself: each action with its street and
\* its place on that street.
OnStreet(script, i) == IF i \in DOMAIN script.streets
    THEN [j \in DOMAIN script.streets[i] |->
            [player |-> script.streets[i][j].player, street |-> Headers[i],
             type |-> script.streets[i][j].type, index |-> j - 1]]
    ELSE <<>>
ActionsOf(script) == OnStreet(script, 1) \o OnStreet(script, 2) \o OnStreet(script, 3)
                       \o OnStreet(script, 4)

PlayersOf(hand) == Range(hand.seats) \cup Range(hand.winners) \cup {a.player : a \in Range(hand.actions)}

\* A hand that is kept has every action of the hand that was played, in order, on
\* its street; each of its winners has an action; and nothing else was added,
\* wherever the file was cut.  The winners and the board are all there if the file
\* was whole (WinamaxHandBuilder.cpp:246-345).
HandsAreRead == \A p \in Parsers : \A i \in DOMAIN games[p] :
    LET hand == games[p][i]
        script == file[p].scripts[i]
        played == ActionsOf(script) IN
    /\ hand.seats = script.seats
    /\ IsPrefix(played, hand.actions)
    /\ \A j \in Len(played) + 1 .. Len(hand.actions) : hand.actions[j].type = "none"
    /\ \A w \in Range(hand.winners) : \E a \in Range(hand.actions) : a.player = w
    /\ IsPrefix(hand.winners, script.collected)
    /\ file[p].whole => /\ hand.winners = script.collected
                            /\ hand.hasBoard = (Len(script.streets) > 1)

\* The players of a hand are in the cache until they go to the Site of the import
\* with it: the rows of the hand refer to theirs (WinamaxGameHistory.cpp:152-170,
\* WinamaxHistory.cpp:208-211).
PlayersOfHandsAreKnown == \A p \in Parsers : \A i \in DOMAIN games[p] :
    PlayersOf(games[p][i]) \subseteq m_players \cup merged.players

\* A player who was dealt cards in a hand stays the hero, whatever the other
\* parsers add to the cache (PlayerCache.cpp:23-40).
HeroesAreKept == \A p \in Parsers : \A i \in DOMAIN games[p] :
    Range(file[p].scripts[i].dealt) \subseteq isHero \cup merged.heroes

\* "Setting hero on a bad player" (PlayerCache.cpp:26): no parser does it, unless
\* the name of the hero holds a space; no other assertion fails on whole files.
AbortsHaveCause == aborted => \E p \in Parsers :
    \/ ~file[p].whole
    \/ \E script \in Range(file[p].scripts) : Range(script.dealt) \cap Spaced # {}

\* A whole file is read to its last hand, whatever the other parsers meet; the
\* endless loops need a file that was cut (PokerSiteHandBuilder.cpp:22-24,
\* WinamaxHandBuilder.cpp:143-153, 336-340).
CompleteFilesAreRead == \A p \in Parsers :
    file[p].whole ~> aborted \/ (pc[p] = "done" /\ Len(games[p]) = Len(file[p].scripts))
=============================================================================
