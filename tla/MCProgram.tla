----------------------------- MODULE MCProgram -----------------------------
(***************************************************************************)
(* Two launches of module Program, over a directory with a history and one *)
(* whose path is long, and the algorithms of HistoryFiles against their    *)
(* definitions, over every short name.                                     *)
(***************************************************************************)
EXTENDS Program

\* A name matches a pattern, word by word.
Glob(n, p) ==
    LET glob[i \in 1 .. Len(n) + 1, j \in 1 .. Len(p) + 1] ==
            CASE j > Len(p) -> i > Len(n)
              [] j <= Len(p) /\ p[j] = "*" -> glob[i, j + 1] \/ (i <= Len(n) /\ glob[i + 1, j])
              [] OTHER -> i <= Len(n) /\ n[i] = p[j] /\ glob[i + 1, j + 1]
    IN glob[1, 1]

Names == BoundedSeq({"a", "b"}, 4) \ {<<>>}
Patterns == BoundedSeq({"a", "b", "*"}, 4) \ {<<>>}

\* The only part of such a pattern follows a wildcard: it may stand anywhere.
HasLoneEnd(p) == p[1] = "*" /\ Last(p) # "*" /\ Len(splitPatternByWildcards(p)) = 1

ASSUME MatchIsGlob == \A n \in Names, p \in Patterns :
    IF HasLoneEnd(p) THEN Glob(n, p) => matchesPattern(n, p) ELSE Glob(n, p) <=> matchesPattern(n, p)
-----------------------------------------------------------------------------
Wichita == <<"Wichita", " ", "05">>
Stem(middle) == <<"20150312", "_">> \o Wichita \o middle
CashGame == Stem(<<"_", "real", "_", "holdem", "_", "no-limit">>)
PlayMoney == Stem(<<"_", "play", "_", "holdem", "_", "no-limit">>)
Summary == CashGame \o <<"_", "summary">>

ASSUME TableNames ==
    /\ isPokerTable(<<"Winamax", " ">> \o Wichita) /\ ~isPokerTable(Wichita) /\ ~isPokerTable(<<"Winamax">>)
    /\ getTableNameFromTableWindowTitle(<<"Winamax", " ">> \o Wichita) = Wichita
    /\ getTableNameFromTableWindowTitle(Wichita \o <<" ", "/", " ", "NL">>) = Wichita
    /\ getTableNameFromTableWindowTitle(Wichita \o <<"#", "0", " ", "/", " ", "NL">>) = Wichita

\* With real money the name of the game ends before '_real_'.
ASSUME GameNames ==
    /\ parseFileStem(CashGame) = [isRealMoney |-> TRUE, gameName |-> Wichita, variant |-> "holdem", limit |-> "noLimit"]
    /\ ~parseFileStem(PlayMoney).isRealMoney /\ IsPrefix(Wichita, parseFileStem(PlayMoney).gameName)
-----------------------------------------------------------------------------
Entry(name, time) == [name |-> name, kind |-> "file", time |-> time]
Positions == Entry(<<"winamax_positioning_file", ".dat">>, 1)
Game == Entry(CashGame \o <<".txt">>, 2)
End1 == Entry(Summary \o <<".txt">>, 2)
Folder == [name |-> <<"folder">>, kind |-> "directory", time |-> 1]

Played == {Positions, Game, End1}
Nested == {Positions, Folder}

MCDirs == {"", "d", "long"}
MCContents == {NotFound, NoDir, Nested, Played}
MCDisks == {[e \in MCDirs |-> IF e = "" THEN NoDir ELSE Played],
            [e \in MCDirs |-> IF e = "d" THEN Nested ELSE NotFound]}
MCArguments == {<<"phud">>, <<"phud", "-d", "d">>, <<"phud", "-l", "info">>, <<"phud", "-h">>}
MCToolArguments == {<<"dbgen">>, <<"dbgen", "-b", "phud.db", "-d", "d">>}
MCConfigs == {<<Property("logging.level", "info"), Property("history.directory", "d")>>, <<NoEqual>>}
MCTitles == {<<"Winamax", " ">> \o Wichita}
=============================================================================
