---------------------------- MODULE HistoryFiles ----------------------------
(***************************************************************************)
(* The files of a history directory: filesystem/FileUtils.cpp lists them   *)
(* and matches their names, history/WinamaxHistory.cpp decides whether a   *)
(* directory holds a history and which file belongs to the window of a     *)
(* table, history/WinamaxGameHistory.cpp reads what the name of a file     *)
(* says of the game.  Operators only; MCProgram compares matchesPattern    *)
(* with its definition over all short names.                               *)
(*                                                                         *)
(* A name is a sequence of words: <<"20150312", "_", "Wichita", " ", "05", *)
(* "_", "real", "_", "holdem", "_", "no-limit", ".txt">>.  An entry of a   *)
(* directory has a name, a kind and the time of its last change; the       *)
(* directory 'history' is the set of its entries, or NoDir.                *)
(***************************************************************************)
EXTENDS Naturals, Sequences, FiniteSets, SequencesExt

CONSTANTS NoDir, NotFound
ASSUME NoDirAssumption == NoDir # NotFound
-----------------------------------------------------------------------------
\* std::string_view::find from a position: the first occurrence, 0 if none.
Occurs(t, i, s) == i + Len(t) - 1 <= Len(s) /\ SubSeq(s, i, i + Len(t) - 1) = t
Find(s, t, from) == LET at == {i \in from .. Len(s) : Occurs(t, i, s)}
                    IN IF at = {} THEN 0 ELSE CHOOSE i \in at : \A j \in at : i <= j
HasPart(s, t) == Find(s, t, 1) # 0

From(s, i) == SubSeq(s, i, Len(s))

\* The longest runs of the pattern without a wildcard, in order.
Literal(p, i) == i \in 1 .. Len(p) /\ p[i] # "*"
splitPatternByWildcards(p) ==
    LET starts == {i \in 1 .. Len(p) : Literal(p, i) /\ ~Literal(p, i - 1)}
        last(i) == CHOOSE j \in i .. Len(p) : ~Literal(p, j + 1) /\ \A k \in i .. j : Literal(p, k)
        order == SetToSortSeq(starts, <)
    IN [k \in DOMAIN order |-> SubSeq(p, order[k], last(order[k]))]

\* matchPatternParts goes through the parts with the words of the name that are
\* left to read, or NotFound.  The last part must end the name when the pattern
\* does not end with a wildcard, unless it is the first part too.
ReadPart(rest, part) == LET i == Find(rest, part, 1)
                        IN IF i = 0 THEN NotFound ELSE From(rest, i + Len(part))
NextPart(rest, i, parts, p) ==
    CASE rest = NotFound -> NotFound
      [] i = 1 /\ p[1] # "*" -> IF IsPrefix(parts[1], rest) THEN From(rest, Len(parts[1]) + 1) ELSE NotFound
      [] i # 1 /\ i = Len(parts) /\ Last(p) # "*" -> IF IsSuffix(parts[i], rest) THEN <<>> ELSE NotFound
      [] OTHER -> ReadPart(rest, parts[i])
matchPatternParts(name, p, parts) ==
    FoldLeftDomain(LAMBDA rest, i : NextPart(rest, i, parts, p), name, parts) # NotFound

matchesPattern(name, p) ==
    LET parts == splitPatternByWildcards(p)
    IN IF Len(parts) = 1 /\ ~Contains(p, "*") THEN name = p ELSE matchPatternParts(name, p, parts)
-----------------------------------------------------------------------------
isFile(e) == e.kind = "file"

\* The listings; a directory that does not exist has no entry.
listFilesAndDirs(dir) == IF dir = NoDir THEN {} ELSE dir
listSubDirs(dir) == {e \in listFilesAndDirs(dir) : ~isFile(e)}
listTxtFilesInDir(dir) == {e \in listFilesAndDirs(dir) :
    /\ isFile(e) /\ IsSuffix(<<".txt">>, e.name) /\ ~IsSuffix(<<"_", "summary", ".txt">>, e.name)}
listFilesMatchingPattern(dir, p) ==
    {e \in listFilesAndDirs(dir) : isFile(e) /\ e.name # <<>> /\ matchesPattern(e.name, p)}

containsAFileEndingWith(files, end) == \E e \in files : IsSuffix(end, e.name)

\* WinamaxHistory: the files of 'history', unless it has a directory in it.
getHistoryFilesOrErrorMessage(dir) ==
    IF dir = NoDir \/ listSubDirs(dir) # {} \/ dir = {} THEN NotFound ELSE dir
isValidHistory(dir) == LET files == getHistoryFilesOrErrorMessage(dir) IN
    files # NotFound /\ containsAFileEndingWith(files, <<"winamax_positioning_file", ".dat">>)
getFiles(dir) == IF isValidHistory(dir) THEN listTxtFilesInDir(dir) ELSE {}
-----------------------------------------------------------------------------
\* TableWatcher: 'Winamax', a space, and one or two words.
isPokerTable(title) == /\ Len(title) > 2 /\ title[1] = "Winamax" /\ title[2] = " " /\ title[3] # " "
                       /\ Cardinality({i \in DOMAIN title : title[i] = " "}) \in {1, 2}

getTableNameFromTableWindowTitle(title) ==
    LET t == IF IsPrefix(<<"Winamax", " ">>, title) THEN From(title, 3) ELSE title
        end == IF HasPart(t, <<"#">>) THEN Find(t, <<"#">>, 1) ELSE Find(t, <<" ", "/", " ">>, 1)
    IN IF end = 0 THEN t ELSE SubSeq(t, 1, end - 1)

\* The file of the table that was changed last: the set of the possible answers.
tablePattern(title) ==
    <<"*", "_">> \o getTableNameFromTableWindowTitle(title) \o <<"_", "*", ".txt">>
getHistoryFileFromTableWindowTitle(dir, title) ==
    LET files == listFilesMatchingPattern(dir, tablePattern(title))
    IN IF files = {} THEN {NotFound} ELSE {f \in files : \A e \in files : e.time <= f.time}
-----------------------------------------------------------------------------
\* WinamaxGameHistory: what the stem of a history file says of its game.
fileStemToVariant(stem) == CASE HasPart(stem, <<"_", "holdem", "_">>) -> "holdem"
                             [] HasPart(stem, <<"_", "omaha", "_">>) -> "omaha"
                             [] HasPart(stem, <<"_", "omaha5", "_">>) -> "omaha5"
                             [] OTHER -> "none"
fileStemToLimit(stem) == CASE IsSuffix(<<"_", "pot-limit">>, stem) -> "potLimit"
                           [] IsSuffix(<<"_", "no-limit">>, stem) -> "noLimit"
                           [] OTHER -> "none"

\* A stem too short for a date and a game gives the values of an empty FileStem,
\* like one that tells neither real nor play money.  The name goes to "_real_":
\* with play money, to the end of the stem.
parseFileStem(stem) ==
    LET real == Find(stem, <<"_", "real", "_">>, 3)
    IN IF Len(stem) < 3 \/ (real = 0 /\ Find(stem, <<"_", "play", "_">>, 3) = 0)
       THEN [isRealMoney |-> FALSE, gameName |-> <<>>, variant |-> "none", limit |-> "none"]
       ELSE [isRealMoney |-> real # 0,
             gameName |-> IF real = 0 THEN From(stem, 3) ELSE SubSeq(stem, 3, real - 1),
             variant |-> fileStemToVariant(stem),
             limit |-> fileStemToLimit(stem)]
=============================================================================
