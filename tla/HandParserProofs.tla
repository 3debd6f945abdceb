--------------------------- MODULE HandParserProofs ---------------------------
(***************************************************************************)
(* Proofs about HandParser, for any scripts, parsers and number of hands.  *)
(***************************************************************************)
EXTENDS HandParser, WellFoundedInduction, TLAPS

\* Induction on the first natural numbers.
LEMMA Induction ==
    ASSUME NEW N \in Nat, NEW X \in SUBSET (0 .. N), 0 \in X,
           \A n \in 1 .. N : n - 1 \in X => n \in X
    PROVE  X = 0 .. N
<1> DEFINE R == {ss \in Nat \X Nat : ss[1] < ss[2]}
           S == (0 .. N) \ X
<1> SUFFICES ASSUME S # {} PROVE FALSE
  OBVIOUS
<1>1. IsWellFoundedOn(R, Nat)
  BY NatLessThanWellFounded DEF OpToRel
<1>2. PICK x \in S : \A y \in S : ~ (<<y, x>> \in R)
  <2>1. S \in SUBSET Nat
    OBVIOUS
  <2>. QED
    BY <1>1, <2>1, WFMin
<1>3. x \in 1 .. N /\ x - 1 \in 0 .. N /\ x - 1 \notin X
  OBVIOUS
<1>4. <<x - 1, x>> \in R
  <2>1. <<x - 1, x>> \in Nat \X Nat /\ <<x - 1, x>>[1] < <<x - 1, x>>[2]
    BY <1>3
  <2>. QED
    BY <2>1
<1>. QED
  BY <1>2, <1>3, <1>4

Recurs(f, N, S, e, F) == /\ f \in [0 .. N -> S] /\ f[0] = e
                         /\ \A n \in 1 .. N : f[n] = F[<<n, f[n - 1]>>]

\* A function that is defined by recursion on them exists.
LEMMA Recursion ==
    ASSUME NEW N \in Nat, NEW S, NEW e \in S, NEW F \in [(1 .. N) \X S -> S]
    PROVE  \E f : Recurs(f, N, S, e, F)
<1> DEFINE Until(f, k) == f[0] = e /\ \A n \in 1 .. k : f[n] = F[<<n, f[n - 1]>>]
           Has(k) == \E f \in [0 .. k -> S] : Until(f, k)
           X == {k \in 0 .. N : Has(k)}
<1>1. Has(0)
  <2> DEFINE z == [i \in 0 .. 0 |-> e]
  <2>1. z \in [0 .. 0 -> S] /\ Until(z, 0)
    OBVIOUS
  <2> HIDE DEF z, Until
  <2>. QED
    BY <2>1
<1>2. ASSUME NEW k \in 1 .. N, Has(k - 1) PROVE Has(k)
  <2>1. PICK f \in [0 .. k - 1 -> S] : Until(f, k - 1)
    BY <1>2
  <2> DEFINE new == F[<<k, f[k - 1]>>]
             g == [i \in 0 .. k |-> IF i = k THEN new ELSE f[i]]
  <2>2. new \in S
    OBVIOUS
  <2>3. g \in [0 .. k -> S] /\ g[k] = new /\ \A i \in 0 .. k - 1 : g[i] = f[i]
    BY <2>2
  <2> HIDE DEF g
  <2>4. ASSUME NEW n \in 1 .. k PROVE g[n] = F[<<n, g[n - 1]>>]
    <3>1. g[n - 1] = f[n - 1]
      BY <2>3
    <3>2. CASE n = k
      BY <2>3, <3>1, <3>2
    <3>3. CASE n # k
      <4>1. n \in 1 .. k - 1 /\ g[n] = f[n]
        BY <2>3, <3>3
      <4>2. f[n] = F[<<n, f[n - 1]>>]
        BY <2>1, <4>1
      <4>. QED
        BY <3>1, <4>1, <4>2
    <3>. QED
      BY <3>2, <3>3
  <2>5. g[0] = e
    BY <2>1, <2>3
  <2>6. Until(g, k)
    BY <2>4, <2>5
  <2> HIDE DEF Until
  <2>. QED
    BY <2>3, <2>6
<1> HIDE DEF Has
<1>3. 0 \in X /\ \A k \in 1 .. N : k - 1 \in X => k \in X
  BY <1>1, <1>2
<1>4. X \in SUBSET (0 .. N)
  OBVIOUS
<1> HIDE DEF X
<1>5. X = 0 .. N
  BY <1>3, <1>4, Induction
<1>6. N \in X
  BY <1>5
<1>7. Has(N)
  BY <1>6 DEF X
<1>. QED
  BY <1>7 DEF Has, Recurs
-----------------------------------------------------------------------------
(* The text of the files.                                                  *)
Kinds == {"start", "table", "seat", "blinds", "denies", "posts", "dealt", "preflop", "flop", "turn",
          "river", "folds", "checks", "calls", "bets", "raises", "showdown", "shows", "collected",
          "summary", "board", ""}
LineSet == [kind : Kinds, player : Players \cup {None}]

\* The lines of T that follow the first b ones start with those of s.
Holds(T, b, s) == b + Len(s) <= Len(T) /\ \A i \in 1 .. Len(s) : T[b + i] = s[i]

LEMMA SplitHolds ==
    ASSUME NEW S, NEW T \in Seq(S), NEW b \in Nat, NEW s \in Seq(S), NEW t \in Seq(S),
           Holds(T, b, s \o t)
    PROVE  Holds(T, b, s) /\ Holds(T, b + Len(s), t)
<1>1. Len(s \o t) = Len(s) + Len(t)
  OBVIOUS
<1>2. ASSUME NEW i \in 1 .. Len(s) PROVE T[b + i] = s[i]
  <2>1. i \in 1 .. Len(s \o t) /\ (s \o t)[i] = s[i]
    BY <1>1
  <2>. QED
    BY <2>1 DEF Holds
<1>3. ASSUME NEW i \in 1 .. Len(t) PROVE T[b + Len(s) + i] = t[i]
  <2>1. Len(s) + i \in 1 .. Len(s \o t) /\ (s \o t)[Len(s) + i] = t[i]
    BY <1>1
  <2>2. T[b + (Len(s) + i)] = (s \o t)[Len(s) + i]
    BY <2>1 DEF Holds
  <2>. QED
    BY <2>1, <2>2
<1>4. b + Len(s) + Len(t) <= Len(T)
  BY <1>1 DEF Holds
<1>. QED
  BY <1>2, <1>3, <1>4 DEF Holds

LEMMA HoldsMore ==
    ASSUME NEW S, NEW T \in Seq(S), NEW b \in Nat, NEW s \in Seq(S), NEW t \in Seq(S), Holds(T, b, s)
    PROVE  Holds(T \o t, b, s)
<1>1. Len(T \o t) = Len(T) + Len(t) /\ \A i \in 1 .. Len(T) : (T \o t)[i] = T[i]
  OBVIOUS
<1>2. \A i \in 1 .. Len(s) : b + i \in 1 .. Len(T)
  BY DEF Holds
<1>. QED
  BY <1>1, <1>2 DEF Holds

LEMMA HoldsLast ==
    ASSUME NEW S, NEW T \in Seq(S), NEW t \in Seq(S)
    PROVE  Holds(T \o t, Len(T), t)
BY DEF Holds

LEMMA ElementOf == ASSUME NEW S, NEW q \in Seq(S), NEW i \in 1 .. Len(q) PROVE q[i] \in S
OBVIOUS

LEMMA LenOf == ASSUME NEW S, NEW q \in Seq(S) PROVE Len(q) \in Nat /\ DOMAIN q = 1 .. Len(q)
OBVIOUS

LEMMA FunctionSeq == ASSUME NEW S, NEW n \in Nat, NEW q \in [1 .. n -> S]
                     PROVE  q \in Seq(S) /\ Len(q) = n
OBVIOUS

LEMMA Concat == ASSUME NEW S, NEW s \in Seq(S), NEW t \in Seq(S)
                PROVE  s \o t \in Seq(S) /\ Len(s \o t) = Len(s) + Len(t)
OBVIOUS

LEMMA OneElement == ASSUME NEW S, NEW x \in S
                    PROVE  <<x>> \in Seq(S) /\ Len(<<x>>) = 1 /\ <<x>>[1] = x
OBVIOUS

LEMMA TwoElements == ASSUME NEW S, NEW x \in S, NEW y \in S
                     PROVE  <<x, y>> \in Seq(S) /\ Len(<<x, y>>) = 2 /\ <<x, y>>[1] = x /\ <<x, y>>[2] = y
OBVIOUS

\* What the assumption on the scripts says of a hand.
LEMMA ScriptFacts ==
    ASSUME NEW h \in Scripts
    PROVE  /\ h.seats \in Seq(Players) /\ Len(h.seats) > 0 /\ h.denies \in Seq(Players)
           /\ Range(h.seats) \subseteq Players
           /\ h.dealt \in Seq(Range(h.seats)) /\ Len(h.dealt) <= 1
           /\ h.dealt \in Seq(Players)
           /\ h.streets \in Seq(Seq([type : ActionTypes, player : Range(h.seats)]))
           /\ Len(h.streets) <= 4
           /\ h.shows \in Seq(Range(h.seats)) /\ h.shows \in Seq(Players)
           /\ h.collected \in Seq(Range(h.seats)) /\ h.collected \in Seq(Players)
           /\ Len(h.collected) \in 1 .. MaxSeats
           /\ Len(h.seats) \in Nat /\ Len(h.denies) \in Nat /\ Len(h.dealt) \in Nat
           /\ Len(h.streets) \in Nat /\ Len(h.shows) \in Nat /\ Len(h.collected) \in Nat
           /\ DOMAIN h.streets = 1 .. Len(h.streets)
<1>1. /\ h.seats \in Seq(Players) \ {<<>>} /\ h.denies \in Seq(Players)
      /\ h.dealt \in Seq(Range(h.seats)) /\ Len(h.dealt) <= 1
      /\ h.streets \in Seq(Seq([type : ActionTypes, player : Range(h.seats)]))
      /\ Len(h.streets) <= Len(Headers)
      /\ h.shows \in Seq(Range(h.seats))
      /\ h.collected \in Seq(Range(h.seats)) /\ Len(h.collected) \in 1 .. MaxSeats
  BY ScriptsAssumption
<1>2. Range(h.seats) \subseteq Players
  BY <1>1 DEF Range
<1>3. Len(h.seats) > 0
  BY <1>1
<1>4. Len(Headers) = 4
  BY DEF Headers
<1>5. \A q : q \in Seq(Range(h.seats)) => q \in Seq(Players)
  BY <1>2
<1>6. /\ Len(h.seats) \in Nat /\ Len(h.denies) \in Nat /\ Len(h.dealt) \in Nat
      /\ Len(h.streets) \in Nat /\ Len(h.shows) \in Nat /\ Len(h.collected) \in Nat
      /\ DOMAIN h.streets = 1 .. Len(h.streets)
  BY <1>1, LenOf
<1>. QED
  BY <1>1, <1>2, <1>3, <1>4, <1>5, <1>6

LEMMA LinesType ==
    ASSUME NEW k \in Kinds, NEW names \in Seq(Players)
    PROVE  /\ Lines(k, names) \in Seq(LineSet) /\ Len(Lines(k, names)) = Len(names)
           /\ \A i \in 1 .. Len(names) : Lines(k, names)[i] = [kind |-> k, player |-> names[i]]
           /\ \A i \in 1 .. Len(Lines(k, names)) : Lines(k, names)[i].kind = k
<1>1. Lines(k, names) = [i \in 1 .. Len(names) |-> [kind |-> k, player |-> names[i]]]
  BY DEF Lines
<1>2. \A i \in 1 .. Len(names) : [kind |-> k, player |-> names[i]] \in LineSet
  BY DEF LineSet
<1>. QED
  BY <1>1, <1>2

LEMMA LineType == ASSUME NEW k \in Kinds
                  PROVE  Line(k) \in LineSet /\ <<Line(k)>> \in Seq(LineSet) /\ Line(k).kind = k
BY DEF Line, LineSet

LEMMA HeaderKinds ==
    ASSUME NEW h \in Scripts, NEW i \in 1 .. Len(h.streets)
    PROVE  i \in 1 .. 4 /\ Headers[i] \in {"preflop", "flop", "turn", "river"}
<1>1. Len(h.streets) <= 4 /\ Len(h.streets) \in Nat
  BY ScriptFacts, Zenon
<1>2. i \in 1 .. 4
  BY <1>1
<1>3. i = 1 \/ i = 2 \/ i = 3 \/ i = 4
  BY <1>2
<1>. QED
  BY <1>2, <1>3 DEF Headers

LEMMA EmptyLine == Line("").kind = ""
BY DEF Line

LEMMA PlayedFacts ==
    ASSUME NEW h \in Scripts, NEW i \in 1 .. Len(h.streets)
    PROVE  /\ Played(h, i) \in Seq(LineSet) /\ Len(Played(h, i)) = Len(h.streets[i])
           /\ \A j \in 1 .. Len(h.streets[i]) :
                /\ Played(h, i)[j].kind = h.streets[i][j].type
                /\ Played(h, i)[j].player = h.streets[i][j].player
                /\ h.streets[i][j].type \in ActionTypes
                /\ h.streets[i][j].player \in Range(h.seats)
<1> DEFINE acts == h.streets[i]
<1>1. acts \in Seq([type : ActionTypes, player : Range(h.seats)]) /\ Range(h.seats) \subseteq Players
  <2>1. /\ h.streets \in Seq(Seq([type : ActionTypes, player : Range(h.seats)]))
        /\ Range(h.seats) \subseteq Players
    BY ScriptFacts, Zenon
  <2>. QED
    BY <2>1, ElementOf
<1>2. Played(h, i) = [j \in 1 .. Len(acts) |-> [kind |-> acts[j].type, player |-> acts[j].player]]
  BY <1>1 DEF Played
<1> HIDE DEF acts
<1>3. \A j \in 1 .. Len(acts) : acts[j].type \in ActionTypes /\ acts[j].player \in Range(h.seats)
  <2>1. \A j \in 1 .. Len(acts) : acts[j] \in [type : ActionTypes, player : Range(h.seats)]
    BY <1>1, ElementOf
  <2>. QED
    BY <2>1
<1>4. ActionTypes \subseteq Kinds
  BY DEF ActionTypes, Kinds
<1>5. \A j \in 1 .. Len(acts) : [kind |-> acts[j].type, player |-> acts[j].player] \in LineSet
  BY <1>1, <1>3, <1>4 DEF LineSet
<1>6. Len(acts) \in Nat
  BY <1>1
<1>7. Played(h, i) \in Seq(LineSet) /\ Len(Played(h, i)) = Len(acts)
  BY <1>2, <1>5, <1>6
<1>8. \A j \in 1 .. Len(acts) : Played(h, i)[j].kind = acts[j].type /\ Played(h, i)[j].player = acts[j].player
  BY <1>2
<1>. QED
  BY <1>3, <1>7, <1>8 DEF acts

\* The betting rounds of a hand: its streets and its showdown.
Round(h, i) == IF i = 5 THEN Shown(h) ELSE Street(h, i)

LEMMA RoundTypes ==
    ASSUME NEW h \in Scripts, NEW i \in 1 .. 5
    PROVE  Round(h, i) \in Seq(LineSet)
<1>1. CASE i = 5
  <2>1. "shows" \in Kinds /\ "showdown" \in Kinds
    BY DEF Kinds
  <2>2. h.shows \in Seq(Players)
    BY ScriptFacts
  <2>3. Lines("shows", h.shows) \in Seq(LineSet) /\ <<Line("showdown")>> \in Seq(LineSet)
    BY <2>1, <2>2, LinesType, LineType
  <2>. QED
    BY <1>1, <2>3 DEF Round, Shown
<1>2. CASE i # 5 /\ i \in 1 .. Len(h.streets)
  <2>1. Headers[i] \in Kinds
    BY <1>2, HeaderKinds DEF Kinds
  <2>2. Played(h, i) \in Seq(LineSet) /\ <<Line(Headers[i])>> \in Seq(LineSet)
    BY <1>2, <2>1, PlayedFacts, LineType
  <2>. QED
    BY <1>2, <2>2 DEF Round, Street
<1>3. CASE i # 5 /\ i \notin 1 .. Len(h.streets)
  <2>1. DOMAIN h.streets = 1 .. Len(h.streets)
    BY ScriptFacts
  <2>. QED
    BY <1>3, <2>1 DEF Round, Street
<1>. QED
  BY <1>1, <1>2, <1>3

\* Where the lines of a hand are, when those of b come before it.
PostsAt(h, b) == b + 3 + Len(h.seats) + Len(h.denies)
DealtAt(h, b) == PostsAt(h, b) + Len(h.seats)
RoundAt(h, b, i) == DealtAt(h, b) + Len(h.dealt)
                      + (IF i > 1 THEN Len(Round(h, 1)) ELSE 0)
                      + (IF i > 2 THEN Len(Round(h, 2)) ELSE 0)
                      + (IF i > 3 THEN Len(Round(h, 3)) ELSE 0)
                      + (IF i > 4 THEN Len(Round(h, 4)) ELSE 0)
                      + (IF i > 5 THEN Len(Round(h, 5)) ELSE 0)
CollectedAt(h, b) == RoundAt(h, b, 6)
SummaryAt(h, b) == CollectedAt(h, b) + Len(h.collected)
EmptyAt(h, b) == SummaryAt(h, b) + 1 + (IF Len(h.streets) > 1 THEN 1 ELSE 0) + Len(h.collected)

SeatsLayout(T, h, b) ==
    /\ T[b + 1].kind = "start" /\ T[b + 2].kind = "table"
    /\ \A i \in 1 .. Len(h.seats) : T[b + 2 + i] = [kind |-> "seat", player |-> h.seats[i]]
    /\ T[b + 3 + Len(h.seats)].kind = "blinds"
    /\ \A i \in 1 .. Len(h.denies) : T[b + 3 + Len(h.seats) + i].kind = "denies"
    /\ \A i \in 1 .. Len(h.seats) : T[PostsAt(h, b) + i].kind = "posts"
    /\ \A i \in 1 .. Len(h.dealt) : T[DealtAt(h, b) + i] = [kind |-> "dealt", player |-> h.dealt[i]]

EndLayout(T, h, b) ==
    /\ \A i \in 1 .. Len(h.collected) :
          T[CollectedAt(h, b) + i] = [kind |-> "collected", player |-> h.collected[i]]
    /\ T[SummaryAt(h, b) + 1].kind = "summary"
    /\ Len(h.streets) > 1 => T[SummaryAt(h, b) + 2].kind = "board"
    /\ \A i \in 1 .. Len(h.collected) : T[EmptyAt(h, b) - Len(h.collected) + i].kind = "seat"
    /\ T[EmptyAt(h, b) + 1].kind = "" /\ T[EmptyAt(h, b) + 2].kind = ""
    /\ EmptyAt(h, b) + 2 <= Len(T)

LEMMA OpeningFacts ==
    ASSUME NEW h \in Scripts, NEW T \in Seq(LineSet), NEW b \in Nat
    PROVE  /\ Opening(h) \in Seq(LineSet)
           /\ Len(Opening(h)) = 3 + 2 * Len(h.seats) + Len(h.denies) + Len(h.dealt)
           /\ Holds(T, b, Opening(h)) => SeatsLayout(T, h, b)
<1> DEFINE t1 == <<Line("start"), Line("table")>>
           t2 == Lines("seat", h.seats)
           t3 == <<Line("blinds")>>
           t4 == Lines("denies", h.denies)
           t5 == Lines("posts", h.seats)
           t6 == Lines("dealt", h.dealt)
           ns == Len(h.seats)
           nd == Len(h.denies)
           nt == Len(h.dealt)
<1>1. /\ h.seats \in Seq(Players) /\ h.denies \in Seq(Players) /\ h.dealt \in Seq(Players)
      /\ ns \in Nat /\ nd \in Nat /\ nt \in Nat
  BY ScriptFacts, Zenon
<1>2. /\ "start" \in Kinds /\ "table" \in Kinds /\ "seat" \in Kinds /\ "blinds" \in Kinds
      /\ "denies" \in Kinds /\ "posts" \in Kinds /\ "dealt" \in Kinds
  BY DEF Kinds
<1>3. /\ t2 \in Seq(LineSet) /\ Len(t2) = ns
      /\ \A i \in 1 .. ns : t2[i] = [kind |-> "seat", player |-> h.seats[i]]
  BY <1>1, <1>2, LinesType
<1>4. t4 \in Seq(LineSet) /\ Len(t4) = nd /\ \A i \in 1 .. nd : t4[i] = [kind |-> "denies", player |-> h.denies[i]]
  BY <1>1, <1>2, LinesType
<1>5. t5 \in Seq(LineSet) /\ Len(t5) = ns /\ \A i \in 1 .. ns : t5[i] = [kind |-> "posts", player |-> h.seats[i]]
  BY <1>1, <1>2, LinesType
<1>6. t6 \in Seq(LineSet) /\ Len(t6) = nt /\ \A i \in 1 .. nt : t6[i] = [kind |-> "dealt", player |-> h.dealt[i]]
  BY <1>1, <1>2, LinesType
<1>7. /\ Line("start") \in LineSet /\ Line("table") \in LineSet /\ Line("blinds") \in LineSet
      /\ Line("start").kind = "start" /\ Line("table").kind = "table" /\ Line("blinds").kind = "blinds"
  BY <1>2, LineType
<1>8. /\ t1 \in Seq(LineSet) /\ Len(t1) = 2 /\ t1[1].kind = "start" /\ t1[2].kind = "table"
      /\ t3 \in Seq(LineSet) /\ Len(t3) = 1 /\ t3[1].kind = "blinds"
  BY <1>7
<1>9. Opening(h) = t1 \o t2 \o t3 \o t4 \o t5 \o t6
  BY DEF Opening
<1> HIDE DEF t1, t2, t3, t4, t5, t6, ns, nd, nt
<1> DEFINE u2 == t1 \o t2
           u3 == u2 \o t3
           u4 == u3 \o t4
           u5 == u4 \o t5
<1>10. u2 \in Seq(LineSet) /\ Len(u2) = 2 + ns
  <2>1. u2 \in Seq(LineSet) /\ Len(u2) = Len(t1) + Len(t2)
    BY <1>1, <1>3, <1>8, Concat
  <2>. QED
    BY <1>1, <1>3, <1>8, <2>1
<1> HIDE DEF u2
<1>11. u3 \in Seq(LineSet) /\ Len(u3) = 3 + ns
  <2>1. u3 \in Seq(LineSet) /\ Len(u3) = Len(u2) + Len(t3)
    BY <1>1, <1>8, <1>10, Concat
  <2>. QED
    BY <1>1, <1>8, <1>10, <2>1
<1> HIDE DEF u3
<1>12. u4 \in Seq(LineSet) /\ Len(u4) = 3 + ns + nd
  <2>1. u4 \in Seq(LineSet) /\ Len(u4) = Len(u3) + Len(t4)
    BY <1>1, <1>4, <1>11, Concat
  <2>. QED
    BY <1>1, <1>4, <1>11, <2>1
<1> HIDE DEF u4
<1>13. u5 \in Seq(LineSet) /\ Len(u5) = 3 + ns + nd + ns
  <2>1. u5 \in Seq(LineSet) /\ Len(u5) = Len(u4) + Len(t5)
    BY <1>1, <1>5, <1>12, Concat
  <2>. QED
    BY <1>1, <1>5, <1>12, <2>1
<1> HIDE DEF u5
<1>14. Opening(h) = u5 \o t6
  BY <1>9 DEF u5, u4, u3, u2
<1>15. Opening(h) \in Seq(LineSet) /\ Len(Opening(h)) = 3 + 2 * ns + nd + nt
  <2>1. Opening(h) \in Seq(LineSet) /\ Len(Opening(h)) = Len(u5) + Len(t6)
    BY <1>6, <1>13, <1>14, Concat
  <2>. QED
    BY <1>1, <1>6, <1>13, <2>1
<1>16. ASSUME Holds(T, b, Opening(h)) PROVE SeatsLayout(T, h, b)
  <2>1. Holds(T, b, u5) /\ Holds(T, b + (3 + ns + nd + ns), t6)
    BY <1>6, <1>13, <1>14, <1>16, SplitHolds, ZenonT(60)
  <2>2. Holds(T, b, u4) /\ Holds(T, b + (3 + ns + nd), t5)
    BY <1>5, <1>12, <2>1, SplitHolds DEF u5
  <2>3. Holds(T, b, u3) /\ Holds(T, b + (3 + ns), t4)
    BY <1>4, <1>11, <2>2, SplitHolds DEF u4
  <2>4. Holds(T, b, u2) /\ Holds(T, b + (2 + ns), t3)
    BY <1>8, <1>10, <2>3, SplitHolds DEF u3
  <2>5. Holds(T, b, t1) /\ Holds(T, b + 2, t2)
    BY <1>8, <1>3, <2>4, SplitHolds DEF u2
  <2>6. T[b + 1].kind = "start" /\ T[b + 2].kind = "table"
    BY <1>8, <2>5 DEF Holds
  <2>7. \A i \in 1 .. ns : T[b + 2 + i] = [kind |-> "seat", player |-> h.seats[i]]
    BY <1>3, <2>5 DEF Holds
  <2>8. T[b + 3 + ns].kind = "blinds"
    <3>1. T[b + (2 + ns) + 1] = t3[1]
      BY <1>8, <2>4 DEF Holds
    <3>2. b + (2 + ns) + 1 = b + 3 + ns
      BY <1>1
    <3>. QED
      BY <1>8, <3>1, <3>2
  <2>9. \A i \in 1 .. nd : T[b + 3 + ns + i].kind = "denies"
    <3>1. \A i \in 1 .. nd : T[b + (3 + ns) + i] = t4[i] /\ b + (3 + ns) + i = b + 3 + ns + i
      BY <1>1, <1>4, <2>3 DEF Holds
    <3>. QED
      BY <1>4, <3>1
  <2>10. \A i \in 1 .. ns : T[b + 3 + ns + nd + i].kind = "posts"
    <3>1. \A i \in 1 .. ns : T[b + (3 + ns + nd) + i] = t5[i] /\ b + (3 + ns + nd) + i = b + 3 + ns + nd + i
      BY <1>1, <1>5, <2>2 DEF Holds
    <3>. QED
      BY <1>5, <3>1
  <2>11. \A i \in 1 .. nt : T[b + 3 + ns + nd + ns + i] = [kind |-> "dealt", player |-> h.dealt[i]]
    <3>1. \A i \in 1 .. nt : T[b + (3 + ns + nd + ns) + i] = t6[i]
                             /\ b + (3 + ns + nd + ns) + i = b + 3 + ns + nd + ns + i
      BY <1>1, <1>6, <2>1 DEF Holds
    <3>. QED
      BY <1>6, <3>1
  <2>. QED
    BY <2>6, <2>7, <2>8, <2>9, <2>10, <2>11 DEF SeatsLayout, PostsAt, DealtAt, ns, nd, nt
<1>. QED
  BY <1>15, <1>16 DEF ns, nd, nt

LEMMA BettingFacts ==
    ASSUME NEW h \in Scripts, NEW T \in Seq(LineSet), NEW b \in Nat
    PROVE  /\ Betting(h) \in Seq(LineSet)
           /\ DealtAt(h, b) + Len(h.dealt) + Len(Betting(h)) = RoundAt(h, b, 6)
           /\ Holds(T, DealtAt(h, b) + Len(h.dealt), Betting(h)) =>
                \A i \in 1 .. 5 : Holds(T, RoundAt(h, b, i), Round(h, i))
<1> DEFINE r1 == Round(h, 1)
           r2 == Round(h, 2)
           r3 == Round(h, 3)
           r4 == Round(h, 4)
           r5 == Round(h, 5)
           u2 == r1 \o r2
           u3 == u2 \o r3
           u4 == u3 \o r4
           c == DealtAt(h, b) + Len(h.dealt)
<1>1. /\ r1 \in Seq(LineSet) /\ r2 \in Seq(LineSet) /\ r3 \in Seq(LineSet) /\ r4 \in Seq(LineSet)
      /\ r5 \in Seq(LineSet)
  BY RoundTypes
<1>2. Betting(h) = u4 \o r5
  BY DEF Betting, Round
<1>3. c \in Nat
  <2>1. Len(h.seats) \in Nat /\ Len(h.denies) \in Nat /\ Len(h.dealt) \in Nat
    BY ScriptFacts, Zenon
  <2> DEFINE ns == Len(h.seats)
             nd == Len(h.denies)
             nt == Len(h.dealt)
  <2>2. c = b + 3 + ns + nd + ns + nt
    BY DEF DealtAt, PostsAt
  <2> HIDE DEF ns, nd, nt, c
  <2>3. ns \in Nat /\ nd \in Nat /\ nt \in Nat
    BY <2>1 DEF ns, nd, nt
  <2>. QED
    BY <2>2, <2>3
<1>4. /\ RoundAt(h, b, 1) = c /\ RoundAt(h, b, 2) = c + Len(r1)
      /\ RoundAt(h, b, 3) = c + Len(r1) + Len(r2) /\ RoundAt(h, b, 4) = c + Len(r1) + Len(r2) + Len(r3)
      /\ RoundAt(h, b, 5) = c + Len(r1) + Len(r2) + Len(r3) + Len(r4)
      /\ RoundAt(h, b, 6) = c + Len(r1) + Len(r2) + Len(r3) + Len(r4) + Len(r5)
  <2> HIDE DEF c
  <2>1. /\ Len(r1) \in Nat /\ Len(r2) \in Nat /\ Len(r3) \in Nat /\ Len(r4) \in Nat /\ Len(r5) \in Nat
    BY <1>1, LenOf
  <2> HIDE DEF r1, r2, r3, r4, r5
  <2>2. \A i \in 1 .. 6 : RoundAt(h, b, i) = c + (IF i > 1 THEN Len(r1) ELSE 0)
                      + (IF i > 2 THEN Len(r2) ELSE 0)
                      + (IF i > 3 THEN Len(r3) ELSE 0)
                      + (IF i > 4 THEN Len(r4) ELSE 0)
                      + (IF i > 5 THEN Len(r5) ELSE 0)
    BY DEF RoundAt, c, r1, r2, r3, r4, r5
  <2>. QED
    BY <1>3, <2>1, <2>2
<1> HIDE DEF r1, r2, r3, r4, r5, u2, u3, u4, c
<1>5. u2 \in Seq(LineSet) /\ Len(u2) = Len(r1) + Len(r2)
  BY <1>1, Concat DEF u2
<1>6. u3 \in Seq(LineSet) /\ Len(u3) = Len(r1) + Len(r2) + Len(r3)
  <2>1. u3 \in Seq(LineSet) /\ Len(u3) = Len(u2) + Len(r3)
    BY <1>1, <1>5, Concat DEF u3
  <2>. QED
    BY <1>5, <2>1
<1>7. u4 \in Seq(LineSet) /\ Len(u4) = Len(r1) + Len(r2) + Len(r3) + Len(r4)
  <2>1. u4 \in Seq(LineSet) /\ Len(u4) = Len(u3) + Len(r4)
    BY <1>1, <1>6, Concat DEF u4
  <2>. QED
    BY <1>6, <2>1
<1>8. Betting(h) \in Seq(LineSet) /\ Len(Betting(h)) = Len(u4) + Len(r5)
  BY <1>1, <1>2, <1>7, Concat
<1>9. Len(r1) \in Nat /\ Len(r2) \in Nat /\ Len(r3) \in Nat /\ Len(r4) \in Nat /\ Len(r5) \in Nat
  BY <1>1, LenOf
<1>10. c + Len(Betting(h)) = RoundAt(h, b, 6)
  BY <1>3, <1>4, <1>7, <1>8, <1>9
<1>11. ASSUME Holds(T, c, Betting(h)) PROVE \A i \in 1 .. 5 : Holds(T, RoundAt(h, b, i), Round(h, i))
  <2>1. Holds(T, c, u4) /\ Holds(T, c + Len(u4), r5)
    BY <1>1, <1>2, <1>3, <1>7, <1>11, SplitHolds, ZenonT(60)
  <2>2. Holds(T, c, u3) /\ Holds(T, c + Len(u3), r4)
    BY <1>1, <1>3, <1>6, <2>1, SplitHolds DEF u4
  <2>3. Holds(T, c, u2) /\ Holds(T, c + Len(u2), r3)
    BY <1>1, <1>3, <1>5, <2>2, SplitHolds DEF u3
  <2>4. Holds(T, c, r1) /\ Holds(T, c + Len(r1), r2)
    BY <1>1, <1>3, <2>3, SplitHolds DEF u2
  <2>5. /\ c + Len(u4) = RoundAt(h, b, 5) /\ c + Len(u3) = RoundAt(h, b, 4)
        /\ c + Len(u2) = RoundAt(h, b, 3)
    BY <1>3, <1>4, <1>5, <1>6, <1>7, <1>9
  <2>6. \A i \in 1 .. 5 : i = 1 \/ i = 2 \/ i = 3 \/ i = 4 \/ i = 5
    OBVIOUS
  <2>7. /\ Holds(T, RoundAt(h, b, 1), Round(h, 1)) /\ Holds(T, RoundAt(h, b, 2), Round(h, 2))
        /\ Holds(T, RoundAt(h, b, 3), Round(h, 3)) /\ Holds(T, RoundAt(h, b, 4), Round(h, 4))
        /\ Holds(T, RoundAt(h, b, 5), Round(h, 5))
    BY <1>4, <2>1, <2>2, <2>3, <2>4, <2>5 DEF r1, r2, r3, r4, r5
  <2>. QED
    BY <2>6, <2>7
<1>. QED
  BY <1>8, <1>10, <1>11 DEF c

LEMMA ClosingFacts ==
    ASSUME NEW h \in Scripts, NEW T \in Seq(LineSet), NEW b \in Nat, CollectedAt(h, b) \in Nat
    PROVE  /\ Closing(h) \in Seq(LineSet)
           /\ CollectedAt(h, b) + Len(Closing(h)) = EmptyAt(h, b) + 2
           /\ Holds(T, CollectedAt(h, b), Closing(h)) => EndLayout(T, h, b)
<1> DEFINE t1 == Lines("collected", h.collected)
           t2 == <<Line("summary")>>
           t3 == IF Len(h.streets) > 1 THEN <<Line("board")>> ELSE <<>>
           t4 == Lines("seat", h.collected)
           t5 == <<Line(""), Line("")>>
           nc == Len(h.collected)
           nb == IF Len(h.streets) > 1 THEN 1 ELSE 0
           c == CollectedAt(h, b)
           u2 == t1 \o t2
           u3 == u2 \o t3
           u4 == u3 \o t4
<1>1. h.collected \in Seq(Players) /\ nc \in Nat /\ nb \in Nat /\ c \in Nat
  BY ScriptFacts, Zenon
<1>2. /\ "collected" \in Kinds /\ "summary" \in Kinds /\ "board" \in Kinds /\ "seat" \in Kinds
      /\ "" \in Kinds
  BY DEF Kinds
<1>3. /\ t1 \in Seq(LineSet) /\ Len(t1) = nc
      /\ \A i \in 1 .. nc : t1[i] = [kind |-> "collected", player |-> h.collected[i]]
  <2>1. h.collected \in Seq(Players) /\ "collected" \in Kinds
    BY <1>1, <1>2
  <2>. QED
    BY <2>1, LinesType, Zenon
<1>4. /\ t4 \in Seq(LineSet) /\ Len(t4) = nc
      /\ \A i \in 1 .. nc : t4[i] = [kind |-> "seat", player |-> h.collected[i]]
  <2>1. h.collected \in Seq(Players) /\ "seat" \in Kinds
    BY <1>1, <1>2
  <2>. QED
    BY <2>1, LinesType, Zenon
<1>5. /\ Line("summary") \in LineSet /\ Line("board") \in LineSet /\ Line("") \in LineSet
      /\ Line("summary").kind = "summary" /\ Line("board").kind = "board" /\ Line("").kind = ""
  BY <1>2, LineType
<1>6. /\ t2 \in Seq(LineSet) /\ Len(t2) = 1 /\ t2[1].kind = "summary"
      /\ t5 \in Seq(LineSet) /\ Len(t5) = 2 /\ t5[1].kind = "" /\ t5[2].kind = ""
  BY <1>5, OneElement, TwoElements
<1>7. t3 \in Seq(LineSet) /\ Len(t3) = nb /\ (Len(h.streets) > 1 => t3[1].kind = "board")
  <2>1. CASE Len(h.streets) > 1
    <3>1. t3 = <<Line("board")>> /\ nb = 1
      BY <2>1
    <3>. QED
      BY <1>5, <3>1, OneElement
  <2>2. CASE ~(Len(h.streets) > 1)
    BY <2>2
  <2>. QED
    BY <2>1, <2>2
<1>8. Closing(h) = u4 \o t5
  BY DEF Closing
<1>9. EmptyAt(h, b) = c + nc + 1 + nb + nc /\ SummaryAt(h, b) = c + nc
  BY DEF EmptyAt, SummaryAt
<1>10. Len(h.streets) > 1 => nb = 1
  OBVIOUS
<1> HIDE DEF t1, t2, t3, t4, t5, nc, nb, c, u2, u3, u4
<1>11. u2 \in Seq(LineSet) /\ Len(u2) = nc + 1
  <2>1. u2 \in Seq(LineSet) /\ Len(u2) = Len(t1) + Len(t2)
    BY <1>3, <1>6, Concat DEF u2
  <2>. QED
    BY <1>3, <1>6, <2>1
<1>12. u3 \in Seq(LineSet) /\ Len(u3) = nc + 1 + nb
  <2>1. u3 \in Seq(LineSet) /\ Len(u3) = Len(u2) + Len(t3)
    BY <1>7, <1>11, Concat DEF u3
  <2>. QED
    BY <1>7, <1>11, <2>1
<1>13. u4 \in Seq(LineSet) /\ Len(u4) = nc + 1 + nb + nc
  <2>1. u4 \in Seq(LineSet) /\ Len(u4) = Len(u3) + Len(t4)
    BY <1>4, <1>12, Concat DEF u4
  <2>. QED
    BY <1>4, <1>12, <2>1
<1>14. Closing(h) \in Seq(LineSet) /\ Len(Closing(h)) = nc + 1 + nb + nc + 2
  <2>1. Closing(h) \in Seq(LineSet) /\ Len(Closing(h)) = Len(u4) + Len(t5)
    BY <1>6, <1>8, <1>13, Concat
  <2>. QED
    BY <1>6, <1>13, <2>1
<1>15. c + Len(Closing(h)) = EmptyAt(h, b) + 2
  BY <1>1, <1>9, <1>14
<1>16. ASSUME Holds(T, c, Closing(h)) PROVE EndLayout(T, h, b)
  <2>1. Holds(T, c, u4) /\ Holds(T, c + Len(u4), t5)
    BY <1>1, <1>6, <1>8, <1>13, <1>16, SplitHolds
  <2>2. Holds(T, c, u3) /\ Holds(T, c + Len(u3), t4)
    BY <1>1, <1>4, <1>12, <2>1, SplitHolds DEF u4
  <2>3. Holds(T, c, u2) /\ Holds(T, c + Len(u2), t3)
    BY <1>1, <1>7, <1>11, <2>2, SplitHolds DEF u3
  <2>4. Holds(T, c, t1) /\ Holds(T, c + Len(t1), t2)
    BY <1>1, <1>3, <1>6, <2>3, SplitHolds DEF u2
  <2>5. \A i \in 1 .. nc : T[c + i] = [kind |-> "collected", player |-> h.collected[i]]
    BY <1>3, <2>4 DEF Holds
  <2>6. T[c + nc + 1].kind = "summary"
    <3>1. 1 \in 1 .. Len(t2)
      <4>1. Len(t2) = 1
        BY <1>6, Zenon
      <4>. QED
        BY <4>1
    <3>2. T[c + Len(t1) + 1] = t2[1]
      BY <2>4, <3>1 DEF Holds
    <3>. QED
      BY <1>3, <1>6, <3>2
  <2>7. Len(h.streets) > 1 => T[c + nc + 2].kind = "board"
    <3> SUFFICES ASSUME Len(h.streets) > 1 PROVE T[c + nc + 2].kind = "board"
      OBVIOUS
    <3>1. T[c + Len(u2) + 1] = t3[1]
      BY <1>7, <1>10, <2>3 DEF Holds
    <3>2. c + Len(u2) + 1 = c + nc + 2
      BY <1>1, <1>11
    <3>. QED
      BY <1>7, <3>1, <3>2
  <2>8. \A i \in 1 .. nc : T[EmptyAt(h, b) - nc + i].kind = "seat"
    <3>1. \A i \in 1 .. nc : T[c + Len(u3) + i] = t4[i] /\ c + Len(u3) + i = EmptyAt(h, b) - nc + i
      BY <1>1, <1>4, <1>9, <1>12, <2>2 DEF Holds
    <3>. QED
      BY <1>4, <3>1
  <2>9. T[EmptyAt(h, b) + 1].kind = "" /\ T[EmptyAt(h, b) + 2].kind = ""
    <3>3. 1 \in 1 .. Len(t5) /\ 2 \in 1 .. Len(t5)
      <4>1. Len(t5) = 2
        BY <1>6, Zenon
      <4>. QED
        BY <4>1
    <3>1. T[c + Len(u4) + 1] = t5[1] /\ T[c + Len(u4) + 2] = t5[2]
      BY <2>1, <3>3 DEF Holds
    <3>2. c + Len(u4) + 1 = EmptyAt(h, b) + 1 /\ c + Len(u4) + 2 = EmptyAt(h, b) + 2
      BY <1>1, <1>9, <1>13
    <3>. QED
      BY <1>6, <3>1, <3>2
  <2>10. EmptyAt(h, b) + 2 <= Len(T)
    BY <1>15, <1>16 DEF Holds
  <2>. QED
    BY <1>9, <2>5, <2>6, <2>7, <2>8, <2>9, <2>10 DEF EndLayout, nc, c
<1>. QED
  BY <1>14, <1>15, <1>16 DEF c

\* The text of a hand, where it is.
Layout(T, h, b) == /\ SeatsLayout(T, h, b) /\ EndLayout(T, h, b)
                   /\ \A i \in 1 .. 5 : Holds(T, RoundAt(h, b, i), Round(h, i))

LEMMA PositionsOrder ==
    ASSUME NEW h \in Scripts, NEW b \in Nat
    PROVE  /\ PostsAt(h, b) \in Nat /\ DealtAt(h, b) \in Nat /\ \A i \in 1 .. 6 : RoundAt(h, b, i) \in Nat
           /\ CollectedAt(h, b) \in Nat /\ SummaryAt(h, b) \in Nat /\ EmptyAt(h, b) \in Nat
           /\ \A i \in 1 .. 5 : RoundAt(h, b, i + 1) = RoundAt(h, b, i) + Len(Round(h, i))
           /\ b + 3 <= PostsAt(h, b) /\ PostsAt(h, b) < DealtAt(h, b)
           /\ RoundAt(h, b, 1) = DealtAt(h, b) + Len(h.dealt)
           /\ \A i, j \in 1 .. 6 : i <= j => RoundAt(h, b, i) <= RoundAt(h, b, j)
           /\ CollectedAt(h, b) < SummaryAt(h, b) /\ SummaryAt(h, b) < EmptyAt(h, b)
<1> DEFINE ns == Len(h.seats)
           nd == Len(h.denies)
           nt == Len(h.dealt)
           nc == Len(h.collected)
           nb == IF Len(h.streets) > 1 THEN 1 ELSE 0
           l1 == Len(Round(h, 1))
           l2 == Len(Round(h, 2))
           l3 == Len(Round(h, 3))
           l4 == Len(Round(h, 4))
           l5 == Len(Round(h, 5))
           p == PostsAt(h, b)
           d == DealtAt(h, b)
           e == EmptyAt(h, b)
           m == SummaryAt(h, b)
           R(i) == RoundAt(h, b, i)
<1>1. ns \in Nat /\ ns > 0 /\ nd \in Nat /\ nt \in Nat /\ nc \in Nat /\ nc > 0 /\ nb \in 0 .. 1
  <2>1. ns \in Nat /\ ns > 0 /\ nd \in Nat /\ nt \in Nat /\ nc \in Nat /\ nc \in 1 .. MaxSeats
    BY ScriptFacts, Zenon
  <2> HIDE DEF ns, nd, nt, nc
  <2>2. nc > 0
    BY <2>1 DEF MaxSeats
  <2>. QED
    BY <2>1, <2>2
<1>2. l1 \in Nat /\ l2 \in Nat /\ l3 \in Nat /\ l4 \in Nat /\ l5 \in Nat
  BY RoundTypes, LenOf
<1>3. p = b + 3 + ns + nd /\ d = p + ns
  BY DEF PostsAt, DealtAt
<1>4. \A i : R(i) = d + nt + (IF i > 1 THEN l1 ELSE 0) + (IF i > 2 THEN l2 ELSE 0)
                    + (IF i > 3 THEN l3 ELSE 0) + (IF i > 4 THEN l4 ELSE 0) + (IF i > 5 THEN l5 ELSE 0)
  BY DEF RoundAt
<1>5. m = R(6) + nc /\ e = m + 1 + nb + nc
  BY DEF EmptyAt, SummaryAt, CollectedAt
<1>6. \A i \in 1 .. 5 : Len(Round(h, i)) = IF i = 1 THEN l1 ELSE IF i = 2 THEN l2 ELSE IF i = 3 THEN l3
                                           ELSE IF i = 4 THEN l4 ELSE l5
  <2>1. \A i \in 1 .. 5 : i = 1 \/ i = 2 \/ i = 3 \/ i = 4 \/ i = 5
    OBVIOUS
  <2> DEFINE L(i) == Len(Round(h, i))
  <2>2. l1 = L(1) /\ l2 = L(2) /\ l3 = L(3) /\ l4 = L(4) /\ l5 = L(5)
    OBVIOUS
  <2> HIDE DEF L, l1, l2, l3, l4, l5
  <2>3. \A i \in 1 .. 5 : L(i) = IF i = 1 THEN l1 ELSE IF i = 2 THEN l2 ELSE IF i = 3 THEN l3
                                 ELSE IF i = 4 THEN l4 ELSE l5
    BY <2>1, <2>2
  <2>. QED
    BY <2>3 DEF L
<1> HIDE DEF ns, nd, nt, nc, nb, l1, l2, l3, l4, l5, p, d, e, m, R
<1>7. p \in Nat /\ d \in Nat /\ b + 3 <= p /\ p < d
  BY <1>1, <1>3
<1>8. /\ R(1) = d + nt /\ R(2) = d + nt + l1 /\ R(3) = d + nt + l1 + l2 /\ R(4) = d + nt + l1 + l2 + l3
      /\ R(5) = d + nt + l1 + l2 + l3 + l4 /\ R(6) = d + nt + l1 + l2 + l3 + l4 + l5
  BY <1>1, <1>2, <1>4, <1>7
<1>9. \A i \in 1 .. 6 : i = 1 \/ i = 2 \/ i = 3 \/ i = 4 \/ i = 5 \/ i = 6
  OBVIOUS
<1>10. \A i \in 1 .. 6 : R(i) \in Nat
  BY <1>1, <1>2, <1>7, <1>8, <1>9
<1>11. /\ R(1) <= R(2) /\ R(2) <= R(3) /\ R(3) <= R(4) /\ R(4) <= R(5) /\ R(5) <= R(6)
  BY <1>1, <1>2, <1>7, <1>8
<1>12. ASSUME NEW i \in 1 .. 6, NEW j \in 1 .. 6, i <= j PROVE R(i) <= R(j)
  <2>1. R(1) \in Nat /\ R(2) \in Nat /\ R(3) \in Nat /\ R(4) \in Nat /\ R(5) \in Nat /\ R(6) \in Nat
    BY <1>10
  <2>. QED
    BY <1>9, <1>11, <1>12, <2>1
<1>13. ASSUME NEW i \in 1 .. 5 PROVE R(i + 1) = R(i) + Len(Round(h, i))
  <2>1. \A j \in 1 .. 5 : j = 1 \/ j = 2 \/ j = 3 \/ j = 4 \/ j = 5
    OBVIOUS
  <2>2. CASE i = 1
    <3>1. Len(Round(h, i)) = l1
      BY <1>6, <2>2
    <3>. QED
      BY <1>1, <1>2, <1>7, <1>8, <2>2, <3>1
  <2>3. CASE i = 2
    <3>1. Len(Round(h, i)) = l2
      BY <1>6, <2>3
    <3>. QED
      BY <1>1, <1>2, <1>7, <1>8, <2>3, <3>1
  <2>4. CASE i = 3
    <3>1. Len(Round(h, i)) = l3
      BY <1>6, <2>4
    <3>. QED
      BY <1>1, <1>2, <1>7, <1>8, <2>4, <3>1
  <2>5. CASE i = 4
    <3>1. Len(Round(h, i)) = l4
      BY <1>6, <2>5
    <3>. QED
      BY <1>1, <1>2, <1>7, <1>8, <2>5, <3>1
  <2>6. CASE i = 5
    <3>1. Len(Round(h, i)) = l5
      BY <1>6, <2>6
    <3>. QED
      BY <1>1, <1>2, <1>7, <1>8, <2>6, <3>1
  <2>. QED
    BY <2>1, <2>2, <2>3, <2>4, <2>5, <2>6
<1>14. m \in Nat /\ e \in Nat /\ R(6) < m /\ m < e
  BY <1>1, <1>5, <1>10
<1>. QED
  BY <1>7, <1>8, <1>10, <1>12, <1>13, <1>14 DEF p, d, e, m, R, nt, CollectedAt

LEMMA TextFacts ==
    ASSUME NEW h \in Scripts
    PROVE  Text(h) \in Seq(LineSet)
<1>1. Opening(h) \in Seq(LineSet) /\ Betting(h) \in Seq(LineSet)
  <2>1. <<>> \in Seq(LineSet)
    OBVIOUS
  <2>. QED
    BY <2>1, OpeningFacts, BettingFacts
<1>2. Closing(h) \in Seq(LineSet)
  <2>1. <<>> \in Seq(LineSet) /\ 0 \in Nat
    OBVIOUS
  <2>2. CollectedAt(h, 0) \in Nat
    BY <2>1, PositionsOrder
  <2>. QED
    BY <2>1, <2>2, ClosingFacts
<1>3. Opening(h) \o Betting(h) \in Seq(LineSet)
  BY <1>1, Concat
<1>. QED
  BY <1>2, <1>3, Concat DEF Text

LEMMA LayoutOfText ==
    ASSUME NEW h \in Scripts, NEW T \in Seq(LineSet), NEW b \in Nat, Holds(T, b, Text(h))
    PROVE  Layout(T, h, b) /\ b + Len(Text(h)) = EmptyAt(h, b) + 2
<1> DEFINE o == Opening(h)
           g == Betting(h)
           c == Closing(h)
           u == o \o g
<1>1. o \in Seq(LineSet) /\ Len(o) = 3 + 2 * Len(h.seats) + Len(h.denies) + Len(h.dealt)
  BY OpeningFacts
<1>2. g \in Seq(LineSet) /\ DealtAt(h, b) + Len(h.dealt) + Len(g) = CollectedAt(h, b)
  BY BettingFacts DEF CollectedAt
<1>3. c \in Seq(LineSet) /\ CollectedAt(h, b) + Len(c) = EmptyAt(h, b) + 2
  BY PositionsOrder, ClosingFacts
<1>4. Text(h) = u \o c
  BY DEF Text
<1>5. b + Len(o) = DealtAt(h, b) + Len(h.dealt)
  <2>1. Len(h.seats) \in Nat /\ Len(h.denies) \in Nat /\ Len(h.dealt) \in Nat
    BY ScriptFacts, Zenon
  <2> DEFINE ns == Len(h.seats)
             nd == Len(h.denies)
             nt == Len(h.dealt)
             d == DealtAt(h, b)
  <2>2. d = b + 3 + ns + nd + ns
    BY DEF DealtAt, PostsAt
  <2>3. ns \in Nat /\ nd \in Nat /\ nt \in Nat /\ Len(o) = 3 + 2 * ns + nd + nt
    BY <1>1, <2>1
  <2> HIDE DEF ns, nd, nt, d, o
  <2>4. b + Len(o) = d + nt
    BY <2>2, <2>3
  <2>. QED
    BY <2>4 DEF d, nt
<1>6. u \in Seq(LineSet) /\ Len(u) = Len(o) + Len(g)
  BY <1>1, <1>2, Concat
<1>7. Len(Text(h)) = Len(u) + Len(c)
  BY <1>3, <1>4, <1>6, Concat
<1> HIDE DEF o, g, c, u
<1>8. Holds(T, b, u) /\ Holds(T, b + Len(u), c)
  BY <1>3, <1>4, <1>6, SplitHolds
<1>9. Holds(T, b, o) /\ Holds(T, b + Len(o), g)
  BY <1>1, <1>2, <1>8, SplitHolds DEF u
<1>10. Len(o) \in Nat /\ Len(g) \in Nat /\ Len(c) \in Nat /\ DealtAt(h, b) + Len(h.dealt) \in Nat
  <2>1. Len(o) \in Nat /\ Len(g) \in Nat /\ Len(c) \in Nat
    BY <1>1, <1>2, <1>3, LenOf
  <2>. QED
    BY <1>5, <2>1
<1>11. b + Len(u) = CollectedAt(h, b)
  BY <1>2, <1>5, <1>6, <1>10
<1>12. b + Len(Text(h)) = EmptyAt(h, b) + 2
  BY <1>3, <1>6, <1>7, <1>10, <1>11
<1>13. SeatsLayout(T, h, b)
  BY <1>9, OpeningFacts DEF o
<1>14. \A i \in 1 .. 5 : Holds(T, RoundAt(h, b, i), Round(h, i))
  BY <1>5, <1>9, BettingFacts DEF g
<1>15. EndLayout(T, h, b)
  BY <1>8, <1>11, PositionsOrder, ClosingFacts DEF c
<1>. QED
  BY <1>12, <1>13, <1>14, <1>15 DEF Layout

\* The text of the first hands, one after the other.
LEMMA TextUpToFacts ==
    ASSUME NEW s \in Seq(Scripts)
    PROVE  /\ \A n \in 0 .. Len(s) : TextUpTo(s)[n] \in Seq(LineSet)
           /\ TextUpTo(s)[0] = <<>>
           /\ \A n \in 1 .. Len(s) : TextUpTo(s)[n] = TextUpTo(s)[n - 1] \o Text(s[n])
<1> DEFINE N == Len(s)
           S == Seq(LineSet)
           D(g) == g = [n \in 0 .. N |-> IF n = 0 THEN <<>> ELSE g[n - 1] \o Text(s[n])]
           F == [x \in (1 .. N) \X S |-> x[2] \o Text(s[x[1]])]
<1>1. N \in Nat /\ <<>> \in S
  OBVIOUS
<1>2. F \in [(1 .. N) \X S -> S]
  <2>1. ASSUME NEW x \in (1 .. N) \X S PROVE x[2] \o Text(s[x[1]]) \in S
    <3>1. x[1] \in 1 .. N /\ x[2] \in S
      OBVIOUS
    <3>2. s[x[1]] \in Scripts
      BY <3>1, ElementOf
    <3>3. Text(s[x[1]]) \in S
      BY <3>2, TextFacts
    <3>. QED
      BY <3>1, <3>3, Concat
  <2>. QED
    BY <2>1
<1>3. \A n \in 1 .. N, t \in S : F[<<n, t>>] = t \o Text(s[n])
  OBVIOUS
<1> HIDE DEF F, S, N
<1>4. PICK f : Recurs(f, N, S, <<>>, F)
  BY <1>1, <1>2, Recursion
<1>5. \A n \in 1 .. N : n - 1 \in 0 .. N /\ f[n - 1] \in S
  BY <1>1, <1>4 DEF Recurs
<1>6. f[0] = <<>> /\ f \in [0 .. N -> S] /\ \A n \in 1 .. N : f[n] = f[n - 1] \o Text(s[n])
  BY <1>3, <1>4, <1>5 DEF Recurs
<1>7. D(f)
  <2> DEFINE g == [n \in 0 .. N |-> IF n = 0 THEN <<>> ELSE f[n - 1] \o Text(s[n])]
  <2>1. ASSUME NEW n \in 0 .. N PROVE f[n] = g[n]
    <3>1. CASE n = 0
      BY <1>6, <3>1
    <3>2. CASE n # 0
      <4>1. n \in 1 .. N
        BY <1>1, <3>2
      <4>. QED
        BY <1>6, <3>2, <4>1
    <3>. QED
      BY <3>1, <3>2
  <2>2. f = g
    BY <1>6, <2>1
  <2>. QED
    BY <2>2
<1>8. TextUpTo(s) = CHOOSE g : D(g)
  BY DEF TextUpTo, N
<1> HIDE DEF D
<1>9. D(TextUpTo(s))
  BY <1>7, <1>8
<1> DEFINE t == TextUpTo(s)
<1>10. t = [n \in 0 .. N |-> IF n = 0 THEN <<>> ELSE t[n - 1] \o Text(s[n])]
  BY <1>9 DEF D
<1> HIDE DEF t
<1>11. t[0] = <<>> /\ \A n \in 1 .. N : t[n] = t[n - 1] \o Text(s[n])
  BY <1>1, <1>10
<1> DEFINE X == {n \in 0 .. N : t[n] \in S}
<1>12. X = 0 .. N
  <2>1. 0 \in X
    BY <1>1, <1>11
  <2>2. ASSUME NEW n \in 1 .. N, n - 1 \in X PROVE n \in X
    <3>1. s[n] \in Scripts
      BY ElementOf DEF N
    <3>2. t[n - 1] \o Text(s[n]) \in S
      BY <2>2, <3>1, TextFacts, Concat DEF S
    <3>3. t[n] = t[n - 1] \o Text(s[n])
      BY <1>11
    <3>4. n \in 0 .. N
      BY <1>1
    <3>. QED
      BY <3>2, <3>3, <3>4
  <2>3. X \in SUBSET (0 .. N)
    OBVIOUS
  <2> HIDE DEF X
  <2>. QED
    BY <1>1, <2>1, <2>2, <2>3, Induction
<1>13. \A n \in 0 .. N : t[n] \in S
  BY <1>12
<1>. QED
  BY <1>11, <1>13 DEF t, S, N

LEMMA HandsInText ==
    ASSUME NEW s \in Seq(Scripts)
    PROVE  /\ TextOf(s) \in Seq(LineSet)
           /\ \A k \in 1 .. Len(s) + 1 : Start(s, k) \in Nat
           /\ Start(s, 1) = 0 /\ Start(s, Len(s) + 1) = Len(TextOf(s))
           /\ \A k \in 1 .. Len(s) : /\ Holds(TextOf(s), Start(s, k), Text(s[k]))
                                     /\ Start(s, k + 1) = Start(s, k) + Len(Text(s[k]))
           /\ \A k \in 1 .. Len(s) + 1 : \A j \in k .. Len(s) + 1 : Start(s, k) <= Start(s, j)
<1> DEFINE t == TextUpTo(s)
           N == Len(s)
           B(k) == Start(s, k)
<1>1. N \in Nat
  OBVIOUS
<1>2. /\ \A n \in 0 .. N : t[n] \in Seq(LineSet)
      /\ t[0] = <<>> /\ \A n \in 1 .. N : t[n] = t[n - 1] \o Text(s[n])
  BY TextUpToFacts
<1>3. \A k : B(k) = Len(t[k - 1])
  BY DEF Start
<1>4. TextOf(s) = t[N]
  BY DEF TextOf
<1>5. \A n \in 1 .. N : Text(s[n]) \in Seq(LineSet)
  BY TextFacts, ElementOf
<1> HIDE DEF t, N, B
<1>6. \A k \in 1 .. N + 1 : k - 1 \in 0 .. N
  BY <1>1
<1>7. \A k \in 1 .. N + 1 : B(k) \in Nat
  BY <1>2, <1>3, <1>6, LenOf
<1>8. \A k \in 1 .. N : B(k + 1) = B(k) + Len(Text(s[k]))
  <2> TAKE k \in 1 .. N
  <2>1. k - 1 \in 0 .. N /\ (k + 1) - 1 = k
    BY <1>1
  <2>2. t[k] = t[k - 1] \o Text(s[k]) /\ t[k - 1] \in Seq(LineSet)
    BY <1>2, <2>1
  <2>3. Len(t[k]) = Len(t[k - 1]) + Len(Text(s[k]))
    BY <1>5, <2>2, Concat
  <2>. QED
    BY <1>3, <2>1, <2>3
<1>9. ASSUME NEW k \in 1 .. N PROVE Holds(t[N], B(k), Text(s[k]))
  <2> DEFINE X == {i \in 0 .. N - k : Holds(t[k + i], B(k), Text(s[k]))}
  <2>1. N - k \in Nat /\ X \in SUBSET (0 .. N - k) /\ k - 1 \in 0 .. N
    BY <1>1
  <2>2. 0 \in X
    <3>1. t[k] = t[k - 1] \o Text(s[k]) /\ t[k - 1] \in Seq(LineSet)
      BY <1>2, <2>1
    <3>2. Holds(t[k], B(k), Text(s[k]))
      BY <1>3, <1>5, <3>1, HoldsLast
    <3>. QED
      BY <1>1, <3>2
  <2>3. ASSUME NEW i \in 1 .. N - k, i - 1 \in X PROVE i \in X
    <3>1. k + i \in 1 .. N /\ k + (i - 1) = (k + i) - 1 /\ (k + i) - 1 \in 0 .. N
      BY <1>1
    <3>2. t[k + i] = t[(k + i) - 1] \o Text(s[k + i]) /\ t[(k + i) - 1] \in Seq(LineSet)
      BY <1>2, <3>1
    <3>3. Holds(t[(k + i) - 1], B(k), Text(s[k]))
      BY <2>3, <3>1
    <3>4. B(k) \in Nat
      BY <1>1, <1>7
    <3>5. Holds(t[k + i], B(k), Text(s[k]))
      BY <1>5, <3>1, <3>2, <3>3, <3>4, HoldsMore
    <3>. QED
      BY <3>5
  <2> HIDE DEF X
  <2>4. X = 0 .. N - k
    BY <2>1, <2>2, <2>3, Induction
  <2>5. N - k \in X /\ k + (N - k) = N
    BY <1>1, <2>1, <2>4
  <2>. QED
    BY <2>5 DEF X
<1>10. ASSUME NEW k \in 1 .. N + 1, NEW j \in k .. N + 1 PROVE B(k) <= B(j)
  <2> DEFINE X == {i \in 0 .. N + 1 - k : B(k) <= B(k + i)}
  <2>1. N + 1 - k \in Nat /\ X \in SUBSET (0 .. N + 1 - k)
    BY <1>1
  <2>2. 0 \in X
    <3>1. B(k) \in Nat /\ k + 0 = k
      BY <1>7
    <3>. QED
      BY <2>1, <3>1
  <2>3. ASSUME NEW i \in 1 .. N + 1 - k, i - 1 \in X PROVE i \in X
    <3>1. k + (i - 1) \in 1 .. N /\ k + i = (k + (i - 1)) + 1 /\ k + i \in 1 .. N + 1
      BY <1>1
    <3>2. Len(Text(s[k + (i - 1)])) \in Nat
      BY <1>5, <3>1, LenOf
    <3>3. B(k + i) = B(k + (i - 1)) + Len(Text(s[k + (i - 1)]))
      BY <1>8, <3>1
    <3>4. B(k) \in Nat /\ B(k + (i - 1)) \in Nat /\ B(k) <= B(k + (i - 1))
      <4>1. k + (i - 1) \in 1 .. N + 1
        BY <1>1, <3>1
      <4>2. B(k) <= B(k + (i - 1))
        BY <2>3
      <4>. QED
        BY <1>7, <4>1, <4>2
    <3>. QED
      BY <3>2, <3>3, <3>4
  <2> HIDE DEF X
  <2>4. X = 0 .. N + 1 - k
    BY <2>1, <2>2, <2>3, Induction
  <2>5. j - k \in X /\ k + (j - k) = j
    BY <1>1, <2>1, <2>4
  <2>. QED
    BY <2>5 DEF X
<1>11. B(1) = 0 /\ B(N + 1) = Len(TextOf(s)) /\ TextOf(s) \in Seq(LineSet)
  <2>1. 1 - 1 = 0 /\ (N + 1) - 1 = N /\ N \in 0 .. N
    BY <1>1
  <2>2. Len(<<>>) = 0
    OBVIOUS
  <2>. QED
    BY <1>2, <1>3, <1>4, <2>1, <2>2
<1>. QED
  BY <1>4, <1>7, <1>8, <1>9, <1>10, <1>11 DEF B, N
-----------------------------------------------------------------------------
(* What the loops on the lines build.                                      *)
Streets == Range(Headers) \cup {"none"}
ActionSet(who) == [player : who, street : Streets, type : ActionTypes \cup {"none"}, index : Nat]

\* parseActions keeps the lines that are actions.
ActionLines(lines, who, N) ==
    /\ DOMAIN lines = 1 .. N /\ Len(lines) = N
    /\ \A i \in 1 .. N : lines[i].kind \in ActionTypes => lines[i].player \in who
ActionsFound(lines, who, N, st) ==
    /\ ActionsIn(lines, st) \in Seq(ActionSet(who))
    /\ (\A i \in 1 .. N : lines[i].kind \in ActionTypes) =>
         ActionsIn(lines, st) = [i \in 1 .. N |-> [player |-> lines[i].player, street |-> st,
                                                   type |-> lines[i].kind, index |-> i - 1]]
    /\ (\A i \in 1 .. N : lines[i].kind \notin ActionTypes) => ActionsIn(lines, st) = <<>>

LEMMA ActionsInFacts ==
    ASSUME NEW who, NEW st \in Streets, NEW lines, NEW N \in Nat, ActionLines(lines, who, N)
    PROVE  ActionsFound(lines, who, N, st)
<1>0. /\ DOMAIN lines = 1 .. N /\ Len(lines) = N
      /\ \A i \in 1 .. N : lines[i].kind \in ActionTypes => lines[i].player \in who
  BY DEF ActionLines
<1> USE <1>0
<1> DEFINE S == Seq(ActionSet(who))
           Is(n) == lines[n].kind \in ActionTypes
           A(n, k) == [player |-> lines[n].player, street |-> st, type |-> lines[n].kind, index |-> k]
           D(g) == g = [n \in 0 .. Len(lines) |->
                          IF n = 0 THEN <<>>
                          ELSE IF lines[n].kind \in ActionTypes
                          THEN Append(g[n - 1], [player |-> lines[n].player, street |-> st,
                                                 type |-> lines[n].kind, index |-> Len(g[n - 1])])
                          ELSE g[n - 1]]
           E(g) == g = [n \in 0 .. N |-> IF n = 0 THEN <<>>
                                         ELSE IF Is(n) THEN Append(g[n - 1], A(n, Len(g[n - 1])))
                                         ELSE g[n - 1]]
           F == [x \in (1 .. N) \X S |-> IF Is(x[1]) THEN Append(x[2], A(x[1], Len(x[2]))) ELSE x[2]]
<1>1. <<>> \in S
  OBVIOUS
<1>2. \A n \in 1 .. N, k \in Nat : Is(n) => A(n, k) \in ActionSet(who)
  BY DEF ActionSet
<1>3. ASSUME NEW n \in 1 .. N, NEW t \in S, Is(n) PROVE Append(t, A(n, Len(t))) \in S
  <2>1. Len(t) \in Nat
    OBVIOUS
  <2>2. A(n, Len(t)) \in ActionSet(who)
    BY <1>2, <1>3, <2>1
  <2> HIDE DEF A
  <2>. QED
    BY <2>2
<1> HIDE DEF S, A, Is
<1>4. F \in [(1 .. N) \X S -> S]
  <2>1. ASSUME NEW x \in (1 .. N) \X S
        PROVE  (IF Is(x[1]) THEN Append(x[2], A(x[1], Len(x[2]))) ELSE x[2]) \in S
    <3>1. x[1] \in 1 .. N /\ x[2] \in S
      OBVIOUS
    <3>. QED
      BY <1>3, <3>1
  <2>. QED
    BY <2>1
<1>5. \A n \in 1 .. N, t \in S : F[<<n, t>>] = IF Is(n) THEN Append(t, A(n, Len(t))) ELSE t
  OBVIOUS
<1> HIDE DEF F
<1>6. PICK f : Recurs(f, N, S, <<>>, F)
  BY <1>1, <1>4, Recursion
<1>7. f \in [0 .. N -> S] /\ f[0] = <<>> /\ \A n \in 1 .. N : n - 1 \in 0 .. N /\ f[n - 1] \in S
  BY <1>6 DEF Recurs
<1>8. \A n \in 1 .. N : f[n] = IF Is(n) THEN Append(f[n - 1], A(n, Len(f[n - 1]))) ELSE f[n - 1]
  BY <1>5, <1>6, <1>7 DEF Recurs
<1>9. E(f)
  <2> DEFINE g == [n \in 0 .. N |-> IF n = 0 THEN <<>>
                                    ELSE IF Is(n) THEN Append(f[n - 1], A(n, Len(f[n - 1])))
                                    ELSE f[n - 1]]
  <2>1. ASSUME NEW n \in 0 .. N PROVE f[n] = g[n]
    <3>1. CASE n = 0
      BY <1>7, <3>1
    <3>2. CASE n # 0
      <4>1. n \in 1 .. N
        BY <3>2
      <4>. QED
        BY <1>8, <3>2, <4>1
    <3>. QED
      BY <3>1, <3>2
  <2>2. f = g
    BY <1>7, <2>1
  <2>. QED
    BY <2>2
<1>10. \A g : E(g) <=> D(g)
  BY DEF A, Is
<1> DEFINE t == CHOOSE g : D(g)
<1>11. ActionsIn(lines, st) = t[N]
  BY DEF ActionsIn
<1> HIDE DEF D
<1>12. D(t)
  BY <1>9, <1>10
<1> HIDE DEF t
<1>13. E(t)
  BY <1>10, <1>12
<1>14. t[0] = <<>> /\ \A n \in 1 .. N : t[n] = IF Is(n) THEN Append(t[n - 1], A(n, Len(t[n - 1]))) ELSE t[n - 1]
  <2>1. t = [n \in 0 .. N |-> IF n = 0 THEN <<>> ELSE IF Is(n) THEN Append(t[n - 1], A(n, Len(t[n - 1])))
                              ELSE t[n - 1]]
    BY <1>13
  <2>2. \A n \in 0 .. N : t[n] = IF n = 0 THEN <<>> ELSE IF Is(n) THEN Append(t[n - 1], A(n, Len(t[n - 1])))
                                 ELSE t[n - 1]
    BY <2>1
  <2>3. 0 \in 0 .. N /\ \A n \in 1 .. N : n \in 0 .. N /\ n # 0
    OBVIOUS
  <2>. QED
    BY <2>2, <2>3
<1> HIDE DEF E
<1>15. t[N] \in S
  <2> DEFINE X == {n \in 0 .. N : t[n] \in S}
  <2>1. X \in SUBSET (0 .. N) /\ 0 \in X
    BY <1>1, <1>14
  <2>2. ASSUME NEW n \in 1 .. N, n - 1 \in X PROVE n \in X
    <3>1. t[n - 1] \in S /\ n \in 0 .. N
      BY <2>2
    <3>2. t[n] \in S
      BY <1>3, <1>14, <3>1
    <3>. QED
      BY <3>1, <3>2
  <2> HIDE DEF X
  <2>3. X = 0 .. N
    BY <2>1, <2>2, Induction
  <2>4. N \in X
    BY <2>3
  <2>. QED
    BY <2>4 DEF X
<1>16. ASSUME \A i \in 1 .. N : Is(i) PROVE t[N] = [i \in 1 .. N |-> A(i, i - 1)]
  <2> DEFINE X == {n \in 0 .. N : t[n] = [i \in 1 .. n |-> A(i, i - 1)]}
  <2>1. 0 \in X
    BY <1>14
  <2>2. ASSUME NEW n \in 1 .. N, n - 1 \in X PROVE n \in X
    <3> DEFINE q == [i \in 1 .. n - 1 |-> A(i, i - 1)]
               r == [i \in 1 .. n |-> A(i, i - 1)]
    <3>1. t[n - 1] = q /\ n \in 0 .. N
      BY <2>2
    <3>2. Len(q) = n - 1
      <4> DEFINE Q == {A(i, i - 1) : i \in 1 .. n}
      <4>1. n - 1 \in Nat /\ \A i \in 1 .. n - 1 : A(i, i - 1) \in Q
        OBVIOUS
      <4>2. q \in [1 .. n - 1 -> Q]
        BY <4>1
      <4> HIDE DEF Q, q
      <4>. QED
        BY <4>1, <4>2, FunctionSeq
    <3>3. r = Append(q, A(n, n - 1))
      OBVIOUS
    <3>4. t[n] = r
      BY <1>14, <1>16, <3>1, <3>2, <3>3
    <3>. QED
      BY <3>1, <3>4
  <2>3. X \in SUBSET (0 .. N)
    OBVIOUS
  <2> HIDE DEF X
  <2>4. X = 0 .. N
    BY <2>1, <2>2, <2>3, Induction
  <2>5. N \in X
    BY <2>4
  <2>. QED
    BY <2>5 DEF X
<1>17. ASSUME \A i \in 1 .. N : ~Is(i) PROVE t[N] = <<>>
  <2> DEFINE X == {n \in 0 .. N : t[n] = <<>>}
  <2>1. X \in SUBSET (0 .. N) /\ 0 \in X
    BY <1>14
  <2>2. ASSUME NEW n \in 1 .. N, n - 1 \in X PROVE n \in X
    BY <1>14, <1>17, <2>2
  <2> HIDE DEF X
  <2>3. X = 0 .. N
    BY <2>1, <2>2, Induction
  <2>4. N \in X
    BY <2>3
  <2>. QED
    BY <2>4 DEF X
<1>. QED
  BY <1>11, <1>15, <1>16, <1>17 DEF ActionsFound, S, A, Is

\* What createActionForWinnersWithoutAction adds to the actions of a hand.
Completed(acts, names, all, n) ==
    /\ Len(acts) <= Len(all) /\ \A i \in 1 .. Len(acts) : all[i] = acts[i]
    /\ \A i \in Len(acts) + 1 .. Len(all) : all[i].type = "none"
    /\ \A i \in 1 .. n : \E j \in 1 .. Len(all) : all[j].player = names[i]

LEMMA WithWinnersFacts ==
    ASSUME NEW who, NEW st \in Streets, NEW acts \in Seq(ActionSet(who)), NEW names \in Seq(who)
    PROVE  /\ WithWinners(acts, names, st) \in Seq(ActionSet(who))
           /\ Completed(acts, names, WithWinners(acts, names, st), Len(names))
<1> DEFINE S == Seq(ActionSet(who))
           N == Len(names)
           New(n) == \A i \in DOMAIN acts : acts[i].player # names[n]
           A(n, k) == [player |-> names[n], street |-> st, type |-> "none", index |-> k]
           D(g) == g = [n \in 0 .. Len(names) |->
                          IF n = 0 THEN acts
                          ELSE IF \A i \in DOMAIN acts : acts[i].player # names[n]
                          THEN Append(g[n - 1], [player |-> names[n], street |-> st, type |-> "none",
                                                 index |-> Len(g[n - 1])])
                          ELSE g[n - 1]]
           E(g) == g = [n \in 0 .. N |-> IF n = 0 THEN acts
                                         ELSE IF New(n) THEN Append(g[n - 1], A(n, Len(g[n - 1])))
                                         ELSE g[n - 1]]
           F == [x \in (1 .. N) \X S |-> IF New(x[1]) THEN Append(x[2], A(x[1], Len(x[2]))) ELSE x[2]]
<1>1. acts \in S /\ N \in Nat /\ \A n \in 1 .. N : names[n] \in who
  BY ElementOf
<1>2. \A n \in 1 .. N, k \in Nat : A(n, k) \in ActionSet(who) /\ A(n, k).player = names[n] /\ A(n, k).type = "none"
  BY <1>1 DEF ActionSet
<1>3. ASSUME NEW n \in 1 .. N, NEW t \in S
      PROVE  /\ Append(t, A(n, Len(t))) \in S /\ A(n, Len(t)).player = names[n] /\ A(n, Len(t)).type = "none"
             /\ Len(t) \in Nat
  <2>1. Len(t) \in Nat
    OBVIOUS
  <2>2. A(n, Len(t)) \in ActionSet(who) /\ A(n, Len(t)).player = names[n] /\ A(n, Len(t)).type = "none"
    BY <1>2, <2>1
  <2> HIDE DEF A
  <2>. QED
    BY <2>1, <2>2
<1> HIDE DEF S, A, New, N
<1>4. F \in [(1 .. N) \X S -> S]
  <2>1. ASSUME NEW x \in (1 .. N) \X S
        PROVE  (IF New(x[1]) THEN Append(x[2], A(x[1], Len(x[2]))) ELSE x[2]) \in S
    <3>1. x[1] \in 1 .. N /\ x[2] \in S
      OBVIOUS
    <3>. QED
      BY <1>3, <3>1
  <2>. QED
    BY <2>1
<1>5. \A n \in 1 .. N, t \in S : F[<<n, t>>] = IF New(n) THEN Append(t, A(n, Len(t))) ELSE t
  OBVIOUS
<1> HIDE DEF F
<1>6. PICK f : Recurs(f, N, S, acts, F)
  BY <1>1, <1>4, Recursion
<1>7. f \in [0 .. N -> S] /\ f[0] = acts /\ \A n \in 1 .. N : n - 1 \in 0 .. N /\ f[n - 1] \in S
  BY <1>1, <1>6 DEF Recurs
<1>8. \A n \in 1 .. N : f[n] = IF New(n) THEN Append(f[n - 1], A(n, Len(f[n - 1]))) ELSE f[n - 1]
  BY <1>5, <1>6, <1>7 DEF Recurs
<1>9. E(f)
  <2> DEFINE g == [n \in 0 .. N |-> IF n = 0 THEN acts
                                    ELSE IF New(n) THEN Append(f[n - 1], A(n, Len(f[n - 1])))
                                    ELSE f[n - 1]]
  <2>1. ASSUME NEW n \in 0 .. N PROVE f[n] = g[n]
    <3>1. CASE n = 0
      BY <1>7, <3>1
    <3>2. CASE n # 0
      <4>1. n \in 1 .. N
        BY <1>1, <3>2
      <4>. QED
        BY <1>8, <3>2, <4>1
    <3>. QED
      BY <3>1, <3>2
  <2>2. f = g
    BY <1>7, <2>1
  <2>. QED
    BY <2>2
<1>10. \A g : E(g) <=> D(g)
  BY DEF A, New, N
<1> DEFINE t == CHOOSE g : D(g)
<1>11. WithWinners(acts, names, st) = t[N]
  BY DEF WithWinners, N
<1> HIDE DEF D
<1>12. D(t)
  BY <1>9, <1>10
<1> HIDE DEF t
<1>13. E(t)
  BY <1>10, <1>12
<1>14. t[0] = acts /\ \A n \in 1 .. N : t[n] = IF New(n) THEN Append(t[n - 1], A(n, Len(t[n - 1]))) ELSE t[n - 1]
  <2>1. t = [n \in 0 .. N |-> IF n = 0 THEN acts ELSE IF New(n) THEN Append(t[n - 1], A(n, Len(t[n - 1])))
                              ELSE t[n - 1]]
    BY <1>13
  <2>2. \A n \in 0 .. N : t[n] = IF n = 0 THEN acts ELSE IF New(n) THEN Append(t[n - 1], A(n, Len(t[n - 1])))
                                 ELSE t[n - 1]
    BY <2>1
  <2>3. 0 \in 0 .. N /\ \A n \in 1 .. N : n \in 0 .. N /\ n # 0
    BY <1>1
  <2>. QED
    BY <2>2, <2>3
<1> HIDE DEF E
<1> DEFINE X == {n \in 0 .. N : t[n] \in S /\ Completed(acts, names, t[n], n)}
<1>15. X \in SUBSET (0 .. N) /\ 0 \in X
  <2>1. Completed(acts, names, acts, 0)
    <3>1. Len(acts) \in Nat
      OBVIOUS
    <3>. QED
      BY <3>1 DEF Completed
  <2>. QED
    BY <1>1, <1>14, <2>1
<1>16. ASSUME NEW n \in 1 .. N, n - 1 \in X PROVE n \in X
  <2> DEFINE q == t[n - 1]
             r == t[n]
             new == A(n, Len(q))
  <2>1. q \in S /\ Completed(acts, names, q, n - 1) /\ n \in 0 .. N
    BY <1>1, <1>16
  <2>2. r = IF New(n) THEN Append(q, new) ELSE q
    BY <1>14
  <2>3. Append(q, new) \in S /\ new.player = names[n] /\ new.type = "none" /\ Len(q) \in Nat
    BY <1>3, <2>1
  <2> HIDE DEF q, r, new, X
  <2>4. CASE New(n)
    <3>1. r \in S /\ Len(r) = Len(q) + 1 /\ r[Len(q) + 1] = new /\ \A i \in 1 .. Len(q) : r[i] = q[i]
      BY <2>1, <2>2, <2>3, <2>4 DEF S
    <3>2. Len(acts) \in Nat /\ Len(acts) <= Len(q) /\ \A i \in 1 .. Len(acts) : q[i] = acts[i]
      BY <2>1 DEF Completed
    <3>3. Len(acts) <= Len(r) /\ \A i \in 1 .. Len(acts) : r[i] = acts[i]
      BY <2>3, <3>1, <3>2
    <3>4. ASSUME NEW i \in Len(acts) + 1 .. Len(r) PROVE r[i].type = "none"
      <4>1. i \in Len(acts) + 1 .. Len(q) \/ i = Len(q) + 1
        BY <2>3, <3>1, <3>2
      <4>2. i \in Len(acts) + 1 .. Len(q) => i \in 1 .. Len(q) /\ q[i].type = "none"
        BY <2>1, <2>3, <3>2 DEF Completed
      <4>. QED
        BY <2>3, <3>1, <4>1, <4>2
    <3>5. ASSUME NEW i \in 1 .. n PROVE \E j \in 1 .. Len(r) : r[j].player = names[i]
      <4>1. CASE i = n
        BY <2>3, <3>1, <4>1
      <4>2. CASE i # n
        <5>1. i \in 1 .. n - 1
          BY <4>2
        <5>2. PICK j \in 1 .. Len(q) : q[j].player = names[i]
          BY <2>1, <5>1 DEF Completed
        <5>3. j \in 1 .. Len(r) /\ r[j] = q[j]
          BY <2>3, <3>1, <5>2
        <5>. QED
          BY <5>2, <5>3
      <4>. QED
        BY <4>1, <4>2
    <3>6. Completed(acts, names, r, n)
      BY <3>3, <3>4, <3>5 DEF Completed
    <3>. QED
      BY <2>1, <3>1, <3>6 DEF X, r
  <2>5. CASE ~New(n)
    <3>1. PICK k \in DOMAIN acts : acts[k].player = names[n]
      BY <2>5 DEF New
    <3>2. k \in 1 .. Len(acts) /\ Len(acts) \in Nat
      OBVIOUS
    <3>3. Len(acts) <= Len(q) /\ q[k] = acts[k]
      BY <2>1, <3>2 DEF Completed
    <3>4. k \in 1 .. Len(q) /\ q[k].player = names[n]
      BY <2>3, <3>1, <3>2, <3>3
    <3>5. ASSUME NEW i \in 1 .. n PROVE \E j \in 1 .. Len(q) : q[j].player = names[i]
      <4>1. i = n \/ i \in 1 .. n - 1
        OBVIOUS
      <4>2. i \in 1 .. n - 1 => \E j \in 1 .. Len(q) : q[j].player = names[i]
        BY <2>1 DEF Completed
      <4>. QED
        BY <3>4, <4>1, <4>2
    <3>6. Completed(acts, names, q, n)
      BY <2>1, <3>5 DEF Completed
    <3>. QED
      BY <2>1, <2>2, <2>5, <3>6 DEF X, r
  <2>. QED
    BY <2>4, <2>5
<1> HIDE DEF X
<1>17. X = 0 .. N
  BY <1>1, <1>15, <1>16, Induction
<1>18. N \in X
  BY <1>1, <1>17
<1>. QED
  BY <1>11, <1>18 DEF X, S, N

\* The actions of the rounds that come before round i.
OnRound(h, i) == IF i = 5 THEN <<>> ELSE OnStreet(h, i)
Before(h, i) == CASE i = 1 -> <<>>
                  [] i = 2 -> OnStreet(h, 1)
                  [] i = 3 -> OnStreet(h, 1) \o OnStreet(h, 2)
                  [] i = 4 -> OnStreet(h, 1) \o OnStreet(h, 2) \o OnStreet(h, 3)
                  [] OTHER -> ActionsOf(h)

LEMMA OnRoundFacts ==
    ASSUME NEW h \in Scripts, NEW i \in 1 .. 5
    PROVE  /\ OnRound(h, i) \in Seq(ActionSet(Range(h.seats)))
           /\ Len(Round(h, i)) = 0 => OnRound(h, i) = <<>>
           /\ Len(Round(h, i)) > 0 =>
                /\ Round(h, i)[1].kind \notin ActionTokens \cup {"collected", "dealt", "posts"}
                /\ StreetOf(Round(h, i)[1]) \in Streets
                /\ \A j \in 1 .. Len(Round(h, i)) - 1 : Round(h, i)[1 + j].kind \in ActionTokens
                /\ i = 5 => \A j \in 1 .. Len(Round(h, i)) - 1 : Round(h, i)[1 + j].kind = "shows"
                /\ i # 5 => /\ \A j \in 1 .. Len(Round(h, i)) - 1 :
                                 /\ Round(h, i)[1 + j].kind \in ActionTypes
                                 /\ Round(h, i)[1 + j].player \in Range(h.seats)
                            /\ OnRound(h, i) = [j \in 1 .. Len(Round(h, i)) - 1 |->
                                 [player |-> Round(h, i)[1 + j].player, street |-> StreetOf(Round(h, i)[1]),
                                  type |-> Round(h, i)[1 + j].kind, index |-> j - 1]]
<1> DEFINE R == Round(h, i)
           P == Played(h, i)
           acts == h.streets[i]
<1>1. Range(Headers) = {"preflop", "flop", "turn", "river"}
  BY DEF Headers, Range
<1>2. CASE i = 5
  <2>1. OnRound(h, i) = <<>> /\ R = Shown(h)
    BY <1>2 DEF OnRound, Round
  <2>2. CASE h.shows = <<>>
    <3>1. R = <<>> /\ Len(R) = 0
      BY <2>1, <2>2 DEF Shown
    <3>2. OnRound(h, i) \in Seq(ActionSet(Range(h.seats)))
      BY <2>1
    <3>. QED
      BY <2>1, <3>1, <3>2
  <2>3. CASE h.shows # <<>>
    <3> DEFINE x == Line("showdown")
               q == Lines("shows", h.shows)
    <3>1. {"showdown", "shows"} \subseteq Kinds /\ h.shows \in Seq(Players)
      BY ScriptFacts DEF Kinds
    <3>2. x \in LineSet /\ x.kind = "showdown"
      BY <3>1, LineType
    <3>3. q \in Seq(LineSet) /\ \A j \in 1 .. Len(q) : q[j].kind = "shows"
      <4>1. "shows" \in Kinds
        BY <3>1
      <4>. QED
        BY <3>1, <4>1, LinesType
    <3>4. R = <<x>> \o q
      BY <2>1, <2>3 DEF Shown
    <3> HIDE DEF x, q, R
    <3>5. Len(R) = 1 + Len(q) /\ R[1] = x /\ Len(q) \in Nat /\ \A j \in 1 .. Len(q) : R[1 + j] = q[j]
      BY <3>2, <3>3, <3>4
    <3>6. Len(R) - 1 = Len(q) /\ Len(R) # 0
      BY <3>5
    <3>7. R[1].kind \notin ActionTokens \cup {"collected", "dealt", "posts"}
      BY <3>2, <3>5 DEF ActionTokens, ActionTypes
    <3>8. StreetOf(R[1]) = "river"
      BY <3>2, <3>5 DEF StreetOf
    <3>9. \A j \in 1 .. Len(R) - 1 : R[1 + j].kind = "shows"
      BY <3>3, <3>5, <3>6
    <3>10. "shows" \in ActionTokens /\ "river" \in Streets
      BY <1>1 DEF ActionTokens, Streets
    <3>11. OnRound(h, i) \in Seq(ActionSet(Range(h.seats)))
      BY <2>1
    <3>. QED
      BY <1>2, <3>6, <3>7, <3>8, <3>9, <3>10, <3>11 DEF R
  <2>. QED
    BY <2>2, <2>3
<1>3. CASE i # 5 /\ i \notin 1 .. Len(h.streets)
  <2>1. DOMAIN h.streets = 1 .. Len(h.streets)
    BY ScriptFacts, Zenon
  <2>2. R = <<>> /\ OnRound(h, i) = <<>>
    BY <1>3, <2>1 DEF Round, Street, OnRound, OnStreet
  <2>3. Len(R) = 0 /\ OnRound(h, i) \in Seq(ActionSet(Range(h.seats)))
    BY <2>2
  <2>. QED
    BY <2>2, <2>3
<1>4. CASE i # 5 /\ i \in 1 .. Len(h.streets)
  <2> DEFINE x == Line(Headers[i])
  <2>1. DOMAIN h.streets = 1 .. Len(h.streets)
    BY ScriptFacts, Zenon
  <2>2. i \in 1 .. 4 /\ Headers[i] \in {"preflop", "flop", "turn", "river"}
    BY <1>4, HeaderKinds
  <2>3. Headers[i] \in Kinds
    BY <2>2 DEF Kinds
  <2>4. x \in LineSet /\ x.kind = Headers[i]
    BY <2>3, LineType
  <2>5. /\ P \in Seq(LineSet) /\ Len(P) = Len(acts)
        /\ \A j \in 1 .. Len(acts) : /\ P[j].kind = acts[j].type /\ P[j].player = acts[j].player
                                     /\ acts[j].type \in ActionTypes /\ acts[j].player \in Range(h.seats)
    BY <1>4, PlayedFacts
  <2>6. acts \in Seq([type : ActionTypes, player : Range(h.seats)])
    <3>1. h.streets \in Seq(Seq([type : ActionTypes, player : Range(h.seats)]))
      BY ScriptFacts, Zenon
    <3>. QED
      BY <1>4, <3>1, ElementOf
  <2>7. DOMAIN acts = 1 .. Len(acts) /\ Len(acts) \in Nat
    BY <2>6, LenOf
  <2>8. R = <<x>> \o P
    BY <1>4, <2>1 DEF Round, Street
  <2>9. OnRound(h, i) = [j \in 1 .. Len(acts) |-> [player |-> acts[j].player, street |-> Headers[i],
                                                  type |-> acts[j].type, index |-> j - 1]]
    BY <1>4, <2>1, <2>7 DEF OnRound, OnStreet
  <2> HIDE DEF x, R, P, acts
  <2>10. Len(R) = 1 + Len(P) /\ R[1] = x /\ \A j \in 1 .. Len(P) : R[1 + j] = P[j]
    BY <2>4, <2>5, <2>8
  <2>11. Len(R) - 1 = Len(acts) /\ Len(R) # 0
    BY <2>5, <2>7, <2>10
  <2>12. R[1].kind \notin ActionTokens \cup {"collected", "dealt", "posts"}
    BY <2>2, <2>4, <2>10 DEF ActionTokens, ActionTypes
  <2>13. StreetOf(R[1]) = Headers[i]
    BY <2>2, <2>4, <2>10 DEF StreetOf
  <2>14. Headers[i] \in Streets
    BY <1>1, <2>2 DEF Streets
  <2>15. \A j \in 1 .. Len(acts) : /\ R[1 + j].kind = acts[j].type /\ R[1 + j].player = acts[j].player
                                   /\ acts[j].type \in ActionTypes /\ acts[j].player \in Range(h.seats)
    BY <2>5, <2>10
  <2>16. \A j \in 1 .. Len(R) - 1 : R[1 + j].kind \in ActionTypes /\ R[1 + j].player \in Range(h.seats)
    BY <2>11, <2>15
  <2>17. OnRound(h, i) = [j \in 1 .. Len(R) - 1 |-> [player |-> R[1 + j].player, street |-> StreetOf(R[1]),
                                                    type |-> R[1 + j].kind, index |-> j - 1]]
    BY <2>9, <2>11, <2>13, <2>15
  <2>18. OnRound(h, i) \in Seq(ActionSet(Range(h.seats)))
    <3>1. \A j \in 1 .. Len(acts) : [player |-> acts[j].player, street |-> Headers[i],
                                     type |-> acts[j].type, index |-> j - 1] \in ActionSet(Range(h.seats))
      BY <2>7, <2>14, <2>15 DEF ActionSet
    <3>2. OnRound(h, i) \in [1 .. Len(acts) -> ActionSet(Range(h.seats))]
      BY <2>9, <3>1
    <3>. QED
      BY <2>7, <3>2, FunctionSeq
  <2>19. ActionTypes \subseteq ActionTokens
    BY DEF ActionTokens
  <2>. QED
    BY <1>4, <2>11, <2>12, <2>13, <2>14, <2>16, <2>17, <2>18, <2>19 DEF R
<1>. QED
  BY <1>2, <1>3, <1>4

LEMMA BeforeFacts ==
    ASSUME NEW h \in Scripts
    PROVE  /\ \A i \in 1 .. 6 : Before(h, i) \in Seq(ActionSet(Range(h.seats)))
           /\ \A i \in 1 .. 5 : Before(h, i + 1) = Before(h, i) \o OnRound(h, i)
           /\ Before(h, 1) = <<>> /\ Before(h, 6) = ActionsOf(h)
<1> DEFINE S == ActionSet(Range(h.seats))
           o1 == OnStreet(h, 1)
           o2 == OnStreet(h, 2)
           o3 == OnStreet(h, 3)
           o4 == OnStreet(h, 4)
           B(i) == Before(h, i)
<1>1. o1 \in Seq(S) /\ o2 \in Seq(S) /\ o3 \in Seq(S) /\ o4 \in Seq(S) /\ <<>> \in Seq(S)
  <2>1. \A i \in 1 .. 4 : OnRound(h, i) \in Seq(S) /\ OnRound(h, i) = OnStreet(h, i)
    BY OnRoundFacts DEF OnRound
  <2>. QED
    BY <2>1
<1>2. /\ B(1) = <<>> /\ B(2) = o1 /\ B(3) = o1 \o o2 /\ B(4) = o1 \o o2 \o o3
      /\ B(5) = o1 \o o2 \o o3 \o o4 /\ B(6) = B(5) /\ B(6) = ActionsOf(h)
  BY DEF Before, ActionsOf
<1>3. /\ OnRound(h, 1) = o1 /\ OnRound(h, 2) = o2 /\ OnRound(h, 3) = o3 /\ OnRound(h, 4) = o4
      /\ OnRound(h, 5) = <<>>
  BY DEF OnRound
<1> HIDE DEF S, o1, o2, o3, o4, B
<1>4. /\ B(1) \in Seq(S) /\ B(2) \in Seq(S) /\ B(3) \in Seq(S) /\ B(4) \in Seq(S) /\ B(5) \in Seq(S)
      /\ B(6) \in Seq(S)
  <2>1. o1 \o o2 \in Seq(S)
    BY <1>1, Concat
  <2>2. o1 \o o2 \o o3 \in Seq(S)
    BY <1>1, <2>1, Concat
  <2>3. o1 \o o2 \o o3 \o o4 \in Seq(S)
    BY <1>1, <2>2, Concat
  <2>. QED
    BY <1>1, <1>2, <2>1, <2>2, <2>3
<1>5. /\ <<>> \o o1 = o1 /\ B(5) \o <<>> = B(5)
  BY <1>1, <1>4
<1>6. /\ B(2) = B(1) \o OnRound(h, 1) /\ B(3) = B(2) \o OnRound(h, 2) /\ B(4) = B(3) \o OnRound(h, 3)
      /\ B(5) = B(4) \o OnRound(h, 4) /\ B(6) = B(5) \o OnRound(h, 5)
  BY <1>2, <1>3, <1>5
<1>7. \A i \in 1 .. 5 : B(i + 1) = B(i) \o OnRound(h, i)
  <2>1. \A i \in 1 .. 5 : i = 1 \/ i = 2 \/ i = 3 \/ i = 4 \/ i = 5
    OBVIOUS
  <2>2. 1 + 1 = 2 /\ 2 + 1 = 3 /\ 3 + 1 = 4 /\ 4 + 1 = 5 /\ 5 + 1 = 6
    OBVIOUS
  <2>. QED
    BY <1>6, <2>1, <2>2
<1>8. \A i \in 1 .. 6 : i = 1 \/ i = 2 \/ i = 3 \/ i = 4 \/ i = 5 \/ i = 6
  OBVIOUS
<1>9. \A i \in 1 .. 6 : B(i) \in Seq(S)
  BY <1>4, <1>8
<1>. QED
  BY <1>2, <1>7, <1>9 DEF B, S

\* The round that the lines after those of the first i - 1 rounds belong to.
LEMMA NextRound ==
    ASSUME NEW h \in Scripts, NEW b \in Nat, NEW i \in 1 .. 6
    PROVE  \E j \in i .. 6 : /\ RoundAt(h, b, j) = RoundAt(h, b, i) /\ Before(h, j) = Before(h, i)
                             /\ j = 6 \/ Len(Round(h, j)) > 0
<1> DEFINE P(k) == \E j \in k .. 6 : /\ RoundAt(h, b, j) = RoundAt(h, b, k) /\ Before(h, j) = Before(h, k)
                                     /\ j = 6 \/ Len(Round(h, j)) > 0
<1>1. P(6)
  OBVIOUS
<1>2. ASSUME NEW k \in 1 .. 5, P(k + 1) PROVE P(k)
  <2>1. Len(Round(h, k)) \in Nat
    BY RoundTypes, LenOf
  <2>2. CASE Len(Round(h, k)) > 0
    <3>1. k \in k .. 6
      OBVIOUS
    <3>. QED
      BY <2>2, <3>1
  <2>3. CASE Len(Round(h, k)) = 0
    <3>1. RoundAt(h, b, k + 1) = RoundAt(h, b, k) + Len(Round(h, k)) /\ RoundAt(h, b, k) \in Nat
      BY PositionsOrder
    <3>2. RoundAt(h, b, k + 1) = RoundAt(h, b, k)
      BY <2>3, <3>1
    <3>3. OnRound(h, k) = <<>> /\ Before(h, k + 1) = Before(h, k) \o OnRound(h, k)
      BY <2>3, OnRoundFacts, BeforeFacts, ZenonT(60)
    <3>4. Before(h, k) \in Seq(ActionSet(Range(h.seats)))
      BY BeforeFacts, SMTT(30)
    <3>5. Before(h, k + 1) = Before(h, k)
      BY <3>3, <3>4
    <3>6. PICK j \in k + 1 .. 6 : /\ RoundAt(h, b, j) = RoundAt(h, b, k + 1) /\ Before(h, j) = Before(h, k + 1)
                                  /\ j = 6 \/ Len(Round(h, j)) > 0
      BY <1>2
    <3>7. j \in k .. 6
      OBVIOUS
    <3>. QED
      BY <3>2, <3>5, <3>6, <3>7
  <2>. QED
    BY <2>1, <2>2, <2>3
<1> HIDE DEF P
<1>3. P(5) /\ P(4) /\ P(3) /\ P(2) /\ P(1)
  <2>1. 5 + 1 = 6 /\ 4 + 1 = 5 /\ 3 + 1 = 4 /\ 2 + 1 = 3 /\ 1 + 1 = 2
    OBVIOUS
  <2>2. P(5)
    BY <1>1, <1>2, <2>1
  <2>3. P(4)
    BY <1>2, <2>1, <2>2
  <2>4. P(3)
    BY <1>2, <2>1, <2>3
  <2>5. P(2)
    BY <1>2, <2>1, <2>4
  <2>. QED
    BY <1>2, <2>1, <2>2, <2>3, <2>4, <2>5
<1>4. i = 1 \/ i = 2 \/ i = 3 \/ i = 4 \/ i = 5 \/ i = 6
  OBVIOUS
<1>5. P(i)
  BY <1>1, <1>3, <1>4
<1>. QED
  BY <1>5 DEF P
-----------------------------------------------------------------------------
(* The files, and where the loops on their lines stop.                     *)
TextFile(f) ==
    /\ f.scripts \in Seq(Scripts) /\ Len(f.scripts) <= MaxHands /\ Len(f.scripts) \in Nat
    /\ Len(f.lines) \in Nat
    /\ Len(f.scripts) = 0 => Len(f.lines) = 0
    /\ Len(f.scripts) > 0 =>
         /\ f.stem = "game"
         /\ Len(f.lines) \in Start(f.scripts, Len(f.scripts)) + 1 .. Len(TextOf(f.scripts))
         /\ \A q \in 1 .. Len(f.lines) :
              \/ f.lines[q] = TextOf(f.scripts)[q]
              \/ q = Len(f.lines) /\ f.lines[q].kind = "garbled" /\ ~f.ended /\ ~f.whole
         /\ f.whole => f.ended /\ Len(f.lines) = Len(TextOf(f.scripts))

LEMMA CutFacts ==
    ASSUME NEW s \in Seq(Scripts), Len(s) \in 1 .. MaxHands,
           NEW n \in Start(s, Len(s)) + 1 .. Len(TextOf(s)), NEW end \in {"newline", "none", "garbled"}
    PROVE  TextFile(Cut(s, n, end)) /\ Cut(s, n, end).scripts = s
<1> DEFINE T == TextOf(s)
           lines == SubSeq(T, 1, n)
           x == Line("garbled")
           f == Cut(s, n, end)
<1>1. T \in Seq(LineSet) /\ Len(T) \in Nat /\ Start(s, Len(s)) \in Nat
  <2>1. Len(s) \in 1 .. Len(s) + 1
    OBVIOUS
  <2>. QED
    BY <2>1, HandsInText, LenOf
<1>2. n \in 1 .. Len(T)
  BY <1>1
<1>3. lines \in Seq(LineSet) /\ Len(lines) = n /\ \A q \in 1 .. n : lines[q] = T[q]
  BY <1>1, <1>2
<1>4. x.kind = "garbled"
  BY DEF Line
<1>5. /\ f.scripts = s /\ f.stem = "game" /\ f.ended = (end = "newline")
      /\ f.whole = (end = "newline" /\ n = Len(T))
      /\ f.lines = IF end = "garbled" THEN [lines EXCEPT ![n] = x] ELSE lines
  BY DEF Cut
<1>6. Len(s) \in Nat /\ Len(s) <= MaxHands /\ Len(s) # 0
  BY HandsAssumption
<1> HIDE DEF T, lines, x, f
<1>7. /\ Len(f.lines) = n
      /\ \A q \in 1 .. n : \/ f.lines[q] = T[q]
                           \/ q = n /\ f.lines[q].kind = "garbled" /\ ~f.ended /\ ~f.whole
  <2>1. CASE end = "garbled"
    <3> DEFINE g == [lines EXCEPT ![n] = x]
    <3>1. f.lines = g /\ ~f.ended /\ ~f.whole
      BY <1>5, <2>1
    <3>2. g \in [1 .. n -> LineSet \cup {x}] /\ g[n] = x /\ \A q \in 1 .. n : q # n => g[q] = lines[q]
      BY <1>2, <1>3
    <3> HIDE DEF g
    <3>3. n \in Nat
      BY <1>2
    <3>4. Len(g) = n
      BY <3>2, <3>3, FunctionSeq
    <3>. QED
      BY <1>3, <1>4, <3>1, <3>2, <3>4
  <2>2. CASE end # "garbled"
    BY <1>3, <1>5, <2>2
  <2>. QED
    BY <2>1, <2>2
<1>8. n \in Nat /\ (f.whole => f.ended /\ n = Len(T))
  <2>1. n \in Nat
    BY <1>1, <1>2
  <2>2. f.whole => f.ended /\ n = Len(T)
    BY <1>5, Zenon
  <2>. QED
    BY <2>1, <2>2
<1>. QED
  BY <1>5, <1>6, <1>7, <1>8 DEF TextFile, f, T

LEMMA FileFacts == ASSUME NEW f \in Files PROVE TextFile(f)
<1>1. CASE \E stem : f = NoHand(stem)
  <2>1. f.scripts = <<>> /\ f.lines = <<>>
    BY <1>1 DEF NoHand
  <2>2. f.scripts \in Seq(Scripts) /\ Len(f.scripts) = 0 /\ Len(f.lines) = 0
    BY <2>1
  <2>. QED
    BY <2>2, HandsAssumption DEF TextFile
<1>2. CASE \E s \in BoundedSeq(Scripts, MaxHands) \ {<<>>} : \E n \in Start(s, Len(s)) + 1 .. Len(TextOf(s)),
              end \in {"newline", "none", "garbled"} : f = Cut(s, n, end)
  <2>1. PICK s \in BoundedSeq(Scripts, MaxHands) \ {<<>>} : \E n \in Start(s, Len(s)) + 1 .. Len(TextOf(s)),
              end \in {"newline", "none", "garbled"} : f = Cut(s, n, end)
    BY <1>2
  <2>2. PICK n \in Start(s, Len(s)) + 1 .. Len(TextOf(s)) : \E end \in {"newline", "none", "garbled"} :
              f = Cut(s, n, end)
    BY <2>1
  <2>3. PICK end \in {"newline", "none", "garbled"} : f = Cut(s, n, end)
    BY <2>2
  <2>4. PICK m \in 0 .. MaxHands : s \in [1 .. m -> Scripts]
    BY DEF BoundedSeq, SeqOf
  <2>5. m \in Nat /\ s # <<>>
    BY HandsAssumption
  <2>6. s \in Seq(Scripts) /\ Len(s) = m
    BY <2>4, <2>5, FunctionSeq
  <2>7. Len(s) # 0
    BY <2>5, <2>6
  <2>8. Len(s) \in 1 .. MaxHands
    BY <2>5, <2>6, <2>7, HandsAssumption
  <2>. QED
    BY <2>3, <2>6, <2>8, CutFacts
<1>3. \/ \E stem : f = NoHand(stem)
      \/ \E s \in BoundedSeq(Scripts, MaxHands) \ {<<>>} : \E n \in Start(s, Len(s)) + 1 .. Len(TextOf(s)),
              end \in {"newline", "none", "garbled"} : f = Cut(s, n, end)
  <2>1. CASE f \in UNION {CutFiles(s) : s \in BoundedSeq(Scripts, MaxHands) \ {<<>>}}
    <3>1. PICK s \in BoundedSeq(Scripts, MaxHands) \ {<<>>} : f \in CutFiles(s)
      BY <2>1
    <3>. QED
      BY <3>1 DEF CutFiles
  <2>2. CASE f \in {NoHand(stem) : stem \in {"game", "short", "duplicate", "unknown"}}
    BY <2>2
  <2>. QED
    BY <2>1, <2>2 DEF Files
<1>. QED
  BY <1>1, <1>2, <1>3

\* The line at q is the one of the text.
Real(f, q) == q \in 1 .. Len(f.lines) /\ LineAt(f, q) = TextOf(f.scripts)[q]

LEMMA LineCases ==
    ASSUME NEW f, TextFile(f), Len(f.scripts) > 0, NEW q \in 1 .. Len(f.lines) + 1
    PROVE  /\ Len(f.lines) > 0 /\ NextIndex(f, Len(f.lines)) = Len(f.lines) + 1
           /\ NextIndex(f, Len(f.lines) + 1) = Len(f.lines) + 1
           /\ \/ Real(f, q)
              \/ /\ q = Len(f.lines) /\ ~f.whole /\ LineAt(f, q).kind = "garbled"
                 /\ LineAt(f, Len(f.lines) + 1).kind = "garbled"
              \/ q = Len(f.lines) + 1 /\ LineAt(f, q) = IF f.ended THEN Line("") ELSE LineAt(f, Len(f.lines))
<1> DEFINE L == Len(f.lines)
           s == f.scripts
<1>1. /\ s \in Seq(Scripts) /\ Len(s) \in Nat /\ L \in Nat
      /\ L \in Start(s, Len(s)) + 1 .. Len(TextOf(s))
      /\ \A i \in 1 .. L : \/ f.lines[i] = TextOf(s)[i]
                           \/ i = L /\ f.lines[i].kind = "garbled" /\ ~f.ended /\ ~f.whole
  BY DEF TextFile
<1>2. Start(s, Len(s)) \in Nat
  <2>1. Len(s) \in 1 .. Len(s) + 1
    BY <1>1
  <2>. QED
    BY <1>1, <2>1, HandsInText
<1>3. L > 0
  BY <1>1, <1>2
<1>4. /\ \A i \in 1 .. L : LineAt(f, i) = f.lines[i]
      /\ LineAt(f, L + 1) = IF f.ended THEN Line("") ELSE f.lines[L]
  <2>1. \A i : LineAt(f, i) = IF i <= L THEN f.lines[i] ELSE IF f.ended THEN Line("") ELSE f.lines[L]
    BY DEF LineAt, Last
  <2>2. L \in Nat
    BY <1>1
  <2> HIDE DEF L
  <2>3. (\A i \in 1 .. L : i <= L) /\ ~(L + 1 <= L)
    BY <2>2
  <2>4. \A i \in 1 .. L : LineAt(f, i) = f.lines[i]
    BY <2>1, <2>3, Zenon
  <2>5. LineAt(f, L + 1) = IF f.ended THEN Line("") ELSE f.lines[L]
    BY <2>1, <2>3, Zenon
  <2>. QED
    BY <2>4, <2>5
<1>5. NextIndex(f, L) = L + 1 /\ NextIndex(f, L + 1) = L + 1
  BY <1>1 DEF NextIndex
<1> HIDE DEF L, s
<1>6. q \in 1 .. L \/ q = L + 1
  BY <1>1 DEF L
<1>7. L \in 1 .. L
  BY <1>1, <1>3
<1>8. CASE q \in 1 .. L
  <2>1. LineAt(f, q) = TextOf(s)[q] \/ (q = L /\ f.lines[q].kind = "garbled" /\ ~f.ended /\ ~f.whole)
    BY <1>1, <1>4, <1>8
  <2>2. q = L /\ ~f.ended => LineAt(f, L + 1) = f.lines[q] /\ LineAt(f, q) = f.lines[q]
    BY <1>4, <1>8
  <2>. QED
    BY <1>3, <1>5, <1>8, <2>1, <2>2 DEF Real, L, s
<1>9. CASE q = L + 1
  BY <1>3, <1>4, <1>5, <1>7, <1>9 DEF L
<1>. QED
  BY <1>6, <1>8, <1>9

\* Where the text of a hand is in the file.
LEMMA HandPlace ==
    ASSUME NEW f, TextFile(f), NEW k \in 1 .. Len(f.scripts)
    PROVE  /\ f.scripts[k] \in Scripts /\ Start(f.scripts, k) \in Nat /\ TextOf(f.scripts) \in Seq(LineSet)
           /\ Layout(TextOf(f.scripts), f.scripts[k], Start(f.scripts, k))
           /\ Start(f.scripts, k) < Len(f.lines)
           /\ EmptyAt(f.scripts[k], Start(f.scripts, k)) + 2 = Start(f.scripts, k + 1)
           /\ Start(f.scripts, k + 1) <= Len(TextOf(f.scripts)) /\ Len(TextOf(f.scripts)) \in Nat
           /\ Len(f.lines) <= Len(TextOf(f.scripts)) /\ Len(f.lines) \in Nat
           /\ k < Len(f.scripts) => Start(f.scripts, k + 1) < Len(f.lines)
           /\ k = Len(f.scripts) => Start(f.scripts, k + 1) = Len(TextOf(f.scripts))
           /\ f.whole => f.ended /\ Len(f.lines) = Len(TextOf(f.scripts))
<1> DEFINE s == f.scripts
           T == TextOf(s)
           L == Len(f.lines)
           N == Len(s)
<1>1. /\ s \in Seq(Scripts) /\ N \in Nat /\ L \in Nat /\ N > 0
      /\ L \in Start(s, N) + 1 .. Len(T) /\ (f.whole => f.ended /\ L = Len(T))
  BY DEF TextFile
<1>2. /\ T \in Seq(LineSet)
      /\ \A i \in 1 .. N + 1 : Start(s, i) \in Nat
      /\ Start(s, N + 1) = Len(T)
      /\ \A i \in 1 .. N : Holds(T, Start(s, i), Text(s[i])) /\ Start(s, i + 1) = Start(s, i) + Len(Text(s[i]))
      /\ \A i \in 1 .. N + 1 : \A j \in i .. N + 1 : Start(s, i) <= Start(s, j)
  BY <1>1, HandsInText
<1>3. s[k] \in Scripts
  BY <1>1, ElementOf
<1> HIDE DEF s, T, L, N
<1>4. k \in 1 .. N /\ k \in 1 .. N + 1 /\ k + 1 \in 1 .. N + 1 /\ N \in k .. N + 1 /\ N + 1 \in k + 1 .. N + 1
      /\ N \in 1 .. N + 1 /\ (k < N => N \in k + 1 .. N + 1)
  BY <1>1 DEF N, s
<1>5. Start(s, k) \in Nat /\ Start(s, k + 1) \in Nat /\ Start(s, N) \in Nat
  BY <1>2, <1>4
<1>6. Layout(T, s[k], Start(s, k)) /\ EmptyAt(s[k], Start(s, k)) + 2 = Start(s, k + 1)
  BY <1>2, <1>3, <1>4, <1>5, LayoutOfText
<1>7. Start(s, k) <= Start(s, N) /\ Start(s, k + 1) <= Start(s, N + 1) /\ (k < N => Start(s, k + 1) <= Start(s, N))
  BY <1>2, <1>4
<1>8. Len(T) \in Nat
  BY <1>2, LenOf
<1>9. Start(s, k) < L /\ L <= Len(T) /\ (k < N => Start(s, k + 1) < L)
  BY <1>1, <1>5, <1>7, <1>8
<1>. QED
  BY <1>1, <1>2, <1>3, <1>5, <1>6, <1>7, <1>8, <1>9 DEF s, T, L, N

\* Past what can be read of a file that was cut, at a line of none of the kinds.
Lost(f, q, kinds) ==
    /\ q \in {Len(f.lines), Len(f.lines) + 1} /\ q > 0
    /\ LineAt(f, q).kind \notin kinds /\ LineAt(f, Len(f.lines) + 1).kind \notin kinds

\* A loop that skips the lines of some kinds stops after them, or where the file
\* was cut.
LEMMA SkipSection ==
    ASSUME NEW f, TextFile(f), Len(f.scripts) > 0, NEW kinds, "garbled" \notin kinds,
           NEW a \in 1 .. Len(f.lines) + 1, NEW n \in Nat, a <= n, n <= Len(TextOf(f.scripts)),
           \A q \in a .. n - 1 : TextOf(f.scripts)[q].kind \in kinds,
           TextOf(f.scripts)[n].kind \notin kinds,
           NEW j \in Skip(f, a, kinds)
    PROVE  /\ j \in a .. n /\ j <= Len(f.lines) + 1 /\ \A q \in a .. j - 1 : Real(f, q)
           /\ \/ j = n /\ Real(f, n)
              \/ /\ a <= Len(f.lines) /\ ~f.whole /\ j \in {Len(f.lines), Len(f.lines) + 1}
                 /\ LineAt(f, j).kind \in {"", "garbled"} /\ LineAt(f, Len(f.lines) + 1).kind \in {"", "garbled"}
              \/ a = Len(f.lines) + 1 /\ j = a /\ ~f.whole
<1> DEFINE L == Len(f.lines)
           T == TextOf(f.scripts)
<1>1. /\ L \in Nat /\ j \in a .. L + 1 /\ LineAt(f, j).kind \notin kinds
      /\ \A k \in a .. j - 1 : LineAt(f, k).kind \in kinds
  BY DEF TextFile, Skip
<1>2. f.scripts \in Seq(Scripts) /\ T \in Seq(LineSet) /\ Len(T) \in Nat /\ L <= Len(T)
      /\ (f.whole => f.ended /\ L = Len(T))
  <2>1. Len(f.scripts) \in 1 .. Len(f.scripts)
    BY DEF TextFile
  <2>2. f.scripts \in Seq(Scripts) /\ L <= Len(T) /\ Len(T) \in Nat /\ (f.whole => f.ended /\ L = Len(T))
    BY <2>1, HandPlace DEF TextFile
  <2>. QED
    BY <2>2, HandsInText
<1>3. \A q \in 1 .. L + 1 :
        /\ L > 0
        /\ \/ q \in 1 .. L /\ LineAt(f, q) = T[q]
           \/ q = L /\ ~f.whole /\ LineAt(f, q).kind = "garbled" /\ LineAt(f, L + 1).kind = "garbled"
           \/ q = L + 1 /\ LineAt(f, q) = IF f.ended THEN Line("") ELSE LineAt(f, L)
  BY LineCases DEF Real
<1> HIDE DEF L, T
<1>4. ASSUME NEW q \in a .. j - 1 PROVE q \in 1 .. L /\ LineAt(f, q) = T[q]
  <2>1. q \in 1 .. L /\ q \in 1 .. L + 1
    BY <1>1 DEF L
  <2>2. LineAt(f, q).kind # "garbled" /\ q # L + 1
    BY <1>1, <2>1
  <2>. QED
    BY <1>1, <1>3, <2>1, <2>2
<1>5. j <= n
  <2> SUFFICES ASSUME n < j PROVE FALSE
    BY <1>1
  <2>1. n \in a .. j - 1
    BY <1>1
  <2>2. LineAt(f, n) = T[n] /\ LineAt(f, n).kind \in kinds
    BY <1>1, <1>4, <2>1
  <2>. QED
    BY <2>2 DEF T
<1>6. CASE j <= L
  <2>1. j \in 1 .. L + 1 /\ j # L + 1 /\ j \in 1 .. L
    BY <1>1, <1>6 DEF L
  <2>2. CASE LineAt(f, j) = T[j]
    <3>1. j = n
      <4> SUFFICES ASSUME j # n PROVE FALSE
        OBVIOUS
      <4>1. j \in a .. n - 1
        BY <1>1, <1>5
      <4>2. T[j].kind \in kinds
        BY <4>1 DEF T
      <4>. QED
        BY <1>1, <2>2, <4>2
    <3>2. Real(f, n)
      BY <2>1, <2>2, <3>1 DEF Real, L, T
    <3>3. \A q \in a .. j - 1 : Real(f, q)
      BY <1>4 DEF Real, L, T
    <3>4. j \in a .. n /\ j <= L + 1
      BY <1>1, <1>5
    <3>. QED
      BY <3>1, <3>2, <3>3, <3>4 DEF L
  <2>3. CASE j = L /\ ~f.whole /\ LineAt(f, j).kind = "garbled" /\ LineAt(f, L + 1).kind = "garbled"
    <3>1. a <= L /\ j \in a .. n
      BY <1>1, <1>5, <2>3
    <3>2. j <= L + 1
      BY <1>1
    <3>3. \A q \in a .. j - 1 : Real(f, q)
      BY <1>4 DEF Real, L, T
    <3>. QED
      BY <2>3, <3>1, <3>2, <3>3 DEF L
  <2>. QED
    BY <1>3, <2>1, <2>2, <2>3
<1>7. CASE j = L + 1
  <2>1. ~f.whole
    BY <1>1, <1>2, <1>5, <1>7 DEF T
  <2>2. j \in a .. n /\ j <= L + 1 /\ a \in 1 .. L + 1
    BY <1>1, <1>5 DEF L
  <2>3. \A q \in a .. j - 1 : Real(f, q)
    BY <1>4 DEF Real, L, T
  <2>4. CASE a = L + 1
    BY <1>7, <2>1, <2>2, <2>3, <2>4 DEF L
  <2>5. CASE a # L + 1
    <3>1. a <= L /\ L \in a .. j - 1 /\ L + 1 \in 1 .. L + 1
      BY <1>1, <1>7, <2>2, <2>5
    <3>2. LineAt(f, L).kind \in kinds
      BY <1>1, <3>1
    <3>3. LineAt(f, L + 1) = IF f.ended THEN Line("") ELSE LineAt(f, L)
      <4>1. L + 1 # L
        BY <1>1
      <4>2. L + 1 \notin 1 .. L
        BY <1>1
      <4>. QED
        BY <1>3, <3>1, <4>1, <4>2
    <3>4. LineAt(f, L + 1) = Line("")
      BY <1>1, <1>7, <3>2, <3>3
    <3>5. LineAt(f, L + 1).kind = ""
      BY <3>4, EmptyLine
    <3>6. j \in {L, L + 1} /\ LineAt(f, j).kind \in {"", "garbled"} /\ LineAt(f, L + 1).kind \in {"", "garbled"}
      BY <1>7, <3>5
    <3>. QED
      BY <2>1, <2>2, <2>3, <3>1, <3>6 DEF L
  <2>. QED
    BY <2>4, <2>5
<1>8. j <= L \/ j = L + 1
  BY <1>1
<1>. QED
  BY <1>6, <1>7, <1>8

\* What the lines of a hand are.
HandLines(T, h, b) ==
    /\ T[b + 1].kind = "start" /\ T[b + 2].kind = "table"
    /\ \A i \in 1 .. Len(h.seats) : T[b + 2 + i] = [kind |-> "seat", player |-> h.seats[i]]
    /\ \A q \in b + 3 + Len(h.seats) .. PostsAt(h, b) : T[q].kind \notin {"seat", "posts"}
    /\ T[b + 3 + Len(h.seats)].kind # "seat"
    /\ \A q \in PostsAt(h, b) + 1 .. DealtAt(h, b) : T[q].kind = "posts"
    /\ \A i \in 1 .. Len(h.dealt) : T[DealtAt(h, b) + i] = [kind |-> "dealt", player |-> h.dealt[i]]

LEMMA LinesOfHand ==
    ASSUME NEW h \in Scripts, NEW T \in Seq(LineSet), NEW b \in Nat, Layout(T, h, b)
    PROVE  HandLines(T, h, b)
<1> DEFINE ns == Len(h.seats)
           nd == Len(h.denies)
           p == PostsAt(h, b)
           d == DealtAt(h, b)
<1>1. ns \in Nat /\ nd \in Nat
  BY ScriptFacts, Zenon
<1>2. p = b + 3 + ns + nd /\ d = p + ns
  BY DEF PostsAt, DealtAt
<1>3. /\ T[b + 1].kind = "start" /\ T[b + 2].kind = "table"
      /\ \A i \in 1 .. ns : T[b + 2 + i] = [kind |-> "seat", player |-> h.seats[i]]
      /\ T[b + 3 + ns].kind = "blinds"
      /\ \A i \in 1 .. nd : T[b + 3 + ns + i].kind = "denies"
      /\ \A i \in 1 .. ns : T[p + i].kind = "posts"
      /\ \A i \in 1 .. Len(h.dealt) : T[d + i] = [kind |-> "dealt", player |-> h.dealt[i]]
  BY DEF Layout, SeatsLayout
<1> HIDE DEF ns, nd, p, d
<1>4. ASSUME NEW q \in b + 3 + ns .. p PROVE T[q].kind \notin {"seat", "posts"}
  <2>1. q = b + 3 + ns \/ q - (b + 3 + ns) \in 1 .. nd
    BY <1>1, <1>2
  <2>2. CASE q = b + 3 + ns
    BY <1>3, <2>2
  <2>3. CASE q - (b + 3 + ns) \in 1 .. nd
    <3>1. b + 3 + ns + (q - (b + 3 + ns)) = q
      BY <1>1
    <3>2. T[q].kind = "denies"
      BY <1>3, <2>3, <3>1
    <3>. QED
      BY <3>2
  <2>. QED
    BY <2>1, <2>2, <2>3
<1>5. ASSUME NEW q \in p + 1 .. d PROVE T[q].kind = "posts"
  <2>1. p \in Nat /\ q - p \in 1 .. ns /\ p + (q - p) = q
    BY <1>1, <1>2
  <2>. QED
    BY <1>3, <2>1
<1>6. T[b + 3 + ns].kind # "seat"
  BY <1>3
<1>. QED
  BY <1>3, <1>4, <1>5, <1>6 DEF HandLines, ns, p, d

LEMMA LinesOfRounds ==
    ASSUME NEW h \in Scripts, NEW T \in Seq(LineSet), NEW b \in Nat, Layout(T, h, b), NEW i \in 1 .. 6
    PROVE  /\ i # 6 => \A j \in 1 .. Len(Round(h, i)) : T[RoundAt(h, b, i) + j] = Round(h, i)[j]
           /\ i = 6 \/ Len(Round(h, i)) > 0 =>
                /\ T[RoundAt(h, b, i) + 1].kind \notin ActionTokens \cup {"dealt", "posts"}
                /\ T[RoundAt(h, b, i) + 1].kind = "collected" <=> i = 6
<1>1. CASE i # 6
  <2>1. i \in 1 .. 5
    BY <1>1
  <2>2. \A j \in 1 .. Len(Round(h, i)) : T[RoundAt(h, b, i) + j] = Round(h, i)[j]
    BY <2>1 DEF Layout, Holds
  <2>3. CASE Len(Round(h, i)) > 0
    <3>1. Len(Round(h, i)) \in Nat
      BY <2>1, RoundTypes, LenOf
    <3>2. 1 \in 1 .. Len(Round(h, i))
      BY <2>3, <3>1
    <3>3. T[RoundAt(h, b, i) + 1] = Round(h, i)[1]
      BY <2>2, <3>2
    <3>4. Round(h, i)[1].kind \notin ActionTokens \cup {"collected", "dealt", "posts"}
      BY <2>1, <2>3, OnRoundFacts
    <3>. QED
      BY <1>1, <2>2, <3>3, <3>4
  <2>. QED
    BY <1>1, <2>2, <2>3
<1>2. CASE i = 6
  <2> DEFINE nc == Len(h.collected)
  <2>1. nc \in 1 .. MaxSeats /\ nc \in Nat
    BY ScriptFacts, Zenon
  <2>2. 1 \in 1 .. nc
    <3> HIDE DEF nc
    <3>. QED
      BY <2>1 DEF MaxSeats
  <2>3. T[CollectedAt(h, b) + 1] = [kind |-> "collected", player |-> h.collected[1]]
    BY <2>2 DEF Layout, EndLayout
  <2>4. T[RoundAt(h, b, i) + 1].kind = "collected"
    BY <1>2, <2>3 DEF CollectedAt
  <2>5. "collected" \notin ActionTokens \cup {"dealt", "posts"}
    BY DEF ActionTokens, ActionTypes
  <2>. QED
    BY <1>2, <2>4, <2>5
<1>. QED
  BY <1>1, <1>2

\* The kind of an empty line.
Blank == {""}

LEMMA BlankKind == "" \in Blank
  BY DEF Blank

LEMMA NotBlank == \A x \in {"summary", "seat", "board", "collected", "garbled"} : x \notin Blank
  BY DEF Blank

EndLines(T, h, b) ==
    /\ \A q \in CollectedAt(h, b) + 1 .. SummaryAt(h, b) :
          T[q] = [kind |-> "collected", player |-> h.collected[q - CollectedAt(h, b)]]
    /\ T[SummaryAt(h, b) + 1].kind # "collected"
    /\ \A q \in SummaryAt(h, b) + 1 .. EmptyAt(h, b) :
          /\ T[q].kind \in {"summary", "seat", "board"}
          /\ T[q].kind = "board" => Len(h.streets) > 1
    /\ Len(h.streets) > 1 => T[SummaryAt(h, b) + 2].kind = "board" /\ SummaryAt(h, b) + 2 <= EmptyAt(h, b)
    /\ T[EmptyAt(h, b) + 1].kind \in Blank /\ EmptyAt(h, b) + 2 <= Len(T)

LEMMA LinesOfEnd ==
    ASSUME NEW h \in Scripts, NEW T \in Seq(LineSet), NEW b \in Nat, Layout(T, h, b)
    PROVE  EndLines(T, h, b)
<1> DEFINE nc == Len(h.collected)
           nb == IF Len(h.streets) > 1 THEN 1 ELSE 0
           c == CollectedAt(h, b)
           m == SummaryAt(h, b)
           e == EmptyAt(h, b)
<1>1. nc \in Nat /\ nc > 0
  <2>1. nc \in 1 .. MaxSeats /\ nc \in Nat
    BY ScriptFacts, Zenon
  <2> HIDE DEF nc
  <2>. QED
    BY <2>1 DEF MaxSeats
<1>2. c \in Nat /\ m = c + nc /\ e = m + 1 + nb + nc
  BY PositionsOrder DEF SummaryAt, EmptyAt
<1>3. nb \in Nat /\ (Len(h.streets) > 1 => nb = 1) /\ (~(Len(h.streets) > 1) => nb = 0)
  OBVIOUS
<1>4. /\ \A i \in 1 .. nc : T[c + i] = [kind |-> "collected", player |-> h.collected[i]]
      /\ T[m + 1].kind = "summary"
      /\ Len(h.streets) > 1 => T[m + 2].kind = "board"
      /\ \A i \in 1 .. nc : T[e - nc + i].kind = "seat"
      /\ T[e + 1].kind = "" /\ e + 2 <= Len(T)
  BY DEF Layout, EndLayout
<1> HIDE DEF nc, nb, c, m, e
<1>5. ASSUME NEW q \in c + 1 .. m PROVE T[q] = [kind |-> "collected", player |-> h.collected[q - c]]
  <2>1. q - c \in 1 .. nc /\ c + (q - c) = q
    BY <1>1, <1>2
  <2>. QED
    BY <1>4, <2>1
<1>6. ASSUME NEW q \in m + 1 .. e
      PROVE  T[q].kind \in {"summary", "seat", "board"} /\ (T[q].kind = "board" => Len(h.streets) > 1)
  <2>1. \/ q = m + 1
        \/ q = m + 2 /\ Len(h.streets) > 1
        \/ q - (e - nc) \in 1 .. nc /\ e - nc + (q - (e - nc)) = q
    BY <1>1, <1>2, <1>3
  <2>2. CASE q = m + 1
    BY <1>4, <2>2
  <2>3. CASE q = m + 2 /\ Len(h.streets) > 1
    BY <1>4, <2>3
  <2>4. CASE q - (e - nc) \in 1 .. nc /\ e - nc + (q - (e - nc)) = q
    <3>1. T[q].kind = "seat"
      BY <1>4, <2>4
    <3>. QED
      BY <3>1
  <2>. QED
    BY <2>1, <2>2, <2>3, <2>4
<1>7. Len(h.streets) > 1 => m + 2 <= e
  BY <1>1, <1>2, <1>3
<1>8. T[m + 1].kind # "collected" /\ (Len(h.streets) > 1 => T[m + 2].kind = "board")
  BY <1>4
<1>9. T[e + 1].kind \in Blank
  BY <1>4, BlankKind
<1>10. e + 2 <= Len(T)
  BY <1>4
<1>. QED
  BY <1>5, <1>6, <1>7, <1>8, <1>9, <1>10 DEF EndLines, c, m, e

(***************************************************************************)
(* What each step of a parser does at its place in a hand.                 *)
(***************************************************************************)
LEMMA LinesRead ==
    ASSUME NEW f, TextFile(f), NEW k \in 1 .. Len(f.scripts)
    PROVE  /\ Len(f.scripts) > 0 /\ Len(f.lines) \in Nat /\ Len(f.lines) > 0
           /\ \A q \in 1 .. Len(f.lines) :
                \/ LineAt(f, q) = TextOf(f.scripts)[q]
                \/ /\ q = Len(f.lines) /\ ~f.whole /\ LineAt(f, q).kind = "garbled"
                   /\ LineAt(f, Len(f.lines) + 1).kind = "garbled"
           /\ \/ LineAt(f, Len(f.lines) + 1).kind = ""
              \/ LineAt(f, Len(f.lines) + 1) = LineAt(f, Len(f.lines))
           /\ \A q \in Nat : /\ q <= Len(f.lines) => NextIndex(f, q) = q + 1
                             /\ q > Len(f.lines) => NextIndex(f, q) = q
                             /\ q > Len(f.lines) => LineAt(f, q) = LineAt(f, Len(f.lines) + 1)
<1> DEFINE L == Len(f.lines)
<1>1. Len(f.scripts) > 0 /\ Len(f.scripts) \in Nat /\ L \in Nat
  BY DEF TextFile
<1>2. L > 0
  <2>1. 1 \in 1 .. L + 1
    BY <1>1
  <2>. QED
    BY <1>1, <2>1, LineCases
<1>3. ASSUME NEW q \in 1 .. L
      PROVE  \/ LineAt(f, q) = TextOf(f.scripts)[q]
             \/ q = L /\ ~f.whole /\ LineAt(f, q).kind = "garbled" /\ LineAt(f, L + 1).kind = "garbled"
  <2>1. q \in 1 .. L + 1 /\ q # L + 1
    BY <1>1
  <2>. QED
    BY <1>1, <2>1, LineCases DEF Real
<1>4. LineAt(f, L + 1).kind = "" \/ LineAt(f, L + 1) = LineAt(f, L)
  <2>1. L + 1 \in 1 .. L + 1 /\ L + 1 \notin 1 .. L /\ L + 1 # L
    BY <1>1
  <2>2. LineAt(f, L + 1) = IF f.ended THEN Line("") ELSE LineAt(f, L)
    BY <1>1, <2>1, LineCases DEF Real
  <2>. QED
    BY <2>2, EmptyLine
<1> HIDE DEF L
<1>5. ASSUME NEW q \in Nat
      PROVE  /\ q <= L => NextIndex(f, q) = q + 1
             /\ q > L => NextIndex(f, q) = q
             /\ q > L => LineAt(f, q) = LineAt(f, L + 1)
  <2>1. (q <= L => NextIndex(f, q) = q + 1) /\ (~(q <= L) => NextIndex(f, q) = q)
    BY DEF NextIndex, L
  <2>2. ~(q <= L) /\ ~(L + 1 <= L) => LineAt(f, q) = LineAt(f, L + 1)
    BY DEF LineAt, L
  <2>. QED
    BY <1>1, <2>1, <2>2
<1>. QED
  BY <1>1, <1>2, <1>3, <1>4, <1>5 DEF L

\* The start and the table of a hand: an assertion fails on the table only in a
\* file that was cut.
LEMMA TableStep ==
    ASSUME NEW f, TextFile(f), NEW k \in 1 .. Len(f.scripts)
    PROVE  /\ NextIndex(f, Start(f.scripts, k)) = Start(f.scripts, k) + 1
           /\ NextIndex(f, Start(f.scripts, k) + 1) = Start(f.scripts, k) + 2
           /\ Start(f.scripts, k) + 1 \in 1 .. Len(f.lines)
           /\ Start(f.scripts, k) + 2 \in 1 .. Len(f.lines) + 1
           /\ LineAt(f, Start(f.scripts, k) + 2).kind = "table" =>
                /\ Start(f.scripts, k) + 2 <= Len(f.lines)
                /\ NextIndex(f, Start(f.scripts, k) + 2) = Start(f.scripts, k) + 3
           /\ LineAt(f, Start(f.scripts, k) + 2).kind \notin {"table", ""} => ~f.whole
<1> DEFINE L == Len(f.lines)
           T == TextOf(f.scripts)
           h == f.scripts[k]
           b == Start(f.scripts, k)
           e == EmptyAt(h, b)
<1>1. h \in Scripts /\ b \in Nat /\ T \in Seq(LineSet) /\ Layout(T, h, b) /\ b < L
      /\ e + 2 <= Len(T) /\ Len(T) \in Nat /\ (f.whole => L = Len(T))
  BY HandPlace
<1>2. b + 3 <= e /\ e \in Nat
  <2>1. /\ PostsAt(h, b) \in Nat /\ DealtAt(h, b) \in Nat /\ CollectedAt(h, b) \in Nat
        /\ SummaryAt(h, b) \in Nat /\ e \in Nat
        /\ b + 3 <= PostsAt(h, b) /\ PostsAt(h, b) < DealtAt(h, b)
        /\ DealtAt(h, b) <= RoundAt(h, b, 1) /\ RoundAt(h, b, 1) <= CollectedAt(h, b)
        /\ RoundAt(h, b, 1) \in Nat
        /\ CollectedAt(h, b) < SummaryAt(h, b) /\ SummaryAt(h, b) < e
    <3>1. Len(h.dealt) \in Nat
      BY <1>1, ScriptFacts, Zenon
    <3>2. RoundAt(h, b, 1) = DealtAt(h, b) + Len(h.dealt) /\ DealtAt(h, b) \in Nat
      BY <1>1, PositionsOrder
    <3>3. DealtAt(h, b) <= RoundAt(h, b, 1)
      BY <3>1, <3>2
    <3>4. 1 \in 1 .. 6 /\ 6 \in 1 .. 6 /\ 1 <= 6
      OBVIOUS
    <3>. QED
      BY <1>1, <3>3, <3>4, PositionsOrder DEF CollectedAt
  <2>. QED
    BY <1>1, <2>1
<1>4. L \in Nat
  BY LinesRead
<1>5. \A q \in 1 .. L : \/ LineAt(f, q) = T[q]
                        \/ q = L /\ ~f.whole /\ LineAt(f, L + 1).kind = "garbled"
  BY LinesRead
<1>6. LineAt(f, L + 1).kind = "" \/ LineAt(f, L + 1) = LineAt(f, L)
  BY LinesRead
<1>7. \A q \in Nat : q <= L => NextIndex(f, q) = q + 1
  BY LinesRead
<1>8. b \in Nat /\ b < L
  BY <1>1
<1> HIDE DEF L, T, h, b, e
<1>3. T[b + 1].kind = "start" /\ T[b + 2].kind = "table"
  BY <1>1, LinesOfHand DEF HandLines
<1>9. /\ b \in Nat /\ b + 1 \in Nat /\ b + 2 \in Nat /\ b + 2 \in 1 .. L + 1
      /\ b <= L /\ b + 1 <= L /\ b + 1 \in 1 .. L /\ b + 1 + 1 = b + 2 /\ b + 2 + 1 = b + 3
  BY <1>4, <1>8
<1>10. NextIndex(f, b) = b + 1 /\ NextIndex(f, b + 1) = b + 2
  BY <1>7, <1>9
<1>11. ASSUME LineAt(f, b + 2).kind = "table" PROVE b + 2 <= L /\ NextIndex(f, b + 2) = b + 3
  <2>1. ASSUME b + 2 = L + 1 PROVE FALSE
    <3>1. b + 1 = L
      BY <1>4, <1>8, <2>1
    <3>2. LineAt(f, L).kind = "start" \/ LineAt(f, L + 1).kind = "garbled"
      BY <1>3, <1>5, <1>9, <3>1
    <3>. QED
      BY <1>6, <1>11, <2>1, <3>2
  <2>2. b + 2 <= L
    BY <1>4, <1>9, <2>1
  <2>. QED
    BY <1>7, <1>9, <2>2
<1>12. ASSUME LineAt(f, b + 2).kind # "table", f.whole PROVE FALSE
  <2>1. L = Len(T)
    BY <1>1, <1>12
  <2>2. e + 2 <= Len(T)
    BY <1>1
  <2>3. b + 2 \in 1 .. L
    BY <1>2, <1>4, <1>9, <2>1, <2>2
  <2>. QED
    BY <1>3, <1>5, <1>12, <2>3
<1>. QED
  BY <1>9, <1>10, <1>11, <1>12 DEF L, b

\* parseSeats reads every seat of the hand, or finds no blinds after them.
LEMMA SeatsStep ==
    ASSUME NEW f, TextFile(f), NEW k \in 1 .. Len(f.scripts),
           Start(f.scripts, k) + 3 <= Len(f.lines) + 1,
           NEW i \in Skip(f, Start(f.scripts, k) + 3, {"seat"}), NEW j \in Reach(f, i, {"posts"})
    PROVE  /\ j = PostsAt(f.scripts[k], Start(f.scripts, k)) + 1 /\ j <= Len(f.lines)
           /\ Names(Between(f, Start(f.scripts, k) + 3, i)) = f.scripts[k].seats
<1> DEFINE L == Len(f.lines)
           T == TextOf(f.scripts)
           h == f.scripts[k]
           b == Start(f.scripts, k)
           ns == Len(h.seats)
           nd == Len(h.denies)
           p == PostsAt(h, b)
           a == b + 3
           n == b + 3 + ns
<1>1. /\ h \in Scripts /\ b \in Nat /\ T \in Seq(LineSet) /\ Layout(T, h, b)
      /\ EmptyAt(h, b) + 2 <= Len(T) /\ Len(T) \in Nat
  BY HandPlace
<1>2. /\ ns \in Nat /\ nd \in Nat /\ h.seats \in Seq(Players) /\ Len(h.dealt) \in Nat
      /\ DOMAIN h.seats = 1 .. ns
  <2>1. ns \in Nat /\ nd \in Nat /\ h.seats \in Seq(Players) /\ Len(h.dealt) \in Nat
    BY <1>1, ScriptFacts, Zenon
  <2>. QED
    BY <2>1, LenOf
<1>3. p = n + nd
  BY DEF PostsAt
<1>4. p \in Nat /\ p + 1 <= Len(T)
  <2>1. /\ p \in Nat /\ DealtAt(h, b) \in Nat /\ CollectedAt(h, b) \in Nat /\ SummaryAt(h, b) \in Nat
        /\ EmptyAt(h, b) \in Nat /\ p < DealtAt(h, b) /\ RoundAt(h, b, 1) \in Nat
        /\ CollectedAt(h, b) < SummaryAt(h, b) /\ SummaryAt(h, b) < EmptyAt(h, b)
    BY <1>1, PositionsOrder
  <2>2. RoundAt(h, b, 1) <= CollectedAt(h, b)
    <3>1. 1 \in 1 .. 6 /\ 6 \in 1 .. 6 /\ 1 <= 6
      OBVIOUS
    <3>. QED
      BY <1>1, <3>1, PositionsOrder DEF CollectedAt
  <2>3. RoundAt(h, b, 1) = DealtAt(h, b) + Len(h.dealt)
    BY <1>1, PositionsOrder
  <2> HIDE DEF p, h, b, T
  <2>. QED
    BY <1>1, <1>2, <2>1, <2>2, <2>3, SMTT(30)
<1>5. \A q \in 1 .. L : \/ LineAt(f, q) = T[q]
                        \/ /\ q = L /\ ~f.whole /\ LineAt(f, q).kind = "garbled"
                           /\ LineAt(f, L + 1).kind = "garbled"
  BY LinesRead
<1>6. L \in Nat /\ L > 0 /\ Len(f.scripts) > 0
  BY LinesRead
<1>7. LineAt(f, L + 1).kind = "" \/ LineAt(f, L + 1) = LineAt(f, L)
  BY LinesRead
<1>8. a <= L + 1
  OBVIOUS
<1>9. i \in a .. L + 1 /\ LineAt(f, i).kind \notin {"seat"}
  BY DEF Skip
<1>10. j \in i .. L + 1 /\ LineAt(f, j).kind = "posts" /\ \A q \in i .. j - 1 : LineAt(f, q).kind # "posts"
  BY DEF Reach
<1>11. i \in Skip(f, a, {"seat"})
  OBVIOUS
<1>12. Names(Between(f, a, i)) = [q \in DOMAIN Between(f, a, i) |-> Between(f, a, i)[q].player]
  BY DEF Names
<1>13. Between(f, a, i) = [q \in 1 .. i - a |-> LineAt(f, a + q - 1)]
  BY DEF Between
<1>14. Len(h.seats) = ns
  OBVIOUS
<1> HIDE DEF L, T, h, b, ns, nd, p
<1>a. /\ b \in Nat /\ L \in Nat /\ L > 0 /\ ns \in Nat /\ nd \in Nat /\ p \in Nat /\ p = b + 3 + ns + nd
      /\ Len(T) \in Nat /\ p + 1 <= Len(T)
  BY <1>1, <1>2, <1>3, <1>4, <1>6
<1>15. /\ T[b + 2].kind = "table"
       /\ \A q \in 1 .. ns : T[b + 2 + q] = [kind |-> "seat", player |-> h.seats[q]]
       /\ \A q \in n .. p : T[q].kind \notin {"seat", "posts"}
       /\ T[n].kind # "seat" /\ T[p + 1].kind = "posts"
  <2>1. /\ T[b + 2].kind = "table"
        /\ \A q \in 1 .. Len(h.seats) : T[b + 2 + q] = [kind |-> "seat", player |-> h.seats[q]]
        /\ \A q \in b + 3 + Len(h.seats) .. PostsAt(h, b) : T[q].kind \notin {"seat", "posts"}
        /\ T[b + 3 + Len(h.seats)].kind # "seat"
        /\ \A q \in PostsAt(h, b) + 1 .. DealtAt(h, b) : T[q].kind = "posts"
    <3>1. HandLines(T, h, b)
      BY <1>1, LinesOfHand
    <3>. QED
      BY <3>1 DEF HandLines
  <2>2. PostsAt(h, b) \in Nat /\ DealtAt(h, b) \in Nat /\ PostsAt(h, b) < DealtAt(h, b)
    BY <1>1, PositionsOrder
  <2>3. PostsAt(h, b) + 1 \in PostsAt(h, b) + 1 .. DealtAt(h, b)
    BY <2>2
  <2>4. T[PostsAt(h, b) + 1].kind = "posts"
    BY <2>1, <2>3
  <2>. QED
    BY <2>1, <2>4 DEF p, ns
<1>16. a \in 1 .. L + 1 /\ n \in Nat /\ a <= n /\ n <= Len(T) /\ n <= p
  BY <1>a, <1>8
<1>17. \A q \in a .. n - 1 : T[q] = [kind |-> "seat", player |-> h.seats[q - (b + 2)]]
  <2>1. ASSUME NEW q \in a .. n - 1 PROVE q - (b + 2) \in 1 .. ns /\ b + 2 + (q - (b + 2)) = q
    BY <1>1, <1>2
  <2>. QED
    BY <1>15, <2>1
<1>18. /\ i \in a .. n /\ \A q \in a .. i - 1 : LineAt(f, q) = T[q]
       /\ \/ i = n /\ n \in 1 .. L /\ LineAt(f, n) = T[n]
          \/ /\ i \in {L, L + 1} /\ LineAt(f, i).kind \in {"", "garbled"}
             /\ LineAt(f, L + 1).kind \in {"", "garbled"}
          \/ a = L + 1 /\ i = a
  <2>1. /\ n <= Len(TextOf(f.scripts)) /\ a \in 1 .. Len(f.lines) + 1
        /\ \A q \in a .. n - 1 : TextOf(f.scripts)[q].kind \in {"seat"}
        /\ TextOf(f.scripts)[n].kind \notin {"seat"}
    <3>1. \A q \in a .. n - 1 : T[q].kind = "seat"
      <4>1. SUFFICES ASSUME NEW q \in a .. n - 1 PROVE T[q].kind = "seat"
        OBVIOUS
      <4>2. T[q] = [kind |-> "seat", player |-> h.seats[q - (b + 2)]]
        BY <1>17
      <4>. QED
        BY <4>2
    <3> HIDE DEF a, n
    <3>2. n <= Len(T) /\ a \in 1 .. L + 1
      BY <1>16
    <3>3. (\A q \in a .. n - 1 : T[q].kind \in {"seat"}) /\ T[n].kind \notin {"seat"}
      BY <1>15, <3>1 DEF n
    <3>. QED
      BY <3>2, <3>3 DEF T, L
  <2>2. "garbled" \notin {"seat"}
    OBVIOUS
  <2> DEFINE K == {"seat"}
  <2>3. /\ "garbled" \notin K /\ i \in Skip(f, a, K)
        /\ \A q \in a .. n - 1 : TextOf(f.scripts)[q].kind \in K
        /\ TextOf(f.scripts)[n].kind \notin K
    BY <1>11, <2>1
  <2> HIDE DEF K
  <2> HIDE DEF a, n
  <2>4. /\ i \in a .. n /\ \A q \in a .. i - 1 : Real(f, q)
        /\ \/ i = n /\ Real(f, n)
           \/ /\ a <= Len(f.lines) /\ ~f.whole /\ i \in {Len(f.lines), Len(f.lines) + 1}
              /\ LineAt(f, i).kind \in {"", "garbled"} /\ LineAt(f, Len(f.lines) + 1).kind \in {"", "garbled"}
           \/ a = Len(f.lines) + 1 /\ i = a /\ ~f.whole
    BY <1>6, <1>16, <2>1, <2>3, SkipSection
  <2>5. \A q : Real(f, q) => q \in 1 .. L /\ LineAt(f, q) = T[q]
    BY DEF Real, L, T
  <2>. QED
    BY <2>4, <2>5 DEF L
<1>19. i = n /\ n \in 1 .. L /\ LineAt(f, n) = T[n]
  <2>1. CASE i \in {L, L + 1} /\ LineAt(f, i).kind \in {"", "garbled"} /\ LineAt(f, L + 1).kind \in {"", "garbled"}
    <3>a. i \in {L, L + 1} /\ j \in i .. L + 1
      BY <1>10, <2>1
    <3>1. j = i \/ j = L + 1
      BY <1>6, <3>a
    <3>. QED
      BY <1>10, <2>1, <3>1
  <2>2. CASE a = L + 1 /\ i = a
    <3>1. j = L + 1
      BY <1>6, <1>10, <2>2
    <3>2. L = b + 2 /\ L \in 1 .. L
      BY <1>1, <1>6, <2>2
    <3>3. LineAt(f, L).kind # "posts" /\ LineAt(f, L + 1).kind # "posts"
      BY <1>5, <1>7, <1>15, <3>2
    <3>. QED
      BY <1>10, <3>1, <3>3
  <2>. QED
    BY <1>18, <2>1, <2>2
<1>20. LineAt(f, L + 1).kind # "posts" \/ j \in 1 .. L
  <2>1. SUFFICES ASSUME LineAt(f, L + 1).kind = "posts", j \notin 1 .. L PROVE FALSE
    OBVIOUS
  <2>2. j = L + 1 /\ L \in i .. j - 1
    BY <1>6, <1>10, <1>19, <2>1
  <2>3. LineAt(f, L).kind # "posts"
    BY <1>10, <2>2
  <2>. QED
    BY <1>7, <2>1, <2>3
<1>21. j \in 1 .. L
  <2>1. j # L + 1
    BY <1>10, <1>20, <1>6
  <2>. QED
    BY <1>6, <1>10, <1>19, <2>1
<1>22. T[j].kind = "posts"
  BY <1>5, <1>10, <1>21
<1>23. j = p + 1
  <2>1. j > p
    <3>1. ASSUME ~(j > p) PROVE FALSE
      <4>1. j \in n .. p
        BY <1>4, <1>10, <1>19, <1>21, <3>1
      <4>. QED
        BY <1>15, <1>22, <4>1
    <3>. QED
      BY <3>1
  <2>2. ASSUME j > p + 1 PROVE FALSE
    <3>1. p + 1 \in i .. j - 1 /\ p + 1 \in 1 .. L /\ p + 1 # L
      BY <1>4, <1>6, <1>16, <1>19, <1>21, <2>2
    <3>2. LineAt(f, p + 1) = T[p + 1]
      BY <1>5, <3>1
    <3>. QED
      BY <1>10, <1>15, <3>1, <3>2
  <2>. QED
    BY <1>4, <1>21, <2>1, <2>2
<1>24. Names(Between(f, a, i)) = h.seats
  <2>1. i - a = ns /\ DOMAIN Between(f, a, i) = 1 .. ns
    <3>1. i - a = ns
      BY <1>1, <1>2, <1>19
    <3>. QED
      BY <1>13, <3>1
  <2>2. ASSUME NEW q \in 1 .. ns PROVE Between(f, a, i)[q].player = h.seats[q]
    <3> DEFINE x == a + q - 1
    <3>1. Between(f, a, i)[q] = LineAt(f, x)
      BY <1>13, <2>1
    <3>2. x \in a .. n - 1 /\ x \in a .. i - 1 /\ x - (b + 2) = q
      <4>1. i = n
        BY <1>19
      <4>. QED
        BY <1>a, <4>1
    <3> HIDE DEF x
    <3>3. LineAt(f, x) = T[x]
      BY <1>18, <3>2
    <3>4. T[x] = [kind |-> "seat", player |-> h.seats[x - (b + 2)]]
      BY <1>17, <3>2
    <3>. QED
      BY <3>1, <3>2, <3>3, <3>4
  <2>3. Names(Between(f, a, i)) = [q \in 1 .. ns |-> h.seats[q]]
    BY <1>12, <2>1, <2>2
  <2>4. h.seats = [q \in 1 .. ns |-> h.seats[q]]
    BY <1>2
  <2>. QED
    BY <2>3, <2>4
<1>25. j <= L
  BY <1>6, <1>21
<1>. QED
  BY <1>23, <1>24, <1>25 DEF L, h, b, p

\* Where the lines of a hand end is after where they begin.
LEMMA PlacesInText ==
    ASSUME NEW f, TextFile(f), NEW k \in 1 .. Len(f.scripts)
    PROVE  LET h == f.scripts[k]
               b == Start(f.scripts, k)
           IN  /\ h \in Scripts /\ b \in Nat /\ TextOf(f.scripts) \in Seq(LineSet)
               /\ Layout(TextOf(f.scripts), h, b)
               /\ PostsAt(h, b) \in Nat /\ DealtAt(h, b) \in Nat /\ CollectedAt(h, b) \in Nat
               /\ SummaryAt(h, b) \in Nat /\ EmptyAt(h, b) \in Nat /\ Len(TextOf(f.scripts)) \in Nat
               /\ b + 3 <= PostsAt(h, b) /\ PostsAt(h, b) < DealtAt(h, b)
               /\ \A i \in 1 .. 6 : /\ RoundAt(h, b, i) \in Nat
                                    /\ DealtAt(h, b) <= RoundAt(h, b, i)
                                    /\ RoundAt(h, b, i) <= CollectedAt(h, b)
               /\ CollectedAt(h, b) < SummaryAt(h, b) /\ SummaryAt(h, b) < EmptyAt(h, b)
               /\ EmptyAt(h, b) + 2 <= Len(TextOf(f.scripts))
               /\ f.whole => Len(f.lines) = Len(TextOf(f.scripts))
<1> DEFINE h == f.scripts[k]
           b == Start(f.scripts, k)
           nt == Len(h.dealt)
<1>1. /\ h \in Scripts /\ b \in Nat /\ TextOf(f.scripts) \in Seq(LineSet)
      /\ Layout(TextOf(f.scripts), h, b)
      /\ Len(TextOf(f.scripts)) \in Nat
      /\ EmptyAt(h, b) + 2 <= Len(TextOf(f.scripts))
      /\ f.whole => Len(f.lines) = Len(TextOf(f.scripts))
  BY HandPlace
<1>2. nt \in Nat
  BY <1>1, ScriptFacts, Zenon
<1>3. RoundAt(h, b, 1) = DealtAt(h, b) + nt /\ DealtAt(h, b) \in Nat
  BY <1>1, PositionsOrder
<1>4. \A i \in 1 .. 6 : RoundAt(h, b, i) \in Nat
  BY <1>1, PositionsOrder
<1>5. \A i, j \in 1 .. 6 : i <= j => RoundAt(h, b, i) <= RoundAt(h, b, j)
  BY <1>1, PositionsOrder
<1>6. /\ PostsAt(h, b) \in Nat /\ CollectedAt(h, b) \in Nat
      /\ SummaryAt(h, b) \in Nat /\ EmptyAt(h, b) \in Nat
      /\ b + 3 <= PostsAt(h, b) /\ PostsAt(h, b) < DealtAt(h, b)
      /\ CollectedAt(h, b) < SummaryAt(h, b) /\ SummaryAt(h, b) < EmptyAt(h, b)
  BY <1>1, PositionsOrder
<1> HIDE DEF h, b, nt
<1>7. ASSUME NEW i \in 1 .. 6
      PROVE  DealtAt(h, b) <= RoundAt(h, b, i) /\ RoundAt(h, b, i) <= CollectedAt(h, b)
  <2>1. 1 \in 1 .. 6 /\ 6 \in 1 .. 6 /\ 1 <= i /\ i <= 6
    OBVIOUS
  <2>2. RoundAt(h, b, 1) <= RoundAt(h, b, i) /\ RoundAt(h, b, i) <= RoundAt(h, b, 6)
    BY <1>5, <2>1
  <2>3. RoundAt(h, b, 1) \in Nat /\ RoundAt(h, b, i) \in Nat
    BY <1>4, <2>1
  <2>4. DealtAt(h, b) <= RoundAt(h, b, i)
    BY <1>2, <1>3, <2>2, <2>3
  <2>. QED
    BY <2>2, <2>4 DEF CollectedAt
<1>. QED
  BY <1>1, <1>3, <1>4, <1>6, <1>7 DEF h, b

\* No action, no blind and no card of the hero comes after the rounds that are over.
LEMMA NextLine ==
    ASSUME NEW h \in Scripts, NEW T \in Seq(LineSet), NEW b \in Nat, Layout(T, h, b), NEW i \in 1 .. 6
    PROVE  T[RoundAt(h, b, i) + 1].kind \notin ActionTokens \cup {"dealt", "posts"}
<1>1. PICK j \in i .. 6 : RoundAt(h, b, j) = RoundAt(h, b, i) /\ (j = 6 \/ Len(Round(h, j)) > 0)
  BY NextRound
<1>2. j \in 1 .. 6
  OBVIOUS
<1>3. T[RoundAt(h, b, j) + 1].kind \notin ActionTokens \cup {"dealt", "posts"}
  BY <1>1, <1>2, LinesOfRounds
<1>. QED
  BY <1>1, <1>3

\* parseAnte stops after the blinds, or where the file was cut.
LEMMA AnteStep ==
    ASSUME NEW f, TextFile(f), NEW k \in 1 .. Len(f.scripts),
           PostsAt(f.scripts[k], Start(f.scripts, k)) + 1 <= Len(f.lines),
           NEW j \in Skip(f, PostsAt(f.scripts[k], Start(f.scripts, k)) + 1, {"posts"})
    PROVE  /\ j \in 1 .. Len(f.lines) + 1
           /\ \/ j = DealtAt(f.scripts[k], Start(f.scripts, k)) + 1 /\ Real(f, j)
              \/ Lost(f, j, {"collected", "dealt"})
<1> DEFINE L == Len(f.lines)
           T == TextOf(f.scripts)
           h == f.scripts[k]
           b == Start(f.scripts, k)
           a == PostsAt(h, b) + 1
           n == DealtAt(h, b) + 1
           K == {"posts"}
<1>1. /\ h \in Scripts /\ b \in Nat /\ T \in Seq(LineSet) /\ Layout(T, h, b)
  BY PlacesInText
<1>2. /\ PostsAt(h, b) \in Nat /\ PostsAt(h, b) < DealtAt(h, b) /\ DealtAt(h, b) \in Nat
      /\ CollectedAt(h, b) \in Nat /\ SummaryAt(h, b) \in Nat /\ EmptyAt(h, b) \in Nat /\ Len(T) \in Nat
      /\ CollectedAt(h, b) < SummaryAt(h, b) /\ SummaryAt(h, b) < EmptyAt(h, b) /\ EmptyAt(h, b) + 2 <= Len(T)
  BY PlacesInText
<1>3. DealtAt(h, b) <= CollectedAt(h, b)
  <2>1. 1 \in 1 .. 6
    OBVIOUS
  <2>2. DealtAt(h, b) <= RoundAt(h, b, 1) /\ RoundAt(h, b, 1) <= CollectedAt(h, b) /\ RoundAt(h, b, 1) \in Nat
    BY <2>1, PlacesInText
  <2> HIDE DEF h, b
  <2>. QED
    BY <1>2, <2>2
<1>4. HandLines(T, h, b)
  BY <1>1, LinesOfHand
<1>5. Len(f.scripts) > 0 /\ L \in Nat /\ L > 0 /\ a <= L
  BY LinesRead
<1>6. j \in Skip(f, a, K) /\ "garbled" \notin K
  OBVIOUS
<1>7. \A q \in a .. n - 1 : T[q].kind \in K
  <2>1. \A q \in PostsAt(h, b) + 1 .. DealtAt(h, b) : T[q].kind = "posts"
    BY <1>4 DEF HandLines
  <2>2. n - 1 = DealtAt(h, b)
    BY <1>2
  <2>. QED
    BY <2>1, <2>2
<1>8. T[n].kind \notin K
  <2>1. Len(h.dealt) \in Nat
    BY <1>1, ScriptFacts, Zenon
  <2>2. CASE Len(h.dealt) = 0
    <3>1. RoundAt(h, b, 1) = DealtAt(h, b)
      <4>1. RoundAt(h, b, 1) = DealtAt(h, b) + Len(h.dealt)
        BY <1>1, PositionsOrder
      <4>. QED
        BY <1>2, <2>2, <4>1
    <3>2. 1 \in 1 .. 6
      OBVIOUS
    <3>. QED
      BY <1>1, <3>1, <3>2, NextLine
  <2>3. CASE Len(h.dealt) # 0
    <3> DEFINE nt == Len(h.dealt)
    <3>1. 1 \in 1 .. nt
      <4>1. nt \in Nat /\ nt # 0
        BY <2>1, <2>3
      <4> HIDE DEF nt
      <4>. QED
        BY <4>1
    <3>2. T[DealtAt(h, b) + 1] = [kind |-> "dealt", player |-> h.dealt[1]]
      BY <1>4, <3>1 DEF HandLines
    <3>. QED
      BY <3>2
  <2>. QED
    BY <2>2, <2>3
<1> HIDE DEF L, T, K, h, b, a, n
<1>9. a \in 1 .. L + 1 /\ n \in Nat /\ a <= n /\ n <= Len(T)
  BY <1>2, <1>3, <1>5, SMTT(30) DEF a, n
<1>10. /\ a \in 1 .. Len(f.lines) + 1 /\ n <= Len(TextOf(f.scripts))
       /\ \A q \in a .. n - 1 : TextOf(f.scripts)[q].kind \in K
       /\ TextOf(f.scripts)[n].kind \notin K
  BY <1>7, <1>8, <1>9 DEF L, T
<1>11. /\ j \in a .. n /\ j <= Len(f.lines) + 1
       /\ \/ j = n /\ Real(f, n)
          \/ /\ j \in {Len(f.lines), Len(f.lines) + 1}
             /\ LineAt(f, j).kind \in {"", "garbled"} /\ LineAt(f, Len(f.lines) + 1).kind \in {"", "garbled"}
          \/ a = Len(f.lines) + 1
  BY <1>5, <1>6, <1>9, <1>10, SkipSection
<1>12. a # L + 1 /\ j \in 1 .. L + 1 /\ j > 0
  <2>1. j \in a .. n /\ j <= L + 1
    BY <1>11 DEF L
  <2>. QED
    BY <1>5, <1>9, <2>1
<1>13. ASSUME j \in {L, L + 1}, LineAt(f, j).kind \in {"", "garbled"}, LineAt(f, L + 1).kind \in {"", "garbled"}
       PROVE  Lost(f, j, {"collected", "dealt"})
  BY <1>12, <1>13 DEF Lost, L
<1>. QED
  BY <1>11, <1>12, <1>13 DEF L, h, b, n

\* parseActionsAndWinners has read the rounds before the one that starts at line q,
\* and their actions.
AtRound(f, k, q, acts) ==
    \E i \in 1 .. 6 : /\ i = 6 \/ Len(Round(f.scripts[k], i)) > 0
                      /\ q = RoundAt(f.scripts[k], Start(f.scripts, k), i) + 1 /\ Real(f, q)
                      /\ acts = Before(f.scripts[k], i)

\* The line after those of the first i - 1 rounds starts one of the others.
LEMMA AtNextRound ==
    ASSUME NEW f, NEW k, f.scripts[k] \in Scripts, Start(f.scripts, k) \in Nat, NEW i \in 1 .. 6,
           Real(f, RoundAt(f.scripts[k], Start(f.scripts, k), i) + 1)
    PROVE  AtRound(f, k, RoundAt(f.scripts[k], Start(f.scripts, k), i) + 1, Before(f.scripts[k], i))
<1> DEFINE h == f.scripts[k]
           b == Start(f.scripts, k)
<1>1. PICK j \in i .. 6 : /\ RoundAt(h, b, j) = RoundAt(h, b, i) /\ Before(h, j) = Before(h, i)
                          /\ j = 6 \/ Len(Round(h, j)) > 0
  BY NextRound
<1>2. j \in 1 .. 6
  OBVIOUS
<1>. QED
  BY <1>1, <1>2 DEF AtRound

\* parseHeroCards reads the line of the hero, if there is one.
LEMMA HeroStep ==
    ASSUME NEW f, TextFile(f), NEW k \in 1 .. Len(f.scripts),
           NEW q, q = DealtAt(f.scripts[k], Start(f.scripts, k)) + 1, Real(f, q)
    PROVE  /\ LineAt(f, q).kind # "dealt" => Range(f.scripts[k].dealt) = {} /\ AtRound(f, k, q, <<>>)
           /\ LineAt(f, q).kind = "dealt" =>
                /\ Range(f.scripts[k].dealt) = {LineAt(f, q).player}
                /\ LineAt(f, q).player \in Range(f.scripts[k].seats)
                /\ NextIndex(f, q) \in 1 .. Len(f.lines) + 1
                /\ AtRound(f, k, NextIndex(f, q), <<>>) \/ Lost(f, NextIndex(f, q), {"collected"})
<1> DEFINE L == Len(f.lines)
           T == TextOf(f.scripts)
           h == f.scripts[k]
           b == Start(f.scripts, k)
           d == DealtAt(h, b)
           nt == Len(h.dealt)
<1>1. h \in Scripts /\ b \in Nat /\ T \in Seq(LineSet) /\ Layout(T, h, b) /\ d \in Nat
  BY PlacesInText
<1>2. h.dealt \in Seq(Range(h.seats)) /\ nt \in Nat /\ nt <= 1
  BY <1>1, ScriptFacts, Zenon
<1>3. DOMAIN h.dealt = 1 .. nt
  BY <1>2, LenOf
<1>4. RoundAt(h, b, 1) = d + nt
  BY <1>1, PositionsOrder
<1>5. HandLines(T, h, b)
  BY <1>1, LinesOfHand
<1>6. \A i \in 1 .. nt : T[d + i] = [kind |-> "dealt", player |-> h.dealt[i]]
  BY <1>5 DEF HandLines
<1>7. q = d + 1 /\ q \in 1 .. L /\ LineAt(f, q) = T[q]
  BY DEF Real
<1>8. /\ L \in Nat
      /\ \A x \in 1 .. L : \/ LineAt(f, x) = T[x]
                           \/ /\ x = L /\ LineAt(f, x).kind = "garbled"
                              /\ LineAt(f, L + 1).kind = "garbled"
  BY LinesRead
<1>9. LineAt(f, L + 1).kind = "" \/ LineAt(f, L + 1) = LineAt(f, L)
  BY LinesRead
<1>10. \A x \in Nat : x <= L => NextIndex(f, x) = x + 1
  BY LinesRead
<1>11. Before(h, 1) = <<>>
  BY <1>1, BeforeFacts
<1>12. T[RoundAt(h, b, 1) + 1].kind # "dealt"
  <2>1. 1 \in 1 .. 6
    OBVIOUS
  <2>. QED
    BY <1>1, <2>1, NextLine
<1>13. Range(h.dealt) = {h.dealt[i] : i \in DOMAIN h.dealt}
  BY DEF Range
<1>14. \A x : Real(f, x) <=> x \in 1 .. L /\ LineAt(f, x) = T[x]
  BY DEF Real
<1>15. \A i \in 1 .. 6 : Real(f, RoundAt(h, b, i) + 1) => AtRound(f, k, RoundAt(h, b, i) + 1, Before(h, i))
  BY <1>1, AtNextRound
<1>16. L \in Nat
  BY <1>8
<1>17. d \in Nat /\ nt \in Nat /\ nt <= 1
  BY <1>1, <1>2
<1> HIDE DEF L, T, h, b, d, nt
<1>18. CASE nt = 0
  <2>1. RoundAt(h, b, 1) + 1 = q /\ 1 \in 1 .. 6
    BY <1>4, <1>7, <1>17, <1>18
  <2>2. AtRound(f, k, q, <<>>)
    BY <1>7, <1>11, <1>14, <1>15, <2>1
  <2>3. LineAt(f, q).kind # "dealt"
    BY <1>7, <1>12, <2>1
  <2>4. Range(h.dealt) = {}
    <3>1. 1 .. nt = {}
      BY <1>18
    <3>. QED
      BY <1>3, <1>13, <3>1
  <2>. QED
    BY <2>2, <2>3, <2>4 DEF h
<1>19. CASE nt = 1
  <2>1. 1 \in 1 .. nt /\ 1 .. nt = {1}
    BY <1>19
  <2>2. LineAt(f, q) = [kind |-> "dealt", player |-> h.dealt[1]]
    BY <1>6, <1>7, <2>1
  <2>3. Range(h.dealt) = {LineAt(f, q).player}
    BY <1>3, <1>13, <2>1, <2>2
  <2>4. LineAt(f, q).player \in Range(h.seats)
    <3>1. h.dealt[1] \in Range(h.seats)
      BY <1>2, <2>1, ElementOf DEF nt
    <3>. QED
      BY <2>2, <3>1
  <2>5. /\ q \in Nat /\ q <= L /\ q + 1 \in 1 .. L + 1 /\ q \in 1 .. L /\ q + 1 = RoundAt(h, b, 1) + 1
        /\ q + 1 \in 1 .. L \/ q = L
    BY <1>4, <1>7, <1>16, <1>17, <1>19
  <2>6. NextIndex(f, q) = q + 1
    BY <1>10, <2>5
  <2>7. CASE q = L
    <3>1. LineAt(f, L + 1).kind # "collected"
      <4>1. LineAt(f, L).kind = "dealt"
        BY <2>2, <2>7
      <4>2. CASE LineAt(f, L + 1).kind = ""
        BY <4>2
      <4>3. CASE LineAt(f, L + 1) = LineAt(f, L)
        BY <4>1, <4>3
      <4>. QED
        BY <1>9, <4>2, <4>3
    <3>2. L + 1 > 0
      BY <1>16
    <3>3. Lost(f, q + 1, {"collected"})
      BY <2>7, <3>1, <3>2 DEF Lost, L
    <3>. QED
      BY <2>2, <2>3, <2>4, <2>5, <2>6, <3>3 DEF L, h
  <2>8. CASE q + 1 \in 1 .. L
    <3>1. CASE LineAt(f, q + 1) = T[q + 1]
      <4>1. AtRound(f, k, q + 1, <<>>)
        <5>1. 1 \in 1 .. 6
          OBVIOUS
        <5>2. Real(f, RoundAt(h, b, 1) + 1)
          BY <1>14, <2>5, <2>8, <3>1
        <5>. QED
          BY <1>11, <1>15, <2>5, <5>1, <5>2
      <4>. QED
        BY <2>2, <2>3, <2>4, <2>5, <2>6, <4>1 DEF L, h
    <3>2. CASE q + 1 = L /\ LineAt(f, q + 1).kind = "garbled" /\ LineAt(f, L + 1).kind = "garbled"
      <4>1. q + 1 > 0
        BY <2>5
      <4>2. Lost(f, q + 1, {"collected"})
        BY <3>2, <4>1 DEF Lost, L
      <4>. QED
        BY <2>2, <2>3, <2>4, <2>5, <2>6, <4>2 DEF L, h
    <3>. QED
      BY <1>8, <2>8, <3>1, <3>2
  <2>. QED
    BY <2>5, <2>7, <2>8
<1>. QED
  BY <1>17, <1>18, <1>19

\* A turn of the loop of parseActionsAndWinners reads a round and its actions, or
\* comes to where the file was cut.
LEMMA StreetStep ==
    ASSUME NEW f, TextFile(f), NEW k \in 1 .. Len(f.scripts), NEW q, NEW acts, AtRound(f, k, q, acts),
           LineAt(f, q).kind # "collected", NEW j \in Skip(f, NextIndex(f, q), ActionTokens), NEW st,
           st = StreetOf(LineAt(f, q)), NEW new,
           new = acts \o ActionsIn(Between(f, NextIndex(f, q), j), st)
    PROVE  /\ st \in Streets /\ new \in Seq(ActionSet(Range(f.scripts[k].seats)))
           /\ j \in 1 .. Len(f.lines) + 1
           /\ AtRound(f, k, j, new) \/ Lost(f, j, {"collected"})
<1> DEFINE L == Len(f.lines)
           T == TextOf(f.scripts)
           h == f.scripts[k]
           b == Start(f.scripts, k)
           who == Range(h.seats)
<1>1. h \in Scripts /\ b \in Nat /\ T \in Seq(LineSet) /\ Layout(T, h, b)
  BY PlacesInText
<1>2. PICK i \in 1 .. 6 : /\ i = 6 \/ Len(Round(h, i)) > 0
                          /\ q = RoundAt(h, b, i) + 1 /\ Real(f, q) /\ acts = Before(h, i)
  BY DEF AtRound
<1>3. q \in 1 .. L /\ LineAt(f, q) = T[q]
  BY <1>2 DEF Real
<1>4. i \in 1 .. 5 /\ i + 1 \in 1 .. 6
  <2>1. T[RoundAt(h, b, i) + 1].kind = "collected" <=> i = 6
    BY <1>1, <1>2, LinesOfRounds, SMTT(30)
  <2>2. i # 6
    BY <1>2, <1>3, <2>1
  <2>. QED
    BY <2>2
<1> DEFINE R == Round(h, i)
           nr == Len(R) - 1
           r == RoundAt(h, b, i)
           n == RoundAt(h, b, i + 1) + 1
<1>5. Len(R) \in Nat /\ Len(R) > 0
  <2>1. R \in Seq(LineSet)
    BY <1>1, <1>4, RoundTypes
  <2>. QED
    BY <1>2, <1>4, <2>1, LenOf
<1>6. r \in Nat /\ n - 1 = r + Len(R) /\ n - 1 \in Nat
  <2> DEFINE e == RoundAt(h, b, i + 1)
  <2>1. r \in Nat /\ e = r + Len(R) /\ e \in Nat
    BY <1>1, <1>4, PositionsOrder
  <2>2. n = e + 1
    OBVIOUS
  <2> HIDE DEF e, n, r
  <2>. QED
    BY <2>1, <2>2
<1>7. n - 1 <= CollectedAt(h, b) /\ CollectedAt(h, b) < Len(T) /\ CollectedAt(h, b) \in Nat /\ Len(T) \in Nat
  <2>1. n - 1 <= CollectedAt(h, b)
    <3>1. RoundAt(h, b, i + 1) <= CollectedAt(h, b) /\ RoundAt(h, b, i + 1) \in Nat
      BY <1>4, PlacesInText
    <3>. QED
      BY <3>1
  <2>2. /\ CollectedAt(h, b) < SummaryAt(h, b) /\ SummaryAt(h, b) < EmptyAt(h, b)
        /\ EmptyAt(h, b) + 2 <= Len(T) /\ CollectedAt(h, b) \in Nat /\ SummaryAt(h, b) \in Nat
        /\ EmptyAt(h, b) \in Nat /\ Len(T) \in Nat
    BY PlacesInText
  <2>. QED
    BY <2>1, <2>2
<1>8. \A x \in 1 .. Len(R) : T[r + x] = R[x]
  BY <1>1, <1>4, LinesOfRounds, SMTT(30)
<1>9. /\ OnRound(h, i) \in Seq(ActionSet(who))
      /\ StreetOf(R[1]) \in Streets
      /\ \A x \in 1 .. nr : R[1 + x].kind \in ActionTokens
      /\ i = 5 => \A x \in 1 .. nr : R[1 + x].kind = "shows"
      /\ i # 5 => /\ \A x \in 1 .. nr : R[1 + x].kind \in ActionTypes /\ R[1 + x].player \in who
                  /\ OnRound(h, i) = [x \in 1 .. nr |-> [player |-> R[1 + x].player, street |-> StreetOf(R[1]),
                                                         type |-> R[1 + x].kind, index |-> x - 1]]
  BY <1>1, <1>4, <1>5, OnRoundFacts
<1>10. i = 5 => OnRound(h, i) = <<>>
  BY DEF OnRound
<1>11. /\ Before(h, i) \in Seq(ActionSet(who)) /\ Before(h, i + 1) = Before(h, i) \o OnRound(h, i)
  BY <1>1, <1>4, BeforeFacts
<1>12. T[n].kind \notin ActionTokens
  <2>1. T[RoundAt(h, b, i + 1) + 1].kind \notin ActionTokens \cup {"dealt", "posts"}
    BY <1>1, <1>4, NextLine
  <2>. QED
    BY <2>1
<1>13. LineAt(f, L + 1).kind = "" \/ LineAt(f, L + 1) = LineAt(f, L)
  BY LinesRead
<1>14. L \in Nat /\ Len(f.scripts) > 0
  BY LinesRead
<1>15. NextIndex(f, q) = q + 1
  <2>1. q \in Nat /\ q <= L
    BY <1>3, <1>14
  <2>. QED
    BY <2>1, LinesRead
<1>16. \A x : Real(f, x) <=> x \in 1 .. L /\ LineAt(f, x) = T[x]
  BY DEF Real
<1>17. Real(f, RoundAt(h, b, i + 1) + 1) => AtRound(f, k, RoundAt(h, b, i + 1) + 1, Before(h, i + 1))
  BY <1>1, <1>4, AtNextRound
<1>18. Between(f, q + 1, j) = [x \in 1 .. j - (q + 1) |-> LineAt(f, q + 1 + x - 1)]
  BY DEF Between
<1>19. q = r + 1
  BY <1>2
<1>20. j \in Skip(f, q + 1, ActionTokens) /\ new = acts \o ActionsIn(Between(f, q + 1, j), st) /\ acts = Before(h, i)
  BY <1>2, <1>15
<1> HIDE DEF L, T, h, b, who, R, r, n
<1>21. nr \in Nat /\ Len(R) = nr + 1 /\ n = q + 1 + nr /\ n \in Nat /\ q \in Nat /\ q + 1 <= n /\ n <= Len(T)
       /\ q + 1 \in 1 .. L + 1 /\ q <= L /\ n = RoundAt(h, b, i + 1) + 1
  <2>1. n = RoundAt(h, b, i + 1) + 1
    BY DEF n
  <2>. QED
    BY <1>3, <1>5, <1>6, <1>7, <1>14, <1>19, <2>1
<1> HIDE DEF nr
<1>22. LineAt(f, q) = R[1] /\ st \in Streets
  <2>1. 1 \in 1 .. Len(R)
    BY <1>5
  <2>. QED
    BY <1>3, <1>8, <1>9, <1>19, <2>1
<1>23. \A x \in 1 .. nr : q + x \in q + 1 .. n - 1 /\ T[q + x] = R[1 + x]
  <2>1. ASSUME NEW x \in 1 .. nr PROVE q + x \in q + 1 .. n - 1 /\ T[q + x] = R[1 + x]
    <3>1. 1 + x \in 1 .. Len(R) /\ r + (1 + x) = q + x /\ q + x \in q + 1 .. n - 1
      BY <1>6, <1>19, <1>21
    <3>2. T[r + (1 + x)] = R[1 + x]
      BY <1>8, <3>1
    <3>. QED
      BY <3>1, <3>2
  <2>. QED
    BY <2>1
<1>24. \A x \in q + 1 .. n - 1 : T[x].kind \in ActionTokens
  <2>1. ASSUME NEW x \in q + 1 .. n - 1 PROVE T[x].kind \in ActionTokens
    <3>1. x - q \in 1 .. nr /\ q + (x - q) = x
      BY <1>21
    <3>2. T[x] = R[1 + (x - q)]
      BY <1>23, <3>1
    <3>. QED
      BY <1>9, <3>1, <3>2
  <2>. QED
    BY <2>1
<1>25. /\ j \in q + 1 .. n /\ j <= L + 1 /\ \A x \in q + 1 .. j - 1 : Real(f, x)
       /\ \/ j = n /\ Real(f, n)
          \/ /\ j \in {L, L + 1} /\ LineAt(f, j).kind \in {"", "garbled"}
             /\ LineAt(f, L + 1).kind \in {"", "garbled"}
          \/ q + 1 = L + 1 /\ j = q + 1
  <2>1. "garbled" \notin ActionTokens
    BY DEF ActionTokens, ActionTypes
  <2> DEFINE a == q + 1
  <2>2. /\ a \in 1 .. Len(f.lines) + 1 /\ n <= Len(TextOf(f.scripts)) /\ n \in Nat /\ a <= n
        /\ \A x \in a .. n - 1 : TextOf(f.scripts)[x].kind \in ActionTokens
        /\ TextOf(f.scripts)[n].kind \notin ActionTokens /\ j \in Skip(f, a, ActionTokens)
    BY <1>12, <1>20, <1>21, <1>24 DEF L, T
  <2> HIDE DEF a
  <2>3. /\ j \in a .. n /\ j <= Len(f.lines) + 1 /\ \A x \in a .. j - 1 : Real(f, x)
        /\ \/ j = n /\ Real(f, n)
           \/ /\ a <= Len(f.lines) /\ ~f.whole /\ j \in {Len(f.lines), Len(f.lines) + 1}
              /\ LineAt(f, j).kind \in {"", "garbled"} /\ LineAt(f, Len(f.lines) + 1).kind \in {"", "garbled"}
           \/ a = Len(f.lines) + 1 /\ j = a /\ ~f.whole
    BY <1>14, <2>1, <2>2, SkipSection
  <2>. QED
    BY <2>3 DEF L, a
<1>26. j \in 1 .. L + 1 /\ j > 0 /\ j - (q + 1) \in Nat /\ j - (q + 1) <= nr
  <2>1. j \in q + 1 .. n /\ j <= L + 1
    BY <1>25
  <2>. QED
    BY <1>14, <1>21, <2>1
<1> DEFINE N == j - (q + 1)
           lines == Between(f, q + 1, j)
<1>27. ASSUME NEW x \in 1 .. N PROVE lines[x] = R[1 + x] /\ x \in 1 .. nr
  <2>1. q + 1 + x - 1 = q + x /\ q + x \in q + 1 .. j - 1 /\ x \in 1 .. nr
    BY <1>21, <1>26
  <2>2. LineAt(f, q + x) = T[q + x]
    BY <1>16, <1>25, <2>1
  <2>. QED
    BY <1>18, <1>23, <2>1, <2>2
<1>28. DOMAIN lines = 1 .. N /\ Len(lines) = N /\ N \in Nat
  <2>1. lines \in [1 .. N -> {LineAt(f, q + 1 + x - 1) : x \in 1 .. N}]
    BY <1>18
  <2>. QED
    BY <1>18, <1>26, <2>1, FunctionSeq
<1> HIDE DEF N, lines
<1>29. \A x \in 1 .. N : lines[x].kind \in ActionTypes => lines[x].player \in who
  <2>1. ASSUME NEW x \in 1 .. N, lines[x].kind \in ActionTypes PROVE lines[x].player \in who
    <3>1. lines[x] = R[1 + x] /\ x \in 1 .. nr
      BY <1>27
    <3>2. i # 5
      <4>1. "shows" \notin ActionTypes
        BY DEF ActionTypes
      <4>. QED
        BY <1>9, <2>1, <3>1, <4>1
    <3>. QED
      BY <1>9, <3>1, <3>2
  <2>. QED
    BY <2>1
<1>30. /\ ActionsIn(lines, st) \in Seq(ActionSet(who))
       /\ (\A x \in 1 .. N : lines[x].kind \in ActionTypes) =>
            ActionsIn(lines, st) = [x \in 1 .. N |-> [player |-> lines[x].player, street |-> st,
                                                      type |-> lines[x].kind, index |-> x - 1]]
       /\ (\A x \in 1 .. N : lines[x].kind \notin ActionTypes) => ActionsIn(lines, st) = <<>>
  <2>1. ActionLines(lines, who, N)
    BY <1>28, <1>29 DEF ActionLines
  <2>2. ActionsFound(lines, who, N, st)
    BY <1>22, <1>28, <2>1, ActionsInFacts
  <2>. QED
    BY <2>2 DEF ActionsFound
<1>31. new \in Seq(ActionSet(who))
  <2>1. new = Before(h, i) \o ActionsIn(lines, st)
    BY <1>20 DEF lines
  <2>. QED
    BY <1>11, <1>30, <2>1, Concat
<1>32. CASE j = n /\ Real(f, n)
  <2>1. N = nr
    BY <1>21, <1>26, <1>32 DEF N
  <2>2. ActionsIn(lines, st) = OnRound(h, i)
    <3>1. CASE i = 5
      <4>1. "shows" \notin ActionTypes
        BY DEF ActionTypes
      <4>2. \A x \in 1 .. N : lines[x].kind \notin ActionTypes
        BY <1>9, <1>27, <3>1, <4>1
      <4>. QED
        BY <1>10, <1>30, <3>1, <4>2
    <3>2. CASE i # 5
      <4>1. \A x \in 1 .. N : lines[x].kind \in ActionTypes
        BY <1>9, <1>27, <3>2
      <4>2. ActionsIn(lines, st) = [x \in 1 .. N |-> [player |-> lines[x].player, street |-> st,
                                                      type |-> lines[x].kind, index |-> x - 1]]
        BY <1>30, <4>1
      <4>3. OnRound(h, i) = [x \in 1 .. nr |-> [player |-> R[1 + x].player, street |-> StreetOf(R[1]),
                                                type |-> R[1 + x].kind, index |-> x - 1]]
        BY <1>9, <3>2
      <4>4. StreetOf(R[1]) = st
        BY <1>22
      <4>. QED
        BY <1>27, <2>1, <4>2, <4>3, <4>4
    <3>. QED
      BY <3>1, <3>2
  <2>3. new = Before(h, i + 1)
    BY <1>11, <1>20, <2>2 DEF lines
  <2>4. AtRound(f, k, n, Before(h, i + 1))
    BY <1>17, <1>21, <1>32
  <2>. QED
    BY <1>22, <1>26, <1>31, <1>32, <2>3, <2>4 DEF L, h, who
<1>33. CASE /\ j \in {L, L + 1} /\ LineAt(f, j).kind \in {"", "garbled"}
            /\ LineAt(f, L + 1).kind \in {"", "garbled"}
  <2>1. Lost(f, j, {"collected"})
    BY <1>26, <1>33 DEF Lost, L
  <2>. QED
    BY <1>22, <1>26, <1>31, <2>1 DEF L, h, who
<1>34. CASE q + 1 = L + 1 /\ j = q + 1
  <2>1. q = L
    BY <1>14, <1>21, <1>34
  <2>2. LineAt(f, L + 1).kind # "collected"
    <3>1. CASE LineAt(f, L + 1).kind = ""
      BY <3>1
    <3>2. CASE LineAt(f, L + 1) = LineAt(f, L)
      BY <2>1, <3>2
    <3>. QED
      BY <1>13, <3>1, <3>2
  <2>3. Lost(f, j, {"collected"})
    BY <1>26, <1>34, <2>2 DEF Lost, L
  <2>. QED
    BY <1>22, <1>26, <1>31, <2>3 DEF L, h, who
<1>. QED
  BY <1>25, <1>32, <1>33, <1>34

\* Where the file was cut, the loop of parseActionsAndWinners finds nothing more.
LEMMA LostStep ==
    ASSUME NEW f, TextFile(f), NEW k \in 1 .. Len(f.scripts), NEW q, Lost(f, q, {"collected"}),
           NEW j \in Skip(f, NextIndex(f, q), ActionTokens), NEW acts \in Seq(ActionSet(Players)), NEW st,
           st = StreetOf(LineAt(f, q)), NEW new,
           new = acts \o ActionsIn(Between(f, NextIndex(f, q), j), st)
    PROVE  st \in Streets /\ new \in Seq(ActionSet(Players)) /\ j = Len(f.lines) + 1 /\ Lost(f, j, {"collected"})
<1> DEFINE L == Len(f.lines)
           lines == Between(f, L + 1, j)
<1>1. L \in Nat /\ L > 0
  BY LinesRead
<1>2. q \in {L, L + 1} /\ LineAt(f, L + 1).kind # "collected"
  BY DEF Lost
<1>3. NextIndex(f, q) = L + 1
  <2>1. NextIndex(f, L) = L + 1 /\ NextIndex(f, L + 1) = L + 1
    <3>1. L <= L /\ L + 1 > L /\ L \in Nat /\ L + 1 \in Nat
      BY <1>1
    <3>. QED
      BY <3>1, LinesRead
  <2>. QED
    BY <1>2, <2>1
<1>4. j \in L + 1 .. L + 1
  BY <1>3 DEF Skip
<1>5. lines = [x \in 1 .. j - (L + 1) |-> LineAt(f, L + 1 + x - 1)]
  BY DEF Between
<1>6. new = acts \o ActionsIn(lines, st)
  BY <1>3
<1>7. Lost(f, L + 1, {"collected"})
  <2>1. L + 1 > 0
    BY <1>1
  <2>. QED
    BY <1>2, <2>1 DEF Lost
<1>8. st \in Streets
  <2>1. Range(Headers) = {Headers[x] : x \in DOMAIN Headers} /\ DOMAIN Headers = 1 .. 4
    BY DEF Range, Headers
  <2>2. 1 \in 1 .. 4 /\ 2 \in 1 .. 4 /\ 3 \in 1 .. 4 /\ 4 \in 1 .. 4
    OBVIOUS
  <2>3. Headers[1] = "preflop" /\ Headers[2] = "flop" /\ Headers[3] = "turn" /\ Headers[4] = "river"
    BY DEF Headers
  <2>4. {"preflop", "flop", "turn", "river", "none"} \subseteq Streets
    BY <2>1, <2>2, <2>3 DEF Streets
  <2>5. st \in {"preflop", "flop", "turn", "river", "none"}
    BY DEF StreetOf
  <2>. QED
    BY <2>4, <2>5
<1> HIDE DEF L, lines
<1>9. j = L + 1
  BY <1>1, <1>4
<1>10. ActionLines(lines, Players, 0)
  <2>1. j - (L + 1) = 0
    BY <1>1, <1>9
  <2>2. lines \in [1 .. 0 -> {LineAt(f, L + 1 + x - 1) : x \in 1 .. 0}]
    BY <1>5, <2>1
  <2>3. Len(lines) = 0 /\ DOMAIN lines = 1 .. 0
    BY <2>2, FunctionSeq
  <2>. QED
    BY <2>3 DEF ActionLines
<1>11. ActionsFound(lines, Players, 0, st)
  BY <1>8, <1>10, ActionsInFacts
<1>12. ActionsIn(lines, st) \in Seq(ActionSet(Players))
  BY <1>11 DEF ActionsFound
<1>13. new \in Seq(ActionSet(Players))
  BY <1>6, <1>12, Concat
<1>. QED
  BY <1>7, <1>8, <1>9, <1>13 DEF L

\* parseBoardCards starts at the end of the text, which no empty line follows; or
\* after winners that are in the text, each with an action.
AtEnd(f, k, q, wins, acts) ==
    LET h == f.scripts[k] IN
    \/ q = Len(f.lines) + 1 /\ LineAt(f, q).kind \notin Blank
    \/ \E n \in 0 .. Len(h.collected) :
         /\ q = CollectedAt(h, Start(f.scripts, k)) + 1 + n /\ wins = SubSeq(h.collected, 1, n)
         /\ f.whole => n = Len(h.collected)
         /\ acts \in Seq(ActionSet(Range(h.seats))) /\ Completed(ActionsOf(h), wins, acts, n)

\* parseWinners stops after the winners, or repeats the last line of the file.
LEMMA WinnersStep ==
    ASSUME NEW f, TextFile(f), NEW k \in 1 .. Len(f.scripts), NEW q, NEW acts, AtRound(f, k, q, acts),
           LineAt(f, q).kind = "collected", NEW st \in Streets, NEW j \in q .. q + MaxSeats,
           j \in Skip(f, q, {"collected"}) \/ j = q + MaxSeats,
           \A x \in q .. j - 1 : LineAt(f, x).kind = "collected",
           NEW names, names = Names(Between(f, q, j)), NEW new, new = WithWinners(acts, names, st),
           NEW next, next = IF j > Len(f.lines) THEN Len(f.lines) + 1 ELSE j
    PROVE  /\ names \in Seq(Range(f.scripts[k].seats)) /\ new \in Seq(ActionSet(Range(f.scripts[k].seats)))
           /\ next \in 1 .. Len(f.lines) + 1 /\ AtEnd(f, k, next, names, new)
<1> DEFINE L == Len(f.lines)
           T == TextOf(f.scripts)
           h == f.scripts[k]
           b == Start(f.scripts, k)
           who == Range(h.seats)
           nc == Len(h.collected)
           c == CollectedAt(h, b)
           s == SummaryAt(h, b)
           n == j - q
<1>1. /\ h \in Scripts /\ b \in Nat /\ T \in Seq(LineSet) /\ Layout(T, h, b)
  BY PlacesInText
<1>2. c \in Nat /\ s \in Nat /\ s + 2 < Len(T) /\ Len(T) \in Nat
  <2>1. /\ c \in Nat /\ s \in Nat /\ s < EmptyAt(h, b) /\ EmptyAt(h, b) \in Nat
        /\ EmptyAt(h, b) + 2 <= Len(T) /\ Len(T) \in Nat
    BY PlacesInText
  <2>. QED
    BY <2>1
<1>3. h.collected \in Seq(who) /\ nc \in Nat /\ nc <= MaxSeats
  <2>1. h.collected \in Seq(who) /\ nc \in Nat /\ nc \in 1 .. MaxSeats
    BY <1>1, ScriptFacts, Zenon
  <2> HIDE DEF nc
  <2>. QED
    BY <2>1 DEF MaxSeats
<1>4. s = c + nc
  BY DEF SummaryAt
<1>5. PICK i \in 1 .. 6 : /\ i = 6 \/ Len(Round(h, i)) > 0
                          /\ q = RoundAt(h, b, i) + 1 /\ Real(f, q) /\ acts = Before(h, i)
  BY DEF AtRound
<1>6. q \in 1 .. L /\ LineAt(f, q) = T[q]
  BY <1>5 DEF Real
<1>7. i = 6
  <2>1. T[RoundAt(h, b, i) + 1].kind = "collected" <=> i = 6
    <3>1. i = 6 \/ Len(Round(h, i)) > 0
      BY <1>5
    <3> HIDE DEF T, h, b
    <3>. QED
      BY <1>1, <3>1, LinesOfRounds, SMTT(30)
  <2>. QED
    BY <1>5, <1>6, <2>1
<1>8. q = c + 1 /\ acts = ActionsOf(h)
  <2>1. Before(h, 6) = ActionsOf(h)
    BY <1>1, BeforeFacts
  <2>. QED
    BY <1>5, <1>7, <2>1 DEF CollectedAt
<1>9. acts \in Seq(ActionSet(who))
  <2>1. 6 \in 1 .. 6
    OBVIOUS
  <2>. QED
    BY <1>1, <1>5, <1>7, <2>1, BeforeFacts
<1>10. EndLines(T, h, b)
  BY <1>1, LinesOfEnd
<1>11. /\ \A x \in c + 1 .. s : T[x] = [kind |-> "collected", player |-> h.collected[x - c]]
       /\ T[s + 1].kind # "collected"
  BY <1>10 DEF EndLines
<1>12. L \in Nat /\ L > 0
  BY LinesRead
<1>13. \A x \in 1 .. L : \/ LineAt(f, x) = T[x]
                         \/ x = L /\ ~f.whole /\ LineAt(f, x).kind = "garbled"
  BY LinesRead
<1>14. LineAt(f, L + 1).kind = "" \/ LineAt(f, L + 1) = LineAt(f, L)
  BY LinesRead
<1>15. \A x \in Nat : x > L => LineAt(f, x) = LineAt(f, L + 1)
  BY LinesRead
<1>16. f.whole => L = Len(T)
  BY PlacesInText
<1>17. Between(f, q, j) = [x \in 1 .. n |-> LineAt(f, q + x - 1)]
  BY DEF Between
<1>18. names = [x \in DOMAIN Between(f, q, j) |-> Between(f, q, j)[x].player]
  BY DEF Names
<1>19. j \in q .. q + 10 /\ (j \in Skip(f, q, {"collected"}) \/ j = q + 10) /\ nc <= 10
  BY <1>3 DEF MaxSeats
<1>20. j \in Skip(f, q, {"collected"}) => LineAt(f, j).kind # "collected"
  BY DEF Skip
<1>21. next = IF j > L THEN L + 1 ELSE j
  OBVIOUS
<1> HIDE DEF L, T, h, b, who, nc, c, s
<1>22. n \in Nat /\ j = q + n /\ j \in Nat /\ q \in Nat /\ q <= L
  BY <1>2, <1>8, <1>6, <1>12, <1>19
<1> HIDE DEF n
<1>23. \A x \in 1 .. L : LineAt(f, x).kind = "collected" => LineAt(f, x) = T[x]
  BY <1>13
<1>24. ASSUME NEW x \in q .. j - 1, x <= L PROVE x \in c + 1 .. s /\ LineAt(f, x) = T[x]
  <2>1. \A y \in q .. x : y \in 1 .. L /\ LineAt(f, y) = T[y] /\ T[y].kind = "collected"
    <3>1. ASSUME NEW y \in q .. x PROVE y \in 1 .. L /\ y \in q .. j - 1
      BY <1>6, <1>12, <1>22, <1>24
    <3>. QED
      BY <1>23, <3>1
  <2>2. ASSUME x > s PROVE FALSE
    <3>1. s + 1 \in q .. x
      BY <1>2, <1>3, <1>4, <1>8, <1>22, <1>24, <2>2
    <3>. QED
      BY <1>11, <2>1, <3>1
  <2>3. x \in c + 1 .. s
    BY <1>2, <1>8, <1>22, <2>2
  <2>4. x \in q .. x
    BY <1>22
  <2>. QED
    BY <2>1, <2>3, <2>4
<1>25. DOMAIN Between(f, q, j) = 1 .. n
  BY <1>17
<1>26. ASSUME NEW x \in c + 1 .. s PROVE x - c \in 1 .. nc /\ h.collected[x - c] \in who
  <2>1. x - c \in 1 .. nc
    BY <1>2, <1>3, <1>4
  <2>. QED
    BY <1>3, <2>1, ElementOf DEF nc
<1>27. ASSUME NEW x \in 1 .. n
       PROVE  /\ names[x] \in who
              /\ j <= L + 1 => names[x] = h.collected[x]
  <2> DEFINE y == q + x - 1
  <2>1. y \in q .. j - 1 /\ y \in Nat /\ y - c = x /\ (j <= L + 1 => y <= L)
    BY <1>2, <1>8, <1>12, <1>22
  <2>2. names[x] = LineAt(f, y).player
    BY <1>17, <1>18, <1>25
  <2> HIDE DEF y
  <2>3. y <= L => names[x] = h.collected[y - c] /\ h.collected[y - c] \in who
    <3>1. SUFFICES ASSUME y <= L PROVE names[x] = h.collected[y - c] /\ h.collected[y - c] \in who
      OBVIOUS
    <3>2. y \in c + 1 .. s /\ LineAt(f, y) = T[y]
      BY <1>24, <2>1, <3>1
    <3>3. T[y] = [kind |-> "collected", player |-> h.collected[y - c]]
      BY <1>11, <3>2
    <3>4. h.collected[y - c] \in who
      BY <1>26, <3>2
    <3>. QED
      BY <2>2, <3>2, <3>3, <3>4
  <2>4. y > L => names[x] \in who
    <3>1. SUFFICES ASSUME y > L PROVE names[x] \in who
      OBVIOUS
    <3>2. L \in q .. j - 1 /\ L <= L
      BY <1>12, <1>22, <2>1, <3>1
    <3>3. L \in c + 1 .. s /\ LineAt(f, L) = T[L]
      BY <1>24, <3>2
    <3>4. LineAt(f, L).player \in who
      <4>1. T[L] = [kind |-> "collected", player |-> h.collected[L - c]]
        BY <1>11, <3>3
      <4>2. h.collected[L - c] \in who
        BY <1>26, <3>3
      <4>. QED
        BY <3>3, <4>1, <4>2
    <3>5. LineAt(f, y).kind = "collected" /\ LineAt(f, y) = LineAt(f, L + 1)
      BY <1>15, <2>1, <3>1
    <3>6. LineAt(f, y) = LineAt(f, L)
      <4>1. LineAt(f, L + 1).kind = "collected"
        BY <3>5
      <4>2. LineAt(f, L + 1).kind # ""
        BY <4>1
      <4>. QED
        BY <1>14, <3>5, <4>2
    <3>. QED
      BY <2>2, <3>4, <3>6
  <2>5. y <= L \/ y > L
    BY <1>12, <2>1
  <2>. QED
    BY <2>1, <2>3, <2>4, <2>5
<1>28. names \in [1 .. n -> who]
  <2>1. names = [x \in 1 .. n |-> Between(f, q, j)[x].player]
    BY <1>18, <1>25
  <2>. QED
    BY <1>27, <2>1
<1>29. names \in Seq(who) /\ Len(names) = n
  BY <1>22, <1>28, FunctionSeq
<1>30. new \in Seq(ActionSet(who)) /\ Completed(acts, names, new, n)
  BY <1>9, <1>29, WithWinnersFacts
<1>31. next \in 1 .. L + 1
  BY <1>6, <1>12, <1>21, <1>22
<1>32. CASE j > L + 1
  <2>1. L + 1 \in q .. j - 1 /\ next = L + 1
    BY <1>12, <1>21, <1>22, <1>32
  <2>2. LineAt(f, L + 1).kind = "collected"
    BY <2>1
  <2>3. LineAt(f, L + 1).kind \notin Blank
    BY <2>2, NotBlank
  <2>4. AtEnd(f, k, next, names, new)
    BY <2>1, <2>3 DEF AtEnd, L
  <2>. QED
    BY <1>29, <1>30, <1>31, <2>4 DEF L, who, h
<1>33. CASE j <= L + 1
  <2>1. next = c + 1 + n
    BY <1>2, <1>8, <1>12, <1>21, <1>22, <1>33
  <2>2. n \in 0 .. nc
    <3>1. ASSUME n > nc PROVE FALSE
      <4>1. s + 1 \in q .. j - 1 /\ s + 1 <= L
        BY <1>2, <1>3, <1>4, <1>8, <1>12, <1>22, <1>33, <3>1
      <4>2. s + 1 \in c + 1 .. s
        BY <1>24, <4>1
      <4>. QED
        BY <1>2, <4>2
    <3>. QED
      BY <1>3, <1>22, <3>1
  <2>3. names = SubSeq(h.collected, 1, n)
    <3>1. SubSeq(h.collected, 1, n) = [x \in 1 .. n |-> h.collected[x]]
      <4>1. SubSeq(h.collected, 1, n) = [x \in 1 .. 1 + n - 1 |-> h.collected[x + 1 - 1]]
        BY <1>3, <2>2 DEF nc
      <4>2. 1 + n - 1 = n /\ \A x \in 1 .. n : x + 1 - 1 = x
        BY <1>22
      <4>. QED
        BY <4>1, <4>2
    <3>. QED
      BY <1>27, <1>28, <1>33, <3>1
  <2>4. ASSUME f.whole PROVE n = nc
    <3>1. L = Len(T)
      BY <1>16, <2>4
    <3>2. ASSUME n # nc PROVE FALSE
      <4>1. j \in c + 1 .. s /\ j \in 1 .. L /\ j # q + 10
        BY <1>2, <1>3, <1>4, <1>8, <1>19, <1>22, <2>2, <3>1, <3>2
      <4>2. LineAt(f, j) = T[j]
        BY <1>13, <2>4, <4>1
      <4>3. T[j] = [kind |-> "collected", player |-> h.collected[j - c]]
        BY <1>11, <4>1
      <4>4. LineAt(f, j).kind = "collected"
        BY <4>2, <4>3
      <4>. QED
        BY <1>19, <1>20, <4>1, <4>4
    <3>. QED
      BY <3>2
  <2>5. AtEnd(f, k, next, names, new)
    BY <1>8, <1>30, <2>1, <2>2, <2>3, <2>4 DEF AtEnd, c, h, b, nc, who
  <2>. QED
    BY <1>29, <1>30, <1>31, <2>5 DEF L, who, h
<1>34. j > L + 1 \/ j <= L + 1
  BY <1>12, <1>22
<1>. QED
  BY <1>32, <1>33, <1>34

\* createGame has read the hands before hand k.
AtHand(f, k, q) == IF k <= Len(f.scripts) THEN q = Start(f.scripts, k) ELSE q >= Len(f.lines)

\* parseBoardCards ends at the empty lines that follow the hand, or at the end of the
\* file, and then it was the last hand.
LEMMA BoardStep ==
    ASSUME NEW f, TextFile(f), NEW k \in 1 .. Len(f.scripts), NEW q \in 1 .. Len(f.lines) + 1,
           NEW wins, NEW acts, AtEnd(f, k, q, wins, acts), NEW j \in Reach(f, q, Blank)
    PROVE  /\ NextIndex(f, j) \in 1 .. Len(f.lines) + 1 /\ AtHand(f, k + 1, NextIndex(f, j))
           /\ \E n \in 0 .. Len(f.scripts[k].collected) :
                /\ wins = SubSeq(f.scripts[k].collected, 1, n)
                /\ f.whole => n = Len(f.scripts[k].collected)
                /\ acts \in Seq(ActionSet(Range(f.scripts[k].seats)))
                /\ Completed(ActionsOf(f.scripts[k]), wins, acts, n)
           /\ f.whole => ((\E x \in q .. j : LineAt(f, x).kind = "board") <=> Len(f.scripts[k].streets) > 1)
<1> DEFINE L == Len(f.lines)
           K == Len(f.scripts)
           T == TextOf(f.scripts)
           h == f.scripts[k]
           b == Start(f.scripts, k)
           nc == Len(h.collected)
           c == CollectedAt(h, b)
           s == SummaryAt(h, b)
           e == EmptyAt(h, b)
           next == NextIndex(f, j)
           long == Len(h.streets) > 1
<1>1. /\ h \in Scripts /\ b \in Nat /\ T \in Seq(LineSet) /\ Layout(T, h, b)
  BY PlacesInText
<1>2. c \in Nat /\ s \in Nat /\ e \in Nat /\ s < e /\ e + 2 <= Len(T) /\ Len(T) \in Nat
  BY PlacesInText
<1>3. nc \in Nat
  BY <1>1, ScriptFacts, Zenon
<1>4. s = c + nc
  BY DEF SummaryAt
<1>5. K \in Nat
  BY DEF TextFile
<1>6. /\ e + 2 = Start(f.scripts, k + 1) /\ L <= Len(T) /\ (k < K => Start(f.scripts, k + 1) < L)
      /\ (k = K => Start(f.scripts, k + 1) = Len(T))
  BY HandPlace
<1>7. f.whole => L = Len(T)
  BY PlacesInText
<1>8. L \in Nat /\ L > 0
  BY LinesRead
<1>9. \A x \in 1 .. L : \/ LineAt(f, x) = T[x]
                        \/ /\ x = L /\ ~f.whole /\ LineAt(f, x).kind = "garbled"
                           /\ LineAt(f, L + 1).kind = "garbled"
  BY LinesRead
<1>10. \A x \in Nat : /\ x <= L => NextIndex(f, x) = x + 1
                      /\ x > L => NextIndex(f, x) = x
  BY LinesRead
<1>11. EndLines(T, h, b)
  BY <1>1, LinesOfEnd
<1>12. /\ \A x \in c + 1 .. s : T[x] = [kind |-> "collected", player |-> h.collected[x - c]]
       /\ \A x \in s + 1 .. e : T[x].kind \in {"summary", "seat", "board"} /\ (T[x].kind = "board" => long)
       /\ long => T[s + 2].kind = "board"
       /\ long => s + 2 <= e
       /\ T[e + 1].kind \in Blank
  BY <1>11 DEF EndLines
<1>13. j \in q .. L + 1 /\ LineAt(f, j).kind \in Blank /\ \A x \in q .. j - 1 : LineAt(f, x).kind \notin Blank
  BY DEF Reach
<1>b. j \in q .. L + 1
  BY <1>13
<1>14. q \in 1 .. L + 1
  OBVIOUS
<1>15. PICK n \in 0 .. nc :
         /\ q = c + 1 + n /\ wins = SubSeq(h.collected, 1, n)
         /\ f.whole => n = nc
         /\ acts \in Seq(ActionSet(Range(h.seats))) /\ Completed(ActionsOf(h), wins, acts, n)
  <2>1. CASE q = L + 1 /\ LineAt(f, q).kind \notin Blank
    <3>1. j = q
      <4>1. q = L + 1
        BY <2>1
      <4>. QED
        BY <1>8, <1>b, <4>1
    <3>. QED
      BY <1>13, <2>1, <3>1
  <2>2. CASE \E n \in 0 .. nc :
         /\ q = c + 1 + n /\ wins = SubSeq(h.collected, 1, n)
         /\ f.whole => n = nc
         /\ acts \in Seq(ActionSet(Range(h.seats))) /\ Completed(ActionsOf(h), wins, acts, n)
    BY <2>2
  <2>. QED
    BY <2>1, <2>2 DEF AtEnd
<1>16. AtHand(f, k + 1, next) <=> IF k + 1 <= K THEN next = Start(f.scripts, k + 1) ELSE next >= L
  BY DEF AtHand
<1>17. k \in 1 .. K
  OBVIOUS
<1>18. q = c + 1 + n /\ n \in 0 .. nc
  BY <1>15
<1> DEFINE z == Start(f.scripts, k + 1)
<1>19. e + 2 = z /\ L <= Len(T) /\ (k < K => z < L) /\ (k = K => z = Len(T))
  BY <1>6
<1>20. AtHand(f, k + 1, next) <=> IF k + 1 <= K THEN next = z ELSE next >= L
  BY <1>16
<1> HIDE DEF L, K, T, h, b, nc, c, s, e, next, long, z
<1>21. \A x \in c + 1 .. e : T[x].kind \notin Blank
  <2>1. ASSUME NEW x \in c + 1 .. e PROVE T[x].kind \notin Blank
    <3>1. x \in c + 1 .. s \/ x \in s + 1 .. e
      BY <1>2, <1>4, <1>3
    <3>2. CASE x \in c + 1 .. s
      <4>1. T[x] = [kind |-> "collected", player |-> h.collected[x - c]]
        BY <1>12, <3>2
      <4>. QED
        BY <4>1, NotBlank
    <3>3. CASE x \in s + 1 .. e
      <4>1. T[x].kind \in {"summary", "seat", "board"}
        BY <1>12, <3>3
      <4>. QED
        BY <4>1, NotBlank
    <3>. QED
      BY <3>1, <3>2, <3>3
  <2>. QED
    BY <2>1
<1>22. q >= c + 1 /\ q <= s + 1 /\ q \in Nat /\ j \in Nat
  BY <1>2, <1>3, <1>4, <1>8, <1>b, <1>14, <1>18
<1>23. ASSUME e + 1 \in 1 .. L, e + 1 < j PROVE FALSE
  <2>1. e + 1 \in q .. j - 1
    BY <1>2, <1>22, <1>23
  <2>2. LineAt(f, e + 1) # T[e + 1]
    BY <1>12, <1>13, <2>1
  <2>3. e + 1 = L /\ LineAt(f, L + 1).kind = "garbled"
    BY <1>9, <1>23, <2>2
  <2>4. j = L + 1
    BY <1>8, <1>b, <1>22, <1>23, <2>3
  <2>. QED
    BY <1>13, <2>3, <2>4, NotBlank
<1>24. CASE j <= L
  <2>1. j \in 1 .. L
    BY <1>14, <1>b, <1>8, <1>24
  <2>2. LineAt(f, j) = T[j]
    BY <1>9, <1>13, <2>1, NotBlank
  <2>3. j = e + 1
    <3>1. ~(j \in c + 1 .. e)
      BY <1>13, <1>21, <2>2
    <3>2. j >= e + 1
      BY <1>2, <1>b, <1>22, <3>1, <1>8
    <3>3. ~(e + 1 < j)
      BY <1>2, <1>8, <1>23, <2>1
    <3>. QED
      BY <1>2, <1>22, <3>2, <3>3
  <2>4. next = j + 1
    BY <1>10, <1>22, <1>24 DEF next
  <2>5. next \in 1 .. L + 1 /\ next = z
    BY <1>2, <1>8, <1>19, <2>1, <2>3, <2>4
  <2>6. AtHand(f, k + 1, next)
    <3>1. CASE k + 1 <= K
      BY <1>20, <2>5, <3>1
    <3>2. CASE ~(k + 1 <= K)
      <4>1. k = K
        BY <1>5, <1>17, <3>2
      <4>2. next >= L
        BY <1>19, <2>5, <4>1
      <4>. QED
        BY <1>20, <3>2, <4>2
    <3>. QED
      BY <3>1, <3>2
  <2>7. ASSUME f.whole PROVE (\E x \in q .. j : LineAt(f, x).kind = "board") <=> long
    <3>1. n = nc
      BY <1>15, <2>7
    <3>2. q = s + 1
      BY <1>2, <1>3, <1>4, <1>18, <3>1
    <3>3. \A x \in 1 .. L : LineAt(f, x) = T[x]
      BY <1>9, <2>7
    <3>4. ASSUME NEW x \in q .. j PROVE x \in 1 .. L /\ (x \in s + 1 .. e \/ x = e + 1)
      BY <1>2, <1>8, <1>14, <1>24, <2>3, <3>2
    <3>5. ASSUME NEW x \in q .. j, LineAt(f, x).kind = "board" PROVE long
      <4>1. LineAt(f, x) = T[x]
        BY <3>3, <3>4
      <4>2. CASE x \in s + 1 .. e
        BY <1>12, <3>5, <4>1, <4>2
      <4>3. CASE x = e + 1
        <5>1. T[e + 1].kind \in Blank
          BY <1>12
        <5>2. T[e + 1].kind = "board"
          BY <3>5, <4>1, <4>3
        <5>. QED
          BY <5>1, <5>2, NotBlank
      <4>. QED
        BY <3>4, <4>2, <4>3
    <3>6. ASSUME long PROVE \E x \in q .. j : LineAt(f, x).kind = "board"
      <4>1. T[s + 2].kind = "board" /\ s + 2 <= e
        BY <1>12, <3>6
      <4>2. s + 2 \in q .. j
        <5>1. s + 2 <= e
          BY <4>1
        <5>. QED
          BY <1>2, <2>3, <3>2, <5>1
      <4>3. LineAt(f, s + 2) = T[s + 2]
        BY <3>3, <3>4, <4>2
      <4>. QED
        BY <4>1, <4>2, <4>3
    <3>. QED
      BY <3>5, <3>6
  <2>. QED
    BY <1>15, <2>5, <2>6, <2>7 DEF L, h, nc, next, long
<1>25. CASE j = L + 1
  <2>1. L < e + 1
    <3>1. ASSUME ~(L < e + 1) PROVE FALSE
      <4>1. e + 1 \in 1 .. L /\ e + 1 < j
        BY <1>2, <1>8, <1>25, <3>1
      <4>. QED
        BY <1>23, <4>1
    <3>. QED
      BY <3>1
  <2>2. ~f.whole
    <3>1. L # Len(T)
      BY <1>2, <1>8, <2>1
    <3>. QED
      BY <1>7, <3>1
  <2>3. ~(k + 1 <= K)
    BY <1>2, <1>5, <1>8, <1>17, <1>19, <2>1
  <2>4. next = L + 1
    <3>1. j \in Nat /\ j > L
      BY <1>8, <1>25
    <3>. QED
      BY <1>10, <1>25, <3>1 DEF next
  <2>5. next \in 1 .. L + 1 /\ next >= L
    BY <1>8, <2>4
  <2>6. AtHand(f, k + 1, next)
    BY <1>20, <2>3, <2>5
  <2>. QED
    BY <1>15, <2>2, <2>5, <2>6 DEF L, h, nc, next, long
<1>26. j <= L \/ j = L + 1
  BY <1>8, <1>b
<1>. QED
  BY <1>24, <1>25, <1>26

(***************************************************************************)
(* The inductive invariant.                                                *)
(***************************************************************************)
Known == m_players \cup merged.players
Heroes == isHero \cup merged.heroes
HandSet == [seats : Seq(Players), actions : Seq(ActionSet(Players)), winners : Seq(Players),
            hasBoard : BOOLEAN]

\* A hand that is kept is the one that was played, up to its last winners.
Kept(f, hand, h, known, heroes) ==
    /\ hand.seats = h.seats /\ hand.actions \in Seq(ActionSet(Range(h.seats)))
    /\ \E n \in 0 .. Len(h.collected) :
         /\ hand.winners = SubSeq(h.collected, 1, n)
         /\ f.whole => n = Len(h.collected)
         /\ Completed(ActionsOf(h), hand.winners, hand.actions, n)
    /\ f.whole => (hand.hasBoard <=> Len(h.streets) > 1)
    /\ Range(h.seats) \subseteq known /\ Range(h.dealt) \subseteq heroes

HandsKept(f, gs, known, heroes) ==
    /\ Len(gs) <= Len(f.scripts)
    /\ \A i \in 1 .. Len(gs) : Kept(f, gs[i], f.scripts[i], known, heroes)

\* Where a parser is in hand k of its file, and what it has read of it.
Place(f, k, s, q, seats, n, acts, wins, known, heroes) ==
    LET h == f.scripts[k]
        b == Start(f.scripts, k)
    IN  /\ s # "winners"
        /\ s = "open" => q = 0 /\ k = 1
        /\ s = "next" => AtHand(f, k, q)
        /\ s \in {"start", "table", "seats", "players", "hero", "streets", "board"} =>
             k <= Len(f.scripts)
        /\ s = "start" => q = b + 1
        /\ s = "table" => q = b + 2
        /\ s = "seats" => q = b + 3
        /\ s \in {"players", "hero", "streets", "board"} => seats = h.seats
        /\ s = "players" => /\ q = PostsAt(h, b) + 1 /\ q <= Len(f.lines)
                            /\ \A i \in 1 .. n : h.seats[i] \in known
        /\ s \in {"hero", "streets", "board"} => Range(h.seats) \subseteq known
        /\ s = "hero" => \/ q = DealtAt(h, b) + 1 /\ Real(f, q)
                         \/ Lost(f, q, {"collected", "dealt"})
        /\ s = "streets" => \/ AtRound(f, k, q, acts) /\ Range(h.dealt) \subseteq heroes
                            \/ Lost(f, q, {"collected"})
        /\ s = "board" => AtEnd(f, k, q, wins, acts) /\ Range(h.dealt) \subseteq heroes

Typed == /\ file \in [Parsers -> Files] /\ pc \in [Parsers -> Steps] /\ at \in [Parsers -> Nat]
         /\ m_seats \in [Parsers -> Seq(Players)] /\ added \in [Parsers -> Nat]
         /\ actions \in [Parsers -> Seq(ActionSet(Players))] /\ street \in [Parsers -> Streets]
         /\ winners \in [Parsers -> Seq(Players)] /\ games \in [Parsers -> Seq(HandSet)]
         /\ m_players \subseteq Players /\ isHero \subseteq m_players
         /\ merged.heroes \subseteq merged.players /\ merged.players \subseteq Players
         /\ aborted \in BOOLEAN

ParserInv(p) ==
    /\ at[p] <= Len(file[p].lines) + 1 /\ added[p] <= Len(m_seats[p])
    /\ HandsKept(file[p], games[p], Known, Heroes)
    /\ ~aborted => Place(file[p], Len(games[p]) + 1, pc[p], at[p], m_seats[p], added[p], actions[p],
                         winners[p], Known, Heroes)

\* The players leave the cache when no parser reads any more.
MergedLast == \/ merged.players = {} /\ merged.heroes = {}
              \/ (\A p \in Parsers : pc[p] \in {"done", "threw"}) /\ m_players = {} /\ isHero = {}

Inv == Typed /\ (\A p \in Parsers : ParserInv(p)) /\ MergedLast /\ AbortsHaveCause

LEMMA KeptMore ==
    ASSUME NEW f, NEW gs, NEW known, NEW heroes, NEW known2, NEW heroes2, known \subseteq known2,
           heroes \subseteq heroes2, HandsKept(f, gs, known, heroes)
    PROVE  HandsKept(f, gs, known2, heroes2)
<1>1. ASSUME NEW hand, NEW h, Kept(f, hand, h, known, heroes) PROVE Kept(f, hand, h, known2, heroes2)
  BY <1>1 DEF Kept
<1>. QED
  BY <1>1 DEF HandsKept

LEMMA PlaceMore ==
    ASSUME NEW f, NEW k, NEW s, NEW q, NEW seats, NEW n, NEW acts, NEW wins,
           NEW known, NEW heroes, NEW known2, NEW heroes2, known \subseteq known2,
           heroes \subseteq heroes2, Place(f, k, s, q, seats, n, acts, wins, known, heroes)
    PROVE  Place(f, k, s, q, seats, n, acts, wins, known2, heroes2)
  BY DEF Place

\* What a step of parser p leaves alone.
Moves(p) == /\ file' = file /\ merged' = merged /\ m_players \subseteq m_players' /\ isHero \subseteq isHero'
            /\ \A q \in Parsers \ {p} :
                 /\ pc'[q] = pc[q] /\ at'[q] = at[q] /\ m_seats'[q] = m_seats[q] /\ added'[q] = added[q]
                 /\ actions'[q] = actions[q] /\ winners'[q] = winners[q] /\ games'[q] = games[q]

LEMMA StepOf ==
    ASSUME Inv, NEW p \in Parsers, ~aborted, pc[p] \notin {"done", "threw"}, Moves(p), Typed',
           ParserInv(p)', AbortsHaveCause'
    PROVE  Inv'
<1>1. merged.players = {} /\ merged.heroes = {} /\ merged' = merged
  BY DEF Inv, MergedLast, Moves
<1>2. MergedLast'
  BY <1>1 DEF MergedLast
<1>3. Known \subseteq Known' /\ Heroes \subseteq Heroes'
  BY <1>1 DEF Moves, Known, Heroes
<1>4. ASSUME NEW q \in Parsers \ {p} PROVE ParserInv(q)'
  <2>1. /\ file'[q] = file[q] /\ pc'[q] = pc[q] /\ at'[q] = at[q] /\ m_seats'[q] = m_seats[q]
        /\ added'[q] = added[q] /\ actions'[q] = actions[q] /\ winners'[q] = winners[q]
        /\ games'[q] = games[q]
    BY DEF Moves
  <2>2. /\ at[q] <= Len(file[q].lines) + 1 /\ added[q] <= Len(m_seats[q])
        /\ HandsKept(file[q], games[q], Known, Heroes)
        /\ Place(file[q], Len(games[q]) + 1, pc[q], at[q], m_seats[q], added[q], actions[q],
                 winners[q], Known, Heroes)
    BY DEF Inv, ParserInv
  <2>3. HandsKept(file[q], games[q], Known', Heroes')
    BY <1>3, <2>2, KeptMore
  <2>4. Place(file[q], Len(games[q]) + 1, pc[q], at[q], m_seats[q], added[q], actions[q],
              winners[q], Known', Heroes')
    BY <1>3, <2>2, PlaceMore, Zenon
  <2>. QED
    BY <2>1, <2>2, <2>3, <2>4 DEF ParserInv
<1>5. \A q \in Parsers : ParserInv(q)'
  BY <1>4
<1>. QED
  BY <1>2, <1>5 DEF Inv

LEMMA InitInv == Init => Inv
<1> SUFFICES ASSUME Init PROVE Inv
  OBVIOUS
<1>1. /\ file \in [Parsers -> Files] /\ pc = [p \in Parsers |-> "open"] /\ at = [p \in Parsers |-> 0]
      /\ m_seats = [p \in Parsers |-> <<>>] /\ added = [p \in Parsers |-> 0]
      /\ actions = [p \in Parsers |-> <<>>] /\ street = [p \in Parsers |-> "none"]
      /\ winners = [p \in Parsers |-> <<>>] /\ games = [p \in Parsers |-> <<>>]
      /\ m_players = {} /\ isHero = {} /\ merged = [hands |-> {}, players |-> {}, heroes |-> {}]
      /\ aborted = FALSE
  BY DEF Init
<1>2. merged.players = {} /\ merged.heroes = {}
  BY <1>1
<1>3. Typed
  <2>1. "open" \in Steps
    BY DEF Steps, Zenon
  <2>2. "none" \in Streets
    BY DEF Streets
  <2>3. <<>> \in Seq(Players) /\ <<>> \in Seq(ActionSet(Players)) /\ <<>> \in Seq(HandSet)
    OBVIOUS
  <2>. QED
    BY <1>1, <1>2, <2>1, <2>2, <2>3 DEF Typed
<1>4. ASSUME NEW p \in Parsers PROVE ParserInv(p)
  <2>1. /\ pc[p] = "open" /\ at[p] = 0 /\ m_seats[p] = <<>> /\ added[p] = 0 /\ actions[p] = <<>>
        /\ winners[p] = <<>> /\ games[p] = <<>>
    BY <1>1
  <2>2. Len(file[p].lines) \in Nat /\ Len(file[p].scripts) \in Nat
    BY <1>1, FileFacts DEF TextFile
  <2>3. Len(games[p]) = 0 /\ Len(m_seats[p]) = 0
    BY <2>1
  <2>4. HandsKept(file[p], games[p], Known, Heroes)
    BY <2>2, <2>3 DEF HandsKept
  <2>5. Place(file[p], 1, "open", 0, <<>>, 0, <<>>, <<>>, Known, Heroes)
    BY DEF Place
  <2>. QED
    BY <2>1, <2>2, <2>3, <2>4, <2>5 DEF ParserInv
<1>5. MergedLast /\ AbortsHaveCause
  BY <1>1, <1>2 DEF MergedLast, AbortsHaveCause
<1>. QED
  BY <1>3, <1>4, <1>5 DEF Inv

\* What the invariant says of a parser that runs.
LEMMA ParserFacts ==
    ASSUME Inv, NEW p \in Parsers
    PROVE  /\ TextFile(file[p]) /\ Len(file[p].lines) \in Nat /\ Len(file[p].scripts) \in Nat
           /\ at[p] \in Nat /\ at[p] <= Len(file[p].lines) + 1
           /\ m_seats[p] \in Seq(Players) /\ Len(m_seats[p]) \in Nat
           /\ added[p] \in Nat /\ added[p] <= Len(m_seats[p])
           /\ actions[p] \in Seq(ActionSet(Players)) /\ street[p] \in Streets
           /\ winners[p] \in Seq(Players)
           /\ games[p] \in Seq(HandSet) /\ Len(games[p]) \in Nat /\ Len(games[p]) + 1 \in Nat \ {0}
           /\ HandsKept(file[p], games[p], Known, Heroes)
           /\ ~aborted => Place(file[p], Len(games[p]) + 1, pc[p], at[p], m_seats[p], added[p],
                                actions[p], winners[p], Known, Heroes)
<1>1. file[p] \in Files /\ at[p] \in Nat /\ m_seats[p] \in Seq(Players) /\ added[p] \in Nat
      /\ actions[p] \in Seq(ActionSet(Players)) /\ street[p] \in Streets
      /\ winners[p] \in Seq(Players) /\ games[p] \in Seq(HandSet)
  BY DEF Inv, Typed
<1>2. TextFile(file[p]) /\ Len(file[p].lines) \in Nat /\ Len(file[p].scripts) \in Nat
  BY <1>1, FileFacts DEF TextFile
<1>3. Len(m_seats[p]) \in Nat /\ Len(games[p]) \in Nat
  BY <1>1, LenOf
<1>4. Len(games[p]) + 1 \in Nat \ {0}
  BY <1>3
<1>5. ParserInv(p)
  BY DEF Inv
<1>. QED
  BY <1>1, <1>2, <1>3, <1>4, <1>5 DEF ParserInv

\* handleGame and createGame start the hands of a file.
LEMMA OpenInv == ASSUME Inv, NEW p \in Parsers, Open(p) PROVE Inv'
<1> DEFINE f == file[p]
<1>1. /\ ~aborted /\ pc[p] = "open"
      /\ pc' = [pc EXCEPT ![p] = IF IsGame(f) THEN "next" ELSE "done"]
      /\ UNCHANGED <<file, at, m_seats, added, actions, street, winners, games, m_players, isHero,
                     merged, aborted>>
  BY DEF Open, At, Goto, builder, cache
<1>2. Typed /\ pc \in [Parsers -> Steps]
  BY DEF Inv, Typed
<1>3. pc'[p] \in {"next", "done"} /\ pc' \in [Parsers -> Steps] /\ \A q \in Parsers \ {p} : pc'[q] = pc[q]
  BY <1>1, <1>2 DEF Steps
<1>4. /\ Len(f.lines) \in Nat /\ Len(f.scripts) \in Nat /\ TextFile(f)
      /\ at[p] <= Len(f.lines) + 1 /\ added[p] <= Len(m_seats[p])
      /\ HandsKept(f, games[p], Known, Heroes)
      /\ Place(f, Len(games[p]) + 1, "open", at[p], m_seats[p], added[p], actions[p], winners[p], Known, Heroes)
  BY <1>1, ParserFacts
<1>5. at[p] = 0 /\ Len(games[p]) + 1 = 1
  BY <1>4 DEF Place
<1>6. AtHand(f, Len(games[p]) + 1, at[p])
  <2>1. f.scripts \in Seq(Scripts) /\ (Len(f.scripts) = 0 => Len(f.lines) = 0)
    BY <1>4 DEF TextFile
  <2>2. Start(f.scripts, 1) = 0
    BY <2>1, HandsInText
  <2> HIDE DEF f
  <2>3. IF 1 <= Len(f.scripts) THEN 0 = Start(f.scripts, 1) ELSE 0 >= Len(f.lines)
    BY <1>4, <2>1, <2>2
  <2>. QED
    BY <1>5, <2>3 DEF AtHand
<1>7. Place(f, Len(games[p]) + 1, pc'[p], at[p], m_seats[p], added[p], actions[p], winners[p], Known, Heroes)
  BY <1>3, <1>6 DEF Place
<1>8. ParserInv(p)'
  BY <1>1, <1>4, <1>7 DEF ParserInv, Known, Heroes
<1>9. Typed' /\ AbortsHaveCause' /\ Moves(p)
  BY <1>1, <1>2, <1>3 DEF Typed, AbortsHaveCause, Moves
<1>. QED
  BY <1>1, <1>8, <1>9, StepOf

LEMMA NextHandInv == ASSUME Inv, NEW p \in Parsers, NextHand(p) PROVE Inv'
<1> DEFINE f == file[p]
           k == Len(games[p]) + 1
<1>1. /\ ~aborted /\ pc[p] = "next"
      /\ at' = [at EXCEPT ![p] = NextIndex(f, at[p])]
      /\ pc' = [pc EXCEPT ![p] = IF at[p] < Len(f.lines) THEN "start" ELSE "done"]
      /\ UNCHANGED <<file, m_seats, added, actions, street, winners, games, m_players, isHero,
                     merged, aborted>>
  BY DEF NextHand, At, Goto, builder, cache
<1>2. Typed /\ pc \in [Parsers -> Steps] /\ at \in [Parsers -> Nat]
  BY DEF Inv, Typed
<1>3. /\ pc'[p] = IF at[p] < Len(f.lines) THEN "start" ELSE "done"
      /\ pc' \in [Parsers -> Steps] /\ \A q \in Parsers \ {p} : pc'[q] = pc[q]
  BY <1>1, <1>2 DEF Steps
<1>4. /\ Len(f.lines) \in Nat /\ Len(f.scripts) \in Nat /\ TextFile(f) /\ k \in Nat \ {0} /\ at[p] \in Nat
      /\ at[p] <= Len(f.lines) + 1 /\ added[p] <= Len(m_seats[p])
      /\ HandsKept(f, games[p], Known, Heroes)
      /\ Place(f, k, "next", at[p], m_seats[p], added[p], actions[p], winners[p], Known, Heroes)
  BY <1>1, ParserFacts
<1>5. at'[p] = NextIndex(f, at[p]) /\ \A q \in Parsers \ {p} : at'[q] = at[q]
  BY <1>1, <1>2
<1>6. at'[p] \in Nat /\ at'[p] <= Len(f.lines) + 1
  <2> HIDE DEF f
  <2>. QED
    BY <1>4, <1>5 DEF NextIndex
<1>7. AtHand(f, k, at[p])
  BY <1>4 DEF Place
<1>8. Place(f, k, pc'[p], at'[p], m_seats[p], added[p], actions[p], winners[p], Known, Heroes)
  <2>1. CASE k <= Len(f.scripts)
    <3>1. k \in 1 .. Len(f.scripts) /\ at[p] = Start(f.scripts, k)
      BY <1>4, <1>7, <2>1 DEF AtHand
    <3>2. NextIndex(f, at[p]) = Start(f.scripts, k) + 1 /\ Start(f.scripts, k) + 1 \in 1 .. Len(f.lines)
      BY <1>4, <3>1, TableStep
    <3>3. at[p] < Len(f.lines)
      BY <1>4, <3>1, <3>2
    <3>. QED
      BY <1>3, <1>5, <2>1, <3>1, <3>2, <3>3 DEF Place
  <2>2. CASE ~(k <= Len(f.scripts))
    <3>1. ~(at[p] < Len(f.lines))
      BY <1>4, <1>7, <2>2 DEF AtHand
    <3>. QED
      BY <1>3, <3>1 DEF Place
  <2>. QED
    BY <2>1, <2>2
<1>10. ParserInv(p)'
  BY <1>1, <1>4, <1>6, <1>8 DEF ParserInv, Known, Heroes
<1>11. at' \in [Parsers -> Nat]
  BY <1>1, <1>2, <1>5, <1>6
<1>12. Typed' /\ AbortsHaveCause' /\ Moves(p)
  BY <1>1, <1>2, <1>3, <1>5, <1>11 DEF Typed, AbortsHaveCause, Moves
<1>. QED
  BY <1>1, <1>10, <1>12, StepOf

LEMMA StartLineInv == ASSUME Inv, NEW p \in Parsers, StartLine(p) PROVE Inv'
<1> DEFINE f == file[p]
           k == Len(games[p]) + 1
<1>1. /\ ~aborted /\ pc[p] = "start"
      /\ \/ /\ pc' = [pc EXCEPT ![p] = "table"] /\ at' = [at EXCEPT ![p] = NextIndex(f, at[p])]
         \/ pc' = [pc EXCEPT ![p] = "threw"] /\ at' = at
      /\ UNCHANGED <<file, m_seats, added, actions, street, winners, games, m_players, isHero,
                     merged, aborted>>
  BY DEF StartLine, At, Goto, builder, cache
<1>2. Typed /\ pc \in [Parsers -> Steps] /\ at \in [Parsers -> Nat]
  BY DEF Inv, Typed
<1>3. /\ Len(f.lines) \in Nat /\ Len(f.scripts) \in Nat /\ TextFile(f) /\ at[p] \in Nat /\ k \in Nat \ {0}
      /\ at[p] <= Len(f.lines) + 1 /\ added[p] <= Len(m_seats[p])
      /\ HandsKept(f, games[p], Known, Heroes)
      /\ Place(f, k, "start", at[p], m_seats[p], added[p], actions[p], winners[p], Known, Heroes)
  BY <1>1, ParserFacts
<1>4. k \in 1 .. Len(f.scripts) /\ at[p] = Start(f.scripts, k) + 1
  BY <1>3 DEF Place
<1>5. NextIndex(f, at[p]) = Start(f.scripts, k) + 2 /\ Start(f.scripts, k) + 2 \in 1 .. Len(f.lines) + 1
  BY <1>3, <1>4, TableStep
<1>6. /\ pc' \in [Parsers -> Steps] /\ at' \in [Parsers -> Nat]
      /\ \A q \in Parsers \ {p} : pc'[q] = pc[q] /\ at'[q] = at[q]
      /\ \/ pc'[p] = "table" /\ at'[p] = Start(f.scripts, k) + 2
         \/ pc'[p] = "threw" /\ at'[p] = at[p]
  <2>1. NextIndex(f, at[p]) \in Nat
    BY <1>3, <1>5
  <2>2. "table" \in Steps /\ "threw" \in Steps
    BY Zenon DEF Steps
  <2> HIDE DEF f, k
  <2>. QED
    BY <1>1, <1>2, <1>5, <2>1, <2>2
<1>7. at'[p] <= Len(f.lines) + 1
  BY <1>3, <1>5, <1>6
<1>8. Place(f, k, pc'[p], at'[p], m_seats[p], added[p], actions[p], winners[p], Known, Heroes)
  BY <1>4, <1>6 DEF Place
<1>9. ParserInv(p)'
  BY <1>1, <1>3, <1>7, <1>8 DEF ParserInv, Known, Heroes
<1>10. Typed' /\ AbortsHaveCause' /\ Moves(p)
  BY <1>1, <1>2, <1>6 DEF Typed, AbortsHaveCause, Moves
<1>. QED
  BY <1>1, <1>9, <1>10, StepOf

\* An assertion fails on the line of the table only in a file that was cut.
LEMMA TableLineInv == ASSUME Inv, NEW p \in Parsers, TableLine(p) PROVE Inv'
<1> DEFINE f == file[p]
           k == Len(games[p]) + 1
           kind == LineAt(f, at[p]).kind
<1>1. /\ ~aborted /\ pc[p] = "table"
      /\ \/ /\ kind = "table" /\ pc' = [pc EXCEPT ![p] = "seats"]
            /\ at' = [at EXCEPT ![p] = NextIndex(f, at[p])] /\ aborted' = aborted
         \/ pc' = [pc EXCEPT ![p] = "threw"] /\ at' = at /\ aborted' = aborted
         \/ kind \notin {"table", ""} /\ aborted' = TRUE /\ at' = at /\ pc' = pc
      /\ UNCHANGED <<file, m_seats, added, actions, street, winners, games, m_players, isHero,
                     merged>>
  BY Zenon DEF TableLine, At, Goto, builder, cache
<1>a. ~aborted /\ pc[p] = "table"
  BY <1>1, Zenon
<1>2. Typed /\ pc \in [Parsers -> Steps] /\ at \in [Parsers -> Nat]
  BY DEF Inv, Typed
<1>3. /\ Len(f.lines) \in Nat /\ Len(f.scripts) \in Nat /\ TextFile(f) /\ at[p] \in Nat /\ k \in Nat \ {0}
      /\ at[p] <= Len(f.lines) + 1 /\ added[p] <= Len(m_seats[p])
      /\ HandsKept(f, games[p], Known, Heroes)
      /\ Place(f, k, "table", at[p], m_seats[p], added[p], actions[p], winners[p], Known, Heroes)
  BY <1>a, ParserFacts
<1>4. k \in 1 .. Len(f.scripts) /\ at[p] = Start(f.scripts, k) + 2
  BY <1>3 DEF Place
<1>5. /\ kind = "table" => /\ NextIndex(f, at[p]) = Start(f.scripts, k) + 3
                           /\ at[p] <= Len(f.lines) /\ NextIndex(f, at[p]) = at[p] + 1
      /\ kind \notin {"table", ""} => ~f.whole
  <2>1. /\ kind = "table" => NextIndex(f, at[p]) = Start(f.scripts, k) + 3 /\ at[p] <= Len(f.lines)
        /\ kind \notin {"table", ""} => ~f.whole
    BY <1>3, <1>4, TableStep, Zenon
  <2>2. at[p] <= Len(f.lines) => NextIndex(f, at[p]) = at[p] + 1
    BY <1>3, <1>4, LinesRead
  <2>. QED
    BY <2>1, <2>2, Zenon
<1>6. /\ pc' \in [Parsers -> Steps] /\ at' \in [Parsers -> Nat]
      /\ \A q \in Parsers \ {p} : pc'[q] = pc[q] /\ at'[q] = at[q]
      /\ aborted' \in BOOLEAN /\ (aborted' => ~f.whole)
      /\ \/ /\ pc'[p] = "seats" /\ at'[p] = Start(f.scripts, k) + 3
            /\ at[p] <= Len(f.lines) /\ at'[p] = at[p] + 1
         \/ pc'[p] = "threw" /\ at'[p] = at[p]
         \/ aborted' /\ at'[p] = at[p]
  <2>1. CASE /\ kind = "table" /\ pc' = [pc EXCEPT ![p] = "seats"]
             /\ at' = [at EXCEPT ![p] = NextIndex(f, at[p])] /\ aborted' = aborted
    <3>1. NextIndex(f, at[p]) = Start(f.scripts, k) + 3 /\ at[p] <= Len(f.lines) /\ NextIndex(f, at[p]) = at[p] + 1
      BY <1>5, <2>1, Zenon
    <3>2. NextIndex(f, at[p]) \in Nat
      BY <1>3, <3>1
    <3>3. "seats" \in Steps
      BY Zenon DEF Steps
    <3>4. pc' = [pc EXCEPT ![p] = "seats"] /\ at' = [at EXCEPT ![p] = NextIndex(f, at[p])] /\ ~aborted'
      BY <1>1, <2>1, Zenon
    <3>5. aborted' \in BOOLEAN /\ (aborted' => ~f.whole)
      BY <1>2, <2>1, <3>4, Zenon DEF Typed
    <3>6. pc' = [pc EXCEPT ![p] = "seats"] /\ at' = [at EXCEPT ![p] = NextIndex(f, at[p])]
      BY <3>4
    <3> DEFINE x == NextIndex(f, at[p])
    <3> HIDE DEF f, k, kind, x
    <3>7. /\ pc' \in [Parsers -> Steps] /\ at' \in [Parsers -> Nat]
          /\ \A q \in Parsers \ {p} : pc'[q] = pc[q] /\ at'[q] = at[q]
          /\ pc'[p] = "seats" /\ at'[p] = x
      BY <1>2, <3>2, <3>3, <3>6 DEF x
    <3>. QED
      BY <3>1, <3>5, <3>7, Zenon DEF x
  <2>2. CASE pc' = [pc EXCEPT ![p] = "threw"] /\ at' = at /\ aborted' = aborted
    <3>1. "threw" \in Steps
      BY Zenon DEF Steps
    <3>2. ~aborted'
      BY <1>1, <2>2, Zenon
    <3>3. aborted' \in BOOLEAN /\ (aborted' => ~f.whole)
      BY <1>2, <2>2, <3>2, Zenon DEF Typed
    <3>4. /\ pc' \in [Parsers -> Steps] /\ at' \in [Parsers -> Nat]
          /\ \A q \in Parsers \ {p} : pc'[q] = pc[q] /\ at'[q] = at[q]
          /\ pc'[p] = "threw" /\ at'[p] = at[p]
      BY <1>2, <2>2, <3>1
    <3>. QED
      BY <3>3, <3>4, Zenon
  <2>3. CASE kind \notin {"table", ""} /\ aborted' = TRUE /\ at' = at /\ pc' = pc
    <3>1. ~f.whole
      BY <1>5, <2>3, Zenon
    <3>2. aborted' = TRUE /\ at' = at /\ pc' = pc
      BY <2>3, Zenon
    <3>. QED
      BY <1>2, <3>1, <3>2
  <2>. QED
    BY <1>1, <2>1, <2>2, <2>3, Zenon
<1>7. at'[p] <= Len(f.lines) + 1
  BY <1>3, <1>6
<1>8. ~aborted' => Place(f, k, pc'[p], at'[p], m_seats[p], added[p], actions[p], winners[p], Known, Heroes)
  BY <1>4, <1>6 DEF Place
<1>9. UNCHANGED <<file, m_seats, added, actions, street, winners, games, m_players, isHero, merged>>
  BY <1>1, Zenon
<1>10. ParserInv(p)'
  BY <1>3, <1>7, <1>8, <1>9 DEF ParserInv, Known, Heroes
<1>11. Typed' /\ AbortsHaveCause' /\ Moves(p)
  BY <1>2, <1>6, <1>9 DEF Typed, AbortsHaveCause, Moves
<1>12. ~aborted /\ pc[p] \notin {"done", "threw"}
  BY <1>1, Zenon
<1>. QED
  BY <1>10, <1>11, <1>12, StepOf

LEMMA SeatsInv == ASSUME Inv, NEW p \in Parsers, Seats(p) PROVE Inv'
<1> DEFINE f == file[p]
           k == Len(games[p]) + 1
           h == f.scripts[k]
           b == Start(f.scripts, k)
<1>1. /\ ~aborted /\ pc[p] = "seats"
      /\ added' = [added EXCEPT ![p] = 0] /\ pc' = [pc EXCEPT ![p] = "players"]
      /\ UNCHANGED <<file, actions, street, winners, games, m_players, isHero, merged, aborted>>
  BY DEF Seats, At, Goto, cache
<1>2. PICK i \in Skip(f, at[p], {"seat"}) : \E j \in Reach(f, i, {"posts"}) :
        /\ at' = [at EXCEPT ![p] = j]
        /\ m_seats' = [m_seats EXCEPT ![p] = Names(Between(f, at[p], i))]
  BY DEF Seats
<1>3. PICK j \in Reach(f, i, {"posts"}) :
        /\ at' = [at EXCEPT ![p] = j]
        /\ m_seats' = [m_seats EXCEPT ![p] = Names(Between(f, at[p], i))]
  BY <1>2
<1>4. /\ Typed /\ pc \in [Parsers -> Steps] /\ at \in [Parsers -> Nat]
      /\ added \in [Parsers -> Nat] /\ m_seats \in [Parsers -> Seq(Players)]
  BY DEF Inv, Typed
<1>5. /\ Len(f.lines) \in Nat /\ Len(f.scripts) \in Nat /\ TextFile(f) /\ at[p] \in Nat /\ k \in Nat \ {0}
      /\ at[p] <= Len(f.lines) + 1
      /\ HandsKept(f, games[p], Known, Heroes)
      /\ Place(f, k, "seats", at[p], m_seats[p], added[p], actions[p], winners[p], Known, Heroes)
  BY <1>1, ParserFacts
<1>6. k \in 1 .. Len(f.scripts) /\ at[p] = b + 3
  BY <1>5 DEF Place
<1>7. j = PostsAt(h, b) + 1 /\ j <= Len(f.lines) /\ Names(Between(f, at[p], i)) = h.seats
  <2>1. i \in Skip(f, b + 3, {"seat"}) /\ b + 3 <= Len(f.lines) + 1
    BY <1>5, <1>6
  <2>. QED
    BY <1>5, <1>6, <2>1, SeatsStep
<1>8. j \in Nat /\ h.seats \in Seq(Players) /\ Len(h.seats) \in Nat
  <2>1. PostsAt(h, b) \in Nat /\ h \in Scripts
    BY <1>5, <1>6, PlacesInText
  <2>2. h.seats \in Seq(Players) /\ Len(h.seats) \in Nat
    BY <2>1, ScriptFacts, Zenon
  <2>. QED
    BY <1>7, <2>1, <2>2
<1>9. /\ pc'[p] = "players" /\ at'[p] = j /\ m_seats'[p] = h.seats /\ added'[p] = 0
      /\ pc' \in [Parsers -> Steps] /\ at' \in [Parsers -> Nat]
      /\ added' \in [Parsers -> Nat] /\ m_seats' \in [Parsers -> Seq(Players)]
      /\ \A q \in Parsers \ {p} : /\ pc'[q] = pc[q] /\ at'[q] = at[q]
                                  /\ m_seats'[q] = m_seats[q] /\ added'[q] = added[q]
  <2>1. "players" \in Steps
    BY Zenon DEF Steps
  <2>2. m_seats' = [m_seats EXCEPT ![p] = h.seats]
    BY <1>3, <1>7
  <2> HIDE DEF f, k, h, b
  <2>. QED
    BY <1>1, <1>3, <1>4, <1>8, <2>1, <2>2
<1>10. Place(f, k, "players", j, h.seats, 0, actions[p], winners[p], Known, Heroes)
  BY <1>6, <1>7 DEF Place
<1>11. j <= Len(f.lines) + 1 /\ 0 <= Len(h.seats)
  <2> HIDE DEF f, k, h, b
  <2>. QED
    BY <1>5, <1>7, <1>8
<1>12. ParserInv(p)'
  BY <1>1, <1>5, <1>9, <1>10, <1>11 DEF ParserInv, Known, Heroes
<1>13. Typed' /\ AbortsHaveCause' /\ Moves(p)
  BY <1>1, <1>4, <1>9 DEF Typed, AbortsHaveCause, Moves
<1>. QED
  BY <1>1, <1>12, <1>13, StepOf

LEMMA AddPlayerInv == ASSUME Inv, NEW p \in Parsers, AddPlayer(p) PROVE Inv'
<1> DEFINE f == file[p]
           k == Len(games[p]) + 1
           h == f.scripts[k]
           n == added[p]
           name == m_seats[p][n + 1]
<1>1. /\ ~aborted /\ pc[p] = "players" /\ n < Len(m_seats[p])
      /\ added' = [added EXCEPT ![p] = n + 1] /\ m_players' = m_players \cup {name}
      /\ UNCHANGED <<file, pc, at, m_seats, actions, street, winners, games, isHero, merged, aborted>>
  BY DEF AddPlayer, At, AddIfMissing
<1>2. Typed /\ added \in [Parsers -> Nat]
  BY DEF Inv, Typed
<1>3. /\ n \in Nat /\ m_seats[p] \in Seq(Players) /\ Len(m_seats[p]) \in Nat
      /\ at[p] <= Len(f.lines) + 1
      /\ HandsKept(f, games[p], Known, Heroes)
      /\ Place(f, k, "players", at[p], m_seats[p], n, actions[p], winners[p], Known, Heroes)
  BY <1>1, ParserFacts
<1>4. n + 1 \in 1 .. Len(m_seats[p]) /\ n + 1 \in Nat /\ n + 1 <= Len(m_seats[p])
  <2> HIDE DEF n
  <2>. QED
    BY <1>1, <1>3
<1>5. name \in Players
  BY <1>3, <1>4, ElementOf
<1>6. /\ added' \in [Parsers -> Nat] /\ added'[p] = n + 1 /\ \A q \in Parsers \ {p} : added'[q] = added[q]
  <2> DEFINE x == n + 1
  <2>1. added' = [added EXCEPT ![p] = x] /\ x \in Nat
    BY <1>1, <1>4
  <2> HIDE DEF x
  <2>2. /\ added' \in [Parsers -> Nat] /\ added'[p] = x /\ \A q \in Parsers \ {p} : added'[q] = added[q]
    BY <1>2, <2>1
  <2>. QED
    BY <2>2 DEF x
<1>7. Known \subseteq Known' /\ Heroes' = Heroes /\ name \in Known'
  BY <1>1 DEF Known, Heroes
<1>8. Place(f, k, "players", at[p], m_seats[p], n + 1, actions[p], winners[p], Known', Heroes)
  <2>1. /\ k <= Len(f.scripts) /\ m_seats[p] = h.seats /\ at[p] = PostsAt(h, Start(f.scripts, k)) + 1
        /\ at[p] <= Len(f.lines) /\ \A i \in 1 .. n : h.seats[i] \in Known
    BY <1>3 DEF Place
  <2>2. ASSUME NEW i \in 1 .. n + 1 PROVE h.seats[i] \in Known'
    <3>1. i \in 1 .. n \/ i = n + 1
      <4> HIDE DEF n
      <4>. QED
        BY <1>3
    <3>2. CASE i \in 1 .. n
      BY <1>7, <2>1, <3>2
    <3>3. CASE i = n + 1
      BY <1>7, <2>1, <3>3
    <3>. QED
      BY <3>1, <3>2, <3>3
  <2>. QED
    BY <2>1, <2>2 DEF Place
<1>9. HandsKept(f, games[p], Known', Heroes)
  <2>1. Heroes \subseteq Heroes
    OBVIOUS
  <2>. QED
    BY <1>3, <1>7, <2>1, KeptMore
<1>10. ParserInv(p)'
  BY <1>1, <1>3, <1>4, <1>6, <1>7, <1>8, <1>9 DEF ParserInv
<1>11. Typed' /\ AbortsHaveCause' /\ Moves(p)
  BY <1>1, <1>2, <1>5, <1>6 DEF Typed, AbortsHaveCause, Moves
<1>. QED
  BY <1>1, <1>10, <1>11, StepOf

LEMMA AnteInv == ASSUME Inv, NEW p \in Parsers, Ante(p) PROVE Inv'
<1> DEFINE f == file[p]
           k == Len(games[p]) + 1
           h == f.scripts[k]
           b == Start(f.scripts, k)
<1>1. /\ ~aborted /\ pc[p] = "players" /\ added[p] = Len(m_seats[p])
      /\ pc' = [pc EXCEPT ![p] = "hero"]
      /\ UNCHANGED <<file, m_seats, added, actions, street, winners, games, m_players, isHero, merged, aborted>>
  BY DEF Ante, At, Goto, builder, cache
<1>2. PICK j \in Skip(f, at[p], {"posts"}) : at' = [at EXCEPT ![p] = j]
  BY DEF Ante
<1>3. Typed /\ pc \in [Parsers -> Steps] /\ at \in [Parsers -> Nat]
  BY DEF Inv, Typed
<1>4. /\ m_seats[p] \in Seq(Players) /\ Len(f.scripts) \in Nat /\ k \in Nat \ {0} /\ TextFile(f)
      /\ Len(f.lines) \in Nat
      /\ HandsKept(f, games[p], Known, Heroes)
      /\ Place(f, k, "players", at[p], m_seats[p], added[p], actions[p], winners[p], Known, Heroes)
  BY <1>1, ParserFacts
<1>5. /\ k \in 1 .. Len(f.scripts) /\ m_seats[p] = h.seats /\ at[p] = PostsAt(h, b) + 1
      /\ at[p] <= Len(f.lines) /\ \A i \in 1 .. added[p] : h.seats[i] \in Known
  BY <1>4 DEF Place
<1>6. /\ j \in 1 .. Len(f.lines) + 1
      /\ \/ j = DealtAt(h, b) + 1 /\ Real(f, j)
         \/ Lost(f, j, {"collected", "dealt"})
  <2>1. PostsAt(h, b) + 1 <= Len(f.lines) /\ j \in Skip(f, PostsAt(h, b) + 1, {"posts"})
    BY <1>5
  <2>. QED
    BY <1>4, <1>5, <2>1, AnteStep, Zenon
<1>7. Range(h.seats) \subseteq Known
  <2>1. DOMAIN h.seats = 1 .. added[p]
    BY <1>1, <1>4, <1>5, LenOf
  <2>. QED
    BY <1>5, <2>1 DEF Range
<1>8. j \in Nat /\ j <= Len(f.lines) + 1
  BY <1>4, <1>6
<1>9. /\ pc'[p] = "hero" /\ at'[p] = j /\ pc' \in [Parsers -> Steps] /\ at' \in [Parsers -> Nat]
      /\ \A q \in Parsers \ {p} : pc'[q] = pc[q] /\ at'[q] = at[q]
  <2>1. "hero" \in Steps
    BY Zenon DEF Steps
  <2>. QED
    BY <1>1, <1>2, <1>3, <1>8, <2>1
<1>10. Place(f, k, "hero", j, m_seats[p], added[p], actions[p], winners[p], Known, Heroes)
  <2>1. k <= Len(f.scripts)
    BY <1>5
  <2>. QED
    BY <1>5, <1>6, <1>7, <2>1 DEF Place
<1>11. added[p] <= Len(m_seats[p])
  BY ParserFacts
<1>12. ParserInv(p)'
  BY <1>1, <1>4, <1>8, <1>9, <1>10, <1>11 DEF ParserInv, Known, Heroes
<1>13. Typed' /\ AbortsHaveCause' /\ Moves(p)
  BY <1>1, <1>3, <1>9 DEF Typed, AbortsHaveCause, Moves
<1>. QED
  BY <1>1, <1>12, <1>13, StepOf

\* The hero is a player of the hand: the cache knows it, and only a space in its name
\* makes an assertion fail.
LEMMA HeroInv == ASSUME Inv, NEW p \in Parsers, Hero(p) PROVE Inv'
<1> DEFINE f == file[p]
           k == Len(games[p]) + 1
           h == f.scripts[k]
           b == Start(f.scripts, k)
           q == at[p]
           line == LineAt(f, q)
<1>1. /\ ~aborted /\ pc[p] = "hero"
      /\ actions' = [actions EXCEPT ![p] = <<>>] /\ street' = [street EXCEPT ![p] = "none"]
      /\ pc' = [pc EXCEPT ![p] = "streets"]
      /\ UNCHANGED <<file, m_seats, added, winners, games, merged>>
  BY DEF Hero, At, Goto
<1>2. \/ line.kind # "dealt" /\ UNCHANGED <<at, m_players, isHero, aborted>>
      \/ /\ line.kind = "dealt" /\ line.player \in m_players \ Spaced
         /\ at' = [at EXCEPT ![p] = NextIndex(f, q)]
         /\ isHero' = isHero \cup {line.player} /\ UNCHANGED <<m_players, aborted>>
      \/ /\ line.kind = "dealt" /\ line.player \notin m_players \ Spaced
         /\ aborted' = TRUE /\ UNCHANGED <<at, m_players, isHero>>
  BY DEF Hero, SetIsHero, cache
<1>3. /\ Typed /\ pc \in [Parsers -> Steps] /\ at \in [Parsers -> Nat]
      /\ actions \in [Parsers -> Seq(ActionSet(Players))] /\ street \in [Parsers -> Streets]
      /\ isHero \subseteq m_players
  BY DEF Inv, Typed
<1>4. /\ Len(f.scripts) \in Nat /\ k \in Nat \ {0} /\ TextFile(f) /\ Len(f.lines) \in Nat
      /\ q \in Nat /\ q <= Len(f.lines) + 1 /\ added[p] <= Len(m_seats[p])
      /\ HandsKept(f, games[p], Known, Heroes)
      /\ Place(f, k, "hero", q, m_seats[p], added[p], actions[p], winners[p], Known, Heroes)
  BY <1>1, ParserFacts
<1>5. /\ k \in 1 .. Len(f.scripts) /\ m_seats[p] = h.seats /\ Range(h.seats) \subseteq Known
      /\ \/ q = DealtAt(h, b) + 1 /\ Real(f, q)
         \/ Lost(f, q, {"collected", "dealt"})
  BY <1>4 DEF Place
<1>6. Known = m_players /\ Heroes = isHero
  BY <1>1 DEF Inv, MergedLast, Known, Heroes
<1>7. ASSUME q = DealtAt(h, b) + 1, Real(f, q)
      PROVE  /\ line.kind # "dealt" => Range(h.dealt) = {} /\ AtRound(f, k, q, <<>>)
             /\ line.kind = "dealt" =>
                  /\ Range(h.dealt) = {line.player} /\ line.player \in Range(h.seats)
                  /\ NextIndex(f, q) \in 1 .. Len(f.lines) + 1
                  /\ AtRound(f, k, NextIndex(f, q), <<>>) \/ Lost(f, NextIndex(f, q), {"collected"})
  BY <1>4, <1>5, <1>7, HeroStep, Zenon
<1>8. ASSUME Lost(f, q, {"collected", "dealt"}) PROVE line.kind # "dealt" /\ Lost(f, q, {"collected"})
  BY <1>8 DEF Lost
<1>9. /\ pc'[p] = "streets" /\ actions'[p] = <<>> /\ pc' \in [Parsers -> Steps]
      /\ actions' \in [Parsers -> Seq(ActionSet(Players))] /\ street' \in [Parsers -> Streets]
      /\ \A x \in Parsers \ {p} : pc'[x] = pc[x] /\ actions'[x] = actions[x]
  <2>1. "streets" \in Steps
    BY Zenon DEF Steps
  <2>2. "none" \in Streets /\ <<>> \in Seq(ActionSet(Players))
    BY DEF Streets
  <2>. QED
    BY <1>1, <1>3, <2>1, <2>2
<1>10. k <= Len(f.scripts)
  BY <1>5
<1> HIDE DEF f, k, h, b, q, line
<1>11. CASE line.kind # "dealt" /\ UNCHANGED <<at, m_players, isHero, aborted>>
  <2>1. Lost(f, q, {"collected"}) \/ (AtRound(f, k, q, <<>>) /\ Range(h.dealt) = {})
    BY <1>5, <1>7, <1>8, <1>11
  <2>2. Place(f, k, "streets", q, m_seats[p], added[p], <<>>, winners[p], Known, Heroes)
    BY <1>5, <1>10, <2>1 DEF Place, h, b
  <2>3. ParserInv(p)'
    BY <1>1, <1>4, <1>9, <1>11, <2>2 DEF ParserInv, Known, Heroes, f, k, q
  <2>4. Typed' /\ AbortsHaveCause' /\ Moves(p)
    BY <1>1, <1>3, <1>9, <1>11 DEF Typed, AbortsHaveCause, Moves
  <2>. QED
    BY <1>1, <2>3, <2>4, StepOf
<1>12. CASE /\ line.kind = "dealt" /\ line.player \in m_players \ Spaced
            /\ at' = [at EXCEPT ![p] = NextIndex(f, q)]
            /\ isHero' = isHero \cup {line.player} /\ UNCHANGED <<m_players, aborted>>
  <2>1. /\ Range(h.dealt) = {line.player} /\ NextIndex(f, q) \in 1 .. Len(f.lines) + 1
        /\ AtRound(f, k, NextIndex(f, q), <<>>) \/ Lost(f, NextIndex(f, q), {"collected"})
    BY <1>5, <1>7, <1>8, <1>12
  <2>2. NextIndex(f, q) \in Nat /\ NextIndex(f, q) <= Len(f.lines) + 1
    BY <1>4, <2>1
  <2>3. /\ at'[p] = NextIndex(f, q) /\ at' \in [Parsers -> Nat] /\ \A x \in Parsers \ {p} : at'[x] = at[x]
    BY <1>3, <1>12, <2>2
  <2>4. Known' = Known /\ Heroes \subseteq Heroes' /\ Range(h.dealt) \subseteq Heroes'
    BY <1>1, <1>12, <2>1 DEF Known, Heroes
  <2>5. Place(f, k, "streets", NextIndex(f, q), m_seats[p], added[p], <<>>, winners[p], Known', Heroes')
    BY <1>5, <1>10, <2>1, <2>4 DEF Place, h, b
  <2>6. HandsKept(f, games[p], Known', Heroes')
    <3>1. Known \subseteq Known'
      BY <2>4
    <3>. QED
      BY <1>4, <2>4, <3>1, KeptMore
  <2>7. ParserInv(p)'
    BY <1>1, <1>4, <1>9, <1>12, <2>2, <2>3, <2>5, <2>6 DEF ParserInv, f, k
  <2>8. Typed' /\ AbortsHaveCause' /\ Moves(p)
    BY <1>1, <1>3, <1>9, <1>12, <2>3 DEF Typed, AbortsHaveCause, Moves
  <2>. QED
    BY <1>1, <2>7, <2>8, StepOf
<1>13. CASE /\ line.kind = "dealt" /\ line.player \notin m_players \ Spaced
            /\ aborted' = TRUE /\ UNCHANGED <<at, m_players, isHero>>
  <2>1. line.player \in Range(h.seats) /\ Range(h.dealt) = {line.player}
    BY <1>5, <1>7, <1>8, <1>13
  <2>2. line.player \in Spaced
    BY <1>5, <1>6, <1>13, <2>1
  <2>3. h \in Range(f.scripts)
    <3>1. f.scripts \in Seq(Scripts)
      BY <1>4 DEF TextFile
    <3>2. k \in DOMAIN f.scripts
      BY <1>5, <3>1, LenOf
    <3>. QED
      BY <3>2 DEF Range, h
  <2>4. AbortsHaveCause'
    <3>1. Range(h.dealt) \cap Spaced # {}
      BY <2>1, <2>2
    <3>2. file'[p] = f
      BY <1>1 DEF f
    <3>. QED
      BY <2>3, <3>1, <3>2 DEF AbortsHaveCause
  <2>5. ParserInv(p)'
    BY <1>1, <1>4, <1>9, <1>13 DEF ParserInv, Known, Heroes, f, k, q
  <2>6. Typed' /\ Moves(p)
    BY <1>1, <1>3, <1>9, <1>13 DEF Typed, Moves
  <2>. QED
    BY <1>1, <2>4, <2>5, <2>6, StepOf
<1>. QED
  BY <1>2, <1>11, <1>12, <1>13

LEMMA StreetActionsInv == ASSUME Inv, NEW p \in Parsers, StreetActions(p) PROVE Inv'
<1> DEFINE f == file[p]
           k == Len(games[p]) + 1
           h == f.scripts[k]
           q == at[p]
           st == StreetOf(LineAt(f, q))
           from == NextIndex(f, q)
<1>1. /\ ~aborted /\ pc[p] = "streets" /\ LineAt(f, q).kind # "collected"
      /\ UNCHANGED <<file, pc, m_seats, added, winners, games, m_players, isHero, merged, aborted>>
  BY DEF StreetActions, At, cache
<1>2. PICK j \in Skip(f, from, ActionTokens) :
        /\ at' = [at EXCEPT ![p] = j] /\ street' = [street EXCEPT ![p] = st]
        /\ actions' = [actions EXCEPT ![p] = actions[p] \o ActionsIn(Between(f, from, j), st)]
  BY DEF StreetActions
<1> DEFINE new == actions[p] \o ActionsIn(Between(f, from, j), st)
<1>3. /\ Typed /\ at \in [Parsers -> Nat]
      /\ actions \in [Parsers -> Seq(ActionSet(Players))] /\ street \in [Parsers -> Streets]
  BY DEF Inv, Typed
<1>4. /\ Len(f.scripts) \in Nat /\ k \in Nat \ {0} /\ TextFile(f) /\ Len(f.lines) \in Nat
      /\ actions[p] \in Seq(ActionSet(Players)) /\ added[p] <= Len(m_seats[p])
      /\ HandsKept(f, games[p], Known, Heroes)
      /\ Place(f, k, "streets", q, m_seats[p], added[p], actions[p], winners[p], Known, Heroes)
  BY <1>1, ParserFacts
<1>5. /\ k \in 1 .. Len(f.scripts) /\ k <= Len(f.scripts) /\ m_seats[p] = h.seats /\ Range(h.seats) \subseteq Known
      /\ \/ AtRound(f, k, q, actions[p]) /\ Range(h.dealt) \subseteq Heroes
         \/ Lost(f, q, {"collected"})
  BY <1>4 DEF Place
<1>6. Range(h.seats) \subseteq Players
  <2>1. h \in Scripts
    BY <1>4, <1>5, PlacesInText
  <2>. QED
    BY <2>1, ScriptFacts, Zenon
<1>7. /\ st \in Streets /\ new \in Seq(ActionSet(Players)) /\ j \in 1 .. Len(f.lines) + 1
      /\ \/ AtRound(f, k, j, new) /\ Range(h.dealt) \subseteq Heroes
         \/ Lost(f, j, {"collected"})
  <2>1. CASE AtRound(f, k, q, actions[p]) /\ Range(h.dealt) \subseteq Heroes
    <3>1. /\ st \in Streets /\ new \in Seq(ActionSet(Range(h.seats))) /\ j \in 1 .. Len(f.lines) + 1
          /\ AtRound(f, k, j, new) \/ Lost(f, j, {"collected"})
      <4>1. TextFile(f) /\ k \in 1 .. Len(f.scripts) /\ AtRound(f, k, q, actions[p]) /\ LineAt(f, q).kind # "collected"
        BY <1>1, <1>4, <1>5, <2>1
      <4> HIDE DEF f, k, q
      <4>. QED
        BY <4>1, StreetStep, Zenon
    <3>2. Seq(ActionSet(Range(h.seats))) \subseteq Seq(ActionSet(Players))
      <4>1. ActionSet(Range(h.seats)) \subseteq ActionSet(Players)
        BY <1>6 DEF ActionSet
      <4>. QED
        BY <4>1
    <3>. QED
      BY <2>1, <3>1, <3>2
  <2>2. CASE Lost(f, q, {"collected"})
    <3>1. st \in Streets /\ new \in Seq(ActionSet(Players)) /\ j = Len(f.lines) + 1 /\ Lost(f, j, {"collected"})
      <4>1. TextFile(f) /\ k \in 1 .. Len(f.scripts) /\ actions[p] \in Seq(ActionSet(Players))
        BY <1>4, <1>5
      <4> HIDE DEF f, k, q
      <4>. QED
        BY <2>2, <4>1, LostStep, Zenon
    <3>2. j \in 1 .. Len(f.lines) + 1
      <4>1. j = Len(f.lines) + 1 /\ Len(f.lines) \in Nat
        BY <1>4, <3>1
      <4>. QED
        BY <4>1
    <3>. QED
      BY <3>1, <3>2
  <2>. QED
    BY <1>5, <2>1, <2>2
<1>8. j \in Nat /\ j <= Len(f.lines) + 1
  BY <1>4, <1>7
<1>9. actions' = [actions EXCEPT ![p] = new] /\ at' = [at EXCEPT ![p] = j] /\ street' = [street EXCEPT ![p] = st]
  BY <1>2
<1> HIDE DEF f, k, h, q, st, from, new
<1>10. /\ at'[p] = j /\ actions'[p] = new /\ at' \in [Parsers -> Nat]
       /\ actions' \in [Parsers -> Seq(ActionSet(Players))] /\ street' \in [Parsers -> Streets]
       /\ \A x \in Parsers \ {p} : at'[x] = at[x] /\ actions'[x] = actions[x]
  BY <1>3, <1>7, <1>8, <1>9
<1>11. Place(f, k, "streets", j, m_seats[p], added[p], new, winners[p], Known, Heroes)
  BY <1>5, <1>7 DEF Place, h
<1>12. ParserInv(p)'
  BY <1>1, <1>4, <1>8, <1>10, <1>11 DEF ParserInv, Known, Heroes, f, k
<1>13. Typed' /\ AbortsHaveCause' /\ Moves(p)
  BY <1>1, <1>3, <1>10 DEF Typed, AbortsHaveCause, Moves
<1>. QED
  BY <1>1, <1>12, <1>13, StepOf

LEMMA WinnersInv == ASSUME Inv, NEW p \in Parsers, Winners(p) PROVE Inv'
<1> DEFINE f == file[p]
           k == Len(games[p]) + 1
           h == f.scripts[k]
           q == at[p]
<1>1. /\ ~aborted /\ pc' = [pc EXCEPT ![p] = "board"]
      /\ UNCHANGED <<file, m_seats, added, street, games, m_players, isHero, merged, aborted>>
  BY DEF Winners, At, Goto, cache
<1>2. pc[p] = "winners" \/ (pc[p] = "streets" /\ LineAt(f, q).kind = "collected")
  BY DEF Winners, At
<1>3. PICK j \in q .. q + MaxSeats :
        /\ j \in Skip(f, q, {"collected"}) \/ j = q + MaxSeats
        /\ \A x \in q .. j - 1 : LineAt(f, x).kind = "collected"
        /\ at' = [at EXCEPT ![p] = IF j > Len(f.lines) THEN Len(f.lines) + 1 ELSE j]
        /\ winners' = [winners EXCEPT ![p] = Names(Between(f, q, j))]
        /\ actions' = [actions EXCEPT ![p] = WithWinners(actions[p], Names(Between(f, q, j)), street[p])]
  BY DEF Winners
<1> DEFINE next == IF j > Len(f.lines) THEN Len(f.lines) + 1 ELSE j
           names == Names(Between(f, q, j))
           new == WithWinners(actions[p], names, street[p])
<1>4. /\ Typed /\ pc \in [Parsers -> Steps] /\ at \in [Parsers -> Nat]
      /\ actions \in [Parsers -> Seq(ActionSet(Players))] /\ winners \in [Parsers -> Seq(Players)]
  BY DEF Inv, Typed
<1>5. /\ Len(f.scripts) \in Nat /\ k \in Nat \ {0} /\ TextFile(f) /\ Len(f.lines) \in Nat
      /\ added[p] <= Len(m_seats[p]) /\ street[p] \in Streets
      /\ HandsKept(f, games[p], Known, Heroes)
      /\ Place(f, k, pc[p], q, m_seats[p], added[p], actions[p], winners[p], Known, Heroes)
  BY <1>1, ParserFacts
<1>6. pc[p] = "streets" /\ LineAt(f, q).kind = "collected"
  <2>1. pc[p] # "winners"
    BY <1>5 DEF Place
  <2>. QED
    BY <1>2, <2>1
<1>7. /\ k \in 1 .. Len(f.scripts) /\ k <= Len(f.scripts) /\ m_seats[p] = h.seats /\ Range(h.seats) \subseteq Known
      /\ \/ AtRound(f, k, q, actions[p]) /\ Range(h.dealt) \subseteq Heroes
         \/ Lost(f, q, {"collected"})
  BY <1>5, <1>6 DEF Place
<1>8. AtRound(f, k, q, actions[p]) /\ Range(h.dealt) \subseteq Heroes
  BY <1>6, <1>7 DEF Lost
<1>9. Range(h.seats) \subseteq Players
  <2>1. h \in Scripts
    BY <1>5, <1>7, PlacesInText
  <2>. QED
    BY <2>1, ScriptFacts, Zenon
<1>10. /\ names \in Seq(Range(h.seats)) /\ new \in Seq(ActionSet(Range(h.seats)))
       /\ next \in 1 .. Len(f.lines) + 1 /\ AtEnd(f, k, next, names, new)
  <2>1. /\ TextFile(f) /\ k \in 1 .. Len(f.scripts) /\ AtRound(f, k, q, actions[p])
        /\ LineAt(f, q).kind = "collected" /\ street[p] \in Streets
        /\ j \in Skip(f, q, {"collected"}) \/ j = q + MaxSeats
        /\ \A x \in q .. j - 1 : LineAt(f, x).kind = "collected"
    BY <1>3, <1>5, <1>6, <1>7, <1>8
  <2> HIDE DEF f, k, q
  <2>. QED
    BY <2>1, WinnersStep, ZenonT(30)
<1>11. names \in Seq(Players) /\ new \in Seq(ActionSet(Players))
  <2>1. ActionSet(Range(h.seats)) \subseteq ActionSet(Players)
    BY <1>9 DEF ActionSet
  <2>. QED
    BY <1>9, <1>10, <2>1
<1>12. at' = [at EXCEPT ![p] = next] /\ winners' = [winners EXCEPT ![p] = names]
       /\ actions' = [actions EXCEPT ![p] = new]
  BY <1>3
<1>13. "board" \in Steps
  BY Zenon DEF Steps
<1> HIDE DEF f, k, h, q, next, names, new
<1>14. next \in Nat /\ next <= Len(f.lines) + 1
  BY <1>5, <1>10
<1>15. /\ pc'[p] = "board" /\ at'[p] = next /\ actions'[p] = new /\ winners'[p] = names
       /\ pc' \in [Parsers -> Steps] /\ at' \in [Parsers -> Nat]
       /\ actions' \in [Parsers -> Seq(ActionSet(Players))] /\ winners' \in [Parsers -> Seq(Players)]
       /\ \A x \in Parsers \ {p} : /\ pc'[x] = pc[x] /\ at'[x] = at[x]
                                   /\ actions'[x] = actions[x] /\ winners'[x] = winners[x]
  BY <1>1, <1>4, <1>11, <1>12, <1>13, <1>14
<1>16. Place(f, k, "board", next, m_seats[p], added[p], new, names, Known, Heroes)
  BY <1>7, <1>8, <1>10 DEF Place, h
<1>17. ParserInv(p)'
  BY <1>1, <1>5, <1>14, <1>15, <1>16 DEF ParserInv, Known, Heroes, f, k
<1>18. Typed' /\ AbortsHaveCause' /\ Moves(p)
  BY <1>1, <1>4, <1>15 DEF Typed, AbortsHaveCause, Moves
<1>19. pc[p] \notin {"done", "threw"}
  BY <1>6
<1>. QED
  BY <1>1, <1>17, <1>18, <1>19, StepOf

LEMMA BoardInv == ASSUME Inv, NEW p \in Parsers, Board(p) PROVE Inv'
<1> DEFINE f == file[p]
           k == Len(games[p]) + 1
           h == f.scripts[k]
           q == at[p]
           gs == games[p]
<1>1. /\ ~aborted /\ pc[p] = "board" /\ pc' = [pc EXCEPT ![p] = "next"]
      /\ UNCHANGED <<file, m_seats, added, actions, street, winners, m_players, isHero, merged, aborted>>
  BY Zenon DEF Board, At, Goto, builder, cache
<1>2. \E j \in Reach(f, q, Blank) :
        /\ at' = [at EXCEPT ![p] = NextIndex(f, j)]
        /\ games' = [games EXCEPT ![p] = Append(games[p], Hand(p, HasBoard(p, j)))]
  <2>1. \E j \in Reach(f, q, {""}) :
          /\ at' = [at EXCEPT ![p] = NextIndex(f, j)]
          /\ games' = [games EXCEPT ![p] = Append(games[p], Hand(p, HasBoard(p, j)))]
    BY Zenon DEF Board, AddHand
  <2>. QED
    BY <2>1, Zenon DEF Blank
<1>3. PICK j \in Reach(f, q, Blank) :
        /\ at' = [at EXCEPT ![p] = NextIndex(f, j)]
        /\ games' = [games EXCEPT ![p] = Append(games[p], Hand(p, HasBoard(p, j)))]
  BY <1>2
<1> DEFINE next == NextIndex(f, j)
           board == \E x \in q .. j : LineAt(f, x).kind = "board"
           hand == [seats |-> m_seats[p], actions |-> actions[p], winners |-> winners[p], hasBoard |-> board]
<1>4. /\ Typed /\ pc \in [Parsers -> Steps] /\ at \in [Parsers -> Nat]
      /\ games \in [Parsers -> Seq(HandSet)]
  BY DEF Inv, Typed
<1>5. /\ Len(f.scripts) \in Nat /\ k \in Nat \ {0} /\ TextFile(f) /\ Len(f.lines) \in Nat
      /\ added[p] <= Len(m_seats[p]) /\ q \in Nat /\ q <= Len(f.lines) + 1
      /\ m_seats[p] \in Seq(Players) /\ actions[p] \in Seq(ActionSet(Players)) /\ winners[p] \in Seq(Players)
      /\ gs \in Seq(HandSet) /\ Len(gs) \in Nat
      /\ HandsKept(f, gs, Known, Heroes)
      /\ Place(f, k, "board", q, m_seats[p], added[p], actions[p], winners[p], Known, Heroes)
  BY <1>1, ParserFacts
<1>6. /\ k \in 1 .. Len(f.scripts) /\ k <= Len(f.scripts) /\ m_seats[p] = h.seats
      /\ Range(h.seats) \subseteq Known
      /\ AtEnd(f, k, q, winners[p], actions[p]) /\ Range(h.dealt) \subseteq Heroes
  BY <1>5 DEF Place
<1>7. Hand(p, HasBoard(p, j)) = hand
  BY DEF Hand, HasBoard
<1>8. q \in 1 .. Len(f.lines) + 1
  <2>1. CASE q = Len(f.lines) + 1
    BY <1>5, <2>1
  <2>2. CASE \E n \in 0 .. Len(h.collected) : q = CollectedAt(h, Start(f.scripts, k)) + 1 + n
    <3>1. CollectedAt(h, Start(f.scripts, k)) \in Nat
      BY <1>5, <1>6, PlacesInText
    <3>2. q > 0
      <4>1. PICK n \in 0 .. Len(h.collected) : q = CollectedAt(h, Start(f.scripts, k)) + 1 + n
        BY <2>2
      <4>2. n \in Nat
        OBVIOUS
      <4> HIDE DEF q, f, k, h
      <4>. QED
        BY <3>1, <4>1, <4>2
    <3>. QED
      BY <1>5, <3>2
  <2>. QED
    BY <1>6, <2>1, <2>2 DEF AtEnd
<1>9. /\ next \in 1 .. Len(f.lines) + 1 /\ AtHand(f, k + 1, next)
      /\ \E n \in 0 .. Len(h.collected) :
           /\ winners[p] = SubSeq(h.collected, 1, n) /\ (f.whole => n = Len(h.collected))
           /\ actions[p] \in Seq(ActionSet(Range(h.seats)))
           /\ Completed(ActionsOf(h), winners[p], actions[p], n)
      /\ f.whole => (board <=> Len(h.streets) > 1)
  <2>1. /\ TextFile(f) /\ k \in 1 .. Len(f.scripts) /\ q \in 1 .. Len(f.lines) + 1
        /\ AtEnd(f, k, q, winners[p], actions[p])
    BY <1>5, <1>6, <1>8
  <2> HIDE DEF f, k, q
  <2>. QED
    BY <2>1, BoardStep, Zenon
<1>10. Kept(f, hand, h, Known, Heroes)
  <2>1. /\ hand.seats = m_seats[p] /\ hand.actions = actions[p] /\ hand.winners = winners[p]
        /\ hand.hasBoard = board
    OBVIOUS
  <2> HIDE DEF hand, board
  <2>. QED
    BY <1>6, <1>9, <2>1 DEF Kept
<1>11. hand \in HandSet
  <2>1. board \in BOOLEAN
    OBVIOUS
  <2> HIDE DEF board
  <2>. QED
    BY <1>5, <2>1 DEF HandSet
<1>12. games' = [games EXCEPT ![p] = Append(gs, hand)] /\ at' = [at EXCEPT ![p] = next]
  BY <1>3, <1>7
<1>13. "next" \in Steps
  BY Zenon DEF Steps
<1>a. k = Len(gs) + 1
  OBVIOUS
<1> HIDE DEF f, h, q, next, board, hand, gs, k
<1>14. /\ Append(gs, hand) \in Seq(HandSet) /\ Len(Append(gs, hand)) = k
       /\ Append(gs, hand)[k] = hand /\ \A i \in 1 .. Len(gs) : Append(gs, hand)[i] = gs[i]
  BY <1>5, <1>11, <1>a
<1>15. next \in Nat /\ next <= Len(f.lines) + 1
  BY <1>5, <1>9
<1>16. /\ pc'[p] = "next" /\ at'[p] = next /\ games'[p] = Append(gs, hand)
       /\ pc' \in [Parsers -> Steps] /\ at' \in [Parsers -> Nat]
       /\ games' \in [Parsers -> Seq(HandSet)]
       /\ \A x \in Parsers \ {p} : pc'[x] = pc[x] /\ at'[x] = at[x] /\ games'[x] = games[x]
  BY <1>1, <1>4, <1>12, <1>13, <1>14, <1>15
<1>17. HandsKept(f, Append(gs, hand), Known, Heroes)
  <2>1. ASSUME NEW i \in 1 .. k PROVE Kept(f, Append(gs, hand)[i], f.scripts[i], Known, Heroes)
    <3>1. i \in 1 .. Len(gs) \/ i = k
      BY <1>5, <1>a
    <3>2. CASE i \in 1 .. Len(gs)
      BY <1>5, <1>14, <3>2 DEF HandsKept
    <3>3. CASE i = k
      BY <1>10, <1>14, <3>3 DEF h
    <3>. QED
      BY <3>1, <3>2, <3>3
  <2>. QED
    BY <1>6, <1>14, <2>1 DEF HandsKept
<1>18. Place(f, k + 1, "next", next, m_seats[p], added[p], actions[p], winners[p], Known, Heroes)
  BY <1>9 DEF Place
<1>19. Len(games'[p]) + 1 = k + 1
  BY <1>14, <1>16
<1>20. ParserInv(p)'
  BY <1>1, <1>5, <1>15, <1>16, <1>17, <1>18, <1>19 DEF ParserInv, Known, Heroes, f
<1>21. Typed' /\ AbortsHaveCause' /\ Moves(p)
  BY <1>1, <1>4, <1>16 DEF Typed, AbortsHaveCause, Moves
<1>. QED
  BY <1>1, <1>20, <1>21, StepOf

\* WinamaxHistory::load hands the players of the cache over with the games.
LEMMA ExtractInv == ASSUME Inv, Extract PROVE Inv'
<1>1. /\ ~aborted /\ (\A p \in Parsers : pc[p] \in {"done", "threw"}) /\ m_players # {}
      /\ merged' = [hands |-> UNION {Range(games[p]) : p \in {q \in Parsers : pc[q] = "done"}},
                    players |-> m_players, heroes |-> isHero]
      /\ m_players' = {} /\ isHero' = {}
      /\ UNCHANGED <<file, pc, at, m_seats, added, actions, street, winners, games, aborted>>
  BY DEF Extract, Merge, ExtractPlayers, builder
<1>2. merged.players = {} /\ merged.heroes = {}
  BY <1>1 DEF Inv, MergedLast
<1>3. merged'.players = m_players /\ merged'.heroes = isHero
  BY <1>1
<1>4. Known' = Known /\ Heroes' = Heroes
  BY <1>1, <1>2, <1>3 DEF Known, Heroes
<1>5. Typed' /\ MergedLast' /\ AbortsHaveCause'
  BY <1>1, <1>3 DEF Inv, Typed, MergedLast, AbortsHaveCause
<1>6. ASSUME NEW p \in Parsers PROVE ParserInv(p)'
  <2>1. ParserInv(p)
    BY DEF Inv
  <2>. QED
    BY <1>1, <1>4, <2>1 DEF ParserInv
<1>. QED
  BY <1>5, <1>6 DEF Inv

LEMMA StutterInv == ASSUME Inv, UNCHANGED vars PROVE Inv'
<1>1. UNCHANGED <<file, pc, at, m_seats, added, actions, street, winners, games, m_players, isHero,
                  merged, aborted>>
  BY DEF vars, builder, cache
<1>2. Known' = Known /\ Heroes' = Heroes
  BY <1>1 DEF Known, Heroes
<1>3. Typed' /\ MergedLast' /\ AbortsHaveCause'
  BY <1>1 DEF Inv, Typed, MergedLast, AbortsHaveCause
<1>4. ASSUME NEW p \in Parsers PROVE ParserInv(p)'
  <2>1. ParserInv(p)
    BY DEF Inv
  <2>. QED
    BY <1>1, <1>2, <2>1 DEF ParserInv
<1>. QED
  BY <1>3, <1>4 DEF Inv

LEMMA Invariant == Spec => []Inv
<1>1. Init => Inv
  BY InitInv
<1>2. Inv /\ [Next]_vars => Inv'
  <2> SUFFICES ASSUME Inv, [Next]_vars PROVE Inv'
    OBVIOUS
  <2>1. CASE Extract
    BY <2>1, ExtractInv
  <2>2. CASE UNCHANGED vars
    BY <2>2, StutterInv
  <2>3. ASSUME NEW p \in Parsers, Parse(p) PROVE Inv'
    <3>1. CASE Open(p)
      BY <3>1, OpenInv
    <3>2. CASE NextHand(p)
      BY <3>2, NextHandInv
    <3>3. CASE StartLine(p)
      BY <3>3, StartLineInv
    <3>4. CASE TableLine(p)
      BY <3>4, TableLineInv
    <3>5. CASE Seats(p)
      BY <3>5, SeatsInv
    <3>6. CASE AddPlayer(p)
      BY <3>6, AddPlayerInv
    <3>7. CASE Ante(p)
      BY <3>7, AnteInv
    <3>8. CASE Hero(p)
      BY <3>8, HeroInv
    <3>9. CASE StreetActions(p)
      BY <3>9, StreetActionsInv
    <3>10. CASE Winners(p)
      BY <3>10, WinnersInv
    <3>11. CASE Board(p)
      BY <3>11, BoardInv
    <3>. QED
      BY <2>3, <3>1, <3>2, <3>3, <3>4, <3>5, <3>6, <3>7, <3>8, <3>9, <3>10, <3>11 DEF Parse
  <2>. QED
    BY <2>1, <2>2, <2>3 DEF Next
<1>. QED
  BY <1>1, <1>2, PTL DEF Spec
-----------------------------------------------------------------------------
(* What it implies.                                                        *)

\* A hand of a parser's game is one that its file tells.
LEMMA HandFacts ==
    ASSUME Inv, NEW p \in Parsers, NEW i \in DOMAIN games[p]
    PROVE  /\ i \in 1 .. Len(file[p].scripts) /\ file[p].scripts[i] \in Scripts
           /\ games[p][i] \in HandSet
           /\ Kept(file[p], games[p][i], file[p].scripts[i], Known, Heroes)
<1>1. /\ TextFile(file[p]) /\ games[p] \in Seq(HandSet) /\ Len(games[p]) \in Nat
      /\ HandsKept(file[p], games[p], Known, Heroes)
  BY ParserFacts
<1>2. DOMAIN games[p] = 1 .. Len(games[p])
  BY <1>1, LenOf
<1>3. /\ file[p].scripts \in Seq(Scripts) /\ Len(file[p].scripts) \in Nat
      /\ Len(games[p]) <= Len(file[p].scripts)
  BY <1>1 DEF TextFile, HandsKept
<1>4. i \in 1 .. Len(games[p])
  BY <1>2
<1>5. i \in 1 .. Len(file[p].scripts)
  BY <1>1, <1>3, <1>4
<1>6. file[p].scripts[i] \in Scripts
  BY <1>3, <1>5
<1>7. games[p][i] \in HandSet
  BY <1>1, <1>4
<1>8. Kept(file[p], games[p][i], file[p].scripts[i], Known, Heroes)
  BY <1>1, <1>4 DEF HandsKept
<1>. QED
  BY <1>5, <1>6, <1>7, <1>8

LEMMA ActionIsTyped == ASSUME NEW a \in ActionSet(Players) PROVE IsAction(a)
BY DEF ActionSet, IsAction, Streets

LEMMA RangeOf == ASSUME NEW S, NEW q \in Seq(S) PROVE Range(q) \subseteq S
<1>1. DOMAIN q = 1 .. Len(q) /\ \A i \in 1 .. Len(q) : q[i] \in S
  OBVIOUS
<1>. QED
  BY <1>1 DEF Range

\* The state of each parser keeps its types: its line is one of the file or the
\* end of it, and it builds no more hands than were played.
THEOREM HandParserTypes == Spec => []TypeOK
<1>1. Inv => TypeOK
  <2> SUFFICES ASSUME Inv PROVE TypeOK
    OBVIOUS
  <2>1. /\ pc \in [Parsers -> Steps] /\ m_players \subseteq Players /\ isHero \subseteq m_players
        /\ merged.heroes \subseteq merged.players /\ merged.players \subseteq Players
        /\ aborted \in BOOLEAN
    BY DEF Inv, Typed
  <2>2. ASSUME NEW p \in Parsers
        PROVE  /\ at[p] \in 0 .. Len(file[p].lines) + 1
               /\ Range(m_seats[p]) \cup Range(winners[p]) \subseteq Players
               /\ added[p] \in 0 .. Len(m_seats[p])
               /\ \A a \in Range(actions[p]) : IsAction(a)
               /\ street[p] \in Range(Headers) \cup {"none"}
               /\ Len(games[p]) <= MaxHands
    <3>1. /\ TextFile(file[p]) /\ Len(file[p].lines) \in Nat
          /\ at[p] \in Nat /\ at[p] <= Len(file[p].lines) + 1
          /\ m_seats[p] \in Seq(Players) /\ Len(m_seats[p]) \in Nat
          /\ added[p] \in Nat /\ added[p] <= Len(m_seats[p])
          /\ actions[p] \in Seq(ActionSet(Players)) /\ street[p] \in Streets
          /\ winners[p] \in Seq(Players) /\ Len(games[p]) \in Nat
          /\ HandsKept(file[p], games[p], Known, Heroes)
      BY ParserFacts
    <3>2. at[p] \in 0 .. Len(file[p].lines) + 1 /\ added[p] \in 0 .. Len(m_seats[p])
      BY <3>1
    <3>3. Range(m_seats[p]) \subseteq Players /\ Range(winners[p]) \subseteq Players
      BY <3>1, RangeOf
    <3>4. Range(actions[p]) \subseteq ActionSet(Players)
      BY <3>1, RangeOf
    <3>5. \A a \in Range(actions[p]) : IsAction(a)
      BY <3>4, ActionIsTyped
    <3>6. /\ Len(file[p].scripts) \in Nat /\ Len(file[p].scripts) <= MaxHands
          /\ Len(games[p]) <= Len(file[p].scripts)
      BY <3>1 DEF TextFile, HandsKept
    <3>7. Len(games[p]) <= MaxHands
      BY <3>1, <3>6, HandsAssumption
    <3>. QED
      BY <3>1, <3>2, <3>3, <3>5, <3>7 DEF Streets
  <2>. QED
    BY <2>1, <2>2 DEF TypeOK
<1>. QED
  BY <1>1, Invariant, PTL

\* What a parser keeps of a hand is the hand that was played: all its actions in
\* order, one more for each winner who did none, and the winners in order; a cut
\* of the file leaves out winners and the board, and nothing else.
THEOREM HandsAreReadFaithfully == Spec => []HandsAreRead
<1>1. Inv => HandsAreRead
  <2> SUFFICES ASSUME Inv, NEW p \in Parsers, NEW i \in DOMAIN games[p]
               PROVE  LET hand == games[p][i]
                          script == file[p].scripts[i]
                          played == ActionsOf(script)
                      IN  /\ hand.seats = script.seats
                          /\ IsPrefix(played, hand.actions)
                          /\ \A j \in Len(played) + 1 .. Len(hand.actions) :
                               hand.actions[j].type = "none"
                          /\ \A w \in Range(hand.winners) :
                               \E a \in Range(hand.actions) : a.player = w
                          /\ IsPrefix(hand.winners, script.collected)
                          /\ file[p].whole => /\ hand.winners = script.collected
                                              /\ hand.hasBoard = (Len(script.streets) > 1)
    BY DEF HandsAreRead
  <2> DEFINE f == file[p]
             hand == games[p][i]
             h == f.scripts[i]
             acts == hand.actions
             wins == hand.winners
             collected == h.collected
             seats == h.seats
             played == ActionsOf(h)
             N == Len(played)
             M == Len(acts)
             C == Len(collected)
  <2>1. h \in Scripts /\ hand \in HandSet /\ Kept(f, hand, h, Known, Heroes)
    BY HandFacts
  <2>2. played \in Seq(ActionSet(Range(seats)))
    <3> HIDE DEF f, h
    <3>1. Before(h, 6) = ActionsOf(h) /\ 6 \in 1 .. 6
          /\ \A k \in 1 .. 6 : Before(h, k) \in Seq(ActionSet(Range(h.seats)))
      BY <2>1, BeforeFacts
    <3>. QED
      BY <3>1
  <2>3. N \in Nat /\ DOMAIN played = 1 .. N
    <3> HIDE DEF played
    <3>. QED
      BY <2>2, LenOf
  <2>4. hand.seats = seats /\ acts \in Seq(ActionSet(Range(seats)))
    BY <2>1 DEF Kept
  <2>5. PICK n \in 0 .. C : /\ wins = SubSeq(collected, 1, n)
                            /\ f.whole => n = C
                            /\ Completed(played, wins, acts, n)
    BY <2>1 DEF Kept
  <2>6. collected \in Seq(Range(seats)) /\ C \in Nat
    <3> HIDE DEF f, h
    <3>. QED
      BY <2>1, ScriptFacts, Zenon
  <2>7. M \in Nat /\ DOMAIN acts = 1 .. M
    <3> HIDE DEF acts
    <3>. QED
      BY <2>4, LenOf
  <2> HIDE DEF f, hand, h, acts, wins, collected, seats, played
  <2>8. n \in Nat /\ n <= C
    BY <2>6
  <2>9. Len(wins) = n /\ DOMAIN wins = 1 .. n /\ wins \in Seq(Range(seats))
    BY <2>5, <2>6, <2>8
  <2>10. IsPrefix(played, acts)
    <3>1. N <= M /\ \A j \in 1 .. N : acts[j] = played[j]
      BY <2>5 DEF Completed
    <3>2. SubSeq(played, 1, N) = SubSeq(acts, 1, N)
      BY <2>2, <2>3, <2>4, <2>7, <3>1
    <3>. QED
      BY <3>1, <3>2 DEF IsPrefix
  <2>11. \A j \in N + 1 .. M : acts[j].type = "none"
    BY <2>5 DEF Completed
  <2>12. ASSUME NEW w \in Range(wins) PROVE \E a \in Range(acts) : a.player = w
    <3>1. PICK x \in 1 .. n : wins[x] = w
      BY <2>9 DEF Range
    <3>2. PICK j \in 1 .. M : acts[j].player = wins[x]
      BY <2>5 DEF Completed
    <3>3. acts[j] \in Range(acts)
      BY <2>7 DEF Range
    <3>. QED
      BY <3>1, <3>2, <3>3
  <2>13. IsPrefix(wins, collected)
    <3>1. SubSeq(wins, 1, n) = SubSeq(collected, 1, n)
      BY <2>5, <2>6, <2>8, <2>9
    <3>. QED
      BY <2>8, <2>9, <3>1 DEF IsPrefix
  <2>14. ASSUME f.whole PROVE wins = collected
    <3>1. n = C
      BY <2>5, <2>14
    <3>. QED
      BY <2>5, <2>6, <3>1
  <2>15. ASSUME f.whole PROVE hand.hasBoard = (Len(h.streets) > 1)
    <3>1. hand.hasBoard \in BOOLEAN
      BY <2>1 DEF HandSet
    <3>2. hand.hasBoard <=> Len(h.streets) > 1
      BY <2>1, <2>15 DEF Kept
    <3>. QED
      BY <3>1, <3>2
  <2>16. /\ hand.seats = seats /\ IsPrefix(played, acts)
         /\ (\A j \in N + 1 .. M : acts[j].type = "none")
         /\ (\A w \in Range(wins) : \E a \in Range(acts) : a.player = w)
         /\ IsPrefix(wins, collected)
         /\ f.whole => wins = collected /\ hand.hasBoard = (Len(h.streets) > 1)
    BY <2>4, <2>10, <2>11, <2>12, <2>13, <2>14, <2>15
  <2>. QED
    BY <2>16, Zenon DEF f, hand, h, acts, wins, collected, seats, played
<1>. QED
  BY <1>1, Invariant, PTL

\* Every player of a hand, whatever thread read it, is in the cache or has gone
\* to the Site with it: the rows of the hand will find those of its players.
THEOREM PlayersGoWithTheirHands == Spec => []PlayersOfHandsAreKnown
<1>1. Inv => PlayersOfHandsAreKnown
  <2> SUFFICES ASSUME Inv, NEW p \in Parsers, NEW i \in DOMAIN games[p]
               PROVE  PlayersOf(games[p][i]) \subseteq m_players \cup merged.players
    BY DEF PlayersOfHandsAreKnown
  <2> DEFINE f == file[p]
             hand == games[p][i]
             h == f.scripts[i]
  <2>1. h \in Scripts /\ hand \in HandSet /\ Kept(f, hand, h, Known, Heroes)
    BY HandFacts
  <2> HIDE DEF f, hand, h
  <2>2. hand.seats = h.seats /\ hand.actions \in Seq(ActionSet(Range(h.seats)))
        /\ Range(h.seats) \subseteq Known
    BY <2>1 DEF Kept
  <2>3. PICK n \in 0 .. Len(h.collected) : hand.winners = SubSeq(h.collected, 1, n)
    BY <2>1 DEF Kept
  <2>4. h.collected \in Seq(Range(h.seats)) /\ Len(h.collected) \in Nat
    BY <2>1, ScriptFacts, Zenon
  <2>5. Range(hand.winners) \subseteq Range(h.seats)
    <3> DEFINE names == h.collected
               seated == Range(h.seats)
    <3>1. names \in Seq(seated) /\ n \in 0 .. Len(names)
      BY <2>4
    <3> HIDE DEF names, seated
    <3>2. SubSeq(names, 1, n) \in Seq(seated)
      BY <3>1
    <3>3. hand.winners \in Seq(seated)
      BY <2>3, <3>2 DEF names
    <3>4. Range(hand.winners) \subseteq seated
      BY <3>3, RangeOf
    <3>. QED
      BY <3>4 DEF seated
  <2>6. ASSUME NEW a \in Range(hand.actions) PROVE a.player \in Range(h.seats)
    <3>1. Range(hand.actions) \subseteq ActionSet(Range(h.seats))
      BY <2>2, RangeOf, Zenon
    <3>2. a \in ActionSet(Range(h.seats))
      BY <3>1
    <3>. QED
      BY <3>2 DEF ActionSet
  <2>7. PlayersOf(hand) \subseteq Known
    BY <2>2, <2>5, <2>6 DEF PlayersOf
  <2>. QED
    BY <2>7 DEF Known, hand
<1>. QED
  BY <1>1, Invariant, PTL

\* The hero of a hand that was read stays the hero, in the cache and then in the
\* Site, whatever players the other threads add meanwhile.
THEOREM HeroesStayHeroes == Spec => []HeroesAreKept
<1>1. Inv => HeroesAreKept
  <2> SUFFICES ASSUME Inv, NEW p \in Parsers, NEW i \in DOMAIN games[p]
               PROVE  Range(file[p].scripts[i].dealt) \subseteq isHero \cup merged.heroes
    BY DEF HeroesAreKept
  <2>1. Kept(file[p], games[p][i], file[p].scripts[i], Known, Heroes)
    BY HandFacts
  <2>. QED
    BY <2>1 DEF Kept, Heroes
<1>. QED
  BY <1>1, Invariant, PTL

\* No assertion of the parsers fails on whole files whose heroes have names
\* without a space: in particular the hero is in the cache when setIsHero is called.
THEOREM ParsersAbortWithCause == Spec => []AbortsHaveCause
<1>1. Inv => AbortsHaveCause
  BY DEF Inv
<1>. QED
  BY <1>1, Invariant, PTL
=============================================================================
