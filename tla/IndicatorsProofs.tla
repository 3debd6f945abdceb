--------------------------- MODULE IndicatorsProofs ---------------------------
(***************************************************************************)
(* Proofs about Indicators, for any deals, tables, rectangles and number   *)
(* of hands.                                                               *)
(***************************************************************************)
EXTENDS Indicators, FiniteSetTheorems, WellFoundedInduction, TLAPS

\* A set of natural numbers has a least element, and a set of the first ones has
\* a greatest one.
LEMMA LeastElement ==
    ASSUME NEW S \in SUBSET Nat, S # {}
    PROVE  \E m \in S : \A k \in S : m <= k
<1> DEFINE R == {ss \in Nat \X Nat : ss[1] < ss[2]}
<1>1. IsWellFoundedOn(R, Nat)
  BY NatLessThanWellFounded DEF OpToRel
<1>2. PICK x \in S : \A y \in S : ~ (<<y, x>> \in R)
  BY <1>1, WFMin
<1>3. \A y \in S : x <= y
  <2> SUFFICES ASSUME NEW y \in S, y < x PROVE FALSE
    OBVIOUS
  <2>1. <<y, x>> \in Nat \X Nat /\ <<y, x>>[1] < <<y, x>>[2]
    OBVIOUS
  <2>2. <<y, x>> \in R
    BY <2>1
  <2>. QED
    BY <1>2, <2>2
<1>. QED
  BY <1>3

LEMMA MinElement == ASSUME NEW S \in SUBSET Nat, S # {} PROVE Min(S) \in S
BY LeastElement DEF Min

LEMMA GreatestElement ==
    ASSUME NEW n \in Nat, NEW S \in SUBSET (1 .. n), S # {}
    PROVE  Max(S) \in S
<1> DEFINE T == {n - i : i \in S}
<1>1. T \in SUBSET Nat /\ T # {}
  <2>1. \A i \in S : n - i \in Nat
    OBVIOUS
  <2>. QED
    BY <2>1
<1>2. PICK t \in T : \A u \in T : t <= u
  BY <1>1, LeastElement
<1>3. PICK i \in S : t = n - i
  BY <1>2
<1>4. \A j \in S : i >= j
  BY <1>2, <1>3
<1>. QED
  BY <1>4 DEF Max
-----------------------------------------------------------------------------
NbSeats == Len((CHOOSE d \in Deals : d.tableName = Table).seats)

\* The table has one size, whatever hand of it is the last.
LEMMA TableFacts ==
    /\ NbSeats \in TableSizes /\ TableSeats = 1 .. NbSeats
    /\ \A d \in Deals : d.tableName = Table => DOMAIN d.seats = 1 .. NbSeats /\ Len(d.seats) = NbSeats
<1> DEFINE t == CHOOSE d \in Deals : d.tableName = Table
<1>1. t \in Deals /\ t.tableName = Table
  BY TableAssumption
<1>2. NbSeats = Len(t.seats) /\ TableSeats = 1 .. Len(t.seats)
  BY DEF NbSeats, TableSeats
<1> HIDE DEF t
<1>3. ASSUME NEW d \in Deals, d.tableName = Table
      PROVE  DOMAIN d.seats = 1 .. NbSeats /\ Len(d.seats) = NbSeats
  <2>1. Len(d.seats) = Len(t.seats)
    BY <1>1, <1>3, SameTable
  <2>2. DOMAIN d.seats = 1 .. Len(d.seats)
    BY DealsAssumption
  <2>. QED
    BY <1>2, <2>1, <2>2
<1>. QED
  BY <1>1, <1>2, <1>3, DealsAssumption

LEMMA CoefficientsAreIntegers ==
    ASSUME NEW n \in TableSizes, NEW k \in 1 .. n
    PROVE  Coefficients[n][k].x \in Int /\ Coefficients[n][k].y \in Int
<1>1. CASE n = 2
  BY <1>1 DEF Coefficients, TableSizes, SeatTen
<1>2. CASE n = 3
  BY <1>2 DEF Coefficients, TableSizes, SeatTen
<1>3. CASE n = 4
  BY <1>3 DEF Coefficients, TableSizes, SeatTen
<1>4. CASE n = 5
  BY <1>4 DEF Coefficients, TableSizes, SeatTen
<1>5. CASE n = 6
  BY <1>5 DEF Coefficients, TableSizes, SeatTen
<1>6. CASE n = 7
  BY <1>6 DEF Coefficients, TableSizes, SeatTen
<1>7. CASE n = 8
  BY <1>7 DEF Coefficients, TableSizes, SeatTen
<1>8. CASE n = 9
  BY <1>8 DEF Coefficients, TableSizes, SeatTen
<1>9. CASE n = 10
  BY <1>9 DEF Coefficients, TableSizes, SeatTen
<1>. QED
  BY <1>1, <1>2, <1>3, <1>4, <1>5, <1>6, <1>7, <1>8, <1>9 DEF TableSizes, SeatTen

\* No two seats of a table are drawn within an eighth of the window of each other,
\* and but for tables of seven and eight seats, seat one is below all others by as much.
Apart(c, e) == c.x - e.x >= 1250 \/ e.x - c.x >= 1250 \/ c.y - e.y >= 1250 \/ e.y - c.y >= 1250

LEMMA CoefficientsAreApart ==
    ASSUME NEW n \in TableSizes, NEW k \in 1 .. n, NEW m \in 1 .. n, k # m
    PROVE  /\ Apart(Coefficients[n][k], Coefficients[n][m])
           /\ n \notin {7, 8} /\ k = 1 => Coefficients[n][k].y - Coefficients[n][m].y >= 1250
<1> DEFINE At(i, j, x, y) == i = j /\ Coefficients[n][i].x = x /\ Coefficients[n][i].y = y
<1>1. CASE n = 2
  <2>1. \A i \in 1 .. n :
          \/ At(i, 1, 5000, 9000) \/ At(i, 2, 5000, 1000)
    BY <1>1 DEF Coefficients, TableSizes, SeatTen
  <2>. QED
    BY <1>1, <2>1 DEF Apart
<1>2. CASE n = 3
  <2>1. \A i \in 1 .. n :
          \/ At(i, 1, 5000, 9000) \/ At(i, 2, 3333, 3333) \/ At(i, 3, 6666, 3333)
    BY <1>2 DEF Coefficients, TableSizes, SeatTen
  <2>. QED
    BY <1>2, <2>1 DEF Apart
<1>3. CASE n = 4
  <2>1. \A i \in 1 .. n :
          \/ At(i, 1, 5000, 5000) \/ At(i, 2, 2500, 2500) \/ At(i, 3, 5000, 2500)
          \/ At(i, 4, 7500, 2500)
    BY <1>3 DEF Coefficients, TableSizes, SeatTen
  <2>. QED
    BY <1>3, <2>1 DEF Apart
<1>4. CASE n = 5
  <2>1. \A i \in 1 .. n :
          \/ At(i, 1, 5000, 10000) \/ At(i, 2, 2500, 7500) \/ At(i, 3, 2500, 2500)
          \/ At(i, 4, 7500, 2500) \/ At(i, 5, 7500, 7500)
    BY <1>4 DEF Coefficients, TableSizes, SeatTen
  <2>. QED
    BY <1>4, <2>1 DEF Apart
<1>5. CASE n = 6
  <2>1. \A i \in 1 .. n :
          \/ At(i, 1, 5000, 9000) \/ At(i, 2, 2000, 7500) \/ At(i, 3, 2000, 2500)
          \/ At(i, 4, 5000, 1000) \/ At(i, 5, 8000, 2500) \/ At(i, 6, 8000, 7500)
    BY <1>5 DEF Coefficients, TableSizes, SeatTen
  <2>. QED
    BY <1>5, <2>1 DEF Apart
<1>6. CASE n = 7
  <2>1. \A i \in 1 .. n :
          \/ At(i, 1, 10000, 5000) \/ At(i, 2, 1000, 7500) \/ At(i, 3, 1000, 2500)
          \/ At(i, 4, 2500, 2500) \/ At(i, 5, 2500, 7500) \/ At(i, 6, 7500, 2500)
          \/ At(i, 7, 7500, 7500)
    BY <1>6 DEF Coefficients, TableSizes, SeatTen
  <2>. QED
    BY <1>6, <2>1 DEF Apart
<1>7. CASE n = 8
  <2>1. \A i \in 1 .. n :
          \/ At(i, 1, 0, 5000) \/ At(i, 2, 2500, 2500) \/ At(i, 3, 5000, 0)
          \/ At(i, 4, 7500, 2500) \/ At(i, 5, 10000, 5000) \/ At(i, 6, 7500, 7500)
          \/ At(i, 7, 5000, 10000) \/ At(i, 8, 2500, 7500)
    BY <1>7 DEF Coefficients, TableSizes, SeatTen
  <2>. QED
    BY <1>7, <2>1 DEF Apart
<1>8. CASE n = 9
  <2>1. \A i \in 1 .. n :
          \/ At(i, 1, 5000, 10000) \/ At(i, 2, 3500, 8500) \/ At(i, 3, 1250, 6350)
          \/ At(i, 4, 1250, 3500) \/ At(i, 5, 3500, 1250) \/ At(i, 6, 6250, 1250)
          \/ At(i, 7, 8500, 3500) \/ At(i, 8, 8500, 6350) \/ At(i, 9, 6250, 8500)
    BY <1>8 DEF Coefficients, TableSizes, SeatTen
  <2>. QED
    BY <1>8, <2>1 DEF Apart
<1>9. CASE n = 10
  <2>1. \A i \in 1 .. n :
          \/ At(i, 1, 5000, 10000) \/ At(i, 2, 3500, 8500) \/ At(i, 3, 1250, 6350)
          \/ At(i, 4, 1250, 3500) \/ At(i, 5, 3500, 1250) \/ At(i, 6, 5000, 0)
          \/ At(i, 7, 6250, 1250) \/ At(i, 8, 8500, 3500) \/ At(i, 9, 8500, 6350)
          \/ At(i, 10, 6250, 8500)
    BY <1>9 DEF Coefficients, TableSizes, SeatTen
  <2>. QED
    BY <1>9, <2>1 DEF Apart
<1>. QED
  BY <1>1, <1>2, <1>3, <1>4, <1>5, <1>6, <1>7, <1>8, <1>9 DEF TableSizes, SeatTen

LEMMA PositionsArePoints ==
    ASSUME NEW n \in TableSizes, NEW k \in 1 .. n, NEW r \in Rects
    PROVE  BuildPlayerIndicatorPosition(k, n, r) \in Points
<1>1. r.x \in Int /\ r.y \in Int /\ r.w \in Int /\ r.h \in Int
  BY ScreenAssumption
<1>2. \A a, b \in Int : (a * b) \div 10000 \in Int
  OBVIOUS
<1> DEFINE coef == Coefficients[n][k]
<1>3. coef.x \in Int /\ coef.y \in Int
  BY CoefficientsAreIntegers
<1> HIDE DEF coef
<1>4. r.x + (coef.x * r.w) \div 10000 \in Int /\ r.y + (coef.y * r.h) \div 10000 \in Int
  BY <1>1, <1>2, <1>3
<1>. QED
  BY <1>4 DEF BuildPlayerIndicatorPosition, Points, coef

(* The rotation of the seats, for tables of any size.                      *)

\* For sums below twice the size, the rest is one subtraction at most.
LEMMA RestOfSum ==
    ASSUME NEW n \in Nat \ {0}, NEW a \in 0 .. 2 * n - 1
    PROVE  a % n = IF a < n THEN a ELSE a - n
BY SMT

\* rotateRelativeToHero moves the seats after that of the hero to the beginning, and
\* those before it to the end (Position.cpp:116-151).
LEMMA RotationOfSeats ==
    ASSUME NEW n \in Nat \ {0}, NEW hero \in 1 .. n, NEW seat \in 1 .. n
    PROVE  RotateRelativeToHero(seat, hero, n) =
             IF seat >= hero THEN seat - hero + 1 ELSE seat - hero + 1 + n
<1>1. CASE hero = 1
  BY <1>1 DEF RotateRelativeToHero
<1>2. CASE hero # 1
  <2> DEFINE a == seat - 1 + (n - hero + 1)
  <2>1. a \in 0 .. 2 * n - 1 /\ a >= 0 /\ (a < n <=> seat < hero)
    OBVIOUS
  <2>2. a % n = IF a < n THEN a ELSE a - n
    BY <2>1, RestOfSum
  <2>3. RotateRelativeToHero(seat, hero, n) = (a % n) + 1
    BY <1>2, <2>1 DEF RotateRelativeToHero, Rotated, CppMod
  <2>. QED
    BY <2>1, <2>2, <2>3
<1>. QED
  BY <1>1, <1>2

\* "the hero seat always appears at the bottom" (Position.hpp:34): the seat of the
\* hero becomes seat one, every seat becomes a seat of the table, no two seats become
\* the same one, and every seat is taken.
THEOREM RotationIsAPermutation ==
    ASSUME NEW n \in Nat \ {0}, NEW hero \in 1 .. n
    PROVE  /\ RotateRelativeToHero(hero, hero, n) = 1
           /\ \A seat \in 1 .. n : RotateRelativeToHero(seat, hero, n) \in 1 .. n
           /\ \A s, t \in 1 .. n : s # t => RotateRelativeToHero(s, hero, n)
                                              # RotateRelativeToHero(t, hero, n)
           /\ \A r \in 1 .. n : \E seat \in 1 .. n : RotateRelativeToHero(seat, hero, n) = r
<1>1. RotateRelativeToHero(hero, hero, n) = 1
  BY RotationOfSeats
<1>2. \A seat \in 1 .. n : RotateRelativeToHero(seat, hero, n) \in 1 .. n
  BY RotationOfSeats
<1>3. ASSUME NEW s \in 1 .. n, NEW t \in 1 .. n, s # t
      PROVE  RotateRelativeToHero(s, hero, n) # RotateRelativeToHero(t, hero, n)
  <2>1. /\ RotateRelativeToHero(s, hero, n) = IF s >= hero THEN s - hero + 1 ELSE s - hero + 1 + n
        /\ RotateRelativeToHero(t, hero, n) = IF t >= hero THEN t - hero + 1 ELSE t - hero + 1 + n
    BY RotationOfSeats
  <2>. QED
    BY <1>3, <2>1
<1>4. ASSUME NEW r \in 1 .. n
      PROVE  \E seat \in 1 .. n : RotateRelativeToHero(seat, hero, n) = r
  <2> DEFINE seat == IF r + hero - 1 <= n THEN r + hero - 1 ELSE r + hero - 1 - n
  <2>1. seat \in 1 .. n
    OBVIOUS
  <2>2. RotateRelativeToHero(seat, hero, n) = IF seat >= hero THEN seat - hero + 1
                                              ELSE seat - hero + 1 + n
    BY <2>1, RotationOfSeats
  <2>3. (IF seat >= hero THEN seat - hero + 1 ELSE seat - hero + 1 + n) = r
    OBVIOUS
  <2>. QED
    BY <2>1, <2>2, <2>3
<1>. QED
  BY <1>1, <1>2, <1>3, <1>4

\* Whatever the seats, the rotation does not go past the size of the table.
LEMMA RotationIsBounded ==
    ASSUME NEW n \in Nat \ {0}, NEW hero \in Int, NEW seat \in 1 .. n
    PROVE  RotateRelativeToHero(seat, hero, n) \in Int /\ RotateRelativeToHero(seat, hero, n) <= n
<1>1. ASSUME NEW a \in Int PROVE CppMod(a, n) \in Int /\ CppMod(a, n) + 1 <= n
  <2>1. a % n \in 0 .. n - 1 /\ (-a) % n \in 0 .. n - 1
    OBVIOUS
  <2>. QED
    BY <2>1 DEF CppMod
<1>. QED
  BY <1>1 DEF RotateRelativeToHero, Rotated
-----------------------------------------------------------------------------
\* What the data of the program are, when h are the hands that were played.
HandsInv(h) == h \in Seq(Deals) /\ Len(h) <= MaxHands
RowsInv(r, h) == r \in RowSets /\ r.hand \subseteq DOMAIN h /\ r.isHero \subseteq r.player

\* A hand that is stored has its players, and its actions too, unless a save has yet
\* to store them or one of its game failed before it did.
Stored(r, h, pending) ==
    /\ r.handPlayer \subseteq r.hand
    /\ \A id \in r.hand : PlayersAt(h[id]) \subseteq r.player
    /\ \A id \in Ids : r.action[id] > 0 => id \in r.handPlayer
    /\ \A id \in r.hand : r.action[id] > 0 \/ id \in r.lost \/ id \in pending

\* No save is under way.
Complete(r, h) == Stored(r, h, {})

\* Statistics of the table: its size, once a hand was found, and rows at its seats.
IsTableRow(row, h) == row \in StatRows /\ row.pfr <= row.vpip /\ row.nbHands <= Len(h)
StatsInv(s, h) == /\ s = [maxSeats |-> s.maxSeats, rows |-> s.rows]
                  /\ s.maxSeats \in {SeatUnknown, NbSeats}
                  /\ \A row \in s.rows : IsTableRow(row, h)
                  /\ \A row, other \in s.rows : row.seat = other.seat => row = other

LEMMA HandsFacts ==
    ASSUME NEW h, HandsInv(h)
    PROVE  /\ Len(h) \in Nat /\ DOMAIN h = 1 .. Len(h) /\ DOMAIN h \subseteq Ids
           /\ \A id \in DOMAIN h : h[id] \in Deals
BY HandsAssumption DEF HandsInv, Ids
-----------------------------------------------------------------------------
(* The statistics.                                                         *)

LEMMA Multiples == ASSUME NEW n \in Nat, NEW p \in Int, NEW q \in Int, p <= q PROVE n * p <= n * q
OBVIOUS

LEMMA Quotient ==
    ASSUME NEW m \in Nat, NEW n \in Nat \ {0}
    PROVE  /\ m \div n \in Nat
           /\ n * (m \div n) <= m /\ m < n * (m \div n) + n
OBVIOUS

LEMMA Percents ==
    ASSUME NEW a \in Nat, NEW b \in Nat, NEW n \in Nat \ {0}, a <= b, b <= n
    PROVE  /\ Percent(a, n) \in 0 .. 100 /\ Percent(b, n) \in 0 .. 100
           /\ Percent(a, n) <= Percent(b, n)
<1> DEFINE p == (100 * a) \div n
           q == (100 * b) \div n
<1>1. p \in Nat /\ n * p <= 100 * a
  BY Quotient
<1>2. q \in Nat /\ n * q <= 100 * b /\ 100 * b < n * q + n
  BY Quotient
<1> HIDE DEF p, q
<1>3. q <= 100
  <2> SUFFICES ASSUME q >= 101 PROVE FALSE
    BY <1>2
  <2>1. n * 101 <= n * q
    BY <1>2, Multiples
  <2>. QED
    BY <1>2, <2>1
<1>4. p <= q
  <2> SUFFICES ASSUME p >= q + 1 PROVE FALSE
    BY <1>1, <1>2
  <2>1. n * (q + 1) <= n * p
    BY <1>1, <1>2, Multiples
  <2>2. n * (q + 1) = n * q + n
    BY <1>2
  <2>. QED
    BY <1>1, <1>2, <2>1, <2>2
<1>. QED
  BY <1>1, <1>2, <1>3, <1>4 DEF Percent, p, q

\* A player acted in a hand when a row of it says so.
Acts(d, name, types) == \E i \in DOMAIN d.preflop : d.preflop[i].player = name /\ d.preflop[i].type \in types

LEMMA Acted ==
    ASSUME NEW h, HandsInv(h), NEW r, RowsInv(r, h), NEW id \in DOMAIN h, NEW name, NEW types
    PROVE  NbActions(r, h, id, name, types) > 0 <=> r.action[id] > 0 /\ Acts(h[id], name, types)
<1> DEFINE preflop == h[id].preflop
           I == {i \in DOMAIN preflop : preflop[i].player = name /\ preflop[i].type \in types}
<1>1. h[id] \in Deals /\ id \in Ids
  BY HandsFacts
<1>2. preflop \in Seq(Range(preflop))
  BY <1>1, DealsAssumption
<1>3. IsFiniteSet(DOMAIN preflop)
  <2>1. DOMAIN preflop = 1 .. Len(preflop) /\ Len(preflop) \in Nat
    BY <1>2
  <2>. QED
    BY <2>1, FS_Interval
<1>4. IsFiniteSet(I) /\ Cardinality(I) \in Nat /\ (Cardinality(I) = 0 <=> I = {})
  BY <1>3, FS_Subset, FS_CardinalityType, FS_EmptySet
<1>5. r.action[id] \in Nat
  BY <1>1 DEF RowsInv, RowSets
<1>6. I # {} <=> Acts(h[id], name, types)
  BY DEF Acts
<1>7. NbActions(r, h, id, name, types) = r.action[id] * Cardinality(I)
  BY DEF NbActions
<1>8. \A m, n \in Nat : m * n > 0 <=> m > 0 /\ n # 0
  OBVIOUS
<1> HIDE DEF I
<1>. QED
  BY <1>4, <1>5, <1>6, <1>7, <1>8

\* The last hand of the table is one that was played there.
LEMMA LastHandIsPlayed ==
    ASSUME NEW h, HandsInv(h), NEW r, RowsInv(r, h)
    PROVE  /\ TableHands(r, h, Table) = {} => LastHand(r, h, Table) = {}
           /\ TableHands(r, h, Table) # {} =>
                 LET last == Max(TableHands(r, h, Table)) IN
                 LastHand(r, h, Table) = {last} /\ last \in TableHands(r, h, Table)
           /\ \A id \in TableHands(r, h, Table) :
                 id \in r.hand /\ id \in DOMAIN h /\ h[id] \in Deals /\ h[id].tableName = Table
<1> DEFINE ids == TableHands(r, h, Table)
<1>1. ids \in SUBSET (1 .. Len(h)) /\ Len(h) \in Nat
  BY HandsFacts DEF TableHands, RowsInv
<1>2. ids # {} => Max(ids) \in ids
  BY <1>1, GreatestElement
<1>3. \A id \in ids : id \in r.hand /\ id \in DOMAIN h /\ h[id] \in Deals /\ h[id].tableName = Table
  BY HandsFacts DEF TableHands, RowsInv
<1>. QED
  BY <1>2, <1>3 DEF LastHand

LEMMA LastHandFacts ==
    ASSUME NEW h, HandsInv(h), NEW r, RowsInv(r, h), NEW id \in LastHand(r, h, Table)
    PROVE  /\ id \in r.hand /\ id \in DOMAIN h /\ h[id] \in Deals /\ h[id].tableName = Table
           /\ id \in TableHands(r, h, Table) /\ LastHand(r, h, Table) = {id}
<1>1. id = Max(TableHands(r, h, Table)) /\ TableHands(r, h, Table) # {}
  BY DEF LastHand
<1>. QED
  BY <1>1, LastHandIsPlayed

LEMMA MaxSeatsAreRead ==
    ASSUME NEW h, HandsInv(h), NEW r, RowsInv(r, h)
    PROVE  GetTableMaxSeat(r, h, Table) \in {SeatUnknown, NbSeats}
<1> DEFINE last == LastHand(r, h, Table)
<1>1. CASE last = {}
  BY <1>1 DEF GetTableMaxSeat
<1>2. CASE last # {}
  <2> DEFINE id == CHOOSE i \in last : TRUE
  <2>1. id \in last
    BY <1>2
  <2>2. h[id] \in Deals /\ h[id].tableName = Table
    BY <2>1, LastHandFacts
  <2>3. GetTableMaxSeat(r, h, Table) = Len(h[id].seats)
    BY <1>2 DEF GetTableMaxSeat
  <2>. QED
    BY <2>2, <2>3, TableFacts
<1>. QED
  BY <1>1, <1>2

LEMMA PlayersHaveSeats ==
    ASSUME NEW d \in Deals, d.tableName = Table, NEW name \in PlayersAt(d)
    PROVE  SeatOf(d, name) \in TableSeats /\ d.seats[SeatOf(d, name)] = name /\ name \in Names
<1>1. DOMAIN d.seats = TableSeats
  BY TableFacts
<1>2. \E seat \in DOMAIN d.seats : d.seats[seat] = name
  BY DEF PlayersAt, Range
<1>. QED
  BY <1>1, <1>2 DEF SeatOf, Names

\* The row of a player of the last hand.
LEMMA RowOfPlayer ==
    ASSUME NEW h, HandsInv(h), NEW r, RowsInv(r, h),
           NEW last \in LastHand(r, h, Table), last \in r.handPlayer, NEW name \in PlayersAt(h[last])
    PROVE  /\ IsTableRow(TableRow(r, h, Table, last, name), h)
           /\ TableRow(r, h, Table, last, name).seat = SeatOf(h[last], name)
<1> DEFINE all == PlayerHands(r, h, Table, name)
           With(types) == {id \in all : NbActions(r, h, id, name, types) > 0}
           n == Cardinality(all)
           a == Cardinality(With({"raise"}))
           b == Cardinality(With(Voluntary))
           row == TableRow(r, h, Table, last, name)
<1>1. last \in all /\ all \in SUBSET (DOMAIN h)
  BY LastHandFacts, LastHandIsPlayed DEF PlayerHands
<1>2. n \in 1 .. Len(h) /\ IsFiniteSet(all)
  <2>1. DOMAIN h = 1 .. Len(h) /\ Len(h) \in Nat
    BY HandsFacts
  <2>2. IsFiniteSet(DOMAIN h) /\ Cardinality(DOMAIN h) = Len(h)
    <3>1. 1 \in Int /\ Len(h) \in Int
      BY <2>1
    <3>2. IsFiniteSet(1 .. Len(h)) /\ Cardinality(1 .. Len(h)) = IF 1 > Len(h) THEN 0 ELSE Len(h) - 1 + 1
      BY <3>1, FS_Interval, Zenon
    <3>. QED
      BY <2>1, <3>2
  <2>3. IsFiniteSet(all) /\ n <= Len(h) /\ n \in Nat
    BY <1>1, <2>2, FS_Subset, FS_CardinalityType
  <2>4. n # 0
    BY <1>1, <2>3, FS_EmptySet
  <2>. QED
    BY <2>1, <2>3, <2>4
<1>3. With({"raise"}) \subseteq With(Voluntary)
  <2> SUFFICES ASSUME NEW id \in all, NbActions(r, h, id, name, {"raise"}) > 0
               PROVE  NbActions(r, h, id, name, Voluntary) > 0
    OBVIOUS
  <2>1. id \in DOMAIN h
    BY <1>1
  <2>2. r.action[id] > 0 /\ Acts(h[id], name, {"raise"})
    BY <2>1, Acted
  <2>3. Acts(h[id], name, Voluntary)
    BY <2>2 DEF Acts, Voluntary
  <2>. QED
    BY <2>1, <2>2, <2>3, Acted
<1>4. a \in Nat /\ b \in Nat /\ a <= b /\ b <= n
  <2>1. IsFiniteSet(With(Voluntary)) /\ b \in Nat /\ b <= n
    BY <1>2, FS_Subset, FS_CardinalityType
  <2>. QED
    BY <1>3, <2>1, FS_Subset, FS_CardinalityType
<1>5. row = [player |-> name, seat |-> SeatOf(h[last], name), isHero |-> name \in r.isHero,
             vpip |-> Percent(b, n), pfr |-> Percent(a, n), nbHands |-> n]
  BY DEF TableRow, PlayerStatistics
<1>6. h[last] \in Deals /\ h[last].tableName = Table /\ Len(h) \in Nat /\ 1 .. Len(h) \subseteq Ids
  BY LastHandFacts, HandsFacts
<1>7. SeatOf(h[last], name) \in TableSeats /\ name \in Names
  BY <1>6, PlayersHaveSeats
<1>8. Percent(a, n) \in 0 .. 100 /\ Percent(b, n) \in 0 .. 100 /\ Percent(a, n) <= Percent(b, n)
  BY <1>2, <1>4, <1>6, Percents
<1> HIDE DEF row, n, a, b
<1>9. row \in StatRows
  BY <1>2, <1>5, <1>6, <1>7, <1>8 DEF StatRows
<1>. QED
  BY <1>2, <1>5, <1>6, <1>8, <1>9 DEF IsTableRow, row

\* What the second query reads.
LEMMA RowsAreRead ==
    ASSUME NEW h, HandsInv(h), NEW r, RowsInv(r, h)
    PROVE  /\ \A row \in ReadTableRows(r, h, Table) : IsTableRow(row, h)
           /\ \A row, other \in ReadTableRows(r, h, Table) : row.seat = other.seat => row = other
<1> DEFINE Read(row, last, name) ==
             /\ last \in LastHand(r, h, Table) /\ last \in r.handPlayer
             /\ name \in PlayersAt(h[last]) /\ row = TableRow(r, h, Table, last, name)
<1>1. \A row \in ReadTableRows(r, h, Table) : \E last, name : Read(row, last, name)
  BY DEF ReadTableRows
<1>2. ASSUME NEW row, NEW last, NEW name, Read(row, last, name)
      PROVE  IsTableRow(row, h) /\ h[last].seats[row.seat] = name /\ LastHand(r, h, Table) = {last}
  <2>1. IsTableRow(row, h) /\ row.seat = SeatOf(h[last], name)
    BY <1>2, RowOfPlayer
  <2>2. h[last] \in Deals /\ h[last].tableName = Table /\ LastHand(r, h, Table) = {last}
    BY <1>2, LastHandFacts
  <2>. QED
    BY <1>2, <2>1, <2>2, PlayersHaveSeats
<1>3. ASSUME NEW row \in ReadTableRows(r, h, Table), NEW other \in ReadTableRows(r, h, Table),
             row.seat = other.seat
      PROVE  row = other
  <2>1. PICK last, name : Read(row, last, name)
    BY <1>1
  <2>2. PICK last2, name2 : Read(other, last2, name2)
    BY <1>1
  <2>3. last = last2
    BY <1>2, <2>1, <2>2
  <2>4. name = name2
    BY <1>2, <1>3, <2>1, <2>2, <2>3
  <2>. QED
    BY <2>1, <2>2, <2>3, <2>4
<1>. QED
  BY <1>1, <1>2, <1>3
-----------------------------------------------------------------------------
(* The data.                                                               *)

SaverInv(s, h) == s \in Saves /\ s.ids \subseteq DOMAIN h /\ RowsInv(s.before, h)

\* What a save has stored when it comes to a step.
Saved(r, s, h) ==
    /\ Complete(s.before, h)
    /\ Stored(r, h, IF s.step = "end" THEN {} ELSE s.ids)
    /\ (s.step \in {"handPlayer", "action"}) => s.ids \subseteq r.hand
    /\ (s.step = "action") => s.ids \subseteq r.handPlayer
    /\ (s.step # "player") => \A id \in s.ids : PlayersAt(h[id]) \subseteq r.player

\* Statistics that are notified are valid.
AwakeInv(a, h) == \E S : a \in Seq(S) /\ \A s \in S : StatsInv(s, h) /\ IsValid(s)

ChainInv(c, s, st) == /\ c \in {"idle", "parse", "save", "maxSeats", "rows", "notify"}
                      /\ (c = "save") => s # None /\ s.who = "chain"
                      /\ (c = "notify") => IsValid(st)

\* The rows are those of hands that were played, before, during and after a save,
\* and what was read from them waits for the user interface.
DataInv == /\ HandsInv(hands) /\ RowsInv(rows, hands)
           /\ saver # None => SaverInv(saver, hands) /\ Saved(rows, saver, hands)
           /\ saver = None => Complete(rows, hands)
           /\ StatsInv(stats, hands) /\ AwakeInv(awake, hands)
           /\ ChainInv(chain, saver, stats)
           /\ changed \in BOOLEAN /\ imported \in BOOLEAN

\* No hand that was played is forgotten: what is true of the rows stays true.
LEMMA MoreHands ==
    ASSUME NEW h, HandsInv(h), NEW d \in Deals, HandsInv(Append(h, d))
    PROVE  /\ \A id \in DOMAIN h : id \in DOMAIN Append(h, d) /\ Append(h, d)[id] = h[id]
           /\ Len(h) <= Len(Append(h, d)) /\ Len(h) \in Nat /\ Len(Append(h, d)) \in Nat
BY DEF HandsInv

LEMMA MoreRows ==
    ASSUME NEW h, HandsInv(h), NEW d \in Deals, HandsInv(Append(h, d)), NEW r, RowsInv(r, h)
    PROVE  /\ RowsInv(r, Append(h, d))
           /\ Complete(r, h) => Complete(r, Append(h, d))
           /\ \A pending : Stored(r, h, pending) => Stored(r, Append(h, d), pending)
<1> DEFINE g == Append(h, d)
<1>1. \A id \in DOMAIN h : id \in DOMAIN g /\ g[id] = h[id]
  BY MoreHands
<1> HIDE DEF g
<1>2. RowsInv(r, g)
  BY <1>1 DEF RowsInv
<1>3. ASSUME NEW pending, Stored(r, h, pending) PROVE Stored(r, g, pending)
  BY <1>1, <1>3 DEF Stored, RowsInv
<1>. QED
  BY <1>2, <1>3 DEF g, Complete

LEMMA MoreSaved ==
    ASSUME NEW h, HandsInv(h), NEW d \in Deals, HandsInv(Append(h, d)), NEW r, RowsInv(r, h), NEW s,
           SaverInv(s, h), Saved(r, s, h)
    PROVE  SaverInv(s, Append(h, d)) /\ Saved(r, s, Append(h, d))
<1> DEFINE g == Append(h, d)
<1>1. \A id \in DOMAIN h : id \in DOMAIN g /\ g[id] = h[id]
  BY MoreHands
<1>2. RowsInv(s.before, g) /\ Complete(s.before, g)
  BY MoreRows DEF SaverInv, Saved
<1>0. Stored(r, g, IF s.step = "end" THEN {} ELSE s.ids)
  BY MoreRows DEF Saved
<1> HIDE DEF g
<1>3. s.ids \subseteq DOMAIN h /\ s.ids \subseteq DOMAIN g
  BY <1>1 DEF SaverInv
<1>4. s.step # "player" => \A id \in s.ids : PlayersAt(g[id]) \subseteq r.player
  BY <1>1, <1>3 DEF Saved
<1>5. SaverInv(s, g)
  BY <1>2, <1>3 DEF SaverInv
<1>6. Saved(r, s, g)
  BY <1>0, <1>2, <1>4 DEF Saved
<1>. QED
  BY <1>5, <1>6 DEF g

LEMMA MoreStats ==
    ASSUME NEW h, HandsInv(h), NEW d \in Deals, HandsInv(Append(h, d)), NEW s, StatsInv(s, h)
    PROVE  StatsInv(s, Append(h, d))
<1> DEFINE g == Append(h, d)
<1>1. Len(h) <= Len(g) /\ Len(h) \in Nat /\ Len(g) \in Nat
  BY MoreHands
<1> HIDE DEF g
<1>2. ASSUME NEW row, IsTableRow(row, h) PROVE IsTableRow(row, g)
  <2>1. row \in StatRows /\ row.pfr <= row.vpip /\ row.nbHands <= Len(h)
    BY <1>2 DEF IsTableRow
  <2>2. row.nbHands \in Int
    BY <2>1 DEF StatRows, Ids
  <2>. QED
    BY <1>1, <2>1, <2>2 DEF IsTableRow
<1>3. StatsInv(s, g)
  BY <1>2 DEF StatsInv
<1>. QED
  BY <1>3 DEF g

LEMMA NoStatsInv == ASSUME NEW h PROVE StatsInv(NoStats, h)
BY DEF StatsInv, NoStats

LEMMA AwakeAppend ==
    ASSUME NEW h, NEW s, StatsInv(s, h), IsValid(s), NEW a, AwakeInv(a, h)
    PROVE  AwakeInv(Append(a, s), h)
<1>1. PICK S : a \in Seq(S) /\ \A t \in S : StatsInv(t, h) /\ IsValid(t)
  BY DEF AwakeInv
<1>2. Append(a, s) \in Seq(S \cup {s})
  <2>1. a \in Seq(S \cup {s}) /\ s \in S \cup {s}
    BY <1>1
  <2>. QED
    BY <2>1
<1>. QED
  BY <1>1, <1>2 DEF AwakeInv

LEMMA AwakeTail ==
    ASSUME NEW h, NEW a, AwakeInv(a, h), a # <<>>
    PROVE  StatsInv(Head(a), h) /\ IsValid(Head(a)) /\ AwakeInv(Tail(a), h)
<1>1. PICK S : a \in Seq(S) /\ \A t \in S : StatsInv(t, h) /\ IsValid(t)
  BY DEF AwakeInv
<1>2. Head(a) \in S /\ Tail(a) \in Seq(S)
  BY <1>1
<1>. QED
  BY <1>1, <1>2 DEF AwakeInv
-----------------------------------------------------------------------------
(* A save, step by step.                                                   *)

\* Every statement stores rows of the hands of the save.
LEMMA RowsOfSave ==
    ASSUME HandsInv(hands), RowsInv(rows, hands), NEW ids \in SUBSET DOMAIN hands,
           NEW step \in {"player", "hand", "handPlayer", "action"}
    PROVE  /\ RowsInv(Insert(step, ids), hands)
           /\ Insert(step, ids).lost = IF step = "action" THEN rows.lost \ ids ELSE rows.lost
<1> DEFINE names == UNION {PlayersAt(hands[id]) : id \in ids}
           heroes == {hands[id].dealt : id \in ids}
<1>0. ids \subseteq Ids /\ names \subseteq Names
  BY HandsFacts DEF Names
<1>1. CASE step = "player"
  <2>1. Insert(step, ids) = [rows EXCEPT !.player = rows.player \cup names,
                             !.isHero = rows.isHero \cup ((heroes \cap names) \ rows.player)]
    BY <1>1 DEF Insert
  <2> HIDE DEF names, heroes
  <2>. QED
    BY <1>0, <1>1, <2>1 DEF RowsInv, RowSets
<1>2. CASE step = "hand"
  BY <1>0, <1>2 DEF Insert, RowsInv, RowSets
<1>3. CASE step = "handPlayer"
  BY <1>0, <1>3 DEF Insert, RowsInv, RowSets
<1>4. CASE step = "action"
  <2> DEFINE action == [id \in Ids |-> rows.action[id] + IF id \in ids THEN 1 ELSE 0]
  <2>1. Insert(step, ids) = [rows EXCEPT !.action = action, !.lost = rows.lost \ ids]
    BY <1>4 DEF Insert
  <2>2. action \in [Ids -> Nat]
    BY DEF RowsInv, RowSets
  <2> HIDE DEF action
  <2>. QED
    BY <1>4, <2>1, <2>2 DEF RowsInv, RowSets
<1>. QED
  BY <1>1, <1>2, <1>3, <1>4

\* Actions are stored last: they make hands complete.
LEMMA ActionsAreStored ==
    ASSUME HandsInv(hands), RowsInv(rows, hands), NEW pending, Stored(rows, hands, pending),
           NEW ids \in SUBSET DOMAIN hands, ids \subseteq rows.handPlayer
    PROVE  Stored(Insert("action", ids), hands, pending \ ids)
<1> DEFINE action == [id \in Ids |-> rows.action[id] + IF id \in ids THEN 1 ELSE 0]
           new == Insert("action", ids)
<1>1. rows \in RowSets /\ ids \subseteq Ids
  BY HandsFacts DEF RowsInv
<1>2. new = [rows EXCEPT !.action = action, !.lost = rows.lost \ ids]
  BY DEF Insert
<1>3. \A id \in Ids : rows.action[id] \in Nat
  BY <1>1 DEF RowSets
<1>4. /\ \A id \in ids : action[id] > 0
      /\ \A id \in Ids : action[id] > 0 => rows.action[id] > 0 \/ id \in ids
      /\ \A id \in Ids : rows.action[id] > 0 => action[id] > 0
  BY <1>1, <1>3
<1> HIDE DEF action, new
<1>5. /\ new.hand = rows.hand /\ new.handPlayer = rows.handPlayer /\ new.player = rows.player
      /\ new.action = action /\ new.lost = rows.lost \ ids
  BY <1>1, <1>2 DEF RowSets
<1>6. rows.hand \subseteq Ids
  BY <1>1 DEF RowSets
<1>7. Stored(new, hands, pending \ ids)
  BY <1>4, <1>5, <1>6 DEF Stored
<1>. QED
  BY <1>7 DEF new

\* Each step of a save is done when it comes to the next one.
LEMMA SaveInv == ASSUME DataInv, Save PROVE SaverInv(saver, hands)' /\ Saved(rows, saver, hands)' /\ RowsInv(rows, hands)'
<1> DEFINE s == saver
           old == s.before
           ids == s.ids
           new == Insert(s.step, ids)
<1>1. /\ saver # None /\ s.step \in {"player", "hand", "handPlayer", "action"}
      /\ rows' = new /\ saver' = [s EXCEPT !.step = NextStep[s.step]]
      /\ UNCHANGED hands
      /\ SaverInv(s, hands) /\ Saved(rows, s, hands)
  BY DEF Save, DataInv, SaverInv, Saves
<1>2. s \in Saves /\ ids \subseteq DOMAIN hands /\ RowsInv(old, hands) /\ ids \subseteq Ids
  BY <1>1, HandsFacts DEF SaverInv, DataInv
<1>3. NextStep[s.step] \in {"hand", "handPlayer", "action", "end"}
  BY <1>1 DEF NextStep
<1>4. /\ saver' \in Saves /\ saver'.ids = ids /\ saver'.before = old
      /\ saver'.step = NextStep[s.step] /\ saver'.who = s.who
  BY <1>1, <1>2, <1>3 DEF Saves
<1>5. RowsInv(rows', hands') /\ SaverInv(saver', hands')
  <2>1. RowsInv(new, hands)
    BY <1>1, <1>2, RowsOfSave DEF DataInv
  <2>. QED
    BY <1>1, <1>2, <1>4, <2>1 DEF SaverInv
<1>6. rows \in RowSets
  BY DEF DataInv, RowsInv
<1>7. Saved(rows', saver', hands)
  <2>1. CASE s.step = "player"
    <3>1. /\ new.hand = rows.hand /\ new.handPlayer = rows.handPlayer /\ new.action = rows.action
          /\ new.player = rows.player \cup UNION {PlayersAt(hands[id]) : id \in ids} /\ new.lost = rows.lost
      BY <1>6, <2>1 DEF Insert, RowSets
    <3>2. saver'.step = "hand"
      BY <1>4, <2>1 DEF NextStep
    <3> HIDE DEF new
    <3>. QED
      BY <1>1, <1>4, <2>1, <3>1, <3>2 DEF Saved, Stored
  <2>2. CASE s.step = "hand"
    <3>1. /\ new.hand = rows.hand \cup ids /\ new.handPlayer = rows.handPlayer
          /\ new.action = rows.action /\ new.player = rows.player /\ new.lost = rows.lost
      BY <1>6, <2>2 DEF Insert, RowSets
    <3>2. saver'.step = "handPlayer"
      BY <1>4, <2>2 DEF NextStep
    <3> HIDE DEF new
    <3>. QED
      BY <1>1, <1>4, <2>2, <3>1, <3>2 DEF Saved, Stored
  <2>3. CASE s.step = "handPlayer"
    <3>1. /\ new.hand = rows.hand /\ new.handPlayer = rows.handPlayer \cup ids
          /\ new.action = rows.action /\ new.player = rows.player /\ new.lost = rows.lost
      BY <1>6, <2>3 DEF Insert, RowSets
    <3>2. saver'.step = "action"
      BY <1>4, <2>3 DEF NextStep
    <3> HIDE DEF new
    <3>. QED
      BY <1>1, <1>4, <2>3, <3>1, <3>2 DEF Saved, Stored
  <2>4. CASE s.step = "action"
    <3>1. Stored(new, hands, {})
      <4>1. Stored(rows, hands, ids) /\ ids \subseteq rows.handPlayer
        BY <1>1, <2>4 DEF Saved
      <4>2. Stored(Insert("action", ids), hands, ids \ ids)
        BY <1>2, <4>1, ActionsAreStored DEF DataInv
      <4>. QED
        BY <2>4, <4>2
    <3>2. saver'.step = "end"
      BY <1>4, <2>4 DEF NextStep
    <3>3. new.player = rows.player
      <4> DEFINE action == [id \in Ids |-> rows.action[id] + IF id \in ids THEN 1 ELSE 0]
      <4>1. new = [rows EXCEPT !.action = action, !.lost = rows.lost \ ids]
        BY <2>4 DEF Insert
      <4> HIDE DEF new, action
      <4>. QED
        BY <1>6, <4>1 DEF RowSets
    <3> HIDE DEF new
    <3>. QED
      BY <1>1, <1>4, <2>4, <3>1, <3>2, <3>3 DEF Saved
  <2>. QED
    BY <1>1, <2>1, <2>2, <2>3, <2>4
<1>. QED
  BY <1>1, <1>5, <1>7

\* A transaction that begins has stored nothing.
LEMMA BeginInv ==
    ASSUME DataInv, saver = None, NEW who \in {"import", "chain"}, NEW ids \in SUBSET DOMAIN hands,
           Begin(who, ids)
    PROVE  saver' \in Saves /\ saver'.who = who /\ SaverInv(saver', hands) /\ Saved(rows, saver', hands)
<1>1. saver' = [who |-> who, step |-> "player", ids |-> ids, before |-> rows]
  BY DEF Begin
<1>2. RowsInv(rows, hands) /\ Complete(rows, hands) /\ ids \subseteq Ids
  BY HandsFacts DEF DataInv
<1>3. saver' \in Saves
  BY <1>1, <1>2 DEF Saves, RowsInv
<1>4. saver'.who = who /\ saver'.step = "player" /\ saver'.ids = ids /\ saver'.before = rows
  BY <1>1
<1>5. Saved(rows, saver', hands)
  BY <1>2, <1>4 DEF Saved, Complete, Stored
<1>. QED
  BY <1>2, <1>3, <1>4, <1>5 DEF SaverInv

\* A save that is at its end has stored its hands, and a rollback finds the rows as
\* they were.
LEMMA EndOfSave ==
    ASSUME DataInv, saver # None, saver.step = "end"
    PROVE  Complete(rows, hands) /\ Complete(saver.before, hands) /\ RowsInv(saver.before, hands)
<1>1. SaverInv(saver, hands) /\ Saved(rows, saver, hands)
  BY DEF DataInv
<1>. QED
  BY <1>1 DEF SaverInv, Saved, Complete
-----------------------------------------------------------------------------
(* Every step keeps DataInv.                                               *)

LEMMA DataFrame == ASSUME DataInv, UNCHANGED <<hands, rows, saver, chain, stats, awake, changed, imported>>
                   PROVE  DataInv'
BY DEF DataInv

LEMMA PlayHandInv == ASSUME DataInv, PlayHand PROVE DataInv'
<1>1. PICK d \in Deals : hands' = Append(hands, d) /\ changed' = (changed \/ d.tableName = Table)
  BY DEF PlayHand
<1>2. HandsInv(Append(hands, d))
  BY HandsAssumption DEF DataInv, PlayHand, HandsInv
<1>3. UNCHANGED <<rows, saver, chain, stats, awake, imported>>
  BY DEF PlayHand
<1>4. RowsInv(rows, hands')
  BY <1>1, <1>2, MoreRows DEF DataInv
<1>5. saver = None => Complete(rows, hands')
  BY <1>1, <1>2, MoreRows DEF DataInv
<1>6. saver # None => SaverInv(saver, hands') /\ Saved(rows, saver, hands')
  BY <1>1, <1>2, MoreSaved DEF DataInv
<1>7. StatsInv(stats, hands')
  BY <1>1, <1>2, MoreStats DEF DataInv
<1>8. AwakeInv(awake, hands')
  <2>1. PICK S : awake \in Seq(S) /\ \A s \in S : StatsInv(s, hands) /\ IsValid(s)
    BY DEF DataInv, AwakeInv
  <2>2. \A s \in S : StatsInv(s, hands') /\ IsValid(s)
    BY <1>1, <1>2, <2>1, MoreStats DEF DataInv
  <2>. QED
    BY <2>1, <2>2 DEF AwakeInv
<1>9. changed' \in BOOLEAN
  BY <1>1 DEF DataInv
<1>. QED
  BY <1>1, <1>2, <1>3, <1>4, <1>5, <1>6, <1>7, <1>8, <1>9 DEF DataInv

LEMMA FileChangedInv == ASSUME DataInv, FileChanged PROVE DataInv'
<1>1. /\ UNCHANGED <<hands, rows, imported>> /\ stats' = NoStats /\ chain' = "parse" /\ changed' = FALSE
      /\ saver' = IF saver # None /\ saver.who = "chain" THEN [saver EXCEPT !.who = "dropped"] ELSE saver
  BY DEF FileChanged
<1>2. saver # None => SaverInv(saver', hands) /\ Saved(rows, saver', hands) /\ saver' # None
  <2>1. CASE saver # None /\ saver.who = "chain"
    <3>1. saver \in Saves /\ SaverInv(saver, hands) /\ Saved(rows, saver, hands)
      BY <2>1 DEF DataInv, SaverInv
    <3>2. /\ saver' \in Saves /\ saver'.step = saver.step /\ saver'.ids = saver.ids
          /\ saver'.before = saver.before
      BY <1>1, <2>1, <3>1 DEF Saves
    <3>3. SaverInv(saver', hands) /\ Saved(rows, saver', hands)
      BY <3>1, <3>2 DEF SaverInv, Saved
    <3>4. saver' # None
      BY <3>2, NoneAssumption
    <3>. QED
      BY <3>3, <3>4
  <2>2. CASE saver # None /\ saver.who # "chain"
    BY <1>1, <2>2 DEF DataInv
  <2>. QED
    BY <2>1, <2>2
<1>3. saver = None => saver' = None
  BY <1>1
<1>4. AwakeInv(awake', hands)
  <2>1. CASE UNCHANGED awake
    BY <2>1 DEF DataInv
  <2>2. CASE chain = "notify" /\ awake' = Append(awake, stats)
    BY <2>2, AwakeAppend DEF DataInv, ChainInv
  <2>. QED
    BY <2>1, <2>2 DEF FileChanged
<1>5. ChainInv(chain', saver', stats')
  BY <1>1 DEF ChainInv
<1>. QED
  BY <1>1, <1>2, <1>3, <1>4, <1>5, NoStatsInv DEF DataInv

LEMMA ReloadFileInv == ASSUME DataInv, ReloadFile PROVE DataInv'
<1>1. UNCHANGED <<hands, rows, stats, awake, changed, imported>>
  BY DEF ReloadFile
<1>2. CASE saver = None
  <2> DEFINE ids == {id \in DOMAIN hands : hands[id].tableName = Table}
  <2>1. Begin("chain", ids) /\ chain' = "save" /\ ids \in SUBSET DOMAIN hands
    BY <1>2 DEF ReloadFile
  <2> HIDE DEF ids
  <2>2. saver' \in Saves /\ saver'.who = "chain" /\ SaverInv(saver', hands) /\ Saved(rows, saver', hands)
    BY <1>2, <2>1, BeginInv
  <2>3. saver' # None /\ ChainInv(chain', saver', stats)
    BY <2>1, <2>2, NoneAssumption DEF ChainInv
  <2>. QED
    BY <1>1, <2>2, <2>3 DEF DataInv
<1>3. CASE saver # None
  <2>1. chain' = "idle" /\ UNCHANGED saver
    BY <1>3 DEF ReloadFile
  <2>. QED
    BY <1>1, <1>3, <2>1 DEF DataInv, ChainInv
<1>. QED
  BY <1>2, <1>3

LEMMA ImportInv == ASSUME DataInv, Import PROVE DataInv'
<1>1. /\ UNCHANGED <<hands, rows, stats, awake, changed, chain>> /\ imported' = TRUE
      /\ saver = None /\ Begin("import", DOMAIN hands)
  BY DEF Import
<1>2. saver' \in Saves /\ SaverInv(saver', hands) /\ Saved(rows, saver', hands)
  BY <1>1, BeginInv
<1>3. saver' # None /\ ChainInv(chain, saver', stats)
  BY <1>1, <1>2, NoneAssumption DEF ChainInv, DataInv
<1>. QED
  BY <1>1, <1>2, <1>3 DEF DataInv

LEMMA SaveStepInv == ASSUME DataInv, Save PROVE DataInv'
<1>1. /\ UNCHANGED <<hands, changed, chain, stats, imported, awake>> /\ saver # None
      /\ saver' = [saver EXCEPT !.step = NextStep[saver.step]]
  BY DEF Save
<1>2. RowsInv(rows', hands') /\ SaverInv(saver', hands') /\ Saved(rows', saver', hands')
  BY SaveInv
<1>3. saver' # None
  BY <1>2, NoneAssumption DEF SaverInv
<1>4. saver'.who = saver.who
  BY <1>1 DEF DataInv, SaverInv, Saves
<1>5. ChainInv(chain, saver', stats)
  BY <1>1, <1>3, <1>4 DEF ChainInv, DataInv
<1>. QED
  BY <1>1, <1>2, <1>3, <1>5 DEF DataInv

\* The hands of a game that fails are stored, or lost, and no longer in the save.
LEMMA GameFailsInv == ASSUME DataInv, GameFails PROVE DataInv'
<1>1. PICK failing \in saver.ids :
        LET game == {id \in saver.ids : hands[id].tableName = hands[failing].tableName} IN
        \E done \in SUBSET (game \ {failing}) :
           /\ saver.step = "action" \/ done = {}
           /\ rows' = [Insert("action", done) EXCEPT
                         !.lost = @ \cup {id \in (game \ done) \cap rows.hand : rows.action[id] = 0}]
           /\ saver' = [saver EXCEPT !.ids = @ \ game]
  BY DEF GameFails
<1> DEFINE game == {id \in saver.ids : hands[id].tableName = hands[failing].tableName}
<1>2. PICK done \in SUBSET (game \ {failing}) :
        /\ saver.step = "action" \/ done = {}
        /\ rows' = [Insert("action", done) EXCEPT
                      !.lost = @ \cup {id \in (game \ done) \cap rows.hand : rows.action[id] = 0}]
        /\ saver' = [saver EXCEPT !.ids = @ \ game]
  BY <1>1
<1> DEFINE new == Insert("action", done)
           cut == {id \in (game \ done) \cap rows.hand : rows.action[id] = 0}
<1>3. /\ UNCHANGED <<hands, changed, chain, stats, imported, awake>>
      /\ saver # None /\ saver.step \in {"hand", "handPlayer", "action"}
  BY DEF GameFails
<1>4. SaverInv(saver, hands) /\ Saved(rows, saver, hands) /\ HandsInv(hands) /\ RowsInv(rows, hands)
  BY <1>3 DEF DataInv
<1>5. game \subseteq saver.ids /\ done \subseteq game
  OBVIOUS
<1> HIDE DEF game
<1>6. done \subseteq DOMAIN hands /\ done \subseteq rows.handPlayer
  BY <1>2, <1>4, <1>5 DEF SaverInv, Saved
<1>7. Stored(rows, hands, saver.ids)
  BY <1>3, <1>4 DEF Saved
<1>8. RowsInv(new, hands) /\ new.lost = rows.lost \ done /\ Stored(new, hands, saver.ids \ done)
  BY <1>4, <1>6, <1>7, RowsOfSave, ActionsAreStored
<1>9. /\ new.hand = rows.hand /\ new.handPlayer = rows.handPlayer /\ new.player = rows.player
      /\ \A id \in Ids \ done : new.action[id] = rows.action[id]
      /\ new \in RowSets /\ cut \subseteq Ids
  <2>1. rows \in RowSets
    BY <1>4 DEF RowsInv
  <2> DEFINE action == [id \in Ids |-> rows.action[id] + IF id \in done THEN 1 ELSE 0]
  <2>2. new = [rows EXCEPT !.action = action, !.lost = rows.lost \ done]
    BY DEF Insert
  <2>3. \A id \in Ids \ done : action[id] = rows.action[id]
    <3>1. \A id \in Ids : rows.action[id] \in Nat
      BY <2>1 DEF RowSets
    <3>. QED
      BY <3>1
  <2>4. new \in RowSets
    BY <1>8 DEF RowsInv
  <2>5. cut \subseteq Ids
    BY <2>1 DEF RowSets
  <2> HIDE DEF new, cut, action
  <2>6. new.hand = rows.hand /\ new.handPlayer = rows.handPlayer /\ new.player = rows.player /\ new.action = action
    BY <2>1, <2>2 DEF RowSets
  <2>. QED
    BY <2>3, <2>4, <2>5, <2>6
<1> HIDE DEF new, cut
<1>10. /\ rows'.hand = new.hand /\ rows'.handPlayer = new.handPlayer /\ rows'.player = new.player
       /\ rows'.isHero = new.isHero /\ rows'.action = new.action /\ rows'.lost = new.lost \cup cut
       /\ rows' \in RowSets
  <2>1. rows' = [new EXCEPT !.lost = new.lost \cup cut]
    BY <1>2 DEF new, cut
  <2>. QED
    BY <1>9, <2>1 DEF RowSets
<1>11. RowsInv(rows', hands)
  BY <1>8, <1>10 DEF RowsInv
<1>12. /\ saver' \in Saves /\ saver'.ids = saver.ids \ game /\ saver'.who = saver.who
       /\ saver'.step = saver.step /\ saver'.before = saver.before
  BY <1>2, <1>4 DEF SaverInv, Saves
<1>13. Stored(rows', hands, saver'.ids)
  <2>1. \A id \in new.hand : id \in Ids
    BY <1>9 DEF RowSets
  <2>2. \A id \in game \ done : id \in new.hand => new.action[id] > 0 \/ id \in cut
    <3> SUFFICES ASSUME NEW id \in game \ done, id \in new.hand PROVE new.action[id] > 0 \/ id \in cut
      OBVIOUS
    <3>1. new.action[id] = rows.action[id] /\ rows.action[id] \in Nat
      BY <1>4, <1>9, <2>1 DEF RowsInv, RowSets
    <3>. QED
      BY <1>9, <3>1 DEF cut
  <2>. QED
    BY <1>5, <1>8, <1>10, <1>12, <2>1, <2>2 DEF Stored
<1>14. SaverInv(saver', hands) /\ Saved(rows', saver', hands)
  BY <1>3, <1>4, <1>9, <1>10, <1>12, <1>13 DEF SaverInv, Saved
<1>15. saver' # None /\ ChainInv(chain, saver', stats)
  BY <1>3, <1>12, NoneAssumption DEF DataInv, ChainInv
<1>. QED
  BY <1>3, <1>4, <1>11, <1>14, <1>15 DEF DataInv

LEMMA EndInv == ASSUME DataInv, End PROVE DataInv'
<1>1. /\ saver # None /\ saver.step = "end" /\ saver' = None /\ rows' \in {rows, saver.before}
      /\ UNCHANGED <<hands, changed, stats, imported, awake>>
      /\ \/ chain' \in {"maxSeats", "idle"}
         \/ chain' = chain /\ saver.who # "chain"
  BY DEF End
<1>2. Complete(rows', hands) /\ RowsInv(rows', hands)
  BY <1>1, EndOfSave DEF DataInv
<1>3. ChainInv(chain', saver', stats)
  BY <1>1 DEF ChainInv, DataInv
<1>. QED
  BY <1>1, <1>2, <1>3 DEF DataInv

LEMMA ReadMaxSeatsInv == ASSUME DataInv, ReadMaxSeats PROVE DataInv'
<1>1. /\ UNCHANGED <<hands, changed, rows, saver, imported, awake>> /\ chain' = "rows"
      /\ stats' = [maxSeats |-> GetTableMaxSeat(rows, hands, Table), rows |-> {}]
  BY DEF ReadMaxSeats, NoStats
<1>2. StatsInv(stats', hands)
  BY <1>1, MaxSeatsAreRead DEF StatsInv, DataInv
<1>3. ChainInv(chain', saver, stats')
  BY <1>1 DEF ChainInv, DataInv
<1>. QED
  BY <1>1, <1>2, <1>3 DEF DataInv

LEMMA ReadRowsInv == ASSUME DataInv, ReadRows PROVE DataInv'
<1>1. /\ UNCHANGED <<hands, changed, rows, saver, imported, awake>>
      /\ chain' = IF IsValid(stats) THEN "notify" ELSE "idle"
      /\ stats' = [maxSeats |-> stats.maxSeats, rows |-> ReadTableRows(rows, hands, Table)]
  BY DEF ReadRows, DataInv, StatsInv
<1>2. StatsInv(stats', hands)
  BY <1>1, RowsAreRead DEF StatsInv, DataInv
<1>3. ChainInv(chain', saver, stats')
  BY <1>1 DEF ChainInv, DataInv, IsValid
<1>. QED
  BY <1>1, <1>2, <1>3 DEF DataInv

LEMMA NotifyInv == ASSUME DataInv, Notify PROVE DataInv'
<1>1. /\ UNCHANGED <<hands, changed, rows, saver, imported>> /\ chain = "notify" /\ chain' = "idle"
      /\ stats' = NoStats /\ awake' = Append(awake, stats)
  BY DEF Notify
<1>2. AwakeInv(awake', hands)
  BY <1>1, AwakeAppend DEF DataInv, ChainInv
<1>. QED
  BY <1>1, <1>2, NoStatsInv DEF DataInv, ChainInv

LEMMA NextDataInv == DataInv /\ [Next]_vars => DataInv'
<1> SUFFICES ASSUME DataInv, [Next]_vars PROVE DataInv'
  OBVIOUS
<1>1. CASE UpdateTablePlayerIndicators
  <2>1. UNCHANGED data /\ awake # <<>> /\ awake' = Tail(awake)
    BY <1>1 DEF UpdateTablePlayerIndicators
  <2>2. AwakeInv(awake', hands)
    BY <2>1, AwakeTail DEF DataInv
  <2>. QED
    BY <2>1, <2>2 DEF DataInv, data
<1>2. CASE MoveTable \/ Release \/ (\E seat \in TableSeats : Drag(seat)) \/ UNCHANGED vars
  BY <1>2, DataFrame DEF MoveTable, Release, Drag, vars, data
<1>. QED
  BY <1>1, <1>2, PlayHandInv, FileChangedInv, ReloadFileInv, ImportInv, SaveStepInv, GameFailsInv, EndInv,
     ReadMaxSeatsInv, ReadRowsInv, NotifyInv
     DEF Next, Program, User

LEMMA InitDataInv == Init => DataInv
<1> SUFFICES ASSUME Init PROVE DataInv
  OBVIOUS
<1>1. /\ hands = <<>> /\ rows = NoRows /\ saver = None /\ stats = NoStats /\ awake = <<>> /\ chain = "idle"
      /\ changed = FALSE /\ imported = FALSE
  BY DEF Init
<1>2. HandsInv(hands)
  BY <1>1, HandsAssumption DEF HandsInv
<1>3. RowsInv(rows, hands) /\ Complete(rows, hands)
  BY <1>1 DEF RowsInv, RowSets, NoRows, Complete, Stored
<1>4. AwakeInv(awake, hands)
  <2>1. awake \in Seq({})
    BY <1>1
  <2>. QED
    BY <2>1 DEF AwakeInv
<1>. QED
  BY <1>1, <1>2, <1>3, <1>4, NoStatsInv DEF DataInv, ChainInv
-----------------------------------------------------------------------------
(* What is read when no save is under way.                                 *)

LEMMA RowsOfReference ==
    ASSUME HandsInv(hands), RowsInv(rows, hands), Complete(rows, hands),
           TableHands(rows, hands, Table) \cap rows.lost = {}
    PROVE  ReadTableRows(rows, hands, Table) = Reference
<1> DEFINE stored == {id \in rows.hand : hands[id].tableName = Table}
           last == Max(stored)
           Of(name) == {id \in stored : name \in PlayersAt(hands[id])}
           Did(name, types) == {id \in Of(name) : \E a \in Range(hands[id].preflop) :
                                                    a.player = name /\ a.type \in types}
           Pct(name, types) == (100 * Cardinality(Did(name, types))) \div Cardinality(Of(name))
           RefRow(n) == [player |-> n, seat |-> SeatOf(hands[last], n), isHero |-> n \in rows.isHero,
                         vpip |-> Pct(n, {"call", "bet", "raise"}), pfr |-> Pct(n, {"raise"}),
                         nbHands |-> Cardinality(Of(n))]
<1>1. stored = TableHands(rows, hands, Table)
  BY DEF TableHands
<1>2. Reference = IF stored = {} THEN {} ELSE {RefRow(n) : n \in PlayersAt(hands[last])}
  BY DEF Reference
<1>3. stored \subseteq rows.handPlayer /\ \A id \in stored : rows.action[id] > 0
  <2>1. \A id \in rows.hand : id \in Ids
    BY DEF RowsInv, RowSets
  <2>. QED
    BY <1>1, <2>1 DEF Complete, Stored
<1>4. CASE stored = {}
  <2>1. LastHand(rows, hands, Table) = {}
    BY <1>1, <1>4, LastHandIsPlayed
  <2>. QED
    BY <1>2, <1>4, <2>1 DEF ReadTableRows
<1>5. CASE stored # {}
  <2>1. LastHand(rows, hands, Table) = {last} /\ last \in stored
    BY <1>1, <1>5, LastHandIsPlayed
  <2>2. last \in rows.hand /\ PlayersAt(hands[last]) \subseteq rows.player
    BY <2>1 DEF Complete, Stored
  <2>3. ReadTableRows(rows, hands, Table) =
          {TableRow(rows, hands, Table, last, n) : n \in PlayersAt(hands[last])}
    BY <1>3, <2>1, <2>2 DEF ReadTableRows
  <2>4. ASSUME NEW n PROVE TableRow(rows, hands, Table, last, n) = RefRow(n)
    <3> DEFINE all == PlayerHands(rows, hands, Table, n)
               With(types) == {id \in all : NbActions(rows, hands, id, n, types) > 0}
    <3>1. all = Of(n)
      BY <1>1, <1>3 DEF PlayerHands, TableHands
    <3>2. ASSUME NEW types PROVE With(types) = Did(n, types)
      <4>1. ASSUME NEW id \in all
            PROVE  NbActions(rows, hands, id, n, types) > 0 <=>
                     \E a \in Range(hands[id].preflop) : a.player = n /\ a.type \in types
        <5>1. id \in rows.hand /\ id \in DOMAIN hands /\ rows.action[id] > 0
          BY <1>3, <3>1, <4>1 DEF RowsInv
        <5>2. NbActions(rows, hands, id, n, types) > 0 <=> Acts(hands[id], n, types)
          BY <5>1, Acted
        <5>3. Acts(hands[id], n, types) <=>
                \E a \in Range(hands[id].preflop) : a.player = n /\ a.type \in types
          BY DEF Acts, Range
        <5>. QED
          BY <5>2, <5>3
      <4> HIDE DEF all
      <4>. QED
        BY <3>1, <4>1
    <3>3. TableRow(rows, hands, Table, last, n) =
            [player |-> n, seat |-> SeatOf(hands[last], n), isHero |-> n \in rows.isHero,
             vpip |-> Percent(Cardinality(With({"call", "bet", "raise"})), Cardinality(all)),
             pfr |-> Percent(Cardinality(With({"raise"})), Cardinality(all)),
             nbHands |-> Cardinality(all)]
      BY DEF TableRow, PlayerStatistics, Voluntary
    <3>4. /\ With({"call", "bet", "raise"}) = Did(n, {"call", "bet", "raise"})
          /\ With({"raise"}) = Did(n, {"raise"})
      BY <3>2
    <3> HIDE DEF all, With, Did, Of
    <3>. QED
      BY <3>1, <3>3, <3>4 DEF Percent
  <2> HIDE DEF RefRow, last
  <2>. QED
    BY <1>2, <1>5, <2>3, <2>4
<1>. QED
  BY <1>4, <1>5

\* Statistics that were read while no save was under way are those of the hands that
\* were stored, for any hands, however often their actions were stored, whatever saves
\* were committed or rolled back before and whatever games failed, but for hands of
\* the table whose rows a game that failed has left incomplete and no later save has
\* completed (sqlQueries.hpp:246-247, Database.cpp:299-305).
THEOREM StatisticsAreOfTheHands == Spec => StatsMatchHands
<1> DEFINE Step == /\ chain = "rows" /\ chain' \in {"notify", "idle"} /\ saver = None
                   /\ TableHands(rows, hands, Table) \cap rows.lost = {}
                   => stats'.rows = Reference
<1>1. DataInv /\ [Next]_vars => [Step]_vars
  <2> SUFFICES ASSUME DataInv, Next, chain = "rows", chain' \in {"notify", "idle"}, saver = None,
                      TableHands(rows, hands, Table) \cap rows.lost = {}
               PROVE  stats'.rows = Reference
    BY DEF Step
  <2>1. ReadRows
    BY DEF Next, Program, User, FileChanged, ReloadFile, Save, GameFails, End, ReadMaxSeats, Notify, PlayHand,
           Import, UpdateTablePlayerIndicators, MoveTable, Release, Drag, data
  <2>2. stats'.rows = ReadTableRows(rows, hands, Table)
    BY <2>1 DEF ReadRows, DataInv, StatsInv
  <2>. QED
    BY <2>2, RowsOfReference DEF DataInv
<1>2. Init => DataInv
  BY InitDataInv
<1>. QED
  BY <1>1, <1>2, NextDataInv, PTL DEF Spec, StatsMatchHands, Step
-----------------------------------------------------------------------------
(* The screen.                                                             *)

\* The window and the indicators are where windows and indicators can be, and the
\* user holds one that is there.
ScreenInv == /\ rect \in Rects
             /\ indicators \in [TableSeats -> PlayerIndicators \cup {None}]
             /\ drag \in TableSeats \cup {None}
             /\ drag # None => indicators[drag] # None

\* The inductive invariant.
IInv == DataInv /\ ScreenInv /\ OffsetIsKept /\ IndicatorsMatchStats

LEMMA NoneIsNoSeat == None \notin TableSeats /\ None \notin PlayerIndicators
<1>1. TableSeats \subseteq 1 .. SeatTen
  BY TableFacts DEF TableSizes, SeatTen
<1>. QED
  BY <1>1, NoneAssumption

\* Statistics that are shown are those of the seats of the table.
LEMMA SeatsOfStats ==
    ASSUME NEW h, NEW s, StatsInv(s, h), IsValid(s)
    PROVE  s.maxSeats = NbSeats /\ Seats(s) = TableSeats /\ \A row \in s.rows : row \in StatRows
BY TableFacts DEF StatsInv, IsValid, Seats, TableSizes, IsTableRow

\* What StatsInv says of the seat of the hero and of the seats that are drawn.
LEMMA HeroIsASeat == ASSUME NEW h, NEW s, StatsInv(s, h) PROVE GetHeroSeat(s) \in Nat
<1> DEFINE heroes == {row.seat : row \in {r \in s.rows : r.isHero}}
<1>1. heroes \in SUBSET Nat
  BY TableFacts DEF StatsInv, IsTableRow, StatRows
<1>2. CASE heroes = {}
  BY <1>2 DEF GetHeroSeat, SeatUnknown, SeatTen
<1>3. CASE heroes # {}
  <2>1. GetHeroSeat(s) = Min(heroes)
    BY <1>3 DEF GetHeroSeat
  <2> HIDE DEF heroes
  <2>. QED
    BY <1>1, <1>3, <2>1, MinElement
<1>. QED
  BY <1>2, <1>3

\* A seat whose rotation is a seat has a rotation that is a seat of its table.
LEMMA RotationIsASeat ==
    ASSUME NEW h, NEW s, StatsInv(s, h), IsValid(s), NEW seat \in TableSeats, seat \notin Throwing(s),
           NEW row \in s.rows, row.seat = seat
    PROVE  RotateRelativeToHero(seat, GetHeroSeat(s), NbSeats) \in 1 .. NbSeats
<1> DEFINE k == RotateRelativeToHero(seat, GetHeroSeat(s), NbSeats)
<1>1. NbSeats \in Nat \ {0} /\ seat \in 1 .. NbSeats /\ s.maxSeats = NbSeats
  BY TableFacts, SeatsOfStats DEF TableSizes, SeatTen
<1>2. k \in Int /\ k <= NbSeats
  BY <1>1, HeroIsASeat, RotationIsBounded
<1>3. k \in 1 .. SeatTen
  BY <1>1 DEF Throwing
<1> HIDE DEF k
<1>4. k \in 1 .. NbSeats
  BY <1>1, <1>2, <1>3 DEF SeatTen
<1>. QED
  BY <1>4 DEF k

LEMMA BaseIsAPoint ==
    ASSUME NEW h, NEW s, StatsInv(s, h), IsValid(s), rect \in Rects, NEW seat \in TableSeats,
           seat \notin Throwing(s), NEW row \in s.rows, row.seat = seat
    PROVE  BaseOf(seat, s) \in Points
<1>1. NbSeats \in TableSizes /\ s.maxSeats = NbSeats
  BY TableFacts, SeatsOfStats
<1>2. RotateRelativeToHero(seat, GetHeroSeat(s), NbSeats) \in 1 .. NbSeats
  BY RotationIsASeat
<1>. QED
  BY <1>1, <1>2, PositionsArePoints DEF BaseOf

\* The indicator of a row: at its base, moved by its offset.
IsShown(i, row, base) == /\ i \in PlayerIndicators /\ i.pos = Plus(base, i.offset) /\ i.base = base
                         /\ i.stats = row /\ i.player = row.player

LEMMA RowIsShown ==
    ASSUME NEW old \in PlayerIndicators \cup {None}, NEW row \in StatRows, NEW base \in Points
    PROVE  IsShown(IF old = None THEN Indicator(row, base) ELSE Update(old, row, base), row, base)
<1> DEFINE i == IF old = None THEN Indicator(row, base) ELSE Update(old, row, base)
<1>0. row.player \in Names
  BY DEF StatRows
<1>1. CASE old = None
  <2>1. i = [player |-> row.player, stats |-> row, base |-> base, pos |-> base,
             offset |-> [x |-> 0, y |-> 0]]
    BY <1>1 DEF Indicator
  <2>2. Plus(base, [x |-> 0, y |-> 0]) = base /\ [x |-> 0, y |-> 0] \in Points
    BY DEF Plus, Points
  <2> HIDE DEF i
  <2>3. i \in PlayerIndicators
    BY <1>0, <2>1, <2>2 DEF PlayerIndicators
  <2>4. /\ i.pos = base /\ i.base = base /\ i.offset = [x |-> 0, y |-> 0]
        /\ i.stats = row /\ i.player = row.player
    BY <2>1
  <2>. QED
    BY <2>2, <2>3, <2>4 DEF IsShown, i
<1>2. CASE old # None
  <2>1. old \in PlayerIndicators
    BY <1>2
  <2> DEFINE moved == Plus(base, old.offset)
             u == UpdateBasePosition(old, base)
  <2>2. moved \in Points /\ old.offset \in Points
    BY <2>1 DEF Plus, Points, PlayerIndicators
  <2>3. u = [[old EXCEPT !.base = base] EXCEPT !.pos = moved]
    BY DEF UpdateBasePosition
  <2>4. i = [[u EXCEPT !.player = row.player] EXCEPT !.stats = row]
    BY <1>2 DEF Update
  <2> HIDE DEF moved, u, i
  <2>5. u \in PlayerIndicators /\ u.base = base /\ u.pos = moved /\ u.offset = old.offset
    BY <2>1, <2>2, <2>3 DEF PlayerIndicators
  <2>6. /\ i \in PlayerIndicators /\ i.base = u.base /\ i.pos = u.pos /\ i.offset = u.offset
        /\ i.stats = row /\ i.player = row.player
    BY <1>0, <2>4, <2>5 DEF PlayerIndicators
  <2>. QED
    BY <2>5, <2>6 DEF IsShown, i, moved
<1>. QED
  BY <1>1, <1>2

LEMMA SeatIsShown ==
    ASSUME NEW h, NEW s, StatsInv(s, h), IsValid(s), ScreenInv, NEW seat \in TableSeats,
           seat \notin Throwing(s)
    PROVE  /\ (\E row \in s.rows : row.seat = seat) =>
                 \E row \in s.rows : /\ row.seat = seat
                                     /\ IsShown(Show(seat, s, BaseOf(seat, s)), row, BaseOf(seat, s))
           /\ ~(\E row \in s.rows : row.seat = seat) => Show(seat, s, BaseOf(seat, s)) = None
<1> DEFINE at == {r \in s.rows : r.seat = seat}
           row == CHOOSE r \in at : TRUE
           base == BaseOf(seat, s)
<1>1. CASE at = {}
  BY <1>1 DEF Show
<1>2. CASE at # {}
  <2>1. row \in s.rows /\ row.seat = seat
    BY <1>2
  <2>2. base \in Points /\ row \in StatRows
    BY <2>1, BaseIsAPoint, SeatsOfStats DEF ScreenInv
  <2>3. Show(seat, s, base) = IF indicators[seat] = None THEN Indicator(row, base)
                              ELSE Update(indicators[seat], row, base)
    BY <1>2 DEF Show
  <2>4. indicators[seat] \in PlayerIndicators \cup {None}
    BY DEF ScreenInv
  <2> HIDE DEF row, base
  <2>5. IsShown(Show(seat, s, base), row, base)
    BY <2>2, <2>3, <2>4, RowIsShown
  <2>. QED
    BY <2>1, <2>5 DEF base
<1>. QED
  BY <1>1, <1>2

\* What an update leaves at a seat: what was there, nothing, or the row of the seat.
\* The statistics were applied to the end when it is so at every seat.
IsUpdated(seat, new, s) == \/ new = None /\ ~\E row \in s.rows : row.seat = seat
                           \/ \E row \in s.rows : row.seat = seat /\ IsShown(new, row, BaseOf(seat, s))

LEMMA TableIsUpdated ==
    ASSUME DataInv, ScreenInv, UpdateTablePlayerIndicators, ~UNCHANGED screen
    PROVE  /\ indicators' = [seat \in TableSeats |-> indicators'[seat]] /\ UNCHANGED rect
           /\ \A seat \in TableSeats : \/ indicators'[seat] = indicators[seat]
                                       \/ IsUpdated(seat, indicators'[seat], Head(awake))
           /\ drag' = IF drag = None \/ indicators'[drag] = None THEN None ELSE drag
           /\ applied' \in {None, Head(awake)}
           /\ applied' # None => \A seat \in TableSeats : /\ seat \notin Throwing(Head(awake))
                                                          /\ IsUpdated(seat, indicators'[seat], Head(awake))
<1> DEFINE s == Head(awake)
           undone == {seat \in Seats(s) : \E t \in Throwing(s) : t <= seat}
           New(seat) == IF seat \in Seats(s) \ undone THEN Show(seat, s, BaseOf(seat, s))
                        ELSE indicators[seat]
<1>1. StatsInv(s, hands) /\ IsValid(s)
  BY AwakeTail DEF UpdateTablePlayerIndicators, DataInv
<1>2. /\ indicators' = [seat \in TableSeats |-> New(seat)] /\ UNCHANGED rect
      /\ drag' = IF drag = None \/ indicators'[drag] = None THEN None ELSE drag
      /\ applied' = IF undone = {} THEN s ELSE None
  BY DEF UpdateTablePlayerIndicators
<1>3. Seats(s) = TableSeats
  BY <1>1, SeatsOfStats
<1>4. ASSUME NEW seat \in TableSeats, seat \notin undone
      PROVE  New(seat) = Show(seat, s, BaseOf(seat, s)) /\ seat \notin Throwing(s)
  <2>1. seat <= seat
    BY TableFacts
  <2>. QED
    BY <1>3, <1>4, <2>1
<1>5. ASSUME NEW seat \in TableSeats, seat \in undone PROVE New(seat) = indicators[seat]
  BY <1>5
<1> HIDE DEF New, undone, s
<1>6. \A seat \in TableSeats : indicators'[seat] = New(seat)
  BY <1>2
<1>7. \A seat \in TableSeats : seat \notin undone => IsUpdated(seat, indicators'[seat], s)
  BY <1>1, <1>4, <1>6, SeatIsShown DEF IsUpdated
<1>8. \A seat \in TableSeats : seat \in undone => indicators'[seat] = indicators[seat]
  BY <1>5, <1>6
<1>9. applied' # None => undone = {} /\ applied' = s
  BY <1>2
<1>10. indicators' = [seat \in TableSeats |-> indicators'[seat]]
  BY <1>2
<1>. QED
  BY <1>2, <1>4, <1>7, <1>8, <1>9, <1>10 DEF s

LEMMA UpdateScreenInv ==
    ASSUME DataInv, ScreenInv, OffsetIsKept, UpdateTablePlayerIndicators, ~UNCHANGED screen
    PROVE  ScreenInv' /\ OffsetIsKept' /\ IndicatorsMatchStats'
<1> DEFINE s == Head(awake)
<1>1. StatsInv(s, hands) /\ IsValid(s)
  BY AwakeTail DEF UpdateTablePlayerIndicators, DataInv
<1>2. /\ indicators' = [seat \in TableSeats |-> indicators'[seat]] /\ UNCHANGED rect
      /\ \A seat \in TableSeats : \/ indicators'[seat] = indicators[seat]
                                  \/ IsUpdated(seat, indicators'[seat], s)
      /\ drag' = IF drag = None \/ indicators'[drag] = None THEN None ELSE drag
      /\ applied' \in {None, s}
      /\ applied' # None => \A seat \in TableSeats : IsUpdated(seat, indicators'[seat], s)
  BY TableIsUpdated
<1> HIDE DEF s
<1>3. ASSUME NEW seat \in TableSeats, NEW new, IsUpdated(seat, new, s)
      PROVE  /\ new \in PlayerIndicators \cup {None}
             /\ new # None => new.pos = Plus(new.base, new.offset)
  BY <1>3 DEF IsUpdated, IsShown
<1>4. ScreenInv'
  <2>1. \A seat \in TableSeats : indicators'[seat] \in PlayerIndicators \cup {None}
    BY <1>2, <1>3 DEF ScreenInv
  <2>2. indicators' \in [TableSeats -> PlayerIndicators \cup {None}]
    BY <1>2, <2>1
  <2>3. drag' \in TableSeats \cup {None} /\ (drag' # None => indicators'[drag'] # None)
    BY <1>2 DEF ScreenInv
  <2>. QED
    BY <1>2, <2>2, <2>3 DEF ScreenInv, TableSeats, PlayerIndicators, StatRows, Points, Names, Ids
<1>5. OffsetIsKept'
  <2>1. ASSUME NEW seat \in TableSeats \ {drag'}, indicators'[seat] # None
        PROVE  indicators'[seat].pos = Plus(indicators'[seat].base, indicators'[seat].offset)
    <3>1. CASE IsUpdated(seat, indicators'[seat], s)
      BY <1>3, <2>1, <3>1
    <3>2. CASE indicators'[seat] = indicators[seat]
      <4>1. seat # drag
        BY <1>2, <2>1, NoneIsNoSeat
      <4>. QED
        BY <2>1, <3>2, <4>1 DEF OffsetIsKept
    <3>. QED
      BY <1>2, <3>1, <3>2
  <2>. QED
    BY <2>1 DEF OffsetIsKept, TableSeats
<1>6. ASSUME applied' # None
      PROVE  /\ {indicators'[seat].stats : seat \in {t \in TableSeats : indicators'[t] # None}} = applied'.rows
             /\ \A seat \in TableSeats : indicators'[seat] # None =>
                   /\ indicators'[seat].stats.seat = seat
                   /\ indicators'[seat].player = indicators'[seat].stats.player
  <2>1. applied' = s /\ \A seat \in TableSeats : IsUpdated(seat, indicators'[seat], s)
    BY <1>2, <1>6
  <2>2. ASSUME NEW seat \in TableSeats, indicators'[seat] # None
        PROVE  /\ indicators'[seat].stats \in s.rows /\ indicators'[seat].stats.seat = seat
               /\ indicators'[seat].player = indicators'[seat].stats.player
    BY <2>1, <2>2 DEF IsUpdated, IsShown
  <2>3. ASSUME NEW row \in s.rows
        PROVE  \E seat \in TableSeats : indicators'[seat] # None /\ indicators'[seat].stats = row
    <3>1. row.seat \in TableSeats
      BY <1>1, SeatsOfStats DEF StatRows
    <3>2. PICK other \in s.rows : other.seat = row.seat
                                  /\ IsShown(indicators'[row.seat], other, BaseOf(row.seat, s))
      BY <2>1, <3>1 DEF IsUpdated
    <3>3. other = row
      BY <1>1, <3>2 DEF StatsInv
    <3>. QED
      BY <3>1, <3>2, <3>3, NoneIsNoSeat DEF IsShown
  <2>. QED
    BY <2>1, <2>2, <2>3
<1>7. IndicatorsMatchStats'
  BY <1>6 DEF IndicatorsMatchStats, TableSeats
<1>. QED
  BY <1>4, <1>5, <1>7

\* The user moves an indicator or lets it go: it keeps its player and its statistics.
LEMMA MovedIndicator ==
    ASSUME ScreenInv, IndicatorsMatchStats, UNCHANGED applied,
           indicators' = [seat \in TableSeats |-> indicators'[seat]],
           \A seat \in TableSeats :
              /\ indicators'[seat] = None <=> indicators[seat] = None
              /\ indicators[seat] # None => /\ indicators'[seat].player = indicators[seat].player
                                            /\ indicators'[seat].stats = indicators[seat].stats
    PROVE  IndicatorsMatchStats'
<1> SUFFICES ASSUME applied # None
             PROVE  /\ {indicators'[seat].stats : seat \in {t \in TableSeats : indicators'[t] # None}}
                         = applied.rows
                    /\ \A seat \in TableSeats : indicators'[seat] # None =>
                          /\ indicators'[seat].stats.seat = seat
                          /\ indicators'[seat].player = indicators'[seat].stats.player
  BY DEF IndicatorsMatchStats, TableSeats
<1>1. {indicators'[seat].stats : seat \in {t \in TableSeats : indicators'[t] # None}}
         = {indicators[seat].stats : seat \in {t \in TableSeats : indicators[t] # None}}
  OBVIOUS
<1>. QED
  BY <1>1 DEF IndicatorsMatchStats

LEMMA DragInv ==
    ASSUME ScreenInv, OffsetIsKept, IndicatorsMatchStats, NEW seat \in TableSeats, Drag(seat)
    PROVE  ScreenInv' /\ OffsetIsKept' /\ IndicatorsMatchStats'
<1> DEFINE old == indicators[seat]
<1>1. PICK drop \in Drops : indicators' = [indicators EXCEPT ![seat] = [old EXCEPT !.pos = drop]]
  BY DEF Drag
<1>2. /\ old \in PlayerIndicators /\ drag \in {None, seat} /\ drag' = seat
      /\ UNCHANGED <<rect, applied>>
  BY DEF Drag, ScreenInv
<1>3. drop \in Points
  BY ScreenAssumption DEF Points
<1>4. /\ indicators'[seat] = [old EXCEPT !.pos = drop]
      /\ \A other \in TableSeats \ {seat} : indicators'[other] = indicators[other]
      /\ indicators' = [other \in TableSeats |-> indicators'[other]]
  BY <1>1 DEF ScreenInv
<1>5. /\ indicators'[seat] \in PlayerIndicators /\ indicators'[seat] # None /\ old # None
      /\ indicators'[seat].player = old.player /\ indicators'[seat].stats = old.stats
  <2> HIDE DEF old
  <2>. QED
    BY <1>2, <1>3, <1>4, NoneIsNoSeat DEF PlayerIndicators
<1>6. indicators' \in [TableSeats -> PlayerIndicators \cup {None}]
  BY <1>4, <1>5 DEF ScreenInv
<1>7. ScreenInv'
  BY <1>2, <1>5, <1>6 DEF ScreenInv, TableSeats, PlayerIndicators, StatRows, Points, Names, Ids
<1>8. OffsetIsKept'
  <2>1. \A other \in TableSeats \ {seat} : other # drag
    BY <1>2, NoneIsNoSeat
  <2>. QED
    BY <1>2, <1>4, <2>1 DEF OffsetIsKept, TableSeats
<1>9. IndicatorsMatchStats'
  BY <1>2, <1>4, <1>5, MovedIndicator
<1>. QED
  BY <1>7, <1>8, <1>9

LEMMA ReleaseInv ==
    ASSUME ScreenInv, OffsetIsKept, IndicatorsMatchStats, Release
    PROVE  ScreenInv' /\ OffsetIsKept' /\ IndicatorsMatchStats'
<1> DEFINE old == indicators[drag]
           offset == Minus(old.pos, old.base)
<1>1. /\ drag \in TableSeats /\ drag' = None /\ UNCHANGED <<rect, applied>>
      /\ indicators' = [indicators EXCEPT ![drag] = [old EXCEPT !.offset = offset]]
  BY DEF Release, ScreenInv
<1>2. /\ indicators'[drag] = [old EXCEPT !.offset = offset]
      /\ \A other \in TableSeats \ {drag} : indicators'[other] = indicators[other]
      /\ indicators' = [other \in TableSeats |-> indicators'[other]]
  BY <1>1 DEF ScreenInv
<1>3. old \in PlayerIndicators
  BY DEF Release, ScreenInv
<1> HIDE DEF old
<1>4. offset \in Points /\ Plus(old.base, offset) = old.pos
  BY <1>3 DEF PlayerIndicators, Points, Plus, Minus
<1> HIDE DEF offset
<1>5. /\ indicators'[drag] \in PlayerIndicators /\ indicators'[drag] # None /\ old # None
      /\ indicators'[drag].pos = Plus(indicators'[drag].base, indicators'[drag].offset)
      /\ indicators'[drag].player = old.player /\ indicators'[drag].stats = old.stats
  BY <1>2, <1>3, <1>4, NoneIsNoSeat DEF PlayerIndicators
<1>6. indicators' \in [TableSeats -> PlayerIndicators \cup {None}]
  BY <1>2, <1>5 DEF ScreenInv
<1>7. ScreenInv'
  BY <1>1, <1>6 DEF ScreenInv, TableSeats, PlayerIndicators, StatRows, Points, Names, Ids
<1>8. OffsetIsKept'
  BY <1>1, <1>2, <1>5 DEF OffsetIsKept, TableSeats
<1>9. IndicatorsMatchStats'
  <2>1. \A seat \in TableSeats :
          /\ indicators'[seat] = None <=> indicators[seat] = None
          /\ indicators[seat] # None => /\ indicators'[seat].player = indicators[seat].player
                                        /\ indicators'[seat].stats = indicators[seat].stats
    BY <1>2, <1>5 DEF old
  <2>. QED
    BY <1>1, <1>2, <2>1, MovedIndicator
<1>. QED
  BY <1>7, <1>8, <1>9
-----------------------------------------------------------------------------
LEMMA InitIInv == Init => IInv
<1> SUFFICES ASSUME Init PROVE IInv
  OBVIOUS
<1>1. ScreenInv
  BY DEF Init, ScreenInv
<1>2. OffsetIsKept /\ IndicatorsMatchStats
  BY DEF Init, OffsetIsKept, IndicatorsMatchStats
<1>. QED
  BY <1>1, <1>2, InitDataInv DEF IInv

LEMMA NextIInv == IInv /\ [Next]_vars => IInv'
<1> SUFFICES ASSUME IInv, [Next]_vars PROVE IInv'
  OBVIOUS
<1>1. DataInv'
  BY NextDataInv DEF IInv
<1>2. CASE UNCHANGED <<indicators, drag, applied>> /\ rect' \in Rects
  <2>1. ScreenInv'
    BY <1>2 DEF IInv, ScreenInv, TableSeats, PlayerIndicators, StatRows, Points, Names, Ids
  <2>2. OffsetIsKept' /\ IndicatorsMatchStats'
    BY <1>2 DEF IInv, OffsetIsKept, IndicatorsMatchStats, TableSeats
  <2>. QED
    BY <1>1, <2>1, <2>2 DEF IInv
<1>3. CASE UNCHANGED screen
  BY <1>2, <1>3 DEF screen, IInv, ScreenInv
<1>4. CASE UpdateTablePlayerIndicators
  BY <1>1, <1>3, <1>4, UpdateScreenInv DEF IInv
<1>5. CASE Release
  BY <1>1, <1>5, ReleaseInv DEF IInv
<1>6. CASE \E seat \in TableSeats : Drag(seat)
  BY <1>1, <1>6, DragInv DEF IInv
<1>7. CASE MoveTable
  BY <1>2, <1>7 DEF MoveTable
<1>8. CASE FileChanged \/ ReloadFile \/ Save \/ GameFails \/ End \/ ReadMaxSeats \/ ReadRows \/ Notify \/ PlayHand \/ Import
  BY <1>3, <1>8 DEF FileChanged, ReloadFile, Save, GameFails, End, ReadMaxSeats, ReadRows, Notify, PlayHand, Import
<1>9. CASE UNCHANGED vars
  BY <1>3, <1>9 DEF vars
<1>. QED
  BY <1>4, <1>5, <1>6, <1>7, <1>8, <1>9 DEF Next, Program, User

\* An indicator that the user does not hold stands where its seat is, moved by what
\* the user moved it, whatever statistics come, in any order, for any table
\* (PlayerIndicator.cpp updateBasePosition, DragAndDropWindow.hpp handle).
THEOREM OffsetsAreKept == Spec => []OffsetIsKept
<1>1. IInv => OffsetIsKept
  BY DEF IInv
<1>. QED
  BY <1>1, InitIInv, NextIInv, PTL DEF Spec

\* Once statistics were applied to the end, the indicators are those of their rows,
\* one for each row and at its seat, and no other is left, whatever was shown before
\* and wherever the user moved it (GuiFltk.cpp:312-345).
THEOREM IndicatorsAreOfTheStats == Spec => []IndicatorsMatchStats
<1>1. IInv => IndicatorsMatchStats
  BY DEF IInv
<1>. QED
  BY <1>1, InitIInv, NextIInv, PTL DEF Spec

\* The rows, a save at any of its steps, what waits and what is shown are what they
\* can be: no percentage is beyond 100 or above that of the hands it is a part of, no
\* player has more hands than were played, no two share a seat, whatever the saves
\* left in the tables when the queries ran (PlayerStatistics.hpp:90).
THEOREM IndicatorsTypes == Spec => []TypeOK
<1> DEFINE Flags == aborted \in BOOLEAN /\ asserts \in BOOLEAN
<1>1. Init => Flags
  BY DEF Init
<1>2. Flags /\ [Next]_vars => Flags'
  BY DEF Next, Program, User, FileChanged, ReloadFile, Save, GameFails, End, ReadMaxSeats, ReadRows, Notify, PlayHand,
         Import, UpdateTablePlayerIndicators, MoveTable, Release, Drag, vars
<1>3. IInv /\ Flags => TypeOK
  <2> SUFFICES ASSUME IInv, Flags PROVE TypeOK
    OBVIOUS
  <2> HIDE DEF Flags
  <2>1. DataInv /\ ScreenInv
    BY DEF IInv
  <2>2. Cardinality(TableSeats) = NbSeats
    <3>1. 1 \in Int /\ NbSeats \in Int /\ NbSeats >= 1 /\ TableSeats = 1 .. NbSeats
      BY TableFacts DEF TableSizes
    <3>2. Cardinality(1 .. NbSeats) = IF 1 > NbSeats THEN 0 ELSE NbSeats - 1 + 1
      BY <3>1, FS_Interval, Zenon
    <3>. QED
      BY <3>1, <3>2
  <2>3. \A s : StatsInv(s, hands) => IsStats(s)
    BY <2>2 DEF StatsInv, IsStats, IsTableRow, IsRow
  <2>4. \A s \in Range(awake) : IsStats(s) /\ IsValid(s)
    <3>1. PICK S : awake \in Seq(S) /\ \A s \in S : StatsInv(s, hands) /\ IsValid(s)
      BY <2>1 DEF DataInv, AwakeInv
    <3>2. \A s \in Range(awake) : s \in S
      BY <3>1 DEF Range
    <3>. QED
      BY <2>3, <3>1, <3>2
  <2>5. rows.handPlayer \subseteq rows.hand
    BY <2>1 DEF DataInv, Complete, Saved, Stored
  <2>6. saver \in Saves \cup {None}
    BY <2>1 DEF DataInv, SaverInv
  <2>7. chain \in {"idle", "parse", "save", "maxSeats", "rows", "notify"}
        /\ (chain = "save" => saver # None /\ saver.who = "chain")
    BY <2>1 DEF DataInv, ChainInv
  <2>8. IsStats(stats)
    BY <2>1, <2>3 DEF DataInv
  <2>9. /\ hands \in Seq(Deals) /\ Len(hands) <= MaxHands /\ changed \in BOOLEAN /\ imported \in BOOLEAN
        /\ rows \in RowSets /\ rows.hand \subseteq DOMAIN hands /\ rows.isHero \subseteq rows.player
    BY <2>1 DEF DataInv, HandsInv, RowsInv
  <2>10. /\ rect \in Rects /\ indicators \in [TableSeats -> PlayerIndicators \cup {None}]
         /\ drag \in TableSeats \cup {None} /\ (drag # None => indicators[drag] # None)
    BY <2>1 DEF ScreenInv
  <2>11. aborted \in BOOLEAN /\ asserts \in BOOLEAN
    BY DEF Flags
  <2>. QED
    BY <2>4, <2>5, <2>6, <2>7, <2>8, <2>9, <2>10, <2>11 DEF TypeOK
<1>. QED
  BY <1>1, <1>2, <1>3, InitIInv, NextIInv, PTL DEF Spec
-----------------------------------------------------------------------------
(* The seat of the hero.                                                   *)

\* Windows where an eighth of a side is a pixel at least.
Visible == \A r \in Rects : r.w >= 8 /\ r.h >= 8

LEMMA EighthIsAPixel ==
    ASSUME NEW a \in Int, NEW b \in Int, NEW w \in Int, a - b >= 1250, w >= 8
    PROVE  (a * w) \div 10000 > (b * w) \div 10000
<1>1. w * (a - b) >= w * 1250
  BY Multiples
<1>2. w * (a - b) = a * w - b * w
  OBVIOUS
<1>3. \A p, q \in Int : p - q >= 10000 => p \div 10000 > q \div 10000
  OBVIOUS
<1>4. a * w \in Int /\ b * w \in Int
  OBVIOUS
<1>. QED
  BY <1>1, <1>2, <1>3, <1>4

LEMMA BasesAreApart ==
    ASSUME Visible, NEW n \in TableSizes, NEW k \in 1 .. n, NEW m \in 1 .. n, k # m, NEW r \in Rects
    PROVE  /\ BuildPlayerIndicatorPosition(k, n, r) # BuildPlayerIndicatorPosition(m, n, r)
           /\ n \notin {7, 8} /\ k = 1 =>
                BuildPlayerIndicatorPosition(k, n, r).y > BuildPlayerIndicatorPosition(m, n, r).y
<1> DEFINE c == Coefficients[n][k]
           e == Coefficients[n][m]
           p == BuildPlayerIndicatorPosition(k, n, r)
           q == BuildPlayerIndicatorPosition(m, n, r)
           X(a) == (a.x * r.w) \div 10000
           Y(a) == (a.y * r.h) \div 10000
<1>1. /\ r.x \in Int /\ r.y \in Int /\ r.w \in Int /\ r.h \in Int /\ r.w >= 8 /\ r.h >= 8
      /\ c.x \in Int /\ c.y \in Int /\ e.x \in Int /\ e.y \in Int
  BY ScreenAssumption, CoefficientsAreIntegers DEF Visible
<1>2. Apart(c, e) /\ (n \notin {7, 8} /\ k = 1 => c.y - e.y >= 1250)
  BY CoefficientsAreApart
<1>3. /\ p.x = r.x + X(c) /\ p.y = r.y + Y(c)
      /\ q.x = r.x + X(e) /\ q.y = r.y + Y(e)
  BY DEF BuildPlayerIndicatorPosition
<1> HIDE DEF c, e, p, q
<1>4. /\ c.x - e.x >= 1250 => X(c) > X(e)
      /\ e.x - c.x >= 1250 => X(e) > X(c)
      /\ c.y - e.y >= 1250 => Y(c) > Y(e)
      /\ e.y - c.y >= 1250 => Y(e) > Y(c)
  BY <1>1, EighthIsAPixel
<1>5. X(c) \in Int /\ X(e) \in Int /\ Y(c) \in Int /\ Y(e) \in Int
  <2>1. \A a, b \in Int : (a * b) \div 10000 \in Int
    OBVIOUS
  <2>. QED
    BY <1>1, <2>1
<1> HIDE DEF X, Y
<1>6. X(c) # X(e) \/ Y(c) # Y(e)
  BY <1>2, <1>4, <1>5 DEF Apart
<1>7. p.x # q.x \/ p.y # q.y
  <2>1. \A u, v, z \in Int : v # z => u + v # u + z
    OBVIOUS
  <2>. QED
    BY <1>1, <1>3, <1>5, <1>6, <2>1, Zenon
<1>8. n \notin {7, 8} /\ k = 1 => p.y > q.y
  BY <1>1, <1>2, <1>3, <1>4, <1>5
<1>. QED
  BY <1>7, <1>8 DEF p, q

\* Whatever the seat of the hero, no two seats of a table become the same one, and
\* that of the hero becomes seat one.
LEMMA RotationIsInjective ==
    ASSUME NEW n \in Nat \ {0}, NEW hero \in Int, NEW s \in 1 .. n, NEW t \in 1 .. n, s # t
    PROVE  /\ RotateRelativeToHero(s, hero, n) # RotateRelativeToHero(t, hero, n)
           /\ hero = s => RotateRelativeToHero(s, hero, n) = 1
<1>1. ASSUME NEW a \in Int PROVE \E q \in Int : a = n * q + CppMod(a, n)
  <2>1. CASE a >= 0
    <3>1. a = n * (a \div n) + (a % n) /\ a \div n \in Int
      OBVIOUS
    <3>. QED
      BY <2>1, <3>1 DEF CppMod
  <2>2. CASE a < 0
    <3>1. -a = n * ((-a) \div n) + ((-a) % n) /\ (-a) \div n \in Int
      OBVIOUS
    <3> DEFINE d == (-a) \div n
    <3>2. n * (-d) = -(n * d)
      BY <3>1
    <3>3. CppMod(a, n) = -((-a) % n) /\ (-a) % n \in Int
      BY <2>2 DEF CppMod
    <3> HIDE DEF d
    <3>4. a = n * (-d) + CppMod(a, n)
      BY <3>1, <3>2, <3>3 DEF d
    <3>5. -d \in Int
      BY <3>1 DEF d
    <3>. QED
      BY <3>4, <3>5
  <2>. QED
    BY <2>1, <2>2
<1>2. \A c \in Int : n * c # 0 => n * c >= n \/ n * c <= -n
  <2> SUFFICES ASSUME NEW c \in Int, n * c # 0 PROVE n * c >= n \/ n * c <= -n
    OBVIOUS
  <2>1. c >= 1 \/ c <= -1
    OBVIOUS
  <2>2. c >= 1 => n * c >= n * 1
    BY Multiples
  <2>3. c <= -1 => n * c <= n * (-1)
    BY Multiples
  <2>. QED
    BY <2>1, <2>2, <2>3
<1> DEFINE a == s - 1 + (n - hero + 1)
           b == t - 1 + (n - hero + 1)
<1>3. CppMod(a, n) # CppMod(b, n)
  <2>1. a \in Int /\ b \in Int /\ a - b = s - t
    OBVIOUS
  <2> HIDE DEF a, b
  <2>2. PICK q \in Int : a = n * q + CppMod(a, n)
    BY <1>1, <2>1
  <2>3. PICK r \in Int : b = n * r + CppMod(b, n)
    BY <1>1, <2>1
  <2> SUFFICES ASSUME CppMod(a, n) = CppMod(b, n) PROVE FALSE
    OBVIOUS
  <2>4. CppMod(a, n) \in Int
    BY <2>1 DEF CppMod
  <2>5. n * (q - r) = n * q - n * r
    OBVIOUS
  <2>6. n * (q - r) = s - t
    BY <2>1, <2>2, <2>3, <2>4, <2>5
  <2>. QED
    BY <1>2, <2>6
<1>4. CppMod(n, n) = 0
  <2>1. n % n = 0
    OBVIOUS
  <2>. QED
    BY <2>1 DEF CppMod
<1>5. CppMod(a, n) \in Int /\ CppMod(b, n) \in Int
  BY DEF CppMod
<1>6. /\ RotateRelativeToHero(s, hero, n) = IF hero = 1 THEN s ELSE CppMod(a, n) + 1
      /\ RotateRelativeToHero(t, hero, n) = IF hero = 1 THEN t ELSE CppMod(b, n) + 1
  BY DEF RotateRelativeToHero, Rotated
<1>7. hero = s => a = n
  OBVIOUS
<1> HIDE DEF a, b
<1>. QED
  BY <1>3, <1>4, <1>5, <1>6, <1>7

\* At the table never sit two players who were dealt cards in hands of theirs.
Heroes == {d.dealt : d \in Deals}
OneHero == \A d \in Deals : d.tableName = Table => \A a, b \in PlayersAt(d) \cap Heroes : a = b

\* So one row at most is that of a hero, in statistics that were read at any time.
OneHeroRow(r) == \A row, other \in r : row.isHero /\ other.isHero => row = other
HeroInv == /\ rows.isHero \subseteq Heroes
           /\ saver # None => saver.before.isHero \subseteq Heroes
           /\ OneHeroRow(stats.rows)
           /\ \E S : awake \in Seq(S) /\ \A s \in S : OneHeroRow(s.rows)

LEMMA HeroRowIsRead ==
    ASSUME OneHero, NEW h, HandsInv(h), NEW r, RowsInv(r, h), r.isHero \subseteq Heroes
    PROVE  OneHeroRow(ReadTableRows(r, h, Table))
<1> DEFINE Read(row, last, name) ==
             /\ last \in LastHand(r, h, Table) /\ last \in r.handPlayer
             /\ name \in PlayersAt(h[last]) /\ row = TableRow(r, h, Table, last, name)
<1> SUFFICES ASSUME NEW row \in ReadTableRows(r, h, Table), NEW other \in ReadTableRows(r, h, Table),
                    row.isHero, other.isHero
             PROVE  row = other
  BY DEF OneHeroRow
<1>1. PICK last, name : Read(row, last, name)
  BY DEF ReadTableRows
<1>2. PICK last2, name2 : Read(other, last2, name2)
  BY DEF ReadTableRows
<1>3. last = last2 /\ h[last] \in Deals /\ h[last].tableName = Table
  BY <1>1, <1>2, LastHandFacts
<1>4. row.isHero = (name \in r.isHero) /\ other.isHero = (name2 \in r.isHero)
  BY <1>1, <1>2 DEF TableRow, PlayerStatistics
<1>5. name \in PlayersAt(h[last]) \cap Heroes /\ name2 \in PlayersAt(h[last]) \cap Heroes
  BY <1>1, <1>2, <1>3, <1>4
<1>6. name = name2
  BY <1>3, <1>5 DEF OneHero
<1>. QED
  BY <1>1, <1>2, <1>3, <1>6

LEMMA HeroAppend ==
    ASSUME HeroInv PROVE \E S : Append(awake, stats) \in Seq(S) /\ \A s \in S : OneHeroRow(s.rows)
<1>1. PICK S : awake \in Seq(S) /\ \A s \in S : OneHeroRow(s.rows)
  BY DEF HeroInv
<1>2. awake \in Seq(S \cup {stats}) /\ stats \in S \cup {stats}
  BY <1>1
<1>3. Append(awake, stats) \in Seq(S \cup {stats})
  BY <1>2
<1>. QED
  BY <1>1, <1>3 DEF HeroInv

LEMMA HeroTail ==
    ASSUME HeroInv, awake # <<>>
    PROVE  OneHeroRow(Head(awake).rows) /\ \E S : Tail(awake) \in Seq(S) /\ \A s \in S : OneHeroRow(s.rows)
<1>1. PICK S : awake \in Seq(S) /\ \A s \in S : OneHeroRow(s.rows)
  BY DEF HeroInv
<1>2. Head(awake) \in S /\ Tail(awake) \in Seq(S)
  BY <1>1
<1>. QED
  BY <1>1, <1>2

LEMMA InsertHero ==
    ASSUME DataInv, rows.isHero \subseteq Heroes, NEW ids \in SUBSET DOMAIN hands,
           NEW step \in {"player", "hand", "handPlayer", "action"}
    PROVE  Insert(step, ids).isHero \subseteq Heroes
<1> DEFINE names == UNION {PlayersAt(hands[id]) : id \in ids}
           dealt == {hands[id].dealt : id \in ids}
<1>1. rows \in RowSets
  BY DEF DataInv, RowsInv
<1>2. dealt \subseteq Heroes
  BY <1>1, HandsFacts DEF Heroes, DataInv
<1>3. CASE step = "player"
  <2>1. Insert(step, ids) = [rows EXCEPT !.player = rows.player \cup names,
                             !.isHero = rows.isHero \cup ((dealt \cap names) \ rows.player)]
    BY <1>3 DEF Insert
  <2> HIDE DEF names, dealt
  <2>2. Insert(step, ids).isHero = rows.isHero \cup ((dealt \cap names) \ rows.player)
    BY <1>1, <2>1 DEF RowSets
  <2>. QED
    BY <1>2, <2>2
<1>4. CASE step = "hand"
  BY <1>1, <1>4 DEF Insert, RowSets
<1>5. CASE step = "handPlayer"
  BY <1>1, <1>5 DEF Insert, RowSets
<1>6. CASE step = "action"
  <2> DEFINE action == [id \in Ids |-> rows.action[id] + IF id \in ids THEN 1 ELSE 0]
  <2>1. Insert(step, ids) = [rows EXCEPT !.action = action, !.lost = rows.lost \ ids]
    BY <1>6 DEF Insert
  <2> HIDE DEF action
  <2>. QED
    BY <1>1, <2>1 DEF RowSets
<1>. QED
  BY <1>3, <1>4, <1>5, <1>6

LEMMA NextHeroInv == ASSUME OneHero, DataInv, HeroInv, [Next]_vars PROVE HeroInv'
<1> DEFINE Awake(a) == \E S : a \in Seq(S) /\ \A s \in S : OneHeroRow(s.rows)
<1>1. /\ rows.isHero \subseteq Heroes /\ (saver # None => saver.before.isHero \subseteq Heroes)
      /\ OneHeroRow(stats.rows) /\ Awake(awake) /\ OneHeroRow(NoStats.rows)
  BY DEF HeroInv, OneHeroRow, NoStats
<1>2. SUFFICES /\ rows'.isHero \subseteq Heroes /\ (saver' # None => saver'.before.isHero \subseteq Heroes)
               /\ OneHeroRow(stats'.rows) /\ Awake(awake')
  BY DEF HeroInv, Heroes
<1> HIDE DEF Awake
<1>3. CASE UNCHANGED <<rows, saver, stats, awake>>
  BY <1>1, <1>3
<1>4. CASE FileChanged
  <2>1. UNCHANGED rows /\ stats' = NoStats
        /\ saver' = IF saver # None /\ saver.who = "chain" THEN [saver EXCEPT !.who = "dropped"] ELSE saver
    BY <1>4 DEF FileChanged
  <2>2. saver' # None => saver # None /\ saver'.before = saver.before
    BY <2>1 DEF DataInv, SaverInv, Saves
  <2>3. Awake(awake')
    BY <1>1, <1>4, HeroAppend DEF FileChanged, Awake
  <2>. QED
    BY <1>1, <2>1, <2>2, <2>3
<1>5. CASE ReloadFile \/ Import
  <2>1. UNCHANGED <<rows, stats, awake>> /\ (UNCHANGED saver \/ saver'.before = rows)
    BY <1>5 DEF ReloadFile, Import, Begin
  <2>. QED
    BY <1>1, <2>1
<1>6. CASE Save
  <2>1. /\ saver # None /\ saver.step \in {"player", "hand", "handPlayer", "action"}
        /\ rows' = Insert(saver.step, saver.ids) /\ UNCHANGED <<stats, awake>>
        /\ saver' = [saver EXCEPT !.step = NextStep[saver.step]]
    BY <1>6 DEF Save, DataInv, SaverInv, Saves
  <2>2. saver'.before = saver.before
    BY <2>1 DEF DataInv, SaverInv, Saves
  <2>3. rows'.isHero \subseteq Heroes
    <3>1. saver.ids \subseteq DOMAIN hands
      BY <2>1 DEF DataInv, SaverInv
    <3>. QED
      BY <1>1, <2>1, <3>1, InsertHero
  <2>. QED
    BY <1>1, <2>1, <2>2, <2>3
<1>13. CASE GameFails
  <2>1. rows'.isHero = rows.isHero
    <3>1. PICK done : \E lost : rows' = [Insert("action", done) EXCEPT !.lost = lost]
      BY <1>13 DEF GameFails
    <3>2. rows \in RowSets
      BY DEF DataInv, RowsInv
    <3>3. Insert("action", done).isHero = rows.isHero
      <4> DEFINE action == [id \in Ids |-> rows.action[id] + IF id \in done THEN 1 ELSE 0]
      <4>1. Insert("action", done) = [rows EXCEPT !.action = action, !.lost = rows.lost \ done]
        BY DEF Insert
      <4> HIDE DEF action
      <4>. QED
        BY <3>2, <4>1 DEF RowSets
    <3>. QED
      BY <3>1, <3>3
  <2>2. saver # None /\ saver'.before = saver.before /\ UNCHANGED <<stats, awake>>
    BY <1>13 DEF GameFails, DataInv, SaverInv, Saves
  <2>. QED
    BY <1>1, <2>1, <2>2
<1>7. CASE End
  BY <1>1, <1>7 DEF End
<1>8. CASE ReadMaxSeats
  <2>1. stats'.rows = {} /\ UNCHANGED <<rows, saver, awake>>
    BY <1>8 DEF ReadMaxSeats, NoStats
  <2>. QED
    BY <1>1, <2>1 DEF OneHeroRow
<1>9. CASE ReadRows
  <2>1. stats'.rows = ReadTableRows(rows, hands, Table) /\ UNCHANGED <<rows, saver, awake>>
    BY <1>9 DEF ReadRows, DataInv, StatsInv
  <2>. QED
    BY <1>1, <2>1, HeroRowIsRead DEF DataInv
<1>10. CASE Notify
  BY <1>1, <1>10, HeroAppend DEF Notify, Awake
<1>11. CASE UpdateTablePlayerIndicators
  <2>1. awake # <<>> /\ awake' = Tail(awake) /\ UNCHANGED <<rows, saver, stats>>
    BY <1>11 DEF UpdateTablePlayerIndicators, data
  <2>. QED
    BY <1>1, <2>1, HeroTail DEF Awake
<1>12. CASE PlayHand \/ MoveTable \/ Release \/ (\E seat \in TableSeats : Drag(seat)) \/ UNCHANGED vars
  BY <1>3, <1>12 DEF PlayHand, MoveTable, Release, Drag, vars, data
<1>. QED
  BY <1>4, <1>5, <1>6, <1>7, <1>8, <1>9, <1>10, <1>11, <1>12, <1>13 DEF Next, Program, User

\* The seat of the hero, when a row is that of a hero.
LEMMA HeroSeatIsThere ==
    ASSUME NEW h, NEW s, StatsInv(s, h), OneHeroRow(s.rows), NEW row \in s.rows, row.isHero
    PROVE  GetHeroSeat(s) = row.seat
<1> DEFINE heroes == {r.seat : r \in {q \in s.rows : q.isHero}}
<1>1. heroes = {row.seat}
  BY DEF OneHeroRow
<1>2. row.seat \in Nat
  BY TableFacts DEF StatsInv, IsTableRow, StatRows
<1>3. Min({row.seat}) \in {row.seat}
  BY <1>2, MinElement
<1>4. GetHeroSeat(s) = Min(heroes)
  BY <1>1 DEF GetHeroSeat
<1> HIDE DEF heroes
<1>. QED
  BY <1>1, <1>3, <1>4

LEMMA UpdatedBases ==
    ASSUME OneHero, Visible, NbSeats \notin {7, 8}, DataInv, HeroInv, ScreenInv,
           UpdateTablePlayerIndicators, ~UNCHANGED screen
    PROVE  HeroAtTheBottom'
<1> DEFINE st == Head(awake)
           Rot(seat) == RotateRelativeToHero(seat, GetHeroSeat(st), NbSeats)
           Place(k) == BuildPlayerIndicatorPosition(k, NbSeats, rect)
<1>1. StatsInv(st, hands) /\ IsValid(st) /\ OneHeroRow(st.rows)
  BY AwakeTail, HeroTail DEF UpdateTablePlayerIndicators, DataInv
<1>2. st.maxSeats = NbSeats /\ NbSeats \in TableSizes /\ NbSeats \in Nat \ {0} /\ TableSeats = 1 .. NbSeats
      /\ GetHeroSeat(st) \in Int /\ rect \in Rects
  BY <1>1, SeatsOfStats, TableFacts, HeroIsASeat DEF TableSizes, SeatTen, ScreenInv
<1>3. SUFFICES ASSUME applied' # None, NEW s \in TableSeats, NEW t \in TableSeats, s # t,
                      None \notin {indicators'[s], indicators'[t]}
               PROVE  /\ indicators'[s].base # indicators'[t].base
                      /\ indicators'[s].stats.isHero /\ ~indicators'[t].stats.isHero =>
                            indicators'[s].base.y > indicators'[t].base.y
  BY DEF HeroAtTheBottom, TableSeats
<1>4. ASSUME NEW seat \in TableSeats, indicators'[seat] # None
      PROVE  /\ Rot(seat) \in 1 .. NbSeats /\ indicators'[seat].base = Place(Rot(seat))
             /\ indicators'[seat].stats.isHero => GetHeroSeat(st) = seat
  <2>1. seat \notin Throwing(st) /\ IsUpdated(seat, indicators'[seat], st)
    BY <1>3, TableIsUpdated
  <2>2. PICK row \in st.rows : row.seat = seat /\ IsShown(indicators'[seat], row, BaseOf(seat, st))
    BY <1>4, <2>1 DEF IsUpdated
  <2>3. Rot(seat) \in 1 .. NbSeats
    BY <1>1, <2>1, <2>2, RotationIsASeat
  <2>4. indicators'[seat].stats = row /\ indicators'[seat].base = BaseOf(seat, st)
    BY <2>2 DEF IsShown
  <2>5. BaseOf(seat, st) = Place(Rot(seat))
    BY <1>2 DEF BaseOf
  <2>6. row.isHero => GetHeroSeat(st) = seat
    BY <1>1, <2>2, HeroSeatIsThere
  <2>. QED
    BY <2>3, <2>4, <2>5, <2>6
<1>5. Rot(s) # Rot(t) /\ (GetHeroSeat(st) = s => Rot(s) = 1)
  <2>1. s \in 1 .. NbSeats /\ t \in 1 .. NbSeats /\ NbSeats \in Nat \ {0} /\ GetHeroSeat(st) \in Int /\ s # t
    BY <1>2, <1>3
  <2>. QED
    BY <2>1, RotationIsInjective, Zenon
<1>6. indicators'[s].base = Place(Rot(s)) /\ indicators'[t].base = Place(Rot(t))
      /\ Rot(s) \in 1 .. NbSeats /\ Rot(t) \in 1 .. NbSeats
  BY <1>3, <1>4
<1> HIDE DEF Rot
<1>7. Place(Rot(s)) # Place(Rot(t)) /\ (Rot(s) = 1 => Place(Rot(s)).y > Place(Rot(t)).y)
  BY <1>2, <1>5, <1>6, BasesAreApart
<1>8. indicators'[s].stats.isHero => Rot(s) = 1
  BY <1>3, <1>4, <1>5
<1>. QED
  BY <1>6, <1>7, <1>8

\* No indicator is drawn upon another, and that of the hero is below all others
\* ("so that the hero seat always appears at the bottom", Position.hpp:34), whatever
\* the players, the rotation and the moves of the window.  The sizes seven and eight
\* are left out: their seat one is at a side (Position.cpp:71-82).
THEOREM HeroIsAtTheBottom ==
    ASSUME OneHero, Visible, NbSeats \notin {7, 8}
    PROVE  Spec => []HeroAtTheBottom
<1> DEFINE Inv == IInv /\ HeroInv /\ HeroAtTheBottom
<1>1. Init => Inv
  <2> SUFFICES ASSUME Init PROVE Inv
    OBVIOUS
  <2>1. awake \in Seq({}) /\ rows.isHero = {} /\ saver = None /\ stats.rows = {} /\ applied = None
    BY DEF Init, NoRows, NoStats
  <2>2. HeroInv
    BY <2>1 DEF HeroInv, OneHeroRow
  <2>. QED
    BY <2>1, <2>2, InitIInv DEF HeroAtTheBottom
<1>2. Inv /\ [Next]_vars => Inv'
  <2> SUFFICES ASSUME Inv, [Next]_vars PROVE HeroAtTheBottom'
    BY NextIInv, NextHeroInv DEF IInv
  <2>0. DataInv /\ ScreenInv /\ HeroInv /\ HeroAtTheBottom
    BY DEF IInv
  <2>1. CASE UNCHANGED <<indicators, applied>>
    BY <2>0, <2>1 DEF HeroAtTheBottom, TableSeats
  <2>2. CASE UpdateTablePlayerIndicators
    <3>1. CASE UNCHANGED screen
      BY <2>1, <3>1 DEF screen
    <3>2. CASE ~UNCHANGED screen
      BY <2>0, <2>2, <3>2, UpdatedBases
    <3>. QED
      BY <3>1, <3>2
  <2>3. ASSUME UNCHANGED applied, NEW seat \in TableSeats, indicators[seat] \in PlayerIndicators,
               NEW new, new # None, new.base = indicators[seat].base, new.stats = indicators[seat].stats,
               indicators' = [indicators EXCEPT ![seat] = new], indicators[seat] # None
        PROVE  HeroAtTheBottom'
    <3>1. /\ indicators'[seat] = new
          /\ \A other \in TableSeats \ {seat} : indicators'[other] = indicators[other]
      BY <2>0, <2>3 DEF ScreenInv
    <3>2. \A other \in TableSeats :
             /\ indicators'[other] = None <=> indicators[other] = None
             /\ indicators[other] # None => /\ indicators'[other].base = indicators[other].base
                                            /\ indicators'[other].stats = indicators[other].stats
      BY <2>3, <3>1
    <3>. QED
      BY <2>0, <2>3, <3>2 DEF HeroAtTheBottom, TableSeats
  <2>4. CASE Release
    <3> DEFINE new == [indicators[drag] EXCEPT !.offset = Minus(indicators[drag].pos, indicators[drag].base)]
    <3>1. /\ UNCHANGED applied /\ drag \in TableSeats /\ indicators[drag] \in PlayerIndicators
          /\ indicators[drag] # None /\ indicators' = [indicators EXCEPT ![drag] = new]
      BY <2>0, <2>4 DEF Release, ScreenInv
    <3>2. new.base = indicators[drag].base /\ new.stats = indicators[drag].stats /\ new # None
      <4>1. Minus(indicators[drag].pos, indicators[drag].base) \in Points
        BY <3>1 DEF Minus, Points, PlayerIndicators
      <4>2. new \in PlayerIndicators
        BY <3>1, <4>1 DEF PlayerIndicators
      <4>. QED
        BY <3>1, <4>2, NoneIsNoSeat DEF PlayerIndicators
    <3> HIDE DEF new
    <3>. QED
      BY <2>3, <3>1, <3>2
  <2>5. ASSUME NEW seat \in TableSeats, Drag(seat) PROVE HeroAtTheBottom'
    <3>1. PICK drop \in Drops : indicators' = [indicators EXCEPT ![seat] = [indicators[seat] EXCEPT !.pos = drop]]
      BY <2>5 DEF Drag
    <3> DEFINE new == [indicators[seat] EXCEPT !.pos = drop]
    <3>2. UNCHANGED applied /\ indicators[seat] \in PlayerIndicators /\ indicators[seat] # None /\ drop \in Points
      BY <2>0, <2>5, ScreenAssumption DEF Drag, ScreenInv, Points
    <3>3. new \in PlayerIndicators /\ new.base = indicators[seat].base /\ new.stats = indicators[seat].stats
      BY <3>2 DEF PlayerIndicators
    <3>4. indicators' = [indicators EXCEPT ![seat] = new]
      BY <3>1
    <3> HIDE DEF new
    <3>. QED
      BY <2>3, <3>2, <3>3, <3>4, NoneIsNoSeat
  <2>6. CASE FileChanged \/ ReloadFile \/ Save \/ GameFails \/ End \/ ReadMaxSeats \/ ReadRows \/ Notify \/ PlayHand
             \/ Import \/ MoveTable \/ UNCHANGED vars
    BY <2>1, <2>6 DEF FileChanged, ReloadFile, Save, GameFails, End, ReadMaxSeats, ReadRows, Notify, PlayHand, Import,
                      MoveTable, screen, vars
  <2>. QED
    BY <2>2, <2>4, <2>5, <2>6 DEF Next, Program, User
<1>3. Inv => HeroAtTheBottom
  OBVIOUS
<1>. QED
  BY <1>1, <1>2, <1>3, PTL DEF Spec
=============================================================================
