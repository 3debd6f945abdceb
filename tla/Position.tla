------------------------------ MODULE Position ------------------------------
(***************************************************************************)
(* gui/Position.cpp: where the statistics of each seat of a table are      *)
(* drawn.  Seats are numbered from 1, as tableSeat::toInt does; seatUnknown *)
(* is the one after the last.                                              *)
(***************************************************************************)
EXTENDS Integers, Sequences, Functions

SeatTen == 10
SeatUnknown == SeatTen + 1
TableSizes == 2 .. SeatTen

\* The % of C++ has the sign of its first operand.
CppMod(a, b) == IF a >= 0 THEN a % b ELSE -((-a) % b)

\* rotate: the number it gives to tableSeat::fromInt.  One that is no seat is an
\* assertion there, or an index that std::array::at refuses in calculatePosition.
Rotated(seat, nbClicks, maxSeats) == CppMod(seat - 1 + nbClicks, maxSeats) + 1

\* The assertions at the top of rotateRelativeToHero.
CanRotate(seat, heroSeat, maxSeats) ==
    seat <= maxSeats /\ heroSeat <= maxSeats /\ SeatUnknown \notin {seat, heroSeat, maxSeats}

RotateRelativeToHero(seat, heroSeat, maxSeats) ==
    IF heroSeat = 1 THEN seat ELSE Rotated(seat, maxSeats - heroSeat + 1, maxSeats)

\* NB_SEATS_TO_COEFF, in ten thousandths of the window.
Coefficients ==
    LET C(x, y) == [x |-> x, y |-> y] IN
    [n \in TableSizes |->
       CASE n = 2 -> <<C(5000, 9000), C(5000, 1000)>>
         [] n = 3 -> <<C(5000, 9000), C(3333, 3333), C(6666, 3333)>>
         [] n = 4 -> <<C(5000, 5000), C(2500, 2500), C(5000, 2500), C(7500, 2500)>>
         [] n = 5 -> <<C(5000, 10000), C(2500, 7500), C(2500, 2500), C(7500, 2500), C(7500, 7500)>>
         [] n = 6 -> <<C(5000, 9000), C(2000, 7500), C(2000, 2500), C(5000, 1000), C(8000, 2500),
                       C(8000, 7500)>>
         [] n = 7 -> <<C(10000, 5000), C(1000, 7500), C(1000, 2500), C(2500, 2500), C(2500, 7500),
                       C(7500, 2500), C(7500, 7500)>>
         [] n = 8 -> <<C(0, 5000), C(2500, 2500), C(5000, 0), C(7500, 2500), C(10000, 5000),
                       C(7500, 7500), C(5000, 10000), C(2500, 7500)>>
         [] n = 9 -> <<C(5000, 10000), C(3500, 8500), C(1250, 6350), C(1250, 3500), C(3500, 1250),
                       C(6250, 1250), C(8500, 3500), C(8500, 6350), C(6250, 8500)>>
         [] n = 10 -> <<C(5000, 10000), C(3500, 8500), C(1250, 6350), C(1250, 3500), C(3500, 1250),
                        C(5000, 0), C(6250, 1250), C(8500, 3500), C(8500, 6350), C(6250, 8500)>>]

\* calculatePosition, in a window at rect.x, rect.y.
BuildPlayerIndicatorPosition(seat, maxSeats, rect) ==
    LET coef == Coefficients[maxSeats][seat] IN
    [x |-> rect.x + (coef.x * rect.w) \div 10000, y |-> rect.y + (coef.y * rect.h) \div 10000]
=============================================================================
