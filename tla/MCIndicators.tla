---------------------------- MODULE MCIndicators ----------------------------
(***************************************************************************)
(* Three hands for module Indicators: two at a table of three seats, where  *)
(* one player leaves, another comes and the hero changes seats, in a hand   *)
(* that does not show the hero's cards; and one at another table.           *)
(***************************************************************************)
EXTENDS Indicators

CONSTANTS h, x, y, t, o

Did(player, type) == [player |-> player, type |-> type]

Both == [tableName |-> t, seats |-> <<x, h, NoPlayer>>, dealt |-> h,
         preflop |-> <<Did(x, "raise"), Did(h, "fold")>>]
Swapped == [tableName |-> t, seats |-> <<y, NoPlayer, h>>, dealt |-> NoPlayer,
            preflop |-> <<Did(h, "call"), Did(y, "raise"), Did(h, "call")>>]
Elsewhere == [tableName |-> o, seats |-> <<h, x>>, dealt |-> h, preflop |-> <<Did(x, "raise")>>]

MCDeals == {Both, Swapped, Elsewhere}
MCRects == {[x |-> 0, y |-> 0, w |-> 100, h |-> 100], [x |-> 50, y |-> 0, w |-> 100, h |-> 100]}
MCDrops == {[x |-> 7, y |-> 7]}
=============================================================================
