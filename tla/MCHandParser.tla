---------------------------- MODULE MCHandParser ----------------------------
(***************************************************************************)
(* Three hands for module HandParser: one that ends on a raise, whose      *)
(* winner did nothing; one with a flop, a showdown and a shared pot; one   *)
(* whose hero has a space in his name.                                     *)
(***************************************************************************)
EXTENDS HandParser

CONSTANTS a, b, s

Do(type, player) == [type |-> type, player |-> player]

Walk == [seats |-> <<a, b>>, denies |-> <<b>>, dealt |-> <<a>>,
         streets |-> << <<Do("folds", a)>> >>, shows |-> <<>>, collected |-> <<b>>]
Showdown == [seats |-> <<b, a>>, denies |-> <<>>, dealt |-> <<>>,
             streets |-> << <<Do("raises", b), Do("calls", a)>>,
                            <<Do("bets", b), Do("raises", a), Do("calls", b)>> >>,
             shows |-> <<b, a>>, collected |-> <<a, b>>]
SpacedHero == [seats |-> <<s, a>>, denies |-> <<>>, dealt |-> <<s>>,
               streets |-> << <<Do("folds", s)>> >>, shows |-> <<>>, collected |-> <<a>>]

MCScripts == {Walk, Showdown, SpacedHero}
=============================================================================
