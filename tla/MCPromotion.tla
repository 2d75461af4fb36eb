---------------------------- MODULE MCPromotion -----------------------------
(* Two processes; two files of the unit and, before them, one with a name of *)
(* its own.                                                                  *)
EXTENDS Promotion, TLC

CONSTANTS a, b

TwoPromoters == {a, b}
LastTwo      == {2, 3}
Taken3       == {<<1, 0>>, <<2, 0>>, <<3, 1>>}
Processes    == Permutations(TwoPromoters)
=============================================================================
