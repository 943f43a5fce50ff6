------------------------------- MODULE MCScreens -------------------------------
(* The pages of the web client for TLC.  Tasks, nodes, runs and tabs share    *)
(* their two ids: no page has more than one of these kinds.                   *)
EXTENDS Screens, TLC

CONSTANTS i1, i2

Ids == {i1, i2}
PageLimits == {1, 2}
ScreenLevels == {0, 1}
IdSymmetry == Permutations(Ids)
=============================================================================
