------------------------------- MODULE MCSnake ------------------------------
(***************************************************************************)
(* Snake on a small board.                                                 *)
(***************************************************************************)
EXTENDS Snake, TLC

RowOfThree == <<<<2, 1>>, <<1, 1>>, <<0, 1>>>>

SlotsAreAlike == Permutations(Slots)
=============================================================================
