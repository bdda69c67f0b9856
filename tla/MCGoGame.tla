------------------------------ MODULE MCGoGame ------------------------------
(***************************************************************************)
(* A small instance of GoGame for TLC.                                     *)
(***************************************************************************)
EXTENDS GoGame, TLC

\* Five points of a corner, enough for a capture at the edge, for suicide and
\* for a ko.
MCPlayable == {<<0, 0>>, <<0, 1>>, <<0, 2>>, <<1, 0>>, <<1, 1>>}

Symmetry == Permutations(Slot)
=============================================================================
