--------------------------- MODULE MCGameIngestion ---------------------------
(***************************************************************************)
(* A small instance of GameIngestion: a game and a demo, two workers, and  *)
(* failures of each kind.                                                  *)
(***************************************************************************)
EXTENDS GameIngestion, TLC

CONSTANTS a1, a2, o1, o2

MCApp == {a1, a2}
MCDemo == {a2}
MCOwner == {o1, o2}
MCCategory == {"network", "parse_changed", "auth"}

Symmetry == Permutations(MCOwner)
=============================================================================
