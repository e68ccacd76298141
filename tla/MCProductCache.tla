--------------------------- MODULE MCProductCache ---------------------------
(***************************************************************************)
(* Two rows and two loads.  The properties say nothing any more once other *)
(* loads have overtaken a reset: TLC leaves those states' successors out.  *)
(***************************************************************************)
EXTENDS ProductCache, TLC

Symmetry == Permutations(Rows) \cup Permutations(Loads)
NotRaced == ~raced

==============================================================================
