------------------------------ MODULE MCWorkbench ------------------------------
(***************************************************************************)
(* The workbench with two projects and two handlers at a time.             *)
(***************************************************************************)
EXTENDS Workbench, TLC

CONSTANTS p1, p2, s1, s2

Projects == {p1, p2}
Slots == {s1, s2}

Symmetry == Permutations(Projects) \cup Permutations(Slots)

=============================================================================
