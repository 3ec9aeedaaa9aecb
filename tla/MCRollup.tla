------------------------------ MODULE MCRollup ------------------------------
(* Small instances of Rollup: the calendars, and a symmetry. *)
EXTENDS Rollup, TLC

\* The last day of a long month has no counterpart in the next one.
UnevenMonths == <<1, 3, 4, 6, 8, 10, 12, 14, 16>>

Symmetry == Permutations(Project)
=============================================================================
