--------------------------- MODULE MCResourceJobs ---------------------------
(* Small instances of ResourceJobs for TLC. *)
EXTENDS ResourceJobs

CONSTANTS j1, j2, j3

\* The jobs with no special part are interchangeable.
JobSymmetry == Permutations(Jobs \ DataJobs)
=============================================================================
