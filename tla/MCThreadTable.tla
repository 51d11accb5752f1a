---------------------------- MODULE MCThreadTable ----------------------------
(* Small instances of ThreadTable for TLC. *)
EXTENDS ThreadTable, TLC

\* The main thread waits for some of the workers; the others detach themselves.
AnyOfThem == SUBSET Workers

Interchangeable == Permutations(Workers)
==============================================================================
