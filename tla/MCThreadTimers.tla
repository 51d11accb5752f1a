--------------------------- MODULE MCThreadTimers ---------------------------
(* ThreadTimers for TLC.                                                    *)
EXTENDS ThreadTimers, TLC
CONSTANTS t1, t2, t3
Interchangeable == Permutations(Timers)
=============================================================================
