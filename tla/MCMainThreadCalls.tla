-------------------------- MODULE MCMainThreadCalls --------------------------
(* Small instances of MainThreadCalls for TLC. *)
EXTENDS MainThreadCalls, TLC

Interchangeable == Permutations(Workers) \cup Permutations(Keys)
==============================================================================
