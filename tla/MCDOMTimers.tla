----------------------------- MODULE MCDOMTimers -----------------------------
(* DOMTimers for TLC: page p1 with documents d1 and d2, page p2 with d3.     *)
EXTENDS DOMTimers, TLC
CONSTANTS t1, t2, t3, p1, p2, d1, d2, d3
MCPageOf == (d1 :> p1) @@ (d2 :> p1) @@ (d3 :> p2)
Interchangeable == Permutations(ScriptTimers)
==============================================================================
