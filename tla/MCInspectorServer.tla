-------------------------- MODULE MCInspectorServer --------------------------
(* Small instances of InspectorServer for TLC. *)
EXTENDS InspectorServer, TLC

\* Views are interchangeable, and so are connections before they are made.
Interchangeable == Permutations(Views) \cup Permutations(Conns)
==============================================================================
