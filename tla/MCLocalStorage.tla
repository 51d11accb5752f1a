---------------------------- MODULE MCLocalStorage ----------------------------
(* Small instances of LocalStorage for TLC. *)
EXTENDS LocalStorage, TLC

CONSTANTS k1, k2, v1, v2
================================================================================
