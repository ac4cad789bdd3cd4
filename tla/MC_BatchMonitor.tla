--------------------------- MODULE MC_BatchMonitor ---------------------------
(***************************************************************************)
(* Instances of BatchMonitor: a and b share a report file, c has its own;  *)
(* a has used one attempt before.                                          *)
(***************************************************************************)
EXTENDS BatchMonitor

CONSTANTS a, b, c, f, g

PathOf == [n \in Names |-> IF n = c THEN g ELSE f]
FileKeys == PathOf
OneUsed == [n \in Names |-> IF n = a THEN 1 ELSE 0]
OnceOrTwice == [k \in BOOLEAN |-> IF k THEN 2 ELSE 1]
Twice == [k \in BOOLEAN |-> 2]
=============================================================================
