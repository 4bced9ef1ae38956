--------------------------- MODULE MCIncidentMemory ---------------------------
(* A small instance of IncidentMemory for TLC: a process of each kind, which *)
(* is what it takes for their loads, saves and records to cross.             *)
EXTENDS IncidentMemory, TLC

CONSTANTS w1, w2, o1, e1, e2

=============================================================================
