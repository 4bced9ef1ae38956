-------------------------- MODULE MCIncidentLifecycle --------------------------
(* Small instances of IncidentLifecycle for TLC, of one or two workers.      *)
EXTENDS IncidentLifecycle, TLC

CONSTANTS w1, w2, o1, e1, e2

=============================================================================
