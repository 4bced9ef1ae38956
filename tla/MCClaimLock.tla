------------------------------ MODULE MCClaimLock ------------------------------
(* Small instances of ClaimLock for TLC: three workers, so that two can      *)
(* compete for the lock of a third, and a stale age of two ticks.            *)
EXTENDS ClaimLock, TLC

CONSTANTS w1, w2, w3

MCWorker == {w1, w2, w3}

MCSymmetry == Permutations(MCWorker)

=============================================================================
