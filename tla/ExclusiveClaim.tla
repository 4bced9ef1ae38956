----------------------------- MODULE ExclusiveClaim -----------------------------
(***************************************************************************)
(* What claiming an incident promises (the comments of tryClaim in         *)
(* src/incident/store.ts and of runWorkerOnce in src/incident/worker.ts):  *)
(* a worker acquires the incident only when no other worker holds it, and  *)
(* an incident nobody holds is acquired again while workers poll.          *)
(***************************************************************************)
CONSTANT Worker

VARIABLE holders \* the workers that are processing the incident

Init == holders = {}

Acquire(w) == holders = {} /\ holders' = {w}

GiveUp(w) == holders = {w} /\ holders' = {}

Next == \E w \in Worker : Acquire(w) \/ GiveUp(w)

Spec == Init /\ [][Next]_holders

FairSpec == Spec /\ WF_holders(\E w \in Worker : Acquire(w))

=============================================================================
