------------------------------- MODULE ClaimLock -------------------------------
(***************************************************************************)
(* The claim a worker takes on one incident while it processes it: the     *)
(* lock file .claim.lock of src/incident/store.ts, created with an         *)
(* exclusive open, stolen when it is older than staleMs, and removed in    *)
(* the `finally' of src/incident/worker.ts.                                *)
(*                                                                         *)
(* Every file-system call of tryClaim and releaseClaim is an action of its *)
(* own, because another process may run between any two of them: a JS      *)
(* function is atomic in its own process only.                             *)
(*                                                                         *)
(* The file's content (an ISO date) is never read back, so the file is     *)
(* described by the worker that created it (a ghost: the code cannot see   *)
(* it) and by its age since mtime, which saturates just above StaleAge.    *)
(***************************************************************************)
EXTENDS Naturals

CONSTANTS
  Worker,    \* the worker processes that poll one repository
  None,      \* no worker: the lock file does not exist
  StaleAge,  \* staleMs, in clock ticks
  Crashable, \* workers whose process may die (and be started again)
  Slow       \* workers that may take longer than StaleAge over an incident

ASSUME ClaimAssumption ==
  /\ None \notin Worker
  /\ StaleAge \in Nat
  /\ Crashable \subseteq Worker
  /\ Slow \subseteq Worker

VARIABLES
  pc,   \* where each worker is in its claim
  lock, \* who created the lock file now on disk, or None
  age   \* the age of that file

lockVars == <<pc, lock, age>>

Goto(w, from, to) == pc[w] = from /\ pc' = [pc EXCEPT ![w] = to]

CreateFile(w) == lock = None /\ lock' = w /\ age' = 0
RemoveFile    == lock' = None /\ age' = 0
SameFile      == UNCHANGED <<lock, age>>

LockInit ==
  /\ pc = [w \in Worker |-> "idle"]
  /\ lock = None
  /\ age = 0

(***************************************************************************)
(* tryClaim.                                                               *)
(***************************************************************************)

\* The first write(): openSync(lock, 'wx') creates the file, or fails EEXIST.
OpenExclusive(w) ==
  \/ Goto(w, "idle", "working") /\ CreateFile(w)
  \/ Goto(w, "idle", "stat") /\ lock # None /\ SameFile

\* Slips of Stat: the age is not looked at; the stale file is never stolen.
StatIgnoresAge(w) ==
  /\ \/ Goto(w, "stat", "reopen") /\ lock = None
     \/ Goto(w, "stat", "remove") /\ lock # None
  /\ SameFile

StatNeverSteals(w) ==
  /\ \/ Goto(w, "stat", "reopen") /\ lock = None
     \/ Goto(w, "stat", "idle") /\ lock # None
  /\ SameFile

\* statSync(lock): a file that vanished throws, and the handler calls write()
\* again; a file that is not older than staleMs leaves the claim refused.
Stat(w) ==
  /\ \/ Goto(w, "stat", "reopen") /\ lock = None
     \/ Goto(w, "stat", "remove") /\ lock # None /\ age > StaleAge
     \/ Goto(w, "stat", "idle")   /\ lock # None /\ age <= StaleAge
  /\ SameFile

\* rmSync(lock, {force: true}): removes whatever file is there by now.
RemoveStale(w) == Goto(w, "remove", "reopen") /\ RemoveFile

\* The second write(): "may still lose a race with another stealer".
Reopen(w) ==
  \/ Goto(w, "reopen", "working") /\ CreateFile(w)
  \/ Goto(w, "reopen", "idle") /\ lock # None /\ SameFile

(***************************************************************************)
(* releaseClaim, in the worker's finally: it does not look whose file the  *)
(* file is.                                                                *)
(***************************************************************************)
\* A slip of Release: the file is left behind.
ReleaseLeavesFile(w) == Goto(w, "working", "idle") /\ SameFile

Release(w) == Goto(w, "working", "idle") /\ RemoveFile

(***************************************************************************)
(* The environment: processes die and are started again, and time passes.  *)
(* A worker that is not Slow is done, or dead, before its file is stale.   *)
(***************************************************************************)
Crash(w) ==
  /\ w \in Crashable
  /\ pc[w] # "dead"
  /\ pc' = [pc EXCEPT ![w] = "dead"]
  /\ SameFile

Restart(w) == Goto(w, "dead", "idle") /\ SameFile

Overdue == lock # None /\ pc[lock] = "working" /\ lock \notin Slow /\ age = StaleAge

Tick ==
  /\ lock # None
  /\ age <= StaleAge
  /\ ~Overdue
  /\ age' = age + 1
  /\ UNCHANGED <<pc, lock>>

ClaimStep(w) == OpenExclusive(w) \/ Stat(w) \/ RemoveStale(w) \/ Reopen(w)

LockNext ==
  \/ Tick
  \/ \E w \in Worker : ClaimStep(w) \/ Release(w) \/ Crash(w) \/ Restart(w)

LockSpec == LockInit /\ [][LockNext]_lockVars

\* A worker that does not crash keeps polling and finishes what it works on,
\* and the clock runs: nothing is assumed of the workers that may crash.
LockFairness ==
  /\ WF_lockVars(Tick)
  /\ \A w \in Worker \ Crashable : WF_lockVars(ClaimStep(w) \/ Release(w))

FairLockSpec == LockSpec /\ LockFairness

-----------------------------------------------------------------------------

\* The type of the three variables.
LockTypeOK ==
  /\ pc \in [Worker -> {"idle", "stat", "remove", "reopen", "working", "dead"}]
  /\ lock \in Worker \cup {None}
  /\ age \in 0 .. StaleAge + 1

Working == {w \in Worker : pc[w] = "working"}

\* Two workers never process the incident at the same time, whatever calls of
\* the others run between the calls of one tryClaim.
AtMostOneWorker == \A v, w \in Working : v = w

\* The claim on the incident is the exclusive claim of ExclusiveClaim: each step
\* of the workers acquires it while nobody has it, gives it up, or leaves it
\* alone, and a free incident is acquired again: contention over a released
\* lock never makes every worker lose for ever.
Claim == INSTANCE ExclusiveClaim WITH holders <- Working

ImplementsExclusiveClaim == Claim!FairSpec

\* The lock of a worker that is no longer processing does not block the
\* incident for ever: it is removed as stale, as tryClaim's comment promises
\* for a crashed worker, however often other workers crash while stealing it.
AbandonedLockIsStolen ==
  \A w \in Crashable :
    (lock = w /\ pc[w] # "working") ~> (lock # w \/ pc[w] = "working")

=============================================================================
