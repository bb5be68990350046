---------------------------- MODULE JobLifecycle ----------------------------
(***************************************************************************)
(* What the job queue promises of one workflow_jobs row, with no workers,   *)
(* leases, clocks or scans: the life of a job as handlers, the operator and *)
(* the modules that use the queue see it.  JobQueue implements it.          *)
(* Source: backend/app/jobs/repository.py (the transitions of `status`).    *)
(***************************************************************************)
EXTENDS Integers

CONSTANTS Jobs, MaxAttempts

VARIABLES status,   \* workflow_jobs.status, or "absent"
          attempt,  \* workflow_jobs.attempt_count
          retries   \* operator retries so far

vars == <<status, attempt, retries>>

Init ==
  /\ status = [j \in Jobs |-> "absent"]
  /\ attempt = [j \in Jobs |-> 0]
  /\ retries = [j \in Jobs |-> 0]

\* Row j goes to <<s, n, r>>.
Becomes(j, s, n, r) == status'[j] = s /\ attempt'[j] = n /\ retries'[j] = r

Stays(j) == Becomes(j, status[j], attempt[j], retries[j])

Submit(j) == status[j] = "absent" /\ Becomes(j, "queued", 0, 0)

\* A claim consumes an attempt, and there is one left to consume: the budget
\* is max_attempts and one more for each operator retry.
Start(j) ==
  /\ status[j] = "queued"
  /\ attempt[j] < MaxAttempts[j] + retries[j]
  /\ Becomes(j, "running", attempt[j] + 1, retries[j])

\* A job the queue itself gives back has automatic attempts left.
GiveBack(j) ==
  /\ status[j] = "running"
  /\ attempt[j] < MaxAttempts[j]
  /\ Becomes(j, "queued", attempt[j], retries[j])

Close(j) ==
  /\ status[j] = "running"
  /\ \E s \in {"succeeded", "failed", "needs_review"} :
       Becomes(j, s, attempt[j], retries[j])

Retry(j) ==
  /\ status[j] \in {"failed", "needs_review"}
  /\ Becomes(j, "queued", attempt[j], retries[j] + 1)

Cancel(j) ==
  /\ status[j] = "queued"
  /\ Becomes(j, "cancelled", attempt[j], retries[j])

Step(j) == Submit(j) \/ Start(j) \/ GiveBack(j) \/ Close(j) \/ Retry(j)
           \/ Cancel(j)

\* One recovery pass may settle several rows in one transaction.
Next ==
  /\ status' \in [Jobs -> {"absent", "queued", "running", "succeeded",
                           "failed", "needs_review", "cancelled"}]
  /\ \A j \in Jobs : Step(j) \/ Stays(j)

Spec == Init /\ [][Next]_vars
=============================================================================
