----------------------------- MODULE HandlerRuns -----------------------------
(***************************************************************************)
(* The durable job around a handler, as the components that run on the queue *)
(* see it: rows of workflow_jobs that follow JobLifecycle (implemented by   *)
(* JobQueue), and worker processes that may die at any step or go on after  *)
(* their lease was recovered.  The modules that extend this one add the     *)
(* rows their handler works on and the steps between claim and close.       *)
(* Source: backend/app/jobs/repository.py, worker.py.                       *)
(***************************************************************************)
EXTENDS Integers

CONSTANTS Jobs,         \* idempotency keys of the jobs that may be enqueued
          Workers,      \* worker processes
          Nobody,       \* lease_owner IS NULL
          NoJob,        \* a worker between two claims
          MaxAttempts,  \* workflow_jobs.max_attempts
          MaxRetries    \* bound: operator retries of one job

ASSUME HandlerRunsAssumption ==
  /\ Nobody \notin Workers
  /\ NoJob \notin Jobs
  /\ MaxAttempts \in Nat \ {0}
  /\ MaxRetries \in Nat

VARIABLES job,      \* workflow_jobs.status, "absent" before enqueue_job
          tries,    \* workflow_jobs.attempt_count
          owner,    \* workflow_jobs.lease_owner
          retried,  \* operator retries so far (history)
          cur       \* the job whose handler a worker is running

jobVars   == <<job, tries, owner, retried>>
queueVars == <<jobVars, cur>>

JobStatuses == {"absent", "queued", "running", "succeeded", "failed",
                "needs_review", "cancelled"}
Results == {"succeeded", "retryable", "needs_review", "permanent"}
Over == {"succeeded", "failed", "needs_review", "cancelled"}

QueueTypeOK ==
  /\ job \in [Jobs -> JobStatuses]
  /\ tries \in [Jobs -> 0..(MaxAttempts + MaxRetries)]
  /\ owner \in [Jobs -> Workers \cup {Nobody}]
  /\ retried \in [Jobs -> 0..MaxRetries]
  /\ cur \in [Workers -> Jobs \cup {NoJob}]

QueueInit ==
  /\ job = [j \in Jobs |-> "absent"]
  /\ tries = [j \in Jobs |-> 0]
  /\ owner = [j \in Jobs |-> Nobody]
  /\ retried = [j \in Jobs |-> 0]
  /\ cur = [w \in Workers |-> NoJob]

\* enqueue_job with a key seen for the first time.
EnqueueJob(j) ==
  /\ job[j] = "absent"
  /\ job' = [job EXCEPT ![j] = "queued"]
  /\ UNCHANGED <<tries, owner, retried, cur>>

\* enqueue_job: a key that exists returns its job, whatever its status.
EnqueueJobOnce(j) ==
  /\ job' = [job EXCEPT ![j] = IF @ = "absent" THEN "queued" ELSE @]
  /\ UNCHANGED <<tries, owner, retried, cur>>

ClaimJob(w, j) ==
  /\ cur[w] = NoJob
  /\ job[j] = "queued"
  /\ job' = [job EXCEPT ![j] = "running"]
  /\ tries' = [tries EXCEPT ![j] = @ + 1]
  /\ owner' = [owner EXCEPT ![j] = w]
  /\ cur' = [cur EXCEPT ![w] = j]
  /\ UNCHANGED retried

\* The lease is still this worker's: what finish_job and fail_job ask.
Holds(w) == cur[w] # NoJob /\ job[cur[w]] = "running" /\ owner[cur[w]] = w

\* A claim beyond max_attempts never reaches the handler.
Executable(w) == tries[cur[w]] <= MaxAttempts

\* The status finish_job or fail_job gives a job whose handler came to r.
ClosedStatus(j, r) ==
  CASE r = "succeeded" -> "succeeded"
    [] r = "needs_review" -> "needs_review"
    [] r = "retryable" /\ tries[j] < MaxAttempts -> "queued"
    [] OTHER -> "failed"

\* The run is over; a worker that lost its lease leaves the row alone.
CloseJob(w, r) ==
  /\ cur[w] # NoJob
  /\ job' = IF Holds(w)
            THEN [job EXCEPT ![cur[w]] = ClosedStatus(cur[w], r)] ELSE job
  /\ owner' = IF Holds(w) THEN [owner EXCEPT ![cur[w]] = Nobody] ELSE owner
  /\ cur' = [cur EXCEPT ![w] = NoJob]
  /\ UNCHANGED <<tries, retried>>

\* The process dies and is started again; the row stays running.
Die(w) ==
  /\ cur[w] # NoJob
  /\ cur' = [cur EXCEPT ![w] = NoJob]
  /\ UNCHANGED jobVars

\* Mutant of RecoveredStatus: no budget.
RecoveredAlways(j) == IF tries[j] < MaxAttempts + MaxRetries + 1 THEN "queued" ELSE "failed"

RecoveredStatus(j) == IF tries[j] < MaxAttempts THEN "queued" ELSE "failed"

\* requeue_expired_leases: a lease may be found expired at any time, its
\* worker dead or not.
RecoverJob(j) ==
  /\ job[j] = "running"
  /\ job' = [job EXCEPT ![j] = RecoveredStatus(j)]
  /\ owner' = [owner EXCEPT ![j] = Nobody]
  /\ UNCHANGED <<tries, retried, cur>>

\* retry_job by the operator.
RetryJob(j) ==
  /\ job[j] \in {"failed", "needs_review"}
  /\ retried[j] < MaxRetries
  /\ job' = [job EXCEPT ![j] = "queued"]
  /\ retried' = [retried EXCEPT ![j] = @ + 1]
  /\ UNCHANGED <<tries, owner, cur>>

\* cancel_job by the operator.
CancelJob(j) ==
  /\ job[j] = "queued"
  /\ job' = [job EXCEPT ![j] = "cancelled"]
  /\ UNCHANGED <<tries, owner, retried, cur>>

\* What JobQueue promises of these rows.
Lifecycle == INSTANCE JobLifecycle
               WITH MaxAttempts <- [j \in Jobs |-> MaxAttempts],
                    status <- job, attempt <- tries, retries <- retried
=============================================================================
