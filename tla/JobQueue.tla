------------------------------ MODULE JobQueue ------------------------------
(***************************************************************************)
(* The PostgreSQL job queue of the backend: the workflow_jobs rows, the     *)
(* worker processes that claim, heartbeat, run and close them, the          *)
(* scheduler pass that recovers expired leases, and the operator.           *)
(* Source: backend/app/jobs/repository.py, worker.py, scheduler.py.         *)
(*                                                                         *)
(* Every repository call is one transaction that row-locks the job, so it   *)
(* is one step.  The instant it is given ("observed_at") was read earlier,  *)
(* outside the lock, and other processes may run in between: reading the    *)
(* clock is a step of its own.                                              *)
(*                                                                         *)
(* Instants are kept relative to the present: lease[j] is                   *)
(* lease_expires_at - now, due[j] is scheduled_for - now, seen[w] is the    *)
(* captured observed_at - now (never positive).  Tick lets one unit of time *)
(* pass and lowers all of them, so comparisons read as in the code and time *)
(* never ends.  Nothing distinguishes instants older than Horizon, and a    *)
(* value that nothing will read again is set to 0.                          *)
(*                                                                         *)
(* Left out here: the domain rows recovery closes along with the job (the   *)
(* review flag of RecoveredStatus stands for the publish receipts, which    *)
(* TelegramPublish has), execute_retention jobs (retention/service.py has    *)
(* its own way to requeue them), events, payloads and results.              *)
(***************************************************************************)
EXTENDS Integers

CONSTANTS Jobs,         \* idempotency keys: a key is one workflow_jobs row
          Workers,      \* worker_id of each worker process
          NoOwner,      \* lease_owner IS NULL
          Handles,      \* Handles[w]: the jobs whose job_type w registers
          Priority,     \* workflow_jobs.priority
          MaxAttempts,  \* workflow_jobs.max_attempts
          PauseExempt,  \* origin = manual and pause_sensitive = false
          Publishing,   \* jobs that may leave a receipt in "dispatching"
          Lease,        \* worker_lease_seconds
          Delays,       \* how far ahead an enqueue or a retry may be scheduled
          Horizon,      \* bound: age of a captured instant
          MaxRetries    \* bound: operator retries of one job

ASSUME ConstantsAssumption ==
  /\ NoOwner \notin Workers
  /\ Handles \in [Workers -> SUBSET Jobs]
  /\ Priority \in [Jobs -> Int]
  /\ MaxAttempts \in [Jobs -> Nat \ {0}]
  /\ PauseExempt \subseteq Jobs
  /\ Publishing \subseteq Jobs
  /\ Lease \in Nat \ {0}
  /\ Delays \subseteq Nat
  /\ Horizon \in Nat \ {0}
  /\ MaxRetries \in Nat

VARIABLES
  status,      \* workflow_jobs.status, or "absent" before the insert
  attempt,     \* workflow_jobs.attempt_count
  owner,       \* workflow_jobs.lease_owner
  lease,       \* workflow_jobs.lease_expires_at
  due,         \* workflow_jobs.scheduled_for
  ckpt,        \* the attempt that wrote payload/result last (0: nobody)
  retries,     \* number of operator retries (history)
  pause,       \* automation_control.global_pause
  pc,          \* where run_once stands in each worker process
  seen,        \* instant the worker passes to its next transaction
  sawPause,    \* global_pause as the claim transaction read it
  cur,         \* the JobExecution snapshot: job and attempt_count
  outcome,     \* what the handler returned
  hbOn,        \* a heartbeat transaction is under way
  hb,          \* the instant that heartbeat captured
  tickOn,      \* the scheduler is inside requeue_expired_leases
  tickSeen,    \* the instant that pass captured
  candidates   \* the jobs its first SELECT returned

jobVars    == <<status, attempt, owner, lease, due, ckpt, retries>>
hbVars     == <<hbOn, hb>>
workerVars == <<pc, seen, sawPause, cur, outcome>>
schedVars  == <<tickOn, tickSeen, candidates>>
vars == <<jobVars, pause, workerVars, hbVars, schedVars>>

Statuses == {"absent", "queued", "running", "succeeded", "failed",
             "needs_review", "cancelled"}
Outcomes == {"succeeded", "retryable", "needs_review", "permanent"}
Pcs      == {"idle", "polling", "claiming", "handling", "invalid",
             "draining", "terminal"}

\* The process states in which seen[w] holds a captured instant.
Timed == {"polling", "claiming", "terminal"}

NoExec == [job |-> NoOwner, attempt |-> 0]
Execs  == [job : Jobs, attempt : Nat] \cup {NoExec}

-----------------------------------------------------------------------------
(* Row helpers. *)

\* JobRepository._has_active_lease
HasActiveLease(j, w, t) ==
  /\ status[j] = "running"
  /\ owner[j] = w
  /\ lease[j] > t

\* JobRepository._clear_lease
ClearLease(j) ==
  /\ owner' = [owner EXCEPT ![j] = NoOwner]
  /\ lease' = [lease EXCEPT ![j] = 0]

\* Mutant of Claimable: the attempt budget is tested off by one.
ClaimableBudgetOffByOne(j, w) ==
  /\ status[j] = "queued"
  /\ due[j] <= seen[w]
  /\ j \in Handles[w]
  /\ sawPause[w] => j \in PauseExempt
  /\ attempt[j] + 1 < MaxAttempts[j]

\* The predicates of JobRepository._claim_statement.
Claimable(j, w) ==
  /\ status[j] = "queued"
  /\ due[j] <= seen[w]
  /\ j \in Handles[w]
  /\ sawPause[w] => j \in PauseExempt

\* Its ORDER BY; equal rows (created_at) are left to choice.
Before(j, k) ==
  \/ Priority[j] > Priority[k]
  \/ Priority[j] = Priority[k] /\ due[j] <= due[k]

-----------------------------------------------------------------------------
Init ==
  /\ status = [j \in Jobs |-> "absent"]
  /\ attempt = [j \in Jobs |-> 0]
  /\ owner = [j \in Jobs |-> NoOwner]
  /\ lease = [j \in Jobs |-> 0]
  /\ due = [j \in Jobs |-> 0]
  /\ ckpt = [j \in Jobs |-> 0]
  /\ retries = [j \in Jobs |-> 0]
  /\ pause = FALSE
  /\ pc = [w \in Workers |-> "idle"]
  /\ seen = [w \in Workers |-> 0]
  /\ sawPause = [w \in Workers |-> FALSE]
  /\ cur = [w \in Workers |-> NoExec]
  /\ outcome = [w \in Workers |-> "succeeded"]
  /\ hbOn = [w \in Workers |-> FALSE]
  /\ hb = [w \in Workers |-> 0]
  /\ tickOn = FALSE
  /\ tickSeen = 0
  /\ candidates = {}

-----------------------------------------------------------------------------
(* Clients and the operator. *)

\* JobRepository.enqueue_job: INSERT ... ON CONFLICT (idempotency_key) DO
\* NOTHING.  A second enqueue of the key returns the existing row unchanged.
Enqueue(j) ==
  /\ status[j] = "absent"
  /\ \E d \in Delays : due' = [due EXCEPT ![j] = d]
  /\ status' = [status EXCEPT ![j] = "queued"]
  /\ UNCHANGED <<attempt, owner, lease, ckpt, retries, pause, workerVars,
                 hbVars, schedVars>>

\* JobRepository.retry_job, reached through POST /jobs/{id}/retry.
\* attempt_count is left as it is.
RetryJob(j) ==
  /\ status[j] \in {"failed", "needs_review"}
  /\ retries[j] < MaxRetries
  /\ status' = [status EXCEPT ![j] = "queued"]
  /\ due' = [due EXCEPT ![j] = 0]
  /\ ClearLease(j)
  /\ retries' = [retries EXCEPT ![j] = @ + 1]
  /\ UNCHANGED <<attempt, ckpt, pause, workerVars, hbVars, schedVars>>

\* Mutant of CancelJob: any unfinished or failed job may be cancelled.
CancelJobUnguarded(j) ==
  /\ status[j] \in {"queued", "failed", "needs_review"}
  /\ status' = [status EXCEPT ![j] = "cancelled"]
  /\ due' = [due EXCEPT ![j] = 0]
  /\ UNCHANGED <<attempt, owner, lease, ckpt, retries, pause, workerVars,
                 hbVars, schedVars>>

\* JobRepository.cancel_job, reached through POST /jobs/{id}/cancel.
CancelJob(j) ==
  /\ status[j] = "queued"
  /\ status' = [status EXCEPT ![j] = "cancelled"]
  /\ due' = [due EXCEPT ![j] = 0]
  /\ UNCHANGED <<attempt, owner, lease, ckpt, retries, pause, workerVars,
                 hbVars, schedVars>>

\* AutomationControlService.update_control(global_pause = ...)
SetPause ==
  /\ pause' = ~pause
  /\ UNCHANGED <<jobVars, workerVars, hbVars, schedVars>>

-----------------------------------------------------------------------------
(* The worker process: WorkerRunner.run_once. *)

\* The locals of the claim are out of use.
Forget(w) ==
  /\ seen' = [seen EXCEPT ![w] = 0]
  /\ sawPause' = [sawPause EXCEPT ![w] = FALSE]

\* Mutant of Release: the snapshot keeps the attempt of the last claim.
ReleaseHalf(w) ==
  /\ pc' = [pc EXCEPT ![w] = "idle"]
  /\ cur' = [cur EXCEPT ![w].job = NoOwner]
  /\ outcome' = [outcome EXCEPT ![w] = "succeeded"]
  /\ Forget(w)

\* run_once returns and the poll loop calls it again.
Release(w) ==
  /\ pc' = [pc EXCEPT ![w] = "idle"]
  /\ cur' = [cur EXCEPT ![w] = NoExec]
  /\ outcome' = [outcome EXCEPT ![w] = "succeeded"]
  /\ Forget(w)

\* observed_at = self._now()
Observe(w) ==
  /\ pc[w] = "idle"
  /\ pc' = [pc EXCEPT ![w] = "polling"]
  /\ seen' = [seen EXCEPT ![w] = 0]
  /\ UNCHANGED <<jobVars, pause, sawPause, cur, outcome, hbVars, schedVars>>

\* Mutant of ReadPause: the flag of the last poll is used again.
ReadPauseCached(w) ==
  /\ pc[w] = "polling"
  /\ pc' = [pc EXCEPT ![w] = "claiming"]
  /\ UNCHANGED <<jobVars, pause, seen, sawPause, cur, outcome, hbVars,
                 schedVars>>

\* claim_next_job reads global_pause with a SELECT of its own.
ReadPause(w) ==
  /\ pc[w] = "polling"
  /\ pc' = [pc EXCEPT ![w] = "claiming"]
  /\ sawPause' = [sawPause EXCEPT ![w] = pause]
  /\ UNCHANGED <<jobVars, pause, seen, cur, outcome, hbVars, schedVars>>

\* JobExecution.__post_init__: attempt_count > max_attempts raises ValueError
Executable(j, n) == n <= MaxAttempts[j]

\* Mutant of Claim: the snapshot is built before attempt_count is raised.
ClaimStaleSnapshot(w, j) ==
  /\ pc[w] = "claiming"
  /\ Claimable(j, w)
  /\ \A k \in Jobs : Claimable(k, w) => Before(j, k)
  /\ status' = [status EXCEPT ![j] = "running"]
  /\ attempt' = [attempt EXCEPT ![j] = @ + 1]
  /\ owner' = [owner EXCEPT ![j] = w]
  /\ lease' = [lease EXCEPT ![j] = seen[w] + Lease]
  /\ cur' = [cur EXCEPT ![w] = [job |-> j, attempt |-> attempt[j]]]
  /\ pc' = [pc EXCEPT ![w] = "handling"]
  /\ due' = [due EXCEPT ![j] = 0]
  /\ Forget(w)
  /\ UNCHANGED <<ckpt, retries, pause, outcome, hbVars, schedVars>>

\* claim_next_job: SELECT ... FOR UPDATE SKIP LOCKED LIMIT 1, then the row is
\* taken.  A row JobExecution refuses is kept as an invalid claim.
Claim(w, j) ==
  /\ pc[w] = "claiming"
  /\ Claimable(j, w)
  /\ \A k \in Jobs : Claimable(k, w) => Before(j, k)
  /\ status' = [status EXCEPT ![j] = "running"]
  /\ attempt' = [attempt EXCEPT ![j] = @ + 1]
  /\ owner' = [owner EXCEPT ![j] = w]
  /\ lease' = [lease EXCEPT ![j] = seen[w] + Lease]
  /\ cur' = [cur EXCEPT ![w] = [job |-> j, attempt |-> attempt[j] + 1]]
  /\ pc' = [pc EXCEPT ![w] = IF Executable(j, attempt[j] + 1)
                             THEN "handling" ELSE "invalid"]
  /\ due' = [due EXCEPT ![j] = 0]
  /\ Forget(w)
  /\ UNCHANGED <<ckpt, retries, pause, outcome, hbVars, schedVars>>

\* The poll found nothing.
ClaimNothing(w) ==
  /\ pc[w] = "claiming"
  /\ \A j \in Jobs : ~Claimable(j, w)
  /\ Release(w)
  /\ UNCHANGED <<jobVars, pause, hbVars, schedVars>>

\* _lease_heartbeat_loop captures the instant before heartbeat_job locks.
HeartbeatObserve(w) ==
  /\ pc[w] = "handling"
  /\ ~hbOn[w]
  /\ hbOn' = [hbOn EXCEPT ![w] = TRUE]
  /\ hb' = [hb EXCEPT ![w] = 0]
  /\ UNCHANGED <<jobVars, pause, workerVars, schedVars>>

\* Mutant of HeartbeatJob: the lease length is not added to the instant.
HeartbeatWithoutLength(w) ==
  /\ hbOn[w]
  /\ hbOn' = [hbOn EXCEPT ![w] = FALSE]
  /\ hb' = [hb EXCEPT ![w] = 0]
  /\ LET j == cur[w].job
     IN  \/ /\ HasActiveLease(j, w, hb[w])
            /\ lease' = [lease EXCEPT ![j] = hb[w]]
         \/ lease' = lease
  /\ UNCHANGED <<status, attempt, owner, due, ckpt, retries, pause,
                 workerVars, schedVars>>

\* heartbeat_job, or a heartbeat transaction that failed and is not retried
\* before the next turn of the loop.
HeartbeatJob(w) ==
  /\ hbOn[w]
  /\ hbOn' = [hbOn EXCEPT ![w] = FALSE]
  /\ hb' = [hb EXCEPT ![w] = 0]
  /\ LET j == cur[w].job
     IN  \/ /\ HasActiveLease(j, w, hb[w])
            /\ lease' = [lease EXCEPT ![j] = hb[w] + Lease]
         \/ lease' = lease
  /\ UNCHANGED <<status, attempt, owner, due, ckpt, retries, pause,
                 workerVars, schedVars>>

\* Mutant of CheckpointJob: the lease is not checked.
CheckpointUnfenced(w) ==
  /\ pc[w] = "handling"
  /\ ckpt' = [ckpt EXCEPT ![cur[w].job] = cur[w].attempt]
  /\ UNCHANGED <<status, attempt, owner, lease, due, retries, pause,
                 workerVars, hbVars, schedVars>>

\* checkpoint_job, called by a handler; the instant is read inside the call.
CheckpointJob(w) ==
  /\ pc[w] = "handling"
  /\ HasActiveLease(cur[w].job, w, 0)
  /\ ckpt' = [ckpt EXCEPT ![cur[w].job] = cur[w].attempt]
  /\ UNCHANGED <<status, attempt, owner, lease, due, retries, pause,
                 workerVars, hbVars, schedVars>>

\* A checkpoint refused raises InvalidJobTransition inside the handler, which
\* _execute_handler maps, as any unknown exception, to a retryable failure.
CheckpointRefused(w) ==
  /\ pc[w] = "handling"
  /\ ~HasActiveLease(cur[w].job, w, 0)
  /\ pc' = [pc EXCEPT ![w] = "draining"]
  /\ outcome' = [outcome EXCEPT ![w] = "retryable"]
  /\ UNCHANGED <<jobVars, pause, seen, sawPause, cur, hbVars, schedVars>>

\* _execute_handler returns a result or a classified failure, and the
\* heartbeat loop is told to stop.
HandlerReturns(w) ==
  /\ pc[w] = "handling"
  /\ \E o \in Outcomes : outcome' = [outcome EXCEPT ![w] = o]
  /\ pc' = [pc EXCEPT ![w] = "draining"]
  /\ UNCHANGED <<jobVars, pause, seen, sawPause, cur, hbVars, schedVars>>

\* await heartbeat_task; completion_time = self._now()
StopHeartbeat(w) ==
  /\ pc[w] = "draining"
  /\ ~hbOn[w]
  /\ pc' = [pc EXCEPT ![w] = "terminal"]
  /\ seen' = [seen EXCEPT ![w] = 0]
  /\ UNCHANGED <<jobVars, pause, sawPause, cur, outcome, hbVars, schedVars>>

\* _fail_invalid_claim captures the instant and closes the job as permanent.
RejectClaim(w) ==
  /\ pc[w] = "invalid"
  /\ pc' = [pc EXCEPT ![w] = "terminal"]
  /\ seen' = [seen EXCEPT ![w] = 0]
  /\ outcome' = [outcome EXCEPT ![w] = "permanent"]
  /\ UNCHANGED <<jobVars, pause, sawPause, cur, hbVars, schedVars>>

\* finish_job
FinishJob(w) ==
  LET j == cur[w].job IN
  /\ pc[w] = "terminal"
  /\ outcome[w] = "succeeded"
  /\ HasActiveLease(j, w, seen[w])
  /\ status' = [status EXCEPT ![j] = "succeeded"]
  /\ ClearLease(j)
  /\ Release(w)
  /\ UNCHANGED <<attempt, due, ckpt, retries, pause, hbVars, schedVars>>

\* Mutant of RequeueFailedJob: one attempt too many is given back.
RequeueOnceMore(w) ==
  LET j == cur[w].job IN
  /\ pc[w] = "terminal"
  /\ outcome[w] = "retryable"
  /\ HasActiveLease(j, w, seen[w])
  /\ attempt[j] <= MaxAttempts[j]
  /\ \E d \in Delays : due' = [due EXCEPT ![j] = seen[w] + d]
  /\ status' = [status EXCEPT ![j] = "queued"]
  /\ ClearLease(j)
  /\ Release(w)
  /\ UNCHANGED <<attempt, ckpt, retries, pause, hbVars, schedVars>>

\* fail_job, its retryable branch: requeued at retry_at while attempts are left.
RequeueFailedJob(w) ==
  LET j == cur[w].job IN
  /\ pc[w] = "terminal"
  /\ outcome[w] = "retryable"
  /\ HasActiveLease(j, w, seen[w])
  /\ attempt[j] < MaxAttempts[j]
  /\ \E d \in Delays : due' = [due EXCEPT ![j] = seen[w] + d]
  /\ status' = [status EXCEPT ![j] = "queued"]
  /\ ClearLease(j)
  /\ Release(w)
  /\ UNCHANGED <<attempt, ckpt, retries, pause, hbVars, schedVars>>

\* fail_job, its terminal branches.
FailJob(w) ==
  LET j == cur[w].job IN
  /\ pc[w] = "terminal"
  /\ outcome[w] # "succeeded"
  /\ HasActiveLease(j, w, seen[w])
  /\ outcome[w] = "retryable" => attempt[j] >= MaxAttempts[j]
  /\ status' = [status EXCEPT ![j] = IF outcome[w] = "needs_review"
                                     THEN "needs_review" ELSE "failed"]
  /\ ClearLease(j)
  /\ Release(w)
  /\ UNCHANGED <<attempt, due, ckpt, retries, pause, hbVars, schedVars>>

\* InvalidJobTransition: the claim is stale and the result is dropped.
DropStaleClaim(w) ==
  /\ pc[w] = "terminal"
  /\ ~HasActiveLease(cur[w].job, w, seen[w])
  /\ Release(w)
  /\ UNCHANGED <<jobVars, pause, hbVars, schedVars>>

\* The process dies and is restarted under the same NEWSCRAFT_COMPONENT_ID.
CrashWorker(w) ==
  /\ pc[w] # "idle"
  /\ Release(w)
  /\ hbOn' = [hbOn EXCEPT ![w] = FALSE]
  /\ hb' = [hb EXCEPT ![w] = 0]
  /\ UNCHANGED <<jobVars, pause, schedVars>>

-----------------------------------------------------------------------------
(* The scheduler: requeue_expired_leases at the start of every tick. *)

\* A RUNNING row whose lease ended at or before t.
Expired(j, t) == status[j] = "running" /\ lease[j] <= t

\* Mutant of ScanExpired: only rows with attempts left are recovered.
ScanRetriable ==
  /\ ~tickOn
  /\ tickOn' = TRUE
  /\ tickSeen' = 0
  /\ candidates' = {j \in Jobs : Expired(j, 0) /\ attempt[j] < MaxAttempts[j]}
  /\ UNCHANGED <<jobVars, pause, workerVars, hbVars>>

\* observed_at is captured and the candidates are selected without locks.
ScanExpired ==
  /\ ~tickOn
  /\ tickOn' = TRUE
  /\ tickSeen' = 0
  /\ candidates' = {j \in Jobs : Expired(j, 0)}
  /\ UNCHANGED <<jobVars, pause, workerVars, hbVars>>

EndTick ==
  /\ tickOn' = FALSE
  /\ tickSeen' = 0
  /\ candidates' = {}

\* Mutant of RecoveredStatus: an exhausted job is requeued as well.
RecoveredAlways(j, review) == IF review THEN "needs_review" ELSE "queued"

\* What recovery writes into status: review stands for a receipt found in
\* "dispatching" (_sync_expired_publish_ambiguity).
RecoveredStatus(j, review) ==
  IF review THEN "needs_review"
  ELSE IF attempt[j] >= MaxAttempts[j] THEN "failed" ELSE "queued"

\* Mutant of Recoverable: the rows are not rechecked under the lock.
RecoverableUnchecked == candidates

\* Candidates that are still expired once locked, by the instant of the scan.
Recoverable == {j \in candidates : Expired(j, tickSeen)}

\* Every candidate is locked, rechecked and settled, and the pass commits.  A
\* row once locked stays as it is until the commit, so the pass is one step.
RequeueExpiredLeases ==
  /\ tickOn
  /\ \E review \in SUBSET (Publishing \cap Recoverable) :
       /\ status' = [j \in Jobs |-> IF j \in Recoverable
                       THEN RecoveredStatus(j, j \in review) ELSE status[j]]
       /\ due' = [j \in Jobs |->
                    IF j \in Recoverable
                       /\ RecoveredStatus(j, j \in review) = "queued"
                    THEN tickSeen ELSE due[j]]
  /\ owner' = [j \in Jobs |-> IF j \in Recoverable THEN NoOwner ELSE owner[j]]
  /\ lease' = [j \in Jobs |-> IF j \in Recoverable THEN 0 ELSE lease[j]]
  /\ EndTick
  /\ UNCHANGED <<attempt, ckpt, retries, pause, workerVars, hbVars>>

\* The scheduler dies in its transaction, which is rolled back.
CrashScheduler ==
  /\ tickOn
  /\ EndTick
  /\ UNCHANGED <<jobVars, pause, workerVars, hbVars>>

-----------------------------------------------------------------------------
(* Time. *)

\* One unit less, and not below the horizon.
Older(t) == IF t > -Horizon THEN t - 1 ELSE -Horizon

\* No process holds a captured instant for more than Horizon units.
Tick ==
  /\ \A w \in Workers : /\ pc[w] \in Timed => seen[w] > -Horizon
                        /\ hbOn[w] => hb[w] > -Horizon
  /\ tickOn => tickSeen > -Horizon
  /\ lease' = [j \in Jobs |-> IF status[j] = "running"
                              THEN Older(lease[j]) ELSE lease[j]]
  /\ due' = [j \in Jobs |-> IF status[j] = "queued"
                            THEN Older(due[j]) ELSE due[j]]
  /\ seen' = [w \in Workers |-> IF pc[w] \in Timed
                                THEN Older(seen[w]) ELSE seen[w]]
  /\ hb' = [w \in Workers |-> IF hbOn[w] THEN Older(hb[w]) ELSE hb[w]]
  /\ tickSeen' = IF tickOn THEN Older(tickSeen) ELSE tickSeen
  /\ UNCHANGED <<status, attempt, owner, ckpt, retries, pause, pc, sawPause,
                 cur, outcome, hbOn, tickOn, candidates>>

-----------------------------------------------------------------------------
Operator == \E j \in Jobs : Enqueue(j) \/ RetryJob(j) \/ CancelJob(j)

WorkerLoop(w) ==
  \/ Observe(w) \/ ReadPause(w) \/ (\E j \in Jobs : Claim(w, j))
  \/ ClaimNothing(w) \/ RejectClaim(w) \/ CheckpointRefused(w)
  \/ HandlerReturns(w) \/ StopHeartbeat(w)
  \/ FinishJob(w) \/ RequeueFailedJob(w) \/ FailJob(w) \/ DropStaleClaim(w)

Heartbeat(w) == HeartbeatObserve(w) \/ HeartbeatJob(w)

Scheduler == ScanExpired \/ RequeueExpiredLeases

Next ==
  \/ Operator \/ SetPause
  \/ \E w \in Workers : WorkerLoop(w) \/ Heartbeat(w) \/ CheckpointJob(w)
                        \/ CrashWorker(w)
  \/ Scheduler \/ CrashScheduler
  \/ Tick

Spec == Init /\ [][Next]_vars

(***************************************************************************)
(* Fairness.  The poll loop and the tick loop run for ever and transactions *)
(* end; a handler returns (every outbound call of a handler has a timeout); *)
(* time passes.  Strong fairness where a restart may interrupt the loop: a  *)
(* process that is restarted again and again still gets through once.       *)
(* Nothing is assumed of the operator, of enqueues or of crashes.           *)
(***************************************************************************)
Fairness ==
  /\ \A w \in Workers :
       /\ WF_vars(WorkerLoop(w))
       /\ WF_vars(HeartbeatJob(w))
       /\ SF_vars(ReadPause(w))
       /\ SF_vars(\E j \in Jobs : Claim(w, j))
  /\ WF_vars(ScanExpired)
  /\ SF_vars(RequeueExpiredLeases)
  /\ WF_vars(Tick)

FairSpec == Spec /\ Fairness

-----------------------------------------------------------------------------
(* Properties. *)

\* The rows, the workers' local state and the scheduler's tick keep their types:
\* a row names an owner or nobody, and never a status the code does not know.
TypeOK ==
  /\ status \in [Jobs -> Statuses]
  /\ attempt \in [Jobs -> Nat]
  /\ owner \in [Jobs -> Workers \cup {NoOwner}]
  /\ lease \in [Jobs -> Int]
  /\ due \in [Jobs -> Int]
  /\ ckpt \in [Jobs -> Nat]
  /\ retries \in [Jobs -> Nat]
  /\ pause \in BOOLEAN
  /\ pc \in [Workers -> Pcs]
  /\ seen \in [Workers -> Int]
  /\ sawPause \in [Workers -> BOOLEAN]
  /\ cur \in [Workers -> Execs]
  /\ outcome \in [Workers -> Outcomes]
  /\ hbOn \in [Workers -> BOOLEAN]
  /\ hb \in [Workers -> Int]
  /\ tickOn \in BOOLEAN
  /\ tickSeen \in Int
  /\ candidates \in SUBSET Jobs

\* The worker is between a claim and the end of run_once.
Busy(w) == pc[w] \in {"handling", "invalid", "draining", "terminal"}

\* The lease fence compares worker ids only, never attempt numbers.  It is
\* enough: whenever a row names a worker that is in the middle of that job,
\* the row's attempt is the one this process claimed, so no heartbeat,
\* checkpoint, finish or fail of an earlier claim can land on a later one.
ClaimFence ==
  \A w \in Workers :
    Busy(w) /\ status[cur[w].job] = "running" /\ owner[cur[w].job] = w
      => attempt[cur[w].job] = cur[w].attempt

\* A job is claimed at most max_attempts times, and once more for every
\* operator retry, whatever crashes, expiries and failures occur in between.
AttemptsBounded ==
  \A j \in Jobs : attempt[j] <= MaxAttempts[j] + retries[j]

\* A row leaves RUNNING only through the worker that holds this very claim,
\* or, by lease recovery, once its lease has run out: the recheck after the
\* lock protects a lease that was renewed after the scheduler's scan.
LiveLeaseKept ==
  [][\A j \in Jobs :
       status[j] = "running" /\ status'[j] # "running"
         => \/ lease[j] <= 0
            \/ \E w \in Workers : /\ pc[w] = "terminal"
                                  /\ owner[j] = w
                                  /\ cur[w] = [job |-> j,
                                               attempt |-> attempt[j]]]_vars

\* A handler that lost its lease never overwrites the checkpoint of a later
\* attempt: the attempt that wrote payload/result never goes back.
CheckpointsMoveForward ==
  [][\A j \in Jobs : ckpt'[j] >= ckpt[j]]_vars

\* A heartbeat captured before it waited for the row lock never shortens the
\* lease: between two instants the expiry moves only forward while the claim
\* lasts (a step of the clock lowers the offset by one and no more).
LeaseOnlyExtended ==
  [][\A j \in Jobs :
       status[j] = "running" /\ status'[j] = "running"
         => lease'[j] >= lease[j] - 1 /\ (lease'[j] < lease[j] => Tick)]_vars

\* A finished row is final: SUCCEEDED and CANCELLED are never left, FAILED and
\* NEEDS_REVIEW only by an operator retry, even with stale workers, late
\* heartbeats and recovery scans still under way.
FinalStatesKept ==
  [][\A j \in Jobs :
       /\ status[j] \in {"succeeded", "cancelled"} => status'[j] = status[j]
       /\ status[j] \in {"failed", "needs_review"} /\ status'[j] # status[j]
            => status'[j] = "queued" /\ retries'[j] = retries[j] + 1]_vars

\* claim_next_job reads global_pause and picks the row in two statements.  Once
\* the claims that read the flag before the pause are over, the pause holds:
\* until it is lifted no work subject to it starts, whatever becomes queued
\* (a recovered lease, a retry, a failed attempt), and no poll misses the flag.
PauseHolds ==
  [][(pause /\ pause' /\ \A w \in Workers : pc[w] = "claiming" => sawPause[w])
       => /\ \A j \in Jobs \ PauseExempt :
               status'[j] = "running" => status[j] = "running"
          /\ \A w \in Workers : pc'[w] = "claiming" => sawPause'[w]]_vars

\* No claim lasts for ever: the worker closes it, or its lease runs out and
\* the scheduler takes the row back, however often processes die.
EveryClaimEnds ==
  \A j \in Jobs : \A n \in 1..(MaxAttempts[j] + MaxRetries) :
    (status[j] = "running" /\ attempt[j] = n)
      ~> ~(status[j] = "running" /\ attempt[j] = n)

\* A job that is queued is started, or cancelled, unless automation is paused.
QueuedJobsStart ==
  \A j \in Jobs : status[j] = "queued" ~> status[j] # "queued" \/ pause

\* The queue implements the life of a job that its users rely on.
Lifecycle == INSTANCE JobLifecycle
LifecycleSpec == Lifecycle!Spec

\* An operator retry gives the job a run of its handler: no claim of a
\* retried job is thrown away before the handler is called.
RetriedJobsRun ==
  \A w \in Workers : pc[w] = "invalid" => retries[cur[w].job] = 0
=============================================================================
