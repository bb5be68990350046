--------------------------- MODULE JobQueueProofs ---------------------------
(***************************************************************************)
(* Proofs about the job queue, for every set of jobs and workers and every  *)
(* lease length: its types, the lease fence, the attempt budget, what a     *)
(* step may never do to a row, and that it implements JobLifecycle.         *)
(***************************************************************************)
EXTENDS JobQueue, TLAPS

\* A row has an owner exactly while it is running.
OwnedWhileRunning ==
  \A j \in Jobs : /\ status[j] = "running" => owner[j] \in Workers
                  /\ status[j] # "running" => owner[j] = NoOwner

\* A busy worker works on a job; only a busy worker has a heartbeat task.
ExecInv ==
  \A w \in Workers : /\ Busy(w) => cur[w] \in [job : Jobs, attempt : Nat]
                     /\ hbOn[w] => pc[w] \in {"handling", "draining"}

\* A captured instant lies in the past.
InstantInv ==
  /\ \A w \in Workers : seen[w] <= 0 /\ hb[w] <= 0
  /\ tickSeen <= 0

\* No lease reaches further than one lease length from the instant its holder
\* captured last, so the heartbeat under way cannot shorten it.
LeaseInv ==
  /\ \A j \in Jobs : status[j] = "running" => lease[j] <= Lease
  /\ \A w \in Workers :
       hbOn[w] /\ owner[cur[w].job] = w => lease[cur[w].job] <= hb[w] + Lease

\* A job that waits to be claimed has an attempt left.
BudgetInv ==
  \A j \in Jobs :
    /\ attempt[j] <= MaxAttempts[j] + retries[j]
    /\ status[j] \in {"absent", "queued"}
         => attempt[j] < MaxAttempts[j] + retries[j]
    /\ status[j] = "absent" => attempt[j] = 0 /\ retries[j] = 0

\* Only attempts that were made have written a checkpoint.
CheckpointInv == \A j \in Jobs : ckpt[j] <= attempt[j]

\* The inductive invariant: the types, and Rest.
Rest ==
  /\ OwnedWhileRunning
  /\ ExecInv
  /\ InstantInv
  /\ LeaseInv
  /\ BudgetInv
  /\ CheckpointInv
  /\ ClaimFence

IInv == TypeOK /\ Rest

\* Every step keeps the types.
LEMMA TypeInductive ==
  ASSUME TypeOK, ExecInv, [Next]_vars
  PROVE  TypeOK'
<1> USE ConstantsAssumption DEF TypeOK, Pcs, Execs, NoExec, Statuses,
        Outcomes, jobVars, workerVars, hbVars, schedVars
<1>1. ASSUME NEW j \in Jobs, Enqueue(j) PROVE TypeOK'
  BY <1>1 DEF Enqueue
<1>2. ASSUME NEW j \in Jobs, RetryJob(j) PROVE TypeOK'
  BY <1>2 DEF RetryJob, ClearLease
<1>3. ASSUME NEW j \in Jobs, CancelJob(j) PROVE TypeOK'
  BY <1>3 DEF CancelJob
<1>4. ASSUME SetPause PROVE TypeOK'
  BY <1>4 DEF SetPause
<1>5. ASSUME NEW w \in Workers, Observe(w) PROVE TypeOK'
  BY <1>5 DEF Observe
<1>6. ASSUME NEW w \in Workers, ReadPause(w) PROVE TypeOK'
  BY <1>6 DEF ReadPause
<1>7. ASSUME NEW w \in Workers, NEW j \in Jobs, Claim(w, j) PROVE TypeOK'
  BY <1>7 DEF Claim, Claimable, Forget
<1>8. ASSUME NEW w \in Workers, ClaimNothing(w) PROVE TypeOK'
  BY <1>8 DEF ClaimNothing, Release, Forget
<1>9. ASSUME NEW w \in Workers, RejectClaim(w) PROVE TypeOK'
  BY <1>9 DEF RejectClaim
<1>10. ASSUME NEW w \in Workers, CheckpointRefused(w) PROVE TypeOK'
  BY <1>10 DEF CheckpointRefused
<1>11. ASSUME NEW w \in Workers, HandlerReturns(w) PROVE TypeOK'
  BY <1>11 DEF HandlerReturns
<1>12. ASSUME NEW w \in Workers, StopHeartbeat(w) PROVE TypeOK'
  BY <1>12 DEF StopHeartbeat
<1>13. ASSUME NEW w \in Workers, FinishJob(w) PROVE TypeOK'
  <2>1. cur[w].job \in Jobs /\ cur[w].attempt \in Nat
    BY <1>13 DEF FinishJob, ExecInv, Busy
  <2> QED
    BY <1>13, <2>1 DEF FinishJob, HasActiveLease, ClearLease, Release, Forget
<1>14. ASSUME NEW w \in Workers, RequeueFailedJob(w) PROVE TypeOK'
  <2>1. cur[w].job \in Jobs /\ cur[w].attempt \in Nat
    BY <1>14 DEF RequeueFailedJob, ExecInv, Busy
  <2> QED
    BY <1>14, <2>1 DEF RequeueFailedJob, HasActiveLease, ClearLease, Release,
        Forget
<1>15. ASSUME NEW w \in Workers, FailJob(w) PROVE TypeOK'
  <2>1. cur[w].job \in Jobs /\ cur[w].attempt \in Nat
    BY <1>15 DEF FailJob, ExecInv, Busy
  <2> QED
    BY <1>15, <2>1 DEF FailJob, HasActiveLease, ClearLease, Release, Forget
<1>16. ASSUME NEW w \in Workers, DropStaleClaim(w) PROVE TypeOK'
  BY <1>16 DEF DropStaleClaim, Release, Forget
<1>17. ASSUME NEW w \in Workers, HeartbeatObserve(w) PROVE TypeOK'
  BY <1>17 DEF HeartbeatObserve
<1>18. ASSUME NEW w \in Workers, HeartbeatJob(w) PROVE TypeOK'
  BY <1>18 DEF HeartbeatJob, HasActiveLease
<1>19. ASSUME NEW w \in Workers, CheckpointJob(w) PROVE TypeOK'
  <2>1. cur[w].job \in Jobs /\ cur[w].attempt \in Nat
    BY <1>19 DEF CheckpointJob, ExecInv, Busy
  <2> QED
    BY <1>19, <2>1 DEF CheckpointJob, HasActiveLease
<1>20. ASSUME NEW w \in Workers, CrashWorker(w) PROVE TypeOK'
  BY <1>20 DEF CrashWorker, Release, Forget
<1>21. ASSUME ScanExpired PROVE TypeOK'
  BY <1>21 DEF ScanExpired, Expired
<1>22. ASSUME RequeueExpiredLeases PROVE TypeOK'
  <2>1. Recoverable \subseteq Jobs
    BY DEF Recoverable, TypeOK
  <2>2. /\ candidates' \subseteq Jobs
        /\ tickOn' = FALSE
        /\ tickSeen' \in Int
        /\ owner' \in [Jobs -> Workers \cup {NoOwner}]
        /\ lease' \in [Jobs -> Int]
    BY <1>22 DEF RequeueExpiredLeases, EndTick, TypeOK
  <2>3. status' \in [Jobs -> Statuses] /\ due' \in [Jobs -> Int]
    BY <1>22 DEF RequeueExpiredLeases, RecoveredStatus, TypeOK, Statuses
  <2> QED
    BY <1>22, <2>2, <2>3
    DEF RequeueExpiredLeases, TypeOK, workerVars, hbVars
<1>23. ASSUME CrashScheduler PROVE TypeOK'
  <2>1. candidates' \subseteq Jobs /\ tickSeen' \in Int /\ tickOn' = FALSE
    BY <1>23 DEF CrashScheduler, EndTick
  <2> QED
    BY <1>23, <2>1
    DEF CrashScheduler, TypeOK, jobVars, workerVars, hbVars
<1>24. ASSUME Tick PROVE TypeOK'
  BY <1>24 DEF Tick, Older
<1>25. ASSUME UNCHANGED vars PROVE TypeOK'
  BY <1>25 DEF vars
<1> QED
  BY <1>1, <1>2, <1>3, <1>4, <1>5, <1>6, <1>7, <1>8, <1>9, <1>10, <1>11,
     <1>12, <1>13, <1>14, <1>15, <1>16, <1>17, <1>18, <1>19, <1>20, <1>21,
     <1>22, <1>23, <1>24, <1>25 DEF Next, Operator, WorkerLoop, Heartbeat,
     Scheduler

\* Every step keeps the other parts.
LEMMA RestInductive ==
  ASSUME IInv, [Next]_vars
  PROVE  Rest'
<1> USE ConstantsAssumption DEF IInv, Rest, TypeOK, Pcs, Execs, NoExec,
        Statuses, Outcomes, Busy, OwnedWhileRunning, ExecInv, InstantInv,
        LeaseInv, BudgetInv, CheckpointInv, ClaimFence, jobVars, workerVars,
        hbVars, schedVars
<1>1. ASSUME NEW j \in Jobs, Enqueue(j) PROVE Rest'
  BY <1>1 DEF Enqueue
<1>2. ASSUME NEW j \in Jobs, RetryJob(j) PROVE Rest'
  <2>1. OwnedWhileRunning'
    BY <1>2 DEF RetryJob, ClearLease
  <2>2. ExecInv'
    BY <1>2 DEF RetryJob, ClearLease
  <2>3. InstantInv'
    BY <1>2 DEF RetryJob, ClearLease
  <2>4. LeaseInv'
    BY <1>2 DEF RetryJob, ClearLease
  <2>5. BudgetInv'
    <3>1. \A k \in Jobs : /\ attempt[k] \in Nat
                           /\ retries[k] \in Nat
                           /\ MaxAttempts[k] \in Nat
      BY ConstantsAssumption DEF IInv, Rest, TypeOK
    <3>2. \A k \in Jobs \ {j} : /\ status'[k] = status[k]
                                 /\ attempt'[k] = attempt[k]
                                 /\ retries'[k] = retries[k]
      BY <1>2 DEF RetryJob, IInv, Rest, TypeOK
    <3>3. /\ status'[j] = "queued"
          /\ attempt'[j] = attempt[j]
          /\ retries'[j] = retries[j] + 1
      BY <1>2 DEF RetryJob, IInv, Rest, TypeOK
    <3>4. status[j] \in {"failed", "needs_review"}
      BY <1>2 DEF RetryJob
    <3> QED
      BY <3>1, <3>2, <3>3, <3>4 DEF IInv, Rest, BudgetInv
  <2>6. CheckpointInv'
    BY <1>2 DEF RetryJob, ClearLease
  <2>7. ClaimFence'
    BY <1>2 DEF RetryJob, ClearLease
  <2> QED
    BY <2>1, <2>2, <2>3, <2>4, <2>5, <2>6, <2>7 DEF Rest
<1>3. ASSUME NEW j \in Jobs, CancelJob(j) PROVE Rest'
  BY <1>3 DEF CancelJob
<1>4. ASSUME SetPause PROVE Rest'
  BY <1>4 DEF SetPause
<1>5. ASSUME NEW w \in Workers, Observe(w) PROVE Rest'
  BY <1>5 DEF Observe
<1>6. ASSUME NEW w \in Workers, ReadPause(w) PROVE Rest'
  BY <1>6 DEF ReadPause
<1>7. ASSUME NEW w \in Workers, NEW j \in Jobs, Claim(w, j) PROVE Rest'
  <2>1. OwnedWhileRunning'
    BY <1>7 DEF Claim, Claimable, Forget
  <2>2. ExecInv'
    BY <1>7 DEF Claim, Claimable, Forget
  <2>3. InstantInv'
    BY <1>7 DEF Claim, Claimable, Forget
  <2>4. LeaseInv'
    BY <1>7 DEF Claim, Claimable, Forget
  <2>5. BudgetInv'
    <3>1. \A k \in Jobs : /\ attempt[k] \in Nat
                           /\ retries[k] \in Nat
                           /\ MaxAttempts[k] \in Nat
      BY ConstantsAssumption DEF IInv, Rest, TypeOK
    <3>2. \A k \in Jobs \ {j} : /\ status'[k] = status[k]
                                 /\ attempt'[k] = attempt[k]
                                 /\ retries'[k] = retries[k]
      BY <1>7 DEF Claim, Claimable, IInv, Rest, TypeOK
    <3>3. /\ status'[j] = "running"
          /\ attempt'[j] = attempt[j] + 1
          /\ retries'[j] = retries[j]
      BY <1>7 DEF Claim, Claimable, IInv, Rest, TypeOK
    <3>4. status[j] = "queued"
      BY <1>7 DEF Claim, Claimable
    <3> QED
      BY <3>1, <3>2, <3>3, <3>4 DEF IInv, Rest, BudgetInv
  <2>6. CheckpointInv'
    BY <1>7 DEF Claim, Claimable, Forget
  <2>7. ClaimFence'
    BY <1>7 DEF Claim, Claimable, Forget
  <2> QED
    BY <2>1, <2>2, <2>3, <2>4, <2>5, <2>6, <2>7 DEF Rest
<1>8. ASSUME NEW w \in Workers, ClaimNothing(w) PROVE Rest'
  BY <1>8 DEF ClaimNothing, Release, Forget
<1>9. ASSUME NEW w \in Workers, RejectClaim(w) PROVE Rest'
  BY <1>9 DEF RejectClaim
<1>10. ASSUME NEW w \in Workers, CheckpointRefused(w) PROVE Rest'
  BY <1>10 DEF CheckpointRefused
<1>11. ASSUME NEW w \in Workers, HandlerReturns(w) PROVE Rest'
  BY <1>11 DEF HandlerReturns
<1>12. ASSUME NEW w \in Workers, StopHeartbeat(w) PROVE Rest'
  BY <1>12 DEF StopHeartbeat
<1>13. ASSUME NEW w \in Workers, FinishJob(w) PROVE Rest'
  BY <1>13 DEF FinishJob, HasActiveLease, ClearLease, Release, Forget
<1>14. ASSUME NEW w \in Workers, RequeueFailedJob(w) PROVE Rest'
  <2>1. OwnedWhileRunning'
    BY <1>14 DEF RequeueFailedJob, HasActiveLease, ClearLease, Release, Forget
  <2>2. ExecInv'
    BY <1>14 DEF RequeueFailedJob, HasActiveLease, ClearLease, Release, Forget
  <2>3. InstantInv'
    BY <1>14 DEF RequeueFailedJob, HasActiveLease, ClearLease, Release, Forget
  <2>4. LeaseInv'
    BY <1>14, SMTT(20) DEF RequeueFailedJob, HasActiveLease, ClearLease, Release, Forget
  <2>5. BudgetInv'
    <3>1. \A k \in Jobs : /\ attempt[k] \in Nat
                           /\ retries[k] \in Nat
                           /\ MaxAttempts[k] \in Nat
      BY ConstantsAssumption DEF IInv, Rest, TypeOK
    <3>2. \A k \in Jobs \ {cur[w].job} : /\ status'[k] = status[k]
                                 /\ attempt'[k] = attempt[k]
                                 /\ retries'[k] = retries[k]
      BY <1>14 DEF RequeueFailedJob, ExecInv, Busy, Execs, IInv, Rest, TypeOK
    <3>3. /\ cur[w].job \in Jobs
          /\ status'[cur[w].job] = "queued"
          /\ attempt'[cur[w].job] = attempt[cur[w].job]
          /\ retries'[cur[w].job] = retries[cur[w].job]
      BY <1>14, ConstantsAssumption DEF RequeueFailedJob, ExecInv, Busy,
          Execs, IInv, Rest, TypeOK
    <3>4. attempt[cur[w].job] < MaxAttempts[cur[w].job]
      BY <1>14, ConstantsAssumption DEF RequeueFailedJob, ExecInv, Busy, Execs
    <3> QED
      BY <3>1, <3>2, <3>3, <3>4 DEF IInv, Rest, BudgetInv
  <2>6. CheckpointInv'
    BY <1>14 DEF RequeueFailedJob, HasActiveLease, ClearLease, Release, Forget
  <2>7. ClaimFence'
    BY <1>14 DEF RequeueFailedJob, HasActiveLease, ClearLease, Release, Forget
  <2> QED
    BY <2>1, <2>2, <2>3, <2>4, <2>5, <2>6, <2>7 DEF Rest
<1>15. ASSUME NEW w \in Workers, FailJob(w) PROVE Rest'
  BY <1>15 DEF FailJob, HasActiveLease, ClearLease, Release, Forget
<1>16. ASSUME NEW w \in Workers, DropStaleClaim(w) PROVE Rest'
  BY <1>16 DEF DropStaleClaim, Release, Forget
<1>17. ASSUME NEW w \in Workers, HeartbeatObserve(w) PROVE Rest'
  BY <1>17 DEF HeartbeatObserve
<1>18. ASSUME NEW w \in Workers, HeartbeatJob(w) PROVE Rest'
  <2>1. OwnedWhileRunning' /\ ClaimFence'
    BY <1>18 DEF HeartbeatJob
  <2>2. ExecInv' /\ InstantInv' /\ CheckpointInv'
    BY <1>18 DEF HeartbeatJob
  <2>3. BudgetInv'
    BY <1>18 DEF HeartbeatJob
  <2>4. LeaseInv'
    <3>1. cur[w].job \in Jobs
      BY <1>18 DEF HeartbeatJob
    <3>2. \A k \in Jobs : status'[k] = "running" => lease'[k] <= Lease
      BY <1>18, <3>1 DEF HeartbeatJob
    <3>3. ASSUME NEW x \in Workers, hbOn'[x], owner'[cur'[x].job] = x
          PROVE  lease'[cur'[x].job] <= hb'[x] + Lease
      <4>1. x # w /\ hbOn[x] /\ hb'[x] = hb[x] /\ cur'[x] = cur[x]
        BY <1>18, <3>3 DEF HeartbeatJob
      <4>2. owner[cur[x].job] = x /\ cur[x].job \in Jobs
        BY <1>18, <3>3, <4>1 DEF HeartbeatJob
      <4>3. lease'[cur[x].job] = lease[cur[x].job]
        BY <1>18, <3>1, <4>1, <4>2 DEF HeartbeatJob, HasActiveLease
      <4> QED
        BY <4>1, <4>2, <4>3
    <3> QED
      BY <3>2, <3>3 DEF LeaseInv
  <2> QED
    BY <2>1, <2>2, <2>3, <2>4 DEF Rest
<1>19. ASSUME NEW w \in Workers, CheckpointJob(w) PROVE Rest'
  BY <1>19 DEF CheckpointJob, HasActiveLease
<1>20. ASSUME NEW w \in Workers, CrashWorker(w) PROVE Rest'
  BY <1>20 DEF CrashWorker, Release, Forget
<1>21. ASSUME ScanExpired PROVE Rest'
  BY <1>21 DEF ScanExpired, Expired
<1>22. ASSUME RequeueExpiredLeases PROVE Rest'
  BY <1>22 DEF RequeueExpiredLeases, RecoveredStatus, Recoverable, Expired,
      EndTick
<1>23. ASSUME CrashScheduler PROVE Rest'
  BY <1>23 DEF CrashScheduler, EndTick
<1>24. ASSUME Tick PROVE Rest'
  BY <1>24 DEF Tick, Older
<1>25. ASSUME UNCHANGED vars PROVE Rest'
  BY <1>25, SMTT(20) DEF vars
<1> QED
  BY <1>1, <1>2, <1>3, <1>4, <1>5, <1>6, <1>7, <1>8, <1>9, <1>10, <1>11,
     <1>12, <1>13, <1>14, <1>15, <1>16, <1>17, <1>18, <1>19, <1>20, <1>21,
     <1>22, <1>23, <1>24, <1>25 DEF Next, Operator, WorkerLoop, Heartbeat,
     Scheduler

\* What one step may do to row k: nothing but a new checkpoint or a lease that
\* moves forward; or one transition of its status, with whoever may cause it.
SameCounters(k) == attempt'[k] = attempt[k] /\ retries'[k] = retries[k]

ClosedByHolder(k) ==
  \E w \in Workers : /\ pc[w] = "terminal"
                     /\ owner[k] = w
                     /\ cur[w] = [job |-> k, attempt |-> attempt[k]]

StartedByPoll(k) ==
  \E w \in Workers : pc[w] = "claiming" /\ (sawPause[w] => k \in PauseExempt)

RowStep(k) ==
  \/ /\ status'[k] = status[k]
     /\ SameCounters(k)
     /\ ckpt'[k] >= ckpt[k]
     /\ \/ lease'[k] >= lease[k]
        \/ status[k] # "running"
        \/ Tick /\ lease'[k] >= lease[k] - 1
  \/ /\ ckpt'[k] = ckpt[k]
     /\ \/ /\ status[k] = "absent" /\ status'[k] = "queued"
           /\ SameCounters(k)
        \/ /\ status[k] \in {"failed", "needs_review"}
           /\ status'[k] = "queued"
           /\ attempt'[k] = attempt[k] /\ retries'[k] = retries[k] + 1
        \/ /\ status[k] = "queued" /\ status'[k] = "cancelled"
           /\ SameCounters(k)
        \/ /\ status[k] = "queued" /\ status'[k] = "running"
           /\ attempt'[k] = attempt[k] + 1 /\ retries'[k] = retries[k]
           /\ StartedByPoll(k)
        \/ /\ status[k] = "running"
           /\ \/ status'[k] \in {"succeeded", "failed", "needs_review"}
              \/ status'[k] = "queued" /\ attempt[k] < MaxAttempts[k]
           /\ SameCounters(k)
           /\ lease[k] <= 0 \/ ClosedByHolder(k)

\* Every step does one of these to a row.
LEMMA RowSteps ==
  ASSUME IInv, NEW k \in Jobs, [Next]_vars
  PROVE  RowStep(k)
<1> USE ConstantsAssumption DEF IInv, Rest, TypeOK, Execs, NoExec, RowStep,
        SameCounters, jobVars, workerVars, hbVars, schedVars
<1>1. ASSUME NEW j \in Jobs, Enqueue(j) PROVE RowStep(k)
  BY <1>1 DEF Enqueue
<1>2. ASSUME NEW j \in Jobs, RetryJob(j) PROVE RowStep(k)
  BY <1>2 DEF RetryJob, ClearLease
<1>3. ASSUME NEW j \in Jobs, CancelJob(j) PROVE RowStep(k)
  BY <1>3 DEF CancelJob
<1>4. ASSUME SetPause PROVE RowStep(k)
  BY <1>4 DEF SetPause
<1>5. ASSUME NEW w \in Workers, Observe(w) PROVE RowStep(k)
  BY <1>5 DEF Observe
<1>6. ASSUME NEW w \in Workers, ReadPause(w) PROVE RowStep(k)
  BY <1>6 DEF ReadPause
<1>7. ASSUME NEW w \in Workers, NEW j \in Jobs, Claim(w, j) PROVE RowStep(k)
  BY <1>7 DEF Claim, Claimable, Forget, StartedByPoll
<1>8. ASSUME NEW w \in Workers, ClaimNothing(w) PROVE RowStep(k)
  BY <1>8 DEF ClaimNothing, Release, Forget
<1>9. ASSUME NEW w \in Workers, RejectClaim(w) PROVE RowStep(k)
  BY <1>9 DEF RejectClaim
<1>10. ASSUME NEW w \in Workers, CheckpointRefused(w) PROVE RowStep(k)
  BY <1>10 DEF CheckpointRefused
<1>11. ASSUME NEW w \in Workers, HandlerReturns(w) PROVE RowStep(k)
  BY <1>11 DEF HandlerReturns
<1>12. ASSUME NEW w \in Workers, StopHeartbeat(w) PROVE RowStep(k)
  BY <1>12 DEF StopHeartbeat
<1>13. ASSUME NEW w \in Workers, FinishJob(w) PROVE RowStep(k)
  BY <1>13 DEF FinishJob, HasActiveLease, ClearLease, Release, Forget,
      ExecInv, Busy, ClosedByHolder, ClaimFence
<1>14. ASSUME NEW w \in Workers, RequeueFailedJob(w) PROVE RowStep(k)
  BY <1>14 DEF RequeueFailedJob, HasActiveLease, ClearLease, Release, Forget,
      ExecInv, Busy, ClosedByHolder, ClaimFence
<1>15. ASSUME NEW w \in Workers, FailJob(w) PROVE RowStep(k)
  BY <1>15 DEF FailJob, HasActiveLease, ClearLease, Release, Forget, ExecInv,
      Busy, ClosedByHolder, ClaimFence
<1>16. ASSUME NEW w \in Workers, DropStaleClaim(w) PROVE RowStep(k)
  BY <1>16 DEF DropStaleClaim, Release, Forget
<1>17. ASSUME NEW w \in Workers, HeartbeatObserve(w) PROVE RowStep(k)
  BY <1>17 DEF HeartbeatObserve
<1>18. ASSUME NEW w \in Workers, HeartbeatJob(w) PROVE RowStep(k)
  BY <1>18 DEF HeartbeatJob, HasActiveLease, ExecInv, Busy, LeaseInv,
      ClaimFence
<1>19. ASSUME NEW w \in Workers, CheckpointJob(w) PROVE RowStep(k)
  BY <1>19 DEF CheckpointJob, HasActiveLease, ExecInv, Busy, ClaimFence,
      CheckpointInv
<1>20. ASSUME NEW w \in Workers, CrashWorker(w) PROVE RowStep(k)
  BY <1>20 DEF CrashWorker, Release, Forget
<1>21. ASSUME ScanExpired PROVE RowStep(k)
  BY <1>21 DEF ScanExpired, Expired
<1>22. ASSUME RequeueExpiredLeases PROVE RowStep(k)
  BY <1>22 DEF RequeueExpiredLeases, RecoveredStatus, Recoverable, Expired,
      EndTick, InstantInv, OwnedWhileRunning
<1>23. ASSUME CrashScheduler PROVE RowStep(k)
  BY <1>23 DEF CrashScheduler, EndTick
<1>24. ASSUME Tick PROVE RowStep(k)
  BY <1>24 DEF Tick, Older
<1>25. ASSUME UNCHANGED vars PROVE RowStep(k)
  BY <1>25 DEF vars
<1> QED
  BY <1>1, <1>2, <1>3, <1>4, <1>5, <1>6, <1>7, <1>8, <1>9, <1>10, <1>11,
     <1>12, <1>13, <1>14, <1>15, <1>16, <1>17, <1>18, <1>19, <1>20, <1>21,
     <1>22, <1>23, <1>24, <1>25 DEF Next, Operator, WorkerLoop, Heartbeat,
     Scheduler

\* The queue starts empty, with every process idle.
LEMMA InitIInv == Init => IInv
<1> SUFFICES ASSUME Init PROVE IInv
  OBVIOUS
<1>1. TypeOK
  <2>1. candidates \subseteq Jobs /\ tickSeen \in Int
    BY DEF Init
  <2>2. tickOn \in BOOLEAN /\ pause \in BOOLEAN
    BY DEF Init
  <2> QED
    BY <2>1, <2>2, ConstantsAssumption
    DEF Init, TypeOK, Statuses, Pcs, Execs, NoExec, Outcomes
<1>2. Rest
  BY <1>1, ConstantsAssumption
  DEF Init, TypeOK, Rest, OwnedWhileRunning, ExecInv, InstantInv, LeaseInv,
      BudgetInv, CheckpointInv, ClaimFence, Busy
<1> QED
  BY <1>1, <1>2 DEF IInv

LEMMA StepIInv == IInv /\ [Next]_vars => IInv'
<1> SUFFICES ASSUME IInv, [Next]_vars PROVE IInv'
  OBVIOUS
<1>1. TypeOK'
  BY TypeInductive DEF IInv, Rest
<1>2. Rest'
  BY RestInductive
<1> QED
  BY <1>1, <1>2 DEF IInv

LEMMA Invariance == Spec => []IInv
<1> QED
  BY InitIInv, StepIInv, PTL DEF Spec

\* Every reachable state of the queue is well typed.
THEOREM TypeCorrect == Spec => []TypeOK
<1>1. IInv => TypeOK
  BY DEF IInv
<1> QED
  BY <1>1, Invariance, PTL

\* A worker id is fence enough: a row that names a worker in the middle of
\* that job is at the attempt this worker claimed (worker.py drops the result
\* of every other claim as stale).
THEOREM FenceHolds == Spec => []ClaimFence
<1>1. IInv => ClaimFence
  BY DEF IInv, Rest
<1> QED
  BY <1>1, Invariance, PTL

\* Claims never exceed max_attempts plus the operator's retries.
THEOREM BudgetHolds == Spec => []AttemptsBounded
<1>1. IInv => AttemptsBounded
  BY DEF IInv, Rest, BudgetInv, AttemptsBounded
<1> QED
  BY <1>1, Invariance, PTL

\* requeue_expired_leases never takes a row whose lease is still running, and
\* finish_job and fail_job close a row only for the claim that holds it.
THEOREM LeaseKept == Spec => LiveLeaseKept
<1> DEFINE A == \A j \in Jobs :
       status[j] = "running" /\ status'[j] # "running"
         => \/ lease[j] <= 0
            \/ \E w \in Workers : /\ pc[w] = "terminal"
                                  /\ owner[j] = w
                                  /\ cur[w] = [job |-> j,
                                               attempt |-> attempt[j]]
<1>1. IInv /\ [Next]_vars => A
  <2> SUFFICES ASSUME IInv, [Next]_vars, NEW k \in Jobs,
                      status[k] = "running", status'[k] # "running"
               PROVE  lease[k] <= 0 \/ ClosedByHolder(k)
    BY DEF ClosedByHolder
  <2> QED
    BY RowSteps DEF RowStep
<1>2. IInv /\ [Next]_vars => [A]_vars
  BY <1>1
<1> QED
  BY <1>2, Invariance, PTL DEF Spec, LiveLeaseKept

\* checkpoint_job never lets an earlier attempt overwrite a later one.
THEOREM CheckpointsForward == Spec => CheckpointsMoveForward
<1> DEFINE A == \A j \in Jobs : ckpt'[j] >= ckpt[j]
<1>1. IInv /\ [Next]_vars => A
  <2> SUFFICES ASSUME IInv, [Next]_vars, NEW k \in Jobs
               PROVE  ckpt'[k] >= ckpt[k]
    OBVIOUS
  <2>1. ckpt[k] \in Nat
    BY DEF IInv, TypeOK
  <2> QED
    BY <2>1, RowSteps DEF RowStep
<1>2. IInv /\ [Next]_vars => [A]_vars
  BY <1>1
<1> QED
  BY <1>2, Invariance, PTL DEF Spec, CheckpointsMoveForward

\* heartbeat_job, with an instant captured before the lock, never shortens a
\* lease.
THEOREM LeaseForward == Spec => LeaseOnlyExtended
<1> DEFINE A == \A j \in Jobs :
       status[j] = "running" /\ status'[j] = "running"
         => lease'[j] >= lease[j] - 1 /\ (lease'[j] < lease[j] => Tick)
<1>1. IInv /\ [Next]_vars => A
  <2> SUFFICES ASSUME IInv, [Next]_vars, NEW k \in Jobs,
                      status[k] = "running", status'[k] = "running"
               PROVE  lease'[k] >= lease[k] - 1 /\ (lease'[k] < lease[k] => Tick)
    OBVIOUS
  <2>1. lease[k] \in Int /\ lease'[k] \in Int
    BY StepIInv DEF IInv, TypeOK
  <2> QED
    BY <2>1, RowSteps DEF RowStep
<1>2. IInv /\ [Next]_vars => [A]_vars
  BY <1>1
<1> QED
  BY <1>2, Invariance, PTL DEF Spec, LeaseOnlyExtended

\* SUCCEEDED and CANCELLED are final; FAILED and NEEDS_REVIEW are left only by
\* retry_job.
THEOREM FinalKept == Spec => FinalStatesKept
<1> DEFINE A == \A j \in Jobs :
       /\ status[j] \in {"succeeded", "cancelled"} => status'[j] = status[j]
       /\ status[j] \in {"failed", "needs_review"} /\ status'[j] # status[j]
            => status'[j] = "queued" /\ retries'[j] = retries[j] + 1
<1>1. IInv /\ [Next]_vars => A
  BY RowSteps DEF RowStep
<1>2. IInv /\ [Next]_vars => [A]_vars
  BY <1>1
<1> QED
  BY <1>2, Invariance, PTL DEF Spec, FinalStatesKept

\* A worker that is about to pick a row read the flag in this step, or was
\* there already.
LEMMA PollSteps ==
  ASSUME IInv, NEW x \in Workers, [Next]_vars, pc'[x] = "claiming"
  PROVE  \/ sawPause'[x] = pause
         \/ pc[x] = "claiming" /\ sawPause'[x] = sawPause[x]
<1> USE DEF IInv, TypeOK, jobVars, workerVars, hbVars, schedVars
<1>1. CASE UNCHANGED <<pc, sawPause>>
  BY <1>1
<1>2. ASSUME NEW w \in Workers, ReadPause(w)
      PROVE  \/ sawPause'[x] = pause
             \/ pc[x] = "claiming" /\ sawPause'[x] = sawPause[x]
  BY <1>2 DEF ReadPause
<1>3. ASSUME NEW w \in Workers,
             \/ Observe(w) \/ RejectClaim(w) \/ CheckpointRefused(w)
             \/ HandlerReturns(w) \/ StopHeartbeat(w)
      PROVE  pc[x] = "claiming" /\ sawPause'[x] = sawPause[x]
  BY <1>3 DEF Observe, RejectClaim, CheckpointRefused, HandlerReturns,
      StopHeartbeat
<1>4. ASSUME NEW w \in Workers, Forget(w), NEW p \in Pcs \ {"claiming"},
             pc' = [pc EXCEPT ![w] = p]
      PROVE  pc[x] = "claiming" /\ sawPause'[x] = sawPause[x]
  BY <1>4 DEF Forget
<1>5. ASSUME NEW w \in Workers, NEW j \in Jobs, Claim(w, j)
      PROVE  pc[x] = "claiming" /\ sawPause'[x] = sawPause[x]
  BY <1>5 DEF Claim, Forget
<1>6. ASSUME NEW w \in Workers,
             \/ ClaimNothing(w) \/ FinishJob(w) \/ RequeueFailedJob(w)
             \/ FailJob(w) \/ DropStaleClaim(w) \/ CrashWorker(w)
      PROVE  pc[x] = "claiming" /\ sawPause'[x] = sawPause[x]
  <2>1. Release(w)
    BY <1>6 DEF ClaimNothing, FinishJob, RequeueFailedJob, FailJob,
        DropStaleClaim, CrashWorker
  <2> QED
    BY <2>1, <1>4 DEF Release, Pcs
<1>7. ASSUME NEW j \in Jobs, Enqueue(j) \/ RetryJob(j) \/ CancelJob(j)
      PROVE  UNCHANGED <<pc, sawPause>>
  BY <1>7 DEF Enqueue, RetryJob, CancelJob
<1>8. ASSUME NEW w \in Workers, Heartbeat(w) \/ CheckpointJob(w)
      PROVE  UNCHANGED <<pc, sawPause>>
  BY <1>8 DEF Heartbeat, HeartbeatObserve, HeartbeatJob, CheckpointJob
<1>9. ASSUME Scheduler \/ CrashScheduler \/ SetPause \/ Tick
             \/ UNCHANGED vars
      PROVE  UNCHANGED <<pc, sawPause>>
  BY <1>9 DEF Scheduler, ScanExpired, RequeueExpiredLeases, CrashScheduler,
      SetPause, Tick, vars
<1> QED
  BY <1>1, <1>2, <1>3, <1>5, <1>6, <1>7, <1>8, <1>9
  DEF Next, Operator, WorkerLoop

\* Once the claims under way are over, a pause holds until it is lifted.
THEOREM PauseKept == Spec => PauseHolds
<1> DEFINE A ==
     (pause /\ pause' /\ \A w \in Workers : pc[w] = "claiming" => sawPause[w])
       => /\ \A j \in Jobs \ PauseExempt :
               status'[j] = "running" => status[j] = "running"
          /\ \A w \in Workers : pc'[w] = "claiming" => sawPause'[w]
<1>1. IInv /\ [Next]_vars => A
  <2> SUFFICES ASSUME IInv, [Next]_vars, pause,
                      \A w \in Workers : pc[w] = "claiming" => sawPause[w]
               PROVE  /\ \A j \in Jobs \ PauseExempt :
                           status'[j] = "running" => status[j] = "running"
                      /\ \A w \in Workers : pc'[w] = "claiming" => sawPause'[w]
    OBVIOUS
  <2>1. \A j \in Jobs \ PauseExempt :
          status'[j] = "running" => status[j] = "running"
    BY RowSteps DEF RowStep, StartedByPoll
  <2>2. ASSUME NEW w \in Workers, pc'[w] = "claiming" PROVE sawPause'[w]
    BY <2>2, PollSteps
  <2> QED
    BY <2>1, <2>2
<1>2. IInv /\ [Next]_vars => [A]_vars
  BY <1>1
<1> QED
  BY <1>2, Invariance, PTL DEF Spec, PauseHolds

\* The queue implements JobLifecycle: with workers, leases, heartbeats and
\* recovery forgotten, every step is a step of the life of each row.
THEOREM Refinement == Spec => LifecycleSpec
<1>1. Init => Lifecycle!Init
  BY DEF Init, Lifecycle!Init
<1>2. IInv /\ [Next]_vars => [Lifecycle!Next]_(Lifecycle!vars)
  <2> SUFFICES ASSUME IInv, [Next]_vars PROVE Lifecycle!Next
    OBVIOUS
  <2>1. status' \in [Jobs -> Statuses]
    BY StepIInv DEF IInv, TypeOK
  <2>2. ASSUME NEW k \in Jobs PROVE Lifecycle!Step(k) \/ Lifecycle!Stays(k)
    <3>1. RowStep(k)
      BY RowSteps
    <3>2. status[k] = "queued" => attempt[k] < MaxAttempts[k] + retries[k]
      BY DEF IInv, Rest, BudgetInv
    <3>3. status[k] = "absent" => attempt[k] = 0 /\ retries[k] = 0
      BY DEF IInv, Rest, BudgetInv
    <3> QED
      BY <3>1, <3>2, <3>3
      DEF RowStep, SameCounters, Lifecycle!Step, Lifecycle!Stays,
          Lifecycle!Submit, Lifecycle!Start, Lifecycle!GiveBack,
          Lifecycle!Close, Lifecycle!Retry, Lifecycle!Cancel,
          Lifecycle!Becomes
  <2> QED
    BY <2>1, <2>2 DEF Lifecycle!Next, Statuses
<1> QED
  BY <1>1, <1>2, Invariance, PTL DEF Spec, LifecycleSpec, Lifecycle!Spec
=============================================================================
