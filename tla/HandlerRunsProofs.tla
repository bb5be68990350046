-------------------------- MODULE HandlerRunsProofs --------------------------
(***************************************************************************)
(* Lemmas about the job rows around a handler, for every set of jobs and    *)
(* workers: the invariant every component on the queue shares, and that its *)
(* steps are steps of JobLifecycle, which JobQueue implements.              *)
(***************************************************************************)
EXTENDS HandlerRuns, TLAPS

\* A job that waits to be claimed has an attempt left: max_attempts and one
\* more for each retry of the operator.
BudgetInv ==
  \A j \in Jobs :
    /\ tries[j] <= MaxAttempts + retried[j]
    /\ job[j] \in {"absent", "queued"} => tries[j] < MaxAttempts + retried[j]
    /\ job[j] = "absent" => tries[j] = 0 /\ retried[j] = 0

\* A row has an owner exactly while it is running.
OwnerInv ==
  \A j \in Jobs : /\ job[j] = "running" => owner[j] \in Workers
                  /\ job[j] # "running" => owner[j] = Nobody

\* A worker works on a job that exists.
ClaimInv == \A w \in Workers : cur[w] # NoJob => job[cur[w]] # "absent"

QueueInv == QueueTypeOK /\ BudgetInv /\ OwnerInv /\ ClaimInv

\* What a step of a component may do to the job rows.
QueueStep ==
  \/ \E j \in Jobs : \/ EnqueueJob(j) \/ EnqueueJobOnce(j)
                     \/ RecoverJob(j) \/ RetryJob(j) \/ CancelJob(j)
  \/ \E w \in Workers : \/ \E j \in Jobs : ClaimJob(w, j)
                        \/ \E r \in Results : CloseJob(w, r)
                        \/ Die(w)
  \/ UNCHANGED queueVars

\* At the start no job exists.
LEMMA QueueStarts == QueueInit => QueueInv /\ Lifecycle!Init
BY HandlerRunsAssumption
DEF QueueInit, QueueInv, QueueTypeOK, BudgetInv, OwnerInv, ClaimInv, JobStatuses,
    Lifecycle!Init

\* Every step keeps the types, the budget, the owners and the claims.
LEMMA QueueKeeps ==
  ASSUME QueueInv, QueueStep
  PROVE  QueueInv'
<1> USE HandlerRunsAssumption
    DEF QueueInv, QueueTypeOK, BudgetInv, OwnerInv, ClaimInv, JobStatuses
<1>1. ASSUME NEW j \in Jobs, EnqueueJob(j) PROVE QueueInv'
  BY <1>1 DEF EnqueueJob
<1>2. ASSUME NEW j \in Jobs, EnqueueJobOnce(j) PROVE QueueInv'
  BY <1>2 DEF EnqueueJobOnce
<1>3. ASSUME NEW j \in Jobs, RecoverJob(j) PROVE QueueInv'
  BY <1>3 DEF RecoverJob, RecoveredStatus
<1>4. ASSUME NEW j \in Jobs, RetryJob(j) PROVE QueueInv'
  BY <1>4 DEF RetryJob
<1>5. ASSUME NEW j \in Jobs, CancelJob(j) PROVE QueueInv'
  BY <1>5 DEF CancelJob
<1>6. ASSUME NEW w \in Workers, NEW j \in Jobs, ClaimJob(w, j) PROVE QueueInv'
  BY <1>6 DEF ClaimJob
<1>7. ASSUME NEW w \in Workers, NEW r \in Results, CloseJob(w, r) PROVE QueueInv'
  <2>1. cur[w] \in Jobs
    BY <1>7 DEF CloseJob
  <2>2. CASE Holds(w)
    BY <1>7, <2>1, <2>2 DEF CloseJob, ClosedStatus, Results
  <2>3. CASE ~Holds(w)
    BY <1>7, <2>3 DEF CloseJob
  <2> QED
    BY <2>2, <2>3
<1>8. ASSUME NEW w \in Workers, Die(w) PROVE QueueInv'
  BY <1>8 DEF Die, jobVars
<1>9. CASE UNCHANGED queueVars
  BY <1>9 DEF queueVars, jobVars
<1> QED
  BY <1>1, <1>2, <1>3, <1>4, <1>5, <1>6, <1>7, <1>8, <1>9 DEF QueueStep

\* Every step is a step of the lives of the jobs, as JobLifecycle has them.
LEMMA QueueFollows ==
  ASSUME QueueInv, QueueStep
  PROVE  [Lifecycle!Next]_(Lifecycle!vars)
<1>1. QueueInv'
  BY QueueKeeps
<1>2. job' \in [Jobs -> {"absent", "queued", "running", "succeeded", "failed",
                         "needs_review", "cancelled"}]
  BY <1>1 DEF QueueInv, QueueTypeOK, JobStatuses
<1>3. ASSUME NEW k \in Jobs PROVE Lifecycle!Step(k) \/ Lifecycle!Stays(k)
  <2> USE HandlerRunsAssumption
      DEF QueueInv, QueueTypeOK, BudgetInv, Lifecycle!Step, Lifecycle!Stays,
          Lifecycle!Becomes
  <2>1. ASSUME NEW j \in Jobs, EnqueueJob(j) \/ EnqueueJobOnce(j)
        PROVE  Lifecycle!Submit(k) \/ Lifecycle!Stays(k)
    BY <2>1 DEF EnqueueJob, EnqueueJobOnce, Lifecycle!Submit
  <2>2. ASSUME NEW j \in Jobs, RecoverJob(j)
        PROVE  Lifecycle!GiveBack(k) \/ Lifecycle!Close(k) \/ Lifecycle!Stays(k)
    BY <2>2 DEF RecoverJob, RecoveredStatus, Lifecycle!GiveBack, Lifecycle!Close
  <2>3. ASSUME NEW j \in Jobs, RetryJob(j)
        PROVE  Lifecycle!Retry(k) \/ Lifecycle!Stays(k)
    BY <2>3 DEF RetryJob, Lifecycle!Retry
  <2>4. ASSUME NEW j \in Jobs, CancelJob(j)
        PROVE  Lifecycle!Cancel(k) \/ Lifecycle!Stays(k)
    BY <2>4 DEF CancelJob, Lifecycle!Cancel
  <2>5. ASSUME NEW w \in Workers, NEW j \in Jobs, ClaimJob(w, j)
        PROVE  Lifecycle!Start(k) \/ Lifecycle!Stays(k)
    BY <2>5 DEF ClaimJob, Lifecycle!Start
  <2>6. ASSUME NEW w \in Workers, NEW r \in Results, CloseJob(w, r)
        PROVE  Lifecycle!GiveBack(k) \/ Lifecycle!Close(k) \/ Lifecycle!Stays(k)
    BY <2>6 DEF CloseJob, Holds, ClosedStatus, Results, Lifecycle!GiveBack,
                Lifecycle!Close
  <2>7. ASSUME UNCHANGED jobVars PROVE Lifecycle!Stays(k)
    BY <2>7 DEF jobVars
  <2> QED
    BY <2>1, <2>2, <2>3, <2>4, <2>5, <2>6, <2>7 DEF QueueStep, Die, queueVars
<1> QED
  BY <1>2, <1>3 DEF Lifecycle!Next
=============================================================================
