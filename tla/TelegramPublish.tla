--------------------------- MODULE TelegramPublish ---------------------------
(***************************************************************************)
(* Publication of one approved revision to one Telegram destination: the    *)
(* publish_jobs row, its publish_operation_receipts, the telegram.publish   *)
(* handler run by several workers, lease recovery, and the operator's       *)
(* reconciliation of sends whose outcome is unknown.                        *)
(* Source: backend/app/publishing/telegram/publication*.py, client.py,      *)
(* reconciliation.py, backend/app/api/telegram_reconciliation.py,           *)
(* backend/app/jobs/repository.py.                                          *)
(*                                                                         *)
(* A handler run is a sequence of transactions with the network call        *)
(* between two of them, and nothing stops a run whose lease has expired: it *)
(* goes on as a zombie beside its successor.  The workflow_jobs rows follow *)
(* JobLifecycle, which JobQueue implements; a lease may be found expired at *)
(* any time.  The gate stands for everything revalidate_claim compares      *)
(* (approval, hashes, route, global pause, destination health).  Whether an *)
(* instant has passed is kept as a flag or left to choice.                  *)
(*                                                                         *)
(* Left out: publish_attempts and workflow_events, which no decision reads  *)
(* but the reconciliation generation (decidedAt), and message contents.     *)
(***************************************************************************)
EXTENDS Integers

CONSTANTS N,            \* number of operations of the publish plan
          Workers,
          Nobody,       \* lease_owner IS NULL
          MaxAttempts,  \* max_attempts of a telegram.publish job
          MaxClaims,    \* bound: claims of one receipt
          MaxRetries    \* bound: operator retries of workflow jobs

ASSUME ConstantsAssumption ==
  /\ N \in Nat \ {0}
  /\ Nobody \notin Workers
  /\ MaxAttempts \in Nat \ {0}
  /\ MaxClaims \in Nat
  /\ MaxRetries \in Nat

Ops == 1..N

\* Idempotency keys: the first job is telegram-publish:..., <<o, n>> the job
\* telegram-publish-reconcile:<publish job>:<operation o>:<attempt_count n>.
First  == <<0, 0>>
Claims == Ops \X (1..MaxClaims)
Jobs   == {First} \cup Claims

VARIABLES
  receipt,    \* publish_operation_receipts.status, "none" before the insert
  count,      \* publish_operation_receipts.attempt_count
  later,      \* next_attempt_at lies in the future
  pub,        \* the publications row exists
  pj,         \* publish_jobs.status
  pjJob,      \* publish_jobs.workflow_job_id
  decidedAt,  \* attempt_count of the last reconciliation event (generation)
  gate,       \* every control allows the publication
  job,        \* workflow_jobs.status
  tries,      \* workflow_jobs.attempt_count
  owner,      \* workflow_jobs.lease_owner
  retries,    \* operator retries so far (history)
  pc,         \* where the handler stands in each worker
  cur,        \* the workflow job the worker claimed
  op,         \* the operation it is at
  claimed,    \* the attempt_count its claim of the receipt returned
  known,      \* publish_jobs.status as its session last loaded or wrote it
  result,     \* what the last call or the run came to
  sent,       \* claims <<o, n>> that reached Telegram (history)
  denied,     \* claims the operator answered "not_published" (history)
  confirmed   \* operations the operator answered "published" (history)

rows     == <<receipt, count, later, pub, pj, pjJob, decidedAt>>
queue    == <<job, tries, owner, retries>>
handlers == <<pc, cur, op, claimed, known, result>>
history  == <<sent, denied, confirmed>>
vars     == <<rows, gate, queue, handlers, history>>

Receipts == {"none", "pending", "dispatching", "succeeded", "ambiguous",
             "failed"}
PublishStatuses == {"queued", "dispatching", "reconciliation_required",
                    "attention", "succeeded"}
JobStatuses == {"absent", "queued", "running", "succeeded", "failed",
                "needs_review"}
Results == {"none", "succeeded", "retryable", "needs_review", "permanent"}
Pcs == {"idle", "prepare", "blocked", "claim", "release", "send", "persist",
        "record", "finalize", "close"}

-----------------------------------------------------------------------------
Init ==
  /\ receipt = [o \in Ops |-> "none"]
  /\ count = [o \in Ops |-> 0]
  /\ later = [o \in Ops |-> FALSE]
  /\ pub = FALSE
  /\ pj = "queued"
  /\ pjJob = First
  /\ decidedAt = [o \in Ops |-> 0]
  /\ gate \in BOOLEAN
  /\ job = [j \in Jobs |-> IF j = First THEN "queued" ELSE "absent"]
  /\ tries = [j \in Jobs |-> 0]
  /\ owner = [j \in Jobs |-> Nobody]
  /\ retries = 0
  /\ pc = [w \in Workers |-> "idle"]
  /\ cur = [w \in Workers |-> First]
  /\ op = [w \in Workers |-> 1]
  /\ claimed = [w \in Workers |-> 0]
  /\ known = [w \in Workers |-> "queued"]
  /\ result = [w \in Workers |-> "none"]
  /\ sent = {}
  /\ denied = {}
  /\ confirmed = {}

-----------------------------------------------------------------------------
(* The worker around the handler, as JobLifecycle has it. *)

\* claim_next_job; a claim beyond max_attempts is failed without the handler.
ClaimJob(w, j) ==
  /\ pc[w] = "idle"
  /\ job[j] = "queued"
  /\ job' = [job EXCEPT ![j] = "running"]
  /\ tries' = [tries EXCEPT ![j] = @ + 1]
  /\ owner' = [owner EXCEPT ![j] = w]
  /\ cur' = [cur EXCEPT ![w] = j]
  /\ IF tries[j] < MaxAttempts
     THEN pc' = [pc EXCEPT ![w] = "prepare"] /\ UNCHANGED result
     ELSE /\ pc' = [pc EXCEPT ![w] = "close"]
          /\ result' = [result EXCEPT ![w] = "permanent"]
  /\ UNCHANGED <<rows, gate, retries, op, claimed, known, history>>

\* The locals of publish_telegram are out of use.
Leave(w) ==
  /\ op' = [op EXCEPT ![w] = 1]
  /\ claimed' = [claimed EXCEPT ![w] = 0]
  /\ known' = [known EXCEPT ![w] = "queued"]

\* The run ends with result r; the worker is about to close the job.
Return(w, r) ==
  /\ pc' = [pc EXCEPT ![w] = "close"]
  /\ result' = [result EXCEPT ![w] = r]
  /\ Leave(w)

\* The status finish_job or fail_job gives job j for result r.
ClosedStatus(j, r) ==
  IF r = "succeeded" THEN "succeeded"
  ELSE IF r = "needs_review" THEN "needs_review"
  ELSE IF r = "retryable" /\ tries[j] < MaxAttempts THEN "queued"
  ELSE "failed"

\* run_once is over.
Reset(w) ==
  /\ pc' = [pc EXCEPT ![w] = "idle"]
  /\ cur' = [cur EXCEPT ![w] = First]
  /\ result' = [result EXCEPT ![w] = "none"]
  /\ Leave(w)

\* finish_job or fail_job, or the stale claim is dropped.
CloseJob(w) ==
  LET j == cur[w] IN
  /\ pc[w] = "close"
  /\ IF job[j] = "running" /\ owner[j] = w
     THEN /\ job' = [job EXCEPT ![j] = ClosedStatus(j, result[w])]
          /\ owner' = [owner EXCEPT ![j] = Nobody]
     ELSE UNCHANGED <<job, owner>>
  /\ Reset(w)
  /\ UNCHANGED <<rows, gate, tries, retries, history>>

\* The process dies; the transaction under way is rolled back.
CrashWorker(w) ==
  /\ pc[w] # "idle"
  /\ Reset(w)
  /\ UNCHANGED <<rows, gate, queue, history>>

-----------------------------------------------------------------------------
(* publish_telegram. *)

\* Operations whose receipt has the status s.
In(s) == {o \in Ops : receipt[o] = s}

\* _load_publish_plan_receipts inserts the receipts once.
Inserted == [o \in Ops |-> IF receipt[o] = "none" THEN "pending" ELSE receipt[o]]

\* A publication exists: the run is idempotent, whatever the controls say.
PrepareExisting(w) ==
  /\ pc[w] = "prepare"
  /\ pub
  /\ Return(w, "succeeded")
  /\ UNCHANGED <<rows, gate, queue, cur, history>>

\* load_context raises: _mark_publish_blocked is a transaction of its own.
PrepareBlocked(w) ==
  /\ pc[w] = "prepare"
  /\ ~pub /\ ~gate
  /\ pc' = [pc EXCEPT ![w] = "blocked"]
  /\ UNCHANGED <<rows, gate, queue, cur, op, claimed, known, result, history>>

MarkBlocked(w) ==
  /\ pc[w] = "blocked"
  /\ pj' = "attention"
  /\ Return(w, "needs_review")
  /\ UNCHANGED <<receipt, count, later, pub, pjJob, decidedAt, gate, queue,
                 cur, history>>

\* _publish_receipt_short_circuit: an ambiguous receipt, or a dispatching one
\* older than five minutes, needs the operator.
PrepareAmbiguous(w) ==
  /\ pc[w] = "prepare"
  /\ ~pub /\ gate
  /\ \/ In("ambiguous") # {} /\ UNCHANGED receipt
     \/ /\ In("ambiguous") = {}
        /\ \E o \in In("dispatching") :
             /\ \A p \in In("dispatching") : o <= p
             /\ receipt' = [receipt EXCEPT ![o] = "ambiguous"]
  /\ pj' = "reconciliation_required"
  /\ Return(w, "needs_review")
  /\ UNCHANGED <<count, later, pub, pjJob, decidedAt, gate, queue, cur,
                 history>>

\* A younger dispatching receipt, or a retry that is not due yet.
PrepareLater(w) ==
  /\ pc[w] = "prepare"
  /\ ~pub /\ gate
  /\ In("ambiguous") = {}
  /\ \/ In("dispatching") # {}
     \/ \E o \in Ops : /\ receipt[o] # "succeeded" /\ later[o]
                       /\ \A p \in Ops : p < o => receipt[p] = "succeeded"
  /\ Return(w, "retryable")
  /\ UNCHANGED <<rows, gate, queue, cur, history>>

\* load_context succeeds and a publish attempt begins.
PrepareRun(w) ==
  /\ pc[w] = "prepare"
  /\ ~pub /\ gate
  /\ In("ambiguous") = {} /\ In("dispatching") = {}
  /\ \A o \in Ops : (\A p \in Ops : p < o => receipt[p] = "succeeded")
                      => receipt[o] = "succeeded" \/ ~later[o]
  /\ receipt' = Inserted
  /\ pc' = [pc EXCEPT ![w] = "claim"]
  /\ op' = [op EXCEPT ![w] = 1]
  /\ known' = [known EXCEPT ![w] = pj]
  /\ UNCHANGED <<count, later, pub, pj, pjJob, decidedAt, gate, queue, cur,
                 claimed, result, history>>

\* The loop over the operations goes on.
Advance(w) ==
  /\ claimed' = [claimed EXCEPT ![w] = 0]
  /\ IF op[w] < N
     THEN /\ op' = [op EXCEPT ![w] = @ + 1]
          /\ pc' = [pc EXCEPT ![w] = "claim"]
     ELSE pc' = [pc EXCEPT ![w] = "finalize"] /\ UNCHANGED op

\* _claim_operation: revalidate_claim raises, the run needs review.
ClaimBlocked(w) ==
  /\ pc[w] = "claim"
  /\ ~gate
  /\ pj' = "attention"
  /\ Return(w, "needs_review")
  /\ UNCHANGED <<receipt, count, later, pub, pjJob, decidedAt, gate, queue,
                 cur, history>>

\* The receipt is there already: the loop goes on.
ClaimSkip(w) ==
  /\ pc[w] = "claim"
  /\ gate
  /\ receipt[op[w]] = "succeeded"
  /\ known' = [known EXCEPT ![w] = pj]
  /\ Advance(w)
  /\ UNCHANGED <<rows, gate, queue, cur, result, history>>

\* Another claim is in progress: publish_jobs is left to it.
ClaimCompeting(w) ==
  /\ pc[w] = "claim"
  /\ gate
  /\ receipt[op[w]] = "dispatching"
  /\ Return(w, "retryable")
  /\ UNCHANGED <<rows, gate, queue, cur, history>>

\* Not sendable: ambiguous or failed.
ClaimRefused(w) ==
  /\ pc[w] = "claim"
  /\ gate
  /\ receipt[op[w]] \in {"ambiguous", "failed"}
  /\ pj' = IF receipt[op[w]] = "ambiguous" THEN "reconciliation_required"
           ELSE "attention"
  /\ Return(w, "needs_review")
  /\ UNCHANGED <<receipt, count, later, pub, pjJob, decidedAt, gate, queue,
                 cur, history>>

ClaimNotDue(w) ==
  /\ pc[w] = "claim"
  /\ gate
  /\ receipt[op[w]] = "pending" /\ later[op[w]]
  /\ known' = [known EXCEPT ![w] = pj]
  /\ pc' = [pc EXCEPT ![w] = "release"]
  /\ UNCHANGED <<rows, gate, queue, cur, op, claimed, result, history>>

\* _release_claim_for_retry takes publish_jobs from the session without a new
\* read: the status is written only where it differs from the loaded one.
ReleaseClaim(w) ==
  /\ pc[w] = "release"
  /\ pj' = IF known[w] = "queued" THEN pj ELSE "queued"
  /\ Return(w, "retryable")
  /\ UNCHANGED <<receipt, count, later, pub, pjJob, decidedAt, gate, queue,
                 cur, history>>

\* Mutant of ClaimReceipt: an ambiguous receipt counts as sendable.
ClaimReceiptAmbiguous(w) ==
  LET o == op[w] IN
  /\ pc[w] = "claim"
  /\ gate
  /\ receipt[o] \in {"pending", "ambiguous"} /\ ~later[o]
  /\ count[o] < MaxClaims
  /\ receipt' = [receipt EXCEPT ![o] = "dispatching"]
  /\ count' = [count EXCEPT ![o] = @ + 1]
  /\ claimed' = [claimed EXCEPT ![w] = count[o] + 1]
  /\ pj' = "dispatching"
  /\ known' = [known EXCEPT ![w] = "dispatching"]
  /\ pc' = [pc EXCEPT ![w] = "send"]
  /\ UNCHANGED <<later, pub, pjJob, decidedAt, gate, queue, cur, op, result,
                 history>>

\* _apply_claim_state: the receipt is taken.
ClaimReceipt(w) ==
  LET o == op[w] IN
  /\ pc[w] = "claim"
  /\ gate
  /\ receipt[o] = "pending" /\ ~later[o]
  /\ count[o] < MaxClaims
  /\ receipt' = [receipt EXCEPT ![o] = "dispatching"]
  /\ count' = [count EXCEPT ![o] = @ + 1]
  /\ claimed' = [claimed EXCEPT ![w] = count[o] + 1]
  /\ pj' = "dispatching"
  /\ known' = [known EXCEPT ![w] = "dispatching"]
  /\ pc' = [pc EXCEPT ![w] = "send"]
  /\ UNCHANGED <<later, pub, pjJob, decidedAt, gate, queue, cur, op, result,
                 history>>

\* The token is resolved and the bot client posts the operation: the message
\* is out and confirmed; or the outcome is unknown, the message out or not; or
\* it was certainly refused, for now (connect failure, 429) or for good (4xx).
Send(w) ==
  /\ pc[w] = "send"
  /\ \/ /\ pc' = [pc EXCEPT ![w] = "persist"]
        /\ sent' = sent \cup {<<op[w], claimed[w]>>}
        /\ UNCHANGED result
     \/ /\ pc' = [pc EXCEPT ![w] = "record"]
        /\ result' = [result EXCEPT ![w] = "needs_review"]
        /\ sent' \in {sent, sent \cup {<<op[w], claimed[w]>>}}
     \/ /\ pc' = [pc EXCEPT ![w] = "record"]
        /\ \E r \in {"retryable", "permanent"} :
             result' = [result EXCEPT ![w] = r]
        /\ UNCHANGED sent
  /\ UNCHANGED <<rows, gate, queue, cur, op, claimed, known, denied,
                 confirmed>>

\* Mutant of Holds: the fence forgets the attempt_count of the claim.
HoldsAny(w) == receipt[op[w]] = "dispatching"

\* The receipt is still the one this worker claimed.
Holds(w) == receipt[op[w]] = "dispatching" /\ count[op[w]] = claimed[w]

\* Mutant of Superseded: a run that lost its claim goes on with the plan.
SupersededGoesOn(w) ==
  /\ pc[w] \in {"persist", "record"}
  /\ ~Holds(w)
  /\ Advance(w)
  /\ UNCHANGED <<rows, gate, queue, cur, known, result, history>>

\* telegram_publish_claim_superseded
Superseded(w) ==
  /\ pc[w] \in {"persist", "record"}
  /\ ~Holds(w)
  /\ Return(w, "needs_review")
  /\ UNCHANGED <<rows, gate, queue, cur, history>>

\* _persist_operation_receipt
PersistReceipt(w) ==
  /\ pc[w] = "persist"
  /\ Holds(w)
  /\ receipt' = [receipt EXCEPT ![op[w]] = "succeeded"]
  /\ Advance(w)
  /\ UNCHANGED <<count, later, pub, pj, pjJob, decidedAt, gate, queue, cur,
                 known, result, history>>

\* _record_failure; result[w] is the class the failure is mapped to.
RecordFailure(w) ==
  LET o == op[w] IN
  /\ pc[w] = "record"
  /\ Holds(w)
  /\ \/ /\ result[w] = "retryable"
        /\ receipt' = [receipt EXCEPT ![o] = "pending"]
        /\ later' = [later EXCEPT ![o] = TRUE]
        /\ pj' = "queued"
     \/ /\ result[w] = "needs_review"
        /\ receipt' = [receipt EXCEPT ![o] = "ambiguous"]
        /\ pj' = "reconciliation_required"
        /\ UNCHANGED later
     \/ /\ result[w] = "permanent"
        /\ receipt' = [receipt EXCEPT ![o] = "failed"]
        /\ pj' = "attention"
        /\ UNCHANGED later
  /\ Return(w, result[w])
  /\ UNCHANGED <<count, pub, pjJob, decidedAt, gate, queue, cur, history>>

\* _finalize_publication; publish_jobs is not read again, as in ReleaseClaim.
Finalize(w) ==
  /\ pc[w] = "finalize"
  /\ IF In("succeeded") = Ops
     THEN /\ pub' = TRUE
          /\ pj' = IF known[w] = "succeeded" THEN pj ELSE "succeeded"
          /\ Return(w, "succeeded")
     ELSE Return(w, "needs_review") /\ UNCHANGED <<pub, pj>>
  /\ UNCHANGED <<receipt, count, later, pjJob, decidedAt, gate, queue, cur,
                 history>>

-----------------------------------------------------------------------------
(* Lease recovery, the operator, and time. *)

\* requeue_expired_leases for a telegram.publish job: the publish rows are
\* closed along with the job only while publish_jobs points to it.
RecoverLease(j) ==
  LET mine   == pjJob = j
      review == mine /\ In("dispatching") # {}
  IN
  /\ job[j] = "running"
  /\ owner' = [owner EXCEPT ![j] = Nobody]
  /\ job' = [job EXCEPT ![j] = IF review THEN "needs_review"
                               ELSE IF tries[j] >= MaxAttempts THEN "failed"
                               ELSE "queued"]
  /\ receipt' = [o \in Ops |-> IF review /\ receipt[o] = "dispatching"
                               THEN "ambiguous" ELSE receipt[o]]
  /\ pj' = IF review THEN "reconciliation_required"
           ELSE IF /\ mine
                   /\ tries[j] >= MaxAttempts
                   /\ pj \in {"queued", "dispatching"}
                THEN "attention" ELSE pj
  /\ UNCHANGED <<count, later, pub, pjJob, decidedAt, gate, tries, retries,
                 handlers, history>>

\* POST /jobs/{id}/retry
RetryJob(j) ==
  /\ job[j] \in {"failed", "needs_review"}
  /\ retries < MaxRetries
  /\ job' = [job EXCEPT ![j] = "queued"]
  /\ retries' = retries + 1
  /\ UNCHANGED <<rows, gate, tries, owner, handlers, history>>

\* reconcile_telegram_publish_job, for a receipt o: no earlier decision of the
\* same generation, and exactly one ambiguous receipt.
Reconcilable(o) ==
  /\ \A p \in Ops : decidedAt[p] # 0 => decidedAt[p] # count[p]
  /\ In("ambiguous") = {o}

\* Mutant of NotPublished: the new job is keyed by the next attempt.
NotPublishedNextKey(o) ==
  /\ Reconcilable(o)
  /\ \A p \in Ops : receipt[p] \in {"succeeded", "pending", "ambiguous"}
  /\ receipt' = [receipt EXCEPT ![o] = "pending"]
  /\ later' = [later EXCEPT ![o] = FALSE]
  /\ pj' = "queued"
  /\ pjJob' = <<o, count[o] + 1>>
  /\ job' = [job EXCEPT ![<<o, count[o] + 1>>] = "queued"]
  /\ decidedAt' = [decidedAt EXCEPT ![o] = count[o]]
  /\ denied' = denied \cup {<<o, count[o]>>}
  /\ UNCHANGED <<count, pub, gate, tries, owner, retries, handlers, sent,
                 confirmed>>

\* _requeue_not_published
NotPublished(o) ==
  /\ Reconcilable(o)
  /\ \A p \in Ops : receipt[p] \in {"succeeded", "pending", "ambiguous"}
  /\ receipt' = [receipt EXCEPT ![o] = "pending"]
  /\ later' = [later EXCEPT ![o] = FALSE]
  /\ pj' = "queued"
  /\ pjJob' = <<o, count[o]>>
  /\ job' = [job EXCEPT ![<<o, count[o]>>] = IF @ = "absent" THEN "queued" ELSE @]
  /\ decidedAt' = [decidedAt EXCEPT ![o] = count[o]]
  /\ denied' = denied \cup {<<o, count[o]>>}
  /\ UNCHANGED <<count, pub, gate, tries, owner, retries, handlers, sent,
                 confirmed>>

\* Mutant of ConfirmPublished: operations still pending are not looked at.
ConfirmPublishedPartly(o) ==
  /\ Reconcilable(o)
  /\ receipt' = [receipt EXCEPT ![o] = "succeeded"]
  /\ later' = [later EXCEPT ![o] = FALSE]
  /\ pub' = TRUE
  /\ pj' = "succeeded"
  /\ decidedAt' = [decidedAt EXCEPT ![o] = count[o]]
  /\ confirmed' = confirmed \cup {o}
  /\ UNCHANGED <<count, pjJob, gate, queue, handlers, sent, denied>>

\* _confirm_published
ConfirmPublished(o) ==
  /\ Reconcilable(o)
  /\ \A p \in Ops : receipt[p] \in {"succeeded", "ambiguous"}
  /\ receipt' = [receipt EXCEPT ![o] = "succeeded"]
  /\ later' = [later EXCEPT ![o] = FALSE]
  /\ pub' = TRUE
  /\ pj' = "succeeded"
  /\ decidedAt' = [decidedAt EXCEPT ![o] = count[o]]
  /\ confirmed' = confirmed \cup {o}
  /\ UNCHANGED <<count, pjJob, gate, queue, handlers, sent, denied>>

\* Pause and resume, a health check, an approval withdrawn.
TurnGate ==
  /\ gate' = ~gate
  /\ UNCHANGED <<rows, queue, handlers, history>>

\* next_attempt_at passes.
BecomesDue(o) ==
  /\ later[o]
  /\ later' = [later EXCEPT ![o] = FALSE]
  /\ UNCHANGED <<receipt, count, pub, pj, pjJob, decidedAt, gate, queue,
                 handlers, history>>

-----------------------------------------------------------------------------
Prepare(w) == PrepareExisting(w) \/ PrepareBlocked(w) \/ MarkBlocked(w)
              \/ PrepareAmbiguous(w) \/ PrepareLater(w) \/ PrepareRun(w)

ClaimOperation(w) == ClaimBlocked(w) \/ ClaimSkip(w) \/ ClaimCompeting(w)
                     \/ ClaimRefused(w) \/ ClaimNotDue(w) \/ ClaimReceipt(w)

Deliver(w) == Send(w) \/ Superseded(w) \/ PersistReceipt(w)
              \/ RecordFailure(w) \/ Finalize(w) \/ ReleaseClaim(w)

Next ==
  \/ \E w \in Workers :
       \/ \E j \in Jobs : ClaimJob(w, j)
       \/ Prepare(w) \/ ClaimOperation(w) \/ Deliver(w)
       \/ CloseJob(w) \/ CrashWorker(w)
  \/ \E j \in Jobs : RecoverLease(j) \/ RetryJob(j)
  \/ \E o \in Ops : NotPublished(o) \/ ConfirmPublished(o) \/ BecomesDue(o)
  \/ TurnGate

Spec == Init /\ [][Next]_vars

-----------------------------------------------------------------------------
(* Properties. *)

\* The publish rows and the handlers' local state keep their types; the claims
\* of an operation stay within the model's bound.
TypeOK ==
  /\ receipt \in [Ops -> Receipts]
  /\ count \in [Ops -> 0..MaxClaims]
  /\ later \in [Ops -> BOOLEAN]
  /\ pub \in BOOLEAN
  /\ pj \in PublishStatuses
  /\ pjJob \in Jobs
  /\ decidedAt \in [Ops -> 0..MaxClaims]
  /\ gate \in BOOLEAN
  /\ job \in [Jobs -> JobStatuses]
  /\ tries \in [Jobs -> Nat]
  /\ owner \in [Jobs -> Workers \cup {Nobody}]
  /\ retries \in Nat
  /\ pc \in [Workers -> Pcs]
  /\ cur \in [Workers -> Jobs]
  /\ op \in [Workers -> Ops]
  /\ claimed \in [Workers -> 0..MaxClaims]
  /\ known \in [Workers -> PublishStatuses]
  /\ result \in [Workers -> Results]
  /\ sent \in SUBSET Claims
  /\ denied \in SUBSET Claims
  /\ confirmed \in SUBSET Ops

\* An operation that may have reached Telegram is never sent again, nor made
\* sendable, unless the operator answered "not_published" for that very send:
\* crashes, expired leases, zombies and retries of the job never duplicate it.
NoBlindResend ==
  \A o \in Ops, n \in 1..MaxClaims :
    <<o, n>> \in sent /\ (n < count[o] \/ receipt[o] = "pending")
      => <<o, n>> \in denied

\* A publication, and a publish job that succeeded, stand for a complete
\* delivery: each operation was sent by the claim its receipt names, or the
\* operator confirmed it.
PublishedIsDelivered ==
  /\ pj = "succeeded" => pub
  /\ pub => \A o \in Ops : receipt[o] = "succeeded"
  /\ \A o \in Ops : receipt[o] = "succeeded"
                      => <<o, count[o]>> \in sent \/ o \in confirmed

\* Operations go out in the order of the plan: none is claimed before all the
\* earlier ones are known to be delivered, with several runs in parallel too.
\* So at most one send is unresolved at a time, and "exactly one ambiguous
\* operation", which reconciliation asks for, can be met.
SentInOrder ==
  \A o, p \in Ops : p < o /\ count[o] > 0 => receipt[p] = "succeeded"

\* A settled receipt stays settled, and ambiguity is resolved by the operator
\* only: no worker and no recovery pass ever rewrites it.
SettledReceiptsKept ==
  [][\A o \in Ops :
       /\ receipt[o] \in {"succeeded", "failed"} => receipt'[o] = receipt[o]
       /\ receipt[o] = "ambiguous" /\ receipt'[o] # "ambiguous"
            => <<o, count[o]>> \in denied' \/ o \in confirmed']_vars

\* A job that loses its lease while its run has a receipt in "dispatching"
\* becomes needs_review.
ExpiredSendReviewed ==
  [][\A w \in Workers :
       (/\ pc[w] \in {"send", "persist", "record"} /\ pc'[w] = pc[w]
        /\ Holds(w)
        /\ owner[cur[w]] = w /\ owner'[cur[w]] # w)
         => job'[cur[w]] = "needs_review"]_vars
=============================================================================
