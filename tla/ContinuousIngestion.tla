------------------------- MODULE ContinuousIngestion -------------------------
(***************************************************************************)
(* Continuous ingestion of one Source Collection: the subscription rows, the*)
(* scheduler that turns a due subscription into a cycle job, the workers    *)
(* that run the cycle, and the operator who starts and stops subscriptions, *)
(* ingests by hand, edits the collection or deletes it.                     *)
(* Source: backend/app/source_collections/continuous.py, jobs/handlers.py,  *)
(* jobs/scheduler.py, ingestion/workflow.py, api/source_collections.py.     *)
(*                                                                         *)
(* The sessions are made with expire_on_commit=False and a row that is in a *)
(* session already is not refreshed by a later SELECT ... FOR UPDATE of the *)
(* same session: the handler, and the stop of "the latest" subscription, go *)
(* on with what they read first, and an UPDATE carries only the columns     *)
(* whose value differs from the one read (Flush).                           *)
(*                                                                         *)
(* Jobs follow JobLifecycle, without the operator's retry.  A job is named  *)
(* by its idempotency key, <<subscription, cycle_number>>, and so is the    *)
(* ingest run of that cycle.  Left out: the sources and their articles, the *)
(* story.group_pending job, statistics, the columns no decision reads       *)
(* (current_cycle_run_id, what the last cycle came to), and the pause of the*)
(* automation, which only keeps the scheduler from acting (JobQueue).       *)
(***************************************************************************)
EXTENDS Integers, FiniteSets

CONSTANTS Subs,         \* subscriptions that may be started
          Workers,
          Nobody,       \* lease_owner IS NULL, no job, no subscription
          MaxAttempts,  \* max_attempts of a cycle job
          MaxCycles,    \* bound: cycles of one subscription
          MaxLost       \* bound: leases that expire under a live worker

ASSUME ConstantsAssumption ==
  /\ Nobody \notin Workers \cup Subs
  /\ MaxAttempts \in Nat \ {0}
  /\ MaxCycles \in Nat \ {0}
  /\ MaxLost \in Nat

Cycles  == Subs \X (1..MaxCycles)
NoCycle == <<Nobody, 0>>

VARIABLES
  sub,      \* the subscription rows
  coll,     \* the source_collections row exists
  members,  \* it has at least one source
  manual,   \* an ingest run started by hand is queued or running
  job,      \* workflow_jobs.status of the cycle jobs
  tries,    \* workflow_jobs.attempt_count
  owner,    \* workflow_jobs.lease_owner
  run,      \* ingest_runs.status of the cycles, "done" when settled
  pc,       \* where the handler stands in each worker
  cur,      \* the job it claimed
  loaded,   \* the subscription row as its session read it
  result,   \* what the run comes to
  lost,     \* leases lost by live workers so far (history)
  asked,    \* subscription the operator's stop request has read
  askedRow  \* the row it read

handlers == <<pc, cur, loaded, result>>
queue    == <<job, tries, owner, lost>>
request  == <<asked, askedRow>>
vars     == <<sub, coll, members, manual, queue, run, handlers, request>>

Active   == {"starting", "running", "stopping"}
Statuses == Active \cup {"none", "stopped", "error"}
Row == [status : Statuses, next : {"null", "later", "due"},
        ptr : 0..MaxCycles, count : Nat]

\* No subscription yet.
Blank == [status |-> "none", next |-> "null", ptr |-> 0, count |-> 0]

JobStatuses == {"absent", "queued", "running", "succeeded", "failed",
                "cancelled"}
RunStatuses == {"none", "queued", "running", "done"}
Pcs == {"idle", "claimed", "hinted", "ingest", "resume", "ingesting",
        "finish", "close"}

Init ==
  /\ sub = [s \in Subs |-> Blank]
  /\ coll = TRUE
  /\ members \in BOOLEAN
  /\ manual = FALSE
  /\ job = [j \in Cycles |-> "absent"]
  /\ tries = [j \in Cycles |-> 0]
  /\ owner = [j \in Cycles |-> Nobody]
  /\ run = [j \in Cycles |-> "none"]
  /\ pc = [w \in Workers |-> "idle"]
  /\ cur = [w \in Workers |-> NoCycle]
  /\ loaded = [w \in Workers |-> Blank]
  /\ result = [w \in Workers |-> "succeeded"]
  /\ lost = 0
  /\ asked = Nobody
  /\ askedRow = Blank

-----------------------------------------------------------------------------
(* Rows. *)

\* Mutant of Flush: an UPDATE carries every column.
FlushAll(row, l, n) == n

\* The row after a session that read it as l flushes it as n.  An instant
\* computed anew always differs from the one read.
Flush(row, l, n) ==
  [f \in DOMAIN row |->
     IF n[f] # l[f] \/ (f = "next" /\ n[f] = "later") THEN n[f] ELSE row[f]]

ActiveSubs == {s \in Subs : sub[s].status \in Active}

\* Mutant of ActiveRuns: a run that has begun does not count.
ActiveRunsQueued == {j \in Cycles : run[j] = "queued"}

\* The runs uq_ingest_runs_active_source_collection counts.
ActiveRuns == {j \in Cycles : run[j] \in {"queued", "running"}}

Larger(m, n) == IF m > n THEN m ELSE n

\* _stop_one on a row read as l: a running cycle is asked to stop.
StopOne(s, l) ==
  Flush(sub[s], l,
        IF l.ptr # 0 /\ job[<<s, l.ptr>>] = "running"
        THEN [l EXCEPT !.status = "stopping", !.next = "null"]
        ELSE [l EXCEPT !.status = "stopped", !.next = "null", !.ptr = 0])

\* The jobs _stop_one cancels: the current one while it is queued.
CancelledBy(s, l) == {j \in Cycles : j = <<s, l.ptr>> /\ job[j] = "queued"}

Cancel(jobs) == job' = [j \in Cycles |-> IF j \in jobs THEN "cancelled" ELSE job[j]]

\* _stop_without_cycle
StopWithoutCycle(l) == [l EXCEPT !.status = "stopped", !.next = "null", !.ptr = 0]

\* _defer_cycle
DeferCycle(l) ==
  [l EXCEPT !.status = "running", !.count = @ + 1, !.next = "later", !.ptr = 0]

\* Mutant of FinishCycle: the number of the cycle to come is stored.
FinishCycleNext(l, c) ==
  [status |-> IF l.status = "stopping" THEN "stopped" ELSE "running",
   next |-> IF l.status = "stopping" THEN "null" ELSE "later",
   ptr |-> 0, count |-> Larger(l.count, c + 1)]

\* _finish_cycle
FinishCycle(l, c) ==
  IF l.status = "stopping"
  THEN [status |-> "stopped", next |-> "null", ptr |-> 0,
        count |-> Larger(l.count, c)]
  ELSE [status |-> "running", next |-> "later", ptr |-> 0,
        count |-> Larger(l.count, c)]

-----------------------------------------------------------------------------
(* The operator. *)

\* start_subscription
Start(s) ==
  /\ coll
  /\ sub[s].status = "none"
  /\ ActiveSubs = {}
  /\ ~manual /\ ActiveRuns = {}
  /\ sub' = [sub EXCEPT ![s].status = "starting", ![s].next = "due"]
  /\ UNCHANGED <<coll, members, manual, queue, run, handlers, request>>

\* stop_subscription by a session that read the row as l has something to do;
\* the index on the active subscription of a collection refuses a second one.
Stoppable(s, l) ==
  /\ l.status \in Active
  /\ coll /\ StopOne(s, l).status \in Active => ActiveSubs \subseteq {s}

Stop(s, l) ==
  /\ sub' = [sub EXCEPT ![s] = StopOne(s, l)]
  /\ Cancel(CancelledBy(s, l))

\* POST /continuous-subscriptions/{id}/stop reads the row under its lock.
StopById(s) ==
  /\ Stoppable(s, sub[s])
  /\ Stop(s, sub[s])
  /\ UNCHANGED <<coll, members, manual, tries, owner, lost, run, handlers,
                 request>>

\* POST /{collection}/continuous/stop reads the latest row without a lock...
StopRead(s) ==
  /\ coll
  /\ asked = Nobody
  /\ sub[s].status \in Active
  /\ asked' = s
  /\ askedRow' = sub[s]
  /\ UNCHANGED <<sub, coll, members, manual, queue, run, handlers>>

\* ... and stops it once it has the lock, or is refused.
StopLatest ==
  /\ asked # Nobody
  /\ IF Stoppable(asked, askedRow) THEN Stop(asked, askedRow)
     ELSE UNCHANGED <<sub, job>>
  /\ asked' = Nobody
  /\ askedRow' = Blank
  /\ UNCHANGED <<coll, members, manual, tries, owner, lost, run, handlers>>

\* start_source_collection_ingest with mode "once", and the end of its run.
StartManual ==
  /\ coll /\ members
  /\ ActiveSubs = {}
  /\ ~manual /\ ActiveRuns = {}
  /\ manual' = TRUE
  /\ UNCHANGED <<sub, coll, members, queue, run, handlers, request>>

EndManual ==
  /\ manual
  /\ manual' = FALSE
  /\ UNCHANGED <<sub, coll, members, queue, run, handlers, request>>

\* add_members, remove_members
ChangeMembers ==
  /\ coll
  /\ members' = ~members
  /\ UNCHANGED <<sub, coll, manual, queue, run, handlers, request>>

\* delete_source_collection stops every active subscription.
DeleteCollection ==
  /\ coll
  /\ coll' = FALSE
  /\ sub' = [s \in Subs |-> IF s \in ActiveSubs THEN StopOne(s, sub[s])
                            ELSE sub[s]]
  /\ Cancel(UNION {CancelledBy(s, sub[s]) : s \in ActiveSubs})
  /\ UNCHANGED <<members, manual, tries, owner, lost, run, handlers, request>>

\* POST /jobs/{id}/cancel
CancelJob(j) ==
  /\ job[j] = "queued"
  /\ Cancel({j})
  /\ UNCHANGED <<sub, coll, members, manual, tries, owner, lost, run,
                 handlers, request>>

-----------------------------------------------------------------------------
(* SchedulerService._schedule_continuous_cycles. *)

Due(s) == sub[s].status \in Active /\ sub[s].next = "due"

\* Mutant of CycleFailed: a failed job does not end the subscription.
CycleFailedCancelledOnly(s) ==
  /\ Due(s)
  /\ sub[s].ptr # 0
  /\ job[<<s, sub[s].ptr>>] = "cancelled"
  /\ sub' = [sub EXCEPT ![s] = [@ EXCEPT !.status = "error", !.next = "null",
                                       !.ptr = 0]]
  /\ UNCHANGED <<coll, members, manual, queue, run, handlers, request>>

\* The current cycle did not complete.
CycleFailed(s) ==
  /\ Due(s)
  /\ sub[s].ptr # 0
  /\ job[<<s, sub[s].ptr>>] \in {"failed", "cancelled"}
  /\ sub' = [sub EXCEPT ![s] = [@ EXCEPT !.status = "error", !.next = "null",
                                       !.ptr = 0]]
  /\ UNCHANGED <<coll, members, manual, queue, run, handlers, request>>

\* The current cycle completed but the row does not say so yet.
CycleSucceeded(s) ==
  /\ Due(s)
  /\ sub[s].ptr # 0
  /\ job[<<s, sub[s].ptr>>] = "succeeded"
  /\ sub' = [sub EXCEPT ![s] = [status |-> "running", next |-> "later",
                                ptr |-> 0, count |-> Larger(@.count, @.ptr)]]
  /\ UNCHANGED <<coll, members, manual, queue, run, handlers, request>>

\* The next cycle; enqueue_job finds the job that has its key already.
EnqueueCycle(s) ==
  LET c == sub[s].count + 1 IN
  /\ Due(s)
  /\ sub[s].ptr = 0
  /\ c <= MaxCycles
  /\ job' = [job EXCEPT ![<<s, c>>] = IF @ = "absent" THEN "queued" ELSE @]
  /\ sub' = [sub EXCEPT ![s] = [@ EXCEPT !.ptr = c, !.status = "running"]]
  /\ UNCHANGED <<coll, members, manual, tries, owner, lost, run, handlers,
                 request>>

\* next_cycle_at passes.
BecomesDue(s) ==
  /\ sub[s].next = "later"
  /\ sub' = [sub EXCEPT ![s].next = "due"]
  /\ UNCHANGED <<coll, members, manual, queue, run, handlers, request>>

-----------------------------------------------------------------------------
(* handle_source_collection_continuous_cycle and the worker around it. *)

\* claim_next_job.
ClaimJob(w, j) ==
  /\ pc[w] = "idle"
  /\ job[j] = "queued"
  /\ job' = [job EXCEPT ![j] = "running"]
  /\ tries' = [tries EXCEPT ![j] = @ + 1]
  /\ owner' = [owner EXCEPT ![j] = w]
  /\ cur' = [cur EXCEPT ![w] = j]
  /\ pc' = [pc EXCEPT ![w] = "claimed"]
  /\ UNCHANGED <<sub, coll, members, manual, lost, run, loaded, result, request>>

\* The handler is over; the worker is about to close the job.
Return(w, r) ==
  /\ pc' = [pc EXCEPT ![w] = "close"]
  /\ result' = [result EXCEPT ![w] = r]
  /\ loaded' = [loaded EXCEPT ![w] = Blank]

\* subscription_hint is read, without a lock.
ReadSubscription(w) ==
  /\ pc[w] = "claimed"
  /\ pc' = [pc EXCEPT ![w] = "hinted"]
  /\ loaded' = [loaded EXCEPT ![w] = sub[cur[w][1]]]
  /\ UNCHANGED <<sub, coll, members, manual, queue, run, cur, result, request>>

\* already_completed
Completed(w) == loaded[w].count >= cur[w][2] /\ loaded[w].ptr = 0

\* The locks are held and the cycle is to be run.
Proceeds(w) ==
  /\ pc[w] = "hinted"
  /\ ~Completed(w)
  /\ loaded[w].status \in {"starting", "running"}
  /\ coll

\* Another subscription, or the operator, is ingesting the collection.
OtherRun(w) == manual \/ \E j \in ActiveRuns : j[1] # cur[w][1]

\* The worker writes the subscription as n and returns from the handler.
Save(w, n) ==
  /\ sub' = [sub EXCEPT ![cur[w][1]] = Flush(@, loaded[w], n)]
  /\ Return(w, "succeeded")
  /\ UNCHANGED <<coll, members, manual, queue, cur, request>>

\* Nothing is left to do for this job.
CycleOver(w) ==
  /\ pc[w] = "hinted"
  /\ Completed(w) \/ loaded[w].status \notin Active
  /\ Return(w, "succeeded")
  /\ UNCHANGED <<sub, coll, members, manual, queue, run, cur, request>>

\* The subscription was asked to stop, or its collection is gone.
CycleStopped(w) ==
  /\ pc[w] = "hinted"
  /\ ~Completed(w)
  /\ \/ loaded[w].status = "stopping"
     \/ loaded[w].status \in {"starting", "running"} /\ ~coll
  /\ Save(w, StopWithoutCycle(loaded[w]))
  /\ UNCHANGED run

CycleDeferred(w) ==
  /\ Proceeds(w)
  /\ OtherRun(w)
  /\ Save(w, DeferCycle(loaded[w]))
  /\ UNCHANGED run

\* waiting_for_sources
CycleEmpty(w) ==
  /\ Proceeds(w)
  /\ ~OtherRun(w)
  /\ run[cur[w]] = "none" /\ ~members
  /\ Save(w, FinishCycle(loaded[w], cur[w][2]))
  /\ UNCHANGED run

\* The snapshot of the sources can be inserted, or is there already.
HasSnapshot(w) == run[cur[w]] # "none" \/ (members /\ ActiveRuns = {})

\* checkpoint_job accepts the worker.
Leased(w) == job[cur[w]] = "running" /\ owner[cur[w]] = w

\* Mutant of CycleBegins: a run that is settled is ingested again.
CycleBeginsAgain(w) ==
  /\ Proceeds(w)
  /\ ~OtherRun(w)
  /\ HasSnapshot(w) /\ Leased(w)
  /\ run' = [run EXCEPT ![cur[w]] = IF @ = "none" THEN "queued" ELSE @]
  /\ pc' = [pc EXCEPT ![w] = IF run[cur[w]] = "running" THEN "resume" ELSE "ingest"]
  /\ UNCHANGED <<sub, coll, members, manual, queue, cur, loaded, result, request>>

\* The run is recorded and committed; one that is settled is not repeated.
CycleBegins(w) ==
  /\ Proceeds(w)
  /\ ~OtherRun(w)
  /\ HasSnapshot(w) /\ Leased(w)
  /\ run' = [run EXCEPT ![cur[w]] = IF @ = "none" THEN "queued" ELSE @]
  /\ pc' = [pc EXCEPT ![w] = CASE run[cur[w]] = "done"    -> "finish"
                               [] run[cur[w]] = "running" -> "resume"
                               [] OTHER                   -> "ingest"]
  /\ UNCHANGED <<sub, coll, members, manual, queue, cur, loaded, result, request>>

\* An insert the index refuses, or a lease that is gone: all is rolled back.
CycleRefused(w) ==
  /\ Proceeds(w)
  /\ ~OtherRun(w)
  /\ run[cur[w]] # "none" \/ members
  /\ ~HasSnapshot(w) \/ ~Leased(w)
  /\ Return(w, "retryable")
  /\ UNCHANGED <<sub, coll, members, manual, queue, run, cur, request>>

\* prepare_run sets the run to "running", where it was not read so.
IngestStart(w) ==
  /\ \/ pc[w] = "resume" /\ UNCHANGED run
     \/ /\ pc[w] = "ingest"
        /\ coll => ActiveRuns \subseteq {cur[w]} /\ ~manual
        /\ run' = [run EXCEPT ![cur[w]] = "running"]
  /\ pc' = [pc EXCEPT ![w] = "ingesting"]
  /\ UNCHANGED <<sub, coll, members, manual, queue, cur, loaded, result, request>>

\* The index refuses the reopened run.
IngestRefused(w) ==
  /\ pc[w] = "ingest"
  /\ coll /\ (manual \/ ~ActiveRuns \subseteq {cur[w]})
  /\ Return(w, "retryable")
  /\ UNCHANGED <<sub, coll, members, manual, queue, run, cur, request>>

\* finish_run, all sources fetched or some of them failed.
IngestDone(w) ==
  /\ pc[w] = "ingesting"
  /\ run' = [run EXCEPT ![cur[w]] = "done"]
  /\ pc' = [pc EXCEPT ![w] = "finish"]
  /\ UNCHANGED <<sub, coll, members, manual, queue, cur, loaded, result, request>>

\* An exception leaves the workflow: _abort_run_quietly does its best.  Or the
\* rollback of one source's transaction has expired the subscription object,
\* whose attributes cannot be read any more.
IngestAborted(w) ==
  /\ pc[w] = "ingesting"
  /\ run' \in {run, [run EXCEPT ![cur[w]] = "done"]}
  /\ Return(w, "retryable")
  /\ UNCHANGED <<sub, coll, members, manual, queue, cur, request>>

\* The cycle is written to the subscription as it was read at the start.
CycleFinished(w) ==
  /\ pc[w] = "finish"
  /\ Save(w, FinishCycle(loaded[w], cur[w][2]))
  /\ UNCHANGED run

\* run_once is over.
Reset(w) ==
  /\ pc' = [pc EXCEPT ![w] = "idle"]
  /\ cur' = [cur EXCEPT ![w] = NoCycle]
  /\ loaded' = [loaded EXCEPT ![w] = Blank]
  /\ result' = [result EXCEPT ![w] = "succeeded"]

\* Mutant of ClosedStatus: the attempts are counted one too far.
ClosedStatusOnceMore(j, r) ==
  IF r = "succeeded" THEN r
  ELSE IF tries[j] <= MaxAttempts THEN "queued" ELSE "failed"

\* The status finish_job or fail_job gives a job.
ClosedStatus(j, r) ==
  IF r = "succeeded" THEN r
  ELSE IF tries[j] < MaxAttempts THEN "queued" ELSE "failed"

\* finish_job or fail_job, or the stale claim is dropped.
CloseJob(w) ==
  /\ pc[w] = "close"
  /\ IF Leased(w)
     THEN /\ job' = [job EXCEPT ![cur[w]] = ClosedStatus(cur[w], result[w])]
          /\ owner' = [owner EXCEPT ![cur[w]] = Nobody]
     ELSE UNCHANGED <<job, owner>>
  /\ Reset(w)
  /\ UNCHANGED <<sub, coll, members, manual, tries, lost, run, request>>

CrashWorker(w) ==
  /\ pc[w] # "idle"
  /\ Reset(w)
  /\ UNCHANGED <<sub, coll, members, manual, queue, run, request>>

\* requeue_expired_leases for one job.
Recovered(j) ==
  /\ job[j] = "running"
  /\ job' = [job EXCEPT ![j] = IF tries[j] >= MaxAttempts THEN "failed"
                               ELSE "queued"]
  /\ owner' = [owner EXCEPT ![j] = Nobody]
  /\ UNCHANGED <<sub, coll, members, manual, tries, run, handlers, request>>

\* The worker that holds the lease is alive.
Held(j) == \E w \in Workers : cur[w] = j /\ owner[j] = w

\* The worker died.
RecoverOrphan(j) == ~Held(j) /\ Recovered(j) /\ UNCHANGED lost

\* The worker lives but its heartbeats came too late: it goes on as a zombie.
RecoverZombie(j) == Held(j) /\ lost < MaxLost /\ Recovered(j) /\ lost' = lost + 1

-----------------------------------------------------------------------------
Operator ==
  \/ \E s \in Subs : Start(s) \/ StopById(s) \/ StopRead(s)
  \/ StopLatest \/ StartManual \/ EndManual \/ ChangeMembers
  \/ DeleteCollection
  \/ \E j \in Cycles : CancelJob(j)

Schedule(s) == CycleFailed(s) \/ CycleSucceeded(s) \/ EnqueueCycle(s)

Handle(w) ==
  \/ ReadSubscription(w) \/ CycleOver(w) \/ CycleStopped(w)
  \/ CycleDeferred(w) \/ CycleEmpty(w) \/ CycleBegins(w) \/ CycleRefused(w)
  \/ IngestStart(w) \/ IngestRefused(w) \/ IngestDone(w) \/ IngestAborted(w)
  \/ CycleFinished(w) \/ CloseJob(w)

Next ==
  \/ Operator
  \/ \E s \in Subs : Schedule(s) \/ BecomesDue(s)
  \/ \E w \in Workers, j \in Cycles : ClaimJob(w, j)
  \/ \E w \in Workers : Handle(w) \/ CrashWorker(w)
  \/ \E j \in Cycles : RecoverOrphan(j) \/ RecoverZombie(j)

Spec == Init /\ [][Next]_vars

\* The worker and scheduler processes are restarted when they die and poll for
\* ever; time passes, and the automation is not paused for ever.  Nothing else
\* is assumed of the operator.
Fairness ==
  /\ \A s \in Subs : WF_vars(Schedule(s)) /\ WF_vars(BecomesDue(s))
  /\ \A w \in Workers : WF_vars(Handle(w))
  /\ \A j \in Cycles : /\ WF_vars(\E w \in Workers : ClaimJob(w, j))
                      /\ WF_vars(RecoverOrphan(j))

FairSpec == Spec /\ Fairness

-----------------------------------------------------------------------------
(* Properties. *)

\* The rows and the handlers' local state keep their types; a cycle job is
\* never claimed more than max_attempts times.
TypeOK ==
  /\ sub \in [Subs -> Row]
  /\ coll \in BOOLEAN /\ members \in BOOLEAN /\ manual \in BOOLEAN
  /\ job \in [Cycles -> JobStatuses]
  /\ tries \in [Cycles -> 0..MaxAttempts]
  /\ owner \in [Cycles -> Workers \cup {Nobody}]
  /\ run \in [Cycles -> RunStatuses]
  /\ pc \in [Workers -> Pcs]
  /\ cur \in [Workers -> Cycles \cup {NoCycle}]
  /\ loaded \in [Workers -> Row]
  /\ result \in [Workers -> {"succeeded", "retryable"}]
  /\ lost \in 0..MaxLost
  /\ asked \in Subs \cup {Nobody}
  /\ askedRow \in Row

\* One ingestion of the collection at a time, whatever restarts, stops, manual
\* runs and new subscriptions come together, as long as leases are kept.
SingleIngest ==
  /\ coll /\ lost = 0
  => /\ Cardinality({w \in Workers : pc[w] = "ingesting"}) <= 1
     /\ manual => \A w \in Workers : pc[w] # "ingesting"

\* A settled cycle is not ingested again by a replay of its job: a crash after
\* the ingestion and before the cycle is written costs no second fetch.
KeepsSettledRuns == lost' = 0 => \A j \in Cycles : run[j] = "done" => run'[j] = "done"

\* A cycle number is counted only after its job was enqueued, so that no
\* cycle is left out of a subscription that is on, by replays, deferrals or
\* stale writes.
CountedCyclesExist ==
  \A s \in Subs, c \in 1..MaxCycles :
    sub[s].status \in {"starting", "running"} /\ c <= sub[s].count
      => job[<<s, c>>] # "absent"

\* The late write of a cycle that was read before the subscription stopped or
\* failed never turns it on again, a zombie's write included.
StaysStopped ==
  \A s \in Subs : sub[s].status \in {"stopped", "error"}
                    => sub'[s].status \notin {"starting", "running"}

\* A subscription that is on never gets stuck between two cycles: the next
\* cycle is counted, or the subscription leaves the state.
On(s, n) == sub[s].status \in {"starting", "running"} /\ sub[s].count = n
KeepsCycling == \A s \in Subs, n \in 0..(MaxCycles - 1) : On(s, n) ~> ~On(s, n)

\* A subscription that was asked to stop is not set running again.
StopHonoured ==
  [][\A s \in Subs : sub[s].status = "stopping"
                        => sub'[s].status \in {"stopping", "stopped", "error"}]_vars

\* No ingest run stays queued or running once its job is over.
RunsSettled ==
  \A j \in ActiveRuns : job[j] \in {"queued", "running"}
=============================================================================
