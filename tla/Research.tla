------------------------------- MODULE Research -------------------------------
(***************************************************************************)
(* Research on one story: requests of Telegram dispatches, of a content     *)
(* pack and of the operator, deduplicated by the evidence they are about;   *)
(* the research_story job with its attempts; and the continuations that     *)
(* bring the result back to every subscriber.                               *)
(* Source: backend/app/research/service.py, handlers.py, continuations.py,  *)
(* completeness.py, backend/app/automations/telegram/process_dispatch.py.   *)
(*                                                                         *)
(* The evidence of the story is a set: a dispatch adds the snapshot it was  *)
(* captured with, a research adds the pages it found.  Story revisions are  *)
(* numbered, each the child of the one before.  The generation of a         *)
(* dispatch (module TelegramProcess) is one step here.                      *)
(***************************************************************************)
EXTENDS HandlerRuns, FiniteSets

CONSTANTS MaxDispatches,  \* bound: dispatches of the story
          Pages,          \* pages that research may find
          MaxRevisions,   \* bound: revisions of the story
          Mode,           \* automation_routes.research_mode
          CompleteAt,     \* evidence that makes the story complete
          Disturbances    \* bound: what may come in between, of "pack",
                          \* "fail", "crash", "lease"

Dispatches == 1..MaxDispatches
Pack == 0                      \* the subscriber that is no dispatch
Subscribers == {Pack} \cup Dispatches

\* Idempotency keys.
ResearchKey(e)   == [type |-> "research", d |-> 0, n |-> 0, ev |-> e]
ProcessKey(d, n) == [type |-> "process", d |-> d, n |-> n, ev |-> {}]
PackKey(n)       == [type |-> "pack", d |-> 0, n |-> n, ev |-> {}]
ResearchJobs     == {j \in Jobs : j.type = "research"}

ResearchAssumption ==
  /\ {MaxDispatches, MaxRevisions, CompleteAt} \subseteq Nat \ {0}
  /\ Mode \in {"manual", "auto_if_incomplete"}
  /\ Pages \cap Dispatches = {}
  /\ Jobs = {ResearchKey({1} \cup e) : e \in SUBSET (Dispatches \cup Pages)}
            \cup {ProcessKey(d, n) : d \in Dispatches, n \in 0..MaxRevisions}
            \cup {PackKey(n) : n \in 1..MaxRevisions}

VARIABLES
  evidence,  \* story_evidence_snapshots of the story
  latest,    \* revision_number of the newest story revision
  st, err,   \* automation_dispatches.status, error_code
  srev, cap, \* story_revision_id now and at the capture
  done,      \* dispatches with a revision
  run,       \* research_runs by the key of their job: status, newest attempt,
             \* its status, result_story_revision_id
  subs,      \* payload.continuations: the revision a subscriber expects
  pc, att    \* a worker: step and attempt

story      == <<evidence, latest>>
dispatches == <<st, err, srev, cap, done>>
research   == <<run, subs>>
locals     == <<pc, att>>
vars       == <<story, dispatches, research, locals, queueVars>>

NoRun  == [st |-> "none", att |-> 0, attSt |-> "none", res |-> 0]
NoSubs == [s \in Subscribers |-> 0]
Blocking == {"captured", "researching"}

TypeOK ==
  /\ QueueTypeOK
  /\ evidence \subseteq Dispatches \cup Pages
  /\ latest \in 0..MaxRevisions
  /\ st \in [Dispatches -> {"absent", "pending_review", "needs_review", "failed"} \cup Blocking]
  /\ srev \in [Dispatches -> 0..MaxRevisions] /\ cap \in [Dispatches -> 0..MaxRevisions]
  /\ done \subseteq Dispatches
  /\ \A k \in ResearchJobs :
       /\ run[k].st \in {"none", "queued", "running", "succeeded", "needs_review", "failed"}
       /\ run[k].res \in 0..MaxRevisions
  /\ subs \in [ResearchJobs -> [Subscribers -> 0..MaxRevisions]]
  /\ pc \in [Workers -> {"idle", "start", "call", "failing", "retryable", "needs_review", "succeeded"}]

Init ==
  /\ QueueInit
  /\ evidence = {} /\ latest = 0
  /\ st = [d \in Dispatches |-> "absent"] /\ err = [d \in Dispatches |-> "none"]
  /\ srev = [d \in Dispatches |-> 0] /\ cap = [d \in Dispatches |-> 0] /\ done = {}
  /\ run = [k \in ResearchJobs |-> NoRun] /\ subs = [k \in ResearchJobs |-> NoSubs]
  /\ pc = [w \in Workers |-> "idle"] /\ att = [w \in Workers |-> 0]

\* enqueue_job for each of the keys.
EnqueueAll(keys) ==
  /\ job' = [j \in Jobs |-> IF j \in keys /\ job[j] = "absent" THEN "queued" ELSE job[j]]
  /\ UNCHANGED <<tries, owner, retried, cur>>

-----------------------------------------------------------------------------
(* Capture and the queue. *)

\* capture_and_enqueue: snapshot, story revision, dispatch and job.
Capture ==
  /\ latest < MaxRevisions
  /\ \E d \in Dispatches :
       /\ st[d] = "absent" /\ \A e \in 1..(d - 1) : st[e] # "absent"
       /\ st' = [st EXCEPT ![d] = "captured"]
       /\ srev' = [srev EXCEPT ![d] = latest + 1] /\ cap' = [cap EXCEPT ![d] = latest + 1]
       /\ evidence' = evidence \cup {d}
       /\ EnqueueAll({ProcessKey(d, 0)})
  /\ latest' = latest + 1
  /\ UNCHANGED <<err, done, research, locals>>

Start(w) ==
  /\ \E j \in Jobs : j.type # "pack" /\ ClaimJob(w, j)
  /\ pc' = [pc EXCEPT ![w] = "start"]
  /\ UNCHANGED <<story, dispatches, research, att>>

End(w) ==
  /\ \/ pc[w] \in Results /\ CloseJob(w, pc[w])
     \/ pc[w] = "start" /\ ~Executable(w) /\ CloseJob(w, "permanent")
  /\ pc' = [pc EXCEPT ![w] = "idle"] /\ att' = [att EXCEPT ![w] = 0]
  /\ UNCHANGED <<story, dispatches, research>>

Crash(w) ==
  /\ "crash" \in Disturbances
  /\ Die(w)
  /\ pc' = [pc EXCEPT ![w] = "idle"] /\ att' = [att EXCEPT ![w] = 0]
  /\ UNCHANGED <<story, dispatches, research>>

Retry(j) ==
  /\ RetryJob(j)
  /\ UNCHANGED <<story, dispatches, research, locals>>

\* _lock_expired_lease_dependents: the job's dispatch, or its subscribers.
Dependents(j) ==
  IF j.type = "research" THEN {d \in Dispatches : subs[j][d] # 0} ELSE {j.d}

\* _sync_terminal_expired_lease_dependents, a dispatch.
Settled(d) ==
  CASE st[d] = "captured" -> "failed"
    [] st[d] = "researching" -> "needs_review"
    [] OTHER -> st[d]

Recover(j) ==
  /\ "lease" \in Disturbances \/ \A w \in Workers : cur[w] # j
  /\ RecoverJob(j)
  /\ IF RecoveredStatus(j) = "failed"
     THEN /\ st' = [d \in Dispatches |-> IF d \in Dependents(j) THEN Settled(d) ELSE st[d]]
          /\ run' = [k \in ResearchJobs |->
                       IF k = j /\ run[k].st \in {"queued", "running"}
                       THEN [run[k] EXCEPT !.st = "failed", !.attSt = "failed"] ELSE run[k]]
     ELSE UNCHANGED <<st, run>>
  /\ UNCHANGED <<story, err, srev, cap, done, subs, locals>>

-----------------------------------------------------------------------------
(* Continuations. *)

\* _validate_bound_context: a dispatch is still at the revision it asked for,
\* and the result descends from it; a content pack only names the story.
Bound(s, expected, result) == s # Pack => srev[s] = expected /\ expected < result

Continuation(s, result) == IF s = Pack THEN PackKey(result) ELSE ProcessKey(s, result)

\* enqueue_bound_continuation for subscribers S.
Resume(S, result) ==
  /\ st' = [d \in Dispatches |-> IF d \in S THEN "captured" ELSE st[d]]
  /\ err' = [d \in Dispatches |-> IF d \in S THEN "none" ELSE err[d]]
  /\ srev' = [d \in Dispatches |-> IF d \in S THEN result ELSE srev[d]]
  /\ EnqueueAll({Continuation(s, result) : s \in S})
  /\ UNCHANGED <<cap, done>>

-----------------------------------------------------------------------------
(* ResearchService.request *)

Complete == Cardinality(evidence) >= CompleteAt

\* The canonical run of a complete story: the one that succeeded last.
Succeeded == {k \in ResearchJobs : run[k].st = "succeeded"}
NewestOf(S) == CHOOSE k \in S : \A l \in S : run[l].res <= run[k].res
Newest == NewestOf(Succeeded)

\* append_unique_continuation: a subscriber is entered once.
Subscribed(k, s, expected) ==
  IF subs[k][s] # 0 THEN subs ELSE [subs EXCEPT ![k][s] = expected]

\* Mutant of Added: a subscriber of a finished run waits for it.
AddedNever(k, s) == FALSE

\* A new subscriber of a run that has its result is served at once.
Added(k, s) == subs[k][s] = 0 /\ run[k].st = "succeeded"

\* A run for this evidence is made or joined; the transaction of a request
\* whose continuation is not bound is rolled back.
Enqueue(s, expected) ==
  LET k == ResearchKey(evidence) IN
  /\ subs' = Subscribed(k, s, expected)
  /\ run' = [run EXCEPT ![k].st = IF job[k] = "absent" THEN "queued" ELSE @]
  /\ IF Added(k, s) THEN Resume({s}, run[k].res)
     ELSE EnqueueAll({k}) /\ UNCHANGED dispatches

\* The result of a complete story is used again.
Reuse(s, expected) ==
  /\ subs' = Subscribed(Newest, s, expected)
  /\ IF Added(Newest, s) THEN Resume({s}, run[Newest].res)
     ELSE UNCHANGED <<dispatches, jobVars, cur>>
  /\ UNCHANGED run

Reusable(s, expected) ==
  /\ Succeeded # {} /\ Bound(s, expected, run[Newest].res)

\* start_story_research: the operator asks; nobody is subscribed.
RequestManual ==
  LET k == ResearchKey(evidence) IN
  /\ Mode = "manual" /\ evidence # {} /\ job[k] = "absent"
  /\ run' = [run EXCEPT ![k].st = "queued"]
  /\ EnqueueAll({k})
  /\ UNCHANGED <<story, dispatches, subs, locals>>

\* The content pack asks in a transaction of its own.
RequestPack ==
  /\ "pack" \in Disturbances /\ Mode = "auto_if_incomplete" /\ evidence # {}
  /\ \A k \in ResearchJobs : subs[k][Pack] = 0
  /\ IF Complete THEN Reusable(Pack, 1) /\ Reuse(Pack, 1) ELSE Enqueue(Pack, 1)
  /\ UNCHANGED <<story, locals>>

-----------------------------------------------------------------------------
(* telegram.route.process, as far as research goes. *)

Processing(w) == cur[w] # NoJob /\ cur[w].type = "process" /\ pc[w] = "start" /\ Executable(w)

\* The error is written to the dispatch after the rollback.
Refused(w, code) ==
  LET d == cur[w].d IN
  /\ st' = [st EXCEPT ![d] = IF d \in done THEN @ ELSE "needs_review"]
  /\ err' = [err EXCEPT ![d] = IF d \in done THEN @ ELSE code]
  /\ pc' = [pc EXCEPT ![w] = "needs_review"]
  /\ UNCHANGED <<srev, cap, done, queueVars>>

ProcessDone(w) ==
  /\ Processing(w) /\ cur[w].d \in done
  /\ pc' = [pc EXCEPT ![w] = "succeeded"]
  /\ UNCHANGED <<story, dispatches, research, att, queueVars>>

\* _validate_research_continuation
ContinuationInvalid(w) ==
  /\ Processing(w) /\ cur[w].d \notin done /\ cur[w].n # 0
  /\ srev[cur[w].d] # cur[w].n
  /\ Refused(w, "continuation")
  /\ UNCHANGED <<story, research, att>>

\* _apply_manual_research: the runs since the capture.
ManualRuns(d) == {k \in Succeeded : d \in k.ev}

ManualMissing(w) ==
  /\ Processing(w) /\ cur[w].d \notin done /\ cur[w].n = 0 /\ Mode = "manual"
  /\ ManualRuns(cur[w].d) = {}
  /\ Refused(w, "manual")
  /\ UNCHANGED <<story, research, att>>

\* The revision the generation is about.
Selected(w) ==
  IF cur[w].n = 0 /\ Mode = "manual"
  THEN run[NewestOf(ManualRuns(cur[w].d))].res ELSE srev[cur[w].d]

\* Research is behind the dispatch or not asked for.
Generates(w) ==
  LET d == cur[w].d IN
  /\ Processing(w) /\ d \notin done
  /\ CASE cur[w].n # 0 -> srev[d] = cur[w].n
       [] cur[w].n = 0 /\ Mode = "manual" -> ManualRuns(d) # {}
       [] OTHER -> Complete /\ ~Reusable(d, srev[d])

\* _exact_dispatch_evidence: the link "telegram.source" is made at the capture;
\* a revision that research made has links of its claims only.
Generate(w) ==
  LET d == cur[w].d IN
  /\ Generates(w)
  /\ IF Selected(w) = cap[d]
     THEN /\ done' = done \cup {d}
          /\ st' = [st EXCEPT ![d] = "pending_review"] /\ err' = [err EXCEPT ![d] = "none"]
          /\ pc' = [pc EXCEPT ![w] = "succeeded"]
          /\ UNCHANGED <<srev, cap, queueVars>>
     ELSE Refused(w, "evidence")
  /\ UNCHANGED <<story, research, att>>

\* _request_auto_research, with what the request did to the dispatch undone:
\* the status is "researching" whatever the state of the run.
RequestAuto(w) ==
  LET d == cur[w].d IN
  /\ Processing(w) /\ d \notin done /\ cur[w].n = 0 /\ Mode = "auto_if_incomplete"
  /\ ~Complete \/ Reusable(d, srev[d])
  /\ LET k == IF Complete THEN Newest ELSE ResearchKey(evidence) IN
       /\ Added(k, d) => Bound(d, srev[d], run[k].res)
       /\ subs' = Subscribed(k, d, srev[d])
       /\ run' = [run EXCEPT ![k].st = IF job[k] = "absent" THEN "queued" ELSE @]
       /\ EnqueueAll(IF Added(k, d) THEN {ProcessKey(d, run[k].res)} ELSE {k})
       /\ srev' = [srev EXCEPT ![d] = IF Added(k, d) THEN run[k].res ELSE @]
  /\ st' = [st EXCEPT ![d] = "researching"] /\ err' = [err EXCEPT ![d] = "none"]
  /\ pc' = [pc EXCEPT ![w] = "succeeded"]
  /\ UNCHANGED <<story, cap, done, att>>

-----------------------------------------------------------------------------
(* research_story *)

Researching(w, step) == cur[w] # NoJob /\ cur[w].type = "research" /\ pc[w] = step

ResearchDone(w) ==
  /\ Researching(w, "start") /\ Executable(w) /\ run[cur[w]].st = "succeeded"
  /\ pc' = [pc EXCEPT ![w] = "succeeded"]
  /\ UNCHANGED <<story, dispatches, research, att, queueVars>>

\* Earlier attempts are given up, a new one is made; _validate_job_binding
\* fails when the story has got other evidence since the request.
Prepare(w) ==
  LET k == cur[w] IN
  /\ Researching(w, "start") /\ Executable(w) /\ run[k].st # "succeeded"
  /\ run' = [run EXCEPT ![k].st = "running", ![k].att = @ + 1, ![k].attSt = "running"]
  /\ att' = [att EXCEPT ![w] = run[k].att + 1]
  /\ pc' = [pc EXCEPT ![w] = IF evidence = k.ev THEN "call" ELSE "failing"]
  /\ UNCHANGED <<story, dispatches, subs, queueVars>>

\* Mutant of IsCurrent: whoever has an attempt may write.
IsAnyAttempt(w) == att[w] > 0

\* The attempt is the newest and running, and the run too.
IsCurrent(w) ==
  LET r == run[cur[w]] IN r.st = "running" /\ r.att = att[w] /\ r.attSt = "running"

SubscribersOf(k) == {s \in Subscribers : subs[k][s] # 0}
AllBound(k, result) == \A s \in SubscribersOf(k) : Bound(s, subs[k][s], result)

\* _materialize_sources, the new story revision and _fan_out_continuations.
Persist(w, found) ==
  LET k == cur[w] IN
  /\ Researching(w, "call") /\ IsCurrent(w) /\ latest < MaxRevisions
  /\ found \cap evidence = {} /\ AllBound(k, latest + 1)
  /\ evidence' = evidence \cup found /\ latest' = latest + 1
  /\ run' = [run EXCEPT ![k].st = "succeeded", ![k].attSt = "succeeded", ![k].res = latest + 1]
  /\ Resume(SubscribersOf(k), latest + 1)
  /\ pc' = [pc EXCEPT ![w] = "succeeded"]
  /\ UNCHANGED <<subs, att>>

\* A page that is evidence already, a subscriber that is not bound any more,
\* an attempt that was superseded: nothing of the result is kept.
PersistRefused(w, found) ==
  /\ Researching(w, "call") /\ latest < MaxRevisions
  /\ ~IsCurrent(w) \/ found \cap evidence # {} \/ ~AllBound(cur[w], latest + 1)
  /\ pc' = [pc EXCEPT ![w] = "failing"]
  /\ UNCHANGED <<story, dispatches, research, att, queueVars>>

\* Mutant of ToReview: the run keeps the failure to itself.
ToNobody(k) == {}

\* _record_failure: the dispatches that are told.
ToReview(k) == SubscribersOf(k) \ (done \cup {Pack})

\* _record_failure: an attempt that is not the newest leaves all alone.
RecordFailure(w, r) ==
  LET k == cur[w] IN
  /\ \/ Researching(w, "failing") /\ r = "needs_review"
     \/ Researching(w, "call") /\ "fail" \in Disturbances
  /\ IF run[k].st # "succeeded" /\ run[k].att = att[w] /\ run[k].attSt = "running"
     THEN LET S == ToReview(k)
              s == IF r = "needs_review" THEN r ELSE "failed" IN
          /\ run' = [run EXCEPT ![k].st = s, ![k].attSt = s]
          /\ st' = [d \in Dispatches |-> IF d \in S THEN "needs_review" ELSE st[d]]
          /\ err' = [d \in Dispatches |-> IF d \in S THEN "research" ELSE err[d]]
          /\ pc' = [pc EXCEPT ![w] = r]
     ELSE /\ pc' = [pc EXCEPT ![w] = "succeeded"]
          /\ UNCHANGED <<run, st, err>>
  /\ UNCHANGED <<story, srev, cap, done, subs, att, queueVars>>

-----------------------------------------------------------------------------
WorkerStep(w) ==
  \/ ProcessDone(w) \/ ContinuationInvalid(w) \/ ManualMissing(w) \/ Generate(w) \/ RequestAuto(w)
  \/ ResearchDone(w) \/ Prepare(w) \/ End(w)
  \/ \E found \in SUBSET Pages : Persist(w, found) \/ PersistRefused(w, found)
  \/ \E r \in {"needs_review", "retryable"} : RecordFailure(w, r)

Next ==
  \/ Capture \/ RequestManual \/ RequestPack
  \/ \E w \in Workers : Start(w) \/ WorkerStep(w) \/ Crash(w)
  \/ \E j \in Jobs : Recover(j) \/ Retry(j)

Spec == Init /\ [][Next]_vars

\* Workers go on and claim what is queued; expired leases are recovered.
Fairness ==
  /\ \A w \in Workers : WF_vars(WorkerStep(w)) /\ WF_vars(Start(w))
  /\ \A j \in Jobs : WF_vars(Recover(j))

LiveSpec == Spec /\ Fairness

-----------------------------------------------------------------------------
(* What is checked. *)

\* A run has one result: the answer to a superseded or given up attempt makes
\* no second story revision and changes no run that is over.
KeepsResults ==
  \A k \in ResearchJobs :
    /\ run[k].res # 0 => run'[k].res = run[k].res /\ run'[k].st = "succeeded"
    /\ run'[k].res # run[k].res => run'[k].res > latest

\* Whoever subscribed to a run that succeeded, before or after, has its
\* continuation: no request is lost between the run and its subscribers.
SubscribersResumed ==
  \A k \in Succeeded : \A s \in SubscribersOf(k) : job[Continuation(s, run[k].res)] # "absent"

\* The jobs that can take a dispatch on.
Pending(d) ==
  \E j \in Jobs : /\ job[j] \in {"queued", "running"}
                  /\ (j.type = "research" /\ subs[j][d] # 0) \/ (j.type = "process" /\ j.d = d)

\* A dispatch that is said to be under way, and holds up the later ones of its
\* story, has a job that will take it on.
UnderWay == \A d \in Dispatches : d \notin done /\ st[d] \in Blocking => Pending(d)

\* Research brings a dispatch to its revision: the evidence it was captured
\* with is found at the revision that research made.
ResearchedIsRewritten == \A d \in Dispatches : err[d] # "evidence"

\* No dispatch stays "researching".
UnderResearch(d) == st[d] = "researching" /\ d \notin done
ResearchEnds == \A d \in Dispatches : UnderResearch(d) ~> ~UnderResearch(d)
=============================================================================
