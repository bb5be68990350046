---------------------------- MODULE AutomationRuns ----------------------------
(***************************************************************************)
(* Runs of one automation: a trigger creates a run with a node row for each *)
(* stage of the compiled plan, links a job of the editorial pipeline to the *)
(* run, and every linked job projects its outcome onto the run: to the next *)
(* job, to a human review, or to the end.                                   *)
(* Source: backend/app/automations/definitions: execution.py,               *)
(* collection_events.py, collection_execution.py, source_events.py,         *)
(* source_execution.py, schedule_execution.py, trigger_runtime.py,          *)
(* handler_wrapper.py, runtime_state.py; api/automations.py.                *)
(*                                                                         *)
(* Artifacts are left out: every projection finds or makes one.  What the   *)
(* jobs write is one step (ContentPacks and Research have the detail).      *)
(* Projections of telegram.route.* and telegram.publish jobs are left out:  *)
(* no code links such a job to a run these triggers created; the same goes  *)
(* for the review_required branch, which only the dispatch of a Telegram     *)
(* route asks for.  Data failures of the trigger (no story to group with, no *)
(* provider) end the run like a plan that is not supported.                  *)
(***************************************************************************)
EXTENDS HandlerRuns, Sequences

CONSTANTS Stages,       \* node types of the compiled plan, the trigger first
          MaxRuns,      \* bound: runs of the automation
          Request,      \* the content pack request of each run
          DryRuns,      \* values of dry_run that runs may be started with
          Disturbances  \* bound: of "crash", "lease", "fail", "raise", "gate",
                        \* "other", "retry", "filter"

Runs == 1..MaxRuns
Nodes == 1..Len(Stages)
Requests == {Request[r] : r \in Runs}
Trigger == Stages[1]

AutomationRunsAssumption ==
  /\ Len(Stages) > 0 /\ MaxRuns \in Nat
  /\ Trigger \in {"manual", "schedule", "collection_article_added", "new_source_item"}
  /\ DryRuns \subseteq BOOLEAN

\* Jobs: of a trigger for a run, of a request, of another subscriber's request.
StartJob(r)    == [kind |-> "start", id |-> r]
ResearchJob(q) == [kind |-> "research", id |-> q]
GenerateJob(q) == [kind |-> "generate", id |-> q]
PackageJob(q)  == [kind |-> "package", id |-> q]
OtherJob(q)    == [kind |-> "other", id |-> q]

VARIABLES
  run,      \* automation_runs: status, current node (0: NULL), dry_run
  node,     \* automation_node_runs: status, workflow_job_id, platform_variant_revision_id set
  link,     \* workflow_jobs.automation_run_id, automation_node_run_id
  pending,  \* continuation_job_id of the review node
  asked,    \* payload.continuations of the research job
  written,  \* requests whose package has its variant revisions
  filtered, \* runs whose article the filter rejected
  open,     \* the automation is active at this version, nothing is paused
  pc, linked \* a worker: step; the claim saw a link

runVars == <<run, node, link, pending>>
rest    == <<asked, written, filtered, open>>
locals  == <<pc, linked>>
vars    == <<runVars, rest, locals, queueVars>>

NoLink  == [run |-> 0, node |-> 0]
NoNode  == [st |-> "none", job |-> NoJob, rev |-> FALSE]
Ended   == {"succeeded", "failed", "cancelled"}
Settled == {"succeeded", "failed", "skipped"}

\* The first stage of a type, 0 if the plan has none: _node_by_type, stage.
At(type) ==
  IF \E i \in Nodes : Stages[i] = type
  THEN CHOOSE i \in Nodes : Stages[i] = type /\ \A k \in 1..(i - 1) : Stages[k] # type
  ELSE 0

\* _next_node_type is human_review.
ReviewNext(i) == i < Len(Stages) /\ Stages[i + 1] = "human_review"

TypeOK ==
  /\ job \in [Jobs -> JobStatuses] /\ tries \in [Jobs -> Nat]
  /\ owner \in [Jobs -> Workers \cup {Nobody}]
  /\ cur \in [Workers -> Jobs \cup {NoJob}]
  /\ \A r \in Runs :
       /\ run[r].st \in {"none", "queued", "running", "waiting_for_review"} \cup Ended
       /\ run[r].cur \in 0..Len(Stages) /\ pending[r] \in Jobs \cup {NoJob}
       /\ \A i \in Nodes :
            /\ node[r][i].st \in {"none", "pending", "queued", "waiting_for_review"} \cup Settled
            /\ node[r][i].job \in Jobs \cup {NoJob}
  /\ \A j \in Jobs : link[j] = NoLink \/ (link[j].run \in Runs /\ link[j].node \in Nodes)
  /\ written \subseteq Requests /\ filtered \subseteq Runs
  /\ pc \in [Workers -> {"idle", "handle", "project", "retryable", "permanent",
                         "needs_review", "raised", "succeeded"}]

Init ==
  /\ QueueInit
  /\ run = [r \in Runs |-> [st |-> "none", cur |-> 0, dry |-> FALSE]]
  /\ node = [r \in Runs |-> [i \in Nodes |-> NoNode]]
  /\ link = [j \in Jobs |-> NoLink] /\ pending = [r \in Runs |-> NoJob]
  /\ asked = [q \in Requests |-> <<>>] /\ written = {} /\ filtered = {} /\ open = TRUE
  /\ pc = [w \in Workers |-> "idle"] /\ linked = [w \in Workers |-> FALSE]

Enqueued(jobs, j) == [jobs EXCEPT ![j] = IF @ = "absent" THEN "queued" ELSE @]

-----------------------------------------------------------------------------
(* The request for a content pack that a run makes. *)

Append1(s, x) == IF \E i \in DOMAIN s : s[i] = x THEN s ELSE Append(s, x)

\* A research that has succeeded gives its result at once.
AtOnce(q) == job[ResearchJob(q)] = "succeeded"

\* request_content_pack: the job it answers with, ...
Accepted(q) == IF At("research") # 0 THEN ResearchJob(q) ELSE GenerateJob(q)

\* ... and the jobs after it.
Requested(q, by) ==
  CASE At("research") = 0 -> Enqueued(job, by)
    [] AtOnce(q) -> Enqueued(job, by)
    [] OTHER -> Enqueued(job, ResearchJob(q))

Asks(q, by) ==
  asked' = IF At("research") = 0 THEN asked ELSE [asked EXCEPT ![q] = Append1(@, by)]

\* Mutant of Owned: a job of another run is taken over.
OwnedNever(r, j) == link[j].run = r /\ FALSE

\* The job is already another run's.
Owned(r, j) == link[j] # NoLink /\ link[j].run # r

\* The stage the accepted job works for.
Target(j) == IF j.kind = "research" THEN At("research") ELSE At("generate_content_pack")

\* The node rows of a new run.
Rows(dry, done) ==
  [i \in Nodes |-> [NoNode EXCEPT !.st =
    CASE i \in done -> "succeeded"
      [] dry /\ Stages[i] = "telegram_publish" -> "skipped"
      [] OTHER -> "pending"]]

\* The run and its nodes with the accepted job linked.
Begun(rows, j) == [rows EXCEPT ![Target(j)].st = "queued", ![Target(j)].job = j]

-----------------------------------------------------------------------------
(* Triggers. *)

\* Starts and events of the active version while nothing is paused; runs are
\* numbered as they begin.
MayStart(r) == open /\ run[r].st = "none" /\ \A s \in 1..(r - 1) : run[s].st # "none"

\* AutomationExecutionService.start, _start_manual_content_pack: a job that
\* is another run's refuses the request.
StartManual(r, dry) ==
  /\ Trigger = "manual" /\ MayStart(r)
  /\ LET j == Accepted(Request[r]) IN
       /\ ~Owned(r, j)
       /\ run' = [run EXCEPT ![r] = [st |-> "queued", cur |-> Target(j), dry |-> dry]]
       /\ node' = [node EXCEPT ![r] = Begun(Rows(dry, {1}), j)]
       /\ link' = [link EXCEPT ![j] = [run |-> r, node |-> Target(j)]]
  /\ job' = Requested(Request[r], GenerateJob(Request[r]))
  /\ Asks(Request[r], GenerateJob(Request[r]))
  /\ UNCHANGED <<pending, written, filtered, open, locals, tries, owner, retried, cur>>

\* The run of an event and the job of its trigger.
Triggered(r, dry) ==
  /\ MayStart(r)
  /\ run' = [run EXCEPT ![r] = [st |-> "queued", cur |-> 1, dry |-> dry]]
  /\ node' = [node EXCEPT ![r] = [i \in Nodes |->
                [NoNode EXCEPT !.st = "pending", !.job = IF i = 1 THEN StartJob(r) ELSE NoJob]]]
  /\ link' = [link EXCEPT ![StartJob(r)] = [run |-> r, node |-> 1]]
  /\ EnqueueJob(StartJob(r))
  /\ UNCHANGED <<pending, rest, locals>>

\* enqueue_collection_article_added
ArticleAdded(r, dry) == Trigger = "collection_article_added" /\ Triggered(r, dry)

\* enqueue_source_item_created
ItemCreated(r, dry) == Trigger = "new_source_item" /\ Triggered(r, dry)

\* The scheduler enqueues the job of a schedule that is due.
Tick ==
  /\ Trigger = "schedule"
  /\ EnqueueJob(StartJob(1))
  /\ UNCHANGED <<runVars, rest, locals>>

\* The operator requests the same pack, or one with the same research.
RequestPack(q, by) ==
  /\ "other" \in Disturbances
  /\ by \in {GenerateJob(q), OtherJob(q)}
  /\ job' = Requested(q, by) /\ Asks(q, by)
  /\ <<job', asked'>> # <<job, asked>>
  /\ UNCHANGED <<runVars, written, filtered, open, locals, tries, owner, retried, cur>>

Gate ==
  /\ "gate" \in Disturbances
  /\ open' = ~open
  /\ UNCHANGED <<runVars, asked, written, filtered, locals, queueVars>>

-----------------------------------------------------------------------------
(* Projection of an outcome: sync_automation_job_succeeded, _failed. *)

Result(next, at, rev) == [next |-> next, node |-> at, rev |-> rev]
Nothing == Result(NoJob, 0, FALSE)

\* The continuation waits for the review.
ToReview(r, i, rows, res, jobs) ==
  LET at == At("human_review") IN
  /\ node' = [node EXCEPT ![r] =
                [rows EXCEPT ![i].st = "succeeded", ![at].st = "waiting_for_review"]]
  /\ pending' = [pending EXCEPT ![r] = res.next]
  /\ run' = [run EXCEPT ![r].st = "waiting_for_review", ![r].cur = at]
  /\ job' = [jobs EXCEPT ![res.next] = "cancelled"]

\* The continuation is the run's next job.
Continue(r, i, j, rows, links, res, jobs) ==
  LET generation == At("generate_content_pack")
      target == IF res.node # 0 THEN res.node
                ELSE IF j.kind = "research" /\ generation # 0 THEN generation ELSE i
      left == IF res.node = 0 /\ j.kind = "research"
              THEN [rows EXCEPT ![i].st = "succeeded"] ELSE rows IN
  /\ link' = [links EXCEPT ![res.next] = [run |-> r, node |-> target]]
  /\ node' = [node EXCEPT ![r] =
                [left EXCEPT ![target].st = "queued", ![target].job = res.next]]
  /\ run' = [run EXCEPT ![r].st = "running", ![r].cur = target]
  /\ job' = jobs /\ UNCHANGED pending

\* Mutant of LastNode: every job is the last one.
LastNodeAny(i) == i \in Nodes

\* The run ends with this node: it publishes, or drafts are what the plan ends with.
LastNode(i) == At("telegram_publish") = i \/ At("save_drafts") # 0

\* No continuation: the node is done, and with it the run's drafts.
Finish(r, i, rows, res, jobs) ==
  LET drafts == At("save_drafts") IN
  /\ node' = [node EXCEPT ![r] = [k \in Nodes |->
       [rows[k] EXCEPT !.st = IF k = i \/ (k = drafts /\ @ = "pending") THEN "succeeded" ELSE @,
                       !.rev = IF k = i THEN @ \/ res.rev ELSE @]]]
  /\ run' = [run EXCEPT ![r] =
       IF LastNode(i) \/ @.st = "succeeded" THEN [@ EXCEPT !.st = "succeeded", !.cur = 0] ELSE @]
  /\ job' = jobs /\ UNCHANGED pending

\* rows, links and jobs: what the handler has left in the same transaction.
Project(w, rows, links, res, jobs) ==
  LET j == cur[w]
      r == links[j].run
      i == links[j].node IN
  IF ~linked[w]
  THEN link' = links /\ job' = jobs /\ UNCHANGED <<run, node, pending>>
  ELSE IF run[r].st \in Ended /\ rows[i].st \in Settled
  THEN link' = links /\ job' = jobs /\ node' = [node EXCEPT ![r] = rows] /\ UNCHANGED <<run, pending>>
  ELSE IF res.next # NoJob /\ ReviewNext(i)
  THEN ToReview(r, i, rows, res, jobs) /\ link' = links
  ELSE IF res.next # NoJob
  THEN Continue(r, i, j, rows, links, res, jobs)
  ELSE Finish(r, i, rows, res, jobs) /\ link' = links

Rowsof(w) == IF link[cur[w]] = NoLink THEN node[1] ELSE node[link[cur[w]].run]

\* _persist_automation_failure: in a transaction of its own, whatever the run is.
Failed(w, waiting) ==
  IF ~linked[w] THEN UNCHANGED <<run, node>>
  ELSE LET r == link[cur[w]].run
           i == link[cur[w]].node
           to == IF waiting THEN "waiting_for_review" ELSE "failed" IN
       /\ node' = [node EXCEPT ![r][i].st = to]
       /\ run' = [run EXCEPT ![r].st = to, ![r].cur = i]

-----------------------------------------------------------------------------
(* Workers. *)

Start(w) ==
  /\ \E j \in Jobs : ClaimJob(w, j) /\ linked' = [linked EXCEPT ![w] = link[j] # NoLink]
  /\ pc' = [pc EXCEPT ![w] = "handle"]
  /\ UNCHANGED <<runVars, rest>>

Steps(w, to) ==
  /\ Executable(w)
  /\ pc' = [pc EXCEPT ![w] = to]
  /\ UNCHANGED <<linked, tries, owner, retried, cur>>

\* finish_trigger_run: the run is over with its trigger.
TriggerOver(w, r, st, rows) ==
  /\ node' = [node EXCEPT ![r] = [rows EXCEPT ![1].st =
                CASE st = "succeeded" -> "succeeded" [] st = "failed" -> "failed" [] OTHER -> "skipped"]]
  /\ run' = [run EXCEPT ![r].st = st, ![r].cur = IF st = "succeeded" THEN 0 ELSE 1]
  /\ UNCHANGED <<link, pending, asked, job>>

\* Stages before the generation that the collection trigger can pass.
Before == {i \in Nodes : i > 1 /\ i < At("generate_content_pack")}
Unsupported ==
  \/ At("generate_content_pack") = 0
  \/ \E i \in Before : Stages[i] \notin {"filter_content", "research", "human_review"}

Filtering == {i \in Before : Stages[i] = "filter_content"}

\* The filters up to one that rejects, and what follows it.
FilteredRows(rows, i) ==
  [k \in Nodes |-> [rows[k] EXCEPT !.st =
     CASE k \in Filtering /\ k <= i -> "succeeded"
       [] k > i /\ @ = "pending" -> "skipped"
       [] OTHER -> @]]

PassedRows(rows, j) ==
  [k \in Nodes |-> [rows[k] EXCEPT !.st =
     CASE k = 1 \/ k \in Filtering -> "succeeded"
       [] Stages[k] = "research" /\ k # Target(j) /\ @ = "pending" -> "skipped"
       [] OTHER -> @]]

\* _start_collection_downstream, once the article passed the filters.
Downstream(w, r) ==
  LET j == Accepted(Request[r])
      rows == PassedRows(node[r], j) IN
  IF Owned(r, j)
  THEN /\ TriggerOver(w, r, "failed",
            [k \in Nodes |-> IF k \in Filtering THEN rows[k] ELSE node[r][k]])
  ELSE /\ Project(w, Begun(rows, j), [link EXCEPT ![j] = [run |-> r, node |-> Target(j)]],
                  Result(j, Target(j), FALSE), Requested(Request[r], GenerateJob(Request[r])))
       /\ Asks(Request[r], GenerateJob(Request[r]))

\* The trigger has run before.
TriggerDone(r) == run[r].st \in Ended \/ node[r][1].st = "succeeded"

\* A replay names the job of the current node.
Replay(w, r) ==
  LET at == run[r].cur
      next == IF at = 0 THEN NoJob ELSE node[r][at].job IN
  /\ Project(w, node[r], link,
             IF run[r].st \in Ended \/ next = NoJob THEN Nothing ELSE Result(next, at, FALSE), job)
  /\ UNCHANGED asked

\* handle_collection_article_added with its projection.
HandleArticle(w) ==
  /\ pc[w] = "handle" /\ cur[w].kind = "start" /\ Trigger = "collection_article_added"
  /\ LET r == link[cur[w]].run IN
     CASE TriggerDone(r) -> Replay(w, r) /\ UNCHANGED filtered
       [] ~TriggerDone(r) /\ ~open -> TriggerOver(w, r, "cancelled", node[r]) /\ UNCHANGED filtered
       [] ~TriggerDone(r) /\ open /\ Len(Stages) = 1 ->
            TriggerOver(w, r, "succeeded", node[r]) /\ UNCHANGED filtered
       [] ~TriggerDone(r) /\ open /\ Len(Stages) > 1 /\ Unsupported ->
            TriggerOver(w, r, "failed", node[r]) /\ UNCHANGED filtered
       [] OTHER ->
            \/ Downstream(w, r) /\ UNCHANGED filtered
            \/ /\ "filter" \in Disturbances
               /\ \E i \in Filtering : TriggerOver(w, r, "succeeded", FilteredRows(node[r], i))
               /\ filtered' = filtered \cup {r}
  /\ Steps(w, "succeeded")
  /\ UNCHANGED <<written, open>>

\* handle_new_source_item: whatever the plan goes on with, the run is over
\* with its trigger.
HandleItem(w) ==
  /\ pc[w] = "handle" /\ cur[w].kind = "start" /\ Trigger = "new_source_item"
  /\ LET r == link[cur[w]].run IN
     IF TriggerDone(r) THEN Project(w, node[r], link, Nothing, job) /\ UNCHANGED asked
     ELSE TriggerOver(w, r, IF open THEN "succeeded" ELSE "cancelled", node[r])
  /\ Steps(w, "succeeded")
  /\ UNCHANGED <<written, filtered, open>>

\* The runs of a tick, one for each selected revision, with their first jobs.
TickRuns(dry) ==
  LET child(r) == Accepted(Request[r])
      runsOf(j) == {r \in Runs : child(r) = j} IN
  /\ run' = [r \in Runs |-> [st |-> "queued", cur |-> Target(child(r)), dry |-> dry]]
  /\ node' = [r \in Runs |-> Begun(Rows(dry, {1, At("select_content")}), child(r))]
  /\ link' = [j \in Jobs |-> IF runsOf(j) = {} THEN link[j]
                             ELSE [run |-> CHOOSE r \in runsOf(j) : TRUE, node |-> Target(j)]]
  /\ job' = [j \in Jobs |-> IF job[j] = "absent" /\ runsOf(j) # {} THEN "queued" ELSE job[j]]

\* build_scheduled_automation_handler: all runs or none.  The job of the tick
\* is linked to no run.
HandleTick(w) ==
  /\ pc[w] = "handle" /\ cur[w].kind = "start" /\ Trigger = "schedule"
  /\ LET new == \A r \in Runs : run[r].st = "none"
         twice == \E r, s \in Runs : r # s /\ Request[r] = Request[s]
         refused == twice \/ \E r \in Runs : Owned(r, Accepted(Request[r])) IN
     IF ~open \/ ~new
     THEN UNCHANGED <<run, node, link, job>> /\ Steps(w, "succeeded")
     ELSE IF refused
     THEN UNCHANGED <<run, node, link, job>> /\ Steps(w, "permanent")
     ELSE (\E dry \in DryRuns : TickRuns(dry)) /\ Steps(w, "succeeded")
  /\ UNCHANGED <<pending, rest>>

\* content_pack.generate: the story revision, the package job with the link
\* of its parent, and the projection in one transaction.
HandleGenerate(w) ==
  /\ pc[w] = "handle" /\ cur[w].kind = "generate"
  /\ LET next == PackageJob(cur[w].id)
         links == IF job[next] = "absent" /\ linked[w]
                  THEN [link EXCEPT ![next] = link[cur[w]]] ELSE link IN
     Project(w, Rowsof(w), links, Result(next, 0, FALSE), Enqueued(job, next))
  /\ Steps(w, "succeeded")
  /\ UNCHANGED rest

\* Jobs that commit before their projection: the revisions of the package, ...
HandlePackage(w) ==
  /\ pc[w] = "handle" /\ cur[w].kind \in {"package", "other"}
  /\ written' = IF cur[w].kind = "package" THEN written \cup {cur[w].id} ELSE written
  /\ Steps(w, "project")
  /\ UNCHANGED <<runVars, asked, filtered, open, job>>

\* ... and the result of a research with the jobs of its subscribers.
HandleResearch(w) ==
  /\ pc[w] = "handle" /\ cur[w].kind = "research"
  /\ LET q == cur[w].id IN
     job' = [j \in Jobs |-> IF job[j] = "absent" /\ \E i \in DOMAIN asked[q] : asked[q][i] = j
                            THEN "queued" ELSE job[j]]
  /\ Steps(w, "project")
  /\ UNCHANGED <<runVars, rest>>

\* The projection after such a commit; a research names its first subscriber.
ProjectJob(w) ==
  /\ pc[w] = "project"
  /\ LET q == cur[w].id
         next == IF cur[w].kind = "research" /\ asked[q] # <<>> THEN asked[q][1] ELSE NoJob IN
     Project(w, Rowsof(w), link, Result(next, 0, cur[w].kind = "package"), job)
  /\ Steps(w, "succeeded")
  /\ UNCHANGED rest

\* with_automation_projection: the handler raises.  A retryable error counts
\* once the snapshot has no attempt left.
HandlerFails(w, r) ==
  /\ "fail" \in Disturbances /\ r \in {"retryable", "needs_review", "permanent"}
  /\ pc[w] = "handle" /\ cur[w].kind \in {"research", "generate", "package"}
  /\ IF r = "retryable" /\ tries[cur[w]] < MaxAttempts
     THEN UNCHANGED <<run, node>> ELSE Failed(w, r = "needs_review")
  /\ Steps(w, r)
  /\ UNCHANGED <<link, pending, rest, job>>

\* An exception of no class: the worker retries the job, nothing is projected.
HandlerRaises(w) ==
  /\ "raise" \in Disturbances
  /\ pc[w] \in {"handle", "project"} /\ Steps(w, "raised")
  /\ UNCHANGED <<runVars, rest, job>>

End(w) ==
  /\ \/ pc[w] \in Results /\ CloseJob(w, pc[w])
     \/ pc[w] = "raised" /\ CloseJob(w, "retryable")
     \/ pc[w] = "handle" /\ ~Executable(w) /\ CloseJob(w, "permanent")
  /\ pc' = [pc EXCEPT ![w] = "idle"] /\ linked' = [linked EXCEPT ![w] = FALSE]
  /\ UNCHANGED <<runVars, rest>>

Crash(w) ==
  /\ "crash" \in Disturbances
  /\ Die(w)
  /\ pc' = [pc EXCEPT ![w] = "idle"] /\ linked' = [linked EXCEPT ![w] = FALSE]
  /\ UNCHANGED <<runVars, rest>>

\* A lease runs out: no run depends on it.
Recover(j) ==
  /\ "lease" \in Disturbances \/ \A w \in Workers : cur[w] # j
  /\ RecoverJob(j)
  /\ UNCHANGED <<runVars, rest, locals>>

Retry(j) ==
  /\ "retry" \in Disturbances
  /\ RetryJob(j)
  /\ UNCHANGED <<runVars, rest, locals>>

-----------------------------------------------------------------------------
(* Review. *)

\* Mutant of Approved: the job waits on.
ApprovedOnly(r, next) == IF pending[r] \in Jobs THEN job ELSE [job EXCEPT ![next] = "queued"]

Approved(r, next) == [job EXCEPT ![next] = "queued"]

\* continue_automation_artifact_review
ApproveArtifact(r) ==
  LET at == At("human_review")
      next == pending[r] IN
  /\ at # 0 /\ at < Len(Stages) /\ node[r][at].st = "waiting_for_review"
  /\ IF run[r].dry
     THEN /\ node' = [node EXCEPT ![r][at].st = "succeeded"]
          /\ run' = [run EXCEPT ![r].st = "succeeded", ![r].cur = 0]
          /\ UNCHANGED <<link, job>>
     ELSE IF next = NoJob
     THEN node' = [node EXCEPT ![r][at].st = "succeeded"] /\ UNCHANGED <<run, link, job>>
     ELSE /\ node' = [node EXCEPT ![r][at].st = "succeeded", ![r][at + 1].st = "queued",
                                  ![r][at + 1].job = next]
          /\ link' = [link EXCEPT ![next] = [run |-> r, node |-> at + 1]]
          /\ run' = [run EXCEPT ![r].st = "running", ![r].cur = at + 1]
          /\ job' = Approved(r, next)
  /\ UNCHANGED <<pending, rest, locals, tries, owner, retried, cur>>

\* continue_automation_review: a node of the approved revision that waits.
ApproveRevision(r, i) ==
  LET p == At("telegram_publish") IN
  /\ Request[r] \in written
  /\ node[r][i].rev /\ node[r][i].st = "waiting_for_review"
  /\ node' = [node EXCEPT ![r] = [k \in Nodes |->
       [@[k] EXCEPT !.st = IF k = p /\ ~run[r].dry THEN "pending"
                           ELSE IF k = i THEN "succeeded" ELSE @,
                    !.rev = @ \/ (k = p /\ ~run[r].dry)]]]
  /\ run' = [run EXCEPT ![r] =
       IF @.dry THEN [@ EXCEPT !.st = "succeeded", !.cur = 0]
       ELSE IF p # 0 THEN [@ EXCEPT !.st = "running", !.cur = p] ELSE @]
  /\ UNCHANGED <<link, pending, rest, locals, queueVars>>

WorkerStep(w) ==
  \/ HandleArticle(w) \/ HandleItem(w) \/ HandleTick(w) \/ HandleGenerate(w)
  \/ HandlePackage(w) \/ HandleResearch(w) \/ ProjectJob(w) \/ End(w)

Next ==
  \/ \E r \in Runs, dry \in DryRuns : 
       StartManual(r, dry) \/ ArticleAdded(r, dry) \/ ItemCreated(r, dry)
  \/ Tick \/ Gate
  \/ \E q \in Requests, by \in Jobs : RequestPack(q, by)
  \/ \E r \in Runs : ApproveArtifact(r) \/ \E i \in Nodes : ApproveRevision(r, i)
  \/ \E j \in Jobs : Recover(j) \/ Retry(j)
  \/ \E w \in Workers :
       \/ Start(w) \/ WorkerStep(w) \/ HandlerRaises(w) \/ Crash(w)
       \/ \E r \in Results : HandlerFails(w, r)

Spec == Init /\ [][Next]_vars

-----------------------------------------------------------------------------
(* Properties. *)

\* The review of a run that an article began still waits, its continuation held back.
ArticleReviewWaits(r) ==
  LET at == At("human_review") IN
  /\ Trigger = "collection_article_added" /\ at # 0
  /\ node[r][at].st = "waiting_for_review" /\ job[pending[r]] = "cancelled"

\* A run that succeeded has its drafts, unless the filter stopped it, it was
\* a dry run that ended at the review, or its plan ends before them: no
\* late projection or skipped stage ends a run before its package is written.
\* One kind of replay does: the trigger of an article that is handled again while
\* the review waits finds no job at the review and takes the run for complete.
\* Such a run can still be approved and then goes on to its drafts.
SucceededRunProduced ==
  \A r \in Runs :
    run[r].st = "succeeded" /\ At("generate_content_pack") # 0 /\ Trigger # "new_source_item" =>
      Request[r] \in written \/ r \in filtered \/ run[r].dry \/ ArticleReviewWaits(r)

\* A node and the job that works for it name each other: no job is taken from
\* one run by another, and no run waits for a job whose outcome goes elsewhere.
LinksAgree ==
  \A r \in Runs : \A i \in Nodes :
    node[r][i].st = "queued" =>
      /\ node[r][i].job # NoJob
      /\ link[node[r][i].job] = [run |-> r, node |-> i]

\* A continuation that waits for the approval of a run is not at work, whatever
\* became of the run meanwhile.
ReviewHolds ==
  LET at == At("human_review") IN
  at # 0 => \A r \in Runs :
    /\ node[r][at].st = "waiting_for_review" => pending[r] # NoJob
    /\ node[r][at].st = "waiting_for_review" => job[pending[r]] \notin {"queued", "running"}

\* A publish node that succeeded stands for a publication ("Existing durable
\* publish intent and publishing worker"), not for the job that makes drafts.
PublishNodeIsPublished ==
  \A r \in Runs, i \in Nodes :
    Stages[i] = "telegram_publish" /\ node[r][i].st = "succeeded" => node[r][i].job.kind # "package"

\* A run under way comes to its end or to the operator, as long as no attempt
\* is lost and no job raises outside its classes.
RunEnds(r) == run[r].st \in {"queued", "running"} ~> run[r].st \notin {"queued", "running"}
=============================================================================
