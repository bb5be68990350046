# TLA+ models of NewsCraft

NewsCraft turns news sources into reviewed posts.  One PostgreSQL database holds
all durable state; an API process, several worker processes and one scheduler
process share it and talk only through its rows; a browser edits what the API
serves.  This directory models the parts where that is hard to get right: work
that is claimed, repeated, taken over, interrupted, or already visible to the
public.  Paths without a directory at the top are relative to `src/backend/app/`.

## Inventory

| Component | State | Operations | What is hard |
|---|---|---|---|
| Job queue: `jobs/repository.py`, `worker.py`, `types.py`, `control.py` | `workflow_jobs` (status, attempt count, lease), `automation_control.global_pause` | enqueue, claim, heartbeat, checkpoint, finish, fail, retry, cancel, recover, pause | leases against stale workers, instants read before a lock, deaths, the budget of attempts |
| Scheduler: `jobs/scheduler.py` | `workflow_schedules`, route poll instants, icon attempts, cycles | one tick: recovery, cycles, polls, automation and source schedules, icons | decisions on rows read earlier, idempotency keys, pause, a tick that dies |
| Telegram publication: `publishing/telegram/publication*.py`, `client.py`, `reconciliation.py` | `publish_jobs`, `publish_operation_receipts`, `publications` | prepare, claim an operation, send, record, finalise, reconcile | a send whose outcome is unknown, two runs of one plan, late answers |
| Telegram drafts: `publishing/telegram/scheduling.py`, `draft_publication.py` | variants, revisions, publish intents | approve, publish, schedule, cancel, supersede | requests from two browsers, a schedule that comes due meanwhile |
| Destinations: `publishing/telegram/lifecycle.py`, `handlers.py` | destinations, proxies, stages of checks | create, patch, rotate, recheck, enable, delete | the result of a check written over an edit |
| Telegram routes: `automations/telegram/route_*.py`, `repository.py` | routes, `cursor_state`, dispatches | activate, initialise, poll, catch up, defer, edit | a cursor moved past messages, stale copies of the route |
| Telegram processing: `automations/telegram/process_*.py` | dispatches, generation attempts, revisions | prepare, call, persist, create a revision, fail | late answers, revisions of one story in order |
| Automation definitions: `automations/definitions/service.py`, `validation.py`, `compiler.py` | automations, versions, schedules | edit, version, activate, pause, archive | concurrent editors, stale copies, graphs the server and the browser judge |
| Automation runs: `automations/definitions/*execution.py`, `runtime_state.py` | runs, node rows, links to jobs | trigger, link, project an outcome, review, cancel | crashes between an outcome and its projection, retries, replays |
| Generation and review: `generation/` | packs, runs and attempts, revisions | canonical story, package, regeneration, edit, approve, reject | outputs used twice, the fence of a regeneration, budgets of calls |
| Research: `research/` | research jobs, attempts, subscribers, continuations | request, join, run, resume | evidence that changes meanwhile, subscribers who come late |
| Exports: `exports/` | exports, directories | request, build, expire, rebuild | a directory renamed into place before its row |
| LLM providers: `llm_providers/`, `jobs/credential_capabilities.py` | provider rows, secrets, tests, reports of workers | create, edit, test, rekey, delete, report, admit, call | tests and reports of something that was changed meanwhile |
| Codex gateway: `codex_gateway/` | pairings, connections, buckets | pair, exchange, authenticate, rotate, revoke | one code exchanged twice, credentials that were replaced, windows |
| Sources: `api/sources.py`, `sources/icon_discovery.py` | sources, icons | create, delete, check, discover an icon | late answers, marks without a job |
| Ingestion: `ingestion/` | runs, raw payloads, articles, identities | prepare, fetch, persist, merge, finish, abort | one source of several failing, validators, duplicates |
| Continuous ingestion: `source_collections/`, `jobs/handlers.py` | subscriptions, `ingest_runs`, collections | start, stop, delete, cycle, manual run | rows kept in a session over a commit, replays |
| Stories: `stories/` | stories, evidence | group page by page, merge, capture, reject | overlapping pages, conflicts, captures in between |
| Manual publication: `manual_publication/` | plans, checklists, history | plan, check, publish, calendar, history pages | edits in between, pages read while more is written |
| Retention: `retention/` | retention runs, intents, records, files | preview, confirm, delete rows, delete files | crash between rows and files, shared files, replays |
| Backups: `scripts/backup_restore.py`, `restore_drill.py` | archives, database, volumes, services | backup, restore, drill, prune | commands that fail or hang, a script that is killed |
| Workflow editor: `src/frontend/features/automations/` | the graph being edited | add, connect, delete, undo, save | partial checks while editing, two validators |

The API enqueues jobs and changes rows in one transaction; workers claim jobs
and run handlers, which own their tables; the scheduler enqueues what is due and
takes back expired leases *and* settles the rows a dead handler left (`_sync_*`
in `jobs/repository.py`).  The queue is the only thing all of them rely on, so
it has an abstract specification, `JobLifecycle`, that the others build on.

What makes each component correct: the queue never lets a stale claim act, and
finishes; publication never repeats a public message on its own; a route skips no
message; a run of an automation that succeeded has produced what it is for; an
output of a provider is used once; a subscription is neither lost nor revived;
retention deletes what was confirmed and nothing else; an archive is of one
moment.  `PROJECT.json` has the components, hazards, runs, mutants and theorems,
and maps every definition to the lines it stands for.

## Modules

| Module | Stands for |
|---|---|
| `JobLifecycle` | What the queue promises of one row: the transitions of `status` and the attempts they use up. |
| `JobQueue` | Rows, `WorkerRunner.run_once`, the heartbeat task, the recovery pass, the operator. Implements `JobLifecycle`. |
| `HandlerRuns` | The queue as a handler sees it: claim, close, die, recover, retry, cancel. Its steps are steps of `JobLifecycle` (proved); all modules with workers below extend it or follow `JobLifecycle` themselves. |
| `TelegramPublish` | One publish job with its receipts, in several workers, with recovery, operator retry and reconciliation. |
| `TelegramScheduling` | Requests to publish or schedule the revisions of a draft. |
| `TelegramDestinations` | One destination, its proxy profile and their checks. |
| `TelegramRoutes` | One route over a channel that goes on posting and editing. |
| `TelegramProcess` | The dispatches of one story on their way to revisions and intents. |
| `AutomationDefinitions` | One definition, edited by several clients. |
| `AutomationGraph`, `WorkflowEditor` | Contracts, validation and compilation of graphs; the edits of the builder. |
| `AutomationRuns` | Runs, nodes and the jobs they are linked with. |
| `ContentPacks` | One pack: canonical story, package, regenerations, reviews. |
| `Research` | Research on one story and its subscribers. |
| `ResearchLoop` | One research through OpenRouter: the requests of the model under the budgets, what it cites. |
| `CodexCalls` | One call of the Codex command line: its two processes, deadlines, cancellations, output, and the pages it found. |
| `Exports` | Exports of one pack. |
| `LLMProviders` | One provider: tests, reports of workers, admission and call of jobs, rekeying. |
| `CodexGateway` | Pairings, connections, their credentials, rate limits. |
| `ContinuousIngestion` | The subscriptions of one collection. |
| `SourceIngest` | Runs over several sources. |
| `SourceSchedules` | The schedule of a source and the life of its icon. |
| `Stories` | Items, pages of grouping jobs, stories and their evidence. |
| `ManualPublication` | Plans, checklists, calendar and history of one variant. |
| `Retention` | One retention run. |
| `Backups`, `BackupRetention` | The scripts, command by command; pruning over time. |
| `ServiceProofs` | Theorems about `AutomationDefinitions`, `CodexGateway`, `CodexCalls`, `ResearchLoop`, `LLMProviders`, `ManualPublication`. |
| `TelegramProofs` | Theorems about `TelegramDestinations`, `TelegramRoutes`, `TelegramProcess`, `Research`. |
| `TelegramPublishProofs` | Theorems about `TelegramPublish`, `TelegramScheduling`. |
| `RetentionProofs` | Theorems about `Retention`, `Exports`, `Backups`. |
| `ContinuousIngestionProofs` | Theorems about `ContinuousIngestion`, `SourceSchedules`. |
| other `...Proofs` | Theorems about the module of that name. |
| `MC...` | Instances for TLC. |

**How code becomes actions.**  A step is a transaction: repository calls lock the
row they change, so what lies between two commits cannot be seen by others.
Where the code reads something before it takes the lock (the clock,
`global_pause`, a list of expired jobs, a row that stays in the session), the
read is a step of its own.  Sessions are made with `expire_on_commit=False`, and
a row a session already holds is not refreshed by `SELECT ... FOR UPDATE` without
`populate_existing`; where a handler depends on that, its copy is a variable and
`Flush` is the UPDATE that carries only the changed columns.  A call over the
network lies between two steps.  Workers die at any step ("crash") and may go on
after their lease was recovered ("lease"): a zombie acts beside its successor.
`Disturbances` names which of such things an instance has; every module bounds
its counters by constants that say so.

**JobQueue.**  Instants are relative to the present (`lease`, `due`, `seen`) and
`Tick` lowers them, so time needs no end.  `pc` follows `run_once`: `polling`,
`claiming` (pause read, row not picked), `handling`, `invalid` (the claim cannot
be made into a `JobExecution`), `draining`, `terminal`.  `ckpt` and `retries` are
history.

**Composition.**  The components keep their rows in tables of their own and meet
through the queue and a few rows; each module has the part of its neighbours that
it reads as an action of its own (`ContentPacks` leaves delivery to
`TelegramPublish`, `AutomationRuns` takes what a job writes as one step).  `MC`
modules put several components in one run: `part`, fixed in the initial state,
says which component runs, variables of the same name stand for the rows of that
component, and the variables it does not have are `"off"`.  So the state space of
a run is the sum of the parts, not the product, and a property of a run is a
conjunction of `part = "..." => Component!Property`.  The component an `MC`
module extends keeps its own names: its properties are checked under them, and
the theorems state the same definitions.

## Runs

| Run | Parts | Shows |
|---|---|---|
| `JobQueueSafety` | 1 job, 2 workers, lease 1, horizon 2, 1 operator retry | lease fence, live leases kept, checkpoints forward, pause, refinement of `JobLifecycle` |
| `JobQueueLive` | 2 jobs of different priority, 1 worker | every claim ends, queued jobs start |
| `TelegramPublication` | 2 operations, 2 workers, 2 attempts, 2 claims, 1 retry | no blind resend; the order of the plan; a publication is a complete delivery; settled receipts |
| `Telegram` | processing (operator; zombies; retries with crashes; three dispatches, one of them overtaken), a route with a backlog over several jobs, a destination with two overlapping checks; 987 888 states | no message skipped, nothing before the boundary taken, one lineage of revisions, enabled only after a check |
| `Automation` | runs of six plans (one with its review first, one interrupted at its review), a definition with 2 clients, drafts, manual publication, grouping (chain, overlap, conflict), the builder with 4 nodes; 1 479 331 states | see the comments in `MCAutomation` |
| `Editorial` | packs (2 workers; fenced regenerations; budgets), research (shared; manual), the loop of a research (rounds), Codex calls (codex, writing), exports, providers (serving, rekeying, reports, delays), gateway (pairings, limits, rotations); 955 269 states | outputs used once, what was accepted is served, nothing a job wrote is in a ready pack without its review, results kept |
| `Ingestion` | cycles, two subscriptions, zombies; sources with outages, broken feeds, aborted attempts, two runs at once; schedules by interval and by day, icons with reports and with dying jobs; 1 327 498 states | one ingestion at a time; sources agree with what was stored, duplicates with their originals (until merges overlap); no revival, slots go on |
| `Operations` | retention (zombies, attempts, replays), backups (quiesced, restored, overlapping), pruning; 2 297 150 states | files of what is kept exist, nothing half done, nothing else removed |
| `Liveness` | 8 components with one worker that may die | accepted work comes to an end |
| `PublishNode`, `RouteDeferral`, `RetentionWindow` | the smallest instance that shows it | *violations*, see below |

**Bounds and why they are enough.**  The races of the queue are between claims of
one row, so one job is enough for safety; two claims by two processes and one
expiry per claim are in reach of two attempts and one retry.  `Horizon` 2 with
lease 1 lets a captured instant grow older than a whole lease.  Two claims of a
receipt are what a wrong resend needs, two operations what an order needs;
`MCFewClaims` (a CONSTRAINT of `TelegramPublication`) leaves out states beyond
them, and the theorems have no such bound.  The backlog of a route has three
messages with two per job, so scan and capture each continue in a second job.
Two dispatches are what overtaking needs, three a lineage that an overtaken
dispatch leaves, three items with one that
matches both others what a conflict of stories needs, four nodes are the longest
chain of the types in use.  Destinations have no operator retry and one attempt
per check: what matters there are two checks at once.  The route of the run
`Telegram` has one worker; that several workers with stale copies skip nothing is
the theorem `RouteSkipsNothing`.  Times reach one unit
beyond the longest interval.  A restore has two archives to choose from, with one
service that writes; the backups that stop several services have a part of their
own.  Deadlock is checked only for the two runs of
the queue and `TelegramPublication`; the other systems really stop when what they
were asked for is done.

**Fairness.**  Worker and scheduler loops run for ever and are restarted when they
die (`src/docs/operations/restart-supervision.md`); handlers return, since each
outbound call has a timeout; time passes.  So a worker goes on with its job, an
idle worker claims a job that may be claimed, the scheduler recovers expired
leases and ticks, scripts go on: weak fairness of each.  Strong fairness is
assumed in `JobQueue` only where a death may interrupt the loop again and again
(reading the pause flag, a claim, the second half of a recovery pass).  Nothing
is assumed of the operator, of enqueues and of deaths.

## Where code and documents disagree

The violation runs:

1. `RetentionWindow` - the SHARE lock that protects files is released before they
   are deleted; a download of the same content in between loses its file.
2. `RouteDeferral` - a poll whose deferrals run out is never enqueued again: its
   idempotency key is the unchanged `next_poll_at`.
3. `PublishNode` - a run that ends in `telegram_publish` succeeds when the job
   that writes the drafts succeeds; nothing was published.

Met while modelling, visible in the models, not runs of their own:

- *Queue*: `retry_job` keeps `attempt_count`, so a poison job is rejected as
  `job_execution_invalid`.
- *Publication*: a superseded job that was retried and loses its lease in a send
  is not found by recovery and not reviewed (its message is still not resent).
- *Drafts*: cancelling the workflow job of a scheduled intent leaves the intent
  "scheduled"; a scheduled older revision is delivered after a newer edit.
- *Destinations and routes*: a check may leave "checking" behind when its last
  attempt is lost (`lost`); an edit or an activation between the load and the
  write of a route job is overwritten with the old `cursor_state`.
- *Processing*: a late failure may clobber a dispatch that has gone on.  A
  cancellation, a fence met by the last attempt (`process_support.py:341`) or a
  worker that goes on after its lease may leave a dispatch in a blocking status
  with its job over (`BlockersAlive` is claimed without them).  A
  dispatch that was given up and is retried after a later one of its story has
  written forks the lineage: it looks for a parent among the earlier dispatches
  only, finds none and begins a variant of its own
  (`process_support.py`, `_route_parent_revision`, `_content_pack_and_variant`),
  and the next one continues the other variant.  The proof of `LineageContinues`
  found this; the property says what remains true.
- *Codex calls*: a worker's cancellation that arrives while a call is being
  stopped for a timeout or a limit is swallowed, so the job ends retryable or in
  review instead of cancelled.
- *Continuous ingestion*: a stop during a cycle is undone by the cycle's stale
  write (`StaysStopped` is about workers that lost their lease only); a death in
  the last attempt leaves its `ingest_runs` row active.
- *Ingestion*: the validator of a 200 is adopted although parsing or writing
  failed, so the next answer is 304 (`workflow.py:288`; `FeedsStored` exempts
  these versions).  A merge that meets a duplicate without its original
  overwrites the earlier `duplicate_of` (`repository.py:268`): afterwards entries
  that share an identity may survive at two articles, and links may form a cycle,
  although the docstring says that losing rows point at the surviving row.  The
  feeds of the run are made so that this happens in all four parts (an article
  with `{b, text}` is merged with one of `{c}`, then with one of `{a}`);
  `SharedIsMerged` is claimed until such a merge (`tangled`), `OriginalsAreFound`
  after it as well.  Crashed plain attempts leave runs "running".
- *Automation runs*: the trigger of an article that is replayed while the review
  of its run waits (its attempt committed and died) finds no job at the current
  node and ends the run as succeeded with its `save_drafts`, though nothing was
  written (`runtime_state.py:210`, `254-268`).  It happens wherever the review is
  in the plan (parts "gated" and "interrupted"); the review can still be
  approved.  `SucceededRunProduced` leaves out exactly these runs; a failed run stays
  failed after its retried job succeeded; a continuation claimed before it was
  linked, a request joined to a finished job, and an attempt ended by lease
  recovery leave the run as it was; `new_source_item` plans end at the trigger;
  plans of a collection without a generating node activate and then fail.
- *Definitions*: archived automations can be started by version number; a version
  without a schedule leaves the old schedule row; the resume of a schedule works
  off a backlog.
- *Editor*: deleting the trigger keeps `entryNodeId`; a branching graph is valid
  for the browser only.
- *Packs*: an edit of an approved revision leaves the status "ready", although the
  new revision is unreviewed ("editing invalidates prior approval"): only reviews
  refresh the status.  `ReadyIsReviewed` says what does hold with edits,
  regenerations and packages at work: above the approved revisions of a ready pack
  are only pending edits of the operator.  *Research*: a request that joins a running job may get a result that
  has not seen its evidence.
- *Stories*: the pending key may stay used (`api/stories.py:190`); an edit after a
  merge adds evidence to the superseded story; conflicted items stay pending.
- *Manual publication*: a published revision can get a second plan;
  `approve_revision` does not lock the variant.
- *Providers*: a provider that resolves an alias is never ready
  (`last_tested_model`); *gateway*: a late poll writes "expired" over "paired",
  and a rotated credential that was never used shows green.
- *Sources*: the second check of the icon handler compares the row it already
  holds (`icon_discovery.py:766`), so an older answer overwrites a newer one.
- *Retention*: a zombie's end of a pass may mark a reconfirmed run succeeded while
  its new intents wait (so `SuccessLeavesNothing` is checked for one worker).
- *Backups*: two backups of one second share a name; a backup made after a restore
  that failed holds what that left, rows without their files included; a killed
  script leaves writers stopped until the next run.

## Proofs

All theorems are for every value of the constants, under the named assumptions of
the modules alone, which the runs evaluate.  A module that is only instantiated
states its assumption as a definition (`LLMProvidersAssumption`): the `MC` module
ASSUMEs it of each instance, the theorems have it as their hypothesis.  So does
`TelegramDestinations`: its proofs share a module with those of components that have
other jobs, and no theorem should rest on two assumptions no system satisfies.  Counters
and bounds are naturals, model values that stand for "nobody" are outside the sets
they are compared with, the master keys are finitely many, and, beyond that: a unit of retention has one kind and an export its own tree
(the schema gives each export a directory), a pack asks for at least one platform
(`api` schema `min_length=1`) and its canonical and package jobs are among `Jobs`.

*JobQueue* (`JobQueueProofs`).  `IInv` adds to the types: a running row has an
owner and no other row has one; a busy worker works on a job and only such a
worker has a heartbeat; captured instants lie in the past; no lease reaches
further than one length from the instant its holder captured last, which is why a
delayed heartbeat cannot shorten it; a waiting job has an attempt left; only
attempts that were made have written a checkpoint.  `ClaimFence` needs the first
two: a row comes back to a worker's name only through a claim by that worker,
which is then no longer busy with the earlier one.  The action properties and the
refinement of `JobLifecycle` follow from one lemma, `RowSteps`, on what any step
may do to a row.

*HandlerRuns* (`HandlerRunsProofs`).  `QueueInv` (budget, owners, claims) is kept
by every `QueueStep`, and every `QueueStep` is a `JobLifecycle` step of each row.
The proofs below that extend it show once that only `QueueStep`s happen.

*TelegramPublish*.  A claim has at most one holder (`ClaimInv`); only claims that
were made reached Telegram (`SentInv`); a holder the receipt has moved on from has
been answered for by the operator (`ZombieInv`), which is what makes a zombie
harmless; every run stands behind a delivered prefix (`PrefixInv`).

*TelegramDestinations* (`TelegramProofs`).  `EnabledAfterCheck` is inductive together with
`TargetInv` (a destination that exists, and what a check has loaded, has a target,
so a check never matches the "unverified" settings).  `ChecksFollowLifecycle`
refines `JobLifecycle`.

*TelegramRoutes* (`TelegramProofs`).  `RoutesInv` cannot speak of the row and its
readers together: `Save` writes the whole `cursor_state` back, so any handler may
overwrite what another one has stored.  It therefore says of the row and of every
handler's copy *each by itself* that they are in order (`RouteOK`, `AtWork`): what
is at or below the cursor and above the boundary is known, the queue of a job
starts at the message after its cursor and has no gap (`InARow`), a catch-up works
towards a snapshot it has not passed.  `RouteSkipsNothing` and
`RouteTakesNewPosts` follow; neither needs that leases are kept.

*TelegramProcess* (`TelegramProofs`).  The order of a story is decided before the
parent is locked: `ProcessInv` has it that a worker about to write has seen every
earlier dispatch with a revision, or given up at some time (`ProcessWorker`), and
that the ranks of revisions count how many there are (`RankInv`), so the newest
earlier revision is the one of highest rank.  This gives `DispatchesInOrder` and
`LineageContinues` for any number of dispatches, zombies included.
`RetriesKeepThePrompt` is about runs without lost leases (`HolderInv`: who works
on a job holds it); then the pinned prompt is that of the run (`PromptInv`).

*Research* (`TelegramProofs`).  `StudyInv`: evidence begins with the first dispatch,
and there is no job before (`EvidenceInv`); a run has a result exactly when it has
succeeded, and the result is one of the revisions (`ResultsInv`); who has subscribed
to such a run has its continuation among the jobs.  A subscriber who comes late is
entered and served in one transaction, one who came before is served with the
result: that is `SubscribersAreResumed`.  The canonical run of a complete story
exists because results are bounded by the newest revision (a largest one, again by
well-foundedness).  `ResearchKeepsResults` needs that only a running run is given a
result.  The jobs are assumed to be exactly those the idempotency keys name.

*TelegramScheduling* (`TelegramPublishProofs`).  `DeskInv`: who is past the lock of
the variant holds it and looks at its newest, approved revision, and what it has
read of the intents is what there is; no revision to come has an intent; a
delivered intent has ended its job.

*ContinuousIngestion*.  `SingleIngest` and `SettledRunsKept` hold while no lease is
lost (`lost = 0`): the ingestion has no fence against a zombie, and the code
claims none.  The invariant ties each worker to the run it has opened (`RunInv`),
active runs to jobs (`IndexInv`), and what was loaded to what is (`ReadInv`).
`StoppedStayOff` needs none of this and holds with lost leases.

*Retention*.  The shield and the hash are read under the lock that removes, so
`OnlyConfirmedRemoved` and `ScrubbedTogether` are about single steps of the
database phase; `FilesOfKeptRecords` needs that the files still to be deleted by
a pass belong to no kept record (`TodoInv`), and it has a hypothesis, `LateAlone`:
no row is downloaded later with the content of another one.  Without it the
statement is false: that is the run `RetentionWindow`.  `RunSettled` needs that a
cancelled job had an attempt left (`CancelInv`) and that a worker's end closes the
run it works on (`CloseInv`).

*Exports* (`RetentionProofs`).  `BuildsInv`: what has a result has succeeded,
nobody works on an export that has expired, and who is about to succeed has seen
the directory in place; so `CompleteExportsThere` survives deaths and zombies.
`RebuiltWhenExpired` needs that the keys of exports are exactly the pairs of a
payload and a generation, and the first generation that has not expired, which the
well-foundedness of the naturals gives.

*Backups* (`RetentionProofs`).  `CaptureInv` follows the commands: from the stop of
the writers until they are resumed nobody writes, so what a backup has captured is
still there when it captures the next part; a restore runs without services, and
what it has replaced is what the archive holds; services that run, or that a
backup is to resume, have whole data.  It needs that one invocation waits for the
other (`"overlap" \notin Disturbances`: nothing in the script makes it so; a second
backup would find the writers stopped by the first and go on while that one
resumes them).  Commands may fail, hang or be killed anywhere, and then
`RestoresAreWhole` still holds.  `ArchivesBelongTogether` has one hypothesis more,
`NoHalfRestore`: no restore is made, or none fails.  The attempt to prove it
without showed it to be false, and the part of the run that stated it too small to
show that: with a second archive name, a backup made after a restore that failed
between two stores archives what that restore left.  The documents ask to repeat the
restore first, so this is no disagreement; `CapturedTogether` is what remains, and
what the run checks now.  `ArchivesStay` needs none of this.

*SourceSchedules* (`ContinuousIngestionProofs`).  `SlotsInv`: a schedule that has
had a slot has a later one next, and its source is there, also for the tick that
is under way.  `IconsInv`: a row that says "queued" names its job; a row that was asked for after
the tick had read it is not yet abandoned at the tick's instant, which is why the
stale read cannot write "queued" without its job; a handler looks for
an icon that was queued.

*ManualPublication* (`ServiceProofs`).  `PlansInv`: the checklist of a plan is what
was asked for, complete once the plan is ready, and one plan of a revision is under
way.  `CreatePlan` looks for another plan under the lock, and no other step brings a
plan under way again.

*AutomationDefinitions* (`ServiceProofs`).  What a client has seen under the current revision is the
current draft (`SeenInv`): the revision counts every change of the row, so the
comparison of revisions is enough.

*ContentPacks*.  The largest: an attempt that has not ended is not newer than the
active one and no two workers have the same (`AttemptInv`); what was written is
what the run of its job remembers (`ArtifactInv`); a stage that writes has a
succeeded run (`UsedInv`); two regenerations of a variant are not fenced at once
and the fenced base is the newest (`FenceInv`).  From these follow that an output
is used once and that the base is kept.  The budget is a counting argument: calls
are bounded by the attempts that have had their call or never will
(`CallsInv`, with `Cardinality`).

*CodexGateway* (`ServiceProofs`).  `GatewayInv`: an exchange that is under way
holds a pending pairing (`OpenIsPending`), and each connection knows every
credential it has had (`Lineage`): the one in use is not superseded, a superseded
one is known, who is served uses the present one.  `PairingsExchangedOnce` and
`SupersededCredentialsStayOut` are its consequences.

*CodexCalls* (`ServiceProofs`).  `CodexInv` has three parts: what has become of
the two child processes at each place where the call waits (`CodexChildren`), that
nobody who asked to stop is forgotten before the call has answered for it
(`CodexAsked`), and what is within the limits while pages are fetched
(`CodexLimits`).

*ResearchLoop* (`ServiceProofs`).  `LoopInv` counts: pages read are pages charged,
no budget is exceeded while the model works, and a request is made only with an
allowance left for the answer.  The sum of characters is a fold; the theorems use
the counter the code keeps, not the sum.

*LLMProviders* (`ServiceProofs`).  A test holds the row, so what it was started
with is what it passes (`ProbeInv`).  Workers lock nothing: `CallerInv` says that
the configuration a worker goes on with has passed, `ReportInv` that what it read
was ready at the time of its report and that this instant is remembered as long as
the report is alive.  The step that closes a report needs only that time does not
go back.  The active key is the largest of a finite set, which the prover gets from
the well-foundedness of the naturals (`NatLessThanWellFounded`, `WFMin`): the
installed provers cannot instantiate an induction rule, but a minimal element is a
fact they can cite.

*Only model-checked.*  All liveness (under fairness and ENABLED, beyond the
prover).  Of the composed runs: ingestion of sources, stories, runs of automations, graphs and the editor, the
pages of the history of publications; of routes and the loop, the parts above only.
What holds of runs depends on the plan, so the runs of TLC have one part for each
kind of plan.  The pages of the history of publications (`PagesComplete`) are in an
order that is chosen among the
sequences of a finite set; a page of grouping, `LimitsHold` and the sum of
characters of a research are folds over what was read; `AutomationGraph` and
`BackupRetention` compute over finite data: all of these need an induction the
installed provers lack.  `SuccessLeavesNothing` is false for several workers.

## Not modelled

Texts, prompts, scores, formats, encryption, redaction, statistics, events and
audit rows; parsing of feeds and pages; templates and duplication of automations;
plans with research and several platforms at once; the research backend of the
tests; the HTTP adapters of providers other than OpenRouter's;
the read-only tools of the gateway; operations health (projections of rows);
migrations; the browser beyond the workflow editor.  In the gateway two requests
that purge each other's stale buckets may deadlock in the database
(`codex_gateway/service.py:128`); one of them then fails, which is not modelled.
Of the audit, `reconcile_stale_attempts` looks at the 50 oldest attempts only,
closed or not (`security/audit.py`).

## Plan

1. Proofs: the links between runs and jobs in `AutomationRuns`, first for plans
   without a review; the accounts of `SourceIngest`, once the order in which sources
   are taken is a parameter instead of a sorted sequence.
2. Model: templates of automations, the audit of requests, plans with research.
