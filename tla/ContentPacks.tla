----------------------------- MODULE ContentPacks -----------------------------
(***************************************************************************)
(* Generation of a content pack and the review of its variants: the         *)
(* canonical job writes a story revision and enqueues the package job, that *)
(* makes one revision per platform; regenerations hold a fence on their     *)
(* variant while the provider writes; the operator edits, approves, rejects.*)
(* Source: backend/app/generation.                                          *)
(*                                                                         *)
(* A stage is a job with a platform (or the canonical story): it has one    *)
(* generation_runs row, whose active attempt alone may store an output.     *)
(* What the provider writes, prompts' text and evidence are left out.       *)
(***************************************************************************)
EXTENDS HandlerRuns, Sequences, FiniteSets

CONSTANTS PackPlatforms, \* platforms of the request, in its order
          Telegram,      \* the platform whose edits may start from any revision
          Instructions,  \* instructions regenerations are requested with
          MaxRevision,   \* bound: revisions the operator writes and regenerates from
          MaxCalls,      \* max_attempts of the provider profile
          Disturbances   \* bound: of "crash", "lease", "fail", "invalid", "prompt", "edit"

Platforms == {PackPlatforms[i] : i \in DOMAIN PackPlatforms}

\* The jobs: the platform of a canonical or package job is not used.
Canonical == [kind |-> "canonical", platform |-> Telegram, base |-> 0, text |-> Nobody]
Package == [kind |-> "package", platform |-> Telegram, base |-> 0, text |-> Nobody]
Regenerations ==
  [kind : {"regenerate"}, platform : Platforms, base : 1..MaxRevision, text : Instructions]

Failures == IF "fail" \in Disturbances THEN {"retryable", "needs_review", "permanent"} ELSE {}
Purposes == Platforms \cup {"canonical"}
NoRun == [state |-> "none", active |-> 0, by |-> 0, artifact |-> 0]
NoFence == [attempt |-> 0, worker |-> Nobody]

ASSUME ContentPacksAssumption ==
  /\ PackPlatforms \in Seq(Platforms) /\ PackPlatforms # <<>>
  /\ MaxRevision \in Nat /\ MaxCalls \in Nat
  /\ {Canonical, Package} \subseteq Jobs
  /\ Jobs \subseteq {Canonical, Package} \cup Regenerations

VARIABLES
  stories,  \* story revisions the canonical job has created
  status,   \* content_packs.status, "none" before the row exists
  revs,     \* the revisions of each variant: parent, by, state, valid
  runs,     \* generation_runs: status, active attempt, its job attempt, _artifact
  calls,    \* provider calls of a stage (history)
  fence,    \* _regeneration_fence in workflow_jobs.result
  prompts,  \* the prompts of the requests are still the active ones
  pc,       \* a worker: step or result
  wk        \* a worker: attempt of the job, platform number, attempt of the run, owns the fence, failed gates, result after clearing

packVars == <<stories, status, revs>>
vars == <<packVars, runs, calls, fence, prompts, pc, wk, queueVars>>

Revision == [parent : Nat, by : Jobs \cup {Nobody}, state : {"pending_review", "approved", "rejected"}, valid : BOOLEAN]
NoWork == [try |-> 0, i |-> 1, att |-> 0, fenced |-> FALSE, errors |-> FALSE, res |-> "none"]

Steps == {"idle", "load", "stage", "before", "call", "ensure", "write", "clear"} \cup Results
Runs == [state : {"none", "running", "failed", "succeeded"}, active : Nat, by : Nat, artifact : Nat]
Work == [try : Nat, i : DOMAIN PackPlatforms, att : Nat, fenced : BOOLEAN,
         errors : BOOLEAN, res : Results \cup {"none"}]

TypeOK ==
  /\ QueueTypeOK
  /\ stories \in Nat /\ status \in {"none", "draft", "ready"} /\ prompts \in BOOLEAN
  /\ revs \in [Platforms -> Seq(Revision)]
  /\ runs \in [Jobs -> [Purposes -> Runs]] /\ calls \in [Jobs -> [Purposes -> Nat]]
  /\ fence \in [Jobs -> [attempt : Nat, worker : Workers \cup {Nobody}]]
  /\ \A j \in Jobs : \A p \in Purposes : runs[j][p].by <= tries[j]
  /\ \A j \in Jobs : fence[j].attempt <= tries[j]
  /\ pc \in [Workers -> Steps] /\ wk \in [Workers -> Work]

Init ==
  /\ QueueInit
  /\ stories = 0 /\ status = "none" /\ revs = [p \in Platforms |-> <<>>]
  /\ runs = [j \in Jobs |-> [p \in Purposes |-> NoRun]]
  /\ calls = [j \in Jobs |-> [p \in Purposes |-> 0]]
  /\ fence = [j \in Jobs |-> NoFence] /\ prompts = TRUE
  /\ pc = [w \in Workers |-> "idle"] /\ wk = [w \in Workers |-> NoWork]

-----------------------------------------------------------------------------
(* The fence of a variant. *)

\* Mutant of Live: a fence that is there is taken for alive.
LivePresent(j) == fence[j] # NoFence

\* _is_live: the attempt that set it still has its lease.
Live(j) ==
  /\ fence[j] # NoFence
  /\ job[j] = "running" /\ tries[j] = fence[j].attempt /\ owner[j] = fence[j].worker

\* require_revision_write_allowed without an owner.
Fenced(p) == \E j \in Jobs : j.kind = "regenerate" /\ j.platform = p /\ Live(j)

Newest(p) == Len(revs[p])

-----------------------------------------------------------------------------
(* Requests and review. *)

RequestPack ==
  /\ EnqueueJob(Canonical)
  /\ UNCHANGED <<packVars, runs, calls, fence, prompts, pc, wk>>

\* regenerate_variant: the newest revision is the base.
RegenerateVariant(r) ==
  /\ r.kind = "regenerate" /\ r.base = Newest(r.platform)
  /\ EnqueueJob(r)
  /\ UNCHANGED <<packVars, runs, calls, fence, prompts, pc, wk>>

Written(parent, by, valid) == [parent |-> parent, by |-> by, state |-> "pending_review", valid |-> valid]

\* edit_variant, edit_manual_platform_variant
MayEdit(p, base) ==
  /\ ~Fenced(p)
  /\ base = Newest(p) \/ (p = Telegram /\ base \in 1..Newest(p))

Edit(p, base) ==
  /\ "edit" \in Disturbances /\ Newest(p) < MaxRevision
  /\ base > 0 /\ MayEdit(p, base)
  /\ revs' = [revs EXCEPT ![p] = Append(@, Written(base, Nobody, TRUE))]
  /\ UNCHANGED <<stories, status, runs, calls, fence, prompts, pc, wk, queueVars>>

\* _refresh_pack_status
Refreshed(newRevs) ==
  IF \A p \in Platforms : newRevs[p] # <<>> => newRevs[p][Len(newRevs[p])].state = "approved"
  THEN "ready" ELSE "draft"

Approve(p) ==
  /\ Newest(p) > 0
  /\ revs[p][Newest(p)].state = "pending_review" /\ revs[p][Newest(p)].valid
  /\ revs' = [revs EXCEPT ![p][Newest(p)].state = "approved"]
  /\ status' = Refreshed(revs')
  /\ UNCHANGED <<stories, runs, calls, fence, prompts, pc, wk, queueVars>>

Reject(p, n) ==
  /\ n \in DOMAIN revs[p] /\ revs[p][n].state = "pending_review"
  /\ revs' = [revs EXCEPT ![p][n].state = "rejected"]
  /\ status' = Refreshed(revs')
  /\ UNCHANGED <<stories, runs, calls, fence, prompts, pc, wk, queueVars>>

\* Another version of a prompt, or another configuration of the provider, is activated.
ActivatePrompt ==
  /\ "prompt" \in Disturbances /\ prompts /\ prompts' = FALSE
  /\ UNCHANGED <<packVars, runs, calls, fence, pc, wk, queueVars>>

-----------------------------------------------------------------------------
(* A stage: invoke. *)

\* _require_active_prompt_version: what the request pinned is what is active.
PromptsPinned == prompts

Regenerates(w) == cur[w].kind = "regenerate"
Purpose(w) ==
  CASE cur[w].kind = "canonical" -> "canonical"
    [] cur[w].kind = "package" -> PackPlatforms[wk[w].i]
    [] OTHER -> cur[w].platform
Run(w) == runs[cur[w]][Purpose(w)]
IsActive(w) == Run(w).state = "running" /\ Run(w).active = wk[w].att

Goto(w, step) == pc' = [pc EXCEPT ![w] = step]

\* A failed regeneration clears its fence before it ends.
Leave(w, r) ==
  IF Regenerates(w) THEN Goto(w, "clear") /\ wk' = [wk EXCEPT ![w].res = r]
  ELSE Goto(w, r) /\ UNCHANGED wk

Start(w) ==
  /\ \E j \in Jobs : ClaimJob(w, j) /\ wk' = [wk EXCEPT ![w].try = tries[j] + 1]
  /\ Goto(w, "load")
  /\ UNCHANGED <<packVars, runs, calls, fence, prompts>>

\* _load_inputs, _load_pack_inputs: a package or regeneration needs its prompts.
\* The regeneration has checkpointed its payload before, which needs the lease.
Load(w) ==
  /\ pc[w] = "load" /\ Executable(w)
  /\ IF Regenerates(w) /\ ~Holds(w) THEN Goto(w, "retryable") /\ UNCHANGED wk
     ELSE IF cur[w].kind # "canonical" /\ ~PromptsPinned THEN Leave(w, "permanent")
     ELSE Goto(w, "stage") /\ UNCHANGED wk
  /\ UNCHANGED <<packVars, runs, calls, fence, prompts, queueVars>>

\* _reuse_succeeded_run
Reuse(w) ==
  /\ pc[w] = "stage" /\ Run(w).state = "succeeded"
  /\ Goto(w, IF Regenerates(w) /\ Run(w).artifact = 0 THEN "ensure" ELSE "write")
  /\ UNCHANGED <<packVars, runs, calls, fence, prompts, wk, queueVars>>

\* _start_attempt, _resume_run: an interrupted attempt is superseded.
StartAttempt(w) ==
  LET n == Run(w).active + 1 IN
  /\ pc[w] = "stage" /\ Run(w).state # "succeeded"
  /\ IF Run(w).state = "running" /\ Run(w).by = wk[w].try
     THEN Leave(w, "retryable") /\ UNCHANGED runs
     ELSE /\ runs' = [runs EXCEPT ![cur[w]][Purpose(w)] =
                        [state |-> "running", active |-> n, by |-> wk[w].try, artifact |-> 0]]
          /\ wk' = [wk EXCEPT ![w].att = n] /\ Goto(w, "before")
  /\ UNCHANGED <<packVars, calls, fence, prompts, queueVars>>

\* Mutant of Dispatchable: the base was read when the job was requested.
DispatchableOnce(w) == Holds(w)

\* _require_exact_regeneration_dispatch
Dispatchable(w) ==
  /\ Newest(cur[w].platform) = cur[w].base
  /\ Holds(w)
  /\ \A j \in Jobs : j.kind = "regenerate" /\ j.platform = cur[w].platform /\ Live(j) => j = cur[w]

\* The refusal of a dispatch that is not.
Refusal(w) ==
  IF ~PromptsPinned THEN "permanent"
  ELSE IF Newest(cur[w].platform) # cur[w].base THEN "needs_review" ELSE "retryable"

Fence(w) == fence' = [fence EXCEPT ![cur[w]] = [attempt |-> wk[w].try, worker |-> w]]

\* _persist_failure: only the active attempt fails the run.
Failed(w, r) ==
  /\ runs' = IF Run(w).active = wk[w].att
             THEN [runs EXCEPT ![cur[w]][Purpose(w)].state = "failed"] ELSE runs
  /\ Leave(w, r)

\* Mutant of Affordable: the attempt that exceeds the budget is made.
AffordableOneMore(w) == wk[w].att <= MaxCalls + 1

Affordable(w) == wk[w].att <= MaxCalls

\* before_provider_call, then the call is sent.
Before(w) ==
  /\ pc[w] = "before"
  /\ IF PromptsPinned /\ (Regenerates(w) => Dispatchable(w)) THEN
       /\ IF Regenerates(w) THEN Fence(w) ELSE UNCHANGED fence
       /\ IF Affordable(w)
          THEN /\ calls' = [calls EXCEPT ![cur[w]][Purpose(w)] = @ + 1]
               /\ wk' = [wk EXCEPT ![w].fenced = Regenerates(w)]
               /\ Goto(w, "call") /\ UNCHANGED runs
          ELSE Failed(w, "needs_review") /\ UNCHANGED calls
     ELSE /\ Failed(w, IF Regenerates(w) THEN Refusal(w) ELSE "permanent")
          /\ UNCHANGED <<fence, calls>>
  /\ UNCHANGED <<packVars, prompts, queueVars>>

\* _persist_success
CallSucceeds(w) ==
  /\ pc[w] = "call"
  /\ IF IsActive(w)
     THEN /\ runs' = [runs EXCEPT ![cur[w]][Purpose(w)].state = "succeeded"]
          /\ Goto(w, "write") /\ UNCHANGED wk
     ELSE Leave(w, "retryable") /\ UNCHANGED runs
  /\ UNCHANGED <<packVars, calls, fence, prompts, queueVars>>

CallFails(w, r) ==
  /\ pc[w] = "call" /\ Failed(w, r)
  /\ UNCHANGED <<packVars, calls, fence, prompts, queueVars>>

\* _ensure_regeneration_fence: an output from before a crash gets its fence again.
Ensure(w) ==
  /\ pc[w] = "ensure"
  /\ IF PromptsPinned /\ Dispatchable(w)
     THEN Fence(w) /\ wk' = [wk EXCEPT ![w].fenced = TRUE] /\ Goto(w, "write")
     ELSE Leave(w, Refusal(w)) /\ UNCHANGED fence
  /\ UNCHANGED <<packVars, runs, calls, prompts, queueVars>>

-----------------------------------------------------------------------------
(* What a stage leaves. *)

\* Mutant of HasArtifact: a run that has been used already is used again.
HasArtifactNever(w) == FALSE

\* _durable_artifact, under the lock of the run.
HasArtifact(w) == Run(w).artifact # 0

\* The canonical job: a story revision and the package job, whoever has the lease.
WriteStory(w) ==
  /\ pc[w] = "write" /\ cur[w].kind = "canonical"
  /\ IF HasArtifact(w) THEN UNCHANGED <<stories, runs, queueVars>>
     ELSE /\ stories' = stories + 1
          /\ runs' = [runs EXCEPT ![cur[w]][Purpose(w)].artifact = stories']
          /\ EnqueueJobOnce(Package)
  /\ Goto(w, "succeeded")
  /\ UNCHANGED <<status, revs, calls, fence, prompts, wk>>

\* The next platform, or the result. The checkpoint replaces the job's result
\* and the fence in it; without the lease it is refused and undoes the step.
Advance(w, errors) ==
  LET last == Regenerates(w) \/ wk[w].i = Len(PackPlatforms) IN
  /\ fence' = [fence EXCEPT ![cur[w]] = NoFence]
  /\ IF last /\ errors THEN Leave(w, "needs_review")
     ELSE /\ wk' = [wk EXCEPT ![w].i = IF last THEN @ ELSE @ + 1, ![w].errors = errors]
          /\ Goto(w, IF last THEN "succeeded" ELSE "stage")

\* _require_variant_write
Writable(w, p) ==
  IF Regenerates(w) THEN Newest(p) = cur[w].base /\ wk[w].fenced /\ Live(cur[w])
  ELSE ~Fenced(p)

\* artifact_requires_review
GatesFailed(w) == ~revs[Purpose(w)][Run(w).artifact].valid

\* Mutant of DraftPack: a pack that exists keeps its status.
DraftPackNew == status' = IF status = "none" THEN "draft" ELSE status

\* _draft_pack: the pack is created, or is a draft again.
DraftPack == status' = "draft"

\* _persist_new_artifact, _reuse_artifact
WriteVariant(w, valid) ==
  LET p == Purpose(w) IN
  /\ pc[w] = "write" /\ cur[w].kind # "canonical"
  /\ IF ~Holds(w) THEN Leave(w, "retryable") /\ UNCHANGED <<status, revs, runs, fence>>
     ELSE IF HasArtifact(w)
     THEN /\ Advance(w, wk[w].errors \/ GatesFailed(w))
          /\ UNCHANGED <<status, revs, runs>>
     ELSE IF ~Writable(w, p)
     THEN /\ Leave(w, IF Regenerates(w) /\ Newest(p) # cur[w].base THEN "needs_review" ELSE "retryable")
          /\ UNCHANGED <<status, revs, runs, fence>>
     ELSE /\ revs' = [revs EXCEPT ![p] = Append(@, Written(Newest(p), cur[w], valid))]
          /\ DraftPack
          /\ runs' = [runs EXCEPT ![cur[w]][p].artifact = Newest(p) + 1]
          /\ Advance(w, wk[w].errors \/ ~valid)
  /\ UNCHANGED <<stories, calls, prompts, queueVars>>

\* clear_regeneration_fence, keyed by the attempt and not by its lease: the
\* status is asked for though.
Clear(w) ==
  LET j == cur[w] IN
  /\ pc[w] = "clear"
  /\ fence' = IF job[j] = "running" /\ fence[j] = [attempt |-> wk[w].try, worker |-> w]
              THEN [fence EXCEPT ![j] = NoFence] ELSE fence
  /\ Goto(w, wk[w].res)
  /\ UNCHANGED <<packVars, runs, calls, prompts, wk, queueVars>>

\* Mutant of End: a claim beyond the budget is left to the lease.
EndUnrefused(w) ==
  /\ pc[w] \in Results /\ CloseJob(w, pc[w])
  /\ Goto(w, "idle") /\ wk' = [wk EXCEPT ![w] = NoWork]
  /\ UNCHANGED <<packVars, runs, calls, fence, prompts>>

End(w) ==
  /\ \/ pc[w] \in Results /\ CloseJob(w, pc[w])
     \/ pc[w] = "load" /\ ~Executable(w) /\ CloseJob(w, "permanent")
  /\ Goto(w, "idle") /\ wk' = [wk EXCEPT ![w] = NoWork]
  /\ UNCHANGED <<packVars, runs, calls, fence, prompts>>

Crash(w) ==
  /\ "crash" \in Disturbances /\ Die(w)
  /\ Goto(w, "idle") /\ wk' = [wk EXCEPT ![w] = NoWork]
  /\ UNCHANGED <<packVars, runs, calls, fence, prompts>>

Recover(j) ==
  /\ "lease" \in Disturbances \/ \A w \in Workers : cur[w] # j
  /\ RecoverJob(j) /\ UNCHANGED <<packVars, runs, calls, fence, prompts, pc, wk>>

Operate(j) ==
  /\ RetryJob(j) \/ CancelJob(j)
  /\ UNCHANGED <<packVars, runs, calls, fence, prompts, pc, wk>>

-----------------------------------------------------------------------------
WorkerStep(w) ==
  \/ Load(w) \/ Reuse(w) \/ StartAttempt(w) \/ Before(w) \/ CallSucceeds(w)
  \/ (\E r \in Failures : CallFails(w, r)) \/ Ensure(w) \/ WriteStory(w)
  \/ (\E valid \in IF "invalid" \in Disturbances THEN BOOLEAN ELSE {TRUE} : WriteVariant(w, valid))
  \/ Clear(w) \/ End(w)

Next ==
  \/ RequestPack \/ ActivatePrompt
  \/ \E p \in Platforms : Approve(p) \/ \E n \in 1..MaxRevision : Reject(p, n) \/ Edit(p, n)
  \/ \E w \in Workers : Start(w) \/ WorkerStep(w) \/ Crash(w)
  \/ \E j \in Jobs : RegenerateVariant(j) \/ Recover(j) \/ Operate(j)

Spec == Init /\ [][Next]_vars

\* Workers run and leases are recovered; nobody has to retry or to review.
LiveSpec ==
  /\ Spec
  /\ \A w \in Workers : WF_vars(WorkerStep(w)) /\ WF_vars(Start(w))
  /\ \A j \in Jobs : WF_vars(Recover(j))

-----------------------------------------------------------------------------
(* What is checked. *)

\* An output is used once, whoever else works on its job: one story revision,
\* and one revision of a variant for each job.
OutputUsedOnce ==
  /\ stories <= 1
  /\ \A p \in Platforms : \A m, n \in DOMAIN revs[p] :
       revs[p][m].by = revs[p][n].by /\ revs[p][m].by # Nobody => m = n

\* A regeneration whose fence is alive need not fear for its base: the paid
\* call it has sent will be used.
FencedBaseCurrent ==
  \A j \in Jobs : j.kind = "regenerate" /\ Live(j) => Newest(j.platform) = j.base

\* However often a job is recovered, retried or disturbed, a stage calls the
\* provider no more often than its profile allows.
CallsBounded == \A j \in Jobs : \A p \in Purposes : calls[j][p] <= MaxCalls

\* What the operator does not know of never is offered as ready: in a ready pack
\* every variant has an approved revision, and above it only edits of the
\* operator that wait for their review.  Reviews refresh the status and what a
\* job writes makes the pack a draft again; an edit leaves it, so the newest
\* revision of a ready pack need not be approved.
ReadyIsReviewed ==
  status = "ready" => \A p \in Platforms : revs[p] # <<>> =>
    \E n \in DOMAIN revs[p] :
      /\ revs[p][n].state = "approved"
      /\ \A m \in (n + 1)..Newest(p) : revs[p][m].by = Nobody /\ revs[p][m].state = "pending_review"

\* A variant does not stay fenced: workers that die or fail leave it to the operator.
VariantsFreed == \A p \in Platforms : []<>~Fenced(p)

\* Accepted jobs end.
JobsEnd == \A j \in Jobs : job[j] = "queued" ~> job[j] \in Over

\* "Queued/in-flight jobs ... keep their selected immutable versions": to
\* activate another prompt fails none.
QueuedKeepPrompts == \A j \in Jobs : job[j] # "failed"
=============================================================================
