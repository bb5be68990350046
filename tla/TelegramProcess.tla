--------------------------- MODULE TelegramProcess ---------------------------
(***************************************************************************)
(* From a captured dispatch to a reviewed or auto-published revision: the   *)
(* handler of telegram.route.process.  It prepares a generation attempt in  *)
(* one transaction, calls the provider without one, persists the outcome in *)
(* another, and creates the revision in a last one; a failure is written to *)
(* the dispatch in a transaction of its own.  Workers may die between any   *)
(* two, or go on after their lease was given to another.                    *)
(* Source: backend/app/automations/telegram/process_dispatch.py,            *)
(* process_revision.py, process_operations.py, process_support.py.          *)
(*                                                                         *)
(* The dispatches are those of one story on one route, numbered by          *)
(* creation_sequence, each captured with a story revision of its own.       *)
(* Routes with research are the subject of module Research.                 *)
(***************************************************************************)
EXTENDS HandlerRuns, FiniteSets

CONSTANTS MaxDispatches,  \* bound: dispatches of the story
          Forced,         \* dispatches whose kind or payload forces a review
          MaxPrompts,     \* bound: activations of a prompt version
          MaxCalls,       \* bound: generation attempts of one dispatch
          Disturbances    \* bound: what may come in between, of "gate",
                          \* "fence", "media", "fail", "crash", "lease", "cancel"

Dispatches == 1..MaxDispatches

TelegramProcessAssumption ==
  /\ MaxDispatches \in Nat \ {0} /\ MaxPrompts \in Nat \ {0} /\ MaxCalls \in Nat
  /\ Forced \subseteq Dispatches
  /\ Jobs = Dispatches

VARIABLES
  st, err,        \* automation_dispatches.status, error_code
  rev, par, var,  \* the dispatch's revision: rank of creation (0: none),
                  \* parent's dispatch (0: none), variant's first dispatch
  intents,        \* dispatches whose revision has a publish job
  run,            \* generation_runs: status, active attempt, input, output
  pin,            \* prompt version in the job's payload, 0 for none
  active,         \* active version of the telegram_rewrite prompt
  held, healthy,  \* a pause or a dry run holds; the destination is in service
  fenced,         \* a regeneration of the variant is in progress
  pc, loc,        \* a worker: step and what it remembers
  givenUp         \* dispatches once marked needs_review or failed (history)

dispatchVars == <<st, err, rev, par, var, intents>>
control      == <<active, held, healthy, fenced>>
locals       == <<pc, loc>>
vars == <<dispatchVars, run, pin, control, locals, givenUp, queueVars>>

Blocking == {"captured", "researching", "generating", "retryable"}
GivenUp  == {"needs_review", "failed"}
Reviewed == {"approved", "pending_review"}
NoRun    == [st |-> "none", act |-> 0, in |-> 0, out |-> 0]
NoLoc    == [pin |-> 0, att |-> 0, par |-> 0, res |-> "none", code |-> "none", stale |-> FALSE]

TypeOK ==
  /\ QueueTypeOK
  /\ st \in [Dispatches -> {"absent"} \cup Blocking \cup GivenUp \cup Reviewed]
  /\ rev \in [Dispatches -> 0..MaxDispatches]
  /\ par \in [Dispatches -> 0..MaxDispatches] /\ var \in [Dispatches -> 0..MaxDispatches]
  /\ intents \subseteq Dispatches /\ givenUp \subseteq Dispatches
  /\ run \in [Dispatches -> [st : {"none", "running", "failed", "completed"},
                             act : 0..MaxCalls, in : 0..MaxPrompts, out : 0..MaxCalls]]
  /\ pin \in [Jobs -> 0..MaxPrompts] /\ active \in 1..MaxPrompts
  /\ {held, healthy, fenced} \subseteq BOOLEAN
  /\ pc \in [Workers -> {"idle", "prepare", "call", "read", "write", "mark", "end"}]

Init ==
  /\ QueueInit
  /\ st = [d \in Dispatches |-> "absent"] /\ err = [d \in Dispatches |-> "none"]
  /\ rev = [d \in Dispatches |-> 0] /\ par = [d \in Dispatches |-> 0]
  /\ var = [d \in Dispatches |-> 0]
  /\ intents = {} /\ givenUp = {}
  /\ run = [d \in Dispatches |-> NoRun]
  /\ pin = [j \in Jobs |-> 0] /\ active = 1
  /\ held = FALSE /\ healthy = TRUE /\ fenced = FALSE
  /\ pc = [w \in Workers |-> "idle"] /\ loc = [w \in Workers |-> NoLoc]

-----------------------------------------------------------------------------
(* Around the handler. *)

\* capture_and_enqueue: the dispatch and its job in one transaction.
Capture ==
  /\ \E d \in Dispatches :
       /\ st[d] = "absent" /\ \A e \in 1..(d - 1) : st[e] # "absent"
       /\ st' = [st EXCEPT ![d] = "captured"]
       /\ EnqueueJob(d)
  /\ UNCHANGED <<err, rev, par, var, intents, run, pin, control, locals, givenUp>>

ActivatePrompt ==
  /\ active < MaxPrompts
  /\ active' = active + 1
  /\ UNCHANGED <<dispatchVars, run, pin, held, healthy, fenced, locals, givenUp, queueVars>>

ToggleGate ==
  /\ "gate" \in Disturbances
  /\ \/ held' = ~held /\ UNCHANGED healthy
     \/ healthy' = ~healthy /\ UNCHANGED held
  /\ UNCHANGED <<dispatchVars, run, pin, active, fenced, locals, givenUp, queueVars>>

ToggleFence ==
  /\ "fence" \in Disturbances
  /\ fenced' = ~fenced
  /\ UNCHANGED <<dispatchVars, run, pin, active, held, healthy, locals, givenUp, queueVars>>

\* The execution carries a copy of the payload as it was at the claim.
Start(w) ==
  /\ \E j \in Jobs :
       /\ ClaimJob(w, j)
       /\ loc' = [loc EXCEPT ![w] = [NoLoc EXCEPT !.pin = pin[j]]]
  /\ pc' = [pc EXCEPT ![w] = "prepare"]
  /\ UNCHANGED <<dispatchVars, run, pin, control, givenUp>>

\* A claim beyond max_attempts never reaches the handler.
Refuse(w) ==
  /\ pc[w] = "prepare" /\ ~Executable(w)
  /\ CloseJob(w, "permanent")
  /\ pc' = [pc EXCEPT ![w] = "idle"]
  /\ UNCHANGED <<dispatchVars, run, pin, control, loc, givenUp>>

End(w) ==
  /\ pc[w] = "end"
  /\ CloseJob(w, loc[w].res)
  /\ pc' = [pc EXCEPT ![w] = "idle"] /\ loc' = [loc EXCEPT ![w] = NoLoc]
  /\ UNCHANGED <<dispatchVars, run, pin, control, givenUp>>

Crash(w) ==
  /\ "crash" \in Disturbances
  /\ Die(w)
  /\ pc' = [pc EXCEPT ![w] = "idle"] /\ loc' = [loc EXCEPT ![w] = NoLoc]
  /\ UNCHANGED <<dispatchVars, run, pin, control, givenUp>>

\* Mutant of SettledByExpiry: the dispatch is not looked after.
SettledByNobody(d) == st[d]

\* _sync_terminal_expired_lease_dependents, the dispatch.
SettledByExpiry(d) ==
  CASE st[d] \in {"captured", "retryable", "generating"} -> "failed"
    [] st[d] = "researching" -> "needs_review"
    [] OTHER -> st[d]

\* requeue_expired_leases; the last attempt takes dispatch and run with it.
Recover(j) ==
  /\ "lease" \in Disturbances \/ \A w \in Workers : cur[w] # j
  /\ RecoverJob(j)
  /\ LET last == RecoveredStatus(j) = "failed" IN
       /\ st' = IF last THEN [st EXCEPT ![j] = SettledByExpiry(j)] ELSE st
       /\ givenUp' = IF last /\ st'[j] \in GivenUp THEN givenUp \cup {j} ELSE givenUp
       /\ run' = IF last /\ run[j].st = "running"
                 THEN [run EXCEPT ![j].st = "failed"] ELSE run
  /\ UNCHANGED <<err, rev, par, var, intents, pin, control, locals>>

\* cancel_job and retry_job leave the dispatch as it is.
Operate(j) ==
  /\ ("cancel" \in Disturbances /\ CancelJob(j)) \/ RetryJob(j)
  /\ UNCHANGED <<dispatchVars, run, pin, control, locals, givenUp>>

-----------------------------------------------------------------------------
(* The first transaction: _prepare_process_dispatch. *)

\* The handler is left: with its result, or by an error of class r that
\* _handle_process_route_dispatch first writes to the dispatch.
Return(w, r) ==
  /\ pc' = [pc EXCEPT ![w] = "end"]
  /\ loc' = [loc EXCEPT ![w].res = r]

Raise(w, r, code) ==
  /\ pc' = [pc EXCEPT ![w] = "mark"]
  /\ loc' = [loc EXCEPT ![w].res = r, ![w].code = code]

\* retry_at with the route's policy, whose max_attempts the job was given.
RetryClass(w) == IF tries[cur[w]] < MaxAttempts THEN "retryable" ELSE "needs_review"

PrepareDone(w) ==
  /\ pc[w] = "prepare" /\ Executable(w) /\ rev[cur[w]] # 0
  /\ Return(w, "succeeded")
  /\ UNCHANGED <<dispatchVars, run, pin, control, givenUp, queueVars>>

\* Mutant of ResolvedPrompt: the snapshot in the payload is ignored.
ResolvedActive(w) == active

\* resolve_process_prompt of a route that follows the active prompt.
ResolvedPrompt(w) == IF loc[w].pin # 0 THEN loc[w].pin ELSE active

\* _generation_run_state: a completed run is used as it is.  (Two claims of
\* one job never have the same attempt_count, so none is "in progress".)
PrepareReuse(w) ==
  LET d == cur[w] IN
  /\ pc[w] = "prepare" /\ Executable(w) /\ rev[d] = 0 /\ run[d].st = "completed"
  /\ pin' = [pin EXCEPT ![d] = ResolvedPrompt(w)]
  /\ pc' = [pc EXCEPT ![w] = "read"]
  /\ UNCHANGED <<dispatchVars, run, control, loc, givenUp, queueVars>>

Generates(w) ==
  pc[w] = "prepare" /\ Executable(w) /\ rev[cur[w]] = 0 /\ run[cur[w]].st # "completed"

\* _upsert_generation_run: the input is that of the first attempt.
InputDrifts(w) == run[cur[w]].st # "none" /\ run[cur[w]].in # ResolvedPrompt(w)

\* The provider cannot be resolved, or the input is another one; all that
\* the transaction wrote is rolled back.
PrepareFails(w) ==
  /\ Generates(w)
  /\ \/ InputDrifts(w) /\ Raise(w, "needs_review", "drift")
     \/ "fail" \in Disturbances /\ Raise(w, "permanent", "configuration")
  /\ UNCHANGED <<dispatchVars, run, pin, control, givenUp, queueVars>>

\* _create_generation_attempt: the new attempt is the active one.
NewAttempt(d, prompt) ==
  [run[d] EXCEPT !.st = "running", !.act = @ + 1, !.in = prompt]

\* _supersede_running_attempts and _upsert_generation_run
Prepare(w) ==
  LET d == cur[w] IN
  /\ Generates(w) /\ ~InputDrifts(w) /\ run[d].act < MaxCalls
  /\ run' = [run EXCEPT ![d] = NewAttempt(d, ResolvedPrompt(w))]
  /\ pin' = [pin EXCEPT ![d] = ResolvedPrompt(w)]
  /\ st' = [st EXCEPT ![d] = "generating"] /\ err' = [err EXCEPT ![d] = "none"]
  /\ loc' = [loc EXCEPT ![w].att = run[d].act + 1]
  /\ pc' = [pc EXCEPT ![w] = "call"]
  /\ UNCHANGED <<rev, par, var, intents, control, givenUp, queueVars>>

-----------------------------------------------------------------------------
(* The provider has answered or failed. *)

\* Mutant of IsActive: every attempt may write.
IsRunning(w) == run[cur[w]].st \in {"running", "completed"}

\* The fence: request_payload.execution.active_generation_attempt_id.
IsActive(w) == run[cur[w]].act = loc[w].att

CallSucceeds(w) ==
  LET d == cur[w] IN
  /\ pc[w] = "call" /\ IsActive(w) /\ run[d].st \in {"running", "completed"}
  /\ run' = [run EXCEPT ![d].st = "completed", ![d].out = loc[w].att]
  /\ pc' = [pc EXCEPT ![w] = "read"]
  /\ UNCHANGED <<dispatchVars, pin, control, loc, givenUp, queueVars>>

\* A run that lease recovery has failed cannot become completed: the error
\* of the state machine is none of the handler's own and is not written.
CallTooLate(w) ==
  /\ pc[w] = "call" /\ IsActive(w) /\ run[cur[w]].st = "failed"
  /\ Return(w, "permanent")
  /\ UNCHANGED <<dispatchVars, run, pin, control, givenUp, queueVars>>

CallSuperseded(w) ==
  /\ pc[w] = "call" /\ (~IsActive(w) \/ rev[cur[w]] # 0)
  /\ Return(w, "succeeded")
  /\ UNCHANGED <<dispatchVars, run, pin, control, givenUp, queueVars>>

\* _generation_error: the classes of the provider's errors.
Classified(w) == {RetryClass(w), "needs_review", "permanent"}

\* _record_generation_failure.  The session keeps the dispatch it wrote.
CallFails(w) ==
  LET d == cur[w] IN
  /\ "fail" \in Disturbances
  /\ pc[w] = "call" /\ IsActive(w) /\ rev[d] = 0 /\ run[d].st # "completed"
  /\ \E r \in Classified(w) :
       /\ st' = [st EXCEPT ![d] = IF r = "needs_review" THEN r ELSE "failed"]
       /\ loc' = [loc EXCEPT ![w].res = r, ![w].code = "generation", ![w].stale = TRUE]
  /\ run' = [run EXCEPT ![d].st = "failed"]
  /\ pc' = [pc EXCEPT ![w] = "mark"]
  /\ givenUp' = givenUp \cup {d}
  /\ UNCHANGED <<err, rev, par, var, intents, pin, control, queueVars>>

\* _handle_process_route_dispatch: after a rollback the row is read again;
\* after a recorded failure the object of the session is returned, and a
\* status it already has is not written.
Mark(w) ==
  LET d == cur[w]
      r == loc[w].res
      s == IF r = "permanent" THEN "failed" ELSE r IN
  /\ pc[w] = "mark"
  /\ IF loc[w].stale \/ rev[d] = 0
     THEN /\ st' = IF loc[w].stale /\ r # "retryable" THEN st ELSE [st EXCEPT ![d] = s]
          /\ err' = [err EXCEPT ![d] = loc[w].code]
     ELSE UNCHANGED <<st, err>>
  /\ givenUp' = IF st'[d] \in GivenUp THEN givenUp \cup {d} ELSE givenUp
  /\ pc' = [pc EXCEPT ![w] = "end"]
  /\ UNCHANGED <<rev, par, var, intents, run, pin, control, loc, queueVars>>

-----------------------------------------------------------------------------
(* The last transaction: _persist_revision_and_publish. *)

\* Mutant of Waits: a dispatch that is to be retried does not hold others up.
WaitsGenerating(d) ==
  \E e \in 1..(d - 1) : rev[e] = 0 /\ st[e] \in {"captured", "researching", "generating"}

\* _wait_for_earlier_revision
Waits(d) == \E e \in 1..(d - 1) : rev[e] = 0 /\ st[e] \in Blocking

\* _route_parent_revision: of the newest earlier dispatch that has one.
Parent(d) ==
  LET older == {e \in 1..(d - 1) : rev[e] # 0} IN
  IF older = {} THEN 0 ELSE CHOOSE e \in older : \A f \in older : f <= e

\* _content_pack_and_variant
VariantUnder(d, p) == IF p = 0 THEN d ELSE var[p]

\* _load_revision_inputs, without a lock.
Read(w) ==
  LET d == cur[w] IN
  /\ pc[w] = "read"
  /\ CASE rev[d] # 0 -> Return(w, "succeeded")
       [] rev[d] = 0 /\ Waits(d) -> Raise(w, RetryClass(w), "lineage")
       [] OTHER -> /\ pc' = [pc EXCEPT ![w] = "write"]
                   /\ loc' = [loc EXCEPT ![w].par = Parent(d)]
  /\ UNCHANGED <<dispatchVars, run, pin, control, givenUp, queueVars>>

\* Mutant of RevisionExists: only the unlocked read looked.
RevisionExistsRead(d) == FALSE

\* _validate_locked_dispatch
RevisionExists(d) == rev[d] # 0

WriteDone(w) ==
  /\ pc[w] = "write" /\ RevisionExists(cur[w])
  /\ Return(w, "succeeded")
  /\ UNCHANGED <<dispatchVars, run, pin, control, givenUp, queueVars>>

\* Mutant of LineageChanged: the parent read before the locks is good enough.
LineageTrusted(w) == FALSE

\* _validate_refreshed_parent: the variant locked first must be the parent's.
LineageChanged(w) ==
  LET d == cur[w] IN
  Parent(d) # 0 /\ var[Parent(d)] # VariantUnder(d, loc[w].par)

\* Expired media, a route with another brand, a fenced variant.
WriteRefused(w) ==
  /\ pc[w] = "write" /\ ~RevisionExists(cur[w])
  /\ \/ LineageChanged(w) /\ Raise(w, "retryable", "lineage")
     \/ ~LineageChanged(w) /\ "media" \in Disturbances /\ Raise(w, "needs_review", "media")
     \/ ~LineageChanged(w) /\ fenced /\ Raise(w, "retryable", "fence")
  /\ UNCHANGED <<dispatchVars, run, pin, control, givenUp, queueVars>>

\* evaluate_auto_publish, under the locks of route, control and destination.
GateOpen == ~held /\ healthy

\* Mutant of Approves: nobody looks at the gate.
ApprovesUnforced(d) == d \notin Forced

\* evaluate_review_policy
Approves(d) == GateOpen /\ d \notin Forced

\* enqueue_telegram_publish_intent: keyed by destination, revision and hash.
Intended(d) == IF Approves(d) THEN intents \cup {d} ELSE intents

\* _create_dispatch_revision
Write(w) ==
  LET d == cur[w] IN
  /\ pc[w] = "write" /\ ~RevisionExists(d) /\ ~LineageChanged(w) /\ ~fenced
  /\ rev' = [rev EXCEPT ![d] = Cardinality({e \in Dispatches : rev[e] # 0}) + 1]
  /\ par' = [par EXCEPT ![d] = Parent(d)]
  /\ var' = [var EXCEPT ![d] = VariantUnder(d, loc[w].par)]
  /\ st' = [st EXCEPT ![d] = IF Approves(d) THEN "approved" ELSE "pending_review"]
  /\ err' = [err EXCEPT ![d] = "none"]
  /\ intents' = Intended(d)
  /\ Return(w, "succeeded")
  /\ UNCHANGED <<run, pin, control, givenUp, queueVars>>

-----------------------------------------------------------------------------
WorkerStep(w) ==
  \/ Refuse(w) \/ PrepareDone(w) \/ PrepareReuse(w) \/ PrepareFails(w) \/ Prepare(w)
  \/ CallSucceeds(w) \/ CallTooLate(w) \/ CallSuperseded(w) \/ CallFails(w) \/ Mark(w)
  \/ Read(w) \/ WriteDone(w) \/ WriteRefused(w) \/ Write(w) \/ End(w)

Next ==
  \/ Capture \/ ActivatePrompt \/ ToggleGate \/ ToggleFence
  \/ \E w \in Workers : Start(w) \/ WorkerStep(w) \/ Crash(w)
  \/ \E j \in Jobs : Recover(j) \/ Operate(j)

Spec == Init /\ [][Next]_vars

\* Workers go on and claim what is queued; expired leases are recovered.
Fairness ==
  /\ \A w \in Workers : WF_vars(WorkerStep(w)) /\ WF_vars(Start(w))
  /\ \A j \in Jobs : WF_vars(Recover(j))

LiveSpec == Spec /\ Fairness

-----------------------------------------------------------------------------
(* What is checked. *)

\* A dispatch gets one revision, and keeps it and its place in the lineage,
\* whichever workers process the dispatch again.
KeepsRevisions ==
  \A d \in Dispatches : rev[d] # 0 =>
    /\ rev'[d] = rev[d] /\ par'[d] = par[d] /\ var'[d] = var[d]
    /\ (d \in intents' <=> d \in intents)

\* The output of a completed run stays that of the attempt that completed it:
\* the answer to a superseded attempt never replaces it.
KeepsOutput == \A d \in Dispatches : run[d].st = "completed" => run'[d].out = run[d].out

\* Revisions of the story are made on one variant: one made later for a later
\* dispatch continues the variant of the earlier dispatch, unless one in between
\* was made first.  (A dispatch that was given up and retried after a later one
\* starts a variant of its own, and what follows continues the later one's.)
LineageShared ==
  \A d, e \in Dispatches :
    /\ d < e /\ rev[d] # 0 /\ rev[d] < rev[e]
    /\ \A f \in (d + 1)..(e - 1) : rev[f] # 0 => rev[d] < rev[f]
    => var[d] = var[e]

\* A later dispatch gets its revision before an earlier one only if the earlier
\* one had been given up at some time: the order of the source is kept.
NoOvertaking ==
  \A d, e \in Dispatches :
    d < e /\ st[d] # "absent" /\ rev[e] # 0 /\ (rev[d] = 0 \/ rev[d] > rev[e]) => d \in givenUp

\* What is published without a review was allowed at that very moment, however
\* long the provider took.
PublishesUnderOpenGate ==
  \A d \in intents' \ intents : GateOpen /\ rev'[d] # 0 /\ st'[d] = "approved"

\* A retry asks with the prompt of the first attempt, also when another version
\* has been activated in between: no retry is refused for another input.
NoDrift == \A d \in Dispatches : err[d] # "drift"

\* A dispatch that holds later ones up has a job that will go on with it, as long
\* as no job is cancelled, no worker goes on without its lease, and no regeneration
\* fences the variant when the last attempt writes: each may leave the dispatch in
\* such a status and its job over.
BlockersAlive ==
  \A d \in Dispatches : rev[d] = 0 /\ st[d] \in Blocking => job[d] \in {"queued", "running"}

\* A late failure does not change the status of a dispatch that has a revision.
StatusKept == \A d \in Dispatches : rev[d] # 0 => st[d] \in Reviewed

\* Every captured dispatch ends with a revision or is given up visibly.
Settled(d) == rev[d] # 0 \/ st[d] \in GivenUp
DispatchesSettle == \A d \in Dispatches : st[d] = "captured" ~> []Settled(d)
=============================================================================
