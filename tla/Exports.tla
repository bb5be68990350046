-------------------------------- MODULE Exports --------------------------------
(***************************************************************************)
(* Exports of a content pack: requests that freeze the revisions they are   *)
(* about, the build_export job that writes a directory and renames it into  *)
(* place, downloads, expiry by retention and rebuilds.                      *)
(* Source: backend/app/exports/service.py, handlers.py,                     *)
(* backend/app/api/exports.py.                                              *)
(*                                                                         *)
(* A revision is a number per platform; its content is immutable and its    *)
(* approval final, so that what a build writes is determined by the request *)
(* and by whether the media are there.                                      *)
(***************************************************************************)
EXTENDS HandlerRuns, FiniteSets

CONSTANTS Platforms,      \* platforms of the pack
          MaxRevision,    \* bound: revisions of a variant
          MaxGenerations, \* MAX_EXPORT_REBUILD_GENERATIONS
          Disturbances    \* bound: of "crash", "lease", "media", "expire"

\* BuildExportPayload as the set of its revisions; the key of a rebuild has the
\* generation too.
Payloads == UNION {[P -> 1..MaxRevision] : P \in SUBSET Platforms \ {{}}}
Key(payload, g) == [payload |-> payload, gen |-> g]

ExportsAssumption ==
  /\ MaxRevision \in Nat \ {0} /\ MaxGenerations \in Nat
  /\ Jobs = [payload : Payloads, gen : 0..MaxGenerations]

VARIABLES
  newest,    \* revision_number of the newest revision of each variant, 0 without variant
  approved,  \* the revisions with approval_state approved
  media,     \* the media files are there and unchanged
  target,    \* export_root/<job id>: absent, exact or being removed
  result,    \* workflow_jobs.result
  pc         \* a worker: step or the result it closes with

pack == <<newest, approved, media>>
vars == <<pack, target, result, pc, queueVars>>

TypeOK ==
  /\ QueueTypeOK
  /\ newest \in [Platforms -> 0..MaxRevision] /\ approved \in [Platforms -> SUBSET (1..MaxRevision)]
  /\ media \in BOOLEAN
  /\ target \in [Jobs -> {"absent", "exact", "removing"}]
  /\ result \in [Jobs -> {"none", "complete", "expired"}]
  /\ pc \in [Workers -> {"idle", "select", "target", "write", "rename"} \cup Results]

Init ==
  /\ QueueInit
  /\ newest = [p \in Platforms |-> 0] /\ approved = [p \in Platforms |-> {}]
  /\ media = TRUE
  /\ target = [j \in Jobs |-> "absent"] /\ result = [j \in Jobs |-> "none"]
  /\ pc = [w \in Workers |-> "idle"]

-----------------------------------------------------------------------------
(* The pack, its review and the media (external to the exports). *)

Revise(p) ==
  /\ newest[p] < MaxRevision
  /\ newest' = [newest EXCEPT ![p] = @ + 1]
  /\ UNCHANGED <<approved, media, target, result, pc, queueVars>>

Approve(p) ==
  /\ newest[p] > 0
  /\ approved' = [approved EXCEPT ![p] = @ \cup {newest[p]}]
  /\ UNCHANGED <<newest, media, target, result, pc, queueVars>>

MediaChange ==
  /\ "media" \in Disturbances /\ media' = ~media
  /\ UNCHANGED <<newest, approved, target, result, pc, queueVars>>

-----------------------------------------------------------------------------
(* The request. *)

Variants == {p \in Platforms : newest[p] > 0}

\* _select_revisions: one approved revision of every variant, the newest ones
\* unless the request names others.
Selectable == {f \in Payloads : DOMAIN f = Variants /\ \A p \in Variants : f[p] \in approved[p]}

\* Mutant of Expired: a failed export is built anew under another key.
ExpiredOrFailed(j) == result[j] = "expired" \/ job[j] = "failed"

\* _expired_rebuild_artifact
Expired(j) == job[j] = "succeeded" /\ result[j] = "expired"

\* _enqueue_export_job: the first generation that has not expired.
Generation(payload) ==
  CHOOSE g \in 0..(MaxGenerations + 1) :
    /\ \A h \in 0..(g - 1) : Expired(Key(payload, h))
    /\ g = MaxGenerations + 1 \/ ~Expired(Key(payload, g))

CreateExport ==
  /\ \E f \in Selectable :
       /\ Generation(f) <= MaxGenerations
       /\ EnqueueJob(Key(f, Generation(f)))
  /\ UNCHANGED <<pack, target, result, pc>>

-----------------------------------------------------------------------------
(* build_export *)

Goto(w, step) == pc' = [pc EXCEPT ![w] = step]

Start(w) ==
  /\ \E j \in Jobs : ClaimJob(w, j)
  /\ Goto(w, "select") /\ UNCHANGED <<pack, target, result>>

\* The revisions are those of the request, one of every variant of the pack.
SelectRevisions(w) ==
  /\ pc[w] = "select" /\ Executable(w)
  /\ Goto(w, IF cur[w].payload \in Selectable THEN "target" ELSE "permanent")
  /\ UNCHANGED <<pack, target, result, queueVars>>

\* Mutant of Complete: whatever is in place is built again.
CompleteNever(j) == FALSE

\* _load_complete_artifact: every file is there and has its checksum.
Complete(j) == target[j] = "exact"

\* A complete directory is the result; anything else in its place is removed.
CheckTarget(w) ==
  LET j == cur[w] IN
  /\ pc[w] = "target"
  /\ IF Complete(j) THEN Goto(w, "succeeded") /\ UNCHANGED target
     ELSE Goto(w, "write") /\ target' = [target EXCEPT ![j] = "absent"]
  /\ UNCHANGED <<pack, result, queueVars>>

\* _copy_revision_media: every assigned file is there, of its length and with
\* its checksum.
MediaCopied == media

\* The staging directory of this attempt is written.
WriteStaging(w) ==
  /\ pc[w] = "write"
  /\ Goto(w, IF MediaCopied THEN "rename" ELSE "permanent")
  /\ UNCHANGED <<pack, target, result, queueVars>>

\* os.rename; a directory that another attempt has put there is loaded.
Rename(w) ==
  LET j == cur[w] IN
  /\ pc[w] = "rename"
  /\ IF target[j] = "absent" THEN target' = [target EXCEPT ![j] = "exact"] /\ Goto(w, "succeeded")
     ELSE UNCHANGED target /\ Goto(w, IF Complete(j) THEN "succeeded" ELSE "permanent")
  /\ UNCHANGED <<pack, result, queueVars>>

\* Mutant of End: a claim beyond the budget is left to the lease.
EndUnrefused(w) ==
  /\ pc[w] \in Results /\ CloseJob(w, pc[w])
  /\ result' = IF Holds(w) /\ pc[w] = "succeeded" THEN [result EXCEPT ![cur[w]] = "complete"] ELSE result
  /\ Goto(w, "idle") /\ UNCHANGED <<pack, target>>

End(w) ==
  /\ \/ pc[w] \in Results /\ CloseJob(w, pc[w])
        /\ result' = IF Holds(w) /\ pc[w] = "succeeded" THEN [result EXCEPT ![cur[w]] = "complete"] ELSE result
     \/ pc[w] = "select" /\ ~Executable(w) /\ CloseJob(w, "permanent") /\ UNCHANGED result
  /\ Goto(w, "idle") /\ UNCHANGED <<pack, target>>

Crash(w) ==
  /\ "crash" \in Disturbances /\ Die(w)
  /\ Goto(w, "idle") /\ UNCHANGED <<pack, target, result>>

Recover(j) ==
  /\ "lease" \in Disturbances \/ \A w \in Workers : cur[w] # j
  /\ RecoverJob(j) /\ UNCHANGED <<pack, target, result, pc>>

Operate(j) ==
  /\ RetryJob(j) \/ CancelJob(j)
  /\ UNCHANGED <<pack, target, result, pc>>

-----------------------------------------------------------------------------
(* Retention (module Retention): the row first, the files after. *)

Expire(j) ==
  /\ "expire" \in Disturbances /\ result[j] = "complete" /\ \A w \in Workers : cur[w] # j
  /\ result' = [result EXCEPT ![j] = "expired"]
  /\ UNCHANGED <<pack, target, pc, queueVars>>

Remove(j) ==
  /\ result[j] = "expired" /\ target[j] # "absent"
  /\ target' = [target EXCEPT ![j] = IF @ = "exact" THEN "removing" ELSE "absent"]
  /\ UNCHANGED <<pack, result, pc, queueVars>>

-----------------------------------------------------------------------------
WorkerStep(w) == SelectRevisions(w) \/ CheckTarget(w) \/ WriteStaging(w) \/ Rename(w) \/ End(w)

Next ==
  \/ CreateExport \/ MediaChange
  \/ \E p \in Platforms : Revise(p) \/ Approve(p)
  \/ \E w \in Workers : Start(w) \/ WorkerStep(w) \/ Crash(w)
  \/ \E j \in Jobs : Recover(j) \/ Operate(j) \/ Expire(j) \/ Remove(j)

Spec == Init /\ [][Next]_vars

LiveSpec ==
  /\ Spec
  /\ \A w \in Workers : WF_vars(WorkerStep(w)) /\ WF_vars(Start(w))
  /\ \A j \in Jobs : WF_vars(Recover(j))

-----------------------------------------------------------------------------
(* What is checked. *)

\* A complete export can be downloaded: its directory is there, whoever built
\* it, died over it or goes on building it without a lease.
DownloadsWork == \A j \in Jobs : result[j] = "complete" => target[j] = "exact"

\* A request is built once: there is a further generation only of an export
\* that has expired.
OneLiveGeneration ==
  \A j \in Jobs : j.gen > 0 /\ job[j] # "absent" => result[Key(j.payload, j.gen - 1)] = "expired"

\* A requested export ends although workers die over it, with a directory or
\* given up.
ExportsEnd == \A j \in Jobs : job[j] = "queued" ~> job[j] \in Over
=============================================================================
