------------------------------ MODULE Retention ------------------------------
(***************************************************************************)
(* One retention run: the preview that snapshots the candidates, its        *)
(* confirmation, the execute_retention job (a database phase that scrubs    *)
(* and expires records and leaves cleanup intents, then a filesystem phase  *)
(* that deletes their files), crashes and replays of both phases, and the   *)
(* rest of the system that changes, references and downloads records all    *)
(* the while.  Source: backend/app/retention, media/downloader.py,          *)
(* media/atomic_files.py, jobs/repository.py (the _sync_retention functions). *)
(*                                                                         *)
(* A record is of one of three kinds: "scrub" (raw payloads, finished jobs, *)
(* attempts), "media" and "export".  Its unit is what it shares with other  *)
(* records: the content-addressed file of a media row, the generation run   *)
(* of an attempt; a record without siblings is its own unit.  The state     *)
(* hash is a counter; the age, ownership and reference tests of the         *)
(* planner's queries are one shield.  Left out: counts, policy validation,  *)
(* unsafe storage paths (no row of the program has one).                    *)
(***************************************************************************)
EXTENDS HandlerRuns, FiniteSets

CONSTANTS Rows, Kind, Unit,
          Late,        \* media rows not downloaded at the start
          MaxChanges   \* bound: changes of one record

ASSUME RetentionAssumption ==
  /\ Kind \in [Rows -> {"scrub", "media", "export"}]
  /\ Late \subseteq {r \in Rows : Kind[r] = "media"}
  /\ \A r, s \in Rows : Unit[r] = Unit[s] =>   \* an export has a tree of its own
       Kind[r] = Kind[s] /\ (Kind[r] = "export" => r = s)
  /\ Jobs # {}
  /\ MaxChanges \in Nat

VARIABLES
  kept,     \* "kept", "gone" (scrubbed or expired), "remote" (no file yet)
  hash,     \* the record's state hash
  shield,   \* the record is referenced, owned or too young
  file,     \* units whose file or tree exists on disk
  status,   \* retention_runs.status, "none" before the preview
  cand,     \* candidate_snapshot: <<record, state hash>>
  fresh,    \* preview_expires_at lies in the future
  started,  \* started_at IS NOT NULL
  intents,  \* cleanup_intent_snapshot
  touched,  \* records this run scrubbed or expired (count_snapshot)
  spared,   \* units the last filesystem pass skipped (count_snapshot)
  pc,       \* where the handler stands in each worker
  todo,     \* units a worker's pass has still to delete
  skips,    \* units its pass skipped
  bad       \* its pass met a filesystem error

records == <<kept, hash, shield, file>>
run     == <<status, cand, fresh, started, intents, touched, spared>>
locals  == <<pc, todo, skips, bad>>
vars    == <<records, run, locals, queueVars>>

RunStatuses == {"none", "previewed", "queued", "running", "succeeded",
                "partial", "failed"}
HasFile(r) == Kind[r] \in {"media", "export"}
Units == {Unit[r] : r \in Rows}
J == CHOOSE j \in Jobs : TRUE

TypeOK ==
  /\ QueueTypeOK
  /\ kept \in [Rows -> {"kept", "gone", "remote"}]
  /\ hash \in [Rows -> 0..MaxChanges]
  /\ shield \in [Rows -> BOOLEAN]
  /\ file \subseteq Units
  /\ status \in RunStatuses
  /\ cand \subseteq Rows \X (0..MaxChanges)
  /\ fresh \in BOOLEAN /\ started \in BOOLEAN
  /\ intents \subseteq {r \in Rows : HasFile(r)}
  /\ touched \subseteq Rows
  /\ spared \subseteq Units
  /\ pc \in [Workers -> {"idle", "db", "read", "delete", "close"}]
  /\ todo \in [Workers -> SUBSET Units]
  /\ skips \in [Workers -> SUBSET Units]
  /\ bad \in [Workers -> BOOLEAN]

Init ==
  /\ QueueInit
  /\ kept = [r \in Rows |-> IF r \in Late THEN "remote" ELSE "kept"]
  /\ hash = [r \in Rows |-> 0]
  /\ shield \in [Rows -> BOOLEAN]
  /\ file = {Unit[r] : r \in {s \in Rows \ Late : HasFile(s)}}
  /\ status = "none" /\ cand = {} /\ fresh = FALSE /\ started = FALSE
  /\ intents = {} /\ touched = {} /\ spared = {}
  /\ pc = [w \in Workers |-> "idle"]
  /\ todo = [w \in Workers |-> {}]
  /\ skips = [w \in Workers |-> {}]
  /\ bad = [w \in Workers |-> FALSE]

-----------------------------------------------------------------------------
(* The rest of the system. *)

\* A record is written by its own component.
ChangeRecord(r) ==
  /\ kept[r] = "kept" /\ hash[r] < MaxChanges
  /\ hash' = [hash EXCEPT ![r] = @ + 1]
  /\ UNCHANGED <<kept, shield, file, run, locals, queueVars>>

\* A reference to the record appears or goes, or it comes of age.
Refer(r) ==
  /\ shield' = [shield EXCEPT ![r] = ~@]
  /\ UNCHANGED <<kept, hash, file, run, locals, queueVars>>

\* MediaDownloader._download_asset: atomic_write leaves an existing file as it
\* is, and the row claims it in the transaction that took the table lock.
Download(r) ==
  /\ kept[r] = "remote"
  /\ kept' = [kept EXCEPT ![r] = "kept"]
  /\ file' = file \cup {Unit[r]}
  /\ UNCHANGED <<hash, shield, run, locals, queueVars>>

-----------------------------------------------------------------------------
(* RetentionPlanner.collect_candidates. *)

Siblings(r) == {s \in Rows : Unit[s] = Unit[r]}

\* Mutant of Claimants: rows the run does not name are overlooked.
ClaimantsNamed(u) ==
  {s \in Rows : /\ Kind[s] = "media" /\ Unit[s] = u /\ kept[s] = "kept"
                /\ \E c \in cand : c = <<s, hash[s]>>}

\* _classified_media_claims: the rows whose storage_path is the file of u.
Claimants(u) == {s \in Rows : Kind[s] = "media" /\ Unit[s] = u /\ kept[s] = "kept"}

\* Records that keep those they share a unit with from being candidates.
Blockers(r) ==
  {s \in IF Kind[r] = "media" THEN Claimants(Unit[r]) ELSE Siblings(r) : shield[s]}

\* Old enough, finished, not yet scrubbed, and nothing refers to it.
Eligible(r) == kept[r] = "kept" /\ ~shield[r]

Collected == {r \in Rows : Eligible(r) /\ Blockers(r) = {}}

Candidates == {<<r, hash[r]>> : r \in Collected}

\* RetentionService.preview; a second preview with the same candidates has the
\* same token and only renews the first one.
Preview ==
  /\ \/ status = "none" /\ cand' = Candidates
     \/ status = "previewed" /\ Candidates = cand /\ ~fresh /\ UNCHANGED cand
  /\ status' = "previewed"
  /\ fresh' = TRUE
  /\ UNCHANGED <<records, started, intents, touched, spared, locals, queueVars>>

PreviewExpires ==
  /\ status = "previewed" /\ fresh
  /\ fresh' = FALSE
  /\ UNCHANGED <<records, status, cand, started, intents, touched, spared,
                 locals, queueVars>>

-----------------------------------------------------------------------------
(* RetentionService.enqueue: the operator's typed confirmation. *)

\* reset_all_skipped_database_run: the database phase skipped every candidate
\* and all of them are again what the preview saw.
AllSkipped ==
  /\ status \in {"partial", "succeeded"}
  /\ intents = {} /\ touched = {}
  /\ cand # {}
  /\ cand \subseteq Candidates

Confirm ==
  /\ status = "previewed" /\ fresh
  /\ EnqueueJob(J)
  /\ status' = "queued"
  /\ UNCHANGED <<records, cand, fresh, started, intents, touched, spared, locals>>

\* The job starts over with its whole budget.
ReconfirmSkipped ==
  /\ job[J] \in {"queued", "failed", "needs_review", "cancelled", "succeeded"}
  /\ AllSkipped
  /\ job' = [job EXCEPT ![J] = "queued"]
  /\ tries' = [tries EXCEPT ![J] = 0]
  /\ owner' = [owner EXCEPT ![J] = Nobody]
  /\ status' = "queued" /\ started' = FALSE
  /\ spared' = {}
  /\ UNCHANGED <<records, cand, fresh, intents, touched, locals, retried, cur>>

RevivableBeforeDatabase == ~started /\ status \in {"queued", "failed"}
RevivableCleanup        == started /\ status \in {"running", "partial"}

\* A cancelled run is taken up where it stood; the attempts are kept.
ReconfirmCancelled ==
  /\ job[J] = "cancelled"
  /\ ~AllSkipped
  /\ RevivableBeforeDatabase \/ RevivableCleanup
  /\ job' = [job EXCEPT ![J] = "queued"]
  /\ status' = IF RevivableBeforeDatabase THEN "queued" ELSE status
  /\ UNCHANGED <<records, cand, fresh, started, intents, touched, spared,
                 locals, tries, owner, retried, cur>>

\* Every other confirmation: a run whose job is over is marked failed, and
\* the rest is refused or answered with the existing job.
ReconfirmOther ==
  /\ job[J] # "absent" /\ ~AllSkipped
  /\ ~(job[J] = "cancelled" /\ (RevivableBeforeDatabase \/ RevivableCleanup))
  /\ status' = IF job[J] \in {"failed", "cancelled"} /\ status \in {"queued", "running"}
               THEN "failed" ELSE status
  /\ UNCHANGED <<records, cand, fresh, started, intents, touched, spared,
                 locals, queueVars>>

-----------------------------------------------------------------------------
(* The job rows: what the queue does to the run when its job ends. *)

\* _sync_retention_terminal
Terminal(s) == CASE s = "running" -> "partial"
                 [] s \in {"previewed", "queued"} -> "failed"
                 [] OTHER -> s

\* The run after its job went to status s without the handler's success.
Settled(s) == IF s \in {"failed", "cancelled", "needs_review"}
              THEN Terminal(status) ELSE status

\* Mutant of Recover: an exhausted job is failed and its run is left behind.
RecoverJobOnly ==
  /\ RecoverJob(J)
  /\ UNCHANGED <<records, run, locals>>

\* requeue_expired_leases
Recover ==
  /\ RecoverJob(J)
  /\ status' = Settled(RecoveredStatus(J))
  /\ UNCHANGED <<records, cand, fresh, started, intents, touched, spared, locals>>

\* cancel_job
Cancel ==
  /\ CancelJob(J)
  /\ status' = Settled("cancelled")
  /\ UNCHANGED <<records, cand, fresh, started, intents, touched, spared, locals>>

\* retry_job with _sync_retention_retry
Retry ==
  /\ RetryJob(J)
  /\ status' = IF status = "failed" /\ ~started THEN "queued" ELSE status
  /\ UNCHANGED <<records, cand, fresh, started, intents, touched, spared, locals>>

-----------------------------------------------------------------------------
(* The handler: build_retention_handler. *)

Start(w) ==
  /\ ClaimJob(w, J)
  /\ pc' = [pc EXCEPT ![w] = "db"]
  /\ UNCHANGED <<records, run, todo, skips, bad>>

Forget(w) ==
  /\ pc' = [pc EXCEPT ![w] = "idle"]
  /\ todo' = [todo EXCEPT ![w] = {}]
  /\ skips' = [skips EXCEPT ![w] = {}]
  /\ bad' = [bad EXCEPT ![w] = FALSE]

\* The handler is over; fail_job settles the run when the job is terminal.
End(w, r) ==
  /\ CloseJob(w, r)
  /\ status' = IF Holds(w) THEN Settled(ClosedStatus(J, r)) ELSE status
  /\ Forget(w)
  /\ UNCHANGED <<records, cand, fresh, started, intents, touched, spared>>

\* A claim beyond max_attempts is failed before the handler.
Refuse(w) == pc[w] = "db" /\ ~Executable(w) /\ End(w, "permanent")

\* Candidates that are still what the preview saw.
Unchanged == {r \in Rows : \E c \in cand \cap Candidates : c[1] = r}

\* Mutant of UnitIntact: the siblings of an attempt are not asked.
UnitIntactFiles(r) ==
  Kind[r] = "media" => Claimants(Unit[r]) \subseteq Unchanged

\* _invalid_canonical_paths and _invalid_generation_run_ids: a unit is left
\* whole when a record that shares it is not an unchanged candidate.
UnitIntact(r) ==
  IF Kind[r] = "media" THEN Claimants(Unit[r]) \subseteq Unchanged
  ELSE \A s \in Siblings(r) : (\E c \in cand : c[1] = s) => s \in Unchanged

\* Mutant of Removable: trusts the snapshot.
RemovableSnapshot == {r \in Rows : kept[r] = "kept" /\ \E c \in cand : c[1] = r}

\* What execute_db_phase scrubs and expires.
Removable == {r \in Unchanged : UnitIntact(r)}

\* The scrub helpers and the expiry markers.
Scrubbed == [r \in Rows |-> IF r \in Removable THEN "gone" ELSE kept[r]]

\* execute_db_phase, one transaction under SHARE locks: the markers, the
\* intents and the status commit together.
DatabasePhase(w) ==
  /\ pc[w] = "db" /\ Executable(w)
  /\ status = "queued"
  /\ kept' = Scrubbed
  /\ intents' = {r \in Removable : HasFile(r)}
  /\ touched' = touched \cup Removable
  /\ status' = "running" /\ started' = TRUE
  /\ pc' = [pc EXCEPT ![w] = "read"]
  /\ UNCHANGED <<hash, shield, file, cand, fresh, spared, todo, skips, bad,
                 queueVars>>

\* A replay finds the database phase done and returns its plan.
DatabaseReplay(w) ==
  /\ pc[w] = "db" /\ Executable(w)
  /\ status \in {"running", "succeeded", "partial"}
  /\ pc' = [pc EXCEPT ![w] = "read"]
  /\ UNCHANGED <<records, run, todo, skips, bad, queueVars>>

\* RetentionConflict: the run is in no executable status.
DatabaseConflict(w) ==
  /\ pc[w] = "db" /\ Executable(w)
  /\ status \notin {"queued", "running", "succeeded", "partial"}
  /\ End(w, "permanent")

IntentUnits == {Unit[r] : r \in intents}

\* Units of media intents that a reference or another row claims again.
\* (A row that expired keeps no path, so only other rows can claim it.)
Reclaimed ==
  {u \in IntentUnits :
     \/ \E r \in intents : Kind[r] = "media" /\ Unit[r] = u /\ shield[r]
     \/ Claimants(u) # {}}

\* finish_filesystem_phase, first transaction: the protection read.  Its
\* commit releases the SHARE locks before anything is deleted.
ReadClaims(w) ==
  /\ pc[w] = "read"
  /\ status \in {"running", "partial"}
  /\ todo' = [todo EXCEPT ![w] = IntentUnits \ Reclaimed]
  /\ skips' = [skips EXCEPT ![w] = Reclaimed]
  /\ pc' = [pc EXCEPT ![w] = "delete"]
  /\ UNCHANGED <<records, run, bad, queueVars>>

ReadSucceeded(w) ==
  /\ pc[w] = "read" /\ status = "succeeded"
  /\ End(w, "succeeded")

\* The run was failed or set back to queued since the database phase.
ReadConflict(w) ==
  /\ pc[w] = "read" /\ status \notin {"running", "partial", "succeeded"}
  /\ End(w, "permanent")

\* _delete_relative_owned: a missing file is as good as a deleted one.
DeleteFile(w) ==
  /\ pc[w] = "delete"
  /\ \E u \in todo[w] :
       /\ todo' = [todo EXCEPT ![w] = @ \ {u}]
       /\ file' = file \ {u}
  /\ UNCHANGED <<kept, hash, shield, run, pc, skips, bad, queueVars>>

DeleteFails(w) ==
  /\ pc[w] = "delete"
  /\ \E u \in todo[w] : todo' = [todo EXCEPT ![w] = @ \ {u}]
  /\ bad' = [bad EXCEPT ![w] = TRUE]
  /\ UNCHANGED <<records, run, pc, skips, queueVars>>

\* Mutant of Finalize: errors are recorded, the run counts as done.
FinalizeDone(w) ==
  /\ pc[w] = "delete" /\ todo[w] = {}
  /\ status' = "succeeded"
  /\ spared' = skips[w]
  /\ pc' = [pc EXCEPT ![w] = "close"]
  /\ UNCHANGED <<records, cand, fresh, started, intents, touched, todo, skips,
                 bad, queueVars>>

\* The second transaction writes the outcome of this pass over whatever the
\* run has become.
Finalize(w) ==
  /\ pc[w] = "delete" /\ todo[w] = {}
  /\ status' = IF bad[w] THEN "partial" ELSE "succeeded"
  /\ spared' = skips[w]
  /\ pc' = [pc EXCEPT ![w] = "close"]
  /\ UNCHANGED <<records, cand, fresh, started, intents, touched, todo, skips,
                 bad, queueVars>>

Close(w) ==
  /\ pc[w] = "close"
  /\ End(w, IF bad[w] THEN "retryable" ELSE "succeeded")

Crash(w) ==
  /\ pc[w] # "idle"
  /\ Die(w)
  /\ Forget(w)
  /\ UNCHANGED <<records, run>>

-----------------------------------------------------------------------------
Handler(w) ==
  \/ Refuse(w) \/ DatabasePhase(w) \/ DatabaseReplay(w) \/ DatabaseConflict(w)
  \/ ReadClaims(w) \/ ReadSucceeded(w) \/ ReadConflict(w)
  \/ DeleteFile(w) \/ DeleteFails(w) \/ Finalize(w) \/ Close(w)

Operator == Preview \/ PreviewExpires \/ Confirm \/ ReconfirmSkipped
            \/ ReconfirmCancelled \/ ReconfirmOther \/ Cancel \/ Retry

Next ==
  \/ Operator
  \/ Recover
  \/ \E w \in Workers : Start(w) \/ Handler(w) \/ Crash(w)
  \/ \E r \in Rows : ChangeRecord(r) \/ Refer(r) \/ Download(r)

Spec == Init /\ [][Next]_vars

\* Workers and the scheduler are restarted for as long as they die
\* (docker-compose: restart unless-stopped).
Fairness ==
  /\ WF_vars(Recover)
  /\ \A w \in Workers : WF_vars(Start(w)) /\ WF_vars(Handler(w))

LiveSpec == Spec /\ Fairness

-----------------------------------------------------------------------------
(* Properties. *)

\* Whatever happens between preview, confirmation and execution, and however
\* often the job is replayed, a record loses its data only while nothing
\* refers to it, in the state the confirmed preview showed.
RemovesConfirmed ==
  \A r \in Rows : kept[r] = "kept" /\ kept'[r] = "gone" =>
    ~shield[r] /\ <<r, hash[r]>> \in cand /\ job[J] # "absent"

\* A stored media row finds its file on disk, also where two rows share a
\* content-addressed file and only one of them was a candidate.
ClaimedFilesExist ==
  \A r \in Rows : kept[r] = "kept" /\ HasFile(r) => Unit[r] \in file

\* The attempts of one generation run share its payload: they are scrubbed
\* together or not at all.
AttemptsScrubbedTogether ==
  \A r \in Rows : \A s \in Siblings(r) :
    Kind[r] = "scrub" /\ {r, s} \subseteq {c[1] : c \in cand} =>
      (kept[r] = "gone" <=> kept[s] = "gone")

\* A run that reports success has left no file of an expired record behind,
\* but for files that were referenced or claimed again: intents survive
\* crashes, failed deletions and replays.
SuccessLeavesNothing ==
  status = "succeeded" =>
    \A r \in intents :
      \/ Unit[r] \notin file
      \/ Unit[r] \in spared
      \/ \E s \in Rows : Unit[s] = Unit[r] /\ kept[s] = "kept"

\* When the job is over the run is settled: nobody waits for a queued or
\* running run that no worker will take up.
EndedJobSettlesRun == job[J] \in Over => status \notin {"queued", "running"}

\* A confirmed run comes to an end.
RunsEnd == status = "queued" ~> status \notin {"queued", "running"}
=============================================================================
