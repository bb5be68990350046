--------------------------- MODULE RetentionProofs ---------------------------
(***************************************************************************)
(* Proofs about a retention run, for every set of records and workers:      *)
(* types, files of records that are kept, what may be removed, attempts     *)
(* scrubbed together, and runs settled when their job is over.  And about   *)
(* the exports that retention expires (Exports): a complete one has its     *)
(* directory, and another is built only of one that has expired.  And about *)
(* the backups that the scripts make and restore (Backups): of one moment,  *)
(* whole when services run, never replaced.                                 *)
(***************************************************************************)
EXTENDS Retention, HandlerRunsProofs, Sequences, NaturalsInduction, WellFoundedInduction

\* A cancelled job was waiting: it has an attempt left for its revival.
CancelInv == \A j \in Jobs : job[j] = "cancelled" => tries[j] < MaxAttempts + retried[j]

\* A worker that is not idle works on the job of the run.
WorkInv == \A w \in Workers : pc[w] # "idle" => cur[w] = J

\* Before the confirmation no job exists and no record is removed.
BeforeInv ==
  /\ job[J] = "absent" <=> status \in {"none", "previewed"}
  /\ status \in {"none", "previewed"} => \A r \in Rows : kept[r] # "gone"

\* The files to clean up are those of records that are gone.
IntentInv == \A r \in intents : HasFile(r) /\ kept[r] = "gone"

\* Rows that were never downloaded are the late ones.
RemoteInv == \A r \in Rows : kept[r] = "remote" => r \in Late

\* What a pass is about to delete belongs to no record any more.
TodoInv ==
  \A w \in Workers : \A r \in Rows :
    Unit[r] \in todo[w] /\ HasFile(r) => kept[r] = "gone"

\* The lease of a worker that finished its pass covers a run that is settled.
CloseInv ==
  \A w \in Workers : pc[w] = "close" /\ Holds(w) => status \notin {"queued", "running"}

IInv == /\ QueueInv /\ TypeOK /\ CancelInv /\ WorkInv /\ BeforeInv /\ IntentInv
        /\ RemoteInv /\ CloseInv /\ EndedJobSettlesRun /\ AttemptsScrubbedTogether

\* Two rows share the content of a row that is downloaded later only where a
\* download and a deletion can meet.
LateAlone == \A r \in Late, s \in Rows : Unit[s] = Unit[r] => s = r

FileInv == TodoInv /\ ClaimedFilesExist

-----------------------------------------------------------------------------
(* Types. *)

LEMMA JobOfRun == J \in Jobs
<1>1. \E j \in Jobs : TRUE
  BY RetentionAssumption
<1> QED
  BY <1>1, Zenon DEF J

\* A confirmation that revives the job resets it like a first one does.
LEMMA RevivalKeepsQueue ==
  ASSUME QueueInv, CancelInv, ReconfirmSkipped \/ ReconfirmCancelled
  PROVE  QueueInv' /\ CancelInv'
<1> USE JobOfRun DEF QueueInv, QueueTypeOK, BudgetInv, OwnerInv, ClaimInv, JobStatuses,
       CancelInv
<1>1. 0 \in 0..(MaxAttempts + MaxRetries) /\ \A j \in Jobs : 0 < MaxAttempts + retried[j]
  BY HandlerRunsAssumption
<1>2. ASSUME ReconfirmSkipped PROVE QueueInv' /\ CancelInv'
  <2>1. /\ job' = [job EXCEPT ![J] = "queued"]
        /\ tries' = [tries EXCEPT ![J] = 0]
        /\ owner' = [owner EXCEPT ![J] = Nobody]
        /\ UNCHANGED <<retried, cur>>
    BY <1>2 DEF ReconfirmSkipped
  <2>2. QueueTypeOK'
    <3>1. job' \in [Jobs -> JobStatuses] /\ UNCHANGED <<retried, cur>>
      BY <2>1
    <3>2. tries' \in [Jobs -> 0..(MaxAttempts + MaxRetries)]
      BY <1>1, <2>1
    <3>3. owner' \in [Jobs -> Workers \cup {Nobody}]
      BY <2>1
    <3> QED
      BY <3>1, <3>2, <3>3
  <2>3. BudgetInv' /\ CancelInv'
    <3>1. /\ \A j \in Jobs : tries'[j] = IF j = J THEN 0 ELSE tries[j]
          /\ \A j \in Jobs : job'[j] = IF j = J THEN "queued" ELSE job[j]
          /\ retried' = retried
      BY <2>1
    <3>2. 0 <= MaxAttempts + retried[J] /\ 0 < MaxAttempts + retried[J]
      BY <1>1, HandlerRunsAssumption
    <3> QED
      BY <3>1, <3>2
  <2>4. OwnerInv' /\ ClaimInv'
    BY <2>1
  <2> QED
    BY <2>2, <2>3, <2>4 DEF QueueInv
<1>3. CASE ReconfirmCancelled
  BY <1>3 DEF ReconfirmCancelled
<1> QED
  BY <1>2, <1>3

\* Every other step is one of the queue.
LEMMA OtherStepsAreQueueSteps ==
  ASSUME [Next]_vars, WorkInv
  PROVE  ReconfirmSkipped \/ ReconfirmCancelled \/ QueueStep
<1> USE JobOfRun DEF Results
<1>1. ASSUME Operator PROVE ReconfirmSkipped \/ ReconfirmCancelled \/ QueueStep
  BY <1>1 DEF Operator, Preview, PreviewExpires, Confirm, ReconfirmOther, Cancel,
     Retry, QueueStep
<1>2. ASSUME NEW w \in Workers, Start(w) \/ Handler(w) \/ Crash(w) PROVE QueueStep
  BY <1>2 DEF Start, Handler, Crash, Refuse, DatabasePhase, DatabaseReplay,
     DatabaseConflict, ReadClaims, ReadSucceeded, ReadConflict, DeleteFile,
     DeleteFails, Finalize, Close, End, QueueStep
<1>3. ASSUME Recover \/ UNCHANGED vars \/
             \E r \in Rows : ChangeRecord(r) \/ Refer(r) \/ Download(r)
      PROVE  QueueStep
  BY <1>3 DEF Recover, ChangeRecord, Refer, Download, vars, QueueStep
<1> QED
  BY <1>1, <1>2, <1>3 DEF Next

LEMMA QueueStepsKeepCancel ==
  ASSUME QueueInv, CancelInv, QueueStep
  PROVE  CancelInv'
<1> USE HandlerRunsAssumption
    DEF QueueInv, QueueTypeOK, BudgetInv, JobStatuses, CancelInv
<1>1. ASSUME NEW j \in Jobs, EnqueueJob(j) \/ EnqueueJobOnce(j) PROVE CancelInv'
  BY <1>1 DEF EnqueueJob, EnqueueJobOnce
<1>2. ASSUME NEW j \in Jobs, RecoverJob(j) \/ RetryJob(j) \/ CancelJob(j)
      PROVE  CancelInv'
  BY <1>2 DEF RecoverJob, RecoveredStatus, RetryJob, CancelJob
<1>3. ASSUME NEW w \in Workers, NEW j \in Jobs, ClaimJob(w, j) PROVE CancelInv'
  BY <1>3 DEF ClaimJob
<1>4. ASSUME NEW w \in Workers, NEW r \in Results, CloseJob(w, r) PROVE CancelInv'
  BY <1>4 DEF CloseJob, Holds, ClosedStatus, Results
<1>5. ASSUME UNCHANGED jobVars PROVE CancelInv'
  BY <1>5 DEF jobVars
<1> QED
  BY <1>1, <1>2, <1>3, <1>4, <1>5 DEF QueueStep, Die, queueVars

\* A job that exists is never taken away.
LEMMA JobStays ==
  ASSUME QueueTypeOK, QueueStep \/ ReconfirmSkipped \/ ReconfirmCancelled,
         NEW j \in Jobs, job[j] # "absent"
  PROVE  job'[j] # "absent"
<1> USE DEF QueueTypeOK, JobStatuses
<1>1. CASE ReconfirmSkipped \/ ReconfirmCancelled
  BY <1>1, JobOfRun DEF ReconfirmSkipped, ReconfirmCancelled
<1>2. ASSUME NEW k \in Jobs, EnqueueJob(k) \/ EnqueueJobOnce(k) \/ RecoverJob(k)
             \/ RetryJob(k) \/ CancelJob(k)
      PROVE  job'[j] # "absent"
  BY <1>2 DEF EnqueueJob, EnqueueJobOnce, RecoverJob, RecoveredStatus, RetryJob, CancelJob
<1>3. ASSUME NEW w \in Workers, NEW k \in Jobs, ClaimJob(w, k) PROVE job'[j] # "absent"
  BY <1>3 DEF ClaimJob
<1>4. ASSUME NEW w \in Workers, NEW r \in Results, CloseJob(w, r)
      PROVE  job'[j] # "absent"
  BY <1>4 DEF CloseJob, Holds, ClosedStatus, Results
<1>5. ASSUME UNCHANGED jobVars PROVE job'[j] # "absent"
  BY <1>5 DEF jobVars
<1> QED
  BY <1>1, <1>2, <1>3, <1>4, <1>5 DEF QueueStep, Die, queueVars

\* The job rows under every step of the run.
LEMMA QueueKept ==
  ASSUME QueueInv, CancelInv, WorkInv, [Next]_vars
  PROVE  QueueInv' /\ CancelInv'
BY OtherStepsAreQueueSteps, RevivalKeepsQueue, QueueKeeps, QueueStepsKeepCancel

\* The status a step of the queue gives the run is one of a run.
LEMMA SettledTyped ==
  status \in RunStatuses => \A s : Settled(s) \in RunStatuses
BY DEF RunStatuses, Settled, Terminal

\* A flag of one row or one handler is set, cleared or turned.
LEMMA FlagSet ==
  ASSUME NEW S, NEW f, f \in [S -> BOOLEAN], NEW x \in S, NEW g,
         g \in {f, [f EXCEPT ![x] = TRUE], [f EXCEPT ![x] = FALSE],
               [f EXCEPT ![x] = ~f[x]]}
  PROVE  g \in [S -> BOOLEAN]
<1>1. f[x] \in BOOLEAN
  OBVIOUS
<1>2. [f EXCEPT ![x] = ~f[x]] \in [S -> BOOLEAN]
  BY <1>1, Zenon
<1>3. /\ [f EXCEPT ![x] = TRUE] \in [S -> BOOLEAN]
      /\ [f EXCEPT ![x] = FALSE] \in [S -> BOOLEAN]
  BY Zenon
<1> QED
  BY <1>2, <1>3, Zenon

LEMMA TypesKept ==
  ASSUME TypeOK, QueueTypeOK', WorkInv, [Next]_vars
  PROVE  TypeOK'
<1> USE RetentionAssumption DEF TypeOK, Units, HasFile
<1>1. ASSUME Operator PROVE TypeOK'
  <2>1. status' \in RunStatuses
    BY <1>1, SettledTyped DEF Operator, Preview, PreviewExpires, Confirm,
       ReconfirmSkipped, ReconfirmCancelled, ReconfirmOther, Cancel, Retry, RunStatuses
  <2>2. Candidates \subseteq Rows \X (0..MaxChanges)
    BY DEF Candidates, Collected
  <2>3. UNCHANGED <<records, intents, touched, locals>>
        /\ cand' \in {cand, Candidates} /\ fresh' \in BOOLEAN /\ started' \in BOOLEAN
        /\ spared' \in {spared, {}}
    BY <1>1 DEF Operator, Preview, PreviewExpires, Confirm,
       ReconfirmSkipped, ReconfirmCancelled, ReconfirmOther, Cancel, Retry
  <2> QED
    BY <2>1, <2>2, <2>3 DEF records, locals
<1>2. ASSUME NEW w \in Workers, Start(w) \/ Crash(w) PROVE TypeOK'
  <2>1. /\ pc' \in {[pc EXCEPT ![w] = "db"], [pc EXCEPT ![w] = "idle"]}
        /\ todo' \in {todo, [todo EXCEPT ![w] = {}]}
        /\ skips' \in {skips, [skips EXCEPT ![w] = {}]}
        /\ bad' \in {bad, [bad EXCEPT ![w] = FALSE]}
        /\ UNCHANGED <<kept, hash, shield, file, run>>
    BY <1>2, Zenon DEF Start, Crash, Forget, records
  <2>2. pc' \in [Workers -> {"idle", "db", "read", "delete", "close"}]
    BY <2>1
  <2>3. todo' \in [Workers -> SUBSET Units] /\ skips' \in [Workers -> SUBSET Units]
    BY <2>1
  <2>4. bad' \in [Workers -> BOOLEAN]
    <3>1. bad \in [Workers -> BOOLEAN]
      OBVIOUS
    <3> HIDE DEF TypeOK
    <3> QED
      BY <2>1, <3>1, FlagSet, SMT
  <2> QED
    BY <2>1, <2>2, <2>3, <2>4 DEF run
<1>3. ASSUME NEW w \in Workers, NEW r, End(w, r) PROVE TypeOK'
  <2>1. status' \in RunStatuses
    BY <1>3, SettledTyped DEF End
  <2> QED
    BY <1>3, <2>1 DEF End, Forget, records
<1>4. ASSUME NEW w \in Workers, DatabasePhase(w) PROVE TypeOK'
  <2>1. Removable \subseteq Rows
    BY DEF Removable, Unchanged
  <2>2. status' \in RunStatuses
    BY <1>4 DEF DatabasePhase, RunStatuses
  <2> QED
    BY <1>4, <2>1, <2>2 DEF DatabasePhase, Scrubbed
<1>5. ASSUME NEW w \in Workers, DatabaseReplay(w) \/ Finalize(w) PROVE TypeOK'
  BY <1>5 DEF DatabaseReplay, Finalize, records, run, RunStatuses
<1>6. ASSUME NEW w \in Workers, ReadClaims(w) PROVE TypeOK'
  <2>1. IntentUnits \ Reclaimed \subseteq Units /\ Reclaimed \subseteq Units
    BY DEF IntentUnits, Reclaimed
  <2> QED
    BY <1>6, <2>1 DEF ReadClaims, records, run
<1>7. ASSUME NEW w \in Workers, DeleteFile(w) \/ DeleteFails(w) PROVE TypeOK'
  <2>1. PICK u \in todo[w] :
          /\ todo' = [todo EXCEPT ![w] = @ \ {u}]
          /\ file' \in {file, file \ {u}}
          /\ bad' \in {bad, [bad EXCEPT ![w] = TRUE]}
    BY <1>7 DEF DeleteFile, DeleteFails, records
  <2>2. UNCHANGED <<kept, hash, shield, run, pc, skips>>
    BY <1>7 DEF DeleteFile, DeleteFails, records
  <2>3. bad' \in [Workers -> BOOLEAN]
    <3>1. bad \in [Workers -> BOOLEAN]
      OBVIOUS
    <3> HIDE DEF TypeOK
    <3> QED
      BY <2>1, <3>1, FlagSet, SMT
  <2>4. todo' \in [Workers -> SUBSET Units] /\ file' \subseteq Units
    BY <2>1
  <2> QED
    BY <2>2, <2>3, <2>4 DEF run
<1>8. ASSUME NEW r \in Rows, ChangeRecord(r) \/ Refer(r) \/ Download(r) PROVE TypeOK'
  <2>1. shield' \in [Rows -> BOOLEAN]
    <3>1. shield' \in {shield, [shield EXCEPT ![r] = ~shield[r]]}
      BY <1>8, Zenon DEF ChangeRecord, Refer, Download
    <3>2. shield \in [Rows -> BOOLEAN]
      OBVIOUS
    <3> HIDE DEF TypeOK
    <3> QED
      BY <3>1, <3>2, FlagSet, SMT
  <2> QED
    BY <1>8, <2>1 DEF ChangeRecord, Refer, Download, run, locals
<1>9. ASSUME Recover \/ UNCHANGED vars PROVE TypeOK'
  BY <1>9, SettledTyped DEF Recover, vars, records, run, locals
<1> QED
  BY <1>1, <1>2, <1>3, <1>4, <1>5, <1>6, <1>7, <1>8, <1>9
  DEF Next, Handler, Refuse, DatabaseConflict, ReadSucceeded, ReadConflict, Close

LEMMA WorkKept ==
  ASSUME TypeOK, WorkInv, [Next]_vars
  PROVE  WorkInv'
<1> USE DEF WorkInv, TypeOK, QueueTypeOK
<1>1. ASSUME Operator \/ Recover \/ UNCHANGED vars PROVE WorkInv'
  BY <1>1 DEF Operator, Preview, PreviewExpires, Confirm, ReconfirmSkipped,
     ReconfirmCancelled, ReconfirmOther, Cancel, Retry, Recover, vars, locals,
     queueVars, EnqueueJob, CancelJob, RetryJob, RecoverJob
<1>2. ASSUME NEW w \in Workers, Start(w) \/ Crash(w) PROVE WorkInv'
  BY <1>2, JobOfRun DEF Start, Crash, Forget, ClaimJob, Die
<1>3. ASSUME NEW w \in Workers, NEW r, End(w, r) PROVE WorkInv'
  BY <1>3 DEF End, Forget, CloseJob
<1>4. ASSUME NEW w \in Workers, DatabasePhase(w) \/ DatabaseReplay(w) \/ ReadClaims(w)
             \/ DeleteFile(w) \/ DeleteFails(w) \/ Finalize(w)
      PROVE  WorkInv'
  BY <1>4 DEF DatabasePhase, DatabaseReplay, ReadClaims, DeleteFile, DeleteFails,
     Finalize, queueVars
<1>5. ASSUME NEW r \in Rows, ChangeRecord(r) \/ Refer(r) \/ Download(r) PROVE WorkInv'
  BY <1>5 DEF ChangeRecord, Refer, Download, locals, queueVars
<1> QED
  BY <1>1, <1>2, <1>3, <1>4, <1>5
  DEF Next, Handler, Refuse, DatabaseConflict, ReadSucceeded, ReadConflict, Close

-----------------------------------------------------------------------------
(* What the steps do to the records, the intents and the status. *)

\* A record is downloaded, or removed by the database phase of a queued run.
LEMMA RecordsMove ==
  ASSUME TypeOK, [Next]_vars, NEW r \in Rows
  PROVE  \/ kept'[r] = kept[r]
         \/ kept[r] = "remote" /\ kept'[r] = "kept" /\ Unit[r] \in file'
         \/ /\ kept[r] # "remote" /\ kept'[r] = "gone" /\ r \in Removable
            /\ status = "queued" /\ status' = "running" /\ kept' = Scrubbed
<1> USE DEF TypeOK
<1>1. ASSUME Operator \/ Recover \/ UNCHANGED vars PROVE kept' = kept
  BY <1>1 DEF Operator, Preview, PreviewExpires, Confirm, ReconfirmSkipped,
     ReconfirmCancelled, ReconfirmOther, Cancel, Retry, Recover, vars, records
<1>2. ASSUME NEW w \in Workers, NEW x, End(w, x) PROVE kept' = kept
  BY <1>2 DEF End, records
<1>3. ASSUME NEW w \in Workers, Start(w) \/ Crash(w) \/ DatabaseReplay(w)
             \/ ReadClaims(w) \/ DeleteFile(w) \/ DeleteFails(w) \/ Finalize(w)
      PROVE  kept' = kept
  BY <1>3 DEF Start, Crash, DatabaseReplay, ReadClaims, DeleteFile, DeleteFails,
     Finalize, records
<1>4. ASSUME NEW w \in Workers, DatabasePhase(w)
      PROVE  kept'[r] = kept[r] \/ /\ kept[r] # "remote" /\ kept'[r] = "gone"
                                   /\ r \in Removable
                                   /\ status = "queued" /\ status' = "running"
                                   /\ kept' = Scrubbed
  BY <1>4 DEF DatabasePhase, Scrubbed, Removable, Unchanged, Candidates, Collected,
     Eligible
<1>5. ASSUME NEW s \in Rows, ChangeRecord(s) \/ Refer(s) \/ Download(s)
      PROVE  kept'[r] = kept[r] \/ /\ kept[r] = "remote" /\ kept'[r] = "kept"
                                   /\ Unit[r] \in file'
  BY <1>5 DEF ChangeRecord, Refer, Download
<1> QED
  BY <1>1, <1>2, <1>3, <1>4, <1>5
  DEF Next, Handler, Refuse, DatabaseConflict, ReadSucceeded, ReadConflict, Close

\* A candidate that is unchanged is kept, and nothing refers to it.
LEMMA RemovableIsConfirmed ==
  ASSUME NEW r \in Removable
  PROVE  r \in Rows /\ kept[r] = "kept" /\ ~shield[r] /\ <<r, hash[r]>> \in cand
BY DEF Removable, Unchanged, Candidates, Collected, Eligible

\* Every status but the first two belongs to a job that exists.
LEMMA BeforeKept ==
  ASSUME QueueInv, TypeOK, WorkInv, BeforeInv, [Next]_vars
  PROVE  BeforeInv'
<1> USE JobOfRun DEF BeforeInv
<1>1. job'[J] = "absent" <=> status' \in {"none", "previewed"}
  <2> USE DEF TypeOK, QueueTypeOK, RunStatuses, JobStatuses
  <2>1. CASE Operator
    BY <2>1 DEF Operator, Preview, PreviewExpires, Confirm, ReconfirmSkipped,
       ReconfirmCancelled, ReconfirmOther, Cancel, Retry, queueVars, jobVars,
       EnqueueJob, CancelJob, RetryJob, Settled, Terminal
  <2>2. CASE Recover
    BY <2>2 DEF Recover, RecoverJob, RecoveredStatus, Settled, Terminal
  <2>3. ASSUME NEW w \in Workers, Start(w)
        PROVE  job'[J] = "absent" <=> status' \in {"none", "previewed"}
    BY <2>3 DEF Start, ClaimJob, run
  <2>4. ASSUME NEW w \in Workers, NEW x, pc[w] # "idle", End(w, x)
        PROVE  job'[J] = "absent" <=> status' \in {"none", "previewed"}
    <3>1. cur[w] = J /\ job[J] # "absent"
      BY <2>4 DEF WorkInv, ClaimInv, QueueInv, CloseJob, End
    <3>2. status' \notin {"none", "previewed"}
      <4>1. \A x0 : Settled(x0) \notin {"none", "previewed"}
        BY <3>1 DEF Settled, Terminal
      <4> QED
        BY <2>4, <3>1, <4>1 DEF End
    <3>3. job'[J] # "absent"
      BY <2>4, <3>1 DEF End, CloseJob, Holds, ClosedStatus
    <3> QED
      BY <3>2, <3>3
  <2>5. ASSUME NEW w \in Workers, DatabasePhase(w) \/ DatabaseReplay(w)
               \/ ReadClaims(w) \/ DeleteFile(w) \/ DeleteFails(w) \/ Finalize(w)
               \/ Crash(w)
        PROVE  job'[J] = "absent" <=> status' \in {"none", "previewed"}
    <3>1. UNCHANGED job /\ pc[w] # "idle"
      BY <2>5 DEF DatabasePhase, DatabaseReplay, ReadClaims, DeleteFile, DeleteFails,
         Finalize, Crash, Die, queueVars, jobVars
    <3>2. job[J] # "absent"
      BY <3>1, HandlerRunsAssumption DEF WorkInv, ClaimInv, QueueInv
    <3>3. status' = status \/ status' \in {"running", "partial", "succeeded"}
      BY <2>5 DEF DatabasePhase, DatabaseReplay, ReadClaims, DeleteFile, DeleteFails,
         Finalize, Crash, run
    <3> QED
      BY <3>1, <3>2, <3>3
  <2>6. ASSUME UNCHANGED vars \/
               \E r \in Rows : ChangeRecord(r) \/ Refer(r) \/ Download(r)
        PROVE  job'[J] = "absent" <=> status' \in {"none", "previewed"}
    BY <2>6 DEF vars, ChangeRecord, Refer, Download, run, queueVars, jobVars
  <2> QED
    BY <2>1, <2>2, <2>3, <2>4, <2>5, <2>6
    DEF Next, Handler, Refuse, DatabaseConflict, ReadSucceeded, ReadConflict, Close
<1>2. ASSUME status' \in {"none", "previewed"}, NEW r \in Rows
      PROVE  kept'[r] # "gone"
  <2>1. job[J] = "absent"
    BY <1>1, <1>2, OtherStepsAreQueueSteps, JobStays DEF QueueInv
  <2> QED
    BY <1>2, <2>1, RecordsMove
<1> QED
  BY <1>1, <1>2

\* Removing a record and noting its file is one step; a removed record stays so.
LEMMA IntentsKept ==
  ASSUME TypeOK, IntentInv, [Next]_vars
  PROVE  IntentInv'
<1>1. ASSUME NEW r \in intents' PROVE r \in intents \/ (HasFile(r) /\ kept'[r] = "gone")
  <2> USE DEF TypeOK
  <2>1. ASSUME NEW w \in Workers, DatabasePhase(w)
        PROVE  r \in intents \/ (HasFile(r) /\ kept'[r] = "gone")
    BY <1>1, <2>1, RemovableIsConfirmed DEF DatabasePhase, Scrubbed
  <2>2. ASSUME NEW w \in Workers, NEW x, End(w, x) PROVE intents' = intents
    BY <2>2 DEF End
  <2>3. ASSUME NEW w \in Workers, Start(w) \/ Crash(w) \/ DatabaseReplay(w)
               \/ ReadClaims(w) \/ DeleteFile(w) \/ DeleteFails(w) \/ Finalize(w)
        PROVE  intents' = intents
    BY <2>3 DEF Start, Crash, DatabaseReplay, ReadClaims, DeleteFile, DeleteFails,
       Finalize, run
  <2>4. ASSUME Operator \/ Recover \/ UNCHANGED vars \/
               \E s \in Rows : ChangeRecord(s) \/ Refer(s) \/ Download(s)
        PROVE  intents' = intents
    BY <2>4 DEF Operator, Preview, PreviewExpires, Confirm, ReconfirmSkipped,
       ReconfirmCancelled, ReconfirmOther, Cancel, Retry, Recover, vars, run,
       ChangeRecord, Refer, Download
  <2> QED
    BY <1>1, <2>1, <2>2, <2>3, <2>4
    DEF Next, Handler, Refuse, DatabaseConflict, ReadSucceeded, ReadConflict, Close
<1>2. intents \subseteq Rows
  BY DEF TypeOK
<1> QED
  BY <1>1, <1>2, RecordsMove DEF IntentInv

LEMMA RemoteKept ==
  ASSUME TypeOK, RemoteInv, [Next]_vars
  PROVE  RemoteInv'
BY RecordsMove DEF RemoteInv

\* A worker that lost its lease, or whose job is over, does not close it.
LEMMA CloseKept ==
  ASSUME TypeOK, WorkInv, CloseInv, [Next]_vars
  PROVE  CloseInv'
<1> SUFFICES ASSUME NEW v \in Workers, (pc[v] = "close" /\ Holds(v))'
             PROVE  status' \notin {"queued", "running"}
  BY DEF CloseInv
<1>0. cur'[v] # NoJob /\ job'[cur'[v]] = "running" /\ owner'[cur'[v]] = v
  BY DEF Holds
<1> USE JobOfRun DEF TypeOK, QueueTypeOK, RunStatuses, JobStatuses, Holds, CloseInv
<1>1. CASE Operator
  BY <1>0, <1>1 DEF Operator, Preview, PreviewExpires, Confirm, ReconfirmSkipped,
     ReconfirmCancelled, ReconfirmOther, Cancel, Retry, queueVars, jobVars, locals,
     EnqueueJob, CancelJob, RetryJob, WorkInv
<1>2. CASE Recover
  BY <1>0, <1>2 DEF Recover, RecoverJob, RecoveredStatus, WorkInv, locals
<1>3. ASSUME NEW w \in Workers, Start(w)
      PROVE  status' \notin {"queued", "running"}
  BY <1>0, <1>3 DEF Start, ClaimJob, run
<1>4. ASSUME NEW w \in Workers, NEW x, pc[w] # "idle", End(w, x)
      PROVE  status' \notin {"queued", "running"}
  BY <1>0, <1>4 DEF End, CloseJob, WorkInv, ClosedStatus, Forget
<1>5. ASSUME NEW w \in Workers, DatabasePhase(w) \/ DatabaseReplay(w)
             \/ ReadClaims(w) \/ DeleteFile(w) \/ DeleteFails(w) \/ Finalize(w)
             \/ Crash(w)
      PROVE  status' \notin {"queued", "running"}
  BY <1>0, <1>5 DEF DatabasePhase, DatabaseReplay, ReadClaims, DeleteFile, DeleteFails,
     Finalize, Crash, Die, Forget, run, queueVars, jobVars
<1>6. ASSUME UNCHANGED vars \/
             \E r \in Rows : ChangeRecord(r) \/ Refer(r) \/ Download(r)
      PROVE  status' \notin {"queued", "running"}
  BY <1>0, <1>6 DEF vars, ChangeRecord, Refer, Download, run, queueVars, jobVars, locals
<1> QED
  BY <1>1, <1>2, <1>3, <1>4, <1>5, <1>6
  DEF Next, Handler, Refuse, DatabaseConflict, ReadSucceeded, ReadConflict, Close

\* The step that ends the job settles the run, and nobody takes it up again
\* without the job.
LEMMA EndedKept ==
  ASSUME QueueInv, TypeOK, WorkInv, BeforeInv, CloseInv, EndedJobSettlesRun, [Next]_vars
  PROVE  EndedJobSettlesRun'
<1> SUFFICES ASSUME job'[J] \in Over
             PROVE  status' \notin {"queued", "running"}
  BY DEF EndedJobSettlesRun
<1> USE JobOfRun DEF TypeOK, QueueTypeOK, RunStatuses, JobStatuses, Over, EndedJobSettlesRun
<1>1. CASE Operator
  BY <1>1 DEF Operator, Preview, PreviewExpires, Confirm, ReconfirmSkipped,
     ReconfirmCancelled, ReconfirmOther, Cancel, Retry, queueVars, jobVars,
     EnqueueJob, CancelJob, RetryJob, Settled, Terminal
<1>2. CASE Recover
  BY <1>2 DEF Recover, RecoverJob, RecoveredStatus, Settled, Terminal
<1>3. ASSUME NEW w \in Workers, Start(w)
      PROVE  status' \notin {"queued", "running"}
  BY <1>3 DEF Start, ClaimJob, run
<1>4. ASSUME NEW w \in Workers, NEW x \in Results, pc[w] # "idle", End(w, x),
             x = "succeeded" /\ Holds(w) => status \notin {"queued", "running"}
      PROVE  status' \notin {"queued", "running"}
  BY <1>4 DEF End, CloseJob, WorkInv, ClosedStatus, Holds, Settled, Terminal, Results
<1>5. ASSUME NEW w \in Workers, DatabasePhase(w) \/ DatabaseReplay(w)
             \/ ReadClaims(w) \/ DeleteFile(w) \/ DeleteFails(w) \/ Finalize(w)
             \/ Crash(w)
      PROVE  status' \notin {"queued", "running"}
  BY <1>5 DEF DatabasePhase, DatabaseReplay, ReadClaims, DeleteFile, DeleteFails,
     Finalize, Crash, Die, run, queueVars, jobVars
<1>6. ASSUME UNCHANGED vars \/
             \E r \in Rows : ChangeRecord(r) \/ Refer(r) \/ Download(r)
      PROVE  status' \notin {"queued", "running"}
  BY <1>6 DEF vars, ChangeRecord, Refer, Download, run, queueVars, jobVars
<1>7. ASSUME NEW w \in Workers, Refuse(w) \/ DatabaseConflict(w) \/ ReadConflict(w)
      PROVE  status' \notin {"queued", "running"}
  BY <1>7, <1>4 DEF Refuse, DatabaseConflict, ReadConflict, Results
<1>8. ASSUME NEW w \in Workers, ReadSucceeded(w)
      PROVE  status' \notin {"queued", "running"}
  BY <1>8, <1>4 DEF ReadSucceeded, Results
<1>9. ASSUME NEW w \in Workers, Close(w)
      PROVE  status' \notin {"queued", "running"}
  BY <1>9, <1>4 DEF Close, CloseInv, Results
<1> QED
  BY <1>1, <1>2, <1>3, <1>5, <1>6, <1>7, <1>8, <1>9 DEF Next, Handler

\* The snapshot of a run that has a job does not change.
LEMMA SnapshotKept ==
  ASSUME [Next]_vars
  PROVE  cand' = cand \/ status' \in {"none", "previewed"}
<1>1. ASSUME NEW w \in Workers, NEW x, End(w, x) PROVE cand' = cand
  BY <1>1 DEF End
<1>2. ASSUME NEW w \in Workers, Start(w) \/ Crash(w) \/ DatabasePhase(w)
             \/ DatabaseReplay(w) \/ ReadClaims(w) \/ DeleteFile(w) \/ DeleteFails(w)
             \/ Finalize(w)
      PROVE  cand' = cand
  BY <1>2 DEF Start, Crash, DatabasePhase, DatabaseReplay, ReadClaims, DeleteFile,
     DeleteFails, Finalize, run
<1>3. ASSUME Operator \/ Recover \/ UNCHANGED vars \/
             \E s \in Rows : ChangeRecord(s) \/ Refer(s) \/ Download(s)
      PROVE  cand' = cand \/ status' \in {"none", "previewed"}
  BY <1>3 DEF Operator, Preview, PreviewExpires, Confirm, ReconfirmSkipped,
     ReconfirmCancelled, ReconfirmOther, Cancel, Retry, Recover, vars, run,
     ChangeRecord, Refer, Download
<1> QED
  BY <1>1, <1>2, <1>3
  DEF Next, Handler, Refuse, DatabaseConflict, ReadSucceeded, ReadConflict, Close

\* The database phase takes candidates with one generation run together.
LEMMA SiblingsRemovedTogether ==
  ASSUME NEW r \in Rows, NEW s \in Siblings(r), Kind[r] = "scrub",
         \E c \in cand : c[1] = s, r \in Removable
  PROVE  s \in Removable
<1>1. s \in Rows /\ Kind[s] = "scrub" /\ Siblings(s) = Siblings(r)
  BY RetentionAssumption DEF Siblings
<1>2. \A t \in Siblings(r) : (\E c \in cand : c[1] = t) => t \in Unchanged
  BY DEF Removable, UnitIntact
<1> QED
  BY <1>1, <1>2 DEF Removable, UnitIntact

\* A step takes a record away, or its content stays as it is.
LEMMA ScrubsKept ==
  ASSUME TypeOK, QueueInv, WorkInv, BeforeInv, BeforeInv', RemoteInv,
         AttemptsScrubbedTogether, [Next]_vars
  PROVE  AttemptsScrubbedTogether'
<1> SUFFICES ASSUME NEW r \in Rows, NEW s \in Siblings(r), Kind[r] = "scrub",
                    {r, s} \subseteq {c[1] : c \in cand'}
             PROVE  kept'[r] = "gone" <=> kept'[s] = "gone"
  BY DEF AttemptsScrubbedTogether, Siblings
<1>1. s \in Rows /\ r \in Siblings(s) /\ Kind[s] = "scrub"
  BY RetentionAssumption DEF Siblings
<1>2. CASE status' \in {"none", "previewed"}
  BY <1>1, <1>2 DEF BeforeInv
<1>3. CASE status' \notin {"none", "previewed"}
  <2>1. cand' = cand
    BY <1>3, SnapshotKept
  <2>2. (\E c \in cand : c[1] = s) /\ (\E c \in cand : c[1] = r)
    BY <2>1
  <2>3. r \in Removable <=> s \in Removable
    BY <1>1, <2>2, SiblingsRemovedTogether
  <2>4. kept[r] = "gone" <=> kept[s] = "gone"
    BY <2>1 DEF AttemptsScrubbedTogether
  <2>5. kept[r] # "remote" /\ kept[s] # "remote"
    BY <1>1, RetentionAssumption DEF RemoteInv
  <2>6. CASE kept' = Scrubbed
    BY <1>1, <2>3, <2>4, <2>6 DEF Scrubbed
  <2>7. CASE kept' # Scrubbed
    BY <1>1, <2>4, <2>5, <2>7, RecordsMove
  <2> QED
    BY <2>6, <2>7
<1> QED
  BY <1>2, <1>3

-----------------------------------------------------------------------------
(* Theorems. *)

LEMMA Starts == Init => IInv
<1> SUFFICES ASSUME Init PROVE IInv
  OBVIOUS
<1> USE DEF Init
<1>1. QueueInv
  BY QueueStarts
<1>2. TypeOK
  <2>1. /\ kept \in [Rows -> {"kept", "gone", "remote"}]
        /\ hash \in [Rows -> 0..MaxChanges]
    BY RetentionAssumption
  <2>2. file \subseteq Units /\ shield \in [Rows -> BOOLEAN]
    BY DEF Units
  <2>3. /\ pc \in [Workers -> {"idle", "db", "read", "delete", "close"}]
        /\ todo \in [Workers -> SUBSET Units]
        /\ skips \in [Workers -> SUBSET Units]
        /\ bad \in [Workers -> BOOLEAN]
    OBVIOUS
  <2> QED
    BY <1>1, <2>1, <2>2, <2>3 DEF TypeOK, QueueInv, RunStatuses
<1>3. CancelInv /\ WorkInv /\ BeforeInv /\ IntentInv /\ RemoteInv
  BY JobOfRun DEF QueueInit, CancelInv, WorkInv, BeforeInv, IntentInv, RemoteInv
<1>4. CloseInv /\ EndedJobSettlesRun /\ AttemptsScrubbedTogether
  BY JobOfRun DEF QueueInit, CloseInv, EndedJobSettlesRun, AttemptsScrubbedTogether, Over
<1> QED
  BY <1>1, <1>2, <1>3, <1>4 DEF IInv

LEMMA Inductive == IInv /\ [Next]_vars => IInv'
<1> SUFFICES ASSUME IInv, [Next]_vars PROVE IInv'
  OBVIOUS
<1> USE DEF IInv
<1>1. QueueInv' /\ CancelInv'
  BY QueueKept
<1>2. TypeOK' /\ WorkInv'
  BY <1>1, TypesKept, WorkKept DEF QueueInv
<1>3. BeforeInv' /\ IntentInv' /\ RemoteInv'
  BY BeforeKept, IntentsKept, RemoteKept
<1>4. CloseInv' /\ EndedJobSettlesRun' /\ AttemptsScrubbedTogether'
  BY <1>3, CloseKept, EndedKept, ScrubsKept
<1> QED
  BY <1>1, <1>2, <1>3, <1>4

LEMMA Invariant == Spec => []IInv
BY Starts, Inductive, PTL DEF Spec

\* The variables keep their types for every set of records and workers.
THEOREM TypeCorrect == Spec => []TypeOK
<1>1. IInv => TypeOK
  BY DEF IInv
<1> QED
  BY <1>1, Invariant, PTL

\* Whatever happens between preview, confirmation and execution, and however
\* often the job is replayed, a record loses its data only while nothing
\* refers to it, in the state the confirmed preview showed.
THEOREM OnlyConfirmedRemoved == Spec => [][RemovesConfirmed]_vars
<1>1. IInv /\ [Next]_vars => [RemovesConfirmed]_vars
  <2> SUFFICES ASSUME IInv, [Next]_vars, NEW r \in Rows,
                      kept[r] = "kept", kept'[r] = "gone"
               PROVE  ~shield[r] /\ <<r, hash[r]>> \in cand /\ job[J] # "absent"
    BY DEF RemovesConfirmed
  <2>1. r \in Removable /\ status = "queued"
    BY RecordsMove DEF IInv
  <2> QED
    BY <2>1, RemovableIsConfirmed DEF IInv, BeforeInv
<1> QED
  BY <1>1, Invariant, PTL DEF Spec

\* The attempts of one generation run share its payload: those the preview
\* named are scrubbed together or not at all.
THEOREM ScrubbedTogether == Spec => []AttemptsScrubbedTogether
<1>1. IInv => AttemptsScrubbedTogether
  BY DEF IInv
<1> QED
  BY <1>1, Invariant, PTL

\* When the job of a run is over nobody waits for the run.
THEOREM RunSettled == Spec => []EndedJobSettlesRun
<1>1. IInv => EndedJobSettlesRun
  BY DEF IInv
<1> QED
  BY <1>1, Invariant, PTL

-----------------------------------------------------------------------------
(* The files of the records that are kept. *)

\* A pass deletes what nobody claimed when it looked.  Between the look and the
\* deletion a row can only be removed, unless it was never downloaded.
LEMMA TodoKept ==
  ASSUME LateAlone, IInv, TodoInv, [Next]_vars
  PROVE  TodoInv'
<1> SUFFICES ASSUME NEW w \in Workers, NEW r \in Rows, Unit[r] \in todo'[w], HasFile(r)
             PROVE  kept'[r] = "gone"
  BY DEF TodoInv, HasFile
<1> USE DEF TypeOK
<1>1. ASSUME NEW v \in Workers, ReadClaims(v), v = w PROVE kept[r] = "gone"
  <2>1. Unit[r] \in IntentUnits \ Reclaimed
    BY <1>1 DEF ReadClaims, IInv
  <2>2. PICK s \in intents : Unit[s] = Unit[r]
    BY <2>1 DEF IntentUnits
  <2>3. s \in Rows /\ kept[s] = "gone" /\ Kind[s] = Kind[r]
        /\ (Kind[r] = "export" => r = s)
    BY <2>2, RetentionAssumption DEF IntentInv, IInv
  <2>4. Kind[r] = "media" => kept[r] # "kept"
    BY <2>1 DEF Reclaimed, Claimants
  <2>5. kept[r] # "remote"
    BY <2>2, <2>3 DEF RemoteInv, LateAlone, IInv
  <2> QED
    BY <2>3, <2>4, <2>5 DEF HasFile, IInv
<1>2. Unit[r] \in todo[w] \/ \E v \in Workers : ReadClaims(v) /\ v = w
  <2>1. ASSUME NEW v \in Workers, NEW x, End(v, x) PROVE Unit[r] \in todo[w]
    BY <2>1 DEF End, Forget, IInv
  <2>2. ASSUME NEW v \in Workers, Start(v) \/ Crash(v) \/ DatabasePhase(v)
               \/ DatabaseReplay(v) \/ DeleteFile(v) \/ DeleteFails(v) \/ Finalize(v)
        PROVE  Unit[r] \in todo[w]
    BY <2>2 DEF Start, Crash, Forget, DatabasePhase, DatabaseReplay, DeleteFile,
       DeleteFails, Finalize, IInv
  <2>3. ASSUME NEW v \in Workers, ReadClaims(v), v # w PROVE Unit[r] \in todo[w]
    BY <2>3 DEF ReadClaims, IInv
  <2>4. ASSUME Operator \/ Recover \/ UNCHANGED vars \/
               \E s \in Rows : ChangeRecord(s) \/ Refer(s) \/ Download(s)
        PROVE  Unit[r] \in todo[w]
    BY <2>4 DEF Operator, Preview, PreviewExpires, Confirm, ReconfirmSkipped,
       ReconfirmCancelled, ReconfirmOther, Cancel, Retry, Recover, vars, locals,
       ChangeRecord, Refer, Download
  <2> QED
    BY <2>1, <2>2, <2>3, <2>4
    DEF Next, Handler, Refuse, DatabaseConflict, ReadSucceeded, ReadConflict, Close
<1>3. kept[r] = "gone"
  BY <1>1, <1>2 DEF TodoInv
<1> QED
  BY <1>3, RecordsMove DEF IInv

\* A file that goes belongs to no record that is kept.
LEMMA FilesKept ==
  ASSUME IInv, TodoInv, ClaimedFilesExist, [Next]_vars
  PROVE  ClaimedFilesExist'
<1> SUFFICES ASSUME NEW r \in Rows, kept'[r] = "kept", HasFile(r)
             PROVE  Unit[r] \in file'
  BY DEF ClaimedFilesExist, HasFile
<1>1. CASE kept[r] = "remote"
  BY <1>1, RecordsMove DEF IInv
<1>2. CASE kept[r] = "kept"
  <2>1. Unit[r] \in file
    BY <1>2 DEF ClaimedFilesExist
  <2>2. \A w \in Workers : Unit[r] \notin todo[w]
    BY <1>2 DEF TodoInv
  <2>3. ASSUME NEW w \in Workers, DeleteFile(w) PROVE Unit[r] \in file'
    BY <2>1, <2>2, <2>3 DEF DeleteFile
  <2>4. ASSUME NEW w \in Workers, NEW x, End(w, x) PROVE file' = file
    BY <2>4 DEF End, records
  <2>5. ASSUME NEW w \in Workers, Start(w) \/ Crash(w) \/ DatabasePhase(w)
               \/ DatabaseReplay(w) \/ ReadClaims(w) \/ DeleteFails(w) \/ Finalize(w)
        PROVE  file' = file
    BY <2>5 DEF Start, Crash, DatabasePhase, DatabaseReplay, ReadClaims, DeleteFails,
       Finalize, records
  <2>6. ASSUME Operator \/ Recover \/ UNCHANGED vars \/
               \E s \in Rows : ChangeRecord(s) \/ Refer(s) \/ Download(s)
        PROVE  file \subseteq file'
    BY <2>6 DEF Operator, Preview, PreviewExpires, Confirm, ReconfirmSkipped,
       ReconfirmCancelled, ReconfirmOther, Cancel, Retry, Recover, vars, records,
       ChangeRecord, Refer, Download
  <2> QED
    BY <2>1, <2>3, <2>4, <2>5, <2>6
    DEF Next, Handler, Refuse, DatabaseConflict, ReadSucceeded, ReadConflict, Close
<1> QED
  BY <1>1, <1>2, RecordsMove DEF IInv, TypeOK

\* A stored row finds its file on disk, also where rows share a file and only
\* some of them were candidates, and however many workers delete.  Where a row
\* downloads the content another one is losing it may not (the run
\* RetentionWindow): the hypothesis leaves out that meeting and nothing else.
THEOREM FilesOfKeptRecords == LateAlone => (Spec => []ClaimedFilesExist)
<1> SUFFICES ASSUME LateAlone PROVE Spec => []ClaimedFilesExist
  OBVIOUS
<1>1. Init => FileInv
  BY DEF Init, FileInv, TodoInv, ClaimedFilesExist
<1>2. IInv /\ FileInv /\ [Next]_vars => FileInv'
  BY TodoKept, FilesKept DEF FileInv
<1>3. FileInv => ClaimedFilesExist
  BY DEF FileInv
<1> QED
  BY <1>1, <1>2, <1>3, Invariant, PTL DEF Spec

-----------------------------------------------------------------------------
(* The exports of a pack (Exports), which retention expires: the row first,  *)
(* the directory after.  BuildsInv is inductive.                             *)

CONSTANTS Platforms, MaxRevision, MaxGenerations, Disturbances
VARIABLES newest, approved, media, target, result
Builds == INSTANCE Exports

\* What has a result has succeeded; nobody works on what has expired, and who is
\* about to succeed has seen the directory in its place.
BuildsInv ==
  /\ QueueInv /\ Builds!TypeOK
  /\ \A w \in Workers : pc[w] # "idle" => cur[w] # NoJob
  /\ \A j \in Jobs : result[j] # "none" => job[j] = "succeeded"
  /\ \A j \in Jobs : result[j] = "expired" => \A w \in Workers : cur[w] # j
  /\ \A w \in Workers : pc[w] = "succeeded" => target[cur[w]] = "exact"
  /\ Builds!DownloadsWork /\ Builds!OneLiveGeneration

BuildSteps == {"idle", "select", "target", "write", "rename"} \cup Results

\* The parts of the invariant that are about rows and directories alone.
LEMMA BuildsTyped ==
  ASSUME BuildsInv
  PROVE  /\ newest \in [Platforms -> 0..MaxRevision]
         /\ approved \in [Platforms -> SUBSET (1..MaxRevision)] /\ media \in BOOLEAN
         /\ target \in [Jobs -> {"absent", "exact", "removing"}]
         /\ result \in [Jobs -> {"none", "complete", "expired"}]
         /\ pc \in [Workers -> BuildSteps]
         /\ cur \in [Workers -> Jobs \cup {NoJob}] /\ job \in [Jobs -> JobStatuses]
         /\ Builds!QueueTypeOK
BY DEF BuildsInv, Builds!TypeOK, BuildSteps, Results, Builds!Results, QueueInv, QueueTypeOK

LEMMA SameQueueTypes == QueueTypeOK => Builds!QueueTypeOK
BY DEF QueueTypeOK, Builds!QueueTypeOK, JobStatuses, Builds!JobStatuses

LEMMA BuildsStart ==
  ASSUME Builds!ExportsAssumption, Builds!Init PROVE BuildsInv
<1>1. QueueInit
  BY DEF Builds!Init, Builds!QueueInit, QueueInit
<1>2. QueueInv /\ Builds!QueueTypeOK
  BY <1>1, QueueStarts, SameQueueTypes DEF QueueInv
<1>3. /\ newest = [p \in Platforms |-> 0] /\ approved = [p \in Platforms |-> {}]
      /\ media = TRUE /\ target = [j \in Jobs |-> "absent"]
      /\ result = [j \in Jobs |-> "none"] /\ pc = [w \in Workers |-> "idle"]
      /\ job = [j \in Jobs |-> "absent"]
  BY <1>1 DEF Builds!Init, QueueInit
<1>4. MaxRevision \in Nat
  BY DEF Builds!ExportsAssumption
<1>5. Builds!TypeOK
  BY <1>2, <1>3, <1>4 DEF Builds!TypeOK
<1>6. Builds!DownloadsWork /\ Builds!OneLiveGeneration
  BY <1>3 DEF Builds!DownloadsWork, Builds!OneLiveGeneration
<1> QED
  BY <1>2, <1>3, <1>5, <1>6 DEF BuildsInv

\* No step takes a succeeded job up again, or makes a job absent; a worker takes
\* up only a queued one.
LEMMA SucceededStays ==
  ASSUME QueueInv, QueueStep
  PROVE  /\ QueueInv'
         /\ \A j \in Jobs : job[j] = "succeeded" => job'[j] = "succeeded"
         /\ \A w \in Workers : cur'[w] = cur[w] \/ cur'[w] = NoJob \/ job[cur'[w]] = "queued"
<1>1. QueueInv' /\ cur \in [Workers -> Jobs \cup {NoJob}] /\ job \in [Jobs -> JobStatuses]
  BY QueueKeeps DEF QueueInv, QueueTypeOK
<1>2. CASE \E j \in Jobs : \/ EnqueueJob(j) \/ EnqueueJobOnce(j)
                           \/ RecoverJob(j) \/ RetryJob(j) \/ CancelJob(j)
  BY <1>1, <1>2 DEF EnqueueJob, EnqueueJobOnce, RecoverJob, RetryJob, CancelJob
<1>3. CASE \E w \in Workers, j \in Jobs : ClaimJob(w, j)
  BY <1>1, <1>3 DEF ClaimJob
<1>4. CASE \E w \in Workers : \E r \in Results : CloseJob(w, r)
  BY <1>1, <1>4 DEF CloseJob, Holds
<1>5. CASE (\E w \in Workers : Die(w)) \/ UNCHANGED queueVars
  BY <1>1, <1>5 DEF Die, jobVars, queueVars
<1> QED
  BY <1>1, <1>2, <1>3, <1>4, <1>5 DEF QueueStep

\* The pack changes, nothing of the exports does.
LEMMA PackChanges ==
  ASSUME Builds!ExportsAssumption, BuildsInv,
         Builds!MediaChange \/ \E p \in Platforms : Builds!Revise(p) \/ Builds!Approve(p)
  PROVE  BuildsInv'
<1> USE BuildsTyped
<1>1. UNCHANGED <<job, tries, owner, retried, cur, target, result, pc>>
  BY DEF Builds!MediaChange, Builds!Revise, Builds!Approve, Builds!queueVars, Builds!jobVars
<1>2. QueueInv'
  BY <1>1, QueueKeeps DEF BuildsInv, QueueStep, queueVars, jobVars
<1>3. /\ newest' \in [Platforms -> 0..MaxRevision]
      /\ approved' \in [Platforms -> SUBSET (1..MaxRevision)] /\ media' \in BOOLEAN
  <2>1. MaxRevision \in Nat
    BY DEF Builds!ExportsAssumption
  <2>2. CASE Builds!MediaChange
    BY <2>2 DEF Builds!MediaChange
  <2>3. ASSUME NEW p \in Platforms, Builds!Revise(p)
        PROVE  newest' \in [Platforms -> 0..MaxRevision] /\ approved' = approved /\ media' = media
    BY <2>1, <2>3 DEF Builds!Revise
  <2>4. ASSUME NEW p \in Platforms, Builds!Approve(p)
        PROVE  /\ approved' \in [Platforms -> SUBSET (1..MaxRevision)]
               /\ newest' = newest /\ media' = media
    BY <2>1, <2>4 DEF Builds!Approve
  <2> QED
    BY <2>2, <2>3, <2>4
<1>4. Builds!TypeOK'
  <2>1. Builds!QueueTypeOK'
    BY <1>2 DEF QueueInv, QueueTypeOK, Builds!QueueTypeOK, JobStatuses, Builds!JobStatuses
  <2> QED
    BY <1>1, <1>3, <2>1 DEF Builds!TypeOK, BuildSteps, Results, Builds!Results
<1> QED
  BY <1>1, <1>2, <1>4 DEF BuildsInv, Builds!DownloadsWork, Builds!OneLiveGeneration

\* Workers, requests and the queue leave what is complete or expired alone.
LEMMA BuildsMove ==
  ASSUME Builds!ExportsAssumption, BuildsInv, QueueStep, UNCHANGED <<newest, approved, media>>,
         pc' \in [Workers -> BuildSteps],
         target' \in [Jobs -> {"absent", "exact", "removing"}],
         result' \in [Jobs -> {"none", "complete", "expired"}],
         \A w \in Workers : pc'[w] # "idle" => cur'[w] # NoJob,
         \A w \in Workers : pc'[w] = "succeeded" => target'[cur'[w]] = "exact",
         \A j \in Jobs : target[j] = "exact" => target'[j] = "exact",
         \A j \in Jobs : result'[j] # result[j] =>
           /\ result'[j] = "complete" /\ result[j] = "none"
           /\ job'[j] = "succeeded" /\ target'[j] = "exact",
         \A j \in Jobs : j.gen > 0 /\ job[j] = "absent" /\ job'[j] # "absent" =>
           result[[payload |-> j.payload, gen |-> j.gen - 1]] = "expired"
  PROVE  BuildsInv'
<1> USE BuildsTyped
<1>1. /\ QueueInv' /\ \A j \in Jobs : job[j] = "succeeded" => job'[j] = "succeeded"
      /\ \A w \in Workers : cur'[w] = cur[w] \/ cur'[w] = NoJob \/ job[cur'[w]] = "queued"
  BY SucceededStays DEF BuildsInv
<1>2. Builds!TypeOK'
  <2>1. Builds!QueueTypeOK'
    BY <1>1 DEF QueueInv, QueueTypeOK, Builds!QueueTypeOK, JobStatuses, Builds!JobStatuses
  <2> QED
    BY <2>1 DEF Builds!TypeOK, BuildSteps, Results, Builds!Results
<1>3. \A j \in Jobs : result'[j] # "none" => job'[j] = "succeeded"
  BY <1>1 DEF BuildsInv
<1>4. \A j \in Jobs : result'[j] = "expired" => \A w \in Workers : cur'[w] # j
  <2> SUFFICES ASSUME NEW j \in Jobs, result'[j] = "expired", NEW w \in Workers PROVE cur'[w] # j
    OBVIOUS
  <2>1. result[j] = "expired" /\ job[j] = "succeeded" /\ cur[w] # j
    BY DEF BuildsInv
  <2>2. NoJob \notin Jobs
    BY HandlerRunsAssumption
  <2> QED
    BY <1>1, <2>1, <2>2
<1>5. Builds!DownloadsWork'
  BY DEF BuildsInv, Builds!DownloadsWork
<1>6. Builds!OneLiveGeneration'
  <2> SUFFICES ASSUME NEW j \in Jobs, j.gen > 0, job'[j] # "absent"
               PROVE  result'[Builds!Key(j.payload, j.gen - 1)] = "expired"
    BY DEF Builds!OneLiveGeneration
  <2>1. PICK k : k = [payload |-> j.payload, gen |-> j.gen - 1]
    OBVIOUS
  <2>2. k \in Jobs
    BY <2>1 DEF Builds!ExportsAssumption
  <2>3. result[k] = "expired"
    BY <2>1 DEF BuildsInv, Builds!OneLiveGeneration, Builds!Key
  <2>4. result'[k] = "expired"
    BY <2>2, <2>3
  <2> QED
    BY <2>1, <2>4 DEF Builds!Key
<1> QED
  BY <1>1, <1>2, <1>3, <1>4, <1>5, <1>6 DEF BuildsInv

\* The first generation that has not expired: all before it have.
LEMMA GenerationFound ==
  ASSUME Builds!ExportsAssumption, NEW f
  PROVE  /\ Builds!Generation(f) \in 0..(MaxGenerations + 1)
         /\ \A h \in 0..(Builds!Generation(f) - 1) : Builds!Expired(Builds!Key(f, h))
<1>0. MaxGenerations \in Nat
  BY DEF Builds!ExportsAssumption
<1> DEFINE Good(g) == /\ \A h \in 0..(g - 1) : Builds!Expired(Builds!Key(f, h))
                      /\ g = MaxGenerations + 1 \/ ~Builds!Expired(Builds!Key(f, g))
           Fresh == {g \in 0..(MaxGenerations + 1) :
                       g = MaxGenerations + 1 \/ ~Builds!Expired(Builds!Key(f, g))}
<1>1. \E g \in 0..(MaxGenerations + 1) : Good(g)
  <2>1. PICK R : R = OpToRel(<, Nat)
    OBVIOUS
  <2>2. IsWellFoundedOn(R, Nat)
    BY <2>1, NatLessThanWellFounded
  <2>3. Fresh \subseteq Nat /\ MaxGenerations + 1 \in Fresh
    BY <1>0
  <2>4. PICK g \in Fresh : \A h \in Fresh : ~ (<<h, g>> \in R)
    BY <2>2, <2>3, WFMin
  <2>5. \A h \in Fresh : ~ (h < g)
    BY <2>1, <2>3, <2>4 DEF OpToRel
  <2>6. \A h \in 0..(g - 1) : Builds!Expired(Builds!Key(f, h))
    <3> SUFFICES ASSUME NEW h \in 0..(g - 1) PROVE Builds!Expired(Builds!Key(f, h))
      OBVIOUS
    <3>1. g \in Nat /\ g <= MaxGenerations + 1
      BY <1>0, <2>3
    <3>2. h \in 0..(MaxGenerations + 1) /\ h < g
      BY <1>0, <3>1
    <3>3. h \notin Fresh
      BY <2>5, <3>2
    <3> QED
      BY <3>2, <3>3
  <2> QED
    BY <2>6
<1>2. Builds!Generation(f) = CHOOSE g \in 0..(MaxGenerations + 1) : Good(g)
  BY DEF Builds!Generation
<1>3. Builds!Generation(f) \in 0..(MaxGenerations + 1) /\ Good(Builds!Generation(f))
  <2> HIDE DEF Good
  <2> QED
    BY <1>1, <1>2
<1> QED
  BY <1>3

LEMMA ExportRequested ==
  ASSUME Builds!ExportsAssumption, BuildsInv, Builds!CreateExport PROVE BuildsInv'
<1> USE BuildsTyped
<1>1. PICK f \in Builds!Selectable :
        /\ Builds!Generation(f) <= MaxGenerations
        /\ Builds!EnqueueJob(Builds!Key(f, Builds!Generation(f)))
  BY DEF Builds!CreateExport
<1>2. PICK g : g = Builds!Generation(f)
  OBVIOUS
<1>3. PICK k : k = [payload |-> f, gen |-> g]
  OBVIOUS
<1>4. g \in 0..MaxGenerations /\ \A h \in 0..(g - 1) : Builds!Expired(Builds!Key(f, h))
  BY <1>1, <1>2, GenerationFound DEF Builds!ExportsAssumption
<1>5. f \in Builds!Payloads
  BY DEF Builds!Selectable
<1>6. k \in Jobs
  BY <1>3, <1>4, <1>5 DEF Builds!ExportsAssumption
<1>7. EnqueueJob(k) /\ UNCHANGED <<newest, approved, media, target, result, pc>>
  BY <1>1, <1>2, <1>3 DEF Builds!CreateExport, Builds!EnqueueJob, EnqueueJob, Builds!Key,
     Builds!pack
<1>8. ASSUME NEW j \in Jobs, j.gen > 0, job[j] = "absent", job'[j] # "absent"
      PROVE  result[[payload |-> j.payload, gen |-> j.gen - 1]] = "expired"
  <2>1. j = k
    BY <1>7, <1>8 DEF EnqueueJob
  <2>2. j.payload = f /\ j.gen = g
    BY <1>3, <2>1
  <2>3. g - 1 \in 0..(g - 1)
    BY <1>4, <1>8, <2>2
  <2>4. Builds!Expired(Builds!Key(f, g - 1))
    BY <1>4, <2>3
  <2> QED
    BY <2>2, <2>4 DEF Builds!Expired, Builds!Key
<1>9. cur' = cur /\ QueueStep
  BY <1>6, <1>7 DEF EnqueueJob, QueueStep
<1>10. \A w \in Workers : pc'[w] # "idle" => cur'[w] # NoJob
  BY <1>7, <1>9 DEF BuildsInv
<1>11. \A w \in Workers : pc'[w] = "succeeded" => target'[cur'[w]] = "exact"
  BY <1>7, <1>9 DEF BuildsInv
<1> QED
  BY <1>7, <1>8, <1>9, <1>10, <1>11, BuildsMove

\* A worker at a step: what it makes of its directory, and where it goes.
LEMMA BuilderMoves ==
  ASSUME Builds!ExportsAssumption, BuildsInv, NEW w \in Workers, NEW s \in BuildSteps,
         pc[w] # "idle", s # "idle",
         UNCHANGED <<newest, approved, media, result, job, tries, owner, retried, cur>>,
         pc' = [pc EXCEPT ![w] = s],
         \/ target' = target
         \/ target' = [target EXCEPT ![cur[w]] = "absent"] /\ target[cur[w]] # "exact"
         \/ target' = [target EXCEPT ![cur[w]] = "exact"],
         s = "succeeded" => target'[cur[w]] = "exact"
  PROVE  BuildsInv'
<1> USE BuildsTyped
<1>1. cur[w] \in Jobs
  BY DEF BuildsInv
<1>2. target' \in [Jobs -> {"absent", "exact", "removing"}]
      /\ \A j \in Jobs : target[j] = "exact" => target'[j] = "exact"
  BY <1>1
<1>3. pc' \in [Workers -> BuildSteps] /\ QueueStep
  BY DEF QueueStep, queueVars, jobVars
<1>4. \A v \in Workers : pc'[v] # "idle" => cur'[v] # NoJob
  BY DEF BuildsInv
<1>5. \A v \in Workers : pc'[v] = "succeeded" => target'[cur'[v]] = "exact"
  <2> SUFFICES ASSUME NEW v \in Workers, pc'[v] = "succeeded" PROVE target'[cur'[v]] = "exact"
    OBVIOUS
  <2>1. CASE v = w
    BY <2>1
  <2>2. CASE v # w
    <3>1. pc[v] = "succeeded" /\ cur[v] \in Jobs /\ target[cur[v]] = "exact"
      BY <2>2 DEF BuildsInv
    <3> QED
      BY <1>2, <3>1
  <2> QED
    BY <2>1, <2>2
<1> QED
  BY <1>2, <1>3, <1>4, <1>5, BuildsMove

LEMMA BuilderSteps ==
  ASSUME Builds!ExportsAssumption, BuildsInv, NEW w \in Workers,
         \/ Builds!SelectRevisions(w) \/ Builds!CheckTarget(w) \/ Builds!WriteStaging(w)
         \/ Builds!Rename(w)
  PROVE  BuildsInv'
<1> USE BuildsTyped
<1>1. UNCHANGED <<newest, approved, media, result, job, tries, owner, retried, cur>>
  BY DEF Builds!SelectRevisions, Builds!CheckTarget, Builds!WriteStaging, Builds!Rename,
     Builds!pack, Builds!queueVars, Builds!jobVars
<1>2. {"target", "permanent", "write", "rename", "succeeded"} \subseteq BuildSteps
  BY DEF BuildSteps, Results
<1>3. CASE Builds!SelectRevisions(w)
  <2>1. PICK s \in {"target", "permanent"} : pc' = [pc EXCEPT ![w] = s]
    <3>1. CASE cur[w].payload \in Builds!Selectable
      BY <1>3, <3>1 DEF Builds!SelectRevisions, Builds!Goto
    <3>2. CASE cur[w].payload \notin Builds!Selectable
      BY <1>3, <3>2 DEF Builds!SelectRevisions, Builds!Goto
    <3> QED
      BY <3>1, <3>2
  <2>2. pc[w] = "select" /\ target' = target
    BY <1>3 DEF Builds!SelectRevisions
  <2> QED
    BY <1>1, <1>2, <2>1, <2>2, BuilderMoves
<1>4. CASE Builds!CheckTarget(w)
  <2>1. CASE target[cur[w]] = "exact"
    <3>1. pc[w] = "target" /\ target' = target /\ pc' = [pc EXCEPT ![w] = "succeeded"]
      BY <1>4, <2>1 DEF Builds!CheckTarget, Builds!Complete, Builds!Goto
    <3> QED
      BY <1>1, <1>2, <2>1, <3>1, BuilderMoves
  <2>2. CASE target[cur[w]] # "exact"
    <3>1. pc[w] = "target" /\ target' = [target EXCEPT ![cur[w]] = "absent"]
          /\ pc' = [pc EXCEPT ![w] = "write"]
      BY <1>4, <2>2 DEF Builds!CheckTarget, Builds!Complete, Builds!Goto
    <3> QED
      BY <1>1, <1>2, <2>2, <3>1, BuilderMoves
  <2> QED
    BY <2>1, <2>2
<1>5. CASE Builds!WriteStaging(w)
  <2>1. PICK s \in {"rename", "permanent"} : pc' = [pc EXCEPT ![w] = s]
    BY <1>5 DEF Builds!WriteStaging, Builds!Goto
  <2>2. pc[w] = "write" /\ target' = target
    BY <1>5 DEF Builds!WriteStaging
  <2> QED
    BY <1>1, <1>2, <2>1, <2>2, BuilderMoves
<1>6. CASE Builds!Rename(w)
  <2>1. cur[w] \in Jobs /\ pc[w] = "rename"
    BY <1>6 DEF Builds!Rename, BuildsInv
  <2>2. CASE target[cur[w]] = "absent"
    <3>1. target' = [target EXCEPT ![cur[w]] = "exact"] /\ target'[cur[w]] = "exact"
          /\ pc' = [pc EXCEPT ![w] = "succeeded"]
      BY <1>6, <2>1, <2>2 DEF Builds!Rename, Builds!Goto
    <3> QED
      BY <1>1, <1>2, <2>1, <3>1, BuilderMoves
  <2>3. CASE target[cur[w]] # "absent"
    <3>1. PICK s \in {"succeeded", "permanent"} :
            pc' = [pc EXCEPT ![w] = s] /\ (s = "succeeded" => target[cur[w]] = "exact")
      <4>1. CASE target[cur[w]] = "exact"
        BY <1>6, <2>3, <4>1 DEF Builds!Rename, Builds!Complete, Builds!Goto
      <4>2. CASE target[cur[w]] # "exact"
        BY <1>6, <2>3, <4>2 DEF Builds!Rename, Builds!Complete, Builds!Goto
      <4> QED
        BY <4>1, <4>2
    <3>2. target' = target
      BY <1>6, <2>3 DEF Builds!Rename
    <3> QED
      BY <1>1, <1>2, <2>1, <3>1, <3>2, BuilderMoves
  <2> QED
    BY <2>2, <2>3
<1> QED
  BY <1>3, <1>4, <1>5, <1>6

\* A worker takes up a job, closes it or dies; the queue recovers, retries and
\* cancels.
LEMMA BuilderJobs ==
  ASSUME Builds!ExportsAssumption, BuildsInv,
         \/ \E w \in Workers : Builds!Start(w) \/ Builds!End(w) \/ Builds!Crash(w)
         \/ \E j \in Jobs : Builds!Recover(j) \/ Builds!Operate(j)
  PROVE  BuildsInv'
<1> USE BuildsTyped
<1>1. \A j \in Jobs : target[j] = "exact" => target[j] = "exact"
  OBVIOUS
<1>2. ASSUME NEW w \in Workers, Builds!Start(w) PROVE BuildsInv'
  <2>1. PICK j \in Jobs : ClaimJob(w, j)
    BY <1>2 DEF Builds!Start, Builds!ClaimJob, ClaimJob
  <2>2. pc' = [pc EXCEPT ![w] = "select"]
        /\ UNCHANGED <<newest, approved, media, target, result>>
    BY <1>2 DEF Builds!Start, Builds!Goto, Builds!pack
  <2>3. QueueStep /\ cur' = [cur EXCEPT ![w] = j] /\ j # NoJob
    BY <2>1, HandlerRunsAssumption DEF QueueStep, ClaimJob
  <2>4. \A v \in Workers : pc'[v] # "idle" => cur'[v] # NoJob
    BY <2>2, <2>3 DEF BuildsInv
  <2>5. \A v \in Workers : pc'[v] = "succeeded" => target'[cur'[v]] = "exact"
    BY <2>2, <2>3 DEF BuildsInv
  <2>6. \A i \in Jobs : job[i] = "absent" => job'[i] = "absent"
    BY <2>1 DEF ClaimJob
  <2>7. pc' \in [Workers -> BuildSteps]
    BY <2>2 DEF BuildSteps
  <2> QED
    BY <2>2, <2>3, <2>4, <2>5, <2>6, <2>7, BuildsMove
<1>3. ASSUME NEW w \in Workers, Builds!End(w) \/ Builds!Crash(w) PROVE BuildsInv'
  <2>1. QueueStep /\ cur' = [cur EXCEPT ![w] = NoJob]
    <3>1. CASE Builds!End(w)
      <4>1. PICK r \in Results : CloseJob(w, r)
        BY <3>1 DEF Builds!End, Results, Builds!Results, Builds!CloseJob, CloseJob, Builds!Holds,
           Holds, Builds!ClosedStatus, ClosedStatus
      <4> QED
        BY <4>1 DEF QueueStep, CloseJob
    <3>2. CASE Builds!Crash(w)
      <4>1. Die(w)
        BY <3>2 DEF Builds!Crash, Builds!Die, Die, Builds!jobVars, jobVars
      <4> QED
        BY <4>1 DEF QueueStep, Die
    <3> QED
      BY <1>3, <3>1, <3>2
  <2>2. pc' = [pc EXCEPT ![w] = "idle"] /\ UNCHANGED <<newest, approved, media, target>>
    BY <1>3 DEF Builds!End, Builds!Crash, Builds!Goto, Builds!pack
  <2>3. pc' \in [Workers -> BuildSteps] /\ pc'[w] = "idle"
    BY <2>2 DEF BuildSteps
  <2>4. \A v \in Workers : pc'[v] # "idle" => cur'[v] # NoJob
    BY <2>1, <2>2, <2>3 DEF BuildsInv
  <2>5. \A v \in Workers : pc'[v] = "succeeded" => target'[cur'[v]] = "exact"
    BY <2>1, <2>2, <2>3 DEF BuildsInv
  <2>6. result' = result \/ /\ Holds(w) /\ pc[w] = "succeeded" /\ job'[cur[w]] = "succeeded"
                            /\ result' = [result EXCEPT ![cur[w]] = "complete"]
    <3>1. CASE Builds!Crash(w)
      BY <3>1 DEF Builds!Crash
    <3>2. CASE Builds!End(w)
      <4>1. result' = result \/ /\ Holds(w) /\ pc[w] = "succeeded" /\ Builds!CloseJob(w, "succeeded")
                                /\ result' = [result EXCEPT ![cur[w]] = "complete"]
        BY <3>2 DEF Builds!End, Builds!Holds, Holds
      <4>2. Holds(w) /\ Builds!CloseJob(w, "succeeded") => job'[cur[w]] = "succeeded"
        <5> SUFFICES ASSUME Holds(w), Builds!CloseJob(w, "succeeded")
                     PROVE  job'[cur[w]] = "succeeded"
          OBVIOUS
        <5>1. cur[w] \in Jobs
          BY DEF Holds
        <5>2. Builds!ClosedStatus(cur[w], "succeeded") = "succeeded"
          BY DEF Builds!ClosedStatus
        <5> QED
          BY <5>1, <5>2 DEF Builds!CloseJob, Builds!Holds, Holds
      <4> QED
        BY <4>1, <4>2
    <3> QED
      BY <1>3, <3>1, <3>2
  <2>7. /\ result' \in [Jobs -> {"none", "complete", "expired"}]
        /\ \A j \in Jobs : result'[j] # result[j] =>
             /\ result'[j] = "complete" /\ result[j] = "none"
             /\ job'[j] = "succeeded" /\ target'[j] = "exact"
    <3>1. CASE result' = result
      BY <3>1
    <3>2. CASE /\ Holds(w) /\ pc[w] = "succeeded" /\ job'[cur[w]] = "succeeded"
               /\ result' = [result EXCEPT ![cur[w]] = "complete"]
      <4>1. cur[w] \in Jobs /\ job[cur[w]] = "running"
        BY <3>2 DEF Holds
      <4>2. result[cur[w]] = "none" /\ target[cur[w]] = "exact"
        BY <3>2, <4>1 DEF BuildsInv
      <4> QED
        BY <2>2, <3>2, <4>1, <4>2
    <3> QED
      BY <2>6, <3>1, <3>2
  <2>8. \A i \in Jobs : job[i] = "absent" => job'[i] = "absent"
    <3>1. CASE Builds!Crash(w)
      BY <3>1 DEF Builds!Crash, Builds!Die, Builds!jobVars
    <3>2. CASE Builds!End(w)
      BY <3>2 DEF Builds!End, Builds!CloseJob, Builds!Holds
    <3> QED
      BY <1>3, <3>1, <3>2
  <2> QED
    BY <2>1, <2>2, <2>3, <2>4, <2>5, <2>7, <2>8, BuildsMove
<1>4. ASSUME NEW j \in Jobs, Builds!Recover(j) \/ Builds!Operate(j) PROVE BuildsInv'
  <2>1. RecoverJob(j) \/ RetryJob(j) \/ CancelJob(j)
    BY <1>4 DEF Builds!Recover, Builds!Operate, Builds!RecoverJob, RecoverJob,
       Builds!RecoveredStatus, RecoveredStatus, Builds!RetryJob, RetryJob, Builds!CancelJob, CancelJob
  <2>2. UNCHANGED <<newest, approved, media, target, result, pc>>
    BY <1>4 DEF Builds!Recover, Builds!Operate, Builds!pack
  <2>3. QueueStep /\ cur' = cur /\ \A i \in Jobs : job[i] = "absent" => job'[i] = "absent"
    BY <2>1 DEF QueueStep, RecoverJob, RetryJob, CancelJob
  <2>4. \A v \in Workers : pc'[v] # "idle" => cur'[v] # NoJob
    BY <2>2, <2>3 DEF BuildsInv
  <2>5. \A v \in Workers : pc'[v] = "succeeded" => target'[cur'[v]] = "exact"
    BY <2>2, <2>3 DEF BuildsInv
  <2> QED
    BY <2>2, <2>3, <2>4, <2>5, BuildsMove
<1> QED
  BY <1>2, <1>3, <1>4

\* Retention: first the row, then the directory.
LEMMA BuildsExpire ==
  ASSUME Builds!ExportsAssumption, BuildsInv, NEW j \in Jobs,
         Builds!Expire(j) \/ Builds!Remove(j)
  PROVE  BuildsInv'
<1> USE BuildsTyped
<1>1. UNCHANGED <<newest, approved, media, pc, job, tries, owner, retried, cur>>
  BY DEF Builds!Expire, Builds!Remove, Builds!pack, Builds!queueVars, Builds!jobVars
<1>2. QueueInv' /\ Builds!QueueTypeOK'
  <2>1. QueueInv'
    BY <1>1, QueueKeeps DEF BuildsInv, QueueStep, queueVars, jobVars
  <2> QED
    BY <2>1 DEF QueueInv, QueueTypeOK, Builds!QueueTypeOK, JobStatuses, Builds!JobStatuses
<1>3. CASE Builds!Expire(j)
  <2>1. /\ result[j] = "complete" /\ \A w \in Workers : cur[w] # j
        /\ result' = [result EXCEPT ![j] = "expired"] /\ target' = target
    BY <1>3 DEF Builds!Expire
  <2>2. Builds!TypeOK'
    BY <1>1, <1>2, <2>1 DEF Builds!TypeOK, BuildSteps, Results, Builds!Results
  <2>3. \A i \in Jobs : result'[i] # "none" => job'[i] = "succeeded"
    BY <1>1, <2>1 DEF BuildsInv
  <2>4. \A i \in Jobs : result'[i] = "expired" => \A w \in Workers : cur'[w] # i
    BY <1>1, <2>1 DEF BuildsInv
  <2>5. Builds!DownloadsWork'
    BY <1>1, <2>1 DEF BuildsInv, Builds!DownloadsWork
  <2>6. Builds!OneLiveGeneration'
    <3> SUFFICES ASSUME NEW i \in Jobs, i.gen > 0, job'[i] # "absent"
                 PROVE  result'[Builds!Key(i.payload, i.gen - 1)] = "expired"
      BY DEF Builds!OneLiveGeneration
    <3>1. PICK k : k = [payload |-> i.payload, gen |-> i.gen - 1]
      OBVIOUS
    <3>2. k \in Jobs
      BY <3>1 DEF Builds!ExportsAssumption
    <3>3. result[k] = "expired"
      BY <1>1, <3>1 DEF BuildsInv, Builds!OneLiveGeneration, Builds!Key
    <3> QED
      BY <2>1, <3>1, <3>2, <3>3 DEF Builds!Key
  <2> QED
    BY <1>1, <1>2, <2>1, <2>2, <2>3, <2>4, <2>5, <2>6 DEF BuildsInv
<1>4. CASE Builds!Remove(j)
  <2>1. /\ result[j] = "expired" /\ result' = result
        /\ \A i \in Jobs : i # j => target'[i] = target[i]
        /\ target' \in [Jobs -> {"absent", "exact", "removing"}]
    BY <1>4 DEF Builds!Remove
  <2>2. Builds!TypeOK'
    BY <1>1, <1>2, <2>1 DEF Builds!TypeOK, BuildSteps, Results, Builds!Results
  <2>3. \A w \in Workers : cur[w] # j
    BY <2>1 DEF BuildsInv
  <2>4. \A w \in Workers : pc'[w] = "succeeded" => target'[cur'[w]] = "exact"
    <3> SUFFICES ASSUME NEW w \in Workers, pc[w] = "succeeded" PROVE target'[cur[w]] = "exact"
      BY <1>1
    <3>1. cur[w] \in Jobs /\ cur[w] # j /\ target[cur[w]] = "exact"
      BY <2>3 DEF BuildsInv
    <3> QED
      BY <2>1, <3>1
  <2>5. Builds!DownloadsWork'
    BY <2>1 DEF BuildsInv, Builds!DownloadsWork
  <2>6. Builds!OneLiveGeneration'
    BY <1>1, <2>1 DEF BuildsInv, Builds!OneLiveGeneration
  <2> QED
    BY <1>1, <1>2, <2>1, <2>2, <2>4, <2>5, <2>6 DEF BuildsInv
<1> QED
  BY <1>3, <1>4

LEMMA BuildsKeep == ASSUME Builds!ExportsAssumption PROVE Builds!Spec => []BuildsInv
<1>1. Builds!Init => BuildsInv
  BY BuildsStart
<1>2. BuildsInv /\ [Builds!Next]_(Builds!vars) => BuildsInv'
  <2> SUFFICES ASSUME BuildsInv, [Builds!Next]_(Builds!vars) PROVE BuildsInv'
    OBVIOUS
  <2>1. CASE UNCHANGED Builds!vars
    <3>1. UNCHANGED <<newest, approved, media, target, result, pc, job, tries, owner, retried, cur>>
      BY <2>1 DEF Builds!vars, Builds!pack, Builds!queueVars, Builds!jobVars
    <3>2. QueueInv'
      BY <3>1, QueueKeeps DEF BuildsInv, QueueStep, queueVars, jobVars
    <3> QED
      BY <3>1, <3>2 DEF BuildsInv, Builds!TypeOK, Builds!QueueTypeOK, Builds!DownloadsWork,
         Builds!OneLiveGeneration
  <2>2. CASE Builds!Next
    <3>1. CASE Builds!CreateExport
      BY <3>1, ExportRequested
    <3>2. CASE Builds!MediaChange \/ \E p \in Platforms : Builds!Revise(p) \/ Builds!Approve(p)
      BY <3>2, PackChanges
    <3>3. ASSUME NEW w \in Workers, Builds!Start(w) \/ Builds!WorkerStep(w) \/ Builds!Crash(w)
          PROVE  BuildsInv'
      BY <3>3, BuilderSteps, BuilderJobs DEF Builds!WorkerStep
    <3>4. ASSUME NEW j \in Jobs,
                 \/ Builds!Recover(j) \/ Builds!Operate(j) \/ Builds!Expire(j) \/ Builds!Remove(j)
          PROVE  BuildsInv'
      BY <3>4, BuilderJobs, BuildsExpire
    <3> QED
      BY <2>2, <3>1, <3>2, <3>3, <3>4 DEF Builds!Next
  <2> QED
    BY <2>1, <2>2
<1> QED
  BY <1>1, <1>2, PTL DEF Builds!Spec

\* The type invariant of the exports.
THEOREM ExportsTypeCorrect ==
  ASSUME Builds!ExportsAssumption PROVE Builds!Spec => []Builds!TypeOK
<1>1. BuildsInv => Builds!TypeOK
  BY DEF BuildsInv
<1> QED
  BY <1>1, BuildsKeep, PTL

\* A complete export has its directory, whoever built it, died over it or goes
\* on building it without a lease (_load_complete_artifact, os.rename).
THEOREM CompleteExportsThere ==
  ASSUME Builds!ExportsAssumption PROVE Builds!Spec => []Builds!DownloadsWork
<1>1. BuildsInv => Builds!DownloadsWork
  BY DEF BuildsInv
<1> QED
  BY <1>1, BuildsKeep, PTL

\* There is a further generation only of an export that has expired
\* (_enqueue_export_job, _expired_rebuild_artifact).
THEOREM RebuiltWhenExpired ==
  ASSUME Builds!ExportsAssumption PROVE Builds!Spec => []Builds!OneLiveGeneration
<1>1. BuildsInv => Builds!OneLiveGeneration
  BY DEF BuildsInv
<1> QED
  BY <1>1, BuildsKeep, PTL

-----------------------------------------------------------------------------
(* Backup and restore (Backups). *)

CONSTANTS Procs, Writers, Items, Names, MaxHead, Commands
VARIABLES rows, files, torn, rev, head, running, sess, archives, drill,
          cmd, step, name, stopped, stage
Backup == INSTANCE Backups

\* The deployment and the archives.
DeployedInv ==
  /\ rows \in Backup!Volumes /\ files \in Backup!Volumes /\ torn \subseteq Backup!Parts
  /\ rev \in 0..head /\ head \in 1..MaxHead
  /\ running \subseteq Backup!Services /\ sess \subseteq running
  /\ archives \in [Names -> Backup!Archive] /\ drill \in [Names -> {"none", "passed", "failed"}]
  /\ \A n \in Names : archives[n].rev <= head

\* The invocations: which have begun, how far they can be, and no schema is of
\* a later release than the deployed one.
InvokedInv ==
  /\ cmd \in [Procs -> {"none", "backup", "restore"}] /\ name \in [Procs -> Names]
  /\ step \in [Procs -> 0..9] /\ stopped \in [Procs -> SUBSET Writers]
  /\ stage \in [Procs -> Backup!Archive]
  /\ \A p \in Procs :
       /\ cmd[p] = "none" <=> step[p] = 0
       /\ cmd[p] = "restore" => step[p] <= 7 /\ "restore" \in Commands
       /\ cmd[p] # "backup" => stopped[p] = {}
       /\ stage[p].rev <= head

RangesInv == DeployedInv /\ InvokedInv

\* Process p is now at the k-th command of c.
Turned(p, c, k, S, r) ==
  /\ cmd'[p] = c /\ step'[p] = k /\ stopped'[p] = S /\ stage'[p] = r
  /\ \A q \in Procs \ {p} : /\ cmd'[q] = cmd[q] /\ step'[q] = step[q]
                            /\ stopped'[q] = stopped[q] /\ stage'[q] = stage[q]

\* The assignments of a process's turn.
Moves(p, c, k, S, n, r) ==
  /\ cmd' = [cmd EXCEPT ![p] = c] /\ step' = [step EXCEPT ![p] = k]
  /\ stopped' = [stopped EXCEPT ![p] = S] /\ name' = [name EXCEPT ![p] = n]
  /\ stage' = [stage EXCEPT ![p] = r]

\* The turn of one process leaves the others and the ranges as they are.
LEMMA TurnTaken ==
  ASSUME RangesInv, DeployedInv', head <= head', NEW p \in Procs, NEW n \in Names,
         NEW c \in {"none", "backup", "restore"}, NEW k \in 0..9, NEW S \in SUBSET Writers,
         NEW r \in Backup!Archive, r.rev <= head',
         c = "none" <=> k = 0, c = "restore" => k <= 7 /\ "restore" \in Commands,
         c # "backup" => S = {}, Moves(p, c, k, S, n, r)
  PROVE  RangesInv' /\ Turned(p, c, k, S, r)
<1>1. /\ cmd' \in [Procs -> {"none", "backup", "restore"}] /\ name' \in [Procs -> Names]
      /\ step' \in [Procs -> 0..9] /\ stopped' \in [Procs -> SUBSET Writers]
      /\ stage' \in [Procs -> Backup!Archive]
  BY DEF RangesInv, InvokedInv, Moves
<1>2. Turned(p, c, k, S, r)
  BY DEF RangesInv, InvokedInv, Turned, Moves
<1>3. \A a \in Backup!Archive : a.rev \in Nat
  BY DEF Backup!Archive
<1>4. head \in Nat /\ head' \in Nat
  BY DEF RangesInv, DeployedInv
<1>5. ASSUME NEW q \in Procs
      PROVE  /\ cmd'[q] = "none" <=> step'[q] = 0
             /\ cmd'[q] = "restore" => step'[q] <= 7 /\ "restore" \in Commands
             /\ cmd'[q] # "backup" => stopped'[q] = {}
             /\ stage'[q].rev <= head'
  <2>1. CASE q = p
    BY <1>2, <2>1 DEF Turned
  <2>2. CASE q # p
    <3>1. stage[q] \in Backup!Archive /\ stage[q].rev <= head
      BY DEF RangesInv, InvokedInv
    <3>2. stage'[q].rev <= head'
      BY <1>2, <1>3, <1>4, <2>2, <3>1 DEF Turned
    <3> QED
      BY <1>2, <2>2, <3>2 DEF Turned, RangesInv, InvokedInv
  <2> QED
    BY <2>1, <2>2
<1> QED
  BY <1>1, <1>2, <1>5 DEF RangesInv, InvokedInv

\* The place of each command.
LEMMA Places ==
  ASSUME RangesInv, NEW p \in Procs
  PROVE  /\ Backup!At(p, "backup", "stop") => cmd[p] = "backup" /\ step[p] = 1
         /\ Backup!At(p, "backup", "assert") => cmd[p] = "backup" /\ step[p] = 2
         /\ Backup!At(p, "backup", "dump") => cmd[p] = "backup" /\ step[p] = 3
         /\ Backup!At(p, "backup", "media") => cmd[p] = "backup" /\ step[p] = 4
         /\ Backup!At(p, "backup", "exports") => cmd[p] = "backup" /\ step[p] = 5
         /\ Backup!At(p, "backup", "inventory") => cmd[p] = "backup" /\ step[p] = 6
         /\ Backup!At(p, "backup", "resume") => cmd[p] = "backup" /\ step[p] = 7
         /\ Backup!At(p, "backup", "link") => cmd[p] = "backup" /\ step[p] = 8
         /\ Backup!At(p, "backup", "sync") => cmd[p] = "backup" /\ step[p] = 9
         /\ Backup!At(p, "restore", "stopall") => cmd[p] = "restore" /\ step[p] = 1
         /\ Backup!At(p, "restore", "drop") => cmd[p] = "restore" /\ step[p] = 2
         /\ Backup!At(p, "restore", "load") => cmd[p] = "restore" /\ step[p] = 3
         /\ Backup!At(p, "restore", "media") => cmd[p] = "restore" /\ step[p] = 4
         /\ Backup!At(p, "restore", "exports") => cmd[p] = "restore" /\ step[p] = 5
         /\ Backup!At(p, "restore", "migrate") => cmd[p] = "restore" /\ step[p] = 6
         /\ Backup!At(p, "restore", "start") => cmd[p] = "restore" /\ step[p] = 7
<1>1. step[p] \in 0..9 /\ (cmd[p] = "none" <=> step[p] = 0) /\ (cmd[p] = "restore" => step[p] <= 7)
  BY DEF RangesInv, InvokedInv
<1>2. CASE cmd[p] = "backup"
  <2>1. step[p] \in {1, 2, 3, 4, 5, 6, 7, 8, 9} /\ Backup!Steps(p) = Backup!BackupSteps
    BY <1>1, <1>2 DEF Backup!Steps
  <2> QED
    BY <1>2, <2>1 DEF Backup!At, Backup!BackupSteps
<1>3. CASE cmd[p] = "restore"
  <2>1. step[p] \in {1, 2, 3, 4, 5, 6, 7} /\ Backup!Steps(p) = Backup!RestoreSteps
    BY <1>1, <1>3 DEF Backup!Steps
  <2> QED
    BY <1>3, <2>1 DEF Backup!At, Backup!RestoreSteps
<1> QED
  BY <1>2, <1>3 DEF Backup!At

\* A process that has done its command is at the next, or done.
LEMMA NextCommand ==
  ASSUME RangesInv, NEW p \in Procs, cmd[p] # "none", Backup!Advance(p)
  PROVE  \/ /\ cmd' = [cmd EXCEPT ![p] = "none"] /\ step' = [step EXCEPT ![p] = 0]
            /\ stopped' = [stopped EXCEPT ![p] = {}]
            /\ cmd[p] = "backup" => step[p] = 9
            /\ cmd[p] = "restore" => step[p] = 7
         \/ /\ cmd' = [cmd EXCEPT ![p] = cmd[p]] /\ step' = [step EXCEPT ![p] = step[p] + 1]
            /\ stopped' = [stopped EXCEPT ![p] = stopped[p]]
            /\ step[p] \in 0..8
            /\ cmd[p] = "restore" => step[p] < 7
<1>1. step[p] \in 0..9 /\ (cmd[p] = "restore" => step[p] <= 7) /\ cmd[p] \in {"backup", "restore"}
      /\ stopped[p] \in SUBSET Writers
  BY DEF RangesInv, InvokedInv
<1>2. Len(Backup!Steps(p)) = IF cmd[p] = "backup" THEN 9 ELSE 7
  BY <1>1 DEF Backup!Steps, Backup!BackupSteps, Backup!RestoreSteps
<1>3. CASE step[p] = Len(Backup!Steps(p))
  <2>1. /\ cmd' = [cmd EXCEPT ![p] = "none"] /\ step' = [step EXCEPT ![p] = 0]
        /\ stopped' = [stopped EXCEPT ![p] = {}]
    BY <1>3 DEF Backup!Advance
  <2>2. /\ cmd[p] = "backup" => step[p] = 9
        /\ cmd[p] = "restore" => step[p] = 7
    BY <1>1, <1>2, <1>3
  <2> QED
    BY <2>1, <2>2
<1>4. CASE step[p] # Len(Backup!Steps(p))
  <2>1. step' = [step EXCEPT ![p] = step[p] + 1] /\ cmd' = cmd /\ stopped' = stopped
    BY <1>4 DEF Backup!Advance
  <2>2. cmd = [cmd EXCEPT ![p] = cmd[p]] /\ stopped = [stopped EXCEPT ![p] = stopped[p]]
    BY DEF RangesInv, InvokedInv
  <2>3. /\ cmd[p] = "backup" => step[p] < 9
        /\ cmd[p] = "restore" => step[p] < 7
    BY <1>1, <1>2, <1>4
  <2>4. step[p] \in 0..8
    BY <1>1, <2>3
  <2> QED
    BY <1>1, <2>1, <2>2, <2>3, <2>4
<1> QED
  BY <1>3, <1>4

\* A command that is done keeps the ranges and leaves the others alone.
LEMMA CommandDone ==
  ASSUME RangesInv, DeployedInv', head' = head, NEW p \in Procs, cmd[p] # "none", Backup!Advance(p),
         NEW r \in Backup!Archive, r.rev <= head, stage' = [stage EXCEPT ![p] = r], name' = name
  PROVE  /\ RangesInv'
         /\ \/ /\ Turned(p, "none", 0, {}, r)
               /\ cmd[p] = "backup" => step[p] = 9
               /\ cmd[p] = "restore" => step[p] = 7
            \/ /\ Turned(p, cmd[p], step[p] + 1, stopped[p], r)
               /\ cmd[p] = "restore" => step[p] < 7
<1>1. /\ name[p] \in Names /\ name' = [name EXCEPT ![p] = name[p]]
      /\ cmd[p] \in {"none", "backup", "restore"} /\ stopped[p] \in SUBSET Writers
      /\ cmd[p] = "restore" => "restore" \in Commands
      /\ cmd[p] # "backup" => stopped[p] = {}
      /\ head <= head'
  BY DEF RangesInv, InvokedInv, DeployedInv
<1>2. CASE /\ cmd' = [cmd EXCEPT ![p] = "none"] /\ step' = [step EXCEPT ![p] = 0]
           /\ stopped' = [stopped EXCEPT ![p] = {}]
           /\ cmd[p] = "backup" => step[p] = 9
           /\ cmd[p] = "restore" => step[p] = 7
  <2>1. Moves(p, "none", 0, {}, name[p], r)
    BY <1>1, <1>2 DEF Moves
  <2> QED
    BY <1>1, <1>2, <2>1, TurnTaken
<1>3. CASE /\ cmd' = [cmd EXCEPT ![p] = cmd[p]] /\ step' = [step EXCEPT ![p] = step[p] + 1]
           /\ stopped' = [stopped EXCEPT ![p] = stopped[p]]
           /\ step[p] \in 0..8
           /\ cmd[p] = "restore" => step[p] < 7
  <2>1. step[p] + 1 \in 0..9 /\ step[p] + 1 # 0 /\ (cmd[p] = "restore" => step[p] + 1 <= 7)
    BY <1>3
  <2>2. Moves(p, cmd[p], step[p] + 1, stopped[p], name[p], r)
    BY <1>1, <1>3 DEF Moves
  <2>3. cmd[p] = "none" <=> step[p] + 1 = 0
    BY <2>1
  <2> QED
    BY <1>1, <1>3, <2>1, <2>2, <2>3, TurnTaken
<1> QED
  BY <1>2, <1>3, NextCommand

\* A process that returns, or is killed.
LEMMA CommandLeft ==
  ASSUME RangesInv, DeployedInv', head' = head, NEW p \in Procs, Backup!Leave(p)
  PROVE  RangesInv' /\ Turned(p, "none", 0, {}, stage[p])
<1>1. /\ name[p] \in Names /\ name' = [name EXCEPT ![p] = name[p]]
      /\ stage[p] \in Backup!Archive /\ stage' = [stage EXCEPT ![p] = stage[p]]
      /\ stage[p].rev <= head' /\ head <= head'
  BY DEF RangesInv, InvokedInv, DeployedInv, Backup!Leave
<1>2. Moves(p, "none", 0, {}, name[p], stage[p])
  BY <1>1 DEF Backup!Leave, Moves
<1> QED
  BY <1>1, <1>2, TurnTaken

\* An invocation begins with an archive, of nothing or what is restored.
LEMMA CommandBegun ==
  ASSUME RangesInv, DeployedInv', head' = head, NEW p \in Procs, NEW n \in Names,
         cmd[p] = "none", NEW c \in {"backup", "restore"}, c = "restore" => "restore" \in Commands,
         NEW r \in Backup!Archive, r.rev <= head, UNCHANGED stopped,
         cmd' = [cmd EXCEPT ![p] = c], step' = [step EXCEPT ![p] = 1],
         name' = [name EXCEPT ![p] = n], stage' = [stage EXCEPT ![p] = r]
  PROVE  RangesInv' /\ Turned(p, c, 1, {}, r)
<1>1. stopped' = [stopped EXCEPT ![p] = {}] /\ head <= head'
  BY DEF RangesInv, InvokedInv, DeployedInv
<1>2. Moves(p, c, 1, {}, n, r)
  BY <1>1 DEF Moves
<1> QED
  BY <1>1, <1>2, TurnTaken

\* Steps of the deployment alone.
LEMMA NoCommand ==
  ASSUME RangesInv, DeployedInv', head <= head', UNCHANGED <<cmd, step, name, stopped, stage>>
  PROVE  RangesInv'
<1>1. \A a \in Backup!Archive : a.rev \in Nat
  BY DEF Backup!Archive
<1>2. head \in Nat /\ head' \in Nat
  BY DEF RangesInv, DeployedInv
<1>3. ASSUME NEW p \in Procs
      PROVE  stage[p].rev <= head'
  <2>1. stage[p] \in Backup!Archive /\ stage[p].rev <= head
    BY DEF RangesInv, InvokedInv
  <2> QED
    BY <1>1, <1>2, <2>1
<1> QED
  BY <1>3 DEF RangesInv, InvokedInv
-----------------------------------------------------------------------------
\* What the commands of a backup do.
LEMMA WritersStopped ==
  ASSUME RangesInv, NEW p \in Procs, Backup!StopWriters(p)
  PROVE  /\ RangesInv' /\ cmd[p] = "backup" /\ step[p] = 1
         /\ Turned(p, "backup", 2, running \cap Writers, stage[p])
         /\ running' = running \ Writers /\ UNCHANGED <<rows, files, torn, archives>>
<1>1. cmd[p] = "backup" /\ step[p] = 1
  BY Places DEF Backup!StopWriters
<1>2. /\ running' = running \ (running \cap Writers) /\ sess' = sess \ (running \cap Writers)
      /\ UNCHANGED <<head, rows, files, torn, rev, archives, drill, cmd, name, stage>>
      /\ step' = [step EXCEPT ![p] = @ + 1] /\ stopped' = [stopped EXCEPT ![p] = running \cap Writers]
  BY DEF Backup!StopWriters, Backup!Stop, Backup!Quiesced, Backup!data, Backup!dir
<1>3. running' = running \ Writers
  BY <1>2
<1>4. DeployedInv'
  BY <1>2 DEF RangesInv, DeployedInv
<1>5. /\ cmd' = [cmd EXCEPT ![p] = "backup"] /\ step' = [step EXCEPT ![p] = 2]
      /\ name' = [name EXCEPT ![p] = name[p]] /\ stage' = [stage EXCEPT ![p] = stage[p]]
      /\ stage[p] \in Backup!Archive /\ stage[p].rev <= head' /\ name[p] \in Names
      /\ running \cap Writers \in SUBSET Writers /\ head <= head'
  BY <1>1, <1>2 DEF RangesInv, InvokedInv, DeployedInv
<1>6. Moves(p, "backup", 2, running \cap Writers, name[p], stage[p])
  BY <1>2, <1>5 DEF Moves
<1> QED
  BY <1>1, <1>2, <1>3, <1>4, <1>5, <1>6, TurnTaken

\* What a backup has captured once its command is done.
Captures(p, r) ==
  /\ step[p] = 3 => r.rows = rows
  /\ step[p] # 3 => r.rows = stage[p].rows
  /\ step[p] = 4 => r.files["media"] = files["media"]
  /\ step[p] # 4 => r.files["media"] = stage[p].files["media"]
  /\ step[p] = 5 => r.files["exports"] = files["exports"]
  /\ step[p] # 5 => r.files["exports"] = stage[p].files["exports"]
  /\ step[p] = 6 => r.inv = rows

\* Commands of a backup that look at the deployment.
LEMMA Looked ==
  ASSUME Backup!BackupsAssumption, RangesInv, NEW p \in Procs,
         Backup!AssertQuiescent(p) \/ Backup!Dump(p) \/ Backup!Inventory(p)
           \/ \E s \in Backup!Stores : Backup!ArchiveVolume(p, s)
  PROVE  /\ RangesInv' /\ cmd[p] = "backup" /\ step[p] \in 2..6
         /\ UNCHANGED <<running, rows, files, torn, archives>>
         /\ \E r \in Backup!Archive :
              Turned(p, "backup", step[p] + 1, stopped[p], r) /\ Captures(p, r)
<1>1. /\ UNCHANGED <<rows, files, torn, rev, head, running, sess, archives, drill, name>>
      /\ Backup!Advance(p)
  BY DEF Backup!AssertQuiescent, Backup!Dump, Backup!Inventory, Backup!ArchiveVolume,
         Backup!data, Backup!env, Backup!dir
<1>2. DeployedInv'
  BY <1>1 DEF RangesInv, DeployedInv
<1>3. stage[p] \in Backup!Archive /\ stage[p].rev <= head /\ rows \in Backup!Volumes
      /\ files \in Backup!Volumes /\ rev <= head /\ rev \in 0..MaxHead
  BY DEF RangesInv, InvokedInv, DeployedInv, Backup!BackupsAssumption
<1>4. PICK r \in Backup!Archive :
        /\ stage' = [stage EXCEPT ![p] = r] /\ r.rev <= head
        /\ cmd[p] = "backup" /\ step[p] \in 2..6 /\ Captures(p, r)
  <2>1. CASE Backup!AssertQuiescent(p)
    <3>1. cmd[p] = "backup" /\ step[p] = 2 /\ step[p] \in 2..6
      BY <2>1, Places DEF Backup!AssertQuiescent
    <3>2. stage' = [stage EXCEPT ![p] = stage[p]]
      BY <2>1 DEF Backup!AssertQuiescent, RangesInv, InvokedInv
    <3>3. Captures(p, stage[p])
      BY <3>1 DEF Captures
    <3> QED
      BY <1>3, <3>1, <3>2, <3>3
  <2>2. CASE Backup!Dump(p)
    <3>1. cmd[p] = "backup" /\ step[p] = 3 /\ step[p] \in 2..6
      BY <2>2, Places DEF Backup!Dump
    <3>2. PICK r : r = [stage[p] EXCEPT !.rows = rows, !.rev = rev]
      OBVIOUS
    <3>3. r \in Backup!Archive /\ r.rows = rows /\ r.files = stage[p].files /\ r.rev <= head
      BY <1>3, <3>2 DEF Backup!Archive
    <3>4. stage' = [stage EXCEPT ![p] = r]
      BY <2>2, <3>2 DEF Backup!Dump, RangesInv, InvokedInv
    <3>5. Captures(p, r)
      BY <3>1, <3>3 DEF Captures
    <3> QED
      BY <1>3, <3>1, <3>3, <3>4, <3>5
  <2>3. CASE Backup!Inventory(p)
    <3>1. cmd[p] = "backup" /\ step[p] = 6 /\ step[p] \in 2..6
      BY <2>3, Places DEF Backup!Inventory
    <3>2. PICK r : r = [stage[p] EXCEPT !.inv = rows]
      OBVIOUS
    <3>3. /\ r \in Backup!Archive /\ r.inv = rows /\ r.files = stage[p].files
          /\ r.rows = stage[p].rows /\ r.rev <= head
      BY <1>3, <3>2 DEF Backup!Archive
    <3>4. stage' = [stage EXCEPT ![p] = r]
      BY <2>3, <3>2 DEF Backup!Inventory, RangesInv, InvokedInv
    <3>5. Captures(p, r)
      BY <3>1, <3>3 DEF Captures
    <3> QED
      BY <1>3, <3>1, <3>3, <3>4, <3>5
  <2>4. ASSUME NEW s \in Backup!Stores, Backup!ArchiveVolume(p, s)
        PROVE  \E r \in Backup!Archive :
                 /\ stage' = [stage EXCEPT ![p] = r] /\ r.rev <= head
                 /\ cmd[p] = "backup" /\ step[p] \in 4..5 /\ Captures(p, r)
    <3>1. cmd[p] = "backup" /\ step[p] \in 4..5 /\ (step[p] = 4 <=> s = "media")
      BY <2>4, Places DEF Backup!ArchiveVolume, Backup!Stores
    <3>2. PICK v : v = [stage[p].files EXCEPT ![s] = files[s]]
      OBVIOUS
    <3>3. /\ v \in Backup!Volumes /\ v[s] = files[s]
          /\ \A x \in Backup!Stores \ {s} : v[x] = stage[p].files[x]
      BY <1>3, <3>2 DEF Backup!Volumes, Backup!Archive
    <3>4. PICK r : r = [stage[p] EXCEPT !.files = v]
      OBVIOUS
    <3>5. /\ r \in Backup!Archive /\ r.files = v /\ r.rows = stage[p].rows /\ r.rev = stage[p].rev
      BY <1>3, <3>3, <3>4 DEF Backup!Archive
    <3>6. stage' = [stage EXCEPT ![p] = r]
      BY <2>4, <3>2, <3>4 DEF Backup!ArchiveVolume, RangesInv, InvokedInv
    <3>7. Captures(p, r)
      BY <3>1, <3>3, <3>5 DEF Captures, Backup!Stores
    <3> QED
      BY <1>3, <3>1, <3>5, <3>6, <3>7
  <2>5. \A k \in 4..5 : k \in 2..6
    OBVIOUS
  <2> QED
    BY <2>1, <2>2, <2>3, <2>4, <2>5
<1>5. RangesInv' /\ Turned(p, "backup", step[p] + 1, stopped[p], r)
  <2>1. cmd[p] # "none" /\ cmd[p] = "backup" /\ step[p] # 9 /\ head' = head /\ name' = name
    BY <1>1, <1>4
  <2> QED
    BY <1>1, <1>2, <1>4, <2>1, CommandDone
<1> QED
  BY <1>1, <1>4, <1>5

\* The services are resumed, and the archive is published.
LEMMA WritersResumed ==
  ASSUME RangesInv, NEW p \in Procs, Backup!Resume(p)
  PROVE  /\ RangesInv' /\ cmd[p] = "backup" /\ step[p] = 7
         /\ Turned(p, "backup", 8, {}, stage[p])
         /\ running' = running \cup stopped[p] /\ UNCHANGED <<rows, files, torn, archives>>
<1>1. cmd[p] = "backup" /\ step[p] = 7
  BY Places DEF Backup!Resume
<1>2. /\ running' = running \cup stopped[p]
      /\ UNCHANGED <<sess, head, rows, files, torn, rev, archives, drill, cmd, name, stage>>
      /\ step' = [step EXCEPT ![p] = @ + 1] /\ stopped' = [stopped EXCEPT ![p] = {}]
  BY DEF Backup!Resume, Backup!Up, Backup!data, Backup!dir
<1>3. stopped[p] \in SUBSET Writers
  BY DEF RangesInv, InvokedInv
<1>4. DeployedInv'
  BY <1>2, <1>3 DEF RangesInv, DeployedInv, Backup!Services
<1>5. /\ stage[p] \in Backup!Archive /\ stage[p].rev <= head' /\ name[p] \in Names /\ head <= head'
  BY <1>2 DEF RangesInv, InvokedInv, DeployedInv
<1>6. Moves(p, "backup", 8, {}, name[p], stage[p])
  BY <1>1, <1>2 DEF RangesInv, InvokedInv, Moves
<1> QED
  BY <1>1, <1>2, <1>4, <1>5, <1>6, TurnTaken

\* One name of the backup directory changes.
LEMMA OneArchive ==
  ASSUME DeployedInv, NEW n \in Names, NEW a \in Backup!Archive, a.rev <= head,
         archives' = [archives EXCEPT ![n] = a],
         UNCHANGED <<rows, files, torn, rev, head, running, sess, drill>>
  PROVE  /\ DeployedInv' /\ archives'[n] = a
         /\ \A m \in Names \ {n} : archives'[m] = archives[m]
<1>1. /\ archives' \in [Names -> Backup!Archive] /\ archives'[n] = a
      /\ \A m \in Names \ {n} : archives'[m] = archives[m]
  BY DEF DeployedInv
<1>2. \A m \in Names : archives'[m].rev <= head
  BY <1>1 DEF DeployedInv
<1> QED
  BY <1>1, <1>2 DEF DeployedInv

\* The archive is linked under a name that is free.
LEMMA Linked ==
  ASSUME RangesInv, NEW p \in Procs, Backup!Link(p)
  PROVE  /\ RangesInv' /\ cmd[p] = "backup" /\ step[p] = 8
         /\ Turned(p, "backup", 9, stopped[p], stage[p])
         /\ ~Backup!Exists(name[p]) /\ archives'[name[p]] = stage[p]
         /\ \A n \in Names \ {name[p]} : archives'[n] = archives[n]
         /\ UNCHANGED <<running, rows, files, torn>>
<1>1. cmd[p] = "backup" /\ step[p] = 8
  BY Places DEF Backup!Link
<1>2. /\ archives' = [archives EXCEPT ![name[p]] = stage[p]]
      /\ UNCHANGED <<rows, files, torn, rev, head, running, sess, drill, name, stage>>
      /\ Backup!Advance(p) /\ ~Backup!Exists(name[p])
  BY DEF Backup!Link, Backup!MayLink, Backup!data, Backup!env
<1>3. /\ stage[p] \in Backup!Archive /\ stage[p].rev <= head /\ name[p] \in Names
      /\ stage' = [stage EXCEPT ![p] = stage[p]]
  BY <1>2 DEF RangesInv, InvokedInv
<1>4. /\ DeployedInv' /\ archives'[name[p]] = stage[p]
      /\ \A n \in Names \ {name[p]} : archives'[n] = archives[n]
  BY <1>2, <1>3, OneArchive DEF RangesInv
<1>5. cmd[p] # "none" /\ ~(step[p] = 9) /\ head' = head /\ name' = name /\ step[p] + 1 = 9
  BY <1>1, <1>2
<1>6. RangesInv' /\ Turned(p, "backup", 9, stopped[p], stage[p])
  BY <1>1, <1>2, <1>3, <1>4, <1>5, CommandDone
<1> QED
  BY <1>1, <1>2, <1>4, <1>6

\* The end of a backup, good or bad.
LEMMA BackupEnds ==
  ASSUME Backup!BackupsAssumption, RangesInv, NEW p \in Procs, Backup!Sync(p) \/ Backup!FailBackup(p)
  PROVE  /\ RangesInv' /\ cmd[p] = "backup" /\ Turned(p, "none", 0, {}, stage[p])
         /\ \/ running' \subseteq running
            \/ \E S \in SUBSET stopped[p] : running' = running \cup S
         /\ \A n \in Names :
              \/ archives'[n] = archives[n]
              \/ archives'[n] = Backup!NoArchive /\ n = name[p] /\ Backup!At(p, "backup", "sync")
         /\ UNCHANGED <<rows, files, torn>>
<1>1. CASE Backup!Sync(p)
  <2>1. cmd[p] = "backup" /\ step[p] = 9
    BY <1>1, Places DEF Backup!Sync
  <2>2. /\ UNCHANGED <<rows, files, torn, rev, head, running, sess, archives, drill, name, stage>>
        /\ Backup!Advance(p)
    BY <1>1 DEF Backup!Sync, Backup!data, Backup!env, Backup!dir
  <2>3. DeployedInv'
    BY <2>2 DEF RangesInv, DeployedInv
  <2>4. /\ stage[p] \in Backup!Archive /\ stage[p].rev <= head /\ stage' = [stage EXCEPT ![p] = stage[p]]
    BY <2>2 DEF RangesInv, InvokedInv
  <2>5. \/ RangesInv' /\ Turned(p, "none", 0, {}, stage[p])
        \/ RangesInv' /\ Turned(p, cmd[p], step[p] + 1, stopped[p], stage[p])
    BY <2>1, <2>2, <2>3, <2>4, CommandDone
  <2>6. ~(RangesInv' /\ Turned(p, cmd[p], step[p] + 1, stopped[p], stage[p]))
    BY <2>1 DEF Turned, RangesInv, InvokedInv
  <2>7. /\ running' \subseteq running /\ UNCHANGED <<rows, files, torn>>
        /\ \A n \in Names : archives'[n] = archives[n]
    BY <2>2
  <2> QED
    BY <2>1, <2>5, <2>6, <2>7
<1>2. CASE Backup!FailBackup(p)
  <2>1. /\ cmd[p] = "backup" /\ Backup!Leave(p) /\ head' = head
        /\ UNCHANGED <<rows, files, torn, rev, drill>>
    BY <1>2 DEF Backup!FailBackup, Backup!Up, Backup!Stop, Backup!data
  <2>2. /\ stopped[p] \subseteq Writers /\ name[p] \in Names /\ head \in Nat
    BY DEF RangesInv, InvokedInv, DeployedInv
  <2>3. /\ \/ running' \subseteq running
           \/ \E S \in SUBSET stopped[p] : running' = running \cup S
        /\ running' \subseteq Backup!Services /\ sess' \subseteq running'
    <3>1. running \subseteq Backup!Services /\ Writers \subseteq Backup!Services /\ sess \subseteq running
      BY DEF RangesInv, DeployedInv, Backup!Services
    <3>2. \/ \E S \in SUBSET stopped[p] : Backup!Up(S)
          \/ \E S \in SUBSET Backup!Quiesced : Backup!Stop(S)
      BY <1>2 DEF Backup!FailBackup, Backup!ResumedOnFailure
    <3> QED
      BY <2>2, <3>1, <3>2 DEF Backup!Up, Backup!Stop
  <2>4. /\ archives' \in [Names -> Backup!Archive]
        /\ \A n \in Names :
             \/ archives'[n] = archives[n]
             \/ archives'[n] = Backup!NoArchive /\ n = name[p] /\ Backup!At(p, "backup", "sync")
    <3>1. Backup!NoArchive \in Backup!Archive
      <4>1. Backup!Empty \in Backup!Volumes /\ 0 \in 0..MaxHead
        BY DEF Backup!Empty, Backup!Volumes, Backup!BackupsAssumption
      <4> QED
        BY <4>1 DEF Backup!NoArchive, Backup!Archive
    <3>2. \/ archives' = archives
          \/ /\ archives' = [archives EXCEPT ![name[p]] = Backup!NoArchive]
             /\ Backup!At(p, "backup", "sync")
      BY <1>2 DEF Backup!FailBackup
    <3>3. archives \in [Names -> Backup!Archive]
      BY DEF RangesInv, DeployedInv
    <3>4. CASE archives' = archives
      BY <3>3, <3>4
    <3>5. ASSUME NEW a \in Backup!Archive, archives' = [archives EXCEPT ![name[p]] = a]
          PROVE  /\ archives' \in [Names -> Backup!Archive]
                 /\ \A n \in Names : archives'[n] = archives[n] \/ (archives'[n] = a /\ n = name[p])
      BY <2>2, <3>3, <3>5
    <3> QED
      BY <3>1, <3>2, <3>4, <3>5
  <2>5. \A n \in Names : archives'[n].rev <= head
    <3>1. Backup!NoArchive.rev <= head
      BY <2>2 DEF Backup!NoArchive
    <3> QED
      BY <2>4, <3>1 DEF RangesInv, DeployedInv
  <2>6. DeployedInv'
    BY <2>1, <2>3, <2>4, <2>5 DEF RangesInv, DeployedInv
  <2>7. RangesInv' /\ Turned(p, "none", 0, {}, stage[p])
    BY <2>1, <2>6, CommandLeft
  <2> QED
    BY <2>1, <2>3, <2>4, <2>7
<1> QED
  BY <1>1, <1>2

\* A backup is invoked.
LEMMA BackupBegun ==
  ASSUME Backup!BackupsAssumption, RangesInv, NEW p \in Procs, NEW n \in Names, Backup!BeginBackup(p, n)
  PROVE  /\ RangesInv' /\ cmd[p] = "none" /\ Backup!Free(p)
         /\ Turned(p, "backup", 1, {}, Backup!NoArchive)
         /\ UNCHANGED <<rows, files, torn, running, archives>>
<1>1. /\ cmd[p] = "none" /\ Backup!Free(p) /\ stopped' = stopped
      /\ UNCHANGED <<rows, files, torn, rev, head, running, sess, archives, drill>>
  BY DEF Backup!BeginBackup, Backup!Free, Backup!data, Backup!env, Backup!dir
<1>2. Backup!NoArchive \in Backup!Archive /\ Backup!NoArchive.rev <= head
  <2>1. Backup!Empty \in Backup!Volumes /\ 0 \in 0..MaxHead /\ 0 <= head
    BY DEF Backup!Empty, Backup!Volumes, Backup!BackupsAssumption, RangesInv, DeployedInv
  <2> QED
    BY <2>1 DEF Backup!NoArchive, Backup!Archive
<1>3. DeployedInv'
  BY <1>1 DEF RangesInv, DeployedInv
<1>4. /\ cmd' = [cmd EXCEPT ![p] = "backup"] /\ step' = [step EXCEPT ![p] = 1]
      /\ name' = [name EXCEPT ![p] = n] /\ stage' = [stage EXCEPT ![p] = Backup!NoArchive]
  BY DEF Backup!BeginBackup
<1>5. RangesInv' /\ Turned(p, "backup", 1, {}, Backup!NoArchive)
  BY <1>1, <1>2, <1>3, <1>4, CommandBegun
<1> QED
  BY <1>1, <1>5
-----------------------------------------------------------------------------
\* What the commands of a restore do.
LEMMA RestoreBegun ==
  ASSUME RangesInv, NEW p \in Procs, NEW n \in Names, Backup!BeginRestore(p, n)
  PROVE  /\ RangesInv' /\ cmd[p] = "none" /\ Backup!Free(p) /\ Backup!Exists(n)
         /\ Turned(p, "restore", 1, {}, archives[n])
         /\ UNCHANGED <<rows, files, torn, running, archives>>
<1>1. /\ cmd[p] = "none" /\ Backup!Free(p) /\ Backup!Exists(n) /\ stopped' = stopped
      /\ UNCHANGED <<rows, files, torn, rev, head, running, sess, archives, drill>>
      /\ "restore" \in Commands
  BY DEF Backup!BeginRestore, Backup!Free, Backup!data, Backup!env, Backup!dir
<1>2. archives[n] \in Backup!Archive /\ archives[n].rev <= head
  BY DEF RangesInv, DeployedInv
<1>3. DeployedInv'
  BY <1>1 DEF RangesInv, DeployedInv
<1>4. /\ cmd' = [cmd EXCEPT ![p] = "restore"] /\ step' = [step EXCEPT ![p] = 1]
      /\ name' = [name EXCEPT ![p] = n] /\ stage' = [stage EXCEPT ![p] = archives[n]]
  BY DEF Backup!BeginRestore
<1>5. RangesInv' /\ Turned(p, "restore", 1, {}, archives[n])
  BY <1>1, <1>2, <1>3, <1>4, CommandBegun
<1> QED
  BY <1>1, <1>5

\* What a restore has done to the deployment after its k-th command.
Restores(p, k) ==
  /\ k = 1 => running' = {} /\ UNCHANGED <<rows, files, torn>>
  /\ k # 1 /\ k # 7 => running' = running
  /\ k = 2 => rows' = Backup!Empty /\ files' = files
  /\ k = 3 => rows' = stage[p].rows /\ files' = files /\ torn' = torn \ {"database"}
  /\ k = 4 => /\ files'["media"] = stage[p].files["media"] /\ files'["exports"] = files["exports"]
              /\ torn' = torn \ {"media"}
  /\ k = 5 => /\ files'["exports"] = stage[p].files["exports"] /\ files'["media"] = files["media"]
              /\ torn' = torn \ {"exports"}
  /\ k \in 4..7 => rows' = rows
  /\ k = 6 => files' = files /\ torn' = torn \ {"schema"}
  /\ k = 7 => UNCHANGED <<files, torn>>

\* A command of a restore does this and no more.
LEMMA RestoreGoesOn ==
  ASSUME Backup!BackupsAssumption, RangesInv, NEW p \in Procs,
         \/ Backup!StopAll(p) \/ Backup!DropDatabase(p) \/ Backup!LoadDatabase(p)
         \/ \E s \in Backup!Stores : Backup!ReplaceVolume(p, s)
         \/ Backup!Migrate(p) \/ Backup!StartAll(p)
  PROVE  /\ RangesInv' /\ cmd[p] = "restore" /\ step[p] \in 1..7 /\ archives' = archives
         /\ \/ step[p] = 7 /\ Turned(p, "none", 0, {}, stage[p])
            \/ step[p] < 7 /\ Turned(p, "restore", step[p] + 1, {}, stage[p])
         /\ Restores(p, step[p])
<1>1. /\ UNCHANGED <<head, archives, drill, name, stage>> /\ Backup!Advance(p)
  BY DEF Backup!StopAll, Backup!DropDatabase, Backup!LoadDatabase, Backup!ReplaceVolume, Backup!Migrate,
         Backup!StartAll, Backup!data, Backup!env, Backup!dir, Backup!Stop, Backup!Up
<1>2. /\ stage[p] \in Backup!Archive /\ stage[p].rev <= head /\ stage' = [stage EXCEPT ![p] = stage[p]]
      /\ MaxHead \in Nat /\ head \in 1..MaxHead /\ stage[p].rev \in 0..MaxHead
      /\ stage[p].rows \in Backup!Volumes /\ stage[p].files \in Backup!Volumes
      /\ rows \in Backup!Volumes /\ files \in Backup!Volumes /\ torn \subseteq Backup!Parts
      /\ rev \in 0..head /\ running \subseteq Backup!Services /\ sess \subseteq running
      /\ stage[p].rev \in 0..head
  BY <1>1 DEF RangesInv, InvokedInv, DeployedInv, Backup!BackupsAssumption, Backup!Archive
<1>3. /\ cmd[p] = "restore" /\ step[p] \in 1..7 /\ Restores(p, step[p])
      /\ rows' \in Backup!Volumes /\ files' \in Backup!Volumes /\ torn' \subseteq Backup!Parts
      /\ rev' \in 0..head /\ running' \subseteq Backup!Services /\ sess' \subseteq running'
  <2>1. CASE Backup!StopAll(p)
    <3>1. cmd[p] = "restore" /\ step[p] = 1
      BY <2>1, Places DEF Backup!StopAll
    <3>2. /\ running' = running \ Backup!Services /\ sess' = sess \ Backup!Services
          /\ UNCHANGED <<rows, files, torn, rev>>
      BY <2>1 DEF Backup!StopAll, Backup!Stop, Backup!data
    <3> QED
      BY <1>2, <3>1, <3>2 DEF Restores
  <2>2. CASE Backup!DropDatabase(p)
    <3>1. cmd[p] = "restore" /\ step[p] = 2
      BY <2>2, Places DEF Backup!DropDatabase
    <3>2. /\ running' = running /\ sess' = {} /\ rows' = Backup!Empty
          /\ files' = files /\ torn' = Backup!Parts /\ rev' = 0
      BY <2>2 DEF Backup!DropDatabase
    <3>3. Backup!Empty \in Backup!Volumes
      BY DEF Backup!Empty, Backup!Volumes
    <3> QED
      BY <1>2, <3>1, <3>2, <3>3 DEF Restores
  <2>3. CASE Backup!LoadDatabase(p)
    <3>1. cmd[p] = "restore" /\ step[p] = 3
      BY <2>3, Places DEF Backup!LoadDatabase
    <3>2. /\ UNCHANGED <<running, sess, files>> /\ rows' = stage[p].rows
          /\ torn' = torn \ {"database"} /\ rev' = stage[p].rev
      BY <2>3 DEF Backup!LoadDatabase, Backup!env
    <3> QED
      BY <1>2, <3>1, <3>2 DEF Restores
  <2>4. ASSUME NEW s \in Backup!Stores, Backup!ReplaceVolume(p, s)
        PROVE  /\ cmd[p] = "restore" /\ step[p] \in 1..7 /\ Restores(p, step[p])
               /\ rows' \in Backup!Volumes /\ files' \in Backup!Volumes /\ torn' \subseteq Backup!Parts
               /\ rev' \in 0..head /\ running' \subseteq Backup!Services /\ sess' \subseteq running'
    <3>1. cmd[p] = "restore" /\ step[p] \in {4, 5} /\ (step[p] = 4 <=> s = "media")
      BY <2>4, Places DEF Backup!ReplaceVolume, Backup!Stores
    <3>2. PICK v : v = stage[p].files[s]
      OBVIOUS
    <3>3. /\ UNCHANGED <<running, sess, rows, rev>> /\ torn' = torn \ {s}
          /\ files' = [files EXCEPT ![s] = v]
      BY <2>4, <3>2 DEF Backup!ReplaceVolume, Backup!Replaced, Backup!env
    <3>4. v \in SUBSET Items
      BY <1>2, <3>2 DEF Backup!Volumes
    <3>5. /\ files' \in Backup!Volumes /\ files'[s] = v
          /\ \A x \in Backup!Stores \ {s} : files'[x] = files[x]
      BY <1>2, <3>3, <3>4 DEF Backup!Volumes
    <3>6. Restores(p, step[p])
      BY <3>1, <3>2, <3>3, <3>5 DEF Restores, Backup!Stores
    <3> QED
      BY <1>2, <3>1, <3>3, <3>5, <3>6
  <2>5. CASE Backup!Migrate(p)
    <3>1. cmd[p] = "restore" /\ step[p] = 6
      BY <2>5, Places DEF Backup!Migrate
    <3>2. /\ UNCHANGED <<running, sess, rows, files>> /\ rev' = head /\ torn' = torn \ {"schema"}
      BY <2>5 DEF Backup!Migrate, Backup!env
    <3> QED
      BY <1>2, <3>1, <3>2 DEF Restores
  <2>6. CASE Backup!StartAll(p)
    <3>1. cmd[p] = "restore" /\ step[p] = 7
      BY <2>6, Places DEF Backup!StartAll
    <3>2. /\ running' = running \cup Backup!Services /\ sess' = sess
          /\ UNCHANGED <<rows, files, torn, rev>>
      BY <2>6 DEF Backup!StartAll, Backup!Up, Backup!data
    <3> QED
      BY <1>2, <3>1, <3>2 DEF Restores
  <2> QED
    BY <2>1, <2>2, <2>3, <2>4, <2>5, <2>6
<1>4. DeployedInv'
  <2>1. /\ archives \in [Names -> Backup!Archive] /\ drill \in [Names -> {"none", "passed", "failed"}]
        /\ \A n \in Names : archives[n].rev <= head
    BY DEF RangesInv, DeployedInv
  <2> QED
    BY <1>1, <1>2, <1>3, <2>1 DEF DeployedInv
<1>5. stopped[p] = {} /\ cmd[p] # "none" /\ head' = head /\ name' = name
  BY <1>1, <1>3 DEF RangesInv, InvokedInv
<1>6. /\ RangesInv'
      /\ \/ step[p] = 7 /\ Turned(p, "none", 0, {}, stage[p])
         \/ step[p] < 7 /\ Turned(p, "restore", step[p] + 1, {}, stage[p])
  BY <1>1, <1>2, <1>3, <1>4, <1>5, CommandDone
<1> QED
  BY <1>1, <1>3, <1>6

\* A restore fails, or a process is killed.
LEMMA CommandFails ==
  ASSUME RangesInv, NEW p \in Procs, Backup!FailRestore(p) \/ Backup!Kill(p)
  PROVE  /\ RangesInv' /\ Turned(p, "none", 0, {}, stage[p]) /\ archives' = archives /\ rows' = rows
         /\ \/ UNCHANGED <<files, torn, running>> /\ "kill" \in Disturbances
            \/ /\ "fail" \in Disturbances /\ cmd[p] = "restore"
               /\ running' \subseteq running \/ step[p] = 7
               /\ torn' = torn \/ step[p] = 3
<1>1. CASE Backup!Kill(p)
  <2>1. /\ UNCHANGED <<rows, files, torn, rev, head, running, sess, archives, drill>>
        /\ Backup!Leave(p) /\ "kill" \in Disturbances
    BY <1>1 DEF Backup!Kill, Backup!data, Backup!env, Backup!dir
  <2>2. DeployedInv'
    BY <2>1 DEF RangesInv, DeployedInv
  <2>3. RangesInv' /\ Turned(p, "none", 0, {}, stage[p])
    BY <2>1, <2>2, CommandLeft
  <2> QED
    BY <2>1, <2>3
<1>2. CASE Backup!FailRestore(p)
  <2>1. /\ UNCHANGED <<rows, rev, head, archives, drill>> /\ Backup!Leave(p)
        /\ "fail" \in Disturbances /\ cmd[p] = "restore"
    BY <1>2 DEF Backup!FailRestore, Backup!dir
  <2>2. PICK R \in {running} \cup {running \cup S : S \in IF Backup!At(p, "restore", "start")
                                                       THEN SUBSET Backup!Services ELSE {{}}} :
          \E S \in SUBSET R : running' = S /\ sess' = sess \cap S
    BY <1>2 DEF Backup!FailRestore
  <2>3. /\ R \subseteq running \/ step[p] = 7
        /\ R \subseteq Backup!Services
    <3>1. running \subseteq Backup!Services
      BY DEF RangesInv, DeployedInv
    <3>2. CASE Backup!At(p, "restore", "start")
      BY <2>2, <3>1, <3>2, Places
    <3>3. CASE ~Backup!At(p, "restore", "start")
      BY <2>2, <3>1, <3>3
    <3> QED
      BY <3>2, <3>3
  <2>4. /\ running' \subseteq running \/ step[p] = 7
        /\ running' \subseteq Backup!Services /\ sess' \subseteq running'
    BY <2>2, <2>3
  <2>5. /\ torn' = torn \/ step[p] = 3
        /\ torn' \subseteq Backup!Parts
    <3>1. torn \subseteq Backup!Parts
      BY DEF RangesInv, DeployedInv
    <3>2. CASE Backup!At(p, "restore", "load")
      BY <1>2, <3>1, <3>2, Places DEF Backup!FailRestore, Backup!Parts
    <3>3. CASE ~Backup!At(p, "restore", "load")
      BY <1>2, <3>1, <3>3 DEF Backup!FailRestore
    <3> QED
      BY <3>2, <3>3
  <2>6. files' \in Backup!Volumes
    <3>1. files' = [s \in Backup!Stores |-> IF Backup!At(p, "restore", s) THEN {} ELSE files[s]]
      BY <1>2 DEF Backup!FailRestore
    <3> QED
      BY <3>1 DEF RangesInv, DeployedInv, Backup!Volumes
  <2>7. DeployedInv'
    BY <2>1, <2>4, <2>5, <2>6 DEF RangesInv, DeployedInv
  <2>8. RangesInv' /\ Turned(p, "none", 0, {}, stage[p])
    BY <2>1, <2>7, CommandLeft
  <2> QED
    BY <2>1, <2>4, <2>5, <2>8
<1> QED
  BY <1>1, <1>2

\* The services at work; rows refer to files that are there.
Sound == \A s \in Backup!Stores : rows[s] \subseteq files[s]

\* Who writes is running, and keeps the rows sound.
LEMMA ServicesWork ==
  ASSUME RangesInv, NEW w \in Writers, NEW s \in Backup!Stores, NEW i \in Items,
         \/ Backup!AddFile(w, s, i) \/ Backup!AddRow(w, s, i)
         \/ Backup!RemoveRow(w, s, i) \/ Backup!RemoveFile(w, s, i)
  PROVE  /\ RangesInv' /\ w \in running /\ (Sound => Sound')
         /\ UNCHANGED <<torn, running, archives, cmd, step, name, stopped, stage>>
<1>1. /\ w \in running /\ sess' = sess \cup {w}
      /\ UNCHANGED <<torn, rev, head, running, archives, drill, cmd, step, name, stopped, stage>>
  BY DEF Backup!AddFile, Backup!AddRow, Backup!RemoveRow, Backup!RemoveFile, Backup!Works,
         Backup!dir, Backup!proc
<1>2. rows \in [Backup!Stores -> SUBSET Items] /\ files \in [Backup!Stores -> SUBSET Items]
  BY DEF RangesInv, DeployedInv, Backup!Volumes
<1>3. /\ rows' \in [Backup!Stores -> SUBSET Items] /\ files' \in [Backup!Stores -> SUBSET Items]
      /\ \A x \in Backup!Stores \ {s} : rows'[x] = rows[x] /\ files'[x] = files[x]
      /\ rows[s] \subseteq files[s] => rows'[s] \subseteq files'[s]
  <2>1. CASE Backup!AddFile(w, s, i)
    BY <1>2, <2>1 DEF Backup!AddFile
  <2>2. CASE Backup!AddRow(w, s, i)
    BY <1>2, <2>2 DEF Backup!AddRow
  <2>3. CASE Backup!RemoveRow(w, s, i)
    BY <1>2, <2>3 DEF Backup!RemoveRow
  <2>4. CASE Backup!RemoveFile(w, s, i)
    BY <1>2, <2>4 DEF Backup!RemoveFile
  <2> QED
    BY <2>1, <2>2, <2>3, <2>4
<1>4. DeployedInv'
  <2>1. rows' \in Backup!Volumes /\ files' \in Backup!Volumes
    BY <1>3 DEF Backup!Volumes
  <2>2. sess' \subseteq running'
    BY <1>1 DEF RangesInv, DeployedInv
  <2> QED
    BY <1>1, <2>1, <2>2 DEF RangesInv, DeployedInv
<1>5. Sound => Sound'
  BY <1>3 DEF Sound
<1>6. RangesInv'
  <2>1. head <= head'
    BY <1>1 DEF RangesInv, DeployedInv
  <2> QED
    BY <1>1, <1>4, <2>1, NoCommand
<1> QED
  BY <1>1, <1>5, <1>6

\* A release is deployed, an archive is tried in a drill, or nothing happens.
LEMMA Otherwise ==
  ASSUME Backup!BackupsAssumption, RangesInv,
         \/ Backup!Upgrade \/ (\E n \in Names : Backup!Drill(n)) \/ UNCHANGED Backup!vars
  PROVE  /\ RangesInv'
         /\ UNCHANGED <<rows, files, torn, running, archives, cmd, step, name, stopped, stage>>
<1>1. /\ UNCHANGED <<rows, files, torn, running, sess, archives, cmd, step, name, stopped, stage>>
      /\ \/ UNCHANGED <<rev, head>>
         \/ head < MaxHead /\ head' = head + 1 /\ rev' = head + 1
      /\ \/ drill' = drill
         \/ \E n \in Names : \E x \in {"passed", "failed"} : drill' = [drill EXCEPT ![n] = x]
  <2>1. CASE Backup!Upgrade
    BY <2>1 DEF Backup!Upgrade, Backup!dir, Backup!proc
  <2>2. ASSUME NEW n \in Names, Backup!Drill(n)
        PROVE  /\ UNCHANGED <<rows, files, torn, running, sess, archives, cmd, step, name, stopped, stage>>
               /\ UNCHANGED <<rev, head>>
               /\ \E x \in {"passed", "failed"} : drill' = [drill EXCEPT ![n] = x]
    <3>1. PICK x \in {"passed", "failed"} : drill' = [drill EXCEPT ![n] = x]
      BY <2>2 DEF Backup!Drill
    <3> QED
      BY <2>2, <3>1 DEF Backup!Drill, Backup!data, Backup!env, Backup!proc
  <2>3. CASE UNCHANGED Backup!vars
    BY <2>3 DEF Backup!vars, Backup!data, Backup!env, Backup!dir, Backup!proc
  <2> QED
    BY <2>1, <2>2, <2>3
<1>2. head \in 1..MaxHead /\ MaxHead \in Nat /\ rev \in 0..head
  BY DEF RangesInv, DeployedInv, Backup!BackupsAssumption
<1>3. head <= head' /\ head' \in 1..MaxHead /\ rev' \in 0..head'
  BY <1>1, <1>2
<1>4. drill' \in [Names -> {"none", "passed", "failed"}]
  BY <1>1 DEF RangesInv, DeployedInv
<1>5. \A n \in Names : archives'[n].rev <= head'
  <2>1. \A a \in Backup!Archive : a.rev \in Nat
    BY DEF Backup!Archive
  <2>2. \A n \in Names : archives[n] \in Backup!Archive /\ archives[n].rev <= head
    BY DEF RangesInv, DeployedInv
  <2> QED
    BY <1>1, <1>2, <1>3, <2>1, <2>2
<1>6. DeployedInv'
  BY <1>1, <1>3, <1>4, <1>5 DEF RangesInv, DeployedInv
<1>7. RangesInv'
  BY <1>1, <1>3, <1>6, NoCommand
<1> QED
  BY <1>1, <1>7
-----------------------------------------------------------------------------
\* Everything stays in its range.
LEMMA RangesStep ==
  ASSUME Backup!BackupsAssumption, RangesInv, [Backup!Next]_(Backup!vars)
  PROVE  RangesInv'
<1>1. ASSUME NEW p \in Procs, Backup!Script(p) \/ Backup!Kill(p)
      PROVE  RangesInv'
  <2>1. CASE \/ Backup!StopWriters(p) \/ Backup!Resume(p) \/ Backup!Link(p) \/ Backup!Sync(p)
             \/ Backup!FailBackup(p) \/ Backup!FailRestore(p) \/ Backup!Kill(p)
    BY <2>1, WritersStopped, WritersResumed, Linked, BackupEnds, CommandFails
  <2>2. CASE \/ Backup!AssertQuiescent(p) \/ Backup!Dump(p) \/ Backup!Inventory(p)
             \/ \E s \in Backup!Stores : Backup!ArchiveVolume(p, s)
    BY <2>2, Looked
  <2>3. CASE \/ Backup!StopAll(p) \/ Backup!DropDatabase(p) \/ Backup!LoadDatabase(p)
             \/ \E s \in Backup!Stores : Backup!ReplaceVolume(p, s)
             \/ Backup!Migrate(p) \/ Backup!StartAll(p)
    BY <2>3, RestoreGoesOn
  <2> QED
    BY <1>1, <2>1, <2>2, <2>3 DEF Backup!Script
<1>2. ASSUME NEW p \in Procs, NEW n \in Names, Backup!BeginBackup(p, n) \/ Backup!BeginRestore(p, n)
      PROVE  RangesInv'
  BY <1>2, BackupBegun, RestoreBegun
<1>3. ASSUME NEW w \in Writers, NEW s \in Backup!Stores, NEW i \in Items,
             \/ Backup!AddFile(w, s, i) \/ Backup!AddRow(w, s, i)
             \/ Backup!RemoveRow(w, s, i) \/ Backup!RemoveFile(w, s, i)
      PROVE  RangesInv'
  BY <1>3, ServicesWork
<1>4. CASE Backup!Upgrade \/ (\E n \in Names : Backup!Drill(n)) \/ UNCHANGED Backup!vars
  BY <1>4, Otherwise
<1> QED
  BY <1>1, <1>2, <1>3, <1>4 DEF Backup!Next

\* It is so when the deployment is new.
LEMMA RangesInit ==
  ASSUME Backup!BackupsAssumption, Backup!Init PROVE RangesInv
<1>1. /\ Backup!Empty \in Backup!Volumes /\ 0 \in 0..MaxHead
      /\ (CHOOSE n \in Names : TRUE) \in Names
  BY DEF Backup!Empty, Backup!Volumes, Backup!BackupsAssumption
<1>2. Backup!NoArchive \in Backup!Archive /\ Backup!NoArchive.rev = 0
  BY <1>1 DEF Backup!NoArchive, Backup!Archive
<1>3. DeployedInv
  BY <1>1, <1>2 DEF Backup!Init, DeployedInv, Backup!BackupsAssumption
<1>4. name \in [Procs -> Names]
  BY <1>1 DEF Backup!Init
<1> QED
  BY <1>2, <1>3, <1>4 DEF Backup!Init, RangesInv, InvokedInv

\* Every step keeps the ranges.
THEOREM RangesKept ==
  ASSUME Backup!BackupsAssumption PROVE Backup!Spec => []RangesInv
BY RangesInit, RangesStep, PTL DEF Backup!Spec

\* Types, for every number of invocations, of services and of archives.
THEOREM DeploymentTypeCorrect ==
  ASSUME Backup!BackupsAssumption PROVE Backup!Spec => []Backup!TypeOK
<1>1. RangesInv => Backup!TypeOK
  <2>1. Len(Backup!BackupSteps) = 9
    BY DEF Backup!BackupSteps
  <2> QED
    BY <2>1 DEF RangesInv, DeployedInv, InvokedInv, Backup!TypeOK
<1> QED
  BY <1>1, RangesKept, PTL

\* No backup replaces an archive, whatever else is invoked meanwhile: it is
\* linked under a name that is free, and removed by the backup that linked it
\* (backup_restore.backup).
THEOREM ArchivesStay ==
  ASSUME Backup!BackupsAssumption PROVE Backup!Spec => [][Backup!KeepsArchives]_(Backup!vars)
<1>1. ASSUME RangesInv, [Backup!Next]_(Backup!vars)
      PROVE  [Backup!KeepsArchives]_(Backup!vars)
  <2>1. ASSUME NEW p \in Procs, NEW n \in Names, Backup!Exists(n), Backup!Script(p) \/ Backup!Kill(p)
        PROVE  archives'[n] = archives[n] \/ (Backup!At(p, "backup", "sync") /\ name[p] = n)
    <3>1. CASE Backup!Link(p)
      BY <1>1, <2>1, <3>1, Linked
    <3>2. CASE Backup!Sync(p) \/ Backup!FailBackup(p)
      BY <1>1, <2>1, <3>2, BackupEnds
    <3>3. CASE Backup!StopWriters(p) \/ Backup!Resume(p) \/ Backup!FailRestore(p) \/ Backup!Kill(p)
      BY <3>3, <1>1, WritersStopped, WritersResumed, CommandFails
    <3>4. CASE \/ Backup!AssertQuiescent(p) \/ Backup!Dump(p) \/ Backup!Inventory(p)
               \/ \E s \in Backup!Stores : Backup!ArchiveVolume(p, s)
      BY <3>4, <1>1, Looked
    <3>5. CASE \/ Backup!StopAll(p) \/ Backup!DropDatabase(p) \/ Backup!LoadDatabase(p)
               \/ \E s \in Backup!Stores : Backup!ReplaceVolume(p, s)
               \/ Backup!Migrate(p) \/ Backup!StartAll(p)
      BY <3>5, <1>1, RestoreGoesOn
    <3> QED
      BY <2>1, <3>1, <3>2, <3>3, <3>4, <3>5 DEF Backup!Script
  <2>2. CASE \E p \in Procs : Backup!Script(p) \/ Backup!Kill(p)
    BY <2>1, <2>2 DEF Backup!KeepsArchives
  <2>3. CASE \E p \in Procs, n \in Names : Backup!BeginBackup(p, n) \/ Backup!BeginRestore(p, n)
    BY <1>1, <2>3, BackupBegun, RestoreBegun DEF Backup!KeepsArchives
  <2>4. CASE \E w \in Writers, s \in Backup!Stores, i \in Items :
               \/ Backup!AddFile(w, s, i) \/ Backup!AddRow(w, s, i)
               \/ Backup!RemoveRow(w, s, i) \/ Backup!RemoveFile(w, s, i)
    BY <1>1, <2>4, ServicesWork DEF Backup!KeepsArchives
  <2>5. CASE Backup!Upgrade \/ (\E n \in Names : Backup!Drill(n)) \/ UNCHANGED Backup!vars
    BY <1>1, <2>5, Otherwise DEF Backup!KeepsArchives
  <2> QED
    BY <1>1, <2>2, <2>3, <2>4, <2>5 DEF Backup!Next
<1> QED
  BY <1>1, RangesKept, PTL DEF Backup!Spec
-----------------------------------------------------------------------------
\* Nothing else is invoked.
Alone(p) == \A q \in Procs \ {p} : cmd[q] = "none"

\* Between the stop and the resumption of the writers nobody writes: what a
\* backup has captured is still there.
CapturingInv(p) ==
  cmd[p] = "backup" =>
    /\ step[p] \in 2..7 => running \cap Writers = {}
    /\ step[p] \in 4..7 => stage[p].rows = rows
    /\ step[p] \in 5..7 => stage[p].files["media"] = files["media"]
    /\ step[p] \in 6..7 => stage[p].files["exports"] = files["exports"]
    /\ step[p] = 7 => stage[p].inv = rows

\* A restore runs without services, and what it has restored is whole.
RestoringInv(p) ==
  cmd[p] = "restore" =>
    /\ step[p] >= 2 => running = {}
    /\ step[p] >= 4 => rows = stage[p].rows /\ "database" \notin torn
    /\ step[p] >= 5 => files["media"] = stage[p].files["media"] /\ "media" \notin torn
    /\ step[p] >= 6 => files["exports"] = stage[p].files["exports"] /\ "exports" \notin torn
    /\ step[p] = 7 => "schema" \notin torn

\* Services run, or are to be resumed, on whole data only.
CaptureInv ==
  /\ \A p \in Procs : /\ cmd[p] # "none" => Alone(p)
                      /\ CapturingInv(p) /\ RestoringInv(p)
                      /\ stopped[p] # {} => torn = {}
  /\ Backup!NoPartialRun

\* A process that works alone answers for the whole.
LEMMA AloneTurns ==
  ASSUME RangesInv, NEW p \in Procs, Alone(p), NEW c, NEW k, NEW S, NEW r, Turned(p, c, k, S, r),
         CapturingInv(p)', RestoringInv(p)', S # {} => torn' = {}, Backup!NoPartialRun'
  PROVE  CaptureInv'
<1>1. \A q \in Procs \ {p} : cmd'[q] = "none" /\ stopped'[q] = {}
  BY DEF Alone, Turned, RangesInv, InvokedInv
<1>2. Alone(p)' /\ stopped'[p] = S
  BY <1>1 DEF Alone, Turned
<1>3. ASSUME NEW q \in Procs
      PROVE  /\ cmd'[q] # "none" => Alone(q)'
             /\ CapturingInv(q)' /\ RestoringInv(q)'
             /\ stopped'[q] # {} => torn' = {}
  <2>1. CASE q = p
    BY <1>2, <2>1
  <2>2. CASE q # p
    BY <1>1, <2>2 DEF CapturingInv, RestoringInv
  <2> QED
    BY <2>1, <2>2
<1> QED
  BY <1>3 DEF CaptureInv

\* A command of the script keeps it.
LEMMA CaptureScript ==
  ASSUME Backup!BackupsAssumption, RangesInv, CaptureInv, NEW p \in Procs, Backup!Script(p) \/ Backup!Kill(p)
  PROVE  CaptureInv'
<1>0. /\ CapturingInv(p) /\ RestoringInv(p) /\ (cmd[p] # "none" => Alone(p))
      /\ stopped[p] # {} => torn = {}
      /\ Backup!NoPartialRun
  BY DEF CaptureInv
<1>1. CASE Backup!StopWriters(p)
  <2>1. /\ cmd[p] = "backup" /\ Turned(p, "backup", 2, running \cap Writers, stage[p])
        /\ running' = running \ Writers /\ UNCHANGED <<rows, files, torn>>
    BY <1>1, WritersStopped
  <2>2. CapturingInv(p)' /\ RestoringInv(p)'
    BY <2>1 DEF Turned, CapturingInv, RestoringInv
  <2>3. (running \cap Writers # {} => torn' = {}) /\ Backup!NoPartialRun'
    BY <1>0, <2>1 DEF Backup!NoPartialRun
  <2> QED
    BY <1>0, <2>1, <2>2, <2>3, AloneTurns
<1>2. CASE \/ Backup!AssertQuiescent(p) \/ Backup!Dump(p) \/ Backup!Inventory(p)
           \/ \E s \in Backup!Stores : Backup!ArchiveVolume(p, s)
  <2>1. /\ cmd[p] = "backup" /\ step[p] \in 2..6 /\ UNCHANGED <<running, rows, files, torn>>
    BY <1>2, Looked
  <2>2. PICK r \in Backup!Archive : Turned(p, "backup", step[p] + 1, stopped[p], r) /\ Captures(p, r)
    BY <1>2, Looked
  <2>3. CapturingInv(p)'
    BY <1>0, <2>1, <2>2 DEF Turned, Captures, CapturingInv
  <2>4. RestoringInv(p)' /\ Backup!NoPartialRun'
    BY <1>0, <2>1, <2>2 DEF Turned, RestoringInv, Backup!NoPartialRun
  <2> QED
    BY <1>0, <2>1, <2>2, <2>3, <2>4, AloneTurns
<1>3. CASE Backup!Resume(p)
  <2>1. /\ cmd[p] = "backup" /\ Turned(p, "backup", 8, {}, stage[p])
        /\ running' = running \cup stopped[p] /\ UNCHANGED <<rows, files, torn>>
    BY <1>3, WritersResumed
  <2>2. CapturingInv(p)' /\ RestoringInv(p)'
    BY <2>1 DEF Turned, CapturingInv, RestoringInv
  <2>3. Backup!NoPartialRun'
    BY <1>0, <2>1 DEF Backup!NoPartialRun
  <2> QED
    BY <1>0, <2>1, <2>2, <2>3, AloneTurns
<1>4. CASE Backup!Link(p)
  <2>1. /\ cmd[p] = "backup" /\ Turned(p, "backup", 9, stopped[p], stage[p])
        /\ UNCHANGED <<running, rows, files, torn>>
    BY <1>4, Linked
  <2>2. CapturingInv(p)' /\ RestoringInv(p)'
    BY <2>1 DEF Turned, CapturingInv, RestoringInv
  <2>3. Backup!NoPartialRun'
    BY <1>0, <2>1 DEF Backup!NoPartialRun
  <2> QED
    BY <1>0, <2>1, <2>2, <2>3, AloneTurns
<1>5. CASE Backup!Sync(p) \/ Backup!FailBackup(p)
  <2>1. /\ cmd[p] = "backup" /\ Turned(p, "none", 0, {}, stage[p]) /\ UNCHANGED <<rows, files, torn>>
        /\ \/ running' \subseteq running
           \/ \E S \in SUBSET stopped[p] : running' = running \cup S
    BY <1>5, BackupEnds
  <2>2. CapturingInv(p)' /\ RestoringInv(p)'
    BY <2>1 DEF Turned, CapturingInv, RestoringInv
  <2>3. Backup!NoPartialRun'
    BY <1>0, <2>1 DEF Backup!NoPartialRun
  <2> QED
    BY <1>0, <2>1, <2>2, <2>3, AloneTurns
<1>6. CASE \/ Backup!StopAll(p) \/ Backup!DropDatabase(p) \/ Backup!LoadDatabase(p)
           \/ \E s \in Backup!Stores : Backup!ReplaceVolume(p, s)
           \/ Backup!Migrate(p) \/ Backup!StartAll(p)
  <2>1. /\ cmd[p] = "restore" /\ step[p] \in 1..7 /\ Restores(p, step[p])
        /\ \/ step[p] = 7 /\ Turned(p, "none", 0, {}, stage[p])
           \/ step[p] < 7 /\ Turned(p, "restore", step[p] + 1, {}, stage[p])
    BY <1>6, RestoreGoesOn
  <2>2. CASE step[p] = 7
    <3>1. torn' = torn /\ torn = {} /\ Turned(p, "none", 0, {}, stage[p])
      <4>1. torn \subseteq {"database", "media", "exports", "schema"}
        BY DEF RangesInv, DeployedInv, Backup!Parts
      <4>2. "database" \notin torn /\ "media" \notin torn /\ "exports" \notin torn /\ "schema" \notin torn
        BY <1>0, <2>1, <2>2 DEF RestoringInv
      <4> QED
        BY <2>1, <2>2, <4>1, <4>2 DEF Restores
    <3>2. CapturingInv(p)' /\ RestoringInv(p)'
      BY <3>1 DEF Turned, CapturingInv, RestoringInv
    <3> QED
      BY <1>0, <2>1, <3>1, <3>2, AloneTurns DEF Backup!NoPartialRun
  <2>3. CASE step[p] < 7
    <3>1. /\ Turned(p, "restore", step[p] + 1, {}, stage[p]) /\ running' = {}
      BY <1>0, <2>1, <2>3 DEF RestoringInv, Restores
    <3>2. CapturingInv(p)' /\ Backup!NoPartialRun'
      BY <3>1 DEF Turned, CapturingInv, Backup!NoPartialRun
    <3>3. /\ step[p] >= 3 => rows' = stage[p].rows /\ "database" \notin torn'
          /\ step[p] >= 4 => files'["media"] = stage[p].files["media"] /\ "media" \notin torn'
          /\ step[p] >= 5 => files'["exports"] = stage[p].files["exports"] /\ "exports" \notin torn'
          /\ step[p] = 6 => "schema" \notin torn'
      <4>1. step[p] \in {1, 2, 3, 4, 5, 6}
        BY <2>1, <2>3
      <4> QED
        BY <1>0, <2>1, <4>1 DEF RestoringInv, Restores
    <3>4. RestoringInv(p)'
      BY <2>1, <2>3, <3>1, <3>3 DEF Turned, RestoringInv
    <3> QED
      BY <1>0, <2>1, <3>1, <3>2, <3>4, AloneTurns
  <2> QED
    BY <2>1, <2>2, <2>3
<1>7. CASE Backup!FailRestore(p) \/ Backup!Kill(p)
  <2>1. /\ Turned(p, "none", 0, {}, stage[p])
        /\ \/ UNCHANGED <<files, torn, running>>
           \/ /\ cmd[p] = "restore" /\ (running' \subseteq running \/ step[p] = 7)
              /\ torn' = torn \/ step[p] = 3
    BY <1>7, CommandFails
  <2>2. CapturingInv(p)' /\ RestoringInv(p)'
    BY <2>1 DEF Turned, CapturingInv, RestoringInv
  <2>3. Backup!NoPartialRun'
    <3>1. torn \subseteq {"database", "media", "exports", "schema"}
      BY DEF RangesInv, DeployedInv, Backup!Parts
    <3>2. cmd[p] = "restore" /\ step[p] = 7 => torn = {}
      BY <1>0, <3>1 DEF RestoringInv
    <3>3. cmd[p] = "restore" /\ step[p] = 3 => running = {}
      BY <1>0 DEF RestoringInv
    <3> QED
      BY <1>0, <2>1, <3>2, <3>3 DEF Backup!NoPartialRun
  <2>4. Alone(p)
    BY <1>0, <1>7 DEF Backup!FailRestore, Backup!Kill
  <2> QED
    BY <2>1, <2>2, <2>3, <2>4, AloneTurns
<1> QED
  BY <1>1, <1>2, <1>3, <1>4, <1>5, <1>6, <1>7 DEF Backup!Script

\* And so does any step while nothing overlaps.
LEMMA CaptureStep ==
  ASSUME Backup!BackupsAssumption, "overlap" \notin Disturbances,
         RangesInv, CaptureInv, [Backup!Next]_(Backup!vars)
  PROVE  CaptureInv'
<1>1. ASSUME NEW p \in Procs, NEW n \in Names, Backup!BeginBackup(p, n) \/ Backup!BeginRestore(p, n)
      PROVE  CaptureInv'
  <2>1. Backup!Free(p) /\ UNCHANGED <<rows, files, torn, running>>
    BY <1>1, BackupBegun, RestoreBegun
  <2>2. PICK c \in {"backup", "restore"} : \E r : Turned(p, c, 1, {}, r)
    BY <1>1, BackupBegun, RestoreBegun
  <2>3. PICK r : Turned(p, c, 1, {}, r)
    BY <2>2
  <2>4. CapturingInv(p)' /\ RestoringInv(p)'
    BY <2>3 DEF Turned, CapturingInv, RestoringInv
  <2>5. Alone(p) /\ Backup!NoPartialRun'
    BY <2>1 DEF Backup!Free, Alone, CaptureInv, Backup!NoPartialRun
  <2> QED
    BY <2>3, <2>4, <2>5, AloneTurns
<1>2. ASSUME NEW w \in Writers, NEW s \in Backup!Stores, NEW i \in Items,
             \/ Backup!AddFile(w, s, i) \/ Backup!AddRow(w, s, i)
             \/ Backup!RemoveRow(w, s, i) \/ Backup!RemoveFile(w, s, i)
      PROVE  CaptureInv'
  <2>1. w \in running /\ UNCHANGED <<torn, running, cmd, step, name, stopped, stage>>
    BY <1>2, ServicesWork
  <2>2. \A p \in Procs : /\ cmd[p] = "backup" => step[p] \notin 2..7
                         /\ cmd[p] = "restore" => ~(step[p] >= 2)
    BY <2>1 DEF CaptureInv, CapturingInv, RestoringInv
  <2>3. ASSUME NEW p \in Procs
        PROVE  CapturingInv(p)' /\ RestoringInv(p)'
    <3>1. step[p] \in 0..9
      BY DEF RangesInv, InvokedInv
    <3> QED
      BY <2>1, <2>2, <3>1 DEF CapturingInv, RestoringInv
  <2> QED
    BY <2>1, <2>3 DEF CaptureInv, Alone, Backup!NoPartialRun
<1>3. CASE Backup!Upgrade \/ (\E n \in Names : Backup!Drill(n)) \/ UNCHANGED Backup!vars
  BY <1>3, Otherwise DEF CaptureInv, Alone, CapturingInv, RestoringInv, Backup!NoPartialRun
<1> QED
  BY <1>1, <1>2, <1>3, CaptureScript DEF Backup!Next

\* One invocation at a time, the deployment keeps CaptureInv.
THEOREM CaptureKept ==
  ASSUME Backup!BackupsAssumption, "overlap" \notin Disturbances PROVE Backup!Spec => []CaptureInv
<1>1. ASSUME Backup!Init PROVE CaptureInv
  BY <1>1 DEF Backup!Init, CaptureInv, CapturingInv, RestoringInv, Alone, Backup!NoPartialRun
<1> QED
  BY <1>1, CaptureStep, RangesKept, PTL DEF Backup!Spec

\* Commands fail, hang or are killed, but while one invocation waits for the
\* other: a backup is of one moment, services run on whole data only, and come
\* back after a restore on what the archive holds (backup_restore.backup,
\* restore, _contain_runtime_services).
THEOREM RestoresAreWhole ==
  ASSUME Backup!BackupsAssumption, "overlap" \notin Disturbances
  PROVE  Backup!Spec => [](Backup!CapturedTogether /\ Backup!RestoredExactly /\ Backup!NoPartialRun)
<1>1. ASSUME RangesInv, CaptureInv
      PROVE  Backup!CapturedTogether /\ Backup!RestoredExactly /\ Backup!NoPartialRun
  <2>1. \A f, g \in Backup!Volumes : f["media"] = g["media"] /\ f["exports"] = g["exports"] => f = g
    BY DEF Backup!Volumes, Backup!Stores
  <2>2. /\ files \in Backup!Volumes
        /\ \A p \in Procs : stage[p].files \in Backup!Volumes
    BY <1>1 DEF RangesInv, DeployedInv, InvokedInv, Backup!Archive
  <2>3. ASSUME NEW p \in Procs, Backup!At(p, "backup", "resume")
        PROVE  stage[p].rows = rows /\ stage[p].inv = rows /\ stage[p].files = files
    <3>1. cmd[p] = "backup" /\ step[p] = 7
      BY <1>1, <2>3, Places
    <3>2. /\ stage[p].rows = rows /\ stage[p].inv = rows
          /\ stage[p].files["media"] = files["media"] /\ stage[p].files["exports"] = files["exports"]
      BY <1>1, <3>1 DEF CaptureInv, CapturingInv
    <3> QED
      BY <2>1, <2>2, <3>2
  <2>4. ASSUME NEW p \in Procs, Backup!At(p, "restore", "start")
        PROVE  rows = stage[p].rows /\ files = stage[p].files
    <3>1. cmd[p] = "restore" /\ step[p] = 7
      BY <1>1, <2>4, Places
    <3>2. /\ stage[p].rows = rows
          /\ stage[p].files["media"] = files["media"] /\ stage[p].files["exports"] = files["exports"]
      BY <1>1, <3>1 DEF CaptureInv, RestoringInv
    <3> QED
      BY <2>1, <2>2, <3>2
  <2> QED
    BY <1>1, <2>3, <2>4 DEF Backup!CapturedTogether, Backup!RestoredExactly, CaptureInv
<1> QED
  BY <1>1, RangesKept, CaptureKept, PTL
-----------------------------------------------------------------------------
\* No restore has stopped half-way: none is made, or none fails.
NoHalfRestore == "restore" \notin Commands \/ ("fail" \notin Disturbances /\ "kill" \notin Disturbances)

\* Rows refer to files that are there except while a restore replaces them, and
\* what is in an archive, or on its way to one or from it, belongs together.
BelongsInv ==
  /\ \A n \in Names : Backup!Exists(n) => Backup!Consistent(archives[n])
  /\ \A p \in Procs : /\ cmd[p] = "restore" => Backup!Consistent(stage[p])
                      /\ cmd[p] = "backup" /\ step[p] >= 8 => Backup!Consistent(stage[p])
  /\ (\E p \in Procs : cmd[p] = "restore" /\ step[p] \in 4..6) \/ Sound

\* Its turn keeps what belongs together, when no other process restores.
LEMMA BelongsTurns ==
  ASSUME RangesInv, BelongsInv, NEW p \in Procs, Alone(p), NEW c, NEW k, NEW S, NEW r,
         Turned(p, c, k, S, r),
         \A n \in Names : Backup!Exists(n)' => Backup!Consistent(archives'[n]),
         c = "restore" => Backup!Consistent(r),
         c = "backup" /\ k >= 8 => Backup!Consistent(r),
         (c = "restore" /\ k \in 4..6) \/ Sound'
  PROVE  BelongsInv'
<1>1. \A q \in Procs \ {p} : cmd'[q] = "none"
  BY DEF Alone, Turned
<1>2. cmd'[p] = c /\ step'[p] = k /\ stage'[p] = r
  BY DEF Turned
<1>3. \A q \in Procs : /\ cmd'[q] = "restore" => Backup!Consistent(stage'[q])
                       /\ cmd'[q] = "backup" /\ step'[q] >= 8 => Backup!Consistent(stage'[q])
  BY <1>1, <1>2
<1>4. (\E q \in Procs : cmd'[q] = "restore" /\ step'[q] \in 4..6) \/ Sound'
  BY <1>2
<1> QED
  BY <1>3, <1>4 DEF BelongsInv

\* A command of the script keeps what belongs together.
LEMMA BelongsScript ==
  ASSUME Backup!BackupsAssumption, NoHalfRestore, RangesInv, CaptureInv, BelongsInv,
         NEW p \in Procs, Backup!Script(p) \/ Backup!Kill(p)
  PROVE  BelongsInv'
<1>0. /\ cmd[p] # "none" => Alone(p)
      /\ \A n \in Names : Backup!Exists(n) => Backup!Consistent(archives[n])
      /\ cmd[p] = "restore" => Backup!Consistent(stage[p]) /\ "restore" \in Commands
      /\ cmd[p] = "backup" /\ step[p] >= 8 => Backup!Consistent(stage[p])
  BY DEF CaptureInv, BelongsInv, RangesInv, InvokedInv
<1>a. /\ cmd[p] = "backup" => Sound
      /\ cmd[p] = "restore" /\ step[p] \notin 4..6 => Sound
  BY <1>0 DEF BelongsInv, Alone
<1>b. archives' = archives => \A n \in Names : Backup!Exists(n)' => Backup!Consistent(archives'[n])
  BY <1>0 DEF Backup!Exists
<1>c. rows' = rows /\ files' = files /\ Sound => Sound'
  BY DEF Sound
<1>1. CASE Backup!StopWriters(p)
  <2>1. /\ cmd[p] = "backup" /\ Turned(p, "backup", 2, running \cap Writers, stage[p])
        /\ UNCHANGED <<rows, files, archives>>
    BY <1>1, WritersStopped
  <2> QED
    BY <1>0, <1>a, <1>b, <1>c, <2>1, BelongsTurns
<1>2. CASE \/ Backup!AssertQuiescent(p) \/ Backup!Dump(p) \/ Backup!Inventory(p)
           \/ \E s \in Backup!Stores : Backup!ArchiveVolume(p, s)
  <2>1. /\ cmd[p] = "backup" /\ step[p] \in 2..6 /\ UNCHANGED <<rows, files, archives>>
    BY <1>2, Looked
  <2>2. PICK r \in Backup!Archive : Turned(p, "backup", step[p] + 1, stopped[p], r)
    BY <1>2, Looked
  <2>3. ~(step[p] + 1 >= 8)
    BY <2>1
  <2> QED
    BY <1>0, <1>a, <1>b, <1>c, <2>1, <2>2, <2>3, BelongsTurns
<1>3. CASE Backup!Resume(p)
  <2>1. /\ cmd[p] = "backup" /\ step[p] = 7 /\ Turned(p, "backup", 8, {}, stage[p])
        /\ UNCHANGED <<rows, files, archives>>
    BY <1>3, WritersResumed
  <2>2. Backup!Consistent(stage[p])
    <3>1. /\ stage[p].rows = rows /\ stage[p].inv = rows
          /\ stage[p].files["media"] = files["media"] /\ stage[p].files["exports"] = files["exports"]
      BY <2>1 DEF CaptureInv, CapturingInv
    <3>2. Sound
      BY <1>a, <2>1
    <3> QED
      BY <3>1, <3>2 DEF Backup!Consistent, Sound, Backup!Stores
  <2> QED
    BY <1>0, <1>a, <1>b, <1>c, <2>1, <2>2, BelongsTurns
<1>4. CASE Backup!Link(p)
  <2>1. /\ cmd[p] = "backup" /\ step[p] = 8 /\ Turned(p, "backup", 9, stopped[p], stage[p])
        /\ UNCHANGED <<rows, files>> /\ archives'[name[p]] = stage[p]
        /\ \A n \in Names \ {name[p]} : archives'[n] = archives[n]
    BY <1>4, Linked
  <2>2. Backup!Consistent(stage[p])
    BY <1>0, <2>1
  <2>3. \A n \in Names : Backup!Exists(n)' => Backup!Consistent(archives'[n])
    BY <1>0, <2>1, <2>2 DEF Backup!Exists
  <2> QED
    BY <1>0, <1>a, <1>c, <2>1, <2>2, <2>3, BelongsTurns
<1>5. CASE Backup!Sync(p) \/ Backup!FailBackup(p)
  <2>1. /\ cmd[p] = "backup" /\ Turned(p, "none", 0, {}, stage[p]) /\ UNCHANGED <<rows, files>>
        /\ \A n \in Names : archives'[n] = archives[n] \/ archives'[n] = Backup!NoArchive
    BY <1>5, BackupEnds
  <2>2. \A n \in Names : Backup!Exists(n)' => Backup!Consistent(archives'[n])
    BY <1>0, <2>1 DEF Backup!Exists, Backup!NoArchive
  <2> QED
    BY <1>0, <1>a, <1>c, <2>1, <2>2, BelongsTurns
<1>6. CASE \/ Backup!StopAll(p) \/ Backup!DropDatabase(p) \/ Backup!LoadDatabase(p)
           \/ \E s \in Backup!Stores : Backup!ReplaceVolume(p, s)
           \/ Backup!Migrate(p) \/ Backup!StartAll(p)
  <2>1. /\ cmd[p] = "restore" /\ step[p] \in 1..7 /\ archives' = archives
        /\ \/ step[p] = 7 /\ Turned(p, "none", 0, {}, stage[p])
           \/ step[p] < 7 /\ Turned(p, "restore", step[p] + 1, {}, stage[p])
        /\ Restores(p, step[p])
    BY <1>6, RestoreGoesOn
  <2>2. CASE step[p] = 7
    <3>1. Turned(p, "none", 0, {}, stage[p]) /\ UNCHANGED <<rows, files>>
      BY <2>1, <2>2 DEF Restores
    <3> QED
      BY <1>0, <1>a, <1>b, <1>c, <2>1, <2>2, <3>1, BelongsTurns
  <2>3. CASE step[p] \in {3, 4, 5}
    <3>1. Turned(p, "restore", step[p] + 1, {}, stage[p]) /\ step[p] + 1 \in 4..6
      BY <2>1, <2>3
    <3> QED
      BY <1>0, <1>b, <2>1, <3>1, BelongsTurns
  <2>4. CASE step[p] \in {1, 2, 6}
    <3>1. Turned(p, "restore", step[p] + 1, {}, stage[p])
      BY <2>1, <2>4
    <3>2. ASSUME step[p] = 1 PROVE Sound'
      BY <1>a, <1>c, <2>1, <3>2 DEF Restores
    <3>3. ASSUME step[p] = 2 PROVE Sound'
      BY <2>1, <3>3 DEF Restores, Sound, Backup!Empty
    <3>4. ASSUME step[p] = 6 PROVE Sound'
      <4>1. /\ rows' = stage[p].rows
            /\ files'["media"] = stage[p].files["media"] /\ files'["exports"] = stage[p].files["exports"]
        BY <2>1, <3>4 DEF Restores, CaptureInv, RestoringInv
      <4>2. Backup!Consistent(stage[p])
        BY <1>0, <2>1
      <4> QED
        BY <4>1, <4>2 DEF Backup!Consistent, Sound, Backup!Stores
    <3>5. Sound'
      BY <2>4, <3>2, <3>3, <3>4
    <3> QED
      BY <1>0, <1>b, <2>1, <3>1, <3>5, BelongsTurns
  <2> QED
    BY <2>1, <2>2, <2>3, <2>4
<1>7. CASE Backup!FailRestore(p) \/ Backup!Kill(p)
  <2>1. /\ Turned(p, "none", 0, {}, stage[p]) /\ archives' = archives /\ rows' = rows
        /\ \/ files' = files /\ "kill" \in Disturbances
           \/ "fail" \in Disturbances /\ cmd[p] = "restore"
    BY <1>7, CommandFails
  <2>2. cmd[p] # "restore" /\ files' = files
    BY <1>0, <2>1 DEF NoHalfRestore
  <2>3. cmd[p] = "backup"
    BY <1>7, <2>2 DEF Backup!FailRestore, Backup!Kill, RangesInv, InvokedInv
  <2> QED
    BY <1>0, <1>a, <1>b, <1>c, <2>1, <2>2, <2>3, BelongsTurns
<1> QED
  BY <1>1, <1>2, <1>3, <1>4, <1>5, <1>6, <1>7 DEF Backup!Script

\* And so does any step while nothing overlaps.
LEMMA BelongsStep ==
  ASSUME Backup!BackupsAssumption, "overlap" \notin Disturbances, NoHalfRestore,
         RangesInv, CaptureInv, BelongsInv, [Backup!Next]_(Backup!vars)
  PROVE  BelongsInv'
<1>1. ASSUME NEW p \in Procs, NEW n \in Names, Backup!BeginBackup(p, n) \/ Backup!BeginRestore(p, n)
      PROVE  BelongsInv'
  <2>1. Backup!Free(p) /\ UNCHANGED <<rows, files, archives>>
    BY <1>1, BackupBegun, RestoreBegun
  <2>2. \/ Turned(p, "backup", 1, {}, Backup!NoArchive)
        \/ Turned(p, "restore", 1, {}, archives[n]) /\ Backup!Consistent(archives[n])
    BY <1>1, BackupBegun, RestoreBegun DEF BelongsInv
  <2>3. Alone(p) /\ Sound'
    BY <2>1 DEF Backup!Free, Alone, BelongsInv, Sound
  <2>4. \A m \in Names : Backup!Exists(m)' => Backup!Consistent(archives'[m])
    BY <2>1 DEF BelongsInv, Backup!Exists
  <2>5. ~(1 >= 8)
    OBVIOUS
  <2> QED
    BY <2>2, <2>3, <2>4, <2>5, BelongsTurns
<1>2. ASSUME NEW w \in Writers, NEW s \in Backup!Stores, NEW i \in Items,
             \/ Backup!AddFile(w, s, i) \/ Backup!AddRow(w, s, i)
             \/ Backup!RemoveRow(w, s, i) \/ Backup!RemoveFile(w, s, i)
      PROVE  BelongsInv'
  <2>1. (Sound => Sound') /\ UNCHANGED <<archives, cmd, step, stage>>
    BY <1>2, ServicesWork
  <2> QED
    BY <2>1 DEF BelongsInv, Backup!Exists
<1>3. CASE Backup!Upgrade \/ (\E n \in Names : Backup!Drill(n)) \/ UNCHANGED Backup!vars
  <2>1. UNCHANGED <<rows, files, archives, cmd, step, stage>>
    BY <1>3, Otherwise
  <2> QED
    BY <2>1 DEF BelongsInv, Backup!Exists, Sound
<1> QED
  BY <1>1, <1>2, <1>3, BelongsScript DEF Backup!Next

\* The archives of a deployment in which no restore stopped half-way are
\* consistent: the inventory is that of the dump, and the volumes hold every
\* file that the dump refers to (backup_restore.backup).
THEOREM ArchivesBelongTogether ==
  ASSUME Backup!BackupsAssumption, "overlap" \notin Disturbances, NoHalfRestore
  PROVE  Backup!Spec => []Backup!ArchivesConsistent
<1>1. ASSUME Backup!Init PROVE BelongsInv
  BY <1>1 DEF Backup!Init, BelongsInv, Sound, Backup!Exists, Backup!NoArchive, Backup!Empty
<1>2. BelongsInv => Backup!ArchivesConsistent
  BY DEF BelongsInv, Backup!ArchivesConsistent
<1> QED
  BY <1>1, <1>2, BelongsStep, RangesKept, CaptureKept, PTL DEF Backup!Spec
=============================================================================
