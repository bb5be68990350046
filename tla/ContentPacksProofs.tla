-------------------------- MODULE ContentPacksProofs --------------------------
(***************************************************************************)
(* Proofs about content packs, for every set of platforms, regenerations    *)
(* and workers: types, that an output of the provider is used once, that a  *)
(* fenced regeneration keeps its base, and the budget of provider calls.    *)
(***************************************************************************)
EXTENDS ContentPacks, HandlerRunsProofs, FiniteSetTheorems, SequenceTheorems

\* A worker that is not idle works on a job, in the attempt it claimed.
WorkInv ==
  \A w \in Workers :
    /\ cur[w] = NoJob <=> pc[w] = "idle"
    /\ cur[w] # NoJob => wk[w].try \in 1..tries[cur[w]]
    /\ pc[w] = "ensure" => Regenerates(w)
    /\ pc[w] = "clear" => wk[w].res \in Results

\* A run that has been used has succeeded, and so has one that is about to be.
UsedInv ==
  /\ \A j \in Jobs : \A p \in Purposes : runs[j][p].artifact # 0 => runs[j][p].state = "succeeded"
  /\ \A w \in Workers : pc[w] \in {"ensure", "write"} => Run(w).state = "succeeded"

\* An attempt that has not ended is not newer than the active one; no two
\* workers have the same.
Open(w) == pc[w] \in {"before", "call"}
AttemptInv ==
  \A w \in Workers : Open(w) =>
    /\ wk[w].att \in 1..Run(w).active
    /\ wk[w].att = Run(w).active => Run(w).state = "running"
    /\ \A v \in Workers : Open(v) /\ cur[v] = cur[w] /\ Purpose(v) = Purpose(w)
                            /\ wk[v].att = wk[w].att => v = w

\* What was written is what the run of its job remembers.
ArtifactInv ==
  /\ stories <= 1
  /\ stories = 1 => Canonical \in Jobs /\ runs[Canonical]["canonical"].artifact # 0
  /\ \A p \in Platforms : \A n \in DOMAIN revs[p] :
       revs[p][n].by # Nobody => runs[revs[p][n].by][p].artifact = n

\* Two regenerations of a variant are not fenced at once.
FenceInv ==
  \A j \in Jobs : j.kind = "regenerate" /\ Live(j) =>
    /\ Newest(j.platform) = j.base
    /\ \A k \in Jobs : k.kind = "regenerate" /\ k.platform = j.platform /\ Live(k) => k = j

\* The attempts within the budget that have had their call, or never will.
Spent(j, p) ==
  {a \in 1..MaxCalls :
     /\ a <= runs[j][p].active
     /\ \A w \in Workers : ~(pc[w] = "before" /\ cur[w] = j /\ Purpose(w) = p /\ wk[w].att = a)}
CallsInv == \A j \in Jobs : \A p \in Purposes : calls[j][p] <= Cardinality(Spent(j, p))

IInv == /\ QueueInv /\ TypeOK /\ WorkInv /\ UsedInv /\ AttemptInv
        /\ ArtifactInv /\ FenceInv /\ CallsInv

-----------------------------------------------------------------------------
(* Jobs and purposes. *)

\* Every job is the canonical one, the package or a regeneration.
LEMMA KindOfJob ==
  ASSUME NEW j \in Jobs
  PROVE  /\ j.kind \in {"canonical", "package", "regenerate"}
         /\ j.kind = "canonical" => j = Canonical
         /\ j.kind = "package" => j = Package
         /\ j.kind = "regenerate" => j.platform \in Platforms /\ j.base \in 1..MaxRevision
BY ContentPacksAssumption DEF Canonical, Package, Regenerations

\* The stage of a worker has a purpose; only the canonical job's is no platform.
LEMMA PurposeOfWorker ==
  ASSUME TypeOK, NEW w \in Workers, cur[w] # NoJob
  PROVE  /\ cur[w] \in Jobs
         /\ Purpose(w) \in Purposes
         /\ cur[w].kind # "canonical" => Purpose(w) \in Platforms
         /\ cur[w].kind = "canonical" => Purpose(w) = "canonical"
<1>1. cur[w] \in Jobs /\ wk[w].i \in DOMAIN PackPlatforms
  BY DEF TypeOK, QueueTypeOK, Work
<1>2. PackPlatforms[wk[w].i] \in Platforms
  BY <1>1 DEF Platforms
<1> QED
  BY <1>1, <1>2, KindOfJob DEF Purpose, Purposes

\* Only the life of the jobs takes place in the steps of the component.
LEMMA NextIsQueueStep == TypeOK /\ [Next]_vars => QueueStep
<1> SUFFICES ASSUME TypeOK, [Next]_vars PROVE QueueStep
  OBVIOUS
<1> USE ContentPacksAssumption DEF QueueStep
<1>1. CASE RequestPack \/ ActivatePrompt \/ \E j \in Jobs : RegenerateVariant(j) \/ Recover(j) \/ Operate(j)
  BY <1>1 DEF RequestPack, ActivatePrompt, RegenerateVariant, Recover, Operate
<1>2. CASE \E p \in Platforms : Approve(p) \/ \E n \in 1..MaxRevision : Reject(p, n) \/ Edit(p, n)
  BY <1>2 DEF Approve, Reject, Edit
<1>3. ASSUME NEW w \in Workers, Start(w) \/ WorkerStep(w) \/ Crash(w) PROVE QueueStep
  <2>1. CASE Start(w) \/ Crash(w)
    BY <2>1 DEF Start, Crash
  <2>2. CASE End(w)
    BY <2>2 DEF End, Results
  <2>3. CASE WriteStory(w)
    BY <2>3 DEF WriteStory
  <2>4. CASE Load(w) \/ Reuse(w) \/ StartAttempt(w) \/ Before(w) \/ CallSucceeds(w)
              \/ (\E r \in Failures : CallFails(w, r)) \/ Ensure(w)
              \/ (\E valid \in BOOLEAN : WriteVariant(w, valid)) \/ Clear(w)
    BY <2>4 DEF Load, Reuse, StartAttempt, Before, CallSucceeds, CallFails, Ensure,
       WriteVariant, Clear
  <2> QED
    BY <1>3, <2>1, <2>2, <2>3, <2>4 DEF WorkerStep
<1>4. CASE UNCHANGED vars
  BY <1>4 DEF vars
<1> QED
  BY <1>1, <1>2, <1>3, <1>4 DEF Next

-----------------------------------------------------------------------------
(* Types. *)

RunsType == [Jobs -> [Purposes -> Runs]]
LocalsOK == pc \in [Workers -> Steps] /\ wk \in [Workers -> Work]

\* A stage leaves its locals well typed, and an end only for a result.
LEMMA LocalTypes ==
  ASSUME LocalsOK, NEW w \in Workers
  PROVE  /\ \A step \in Steps : Goto(w, step) => pc' \in [Workers -> Steps]
         /\ \A r \in Results : Leave(w, r) => LocalsOK'
         /\ Refusal(w) \in Results
         /\ Results \subseteq Steps
<1>1. \A step \in Steps : Goto(w, step) => pc' \in [Workers -> Steps]
  BY DEF LocalsOK, Goto
<1>2. Results \subseteq Steps /\ "clear" \in Steps
  BY DEF Steps
<1>3. ASSUME NEW r \in Results, Leave(w, r) PROVE LocalsOK'
  BY <1>1, <1>2, <1>3 DEF Leave, LocalsOK, Work
<1>4. Refusal(w) \in Results
  BY DEF Refusal, Results
<1> QED
  BY <1>1, <1>2, <1>3, <1>4

\* A run that starts, changes its status or is used is still a run.
LEMMA RunTypes ==
  ASSUME runs \in RunsType, NEW j \in Jobs, NEW p \in Purposes
  PROVE  /\ \A x \in Runs : [runs EXCEPT ![j][p] = x] \in RunsType
         /\ \A st \in {"failed", "succeeded"} : [runs EXCEPT ![j][p].state = st] \in RunsType
         /\ \A n \in Nat : [runs EXCEPT ![j][p].artifact = n] \in RunsType
<1>1. \A x \in Runs : [runs EXCEPT ![j][p] = x] \in RunsType
  BY DEF RunsType
<1>2. runs[j][p] \in Runs
  BY DEF RunsType
<1>3. ASSUME NEW st \in {"failed", "succeeded"}
      PROVE  [runs EXCEPT ![j][p].state = st] \in RunsType
  <2>1. [runs[j][p] EXCEPT !.state = st] \in Runs
    BY <1>2 DEF Runs
  <2>2. [runs EXCEPT ![j][p].state = st] = [runs EXCEPT ![j][p] = [runs[j][p] EXCEPT !.state = st]]
    BY Zenon DEF RunsType
  <2> QED
    BY <1>1, <2>1, <2>2
<1>4. ASSUME NEW n \in Nat PROVE [runs EXCEPT ![j][p].artifact = n] \in RunsType
  <2>1. [runs[j][p] EXCEPT !.artifact = n] \in Runs
    BY <1>2 DEF Runs
  <2>2. [runs EXCEPT ![j][p].artifact = n] = [runs EXCEPT ![j][p] = [runs[j][p] EXCEPT !.artifact = n]]
    BY Zenon DEF RunsType
  <2> QED
    BY <1>1, <2>1, <2>2
<1> QED
  BY <1>1, <1>3, <1>4

\* Attempts of jobs are only ever added.
LEMMA TriesGrow ==
  ASSUME QueueTypeOK, QueueStep, NEW j \in Jobs
  PROVE  tries'[j] \in Nat /\ tries[j] \in Nat /\ tries'[j] >= tries[j]
<1>1. tries[j] \in Nat
  BY HandlerRunsAssumption DEF QueueTypeOK
<1>2. CASE \E w \in Workers : \E k \in Jobs : ClaimJob(w, k)
  BY <1>1, <1>2 DEF ClaimJob, QueueTypeOK
<1>3. CASE UNCHANGED tries
  BY <1>1, <1>3
<1> QED
  BY <1>2, <1>3 DEF QueueStep, EnqueueJob, EnqueueJobOnce, RecoverJob, RetryJob, CancelJob,
     CloseJob, Die, queueVars, jobVars

\* The types without those of the queue.
RowsOK ==
  /\ stories \in Nat /\ status \in {"none", "draft", "ready"} /\ prompts \in BOOLEAN
  /\ revs \in [Platforms -> Seq(Revision)]
  /\ runs \in RunsType /\ calls \in [Jobs -> [Purposes -> Nat]]
  /\ fence \in [Jobs -> [attempt : Nat, worker : Workers \cup {Nobody}]]
  /\ \A j \in Jobs : \A p \in Purposes : runs[j][p].by <= tries[j]
  /\ \A j \in Jobs : fence[j].attempt <= tries[j]

LEMMA TypeParts == TypeOK <=> QueueTypeOK /\ RowsOK /\ LocalsOK
BY DEF TypeOK, RowsOK, LocalsOK, RunsType

\* Rows that keep their values keep their types when attempts are added.
LEMMA UnchangedRows ==
  ASSUME RowsOK, QueueTypeOK, QueueStep,
         UNCHANGED <<packVars, runs, calls, fence>>, prompts' \in BOOLEAN
  PROVE  RowsOK'
<1>1. \A j \in Jobs : fence[j].attempt \in Nat
  BY DEF RowsOK
<1>2. \A j \in Jobs : \A p \in Purposes : runs[j][p].by \in Nat
  BY DEF RowsOK, RunsType, Runs
<1>3. \A j \in Jobs : tries'[j] \in Nat /\ tries[j] \in Nat /\ tries'[j] >= tries[j]
  BY TriesGrow
<1>4. UNCHANGED <<stories, status, revs, runs, calls, fence>>
  BY DEF packVars
<1>5. ASSUME NEW j \in Jobs PROVE fence'[j].attempt <= tries'[j]
  <2>1. fence'[j].attempt = fence[j].attempt /\ fence[j].attempt <= tries[j]
    BY <1>4 DEF RowsOK
  <2> QED
    BY <1>1, <1>3, <2>1
<1>6. \A j \in Jobs : \A p \in Purposes : runs'[j][p].by <= tries'[j]
  BY <1>2, <1>3, <1>4 DEF RowsOK
<1>7. /\ stories' \in Nat /\ status' \in {"none", "draft", "ready"}
      /\ revs' \in [Platforms -> Seq(Revision)]
      /\ runs' \in RunsType
      /\ calls' \in [Jobs -> [Purposes -> Nat]]
      /\ fence' \in [Jobs -> [attempt : Nat, worker : Workers \cup {Nobody}]]
  BY <1>4 DEF RowsOK
<1> QED
  BY <1>5, <1>6, <1>7 DEF RowsOK

\* Revisions that are added or reviewed are revisions.
LEMMA RevisionTypes ==
  ASSUME revs \in [Platforms -> Seq(Revision)], NEW p \in Platforms
  PROVE  /\ Newest(p) \in Nat /\ DOMAIN revs[p] = 1..Newest(p)
         /\ \A x \in Revision :
              /\ [revs EXCEPT ![p] = Append(@, x)] \in [Platforms -> Seq(Revision)]
              /\ Append(revs[p], x) \in Seq(Revision)
         /\ \A n \in DOMAIN revs[p] : \A st \in {"approved", "rejected"} :
              [revs EXCEPT ![p][n].state = st] \in [Platforms -> Seq(Revision)]
<1>1. revs[p] \in Seq(Revision)
  OBVIOUS
<1>2. Newest(p) \in Nat /\ DOMAIN revs[p] = 1..Newest(p)
  BY <1>1 DEF Newest
<1>3. ASSUME NEW x \in Revision
      PROVE  /\ [revs EXCEPT ![p] = Append(@, x)] \in [Platforms -> Seq(Revision)]
             /\ Append(revs[p], x) \in Seq(Revision)
  <2>1. Append(revs[p], x) \in Seq(Revision)
    BY <1>1, AppendProperties
  <2> QED
    BY <2>1
<1>4. ASSUME NEW n \in DOMAIN revs[p], NEW st \in {"approved", "rejected"}
      PROVE  [revs EXCEPT ![p][n].state = st] \in [Platforms -> Seq(Revision)]
  <2>1. revs[p][n] \in Revision
    BY <1>1
  <2>2. [revs[p][n] EXCEPT !.state = st] \in Revision
    BY <2>1 DEF Revision
  <2>3. [revs[p] EXCEPT ![n] = [revs[p][n] EXCEPT !.state = st]] \in Seq(Revision)
    BY <1>1, <1>2, <2>2, ExceptSeq DEF Newest
  <2>4. [revs EXCEPT ![p][n].state = st]
          = [revs EXCEPT ![p] = [revs[p] EXCEPT ![n] = [revs[p][n] EXCEPT !.state = st]]]
    BY Zenon
  <2> QED
    BY <2>3, <2>4
<1> QED
  BY <1>2, <1>3, <1>4

\* Types of the rows where the attempts of jobs stay: what has to be shown of a
\* step, by the rows it writes.
LEMMA FixedTries ==
  ASSUME RowsOK, UNCHANGED tries,
         stories' \in Nat, status' \in {"none", "draft", "ready"}, UNCHANGED prompts,
         revs' \in [Platforms -> Seq(Revision)],
         runs' \in RunsType, calls' \in [Jobs -> [Purposes -> Nat]],
         \/ UNCHANGED fence
         \/ \E j \in Jobs : \E f \in [attempt : Nat, worker : Workers \cup {Nobody}] :
              fence' = [fence EXCEPT ![j] = f] /\ f.attempt <= tries[j],
         \A j \in Jobs : \A p \in Purposes : runs'[j][p].by <= tries[j]
  PROVE  RowsOK'
<1>1. /\ fence' \in [Jobs -> [attempt : Nat, worker : Workers \cup {Nobody}]]
      /\ \A j \in Jobs : fence'[j].attempt <= tries[j]
  <2>1. CASE UNCHANGED fence
    BY <2>1 DEF RowsOK
  <2>2. ASSUME NEW j \in Jobs, NEW f \in [attempt : Nat, worker : Workers \cup {Nobody}],
               fence' = [fence EXCEPT ![j] = f], f.attempt <= tries[j]
        PROVE  /\ fence' \in [Jobs -> [attempt : Nat, worker : Workers \cup {Nobody}]]
               /\ \A k \in Jobs : fence'[k].attempt <= tries[k]
    <3>1. \A k \in Jobs : fence'[k] = IF k = j THEN f ELSE fence[k]
      BY <2>2 DEF RowsOK
    <3> QED
      BY <2>2, <3>1 DEF RowsOK
  <2> QED
    BY <2>1, <2>2
<1>2. \A j \in Jobs : \A p \in Purposes : runs'[j][p].by <= tries'[j]
  OBVIOUS
<1>3. \A j \in Jobs : fence'[j].attempt <= tries'[j]
  BY <1>1
<1>4. prompts' \in BOOLEAN
  BY DEF RowsOK
<1> QED
  BY <1>1, <1>2, <1>3, <1>4, Zenon DEF RowsOK

\* The attempt that made a run stays known when the run changes its status.
LEMMA RunAttempts ==
  ASSUME RowsOK, QueueTypeOK, NEW j \in Jobs, NEW p \in Purposes
  PROVE  /\ \A x \in Runs : x.by <= tries[j] =>
              \A k \in Jobs : \A q \in Purposes : [runs EXCEPT ![j][p] = x][k][q].by <= tries[k]
         /\ \A st \in {"failed", "succeeded"} :
              \A k \in Jobs : \A q \in Purposes : [runs EXCEPT ![j][p].state = st][k][q].by <= tries[k]
         /\ \A n \in Nat :
              \A k \in Jobs : \A q \in Purposes : [runs EXCEPT ![j][p].artifact = n][k][q].by <= tries[k]
<1>1. \A k \in Jobs : \A q \in Purposes : runs[k][q].by <= tries[k]
  BY DEF RowsOK
<1>2. runs \in RunsType
  BY DEF RowsOK
<1>3. ASSUME NEW x \in Runs, x.by <= tries[j], NEW k \in Jobs, NEW q \in Purposes
      PROVE  [runs EXCEPT ![j][p] = x][k][q].by <= tries[k]
  <2>1. [runs EXCEPT ![j][p] = x][k][q] = IF k = j /\ q = p THEN x ELSE runs[k][q]
    BY <1>2 DEF RunsType
  <2> QED
    BY <1>1, <1>3, <2>1
<1>4. ASSUME NEW st \in {"failed", "succeeded"}, NEW k \in Jobs, NEW q \in Purposes
      PROVE  [runs EXCEPT ![j][p].state = st][k][q].by <= tries[k]
  <2>1. [runs EXCEPT ![j][p].state = st][k][q]
          = IF k = j /\ q = p THEN [runs[j][p] EXCEPT !.state = st] ELSE runs[k][q]
    BY <1>2, Zenon DEF RunsType
  <2>2. [runs[j][p] EXCEPT !.state = st].by = runs[j][p].by
    BY <1>2 DEF RunsType, Runs
  <2> QED
    BY <1>1, <2>1, <2>2
<1>5. ASSUME NEW n \in Nat, NEW k \in Jobs, NEW q \in Purposes
      PROVE  [runs EXCEPT ![j][p].artifact = n][k][q].by <= tries[k]
  <2>1. [runs EXCEPT ![j][p].artifact = n][k][q]
          = IF k = j /\ q = p THEN [runs[j][p] EXCEPT !.artifact = n] ELSE runs[k][q]
    BY <1>2, Zenon DEF RunsType
  <2>2. [runs[j][p] EXCEPT !.artifact = n].by = runs[j][p].by
    BY <1>2 DEF RunsType, Runs
  <2> QED
    BY <1>1, <2>1, <2>2
<1> QED
  BY <1>3, <1>4, <1>5

\* Reviews and edits.
LEMMA ReviewTypes ==
  ASSUME TypeOK, NEW p \in Platforms,
         Approve(p) \/ \E n \in 1..MaxRevision : Reject(p, n) \/ Edit(p, n)
  PROVE  TypeOK'
<1>0. RowsOK /\ LocalsOK /\ QueueTypeOK /\ revs \in [Platforms -> Seq(Revision)]
      /\ runs \in RunsType /\ calls \in [Jobs -> [Purposes -> Nat]]
  BY TypeParts DEF RowsOK
<1>1. \A j \in Jobs : \A q \in Purposes : runs[j][q].by <= tries[j]
  BY <1>0 DEF RowsOK
<1>2. UNCHANGED <<stories, runs, calls, fence, prompts, pc, wk, queueVars>>
  BY DEF Approve, Reject, Edit
<1>3. revs' \in [Platforms -> Seq(Revision)]
  <2>1. CASE Approve(p)
    <3>1. Newest(p) \in DOMAIN revs[p]
      BY <1>0, <2>1, RevisionTypes DEF Approve
    <3> QED
      BY <1>0, <2>1, <3>1, RevisionTypes DEF Approve
  <2>2. ASSUME NEW n \in 1..MaxRevision, Reject(p, n) PROVE revs' \in [Platforms -> Seq(Revision)]
    BY <1>0, <2>2, RevisionTypes DEF Reject
  <2>3. ASSUME NEW n \in 1..MaxRevision, Edit(p, n) PROVE revs' \in [Platforms -> Seq(Revision)]
    <3>1. Written(n, Nobody, TRUE) \in Revision
      BY ContentPacksAssumption DEF Written, Revision
    <3> QED
      BY <1>0, <2>3, <3>1, RevisionTypes DEF Edit
  <2> QED
    BY <2>1, <2>2, <2>3
<1>4. status' \in {"none", "draft", "ready"}
  BY <1>0 DEF RowsOK, Approve, Reject, Edit, Refreshed
<1>5. RowsOK'
  <2>1. stories' \in Nat /\ UNCHANGED <<tries, prompts, fence, runs, calls>>
    BY <1>0, <1>2 DEF RowsOK, queueVars, jobVars
  <2> QED
    BY <1>0, <1>1, <1>3, <1>4, <2>1, FixedTries
<1>6. QueueTypeOK' /\ LocalsOK'
  BY <1>0, <1>2 DEF QueueTypeOK, queueVars, jobVars, LocalsOK
<1> QED
  BY <1>5, <1>6 DEF TypeOK, RowsOK, LocalsOK, RunsType

\* Requests, the operator's other steps and the recovery of leases.
LEMMA QuietTypes ==
  ASSUME TypeOK, QueueTypeOK', QueueStep,
         RequestPack \/ ActivatePrompt \/ (\E j \in Jobs : RegenerateVariant(j) \/ Recover(j) \/ Operate(j))
         \/ UNCHANGED vars
  PROVE  TypeOK'
<1>1. UNCHANGED <<packVars, runs, calls, fence, pc, wk>> /\ (prompts' = prompts \/ prompts' = FALSE)
  BY DEF RequestPack, ActivatePrompt, RegenerateVariant, Recover, Operate, vars
<1>2. prompts' \in BOOLEAN
  BY <1>1, TypeParts, Zenon DEF RowsOK
<1>3. RowsOK'
  BY <1>1, <1>2, TypeParts, UnchangedRows
<1>4. LocalsOK'
  BY <1>1, TypeParts DEF LocalsOK
<1> QED
  BY <1>3, <1>4 DEF TypeOK, RowsOK, LocalsOK, RunsType

\* A worker's claim, end and death.
LEMMA TurnTypes ==
  ASSUME TypeOK, QueueTypeOK', QueueStep, NEW w \in Workers, Start(w) \/ End(w) \/ Crash(w)
  PROVE  TypeOK'
<1>0. RowsOK /\ LocalsOK /\ QueueTypeOK
  BY TypeParts
<1>1. UNCHANGED <<packVars, runs, calls, fence, prompts>>
  BY DEF Start, End, Crash
<1>2. prompts' \in BOOLEAN
  BY <1>0, <1>1 DEF RowsOK
<1>3. RowsOK'
  BY <1>0, <1>1, <1>2, UnchangedRows
<1>4. NoWork \in Work
  <2>1. 1 \in DOMAIN PackPlatforms
    BY ContentPacksAssumption, EmptySeq, LenProperties
  <2> QED
    BY <2>1 DEF NoWork, Work
<1>5. wk' \in [Workers -> Work]
  <2>1. CASE Start(w)
    <3>1. PICK j \in Jobs : wk' = [wk EXCEPT ![w].try = tries[j] + 1]
      BY <2>1 DEF Start
    <3>2. tries[j] + 1 \in Nat
      BY <1>0, HandlerRunsAssumption DEF QueueTypeOK
    <3> QED
      BY <1>0, <3>1, <3>2 DEF LocalsOK, Work
  <2>2. CASE End(w) \/ Crash(w)
    BY <1>0, <1>4, <2>2 DEF LocalsOK, End, Crash
  <2> QED
    BY <2>1, <2>2
<1>6. pc' \in [Workers -> Steps]
  <2>1. "load" \in Steps /\ "idle" \in Steps
    BY DEF Steps
  <2> QED
    BY <1>0, <2>1, LocalTypes DEF Start, End, Crash
<1> QED
  BY <1>3, <1>5, <1>6 DEF TypeOK, RowsOK, LocalsOK, RunsType

\* The handler's steps.
StageStep(w) ==
  \/ Load(w) \/ Reuse(w) \/ StartAttempt(w) \/ Before(w) \/ CallSucceeds(w)
  \/ (\E r \in Failures : CallFails(w, r)) \/ Ensure(w) \/ WriteStory(w)
  \/ (\E valid \in BOOLEAN : WriteVariant(w, valid)) \/ Clear(w)

\* A step of a handler is that of a worker on a job.
LEMMA StageWorks ==
  ASSUME TypeOK, WorkInv, NEW w \in Workers, StageStep(w)
  PROVE  cur[w] \in Jobs /\ cur[w] # NoJob /\ wk[w] \in Work /\ wk[w].try \in 1..tries[cur[w]]
<1>1. pc[w] # "idle"
  BY DEF StageStep, Load, Reuse, StartAttempt, Before, CallSucceeds, CallFails, Ensure,
     WriteStory, WriteVariant, Clear
<1>2. cur[w] # NoJob
  BY <1>1 DEF WorkInv
<1>3. cur[w] \in Jobs /\ wk[w] \in Work
  BY <1>2 DEF TypeOK, QueueTypeOK
<1>4. wk[w].try \in 1..tries[cur[w]]
  BY <1>2 DEF WorkInv
<1> QED
  BY <1>2, <1>3, <1>4

LEMMA StageLocalTypes ==
  ASSUME TypeOK, WorkInv, NEW w \in Workers, StageStep(w)
  PROVE  LocalsOK'
<1>0. LocalsOK
  BY TypeParts
<1> USE <1>0
<1>1. wk[w] \in Work /\ Results \subseteq Steps
  BY StageWorks, LocalTypes
<1>s. /\ \A st \in {"idle", "load", "stage", "before", "call", "ensure", "write", "clear", "succeeded", "retryable"} :
           Goto(w, st) => pc' \in [Workers -> Steps]
      /\ \A r \in Results : Leave(w, r) => LocalsOK'
      /\ Refusal(w) \in Results
      /\ "retryable" \in Results /\ "permanent" \in Results /\ "needs_review" \in Results
  <2>1. {"idle", "load", "stage", "before", "call", "ensure", "write", "clear", "succeeded", "retryable"} \subseteq Steps
    BY DEF Steps, Results
  <2> QED
    BY <2>1, LocalTypes DEF Results
<1>w. UNCHANGED wk /\ pc' \in [Workers -> Steps] => LocalsOK'
  BY DEF LocalsOK
<1>f. \A r \in Results : Failed(w, r) => LocalsOK'
  BY <1>s DEF Failed
<1>a. ASSUME NEW errors \in BOOLEAN, Advance(w, errors) PROVE LocalsOK'
  <2>1. PICK last \in BOOLEAN :
          /\ last = (Regenerates(w) \/ wk[w].i = Len(PackPlatforms))
          /\ IF last /\ errors THEN Leave(w, "needs_review")
             ELSE /\ wk' = [wk EXCEPT ![w].i = IF last THEN @ ELSE @ + 1, ![w].errors = errors]
                  /\ Goto(w, IF last THEN "succeeded" ELSE "stage")
    BY <1>a, Zenon DEF Advance
  <2>2. CASE last /\ errors
    BY <1>s, <2>1, <2>2
  <2>3. CASE ~(last /\ errors)
    <3>1. wk' = [wk EXCEPT ![w].i = IF last THEN @ ELSE @ + 1, ![w].errors = errors]
      BY <2>1, <2>3
    <3>2. DOMAIN PackPlatforms = 1..Len(PackPlatforms) /\ Len(PackPlatforms) \in Nat
      BY ContentPacksAssumption, LenProperties
    <3>3. (IF last THEN wk[w].i ELSE wk[w].i + 1) \in DOMAIN PackPlatforms
      <4>1. wk[w].i \in DOMAIN PackPlatforms
        BY <1>1 DEF Work
      <4>2. ~last => wk[w].i # Len(PackPlatforms)
        BY <2>1, Zenon
      <4> QED
        BY <3>2, <4>1, <4>2
    <3>4. wk' \in [Workers -> Work]
      BY <1>0, <1>1, <3>1, <3>3, Zenon DEF LocalsOK, Work
    <3>5. pc' \in [Workers -> Steps]
      BY <1>s, <2>1, <2>3
    <3> QED
      BY <3>4, <3>5 DEF LocalsOK
  <2> QED
    BY <2>2, <2>3
<1>2. CASE Load(w)
  BY <1>2, <1>s, <1>w DEF Load
<1>3. CASE Reuse(w)
  BY <1>3, <1>s, <1>w DEF Reuse
<1>4. CASE StartAttempt(w)
  <2>1. Run(w).active + 1 \in Nat
    BY StageWorks, PurposeOfWorker, TypeParts DEF RowsOK, RunsType, Runs, Run
  <2>2. CASE wk' = [wk EXCEPT ![w].att = Run(w).active + 1] /\ Goto(w, "before")
    BY <1>0, <1>s, <2>1, <2>2 DEF LocalsOK, Work
  <2> QED
    BY <1>4, <1>s, <2>2 DEF StartAttempt
<1>5. CASE Before(w)
  <2>1. CASE wk' = [wk EXCEPT ![w].fenced = Regenerates(w)] /\ Goto(w, "call")
    <3>1. Regenerates(w) \in BOOLEAN
      BY DEF Regenerates
    <3>2. wk' \in [Workers -> Work]
      BY <1>0, <1>1, <2>1, <3>1, Zenon DEF LocalsOK, Work
    <3> QED
      BY <1>s, <2>1, <3>2 DEF LocalsOK
  <2> QED
    BY <1>5, <1>s, <1>f, <2>1 DEF Before
<1>6. CASE CallSucceeds(w)
  BY <1>6, <1>s, <1>w DEF CallSucceeds
<1>7. ASSUME NEW r \in Failures, CallFails(w, r) PROVE LocalsOK'
  BY <1>7, <1>f DEF CallFails, Failures, Results
<1>8. CASE Ensure(w)
  <2>1. CASE wk' = [wk EXCEPT ![w].fenced = TRUE] /\ Goto(w, "write")
    <3>2. wk' \in [Workers -> Work]
      BY <1>0, <1>1, <2>1, Zenon DEF LocalsOK, Work
    <3> QED
      BY <1>s, <2>1, <3>2 DEF LocalsOK
  <2> QED
    BY <1>8, <1>s, <2>1 DEF Ensure
<1>9. CASE WriteStory(w)
  BY <1>9, <1>s, <1>w DEF WriteStory
<1>10. ASSUME NEW valid \in BOOLEAN, WriteVariant(w, valid) PROVE LocalsOK'
  <2>1. \/ \E r \in {"retryable", "needs_review"} : Leave(w, r)
        \/ Advance(w, wk[w].errors \/ GatesFailed(w)) \/ Advance(w, wk[w].errors \/ ~valid)
    BY <1>10 DEF WriteVariant
  <2>2. \A e \in BOOLEAN : Advance(w, e) => LocalsOK'
    BY <1>a
  <2>3. \A r \in {"retryable", "needs_review"} : Leave(w, r) => LocalsOK'
    BY <1>s
  <2>4. (wk[w].errors \/ GatesFailed(w)) \in BOOLEAN /\ (wk[w].errors \/ ~valid) \in BOOLEAN
    OBVIOUS
  <2> QED
    BY <2>1, <2>2, <2>3, <2>4, Zenon
<1>11. CASE Clear(w)
  <2>1. wk[w].res \in Results
    BY <1>11 DEF Clear, WorkInv
  <2> QED
    BY <1>0, <1>1, <1>11, <1>w, <2>1, LocalTypes DEF Clear
<1> QED
  BY <1>2, <1>3, <1>4, <1>5, <1>6, <1>7, <1>8, <1>9, <1>10, <1>11 DEF StageStep

\* What a step of a handler may write.
LEMMA StageRowTypes ==
  ASSUME TypeOK, WorkInv, NEW w \in Workers, StageStep(w)
  PROVE  RowsOK' /\ UNCHANGED tries
<1> DEFINE j == cur[w]
           p == Purpose(w)
           Fences == [attempt : Nat, worker : Workers \cup {Nobody}]
<1>1. /\ RowsOK /\ QueueTypeOK /\ stories \in Nat /\ status \in {"none", "draft", "ready"}
      /\ revs \in [Platforms -> Seq(Revision)] /\ runs \in RunsType
      /\ calls \in [Jobs -> [Purposes -> Nat]]
      /\ \A k \in Jobs : \A q \in Purposes : runs[k][q].by <= tries[k]
  BY TypeParts DEF RowsOK
<1>2. /\ j \in Jobs /\ p \in Purposes /\ tries[j] \in Nat
      /\ wk[w].try \in Nat /\ wk[w].try <= tries[j]
  BY <1>1, StageWorks, PurposeOfWorker, HandlerRunsAssumption DEF QueueTypeOK
<1>3. UNCHANGED <<prompts, tries>>
  BY DEF StageStep, Load, Reuse, StartAttempt, Before, CallSucceeds, CallFails, Ensure,
     WriteStory, WriteVariant, Clear, EnqueueJobOnce, queueVars, jobVars
<1>4. /\ stories' \in Nat /\ status' \in {"none", "draft", "ready"}
  BY <1>1 DEF StageStep, Load, Reuse, StartAttempt, Before, CallSucceeds, CallFails, Ensure,
     WriteStory, WriteVariant, Clear, packVars, DraftPack
<1>5. revs' \in [Platforms -> Seq(Revision)]
  <2>1. ASSUME NEW valid \in BOOLEAN, WriteVariant(w, valid)
        PROVE  revs' \in [Platforms -> Seq(Revision)]
    <3>1. CASE revs' = [revs EXCEPT ![p] = Append(@, Written(Newest(p), j, valid))]
      <4>1. p \in Platforms
        BY <1>2, <2>1, StageWorks, PurposeOfWorker DEF WriteVariant
      <4>2. Newest(p) \in Nat
        BY <1>1, <4>1, RevisionTypes
      <4>3. Written(Newest(p), j, valid) \in Revision
        BY <1>2, <4>2 DEF Written, Revision
      <4> QED
        BY <1>1, <3>1, <4>1, <4>3, RevisionTypes
    <3> QED
      BY <1>1, <2>1, <3>1 DEF WriteVariant
  <2>2. CASE UNCHANGED revs
    BY <1>1, <2>2
  <2> QED
    BY <2>1, <2>2 DEF StageStep, Load, Reuse, StartAttempt, Before, CallSucceeds, CallFails,
       Ensure, WriteStory, Clear, packVars
<1>6. calls' \in [Jobs -> [Purposes -> Nat]]
  <2>1. [calls EXCEPT ![j][p] = @ + 1] \in [Jobs -> [Purposes -> Nat]]
    BY <1>1, <1>2
  <2> QED
    BY <1>1, <2>1 DEF StageStep, Load, Reuse, StartAttempt, Before, CallSucceeds, CallFails,
       Ensure, WriteStory, WriteVariant, Clear
<1>7. /\ runs' \in RunsType
      /\ \A k \in Jobs : \A q \in Purposes : runs'[k][q].by <= tries[k]
  <2>1. CASE UNCHANGED runs
    BY <1>1, <2>1
  <2>2. ASSUME NEW st \in {"failed", "succeeded"}, runs' = [runs EXCEPT ![j][p].state = st]
        PROVE  /\ runs' \in RunsType
               /\ \A k \in Jobs : \A q \in Purposes : runs'[k][q].by <= tries[k]
    BY <1>1, <1>2, <2>2, RunTypes, RunAttempts
  <2>3. ASSUME NEW n \in Nat, runs' = [runs EXCEPT ![j][p].artifact = n]
        PROVE  /\ runs' \in RunsType
               /\ \A k \in Jobs : \A q \in Purposes : runs'[k][q].by <= tries[k]
    BY <1>1, <1>2, <2>3, RunTypes, RunAttempts
  <2>4. CASE StartAttempt(w)
    <3>1. Run(w).active + 1 \in Nat
      BY <1>1, <1>2 DEF RunsType, Runs, Run
    <3>2. [state |-> "running", active |-> Run(w).active + 1, by |-> wk[w].try, artifact |-> 0] \in Runs
      BY <1>2, <3>1 DEF Runs
    <3>3. CASE runs' = [runs EXCEPT ![j][p] =
                 [state |-> "running", active |-> Run(w).active + 1, by |-> wk[w].try, artifact |-> 0]]
      BY <1>1, <1>2, <3>2, <3>3, RunTypes, RunAttempts
    <3> QED
      BY <2>1, <2>4, <3>3 DEF StartAttempt
  <2>5. CASE Before(w) \/ \E r \in Failures : CallFails(w, r)
    BY <2>1, <2>2, <2>5 DEF Before, CallFails, Failed
  <2>6. CASE CallSucceeds(w)
    BY <2>1, <2>2, <2>6 DEF CallSucceeds
  <2>7. CASE WriteStory(w)
    <3>1. stories + 1 \in Nat
      BY <1>1
    <3> QED
      BY <2>1, <2>3, <2>7, <3>1 DEF WriteStory
  <2>8. ASSUME NEW valid \in BOOLEAN, WriteVariant(w, valid)
        PROVE  /\ runs' \in RunsType
               /\ \A k \in Jobs : \A q \in Purposes : runs'[k][q].by <= tries[k]
    <3>1. p \in Platforms
      BY <1>2, <2>8, StageWorks, PurposeOfWorker DEF WriteVariant
    <3>2. Newest(p) + 1 \in Nat
      BY <1>1, <3>1, RevisionTypes
    <3> QED
      BY <2>1, <2>3, <2>8, <3>2 DEF WriteVariant
  <2>9. CASE Load(w) \/ Reuse(w) \/ Ensure(w) \/ Clear(w)
    BY <2>1, <2>9 DEF Load, Reuse, Ensure, Clear
  <2> QED
    BY <2>4, <2>5, <2>6, <2>7, <2>8, <2>9 DEF StageStep
<1>8. \/ UNCHANGED fence
      \/ \E k \in Jobs : \E f \in Fences : fence' = [fence EXCEPT ![k] = f] /\ f.attempt <= tries[k]
  <2>1. /\ [attempt |-> wk[w].try, worker |-> w] \in Fences
        /\ [attempt |-> wk[w].try, worker |-> w].attempt <= tries[j]
    BY <1>2
  <2>2. NoFence \in Fences /\ NoFence.attempt <= tries[j]
    BY <1>2 DEF NoFence
  <2>3. UNCHANGED fence \/ Fence(w) \/ fence' = [fence EXCEPT ![j] = NoFence]
    BY DEF StageStep, Load, Reuse, StartAttempt, Before, CallSucceeds, CallFails,
       Ensure, WriteStory, WriteVariant, Advance, Clear
  <2> QED
    BY <1>2, <2>1, <2>2, <2>3 DEF Fence
<1> HIDE DEF j, p, Fences
<1>9. RowsOK'
  BY <1>1, <1>3, <1>4, <1>5, <1>6, <1>7, <1>8, FixedTries DEF Fences
<1> QED
  BY <1>3, <1>9

LEMMA TypeKeeps ==
  ASSUME IInv, [Next]_vars
  PROVE  QueueInv' /\ TypeOK'
<1>0. TypeOK /\ WorkInv /\ QueueStep /\ QueueInv' /\ QueueTypeOK'
  <2>1. TypeOK /\ WorkInv /\ QueueInv
    BY DEF IInv
  <2>2. QueueStep
    BY <2>1, NextIsQueueStep
  <2> QED
    BY <2>1, <2>2, QueueKeeps DEF QueueInv
<1>1. ASSUME NEW w \in Workers, StageStep(w) PROVE TypeOK'
  BY <1>0, <1>1, StageRowTypes, StageLocalTypes DEF TypeOK, RowsOK, LocalsOK, RunsType
<1>2. ASSUME NEW w \in Workers, Start(w) \/ WorkerStep(w) \/ Crash(w) PROVE TypeOK'
  BY <1>0, <1>1, <1>2, TurnTypes DEF WorkerStep, StageStep
<1> QED
  BY <1>0, <1>2, ReviewTypes, QuietTypes DEF Next

-----------------------------------------------------------------------------
(* Steps and their workers. *)

\* A step of a handler concerns its own worker alone.
LEMMA StageFrame ==
  ASSUME TypeOK, WorkInv, NEW w \in Workers, StageStep(w)
  PROVE  /\ UNCHANGED cur
         /\ \A v \in Workers : v # w => pc'[v] = pc[v] /\ wk'[v] = wk[v]
         /\ wk'[w].try = wk[w].try /\ pc'[w] # "idle"
         /\ pc'[w] = "clear" => wk'[w].res \in Results
         /\ pc'[w] = "ensure" => Regenerates(w)
<1>0. /\ pc \in [Workers -> Steps] /\ wk \in [Workers -> Work] /\ wk[w] \in Work
      /\ "idle" \notin Results /\ "clear" \notin Results /\ "ensure" \notin Results
  BY DEF TypeOK, Results
<1>1. UNCHANGED cur
  BY DEF StageStep, Load, Reuse, StartAttempt, Before, CallSucceeds, CallFails, Ensure,
     WriteStory, WriteVariant, Clear, EnqueueJobOnce, queueVars
<1> DEFINE Good ==
      /\ \A v \in Workers : v # w => pc'[v] = pc[v] /\ wk'[v] = wk[v]
      /\ wk'[w].try = wk[w].try /\ pc'[w] # "idle"
      /\ pc'[w] = "clear" => wk'[w].res \in Results
      /\ pc'[w] = "ensure" => Regenerates(w)
<1> SUFFICES Good
  BY <1>1
<1>g. ASSUME NEW step, step \notin {"idle", "clear"}, step = "ensure" => Regenerates(w),
             Goto(w, step), UNCHANGED wk
      PROVE  Good
  BY <1>0, <1>g DEF Goto
<1>l. ASSUME NEW r \in Results, Leave(w, r) PROVE Good
  BY <1>0, <1>l DEF Leave, Goto, Regenerates, Work
<1>f. ASSUME NEW r \in Results, Failed(w, r) PROVE Good
  BY <1>f, <1>l DEF Failed
<1>a. ASSUME NEW e \in BOOLEAN, Advance(w, e) PROVE Good
  <2>1. \/ Leave(w, "needs_review")
        \/ \E i : \E step \in {"succeeded", "stage"} :
             wk' = [wk EXCEPT ![w].i = i, ![w].errors = e] /\ Goto(w, step)
    BY <1>a, Zenon DEF Advance
  <2>2. ASSUME NEW i, NEW step \in {"succeeded", "stage"},
               wk' = [wk EXCEPT ![w].i = i, ![w].errors = e], Goto(w, step)
        PROVE  Good
    BY <1>0, <2>2 DEF Goto, Work
  <2>3. "needs_review" \in Results
    BY DEF Results
  <2> QED
    BY <1>l, <2>1, <2>2, <2>3
<1>r. "retryable" \in Results /\ "permanent" \in Results /\ "needs_review" \in Results
      /\ Refusal(w) \in Results
  BY DEF Results, Refusal
<1> HIDE DEF Good
<1>2. CASE Load(w)
  BY <1>2, <1>g, <1>l, <1>r DEF Load
<1>3. CASE Reuse(w)
  BY <1>3, <1>g DEF Reuse
<1>4. CASE StartAttempt(w)
  <2>1. CASE wk' = [wk EXCEPT ![w].att = Run(w).active + 1] /\ Goto(w, "before")
    BY <1>0, <2>1 DEF Goto, Work, Good
  <2> QED
    BY <1>4, <1>l, <1>r, <2>1 DEF StartAttempt
<1>5. CASE Before(w)
  <2>1. CASE wk' = [wk EXCEPT ![w].fenced = Regenerates(w)] /\ Goto(w, "call")
    BY <1>0, <2>1 DEF Goto, Work, Good
  <2> QED
    BY <1>5, <1>f, <1>r, <2>1 DEF Before
<1>6. CASE CallSucceeds(w)
  BY <1>6, <1>g, <1>l, <1>r DEF CallSucceeds
<1>7. ASSUME NEW r \in Failures, CallFails(w, r) PROVE Good
  BY <1>7, <1>f DEF CallFails, Failures, Results
<1>8. CASE Ensure(w)
  <2>1. CASE wk' = [wk EXCEPT ![w].fenced = TRUE] /\ Goto(w, "write")
    BY <1>0, <2>1 DEF Goto, Work, Good
  <2> QED
    BY <1>8, <1>l, <1>r, <2>1 DEF Ensure
<1>9. CASE WriteStory(w)
  BY <1>9, <1>g DEF WriteStory
<1>10. ASSUME NEW valid \in BOOLEAN, WriteVariant(w, valid) PROVE Good
  <2>1. \/ \E r \in {"retryable", "needs_review"} : Leave(w, r)
        \/ Advance(w, wk[w].errors \/ GatesFailed(w)) \/ Advance(w, wk[w].errors \/ ~valid)
    BY <1>10 DEF WriteVariant
  <2>2. (wk[w].errors \/ GatesFailed(w)) \in BOOLEAN /\ (wk[w].errors \/ ~valid) \in BOOLEAN
    OBVIOUS
  <2>3. \A r \in {"retryable", "needs_review"} : Leave(w, r) => Good
    BY <1>l, <1>r
  <2>4. \A e \in BOOLEAN : Advance(w, e) => Good
    BY <1>a
  <2> QED
    BY <2>1, <2>2, <2>3, <2>4, Zenon
<1>11. CASE Clear(w)
  <2>1. wk[w].res \in Results
    BY <1>11 DEF Clear, WorkInv
  <2> QED
    BY <1>0, <1>11, <1>g, <2>1 DEF Clear
<1> QED
  BY <1>2, <1>3, <1>4, <1>5, <1>6, <1>7, <1>8, <1>9, <1>10, <1>11 DEF StageStep

LEMMA WorkKeeps ==
  ASSUME IInv, [Next]_vars
  PROVE  WorkInv'
<1>0. TypeOK /\ WorkInv /\ QueueStep /\ QueueTypeOK /\ TypeOK'
      /\ pc \in [Workers -> Steps] /\ wk \in [Workers -> Work] /\ cur \in [Workers -> Jobs \cup {NoJob}]
  BY TypeKeeps, NextIsQueueStep DEF IInv, TypeOK, QueueTypeOK
<1>1. \A j \in Jobs : tries'[j] \in Nat /\ tries[j] \in Nat /\ tries'[j] >= tries[j]
  BY <1>0, TriesGrow
<1>2. ASSUME NEW v \in Workers, cur'[v] = cur[v], pc'[v] = pc[v], wk'[v] = wk[v]
      PROVE  /\ cur'[v] = NoJob <=> pc'[v] = "idle"
             /\ cur'[v] # NoJob => wk'[v].try \in 1..tries'[cur'[v]]
             /\ pc'[v] = "ensure" => Regenerates(v)'
             /\ pc'[v] = "clear" => wk'[v].res \in Results
  <2>1. cur[v] # NoJob => cur[v] \in Jobs
    BY <1>0
  <2>2. cur[v] # NoJob => wk[v].try \in 1..tries[cur[v]]
    BY <1>0 DEF WorkInv
  <2>3. cur[v] # NoJob => wk[v].try \in 1..tries'[cur[v]]
    BY <1>1, <2>1, <2>2
  <2> QED
    BY <1>0, <1>2, <2>3 DEF WorkInv, Regenerates
<1>3. ASSUME NEW w \in Workers, StageStep(w) PROVE WorkInv'
  <2>1. /\ cur'[w] = NoJob <=> pc'[w] = "idle"
        /\ cur'[w] # NoJob => wk'[w].try \in 1..tries'[cur'[w]]
        /\ pc'[w] = "ensure" => Regenerates(w)'
        /\ pc'[w] = "clear" => wk'[w].res \in Results
    <3>1. cur[w] \in Jobs /\ cur[w] # NoJob /\ wk[w].try \in 1..tries[cur[w]]
      BY <1>0, <1>3, StageWorks
    <3>2. wk[w].try \in 1..tries'[cur[w]]
      BY <1>1, <3>1
    <3>3. /\ UNCHANGED cur /\ wk'[w].try = wk[w].try /\ pc'[w] # "idle"
          /\ pc'[w] = "clear" => wk'[w].res \in Results
          /\ pc'[w] = "ensure" => Regenerates(w)
      BY <1>0, <1>3, StageFrame
    <3> QED
      BY <3>1, <3>2, <3>3 DEF Regenerates
  <2>2. \A v \in Workers : v # w => cur'[v] = cur[v] /\ pc'[v] = pc[v] /\ wk'[v] = wk[v]
    BY <1>0, <1>3, StageFrame
  <2> QED
    BY <1>2, <2>1, <2>2 DEF WorkInv
<1>4. ASSUME NEW w \in Workers, NEW j \in Jobs, ClaimJob(w, j),
             wk' = [wk EXCEPT ![w].try = tries[j] + 1], Goto(w, "load")
      PROVE  WorkInv'
  <2>1. /\ cur'[w] = j /\ j # NoJob /\ pc'[w] = "load" /\ tries'[j] = tries[j] + 1
        /\ wk'[w].try = tries[j] + 1
    BY <1>0, <1>4, HandlerRunsAssumption DEF ClaimJob, Goto, Work, QueueTypeOK
  <2>2. tries[j] + 1 \in 1..(tries[j] + 1)
    BY <1>1
  <2>3. \A v \in Workers : v # w => cur'[v] = cur[v] /\ pc'[v] = pc[v] /\ wk'[v] = wk[v]
    BY <1>0, <1>4 DEF ClaimJob, Goto
  <2> QED
    BY <1>2, <2>1, <2>2, <2>3 DEF WorkInv
<1>5. ASSUME NEW w \in Workers, End(w) \/ Crash(w) PROVE WorkInv'
  <2>1. cur'[w] = NoJob /\ pc'[w] = "idle"
    BY <1>0, <1>5 DEF End, Crash, CloseJob, Die, Goto
  <2>2. \A v \in Workers : v # w => cur'[v] = cur[v] /\ pc'[v] = pc[v] /\ wk'[v] = wk[v]
    BY <1>0, <1>5 DEF End, Crash, CloseJob, Die, Goto
  <2> QED
    BY <1>2, <2>1, <2>2 DEF WorkInv
<1>6. CASE UNCHANGED <<cur, pc, wk>>
  BY <1>2, <1>6 DEF WorkInv
<1>7. ASSUME RequestPack \/ ActivatePrompt \/ (\E j \in Jobs : RegenerateVariant(j) \/ Recover(j) \/ Operate(j))
             \/ UNCHANGED vars
             \/ \E p \in Platforms : Approve(p) \/ \E n \in 1..MaxRevision : Reject(p, n) \/ Edit(p, n)
      PROVE  UNCHANGED <<cur, pc, wk>>
  BY <1>7 DEF RequestPack, ActivatePrompt, RegenerateVariant, Recover, Operate, Approve, Reject,
     Edit, vars, EnqueueJob, RecoverJob, RetryJob, CancelJob, queueVars
<1>8. ASSUME NEW w \in Workers, Start(w) \/ WorkerStep(w) \/ Crash(w) PROVE WorkInv'
  BY <1>3, <1>4, <1>5, <1>8 DEF Start, WorkerStep, StageStep
<1> QED
  BY <1>6, <1>7, <1>8 DEF Next

-----------------------------------------------------------------------------
(* Runs. *)

\* What becomes of the run of a stage, and of the worker on it.
Unchanges(w) ==
  /\ UNCHANGED runs
  /\ pc'[w] \in {"before", "call"} => Open(w) /\ wk'[w].att = wk[w].att /\ wk'[w].i = wk[w].i
  /\ pc'[w] \in {"ensure", "write"} => Run(w).state = "succeeded" /\ wk'[w].i = wk[w].i
Starts(w, x) ==
  /\ Run(w).state # "succeeded" /\ pc[w] = "stage" /\ pc'[w] = "before"
  /\ x.state = "running" /\ x.active = Run(w).active + 1 /\ x.artifact = 0
  /\ wk'[w].att = x.active /\ wk'[w].i = wk[w].i
Fails(w, x) ==
  /\ Open(w) /\ wk[w].att = Run(w).active /\ x = [Run(w) EXCEPT !.state = "failed"]
  /\ pc'[w] \notin {"before", "call", "ensure", "write"}
Succeeds(w, x) ==
  /\ Open(w) /\ IsActive(w) /\ x = [Run(w) EXCEPT !.state = "succeeded"]
  /\ pc'[w] = "write" /\ wk'[w].i = wk[w].i
IsUsed(w, x) ==
  /\ pc[w] = "write" /\ Run(w).artifact = 0
  /\ \E n \in Nat \ {0} : x = [Run(w) EXCEPT !.artifact = n]
  /\ pc'[w] \notin {"before", "call", "ensure", "write"}

\* A run that changes its status or is used is still a run, and the others stay.
LEMMA RunUpdates ==
  ASSUME runs \in RunsType, NEW j \in Jobs, NEW p \in Purposes
  PROVE  /\ \A st \in {"failed", "succeeded"} :
              [runs EXCEPT ![j][p].state = st] = [runs EXCEPT ![j][p] = [runs[j][p] EXCEPT !.state = st]]
         /\ \A n \in Nat :
              [runs EXCEPT ![j][p].artifact = n] = [runs EXCEPT ![j][p] = [runs[j][p] EXCEPT !.artifact = n]]
<1>1. ASSUME NEW st \in {"failed", "succeeded"}
      PROVE [runs EXCEPT ![j][p].state = st] = [runs EXCEPT ![j][p] = [runs[j][p] EXCEPT !.state = st]]
  BY Zenon DEF RunsType
<1>2. ASSUME NEW n \in Nat
      PROVE [runs EXCEPT ![j][p].artifact = n] = [runs EXCEPT ![j][p] = [runs[j][p] EXCEPT !.artifact = n]]
  BY Zenon DEF RunsType
<1> QED
  BY <1>1, <1>2

LEMMA StageEffects ==
  ASSUME TypeOK, WorkInv, UsedInv, NEW w \in Workers, StageStep(w)
  PROVE  \/ Unchanges(w)
         \/ \E x : /\ runs' = [runs EXCEPT ![cur[w]][Purpose(w)] = x]
                   /\ Starts(w, x) \/ Fails(w, x) \/ Succeeds(w, x) \/ IsUsed(w, x)
<1> DEFINE j == cur[w]
           p == Purpose(w)
<1>0. /\ pc \in [Workers -> Steps] /\ wk \in [Workers -> Work] /\ wk[w] \in Work
      /\ "before" \notin Results /\ "call" \notin Results
      /\ "ensure" \notin Results /\ "write" \notin Results
      /\ j \in Jobs /\ p \in Purposes /\ runs \in RunsType
      /\ revs \in [Platforms -> Seq(Revision)] /\ stories \in Nat
  BY StageWorks, PurposeOfWorker DEF TypeOK, Results, RunsType
<1>l. ASSUME NEW r \in Results, Leave(w, r)
      PROVE  pc'[w] \notin {"before", "call", "ensure", "write"}
  BY <1>0, <1>l DEF Leave, Goto
<1>a. ASSUME NEW e \in BOOLEAN, Advance(w, e)
      PROVE  pc'[w] \notin {"before", "call", "ensure", "write"}
  <2>1. Leave(w, "needs_review") \/ Goto(w, "succeeded") \/ Goto(w, "stage")
    BY <1>a, Zenon DEF Advance
  <2>2. "needs_review" \in Results
    BY DEF Results
  <2> QED
    BY <1>0, <1>l, <2>1, <2>2 DEF Goto
<1>r. "retryable" \in Results /\ "permanent" \in Results /\ "needs_review" \in Results
      /\ Refusal(w) \in Results
  BY DEF Results, Refusal
<1>f. ASSUME NEW r \in Results, Failed(w, r), Open(w)
      PROVE  \/ Unchanges(w)
             \/ \E x : runs' = [runs EXCEPT ![j][p] = x] /\ Fails(w, x)
  <2>1. pc'[w] \notin {"before", "call", "ensure", "write"}
    BY <1>f, <1>l DEF Failed
  <2>2. CASE UNCHANGED runs
    BY <2>1, <2>2 DEF Unchanges
  <2>3. CASE Run(w).active = wk[w].att /\ runs' = [runs EXCEPT ![j][p].state = "failed"]
    <3>1. runs' = [runs EXCEPT ![j][p] = [Run(w) EXCEPT !.state = "failed"]]
      BY <1>0, <2>3, RunUpdates DEF Run
    <3>2. Fails(w, [Run(w) EXCEPT !.state = "failed"])
      BY <1>f, <2>1, <2>3 DEF Fails
    <3> QED
      BY <3>1, <3>2
  <2> QED
    BY <1>f, <2>2, <2>3 DEF Failed
<1>2. CASE Load(w)
  BY <1>0, <1>2, <1>l, <1>r DEF Load, Goto, Unchanges
<1>3. CASE Reuse(w)
  BY <1>0, <1>3 DEF Reuse, Goto, Unchanges
<1>4. CASE StartAttempt(w)
  <2> DEFINE x == [state |-> "running", active |-> Run(w).active + 1, by |-> wk[w].try, artifact |-> 0]
  <2>1. CASE runs' = [runs EXCEPT ![j][p] = x] /\ wk' = [wk EXCEPT ![w].att = Run(w).active + 1]
             /\ Goto(w, "before")
    <3>1. wk'[w].att = Run(w).active + 1 /\ wk'[w].i = wk[w].i /\ pc'[w] = "before"
      BY <1>0, <2>1 DEF Goto, Work
    <3>2. Starts(w, x)
      BY <1>4, <3>1 DEF Starts, StartAttempt
    <3> QED
      BY <2>1, <3>2
  <2>2. CASE Leave(w, "retryable") /\ UNCHANGED runs
    BY <1>l, <1>r, <2>2 DEF Unchanges
  <2> QED
    BY <1>4, <2>1, <2>2 DEF StartAttempt
<1>5. CASE Before(w)
  <2>1. CASE wk' = [wk EXCEPT ![w].fenced = Regenerates(w)] /\ Goto(w, "call") /\ UNCHANGED runs
    <3>1. wk'[w].att = wk[w].att /\ wk'[w].i = wk[w].i /\ pc'[w] = "call"
      BY <1>0, <2>1 DEF Goto, Work
    <3> QED
      BY <1>5, <2>1, <3>1 DEF Unchanges, Open, Before
  <2>2. Open(w)
    BY <1>5 DEF Before, Open
  <2> QED
    BY <1>5, <1>f, <1>r, <2>1, <2>2 DEF Before
<1>6. CASE CallSucceeds(w)
  <2>1. CASE IsActive(w)
    <3>1. runs' = [runs EXCEPT ![j][p] = [Run(w) EXCEPT !.state = "succeeded"]]
      BY <1>0, <1>6, <2>1, RunUpdates DEF Run, CallSucceeds
    <3>2. Succeeds(w, [Run(w) EXCEPT !.state = "succeeded"])
      BY <1>0, <1>6, <2>1 DEF Succeeds, CallSucceeds, Goto, Open
    <3> QED
      BY <3>1, <3>2
  <2>2. CASE ~IsActive(w)
    BY <1>6, <1>l, <1>r, <2>2 DEF CallSucceeds, Unchanges
  <2> QED
    BY <2>1, <2>2
<1>7. ASSUME NEW r \in Failures, CallFails(w, r)
      PROVE  Unchanges(w) \/ \E x : runs' = [runs EXCEPT ![j][p] = x] /\ Fails(w, x)
  <2>1. r \in Results /\ Open(w) /\ Failed(w, r)
    BY <1>7 DEF CallFails, Failures, Results, Open
  <2> QED
    BY <1>f, <2>1
<1>8. CASE Ensure(w)
  <2>1. CASE wk' = [wk EXCEPT ![w].fenced = TRUE] /\ Goto(w, "write")
    <3>1. wk'[w].i = wk[w].i /\ pc'[w] = "write"
      BY <1>0, <2>1 DEF Goto, Work
    <3>2. Run(w).state = "succeeded"
      BY <1>8 DEF Ensure, UsedInv
    <3> QED
      BY <1>8, <3>1, <3>2 DEF Unchanges, Ensure
  <2>2. CASE Leave(w, Refusal(w))
    BY <1>8, <1>l, <1>r, <2>2 DEF Unchanges, Ensure
  <2> QED
    BY <1>8, <2>1, <2>2 DEF Ensure
<1>9. CASE WriteStory(w)
  <2>1. pc'[w] = "succeeded"
    BY <1>0, <1>9 DEF WriteStory, Goto
  <2>2. CASE ~HasArtifact(w)
    <3>1. stories + 1 \in Nat \ {0}
      BY <1>0
    <3>2. runs' = [runs EXCEPT ![j][p] = [Run(w) EXCEPT !.artifact = stories + 1]]
      BY <1>0, <1>9, <2>2, <3>1, RunUpdates DEF Run, WriteStory
    <3>3. IsUsed(w, [Run(w) EXCEPT !.artifact = stories + 1])
      BY <1>9, <2>1, <2>2, <3>1 DEF IsUsed, WriteStory, HasArtifact
    <3> QED
      BY <3>2, <3>3
  <2>3. CASE HasArtifact(w)
    BY <1>9, <2>1, <2>3 DEF WriteStory, Unchanges
  <2> QED
    BY <2>2, <2>3
<1>10. ASSUME NEW valid \in BOOLEAN, WriteVariant(w, valid)
       PROVE  Unchanges(w) \/ \E x : runs' = [runs EXCEPT ![j][p] = x] /\ IsUsed(w, x)
  <2>1. pc'[w] \notin {"before", "call", "ensure", "write"}
    <3>1. \/ \E r \in {"retryable", "needs_review"} : Leave(w, r)
          \/ Advance(w, wk[w].errors \/ GatesFailed(w)) \/ Advance(w, wk[w].errors \/ ~valid)
      BY <1>10 DEF WriteVariant
    <3>2. (wk[w].errors \/ GatesFailed(w)) \in BOOLEAN /\ (wk[w].errors \/ ~valid) \in BOOLEAN
      OBVIOUS
    <3>3. \A r \in {"retryable", "needs_review"} :
            Leave(w, r) => pc'[w] \notin {"before", "call", "ensure", "write"}
      BY <1>l, <1>r
    <3>4. \A e \in BOOLEAN : Advance(w, e) => pc'[w] \notin {"before", "call", "ensure", "write"}
      BY <1>a
    <3> QED
      BY <3>1, <3>2, <3>3, <3>4, Zenon
  <2>2. CASE UNCHANGED runs
    BY <2>1, <2>2 DEF Unchanges
  <2>3. CASE ~HasArtifact(w) /\ runs' = [runs EXCEPT ![j][p].artifact = Newest(p) + 1]
    <3>1. p \in Platforms
      BY <1>0, <1>10, StageWorks, PurposeOfWorker DEF WriteVariant
    <3>2. Newest(p) + 1 \in Nat \ {0}
      BY <1>0, <3>1, RevisionTypes
    <3>3. runs' = [runs EXCEPT ![j][p] = [Run(w) EXCEPT !.artifact = Newest(p) + 1]]
      BY <1>0, <2>3, <3>2, RunUpdates DEF Run
    <3>4. IsUsed(w, [Run(w) EXCEPT !.artifact = Newest(p) + 1])
      BY <1>10, <2>1, <2>3, <3>2 DEF IsUsed, WriteVariant, HasArtifact
    <3> QED
      BY <3>3, <3>4
  <2> QED
    BY <1>10, <2>2, <2>3 DEF WriteVariant
<1>11. CASE Clear(w)
  <2>1. wk[w].res \in Results
    BY <1>11 DEF Clear, WorkInv
  <2> QED
    BY <1>0, <1>11, <2>1 DEF Clear, Goto, Unchanges
<1> QED
  BY <1>2, <1>3, <1>4, <1>5, <1>6, <1>7, <1>8, <1>9, <1>10, <1>11 DEF StageStep

\* The other steps leave runs, and who is in the middle of one, alone.
Busy == {"before", "call", "ensure", "write"}
LEMMA OtherSteps ==
  ASSUME IInv, [Next]_vars, ~\E w \in Workers : StageStep(w)
  PROVE  /\ UNCHANGED <<runs, calls, stories>>
         /\ \A v \in Workers : pc'[v] \in Busy =>
              pc'[v] = pc[v] /\ cur'[v] = cur[v] /\ wk'[v] = wk[v]
<1>0. /\ pc \in [Workers -> Steps] /\ wk \in [Workers -> Work]
      /\ cur \in [Workers -> Jobs \cup {NoJob}]
  BY DEF IInv, TypeOK, QueueTypeOK
<1>1. ASSUME NEW w \in Workers, Start(w) \/ End(w) \/ Crash(w)
      PROVE  /\ UNCHANGED <<runs, calls, stories>>
             /\ \A v \in Workers : pc'[v] \in Busy =>
                  pc'[v] = pc[v] /\ cur'[v] = cur[v] /\ wk'[v] = wk[v]
  <2>1. UNCHANGED <<runs, calls, stories>>
    BY <1>1 DEF Start, End, Crash, packVars
  <2>2. pc'[w] \notin Busy
    BY <1>0, <1>1 DEF Start, End, Crash, Goto, Busy
  <2>3. \A v \in Workers : v # w => pc'[v] = pc[v] /\ cur'[v] = cur[v] /\ wk'[v] = wk[v]
    BY <1>0, <1>1 DEF Start, End, Crash, Goto, ClaimJob, CloseJob, Die
  <2> QED
    BY <2>1, <2>2, <2>3
<1>2. ASSUME RequestPack \/ ActivatePrompt \/ (\E j \in Jobs : RegenerateVariant(j) \/ Recover(j) \/ Operate(j))
             \/ UNCHANGED vars
             \/ \E p \in Platforms : Approve(p) \/ \E n \in 1..MaxRevision : Reject(p, n) \/ Edit(p, n)
      PROVE  UNCHANGED <<runs, calls, stories, cur, pc, wk>>
  BY <1>2 DEF RequestPack, ActivatePrompt, RegenerateVariant, Recover, Operate, Approve, Reject,
     Edit, vars, EnqueueJob, RecoverJob, RetryJob, CancelJob, queueVars, packVars
<1> QED
  BY <1>1, <1>2 DEF Next, WorkerStep, StageStep

\* What a busy worker is at while another one steps.
LEMMA Bystander ==
  ASSUME TypeOK, WorkInv, NEW w \in Workers, StageStep(w), NEW v \in Workers, v # w
  PROVE  /\ pc'[v] = pc[v] /\ wk'[v] = wk[v] /\ cur'[v] = cur[v]
         /\ Purpose(v)' = Purpose(v) /\ Run(v)' = runs'[cur[v]][Purpose(v)]
         /\ Open(v)' <=> Open(v)
<1>1. pc'[v] = pc[v] /\ wk'[v] = wk[v] /\ cur'[v] = cur[v]
  BY StageFrame
<1>2. Purpose(v)' = Purpose(v)
  BY <1>1 DEF Purpose
<1> QED
  BY <1>1, <1>2 DEF Run, Open

\* Its own purpose stays as long as the platform does.
LEMMA SamePurpose ==
  ASSUME TypeOK, WorkInv, NEW w \in Workers, StageStep(w), wk'[w].i = wk[w].i
  PROVE  Purpose(w)' = Purpose(w) /\ Run(w)' = runs'[cur[w]][Purpose(w)]
<1>1. cur'[w] = cur[w]
  BY StageFrame
<1>2. Purpose(w)' = Purpose(w)
  BY <1>1 DEF Purpose
<1> QED
  BY <1>1, <1>2 DEF Run

LEMMA UsedKeeps ==
  ASSUME IInv, [Next]_vars
  PROVE  UsedInv'
<1>0. TypeOK /\ WorkInv /\ UsedInv /\ AttemptInv
  BY DEF IInv
<1>1. ASSUME NEW w \in Workers, StageStep(w) PROVE UsedInv'
  <2> DEFINE j == cur[w]
             p == Purpose(w)
  <2>1. j \in Jobs /\ p \in Purposes /\ Run(w) \in Runs
    BY <1>0, <1>1, StageWorks, PurposeOfWorker DEF TypeOK, Run
  <2>2. \A v \in Workers : v # w => pc'[v] = pc[v] /\ Run(v)' = runs'[cur[v]][Purpose(v)]
    BY <1>0, <1>1, Bystander
  <2>3. \A v \in Workers : pc[v] \in {"ensure", "write"} =>
          cur[v] \in Jobs /\ Purpose(v) \in Purposes /\ runs[cur[v]][Purpose(v)].state = "succeeded"
    BY <1>0, PurposeOfWorker DEF WorkInv, UsedInv, Run
  <2>4. CASE Unchanges(w)
    <3>1. pc'[w] \in {"ensure", "write"} => Run(w)'.state = "succeeded"
      BY <1>0, <1>1, <2>4, SamePurpose DEF Unchanges, Run
    <3>2. ASSUME NEW v \in Workers, v # w, pc'[v] \in {"ensure", "write"}
          PROVE  Run(v)'.state = "succeeded"
      BY <2>2, <2>3, <2>4, <3>2 DEF Unchanges
    <3> QED
      BY <1>0, <2>4, <3>1, <3>2 DEF UsedInv, Unchanges
  <2>5. ASSUME NEW x, runs' = [runs EXCEPT ![j][p] = x],
               Starts(w, x) \/ Fails(w, x) \/ Succeeds(w, x) \/ IsUsed(w, x)
        PROVE  UsedInv'
    <3>1. \A k \in Jobs : \A q \in Purposes :
            runs'[k][q] = IF k = j /\ q = p THEN x ELSE runs[k][q]
      <4>1. runs \in [Jobs -> [Purposes -> Runs]]
        BY <1>0 DEF TypeOK
      <4> QED
        BY <2>1, <2>5, <4>1
    <3>2. /\ x.artifact # 0 => x.state = "succeeded"
          /\ runs[j][p].state = "succeeded" => x.state = "succeeded"
      <4>1. CASE Starts(w, x)
        BY <4>1 DEF Starts, Run
      <4>2. CASE Fails(w, x)
        <5>1. Run(w).state = "running"
          BY <1>0, <4>2 DEF Fails, AttemptInv
        <5>2. Run(w).artifact = 0
          BY <1>0, <2>1, <5>1 DEF UsedInv, Run
        <5> QED
          BY <2>1, <4>2, <5>1, <5>2 DEF Fails, Runs, Run
      <4>3. CASE Succeeds(w, x)
        BY <2>1, <4>3 DEF Succeeds, Runs
      <4>4. CASE IsUsed(w, x)
        <5>1. Run(w).state = "succeeded"
          BY <1>0, <4>4 DEF IsUsed, UsedInv
        <5> QED
          BY <2>1, <4>4, <5>1 DEF IsUsed, Runs
      <4> QED
        BY <2>5, <4>1, <4>2, <4>3, <4>4
    <3>3. \A k \in Jobs : \A q \in Purposes : runs'[k][q].artifact # 0 => runs'[k][q].state = "succeeded"
      BY <1>0, <3>1, <3>2 DEF UsedInv
    <3>4. pc'[w] \in {"ensure", "write"} => Run(w)'.state = "succeeded"
      <4>1. ASSUME pc'[w] \in {"ensure", "write"} PROVE Succeeds(w, x)
        BY <2>5, <4>1 DEF Starts, Fails, IsUsed
      <4>2. Succeeds(w, x) => Run(w)' = x /\ x.state = "succeeded"
        BY <1>0, <1>1, <2>1, <3>1, SamePurpose DEF Succeeds, Runs
      <4> QED
        BY <4>1, <4>2
    <3>5. ASSUME NEW v \in Workers, v # w, pc'[v] \in {"ensure", "write"}
          PROVE  Run(v)'.state = "succeeded"
      BY <2>2, <2>3, <3>1, <3>2, <3>5
    <3> QED
      BY <3>3, <3>4, <3>5 DEF UsedInv
  <2> QED
    BY <1>0, <1>1, <2>4, <2>5, StageEffects
<1>2. CASE ~\E w \in Workers : StageStep(w)
  <2>1. UNCHANGED runs
    BY <1>2, OtherSteps
  <2>2. ASSUME NEW v \in Workers, pc'[v] \in {"ensure", "write"} PROVE Run(v)'.state = "succeeded"
    <3>1. pc'[v] = pc[v] /\ cur'[v] = cur[v] /\ wk'[v] = wk[v]
      BY <1>2, <2>2, OtherSteps DEF Busy
    <3> QED
      BY <1>0, <2>1, <2>2, <3>1 DEF UsedInv, Run, Purpose
  <2> QED
    BY <1>0, <2>1, <2>2 DEF UsedInv
<1> QED
  BY <1>1, <1>2

\* No attempt is newer than the active one, whoever starts the next.
LEMMA AttemptKeeps ==
  ASSUME IInv, [Next]_vars
  PROVE  AttemptInv'
<1>0. TypeOK /\ WorkInv /\ UsedInv /\ AttemptInv
  BY DEF IInv
<1>h. \A v \in Workers : Open(v) =>
        /\ cur[v] \in Jobs /\ Purpose(v) \in Purposes /\ Run(v) = runs[cur[v]][Purpose(v)]
        /\ wk[v].att \in 1..Run(v).active /\ Run(v).active \in Nat
        /\ wk[v].att = Run(v).active => Run(v).state = "running"
  <2>1. ASSUME NEW v \in Workers, Open(v) PROVE cur[v] # NoJob
    BY <1>0, <2>1 DEF Open, WorkInv
  <2>2. ASSUME NEW v \in Workers, Open(v)
        PROVE  cur[v] \in Jobs /\ Purpose(v) \in Purposes /\ Run(v).active \in Nat
    BY <1>0, <2>1, <2>2, PurposeOfWorker DEF TypeOK, Runs, Run
  <2> QED
    BY <1>0, <2>2 DEF AttemptInv, Run
<1>1. ASSUME NEW w \in Workers, StageStep(w) PROVE AttemptInv'
  <2> DEFINE j == cur[w]
             p == Purpose(w)
  <2>1. j \in Jobs /\ p \in Purposes /\ Run(w) \in Runs
    BY <1>0, <1>1, StageWorks, PurposeOfWorker DEF TypeOK, Run
  <2>2. /\ UNCHANGED cur
        /\ \A v \in Workers : v # w =>
             /\ pc'[v] = pc[v] /\ wk'[v] = wk[v] /\ (Open(v)' <=> Open(v))
             /\ Purpose(v)' = Purpose(v) /\ Run(v)' = runs'[cur[v]][Purpose(v)]
    BY <1>0, <1>1, Bystander, StageFrame
  <2>3. CASE Unchanges(w)
    <3>1. /\ Open(w)' => Open(w) /\ wk'[w].att = wk[w].att
          /\ Open(w)' => Purpose(w)' = p /\ Run(w)' = runs'[j][p]
      BY <1>0, <1>1, <2>3, SamePurpose DEF Unchanges, Open
    <3>2. \A v \in Workers : Open(v)' =>
            /\ Open(v) /\ wk'[v].att = wk[v].att /\ cur'[v] = cur[v]
            /\ Purpose(v)' = Purpose(v) /\ Run(v)' = Run(v)
      BY <2>2, <2>3, <3>1 DEF Unchanges, Run
    <3> QED
      BY <1>0, <3>2 DEF AttemptInv
  <2>4. ASSUME NEW x, runs' = [runs EXCEPT ![j][p] = x],
               Starts(w, x) \/ Fails(w, x) \/ Succeeds(w, x) \/ IsUsed(w, x)
        PROVE  AttemptInv'
    <3>1. \A k \in Jobs : \A q \in Purposes :
            runs'[k][q] = IF k = j /\ q = p THEN x ELSE runs[k][q]
      <4>1. runs \in [Jobs -> [Purposes -> Runs]]
        BY <1>0 DEF TypeOK
      <4> QED
        BY <2>1, <2>4, <4>1
    <3>2. Run(w) = runs[j][p]
      BY DEF Run
    <3>3. Run(w).active \in Nat
      BY <2>1 DEF Runs
    <3>4. CASE Starts(w, x)
      <4>1. /\ Open(w)' /\ Purpose(w)' = p /\ Run(w)' = x /\ wk'[w].att = x.active
            /\ x.active = Run(w).active + 1 /\ x.state = "running"
        BY <1>0, <1>1, <2>1, <3>1, <3>4, SamePurpose DEF Starts, Open
      <4>2. ASSUME NEW v \in Workers, v # w, Open(v)'
            PROVE  /\ wk'[v].att \in 1..Run(v)'.active /\ Open(v)
                   /\ wk'[v].att = Run(v)'.active => Run(v)'.state = "running"
                   /\ cur[v] = j /\ Purpose(v) = p => wk'[v].att # x.active
        <5>1. /\ Open(v) /\ wk'[v] = wk[v] /\ Run(v)' = runs'[cur[v]][Purpose(v)]
              /\ cur[v] \in Jobs /\ Purpose(v) \in Purposes
              /\ wk[v].att \in 1..Run(v).active /\ Run(v).active \in Nat
              /\ wk[v].att = Run(v).active => Run(v).state = "running"
              /\ Run(v) = runs[cur[v]][Purpose(v)]
          BY <1>h, <2>2, <4>2
        <5>2. CASE cur[v] = j /\ Purpose(v) = p
          BY <3>1, <3>2, <3>3, <4>1, <5>1, <5>2
        <5>3. CASE ~(cur[v] = j /\ Purpose(v) = p)
          BY <3>1, <5>1, <5>3
        <5> QED
          BY <5>2, <5>3
      <4>3. wk'[w].att \in 1..Run(w)'.active
        BY <3>3, <4>1
      <4>4. ASSUME NEW u \in Workers, NEW v \in Workers, Open(u)', Open(v)', cur'[v] = cur'[u],
                   Purpose(v)' = Purpose(u)', wk'[v].att = wk'[u].att
            PROVE  v = u
        <5>1. CASE u # w /\ v # w
          BY <1>0, <2>2, <4>2, <4>4, <5>1 DEF AttemptInv
        <5>2. CASE u = w /\ v # w
          BY <2>2, <4>1, <4>2, <4>4, <5>2
        <5>3. CASE u # w /\ v = w
          BY <2>2, <4>1, <4>2, <4>4, <5>3
        <5> QED
          BY <5>1, <5>2, <5>3
      <4>5. \A v \in Workers : Open(v)' =>
              /\ wk'[v].att \in 1..Run(v)'.active
              /\ wk'[v].att = Run(v)'.active => Run(v)'.state = "running"
        BY <4>1, <4>2, <4>3
      <4> QED
        BY <4>4, <4>5 DEF AttemptInv
    <3>5. CASE ~Starts(w, x)
      <4>1. ~Open(w)'
        BY <2>4, <3>5 DEF Fails, Succeeds, IsUsed, Open
      <4>2. /\ x.active = Run(w).active
            /\ \/ Open(w) /\ wk[w].att = Run(w).active
               \/ Run(w).state = "succeeded"
        <5>1. CASE Fails(w, x)
          BY <2>1, <5>1 DEF Fails, Runs
        <5>2. CASE Succeeds(w, x)
          BY <2>1, <5>2 DEF Succeeds, Runs, IsActive
        <5>3. CASE IsUsed(w, x)
          BY <1>0, <2>1, <5>3 DEF IsUsed, Runs, UsedInv
        <5> QED
          BY <2>4, <3>5, <5>1, <5>2, <5>3
      <4>3. ASSUME NEW v \in Workers, Open(v)'
            PROVE  /\ Open(v) /\ v # w /\ wk'[v].att = wk[v].att
                   /\ cur'[v] = cur[v] /\ Purpose(v)' = Purpose(v)
                   /\ wk'[v].att \in 1..Run(v)'.active
                   /\ wk'[v].att = Run(v)'.active => Run(v)'.state = "running"
        <5>1. /\ Open(v) /\ v # w /\ wk'[v] = wk[v] /\ Run(v)' = runs'[cur[v]][Purpose(v)]
              /\ cur[v] \in Jobs /\ Purpose(v) \in Purposes
              /\ cur'[v] = cur[v] /\ Purpose(v)' = Purpose(v)
              /\ wk[v].att \in 1..Run(v).active /\ Run(v).active \in Nat
              /\ wk[v].att = Run(v).active => Run(v).state = "running"
              /\ Run(v) = runs[cur[v]][Purpose(v)]
          BY <1>h, <2>2, <4>1, <4>3
        <5>2. CASE cur[v] = j /\ Purpose(v) = p
          <6>1. Run(v) = Run(w) /\ Run(v)' = x
            BY <2>1, <3>1, <3>2, <5>1, <5>2
          <6>2. wk[v].att # Run(v).active
            <7>1. ASSUME wk[v].att = Run(v).active PROVE FALSE
              <8>1. Run(w).state = "running"
                BY <5>1, <6>1, <7>1
              <8>2. Open(w) /\ wk[w].att = wk[v].att
                BY <4>2, <6>1, <7>1, <8>1
              <8> QED
                BY <1>0, <5>1, <5>2, <8>2 DEF AttemptInv
            <7> QED
              BY <7>1
          <6> QED
            BY <4>2, <5>1, <6>1, <6>2
        <5>3. CASE ~(cur[v] = j /\ Purpose(v) = p)
          <6>1. Run(v)' = Run(v)
            BY <3>1, <5>1, <5>3
          <6> QED
            BY <5>1, <6>1
        <5> QED
          BY <5>2, <5>3
      <4> QED
        BY <1>0, <4>3 DEF AttemptInv
    <3> QED
      BY <3>4, <3>5
  <2> QED
    BY <1>0, <1>1, <2>3, <2>4, StageEffects
<1>2. CASE ~\E w \in Workers : StageStep(w)
  <2>1. \A v \in Workers : Open(v)' =>
          /\ Open(v) /\ wk'[v] = wk[v] /\ cur'[v] = cur[v]
          /\ Purpose(v)' = Purpose(v) /\ Run(v)' = Run(v)
    <3>1. UNCHANGED runs
      BY <1>2, OtherSteps
    <3>2. \A v \in Workers : Open(v)' => pc'[v] = pc[v] /\ wk'[v] = wk[v] /\ cur'[v] = cur[v]
      BY <1>2, OtherSteps DEF Busy, Open
    <3> QED
      BY <3>1, <3>2 DEF Open, Run, Purpose
  <2> QED
    BY <1>0, <2>1 DEF AttemptInv
<1> QED
  BY <1>1, <1>2

-----------------------------------------------------------------------------
(* Outputs. *)

\* What a run remembers to have written stays.
LEMMA ArtifactStays ==
  ASSUME IInv, [Next]_vars, NEW k \in Jobs, NEW q \in Purposes, runs[k][q].artifact # 0
  PROVE  runs'[k][q].artifact = runs[k][q].artifact
<1>0. /\ TypeOK /\ WorkInv /\ UsedInv /\ AttemptInv
      /\ runs \in [Jobs -> [Purposes -> Runs]] /\ runs[k][q] \in Runs
  BY DEF IInv, TypeOK
<1>1. ASSUME NEW w \in Workers, StageStep(w), NEW x,
             runs' = [runs EXCEPT ![cur[w]][Purpose(w)] = x],
             Starts(w, x) \/ Fails(w, x) \/ Succeeds(w, x) \/ IsUsed(w, x)
      PROVE  runs'[k][q].artifact = runs[k][q].artifact
  <2>1. cur[w] \in Jobs /\ Purpose(w) \in Purposes
    BY <1>0, <1>1, StageWorks, PurposeOfWorker
  <2>2. CASE ~(k = cur[w] /\ q = Purpose(w))
    BY <1>0, <1>1, <2>1, <2>2
  <2>3. CASE k = cur[w] /\ q = Purpose(w)
    <3>1. runs'[k][q] = x /\ Run(w) = runs[k][q]
      BY <1>0, <1>1, <2>1, <2>3 DEF Run
    <3>2. runs[k][q].state = "succeeded"
      BY <1>0 DEF UsedInv
    <3>3. ~Starts(w, x) /\ ~IsUsed(w, x)
      BY <3>1, <3>2 DEF Starts, IsUsed
    <3> QED
      BY <1>0, <1>1, <3>1, <3>3 DEF Fails, Succeeds, Runs
  <2> QED
    BY <2>2, <2>3
<1>2. ASSUME NEW w \in Workers, StageStep(w) PROVE runs'[k][q].artifact = runs[k][q].artifact
  BY <1>0, <1>1, <1>2, StageEffects DEF Unchanges
<1> QED
  BY <1>2, OtherSteps

\* Revisions are reviewed, or added by the operator or by a run that remembers it.
ByKept(p) ==
  /\ Newest(p)' >= Newest(p)
  /\ \A n \in 1..Newest(p) : revs'[p][n].by = revs[p][n].by
AddedBy(p, j) == Newest(p)' = Newest(p) + 1 /\ revs'[p][Newest(p)'].by = j

\* Revisions of one platform that keep their authors.
LEMMA ReviewKeepsBy ==
  ASSUME TypeOK, NEW p \in Platforms, NEW n \in DOMAIN revs[p], NEW st \in {"approved", "rejected"},
         revs' = [revs EXCEPT ![p][n].state = st]
  PROVE  \A q \in Platforms : ByKept(q) /\ Newest(q)' = Newest(q)
<1>1. revs \in [Platforms -> Seq(Revision)] /\ DOMAIN revs[p] = 1..Newest(p) /\ Newest(p) \in Nat
  BY RevisionTypes DEF TypeOK
<1>2. \A q \in Platforms : q # p => revs'[q] = revs[q]
  BY <1>1
<1>3. revs'[p] = [revs[p] EXCEPT ![n].state = st]
  BY <1>1, Zenon
<1>4. revs[p] \in [1..Newest(p) -> Revision]
  BY <1>1, LenProperties DEF Newest
<1>5. revs'[p] \in [1..Newest(p) -> Revision] /\ \A m \in 1..Newest(p) : revs'[p][m].by = revs[p][m].by
  <2>1. revs'[p] = [revs[p] EXCEPT ![n] = [revs[p][n] EXCEPT !.state = st]]
    BY <1>3, <1>4, Zenon
  <2>2. [revs[p][n] EXCEPT !.state = st] \in Revision
        /\ [revs[p][n] EXCEPT !.state = st].by = revs[p][n].by
    BY <1>4, <1>1 DEF Revision
  <2> QED
    BY <1>1, <1>4, <2>1, <2>2
<1>6. Newest(p)' = Newest(p)
  <2>1. revs[p] \in Seq(Revision) /\ [revs[p][n] EXCEPT !.state = st] \in Revision
        /\ n \in 1..Len(revs[p])
    BY <1>1, <1>4 DEF Revision, Newest
  <2>2. Len([revs[p] EXCEPT ![n] = [revs[p][n] EXCEPT !.state = st]]) = Len(revs[p])
    BY <2>1, ExceptSeq
  <2>3. revs'[p] = [revs[p] EXCEPT ![n] = [revs[p][n] EXCEPT !.state = st]]
    BY <1>3, <1>4, Zenon
  <2> QED
    BY <2>2, <2>3 DEF Newest
<1>7. ASSUME NEW q \in Platforms, q # p PROVE ByKept(q) /\ Newest(q)' = Newest(q)
  <2>1. Newest(q) \in Nat
    BY <1>1, RevisionTypes
  <2> QED
    BY <1>2, <1>7, <2>1 DEF ByKept, Newest
<1> QED
  BY <1>1, <1>5, <1>6, <1>7 DEF ByKept

\* One revision more.
LEMMA AppendAdds ==
  ASSUME TypeOK, NEW p \in Platforms, NEW x \in Revision, revs' = [revs EXCEPT ![p] = Append(@, x)]
  PROVE  /\ \A q \in Platforms : ByKept(q)
         /\ AddedBy(p, x.by)
         /\ \A q \in Platforms : q # p => Newest(q)' = Newest(q)
<1>1. revs \in [Platforms -> Seq(Revision)] /\ Newest(p) \in Nat
  BY RevisionTypes DEF TypeOK
<1>2. revs'[p] = Append(revs[p], x) /\ \A q \in Platforms : q # p => revs'[q] = revs[q]
  BY <1>1
<1>3. /\ Len(revs'[p]) = Len(revs[p]) + 1
      /\ \A i \in 1..Len(revs[p]) : revs'[p][i] = revs[p][i]
      /\ revs'[p][Len(revs[p]) + 1] = x
  BY <1>1, <1>2, AppendProperties
<1>4. \A q \in Platforms : Newest(q) \in Nat
  BY <1>1, RevisionTypes
<1> QED
  BY <1>1, <1>2, <1>3, <1>4 DEF ByKept, AddedBy, Newest

\* Every step keeps the authors; a revision more is the operator's, or that of
\* a run that had written none.
LEMMA Revisions ==
  ASSUME IInv, [Next]_vars, NEW p \in Platforms
  PROVE  /\ ByKept(p)
         /\ \/ Newest(p)' = Newest(p)
            \/ AddedBy(p, Nobody)
            \/ \E j \in Jobs : AddedBy(p, j) /\ runs'[j][p].artifact = Newest(p)'
<1>0. TypeOK /\ WorkInv /\ revs \in [Platforms -> Seq(Revision)] /\ Newest(p) \in Nat
      /\ \A r \in Platforms : Newest(r) \in Nat
  BY RevisionTypes DEF IInv, TypeOK
<1>1. CASE UNCHANGED revs
  BY <1>0, <1>1 DEF ByKept, Newest
<1>2. ASSUME NEW r \in Platforms, NEW n \in 1..MaxRevision, Edit(r, n)
      PROVE  ByKept(p) /\ (Newest(p)' = Newest(p) \/ AddedBy(p, Nobody))
  <2>1. Written(n, Nobody, TRUE) \in Revision /\ Written(n, Nobody, TRUE).by = Nobody
    BY ContentPacksAssumption DEF Written, Revision
  <2>2. revs' = [revs EXCEPT ![r] = Append(@, Written(n, Nobody, TRUE))]
    BY <1>2 DEF Edit
  <2> QED
    BY <1>0, <2>1, <2>2, AppendAdds
<1>3. ASSUME NEW r \in Platforms, Approve(r) \/ \E n \in 1..MaxRevision : Reject(r, n)
      PROVE  ByKept(p) /\ Newest(p)' = Newest(p)
  <2>1. PICK n \in DOMAIN revs[r] : \E st \in {"approved", "rejected"} :
          revs' = [revs EXCEPT ![r][n].state = st]
    <3>1. CASE Approve(r)
      <4>1. Newest(r) \in DOMAIN revs[r]
        BY <1>0, <3>1, RevisionTypes DEF Approve
      <4> QED
        BY <3>1, <4>1 DEF Approve
    <3>2. CASE \E n \in 1..MaxRevision : Reject(r, n)
      BY <3>2 DEF Reject
    <3> QED
      BY <1>3, <3>1, <3>2
  <2> QED
    BY <1>0, <2>1, ReviewKeepsBy
<1>4. ASSUME NEW w \in Workers, NEW valid \in BOOLEAN, WriteVariant(w, valid), revs' # revs
      PROVE  /\ ByKept(p)
             /\ \/ Newest(p)' = Newest(p)
                \/ \E j \in Jobs : AddedBy(p, j) /\ runs'[j][p].artifact = Newest(p)'
  <2>1. StageStep(w)
    BY <1>4 DEF StageStep
  <2>2. PICK j \in Jobs, q \in Platforms : j = cur[w] /\ q = Purpose(w) /\ q \in Purposes
    BY <1>0, <1>4, <2>1, StageWorks, PurposeOfWorker DEF WriteVariant
  <2> DEFINE x == Written(Newest(q), j, valid)
  <2>3. x \in Revision /\ x.by = j
    BY <1>0 DEF Written, Revision
  <2>4. /\ revs' = [revs EXCEPT ![q] = Append(@, x)]
        /\ runs' = [runs EXCEPT ![j][q].artifact = Newest(q) + 1]
    BY <1>4, <2>2 DEF WriteVariant
  <2>5. runs'[j][q].artifact = Newest(q) + 1
    <3>1. runs \in [Jobs -> [Purposes -> Runs]]
      BY <1>0 DEF TypeOK
    <3>2. runs'[j][q] = [runs[j][q] EXCEPT !.artifact = Newest(q) + 1]
      BY <2>2, <2>4, <3>1
    <3> QED
      BY <2>2, <3>1, <3>2 DEF Runs
  <2>6. /\ ByKept(p) /\ AddedBy(q, j)
        /\ q # p => Newest(p)' = Newest(p)
    BY <1>0, <2>3, <2>4, AppendAdds
  <2>7. CASE q = p
    BY <2>5, <2>6, <2>7 DEF AddedBy
  <2> QED
    BY <2>6, <2>7
<1>5. ASSUME NEW w \in Workers, Start(w) \/ WorkerStep(w) \/ Crash(w), revs' # revs
      PROVE  \E valid \in BOOLEAN : WriteVariant(w, valid)
  BY <1>5 DEF Start, WorkerStep, Crash, Load, Reuse, StartAttempt, Before, CallSucceeds, CallFails,
     Ensure, WriteStory, Clear, End, packVars
<1>6. CASE RequestPack \/ ActivatePrompt \/ (\E j \in Jobs : RegenerateVariant(j) \/ Recover(j) \/ Operate(j))
           \/ UNCHANGED vars
  BY <1>1, <1>6 DEF RequestPack, ActivatePrompt, RegenerateVariant, Recover, Operate, vars, packVars
<1>7. CASE \E w \in Workers : Start(w) \/ WorkerStep(w) \/ Crash(w)
  BY <1>1, <1>4, <1>5, <1>7
<1> QED
  BY <1>2, <1>3, <1>6, <1>7 DEF Next

\* Nothing is written twice.
LEMMA ArtifactKeeps ==
  ASSUME IInv, [Next]_vars
  PROVE  ArtifactInv'
<1>0. /\ TypeOK /\ WorkInv /\ ArtifactInv /\ stories \in Nat
      /\ revs \in [Platforms -> Seq(Revision)] /\ runs \in [Jobs -> [Purposes -> Runs]]
      /\ revs' \in [Platforms -> Seq(Revision)]
  BY TypeKeeps DEF IInv, TypeOK
<1>c. "canonical" \in Purposes /\ Canonical \in Jobs /\ Platforms \subseteq Purposes
  BY ContentPacksAssumption DEF Purposes
<1>1. /\ stories' <= 1
      /\ stories' = 1 => Canonical \in Jobs /\ runs'[Canonical]["canonical"].artifact # 0
  <2>1. CASE UNCHANGED stories
    <3>1. stories = 1 => runs'[Canonical]["canonical"].artifact # 0
      <4>1. stories = 1 => runs[Canonical]["canonical"].artifact # 0
        BY <1>0 DEF ArtifactInv
      <4> QED
        BY <1>c, <4>1, ArtifactStays
    <3> QED
      BY <1>0, <1>c, <2>1, <3>1 DEF ArtifactInv
  <2>2. ASSUME NEW w \in Workers, WriteStory(w), stories' # stories
        PROVE  stories' = 1 /\ runs'[Canonical]["canonical"].artifact # 0
    <3>1. cur[w] = Canonical /\ Purpose(w) = "canonical"
      <4>1. StageStep(w)
        BY <2>2 DEF StageStep
      <4> QED
        BY <1>0, <2>2, <4>1, StageWorks, PurposeOfWorker, KindOfJob DEF WriteStory
    <3>2. /\ runs[Canonical]["canonical"].artifact = 0 /\ stories' = stories + 1
          /\ runs' = [runs EXCEPT ![Canonical]["canonical"].artifact = stories']
      BY <2>2, <3>1 DEF WriteStory, HasArtifact, Run
    <3>3. stories = 0
      BY <1>0, <3>2 DEF ArtifactInv
    <3>4. runs'[Canonical]["canonical"] = [runs[Canonical]["canonical"] EXCEPT !.artifact = stories']
      BY <1>0, <1>c, <3>2
    <3>5. runs'[Canonical]["canonical"].artifact = stories'
      BY <1>0, <1>c, <3>4 DEF Runs
    <3> QED
      BY <3>2, <3>3, <3>5
  <2>3. ASSUME stories' # stories PROVE \E w \in Workers : WriteStory(w)
    <3>1. PICK w \in Workers : StageStep(w)
      BY <2>3, OtherSteps
    <3> QED
      BY <2>3, <3>1 DEF StageStep, Load, Reuse, StartAttempt, Before, CallSucceeds, CallFails,
         Ensure, WriteVariant, Clear, packVars
  <2> QED
    BY <1>c, <2>1, <2>2, <2>3
<1>2. ASSUME NEW p \in Platforms, NEW n \in DOMAIN revs'[p], revs'[p][n].by # Nobody
      PROVE  runs'[revs'[p][n].by][p].artifact = n
  <2>1. Newest(p) \in Nat /\ n \in 1..Newest(p)' /\ Newest(p)' \in Nat /\ p \in Purposes
    <3>1. Newest(p) \in Nat
      BY <1>0, RevisionTypes
    <3>2. DOMAIN revs'[p] = 1..Len(revs'[p]) /\ Len(revs'[p]) \in Nat
      BY <1>0, LenProperties
    <3> QED
      BY <1>2, <1>c, <3>1, <3>2 DEF Newest
  <2>2. CASE n \in 1..Newest(p)
    <3>1. revs'[p][n].by = revs[p][n].by
      BY <2>2, Revisions DEF ByKept
    <3>2. revs[p][n] \in Revision /\ n \in DOMAIN revs[p]
      BY <1>0, <2>2, LenProperties, ElementOfSeq DEF Newest
    <3>3. revs[p][n].by \in Jobs /\ runs[revs[p][n].by][p].artifact = n
      BY <1>0, <1>2, <3>1, <3>2 DEF ArtifactInv, Revision
    <3> QED
      BY <2>1, <2>2, <3>1, <3>3, ArtifactStays
  <2>3. CASE n \notin 1..Newest(p)
    <3>1. Newest(p)' # Newest(p)
      BY <2>1, <2>3
    <3>2. \E j \in Jobs \cup {Nobody} :
            AddedBy(p, j) /\ (j # Nobody => runs'[j][p].artifact = Newest(p)')
      BY <3>1, Revisions
    <3>3. n = Newest(p)'
      BY <2>1, <2>3, <3>2 DEF AddedBy
    <3> QED
      BY <1>2, <3>2, <3>3 DEF AddedBy
  <2> QED
    BY <2>2, <2>3
<1> QED
  BY <1>1, <1>2 DEF ArtifactInv

-----------------------------------------------------------------------------
(* The fence of a variant. *)

\* A row that runs after a step that claims nothing ran before, for its owner.
LEMMA RunningStays ==
  ASSUME QueueTypeOK, QueueStep, NEW j \in Jobs, job'[j] = "running", tries'[j] = tries[j]
  PROVE  job[j] = "running" /\ owner'[j] = owner[j]
<1> USE HandlerRunsAssumption DEF QueueTypeOK
<1>1. ASSUME NEW k \in Jobs, EnqueueJob(k) \/ EnqueueJobOnce(k) \/ RecoverJob(k) \/ RetryJob(k) \/ CancelJob(k)
      PROVE  job[j] = "running" /\ owner'[j] = owner[j]
  BY <1>1 DEF EnqueueJob, EnqueueJobOnce, RecoverJob, RecoveredStatus, RetryJob, CancelJob
<1>2. ASSUME NEW w \in Workers, NEW k \in Jobs, ClaimJob(w, k)
      PROVE  job[j] = "running" /\ owner'[j] = owner[j]
  BY <1>2 DEF ClaimJob
<1>3. ASSUME NEW w \in Workers, NEW r \in Results, CloseJob(w, r)
      PROVE  job[j] = "running" /\ owner'[j] = owner[j]
  BY <1>3 DEF CloseJob, Holds, ClosedStatus, Results
<1>4. CASE UNCHANGED jobVars
  BY <1>4 DEF jobVars
<1> QED
  BY <1>1, <1>2, <1>3, <1>4 DEF QueueStep, Die, queueVars

\* A step that sets a fence.
Fences(w) ==
  /\ StageStep(w) /\ Dispatchable(w) /\ Fence(w)
  /\ UNCHANGED <<revs, job, tries, owner>>

\* A fence only comes alive when it is set.
LEMMA LiveOrFenced ==
  ASSUME IInv, [Next]_vars, NEW j \in Jobs, Live(j)'
  PROVE  Live(j) \/ \E w \in Workers : cur[w] = j /\ Fences(w)
<1>0. /\ TypeOK /\ QueueTypeOK /\ QueueStep /\ WorkInv
      /\ fence \in [Jobs -> [attempt : Nat, worker : Workers \cup {Nobody}]]
      /\ fence[j].attempt <= tries[j] /\ fence[j].attempt \in Nat
  BY NextIsQueueStep DEF IInv, TypeOK
<1>1. CASE fence'[j] = fence[j]
  <2>1. tries'[j] >= tries[j] /\ tries[j] \in Nat /\ tries'[j] \in Nat
    BY <1>0, TriesGrow
  <2>2. tries'[j] = tries[j]
    BY <1>0, <1>1, <2>1 DEF Live
  <2>3. job[j] = "running" /\ owner'[j] = owner[j]
    BY <1>0, <2>2, RunningStays DEF Live
  <2> QED
    BY <1>1, <2>2, <2>3 DEF Live
<1>2. CASE fence'[j] # fence[j]
  <2>1. PICK w \in Workers : StageStep(w)
    <3>1. CASE \A w \in Workers : ~StageStep(w)
      <4>1. UNCHANGED fence
        BY <3>1 DEF Next, vars, RequestPack, ActivatePrompt, RegenerateVariant, Recover, Operate,
           Approve, Reject, Edit, Start, End, Crash, WorkerStep, StageStep
      <4> QED
        BY <1>2, <4>1
    <3> QED
      BY <3>1
  <2>2. fence'[j] # NoFence
    BY DEF Live
  <2>3. cur[w] \in Jobs
    BY <1>0, <2>1, StageWorks
  <2>4. ASSUME fence' = [fence EXCEPT ![cur[w]] = NoFence] PROVE FALSE
    BY <1>0, <1>2, <2>2, <2>3, <2>4
  <2>5. /\ Before(w) \/ Ensure(w)
        /\ Dispatchable(w) /\ Fence(w)
    <3>1. CASE Before(w) \/ Ensure(w)
      BY <1>2, <3>1 DEF Before, Ensure
    <3>2. CASE WriteVariant(w, TRUE) \/ WriteVariant(w, FALSE)
      BY <1>2, <2>4, <3>2 DEF WriteVariant, Advance
    <3>3. CASE Clear(w)
      BY <1>2, <2>4, <3>3 DEF Clear
    <3> QED
      BY <1>2, <2>1, <3>1, <3>2, <3>3 DEF StageStep, Load, Reuse, StartAttempt, CallSucceeds, CallFails,
         WriteStory
  <2>6. UNCHANGED <<revs, job, tries, owner>>
    BY <2>5 DEF Before, Ensure, packVars, queueVars, jobVars
  <2>7. cur[w] = j
    BY <1>0, <1>2, <2>3, <2>5 DEF Fence
  <2> QED
    BY <2>1, <2>5, <2>6, <2>7 DEF Fences
<1> QED
  BY <1>1, <1>2

\* While a step sets the fence of one job, those of the others stay.
LEMMA OtherFences ==
  ASSUME TypeOK, NEW w \in Workers, Fences(w), NEW k \in Jobs, k # cur[w], Live(k)'
  PROVE  Live(k)
<1>1. fence'[k] = fence[k]
  BY DEF Fences, Fence, TypeOK
<1>2. UNCHANGED <<job, tries, owner>>
  BY DEF Fences
<1> QED
  BY <1>1, <1>2 DEF Live

\* The base of a living fence does not move.
LEMMA MovesUnfenced ==
  ASSUME IInv, [Next]_vars, NEW j \in Jobs, j.kind = "regenerate", Live(j)'
  PROVE  Newest(j.platform)' = Newest(j.platform)
<1>0. /\ TypeOK /\ WorkInv /\ FenceInv /\ j.platform \in Platforms
      /\ revs \in [Platforms -> Seq(Revision)]
      /\ fence \in [Jobs -> [attempt : Nat, worker : Workers \cup {Nobody}]]
  BY KindOfJob DEF IInv, TypeOK
<1>1. CASE revs'[j.platform] = revs[j.platform]
  BY <1>1 DEF Newest
<1>2. ASSUME NEW p \in Platforms, NEW n \in 1..MaxRevision, Edit(p, n)
      PROVE  Newest(j.platform)' = Newest(j.platform)
  <2>1. Live(j)
    BY <1>2 DEF Edit, Live, queueVars, jobVars
  <2>2. p # j.platform
    BY <1>2, <2>1 DEF Edit, MayEdit, Fenced
  <2>3. revs'[j.platform] = revs[j.platform]
    BY <1>0, <1>2, <2>2 DEF Edit
  <2> QED
    BY <2>3 DEF Newest
<1>3. ASSUME NEW p \in Platforms, Approve(p) \/ \E n \in 1..MaxRevision : Reject(p, n)
      PROVE  Newest(j.platform)' = Newest(j.platform)
  <2>1. PICK n \in DOMAIN revs[p] : \E st \in {"approved", "rejected"} :
          revs' = [revs EXCEPT ![p][n].state = st]
    <3>1. CASE Approve(p)
      <4>1. Newest(p) \in DOMAIN revs[p]
        BY <1>0, <3>1, RevisionTypes DEF Approve
      <4> QED
        BY <3>1, <4>1 DEF Approve
    <3>2. CASE \E n \in 1..MaxRevision : Reject(p, n)
      BY <3>2 DEF Reject
    <3> QED
      BY <1>3, <3>1, <3>2
  <2> QED
    BY <1>0, <2>1, ReviewKeepsBy
<1>4. ASSUME NEW w \in Workers, NEW valid \in BOOLEAN, WriteVariant(w, valid),
             revs'[j.platform] # revs[j.platform]
      PROVE  FALSE
  <2>1. StageStep(w) /\ cur[w] \in Jobs
    BY <1>0, <1>4, StageWorks DEF StageStep
  <2>2. PICK p \in Platforms : p = Purpose(w)
    BY <1>0, <1>4, <2>1, StageWorks, PurposeOfWorker DEF WriteVariant
  <2>3. /\ Writable(w, p)
        /\ revs' = [revs EXCEPT ![p] = Append(@, Written(Newest(p), cur[w], valid))]
        /\ fence' = [fence EXCEPT ![cur[w]] = NoFence]
        /\ UNCHANGED <<job, tries, owner>>
    BY <1>4, <2>2 DEF WriteVariant, Advance, queueVars, jobVars
  <2>4. p = j.platform
    BY <1>0, <1>4, <2>3
  <2>5. j # cur[w] /\ Live(j)
    BY <1>0, <2>1, <2>3 DEF Live
  <2>6. CASE Regenerates(w)
    <3>1. cur[w].kind = "regenerate" /\ cur[w].platform = p /\ Live(cur[w])
      BY <2>2, <2>3, <2>6 DEF Regenerates, Purpose, Writable
    <3> QED
      BY <1>0, <2>1, <2>4, <2>5, <3>1 DEF FenceInv
  <2>7. CASE ~Regenerates(w)
    BY <2>3, <2>4, <2>5, <2>7 DEF Writable, Fenced
  <2> QED
    BY <2>6, <2>7
<1>5. ASSUME NEW w \in Workers, Start(w) \/ WorkerStep(w) \/ Crash(w),
             revs'[j.platform] # revs[j.platform]
      PROVE  \E valid \in BOOLEAN : WriteVariant(w, valid)
  BY <1>5 DEF Start, WorkerStep, Crash, Load, Reuse, StartAttempt, Before, CallSucceeds, CallFails,
     Ensure, WriteStory, Clear, End, packVars
<1>6. CASE RequestPack \/ ActivatePrompt \/ (\E k \in Jobs : RegenerateVariant(k) \/ Recover(k) \/ Operate(k))
           \/ UNCHANGED vars
  BY <1>1, <1>6 DEF RequestPack, ActivatePrompt, RegenerateVariant, Recover, Operate, vars, packVars
<1>7. CASE \E w \in Workers : Start(w) \/ WorkerStep(w) \/ Crash(w)
  BY <1>1, <1>4, <1>5, <1>7
<1> QED
  BY <1>2, <1>3, <1>6, <1>7 DEF Next

LEMMA FenceKeeps ==
  ASSUME IInv, [Next]_vars
  PROVE  FenceInv'
<1>0. TypeOK /\ FenceInv
  BY DEF IInv
<1>1. ASSUME NEW j \in Jobs, j.kind = "regenerate", Live(j)'
      PROVE  /\ Newest(j.platform)' = j.base
             /\ \A k \in Jobs : k.kind = "regenerate" /\ k.platform = j.platform /\ Live(k)' => k = j
  <2>1. Newest(j.platform)' = Newest(j.platform)
    BY <1>1, MovesUnfenced
  <2>2. CASE \E w \in Workers : cur[w] = j /\ Fences(w)
    <3>1. PICK w \in Workers : cur[w] = j /\ Fences(w)
      BY <2>2
    <3>2. /\ Newest(j.platform) = j.base
          /\ \A k \in Jobs : k.kind = "regenerate" /\ k.platform = j.platform /\ Live(k) => k = j
      BY <3>1 DEF Fences, Dispatchable
    <3>3. \A k \in Jobs : k # j /\ Live(k)' => Live(k)
      BY <1>0, <3>1, OtherFences
    <3> QED
      BY <2>1, <3>2, <3>3
  <2>3. CASE Live(j)
    <3>1. Newest(j.platform) = j.base
      BY <1>0, <1>1, <2>3 DEF FenceInv
    <3>2. ASSUME NEW k \in Jobs, k.kind = "regenerate", k.platform = j.platform, Live(k)'
          PROVE  k = j
      <4>1. CASE Live(k)
        BY <1>0, <1>1, <2>3, <3>2, <4>1 DEF FenceInv
      <4>2. CASE \E w \in Workers : cur[w] = k /\ Fences(w)
        BY <1>1, <2>3, <3>2, <4>2 DEF Fences, Dispatchable
      <4> QED
        BY <3>2, <4>1, <4>2, LiveOrFenced
    <3> QED
      BY <2>1, <3>1, <3>2
  <2> QED
    BY <1>1, <2>2, <2>3, LiveOrFenced
<1> QED
  BY <1>1 DEF FenceInv

-----------------------------------------------------------------------------
(* The budget of provider calls. *)

\* The active attempt of a run only grows.
LEMMA ActiveGrows ==
  ASSUME IInv, [Next]_vars, NEW j \in Jobs, NEW p \in Purposes
  PROVE  runs[j][p].active \in Nat /\ runs'[j][p].active \in Nat /\ runs'[j][p].active >= runs[j][p].active
<1>0. /\ TypeOK /\ WorkInv /\ UsedInv
      /\ runs \in [Jobs -> [Purposes -> Runs]] /\ runs[j][p] \in Runs
      /\ runs[j][p].active \in Nat
  BY DEF IInv, TypeOK, Runs
<1>1. ASSUME NEW w \in Workers, StageStep(w), NEW x,
             runs' = [runs EXCEPT ![cur[w]][Purpose(w)] = x],
             Starts(w, x) \/ Fails(w, x) \/ Succeeds(w, x) \/ IsUsed(w, x)
      PROVE  runs'[j][p].active \in Nat /\ runs'[j][p].active >= runs[j][p].active
  <2>1. cur[w] \in Jobs /\ Purpose(w) \in Purposes
    BY <1>0, <1>1, StageWorks, PurposeOfWorker
  <2>2. CASE ~(j = cur[w] /\ p = Purpose(w))
    BY <1>0, <1>1, <2>1, <2>2
  <2>3. CASE j = cur[w] /\ p = Purpose(w)
    <3>1. runs'[j][p] = x /\ Run(w) = runs[j][p]
      BY <1>0, <1>1, <2>1, <2>3 DEF Run
    <3>2. x.active = runs[j][p].active \/ x.active = runs[j][p].active + 1
      BY <1>0, <1>1, <3>1 DEF Starts, Fails, Succeeds, IsUsed, Runs
    <3> QED
      BY <1>0, <3>1, <3>2
  <2> QED
    BY <2>2, <2>3
<1>2. ASSUME NEW w \in Workers, StageStep(w)
      PROVE  runs'[j][p].active \in Nat /\ runs'[j][p].active >= runs[j][p].active
  <2>1. CASE Unchanges(w)
    BY <1>0, <2>1 DEF Unchanges
  <2> QED
    BY <1>0, <1>1, <1>2, <2>1, StageEffects
<1> QED
  BY <1>0, <1>2, OtherSteps

\* A worker before its call was there already, or has a new attempt.
LEMMA BeforeIsOldOrNew ==
  ASSUME IInv, [Next]_vars, NEW v \in Workers, pc'[v] = "before"
  PROVE  \/ /\ Open(v) /\ cur'[v] = cur[v] /\ Purpose(v)' = Purpose(v) /\ wk'[v].att = wk[v].att
            /\ pc[v] = "before"
         \/ \E j \in Jobs, p \in Purposes :
              cur'[v] = j /\ Purpose(v)' = p /\ wk'[v].att = runs[j][p].active + 1
<1>0. TypeOK /\ WorkInv /\ UsedInv /\ pc \in [Workers -> Steps]
  BY DEF IInv, TypeOK
<1>1. CASE StageStep(v)
  <2>1. PICK j \in Jobs, p \in Purposes : j = cur[v] /\ p = Purpose(v) /\ cur'[v] = cur[v]
    BY <1>0, <1>1, StageWorks, PurposeOfWorker, StageFrame
  <2>2. \/ Unchanges(v)
        \/ \E x : Starts(v, x)
    BY <1>0, <1>1, StageEffects DEF Fails, Succeeds, IsUsed
  <2>3. wk'[v].i = wk[v].i
    BY <2>2 DEF Unchanges, Starts
  <2>4. Purpose(v)' = Purpose(v)
    BY <1>0, <1>1, <2>3, SamePurpose
  <2>5. CASE \E x : Starts(v, x)
    BY <2>1, <2>4, <2>5 DEF Starts, Run
  <2>6. CASE Unchanges(v)
    <3>1. pc[v] # "call"
      <4>1. ASSUME pc[v] = "call" PROVE pc'[v] # "before"
        <5>1. CallSucceeds(v) \/ \E r \in Failures : CallFails(v, r)
          BY <1>1, <4>1 DEF StageStep, Load, Reuse, StartAttempt, Before, Ensure, WriteStory,
             WriteVariant, Clear
        <5>2. \A r \in Results : Leave(v, r) => pc'[v] # "before"
          BY <1>0 DEF Leave, Goto, Results
        <5> QED
          BY <1>0, <5>1, <5>2 DEF CallSucceeds, CallFails, Failed, Failures, Results, Goto
      <4> QED
        BY <4>1
    <3> QED
      BY <2>1, <2>4, <2>6, <3>1 DEF Unchanges, Open
  <2> QED
    BY <2>2, <2>5, <2>6
<1>2. ASSUME NEW w \in Workers, StageStep(w), w # v
      PROVE  /\ Open(v) /\ cur'[v] = cur[v] /\ Purpose(v)' = Purpose(v)
             /\ wk'[v].att = wk[v].att /\ pc[v] = "before"
  BY <1>0, <1>2, Bystander DEF Open
<1>3. CASE ~\E w \in Workers : StageStep(w)
  <2>1. cur'[v] = cur[v] /\ wk'[v] = wk[v] /\ pc[v] = "before"
    BY <1>3, OtherSteps DEF Busy
  <2> QED
    BY <2>1 DEF Purpose, Open
<1> QED
  BY <1>1, <1>2, <1>3

\* Spent attempts stay spent.
LEMMA SpentGrows ==
  ASSUME IInv, [Next]_vars, NEW j \in Jobs, NEW p \in Purposes
  PROVE  Spent(j, p) \subseteq Spent(j, p)'
<1>1. ASSUME NEW a \in Spent(j, p) PROVE a \in Spent(j, p)'
  <2>1. a \in 1..MaxCalls /\ a <= runs[j][p].active
    BY DEF Spent
  <2>2. a <= runs'[j][p].active
    BY <2>1, ActiveGrows, ContentPacksAssumption
  <2>3. ASSUME NEW v \in Workers, pc'[v] = "before", cur'[v] = j, Purpose(v)' = p, wk'[v].att = a
        PROVE  FALSE
    <3>1. CASE /\ Open(v) /\ cur'[v] = cur[v] /\ Purpose(v)' = Purpose(v)
               /\ wk'[v].att = wk[v].att /\ pc[v] = "before"
      BY <2>3, <3>1 DEF Spent
    <3>2. ASSUME wk'[v].att = runs[j][p].active + 1 PROVE FALSE
      BY <2>1, <2>3, <3>2, ActiveGrows, ContentPacksAssumption
    <3> QED
      BY <2>3, <3>1, <3>2, BeforeIsOldOrNew
  <2> QED
    BY <2>1, <2>2, <2>3 DEF Spent
<1> QED
  BY <1>1

\* There are at most as many spent attempts as the budget allows.
LEMMA SpentBounded ==
  ASSUME NEW j \in Jobs, NEW p \in Purposes
  PROVE  /\ IsFiniteSet(Spent(j, p)) /\ Cardinality(Spent(j, p)) \in Nat
         /\ Cardinality(Spent(j, p)) <= MaxCalls
<1>1. IsFiniteSet(1..MaxCalls) /\ Cardinality(1..MaxCalls) <= MaxCalls
  <2>1. MaxCalls \in Nat /\ MaxCalls \in Int /\ 1 \in Int
    BY ContentPacksAssumption
  <2>2. /\ IsFiniteSet(1..MaxCalls)
        /\ Cardinality(1..MaxCalls) = IF 1 > MaxCalls THEN 0 ELSE MaxCalls - 1 + 1
    BY <2>1, FS_Interval
  <2>3. (IF 1 > MaxCalls THEN 0 ELSE MaxCalls - 1 + 1) <= MaxCalls
    BY <2>1
  <2> QED
    BY <2>2, <2>3
<1>2. Spent(j, p) \in SUBSET (1..MaxCalls)
  BY DEF Spent
<1>3. /\ IsFiniteSet(Spent(j, p))
      /\ Cardinality(Spent(j, p)) <= Cardinality(1..MaxCalls)
  BY <1>1, <1>2, FS_Subset
<1>4. Cardinality(Spent(j, p)) \in Nat /\ Cardinality(1..MaxCalls) \in Nat
  BY <1>1, <1>3, FS_CardinalityType
<1> QED
  BY <1>1, <1>3, <1>4, ContentPacksAssumption

\* A call spends the attempt that makes it.
LEMMA CallSpends ==
  ASSUME IInv, [Next]_vars, NEW j \in Jobs, NEW p \in Purposes, calls'[j][p] # calls[j][p]
  PROVE  /\ calls'[j][p] = calls[j][p] + 1
         /\ \E a : a \in Spent(j, p)' /\ a \notin Spent(j, p)
<1>0. /\ TypeOK /\ WorkInv /\ UsedInv /\ AttemptInv /\ pc \in [Workers -> Steps]
      /\ calls \in [Jobs -> [Purposes -> Nat]] /\ AttemptInv'
      /\ wk \in [Workers -> Work] /\ "call" \in Steps
  BY AttemptKeeps DEF IInv, TypeOK, Steps
<1>1. PICK w \in Workers : StageStep(w)
  BY OtherSteps
<1>2. /\ Before(w) /\ Affordable(w) /\ Goto(w, "call")
      /\ calls' = [calls EXCEPT ![cur[w]][Purpose(w)] = @ + 1]
      /\ wk' = [wk EXCEPT ![w].fenced = Regenerates(w)] /\ UNCHANGED runs
  BY <1>1 DEF StageStep, Load, Reuse, StartAttempt, Before, CallSucceeds, CallFails, Ensure,
     WriteStory, WriteVariant, Clear
<1>3. PICK k \in Jobs, q \in Purposes : k = cur[w] /\ q = Purpose(w)
  BY <1>0, <1>1, StageWorks, PurposeOfWorker
<1>4. j = k /\ p = q /\ calls'[j][p] = calls[j][p] + 1
  BY <1>0, <1>2, <1>3
<1>5. /\ pc[w] = "before" /\ cur[w] = j /\ Purpose(w) = p /\ Open(w)
      /\ wk[w].att \in 1..runs[j][p].active /\ wk[w].att <= MaxCalls
  BY <1>0, <1>2, <1>3, <1>4 DEF Before, Affordable, Open, AttemptInv, Run
<1>6. wk[w].att \notin Spent(j, p)
  BY <1>5 DEF Spent
<1>7. /\ pc'[w] = "call" /\ wk'[w].att = wk[w].att /\ wk'[w].i = wk[w].i /\ cur'[w] = cur[w]
      /\ Purpose(w)' = p /\ Open(w)'
  <2>1. pc'[w] = "call" /\ wk'[w].att = wk[w].att /\ wk'[w].i = wk[w].i
    BY <1>0, <1>2 DEF Goto, Work
  <2>2. cur'[w] = cur[w]
    BY <1>0, <1>1, StageFrame
  <2>3. Purpose(w)' = Purpose(w)
    BY <1>0, <1>1, <2>1, SamePurpose
  <2> QED
    BY <1>5, <2>1, <2>2, <2>3 DEF Open
<1>8. ASSUME NEW v \in Workers, pc'[v] = "before", cur'[v] = j, Purpose(v)' = p,
             wk'[v].att = wk[w].att
      PROVE  FALSE
  <2>1. Open(v)' /\ v # w
    BY <1>7, <1>8 DEF Open
  <2> QED
    BY <1>0, <1>5, <1>7, <1>8, <2>1 DEF AttemptInv
<1>9. wk[w].att \in 1..MaxCalls
  <2>1. runs[j][p].active \in Nat
    BY ActiveGrows
  <2> QED
    BY <1>5, <2>1, ContentPacksAssumption
<1>10. wk[w].att <= runs'[j][p].active
  BY <1>2, <1>5
<1>11. wk[w].att \in Spent(j, p)'
  BY <1>8, <1>9, <1>10 DEF Spent
<1> QED
  BY <1>4, <1>6, <1>11

LEMMA CallsKeeps ==
  ASSUME IInv, [Next]_vars
  PROVE  CallsInv'
<1>1. ASSUME NEW j \in Jobs, NEW p \in Purposes
      PROVE  calls'[j][p] <= Cardinality(Spent(j, p)')
  <2>1. /\ calls[j][p] <= Cardinality(Spent(j, p)) /\ calls[j][p] \in Nat
        /\ Spent(j, p) \subseteq Spent(j, p)'
    BY SpentGrows DEF IInv, CallsInv, TypeOK
  <2>2. IsFiniteSet(Spent(j, p)) /\ Cardinality(Spent(j, p)) \in Nat
    BY SpentBounded
  <2>3. IsFiniteSet(Spent(j, p)') /\ Cardinality(Spent(j, p)') \in Nat
    <3>1. IsFiniteSet(1..MaxCalls)
      BY ContentPacksAssumption, FS_Interval
    <3>2. Spent(j, p)' \in SUBSET (1..MaxCalls)
      BY DEF Spent
    <3> QED
      BY <3>1, <3>2, FS_Subset, FS_CardinalityType
  <2>4. CASE calls'[j][p] = calls[j][p]
    <3>1. Cardinality(Spent(j, p)) <= Cardinality(Spent(j, p)')
      BY <2>1, <2>3, FS_Subset
    <3> QED
      BY <2>1, <2>2, <2>3, <2>4, <3>1
  <2>5. CASE calls'[j][p] # calls[j][p]
    <3>1. calls'[j][p] = calls[j][p] + 1
      BY <2>5, CallSpends
    <3>2. PICK a : a \in Spent(j, p)' /\ a \notin Spent(j, p)
      BY <2>5, CallSpends
    <3>3. /\ IsFiniteSet(Spent(j, p) \cup {a})
          /\ Cardinality(Spent(j, p) \cup {a}) = Cardinality(Spent(j, p)) + 1
      BY <2>2, <3>2, FS_AddElement
    <3>4. Spent(j, p) \cup {a} \in SUBSET (Spent(j, p)')
      BY <2>1, <3>2
    <3>5. Cardinality(Spent(j, p) \cup {a}) <= Cardinality(Spent(j, p)')
      BY <2>3, <3>4, FS_Subset
    <3> QED
      BY <2>1, <2>2, <2>3, <3>1, <3>3, <3>5
  <2> QED
    BY <2>4, <2>5
<1> QED
  BY <1>1 DEF CallsInv

-----------------------------------------------------------------------------
(* The invariant and what follows from it. *)

LEMMA Starts0 == Init => IInv
<1> SUFFICES ASSUME Init PROVE IInv
  OBVIOUS
<1>1. QueueInv
  BY QueueStarts DEF Init
<1>2. /\ job = [j \in Jobs |-> "absent"] /\ tries = [j \in Jobs |-> 0]
      /\ cur = [w \in Workers |-> NoJob] /\ pc = [w \in Workers |-> "idle"]
      /\ stories = 0 /\ status = "none" /\ prompts = TRUE
      /\ revs = [p \in Platforms |-> <<>>]
      /\ runs = [j \in Jobs |-> [p \in Purposes |-> NoRun]]
      /\ calls = [j \in Jobs |-> [p \in Purposes |-> 0]]
      /\ fence = [j \in Jobs |-> NoFence] /\ wk = [w \in Workers |-> NoWork]
  BY DEF Init, QueueInit
<1>3. TypeOK
  <2>1. 1 \in DOMAIN PackPlatforms
    BY ContentPacksAssumption, EmptySeq, LenProperties
  <2>2. NoWork \in Work
    BY <2>1 DEF NoWork, Work
  <2>3. NoRun \in Runs /\ NoRun.by = 0 /\ NoRun.artifact = 0
    BY DEF NoRun, Runs
  <2>4. NoFence \in [attempt : Nat, worker : Workers \cup {Nobody}] /\ NoFence.attempt = 0
    BY DEF NoFence
  <2>5. <<>> \in Seq(Revision)
    BY EmptySeq
  <2>6. \A j \in Jobs : \A p \in Purposes : runs[j][p].by <= tries[j]
    BY <1>2, <2>3
  <2>7. \A j \in Jobs : fence[j].attempt <= tries[j]
    <3> SUFFICES ASSUME NEW j \in Jobs PROVE fence[j].attempt <= tries[j]
      OBVIOUS
    <3>1. fence[j] = NoFence /\ tries[j] = 0
      BY <1>2
    <3>2. fence[j].attempt = 0
      BY <2>4, <3>1
    <3> QED
      BY <3>1, <3>2
  <2>8. "idle" \in Steps
    BY DEF Steps
  <2>9. QueueTypeOK
    BY <1>1 DEF QueueInv
  <2>10. prompts \in BOOLEAN
    BY <1>2
  <2>11. /\ stories \in Nat /\ status \in {"none", "draft", "ready"}
         /\ revs \in [Platforms -> Seq(Revision)] /\ runs \in [Jobs -> [Purposes -> Runs]]
         /\ calls \in [Jobs -> [Purposes -> Nat]]
         /\ fence \in [Jobs -> [attempt : Nat, worker : Workers \cup {Nobody}]]
         /\ pc \in [Workers -> Steps] /\ wk \in [Workers -> Work]
    BY <1>2, <2>2, <2>3, <2>4, <2>5, <2>8
  <2> QED
    BY <2>6, <2>7, <2>9, <2>10, <2>11 DEF TypeOK
<1>4. WorkInv /\ AttemptInv
  BY <1>2 DEF WorkInv, AttemptInv, Open
<1>5. UsedInv /\ ArtifactInv
  <2>1. \A j \in Jobs : \A p \in Purposes : runs[j][p].artifact = 0
    BY <1>2 DEF NoRun
  <2>2. \A p \in Platforms : DOMAIN revs[p] = {}
    BY <1>2
  <2> QED
    BY <1>2, <2>1, <2>2 DEF UsedInv, ArtifactInv
<1>6. FenceInv
  BY <1>2 DEF FenceInv, Live
<1>7. CallsInv
  <2>1. ASSUME NEW j \in Jobs, NEW p \in Purposes
        PROVE  calls[j][p] <= Cardinality(Spent(j, p))
    BY <1>2, SpentBounded
  <2> QED
    BY <2>1 DEF CallsInv
<1> QED
  BY <1>1, <1>3, <1>4, <1>5, <1>6, <1>7 DEF IInv

\* Every reachable state of a pack has the invariant.
LEMMA Invariance == Spec => []IInv
<1>1. IInv /\ [Next]_vars => IInv'
  BY TypeKeeps, WorkKeeps, UsedKeeps, AttemptKeeps, ArtifactKeeps, FenceKeeps, CallsKeeps
  DEF IInv
<1> QED
  BY <1>1, Starts0, PTL DEF Spec

\* The pack, its runs, the fences and the workers on them keep their types, for
\* every set of platforms, regenerations and workers.
THEOREM TypeCorrect == Spec => []TypeOK
<1>1. IInv => TypeOK
  BY DEF IInv
<1> QED
  BY <1>1, Invariance, PTL

\* A run that crashed, lost its lease or was replayed uses its output once: one
\* story revision, and one revision of a variant for each job (_durable_artifact).
THEOREM OutputsUsedOnce == Spec => []OutputUsedOnce
<1>1. IInv => OutputUsedOnce
  <2> SUFFICES ASSUME IInv PROVE OutputUsedOnce
    OBVIOUS
  <2>1. stories <= 1
    BY DEF IInv, ArtifactInv
  <2>2. ASSUME NEW p \in Platforms, NEW m \in DOMAIN revs[p], NEW n \in DOMAIN revs[p],
               revs[p][m].by = revs[p][n].by, revs[p][m].by # Nobody
        PROVE  m = n
    <3>1. runs[revs[p][m].by][p].artifact = m /\ runs[revs[p][n].by][p].artifact = n
      BY <2>2 DEF IInv, ArtifactInv
    <3> QED
      BY <2>2, <3>1
  <2> QED
    BY <2>1, <2>2 DEF OutputUsedOnce
<1> QED
  BY <1>1, Invariance, PTL

\* While a regeneration holds its fence, neither an edit nor another job moves
\* its base (require_revision_write_allowed, _require_exact_regeneration_dispatch).
THEOREM FenceKeepsBase == Spec => []FencedBaseCurrent
<1>1. IInv => FencedBaseCurrent
  BY DEF IInv, FenceInv, FencedBaseCurrent
<1> QED
  BY <1>1, Invariance, PTL

\* However often a job is claimed again, a stage calls the provider no more
\* often than its profile allows (before_provider_call).
THEOREM BudgetOfCalls == Spec => []CallsBounded
<1>1. IInv => CallsBounded
  <2> SUFFICES ASSUME IInv, NEW j \in Jobs, NEW p \in Purposes PROVE calls[j][p] <= MaxCalls
    BY DEF CallsBounded
  <2>1. calls[j][p] <= Cardinality(Spent(j, p)) /\ calls[j][p] \in Nat
    BY DEF IInv, CallsInv, TypeOK
  <2>2. Cardinality(Spent(j, p)) \in Nat /\ Cardinality(Spent(j, p)) <= MaxCalls
    BY SpentBounded
  <2> QED
    BY <2>1, <2>2, ContentPacksAssumption
<1> QED
  BY <1>1, Invariance, PTL

=============================================================================
