---------------------- MODULE ContinuousIngestionProofs ----------------------
(***************************************************************************)
(* Proofs about the continuous ingestion of a collection, for every set of  *)
(* subscriptions and workers and any number of cycles and lost leases:      *)
(* types, one ingestion at a time, settled runs that stay settled, and      *)
(* stopped subscriptions that stay stopped; and about the schedules and     *)
(* icons of sources: slots that never come again and keep their distance to *)
(* fetches, and icons that never wait for a job nobody wrote.               *)
(***************************************************************************)
EXTENDS ContinuousIngestion, FiniteSetTheorems, TLAPS

\* A job that waits has an attempt left.
BudgetInv == \A j \in Cycles : job[j] \in {"absent", "queued"} => tries[j] < MaxAttempts

\* A worker that is not idle works on a cycle whose job exists.
WorkInv ==
  \A w \in Workers : pc[w] # "idle" => cur[w] \in Cycles /\ job[cur[w]] # "absent"

\* While no live worker has lost a lease, what a worker works on is its own.
LeaseInv ==
  lost = 0 => \A w \in Workers :
                cur[w] \in Cycles => job[cur[w]] = "running" /\ owner[cur[w]] = w

\* While leases are kept, the run of a worker's cycle is as it left it.
RunInv ==
  lost = 0 => \A w \in Workers :
                /\ pc[w] \in {"resume", "ingesting"} => run[cur[w]] = "running"
                /\ pc[w] = "ingest" => run[cur[w]] = "queued"

\* The index on the active runs of a collection, for as long as it exists.
IndexInv ==
  coll => /\ \A i, j \in ActiveRuns : i = j
          /\ manual => ActiveRuns = {}

\* A subscription is started before it has a job, and "starting" until then.
StartInv ==
  \A s \in Subs : sub[s].status \in {"none", "starting"}
                    => \A c \in 1..MaxCycles : job[<<s, c>>] = "absent"

\* So a worker never reads "starting", and it goes on with "running" only.
ReadInv ==
  \A w \in Workers :
    /\ pc[w] = "hinted" => loaded[w].status # "starting"
    /\ pc[w] \in {"ingest", "resume", "ingesting", "finish"}
         => loaded[w].status = "running"

IInv == /\ TypeOK /\ BudgetInv /\ WorkInv /\ LeaseInv /\ RunInv /\ IndexInv
        /\ StartInv /\ ReadInv

-----------------------------------------------------------------------------
(* The subscription rows the operations compute. *)

LEMMA Values ==
  /\ {"none", "starting", "running", "stopping", "stopped", "error"} \subseteq Statuses
  /\ 0 \in 0..MaxCycles
  /\ Blank \in Row
BY ConstantsAssumption DEF Statuses, Active, Blank, Row

\* A flush keeps a row a row, and writes the status only where it changed.
LEMMA FlushRow ==
  ASSUME NEW row \in Row, NEW l \in Row, NEW n \in Row
  PROVE  /\ Flush(row, l, n) \in Row
         /\ Flush(row, l, n).status = IF n.status # l.status THEN n.status
                                      ELSE row.status
BY DEF Flush, Row

LEMMA FinishRow ==
  ASSUME NEW l \in Row, NEW c \in Nat
  PROVE  /\ FinishCycle(l, c) \in Row
         /\ FinishCycle(l, c).status \in {"running", "stopped"}
         /\ l.status = "running" => FinishCycle(l, c).status = "running"
<1>1. Larger(l.count, c) \in Nat
  BY DEF Larger, Row
<1> QED
  BY <1>1, Values DEF FinishCycle, Row

LEMMA DeferRow ==
  ASSUME NEW l \in Row
  PROVE  DeferCycle(l) \in Row /\ DeferCycle(l).status = "running"
<1>1. l.count + 1 \in Nat
  BY DEF Row
<1> QED
  BY <1>1, Values DEF DeferCycle, Row

LEMMA StoppedRow ==
  ASSUME NEW l \in Row
  PROVE  StopWithoutCycle(l) \in Row /\ StopWithoutCycle(l).status = "stopped"
BY Values DEF StopWithoutCycle, Row

\* A stop leaves the row stopping or stopped, or as it was.
LEMMA StopOneRow ==
  ASSUME NEW s \in Subs, sub[s] \in Row, NEW l \in Row
  PROVE  /\ StopOne(s, l) \in Row
         /\ StopOne(s, l).status \in {sub[s].status, "stopping", "stopped"}
<1> DEFINE asked1 == [l EXCEPT !.status = "stopping", !.next = "null"]
           ended == [l EXCEPT !.status = "stopped", !.next = "null", !.ptr = 0]
<1>1. asked1 \in Row /\ asked1.status = "stopping"
  BY Values DEF Row
<1>2. ended \in Row /\ ended.status = "stopped"
  BY Values DEF Row
<1>3. StopOne(s, l) \in {Flush(sub[s], l, asked1), Flush(sub[s], l, ended)}
  BY DEF StopOne
<1> HIDE DEF asked1, ended
<1> QED
  BY <1>1, <1>2, <1>3, FlushRow

-----------------------------------------------------------------------------
(* The steps. *)

\* What the operator and the scheduler do to the jobs: they enqueue and cancel.
JobsMoved ==
  /\ job' \in [Cycles -> JobStatuses]
  /\ \A j \in Cycles : \/ job'[j] = job[j]
                       \/ job[j] = "absent" /\ job'[j] = "queued"
                       \/ job[j] = "queued" /\ job'[j] = "cancelled"

\* Rows change, jobs are enqueued or cancelled, and the workers are left alone.
LEMMA RowsKeep ==
  ASSUME IInv, JobsMoved, UNCHANGED <<tries, owner, lost, run, handlers>>,
         sub' \in [Subs -> Row], coll' \in BOOLEAN, members' \in BOOLEAN,
         manual' \in BOOLEAN, asked' \in Subs \cup {Nobody}, askedRow' \in Row,
         IndexInv', StartInv'
  PROVE  IInv'
<1> USE DEF IInv, JobsMoved, handlers
<1>1. TypeOK'
  BY DEF TypeOK
<1>2. BudgetInv'
  BY DEF BudgetInv, TypeOK
<1>3. WorkInv' /\ LeaseInv'
  BY DEF WorkInv, LeaseInv, TypeOK
<1>4. RunInv' /\ ReadInv'
  BY DEF RunInv, ReadInv
<1> QED
  BY <1>1, <1>2, <1>3, <1>4

\* A row of one subscription is written, and no job is enqueued.
LEMMA OneRowKeeps ==
  ASSUME IInv, NEW s \in Subs, NEW n \in Row, JobsMoved,
         sub' = [sub EXCEPT ![s] = n],
         n.status \in {"none", "starting"} => sub[s].status \in {"none", "starting"},
         \A j \in Cycles : job[j] = "absent" => job'[j] = "absent",
         UNCHANGED <<tries, owner, lost, run, handlers, coll, members, manual>>,
         asked' \in Subs \cup {Nobody}, askedRow' \in Row
  PROVE  IInv'
<1>1. sub' \in [Subs -> Row]
  BY DEF IInv, TypeOK
<1>2. StartInv'
  BY DEF IInv, StartInv, TypeOK, Cycles
<1>3. IndexInv'
  BY DEF IInv, IndexInv, ActiveRuns
<1> QED
  BY <1>1, <1>2, <1>3, RowsKeep DEF IInv, TypeOK

\* A stop of s on a row that was read as l.
LEMMA StopMoves ==
  ASSUME IInv, NEW s \in Subs, NEW l \in Row, Stop(s, l)
  PROVE  /\ JobsMoved
         /\ \A j \in Cycles : job[j] = "absent" => job'[j] = "absent"
         /\ sub' = [sub EXCEPT ![s] = StopOne(s, l)]
BY DEF Stop, Cancel, CancelledBy, JobsMoved, IInv, TypeOK, JobStatuses

LEMMA OperatorKeeps ==
  ASSUME IInv, Operator
  PROVE  IInv'
<1>0. /\ sub \in [Subs -> Row] /\ askedRow \in Row /\ asked \in Subs \cup {Nobody}
  BY DEF IInv, TypeOK
<1>1. ASSUME NEW s \in Subs, Start(s) PROVE IInv'
  <2>1. [sub[s] EXCEPT !.status = "starting", !.next = "due"] \in Row
    BY <1>0, Values DEF Row
  <2>2. sub' = [sub EXCEPT ![s] = [sub[s] EXCEPT !.status = "starting", !.next = "due"]]
    BY <1>1, <1>0 DEF Start, Row
  <2>3. JobsMoved
    BY <1>1 DEF Start, queue, JobsMoved, IInv, TypeOK
  <2> QED
    BY <1>0, <1>1, <2>1, <2>2, <2>3, OneRowKeeps DEF Start, queue, request
<1>2. ASSUME NEW s \in Subs, StopById(s) PROVE IInv'
  <2>1. Stop(s, sub[s]) /\ sub[s] \in Row
    BY <1>0, <1>2 DEF StopById
  <2> QED
    BY <1>0, <1>2, <2>1, StopMoves, StopOneRow, OneRowKeeps DEF StopById, request
<1>3. ASSUME NEW s \in Subs, StopRead(s) PROVE IInv'
  BY <1>0, <1>3, RowsKeep DEF StopRead, queue, JobsMoved, IInv, TypeOK, IndexInv,
     ActiveRuns, StartInv
<1>4. CASE StopLatest
  <2>1. askedRow' \in Row /\ asked' \in Subs \cup {Nobody}
    BY <1>4, Values DEF StopLatest
  <2>2. CASE Stoppable(asked, askedRow)
    <3>1. asked \in Subs /\ Stop(asked, askedRow)
      BY <1>0, <1>4, <2>2 DEF StopLatest
    <3> QED
      BY <1>0, <1>4, <2>1, <3>1, StopMoves, StopOneRow, OneRowKeeps DEF StopLatest
  <2>3. CASE ~Stoppable(asked, askedRow)
    BY <1>0, <1>4, <2>1, <2>3, RowsKeep DEF StopLatest, JobsMoved, IInv, TypeOK,
       IndexInv, ActiveRuns, StartInv
  <2> QED
    BY <2>2, <2>3
<1>5. CASE StartManual \/ EndManual \/ ChangeMembers
  <2>1. members' \in BOOLEAN /\ manual' \in BOOLEAN
    BY <1>5, Zenon DEF StartManual, EndManual, ChangeMembers, IInv, TypeOK
  <2>2. JobsMoved /\ StartInv'
    BY <1>5 DEF StartManual, EndManual, ChangeMembers, queue, JobsMoved, IInv,
       TypeOK, StartInv
  <2>3. IndexInv'
    BY <1>5 DEF StartManual, EndManual, ChangeMembers, IInv, IndexInv, ActiveRuns
  <2> QED
    BY <1>0, <1>5, <2>1, <2>2, <2>3, RowsKeep DEF StartManual, EndManual,
       ChangeMembers, queue, request, IInv, TypeOK
<1>6. CASE DeleteCollection
  <2>1. JobsMoved /\ \A j \in Cycles : job[j] = "absent" => job'[j] = "absent"
    BY <1>6 DEF DeleteCollection, Cancel, CancelledBy, JobsMoved, IInv, TypeOK,
       JobStatuses
  <2>2. \A s \in Subs : StopOne(s, sub[s]) \in Row
                        /\ StopOne(s, sub[s]).status
                             \in {sub[s].status, "stopping", "stopped"}
    BY <1>0, StopOneRow
  <2>3. sub' \in [Subs -> Row]
    BY <1>0, <1>6, <2>2 DEF DeleteCollection
  <2>4. StartInv'
    BY <1>6, <2>1, <2>2 DEF DeleteCollection, IInv, StartInv, Cycles
  <2>5. IndexInv' /\ coll' \in BOOLEAN
    BY <1>6 DEF DeleteCollection, IndexInv
  <2> QED
    BY <1>0, <1>6, <2>1, <2>3, <2>4, <2>5, RowsKeep DEF DeleteCollection, request,
       IInv, TypeOK
<1>7. ASSUME NEW j \in Cycles, CancelJob(j) PROVE IInv'
  <2>1. JobsMoved /\ \A k \in Cycles : job[k] = "absent" => job'[k] = "absent"
    BY <1>7 DEF CancelJob, Cancel, JobsMoved, IInv, TypeOK, JobStatuses
  <2>2. StartInv' /\ IndexInv'
    BY <1>7, <2>1 DEF CancelJob, IInv, StartInv, IndexInv, ActiveRuns, Cycles, TypeOK
  <2> QED
    BY <1>0, <1>7, <2>1, <2>2, RowsKeep DEF CancelJob, request, IInv, TypeOK
<1> QED
  BY <1>1, <1>2, <1>3, <1>4, <1>5, <1>6, <1>7 DEF Operator

\* The scheduler: a job is enqueued only for a subscription that is set running.
LEMMA SchedulerKeeps ==
  ASSUME IInv, NEW s \in Subs, Schedule(s) \/ BecomesDue(s)
  PROVE  IInv'
<1>0. /\ sub \in [Subs -> Row] /\ sub[s] \in Row /\ askedRow \in Row
      /\ asked \in Subs \cup {Nobody}
  BY DEF IInv, TypeOK
<1>1. CASE CycleFailed(s)
  <2>1. /\ [sub[s] EXCEPT !.status = "error", !.next = "null", !.ptr = 0] \in Row
        /\ [sub[s] EXCEPT !.status = "error", !.next = "null", !.ptr = 0].status = "error"
    BY <1>0, Values DEF Row
  <2>2. sub' = [sub EXCEPT ![s] = [sub[s] EXCEPT !.status = "error",
                                     !.next = "null", !.ptr = 0]]
    BY <1>0, <1>1 DEF CycleFailed, Row
  <2> QED
    BY <1>0, <1>1, <2>1, <2>2, OneRowKeeps DEF CycleFailed, queue, request,
       JobsMoved, IInv, TypeOK
<1>2. CASE CycleSucceeded(s)
  <2> DEFINE n == [status |-> "running", next |-> "later", ptr |-> 0,
                   count |-> Larger(sub[s].count, sub[s].ptr)]
  <2>1. n \in Row
    <3>1. Larger(sub[s].count, sub[s].ptr) \in Nat
      BY <1>0 DEF Larger, Row
    <3> QED
      BY <3>1, Values DEF Row
  <2>2. sub' = [sub EXCEPT ![s] = n]
    BY <1>0, <1>2 DEF CycleSucceeded
  <2> QED
    BY <1>0, <1>2, <2>1, <2>2, OneRowKeeps DEF CycleSucceeded, queue, request,
       JobsMoved, IInv, TypeOK
<1>3. CASE BecomesDue(s)
  <2>1. [sub[s] EXCEPT !.next = "due"] \in Row
        /\ [sub[s] EXCEPT !.next = "due"].status = sub[s].status
    BY <1>0 DEF Row
  <2>2. sub' = [sub EXCEPT ![s] = [sub[s] EXCEPT !.next = "due"]]
    BY <1>0, <1>3 DEF BecomesDue, Row
  <2> QED
    BY <1>0, <1>3, <2>1, <2>2, OneRowKeeps DEF BecomesDue, queue, request,
       JobsMoved, IInv, TypeOK
<1>4. CASE EnqueueCycle(s)
  <2> DEFINE c == sub[s].count + 1
             n == [sub[s] EXCEPT !.ptr = c, !.status = "running"]
  <2>1. c \in 1..MaxCycles /\ <<s, c>> \in Cycles
    BY <1>0, <1>4, ConstantsAssumption DEF EnqueueCycle, Row, Cycles
  <2>2. n \in Row /\ n.status = "running"
    <3>1. sub[s].status \in Statuses /\ c \in 0..MaxCycles
      BY <1>0, <2>1 DEF Row
    <3> HIDE DEF c
    <3> QED
      BY <1>0, <3>1, Values DEF Row
  <2>3. sub' = [sub EXCEPT ![s] = n]
        /\ job' = [job EXCEPT ![<<s, c>>] = IF @ = "absent" THEN "queued" ELSE @]
    BY <1>0, <1>4 DEF EnqueueCycle, Row
  <2> HIDE DEF c, n
  <2>4. JobsMoved
    BY <2>1, <2>3 DEF JobsMoved, IInv, TypeOK, JobStatuses
  <2>5. sub' \in [Subs -> Row]
    BY <1>0, <2>2, <2>3
  <2>6. \A t \in Subs \ {s}, k \in 1..MaxCycles :
          sub'[t] = sub[t] /\ job'[<<t, k>>] = job[<<t, k>>]
    BY <1>0, <2>1, <2>3 DEF Cycles, IInv, TypeOK
  <2>7. sub'[s].status = "running"
    BY <1>0, <2>2, <2>3
  <2>8. StartInv'
    BY <2>6, <2>7 DEF IInv, StartInv
  <2>9. IndexInv'
    BY <1>4 DEF EnqueueCycle, IInv, IndexInv, ActiveRuns
  <2> QED
    BY <1>0, <1>4, <2>4, <2>5, <2>8, <2>9, RowsKeep DEF EnqueueCycle, request, IInv,
       TypeOK
<1> QED
  BY <1>1, <1>2, <1>3, <1>4 DEF Schedule

\* A cycle written late: what the row was is all that can be "starting".
LEMMA SaveKeepsRows ==
  ASSUME IInv, NEW w \in Workers, pc[w] # "idle", NEW n \in Row, Save(w, n),
         n.status \in {"running", "stopped"}
  PROVE  sub' \in [Subs -> Row] /\ StartInv'
<1>1. /\ cur[w] \in Cycles /\ cur[w][1] \in Subs /\ loaded[w] \in Row
      /\ sub \in [Subs -> Row]
  BY DEF IInv, WorkInv, TypeOK, Cycles
<1>2. sub' = [sub EXCEPT ![cur[w][1]] = Flush(sub[cur[w][1]], loaded[w], n)]
      /\ job' = job
  BY <1>1 DEF Save, queue
<1> DEFINE new == Flush(sub[cur[w][1]], loaded[w], n)
<1>3. new \in Row /\ new.status \in {sub[cur[w][1]].status, "running", "stopped"}
  BY <1>1, FlushRow
<1>4. sub' = [sub EXCEPT ![cur[w][1]] = new]
  BY <1>2
<1> HIDE DEF new
<1> QED
  BY <1>1, <1>2, <1>3, <1>4 DEF IInv, StartInv

\* The steps of a handler: the leases stay as they are.
LEMMA HandlerMoves ==
  ASSUME IInv, NEW w \in Workers, UNCHANGED <<coll, members, manual, queue, cur, request>>,
         sub' \in [Subs -> Row], StartInv', IndexInv', pc[w] # "idle",
         pc' \in [Workers -> Pcs], pc'[w] # "idle",
         loaded' \in [Workers -> Row], result' \in [Workers -> {"succeeded", "retryable"}],
         run' \in [Cycles -> RunStatuses],
         \A v \in Workers \ {w} : pc'[v] = pc[v] /\ loaded'[v] = loaded[v],
         \A j \in Cycles \ {cur[w]} : run'[j] = run[j],
         lost = 0 /\ pc'[w] \in {"resume", "ingesting"} => run'[cur[w]] = "running",
         lost = 0 /\ pc'[w] = "ingest" => run'[cur[w]] = "queued",
         pc'[w] = "hinted" => loaded'[w].status # "starting",
         pc'[w] \in {"ingest", "resume", "ingesting", "finish"}
           => loaded'[w].status = "running"
  PROVE  IInv'
<1> USE DEF IInv, queue, request
<1>1. TypeOK' /\ BudgetInv'
  BY DEF TypeOK, BudgetInv
<1>2. WorkInv' /\ LeaseInv'
  BY DEF WorkInv, LeaseInv
<1>3. RunInv'
  <2> SUFFICES ASSUME lost = 0, NEW v \in Workers \ {w}
               PROVE  /\ pc[v] \in {"resume", "ingesting"} => run'[cur[v]] = "running"
                      /\ pc[v] = "ingest" => run'[cur[v]] = "queued"
    BY DEF RunInv
  <2>1. pc[v] # "idle" => cur[v] \in Cycles \ {cur[w]}
    BY DEF WorkInv, LeaseInv
  <2> QED
    BY <2>1 DEF RunInv
<1>4. ReadInv'
  BY DEF ReadInv
<1> QED
  BY <1>1, <1>2, <1>3, <1>4

LEMMA HandlerKeeps ==
  ASSUME IInv, NEW w \in Workers, Handle(w), ~CloseJob(w)
  PROVE  IInv'
<1>0. /\ sub \in [Subs -> Row] /\ pc \in [Workers -> Pcs] /\ loaded \in [Workers -> Row]
      /\ result \in [Workers -> {"succeeded", "retryable"}]
      /\ run \in [Cycles -> RunStatuses] /\ StartInv /\ IndexInv /\ Blank \in Row
      /\ pc[w] # "idle" => cur[w] \in Cycles /\ cur[w][1] \in Subs
                           /\ cur[w][2] \in 1..MaxCycles
                           /\ job[cur[w]] # "absent" /\ sub[cur[w][1]] \in Row
  BY Values DEF IInv, TypeOK, WorkInv, Cycles
<1>1. (UNCHANGED sub /\ UNCHANGED job) => sub' \in [Subs -> Row] /\ StartInv'
  BY <1>0 DEF StartInv
<1>2. (UNCHANGED run /\ UNCHANGED <<coll, manual>>) => IndexInv'
  BY <1>0 DEF IndexInv, ActiveRuns
<1>3. ASSUME NEW r \in {"succeeded", "retryable"}, Return(w, r)
      PROVE  /\ pc' \in [Workers -> Pcs] /\ pc'[w] = "close"
             /\ loaded' \in [Workers -> Row]
             /\ result' \in [Workers -> {"succeeded", "retryable"}]
             /\ \A v \in Workers \ {w} : pc'[v] = pc[v] /\ loaded'[v] = loaded[v]
  BY <1>0, <1>3 DEF Return, Pcs
<1>4. CASE ReadSubscription(w)
  <2>1. sub[cur[w][1]].status # "starting"
    BY <1>0, <1>4 DEF ReadSubscription, StartInv, Cycles
  <2> QED
    BY <1>0, <1>1, <1>2, <1>4, <2>1, HandlerMoves DEF ReadSubscription, queue, Pcs
<1>5. CASE CycleOver(w) \/ CycleRefused(w) \/ IngestRefused(w)
  BY <1>0, <1>1, <1>2, <1>3, <1>5, HandlerMoves DEF CycleOver, CycleRefused,
     IngestRefused, queue, Proceeds
<1>6. ASSUME NEW n \in Row, Save(w, n), n.status \in {"running", "stopped"},
             pc[w] # "idle", UNCHANGED run
      PROVE  IInv'
  BY <1>0, <1>2, <1>3, <1>6, SaveKeepsRows, HandlerMoves DEF Save
<1>7. CASE CycleStopped(w) \/ CycleDeferred(w)
  BY <1>0, <1>6, <1>7, StoppedRow, DeferRow DEF CycleStopped, CycleDeferred, Proceeds
<1>8. CASE CycleEmpty(w) \/ CycleFinished(w)
  BY <1>0, <1>6, <1>8, FinishRow DEF CycleEmpty, CycleFinished, Proceeds
<1>9. CASE CycleBegins(w)
  <2>1. run' = [run EXCEPT ![cur[w]] = IF run[cur[w]] = "none" THEN "queued"
                                       ELSE run[cur[w]]]
    BY <1>0, <1>9 DEF CycleBegins, Proceeds
  <2>2. /\ run[cur[w]] = "done" => pc' = [pc EXCEPT ![w] = "finish"]
        /\ run[cur[w]] = "running" => pc' = [pc EXCEPT ![w] = "resume"]
        /\ run[cur[w]] \notin {"done", "running"} => pc' = [pc EXCEPT ![w] = "ingest"]
    BY <1>0, <1>9 DEF CycleBegins
  <2>3. IndexInv'
    <3>1. CASE run[cur[w]] = "none"
      <4>1. ActiveRuns = {} /\ ~manual
        BY <1>9, <3>1 DEF CycleBegins, HasSnapshot, OtherRun
      <4> QED
        BY <1>0, <1>9, <2>1, <3>1, <4>1 DEF CycleBegins, IndexInv, ActiveRuns
    <3>2. CASE run[cur[w]] # "none"
      <4>1. run' = run
        BY <1>0, <2>1, <3>2
      <4> QED
        BY <1>2, <1>9, <4>1 DEF CycleBegins
    <3> QED
      BY <3>1, <3>2
  <2>4. loaded[w].status = "running"
    BY <1>9 DEF CycleBegins, Proceeds, IInv, ReadInv
  <2>5. /\ pc' \in [Workers -> Pcs] /\ pc'[w] \in {"finish", "resume", "ingest"}
        /\ \A v \in Workers \ {w} : pc'[v] = pc[v]
    BY <1>0, <2>2 DEF Pcs
  <2>6. /\ run' \in [Cycles -> RunStatuses]
        /\ \A j \in Cycles \ {cur[w]} : run'[j] = run[j]
        /\ pc'[w] = "resume" => run'[cur[w]] = "running"
        /\ pc'[w] = "ingest" => run'[cur[w]] = "queued"
    BY <1>0, <1>9, <2>1, <2>2 DEF RunStatuses, CycleBegins, Proceeds
  <2> QED
    BY <1>0, <1>1, <1>9, <2>3, <2>4, <2>5, <2>6, HandlerMoves DEF CycleBegins, Proceeds,
       queue
<1>10. CASE IngestStart(w)
  <2>1. /\ pc' = [pc EXCEPT ![w] = "ingesting"]
        /\ loaded[w].status = "running"
    BY <1>10 DEF IngestStart, IInv, ReadInv
  <2>2. IndexInv' /\ run' \in [Cycles -> RunStatuses]
        /\ \A j \in Cycles \ {cur[w]} : run'[j] = run[j]
    BY <1>0, <1>2, <1>10 DEF IngestStart, IndexInv, ActiveRuns, RunStatuses
  <2>3. lost = 0 => run'[cur[w]] = "running"
    BY <1>0, <1>10 DEF IngestStart, IInv, RunInv
  <2> QED
    BY <1>0, <1>1, <1>10, <2>1, <2>2, <2>3, HandlerMoves DEF IngestStart, queue, Pcs
<1>11. CASE IngestDone(w)
  <2>1. IndexInv' /\ run' \in [Cycles -> RunStatuses]
        /\ \A j \in Cycles \ {cur[w]} : run'[j] = run[j]
    BY <1>0, <1>11 DEF IngestDone, IndexInv, ActiveRuns, RunStatuses
  <2>2. loaded[w].status = "running"
    BY <1>11 DEF IngestDone, IInv, ReadInv
  <2> QED
    BY <1>0, <1>1, <1>11, <2>1, <2>2, HandlerMoves DEF IngestDone, queue, Pcs
<1>12. CASE IngestAborted(w)
  <2>1. run' \in [Cycles -> RunStatuses] /\ \A j \in Cycles \ {cur[w]} : run'[j] = run[j]
    BY <1>0, <1>12 DEF IngestAborted, RunStatuses
  <2>2. \A j \in Cycles : run'[j] \in {run[j], "done"}
    BY <1>0, <1>12 DEF IngestAborted
  <2>3. IndexInv'
    BY <1>0, <1>12, <2>2 DEF IngestAborted, IndexInv, ActiveRuns
  <2> QED
    BY <1>0, <1>1, <1>3, <1>12, <2>1, <2>3, HandlerMoves DEF IngestAborted, queue
<1> QED
  BY <1>4, <1>5, <1>7, <1>8, <1>9, <1>10, <1>11, <1>12 DEF Handle

\* Claims, closings and crashes.
LEMMA QueueKeeps ==
  ASSUME IInv, NEW w \in Workers, NEW j \in Cycles,
         ClaimJob(w, j) \/ CloseJob(w) \/ CrashWorker(w)
  PROVE  IInv'
<1>0. /\ BudgetInv /\ WorkInv /\ LeaseInv /\ RunInv /\ IndexInv /\ StartInv /\ ReadInv
      /\ NoCycle \notin Cycles /\ Blank \in Row
  BY ConstantsAssumption, Values DEF IInv, NoCycle, Cycles
<1>1. CASE ClaimJob(w, j)
  <2>1. TypeOK' /\ BudgetInv'
    BY <1>0, <1>1, ConstantsAssumption DEF ClaimJob, IInv, TypeOK, BudgetInv,
       JobStatuses, Pcs, request
  <2>2. WorkInv' /\ LeaseInv'
    BY <1>0, <1>1 DEF ClaimJob, IInv, TypeOK, WorkInv, LeaseInv
  <2>3. RunInv' /\ ReadInv'
    BY <1>0, <1>1 DEF ClaimJob, IInv, TypeOK, RunInv, ReadInv
  <2>4. IndexInv' /\ StartInv'
    BY <1>0, <1>1 DEF ClaimJob, IInv, TypeOK, IndexInv, ActiveRuns, StartInv, Cycles
  <2> QED
    BY <2>1, <2>2, <2>3, <2>4 DEF IInv
<1>2. CASE CloseJob(w)
  <2>1. cur[w] \in Cycles /\ job[cur[w]] # "absent"
    BY <1>0, <1>2 DEF CloseJob, WorkInv
  <2>2. /\ job' \in [Cycles -> JobStatuses]
        /\ owner' \in [Cycles -> Workers \cup {Nobody}]
        /\ \A k \in Cycles : job[k] # "absent" => job'[k] # "absent"
        /\ \A k \in Cycles : job'[k] \in {"absent", "queued"} => tries[k] < MaxAttempts
        /\ \A k \in Cycles \ {cur[w]} : job'[k] = job[k] /\ owner'[k] = owner[k]
    BY <1>0, <1>2, <2>1 DEF CloseJob, ClosedStatus, IInv, TypeOK, BudgetInv,
       JobStatuses
  <2>3. TypeOK'
    BY <1>0, <1>2, <2>2 DEF CloseJob, Reset, IInv, TypeOK, Pcs, request
  <2>4. BudgetInv'
    BY <1>2, <2>2 DEF CloseJob, BudgetInv
  <2>5. WorkInv' /\ LeaseInv'
    BY <1>0, <1>2, <2>1, <2>2 DEF CloseJob, Reset, IInv, TypeOK, WorkInv, LeaseInv
  <2>6. RunInv' /\ ReadInv'
    BY <1>0, <1>2 DEF CloseJob, Reset, IInv, TypeOK, RunInv, ReadInv
  <2>7. IndexInv'
    BY <1>0, <1>2 DEF CloseJob, IndexInv, ActiveRuns
  <2>8. StartInv'
    <3>1. \A k \in Cycles : job[k] = "absent" => job'[k] = "absent"
      BY <2>1, <2>2
    <3> QED
      BY <1>0, <1>2, <3>1 DEF CloseJob, StartInv, Cycles
  <2> QED
    BY <2>3, <2>4, <2>5, <2>6, <2>7, <2>8 DEF IInv
<1>3. CASE CrashWorker(w)
  <2>1. TypeOK' /\ BudgetInv'
    BY <1>0, <1>3 DEF CrashWorker, Reset, IInv, TypeOK, BudgetInv, Pcs, queue, request
  <2>2. WorkInv' /\ LeaseInv' /\ RunInv' /\ ReadInv'
    BY <1>0, <1>3 DEF CrashWorker, Reset, IInv, TypeOK, WorkInv, LeaseInv, RunInv,
       ReadInv, queue
  <2>3. IndexInv' /\ StartInv'
    BY <1>0, <1>3 DEF CrashWorker, IndexInv, ActiveRuns, StartInv, queue
  <2> QED
    BY <2>1, <2>2, <2>3 DEF IInv
<1> QED
  BY <1>1, <1>2, <1>3

\* A recovered lease: only a zombie's worker is robbed.
LEMMA RecoveryKeeps ==
  ASSUME IInv, NEW j \in Cycles, RecoverOrphan(j) \/ RecoverZombie(j)
  PROVE  IInv'
<1>0. /\ BudgetInv /\ WorkInv /\ LeaseInv /\ RunInv /\ IndexInv /\ StartInv /\ ReadInv
  BY DEF IInv
<1>1. /\ Recovered(j) /\ lost' \in 0..MaxLost
      /\ lost' = 0 => lost = 0 /\ ~Held(j)
  BY ConstantsAssumption DEF RecoverOrphan, RecoverZombie, IInv, TypeOK
<1>2. /\ job \in [Cycles -> JobStatuses] /\ owner \in [Cycles -> Workers \cup {Nobody}]
      /\ pc' = pc /\ cur' = cur /\ tries' = tries
      /\ job' = [job EXCEPT ![j] = IF tries[j] >= MaxAttempts THEN "failed" ELSE "queued"]
      /\ owner' = [owner EXCEPT ![j] = Nobody]
  BY <1>1 DEF Recovered, IInv, TypeOK, handlers
<1>3. /\ job' \in [Cycles -> JobStatuses] /\ owner' \in [Cycles -> Workers \cup {Nobody}]
      /\ job'[j] # "absent" /\ job[j] # "absent"
      /\ \A k \in Cycles \ {j} : job'[k] = job[k] /\ owner'[k] = owner[k]
  BY <1>1, <1>2 DEF JobStatuses, Recovered
<1>4. TypeOK'
  BY <1>1, <1>3 DEF Recovered, IInv, TypeOK, handlers, request
<1>5. BudgetInv'
  <2>1. job'[j] = "queued" => tries[j] < MaxAttempts
    BY <1>2, ConstantsAssumption DEF IInv, TypeOK
  <2> QED
    BY <1>0, <1>2, <1>3, <2>1 DEF BudgetInv
<1>6. WorkInv'
  BY <1>0, <1>2, <1>3 DEF WorkInv
<1>7. ASSUME lost' = 0, NEW v \in Workers, cur[v] \in Cycles
      PROVE  job'[cur[v]] = "running" /\ owner'[cur[v]] = v
  <2>1. cur[v] # j
    BY <1>0, <1>1, <1>7 DEF LeaseInv, Held
  <2> QED
    BY <1>0, <1>1, <1>3, <1>7, <2>1 DEF LeaseInv
<1>8. LeaseInv'
  BY <1>2, <1>7 DEF LeaseInv
<1>9. RunInv' /\ ReadInv'
  BY <1>0, <1>1 DEF Recovered, RunInv, ReadInv, handlers
<1>10. IndexInv'
  BY <1>0, <1>1 DEF Recovered, IndexInv, ActiveRuns
<1>11. StartInv'
  BY <1>0, <1>1, <1>3 DEF Recovered, StartInv, Cycles
<1> QED
  BY <1>4, <1>5, <1>6, <1>8, <1>9, <1>10, <1>11 DEF IInv

-----------------------------------------------------------------------------
(* The theorems. *)

LEMMA InitIInv == Init => IInv
<1> SUFFICES ASSUME Init PROVE IInv
  OBVIOUS
<1>1. NoCycle \notin Cycles /\ 0 \in 0..MaxAttempts /\ 0 \in 0..MaxLost
  BY ConstantsAssumption DEF NoCycle, Cycles
<1>2. TypeOK
  BY <1>1, Values DEF Init, TypeOK, JobStatuses, RunStatuses, Pcs
<1>3. BudgetInv /\ WorkInv /\ LeaseInv /\ RunInv /\ ReadInv
  BY <1>1, ConstantsAssumption DEF Init, BudgetInv, WorkInv, LeaseInv, RunInv, ReadInv
<1>4. IndexInv /\ StartInv
  BY DEF Init, IndexInv, ActiveRuns, StartInv, Cycles
<1> QED
  BY <1>2, <1>3, <1>4 DEF IInv

LEMMA StepIInv == IInv /\ [Next]_vars => IInv'
<1> SUFFICES ASSUME IInv, [Next]_vars PROVE IInv'
  OBVIOUS
<1>1. CASE Operator
  BY <1>1, OperatorKeeps
<1>2. ASSUME NEW s \in Subs, Schedule(s) \/ BecomesDue(s) PROVE IInv'
  BY <1>2, SchedulerKeeps
<1>3. ASSUME NEW w \in Workers, NEW j \in Cycles, ClaimJob(w, j) PROVE IInv'
  BY <1>3, QueueKeeps
<1>4. ASSUME NEW w \in Workers, Handle(w) PROVE IInv'
  <2>1. CASE ~CloseJob(w)
    BY <1>4, <2>1, HandlerKeeps
  <2>2. CASE CloseJob(w)
    <3>1. cur[w] \in Cycles
      BY <2>2 DEF CloseJob, IInv, WorkInv
    <3> QED
      BY <2>2, <3>1, QueueKeeps
  <2> QED
    BY <2>1, <2>2
<1>5. ASSUME NEW w \in Workers, CrashWorker(w) PROVE IInv'
  <2>1. cur[w] \in Cycles
    BY <1>5 DEF CrashWorker, IInv, WorkInv
  <2> QED
    BY <1>5, <2>1, QueueKeeps
<1>6. ASSUME NEW j \in Cycles, RecoverOrphan(j) \/ RecoverZombie(j) PROVE IInv'
  BY <1>6, RecoveryKeeps
<1>7. CASE UNCHANGED vars
  BY <1>7 DEF vars, queue, handlers, request, IInv, TypeOK, BudgetInv, WorkInv,
     LeaseInv, RunInv, IndexInv, ActiveRuns, StartInv, ReadInv
<1> QED
  BY <1>1, <1>2, <1>3, <1>4, <1>5, <1>6, <1>7 DEF Next

LEMMA Invariance == Spec => []IInv
BY InitIInv, StepIInv, PTL DEF Spec

\* The rows and locals keep their types; max_attempts bounds the claims.
THEOREM TypeCorrect == Spec => []TypeOK
BY Invariance, PTL DEF IInv

\* One ingestion of the collection at a time, for any number of subscriptions,
\* cycles, workers and manual runs, for as long as leases are kept.
THEOREM OneIngestion == Spec => []SingleIngest
<1>1. IInv => SingleIngest
  <2> SUFFICES ASSUME IInv, coll, lost = 0
               PROVE  /\ Cardinality({w \in Workers : pc[w] = "ingesting"}) <= 1
                      /\ manual => \A w \in Workers : pc[w] # "ingesting"
    BY DEF SingleIngest
  <2> DEFINE Ingesting == {w \in Workers : pc[w] = "ingesting"}
  <2>1. \A w \in Ingesting : cur[w] \in ActiveRuns /\ owner[cur[w]] = w
    BY DEF IInv, WorkInv, LeaseInv, RunInv, ActiveRuns
  <2>2. \A v, w \in Ingesting : v = w
    BY <2>1 DEF IInv, IndexInv
  <2>3. CASE Ingesting = {}
    BY <2>3, FS_EmptySet
  <2>4. CASE Ingesting # {}
    <3>1. PICK w \in Ingesting : TRUE
      BY <2>4
    <3>2. Ingesting = {w}
      BY <2>2, <3>1
    <3>3. ~manual
      BY <2>1, <3>1 DEF IInv, IndexInv
    <3> QED
      BY <3>2, <3>3, FS_Singleton
  <2> QED
    BY <2>3, <2>4
<1> QED
  BY <1>1, Invariance, PTL

\* A settled run of a cycle is not ingested again while leases are kept.
THEOREM SettledRunsKept == Spec => [][KeepsSettledRuns]_vars
<1>1. IInv /\ [Next]_vars => [KeepsSettledRuns]_vars
  <2> SUFFICES ASSUME IInv, Next, lost' = 0, NEW j \in Cycles, run[j] = "done"
               PROVE  run'[j] = "done"
    BY DEF KeepsSettledRuns
  <2>1. ASSUME NEW w \in Workers, Handle(w) PROVE run'[j] = "done"
    <3>1. pc[w] # "idle" => cur[w] \in Cycles
      BY DEF IInv, WorkInv
    <3>2. CASE IngestStart(w)
      <4>1. lost = 0
        BY <3>2 DEF IngestStart, queue
      <4>2. pc[w] = "ingest" => cur[w] # j
        BY <4>1 DEF IInv, RunInv
      <4> QED
        BY <3>2, <4>2 DEF IngestStart, IInv, TypeOK
    <3>3. CASE ~IngestStart(w)
      BY <2>1, <3>1, <3>3 DEF Handle, ReadSubscription, CycleOver, CycleStopped,
         CycleDeferred, CycleEmpty, CycleBegins, CycleRefused, IngestRefused, IngestDone,
         IngestAborted, CycleFinished, CloseJob, IInv, TypeOK
    <3> QED
      BY <3>2, <3>3
  <2>2. CASE Operator
    BY <2>2 DEF Operator, Start, StopById, StopRead, StopLatest, StartManual, EndManual,
       ChangeMembers, DeleteCollection, CancelJob
  <2>3. ASSUME NEW s \in Subs, Schedule(s) \/ BecomesDue(s) PROVE run'[j] = "done"
    BY <2>3 DEF Schedule, CycleFailed, CycleSucceeded, EnqueueCycle, BecomesDue
  <2>4. ASSUME NEW w \in Workers, NEW i \in Cycles, ClaimJob(w, i) PROVE run'[j] = "done"
    BY <2>4 DEF ClaimJob
  <2>5. ASSUME NEW w \in Workers, CrashWorker(w) PROVE run'[j] = "done"
    BY <2>5 DEF CrashWorker
  <2>6. ASSUME NEW i \in Cycles, RecoverOrphan(i) \/ RecoverZombie(i)
        PROVE  run'[j] = "done"
    BY <2>6 DEF RecoverOrphan, RecoverZombie, Recovered
  <2> QED
    BY <2>1, <2>2, <2>3, <2>4, <2>5, <2>6 DEF Next
<1> QED
  BY <1>1, Invariance, PTL DEF Spec

\* A cycle that writes late leaves the status alone, or stops the subscription.
LEMMA SaveKeepsStopped ==
  ASSUME IInv, NEW w \in Workers, pc[w] # "idle", NEW n \in Row, Save(w, n),
         n.status = "stopped" \/ n.status = loaded[w].status
  PROVE  \A s \in Subs : sub'[s].status \in {sub[s].status, "stopped"}
<1>1. /\ cur[w][1] \in Subs /\ loaded[w] \in Row /\ sub \in [Subs -> Row]
  BY DEF IInv, WorkInv, TypeOK, Cycles
<1> DEFINE new == Flush(sub[cur[w][1]], loaded[w], n)
<1>2. new.status \in {sub[cur[w][1]].status, "stopped"}
  BY <1>1, FlushRow
<1>3. sub' = [sub EXCEPT ![cur[w][1]] = new]
  BY <1>1 DEF Save
<1> HIDE DEF new
<1> QED
  BY <1>1, <1>2, <1>3

\* A subscription that stopped or failed stays off, whatever a stale session or
\* a zombie writes.
THEOREM StoppedStayOff == Spec => [][StaysStopped]_vars
<1>1. IInv /\ [Next]_vars => [StaysStopped]_vars
  <2> SUFFICES ASSUME IInv, Next, NEW s \in Subs,
                      sub[s].status \in {"stopped", "error"}
               PROVE  sub'[s].status \notin {"starting", "running"}
    BY DEF StaysStopped
  <2>0. sub \in [Subs -> Row] /\ askedRow \in Row
    BY DEF IInv, TypeOK
  <2>1. ASSUME NEW t \in Subs, NEW l \in Row, Stop(t, l)
        PROVE  sub'[s].status \notin {"starting", "running"}
    BY <2>0, <2>1, StopMoves, StopOneRow
  <2>2. CASE Operator
    <3>1. ASSUME NEW t \in Subs, Start(t) \/ StopById(t) \/ StopRead(t)
          PROVE  sub'[s].status \notin {"starting", "running"}
      <4>1. CASE Start(t)
        <5>1. sub[t].status = "none" /\ \A x \in Subs \ {t} : sub'[x] = sub[x]
          BY <2>0, <4>1 DEF Start
        <5> QED
          BY <5>1
      <4>2. CASE StopById(t)
        BY <2>0, <2>1, <4>2 DEF StopById
      <4>3. CASE StopRead(t)
        BY <4>3 DEF StopRead
      <4> QED
        BY <3>1, <4>1, <4>2, <4>3
    <3>2. CASE StopLatest
      BY <2>0, <2>1, <3>2 DEF StopLatest, IInv, TypeOK
    <3>3. CASE DeleteCollection
      BY <2>0, <3>3, StopOneRow DEF DeleteCollection
    <3>4. ASSUME StartManual \/ EndManual \/ ChangeMembers \/ \E j \in Cycles : CancelJob(j)
          PROVE  UNCHANGED sub
      BY <3>4 DEF StartManual, EndManual, ChangeMembers, CancelJob
    <3> QED
      BY <2>2, <3>1, <3>2, <3>3, <3>4 DEF Operator
  <2>3. ASSUME NEW t \in Subs, Schedule(t) \/ BecomesDue(t)
        PROVE  sub'[s].status \notin {"starting", "running"}
    <3>1. CASE Schedule(t)
      <4>1. sub[t].status \in Active /\ \A x \in Subs \ {t} : sub'[x] = sub[x]
        BY <2>0, <3>1 DEF Schedule, CycleFailed, CycleSucceeded, EnqueueCycle, Due
      <4> QED
        BY <4>1 DEF Active
    <3>2. CASE BecomesDue(t)
      BY <2>0, <3>2 DEF BecomesDue, Row
    <3> QED
      BY <2>3, <3>1, <3>2
  <2>4. ASSUME NEW w \in Workers, Handle(w)
        PROVE  sub'[s].status \notin {"starting", "running"}
    <3>0. loaded[w] \in Row /\ (pc[w] # "idle" => cur[w][2] \in Nat)
      BY DEF IInv, TypeOK, WorkInv, Cycles
    <3>1. CASE CycleStopped(w)
      BY <3>0, <3>1, StoppedRow, SaveKeepsStopped DEF CycleStopped
    <3>2. CASE CycleDeferred(w)
      <4>1. loaded[w].status = "running" /\ pc[w] # "idle"
        BY <3>2 DEF CycleDeferred, Proceeds, IInv, ReadInv
      <4> QED
        BY <3>0, <3>2, <4>1, DeferRow, SaveKeepsStopped DEF CycleDeferred
    <3>3. CASE CycleEmpty(w) \/ CycleFinished(w)
      <4>1. loaded[w].status = "running" /\ pc[w] # "idle"
        BY <3>3 DEF CycleEmpty, CycleFinished, Proceeds, IInv, ReadInv
      <4> QED
        BY <3>0, <3>3, <4>1, FinishRow, SaveKeepsStopped DEF CycleEmpty, CycleFinished
    <3>4. CASE ~(CycleStopped(w) \/ CycleDeferred(w) \/ CycleEmpty(w) \/ CycleFinished(w))
      <4>1. UNCHANGED sub
        BY <2>4, <3>4 DEF Handle, ReadSubscription, CycleOver, CycleBegins,
           CycleRefused, IngestStart, IngestRefused, IngestDone, IngestAborted, CloseJob
      <4> QED
        BY <4>1
    <3> QED
      BY <3>1, <3>2, <3>3, <3>4
  <2>5. ASSUME \/ \E w \in Workers : CrashWorker(w) \/ \E j \in Cycles : ClaimJob(w, j)
               \/ \E j \in Cycles : RecoverOrphan(j) \/ RecoverZombie(j)
        PROVE  UNCHANGED sub
    BY <2>5 DEF CrashWorker, ClaimJob, RecoverOrphan, RecoverZombie, Recovered
  <2> QED
    BY <2>2, <2>3, <2>4, <2>5 DEF Next
<1> QED
  BY <1>1, Invariance, PTL DEF Spec

-----------------------------------------------------------------------------
(* When sources are collected (SourceSchedules).  A slot and its icon are    *)
(* decided by a tick that read its rows before; the invariants relate what   *)
(* it read to what the rows are by then.                                     *)

CONSTANTS Jobs, NoJob, MaxRetries, Sources, Every, Daily, Day, IconSources, Ttl,
          Abandon, RetryBase, RetryMax, Disturbances, MaxIcon, MaxTime
VARIABLES retried, now, paused, src, sched, icon, tick, work
Slots == INSTANCE SourceSchedules

\* The rows; instants have no bound here.
Instants     == Nat \cup {-1}
SourceRow    == [st : {"absent", "active", "deleted"}, fetched : Instants, next : Instants]
ScheduleRow  == [st : {"absent", "on", "off"}, next : Instants, last : Instants]
IconRow      == [st : {"pending", "queued", "resolved", "retryable", "unavailable"},
                 at : Instants, n : 0..MaxIcon, since : Instants, retry : Int, fails : Nat]

\* The rows, what the tick and the handlers have read, and the jobs.
SlotTypes ==
  /\ now \in Nat
  /\ src \in [Sources -> SourceRow] /\ sched \in [Sources -> ScheduleRow]
  /\ icon \in [Sources -> IconRow]
  /\ tick # Slots!NoTick =>
       tick \in [at : Nat, src : [Sources -> SourceRow], icon : [Sources -> IconRow]]
  /\ work \in [Workers -> [step : {"idle", "claimed", "looking", "done"}, row : IconRow]]
  /\ job \in [Jobs -> Slots!JobStatuses] /\ cur \in [Workers -> Jobs \cup {NoJob}]
  /\ \A w \in Workers : work[w].step # "idle" => cur[w] \in Jobs

\* A schedule has a next slot, after the last one, once it has had one, and is
\* of a source that is there, also for the tick that goes on.
SlotsInv ==
  /\ \A s \in Sources :
       /\ sched[s].next = -1 => sched[s].last = -1
       /\ sched[s].next # -1 => sched[s].next > sched[s].last
       /\ sched[s].st # "absent" => src[s].st # "absent"
  /\ tick # Slots!NoTick =>
       \A s \in Sources : /\ sched[s].st # "absent" => tick.src[s].st # "absent"
                          /\ tick.src[s].st # "absent" => src[s].st # "absent"

\* A queued row names its job; a row that was asked for after the tick has read
\* it is not yet abandoned; a handler looks for an icon that was queued.
IconsInv ==
  /\ \A s \in Sources : icon[s].st = "queued" =>
       /\ icon[s].at # -1
       /\ <<s, icon[s].n>> \in Jobs /\ job[<<s, icon[s].n>>] # "absent"
  /\ tick # Slots!NoTick =>
       /\ tick.at <= now
       /\ \A s \in Sources :
            icon[s].st = "queued" /\ tick.icon[s].st = "pending" => icon[s].at >= tick.at
  /\ \A w \in Workers : work[w].step = "looking" => work[w].row.st = "queued"

\* What every step keeps.
SlotsStay == SlotTypes /\ SlotsInv /\ IconsInv

\* Jobs that are there stay there.
JobsStay == \A j \in Jobs : job[j] # "absent" => job'[j] # "absent"

\* The jobs are the attempts at an icon.
LEMMA IconJobs ==
  ASSUME Slots!SourceSchedulesAssumption
  PROVE  /\ MaxIcon \in Nat /\ IconSources \subseteq Sources
         /\ \A j \in Jobs : j[1] \in IconSources /\ j[2] \in 1..MaxIcon /\ j = <<j[1], j[2]>>
         /\ \A s \in IconSources, n \in 1..MaxIcon : <<s, n>> \in Jobs
BY DEF Slots!SourceSchedulesAssumption

\* The slot of the day after lies ahead.
LEMMA DailyAhead ==
  ASSUME Slots!SourceSchedulesAssumption, NEW t \in Nat
  PROVE  Slots!NextDaily(t) \in Nat /\ Slots!NextDaily(t) > t
<1> DEFINE q == t \div Day
<1>1. Day \in Nat \ {0}
  BY DEF Slots!SourceSchedulesAssumption
<1>2. q \in Nat /\ (q + 1) * Day > t
  BY <1>1
<1>3. (q + 1) * Day \in Nat
  <2> HIDE DEF q
  <2> QED
    BY <1>1, <1>2
<1> QED
  BY <1>2, <1>3 DEF Slots!NextDaily

\* A row, and a worker, before there was anything to look for.
LEMMA BlankIcon ==
  ASSUME Slots!SourceSchedulesAssumption
  PROVE  /\ Slots!NewIcon \in IconRow /\ Slots!NewIcon.st = "pending"
         /\ Slots!NoWork = [step |-> "idle", row |-> Slots!NewIcon]
BY DEF Slots!SourceSchedulesAssumption, Slots!NewIcon, Slots!NoWork, Slots!Null, IconRow, Instants

\* What a flush of an icon row makes of it.
LEMMA FlushedIcon ==
  ASSUME NEW row \in IconRow, NEW read \in IconRow, NEW made \in IconRow, NEW taken
  PROVE  /\ Slots!Flushed(row, read, made, taken) \in IconRow
         /\ Slots!Flushed(row, read, made, taken).st =
              IF "st" \in taken \/ made.st # read.st THEN made.st ELSE row.st
         /\ Slots!Flushed(row, read, made, taken).at =
              IF "at" \in taken \/ made.at # read.at THEN made.at ELSE row.at
         /\ Slots!Flushed(row, read, made, taken).n =
              IF "n" \in taken \/ made.n # read.n THEN made.n ELSE row.n
BY DEF IconRow, Slots!Flushed

\* What the handler makes of the row it has read.
LEMMA AnsweredIcon ==
  ASSUME Slots!SourceSchedulesAssumption, SlotTypes, NEW read \in IconRow,
         NEW outcome \in Slots!Outcomes
  PROVE  /\ Slots!Answered(read, outcome) \in IconRow
         /\ Slots!Answered(read, outcome).st = outcome
         /\ Slots!Answered(read, outcome).n = read.n
<1>1. read.fails \in Nat /\ RetryMax \in Int /\ RetryBase \in Int
  BY DEF Slots!SourceSchedulesAssumption, IconRow
<1>2. 2 ^ ((read.fails + 1) - 1) \in Int
  <2>1. (read.fails + 1) - 1 = read.fails
    BY <1>1
  <2> QED
    BY <1>1, <2>1
<1>3. Slots!Delay(outcome, read.fails + 1) \in Int
  BY <1>1, <1>2 DEF Slots!Delay, Slots!Sooner
<1>4. now + Slots!Delay(outcome, read.fails + 1) \in Int
  BY <1>3 DEF SlotTypes
<1>5. now \in Nat
  BY DEF SlotTypes
<1>6. outcome \in {"resolved", "retryable", "unavailable"}
  BY DEF Slots!Outcomes
<1>7. CASE outcome = "resolved"
  <2>1. Slots!Answered(read, outcome) =
          [st |-> outcome, at |-> -1, n |-> read.n, since |-> now, retry |-> -1, fails |-> 0]
    BY <1>7 DEF Slots!Answered, Slots!Null, IconRow
  <2> QED
    BY <1>5, <1>6, <2>1 DEF IconRow, Instants
<1>8. CASE outcome # "resolved"
  <2>1. PICK i \in Int : i = now + Slots!Delay(outcome, read.fails + 1)
    BY <1>4
  <2>2. Slots!Answered(read, outcome) =
          [st |-> outcome, at |-> -1, n |-> read.n, since |-> read.since, retry |-> i,
           fails |-> read.fails + 1]
    BY <1>8, <2>1 DEF Slots!Answered, Slots!Null, IconRow
  <2> QED
    BY <1>6, <2>2 DEF IconRow, Instants
<1> QED
  BY <1>7, <1>8

\* An attempt that is asked for.
LEMMA AskedIcon ==
  ASSUME NEW row \in IconRow, row.n < MaxIcon, MaxIcon \in Nat, NEW t \in Nat
  PROVE  /\ Slots!Asked(row, t) \in IconRow
         /\ Slots!Asked(row, t).st = "queued" /\ Slots!Asked(row, t).at = t
         /\ Slots!Asked(row, t).n = row.n + 1
<1>1. Slots!Asked(row, t) =
        [st |-> "queued", at |-> t, n |-> row.n + 1, since |-> row.since,
         retry |-> row.retry, fails |-> row.fails]
  <2>1. Slots!Asked(row, t) = [row EXCEPT !.st = "queued", !.at = t, !.n = row.n + 1]
    BY DEF Slots!Asked, IconRow
  <2> QED
    BY <2>1 DEF IconRow
<1>2. row.n + 1 \in 0..MaxIcon /\ row.since \in Instants /\ row.retry \in Int /\ row.fails \in Nat
  BY DEF IconRow
<1> QED
  BY <1>1, <1>2 DEF IconRow, Instants

\* What a tick makes of a schedule.
LEMMA ScheduledSlot ==
  ASSUME Slots!SourceSchedulesAssumption, SlotTypes, SlotsInv, tick # Slots!NoTick,
         NEW s \in Sources
  PROVE  /\ Slots!Scheduled(s) \in ScheduleRow
         /\ Slots!Scheduled(s).next = -1 => Slots!Scheduled(s).last = -1
         /\ Slots!Scheduled(s).next # -1 => Slots!Scheduled(s).next > Slots!Scheduled(s).last
         /\ Slots!Scheduled(s).st # "absent" => src[s].st # "absent"
         /\ Slots!Scheduled(s).last # sched[s].last =>
              /\ tick.src[s].st = "active" /\ ~ paused
              /\ tick.src[s].fetched # -1 /\ s \notin Daily =>
                   Slots!Scheduled(s).last >= tick.src[s].fetched + Every[s]
<1> USE DEF Instants, Slots!Null
<1>1. /\ tick.at \in Nat /\ tick.src[s] \in SourceRow /\ sched[s] \in ScheduleRow
      /\ Every[s] \in Nat \ {0}
  BY DEF SlotTypes, Slots!SourceSchedulesAssumption
<1>2. /\ sched[s].next \in Instants /\ sched[s].last \in Instants
      /\ tick.src[s].fetched \in Instants
  BY <1>1 DEF SourceRow, ScheduleRow
<1>3. /\ Slots!Refreshed(s) \in Nat /\ Slots!Refreshed(s) > sched[s].last
      /\ tick.src[s].fetched # -1 /\ s \notin Daily =>
           Slots!Refreshed(s) >= tick.src[s].fetched + Every[s]
  <2>1. Slots!FirstRun(s) \in Nat
        /\ (tick.src[s].fetched # -1 /\ s \notin Daily =>
              Slots!FirstRun(s) >= tick.src[s].fetched + Every[s])
    BY <1>1, <1>2, DailyAhead DEF Slots!FirstRun, Slots!Later
  <2>2. sched[s].next = -1 => sched[s].last = -1
    BY DEF SlotsInv
  <2>3. sched[s].next # -1 => sched[s].next > sched[s].last
    BY DEF SlotsInv
  <2> QED
    BY <1>1, <1>2, <2>1, <2>2, <2>3 DEF Slots!Refreshed, Slots!Later
<1> DEFINE row == Slots!Reconciled(s)
<1>4. /\ row \in ScheduleRow /\ row.last = sched[s].last
      /\ row.next = -1 => row.last = -1
      /\ row.next # -1 => row.next > row.last
      /\ row.st # "absent" => src[s].st # "absent"
      /\ row.st = "on" => /\ tick.src[s].st = "active"
                          /\ row.next = Slots!Refreshed(s)
  <2>1. tick.src[s].st \in {"absent", "active", "deleted"}
    BY <1>1 DEF SourceRow
  <2>2. /\ sched[s].next = -1 => sched[s].last = -1
        /\ sched[s].next # -1 => sched[s].next > sched[s].last
        /\ sched[s].st # "absent" => src[s].st # "absent" /\ tick.src[s].st # "absent"
        /\ tick.src[s].st # "absent" => src[s].st # "absent"
    BY DEF SlotsInv
  <2>3. CASE tick.src[s].st = "absent"
    <3>1. row = sched[s]
      BY <2>3 DEF Slots!Reconciled
    <3> QED
      BY <1>1, <2>2, <2>3, <3>1
  <2>4. CASE tick.src[s].st = "active"
    <3>1. row = [st |-> "on", next |-> Slots!Refreshed(s), last |-> sched[s].last]
      BY <1>1, <2>4 DEF Slots!Reconciled, ScheduleRow
    <3> QED
      BY <1>1, <1>3, <2>2, <2>4, <3>1 DEF ScheduleRow
  <2>5. CASE tick.src[s].st = "deleted"
    <3>1. row = [sched[s] EXCEPT !.st = "off"]
      BY <2>5 DEF Slots!Reconciled
    <3> QED
      BY <1>1, <2>2, <2>5, <3>1 DEF ScheduleRow
  <2> QED
    BY <2>1, <2>3, <2>4, <2>5
<1> HIDE DEF row
<1>5. CASE ~ paused /\ Slots!Due(row)
  <2>1. row.st = "on" /\ row.next \in Nat
    BY <1>4, <1>5 DEF Slots!Due, ScheduleRow
  <2>2. Slots!NextDaily(row.next) \in Nat /\ Slots!NextDaily(row.next) > row.next
    BY <2>1, DailyAhead
  <2>3. PICK x \in Nat : x > row.next
            /\ x = IF s \in Daily THEN Slots!NextDaily(row.next) ELSE row.next + Every[s]
    BY <1>1, <2>1, <2>2
  <2>4. Slots!Scheduled(s) = [row EXCEPT !.last = row.next, !.next = x]
    BY <1>5, <2>3 DEF Slots!Scheduled, Slots!Advanced, row
  <2>5. /\ Slots!Scheduled(s) \in ScheduleRow /\ Slots!Scheduled(s).st = "on"
        /\ Slots!Scheduled(s).last = row.next /\ Slots!Scheduled(s).next = x
    BY <1>4, <2>1, <2>3, <2>4 DEF ScheduleRow
  <2> QED
    BY <1>3, <1>4, <1>5, <2>1, <2>3, <2>5
<1>6. CASE ~ (~ paused /\ Slots!Due(row))
  <2>1. Slots!Scheduled(s) = row
    BY <1>6 DEF Slots!Scheduled, row
  <2> QED
    BY <1>4, <2>1
<1> QED
  BY <1>5, <1>6

\* What a tick makes of an icon: a row that says it is queued is what it was,
\* or its job is among those asked for.
LEMMA TickedIcon ==
  ASSUME Slots!SourceSchedulesAssumption, SlotsStay, tick # Slots!NoTick,
         NEW s \in Sources, NEW refused \in BOOLEAN
  PROVE  /\ Slots!IconAfter(s, refused) \in IconRow
         /\ Slots!IconAfter(s, refused).st = "queued" =>
              \/ Slots!IconAfter(s, refused) = icon[s]
              \/ /\ ~ refused /\ Slots!IconAfter(s, refused).at # -1
                 /\ <<s, Slots!IconAfter(s, refused).n>> \in Slots!IconsAsked
                 /\ <<s, Slots!IconAfter(s, refused).n>> \in Jobs
<1> DEFINE read == Slots!InSession(s)
<1>1. /\ icon[s] \in IconRow /\ tick.icon[s] \in IconRow /\ tick.at \in Nat
  BY DEF SlotsStay, SlotTypes
<1>2. read \in IconRow
  BY <1>1 DEF Slots!InSession
<1>3. CASE ~ (Slots!IconDue(s) /\ read.n < MaxIcon)
  <2>1. Slots!IconAfter(s, refused) = icon[s]
    BY <1>3 DEF Slots!IconAfter
  <2> QED
    BY <1>1, <2>1
<1>4. CASE Slots!IconDue(s) /\ read.n < MaxIcon /\ ~ refused
  <2>1. PICK made \in IconRow : /\ made = Slots!Asked(read, tick.at) /\ made.st = "queued"
                                /\ made.at = tick.at /\ made.n = read.n + 1
    BY <1>1, <1>2, <1>4, IconJobs, AskedIcon
  <2>2. Slots!IconAfter(s, refused) = Slots!Flushed(icon[s], read, made, {"at"})
    BY <1>4, <2>1 DEF Slots!IconAfter
  <2>3. /\ Slots!IconAfter(s, refused) \in IconRow
        /\ Slots!IconAfter(s, refused).at = tick.at
        /\ Slots!IconAfter(s, refused).n = read.n + 1
    <3>1. read.n \in Int
      BY <1>2 DEF IconRow
    <3> QED
      BY <1>1, <1>2, <2>1, <2>2, <3>1, FlushedIcon
  <2>4. s \in IconSources
    BY <1>4 DEF Slots!IconDue
  <2>5. <<s, read.n + 1>> \in Slots!IconsAsked
    BY <1>4, <2>4 DEF Slots!IconsAsked
  <2>6. <<s, read.n + 1>> \in Jobs
    <3>1. read.n + 1 \in 1..MaxIcon
      BY <1>2, <1>4, IconJobs DEF IconRow
    <3> QED
      BY <2>4, <3>1, IconJobs
  <2> QED
    BY <1>1, <1>4, <2>3, <2>5, <2>6
<1>5. CASE Slots!IconDue(s) /\ read.n < MaxIcon /\ refused
  <2>1. PICK asked1 \in IconRow : asked1 = Slots!Asked(read, tick.at)
    BY <1>1, <1>2, <1>5, IconJobs, AskedIcon
  <2>2. PICK made \in IconRow : /\ made = [asked1 EXCEPT !.st = "pending", !.at = -1]
                                /\ made.st = "pending"
    <3>1. [asked1 EXCEPT !.st = "pending", !.at = -1] \in IconRow
      BY DEF IconRow, Instants
    <3>2. [asked1 EXCEPT !.st = "pending", !.at = -1].st = "pending"
      BY DEF IconRow
    <3> QED
      BY <3>1, <3>2
  <2>3. Slots!IconAfter(s, refused) = Slots!Flushed(icon[s], read, made, {})
    BY <1>5, <2>1, <2>2 DEF Slots!IconAfter, Slots!Null
  <2>4. /\ Slots!IconAfter(s, refused) \in IconRow
        /\ Slots!IconAfter(s, refused).st = IF read.st # "pending" THEN "pending" ELSE icon[s].st
    <3>1. PICK none : none = {}
      OBVIOUS
    <3>2. /\ Slots!Flushed(icon[s], read, made, none) \in IconRow
          /\ Slots!Flushed(icon[s], read, made, none).st =
               IF "st" \in none \/ made.st # read.st THEN made.st ELSE icon[s].st
      <4>1. made \in IconRow
        BY <2>2
      <4> HIDE DEF read
      <4> QED
        BY <1>1, <1>2, <4>1, FlushedIcon
    <3> QED
      BY <2>2, <2>3, <3>1, <3>2
  <2>5. ASSUME read.st = "pending", icon[s].st = "queued" PROVE FALSE
    <3>1. read = tick.icon[s]
      BY <2>5 DEF Slots!InSession
    <3>2. icon[s].at >= tick.at /\ icon[s].at # -1
      BY <2>5, <3>1 DEF SlotsStay, IconsInv
    <3>3. icon[s].at <= tick.at - Abandon
      BY <1>5, <2>5, <3>2 DEF Slots!IconDue, Slots!Null
    <3>4. Abandon \in Nat \ {0} /\ icon[s].at \in Int
      BY <1>1 DEF Slots!SourceSchedulesAssumption, IconRow, Instants
    <3> QED
      BY <1>1, <3>2, <3>3, <3>4
  <2> QED
    BY <2>4, <2>5
<1> QED
  BY <1>3, <1>4, <1>5

\* The end of a tick.
LEMMA TickEnds ==
  ASSUME Slots!SourceSchedulesAssumption, SlotsStay, Slots!EndTick
  PROVE  SlotsStay' /\ Slots!SlotsFollowFetches
<1>1. /\ tick # Slots!NoTick /\ tick' = Slots!NoTick
      /\ sched' = [s \in Sources |-> Slots!Scheduled(s)]
      /\ src' = [s \in Sources |-> IF tick.src[s].st = "absent" THEN src[s]
                   ELSE [src[s] EXCEPT !.next = IF Slots!Scheduled(s).st = "on"
                                                THEN Slots!Scheduled(s).next ELSE -1]]
      /\ UNCHANGED <<now, paused, work, cur>>
  BY DEF Slots!EndTick, Slots!Null
<1>2. PICK refused \in BOOLEAN :
        /\ icon' = [s \in Sources |-> Slots!IconAfter(s, refused)]
        /\ job' = [j \in Jobs |-> IF ~ refused /\ j \in Slots!IconsAsked /\ job[j] = "absent"
                                  THEN "queued" ELSE job[j]]
  BY DEF Slots!EndTick
<1>3. \A s \in Sources : /\ src'[s] \in SourceRow /\ src'[s].st = src[s].st
  <2> SUFFICES ASSUME NEW s \in Sources PROVE src'[s] \in SourceRow /\ src'[s].st = src[s].st
    OBVIOUS
  <2>1. src[s] \in SourceRow /\ Slots!Scheduled(s) \in ScheduleRow
    BY <1>1, ScheduledSlot DEF SlotsStay, SlotTypes
  <2>2. CASE tick.src[s].st = "absent"
    BY <1>1, <2>1, <2>2
  <2>3. CASE tick.src[s].st # "absent"
    <3>1. PICK i \in Instants : src'[s] = [src[s] EXCEPT !.next = i]
      BY <1>1, <2>1, <2>3 DEF ScheduleRow, Instants
    <3> QED
      BY <2>1, <3>1 DEF SourceRow
  <2> QED
    BY <2>2, <2>3
<1>4. \A j \in Jobs : job'[j] \in Slots!JobStatuses
  BY <1>2 DEF SlotsStay, SlotTypes, Slots!JobStatuses
<1>5. SlotTypes'
  <2>1. src' \in [Sources -> SourceRow]
    BY <1>1, <1>3
  <2>2. sched' \in [Sources -> ScheduleRow]
    BY <1>1, ScheduledSlot DEF SlotsStay
  <2>3. icon' \in [Sources -> IconRow]
    BY <1>1, <1>2, TickedIcon
  <2>4. job' \in [Jobs -> Slots!JobStatuses]
    BY <1>2, <1>4
  <2> QED
    BY <1>1, <2>1, <2>2, <2>3, <2>4 DEF SlotsStay, SlotTypes
<1>6. SlotsInv'
  BY <1>1, <1>3, ScheduledSlot DEF SlotsStay, SlotsInv
<1>7. IconsInv'
  <2>1. ASSUME NEW s \in Sources, icon'[s].st = "queued"
        PROVE  /\ icon'[s].at # -1 /\ <<s, icon'[s].n>> \in Jobs
               /\ job'[<<s, icon'[s].n>>] # "absent"
    <3>1. icon'[s] = Slots!IconAfter(s, refused)
      BY <1>2
    <3>2. CASE icon'[s] = icon[s]
      <4>1. /\ icon[s].at # -1 /\ <<s, icon[s].n>> \in Jobs /\ job[<<s, icon[s].n>>] # "absent"
        BY <2>1, <3>2 DEF SlotsStay, IconsInv
      <4> QED
        BY <1>2, <3>2, <4>1
    <3>3. CASE icon'[s] # icon[s]
      <4>1. /\ ~ refused /\ icon'[s].at # -1
            /\ <<s, icon'[s].n>> \in Slots!IconsAsked /\ <<s, icon'[s].n>> \in Jobs
        BY <1>1, <2>1, <3>1, <3>3, TickedIcon
      <4> QED
        BY <1>2, <4>1
    <3> QED
      BY <3>2, <3>3
  <2> QED
    BY <1>1, <2>1 DEF SlotsStay, IconsInv
<1>8. Slots!SlotsFollowFetches
  <2> SUFFICES ASSUME NEW s \in Sources, sched'[s].last # sched[s].last
               PROVE  /\ tick.src[s].st = "active" /\ ~ paused
                      /\ tick.src[s].fetched # -1 /\ s \notin Daily =>
                           sched'[s].last >= tick.src[s].fetched + Every[s]
    BY DEF Slots!SlotsFollowFetches, Slots!Null
  <2> QED
    BY <1>1, ScheduledSlot DEF SlotsStay
<1> QED
  BY <1>5, <1>6, <1>7, <1>8 DEF SlotsStay

\* A step of the tick, of the API or of a worker that leaves the icons alone.
LEMMA IconsAlone ==
  ASSUME SlotsStay, SlotTypes', SlotsInv', JobsStay, UNCHANGED icon,
         now' >= now, tick' \in {tick, Slots!NoTick},
         \A w \in Workers : work'[w].step = "looking" => work'[w] = work[w]
  PROVE  SlotsStay'
<1>1. now \in Nat /\ now' \in Nat
  BY DEF SlotsStay, SlotTypes
<1>2. tick # Slots!NoTick => tick.at \in Nat
  BY DEF SlotsStay, SlotTypes
<1>3. \A s \in Sources : icon'[s].st = "queued" =>
        /\ icon'[s].at # -1
        /\ <<s, icon'[s].n>> \in Jobs /\ job'[<<s, icon'[s].n>>] # "absent"
  BY DEF SlotsStay, IconsInv, JobsStay
<1>4. \A w \in Workers : work'[w].step = "looking" => work'[w].row.st = "queued"
  BY DEF SlotsStay, IconsInv
<1>5. tick' # Slots!NoTick => tick' = tick /\ tick # Slots!NoTick
  OBVIOUS
<1>6. tick' # Slots!NoTick =>
        /\ tick'.at <= now'
        /\ \A s \in Sources :
             icon'[s].st = "queued" /\ tick'.icon[s].st = "pending" => icon'[s].at >= tick'.at
  BY <1>1, <1>2, <1>5 DEF SlotsStay, IconsInv
<1> QED
  BY <1>3, <1>4, <1>6 DEF SlotsStay, IconsInv

\* The API's steps on the rows of sources, and the pause.
LEMMA SourcesChange ==
  ASSUME SlotsStay, NEW s \in Sources,
         Slots!CreateSource(s) \/ Slots!DeleteSource(s) \/ Slots!Fetched(s)
  PROVE  SlotsStay'
<1>1. /\ UNCHANGED <<now, sched, icon, tick, work, job, cur>>
      /\ \/ src' = [src EXCEPT ![s].st = "active"]
         \/ src' = [src EXCEPT ![s].st = "deleted"]
         \/ src' = [src EXCEPT ![s].fetched = now] /\ src[s].st # "absent"
  BY DEF Slots!CreateSource, Slots!DeleteSource, Slots!Fetched, Slots!queueVars, Slots!jobVars
<1>2. src[s] \in SourceRow /\ now \in Instants
  BY DEF SlotsStay, SlotTypes, Instants
<1>3. /\ src' \in [Sources -> SourceRow]
      /\ \A t \in Sources : src[t].st # "absent" => src'[t].st # "absent"
  <2>1. CASE src' = [src EXCEPT ![s].st = "active"]
    BY <1>2, <2>1 DEF SlotsStay, SlotTypes, SourceRow
  <2>2. CASE src' = [src EXCEPT ![s].st = "deleted"]
    BY <1>2, <2>2 DEF SlotsStay, SlotTypes, SourceRow
  <2>3. CASE src' = [src EXCEPT ![s].fetched = now]
    BY <1>2, <2>3 DEF SlotsStay, SlotTypes, SourceRow
  <2> QED
    BY <1>1, <2>1, <2>2, <2>3
<1>4. SlotTypes'
  BY <1>1, <1>3 DEF SlotsStay, SlotTypes
<1>5. SlotsInv'
  BY <1>1, <1>3 DEF SlotsStay, SlotsInv
<1>6. now' >= now
  BY <1>1 DEF SlotsStay, SlotTypes
<1> QED
  BY <1>1, <1>4, <1>5, <1>6, IconsAlone DEF JobsStay

\* The beginning of a tick, its death, the clock and the pause.
LEMMA ClockMoves ==
  ASSUME SlotsStay, \/ Slots!BeginTick \/ Slots!CrashTick \/ Slots!Advance \/ Slots!Pause
                    \/ UNCHANGED Slots!vars
  PROVE  SlotsStay'
<1>1. UNCHANGED <<src, sched, icon, work, job, cur>>
  BY DEF Slots!BeginTick, Slots!CrashTick, Slots!Advance, Slots!Pause, Slots!vars,
         Slots!queueVars, Slots!jobVars
<1>2. JobsStay /\ \A w \in Workers : work'[w].step = "looking" => work'[w] = work[w]
  BY <1>1 DEF JobsStay
<1>3. CASE Slots!BeginTick
  <2>1. now' = now /\ tick' = [at |-> now, src |-> src, icon |-> icon]
    BY <1>3 DEF Slots!BeginTick
  <2>2. SlotTypes'
    BY <1>1, <2>1 DEF SlotsStay, SlotTypes
  <2>3. SlotsInv'
    BY <1>1, <2>1 DEF SlotsStay, SlotsInv
  <2>4. IconsInv'
    BY <1>1, <2>1 DEF SlotsStay, SlotTypes, IconsInv
  <2> QED
    BY <2>2, <2>3, <2>4 DEF SlotsStay
<1>4. CASE ~ Slots!BeginTick
  <2>1. /\ now' \in {now, now + 1} /\ tick' \in {tick, Slots!NoTick}
    BY <1>4 DEF Slots!CrashTick, Slots!Advance, Slots!Pause, Slots!vars
  <2>2. now' \in Nat /\ now' >= now
    BY <2>1 DEF SlotsStay, SlotTypes
  <2>3. SlotTypes'
    BY <1>1, <2>1, <2>2 DEF SlotsStay, SlotTypes
  <2>4. SlotsInv'
    BY <1>1, <2>1 DEF SlotsStay, SlotsInv
  <2> QED
    BY <1>1, <1>2, <2>1, <2>2, <2>3, <2>4, IconsAlone
<1> QED
  BY <1>3, <1>4

\* Claims, ends and deaths of workers, and recoveries.
LEMMA IconWorkers ==
  ASSUME Slots!SourceSchedulesAssumption, SlotsStay,
         \/ \E w \in Workers : Slots!ClaimIcon(w) \/ Slots!CloseIcon(w) \/ Slots!CrashIcon(w)
         \/ \E j \in Jobs : Slots!RecoverIcon(j)
  PROVE  SlotsStay'
<1>1. UNCHANGED <<now, src, sched, icon, tick>>
  BY DEF Slots!ClaimIcon, Slots!CloseIcon, Slots!CrashIcon, Slots!RecoverIcon
<1>2. /\ job \in [Jobs -> Slots!JobStatuses] /\ cur \in [Workers -> Jobs \cup {NoJob}]
      /\ work \in [Workers -> [step : {"idle", "claimed", "looking", "done"}, row : IconRow]]
      /\ \A w \in Workers : work[w].step # "idle" => cur[w] \in Jobs
  BY DEF SlotsStay, SlotTypes
<1> DEFINE
      WorkersStay ==
      /\ job' \in [Jobs -> Slots!JobStatuses] /\ cur' \in [Workers -> Jobs \cup {NoJob}]
      /\ work' \in [Workers -> [step : {"idle", "claimed", "looking", "done"}, row : IconRow]]
      /\ \A w \in Workers : work'[w].step # "idle" => cur'[w] \in Jobs
      /\ \A w \in Workers : work'[w].step = "looking" => work'[w] = work[w]
      /\ JobsStay
<1>3. WorkersStay
  <2>1. ASSUME NEW w \in Workers, NEW j \in Jobs, Slots!ClaimJob(w, j), Slots!ClaimIcon(w)
        PROVE  WorkersStay
    BY <1>2, <2>1 DEF Slots!ClaimIcon, Slots!ClaimJob, Slots!JobStatuses, JobsStay
  <2>2. ASSUME NEW w \in Workers, Slots!CloseIcon(w) PROVE WorkersStay
    <3>1. PICK r : r = Slots!ClosedStatus(cur[w], "succeeded")
      OBVIOUS
    <3>2. r = "succeeded"
      BY <3>1 DEF Slots!ClosedStatus
    <3>3. /\ job' = IF Slots!Holds(w) THEN [job EXCEPT ![cur[w]] = r] ELSE job
          /\ cur' = [cur EXCEPT ![w] = NoJob] /\ work' = [work EXCEPT ![w] = Slots!NoWork]
      BY <2>2, <3>1 DEF Slots!CloseIcon, Slots!CloseJob
    <3>4. job' \in [Jobs -> Slots!JobStatuses] /\ JobsStay
      BY <1>2, <3>2, <3>3 DEF Slots!JobStatuses, JobsStay
    <3> QED
      BY <1>2, <3>3, <3>4, BlankIcon
  <2>3. ASSUME NEW w \in Workers, Slots!CrashIcon(w) PROVE WorkersStay
    BY <1>2, <2>3, BlankIcon DEF Slots!CrashIcon, Slots!Die, Slots!jobVars, JobsStay
  <2>4. ASSUME NEW j \in Jobs, Slots!RecoverIcon(j) PROVE WorkersStay
    BY <1>2, <2>4 DEF Slots!RecoverIcon, Slots!RecoverJob, Slots!RecoveredStatus,
                      Slots!JobStatuses, JobsStay
  <2> QED
    BY <2>1, <2>2, <2>3, <2>4 DEF Slots!ClaimIcon
<1>4. SlotTypes'
  BY <1>1, <1>3 DEF SlotsStay, SlotTypes
<1>5. SlotsInv'
  BY <1>1 DEF SlotsStay, SlotsInv
<1>6. now' >= now
  BY <1>1 DEF SlotsStay, SlotTypes
<1> QED
  BY <1>1, <1>3, <1>4, <1>5, <1>6, IconsAlone

\* The API asks for an icon, or tells that one does not load.
LEMMA IconsRequested ==
  ASSUME Slots!SourceSchedulesAssumption, SlotsStay, NEW s \in Sources,
         Slots!CreateIcon(s) \/ Slots!ReportIcon(s)
  PROVE  SlotsStay'
<1>1. /\ UNCHANGED <<now, src, sched, tick, work, cur>> /\ s \in IconSources
      /\ icon[s] \in IconRow /\ now \in Nat
  BY DEF Slots!CreateIcon, Slots!ReportIcon, Slots!EnqueueJobOnce, Slots!queueVars,
         Slots!jobVars, SlotsStay, SlotTypes
<1>2. SlotsInv'
  BY <1>1 DEF SlotsStay, SlotsInv
<1>3. CASE Slots!CreateIcon(s)
  <2>1. PICK r \in IconRow : /\ r = Slots!Asked(icon[s], now) /\ r.st = "queued"
                             /\ r.at = now /\ r.n = icon[s].n + 1
    BY <1>1, <1>3, AskedIcon, IconJobs DEF Slots!CreateIcon
  <2>2. PICK j \in Jobs : j = <<s, icon[s].n + 1>>
    <3>1. icon[s].n + 1 \in 1..MaxIcon
      BY <1>1, <1>3, IconJobs DEF Slots!CreateIcon, IconRow
    <3> QED
      BY <1>1, <3>1, IconJobs
  <2>3. /\ icon' = [icon EXCEPT ![s] = r]
        /\ job' = [job EXCEPT ![j] = IF @ = "absent" THEN "queued" ELSE @]
    BY <1>3, <2>1, <2>2 DEF Slots!CreateIcon, Slots!EnqueueJobOnce
  <2>4. /\ job' \in [Jobs -> Slots!JobStatuses] /\ JobsStay /\ job'[j] # "absent"
    BY <2>3 DEF SlotsStay, SlotTypes, Slots!JobStatuses, JobsStay
  <2>5. icon'[s] = r /\ \A t \in Sources \ {s} : icon'[t] = icon[t]
    BY <2>3 DEF SlotsStay, SlotTypes
  <2>6. SlotTypes'
    BY <1>1, <2>1, <2>3, <2>4 DEF SlotsStay, SlotTypes
  <2>7. \A t \in Sources : icon'[t].st = "queued" =>
          /\ icon'[t].at # -1
          /\ <<t, icon'[t].n>> \in Jobs /\ job'[<<t, icon'[t].n>>] # "absent"
    BY <1>1, <2>1, <2>2, <2>4, <2>5 DEF SlotsStay, IconsInv, JobsStay
  <2>8. IconsInv'
    BY <1>1, <2>1, <2>5, <2>7 DEF SlotsStay, IconsInv
  <2> QED
    BY <1>2, <2>6, <2>8 DEF SlotsStay
<1>4. CASE Slots!ReportIcon(s)
  <2>1. /\ icon' = [icon EXCEPT ![s].st = "retryable", ![s].retry = now, ![s].at = -1]
        /\ job' = job
    BY <1>4 DEF Slots!ReportIcon, Slots!queueVars, Slots!jobVars, Slots!Null
  <2>2. icon'[s] = [icon[s] EXCEPT !.st = "retryable", !.retry = now, !.at = -1]
    BY <1>1, <2>1 DEF SlotsStay, SlotTypes
  <2>3. \A t \in Sources \ {s} : icon'[t] = icon[t]
    BY <1>1, <2>1 DEF SlotsStay, SlotTypes
  <2>4. icon'[s] \in IconRow /\ icon'[s].st = "retryable"
    <3>1. icon[s] \in IconRow /\ now \in Int
      BY <1>1
    <3>2. icon'[s] = [st |-> "retryable", at |-> -1, n |-> icon[s].n, since |-> icon[s].since,
                      retry |-> now, fails |-> icon[s].fails]
      BY <2>2, <3>1 DEF IconRow
    <3> QED
      BY <3>1, <3>2 DEF IconRow, Instants
  <2>5. icon' \in [Sources -> IconRow]
    BY <2>1, <2>3, <2>4 DEF SlotsStay, SlotTypes
  <2>6. SlotTypes'
    BY <1>1, <2>1, <2>5 DEF SlotsStay, SlotTypes
  <2>7. IconsInv'
    BY <1>1, <2>1, <2>3, <2>4 DEF SlotsStay, IconsInv
  <2> QED
    BY <1>2, <2>6, <2>7 DEF SlotsStay
<1> QED
  BY <1>3, <1>4

\* A handler takes the row it was enqueued for.
LEMMA IconBegins ==
  ASSUME Slots!SourceSchedulesAssumption, SlotsStay, NEW w \in Workers, Slots!BeginIcon(w)
  PROVE  SlotsStay'
<1>1. /\ UNCHANGED <<now, src, sched, tick, job, cur>>
      /\ work[w] \in [step : {"idle", "claimed", "looking", "done"}, row : IconRow]
      /\ work[w].step = "claimed" /\ cur[w] \in Jobs /\ cur[w][1] \in Sources /\ now \in Nat
  BY IconJobs DEF Slots!BeginIcon, Slots!queueVars, Slots!jobVars, SlotsStay, SlotTypes
<1>2. PICK s \in Sources : s = cur[w][1] /\ icon[s] \in IconRow
  BY <1>1 DEF SlotsStay, SlotTypes
<1>3. SlotsInv'
  BY <1>1 DEF SlotsStay, SlotsInv
<1>4. CASE icon[s].n = cur[w][2] /\ icon[s].st = "queued"
  <2>1. PICK r : r = [icon[s] EXCEPT !.at = now]
    OBVIOUS
  <2>2. r \in IconRow /\ r.st = "queued" /\ r.n = icon[s].n /\ r.at = now
    BY <1>1, <1>2, <1>4, <2>1 DEF IconRow, Instants
  <2>3. icon' = [icon EXCEPT ![s] = r]
    BY <1>2, <1>4, <2>1 DEF Slots!BeginIcon
  <2>4. icon'[s] = r /\ \A t \in Sources \ {s} : icon'[t] = icon[t]
    BY <2>3 DEF SlotsStay, SlotTypes
  <2>5. work' = [work EXCEPT ![w] = [step |-> "looking", row |-> r]]
    BY <1>2, <1>4, <2>4 DEF Slots!BeginIcon
  <2>6. SlotTypes'
    BY <1>1, <2>2, <2>3, <2>5 DEF SlotsStay, SlotTypes
  <2>7. \A t \in Sources : icon'[t].st = "queued" =>
          /\ icon'[t].at # -1
          /\ <<t, icon'[t].n>> \in Jobs /\ job'[<<t, icon'[t].n>>] # "absent"
    BY <1>1, <1>4, <2>2, <2>4 DEF SlotsStay, IconsInv
  <2>8. \A v \in Workers : work'[v].step = "looking" => work'[v].row.st = "queued"
    BY <2>2, <2>5 DEF SlotsStay, SlotTypes, IconsInv
  <2>9. IconsInv'
    BY <1>1, <2>2, <2>4, <2>7, <2>8 DEF SlotsStay, IconsInv
  <2> QED
    BY <1>3, <2>6, <2>9 DEF SlotsStay
<1>5. CASE ~ (icon[s].n = cur[w][2] /\ icon[s].st = "queued")
  <2>1. icon' = icon /\ work' = [work EXCEPT ![w].step = "done"]
    BY <1>2, <1>5 DEF Slots!BeginIcon
  <2>2. SlotTypes'
    BY <1>1, <2>1 DEF SlotsStay, SlotTypes
  <2>3. \A v \in Workers : work'[v].step = "looking" => work'[v] = work[v]
    BY <1>1, <2>1 DEF SlotsStay, SlotTypes
  <2> QED
    BY <1>1, <1>3, <2>1, <2>2, <2>3, IconsAlone DEF JobsStay
<1> QED
  BY <1>4, <1>5

\* The handler writes what it has found.
LEMMA IconSaved ==
  ASSUME Slots!SourceSchedulesAssumption, SlotsStay, NEW w \in Workers, Slots!SaveIcon(w)
  PROVE  SlotsStay'
<1>1. /\ UNCHANGED <<now, src, sched, tick, job, cur>>
      /\ work[w] \in [step : {"idle", "claimed", "looking", "done"}, row : IconRow]
      /\ work[w].row \in IconRow /\ work[w].row.st = "queued"
      /\ work' = [work EXCEPT ![w].step = "done"]
      /\ cur[w] \in Jobs /\ cur[w][1] \in Sources
  BY IconJobs DEF Slots!SaveIcon, Slots!queueVars, Slots!jobVars, SlotsStay, SlotTypes, IconsInv
<1>2. PICK s \in Sources : s = cur[w][1] /\ icon[s] \in IconRow
  BY <1>1 DEF SlotsStay, SlotTypes
<1>3. SlotsInv'
  BY <1>1 DEF SlotsStay, SlotsInv
<1>4. \A v \in Workers : work'[v].step = "looking" => work'[v] = work[v]
  BY <1>1 DEF SlotsStay, SlotTypes
<1>5. CASE work[w].row.n = cur[w][2]
  <2>1. PICK outcome \in Slots!Outcomes :
          icon' = [icon EXCEPT ![s] = Slots!Flushed(icon[s], work[w].row,
                                        Slots!Answered(work[w].row, outcome),
                                        {IF outcome = "resolved" THEN "since" ELSE "retry"})]
    BY <1>2, <1>5 DEF Slots!SaveIcon
  <2>2. PICK made \in IconRow : made = Slots!Answered(work[w].row, outcome) /\ made.st = outcome
    BY <1>1, AnsweredIcon DEF SlotsStay
  <2>3. PICK taken : taken = {IF outcome = "resolved" THEN "since" ELSE "retry"}
    OBVIOUS
  <2>4. PICK r : r = Slots!Flushed(icon[s], work[w].row, made, taken)
    OBVIOUS
  <2>5. r \in IconRow
    BY <1>1, <1>2, <2>4, FlushedIcon
  <2>6. r.st = outcome
    <3>1. Slots!Flushed(icon[s], work[w].row, made, taken).st =
            IF "st" \in taken \/ made.st # work[w].row.st THEN made.st ELSE icon[s].st
      <4>1. work[w].row \in IconRow /\ made \in IconRow
        BY <1>1
      <4> QED
        BY <1>2, <4>1, FlushedIcon
    <3> QED
      BY <1>1, <2>2, <2>4, <3>1 DEF Slots!Outcomes
  <2>7. icon' = [icon EXCEPT ![s] = r]
    BY <2>1, <2>2, <2>3, <2>4
  <2>8. SlotTypes'
    BY <1>1, <2>5, <2>7 DEF SlotsStay, SlotTypes
  <2>9. /\ icon'[s].st # "queued" /\ \A t \in Sources \ {s} : icon'[t] = icon[t]
    BY <2>6, <2>7 DEF SlotsStay, SlotTypes, Slots!Outcomes
  <2>10. \A v \in Workers : work'[v].step = "looking" => work'[v].row.st = "queued"
    BY <1>4 DEF SlotsStay, IconsInv
  <2>11. IconsInv'
    BY <1>1, <2>9, <2>10 DEF SlotsStay, IconsInv
  <2> QED
    BY <1>3, <2>8, <2>11 DEF SlotsStay
<1>6. CASE work[w].row.n # cur[w][2]
  <2>1. icon' = icon
    BY <1>2, <1>6 DEF Slots!SaveIcon, SlotsStay, SlotTypes
  <2>2. SlotTypes'
    BY <1>1, <2>1 DEF SlotsStay, SlotTypes
  <2>3. now' >= now
    BY <1>1 DEF SlotsStay, SlotTypes
  <2> QED
    BY <1>1, <1>3, <1>4, <2>1, <2>2, <2>3, IconsAlone DEF JobsStay
<1> QED
  BY <1>5, <1>6

\* Every step keeps the invariant, and a slot is enqueued by a tick only.
LEMMA SlotsStep ==
  ASSUME Slots!SourceSchedulesAssumption, SlotsStay, [Slots!Next]_(Slots!vars)
  PROVE  SlotsStay' /\ [Slots!SlotsFollowFetches]_(Slots!vars)
<1>1. CASE Slots!EndTick
  BY <1>1, TickEnds
<1>2. ASSUME sched' = sched PROVE Slots!SlotsFollowFetches
  BY <1>2 DEF Slots!SlotsFollowFetches
<1>3. ASSUME NEW s \in Sources, \/ Slots!CreateSource(s) \/ Slots!CreateIcon(s)
             \/ Slots!DeleteSource(s) \/ Slots!ReportIcon(s) \/ Slots!Fetched(s)
      PROVE  SlotsStay' /\ sched' = sched
  BY <1>3, SourcesChange, IconsRequested
  DEF Slots!CreateSource, Slots!CreateIcon, Slots!DeleteSource, Slots!ReportIcon, Slots!Fetched
<1>4. ASSUME \/ Slots!BeginTick \/ Slots!CrashTick \/ Slots!Advance \/ Slots!Pause
             \/ UNCHANGED Slots!vars
      PROVE  SlotsStay' /\ sched' = sched
  BY <1>4, ClockMoves
  DEF Slots!BeginTick, Slots!CrashTick, Slots!Advance, Slots!Pause, Slots!vars
<1>5. ASSUME NEW w \in Workers, \/ Slots!ClaimIcon(w) \/ Slots!BeginIcon(w) \/ Slots!SaveIcon(w)
                                \/ Slots!CloseIcon(w) \/ Slots!CrashIcon(w)
      PROVE  SlotsStay' /\ sched' = sched
  BY <1>5, IconWorkers, IconBegins, IconSaved
  DEF Slots!ClaimIcon, Slots!BeginIcon, Slots!SaveIcon, Slots!CloseIcon, Slots!CrashIcon
<1>6. ASSUME NEW j \in Jobs, Slots!RecoverIcon(j) PROVE SlotsStay' /\ sched' = sched
  BY <1>6, IconWorkers DEF Slots!RecoverIcon
<1> QED
  BY <1>1, <1>2, <1>3, <1>4, <1>5, <1>6 DEF Slots!Next

\* Before the first source there is neither a schedule nor an icon.
LEMMA SlotsStart == ASSUME Slots!SourceSchedulesAssumption PROVE Slots!Init => SlotsStay
<1> SUFFICES ASSUME Slots!Init PROVE SlotsStay
  OBVIOUS
<1> USE DEF Slots!Init, Slots!QueueInit, Slots!Null
<1>1. SlotTypes
  BY BlankIcon DEF SlotTypes, SourceRow, ScheduleRow, Instants, Slots!JobStatuses
<1>2. SlotsInv
  BY DEF SlotsInv
<1>3. IconsInv
  BY BlankIcon DEF IconsInv
<1> QED
  BY <1>1, <1>2, <1>3 DEF SlotsStay

\* The invariant holds throughout.
LEMMA SlotsKeep == ASSUME Slots!SourceSchedulesAssumption PROVE Slots!Spec => []SlotsStay
<1>1. SlotsStay /\ [Slots!Next]_(Slots!vars) => SlotsStay'
  BY SlotsStep
<1> QED
  BY <1>1, SlotsStart, PTL DEF Slots!Spec

\* The next slot of a schedule lies after every slot it has enqueued, so its key
\* is new when its turn comes (_refresh_source_schedule, _advance_schedule).
THEOREM SlotsNeverRepeat ==
  ASSUME Slots!SourceSchedulesAssumption PROVE Slots!Spec => []Slots!SlotsGoOn
<1>1. SlotsStay => Slots!SlotsGoOn
  BY DEF SlotsStay, SlotsInv, Slots!SlotsGoOn, Slots!Null
<1> QED
  BY <1>1, SlotsKeep, PTL

\* A source whose icon is said to be queued has the job of that attempt
\* (enqueue_source_icon_discovery, _schedule_source_icons).
THEOREM QueuedIconsHaveJobs ==
  ASSUME Slots!SourceSchedulesAssumption PROVE Slots!Spec => []Slots!QueuedIconHasJob
<1>1. SlotsStay => Slots!QueuedIconHasJob
  BY DEF SlotsStay, IconsInv, Slots!QueuedIconHasJob, Slots!Null
<1> QED
  BY <1>1, SlotsKeep, PTL

\* A slot is enqueued for a source that was there when the tick began, and after
\* the interval of the fetch the tick knows of (_reconcile_sources).
THEOREM SlotsAwaitFetches ==
  ASSUME Slots!SourceSchedulesAssumption
  PROVE  Slots!Spec => [][Slots!SlotsFollowFetches]_(Slots!vars)
<1>1. SlotsStay /\ [Slots!Next]_(Slots!vars) => [Slots!SlotsFollowFetches]_(Slots!vars)
  BY SlotsStep
<1> QED
  BY <1>1, SlotsKeep, PTL DEF Slots!Spec

=============================================================================
