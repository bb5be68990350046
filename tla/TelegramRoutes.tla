---------------------------- MODULE TelegramRoutes ----------------------------
(***************************************************************************)
(* One Telegram automation route: activation, the initialization jobs that  *)
(* find the boundary and catch up, the polls the scheduler enqueues, and    *)
(* the dispatches they capture from a channel that goes on posting and      *)
(* editing.  Long backlogs are worked off over several jobs, whose progress *)
(* is kept in automation_routes.cursor_state.                               *)
(* Source: backend/app/automations/telegram/route_operations.py,            *)
(* route_fetch.py, route_runtime.py, repository.py, decisions.py,           *)
(* backend/app/jobs/scheduler.py, backend/app/api/telegram_automations.py.  *)
(*                                                                         *)
(* Messages are 1, 2, ... in the order of the channel; an edit gives a      *)
(* message a new version.  Pages are read newest first under a pinned       *)
(* snapshot; one job reads at most Window messages (page size times page    *)
(* budget).  A handler's session keeps the route row it loaded, so what it  *)
(* locks and validates later is its own copy, and a write replaces the      *)
(* whole cursor_state.  A dispatch refused by the content filter is a       *)
(* dispatch too.                                                            *)
(***************************************************************************)
EXTENDS HandlerRuns, Sequences

CONSTANTS MaxPosts,   \* bound: messages of the channel
          MaxVersion, \* bound: edits of one message
          MaxActs,    \* bound: activations
          MaxPolls,   \* bound: values of next_poll_at
          MaxDefer,   \* MAX_DEFER_SEQUENCE
          Window,     \* messages that one job scans or captures
          Disturbances \* bound: what may come in between, of
                       \* "pause", "fetch", "crash", "lease"

TelegramRoutesAssumption ==
  /\ {MaxPosts, MaxActs, MaxPolls, Window} \subseteq Nat \ {0}
  /\ {MaxVersion, MaxDefer} \subseteq Nat
  /\ \A j \in Jobs : j.kind = "init" => j.n \in 1..MaxActs  \* activations count from 1

VARIABLES
  posted, ver,   \* the channel: number of messages, version of each
  cs,            \* automation_routes.cursor_state
  paused,        \* automation_routes.paused_at, or the global pause
  due,           \* automation_routes.next_poll_at, 0 for NULL
  live,          \* automation_dispatches under the source key: the version
  edits,         \* automation_dispatches of kind source_edit
  others,        \* automation_dispatches of kind dry_run
  pc, copy, queue, goal,  \* a worker: step, its cursor_state, what is to be
                          \* captured, what follows
  boundary,      \* messages before each activation (history)
  gaveUp         \* some job ended otherwise than by success (history)

channel == <<posted, ver>>
row     == <<cs, paused, due>>
rows    == <<live, edits, others>>
locals  == <<pc, copy, queue, goal>>
vars    == <<channel, row, rows, locals, boundary, gaveUp, queueVars>>

Messages == 1..MaxPosts
Unknown == -1
NoForward == [phase |-> "none", base |-> 0, snap |-> 0, at |-> 0]
Phases == {"none", "activation", "cycle", "scan", "capture"}
Forwards == [phase : Phases, base : 0..MaxPosts, snap : 0..MaxPosts, at : 0..MaxPosts]

\* Idempotency keys: n is the activation or next_poll_at, f the digest of the
\* progress that a continuation goes on from, seq the deferral sequence.
Key(kind, n, f, seq) == [kind |-> kind, n |-> n, f |-> f, seq |-> seq]

NotInitialized ==
  [status |-> "not_initialized", act |-> 0, start |-> Unknown, cursor |-> Unknown,
   scan |-> NoForward, fwd |-> NoForward, seen |-> [m \in Messages |-> Unknown]]

CursorStates ==
  [status : {"not_initialized", "initializing", "catching_up", "ready"},
   act : 0..MaxActs, start : -1..MaxPosts, cursor : -1..MaxPosts,
   scan : Forwards, fwd : Forwards, seen : [Messages -> -1..MaxVersion]]

\* What a worker is to capture: edits, in the order of the channel, then the
\* envelopes it found.
Items == [kind : {"live", "source_edit", "backfill", "dry"}, m : Messages, v : 0..MaxVersion]
NoItems == [edits |-> {}, found |-> <<>>]

TypeOK ==
  /\ QueueTypeOK
  /\ posted \in 0..MaxPosts /\ ver \in [Messages -> 0..MaxVersion]
  /\ cs \in CursorStates
  /\ paused \in BOOLEAN /\ gaveUp \in BOOLEAN
  /\ due \in 0..MaxPolls
  /\ live \in [Messages -> -1..MaxVersion]
  /\ edits \subseteq Messages \X (0..MaxVersion)
  /\ others \subseteq Jobs
  /\ pc \in [Workers -> {"idle", "load", "scan", "fetch", "capture", "end"}]
  /\ copy \in [Workers -> CursorStates]
  /\ queue \in [Workers -> [edits : SUBSET Items, found : Seq(Items)]]
  /\ goal \in [Workers -> [what : {"none", "loop", "continue", "finish"}, f : Forwards]]
  /\ boundary \in [1..MaxActs -> 0..MaxPosts]

NoGoal == [what |-> "none", f |-> NoForward]

Init ==
  /\ QueueInit
  /\ posted = 0 /\ ver = [m \in Messages |-> 0]
  /\ cs = NotInitialized /\ paused = FALSE /\ due = 0
  /\ live = [m \in Messages |-> Unknown] /\ edits = {} /\ others = {}
  /\ pc = [w \in Workers |-> "idle"]
  /\ copy = [w \in Workers |-> NotInitialized]
  /\ queue = [w \in Workers |-> NoItems]
  /\ goal = [w \in Workers |-> NoGoal]
  /\ boundary = [a \in 1..MaxActs |-> 0]
  /\ gaveUp = FALSE

-----------------------------------------------------------------------------
(* The channel, the operator, the scheduler. *)

Post ==
  /\ posted < MaxPosts
  /\ posted' = posted + 1
  /\ UNCHANGED <<ver, row, rows, locals, boundary, gaveUp, queueVars>>

EditPost ==
  /\ \E m \in 1..posted : ver[m] < MaxVersion /\ ver' = [ver EXCEPT ![m] = @ + 1]
  /\ UNCHANGED <<posted, row, rows, locals, boundary, gaveUp, queueVars>>

\* activate_route: a route that is initializing keeps its activation.
ActivateRoute ==
  /\ cs.act < MaxActs /\ cs.status # "initializing"
  /\ cs' = [NotInitialized EXCEPT !.status = "initializing", !.act = cs.act + 1]
  /\ paused' = FALSE
  /\ boundary' = [boundary EXCEPT ![cs.act + 1] = posted]
  /\ EnqueueJobOnce(Key("init", cs.act + 1, NoForward, 0))
  /\ UNCHANGED <<channel, due, rows, locals, gaveUp>>

PauseRoute ==
  /\ "pause" \in Disturbances /\ ~paused
  /\ paused' = TRUE
  /\ UNCHANGED <<channel, cs, due, rows, locals, boundary, gaveUp, queueVars>>

ResumeRoute ==
  /\ paused
  /\ paused' = FALSE
  /\ UNCHANGED <<channel, cs, due, rows, locals, boundary, gaveUp, queueVars>>

\* dry_run_route and backfill_route: a request enqueues its job once.
RequestDryRun ==
  /\ \E j \in Jobs : j.kind = "dry" /\ j.seq = 0 /\ EnqueueJob(j)
  /\ UNCHANGED <<channel, row, rows, locals, boundary, gaveUp>>

RequestBackfill ==
  /\ \E j \in Jobs : j.kind = "backfill" /\ j.seq = 0 /\ EnqueueJob(j)
  /\ UNCHANGED <<channel, row, rows, locals, boundary, gaveUp>>

\* build_due_route_statement; the route's capabilities are available.
RouteDue == cs.status = "ready" /\ ~paused /\ due > 0

\* tick: next_poll_at is part of the key and stays as it is.
Tick ==
  /\ RouteDue
  /\ EnqueueJobOnce(Key("poll", due, NoForward, 0))
  /\ UNCHANGED <<channel, row, rows, locals, boundary, gaveUp>>

-----------------------------------------------------------------------------
(* What a job fetches. *)

\* The forward state a run starts from.
ForwardFrom(c) ==
  IF c.fwd # NoForward THEN c.fwd
  ELSE [phase |-> "scan", base |-> c.cursor, snap |-> posted, at |-> posted]

\* _fetch_forward_step, phase "capture": the pages of earlier runs are read again,
\* upwards.
CaptureStep(f) ==
  LET end == IF f.at + Window < f.snap THEN f.at + Window ELSE f.snap IN
  [from |-> f.at, to |-> end,
   next |-> IF end < f.snap THEN [f EXCEPT !.at = end] ELSE NoForward]

\* Mutant of ScanStep: a page is captured as it is read, newest first.
ScanStepNewest(f) ==
  IF f.at - f.base < Window
  THEN [from |-> f.base, to |-> f.at,
        next |-> IF f.at < f.snap THEN [f EXCEPT !.phase = "capture"] ELSE NoForward]
  ELSE [from |-> f.at - Window, to |-> f.at, next |-> [f EXCEPT !.at = @ - Window]]

\* Phase "scan": down from the snapshot to the base; the run that gets there
\* captures what it read.
ScanStep(f) ==
  IF f.at - f.base < Window
  THEN [from |-> f.base, to |-> f.at,
        next |-> IF f.at < f.snap THEN [f EXCEPT !.phase = "capture"] ELSE NoForward]
  ELSE [from |-> 0, to |-> 0, next |-> [f EXCEPT !.at = @ - Window]]

ForwardStep(f) == IF f.phase = "capture" THEN CaptureStep(f) ELSE ScanStep(f)

Item(kind, m) == [kind |-> kind, m |-> m, v |-> ver[m]]

\* The envelopes after `from` up to `to`, oldest first, as they read now.
Envelopes(kind, from, to) == [i \in 1..(to - from) |-> Item(kind, from + i)]

\* _capture_source_edits: messages whose fingerprint is another one by now.
SourceEdits(c) ==
  {Item("source_edit", m) : m \in {n \in 1..posted : c.seen[n] # Unknown /\ c.seen[n] # ver[n]}}

-----------------------------------------------------------------------------
(* The route jobs. *)

Start(w) ==
  /\ \E j \in Jobs : ClaimJob(w, j)
  /\ pc' = [pc EXCEPT ![w] = "load"]
  /\ UNCHANGED <<channel, row, rows, copy, queue, goal, boundary, gaveUp>>

Forget(w) ==
  /\ pc' = [pc EXCEPT ![w] = "idle"]
  /\ copy' = [copy EXCEPT ![w] = NotInitialized]
  /\ queue' = [queue EXCEPT ![w] = NoItems]
  /\ goal' = [goal EXCEPT ![w] = NoGoal]

\* The handler is over.
Leave(w, r) == CloseJob(w, r) /\ Forget(w)

\* Mutant of EnqueueAndLeave: the successor is forgotten.
LeaveAlone(w, j) == Leave(w, "succeeded")

\* It is over, and its last transaction has enqueued job j.
EnqueueAndLeave(w, j) ==
  /\ LET queued == [job EXCEPT ![j] = IF @ = "absent" THEN "queued" ELSE @] IN
     job' = IF Holds(w) THEN [queued EXCEPT ![cur[w]] = "succeeded"] ELSE queued
  /\ owner' = IF Holds(w) THEN [owner EXCEPT ![cur[w]] = Nobody] ELSE owner
  /\ cur' = [cur EXCEPT ![w] = NoJob]
  /\ UNCHANGED <<tries, retried>>
  /\ Forget(w)

Kind(w) == cur[w].kind
IsPoll(w) == Kind(w) \in {"poll", "forward"}

\* The handler's first checks, on the row as it loads it.
Ready(w) ==
  IF Kind(w) = "init" THEN cs.act = cur[w].n ELSE cs.status = "ready"

\* _defer_if_paused: a successor under the next sequence number, up to the limit.
LoadHeld(w) ==
  /\ pc[w] = "load" /\ paused
  /\ IF cur[w].seq < MaxDefer
     THEN EnqueueAndLeave(w, [cur[w] EXCEPT !.seq = @ + 1]) /\ UNCHANGED gaveUp
     ELSE Leave(w, "needs_review") /\ gaveUp' = TRUE
  /\ UNCHANGED <<channel, row, rows, boundary>>

LoadRefused(w) ==
  /\ pc[w] = "load" /\ ~paused /\ ~Ready(w)
  /\ Leave(w, "permanent")
  /\ gaveUp' = TRUE
  /\ UNCHANGED <<channel, row, rows, boundary>>

\* initialize_route on a route that is ready.
LoadDone(w) ==
  /\ pc[w] = "load" /\ ~paused /\ Ready(w)
  /\ Kind(w) = "init" /\ cs.status = "ready"
  /\ Leave(w, "succeeded")
  /\ UNCHANGED <<channel, row, rows, boundary, gaveUp>>

Load(w) ==
  /\ pc[w] = "load" /\ ~paused /\ Ready(w)
  /\ Kind(w) = "init" => cs.status # "ready"
  /\ copy' = [copy EXCEPT ![w] = cs]
  /\ pc' = [pc EXCEPT ![w] = IF Kind(w) = "init" /\ cs.start = Unknown THEN "scan" ELSE "fetch"]
  /\ UNCHANGED <<channel, row, rows, queue, goal, boundary, gaveUp, queueVars>>

\* What a write of `new` does to the row: nothing if the session sees no change.
Save(w, new) == cs' = IF new = copy[w] THEN cs ELSE new

\* Mutant of Begun: the boundary is the start of the channel.
BegunAtZero(c) ==
  [c EXCEPT !.status = "catching_up", !.start = boundary[c.act], !.cursor = 0, !.scan = NoForward]

\* _persist_activation_boundary
Begun(c) ==
  [c EXCEPT !.status = "catching_up", !.start = boundary[c.act], !.cursor = boundary[c.act],
            !.scan = NoForward]

\* _scan_activation_pages: down to the newest message of before the activation,
\* over several jobs if need be (_persist_activation_scan); then the boundary
\* is written (Begun) and the newer messages of this
\* run's pages are captured first.
Scan(w) ==
  /\ pc[w] = "scan"
  /\ LET c == copy[w]
         s == IF c.scan = NoForward
              THEN [phase |-> "activation", base |-> 0, snap |-> posted, at |-> posted] ELSE c.scan
         b == boundary[c.act]
         on == [s EXCEPT !.at = @ - Window] IN
     \/ /\ s.at - b >= Window
        /\ Save(w, [c EXCEPT !.status = "catching_up", !.scan = on])
        /\ EnqueueAndLeave(w, Key("init", c.act, on, 0))
     \/ /\ s.at - b < Window
        /\ Save(w, Begun(c))
        /\ copy' = [copy EXCEPT ![w] = Begun(c)]
        /\ queue' = [queue EXCEPT ![w].found = Envelopes("live", b, s.at)]
        /\ goal' = [goal EXCEPT ![w] = [what |-> "loop", f |-> NoForward]]
        /\ pc' = [pc EXCEPT ![w] = "capture"]
        /\ UNCHANGED queueVars
  /\ UNCHANGED <<channel, paused, due, rows, boundary, gaveUp>>

\* A forward step of the catch-up (_run_initialization_catch_up).
FetchCatchUp(w) ==
  /\ pc[w] = "fetch" /\ Kind(w) = "init"
  /\ LET step == ForwardStep(ForwardFrom(copy[w]))
         found == Envelopes("live", step.from, step.to) IN
     /\ queue' = [queue EXCEPT ![w].found = found]
     /\ goal' = [goal EXCEPT ![w] =
                   [what |-> IF step.next # NoForward THEN "continue"
                             ELSE IF found = <<>> THEN "finish" ELSE "loop",
                    f |-> step.next]]
  /\ pc' = [pc EXCEPT ![w] = "capture"]
  /\ UNCHANGED <<channel, row, rows, copy, boundary, gaveUp, queueVars>>

\* poll_route: a forward step, and the lookback unless there is only progress
\* to keep.
FetchPoll(w) ==
  /\ pc[w] = "fetch" /\ IsPoll(w)
  /\ LET step == ForwardStep(ForwardFrom(copy[w]))
         found == Envelopes("live", step.from, step.to) IN
     /\ queue' = [queue EXCEPT
                    ![w].edits = IF found = <<>> /\ step.next # NoForward THEN {}
                                 ELSE SourceEdits(copy[w]),
                    ![w].found = found]
     /\ goal' = [goal EXCEPT ![w] =
                   [what |-> IF step.next # NoForward THEN "continue" ELSE "finish",
                    f |-> step.next]]
  /\ pc' = [pc EXCEPT ![w] = "capture"]
  /\ UNCHANGED <<channel, row, rows, copy, boundary, gaveUp, queueVars>>

\* A dry run finds no message.
DryRunMissing(w) ==
  /\ pc[w] = "fetch" /\ Kind(w) = "dry" /\ posted = 0
  /\ Leave(w, "permanent")
  /\ gaveUp' = TRUE
  /\ UNCHANGED <<channel, row, rows, boundary>>

\* _fetch_bounded_backfill below the cursor, dry_run_route on the newest message.
FetchOther(w) ==
  /\ pc[w] = "fetch" /\ Kind(w) \in {"backfill", "dry"}
  /\ Kind(w) = "dry" => posted > 0
  /\ queue' = [queue EXCEPT ![w].found =
       IF Kind(w) = "dry" THEN Envelopes("dry", posted - 1, posted)
       ELSE Envelopes("backfill", IF copy[w].cursor > Window THEN copy[w].cursor - 1 - Window ELSE 0,
                      IF copy[w].cursor > 0 THEN copy[w].cursor - 1 ELSE 0)]
  /\ pc' = [pc EXCEPT ![w] = "capture"]
  /\ UNCHANGED <<channel, row, rows, copy, goal, boundary, gaveUp, queueVars>>

\* Mutant of Advanced: the cursor stays behind.
AdvancedSeen(c, e) == [c EXCEPT !.seen[e.m] = e.v]

\* Mutant of Advanced: the cursor goes to the newest message there is.
AdvancedJump(c, e) ==
  [c EXCEPT !.seen[e.m] = e.v, !.cursor = IF e.kind = "live" THEN posted ELSE @]

\* _update_cursor
Advanced(c, e) ==
  [c EXCEPT !.seen[e.m] = e.v,
            !.cursor = IF e.kind = "live" /\ e.m > @ THEN e.m ELSE @]

\* capture_and_enqueue: the dispatch of item e, unless its source key has one.
Dispatch(w, e) ==
  /\ live' = IF e.kind \in {"live", "backfill"} /\ live[e.m] = Unknown
             THEN [live EXCEPT ![e.m] = e.v] ELSE live
  /\ edits' = IF e.kind = "source_edit" THEN edits \cup {<<e.m, e.v>>} ELSE edits
  /\ others' = IF e.kind = "dry" THEN others \cup {cur[w]} ELSE others

\* _capture: cursor and fingerprint are written also if the dispatch exists.
Capture(w, e) ==
  LET new == IF e.kind \in {"live", "source_edit"} THEN Advanced(copy[w], e) ELSE copy[w] IN
  /\ pc[w] = "capture"
  /\ Dispatch(w, e)
  /\ Save(w, new)
  /\ copy' = [copy EXCEPT ![w] = new]
  /\ UNCHANGED <<channel, paused, due, pc, goal, boundary, gaveUp, queueVars>>

CaptureEdit(w) ==
  \E e \in queue[w].edits :
    /\ \A x \in queue[w].edits : e.m <= x.m
    /\ Capture(w, e)
    /\ queue' = [queue EXCEPT ![w].edits = @ \ {e}]

CaptureFound(w) ==
  /\ queue[w].edits = {} /\ queue[w].found # <<>>
  /\ Capture(w, Head(queue[w].found))
  /\ queue' = [queue EXCEPT ![w].found = Tail(@)]

Captured(w) == pc[w] = "capture" /\ queue[w] = NoItems

\* _persist_forward_progress
Continue(w) ==
  /\ Captured(w) /\ goal[w].what = "continue"
  /\ Save(w, [copy[w] EXCEPT !.fwd = goal[w].f])
  /\ EnqueueAndLeave(w, Key(IF IsPoll(w) THEN "forward" ELSE "init", copy[w].act, goal[w].f, 0))
  /\ UNCHANGED <<channel, paused, due, rows, boundary, gaveUp>>

\* The catch-up goes round: _clear_initialization_forward.
Loop(w) ==
  /\ Captured(w) /\ goal[w].what = "loop"
  /\ LET c == [copy[w] EXCEPT !.fwd = NoForward] IN
     Save(w, c) /\ copy' = [copy EXCEPT ![w] = c]
  /\ pc' = [pc EXCEPT ![w] = "fetch"]
  /\ UNCHANGED <<channel, paused, due, rows, queue, goal, boundary, gaveUp, queueVars>>

\* _enqueue_catch_up_cycle, once the rounds of this job are used up.
CatchUpCycle(w) ==
  /\ Captured(w) /\ goal[w].what = "loop"
  /\ LET c == [copy[w] EXCEPT !.fwd = NoForward] IN
     /\ Save(w, c)
     /\ EnqueueAndLeave(w, Key("init", c.act, [NoForward EXCEPT !.phase = "cycle", !.at = c.cursor], 0))
  /\ UNCHANGED <<channel, paused, due, rows, boundary, gaveUp>>

\* _finalize_initialization: the first poll is due now.
FinishInitialization(w) ==
  /\ Captured(w) /\ goal[w].what = "finish" /\ Kind(w) = "init"
  /\ due < MaxPolls
  /\ Save(w, [copy[w] EXCEPT !.fwd = NoForward, !.status = "ready"])
  /\ due' = due + 1
  /\ Leave(w, "succeeded")
  /\ UNCHANGED <<channel, paused, rows, boundary, gaveUp>>

\* Mutant of FinishPoll: next_poll_at stays.
FinishPollOnly(w) ==
  /\ Captured(w) /\ goal[w].what = "finish" /\ IsPoll(w)
  /\ Save(w, [copy[w] EXCEPT !.fwd = NoForward])
  /\ Leave(w, "succeeded")
  /\ UNCHANGED <<channel, paused, due, rows, boundary, gaveUp>>

\* _finish_poll: the next poll is due an interval from now.
FinishPoll(w) ==
  /\ Captured(w) /\ goal[w].what = "finish" /\ IsPoll(w)
  /\ due < MaxPolls
  /\ Save(w, [copy[w] EXCEPT !.fwd = NoForward])
  /\ due' = due + 1
  /\ Leave(w, "succeeded")
  /\ UNCHANGED <<channel, paused, rows, boundary, gaveUp>>

\* The end of backfill_route and dry_run_route.
FinishOther(w) ==
  /\ Captured(w) /\ goal[w].what = "none"
  /\ Leave(w, "succeeded")
  /\ UNCHANGED <<channel, row, rows, boundary, gaveUp>>

\* The source cannot be read, or its pages make no progress.
FetchFails(w) ==
  /\ "fetch" \in Disturbances /\ pc[w] \in {"scan", "fetch", "capture"}
  /\ Leave(w, "retryable")
  /\ gaveUp' = (gaveUp \/ ClosedStatus(cur[w], "retryable") = "failed")
  /\ UNCHANGED <<channel, row, rows, boundary>>

Crash(w) ==
  /\ "crash" \in Disturbances /\ pc[w] # "idle"
  /\ Die(w)
  /\ Forget(w)
  /\ UNCHANGED <<channel, row, rows, boundary, gaveUp>>

\* A lease of a living worker is found expired only in runs with "lease".
Recover(j) ==
  /\ RecoverJob(j)
  /\ "lease" \in Disturbances \/ cur[owner[j]] # j
  /\ gaveUp' = (gaveUp \/ RecoveredStatus(j) = "failed")
  /\ UNCHANGED <<channel, row, rows, locals, boundary>>

-----------------------------------------------------------------------------
Handle(w) == LoadHeld(w) \/ LoadRefused(w) \/ LoadDone(w) \/ Load(w) \/ Scan(w)
             \/ FetchCatchUp(w) \/ FetchPoll(w) \/ FetchOther(w) \/ DryRunMissing(w)
             \/ CaptureEdit(w) \/ CaptureFound(w) \/ Continue(w) \/ Loop(w)
             \/ CatchUpCycle(w) \/ FinishInitialization(w) \/ FinishPoll(w) \/ FinishOther(w)

Operator == ActivateRoute \/ PauseRoute \/ ResumeRoute \/ RequestDryRun \/ RequestBackfill

Next ==
  \/ Post \/ EditPost \/ Operator \/ Tick
  \/ \E w \in Workers : Start(w) \/ Handle(w) \/ FetchFails(w) \/ Crash(w)
  \/ \E j \in Jobs : Recover(j)

Spec == Init /\ [][Next]_vars

\* Workers and the scheduler are restarted for as long as they die.
Fairness ==
  /\ WF_vars(Tick)
  /\ \A w \in Workers : WF_vars(Start(w)) /\ WF_vars(Handle(w))
  /\ \A j \in Jobs : WF_vars(Recover(j))

LiveSpec == Spec /\ Fairness

-----------------------------------------------------------------------------
(* Properties. *)

\* No message is skipped: whatever jobs overlap, die or are run again, every
\* message between the route's boundary and its cursor has its dispatch.
NothingSkipped ==
  \A m \in Messages : cs.start # Unknown /\ cs.start < m /\ m <= cs.cursor => live[m] # Unknown

\* New posts only: nothing older than the route's first activation is captured
\* live, unless a backfill was asked for.
NewPostsOnly ==
  (\A j \in Jobs : j.kind = "backfill" => job[j] = "absent") =>
  \A m \in Messages : live[m] # Unknown => m > boundary[1]

\* A fingerprint stands for a version that was captured, as the message or as
\* an edit of it: otherwise the edit would never be noticed.
EditsNoticed ==
  \A m \in Messages : cs.seen[m] \in {Unknown, live[m]} \/ <<m, cs.seen[m]>> \in edits

\* An edit of a captured message that is made while the route is polled becomes
\* a dispatch by the end of the next poll, or some job was given up.
EditsCaptured ==
  \A m \in Messages, v \in 0..MaxVersion :
    (RouteDue /\ due = 1 /\ cs.seen[m] \notin {Unknown, v} /\ ver[m] = v)
      ~> (<<m, v>> \in edits \/ ver[m] # v \/ ~RouteDue \/ gaveUp)

\* The activation a route has is the operator's latest.
LatestActivation == [][cs'.act >= cs.act]_vars

\* A poll that is due is made, or some job of the route was given up.
PollDue(n)  == RouteDue /\ due = n
PollMade(n) == due > n \/ ~RouteDue
DuePollsMade == \A n \in 1..(MaxPolls - 1) : PollDue(n) ~> (PollMade(n) \/ gaveUp)

\* A due route is polled, however its earlier jobs ended.
DueRoutePolled == \A n \in 1..(MaxPolls - 1) : PollDue(n) ~> PollMade(n)

\* An activated route becomes ready, or is paused, or some job was given up.
ActivationEnds ==
  (cs.status \in {"initializing", "catching_up"}) ~> (cs.status = "ready" \/ paused \/ gaveUp)
=============================================================================
