-------------------------- MODULE SourceSchedules ---------------------------
(***************************************************************************)
(* When a source is collected, and the discovery of its icon: the rows of   *)
(* sources and workflow_schedules, the tick of the scheduler over them, the *)
(* API's creation, deletion and health check of a source, and the icon      *)
(* jobs.  Time is a counter of the units the intervals are given in.        *)
(* The tick reads all the sources first and writes at its end; a row it has *)
(* read is not read again (expire_on_commit=False and no populate_existing),*)
(* so it decides with what it read and writes the columns it has changed    *)
(* since.  The icon handler works on its row the same way.  At most 25      *)
(* icons are taken per tick in the code; here a tick takes all of them.     *)
(* The schedules the program writes are valid and the settings do not       *)
(* change, so the branches for invalid and reconfigured ones are left out.  *)
(* Source: backend/app/jobs/scheduler.py, api/sources.py,                   *)
(* sources/icon_discovery.py.                                               *)
(***************************************************************************)
EXTENDS HandlerRuns

CONSTANTS Sources,
          Every,        \* fetch_interval_minutes of each source
          Daily,        \* the sources whose interval is a day
          Day,
          IconSources,  \* the sources with a feed that may have an icon
          Ttl,          \* source_icon_discovery_ttl_days
          Abandon,      \* an icon job this old is taken for lost
          RetryBase, RetryMax,
          Disturbances, \* which of "pause", "fetch", "delete", "report",
                        \* "crash" and "refuse" happen
          MaxIcon,      \* bound: icon attempts of a source
          MaxTime       \* bound: the clock

SourceSchedulesAssumption ==
  /\ Every \in [Sources -> Nat \ {0}]
  /\ Daily \subseteq Sources /\ IconSources \subseteq Sources
  /\ {Day, Ttl, Abandon, RetryBase, RetryMax} \subseteq Nat \ {0}
  /\ MaxIcon \in Nat /\ MaxTime \in Nat
  /\ Jobs = IconSources \X (1..MaxIcon)
  /\ MaxAttempts = 1

VARIABLES now,     \* the clock
          paused,  \* automation_control.global_pause
          src,     \* sources: st, last_fetch_at, next_fetch_at
          sched,   \* workflow_schedules: st, next_run_at, last_enqueued_at
          icon,    \* the icon columns of sources
          tick,    \* the rows the scheduler's tick has read, and when
          work     \* where an icon handler stands, and its row

vars == <<queueVars, now, paused, src, sched, icon, tick, work>>

Null == -1
Times == 0..MaxTime
Never == Times \cup {Null}
NoTick == [at |-> Null, src |-> [s \in {} |-> 0], icon |-> [s \in {} |-> 0]]
NewIcon == [st |-> "pending", at |-> Null, n |-> 0, since |-> Null,
            retry |-> Null, fails |-> 0]
NoWork == [step |-> "idle", row |-> NewIcon]

Later(a, b) == IF a > b THEN a ELSE b
Sooner(a, b) == IF a < b THEN a ELSE b

IconRows == [st : {"pending", "queued", "resolved", "retryable", "unavailable"},
             at : Never, n : 0..MaxIcon, since : Never,
             retry : Null..(MaxTime + RetryMax), fails : 0..MaxIcon]
SourceRows == [st : {"absent", "active", "deleted"}, fetched : Never,
               next : Null..(MaxTime + Day + MaxTime)]
ScheduleRows == [st : {"absent", "on", "off"},
                 next : Null..(MaxTime + Day + MaxTime), last : Never]

TypeOK ==
  /\ QueueTypeOK
  /\ now \in Times /\ paused \in BOOLEAN
  /\ src \in [Sources -> SourceRows]
  /\ sched \in [Sources -> ScheduleRows]
  /\ icon \in [Sources -> IconRows]
  /\ tick = NoTick \/ tick \in [at : Times, src : [Sources -> SourceRows],
                                icon : [Sources -> IconRows]]
  /\ work \in [Workers -> [step : {"idle", "claimed", "looking", "done"},
                           row : IconRows]]

Init ==
  /\ QueueInit
  /\ now = 0 /\ paused = FALSE
  /\ src = [s \in Sources |-> [st |-> "absent", fetched |-> Null, next |-> Null]]
  /\ sched = [s \in Sources |-> [st |-> "absent", next |-> Null, last |-> Null]]
  /\ icon = [s \in Sources |-> NewIcon]
  /\ tick = NoTick
  /\ work = [w \in Workers |-> NoWork]

-----------------------------------------------------------------------------
\* The row of the database after a flush of what was made of the row read: a
\* column is written when its value changed, and so is an instant just taken.
Flushed(row, read, made, taken) ==
  [c \in DOMAIN row |-> IF c \in taken \/ made[c] # read[c] THEN made[c]
                        ELSE row[c]]

\* An attempt that starts: the row claims it, the job of its key is there.
Asked(row, at) == [row EXCEPT !.st = "queued", !.at = at, !.n = @ + 1]

-----------------------------------------------------------------------------
\* The API.

\* create_source, or a seed of sources that are not there.
CreateSource(s) ==
  /\ src[s].st = "absent"
  /\ src' = [src EXCEPT ![s].st = "active"]
  /\ UNCHANGED <<queueVars, now, paused, sched, icon, tick, work>>

\* enqueue_source_icon_discovery, the second transaction of the creation (it
\* may never come: a crash, or a seed); it asks only for what is due.
CreateIcon(s) ==
  /\ s \in IconSources /\ src[s].st = "active"
  /\ icon[s].n < MaxIcon
  /\ ~ (icon[s].st = "queued" /\ icon[s].at # Null)
  /\ ~ (icon[s].st = "resolved" /\ icon[s].since # Null
        /\ icon[s].since + Ttl > now)
  /\ ~ (icon[s].st \in {"retryable", "unavailable"} /\ icon[s].retry > now)
  /\ icon' = [icon EXCEPT ![s] = Asked(@, now)]
  /\ EnqueueJobOnce(<<s, icon[s].n + 1>>)
  /\ UNCHANGED <<now, paused, src, sched, tick, work>>

\* delete_source; that automations still name it is found out before.
DeleteSource(s) ==
  /\ "delete" \in Disturbances
  /\ src[s].st = "active"
  /\ src' = [src EXCEPT ![s].st = "deleted"]
  /\ UNCHANGED <<queueVars, now, paused, sched, icon, tick, work>>

\* report_source_icon_failure: the icon did not load in a browser.
ReportIcon(s) ==
  /\ "report" \in Disturbances
  /\ s \in IconSources /\ src[s].st = "active"
  /\ icon' = [icon EXCEPT ![s].st = "retryable", ![s].retry = now, ![s].at = Null]
  /\ UNCHANGED <<queueVars, now, paused, src, sched, tick, work>>

\* The outcome of a fetch: a health check's, or a collect job's, which may have
\* been on its way when the source was deleted.
Fetched(s) ==
  /\ "fetch" \in Disturbances
  /\ src[s].st # "absent" /\ src[s].fetched # now
  /\ src' = [src EXCEPT ![s].fetched = now]
  /\ UNCHANGED <<queueVars, now, paused, sched, icon, tick, work>>

\* PATCH of the automation control.
Pause ==
  /\ "pause" \in Disturbances
  /\ paused' = ~ paused
  /\ UNCHANGED <<queueVars, now, src, sched, icon, tick, work>>

-----------------------------------------------------------------------------
\* The tick of the scheduler.

NextDaily(t) == (t \div Day + 1) * Day

\* _new_source_schedule: from now on, or from a fetch that is ahead of now.
FirstRun(s) ==
  IF s \in Daily THEN NextDaily(tick.at)
  ELSE Later(tick.at, tick.src[s].fetched) + Every[s]

\* _refresh_source_schedule: no slot before the interval of a fetch ends.
Refreshed(s) ==
  IF sched[s].next = Null THEN FirstRun(s)
  ELSE IF s \in Daily \/ tick.src[s].fetched = Null THEN sched[s].next
  ELSE Later(sched[s].next, tick.src[s].fetched + Every[s])

\* _reconcile_sources: a schedule follows its source.
Reconciled(s) ==
  CASE tick.src[s].st = "absent" -> sched[s]
    [] tick.src[s].st = "active" ->
         [sched[s] EXCEPT !.st = "on", !.next = Refreshed(s)]
    [] tick.src[s].st = "deleted" -> [sched[s] EXCEPT !.st = "off"]

Due(row) == row.st = "on" /\ row.next # Null /\ row.next <= tick.at

\* A due slot is enqueued under its own key, and the schedule moves on.
Advanced(s, row) ==
  [row EXCEPT !.last = row.next,
              !.next = IF s \in Daily THEN NextDaily(@) ELSE @ + Every[s]]

Scheduled(s) ==
  LET row == Reconciled(s)
  IN IF ~ paused /\ Due(row) THEN Advanced(s, row) ELSE row

\* build_due_source_icon_statement, of the rows as they are by then.
IconDue(s) ==
  LET row == icon[s]
      again == row.retry = Null \/ row.retry <= tick.at
  IN /\ ~ paused /\ s \in IconSources /\ src[s].st = "active"
     /\ \/ row.st = "pending"
        \/ row.st \in {"retryable", "unavailable"} /\ again
        \/ row.st = "resolved" /\ again
           /\ (row.since = Null \/ row.since <= tick.at - Ttl)
        \/ row.st = "queued" /\ (row.at = Null \/ row.at <= tick.at - Abandon)

\* The row in the tick's session: as it was read first.
InSession(s) == IF tick.src[s].st = "absent" THEN icon[s] ELSE tick.icon[s]

\* _schedule_source_icons; with the workers' capability gone, nothing is asked.
IconAfter(s, refused) ==
  LET read == InSession(s)
      made == IF refused
              THEN [Asked(read, tick.at) EXCEPT !.st = "pending", !.at = Null]
              ELSE Asked(read, tick.at)
  IN IF IconDue(s) /\ read.n < MaxIcon THEN Flushed(icon[s], read, made, IF refused THEN {} ELSE {"at"})
     ELSE icon[s]
IconsAsked == {<<s, InSession(s).n + 1>> :
                 s \in {t \in IconSources : IconDue(t) /\ InSession(t).n < MaxIcon}}

BeginTick ==
  /\ tick = NoTick
  /\ tick' = [at |-> now, src |-> src, icon |-> icon]
  /\ UNCHANGED <<queueVars, now, paused, src, sched, icon, work>>

EndTick ==
  /\ tick # NoTick
  /\ sched' = [s \in Sources |-> Scheduled(s)]
  /\ src' = [s \in Sources |-> IF tick.src[s].st = "absent" THEN src[s]
               ELSE [src[s] EXCEPT !.next = IF Scheduled(s).st = "on"
                                            THEN Scheduled(s).next ELSE Null]]
  /\ \E refused \in BOOLEAN :
       /\ refused => "refuse" \in Disturbances
       /\ icon' = [s \in Sources |-> IconAfter(s, refused)]
       /\ job' = [j \in Jobs |-> IF ~ refused /\ j \in IconsAsked
                                    /\ job[j] = "absent"
                                 THEN "queued" ELSE job[j]]
  /\ tick' = NoTick
  /\ UNCHANGED <<tries, owner, retried, cur, now, paused, work>>

\* The process of the scheduler dies; its transaction is rolled back.
CrashTick ==
  /\ "crash" \in Disturbances
  /\ tick # NoTick
  /\ tick' = NoTick
  /\ UNCHANGED <<queueVars, now, paused, src, sched, icon, work>>

-----------------------------------------------------------------------------
\* The job that looks for an icon.

ClaimIcon(w) ==
  /\ \E j \in Jobs : ClaimJob(w, j)
  /\ work' = [work EXCEPT ![w].step = "claimed"]
  /\ UNCHANGED <<now, paused, src, sched, icon, tick>>

\* The handler takes the row, unless another attempt has it.
BeginIcon(w) ==
  LET s == cur[w][1]
  IN /\ work[w].step = "claimed"
     /\ IF icon[s].n = cur[w][2] /\ icon[s].st = "queued"
        THEN /\ icon' = [icon EXCEPT ![s].at = now]
             /\ work' = [work EXCEPT ![w] = [step |-> "looking", row |-> icon'[s]]]
        ELSE /\ work' = [work EXCEPT ![w].step = "done"]
             /\ UNCHANGED icon
     /\ UNCHANGED <<queueVars, now, paused, src, sched, tick>>

\* _retry_at
Delay(outcome, fails) ==
  IF outcome = "unavailable" THEN RetryMax
  ELSE Sooner(RetryMax, RetryBase * 2 ^ (fails - 1))

\* The row the handler makes of the one it read: _persist_resolved_icon or
\* _persist_icon_failure.
Answered(read, outcome) ==
  IF outcome = "resolved"
  THEN [read EXCEPT !.st = outcome, !.at = Null, !.since = now, !.retry = Null,
                    !.fails = 0]
  ELSE [read EXCEPT !.st = outcome, !.at = Null, !.fails = @ + 1,
                    !.retry = now + Delay(outcome, read.fails + 1)]

\* What discover comes to: a validated icon, a failure worth a retry (the
\* network, a 5xx, a proxy, the disk), or nothing to be found.
Outcomes == {"resolved", "retryable", "unavailable"}

\* discover and what is kept of it.  The check that the attempt is still the
\* row's compares the row the handler read before.
SaveIcon(w) ==
  LET s == cur[w][1]
      read == work[w].row
  IN /\ work[w].step = "looking"
     /\ \E outcome \in Outcomes :
          icon' = [icon EXCEPT ![s] =
                     IF read.n = cur[w][2]
                     THEN Flushed(@, read, Answered(read, outcome),
                             {IF outcome = "resolved" THEN "since" ELSE "retry"})
                     ELSE @]
     /\ work' = [work EXCEPT ![w].step = "done"]
     /\ UNCHANGED <<queueVars, now, paused, src, sched, tick>>

CloseIcon(w) ==
  /\ work[w].step = "done"
  /\ CloseJob(w, "succeeded")
  /\ work' = [work EXCEPT ![w] = NoWork]
  /\ UNCHANGED <<now, paused, src, sched, icon, tick>>

CrashIcon(w) ==
  /\ "crash" \in Disturbances
  /\ Die(w)
  /\ work' = [work EXCEPT ![w] = NoWork]
  /\ UNCHANGED <<now, paused, src, sched, icon, tick>>

\* requeue_expired_leases, in the same transaction as the tick's other work.
RecoverIcon(j) ==
  /\ "crash" \in Disturbances
  /\ RecoverJob(j)
  /\ UNCHANGED <<now, paused, src, sched, icon, tick, work>>

Advance ==
  /\ now < MaxTime
  /\ now' = now + 1
  /\ UNCHANGED <<queueVars, paused, src, sched, icon, tick, work>>

Next ==
  \/ \E s \in Sources : \/ CreateSource(s) \/ CreateIcon(s) \/ DeleteSource(s)
                        \/ ReportIcon(s) \/ Fetched(s)
  \/ Pause \/ BeginTick \/ EndTick \/ CrashTick \/ Advance
  \/ \E w \in Workers : \/ ClaimIcon(w) \/ BeginIcon(w) \/ SaveIcon(w)
                        \/ CloseIcon(w) \/ CrashIcon(w)
  \/ \E j \in Jobs : RecoverIcon(j)

Spec == Init /\ [][Next]_vars

-----------------------------------------------------------------------------
\* A schedule's next slot lies after every slot it has enqueued, so the key of
\* a slot is new when its turn comes, whatever was fetched in between.
SlotsGoOn ==
  \A s \in Sources : sched[s].next # Null => sched[s].next > sched[s].last

\* A row that says an attempt is queued says since when, and the job of that
\* attempt was enqueued: an icon never waits for a job nobody wrote.
QueuedIconHasJob ==
  \A s \in Sources : icon[s].st = "queued" =>
    /\ icon[s].at # Null
    /\ job[<<s, icon[s].n>>] # "absent"

\* A slot is enqueued for a source that was there when the tick began, and not
\* before the interval of the fetch the tick knows of has passed.
SlotsFollowFetches ==
  \A s \in Sources : sched'[s].last # sched[s].last =>
    /\ tick.src[s].st = "active" /\ ~ paused
    /\ tick.src[s].fetched # Null /\ s \notin Daily =>
         sched'[s].last >= tick.src[s].fetched + Every[s]

=============================================================================
