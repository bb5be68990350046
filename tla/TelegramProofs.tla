--------------------------- MODULE TelegramProofs ---------------------------
(***************************************************************************)
(* Proofs about four components of the Telegram side, for every set of      *)
(* jobs and workers: a destination and its checks (types, that a            *)
(* destination in service was checked since its last change, and that its   *)
(* checks live as jobs of the queue), an automation route (types, that no   *)
(* message is skipped and that only new posts are captured), the            *)
(* dispatches of a story (types, that their revisions are made in order, in *)
(* one lineage, and once), and the research on a story (types, that results *)
(* are kept and reach whoever subscribed to them).                          *)
(***************************************************************************)
EXTENDS TelegramDestinations, HandlerRunsProofs, FiniteSetTheorems, Sequences

\* A destination that exists, and one a check has loaded, has a target, so
\* that the settings of a check are never the "unverified" ones.
TargetInv ==
  /\ d.there => d.target > 0
  /\ \A w \in Workers :
       /\ pc[w] \in {"call", "write"} /\ IsDestCheck(w)
            => loaded[w] \in Destinations /\ loaded[w].target > 0
       /\ pc[w] = "write" /\ IsDestCheck(w) => seen[w][1] > 0
       /\ pc[w] \in {"call", "write"} /\ ~IsDestCheck(w) => loaded[w] \in Proxies

\* Healthy, like enabled, stands for a check since the last change.
HealthyAfterCheck ==
  d.there /\ (d.enabled \/ d.health = "healthy") => verified # Unverified

IInv == QueueInv /\ TypeOK /\ TargetInv /\ HealthyAfterCheck

\* The rows before anything was created are rows.
LEMMA Blanks == /\ NoDestination \in Destinations
                /\ NoProxy \in Proxies
                /\ <<0, 0, 0>> \in Versions \X Versions \X Versions
BY DEF NoDestination, NoProxy, Destinations, Proxies, Stages, Versions

\* Every step of the component is a step of the queue.
LEMMA NextIsQueueStep ==
  ASSUME TelegramDestinationsAssumption, TypeOK, [Next]_vars PROVE QueueStep
<1> USE DEF QueueStep, TelegramDestinationsAssumption
<1>1. CASE Operator
  BY <1>1 DEF Operator, CreateDestination, PatchDestination, RotateToken,
       RecheckDestination, EnableDestination, DisableDestination, DeleteDestination,
       CreateProxy, ChangeProxy, RecheckProxy, EnableProxy, DisableProxy, DeleteProxy,
       EnqueueCheck
<1>2. ASSUME NEW w \in Workers, Start(w) \/ Check(w) \/ Crash(w) PROVE QueueStep
  <2>1. CASE Start(w)
    BY <2>1 DEF Start
  <2>2. CASE Crash(w)
    BY <2>2 DEF Crash
  <2>3. CASE LoadMissing(w) \/ WriteProxy(w)
    BY <2>3 DEF LoadMissing, WriteProxy, Results
  <2>4. CASE WriteDestination(w)
    <3>1. \E r \in CASE ~d.there -> {"needs_review"}
                [] outcome[w] = "ok" -> {"succeeded"}
                [] OTHER -> {"retryable", "permanent"} : CloseJob(w, r)
      BY <2>4 DEF WriteDestination
    <3> QED
      BY <3>1 DEF Results
  <2>5. CASE Load(w) \/ CallTelegram(w) \/ CallProxy(w)
    BY <2>5 DEF Load, CallTelegram, CallProxy
  <2> QED
    BY <1>2, <2>1, <2>2, <2>3, <2>4, <2>5 DEF Check
<1>3. ASSUME NEW j \in Jobs, Recover(j) PROVE QueueStep
  BY <1>3 DEF Recover
<1>4. CASE UNCHANGED vars
  BY <1>4 DEF vars
<1> QED
  BY <1>1, <1>2, <1>3, <1>4 DEF Next

\* _reset_destination and _mark_destination_checking on a row.
LEMMA ResetRow ==
  ASSUME NEW row \in Destinations
  PROVE  /\ Reset(row) \in Destinations
         /\ Reset(row).there = row.there /\ Reset(row).target = row.target
         /\ Reset(row).via = row.via
         /\ ~Reset(row).enabled /\ Reset(row).health = "unknown"
BY DEF Reset, Destinations, Stages

LEMMA MarkCheckingRow ==
  ASSUME NEW row \in Destinations
  PROVE  /\ MarkChecking(row) \in Destinations
         /\ MarkChecking(row).there = row.there
         /\ MarkChecking(row).target = row.target
         /\ MarkChecking(row).via = row.via
         /\ MarkChecking(row).enabled = row.enabled
         /\ MarkChecking(row).health = row.health
BY DEF MarkChecking, Destinations, Stages

\* The part of the invariant that the two rows alone decide.
RowInv ==
  /\ d \in Destinations /\ p \in Proxies
  /\ d.via => p.there
  /\ d.there => d.target > 0
  /\ HealthyAfterCheck

\* The operator leaves the checks under way alone.
LEMMA OperatorLeavesChecks ==
  ASSUME TypeOK, Operator
  PROVE  UNCHANGED <<locals, cur, used, lost>>
BY DEF Operator, CreateDestination, PatchDestination, RotateToken,
       RecheckDestination, EnableDestination, DisableDestination, DeleteDestination,
       CreateProxy, ChangeProxy, RecheckProxy, EnableProxy, DisableProxy, DeleteProxy,
       EnqueueCheck, EnqueueJob, queueVars

\* Each change of the settings takes the destination out of service, and only
\* a healthy one is enabled.
LEMMA OperatorKeepsRows ==
  ASSUME IInv, Operator
  PROVE  RowInv'
<1>0. d \in Destinations /\ p \in Proxies /\ (d.via => p.there)
      /\ (d.there => d.target > 0) /\ HealthyAfterCheck
  BY DEF IInv, TypeOK, TargetInv
<1>1. CASE CreateDestination
  <2>1. PICK via \in BOOLEAN : (via => ProxyReady) /\ d' = MarkChecking(Created(via))
    BY <1>1 DEF CreateDestination
  <2>2. /\ Created(via) \in Destinations /\ Created(via).target > 0
        /\ (Created(via).via => via) /\ ~Created(via).enabled
        /\ Created(via).health = "unknown"
    <3>0. d.target + 1 \in Nat /\ d.target + 1 > 0 /\ d.token + 1 \in Nat
      BY <1>0 DEF Destinations, Versions
    <3>1. /\ NoDestination \in Destinations /\ ~NoDestination.enabled
          /\ NoDestination.health = "unknown"
      BY Blanks DEF NoDestination
    <3>2. /\ Created(TRUE) \in Destinations /\ Created(TRUE).target > 0
          /\ ~Created(TRUE).enabled /\ Created(TRUE).health = "unknown"
      BY <3>0, <3>1 DEF Created, Destinations, Versions
    <3>3. /\ Created(FALSE) \in Destinations /\ Created(FALSE).target > 0
          /\ ~Created(FALSE).enabled /\ Created(FALSE).health = "unknown"
          /\ ~Created(FALSE).via
      BY <3>0, <3>1 DEF Created, Destinations, Versions
    <3>4. CASE via = TRUE
      BY <3>2, <3>4, Zenon
    <3>5. CASE via = FALSE
      BY <3>3, <3>5, Zenon
    <3> QED
      BY <3>4, <3>5, Zenon
  <2>3. p' = p
    BY <1>1 DEF CreateDestination
  <2>4. /\ d' \in Destinations /\ d'.target > 0
        /\ d'.via = Created(via).via
        /\ ~d'.enabled /\ d'.health # "healthy"
    BY <2>1, <2>2, MarkCheckingRow, Zenon
  <2>5. d'.via => p'.there
    BY <2>1, <2>2, <2>3, <2>4, Zenon DEF ProxyReady
  <2> QED
    BY <1>0, <2>3, <2>4, <2>5 DEF RowInv, HealthyAfterCheck
<1>2. CASE PatchDestination
  <2>1. PICK new \in Patched :
          /\ new.via /\ ~d.via => ProxyReady
          /\ d' = MarkChecking(new)
          /\ verified' = IF new = d THEN verified ELSE Unverified
    BY <1>2 DEF PatchDestination
  <2>2. d.there /\ p' = p
    BY <1>2 DEF PatchDestination
  <2>3. CASE new = d
    BY <1>0, <2>1, <2>2, <2>3, MarkCheckingRow DEF RowInv, HealthyAfterCheck
  <2>4. CASE new = Reset([d EXCEPT !.target = @ + 1])
    <3>1. [d EXCEPT !.target = @ + 1] \in Destinations
      BY <1>0 DEF Destinations, Versions
    <3>2. /\ [d EXCEPT !.target = @ + 1].target > 0
          /\ [d EXCEPT !.target = @ + 1].via = d.via
      BY <1>0, <2>2 DEF Destinations, Versions
    <3>3. /\ new \in Destinations /\ new.target > 0 /\ new.via = d.via
          /\ ~new.enabled /\ new.health # "healthy"
      BY <2>4, <3>1, <3>2, ResetRow
    <3>4. /\ d' \in Destinations /\ d'.target > 0 /\ d'.via = d.via
          /\ ~d'.enabled /\ d'.health # "healthy"
      BY <2>1, <3>3, MarkCheckingRow
    <3> QED
      BY <1>0, <2>2, <3>4 DEF RowInv, HealthyAfterCheck
  <2>5. CASE new = Reset([d EXCEPT !.via = ~@])
    <3>1. /\ [d EXCEPT !.via = ~@] \in Destinations
          /\ [d EXCEPT !.via = ~@].target = d.target
          /\ [d EXCEPT !.via = ~@].via <=> ~d.via
      BY <1>0, Zenon DEF Destinations
    <3>2. /\ new \in Destinations /\ new.target = d.target
          /\ new.via = [d EXCEPT !.via = ~@].via
          /\ ~new.enabled /\ new.health # "healthy"
      BY <2>5, <3>1, ResetRow
    <3>3. /\ d' \in Destinations /\ d'.target = d.target /\ d'.via = new.via
          /\ ~d'.enabled /\ d'.health # "healthy"
      BY <2>1, <3>2, MarkCheckingRow
    <3>4. d'.via => ~d.via
      BY <3>1, <3>2, <3>3, Zenon
    <3>5. d'.via => p'.there
      BY <2>1, <2>2, <3>3, <3>4, Zenon DEF ProxyReady
    <3> QED
      BY <1>0, <2>2, <3>3, <3>5 DEF RowInv, HealthyAfterCheck
  <2> QED
    BY <2>1, <2>3, <2>4, <2>5 DEF Patched
<1>3. CASE RotateToken
  <2>1. /\ [d EXCEPT !.token = @ + 1] \in Destinations
        /\ [d EXCEPT !.token = @ + 1].target = d.target
        /\ [d EXCEPT !.token = @ + 1].via = d.via
        /\ [d EXCEPT !.token = @ + 1].there = d.there
    BY <1>0 DEF Destinations, Versions
  <2>2. /\ Rotated \in Destinations /\ Rotated.target = d.target
        /\ Rotated.via = d.via
        /\ ~Rotated.enabled /\ Rotated.health # "healthy"
    BY <2>1, ResetRow DEF Rotated
  <2>3. d.there /\ d' = MarkChecking(Rotated) /\ p' = p
    BY <1>3 DEF RotateToken
  <2>4. /\ d' \in Destinations /\ d'.target = d.target /\ d'.via = d.via
        /\ ~d'.enabled /\ d'.health # "healthy"
    BY <2>2, <2>3, MarkCheckingRow
  <2> QED
    BY <1>0, <2>3, <2>4 DEF RowInv, HealthyAfterCheck
<1>4. CASE RecheckDestination
  <2>1. /\ [d EXCEPT !.health = "unknown"] \in Destinations
        /\ [d EXCEPT !.health = "unknown"].target = d.target
        /\ [d EXCEPT !.health = "unknown"].via = d.via
        /\ [d EXCEPT !.health = "unknown"].there = d.there
        /\ [d EXCEPT !.health = "unknown"].enabled = d.enabled
        /\ [d EXCEPT !.health = "unknown"].health = "unknown"
    BY <1>0 DEF Destinations
  <2> QED
    BY <1>0, <1>4, <2>1, MarkCheckingRow DEF RowInv, HealthyAfterCheck, RecheckDestination
<1>5. CASE EnableDestination
  <2>1. d' \in Destinations /\ d'.target = d.target /\ d'.via = d.via
        /\ d'.there = d.there
    BY <1>0, <1>5 DEF EnableDestination, Destinations
  <2> QED
    BY <1>0, <1>5, <2>1 DEF EnableDestination, Ready, RowInv, HealthyAfterCheck
<1>6. CASE DisableDestination
  <2>1. d' \in Destinations /\ d'.target = d.target /\ d'.via = d.via
        /\ d'.there = d.there /\ d'.health = d.health
    BY <1>0, <1>6 DEF DisableDestination, Destinations
  <2> QED
    BY <1>0, <1>6, <2>1 DEF DisableDestination, RowInv, HealthyAfterCheck
<1>7. CASE DeleteDestination
  <2>1. d' \in Destinations /\ ~d'.there /\ ~d'.via
    BY <1>0, <1>7 DEF DeleteDestination, NoDestination, Destinations, Stages
  <2> QED
    BY <1>0, <1>7, <2>1 DEF DeleteDestination, RowInv, HealthyAfterCheck
<1>8. NewSettings \in Proxies /\ NewSettings.there
  BY <1>0 DEF NewSettings, Proxies, Versions, Stages
<1>9. ASSUME Invalidate
      PROVE  /\ d' \in Destinations /\ d'.via = d.via /\ d'.there = d.there
             /\ d'.target = d.target /\ HealthyAfterCheck'
  BY <1>0, <1>9, ResetRow DEF Invalidate, HealthyAfterCheck
<1>10. CASE CreateProxy
  BY <1>0, <1>8, <1>10 DEF CreateProxy, RowInv, HealthyAfterCheck
<1>11. CASE ChangeProxy
  BY <1>0, <1>8, <1>9, <1>11 DEF ChangeProxy, RowInv
<1>12. CASE RecheckProxy
  BY <1>0, <1>12 DEF RecheckProxy, Proxies, Stages, RowInv, HealthyAfterCheck
<1>13. CASE EnableProxy
  BY <1>0, <1>13 DEF EnableProxy, Proxies, RowInv, HealthyAfterCheck
<1>14. CASE DisableProxy
  <2>1. p' \in Proxies /\ p'.there
    BY <1>0, <1>14 DEF DisableProxy, Proxies
  <2> QED
    BY <1>0, <1>9, <1>14, <2>1 DEF DisableProxy, RowInv
<1>15. CASE DeleteProxy
  <2>1. p' \in Proxies
    BY <1>0, <1>15 DEF DeleteProxy, NoProxy, Proxies, Stages
  <2> QED
    BY <1>0, <1>15, <2>1 DEF DeleteProxy, RowInv, HealthyAfterCheck
<1> QED
  BY <1>1, <1>2, <1>3, <1>4, <1>5, <1>6, <1>7, <1>10, <1>11, <1>12, <1>13, <1>14,
     <1>15 DEF Operator

LEMMA OperatorKeeps ==
  ASSUME IInv, QueueInv', Operator
  PROVE  IInv'
<1>1. RowInv'
  BY OperatorKeepsRows
<1>2. UNCHANGED <<locals, cur, used, lost>>
  BY OperatorLeavesChecks DEF IInv
<1> QED
  BY <1>1, <1>2 DEF IInv, QueueInv, TypeOK, TargetInv, RowInv, locals, IsDestCheck

\* What the last transaction of a check may make of the row.
LEMMA WrittenDestination ==
  ASSUME IInv, NEW w \in Workers, WriteDestination(w)
  PROVE  /\ d' \in Destinations
         /\ d'.there = d.there /\ d'.target = d.target /\ d'.via = d.via
         /\ d'.enabled = d.enabled
         /\ d.there /\ outcome[w] # "ok"
              => d'.health \in {"unhealthy", d.health}
         /\ d.there /\ outcome[w] = "ok"
              => d'.health \in {"healthy", d.health}
         /\ ~d.there => d' = d
<1> DEFINE health == IF outcome[w] = "ok" THEN "healthy" ELSE "unhealthy"
           new == CheckedStages(w)
           old == loaded[w]
<1>1. /\ d \in Destinations /\ outcome[w] \in Outcomes
      /\ old \in Destinations
  BY DEF IInv, TypeOK, TargetInv, WriteDestination
<1>2. CASE ~d.there
  BY <1>1, <1>2 DEF WriteDestination
<1>3. CASE d.there
  <2>1. d' = [d EXCEPT !.stage = Flush(@, old.stage, new.stage),
                       !.pstage = Flush(@, old.pstage, new.pstage),
                       !.health = Flush(@, old.health, health)]
    BY <1>3 DEF WriteDestination
  <2>2. new.stage \in Stages /\ new.pstage \in Stages \cup {"direct"}
    <3>1. CASE outcome[w] = "ok"
      BY <3>1 DEF CheckedStages, ProxyStage, Stages
    <3>2. CASE outcome[w] = "proxy"
      BY <3>2 DEF CheckedStages, Stages
    <3>3. CASE outcome[w] = "telegram"
      BY <3>3 DEF CheckedStages, ProxyStage, Stages
    <3> QED
      BY <1>1, <3>1, <3>2, <3>3 DEF Outcomes
  <2> HIDE DEF new, old, health
  <2>3. /\ Flush(d.stage, old.stage, new.stage) \in Stages
        /\ Flush(d.pstage, old.pstage, new.pstage) \in Stages \cup {"direct"}
    BY <1>1, <2>2 DEF Flush, Destinations
  <2>4. Flush(d.health, old.health, health) \in {health, d.health}
    BY DEF Flush
  <2>5. health \in {"healthy", "unhealthy"}
        /\ (outcome[w] = "ok" <=> health = "healthy")
    BY DEF health
  <2> QED
    BY <1>1, <1>3, <2>1, <2>3, <2>4, <2>5 DEF Destinations
<1> QED
  BY <1>2, <1>3

\* The check jobs: only the last transaction of a check writes the row.
LEMMA CheckKeeps ==
  ASSUME IInv, QueueInv', NEW w \in Workers, Start(w) \/ Check(w) \/ Crash(w)
  PROVE  IInv'
<1> USE DEF IInv, TypeOK, TargetInv, HealthyAfterCheck, IsDestCheck, rows, QueueInv,
        QueueTypeOK
<1>1. CASE Start(w)
  BY <1>1 DEF Start, ClaimJob
<1>2. CASE Crash(w)
  BY <1>2, Blanks DEF Crash, Die, Forget, Outcomes
<1>3. CASE LoadMissing(w)
  BY <1>3, Blanks DEF LoadMissing, CloseJob, Forget, Outcomes
<1>4. CASE Load(w)
  BY <1>4 DEF Load, queueVars, jobVars
<1>5. CASE CallTelegram(w)
  <2>1. seen'[w] \in Versions \X Versions \X Versions /\ seen'[w][1] > 0
    BY <1>5 DEF CallTelegram, Destinations, Proxies, Versions
  <2> QED
    BY <1>5, <2>1 DEF CallTelegram, queueVars, jobVars
<1>6. CASE CallProxy(w)
  BY <1>6 DEF CallProxy, queueVars, jobVars, Outcomes
<1>7. CASE WriteDestination(w)
  <2>1. verified' = IF d'.health = "healthy" /\ outcome[w] = "ok" THEN seen[w]
                    ELSE verified
    BY <1>7 DEF WriteDestination
  <2>2. seen[w] # Unverified
    BY <1>7 DEF WriteDestination, Unverified
  <2>3. HealthyAfterCheck'
    BY <2>1, <2>2, <1>7, WrittenDestination DEF Unverified
  <2>4. cur' = [cur EXCEPT ![w] = NoJob]
    BY <1>7 DEF WriteDestination, CloseJob
  <2> QED
    BY <1>7, <2>3, <2>4, WrittenDestination, Blanks
    DEF WriteDestination, Forget, Outcomes
<1>8. CASE WriteProxy(w)
  <2>1. p' \in Proxies /\ p'.there = p.there
    BY <1>8 DEF WriteProxy, Flush, Proxies, Stages
  <2> QED
    BY <1>8, <2>1, Blanks DEF WriteProxy, CloseJob, Forget, Outcomes
<1> QED
  BY <1>1, <1>2, <1>3, <1>4, <1>5, <1>6, <1>7, <1>8 DEF Check

\* At the start nothing is there.
LEMMA InitIInv == Init => IInv
<1> SUFFICES ASSUME Init PROVE IInv
  OBVIOUS
<1>1. QueueInv
  BY QueueStarts DEF Init
<1> QED
  BY <1>1, Blanks DEF Init, IInv, QueueInv, TypeOK, TargetInv, HealthyAfterCheck,
     NoDestination, NoProxy, Outcomes

LEMMA StepIInv ==
  ASSUME TelegramDestinationsAssumption, IInv, [Next]_vars PROVE IInv'
<1>1. QueueInv'
  BY NextIsQueueStep, QueueKeeps DEF IInv
<1>2. CASE Operator
  BY <1>1, <1>2, OperatorKeeps
<1>3. ASSUME NEW w \in Workers, Start(w) \/ Check(w) \/ Crash(w) PROVE IInv'
  BY <1>1, <1>3, CheckKeeps
<1>4. ASSUME NEW j \in Jobs, Recover(j) PROVE IInv'
  BY <1>1, <1>4 DEF Recover, RecoverJob, rows, locals, IInv, QueueInv, TypeOK,
     TargetInv, HealthyAfterCheck, IsDestCheck
<1>5. CASE UNCHANGED vars
  BY <1>1, <1>5 DEF vars, rows, locals, queueVars, IInv, QueueInv, TypeOK,
     TargetInv, HealthyAfterCheck, IsDestCheck
<1> QED
  BY <1>2, <1>3, <1>4, <1>5 DEF Next

LEMMA Invariance == ASSUME TelegramDestinationsAssumption PROVE Spec => []IInv
<1>1. IInv /\ [Next]_vars => IInv'
  BY StepIInv
<1> QED
  BY <1>1, InitIInv, PTL DEF Spec

\* The rows and the locals of the checks keep their types.
THEOREM TypeCorrect == ASSUME TelegramDestinationsAssumption PROVE Spec => []TypeOK
<1>1. IInv => TypeOK
  BY DEF IInv
<1> QED
  BY <1>1, Invariance, PTL

\* A destination in service was checked since its last change, for any number
\* of overlapping checks, edits, rotations and zombies.
THEOREM CheckedBeforeEnabled ==
  ASSUME TelegramDestinationsAssumption PROVE Spec => []EnabledAfterCheck
<1>1. IInv => EnabledAfterCheck
  BY DEF IInv, HealthyAfterCheck, EnabledAfterCheck
<1> QED
  BY <1>1, Invariance, PTL

\* The check jobs live as the queue promises: they implement JobLifecycle.
THEOREM ChecksFollowLifecycle ==
  ASSUME TelegramDestinationsAssumption PROVE Spec => ChecksAreJobs
<1>1. Init => Lifecycle!Init
  BY QueueStarts DEF Init
<1>2. IInv /\ [Next]_vars => [Lifecycle!Next]_(Lifecycle!vars)
  BY NextIsQueueStep, QueueFollows DEF IInv
<1> QED
  BY <1>1, <1>2, Invariance, PTL DEF Spec, ChecksAreJobs, Lifecycle!Spec

-----------------------------------------------------------------------------
(* A route (TelegramRoutes).  RoutesInv is inductive: a route's row and the *)
(* copies of it that handlers hold are each in order by themselves, since a  *)
(* handler writes its copy over the row, however old it is; what a handler   *)
(* is to capture starts at the message after its cursor.                     *)

CONSTANTS MaxPosts, MaxVersion, MaxActs, MaxPolls, MaxDefer, Window, Disturbances
VARIABLES posted, ver, cs, paused, due, live, edits, others, copy, queue, goal,
          boundary, gaveUp
Routes == INSTANCE TelegramRoutes

\* Progress f of a route in state c: a scan goes down to what is captured, a
\* capture starts there, and neither below the first activation.
ForwardOK(f, c, first) ==
  f # Routes!NoForward =>
    /\ f.phase \in {"scan", "capture"}
    /\ first <= f.base /\ first <= f.at /\ f.at <= f.snap
    /\ f.phase = "scan" => f.base <= c.cursor

\* A state c of a route, in the row or in the copy of a worker: what is between
\* its boundary and its cursor was taken.
RouteOK(c, taken, bounds) ==
  /\ c \in Routes!CursorStates
  /\ c.act # 0 => bounds[1] <= bounds[c.act]
  /\ c.start = Routes!Unknown => c.fwd = Routes!NoForward /\ c.status # "ready"
  /\ c.start # Routes!Unknown =>
       /\ c.act # 0
       /\ bounds[1] <= c.start /\ c.start <= c.cursor
       /\ \A m \in Routes!Messages : c.start < m /\ m <= c.cursor => taken[m] # Routes!Unknown
  /\ ForwardOK(c.fwd, c, bounds[1])
  /\ c.fwd.phase = "capture" => c.fwd.at <= c.cursor

\* Envelopes to be captured by a worker with copy c: messages in a row, from
\* the one after the cursor, or what was captured before.
InARow(q, c, first) ==
  \A i \in 1..Len(q) :
    /\ q[i].kind = q[1].kind
    /\ q[i].kind = "live" => /\ q[i].m = q[1].m + (i - 1)
                             /\ first < q[1].m /\ q[1].m <= c.cursor + 1

\* What is to be kept when they are captured goes on where they end.
GoalOK(f, q, c, first) ==
  /\ ForwardOK(f, c, first)
  /\ f.phase = "capture" =>
       f.at <= c.cursor \/ \E i \in 1..Len(q) : q[i].kind = "live" /\ f.at <= q[i].m

AtWork(w) ==
  /\ pc[w] # "idle" => cur[w] \in Jobs
  /\ \A e \in queue[w].edits : e.kind = "source_edit"
  /\ goal[w].what # "continue" => goal[w].f = Routes!NoForward
  /\ pc[w] # "capture" => goal[w].what # "continue"
  /\ pc[w] \in {"scan", "fetch", "capture"} =>
       RouteOK(copy[w], live, boundary) /\ copy[w].act # 0
  /\ pc[w] = "scan" => copy[w].start = Routes!Unknown
  /\ pc[w] \in {"fetch", "capture"} => copy[w].start # Routes!Unknown
  /\ pc[w] = "capture" =>
       /\ InARow(queue[w].found, copy[w], boundary[1])
       /\ GoalOK(goal[w].f, queue[w].found, copy[w], boundary[1])
       /\ \A i \in 1..Len(queue[w].found) :
            queue[w].found[i].kind = "backfill" => cur[w].kind = "backfill"

\* A backfill was asked for.
Backfilled == \E j \in Jobs : j.kind = "backfill" /\ job[j] # "absent"

RoutesInv ==
  /\ QueueInv /\ Routes!TypeOK
  /\ boundary[1] <= posted
  /\ RouteOK(cs, live, boundary)
  /\ \A m \in Routes!Messages : live[m] # Routes!Unknown => boundary[1] < m \/ Backfilled
  /\ cs.act = 0 => /\ \A m \in Routes!Messages : live[m] = Routes!Unknown
                   /\ \A w \in Workers : pc[w] \in {"idle", "load"}
  /\ \A w \in Workers : AtWork(w)

LEMMA RoutesConstants ==
  ASSUME Routes!TelegramRoutesAssumption
  PROVE  /\ MaxPosts \in Nat \ {0} /\ MaxActs \in Nat \ {0} /\ MaxPolls \in Nat \ {0}
         /\ Window \in Nat \ {0} /\ MaxVersion \in Nat /\ MaxDefer \in Nat
         /\ Routes!Unknown = -1 /\ 1 \in 1..MaxActs
BY DEF Routes!TelegramRoutesAssumption, Routes!Unknown

LEMMA NoForwardIsForward ==
  ASSUME Routes!TelegramRoutesAssumption PROVE Routes!NoForward \in Routes!Forwards
BY RoutesConstants DEF Routes!NoForward, Routes!Forwards, Routes!Phases

LEMMA NotInitializedIsState ==
  ASSUME Routes!TelegramRoutesAssumption
  PROVE  /\ Routes!NotInitialized \in Routes!CursorStates
         /\ Routes!NoItems \in [edits : SUBSET Routes!Items, found : Seq(Routes!Items)]
         /\ Routes!NoGoal \in [what : {"none", "loop", "continue", "finish"},
                               f : Routes!Forwards]
<1>1. Routes!NotInitialized \in Routes!CursorStates
  BY RoutesConstants, NoForwardIsForward DEF Routes!NotInitialized, Routes!CursorStates
<1>2. Routes!NoItems \in [edits : SUBSET Routes!Items, found : Seq(Routes!Items)]
  BY DEF Routes!NoItems
<1>3. Routes!NoGoal \in [what : {"none", "loop", "continue", "finish"},
                         f : Routes!Forwards]
  BY NoForwardIsForward DEF Routes!NoGoal
<1> QED
  BY <1>1, <1>2, <1>3

LEMMA RoutesStart ==
  ASSUME Routes!TelegramRoutesAssumption, Routes!Init PROVE RoutesInv
<1> USE RoutesConstants DEF Routes!Init
<1>1. QueueInv
  BY QueueStarts DEF Routes!QueueInit, QueueInit
<1>2. Routes!TypeOK
  <2>1. Routes!QueueTypeOK
    BY <1>1 DEF QueueInv, QueueTypeOK, Routes!QueueTypeOK, JobStatuses, Routes!JobStatuses
  <2>2. /\ posted \in 0..MaxPosts /\ ver \in [Routes!Messages -> 0..MaxVersion]
        /\ due \in 0..MaxPolls
    OBVIOUS
  <2>9. /\ paused \in BOOLEAN /\ gaveUp \in BOOLEAN
        /\ edits \subseteq Routes!Messages \X (0..MaxVersion) /\ others \subseteq Jobs
    BY Zenon
  <2>3. live \in [Routes!Messages -> -1..MaxVersion]
    OBVIOUS
  <2>4. boundary \in [1..MaxActs -> 0..MaxPosts]
    OBVIOUS
  <2>5. pc \in [Workers -> {"idle", "load", "scan", "fetch", "capture", "end"}]
    OBVIOUS
  <2>6. copy \in [Workers -> Routes!CursorStates] /\ cs \in Routes!CursorStates
    BY NotInitializedIsState
  <2>7. queue \in [Workers -> [edits : SUBSET Routes!Items, found : Seq(Routes!Items)]]
    BY NotInitializedIsState
  <2>8. goal \in [Workers -> [what : {"none", "loop", "continue", "finish"},
                               f : Routes!Forwards]]
    BY NotInitializedIsState
  <2> HIDE DEF Routes!Init
  <2> QED
    BY <2>1, <2>2, <2>3, <2>4, <2>5, <2>6, <2>7, <2>8, <2>9 DEF Routes!TypeOK
<1>3. boundary[1] = 0 /\ boundary[1] <= posted
  OBVIOUS
<1>4. RouteOK(cs, live, boundary)
  <2>1. /\ cs \in Routes!CursorStates /\ cs.act = 0 /\ cs.start = -1
        /\ cs.fwd = Routes!NoForward /\ cs.status = "not_initialized"
    BY <1>2 DEF Routes!NotInitialized, Routes!TypeOK
  <2> QED
    BY <2>1 DEF RouteOK, ForwardOK, Routes!NoForward
<1>5. \A w \in Workers : AtWork(w)
  BY DEF AtWork, Routes!NoItems, Routes!NoGoal
<1> QED
  BY <1>1, <1>2, <1>3, <1>4, <1>5 DEF RoutesInv

\* Envelopes of a kind: the messages after `from` up to `to`, in a row.
FoundOK(q, kind, from, to) ==
  /\ q \in Seq(Routes!Items)
  /\ from <= to => Len(q) = to - from
  /\ ~ (from <= to) => Len(q) = 0
  /\ \A i \in 1..Len(q) : q[i].kind = kind /\ q[i].m = from + i

LEMMA EnvelopesAre ==
  ASSUME Routes!TelegramRoutesAssumption, ver \in [Routes!Messages -> 0..MaxVersion],
         NEW kind \in {"live", "backfill", "dry"}, NEW from \in Nat, NEW to \in Nat,
         to <= MaxPosts, NEW q, q = Routes!Envelopes(kind, from, to)
  PROVE  FoundOK(q, kind, from, to)
<1> USE RoutesConstants
<1> SUFFICES /\ q \in Seq(Routes!Items)
             /\ from <= to => Len(q) = to - from
             /\ ~ (from <= to) => Len(q) = 0
             /\ \A i \in 1..Len(q) : q[i].kind = kind /\ q[i].m = from + i
  BY DEF FoundOK
<1>1. \A i \in 1..(to - from) : Routes!Item(kind, from + i) \in Routes!Items
  BY DEF Routes!Item, Routes!Items, Routes!Messages
<1>2. q = [i \in 1..(to - from) |-> Routes!Item(kind, from + i)]
  BY DEF Routes!Envelopes
<1>3. CASE from <= to
  <2>1. to - from \in Nat
    BY <1>3
  <2>2. q \in Seq(Routes!Items) /\ Len(q) = to - from
    BY <1>1, <1>2, <2>1
  <2>3. ASSUME NEW i \in 1..Len(q) PROVE q[i].kind = kind /\ q[i].m = from + i
    <3>1. q[i] = Routes!Item(kind, from + i)
      BY <1>2, <2>2
    <3> QED
      BY <3>1 DEF Routes!Item
  <2> QED
    BY <1>3, <2>2, <2>3
<1>4. CASE ~ (from <= to)
  <2>1. 1..(to - from) = 1..0
    BY <1>4
  <2>2. q = [i \in 1..0 |-> Routes!Item(kind, from + i)]
    BY <1>2, <2>1
  <2>3. q \in Seq(Routes!Items) /\ Len(q) = 0
    BY <2>2
  <2> QED
    BY <1>4, <2>3
<1> QED
  BY <1>3, <1>4

\* A state of a route stays in order while more is taken.
LEMMA RouteStays ==
  ASSUME NEW c, RouteOK(c, live, boundary), boundary' = boundary,
         \A m \in Routes!Messages : live[m] # Routes!Unknown => live'[m] # Routes!Unknown
  PROVE  RouteOK(c, live', boundary')
BY DEF RouteOK

LEMMA WorkerStays ==
  ASSUME NEW x \in Workers, AtWork(x), boundary' = boundary,
         \A m \in Routes!Messages : live[m] # Routes!Unknown => live'[m] # Routes!Unknown,
         pc'[x] = pc[x], cur'[x] = cur[x], copy'[x] = copy[x], queue'[x] = queue[x],
         goal'[x] = goal[x]
  PROVE  AtWork(x)'
<1>1. pc[x] \in {"scan", "fetch", "capture"} => RouteOK(copy'[x], live', boundary')
  BY RouteStays DEF AtWork
<1> QED
  BY <1>1 DEF AtWork

\* Where a run goes on.
LEMMA ForwardFromOK ==
  ASSUME Routes!TelegramRoutesAssumption, posted \in 0..MaxPosts,
         boundary \in [1..MaxActs -> 0..MaxPosts], boundary[1] <= posted,
         NEW c, RouteOK(c, live, boundary), c.start # Routes!Unknown
  PROVE  /\ Routes!ForwardFrom(c) \in Routes!Forwards
         /\ Routes!ForwardFrom(c).phase \in {"scan", "capture"}
         /\ ForwardOK(Routes!ForwardFrom(c), c, boundary[1])
         /\ Routes!ForwardFrom(c).phase = "capture" => Routes!ForwardFrom(c).at <= c.cursor
<1> USE RoutesConstants DEF RouteOK, Routes!CursorStates
<1>1. CASE c.fwd # Routes!NoForward
  BY <1>1 DEF Routes!ForwardFrom, ForwardOK
<1>2. CASE c.fwd = Routes!NoForward
  <2>1. Routes!ForwardFrom(c) =
          [phase |-> "scan", base |-> c.cursor, snap |-> posted, at |-> posted]
    BY <1>2 DEF Routes!ForwardFrom
  <2>2. boundary[1] \in 0..MaxPosts /\ boundary[1] <= c.cursor /\ c.cursor \in 0..MaxPosts
    OBVIOUS
  <2> HIDE DEF RouteOK, Routes!CursorStates
  <2>3. Routes!ForwardFrom(c) \in Routes!Forwards
    BY <2>1, <2>2 DEF Routes!Forwards, Routes!Phases
  <2> QED
    BY <2>1, <2>2, <2>3 DEF ForwardOK
<1> QED
  BY <1>1, <1>2

\* The steps of a scan and of a capture, of progress f.
LEMMA ForwardSteps ==
  ASSUME NEW f \in Routes!Forwards, MaxPosts \in Nat, Window \in Nat \ {0},
         f.phase \in {"scan", "capture"}, f.at <= f.snap,
         NEW step, step = Routes!ForwardStep(f)
  PROVE  /\ step.from \in 0..MaxPosts /\ step.to \in 0..MaxPosts
         /\ step.next \in Routes!Forwards \cup {Routes!NoForward}
         /\ step.next # Routes!NoForward =>
              /\ step.next.phase \in {"scan", "capture"}
              /\ step.next.base = f.base /\ step.next.snap = f.snap
              /\ step.next.at <= f.snap
         /\ f.phase = "scan" =>
              /\ step.from = f.base \/ (step.from = 0 /\ step.to = 0)
              /\ step.next.phase = "scan" => f.base <= step.next.at
              /\ step.next.phase = "capture" =>
                   f.base <= step.from /\ step.to = f.at /\ step.next.at = f.at
         /\ f.phase = "capture" =>
              /\ step.from = f.at /\ f.at <= step.to
              /\ step.next.phase # "scan"
              /\ step.next.phase = "capture" => step.next.at = step.to
<1>1. f.base \in 0..MaxPosts /\ f.at \in 0..MaxPosts /\ f.snap \in 0..MaxPosts
  BY DEF Routes!Forwards
<1>5. Routes!NoForward.phase = "none"
  BY DEF Routes!NoForward
<1>2. CASE f.phase = "scan" /\ f.at - f.base < Window
  <2>1. /\ step.from = f.base /\ step.to = f.at
        /\ \/ step.next = Routes!NoForward
           \/ f.at < f.snap /\ step.next = [f EXCEPT !.phase = "capture"]
    BY <1>2 DEF Routes!ForwardStep, Routes!ScanStep
  <2>2. CASE step.next = Routes!NoForward
    BY <1>1, <1>5, <1>2, <2>1, <2>2
  <2>3. CASE f.at < f.snap /\ step.next = [f EXCEPT !.phase = "capture"]
    <3>1. step.next \in Routes!Forwards
      BY <2>3 DEF Routes!Forwards, Routes!Phases
    <3>2. /\ step.next.base = f.base /\ step.next.snap = f.snap
          /\ step.next.at = f.at /\ step.next.phase = "capture"
      BY <2>3 DEF Routes!Forwards
    <3> QED
      BY <1>1, <1>2, <2>1, <3>1, <3>2
  <2> QED
    BY <2>1, <2>2, <2>3
<1>3. CASE f.phase = "scan" /\ ~ (f.at - f.base < Window)
  <2>1. step.from = 0 /\ step.to = 0 /\ step.next = [f EXCEPT !.at = f.at - Window]
    BY <1>3 DEF Routes!ForwardStep, Routes!ScanStep
  <2>2. f.at - Window \in 0..MaxPosts /\ f.at - Window >= f.base /\ f.at - Window <= f.snap
    BY <1>1, <1>3
  <2>3. step.next \in Routes!Forwards
    BY <2>1, <2>2 DEF Routes!Forwards
  <2>4. /\ step.next.base = f.base /\ step.next.snap = f.snap
        /\ step.next.at = f.at - Window /\ step.next.phase = f.phase
    BY <2>1 DEF Routes!Forwards
  <2> QED
    BY <1>3, <2>1, <2>2, <2>3, <2>4
<1>4. CASE f.phase = "capture"
  <2> DEFINE end == IF f.at + Window < f.snap THEN f.at + Window ELSE f.snap
  <2>1. /\ step.from = f.at /\ step.to = end
        /\ \/ step.next = Routes!NoForward
           \/ end < f.snap /\ step.next = [f EXCEPT !.at = end]
    BY <1>4 DEF Routes!ForwardStep, Routes!CaptureStep
  <2>2. end \in 0..MaxPosts /\ f.at <= end /\ end <= f.snap
    BY <1>1
  <2> HIDE DEF end
  <2>3. CASE step.next = Routes!NoForward
    BY <1>1, <1>5, <1>4, <2>1, <2>2, <2>3
  <2>4. CASE end < f.snap /\ step.next = [f EXCEPT !.at = end]
    <3>1. step.next \in Routes!Forwards
      BY <2>2, <2>4 DEF Routes!Forwards
    <3>2. /\ step.next.base = f.base /\ step.next.snap = f.snap
          /\ step.next.at = end /\ step.next.phase = "capture"
      BY <1>4, <2>4 DEF Routes!Forwards
    <3> QED
      BY <1>1, <1>4, <2>1, <2>2, <3>1, <3>2
  <2> QED
    BY <2>1, <2>3, <2>4
<1> QED
  BY <1>2, <1>3, <1>4

\* Messages in a row from the one after `from`.
LEMMA RowOfMessages ==
  ASSUME NEW q \in Seq(Routes!Items), NEW c, c.cursor \in Int, NEW first \in Int,
         NEW from \in Int, first <= from, from <= c.cursor,
         \A i \in 1..Len(q) : q[i].kind = "live" /\ q[i].m = from + i
  PROVE  InARow(q, c, first)
BY DEF InARow

LEMMA AtMost ==
  ASSUME NEW a \in Int, NEW b \in Int, NEW c \in Int, a <= b, b <= c PROVE a <= c
OBVIOUS

\* What a forward step has captured, and what is kept after it.
LEMMA ForwardStepOK ==
  ASSUME Routes!TelegramRoutesAssumption, posted \in 0..MaxPosts,
         ver \in [Routes!Messages -> 0..MaxVersion],
         boundary \in [1..MaxActs -> 0..MaxPosts], boundary[1] <= posted,
         NEW c, RouteOK(c, live, boundary), c.start # Routes!Unknown,
         NEW step, step = Routes!ForwardStep(Routes!ForwardFrom(c)),
         NEW q, q = Routes!Envelopes("live", step.from, step.to)
  PROVE  /\ step.next \in Routes!Forwards /\ q \in Seq(Routes!Items)
         /\ InARow(q, c, boundary[1])
         /\ GoalOK(step.next, q, c, boundary[1])
         /\ \A i \in 1..Len(q) : q[i].kind = "live"
<1> USE RoutesConstants
<1> DEFINE f == Routes!ForwardFrom(c)
<1>1. /\ f \in Routes!Forwards /\ f.phase \in {"scan", "capture"}
      /\ ForwardOK(f, c, boundary[1])
      /\ f.phase = "capture" => f.at <= c.cursor
  BY ForwardFromOK
<1>2. /\ c.cursor \in 0..MaxPosts /\ boundary[1] \in 0..MaxPosts /\ boundary[1] <= c.cursor
  BY DEF RouteOK, Routes!CursorStates
<1>3. f # Routes!NoForward /\ Routes!NoForward.phase = "none"
  BY <1>1 DEF Routes!NoForward
<1>4. /\ boundary[1] <= f.base /\ boundary[1] <= f.at /\ f.at <= f.snap
      /\ f.phase = "scan" => f.base <= c.cursor
  BY <1>1, <1>3 DEF ForwardOK
<1>5. f.base \in 0..MaxPosts /\ f.at \in 0..MaxPosts /\ f.snap \in 0..MaxPosts
  BY <1>1 DEF Routes!Forwards
<1>6. step = Routes!ForwardStep(f)
  OBVIOUS
<1> HIDE DEF f
<1>7. /\ step.from \in 0..MaxPosts /\ step.to \in 0..MaxPosts
      /\ step.next \in Routes!Forwards \cup {Routes!NoForward}
      /\ step.next # Routes!NoForward =>
           /\ step.next.phase \in {"scan", "capture"}
           /\ step.next.base = f.base /\ step.next.snap = f.snap
           /\ step.next.at <= f.snap
      /\ f.phase = "scan" =>
           /\ step.from = f.base \/ (step.from = 0 /\ step.to = 0)
           /\ step.next.phase = "scan" => f.base <= step.next.at
           /\ step.next.phase = "capture" =>
                f.base <= step.from /\ step.to = f.at /\ step.next.at = f.at
      /\ f.phase = "capture" =>
           /\ step.from = f.at /\ f.at <= step.to
           /\ step.next.phase # "scan"
           /\ step.next.phase = "capture" => step.next.at = step.to
  BY <1>1, <1>4, <1>6, ForwardSteps
<1>8. /\ q \in Seq(Routes!Items)
      /\ step.from <= step.to => Len(q) = step.to - step.from
      /\ ~ (step.from <= step.to) => Len(q) = 0
      /\ \A i \in 1..Len(q) : q[i].kind = "live" /\ q[i].m = step.from + i
  <2>1. step.from \in Nat /\ step.to \in Nat /\ step.to <= MaxPosts
    BY <1>7
  <2>2. "live" \in {"live", "backfill", "dry"}
    OBVIOUS
  <2>3. FoundOK(q, "live", step.from, step.to)
    BY <2>1, <2>2, EnvelopesAre
  <2> QED
    BY <2>3 DEF FoundOK
<1>9. InARow(q, c, boundary[1])
  <2>1. CASE Len(q) = 0
    BY <2>1 DEF InARow
  <2>2. CASE Len(q) # 0
    <3>1. boundary[1] <= step.from /\ step.from <= c.cursor
      <4>1. step.from <= step.to /\ step.from # step.to
        BY <1>7, <1>8, <2>2
      <4> QED
        BY <1>1, <1>2, <1>4, <1>5, <1>7, <4>1
    <3>2. c.cursor \in Int /\ boundary[1] \in Int /\ step.from \in Int
      BY <1>2, <1>7
    <3> QED
      BY <1>8, <3>1, <3>2, RowOfMessages
  <2> QED
    BY <2>1, <2>2
<1>10. ForwardOK(step.next, c, boundary[1])
  <2>1. step.next # Routes!NoForward => step.next.at \in 0..MaxPosts
    BY <1>7 DEF Routes!Forwards
  <2>2. SUFFICES ASSUME step.next # Routes!NoForward
                 PROVE  /\ step.next.phase \in {"scan", "capture"}
                        /\ boundary[1] <= step.next.base /\ boundary[1] <= step.next.at
                        /\ step.next.at <= step.next.snap
                        /\ step.next.phase = "scan" => step.next.base <= c.cursor
    BY DEF ForwardOK
  <2>3. /\ step.next.phase \in {"scan", "capture"}
        /\ step.next.base = f.base /\ step.next.snap = f.snap /\ step.next.at <= f.snap
    BY <1>7, <2>2
  <2>4. step.next.phase = "scan" => f.phase = "scan" /\ f.base <= step.next.at
    BY <1>1, <1>7
  <2>5. step.next.phase = "capture" => f.at <= step.next.at
    <3>1. CASE f.phase = "scan"
      BY <1>5, <1>7, <3>1
    <3>2. CASE f.phase = "capture"
      BY <1>7, <3>2
    <3> QED
      BY <1>1, <3>1, <3>2
  <2>6. boundary[1] <= step.next.base /\ step.next.at <= step.next.snap
    BY <1>4, <2>3
  <2>7. step.next.phase = "scan" => step.next.base <= c.cursor
    BY <1>4, <2>3, <2>4
  <2>8. boundary[1] <= step.next.at
    <3>1. f.base <= step.next.at \/ f.at <= step.next.at
      BY <2>3, <2>4, <2>5
    <3>2. step.next.at \in Int
      BY <2>1, <2>2
    <3>3. boundary[1] \in Int /\ f.base \in Int /\ f.at \in Int
      BY <1>2, <1>5
    <3>4. boundary[1] <= f.base /\ boundary[1] <= f.at
      BY <1>4
    <3> QED
      BY <3>1, <3>2, <3>3, <3>4, AtMost, Zenon
  <2> QED
    BY <2>3, <2>6, <2>7, <2>8
<1>11. ASSUME step.next.phase = "capture", ~ (step.next.at <= c.cursor)
       PROVE  \E i \in 1..Len(q) : q[i].kind = "live" /\ step.next.at <= q[i].m
  <2>1. step.next.at = step.to /\ step.from < step.to
    <3>1. step.next.at = step.to
      BY <1>1, <1>7, <1>11
    <3>2. step.from <= c.cursor
      <4>1. CASE f.phase = "scan"
        BY <1>2, <1>4, <1>5, <1>7, <4>1
      <4>2. CASE f.phase = "capture"
        BY <1>1, <1>7, <4>2
      <4> QED
        BY <1>1, <4>1, <4>2
    <3>3. step.from \in Int /\ step.to \in Int /\ c.cursor \in Int
      BY <1>2, <1>7
    <3>4. ~ (step.to <= c.cursor)
      BY <1>11, <3>1
    <3>5. step.from < step.to
      BY <3>2, <3>3, <3>4
    <3> QED
      BY <3>1, <3>5
  <2>2. Len(q) = step.to - step.from /\ Len(q) \in 1..Len(q)
    <3>1. step.from \in Int /\ step.to \in Int
      BY <1>7
    <3>2. step.from <= step.to /\ step.to - step.from \in 1..(step.to - step.from)
      BY <2>1, <3>1
    <3> QED
      BY <1>8, <3>2
  <2>3. q[Len(q)].kind = "live" /\ q[Len(q)].m = step.to
    <3>1. q[Len(q)].kind = "live" /\ q[Len(q)].m = step.from + Len(q)
      BY <1>8, <2>2
    <3>2. step.from \in Int /\ step.to \in Int /\ Len(q) = step.to - step.from
      BY <1>7, <2>2
    <3> QED
      BY <3>1, <3>2
  <2>4. step.next.at <= q[Len(q)].m
    BY <1>7, <2>1, <2>3
  <2> QED
    BY <2>2, <2>3, <2>4
<1>12. GoalOK(step.next, q, c, boundary[1])
  BY <1>10, <1>11 DEF GoalOK
<1> QED
  BY <1>7, <1>8, <1>9, <1>12, NoForwardIsForward

\* Capturing envelope e, a message or an edit: the route stays in order.
LEMMA AdvancedOK ==
  ASSUME Routes!TelegramRoutesAssumption,
         NEW c, NEW old, NEW taken, NEW bounds, RouteOK(c, old, bounds),
         bounds \in [1..MaxActs -> 0..MaxPosts],
         c.start # Routes!Unknown, NEW e \in Routes!Items,
         e.kind = "live" => e.m <= c.cursor + 1 /\ taken[e.m] # Routes!Unknown,
         \A m \in Routes!Messages : old[m] # Routes!Unknown => taken[m] # Routes!Unknown,
         NEW new, new = Routes!Advanced(c, e)
  PROVE  /\ RouteOK(new, taken, bounds)
         /\ new.act = c.act /\ new.start = c.start
         /\ c.cursor <= new.cursor
         /\ e.kind = "live" => e.m <= new.cursor
<1> USE RoutesConstants
<1>1. /\ c.cursor \in 0..MaxPosts /\ c.start \in 0..MaxPosts /\ e.m \in 1..MaxPosts
      /\ bounds[1] \in 0..MaxPosts /\ c \in Routes!CursorStates /\ e.v \in 0..MaxVersion
      /\ bounds[1] <= c.start /\ c.start <= c.cursor
  <2>1. c \in Routes!CursorStates /\ bounds[1] <= c.start /\ c.start <= c.cursor
    BY DEF RouteOK
  <2>2. c.cursor \in -1..MaxPosts /\ c.start \in -1..MaxPosts
    BY <2>1 DEF Routes!CursorStates
  <2>3. e.m \in 1..MaxPosts /\ e.v \in 0..MaxVersion
    BY DEF Routes!Items, Routes!Messages
  <2>4. bounds[1] \in 0..MaxPosts
    OBVIOUS
  <2> QED
    BY <2>1, <2>2, <2>3, <2>4
<1> DEFINE to == IF e.kind = "live" /\ e.m > c.cursor THEN e.m ELSE c.cursor
<1>2. /\ to \in 0..MaxPosts /\ c.cursor <= to
      /\ e.kind = "live" => e.m <= to
      /\ to # c.cursor => e.kind = "live" /\ to = e.m /\ e.m = c.cursor + 1
  <2>1. CASE e.kind = "live" /\ e.m > c.cursor
    <3>1. e.m <= c.cursor + 1
      BY <2>1
    <3> QED
      <4>1. to = e.m
        BY <2>1
      <4>2. e.m \in 0..MaxPosts /\ e.m \in Int /\ c.cursor \in Int
        BY <1>1
      <4>3. e.m = c.cursor + 1
        BY <2>1, <3>1, <4>2
      <4>4. c.cursor <= e.m /\ e.m <= e.m
        BY <4>2, <4>3
      <4> QED
        BY <2>1, <4>1, <4>2, <4>3, <4>4
  <2>2. CASE ~ (e.kind = "live" /\ e.m > c.cursor)
    BY <1>1, <2>2
  <2> QED
    BY <2>1, <2>2
<1>3. new = [c EXCEPT !.seen[e.m] = e.v, !.cursor = to]
  BY DEF Routes!Advanced
<1> HIDE DEF to
<1>4. /\ new.act = c.act /\ new.start = c.start /\ new.fwd = c.fwd /\ new.cursor = to
      /\ new.status = c.status
  BY <1>1, <1>3 DEF Routes!CursorStates
<1>5. new \in Routes!CursorStates
  <2>0. /\ c.seen \in [Routes!Messages -> -1..MaxVersion] /\ e.v \in -1..MaxVersion
        /\ to \in -1..MaxPosts
    <3>1. c.seen \in [Routes!Messages -> -1..MaxVersion]
      BY <1>1 DEF Routes!CursorStates
    <3>2. e.v \in -1..MaxVersion
      BY <1>1
    <3>3. to \in -1..MaxPosts
      BY <1>2
    <3> QED
      BY <3>1, <3>2, <3>3
  <2>1. [c.seen EXCEPT ![e.m] = e.v] \in [Routes!Messages -> -1..MaxVersion]
    BY <2>0
  <2> QED
    BY <1>1, <1>3, <2>0, <2>1 DEF Routes!CursorStates
<1>6. ASSUME NEW m \in Routes!Messages, c.start < m, m <= to
      PROVE  taken[m] # Routes!Unknown
  <2>1. m \in 1..MaxPosts
    BY DEF Routes!Messages
  <2>2. CASE m <= c.cursor
    BY <1>6, <2>2 DEF RouteOK
  <2>3. CASE ~ (m <= c.cursor)
    <3>1. m = e.m /\ e.kind = "live"
      BY <1>1, <1>2, <1>6, <2>1, <2>3
    <3> QED
      BY <3>1
  <2> QED
    BY <2>2, <2>3
<1>7. ForwardOK(new.fwd, new, bounds[1])
  <2>1. ForwardOK(c.fwd, c, bounds[1]) /\ c.fwd \in Routes!Forwards
    BY <1>1 DEF RouteOK, Routes!CursorStates
  <2>2. c.fwd.base \in 0..MaxPosts
    BY <2>1 DEF Routes!Forwards
  <2> QED
    BY <1>1, <1>2, <1>4, <2>1, <2>2 DEF ForwardOK
<1>8. new.fwd.phase = "capture" => new.fwd.at <= new.cursor
  <2>1. c.fwd.phase = "capture" => c.fwd.at <= c.cursor
    BY DEF RouteOK
  <2>2. c.fwd.at \in Int
    BY <1>1 DEF Routes!CursorStates, Routes!Forwards
  <2>3. c.cursor \in Int /\ to \in Int /\ c.cursor <= to
    BY <1>1, <1>2
  <2>4. c.fwd.phase = "capture" => c.fwd.at <= to
    BY <2>1, <2>2, <2>3
  <2> QED
    BY <1>4, <2>4
<1>9. c.act # 0 /\ bounds[1] <= bounds[c.act]
  BY DEF RouteOK
<1>10. bounds[1] <= c.start /\ c.start <= to
  BY <1>1, <1>2
<1>11. RouteOK(new, taken, bounds)
  BY <1>4, <1>5, <1>6, <1>7, <1>8, <1>9, <1>10 DEF RouteOK
<1> QED
  BY <1>2, <1>4, <1>11

\* What is left to capture after the first envelope.
LEMMA RowGoesOn ==
  ASSUME NEW q \in Seq(Routes!Items), q # <<>>, NEW c, NEW new, NEW first \in Int,
         c.cursor \in Int, new.cursor \in Int, c.cursor <= new.cursor,
         q[1].kind = "live" => q[1].m <= new.cursor,
         NEW f \in Routes!Forwards, MaxPosts \in Nat,
         InARow(q, c, first), GoalOK(f, q, c, first)
  PROVE  InARow(Tail(q), new, first) /\ GoalOK(f, Tail(q), new, first)
<1>1. /\ Tail(q) \in Seq(Routes!Items) /\ Len(Tail(q)) = Len(q) - 1 /\ Len(q) \in Nat \ {0}
      /\ \A i \in 1..Len(Tail(q)) : Tail(q)[i] = q[i + 1]
  OBVIOUS
<1>2. \A i \in 1..Len(q) : q[i].m \in Int
  <2>1. \A i \in 1..Len(q) : q[i] \in Routes!Items
    BY <1>1
  <2> QED
    BY <2>1 DEF Routes!Items, Routes!Messages
<1>3. InARow(Tail(q), new, first)
  <2> SUFFICES ASSUME NEW i \in 1..Len(Tail(q))
               PROVE  /\ Tail(q)[i].kind = Tail(q)[1].kind
                      /\ Tail(q)[i].kind = "live" =>
                           /\ Tail(q)[i].m = Tail(q)[1].m + (i - 1)
                           /\ first < Tail(q)[1].m /\ Tail(q)[1].m <= new.cursor + 1
    BY DEF InARow
  <2>1. 1 \in 1..Len(q) /\ 2 \in 1..Len(q) /\ i + 1 \in 1..Len(q) /\ 1 \in 1..Len(Tail(q))
    BY <1>1
  <2>2. Tail(q)[i] = q[i + 1] /\ Tail(q)[1] = q[2]
    BY <1>1, <2>1
  <2>3. q[i + 1].kind = q[1].kind /\ q[2].kind = q[1].kind
    BY <2>1 DEF InARow
  <2>4. q[1].kind = "live" =>
          /\ q[i + 1].m = q[1].m + i /\ q[2].m = q[1].m + 1 /\ first < q[1].m
    BY <1>2, <2>1, <2>3 DEF InARow
  <2>5. Tail(q)[i].kind = Tail(q)[1].kind
    BY <2>2, <2>3
  <2>6. ASSUME Tail(q)[i].kind = "live"
        PROVE  /\ Tail(q)[i].m = Tail(q)[1].m + (i - 1)
               /\ first < Tail(q)[1].m /\ Tail(q)[1].m <= new.cursor + 1
    <3>1. /\ q[i + 1].m = q[1].m + i /\ q[2].m = q[1].m + 1 /\ first < q[1].m
          /\ q[1].m <= new.cursor
      BY <2>2, <2>3, <2>4, <2>6
    <3>2. PICK a, b, z : a = q[1].m /\ b = first /\ z = new.cursor
      OBVIOUS
    <3>3. a \in Int /\ i \in Int /\ b \in Int /\ z \in Int
      BY <1>2, <2>1, <3>2
    <3>4. /\ q[i + 1].m = a + i /\ q[2].m = a + 1 /\ b < a /\ a <= z
      BY <3>1, <3>2
    <3>5. q[i + 1].m = q[2].m + (i - 1) /\ b < q[2].m /\ q[2].m <= z + 1
      BY <3>3, <3>4
    <3> QED
      BY <2>2, <3>2, <3>5
  <2> QED
    BY <2>5, <2>6
<1>4. ForwardOK(f, new, first)
  <2>1. f.base \in Int
    BY DEF Routes!Forwards
  <2> QED
    BY <2>1 DEF GoalOK, ForwardOK
<1>5. ASSUME f.phase = "capture", ~ (f.at <= new.cursor)
      PROVE  \E i \in 1..Len(Tail(q)) : Tail(q)[i].kind = "live" /\ f.at <= Tail(q)[i].m
  <2>1. f.at \in Int
    BY DEF Routes!Forwards
  <2>2. PICK i \in 1..Len(q) : q[i].kind = "live" /\ f.at <= q[i].m
    BY <1>5, <2>1 DEF GoalOK
  <2>3. i # 1
    BY <1>2, <1>5, <2>1, <2>2
  <2>4. i - 1 \in 1..Len(Tail(q))
    BY <1>1, <2>3
  <2>5. Tail(q)[i - 1] = q[i]
    BY <1>1, <2>4
  <2> QED
    BY <2>2, <2>4, <2>5
<1> QED
  BY <1>3, <1>4, <1>5 DEF GoalOK

\* Jobs that exist go on existing.
JobsStay == \A j \in Jobs : job[j] # "absent" => job'[j] # "absent"

LEMMA QueueStepStays == ASSUME QueueInv, QueueStep PROVE QueueInv' /\ JobsStay
<1>1. QueueInv'
  BY QueueKeeps
<1>2. JobsStay
  <2> SUFFICES ASSUME NEW k \in Jobs, job[k] # "absent" PROVE job'[k] # "absent"
    BY DEF JobsStay
  <2> USE DEF QueueInv, QueueTypeOK
  <2>1. ASSUME NEW j \in Jobs, EnqueueJob(j) \/ EnqueueJobOnce(j) PROVE job'[k] # "absent"
    BY <2>1 DEF EnqueueJob, EnqueueJobOnce
  <2>2. ASSUME NEW j \in Jobs, RecoverJob(j) \/ RetryJob(j) \/ CancelJob(j)
        PROVE  job'[k] # "absent"
    BY <2>2 DEF RecoverJob, RecoveredStatus, RetryJob, CancelJob
  <2>3. ASSUME NEW w \in Workers, NEW j \in Jobs, ClaimJob(w, j) PROVE job'[k] # "absent"
    BY <2>3 DEF ClaimJob
  <2>4. ASSUME NEW w \in Workers, NEW r \in Results, CloseJob(w, r) PROVE job'[k] # "absent"
    BY <2>4 DEF CloseJob, ClosedStatus, Results
  <2>5. CASE (\E w \in Workers : Die(w)) \/ UNCHANGED queueVars
    BY <2>5 DEF Die, queueVars, jobVars
  <2> QED
    BY <2>1, <2>2, <2>3, <2>4, <2>5 DEF QueueStep
<1> QED
  BY <1>1, <1>2

\* A job of any key, enqueued once.
LEMMA OnceStays ==
  ASSUME QueueInv, NEW j, Routes!EnqueueJobOnce(j) PROVE QueueInv' /\ JobsStay
<1>1. CASE j \in Jobs
  <2>1. EnqueueJobOnce(j)
    BY DEF Routes!EnqueueJobOnce, EnqueueJobOnce
  <2> QED
    BY <1>1, <2>1, QueueStepStays DEF QueueStep
<1>2. CASE j \notin Jobs
  <2>1. UNCHANGED queueVars
    BY <1>2 DEF Routes!EnqueueJobOnce, queueVars, jobVars, QueueInv, QueueTypeOK
  <2> QED
    BY <2>1, QueueStepStays DEF QueueStep
<1> QED
  BY <1>1, <1>2

\* A handler that is over leaves its worker without a job.
LEMMA LeaveStays ==
  ASSUME QueueInv, NEW w \in Workers, NEW r \in Results, Routes!CloseJob(w, r)
  PROVE  QueueInv' /\ JobsStay
<1>1. CloseJob(w, r)
  BY DEF Routes!CloseJob, CloseJob, Routes!Holds, Holds, Routes!ClosedStatus, ClosedStatus
<1> QED
  BY <1>1, QueueStepStays DEF QueueStep

\* ... also when it has enqueued a successor.
LEMMA EnqueueAndLeaveStays ==
  ASSUME QueueInv, NEW w \in Workers, cur[w] \in Jobs, NEW j, Routes!EnqueueAndLeave(w, j)
  PROVE  QueueInv' /\ JobsStay
<1> DEFINE queued == [job EXCEPT ![j] = IF @ = "absent" THEN "queued" ELSE @]
<1>1. /\ job' = IF Holds(w) THEN [queued EXCEPT ![cur[w]] = "succeeded"] ELSE queued
      /\ owner' = IF Holds(w) THEN [owner EXCEPT ![cur[w]] = Nobody] ELSE owner
      /\ cur' = [cur EXCEPT ![w] = NoJob]
      /\ tries' = tries /\ retried' = retried
  BY DEF Routes!EnqueueAndLeave, Routes!Holds, Holds
<1>2. /\ job \in [Jobs -> JobStatuses] /\ owner \in [Jobs -> Workers \cup {Nobody}]
      /\ tries \in [Jobs -> 0..(MaxAttempts + MaxRetries)]
      /\ retried \in [Jobs -> 0..MaxRetries] /\ cur \in [Workers -> Jobs \cup {NoJob}]
      /\ BudgetInv /\ OwnerInv /\ ClaimInv
  BY DEF QueueInv, QueueTypeOK
<1>3. queued \in [Jobs -> JobStatuses]
  BY <1>2 DEF JobStatuses
<1>4. \A k \in Jobs : queued[k] = job[k] \/ (job[k] = "absent" /\ queued[k] = "queued")
  BY <1>2
<1> HIDE DEF queued
<1>5. /\ job' \in [Jobs -> JobStatuses] /\ owner' \in [Jobs -> Workers \cup {Nobody}]
      /\ cur' \in [Workers -> Jobs \cup {NoJob}]
  BY <1>1, <1>2, <1>3 DEF JobStatuses
<1>6. \A k \in Jobs :
        \/ job'[k] = job[k] /\ owner'[k] = owner[k]
        \/ job[k] = "absent" /\ job'[k] = "queued" /\ owner'[k] = owner[k]
        \/ job[k] = "running" /\ job'[k] = "succeeded" /\ owner'[k] = Nobody
  BY <1>1, <1>2, <1>3, <1>4 DEF Holds
<1>7. JobsStay
  BY <1>6 DEF JobsStay
<1>8. BudgetInv'
  BY <1>1, <1>2, <1>6, HandlerRunsAssumption DEF BudgetInv
<1>9. OwnerInv'
  BY <1>2, <1>6 DEF OwnerInv
<1>10. ClaimInv'
  BY <1>1, <1>2, <1>6, HandlerRunsAssumption DEF ClaimInv
<1>11. QueueTypeOK'
  BY <1>1, <1>2, <1>5 DEF QueueTypeOK
<1> QED
  BY <1>7, <1>8, <1>9, <1>10, <1>11 DEF QueueInv

LEMMA BackfilledStays == ASSUME JobsStay, Backfilled PROVE Backfilled'
BY DEF JobsStay, Backfilled

\* What is around the workers changes.
LEMMA AroundKeeps ==
  ASSUME RoutesInv, QueueInv', JobsStay, cur' = cur,
         UNCHANGED <<cs, due, live, edits, others, pc, copy, queue, goal, boundary>>,
         posted' \in 0..MaxPosts, posted <= posted', MaxPosts \in Nat,
         ver' \in [Routes!Messages -> 0..MaxVersion],
         paused' \in BOOLEAN, gaveUp' \in BOOLEAN, MaxActs \in Nat \ {0}
  PROVE  RoutesInv'
<1>1. Routes!TypeOK'
  <2>1. Routes!QueueTypeOK'
    BY DEF QueueInv, QueueTypeOK, Routes!QueueTypeOK, JobStatuses, Routes!JobStatuses
  <2>2. Routes!TypeOK
    BY DEF RoutesInv
  <2> QED
    BY <2>1, <2>2 DEF Routes!TypeOK
<1>2. boundary'[1] <= posted'
  <2>1. boundary[1] \in 0..MaxPosts /\ posted \in 0..MaxPosts /\ boundary[1] <= posted
    BY DEF RoutesInv, Routes!TypeOK
  <2> QED
    BY <2>1
<1>3. RouteOK(cs', live', boundary')
  BY DEF RoutesInv
<1>4. \A m \in Routes!Messages :
        live'[m] # Routes!Unknown => boundary'[1] < m \/ Backfilled'
  BY BackfilledStays DEF RoutesInv
<1>5. cs'.act = 0 => /\ \A m \in Routes!Messages : live'[m] = Routes!Unknown
                     /\ \A w \in Workers : pc'[w] \in {"idle", "load"}
  BY DEF RoutesInv
<1>6. \A w \in Workers : AtWork(w)'
  BY WorkerStays DEF RoutesInv
<1> QED
  BY <1>1, <1>2, <1>3, <1>4, <1>5, <1>6 DEF RoutesInv

\* A worker goes on, and may have written the row of the route and captured.
LEMMA WorkerKeeps ==
  ASSUME RoutesInv, Routes!TelegramRoutesAssumption, QueueInv', JobsStay,
         NEW w \in Workers, \A x \in Workers \ {w} : cur'[x] = cur[x],
         NEW s \in {"idle", "load", "scan", "fetch", "capture"}, pc' = [pc EXCEPT ![w] = s],
         NEW c \in Routes!CursorStates, copy' = [copy EXCEPT ![w] = c],
         NEW q \in [edits : SUBSET Routes!Items, found : Seq(Routes!Items)],
         queue' = [queue EXCEPT ![w] = q],
         NEW g \in [what : {"none", "loop", "continue", "finish"}, f : Routes!Forwards],
         goal' = [goal EXCEPT ![w] = g],
         UNCHANGED <<posted, ver, paused, boundary>>,
         due' \in 0..MaxPolls, gaveUp' \in BOOLEAN,
         live' \in [Routes!Messages -> -1..MaxVersion],
         edits' \subseteq Routes!Messages \X (0..MaxVersion), others' \subseteq Jobs,
         \A m \in Routes!Messages : live[m] # Routes!Unknown => live'[m] # Routes!Unknown,
         \A m \in Routes!Messages : live'[m] # Routes!Unknown =>
           live[m] # Routes!Unknown \/ boundary[1] < m \/ Backfilled,
         RouteOK(cs', live', boundary),
         \/ cs'.act # 0
         \/ cs' = cs /\ live' = live /\ s \in {"idle", "load"},
         AtWork(w)'
  PROVE  RoutesInv'
<1>1. Routes!TypeOK'
  <2>1. Routes!QueueTypeOK'
    BY DEF QueueInv, QueueTypeOK, Routes!QueueTypeOK, JobStatuses, Routes!JobStatuses
  <2>2. cs' \in Routes!CursorStates
    BY DEF RouteOK
  <2>3. /\ posted \in 0..MaxPosts /\ ver \in [Routes!Messages -> 0..MaxVersion]
        /\ paused \in BOOLEAN /\ boundary \in [1..MaxActs -> 0..MaxPosts]
    BY DEF RoutesInv, Routes!TypeOK
  <2>4. pc' \in [Workers -> {"idle", "load", "scan", "fetch", "capture", "end"}]
    BY DEF RoutesInv, Routes!TypeOK
  <2>5. copy' \in [Workers -> Routes!CursorStates]
    BY DEF RoutesInv, Routes!TypeOK
  <2>6. queue' \in [Workers -> [edits : SUBSET Routes!Items, found : Seq(Routes!Items)]]
    BY DEF RoutesInv, Routes!TypeOK
  <2>7. goal' \in [Workers -> [what : {"none", "loop", "continue", "finish"},
                               f : Routes!Forwards]]
    BY DEF RoutesInv, Routes!TypeOK
  <2> QED
    BY <2>1, <2>2, <2>3, <2>4, <2>5, <2>6, <2>7 DEF Routes!TypeOK
<1>2. boundary'[1] <= posted' /\ RouteOK(cs', live', boundary')
  BY DEF RoutesInv
<1>3. \A m \in Routes!Messages :
        live'[m] # Routes!Unknown => boundary'[1] < m \/ Backfilled'
  BY BackfilledStays DEF RoutesInv
<1>4. pc \in [Workers -> {"idle", "load", "scan", "fetch", "capture", "end"}]
  BY DEF RoutesInv, Routes!TypeOK
<1>5. cs'.act = 0 => /\ \A m \in Routes!Messages : live'[m] = Routes!Unknown
                     /\ \A x \in Workers : pc'[x] \in {"idle", "load"}
  BY <1>4 DEF RoutesInv
<1>6. ASSUME NEW x \in Workers, x # w PROVE AtWork(x)'
  <2>1. /\ copy \in [Workers -> Routes!CursorStates]
        /\ queue \in [Workers -> [edits : SUBSET Routes!Items, found : Seq(Routes!Items)]]
        /\ goal \in [Workers -> [what : {"none", "loop", "continue", "finish"},
                                 f : Routes!Forwards]]
    BY DEF RoutesInv, Routes!TypeOK
  <2>2. /\ pc'[x] = pc[x] /\ cur'[x] = cur[x] /\ copy'[x] = copy[x]
        /\ queue'[x] = queue[x] /\ goal'[x] = goal[x]
    BY <1>4, <1>6, <2>1
  <2> QED
    BY <2>2, WorkerStays DEF RoutesInv
<1> QED
  BY <1>1, <1>2, <1>3, <1>5, <1>6 DEF RoutesInv

\* A worker leaves.
LEMMA LeavingKeeps ==
  ASSUME RoutesInv, Routes!TelegramRoutesAssumption, QueueInv', JobsStay,
         NEW w \in Workers, \A x \in Workers \ {w} : cur'[x] = cur[x], Routes!Forget(w),
         UNCHANGED <<posted, ver, paused, boundary, live, edits, others>>,
         due' \in 0..MaxPolls, gaveUp' \in BOOLEAN,
         RouteOK(cs', live, boundary), cs'.act # 0 \/ cs' = cs
  PROVE  RoutesInv'
<1>1. /\ pc' = [pc EXCEPT ![w] = "idle"]
      /\ copy' = [copy EXCEPT ![w] = Routes!NotInitialized]
      /\ queue' = [queue EXCEPT ![w] = Routes!NoItems]
      /\ goal' = [goal EXCEPT ![w] = Routes!NoGoal]
  BY DEF Routes!Forget
<1>2. /\ live' \in [Routes!Messages -> -1..MaxVersion]
      /\ edits' \subseteq Routes!Messages \X (0..MaxVersion) /\ others' \subseteq Jobs
      /\ pc'[w] = "idle" /\ queue'[w] = Routes!NoItems /\ goal'[w] = Routes!NoGoal
  BY <1>1 DEF RoutesInv, Routes!TypeOK
<1>3. AtWork(w)'
  BY <1>2 DEF AtWork, Routes!NoItems, Routes!NoGoal
<1>4. RouteOK(cs', live', boundary)
  OBVIOUS
<1> QED
  BY <1>1, <1>2, <1>3, <1>4, NotInitializedIsState, WorkerKeeps

\* The channel, the operator, the scheduler, the recovery of leases.
LEMMA RoutesAround ==
  ASSUME RoutesInv, Routes!TelegramRoutesAssumption,
         \/ Routes!Post \/ Routes!EditPost \/ Routes!PauseRoute \/ Routes!ResumeRoute
         \/ Routes!RequestDryRun \/ Routes!RequestBackfill \/ Routes!Tick
         \/ \E j \in Jobs : Routes!Recover(j)
  PROVE  RoutesInv'
<1> USE DEF Routes!channel, Routes!row, Routes!rows, Routes!locals, Routes!queueVars,
            Routes!jobVars
<1>1. /\ QueueInv /\ MaxPosts \in Nat /\ MaxActs \in Nat \ {0}
      /\ posted \in 0..MaxPosts /\ paused \in BOOLEAN /\ gaveUp \in BOOLEAN
      /\ ver \in [Routes!Messages -> 0..MaxVersion] /\ MaxVersion \in Nat
  BY RoutesConstants DEF RoutesInv, Routes!TypeOK
<1>2. ASSUME UNCHANGED queueVars PROVE QueueInv' /\ JobsStay
  BY <1>1, <1>2, QueueStepStays DEF QueueStep
<1>3. CASE Routes!Post
  <2>1. UNCHANGED <<queueVars, cs, due, live, edits, others, pc, copy, queue, goal, boundary>>
    BY <1>3 DEF Routes!Post, queueVars, jobVars
  <2>2. posted' \in 0..MaxPosts /\ posted <= posted' /\ UNCHANGED <<ver, paused, gaveUp>>
    BY <1>1, <1>3 DEF Routes!Post
  <2> QED
    BY <1>1, <1>2, <2>1, <2>2, AroundKeeps DEF queueVars
<1>4. CASE Routes!EditPost
  <2>1. UNCHANGED <<queueVars, cs, due, live, edits, others, pc, copy, queue, goal, boundary>>
    BY <1>4 DEF Routes!EditPost, queueVars, jobVars
  <2>2. UNCHANGED <<posted, paused, gaveUp>>
    BY <1>4 DEF Routes!EditPost
  <2>3. ver' \in [Routes!Messages -> 0..MaxVersion]
    <3>1. PICK m \in 1..posted : ver[m] < MaxVersion /\ ver' = [ver EXCEPT ![m] = @ + 1]
      BY <1>4 DEF Routes!EditPost
    <3>2. m \in Routes!Messages
      BY <1>1 DEF Routes!Messages
    <3> QED
      BY <1>1, <3>1, <3>2
  <2>4. posted' \in 0..MaxPosts /\ posted <= posted' /\ paused' \in BOOLEAN
        /\ gaveUp' \in BOOLEAN
    BY <1>1, <2>2
  <2> QED
    BY <1>1, <1>2, <2>1, <2>3, <2>4, AroundKeeps DEF queueVars
<1>5. CASE Routes!PauseRoute \/ Routes!ResumeRoute
  <2>1. UNCHANGED <<queueVars, cs, due, live, edits, others, pc, copy, queue, goal, boundary>>
    BY <1>5 DEF Routes!PauseRoute, Routes!ResumeRoute, queueVars, jobVars
  <2>2. UNCHANGED <<posted, ver, gaveUp>> /\ paused' \in BOOLEAN
    BY <1>5 DEF Routes!PauseRoute, Routes!ResumeRoute
  <2>3. posted' \in 0..MaxPosts /\ posted <= posted'
    BY <1>1, <2>2
  <2> QED
    BY <1>1, <1>2, <2>1, <2>2, <2>3, AroundKeeps DEF queueVars
<1>6. CASE Routes!RequestDryRun \/ Routes!RequestBackfill \/ Routes!Tick
  <2>1. /\ UNCHANGED <<cs, due, live, edits, others, pc, copy, queue, goal, boundary>>
        /\ UNCHANGED <<posted, ver, paused, gaveUp>>
    BY <1>6 DEF Routes!RequestDryRun, Routes!RequestBackfill, Routes!Tick
  <2>2. QueueInv' /\ JobsStay /\ cur' = cur
    <3>1. CASE Routes!RequestDryRun \/ Routes!RequestBackfill
      <4>1. PICK j \in Jobs : Routes!EnqueueJob(j)
        BY <3>1 DEF Routes!RequestDryRun, Routes!RequestBackfill
      <4>2. EnqueueJob(j)
        BY <4>1 DEF Routes!EnqueueJob, EnqueueJob
      <4> QED
        BY <1>1, <4>2, QueueStepStays DEF QueueStep, EnqueueJob
    <3>2. CASE Routes!Tick
      <4>1. PICK j : j = Routes!Key("poll", due, Routes!NoForward, 0)
        OBVIOUS
      <4>2. Routes!EnqueueJobOnce(j)
        BY <3>2, <4>1 DEF Routes!Tick
      <4> QED
        BY <1>1, <4>2, OnceStays DEF Routes!EnqueueJobOnce
    <3> QED
      BY <1>6, <3>1, <3>2
  <2>3. posted' \in 0..MaxPosts /\ posted <= posted'
    BY <1>1, <2>1
  <2> QED
    BY <1>1, <2>1, <2>2, <2>3, AroundKeeps
<1>7. ASSUME NEW j \in Jobs, Routes!Recover(j) PROVE RoutesInv'
  <2>1. /\ UNCHANGED <<cs, due, live, edits, others, pc, copy, queue, goal, boundary>>
        /\ UNCHANGED <<posted, ver, paused>>
    BY <1>7 DEF Routes!Recover
  <2>2. RecoverJob(j)
    BY <1>7 DEF Routes!Recover, Routes!RecoverJob, RecoverJob, Routes!RecoveredStatus,
                RecoveredStatus
  <2>3. QueueInv' /\ JobsStay /\ cur' = cur
    BY <1>1, <2>2, QueueStepStays DEF QueueStep, RecoverJob
  <2>4. posted' \in 0..MaxPosts /\ posted <= posted'
    BY <1>1, <2>1
  <2>5. gaveUp' \in BOOLEAN
    BY <1>7, Zenon DEF Routes!Recover
  <2> QED
    BY <1>1, <2>1, <2>3, <2>4, <2>5, AroundKeeps
<1> QED
  BY <1>3, <1>4, <1>5, <1>6, <1>7

\* A worker that leaves, with or without a successor enqueued.
LEMMA LeavingIsStep ==
  ASSUME RoutesInv, NEW w \in Workers, pc[w] # "idle",
         \/ \E r \in Results : Routes!Leave(w, r)
         \/ \E j : Routes!EnqueueAndLeave(w, j)
         \/ Routes!Die(w) /\ Routes!Forget(w)
  PROVE  /\ QueueInv' /\ JobsStay /\ Routes!Forget(w)
         /\ \A x \in Workers \ {w} : cur'[x] = cur[x]
<1>1. QueueInv /\ cur[w] \in Jobs /\ cur \in [Workers -> Jobs \cup {NoJob}]
  BY DEF RoutesInv, AtWork, QueueInv, QueueTypeOK
<1>2. ASSUME NEW r \in Results, Routes!Leave(w, r)
      PROVE  /\ QueueInv' /\ JobsStay /\ Routes!Forget(w)
             /\ \A x \in Workers \ {w} : cur'[x] = cur[x]
  <2>1. Routes!CloseJob(w, r) /\ Routes!Forget(w)
    BY <1>2 DEF Routes!Leave
  <2>2. cur' = [cur EXCEPT ![w] = NoJob]
    BY <2>1 DEF Routes!CloseJob
  <2> QED
    BY <1>1, <2>1, <2>2, LeaveStays
<1>3. ASSUME NEW j, Routes!EnqueueAndLeave(w, j)
      PROVE  /\ QueueInv' /\ JobsStay /\ Routes!Forget(w)
             /\ \A x \in Workers \ {w} : cur'[x] = cur[x]
  <2>1. cur' = [cur EXCEPT ![w] = NoJob] /\ Routes!Forget(w)
    BY <1>3 DEF Routes!EnqueueAndLeave
  <2>2. QueueInv' /\ JobsStay
    BY <1>1, <1>3, EnqueueAndLeaveStays
  <2> QED
    BY <1>1, <2>1, <2>2
<1>4. ASSUME Routes!Die(w), Routes!Forget(w)
      PROVE  /\ QueueInv' /\ JobsStay
             /\ \A x \in Workers \ {w} : cur'[x] = cur[x]
  <2>1. Die(w) /\ cur' = [cur EXCEPT ![w] = NoJob]
    BY <1>4 DEF Routes!Die, Die, Routes!jobVars, jobVars
  <2> QED
    BY <1>1, <2>1, QueueStepStays DEF QueueStep
<1> QED
  BY <1>2, <1>3, <1>4

\* A handler ends without writing the route's row.
LEMMA RoutesLeave ==
  ASSUME RoutesInv, Routes!TelegramRoutesAssumption, NEW w \in Workers,
         \/ Routes!LoadHeld(w) \/ Routes!LoadRefused(w) \/ Routes!LoadDone(w)
         \/ Routes!DryRunMissing(w) \/ Routes!FinishOther(w) \/ Routes!FetchFails(w)
         \/ Routes!Crash(w)
  PROVE  RoutesInv'
<1> USE DEF Routes!channel, Routes!row, Routes!rows
<1>1. UNCHANGED <<posted, ver, paused, boundary, live, edits, others, cs, due>>
  BY DEF Routes!LoadHeld, Routes!LoadRefused, Routes!LoadDone, Routes!DryRunMissing,
         Routes!FinishOther, Routes!FetchFails, Routes!Crash
<1>2. /\ pc[w] # "idle"
      /\ \/ \E r \in Results : Routes!Leave(w, r)
         \/ \E j : Routes!EnqueueAndLeave(w, j)
         \/ Routes!Die(w) /\ Routes!Forget(w)
  <2>1. CASE Routes!LoadHeld(w)
    BY <2>1 DEF Routes!LoadHeld, Results
  <2>2. CASE \/ Routes!LoadRefused(w) \/ Routes!LoadDone(w) \/ Routes!DryRunMissing(w)
             \/ Routes!FinishOther(w)
    BY <2>2 DEF Routes!LoadRefused, Routes!LoadDone, Routes!DryRunMissing,
                Routes!FinishOther, Routes!Captured, Results
  <2>3. CASE Routes!FetchFails(w) \/ Routes!Crash(w)
    BY <2>3 DEF Routes!FetchFails, Routes!Crash, Results
  <2> QED
    BY <2>1, <2>2, <2>3
<1>3. gaveUp' \in BOOLEAN
  <2>1. gaveUp \in BOOLEAN
    BY DEF RoutesInv, Routes!TypeOK
  <2>2. CASE Routes!FetchFails(w)
    BY <2>2, Zenon DEF Routes!FetchFails
  <2>3. CASE ~ Routes!FetchFails(w)
    BY <2>1, <2>3 DEF Routes!LoadHeld, Routes!LoadRefused, Routes!LoadDone,
       Routes!DryRunMissing, Routes!FinishOther, Routes!Crash
  <2> QED
    BY <2>2, <2>3
<1>4. due' \in 0..MaxPolls /\ RouteOK(cs', live, boundary)
  BY <1>1 DEF RoutesInv, Routes!TypeOK
<1>5. /\ QueueInv' /\ JobsStay /\ Routes!Forget(w)
      /\ \A x \in Workers \ {w} : cur'[x] = cur[x]
  BY <1>2, LeavingIsStep
<1> QED
  BY <1>1, <1>3, <1>4, <1>5, LeavingKeeps

\* A job is claimed.
LEMMA RoutesClaim ==
  ASSUME RoutesInv, Routes!TelegramRoutesAssumption, NEW w \in Workers, Routes!Start(w)
  PROVE  RoutesInv'
<1> USE DEF Routes!channel, Routes!row, Routes!rows
<1>1. /\ pc' = [pc EXCEPT ![w] = "load"]
      /\ UNCHANGED <<copy, queue, goal, posted, ver, paused, boundary, live, edits, others>>
      /\ UNCHANGED <<cs, due, gaveUp>>
  BY DEF Routes!Start
<1>2. PICK j \in Jobs : ClaimJob(w, j)
  BY DEF Routes!Start, Routes!ClaimJob, ClaimJob
<1>3. /\ QueueInv /\ cur \in [Workers -> Jobs \cup {NoJob}] /\ gaveUp \in BOOLEAN
      /\ due \in 0..MaxPolls /\ RouteOK(cs, live, boundary)
      /\ live \in [Routes!Messages -> -1..MaxVersion]
      /\ edits \subseteq Routes!Messages \X (0..MaxVersion) /\ others \subseteq Jobs
  BY DEF RoutesInv, Routes!TypeOK, QueueInv, QueueTypeOK
<1>4. /\ QueueInv' /\ JobsStay /\ cur'[w] \in Jobs
      /\ \A x \in Workers \ {w} : cur'[x] = cur[x]
  BY <1>2, <1>3, QueueStepStays DEF QueueStep, ClaimJob
<1>5. /\ copy \in [Workers -> Routes!CursorStates]
      /\ queue \in [Workers -> [edits : SUBSET Routes!Items, found : Seq(Routes!Items)]]
      /\ goal \in [Workers -> [what : {"none", "loop", "continue", "finish"},
                               f : Routes!Forwards]]
      /\ pc \in [Workers -> {"idle", "load", "scan", "fetch", "capture", "end"}]
  BY DEF RoutesInv, Routes!TypeOK
<1>6. /\ copy' = [copy EXCEPT ![w] = copy[w]] /\ copy[w] \in Routes!CursorStates
      /\ queue' = [queue EXCEPT ![w] = queue[w]] 
      /\ queue[w] \in [edits : SUBSET Routes!Items, found : Seq(Routes!Items)]
      /\ goal' = [goal EXCEPT ![w] = goal[w]]
      /\ goal[w] \in [what : {"none", "loop", "continue", "finish"}, f : Routes!Forwards]
      /\ pc'[w] = "load" /\ queue'[w] = queue[w] /\ goal'[w] = goal[w]
  BY <1>1, <1>5
<1>7. AtWork(w)'
  <2>1. AtWork(w) /\ pc[w] = "idle"
    BY <1>2, HandlerRunsAssumption DEF ClaimJob, RoutesInv, AtWork
  <2> QED
    BY <1>4, <1>6, <2>1 DEF AtWork
<1> QED
  BY <1>1, <1>3, <1>4, <1>6, <1>7, WorkerKeeps

\* A later boundary leaves a route that was activated before in order.
LEMMA LaterBoundary ==
  ASSUME NEW c, RouteOK(c, live, boundary), NEW bounds,
         bounds[1] = boundary[1], c.act # 0 => bounds[1] <= bounds[c.act]
  PROVE  RouteOK(c, live, bounds)
BY DEF RouteOK

\* The operator activates the route (activate_route).
LEMMA RoutesActivate ==
  ASSUME RoutesInv, Routes!TelegramRoutesAssumption, Routes!ActivateRoute
  PROVE  RoutesInv'
<1> USE DEF Routes!channel, Routes!row, Routes!rows, Routes!locals
<1>1. /\ QueueInv /\ Routes!TypeOK /\ boundary[1] <= posted /\ RouteOK(cs, live, boundary)
      /\ MaxActs \in Nat \ {0} /\ MaxPosts \in Nat /\ Routes!Unknown = -1
  BY RoutesConstants DEF RoutesInv
<1>2. /\ cs.act \in 0..MaxActs /\ posted \in 0..MaxPosts
      /\ boundary \in [1..MaxActs -> 0..MaxPosts]
  BY <1>1 DEF Routes!TypeOK, Routes!CursorStates
<1>3. /\ cs.act < MaxActs
      /\ cs' = [Routes!NotInitialized EXCEPT !.status = "initializing", !.act = cs.act + 1]
      /\ paused' = FALSE
      /\ boundary' = [boundary EXCEPT ![cs.act + 1] = posted]
      /\ UNCHANGED <<posted, ver, due, live, edits, others, pc, copy, queue, goal, gaveUp>>
  BY DEF Routes!ActivateRoute
<1>4. QueueInv' /\ JobsStay /\ cur' = cur
  <2>1. PICK j : Routes!EnqueueJobOnce(j)
    BY DEF Routes!ActivateRoute
  <2> QED
    BY <1>1, <2>1, OnceStays DEF Routes!EnqueueJobOnce
<1>5. /\ cs'.status = "initializing" /\ cs'.act = cs.act + 1 /\ cs'.start = -1
      /\ cs'.fwd = Routes!NoForward /\ cs' \in Routes!CursorStates
  <2>1. /\ Routes!NotInitialized \in Routes!CursorStates
        /\ Routes!NotInitialized.start = -1
        /\ Routes!NotInitialized.fwd = Routes!NoForward
    BY <1>1, NotInitializedIsState DEF Routes!NotInitialized
  <2>2. cs.act + 1 \in 0..MaxActs
    BY <1>1, <1>2, <1>3
  <2> QED
    BY <1>3, <2>1, <2>2 DEF Routes!CursorStates
<1>6. /\ boundary' \in [1..MaxActs -> 0..MaxPosts] /\ boundary'[cs.act + 1] = posted
      /\ \A a \in 1..MaxActs : a # cs.act + 1 => boundary'[a] = boundary[a]
      /\ cs.act + 1 \in 1..MaxActs /\ 1 \in 1..MaxActs
  BY <1>1, <1>2, <1>3
<1>7. boundary'[1] <= posted' /\ boundary'[1] <= boundary'[cs.act + 1]
  BY <1>1, <1>2, <1>3, <1>6
<1>8. cs.act # 0 => boundary'[1] = boundary[1]
  BY <1>2, <1>6
<1>9. RouteOK(cs', live', boundary')
  BY <1>1, <1>5, <1>7 DEF RouteOK, ForwardOK, Routes!NoForward
<1>10. Routes!TypeOK'
  <2>1. Routes!QueueTypeOK'
    BY <1>4 DEF QueueInv, QueueTypeOK, Routes!QueueTypeOK, JobStatuses, Routes!JobStatuses
  <2> QED
    BY <1>1, <1>3, <1>5, <1>6, <2>1 DEF Routes!TypeOK
<1>11. \A m \in Routes!Messages :
         live'[m] # Routes!Unknown => boundary'[1] < m \/ Backfilled'
  <2>1. CASE cs.act = 0
    BY <1>3, <2>1 DEF RoutesInv
  <2>2. CASE cs.act # 0
    BY <1>3, <1>4, <1>8, <2>2, BackfilledStays DEF RoutesInv
  <2> QED
    BY <2>1, <2>2
<1>12. cs'.act # 0
  BY <1>2, <1>5
<1>13. ASSUME NEW x \in Workers PROVE AtWork(x)'
  <2>1. AtWork(x) /\ (cs.act = 0 => pc[x] \in {"idle", "load"})
    BY DEF RoutesInv
  <2>2. UNCHANGED <<pc, cur, copy, queue, goal, live>>
    BY <1>3, <1>4
  <2>3. CASE pc[x] \in {"idle", "load"}
    BY <2>1, <2>2, <2>3 DEF AtWork
  <2>4. CASE pc[x] \notin {"idle", "load"}
    <3>1. boundary'[1] = boundary[1]
      BY <1>8, <2>1, <2>4
    <3>2. ASSUME pc[x] \in {"scan", "fetch", "capture"}
          PROVE  RouteOK(copy[x], live, boundary')
      <4>1. RouteOK(copy[x], live, boundary) /\ copy[x].act \in 0..MaxActs
        BY <3>2, <2>1 DEF AtWork, RouteOK, Routes!CursorStates
      <4>2. copy[x].act # 0 => boundary[1] <= boundary[copy[x].act]
        BY <4>1 DEF RouteOK
      <4>3. copy[x].act # 0 => boundary'[1] <= boundary'[copy[x].act]
        <5>1. CASE copy[x].act = cs.act + 1
          BY <1>7, <5>1
        <5>2. CASE copy[x].act # cs.act + 1 /\ copy[x].act # 0
          <6>1. copy[x].act \in 1..MaxActs
            BY <1>1, <4>1, <5>2
          <6>2. boundary'[copy[x].act] = boundary[copy[x].act]
            BY <1>6, <5>2, <6>1
          <6> QED
            BY <3>1, <4>2, <5>2, <6>2
        <5> QED
          BY <5>1, <5>2
      <4> QED
        BY <3>1, <4>1, <4>3, LaterBoundary
    <3> QED
      BY <2>1, <2>2, <3>1, <3>2 DEF AtWork
  <2> QED
    BY <2>3, <2>4
<1> QED
  BY <1>4, <1>7, <1>9, <1>10, <1>11, <1>12, <1>13 DEF RoutesInv

\* A handler loads the row (its first checks passed).
LEMMA RoutesLoad ==
  ASSUME RoutesInv, Routes!TelegramRoutesAssumption, NEW w \in Workers, Routes!Load(w)
  PROVE  RoutesInv'
<1> USE DEF Routes!channel, Routes!row, Routes!rows
<1> DEFINE s == IF Routes!Kind(w) = "init" /\ cs.start = Routes!Unknown THEN "scan" ELSE "fetch"
<1>1. /\ pc[w] = "load" /\ Routes!Ready(w)
      /\ pc' = [pc EXCEPT ![w] = s] /\ copy' = [copy EXCEPT ![w] = cs]
      /\ UNCHANGED <<queue, goal, posted, ver, paused, boundary, live, edits, others>>
      /\ UNCHANGED <<cs, due, gaveUp>>
  BY DEF Routes!Load
<1>2. UNCHANGED queueVars
  BY DEF Routes!Load, Routes!queueVars, Routes!jobVars, queueVars, jobVars
<1>3. /\ QueueInv /\ gaveUp \in BOOLEAN
      /\ due \in 0..MaxPolls /\ RouteOK(cs, live, boundary)
      /\ live \in [Routes!Messages -> -1..MaxVersion]
      /\ edits \subseteq Routes!Messages \X (0..MaxVersion) /\ others \subseteq Jobs
      /\ cur[w] \in Jobs
  BY <1>1 DEF RoutesInv, Routes!TypeOK, QueueInv, QueueTypeOK, AtWork
<1>4. QueueInv' /\ JobsStay /\ \A x \in Workers \ {w} : cur'[x] = cur[x]
  BY <1>2, <1>3, QueueStepStays DEF QueueStep, queueVars
<1>5. cs.act # 0 /\ (cs.start = Routes!Unknown => s = "scan")
  <2>1. CASE Routes!Kind(w) = "init"
    <3>1. cs.act = cur[w].n /\ cur[w].n \in 1..MaxActs
      BY <1>1, <1>3, <2>1 DEF Routes!Ready, Routes!Kind, Routes!TelegramRoutesAssumption
    <3> QED
      BY <2>1, <3>1, RoutesConstants
  <2>2. CASE Routes!Kind(w) # "init"
    BY <1>1, <1>3, <2>2 DEF Routes!Ready, RouteOK
  <2> QED
    BY <2>1, <2>2
<1>6. /\ copy \in [Workers -> Routes!CursorStates]
      /\ queue \in [Workers -> [edits : SUBSET Routes!Items, found : Seq(Routes!Items)]]
      /\ goal \in [Workers -> [what : {"none", "loop", "continue", "finish"},
                               f : Routes!Forwards]]
      /\ pc \in [Workers -> {"idle", "load", "scan", "fetch", "capture", "end"}]
  BY DEF RoutesInv, Routes!TypeOK
<1>7. /\ cs \in Routes!CursorStates /\ s \in {"scan", "fetch"}
      /\ queue' = [queue EXCEPT ![w] = queue[w]] 
      /\ queue[w] \in [edits : SUBSET Routes!Items, found : Seq(Routes!Items)]
      /\ goal' = [goal EXCEPT ![w] = goal[w]]
      /\ goal[w] \in [what : {"none", "loop", "continue", "finish"}, f : Routes!Forwards]
      /\ pc'[w] = s /\ copy'[w] = cs /\ cur'[w] = cur[w]
      /\ queue'[w] = queue[w] /\ goal'[w] = goal[w]
  BY <1>1, <1>2, <1>3, <1>6 DEF queueVars, RouteOK
<1>8. s = "scan" => cs.start = Routes!Unknown
  OBVIOUS
<1> HIDE DEF s
<1>9. AtWork(w)'
  <2>1. AtWork(w)
    BY DEF RoutesInv
  <2> QED
    BY <1>1, <1>3, <1>5, <1>7, <1>8, <2>1 DEF AtWork
<1>10. /\ live' \in [Routes!Messages -> -1..MaxVersion] /\ gaveUp' \in BOOLEAN
       /\ edits' \subseteq Routes!Messages \X (0..MaxVersion) /\ others' \subseteq Jobs
       /\ due' \in 0..MaxPolls /\ RouteOK(cs', live', boundary) /\ cs'.act # 0
       /\ \A m \in Routes!Messages : live[m] # Routes!Unknown => live'[m] # Routes!Unknown
       /\ \A m \in Routes!Messages : live'[m] # Routes!Unknown =>
            live[m] # Routes!Unknown \/ boundary[1] < m \/ Backfilled
  BY <1>1, <1>3, <1>5
<1> QED
  BY <1>1, <1>4, <1>7, <1>9, <1>10, WorkerKeeps

\* A handler knows what it is to capture.
LEMMA FetchKeeps ==
  ASSUME RoutesInv, Routes!TelegramRoutesAssumption, NEW w \in Workers, pc[w] = "fetch",
         pc' = [pc EXCEPT ![w] = "capture"],
         NEW q \in [edits : SUBSET Routes!Items, found : Seq(Routes!Items)],
         queue' = [queue EXCEPT ![w] = q],
         NEW g \in [what : {"none", "loop", "continue", "finish"}, f : Routes!Forwards],
         goal' = [goal EXCEPT ![w] = g],
         UNCHANGED <<cs, due, posted, ver, paused, boundary, live, edits, others, copy,
                     gaveUp, queueVars>>,
         InARow(q.found, copy[w], boundary[1]),
         GoalOK(g.f, q.found, copy[w], boundary[1]),
         \A e \in q.edits : e.kind = "source_edit",
         g.what # "continue" => g.f = Routes!NoForward,
         \A i \in 1..Len(q.found) : q.found[i].kind = "backfill" => cur[w].kind = "backfill"
  PROVE  RoutesInv'
<1>1. /\ QueueInv /\ gaveUp \in BOOLEAN
      /\ due \in 0..MaxPolls /\ RouteOK(cs, live, boundary)
      /\ live \in [Routes!Messages -> -1..MaxVersion]
      /\ edits \subseteq Routes!Messages \X (0..MaxVersion) /\ others \subseteq Jobs
  BY DEF RoutesInv, Routes!TypeOK, QueueInv, QueueTypeOK
<1>2. QueueInv' /\ JobsStay /\ \A x \in Workers \ {w} : cur'[x] = cur[x]
  BY <1>1, QueueStepStays DEF QueueStep, queueVars
<1>3. /\ copy \in [Workers -> Routes!CursorStates]
      /\ queue \in [Workers -> [edits : SUBSET Routes!Items, found : Seq(Routes!Items)]]
      /\ goal \in [Workers -> [what : {"none", "loop", "continue", "finish"},
                               f : Routes!Forwards]]
      /\ pc \in [Workers -> {"idle", "load", "scan", "fetch", "capture", "end"}]
  BY DEF RoutesInv, Routes!TypeOK
<1>4. /\ copy' = [copy EXCEPT ![w] = copy[w]] /\ copy[w] \in Routes!CursorStates
      /\ pc'[w] = "capture" /\ copy'[w] = copy[w] /\ cur'[w] = cur[w]
      /\ queue'[w] = q /\ goal'[w] = g
  BY <1>3 DEF queueVars
<1>5. /\ AtWork(w)
      /\ cs.act = 0 => pc[w] \in {"idle", "load"}
  BY DEF RoutesInv
<1>6. RouteOK(copy'[w], live', boundary')
  BY <1>4, <1>5 DEF AtWork
<1>7. AtWork(w)'
  BY <1>4, <1>5, <1>6 DEF AtWork
<1>8. /\ live' \in [Routes!Messages -> -1..MaxVersion] /\ gaveUp' \in BOOLEAN
      /\ edits' \subseteq Routes!Messages \X (0..MaxVersion) /\ others' \subseteq Jobs
      /\ due' \in 0..MaxPolls /\ RouteOK(cs', live', boundary) /\ cs'.act # 0
      /\ \A m \in Routes!Messages : live[m] # Routes!Unknown => live'[m] # Routes!Unknown
      /\ \A m \in Routes!Messages : live'[m] # Routes!Unknown =>
           live[m] # Routes!Unknown \/ boundary[1] < m \/ Backfilled
  BY <1>1, <1>5
<1> QED
  BY <1>2, <1>4, <1>7, <1>8, WorkerKeeps

\* ... of a forward step, with or without the edits of the source.
LEMMA ForwardFetchKeeps ==
  ASSUME RoutesInv, Routes!TelegramRoutesAssumption, NEW w \in Workers,
         Routes!FetchCatchUp(w) \/ Routes!FetchPoll(w)
  PROVE  RoutesInv'
<1> USE DEF Routes!channel, Routes!row, Routes!rows
<1>1. /\ pc[w] = "fetch" /\ pc' = [pc EXCEPT ![w] = "capture"]
      /\ UNCHANGED <<cs, due, posted, ver, paused, boundary, live, edits, others, copy,
                     gaveUp, queueVars>>
  BY DEF Routes!FetchCatchUp, Routes!FetchPoll, Routes!queueVars, Routes!jobVars, queueVars,
         jobVars
<1>2. /\ Routes!TypeOK /\ boundary[1] <= posted /\ AtWork(w)
  BY DEF RoutesInv
<1>3. /\ posted \in 0..MaxPosts /\ ver \in [Routes!Messages -> 0..MaxVersion]
      /\ boundary \in [1..MaxActs -> 0..MaxPosts]
      /\ queue \in [Workers -> [edits : SUBSET Routes!Items, found : Seq(Routes!Items)]]
      /\ goal \in [Workers -> [what : {"none", "loop", "continue", "finish"},
                               f : Routes!Forwards]]
  BY <1>2 DEF Routes!TypeOK
<1>4. RouteOK(copy[w], live, boundary) /\ copy[w].start # Routes!Unknown
  BY <1>1, <1>2 DEF AtWork
<1>5. PICK step : step = Routes!ForwardStep(Routes!ForwardFrom(copy[w]))
  OBVIOUS
<1>6. PICK found : found = Routes!Envelopes("live", step.from, step.to)
  OBVIOUS
<1>7. /\ step.next \in Routes!Forwards /\ found \in Seq(Routes!Items)
      /\ InARow(found, copy[w], boundary[1])
      /\ GoalOK(step.next, found, copy[w], boundary[1])
      /\ \A i \in 1..Len(found) : found[i].kind = "live"
  BY <1>2, <1>3, <1>4, <1>5, <1>6, ForwardStepOK
<1>8. ASSUME NEW E \in SUBSET Routes!Items, \A e \in E : e.kind = "source_edit",
             NEW a \in {"none", "loop", "continue", "finish"},
             a # "continue" => step.next = Routes!NoForward,
             queue' = [queue EXCEPT ![w] = [edits |-> E, found |-> found]],
             goal' = [goal EXCEPT ![w] = [what |-> a, f |-> step.next]]
      PROVE  RoutesInv'
  <2>1. PICK q : q = [edits |-> E, found |-> found]
    OBVIOUS
  <2>2. PICK g : g = [what |-> a, f |-> step.next]
    OBVIOUS
  <2>3. /\ q \in [edits : SUBSET Routes!Items, found : Seq(Routes!Items)]
        /\ g \in [what : {"none", "loop", "continue", "finish"}, f : Routes!Forwards]
        /\ queue' = [queue EXCEPT ![w] = q] /\ goal' = [goal EXCEPT ![w] = g]
        /\ q.edits = E /\ q.found = found /\ g.what = a /\ g.f = step.next
    BY <1>7, <1>8, <2>1, <2>2
  <2> QED
    <3>1. /\ InARow(q.found, copy[w], boundary[1])
          /\ GoalOK(g.f, q.found, copy[w], boundary[1])
          /\ \A e \in q.edits : e.kind = "source_edit"
          /\ g.what # "continue" => g.f = Routes!NoForward
          /\ \A i \in 1..Len(q.found) :
               q.found[i].kind = "backfill" => cur[w].kind = "backfill"
      BY <1>7, <1>8, <2>3
    <3> QED
      BY <1>1, <2>3, <3>1, FetchKeeps
<1>9. CASE Routes!FetchCatchUp(w)
  <2>1. PICK a \in {"none", "loop", "continue", "finish"} :
          /\ a # "continue" => step.next = Routes!NoForward
          /\ goal' = [goal EXCEPT ![w] = [what |-> a, f |-> step.next]]
    <3>1. goal' = [goal EXCEPT ![w] =
                     [what |-> IF step.next # Routes!NoForward THEN "continue"
                               ELSE IF found = <<>> THEN "finish" ELSE "loop",
                      f |-> step.next]]
      BY <1>5, <1>6, <1>9 DEF Routes!FetchCatchUp
    <3> QED
      BY <3>1
  <2>2. queue' = [queue EXCEPT ![w].found = found]
    BY <1>5, <1>6, <1>9 DEF Routes!FetchCatchUp
  <2>3. queue' = [queue EXCEPT ![w] = [edits |-> queue[w].edits, found |-> found]]
    <3>1. [queue[w] EXCEPT !.found = found] = [edits |-> queue[w].edits, found |-> found]
      BY <1>3
    <3>2. queue' = [queue EXCEPT ![w] = [queue[w] EXCEPT !.found = found]]
      BY <1>3, <2>2
    <3> QED
      BY <3>1, <3>2
  <2>4. queue[w].edits \in SUBSET Routes!Items /\ \A e \in queue[w].edits : e.kind = "source_edit"
    BY <1>2, <1>3 DEF AtWork
  <2> QED
    BY <1>8, <2>1, <2>3, <2>4
<1>10. CASE Routes!FetchPoll(w)
  <2>1. PICK a \in {"none", "loop", "continue", "finish"} :
          /\ a # "continue" => step.next = Routes!NoForward
          /\ goal' = [goal EXCEPT ![w] = [what |-> a, f |-> step.next]]
    <3>1. goal' = [goal EXCEPT ![w] =
                     [what |-> IF step.next # Routes!NoForward THEN "continue" ELSE "finish",
                      f |-> step.next]]
      BY <1>5, <1>6, <1>10 DEF Routes!FetchPoll
    <3> QED
      BY <3>1
  <2>2. PICK E : E = IF found = <<>> /\ step.next # Routes!NoForward THEN {}
                     ELSE Routes!SourceEdits(copy[w])
    OBVIOUS
  <2>3. queue' = [queue EXCEPT ![w].edits = E, ![w].found = found]
    BY <1>5, <1>6, <1>10, <2>2 DEF Routes!FetchPoll
  <2>4. queue' = [queue EXCEPT ![w] = [edits |-> E, found |-> found]]
    <3>1. [queue[w] EXCEPT !.edits = E] = [edits |-> E, found |-> queue[w].found]
      BY <1>3
    <3>2. queue' = [queue EXCEPT ![w] = [[queue[w] EXCEPT !.edits = E] EXCEPT !.found = found]]
      BY <1>3, <2>3
    <3>3. ASSUME NEW r, r = [edits |-> E, found |-> queue[w].found]
          PROVE  [r EXCEPT !.found = found] = [edits |-> E, found |-> found]
      BY <3>3
    <3> QED
      BY <3>1, <3>2, <3>3
  <2>5. \A m \in 1..posted : /\ Routes!Item("source_edit", m) \in Routes!Items
                             /\ Routes!Item("source_edit", m).kind = "source_edit"
    <3>1. \A m \in 1..posted : m \in Routes!Messages /\ ver[m] \in 0..MaxVersion
      BY <1>3, RoutesConstants DEF Routes!Messages
    <3> QED
      BY <3>1 DEF Routes!Item, Routes!Items
  <2>6. E \in SUBSET Routes!Items /\ \A e \in E : e.kind = "source_edit"
    BY <2>2, <2>5 DEF Routes!SourceEdits
  <2> QED
    BY <1>8, <2>1, <2>4, <2>6
<1> QED
  BY <1>9, <1>10

\* ... of a backfill or a dry run.
LEMMA OtherFetchKeeps ==
  ASSUME RoutesInv, Routes!TelegramRoutesAssumption, NEW w \in Workers, Routes!FetchOther(w)
  PROVE  RoutesInv'
<1> USE DEF Routes!channel, Routes!row, Routes!rows
<1>1. /\ pc[w] = "fetch" /\ pc' = [pc EXCEPT ![w] = "capture"]
      /\ UNCHANGED <<cs, due, posted, ver, paused, boundary, live, edits, others, copy,
                     gaveUp, queueVars>>
      /\ goal' = goal
      /\ cur[w].kind \in {"backfill", "dry"}
      /\ cur[w].kind = "dry" => posted > 0
  BY DEF Routes!FetchOther, Routes!Kind, Routes!queueVars, Routes!jobVars, queueVars, jobVars
<1>2. /\ Routes!TypeOK /\ boundary[1] <= posted /\ AtWork(w)
  BY DEF RoutesInv
<1>3. /\ posted \in 0..MaxPosts /\ ver \in [Routes!Messages -> 0..MaxVersion]
      /\ queue \in [Workers -> [edits : SUBSET Routes!Items, found : Seq(Routes!Items)]]
      /\ goal \in [Workers -> [what : {"none", "loop", "continue", "finish"},
                               f : Routes!Forwards]]
      /\ copy[w] \in Routes!CursorStates /\ copy[w].start # Routes!Unknown
  BY <1>1, <1>2 DEF Routes!TypeOK, AtWork
<1>4. copy[w].cursor \in -1..MaxPosts /\ MaxPosts \in Nat /\ Window \in Nat \ {0}
  BY <1>3, RoutesConstants DEF Routes!CursorStates
<1>5. PICK found : found =
        IF cur[w].kind = "dry" THEN Routes!Envelopes("dry", posted - 1, posted)
        ELSE Routes!Envelopes("backfill",
               IF copy[w].cursor > Window THEN copy[w].cursor - 1 - Window ELSE 0,
               IF copy[w].cursor > 0 THEN copy[w].cursor - 1 ELSE 0)
  OBVIOUS
<1>6. PICK from \in Nat, to \in Nat :
        to <= MaxPosts /\ found = Routes!Envelopes(cur[w].kind, from, to)
  <2>1. CASE cur[w].kind = "dry"
    <3>1. posted - 1 \in Nat /\ posted \in Nat /\ posted <= MaxPosts
      BY <1>1, <1>3, <1>4, <2>1
    <3> QED
      BY <1>5, <2>1, <3>1
  <2>2. CASE cur[w].kind = "backfill"
    <3>1. PICK a, b :
            /\ a = IF copy[w].cursor > Window THEN copy[w].cursor - 1 - Window ELSE 0
            /\ b = IF copy[w].cursor > 0 THEN copy[w].cursor - 1 ELSE 0
      OBVIOUS
    <3>2. a \in Nat /\ b \in Nat /\ b <= MaxPosts
      BY <1>4, <3>1
    <3>3. found = Routes!Envelopes("backfill", a, b)
      BY <1>5, <2>2, <3>1
    <3> QED
      BY <2>2, <3>2, <3>3
  <2> QED
    BY <1>1, <2>1, <2>2
<1>7. cur[w].kind \in {"live", "backfill", "dry"}
  BY <1>1
<1>8. FoundOK(found, cur[w].kind, from, to)
  BY <1>3, <1>6, <1>7, EnvelopesAre
<1>9. found \in Seq(Routes!Items) /\ \A i \in 1..Len(found) : found[i].kind = cur[w].kind
  BY <1>8 DEF FoundOK
<1>10. InARow(found, copy[w], boundary[1])
  <2>1. \A i \in 1..Len(found) : 1 \in 1..Len(found)
    BY <1>9
  <2> QED
    BY <1>1, <1>9, <2>1 DEF InARow
<1>11. goal[w].f = Routes!NoForward /\ GoalOK(goal[w].f, found, copy[w], boundary[1])
  BY <1>1, <1>2 DEF AtWork, GoalOK, ForwardOK, Routes!NoForward
<1>12. queue' = [queue EXCEPT ![w] = [edits |-> queue[w].edits, found |-> found]]
  <2>1. queue' = [queue EXCEPT ![w].found = found]
    BY <1>5 DEF Routes!FetchOther, Routes!Kind
  <2>2. [queue[w] EXCEPT !.found = found] = [edits |-> queue[w].edits, found |-> found]
    BY <1>3
  <2>3. queue' = [queue EXCEPT ![w] = [queue[w] EXCEPT !.found = found]]
    BY <1>3, <2>1
  <2> QED
    BY <2>2, <2>3
<1>13. PICK q, g : q = [edits |-> queue[w].edits, found |-> found] /\ g = goal[w]
  OBVIOUS
<1>14. /\ q \in [edits : SUBSET Routes!Items, found : Seq(Routes!Items)]
       /\ q.found = found /\ q.edits = queue[w].edits
       /\ queue' = [queue EXCEPT ![w] = q] /\ goal' = [goal EXCEPT ![w] = g]
       /\ g \in [what : {"none", "loop", "continue", "finish"}, f : Routes!Forwards]
  <2>1. goal' = [goal EXCEPT ![w] = goal[w]]
    BY <1>1, <1>3
  <2> QED
    BY <1>3, <1>9, <1>12, <1>13, <2>1
<1>15. /\ InARow(q.found, copy[w], boundary[1])
       /\ GoalOK(g.f, q.found, copy[w], boundary[1])
       /\ \A e \in q.edits : e.kind = "source_edit"
       /\ g.what # "continue" => g.f = Routes!NoForward
       /\ \A i \in 1..Len(q.found) :
            q.found[i].kind = "backfill" => cur[w].kind = "backfill"
  BY <1>2, <1>9, <1>10, <1>11, <1>13, <1>14 DEF AtWork
<1> QED
  <2>1. /\ pc[w] = "fetch" /\ pc' = [pc EXCEPT ![w] = "capture"]
        /\ UNCHANGED <<cs, due, posted, ver, paused, boundary, live, edits, others, copy,
                       gaveUp, queueVars>>
    BY <1>1
  <2> QED
    BY <1>14, <1>15, <2>1, FetchKeeps

\* What a worker has captured it may keep as progress; the row is written with
\* it (Save), and stays in order.
LEMMA ProgressOK ==
  ASSUME Routes!TelegramRoutesAssumption,
         NEW c, RouteOK(c, live, boundary), NEW f \in Routes!Forwards,
         ForwardOK(f, c, boundary[1]), f.phase = "capture" => f.at <= c.cursor,
         c.start # Routes!Unknown
  PROVE  /\ RouteOK([c EXCEPT !.fwd = f], live, boundary)
         /\ RouteOK([c EXCEPT !.fwd = f, !.status = "ready"], live, boundary)
         /\ [c EXCEPT !.fwd = f].act = c.act /\ [c EXCEPT !.fwd = f].start = c.start
         /\ [c EXCEPT !.fwd = f, !.status = "ready"].act = c.act
<1>1. c \in Routes!CursorStates
  BY DEF RouteOK
<1>2. ASSUME NEW n, n = [c EXCEPT !.fwd = f] \/ n = [c EXCEPT !.fwd = f, !.status = "ready"]
      PROVE  RouteOK(n, live, boundary) /\ n.act = c.act /\ n.start = c.start
  <2>1. n \in Routes!CursorStates
    BY <1>1, <1>2 DEF Routes!CursorStates
  <2>2. /\ n.act = c.act /\ n.start = c.start /\ n.cursor = c.cursor /\ n.fwd = f
    BY <1>1, <1>2 DEF Routes!CursorStates
  <2>3. ForwardOK(n.fwd, n, boundary[1])
    BY <2>2 DEF ForwardOK
  <2> QED
    BY <2>1, <2>2, <2>3 DEF RouteOK
<1> QED
  BY <1>2

\* A write of a state in order leaves the row in order.
LEMMA SaveOK ==
  ASSUME RouteOK(cs, live', boundary), NEW w, NEW new, RouteOK(new, live', boundary),
         new.act # 0, cs.act # 0, Routes!Save(w, new)
  PROVE  RouteOK(cs', live', boundary) /\ cs'.act # 0
BY DEF Routes!Save

\* Nothing is left to capture: what is to be kept is in order.
LEMMA CapturedGoal ==
  ASSUME RoutesInv, Routes!TelegramRoutesAssumption, NEW w \in Workers, Routes!Captured(w)
  PROVE  /\ RouteOK(copy[w], live, boundary) /\ copy[w].start # Routes!Unknown
         /\ copy[w].act # 0 /\ cs.act # 0
         /\ goal[w].f \in Routes!Forwards /\ ForwardOK(goal[w].f, copy[w], boundary[1])
         /\ goal[w].f.phase = "capture" => goal[w].f.at <= copy[w].cursor
         /\ RouteOK(cs, live, boundary)
<1>1. AtWork(w) /\ pc[w] = "capture" /\ queue[w].found = <<>>
  BY DEF RoutesInv, Routes!Captured, Routes!NoItems
<1>2. goal[w].f \in Routes!Forwards
  BY DEF RoutesInv, Routes!TypeOK
<1>3. GoalOK(goal[w].f, <<>>, copy[w], boundary[1])
  BY <1>1 DEF AtWork
<1>4. cs.act # 0 /\ RouteOK(cs, live, boundary)
  BY <1>1 DEF RoutesInv
<1> QED
  BY <1>1, <1>2, <1>3, <1>4 DEF AtWork, GoalOK

\* A handler writes the row and ends.
LEMMA WriteAndLeave ==
  ASSUME RoutesInv, Routes!TelegramRoutesAssumption, NEW w \in Workers, pc[w] # "idle",
         \/ \E r \in Results : Routes!Leave(w, r)
         \/ \E j : Routes!EnqueueAndLeave(w, j),
         NEW new, RouteOK(new, live, boundary), new.act # 0, cs.act # 0, Routes!Save(w, new),
         UNCHANGED <<posted, ver, paused, boundary, live, edits, others, gaveUp>>,
         due' \in 0..MaxPolls
  PROVE  RoutesInv'
<1>1. /\ QueueInv' /\ JobsStay /\ Routes!Forget(w)
      /\ \A x \in Workers \ {w} : cur'[x] = cur[x]
  BY LeavingIsStep
<1>2. RouteOK(cs', live, boundary) /\ cs'.act # 0
  <2>1. RouteOK(cs, live', boundary) /\ RouteOK(new, live', boundary)
    BY DEF RoutesInv
  <2> QED
    BY <2>1, SaveOK
<1>3. gaveUp' \in BOOLEAN
  BY DEF RoutesInv, Routes!TypeOK
<1> QED
  BY <1>1, <1>2, <1>3, LeavingKeeps

\* The ends of a run that has captured what it found.
LEMMA RoutesEnd ==
  ASSUME RoutesInv, Routes!TelegramRoutesAssumption, NEW w \in Workers,
         \/ Routes!Continue(w) \/ Routes!CatchUpCycle(w)
         \/ Routes!FinishInitialization(w) \/ Routes!FinishPoll(w)
  PROVE  RoutesInv'
<1> USE DEF Routes!channel, Routes!row, Routes!rows
<1>1. Routes!Captured(w) /\ pc[w] # "idle"
  BY DEF Routes!Continue, Routes!CatchUpCycle, Routes!FinishInitialization,
         Routes!FinishPoll, Routes!Captured
<1>2. /\ RouteOK(copy[w], live, boundary) /\ copy[w].start # Routes!Unknown
      /\ copy[w].act # 0 /\ cs.act # 0
      /\ goal[w].f \in Routes!Forwards /\ ForwardOK(goal[w].f, copy[w], boundary[1])
      /\ goal[w].f.phase = "capture" => goal[w].f.at <= copy[w].cursor
  BY <1>1, CapturedGoal
<1>3. /\ Routes!NoForward \in Routes!Forwards /\ Routes!NoForward.phase = "none"
      /\ ForwardOK(Routes!NoForward, copy[w], boundary[1])
  BY NoForwardIsForward DEF ForwardOK, Routes!NoForward
<1>4. PICK c : c = copy[w]
  OBVIOUS
<1>12. ASSUME NEW f \in Routes!Forwards, ForwardOK(f, c, boundary[1]),
              f.phase = "capture" => f.at <= c.cursor
       PROVE  /\ RouteOK([c EXCEPT !.fwd = f], live, boundary)
              /\ [c EXCEPT !.fwd = f].act # 0
              /\ RouteOK([c EXCEPT !.fwd = f, !.status = "ready"], live, boundary)
              /\ [c EXCEPT !.fwd = f, !.status = "ready"].act # 0
  <2>1. RouteOK(c, live, boundary) /\ c.start # Routes!Unknown /\ c.act # 0
    BY <1>2, <1>4
  <2> QED
    BY <1>12, <2>1, ProgressOK
<1>5. /\ RouteOK([c EXCEPT !.fwd = goal[w].f], live, boundary)
      /\ [c EXCEPT !.fwd = goal[w].f].act # 0
  BY <1>2, <1>4, <1>12
<1>6. /\ RouteOK([c EXCEPT !.fwd = Routes!NoForward], live, boundary)
      /\ [c EXCEPT !.fwd = Routes!NoForward].act # 0
      /\ RouteOK([c EXCEPT !.fwd = Routes!NoForward, !.status = "ready"], live, boundary)
      /\ [c EXCEPT !.fwd = Routes!NoForward, !.status = "ready"].act # 0
  BY <1>3, <1>4, <1>12
<1>7. due \in 0..MaxPolls /\ MaxPolls \in Nat
  BY RoutesConstants DEF RoutesInv, Routes!TypeOK
<1>8. CASE Routes!Continue(w)
  <2>1. /\ Routes!Save(w, [c EXCEPT !.fwd = goal[w].f])
        /\ \E j : Routes!EnqueueAndLeave(w, j)
        /\ UNCHANGED <<posted, ver, paused, boundary, live, edits, others, gaveUp>>
        /\ due' = due
    BY <1>4, <1>8 DEF Routes!Continue
  <2> QED
    BY <1>1, <1>2, <1>5, <1>7, <2>1, WriteAndLeave
<1>9. CASE Routes!CatchUpCycle(w)
  <2>1. /\ Routes!Save(w, [c EXCEPT !.fwd = Routes!NoForward])
        /\ \E j : Routes!EnqueueAndLeave(w, j)
        /\ UNCHANGED <<posted, ver, paused, boundary, live, edits, others, gaveUp>>
        /\ due' = due
    BY <1>4, <1>9 DEF Routes!CatchUpCycle
  <2> QED
    BY <1>1, <1>2, <1>6, <1>7, <2>1, WriteAndLeave
<1>10. CASE Routes!FinishInitialization(w)
  <2>1. /\ Routes!Save(w, [c EXCEPT !.fwd = Routes!NoForward, !.status = "ready"])
        /\ \E r \in Results : Routes!Leave(w, r)
        /\ UNCHANGED <<posted, ver, paused, boundary, live, edits, others, gaveUp>>
        /\ due' = due + 1 /\ due < MaxPolls
    BY <1>4, <1>10 DEF Routes!FinishInitialization, Results
  <2>2. due' \in 0..MaxPolls
    BY <1>7, <2>1
  <2> QED
    BY <1>1, <1>2, <1>6, <2>1, <2>2, WriteAndLeave
<1>11. CASE Routes!FinishPoll(w)
  <2>1. /\ Routes!Save(w, [c EXCEPT !.fwd = Routes!NoForward])
        /\ \E r \in Results : Routes!Leave(w, r)
        /\ UNCHANGED <<posted, ver, paused, boundary, live, edits, others, gaveUp>>
        /\ due' = due + 1 /\ due < MaxPolls
    BY <1>4, <1>11 DEF Routes!FinishPoll, Results
  <2>2. due' \in 0..MaxPolls
    BY <1>7, <2>1
  <2> QED
    BY <1>1, <1>2, <1>6, <2>1, <2>2, WriteAndLeave
<1> QED
  BY <1>8, <1>9, <1>10, <1>11

\* A worker goes on with state c of the route, which it has written.
LEMMA WriteAndGoOn ==
  ASSUME RoutesInv, Routes!TelegramRoutesAssumption, NEW w \in Workers,
         NEW s \in {"fetch", "capture"}, pc' = [pc EXCEPT ![w] = s],
         NEW c, copy' = [copy EXCEPT ![w] = c], c.act # 0, c.start # Routes!Unknown,
         NEW q \in [edits : SUBSET Routes!Items, found : Seq(Routes!Items)],
         queue' = [queue EXCEPT ![w] = q],
         NEW g \in [what : {"none", "loop", "continue", "finish"}, f : Routes!Forwards],
         goal' = [goal EXCEPT ![w] = g],
         UNCHANGED <<posted, ver, paused, due, boundary, gaveUp, queueVars>>,
         live' \in [Routes!Messages -> -1..MaxVersion],
         edits' \subseteq Routes!Messages \X (0..MaxVersion), others' \subseteq Jobs,
         \A m \in Routes!Messages : live[m] # Routes!Unknown => live'[m] # Routes!Unknown,
         \A m \in Routes!Messages : live'[m] # Routes!Unknown =>
           live[m] # Routes!Unknown \/ boundary[1] < m \/ Backfilled,
         RouteOK(c, live', boundary), Routes!Save(w, c), cs.act # 0, pc[w] # "idle",
         \A e \in q.edits : e.kind = "source_edit",
         g.what # "continue" => g.f = Routes!NoForward,
         s # "capture" => g.what # "continue",
         s = "capture" =>
           /\ InARow(q.found, c, boundary[1])
           /\ GoalOK(g.f, q.found, c, boundary[1])
           /\ \A i \in 1..Len(q.found) :
                q.found[i].kind = "backfill" => cur[w].kind = "backfill"
  PROVE  RoutesInv'
<1>1. /\ QueueInv /\ gaveUp' \in BOOLEAN /\ due' \in 0..MaxPolls
      /\ AtWork(w) /\ cur[w] \in Jobs /\ RouteOK(cs, live, boundary)
  BY DEF RoutesInv, Routes!TypeOK, AtWork
<1>2. /\ QueueInv' /\ JobsStay /\ cur' = cur
      /\ \A x \in Workers \ {w} : cur'[x] = cur[x]
  BY <1>1, QueueStepStays DEF QueueStep, queueVars
<1>3. RouteOK(cs', live', boundary) /\ cs'.act # 0
  <2>1. RouteOK(cs, live', boundary)
    BY <1>1, RouteStays
  <2> QED
    BY <2>1, SaveOK
<1>4. /\ pc'[w] = s /\ copy'[w] = c /\ queue'[w] = q /\ goal'[w] = g
  BY DEF RoutesInv, Routes!TypeOK
<1>5. AtWork(w)'
  BY <1>1, <1>2, <1>4 DEF AtWork
<1>6. c \in Routes!CursorStates
  BY DEF RouteOK
<1> QED
  BY <1>1, <1>2, <1>3, <1>5, <1>6, WorkerKeeps

\* The catch-up goes round.
LEMMA RoutesLoop ==
  ASSUME RoutesInv, Routes!TelegramRoutesAssumption, NEW w \in Workers, Routes!Loop(w)
  PROVE  RoutesInv'
<1> USE DEF Routes!channel, Routes!row, Routes!rows
<1>1. /\ RouteOK(copy[w], live, boundary) /\ copy[w].start # Routes!Unknown
      /\ copy[w].act # 0 /\ cs.act # 0 /\ pc[w] = "capture" /\ goal[w].what = "loop"
  BY CapturedGoal DEF Routes!Loop, Routes!Captured
<1>2. /\ Routes!NoForward \in Routes!Forwards /\ Routes!NoForward.phase = "none"
      /\ ForwardOK(Routes!NoForward, copy[w], boundary[1])
  BY NoForwardIsForward DEF ForwardOK, Routes!NoForward
<1>3. PICK c : c = [copy[w] EXCEPT !.fwd = Routes!NoForward]
  OBVIOUS
<1>4. RouteOK(c, live, boundary) /\ c.act # 0 /\ c.start # Routes!Unknown
  BY <1>1, <1>2, <1>3, ProgressOK
<1>5. /\ Routes!Save(w, c) /\ copy' = [copy EXCEPT ![w] = c]
      /\ pc' = [pc EXCEPT ![w] = "fetch"]
      /\ UNCHANGED <<posted, ver, paused, due, boundary, gaveUp, queueVars>>
      /\ UNCHANGED <<live, edits, others, queue, goal>>
  BY <1>3 DEF Routes!Loop, Routes!queueVars, Routes!jobVars, queueVars, jobVars
<1>6. /\ queue \in [Workers -> [edits : SUBSET Routes!Items, found : Seq(Routes!Items)]]
      /\ goal \in [Workers -> [what : {"none", "loop", "continue", "finish"},
                               f : Routes!Forwards]]
      /\ live \in [Routes!Messages -> -1..MaxVersion]
      /\ edits \subseteq Routes!Messages \X (0..MaxVersion) /\ others \subseteq Jobs
      /\ AtWork(w)
  BY DEF RoutesInv, Routes!TypeOK
<1>7. PICK q, g : q = queue[w] /\ g = goal[w]
  OBVIOUS
<1>8. /\ q \in [edits : SUBSET Routes!Items, found : Seq(Routes!Items)]
      /\ queue' = [queue EXCEPT ![w] = q] /\ goal' = [goal EXCEPT ![w] = g]
      /\ g \in [what : {"none", "loop", "continue", "finish"}, f : Routes!Forwards]
      /\ \A e \in q.edits : e.kind = "source_edit"
      /\ g.what # "continue" => g.f = Routes!NoForward
      /\ g.what # "continue"
  BY <1>1, <1>5, <1>6, <1>7 DEF AtWork
<1>9. /\ live' \in [Routes!Messages -> -1..MaxVersion]
      /\ edits' \subseteq Routes!Messages \X (0..MaxVersion) /\ others' \subseteq Jobs
      /\ \A m \in Routes!Messages : live[m] # Routes!Unknown => live'[m] # Routes!Unknown
      /\ \A m \in Routes!Messages : live'[m] # Routes!Unknown =>
           live[m] # Routes!Unknown \/ boundary[1] < m \/ Backfilled
      /\ RouteOK(c, live', boundary)
  BY <1>4, <1>5, <1>6
<1>10. pc[w] # "idle" /\ "fetch" \in {"fetch", "capture"} /\ "fetch" # "capture"
  BY <1>1
<1> QED
  BY <1>1, <1>4, <1>5, <1>8, <1>9, <1>10, WriteAndGoOn

\* The boundary is looked for, and found (_scan_activation_pages).
LEMMA RoutesScan ==
  ASSUME RoutesInv, Routes!TelegramRoutesAssumption, NEW w \in Workers, Routes!Scan(w)
  PROVE  RoutesInv'
<1> USE DEF Routes!channel, Routes!row, Routes!rows
<1>1. PICK c, s, b, on :
        /\ c = copy[w]
        /\ s = IF c.scan = Routes!NoForward
               THEN [phase |-> "activation", base |-> 0, snap |-> posted, at |-> posted]
               ELSE c.scan
        /\ b = boundary[c.act]
        /\ on = [s EXCEPT !.at = s.at - Window]
  OBVIOUS
<1>2. /\ pc[w] = "scan" /\ AtWork(w) /\ cs.act # 0 /\ RouteOK(c, live, boundary)
      /\ c.act # 0 /\ c.start = Routes!Unknown
  BY <1>1 DEF RoutesInv, AtWork, Routes!Scan
<1>3. /\ posted \in 0..MaxPosts /\ ver \in [Routes!Messages -> 0..MaxVersion]
      /\ boundary \in [1..MaxActs -> 0..MaxPosts] /\ MaxPosts \in Nat
      /\ Window \in Nat \ {0} /\ due \in 0..MaxPolls /\ Routes!Unknown = -1
      /\ queue \in [Workers -> [edits : SUBSET Routes!Items, found : Seq(Routes!Items)]]
      /\ goal \in [Workers -> [what : {"none", "loop", "continue", "finish"},
                               f : Routes!Forwards]]
      /\ live \in [Routes!Messages -> -1..MaxVersion]
      /\ edits \subseteq Routes!Messages \X (0..MaxVersion) /\ others \subseteq Jobs
  BY RoutesConstants DEF RoutesInv, Routes!TypeOK
<1>4. /\ c \in Routes!CursorStates /\ c.fwd = Routes!NoForward /\ c.status # "ready"
      /\ boundary[1] <= boundary[c.act]
  BY <1>2 DEF RouteOK
<1>5. c.act \in 1..MaxActs /\ b \in 0..MaxPosts /\ boundary[1] \in 0..MaxPosts
  <2>1. c.act \in 1..MaxActs /\ 1 \in 1..MaxActs
    BY <1>2, <1>4, RoutesConstants DEF Routes!CursorStates
  <2> QED
    BY <1>1, <1>3, <2>1
<1>6. s \in Routes!Forwards
  <2>1. c.scan \in Routes!Forwards
    BY <1>4 DEF Routes!CursorStates
  <2>2. [phase |-> "activation", base |-> 0, snap |-> posted, at |-> posted] \in Routes!Forwards
    BY <1>3 DEF Routes!Forwards, Routes!Phases
  <2> QED
    BY <1>1, <2>1, <2>2
<1>7. s.at \in 0..MaxPosts
  BY <1>6 DEF Routes!Forwards
<1>8. CASE s.at - b >= Window
  <2>1. PICK new : new = [c EXCEPT !.status = "catching_up", !.scan = on]
    OBVIOUS
  <2>2. on \in Routes!Forwards
    <3>1. s.at - Window \in 0..MaxPosts
      BY <1>3, <1>5, <1>7, <1>8
    <3> QED
      BY <1>1, <1>6, <3>1 DEF Routes!Forwards
  <2>3. /\ new \in Routes!CursorStates /\ new.act = c.act /\ new.start = c.start
        /\ new.fwd = c.fwd /\ new.status = "catching_up" /\ new.cursor = c.cursor
    BY <1>4, <2>1, <2>2 DEF Routes!CursorStates
  <2>4. RouteOK(new, live, boundary) /\ new.act # 0
    BY <1>2, <1>4, <2>3 DEF RouteOK, ForwardOK, Routes!NoForward
  <2>5. /\ Routes!Save(w, new) /\ \E j : Routes!EnqueueAndLeave(w, j)
        /\ UNCHANGED <<posted, ver, paused, boundary, live, edits, others, gaveUp>>
        /\ due' = due
    <3>1. ~ (s.at - b < Window)
      BY <1>3, <1>5, <1>7, <1>8
    <3> QED
      BY <1>1, <2>1, <3>1 DEF Routes!Scan
  <2> QED
    BY <1>2, <1>3, <2>4, <2>5, WriteAndLeave
<1>9. CASE ~ (s.at - b >= Window)
  <2>1. PICK new, found : /\ new = Routes!Begun(c)
                          /\ found = Routes!Envelopes("live", b, s.at)
    OBVIOUS
  <2>2. /\ Routes!Save(w, new) /\ copy' = [copy EXCEPT ![w] = new]
        /\ queue' = [queue EXCEPT ![w].found = found]
        /\ goal' = [goal EXCEPT ![w] = [what |-> "loop", f |-> Routes!NoForward]]
        /\ pc' = [pc EXCEPT ![w] = "capture"]
        /\ UNCHANGED <<posted, ver, paused, due, boundary, gaveUp, queueVars>>
        /\ UNCHANGED <<live, edits, others>>
    BY <1>1, <1>9, <2>1 DEF Routes!Scan, Routes!queueVars, Routes!jobVars, queueVars, jobVars
  <2>3. /\ new \in Routes!CursorStates /\ new.act = c.act /\ new.start = b /\ new.cursor = b
        /\ new.fwd = c.fwd /\ new.status = "catching_up"
    <3>1. b \in -1..MaxPosts /\ Routes!NoForward \in Routes!Forwards
      BY <1>3, <1>5, NoForwardIsForward
    <3>2. new = [c EXCEPT !.status = "catching_up", !.start = b, !.cursor = b,
                          !.scan = Routes!NoForward]
      BY <1>1, <2>1 DEF Routes!Begun
    <3> QED
      BY <1>4, <3>1, <3>2 DEF Routes!CursorStates
  <2>4. RouteOK(new, live, boundary) /\ new.act # 0 /\ new.start # Routes!Unknown
    <3>1. \A m \in Routes!Messages : ~ (b < m /\ m <= b)
      BY <1>5 DEF Routes!Messages
    <3>2. new.start # Routes!Unknown /\ boundary[1] <= b /\ b <= b
      BY <1>1, <1>3, <1>4, <1>5, <2>3
    <3>3. ForwardOK(new.fwd, new, boundary[1]) /\ new.fwd.phase # "capture"
      BY <1>4, <2>3 DEF ForwardOK, Routes!NoForward
    <3> QED
      BY <1>1, <1>2, <1>4, <2>3, <3>1, <3>2, <3>3 DEF RouteOK
  <2>5. FoundOK(found, "live", b, s.at)
    <3>1. b \in Nat /\ s.at \in Nat /\ s.at <= MaxPosts /\ "live" \in {"live", "backfill", "dry"}
      BY <1>3, <1>5, <1>7
    <3> QED
      BY <1>3, <2>1, <3>1, EnvelopesAre
  <2>6. /\ found \in Seq(Routes!Items)
        /\ \A i \in 1..Len(found) : found[i].kind = "live" /\ found[i].m = b + i
    BY <2>5 DEF FoundOK
  <2>7. InARow(found, new, boundary[1])
    <3>1. /\ new.cursor \in Int /\ boundary[1] \in Int /\ b \in Int
          /\ boundary[1] <= b /\ b <= new.cursor
      BY <1>1, <1>4, <1>5, <2>3
    <3> QED
      BY <2>6, <3>1, RowOfMessages
  <2>8. PICK q, g : /\ q = [edits |-> queue[w].edits, found |-> found]
                    /\ g = [what |-> "loop", f |-> Routes!NoForward]
    OBVIOUS
  <2>9. queue' = [queue EXCEPT ![w] = q]
    <3>1. [queue[w] EXCEPT !.found = found] = [edits |-> queue[w].edits, found |-> found]
      BY <1>3
    <3>2. queue' = [queue EXCEPT ![w] = [queue[w] EXCEPT !.found = found]]
      BY <1>3, <2>2
    <3> QED
      BY <2>8, <3>1, <3>2
  <2>10. /\ q \in [edits : SUBSET Routes!Items, found : Seq(Routes!Items)]
         /\ g \in [what : {"none", "loop", "continue", "finish"}, f : Routes!Forwards]
         /\ goal' = [goal EXCEPT ![w] = g]
         /\ q.found = found /\ q.edits = queue[w].edits /\ g.what = "loop"
         /\ g.f = Routes!NoForward
    BY <1>3, <2>2, <2>6, <2>8, NoForwardIsForward
  <2>11. /\ \A e \in q.edits : e.kind = "source_edit"
         /\ g.what # "continue"
         /\ InARow(q.found, new, boundary[1])
         /\ GoalOK(g.f, q.found, new, boundary[1])
         /\ \A i \in 1..Len(q.found) :
              q.found[i].kind = "backfill" => cur[w].kind = "backfill"
    BY <1>2, <2>6, <2>7, <2>10 DEF AtWork, GoalOK, ForwardOK, Routes!NoForward
  <2>12. /\ live' \in [Routes!Messages -> -1..MaxVersion]
         /\ edits' \subseteq Routes!Messages \X (0..MaxVersion) /\ others' \subseteq Jobs
         /\ \A m \in Routes!Messages : live[m] # Routes!Unknown => live'[m] # Routes!Unknown
         /\ \A m \in Routes!Messages : live'[m] # Routes!Unknown =>
              live[m] # Routes!Unknown \/ boundary[1] < m \/ Backfilled
         /\ RouteOK(new, live', boundary)
    BY <1>3, <2>2, <2>4
  <2>13. pc[w] # "idle" /\ "capture" \in {"fetch", "capture"}
    BY <1>2
  <2>14. /\ new.act # 0 /\ new.start # Routes!Unknown /\ cs.act # 0
         /\ Routes!Save(w, new) /\ copy' = [copy EXCEPT ![w] = new]
         /\ pc' = [pc EXCEPT ![w] = "capture"]
         /\ UNCHANGED <<posted, ver, paused, due, boundary, gaveUp, queueVars>>
    BY <1>2, <2>2, <2>4
  <2> QED
    BY <2>9, <2>10, <2>11, <2>12, <2>13, <2>14, WriteAndGoOn
<1> QED
  BY <1>8, <1>9

\* What a dispatch changes of what was taken.
LEMMA DispatchTakes ==
  ASSUME RoutesInv, Routes!TelegramRoutesAssumption, NEW w \in Workers, cur[w] \in Jobs,
         NEW e \in Routes!Items, Routes!Dispatch(w, e),
         e.kind = "live" => boundary[1] < e.m,
         e.kind = "backfill" => cur[w].kind = "backfill"
  PROVE  /\ live' \in [Routes!Messages -> -1..MaxVersion]
         /\ edits' \subseteq Routes!Messages \X (0..MaxVersion) /\ others' \subseteq Jobs
         /\ \A m \in Routes!Messages : live[m] # Routes!Unknown => live'[m] # Routes!Unknown
         /\ \A m \in Routes!Messages : live'[m] # Routes!Unknown =>
              live[m] # Routes!Unknown \/ boundary[1] < m \/ Backfilled
         /\ e.kind = "live" => live'[e.m] # Routes!Unknown
<1>1. /\ live \in [Routes!Messages -> -1..MaxVersion]
      /\ edits \subseteq Routes!Messages \X (0..MaxVersion) /\ others \subseteq Jobs
      /\ Routes!Unknown = -1 /\ MaxVersion \in Nat
  BY RoutesConstants DEF RoutesInv, Routes!TypeOK
<1>2. e.m \in Routes!Messages /\ e.v \in 0..MaxVersion
  BY DEF Routes!Items
<1>3. e.v \in -1..MaxVersion /\ e.v # -1
  BY <1>1, <1>2
<1>4. edits' \subseteq Routes!Messages \X (0..MaxVersion) /\ others' \subseteq Jobs
  BY <1>1, <1>2 DEF Routes!Dispatch
<1>5. CASE live' = live
  <2>1. e.kind = "live" => live[e.m] # Routes!Unknown
    BY <1>1, <1>2, <1>3, <1>5 DEF Routes!Dispatch
  <2> QED
    BY <1>1, <1>4, <1>5, <2>1
<1>6. CASE live' # live
  <2>1. /\ e.kind \in {"live", "backfill"} /\ live[e.m] = Routes!Unknown
        /\ live' = [live EXCEPT ![e.m] = e.v]
    BY <1>6 DEF Routes!Dispatch
  <2>2. e.kind = "backfill" => Backfilled
    <3>1. job[cur[w]] # "absent"
      BY HandlerRunsAssumption DEF RoutesInv, QueueInv, ClaimInv
    <3> QED
      BY <3>1 DEF Backfilled
  <2>3. live' \in [Routes!Messages -> -1..MaxVersion] /\ live'[e.m] = e.v
    BY <1>1, <1>2, <1>3, <2>1
  <2>4. \A m \in Routes!Messages : m # e.m => live'[m] = live[m]
    BY <1>1, <1>2, <2>1
  <2> QED
    BY <1>1, <1>3, <1>4, <2>1, <2>2, <2>3, <2>4
<1> QED
  BY <1>5, <1>6

\* An envelope or an edit is captured.
LEMMA CaptureKeeps ==
  ASSUME RoutesInv, Routes!TelegramRoutesAssumption, NEW w \in Workers,
         NEW e \in Routes!Items, Routes!Capture(w, e),
         e.kind = "live" => boundary[1] < e.m /\ e.m <= copy[w].cursor + 1,
         e.kind = "backfill" => cur[w].kind = "backfill",
         NEW q \in [edits : SUBSET Routes!Items, found : Seq(Routes!Items)],
         queue' = [queue EXCEPT ![w] = q],
         \A x \in q.edits : x.kind = "source_edit",
         \A i \in 1..Len(q.found) : q.found[i].kind = "backfill" => cur[w].kind = "backfill",
         \A c : /\ c.cursor \in Int /\ copy[w].cursor <= c.cursor
                /\ e.kind = "live" => e.m <= c.cursor
                => /\ InARow(q.found, c, boundary[1])
                   /\ GoalOK(goal[w].f, q.found, c, boundary[1])
  PROVE  RoutesInv'
<1> USE DEF Routes!channel
<1>1. PICK new : new = IF e.kind \in {"live", "source_edit"}
                       THEN Routes!Advanced(copy[w], e) ELSE copy[w]
  OBVIOUS
<1>2. /\ pc[w] = "capture" /\ Routes!Dispatch(w, e) /\ Routes!Save(w, new)
      /\ copy' = [copy EXCEPT ![w] = new]
      /\ UNCHANGED <<posted, ver, paused, due, boundary, gaveUp, queueVars>>
      /\ UNCHANGED <<pc, goal>>
  BY <1>1 DEF Routes!Capture, Routes!queueVars, Routes!jobVars, queueVars, jobVars
<1>3. /\ AtWork(w) /\ cs.act # 0 /\ cur[w] \in Jobs
      /\ RouteOK(copy[w], live, boundary) /\ copy[w].act # 0
      /\ copy[w].start # Routes!Unknown
  BY <1>2 DEF RoutesInv, AtWork
<1>4. /\ live' \in [Routes!Messages -> -1..MaxVersion]
      /\ edits' \subseteq Routes!Messages \X (0..MaxVersion) /\ others' \subseteq Jobs
      /\ \A m \in Routes!Messages : live[m] # Routes!Unknown => live'[m] # Routes!Unknown
      /\ \A m \in Routes!Messages : live'[m] # Routes!Unknown =>
           live[m] # Routes!Unknown \/ boundary[1] < m \/ Backfilled
      /\ e.kind = "live" => live'[e.m] # Routes!Unknown
  BY <1>2, <1>3, DispatchTakes
<1>5. /\ boundary \in [1..MaxActs -> 0..MaxPosts]
      /\ pc \in [Workers -> {"idle", "load", "scan", "fetch", "capture", "end"}]
      /\ goal \in [Workers -> [what : {"none", "loop", "continue", "finish"},
                               f : Routes!Forwards]]
      /\ copy[w].cursor \in -1..MaxPosts
  BY <1>3 DEF RoutesInv, Routes!TypeOK, RouteOK, Routes!CursorStates
<1>6. /\ RouteOK(new, live', boundary) /\ new.act # 0 /\ new.start # Routes!Unknown
      /\ copy[w].cursor <= new.cursor
      /\ e.kind = "live" => e.m <= new.cursor
  <2>1. CASE e.kind \in {"live", "source_edit"}
    <3>1. new = Routes!Advanced(copy[w], e)
      BY <1>1, <2>1
    <3>2. PICK c, taken : c = copy[w] /\ taken = live'
      OBVIOUS
    <3>3. /\ RouteOK(c, live, boundary) /\ c.start # Routes!Unknown
          /\ e.kind = "live" => e.m <= c.cursor + 1 /\ taken[e.m] # Routes!Unknown
          /\ \A m \in Routes!Messages : live[m] # Routes!Unknown => taken[m] # Routes!Unknown
      BY <1>3, <1>4, <3>2
    <3>4. /\ RouteOK(new, taken, boundary)
          /\ new.act = c.act /\ new.start = c.start
          /\ c.cursor <= new.cursor
          /\ e.kind = "live" => e.m <= new.cursor
      BY <1>5, <3>1, <3>2, <3>3, AdvancedOK
    <3> QED
      BY <1>3, <3>2, <3>4
  <2>2. CASE e.kind \notin {"live", "source_edit"}
    <3>1. new = copy[w]
      BY <1>1, <2>2
    <3>2. RouteOK(copy[w], live', boundary)
      BY <1>2, <1>3, <1>4, RouteStays
    <3> QED
      BY <1>3, <1>5, <2>2, <3>1, <3>2
  <2> QED
    BY <2>1, <2>2
<1>7. new.cursor \in Int
  BY <1>6 DEF RouteOK, Routes!CursorStates
<1>8. InARow(q.found, new, boundary[1]) /\ GoalOK(goal[w].f, q.found, new, boundary[1])
  BY <1>6, <1>7
<1>9. PICK g : g = goal[w]
  OBVIOUS
<1>10. /\ g \in [what : {"none", "loop", "continue", "finish"}, f : Routes!Forwards]
       /\ goal' = [goal EXCEPT ![w] = g] /\ pc' = [pc EXCEPT ![w] = "capture"]
       /\ g.what # "continue" => g.f = Routes!NoForward
       /\ GoalOK(g.f, q.found, new, boundary[1])
       /\ pc[w] # "idle" /\ "capture" \in {"fetch", "capture"}
  BY <1>2, <1>3, <1>5, <1>8, <1>9 DEF AtWork
<1> QED
  BY <1>2, <1>3, <1>4, <1>6, <1>8, <1>10, WriteAndGoOn

LEMMA RoutesCapture ==
  ASSUME RoutesInv, Routes!TelegramRoutesAssumption, NEW w \in Workers,
         Routes!CaptureEdit(w) \/ Routes!CaptureFound(w)
  PROVE  RoutesInv'
<1>1. /\ AtWork(w) /\ pc[w] = "capture"
      /\ queue \in [Workers -> [edits : SUBSET Routes!Items, found : Seq(Routes!Items)]]
      /\ goal[w].f \in Routes!Forwards
      /\ RouteOK(copy[w], live, boundary)
      /\ boundary \in [1..MaxActs -> 0..MaxPosts]
  BY DEF RoutesInv, Routes!TypeOK, AtWork, Routes!CaptureEdit, Routes!CaptureFound,
         Routes!Capture
<1>2. /\ boundary[1] \in Int /\ copy[w].cursor \in Int /\ MaxPosts \in Nat
  BY <1>1, RoutesConstants DEF RouteOK, Routes!CursorStates
<1>3. /\ queue[w].edits \in SUBSET Routes!Items /\ queue[w].found \in Seq(Routes!Items)
      /\ \A e \in queue[w].edits : e.kind = "source_edit"
      /\ InARow(queue[w].found, copy[w], boundary[1])
      /\ GoalOK(goal[w].f, queue[w].found, copy[w], boundary[1])
      /\ \A i \in 1..Len(queue[w].found) :
           queue[w].found[i].kind = "backfill" => cur[w].kind = "backfill"
  BY <1>1 DEF AtWork
<1>4. CASE Routes!CaptureEdit(w)
  <2>1. PICK e \in queue[w].edits :
          /\ Routes!Capture(w, e) /\ queue' = [queue EXCEPT ![w].edits = @ \ {e}]
    BY <1>4 DEF Routes!CaptureEdit
  <2>2. PICK q : q = [edits |-> queue[w].edits \ {e}, found |-> queue[w].found]
    OBVIOUS
  <2>3. queue' = [queue EXCEPT ![w] = q]
    <3>1. PICK x : x = queue[w].edits \ {e}
      OBVIOUS
    <3>2. [queue[w] EXCEPT !.edits = x] = [edits |-> x, found |-> queue[w].found]
      BY <1>1
    <3>3. queue' = [queue EXCEPT ![w] = [queue[w] EXCEPT !.edits = x]]
      BY <1>1, <2>1, <3>1
    <3> QED
      BY <2>2, <3>1, <3>2, <3>3
  <2>4. /\ q \in [edits : SUBSET Routes!Items, found : Seq(Routes!Items)]
        /\ e \in Routes!Items /\ e.kind = "source_edit"
        /\ \A x \in q.edits : x.kind = "source_edit"
        /\ q.found = queue[w].found
    BY <1>3, <2>2
  <2>5. ASSUME NEW c, c.cursor \in Int, copy[w].cursor <= c.cursor
        PROVE  /\ InARow(q.found, c, boundary[1])
               /\ GoalOK(goal[w].f, q.found, c, boundary[1])
    <3>1. InARow(q.found, c, boundary[1])
      <4>1. \A i \in 1..Len(queue[w].found) : queue[w].found[1].m \in Int
        <5>1. \A i \in 1..Len(queue[w].found) : queue[w].found[1] \in Routes!Items
          BY <1>3
        <5> QED
          BY <5>1 DEF Routes!Items, Routes!Messages
      <4>2. PICK r : r = queue[w].found
        OBVIOUS
      <4>3. InARow(r, copy[w], boundary[1]) /\ \A i \in 1..Len(r) : r[1].m \in Int
        BY <1>3, <4>1, <4>2
      <4>4. InARow(r, c, boundary[1])
        BY <1>2, <2>5, <4>3 DEF InARow
      <4> QED
        BY <2>4, <4>2, <4>4
    <3>2. goal[w].f.at \in Int /\ goal[w].f.base \in Int
      BY <1>1 DEF Routes!Forwards
    <3>3. GoalOK(goal[w].f, q.found, c, boundary[1])
      BY <1>2, <1>3, <2>4, <2>5, <3>2 DEF GoalOK, ForwardOK
    <3> QED
      BY <3>1, <3>3
  <2> QED
    BY <1>3, <2>1, <2>3, <2>4, <2>5, CaptureKeeps
<1>5. CASE Routes!CaptureFound(w)
  <2>1. PICK e, q : /\ e = Head(queue[w].found)
                    /\ q = [edits |-> queue[w].edits, found |-> Tail(queue[w].found)]
    OBVIOUS
  <2>2. /\ queue[w].found # <<>> /\ Routes!Capture(w, e)
        /\ queue' = [queue EXCEPT ![w].found = Tail(@)]
    BY <1>5, <2>1 DEF Routes!CaptureFound
  <2>3. queue' = [queue EXCEPT ![w] = q]
    <3>1. PICK x : x = Tail(queue[w].found)
      OBVIOUS
    <3>2. [queue[w] EXCEPT !.found = x] = [edits |-> queue[w].edits, found |-> x]
      BY <1>1
    <3>3. queue' = [queue EXCEPT ![w] = [queue[w] EXCEPT !.found = x]]
      BY <1>1, <2>2, <3>1
    <3> QED
      BY <2>1, <3>1, <3>2, <3>3
  <2>4. /\ e = queue[w].found[1] /\ e \in Routes!Items /\ 1 \in 1..Len(queue[w].found)
        /\ Tail(queue[w].found) \in Seq(Routes!Items)
        /\ \A i \in 1..Len(Tail(queue[w].found)) :
             /\ i + 1 \in 1..Len(queue[w].found)
             /\ Tail(queue[w].found)[i] = queue[w].found[i + 1]
    BY <1>3, <2>1, <2>2
  <2>5. /\ q \in [edits : SUBSET Routes!Items, found : Seq(Routes!Items)]
        /\ \A x \in q.edits : x.kind = "source_edit"
        /\ q.found = Tail(queue[w].found)
        /\ \A i \in 1..Len(q.found) :
             q.found[i].kind = "backfill" => cur[w].kind = "backfill"
        /\ e.kind = "backfill" => cur[w].kind = "backfill"
    BY <1>3, <2>1, <2>4
  <2>6. e.kind = "live" => boundary[1] < e.m /\ e.m <= copy[w].cursor + 1
    BY <1>3, <2>4 DEF InARow
  <2>7. ASSUME NEW c, c.cursor \in Int, copy[w].cursor <= c.cursor,
               e.kind = "live" => e.m <= c.cursor
        PROVE  /\ InARow(q.found, c, boundary[1])
               /\ GoalOK(goal[w].f, q.found, c, boundary[1])
    <3>1. PICK r, k, f : r = queue[w].found /\ k = copy[w] /\ f = goal[w].f
      OBVIOUS
    <3>2. /\ r \in Seq(Routes!Items) /\ r # <<>> /\ k.cursor \in Int /\ k.cursor <= c.cursor
          /\ r[1].kind = "live" => r[1].m <= c.cursor
          /\ f \in Routes!Forwards /\ InARow(r, k, boundary[1]) /\ GoalOK(f, r, k, boundary[1])
      BY <1>1, <1>2, <1>3, <2>2, <2>4, <2>7, <3>1
    <3>3. InARow(Tail(r), c, boundary[1]) /\ GoalOK(f, Tail(r), c, boundary[1])
      BY <1>2, <2>7, <3>2, RowGoesOn
    <3> QED
      BY <2>5, <3>1, <3>3
  <2> QED
    BY <2>2, <2>3, <2>4, <2>5, <2>6, <2>7, CaptureKeeps
<1> QED
  BY <1>4, <1>5

\* The invariant is kept.
LEMMA RoutesKeep ==
  ASSUME Routes!TelegramRoutesAssumption PROVE Routes!Spec => []RoutesInv
<1>1. Routes!Init => RoutesInv
  BY RoutesStart
<1>2. RoutesInv /\ [Routes!Next]_(Routes!vars) => RoutesInv'
  <2> SUFFICES ASSUME RoutesInv, [Routes!Next]_(Routes!vars) PROVE RoutesInv'
    OBVIOUS
  <2>1. CASE UNCHANGED Routes!vars
    <3>1. /\ UNCHANGED <<posted, ver, cs, paused, due, live, edits, others, pc, copy, queue,
                         goal, boundary, gaveUp>>
          /\ UNCHANGED queueVars /\ cur' = cur
      BY <2>1 DEF Routes!vars, Routes!channel, Routes!row, Routes!rows, Routes!locals,
                  Routes!queueVars, Routes!jobVars, queueVars, jobVars
    <3>2. QueueInv' /\ JobsStay
      BY <3>1, QueueStepStays DEF QueueStep, RoutesInv
    <3>3. /\ posted' \in 0..MaxPosts /\ posted <= posted'
          /\ ver' \in [Routes!Messages -> 0..MaxVersion]
          /\ paused' \in BOOLEAN /\ gaveUp' \in BOOLEAN
          /\ MaxPosts \in Nat /\ MaxActs \in Nat \ {0}
      BY <3>1, RoutesConstants DEF RoutesInv, Routes!TypeOK
    <3> QED
      BY <3>1, <3>2, <3>3, AroundKeeps
  <2>2. CASE \/ Routes!Post \/ Routes!EditPost \/ Routes!Operator \/ Routes!Tick
             \/ \E j \in Jobs : Routes!Recover(j)
    BY <2>2, RoutesAround, RoutesActivate DEF Routes!Operator
  <2>3. ASSUME NEW w \in Workers,
               Routes!Start(w) \/ Routes!Handle(w) \/ Routes!FetchFails(w) \/ Routes!Crash(w)
        PROVE  RoutesInv'
    BY <2>3, RoutesClaim, RoutesLeave, RoutesLoad, RoutesScan, ForwardFetchKeeps,
       OtherFetchKeeps, RoutesCapture, RoutesLoop, RoutesEnd DEF Routes!Handle
  <2> QED
    BY <2>1, <2>2, <2>3 DEF Routes!Next
<1> QED
  BY <1>1, <1>2, PTL DEF Routes!Spec

\* No message is skipped, whatever jobs overlap, die or run again: cursor and
\* dispatch are written together, and what a worker is to capture starts at the
\* message after its cursor (_fetch_forward_step, _capture, _update_cursor).
THEOREM RouteSkipsNothing ==
  ASSUME Routes!TelegramRoutesAssumption PROVE Routes!Spec => []Routes!NothingSkipped
<1>1. RoutesInv => Routes!NothingSkipped
  BY DEF RoutesInv, RouteOK, Routes!NothingSkipped
<1> QED
  BY <1>1, RoutesKeep, PTL

\* Nothing older than the first activation is captured, but by a backfill
\* (activate_route, _persist_activation_boundary, backfill_route).
THEOREM RouteTakesNewPosts ==
  ASSUME Routes!TelegramRoutesAssumption PROVE Routes!Spec => []Routes!NewPostsOnly
<1>1. RoutesInv => Routes!NewPostsOnly
  <2> SUFFICES ASSUME RoutesInv, \A j \in Jobs : j.kind = "backfill" => job[j] = "absent",
                      NEW m \in Routes!Messages, live[m] # Routes!Unknown
               PROVE  m > boundary[1]
    BY DEF Routes!NewPostsOnly
  <2>1. ~ Backfilled
    BY DEF Backfilled
  <2>2. m \in Int /\ boundary[1] \in Int
    <3>1. boundary \in [1..MaxActs -> 0..MaxPosts]
      BY DEF RoutesInv, Routes!TypeOK
    <3> QED
      BY <3>1, RoutesConstants DEF Routes!Messages
  <2> QED
    BY <2>1, <2>2 DEF RoutesInv
<1> QED
  BY <1>1, RoutesKeep, PTL

\* Every variable of the route has its type in every reachable state.
THEOREM RouteTypeCorrect ==
  ASSUME Routes!TelegramRoutesAssumption PROVE Routes!Spec => []Routes!TypeOK
BY RoutesKeep, PTL DEF RoutesInv

-----------------------------------------------------------------------------
(* The dispatches of one story (TelegramProcess).  ProcessInv is inductive:  *)
(* a worker about to write has seen every earlier dispatch with a revision   *)
(* or given up, neither of which is undone, and revisions are ranked by the  *)
(* order in which they were made.                                            *)

CONSTANTS MaxDispatches, Forced, MaxPrompts, MaxCalls
VARIABLES st, err, rev, par, var, intents, run, pin, active, held, healthy, fenced,
          loc, givenUp
Process == INSTANCE TelegramProcess

Dispatches == 1..MaxDispatches

\* The dispatches that have a revision.
Made == {e \in Dispatches : rev[e] # 0}

ErrorCodes == {"none", "drift", "configuration", "generation", "lineage", "media", "fence"}

ProcessLocals ==
  [pin : 0..MaxPrompts, att : 0..MaxCalls, par : 0..MaxDispatches,
   res : Results \cup {"none"}, code : ErrorCodes, stale : BOOLEAN]

\* Captured in order, each with its job; what was given up or reviewed stays so.
DispatchInv ==
  /\ \A k \in Dispatches : st[k] = "absent" <=> job[k] = "absent"
  /\ \A k \in Dispatches : st[k] = "absent" => rev[k] = 0
  /\ \A k, e \in Dispatches : e < k /\ st[k] # "absent" => st[e] # "absent"
  /\ \A k \in Dispatches : st[k] \in Process!GivenUp => k \in givenUp
  /\ \A k \in Dispatches : st[k] \in Process!Reviewed => rev[k] # 0

\* A worker at a step has a job; before a write it has seen what comes earlier.
ProcessWorker(w) ==
  /\ pc[w] # "idle" => cur[w] \in Jobs
  /\ pc[w] = "end" => loc[w].res \in Results
  /\ pc[w] = "mark" => loc[w].res \in {"retryable", "needs_review", "permanent"}
  /\ pc[w] = "write" =>
       /\ \A e \in Dispatches : e < cur[w] => rev[e] # 0 \/ e \in givenUp
       /\ loc[w].par # 0 => loc[w].par < cur[w] /\ rev[loc[w].par] # 0

\* A revision is ranked by how many there were when it was made.
RankInv == \A k \in Dispatches : rev[k] <= Cardinality(Made)

\* A completed run has the output of its active attempt.
RunInv == \A k \in Dispatches : run[k].st = "completed" => run[k].out = run[k].act

ProcessTypes ==
  /\ st \in [Dispatches -> {"absent"} \cup Process!Blocking \cup Process!GivenUp
                           \cup Process!Reviewed]
  /\ err \in [Dispatches -> ErrorCodes]
  /\ rev \in [Dispatches -> 0..MaxDispatches]
  /\ par \in [Dispatches -> 0..MaxDispatches] /\ var \in [Dispatches -> 0..MaxDispatches]
  /\ intents \subseteq Dispatches /\ givenUp \subseteq Dispatches
  /\ run \in [Dispatches -> [st : {"none", "running", "failed", "completed"},
                             act : 0..MaxCalls, in : 0..MaxPrompts, out : 0..MaxCalls]]
  /\ pin \in [Dispatches -> 0..MaxPrompts] /\ active \in 1..MaxPrompts
  /\ {held, healthy, fenced} \subseteq BOOLEAN
  /\ pc \in [Workers -> {"idle", "prepare", "call", "read", "write", "mark", "end"}]
  /\ loc \in [Workers -> ProcessLocals]

ProcessInv ==
  /\ QueueInv /\ ProcessTypes
  /\ DispatchInv /\ RankInv /\ RunInv
  /\ \A w \in Workers : ProcessWorker(w)
  /\ Process!NoOvertaking /\ Process!LineageShared

LEMMA ProcessConstants ==
  ASSUME Process!TelegramProcessAssumption
  PROVE  /\ MaxDispatches \in Nat \ {0} /\ MaxPrompts \in Nat \ {0} /\ MaxCalls \in Nat
         /\ Process!Dispatches = Dispatches /\ Jobs = Dispatches
         /\ NoJob \notin Dispatches
BY HandlerRunsAssumption
DEF Process!TelegramProcessAssumption, Process!Dispatches, Dispatches

\* Jobs that exist go on existing, and no other is made.
JobsSame == \A j \in Jobs : job'[j] = "absent" <=> job[j] = "absent"

\* Steps of the queue by which no job is made.
Handled ==
  \/ \E j \in Jobs : Process!RecoverJob(j) \/ Process!RetryJob(j) \/ Process!CancelJob(j)
  \/ \E w \in Workers : \/ \E j \in Jobs : Process!ClaimJob(w, j)
                        \/ \E r \in Results : Process!CloseJob(w, r)
                        \/ Process!Die(w)
  \/ UNCHANGED queueVars

LEMMA HandledSame == ASSUME QueueInv, Handled PROVE QueueInv' /\ JobsSame
<1> USE DEF QueueStep, QueueInv, QueueTypeOK, JobsSame
<1>1. ASSUME NEW j \in Jobs, Process!RecoverJob(j) PROVE QueueInv' /\ JobsSame
  <2>1. RecoverJob(j)
    BY <1>1 DEF Process!RecoverJob, RecoverJob, Process!RecoveredStatus, RecoveredStatus
  <2> QED
    BY <2>1, QueueKeeps DEF RecoverJob, RecoveredStatus
<1>2. ASSUME NEW j \in Jobs, Process!RetryJob(j) PROVE QueueInv' /\ JobsSame
  <2>1. RetryJob(j)
    BY <1>2 DEF Process!RetryJob, RetryJob
  <2> QED
    BY <2>1, QueueKeeps DEF RetryJob
<1>3. ASSUME NEW j \in Jobs, Process!CancelJob(j) PROVE QueueInv' /\ JobsSame
  <2>1. CancelJob(j)
    BY <1>3 DEF Process!CancelJob, CancelJob
  <2> QED
    BY <2>1, QueueKeeps DEF CancelJob
<1>4. ASSUME NEW w \in Workers, NEW j \in Jobs, Process!ClaimJob(w, j)
      PROVE  QueueInv' /\ JobsSame
  <2>1. ClaimJob(w, j)
    BY <1>4 DEF Process!ClaimJob, ClaimJob
  <2> QED
    BY <2>1, QueueKeeps DEF ClaimJob
<1>5. ASSUME NEW w \in Workers, NEW r \in Results, Process!CloseJob(w, r)
      PROVE  QueueInv' /\ JobsSame
  <2>1. CloseJob(w, r)
    BY <1>5 DEF Process!CloseJob, CloseJob, Process!Holds, Holds, Process!ClosedStatus,
                ClosedStatus
  <2> QED
    BY <2>1, QueueKeeps DEF CloseJob, Holds, ClosedStatus
<1>6. ASSUME NEW w \in Workers, Process!Die(w) PROVE QueueInv' /\ JobsSame
  <2>1. Die(w)
    BY <1>6 DEF Process!Die, Die, Process!jobVars, jobVars
  <2> QED
    BY <2>1, QueueKeeps DEF Die, jobVars
<1>7. CASE UNCHANGED queueVars
  BY <1>7, QueueKeeps DEF queueVars, jobVars
<1> QED
  BY <1>1, <1>2, <1>3, <1>4, <1>5, <1>6, <1>7 DEF Handled

LEMMA ProcessTyped ==
  ASSUME Process!TelegramProcessAssumption, ProcessInv PROVE Process!TypeOK
BY ProcessConstants
DEF ProcessInv, ProcessTypes, QueueInv, QueueTypeOK, JobStatuses, Process!TypeOK,
    Process!QueueTypeOK, Process!JobStatuses

LEMMA ProcessStarts ==
  ASSUME Process!TelegramProcessAssumption, Process!Init PROVE ProcessInv
<1> USE ProcessConstants DEF Process!Init
<1>1. QueueInv
  BY QueueStarts DEF Process!QueueInit, QueueInit
<1>2. \A k \in Dispatches : job[k] = "absent"
  BY DEF Process!QueueInit
<1>3. Process!NoLoc \in ProcessLocals
  <2>1. 0 \in 0..MaxPrompts /\ 0 \in 0..MaxCalls /\ 0 \in 0..MaxDispatches
        /\ "none" \in ErrorCodes /\ "none" \in Results \cup {"none"}
    BY DEF ErrorCodes
  <2>2. FALSE \in BOOLEAN
    OBVIOUS
  <2> HIDE DEF Process!Init
  <2> QED
    BY <2>1, <2>2, Zenon DEF Process!NoLoc, ProcessLocals
<1>4. ProcessTypes
  <2>1. {held, healthy, fenced} \subseteq BOOLEAN /\ intents = {} /\ givenUp = {}
    BY Zenon
  <2>2. Process!NoRun \in [st : {"none", "running", "failed", "completed"},
                           act : 0..MaxCalls, in : 0..MaxPrompts, out : 0..MaxCalls]
    BY DEF Process!NoRun
  <2>3. run \in [Dispatches -> [st : {"none", "running", "failed", "completed"},
                                act : 0..MaxCalls, in : 0..MaxPrompts, out : 0..MaxCalls]]
    BY <2>2
  <2>4. loc \in [Workers -> ProcessLocals]
    BY <1>3
  <2>5. /\ st \in [Dispatches -> {"absent"}] /\ err \in [Dispatches -> ErrorCodes]
        /\ rev \in [Dispatches -> 0..MaxDispatches]
        /\ par \in [Dispatches -> 0..MaxDispatches]
        /\ var \in [Dispatches -> 0..MaxDispatches]
    BY DEF ErrorCodes
  <2>7. /\ active \in 1..MaxPrompts
        /\ pc \in [Workers -> {"idle", "prepare", "call", "read", "write", "mark", "end"}]
    OBVIOUS
  <2>6. pin \in [Dispatches -> 0..MaxPrompts]
    OBVIOUS
  <2> HIDE DEF Process!Init
  <2> QED
    BY <2>1, <2>3, <2>4, <2>5, <2>6, <2>7 DEF ProcessTypes
<1>5. DispatchInv
  BY <1>2 DEF DispatchInv, Process!GivenUp, Process!Reviewed
<1>6. RankInv
  <2>1. Made = {}
    BY DEF Made
  <2> QED
    BY <2>1, FS_EmptySet DEF RankInv
<1>7. RunInv /\ (\A w \in Workers : ProcessWorker(w))
  BY DEF RunInv, ProcessWorker, Process!NoRun
<1>8. Process!NoOvertaking /\ Process!LineageShared
  BY DEF Process!NoOvertaking, Process!LineageShared
<1> QED
  BY <1>1, <1>4, <1>5, <1>6, <1>7, <1>8 DEF ProcessInv

\* A worker that does not move keeps what it knows.
LEMMA KnownStays ==
  ASSUME Process!TelegramProcessAssumption, ProcessTypes,
         NEW x \in Workers, ProcessWorker(x),
         pc'[x] = pc[x], cur'[x] = cur[x], loc'[x] = loc[x],
         \A k \in Dispatches : rev[k] # 0 => rev'[k] # 0,
         \A k \in Dispatches : k \in givenUp => k \in givenUp'
  PROVE  ProcessWorker(x)'
<1>1. loc[x].par \in 0..MaxDispatches
  BY DEF ProcessTypes, ProcessLocals
<1> QED
  BY <1>1, ProcessConstants DEF ProcessWorker, Dispatches

\* Steps that make no revision.
LEMMA QuietKeeps ==
  ASSUME Process!TelegramProcessAssumption, ProcessInv, QueueInv', JobsSame, ProcessTypes',
         rev' = rev, var' = var,
         \A k \in Dispatches : st'[k] = "absent" <=> st[k] = "absent",
         \A k \in Dispatches : k \in givenUp => k \in givenUp',
         \A k \in Dispatches : st'[k] \in Process!GivenUp => k \in givenUp',
         \A k \in Dispatches : st'[k] \in Process!Reviewed => rev[k] # 0,
         RunInv', \A x \in Workers : ProcessWorker(x)'
  PROVE  ProcessInv'
<1> USE ProcessConstants DEF ProcessInv
<1>1. DispatchInv'
  BY DEF DispatchInv, JobsSame
<1>2. RankInv'
  BY DEF RankInv, Made
<1>3. Process!NoOvertaking'
  BY DEF Process!NoOvertaking
<1>4. Process!LineageShared'
  BY DEF Process!LineageShared
<1> QED
  BY <1>1, <1>2, <1>3, <1>4

\* Steps around the handlers, and of a claim.
LEMMA ProcessCaptures ==
  ASSUME Process!TelegramProcessAssumption, ProcessInv, Process!Capture PROVE ProcessInv'
<1> USE ProcessConstants
<1>1. PICK k \in Dispatches :
        /\ st[k] = "absent" /\ \A e \in 1..(k - 1) : st[e] # "absent"
        /\ st' = [st EXCEPT ![k] = "captured"]
        /\ Process!EnqueueJob(k)
  BY DEF Process!Capture
<1>2. UNCHANGED <<err, rev, par, var, intents, run, pin, active, held, healthy, fenced,
                  pc, loc, givenUp>>
  BY DEF Process!Capture, Process!control, Process!locals
<1>3. QueueInv' /\ job' = [job EXCEPT ![k] = "queued"] /\ cur' = cur
  BY <1>1, QueueKeeps DEF Process!EnqueueJob, EnqueueJob, QueueStep, ProcessInv
<1>4. ProcessTypes'
  BY <1>1, <1>2 DEF ProcessInv, ProcessTypes, Process!Blocking
<1>5. DispatchInv'
  <2>1. job \in [Dispatches -> JobStatuses] /\ st = [x \in Dispatches |-> st[x]]
    BY DEF ProcessInv, QueueInv, QueueTypeOK, ProcessTypes
  <2>2. \A x, e \in Dispatches : e < x /\ st'[x] # "absent" => st'[e] # "absent"
    <3> SUFFICES ASSUME NEW x \in Dispatches, NEW e \in Dispatches, e < x,
                        st'[x] # "absent", e # k
                 PROVE  st[e] # "absent"
      BY <1>1, <2>1
    <3>1. CASE x = k
      BY <1>1, <3>1 DEF Dispatches
    <3>2. CASE x # k
      BY <1>1, <2>1, <3>2 DEF ProcessInv, DispatchInv
    <3> QED
      BY <3>1, <3>2
  <2> QED
    BY <1>1, <1>2, <1>3, <2>1, <2>2
    DEF ProcessInv, DispatchInv, Process!GivenUp, Process!Reviewed
<1>6. RankInv' /\ RunInv' /\ Process!LineageShared'
  BY <1>2 DEF ProcessInv, RankInv, Made, RunInv, Process!LineageShared
<1>7. \A x \in Workers : ProcessWorker(x)'
  BY <1>2, <1>3, KnownStays DEF ProcessInv
<1>8. Process!NoOvertaking'
  <2> SUFFICES ASSUME NEW x \in Dispatches, NEW e \in Dispatches, x < e, st'[x] # "absent",
                      rev[e] # 0, rev[x] = 0 \/ rev[x] > rev[e]
               PROVE  x \in givenUp
    BY <1>2 DEF Process!NoOvertaking
  <2>1. st[e] # "absent" /\ st[x] # "absent"
    BY DEF ProcessInv, DispatchInv
  <2> QED
    BY <2>1 DEF ProcessInv, Process!NoOvertaking
<1> QED
  BY <1>3, <1>4, <1>5, <1>6, <1>7, <1>8 DEF ProcessInv

LEMMA ProcessAround ==
  ASSUME Process!TelegramProcessAssumption, ProcessInv,
         \/ Process!ActivatePrompt \/ Process!ToggleGate \/ Process!ToggleFence
         \/ (\E j \in Jobs : Process!Operate(j)) \/ UNCHANGED Process!vars
  PROVE  ProcessInv'
<1> USE DEF Process!control, Process!locals, Process!dispatchVars, Process!queueVars,
            Process!jobVars
<1>1. /\ UNCHANGED <<st, err, rev, par, var, intents, run, pin, pc, loc, givenUp>>
      /\ cur' = cur
  BY DEF Process!ActivatePrompt, Process!ToggleGate, Process!ToggleFence, Process!Operate,
         Process!CancelJob, Process!RetryJob, Process!vars
<1>2. active' \in 1..MaxPrompts
  BY ProcessConstants
  DEF ProcessInv, ProcessTypes, Process!ActivatePrompt, Process!ToggleGate,
      Process!ToggleFence, Process!Operate, Process!vars
<1>3. {held', healthy', fenced'} \subseteq BOOLEAN
  <2>1. {held, healthy, fenced} \subseteq BOOLEAN
    BY DEF ProcessInv, ProcessTypes
  <2>2. CASE Process!ActivatePrompt
    BY <2>1, <2>2, Zenon DEF Process!ActivatePrompt
  <2>3. CASE Process!ToggleGate
    BY <2>1, <2>3, Zenon DEF Process!ToggleGate
  <2>4. CASE Process!ToggleFence
    BY <2>1, <2>4, Zenon DEF Process!ToggleFence
  <2>5. CASE \E j \in Jobs : Process!Operate(j)
    BY <2>1, <2>5, Zenon DEF Process!Operate
  <2>6. CASE UNCHANGED Process!vars
    BY <2>1, <2>6, Zenon DEF Process!vars
  <2> QED
    BY <2>2, <2>3, <2>4, <2>5, <2>6
<1>4. ProcessTypes'
  BY <1>1, <1>2, <1>3 DEF ProcessInv, ProcessTypes
<1>5. Handled
  BY DEF Handled, Process!ActivatePrompt, Process!ToggleGate, Process!ToggleFence,
         Process!Operate, Process!vars, queueVars, jobVars
<1>6. QueueInv' /\ JobsSame
  BY <1>5, HandledSame DEF ProcessInv
<1>7. RunInv' /\ (\A x \in Workers : ProcessWorker(x)')
  BY <1>1, KnownStays DEF ProcessInv, RunInv
<1>8. \A k \in Dispatches : /\ st[k] \in Process!GivenUp => k \in givenUp
                            /\ st[k] \in Process!Reviewed => rev[k] # 0
  BY DEF ProcessInv, DispatchInv
<1> QED
  BY <1>1, <1>4, <1>6, <1>7, <1>8, QuietKeeps

LEMMA ProcessRecovers ==
  ASSUME Process!TelegramProcessAssumption, ProcessInv, NEW j \in Jobs, Process!Recover(j)
  PROVE  ProcessInv'
<1> USE ProcessConstants
<1>1. /\ UNCHANGED <<err, rev, par, var, intents, pin, active, held, healthy, fenced, pc, loc>>
      /\ Process!RecoverJob(j) /\ cur' = cur
  BY DEF Process!Recover, Process!RecoverJob, Process!control, Process!locals
<1>2. QueueInv' /\ JobsSame
  BY <1>1, HandledSame DEF Handled, ProcessInv
<1>3. PICK s : s = Process!SettledByExpiry(j)
  OBVIOUS
<1>4. /\ s = st[j] \/ s \in {"failed", "needs_review"}
      /\ st[j] = "absent" => s = st[j]
  BY <1>3 DEF Process!SettledByExpiry
<1>5. /\ \/ st' = st /\ givenUp' = givenUp
         \/ /\ st' = [st EXCEPT ![j] = s]
            /\ givenUp' = IF st'[j] \in Process!GivenUp THEN givenUp \cup {j} ELSE givenUp
      /\ run' = run \/ run' = [run EXCEPT ![j].st = "failed"]
  BY <1>3 DEF Process!Recover
<1>6. ProcessTypes'
  <2>1. /\ st' \in [Dispatches -> {"absent"} \cup Process!Blocking \cup Process!GivenUp
                                \cup Process!Reviewed]
        /\ givenUp' \subseteq Dispatches
    BY <1>4, <1>5 DEF ProcessInv, ProcessTypes, Process!GivenUp
  <2>2. run' \in [Dispatches -> [st : {"none", "running", "failed", "completed"},
                                act : 0..MaxCalls, in : 0..MaxPrompts, out : 0..MaxCalls]]
    BY <1>5 DEF ProcessInv, ProcessTypes
  <2> QED
    BY <1>1, <2>1, <2>2 DEF ProcessInv, ProcessTypes
<1>7. /\ \A k \in Dispatches : st'[k] = "absent" <=> st[k] = "absent"
      /\ \A k \in Dispatches : k \in givenUp => k \in givenUp'
      /\ \A k \in Dispatches : st'[k] \in Process!GivenUp => k \in givenUp'
      /\ \A k \in Dispatches : st'[k] \in Process!Reviewed => rev[k] # 0
  BY <1>4, <1>5
  DEF ProcessInv, ProcessTypes, DispatchInv, Process!GivenUp, Process!Reviewed
<1>8. RunInv'
  BY <1>5 DEF ProcessInv, ProcessTypes, RunInv
<1>9. \A x \in Workers : ProcessWorker(x)'
  BY <1>1, <1>7, KnownStays DEF ProcessInv
<1> QED
  BY <1>1, <1>2, <1>6, <1>7, <1>8, <1>9, QuietKeeps

\* Steps of one worker that make no revision.
LEMMA WorkerStepKeeps ==
  ASSUME Process!TelegramProcessAssumption, ProcessInv, NEW w \in Workers,
         Handled, \A x \in Workers \ {w} : cur'[x] = cur[x],
         \A x \in Workers \ {w} : pc'[x] = pc[x] /\ loc'[x] = loc[x],
         ProcessTypes', ProcessWorker(w)', RunInv', rev' = rev, var' = var,
         \A k \in Dispatches : st'[k] = "absent" <=> st[k] = "absent",
         \A k \in Dispatches : k \in givenUp => k \in givenUp',
         \A k \in Dispatches : st'[k] \in Process!GivenUp => k \in givenUp',
         \A k \in Dispatches : st'[k] \in Process!Reviewed => rev[k] # 0
  PROVE  ProcessInv'
<1>1. QueueInv' /\ JobsSame
  BY HandledSame DEF ProcessInv
<1>2. ASSUME NEW x \in Workers PROVE ProcessWorker(x)'
  <2>1. CASE x = w
    BY <2>1
  <2>2. CASE x # w
    <3>1. ProcessWorker(x) /\ ProcessTypes
      BY DEF ProcessInv
    <3> QED
      BY <2>2, <3>1, KnownStays
  <2> QED
    BY <2>1, <2>2
<1> QED
  BY <1>1, <1>2, QuietKeeps

\* The same when no dispatch changes its status.
LEMMA SilentStepKeeps ==
  ASSUME Process!TelegramProcessAssumption, ProcessInv, NEW w \in Workers,
         Handled, \A x \in Workers \ {w} : cur'[x] = cur[x],
         \A x \in Workers \ {w} : pc'[x] = pc[x] /\ loc'[x] = loc[x],
         ProcessTypes', ProcessWorker(w)', RunInv',
         UNCHANGED <<rev, var, st, givenUp>>
  PROVE  ProcessInv'
<1>1. \A k \in Dispatches : /\ st[k] \in Process!GivenUp => k \in givenUp
                            /\ st[k] \in Process!Reviewed => rev[k] # 0
  BY DEF ProcessInv, DispatchInv
<1> QED
  BY <1>1, WorkerStepKeeps

LEMMA ProcessClaims ==
  ASSUME Process!TelegramProcessAssumption, ProcessInv, NEW w \in Workers,
         Process!Start(w) \/ Process!Refuse(w) \/ Process!End(w) \/ Process!Crash(w)
  PROVE  ProcessInv'
<1> USE ProcessConstants
<1>1. UNCHANGED <<st, err, rev, par, var, intents, run, pin, active, held, healthy, fenced,
                  givenUp>>
  BY DEF Process!Start, Process!Refuse, Process!End, Process!Crash, Process!dispatchVars,
         Process!control
<1>2. RunInv'
  BY <1>1 DEF RunInv, ProcessInv
<1>3. Process!NoLoc \in ProcessLocals
  <2>1. 0 \in 0..MaxPrompts /\ 0 \in 0..MaxCalls /\ 0 \in 0..MaxDispatches
        /\ "none" \in ErrorCodes /\ "none" \in Results \cup {"none"}
    BY DEF ErrorCodes
  <2>2. FALSE \in BOOLEAN
    OBVIOUS
  <2> QED
    BY <2>1, <2>2, Zenon DEF Process!NoLoc, ProcessLocals
<1>4. CASE Process!Start(w)
  <2>1. PICK j \in Jobs : /\ Process!ClaimJob(w, j)
                          /\ loc' = [loc EXCEPT ![w] = [Process!NoLoc EXCEPT !.pin = pin[j]]]
    BY <1>4 DEF Process!Start
  <2>2. pc' = [pc EXCEPT ![w] = "prepare"]
    BY <1>4 DEF Process!Start
  <2>3. Handled /\ cur' = [cur EXCEPT ![w] = j]
    BY <2>1 DEF Handled, Process!ClaimJob
  <2>4. [Process!NoLoc EXCEPT !.pin = pin[j]] \in ProcessLocals
    BY <1>3 DEF ProcessLocals, ProcessInv, ProcessTypes
  <2>5. ProcessTypes'
    BY <1>1, <2>1, <2>2, <2>4 DEF ProcessInv, ProcessTypes
  <2>6. /\ \A x \in Workers \ {w} : cur'[x] = cur[x] /\ pc'[x] = pc[x] /\ loc'[x] = loc[x]
        /\ cur'[w] = j /\ pc'[w] = "prepare"
    BY <2>1, <2>2, <2>3 DEF ProcessInv, ProcessTypes, QueueInv, QueueTypeOK
  <2>7. ProcessWorker(w)'
    BY <2>6 DEF ProcessWorker
  <2> QED
    BY <1>1, <1>2, <2>3, <2>5, <2>6, <2>7, SilentStepKeeps
<1>5. CASE Process!Refuse(w) \/ Process!End(w) \/ Process!Crash(w)
  <2>1. pc' = [pc EXCEPT ![w] = "idle"]
    BY <1>5 DEF Process!Refuse, Process!End, Process!Crash
  <2>2. loc' = loc \/ loc' = [loc EXCEPT ![w] = Process!NoLoc]
    BY <1>5 DEF Process!Refuse, Process!End, Process!Crash
  <2>3. Handled /\ cur' = [cur EXCEPT ![w] = NoJob]
    <3>1. CASE Process!Refuse(w)
      BY <3>1 DEF Process!Refuse, Handled, Process!CloseJob, Results
    <3>2. CASE Process!End(w)
      <4>1. loc[w].res \in Results
        BY <3>2 DEF Process!End, ProcessInv, ProcessWorker
      <4>2. Process!CloseJob(w, loc[w].res)
        BY <3>2 DEF Process!End
      <4> QED
        BY <4>1, <4>2 DEF Handled, Process!CloseJob
    <3>3. CASE Process!Crash(w)
      BY <3>3 DEF Process!Crash, Handled, Process!Die
    <3> QED
      BY <1>5, <3>1, <3>2, <3>3
  <2>4. ProcessTypes'
    BY <1>1, <1>3, <2>1, <2>2 DEF ProcessInv, ProcessTypes
  <2>5. /\ \A x \in Workers \ {w} : cur'[x] = cur[x] /\ pc'[x] = pc[x] /\ loc'[x] = loc[x]
        /\ pc'[w] = "idle"
    BY <2>1, <2>2, <2>3 DEF ProcessInv, ProcessTypes, QueueInv, QueueTypeOK
  <2>6. ProcessWorker(w)'
    BY <2>5 DEF ProcessWorker
  <2> QED
    BY <1>1, <1>2, <2>3, <2>4, <2>5, <2>6, SilentStepKeeps
<1> QED
  BY <1>4, <1>5

-----------------------------------------------------------------------------
\* What a handler does.

\* A step that leaves the queue alone and moves one worker.
LEMMA MovesOnly ==
  ASSUME ProcessInv, NEW w \in Workers, NEW s, NEW l,
         UNCHANGED queueVars, pc' = [pc EXCEPT ![w] = s], loc' = [loc EXCEPT ![w] = l]
  PROVE  /\ Handled /\ cur' = cur /\ pc'[w] = s /\ loc'[w] = l
         /\ \A x \in Workers \ {w} : cur'[x] = cur[x] /\ pc'[x] = pc[x] /\ loc'[x] = loc[x]
BY DEF Handled, queueVars, ProcessInv, ProcessTypes

\* A step that writes no row and ends in `end` with a result, or in `mark` with
\* an error.
LEMMA LeavesKeep ==
  ASSUME Process!TelegramProcessAssumption, ProcessInv, NEW w \in Workers, pc[w] # "idle",
         UNCHANGED queueVars,
         UNCHANGED <<st, err, rev, par, var, intents, run, pin, active, held, healthy,
                     fenced, givenUp>>,
         \/ Process!Return(w, "succeeded") \/ Process!Return(w, "permanent")
         \/ \E r \in {"retryable", "needs_review", "permanent"}, code \in ErrorCodes :
              Process!Raise(w, r, code)
  PROVE  ProcessInv'
<1>1. /\ loc \in [Workers -> ProcessLocals] /\ ProcessWorker(w) /\ cur[w] \in Jobs
      /\ pc \in [Workers -> {"idle", "prepare", "call", "read", "write", "mark", "end"}]
  BY DEF ProcessInv, ProcessTypes, ProcessWorker
<1>2. \E s \in {"end", "mark"}, l \in ProcessLocals :
        /\ pc' = [pc EXCEPT ![w] = s] /\ loc' = [loc EXCEPT ![w] = l]
        /\ s = "end" => l.res \in Results
        /\ s = "mark" => l.res \in {"retryable", "needs_review", "permanent"}
  <2>1. CASE Process!Return(w, "succeeded") \/ Process!Return(w, "permanent")
    <3>1. PICK r \in {"succeeded", "permanent"} : Process!Return(w, r)
      BY <2>1
    <3>2. /\ [loc[w] EXCEPT !.res = r] \in ProcessLocals
          /\ [loc[w] EXCEPT !.res = r].res \in Results
      BY <1>1 DEF ProcessLocals, Results
    <3>3. /\ pc' = [pc EXCEPT ![w] = "end"]
          /\ loc' = [loc EXCEPT ![w] = [loc[w] EXCEPT !.res = r]]
      BY <1>1, <3>1 DEF Process!Return
    <3> QED
      BY <3>2, <3>3
  <2>2. CASE \E r \in {"retryable", "needs_review", "permanent"}, code \in ErrorCodes :
               Process!Raise(w, r, code)
    <3>1. PICK r \in {"retryable", "needs_review", "permanent"}, code \in ErrorCodes :
            Process!Raise(w, r, code)
      BY <2>2
    <3>2. /\ [loc[w] EXCEPT !.res = r, !.code = code] \in ProcessLocals
          /\ [loc[w] EXCEPT !.res = r, !.code = code].res = r
      BY <1>1 DEF ProcessLocals, Results
    <3>3. /\ pc' = [pc EXCEPT ![w] = "mark"]
          /\ loc' = [loc EXCEPT ![w] = [loc[w] EXCEPT !.res = r, !.code = code]]
      BY <1>1, <3>1 DEF Process!Raise
    <3> QED
      BY <3>2, <3>3
  <2> QED
    BY <2>1, <2>2
<1>3. PICK s \in {"end", "mark"}, l \in ProcessLocals :
        /\ pc' = [pc EXCEPT ![w] = s] /\ loc' = [loc EXCEPT ![w] = l]
        /\ s = "end" => l.res \in Results
        /\ s = "mark" => l.res \in {"retryable", "needs_review", "permanent"}
  BY <1>2
<1>4. ProcessTypes'
  BY <1>3 DEF ProcessInv, ProcessTypes
<1>5. ProcessWorker(w)'
  BY <1>1, <1>3, MovesOnly DEF ProcessWorker
<1>6. RunInv'
  BY DEF ProcessInv, RunInv
<1> QED
  BY <1>3, <1>4, <1>5, <1>6, MovesOnly, SilentStepKeeps

LEMMA ProcessLeaves ==
  ASSUME Process!TelegramProcessAssumption, ProcessInv, NEW w \in Workers,
         \/ Process!PrepareDone(w) \/ Process!PrepareFails(w) \/ Process!CallTooLate(w)
         \/ Process!CallSuperseded(w) \/ Process!WriteDone(w) \/ Process!WriteRefused(w)
  PROVE  ProcessInv'
<1>1. /\ UNCHANGED queueVars /\ pc[w] # "idle"
      /\ UNCHANGED <<st, err, rev, par, var, intents, run, pin, active, held, healthy,
                     fenced, givenUp>>
  BY DEF Process!PrepareDone, Process!PrepareFails, Process!CallTooLate,
         Process!CallSuperseded, Process!WriteDone, Process!WriteRefused,
         Process!Generates, Process!queueVars, Process!jobVars, queueVars, jobVars,
         Process!dispatchVars, Process!control
<1>2. \/ Process!Return(w, "succeeded") \/ Process!Return(w, "permanent")
      \/ \E r \in {"retryable", "needs_review", "permanent"}, code \in ErrorCodes :
           Process!Raise(w, r, code)
  BY DEF Process!PrepareDone, Process!PrepareFails, Process!CallTooLate,
         Process!CallSuperseded, Process!WriteDone, Process!WriteRefused, ErrorCodes
<1> QED
  BY <1>1, <1>2, LeavesKeep

LEMMA ProcessPrepares ==
  ASSUME Process!TelegramProcessAssumption, ProcessInv, NEW w \in Workers,
         Process!Prepare(w) \/ Process!PrepareReuse(w)
  PROVE  ProcessInv'
<1> USE ProcessConstants
<1>1. /\ loc \in [Workers -> ProcessLocals] /\ ProcessWorker(w)
      /\ pc \in [Workers -> {"idle", "prepare", "call", "read", "write", "mark", "end"}]
      /\ cur[w] \in Dispatches /\ ProcessTypes /\ loc[w] \in ProcessLocals
  BY DEF ProcessInv, ProcessTypes, ProcessWorker, Process!Prepare, Process!PrepareReuse,
         Process!Generates
<1>2. Process!ResolvedPrompt(w) \in 0..MaxPrompts
  BY <1>1 DEF Process!ResolvedPrompt, ProcessTypes, ProcessLocals
<1>3. CASE Process!PrepareReuse(w)
  <2>1. /\ UNCHANGED queueVars /\ pc' = [pc EXCEPT ![w] = "read"] /\ loc' = loc
        /\ UNCHANGED <<st, err, rev, par, var, intents, run, active, held, healthy,
                       fenced, givenUp>>
        /\ pin' = [pin EXCEPT ![cur[w]] = Process!ResolvedPrompt(w)]
    BY <1>3
    DEF Process!PrepareReuse, Process!queueVars, Process!jobVars, queueVars, jobVars,
        Process!dispatchVars, Process!control
  <2>2. loc' = [loc EXCEPT ![w] = loc[w]]
    BY <1>1, <2>1
  <2>3. ProcessTypes'
    BY <1>1, <1>2, <2>1 DEF ProcessTypes
  <2>4. RunInv'
    BY <2>1 DEF ProcessInv, RunInv
  <2>5. ProcessWorker(w)'
    BY <1>1, <2>1, <2>2, MovesOnly DEF ProcessWorker
  <2> QED
    BY <2>1, <2>2, <2>3, <2>4, <2>5, MovesOnly, SilentStepKeeps
<1>4. CASE Process!Prepare(w)
  <2>1. /\ UNCHANGED queueVars /\ pc' = [pc EXCEPT ![w] = "call"]
        /\ UNCHANGED <<rev, par, var, intents, active, held, healthy, fenced, givenUp>>
        /\ pin' = [pin EXCEPT ![cur[w]] = Process!ResolvedPrompt(w)]
        /\ st' = [st EXCEPT ![cur[w]] = "generating"]
        /\ err' = [err EXCEPT ![cur[w]] = "none"]
    BY <1>4
    DEF Process!Prepare, Process!queueVars, Process!jobVars, queueVars, jobVars,
        Process!dispatchVars, Process!control
  <2>2. run[cur[w]].act < MaxCalls /\ run[cur[w]].act + 1 \in 0..MaxCalls
    BY <1>1, <1>4 DEF Process!Prepare, ProcessTypes
  <2>3. PICK l : l = [loc[w] EXCEPT !.att = run[cur[w]].act + 1]
    OBVIOUS
  <2>4. l \in ProcessLocals /\ loc' = [loc EXCEPT ![w] = l]
    BY <1>1, <1>4, <2>2, <2>3 DEF Process!Prepare, ProcessLocals
  <2>5. PICK r : r = Process!NewAttempt(cur[w], Process!ResolvedPrompt(w))
    OBVIOUS
  <2>6. /\ run' = [run EXCEPT ![cur[w]] = r] /\ r.st = "running"
        /\ r \in [st : {"none", "running", "failed", "completed"},
                  act : 0..MaxCalls, in : 0..MaxPrompts, out : 0..MaxCalls]
    BY <1>1, <1>2, <1>4, <2>2, <2>5 DEF Process!Prepare, Process!NewAttempt, ProcessTypes
  <2>7. ProcessTypes'
    <3>1. /\ st' \in [Dispatches -> {"absent"} \cup Process!Blocking \cup Process!GivenUp
                                    \cup Process!Reviewed]
          /\ err' \in [Dispatches -> ErrorCodes]
      BY <1>1, <2>1 DEF ProcessTypes, Process!Blocking, ErrorCodes
    <3> QED
      BY <1>1, <1>2, <2>1, <2>4, <2>6, <3>1 DEF ProcessTypes
  <2>8. RunInv'
    BY <1>1, <2>6 DEF ProcessInv, ProcessTypes, RunInv
  <2>9. ProcessWorker(w)'
    BY <1>1, <2>1, <2>4, MovesOnly DEF ProcessWorker
  <2>10. st[cur[w]] # "absent"
    BY <1>1 DEF ProcessInv, DispatchInv, QueueInv, ClaimInv
  <2>11. /\ \A k \in Dispatches : st'[k] = "absent" <=> st[k] = "absent"
         /\ \A k \in Dispatches : k \in givenUp => k \in givenUp'
         /\ \A k \in Dispatches : st'[k] \in Process!GivenUp => k \in givenUp'
         /\ \A k \in Dispatches : st'[k] \in Process!Reviewed => rev[k] # 0
    BY <1>1, <2>1, <2>10
    DEF ProcessInv, ProcessTypes, DispatchInv, Process!GivenUp, Process!Reviewed
  <2> QED
    BY <2>1, <2>4, <2>7, <2>8, <2>9, <2>11, MovesOnly, WorkerStepKeeps
<1> QED
  BY <1>3, <1>4

\* The provider has answered.
LEMMA ProcessCalls ==
  ASSUME Process!TelegramProcessAssumption, ProcessInv, NEW w \in Workers,
         Process!CallSucceeds(w)
  PROVE  ProcessInv'
<1> USE ProcessConstants
<1>1. /\ loc \in [Workers -> ProcessLocals] /\ ProcessWorker(w) /\ RunInv
      /\ pc \in [Workers -> {"idle", "prepare", "call", "read", "write", "mark", "end"}]
      /\ cur[w] \in Dispatches /\ ProcessTypes /\ loc[w] \in ProcessLocals
  BY DEF ProcessInv, ProcessTypes, ProcessWorker, Process!CallSucceeds
<1>2. /\ UNCHANGED queueVars /\ pc' = [pc EXCEPT ![w] = "read"] /\ loc' = loc
      /\ UNCHANGED <<st, err, rev, par, var, intents, pin, active, held, healthy,
                     fenced, givenUp>>
      /\ run' = [run EXCEPT ![cur[w]].st = "completed", ![cur[w]].out = loc[w].att]
      /\ run[cur[w]].act = loc[w].att
  BY DEF Process!CallSucceeds, Process!IsActive, Process!queueVars, Process!jobVars,
         queueVars, jobVars, Process!dispatchVars, Process!control
<1>3. loc' = [loc EXCEPT ![w] = loc[w]]
  BY <1>1, <1>2
<1>4. PICK r : r = [run[cur[w]] EXCEPT !.st = "completed", !.out = loc[w].att]
  OBVIOUS
<1>5. /\ run' = [run EXCEPT ![cur[w]] = r] /\ r.out = r.act
      /\ r \in [st : {"none", "running", "failed", "completed"},
                act : 0..MaxCalls, in : 0..MaxPrompts, out : 0..MaxCalls]
  <2>1. PICK x, a : x = run[cur[w]] /\ a = loc[w].att
    OBVIOUS
  <2>2. /\ x \in [st : {"none", "running", "failed", "completed"},
                  act : 0..MaxCalls, in : 0..MaxPrompts, out : 0..MaxCalls]
        /\ a \in 0..MaxCalls /\ x.act = a
    BY <1>1, <1>2, <2>1 DEF ProcessTypes, ProcessLocals
  <2>3. r = [x EXCEPT !.st = "completed", !.out = a]
    BY <1>4, <2>1
  <2>4. run' = [run EXCEPT ![cur[w]] = r]
    BY <1>1, <1>2, <1>4 DEF ProcessTypes
  <2> QED
    BY <2>2, <2>3, <2>4
<1>6. ProcessTypes'
  BY <1>1, <1>2, <1>5 DEF ProcessTypes
<1>7. RunInv'
  BY <1>1, <1>5 DEF ProcessTypes, RunInv
<1>8. ProcessWorker(w)'
  BY <1>1, <1>2, <1>3, MovesOnly DEF ProcessWorker
<1> QED
  BY <1>2, <1>3, <1>6, <1>7, <1>8, MovesOnly, SilentStepKeeps

\* A failure is recorded.
LEMMA ProcessFails ==
  ASSUME Process!TelegramProcessAssumption, ProcessInv, NEW w \in Workers,
         Process!CallFails(w)
  PROVE  ProcessInv'
<1> USE ProcessConstants
<1>1. /\ loc \in [Workers -> ProcessLocals] /\ ProcessWorker(w) /\ RunInv
      /\ pc \in [Workers -> {"idle", "prepare", "call", "read", "write", "mark", "end"}]
      /\ cur[w] \in Dispatches /\ ProcessTypes /\ loc[w] \in ProcessLocals
      /\ st[cur[w]] # "absent"
  <2>1. pc[w] = "call"
    BY DEF Process!CallFails
  <2> QED
    BY <2>1 DEF ProcessInv, ProcessTypes, ProcessWorker, DispatchInv, QueueInv, ClaimInv
<1>2. /\ UNCHANGED queueVars /\ pc' = [pc EXCEPT ![w] = "mark"]
      /\ UNCHANGED <<err, rev, par, var, intents, pin, active, held, healthy, fenced>>
      /\ run' = [run EXCEPT ![cur[w]].st = "failed"]
      /\ givenUp' = givenUp \cup {cur[w]}
  BY DEF Process!CallFails, Process!queueVars, Process!jobVars, queueVars, jobVars,
         Process!control
<1>3. PICK r \in {"retryable", "needs_review", "permanent"} :
        /\ st' = [st EXCEPT ![cur[w]] = IF r = "needs_review" THEN r ELSE "failed"]
        /\ loc' = [loc EXCEPT ![w].res = r, ![w].code = "generation", ![w].stale = TRUE]
  BY DEF Process!CallFails, Process!Classified, Process!RetryClass
<1>4. PICK l : l = [loc[w] EXCEPT !.res = r, !.code = "generation", !.stale = TRUE]
  OBVIOUS
<1>5. l \in ProcessLocals /\ l.res = r /\ loc' = [loc EXCEPT ![w] = l]
  BY <1>1, <1>3, <1>4 DEF ProcessLocals, Results, ErrorCodes
<1>6. ProcessTypes'
  <2>1. /\ st' \in [Dispatches -> {"absent"} \cup Process!Blocking \cup Process!GivenUp
                                  \cup Process!Reviewed]
        /\ givenUp' \subseteq Dispatches
    BY <1>1, <1>2, <1>3 DEF ProcessTypes, Process!GivenUp
  <2>2. run' \in [Dispatches -> [st : {"none", "running", "failed", "completed"},
                                act : 0..MaxCalls, in : 0..MaxPrompts, out : 0..MaxCalls]]
    BY <1>1, <1>2 DEF ProcessTypes
  <2> QED
    BY <1>1, <1>2, <1>5, <2>1, <2>2 DEF ProcessTypes
<1>7. RunInv'
  BY <1>1, <1>2 DEF ProcessTypes, RunInv
<1>8. ProcessWorker(w)'
  BY <1>1, <1>2, <1>5, MovesOnly DEF ProcessWorker
<1>9. /\ \A k \in Dispatches : st'[k] = "absent" <=> st[k] = "absent"
      /\ \A k \in Dispatches : k \in givenUp => k \in givenUp'
      /\ \A k \in Dispatches : st'[k] \in Process!GivenUp => k \in givenUp'
      /\ \A k \in Dispatches : st'[k] \in Process!Reviewed => rev[k] # 0
  BY <1>1, <1>2, <1>3
  DEF ProcessInv, ProcessTypes, DispatchInv, Process!GivenUp, Process!Reviewed
<1> QED
  BY <1>2, <1>5, <1>6, <1>7, <1>8, <1>9, MovesOnly, WorkerStepKeeps

LEMMA ProcessMarks ==
  ASSUME Process!TelegramProcessAssumption, ProcessInv, NEW w \in Workers, Process!Mark(w)
  PROVE  ProcessInv'
<1> USE ProcessConstants
<1>1. /\ loc \in [Workers -> ProcessLocals] /\ ProcessWorker(w) /\ pc[w] = "mark"
      /\ pc \in [Workers -> {"idle", "prepare", "call", "read", "write", "mark", "end"}]
      /\ cur[w] \in Dispatches /\ ProcessTypes /\ loc[w] \in ProcessLocals
      /\ loc[w].res \in {"retryable", "needs_review", "permanent"}
      /\ st[cur[w]] # "absent"
  BY DEF ProcessInv, ProcessTypes, ProcessWorker, Process!Mark, DispatchInv, QueueInv,
         ClaimInv
<1>2. /\ UNCHANGED queueVars /\ pc' = [pc EXCEPT ![w] = "end"] /\ loc' = loc
      /\ UNCHANGED <<rev, par, var, intents, run, pin, active, held, healthy, fenced>>
      /\ givenUp' = IF st'[cur[w]] \in Process!GivenUp THEN givenUp \cup {cur[w]}
                    ELSE givenUp
  BY DEF Process!Mark, Process!queueVars, Process!jobVars, queueVars, jobVars,
         Process!control
<1>3. PICK s \in {"retryable", "needs_review", "failed"} :
        /\ st' = st \/ st' = [st EXCEPT ![cur[w]] = s]
        /\ err' = err \/ err' = [err EXCEPT ![cur[w]] = loc[w].code]
  BY <1>1 DEF Process!Mark
<1>4. loc' = [loc EXCEPT ![w] = loc[w]]
  BY <1>1, <1>2
<1>5. ProcessTypes'
  <2>1. /\ st' \in [Dispatches -> {"absent"} \cup Process!Blocking \cup Process!GivenUp
                                  \cup Process!Reviewed]
        /\ givenUp' \subseteq Dispatches
    BY <1>1, <1>2, <1>3 DEF ProcessTypes, Process!GivenUp, Process!Blocking
  <2>2. err' \in [Dispatches -> ErrorCodes]
    BY <1>1, <1>3 DEF ProcessTypes, ProcessLocals
  <2> QED
    BY <1>1, <1>2, <2>1, <2>2 DEF ProcessTypes
<1>6. RunInv'
  BY <1>2 DEF ProcessInv, RunInv
<1>7. ProcessWorker(w)'
  BY <1>1, <1>2, <1>4, MovesOnly DEF ProcessWorker, Results
<1>8. /\ \A k \in Dispatches : st'[k] = "absent" <=> st[k] = "absent"
      /\ \A k \in Dispatches : k \in givenUp => k \in givenUp'
      /\ \A k \in Dispatches : st'[k] \in Process!GivenUp => k \in givenUp'
      /\ \A k \in Dispatches : st'[k] \in Process!Reviewed => rev[k] # 0
  BY <1>1, <1>2, <1>3
  DEF ProcessInv, ProcessTypes, DispatchInv, Process!GivenUp, Process!Reviewed
<1>9. Handled /\ \A x \in Workers \ {w} : cur'[x] = cur[x] /\ pc'[x] = pc[x] /\ loc'[x] = loc[x]
  BY <1>2, <1>4, MovesOnly
<1>10. rev' = rev /\ var' = var
  BY <1>2
<1> QED
  BY <1>5, <1>6, <1>7, <1>8, <1>9, <1>10, WorkerStepKeeps

\* A non-empty set of numbers has a smallest one, and a largest one if it is bounded.
LEMMA SmallestOf ==
  ASSUME NEW T, T \subseteq Nat, T # {} PROVE \E x \in T : \A y \in T : x <= y
<1>1. PICK R : R = OpToRel(<, Nat)
  OBVIOUS
<1>2. IsWellFoundedOn(R, Nat)
  BY <1>1, NatLessThanWellFounded
<1>3. \E x \in T : \A y \in T : ~ (<<y, x>> \in R)
  BY <1>2, WFMin
<1>4. \A x, y \in Nat : y < x => <<y, x>> \in R
  BY <1>1 DEF OpToRel
<1>5. PICK x \in T : \A y \in T : ~ (<<y, x>> \in R)
  BY <1>3
<1>6. ASSUME NEW y \in T PROVE x <= y
  <2>1. x \in Nat /\ y \in Nat
    OBVIOUS
  <2>2. ~ (y < x)
    BY <1>4, <1>5, <2>1
  <2> QED
    BY <2>1, <2>2
<1> QED
  BY <1>6

LEMMA LargestOf ==
  ASSUME NEW n \in Nat, NEW S, S \subseteq 0..n, S # {}
  PROVE  \E e \in S : \A f \in S : f <= e
<1>1. PICK T : T = {n - e : e \in S}
  OBVIOUS
<1>2. T \subseteq Nat /\ T # {}
  <2>1. \A e \in 0..n : n - e \in Nat
    OBVIOUS
  <2> QED
    BY <1>1, <2>1
<1>3. PICK x \in T : \A y \in T : x <= y
  BY <1>2, SmallestOf
<1>4. PICK e \in S : x = n - e
  BY <1>1, <1>3
<1> QED
  BY <1>1, <1>3, <1>4
\* The parent is the newest earlier dispatch that has a revision.
LEMMA ParentIs ==
  ASSUME Process!TelegramProcessAssumption, NEW k \in Dispatches
  PROVE  /\ Process!Parent(k) \in 0..MaxDispatches
         /\ Process!Parent(k) = 0 => \A e \in Dispatches : e < k => rev[e] = 0
         /\ Process!Parent(k) # 0 =>
              /\ Process!Parent(k) \in Dispatches /\ Process!Parent(k) < k
              /\ rev[Process!Parent(k)] # 0
              /\ \A e \in Dispatches : e < k /\ rev[e] # 0 => e <= Process!Parent(k)
<1> USE ProcessConstants DEF Dispatches
<1>1. PICK older : older = {e \in 1..(k - 1) : rev[e] # 0}
  OBVIOUS
<1>2. Process!Parent(k) =
        IF older = {} THEN 0 ELSE CHOOSE e \in older : \A f \in older : f <= e
  BY <1>1 DEF Process!Parent
<1>3. CASE older = {}
  BY <1>1, <1>2, <1>3
<1>4. CASE older # {}
  <2>1. \A e \in older : e \in Dispatches /\ e < k /\ rev[e] # 0
    BY <1>1
  <2>2. \A e \in Dispatches : e < k /\ rev[e] # 0 => e \in older
    BY <1>1
  <2>3. PICK e \in older : \A f \in older : f <= e
    <3>1. older \subseteq 0..MaxDispatches
      BY <1>1
    <3> QED
      BY <1>4, <3>1, LargestOf
  <2>4. /\ Process!Parent(k) \in older /\ \A f \in older : f <= Process!Parent(k)
    BY <1>2, <1>4, <2>3
  <2> QED
    BY <2>1, <2>2, <2>4
<1> QED
  BY <1>3, <1>4

\* The inputs of a revision are read: nothing earlier holds the dispatch up.
LEMMA ProcessReads ==
  ASSUME Process!TelegramProcessAssumption, ProcessInv, NEW w \in Workers, Process!Read(w)
  PROVE  ProcessInv'
<1> USE ProcessConstants
<1>1. /\ loc \in [Workers -> ProcessLocals] /\ ProcessWorker(w) /\ pc[w] = "read"
      /\ pc \in [Workers -> {"idle", "prepare", "call", "read", "write", "mark", "end"}]
      /\ cur[w] \in Dispatches /\ ProcessTypes /\ loc[w] \in ProcessLocals
      /\ st[cur[w]] # "absent"
  BY DEF ProcessInv, ProcessTypes, ProcessWorker, Process!Read, DispatchInv, QueueInv,
         ClaimInv
<1>2. /\ UNCHANGED queueVars
      /\ UNCHANGED <<st, err, rev, par, var, intents, run, pin, active, held, healthy,
                     fenced, givenUp>>
  BY DEF Process!Read, Process!queueVars, Process!jobVars, queueVars, jobVars,
         Process!dispatchVars, Process!control
<1>3. CASE rev[cur[w]] # 0
  BY <1>1, <1>2, <1>3, LeavesKeep DEF Process!Read
<1>4. CASE rev[cur[w]] = 0 /\ Process!Waits(cur[w])
  <2>1. \E r \in {"retryable", "needs_review", "permanent"}, code \in ErrorCodes :
          Process!Raise(w, r, code)
    BY <1>4 DEF Process!Read, Process!RetryClass, ErrorCodes
  <2> QED
    BY <1>1, <1>2, <2>1, LeavesKeep
<1>5. CASE rev[cur[w]] = 0 /\ ~ Process!Waits(cur[w])
  <2>1. PICK k, f : k = cur[w] /\ f = Process!Parent(k)
    OBVIOUS
  <2>2. pc' = [pc EXCEPT ![w] = "write"] /\ loc' = [loc EXCEPT ![w].par = f]
    BY <1>5, <2>1 DEF Process!Read
  <2>3. PICK l : l = [loc[w] EXCEPT !.par = f]
    OBVIOUS
  <2>4. /\ f \in 0..MaxDispatches
        /\ f # 0 => f \in Dispatches /\ f < k /\ rev[f] # 0
    BY <1>1, <2>1, ParentIs
  <2>5. l \in ProcessLocals /\ l.par = f /\ loc' = [loc EXCEPT ![w] = l]
    BY <1>1, <2>2, <2>3, <2>4 DEF ProcessLocals
  <2>6. ASSUME NEW e \in Dispatches, e < k PROVE rev[e] # 0 \/ e \in givenUp
    <3>1. e \in 1..(k - 1)
      BY <1>1, <2>1, <2>6 DEF Dispatches
    <3>2. rev[e] # 0 \/ st[e] \notin Process!Blocking
      BY <1>5, <2>1, <3>1 DEF Process!Waits
    <3>3. st[e] # "absent"
      BY <1>1, <2>1, <2>6 DEF ProcessInv, DispatchInv
    <3>4. st[e] \in Process!GivenUp => e \in givenUp
      BY DEF ProcessInv, DispatchInv
    <3>5. st[e] \in Process!Reviewed => rev[e] # 0
      BY DEF ProcessInv, DispatchInv
    <3> QED
      BY <1>1, <3>2, <3>3, <3>4, <3>5 DEF ProcessTypes
  <2>7. ProcessWorker(w)'
    <3>1. pc'[w] = "write" /\ loc'[w] = l /\ cur'[w] = k /\ k \in Jobs
      BY <1>1, <1>2, <2>1, <2>2, <2>5, MovesOnly
    <3>2. rev' = rev /\ givenUp' = givenUp
      BY <1>2
    <3> QED
      BY <2>4, <2>5, <2>6, <3>1, <3>2 DEF ProcessWorker
  <2>8. ProcessTypes'
    BY <1>1, <1>2, <2>2, <2>5 DEF ProcessTypes
  <2>9. RunInv'
    BY <1>2 DEF ProcessInv, RunInv
  <2> QED
    BY <1>2, <2>2, <2>5, <2>7, <2>8, <2>9, MovesOnly, SilentStepKeeps
<1> QED
  BY <1>3, <1>4, <1>5

\* The count of the component is that of module FiniteSets.
LEMMA MadeCounted == \A S : Process!Cardinality(S) = Cardinality(S)
BY Zenon DEF Process!Cardinality, Cardinality

\* A revision is made: it is ranked after all others, and continues the variant
\* of the parent as it is under the locks.
LEMMA ProcessWrites ==
  ASSUME Process!TelegramProcessAssumption, ProcessInv, NEW w \in Workers, Process!Write(w)
  PROVE  ProcessInv'
<1> USE ProcessConstants
<1>1. /\ loc \in [Workers -> ProcessLocals] /\ ProcessWorker(w) /\ pc[w] = "write"
      /\ pc \in [Workers -> {"idle", "prepare", "call", "read", "write", "mark", "end"}]
      /\ cur[w] \in Dispatches /\ ProcessTypes /\ loc[w] \in ProcessLocals
      /\ st[cur[w]] # "absent" /\ rev[cur[w]] = 0
  BY DEF ProcessInv, ProcessTypes, ProcessWorker, Process!Write, Process!RevisionExists,
         DispatchInv, QueueInv, ClaimInv
<1>2. PICK k, f, v, n, s : /\ k = cur[w] /\ f = Process!Parent(k)
                           /\ v = Process!VariantUnder(k, loc[w].par)
                           /\ n = Cardinality(Made)
                           /\ s = IF Process!Approves(k) THEN "approved" ELSE "pending_review"
  OBVIOUS
<1>3. /\ UNCHANGED queueVars
      /\ UNCHANGED <<run, pin, active, held, healthy, fenced, givenUp>>
      /\ rev' = [rev EXCEPT ![k] = n + 1] /\ par' = [par EXCEPT ![k] = f]
      /\ var' = [var EXCEPT ![k] = v] /\ st' = [st EXCEPT ![k] = s]
      /\ err' = [err EXCEPT ![k] = "none"]
      /\ intents' = intents \/ intents' = intents \cup {k}
      /\ Process!Return(w, "succeeded")
  <2>1. UNCHANGED queueVars
    BY DEF Process!Write, Process!queueVars, Process!jobVars, queueVars, jobVars
  <2>2. UNCHANGED <<run, pin, active, held, healthy, fenced, givenUp>>
    BY DEF Process!Write, Process!control
  <2>3. /\ rev' = [rev EXCEPT ![k] = n + 1] /\ par' = [par EXCEPT ![k] = f]
        /\ var' = [var EXCEPT ![k] = v] /\ st' = [st EXCEPT ![k] = s]
    <3>1. {e \in Process!Dispatches : rev[e] # 0} = Made
      BY DEF Made
    <3>2. rev' = [rev EXCEPT ![k] = n + 1]
      <4>1. rev' = [rev EXCEPT ![cur[w]] =
                      Process!Cardinality({e \in Process!Dispatches : rev[e] # 0}) + 1]
        BY DEF Process!Write
      <4> QED
        BY <1>2, <3>1, <4>1, MadeCounted
    <3>3. par' = [par EXCEPT ![k] = f] /\ var' = [var EXCEPT ![k] = v]
      BY <1>2 DEF Process!Write
    <3>4. st' = [st EXCEPT ![k] = s]
      BY <1>2 DEF Process!Write
    <3> QED
      BY <3>2, <3>3, <3>4
  <2>4. err' = [err EXCEPT ![k] = "none"] /\ Process!Return(w, "succeeded")
    BY <1>2 DEF Process!Write
  <2>5. intents' = intents \/ intents' = intents \cup {k}
    BY <1>2 DEF Process!Write, Process!Intended
  <2> QED
    BY <2>1, <2>2, <2>3, <2>4, <2>5
<1>4. /\ f \in 0..MaxDispatches
      /\ f = 0 => \A e \in Dispatches : e < k => rev[e] = 0
      /\ f # 0 => /\ f \in Dispatches /\ f < k /\ rev[f] # 0
                  /\ \A e \in Dispatches : e < k /\ rev[e] # 0 => e <= f
  BY <1>1, <1>2, ParentIs
<1>5. f # 0 => v = var[f]
  BY <1>2, <1>4 DEF Process!Write, Process!LineageChanged
<1>6. v \in 0..MaxDispatches
  BY <1>1, <1>2 DEF Process!VariantUnder, ProcessTypes, ProcessLocals, ProcessWorker,
     Dispatches
<1>7. n \in Nat /\ n < MaxDispatches /\ Cardinality(Made') = n + 1
  <2>1. Made \subseteq Dispatches \ {k} /\ k \in Dispatches
    BY <1>1, <1>2 DEF Made
  <2>2. IsFiniteSet(Dispatches) /\ Cardinality(Dispatches) = MaxDispatches
    BY FS_Interval DEF Dispatches
  <2>3. IsFiniteSet(Dispatches \ {k}) /\ Cardinality(Dispatches \ {k}) = MaxDispatches - 1
    BY <2>1, <2>2, FS_RemoveElement
  <2>4. IsFiniteSet(Made) /\ Cardinality(Made) <= MaxDispatches - 1 /\ Cardinality(Made) \in Nat
    BY <2>1, <2>3, FS_Subset, FS_CardinalityType
  <2>5. Made' = Made \cup {k}
    <3>1. n + 1 # 0
      BY <1>2, <2>4
    <3>2. \A e \in Dispatches : rev'[e] # 0 <=> (e = k \/ rev[e] # 0)
      BY <1>1, <1>2, <1>3, <3>1 DEF ProcessTypes
    <3> QED
      BY <2>1, <3>2 DEF Made
  <2>6. k \notin Made
    BY <2>1
  <2>7. Cardinality(Made') = n + 1
    BY <1>2, <2>4, <2>5, <2>6, FS_AddElement
  <2> QED
    BY <1>2, <2>4, <2>7
<1>8. /\ pc' = [pc EXCEPT ![w] = "end"] /\ loc' = [loc EXCEPT ![w].res = "succeeded"]
  BY <1>3 DEF Process!Return
<1>9. PICK l : l = [loc[w] EXCEPT !.res = "succeeded"]
  OBVIOUS
<1>10. l \in ProcessLocals /\ l.res = "succeeded" /\ loc' = [loc EXCEPT ![w] = l]
  BY <1>1, <1>8, <1>9 DEF ProcessLocals, Results
<1>11. /\ Handled /\ pc'[w] = "end" /\ loc'[w] = l
       /\ \A x \in Workers \ {w} : cur'[x] = cur[x] /\ pc'[x] = pc[x] /\ loc'[x] = loc[x]
       /\ cur'[w] = cur[w]
  <2>1. UNCHANGED queueVars
    BY <1>3
  <2> QED
    <3>1. pc' = [pc EXCEPT ![w] = "end"] /\ loc' = [loc EXCEPT ![w] = l]
      BY <1>8, <1>10
    <3>2. cur' = cur /\ Handled
      BY <2>1, <3>1, MovesOnly
    <3>3. /\ pc \in [Workers -> {"idle", "prepare", "call", "read", "write", "mark", "end"}]
          /\ loc \in [Workers -> ProcessLocals]
      BY DEF ProcessInv, ProcessTypes
    <3>4. pc'[w] = "end" /\ loc'[w] = l
      BY <3>1, <3>3
    <3>5. \A x \in Workers \ {w} : pc'[x] = pc[x] /\ loc'[x] = loc[x]
      BY <3>1, <3>3
    <3> QED
      BY <3>2, <3>4, <3>5
<1>12. QueueInv' /\ JobsSame
  BY <1>11, HandledSame DEF ProcessInv
<1>13. ProcessTypes'
  <2>1. /\ st' \in [Dispatches -> {"absent"} \cup Process!Blocking \cup Process!GivenUp
                                  \cup Process!Reviewed]
        /\ err' \in [Dispatches -> ErrorCodes] /\ intents' \subseteq Dispatches
    BY <1>1, <1>2, <1>3 DEF ProcessTypes, Process!Reviewed, ErrorCodes
  <2>2. /\ rev' \in [Dispatches -> 0..MaxDispatches]
        /\ par' \in [Dispatches -> 0..MaxDispatches]
        /\ var' \in [Dispatches -> 0..MaxDispatches]
    <3>1. n + 1 \in 0..MaxDispatches
      BY <1>7
    <3> QED
      BY <1>1, <1>3, <1>4, <1>6, <3>1 DEF ProcessTypes
  <2> QED
    BY <1>1, <1>3, <1>8, <1>10, <2>1, <2>2 DEF ProcessTypes
<1>14. /\ rev'[k] = n + 1 /\ var'[k] = v /\ n + 1 # 0
       /\ \A e \in Dispatches \ {k} : rev'[e] = rev[e] /\ var'[e] = var[e] /\ st'[e] = st[e]
       /\ st'[k] \in {"approved", "pending_review"}
  BY <1>1, <1>2, <1>3, <1>7 DEF ProcessTypes
<1>15. \A e \in Dispatches : rev[e] \in Nat /\ rev[e] <= n /\ rev[e] # n + 1
  BY <1>1, <1>2, <1>7 DEF ProcessInv, ProcessTypes, RankInv
<1>16. DispatchInv'
  <2>1. k \in Dispatches /\ st[k] # "absent" /\ st'[k] # "absent"
        /\ st'[k] \notin Process!GivenUp
    BY <1>1, <1>2, <1>14 DEF Process!GivenUp
  <2> QED
    BY <1>3, <1>12, <1>14, <2>1 DEF ProcessInv, DispatchInv, JobsSame
<1>17. RankInv'
  <2> SUFFICES ASSUME NEW e \in Dispatches PROVE rev'[e] <= n + 1
    BY <1>7 DEF RankInv
  <2> QED
    BY <1>7, <1>14, <1>15
<1>18. RunInv'
  BY <1>3 DEF ProcessInv, RunInv
<1>19. ASSUME NEW x \in Workers PROVE ProcessWorker(x)'
  <2>1. CASE x = w
    BY <1>1, <1>10, <1>11, <2>1 DEF ProcessWorker, Results
  <2>2. CASE x # w
    <3>1. /\ \A e \in Dispatches : rev[e] # 0 => rev'[e] # 0
          /\ \A e \in Dispatches : e \in givenUp => e \in givenUp'
      BY <1>3, <1>14
    <3>2. ProcessWorker(x)
      BY DEF ProcessInv
    <3> QED
      BY <1>1, <1>11, <2>2, <3>1, <3>2, KnownStays
  <2> QED
    BY <2>1, <2>2
<1>20. Process!NoOvertaking'
  <2> SUFFICES ASSUME NEW x \in Dispatches, NEW e \in Dispatches, x < e, st'[x] # "absent",
                      rev'[e] # 0, rev'[x] = 0 \/ rev'[x] > rev'[e]
               PROVE  x \in givenUp
    BY <1>3 DEF Process!NoOvertaking
  <2>1. CASE e = k
    <3>1. x # k /\ rev'[x] = rev[x] /\ rev'[e] = n + 1
      BY <1>1, <1>2, <1>14, <2>1 DEF Dispatches
    <3>2. rev[x] = 0
      BY <1>7, <1>15, <3>1
    <3> QED
      BY <1>1, <1>2, <2>1, <3>2 DEF ProcessWorker
  <2>2. CASE x = k
    <3>1. e # k /\ rev[e] # 0 /\ rev[k] = 0 /\ st[k] # "absent"
      BY <1>1, <1>2, <1>14, <2>2 DEF Dispatches
    <3> QED
      BY <2>2, <3>1 DEF ProcessInv, Process!NoOvertaking
  <2>3. CASE x # k /\ e # k
    <3>1. st[x] # "absent" /\ rev[e] # 0 /\ (rev[x] = 0 \/ rev[x] > rev[e])
      BY <1>14, <2>3
    <3> QED
      BY <3>1 DEF ProcessInv, Process!NoOvertaking
  <2> QED
    BY <2>1, <2>2, <2>3
<1>21. Process!LineageShared'
  <2> SUFFICES ASSUME NEW x \in Dispatches, NEW e \in Dispatches,
                      x < e, rev'[x] # 0, rev'[x] < rev'[e],
                      \A g \in (x + 1)..(e - 1) : rev'[g] # 0 => rev'[x] < rev'[g]
               PROVE  var'[x] = var'[e]
    BY DEF Process!LineageShared
  <2>1. x # k
    BY <1>7, <1>14, <1>15
  <2>2. \A g \in Dispatches : x < g /\ g < e /\ rev[g] # 0 => rev[x] < rev[g]
    <3> SUFFICES ASSUME NEW g \in Dispatches, x < g, g < e, rev[g] # 0
                 PROVE  rev[x] < rev[g]
      OBVIOUS
    <3>1. g \in (x + 1)..(e - 1)
      BY DEF Dispatches
    <3>2. g # k
      BY <1>1, <1>2
    <3> QED
      BY <1>14, <2>1, <3>1, <3>2
  <2>3. ASSUME NEW y \in Dispatches, x < y, y <= e, rev[x] # 0, rev[x] < rev[y]
        PROVE  var[x] = var[y]
    <3>1. \A g \in (x + 1)..(y - 1) : g \in Dispatches /\ x < g /\ g < e
      BY <2>3 DEF Dispatches
    <3>2. \A g \in (x + 1)..(y - 1) : rev[g] # 0 => rev[x] < rev[g]
      BY <2>2, <3>1
    <3> QED
      BY <2>3, <3>2 DEF ProcessInv, Process!LineageShared
  <2>4. CASE e = k
    <3>1. rev[x] # 0 /\ x < k
      BY <1>14, <2>1, <2>4
    <3>2. f # 0 /\ f \in Dispatches /\ f < k /\ rev[f] # 0 /\ x <= f
      BY <1>4, <3>1
    <3>3. var'[e] = var[f] /\ var'[x] = var[x]
      BY <1>5, <1>14, <2>1, <2>4, <3>2
    <3>4. CASE x = f
      BY <3>3, <3>4
    <3>5. CASE x # f
      <4>1. x < f /\ f < e
        BY <2>4, <3>2, <3>5 DEF Dispatches
      <4>2. rev[x] < rev[f]
        BY <2>2, <3>2, <4>1
      <4>3. var[x] = var[f]
        BY <2>3, <3>1, <3>2, <4>1, <4>2 DEF Dispatches
      <4> QED
        BY <3>3, <4>3
    <3> QED
      BY <3>4, <3>5
  <2>5. CASE e # k
    <3>1. rev[x] # 0 /\ rev[x] < rev[e]
      BY <1>14, <2>1, <2>5
    <3>2. var[x] = var[e]
      BY <2>3, <3>1 DEF Dispatches
    <3> QED
      BY <1>14, <2>1, <2>5, <3>2
  <2> QED
    BY <2>4, <2>5
<1> QED
  BY <1>12, <1>13, <1>16, <1>17, <1>18, <1>19, <1>20, <1>21 DEF ProcessInv

\* The invariant is kept.
LEMMA ProcessKeeps ==
  ASSUME Process!TelegramProcessAssumption PROVE Process!Spec => []ProcessInv
<1>1. Process!Init => ProcessInv
  BY ProcessStarts
<1>2. ProcessInv /\ [Process!Next]_(Process!vars) => ProcessInv'
  <2> SUFFICES ASSUME ProcessInv, [Process!Next]_(Process!vars) PROVE ProcessInv'
    OBVIOUS
  <2>1. CASE \/ Process!Capture \/ Process!ActivatePrompt \/ Process!ToggleGate
             \/ Process!ToggleFence \/ UNCHANGED Process!vars
             \/ \E j \in Jobs : Process!Recover(j) \/ Process!Operate(j)
    BY <2>1, ProcessCaptures, ProcessAround, ProcessRecovers
  <2>2. ASSUME NEW w \in Workers,
               Process!Start(w) \/ Process!WorkerStep(w) \/ Process!Crash(w)
        PROVE  ProcessInv'
    BY <2>2, ProcessClaims, ProcessLeaves, ProcessPrepares, ProcessCalls, ProcessFails,
       ProcessMarks, ProcessReads, ProcessWrites DEF Process!WorkerStep
  <2> QED
    BY <2>1, <2>2 DEF Process!Next
<1> QED
  BY <1>1, <1>2, PTL DEF Process!Spec

\* Every variable of the processing has its type in every reachable state.
THEOREM ProcessTypeCorrect ==
  ASSUME Process!TelegramProcessAssumption PROVE Process!Spec => []Process!TypeOK
<1>1. ProcessInv => Process!TypeOK
  BY ProcessTyped
<1> QED
  BY <1>1, ProcessKeeps, PTL

\* A later dispatch gets its revision before an earlier one only if the earlier
\* one had been given up, whatever workers die, come back late or are retried
\* (_wait_for_earlier_revision).
THEOREM DispatchesInOrder ==
  ASSUME Process!TelegramProcessAssumption PROVE Process!Spec => []Process!NoOvertaking
BY ProcessKeeps, PTL DEF ProcessInv

\* Unless one in between was made first, a later dispatch continues the variant
\* of an earlier one (_route_parent_revision, _validate_refreshed_parent).
THEOREM LineageContinues ==
  ASSUME Process!TelegramProcessAssumption PROVE Process!Spec => []Process!LineageShared
BY ProcessKeeps, PTL DEF ProcessInv

\* Only Write touches revisions and intents.
LEMMA RevisionSteps ==
  ASSUME Process!Next
  PROVE  UNCHANGED <<rev, par, var, intents>> \/ \E w \in Workers : Process!Write(w)
<1> USE DEF Process!dispatchVars
<1>1. CASE \/ Process!Capture \/ Process!ActivatePrompt \/ Process!ToggleGate
           \/ Process!ToggleFence \/ \E j \in Jobs : Process!Recover(j) \/ Process!Operate(j)
  BY <1>1 DEF Process!Capture, Process!ActivatePrompt, Process!ToggleGate,
              Process!ToggleFence, Process!Recover, Process!Operate
<1>2. ASSUME NEW w \in Workers,
             \/ Process!Start(w) \/ Process!Crash(w) \/ Process!Refuse(w)
             \/ Process!PrepareDone(w) \/ Process!PrepareReuse(w)
             \/ Process!PrepareFails(w) \/ Process!Prepare(w) \/ Process!End(w)
      PROVE  UNCHANGED <<rev, par, var, intents>>
  BY <1>2, SMTT(30)
  DEF Process!Start, Process!Crash, Process!Refuse, Process!PrepareDone,
      Process!PrepareReuse, Process!PrepareFails, Process!Prepare, Process!End
<1>3. ASSUME NEW w \in Workers,
             \/ Process!CallSucceeds(w) \/ Process!CallTooLate(w)
             \/ Process!CallSuperseded(w) \/ Process!CallFails(w) \/ Process!Mark(w)
             \/ Process!Read(w) \/ Process!WriteDone(w) \/ Process!WriteRefused(w)
      PROVE  UNCHANGED <<rev, par, var, intents>>
  BY <1>3 DEF Process!CallSucceeds, Process!CallTooLate, Process!CallSuperseded,
              Process!CallFails, Process!Mark, Process!Read, Process!WriteDone,
              Process!WriteRefused
<1> QED
  BY <1>1, <1>2, <1>3 DEF Process!Next, Process!WorkerStep

LEMMA KeepsRevisionsStep ==
  ASSUME Process!TelegramProcessAssumption, ProcessInv, Process!Next
  PROVE  Process!KeepsRevisions /\ Process!PublishesUnderOpenGate
<1>1. CASE UNCHANGED <<rev, par, var, intents>>
  BY <1>1 DEF Process!KeepsRevisions, Process!PublishesUnderOpenGate
<1>2. ASSUME NEW w \in Workers, Process!Write(w)
      PROVE  Process!KeepsRevisions /\ Process!PublishesUnderOpenGate
  <2>1. PICK k, n, f, v :
          /\ k = cur[w] /\ rev[k] = 0 /\ n \in Nat \ {0}
          /\ rev' = [rev EXCEPT ![k] = n] /\ par' = [par EXCEPT ![k] = f]
          /\ var' = [var EXCEPT ![k] = v]
    <3>1. Cardinality(Made) \in Nat
      <4>1. Made \subseteq Dispatches
        BY DEF Made
      <4>2. IsFiniteSet(Dispatches)
        BY FS_Interval, ProcessConstants DEF Dispatches
      <4> QED
        BY <4>1, <4>2, FS_Subset, FS_CardinalityType
    <3>2. {e \in Process!Dispatches : rev[e] # 0} = Made
      BY ProcessConstants DEF Made
    <3>3. /\ rev[cur[w]] = 0
          /\ rev' = [rev EXCEPT ![cur[w]] =
                      Process!Cardinality({e \in Process!Dispatches : rev[e] # 0}) + 1]
          /\ par' = [par EXCEPT ![cur[w]] = Process!Parent(cur[w])]
          /\ var' = [var EXCEPT ![cur[w]] = Process!VariantUnder(cur[w], loc[w].par)]
      BY <1>2 DEF Process!Write, Process!RevisionExists
    <3>4. rev' = [rev EXCEPT ![cur[w]] = Cardinality(Made) + 1]
      BY <3>2, <3>3, MadeCounted
    <3>5. Cardinality(Made) + 1 \in Nat \ {0}
      BY <3>1
    <3> QED
      BY <3>3, <3>4, <3>5
  <2>2. /\ rev \in [Dispatches -> 0..MaxDispatches] /\ par \in [Dispatches -> 0..MaxDispatches]
        /\ var \in [Dispatches -> 0..MaxDispatches] /\ k \in Dispatches
        /\ st = [e \in Dispatches |-> st[e]] /\ Process!Dispatches = Dispatches
    <3>1. pc[w] = "write"
      BY <1>2 DEF Process!Write
    <3> QED
      BY <2>1, <3>1, ProcessConstants DEF ProcessInv, ProcessTypes, ProcessWorker
  <2>3. /\ intents' = intents \/ (Process!Approves(k) /\ intents' = intents \cup {k})
        /\ st' = [st EXCEPT ![k] = IF Process!Approves(k) THEN "approved"
                                   ELSE "pending_review"]
    BY <1>2, <2>1 DEF Process!Write, Process!Intended
  <2>4. Process!KeepsRevisions
    BY <2>1, <2>2, <2>3 DEF Process!KeepsRevisions
  <2>5. Process!PublishesUnderOpenGate
    <3> SUFFICES ASSUME NEW e \in intents' \ intents
                 PROVE  Process!GateOpen /\ rev'[e] # 0 /\ st'[e] = "approved"
      BY DEF Process!PublishesUnderOpenGate
    <3>1. e = k /\ Process!Approves(k)
      BY <2>3
    <3>2. Process!GateOpen
      BY <3>1 DEF Process!Approves
    <3> QED
      BY <2>1, <2>2, <2>3, <3>1, <3>2
  <2> QED
    BY <2>4, <2>5
<1> QED
  BY <1>1, <1>2, RevisionSteps

\* A run that is completed is left alone, or completed again by the same attempt.
LEMMA KeepsOutputStep ==
  ASSUME Process!TelegramProcessAssumption, ProcessInv, Process!Next
  PROVE  Process!KeepsOutput
<1> USE ProcessConstants
<1> SUFFICES ASSUME NEW k \in Dispatches, run[k].st = "completed"
             PROVE  run'[k].out = run[k].out
  BY DEF Process!KeepsOutput
<1>1. /\ run[k].out = run[k].act
      /\ run \in [Dispatches -> [st : {"none", "running", "failed", "completed"},
                                 act : 0..MaxCalls, in : 0..MaxPrompts, out : 0..MaxCalls]]
  BY DEF ProcessInv, ProcessTypes, RunInv
<1>2. CASE \/ Process!Capture \/ Process!ActivatePrompt \/ Process!ToggleGate
           \/ Process!ToggleFence \/ \E j \in Jobs : Process!Operate(j)
  BY <1>2 DEF Process!Capture, Process!ActivatePrompt, Process!ToggleGate,
              Process!ToggleFence, Process!Operate
<1>3. ASSUME NEW j \in Jobs, Process!Recover(j) PROVE run'[k].out = run[k].out
  BY <1>1, <1>3 DEF Process!Recover
<1>4. ASSUME NEW w \in Workers,
             \/ Process!Start(w) \/ Process!Crash(w) \/ Process!Refuse(w)
             \/ Process!PrepareDone(w) \/ Process!PrepareReuse(w)
             \/ Process!PrepareFails(w) \/ Process!End(w) \/ Process!Mark(w)
             \/ Process!Read(w) \/ Process!WriteDone(w) \/ Process!WriteRefused(w)
             \/ Process!Write(w) \/ Process!CallTooLate(w) \/ Process!CallSuperseded(w)
      PROVE  run' = run
  BY <1>4 DEF Process!Start, Process!Crash, Process!Refuse, Process!PrepareDone,
              Process!PrepareReuse, Process!PrepareFails, Process!End, Process!Mark,
              Process!Read, Process!WriteDone, Process!WriteRefused, Process!Write,
              Process!CallTooLate, Process!CallSuperseded
<1>5. ASSUME NEW w \in Workers, Process!Prepare(w) PROVE run'[k].out = run[k].out
  <2>1. k # cur[w]
    BY <1>5 DEF Process!Prepare, Process!Generates
  <2> QED
    BY <1>1, <1>5, <2>1 DEF Process!Prepare
<1>6. ASSUME NEW w \in Workers, Process!CallFails(w) PROVE run'[k].out = run[k].out
  BY <1>1, <1>6 DEF Process!CallFails
<1>7. ASSUME NEW w \in Workers, Process!CallSucceeds(w) PROVE run'[k].out = run[k].out
  <2>1. PICK a, x : a = loc[w].att /\ x = cur[w]
    OBVIOUS
  <2>2. /\ run[x].act = a /\ run' = [run EXCEPT ![x].st = "completed", ![x].out = a]
    BY <1>7, <2>1 DEF Process!CallSucceeds, Process!IsActive
  <2>3. CASE k # x
    BY <1>1, <2>2, <2>3
  <2>4. CASE k = x
    BY <1>1, <2>2, <2>4
  <2> QED
    BY <2>3, <2>4
<1> QED
  BY <1>2, <1>3, <1>4, <1>5, <1>6, <1>7 DEF Process!Next, Process!WorkerStep

\* A dispatch keeps its revision and its place in the lineage, the output of a
\* run stays that of the attempt that completed it, and what is published
\* without a review was allowed at that moment.
THEOREM DispatchKeepsRevision ==
  ASSUME Process!TelegramProcessAssumption
  PROVE  Process!Spec => [][/\ Process!KeepsRevisions /\ Process!KeepsOutput
                            /\ Process!PublishesUnderOpenGate]_(Process!vars)
<1>1. ProcessInv /\ [Process!Next]_(Process!vars) =>
        [/\ Process!KeepsRevisions /\ Process!KeepsOutput
         /\ Process!PublishesUnderOpenGate]_(Process!vars)
  <2> SUFFICES ASSUME ProcessInv, Process!Next
               PROVE  /\ Process!KeepsRevisions /\ Process!KeepsOutput
                      /\ Process!PublishesUnderOpenGate
    OBVIOUS
  <2> QED
    BY KeepsRevisionsStep, KeepsOutputStep
<1> QED
  BY <1>1, ProcessKeeps, PTL DEF Process!Spec

\* Without lost leases a job has one worker, and it goes on with the prompt in
\* the payload, which is that of the run.
HolderInv == \A w \in Workers : cur[w] # NoJob => Process!Holds(w)

PromptInv ==
  /\ \A k \in Dispatches : /\ run[k].st # "none" => pin[k] = run[k].in /\ run[k].in # 0
                           /\ err[k] # "drift"
  /\ \A w \in Workers : /\ pc[w] = "prepare" => loc[w].pin = pin[cur[w]]
                        /\ loc[w].code # "drift"

\* What a provider is asked for has a run.
CallInv == \A w \in Workers : pc[w] = "call" => run[cur[w]].st # "none"

LEMMA CallsStay ==
  ASSUME Process!TelegramProcessAssumption, ProcessInv, CallInv,
         [Process!Next]_(Process!vars)
  PROVE  CallInv'
<1> USE ProcessConstants DEF CallInv
<1>1. /\ run \in [Dispatches -> [st : {"none", "running", "failed", "completed"},
                                 act : 0..MaxCalls, in : 0..MaxPrompts, out : 0..MaxCalls]]
      /\ pc \in [Workers -> {"idle", "prepare", "call", "read", "write", "mark", "end"}]
      /\ cur \in [Workers -> Jobs \cup {NoJob}]
      /\ \A w \in Workers : pc[w] # "idle" => cur[w] \in Dispatches
  BY DEF ProcessInv, ProcessTypes, QueueInv, QueueTypeOK, ProcessWorker
<1>2. CASE \/ Process!Capture \/ Process!ActivatePrompt \/ Process!ToggleGate
           \/ Process!ToggleFence \/ UNCHANGED Process!vars
           \/ \E j \in Jobs : Process!Operate(j)
  <2>1. UNCHANGED <<run, pc, cur>>
    BY <1>2
    DEF Process!Capture, Process!ActivatePrompt, Process!ToggleGate, Process!ToggleFence,
        Process!Operate, Process!EnqueueJob, Process!CancelJob, Process!RetryJob,
        Process!vars, Process!dispatchVars, Process!control, Process!locals,
        Process!queueVars, Process!jobVars
  <2> QED
    BY <2>1
<1>3. ASSUME NEW j \in Jobs, Process!Recover(j) PROVE CallInv'
  <2>1. /\ pc' = pc /\ cur' = cur
        /\ run' = run \/ run' = [run EXCEPT ![j].st = "failed"]
    BY <1>3 DEF Process!Recover, Process!RecoverJob, Process!locals
  <2> QED
    BY <1>1, <2>1
\* A worker that is not about to call writes no run, or a status of one.
<1>4. ASSUME NEW w \in Workers, NEW s \in {"idle", "prepare", "read", "mark", "end", "write"},
             pc' = [pc EXCEPT ![w] = s], \A x \in Workers \ {w} : cur'[x] = cur[x],
             \A k \in Dispatches : run'[k].st = run[k].st \/ run'[k].st # "none"
      PROVE  CallInv'
  BY <1>1, <1>4
<1>5. ASSUME NEW w \in Workers, Process!Start(w) \/ Process!Crash(w) PROVE CallInv'
  <2>1. /\ run' = run /\ \A x \in Workers \ {w} : cur'[x] = cur[x]
        /\ \E s \in {"idle", "prepare"} : pc' = [pc EXCEPT ![w] = s]
    BY <1>1, <1>5 DEF Process!Start, Process!Crash, Process!ClaimJob, Process!Die
  <2> QED
    BY <1>4, <2>1
<1>6. ASSUME NEW w \in Workers,
             \/ Process!Refuse(w) \/ Process!PrepareDone(w) \/ Process!PrepareReuse(w)
             \/ Process!PrepareFails(w) \/ Process!CallTooLate(w)
             \/ Process!CallSuperseded(w) \/ Process!Mark(w) \/ Process!Read(w)
             \/ Process!WriteDone(w) \/ Process!WriteRefused(w) \/ Process!Write(w)
             \/ Process!End(w)
      PROVE  CallInv'
  <2>1. run' = run /\ \A x \in Workers \ {w} : cur'[x] = cur[x]
    BY <1>1, <1>6
    DEF Process!Refuse, Process!End, Process!PrepareDone, Process!PrepareReuse,
        Process!PrepareFails, Process!CallTooLate, Process!CallSuperseded, Process!Mark,
        Process!Read, Process!WriteDone, Process!WriteRefused, Process!Write,
        Process!CloseJob, Process!queueVars
  <2>2. \E s \in {"idle", "prepare", "read", "mark", "end", "write"} :
          pc' = [pc EXCEPT ![w] = s]
    BY <1>6
    DEF Process!Refuse, Process!End, Process!PrepareDone, Process!PrepareReuse,
        Process!PrepareFails, Process!CallTooLate, Process!CallSuperseded, Process!Mark,
        Process!Read, Process!WriteDone, Process!WriteRefused, Process!Write,
        Process!Return, Process!Raise
  <2> QED
    BY <1>4, <2>1, <2>2
<1>7. ASSUME NEW w \in Workers, Process!CallSucceeds(w) \/ Process!CallFails(w)
      PROVE  CallInv'
  <2>1. PICK a, k : a = loc[w].att /\ k = cur[w]
    OBVIOUS
  <2>2. /\ cur' = cur /\ pc[w] = "call" /\ \E s \in {"read", "mark"} : pc' = [pc EXCEPT ![w] = s]
        /\ \/ run' = [run EXCEPT ![k].st = "completed", ![k].out = a]
           \/ run' = [run EXCEPT ![k].st = "failed"]
    BY <1>7, <2>1 DEF Process!CallSucceeds, Process!CallFails, Process!queueVars
  <2>3. k \in Dispatches
    BY <1>1, <2>1, <2>2
  <2>4. \A x \in Dispatches : run'[x].st = run[x].st \/ run'[x].st # "none"
    <3>1. CASE run' = [run EXCEPT ![k].st = "completed", ![k].out = a]
      BY <1>1, <2>3, <3>1
    <3>2. CASE run' = [run EXCEPT ![k].st = "failed"]
      BY <1>1, <2>3, <3>2
    <3> QED
      BY <2>2, <3>1, <3>2
  <2> QED
    BY <1>4, <2>2, <2>4
<1>8. ASSUME NEW w \in Workers, Process!Prepare(w) PROVE CallInv'
  <2>1. PICK k, r : k = cur[w] /\ r = Process!ResolvedPrompt(w)
    OBVIOUS
  <2>2. /\ cur' = cur /\ pc[w] = "prepare" /\ pc' = [pc EXCEPT ![w] = "call"]
        /\ run' = [run EXCEPT ![k] = [run[k] EXCEPT !.st = "running", !.act = @ + 1,
                                                    !.in = r]]
    BY <1>8, <2>1
    DEF Process!Prepare, Process!Generates, Process!NewAttempt, Process!queueVars
  <2>3. k \in Dispatches
    BY <1>1, <2>1, <2>2
  <2>4. run'[k].st = "running" /\ \A x \in Dispatches \ {k} : run'[x] = run[x]
    BY <1>1, <2>2, <2>3
  <2> QED
    BY <1>1, <2>1, <2>2, <2>4
<1> QED
  BY <1>2, <1>3, <1>5, <1>6, <1>7, <1>8 DEF Process!Next, Process!WorkerStep

LEMMA HoldersStay ==
  ASSUME Process!TelegramProcessAssumption, ProcessInv, HolderInv,
         "lease" \notin Disturbances, [Process!Next]_(Process!vars)
  PROVE  HolderInv'
<1> USE DEF HolderInv, Process!Holds, Process!jobVars, Process!queueVars
<1>1. /\ job \in [Jobs -> JobStatuses] /\ owner \in [Jobs -> Workers \cup {Nobody}]
      /\ cur \in [Workers -> Jobs \cup {NoJob}] /\ NoJob \notin Jobs
  BY HandlerRunsAssumption DEF ProcessInv, QueueInv, QueueTypeOK
<1>2. ASSUME NEW j \in Jobs, Process!Recover(j) PROVE HolderInv'
  <2>1. /\ \A w \in Workers : cur[w] # j
        /\ cur' = cur /\ \E s : job' = [job EXCEPT ![j] = s]
        /\ owner' = [owner EXCEPT ![j] = Nobody]
    BY <1>2 DEF Process!Recover, Process!RecoverJob
  <2> QED
    BY <1>1, <2>1
<1>3. ASSUME NEW j \in Jobs, Process!Operate(j) PROVE HolderInv'
  <2>1. /\ job[j] # "running" /\ cur' = cur /\ owner' = owner
        /\ \E s : job' = [job EXCEPT ![j] = s]
    BY <1>3 DEF Process!Operate, Process!CancelJob, Process!RetryJob
  <2> QED
    BY <1>1, <2>1
<1>4. ASSUME Process!Capture PROVE HolderInv'
  <2>1. \E j : /\ job[j] = "absent" /\ cur' = cur /\ owner' = owner
               /\ job' = [job EXCEPT ![j] = "queued"]
    BY <1>4 DEF Process!Capture, Process!EnqueueJob
  <2> QED
    BY <1>1, <2>1
<1>5. ASSUME NEW w \in Workers, NEW j \in Jobs, Process!ClaimJob(w, j) PROVE HolderInv'
  <2>1. /\ job[j] = "queued" /\ owner' = [owner EXCEPT ![j] = w]
        /\ job' = [job EXCEPT ![j] = "running"] /\ cur' = [cur EXCEPT ![w] = j]
    BY <1>5 DEF Process!ClaimJob
  <2> QED
    BY <1>1, <2>1
<1>6. ASSUME NEW w \in Workers, NEW r, Process!CloseJob(w, r) PROVE HolderInv'
  <2>1. PICK k, s : k = cur[w] /\ s = Process!ClosedStatus(cur[w], r)
    OBVIOUS
  <2>2. /\ k \in Jobs /\ job[k] = "running" /\ owner[k] = w
        /\ job' = [job EXCEPT ![k] = s] /\ owner' = [owner EXCEPT ![k] = Nobody]
        /\ cur' = [cur EXCEPT ![w] = NoJob]
    BY <1>1, <1>6, <2>1 DEF Process!CloseJob
  <2> QED
    BY <1>1, <2>2
<1>7. ASSUME NEW w \in Workers, Process!Die(w) PROVE HolderInv'
  BY <1>1, <1>7 DEF Process!Die
<1>8. CASE UNCHANGED queueVars
  <2>1. job' = job /\ owner' = owner /\ cur' = cur
    BY <1>8 DEF queueVars, jobVars
  <2> QED
    BY <2>1
<1>9. ASSUME NEW w \in Workers, Process!WorkerStep(w)
      PROVE  UNCHANGED queueVars \/ \E r : Process!CloseJob(w, r)
  BY <1>9, Zenon
  DEF Process!WorkerStep, Process!Refuse, Process!End, Process!PrepareDone,
      Process!PrepareReuse, Process!PrepareFails, Process!Prepare, Process!CallSucceeds,
      Process!CallTooLate, Process!CallSuperseded, Process!CallFails, Process!Mark,
      Process!Read, Process!WriteDone, Process!WriteRefused, Process!Write, queueVars,
      jobVars
<1>10. CASE Process!ActivatePrompt \/ Process!ToggleGate \/ Process!ToggleFence
            \/ UNCHANGED Process!vars
  BY <1>8, <1>10 DEF Process!ActivatePrompt, Process!ToggleGate, Process!ToggleFence,
     Process!vars, queueVars, jobVars
<1>11. ASSUME NEW w \in Workers, Process!Start(w) \/ Process!Crash(w) PROVE HolderInv'
  BY <1>5, <1>7, <1>11 DEF Process!Start, Process!Crash
<1> QED
  BY <1>2, <1>3, <1>4, <1>6, <1>8, <1>9, <1>10, <1>11 DEF Process!Next

LEMMA PromptsStay ==
  ASSUME Process!TelegramProcessAssumption, ProcessInv, HolderInv, CallInv, PromptInv,
         "lease" \notin Disturbances, [Process!Next]_(Process!vars)
  PROVE  PromptInv'
<1> USE ProcessConstants
<1>1. /\ run \in [Dispatches -> [st : {"none", "running", "failed", "completed"},
                                 act : 0..MaxCalls, in : 0..MaxPrompts, out : 0..MaxCalls]]
      /\ pin \in [Dispatches -> 0..MaxPrompts] /\ active \in 1..MaxPrompts
      /\ err \in [Dispatches -> ErrorCodes] /\ loc \in [Workers -> ProcessLocals]
      /\ pc \in [Workers -> {"idle", "prepare", "call", "read", "write", "mark", "end"}]
      /\ cur \in [Workers -> Jobs \cup {NoJob}]
      /\ \A w \in Workers : pc[w] # "idle" => cur[w] \in Dispatches
  BY DEF ProcessInv, ProcessTypes, QueueInv, QueueTypeOK, ProcessWorker
<1>2. ASSUME UNCHANGED <<run, pin, err, loc, pc, cur>> PROVE PromptInv'
  BY <1>2 DEF PromptInv
<1>3. CASE \/ Process!Capture \/ Process!ActivatePrompt \/ Process!ToggleGate
           \/ Process!ToggleFence \/ UNCHANGED Process!vars
           \/ \E j \in Jobs : Process!Operate(j)
  BY <1>2, <1>3
  DEF Process!Capture, Process!ActivatePrompt, Process!ToggleGate, Process!ToggleFence,
      Process!Operate, Process!EnqueueJob, Process!CancelJob, Process!RetryJob,
      Process!vars, Process!dispatchVars, Process!control, Process!locals,
      Process!queueVars, Process!jobVars
<1>4. ASSUME NEW j \in Jobs, Process!Recover(j) PROVE PromptInv'
  <2>1. /\ UNCHANGED <<pin, err, loc, pc, cur>>
        /\ run' = run \/ (run[j].st = "running" /\ run' = [run EXCEPT ![j].st = "failed"])
    BY <1>4 DEF Process!Recover, Process!RecoverJob, Process!locals
  <2> QED
    BY <1>1, <2>1 DEF PromptInv
\* The steps of a worker, first those that write no run.
<1>5. ASSUME NEW w \in Workers, NEW s, NEW l,
             UNCHANGED <<run, pin>>,
             err' = err \/ err' = [err EXCEPT ![cur[w]] = loc[w].code],
             \A x \in Workers \ {w} : cur'[x] = cur[x],
             pc' = [pc EXCEPT ![w] = s], loc' = [loc EXCEPT ![w] = l],
             l.code # "drift", s = "prepare" => l.pin = pin[cur'[w]]
      PROVE  PromptInv'
  BY <1>1, <1>5 DEF PromptInv
<1>6. ASSUME NEW w \in Workers, Process!Start(w) PROVE PromptInv'
  <2>1. PICK j \in Jobs : /\ Process!ClaimJob(w, j)
                          /\ loc' = [loc EXCEPT ![w] = [Process!NoLoc EXCEPT !.pin = pin[j]]]
    BY <1>6 DEF Process!Start
  <2>2. /\ cur' = [cur EXCEPT ![w] = j] /\ pc' = [pc EXCEPT ![w] = "prepare"]
        /\ UNCHANGED <<run, pin, err>>
    BY <1>6, <2>1 DEF Process!Start, Process!ClaimJob, Process!dispatchVars
  <2>3. /\ [Process!NoLoc EXCEPT !.pin = pin[j]].pin = pin[j]
        /\ [Process!NoLoc EXCEPT !.pin = pin[j]].code = "none"
    BY DEF Process!NoLoc
  <2> QED
    BY <1>1, <1>5, <2>1, <2>2, <2>3
<1>7. ASSUME NEW w \in Workers, Process!Refuse(w) \/ Process!End(w) \/ Process!Crash(w)
      PROVE  PromptInv'
  <2>1. /\ cur' = [cur EXCEPT ![w] = NoJob] /\ pc' = [pc EXCEPT ![w] = "idle"]
        /\ UNCHANGED <<run, pin, err>>
        /\ loc' = loc \/ loc' = [loc EXCEPT ![w] = Process!NoLoc]
    BY <1>7 DEF Process!Refuse, Process!End, Process!Crash, Process!CloseJob, Process!Die,
                Process!dispatchVars
  <2>2. Process!NoLoc.code = "none"
    BY DEF Process!NoLoc
  <2>3. PICK l : l.code # "drift" /\ loc' = [loc EXCEPT ![w] = l]
    <3>1. loc[w].code # "drift" /\ loc = [loc EXCEPT ![w] = loc[w]]
      BY <1>1 DEF PromptInv
    <3> QED
      BY <2>1, <2>2, <3>1
  <2> QED
    BY <1>1, <1>5, <2>1, <2>3
\* Errors: only one is "drift".
<1>8. ASSUME NEW w \in Workers, pc[w] = "prepare"
      PROVE  /\ loc[w].pin = pin[cur[w]] /\ cur[w] \in Dispatches
             /\ ~ Process!InputDrifts(w)
             /\ Process!ResolvedPrompt(w) # 0
             /\ run[cur[w]].st # "none" => Process!ResolvedPrompt(w) = run[cur[w]].in
  BY <1>1, <1>8 DEF PromptInv, Process!InputDrifts, Process!ResolvedPrompt
<1>9. ASSUME NEW w \in Workers,
             \/ Process!PrepareDone(w) \/ Process!PrepareFails(w) \/ Process!CallTooLate(w)
             \/ Process!CallSuperseded(w) \/ Process!WriteDone(w) \/ Process!WriteRefused(w)
             \/ Process!Read(w)
      PROVE  PromptInv'
  <2>1. UNCHANGED <<run, pin, err, cur>>
    BY <1>9
    DEF Process!PrepareDone, Process!PrepareFails, Process!CallTooLate, Process!Read,
        Process!CallSuperseded, Process!WriteDone, Process!WriteRefused,
        Process!dispatchVars, Process!queueVars
  <2>2. \/ \E r : Process!Return(w, r)
        \/ \E r, code : Process!Raise(w, r, code) /\ code # "drift"
        \/ \E f : pc' = [pc EXCEPT ![w] = "write"] /\ loc' = [loc EXCEPT ![w].par = f]
    <3>1. CASE Process!PrepareFails(w)
      <4>1. ~ Process!InputDrifts(w)
        BY <1>8, <3>1 DEF Process!PrepareFails, Process!Generates
      <4> QED
        BY <3>1, <4>1 DEF Process!PrepareFails
    <3>2. CASE Process!Read(w)
      <4>1. CASE rev[cur[w]] # 0
        BY <3>2, <4>1 DEF Process!Read
      <4>2. CASE rev[cur[w]] = 0 /\ Process!Waits(cur[w])
        BY <3>2, <4>2 DEF Process!Read
      <4>3. CASE rev[cur[w]] = 0 /\ ~ Process!Waits(cur[w])
        BY <3>2, <4>3 DEF Process!Read
      <4> QED
        BY <4>1, <4>2, <4>3
    <3>3. CASE Process!WriteRefused(w)
      BY <3>3 DEF Process!WriteRefused
    <3> QED
      BY <1>9, <3>1, <3>2, <3>3 DEF Process!PrepareDone, Process!CallTooLate,
         Process!CallSuperseded, Process!WriteDone
  <2>3. PICK s, l : /\ pc' = [pc EXCEPT ![w] = s] /\ loc' = [loc EXCEPT ![w] = l]
                    /\ l.code # "drift" /\ s # "prepare"
    <3>1. loc[w] \in ProcessLocals /\ loc[w].code # "drift"
      BY <1>1 DEF PromptInv
    <3>2. ASSUME NEW r, Process!Return(w, r)
          PROVE  \E s, l : /\ pc' = [pc EXCEPT ![w] = s] /\ loc' = [loc EXCEPT ![w] = l]
                           /\ l.code # "drift" /\ s # "prepare"
      <4>1. PICK l : l = [loc[w] EXCEPT !.res = r]
        OBVIOUS
      <4>2. l.code # "drift" /\ loc' = [loc EXCEPT ![w] = l]
        BY <1>1, <3>1, <3>2, <4>1 DEF Process!Return, ProcessLocals
      <4> QED
        BY <3>2, <4>2 DEF Process!Return
    <3>3. ASSUME NEW r, NEW code, Process!Raise(w, r, code), code # "drift"
          PROVE  \E s, l : /\ pc' = [pc EXCEPT ![w] = s] /\ loc' = [loc EXCEPT ![w] = l]
                           /\ l.code # "drift" /\ s # "prepare"
      <4>1. PICK l : l = [loc[w] EXCEPT !.res = r, !.code = code]
        OBVIOUS
      <4>2. l.code = code /\ loc' = [loc EXCEPT ![w] = l]
        BY <1>1, <3>1, <3>3, <4>1 DEF Process!Raise, ProcessLocals
      <4> QED
        BY <3>3, <4>2 DEF Process!Raise
    <3>4. ASSUME NEW f, pc' = [pc EXCEPT ![w] = "write"], loc' = [loc EXCEPT ![w].par = f]
          PROVE  \E s, l : /\ pc' = [pc EXCEPT ![w] = s] /\ loc' = [loc EXCEPT ![w] = l]
                           /\ l.code # "drift" /\ s # "prepare"
      <4>1. PICK l : l = [loc[w] EXCEPT !.par = f]
        OBVIOUS
      <4>2. l.code # "drift" /\ loc' = [loc EXCEPT ![w] = l]
        BY <1>1, <3>1, <3>4, <4>1 DEF ProcessLocals
      <4> QED
        BY <3>4, <4>2
    <3> QED
      BY <2>2, <3>2, <3>3, <3>4
  <2> QED
    BY <1>5, <2>1, <2>3
<1>10. ASSUME NEW w \in Workers, Process!Mark(w) PROVE PromptInv'
  <2>1. /\ UNCHANGED <<run, pin>> /\ loc' = loc /\ cur' = cur
        /\ pc' = [pc EXCEPT ![w] = "end"]
        /\ err' = err \/ err' = [err EXCEPT ![cur[w]] = loc[w].code]
    BY <1>10 DEF Process!Mark, Process!queueVars
  <2>2. loc' = [loc EXCEPT ![w] = loc[w]] /\ loc[w].code # "drift"
    BY <1>1, <2>1 DEF PromptInv
  <2> QED
    BY <1>5, <2>1, <2>2
<1>11. ASSUME NEW w \in Workers, Process!Write(w) PROVE PromptInv'
  <2>1. /\ UNCHANGED <<run, pin>> /\ cur' = cur /\ err' = [err EXCEPT ![cur[w]] = "none"]
        /\ pc' = [pc EXCEPT ![w] = "end"] /\ loc' = [loc EXCEPT ![w].res = "succeeded"]
    BY <1>11 DEF Process!Write, Process!Return, Process!queueVars
  <2>2. \A x \in Workers : /\ loc'[x].code = loc[x].code
                           /\ pc'[x] = "prepare" => pc[x] = "prepare" /\ loc'[x] = loc[x]
    BY <1>1, <2>1 DEF ProcessLocals
  <2>3. \A k \in Dispatches : err'[k] = err[k] \/ err'[k] = "none"
    BY <1>1, <2>1
  <2> QED
    BY <2>1, <2>2, <2>3 DEF PromptInv
<1>12. ASSUME NEW w \in Workers, Process!CallFails(w) PROVE PromptInv'
  <2>1. PICK r : loc' = [loc EXCEPT ![w].res = r, ![w].code = "generation", ![w].stale = TRUE]
    BY <1>12 DEF Process!CallFails
  <2>2. /\ UNCHANGED <<pin, err>> /\ cur' = cur /\ pc[w] = "call"
        /\ pc' = [pc EXCEPT ![w] = "mark"] /\ run[cur[w]].st # "completed"
        /\ run' = [run EXCEPT ![cur[w]].st = "failed"]
    BY <1>12 DEF Process!CallFails, Process!queueVars
  <2>3. run[cur[w]].st # "none"
    BY <2>2 DEF CallInv
  <2>4. \A k \in Dispatches : /\ run'[k].in = run[k].in
                              /\ run'[k].st # "none" => run[k].st # "none"
    BY <1>1, <2>2, <2>3
  <2>5. \A x \in Workers : /\ loc'[x].code # "drift"
                           /\ pc'[x] = "prepare" => pc[x] = "prepare" /\ loc'[x] = loc[x]
    BY <1>1, <2>1, <2>2 DEF PromptInv, ProcessLocals
  <2> QED
    BY <2>2, <2>4, <2>5 DEF PromptInv
<1>13. ASSUME NEW w \in Workers, Process!CallSucceeds(w) PROVE PromptInv'
  <2>1. PICK a, k : a = loc[w].att /\ k = cur[w]
    OBVIOUS
  <2>2. /\ UNCHANGED <<pin, err>> /\ cur' = cur /\ loc' = loc
        /\ pc' = [pc EXCEPT ![w] = "read"] /\ run[k].st \in {"running", "completed"}
        /\ run' = [run EXCEPT ![k].st = "completed", ![k].out = a]
    BY <1>13, <2>1 DEF Process!CallSucceeds, Process!queueVars, Process!dispatchVars
  <2>3. \A x \in Dispatches : /\ run'[x].in = run[x].in
                              /\ run'[x].st # "none" => run[x].st # "none"
    BY <1>1, <2>2
  <2>4. \A x \in Workers : pc'[x] = "prepare" => pc[x] = "prepare"
    BY <1>1, <2>2
  <2> QED
    BY <2>2, <2>3, <2>4 DEF PromptInv
\* Who prepares is the only worker of the dispatch.
<1>14. ASSUME NEW w \in Workers, Process!Prepare(w) \/ Process!PrepareReuse(w)
       PROVE  PromptInv'
  <2>1. PICK k, r : k = cur[w] /\ r = Process!ResolvedPrompt(w)
    OBVIOUS
  <2>2. /\ pc[w] = "prepare" /\ cur' = cur /\ pin' = [pin EXCEPT ![k] = r]
        /\ \E s \in {"call", "read"} : pc' = [pc EXCEPT ![w] = s]
        /\ loc' = loc \/ \E a : loc' = [loc EXCEPT ![w].att = a]
        /\ err' = err \/ err' = [err EXCEPT ![k] = "none"]
    BY <1>14, <2>1
    DEF Process!Prepare, Process!PrepareReuse, Process!Generates, Process!queueVars,
        Process!dispatchVars
  <2>3. \A x \in Workers \ {w} : pc[x] = "prepare" => cur[x] # k
    BY <1>1, <1>8, <2>1, <2>2 DEF HolderInv, Process!Holds
  <2>4. \A x \in Workers : /\ loc'[x].code = loc[x].code /\ loc'[x].pin = loc[x].pin
                           /\ pc'[x] = "prepare" => x # w /\ pc[x] = "prepare"
    BY <1>1, <2>2 DEF ProcessLocals
  <2>5. k \in Dispatches /\ r # 0 /\ (run[k].st # "none" => r = run[k].in)
    BY <1>8, <2>1, <2>2
  <2>6. \A x \in Dispatches : run'[x].st # "none" => pin'[x] = run'[x].in /\ run'[x].in # 0
    <3>1. CASE Process!PrepareReuse(w)
      <4>1. run' = run
        BY <3>1 DEF Process!PrepareReuse
      <4> QED
        BY <1>1, <2>2, <2>5, <4>1 DEF PromptInv
    <3>2. CASE Process!Prepare(w)
      <4>1. run' = [run EXCEPT ![k] = [run[k] EXCEPT !.st = "running", !.act = @ + 1,
                                                     !.in = r]]
        BY <2>1, <3>2 DEF Process!Prepare, Process!NewAttempt
      <4>2. run'[k].in = r /\ \A x \in Dispatches \ {k} : run'[x] = run[x]
        BY <1>1, <2>5, <4>1
      <4> QED
        BY <1>1, <2>2, <2>5, <4>2 DEF PromptInv
    <3> QED
      BY <1>14, <3>1, <3>2
  <2>7. \A x \in Dispatches : err'[x] # "drift"
    BY <1>1, <2>2 DEF PromptInv
  <2>8. \A x \in Workers : pc'[x] = "prepare" => loc'[x].pin = pin'[cur'[x]]
    BY <1>1, <2>2, <2>3, <2>4 DEF PromptInv
  <2> QED
    BY <2>4, <2>6, <2>7, <2>8 DEF PromptInv
<1> QED
  BY <1>3, <1>4, <1>6, <1>7, <1>9, <1>10, <1>11, <1>12, <1>13, <1>14
  DEF Process!Next, Process!WorkerStep

\* A retry is never refused because its prompt is another one than that of the
\* first attempt: while no lease is lost under a live worker, the payload keeps
\* the prompt of the run (resolve_process_prompt, _upsert_generation_run).
THEOREM RetriesKeepThePrompt ==
  ASSUME Process!TelegramProcessAssumption, "lease" \notin Disturbances
  PROVE  Process!Spec => []Process!NoDrift
<1>1. Process!Init => HolderInv /\ CallInv /\ PromptInv
  BY ProcessConstants
  DEF Process!Init, Process!QueueInit, HolderInv, CallInv, PromptInv, Process!NoRun,
      Process!NoLoc
<1>2. /\ ProcessInv /\ HolderInv /\ CallInv /\ PromptInv /\ [Process!Next]_(Process!vars)
      => HolderInv' /\ CallInv' /\ PromptInv'
  BY CallsStay, HoldersStay, PromptsStay
<1>3. PromptInv => Process!NoDrift
  BY ProcessConstants DEF PromptInv, Process!NoDrift
<1> QED
  BY <1>1, <1>2, <1>3, ProcessKeeps, PTL DEF Process!Spec

-----------------------------------------------------------------------------
(* Research on a story (Research).  StudyInv is inductive: a run has a       *)
(* result when it has succeeded, and whoever subscribed to such a run has    *)
(* its continuation among the jobs.                                          *)

CONSTANTS Pages, MaxRevisions, Mode, CompleteAt
VARIABLES evidence, latest, srev, cap, done, subs, att
Study == INSTANCE Research

\* The steps of a worker, and the rows of research_runs.
StudySteps ==
  {"idle", "start", "call", "failing", "retryable", "needs_review", "succeeded"}

StudyRuns ==
  [st : {"none", "queued", "running", "succeeded", "needs_review", "failed"}, att : Nat,
   attSt : {"none", "running", "succeeded", "needs_review", "failed"}, res : 0..MaxRevisions]

\* The rows of the story, its dispatches and research keep their types.
StudyTypes ==
  /\ evidence \subseteq Dispatches \cup Pages
  /\ latest \in 0..MaxRevisions
  /\ st \in [Dispatches -> {"absent", "pending_review", "needs_review", "failed"} \cup Study!Blocking]
  /\ srev \in [Dispatches -> 0..MaxRevisions] /\ cap \in [Dispatches -> 0..MaxRevisions]
  /\ done \subseteq Dispatches
  /\ run \in [Study!ResearchJobs -> StudyRuns]
  /\ subs \in [Study!ResearchJobs -> [Study!Subscribers -> 0..MaxRevisions]]
  /\ pc \in [Workers -> StudySteps] /\ att \in [Workers -> Nat]

\* The evidence begins with the first dispatch; no job is there before.
EvidenceInv ==
  /\ evidence # {} => 1 \in evidence /\ latest # 0
  /\ \A j \in Jobs : job[j] # "absent" => evidence # {}
  /\ \A e \in Dispatches : st[e] # "absent" => evidence # {}

\* A run has a job, and its result, one of the revisions, when it succeeded.
ResultsInv ==
  \A k \in Study!ResearchJobs :
    /\ run[k].st # "none" => job[k] # "absent"
    /\ run[k].res # 0 <=> run[k].st = "succeeded"
    /\ run[k].res <= latest

\* What every step of the study keeps.
StudyInv == /\ QueueInv /\ StudyTypes /\ EvidenceInv /\ ResultsInv
            /\ Study!SubscribersResumed

\* What the keys are.
LEMMA StudyKeys ==
  ASSUME Study!ResearchAssumption
  PROVE  /\ MaxRevisions \in Nat \ {0} /\ Study!Dispatches = Dispatches
         /\ Study!Subscribers = {0} \cup Dispatches
         /\ \A e \in SUBSET (Dispatches \cup Pages) :
              1 \in e => Study!ResearchKey(e) \in Study!ResearchJobs
         /\ \A n \in 0..MaxRevisions : \A e \in Dispatches : Study!ProcessKey(e, n) \in Jobs
         /\ \A n \in 1..MaxRevisions : \A s \in Study!Subscribers : Study!Continuation(s, n) \in Jobs
         /\ \A j \in Jobs : j.type = "process" => j.d \in Dispatches /\ j.n \in 0..MaxRevisions
<1> USE DEF Study!Dispatches, Dispatches, Study!Subscribers, Study!Pack
<1>1. MaxRevisions \in Nat \ {0}
  BY DEF Study!ResearchAssumption
<1>2. /\ \A e \in SUBSET (Dispatches \cup Pages) : Study!ResearchKey({1} \cup e) \in Jobs
      /\ \A n \in 0..MaxRevisions : \A e \in Dispatches : Study!ProcessKey(e, n) \in Jobs
      /\ \A n \in 1..MaxRevisions : Study!PackKey(n) \in Jobs
      /\ \A j \in Jobs :
           \/ \E e \in SUBSET (Dispatches \cup Pages) : j = Study!ResearchKey({1} \cup e)
           \/ \E e \in Dispatches, n \in 0..MaxRevisions : j = Study!ProcessKey(e, n)
           \/ \E n \in 1..MaxRevisions : j = Study!PackKey(n)
  <2>a. PICK R : R = {Study!ResearchKey({1} \cup e) : e \in SUBSET (Dispatches \cup Pages)}
    OBVIOUS
  <2> DEFINE P == {Study!ProcessKey(e, n) : e \in Dispatches, n \in 0..MaxRevisions}
  <2>c. PICK C : C = {Study!PackKey(n) : n \in 1..MaxRevisions}
    OBVIOUS
  <2>2. Jobs = R \cup P \cup C
    BY <2>a, <2>c DEF Study!ResearchAssumption
  <2>3. /\ \A j \in R : \E e \in SUBSET (Dispatches \cup Pages) : j = Study!ResearchKey({1} \cup e)
        /\ \A e \in SUBSET (Dispatches \cup Pages) : Study!ResearchKey({1} \cup e) \in R
    BY <2>a
  <2>4. /\ \A j \in P : \E e \in Dispatches, n \in 0..MaxRevisions : j = Study!ProcessKey(e, n)
        /\ \A n \in 0..MaxRevisions : \A e \in Dispatches : Study!ProcessKey(e, n) \in P
    OBVIOUS
  <2>5. /\ \A j \in C : \E n \in 1..MaxRevisions : j = Study!PackKey(n)
        /\ \A n \in 1..MaxRevisions : Study!PackKey(n) \in C
    BY <2>c
  <2> HIDE DEF P
  <2>6. \A j \in Jobs : j \in R \/ j \in P \/ j \in C
    BY <2>2
  <2>7. R \subseteq Jobs /\ P \subseteq Jobs /\ C \subseteq Jobs
    BY <2>2
  <2>8. /\ \A e \in SUBSET (Dispatches \cup Pages) : Study!ResearchKey({1} \cup e) \in Jobs
        /\ \A n \in 0..MaxRevisions : \A e \in Dispatches : Study!ProcessKey(e, n) \in Jobs
        /\ \A n \in 1..MaxRevisions : Study!PackKey(n) \in Jobs
    BY <2>3, <2>4, <2>5, <2>7
  <2> QED
    BY <2>3, <2>4, <2>5, <2>6, <2>8
<1>3. ASSUME NEW e \in SUBSET (Dispatches \cup Pages), 1 \in e
      PROVE  Study!ResearchKey(e) \in Study!ResearchJobs
  <2>1. {1} \cup e = e
    BY <1>3
  <2>2. Study!ResearchKey(e) \in Jobs
    BY <1>2, <2>1
  <2>3. Study!ResearchKey(e).type = "research"
    BY DEF Study!ResearchKey
  <2> QED
    BY <2>2, <2>3 DEF Study!ResearchJobs
<1>4. \A n \in 1..MaxRevisions : \A s \in Study!Subscribers : Study!Continuation(s, n) \in Jobs
  BY <1>1, <1>2 DEF Study!Continuation
<1>5. \A j \in Jobs : j.type = "process" => j.d \in Dispatches /\ j.n \in 0..MaxRevisions
  BY <1>2 DEF Study!ResearchKey, Study!ProcessKey, Study!PackKey
<1> QED
  BY <1>1, <1>2, <1>3, <1>4, <1>5

\* Jobs of some keys are enqueued, those that exist stay what they are.
LEMMA EnqueuedAll ==
  ASSUME QueueInv, NEW keys, Study!EnqueueAll(keys)
  PROVE  /\ QueueInv' /\ JobsStay /\ \A k \in keys : k \in Jobs => job'[k] # "absent"
         /\ \A j \in Jobs : job'[j] # "absent" => job[j] # "absent" \/ j \in keys
<1> USE HandlerRunsAssumption
    DEF Study!EnqueueAll, QueueInv, QueueTypeOK, BudgetInv, OwnerInv, ClaimInv, JobStatuses, JobsStay
<1>1. job' \in [Jobs -> JobStatuses] /\ UNCHANGED <<tries, owner, retried, cur>>
  OBVIOUS
<1>2. \A j \in Jobs : job'[j] = IF j \in keys /\ job[j] = "absent" THEN "queued" ELSE job[j]
  OBVIOUS
<1>3. QueueTypeOK'
  BY <1>1
<1>4. BudgetInv' /\ OwnerInv' /\ ClaimInv'
  BY <1>1, <1>2
<1> QED
  BY <1>2, <1>3, <1>4

\* The canonical run is one that succeeded.
LEMMA NewestSucceeded ==
  ASSUME Study!ResearchAssumption, StudyTypes, NEW S, S \subseteq Study!ResearchJobs, S # {}
  PROVE  Study!NewestOf(S) \in S
<1>1. MaxRevisions \in Nat
  BY StudyKeys
<1>2. \A k \in S : run[k].res \in 0..MaxRevisions
  BY DEF StudyTypes, StudyRuns
<1>3. PICK T : T = {run[k].res : k \in S}
  OBVIOUS
<1>4. T \subseteq 0..MaxRevisions /\ T # {}
  BY <1>2, <1>3
<1>5. PICK e \in T : \A f \in T : f <= e
  BY <1>1, <1>4, LargestOf
<1>6. PICK k \in S : run[k].res = e
  BY <1>3, <1>5
<1>7. \A l \in S : run[l].res <= run[k].res
  BY <1>3, <1>5, <1>6
<1> QED
  BY <1>7 DEF Study!NewestOf

\* No result is written, and who subscribes to a run that has one is served.
RunsKept ==
  \A k \in Study!ResearchJobs :
    /\ run'[k].res = run[k].res
    /\ run'[k].st = "succeeded" <=> run[k].st = "succeeded"
    /\ run'[k].st # "none" => run[k].st # "none" \/ job'[k] # "absent"

\* A result stays, a new one is a new revision.
ResultsKept ==
  \A k \in Study!ResearchJobs :
    /\ run[k].res # 0 => run'[k].res = run[k].res /\ run'[k].st = "succeeded"
    /\ run'[k].res # run[k].res => run'[k].res > latest

\* Who subscribes to a run that has a result is served at once.
LateServed ==
  \A k \in Study!ResearchJobs : \A s \in Study!Subscribers :
    run[k].st = "succeeded" /\ subs'[k][s] # 0 =>
      subs[k][s] # 0 \/ job'[Study!Continuation(s, run[k].res)] # "absent"

\* Jobs and dispatches appear only where there is evidence.
JobsAbout ==
  /\ \A j \in Jobs : job'[j] # "absent" => job[j] # "absent" \/ evidence # {}
  /\ st' = st \/ evidence # {}

\* A step that brings no result.
Served ==
  /\ QueueInv' /\ StudyTypes' /\ JobsStay /\ RunsKept /\ UNCHANGED <<evidence, latest>>
  /\ JobsAbout /\ LateServed

\* Such a step keeps the invariant and the results.
LEMMA StudyServed ==
  ASSUME Study!ResearchAssumption, StudyInv, Served
  PROVE  StudyInv' /\ ResultsKept
<1>1. Study!ResearchJobs \subseteq Jobs
  BY DEF Study!ResearchJobs
<1> USE DEF Served
<1>2. EvidenceInv'
  BY DEF StudyInv, EvidenceInv, JobsAbout
<1>3. ResultsInv'
  BY <1>1 DEF StudyInv, ResultsInv, RunsKept, JobsStay
<1>4. Study!SubscribersResumed'
  <2> SUFFICES ASSUME NEW k \in Study!ResearchJobs, run'[k].st = "succeeded",
                      NEW s \in Study!Subscribers, subs'[k][s] # 0
               PROVE  job'[Study!Continuation(s, run'[k].res)] # "absent"
    BY DEF Study!SubscribersResumed, Study!Succeeded, Study!SubscribersOf
  <2>1. run[k].st = "succeeded" /\ run'[k].res = run[k].res
    BY DEF RunsKept
  <2>2. run[k].res \in 1..MaxRevisions
    BY <2>1, StudyKeys DEF StudyInv, ResultsInv, StudyTypes, StudyRuns
  <2>3. Study!Continuation(s, run[k].res) \in Jobs
    BY <2>2, StudyKeys
  <2>4. CASE subs[k][s] # 0
    <3>1. job[Study!Continuation(s, run[k].res)] # "absent"
      BY <2>1, <2>4 DEF StudyInv, Study!SubscribersResumed, Study!Succeeded, Study!SubscribersOf
    <3> QED
      BY <2>1, <2>3, <3>1 DEF JobsStay
  <2> QED
    BY <2>1, <2>4 DEF LateServed
<1>5. ResultsKept
  BY DEF StudyInv, ResultsInv, RunsKept, ResultsKept
<1> QED
  BY <1>2, <1>3, <1>4, <1>5 DEF StudyInv

\* Before the first capture there is neither evidence nor a run.
LEMMA StudyStart ==
  ASSUME Study!ResearchAssumption, Study!Init PROVE StudyInv
<1>1. QueueInit
  BY DEF Study!Init, Study!QueueInit, QueueInit
<1>2. QueueInv
  BY <1>1, QueueStarts
<1>3. MaxRevisions \in Nat /\ Study!Dispatches = Dispatches
  BY StudyKeys
<1>4. /\ run = [k \in Study!ResearchJobs |-> Study!NoRun]
      /\ subs = [k \in Study!ResearchJobs |-> Study!NoSubs]
      /\ Study!NoRun \in StudyRuns /\ Study!NoRun.st = "none" /\ Study!NoRun.res = 0
      /\ Study!NoSubs \in [Study!Subscribers -> 0..MaxRevisions]
  BY <1>3 DEF Study!Init, Study!NoRun, Study!NoSubs, StudyRuns
<1>5. StudyTypes
  BY <1>3, <1>4 DEF Study!Init, StudyTypes, StudySteps
<1>6. EvidenceInv /\ ResultsInv
  BY <1>1, <1>3, <1>4 DEF Study!Init, EvidenceInv, ResultsInv, QueueInit
<1>7. Study!SubscribersResumed
  BY <1>4 DEF Study!SubscribersResumed, Study!Succeeded
<1> QED
  BY <1>2, <1>5, <1>6, <1>7 DEF StudyInv

\* The steps of the queue by which no job is made, with any result.
LEMMA StudyHandled ==
  /\ \A w \in Workers : \A j \in Jobs : Study!ClaimJob(w, j) => Handled
  /\ \A w \in Workers : \A r \in Results : Study!CloseJob(w, r) => Handled
  /\ \A w \in Workers : Study!Die(w) => Handled
  /\ \A j \in Jobs : Study!RetryJob(j) \/ Study!RecoverJob(j) => Handled
<1>1. ASSUME NEW w \in Workers, NEW j \in Jobs, Study!ClaimJob(w, j) PROVE Handled
  BY <1>1 DEF Study!ClaimJob, Process!ClaimJob, Handled
<1>2. ASSUME NEW w \in Workers, NEW r \in Results, Study!CloseJob(w, r) PROVE Handled
  <2>1. Process!CloseJob(w, r)
    BY <1>2 DEF Study!CloseJob, Process!CloseJob, Study!Holds, Process!Holds, Study!ClosedStatus,
                Process!ClosedStatus
  <2> QED
    BY <2>1 DEF Handled
<1>3. ASSUME NEW w \in Workers, Study!Die(w) PROVE Handled
  <2>1. Process!Die(w)
    BY <1>3 DEF Study!Die, Process!Die, Study!jobVars, Process!jobVars
  <2> QED
    BY <2>1 DEF Handled
<1>4. ASSUME NEW j \in Jobs, Study!RetryJob(j) \/ Study!RecoverJob(j) PROVE Handled
  <2>1. Process!RetryJob(j) \/ Process!RecoverJob(j)
    BY <1>4 DEF Study!RetryJob, Process!RetryJob, Study!RecoverJob, Process!RecoverJob,
                Study!RecoveredStatus, Process!RecoveredStatus
  <2> QED
    BY <2>1 DEF Handled
<1> QED
  BY <1>1, <1>2, <1>3, <1>4

\* A step that makes no job, writes no result and changes no subscriber.
Quiet ==
  /\ Handled /\ StudyTypes' /\ UNCHANGED <<evidence, latest, subs>>
  /\ st' = st \/ evidence # {}
  /\ \A k \in Study!ResearchJobs :
       /\ run'[k].res = run[k].res
       /\ run'[k].st = "succeeded" <=> run[k].st = "succeeded"
       /\ run'[k].st # "none" => run[k].st # "none" \/ job[k] # "absent"

\* A quiet step brings no result.
LEMMA StudyQuiet ==
  ASSUME Study!ResearchAssumption, StudyInv, Quiet
  PROVE  StudyInv' /\ ResultsKept
<1>1. QueueInv' /\ JobsSame
  BY HandledSame DEF StudyInv, Quiet
<1>2. JobsStay /\ RunsKept
  BY <1>1 DEF JobsStay, JobsSame, RunsKept, Quiet, Study!ResearchJobs
<1>3. JobsAbout /\ LateServed
  BY <1>1 DEF JobsSame, JobsAbout, LateServed, Quiet
<1>4. Served
  BY <1>1, <1>2, <1>3 DEF Served, Quiet
<1> QED
  BY <1>4, StudyServed

\* What no step touches keeps its type.
LEMMA StudyStill ==
  ASSUME StudyInv, UNCHANGED <<evidence, latest, st, srev, cap, done, run, subs>>,
         pc' \in [Workers -> StudySteps], att' \in [Workers -> Nat]
  PROVE  StudyTypes'
BY DEF StudyInv, StudyTypes

\* Claims, ends, deaths and retries touch the job and the worker alone.
LEMMA StudyClaims ==
  ASSUME Study!ResearchAssumption, StudyInv, NEW w \in Workers,
         Study!Start(w) \/ Study!End(w) \/ Study!Crash(w)
  PROVE  StudyInv' /\ ResultsKept
<1>1. /\ UNCHANGED <<evidence, latest, st, srev, cap, done, run, subs>>
      /\ \E s \in StudySteps : pc' = [pc EXCEPT ![w] = s]
      /\ att' = att \/ att' = [att EXCEPT ![w] = 0]
  BY DEF Study!Start, Study!End, Study!Crash, Study!story, Study!dispatches, Study!research, StudySteps
<1>2. StudyTypes'
  <2>1. pc' \in [Workers -> StudySteps] /\ att' \in [Workers -> Nat]
    BY <1>1 DEF StudyInv, StudyTypes
  <2> QED
    BY <1>1, <2>1, StudyStill
<1>3. Handled
  <2>1. CASE Study!Start(w)
    BY <2>1, StudyHandled DEF Study!Start
  <2>2. CASE Study!End(w)
    <3>1. \E r \in Results : Study!CloseJob(w, r)
      BY <2>2 DEF Study!End, Study!Results, Results
    <3> QED
      BY <3>1, StudyHandled
  <2>3. CASE Study!Crash(w)
    BY <2>3, StudyHandled DEF Study!Crash
  <2> QED
    BY <2>1, <2>2, <2>3
<1>4. Quiet
  BY <1>1, <1>2, <1>3 DEF Quiet
<1> QED
  BY <1>4, StudyQuiet

\* Expired leases, and jobs the operator retries.
LEMMA StudyRecovers ==
  ASSUME Study!ResearchAssumption, StudyInv, NEW j \in Jobs, Study!Recover(j) \/ Study!Retry(j)
  PROVE  StudyInv' /\ ResultsKept
<1>1. Handled
  BY StudyHandled DEF Study!Recover, Study!Retry
<1>2. CASE Study!Retry(j) \/ UNCHANGED <<st, run>>
  <2>1. UNCHANGED <<evidence, latest, st, srev, cap, done, run, subs, pc, att>>
    BY <1>2 DEF Study!Recover, Study!Retry, Study!story, Study!dispatches, Study!research, Study!locals
  <2>2. StudyTypes'
    BY <2>1, StudyStill DEF StudyInv, StudyTypes
  <2>3. Quiet
    BY <1>1, <2>1, <2>2 DEF Quiet
  <2> QED
    BY <2>3, StudyQuiet
<1>3. CASE ~Study!Retry(j) /\ ~UNCHANGED <<st, run>>
  <2>1. /\ UNCHANGED <<evidence, latest, srev, cap, done, subs, pc, att>>
        /\ st' = [e \in Study!Dispatches |-> IF e \in Study!Dependents(j) THEN Study!Settled(e) ELSE st[e]]
        /\ run' = [k \in Study!ResearchJobs |->
                     IF k = j /\ run[k].st \in {"queued", "running"}
                     THEN [run[k] EXCEPT !.st = "failed", !.attSt = "failed"] ELSE run[k]]
    BY <1>3 DEF Study!Recover, Study!story, Study!locals
  <2>2. \A e \in Dispatches :
          (IF e \in Study!Dependents(j) THEN Study!Settled(e) ELSE st[e])
            \in {"absent", "pending_review", "needs_review", "failed"} \cup Study!Blocking
    BY DEF StudyInv, StudyTypes, Study!Settled, Study!Blocking
  <2>3. ASSUME NEW k \in Study!ResearchJobs
        PROVE  /\ run'[k] \in StudyRuns /\ run'[k].res = run[k].res
               /\ run'[k].st = "succeeded" <=> run[k].st = "succeeded"
               /\ run'[k].st # "none" => run[k].st # "none"
    <3>1. run[k] \in StudyRuns
      BY DEF StudyInv, StudyTypes
    <3>2. \/ run'[k] = run[k]
          \/ /\ run[k].st \in {"queued", "running"}
             /\ run'[k] = [run[k] EXCEPT !.st = "failed", !.attSt = "failed"]
      BY <2>1
    <3> QED
      BY <3>1, <3>2 DEF StudyRuns
  <2>4. StudyTypes'
    <3>1. st' \in [Dispatches -> {"absent", "pending_review", "needs_review", "failed"} \cup Study!Blocking]
      BY <2>1, <2>2, StudyKeys
    <3>2. run' \in [Study!ResearchJobs -> StudyRuns]
      BY <2>1, <2>3
    <3> QED
      BY <2>1, <3>1, <3>2 DEF StudyInv, StudyTypes
  <2>5. evidence # {}
    BY <1>3 DEF Study!Recover, Study!RecoverJob, StudyInv, EvidenceInv
  <2>6. Quiet
    BY <1>1, <2>1, <2>3, <2>4, <2>5 DEF Quiet
  <2> QED
    BY <2>6, StudyQuiet
<1> QED
  BY <1>2, <1>3

\* What a worker has in hand: a dispatch to process, or a research.
LEMMA StudyHands ==
  ASSUME Study!ResearchAssumption, StudyInv, NEW w \in Workers
  PROVE  /\ Study!Processing(w) => cur[w].d \in Dispatches /\ evidence # {}
         /\ \A s : Study!Researching(w, s) => cur[w] \in Study!ResearchJobs /\ evidence # {}
<1>1. cur[w] \in Jobs \cup {NoJob}
  BY DEF StudyInv, QueueInv, QueueTypeOK
<1>2. cur[w] # NoJob => evidence # {}
  BY <1>1 DEF StudyInv, QueueInv, ClaimInv, EvidenceInv
<1> QED
  BY <1>1, <1>2, StudyKeys DEF Study!Processing, Study!Researching, Study!ResearchJobs

\* Steps of workers that only tell the dispatch.
LEMMA StudyTold ==
  ASSUME Study!ResearchAssumption, StudyInv, NEW w \in Workers,
         \/ Study!ProcessDone(w) \/ Study!ContinuationInvalid(w) \/ Study!ManualMissing(w)
         \/ Study!Generate(w) \/ Study!ResearchDone(w)
         \/ \E found \in SUBSET Pages : Study!PersistRefused(w, found)
  PROVE  StudyInv' /\ ResultsKept
<1>1. CASE \/ Study!ProcessDone(w) \/ Study!ResearchDone(w)
           \/ \E found \in SUBSET Pages : Study!PersistRefused(w, found)
  <2>1. /\ UNCHANGED <<evidence, latest, st, srev, cap, done, run, subs, att>>
        /\ UNCHANGED queueVars /\ \E s \in StudySteps : pc' = [pc EXCEPT ![w] = s]
    BY <1>1 DEF Study!ProcessDone, Study!ResearchDone, Study!PersistRefused, Study!story,
                Study!dispatches, Study!research, StudySteps, Study!queueVars, queueVars,
                Study!jobVars, jobVars
  <2>2. StudyTypes'
    <3>1. pc' \in [Workers -> StudySteps] /\ att' \in [Workers -> Nat]
      BY <2>1 DEF StudyInv, StudyTypes
    <3> QED
      BY <2>1, <3>1, StudyStill
  <2>3. Quiet
    BY <2>1, <2>2 DEF Quiet, Handled
  <2> QED
    BY <2>3, StudyQuiet
<1>2. CASE Study!ContinuationInvalid(w) \/ Study!ManualMissing(w) \/ Study!Generate(w)
  <2>1. cur[w].d \in Dispatches
    BY <1>2, StudyHands DEF Study!ContinuationInvalid, Study!ManualMissing, Study!Generate,
                            Study!Generates
  <2>2. PICK s \in {"pending_review", "needs_review"} :
          /\ UNCHANGED <<evidence, latest, srev, cap, run, subs, att>>
          /\ UNCHANGED queueVars /\ \E t \in StudySteps : pc' = [pc EXCEPT ![w] = t]
          /\ done' = done \/ done' = done \cup {cur[w].d}
          /\ st' = st \/ st' = [st EXCEPT ![cur[w].d] = s]
             \/ st' = [st EXCEPT ![cur[w].d] = IF cur[w].d \in done THEN @ ELSE s]
    BY <1>2 DEF Study!ContinuationInvalid, Study!ManualMissing, Study!Generate, Study!Refused,
                Study!story, Study!research, StudySteps, Study!queueVars, queueVars,
                Study!jobVars, jobVars
  <2>3. StudyTypes'
    <3>1. pc' \in [Workers -> StudySteps] /\ att' \in [Workers -> Nat]
      BY <2>2 DEF StudyInv, StudyTypes
    <3>2. done' \subseteq Dispatches
          /\ st' \in [Dispatches -> {"absent", "pending_review", "needs_review", "failed"} \cup Study!Blocking]
      BY <2>1, <2>2 DEF StudyInv, StudyTypes
    <3> QED
      BY <2>2, <3>1, <3>2 DEF StudyInv, StudyTypes
  <2>4. evidence # {}
    BY <1>2, StudyHands DEF Study!ContinuationInvalid, Study!ManualMissing, Study!Generate,
                            Study!Generates
  <2>5. Quiet
    BY <2>2, <2>3, <2>4 DEF Quiet, Handled
  <2> QED
    BY <2>5, StudyQuiet
<1> QED
  BY <1>1, <1>2

\* A new attempt, or the end of the newest one without a result.
LEMMA StudyAttempts ==
  ASSUME Study!ResearchAssumption, StudyInv, NEW w \in Workers,
         Study!Prepare(w) \/ \E r \in {"needs_review", "retryable"} : Study!RecordFailure(w, r)
  PROVE  StudyInv' /\ ResultsKept
<1>1. cur[w] \in Study!ResearchJobs /\ evidence # {}
  BY StudyHands DEF Study!Prepare, Study!RecordFailure
<1>2. PICK k \in Study!ResearchJobs : k = cur[w]
  BY <1>1
<1>3. run \in [Study!ResearchJobs -> StudyRuns] /\ run[k] \in StudyRuns
  BY <1>2 DEF StudyInv, StudyTypes
<1>4. /\ UNCHANGED <<evidence, latest, srev, cap, done, subs>> /\ UNCHANGED queueVars
      /\ \E s \in StudySteps : pc' = [pc EXCEPT ![w] = s]
      /\ att' = att \/ att' = [att EXCEPT ![w] = run[k].att + 1]
      /\ \/ run' = run
         \/ /\ run[k].st # "succeeded"
            /\ run' = [run EXCEPT ![k].st = "running", ![k].att = @ + 1, ![k].attSt = "running"]
         \/ /\ run[k].st # "succeeded"
            /\ \E s \in {"needs_review", "failed"} : run' = [run EXCEPT ![k].st = s, ![k].attSt = s]
      /\ st' = st \/ \E S : st' = [e \in Study!Dispatches |-> IF e \in S THEN "needs_review" ELSE st[e]]
  <2>1. CASE Study!Prepare(w)
    BY <1>2, <2>1 DEF Study!Prepare, Study!story, Study!dispatches, StudySteps, Study!queueVars,
                      queueVars, Study!jobVars, jobVars
  <2>2. ASSUME NEW r \in {"needs_review", "retryable"}, Study!RecordFailure(w, r)
        PROVE  /\ UNCHANGED <<evidence, latest, srev, cap, done, subs, att>> /\ UNCHANGED queueVars
               /\ \E s \in StudySteps : pc' = [pc EXCEPT ![w] = s]
               /\ \/ run' = run
                  \/ /\ run[k].st # "succeeded"
                     /\ \E s \in {"needs_review", "failed"} :
                          run' = [run EXCEPT ![k].st = s, ![k].attSt = s]
               /\ st' = st \/ st' = [e \in Study!Dispatches |->
                                      IF e \in Study!ToReview(k) THEN "needs_review" ELSE st[e]]
    BY <1>2, <2>2 DEF Study!RecordFailure, Study!story, StudySteps, Study!queueVars, queueVars,
                      Study!jobVars, jobVars
  <2> QED
    BY <2>1, <2>2
<1>5. \A l \in Study!ResearchJobs :
        /\ run'[l].res = run[l].res
        /\ run'[l].st = "succeeded" <=> run[l].st = "succeeded"
        /\ run'[l].st # "none" => run[l].st # "none" \/ job[l] # "absent"
  <2>1. job[k] # "absent"
    BY <1>2 DEF StudyInv, QueueInv, ClaimInv, Study!Prepare, Study!RecordFailure, Study!Researching
  <2> QED
    BY <1>3, <1>4, <2>1 DEF StudyRuns
<1>6. StudyTypes'
  <2>1. run' \in [Study!ResearchJobs -> StudyRuns]
    BY <1>3, <1>4 DEF StudyRuns
  <2>2. pc' \in [Workers -> StudySteps] /\ att' \in [Workers -> Nat]
    BY <1>3, <1>4 DEF StudyInv, StudyTypes, StudyRuns
  <2>3. st' \in [Dispatches -> {"absent", "pending_review", "needs_review", "failed"} \cup Study!Blocking]
    BY <1>4, StudyKeys DEF StudyInv, StudyTypes
  <2> QED
    BY <1>4, <2>1, <2>2, <2>3 DEF StudyInv, StudyTypes
<1>7. Quiet
  BY <1>1, <1>4, <1>5, <1>6 DEF Quiet, Handled
<1> QED
  BY <1>7, StudyQuiet

\* Whoever asks is entered as a subscriber, and served if there is a result.
LEMMA StudyAsked ==
  ASSUME Study!ResearchAssumption, StudyInv, NEW k \in Study!ResearchJobs,
         NEW s \in Study!Subscribers, NEW n \in 0..MaxRevisions, NEW keys, Study!EnqueueAll(keys),
         evidence # {}, UNCHANGED <<evidence, latest, cap, done>>,
         subs' = subs \/ subs' = Study!Subscribed(k, s, n),
         run' = run \/ run' = [run EXCEPT ![k].st = IF job[k] = "absent" THEN "queued" ELSE @],
         job[k] = "absent" => k \in keys,
         Study!Added(k, s) => Study!Continuation(s, run[k].res) \in keys,
         st' \in [Dispatches -> {"absent", "pending_review", "needs_review", "failed"} \cup Study!Blocking],
         srev' \in [Dispatches -> 0..MaxRevisions],
         pc' \in [Workers -> StudySteps], att' \in [Workers -> Nat]
  PROVE  StudyInv' /\ ResultsKept
<1>1. /\ QueueInv' /\ JobsStay /\ \A l \in keys : l \in Jobs => job'[l] # "absent"
      /\ k \in Jobs
  BY EnqueuedAll DEF StudyInv, Study!ResearchJobs
<1>2. /\ run \in [Study!ResearchJobs -> StudyRuns] /\ run[k] \in StudyRuns
      /\ job[k] = "absent" => run[k].st = "none"
      /\ run[k].st = "succeeded" => run[k].res \in 1..MaxRevisions
  BY StudyKeys DEF StudyInv, StudyTypes, StudyRuns, ResultsInv
<1>3. \/ run' = run
      \/ job[k] = "absent" /\ run' = [run EXCEPT ![k] = [run[k] EXCEPT !.st = "queued"]]
  BY <1>2 DEF StudyRuns
<1>4. \A l \in Study!ResearchJobs :
        /\ run'[l] \in StudyRuns /\ run'[l].res = run[l].res
        /\ run'[l].st = "succeeded" <=> run[l].st = "succeeded"
        /\ run'[l].st # "none" => run[l].st # "none" \/ job'[l] # "absent"
  BY <1>1, <1>2, <1>3 DEF StudyRuns
<1>5. StudyTypes'
  <2>1. run' \in [Study!ResearchJobs -> StudyRuns]
    BY <1>2, <1>3, <1>4
  <2>2. subs' \in [Study!ResearchJobs -> [Study!Subscribers -> 0..MaxRevisions]]
    <3>1. /\ subs \in [Study!ResearchJobs -> [Study!Subscribers -> 0..MaxRevisions]]
          /\ subs[k] \in [Study!Subscribers -> 0..MaxRevisions]
      BY DEF StudyInv, StudyTypes
    <3>2. PICK row \in [Study!Subscribers -> 0..MaxRevisions] : row = [subs[k] EXCEPT ![s] = n]
      BY <3>1
    <3>3. subs' = subs \/ subs' = [subs EXCEPT ![k] = row]
      BY <3>1, <3>2 DEF Study!Subscribed
    <3> QED
      BY <3>1, <3>3
  <2> QED
    BY <2>1, <2>2 DEF StudyInv, StudyTypes
<1>6. LateServed
  <2> SUFFICES ASSUME NEW l \in Study!ResearchJobs, NEW t \in Study!Subscribers,
                      run[l].st = "succeeded", subs'[l][t] # 0, subs[l][t] = 0
               PROVE  job'[Study!Continuation(t, run[l].res)] # "absent"
    BY DEF LateServed
  <2>1. subs \in [Study!ResearchJobs -> [Study!Subscribers -> 0..MaxRevisions]]
    BY DEF StudyInv, StudyTypes
  <2>2. l = k /\ t = s
    BY <2>1 DEF Study!Subscribed
  <2>3. Study!Continuation(s, run[k].res) \in keys
    BY <2>2 DEF Study!Added
  <2>4. Study!Continuation(s, run[k].res) \in Jobs
    BY <1>2, <2>2, StudyKeys
  <2> QED
    BY <1>1, <2>2, <2>3, <2>4
<1>7. JobsAbout /\ RunsKept
  BY <1>4 DEF JobsAbout, RunsKept
<1>8. Served
  BY <1>1, <1>5, <1>6, <1>7 DEF Served
<1> QED
  BY <1>8, StudyServed

\* The operator asks for research about the evidence of a dispatch.
LEMMA StudyManual ==
  ASSUME Study!ResearchAssumption, StudyInv, Study!RequestManual
  PROVE  StudyInv' /\ ResultsKept
<1>1. PICK k : k = Study!ResearchKey(evidence)
  OBVIOUS
<1>2. k \in Study!ResearchJobs /\ evidence # {} /\ job[k] = "absent"
  BY <1>1, StudyKeys DEF Study!RequestManual, StudyInv, StudyTypes, EvidenceInv
<1>3. /\ run' = [run EXCEPT ![k].st = IF job[k] = "absent" THEN "queued" ELSE @]
      /\ Study!EnqueueAll({k})
      /\ UNCHANGED <<evidence, latest, cap, done, subs, st, srev, pc, att>>
  BY <1>1, <1>2 DEF Study!RequestManual, Study!story, Study!dispatches, Study!locals
<1>4. run[k].st = "none"
  BY <1>2 DEF StudyInv, ResultsInv
<1>5. ~Study!Added(k, 0) /\ 0 \in Study!Subscribers /\ 0 \in 0..MaxRevisions
  BY <1>4, StudyKeys DEF Study!Added
<1>6. /\ st' \in [Dispatches -> {"absent", "pending_review", "needs_review", "failed"} \cup Study!Blocking]
      /\ srev' \in [Dispatches -> 0..MaxRevisions]
      /\ pc' \in [Workers -> StudySteps] /\ att' \in [Workers -> Nat]
  BY <1>3 DEF StudyInv, StudyTypes
<1> QED
  BY <1>2, <1>3, <1>5, <1>6, StudyAsked

\* A run that is asked for is the one of the evidence or the canonical one.
LEMMA StudyAskedFor ==
  ASSUME Study!ResearchAssumption, StudyInv, evidence # {}
  PROVE  /\ Study!ResearchKey(evidence) \in Study!ResearchJobs
         /\ Study!Succeeded # {} =>
              /\ Study!Newest \in Study!ResearchJobs
              /\ run[Study!Newest].st = "succeeded" /\ job[Study!Newest] # "absent"
<1>1. Study!ResearchKey(evidence) \in Study!ResearchJobs
  BY StudyKeys DEF StudyInv, StudyTypes, EvidenceInv
<1>2. ASSUME Study!Succeeded # {} PROVE Study!Newest \in Study!Succeeded
  BY <1>2, NewestSucceeded DEF StudyInv, Study!Newest, Study!Succeeded
<1> QED
  BY <1>1, <1>2 DEF Study!Succeeded, StudyInv, ResultsInv

\* What a subscriber that is served at once becomes.
LEMMA StudyResumed ==
  ASSUME Study!ResearchAssumption, StudyInv, NEW S, NEW n \in 0..MaxRevisions, Study!Resume(S, n)
  PROVE  /\ st' \in [Dispatches -> {"absent", "pending_review", "needs_review", "failed"} \cup Study!Blocking]
         /\ srev' \in [Dispatches -> 0..MaxRevisions]
         /\ Study!EnqueueAll({Study!Continuation(s, n) : s \in S}) /\ UNCHANGED <<cap, done>>
BY StudyKeys DEF Study!Resume, StudyInv, StudyTypes, Study!Blocking

\* A content pack asks, or finds research that succeeded.
LEMMA StudyPack ==
  ASSUME Study!ResearchAssumption, StudyInv, Study!RequestPack
  PROVE  StudyInv' /\ ResultsKept
<1>1. /\ evidence # {} /\ UNCHANGED <<evidence, latest, pc, att>>
      /\ 0 \in Study!Subscribers /\ 1 \in 0..MaxRevisions
  BY StudyKeys DEF Study!RequestPack, Study!story, Study!locals
<1>2. /\ st \in [Dispatches -> {"absent", "pending_review", "needs_review", "failed"} \cup Study!Blocking]
      /\ srev \in [Dispatches -> 0..MaxRevisions]
      /\ pc' \in [Workers -> StudySteps] /\ att' \in [Workers -> Nat]
      /\ \A l \in Study!ResearchJobs : run[l].res \in 0..MaxRevisions
  BY <1>1 DEF StudyInv, StudyTypes, StudyRuns
<1>3. CASE Study!Reuse(0, 1) /\ Study!Succeeded # {}
  <2>1. PICK k \in Study!ResearchJobs : k = Study!Newest /\ job[k] # "absent"
    BY <1>1, <1>3, StudyAskedFor
  <2>2. subs' = Study!Subscribed(k, 0, 1) /\ run' = run
    BY <1>3, <2>1 DEF Study!Reuse
  <2>3. CASE Study!Added(k, 0)
    <3>1. Study!Resume({0}, run[k].res)
      BY <1>3, <2>1, <2>3 DEF Study!Reuse
    <3>2. PICK keys : keys = {Study!Continuation(s, run[k].res) : s \in {0}}
      OBVIOUS
    <3>3. /\ Study!EnqueueAll(keys) /\ UNCHANGED <<cap, done>>
          /\ st' \in [Dispatches -> {"absent", "pending_review", "needs_review", "failed"} \cup Study!Blocking]
          /\ srev' \in [Dispatches -> 0..MaxRevisions]
      BY <1>2, <3>1, <3>2, StudyResumed
    <3>4. Study!Continuation(0, run[k].res) \in keys
      BY <3>2
    <3> QED
      BY <1>1, <1>2, <2>1, <2>2, <3>3, <3>4, StudyAsked
  <2>4. CASE ~Study!Added(k, 0)
    <3>1. UNCHANGED <<st, srev, cap, done, job, tries, owner, retried, cur>>
      BY <1>3, <2>1, <2>4 DEF Study!Reuse, Study!dispatches, Study!jobVars
    <3>2. Study!EnqueueAll({})
      BY <3>1 DEF Study!EnqueueAll, StudyInv, QueueInv, QueueTypeOK
    <3> QED
      BY <1>1, <1>2, <2>1, <2>2, <2>4, <3>1, <3>2, StudyAsked
  <2> QED
    BY <2>3, <2>4
<1>4. CASE Study!Enqueue(0, 1)
  <2>1. PICK k \in Study!ResearchJobs : k = Study!ResearchKey(evidence)
    BY <1>1, StudyAskedFor
  <2>2. /\ subs' = Study!Subscribed(k, 0, 1)
        /\ run' = [run EXCEPT ![k].st = IF job[k] = "absent" THEN "queued" ELSE @]
    BY <1>4, <2>1 DEF Study!Enqueue
  <2>3. CASE Study!Added(k, 0)
    <3>1. Study!Resume({0}, run[k].res)
      BY <1>4, <2>1, <2>3 DEF Study!Enqueue
    <3>2. PICK keys : keys = {Study!Continuation(s, run[k].res) : s \in {0}}
      OBVIOUS
    <3>3. /\ Study!EnqueueAll(keys) /\ UNCHANGED <<cap, done>>
          /\ st' \in [Dispatches -> {"absent", "pending_review", "needs_review", "failed"} \cup Study!Blocking]
          /\ srev' \in [Dispatches -> 0..MaxRevisions]
      BY <1>2, <3>1, <3>2, StudyResumed
    <3>4. Study!Continuation(0, run[k].res) \in keys /\ job[k] # "absent"
      BY <2>3, <3>2 DEF Study!Added, StudyInv, ResultsInv
    <3> QED
      BY <1>1, <1>2, <2>1, <2>2, <3>3, <3>4, StudyAsked
  <2>4. CASE ~Study!Added(k, 0)
    <3>1. UNCHANGED <<st, srev, cap, done>> /\ Study!EnqueueAll({k})
      BY <1>4, <2>1, <2>4 DEF Study!Enqueue, Study!dispatches
    <3>2. k \in {k}
      OBVIOUS
    <3> QED
      BY <1>1, <1>2, <2>1, <2>2, <2>4, <3>1, <3>2, StudyAsked
  <2> QED
    BY <2>3, <2>4
<1> QED
  BY <1>3, <1>4 DEF Study!RequestPack, Study!Reusable, Study!Pack

\* A dispatch whose story is incomplete asks on its own.
LEMMA StudyAuto ==
  ASSUME Study!ResearchAssumption, StudyInv, NEW w \in Workers, Study!RequestAuto(w)
  PROVE  StudyInv' /\ ResultsKept
<1>1. /\ evidence # {} /\ UNCHANGED <<evidence, latest, cap, done, att>>
      /\ cur[w].d \in Dispatches
  BY StudyHands DEF Study!RequestAuto, Study!story
<1>2. PICK x \in Dispatches : x = cur[w].d
  BY <1>1
<1>3. PICK k \in Study!ResearchJobs :
        /\ k = IF Study!Complete THEN Study!Newest ELSE Study!ResearchKey(evidence)
        /\ Study!Complete => job[k] # "absent"
  BY <1>1, StudyAskedFor DEF Study!RequestAuto, Study!Reusable
<1>4. /\ subs' = Study!Subscribed(k, x, srev[x])
      /\ run' = [run EXCEPT ![k].st = IF job[k] = "absent" THEN "queued" ELSE @]
      /\ Study!EnqueueAll(IF Study!Added(k, x) THEN {Study!ProcessKey(x, run[k].res)} ELSE {k})
      /\ srev' = [srev EXCEPT ![x] = IF Study!Added(k, x) THEN run[k].res ELSE @]
      /\ st' = [st EXCEPT ![x] = "researching"] /\ pc' = [pc EXCEPT ![w] = "succeeded"]
  BY <1>2, <1>3 DEF Study!RequestAuto
<1>5. PICK keys : keys = IF Study!Added(k, x) THEN {Study!ProcessKey(x, run[k].res)} ELSE {k}
  OBVIOUS
<1>6. /\ Study!EnqueueAll(keys)
      /\ job[k] = "absent" => k \in keys
      /\ Study!Added(k, x) => Study!Continuation(x, run[k].res) \in keys
  <2>1. Study!Added(k, x) => job[k] # "absent"
    BY DEF Study!Added, StudyInv, ResultsInv
  <2>2. Study!Continuation(x, run[k].res) = Study!ProcessKey(x, run[k].res)
    BY DEF Study!Continuation, Study!Pack, Dispatches
  <2> QED
    BY <1>4, <1>5, <2>1, <2>2
<1>7. x \in Study!Subscribers /\ srev[x] \in 0..MaxRevisions
  BY StudyKeys DEF StudyInv, StudyTypes
<1>8. /\ st' \in [Dispatches -> {"absent", "pending_review", "needs_review", "failed"} \cup Study!Blocking]
      /\ srev' \in [Dispatches -> 0..MaxRevisions]
      /\ pc' \in [Workers -> StudySteps] /\ att' \in [Workers -> Nat]
  BY <1>1, <1>4 DEF StudyInv, StudyTypes, StudyRuns, StudySteps, Study!Blocking
<1> QED
  BY <1>1, <1>4, <1>6, <1>7, <1>8, StudyAsked

\* A capture begins the story or goes on with it.
LEMMA StudyCaptures ==
  ASSUME Study!ResearchAssumption, StudyInv, Study!Capture PROVE StudyInv' /\ ResultsKept
<1>1. PICK x \in Dispatches :
        /\ st[x] = "absent" /\ \A e \in 1..(x - 1) : st[e] # "absent"
        /\ st' = [st EXCEPT ![x] = "captured"]
        /\ srev' = [srev EXCEPT ![x] = latest + 1] /\ cap' = [cap EXCEPT ![x] = latest + 1]
        /\ evidence' = evidence \cup {x}
        /\ Study!EnqueueAll({Study!ProcessKey(x, 0)})
  BY StudyKeys DEF Study!Capture
<1>2. /\ latest < MaxRevisions /\ latest' = latest + 1
      /\ UNCHANGED <<done, run, subs, pc, att>>
  BY DEF Study!Capture, Study!research, Study!locals
<1>3. QueueInv' /\ JobsStay
  BY <1>1, EnqueuedAll DEF StudyInv
<1>4. latest \in Nat /\ latest + 1 \in 0..MaxRevisions
  BY <1>2, StudyKeys DEF StudyInv, StudyTypes
<1>5. StudyTypes'
  <2>1. st' \in [Dispatches -> {"absent", "pending_review", "needs_review", "failed"} \cup Study!Blocking]
    BY <1>1 DEF StudyInv, StudyTypes, Study!Blocking
  <2>2. /\ srev' \in [Dispatches -> 0..MaxRevisions] /\ cap' \in [Dispatches -> 0..MaxRevisions]
        /\ evidence' \subseteq Dispatches \cup Pages
    BY <1>1, <1>4 DEF StudyInv, StudyTypes
  <2> QED
    BY <1>2, <1>4, <2>1, <2>2 DEF StudyInv, StudyTypes
<1>6. EvidenceInv'
  <2>1. 1 \in evidence'
    <3>1. CASE x = 1
      BY <1>1, <3>1
    <3>2. CASE x # 1
      <4>1. 1 \in 1..(x - 1) /\ 1 \in Dispatches
        <5>1. MaxDispatches \in Nat \ {0} /\ x \in 1..MaxDispatches
          BY <1>1 DEF Study!ResearchAssumption, Study!Dispatches, Dispatches
        <5> QED
          BY <3>2, <5>1 DEF Dispatches, Study!Dispatches
      <4>2. evidence # {}
        BY <1>1, <4>1 DEF StudyInv, EvidenceInv
      <4> QED
        BY <1>1, <4>2 DEF StudyInv, EvidenceInv
    <3> QED
      BY <3>1, <3>2
  <2> QED
    BY <1>2, <1>4, <2>1 DEF EvidenceInv
<1>7. ResultsInv'
  <2>1. \A k \in Study!ResearchJobs : run[k].res \in 0..MaxRevisions
    BY DEF StudyInv, StudyTypes, StudyRuns
  <2> QED
    BY <1>2, <1>3, <1>4, <2>1 DEF StudyInv, ResultsInv, JobsStay, Study!ResearchJobs
<1>8. Study!SubscribersResumed'
  <2> SUFFICES ASSUME NEW k \in Study!ResearchJobs, run[k].st = "succeeded",
                      NEW s \in Study!Subscribers, subs[k][s] # 0
               PROVE  job'[Study!Continuation(s, run[k].res)] # "absent"
    BY <1>2 DEF Study!SubscribersResumed, Study!Succeeded, Study!SubscribersOf
  <2>1. run[k].res \in 1..MaxRevisions
    BY StudyKeys DEF StudyInv, ResultsInv, StudyTypes, StudyRuns
  <2>2. Study!Continuation(s, run[k].res) \in Jobs
    BY <2>1, StudyKeys
  <2>3. job[Study!Continuation(s, run[k].res)] # "absent"
    BY DEF StudyInv, Study!SubscribersResumed, Study!Succeeded, Study!SubscribersOf
  <2> QED
    BY <1>3, <2>2, <2>3 DEF JobsStay
<1>9. ResultsKept
  BY <1>2 DEF ResultsKept, StudyInv, ResultsInv
<1> QED
  BY <1>3, <1>5, <1>6, <1>7, <1>8, <1>9 DEF StudyInv

\* The newest attempt brings the result, and every subscriber its continuation.
LEMMA StudyPersists ==
  ASSUME Study!ResearchAssumption, StudyInv, NEW w \in Workers, NEW found \in SUBSET Pages,
         Study!Persist(w, found)
  PROVE  StudyInv' /\ ResultsKept
<1>1. PICK k \in Study!ResearchJobs : k = cur[w] /\ evidence # {}
  BY StudyHands DEF Study!Persist
<1>2. /\ run[k].st = "running" /\ latest < MaxRevisions
      /\ evidence' = evidence \cup found /\ latest' = latest + 1
      /\ run' = [run EXCEPT ![k].st = "succeeded", ![k].attSt = "succeeded", ![k].res = latest + 1]
      /\ Study!Resume(Study!SubscribersOf(k), latest + 1)
      /\ pc' = [pc EXCEPT ![w] = "succeeded"] /\ UNCHANGED <<subs, att>>
  BY <1>1 DEF Study!Persist, Study!IsCurrent
<1>3. latest \in Nat /\ latest + 1 \in 1..MaxRevisions /\ latest + 1 \in 0..MaxRevisions
  BY <1>2, StudyKeys DEF StudyInv, StudyTypes
<1>4. PICK keys : keys = {Study!Continuation(s, latest + 1) : s \in Study!SubscribersOf(k)}
  OBVIOUS
<1>5. /\ st' \in [Dispatches -> {"absent", "pending_review", "needs_review", "failed"} \cup Study!Blocking]
      /\ srev' \in [Dispatches -> 0..MaxRevisions]
      /\ Study!EnqueueAll(keys) /\ UNCHANGED <<cap, done>>
  BY <1>2, <1>3, <1>4, StudyResumed
<1>6. QueueInv' /\ JobsStay /\ \A l \in keys : l \in Jobs => job'[l] # "absent"
  BY <1>5, EnqueuedAll DEF StudyInv
<1>7. /\ run \in [Study!ResearchJobs -> StudyRuns] /\ run[k] \in StudyRuns
      /\ run[k].res = 0 /\ job[k] # "absent" /\ k \in Jobs
  BY <1>2 DEF StudyInv, StudyTypes, StudyRuns, ResultsInv, Study!ResearchJobs
<1>8. /\ run'[k].st = "succeeded" /\ run'[k].res = latest + 1 /\ run'[k] \in StudyRuns
      /\ \A l \in Study!ResearchJobs \ {k} : run'[l] = run[l]
      /\ run' \in [Study!ResearchJobs -> StudyRuns]
  BY <1>2, <1>3, <1>7 DEF StudyRuns
<1>9. StudyTypes'
  BY <1>2, <1>3, <1>5, <1>8 DEF StudyInv, StudyTypes, StudySteps
<1>10. EvidenceInv'
  BY <1>1, <1>2, <1>3 DEF StudyInv, EvidenceInv
<1>11. ResultsInv'
  <2> SUFFICES ASSUME NEW l \in Study!ResearchJobs
               PROVE  /\ run'[l].st # "none" => job'[l] # "absent"
                      /\ run'[l].res # 0 <=> run'[l].st = "succeeded"
                      /\ run'[l].res <= latest'
    BY DEF ResultsInv
  <2>1. CASE l = k
    BY <1>2, <1>3, <1>6, <1>7, <1>8, <2>1 DEF JobsStay
  <2>2. CASE l # k
    <3>1. run'[l] = run[l] /\ run[l].res \in 0..MaxRevisions /\ l \in Jobs
      BY <1>7, <1>8, <2>2 DEF StudyRuns, Study!ResearchJobs
    <3> QED
      BY <1>2, <1>3, <1>6, <3>1 DEF StudyInv, ResultsInv, JobsStay
  <2> QED
    BY <2>1, <2>2
<1>12. Study!SubscribersResumed'
  <2> SUFFICES ASSUME NEW l \in Study!ResearchJobs, run'[l].st = "succeeded",
                      NEW s \in Study!Subscribers, subs[l][s] # 0
               PROVE  job'[Study!Continuation(s, run'[l].res)] # "absent"
    BY <1>2 DEF Study!SubscribersResumed, Study!Succeeded, Study!SubscribersOf
  <2>1. CASE l = k
    <3>1. s \in Study!SubscribersOf(k)
      BY <2>1 DEF Study!SubscribersOf
    <3>2. Study!Continuation(s, latest + 1) \in keys
      BY <1>4, <3>1
    <3>3. Study!Continuation(s, latest + 1) \in Jobs
      BY <1>3, StudyKeys
    <3> QED
      BY <1>6, <1>8, <2>1, <3>2, <3>3
  <2>2. CASE l # k
    <3>1. run'[l] = run[l] /\ run[l].st = "succeeded"
      BY <1>8, <2>2
    <3>2. run[l].res \in 1..MaxRevisions
      BY <3>1, StudyKeys DEF StudyInv, ResultsInv, StudyTypes, StudyRuns
    <3>3. Study!Continuation(s, run[l].res) \in Jobs
      BY <3>2, StudyKeys
    <3>4. job[Study!Continuation(s, run[l].res)] # "absent"
      BY <3>1 DEF StudyInv, Study!SubscribersResumed, Study!Succeeded, Study!SubscribersOf
    <3> QED
      BY <1>6, <3>1, <3>3, <3>4 DEF JobsStay
  <2> QED
    BY <2>1, <2>2
<1>13. ResultsKept
  <2> SUFFICES ASSUME NEW l \in Study!ResearchJobs
               PROVE  /\ run[l].res # 0 => run'[l].res = run[l].res /\ run'[l].st = "succeeded"
                      /\ run'[l].res # run[l].res => run'[l].res > latest
    BY DEF ResultsKept
  <2>1. CASE l = k
    BY <1>3, <1>7, <1>8, <2>1
  <2>2. CASE l # k
    BY <1>8, <2>2 DEF StudyInv, ResultsInv
  <2> QED
    BY <2>1, <2>2
<1> QED
  BY <1>6, <1>9, <1>10, <1>11, <1>12, <1>13 DEF StudyInv

\* Every step, by the lemma of its kind.
LEMMA StudyStep ==
  ASSUME Study!ResearchAssumption, StudyInv, [Study!Next]_(Study!vars)
  PROVE  StudyInv' /\ ResultsKept
<1>1. CASE Study!Capture \/ Study!RequestManual \/ Study!RequestPack
  BY <1>1, StudyCaptures, StudyManual, StudyPack
<1>2. ASSUME NEW w \in Workers, Study!Start(w) \/ Study!WorkerStep(w) \/ Study!Crash(w)
      PROVE  StudyInv' /\ ResultsKept
  <2>1. CASE Study!Start(w) \/ Study!End(w) \/ Study!Crash(w)
    BY <2>1, StudyClaims
  <2>2. CASE \/ Study!ProcessDone(w) \/ Study!ContinuationInvalid(w) \/ Study!ManualMissing(w)
             \/ Study!Generate(w) \/ Study!ResearchDone(w)
             \/ \E found \in SUBSET Pages : Study!PersistRefused(w, found)
    BY <2>2, StudyTold
  <2>3. CASE Study!RequestAuto(w)
    BY <2>3, StudyAuto
  <2>4. CASE Study!Prepare(w) \/ \E r \in {"needs_review", "retryable"} : Study!RecordFailure(w, r)
    BY <2>4, StudyAttempts
  <2>5. ASSUME NEW found \in SUBSET Pages, Study!Persist(w, found) PROVE StudyInv' /\ ResultsKept
    BY <2>5, StudyPersists
  <2> QED
    BY <1>2, <2>1, <2>2, <2>3, <2>4, <2>5 DEF Study!WorkerStep
<1>3. ASSUME NEW j \in Jobs, Study!Recover(j) \/ Study!Retry(j) PROVE StudyInv' /\ ResultsKept
  BY <1>3, StudyRecovers
<1>4. CASE UNCHANGED Study!vars
  <2>1. /\ UNCHANGED <<evidence, latest, st, srev, cap, done, run, subs, pc, att>>
        /\ UNCHANGED queueVars
    BY <1>4 DEF Study!vars, Study!story, Study!dispatches, Study!research, Study!locals,
                Study!queueVars, queueVars, Study!jobVars, jobVars
  <2>2. StudyTypes'
    BY <2>1, StudyStill DEF StudyInv, StudyTypes
  <2>3. Quiet
    BY <2>1, <2>2 DEF Quiet, Handled
  <2> QED
    BY <2>3, StudyQuiet
<1> QED
  BY <1>1, <1>2, <1>3, <1>4 DEF Study!Next

\* The invariant holds throughout.
LEMMA StudyKeep == ASSUME Study!ResearchAssumption PROVE Study!Spec => []StudyInv
<1>1. Study!Init => StudyInv
  BY StudyStart
<1>2. StudyInv /\ [Study!Next]_(Study!vars) => StudyInv'
  BY StudyStep
<1> QED
  BY <1>1, <1>2, PTL DEF Study!Spec

\* Whoever subscribed to a run that succeeded, before or after, has its
\* continuation among the jobs (_fan_out_continuations, append_unique_continuation).
THEOREM SubscribersAreResumed ==
  ASSUME Study!ResearchAssumption PROVE Study!Spec => []Study!SubscribersResumed
<1>1. StudyInv => Study!SubscribersResumed
  BY DEF StudyInv
<1> QED
  BY <1>1, StudyKeep, PTL

\* A run gets one result, of a revision made for it, and keeps it, whatever
\* attempts answer later (_is_current_attempt, prepare_attempt).
THEOREM ResearchKeepsResults ==
  ASSUME Study!ResearchAssumption PROVE Study!Spec => [][Study!KeepsResults]_(Study!vars)
<1>1. StudyInv /\ [Study!Next]_(Study!vars) => [Study!KeepsResults]_(Study!vars)
  BY StudyStep DEF ResultsKept, Study!KeepsResults
<1> QED
  BY <1>1, StudyKeep, PTL DEF Study!Spec

\* The rows of research and the workers on them keep their types.
THEOREM StudyTypeCorrect ==
  ASSUME Study!ResearchAssumption PROVE Study!Spec => []Study!TypeOK
<1>1. StudyInv => Study!TypeOK
  BY StudyKeys
  DEF StudyInv, StudyTypes, StudyRuns, StudySteps, Study!TypeOK, QueueInv, QueueTypeOK,
      Study!QueueTypeOK, JobStatuses, Study!JobStatuses
<1> QED
  BY <1>1, StudyKeep, PTL

=============================================================================
