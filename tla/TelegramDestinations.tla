------------------------- MODULE TelegramDestinations -------------------------
(***************************************************************************)
(* One Telegram destination, the proxy profile it may use, and the check    *)
(* jobs that decide whether they may be enabled: every edit, rotation and   *)
(* recheck enqueues a job of its own, a check calls Telegram between two    *)
(* transactions, and checks of different configurations overlap.            *)
(* Source: backend/app/publishing/telegram/lifecycle.py, handlers.py,       *)
(* backend/app/api/telegram_destinations.py.                                *)
(*                                                                         *)
(* The four Telegram stages of a check are one; target, token and proxy     *)
(* settings are version numbers.  A session keeps the rows it has loaded    *)
(* (db/session.py, expire_on_commit=False), the locking SELECT of a check   *)
(* returns the row as it was loaded at its start, and a flush writes the    *)
(* fields that differ from what was loaded: Flush.                          *)
(***************************************************************************)
EXTENDS HandlerRuns

CONSTANTS DestJobs, ProxyJobs   \* check jobs that may be enqueued (bound)

TelegramDestinationsAssumption == Jobs = DestJobs \cup ProxyJobs

VARIABLES
  d,         \* the destinations row
  p,         \* the telegram_proxy_profiles row
  used,      \* routes, definitions or publications name the destination
  pc,        \* where the check stands in each worker
  loaded,    \* the row as the worker's session loaded it
  seen,      \* the settings the calls of the check were made with
  outcome,   \* the stage at which the check failed, or "ok"
  verified,  \* settings of the check that set "healthy" since the last reset
             \* (history)
  lost       \* a check job was given up without an answer (history)

rows   == <<d, p, used>>
locals == <<pc, loaded, seen, outcome>>
vars   == <<rows, locals, verified, lost, queueVars>>

Stages == {"unchecked", "checking", "healthy", "unhealthy"}
Outcomes == {"ok", "proxy", "telegram"}
Versions == Nat
NoDestination == [there |-> FALSE, target |-> 0, token |-> 0, via |-> FALSE,
                  enabled |-> FALSE, health |-> "unknown", stage |-> "unchecked",
                  pstage |-> "direct"]
NoProxy == [there |-> FALSE, conf |-> 0, enabled |-> FALSE, reach |-> "unchecked"]

\* What a check is about: target, token and, if it is used, the proxy.
Settings == <<d.target, d.token, IF d.via THEN p.conf ELSE 0>>

Destinations ==
  [there : BOOLEAN, target : Versions, token : Versions, via : BOOLEAN,
   enabled : BOOLEAN, health : {"unknown", "healthy", "unhealthy"},
   stage : Stages, pstage : Stages \cup {"direct"}]
Proxies == [there : BOOLEAN, conf : Versions, enabled : BOOLEAN, reach : Stages]

TypeOK ==
  /\ QueueTypeOK
  /\ d \in Destinations
  /\ p \in Proxies
  /\ d.via => p.there
  /\ used \in BOOLEAN /\ lost \in BOOLEAN
  /\ pc \in [Workers -> {"idle", "load", "call", "write"}]
  /\ loaded \in [Workers -> Destinations \cup Proxies]
  /\ seen \in [Workers -> Versions \X Versions \X Versions]
  /\ outcome \in [Workers -> Outcomes]

Init ==
  /\ QueueInit
  /\ d = NoDestination /\ p = NoProxy
  /\ used \in BOOLEAN
  /\ pc = [w \in Workers |-> "idle"]
  /\ loaded = [w \in Workers |-> NoDestination]
  /\ seen = [w \in Workers |-> <<0, 0, 0>>]
  /\ outcome = [w \in Workers |-> "ok"]
  /\ verified = <<0, 0, 0>>
  /\ lost = FALSE

-----------------------------------------------------------------------------
(* The API: every change commits together with its check job. *)

\* Mutant of Reset: the edit keeps the destination in service.
ResetStages(row) ==
  [row EXCEPT !.health = "unknown", !.stage = "unchecked",
              !.pstage = IF row.via THEN "unchecked" ELSE "direct"]

\* _reset_destination
Reset(row) ==
  [row EXCEPT !.enabled = FALSE, !.health = "unknown", !.stage = "unchecked",
              !.pstage = IF row.via THEN "unchecked" ELSE "direct"]

\* _mark_destination_checking
MarkChecking(row) ==
  [row EXCEPT !.stage = "checking",
              !.pstage = IF row.via THEN "checking" ELSE "direct"]

ProxyReady == p.there /\ p.enabled /\ p.reach = "healthy"

EnqueueCheck(jobs) ==
  /\ \E j \in jobs : EnqueueJob(j)
  /\ UNCHANGED <<locals, lost, used>>

\* No check counts any more.
Unverified == <<0, 0, 0>>

\* create_destination: the new row and its secret.
Created(via) == [NoDestination EXCEPT !.there = TRUE, !.via = via,
                   !.target = d.target + 1, !.token = d.token + 1]

CreateDestination ==
  /\ ~d.there
  /\ \E via \in BOOLEAN : (via => ProxyReady) /\ d' = MarkChecking(Created(via))
  /\ verified' = Unverified
  /\ EnqueueCheck(DestJobs)
  /\ UNCHANGED p

\* patch_destination: a new name, a new target or another proxy.
Patched == {d, Reset([d EXCEPT !.target = @ + 1]), Reset([d EXCEPT !.via = ~@])}

PatchDestination ==
  /\ d.there
  /\ \E new \in Patched :
       /\ new.via /\ ~d.via => ProxyReady
       /\ d' = MarkChecking(new)
       /\ verified' = IF new = d THEN verified ELSE Unverified
  /\ EnqueueCheck(DestJobs)
  /\ UNCHANGED p

\* rotate_destination_token: the secret row keeps its id.
Rotated == Reset([d EXCEPT !.token = @ + 1])

RotateToken ==
  /\ d.there
  /\ d' = MarkChecking(Rotated)
  /\ verified' = Unverified
  /\ EnqueueCheck(DestJobs)
  /\ UNCHANGED p

RecheckDestination ==
  /\ d.there
  /\ d' = MarkChecking([d EXCEPT !.health = "unknown"])
  /\ EnqueueCheck(DestJobs)
  /\ UNCHANGED <<p, verified>>

\* enable_destination
Ready == /\ d.health = "healthy" /\ d.stage = "healthy"
         /\ d.pstage \in {"direct", "healthy"}

EnableDestination ==
  /\ d.there /\ ~d.enabled /\ Ready
  /\ d' = [d EXCEPT !.enabled = TRUE]
  /\ UNCHANGED <<p, used, locals, verified, lost, queueVars>>

DisableDestination ==
  /\ d.there /\ d.enabled
  /\ d' = [d EXCEPT !.enabled = FALSE]
  /\ UNCHANGED <<p, used, locals, verified, lost, queueVars>>

\* destination_dependencies
Blocked == used \/ \E j \in DestJobs : job[j] \in {"queued", "running"}

DeleteDestination ==
  /\ d.there /\ ~Blocked
  /\ d' = [NoDestination EXCEPT !.target = d.target, !.token = d.token]
  /\ UNCHANGED <<p, used, locals, verified, lost, queueVars>>

\* _invalidate_proxy_destinations
Invalidate ==
  /\ d' = IF d.there /\ d.via THEN Reset(d) ELSE d
  /\ verified' = IF d.there /\ d.via THEN Unverified ELSE verified

\* create_proxy, patch_proxy of type, host or port, rotate_proxy_credentials
NewSettings == [there |-> TRUE, conf |-> p.conf + 1, enabled |-> FALSE,
                reach |-> "checking"]

CreateProxy ==
  /\ ~p.there
  /\ p' = NewSettings
  /\ EnqueueCheck(ProxyJobs)
  /\ UNCHANGED <<d, verified>>

ChangeProxy ==
  /\ p.there
  /\ p' = NewSettings
  /\ Invalidate
  /\ EnqueueCheck(ProxyJobs)

\* recheck, and patch_proxy of the name alone
RecheckProxy ==
  /\ p.there
  /\ p' = [p EXCEPT !.reach = "checking"]
  /\ EnqueueCheck(ProxyJobs)
  /\ UNCHANGED <<d, verified>>

EnableProxy ==
  /\ p.there /\ ~p.enabled /\ p.reach = "healthy"
  /\ p' = [p EXCEPT !.enabled = TRUE]
  /\ UNCHANGED <<d, used, locals, verified, lost, queueVars>>

DisableProxy ==
  /\ p.there /\ p.enabled
  /\ p' = [p EXCEPT !.enabled = FALSE]
  /\ Invalidate
  /\ UNCHANGED <<used, locals, lost, queueVars>>

DeleteProxy ==
  /\ p.there /\ ~d.via
  /\ p' = [NoProxy EXCEPT !.conf = p.conf]
  /\ UNCHANGED <<d, used, locals, verified, lost, queueVars>>

-----------------------------------------------------------------------------
(* The check jobs. *)

Start(w) ==
  /\ \E j \in Jobs : ClaimJob(w, j)
  /\ pc' = [pc EXCEPT ![w] = "load"]
  /\ UNCHANGED <<rows, loaded, seen, outcome, verified, lost>>

Forget(w) ==
  /\ pc' = [pc EXCEPT ![w] = "idle"]
  /\ loaded' = [loaded EXCEPT ![w] = NoDestination]
  /\ seen' = [seen EXCEPT ![w] = <<0, 0, 0>>]
  /\ outcome' = [outcome EXCEPT ![w] = "ok"]

IsDestCheck(w) == cur[w] \in DestJobs

\* The destination, or the proxy, is gone: PermanentJobError.
LoadMissing(w) ==
  /\ pc[w] = "load"
  /\ IF IsDestCheck(w) THEN ~d.there ELSE ~p.there
  /\ CloseJob(w, "permanent")
  /\ Forget(w)
  /\ UNCHANGED <<rows, verified, lost>>

Load(w) ==
  /\ pc[w] = "load"
  /\ IF IsDestCheck(w) THEN d.there ELSE p.there
  /\ loaded' = [loaded EXCEPT ![w] = IF IsDestCheck(w) THEN d ELSE p]
  /\ pc' = [pc EXCEPT ![w] = "call"]
  /\ UNCHANGED <<rows, seen, outcome, verified, lost, queueVars>>

\* The calls, outside any transaction: token and proxy profile are read now,
\* the target was loaded.  A proxy that is not enabled fails the check.
CallTelegram(w) ==
  /\ pc[w] = "call" /\ IsDestCheck(w)
  /\ seen' = [seen EXCEPT ![w] = <<loaded[w].target, d.token,
                                   IF loaded[w].via THEN p.conf ELSE 0>>]
  /\ \E o \in Outcomes :
       /\ o = "proxy" => loaded[w].via
       /\ o # "proxy" => (loaded[w].via => p.there /\ p.enabled)
       /\ outcome' = [outcome EXCEPT ![w] = o]
  /\ pc' = [pc EXCEPT ![w] = "write"]
  /\ UNCHANGED <<rows, loaded, verified, lost, queueVars>>

\* check_proxy_reachability
CallProxy(w) ==
  /\ pc[w] = "call" /\ ~IsDestCheck(w)
  /\ \E o \in {"ok", "proxy"} : outcome' = [outcome EXCEPT ![w] = o]
  /\ pc' = [pc EXCEPT ![w] = "write"]
  /\ UNCHANGED <<rows, loaded, seen, verified, lost, queueVars>>

\* The value a flush leaves in a field that the row now has as `now`, the
\* session loaded as `old` and the handler set to `new`.
Flush(now, old, new) == IF new = old THEN now ELSE new

ProxyStage(w) == IF loaded[w].via THEN "healthy" ELSE "direct"

\* Mutant of CheckedStages: the stage that failed stays "checking".
CheckedStagesLeft(w) ==
  CASE outcome[w] = "ok" -> [stage |-> "healthy", pstage |-> ProxyStage(w)]
    [] outcome[w] = "proxy" -> [stage |-> "unchecked", pstage |-> "unhealthy"]
    [] outcome[w] = "telegram" -> [stage |-> "checking", pstage |-> ProxyStage(w)]

\* The stages as a finished check leaves them.
CheckedStages(w) ==
  CASE outcome[w] = "ok" -> [stage |-> "healthy", pstage |-> ProxyStage(w)]
    [] outcome[w] = "proxy" -> [stage |-> "unchecked", pstage |-> "unhealthy"]
    [] outcome[w] = "telegram" -> [stage |-> "unhealthy", pstage |-> ProxyStage(w)]

\* destination_check, last transaction.  The comparison with the snapshot
\* sees the row of the snapshot, so only a deletion counts as a change.
WriteDestination(w) ==
  /\ pc[w] = "write" /\ IsDestCheck(w)
  /\ LET old == loaded[w]  new == CheckedStages(w)
         health == IF outcome[w] = "ok" THEN "healthy" ELSE "unhealthy" IN
     d' = IF ~d.there THEN d
          ELSE [d EXCEPT !.stage = Flush(@, old.stage, new.stage),
                         !.pstage = Flush(@, old.pstage, new.pstage),
                         !.health = Flush(@, old.health, health)]
  /\ verified' = IF d'.health = "healthy" /\ outcome[w] = "ok" THEN seen[w] ELSE verified
  /\ \E r \in CASE ~d.there -> {"needs_review"}
                [] outcome[w] = "ok" -> {"succeeded"}
                [] OTHER -> {"retryable", "permanent"} : CloseJob(w, r)
  /\ Forget(w)
  /\ UNCHANGED <<p, used, lost>>

\* proxy_check, last transaction
WriteProxy(w) ==
  /\ pc[w] = "write" /\ ~IsDestCheck(w)
  /\ p' = IF ~p.there THEN p
          ELSE [p EXCEPT !.reach = Flush(@, loaded[w].reach,
                                         IF outcome[w] = "ok" THEN "healthy" ELSE "unhealthy")]
  /\ CloseJob(w, IF ~p.there THEN "needs_review"
                 ELSE IF outcome[w] = "ok" THEN "succeeded" ELSE "permanent")
  /\ Forget(w)
  /\ UNCHANGED <<d, used, verified, lost>>

Crash(w) ==
  /\ pc[w] # "idle"
  /\ Die(w)
  /\ Forget(w)
  /\ UNCHANGED <<rows, verified, lost>>

\* requeue_expired_leases: the last attempt ends without an answer.
Recover(j) ==
  /\ RecoverJob(j)
  /\ lost' = (lost \/ RecoveredStatus(j) = "failed")
  /\ UNCHANGED <<rows, locals, verified>>

-----------------------------------------------------------------------------
Operator ==
  \/ CreateDestination \/ PatchDestination \/ RotateToken \/ RecheckDestination
  \/ EnableDestination \/ DisableDestination \/ DeleteDestination
  \/ CreateProxy \/ ChangeProxy \/ RecheckProxy
  \/ EnableProxy \/ DisableProxy \/ DeleteProxy

Check(w) == LoadMissing(w) \/ Load(w) \/ CallTelegram(w) \/ CallProxy(w)
            \/ WriteDestination(w) \/ WriteProxy(w)

Next ==
  \/ Operator
  \/ \E w \in Workers : Start(w) \/ Check(w) \/ Crash(w)
  \/ \E j \in Jobs : Recover(j)

Spec == Init /\ [][Next]_vars

\* Workers and the scheduler are restarted for as long as they die.
Fairness ==
  /\ \A w \in Workers : WF_vars(Start(w)) /\ WF_vars(Check(w))
  /\ \A j \in Jobs : WF_vars(Recover(j))

LiveSpec == Spec /\ Fairness

-----------------------------------------------------------------------------
(* Properties. *)

\* Whatever checks overlap, a destination is in service only if some check
\* wrote its outcome since the last change of its settings or its proxy: an
\* edit takes it out of service until then.
EnabledAfterCheck == d.there /\ d.enabled => verified # Unverified

\* A check's result becomes part of the row even if other checks and edits
\* come in between: no destination stays "checking" once its checks are over.
Checking == d.there /\ d.stage = "checking"
CheckingEnds == Checking ~> (~Checking \/ lost)

\* A destination in service was found healthy by a check with the settings it has now.
EnabledWasVerified == d.there /\ d.enabled => verified = Settings

\* Check jobs live as the queue promises.
ChecksAreJobs == Lifecycle!Spec
=============================================================================
