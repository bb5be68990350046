------------------------- MODULE AutomationDefinitions -------------------------
(***************************************************************************)
(* The definition of one automation: versions, the draft and the active     *)
(* version, its life cycle and the schedule row of a scheduled plan, edited *)
(* by clients that work on what they have loaded, whose requests may be      *)
(* delivered late or again.                                                 *)
(* Source: backend/app/automations/definitions/service.py, execution.py,    *)
(* models.py; api/automations.py; jobs/scheduler.py.                        *)
(*                                                                         *)
(* Resources of a plan are ready or an activation is refused, which is the  *)
(* same as its not being asked for.  Routes that predate the builder have   *)
(* no projection here: no code creates one (TelegramRoutes has routes).     *)
(***************************************************************************)
EXTENDS Integers, Sequences

CONSTANTS Clients,      \* browsers and scripts of the operator
          NoRequest,    \* a client that asks for nothing
          Graphs,       \* graphs that can be saved
          Valid,        \* those that can be activated
          Scheduled,    \* those with a schedule trigger
          MaxVersions,  \* bound: versions
          MaxKeys       \* bound: idempotency keys

VARIABLES
  lifecycle, revision,  \* automations.lifecycle (archived_at with it), revision
  active, draft,        \* version numbers; 0: NULL
  activationKey,        \* automations.activation_idempotency_key
  versions,             \* automation_versions: graph, idempotency_key; base: the draft its author saw
  schedule,             \* workflow_schedules automation:<id>: version in the payload (0: no row), enabled
  ticks, runs,          \* versions with a tick job that waits, with a run under way
  seen,                 \* what a client has loaded
  request,              \* what a client has sent and not yet seen answered
  keys                  \* idempotency keys given out

row  == <<lifecycle, revision, active, draft, activationKey, versions, schedule>>
work == <<ticks, runs>>
user == <<seen, request, keys>>
vars == <<row, work, user>>

Numbers == 1..MaxVersions
Operations == {"patch", "version", "activate", "pause", "resume", "archive"}

\* Rows of automation_versions, and what a client can ask for.
Versions == [graph : Graphs, key : 0..MaxKeys, base : 0..MaxVersions]
Requests == [op : Operations, key : 1..MaxKeys, graph : Graphs, revision : Nat, draft : Numbers]

ASSUME AutomationDefinitionsAssumption ==
  /\ Valid \subseteq Graphs /\ Scheduled \subseteq Graphs
  /\ MaxVersions \in Nat \ {0} /\ MaxKeys \in Nat
  /\ NoRequest \notin Requests

TypeOK ==
  /\ lifecycle \in {"inactive", "active", "paused", "archived"}
  /\ revision \in Nat \ {0}
  /\ versions \in Seq(Versions) /\ Len(versions) <= MaxVersions
  /\ active \in 0..Len(versions) /\ draft \in 1..Len(versions)
  /\ activationKey \in 0..MaxKeys
  /\ schedule \in [version : 0..Len(versions), enabled : BOOLEAN]
  /\ ticks \subseteq Numbers /\ runs \subseteq Numbers
  /\ seen \in [Clients -> [revision : Nat, draft : Numbers]]
  /\ request \in [Clients -> Requests \cup {NoRequest}]
  /\ keys \in 0..MaxKeys

\* create_automation: the first version is saved with it.
Init ==
  /\ lifecycle = "inactive" /\ revision = 1 /\ active = 0 /\ draft = 1 /\ activationKey = 0
  /\ \E g \in Graphs : versions = <<[graph |-> g, key |-> 0, base |-> 0]>>
  /\ schedule = [version |-> 0, enabled |-> FALSE] /\ ticks = {} /\ runs = {}
  /\ seen = [c \in Clients |-> [revision |-> 1, draft |-> 1]]
  /\ request = [c \in Clients |-> NoRequest] /\ keys = 0

-----------------------------------------------------------------------------
(* Clients. *)

\* get_automation: a client without an open request loads the automation.
Load(c) ==
  /\ request[c] = NoRequest
  /\ seen' = [seen EXCEPT ![c] = [revision |-> revision, draft |-> draft]]
  /\ UNCHANGED <<row, work, request, keys>>

\* A request names the revision its author has loaded; a new version or an
\* activation also has a key.
Ask(c, op, g) ==
  /\ request[c] = NoRequest /\ keys < MaxKeys
  /\ op # "version" => g = versions[1].graph
  /\ keys' = keys + 1
  /\ request' = [request EXCEPT ![c] =
       [op |-> op, key |-> keys + 1, graph |-> g, revision |-> seen[c].revision, draft |-> seen[c].draft]]
  /\ UNCHANGED <<row, work, seen>>

\* The client has its answer or gives up; until then it may send again.
Answered(c) ==
  /\ request[c] # NoRequest
  /\ request' = [request EXCEPT ![c] = NoRequest]
  /\ UNCHANGED <<row, work, seen, keys>>

\* An operation of the API with the request of a client.
Handles(c, op) == request[c] # NoRequest /\ request[c].op = op /\ UNCHANGED <<work, user>>

\* Mutant of CheckRevision: no optimistic lock.
CheckRevisionNever(c) == request[c].revision <= revision

CheckRevision(c) == request[c].revision = revision

\* ck_automations_archived_state: an archived row cannot take another state,
\* since nothing clears archived_at.
\* Mutant of Kept: without the constraint.
KeptNever(to) == to \in {"inactive", "active", "paused"}

Kept(to) == to # "archived" => lifecycle # "archived"

-----------------------------------------------------------------------------
(* Operations: the row is locked, the revision compared and counted. *)

Patch(c) ==
  /\ Handles(c, "patch") /\ CheckRevision(c) /\ lifecycle # "archived"
  /\ revision' = revision + 1
  /\ UNCHANGED <<lifecycle, active, draft, activationKey, versions, schedule>>

\* A key that has made a version gives that version.
Replayed(c) == \E n \in DOMAIN versions : versions[n].key = request[c].key

\* create_version; restore_version calls it with the graph of an old version.
CreateVersion(c) ==
  /\ Handles(c, "version") /\ ~Replayed(c) /\ CheckRevision(c) /\ lifecycle # "archived"
  /\ Len(versions) < MaxVersions
  /\ versions' = Append(versions,
       [graph |-> request[c].graph, key |-> request[c].key, base |-> request[c].draft])
  /\ draft' = Len(versions) + 1
  /\ revision' = revision + 1
  /\ UNCHANGED <<lifecycle, active, activationKey, schedule>>

\* materialize_runtime_projection: a plan with another trigger leaves the row alone.
Projected(n) ==
  IF versions[n].graph \in Scheduled THEN [version |-> n, enabled |-> TRUE] ELSE schedule

ActivationReplayed(c) == activationKey = request[c].key /\ active # 0 /\ active = draft

Activate(c) ==
  /\ Handles(c, "activate") /\ ~ActivationReplayed(c) /\ CheckRevision(c)
  /\ versions[draft].graph \in Valid
  /\ Kept("active")
  /\ active' = draft /\ lifecycle' = "active" /\ activationKey' = request[c].key
  /\ schedule' = Projected(draft)
  /\ revision' = revision + 1
  /\ UNCHANGED <<draft, versions>>

Pause(c) ==
  /\ Handles(c, "pause") /\ CheckRevision(c) /\ lifecycle = "active"
  /\ lifecycle' = "paused" /\ revision' = revision + 1
  /\ schedule' = [schedule EXCEPT !.enabled = FALSE]
  /\ UNCHANGED <<active, draft, activationKey, versions>>

Resume(c) ==
  /\ Handles(c, "resume") /\ CheckRevision(c) /\ lifecycle = "paused"
  /\ lifecycle' = IF active # 0 THEN "active" ELSE "inactive"
  /\ schedule' = [schedule EXCEPT !.enabled = @ \/ (schedule.version # 0 /\ active # 0)]
  /\ revision' = revision + 1
  /\ UNCHANGED <<active, draft, activationKey, versions>>

Archivable == lifecycle # "active" /\ runs = {}

Archive(c) ==
  /\ Handles(c, "archive") /\ CheckRevision(c) /\ Archivable
  /\ lifecycle' = "archived" /\ revision' = revision + 1
  /\ schedule' = [schedule EXCEPT !.enabled = FALSE]
  /\ UNCHANGED <<active, draft, activationKey, versions>>

-----------------------------------------------------------------------------
(* The scheduler and the runs. *)

\* tick: a due schedule enqueues a job with its payload.
ScheduleDue ==
  /\ schedule.enabled
  /\ ticks' = ticks \cup {schedule.version}
  /\ UNCHANGED <<row, runs, user>>

\* The handler reads the locked row again.
HandleTick(n) ==
  /\ n \in ticks
  /\ ticks' = ticks \ {n}
  /\ runs' = IF lifecycle = "active" /\ active = n THEN runs \cup {n} ELSE runs
  /\ UNCHANGED <<row, user>>

\* start: the version the operator names, or the active one.
StartRun(n) ==
  /\ lifecycle # "paused" /\ n \in DOMAIN versions
  /\ versions[n].graph \in Valid \ Scheduled
  /\ runs' = runs \cup {n}
  /\ UNCHANGED <<row, ticks, user>>

RunOver(n) == n \in runs /\ runs' = runs \ {n} /\ UNCHANGED <<row, ticks, user>>

Next ==
  \/ \E c \in Clients :
       \/ Load(c) \/ Answered(c) \/ \E op \in Operations, g \in Graphs : Ask(c, op, g)
       \/ Patch(c) \/ CreateVersion(c) \/ Activate(c) \/ Pause(c) \/ Resume(c) \/ Archive(c)
  \/ ScheduleDue
  \/ \E n \in Numbers : HandleTick(n) \/ StartRun(n) \/ RunOver(n)

Spec == Init /\ [][Next]_vars

-----------------------------------------------------------------------------
(* Properties. *)

\* No version overwrites one its author has not seen: the drafts form a chain,
\* whatever requests come late, twice or from another client.
BuildsOnSeen == \A n \in DOMAIN versions : versions[n].base = n - 1

\* A key makes one version, however often its request is delivered.
OneVersionPerKey ==
  \A n, k \in DOMAIN versions : versions[n].key = versions[k].key => n = k

\* The schedule fires only while the automation is active: neither a pause
\* nor the archive can be undone by a late activation or resume.
ScheduleFollows == schedule.enabled => lifecycle = "active"

\* No version overwrites one its author has not seen, a key makes one version,
\* and the schedule is on only while the automation is active, whatever requests
\* come late, twice or from another client.
VersionsChain == BuildsOnSeen /\ OneVersionPerKey /\ ScheduleFollows

\* What an activation puts into service is the draft its author has seen.
ActivatesSeen ==
  active' # active => \E c \in Clients : request[c] # NoRequest /\ request[c].op = "activate"
                                         /\ request[c].draft = active'

\* Archived automations stay archived.
KeepsArchived == lifecycle = "archived" => lifecycle' = "archived"
=============================================================================
