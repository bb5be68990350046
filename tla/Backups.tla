-------------------------------- MODULE Backups --------------------------------
(***************************************************************************)
(* Backup, in-place restore and restore drill of a deployment whose data    *)
(* are a database and two file volumes.                                     *)
(* Source: scripts/backup_restore.py, scripts/restore_drill.py.             *)
(*                                                                         *)
(* Each invocation of the script is a process that runs one command of      *)
(* docker, pg_dump, tar or age after the other; every command may fail and  *)
(* the process may be killed between two of them.  The services meanwhile   *)
(* create files and the rows that refer to them, and remove them again.     *)
(* Contents are sets of items: a row is there or not, a file is there or    *)
(* not.  An archive that is published was decrypted and verified, so that   *)
(* its parts are what was captured; checksums and formats are left out.     *)
(***************************************************************************)
EXTENDS Naturals, Sequences, FiniteSets

CONSTANTS Procs,         \* invocations of the script
          Writers,       \* WRITER_SERVICES
          Items,         \* items of each volume
          Names,         \* archive names: the second a backup began in
          MaxHead,       \* bound: schema revisions of the deployed code
          Commands,      \* bound: what is invoked, of "backup", "restore"
          Disturbances   \* bound: of "fail", "stuck", "kill", "overlap", "upgrade"

Stores == {"media", "exports"}
Volumes == [Stores -> SUBSET Items]
Empty == [s \in Stores |-> {}]
Frontend == "frontend"
Services == Writers \cup {Frontend}     \* RUNTIME_SERVICES

\* The commands in the order the script gives them.
BackupSteps  == <<"stop", "assert", "dump", "media", "exports", "inventory", "resume", "link", "sync">>
\* Mutant of RestoreSteps: the services are up before the schema is migrated.
RestoreStepsEarly == <<"stopall", "drop", "load", "media", "exports", "start", "migrate">>
RestoreSteps == <<"stopall", "drop", "load", "media", "exports", "migrate", "start">>

BackupsAssumption ==
  /\ Writers # {} /\ Frontend \notin Writers /\ Names # {}
  /\ Commands \subseteq {"backup", "restore"}
  /\ MaxHead \in Nat \ {0}

VARIABLES
  rows, files,   \* what the database refers to, what the volumes hold
  torn,          \* stores that a restore has not brought to a whole state
  rev, head,     \* schema of the database, of the deployed code
  running, sess, \* services that run, that have a database session
  archives,      \* the backup directory
  drill,         \* reports of restore drills by archive
  cmd, step,     \* a process: what it was invoked for, the next command
  name, stopped, \* archive it makes or restores, services it stopped
  stage          \* what it has captured or unpacked

data == <<rows, files, torn, rev>>
env  == <<head, running, sess>>
dir  == <<archives, drill>>
proc == <<cmd, step, name, stopped, stage>>
vars == <<data, env, dir, proc>>

NoArchive == [rows |-> Empty, files |-> Empty, inv |-> Empty, rev |-> 0]
Archive == [rows : Volumes, files : Volumes, inv : Volumes, rev : 0..MaxHead]
Exists(n) == archives[n].rev # 0
Parts == {"database", "media", "exports", "schema"}

TypeOK ==
  /\ rows \in Volumes /\ files \in Volumes /\ torn \subseteq Parts
  /\ rev \in 0..head /\ head \in 1..MaxHead
  /\ running \subseteq Services /\ sess \subseteq running
  /\ archives \in [Names -> Archive] /\ drill \in [Names -> {"none", "passed", "failed"}]
  /\ cmd \in [Procs -> {"none", "backup", "restore"}] /\ name \in [Procs -> Names]
  /\ step \in [Procs -> 0..Len(BackupSteps)]
  /\ stopped \in [Procs -> SUBSET Writers] /\ stage \in [Procs -> Archive]

Init ==
  /\ rows = Empty /\ files = Empty /\ torn = {} /\ rev = 1
  /\ head = 1 /\ running = Services /\ sess = {}
  /\ archives = [n \in Names |-> NoArchive] /\ drill = [n \in Names |-> "none"]
  /\ cmd = [p \in Procs |-> "none"] /\ step = [p \in Procs |-> 0]
  /\ name \in [Procs -> {CHOOSE n \in Names : TRUE}]
  /\ stopped = [p \in Procs |-> {}] /\ stage = [p \in Procs |-> NoArchive]

-----------------------------------------------------------------------------
(* The services (external): files are written before rows refer to them and *)
(* removed after no row does.                                                *)

Works(w) == w \in running /\ sess' = sess \cup {w} /\ UNCHANGED <<torn, rev, head, running, dir, proc>>

AddFile(w, s, i) ==
  /\ i \notin files[s] /\ files' = [files EXCEPT ![s] = @ \cup {i}]
  /\ Works(w) /\ UNCHANGED rows

AddRow(w, s, i) ==
  /\ i \in files[s] \ rows[s] /\ rows' = [rows EXCEPT ![s] = @ \cup {i}]
  /\ Works(w) /\ UNCHANGED files

RemoveRow(w, s, i) ==
  /\ i \in rows[s] /\ rows' = [rows EXCEPT ![s] = @ \ {i}]
  /\ Works(w) /\ UNCHANGED files

RemoveFile(w, s, i) ==
  /\ i \in files[s] \ rows[s] /\ files' = [files EXCEPT ![s] = @ \ {i}]
  /\ Works(w) /\ UNCHANGED rows

\* A release is deployed while nothing else goes on.
Upgrade ==
  /\ "upgrade" \in Disturbances /\ head < MaxHead /\ torn = {}
  /\ \A p \in Procs : cmd[p] = "none"
  /\ head' = head + 1 /\ rev' = head + 1
  /\ UNCHANGED <<rows, files, torn, running, sess, dir, proc>>

-----------------------------------------------------------------------------
(* Processes. *)

Steps(p) == IF cmd[p] = "backup" THEN BackupSteps ELSE RestoreSteps
At(p, c, s) == cmd[p] = c /\ Steps(p)[step[p]] = s

Advance(p) ==
  IF step[p] = Len(Steps(p))
  THEN /\ cmd' = [cmd EXCEPT ![p] = "none"] /\ step' = [step EXCEPT ![p] = 0]
       /\ stopped' = [stopped EXCEPT ![p] = {}]
  ELSE step' = [step EXCEPT ![p] = @ + 1] /\ UNCHANGED <<cmd, stopped>>

Leave(p) ==
  /\ cmd' = [cmd EXCEPT ![p] = "none"] /\ step' = [step EXCEPT ![p] = 0]
  /\ stopped' = [stopped EXCEPT ![p] = {}] /\ UNCHANGED <<name, stage>>

\* docker compose stop, docker compose up.
Stop(S) == running' = running \ S /\ sess' = sess \ S /\ UNCHANGED head
Up(S)   == running' = running \cup S /\ UNCHANGED <<sess, head>>

Free(p) == cmd[p] = "none" /\ ("overlap" \in Disturbances \/ \A q \in Procs : cmd[q] = "none")

\* backup: the name must be free now.
BeginBackup(p, n) ==
  /\ "backup" \in Commands /\ Free(p) /\ ~Exists(n)
  /\ cmd' = [cmd EXCEPT ![p] = "backup"] /\ step' = [step EXCEPT ![p] = 1]
  /\ name' = [name EXCEPT ![p] = n] /\ stage' = [stage EXCEPT ![p] = NoArchive]
  /\ UNCHANGED <<data, env, dir, stopped>>

\* Mutant of Quiesced: one of the writers is not in the list.
QuiescedSome == running \ {Frontend, CHOOSE w \in Writers : TRUE}

\* Mutant of Quiesced: everything that runs is stopped.
QuiescedAll == running

\* The writers that run, and are to be resumed.
Quiesced == running \cap Writers

StopWriters(p) ==
  /\ At(p, "backup", "stop")
  /\ Stop(Quiesced)
  /\ stopped' = [stopped EXCEPT ![p] = Quiesced]
  /\ step' = [step EXCEPT ![p] = @ + 1]
  /\ UNCHANGED <<data, dir, cmd, name, stage>>

\* _assert_no_writer_sessions
AssertQuiescent(p) ==
  /\ At(p, "backup", "assert") /\ sess = {}
  /\ Advance(p) /\ UNCHANGED <<data, env, dir, name, stage>>

\* pg_dump, tar of either volume, _capture_database_inventory.
Dump(p) ==
  /\ At(p, "backup", "dump") /\ "database" \notin torn
  /\ stage' = [stage EXCEPT ![p].rows = rows, ![p].rev = rev]
  /\ Advance(p) /\ UNCHANGED <<data, env, dir, name>>

ArchiveVolume(p, s) ==
  /\ At(p, "backup", s)
  /\ stage' = [stage EXCEPT ![p].files[s] = files[s]]
  /\ Advance(p) /\ UNCHANGED <<data, env, dir, name>>

Inventory(p) ==
  /\ At(p, "backup", "inventory") /\ "database" \notin torn
  /\ stage' = [stage EXCEPT ![p].inv = rows]
  /\ Advance(p) /\ UNCHANGED <<data, env, dir, name>>

Resume(p) ==
  /\ At(p, "backup", "resume")
  /\ Up(stopped[p])
  /\ stopped' = [stopped EXCEPT ![p] = {}]
  /\ step' = [step EXCEPT ![p] = @ + 1]
  /\ UNCHANGED <<data, dir, cmd, name, stage>>

\* Mutant of MayLink: the archive is renamed into its place.
MayLinkAnyway(n) == TRUE

\* os.link fails when the name is taken.
MayLink(n) == ~Exists(n)

Link(p) ==
  /\ At(p, "backup", "link") /\ MayLink(name[p])
  /\ archives' = [archives EXCEPT ![name[p]] = stage[p]]
  /\ Advance(p) /\ UNCHANGED <<data, env, drill, name, stage>>

Sync(p) ==
  /\ At(p, "backup", "sync")
  /\ Advance(p) /\ UNCHANGED <<data, env, dir, name, stage>>

\* Mutant of ResumedOnFailure: only a backup that succeeds resumes.
ResumedNever(p) == {}

\* The finally clause: what was stopped and is not resumed.
ResumedOnFailure(p) == stopped[p]

\* A command fails; it may have done a part of its work, and the command that
\* resumes the services may fail as well.  A published archive that cannot be
\* made durable is removed.
FailBackup(p) ==
  /\ "fail" \in Disturbances \/ (At(p, "backup", "assert") /\ sess # {}) \/ (At(p, "backup", "link") /\ Exists(name[p]))
     \/ (At(p, "backup", "dump") /\ "database" \in torn)
  /\ cmd[p] = "backup"
  /\ \/ Up(ResumedOnFailure(p))
     \/ "stuck" \in Disturbances /\ \E S \in SUBSET stopped[p] : Up(S)
     \/ "stuck" \in Disturbances /\ At(p, "backup", "stop") /\ \E S \in SUBSET Quiesced : Stop(S)
  /\ archives' = IF At(p, "backup", "sync") THEN [archives EXCEPT ![name[p]] = NoArchive] ELSE archives
  /\ Leave(p) /\ UNCHANGED <<data, drill>>

\* restore: everything that can be verified is, before anything is stopped.
BeginRestore(p, n) ==
  /\ "restore" \in Commands /\ Free(p) /\ Exists(n)
  /\ cmd' = [cmd EXCEPT ![p] = "restore"] /\ step' = [step EXCEPT ![p] = 1]
  /\ name' = [name EXCEPT ![p] = n] /\ stage' = [stage EXCEPT ![p] = archives[n]]
  /\ UNCHANGED <<data, env, dir, stopped>>

StopAll(p) ==
  /\ At(p, "restore", "stopall") /\ Stop(Services)
  /\ Advance(p) /\ UNCHANGED <<data, dir, name, stage>>

\* DROP DATABASE ... WITH (FORCE), CREATE DATABASE
DropDatabase(p) ==
  /\ At(p, "restore", "drop")
  /\ rows' = Empty /\ torn' = Parts /\ rev' = 0 /\ sess' = {}
  /\ Advance(p) /\ UNCHANGED <<files, head, running, dir, name, stage>>

LoadDatabase(p) ==
  /\ At(p, "restore", "load")
  /\ rows' = stage[p].rows /\ rev' = stage[p].rev /\ torn' = torn \ {"database"}
  /\ Advance(p) /\ UNCHANGED <<files, env, dir, name, stage>>

\* Mutant of Replaced: the archive is unpacked over what is there.
ReplacedOver(p, s) == files[s] \cup stage[p].files[s]

\* _replace_volume removes everything first.
Replaced(p, s) == stage[p].files[s]

ReplaceVolume(p, s) ==
  /\ At(p, "restore", s)
  /\ files' = [files EXCEPT ![s] = Replaced(p, s)] /\ torn' = torn \ {s}
  /\ Advance(p) /\ UNCHANGED <<rows, rev, env, dir, name, stage>>

Migrate(p) ==
  /\ At(p, "restore", "migrate")
  /\ rev' = head /\ torn' = torn \ {"schema"}
  /\ Advance(p) /\ UNCHANGED <<rows, files, env, dir, name, stage>>

StartAll(p) ==
  /\ At(p, "restore", "start") /\ Up(Services)
  /\ Advance(p) /\ UNCHANGED <<data, dir, name, stage>>

\* _contain_runtime_services: all are stopped, or those that can be.
FailRestore(p) ==
  /\ "fail" \in Disturbances /\ cmd[p] = "restore"
  /\ \E R \in {running} \cup {running \cup S : S \in IF At(p, "restore", "start") THEN SUBSET Services ELSE {{}}} :
     \E S \in SUBSET R : running' = S /\ sess' = sess \cap S
  /\ files' = [s \in Stores |-> IF At(p, "restore", s) THEN {} ELSE files[s]]
  /\ torn' = IF At(p, "restore", "load") THEN torn \cup {"database"} ELSE torn
  /\ Leave(p) /\ UNCHANGED <<rows, rev, head, dir>>

\* SIGKILL, a signal Python does not handle, or the host.
Kill(p) ==
  /\ "kill" \in Disturbances /\ cmd[p] # "none"
  /\ Leave(p) /\ UNCHANGED <<data, env, dir>>

-----------------------------------------------------------------------------
\* run_drill: the archive is restored into stores of its own and migrated; what
\* is found there is compared with the manifest.
DrillPasses(n) ==
  /\ archives[n].inv = archives[n].rows
  /\ archives[n].rev = head

Drill(n) ==
  /\ Exists(n) /\ drill[n] = "none"
  /\ drill' = [drill EXCEPT ![n] = IF DrillPasses(n) THEN "passed" ELSE "failed"]
  /\ UNCHANGED <<data, env, archives, proc>>

Script(p) ==
  \/ StopWriters(p) \/ AssertQuiescent(p) \/ Dump(p) \/ Inventory(p) \/ Resume(p) \/ Link(p) \/ Sync(p)
  \/ StopAll(p) \/ DropDatabase(p) \/ LoadDatabase(p) \/ Migrate(p) \/ StartAll(p)
  \/ \E s \in Stores : ArchiveVolume(p, s) \/ ReplaceVolume(p, s)
  \/ FailBackup(p) \/ FailRestore(p)

Next ==
  \/ \E p \in Procs : Script(p) \/ Kill(p)
  \/ \E p \in Procs, n \in Names : BeginBackup(p, n) \/ BeginRestore(p, n)
  \/ \E n \in Names : Drill(n)
  \/ \E w \in Writers, s \in Stores, i \in Items :
       AddFile(w, s, i) \/ AddRow(w, s, i) \/ RemoveRow(w, s, i) \/ RemoveFile(w, s, i)
  \/ Upgrade

Spec == Init /\ [][Next]_vars

\* A command of the script returns.
LiveSpec == Spec /\ \A p \in Procs : WF_vars(Script(p))

-----------------------------------------------------------------------------
(* What is checked. *)

Consistent(a) == a.inv = a.rows /\ \A s \in Stores : a.rows[s] \subseteq a.files[s]

\* An archive has the inventory of its dump, and no row of it refers to a file
\* that it does not hold.  A backup of what a failed restore has left holds what
\* was there: then only CapturedTogether says anything of it.
ArchivesConsistent == \A n \in Names : Exists(n) => Consistent(archives[n])

\* A backup is of one moment: when the services are to be resumed, what was
\* captured one part after the other is what database and volumes hold.
CapturedTogether ==
  \A p \in Procs : At(p, "backup", "resume") =>
    stage[p].rows = rows /\ stage[p].inv = rows /\ stage[p].files = files

\* No backup replaces an archive: a name that is taken keeps its content until
\* the backup that linked it fails to make it durable.
KeepsArchives ==
  \A n \in Names : Exists(n) =>
    archives'[n] = archives[n] \/ \E p \in Procs : At(p, "backup", "sync") /\ name[p] = n

\* No service runs on data of which a restore has replaced a part only.
NoPartialRun == running # {} => torn = {}

\* When the services are started after a restore, database and volumes are what
\* the archive holds: nothing wrote in between.
RestoredExactly ==
  \A p \in Procs : At(p, "restore", "start") => rows = stage[p].rows /\ files = stage[p].files

\* A drill fails only for an archive that is not consistent.
DrillAcceptsGood == \A n \in Names : drill[n] = "failed" => ~Consistent(archives[n])

\* A writer that a backup stopped comes back, whether the backup succeeds or
\* fails, unless the command that resumes it fails.
WritersResume == \A w \in Writers : w \notin running ~> w \in running
=============================================================================
