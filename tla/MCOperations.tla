---------------------------- MODULE MCOperations ----------------------------
(*****************************************************************************)
(* The operation of the installation for TLC: retention (shared files with   *)
(* zombies, attempts of one run, replays), backups (quiesced, restored,      *)
(* overlapping names), retention of archives. The components keep their      *)
(* rows in tables of their own, so a run explores them one at a time: part   *)
(* says which one runs. Variables of the same name stand for the rows of     *)
(* that component. The shared files are those of the module this one         *)
(* extends; they stay where they are in the other parts.                     *)
(*****************************************************************************)
EXTENDS Retention, Sequences, TLC

CONSTANTS w1, w2, w3, row1, row2, row3, api, worker, item1, name1, name2, p1, p2

VARIABLES part,  \* the component that runs
          kept2, file2,  \* kept and file where other records are retained
          rows, files, torn, rev, head, running, sess, archives, drill, cmd,
          step, name, stopped, stage, now, plan, seen

MCVars == <<part, kept2, file2, job, tries, owner, retried, cur, kept, hash,
            shield, file, status, cand, fresh, started, intents, touched, spared, pc, todo,
            skips, bad, rows, files, torn, rev, head, running, sess, archives,
            drill, cmd, step, name, stopped, stage, now, plan, seen>>

\* Two media rows with the same content, and an export.
SharedKind == [r \in Rows |-> "media"]
SharedUnit == [r \in Rows |-> row1]
ReplayKind == [r \in {row1, row2, row3} |-> IF r = row3 THEN "export" ELSE "media"]
ReplayUnit == [r \in {row1, row2, row3} |-> IF r = row3 THEN row3 ELSE row1]
\* Two attempts of one generation run.
AttemptKind == [r \in {row1, row2} |-> "scrub"]

Attempts == INSTANCE Retention WITH Jobs <- {"retention"}, MaxAttempts <- 2,
    MaxRetries <- 0, Rows <- {row1, row2}, Late <- {}, Kind <- AttemptKind,
    Unit <- SharedUnit, MaxChanges <- 1, kept <- kept2, file <- file2
Replay == INSTANCE Retention WITH Jobs <- {"retention"}, Workers <- {w3},
    MaxAttempts <- 2, MaxRetries <- 1, Rows <- {row1, row2, row3},
    Late <- {row2}, Kind <- ReplayKind, Unit <- ReplayUnit, MaxChanges <- 0,
    kept <- kept2, file <- file2
Quiesced == INSTANCE Backups WITH Procs <- {p1}, Writers <- {api, worker},
    Items <- {item1}, Names <- {name1}, MaxHead <- 1, Commands <- {"backup"},
    Disturbances <- {"fail", "stuck", "kill"}
Restored == INSTANCE Backups WITH Procs <- {p1}, Writers <- {api},
    Items <- {item1}, Names <- {name1, name2}, MaxHead <- 2,
    Commands <- {"backup", "restore"},
    Disturbances <- {"fail", "stuck", "kill", "upgrade"}
Named == INSTANCE Backups WITH Procs <- {p1, p2}, Writers <- {api},
    Items <- {item1}, Names <- {name1}, MaxHead <- 1, Commands <- {"backup"},
    Disturbances <- {"overlap"}
Prune == INSTANCE BackupRetention WITH MaxTime <- 8, DayLen <- 2, WeekLen <- 3,
    MonthLen <- 4, Daily <- 2, Weekly <- 1, Monthly <- 2

\* The variables a component does not have are off while it runs.
Off == "off"
NotZombies == <<kept2, file2, rows, files, torn, rev, head, running, sess, archives, drill,
    cmd, step, name, stopped, stage, now, plan, seen>>
NotAttempts == <<kept, file, rows, files, torn, rev, head, running, sess,
    archives, drill, cmd, step, name, stopped, stage, now, plan, seen>>
NotQuiesced == <<kept2, file2, job, tries, owner, retried, cur, kept, hash, shield, file,
    status, cand, fresh, started, intents, touched, spared, pc, todo, skips,
    bad, now, plan, seen>>
NotPrune == <<kept2, file2, job, tries, owner, retried, cur, kept, hash, shield, file, status,
    cand, fresh, started, intents, touched, spared, pc, todo, skips, bad, rows,
    files, torn, rev, head, running, sess, drill, cmd, step, name, stopped,
    stage>>

\* The shared files where nothing of them is retained.
AllKept == kept = [r \in Rows |-> "kept"] /\ file = {Unit[r] : r \in Rows}

MCInit ==
  \/ /\ part = "zombies" /\ Init
     /\ kept2 = Off /\ file2 = Off /\ rows = Off /\ files = Off /\ torn = Off /\ rev = Off /\ head = Off
     /\ running = Off /\ sess = Off /\ archives = Off /\ drill = Off
     /\ cmd = Off /\ step = Off /\ name = Off /\ stopped = Off /\ stage = Off
     /\ now = Off /\ plan = Off /\ seen = Off
  \/ /\ part = "attempts" /\ Attempts!Init /\ AllKept
     /\ rows = Off /\ files = Off /\ torn = Off /\ rev = Off /\ head = Off
     /\ running = Off /\ sess = Off /\ archives = Off /\ drill = Off
     /\ cmd = Off /\ step = Off /\ name = Off /\ stopped = Off /\ stage = Off
     /\ now = Off /\ plan = Off /\ seen = Off
  \/ /\ part = "replay" /\ Replay!Init /\ AllKept
     /\ rows = Off /\ files = Off /\ torn = Off /\ rev = Off /\ head = Off
     /\ running = Off /\ sess = Off /\ archives = Off /\ drill = Off
     /\ cmd = Off /\ step = Off /\ name = Off /\ stopped = Off /\ stage = Off
     /\ now = Off /\ plan = Off /\ seen = Off
  \/ /\ part = "quiesced" /\ Quiesced!Init
     /\ job = Off /\ tries = Off /\ owner = Off /\ retried = Off /\ cur = Off
     /\ AllKept /\ kept2 = Off /\ file2 = Off
     /\ hash = Off /\ shield = Off /\ status = Off
     /\ cand = Off /\ fresh = Off /\ started = Off /\ intents = Off
     /\ touched = Off /\ spared = Off /\ pc = Off /\ todo = Off /\ skips = Off
     /\ bad = Off /\ now = Off /\ plan = Off /\ seen = Off
  \/ /\ part = "restored" /\ Restored!Init
     /\ job = Off /\ tries = Off /\ owner = Off /\ retried = Off /\ cur = Off
     /\ AllKept /\ kept2 = Off /\ file2 = Off
     /\ hash = Off /\ shield = Off /\ status = Off
     /\ cand = Off /\ fresh = Off /\ started = Off /\ intents = Off
     /\ touched = Off /\ spared = Off /\ pc = Off /\ todo = Off /\ skips = Off
     /\ bad = Off /\ now = Off /\ plan = Off /\ seen = Off
  \/ /\ part = "names" /\ Named!Init
     /\ job = Off /\ tries = Off /\ owner = Off /\ retried = Off /\ cur = Off
     /\ AllKept /\ kept2 = Off /\ file2 = Off
     /\ hash = Off /\ shield = Off /\ status = Off
     /\ cand = Off /\ fresh = Off /\ started = Off /\ intents = Off
     /\ touched = Off /\ spared = Off /\ pc = Off /\ todo = Off /\ skips = Off
     /\ bad = Off /\ now = Off /\ plan = Off /\ seen = Off
  \/ /\ part = "prune" /\ Prune!Init
     /\ job = Off /\ tries = Off /\ owner = Off /\ retried = Off /\ cur = Off
     /\ AllKept /\ kept2 = Off /\ file2 = Off
     /\ hash = Off /\ shield = Off /\ status = Off
     /\ cand = Off /\ fresh = Off /\ started = Off /\ intents = Off
     /\ touched = Off /\ spared = Off /\ pc = Off /\ todo = Off /\ skips = Off
     /\ bad = Off /\ rows = Off /\ files = Off /\ torn = Off /\ rev = Off
     /\ head = Off /\ running = Off /\ sess = Off /\ drill = Off /\ cmd = Off
     /\ step = Off /\ name = Off /\ stopped = Off /\ stage = Off

MCNext ==
  \/ part = "zombies" /\ Next /\ UNCHANGED <<part, NotZombies>>
  \/ part = "attempts" /\ Attempts!Next /\ UNCHANGED <<part, NotAttempts>>
  \/ part = "replay" /\ Replay!Next /\ UNCHANGED <<part, NotAttempts>>
  \/ part = "quiesced" /\ Quiesced!Next /\ UNCHANGED <<part, NotQuiesced>>
  \/ part = "restored" /\ Restored!Next /\ UNCHANGED <<part, NotQuiesced>>
  \/ part = "names" /\ Named!Next /\ UNCHANGED <<part, NotQuiesced>>
  \/ part = "prune" /\ Prune!Next /\ UNCHANGED <<part, NotPrune>>

MCSpec == MCInit /\ [][MCNext]_MCVars

ASSUME Attempts!RetentionAssumption /\ Replay!RetentionAssumption
ASSUME Quiesced!BackupsAssumption /\ Restored!BackupsAssumption /\ Named!BackupsAssumption
ASSUME Prune!RetentionAssumption

MCSymmetry == Permutations(Workers)

\* The rows of every component keep their types.
AllTypesOK ==
  /\ part = "zombies" => TypeOK
  /\ part = "attempts" => Attempts!TypeOK
  /\ part = "replay" => Replay!TypeOK
  /\ part = "quiesced" => Quiesced!TypeOK
  /\ part = "restored" => Restored!TypeOK
  /\ part = "names" => Named!TypeOK
  /\ part = "prune" => Prune!TypeOK
\* What counts as done is done whole: the attempts of one generation run are
\* scrubbed together, a retention run that succeeded leaves no file of what it
\* removed, and once its job is over the run is settled; a backup captures one
\* moment, so that of a sound deployment dump and volumes belong together, and
\* services come back after a restore on exactly what the archive holds, never
\* on a part of it.
NothingHalfDone ==
  /\ part = "zombies" => EndedJobSettlesRun
  /\ part = "attempts" => Attempts!AttemptsScrubbedTogether
  /\ part = "replay" => Replay!SuccessLeavesNothing
  /\ part = "quiesced" => Quiesced!ArchivesConsistent
  /\ part = "restored" => Restored!CapturedTogether /\ Restored!RestoredExactly
                            /\ Restored!NoPartialRun
\* Nothing is removed that is to stay: retention removes what was confirmed and
\* is unchanged, a backup replaces no archive, a prune removes good surplus
\* archives, whatever happens in between.
NothingElseRemoved ==
  [][/\ part = "zombies" => RemovesConfirmed
     /\ part = "attempts" => Attempts!RemovesConfirmed
     /\ part = "names" => Named!KeepsArchives
     /\ part = "prune" => Prune!PrunesSurplus]_MCVars
=============================================================================
