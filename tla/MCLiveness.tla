----------------------------- MODULE MCLiveness -----------------------------
(*****************************************************************************)
(* Small instances of the components for liveness: what the fairness of      *)
(* workers, scheduler and scripts makes of them. The components keep their   *)
(* rows in tables of their own, so a run explores them one at a time: part   *)
(* says which one runs. Variables of the same name stand for the rows of     *)
(* that component.                                                           *)
(*****************************************************************************)
EXTENDS HandlerRuns, FiniteSets, Sequences, TLC

CONSTANTS w1, telegram, shorter, page, row1, row2, api, item1, name1, p1, sub1,
          check1

VARIABLES part,  \* the component that runs
          st, err, rev, par, var, intents, run, pin, active, held, healthy,
          fenced, pc, loc, givenUp, posted, ver, cs, paused, due, live, edits,
          others, copy, queue, goal, boundary, gaveUp, d, p, used, loaded, seen,
          outcome, verified, lost, stories, status, revs, runs, calls, fence,
          prompts, wk, evidence, latest, srev, cap, done, subs, att, newest,
          approved, media, target, result, kept, hash, shield, file, cand,
          fresh, started, touched, spared, todo, skips, bad, rows, files, torn,
          head, running, sess, archives, drill, cmd, step, name, stopped, stage,
          sub, coll, members, manual, asked, askedRow

MCVars == <<part, job, tries, owner, retried, cur, st, err, rev, par, var,
            intents, run, pin, active, held, healthy, fenced, pc, loc, givenUp,
            posted, ver, cs, paused, due, live, edits, others, copy, queue,
            goal, boundary, gaveUp, d, p, used, loaded, seen, outcome, verified,
            lost, stories, status, revs, runs, calls, fence, prompts, wk,
            evidence, latest, srev, cap, done, subs, att, newest, approved,
            media, target, result, kept, hash, shield, file, cand, fresh,
            started, touched, spared, todo, skips, bad, rows, files, torn, head,
            running, sess, archives, drill, cmd, step, name, stopped, stage,
            sub, coll, members, manual, asked, askedRow>>

\* Job keys.
Posts == 2
Forward(phase, base, snap, at) == [phase |-> phase, base |-> base, snap |-> snap, at |-> at]
RouteKey(kind, n, f) == [kind |-> kind, n |-> n, f |-> f, seq |-> 0]
NoRouteJob == RouteKey("none", 0, Forward("none", 0, 0, 0))
Ahead(phases) ==
  {f \in [phase : phases, base : 0..Posts, snap : 1..Posts, at : 0..Posts] :
     f.base <= f.at /\ f.at < f.snap}
RouteJobs ==
  {RouteKey("init", 1, f) :
     f \in {g \in Ahead({"activation", "scan", "capture"}) : g.phase = "activation" => g.base = 0}
           \cup {Forward("cycle", 0, 0, at) : at \in 0..Posts} \cup {NoRouteJob.f}}
  \cup {RouteKey("poll", n, NoRouteJob.f) : n \in 1..2}
  \cup {RouteKey("forward", 1, f) : f \in Ahead({"scan", "capture"})}
PackJob(kind, base, text) == [kind |-> kind, platform |-> telegram, base |-> base, text |-> text]
PackJobs ==
  {PackJob("canonical", 0, Nobody), PackJob("package", 0, Nobody), PackJob("regenerate", 1, shorter)}
ResearchJob(type, d0, n, ev) == [type |-> type, d |-> d0, n |-> n, ev |-> ev]
ResearchJobs ==
  {ResearchJob("research", 0, 0, e) : e \in {{1}, {1, page}}}
  \cup {ResearchJob("process", 1, n, {}) : n \in {0, 2, 3}}
NoResearchJob == ResearchJob("pack", 0, 0, {})
ExportJob == [payload |-> [q \in {telegram} |-> 1], gen |-> 0]
RetentionKind == [r \in {row1, row2} |-> IF r = row2 THEN "export" ELSE "media"]
RetentionUnit == [r \in {row1, row2} |-> r]

Process == INSTANCE TelegramProcess WITH Jobs <- 1..2, MaxAttempts <- 2,
    MaxRetries <- 0, MaxDispatches <- 2, Forced <- {}, MaxPrompts <- 1,
    MaxCalls <- 2, Disturbances <- {"crash", "fail"}
Routes == INSTANCE TelegramRoutes WITH Jobs <- RouteJobs, NoJob <- NoRouteJob,
    MaxRetries <- 0, MaxPosts <- Posts, MaxVersion <- 0, MaxActs <- 1,
    MaxPolls <- 2, MaxDefer <- 0, Window <- 2, Disturbances <- {"crash"}
Destinations == INSTANCE TelegramDestinations WITH Jobs <- {check1},
    DestJobs <- {check1}, ProxyJobs <- {}, MaxRetries <- 0
Packs == INSTANCE ContentPacks WITH Jobs <- PackJobs,
    NoJob <- [kind |-> "none"], PackPlatforms <- <<telegram>>,
    Telegram <- telegram, Instructions <- {shorter}, MaxAttempts <- 1,
    MaxRevision <- 1, MaxCalls <- 2, Disturbances <- {"crash"}
Study == INSTANCE Research WITH Jobs <- ResearchJobs, NoJob <- NoResearchJob,
    Pages <- {page}, MaxAttempts <- 3, MaxDispatches <- 1, MaxRevisions <- 3,
    Mode <- "auto_if_incomplete", CompleteAt <- 2, Disturbances <- {"fail"}
Builds == INSTANCE Exports WITH Jobs <- {ExportJob},
    NoJob <- [payload |-> <<>>, gen |-> 0], Platforms <- {telegram},
    MaxRevision <- 1, MaxGenerations <- 0, Disturbances <- {"crash", "expire"}
Removal == INSTANCE Retention WITH Jobs <- {"retention"}, Rows <- {row1, row2},
    Late <- {}, Kind <- RetentionKind, Unit <- RetentionUnit, MaxChanges <- 0
Backup == INSTANCE Backups WITH Procs <- {p1}, Writers <- {api},
    Items <- {item1}, Names <- {name1}, MaxHead <- 1, Commands <- {"backup"},
    Disturbances <- {"fail"}
Continuous == INSTANCE ContinuousIngestion WITH Subs <- {sub1},
    MaxAttempts <- 1, MaxCycles <- 2, MaxLost <- 0

\* The variables a component does not have are off while it runs.
Off == "off"
NotProcess == <<posted, ver, cs, paused, due, live, edits, others, copy, queue,
    goal, boundary, gaveUp, d, p, used, loaded, seen, outcome, verified, lost,
    stories, status, revs, runs, calls, fence, prompts, wk, evidence, latest,
    srev, cap, done, subs, att, newest, approved, media, target, result, kept,
    hash, shield, file, cand, fresh, started, touched, spared, todo, skips, bad,
    rows, files, torn, head, running, sess, archives, drill, cmd, step, name,
    stopped, stage, sub, coll, members, manual, asked, askedRow>>
NotRoutes == <<st, err, rev, par, var, intents, run, pin, active, held, healthy,
    fenced, loc, givenUp, d, p, used, loaded, seen, outcome, verified, lost,
    stories, status, revs, runs, calls, fence, prompts, wk, evidence, latest,
    srev, cap, done, subs, att, newest, approved, media, target, result, kept,
    hash, shield, file, cand, fresh, started, touched, spared, todo, skips, bad,
    rows, files, torn, head, running, sess, archives, drill, cmd, step, name,
    stopped, stage, sub, coll, members, manual, asked, askedRow>>
NotDestinations == <<st, err, rev, par, var, intents, run, pin, active, held,
    healthy, fenced, loc, givenUp, posted, ver, cs, paused, due, live, edits,
    others, copy, queue, goal, boundary, gaveUp, stories, status, revs, runs,
    calls, fence, prompts, wk, evidence, latest, srev, cap, done, subs, att,
    newest, approved, media, target, result, kept, hash, shield, file, cand,
    fresh, started, touched, spared, todo, skips, bad, rows, files, torn, head,
    running, sess, archives, drill, cmd, step, name, stopped, stage, sub, coll,
    members, manual, asked, askedRow>>
NotPacks == <<st, err, rev, par, var, intents, run, pin, active, held, healthy,
    fenced, loc, givenUp, posted, ver, cs, paused, due, live, edits, others,
    copy, queue, goal, boundary, gaveUp, d, p, used, loaded, seen, outcome,
    verified, lost, evidence, latest, srev, cap, done, subs, att, newest,
    approved, media, target, result, kept, hash, shield, file, cand, fresh,
    started, touched, spared, todo, skips, bad, rows, files, torn, head,
    running, sess, archives, drill, cmd, step, name, stopped, stage, sub, coll,
    members, manual, asked, askedRow>>
NotStudy == <<rev, par, var, intents, pin, active, held, healthy, fenced, loc,
    givenUp, posted, ver, cs, paused, due, live, edits, others, copy, queue,
    goal, boundary, gaveUp, d, p, used, loaded, seen, outcome, verified, lost,
    stories, status, revs, runs, calls, fence, prompts, wk, newest, approved,
    media, target, result, kept, hash, shield, file, cand, fresh, started,
    touched, spared, todo, skips, bad, rows, files, torn, head, running, sess,
    archives, drill, cmd, step, name, stopped, stage, sub, coll, members,
    manual, asked, askedRow>>
NotBuilds == <<st, err, rev, par, var, intents, run, pin, active, held, healthy,
    fenced, loc, givenUp, posted, ver, cs, paused, due, live, edits, others,
    copy, queue, goal, boundary, gaveUp, d, p, used, loaded, seen, outcome,
    verified, lost, stories, status, revs, runs, calls, fence, prompts, wk,
    evidence, latest, srev, cap, done, subs, att, kept, hash, shield, file,
    cand, fresh, started, touched, spared, todo, skips, bad, rows, files, torn,
    head, running, sess, archives, drill, cmd, step, name, stopped, stage, sub,
    coll, members, manual, asked, askedRow>>
NotRemoval == <<st, err, rev, par, var, run, pin, active, held, healthy, fenced,
    loc, givenUp, posted, ver, cs, paused, due, live, edits, others, copy,
    queue, goal, boundary, gaveUp, d, p, used, loaded, seen, outcome, verified,
    lost, stories, revs, runs, calls, fence, prompts, wk, evidence, latest,
    srev, cap, done, subs, att, newest, approved, media, target, result, rows,
    files, torn, head, running, sess, archives, drill, cmd, step, name, stopped,
    stage, sub, coll, members, manual, asked, askedRow>>
NotBackup == <<job, tries, owner, retried, cur, st, err, par, var, intents, run,
    pin, active, held, healthy, fenced, pc, loc, givenUp, posted, ver, cs,
    paused, due, live, edits, others, copy, queue, goal, boundary, gaveUp, d, p,
    used, loaded, seen, outcome, verified, lost, stories, status, revs, runs,
    calls, fence, prompts, wk, evidence, latest, srev, cap, done, subs, att,
    newest, approved, media, target, result, kept, hash, shield, file, cand,
    fresh, started, touched, spared, todo, skips, bad, sub, coll, members,
    manual, asked, askedRow>>
NotContinuous == <<retried, st, err, rev, par, var, intents, pin, active, held,
    healthy, fenced, loc, givenUp, posted, ver, cs, paused, due, live, edits,
    others, copy, queue, goal, boundary, gaveUp, d, p, used, seen, outcome,
    verified, stories, status, revs, runs, calls, fence, prompts, wk, evidence,
    latest, srev, cap, done, subs, att, newest, approved, media, target, kept,
    hash, shield, file, cand, fresh, started, touched, spared, todo, skips, bad,
    rows, files, torn, head, running, sess, archives, drill, cmd, step, name,
    stopped, stage>>

MCInit ==
  \/ /\ part = "process" /\ Process!Init
     /\ posted = Off /\ ver = Off /\ cs = Off /\ paused = Off /\ due = Off
     /\ live = Off /\ edits = Off /\ others = Off /\ copy = Off /\ queue = Off
     /\ goal = Off /\ boundary = Off /\ gaveUp = Off /\ d = Off /\ p = Off
     /\ used = Off /\ loaded = Off /\ seen = Off /\ outcome = Off
     /\ verified = Off /\ lost = Off /\ stories = Off /\ status = Off
     /\ revs = Off /\ runs = Off /\ calls = Off /\ fence = Off /\ prompts = Off
     /\ wk = Off /\ evidence = Off /\ latest = Off /\ srev = Off /\ cap = Off
     /\ done = Off /\ subs = Off /\ att = Off /\ newest = Off /\ approved = Off
     /\ media = Off /\ target = Off /\ result = Off /\ kept = Off /\ hash = Off
     /\ shield = Off /\ file = Off /\ cand = Off /\ fresh = Off /\ started = Off
     /\ touched = Off /\ spared = Off /\ todo = Off /\ skips = Off /\ bad = Off
     /\ rows = Off /\ files = Off /\ torn = Off /\ head = Off /\ running = Off
     /\ sess = Off /\ archives = Off /\ drill = Off /\ cmd = Off /\ step = Off
     /\ name = Off /\ stopped = Off /\ stage = Off /\ sub = Off /\ coll = Off
     /\ members = Off /\ manual = Off /\ asked = Off /\ askedRow = Off
  \/ /\ part = "routes" /\ Routes!Init
     /\ st = Off /\ err = Off /\ rev = Off /\ par = Off /\ var = Off
     /\ intents = Off /\ run = Off /\ pin = Off /\ active = Off /\ held = Off
     /\ healthy = Off /\ fenced = Off /\ loc = Off /\ givenUp = Off /\ d = Off
     /\ p = Off /\ used = Off /\ loaded = Off /\ seen = Off /\ outcome = Off
     /\ verified = Off /\ lost = Off /\ stories = Off /\ status = Off
     /\ revs = Off /\ runs = Off /\ calls = Off /\ fence = Off /\ prompts = Off
     /\ wk = Off /\ evidence = Off /\ latest = Off /\ srev = Off /\ cap = Off
     /\ done = Off /\ subs = Off /\ att = Off /\ newest = Off /\ approved = Off
     /\ media = Off /\ target = Off /\ result = Off /\ kept = Off /\ hash = Off
     /\ shield = Off /\ file = Off /\ cand = Off /\ fresh = Off /\ started = Off
     /\ touched = Off /\ spared = Off /\ todo = Off /\ skips = Off /\ bad = Off
     /\ rows = Off /\ files = Off /\ torn = Off /\ head = Off /\ running = Off
     /\ sess = Off /\ archives = Off /\ drill = Off /\ cmd = Off /\ step = Off
     /\ name = Off /\ stopped = Off /\ stage = Off /\ sub = Off /\ coll = Off
     /\ members = Off /\ manual = Off /\ asked = Off /\ askedRow = Off
  \/ /\ part = "destinations" /\ Destinations!Init
     /\ st = Off /\ err = Off /\ rev = Off /\ par = Off /\ var = Off
     /\ intents = Off /\ run = Off /\ pin = Off /\ active = Off /\ held = Off
     /\ healthy = Off /\ fenced = Off /\ loc = Off /\ givenUp = Off
     /\ posted = Off /\ ver = Off /\ cs = Off /\ paused = Off /\ due = Off
     /\ live = Off /\ edits = Off /\ others = Off /\ copy = Off /\ queue = Off
     /\ goal = Off /\ boundary = Off /\ gaveUp = Off /\ stories = Off
     /\ status = Off /\ revs = Off /\ runs = Off /\ calls = Off /\ fence = Off
     /\ prompts = Off /\ wk = Off /\ evidence = Off /\ latest = Off
     /\ srev = Off /\ cap = Off /\ done = Off /\ subs = Off /\ att = Off
     /\ newest = Off /\ approved = Off /\ media = Off /\ target = Off
     /\ result = Off /\ kept = Off /\ hash = Off /\ shield = Off /\ file = Off
     /\ cand = Off /\ fresh = Off /\ started = Off /\ touched = Off
     /\ spared = Off /\ todo = Off /\ skips = Off /\ bad = Off /\ rows = Off
     /\ files = Off /\ torn = Off /\ head = Off /\ running = Off /\ sess = Off
     /\ archives = Off /\ drill = Off /\ cmd = Off /\ step = Off /\ name = Off
     /\ stopped = Off /\ stage = Off /\ sub = Off /\ coll = Off /\ members = Off
     /\ manual = Off /\ asked = Off /\ askedRow = Off
  \/ /\ part = "packs" /\ Packs!Init
     /\ st = Off /\ err = Off /\ rev = Off /\ par = Off /\ var = Off
     /\ intents = Off /\ run = Off /\ pin = Off /\ active = Off /\ held = Off
     /\ healthy = Off /\ fenced = Off /\ loc = Off /\ givenUp = Off
     /\ posted = Off /\ ver = Off /\ cs = Off /\ paused = Off /\ due = Off
     /\ live = Off /\ edits = Off /\ others = Off /\ copy = Off /\ queue = Off
     /\ goal = Off /\ boundary = Off /\ gaveUp = Off /\ d = Off /\ p = Off
     /\ used = Off /\ loaded = Off /\ seen = Off /\ outcome = Off
     /\ verified = Off /\ lost = Off /\ evidence = Off /\ latest = Off
     /\ srev = Off /\ cap = Off /\ done = Off /\ subs = Off /\ att = Off
     /\ newest = Off /\ approved = Off /\ media = Off /\ target = Off
     /\ result = Off /\ kept = Off /\ hash = Off /\ shield = Off /\ file = Off
     /\ cand = Off /\ fresh = Off /\ started = Off /\ touched = Off
     /\ spared = Off /\ todo = Off /\ skips = Off /\ bad = Off /\ rows = Off
     /\ files = Off /\ torn = Off /\ head = Off /\ running = Off /\ sess = Off
     /\ archives = Off /\ drill = Off /\ cmd = Off /\ step = Off /\ name = Off
     /\ stopped = Off /\ stage = Off /\ sub = Off /\ coll = Off /\ members = Off
     /\ manual = Off /\ asked = Off /\ askedRow = Off
  \/ /\ part = "research" /\ Study!Init
     /\ rev = Off /\ par = Off /\ var = Off /\ intents = Off /\ pin = Off
     /\ active = Off /\ held = Off /\ healthy = Off /\ fenced = Off /\ loc = Off
     /\ givenUp = Off /\ posted = Off /\ ver = Off /\ cs = Off /\ paused = Off
     /\ due = Off /\ live = Off /\ edits = Off /\ others = Off /\ copy = Off
     /\ queue = Off /\ goal = Off /\ boundary = Off /\ gaveUp = Off /\ d = Off
     /\ p = Off /\ used = Off /\ loaded = Off /\ seen = Off /\ outcome = Off
     /\ verified = Off /\ lost = Off /\ stories = Off /\ status = Off
     /\ revs = Off /\ runs = Off /\ calls = Off /\ fence = Off /\ prompts = Off
     /\ wk = Off /\ newest = Off /\ approved = Off /\ media = Off
     /\ target = Off /\ result = Off /\ kept = Off /\ hash = Off /\ shield = Off
     /\ file = Off /\ cand = Off /\ fresh = Off /\ started = Off
     /\ touched = Off /\ spared = Off /\ todo = Off /\ skips = Off /\ bad = Off
     /\ rows = Off /\ files = Off /\ torn = Off /\ head = Off /\ running = Off
     /\ sess = Off /\ archives = Off /\ drill = Off /\ cmd = Off /\ step = Off
     /\ name = Off /\ stopped = Off /\ stage = Off /\ sub = Off /\ coll = Off
     /\ members = Off /\ manual = Off /\ asked = Off /\ askedRow = Off
  \/ /\ part = "exports" /\ Builds!Init
     /\ st = Off /\ err = Off /\ rev = Off /\ par = Off /\ var = Off
     /\ intents = Off /\ run = Off /\ pin = Off /\ active = Off /\ held = Off
     /\ healthy = Off /\ fenced = Off /\ loc = Off /\ givenUp = Off
     /\ posted = Off /\ ver = Off /\ cs = Off /\ paused = Off /\ due = Off
     /\ live = Off /\ edits = Off /\ others = Off /\ copy = Off /\ queue = Off
     /\ goal = Off /\ boundary = Off /\ gaveUp = Off /\ d = Off /\ p = Off
     /\ used = Off /\ loaded = Off /\ seen = Off /\ outcome = Off
     /\ verified = Off /\ lost = Off /\ stories = Off /\ status = Off
     /\ revs = Off /\ runs = Off /\ calls = Off /\ fence = Off /\ prompts = Off
     /\ wk = Off /\ evidence = Off /\ latest = Off /\ srev = Off /\ cap = Off
     /\ done = Off /\ subs = Off /\ att = Off /\ kept = Off /\ hash = Off
     /\ shield = Off /\ file = Off /\ cand = Off /\ fresh = Off /\ started = Off
     /\ touched = Off /\ spared = Off /\ todo = Off /\ skips = Off /\ bad = Off
     /\ rows = Off /\ files = Off /\ torn = Off /\ head = Off /\ running = Off
     /\ sess = Off /\ archives = Off /\ drill = Off /\ cmd = Off /\ step = Off
     /\ name = Off /\ stopped = Off /\ stage = Off /\ sub = Off /\ coll = Off
     /\ members = Off /\ manual = Off /\ asked = Off /\ askedRow = Off
  \/ /\ part = "retention" /\ Removal!Init
     /\ st = Off /\ err = Off /\ rev = Off /\ par = Off /\ var = Off
     /\ run = Off /\ pin = Off /\ active = Off /\ held = Off /\ healthy = Off
     /\ fenced = Off /\ loc = Off /\ givenUp = Off /\ posted = Off /\ ver = Off
     /\ cs = Off /\ paused = Off /\ due = Off /\ live = Off /\ edits = Off
     /\ others = Off /\ copy = Off /\ queue = Off /\ goal = Off
     /\ boundary = Off /\ gaveUp = Off /\ d = Off /\ p = Off /\ used = Off
     /\ loaded = Off /\ seen = Off /\ outcome = Off /\ verified = Off
     /\ lost = Off /\ stories = Off /\ revs = Off /\ runs = Off /\ calls = Off
     /\ fence = Off /\ prompts = Off /\ wk = Off /\ evidence = Off
     /\ latest = Off /\ srev = Off /\ cap = Off /\ done = Off /\ subs = Off
     /\ att = Off /\ newest = Off /\ approved = Off /\ media = Off
     /\ target = Off /\ result = Off /\ rows = Off /\ files = Off /\ torn = Off
     /\ head = Off /\ running = Off /\ sess = Off /\ archives = Off
     /\ drill = Off /\ cmd = Off /\ step = Off /\ name = Off /\ stopped = Off
     /\ stage = Off /\ sub = Off /\ coll = Off /\ members = Off /\ manual = Off
     /\ asked = Off /\ askedRow = Off
  \/ /\ part = "backups" /\ Backup!Init
     /\ job = Off /\ tries = Off /\ owner = Off /\ retried = Off /\ cur = Off
     /\ st = Off /\ err = Off /\ par = Off /\ var = Off /\ intents = Off
     /\ run = Off /\ pin = Off /\ active = Off /\ held = Off /\ healthy = Off
     /\ fenced = Off /\ pc = Off /\ loc = Off /\ givenUp = Off /\ posted = Off
     /\ ver = Off /\ cs = Off /\ paused = Off /\ due = Off /\ live = Off
     /\ edits = Off /\ others = Off /\ copy = Off /\ queue = Off /\ goal = Off
     /\ boundary = Off /\ gaveUp = Off /\ d = Off /\ p = Off /\ used = Off
     /\ loaded = Off /\ seen = Off /\ outcome = Off /\ verified = Off
     /\ lost = Off /\ stories = Off /\ status = Off /\ revs = Off /\ runs = Off
     /\ calls = Off /\ fence = Off /\ prompts = Off /\ wk = Off
     /\ evidence = Off /\ latest = Off /\ srev = Off /\ cap = Off /\ done = Off
     /\ subs = Off /\ att = Off /\ newest = Off /\ approved = Off /\ media = Off
     /\ target = Off /\ result = Off /\ kept = Off /\ hash = Off /\ shield = Off
     /\ file = Off /\ cand = Off /\ fresh = Off /\ started = Off
     /\ touched = Off /\ spared = Off /\ todo = Off /\ skips = Off /\ bad = Off
     /\ sub = Off /\ coll = Off /\ members = Off /\ manual = Off /\ asked = Off
     /\ askedRow = Off
  \/ /\ part = "continuous" /\ Continuous!Init
     /\ retried = Off /\ st = Off /\ err = Off /\ rev = Off /\ par = Off
     /\ var = Off /\ intents = Off /\ pin = Off /\ active = Off /\ held = Off
     /\ healthy = Off /\ fenced = Off /\ loc = Off /\ givenUp = Off
     /\ posted = Off /\ ver = Off /\ cs = Off /\ paused = Off /\ due = Off
     /\ live = Off /\ edits = Off /\ others = Off /\ copy = Off /\ queue = Off
     /\ goal = Off /\ boundary = Off /\ gaveUp = Off /\ d = Off /\ p = Off
     /\ used = Off /\ seen = Off /\ outcome = Off /\ verified = Off
     /\ stories = Off /\ status = Off /\ revs = Off /\ runs = Off /\ calls = Off
     /\ fence = Off /\ prompts = Off /\ wk = Off /\ evidence = Off
     /\ latest = Off /\ srev = Off /\ cap = Off /\ done = Off /\ subs = Off
     /\ att = Off /\ newest = Off /\ approved = Off /\ media = Off
     /\ target = Off /\ kept = Off /\ hash = Off /\ shield = Off /\ file = Off
     /\ cand = Off /\ fresh = Off /\ started = Off /\ touched = Off
     /\ spared = Off /\ todo = Off /\ skips = Off /\ bad = Off /\ rows = Off
     /\ files = Off /\ torn = Off /\ head = Off /\ running = Off /\ sess = Off
     /\ archives = Off /\ drill = Off /\ cmd = Off /\ step = Off /\ name = Off
     /\ stopped = Off /\ stage = Off

MCNext ==
  \/ part = "process" /\ Process!Next /\ UNCHANGED <<part, NotProcess>>
  \/ part = "routes" /\ Routes!Next /\ UNCHANGED <<part, NotRoutes>>
  \/ part = "destinations" /\ Destinations!Next /\ UNCHANGED <<part, NotDestinations>>
  \/ part = "packs" /\ Packs!Next /\ UNCHANGED <<part, NotPacks>>
  \/ part = "research" /\ Study!Next /\ UNCHANGED <<part, NotStudy>>
  \/ part = "exports" /\ Builds!Next /\ UNCHANGED <<part, NotBuilds>>
  \/ part = "retention" /\ Removal!Next /\ UNCHANGED <<part, NotRemoval>>
  \/ part = "backups" /\ Backup!Next /\ UNCHANGED <<part, NotBackup>>
  \/ part = "continuous" /\ Continuous!Next /\ UNCHANGED <<part, NotContinuous>>

MCSpec == MCInit /\ [][MCNext]_MCVars

\* A worker goes on with the job it has claimed.
Handles(w) ==
  \/ part = "process" /\ Process!WorkerStep(w) /\ UNCHANGED <<part, NotProcess>>
  \/ part = "routes" /\ Routes!Handle(w) /\ UNCHANGED <<part, NotRoutes>>
  \/ part = "destinations" /\ Destinations!Check(w) /\ UNCHANGED <<part, NotDestinations>>
  \/ part = "packs" /\ Packs!WorkerStep(w) /\ UNCHANGED <<part, NotPacks>>
  \/ part = "research" /\ Study!WorkerStep(w) /\ UNCHANGED <<part, NotStudy>>
  \/ part = "exports" /\ Builds!WorkerStep(w) /\ UNCHANGED <<part, NotBuilds>>
  \/ part = "retention" /\ Removal!Handler(w) /\ UNCHANGED <<part, NotRemoval>>
  \/ part = "continuous" /\ Continuous!Handle(w) /\ UNCHANGED <<part, NotContinuous>>
\* A worker claims a job.
Starts(w) ==
  \/ part = "process" /\ Process!Start(w) /\ UNCHANGED <<part, NotProcess>>
  \/ part = "routes" /\ Routes!Start(w) /\ UNCHANGED <<part, NotRoutes>>
  \/ part = "destinations" /\ Destinations!Start(w) /\ UNCHANGED <<part, NotDestinations>>
  \/ part = "packs" /\ Packs!Start(w) /\ UNCHANGED <<part, NotPacks>>
  \/ part = "research" /\ Study!Start(w) /\ UNCHANGED <<part, NotStudy>>
  \/ part = "exports" /\ Builds!Start(w) /\ UNCHANGED <<part, NotBuilds>>
  \/ part = "retention" /\ Removal!Start(w) /\ UNCHANGED <<part, NotRemoval>>
  \/ part = "continuous" /\ (\E j \in {sub1} \X (1..2) : Continuous!ClaimJob(w, j)) /\ UNCHANGED <<part, NotContinuous>>
\* The scheduler recovers an expired lease.
Recovers ==
  \/ part = "process" /\ (\E j \in 1..2 : Process!Recover(j)) /\ UNCHANGED <<part, NotProcess>>
  \/ part = "routes" /\ (\E j \in RouteJobs : Routes!Recover(j)) /\ UNCHANGED <<part, NotRoutes>>
  \/ part = "destinations" /\ (\E j \in {check1} : Destinations!Recover(j)) /\ UNCHANGED <<part, NotDestinations>>
  \/ part = "packs" /\ (\E j \in PackJobs : Packs!Recover(j)) /\ UNCHANGED <<part, NotPacks>>
  \/ part = "research" /\ (\E j \in ResearchJobs : Study!Recover(j)) /\ UNCHANGED <<part, NotStudy>>
  \/ part = "exports" /\ (\E j \in {ExportJob} : Builds!Recover(j)) /\ UNCHANGED <<part, NotBuilds>>
  \/ part = "retention" /\ Removal!Recover /\ UNCHANGED <<part, NotRemoval>>
  \/ part = "continuous" /\ (\E j \in {sub1} \X (1..2) : Continuous!RecoverOrphan(j)) /\ UNCHANGED <<part, NotContinuous>>
\* The other duties of a tick.
Ticks ==
  \/ part = "routes" /\ Routes!Tick /\ UNCHANGED <<part, NotRoutes>>
  \/ part = "continuous" /\ Continuous!Schedule(sub1) /\ UNCHANGED <<part, NotContinuous>>
\* A step of the backup script, and the time of the next cycle.
Proceeds ==
  \/ part = "backups" /\ Backup!Script(p1) /\ UNCHANGED <<part, NotBackup>>
  \/ part = "continuous" /\ Continuous!BecomesDue(sub1) /\ UNCHANGED <<part, NotContinuous>>

MCFairness ==
  /\ \A w \in Workers : WF_MCVars(Handles(w)) /\ WF_MCVars(Starts(w))
  /\ WF_MCVars(Recovers) /\ WF_MCVars(Ticks) /\ WF_MCVars(Proceeds)

MCLiveSpec == MCSpec /\ MCFairness

\* Captured dispatches settle, a due poll is made, and a destination does not stay
\* "checking", unless the last attempt of its check was lost (TelegramProcess,
\* TelegramRoutes, TelegramDestinations).
Automating(i) == \/ part = "process" /\ st[i] = "captured"
                 \/ part = "routes" /\ i = 1 /\ Routes!PollDue(i)
                 \/ part = "destinations" /\ i = 1 /\ Destinations!Checking
Automated(i) == \/ part = "process" /\ Process!Settled(i)
                \/ part = "routes" /\ (Routes!PollMade(i) \/ gaveUp)
                \/ part = "destinations" /\ (~Destinations!Checking \/ lost)
AutomationsProceed == \A i \in 1..2 : Automating(i) ~> Automated(i)

\* A fenced variant is freed, research and exports end (ContentPacks, Research,
\* Exports).
Editing == \/ part = "packs" /\ Packs!Fenced(telegram)
           \/ part = "research" /\ Study!UnderResearch(1)
           \/ part = "exports" /\ job[ExportJob] = "queued"
Edited == \/ part = "packs" /\ ~Packs!Fenced(telegram)
          \/ part = "research" /\ ~Study!UnderResearch(1)
          \/ part = "exports" /\ job[ExportJob] \in Builds!Over
EditorialWorkEnds == Editing ~> Edited

\* A confirmed retention run ends, stopped writers resume, and a subscription that
\* is on does not get stuck (Retention, Backups, ContinuousIngestion).
Operating == \/ part = "retention" /\ status = "queued"
             \/ part = "backups" /\ api \notin running
Operated == \/ part = "retention" /\ status \notin {"queued", "running"}
            \/ part = "backups" /\ api \in running
OperationsEnd ==
  /\ Operating ~> Operated
  /\ \A n \in 0..1 : (part = "continuous" /\ Continuous!On(sub1, n))
                       ~> (part = "continuous" /\ ~Continuous!On(sub1, n))
=============================================================================
