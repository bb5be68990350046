----------------------------- MODULE MCTelegram -----------------------------
(*****************************************************************************)
(* The Telegram side for TLC: processing of dispatches (with operator        *)
(* actions, zombies, failing calls), routes and destinations. The            *)
(* components keep their rows in tables of their own, so a run explores      *)
(* them one at a time: part says which one runs. Variables of the same name  *)
(* stand for the rows of that component. The destinations are those of the   *)
(* module this one extends; in the other parts there is none.                *)
(*****************************************************************************)
EXTENDS TelegramDestinations, TLC

CONSTANTS w1, w2, w3, check1, check2

VARIABLES part,  \* the component that runs
          st, err, rev, par, var, intents, run, pin, active, held, healthy,
          fenced, loc, givenUp, posted, ver, cs, paused, due, live, edits,
          others, copy, queue, goal, boundary, gaveUp

MCVars == <<part, job, tries, owner, retried, cur, st, err, rev, par, var, intents,
    run, pin, active, held, healthy, fenced, pc, loc, givenUp, posted, ver,
    cs, paused, due, live, edits, others, copy, queue, goal, boundary, gaveUp,
    d, p, used, loaded, seen, outcome, verified, lost>>

\* A backlog that takes two jobs to scan and two to capture.
Posts == 3
Forward(phase, base, snap, at) == [phase |-> phase, base |-> base, snap |-> snap, at |-> at]
RouteKey(kind, n, f) == [kind |-> kind, n |-> n, f |-> f, seq |-> 0]
NoRouteJob == RouteKey("none", 0, Forward("none", 0, 0, 0))
Ahead(phases) ==
  {f \in [phase : phases, base : 0..Posts, snap : 1..Posts, at : 0..Posts] :
     f.base <= f.at /\ f.at < f.snap}
RouteJobs ==
  {RouteKey("init", 1, f) :
     f \in {g \in Ahead({"activation", "scan", "capture"}) : g.phase = "activation" => g.base = 0}
           \cup {Forward("cycle", 0, 0, at) : at \in 0..Posts} \cup {NoRouteJob.f}}
  \cup {RouteKey("poll", n, NoRouteJob.f) : n \in 1..2}
  \cup {RouteKey("forward", 1, f) : f \in Ahead({"scan", "capture"})}

Process == INSTANCE TelegramProcess WITH Jobs <- 1..2, MaxAttempts <- 2,
    MaxRetries <- 1, MaxDispatches <- 2, Forced <- {2}, MaxPrompts <- 1,
    MaxCalls <- 2, Disturbances <- {"fence", "cancel", "gate"}
Zombies == INSTANCE TelegramProcess WITH Jobs <- 1..2, MaxAttempts <- 2,
    MaxRetries <- 0, MaxDispatches <- 2, Forced <- {2}, MaxPrompts <- 1,
    MaxCalls <- 2, Disturbances <- {"lease", "fail"}
Retries == INSTANCE TelegramProcess WITH Jobs <- 1..2, Workers <- {w3},
    MaxAttempts <- 2, MaxRetries <- 1, MaxDispatches <- 2, Forced <- {},
    MaxPrompts <- 2, MaxCalls <- 2, Disturbances <- {"crash", "fail", "media"}
Overtaken == INSTANCE TelegramProcess WITH Jobs <- 1..3, Workers <- {w3},
    MaxAttempts <- 2, MaxRetries <- 1, MaxDispatches <- 3, Forced <- {},
    MaxPrompts <- 1, MaxCalls <- 2, Disturbances <- {"fail"}
Routes == INSTANCE TelegramRoutes WITH Jobs <- RouteJobs, Workers <- {w3},
    NoJob <- NoRouteJob, MaxAttempts <- 2, MaxRetries <- 0, MaxPosts <- Posts,
    MaxVersion <- 0, MaxActs <- 1, MaxPolls <- 2, MaxDefer <- 0, Window <- 2,
    Disturbances <- {"crash"}

\* The variables a component does not have are off while it runs.
Off == "off"
NotProcess == <<posted, ver, cs, paused, due, live, edits, others, copy, queue, goal,
    boundary, gaveUp, d, p, used, loaded, seen, outcome, verified, lost>>
NotRoutes == <<st, err, rev, par, var, intents, run, pin, active, held, healthy, fenced,
    loc, givenUp, d, p, used, loaded, seen, outcome, verified, lost>>
NotDestinations == <<st, err, rev, par, var, intents, run, pin, active, held, healthy, fenced,
    loc, givenUp, posted, ver, cs, paused, due, live, edits, others, copy,
    queue, goal, boundary, gaveUp>>

MCInit ==
  \/ /\ part = "operator" /\ Process!Init
     /\ posted = NoDestination /\ ver = Off /\ cs = Off /\ paused = NoDestination /\ due = Off
     /\ live = Off /\ edits = Off /\ others = Off /\ copy = Off /\ queue = Off
     /\ goal = Off /\ boundary = Off /\ gaveUp = Off /\ d = NoDestination /\ p = Off
     /\ used = NoDestination /\ loaded = NoDestination /\ seen = Off /\ outcome = Off
     /\ verified = NoDestination /\ lost = Off
  \/ /\ part = "zombies" /\ Zombies!Init
     /\ posted = NoDestination /\ ver = Off /\ cs = Off /\ paused = NoDestination /\ due = Off
     /\ live = Off /\ edits = Off /\ others = Off /\ copy = Off /\ queue = Off
     /\ goal = Off /\ boundary = Off /\ gaveUp = Off /\ d = NoDestination /\ p = Off
     /\ used = NoDestination /\ loaded = NoDestination /\ seen = Off /\ outcome = Off
     /\ verified = NoDestination /\ lost = Off
  \/ /\ part = "retries" /\ Retries!Init
     /\ posted = NoDestination /\ ver = Off /\ cs = Off /\ paused = NoDestination /\ due = Off
     /\ live = Off /\ edits = Off /\ others = Off /\ copy = Off /\ queue = Off
     /\ goal = Off /\ boundary = Off /\ gaveUp = Off /\ d = NoDestination /\ p = Off
     /\ used = NoDestination /\ loaded = NoDestination /\ seen = Off /\ outcome = Off
     /\ verified = NoDestination /\ lost = Off
  \/ /\ part = "overtaken" /\ Overtaken!Init
     /\ posted = NoDestination /\ ver = Off /\ cs = Off /\ paused = NoDestination /\ due = Off
     /\ live = Off /\ edits = Off /\ others = Off /\ copy = Off /\ queue = Off
     /\ goal = Off /\ boundary = Off /\ gaveUp = Off /\ d = NoDestination /\ p = Off
     /\ used = NoDestination /\ loaded = NoDestination /\ seen = Off /\ outcome = Off
     /\ verified = NoDestination /\ lost = Off
  \/ /\ part = "routes" /\ Routes!Init
     /\ st = Off /\ err = Off /\ rev = Off /\ par = Off /\ var = Off
     /\ intents = Off /\ run = Off /\ pin = Off /\ active = Off /\ held = NoDestination
     /\ healthy = Off /\ fenced = NoDestination /\ loc = Off /\ givenUp = Off /\ d = NoDestination
     /\ p = Off /\ used = NoDestination /\ loaded = NoDestination /\ seen = Off /\ outcome = Off
     /\ verified = NoDestination /\ lost = Off
  \/ /\ part = "destinations" /\ Init
     /\ st = Off /\ err = Off /\ rev = Off /\ par = Off /\ var = Off
     /\ intents = Off /\ run = Off /\ pin = Off /\ active = Off /\ held = NoDestination
     /\ healthy = Off /\ fenced = NoDestination /\ loc = Off /\ givenUp = Off
     /\ posted = NoDestination /\ ver = Off /\ cs = Off /\ paused = NoDestination /\ due = Off
     /\ live = Off /\ edits = Off /\ others = Off /\ copy = Off /\ queue = Off
     /\ goal = Off /\ boundary = Off /\ gaveUp = Off

MCNext ==
  \/ part = "operator" /\ Process!Next /\ UNCHANGED <<part, NotProcess>>
  \/ part = "zombies" /\ Zombies!Next /\ UNCHANGED <<part, NotProcess>>
  \/ part = "retries" /\ Retries!Next /\ UNCHANGED <<part, NotProcess>>
  \/ part = "overtaken" /\ Overtaken!Next /\ UNCHANGED <<part, NotProcess>>
  \/ part = "routes" /\ Routes!Next /\ UNCHANGED <<part, NotRoutes>>
  \/ part = "destinations" /\ Next /\ UNCHANGED <<part, NotDestinations>>

MCSpec == MCInit /\ [][MCNext]_MCVars

ASSUME Process!TelegramProcessAssumption /\ Zombies!TelegramProcessAssumption
ASSUME Retries!TelegramProcessAssumption /\ Overtaken!TelegramProcessAssumption
ASSUME Routes!TelegramRoutesAssumption /\ TelegramDestinationsAssumption

MCSymmetry == Permutations(Workers) \cup Permutations({check1, check2})
Processing == part \in {"operator", "zombies", "retries"}

\* The rows of every component keep their types.
AllTypesOK ==
  /\ part = "operator" => Process!TypeOK
  /\ part = "zombies" => Zombies!TypeOK
  /\ part = "retries" => Retries!TypeOK
  /\ part = "overtaken" => Overtaken!TypeOK
  /\ part = "routes" => Routes!TypeOK
  /\ part = "destinations" => TypeOK
\* Every message above the boundary becomes a dispatch or is still ahead of the
\* cursor, and nothing older does: pages read newest first, over several jobs
\* and crashes, skip none.
NothingSkipped == part = "routes" => Routes!NothingSkipped /\ Routes!NewPostsOnly
\* The dispatches of a story get their revisions in the order of capture, unless
\* the earlier one was given up, and the revisions form one lineage although
\* the dispatches are generated concurrently and retried after later ones; a
\* retry asks with the prompt of the first attempt, and, where no job is cancelled,
\* no lease lost to a second worker and no variant fenced, a dispatch that holds up
\* later ones has a job that will go on with it.
OneLineage ==
  /\ Processing => /\ Process!NoOvertaking /\ Process!LineageShared
                   /\ Process!NoDrift /\ (part = "retries" => Process!BlockersAlive)
  /\ part = "overtaken" => Overtaken!NoOvertaking /\ Overtaken!LineageShared
\* Revisions and outputs of dispatches stay what they are, whichever worker
\* processes the dispatch again, and a publish job is made under an open gate.
DispatchesKept ==
  [][/\ Processing => /\ Process!KeepsRevisions /\ Process!KeepsOutput
                      /\ Process!PublishesUnderOpenGate
     /\ part = "overtaken" => Overtaken!KeepsRevisions /\ Overtaken!KeepsOutput]_MCVars
=============================================================================
