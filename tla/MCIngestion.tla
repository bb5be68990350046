---------------------------- MODULE MCIngestion -----------------------------
(*****************************************************************************)
(* The ingestion side for TLC: continuous ingestion (two cycles, two         *)
(* subscriptions of a collection, zombies), runs over two sources (failing   *)
(* answers and error pages, failing processing, two workers), the schedules  *)
(* and icons of a source. The components keep their rows in tables of their  *)
(* own, so a run explores them one at a time: part says which one runs.      *)
(* Variables of the same name stand for the rows of that component. Two      *)
(* subscriptions of a collection are those of the module this one extends;   *)
(* in the runs over sources there is no collection to ingest.                *)
(*****************************************************************************)
EXTENDS ContinuousIngestion, Sequences, TLC

CONSTANTS w1, w2, w3, sub1, sub2,
          NoJob         \* a worker between two claims, in the other parts

VARIABLES part,  \* the component that runs
          alone, \* where the handler of the only worker stands in "cycles"
          retried, version, row, items, ident, entry, events, runs, snap, work,
          calls, tangled, now, paused, src, sched, icon, tick

MCVars == <<part, alone, job, tries, owner, retried, cur, sub, coll, members,
            manual, run, pc, loaded, result, lost, asked, askedRow, version, row,
            items, ident, entry, events, runs, snap, work, calls, tangled, now,
            paused, src, sched, icon, tick>>

\* An ordinary run over two sources, one of a collection.
Ordinary == [sources |-> {1, 2}, collection |-> FALSE]
OfCollection == [sources |-> {1}, collection |-> TRUE]
\* Two sources; entry 3 is what entries 1 and 2 of both are, entry 6 what entries
\* 2 and 5 are, entry 4 has the text of entry 2; the newer versions ship excerpts.
FeedOf == <<<<<<1, 5>>, <<3, 1>>>>, <<<<2, 6>>, <<4>>>>>>
Identities == <<{"a"}, {"b", "text"}, {"a", "b"}, {"text"}, {"c"}, {"c", "text"}>>
Shortened == {<<1, 2>>, <<2, 2>>}

TwoCycles == INSTANCE ContinuousIngestion WITH Subs <- {sub1}, Workers <- {w1},
    MaxAttempts <- 2, MaxCycles <- 2, MaxLost <- 0, pc <- alone
Zombies == INSTANCE ContinuousIngestion WITH Subs <- {sub1}, MaxAttempts <- 2,
    MaxCycles <- 1, MaxLost <- 1
Outage == INSTANCE SourceIngest WITH Jobs <- {Ordinary}, Workers <- {w3},
    MaxAttempts <- 2, MaxRetries <- 0, Sources <- {1, 2}, Feed <- FeedOf,
    IdsOf <- Identities, Weaker <- {"text"}, Excerpts <- Shortened,
    Concurrency <- 2, MaxCalls <- 4, Disturbances <- {"outage"}
Broken == INSTANCE SourceIngest WITH Jobs <- {Ordinary, OfCollection},
    Workers <- {w3}, MaxAttempts <- 1, MaxRetries <- 0, Sources <- {1, 2},
    Feed <- FeedOf, IdsOf <- Identities, Weaker <- {"text"},
    Excerpts <- Shortened, Concurrency <- 2, MaxCalls <- 3,
    Disturbances <- {"parse", "persist"}
Aborted == INSTANCE SourceIngest WITH Jobs <- {Ordinary}, Workers <- {w3},
    MaxAttempts <- 2, MaxRetries <- 0, Sources <- {1, 2}, Feed <- FeedOf,
    IdsOf <- Identities, Weaker <- {"text"}, Excerpts <- Shortened,
    Concurrency <- 2, MaxCalls <- 4,
    Disturbances <- {"parse", "persist", "abort"}
Twice == INSTANCE SourceIngest WITH Jobs <- {Ordinary, OfCollection},
    Workers <- {w1, w2}, MaxAttempts <- 1, MaxRetries <- 0, Sources <- {1, 2},
    Feed <- FeedOf, IdsOf <- Identities, Weaker <- {"text"},
    Excerpts <- Shortened, Concurrency <- 2, MaxCalls <- 4, Disturbances <- {}

\* The schedule of a source collected every two units, and of a daily one; the
\* icon of a source, whose failures a browser reports too, or whose jobs die.
EveryTwo == [s \in {"feed"} |-> 2]
IconJobs == {"feed"} \X (1..2)
Slots == INSTANCE SourceSchedules WITH Jobs <- {}, Workers <- {w3},
    MaxAttempts <- 1, MaxRetries <- 0, Sources <- {"feed"}, Every <- EveryTwo,
    Daily <- {}, Day <- 3, IconSources <- {}, Ttl <- 1, Abandon <- 1,
    RetryBase <- 1, RetryMax <- 2, MaxIcon <- 0, MaxTime <- 5,
    Disturbances <- {"pause", "fetch", "delete", "crash"}
Days == INSTANCE SourceSchedules WITH Jobs <- {}, Workers <- {w3},
    MaxAttempts <- 1, MaxRetries <- 0, Sources <- {"feed"}, Every <- EveryTwo,
    Daily <- {"feed"}, Day <- 3, IconSources <- {}, Ttl <- 1, Abandon <- 1,
    RetryBase <- 1, RetryMax <- 2, MaxIcon <- 0, MaxTime <- 6,
    Disturbances <- {"pause", "fetch", "delete"}
Reported == INSTANCE SourceSchedules WITH Jobs <- IconJobs, Workers <- {w1, w2},
    MaxAttempts <- 1, MaxRetries <- 0, Sources <- {"feed"}, Every <- EveryTwo,
    Daily <- {}, Day <- 3, IconSources <- {"feed"}, Ttl <- 1, Abandon <- 1,
    RetryBase <- 1, RetryMax <- 1, MaxIcon <- 2, MaxTime <- 2,
    Disturbances <- {"report"}
Icons == INSTANCE SourceSchedules WITH Jobs <- IconJobs, Workers <- {w3},
    MaxAttempts <- 1, MaxRetries <- 0, Sources <- {"feed"}, Every <- EveryTwo,
    Daily <- {}, Day <- 3, IconSources <- {"feed"}, Ttl <- 1, Abandon <- 1,
    RetryBase <- 1, RetryMax <- 1, MaxIcon <- 2, MaxTime <- 2,
    Disturbances <- {"crash", "delete", "refuse"}

\* The variables a component does not have are off while it runs.
Off == "off"
Schedules == <<now, paused, src, sched, icon, tick>>
NotTwoCycles == <<pc, retried, version, row, items, ident, entry, events, runs,
    snap, work, calls, tangled, Schedules>>
NotCycles == <<alone, retried, version, row, items, ident, entry, events, runs, snap,
    work, calls, tangled, Schedules>>
NotOutage == <<alone, sub, coll, members, manual, run, pc, loaded, result, asked,
    askedRow, Schedules>>
NotSchedules == <<alone, lost, sub, coll, members, manual, run, pc, loaded, result, asked,
    askedRow, version, row, items, ident, entry, events, runs, snap, calls, tangled>>

MCInit ==
  \/ /\ part = "cycles" /\ TwoCycles!Init
     /\ pc = [w \in Workers |-> "idle"] /\ retried = Off /\ version = Off /\ row = Off /\ items = Off
     /\ ident = Off /\ entry = Off /\ events = Off /\ runs = Off /\ snap = Off
     /\ work = Off /\ calls = Off /\ tangled = Off
     /\ now = Off /\ paused = Off /\ src = Off /\ sched = Off /\ icon = Off /\ tick = Off
  \/ /\ part = "shared" /\ Init
     /\ alone = Off /\ retried = Off /\ version = Off /\ row = Off /\ items = Off
     /\ ident = Off /\ entry = Off /\ events = Off /\ runs = Off /\ snap = Off
     /\ work = Off /\ calls = Off /\ tangled = Off
     /\ now = Off /\ paused = Off /\ src = Off /\ sched = Off /\ icon = Off /\ tick = Off
  \/ /\ part = "zombies" /\ Zombies!Init
     /\ alone = Off /\ retried = Off /\ version = Off /\ row = Off /\ items = Off
     /\ ident = Off /\ entry = Off /\ events = Off /\ runs = Off /\ snap = Off
     /\ work = Off /\ calls = Off /\ tangled = Off
     /\ now = Off /\ paused = Off /\ src = Off /\ sched = Off /\ icon = Off /\ tick = Off
  \/ /\ part = "outage" /\ Outage!Init
     /\ alone = Off /\ sub = Off /\ coll = FALSE /\ members = Off /\ manual = Off /\ run = Off
     /\ pc = Off /\ loaded = Off /\ result = Off /\ asked = Off
     /\ askedRow = Off
     /\ now = Off /\ paused = Off /\ src = Off /\ sched = Off /\ icon = Off /\ tick = Off
  \/ /\ part = "broken" /\ Broken!Init
     /\ alone = Off /\ sub = Off /\ coll = FALSE /\ members = Off /\ manual = Off /\ run = Off
     /\ pc = Off /\ loaded = Off /\ result = Off /\ asked = Off
     /\ askedRow = Off
     /\ now = Off /\ paused = Off /\ src = Off /\ sched = Off /\ icon = Off /\ tick = Off
  \/ /\ part = "aborted" /\ Aborted!Init
     /\ alone = Off /\ sub = Off /\ coll = FALSE /\ members = Off /\ manual = Off /\ run = Off
     /\ pc = Off /\ loaded = Off /\ result = Off /\ asked = Off
     /\ askedRow = Off
     /\ now = Off /\ paused = Off /\ src = Off /\ sched = Off /\ icon = Off /\ tick = Off
  \/ /\ part = "twice" /\ Twice!Init
     /\ alone = Off /\ sub = Off /\ coll = FALSE /\ members = Off /\ manual = Off /\ run = Off
     /\ pc = Off /\ loaded = Off /\ result = Off /\ asked = Off
     /\ askedRow = Off
     /\ now = Off /\ paused = Off /\ src = Off /\ sched = Off /\ icon = Off /\ tick = Off
  \/ /\ part = "slots" /\ Slots!Init
     /\ alone = Off /\ sub = Off /\ coll = FALSE /\ members = Off /\ manual = Off /\ run = Off
     /\ pc = Off /\ loaded = Off /\ result = Off /\ asked = Off
     /\ askedRow = Off /\ version = Off /\ row = Off /\ items = Off /\ ident = Off
     /\ entry = Off /\ events = Off /\ runs = Off /\ snap = Off /\ calls = Off /\ tangled = Off /\ lost = Off
  \/ /\ part = "days" /\ Days!Init
     /\ alone = Off /\ sub = Off /\ coll = FALSE /\ members = Off /\ manual = Off /\ run = Off
     /\ pc = Off /\ loaded = Off /\ result = Off /\ asked = Off
     /\ askedRow = Off /\ version = Off /\ row = Off /\ items = Off /\ ident = Off
     /\ entry = Off /\ events = Off /\ runs = Off /\ snap = Off /\ calls = Off /\ tangled = Off /\ lost = Off
  \/ /\ part = "reported" /\ Reported!Init
     /\ alone = Off /\ sub = Off /\ coll = FALSE /\ members = Off /\ manual = Off /\ run = Off
     /\ pc = Off /\ loaded = Off /\ result = Off /\ asked = Off
     /\ askedRow = Off /\ version = Off /\ row = Off /\ items = Off /\ ident = Off
     /\ entry = Off /\ events = Off /\ runs = Off /\ snap = Off /\ calls = Off /\ tangled = Off /\ lost = Off
  \/ /\ part = "icons" /\ Icons!Init
     /\ alone = Off /\ sub = Off /\ coll = FALSE /\ members = Off /\ manual = Off /\ run = Off
     /\ pc = Off /\ loaded = Off /\ result = Off /\ asked = Off
     /\ askedRow = Off /\ version = Off /\ row = Off /\ items = Off /\ ident = Off
     /\ entry = Off /\ events = Off /\ runs = Off /\ snap = Off /\ calls = Off /\ tangled = Off /\ lost = Off

MCNext ==
  \/ part = "cycles" /\ TwoCycles!Next /\ UNCHANGED <<part, NotTwoCycles>>
  \/ part = "shared" /\ Next /\ UNCHANGED <<part, NotCycles>>
  \/ part = "zombies" /\ Zombies!Next /\ UNCHANGED <<part, NotCycles>>
  \/ part = "outage" /\ Outage!Next /\ UNCHANGED <<part, NotOutage>>
  \/ part = "broken" /\ Broken!Next /\ UNCHANGED <<part, NotOutage>>
  \/ part = "aborted" /\ Aborted!Next /\ UNCHANGED <<part, NotOutage>>
  \/ part = "twice" /\ Twice!Next /\ UNCHANGED <<part, NotOutage>>
  \/ part = "slots" /\ Slots!Next /\ UNCHANGED <<part, NotSchedules>>
  \/ part = "days" /\ Days!Next /\ UNCHANGED <<part, NotSchedules>>
  \/ part = "reported" /\ Reported!Next /\ UNCHANGED <<part, NotSchedules>>
  \/ part = "icons" /\ Icons!Next /\ UNCHANGED <<part, NotSchedules>>

MCSpec == MCInit /\ [][MCNext]_MCVars

ASSUME TwoCycles!ConstantsAssumption /\ Zombies!ConstantsAssumption
ASSUME Outage!SourceIngestAssumption /\ Broken!SourceIngestAssumption
ASSUME Aborted!SourceIngestAssumption /\ Twice!SourceIngestAssumption
ASSUME Slots!SourceSchedulesAssumption /\ Days!SourceSchedulesAssumption
ASSUME Reported!SourceSchedulesAssumption /\ Icons!SourceSchedulesAssumption

MCSymmetry == Permutations(Workers) \cup Permutations({sub1, sub2})

\* The rows of every component keep their types.
AllTypesOK ==
  /\ part = "cycles" => TwoCycles!TypeOK
  /\ part = "shared" => TypeOK
  /\ part = "zombies" => Zombies!TypeOK
  /\ part = "outage" => Outage!TypeOK
  /\ part = "broken" => Broken!TypeOK
  /\ part = "aborted" => Aborted!TypeOK
  /\ part = "twice" => Twice!TypeOK
  /\ part = "slots" => Slots!TypeOK
  /\ part = "days" => Days!TypeOK
  /\ part = "reported" => Reported!TypeOK
  /\ part = "icons" => Icons!TypeOK
\* A source whose newest fetch is a success has stored what its validator stands
\* for, unless the processing of that version has failed once (its validator is
\* kept all the same); every entry was announced once; entries of one identity end
\* at one surviving item until a merge meets a duplicate without its original, and
\* an item that is nobody's duplicate can always be found; the account of a run
\* adds up; a schedule goes on to slots it has not enqueued, and a queued icon has
\* its job.
IngestAgrees ==
  /\ part = "outage" => /\ Outage!FeedsStored /\ Outage!EventsMatch /\ Outage!RunAccounts
                         /\ Outage!SharedIsMerged /\ Outage!OriginalsAreFound
  /\ part = "broken" => /\ Broken!FeedsStored /\ Broken!EventsMatch /\ Broken!RunAccounts
                         /\ Broken!SharedIsMerged /\ Broken!OriginalsAreFound
  /\ part = "aborted" => /\ Aborted!FeedsStored /\ Aborted!EventsMatch /\ Aborted!RunAccounts
                         /\ Aborted!SharedIsMerged /\ Aborted!OriginalsAreFound
  /\ part = "twice" => /\ Twice!FeedsStored /\ Twice!EventsMatch /\ Twice!RunAccounts
                         /\ Twice!SharedIsMerged /\ Twice!OriginalsAreFound
  /\ part = "slots" => Slots!SlotsGoOn
  /\ part = "days" => Days!SlotsGoOn
  /\ part = "reported" => Reported!QueuedIconHasJob
  /\ part = "icons" => Icons!QueuedIconHasJob
\* A stopped subscription is not revived by the late write of a worker that
\* lost its lease, and a settled ingest run is not ingested again by a replay;
\* an excerpt never replaces a full text; a slot is for a source that was there
\* when the tick began, and not sooner after a fetch than its interval.
CyclesKept ==
  [][/\ part = "zombies" => Zombies!StaysStopped
     /\ part = "cycles" => TwoCycles!KeepsSettledRuns
     /\ part = "broken" => Broken!KeepsBodies
     /\ part = "twice" => Twice!KeepsBodies
     /\ part = "slots" => Slots!SlotsFollowFetches
     /\ part = "days" => Days!SlotsFollowFetches]_MCVars
=============================================================================
