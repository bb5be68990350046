---------------------------- MODULE MCAutomation ----------------------------
(*****************************************************************************)
(* Automations for TLC: their runs (reviewed, of articles, gated,            *)
(* scheduled, of source items), their definitions, the builder of            *)
(* workflows, the grouping of items into stories, and what becomes of        *)
(* drafts: schedules and publication by hand. The components keep their      *)
(* rows in tables of their own, so a run explores them one at a time: part   *)
(* says which one runs. Variables of the same name stand for the rows of     *)
(* that component. The definitions are those of the module this one extends; *)
(* in the other parts there is none.                                         *)
(*****************************************************************************)
EXTENDS HandlerRuns, AutomationDefinitions, FiniteSets, TLC

CONSTANTS w1, w2, w3, client1, client2, graph1, graph2

VARIABLES part,  \* the component that runs
          run, node, link, pending, asked, written, filtered, open, pc, linked,
          drafts, intents, sent, enabled, lock, call, now, state, plans, posts,
          page, content, stories, captured, clock, due, graph

MCVars == <<part, job, tries, owner, retried, cur, run, node, link, pending,
            asked, written, filtered, open, pc, linked, lifecycle, revision,
            active, draft, activationKey, versions, schedule, ticks, runs, seen,
            request, keys, drafts, intents, sent, enabled, lock, call, now,
            state, plans, posts, page, content, stories, captured, clock, due,
            graph>>

\* Job keys of automation runs.
AutoJob(kind, id) == [kind |-> kind, id |-> id]
AutoJobs(kinds, n) == {AutoJob(k, i) : k \in kinds, i \in 1..n}
NoAutoJob == AutoJob("none", 0)

\* The third item links the first and the second, which do not match.
Path == {<<a, b>> \in (1..3) \X (1..3) : a = b \/ 3 \in {a, b}}
StoryJobs(kind, items, cursors) ==
  {[kind |-> kind, items |-> items, cursor |-> c] : c \in cursors}

Review == INSTANCE AutomationRuns WITH
    Jobs <- AutoJobs({"generate", "package"}, 1), NoJob <- NoAutoJob,
    Workers <- {w3},
    Stages <- <<"manual", "generate_content_pack", "human_review", "telegram_publish">>,
    MaxRuns <- 2, Request <- <<1, 1>>, DryRuns <- BOOLEAN,
    Disturbances <- {"crash", "fail", "retry"}
Articles == INSTANCE AutomationRuns WITH
    Jobs <- AutoJobs({"start"}, 2) \cup AutoJobs({"research", "generate", "package"}, 1),
    NoJob <- NoAutoJob,
    Stages <- <<"collection_article_added", "filter_content", "research", "generate_content_pack", "save_drafts">>,
    MaxRuns <- 2, Request <- <<1, 1>>, DryRuns <- {FALSE},
    Disturbances <- {"filter", "fail"}
Interrupted == INSTANCE AutomationRuns WITH
    Jobs <- AutoJobs({"start", "research", "generate", "package"}, 1),
    NoJob <- NoAutoJob, Workers <- {w3},
    Stages <- <<"collection_article_added", "filter_content", "research", "generate_content_pack", "human_review", "save_drafts">>,
    MaxRuns <- 1, Request <- <<1>>, DryRuns <- {FALSE},
    Disturbances <- {"crash", "filter"}
Gated == INSTANCE AutomationRuns WITH
    Jobs <- AutoJobs({"start", "generate", "package"}, 1), NoJob <- NoAutoJob,
    Stages <- <<"collection_article_added", "human_review", "generate_content_pack", "save_drafts">>,
    MaxRuns <- 1, Request <- <<1>>, DryRuns <- {FALSE},
    Disturbances <- {"crash", "fail", "gate"}
Ticks == INSTANCE AutomationRuns WITH
    Jobs <- {AutoJob("start", 1)} \cup AutoJobs({"generate", "package"}, 2),
    NoJob <- NoAutoJob, Workers <- {w3},
    Stages <- <<"schedule", "select_content", "generate_content_pack", "save_drafts">>,
    MaxRuns <- 2, Request <- <<1, 2>>, DryRuns <- {FALSE},
    Disturbances <- {"crash"}
FromSource == INSTANCE AutomationRuns WITH Jobs <- AutoJobs({"start"}, 2),
    NoJob <- NoAutoJob,
    Stages <- <<"new_source_item", "generate_content_pack", "save_drafts">>,
    MaxRuns <- 2, Request <- <<1, 2>>, DryRuns <- {FALSE},
    Disturbances <- {"crash", "gate", "retry", "lease"}
Drafts == INSTANCE TelegramScheduling WITH Clients <- {client1, client2},
    NoClient <- NoJob, MaxRevisions <- 2, MaxTime <- 2, MaxRetries <- 1
Manual == INSTANCE ManualPublication WITH Items <- {"copy", "media"},
    Ids <- {1, 2}, MaxRevisions <- 2, MaxTime <- 1, Limit <- 1
Chain == INSTANCE Stories WITH
    Jobs <- StoryJobs("pending", <<1, 2>>, {0, 2, 3}), Items <- 1..3,
    Similar <- Path, Intakes <- {}, AutoItems <- {2}, Routes <- {}, Limit <- 2,
    MaxStories <- 3, MaxText <- 1, Disturbances <- {"crash", "states"},
    Workers <- {w3}
Overlap == INSTANCE Stories WITH
    Jobs <- StoryJobs("ingest", <<1>>, {0, 2}) \cup StoryJobs("ingest", <<2>>, {0, 2}) \cup StoryJobs("manual", <<3>>, {0}),
    Items <- 1..3, Similar <- (1..3) \X (1..3), Intakes <- {3}, AutoItems <- {},
    Routes <- {1}, Limit <- 2, MaxStories <- 3, MaxText <- 1,
    Disturbances <- {}, MaxAttempts <- 1
Conflict == INSTANCE Stories WITH
    Jobs <- StoryJobs("pending", <<1, 2, 3>>, {0, 3}), Items <- 1..3,
    Similar <- Path, Intakes <- {}, AutoItems <- 1..2, Routes <- {1},
    Limit <- 3, MaxStories <- 4, MaxText <- 2, Disturbances <- {},
    Workers <- {w3}, MaxAttempts <- 1
Editor == INSTANCE WorkflowEditor WITH
    Types <- {"collection_article_added", "human_review", "generate_content_pack", "save_drafts","telegram_publish"},
    MaxNodes <- 4

ASSUME Review!AutomationRunsAssumption /\ Articles!AutomationRunsAssumption
ASSUME Gated!AutomationRunsAssumption /\ Ticks!AutomationRunsAssumption
ASSUME FromSource!AutomationRunsAssumption /\ Interrupted!AutomationRunsAssumption
ASSUME Editor!WorkflowEditorAssumption
ASSUME Chain!StoriesAssumption /\ Overlap!StoriesAssumption /\ Conflict!StoriesAssumption
ASSUME Drafts!TelegramSchedulingAssumption /\ Manual!ManualPublicationAssumption

\* The variables a component does not have are off while it runs.
Off == "off"
NotReview == <<lifecycle, revision, active, draft, activationKey, versions,
    schedule, ticks, runs, seen, request, keys, drafts, intents, sent, enabled,
    lock, call, now, state, plans, posts, page, content, stories, captured,
    clock, due, graph>>
NotDefinitions == <<job, tries, owner, retried, cur, run, node, link, pending,
    asked, written, filtered, open, pc, linked, drafts, intents, sent, enabled,
    lock, call, now, state, plans, posts, page, content, stories, captured,
    clock, due, graph>>
NotDrafts == <<job, tries, owner, retried, cur, run, node, link, pending, asked,
    written, filtered, open, pc, linked, lifecycle, revision, active, draft,
    activationKey, versions, schedule, ticks, runs, seen, request, keys, state,
    plans, posts, page, content, stories, captured, clock, due, graph>>
NotManual == <<job, tries, owner, retried, cur, run, node, link, pending,
    written, filtered, open, pc, linked, lifecycle, revision, active, draft,
    activationKey, versions, schedule, ticks, runs, seen, request, keys, drafts,
    intents, sent, enabled, lock, call, content, stories, captured, clock, due,
    graph>>
NotChain == <<run, node, link, pending, asked, written, filtered, open, pc,
    linked, lifecycle, revision, active, draft, activationKey, versions,
    schedule, ticks, runs, seen, request, keys, drafts, intents, sent, enabled,
    lock, call, now, state, plans, posts, graph>>
NotEditor == <<job, tries, owner, retried, cur, run, node, link, pending, asked,
    written, filtered, open, pc, linked, lifecycle, revision, active, draft,
    activationKey, versions, schedule, ticks, runs, seen, request, keys, drafts,
    intents, sent, enabled, lock, call, now, state, plans, posts, page, content,
    stories, captured, clock, due>>

JobsOff == job = Off /\ tries = Off /\ owner = Off /\ retried = Off /\ cur = Off
RunsOff ==
  /\ run = Off /\ node = Off /\ link = Off /\ pending = Off /\ written = Off
  /\ filtered = Off /\ open = Off /\ pc = Off /\ linked = Off
NoDefinition ==
  /\ lifecycle = "inactive" /\ versions = <<>>
  /\ schedule = [version |-> 0, enabled |-> FALSE]
  /\ revision = Off /\ active = Off /\ draft = Off /\ activationKey = Off
  /\ ticks = Off /\ runs = Off /\ seen = Off /\ request = Off /\ keys = Off
DraftsOff ==
  /\ drafts = Off /\ intents = Off /\ sent = Off /\ enabled = Off /\ lock = Off
  /\ call = Off
PlansOff == state = Off /\ plans = Off /\ posts = Off
StoriesOff ==
  /\ content = Off /\ stories = Off /\ captured = Off /\ clock = Off /\ due = Off

MCInit ==
  \/ /\ \/ part = "review" /\ Review!Init
        \/ part = "articles" /\ Articles!Init
        \/ part = "interrupted" /\ Interrupted!Init
        \/ part = "gated" /\ Gated!Init
        \/ part = "ticks" /\ Ticks!Init
        \/ part = "items" /\ FromSource!Init
     /\ NoDefinition /\ DraftsOff /\ PlansOff /\ StoriesOff
     /\ now = Off /\ page = Off /\ graph = Off
  \/ /\ part = "definitions" /\ Init
     /\ JobsOff /\ RunsOff /\ DraftsOff /\ PlansOff /\ StoriesOff
     /\ asked = Off /\ now = Off /\ page = Off /\ graph = Off
  \/ /\ part = "drafts" /\ Drafts!Init
     /\ JobsOff /\ RunsOff /\ NoDefinition /\ PlansOff /\ StoriesOff
     /\ asked = Off /\ page = Off /\ graph = Off
  \/ /\ part = "manual" /\ Manual!Init
     /\ JobsOff /\ RunsOff /\ NoDefinition /\ DraftsOff /\ StoriesOff
     /\ graph = Off
  \/ /\ \/ part = "chain" /\ Chain!Init
        \/ part = "overlap" /\ Overlap!Init
        \/ part = "conflict" /\ Conflict!Init
     /\ RunsOff /\ NoDefinition /\ DraftsOff /\ PlansOff
     /\ asked = Off /\ now = Off /\ graph = Off
  \/ /\ part = "editor" /\ Editor!Init
     /\ JobsOff /\ RunsOff /\ NoDefinition /\ DraftsOff /\ PlansOff /\ StoriesOff
     /\ asked = Off /\ now = Off /\ page = Off

MCNext ==
  \/ part = "review" /\ Review!Next /\ UNCHANGED <<part, NotReview>>
  \/ part = "articles" /\ Articles!Next /\ UNCHANGED <<part, NotReview>>
  \/ part = "interrupted" /\ Interrupted!Next /\ UNCHANGED <<part, NotReview>>
  \/ part = "gated" /\ Gated!Next /\ UNCHANGED <<part, NotReview>>
  \/ part = "ticks" /\ Ticks!Next /\ UNCHANGED <<part, NotReview>>
  \/ part = "items" /\ FromSource!Next /\ UNCHANGED <<part, NotReview>>
  \/ part = "definitions" /\ Next /\ UNCHANGED <<part, NotDefinitions>>
  \/ part = "drafts" /\ Drafts!Next /\ UNCHANGED <<part, NotDrafts>>
  \/ part = "manual" /\ Manual!Next /\ UNCHANGED <<part, NotManual>>
  \/ part = "chain" /\ Chain!Next /\ UNCHANGED <<part, NotChain>>
  \/ part = "overlap" /\ Overlap!Next /\ UNCHANGED <<part, NotChain>>
  \/ part = "conflict" /\ Conflict!Next /\ UNCHANGED <<part, NotChain>>
  \/ part = "editor" /\ Editor!Next /\ UNCHANGED <<part, NotEditor>>

MCSpec == MCInit /\ [][MCNext]_MCVars

MCSymmetry == Permutations(Workers) \cup Permutations({client1, client2})

\* The rows of every component keep their types.
AllTypesOK ==
  /\ part = "review" => Review!TypeOK
  /\ part = "articles" => Articles!TypeOK
  /\ part = "interrupted" => Interrupted!TypeOK
  /\ part = "gated" => Gated!TypeOK
  /\ part = "ticks" => Ticks!TypeOK
  /\ part = "items" => FromSource!TypeOK
  /\ part = "definitions" => TypeOK
  /\ part = "drafts" => Drafts!TypeOK
  /\ part = "manual" => Manual!TypeOK
  /\ part = "editor" => Editor!TypeOK
  /\ part = "chain" => Chain!TypeOK
  /\ part = "overlap" => Overlap!TypeOK
  /\ part = "conflict" => Conflict!TypeOK
\* A run that succeeded has its drafts, a queued node and its job name each
\* other, and what waits for a review is not at work before the approval,
\* whichever replays, retries, filters and failures came before. One case is left
\* out: the trigger of an article that is replayed while the review waits ends the
\* run, whose review can still be approved.
RunsProduce ==
  /\ part = "review" => Review!SucceededRunProduced /\ Review!LinksAgree /\ Review!ReviewHolds
  /\ part = "articles" => Articles!SucceededRunProduced /\ Articles!LinksAgree
  /\ part = "interrupted" => /\ Interrupted!SucceededRunProduced /\ Interrupted!LinksAgree
                          /\ Interrupted!ReviewHolds
  /\ part = "gated" => Gated!SucceededRunProduced /\ Gated!LinksAgree /\ Gated!ReviewHolds
  /\ part = "ticks" => Ticks!SucceededRunProduced /\ Ticks!LinksAgree
\* A revision is delivered once, at once or on its schedule, whichever browsers,
\* dispatches and retries ask for it; by hand it goes out when every item was
\* checked, and no update of the checklist undoes another.
PublishedOnce ==
  /\ part = "drafts" => Drafts!SentOnce
  /\ part = "manual" => Manual!ChecklistFollows
\* The pages of the history show every record once although more is published
\* in between, and windows of the calendar show each plan once; the pages of a
\* grouping reach every item that was pending when it began, and an item is
\* evidence of one story, whichever pages, captures and articles bring it there.
EveryItemOnce ==
  /\ part = "manual" => Manual!PagesComplete /\ Manual!WindowsPartition
  /\ part = "chain" => Chain!ChainsCover /\ Chain!OneStory
  /\ part = "overlap" => Overlap!ChainsCover /\ Overlap!OneStory
  /\ part = "conflict" => Conflict!OneStory
\* An activation puts into service the draft its author has seen and what is
\* archived stays archived; a publish intent and a publication by hand are of
\* the revision that is the newest, and approved, at that moment; a story is
\* merged with all its evidence, for good.
OnlyWhatWasMeant ==
  [][/\ part = "definitions" => ActivatesSeen /\ KeepsArchived
     /\ part = "drafts" => Drafts!IntentsOfNewest
     /\ part = "manual" => Manual!PublishesNewest
     /\ part = "chain" => Chain!KeepsEvidence
     /\ part = "overlap" => Overlap!KeepsEvidence
     /\ part = "conflict" => Conflict!KeepsEvidence]_MCVars
\* What the browser calls valid is what the server saves and activates, a plan
\* publishes what was approved after it was made, and every edit keeps a forest.
GraphsSound ==
  part = "editor" => Editor!ClientAgrees /\ Editor!ReviewedBeforePublish /\ Editor!PlanFits /\ Editor!Forest
=============================================================================
