---------------------------- MODULE MCEditorial -----------------------------
(*****************************************************************************)
(* The editorial side for TLC: content packs (generation with zombies and    *)
(* crashes: the module itself; the regeneration fence; the budget of calls), *)
(* research (shared by two dispatches, manual with zombies), exports, the    *)
(* providers the packs are written with (jobs, master keys, reports of two   *)
(* workers), the gateway of paired agents (two pairings, limits over time,   *)
(* rotations), and the two ways a research is carried out (rounds with a     *)
(* model, a Codex process) with the Codex process of a generation. They keep *)
(* their rows in tables of their own, so a run explores them one at a time:  *)
(* part says which one runs. Variables of the same name stand for the rows   *)
(* of that component.                                                        *)
(*****************************************************************************)
EXTENDS ContentPacks, TLC

CONSTANTS w1, w2, w3, telegram, blog, shorter, longer, page, page2, laptop, phone, k1, k2

VARIABLES part,   \* the component that runs
          trevs,  \* the revisions where Telegram is the only platform
          evidence, latest, st, err, srev, cap, done, run, subs, att, newest,
          approved, media, target, result, row, shadow, secret, ring, lock,
          reader, beats, call, now, passed, readyAt,
          pairing, conn, known, bucket, opening, polls, serving, issued, dead,
          rounds, used, allowance, cited, repeated, sources, outcome,
          due, asked, struck, stopped, version, process, dir, bytes, tokens,
          why, wanted

MCVars == <<part, vars, trevs, evidence, latest, st, err, srev, cap, done, run,
            subs, att, newest, approved, media, target, result, row, shadow,
            secret, ring, lock, reader, beats, call, now, passed, readyAt,
            pairing, conn, known, bucket, opening, polls, serving, issued, dead,
            rounds, used, allowance, cited, repeated, sources, outcome, due, asked, struck,
            stopped, version, process, dir, bytes, tokens, why, wanted>>

\* The canonical job, the package job and regenerations of the first revision.
PackJob(kind, platform, base, text) ==
  [kind |-> kind, platform |-> platform, base |-> base, text |-> text]
PackJobs == {PackJob("canonical", telegram, 0, Nobody), PackJob("package", telegram, 0, Nobody)}
FenceJobs == PackJobs \cup {PackJob("regenerate", telegram, 1, t) : t \in {shorter, longer}}

NoPackJob == [kind |-> "none"]
Both == <<telegram, blog>>

\* Evidence grows from the first dispatch on.
ResearchJob(type, d, n, ev) == [type |-> type, d |-> d, n |-> n, ev |-> ev]
Evidence(ds) == {e \in SUBSET (ds \cup {page}) : 1 \in e}
StudyJobs(ds, max) ==
  {ResearchJob("research", 0, 0, e) : e \in Evidence(ds)}
  \cup {ResearchJob("process", d, n, {}) : d \in ds, n \in 0..max}
  \cup {ResearchJob("pack", 0, n, {}) : n \in 1..max}
NoResearchJob == ResearchJob("pack", 0, 0, {})

\* One variant with at most one revision, so that an export has one payload.
ExportPayloads == [{blog} -> 1..1]
ExportJobs == {[payload |-> f, gen |-> g] : f \in ExportPayloads, g \in 0..1}

\* Budgets of which any may run out first, and a page the story knows already.
LoopBudget == [calls |-> 3, input |-> 3, output |-> 2, cost |-> 4, queries |-> 1,
               pages |-> 2, chars |-> 3, elapsed |-> 2]
KnownPage == {<<page, 1>>}

Regenerating == INSTANCE ContentPacks WITH Jobs <- FenceJobs, revs <- trevs,
    PackPlatforms <- <<telegram>>, Instructions <- {shorter, longer},
    MaxAttempts <- 1, MaxCalls <- 1, Disturbances <- {"lease", "edit"}
Budget == INSTANCE ContentPacks WITH revs <- trevs,
    Jobs <- FenceJobs \ {PackJob("regenerate", telegram, 1, longer)},
    Workers <- {w3}, PackPlatforms <- <<telegram>>, MaxRevision <- 1,
    MaxCalls <- 1, Disturbances <- {"crash", "fail", "invalid", "prompt"}
Shared == INSTANCE Research WITH Jobs <- StudyJobs(1..2, 4), NoJob <- NoResearchJob,
    Pages <- {page}, MaxAttempts <- 2, MaxRetries <- 0, MaxDispatches <- 2,
    MaxRevisions <- 4, Mode <- "auto_if_incomplete", CompleteAt <- 3,
    Disturbances <- {"pack", "fail"}
Manual == INSTANCE Research WITH Jobs <- StudyJobs({1}, 3),
    NoJob <- NoResearchJob, Pages <- {page}, MaxAttempts <- 2, MaxRetries <- 0,
    MaxDispatches <- 1, MaxRevisions <- 3, Mode <- "manual", CompleteAt <- 2,
    Disturbances <- {"fail", "lease"}
Builds == INSTANCE Exports WITH Jobs <- ExportJobs,
    NoJob <- [payload |-> <<>>, gen |-> 0], MaxAttempts <- 2, MaxRetries <- 1,
    Platforms <- {blog}, MaxRevision <- 1, MaxGenerations <- 1,
    Disturbances <- {"crash", "lease", "media", "expire"}
Serving == INSTANCE LLMProviders WITH Workers <- {w3}, Keys <- {1}, Jobs <- {1},
    MaxConf <- 1, MaxCred <- 2, MaxTime <- 2, TestTTL <- 1, BeatTTL <- 2,
    Reported <- {"generation"}, Disturbances <- {"alias", "delete"}, wk <- reader
Rekeyed == INSTANCE LLMProviders WITH Workers <- {w3}, Keys <- {1, 2}, Jobs <- {},
    MaxConf <- 2, MaxCred <- 2, MaxTime <- 1, TestTTL <- 1, BeatTTL <- 2,
    Reported <- {}, Disturbances <- {"rekey"}, wk <- reader
Reporting == INSTANCE LLMProviders WITH Keys <- {1}, Jobs <- {}, MaxConf <- 1,
    MaxCred <- 1, MaxTime <- 2, TestTTL <- 0, BeatTTL <- 1,
    Reported <- {"research"}, Disturbances <- {}, wk <- reader
Delayed == INSTANCE LLMProviders WITH Workers <- {w3}, Keys <- {1}, Jobs <- {},
    MaxConf <- 1, MaxCred <- 1, MaxTime <- 3, TestTTL <- 1, BeatTTL <- 2,
    Reported <- {"research"}, Disturbances <- {}, wk <- reader
Pairing == INSTANCE CodexGateway WITH Pairings <- {laptop, phone}, Keys <- {},
    PairTTL <- 1, CredTTL <- 3, Window <- 2, PairLimit <- 1, CallLimit <- 1,
    MaxTime <- 2, Disturbances <- {"cancel", "crash"}
Limiting == INSTANCE CodexGateway WITH Pairings <- {laptop}, Keys <- {},
    PairTTL <- 2, CredTTL <- 3, Window <- 2, PairLimit <- 2, CallLimit <- 1,
    MaxTime <- 3, Disturbances <- {"cancel", "crash"}
Rotating == INSTANCE CodexGateway WITH Pairings <- {laptop}, Keys <- {k1, k2},
    PairTTL <- 1, CredTTL <- 2, Window <- 1, PairLimit <- 2, CallLimit <- 1,
    MaxTime <- 0, Disturbances <- {"revoke", "scopes"}
Rounds == INSTANCE ResearchLoop WITH MaxActions <- 4, Limits <- LoopBudget,
    InPrice <- 1, OutPrice <- 1, Pages <- {page, page2}, Sizes <- {1, 2},
    Tokens <- 0..1, Given <- KnownPage, MaxTime <- 2
Codex == INSTANCE CodexCalls WITH Kind <- "research", Timeout <- 1, Elapsed <- 2,
    MaxBytes <- 1, MaxTokens <- 1, MaxPages <- 2, MaxChars <- 3,
    Pages <- {page, page2}, Sizes <- {1, 2}, Given <- KnownPage, MaxTime <- 3
Writing == INSTANCE CodexCalls WITH Kind <- "generation", Timeout <- 1, Elapsed <- 1,
    MaxBytes <- 1, MaxTokens <- 1, MaxPages <- 1, MaxChars <- 1, Pages <- {},
    Sizes <- {}, Given <- {}, MaxTime <- 2

\* The variables a component does not have are off while it runs; those that
\* OutputUsedOnce reads stay as they start.
Off == "off"
packsMore == <<packVars, runs, calls, fence, prompts, wk, trevs>>
researchVars == <<evidence, latest, st, err, srev, cap, done, run, subs, att>>
exportVars == <<newest, approved, media, target, result>>
providerVars == <<row, shadow, secret, ring, lock, reader, beats, call, readyAt>>
gatewayVars == <<pairing, conn, known, bucket, opening, polls, serving, issued, dead>>
loopVars == <<rounds, used, allowance, cited, repeated>>
codexVars == <<due, asked, struck, stopped, version, process, dir, bytes, tokens,
               why, wanted>>
callVars == <<loopVars, codexVars, sources, outcome>>

PacksOff ==
  /\ stories = 0 /\ revs = [p \in Platforms |-> <<>>] /\ trevs = Off
  /\ status = Off /\ runs = Off /\ calls = Off /\ fence = Off /\ prompts = Off
  /\ wk = Off
ResearchOff ==
  /\ evidence = Off /\ latest = Off /\ st = Off /\ err = Off /\ srev = Off
  /\ cap = Off /\ done = Off /\ run = Off /\ subs = Off /\ att = Off
ExportsOff ==
  newest = Off /\ approved = Off /\ media = Off /\ target = Off /\ result = Off
ProvidersOff ==
  /\ row = Off /\ shadow = Off /\ secret = Off /\ ring = Off /\ lock = Off
  /\ reader = Off /\ beats = Off /\ call = Off /\ readyAt = Off
GatewayOff ==
  /\ pairing = Off /\ conn = Off /\ known = Off /\ bucket = Off /\ opening = Off
  /\ polls = Off /\ serving = Off /\ issued = Off /\ dead = Off
LoopOff == rounds = Off /\ used = Off /\ allowance = Off /\ cited = Off /\ repeated = Off
           /\ repeated = Off
CodexOff ==
  /\ due = Off /\ asked = Off /\ struck = Off /\ stopped = Off /\ version = Off
  /\ process = Off /\ dir = Off /\ bytes = Off /\ tokens = Off /\ why = Off
  /\ wanted = Off
NoCalls == LoopOff /\ CodexOff /\ sources = Off /\ outcome = Off
\* More than one of them keeps the time.
TimeOff == now = Off /\ passed = Off
NoTexts == revs = [p \in Platforms |-> <<>>]
QueueOff == job = Off /\ tries = Off /\ owner = Off /\ retried = Off /\ cur = Off

MCInit ==
  \/ /\ ExportsOff /\ ProvidersOff /\ GatewayOff /\ TimeOff /\ NoCalls
     /\ \/ part = "packs" /\ Init /\ trevs = Off /\ ResearchOff
        \/ part = "fence" /\ Regenerating!Init /\ NoTexts /\ ResearchOff
        \/ part = "calls" /\ Budget!Init /\ NoTexts /\ ResearchOff
        \/ part = "shared" /\ Shared!Init /\ PacksOff
        \/ part = "manual" /\ Manual!Init /\ PacksOff
  \/ /\ part = "exports" /\ Builds!Init /\ PacksOff /\ ResearchOff
     /\ ProvidersOff /\ GatewayOff /\ TimeOff /\ NoCalls
  \/ /\ QueueOff /\ pc = Off /\ PacksOff /\ ResearchOff /\ ExportsOff /\ NoCalls
     /\ \/ /\ GatewayOff
           /\ \/ part = "serving" /\ Serving!Init
              \/ part = "keys" /\ Rekeyed!Init
              \/ part = "reports" /\ Reporting!Init
              \/ part = "delayed" /\ Delayed!Init
        \/ /\ ProvidersOff
           /\ \/ part = "pairing" /\ Pairing!Init
              \/ part = "limits" /\ Limiting!Init
              \/ part = "rotation" /\ Rotating!Init
  \/ /\ QueueOff /\ PacksOff /\ ResearchOff /\ ExportsOff /\ ProvidersOff
     /\ GatewayOff /\ passed = Off
     /\ \/ part = "rounds" /\ Rounds!Init /\ CodexOff
        \/ part = "codex" /\ Codex!Init /\ LoopOff
        \/ part = "writing" /\ Writing!Init /\ LoopOff

\* The tables of the other components while one runs.
served == <<providerVars, gatewayVars, now, passed, callVars>>
NotPacks == <<part, researchVars, exportVars, served>>
NotResearch == <<part, packsMore, exportVars, served>>
NotExports == <<part, packsMore, researchVars, served>>
NotServed == <<part, queueVars, packsMore, researchVars, exportVars>>
NotProviders == <<NotServed, pc, gatewayVars, callVars>>
NotGateway == <<NotServed, pc, providerVars, callVars>>
NotCalls == <<NotServed, providerVars, gatewayVars, passed>>

MCNext ==
  \/ part = "packs" /\ Next /\ UNCHANGED <<trevs, NotPacks>>
  \/ part = "fence" /\ Regenerating!Next /\ UNCHANGED <<revs, NotPacks>>
  \/ part = "calls" /\ Budget!Next /\ UNCHANGED <<revs, NotPacks>>
  \/ part = "shared" /\ Shared!Next /\ UNCHANGED NotResearch
  \/ part = "manual" /\ Manual!Next /\ UNCHANGED NotResearch
  \/ part = "exports" /\ Builds!Next /\ UNCHANGED NotExports
  \/ part = "serving" /\ Serving!Next /\ UNCHANGED NotProviders
  \/ part = "keys" /\ Rekeyed!Next /\ UNCHANGED NotProviders
  \/ part = "reports" /\ Reporting!Next /\ UNCHANGED NotProviders
  \/ part = "delayed" /\ Delayed!Next /\ UNCHANGED NotProviders
  \/ part = "pairing" /\ Pairing!Next /\ UNCHANGED NotGateway
  \/ part = "limits" /\ Limiting!Next /\ UNCHANGED NotGateway
  \/ part = "rotation" /\ Rotating!Next /\ UNCHANGED NotGateway
  \/ part = "rounds" /\ Rounds!Next /\ UNCHANGED <<NotCalls, codexVars>>
  \/ part = "codex" /\ Codex!Next /\ UNCHANGED <<NotCalls, loopVars>>
  \/ part = "writing" /\ Writing!Next /\ UNCHANGED <<NotCalls, loopVars>>

MCSpec == MCInit /\ [][MCNext]_MCVars

ASSUME Regenerating!ContentPacksAssumption /\ Budget!ContentPacksAssumption
ASSUME Shared!ResearchAssumption /\ Manual!ResearchAssumption /\ Builds!ExportsAssumption
ASSUME /\ Serving!LLMProvidersAssumption /\ Rekeyed!LLMProvidersAssumption
       /\ Reporting!LLMProvidersAssumption /\ Delayed!LLMProvidersAssumption
ASSUME /\ Pairing!CodexGatewayAssumption /\ Limiting!CodexGatewayAssumption
       /\ Rotating!CodexGatewayAssumption
ASSUME /\ Rounds!ResearchLoopAssumption
       /\ Codex!CodexCallsAssumption /\ Writing!CodexCallsAssumption

MCSymmetry == Permutations(Workers) \cup Permutations({shorter, longer})

\* The rows of every component keep their types.
AllTypesOK ==
  /\ part = "packs" => TypeOK
  /\ part = "fence" => Regenerating!TypeOK
  /\ part = "calls" => Budget!TypeOK
  /\ part = "shared" => Shared!TypeOK
  /\ part = "manual" => Manual!TypeOK
  /\ part = "exports" => Builds!TypeOK
  /\ part = "serving" => Serving!TypeOK
  /\ part = "keys" => Rekeyed!TypeOK
  /\ part = "reports" => Reporting!TypeOK
  /\ part = "delayed" => Delayed!TypeOK
  /\ part = "pairing" => Pairing!TypeOK
  /\ part = "limits" => Limiting!TypeOK
  /\ part = "rotation" => Rotating!TypeOK
  /\ part = "rounds" => Rounds!TypeOK
  /\ part = "codex" => Codex!TypeOK
  /\ part = "writing" => Writing!TypeOK
\* What was accepted is served: whoever subscribed to research that succeeded,
\* before or after it did, has its continuation job; a rebuild generation of an
\* export begins only after the one before expired, and a finished export that
\* has not expired has its files; above the approved revisions of a "ready" pack
\* are only edits of the operator, which leave the status, nothing that a job
\* wrote; a regeneration finds its base still the newest when it writes, and no
\* stage is called for more often than the profile allows; a
\* provider is ready with what it was tested with, a job calls it with nothing
\* else, and a report that still counts is of one that was ready; a pairing code
\* becomes one connection, credentials that were replaced do not come back, and
\* the limits on requests hold in every window; a research that came to a result
\* stayed within its budgets, so that its job takes it, and read what it cites;
\* no Codex process outlives its call, whose outcome blames who ended it.
AcceptedIsServed ==
  /\ part = "shared" => Shared!SubscribersResumed
  /\ part = "manual" => Manual!SubscribersResumed
  /\ part = "exports" => Builds!OneLiveGeneration /\ Builds!DownloadsWork
  /\ part = "packs" => CallsBounded /\ ReadyIsReviewed
  /\ part = "fence" => /\ Regenerating!FencedBaseCurrent /\ Regenerating!OutputUsedOnce
                       /\ Regenerating!ReadyIsReviewed
  /\ part = "calls" =>
       Budget!CallsBounded /\ Budget!ReadyIsReviewed /\ Budget!OutputUsedOnce
  /\ part = "serving" =>
       Serving!ReadyIsTested /\ Serving!CallsAreTested /\ Serving!AvailableWasReady
  /\ part = "keys" => Rekeyed!ReadyIsTested
  /\ part = "reports" => Reporting!ReadyIsTested /\ Reporting!AvailableWasReady
  /\ part = "delayed" => Delayed!AvailableWasReady
  /\ part = "pairing" => Pairing!PairedOnce /\ Pairing!LimitsHold
  /\ part = "limits" => Limiting!PairedOnce /\ Limiting!LimitsHold
  /\ part = "rotation" => Rotating!SupersededStaysOut
  /\ part = "rounds" => Rounds!OnlyKnownPagesRefused /\ Rounds!RequestsAreFunded
                          /\ Rounds!CitedWasRead
  /\ part = "codex" => Codex!NothingLeftRunning /\ Codex!OutcomesAreTrue
                         /\ Codex!OnlyKnownPagesRefused
  /\ part = "writing" => Writing!NothingLeftRunning /\ Writing!OutcomesAreTrue
\* The result of research is that of one attempt and is never replaced.
ResultsKept ==
  [][/\ part = "shared" => Shared!KeepsResults
     /\ part = "manual" => Manual!KeepsResults]_MCVars
=============================================================================
