----------------------------- MODULE CodexCalls -----------------------------
(***************************************************************************)
(* One call of the Codex command line, for a research or for a generation:   *)
(* two processes in a temporary directory, a deadline of the executor and    *)
(* one of the research around it, and the worker that may cancel the whole;  *)
(* then, for a research, the pages it named are fetched and its citations    *)
(* looked up, and the job takes the result or refuses it.                    *)
(* The timers cancel the one task the call runs in: asyncio raises           *)
(* CancelledError where it waits, a timer whose block that leaves makes a    *)
(* timeout of it only if nobody else asked, and stop_child swallows what     *)
(* comes while it waits for a killed process.  before_deadline's own timer   *)
(* is due after the executor's, so only its look at the clock counts.        *)
(* Source: backend/app/core/codex_exec.py, backend/app/research/             *)
(* codex_adapter.py, deadline.py, backend/app/generation/providers/codex.py. *)
(***************************************************************************)
EXTENDS Integers, Sequences, SequencesExt

CONSTANTS Kind,        \* "research" or "generation"
          Timeout,     \* seconds the executor has
          Elapsed,     \* max_elapsed_seconds of the research
          MaxBytes, MaxTokens, MaxPages, MaxChars, \* what a call may produce
          Pages,       \* pages that may be named
          Sizes,       \* bound: lengths of their texts
          Given,       \* evidence the story has already
          MaxTime      \* bound: the clock

Evidence == Pages \X Sizes

CodexCallsAssumption ==
  /\ Kind \in {"research", "generation"}
  /\ {Timeout, Elapsed, MaxBytes, MaxTokens, MaxPages, MaxChars} \subseteq Nat \ {0}
  /\ MaxTime \in Nat /\ Sizes \subseteq Nat \ {0}
  /\ Given \subseteq Evidence

VARIABLES now,      \* time since the call began
          pc,       \* what the call awaits
          due,      \* deadline of the executor
          asked,    \* who cancelled the task and has not been heard
          struck,   \* a CancelledError is to be raised
          stopped,  \* the worker cancelled the task (history)
          version, process, \* the children
          dir,      \* the temporary directory exists
          bytes, tokens,    \* captured output, and the usage it told, or None
          why,      \* why the children are being stopped
          wanted,   \* pages the answer names
          sources,  \* what was fetched of them
          outcome   \* how the call, then the job, ended

children == <<version, process>>
timers == <<asked, struck, stopped>>
vars == <<now, pc, due, timers, children, dir, bytes, tokens, why, wanted,
          sources, outcome>>

None == -1
Child == {"none", "starting", "running", "killed", "dropped", "gone"}
Starting == {"versioning", "spawning"}
Waiting == Starting \cup {"version", "feeding", "reading"}
Executing == Waiting \cup {"stopping"}

TypeOK ==
  /\ now \in 0..(MaxTime + 1) /\ due \in Nat
  /\ pc \in Executing \cup {"idle", "fetching", "over"}
  /\ asked \subseteq {"research", "executor", "worker"}
  /\ struck \in BOOLEAN /\ stopped \in BOOLEAN /\ dir \in BOOLEAN
  /\ version \in Child /\ process \in Child
  /\ bytes \in Nat /\ tokens \in Int
  /\ why \in {"none", "timeout", "cancel", "limit", "error"}
  /\ wanted \in Seq(Pages) /\ sources \in Seq(Evidence)
  /\ outcome \in {"none", "retryable", "needs_review", "elapsed", "permanent",
                  "error", "cancelled", "result", "kept", "refused"}

Init ==
  /\ now = 0 /\ pc = "idle" /\ due = 0 /\ asked = {} /\ struck = FALSE
  /\ stopped = FALSE /\ version = "none" /\ process = "none" /\ dir = FALSE
  /\ bytes = 0 /\ tokens = None /\ why = "none" /\ wanted = <<>>
  /\ sources = <<>> /\ outcome = "none"

-----------------------------------------------------------------------------
\* Timers

Armed(x) == \/ x = "research" /\ Kind = "research" /\ pc \in Executing \cup {"fetching"}
            \/ x = "executor" /\ pc \in Executing
Due(x) == IF x = "research" THEN Elapsed ELSE due
\* Timers go off in the order they are due, the outer one first.
Before(x, y) == \/ Due(x) < Due(y)
                \/ Due(x) = Due(y) /\ x = "research" /\ y = "executor"

Fire(x) ==
  /\ Armed(x) /\ x \notin asked /\ now >= Due(x)
  /\ \A y \in {"research", "executor"} \ asked : Armed(y) => ~ Before(y, x)
  /\ asked' = asked \cup {x} /\ struck' = TRUE
  /\ UNCHANGED <<now, pc, due, stopped, children, dir, bytes, tokens, why,
                 wanted, sources, outcome>>

\* The worker gives the task up.
Cancel ==
  /\ pc \in Executing \cup {"fetching"} /\ ~ stopped
  /\ asked' = asked \cup {"worker"} /\ struck' = TRUE /\ stopped' = TRUE
  /\ UNCHANGED <<now, pc, due, children, dir, bytes, tokens, why, wanted,
                 sources, outcome>>

Tick ==
  /\ pc \notin {"idle", "over"} /\ now < MaxTime
  /\ now' = now + 1
  /\ UNCHANGED <<pc, due, timers, children, dir, bytes, tokens, why, wanted,
                 sources, outcome>>

-----------------------------------------------------------------------------
\* The children

\* A child ends by itself, or of having been killed.
Ends(child) == child \in {"running", "killed", "dropped"}
VersionEnds ==
  /\ Ends(version) /\ version' = "gone"
  /\ UNCHANGED <<now, pc, due, timers, process, dir, bytes, tokens, why, wanted,
                 sources, outcome>>
ProcessEnds ==
  /\ Ends(process) /\ process' = "gone"
  /\ UNCHANGED <<now, pc, due, timers, version, dir, bytes, tokens, why, wanted,
                 sources, outcome>>

\* stop_child, stop_children: what runs is killed.  One that is not handed over
\* yet is killed by asyncio, and nobody waits for it if it is cancelled again.
Killed(child) == IF child = "running" THEN "killed"
                 ELSE IF child = "starting" THEN "dropped" ELSE child
Stop(reason) ==
  /\ pc' = "stopping" /\ why' = reason
  /\ version' = Killed(version) /\ process' = Killed(process)

\* before_deadline: what comes next is awaited if there is time.
InTime == now < due

-----------------------------------------------------------------------------
\* The call

\* _validate_codex_request
Refuse ==
  /\ pc = "idle"
  /\ pc' = "over" /\ outcome' = "permanent"
  /\ UNCHANGED <<now, due, timers, children, dir, bytes, tokens, why, wanted, sources>>

\* The directory is made, which takes its time, and the version asked for.
Begin ==
  /\ pc = "idle"
  /\ \E slip \in 0..1 : now' = slip /\ due' = slip + Timeout
  /\ dir' = TRUE /\ pc' = "versioning" /\ version' = "starting"
  /\ UNCHANGED <<timers, process, bytes, tokens, why, wanted, sources, outcome>>

VersionStarted ==
  /\ pc = "versioning" /\ ~ struck
  /\ IF InTime THEN pc' = "version" /\ version' = "running" /\ UNCHANGED <<process, why>>
     ELSE pc' = "stopping" /\ why' = "timeout" /\ version' = "killed" /\ UNCHANGED process
  /\ UNCHANGED <<now, due, timers, dir, bytes, tokens, wanted, sources, outcome>>

VersionRead ==
  /\ pc = "version" /\ version = "gone" /\ ~ struck
  /\ IF InTime THEN pc' = "spawning" /\ process' = "starting" /\ UNCHANGED <<version, why>>
     ELSE Stop("timeout")
  /\ UNCHANGED <<now, due, timers, dir, bytes, tokens, wanted, sources, outcome>>

ProcessStarted ==
  /\ pc = "spawning" /\ ~ struck
  /\ IF InTime THEN pc' = "feeding" /\ process' = "running" /\ UNCHANGED <<version, why>>
     ELSE pc' = "stopping" /\ why' = "timeout" /\ process' = "killed" /\ UNCHANGED version
  /\ UNCHANGED <<now, due, timers, dir, bytes, tokens, wanted, sources, outcome>>

Fed ==
  /\ pc = "feeding" /\ ~ struck
  /\ IF InTime THEN pc' = "reading" /\ UNCHANGED <<children, why>> ELSE Stop("timeout")
  /\ UNCHANGED <<now, due, timers, dir, bytes, tokens, wanted, sources, outcome>>

\* The program cannot be started, or does not take its input.
Break ==
  /\ ~ struck
  /\ IF pc = "feeding" /\ process = "running"
     THEN Stop("error") /\ UNCHANGED <<dir, outcome>>
     ELSE /\ pc \in Starting \cup {"feeding"}
          /\ version' = IF version = "starting" THEN "none" ELSE version
          /\ process' = IF process = "starting" THEN "none" ELSE process
          /\ pc' = "over" /\ outcome' = "error" /\ dir' = FALSE /\ UNCHANGED why
  /\ UNCHANGED <<now, due, timers, bytes, tokens, wanted, sources>>

\* read_stream: a chunk of either stream counts for the limit of what is
\* captured, one of stdout may tell of tokens.
Overrun == bytes' > MaxBytes \/ tokens' > MaxTokens
Read ==
  /\ pc = "reading" /\ ~ struck
  /\ bytes' = bytes + 1
  /\ \/ UNCHANGED tokens
     \/ \E n \in 0..(MaxTokens + 1) : tokens' = (IF tokens = None THEN 0 ELSE tokens) + n
  /\ IF Overrun THEN Stop("limit") ELSE UNCHANGED <<pc, children, why>>
  /\ UNCHANGED <<now, due, timers, dir, wanted, sources, outcome>>

\* The CancelledError is raised where the call waits.
Raise ==
  /\ struck /\ struck' = FALSE
  /\ \/ pc \in Waiting /\ Stop("cancel") /\ UNCHANGED <<asked, outcome>>
     \/ pc = "stopping" /\ UNCHANGED <<asked, pc, why, children, outcome>>
     \/ /\ pc = "fetching" /\ pc' = "over"
        /\ outcome' = IF asked = {"research"} THEN "elapsed" ELSE "cancelled"
        /\ asked' = asked \ {"research"}
        /\ UNCHANGED <<why, children>>
  /\ UNCHANGED <<now, due, stopped, dir, bytes, tokens, wanted, sources>>

\* What the two deadlines make of it once the children are gone.
Verdict ==
  IF why = "limit" THEN "needs_review"
  ELSE IF why = "error" THEN "error"
  ELSE IF why = "timeout" \/ asked = {"executor"} THEN "retryable"
  ELSE IF asked \ {"executor"} = {"research"} THEN "elapsed"
  ELSE "cancelled"
Leave ==
  /\ pc = "stopping" /\ ~ struck
  /\ version # "killed" /\ process # "killed"
  /\ pc' = "over" /\ outcome' = Verdict /\ dir' = FALSE
  /\ asked' = asked \ {"research", "executor"}
  /\ UNCHANGED <<now, due, struck, stopped, children, bytes, tokens, why, wanted, sources>>

-----------------------------------------------------------------------------
\* The answer

\* Before a page is fetched: all were, or it was named before, or it is late.
\* _materialize_claims then looks up every citation and its quote.
Continue(named, got) ==
  LET i == Len(got) + 1
  IN  IF i > Len(named)
      THEN /\ pc' = "over"
           /\ \E founded \in BOOLEAN :
                outcome' = IF now >= Elapsed THEN "elapsed"
                           ELSE IF founded THEN "result" ELSE "needs_review"
      ELSE IF \E j \in 1..(i - 1) : named[j] = named[i]
      THEN pc' = "over" /\ outcome' = "needs_review"
      ELSE IF now >= Elapsed
      THEN pc' = "over" /\ outcome' = "elapsed"
      ELSE pc' = "fetching" /\ UNCHANGED outcome

\* _interpret_codex_result: too large once decoded, a bad exit, no output of
\* the schema, no usage or too much of it.
Good(report) == report = "good" /\ tokens \in 0..MaxTokens
Interpret ==
  /\ pc = "reading" /\ process = "gone" /\ ~ struck
  /\ dir' = FALSE
  /\ \E report \in {"large", "failed", "invalid", "good"} :
       IF ~ Good(report)
       THEN /\ pc' = "over"
            /\ outcome' = IF report = "failed" THEN "retryable" ELSE "needs_review"
            /\ UNCHANGED wanted
       ELSE IF Kind = "generation"
       THEN pc' = "over" /\ outcome' = "result" /\ UNCHANGED wanted
       ELSE \E named \in UNION {[1..n -> Pages] : n \in 0..(MaxPages + 1)} :
              /\ wanted' = named
              /\ IF Len(named) > MaxPages
                 THEN pc' = "over" /\ outcome' = "needs_review"
                 ELSE Continue(named, <<>>)
  /\ UNCHANGED <<now, due, timers, children, bytes, tokens, why, sources>>

\* _materialize_sources: a page is what a redirect led to; no two of them may be
\* the same, nor all of them too long.
Length(got) == IF got = <<>> THEN 0 ELSE FoldSeq(LAMBDA e, n : e[2] + n, 0, got)
Fetched(e) ==
  /\ pc = "fetching" /\ ~ struck
  /\ sources' = Append(sources, e)
  /\ IF (\E i \in DOMAIN sources : sources[i][1] = e[1]) \/ Length(sources') > MaxChars
     THEN pc' = "over" /\ outcome' = "needs_review"
     ELSE Continue(wanted, sources')
  /\ UNCHANGED <<now, due, timers, children, dir, bytes, tokens, why, wanted>>

FetchRejected ==
  /\ pc = "fetching" /\ ~ struck
  /\ pc' = "over" /\ outcome' = "needs_review"
  /\ UNCHANGED <<now, due, timers, children, dir, bytes, tokens, why, wanted, sources>>

\* The job takes a research: one call, no query, no cost, its pages and their
\* length, within the budget, and nothing the story had already.
Exceeded == tokens > MaxTokens \/ Len(sources) > MaxPages
            \/ Length(sources) > MaxChars \/ now > Elapsed
Take ==
  /\ Kind = "research" /\ outcome = "result"
  /\ outcome' = IF Exceeded \/ Range(sources) \cap Given # {} THEN "refused" ELSE "kept"
  /\ UNCHANGED <<now, pc, due, timers, children, dir, bytes, tokens, why, wanted, sources>>

Next ==
  \/ \E x \in {"research", "executor"} : Fire(x)
  \/ Cancel \/ Tick \/ VersionEnds \/ ProcessEnds
  \/ Refuse \/ Begin \/ VersionStarted \/ VersionRead \/ ProcessStarted \/ Fed
  \/ Break \/ Read \/ Raise \/ Leave \/ Interpret
  \/ \E e \in Evidence : Fetched(e)
  \/ FetchRejected \/ Take

Spec == Init /\ [][Next]_vars

-----------------------------------------------------------------------------
\* However the call ends, and whoever cancels it when, no child outlives it:
\* none that was not told to die runs without its directory, and one that the
\* call knew is gone.
NothingLeftRunning ==
  ~ dir => version \in {"none", "dropped", "gone"} /\ process \in {"none", "dropped", "gone"}

\* A call that was told to stop never has a result, and the error it ends with
\* blames who was there: the worker, also when a deadline had begun to stop it,
\* or a deadline that has passed.
OutcomesAreTrue ==
  /\ outcome \in {"result", "kept"} => ~ stopped
  /\ outcome = "cancelled" => stopped
  /\ pc = "over" /\ why = "cancel" /\ stopped => outcome = "cancelled"
  /\ outcome = "elapsed" => now >= Elapsed
  /\ Kind = "research" /\ outcome = "result" => now < Elapsed

\* The job finds nothing wrong with a result but a page the story had already.
OnlyKnownPagesRefused ==
  outcome = "refused" => Range(sources) \cap Given # {}
=============================================================================
