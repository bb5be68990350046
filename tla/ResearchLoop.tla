---------------------------- MODULE ResearchLoop ----------------------------
(***************************************************************************)
(* One research call through OpenRouter: the model is asked for its next     *)
(* action, searches and fetches pages until it finishes its brief, and each  *)
(* round spends some of the request's budget; then the job takes the result  *)
(* or refuses it.                                                            *)
(* A piece of evidence is a page and its length, which stands for its text.  *)
(* Observations (what the model is told), audit events, the wording of the   *)
(* prompts, and the codes of errors of one class are left out.               *)
(* Source: backend/app/research/openrouter_loop.py, deadline.py, base.py,    *)
(* duckduckgo.py, safe_fetch.py, handlers.py,                                *)
(* backend/app/generation/providers/openrouter.py.                           *)
(***************************************************************************)
EXTENDS Integers, FiniteSets, FiniteSetsExt

CONSTANTS MaxActions,  \* rounds of the loop
          Limits,      \* ResearchBudget of the request
          InPrice, OutPrice,  \* the profile's prices of a token
          Pages,       \* pages the model may ask for
          Sizes,       \* bound: lengths of their texts
          Tokens,      \* bound: tokens of a prompt or an answer
          Given,       \* evidence the story has already
          MaxTime      \* bound: the clock

Dimensions == {"calls", "input", "output", "cost", "queries", "pages", "chars", "elapsed"}
Evidence == Pages \X Sizes

ResearchLoopAssumption ==
  /\ MaxActions \in Nat /\ MaxTime \in Nat
  /\ Limits \in [Dimensions -> Nat]
  /\ \A d \in Dimensions \ {"cost"} : Limits[d] > 0
  /\ {InPrice, OutPrice} \subseteq Nat
  /\ Sizes \subseteq Nat \ {0} /\ Tokens \subseteq Nat
  /\ Given \subseteq Evidence

VARIABLES now,        \* time since the call began
          pc,         \* what the loop awaits
          rounds,     \* rounds begun
          used,       \* _MutableUsage
          allowance,  \* max_output_tokens of the newest request
          sources,    \* pages read
          cited,      \* evidence the accepted brief cites
          repeated,   \* the accepted brief lists a page twice
          outcome     \* how the call, then the job, ended

vars == <<now, pc, rounds, used, allowance, sources, cited, repeated, outcome>>

Awaiting == {"model", "search", "fetch"}
NoUse == [calls |-> 0, input |-> 0, output |-> 0, queries |-> 0, pages |-> 0, chars |-> 0]

TypeOK ==
  /\ now \in 0..MaxTime
  /\ pc \in {"check", "over"} \cup Awaiting
  /\ rounds \in 0..MaxActions
  /\ used \in [DOMAIN NoUse -> Nat]
  /\ allowance \in Nat
  /\ sources \subseteq Evidence /\ cited \subseteq Evidence /\ repeated \in BOOLEAN
  /\ outcome \in {"none", "retryable", "needs_review", "permanent", "result",
                  "kept", "refused"}

Init ==
  /\ now = 0 /\ pc = "check" /\ rounds = 0 /\ used = NoUse /\ allowance = 0
  /\ sources = {} /\ cited = {} /\ repeated = FALSE /\ outcome = "none"

-----------------------------------------------------------------------------
Cost(u) == u.input * InPrice + u.output * OutPrice
Late == now >= Limits.elapsed
Length(evidence) == FoldSet(LAMBDA e, n : e[2] + n, 0, evidence)

End(o) == pc' = "over" /\ outcome' = o
Go(p) == pc' = p /\ UNCHANGED outcome

\* _check_before_model: something is left of everything the call may need.
SomethingLeft ==
  /\ used.calls < Limits.calls
  /\ used.input < Limits.input /\ used.output < Limits.output
  /\ InPrice > 0 \/ OutPrice > 0 => Cost(used) < Limits.cost

\* _check_after_model
Spent(u) == \/ u.input > Limits.input \/ u.output > Limits.output
            \/ Cost(u) > Limits.cost

\* A round begins: the model is allowed the output tokens that are left.
Ask ==
  /\ pc = "check"
  /\ IF rounds < MaxActions /\ ~ Late /\ SomethingLeft
     THEN /\ rounds' = rounds + 1
          /\ allowance' = Limits.output - used.output
          /\ Go("model")
     ELSE End("needs_review") /\ UNCHANGED <<rounds, allowance>>
  /\ UNCHANGED <<now, used, sources, cited, repeated>>

\* A request that is not sent, or gets no answer, or one that is of no use: a
\* status that may pass is retryable, any other permanent; what is wrong with
\* the body of a good one, or that it does not say what it used, is for the
\* operator.
Unsent == IF allowance < 1 THEN {"unsendable"} ELSE {}
Unanswered == {"lost", "busy", "refused"}
Unusable == {"malformed", "uncounted"}
Class(failure) == IF failure \in {"lost", "busy"} THEN "retryable"
                  ELSE IF failure \in Unusable THEN "needs_review"
                  ELSE "permanent"
NoAnswer ==
  /\ pc = "model"
  /\ \E failure \in IF Unsent # {} THEN Unsent ELSE Unanswered \cup Unusable :
       End(Class(failure))
  /\ UNCHANGED <<now, rounds, used, allowance, sources, cited, repeated>>

\* What an answer costs.
Charged(in, out) ==
  [used EXCEPT !.calls = @ + 1, !.input = @ + in, !.output = @ + out]

\* _validated_finish: the brief lists what was read, a page perhaps twice, and
\* cites nothing else but what the request brought, in the words of the text.
Founded(listed, cites, exact) ==
  listed = sources /\ cites \subseteq sources \cup Given /\ exact

\* What is done of an action: an exhausted budget skips it, and what is none of
\* them is for the operator.
Finish(u) ==
  /\ used' = u
  /\ \E listed \in SUBSET Evidence, cites \in SUBSET Evidence,
        exact \in BOOLEAN, twice \in BOOLEAN :
       IF Founded(listed, cites, exact)
       THEN End("result") /\ cited' = cites /\ repeated' = (twice /\ listed # {})
       ELSE End("needs_review") /\ UNCHANGED <<cited, repeated>>
Search(u) ==
  /\ IF u.queries >= Limits.queries
     THEN Go("check") /\ used' = u
     ELSE Go("search") /\ used' = [u EXCEPT !.queries = @ + 1]
  /\ UNCHANGED <<cited, repeated>>
Fetch(u) ==
  /\ IF u.pages >= Limits.pages \/ u.chars >= Limits.chars
     THEN Go("check") /\ used' = u
     ELSE Go("fetch") /\ used' = [u EXCEPT !.pages = @ + 1]
  /\ UNCHANGED <<cited, repeated>>
GiveUp(u) == End("needs_review") /\ used' = u /\ UNCHANGED <<cited, repeated>>

\* The model's next action, charged before it is looked at.
Act ==
  /\ pc = "model" /\ Unsent = {}
  /\ \E in \in Tokens, out \in Tokens :
       LET u == Charged(in, out)
       IN  IF Late \/ Spent(u) THEN GiveUp(u)
           ELSE Finish(u) \/ Search(u) \/ Fetch(u) \/ GiveUp(u)
  /\ UNCHANGED <<now, rounds, allowance, sources>>

\* search found something or failed: the model is told.
Searched ==
  /\ pc = "search"
  /\ Go("check")
  /\ UNCHANGED <<now, rounds, used, allowance, sources, cited, repeated>>

\* A page is read, wherever a redirect led; one that is too long for what is
\* left, or was read before, counts as a page only.
Fetched(e) ==
  /\ pc = "fetch"
  /\ IF used.chars + e[2] > Limits.chars \/ \E s \in sources : s[1] = e[1]
     THEN UNCHANGED <<used, sources>>
     ELSE /\ sources' = sources \cup {e}
          /\ used' = [used EXCEPT !.chars = @ + e[2]]
  /\ Go("check")
  /\ UNCHANGED <<now, rounds, allowance, cited, repeated>>

\* fetch refuses the address, or finds no text there.
FetchRejected ==
  /\ pc = "fetch"
  /\ Go("check")
  /\ UNCHANGED <<now, rounds, used, allowance, sources, cited, repeated>>

\* with_deadline cuts what is awaited.
Expire ==
  /\ pc \in Awaiting /\ Late
  /\ End("needs_review")
  /\ UNCHANGED <<now, rounds, used, allowance, sources, cited, repeated>>

-----------------------------------------------------------------------------
\* The job takes the result: _validate_result_contract with budget_exceeded,
\* then _materialize_sources and resolve_candidate_brief.
Exceeded ==
  \/ used.calls > Limits.calls \/ used.queries > Limits.queries
  \/ used.pages > Limits.pages \/ used.chars > Limits.chars
  \/ Spent(used) \/ now > Limits.elapsed
Consistent == Cardinality(sources) <= used.pages /\ used.chars = Length(sources)

Take ==
  /\ outcome = "result"
  /\ outcome' = IF Exceeded \/ ~ Consistent \/ sources \cap Given # {} \/ repeated
                THEN "refused" ELSE "kept"
  /\ UNCHANGED <<now, pc, rounds, used, allowance, sources, cited, repeated>>

Tick ==
  /\ pc # "over" /\ now < MaxTime
  /\ now' = now + 1
  /\ UNCHANGED <<pc, rounds, used, allowance, sources, cited, repeated, outcome>>

Next ==
  \/ Ask \/ NoAnswer \/ Act \/ Searched \/ FetchRejected
  \/ \E e \in Evidence : Fetched(e)
  \/ Expire \/ Take \/ Tick

Spec == Init /\ [][Next]_vars

-----------------------------------------------------------------------------
\* The job finds nothing wrong with a result of the loop but a page the story
\* had already, or one the brief lists twice: whatever the model did, no budget
\* was exceeded and what was counted is what was read.
OnlyKnownPagesRefused ==
  outcome = "refused" => sources \cap Given # {} \/ repeated

\* A request that is sent leaves the model a token to answer with, and asks for
\* no more than is left of the budgets; no page is read twice.
RequestsAreFunded ==
  /\ pc = "model" => /\ allowance \in 1..(Limits.output - used.output)
                     /\ used.calls < Limits.calls
  /\ pc # "over" => ~ Spent(used) /\ used.calls <= Limits.calls
  /\ \A s, t \in sources : s[1] = t[1] => s = t

\* What a brief that was taken cites was read, now or before.
CitedWasRead == outcome \in {"result", "kept"} => cited \subseteq sources \cup Given
=============================================================================
