-------------------------- MODULE TelegramScheduling --------------------------
(***************************************************************************)
(* What becomes of reviewed Telegram drafts: the operator edits and          *)
(* approves the revisions of a variant, schedules one for an instant or      *)
(* publishes one at once, from several browsers; each request makes a        *)
(* publish intent (publish_jobs) and its workflow job.                      *)
(* Source: backend/app/publishing/telegram/scheduling.py,                   *)
(* draft_publication.py, service_contracts.py; api/telegram_drafts.py;      *)
(* automations/telegram/process_support.py, process_revision.py.            *)
(*                                                                         *)
(* A request is a transaction that locks the variant first; it may be lost   *)
(* at every step.  The delivery is one step (TelegramPublish has it).       *)
(* Destination and provenance are those of the route, which keeps them.     *)
(***************************************************************************)
EXTENDS Integers, Sequences

CONSTANTS Clients,       \* open requests of the operator
          NoClient,      \* the variant is not locked
          MaxRevisions,  \* bound: revisions of the variant
          MaxTime,       \* bound: instants
          MaxRetries     \* bound: retries of a publish job

TelegramSchedulingAssumption ==
  /\ NoClient \notin Clients
  /\ MaxRevisions \in Nat \ {0} /\ MaxTime \in Nat /\ MaxRetries \in Nat

VARIABLES
  drafts,   \* approval_state of each revision of the variant
  intents,  \* publish_jobs of each revision: kind, status, due (scheduled_for), job status
  sent,     \* how often each revision was delivered (history)
  enabled,  \* destinations.enabled
  lock,     \* who holds the row of the variant
  call,     \* an open request: operation, revision, due; step; the intents it has read
  now

deskVars == <<drafts, intents, sent, enabled>>
vars     == <<deskVars, lock, call, now>>

Numbers == 1..MaxRevisions
Kinds == {"immediate", "scheduled"}
NoIntent == [status |-> "none", due |-> 0, job |-> "absent", retries |-> 0]
NoCall == [op |-> "none", rev |-> 0, due |-> 0, pc |-> "idle", read |-> {}]

TypeOK ==
  /\ Len(drafts) <= MaxRevisions
  /\ \A n \in DOMAIN drafts : drafts[n] \in {"pending_review", "approved", "rejected"}
  /\ \A n \in Numbers, k \in Kinds :
       /\ intents[n][k].status \in {"none", "queued", "scheduled", "attention", "published"}
       /\ intents[n][k].due \in 0..MaxTime
       /\ intents[n][k].job \in {"absent", "queued", "succeeded", "needs_review", "cancelled"}
  /\ lock \in Clients \cup {NoClient} /\ enabled \in BOOLEAN
  /\ \A c \in Clients : call[c].pc \in {"idle", "wait", "locked", "write"}

Init ==
  /\ drafts = <<"pending_review">>
  /\ intents = [n \in Numbers |-> [k \in Kinds |-> NoIntent]]
  /\ sent = [n \in Numbers |-> 0] /\ enabled = TRUE
  /\ lock = NoClient /\ call = [c \in Clients |-> NoCall] /\ now = 0

Newest == Len(drafts)

-----------------------------------------------------------------------------
(* Review and edits: short transactions on the same variant. *)

\* edit_variant, or the revision of a later dispatch.
Edit ==
  /\ lock = NoClient /\ Newest < MaxRevisions
  /\ drafts' = Append(drafts, "pending_review")
  /\ UNCHANGED <<intents, sent, enabled, lock, call, now>>

\* A dispatch whose route approves by itself: revision and intent in one
\* transaction.
AutoApproved ==
  /\ lock = NoClient /\ Newest < MaxRevisions /\ enabled
  /\ drafts' = Append(drafts, "approved")
  /\ intents' = [intents EXCEPT ![Newest + 1]["immediate"] =
                   [NoIntent EXCEPT !.status = "queued", !.job = "queued"]]
  /\ UNCHANGED <<sent, enabled, lock, call, now>>

\* approve_revision asks for the newest revision, reject_revision does not.
Review(n, to) ==
  /\ n \in DOMAIN drafts /\ drafts[n] = "pending_review"
  /\ to = "approved" => n = Newest
  /\ \A c \in Clients : call[c].pc \in {"locked", "write"} => call[c].rev # n
  /\ drafts' = [drafts EXCEPT ![n] = to]
  /\ UNCHANGED <<intents, sent, enabled, lock, call, now>>

SetEnabled ==
  /\ enabled' = ~enabled
  /\ UNCHANGED <<drafts, intents, sent, lock, call, now>>

-----------------------------------------------------------------------------
(* Requests: schedule_telegram_revision, publish_telegram_draft. *)

Ask(c, op, n, due) ==
  /\ call[c].pc = "idle" /\ n \in DOMAIN drafts
  /\ op = "publish" => due = 0
  /\ call' = [call EXCEPT ![c] = [op |-> op, rev |-> n, due |-> due, pc |-> "wait", read |-> {}]]
  /\ UNCHANGED <<deskVars, lock, now>>

\* Mutant of Locked: the variant is read without FOR UPDATE.
LockedNever(c) == lock \in Clients \cup {NoClient}

\* SELECT ... FOR UPDATE of the variant.
Locked(c) == lock = NoClient

\* Refused, failed or gone: nothing is committed.
GiveUp(c) ==
  /\ call[c].pc # "idle"
  /\ call' = [call EXCEPT ![c] = NoCall]
  /\ lock' = IF lock = c THEN NoClient ELSE lock
  /\ UNCHANGED <<deskVars, now>>

\* locked_revision and the checks of scheduling: the newest revision, approved.
Lock(c) ==
  /\ call[c].pc = "wait" /\ Locked(c)
  /\ call[c].rev = Newest /\ drafts[call[c].rev] = "approved"
  /\ lock' = c
  /\ call' = [call EXCEPT ![c].pc = "locked"]
  /\ UNCHANGED <<deskVars, now>>

\* The intents of the revision under either key.
Read(c) ==
  /\ call[c].pc = "locked"
  /\ call' = [call EXCEPT ![c].pc = "write",
                          ![c].read = {k \in Kinds : intents[call[c].rev][k].status # "none"}]
  /\ UNCHANGED <<deskVars, lock, now>>

Answered(c) ==
  /\ call' = [call EXCEPT ![c] = NoCall]
  /\ lock' = NoClient

\* A new scheduled intent for an instant still ahead.
InsertScheduled(c) ==
  /\ call[c].pc = "write" /\ call[c].op = "schedule"
  /\ call[c].read = {} /\ call[c].due > now /\ enabled
  /\ intents[call[c].rev]["scheduled"].status = "none"
  /\ intents' = [intents EXCEPT ![call[c].rev]["scheduled"] =
       [status |-> "scheduled", due |-> call[c].due, job |-> "queued", retries |-> 0]]
  /\ Answered(c)
  /\ UNCHANGED <<drafts, sent, enabled, now>>

\* _validate_schedule_replay: the same schedule, still as it was made.
SameSchedule(i, due) == i.status = "scheduled" /\ i.due = due /\ i.job = "queued"

ReplaySchedule(c) ==
  /\ call[c].pc = "write" /\ call[c].op = "schedule" /\ enabled
  /\ SameSchedule(intents[call[c].rev]["scheduled"], call[c].due)
  /\ Answered(c)
  /\ UNCHANGED <<deskVars, now>>

\* Mutant of MayPublish: a schedule does not stand against it.
MayPublishAnyway(c) == call[c].read \subseteq Kinds

\* A schedule of the same revision refuses, an intent under the key is taken.
MayPublish(c) == "immediate" \in call[c].read \/ "scheduled" \notin call[c].read

\* enqueue_telegram_publish_intent: the job of a key is enqueued once.
PublishNow(c) ==
  /\ call[c].pc = "write" /\ call[c].op = "publish" /\ MayPublish(c)
  /\ intents' = [intents EXCEPT ![call[c].rev]["immediate"] =
       IF @.status = "none" THEN [NoIntent EXCEPT !.status = "queued", !.job = "queued"] ELSE @]
  /\ Answered(c)
  /\ UNCHANGED <<drafts, sent, enabled, now>>

-----------------------------------------------------------------------------
(* The publish jobs. *)

\* claim_jobs takes a job that is due; what is approved is delivered if the
\* destination allows it, whether or not the revision is the newest.
Deliver(n, k) ==
  /\ intents[n][k].job = "queued" /\ intents[n][k].due <= now
  /\ \A c \in Clients : call[c].pc \in {"locked", "write"} => call[c].rev # n
  /\ IF enabled /\ drafts[n] = "approved"
     THEN /\ sent' = [sent EXCEPT ![n] = @ + 1]
          /\ intents' = [intents EXCEPT ![n][k].status = "published", ![n][k].job = "succeeded"]
     ELSE /\ intents' = [intents EXCEPT ![n][k].status = "attention", ![n][k].job = "needs_review"]
          /\ UNCHANGED sent
  /\ UNCHANGED <<drafts, enabled, lock, call, now>>

\* retry_job, cancel_job: the publish_jobs row is left as it is.
RetryJob(n, k) ==
  /\ intents[n][k].job = "needs_review" /\ intents[n][k].retries < MaxRetries
  /\ intents' = [intents EXCEPT ![n][k].job = "queued", ![n][k].retries = @ + 1]
  /\ UNCHANGED <<drafts, sent, enabled, lock, call, now>>

CancelJob(n, k) ==
  /\ intents[n][k].job = "queued"
  /\ intents' = [intents EXCEPT ![n][k].job = "cancelled"]
  /\ UNCHANGED <<drafts, sent, enabled, lock, call, now>>

Tick == now < MaxTime /\ now' = now + 1 /\ UNCHANGED <<deskVars, lock, call>>

Next ==
  \/ Edit \/ AutoApproved \/ SetEnabled \/ Tick
  \/ \E n \in Numbers, to \in {"approved", "rejected"} : Review(n, to)
  \/ \E c \in Clients :
       \/ \E op \in {"schedule", "publish"}, n \in Numbers, due \in 0..MaxTime : Ask(c, op, n, due)
       \/ Lock(c) \/ Read(c) \/ GiveUp(c)
       \/ InsertScheduled(c) \/ ReplaySchedule(c) \/ PublishNow(c)
  \/ \E n \in Numbers, k \in Kinds : Deliver(n, k) \/ RetryJob(n, k) \/ CancelJob(n, k)

Spec == Init /\ [][Next]_vars

-----------------------------------------------------------------------------
(* Properties. *)

\* A revision is published at once or on a schedule, never both, and it is
\* delivered once, whichever browsers, dispatches and retries ask for it.
SentOnce ==
  \A n \in Numbers :
    /\ sent[n] <= 1
    /\ ~(intents[n]["immediate"].status # "none" /\ intents[n]["scheduled"].status # "none")

\* A new intent is for the revision that is the newest, and approved, when it
\* is committed: no edit slips in between the check and the intent.
IntentsOfNewest ==
  \A n \in Numbers, k \in Kinds :
    intents[n][k].status = "none" /\ intents'[n][k].status # "none" =>
      n = Len(drafts') /\ drafts'[n] = "approved"
=============================================================================
