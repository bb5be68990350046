-------------------------- MODULE ManualPublication --------------------------
(***************************************************************************)
(* Publication by hand: plans with a checklist for the approved revision of  *)
(* a variant, the calendar of what is planned, and the history of what was   *)
(* published, which a browser reads page by page while more is published.    *)
(* Source: backend/app/manual_publication/service.py, calendar.py,          *)
(* models.py; api/calendar.py.                                              *)
(*                                                                         *)
(* Each request is one transaction that locks variant, revision and plan.   *)
(* Titles, links, notes and time zones are left out.                        *)
(***************************************************************************)
EXTENDS Integers, Sequences, FiniteSets

CONSTANTS Items,         \* CHECKLIST_IDS_BY_PLATFORM of the platform
          Ids,           \* UUIDs, in their order
          MaxRevisions,  \* bound: revisions of the variant
          MaxTime,       \* bound: instants
          Limit          \* records of a page

ManualPublicationAssumption ==
  Ids \subseteq Nat /\ MaxRevisions \in Nat /\ MaxTime \in Nat /\ Limit \in Nat \ {0}

VARIABLES
  state,  \* approval_state of each revision
  plans,  \* manual_publication_plans by id: rev, status, checks (those that are true), due, done (completed_at)
  asked,  \* what the last request about an item of a plan said (history)
  posts,  \* confirmed Telegram publications: id, time
  page,   \* a reader of GET /publications: cursor, records shown, those there at the start
  now

vars == <<state, plans, asked, posts, page, now>>

Times == 0..MaxTime
NoPlan == [rev |-> 0, status |-> "none", checks |-> {}, due |-> 0, done |-> 0]
Active == {"planned", "ready"}

TypeOK ==
  /\ Len(state) <= MaxRevisions
  /\ \A n \in DOMAIN state : state[n] \in {"pending_review", "approved", "rejected"}
  /\ \A i \in Ids :
       /\ plans[i].status \in Active \cup {"none", "manual_published", "cancelled"}
       /\ plans[i].rev \in 0..Len(state) /\ plans[i].checks \subseteq Items
       /\ plans[i].due \in Times /\ plans[i].done \in Times
  /\ posts \subseteq [id : Ids, at : Times] /\ now \in Times

NoPage == [pc |-> "idle", cursor |-> {}, shown |-> <<>>, start |-> {}]

Init ==
  /\ state = <<"pending_review">> /\ plans = [i \in Ids |-> NoPlan]
  /\ asked = [i \in Ids |-> {}] /\ posts = {} /\ page = NoPage /\ now = 0

-----------------------------------------------------------------------------
(* Revisions. *)

Newest == Len(state)

Edit ==
  /\ Newest < MaxRevisions
  /\ state' = Append(state, "pending_review")
  /\ UNCHANGED <<plans, asked, posts, page, now>>

\* approve_revision asks for the newest revision, reject_revision does not.
Review(n, to) ==
  /\ n \in DOMAIN state /\ state[n] = "pending_review"
  /\ to = "approved" => n = Newest
  /\ state' = [state EXCEPT ![n] = to]
  /\ UNCHANGED <<plans, asked, posts, page, now>>

\* Mutant of Publishable: any approved revision.
PublishableApproved(n) == state[n] = "approved"

\* _require_publishable_revision
Publishable(n) == state[n] = "approved" /\ n = Newest

-----------------------------------------------------------------------------
(* Plans. *)

PlanOf(n) == {i \in Ids : plans[i].rev = n /\ plans[i].status \in Active}

\* create_plan: a plan under way is the answer, or refuses another instant.
CreatePlan(n, i, due) ==
  /\ n \in DOMAIN state /\ Publishable(n) /\ PlanOf(n) = {}
  /\ due > now /\ plans[i].status = "none"
  /\ plans' = [plans EXCEPT ![i] = [NoPlan EXCEPT !.rev = n, !.status = "planned", !.due = due]]
  /\ UNCHANGED <<state, asked, posts, page, now>>

\* _lock_plan_context, and the plan can still change.
Open(i) == plans[i].status \in Active

\* Mutant of Merged: a request replaces the checklist.
MergedReplaced(i, on, off) == on \ off

\* Items a request does not name stay what they are.
Merged(i, on, off) == (plans[i].checks \cup on) \ off

\* update_checklist
UpdateChecklist(i, on, off) ==
  /\ Open(i) /\ on \cap off = {} /\ on \cup off # {}
  /\ LET checks == Merged(i, on, off) IN
     plans' = [plans EXCEPT ![i].checks = checks,
                            ![i].status = IF checks = Items THEN "ready" ELSE "planned"]
  /\ asked' = [asked EXCEPT ![i] = (@ \cup on) \ off]
  /\ UNCHANGED <<state, posts, page, now>>

\* mark_published; sent again with the same link and note it changes nothing.
MarkPublished(i) ==
  /\ plans[i].status = "ready" /\ plans[i].checks = Items
  /\ Publishable(plans[i].rev)
  /\ plans' = [plans EXCEPT ![i].status = "manual_published", ![i].done = now]
  /\ UNCHANGED <<state, asked, posts, page, now>>

Cancel(i) ==
  /\ Open(i)
  /\ plans' = [plans EXCEPT ![i].status = "cancelled"]
  /\ UNCHANGED <<state, asked, posts, page, now>>

\* A Telegram publication is confirmed (TelegramPublish).
Confirmed(i) ==
  /\ \A p \in posts : p.id # i
  /\ posts' = posts \cup {[id |-> i, at |-> now]}
  /\ UNCHANGED <<state, plans, asked, page, now>>

-----------------------------------------------------------------------------
(* The calendar: list_calendar_events. *)

\* Mutant of InWindow: the end belongs to the window.
InWindowClosed(due, start, end) == start <= due /\ due <= end

InWindow(due, start, end) == start <= due /\ due < end

CalendarEvents(start, end) ==
  {i \in Ids : plans[i].status # "none" /\ InWindow(plans[i].due, start, end)}

-----------------------------------------------------------------------------
(* The history: list_publications. *)

Kinds == {"manual_publication", "telegram_publication"}
Record(kind, id, at) == [kind |-> kind, id |-> id, at |-> at]

Records(kind) ==
  IF kind = "manual_publication"
  THEN {Record(kind, i, plans[i].done) : i \in {k \in Ids : plans[k].status = "manual_published"}}
  ELSE {Record(kind, p.id, p.at) : p \in posts}

\* Newest first; at the same instant Telegram before manual, then by id.
Sooner(r, s) ==
  \/ r.at < s.at
  \/ r.at = s.at /\ r.kind = "manual_publication" /\ s.kind = "telegram_publication"
  \/ r.at = s.at /\ r.kind = s.kind /\ r.id < s.id

\* Mutant of AfterCursor: by the instant alone.
AfterCursorTime(r, cursor) == \A s \in cursor : r.at < s.at

\* _cursor_sql_condition, _is_before_cursor
AfterCursor(r, cursor) == \A s \in cursor : Sooner(r, s)

\* The first n of a set, newest first.
Top(set, n) == {r \in set : Cardinality({s \in set : Sooner(r, s)}) < n}

\* The records of the next page and one more, from the first ones of each kind.
Fetched ==
  UNION {Top({r \in Records(k) : AfterCursor(r, page.cursor)}, Limit + 1) : k \in Kinds}

Ordered(set) ==
  CHOOSE q \in [1..Cardinality(set) -> set] :
    \A i, k \in 1..Cardinality(set) : i < k => Sooner(q[k], q[i])

FirstPage ==
  /\ page.pc = "idle"
  /\ page' = [NoPage EXCEPT !.pc = "more", !.start = UNION {Records(k) : k \in Kinds}]
  /\ UNCHANGED <<state, plans, asked, posts, now>>

\* A page and the cursor of the next one, if there is more.
NextPage ==
  /\ page.pc = "more"
  /\ LET new == Ordered(Top(Fetched, Limit)) IN
     page' = [page EXCEPT !.pc = IF Cardinality(Fetched) > Limit THEN "more" ELSE "end",
                          !.shown = @ \o new,
                          !.cursor = IF new = <<>> THEN @ ELSE {new[Len(new)]}]
  /\ UNCHANGED <<state, plans, asked, posts, now>>

Leave ==
  /\ page.pc = "end" /\ page' = NoPage
  /\ UNCHANGED <<state, plans, asked, posts, now>>

Tick ==
  /\ now < MaxTime /\ now' = now + 1
  /\ UNCHANGED <<state, plans, asked, posts, page>>

Next ==
  \/ Edit \/ Tick \/ FirstPage \/ NextPage \/ Leave
  \/ \E n \in 1..MaxRevisions, to \in {"approved", "rejected"} : Review(n, to)
  \/ \E i \in Ids :
       \/ MarkPublished(i) \/ Cancel(i) \/ Confirmed(i)
       \/ \E n \in 1..MaxRevisions, due \in Times : CreatePlan(n, i, due)
       \/ \E on, off \in SUBSET Items : UpdateChecklist(i, on, off)

Spec == Init /\ [][Next]_vars

-----------------------------------------------------------------------------
(* Properties. *)

\* Pages name no record twice, newest first, and in the end every record that
\* was there at the start, although more is published between two pages.
PagesComplete ==
  /\ \A i, k \in DOMAIN page.shown : i < k => Sooner(page.shown[k], page.shown[i])
  /\ page.pc = "end" => page.start \subseteq {page.shown[i] : i \in DOMAIN page.shown}

\* An item is checked as the last request about it said: no update of one item
\* undoes that of another, and what was published had every item checked.
ChecklistFollows ==
  \A i \in Ids :
    /\ plans[i].checks = asked[i]
    /\ plans[i].status \in {"ready", "manual_published"} => asked[i] = Items

\* Consecutive windows of the calendar show each plan once.
WindowsPartition ==
  \A s, m, e \in 0..(MaxTime + 1) : s < m /\ m < e =>
    /\ CalendarEvents(s, m) \cap CalendarEvents(m, e) = {}
    /\ CalendarEvents(s, m) \cup CalendarEvents(m, e) = CalendarEvents(s, e)

\* At most one plan of a revision is under way, and what is marked as published
\* is the newest revision at that moment.
PublishesNewest ==
  \A i \in Ids :
    /\ plans[i].status # "manual_published" /\ plans'[i].status = "manual_published" =>
         plans[i].rev = Len(state') /\ state'[plans[i].rev] = "approved"
    /\ \A k \in Ids \ {i} : plans'[i].status \in Active /\ plans'[k].status \in Active =>
         plans'[i].rev # plans'[k].rev
=============================================================================
