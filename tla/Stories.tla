------------------------------- MODULE Stories -------------------------------
(***************************************************************************)
(* Stories and their evidence: content items of sources, Telegram captures   *)
(* and manual intake, the jobs that group what has no story yet page by      *)
(* page, and the merge of provisional stories into canonical ones.           *)
(* Source: backend/app/stories/repository.py, handlers.py, grouping.py,     *)
(* states.py; api/stories.py; automations/telegram/repository.py.           *)
(*                                                                         *)
(* group_content_items runs under an advisory lock that lasts to the commit *)
(* of its transaction.  list_pending_content_items locks the rows it found, *)
(* but a row it had to wait for is returned as it was found: a worker may    *)
(* group a page another one has just grouped.  Evidence is an item, the      *)
(* version of its text (content_sha256) and the moment it was captured.      *)
(***************************************************************************)
EXTENDS HandlerRuns, FiniteSets, SequencesExt

CONSTANTS Items,      \* content items, in the order of their ids
          Similar,    \* pairs decide_group puts together: same URL, or titles of 72 hours
          Intakes,    \* those that come by manual intake
          AutoItems,  \* those automations were started for
          Routes,     \* Telegram routes that capture messages
          Limit,      \* page size of story.group_pending
          MaxStories, \* bound: stories
          MaxText,    \* bound: versions of a text
          Disturbances

StoriesAssumption ==
  /\ Items \subseteq Nat \ {0} /\ IsFiniteSet(Items) /\ Intakes \subseteq Items /\ AutoItems \subseteq Items
  /\ Similar \subseteq Items \X Items /\ \A p \in Similar : <<p[2], p[1]>> \in Similar
  /\ Limit \in Nat \ {0} /\ MaxStories \in Nat /\ MaxText \in Nat

VARIABLES
  content,   \* version of each item's text, 0 before it is stored
  stories,   \* in the order of created_at: status, by (superseded_by_id, 0 is NULL), snaps
  captured,  \* the story of the first dispatch of each item, by route; 0: none
  clock,     \* captures so far
  page,      \* what a worker's list_pending_content_items returned
  due        \* pending since a chain of pages began, and in none of them (history)

tables == <<content, stories, captured, clock>>
vars   == <<queueVars, tables, page, due>>

Provisional == "telegram_provisional"
Statuses == {"inbox", "shortlisted", "rejected", "drafted", Provisional}
Page(pc, items) == [pc |-> pc, items |-> items]
Snap(i, text, at) == [item |-> i, text |-> text, at |-> at]
Key(e) == <<e.item, e.text>>
Root(j) == [j EXCEPT !.cursor = 0]
Roots == {Root(j) : j \in Jobs}

TypeOK ==
  /\ QueueTypeOK
  /\ content \in [Items -> 0..MaxText] /\ clock \in Nat
  /\ \A s \in DOMAIN stories :
       /\ stories[s].status \in Statuses /\ stories[s].by \in 0..Len(stories) \ {s}
       /\ \A e \in stories[s].snaps :
            e.item \in Items /\ e.text \in 1..MaxText /\ e.at \in 0..clock
       /\ \A e, f \in stories[s].snaps : Key(e) = Key(f) => e = f  \* uq (story_id, evidence_key)
  /\ captured \in [Routes -> [Items -> 0..Len(stories)]]
  /\ \A w \in Workers : page[w].pc \in {"claimed", "listed", "grouped"} /\ Len(page[w].items) <= Limit
  /\ due \in [Roots -> SUBSET Items]

Init ==
  /\ QueueInit
  /\ content = [i \in Items |-> 0] /\ stories = <<>>
  /\ captured = [r \in Routes |-> [i \in Items |-> 0]] /\ clock = 0
  /\ page = [w \in Workers |-> Page("claimed", <<>>)] /\ due = [r \in Roots |-> {}]

-----------------------------------------------------------------------------
(* Items and stories. *)

Stored == {i \in Items : content[i] > 0}
Active(st, s) == st[s].by = 0
Canonical(st, s) == Active(st, s) /\ st[s].status # Provisional
ItemsOf(st, s) == {e.item : e \in st[s].snaps}
Held(st) == UNION {ItemsOf(st, s) : s \in DOMAIN st}

\* No evidence yet, or evidence in an active provisional story.
PendingIn(st) ==
  {i \in Stored : \/ i \notin Held(st)
                  \/ \E s \in DOMAIN st : i \in ItemsOf(st, s) /\ Active(st, s) /\ ~Canonical(st, s)}
Pending == PendingIn(stories)
FirstOf(S) ==
  LET sorted == SetToSortSeq(S, <) IN SubSeq(sorted, 1, IF Len(sorted) < Limit THEN Len(sorted) ELSE Limit)

\* Parts of a page that hold together: group_components.
Closed(c, S) == \A a \in c, b \in S : <<a, b>> \in Similar => b \in c
Components(S) ==
  {c \in SUBSET S \ {{}} : /\ Closed(c, S)
                           /\ \A d \in SUBSET c \ {{}} : Closed(d, S) => d = c}

Oldest(S) == IF S = {} THEN 0 ELSE CHOOSE s \in S : \A t \in S : s <= t

\* Stories of the requested items, those merged into them and their canonicals.
Linked(st, req) ==
  LET own == {s \in DOMAIN st : ItemsOf(st, s) \cap req # {}}
      near == own \cup {s \in DOMAIN st : st[s].by \in own}
  IN near \cup ({st[s].by : s \in near} \ {0})

\* The oldest active canonical with a match, by URL or by title.
Match(st, req) ==
  Oldest({s \in DOMAIN st : /\ Canonical(st, s)
                            /\ \E x \in ItemsOf(st, s), i \in req : <<x, i>> \in Similar})

\* Mutant of Conflicted: the items go to the oldest of their stories.
ConflictedNever(actives) == FALSE
Conflicted(actives) == Cardinality(actives) > 1

\* Mutant of MergedInto: only what has no evidence yet is copied.
MergedIntoNew(st, merged, req) ==
  {Snap(i, content[i], 0) : i \in req \ (Held(st) \ UNION {ItemsOf(st, s) : s \in merged})}
\* Evidence that comes in: of the provisional stories, and of items without any.
MergedInto(st, merged, req) ==
  UNION {st[s].snaps : s \in merged} \cup {Snap(i, content[i], 0) : i \in req \ Held(st)}

\* What one call of group_content_items comes to: the stories, and whether it
\* raised EvidenceKeyCollision.
Group(st, req) ==
  LET linked   == Linked(st, req)
      actives  == {s \in linked : Canonical(st, s)}
      found    == IF actives # {} THEN Oldest(actives) ELSE Match(st, req)
      target   == IF found = 0 THEN Len(st) + 1 ELSE found
      merged   == {s \in linked : Active(st, s) /\ ~Canonical(st, s)}
      incoming == MergedInto(st, merged, req)
      existing == IF found = 0 THEN {} ELSE st[found].snaps
      story    == [status |-> IF found = 0 THEN "inbox" ELSE st[found].status, by |-> 0,
                   snaps |-> existing \cup incoming]
      others   == [s \in DOMAIN st |-> IF s \in merged THEN [st[s] EXCEPT !.by = target] ELSE st[s]]
      collides == \E a \in incoming, b \in story.snaps : Key(a) = Key(b) /\ a # b
  IN CASE Conflicted(actives) -> [stories |-> st, raised |-> FALSE]
       [] ~Conflicted(actives) /\ collides -> [stories |-> st, raised |-> TRUE]
       [] OTHER -> [stories |-> [s \in DOMAIN others \cup {target} |->
                                   IF s = target THEN story ELSE others[s]],
                    raised |-> FALSE]

\* A page is one transaction: a collision in one component undoes the others.
GroupAll(items) ==
  FoldLeft(LAMBDA r, c : IF r.raised THEN r ELSE Group(r.stories, c),
           [stories |-> stories, raised |-> FALSE],
           SetToSortSeq(Components(items), LAMBDA a, b : Oldest(a) < Oldest(b)))

-----------------------------------------------------------------------------
(* Where items come from. *)

Job(kind, items, cursor) == [kind |-> kind, items |-> items, cursor |-> cursor]

\* An ingest job stores an item and enqueues the grouping of what is pending.
Ingest(i) ==
  /\ i \notin Intakes /\ content[i] = 0
  /\ content' = [content EXCEPT ![i] = 1]
  /\ IF Job("ingest", <<i>>, 0) \in Jobs THEN EnqueueJobOnce(Job("ingest", <<i>>, 0))
     ELSE UNCHANGED queueVars
  /\ UNCHANGED <<stories, captured, clock, page, due>>

\* A route captures a message as a provisional story; the item may exist, with
\* this text or another one.
Capture(r, i, text) ==
  /\ i \notin Intakes /\ captured[r][i] = 0 /\ Len(stories) < MaxStories
  /\ text \in {content[i], content[i] + 1} \cap 1..MaxText
  /\ content' = [content EXCEPT ![i] = text]
  /\ stories' = Append(stories, [status |-> Provisional, by |-> 0,
                                 snaps |-> {Snap(i, text, clock + 1)}])
  /\ captured' = [captured EXCEPT ![r][i] = Len(stories) + 1]
  /\ clock' = clock + 1
  /\ UNCHANGED <<queueVars, page, due>>

\* The author edits the message: new evidence for the story of the route, which
\* may have been merged in the meantime.
CaptureEdit(r, i) ==
  LET s == captured[r][i] IN
  /\ s # 0 /\ content[i] < MaxText
  /\ content' = [content EXCEPT ![i] = @ + 1]
  /\ stories' = [stories EXCEPT ![s].snaps = @ \cup {Snap(i, content[i] + 1, clock + 1)}]
  /\ clock' = clock + 1
  /\ UNCHANGED <<queueVars, captured, page, due>>

\* POST /stories/manual: the key is the payload.
AskIntake(i) ==
  /\ i \in Intakes /\ Job("manual", <<i>>, 0) \in Jobs
  /\ EnqueueJob(Job("manual", <<i>>, 0))
  /\ UNCHANGED <<tables, page, due>>

\* POST /stories/group-pending: the key is the list of the first candidates.
AskGrouping ==
  /\ Job("pending", FirstOf(Pending), 0) \in Jobs
  /\ EnqueueJob(Job("pending", FirstOf(Pending), 0))
  /\ UNCHANGED <<tables, page, due>>

\* Items of a chain that are still pending and in none of its pages.
StillDue(st) == [r \in Roots |-> due[r] \cap PendingIn(st)]

\* An automation groups the article it was started for.
GroupArticle(i) ==
  /\ i \in Stored \cap AutoItems /\ Len(Group(stories, {i}).stories) <= MaxStories
  /\ stories' = Group(stories, {i}).stories
  /\ due' = StillDue(stories')
  /\ UNCHANGED <<queueVars, content, captured, clock, page>>

Targets(status) ==
  CASE status \in {"inbox", "shortlisted"} ->
         {"inbox", "shortlisted", "rejected", "drafted"} \ {status}
    [] status = "rejected" -> {"inbox", "shortlisted"}
    [] status = "drafted" -> {"inbox", "shortlisted", "rejected"}
    [] OTHER -> {}

\* All of the chosen stories change, or none.
ChangeStates(chosen, target) ==
  /\ "states" \in Disturbances
  /\ \A s \in chosen : Active(stories, s) /\ target \in Targets(stories[s].status)
  /\ stories' = [s \in DOMAIN stories |->
                   IF s \in chosen THEN [stories[s] EXCEPT !.status = target] ELSE stories[s]]
  /\ UNCHANGED <<queueVars, content, captured, clock, page, due>>

-----------------------------------------------------------------------------
(* The jobs. *)

Claim(w, j) ==
  /\ ClaimJob(w, j)
  /\ page' = [page EXCEPT ![w] = Page("claimed", <<>>)]
  /\ UNCHANGED <<tables, due>>

At(w, pc) == cur[w] # NoJob /\ Executable(w) /\ page[w].pc = pc

\* A manual intake stores item and story, unless a run of the job did before.
Intake(w) ==
  LET i == cur[w].items[1] IN
  /\ At(w, "claimed") /\ cur[w].kind = "manual" /\ Len(stories) < MaxStories
  /\ IF content[i] > 0 THEN UNCHANGED <<content, stories>>
     ELSE /\ content' = [content EXCEPT ![i] = 1]
          /\ stories' = Append(stories, [status |-> "inbox", by |-> 0, snaps |-> {Snap(i, 1, 0)}])
  /\ page' = [page EXCEPT ![w] = Page("grouped", <<>>)]
  /\ UNCHANGED <<queueVars, captured, clock, due>>

\* list_pending_content_items: as of the start of a statement that may wait.
ListPending(w) ==
  LET j == cur[w] IN
  /\ At(w, "claimed") /\ j.kind # "manual"
  /\ page' = [page EXCEPT ![w] = Page("listed", FirstOf({i \in Pending : i > j.cursor}))]
  /\ due' = IF j.cursor = 0 /\ tries[j] = 1 THEN [due EXCEPT ![j] = Pending] ELSE due
  /\ UNCHANGED <<queueVars, tables>>

Listed(w) == {page[w].items[n] : n \in DOMAIN page[w].items}

\* Mutant of NextPage: a key without the cursor is that of the page before.
NextPageRoot(w) == Root(cur[w])
\* The continuation of a full page: its key is the chain and the cursor.
NextPage(w) == [cur[w] EXCEPT !.cursor = page[w].items[Limit]]

\* group_pending_content commits the stories and the job of the next page.
GroupPage(w) ==
  LET r == GroupAll(Listed(w)) IN
  /\ At(w, "listed") /\ ~r.raised /\ Len(r.stories) <= MaxStories
  /\ stories' = r.stories
  /\ due' = [StillDue(r.stories) EXCEPT ![Root(cur[w])] = @ \ Listed(w)]
  /\ IF Len(page[w].items) = Limit THEN EnqueueJobOnce(NextPage(w)) ELSE UNCHANGED queueVars
  /\ page' = [page EXCEPT ![w] = Page("grouped", <<>>)]
  /\ UNCHANGED <<content, captured, clock>>

\* A collision fails the whole page; so does a manual URL that gives no text.
Fail(w) ==
  /\ \/ At(w, "listed") /\ GroupAll(Listed(w)).raised /\ CloseJob(w, "retryable")
     \/ /\ "fail" \in Disturbances /\ At(w, "claimed") /\ cur[w].kind = "manual"
        /\ CloseJob(w, "needs_review")
  /\ UNCHANGED <<tables, page, due>>

Finish(w) ==
  /\ At(w, "grouped") /\ CloseJob(w, "succeeded")
  /\ UNCHANGED <<tables, page, due>>

Exhausted(w) ==
  /\ cur[w] # NoJob /\ ~Executable(w) /\ CloseJob(w, "permanent")
  /\ UNCHANGED <<tables, page, due>>

Crash(w) == "crash" \in Disturbances /\ Die(w) /\ UNCHANGED <<tables, page, due>>

Recover(j) ==
  /\ "lease" \in Disturbances \/ \A w \in Workers : cur[w] # j
  /\ RecoverJob(j)
  /\ UNCHANGED <<tables, page, due>>

Retry(j) == RetryJob(j) /\ UNCHANGED <<tables, page, due>>

Next ==
  \/ \E i \in Items : Ingest(i) \/ AskIntake(i) \/ GroupArticle(i)
  \/ \E r \in Routes, i \in Items : CaptureEdit(r, i) \/ \E text \in 1..MaxText : Capture(r, i, text)
  \/ AskGrouping
  \/ \E chosen \in SUBSET DOMAIN stories \ {{}}, target \in Statuses : ChangeStates(chosen, target)
  \/ \E w \in Workers :
       \/ \E j \in Jobs : Claim(w, j)
       \/ Intake(w) \/ ListPending(w) \/ GroupPage(w) \/ Fail(w) \/ Finish(w) \/ Exhausted(w)
       \/ Crash(w)
  \/ \E j \in Jobs : Recover(j) \/ Retry(j)

Spec == Init /\ [][Next]_vars

-----------------------------------------------------------------------------
(* Properties. *)

\* An item is evidence of one canonical story, and a merged story names it:
\* a page that another worker has just grouped, articles grouped in between and
\* second captures of a message make no second story of it (group_content_items).
OneStory ==
  /\ \A i \in Items :
       Cardinality({s \in DOMAIN stories : Canonical(stories, s) /\ i \in ItemsOf(stories, s)}) <= 1
  /\ \A s \in DOMAIN stories : stories[s].by # 0 =>
       stories[s].status = Provisional /\ Canonical(stories, stories[s].by)

\* When the pages of a chain are through, each item that was pending when it
\* began has been in one of them or was grouped by someone else, although pages
\* are replayed after crashes and items leave and join the list in between.
ChainsCover ==
  \A r \in Roots :
    /\ job[r] = "succeeded"
    /\ \A j \in Jobs : Root(j) = r => job[j] \in {"absent", "succeeded"}
    => due[r] = {}

\* Evidence is never lost: no snapshot goes, and a story is merged with all the
\* evidence it has at that moment, once and for good.
KeepsEvidence ==
  \A s \in DOMAIN stories :
    /\ stories[s].snaps \subseteq stories'[s].snaps
    /\ stories[s].by # 0 => stories'[s].by = stories[s].by
    /\ stories[s].by # stories'[s].by => stories[s].snaps \subseteq stories'[stories'[s].by].snaps
=============================================================================
