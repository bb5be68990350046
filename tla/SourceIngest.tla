----------------------------- MODULE SourceIngest -----------------------------
(***************************************************************************)
(* Ingestion of sources: a run fetches several sources at a time with the  *)
(* validators it read when it was prepared, and persists one after the     *)
(* other as they come in; entries are bound to content items by their      *)
(* identities, and items that turn out to be the same are merged.          *)
(* Source: backend/app/ingestion/workflow.py, repository.py, identity.py;  *)
(* jobs/handlers.py.                                                       *)
(*                                                                         *)
(* Media, scores and classification are left out; of a text the model      *)
(* knows whether it is an excerpt.  Every entry has an external id.  A     *)
(* feed has one validator per version (an ETag), error pages have one too. *)
(***************************************************************************)
EXTENDS HandlerRuns, FiniteSets, SequencesExt

CONSTANTS Sources,     \* in the order of their names
          Feed,        \* by source and version: the entries, in order
          IdsOf,       \* strong identities of each entry (URLs, guid, text)
          Weaker,      \* those of lower confidence (content_hash)
          Excerpts,    \* <<source, version>>: the feed ships excerpts only
          Concurrency, \* settings.ingestion_source_concurrency
          MaxCalls,    \* bound: fetches
          Disturbances

Entries == DOMAIN IdsOf
Tokens == UNION {IdsOf[e] : e \in Entries}
Versions(s) == DOMAIN Feed[s]
ErrorPage == -1  \* the validator of an error page

SourceIngestAssumption ==
  /\ Sources \subseteq Nat /\ IsFiniteSet(Sources) /\ Concurrency \in Nat \ {0}
  /\ Weaker \subseteq Tokens
  /\ Excerpts \subseteq {<<s, v>> : s \in Sources, v \in UNION {Versions(z) : z \in Sources}}
  /\ \A s \in Sources : \A v \in Versions(s) : ToSet(Feed[s][v]) \subseteq Entries

VARIABLES
  version,  \* what each feed is at
  row,      \* sources: etag (0: none), health_status, last: was the newest fetch a success
  items,    \* content_items, oldest first: duplicate_of_id (0: NULL), and is the body full
  ident,    \* item_identities: the item of each token, 0: no row
  entry,    \* source_items: the item of each entry of each source, 0: no row
  events,   \* new_source_item events enqueued
  runs,     \* ingest_runs: status and the counters, by job (the newest attempt's)
  snap,     \* ingest_run_source_snapshots of collection runs: status and etag by source
  work,     \* the run a worker has under way
  calls,
  lost,     \* versions whose processing failed (history)
  tangled   \* a merge has met a duplicate without its original (history)

tables == <<row, items, ident, entry, events, runs, snap, tangled>>
feed   == <<version, calls, lost>>
vars   == <<queueVars, tables, feed, work>>

Zero == [checked |-> 0, fetched |-> 0, skipped |-> 0, failed |-> 0]
NoBatch == [source |-> 0, status |-> "none", etag |-> 0]
Idle == [pc |-> "idle", todo |-> <<>>, etags |-> [s \in Sources |-> 0], flight |-> {}, ready |-> {},
         batch |-> NoBatch, outcome |-> "none", stats |-> Zero]
Statuses == {"ok", "unparsed", "not_modified", "error", "exception"}

TypeOK ==
  /\ QueueTypeOK
  /\ \A s \in Sources :
       /\ version[s] \in Versions(s)
       /\ row[s].etag \in Versions(s) \cup {0, ErrorPage}
       /\ row[s].health \in {"unknown", "healthy", "degraded", "broken"}
       /\ \A e \in Entries : entry[s][e] \in 0..Len(items) /\ events[s][e] \in Nat
  /\ \A i \in DOMAIN items : items[i].dup \in 0..Len(items) \ {i} /\ items[i].full \in BOOLEAN
  /\ ident \in [Tokens -> 0..Len(items)] /\ tangled \in BOOLEAN
  /\ \A j \in Jobs : runs[j].status \in {"none", "queued", "running", "succeeded", "partial", "failed"}
  /\ \A w \in Workers : /\ Cardinality(work[w].flight) + Cardinality(work[w].ready) <= Concurrency
                        /\ \A b \in work[w].ready : b.status \in Statuses

Init ==
  /\ QueueInit
  /\ version = [s \in Sources |-> 1]
  /\ row = [s \in Sources |-> [etag |-> 0, health |-> "unknown", last |-> "none"]]
  /\ items = <<>> /\ ident = [t \in Tokens |-> 0]
  /\ entry = [s \in Sources |-> [e \in Entries |-> 0]]
  /\ events = [s \in Sources |-> [e \in Entries |-> 0]]
  /\ runs = [j \in Jobs |-> [status |-> "none", stats |-> Zero]]
  /\ snap = [j \in Jobs |-> [s \in Sources |-> [status |-> "absent", etag |-> 0]]]
  /\ work = [w \in Workers |-> Idle] /\ calls = 0 /\ lost = [s \in Sources |-> {}]
  /\ tangled = FALSE

-----------------------------------------------------------------------------
(* Binding an entry to a content item. *)

\* Items a strong identity points at: best confidence first, then the oldest.
Matches(id, e) ==
  LET found == {id[t] : t \in IdsOf[e]} \ {0}
      sure == {id[t] : t \in IdsOf[e] \ Weaker} \ {0}
      before(i, j) == \/ i \in sure /\ j \notin sure
                      \/ (i \in sure <=> j \in sure) /\ i < j
  IN SetToSortSeq(found, before)

\* Mutant of MergeDuplicates: the losing rows stay in the feed.
MergeDuplicatesNever(rows, winner, losers) == rows
MergeDuplicates(rows, winner, losers) ==
  IF losers = {} THEN rows
  ELSE [i \in DOMAIN rows |->
          IF i = winner THEN [rows[i] EXCEPT !.dup = IF @ \in losers THEN 0 ELSE @]
          ELSE IF i \in losers \/ rows[i].dup \in losers THEN [rows[i] EXCEPT !.dup = winner]
          ELSE rows[i]]

\* Mutant of Preserved: the newest parse wins.
PreservedNewest(stored, full) == full
\* An excerpt does not replace the fuller body that is stored.
Preserved(stored, full) == stored \/ full

\* Mutant of Created: a source item seen again counts as new.
CreatedAgain(st, s, e) == TRUE
Created(st, s, e) == st.entry[s][e] = 0

\* The merge is of an item that is a duplicate of one it does not meet: that
\* link is overwritten, or what hangs below the winner is not seen.
Tangles(rows, met) == \E i \in met : rows[i].dup \notin met \cup {0}

\* Every identity row of the entry points at its item from now on.
Attached(id, e, item) == [t \in Tokens |-> IF t \in IdsOf[e] THEN item ELSE id[t]]

\* upsert_source_item, upsert_content_item and attach_identities of one entry.
Upsert(st, s, e, full) ==
  LET matches == Matches(st.ident, e)
      item == IF matches = <<>> THEN Len(st.items) + 1 ELSE matches[1]
  IN [items  |-> IF matches = <<>> THEN Append(st.items, [dup |-> 0, full |-> full])
                 ELSE [MergeDuplicates(st.items, item, ToSet(Tail(matches)))
                         EXCEPT ![item].full = Preserved(@, full)],
      ident  |-> Attached(st.ident, e, item),
      entry  |-> [st.entry EXCEPT ![s][e] = item],
      events |-> [st.events EXCEPT ![s][e] = IF Created(st, s, e) THEN @ + 1 ELSE @],
      tangled |-> st.tangled \/ (Len(matches) > 1 /\ Tangles(st.items, ToSet(matches)))]

\* The entries of a feed, one after the other, in one savepoint.
Persisted(s, v) ==
  FoldLeft(LAMBDA st, e : Upsert(st, s, e, <<s, v>> \notin Excerpts),
           [items |-> items, ident |-> ident, entry |-> entry, events |-> events,
            tangled |-> tangled], Feed[s][v])

-----------------------------------------------------------------------------
(* A run. *)

\* The operator or a schedule enqueues an ingest job; the run of a collection is
\* created with it, with the sources and their validators as of now.
Enqueue(j) ==
  /\ EnqueueJob(j)
  /\ snap' = [snap EXCEPT ![j] = [s \in Sources |->
               IF j.collection /\ s \in j.sources
               THEN [status |-> "queued", etag |-> row[s].etag] ELSE @[s]]]
  /\ runs' = [runs EXCEPT ![j].status = IF j.collection THEN "queued" ELSE @]
  /\ UNCHANGED <<row, items, ident, entry, events, tangled, feed, work>>

Publish(s) ==
  /\ version[s] + 1 \in Versions(s)
  /\ version' = [version EXCEPT ![s] = @ + 1]
  /\ UNCHANGED <<queueVars, tables, calls, lost, work>>

Claim(w, j) ==
  /\ ClaimJob(w, j)
  /\ work' = [work EXCEPT ![w] = Idle]
  /\ UNCHANGED <<tables, feed>>

Working(w) == cur[w] # NoJob /\ Executable(w)

\* prepare_run: the sources and their validators as of now or, in a collection
\* run, of its snapshot, one row for all attempts; any other attempt has a run
\* of its own.
Prepare(w) ==
  /\ Working(w) /\ work[w].pc = "idle"
  /\ work' = [work EXCEPT ![w] = [Idle EXCEPT !.pc = "loop",
                !.todo = SetToSortSeq(cur[w].sources, <), !.etags = [s \in Sources |-> IF cur[w].collection THEN snap[cur[w]][s].etag ELSE row[s].etag]]]
  /\ runs' = [runs EXCEPT ![cur[w]] = [status |-> "running",
                stats |-> IF cur[w].collection THEN @.stats ELSE Zero]]
  /\ UNCHANGED <<queueVars, row, items, ident, entry, events, tangled, snap, feed>>

\* Mark the next source running and start its fetch.
Dispatch(w) ==
  LET r == work[w]
      s == Head(r.todo) IN
  /\ Working(w) /\ r.pc = "loop" /\ r.todo # <<>>
  /\ Cardinality(r.flight) + Cardinality(r.ready) < Concurrency
  /\ work' = [work EXCEPT ![w].todo = Tail(@), ![w].flight = @ \cup {s}]
  /\ snap' = IF cur[w].collection THEN [snap EXCEPT ![cur[w]][s].status = "running"] ELSE snap
  /\ UNCHANGED <<queueVars, row, items, ident, entry, events, tangled, runs, feed>>

\* The server answers a conditional request, or nothing comes back.
Answers(w, s) ==
  LET asked == work[w].etags[s]
      answer(x, e) == [source |-> s, status |-> x, etag |-> e]
  IN (IF asked = version[s] THEN {answer("not_modified", asked)}
      ELSE {answer("ok", version[s])})
     \cup (IF "parse" \in Disturbances /\ asked # version[s]
           THEN {answer("unparsed", version[s])} ELSE {})
     \cup (IF "outage" \in Disturbances
           THEN {answer("exception", 0),
                 answer(IF asked = ErrorPage THEN "not_modified" ELSE "error", ErrorPage)}
           ELSE {})

Fetch(w, s) ==
  /\ cur[w] # NoJob /\ s \in work[w].flight /\ calls < MaxCalls
  /\ \E b \in Answers(w, s) :
       work' = [work EXCEPT ![w].flight = @ \ {s}, ![w].ready = @ \cup {b}]
  /\ calls' = calls + 1
  /\ UNCHANGED <<queueVars, tables, version, lost>>

\* Mutant of Validator: those of error pages are adopted.
ValidatorAlways(b) == IF b.status = "exception" THEN row[b.source].etag ELSE b.etag
\* The validator kept with the source.
Validator(b) ==
  IF b.status \in {"error", "exception"} THEN row[b.source].etag ELSE b.etag

\* Mutant of Merged: a failure that is classified later is counted at once, too.
MergedTwice(stats, outcome) ==
  [stats EXCEPT !.checked = @ + 1,
                !.fetched = IF outcome = "fetched" THEN @ + 1 ELSE @,
                !.skipped = IF outcome = "skipped" THEN @ + 1 ELSE @,
                !.failed = IF outcome \in {"failed", "processing"} THEN @ + 1 ELSE @]
\* stats after one source: fetched, skipped and failed partition the checked
\* ones, once a processing failure is classified.
Merged(stats, outcome) ==
  [stats EXCEPT !.checked = @ + 1,
                !.fetched = IF outcome = "fetched" THEN @ + 1 ELSE @,
                !.skipped = IF outcome = "skipped" THEN @ + 1 ELSE @,
                !.failed = IF outcome = "failed" THEN @ + 1 ELSE @]

Failure(r) == [r EXCEPT !.health = "broken", !.last = "failure"]
Success(r, v, s) ==
  [r EXCEPT !.health = IF Feed[s][v] = <<>> THEN "degraded" ELSE "healthy", !.last = "success"]

\* persist_source, or record_source_failure when the fetch raised.  A failure of
\* parsing or of the writes under the savepoint is recorded by a later step.
Persist(w, b, failing) ==
  LET r == [row[b.source] EXCEPT !.etag = Validator(b)]
      fails == b.status = "unparsed" \/ failing
      outcome == CASE b.status \in {"error", "exception"} -> "failed"
                   [] b.status = "not_modified" -> "skipped"
                   [] b.status \in {"ok", "unparsed"} -> IF fails THEN "processing" ELSE "fetched"
  IN
  /\ Working(w) /\ work[w].pc = "loop" /\ b \in work[w].ready
  /\ failing => "persist" \in Disturbances /\ b.status = "ok"
  /\ row' = [row EXCEPT ![b.source] =
               CASE outcome = "failed" -> Failure(r)
                 [] outcome = "skipped" -> [r EXCEPT !.last = "success"]
                 [] outcome = "processing" -> r
                 [] outcome = "fetched" -> Success(r, b.etag, b.source)]
  /\ LET st == Persisted(b.source, b.etag) IN
     IF outcome = "fetched"
     THEN /\ items' = st.items /\ ident' = st.ident /\ entry' = st.entry
          /\ events' = st.events /\ tangled' = st.tangled
     ELSE UNCHANGED <<items, ident, entry, events, tangled>>
  /\ lost' = IF outcome = "processing" THEN [lost EXCEPT ![b.source] = @ \cup {b.etag}] ELSE lost
  /\ work' = [work EXCEPT ![w].ready = @ \ {b}, ![w].batch = b, ![w].outcome = outcome,
                          ![w].pc = IF outcome = "processing" THEN "classify" ELSE "progress",
                          ![w].stats = Merged(@, outcome)]
  /\ UNCHANGED <<queueVars, runs, snap, version, calls>>

\* record_source_failure of a processing failure, in a transaction of its own.
Classify(w) ==
  /\ Working(w) /\ work[w].pc = "classify"
  /\ row' = [row EXCEPT ![work[w].batch.source] = Failure(@)]
  /\ work' = [work EXCEPT ![w].pc = "progress", ![w].outcome = "failed",
                          ![w].stats.failed = @ + 1]
  /\ UNCHANGED <<queueVars, items, ident, entry, events, tangled, runs, snap, feed>>

\* _record_collection_progress; ordinary runs have no rows to keep.
Progress(w) ==
  /\ Working(w) /\ work[w].pc = "progress"
  /\ IF cur[w].collection
     THEN /\ snap' = [snap EXCEPT ![cur[w]][work[w].batch.source].status =
                        IF work[w].outcome = "fetched" THEN "succeeded" ELSE work[w].outcome]
          /\ runs' = [runs EXCEPT ![cur[w]].stats = work[w].stats]
     ELSE UNCHANGED <<snap, runs>>
  /\ work' = [work EXCEPT ![w].pc = "loop", ![w].batch = NoBatch, ![w].outcome = "none"]
  /\ UNCHANGED <<queueVars, row, items, ident, entry, events, tangled, feed>>

\* finish_run, then the job: an ordinary run with failed sources is tried again.
Finish(w) ==
  LET r == work[w] IN
  /\ Working(w) /\ r.pc = "loop" /\ r.todo = <<>> /\ r.flight = {} /\ r.ready = {}
  /\ runs' = [runs EXCEPT ![cur[w]] =
               [status |-> IF r.stats.failed > 0 THEN "partial" ELSE "succeeded", stats |-> r.stats]]
  /\ work' = [work EXCEPT ![w].pc = "finished"]
  /\ UNCHANGED <<queueVars, row, items, ident, entry, events, tangled, snap, feed>>

Close(w) ==
  /\ Working(w) /\ work[w].pc = "finished"
  /\ CloseJob(w, IF work[w].stats.failed > 0 /\ ~cur[w].collection
                 THEN "retryable" ELSE "succeeded")
  /\ work' = [work EXCEPT ![w] = Idle]
  /\ UNCHANGED <<tables, feed>>

\* An exception in the loop: the run is failed, quietly, and the job tried again.
Abort(w) ==
  /\ "abort" \in Disturbances
  /\ Working(w) /\ work[w].pc \in {"loop", "classify", "progress"}
  /\ runs' = [runs EXCEPT ![cur[w]] = [status |-> "failed", stats |-> work[w].stats]]
  /\ CloseJob(w, "retryable")
  /\ work' = [work EXCEPT ![w] = Idle]
  /\ UNCHANGED <<row, items, ident, entry, events, tangled, snap, feed>>

\* A claim beyond the budget fails the job; the process dies; a lease expires;
\* the operator tries again.
Exhausted(w) ==
  /\ cur[w] # NoJob /\ ~Executable(w) /\ CloseJob(w, "permanent")
  /\ UNCHANGED <<tables, feed, work>>
Crash(w) ==
  /\ Die(w) /\ work' = [work EXCEPT ![w] = Idle] /\ UNCHANGED <<tables, feed>>
Recover(j) == RecoverJob(j) /\ UNCHANGED <<tables, feed, work>>
Retry(j) == RetryJob(j) /\ UNCHANGED <<tables, feed, work>>

Next ==
  \/ \E j \in Jobs : Enqueue(j) \/ Recover(j) \/ Retry(j) \/ \E w \in Workers : Claim(w, j)
  \/ \E s \in Sources : Publish(s) \/ \E w \in Workers : Fetch(w, s)
  \/ \E w \in Workers : \/ Prepare(w) \/ Dispatch(w) \/ Classify(w) \/ Progress(w)
                         \/ Finish(w) \/ Close(w) \/ Abort(w) \/ Exhausted(w) \/ Crash(w)
                         \/ \E b \in work[w].ready, f \in BOOLEAN : Persist(w, b, f)

Spec == Init /\ [][Next]_vars

-----------------------------------------------------------------------------
(* Properties. *)

\* A source whose newest fetch counts as a success has stored what the version
\* under its validator holds, so that a later "not modified" hides nothing: the
\* validators of error pages are never kept.  Versions whose processing failed
\* are the exception the code makes: their validator is kept all the same.
FeedsStored ==
  \A s \in Sources :
    row[s].last = "success" =>
      /\ row[s].etag \in Versions(s)
      /\ \/ row[s].etag \in lost[s]
         \/ \A e \in ToSet(Feed[s][row[s].etag]) : entry[s][e] # 0

\* Every stored entry was announced to the automations exactly once, however
\* often and by however many runs it is seen.
EventsMatch ==
  \A s \in Sources, e \in Entries : events[s][e] = IF entry[s][e] = 0 THEN 0 ELSE 1

Original(i) == IF items[i].dup = 0 THEN i ELSE items[i].dup

\* Entries of one identity, of whatever source, end up at one surviving item, as
\* long as every merge meets the originals of the duplicates it meets.  A merge
\* that does not overwrites the earlier link: from then on entries that share an
\* identity may survive apart, and links may form a cycle.
SharedIsMerged ==
  ~tangled =>
    /\ \A i \in DOMAIN items : items[Original(i)].dup = 0
    /\ \A s, z \in Sources : \A e, f \in Entries :
         /\ entry[s][e] # 0 /\ entry[z][f] # 0 /\ IdsOf[e] \cap IdsOf[f] # {}
         => Original(entry[s][e]) = Original(entry[z][f])

\* Tangled or not: an item that is nobody's duplicate can be found by an identity,
\* and an identity leads to an item that an entry with it is bound to.  So no item
\* stays in the feed that parses of the same thing do not reach any more ("the
\* leftover content item stays in the feed as an untracked duplicate").
OriginalsAreFound ==
  /\ \A i \in DOMAIN items : items[i].dup = 0 => \E t \in Tokens : ident[t] = i
  /\ \A t \in Tokens : ident[t] # 0 =>
       \E s \in Sources, e \in Entries : t \in IdsOf[e] /\ entry[s][e] = ident[t]

\* The account of a run that is over adds up: every source was checked once and
\* is fetched, skipped or failed, and none is left under way.
RunAccounts ==
  \A j \in Jobs :
    LET t == runs[j].stats IN
    runs[j].status \in {"succeeded", "partial"} =>
      /\ t.checked = Cardinality(j.sources)
      /\ t.fetched + t.skipped + t.failed = t.checked
      /\ runs[j].status = "partial" <=> t.failed > 0

\* A full text that is stored is not lost to a later parse that has an excerpt of
\* it only, whichever source that comes from (an action property).
KeepsBodies == \A i \in DOMAIN items : items[i].full => items'[i].full
=============================================================================
