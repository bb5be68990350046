---------------------------- MODULE CodexGateway ----------------------------
(***************************************************************************)
(* The gateway to paired Codex agents: one-time pairing codes, the           *)
(* connections they become, rotation and revocation of credentials, and the  *)
(* fixed-window limits on requests.                                          *)
(* A credential is named by the pairing its connection comes from and by     *)
(* what it was issued for: the exchange ("first"), or the idempotency key of *)
(* a rotation, from which the code derives the credential, so that a repeat  *)
(* of the request gets the same one.  Requests lock the connection until     *)
(* they commit; a poll of a pairing does not.  Malformed credentials, audit  *)
(* rows and the text of answers are left out; one operator, one address.     *)
(* Source: backend/app/codex_gateway/service.py, backend/app/api/            *)
(* codex_gateway.py, codex_tools.py.                                         *)
(***************************************************************************)
EXTENDS Integers, Functions

CONSTANTS Pairings,   \* pairing sessions the operator may create
          Keys,       \* idempotency keys of rotations
          PairTTL, CredTTL, Window, \* how long a code, a credential, a count lasts
          PairLimit, CallLimit, \* requests in a window
          Disturbances, \* which of "cancel", "scopes", "revoke", "crash" happen
          MaxTime     \* bound: the clock

CodexGatewayAssumption ==
  /\ {PairTTL, CredTTL, Window, PairLimit, CallLimit} \subseteq Nat \ {0}
  /\ MaxTime \in Nat
  /\ {"first", "nobody"} \cap Keys = {}

VARIABLES now,      \* the clock
          pairing,  \* codex_pairing_sessions: status and expires_at
          conn,     \* codex_connections, by their pairing
          known,    \* codex_idempotency_records
          bucket,   \* codex_rate_limit_buckets
          opening,  \* when the exchange of a pairing that has yet to commit
                    \* found the code good, or None
          polls,    \* polls of a pairing that found it expired
          serving,  \* the credential of a tool call that is being served
          issued,   \* credentials ever answered to somebody (history)
          dead,     \* credentials replaced or revoked (history)
          passed    \* requests let through, by subject and time (history)

vars == <<now, pairing, conn, known, bucket, opening, polls, serving, issued,
          dead, passed>>

Times == 0..MaxTime
None == -1
Credentials == Pairings \X (Keys \cup {"first"})
\* What is counted: creations by operator and by address, exchanges by address
\* and by code, heartbeats and tool calls by credential.
Subjects == {<<"actor">>, <<"create">>, <<"exchange">>}
            \cup {<<"code", p>> : p \in Pairings}
            \cup {"heartbeat", "tool"} \X Credentials
Limit(x) == IF x[1] \in {"heartbeat", "tool"} THEN CallLimit ELSE PairLimit
NoBucket == [from |-> None, count |-> 0, seen |-> None]
NoConnection == [st |-> "none", key |-> "first", until |-> None, beat |-> None,
                 wide |-> FALSE, err |-> FALSE]

TypeOK ==
  /\ now \in Times
  /\ pairing \in [Pairings -> [st : {"none", "pending", "paired", "cancelled",
                                     "expired"},
                               until : None..(MaxTime + PairTTL)]]
  /\ conn \in [Pairings -> [st : {"none", "active", "revoked"},
                            key : Keys \cup {"first"},
                            until : None..(MaxTime + CredTTL),
                            beat : None..MaxTime, wide : BOOLEAN, err : BOOLEAN]]
  /\ known \subseteq Pairings \X Keys
  /\ \A x \in Subjects : /\ bucket[x].from \in None..MaxTime
                         /\ bucket[x].seen \in None..MaxTime
                         /\ bucket[x].count \in 0..(Limit(x) + 1)
  /\ opening \in [Pairings -> None..MaxTime] /\ polls \subseteq Pairings
  /\ serving \in [Pairings -> Keys \cup {"first", "nobody"}]
  /\ issued \subseteq Credentials /\ dead \subseteq Credentials
  /\ \A x \in Subjects, t \in Times : passed[x][t] \in Nat

Init ==
  /\ now = 0
  /\ pairing = [p \in Pairings |-> [st |-> "none", until |-> None]]
  /\ conn = [p \in Pairings |-> NoConnection]
  /\ known = {} /\ polls = {} /\ issued = {} /\ dead = {}
  /\ opening = [p \in Pairings |-> None]
  /\ bucket = [x \in Subjects |-> NoBucket]
  /\ serving = [p \in Pairings |-> "nobody"]
  /\ passed = [x \in Subjects |-> [t \in Times |-> 0]]

-----------------------------------------------------------------------------
\* consume_rate_limit

\* The upsert of the subject's bucket by a request of the instant t: a window
\* that is over starts again.  Of a count beyond the limit only that is kept.
Counted(b, x, t) ==
  IF b[x] = NoBucket \/ b[x].from <= t - Window
  THEN [from |-> t, count |-> 1, seen |-> t]
  ELSE [b[x] EXCEPT !.count = IF @ > Limit(x) THEN @ ELSE @ + 1, !.seen = t]

\* Buckets of others that nobody used for a window are deleted.
Stale(b, x, t) == {y \in Subjects \ {x} : b[y] # NoBucket /\ b[y].seen <= t - Window}
Purged(b, x, t) == [y \in Subjects |-> IF y \in Stale(b, x, t) THEN NoBucket ELSE b[y]]

Consumed(b, x, t) == Purged([b EXCEPT ![x] = Counted(b, x, t)], x, t)
Allowed(b, x, t) == Counted(b, x, t).count <= Limit(x)

\* Buckets of requests that have yet to commit; who would delete one waits.
Opening(p) == opening[p] # None
Held == {<<"exchange">> : p \in {q \in Pairings : Opening(q)}}
        \cup {<<"code", p>> : p \in {q \in Pairings : Opening(q)}}
        \cup {<<"tool", <<p, serving[p]>>>> : p \in {q \in Pairings : serving[q] # "nobody"}}

\* A request counted under one subject: it goes on or is refused, the count
\* is committed either way.
Count(x) ==
  /\ Stale(bucket, x, now) \cap Held = {}
  /\ bucket' = Consumed(bucket, x, now)
  /\ passed' = IF Allowed(bucket, x, now) THEN [passed EXCEPT ![x][now] = @ + 1]
               ELSE passed

\* One counted under two subjects, the second only if the first lets it.
Twice(x, y, t) ==
  Allowed(bucket, x, t) /\ Allowed(Consumed(bucket, x, t), y, t)
CountTwice(x, y, t) ==
  /\ bucket' = IF Allowed(bucket, x, t)
               THEN Consumed(Consumed(bucket, x, t), y, t)
               ELSE Consumed(bucket, x, t)
  /\ passed' = [passed EXCEPT
       ![x][t] = IF Allowed(bucket, x, t) THEN @ + 1 ELSE @,
       ![y][t] = IF Twice(x, y, t) THEN @ + 1 ELSE @]

-----------------------------------------------------------------------------
\* Pairing

CreatePairing(p) ==
  /\ pairing[p].st = "none"
  /\ (Stale(bucket, <<"actor">>, now) \cup Stale(bucket, <<"create">>, now))
        \cap Held = {}
  /\ CountTwice(<<"actor">>, <<"create">>, now)
  /\ pairing' = IF Twice(<<"actor">>, <<"create">>, now)
                THEN [pairing EXCEPT ![p] = [st |-> "pending",
                                             until |-> now + PairTTL]]
                ELSE pairing
  /\ UNCHANGED <<now, conn, known, opening, polls, serving, issued, dead>>

Expired(p) == pairing[p].st = "pending" /\ pairing[p].until <= now

\* get_pairing_session for a poll reads without a lock ...
Poll(p) ==
  /\ Expired(p)
  /\ polls' = polls \cup {p}
  /\ UNCHANGED <<now, pairing, conn, known, bucket, opening, serving, issued,
                 dead, passed>>

\* ... and writes "expired" when the row is free, whatever it says by then.
PollWrites(p) ==
  /\ p \in polls /\ ~ Opening(p)
  /\ pairing' = [pairing EXCEPT ![p].st = "expired"]
  /\ polls' = polls \ {p}
  /\ UNCHANGED <<now, conn, known, bucket, opening, serving, issued, dead, passed>>

\* cancel_pairing_session, with the row locked.
CancelPairing(p) ==
  /\ "cancel" \in Disturbances
  /\ pairing[p].st = "pending" /\ ~ Opening(p)
  /\ pairing' = [pairing EXCEPT ![p].st = IF Expired(p) THEN "expired"
                                          ELSE "cancelled"]
  /\ UNCHANGED <<now, conn, known, bucket, opening, polls, serving, issued,
                 dead, passed>>

\* Exchanges of one address wait for each other at its bucket.
Unopened == \A p \in Pairings : ~ Opening(p)
MayExchange(p) ==
  /\ Unopened
  /\ (Stale(bucket, <<"exchange">>, now) \cup Stale(bucket, <<"code", p>>, now))
        \cap Held = {}
GoodCode(p) ==
  /\ Twice(<<"exchange">>, <<"code", p>>, now)
  /\ pairing[p].st = "pending" /\ ~ Expired(p)

\* exchange_pairing_code of a code that is not good (any more).
RefuseExchange(p) ==
  /\ MayExchange(p) /\ pairing[p].st # "none" /\ ~ GoodCode(p)
  /\ CountTwice(<<"exchange">>, <<"code", p>>, now)
  /\ pairing' = IF Twice(<<"exchange">>, <<"code", p>>, now) /\ Expired(p)
                THEN [pairing EXCEPT ![p].st = "expired"] ELSE pairing
  /\ UNCHANGED <<now, conn, known, opening, polls, serving, issued, dead>>

\* A good code: the pairing and its counts are locked, it is found pending ...
BeginExchange(p) ==
  /\ MayExchange(p) /\ GoodCode(p)
  /\ opening' = [opening EXCEPT ![p] = now]
  /\ UNCHANGED <<now, pairing, conn, known, bucket, polls, serving, issued,
                 dead, passed>>

\* ... and becomes a connection with a credential of its own; all of it is
\* dated when the code was found good.
CommitExchange(p) ==
  /\ Opening(p)
  /\ CountTwice(<<"exchange">>, <<"code", p>>, opening[p])
  /\ pairing' = [pairing EXCEPT ![p].st = "paired"]
  /\ conn' = [conn EXCEPT ![p] = [NoConnection EXCEPT
                !.st = "active", !.until = opening[p] + CredTTL, !.wide = TRUE]]
  /\ issued' = issued \cup {<<p, "first">>}
  /\ opening' = [opening EXCEPT ![p] = None]
  /\ UNCHANGED <<now, known, polls, serving, dead>>

\* The API dies before the commit, and nothing of it stays.
LoseExchange(p) ==
  /\ "crash" \in Disturbances
  /\ Opening(p)
  /\ opening' = [opening EXCEPT ![p] = None]
  /\ UNCHANGED <<now, pairing, conn, known, bucket, polls, serving, issued,
                 dead, passed>>

-----------------------------------------------------------------------------
\* Calls of an agent

Live(p) == conn[p].st = "active" /\ conn[p].until > now
Locked(p) == serving[p] # "nobody"

\* authenticate: counted first, then found by the credential's prefix.
Authentic(kind, p, k) ==
  Allowed(bucket, <<kind, <<p, k>>>>, now) /\ conn[p].key = k /\ Live(p)

Heartbeat(p, k) ==
  /\ <<p, k>> \in issued /\ serving[p] # k
  /\ Count(<<"heartbeat", <<p, k>>>>)
  /\ conn' = IF Authentic("heartbeat", p, k) THEN [conn EXCEPT ![p].beat = now] ELSE conn
  /\ UNCHANGED <<now, pairing, known, opening, polls, serving, issued, dead>>

\* A tool call takes the connection until it has its answer; one whose scope is
\* not granted leaves an error on it.
BeginTool(p, k) ==
  /\ <<p, k>> \in issued /\ serving[p] # k
  /\ Count(<<"tool", <<p, k>>>>)
  /\ IF Authentic("tool", p, k) /\ conn[p].wide
     THEN serving' = [serving EXCEPT ![p] = k] /\ UNCHANGED conn
     ELSE /\ conn' = IF Authentic("tool", p, k)
                     THEN [conn EXCEPT ![p].err = TRUE] ELSE conn
          /\ UNCHANGED serving
  /\ UNCHANGED <<now, pairing, known, opening, polls, issued, dead>>

EndTool(p) ==
  /\ Locked(p)
  /\ serving' = [serving EXCEPT ![p] = "nobody"]
  /\ UNCHANGED <<now, pairing, conn, known, bucket, opening, polls, issued,
                 dead, passed>>

-----------------------------------------------------------------------------
\* The operator and the connection, with its row locked

UpdateScopes(p) ==
  /\ "scopes" \in Disturbances
  /\ Live(p) /\ ~ Locked(p)
  /\ \E wide \in BOOLEAN :
       conn' = [conn EXCEPT ![p].wide = wide, ![p].err = FALSE]
  /\ UNCHANGED <<now, pairing, known, bucket, opening, polls, serving, issued,
                 dead, passed>>

\* rotate: a key that was used answers its credential again if that is still
\* the connection's, and is refused otherwise.
Rotate(p, k) ==
  /\ Live(p) /\ ~ Locked(p)
  /\ IF <<p, k>> \in known
     THEN /\ issued' = IF conn[p].key = k THEN issued \cup {<<p, k>>} ELSE issued
          /\ UNCHANGED <<known, conn, dead>>
     ELSE /\ known' = known \cup {<<p, k>>}
          /\ conn' = [conn EXCEPT ![p].key = k, ![p].until = now + CredTTL,
                                  ![p].err = FALSE]
          /\ dead' = dead \cup {<<p, conn[p].key>>}
          /\ issued' = issued \cup {<<p, k>>}
  /\ UNCHANGED <<now, pairing, bucket, opening, polls, serving, passed>>

Revoke(p) ==
  /\ "revoke" \in Disturbances
  /\ conn[p].st = "active" /\ ~ Locked(p)
  /\ conn' = [conn EXCEPT ![p].st = "revoked", ![p].err = FALSE]
  /\ dead' = dead \cup {<<p, conn[p].key>>}
  /\ UNCHANGED <<now, pairing, known, bucket, opening, polls, serving, issued,
                 passed>>

Advance ==
  /\ now < MaxTime
  /\ now' = now + 1
  /\ UNCHANGED <<pairing, conn, known, bucket, opening, polls, serving, issued,
                 dead, passed>>

Next ==
  \/ \E p \in Pairings :
       \/ CreatePairing(p) \/ Poll(p) \/ PollWrites(p) \/ CancelPairing(p)
       \/ RefuseExchange(p) \/ BeginExchange(p) \/ CommitExchange(p)
       \/ LoseExchange(p) \/ UpdateScopes(p) \/ Revoke(p) \/ EndTool(p)
       \/ \E k \in Keys : Rotate(p, k)
       \/ \E k \in Keys \cup {"first"} : Heartbeat(p, k) \/ BeginTool(p, k)
  \/ Advance

Spec == Init /\ [][Next]_vars

-----------------------------------------------------------------------------
\* A pairing that was cancelled or still waits has no connection, and an
\* exchange that is about to commit is the first of its pairing, whatever a
\* cancellation, another exchange or a late poll did meanwhile.
PairedOnce ==
  \A p \in Pairings :
    /\ pairing[p].st \in {"none", "pending", "cancelled"} => conn[p].st = "none"
    /\ Opening(p) => conn[p].st = "none" /\ pairing[p].st # "cancelled"

\* A credential that was replaced or revoked never comes back, however late the
\* request of its rotation is repeated, and no call it makes is being served.
SupersededStaysOut ==
  \A p \in Pairings :
    /\ conn[p].st = "active" => <<p, conn[p].key>> \notin dead
    /\ Locked(p) => <<p, serving[p]>> \notin dead

\* Requests of a subject that got through at the times of a set.
Through(x, T) == FoldFunctionOnSet(LAMBDA a, b : a + b, 0, passed[x], T \cap Times)

\* In any interval as long as a window at most twice the limit of a subject's
\* requests gets through, and at most the limit in the window counted now, also
\* when other requests purge buckets.
LimitsHold ==
  \A x \in Subjects :
    /\ \A t \in Times : Through(x, t..(t + Window - 1)) <= 2 * Limit(x)
    /\ bucket[x] # NoBucket => Through(x, bucket[x].from..now) <= Limit(x)
=============================================================================
