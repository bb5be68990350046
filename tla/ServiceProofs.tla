---------------------------- MODULE ServiceProofs ----------------------------
(***************************************************************************)
(* Proofs about what the API and its providers answer for, for every value  *)
(* of the constants: the definition of an automation (types, the chain of   *)
(* the drafts, the schedule, activations and archives), the gateway to      *)
(* paired Codex agents, one call of the Codex command line, a research      *)
(* through OpenRouter, a provider of language models with its tests, its    *)
(* reports and the calls that use it, and the publication by hand of what   *)
(* was approved: its plans, its calendar, its history.                      *)
(***************************************************************************)
EXTENDS AutomationDefinitions, FiniteSets, FiniteSetTheorems, TLAPS

\* Constants and variables of the next three.
CONSTANTS Pairings, Keys, PairTTL, CredTTL, Window, PairLimit, CallLimit, Disturbances,
          Kind, Timeout, Elapsed, MaxBytes, MaxTokens, MaxPages, MaxChars,
          MaxActions, Limits, InPrice, OutPrice, Tokens,
          Pages, Sizes, Given, MaxTime
VARIABLES now, pairing, conn, known, bucket, opening, polls, serving, issued, dead, passed,
          pc, due, asked, struck, stopped, version, process, dir, bytes, tokens, why,
          wanted, sources, outcome, rounds, used, allowance, cited, repeated

Gateway == INSTANCE CodexGateway
Codex == INSTANCE CodexCalls
Loop == INSTANCE ResearchLoop

-----------------------------------------------------------------------------
\* The definition of an automation (AutomationDefinitions)

\* The draft is the newest version.
DraftInv == draft = Len(versions)

\* Who has seen the current revision has seen the current draft: the revision
\* counts every change of the row.  A request carries what its author had seen.
SeenInv ==
  /\ \A c \in Clients : /\ seen[c].revision <= revision
                        /\ seen[c].revision = revision => seen[c].draft = draft
  /\ \A c \in Clients : request[c] # NoRequest =>
       /\ request[c].revision <= revision
       /\ request[c].revision = revision => request[c].draft = draft

\* A schedule that is on names a version.
ScheduleInv == schedule.enabled => schedule.version # 0

IInv == TypeOK /\ DraftInv /\ ScheduleInv /\ SeenInv /\ VersionsChain

\* The operations of the API.
Served(c) ==
  Patch(c) \/ CreateVersion(c) \/ Activate(c) \/ Pause(c) \/ Resume(c) \/ Archive(c)

LEMMA Starts == Init => IInv
<1> SUFFICES ASSUME Init PROVE IInv
  OBVIOUS
<1> USE AutomationDefinitionsAssumption DEF Init
<1>1. PICK g \in Graphs : versions = <<[graph |-> g, key |-> 0, base |-> 0]>>
  OBVIOUS
<1>2. versions \in Seq(Versions) /\ Len(versions) = 1 /\ versions[1].base = 0
      /\ DOMAIN versions = {1}
  BY <1>1 DEF Versions
<1>3. TypeOK
  BY <1>2 DEF TypeOK, Numbers
<1>4. DraftInv /\ SeenInv /\ ScheduleInv
  BY <1>2 DEF DraftInv, SeenInv, ScheduleInv
<1>5. VersionsChain
  BY <1>2 DEF VersionsChain, BuildsOnSeen, OneVersionPerKey, ScheduleFollows
<1> QED
  BY <1>3, <1>4, <1>5 DEF IInv

\* What the row of an operation becomes.
LEMMA VersionTyped ==
  ASSUME TypeOK, NEW c \in Clients, request[c] # NoRequest
  PROVE  /\ request[c] \in Requests
         /\ [graph |-> request[c].graph, key |-> request[c].key,
             base |-> request[c].draft] \in Versions
         /\ request[c].key \in 1..MaxKeys
<1>1. request[c] \in Requests
  BY DEF TypeOK
<1> QED
  BY <1>1, AutomationDefinitionsAssumption DEF Requests, Versions, Numbers

LEMMA TypesKept ==
  ASSUME TypeOK, ScheduleInv, [Next]_vars
  PROVE  TypeOK'
<1> USE AutomationDefinitionsAssumption DEF TypeOK, Numbers
<1>1. ASSUME NEW c \in Clients, Patch(c) \/ Pause(c) \/ Archive(c)
      PROVE  TypeOK'
  <2>1. schedule' \in [version : 0..Len(versions), enabled : BOOLEAN]
    BY <1>1 DEF Patch, Pause, Archive
  <2>2. /\ UNCHANGED <<active, draft, activationKey, versions, work, user>>
        /\ revision' = revision + 1
        /\ lifecycle' \in {"inactive", "active", "paused", "archived"}
    BY <1>1 DEF Patch, Pause, Archive, Handles
  <2> QED
    BY <2>1, <2>2 DEF work, user
<1>2. ASSUME NEW c \in Clients, CreateVersion(c) PROVE TypeOK'
  <2>1. versions' \in Seq(Versions) /\ Len(versions') = Len(versions) + 1
    BY <1>2, VersionTyped, SMTT(20) DEF CreateVersion, Handles
  <2> QED
    BY <1>2, <2>1, SMTT(20) DEF CreateVersion, Handles, work, user
<1>3. ASSUME NEW c \in Clients, Activate(c) PROVE TypeOK'
  <2>1. schedule' \in [version : 0..Len(versions), enabled : BOOLEAN]
    BY <1>3 DEF Activate, Projected
  <2>2. activationKey' \in 0..MaxKeys
    <3>1. request[c].key \in 1..MaxKeys
      BY <1>3, VersionTyped DEF Activate, Handles
    <3> QED
      BY <1>3, <3>1 DEF Activate
  <2>3. /\ UNCHANGED <<draft, versions, work, user>>
        /\ revision' = revision + 1 /\ active' = draft /\ lifecycle' = "active"
    BY <1>3 DEF Activate, Handles
  <2> QED
    BY <2>1, <2>2, <2>3 DEF work, user
<1>4. ASSUME NEW c \in Clients, Resume(c) PROVE TypeOK'
  <2>1. schedule' \in [version : 0..Len(versions), enabled : BOOLEAN]
    <3>1. (schedule.enabled \/ (schedule.version # 0 /\ active # 0)) \in BOOLEAN
      OBVIOUS
    <3> QED
      BY <1>4, <3>1 DEF Resume
  <2> QED
    BY <1>4, <2>1, SMTT(20) DEF Resume, Handles, work, user
<1>5. ASSUME NEW c \in Clients, Load(c) \/ Answered(c) PROVE TypeOK'
  <2>1. seen' \in [Clients -> [revision : Nat, draft : 1..MaxVersions]]
    <3>1. [revision |-> revision, draft |-> draft] \in [revision : Nat, draft : 1..MaxVersions]
      OBVIOUS
    <3> QED
      BY <1>5, <3>1 DEF Load, Answered
  <2>2. request' \in [Clients -> Requests \cup {NoRequest}]
    BY <1>5 DEF Load, Answered
  <2>3. UNCHANGED <<row, work, keys>>
    BY <1>5 DEF Load, Answered
  <2> QED
    BY <2>1, <2>2, <2>3 DEF row, work
<1>6. ASSUME NEW c \in Clients, NEW op \in Operations, NEW g \in Graphs, Ask(c, op, g)
      PROVE  TypeOK'
  <2>1. [op |-> op, key |-> keys + 1, graph |-> g, revision |-> seen[c].revision,
         draft |-> seen[c].draft] \in Requests
    BY <1>6 DEF Ask, Requests
  <2> QED
    BY <1>6, <2>1 DEF Ask, row, work
<1>7. ASSUME ScheduleDue PROVE TypeOK'
  <2>1. schedule.version \in Numbers
    BY <1>7 DEF ScheduleDue, ScheduleInv
  <2> QED
    BY <1>7, <2>1 DEF ScheduleDue, row, user
<1>8. ASSUME NEW n \in Numbers, HandleTick(n) \/ StartRun(n) \/ RunOver(n) PROVE TypeOK'
  <2>1. UNCHANGED <<row, user>> /\ ticks' \subseteq Numbers /\ runs' \subseteq Numbers
    BY <1>8 DEF HandleTick, StartRun, RunOver
  <2> QED
    BY <2>1 DEF row, user
<1>9. CASE UNCHANGED vars
  BY <1>9 DEF vars, row, work, user
<1> QED
  BY <1>1, <1>2, <1>3, <1>4, <1>5, <1>6, <1>7, <1>8, <1>9 DEF Next

LEMMA DraftKept ==
  ASSUME TypeOK, DraftInv, [Next]_vars
  PROVE  DraftInv'
<1> USE DEF DraftInv, TypeOK
<1>1. ASSUME NEW c \in Clients, CreateVersion(c) PROVE DraftInv'
  BY <1>1 DEF CreateVersion
<1>2. ASSUME NEW c \in Clients, Patch(c) \/ Activate(c) \/ Pause(c) \/ Resume(c) \/ Archive(c)
      PROVE  UNCHANGED <<draft, versions>>
  BY <1>2 DEF Patch, Activate, Pause, Resume, Archive
<1>3. ASSUME UNCHANGED row PROVE UNCHANGED <<draft, versions>>
  BY <1>3 DEF row
<1> QED
  BY <1>1, <1>2, <1>3 DEF Next, vars, Load, Answered, Ask, ScheduleDue, HandleTick,
     StartRun, RunOver

LEMMA ScheduleKept ==
  ASSUME TypeOK, ScheduleInv, [Next]_vars
  PROVE  ScheduleInv'
<1> USE DEF ScheduleInv, TypeOK
<1>1. ASSUME NEW c \in Clients, Served(c) PROVE ScheduleInv'
  <2>1. \/ schedule' = schedule \/ ~schedule'.enabled
        \/ schedule' = [version |-> draft, enabled |-> TRUE]
        \/ /\ schedule'.version = schedule.version
           /\ schedule'.enabled => schedule.enabled \/ schedule.version # 0
    BY <1>1 DEF Served, Patch, CreateVersion, Activate, Projected, Pause, Resume, Archive
  <2> QED
    BY <2>1
<1>2. ASSUME UNCHANGED row PROVE ScheduleInv'
  BY <1>2 DEF row
<1> QED
  BY <1>1, <1>2 DEF Next, Served, vars, Load, Answered, Ask, ScheduleDue, HandleTick,
     StartRun, RunOver

LEMMA SeenKept ==
  ASSUME TypeOK, SeenInv, [Next]_vars
  PROVE  SeenInv'
<1> USE AutomationDefinitionsAssumption DEF TypeOK, SeenInv
<1>1. ASSUME NEW c \in Clients, Served(c) PROVE SeenInv'
  <2>1. revision' = revision + 1 /\ UNCHANGED <<seen, request>>
    BY <1>1 DEF Served, Patch, CreateVersion, Activate, Pause, Resume, Archive, Handles, user
  <2>2. \A d \in Clients : request[d] # NoRequest => request[d].revision \in Nat
    BY VersionTyped DEF Requests
  <2> QED
    BY <2>1, <2>2
<1>2. ASSUME NEW c \in Clients, Load(c) \/ Answered(c) PROVE SeenInv'
  <2>1. revision' = revision /\ draft' = draft
    BY <1>2 DEF Load, Answered, row
  <2>2. \A d \in Clients : \/ seen'[d] = seen[d]
                           \/ seen'[d] = [revision |-> revision, draft |-> draft]
    BY <1>2 DEF Load, Answered
  <2>3. \A d \in Clients : request'[d] \in {request[d], NoRequest}
    BY <1>2 DEF Load, Answered
  <2>4. ASSUME NEW d \in Clients
        PROVE  /\ seen'[d].revision <= revision'
               /\ seen'[d].revision = revision' => seen'[d].draft = draft'
    <3>1. CASE seen'[d] = seen[d]
      BY <2>1, <3>1
    <3>2. CASE seen'[d] = [revision |-> revision, draft |-> draft]
      BY <2>1, <3>2
    <3> QED
      BY <2>2, <3>1, <3>2
  <2>5. ASSUME NEW d \in Clients, request'[d] # NoRequest
        PROVE  /\ request'[d].revision <= revision'
               /\ request'[d].revision = revision' => request'[d].draft = draft'
    BY <2>1, <2>3, <2>5
  <2> QED
    BY <2>4, <2>5
<1>3. ASSUME NEW c \in Clients, NEW op \in Operations, NEW g \in Graphs, Ask(c, op, g)
      PROVE  SeenInv'
  BY <1>3 DEF Ask, row
<1>4. ASSUME \/ ScheduleDue \/ UNCHANGED vars
             \/ \E n \in Numbers : HandleTick(n) \/ StartRun(n) \/ RunOver(n)
      PROVE  SeenInv'
  BY <1>4 DEF ScheduleDue, HandleTick, StartRun, RunOver, vars, row, user
<1> QED
  BY <1>1, <1>2, <1>3, <1>4 DEF Next, Served

LEMMA ChainKept ==
  ASSUME IInv, [Next]_vars
  PROVE  VersionsChain'
<1> USE DEF IInv, TypeOK, VersionsChain, BuildsOnSeen, OneVersionPerKey, ScheduleFollows
<1>1. ASSUME NEW c \in Clients, CreateVersion(c) PROVE VersionsChain'
  <2>1. request[c].draft = Len(versions)
    BY <1>1 DEF CreateVersion, Handles, CheckRevision, SeenInv, DraftInv
  <2>2. /\ DOMAIN versions' = 1..(Len(versions) + 1)
        /\ DOMAIN versions = 1..Len(versions)
        /\ \A n \in DOMAIN versions : versions'[n] = versions[n]
        /\ versions'[Len(versions) + 1].base = Len(versions)
        /\ versions'[Len(versions) + 1].key = request[c].key
    BY <1>1, <2>1, VersionTyped DEF CreateVersion, Handles
  <2>3. \A n \in DOMAIN versions : versions[n].key # request[c].key
    BY <1>1 DEF CreateVersion, Replayed
  <2>4. UNCHANGED <<schedule, lifecycle>>
    BY <1>1 DEF CreateVersion
  <2>5. \A n \in DOMAIN versions' : n \in DOMAIN versions \/ n = Len(versions) + 1
    <3>1. Len(versions) \in Nat
      OBVIOUS
    <3> HIDE DEF TypeOK, IInv
    <3> QED
      BY <3>1, <2>2
  <2>6. BuildsOnSeen'
    BY <2>2, <2>5, SMTT(20)
  <2>7. OneVersionPerKey'
    BY <2>2, <2>3, <2>5
  <2> QED
    BY <2>4, <2>6, <2>7
<1>2. ASSUME NEW c \in Clients, Patch(c) \/ Activate(c) \/ Pause(c) \/ Resume(c) \/ Archive(c)
      PROVE  VersionsChain'
  <2>1. versions' = versions
    BY <1>2 DEF Patch, Activate, Pause, Resume, Archive
  <2>2. schedule'.enabled => lifecycle' = "active"
    BY <1>2 DEF Patch, Activate, Pause, Resume, Archive, Projected
  <2> QED
    BY <2>1, <2>2
<1>3. ASSUME UNCHANGED row PROVE VersionsChain'
  BY <1>3 DEF row
<1> QED
  BY <1>1, <1>2, <1>3 DEF Next, vars, Load, Answered, Ask, ScheduleDue, HandleTick,
     StartRun, RunOver

LEMMA Inductive == IInv /\ [Next]_vars => IInv'
BY TypesKept, DraftKept, ScheduleKept, SeenKept, ChainKept DEF IInv

LEMMA Invariant == Spec => []IInv
BY Starts, Inductive, PTL DEF Spec

\* The variables keep their types for every set of clients and graphs.
THEOREM TypeCorrect == Spec => []TypeOK
<1>1. IInv => TypeOK
  BY DEF IInv
<1> QED
  BY <1>1, Invariant, PTL

\* No version overwrites one its author has not seen, a key makes one version,
\* and the schedule is on only while the automation is active, however many
\* clients edit and however late or often their requests come.
THEOREM VersionsFollow == Spec => []VersionsChain
<1>1. IInv => VersionsChain
  BY DEF IInv
<1> QED
  BY <1>1, Invariant, PTL

\* What an activation puts into service is the draft its author has seen.
THEOREM ActivationIsOfSeen == Spec => [][ActivatesSeen]_vars
<1>1. IInv /\ [Next]_vars => [ActivatesSeen]_vars
  <2> SUFFICES ASSUME IInv, [Next]_vars, active' # active
               PROVE  ActivatesSeen
    BY DEF ActivatesSeen
  <2>1. PICK c \in Clients : Activate(c)
    BY DEF Next, vars, row, Load, Answered, Ask, Patch, CreateVersion, Pause, Resume,
       Archive, ScheduleDue, HandleTick, StartRun, RunOver
  <2>2. /\ request[c] # NoRequest /\ request[c].op = "activate"
        /\ request[c].revision = revision /\ active' = draft
    BY <2>1 DEF Activate, Handles, CheckRevision
  <2> QED
    BY <2>2 DEF IInv, SeenInv, ActivatesSeen
<1> QED
  BY <1>1, Invariant, PTL DEF Spec

\* What is archived stays archived.
THEOREM ArchiveIsFinal == Spec => [][KeepsArchived]_vars
<1>1. [Next]_vars => [KeepsArchived]_vars
  BY DEF KeepsArchived, Kept, Next, vars, row, Load, Answered, Ask, Patch, CreateVersion,
     Activate, Pause, Resume, Archive, ScheduleDue, HandleTick, StartRun, RunOver
<1> QED
  BY <1>1, PTL DEF Spec

-----------------------------------------------------------------------------
\* The gateway to paired Codex agents (CodexGateway)

Connection == [st : {"none", "active", "revoked"}, key : Keys \cup {"first"},
               until : Gateway!None..(MaxTime + CredTTL), beat : Gateway!None..MaxTime,
               wide : BOOLEAN, err : BOOLEAN]

\* The rows of pairings and connections, and what is remembered of credentials.
RowsOK ==
  /\ now \in 0..MaxTime
  /\ pairing \in [Pairings -> [st : {"none", "pending", "paired", "cancelled", "expired"},
                               until : Gateway!None..(MaxTime + PairTTL)]]
  /\ conn \in [Pairings -> Connection]
  /\ opening \in [Pairings -> Gateway!None..MaxTime] /\ polls \subseteq Pairings
  /\ serving \in [Pairings -> Keys \cup {"first", "nobody"}]
  /\ known \subseteq Pairings \X Keys
  /\ issued \subseteq Gateway!Credentials /\ dead \subseteq Gateway!Credentials

\* An exchange holds the row of a pairing that waits.
OpenIsPending == \A p \in Pairings : Gateway!Opening(p) => pairing[p].st = "pending"

\* A connection in the making has no past; a credential in use is known by the
\* key it was asked with, as those are that it replaced; who is served uses it.
Lineage(p) ==
  /\ conn[p].st = "none" =>
       ~ Gateway!Locked(p) /\ \A k \in Keys \cup {"first"} : <<p, k>> \notin dead \cup known
  /\ conn[p].st = "active" => <<p, conn[p].key>> \notin dead
  /\ \A k \in Keys : <<p, k>> \in dead => <<p, k>> \in known
  /\ conn[p].key \in Keys => <<p, conn[p].key>> \in known
  /\ Gateway!Locked(p) => conn[p].st = "active" /\ serving[p] = conn[p].key

GatewayInv ==
  RowsOK /\ OpenIsPending /\ Gateway!PairedOnce /\ \A p \in Pairings : Lineage(p)

LEMMA GatewayConstants ==
  ASSUME Gateway!CodexGatewayAssumption
  PROVE  /\ PairTTL \in Nat /\ CredTTL \in Nat /\ MaxTime \in Nat /\ Gateway!None = -1
         /\ "first" \notin Keys /\ "nobody" \notin Keys
BY DEF Gateway!CodexGatewayAssumption, Gateway!None

\* A step that gives a connection a row of its kind keeps the rows in order.
LEMMA ConnectionStep ==
  ASSUME NEW p \in Pairings, conn \in [Pairings -> Connection], NEW r \in Connection,
         conn' = [conn EXCEPT ![p] = r]
  PROVE  /\ conn' \in [Pairings -> Connection] /\ conn'[p] = r
         /\ \A q \in Pairings \ {p} : conn'[q] = conn[q]
OBVIOUS

\* What the rows of connections hold.
LEMMA ConnectionHolds ==
  ASSUME NEW p \in Pairings, RowsOK
  PROVE  conn[p] \in Connection /\ conn[p].key \in Keys \cup {"first"}
BY DEF RowsOK, Connection

LEMMA GatewayStarts ==
  ASSUME Gateway!CodexGatewayAssumption, Gateway!Init
  PROVE  GatewayInv
<1> USE GatewayConstants DEF Gateway!Init, Gateway!NoConnection
<1>1. RowsOK
  BY DEF RowsOK, Connection, Gateway!Credentials
<1>2. OpenIsPending /\ Gateway!PairedOnce
  BY DEF OpenIsPending, Gateway!PairedOnce, Gateway!Opening
<1>3. \A p \in Pairings : Lineage(p)
  BY DEF Lineage, Gateway!Locked
<1> QED
  BY <1>1, <1>2, <1>3 DEF GatewayInv

\* Rows of a pairing, and of its connection, that a step leaves alone.
LEMMA LineageStays ==
  ASSUME NEW p \in Pairings, Lineage(p),
         conn'[p].st = conn[p].st, conn'[p].key = conn[p].key, serving'[p] = serving[p],
         conn[p].key \in Keys \cup {"first"},
         \A k \in Keys \cup {"first"} : (<<p, k>> \in known') = (<<p, k>> \in known),
         \A k \in Keys \cup {"first"} : (<<p, k>> \in dead') = (<<p, k>> \in dead)
  PROVE  Lineage(p)'
<1> USE DEF Lineage, Gateway!Locked
<1>1. Gateway!Locked(p)' <=> Gateway!Locked(p)
  OBVIOUS
<1>2. conn'[p].st = "none" =>
       ~ Gateway!Locked(p)' /\ \A k \in Keys \cup {"first"} : <<p, k>> \notin dead' \cup known'
  BY <1>1
<1>3. conn'[p].st = "active" => <<p, conn'[p].key>> \notin dead'
  OBVIOUS
<1>4. \A k \in Keys : <<p, k>> \in dead' => <<p, k>> \in known'
  OBVIOUS
<1>5. conn'[p].key \in Keys => <<p, conn'[p].key>> \in known'
  OBVIOUS
<1>6. Gateway!Locked(p)' => conn'[p].st = "active" /\ serving'[p] = conn'[p].key
  OBVIOUS
<1> QED
  BY <1>2, <1>3, <1>4, <1>5, <1>6

\* Pairings are created, polled, cancelled and refused: no connection changes.
LEMMA PairingsMove ==
  ASSUME Gateway!CodexGatewayAssumption, GatewayInv, NEW p \in Pairings,
         \/ Gateway!CreatePairing(p) \/ Gateway!Poll(p) \/ Gateway!PollWrites(p)
         \/ Gateway!CancelPairing(p) \/ Gateway!RefuseExchange(p)
         \/ Gateway!BeginExchange(p) \/ Gateway!LoseExchange(p)
  PROVE  GatewayInv'
<1> USE GatewayConstants
<1>1. UNCHANGED <<now, conn, known, serving, issued, dead>>
  BY DEF Gateway!CreatePairing, Gateway!Poll, Gateway!PollWrites, Gateway!CancelPairing,
         Gateway!RefuseExchange, Gateway!BeginExchange, Gateway!LoseExchange
<1>2. \A q \in Pairings : Lineage(q)'
  BY <1>1, LineageStays, ConnectionHolds DEF GatewayInv
<1>3. /\ opening' \in [Pairings -> Gateway!None..MaxTime] /\ polls' \subseteq Pairings
      /\ \A q \in Pairings \ {p} : pairing'[q] = pairing[q] /\ opening'[q] = opening[q]
      /\ pairing' \in [Pairings -> [st : {"none", "pending", "paired", "cancelled", "expired"},
                                     until : Gateway!None..(MaxTime + PairTTL)]]
      /\ \/ pairing'[p] = pairing[p] /\ opening'[p] = Gateway!None
         \/ pairing'[p] = pairing[p] /\ opening'[p] = opening[p]
         \/ pairing'[p] = pairing[p] /\ pairing[p].st = "pending"
         \/ opening'[p] = opening[p] /\ ~ Gateway!Opening(p)
            /\ \/ pairing'[p].st = "expired"
               \/ pairing[p].st \in {"none", "pending"} /\ pairing'[p].st \in {"pending", "cancelled"}
  <2> USE DEF GatewayInv, RowsOK
  <2>1. CASE Gateway!CreatePairing(p)
    <3>1. ~ Gateway!Opening(p) /\ pairing[p].st = "none"
      BY <2>1 DEF Gateway!CreatePairing, OpenIsPending
    <3>2. \/ pairing' = pairing
          \/ pairing' = [pairing EXCEPT ![p] = [st |-> "pending", until |-> now + PairTTL]]
      BY <2>1 DEF Gateway!CreatePairing
    <3>3. now + PairTTL \in Gateway!None..(MaxTime + PairTTL) /\ UNCHANGED <<opening, polls>>
      BY <2>1 DEF Gateway!CreatePairing
    <3> QED
      BY <3>1, <3>2, <3>3
  <2>2. CASE Gateway!Poll(p)
    BY <2>2 DEF Gateway!Poll
  <2>3. CASE Gateway!PollWrites(p)
    BY <2>3 DEF Gateway!PollWrites
  <2>4. CASE Gateway!CancelPairing(p)
    <3>1. \E s \in {"expired", "cancelled"} : pairing' = [pairing EXCEPT ![p].st = s]
      BY <2>4 DEF Gateway!CancelPairing
    <3>2. pairing[p].st = "pending" /\ ~ Gateway!Opening(p) /\ UNCHANGED <<opening, polls>>
      BY <2>4 DEF Gateway!CancelPairing
    <3> QED
      BY <3>1, <3>2
  <2>5. CASE Gateway!RefuseExchange(p)
    <3>1. pairing' = pairing \/ pairing' = [pairing EXCEPT ![p].st = "expired"]
      BY <2>5 DEF Gateway!RefuseExchange
    <3>2. ~ Gateway!Opening(p) /\ UNCHANGED <<opening, polls>>
      BY <2>5 DEF Gateway!RefuseExchange, Gateway!MayExchange, Gateway!Unopened
    <3> QED
      BY <3>1, <3>2
  <2>6. CASE Gateway!BeginExchange(p)
    BY <2>6 DEF Gateway!BeginExchange, Gateway!GoodCode
  <2>7. CASE Gateway!LoseExchange(p)
    BY <2>7 DEF Gateway!LoseExchange
  <2> QED
    BY <2>1, <2>2, <2>3, <2>4, <2>5, <2>6, <2>7
<1>4. RowsOK'
  BY <1>1, <1>3 DEF GatewayInv, RowsOK
<1>5. OpenIsPending'
  BY <1>3 DEF GatewayInv, OpenIsPending, Gateway!Opening
<1>6. Gateway!PairedOnce'
  BY <1>1, <1>3, <1>5 DEF GatewayInv, OpenIsPending, Gateway!PairedOnce, Gateway!Opening
<1> QED
  BY <1>2, <1>4, <1>5, <1>6 DEF GatewayInv

\* A good code becomes a connection.
LEMMA ExchangeCommits ==
  ASSUME Gateway!CodexGatewayAssumption, GatewayInv, NEW p \in Pairings,
         Gateway!CommitExchange(p)
  PROVE  GatewayInv'
<1> DEFINE made == [Gateway!NoConnection EXCEPT
                      !.st = "active", !.until = opening[p] + CredTTL, !.wide = TRUE]
<1> USE GatewayConstants
<1>1. /\ pairing' = [pairing EXCEPT ![p].st = "paired"]
      /\ conn' = [conn EXCEPT ![p] = made]
      /\ issued' = issued \cup {<<p, "first">>}
      /\ opening' = [opening EXCEPT ![p] = Gateway!None]
      /\ UNCHANGED <<now, known, polls, serving, dead>>
  BY DEF Gateway!CommitExchange
<1>2. opening[p] \in 0..MaxTime /\ pairing[p].st = "pending" /\ conn[p].st = "none"
  BY DEF Gateway!CommitExchange, Gateway!Opening, GatewayInv, RowsOK, OpenIsPending,
         Gateway!PairedOnce
<1>3. made \in Connection /\ made.st = "active" /\ made.key = "first"
  <2>1. opening[p] + CredTTL \in Gateway!None..(MaxTime + CredTTL)
    BY <1>2
  <2>2. Gateway!NoConnection \in Connection /\ Gateway!NoConnection.key = "first"
    BY DEF Connection, Gateway!NoConnection
  <2> QED
    BY <2>1, <2>2 DEF Connection
<1>4. conn \in [Pairings -> Connection]
  BY DEF GatewayInv, RowsOK
<1> HIDE DEF made
<1>5. /\ conn' \in [Pairings -> Connection] /\ conn'[p] = made
      /\ \A q \in Pairings \ {p} : conn'[q] = conn[q]
  BY <1>1, <1>3, <1>4, ConnectionStep
<1>6. RowsOK'
  BY <1>1, <1>5 DEF GatewayInv, RowsOK, Gateway!Credentials
<1>7. OpenIsPending' /\ Gateway!PairedOnce'
  BY <1>1, <1>5 DEF GatewayInv, RowsOK, OpenIsPending, Gateway!PairedOnce, Gateway!Opening
<1>8. Lineage(p)'
  <2>1. ~ Gateway!Locked(p)' /\ \A k \in Keys \cup {"first"} : <<p, k>> \notin dead' \cup known'
    BY <1>1, <1>2 DEF GatewayInv, Lineage, Gateway!Locked
  <2> QED
    BY <2>1, <1>3, <1>5 DEF Lineage, Gateway!Locked
<1>9. ASSUME NEW q \in Pairings \ {p} PROVE Lineage(q)'
  BY <1>1, <1>5, LineageStays, ConnectionHolds DEF GatewayInv
<1> QED
  BY <1>6, <1>7, <1>8, <1>9 DEF GatewayInv

\* An agent calls.
LEMMA AgentsCall ==
  ASSUME Gateway!CodexGatewayAssumption, GatewayInv, NEW p \in Pairings,
         \/ Gateway!EndTool(p)
         \/ \E k \in Keys \cup {"first"} : Gateway!Heartbeat(p, k) \/ Gateway!BeginTool(p, k)
  PROVE  GatewayInv'
<1> USE GatewayConstants
<1>1. UNCHANGED <<now, pairing, known, opening, polls, issued, dead>>
  BY DEF Gateway!EndTool, Gateway!Heartbeat, Gateway!BeginTool
<1>2. \/ conn' = conn
      \/ conn' = [conn EXCEPT ![p].beat = now]
      \/ conn' = [conn EXCEPT ![p].err = TRUE]
  BY DEF Gateway!EndTool, Gateway!Heartbeat, Gateway!BeginTool
<1>3. \/ serving' = serving
      \/ serving' = [serving EXCEPT ![p] = "nobody"]
      \/ /\ conn[p].st = "active"
         /\ serving' = [serving EXCEPT ![p] = conn[p].key]
  <2>1. CASE Gateway!EndTool(p)
    BY <2>1 DEF Gateway!EndTool
  <2>2. ASSUME NEW k \in Keys \cup {"first"}, Gateway!Heartbeat(p, k) PROVE serving' = serving
    BY <2>2 DEF Gateway!Heartbeat
  <2>3. ASSUME NEW k \in Keys \cup {"first"}, Gateway!BeginTool(p, k)
        PROVE  \/ serving' = serving
               \/ /\ conn[p].st = "active"
                  /\ serving' = [serving EXCEPT ![p] = conn[p].key]
    <3>1. CASE Gateway!Authentic("tool", p, k) /\ conn[p].wide
      <4>1. serving' = [serving EXCEPT ![p] = k]
        BY <2>3, <3>1 DEF Gateway!BeginTool
      <4>2. conn[p].st = "active" /\ k = conn[p].key
        BY <3>1 DEF Gateway!Authentic, Gateway!Live
      <4> QED
        BY <4>1, <4>2
    <3>2. CASE ~ (Gateway!Authentic("tool", p, k) /\ conn[p].wide)
      BY <2>3, <3>2 DEF Gateway!BeginTool
    <3> QED
      BY <3>1, <3>2
  <2> QED
    BY <2>1, <2>2, <2>3
<1>4. conn' \in [Pairings -> Connection]
      /\ \A q \in Pairings : conn'[q].st = conn[q].st /\ conn'[q].key = conn[q].key
  <2>1. conn \in [Pairings -> Connection] /\ now \in Gateway!None..MaxTime
    BY DEF GatewayInv, RowsOK
  <2>2. CASE conn' = [conn EXCEPT ![p].beat = now]
    <3>1. [conn[p] EXCEPT !.beat = now] \in Connection
      BY <2>1 DEF Connection
    <3> QED
      BY <2>1, <2>2, <3>1 DEF Connection
  <2>3. CASE conn' = [conn EXCEPT ![p].err = TRUE]
    <3>1. [conn[p] EXCEPT !.err = TRUE] \in Connection
      BY <2>1 DEF Connection
    <3> QED
      BY <2>1, <2>3, <3>1 DEF Connection
  <2> QED
    BY <1>2, <2>1, <2>2, <2>3
<1>5. serving' \in [Pairings -> Keys \cup {"first", "nobody"}]
  <2>1. serving \in [Pairings -> Keys \cup {"first", "nobody"}]
    BY DEF GatewayInv, RowsOK
  <2>2. conn[p].key \in Keys \cup {"first", "nobody"}
    BY ConnectionHolds DEF GatewayInv
  <2> QED
    BY <1>3, <2>1, <2>2
<1>6. ASSUME NEW q \in Pairings
      PROVE  \/ serving'[q] \in {serving[q], "nobody"}
             \/ conn[q].st = "active" /\ serving'[q] = conn[q].key
  <2>1. serving \in [Pairings -> Keys \cup {"first", "nobody"}]
    BY DEF GatewayInv, RowsOK
  <2> QED
    BY <1>3, <2>1
<1>7. RowsOK'
  BY <1>1, <1>4, <1>5 DEF GatewayInv, RowsOK, Gateway!Credentials
<1>8. OpenIsPending' /\ Gateway!PairedOnce'
  BY <1>1, <1>4 DEF GatewayInv, OpenIsPending, Gateway!PairedOnce, Gateway!Opening
<1>9. ASSUME NEW q \in Pairings PROVE Lineage(q)'
  <2>1. Lineage(q) /\ conn[q].key \in Keys \cup {"first"}
    BY ConnectionHolds DEF GatewayInv
  <2>2. CASE serving'[q] = serving[q]
    BY <1>1, <1>4, <2>1, <2>2, LineageStays
  <2>3. CASE serving'[q] # serving[q]
    BY <1>1, <1>4, <1>6, <2>1, <2>3 DEF Lineage, Gateway!Locked
  <2> QED
    BY <2>2, <2>3
<1> QED
  BY <1>7, <1>8, <1>9 DEF GatewayInv

\* The operator changes what a connection may do, or ends it.
LEMMA ConnectionsChange ==
  ASSUME Gateway!CodexGatewayAssumption, GatewayInv, NEW p \in Pairings,
         Gateway!UpdateScopes(p) \/ Gateway!Revoke(p)
  PROVE  GatewayInv'
<1> USE GatewayConstants
<1>1. /\ UNCHANGED <<now, pairing, known, opening, polls, serving, issued>>
      /\ conn[p].st = "active" /\ ~ Gateway!Locked(p)
  BY DEF Gateway!UpdateScopes, Gateway!Revoke, Gateway!Live
<1>2. conn \in [Pairings -> Connection]
  BY DEF GatewayInv, RowsOK
<1>3. CASE Gateway!UpdateScopes(p)
  <2>1. dead' = dead
        /\ \E wide \in BOOLEAN : conn' = [conn EXCEPT ![p].wide = wide, ![p].err = FALSE]
    BY <1>3 DEF Gateway!UpdateScopes
  <2>2. conn' \in [Pairings -> Connection]
        /\ \A q \in Pairings : conn'[q].st = conn[q].st /\ conn'[q].key = conn[q].key
    <3>1. PICK wide \in BOOLEAN : conn' = [conn EXCEPT ![p].wide = wide, ![p].err = FALSE]
      BY <2>1
    <3>2. [conn[p] EXCEPT !.wide = wide, !.err = FALSE] \in Connection
      BY <1>2 DEF Connection
    <3>3. conn' = [conn EXCEPT ![p] = [conn[p] EXCEPT !.wide = wide, !.err = FALSE]]
      BY <1>2, <3>1
    <3> QED
      BY <1>2, <3>2, <3>3 DEF Connection
  <2>3. RowsOK'
    BY <1>1, <2>1, <2>2 DEF GatewayInv, RowsOK, Gateway!Credentials
  <2>4. OpenIsPending' /\ Gateway!PairedOnce'
    BY <1>1, <2>2 DEF GatewayInv, OpenIsPending, Gateway!PairedOnce, Gateway!Opening
  <2>5. \A q \in Pairings : Lineage(q)'
    BY <1>1, <2>1, <2>2, LineageStays, ConnectionHolds DEF GatewayInv
  <2> QED
    BY <2>3, <2>4, <2>5 DEF GatewayInv
<1>4. CASE Gateway!Revoke(p)
  <2>1. /\ conn' = [conn EXCEPT ![p].st = "revoked", ![p].err = FALSE]
        /\ dead' = dead \cup {<<p, conn[p].key>>}
    BY <1>4 DEF Gateway!Revoke
  <2>2. /\ conn' \in [Pairings -> Connection]
        /\ conn'[p].st = "revoked" /\ conn'[p].key = conn[p].key
        /\ \A q \in Pairings \ {p} : conn'[q] = conn[q]
    <3>1. [conn[p] EXCEPT !.st = "revoked", !.err = FALSE] \in Connection
      BY <1>2 DEF Connection
    <3>2. conn' = [conn EXCEPT ![p] = [conn[p] EXCEPT !.st = "revoked", !.err = FALSE]]
      BY <1>2, <2>1
    <3> QED
      BY <1>2, <3>1, <3>2 DEF Connection
  <2>3. conn[p].key \in Keys \cup {"first"} /\ Lineage(p)
    BY ConnectionHolds DEF GatewayInv
  <2>4. RowsOK'
    BY <1>1, <2>1, <2>2, <2>3 DEF GatewayInv, RowsOK, Gateway!Credentials
  <2>5. OpenIsPending' /\ Gateway!PairedOnce'
    BY <1>1, <2>2 DEF GatewayInv, OpenIsPending, Gateway!PairedOnce, Gateway!Opening
  <2>6. Lineage(p)'
    BY <1>1, <2>1, <2>2, <2>3 DEF Lineage, Gateway!Locked
  <2>7. ASSUME NEW q \in Pairings \ {p} PROVE Lineage(q)'
    BY <1>1, <2>1, <2>2, LineageStays, ConnectionHolds DEF GatewayInv
  <2> QED
    BY <2>4, <2>5, <2>6, <2>7 DEF GatewayInv
<1> QED
  BY <1>3, <1>4

\* A credential is replaced under a key, or its key asked for again.
LEMMA CredentialsRotate ==
  ASSUME Gateway!CodexGatewayAssumption, GatewayInv, NEW p \in Pairings, NEW k \in Keys,
         Gateway!Rotate(p, k)
  PROVE  GatewayInv'
<1> USE GatewayConstants
<1>1. /\ UNCHANGED <<now, pairing, opening, polls, serving>>
      /\ conn[p].st = "active" /\ ~ Gateway!Locked(p)
  BY DEF Gateway!Rotate, Gateway!Live
<1>2. CASE <<p, k>> \in known
  <2>1. UNCHANGED <<known, conn, dead>> /\ issued' \subseteq issued \cup {<<p, k>>}
    BY <1>2 DEF Gateway!Rotate
  <2>2. RowsOK'
    BY <1>1, <2>1 DEF GatewayInv, RowsOK, Gateway!Credentials
  <2>3. OpenIsPending' /\ Gateway!PairedOnce'
    BY <1>1, <2>1 DEF GatewayInv, OpenIsPending, Gateway!PairedOnce, Gateway!Opening
  <2>4. \A q \in Pairings : Lineage(q)'
    BY <1>1, <2>1, LineageStays, ConnectionHolds DEF GatewayInv
  <2> QED
    BY <2>2, <2>3, <2>4 DEF GatewayInv
<1>3. CASE <<p, k>> \notin known
  <2>1. /\ known' = known \cup {<<p, k>>}
        /\ conn' = [conn EXCEPT ![p].key = k, ![p].until = now + CredTTL, ![p].err = FALSE]
        /\ dead' = dead \cup {<<p, conn[p].key>>}
        /\ issued' = issued \cup {<<p, k>>}
    BY <1>3 DEF Gateway!Rotate
  <2>2. now \in 0..MaxTime /\ conn \in [Pairings -> Connection]
    BY DEF GatewayInv, RowsOK
  <2>3. now + CredTTL \in Gateway!None..(MaxTime + CredTTL)
    BY <2>2
  <2>4. /\ conn' \in [Pairings -> Connection]
        /\ conn'[p].key = k /\ conn'[p].st = conn[p].st
        /\ \A q \in Pairings \ {p} : conn'[q] = conn[q]
    <3> DEFINE next == [conn[p] EXCEPT !.key = k, !.until = now + CredTTL, !.err = FALSE]
    <3>1. next \in Connection
      BY <2>2, <2>3 DEF Connection
    <3>2. conn' = [conn EXCEPT ![p] = next]
      BY <2>1, <2>2
    <3> QED
      BY <2>2, <3>1, <3>2 DEF Connection
  <2>5. conn[p].key \in Keys \cup {"first"} /\ Lineage(p)
    BY ConnectionHolds DEF GatewayInv
  <2>6. RowsOK'
    BY <1>1, <2>1, <2>4, <2>5 DEF GatewayInv, RowsOK, Gateway!Credentials
  <2>7. OpenIsPending' /\ Gateway!PairedOnce'
    BY <1>1, <2>4 DEF GatewayInv, OpenIsPending, Gateway!PairedOnce, Gateway!Opening
  <2>8. Lineage(p)'
    <3>1. <<p, k>> \notin dead /\ conn[p].key # k
      BY <1>3, <2>5 DEF Lineage
    <3>2. <<p, k>> \notin dead'
      BY <2>1, <3>1
    <3>3. \A l \in Keys : <<p, l>> \in dead' => <<p, l>> \in known'
      BY <2>1, <2>5 DEF Lineage
    <3> QED
      BY <1>1, <2>1, <2>4, <3>2, <3>3 DEF Lineage, Gateway!Locked
  <2>9. ASSUME NEW q \in Pairings \ {p} PROVE Lineage(q)'
    BY <1>1, <2>1, <2>4, LineageStays, ConnectionHolds DEF GatewayInv
  <2> QED
    BY <2>6, <2>7, <2>8, <2>9 DEF GatewayInv
<1> QED
  BY <1>2, <1>3

LEMMA GatewayKeepsInv ==
  ASSUME Gateway!CodexGatewayAssumption PROVE Gateway!Spec => []GatewayInv
<1>1. Gateway!Init => GatewayInv
  BY GatewayStarts
<1>2. GatewayInv /\ [Gateway!Next]_(Gateway!vars) => GatewayInv'
  <2> SUFFICES ASSUME GatewayInv, [Gateway!Next]_(Gateway!vars) PROVE GatewayInv'
    OBVIOUS
  <2>1. CASE Gateway!Advance \/ UNCHANGED Gateway!vars
    <3>1. now' \in 0..MaxTime
          /\ UNCHANGED <<pairing, conn, known, opening, polls, serving, issued, dead>>
      BY <2>1, GatewayConstants DEF Gateway!Advance, Gateway!vars, GatewayInv, RowsOK
    <3>2. RowsOK' /\ OpenIsPending' /\ Gateway!PairedOnce'
      BY <3>1 DEF GatewayInv, RowsOK, OpenIsPending, Gateway!PairedOnce, Gateway!Opening
    <3>3. \A q \in Pairings : Lineage(q)'
      BY <3>1, LineageStays, ConnectionHolds DEF GatewayInv
    <3> QED
      BY <3>2, <3>3 DEF GatewayInv
  <2> QED
    BY <2>1, PairingsMove, ExchangeCommits, AgentsCall, ConnectionsChange, CredentialsRotate
    DEF Gateway!Next
<1> QED
  BY <1>1, <1>2, PTL DEF Gateway!Spec

\* A pairing gets one connection, by one exchange of its code, whatever polls,
\* cancellations and other exchanges meet it (exchange_pairing_code).
THEOREM PairingsExchangedOnce ==
  ASSUME Gateway!CodexGatewayAssumption PROVE Gateway!Spec => []Gateway!PairedOnce
BY GatewayKeepsInv, PTL DEF GatewayInv

\* A credential that was replaced or revoked never comes back, and no call with
\* it is being served (rotate, revoke, authenticate).
THEOREM SupersededCredentialsStayOut ==
  ASSUME Gateway!CodexGatewayAssumption PROVE Gateway!Spec => []Gateway!SupersededStaysOut
<1>1. GatewayInv => Gateway!SupersededStaysOut
  BY DEF GatewayInv, Lineage, Gateway!SupersededStaysOut
<1> QED
  BY <1>1, GatewayKeepsInv, PTL

-----------------------------------------------------------------------------
\* One call of the Codex command line (CodexCalls)

\* What becomes of the children at each place where the call waits.
CodexChildren ==
  /\ dir <=> pc \in Codex!Executing
  /\ pc = "idle" => version = "none" /\ process = "none"
  /\ pc = "versioning" => version = "starting" /\ process = "none"
  /\ pc = "version" => version \in {"running", "gone"} /\ process = "none"
  /\ pc = "spawning" => version = "gone" /\ process = "starting"
  /\ pc \in {"feeding", "reading"} => version = "gone" /\ process \in {"running", "gone"}
  /\ pc = "stopping" => {version, process} \subseteq {"none", "killed", "dropped", "gone"}
  /\ pc \in {"fetching", "over"} => {version, process} \subseteq {"none", "dropped", "gone"}

\* Nobody who asked is forgotten before the call has answered for it.
CodexAsked ==
  /\ stopped <=> "worker" \in asked
  /\ "research" \in asked => now >= Elapsed
  /\ pc = "idle" => asked = {}
  /\ pc = "fetching" => "executor" \notin asked
  /\ struck => asked # {}
  /\ pc \in Codex!Waiting \cup {"idle", "fetching"} /\ ~ struck => asked = {}
  /\ pc = "stopping" => why # "none" /\ (why = "cancel" => asked # {})
  /\ pc # "over" => outcome = "none"

\* Nothing is over a limit as long as pages are fetched, nor in a result.
WithinLimits ==
  /\ tokens <= MaxTokens
  /\ Len(sources) <= MaxPages
  /\ ~ (Codex!Length(sources) > MaxChars)
CodexLimits ==
  /\ pc \notin {"fetching", "over"} => sources = <<>>
  /\ pc = "fetching" => /\ WithinLimits /\ Kind = "research"
                        /\ Len(wanted) <= MaxPages /\ Len(sources) < Len(wanted)
  /\ outcome = "result" /\ Kind = "research" => WithinLimits /\ now < Elapsed

CodexInv ==
  Codex!TypeOK /\ CodexChildren /\ CodexAsked /\ CodexLimits
  /\ Codex!OutcomesAreTrue /\ Codex!OnlyKnownPagesRefused

LEMMA CodexConstants ==
  ASSUME Codex!CodexCallsAssumption
  PROVE  /\ Kind \in {"research", "generation"}
         /\ Timeout \in Nat /\ Elapsed \in Nat /\ MaxTokens \in Nat
         /\ MaxPages \in Nat /\ MaxChars \in Nat /\ MaxTime \in Nat
BY DEF Codex!CodexCallsAssumption

LEMMA CodexStarts ==
  ASSUME Codex!CodexCallsAssumption, Codex!Init PROVE CodexInv
<1> USE DEF Codex!CodexCallsAssumption, Codex!Init, Codex!Executing, Codex!Waiting,
            Codex!Starting
<1>1. Codex!TypeOK
  <2>1. now \in 0..(MaxTime + 1) /\ due \in Nat /\ bytes \in Nat /\ tokens \in Int
    BY CodexConstants DEF Codex!None
  <2>2. wanted \in Seq(Pages) /\ sources \in Seq(Codex!Evidence)
    OBVIOUS
  <2> QED
    BY <2>1, <2>2 DEF Codex!TypeOK, Codex!Child
<1>2. CodexChildren /\ CodexAsked /\ CodexLimits
  BY DEF CodexChildren, CodexAsked, CodexLimits
<1>3. Codex!OutcomesAreTrue /\ Codex!OnlyKnownPagesRefused
  BY DEF Codex!OutcomesAreTrue, Codex!OnlyKnownPagesRefused
<1> QED
  BY <1>1, <1>2, <1>3 DEF CodexInv

\* Neither the clock nor a child that ends nor somebody who asks changes what
\* the call is doing.
LEMMA CodexStepsAside ==
  ASSUME Codex!CodexCallsAssumption, CodexInv,
         \/ \E x \in {"research", "executor"} : Codex!Fire(x)
         \/ Codex!Cancel \/ Codex!Tick \/ Codex!VersionEnds \/ Codex!ProcessEnds
  PROVE  CodexInv'
<1> USE DEF Codex!CodexCallsAssumption, Codex!timers, Codex!children,
            Codex!Executing, Codex!Waiting, Codex!Starting
<1>1. CASE \E x \in {"research", "executor"} : Codex!Fire(x)
  BY <1>1 DEF CodexInv, Codex!TypeOK, CodexChildren, CodexAsked, CodexLimits, WithinLimits,
       Codex!OutcomesAreTrue, Codex!OnlyKnownPagesRefused, Codex!Fire, Codex!Armed, Codex!Due
<1>2. CASE Codex!Cancel
  BY <1>2 DEF CodexInv, Codex!TypeOK, CodexChildren, CodexAsked, CodexLimits, WithinLimits,
       Codex!OutcomesAreTrue, Codex!OnlyKnownPagesRefused, Codex!Cancel
<1>3. CASE Codex!Tick
  BY <1>3 DEF CodexInv, Codex!TypeOK, CodexChildren, CodexAsked, CodexLimits, WithinLimits,
       Codex!OutcomesAreTrue, Codex!OnlyKnownPagesRefused, Codex!Tick
<1>4. CASE Codex!VersionEnds
  BY <1>4 DEF CodexInv, Codex!TypeOK, CodexChildren, CodexAsked, CodexLimits, WithinLimits,
       Codex!OutcomesAreTrue, Codex!OnlyKnownPagesRefused, Codex!VersionEnds, Codex!Ends, Codex!Child
<1>5. CASE Codex!ProcessEnds
  BY <1>5 DEF CodexInv, Codex!TypeOK, CodexChildren, CodexAsked, CodexLimits, WithinLimits,
       Codex!OutcomesAreTrue, Codex!OnlyKnownPagesRefused, Codex!ProcessEnds, Codex!Ends, Codex!Child
<1> QED
  BY <1>1, <1>2, <1>3, <1>4, <1>5

\* Children are started, fed and read, and told to stop.
LEMMA CodexRuns ==
  ASSUME Codex!CodexCallsAssumption, CodexInv,
         \/ Codex!Begin \/ Codex!VersionStarted \/ Codex!VersionRead
         \/ Codex!ProcessStarted \/ Codex!Fed \/ Codex!Break \/ Codex!Read
  PROVE  CodexInv'
<1> USE CodexConstants DEF Codex!timers, Codex!children,
            Codex!Executing, Codex!Waiting, Codex!Starting, Codex!Stop, Codex!Killed,
            CodexInv, CodexChildren, CodexAsked, CodexLimits,
            Codex!OutcomesAreTrue, Codex!OnlyKnownPagesRefused, Codex!TypeOK, Codex!Child
<1>1. CASE Codex!Begin
  <2>1. now' \in 0..(MaxTime + 1) /\ due' \in Nat
    BY <1>1, CodexConstants DEF Codex!Begin
  <2>2. Codex!TypeOK'
    BY <1>1, <2>1 DEF Codex!Begin
  <2>3. asked = {} /\ ~ struck /\ ~ stopped /\ outcome = "none" /\ sources = <<>>
    BY <1>1 DEF Codex!Begin
  <2>4. CodexChildren' /\ CodexAsked' /\ CodexLimits'
    BY <1>1, <2>3 DEF Codex!Begin
  <2> QED
    BY <1>1, <2>2, <2>3, <2>4 DEF Codex!Begin
<1>2. CASE Codex!VersionStarted
  BY <1>2 DEF Codex!VersionStarted
<1>3. CASE Codex!VersionRead
  BY <1>3 DEF Codex!VersionRead
<1>4. CASE Codex!ProcessStarted
  BY <1>4 DEF Codex!ProcessStarted
<1>5. CASE Codex!Fed
  BY <1>5 DEF Codex!Fed
<1>6. CASE Codex!Break
  BY <1>6, ZenonT(60) DEF Codex!Break
<1>7. CASE Codex!Read
  <2>1. tokens' \in Int /\ bytes' \in Nat
    BY <1>7 DEF Codex!Read
  <2> QED
    BY <1>7, <2>1 DEF Codex!Read
<1> QED
  BY <1>1, <1>2, <1>3, <1>4, <1>5, <1>6, <1>7

\* A cancellation is raised, and the call is left.
LEMMA CodexStops ==
  ASSUME Codex!CodexCallsAssumption, CodexInv, Codex!Raise \/ Codex!Leave
  PROVE  CodexInv'
<1> USE CodexConstants DEF Codex!timers, Codex!children,
            Codex!Executing, Codex!Waiting, Codex!Starting, Codex!Stop, Codex!Killed,
            CodexInv, CodexChildren, CodexAsked, CodexLimits, WithinLimits,
            Codex!OutcomesAreTrue, Codex!OnlyKnownPagesRefused, Codex!TypeOK, Codex!Child
<1>1. CASE Codex!Raise /\ pc \in Codex!Waiting
  <2>1. Codex!TypeOK'
    BY <1>1 DEF Codex!Raise
  <2>2. CodexChildren'
    BY <1>1 DEF Codex!Raise
  <2>3. CodexAsked'
    BY <1>1 DEF Codex!Raise
  <2>4. CodexLimits'
    BY <1>1 DEF Codex!Raise
  <2>5. Codex!OutcomesAreTrue'
    BY <1>1 DEF Codex!Raise
  <2>6. Codex!OnlyKnownPagesRefused'
    BY <1>1 DEF Codex!Raise
  <2> QED
    BY <2>1, <2>2, <2>3, <2>4, <2>5, <2>6
<1>2. CASE Codex!Raise /\ pc = "stopping"
  <2>1. Codex!TypeOK'
    BY <1>2, ZenonT(60) DEF Codex!Raise
  <2>2. CodexChildren'
    BY <1>2 DEF Codex!Raise
  <2>3. CodexAsked'
    BY <1>2 DEF Codex!Raise
  <2>4. CodexLimits'
    BY <1>2 DEF Codex!Raise
  <2>5. Codex!OutcomesAreTrue'
    BY <1>2 DEF Codex!Raise
  <2>6. Codex!OnlyKnownPagesRefused'
    BY <1>2 DEF Codex!Raise
  <2> QED
    BY <2>1, <2>2, <2>3, <2>4, <2>5, <2>6
<1>3. CASE Codex!Raise /\ pc = "fetching"
  <2>1. Codex!TypeOK'
    BY <1>3 DEF Codex!Raise
  <2>2. CodexChildren'
    BY <1>3 DEF Codex!Raise
  <2>3. CodexAsked'
    BY <1>3 DEF Codex!Raise
  <2>4. CodexLimits'
    BY <1>3 DEF Codex!Raise
  <2>5. Codex!OutcomesAreTrue'
    BY <1>3, ZenonT(60) DEF Codex!Raise
  <2>6. Codex!OnlyKnownPagesRefused'
    BY <1>3 DEF Codex!Raise
  <2> QED
    BY <2>1, <2>2, <2>3, <2>4, <2>5, <2>6
<1>4. CASE Codex!Leave
  <2>1. Codex!TypeOK'
    BY <1>4 DEF Codex!Leave, Codex!Verdict
  <2>2. CodexChildren'
    BY <1>4 DEF Codex!Leave, Codex!Verdict
  <2>3. CodexAsked'
    BY <1>4 DEF Codex!Leave, Codex!Verdict
  <2>4. CodexLimits'
    BY <1>4 DEF Codex!Leave, Codex!Verdict
  <2>5. Codex!OutcomesAreTrue'
    <3>1. outcome' = Codex!Verdict /\ why' = why /\ stopped' = stopped /\ now' = now
          /\ pc = "stopping" /\ pc' = "over"
      BY <1>4 DEF Codex!Leave
    <3>2. Codex!Verdict = "elapsed" => "research" \in asked
      BY DEF Codex!Verdict
    <3>3. ASSUME Codex!Verdict = "cancelled" PROVE "worker" \in asked
      <4>1. why = "cancel" /\ asked # {} /\ asked # {"executor"}
            /\ asked \ {"executor"} # {"research"}
        BY <3>1, <3>3 DEF Codex!Verdict
      <4>2. \E x \in asked : x # "executor"
        BY <4>1
      <4>3. "worker" \notin asked => "research" \in asked
        BY <4>2
      <4>4. "worker" \notin asked => asked \ {"executor"} = {"research"}
        BY <4>3
      <4> QED
        BY <4>1, <4>4
    <3>4. "worker" \in asked /\ why = "cancel" => Codex!Verdict = "cancelled"
      BY DEF Codex!Verdict
    <3>5. Codex!Verdict \notin {"result", "kept"}
      BY DEF Codex!Verdict
    <3> QED
      BY <3>1, <3>2, <3>3, <3>4, <3>5
  <2>6. Codex!OnlyKnownPagesRefused'
    BY <1>4 DEF Codex!Leave, Codex!Verdict
  <2> QED
    BY <2>1, <2>2, <2>3, <2>4, <2>5, <2>6
<1> QED
  BY <1>1, <1>2, <1>3, <1>4 DEF Codex!Raise

\* What becomes of an answer: a page is fetched, or it is the end.
LEMMA CodexContinues ==
  ASSUME Codex!CodexCallsAssumption, CodexInv, Kind = "research", asked = {}, ~ stopped,
         ~ struck, tokens <= MaxTokens,
         NEW named \in Seq(Pages), Len(named) <= MaxPages,
         NEW got \in Seq(Codex!Evidence), Len(got) <= Len(named),
         ~ (Codex!Length(got) > MaxChars), Codex!Continue(named, got),
         pc # "over", sources' = got, wanted' = named,
         dir' = FALSE, UNCHANGED <<now, due, Codex!timers, Codex!children, bytes, tokens, why>>,
         version \in {"none", "dropped", "gone"}, process \in {"none", "dropped", "gone"}
  PROVE  CodexInv'
<1> USE CodexConstants DEF Codex!timers, Codex!children, CodexInv
<1>1. outcome = "none"
  BY DEF CodexAsked
<1>2. \/ pc' = "over" /\ outcome' \in {"elapsed", "needs_review"}
         /\ (outcome' = "elapsed" => now >= Elapsed)
      \/ pc' = "over" /\ outcome' = "result" /\ ~ (now >= Elapsed)
      \/ pc' = "fetching" /\ outcome' = "none" /\ ~ (Len(got) + 1 > Len(named))
  <2>1. CASE Len(got) + 1 > Len(named)
    BY <2>1, Zenon DEF Codex!Continue
  <2>2. CASE ~ (Len(got) + 1 > Len(named))
    BY <1>1, <2>2, Zenon DEF Codex!Continue
  <2> QED
    BY <2>1, <2>2
<1>3. Codex!TypeOK'
  BY <1>2 DEF Codex!TypeOK
<1>4. CodexChildren'
  BY <1>2 DEF CodexChildren, Codex!Executing, Codex!Waiting, Codex!Starting
<1>5. CodexAsked'
  BY <1>2 DEF CodexAsked, Codex!Executing, Codex!Waiting, Codex!Starting
<1>6. now \in Nat /\ Len(got) \in Nat /\ Len(named) \in Nat
  BY DEF Codex!TypeOK
<1>7. WithinLimits'
  <2>1. tokens' <= MaxTokens
    OBVIOUS
  <2>2. Len(sources') <= MaxPages
    BY <1>6
  <2>3. Codex!Length(sources') = Codex!Length(got)
    OBVIOUS
  <2>4. ~ (Codex!Length(sources') > MaxChars)
    BY <2>3
  <2> QED
    BY <2>1, <2>2, <2>4 DEF WithinLimits
<1>8. CodexLimits'
  BY <1>2, <1>6, <1>7 DEF CodexLimits
<1>9. Codex!OutcomesAreTrue' /\ Codex!OnlyKnownPagesRefused'
  BY <1>2, <1>6 DEF Codex!OutcomesAreTrue, Codex!OnlyKnownPagesRefused, CodexAsked
<1> QED
  BY <1>3, <1>4, <1>5, <1>8, <1>9

\* The call is over without a result, nobody having asked.
LEMMA CodexFails ==
  ASSUME Codex!CodexCallsAssumption, CodexInv, pc # "over", asked = {}, ~ stopped, ~ struck,
         pc' = "over", dir' = FALSE,
         outcome' \in {"retryable", "needs_review", "permanent"},
         sources' \in Seq(Codex!Evidence), wanted' \in Seq(Pages),
         UNCHANGED <<now, due, Codex!timers, Codex!children, bytes, tokens, why>>,
         {version, process} \subseteq {"none", "dropped", "gone"}
  PROVE  CodexInv'
<1> USE DEF Codex!timers, Codex!children, CodexInv, Codex!Executing, Codex!Waiting,
            Codex!Starting
<1>1. Codex!TypeOK'
  BY DEF Codex!TypeOK
<1>2. CodexChildren' /\ CodexAsked' /\ CodexLimits'
  BY DEF CodexChildren, CodexAsked, CodexLimits
<1>3. Codex!OutcomesAreTrue' /\ Codex!OnlyKnownPagesRefused'
  BY DEF Codex!OutcomesAreTrue, Codex!OnlyKnownPagesRefused, CodexAsked
<1> QED
  BY <1>1, <1>2, <1>3

\* The answer is read, its pages are fetched, and the job takes the result.
LEMMA CodexAnswers ==
  ASSUME Codex!CodexCallsAssumption, CodexInv,
         \/ Codex!Refuse \/ Codex!Interpret
         \/ \E e \in Codex!Evidence : Codex!Fetched(e)
         \/ Codex!FetchRejected \/ Codex!Take
  PROVE  CodexInv'
<1>1. CASE Codex!Refuse
  <2>1. asked = {} /\ ~ struck /\ ~ stopped
    BY <1>1 DEF Codex!Refuse, CodexInv, CodexAsked
  <2>2. version = "none" /\ process = "none" /\ dir = FALSE
    BY <1>1 DEF Codex!Refuse, CodexInv, CodexChildren, Codex!TypeOK, Codex!Executing,
         Codex!Waiting, Codex!Starting
  <2> QED
    BY <1>1, <2>1, <2>2, CodexFails DEF Codex!Refuse, CodexInv, Codex!TypeOK
<1>2. CASE Codex!Interpret
  <2>1. asked = {} /\ ~ struck /\ ~ stopped /\ pc = "reading" /\ sources = <<>>
        /\ version = "gone" /\ process = "gone" /\ outcome = "none"
    BY <1>2 DEF Codex!Interpret, CodexInv, CodexAsked, CodexChildren, CodexLimits,
         Codex!Waiting, Codex!Starting
  <2>2. /\ dir' = FALSE
        /\ UNCHANGED <<now, due, Codex!timers, Codex!children, bytes, tokens, why, sources>>
    BY <1>2 DEF Codex!Interpret
  <2>3. wanted \in Seq(Pages) /\ sources \in Seq(Codex!Evidence) /\ Codex!TypeOK
    BY DEF CodexInv, Codex!TypeOK
  <2>4. PICK report \in {"large", "failed", "invalid", "good"} :
          IF ~ Codex!Good(report)
          THEN /\ pc' = "over"
               /\ outcome' = IF report = "failed" THEN "retryable" ELSE "needs_review"
               /\ UNCHANGED wanted
          ELSE IF Kind = "generation"
          THEN pc' = "over" /\ outcome' = "result" /\ UNCHANGED wanted
          ELSE \E named \in UNION {[1..n -> Pages] : n \in 0..(MaxPages + 1)} :
                 /\ wanted' = named
                 /\ IF Len(named) > MaxPages
                    THEN pc' = "over" /\ outcome' = "needs_review"
                    ELSE Codex!Continue(named, <<>>)
    BY <1>2 DEF Codex!Interpret
  <2>5. CASE ~ Codex!Good(report)
    BY <2>1, <2>2, <2>3, <2>4, <2>5, CodexFails
  <2>6. CASE Codex!Good(report) /\ Kind = "generation"
    <3>1. pc' = "over" /\ outcome' = "result" /\ wanted' = wanted
      BY <2>4, <2>6
    <3>2. Codex!TypeOK'
      BY <2>2, <2>3, <3>1 DEF Codex!TypeOK, Codex!timers, Codex!children
    <3>3. CodexChildren' /\ CodexAsked' /\ CodexLimits'
      BY <2>1, <2>2, <2>6, <3>1 DEF CodexChildren, CodexAsked, CodexLimits, CodexInv,
           Codex!timers, Codex!children, Codex!Executing, Codex!Waiting, Codex!Starting
    <3>4. Codex!OutcomesAreTrue' /\ Codex!OnlyKnownPagesRefused'
      BY <2>1, <2>2, <2>6, <3>1 DEF Codex!OutcomesAreTrue, Codex!OnlyKnownPagesRefused,
           Codex!timers
    <3> QED
      BY <3>2, <3>3, <3>4 DEF CodexInv
  <2>7. CASE Codex!Good(report) /\ Kind # "generation"
    <3>1. PICK named \in UNION {[1..n -> Pages] : n \in 0..(MaxPages + 1)} :
            /\ wanted' = named
            /\ IF Len(named) > MaxPages
               THEN pc' = "over" /\ outcome' = "needs_review"
               ELSE Codex!Continue(named, <<>>)
      BY <2>4, <2>7
    <3>2. named \in Seq(Pages) /\ Kind = "research" /\ tokens \in 0..MaxTokens
      <4>1. PICK n \in 0..(MaxPages + 1) : named \in [1..n -> Pages]
        BY <3>1
      <4>2. n \in Nat
        BY CodexConstants
      <4> QED
        BY <2>7, <4>1, <4>2, CodexConstants DEF Codex!Good
    <3>3. CASE Len(named) > MaxPages
      BY <2>1, <2>2, <2>3, <3>1, <3>2, <3>3, CodexFails
    <3>4. CASE ~ (Len(named) > MaxPages)
      <4>1. Len(named) \in Nat /\ Len(named) <= MaxPages /\ tokens <= MaxTokens
        BY <3>2, <3>4, CodexConstants
      <4>2. ~ (Codex!Length(<<>>) > MaxChars) /\ Len(<<>>) <= Len(named)
            /\ <<>> \in Seq(Codex!Evidence)
        <5>1. Codex!Length(<<>>) = 0
          BY Zenon DEF Codex!Length
        <5> QED
          BY <4>1, <5>1, CodexConstants
      <4>3. Codex!Continue(named, <<>>) /\ sources' = <<>> /\ wanted' = named
        BY <2>1, <2>2, <3>1, <3>4
      <4> QED
        BY <2>1, <2>2, <3>2, <4>1, <4>2, <4>3, CodexContinues
    <3> QED
      BY <3>3, <3>4
  <2> QED
    BY <2>5, <2>6, <2>7
<1>3. ASSUME NEW e \in Codex!Evidence, Codex!Fetched(e) PROVE CodexInv'
  <2>1. asked = {} /\ ~ struck /\ ~ stopped /\ pc = "fetching" /\ dir = FALSE
        /\ {version, process} \subseteq {"none", "dropped", "gone"}
    BY <1>3 DEF Codex!Fetched, CodexInv, CodexAsked, CodexChildren, Codex!TypeOK,
         Codex!Executing, Codex!Waiting, Codex!Starting
  <2>2. WithinLimits /\ Len(wanted) <= MaxPages /\ Len(sources) < Len(wanted)
    BY <2>1 DEF CodexInv, CodexLimits
  <2>3. sources' = Append(sources, e) /\ wanted \in Seq(Pages)
        /\ sources \in Seq(Codex!Evidence)
    BY <1>3 DEF Codex!Fetched, CodexInv, Codex!TypeOK
  <2>4. sources' \in Seq(Codex!Evidence) /\ Len(sources') <= Len(wanted)
    BY <2>2, <2>3
  <2>5. dir' = FALSE
        /\ UNCHANGED <<now, due, Codex!timers, Codex!children, bytes, tokens, why, wanted>>
    BY <1>3, <2>1 DEF Codex!Fetched
  <2>6. CASE (\E i \in DOMAIN sources : sources[i][1] = e[1])
             \/ Codex!Length(sources') > MaxChars
    <3>1. pc' = "over" /\ outcome' = "needs_review"
      BY <1>3, <2>6 DEF Codex!Fetched
    <3> QED
      BY <2>1, <2>3, <2>4, <2>5, <3>1, CodexFails
  <2>7. CASE ~ ((\E i \in DOMAIN sources : sources[i][1] = e[1])
                \/ Codex!Length(sources') > MaxChars)
    <3>1. Codex!Continue(wanted, sources')
      BY <1>3, <2>7 DEF Codex!Fetched
    <3>2. CASE Kind = "research"
      BY <2>1, <2>2, <2>3, <2>4, <2>5, <2>7, <3>1, <3>2, CodexContinues DEF WithinLimits
    <3> QED
      BY <2>1, <3>2 DEF CodexInv, CodexLimits
  <2> QED
    BY <2>6, <2>7
<1>4. CASE Codex!FetchRejected
  <2>1. asked = {} /\ ~ struck /\ ~ stopped /\ pc = "fetching" /\ dir = FALSE
        /\ {version, process} \subseteq {"none", "dropped", "gone"}
    BY <1>4 DEF Codex!FetchRejected, CodexInv, CodexAsked, CodexChildren, Codex!TypeOK,
         Codex!Executing, Codex!Waiting, Codex!Starting
  <2> QED
    BY <1>4, <2>1, CodexFails DEF Codex!FetchRejected, CodexInv, Codex!TypeOK
<1>5. CASE Codex!Take
  <2>1. Kind = "research" /\ outcome = "result" /\ WithinLimits /\ now < Elapsed
    BY <1>5 DEF Codex!Take, CodexInv, CodexLimits
  <2>2. now \in Nat /\ Elapsed \in Nat /\ tokens \in Int /\ MaxTokens \in Nat
        /\ MaxPages \in Nat /\ Len(sources) \in Nat
    BY CodexConstants DEF CodexInv, Codex!TypeOK
  <2>3. ~ Codex!Exceeded
    BY <2>1, <2>2 DEF Codex!Exceeded, WithinLimits
  <2>4. /\ outcome' = IF Codex!Range(sources) \cap Given # {} THEN "refused" ELSE "kept"
        /\ UNCHANGED <<now, pc, due, Codex!timers, Codex!children, dir, bytes, tokens,
                       why, wanted, sources>>
    BY <1>5, <2>3 DEF Codex!Take
  <2>5. Codex!TypeOK'
    BY <2>4 DEF CodexInv, Codex!TypeOK, Codex!timers, Codex!children
  <2>6. CodexChildren' /\ CodexAsked' /\ CodexLimits'
    BY <2>1, <2>4 DEF CodexInv, CodexChildren, CodexAsked, CodexLimits, WithinLimits,
         Codex!timers, Codex!children
  <2>7. Codex!OutcomesAreTrue'
    BY <2>1, <2>4 DEF CodexInv, Codex!OutcomesAreTrue, Codex!timers
  <2>8. Codex!OnlyKnownPagesRefused'
    BY <2>4 DEF Codex!OnlyKnownPagesRefused, Codex!Range
  <2> QED
    BY <2>5, <2>6, <2>7, <2>8 DEF CodexInv
<1> QED
  BY <1>1, <1>2, <1>3, <1>4, <1>5

LEMMA CodexKeepsInv ==
  ASSUME Codex!CodexCallsAssumption PROVE Codex!Spec => []CodexInv
<1>1. Codex!Init => CodexInv
  BY CodexStarts
<1>2. CodexInv /\ [Codex!Next]_(Codex!vars) => CodexInv'
  <2> SUFFICES ASSUME CodexInv, [Codex!Next]_(Codex!vars) PROVE CodexInv'
    OBVIOUS
  <2>1. CASE UNCHANGED Codex!vars
    BY <2>1 DEF Codex!vars, Codex!timers, Codex!children, CodexInv, Codex!TypeOK,
         CodexChildren, CodexAsked, CodexLimits, WithinLimits, Codex!OutcomesAreTrue,
         Codex!OnlyKnownPagesRefused
  <2>2. CASE Codex!Next
    BY <2>2, CodexStepsAside, CodexRuns, CodexStops, CodexAnswers DEF Codex!Next
  <2> QED
    BY <2>1, <2>2
<1> QED
  BY <1>1, <1>2, PTL DEF Codex!Spec

\* However a Codex call ends, and whoever cancels it when, it leaves no child
\* running (_default_process_runner, stop_children).
THEOREM CodexLeavesNothing ==
  ASSUME Codex!CodexCallsAssumption PROVE Codex!Spec => []Codex!NothingLeftRunning
<1>1. CodexInv => Codex!NothingLeftRunning
  BY DEF CodexInv, CodexChildren, Codex!NothingLeftRunning, Codex!Executing, Codex!Waiting,
       Codex!Starting, Codex!TypeOK
<1> QED
  BY <1>1, CodexKeepsInv, PTL

\* A call that was told to stop never has a result, and its error blames who was
\* there: the worker, or a deadline that has passed (_invoke_process_runner,
\* CodexResearchBackend.research).
THEOREM CodexOutcomesTrue ==
  ASSUME Codex!CodexCallsAssumption PROVE Codex!Spec => []Codex!OutcomesAreTrue
BY CodexKeepsInv, PTL DEF CodexInv

\* The job refuses of what a Codex research brought only a page that the story
\* had already (_validate_result_contract after _materialize_sources).
THEOREM CodexRefusesKnownPages ==
  ASSUME Codex!CodexCallsAssumption PROVE Codex!Spec => []Codex!OnlyKnownPagesRefused
BY CodexKeepsInv, PTL DEF CodexInv

\* Type correctness of a Codex call: among it, that the deadline it runs under and
\* what it captured stay in range (_run_process, _bounded_read).
THEOREM CodexTypeCorrect ==
  ASSUME Codex!CodexCallsAssumption PROVE Codex!Spec => []Codex!TypeOK
BY CodexKeepsInv, PTL DEF CodexInv

-----------------------------------------------------------------------------
\* A research through OpenRouter (ResearchLoop)

\* What was used, by what it counts.
Use == {"calls", "input", "output", "queries", "pages", "chars"}

\* A page is counted before it is fetched.
PagesCounted ==
  /\ IsFiniteSet(sources)
  /\ Cardinality(sources) <= used.pages
  /\ pc = "fetch" => Cardinality(sources) < used.pages
  /\ used.pages <= Limits.pages /\ used.queries <= Limits.queries
  /\ used.chars <= Limits.chars

LoopInv ==
  /\ Loop!TypeOK /\ PagesCounted
  /\ Loop!RequestsAreFunded /\ Loop!CitedWasRead
  /\ pc # "over" => outcome = "none"
  /\ outcome = "result" => ~ Loop!Exceeded

LEMMA LoopConstants ==
  ASSUME Loop!ResearchLoopAssumption
  PROVE  /\ MaxActions \in Nat /\ MaxTime \in Nat /\ InPrice \in Nat /\ OutPrice \in Nat
         /\ Limits.calls \in Nat /\ Limits.input \in Nat /\ Limits.output \in Nat
         /\ Limits.cost \in Nat /\ Limits.queries \in Nat /\ Limits.pages \in Nat
         /\ Limits.chars \in Nat /\ Limits.elapsed \in Nat
         /\ Sizes \subseteq Nat /\ Tokens \subseteq Nat
BY DEF Loop!ResearchLoopAssumption, Loop!Dimensions

LEMMA LoopUse == DOMAIN Loop!NoUse = Use
BY DEF Loop!NoUse, Use

LEMMA SameCardinality == \A S : Loop!Cardinality(S) = Cardinality(S)
BY Zenon DEF Loop!Cardinality, Cardinality

\* Queries and pages cost nothing.
LEMMA CostOfTokens ==
  ASSUME NEW u, NEW v, u.input = v.input, u.output = v.output
  PROVE  Loop!Cost(u) = Loop!Cost(v) /\ (Loop!Spent(u) <=> Loop!Spent(v))
BY DEF Loop!Cost, Loop!Spent

LEMMA LoopCounts ==
  ASSUME Loop!TypeOK
  PROVE  /\ used.calls \in Nat /\ used.input \in Nat /\ used.output \in Nat
         /\ used.queries \in Nat /\ used.pages \in Nat /\ used.chars \in Nat
         /\ now \in Nat /\ allowance \in Nat /\ rounds \in Nat
BY LoopUse DEF Loop!TypeOK, Use

LEMMA LoopStarts ==
  ASSUME Loop!ResearchLoopAssumption, Loop!Init PROVE LoopInv
<1> USE DEF Loop!Init
<1>1. Loop!TypeOK
  <2>1. Loop!NoUse \in [Use -> Nat]
    BY DEF Loop!NoUse, Use
  <2>2. used \in [DOMAIN Loop!NoUse -> Nat]
    BY <2>1, LoopUse
  <2>3. now \in 0..MaxTime /\ rounds \in 0..MaxActions /\ allowance \in Nat
    BY LoopConstants
  <2> QED
    BY <2>2, <2>3 DEF Loop!TypeOK
<1>2. PagesCounted
  BY LoopConstants, FS_EmptySet DEF PagesCounted, Loop!NoUse
<1>3. ~ Loop!Spent(used)
  <2>1. used.input = 0 /\ used.output = 0
    BY DEF Loop!NoUse
  <2>2. Loop!Cost(used) = 0
    BY <2>1, LoopConstants DEF Loop!Cost
  <2> QED
    BY <2>1, <2>2, LoopConstants DEF Loop!Spent
<1>4. Loop!RequestsAreFunded
  BY <1>3, LoopConstants DEF Loop!RequestsAreFunded, Loop!NoUse
<1> QED
  BY <1>1, <1>2, <1>4 DEF LoopInv, Loop!CitedWasRead

\* What an answer costs is added to what was used.
LEMMA LoopCharges ==
  ASSUME Loop!ResearchLoopAssumption, Loop!TypeOK, NEW in \in Tokens, NEW out \in Tokens
  PROVE  /\ Loop!Charged(in, out) \in [Use -> Nat]
         /\ Loop!Charged(in, out).calls = used.calls + 1
         /\ Loop!Charged(in, out).pages = used.pages
         /\ Loop!Charged(in, out).queries = used.queries
         /\ Loop!Charged(in, out).chars = used.chars
<1>1. used \in [Use -> Nat] /\ in \in Nat /\ out \in Nat
  BY LoopUse, LoopConstants DEF Loop!TypeOK
<1>2. /\ Loop!Charged(in, out).calls = used.calls + 1
      /\ Loop!Charged(in, out).input = used.input + in
      /\ Loop!Charged(in, out).output = used.output + out
      /\ \A c \in Use \ {"calls", "input", "output"} : Loop!Charged(in, out)[c] = used[c]
      /\ Loop!Charged(in, out) = [c \in Use |-> Loop!Charged(in, out)[c]]
  BY <1>1 DEF Loop!Charged, Use
<1>3. \A c \in Use : Loop!Charged(in, out)[c] \in Nat
  BY <1>1, <1>2 DEF Use
<1> QED
  BY <1>2, <1>3 DEF Use

\* What is done of an answer that was within the budget.
LEMMA LoopPerforms ==
  ASSUME Loop!ResearchLoopAssumption, LoopInv, pc = "model",
         NEW u \in [Use -> Nat], u.calls = used.calls + 1, u.pages = used.pages,
         u.queries = used.queries, u.chars = used.chars,
         ~ Loop!Late, ~ Loop!Spent(u),
         Loop!Finish(u) \/ Loop!Search(u) \/ Loop!Fetch(u),
         UNCHANGED <<now, rounds, allowance, sources>>
  PROVE  LoopInv'
<1> USE LoopConstants, LoopCounts DEF LoopInv
<1>1. used.calls < Limits.calls /\ outcome = "none" /\ now < Limits.elapsed
  BY DEF Loop!RequestsAreFunded, Loop!Late
<1>2. CASE Loop!Finish(u)
  <2>1. PICK listed \in SUBSET Loop!Evidence, cites \in SUBSET Loop!Evidence,
             exact \in BOOLEAN, twice \in BOOLEAN :
          IF Loop!Founded(listed, cites, exact)
          THEN Loop!End("result") /\ cited' = cites /\ repeated' = (twice /\ listed # {})
          ELSE Loop!End("needs_review") /\ UNCHANGED <<cited, repeated>>
    BY <1>2 DEF Loop!Finish
  <2>2. used' = u
    BY <1>2 DEF Loop!Finish
  <2>3. /\ pc' = "over" /\ cited' \subseteq Loop!Evidence /\ repeated' \in BOOLEAN
        /\ outcome' \in {"result", "needs_review"}
        /\ outcome' = "result" => cited' \subseteq sources \cup Given
    BY <2>1 DEF Loop!Founded, Loop!End, Loop!TypeOK
  <2>4. Loop!TypeOK'
    BY <2>2, <2>3, LoopUse DEF Loop!TypeOK
  <2>5. PagesCounted'
    BY <2>2, <2>3 DEF PagesCounted
  <2>6. Loop!RequestsAreFunded' /\ Loop!CitedWasRead'
    BY <2>3 DEF Loop!RequestsAreFunded, Loop!CitedWasRead
  <2>7. outcome' = "result" => ~ Loop!Exceeded'
    <3>1. ~ Loop!Spent(used)'
      BY <2>2 DEF Loop!Spent, Loop!Cost
    <3>2. used' \in [Use -> Nat] /\ used'.calls <= Limits.calls /\ now' = now
      BY <1>1, <2>2
    <3>3. /\ used'.calls \in Nat /\ used'.queries \in Nat /\ used'.pages \in Nat
          /\ used'.chars \in Nat
      BY <3>2 DEF Use
    <3> QED
      BY <1>1, <2>5, <3>1, <3>2, <3>3 DEF Loop!Exceeded, PagesCounted
  <2> QED
    BY <2>3, <2>4, <2>5, <2>6, <2>7
<1>3. CASE Loop!Search(u) \/ Loop!Fetch(u)
  <2>1. /\ \/ pc' = "check" /\ used' = u
           \/ pc' = "search" /\ used' = [u EXCEPT !.queries = @ + 1]
              /\ u.queries < Limits.queries
           \/ pc' = "fetch" /\ used' = [u EXCEPT !.pages = @ + 1]
              /\ u.pages < Limits.pages
        /\ outcome' = outcome /\ cited' = cited /\ repeated' = repeated
    <3>1. u.queries \in Nat /\ u.pages \in Nat
      BY DEF Use
    <3> QED
      BY <1>3, <3>1 DEF Loop!Search, Loop!Fetch, Loop!Go
  <2>2. /\ used' \in [Use -> Nat] /\ used'.calls = u.calls
        /\ used'.input = u.input /\ used'.output = u.output /\ used'.chars = u.chars
        /\ used'.queries <= Limits.queries /\ used'.pages <= Limits.pages
        /\ used'.pages >= u.pages /\ (pc' = "fetch" => used'.pages > u.pages)
    BY <2>1 DEF Use, PagesCounted
  <2>3. ~ Loop!Spent(used')
    BY <2>2, CostOfTokens
  <2>4. Loop!TypeOK'
    BY <2>1, <2>2, LoopUse DEF Loop!TypeOK, Loop!Awaiting
  <2>5. PagesCounted'
    <3>1. Cardinality(sources) \in Nat
      BY FS_CardinalityType DEF PagesCounted
    <3>2. used'.pages \in Nat /\ u.pages = used.pages
      BY <2>2 DEF Use
    <3>3. Cardinality(sources') = Cardinality(sources) /\ IsFiniteSet(sources')
      BY DEF PagesCounted
    <3>4. Cardinality(sources') <= used'.pages
          /\ (pc' = "fetch" => Cardinality(sources') < used'.pages)
      BY <2>2, <3>1, <3>2, <3>3 DEF PagesCounted
    <3> QED
      BY <2>2, <3>3, <3>4 DEF PagesCounted
  <2>6. Loop!RequestsAreFunded'
    BY <1>1, <2>1, <2>2, <2>3 DEF Loop!RequestsAreFunded, Loop!Spent, Loop!Cost
  <2> QED
    BY <1>1, <2>1, <2>4, <2>5, <2>6 DEF Loop!CitedWasRead
<1> QED
  BY <1>2, <1>3

\* The call ends without a result, at whatever it awaits.
LEMMA LoopGivesUp ==
  ASSUME LoopInv, pc # "over", pc' = "over",
         outcome' \in {"retryable", "needs_review", "permanent"},
         UNCHANGED <<now, rounds, allowance, sources, cited, repeated>>,
         \/ used' = used
         \/ /\ used' \in [Use -> Nat] /\ used'.pages = used.pages
            /\ used'.queries = used.queries /\ used'.chars = used.chars
  PROVE  LoopInv'
<1> USE DEF LoopInv
<1>1. Loop!TypeOK'
  BY LoopUse DEF Loop!TypeOK
<1>2. PagesCounted'
  <2>1. Cardinality(sources') = Cardinality(sources) /\ IsFiniteSet(sources')
        /\ Cardinality(sources) <= used.pages
    BY DEF PagesCounted
  <2> QED
    BY <2>1 DEF PagesCounted
<1>3. Loop!RequestsAreFunded' /\ Loop!CitedWasRead'
  BY DEF Loop!RequestsAreFunded, Loop!CitedWasRead
<1> QED
  BY <1>1, <1>2, <1>3

LEMMA LoopAsks ==
  ASSUME Loop!ResearchLoopAssumption, LoopInv, Loop!Ask
  PROVE  LoopInv'
<1> USE LoopConstants, LoopCounts DEF LoopInv
<1>1. pc = "check" /\ UNCHANGED <<now, used, sources, cited, repeated>>
  BY DEF Loop!Ask
<1>2. CASE rounds < MaxActions /\ ~ Loop!Late /\ Loop!SomethingLeft
  <2>1. /\ rounds' = rounds + 1 /\ allowance' = Limits.output - used.output
        /\ pc' = "model" /\ outcome' = outcome
    BY <1>2 DEF Loop!Ask, Loop!Go
  <2>2. used.calls < Limits.calls /\ allowance' \in 1..(Limits.output - used.output)
        /\ allowance' \in Nat
    BY <1>2, <2>1 DEF Loop!SomethingLeft
  <2>3. Loop!TypeOK'
    BY <1>1, <1>2, <2>1, <2>2 DEF Loop!TypeOK, Loop!Awaiting
  <2>4. PagesCounted'
    BY <1>1, <2>1 DEF PagesCounted
  <2>5. Loop!RequestsAreFunded'
    BY <1>1, <2>1, <2>2 DEF Loop!RequestsAreFunded, Loop!Spent, Loop!Cost
  <2> QED
    BY <1>1, <2>1, <2>3, <2>4, <2>5 DEF Loop!CitedWasRead
<1>3. CASE ~ (rounds < MaxActions /\ ~ Loop!Late /\ Loop!SomethingLeft)
  <2>1. pc' = "over" /\ outcome' = "needs_review" /\ UNCHANGED <<rounds, allowance>>
    BY <1>3 DEF Loop!Ask, Loop!End
  <2> QED
    BY <1>1, <2>1, LoopGivesUp
<1> QED
  BY <1>2, <1>3

LEMMA LoopActs ==
  ASSUME Loop!ResearchLoopAssumption, LoopInv, Loop!Act
  PROVE  LoopInv'
<1>1. PICK in \in Tokens, out \in Tokens :
        IF Loop!Late \/ Loop!Spent(Loop!Charged(in, out))
        THEN Loop!GiveUp(Loop!Charged(in, out))
        ELSE \/ Loop!Finish(Loop!Charged(in, out)) \/ Loop!Search(Loop!Charged(in, out))
             \/ Loop!Fetch(Loop!Charged(in, out)) \/ Loop!GiveUp(Loop!Charged(in, out))
  BY DEF Loop!Act
<1> DEFINE u == Loop!Charged(in, out)
<1>2. /\ u \in [Use -> Nat] /\ u.calls = used.calls + 1 /\ u.pages = used.pages
      /\ u.queries = used.queries /\ u.chars = used.chars
  BY LoopCharges DEF LoopInv
<1>3. pc = "model" /\ UNCHANGED <<now, rounds, allowance, sources>>
  BY DEF Loop!Act
<1> HIDE DEF u
<1>4. CASE Loop!GiveUp(u)
  <2>1. pc' = "over" /\ outcome' = "needs_review" /\ used' = u
        /\ UNCHANGED <<cited, repeated>>
    BY <1>4 DEF Loop!GiveUp, Loop!End
  <2> QED
    BY <1>2, <1>3, <2>1, LoopGivesUp
<1>5. CASE /\ ~ Loop!Late /\ ~ Loop!Spent(u)
           /\ Loop!Finish(u) \/ Loop!Search(u) \/ Loop!Fetch(u)
  BY <1>2, <1>3, <1>5, LoopPerforms
<1> QED
  BY <1>1, <1>4, <1>5 DEF u

\* A page that is read was not read before, and is not too long.
LEMMA LoopFetches ==
  ASSUME Loop!ResearchLoopAssumption, LoopInv, NEW e \in Loop!Evidence, Loop!Fetched(e)
  PROVE  LoopInv'
<1> USE LoopConstants, LoopCounts DEF LoopInv
<1>1. /\ pc = "fetch" /\ pc' = "check" /\ outcome' = outcome
      /\ UNCHANGED <<now, rounds, allowance, cited, repeated>>
  BY DEF Loop!Fetched, Loop!Go
<1>2. IsFiniteSet(sources) /\ Cardinality(sources) < used.pages
      /\ Cardinality(sources) \in Nat
  BY <1>1, FS_CardinalityType DEF PagesCounted
<1>3. e[2] \in Nat
  BY DEF Loop!Evidence
<1>4. CASE used.chars + e[2] > Limits.chars \/ \E s \in sources : s[1] = e[1]
  <2>1. UNCHANGED <<used, sources>>
    BY <1>4 DEF Loop!Fetched
  <2>2. PagesCounted'
    BY <1>1, <1>2, <2>1 DEF PagesCounted
  <2>3. Loop!TypeOK'
    BY <1>1, <2>1 DEF Loop!TypeOK
  <2>4. Loop!RequestsAreFunded'
    BY <1>1, <2>1 DEF Loop!RequestsAreFunded, Loop!Spent, Loop!Cost
  <2> QED
    BY <1>1, <2>1, <2>2, <2>3, <2>4 DEF Loop!CitedWasRead
<1>5. CASE ~ (used.chars + e[2] > Limits.chars \/ \E s \in sources : s[1] = e[1])
  <2>1. sources' = sources \cup {e} /\ used' = [used EXCEPT !.chars = @ + e[2]]
        /\ used.chars + e[2] <= Limits.chars /\ \A s \in sources : s[1] # e[1]
    BY <1>3, <1>5 DEF Loop!Fetched
  <2>2. /\ used' \in [Use -> Nat] /\ used'.calls = used.calls
        /\ used'.input = used.input /\ used'.output = used.output
        /\ used'.pages = used.pages /\ used'.queries = used.queries
        /\ used'.chars = used.chars + e[2]
    BY <1>3, <2>1, LoopUse DEF Loop!TypeOK, Use
  <2>3. Loop!TypeOK'
    BY <1>1, <2>1, <2>2, LoopUse DEF Loop!TypeOK
  <2>4. IsFiniteSet(sources') /\ Cardinality(sources') <= used'.pages
    <3>1. IsFiniteSet(sources \cup {e})
          /\ Cardinality(sources \cup {e}) = Cardinality(sources) + 1
      BY <1>2, <2>1, FS_AddElement
    <3> QED
      BY <1>2, <2>1, <2>2, <3>1
  <2>5. PagesCounted'
    BY <1>1, <2>1, <2>2, <2>4 DEF PagesCounted
  <2>6. ~ Loop!Spent(used')
    BY <1>1, <2>2, CostOfTokens DEF Loop!RequestsAreFunded
  <2>7. Loop!RequestsAreFunded'
    BY <1>1, <2>1, <2>2, <2>6 DEF Loop!RequestsAreFunded, Loop!Spent, Loop!Cost
  <2> QED
    BY <1>1, <2>1, <2>3, <2>5, <2>7 DEF Loop!CitedWasRead
<1> QED
  BY <1>4, <1>5

\* The rest neither spends nor reads anything.
LEMMA LoopElse ==
  ASSUME Loop!ResearchLoopAssumption, LoopInv,
         \/ Loop!NoAnswer \/ Loop!Expire \/ Loop!Searched \/ Loop!FetchRejected
         \/ Loop!Take \/ Loop!Tick \/ UNCHANGED Loop!vars
  PROVE  LoopInv'
<1>1. CASE Loop!NoAnswer
  BY <1>1, LoopGivesUp, Zenon DEF Loop!NoAnswer, Loop!End, Loop!Class
<1>2. CASE Loop!Expire
  BY <1>2, LoopGivesUp DEF Loop!Expire, Loop!End, Loop!Awaiting
<1>3. CASE /\ \/ pc' = pc
              \/ pc \in {"search", "fetch"} /\ pc' = "check"
           /\ UNCHANGED <<rounds, used, allowance, sources, cited, repeated>>
           /\ outcome' = outcome /\ now' \in 0..MaxTime /\ (pc = "over" => now' = now)
  <2>1. Loop!TypeOK'
    BY <1>3 DEF LoopInv, Loop!TypeOK
  <2>2. PagesCounted'
    BY <1>3 DEF LoopInv, PagesCounted
  <2>3. Loop!RequestsAreFunded' /\ Loop!CitedWasRead'
    BY <1>3 DEF LoopInv, Loop!RequestsAreFunded, Loop!CitedWasRead, Loop!Spent, Loop!Cost
  <2>4. outcome' = "result" => ~ Loop!Exceeded'
    BY <1>3 DEF LoopInv, Loop!Exceeded, Loop!Spent, Loop!Cost
  <2> QED
    BY <1>3, <2>1, <2>2, <2>3, <2>4 DEF LoopInv
<1>4. CASE Loop!Searched \/ Loop!FetchRejected
  BY <1>3, <1>4 DEF Loop!Searched, Loop!FetchRejected, Loop!Go, LoopInv, Loop!TypeOK
<1>5. CASE Loop!Tick
  <2>1. now' \in 0..MaxTime
    BY <1>5, LoopConstants DEF Loop!Tick, LoopInv, Loop!TypeOK
  <2> QED
    BY <1>3, <1>5, <2>1 DEF Loop!Tick
<1>6. CASE UNCHANGED Loop!vars
  BY <1>3, <1>6 DEF Loop!vars, LoopInv, Loop!TypeOK
<1>7. CASE Loop!Take
  <2>1. /\ outcome' \in {"kept", "refused"} /\ outcome = "result"
        /\ UNCHANGED <<now, pc, rounds, used, allowance, sources, cited, repeated>>
    BY <1>7 DEF Loop!Take
  <2>2. Loop!TypeOK' /\ PagesCounted'
    BY <2>1 DEF LoopInv, Loop!TypeOK, PagesCounted
  <2>3. Loop!RequestsAreFunded' /\ Loop!CitedWasRead'
    BY <2>1 DEF LoopInv, Loop!RequestsAreFunded, Loop!CitedWasRead, Loop!Spent, Loop!Cost
  <2> QED
    BY <2>1, <2>2, <2>3 DEF LoopInv
<1> QED
  BY <1>1, <1>2, <1>4, <1>5, <1>6, <1>7

LEMMA LoopKeepsInv ==
  ASSUME Loop!ResearchLoopAssumption PROVE Loop!Spec => []LoopInv
<1>1. Loop!Init => LoopInv
  BY LoopStarts
<1>2. LoopInv /\ [Loop!Next]_(Loop!vars) => LoopInv'
  BY LoopAsks, LoopActs, LoopFetches, LoopElse DEF Loop!Next
<1> QED
  BY <1>1, <1>2, PTL DEF Loop!Spec

\* Every request of the loop leaves the model something to answer with and asks
\* for no more than is left, and no page is read twice (_check_before_model,
\* _check_after_model, the duplicates of OpenRouterResearchBackend.research).
THEOREM ResearchIsFunded ==
  ASSUME Loop!ResearchLoopAssumption PROVE Loop!Spec => []Loop!RequestsAreFunded
BY LoopKeepsInv, PTL DEF LoopInv

\* What a brief that was taken cites was read, now or before (_validated_finish).
THEOREM CitationsWereRead ==
  ASSUME Loop!ResearchLoopAssumption PROVE Loop!Spec => []Loop!CitedWasRead
BY LoopKeepsInv, PTL DEF LoopInv

\* A result exceeds no budget and brings no more pages than were counted,
\* whatever the model asked for: _validate_result_contract never refuses it for
\* budget_exceeded, nor for its pages.
WithinBudget ==
  outcome = "result" => ~ Loop!Exceeded /\ Loop!Cardinality(sources) <= used.pages
THEOREM ResultsWithinBudget ==
  ASSUME Loop!ResearchLoopAssumption PROVE Loop!Spec => []WithinBudget
<1>1. LoopInv => WithinBudget
  BY SameCardinality DEF LoopInv, PagesCounted, WithinBudget
<1> QED
  BY <1>1, LoopKeepsInv, PTL

\* Type correctness of the loop: among it, that no counter of its use and no
\* allowance of a request becomes negative (_MutableUsage).
THEOREM ResearchTypeCorrect ==
  ASSUME Loop!ResearchLoopAssumption PROVE Loop!Spec => []Loop!TypeOK
BY LoopKeepsInv, PTL DEF LoopInv

-----------------------------------------------------------------------------
(* A provider of language models (LLMProviders).  ProviderInv is inductive:  *)
(* a test holds the row, so what it was started with is what it passes; what *)
(* workers have read may be old, but was so at the time of their reports.    *)

CONSTANTS Workers, Jobs, MaxConf, MaxCred, TestTTL, BeatTTL, Reported
VARIABLES provider, shadow, secret, ring, lock, wk, beats, call, readyAt
Providers == INSTANCE LLMProviders WITH row <- provider

ProviderRow ==
  [there : BOOLEAN, conf : 0..MaxConf, enabled : BOOLEAN,
   can : [Providers!Capabilities -> Providers!States], replace : BOOLEAN,
   at : 0..MaxTime, same : BOOLEAN]
ProviderLock ==
  [pc : {"probe"}, at : 0..MaxTime, conf : 1..MaxConf, cred : 1..MaxCred]
  \cup [pc : {"free", "counted"}, at : 0..MaxTime]
Reader == [pc : {"idle", "observe", "call"}, job : Jobs \cup {0}, at : 0..MaxTime, view : ProviderRow]
Beat == [at : 0..MaxTime, says : [Reported -> {"none", "available", "unavailable"}]]
ProviderCall ==
  [st : {"none", "queued", "running", "called", "failed"}, conf : 0..MaxConf, cred : 0..MaxCred]

ProviderTypes ==
  /\ provider \in ProviderRow /\ provider.conf # 0
  /\ secret \in [cred : 1..MaxCred, key : Keys]
  /\ ring \in [Workers \cup {"api"} -> SUBSET Keys]
  /\ lock \in ProviderLock
  /\ wk \in [Workers -> Reader] /\ beats \in [Workers -> Beat]
  /\ call \in [Jobs -> ProviderCall]
  /\ now \in 1..MaxTime /\ passed \subseteq (1..MaxConf) \X (1..MaxCred)
  /\ readyAt \in [Reported -> 0..MaxTime]

\* While a test waits for the provider, nothing changes under it.
ProbeInv == lock.pc = "probe" => lock.conf = provider.conf /\ lock.cred = secret.cred

\* A worker calls with a configuration that passed.
CallerInv ==
  \A w \in Workers : wk[w].pc = "call" =>
    \E q \in passed : q[1] = wk[w].view.conf /\ q[2] <= secret.cred

\* What a worker has read was ready when it read it.
ViewReady(w, c) ==
  LET v == wk[w].view IN
  v.there /\ v.enabled /\ v.can[c] = "ready" /\ v.at # 0 /\ v.same /\ v.at >= wk[w].at - TestTTL

ReportHolds(w) ==
  /\ wk[w].pc = "observe" =>
       /\ wk[w].at \in 1..now
       /\ \A c \in Reported :
            ViewReady(w, c) /\ wk[w].at + BeatTTL > now => readyAt[c] >= wk[w].at
  /\ \A c \in Reported :
       beats[w].says[c] = "available" =>
         /\ beats[w].at \in 1..now
         /\ beats[w].at + BeatTTL > now => readyAt[c] >= beats[w].at

ReportInv == \A w \in Workers : ReportHolds(w)

ProviderInv ==
  /\ ProviderTypes /\ ProbeInv
  /\ Providers!ReadyIsTested /\ Providers!CallsAreTested
  /\ CallerInv /\ ReportInv

\* A finite set of numbers has a largest one: the one with the fewest above it.
LEMMA LargestKey ==
  ASSUME NEW S, S \subseteq Nat, S # {}, IsFiniteSet(S)
  PROVE  \E k \in S : \A j \in S : j <= k
<1> DEFINE Above(k) == {j \in S : k < j}
<1>1. \A k \in S : IsFiniteSet(Above(k)) /\ Cardinality(Above(k)) \in Nat
  BY FS_Subset, FS_CardinalityType
<1>2. PICK T : T = {Cardinality(Above(k)) : k \in S}
  OBVIOUS
<1>3. T \subseteq Nat /\ T # {}
  BY <1>1, <1>2
<1>4. PICK R : R = OpToRel(<, Nat)
  OBVIOUS
<1>5. IsWellFoundedOn(R, Nat)
  BY <1>4, NatLessThanWellFounded
<1>6. PICK x \in T : \A y \in T : ~ (<<y, x>> \in R)
  BY <1>3, <1>5, WFMin
<1>7. PICK k \in S : x = Cardinality(Above(k))
  BY <1>2, <1>6
<1>8. ASSUME NEW j \in S, ~ (j <= k) PROVE FALSE
  <2>0. j \in Nat /\ k \in Nat /\ k < j
    BY <1>8
  <2>1. Above(j) \subseteq Above(k) /\ j \in Above(k) /\ j \notin Above(j)
    <3>1. ASSUME NEW l \in Above(j) PROVE l \in Above(k)
      <4>1. l \in S /\ l \in Nat /\ j < l
        OBVIOUS
      <4>2. k < l
        BY <2>0, <4>1
      <4> QED
        BY <4>1, <4>2
    <3>2. j \in Above(k)
      BY <2>0
    <3>3. ~ (j < j)
      BY <2>0
    <3> QED
      BY <3>1, <3>2, <3>3
  <2>2. Cardinality(Above(j)) <= Cardinality(Above(k))
        /\ Cardinality(Above(j)) # Cardinality(Above(k))
    <3>1. IsFiniteSet(Above(k)) /\ Above(j) \in SUBSET Above(k) /\ Above(k) # Above(j)
      BY <1>1, <2>1
    <3> HIDE DEF Above
    <3> QED
      BY <3>1, FS_Subset
  <2>3. Cardinality(Above(j)) \in Nat /\ Cardinality(Above(k)) \in Nat
    BY <1>1
  <2>4. Cardinality(Above(j)) \in T
    BY <1>2
  <2>5. <<Cardinality(Above(j)), x>> \in R
    <3> HIDE DEF Above
    <3> QED
      BY <1>4, <1>7, <2>2, <2>3 DEF OpToRel
  <2> QED
    BY <1>6, <2>4, <2>5
<1> QED
  BY <1>8

LEMMA SmallestKey ==
  ASSUME NEW S, S \subseteq Nat, S # {} PROVE \E k \in S : \A j \in S : k <= j
<1>1. PICK R : R = OpToRel(<, Nat)
  OBVIOUS
<1>2. IsWellFoundedOn(R, Nat)
  BY <1>1, NatLessThanWellFounded
<1>3. PICK k \in S : \A j \in S : ~ (<<j, k>> \in R)
  BY <1>2, WFMin
<1>4. \A x, y \in Nat : y < x => <<y, x>> \in R
  BY <1>1 DEF OpToRel
<1>5. ASSUME NEW j \in S PROVE k <= j
  <2>1. k \in Nat /\ j \in Nat /\ ~ (j < k)
    BY <1>3, <1>4
  <2> QED
    BY <2>1
<1> QED
  BY <1>5

LEMMA ProviderConstants ==
  ASSUME Providers!LLMProvidersAssumption
  PROVE  /\ Keys \subseteq Nat /\ Keys # {} /\ IsFiniteSet(Keys)
         /\ MaxConf \in Nat \ {0} /\ MaxCred \in Nat \ {0} /\ Jobs \subseteq Nat \ {0}
         /\ MaxTime \in Nat \ {0} /\ TestTTL \in Nat /\ BeatTTL \in Nat
BY DEF Providers!LLMProvidersAssumption, Providers!IsFiniteSet, IsFiniteSet

LEMMA ProviderTyped ==
  ASSUME Providers!LLMProvidersAssumption, ProviderInv PROVE Providers!TypeOK
BY ProviderConstants
DEF ProviderInv, ProviderTypes, ProviderRow, ProviderLock, Reader, Beat, ProviderCall,
    Providers!TypeOK

LEMMA ViewsAre ==
  ASSUME Providers!LLMProvidersAssumption
  PROVE  /\ Providers!NoView \in ProviderRow /\ Providers!Idle \in Reader
         /\ Providers!Idle.pc = "idle" /\ Providers!NoCall \in ProviderCall
         /\ Providers!NoBeat \in Beat /\ Providers!Free \in ProviderLock
         /\ Providers!Free.pc = "free"
         /\ \A c \in Reported : Providers!NoBeat.says[c] = "none"
         /\ Providers!NoCall.st = "none"
<1>1. Providers!NoView \in ProviderRow
  BY ProviderConstants DEF Providers!NoView, Providers!Untested, ProviderRow, Providers!States
<1>2. Providers!Idle \in Reader /\ Providers!Idle.pc = "idle"
  BY <1>1, ProviderConstants DEF Providers!Idle, Reader
<1>3. /\ Providers!NoCall \in ProviderCall /\ Providers!NoBeat \in Beat
      /\ \A c \in Reported : Providers!NoBeat.says[c] = "none" /\ Providers!NoCall.st = "none"
  BY ProviderConstants DEF Providers!NoCall, ProviderCall, Providers!NoBeat, Beat
<1>4. Providers!Free \in ProviderLock /\ Providers!Free.pc = "free"
  BY ProviderConstants DEF Providers!Free, ProviderLock
<1> QED
  BY <1>1, <1>2, <1>3, <1>4 DEF Providers!NoCall

LEMMA ProviderStarts ==
  ASSUME Providers!LLMProvidersAssumption, Providers!Init PROVE ProviderInv
<1> USE ProviderConstants, ViewsAre
<1>1. PICK first \in Keys : \A j \in Keys : first <= j
  BY SmallestKey
<1>2. (CHOOSE k \in Keys : \A j \in Keys : k <= j) \in Keys
  BY <1>1
<1>3. /\ provider = [there |-> TRUE, conf |-> 1, enabled |-> FALSE,
                     can |-> Providers!Untested, replace |-> FALSE, at |-> 0, same |-> TRUE]
      /\ shadow = [there |-> TRUE, conf |-> 1, enabled |-> FALSE]
  BY DEF Providers!Init, Providers!NoView
<1>4. Providers!Untested \in [Providers!Capabilities -> Providers!States]
      /\ Providers!Untested["generation"] = "unknown"
  BY DEF Providers!Untested, Providers!Capabilities, Providers!States
<1>5. provider \in ProviderRow /\ provider.conf # 0
  BY <1>3, <1>4 DEF ProviderRow
<1>6. /\ lock = Providers!Free /\ wk = [w \in Workers |-> Providers!Idle]
      /\ beats = [w \in Workers |-> Providers!NoBeat]
      /\ call = [j \in Jobs |-> Providers!NoCall] /\ now = 1
      /\ passed = {} /\ readyAt = [c \in Reported |-> 0]
  BY DEF Providers!Init
<1>7. secret \in [cred : 1..MaxCred, key : Keys] /\ ring \in [Workers \cup {"api"} -> SUBSET Keys]
  <2>1. PICK k \in Keys : /\ ring = [p \in Workers \cup {"api"} |-> {k}]
                          /\ secret = [cred |-> 1, key |-> k]
    BY <1>2 DEF Providers!Init
  <2> QED
    BY <2>1
<1>8. ProviderTypes
  BY <1>5, <1>6, <1>7 DEF ProviderTypes
<1>9. ProbeInv /\ CallerInv /\ ReportInv /\ Providers!CallsAreTested
  BY <1>6 DEF ProbeInv, CallerInv, ReportInv, ReportHolds, Providers!CallsAreTested
<1>10. Providers!ReadyIsTested
  BY <1>3, <1>4 DEF Providers!ReadyIsTested, Providers!Shadowed
<1> QED
  BY <1>8, <1>9, <1>10 DEF ProviderInv

\* What a step notes about readiness.
ReadyNoted ==
  readyAt' = [c \in Reported |-> IF Providers!ReadyThen(c) THEN now' ELSE Providers!Recent(readyAt[c])]

\* An instant of readiness is remembered as long as a report of it is alive.
LEMMA StillReady ==
  ASSUME Providers!LLMProvidersAssumption, ProviderTypes, ReadyNoted,
         now' = now \/ now' = now + 1, NEW c \in Reported,
         NEW a \in 0..now, a + BeatTTL > now', readyAt[c] >= a
  PROVE  readyAt'[c] >= a
<1> USE ProviderConstants
<1>1. now \in 1..MaxTime /\ readyAt[c] \in 0..MaxTime
  BY DEF ProviderTypes
<1>2. readyAt'[c] = IF Providers!ReadyThen(c) THEN now' ELSE Providers!Recent(readyAt[c])
  BY DEF ReadyNoted
<1>3. CASE Providers!ReadyThen(c)
  BY <1>1, <1>2, <1>3
<1>4. CASE ~ Providers!ReadyThen(c)
  BY <1>1, <1>2, <1>4 DEF Providers!Recent
<1> QED
  BY <1>3, <1>4

LEMMA ReadyTyped ==
  ASSUME Providers!LLMProvidersAssumption, ProviderTypes, ReadyNoted, now' \in 1..MaxTime
  PROVE  readyAt' \in [Reported -> 0..MaxTime]
<1>1. \A c \in Reported : readyAt[c] \in 0..MaxTime
  BY DEF ProviderTypes
<1>2. \A c \in Reported : Providers!Recent(readyAt[c]) \in 0..MaxTime
  BY <1>1, ProviderConstants DEF Providers!Recent
<1> QED
  BY <1>2, ProviderConstants DEF ReadyNoted

\* A worker that neither begins to observe nor reports.
LEMMA ReportStays ==
  ASSUME Providers!LLMProvidersAssumption, ProviderInv, ReadyNoted,
         now' = now \/ now' = now + 1, NEW w \in Workers, beats'[w] = beats[w],
         wk'[w] = wk[w] \/ wk'[w].pc # "observe"
  PROVE  ReportHolds(w)'
<1> USE ProviderConstants
<1>1. ProviderTypes /\ ReportInv /\ now \in 1..MaxTime
  BY DEF ProviderInv, ProviderTypes
<1>2. ASSUME wk'[w].pc = "observe"
      PROVE  /\ wk'[w].at \in 1..now'
             /\ \A c \in Reported :
                  ViewReady(w, c)' /\ wk'[w].at + BeatTTL > now' => readyAt'[c] >= wk'[w].at
  <2>1. wk'[w] = wk[w] /\ wk[w].at \in 1..now
    BY <1>1, <1>2 DEF ReportInv, ReportHolds
  <2>2. ASSUME NEW c \in Reported, ViewReady(w, c)', wk'[w].at + BeatTTL > now'
        PROVE  readyAt'[c] >= wk'[w].at
    <3>1. ViewReady(w, c) /\ wk[w].at + BeatTTL > now
      BY <1>1, <2>1, <2>2 DEF ViewReady
    <3>2. readyAt[c] >= wk[w].at
      BY <1>1, <1>2, <2>1, <3>1 DEF ReportInv, ReportHolds
    <3>3. wk[w].at \in 0..now /\ wk[w].at + BeatTTL > now'
      BY <2>1, <2>2
    <3> QED
      BY <1>1, <2>1, <3>2, <3>3, StillReady
  <2> QED
    BY <1>1, <2>1, <2>2
<1>3. ASSUME NEW c \in Reported, beats'[w].says[c] = "available"
      PROVE  /\ beats'[w].at \in 1..now'
             /\ beats'[w].at + BeatTTL > now' => readyAt'[c] >= beats'[w].at
  <2>1. beats[w].at \in 1..now /\ (beats[w].at + BeatTTL > now => readyAt[c] >= beats[w].at)
    BY <1>1, <1>3 DEF ReportInv, ReportHolds
  <2>2. CASE beats[w].at + BeatTTL > now'
    <3>1. beats[w].at + BeatTTL > now
      BY <1>1, <2>1, <2>2
    <3>2. beats[w].at \in 0..now
      BY <2>1
    <3>3. readyAt'[c] >= beats[w].at
      BY <1>1, <2>1, <2>2, <3>1, <3>2, StillReady
    <3> QED
      BY <1>1, <2>1, <3>3
  <2> QED
    BY <1>1, <2>1, <2>2
<1> QED
  BY <1>2, <1>3 DEF ReportHolds

LEMMA ReportsStay ==
  ASSUME Providers!LLMProvidersAssumption, ProviderInv, ReadyNoted,
         now' = now \/ now' = now + 1, beats' = beats,
         \A w \in Workers : wk'[w] = wk[w] \/ wk'[w].pc # "observe"
  PROVE  ReportInv'
<1>1. ASSUME NEW w \in Workers PROVE ReportHolds(w)'
  BY ReportStays
<1> QED
  BY <1>1 DEF ReportInv

\* A request of the operator changes the row, the credential or the lock.
LEMMA RowChanges ==
  ASSUME Providers!LLMProvidersAssumption, ProviderInv, ReadyNoted,
         UNCHANGED <<ring, wk, beats, call, now>>,
         provider' \in ProviderRow, provider'.conf # 0,
         secret' \in [cred : 1..MaxCred, key : Keys], secret.cred <= secret'.cred,
         passed \subseteq passed', passed' \subseteq (1..MaxConf) \X (1..MaxCred),
         lock' \in ProviderLock, ProbeInv', Providers!ReadyIsTested'
  PROVE  ProviderInv'
<1> USE ProviderConstants
<1>1. ProviderTypes /\ CallerInv /\ Providers!CallsAreTested
  BY DEF ProviderInv
<1>2. ProviderTypes'
  <2>1. readyAt' \in [Reported -> 0..MaxTime]
    BY <1>1, ReadyTyped DEF ProviderTypes
  <2> QED
    BY <1>1, <2>1 DEF ProviderTypes
<1>3. CallerInv'
  <2> SUFFICES ASSUME NEW w \in Workers, wk'[w].pc = "call"
               PROVE  \E q \in passed' : q[1] = wk'[w].view.conf /\ q[2] <= secret'.cred
    BY DEF CallerInv
  <2>1. PICK q \in passed : q[1] = wk[w].view.conf /\ q[2] <= secret.cred
    BY <1>1 DEF CallerInv
  <2>2. q[2] \in Int /\ secret.cred \in Int /\ secret'.cred \in Int
    BY <1>1 DEF ProviderTypes
  <2> QED
    BY <2>1, <2>2
<1>4. Providers!CallsAreTested'
  BY <1>1 DEF Providers!CallsAreTested
<1>5. ReportInv'
  BY ReportsStay
<1> QED
  BY <1>2, <1>3, <1>4, <1>5 DEF ProviderInv

\* What a request makes of a row.
LEMMA RowsMade ==
  ASSUME Providers!LLMProvidersAssumption, NEW r \in ProviderRow
  PROVE  /\ Providers!Reset(r) \in ProviderRow /\ Providers!Reset(r).conf = r.conf
         /\ Providers!Reset(r).replace = r.replace
         /\ Providers!Reset(r).can["generation"] = "unknown"
         /\ Providers!Unusable(r) \in ProviderRow /\ Providers!Unusable(r).conf = r.conf
         /\ Providers!Unusable(r).enabled = FALSE
         /\ Providers!Unusable(r).can["generation"] = "unavailable"
<1> USE ProviderConstants
<1>1. PICK can : can = Providers!Untested
  OBVIOUS
<1>2. can \in [Providers!Capabilities -> Providers!States] /\ can["generation"] = "unknown"
  BY <1>1 DEF Providers!Untested, Providers!Capabilities, Providers!States
<1>3. Providers!Reset(r) = [r EXCEPT !.can = can, !.at = 0, !.same = TRUE]
  BY <1>1 DEF Providers!Reset
<1>4. PICK bad : bad = [c \in Providers!Capabilities |-> "unavailable"]
  OBVIOUS
<1>5. bad \in [Providers!Capabilities -> Providers!States] /\ bad["generation"] = "unavailable"
  BY <1>4 DEF Providers!Capabilities, Providers!States
<1>6. Providers!Unusable(r) = [r EXCEPT !.enabled = FALSE, !.can = bad, !.replace = TRUE]
  BY <1>4 DEF Providers!Unusable
<1>7. Providers!Reset(r) \in ProviderRow
  <2>1. PICK zero, yes : zero = 0 /\ yes = TRUE
    OBVIOUS
  <2>2. zero \in 0..MaxTime /\ yes \in BOOLEAN
    BY <2>1
  <2>3. [r EXCEPT !.can = can, !.at = zero, !.same = yes] \in ProviderRow
    BY <1>2, <2>2 DEF ProviderRow
  <2> QED
    BY <1>3, <2>1, <2>3
<1>8. /\ Providers!Reset(r).conf = r.conf /\ Providers!Reset(r).replace = r.replace
      /\ Providers!Reset(r).can["generation"] = "unknown"
  BY <1>2, <1>3 DEF ProviderRow
<1>9. Providers!Unusable(r) \in ProviderRow
  BY <1>5, <1>6 DEF ProviderRow
<1>10. /\ Providers!Unusable(r).conf = r.conf /\ Providers!Unusable(r).enabled = FALSE
       /\ Providers!Unusable(r).can["generation"] = "unavailable"
  BY <1>5, <1>6 DEF ProviderRow
<1> QED
  BY <1>7, <1>8, <1>9, <1>10

\* A row that was not tested, stored while no test is under way.
LEMMA StoredUntested ==
  ASSUME Providers!LLMProvidersAssumption, ProviderInv, ReadyNoted,
         UNCHANGED <<ring, wk, beats, call, now, passed>>,
         NEW r \in ProviderRow, Providers!Store(r), r.conf # 0,
         r.can["generation"] # "ready", r.replace => ~r.enabled /\ r.can["generation"] = "unavailable",
         secret' \in [cred : 1..MaxCred, key : Keys], secret.cred <= secret'.cred,
         lock' \in ProviderLock, lock'.pc # "probe"
  PROVE  ProviderInv'
<1>1. provider' = r /\ shadow' = Providers!Shadowed(r)
  BY DEF Providers!Store
<1>2. Providers!ReadyIsTested'
  BY <1>1 DEF Providers!ReadyIsTested, Providers!Shadowed
<1>3. ProbeInv'
  BY DEF ProbeInv
<1>4. passed' = passed /\ passed \subseteq (1..MaxConf) \X (1..MaxCred)
  BY DEF ProviderInv, ProviderTypes
<1> QED
  BY <1>1, <1>2, <1>3, <1>4, RowChanges

LEMMA ProviderEdits ==
  ASSUME Providers!LLMProvidersAssumption, ProviderInv, ReadyNoted,
         Providers!Patch \/ Providers!RotateSecret \/ Providers!CannotTest \/ Providers!TestFailed
  PROVE  ProviderInv'
<1> USE ProviderConstants
<1>1. ProviderTypes /\ ProbeInv /\ Providers!ReadyIsTested
      /\ provider \in ProviderRow /\ provider.conf \in 1..MaxConf
      /\ secret \in [cred : 1..MaxCred, key : Keys] /\ secret.cred \in 1..MaxCred
      /\ lock \in ProviderLock
  BY DEF ProviderInv, ProviderTypes, ProviderRow
<1>2. secret.cred <= secret.cred
  BY <1>1
<1>3. CASE Providers!Patch
  <2>1. /\ lock.pc = "free" /\ provider.conf < MaxConf
        /\ UNCHANGED <<ring, wk, beats, call, now, passed, secret, lock>>
    BY <1>3 DEF Providers!Patch, Providers!Changes, Providers!Locked, Providers!NotRow
  <2>2. PICK n, s : n = provider.conf + 1 /\ s = Providers!Reset(provider)
    OBVIOUS
  <2>3. n \in 1..MaxConf /\ s \in ProviderRow /\ s.conf = provider.conf
        /\ s.can["generation"] = "unknown" /\ s.replace = provider.replace
    <3>1. n \in 1..MaxConf
      BY <1>1, <2>1, <2>2
    <3> QED
      BY <1>1, <2>2, <3>1, RowsMade
  <2>4. PICK r : r = [s EXCEPT !.conf = n]
    OBVIOUS
  <2>5. r \in ProviderRow /\ r.conf = n /\ r.can["generation"] = "unknown"
        /\ r.replace = provider.replace
    BY <2>3, <2>4 DEF ProviderRow
  <2>6. r = [Providers!Reset(provider) EXCEPT !.conf = @ + 1]
    BY <2>2, <2>3, <2>4
  <2>7. Providers!Store(IF provider.replace THEN Providers!Unusable(r) ELSE r)
    BY <1>3, <2>6 DEF Providers!Patch
  <2>8. CASE provider.replace
    <3>1. PICK u : u = Providers!Unusable(r)
      OBVIOUS
    <3>2. Providers!Store(u)
      BY <2>7, <2>8, <3>1
    <3>3. /\ u \in ProviderRow /\ u.conf = n /\ u.enabled = FALSE
          /\ u.can["generation"] = "unavailable"
      BY <2>5, <3>1, RowsMade
    <3> QED
      BY <1>1, <1>2, <2>1, <2>3, <3>2, <3>3, StoredUntested
  <2>9. CASE ~provider.replace
    <3>1. Providers!Store(r) /\ ~ r.replace
      BY <2>5, <2>7, <2>9
    <3> QED
      BY <1>1, <1>2, <2>1, <2>3, <2>5, <3>1, StoredUntested
  <2> QED
    BY <2>8, <2>9
<1>4. CASE Providers!RotateSecret
  <2>1. /\ lock.pc = "free" /\ secret.cred < MaxCred /\ ring["api"] # {}
        /\ UNCHANGED <<ring, wk, beats, call, now, passed, lock>>
        /\ secret' = [cred |-> secret.cred + 1, key |-> Providers!Active]
    BY <1>4 DEF Providers!RotateSecret, Providers!Changes, Providers!Locked, Providers!NotRow
  <2>2. Providers!Active \in Keys
    <3>1. ring["api"] \subseteq Keys /\ ring["api"] # {}
      BY <1>1, <2>1 DEF ProviderTypes
    <3>2. IsFiniteSet(ring["api"]) /\ ring["api"] \subseteq Nat
      BY <3>1, FS_Subset
    <3>3. \E k \in ring["api"] : \A j \in ring["api"] : j <= k
      BY <3>1, <3>2, LargestKey
    <3> QED
      BY <3>1, <3>3 DEF Providers!Active
  <2>3. secret' \in [cred : 1..MaxCred, key : Keys] /\ secret.cred <= secret'.cred
    BY <1>1, <2>1, <2>2
  <2>4. PICK s : s = Providers!Reset(provider)
    OBVIOUS
  <2>5. s \in ProviderRow /\ s.conf = provider.conf /\ s.can["generation"] = "unknown"
    BY <1>1, <2>4, RowsMade
  <2>6. PICK r : r = [s EXCEPT !.enabled = FALSE, !.replace = FALSE]
    OBVIOUS
  <2>7. r \in ProviderRow /\ r.conf = provider.conf /\ r.can["generation"] = "unknown"
        /\ ~ r.replace
    BY <2>5, <2>6 DEF ProviderRow
  <2>8. Providers!Store(r)
    BY <1>4, <2>4, <2>6 DEF Providers!RotateSecret
  <2> QED
    BY <1>1, <2>1, <2>3, <2>7, <2>8, StoredUntested
<1>5. CASE Providers!CannotTest
  <2>1. /\ lock.pc = "free" /\ UNCHANGED <<ring, wk, beats, call, now, passed, secret, lock>>
    BY <1>5 DEF Providers!CannotTest, Providers!Changes, Providers!Locked, Providers!NotRow
  <2>2. PICK s : s = [provider EXCEPT !.same = TRUE]
    OBVIOUS
  <2>3. s \in ProviderRow /\ s.conf = provider.conf
    BY <1>1, <2>2 DEF ProviderRow
  <2>4. PICK u : u = Providers!Unusable(s)
    OBVIOUS
  <2>5. Providers!Store(u)
    BY <1>5, <2>2, <2>4 DEF Providers!CannotTest
  <2>6. /\ u \in ProviderRow /\ u.conf = provider.conf /\ u.enabled = FALSE
        /\ u.can["generation"] = "unavailable"
    BY <2>3, <2>4, RowsMade
  <2> QED
    BY <1>1, <1>2, <2>1, <2>5, <2>6, StoredUntested
<1>6. CASE Providers!TestFailed
  <2>1. lock' = Providers!Free /\ UNCHANGED <<ring, wk, beats, call, now, passed, secret>>
    BY <1>6 DEF Providers!TestFailed, Providers!NotRow
  <2>2. PICK bad : bad = [c \in Providers!Capabilities |-> "unavailable"]
    OBVIOUS
  <2>3. bad \in [Providers!Capabilities -> Providers!States] /\ bad["generation"] = "unavailable"
    BY <2>2 DEF Providers!Capabilities, Providers!States
  <2>4. PICK r : r = [provider EXCEPT !.can = bad, !.enabled = FALSE, !.same = TRUE, !.replace = FALSE]
    OBVIOUS
  <2>5. r \in ProviderRow /\ r.conf = provider.conf /\ r.can["generation"] = "unavailable"
        /\ ~ r.replace
    BY <1>1, <2>3, <2>4 DEF ProviderRow
  <2>6. Providers!Store(r)
    BY <1>6, <2>2, <2>4 DEF Providers!TestFailed
  <2> QED
    BY <1>1, <1>2, <2>1, <2>5, <2>6, ViewsAre, StoredUntested
<1> QED
  BY <1>3, <1>4, <1>5, <1>6

\* A test and what it finds; the row and the credential are those it began with.
LEMMA ProviderTests ==
  ASSUME Providers!LLMProvidersAssumption, ProviderInv, ReadyNoted,
         \/ Providers!StartTest \/ Providers!RequestLost \/ Providers!CountDependencies
         \/ \E r \in Providers!Probes : Providers!TestPassed(r)
  PROVE  ProviderInv'
<1> USE ProviderConstants
<1>1. ProviderTypes /\ ProbeInv /\ Providers!ReadyIsTested
      /\ provider \in ProviderRow /\ provider.conf \in 1..MaxConf
      /\ secret \in [cred : 1..MaxCred, key : Keys] /\ secret.cred \in 1..MaxCred
      /\ lock \in ProviderLock /\ now \in 1..MaxTime
      /\ passed \subseteq (1..MaxConf) \X (1..MaxCred)
  BY DEF ProviderInv, ProviderTypes, ProviderRow
<1>2. secret.cred <= secret.cred
  BY <1>1
<1>3. CASE Providers!StartTest \/ Providers!RequestLost \/ Providers!CountDependencies
  <2>1. UNCHANGED <<ring, wk, beats, call, now, passed, secret, provider, shadow>>
    BY <1>3 DEF Providers!StartTest, Providers!RequestLost, Providers!CountDependencies,
       Providers!NotRow
  <2>2. lock' \in ProviderLock /\ ProbeInv'
    <3>1. CASE Providers!StartTest
      <4>1. lock' = [pc |-> "probe", at |-> now, conf |-> provider.conf, cred |-> secret.cred]
        BY <3>1 DEF Providers!StartTest
      <4>2. lock' \in ProviderLock
        BY <1>1, <4>1 DEF ProviderLock
      <4> QED
        BY <2>1, <4>1, <4>2 DEF ProbeInv
    <3>2. CASE Providers!RequestLost
      BY <3>2, ViewsAre DEF Providers!RequestLost, ProbeInv
    <3>3. CASE Providers!CountDependencies
      <4>1. lock' = [pc |-> "counted", at |-> now]
        BY <3>3 DEF Providers!CountDependencies
      <4>2. lock' \in ProviderLock /\ lock'.pc = "counted"
        BY <1>1, <4>1 DEF ProviderLock
      <4> QED
        BY <4>2 DEF ProbeInv
    <3> QED
      BY <1>3, <3>1, <3>2, <3>3
  <2>3. Providers!ReadyIsTested'
    BY <1>1, <2>1 DEF Providers!ReadyIsTested, Providers!Shadowed
  <2> QED
    BY <1>1, <1>2, <2>1, <2>2, <2>3, RowChanges
<1>4. ASSUME NEW p \in Providers!Probes, Providers!TestPassed(p) PROVE ProviderInv'
  <2>1. /\ lock.pc = "probe" /\ lock' = Providers!Free
        /\ passed' = passed \cup {<<lock.conf, lock.cred>>}
        /\ UNCHANGED <<ring, wk, beats, call, now, secret>>
    BY <1>4 DEF Providers!TestPassed, Providers!NotRow
  <2>2. /\ lock.conf = provider.conf /\ lock.cred = secret.cred /\ lock.at \in 0..MaxTime
    BY <1>1, <2>1 DEF ProbeInv, ProviderLock
  <2>3. PICK can, at : /\ can = [c \in Providers!Capabilities |->
                                  IF c \in p.answers THEN "ready" ELSE "unavailable"]
                       /\ at = lock.at
    OBVIOUS
  <2>4. can \in [Providers!Capabilities -> Providers!States] /\ at \in 0..MaxTime
    BY <2>2, <2>3 DEF Providers!States
  <2>5. PICK same : same = p.same
    OBVIOUS
  <2>6. same \in BOOLEAN
    BY <2>5 DEF Providers!Probes
  <2>7. PICK r : r = [provider EXCEPT !.can = can, !.at = at, !.same = same, !.replace = FALSE]
    OBVIOUS
  <2>8. r \in ProviderRow
    BY <1>1, <2>4, <2>6, <2>7 DEF ProviderRow
  <2>9. r.conf = provider.conf /\ ~ r.replace
    BY <1>1, <2>7 DEF ProviderRow
  <2>10. provider' = r /\ shadow' = Providers!Shadowed(r)
    BY <1>4, <2>3, <2>5, <2>7 DEF Providers!TestPassed, Providers!Store
  <2>11. Providers!ReadyIsTested'
    BY <1>1, <2>1, <2>2, <2>9, <2>10 DEF Providers!ReadyIsTested, Providers!Shadowed
  <2>12. passed \subseteq passed' /\ passed' \subseteq (1..MaxConf) \X (1..MaxCred)
    BY <1>1, <2>1, <2>2
  <2>13. lock' \in ProviderLock /\ ProbeInv'
    BY <2>1, ViewsAre DEF ProbeInv
  <2> QED
    BY <1>1, <1>2, <2>1, <2>8, <2>9, <2>10, <2>11, <2>12, <2>13, RowChanges
<1> QED
  BY <1>3, <1>4

\* The row is switched, what is known of it stays.
LEMMA RowSwitched ==
  ASSUME Providers!LLMProvidersAssumption, ProviderInv, ReadyNoted,
         UNCHANGED <<ring, wk, beats, call, now, passed, secret>>,
         NEW r \in ProviderRow, Providers!Store(r), r.conf = provider.conf, r.can = provider.can,
         r.replace = provider.replace, r.there => provider.there,
         r.enabled => r.can["generation"] = "ready",
         lock' \in ProviderLock, lock'.pc # "probe"
  PROVE  ProviderInv'
<1> USE ProviderConstants
<1>1. ProviderTypes /\ Providers!ReadyIsTested /\ provider.conf # 0
      /\ secret \in [cred : 1..MaxCred, key : Keys] /\ secret.cred \in 1..MaxCred
      /\ passed \subseteq (1..MaxConf) \X (1..MaxCred)
  BY DEF ProviderInv, ProviderTypes
<1>2. provider' = r /\ shadow' = Providers!Shadowed(r)
  BY DEF Providers!Store
<1>3. secret'.cred = secret.cred /\ secret.cred <= secret'.cred /\ passed \subseteq passed'
  BY <1>1
<1>4. /\ provider'.there /\ provider'.can["generation"] = "ready"
            => <<provider'.conf, secret'.cred>> \in passed'
      /\ provider'.replace => ~provider'.enabled /\ provider'.can["generation"] = "unavailable"
  BY <1>1, <1>2, <1>3 DEF Providers!ReadyIsTested
<1>5. Providers!ReadyIsTested'
  BY <1>2, <1>4 DEF Providers!ReadyIsTested, Providers!Shadowed
<1>6. ProbeInv'
  BY DEF ProbeInv
<1> QED
  BY <1>1, <1>2, <1>3, <1>5, <1>6, RowChanges

LEMMA ProviderSwitches ==
  ASSUME Providers!LLMProvidersAssumption, ProviderInv, ReadyNoted,
         Providers!Enable \/ Providers!Disable \/ Providers!Delete
  PROVE  ProviderInv'
<1>1. provider \in ProviderRow
  BY DEF ProviderInv, ProviderTypes
<1>2. UNCHANGED <<ring, wk, beats, call, now, passed, secret>>
  BY DEF Providers!Enable, Providers!Disable, Providers!Delete, Providers!NotRow
<1>3. lock' \in ProviderLock /\ lock'.pc # "probe"
  <2>1. lock \in ProviderLock
    BY DEF ProviderInv, ProviderTypes
  <2> QED
    BY <2>1, ViewsAre DEF Providers!Enable, Providers!Disable, Providers!Delete,
       Providers!Changes, Providers!Locked
<1>4. CASE Providers!Enable
  <2>1. PICK r : r = [provider EXCEPT !.enabled = TRUE]
    OBVIOUS
  <2>2. /\ r \in ProviderRow /\ r.conf = provider.conf /\ r.can = provider.can
        /\ r.replace = provider.replace
    BY <1>1, <2>1 DEF ProviderRow
  <2>3. r.there = provider.there
    BY <1>1, <2>1 DEF ProviderRow
  <2>4. Providers!Store(r) /\ provider.can["generation"] = "ready"
    BY <1>4, <2>1 DEF Providers!Enable, Providers!ReadyForEnablement
  <2> QED
    BY <1>2, <1>3, <2>2, <2>3, <2>4, RowSwitched
<1>5. CASE Providers!Disable
  <2>1. PICK r : r = [provider EXCEPT !.enabled = FALSE]
    OBVIOUS
  <2>2. /\ r \in ProviderRow /\ r.conf = provider.conf /\ r.can = provider.can
        /\ r.replace = provider.replace /\ ~ r.enabled
    BY <1>1, <2>1 DEF ProviderRow
  <2>3. r.there = provider.there
    BY <1>1, <2>1 DEF ProviderRow
  <2>4. Providers!Store(r)
    BY <1>5, <2>1 DEF Providers!Disable
  <2> QED
    BY <1>2, <1>3, <2>2, <2>3, <2>4, RowSwitched
<1>6. CASE Providers!Delete
  <2>1. PICK r : r = [provider EXCEPT !.there = FALSE, !.enabled = FALSE]
    OBVIOUS
  <2>2. /\ r \in ProviderRow /\ r.conf = provider.conf /\ r.can = provider.can
        /\ r.replace = provider.replace /\ ~ r.enabled
    BY <1>1, <2>1 DEF ProviderRow
  <2>3. ~ r.there
    BY <1>1, <2>1 DEF ProviderRow
  <2>4. Providers!Store(r)
    BY <1>6, <2>1 DEF Providers!Delete
  <2> QED
    BY <1>2, <1>3, <2>2, <2>3, <2>4, RowSwitched
<1> QED
  BY <1>4, <1>5, <1>6

\* A step of a worker or of the clock leaves the provider and what passed alone.
LEMMA WorkersMove ==
  ASSUME Providers!LLMProvidersAssumption, ProviderInv, ReadyNoted,
         UNCHANGED <<provider, shadow, secret, passed>>, now' \in 1..MaxTime,
         ring' \in [Workers \cup {"api"} -> SUBSET Keys], lock' = lock \/ lock' = Providers!Free,
         wk' \in [Workers -> Reader], beats' \in [Workers -> Beat], call' \in [Jobs -> ProviderCall],
         CallerInv', Providers!CallsAreTested', ReportInv'
  PROVE  ProviderInv'
<1>1. ProviderTypes /\ ProbeInv /\ Providers!ReadyIsTested
  BY DEF ProviderInv
<1>2. ProviderTypes'
  <2>1. readyAt' \in [Reported -> 0..MaxTime]
    BY <1>1, ReadyTyped
  <2> QED
    BY <1>1, <2>1, ViewsAre DEF ProviderTypes
<1>3. ProbeInv'
  BY <1>1, ViewsAre DEF ProbeInv
<1>4. Providers!ReadyIsTested'
  BY <1>1 DEF Providers!ReadyIsTested, Providers!Shadowed
<1> QED
  BY <1>2, <1>3, <1>4 DEF ProviderInv

LEMMA CallersStay ==
  ASSUME ProviderInv, UNCHANGED <<secret, passed>>,
         \A w \in Workers : wk'[w] = wk[w] \/ wk'[w].pc # "call"
  PROVE  CallerInv'
BY DEF ProviderInv, CallerInv

LEMMA CallsStay ==
  ASSUME ProviderInv, UNCHANGED passed,
         \A j \in Jobs : call'[j] = call[j] \/ call'[j].st # "called"
  PROVE  Providers!CallsAreTested'
BY DEF ProviderInv, Providers!CallsAreTested

\* The job of a worker that stops is claimed again.
LEMMA JobRequeued ==
  ASSUME NEW c \in ProviderCall
  PROVE  [c EXCEPT !.st = "queued"] \in ProviderCall /\ [c EXCEPT !.st = "queued"].st = "queued"
BY DEF ProviderCall

LEMMA ProviderRekeys ==
  ASSUME Providers!LLMProvidersAssumption, ProviderInv, ReadyNoted,
         NEW p \in Workers \cup {"api"}, NEW given \in SUBSET Keys, Providers!Rekey(p, given)
  PROVE  ProviderInv'
<1>1. ProviderTypes
  BY DEF ProviderInv
<1>2. /\ ring' = [ring EXCEPT ![p] = given] /\ UNCHANGED <<provider, shadow, secret, beats, now, passed>>
      /\ call' = [j \in Jobs |-> IF p # "api" /\ wk[p].job = j
                                 THEN [call[j] EXCEPT !.st = "queued"] ELSE call[j]]
  BY DEF Providers!Rekey
<1>3. ring' \in [Workers \cup {"api"} -> SUBSET Keys]
  BY <1>1, <1>2 DEF ProviderTypes
<1>4. ASSUME NEW j \in Jobs
      PROVE  call'[j] \in ProviderCall /\ (call'[j] = call[j] \/ call'[j].st # "called")
  <2>1. call[j] \in ProviderCall
    BY <1>1 DEF ProviderTypes
  <2> QED
    BY <1>2, <2>1, JobRequeued
<1>5. call' \in [Jobs -> ProviderCall] /\ Providers!CallsAreTested'
  <2>1. PICK back : back = [j \in Jobs |-> IF p # "api" /\ wk[p].job = j
                                 THEN [call[j] EXCEPT !.st = "queued"] ELSE call[j]]
    OBVIOUS
  <2>2. call' = back /\ DOMAIN back = Jobs /\ back = [j \in Jobs |-> back[j]]
    BY <1>2, <2>1
  <2>3. call' \in [Jobs -> ProviderCall]
    BY <1>4, <2>2
  <2> QED
    BY <1>2, <1>4, <2>3, CallsStay
<1>6. lock' = lock \/ lock' = Providers!Free
  BY DEF Providers!Rekey
<1>7. wk' \in [Workers -> Reader] /\ \A w \in Workers : wk'[w] = wk[w] \/ wk'[w] = Providers!Idle
  <2>1. CASE p = "api"
    BY <1>1, <2>1 DEF Providers!Rekey, ProviderTypes
  <2>2. CASE p # "api"
    BY <1>1, <2>2, ViewsAre DEF Providers!Rekey, ProviderTypes
  <2> QED
    BY <2>1, <2>2
<1>8. CallerInv'
  BY <1>2, <1>7, ViewsAre, CallersStay
<1>9. ReportInv'
  BY <1>2, <1>7, ViewsAre, ReportsStay
<1>10. now' \in 1..MaxTime /\ beats' \in [Workers -> Beat]
  BY <1>1, <1>2 DEF ProviderTypes
<1> QED
  BY <1>2, <1>3, <1>5, <1>6, <1>7, <1>8, <1>9, <1>10, WorkersMove

LEMMA ProviderClock ==
  ASSUME Providers!LLMProvidersAssumption, ProviderInv, ReadyNoted, Providers!Tick
  PROVE  ProviderInv'
<1>1. ProviderTypes
  BY DEF ProviderInv
<1>2. /\ now < MaxTime /\ now' = now + 1
      /\ UNCHANGED <<provider, shadow, secret, ring, lock, wk, beats, call, passed>>
  BY DEF Providers!Tick
<1>3. now' \in 1..MaxTime
  BY <1>1, <1>2, ProviderConstants DEF ProviderTypes
<1>4. CallerInv' /\ Providers!CallsAreTested' /\ ReportInv'
  BY <1>2, CallersStay, CallsStay, ReportsStay
<1> QED
  BY <1>1, <1>2, <1>3, <1>4, WorkersMove DEF ProviderTypes

\* What a worker reads is ready now, when it is.
LEMMA WorkerObserves ==
  ASSUME Providers!LLMProvidersAssumption, ProviderInv, ReadyNoted,
         NEW w \in Workers, Providers!Observe(w)
  PROVE  ProviderInv'
<1> USE ProviderConstants
<1>1. ProviderTypes /\ provider \in ProviderRow /\ now \in 1..MaxTime
  BY DEF ProviderInv, ProviderTypes
<1>2. PICK found : found = [Providers!Idle EXCEPT !.pc = "observe", !.at = now, !.view = provider]
  OBVIOUS
<1>3. wk' = [wk EXCEPT ![w] = found]
      /\ UNCHANGED <<beats, call, provider, shadow, secret, ring, lock, now, passed>>
  BY <1>2 DEF Providers!Observe, Providers!NotWorker
<1>4. found \in Reader /\ found.pc = "observe" /\ found.at = now /\ found.view = provider
  <2>1. PICK none : none = Providers!NoView
    OBVIOUS
  <2>2. found = [pc |-> "observe", job |-> 0, at |-> now, view |-> provider]
    BY <1>2, <2>1 DEF Providers!Idle
  <2> QED
    BY <1>1, <2>2 DEF Reader
<1>5. wk' \in [Workers -> Reader] /\ wk'[w] = found
      /\ \A v \in Workers : v # w => wk'[v] = wk[v]
  BY <1>1, <1>3, <1>4 DEF ProviderTypes
<1>6. ASSUME NEW v \in Workers PROVE ReportHolds(v)'
  <2>1. CASE v # w
    BY <1>3, <1>5, <2>1, ReportStays
  <2>2. CASE v = w
    <3>1. ASSUME NEW c \in Reported, ViewReady(w, c)' PROVE readyAt'[c] >= now'
      <4>1. Providers!ReadyThen(c)
        BY <1>3, <1>4, <1>5, <3>1 DEF ViewReady, Providers!ReadyThen
      <4>2. readyAt'[c] = now'
        BY <4>1 DEF ReadyNoted
      <4> QED
        BY <1>1, <1>3, <4>2
    <3>2. wk'[w].at \in 1..now' /\ wk'[w].at = now'
      BY <1>1, <1>3, <1>4, <1>5
    <3>3. \A c \in Reported :
            beats'[w].says[c] = "available" =>
              /\ beats'[w].at \in 1..now'
              /\ beats'[w].at + BeatTTL > now' => readyAt'[c] >= beats'[w].at
      <4>1. ASSUME NEW c \in Reported, beats[w].says[c] = "available"
            PROVE  /\ beats[w].at \in 1..now
                   /\ beats[w].at + BeatTTL > now => readyAt'[c] >= beats[w].at
        <5>1. beats[w].at \in 1..now
              /\ (beats[w].at + BeatTTL > now => readyAt[c] >= beats[w].at)
          BY <4>1 DEF ProviderInv, ReportInv, ReportHolds
        <5>2. beats[w].at \in 0..now
          BY <5>1
        <5>3. beats[w].at + BeatTTL > now => readyAt'[c] >= beats[w].at
          BY <1>1, <1>3, <5>1, <5>2, StillReady
        <5> QED
          BY <5>1, <5>3
      <4> QED
        BY <1>3, <4>1
    <3> QED
      BY <2>2, <3>1, <3>2, <3>3 DEF ReportHolds
  <2> QED
    BY <2>1, <2>2
<1>7. ReportInv'
  BY <1>6 DEF ReportInv
<1>8. CallerInv' /\ Providers!CallsAreTested'
  BY <1>3, <1>4, <1>5, CallersStay, CallsStay
<1> QED
  BY <1>1, <1>3, <1>5, <1>7, <1>8, WorkersMove DEF ProviderTypes

\* It is reported as of the time it was read at.
LEMMA WorkerReports ==
  ASSUME Providers!LLMProvidersAssumption, ProviderInv, ReadyNoted,
         NEW w \in Workers, Providers!Report(w)
  PROVE  ProviderInv'
<1> USE ProviderConstants
<1>1. ProviderTypes /\ now \in 1..MaxTime /\ wk[w] \in Reader /\ wk[w].pc = "observe"
  BY DEF ProviderInv, ProviderTypes, Providers!Report
<1>2. PICK said : said = [c \in Reported |-> Providers!Says(w, c)]
  OBVIOUS
<1>3. PICK beat : beat = [at |-> wk[w].at, says |-> said]
  OBVIOUS
<1>4. /\ beats' = [beats EXCEPT ![w] = beat] /\ wk' = [wk EXCEPT ![w] = Providers!Idle]
      /\ UNCHANGED <<call, provider, shadow, secret, ring, lock, now, passed>>
  BY <1>2, <1>3 DEF Providers!Report, Providers!Stamp, Providers!NotWorker
<1>5. said \in [Reported -> {"none", "available", "unavailable"}]
  <2>1. \A c \in Reported : Providers!Says(w, c) \in {"none", "available", "unavailable"}
    BY DEF Providers!Says
  <2> QED
    BY <1>2, <2>1
<1>6. beat \in Beat /\ beat.at = wk[w].at /\ beat.says = said
  BY <1>1, <1>3, <1>5 DEF Beat, Reader
<1>7. wk' \in [Workers -> Reader] /\ beats' \in [Workers -> Beat]
      /\ \A v \in Workers : wk'[v] = wk[v] \/ wk'[v] = Providers!Idle
  BY <1>1, <1>4, <1>6, ViewsAre DEF ProviderTypes
<1>8. ASSUME NEW v \in Workers PROVE ReportHolds(v)'
  <2>1. CASE v # w
    <3>1. beats'[v] = beats[v] /\ wk'[v] = wk[v]
      BY <1>1, <1>4, <2>1 DEF ProviderTypes
    <3> QED
      BY <1>4, <3>1, ReportStays
  <2>2. CASE v = w
    <3>1. beats'[w] = beat /\ wk'[w] = Providers!Idle
      BY <1>1, <1>4 DEF ProviderTypes
    <3>2. /\ wk[w].at \in 1..now
          /\ \A c \in Reported :
               ViewReady(w, c) /\ wk[w].at + BeatTTL > now => readyAt[c] >= wk[w].at
      BY <1>1 DEF ProviderInv, ReportInv, ReportHolds
    <3>3. ASSUME NEW c \in Reported, said[c] = "available", wk[w].at + BeatTTL > now
          PROVE  readyAt'[c] >= wk[w].at
      <4>1. Providers!Says(w, c) = "available"
        BY <1>2, <3>3
      <4>2. wk[w].view.there /\ Providers!Ready(wk[w].view, c)
        BY <4>1 DEF Providers!Says
      <4>3. wk[w].view.at >= wk[w].at - TestTTL
        <5>1. wk[w].view.at \in 0..MaxTime /\ wk[w].view.at >= now - TestTTL
          BY <1>1, <4>2 DEF Providers!Ready, Providers!Fresh, Reader, ProviderRow
        <5> QED
          BY <1>1, <3>2, <5>1
      <4>4. ViewReady(w, c)
        BY <4>2, <4>3 DEF Providers!Ready, Providers!Fresh, ViewReady
      <4>5. readyAt[c] >= wk[w].at /\ wk[w].at \in 0..now
        BY <3>2, <3>3, <4>4
      <4> QED
        BY <1>1, <1>4, <3>3, <4>5, StillReady
    <3> QED
      BY <1>4, <1>6, <2>2, <3>1, <3>2, <3>3, ViewsAre DEF ReportHolds
  <2> QED
    BY <2>1, <2>2
<1>9. ReportInv'
  BY <1>8 DEF ReportInv
<1>10. CallerInv' /\ Providers!CallsAreTested'
  BY <1>4, <1>7, ViewsAre, CallersStay, CallsStay
<1> QED
  BY <1>1, <1>4, <1>7, <1>9, <1>10, WorkersMove DEF ProviderTypes

\* Requests, and workers that resolve, call and die.
LEMMA JobsMove ==
  ASSUME Providers!LLMProvidersAssumption, ProviderInv, ReadyNoted,
         \/ \E j \in Jobs : Providers!Request(j) \/ \E w \in Workers : Providers!Resolve(w, j)
         \/ \E w \in Workers : Providers!Die(w)
  PROVE  ProviderInv'
<1> USE ProviderConstants
<1>1. ProviderTypes /\ provider \in ProviderRow /\ secret.cred \in Nat
      /\ wk \in [Workers -> Reader] /\ call \in [Jobs -> ProviderCall]
  BY SMTT(20) DEF ProviderInv, ProviderTypes
<1>2. UNCHANGED <<beats, provider, shadow, secret, ring, lock, now, passed>>
  BY DEF Providers!Request, Providers!Resolve, Providers!Die, Providers!NotWorker
<1>3. ASSUME NEW j \in Jobs, NEW s \in {"queued", "running", "failed"},
             call' = [call EXCEPT ![j].st = s]
      PROVE  call' \in [Jobs -> ProviderCall] /\ Providers!CallsAreTested'
  <2>1. PICK c : c = [call[j] EXCEPT !.st = s]
    OBVIOUS
  <2>2. c \in ProviderCall /\ c.st = s
    BY <1>1, <2>1 DEF ProviderCall
  <2>3. call' = [call EXCEPT ![j] = c]
    BY <1>3, <2>1
  <2>4. call' \in [Jobs -> ProviderCall]
        /\ \A i \in Jobs : call'[i] = call[i] \/ call'[i].st # "called"
    BY <1>1, <2>2, <2>3
  <2> QED
    BY <1>2, <2>4, CallsStay
<1>4. ASSUME NEW j \in Jobs, Providers!Request(j) PROVE ProviderInv'
  <2>1. call' = [call EXCEPT ![j].st = "queued"] /\ wk' = wk
    BY <1>4 DEF Providers!Request
  <2> QED
    BY <1>1, <1>2, <1>3, <2>1, CallersStay, ReportsStay, WorkersMove DEF ProviderTypes
<1>5. ASSUME NEW j \in Jobs, NEW w \in Workers, Providers!Resolve(w, j) PROVE ProviderInv'
  <2>1. CASE provider.there /\ Providers!Ready(provider, "generation")
    <3>1. PICK go : go = [Providers!Idle EXCEPT !.pc = "call", !.job = j, !.view = provider]
      OBVIOUS
    <3>2. wk' = [wk EXCEPT ![w] = go] /\ call' = [call EXCEPT ![j].st = "running"]
      BY <1>5, <2>1, <3>1 DEF Providers!Resolve
    <3>3. go \in Reader /\ go.pc = "call" /\ go.view = provider
      <4>1. PICK none : none = Providers!NoView
        OBVIOUS
      <4>2. go = [pc |-> "call", job |-> j, at |-> 0, view |-> provider]
        BY <3>1, <4>1 DEF Providers!Idle
      <4> QED
        BY <1>1, <4>2 DEF Reader
    <3>4. wk' \in [Workers -> Reader] /\ wk'[w] = go
          /\ \A v \in Workers : v # w => wk'[v] = wk[v]
      BY <1>1, <3>2, <3>3
    <3>5. <<provider.conf, secret.cred>> \in passed
      BY <2>1 DEF ProviderInv, Providers!ReadyIsTested, Providers!Ready
    <3>6. CallerInv'
      <4>1. ASSUME NEW v \in Workers, wk'[v].pc = "call"
            PROVE  \E q \in passed' : q[1] = wk'[v].view.conf /\ q[2] <= secret'.cred
        <5>1. CASE v = w
          BY <1>1, <1>2, <3>3, <3>4, <3>5, <5>1
        <5>2. CASE v # w
          BY <1>2, <3>4, <4>1, <5>2 DEF ProviderInv, CallerInv
        <5> QED
          BY <5>1, <5>2
      <4> QED
        BY <4>1 DEF CallerInv
    <3>7. ReportInv'
      BY <1>2, <3>3, <3>4, ReportsStay
    <3> QED
      BY <1>1, <1>2, <1>3, <3>2, <3>4, <3>6, <3>7, WorkersMove DEF ProviderTypes
  <2>2. CASE ~ (provider.there /\ Providers!Ready(provider, "generation"))
    <3>1. call' = [call EXCEPT ![j].st = "failed"] /\ wk' = wk
      BY <1>5, <2>2 DEF Providers!Resolve
    <3> QED
      BY <1>1, <1>2, <1>3, <3>1, CallersStay, ReportsStay, WorkersMove DEF ProviderTypes
  <2> QED
    BY <2>1, <2>2
<1>6. ASSUME NEW w \in Workers, Providers!Die(w) PROVE ProviderInv'
  <2>1. wk' = [wk EXCEPT ![w] = Providers!Idle] /\ call' = [call EXCEPT ![wk[w].job].st = "queued"]
    BY <1>6 DEF Providers!Die
  <2>2. wk' \in [Workers -> Reader]
        /\ \A v \in Workers : wk'[v] = wk[v] \/ wk'[v] = Providers!Idle
    BY <1>1, <2>1, ViewsAre
  <2>3. call' \in [Jobs -> ProviderCall] /\ Providers!CallsAreTested'
    <3>1. CASE wk[w].job \in Jobs
      BY <1>3, <2>1, <3>1
    <3>2. CASE wk[w].job \notin Jobs
      <4>1. call' = call
        BY <1>1, <2>1, <3>2
      <4> QED
        BY <1>1, <1>2, <4>1, CallsStay
    <3> QED
      BY <3>1, <3>2
  <2>4. CallerInv' /\ ReportInv'
    BY <1>2, <2>2, ViewsAre, CallersStay, ReportsStay
  <2> QED
    BY <1>1, <1>2, <2>2, <2>3, <2>4, WorkersMove DEF ProviderTypes
<1> QED
  BY <1>4, <1>5, <1>6

\* The credential is read after the row: it may be a later one.
LEMMA WorkerCalls ==
  ASSUME Providers!LLMProvidersAssumption, ProviderInv, ReadyNoted,
         NEW w \in Workers, Providers!Call(w)
  PROVE  ProviderInv'
<1> USE ProviderConstants
<1>1. ProviderTypes /\ secret.cred \in 1..MaxCred
      /\ wk \in [Workers -> Reader] /\ call \in [Jobs -> ProviderCall]
  BY DEF ProviderInv, ProviderTypes
<1>2. wk[w].pc = "call" /\ wk' = [wk EXCEPT ![w] = Providers!Idle]
      /\ UNCHANGED <<beats, provider, shadow, secret, ring, lock, now, passed>>
  BY DEF Providers!Call, Providers!NotWorker
<1>3. PICK q \in passed : q[1] = wk[w].view.conf /\ q[2] <= secret.cred
  BY <1>2 DEF ProviderInv, CallerInv
<1>4. wk[w].view.conf \in 0..MaxConf
  BY <1>1 DEF Reader, ProviderRow
<1>5. PICK c : /\ call' = [call EXCEPT ![wk[w].job] = c]
               /\ \/ c = [st |-> "called", conf |-> wk[w].view.conf, cred |-> secret.cred]
                  \/ c = [Providers!NoCall EXCEPT !.st = "failed"]
  <2> DEFINE d == IF provider.there /\ Providers!Decrypts(w)
                  THEN [st |-> "called", conf |-> wk[w].view.conf, cred |-> secret.cred]
                  ELSE [Providers!NoCall EXCEPT !.st = "failed"]
  <2>1. call' = [call EXCEPT ![wk[w].job] = d]
    BY DEF Providers!Call
  <2>2. \/ d = [st |-> "called", conf |-> wk[w].view.conf, cred |-> secret.cred]
        \/ d = [Providers!NoCall EXCEPT !.st = "failed"]
    OBVIOUS
  <2> HIDE DEF d
  <2> QED
    BY <2>1, <2>2
<1>6. c \in ProviderCall
      /\ (c.st = "called" => c.conf = wk[w].view.conf /\ c.cred = secret.cred)
  BY <1>1, <1>4, <1>5 DEF ProviderCall, Providers!NoCall
<1>7. call' \in [Jobs -> ProviderCall]
      /\ \A j \in Jobs : call'[j] = call[j] \/ call'[j] = c
  BY <1>1, <1>5, <1>6
<1>8. Providers!CallsAreTested'
  <2>1. ASSUME NEW j \in Jobs, call'[j].st = "called"
        PROVE  \E p \in passed' : p[1] = call'[j].conf /\ p[2] <= call'[j].cred
    <3>1. CASE call'[j] = call[j]
      BY <1>2, <2>1, <3>1 DEF ProviderInv, Providers!CallsAreTested
    <3>2. CASE call'[j] = c
      BY <1>2, <1>3, <1>6, <2>1, <3>2
    <3> QED
      BY <1>7, <3>1, <3>2
  <2> QED
    BY <2>1 DEF Providers!CallsAreTested
<1>9. wk' \in [Workers -> Reader]
      /\ \A v \in Workers : wk'[v] = wk[v] \/ wk'[v] = Providers!Idle
  BY <1>1, <1>2, ViewsAre
<1>10. CallerInv' /\ ReportInv'
  BY <1>2, <1>9, ViewsAre, CallersStay, ReportsStay
<1> QED
  BY <1>1, <1>2, <1>7, <1>8, <1>9, <1>10, WorkersMove DEF ProviderTypes

LEMMA ProviderStep ==
  ASSUME Providers!LLMProvidersAssumption, ProviderInv, Providers!Next PROVE ProviderInv'
<1>1. ReadyNoted
  BY DEF Providers!Next, ReadyNoted
<1>2. \/ Providers!Patch \/ Providers!RotateSecret \/ Providers!StartTest
      \/ Providers!CannotTest \/ Providers!TestFailed \/ Providers!RequestLost
      \/ Providers!Enable \/ Providers!Disable \/ Providers!CountDependencies
      \/ Providers!Delete \/ Providers!Tick
      \/ \E r \in Providers!Probes : Providers!TestPassed(r)
      \/ \E p \in Workers \cup {"api"}, given \in SUBSET Keys : Providers!Rekey(p, given)
      \/ \E w \in Workers : \/ Providers!Observe(w) \/ Providers!Report(w)
                            \/ Providers!Call(w) \/ Providers!Die(w)
      \/ \E j \in Jobs : Providers!Request(j) \/ \E w \in Workers : Providers!Resolve(w, j)
  BY DEF Providers!Next
<1>3. CASE Providers!Patch \/ Providers!RotateSecret \/ Providers!CannotTest \/ Providers!TestFailed
  BY <1>1, <1>3, ProviderEdits
<1>4. CASE \/ Providers!StartTest \/ Providers!RequestLost \/ Providers!CountDependencies
           \/ \E r \in Providers!Probes : Providers!TestPassed(r)
  BY <1>1, <1>4, ProviderTests
<1>5. CASE Providers!Enable \/ Providers!Disable \/ Providers!Delete
  BY <1>1, <1>5, ProviderSwitches
<1>6. CASE Providers!Tick
  BY <1>1, <1>6, ProviderClock
<1>7. CASE \E p \in Workers \cup {"api"}, given \in SUBSET Keys : Providers!Rekey(p, given)
  BY <1>1, <1>7, ProviderRekeys
<1>8. CASE \E w \in Workers : Providers!Observe(w) \/ Providers!Report(w) \/ Providers!Call(w)
  BY <1>1, <1>8, WorkerObserves, WorkerReports, WorkerCalls
<1>9. CASE \/ \E j \in Jobs : Providers!Request(j) \/ \E w \in Workers : Providers!Resolve(w, j)
           \/ \E w \in Workers : Providers!Die(w)
  BY <1>1, <1>9, JobsMove
<1> QED
  BY <1>2, <1>3, <1>4, <1>5, <1>6, <1>7, <1>8, <1>9

LEMMA ProviderKeeps == ASSUME Providers!LLMProvidersAssumption PROVE Providers!Spec => []ProviderInv
<1>1. Providers!Init => ProviderInv
  BY ProviderStarts
<1>2. ProviderInv /\ [Providers!Next]_Providers!vars => ProviderInv'
  <2> SUFFICES ASSUME ProviderInv, [Providers!Next]_Providers!vars PROVE ProviderInv'
    OBVIOUS
  <2>1. CASE UNCHANGED Providers!vars
    <3>1. UNCHANGED <<provider, shadow, secret, ring, lock, wk, beats, call, now, passed, readyAt>>
      BY <2>1 DEF Providers!vars
    <3>2. ProviderTypes' /\ ProbeInv' /\ CallerInv' /\ ReportInv'
      BY <3>1 DEF ProviderInv, ProviderTypes, ProbeInv, CallerInv, ReportInv, ReportHolds, ViewReady
    <3>3. Providers!ReadyIsTested' /\ Providers!CallsAreTested'
      BY <3>1 DEF ProviderInv, Providers!ReadyIsTested, Providers!CallsAreTested, Providers!Shadowed
    <3> QED
      BY <3>2, <3>3 DEF ProviderInv
  <2> QED
    BY <2>1, ProviderStep
<1> QED
  BY <1>1, <1>2, PTL DEF Providers!Spec

\* Available means: the newest report is alive, and of an instant of readiness.
LEMMA AvailableKnown ==
  ASSUME Providers!LLMProvidersAssumption, ProviderInv PROVE Providers!AvailableWasReady
<1> SUFFICES ASSUME NEW c \in Reported, Providers!Available(c) PROVE readyAt[c] # 0
  BY DEF Providers!AvailableWasReady
<1>1. PICK w \in Workers : beats[w].says[c] = "available" /\ beats[w].at + BeatTTL > now
  BY DEF Providers!Available, Providers!Newest
<1>2. beats[w].at \in 1..now /\ readyAt[c] >= beats[w].at
  BY <1>1 DEF ProviderInv, ReportInv, ReportHolds
<1>3. now \in Int /\ readyAt[c] \in 0..MaxTime
  BY ProviderConstants DEF ProviderInv, ProviderTypes
<1> QED
  BY <1>2, <1>3

\* The type invariant of a provider, of its workers and of the requests for it.
THEOREM ProviderTypeCorrect ==
  ASSUME Providers!LLMProvidersAssumption PROVE Providers!Spec => []Providers!TypeOK
BY ProviderKeeps, ProviderTyped, PTL

\* A provider is ready only with the configuration and the credential it was
\* tested with, both rows about it agree, and one whose credential must be
\* replaced is out of service (test_connection, patch, rotate_secret).
THEOREM ReadyProvidersTested ==
  ASSUME Providers!LLMProvidersAssumption PROVE Providers!Spec => []Providers!ReadyIsTested
<1>1. ProviderInv => Providers!ReadyIsTested
  BY DEF ProviderInv
<1> QED
  BY <1>1, ProviderKeeps, PTL

\* A job calls the provider with a configuration that passed a test, with the
\* credential of that test or a later one (resolve_with_session).
THEOREM CallsUseTested ==
  ASSUME Providers!LLMProvidersAssumption PROVE Providers!Spec => []Providers!CallsAreTested
<1>1. ProviderInv => Providers!CallsAreTested
  BY DEF ProviderInv
<1> QED
  BY <1>1, ProviderKeeps, PTL

\* What the gate takes for available was ready within the lifetime of a report,
\* however late workers report what they read (project_capability_status).
THEOREM AvailableIsRecent ==
  ASSUME Providers!LLMProvidersAssumption PROVE Providers!Spec => []Providers!AvailableWasReady
BY ProviderKeeps, AvailableKnown, PTL

-----------------------------------------------------------------------------
(* Publication by hand (ManualPublication). *)

CONSTANTS Items, Ids, MaxRevisions, Limit
VARIABLES state, plans, posts, page
Manual == INSTANCE ManualPublication

\* What review says of a revision, and what a plan may be.
Reviewed == {"pending_review", "approved", "rejected"}
Plans == [rev : Nat, status : {"none", "planned", "ready", "manual_published", "cancelled"},
          checks : SUBSET Items, due : 0..MaxTime, done : 0..MaxTime]

\* The checklist of a plan is what was said of it, complete once it is ready,
\* and no two plans of a revision are under way.
PlansInv ==
  /\ now \in 0..MaxTime /\ state \in Seq(Reviewed) /\ plans \in [Ids -> Plans] /\ asked \in [Ids -> SUBSET Items]
  /\ \A i \in Ids :
       /\ plans[i].checks = asked[i]
       /\ plans[i].status \in {"ready", "manual_published"} => asked[i] = Items
       /\ plans[i].status = "none" => asked[i] = {}
  /\ \A i, k \in Ids : i # k /\ Manual!Open(i) /\ Manual!Open(k) => plans[i].rev # plans[k].rev

\* After a step, no two plans of a revision are under way.
LEMMA OneUnderWay ==
  ASSUME PlansInv'
  PROVE  \A i \in Ids : \A k \in Ids \ {i} :
           plans'[i].status \in Manual!Active /\ plans'[k].status \in Manual!Active =>
             plans'[i].rev # plans'[k].rev
BY DEF PlansInv, Manual!Open

\* A step that changes one plan, or none.
LEMMA OnePlanMoves ==
  ASSUME PlansInv, NEW i \in Ids, NEW r \in Plans, NEW a \in SUBSET Items,
         plans' = [plans EXCEPT ![i] = r], asked' = [asked EXCEPT ![i] = a], UNCHANGED <<state, now>>,
         r.checks = a, r.status \in {"ready", "manual_published"} => a = Items,
         r.status = "none" => a = {},
         r.status \in {"planned", "ready"} =>
           \A k \in Ids \ {i} : Manual!Open(k) => plans[k].rev # r.rev
  PROVE  PlansInv'
<1>1. /\ plans' \in [Ids -> Plans] /\ asked' \in [Ids -> SUBSET Items]
      /\ plans'[i] = r /\ asked'[i] = a
      /\ \A k \in Ids \ {i} : plans'[k] = plans[k] /\ asked'[k] = asked[k]
  BY DEF PlansInv
<1>2. \A k \in Ids :
       /\ plans'[k].checks = asked'[k]
       /\ plans'[k].status \in {"ready", "manual_published"} => asked'[k] = Items
       /\ plans'[k].status = "none" => asked'[k] = {}
  BY <1>1 DEF PlansInv
<1>3. ASSUME NEW j \in Ids, NEW k \in Ids, j # k, Manual!Open(j)', Manual!Open(k)'
      PROVE  plans'[j].rev # plans'[k].rev
  <2>1. CASE j = i
    BY <1>1, <1>3, <2>1 DEF PlansInv, Manual!Open, Manual!Active
  <2>2. CASE k = i
    BY <1>1, <1>3, <2>2 DEF PlansInv, Manual!Open, Manual!Active
  <2>3. CASE j # i /\ k # i
    BY <1>1, <1>3, <2>3 DEF PlansInv, Manual!Open, Manual!Active
  <2> QED
    BY <2>1, <2>2, <2>3
<1> QED
  BY <1>1, <1>2, <1>3 DEF PlansInv

\* A plan is made for a revision without one under way.
LEMMA PlanCreated ==
  ASSUME Manual!ManualPublicationAssumption, PlansInv, NEW n, NEW i \in Ids, NEW instant \in 0..MaxTime,
         Manual!CreatePlan(n, i, instant)
  PROVE  PlansInv' /\ Manual!PublishesNewest
<1>1. /\ n \in DOMAIN state /\ Manual!PlanOf(n) = {} /\ plans[i].status = "none"
      /\ asked' = asked /\ UNCHANGED <<state, now>>
  BY DEF Manual!CreatePlan
<1>2. PICK r : r = [Manual!NoPlan EXCEPT !.rev = n, !.status = "planned", !.due = instant]
  OBVIOUS
<1>3. plans' = [plans EXCEPT ![i] = r]
  BY <1>2 DEF Manual!CreatePlan
<1>4. n \in Nat /\ 0 \in 0..MaxTime
  <2>1. DOMAIN state = 1..Len(state) /\ Len(state) \in Nat
    BY DEF PlansInv
  <2> QED
    BY <1>1, <2>1 DEF Manual!ManualPublicationAssumption
<1>5. asked[i] = {} /\ asked' = [asked EXCEPT ![i] = {}]
  BY <1>1 DEF PlansInv
<1>6. r \in Plans /\ r.rev = n /\ r.status = "planned" /\ r.checks = {}
  <2>1. Manual!NoPlan \in Plans /\ Manual!NoPlan.checks = {}
    BY <1>4 DEF Manual!NoPlan, Plans
  <2> QED
    BY <1>2, <1>4, <2>1 DEF Plans
<1>7. \A k \in Ids \ {i} : Manual!Open(k) => plans[k].rev # n
  BY <1>1 DEF Manual!PlanOf, Manual!Open
<1>8. PlansInv'
  BY <1>1, <1>3, <1>5, <1>6, <1>7, OnePlanMoves
<1>9. \A k \in Ids : plans[k].status # "manual_published" => plans'[k].status # "manual_published"
  BY <1>6, <1>3 DEF PlansInv
<1> QED
  BY <1>8, <1>9, OneUnderWay DEF Manual!PublishesNewest

\* An update of items: those it does not name stay.
LEMMA ItemsChecked ==
  ASSUME PlansInv, NEW i \in Ids, NEW on \in SUBSET Items, NEW off \in SUBSET Items,
         Manual!UpdateChecklist(i, on, off)
  PROVE  PlansInv' /\ Manual!PublishesNewest
<1>1. PICK a \in SUBSET Items : a = (asked[i] \cup on) \ off
  BY DEF PlansInv
<1>2. plans[i] \in Plans /\ Manual!Open(i) /\ Manual!Merged(i, on, off) = a
  BY <1>1 DEF Manual!UpdateChecklist, Manual!Merged, PlansInv
<1>3. PICK to \in {"planned", "ready"} : to = IF a = Items THEN "ready" ELSE "planned"
  OBVIOUS
<1>4. PICK r : r = [plans[i] EXCEPT !.checks = a, !.status = to]
  OBVIOUS
<1>5. r \in Plans /\ r.rev = plans[i].rev /\ r.status = to /\ r.checks = a
  BY <1>2, <1>4 DEF Plans
<1>6. /\ plans' = [plans EXCEPT ![i] = r] /\ asked' = [asked EXCEPT ![i] = a]
      /\ UNCHANGED <<state, now>>
  <2>1. plans' = [plans EXCEPT ![i].checks = a, ![i].status = to]
    BY <1>2, <1>3 DEF Manual!UpdateChecklist
  <2> QED
    BY <1>1, <1>4, <2>1 DEF Manual!UpdateChecklist, PlansInv
<1>7. \A k \in Ids \ {i} : Manual!Open(k) => plans[k].rev # r.rev
  BY <1>2, <1>5 DEF PlansInv
<1>8. PlansInv'
  BY <1>3, <1>5, <1>6, <1>7, OnePlanMoves
<1>9. \A k \in Ids : plans[k].status # "manual_published" => plans'[k].status # "manual_published"
  BY <1>3, <1>5, <1>6 DEF PlansInv
<1> QED
  BY <1>8, <1>9, OneUnderWay DEF Manual!PublishesNewest

\* The end of a plan: published, or cancelled.
LEMMA PlanEnds ==
  ASSUME PlansInv, NEW i \in Ids, Manual!MarkPublished(i) \/ Manual!Cancel(i)
  PROVE  PlansInv' /\ Manual!PublishesNewest
<1>1. plans[i] \in Plans /\ now \in 0..MaxTime /\ UNCHANGED <<state, now>> /\ asked' = asked
  BY DEF Manual!MarkPublished, Manual!Cancel, PlansInv
<1>2. PICK r \in Plans : /\ plans' = [plans EXCEPT ![i] = r]
                         /\ r.checks = asked[i]
                         /\ \/ /\ r.status = "manual_published" /\ asked[i] = Items
                               /\ Manual!Publishable(plans[i].rev)
                            \/ r.status = "cancelled"
  <2>1. CASE Manual!MarkPublished(i)
    <3>1. PICK r : r = [plans[i] EXCEPT !.status = "manual_published", !.done = now]
      OBVIOUS
    <3>2. r \in Plans /\ r.status = "manual_published" /\ r.checks = plans[i].checks
      BY <1>1, <3>1 DEF Plans
    <3>3. plans' = [plans EXCEPT ![i] = r]
      BY <2>1, <3>1 DEF Manual!MarkPublished, PlansInv
    <3>4. /\ plans[i].checks = asked[i] /\ asked[i] = Items /\ Manual!Publishable(plans[i].rev)
      BY <2>1 DEF Manual!MarkPublished, PlansInv
    <3> QED
      BY <3>2, <3>3, <3>4
  <2>2. CASE Manual!Cancel(i)
    <3>1. PICK r : r = [plans[i] EXCEPT !.status = "cancelled"]
      OBVIOUS
    <3>2. r \in Plans /\ r.status = "cancelled" /\ r.checks = plans[i].checks
      BY <1>1, <3>1 DEF Plans
    <3>3. plans' = [plans EXCEPT ![i] = r]
      BY <2>2, <3>1 DEF Manual!Cancel, PlansInv
    <3> QED
      BY <3>2, <3>3 DEF PlansInv
  <2> QED
    BY <2>1, <2>2
<1>3. asked' = [asked EXCEPT ![i] = asked[i]] /\ asked[i] \in SUBSET Items
  BY <1>1 DEF PlansInv
<1>4. PlansInv'
  BY <1>1, <1>2, <1>3, OnePlanMoves
<1>5. ASSUME NEW k \in Ids, plans[k].status # "manual_published", plans'[k].status = "manual_published"
      PROVE  plans[k].rev = Len(state') /\ state'[plans[k].rev] = "approved"
  <2>1. k = i
    BY <1>2, <1>5 DEF PlansInv
  <2>2. Manual!Publishable(plans[i].rev)
    BY <1>2, <1>5, <2>1 DEF PlansInv
  <2> QED
    BY <1>1, <2>1, <2>2 DEF Manual!Publishable, Manual!Newest
<1> QED
  BY <1>4, <1>5, OneUnderWay DEF Manual!PublishesNewest

\* Revisions, confirmations, readers and the clock leave the plans alone.
LEMMA PlansAlone ==
  ASSUME PlansInv, UNCHANGED <<plans, asked>>, state' \in Seq(Reviewed), now' \in 0..MaxTime
  PROVE  PlansInv' /\ Manual!PublishesNewest
<1>1. PlansInv'
  BY DEF PlansInv, Manual!Open, Manual!Active
<1> QED
  BY <1>1, OneUnderWay DEF Manual!PublishesNewest

\* Every step keeps the plans in order.
LEMMA ManualStep ==
  ASSUME Manual!ManualPublicationAssumption, PlansInv, [Manual!Next]_(Manual!vars)
  PROVE  PlansInv' /\ [Manual!PublishesNewest]_(Manual!vars)
<1>1. now \in 0..MaxTime /\ state \in Seq(Reviewed) /\ MaxTime \in Nat
  BY DEF PlansInv, Manual!ManualPublicationAssumption
<1>2. CASE Manual!Edit
  <2>1. state' \in Seq(Reviewed) /\ UNCHANGED <<plans, asked, now>>
    BY <1>1, <1>2 DEF Manual!Edit, Reviewed
  <2> QED
    BY <1>1, <2>1, PlansAlone
<1>3. ASSUME NEW n, NEW to \in {"approved", "rejected"}, Manual!Review(n, to)
      PROVE  PlansInv' /\ Manual!PublishesNewest
  <2>1. state' \in Seq(Reviewed) /\ UNCHANGED <<plans, asked, now>>
    BY <1>1, <1>3 DEF Manual!Review, Reviewed
  <2> QED
    BY <1>1, <2>1, PlansAlone
<1>4. CASE \/ Manual!Tick \/ Manual!FirstPage \/ Manual!NextPage \/ Manual!Leave
           \/ \E i \in Ids : Manual!Confirmed(i)
  <2>1. /\ state' = state /\ UNCHANGED <<plans, asked>> /\ now' \in 0..MaxTime
    BY <1>1, <1>4 DEF Manual!Tick, Manual!FirstPage, Manual!NextPage, Manual!Leave,
                      Manual!Confirmed
  <2> QED
    BY <1>1, <2>1, PlansAlone
<1>5. ASSUME NEW i \in Ids, NEW n, NEW instant \in Manual!Times, Manual!CreatePlan(n, i, instant)
      PROVE  PlansInv' /\ Manual!PublishesNewest
  BY <1>5, PlanCreated DEF Manual!Times
<1>6. ASSUME NEW i \in Ids, NEW on \in SUBSET Items, NEW off \in SUBSET Items,
             Manual!UpdateChecklist(i, on, off)
      PROVE  PlansInv' /\ Manual!PublishesNewest
  BY <1>6, ItemsChecked
<1>7. ASSUME NEW i \in Ids, Manual!MarkPublished(i) \/ Manual!Cancel(i)
      PROVE  PlansInv' /\ Manual!PublishesNewest
  BY <1>7, PlanEnds
<1>8. CASE UNCHANGED Manual!vars
  <2>1. UNCHANGED <<state, plans, asked, now>>
    BY <1>8 DEF Manual!vars
  <2> QED
    BY <1>1, <2>1, PlansAlone
<1> QED
  BY <1>2, <1>3, <1>4, <1>5, <1>6, <1>7, <1>8 DEF Manual!Next

\* The invariant holds throughout.
LEMMA PlansKeep ==
  ASSUME Manual!ManualPublicationAssumption PROVE Manual!Spec => []PlansInv
<1>1. Manual!Init => PlansInv
  <2> SUFFICES ASSUME Manual!Init PROVE PlansInv
    OBVIOUS
  <2>1. /\ state = <<"pending_review">> /\ plans = [i \in Ids |-> Manual!NoPlan]
        /\ asked = [i \in Ids |-> {}] /\ now = 0
    BY DEF Manual!Init
  <2>2. 0 \in 0..MaxTime /\ state \in Seq(Reviewed)
    BY <2>1 DEF Manual!ManualPublicationAssumption, Reviewed
  <2>3. Manual!NoPlan \in Plans /\ Manual!NoPlan.status = "none" /\ Manual!NoPlan.checks = {}
    BY <2>2 DEF Manual!NoPlan, Plans
  <2> QED
    BY <2>1, <2>2, <2>3 DEF PlansInv, Manual!Open, Manual!Active
<1>2. PlansInv /\ [Manual!Next]_(Manual!vars) => PlansInv'
  BY ManualStep
<1> QED
  BY <1>1, <1>2, PTL DEF Manual!Spec

\* An item is checked as the last request about it said, and what was published
\* had every item checked (update_checklist, mark_published).
THEOREM ChecklistsFollowRequests ==
  ASSUME Manual!ManualPublicationAssumption PROVE Manual!Spec => []Manual!ChecklistFollows
<1>1. PlansInv => Manual!ChecklistFollows
  BY DEF PlansInv, Manual!ChecklistFollows
<1> QED
  BY <1>1, PlansKeep, PTL

\* Consecutive windows of the calendar show each plan once (list_calendar_events).
THEOREM CalendarPartitioned ==
  ASSUME Manual!ManualPublicationAssumption PROVE Manual!Spec => []Manual!WindowsPartition
<1>1. ASSUME PlansInv PROVE Manual!WindowsPartition
  <2>1. \A i \in Ids : plans[i].due \in Int
    BY <1>1 DEF PlansInv, Plans
  <2> SUFFICES ASSUME NEW s \in Int, NEW m \in Int, NEW e \in Int, s < m, m < e
               PROVE  /\ Manual!CalendarEvents(s, m) \cap Manual!CalendarEvents(m, e) = {}
                      /\ Manual!CalendarEvents(s, m) \cup Manual!CalendarEvents(m, e)
                           = Manual!CalendarEvents(s, e)
    BY DEF Manual!WindowsPartition, Manual!ManualPublicationAssumption
  <2> QED
    BY <2>1 DEF Manual!CalendarEvents, Manual!InWindow
<1> QED
  BY <1>1, PlansKeep, PTL

\* At most one plan of a revision is under way, and what is marked as published
\* is the newest revision, approved (create_plan, mark_published).
THEOREM NewestIsPublished ==
  ASSUME Manual!ManualPublicationAssumption
  PROVE  Manual!Spec => [][Manual!PublishesNewest]_(Manual!vars)
<1>1. PlansInv /\ [Manual!Next]_(Manual!vars) => [Manual!PublishesNewest]_(Manual!vars)
  BY ManualStep
<1> QED
  BY <1>1, PlansKeep, PTL DEF Manual!Spec
=============================================================================
