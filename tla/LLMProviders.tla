---------------------------- MODULE LLMProviders ----------------------------
(***************************************************************************)
(* One provider of language models: its row, the credential in the secret    *)
(* store, the connection test, what workers report about it, the gate that   *)
(* asks these reports before a job is accepted, and the call of that job.    *)
(* Source: backend/app/llm_providers/service.py, readiness.py;              *)
(* api/llm_providers.py; security/secret_store.py;                          *)
(* jobs/credential_capabilities.py; generation/providers/profiles.py.       *)
(*                                                                         *)
(* Requests that change the row hold it FOR UPDATE, the connection test      *)
(* while it waits for the provider. Workers read row and secret with two     *)
(* statements and without a lock. conf counts the versions of model, address *)
(* and settings, cred those of the credential. The protocol "fake" and       *)
(* messages are left out.                                                    *)
(***************************************************************************)
EXTENDS Integers, FiniteSets

CONSTANTS Workers,   \* processes with the capability "generation"
          Keys,      \* versions of the master key, the highest is the active one
          Jobs,      \* requests for generated content, numbered from 1
          MaxConf,   \* bound: versions of the configuration
          MaxCred,   \* bound: versions of the credential
          MaxTime,   \* bound: instants
          TestTTL,   \* llm_provider_test_ttl_seconds
          BeatTTL,   \* capability_observation_ttl_seconds
          Reported,  \* capabilities the reports are followed for
          Disturbances  \* which of "rekey", "alias", "delete" happen

LLMProvidersAssumption ==
  /\ Keys \subseteq Nat \ {0} /\ Keys # {} /\ IsFiniteSet(Keys)
  /\ MaxConf \in Nat \ {0} /\ MaxCred \in Nat \ {0}
  /\ Jobs \subseteq Nat \ {0} /\ MaxTime \in Nat \ {0} /\ TestTTL \in Nat /\ BeatTTL \in Nat

VARIABLES
  row,     \* llm_providers
  shadow,  \* ai_provider_profiles, the row older code reads
  secret,  \* encrypted_secrets: the credential and the key that encrypts it
  ring,    \* the master keys each process was started with
  lock,    \* a request that holds the row over several steps
  wk,      \* what a worker has read and goes on with
  beats,   \* runtime_heartbeats: the newest report of each worker
  call,    \* the job of each request: its state, and what it called with
  now,
  passed,  \* configurations and credentials the provider has answered for (history)
  readyAt  \* the last instant the row was ready, by capability (history)

vars == <<row, shadow, secret, ring, lock, wk, beats, call, now, passed, readyAt>>

Capabilities == {"generation", "research"}
States == {"unknown", "ready", "unavailable"}
Active == CHOOSE k \in ring["api"] : \A j \in ring["api"] : j <= k

\* replace: the failure code asks for a new credential; at: last_successful_test_at;
\* same: last_tested_model is the configured model.
Untested == [c \in Capabilities |-> "unknown"]
NoView == [there |-> FALSE, conf |-> 0, enabled |-> FALSE, can |-> Untested, replace |-> FALSE,
           at |-> 0, same |-> TRUE]
Free == [pc |-> "free", at |-> 0]
Idle == [pc |-> "idle", job |-> 0, at |-> 0, view |-> NoView]
NoBeat == [at |-> 0, says |-> [c \in Reported |-> "none"]]
NoCall == [st |-> "none", conf |-> 0, cred |-> 0]

TypeOK ==
  /\ row.there \in BOOLEAN /\ row.conf \in 1..MaxConf /\ row.enabled \in BOOLEAN
  /\ row.can \in [Capabilities -> States] /\ row.at \in 0..MaxTime
  /\ secret.cred \in 1..MaxCred /\ secret.key \in Keys
  /\ ring \in [Workers \cup {"api"} -> SUBSET Keys]
  /\ lock.pc \in {"free", "probe", "counted"}
  /\ \A w \in Workers : beats[w].at \in 0..MaxTime /\ wk[w].pc \in {"idle", "observe", "call"}
  /\ \A j \in Jobs : call[j].st \in {"none", "queued", "running", "called", "failed"}
  /\ now \in 1..MaxTime /\ passed \subseteq (1..MaxConf) \X (1..MaxCred)

\* create: disabled and untested, the credential encrypted with the active key.
Init ==
  /\ row = [NoView EXCEPT !.there = TRUE, !.conf = 1]
  /\ shadow = [there |-> TRUE, conf |-> 1, enabled |-> FALSE]
  /\ ring = [p \in Workers \cup {"api"} |-> {CHOOSE k \in Keys : \A j \in Keys : k <= j}]
  /\ secret = [cred |-> 1, key |-> CHOOSE k \in Keys : \A j \in Keys : k <= j]
  /\ lock = Free /\ wk = [w \in Workers |-> Idle] /\ beats = [w \in Workers |-> NoBeat]
  /\ call = [j \in Jobs |-> NoCall] /\ now = 1
  /\ passed = {} /\ readyAt = [c \in Reported |-> 0]

-----------------------------------------------------------------------------
(* Readiness. *)

\* provider_test_is_fresh
Fresh(r) == r.at # 0 /\ r.same /\ r.at >= now - TestTTL

\* provider_capability_ready
Ready(r, c) == r.enabled /\ r.can[c] = "ready" /\ Fresh(r)

\* provider_readiness
ReadyForEnablement == row.can["generation"] = "ready" /\ Fresh(row)

\* EncryptedSecretStore.decrypt
Decrypts(p) == secret.key \in ring[p]

-----------------------------------------------------------------------------
(* Requests of the operator. *)

\* get(for_update=True) waits.
Locked == lock.pc # "free"

\* _shadow
Shadowed(r) == [there |-> r.there, conf |-> r.conf, enabled |-> r.enabled]
Store(r) == row' = r /\ shadow' = Shadowed(r)

Changes == row.there /\ ~Locked
NotRow == <<ring, wk, beats, call, now>>

\* Nothing is known about what was not tested.
Reset(r) == [r EXCEPT !.can = Untested, !.at = 0, !.same = TRUE]

\* mark_credential_replacement_required
Unusable(r) ==
  [r EXCEPT !.enabled = FALSE, !.can = [c \in Capabilities |-> "unavailable"], !.replace = TRUE]

\* patch: a credential that must be replaced still must be.
Patch ==
  /\ Changes /\ row.conf < MaxConf
  /\ LET r == [Reset(row) EXCEPT !.conf = @ + 1] IN
     Store(IF row.replace THEN Unusable(r) ELSE r)
  /\ UNCHANGED <<secret, lock, passed, NotRow>>

RotateSecret ==
  /\ Changes /\ ring["api"] # {} /\ secret.cred < MaxCred
  /\ secret' = [cred |-> secret.cred + 1, key |-> Active]
  /\ Store([Reset(row) EXCEPT !.enabled = FALSE, !.replace = FALSE])
  /\ UNCHANGED <<lock, passed, NotRow>>

\* test_connection up to the call of the provider.
StartTest ==
  /\ Changes /\ ring["api"] # {} /\ Decrypts("api")
  /\ lock' = [pc |-> "probe", at |-> now, conf |-> row.conf, cred |-> secret.cred]
  /\ UNCHANGED <<row, shadow, secret, passed, NotRow>>

\* SecretDecryptionFailed: the request is refused, the mark committed.
CannotTest ==
  /\ Changes /\ ring["api"] # {} /\ ~Decrypts("api")
  /\ Store(Unusable([row EXCEPT !.same = TRUE]))
  /\ UNCHANGED <<secret, lock, passed, NotRow>>

\* _default_probe: what answered, and whether it is the model that was asked for.
Probes ==
  {r \in [answers : {{}, {"generation"}, Capabilities}, same : BOOLEAN] :
     r.same \/ "alias" \in Disturbances}

TestPassed(r) ==
  /\ lock.pc = "probe" /\ "generation" \in r.answers /\ lock' = Free
  /\ Store([row EXCEPT !.can = [c \in Capabilities |-> IF c \in r.answers THEN "ready" ELSE "unavailable"],
                       !.at = lock.at, !.same = r.same, !.replace = FALSE])
  /\ passed' = passed \cup {<<lock.conf, lock.cred>>}
  /\ UNCHANGED <<secret, NotRow>>

TestFailed ==
  /\ lock.pc = "probe" /\ lock' = Free
  /\ Store([row EXCEPT !.can = [c \in Capabilities |-> "unavailable"], !.enabled = FALSE,
                       !.same = TRUE, !.replace = FALSE])
  /\ UNCHANGED <<secret, passed, NotRow>>

\* The API process dies: the transaction is rolled back.
RequestLost ==
  /\ Locked /\ lock' = Free
  /\ UNCHANGED <<row, shadow, secret, passed, NotRow>>

Enable ==
  /\ Changes /\ ReadyForEnablement /\ Store([row EXCEPT !.enabled = TRUE])
  /\ UNCHANGED <<secret, lock, passed, NotRow>>

Disable ==
  /\ Changes /\ Store([row EXCEPT !.enabled = FALSE])
  /\ UNCHANGED <<secret, lock, passed, NotRow>>

\* dependencies: no active job and no run refers to the provider.
CountDependencies ==
  /\ "delete" \in Disturbances /\ Changes
  /\ \A j \in Jobs : call[j].st \in {"none", "failed"}
  /\ lock' = [pc |-> "counted", at |-> now]
  /\ UNCHANGED <<row, shadow, secret, passed, NotRow>>

Delete ==
  /\ lock.pc = "counted" /\ lock' = Free
  /\ Store([row EXCEPT !.there = FALSE, !.enabled = FALSE])
  /\ UNCHANGED <<secret, passed, NotRow>>

\* A process is restarted with other keys.
Rekey(p, keys) ==
  /\ "rekey" \in Disturbances /\ keys # ring[p]
  /\ ring' = [ring EXCEPT ![p] = keys]
  /\ IF p = "api" THEN lock' = Free /\ UNCHANGED wk
                  ELSE wk' = [wk EXCEPT ![p] = Idle] /\ UNCHANGED lock
  /\ call' = [j \in Jobs |-> IF p # "api" /\ wk[p].job = j THEN [call[j] EXCEPT !.st = "queued"] ELSE call[j]]
  /\ UNCHANGED <<row, shadow, secret, beats, now, passed>>

-----------------------------------------------------------------------------
(* Workers report what they could use. *)

NotWorker == <<row, shadow, secret, ring, lock, now, passed>>

\* _record_runtime_heartbeat takes the time, then observe reads the rows.
Observe(w) ==
  /\ wk[w].pc = "idle"
  /\ wk' = [wk EXCEPT ![w] = [Idle EXCEPT !.pc = "observe", !.at = now, !.view = row]]
  /\ UNCHANGED <<beats, call, NotWorker>>

\* The report is of the time before the rows were read.
Stamp(w) == wk[w].at

\* _generic_provider, one observation per capability; none of a deleted row.
Says(w, c) ==
  IF ~wk[w].view.there THEN "none"
  ELSE IF row.there /\ Decrypts(w) /\ Ready(wk[w].view, c) THEN "available" ELSE "unavailable"

Report(w) ==
  /\ wk[w].pc = "observe"
  /\ beats' = [beats EXCEPT ![w] = [at |-> Stamp(w), says |-> [c \in Reported |-> Says(w, c)]]]
  /\ wk' = [wk EXCEPT ![w] = Idle]
  /\ UNCHANGED <<call, NotWorker>>

-----------------------------------------------------------------------------
(* Jobs. *)

\* Reports about the capability, the newest ones.
Newest(c) ==
  LET about == {w \in Workers : beats[w].says[c] # "none"}
  IN {w \in about : \A v \in about : beats[v].at <= beats[w].at}

\* project_capability_status
Available(c) ==
  \E w \in Newest(c) : beats[w].says[c] = "available" /\ beats[w].at + BeatTTL > now

\* CapabilityStatusService.require_available, then the job is enqueued.
Request(j) ==
  /\ call[j].st = "none" /\ Available("generation")
  /\ call' = [call EXCEPT ![j].st = "queued"]
  /\ UNCHANGED <<wk, beats, NotWorker>>

\* resolve_with_session reads the row and, if it is ready, goes on.
Resolve(w, j) ==
  /\ wk[w].pc = "idle" /\ call[j].st = "queued"
  /\ IF row.there /\ Ready(row, "generation")
     THEN /\ wk' = [wk EXCEPT ![w] = [Idle EXCEPT !.pc = "call", !.job = j, !.view = row]]
          /\ call' = [call EXCEPT ![j].st = "running"]
     ELSE call' = [call EXCEPT ![j].st = "failed"] /\ UNCHANGED wk
  /\ UNCHANGED <<beats, NotWorker>>

\* Then the secret, and calls the provider.
Call(w) ==
  /\ wk[w].pc = "call"
  /\ call' = [call EXCEPT ![wk[w].job] =
       IF row.there /\ Decrypts(w)
       THEN [st |-> "called", conf |-> wk[w].view.conf, cred |-> secret.cred]
       ELSE [NoCall EXCEPT !.st = "failed"]]
  /\ wk' = [wk EXCEPT ![w] = Idle]
  /\ UNCHANGED <<beats, NotWorker>>

\* The worker dies; the job is claimed again.
Die(w) ==
  /\ wk[w].pc = "call" /\ wk' = [wk EXCEPT ![w] = Idle]
  /\ call' = [call EXCEPT ![wk[w].job].st = "queued"]
  /\ UNCHANGED <<beats, NotWorker>>

Tick ==
  /\ now < MaxTime /\ now' = now + 1
  /\ UNCHANGED <<row, shadow, secret, ring, lock, wk, beats, call, passed>>

-----------------------------------------------------------------------------
ReadyThen(c) ==
  row'.there /\ row'.enabled /\ row'.can[c] = "ready" /\ row'.at # 0 /\ row'.same
    /\ row'.at >= now' - TestTTL

\* Instants no report of which can be alive are forgotten.
Recent(t) == IF t + BeatTTL > now' THEN t ELSE 0

Next ==
  /\ \/ Patch \/ RotateSecret \/ StartTest \/ CannotTest \/ TestFailed \/ RequestLost
     \/ Enable \/ Disable \/ CountDependencies \/ Delete \/ Tick
     \/ \E r \in Probes : TestPassed(r)
     \/ \E p \in Workers \cup {"api"}, keys \in SUBSET Keys : Rekey(p, keys)
     \/ \E w \in Workers : Observe(w) \/ Report(w) \/ Call(w) \/ Die(w)
     \/ \E j \in Jobs : Request(j) \/ \E w \in Workers : Resolve(w, j)
  /\ readyAt' = [c \in Reported |-> IF ReadyThen(c) THEN now' ELSE Recent(readyAt[c])]

Spec == Init /\ [][Next]_vars

-----------------------------------------------------------------------------
(* Properties. *)

\* A provider is ready with the configuration and the credential it was tested
\* with, both rows about it agree, and one whose credential must be replaced is
\* out of service, whatever edits, rotations and failures happen around a test.
ReadyIsTested ==
  /\ row.there /\ row.can["generation"] = "ready" => <<row.conf, secret.cred>> \in passed
  /\ shadow = Shadowed(row)
  /\ row.replace => ~row.enabled /\ row.can["generation"] = "unavailable"

\* A job calls the provider with a configuration that passed a test, with the
\* credential of that test or one that replaced it while the worker was reading.
CallsAreTested ==
  \A j \in Jobs : call[j].st = "called" =>
    \E p \in passed : p[1] = call[j].conf /\ p[2] <= call[j].cred

\* What the gate takes for available was ready within the lifetime of a report,
\* although workers read without a lock and report late.
AvailableWasReady ==
  \A c \in Reported : Available(c) => readyAt[c] # 0
=============================================================================
