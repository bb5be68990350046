---------------------------- MODULE BackupRetention ----------------------------
(***************************************************************************)
(* The backup directory over time: nightly archives, prune with its daily,  *)
(* weekly and monthly generations.                                          *)
(* Source: scripts/backup_restore.py, prune.                                *)
(*                                                                         *)
(* Time is counted in backup slots; days, weeks and months are runs of      *)
(* slots whose lengths need not divide each other.  An archive is damaged   *)
(* when it does not decrypt or verify any more.                             *)
(***************************************************************************)
EXTENDS Naturals, Sequences, FiniteSets, FiniteSetsExt

CONSTANTS MaxTime,                    \* bound: slots
          DayLen, WeekLen, MonthLen,  \* slots of a day, of a week, of a month
          Daily, Weekly, Monthly      \* generations kept: 7, 5, 12

RetentionAssumption ==
  {MaxTime, DayLen, WeekLen, MonthLen, Daily, Weekly, Monthly} \subseteq Nat \ {0}

Slots == 1..MaxTime

VARIABLES now,
          archives,  \* what is in the directory: "none", "good" or "bad" per slot
          plan,      \* deletions of a prune that is under way, newest first
          seen       \* the archives it verified

vars == <<now, archives, plan, seen>>

Verified == {t \in Slots : archives[t] = "good"}

TypeOK ==
  /\ now \in Slots
  /\ archives \in [Slots -> {"none", "good", "bad"}]
  /\ plan \in Seq(seen) /\ seen \subseteq Slots

Init ==
  /\ now = 1 /\ archives = [t \in Slots |-> "none"] /\ plan = <<>> /\ seen = {}

\* A backup of this slot is published.
Publish ==
  /\ archives[now] = "none" /\ archives' = [archives EXCEPT ![now] = "good"]
  /\ UNCHANGED <<now, plan, seen>>

Tick == now < MaxTime /\ now' = now + 1 /\ UNCHANGED <<archives, plan, seen>>

\* An archive is damaged or replaced.
Damage(t) ==
  /\ archives[t] = "good" /\ archives' = [archives EXCEPT ![t] = "bad"]
  /\ UNCHANGED <<now, plan, seen>>

-----------------------------------------------------------------------------
(* prune *)

\* The keys of the generations and how many of each are kept.
Generation == <<[len |-> DayLen, keep |-> Daily], [len |-> WeekLen, keep |-> Weekly],
                [len |-> MonthLen, keep |-> Monthly]>>
Of(g, t) == t \div g.len

\* Archives from the newest to the oldest.
NewestFirst(S) == [i \in 1..Cardinality(S) |-> CHOOSE t \in S : Cardinality({u \in S : u > t}) = i - 1]

\* Mutant of Visit: a full set of generations lets the archive pass.
VisitFull(g, acc, t) ==
  IF Of(g, t) \in acc.gens THEN acc
  ELSE [gens |-> acc.gens \cup {Of(g, t)},
        keep |-> IF Cardinality(acc.gens) > g.keep THEN acc.keep ELSE acc.keep \cup {t}]

\* One round of the inner loop: a generation that was seen, one too many, or
\* the newest archive of a further generation.
Visit(g, acc, t) ==
  IF Of(g, t) \in acc.gens \/ Cardinality(acc.gens) >= g.keep THEN acc
  ELSE [gens |-> acc.gens \cup {Of(g, t)}, keep |-> acc.keep \cup {t}]

KeptOf(g, S) ==
  LET seq == NewestFirst(S)
      acc[i \in 0..Len(seq)] == IF i = 0 THEN [gens |-> {}, keep |-> {}] ELSE Visit(g, acc[i - 1], seq[i])
  IN acc[Len(seq)].keep

Keep(S) == {Max(S)} \cup UNION {KeptOf(Generation[k], S) : k \in DOMAIN Generation}

\* Mutant of Surplus: archives that do not verify are planned too.
SurplusAll == {t \in Slots : archives[t] # "none"} \ Keep(Verified)

Surplus == Verified \ Keep(Verified)

\* Every archive is verified and what is not kept is planned; without a
\* verified archive nothing is done.
PrunePlan ==
  /\ plan = <<>> /\ Verified # {} /\ Surplus # {}
  /\ plan' = NewestFirst(Surplus) /\ seen' = Verified
  /\ UNCHANGED <<now, archives>>

\* Mutant of Unchanged: the digest is not compared again.
UnchangedAssumed(t) == TRUE

Unchanged(t) == archives[t] = "good"

\* One deletion; an archive that has changed since ends the prune.
PruneDelete ==
  /\ plan # <<>>
  /\ IF Unchanged(Head(plan))
     THEN archives' = [archives EXCEPT ![Head(plan)] = "none"] /\ plan' = Tail(plan)
     ELSE plan' = <<>> /\ UNCHANGED archives
  /\ UNCHANGED <<now, seen>>

PruneKilled == plan # <<>> /\ plan' = <<>> /\ UNCHANGED <<now, archives, seen>>

Next ==
  \/ Publish \/ Tick \/ PrunePlan \/ PruneDelete \/ PruneKilled
  \/ \E t \in Slots : Damage(t)

Spec == Init /\ [][Next]_vars

-----------------------------------------------------------------------------
(* What is checked. *)

\* The newest archive of a generation, and the generations that are kept: the
\* last of those that have an archive.
NewestIn(g, S, v) == Max({t \in S : Of(g, t) = v})
Recent(g, S) ==
  LET gens == {Of(g, t) : t \in S}
  IN {v \in gens : Cardinality({u \in gens : u > v}) < g.keep}

\* The loop keeps exactly the newest archive of each of the last 7 days, 5
\* weeks and 12 months that have a verified archive.
KeepIsPolicy ==
  Verified # {} =>
    Keep(Verified) = UNION {{NewestIn(g, Verified, v) : v \in Recent(g, Verified)} :
                              g \in {Generation[k] : k \in DOMAIN Generation}}

\* Whatever is published or damaged while a prune deletes, and wherever it is
\* killed, it removes archives only that are good at that moment and were not
\* the newest of a generation to be kept when it verified them.
PrunesSurplus ==
  \A t \in Slots : archives[t] # "none" /\ archives'[t] = "none" =>
       /\ archives[t] = "good"
       /\ \A k \in DOMAIN Generation :
            t = NewestIn(Generation[k], seen, Of(Generation[k], t)) =>
              Of(Generation[k], t) \notin Recent(Generation[k], seen)
=============================================================================
