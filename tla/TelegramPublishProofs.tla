------------------------ MODULE TelegramPublishProofs ------------------------
(***************************************************************************)
(* Proofs about Telegram publication, for every plan, every number of       *)
(* workers and every bound: nothing that may have reached Telegram is sent  *)
(* again without the operator, and a publication is a complete delivery.    *)
(* And about the scheduling of drafts (TelegramScheduling): a revision is    *)
(* asked for in one way and sent once, and intents are of the newest one.   *)
(***************************************************************************)
EXTENDS TelegramPublish, TLAPS, Sequences

\* A run that holds a claim of a receipt.
Holding(w) == pc[w] \in {"send", "persist", "record"}

\* A claim is a past or the present one, and has one holder.
ClaimInv ==
  /\ \A w \in Workers :
       Holding(w) => claimed[w] >= 1 /\ claimed[w] <= count[op[w]]
  /\ \A w, x \in Workers :
       Holding(w) /\ Holding(x) /\ op[w] = op[x] /\ claimed[w] = claimed[x]
         => w = x

\* What reached Telegram: only claims that were made; the claim of a run that
\* is about to record success, and not that of a run that has not sent, or was
\* certainly refused.
SentInv ==
  /\ \A o \in Ops, n \in 1..MaxClaims : <<o, n>> \in sent => n <= count[o]
  /\ \A w \in Workers :
       /\ pc[w] = "persist" => <<op[w], claimed[w]>> \in sent
       /\ pc[w] = "send" => <<op[w], claimed[w]>> \notin sent
       /\ pc[w] = "record" /\ result[w] # "needs_review"
            => <<op[w], claimed[w]>> \notin sent

\* A run that holds a claim the receipt has moved on from is a zombie: the
\* operator has answered for its send before it could be repeated.
ZombieInv ==
  \A w \in Workers :
    Holding(w) /\ (claimed[w] < count[op[w]] \/ receipt[op[w]] = "pending")
      => <<op[w], claimed[w]>> \in denied

\* Every run stands behind a delivered prefix of the plan.
PrefixInv ==
  /\ \A w \in Workers :
       pc[w] \in {"claim", "release", "send", "persist", "record"}
         => \A p \in Ops : p < op[w] => receipt[p] = "succeeded"
  /\ \A o \in Ops :
       /\ receipt[o] = "none" => count[o] = 0
       /\ receipt[o] \in {"dispatching", "ambiguous"} => count[o] > 0

\* The inductive invariant: the types, and Rest.
Rest ==
  /\ ClaimInv
  /\ SentInv
  /\ ZombieInv
  /\ PrefixInv
  /\ NoBlindResend
  /\ PublishedIsDelivered
  /\ SentInOrder

IInv == TypeOK /\ Rest

\* What the proofs need to know of operations, claims and jobs.
LEMMA Domains ==
  /\ Ops \subseteq Nat /\ 1 \in Ops
  /\ \A o \in Ops : o >= 1 /\ o <= N /\ (o < N => o + 1 \in Ops)
  /\ First \in Jobs /\ Claims \subseteq Jobs
  /\ \A o \in Ops, n \in 1..MaxClaims : <<o, n>> \in Claims
BY ConstantsAssumption DEF Ops, Jobs, Claims

\* The loop over the operations stays within the plan.
LEMMA AdvanceTypes ==
  ASSUME TypeOK, NEW w \in Workers, Advance(w)
  PROVE  /\ op' \in [Workers -> Ops]
         /\ pc' \in [Workers -> Pcs]
         /\ claimed' \in [Workers -> 0..MaxClaims]
<1>1. claimed' \in [Workers -> 0..MaxClaims]
  BY ConstantsAssumption DEF Advance, TypeOK
<1>2. CASE op[w] < N
  <2>1. op' = [op EXCEPT ![w] = op[w] + 1] /\ pc' = [pc EXCEPT ![w] = "claim"]
    BY <1>2 DEF Advance
  <2>2. op[w] \in Ops /\ op[w] + 1 \in Ops
    BY <1>2, Domains DEF TypeOK
  <2> QED
    BY <1>1, <2>1, <2>2 DEF TypeOK, Pcs
<1>3. CASE ~(op[w] < N)
  BY <1>1, <1>3 DEF Advance, TypeOK, Pcs
<1> QED
  BY <1>2, <1>3

\* Every step keeps the types.
LEMMA TypeInductive ==
  ASSUME TypeOK, ClaimInv, PrefixInv, [Next]_vars
  PROVE  TypeOK'
<1> USE ConstantsAssumption, Domains DEF TypeOK, Receipts, PublishStatuses,
        JobStatuses, Results, Pcs, rows, queue, handlers, history
<1>1. ASSUME NEW w \in Workers, NEW j \in Jobs, ClaimJob(w, j) PROVE TypeOK'
  BY <1>1, SMTT(30) DEF ClaimJob
<1>2. ASSUME NEW w \in Workers, PrepareExisting(w) PROVE TypeOK'
  BY <1>2 DEF PrepareExisting, Return, Leave
<1>3. ASSUME NEW w \in Workers, PrepareBlocked(w) PROVE TypeOK'
  BY <1>3 DEF PrepareBlocked
<1>4. ASSUME NEW w \in Workers, MarkBlocked(w) PROVE TypeOK'
  BY <1>4 DEF MarkBlocked, Return, Leave
<1>5. ASSUME NEW w \in Workers, PrepareAmbiguous(w) PROVE TypeOK'
  BY <1>5 DEF PrepareAmbiguous, Return, Leave, In
<1>6. ASSUME NEW w \in Workers, PrepareLater(w) PROVE TypeOK'
  BY <1>6 DEF PrepareLater, Return, Leave
<1>7. ASSUME NEW w \in Workers, PrepareRun(w) PROVE TypeOK'
  BY <1>7 DEF PrepareRun, Inserted
<1>8. ASSUME NEW w \in Workers, ClaimBlocked(w) PROVE TypeOK'
  BY <1>8 DEF ClaimBlocked, Return, Leave
<1>9. ASSUME NEW w \in Workers, ClaimSkip(w) PROVE TypeOK'
  BY <1>9, AdvanceTypes DEF ClaimSkip
<1>10. ASSUME NEW w \in Workers, ClaimCompeting(w) PROVE TypeOK'
  BY <1>10 DEF ClaimCompeting, Return, Leave
<1>11. ASSUME NEW w \in Workers, ClaimRefused(w) PROVE TypeOK'
  BY <1>11 DEF ClaimRefused, Return, Leave
<1>12. ASSUME NEW w \in Workers, ClaimNotDue(w) PROVE TypeOK'
  BY <1>12 DEF ClaimNotDue
<1>13. ASSUME NEW w \in Workers, ClaimReceipt(w) PROVE TypeOK'
  <2>1. op[w] \in Ops /\ count[op[w]] \in 0..MaxClaims
    OBVIOUS
  <2>2. count[op[w]] + 1 \in 0..MaxClaims
    BY <1>13, <2>1 DEF ClaimReceipt
  <2> QED
    BY <1>13, <2>1, <2>2 DEF ClaimReceipt
<1>14. ASSUME NEW w \in Workers, Send(w) PROVE TypeOK'
  <2>1. <<op[w], claimed[w]>> \in Claims
    <3>1. op[w] \in Ops /\ claimed[w] \in 0..MaxClaims
      OBVIOUS
    <3>2. claimed[w] >= 1
      BY <1>14 DEF Send, ClaimInv, Holding
    <3>3. claimed[w] \in 1..MaxClaims
      BY <3>1, <3>2
    <3> QED
      BY <3>1, <3>3, Domains
  <2>2. sent' \subseteq Claims
    BY <1>14, <2>1 DEF Send
  <2>3. /\ \/ pc' = [pc EXCEPT ![w] = "persist"]
           \/ pc' = [pc EXCEPT ![w] = "record"]
        /\ \/ result' = result
           \/ \E r \in Results : result' = [result EXCEPT ![w] = r]
    BY <1>14 DEF Send
  <2>4. pc' \in [Workers -> Pcs]
    BY <2>3
  <2>5. result' \in [Workers -> Results]
    BY <2>3
  <2>6. UNCHANGED <<rows, gate, queue, cur, op, claimed, known, denied,
                    confirmed>>
    BY <1>14 DEF Send
  <2> QED
    BY <2>2, <2>4, <2>5, <2>6
<1>15. ASSUME NEW w \in Workers, Superseded(w) PROVE TypeOK'
  BY <1>15 DEF Superseded, Return, Leave
<1>16. ASSUME NEW w \in Workers, PersistReceipt(w) PROVE TypeOK'
  BY <1>16, AdvanceTypes DEF PersistReceipt
<1>17. ASSUME NEW w \in Workers, RecordFailure(w) PROVE TypeOK'
  <2>1. receipt' \in [Ops -> Receipts]
    BY <1>17 DEF RecordFailure
  <2>2. later' \in [Ops -> BOOLEAN]
    BY <1>17 DEF RecordFailure
  <2>3. pj' \in PublishStatuses
    BY <1>17 DEF RecordFailure
  <2> QED
    BY <1>17, <2>1, <2>2, <2>3 DEF RecordFailure, Return, Leave
<1>18. ASSUME NEW w \in Workers, Finalize(w) PROVE TypeOK'
  <2>1. pub' \in BOOLEAN
    BY <1>18 DEF Finalize
  <2>2. pj' \in PublishStatuses
    BY <1>18 DEF Finalize
  <2>3. pc' \in [Workers -> Pcs] /\ result' \in [Workers -> Results]
    BY <1>18 DEF Finalize, Return
  <2>4. /\ op' \in [Workers -> Ops]
        /\ claimed' \in [Workers -> 0..MaxClaims]
        /\ known' \in [Workers -> PublishStatuses]
    <3>1. Leave(w)
      BY <1>18 DEF Finalize, Return
    <3> QED
      BY <3>1 DEF Leave
  <2> QED
    BY <1>18, <2>1, <2>2, <2>3, <2>4 DEF Finalize
<1>19. ASSUME NEW w \in Workers, ReleaseClaim(w) PROVE TypeOK'
  BY <1>19 DEF ReleaseClaim, Return, Leave
<1>20. ASSUME NEW w \in Workers, CloseJob(w) PROVE TypeOK'
  <2>1. ClosedStatus(cur[w], result[w]) \in JobStatuses
    BY DEF ClosedStatus
  <2>2. job' \in [Jobs -> JobStatuses] /\ owner' \in [Jobs -> Workers \cup {Nobody}]
    BY <1>20, <2>1 DEF CloseJob
  <2> QED
    BY <1>20, <2>2 DEF CloseJob, Reset, Leave
<1>21. ASSUME NEW w \in Workers, CrashWorker(w) PROVE TypeOK'
  BY <1>21 DEF CrashWorker, Reset, Leave
<1>22. ASSUME NEW j \in Jobs, RecoverLease(j) PROVE TypeOK'
  BY <1>22 DEF RecoverLease, In
<1>23. ASSUME NEW j \in Jobs, RetryJob(j) PROVE TypeOK'
  BY <1>23 DEF RetryJob
<1>24. ASSUME NEW o \in Ops, NotPublished(o) PROVE TypeOK'
  <2>1. count[o] \in 1..MaxClaims
    BY <1>24 DEF NotPublished, Reconcilable, In, PrefixInv
  <2>2. <<o, count[o]>> \in Claims
    BY <2>1, Domains
  <2>3. denied' \subseteq Claims /\ pjJob' \in Jobs
    BY <1>24, <2>2, Domains DEF NotPublished
  <2>4. job' \in [Jobs -> JobStatuses]
    BY <1>24 DEF NotPublished
  <2> QED
    BY <1>24, <2>1, <2>3, <2>4 DEF NotPublished
<1>25. ASSUME NEW o \in Ops, ConfirmPublished(o) PROVE TypeOK'
  BY <1>25 DEF ConfirmPublished, Reconcilable, In
<1>26. ASSUME NEW o \in Ops, BecomesDue(o) PROVE TypeOK'
  BY <1>26 DEF BecomesDue
<1>27. ASSUME TurnGate PROVE TypeOK'
  BY <1>27 DEF TurnGate
<1>28. ASSUME UNCHANGED vars PROVE TypeOK'
  BY <1>28 DEF vars
<1> QED
  BY <1>1, <1>2, <1>3, <1>4, <1>5, <1>6, <1>7, <1>8, <1>9, <1>10, <1>11,
      <1>12, <1>13, <1>14, <1>15, <1>16, <1>17, <1>18, <1>19, <1>20, <1>21,
      <1>22, <1>23, <1>24, <1>25, <1>26, <1>27, <1>28 DEF Next, Prepare,
      ClaimOperation, Deliver

\* A step that leaves the claims, what was sent and what was decided alone: it
\* may end one run, turn dispatching receipts ambiguous, and close the books.
Active == {"claim", "release", "send", "persist", "record"}

Same(x) == pc'[x] = pc[x] /\ op'[x] = op[x] /\ claimed'[x] = claimed[x]
           /\ result'[x] = result[x]

Others(w) == \A x \in Workers \ {w} : Same(x)

Quiet(w) ==
  /\ Others(w)
  /\ w \in Workers => pc'[w] \notin Active
  /\ UNCHANGED <<count, sent, denied, confirmed>>
  /\ \A o \in Ops : \/ receipt'[o] = receipt[o]
                    \/ receipt[o] = "dispatching" /\ receipt'[o] = "ambiguous"
  /\ pub' = pub \/ \A o \in Ops : receipt[o] = "succeeded"
  /\ pj' = "succeeded" => pub'

\* The steps of a run that are not quiet.
Loud(w) ==
  \/ PrepareRun(w) \/ ClaimSkip(w) \/ ClaimNotDue(w) \/ ClaimReceipt(w)
  \/ Send(w) \/ PersistReceipt(w) \/ RecordFailure(w)

\* Every other step is quiet: each way a run begins or ends, recovery, and
\* everything the operator does but reconciliation.
LEMMA StepKinds ==
  ASSUME TypeOK, PublishedIsDelivered, [Next]_vars
  PROVE  \/ \E w \in Workers \cup {Nobody} : Quiet(w)
         \/ \E w \in Workers : Loud(w)
         \/ \E o \in Ops : NotPublished(o) \/ ConfirmPublished(o)
<1> DEFINE Goal == \/ \E w \in Workers \cup {Nobody} : Quiet(w)
                   \/ \E w \in Workers : Loud(w)
                   \/ \E o \in Ops : NotPublished(o) \/ ConfirmPublished(o)
<1> USE ConstantsAssumption DEF TypeOK, Pcs, Active, Quiet, Others, Same, rows,
        queue, handlers, history
<1>1. ASSUME NEW w \in Workers, NEW j \in Jobs, ClaimJob(w, j) PROVE Quiet(w)
  BY <1>1 DEF ClaimJob, PublishedIsDelivered
<1>2. ASSUME NEW w \in Workers, PrepareExisting(w) PROVE Quiet(w)
  BY <1>2 DEF PrepareExisting, Return, Leave, PublishedIsDelivered
<1>3. ASSUME NEW w \in Workers, PrepareBlocked(w) PROVE Quiet(w)
  BY <1>3 DEF PrepareBlocked, PublishedIsDelivered
<1>4. ASSUME NEW w \in Workers, MarkBlocked(w) PROVE Quiet(w)
  BY <1>4 DEF MarkBlocked, Return, Leave
<1>5. ASSUME NEW w \in Workers, PrepareAmbiguous(w) PROVE Quiet(w)
  BY <1>5 DEF PrepareAmbiguous, Return, Leave, In
<1>6. ASSUME NEW w \in Workers, PrepareLater(w) PROVE Quiet(w)
  BY <1>6 DEF PrepareLater, Return, Leave, PublishedIsDelivered
<1>7. ASSUME NEW w \in Workers,
             ClaimBlocked(w) \/ ClaimRefused(w) PROVE Quiet(w)
  BY <1>7 DEF ClaimBlocked, ClaimRefused, Return, Leave
<1>8. ASSUME NEW w \in Workers,
             ClaimCompeting(w) \/ Superseded(w) \/ ReleaseClaim(w)
      PROVE  Quiet(w)
  BY <1>8 DEF ClaimCompeting, Superseded, ReleaseClaim, Return, Leave,
      PublishedIsDelivered
<1>9. ASSUME NEW w \in Workers, Finalize(w) PROVE Quiet(w)
  BY <1>9 DEF Finalize, Return, Leave, In, PublishedIsDelivered
<1>10. ASSUME NEW w \in Workers, CloseJob(w) \/ CrashWorker(w) PROVE Quiet(w)
  BY <1>10 DEF CloseJob, CrashWorker, Reset, Leave, PublishedIsDelivered
<1>11. ASSUME NEW j \in Jobs, RecoverLease(j) PROVE Quiet(Nobody)
  BY <1>11 DEF RecoverLease, PublishedIsDelivered
<1>12. ASSUME NEW j \in Jobs, RetryJob(j) PROVE Quiet(Nobody)
  BY <1>12 DEF RetryJob, PublishedIsDelivered
<1>13. ASSUME NEW o \in Ops, BecomesDue(o) PROVE Quiet(Nobody)
  BY <1>13 DEF BecomesDue, PublishedIsDelivered
<1>14. ASSUME TurnGate \/ UNCHANGED vars PROVE Quiet(Nobody)
  BY <1>14 DEF TurnGate, vars, PublishedIsDelivered
<1>15. ASSUME NEW w \in Workers,
              \/ \E j \in Jobs : ClaimJob(w, j)
              \/ Prepare(w) \/ ClaimOperation(w) \/ Deliver(w)
              \/ CloseJob(w) \/ CrashWorker(w)
       PROVE  Quiet(w) \/ Loud(w)
  <2> HIDE DEF Quiet
  <2> QED
    BY <1>1, <1>2, <1>3, <1>4, <1>5, <1>6, <1>7, <1>8, <1>9, <1>10, <1>15
    DEF Prepare, ClaimOperation, Deliver, Loud
<1> HIDE DEF Quiet
<1>16. Quiet(Nobody) => Goal
  OBVIOUS
<1>17. CASE UNCHANGED vars
  BY <1>14, <1>16, <1>17
<1>18. CASE Next
  BY <1>11, <1>12, <1>13, <1>14, <1>15, <1>16, <1>18 DEF Next
<1> QED
  BY <1>17, <1>18

\* Facts about the values of the variables, for arithmetic.
LEMMA Values ==
  ASSUME TypeOK
  PROVE  /\ \A x \in Workers : /\ op[x] \in Ops /\ op[x] \in Nat
                               /\ claimed[x] \in Nat
         /\ \A o \in Ops : /\ o \in Nat /\ count[o] \in Nat
                           /\ count[o] <= MaxClaims
                           /\ receipt[o] \in Receipts
<1>1. \A x \in Workers : op[x] \in Ops /\ claimed[x] \in 0..MaxClaims
  BY DEF TypeOK
<1>2. \A o \in Ops : count[o] \in 0..MaxClaims /\ receipt[o] \in Receipts
  BY DEF TypeOK
<1>3. \A o \in Ops : o \in Nat
  BY Domains
<1> QED
  BY <1>1, <1>2, <1>3, ConstantsAssumption

\* Quiet steps keep the invariant.
LEMMA QuietKeeps ==
  ASSUME IInv, NEW w \in Workers \cup {Nobody}, Quiet(w)
  PROVE  Rest'
<1> USE DEF Quiet, Others, Same, Active, Holding
<1>1. ClaimInv'
  BY DEF IInv, Rest, ClaimInv
<1>2. SentInv'
  BY DEF IInv, Rest, SentInv
<1>3. ZombieInv'
  BY Values DEF IInv, Rest, ZombieInv
<1>4. PrefixInv'
  BY DEF IInv, Rest, PrefixInv
<1>5. NoBlindResend'
  BY DEF IInv, Rest, NoBlindResend
<1>6. PublishedIsDelivered'
  BY DEF IInv, Rest, PublishedIsDelivered
<1>7. SentInOrder'
  BY DEF IInv, Rest, SentInOrder
<1> QED
  BY <1>1, <1>2, <1>3, <1>4, <1>5, <1>6, <1>7 DEF Rest

\* load_context inserts the receipts and the loop begins.
LEMMA PrepareRunKeeps ==
  ASSUME IInv, NEW w \in Workers, PrepareRun(w)
  PROVE  Rest'
<1>1. /\ Others(w)
      /\ pc'[w] = "claim" /\ op'[w] = 1
      /\ UNCHANGED <<count, sent, denied, confirmed, pub, pj>>
      /\ \A o \in Ops : receipt'[o] = IF receipt[o] = "none" THEN "pending"
                                      ELSE receipt[o]
  BY DEF IInv, TypeOK, PrepareRun, Inserted, Others, Same, queue, history
<1>2. \A o \in Ops : receipt[o] = "none" => count[o] = 0
  BY DEF IInv, Rest, PrefixInv
<1> USE <1>1 DEF Others, Same, Holding
<1>3. ClaimInv'
  BY DEF IInv, Rest, ClaimInv
<1>4. SentInv'
  BY DEF IInv, Rest, SentInv
<1>5. ZombieInv'
  BY <1>2, Values DEF IInv, Rest, ZombieInv, ClaimInv
<1>6. PrefixInv'
  BY <1>2, Domains DEF IInv, Rest, PrefixInv
<1>7. NoBlindResend'
  <2>1. ASSUME NEW o \in Ops, NEW n \in 1..MaxClaims, <<o, n>> \in sent
        PROVE  receipt[o] # "none"
    BY <2>1, <1>2, Values DEF IInv, Rest, SentInv
  <2> QED
    BY <2>1 DEF IInv, Rest, NoBlindResend
<1>8. PublishedIsDelivered'
  BY DEF IInv, Rest, PublishedIsDelivered
<1>9. SentInOrder'
  BY DEF IInv, Rest, SentInOrder
<1> QED
  BY <1>3, <1>4, <1>5, <1>6, <1>7, <1>8, <1>9 DEF Rest

\* The loop goes on behind a delivered prefix.
LEMMA AdvanceKeeps ==
  ASSUME IInv, NEW w \in Workers, Advance(w), result' = result,
         \A x \in Workers \ {w} : pc'[x] = pc[x] /\ claimed'[x] = claimed[x]
                                  /\ op'[x] = op[x],
         UNCHANGED <<count, sent, denied, confirmed, pub, pj>>,
         \A o \in Ops : receipt'[o] = receipt[o] \/ receipt'[o] = "succeeded",
         receipt'[op[w]] = "succeeded",
         \A p \in Ops : p < op[w] => receipt[p] = "succeeded",
         receipt[op[w]] # "succeeded" => <<op[w], count[op[w]]>> \in sent,
         \A o \in Ops \ {op[w]} : receipt'[o] = receipt[o]
  PROVE  Rest'
<1>1. /\ pc'[w] \in {"claim", "finalize"}
      /\ pc'[w] = "claim" => op'[w] = op[w] + 1
  BY DEF Advance, IInv, TypeOK
<1>2. op[w] \in Ops
  BY Values DEF IInv
<1> USE <1>1, <1>2 DEF Holding
<1>3. ClaimInv'
  BY DEF IInv, Rest, ClaimInv
<1>4. SentInv'
  BY DEF IInv, Rest, SentInv
<1>5. ZombieInv'
  BY Values DEF IInv, Rest, ZombieInv
<1>6. PrefixInv'
  <2>1. ASSUME NEW p \in Ops, p < op[w] + 1 PROVE receipt'[p] = "succeeded"
    <3>1. p < op[w] \/ p = op[w]
      BY <2>1, Values DEF IInv
    <3> QED
      BY <3>1
  <2> QED
    BY <2>1 DEF IInv, Rest, PrefixInv
<1>7. NoBlindResend'
  BY DEF IInv, Rest, NoBlindResend
<1>8. PublishedIsDelivered'
  BY DEF IInv, Rest, PublishedIsDelivered
<1>9. SentInOrder'
  BY DEF IInv, Rest, SentInOrder
<1> QED
  BY <1>3, <1>4, <1>5, <1>6, <1>7, <1>8, <1>9 DEF Rest

LEMMA ClaimSkipKeeps ==
  ASSUME IInv, NEW w \in Workers, ClaimSkip(w)
  PROVE  Rest'
<1>1. \A x \in Workers \ {w} : pc'[x] = pc[x] /\ claimed'[x] = claimed[x]
                               /\ op'[x] = op[x]
  BY DEF ClaimSkip, Advance, IInv, TypeOK
<1>2. \A p \in Ops : p < op[w] => receipt[p] = "succeeded"
  BY DEF ClaimSkip, IInv, Rest, PrefixInv
<1> QED
  BY <1>1, <1>2, AdvanceKeeps DEF ClaimSkip, rows, history

LEMMA PersistReceiptKeeps ==
  ASSUME IInv, NEW w \in Workers, PersistReceipt(w)
  PROVE  Rest'
<1>1. \A x \in Workers \ {w} : pc'[x] = pc[x] /\ claimed'[x] = claimed[x]
                               /\ op'[x] = op[x]
  BY DEF PersistReceipt, Advance, IInv, TypeOK
<1>2. \A p \in Ops : p < op[w] => receipt[p] = "succeeded"
  BY DEF PersistReceipt, IInv, Rest, PrefixInv
<1>3. <<op[w], count[op[w]]>> \in sent
  BY DEF PersistReceipt, Holds, IInv, Rest, SentInv
<1>4. /\ receipt'[op[w]] = "succeeded"
      /\ \A o \in Ops \ {op[w]} : receipt'[o] = receipt[o]
  BY Values DEF PersistReceipt, IInv, TypeOK
<1> QED
  BY <1>1, <1>2, <1>3, <1>4, AdvanceKeeps DEF PersistReceipt, history

LEMMA ClaimNotDueKeeps ==
  ASSUME IInv, NEW w \in Workers, ClaimNotDue(w)
  PROVE  Rest'
<1>1. /\ \A x \in Workers \ {w} : pc'[x] = pc[x]
      /\ pc[w] = "claim" /\ pc'[w] = "release"
      /\ UNCHANGED <<op, claimed, result, receipt, count, sent, denied,
                     confirmed, pub, pj>>
  BY DEF ClaimNotDue, IInv, TypeOK, rows, history
<1> QED
  BY <1>1 DEF IInv, Rest, ClaimInv, SentInv, ZombieInv, PrefixInv, Holding,
      NoBlindResend, PublishedIsDelivered, SentInOrder

\* A claim takes the next number; whoever holds the last one is a zombie.
LEMMA ClaimReceiptKeeps ==
  ASSUME IInv, NEW w \in Workers, ClaimReceipt(w)
  PROVE  Rest'
<1> DEFINE o == op[w]
           n == count[o] + 1
<1>1. o \in Ops /\ count[o] \in Nat /\ n \in 1..MaxClaims
  BY Values, ConstantsAssumption DEF IInv, ClaimReceipt
<1>2. /\ Others(w)
      /\ pc[w] = "claim" /\ pc'[w] = "send"
      /\ op' = op /\ claimed'[w] = n /\ count'[o] = n
      /\ receipt[o] = "pending" /\ receipt'[o] = "dispatching"
      /\ \A p \in Ops \ {o} : receipt'[p] = receipt[p] /\ count'[p] = count[p]
      /\ UNCHANGED <<sent, denied, confirmed, pub, result>>
      /\ pj' = "dispatching"
  BY <1>1 DEF IInv, TypeOK, ClaimReceipt, Others, Same, history
<1>3. <<o, n>> \notin sent
  BY <1>1 DEF IInv, Rest, SentInv
<1>4. \A x \in Workers :
        Holding(x) /\ op[x] = o => claimed[x] < n /\ claimed[x] # n
  BY <1>1, Values DEF IInv, Rest, ClaimInv
<1> HIDE DEF o, n
<1> USE <1>1, <1>2 DEF Others, Same, Holding
<1>5. ClaimInv'
  <2>1. \A x \in Workers :
          Holding(x)' => claimed'[x] >= 1 /\ claimed'[x] <= count'[op'[x]]
    BY <1>4, Values DEF IInv, Rest, ClaimInv, o
  <2>2. \A x, y \in Workers :
          Holding(x)' /\ Holding(y)' /\ op'[x] = op'[y]
            /\ claimed'[x] = claimed'[y] => x = y
    BY <1>4 DEF IInv, Rest, ClaimInv, o
  <2> QED
    BY <2>1, <2>2 DEF ClaimInv
<1>6. SentInv'
  <2>1. \A p \in Ops, m \in 1..MaxClaims : <<p, m>> \in sent' => m <= count'[p]
    BY Values DEF IInv, Rest, SentInv, n
  <2> QED
    BY <1>3, <2>1 DEF IInv, Rest, SentInv, o
<1>7. ZombieInv'
  BY <1>4, Values DEF IInv, Rest, ZombieInv, ClaimInv, o
<1>8. PrefixInv'
  BY Values DEF IInv, Rest, PrefixInv, n, o
<1>9. NoBlindResend'
  BY <1>3, Values DEF IInv, Rest, NoBlindResend, SentInv
<1>10. PublishedIsDelivered'
  BY DEF IInv, Rest, PublishedIsDelivered
<1>11. SentInOrder'
  BY DEF IInv, Rest, SentInOrder, PrefixInv, o
<1> QED
  BY <1>5, <1>6, <1>7, <1>8, <1>9, <1>10, <1>11 DEF Rest

\* Only the holder of a claim sends, and once.
LEMMA SendKeeps ==
  ASSUME IInv, NEW w \in Workers, Send(w)
  PROVE  Rest'
<1> DEFINE c == <<op[w], claimed[w]>>
<1>1. /\ \A x \in Workers \ {w} : pc'[x] = pc[x] /\ result'[x] = result[x]
      /\ pc[w] = "send" /\ pc'[w] \in {"persist", "record"}
      /\ sent' = sent \/ sent' = sent \cup {c}
      /\ pc'[w] = "persist" => c \in sent'
      /\ pc'[w] = "record" /\ result'[w] # "needs_review" => sent' = sent
      /\ UNCHANGED <<op, claimed, receipt, count, denied, confirmed, pub, pj>>
  BY DEF IInv, TypeOK, Send, rows
<1>2. c \notin sent
  BY <1>1 DEF IInv, Rest, SentInv
<1>3. /\ op[w] \in Ops /\ claimed[w] \in Nat /\ claimed[w] >= 1
      /\ claimed[w] <= count[op[w]]
  BY <1>1, Values DEF IInv, Rest, ClaimInv, Holding
<1>4. \A x \in Workers \ {w} : Holding(x) => <<op[x], claimed[x]>> # c
  BY <1>1 DEF IInv, Rest, ClaimInv, Holding
<1> USE <1>1 DEF Holding
<1>5. ClaimInv'
  BY DEF IInv, Rest, ClaimInv
<1>6. SentInv'
  <2>1. \A o \in Ops, n \in 1..MaxClaims : <<o, n>> \in sent' => n <= count'[o]
    BY <1>3 DEF IInv, Rest, SentInv
  <2> QED
    BY <1>2, <1>4, <2>1 DEF IInv, Rest, SentInv
<1>7. ZombieInv'
  BY DEF IInv, Rest, ZombieInv
<1>8. PrefixInv'
  BY DEF IInv, Rest, PrefixInv
<1>9. NoBlindResend'
  <2>1. claimed[w] < count[op[w]] \/ receipt[op[w]] = "pending" => c \in denied
    BY DEF IInv, Rest, ZombieInv
  <2> QED
    BY <2>1 DEF IInv, Rest, NoBlindResend
<1>10. PublishedIsDelivered'
  BY DEF IInv, Rest, PublishedIsDelivered
<1>11. SentInOrder'
  BY DEF IInv, Rest, SentInOrder
<1> QED
  BY <1>5, <1>6, <1>7, <1>8, <1>9, <1>10, <1>11 DEF Rest

\* A receipt goes back to pending only when its last claim was refused, and
\* nobody else holds that claim.
LEMMA RecordFailureKeeps ==
  ASSUME IInv, NEW w \in Workers, RecordFailure(w)
  PROVE  Rest'
<1> DEFINE o == op[w]
<1>1. o \in Ops /\ count[o] \in Nat
  BY Values DEF IInv
<1>2. /\ Others(w)
      /\ pc[w] = "record" /\ pc'[w] = "close"
      /\ receipt[o] = "dispatching" /\ claimed[w] = count[o]
      /\ receipt'[o] \in {"pending", "ambiguous", "failed"}
      /\ receipt'[o] = "pending" => result[w] = "retryable"
      /\ \A p \in Ops \ {o} : receipt'[p] = receipt[p]
      /\ UNCHANGED <<count, sent, denied, confirmed, pub>>
      /\ pj' # "succeeded"
  BY <1>1 DEF IInv, TypeOK, RecordFailure, Return, Leave, Holds, Others, Same,
      history
<1>3. receipt'[o] = "pending" => <<o, count[o]>> \notin sent
  BY <1>2 DEF IInv, Rest, SentInv
<1>4. \A x \in Workers \ {w} : Holding(x) /\ op[x] = o => claimed[x] < count[o]
  BY <1>1, <1>2, Values DEF IInv, Rest, ClaimInv, Holding
<1> HIDE DEF o
<1> USE <1>1, <1>2 DEF Others, Same, Holding
<1>5. ClaimInv'
  BY DEF IInv, Rest, ClaimInv
<1>6. SentInv'
  BY DEF IInv, Rest, SentInv
<1>7. ZombieInv'
  BY <1>4, Values DEF IInv, Rest, ZombieInv
<1>8. PrefixInv'
  BY DEF IInv, Rest, PrefixInv, Active
<1>9. NoBlindResend'
  <2>1. ASSUME NEW n \in 1..MaxClaims, <<o, n>> \in sent,
               receipt'[o] = "pending"
        PROVE  n < count[o]
    BY <1>3, <2>1 DEF IInv, Rest, SentInv
  <2> QED
    BY <2>1 DEF IInv, Rest, NoBlindResend
<1>10. PublishedIsDelivered'
  BY DEF IInv, Rest, PublishedIsDelivered
<1>11. SentInOrder'
  BY DEF IInv, Rest, SentInOrder
<1> QED
  BY <1>5, <1>6, <1>7, <1>8, <1>9, <1>10, <1>11 DEF Rest

\* The operator's answer covers whoever still holds the claim.
LEMMA NotPublishedKeeps ==
  ASSUME IInv, NEW o \in Ops, NotPublished(o)
  PROVE  Rest'
<1>1. /\ receipt[o] = "ambiguous" /\ receipt'[o] = "pending"
      /\ \A p \in Ops \ {o} : receipt'[p] = receipt[p]
      /\ denied' = denied \cup {<<o, count[o]>>}
      /\ UNCHANGED <<count, sent, confirmed, pub, pc, op, claimed, result>>
      /\ pj' # "succeeded"
  BY DEF IInv, TypeOK, NotPublished, Reconcilable, In, handlers
<1> USE <1>1 DEF Holding
<1>2. ClaimInv'
  BY DEF IInv, Rest, ClaimInv
<1>3. SentInv'
  BY DEF IInv, Rest, SentInv
<1>4. ZombieInv'
  <2>1. \A x \in Workers : Holding(x) /\ op[x] = o
          => claimed[x] < count[o] \/ claimed[x] = count[o]
    BY Values DEF IInv, Rest, ClaimInv
  <2> QED
    BY <2>1, Values DEF IInv, Rest, ZombieInv
<1>5. PrefixInv'
  BY DEF IInv, Rest, PrefixInv
<1>6. NoBlindResend'
  <2>1. \A n \in 1..MaxClaims : <<o, n>> \in sent => n < count[o] \/ n = count[o]
    BY Values DEF IInv, Rest, SentInv
  <2> QED
    BY <2>1 DEF IInv, Rest, NoBlindResend
<1>7. PublishedIsDelivered'
  BY DEF IInv, Rest, PublishedIsDelivered
<1>8. SentInOrder'
  BY DEF IInv, Rest, SentInOrder
<1> QED
  BY <1>2, <1>3, <1>4, <1>5, <1>6, <1>7, <1>8 DEF Rest

LEMMA ConfirmPublishedKeeps ==
  ASSUME IInv, NEW o \in Ops, ConfirmPublished(o)
  PROVE  Rest'
<1>1. /\ receipt'[o] = "succeeded"
      /\ \A p \in Ops \ {o} : receipt'[p] = receipt[p] /\ receipt[p] = "succeeded"
      /\ confirmed' = confirmed \cup {o}
      /\ UNCHANGED <<count, sent, denied, pc, op, claimed, result>>
      /\ pub'
  BY DEF IInv, TypeOK, ConfirmPublished, Reconcilable, In, handlers
<1> USE <1>1 DEF Holding
<1>2. ClaimInv' /\ SentInv'
  BY DEF IInv, Rest, ClaimInv, SentInv
<1>3. ZombieInv'
  BY Values DEF IInv, Rest, ZombieInv
<1>4. PrefixInv'
  BY DEF IInv, Rest, PrefixInv
<1>5. NoBlindResend'
  BY DEF IInv, Rest, NoBlindResend
<1>6. PublishedIsDelivered'
  BY DEF IInv, Rest, PublishedIsDelivered
<1>7. SentInOrder'
  BY DEF IInv, Rest, SentInOrder
<1> QED
  BY <1>2, <1>3, <1>4, <1>5, <1>6, <1>7 DEF Rest

\* Every step keeps the invariant.
LEMMA StepIInv == IInv /\ [Next]_vars => IInv'
<1> SUFFICES ASSUME IInv, [Next]_vars PROVE IInv'
  OBVIOUS
<1>1. TypeOK'
  BY TypeInductive DEF IInv, Rest
<1>2. TypeOK /\ PublishedIsDelivered
  BY DEF IInv, Rest
<1>3. ASSUME NEW w \in Workers \cup {Nobody}, Quiet(w) PROVE Rest'
  BY <1>3, QuietKeeps
<1>4. ASSUME NEW w \in Workers, PrepareRun(w) PROVE Rest'
  BY <1>4, PrepareRunKeeps
<1>5. ASSUME NEW w \in Workers, ClaimSkip(w) PROVE Rest'
  BY <1>5, ClaimSkipKeeps
<1>6. ASSUME NEW w \in Workers, ClaimNotDue(w) PROVE Rest'
  BY <1>6, ClaimNotDueKeeps
<1>7. ASSUME NEW w \in Workers, ClaimReceipt(w) PROVE Rest'
  BY <1>7, ClaimReceiptKeeps
<1>8. ASSUME NEW w \in Workers, Send(w) PROVE Rest'
  BY <1>8, SendKeeps
<1>9. ASSUME NEW w \in Workers, PersistReceipt(w) PROVE Rest'
  BY <1>9, PersistReceiptKeeps
<1>10. ASSUME NEW w \in Workers, RecordFailure(w) PROVE Rest'
  BY <1>10, RecordFailureKeeps
<1>11. ASSUME NEW o \in Ops, NotPublished(o) PROVE Rest'
  BY <1>11, NotPublishedKeeps
<1>12. ASSUME NEW o \in Ops, ConfirmPublished(o) PROVE Rest'
  BY <1>12, ConfirmPublishedKeeps
<1>13. Rest'
  BY <1>2, <1>3, <1>4, <1>5, <1>6, <1>7, <1>8, <1>9, <1>10, <1>11, <1>12,
     StepKinds DEF Loud
<1> QED
  BY <1>1, <1>13 DEF IInv

\* A publish job starts with no receipts and nothing sent.
LEMMA InitIInv == Init => IInv
<1> SUFFICES ASSUME Init PROVE IInv
  OBVIOUS
<1>1. TypeOK
  <2>1. sent \subseteq Claims /\ denied \subseteq Claims /\ confirmed \subseteq Ops
    BY DEF Init
  <2>2. gate \in BOOLEAN /\ pub \in BOOLEAN
    BY DEF Init
  <2> QED
    BY <2>1, <2>2, Domains, ConstantsAssumption
    DEF Init, TypeOK, Receipts, PublishStatuses, JobStatuses, Results, Pcs
<1>2. Rest
  BY Domains
  DEF Init, Rest, ClaimInv, SentInv, ZombieInv, PrefixInv, Holding,
      NoBlindResend, PublishedIsDelivered, SentInOrder
<1> QED
  BY <1>1, <1>2 DEF IInv

LEMMA Invariance == Spec => []IInv
<1> QED
  BY InitIInv, StepIInv, PTL DEF Spec

\* Every reachable state of a publication is well typed.
THEOREM TypeCorrect == Spec => []TypeOK
<1>1. IInv => TypeOK
  BY DEF IInv
<1> QED
  BY <1>1, Invariance, PTL

\* Nothing that may have reached Telegram is sent again, nor made sendable,
\* before the operator has answered "not_published" for that send.
THEOREM ResendNeedsOperator == Spec => []NoBlindResend
<1>1. IInv => NoBlindResend
  BY DEF IInv, Rest
<1> QED
  BY <1>1, Invariance, PTL

\* A publication stands for a complete delivery.
THEOREM PublicationComplete == Spec => []PublishedIsDelivered
<1>1. IInv => PublishedIsDelivered
  BY DEF IInv, Rest
<1> QED
  BY <1>1, Invariance, PTL

\* Operations are claimed in the order of the plan.
THEOREM PlanOrder == Spec => []SentInOrder
<1>1. IInv => SentInOrder
  BY DEF IInv, Rest
<1> QED
  BY <1>1, Invariance, PTL

\* Settled receipts stay settled, and ambiguity ends by a decision only.
THEOREM ReceiptsSettle == Spec => SettledReceiptsKept
<1> DEFINE A == \A o \in Ops :
       /\ receipt[o] \in {"succeeded", "failed"} => receipt'[o] = receipt[o]
       /\ receipt[o] = "ambiguous" /\ receipt'[o] # "ambiguous"
            => <<o, count[o]>> \in denied' \/ o \in confirmed'
<1>1. IInv /\ [Next]_vars => A
  <2> SUFFICES ASSUME IInv, [Next]_vars, NEW o \in Ops
               PROVE  /\ receipt[o] \in {"succeeded", "failed"}
                           => receipt'[o] = receipt[o]
                      /\ receipt[o] = "ambiguous" /\ receipt'[o] # "ambiguous"
                           => <<o, count[o]>> \in denied' \/ o \in confirmed'
    OBVIOUS
  <2>1. ASSUME NEW w \in Workers \cup {Nobody}, Quiet(w)
        PROVE  receipt'[o] = receipt[o] \/ receipt[o] = "dispatching"
    BY <2>1 DEF Quiet
  <2>2. ASSUME NEW w \in Workers,
               \/ PrepareRun(w) \/ ClaimSkip(w) \/ ClaimNotDue(w)
               \/ ClaimReceipt(w) \/ Send(w)
        PROVE  receipt'[o] = receipt[o] \/ receipt[o] \in {"none", "pending"}
    BY <2>2, Values DEF PrepareRun, Inserted, ClaimSkip, ClaimNotDue,
        ClaimReceipt, Send, rows, IInv, TypeOK
  <2>3. ASSUME NEW w \in Workers, PersistReceipt(w) \/ RecordFailure(w)
        PROVE  receipt'[o] = receipt[o] \/ receipt[o] = "dispatching"
    BY <2>3, Values DEF PersistReceipt, RecordFailure, Holds, IInv, TypeOK
  <2>4. ASSUME NEW p \in Ops, NotPublished(p)
        PROVE  \/ receipt'[o] = receipt[o]
               \/ receipt[o] = "ambiguous" /\ <<o, count[o]>> \in denied'
    BY <2>4 DEF NotPublished, Reconcilable, In, IInv, TypeOK
  <2>5. ASSUME NEW p \in Ops, ConfirmPublished(p)
        PROVE  \/ receipt'[o] = receipt[o]
               \/ receipt[o] = "ambiguous" /\ o \in confirmed'
    BY <2>5 DEF ConfirmPublished, Reconcilable, In, IInv, TypeOK
  <2>6. PublishedIsDelivered /\ TypeOK
    BY DEF IInv, Rest
  <2>7. ASSUME NEW w \in Workers, Loud(w)
        PROVE  \/ receipt'[o] = receipt[o]
               \/ receipt[o] \in {"none", "pending", "dispatching"}
    BY <2>2, <2>3, <2>7 DEF Loud
  <2>8. \/ receipt'[o] = receipt[o]
        \/ receipt[o] \in {"none", "pending", "dispatching"}
        \/ /\ receipt[o] = "ambiguous"
           /\ <<o, count[o]>> \in denied' \/ o \in confirmed'
    BY <2>1, <2>4, <2>5, <2>6, <2>7, StepKinds
  <2> QED
    BY <2>8
<1>2. IInv /\ [Next]_vars => [A]_vars
  BY <1>1
<1> QED
  BY <1>2, Invariance, PTL DEF Spec, SettledReceiptsKept

-----------------------------------------------------------------------------
(* The drafts of a variant and what is asked of them (TelegramScheduling).   *)
(* DeskInv is inductive: whoever holds the lock of the variant looks at its  *)
(* newest, approved revision, and what it has read of the intents is so.     *)

CONSTANTS Clients, NoClient, MaxRevisions, MaxTime
VARIABLES drafts, intents, enabled, lock, call, now
Drafts == INSTANCE TelegramScheduling

Numbers == 1..MaxRevisions
Kinds == {"immediate", "scheduled"}
Approvals == {"pending_review", "approved", "rejected"}
Intents ==
  [status : {"none", "queued", "scheduled", "attention", "published"}, due : 0..MaxTime,
   job : {"absent", "queued", "succeeded", "needs_review", "cancelled"}, retries : 0..MaxRetries]
Calls ==
  [op : {"none", "schedule", "publish"}, rev : 0..MaxRevisions, due : 0..MaxTime,
   pc : {"idle", "wait", "locked", "write"}, read : SUBSET Kinds]

DeskTypes ==
  /\ drafts \in Seq(Approvals) /\ Len(drafts) \in 1..MaxRevisions
  /\ intents \in [Numbers -> [Kinds -> Intents]] /\ sent \in [Numbers -> Nat]
  /\ enabled \in BOOLEAN
  /\ lock \in Clients \cup {NoClient} /\ call \in [Clients -> Calls] /\ now \in 0..MaxTime

\* Who is past the lock holds it, for the newest revision, an approved one.
Inside(c) == call[c].pc \in {"locked", "write"}
HoldsLock(c) ==
  Inside(c) => /\ lock = c
               /\ call[c].rev = Len(drafts) /\ drafts[call[c].rev] = "approved"

\* The intents it has read are those there are.
ReadIsTrue(c) ==
  call[c].pc = "write" =>
    call[c].read = {k \in Kinds : intents[call[c].rev][k].status # "none"}

\* An intent has a job, a delivered one has ended it, and no revision to come has
\* one.
IntentsInv ==
  /\ \A n \in Numbers, k \in Kinds : intents[n][k].status = "none" <=> intents[n][k].job = "absent"
  /\ \A n \in Numbers, k \in Kinds : n > Len(drafts) => intents[n][k].status = "none"
  /\ \A n \in Numbers : sent[n] # 0 => \E k \in Kinds : intents[n][k].job = "succeeded"

DeskInv ==
  /\ DeskTypes /\ IntentsInv /\ Drafts!SentOnce
  /\ \A c \in Clients : HoldsLock(c) /\ ReadIsTrue(c)

LEMMA DeskConstants ==
  ASSUME Drafts!TelegramSchedulingAssumption
  PROVE  /\ MaxRevisions \in Nat \ {0} /\ MaxTime \in Nat /\ MaxRetries \in Nat
         /\ NoClient \notin Clients
         /\ Drafts!Numbers = Numbers /\ Drafts!Kinds = Kinds
BY DEF Drafts!TelegramSchedulingAssumption, Drafts!Numbers, Numbers, Drafts!Kinds, Kinds

LEMMA DeskTyped ==
  ASSUME Drafts!TelegramSchedulingAssumption, DeskInv PROVE Drafts!TypeOK
BY DeskConstants
DEF DeskInv, DeskTypes, Intents, Calls, Approvals, Drafts!TypeOK

LEMMA DeskStarts ==
  ASSUME Drafts!TelegramSchedulingAssumption, Drafts!Init PROVE DeskInv
<1> USE DeskConstants DEF Drafts!Init
<1>1. Drafts!NoIntent \in Intents /\ Drafts!NoIntent.status = "none"
      /\ Drafts!NoIntent.job = "absent"
  BY DEF Drafts!NoIntent, Intents
<1>2. Drafts!NoCall \in Calls /\ Drafts!NoCall.pc = "idle"
  BY DEF Drafts!NoCall, Calls
<1>3. DeskTypes
  BY <1>1, <1>2 DEF DeskTypes, Approvals
<1>4. IntentsInv /\ Drafts!SentOnce
  BY <1>1 DEF IntentsInv, Drafts!SentOnce, Kinds
<1>5. \A c \in Clients : HoldsLock(c) /\ ReadIsTrue(c)
  BY <1>2 DEF HoldsLock, Inside, ReadIsTrue
<1> QED
  BY <1>3, <1>4, <1>5 DEF DeskInv

\* While nobody holds the lock, nobody is past it.
LEMMA Outside ==
  ASSUME Drafts!TelegramSchedulingAssumption, DeskInv, lock = NoClient, NEW c \in Clients
  PROVE  ~ Inside(c)
BY DeskConstants DEF DeskInv, HoldsLock

\* Only one is past it.
LEMMA OneInside ==
  ASSUME DeskInv, NEW c \in Clients, NEW x \in Clients, Inside(c), Inside(x)
  PROVE  c = x
BY DEF DeskInv, HoldsLock

\* A new revision: nobody is past the lock.
LEMMA DeskEdits ==
  ASSUME Drafts!TelegramSchedulingAssumption, DeskInv, Drafts!Edit \/ Drafts!AutoApproved
  PROVE  DeskInv' /\ Drafts!IntentsOfNewest
<1> USE DeskConstants
<1>1. DeskTypes /\ IntentsInv /\ Drafts!SentOnce /\ lock = NoClient
  BY DEF DeskInv, Drafts!Edit, Drafts!AutoApproved
<1>2. \A c \in Clients : ~ Inside(c)
  BY <1>1, Outside
<1>3. PICK a \in Approvals :
        /\ drafts' = Append(drafts, a) /\ Len(drafts) < MaxRevisions
        /\ Drafts!AutoApproved => a = "approved"
  BY DEF Drafts!Edit, Drafts!AutoApproved, Drafts!Newest, Approvals
<1>4. /\ drafts' \in Seq(Approvals) /\ Len(drafts') = Len(drafts) + 1
      /\ drafts'[Len(drafts) + 1] = a /\ Len(drafts) + 1 \in Numbers
  BY <1>1, <1>3 DEF DeskTypes, Numbers
<1>5. UNCHANGED <<sent, enabled, lock, call, now>>
  BY DEF Drafts!Edit, Drafts!AutoApproved
<1>5a. PICK i : i = [Drafts!NoIntent EXCEPT !.status = "queued", !.job = "queued"]
  OBVIOUS
<1>6. i \in Intents /\ i.status = "queued" /\ i.job = "queued"
  <2>1. i = [status |-> "queued", due |-> 0, job |-> "queued", retries |-> 0]
    BY <1>5a DEF Drafts!NoIntent
  <2> QED
    BY <2>1 DEF Intents
<1>7. \/ Drafts!Edit /\ intents' = intents
      \/ Drafts!AutoApproved /\ intents' = [intents EXCEPT ![Len(drafts) + 1]["immediate"] = i]
  BY <1>5a DEF Drafts!Edit, Drafts!AutoApproved, Drafts!Newest
<1>8. /\ intents' \in [Numbers -> [Kinds -> Intents]]
      /\ \A n \in Numbers, k \in Kinds :
           \/ intents'[n][k] = intents[n][k]
           \/ /\ n = Len(drafts) + 1 /\ k = "immediate" /\ intents'[n][k] = i
              /\ Drafts!AutoApproved
  <2>1. intents \in [Numbers -> [Kinds -> Intents]] /\ "immediate" \in Kinds
    BY <1>1 DEF DeskTypes, Kinds
  <2>2. CASE intents' = intents
    BY <2>1, <2>2
  <2>3. CASE Drafts!AutoApproved
             /\ intents' = [intents EXCEPT ![Len(drafts) + 1]["immediate"] = i]
    <3>1. intents' = [intents EXCEPT ![Len(drafts) + 1] =
                        [intents[Len(drafts) + 1] EXCEPT !["immediate"] = i]]
      BY <2>3
    <3>2. [intents[Len(drafts) + 1] EXCEPT !["immediate"] = i] \in [Kinds -> Intents]
      BY <1>4, <1>6, <2>1
    <3> QED
      BY <1>4, <2>1, <2>3, <3>1, <3>2
  <2> QED
    BY <1>7, <2>2, <2>3
<1>9. DeskTypes'
  BY <1>1, <1>3, <1>4, <1>5, <1>8 DEF DeskTypes
<1>10. IntentsInv'
  <2>1. \A n \in Numbers, k \in Kinds : intents'[n][k].status = "none" <=> intents'[n][k].job = "absent"
    <3> SUFFICES ASSUME NEW n \in Numbers, NEW k \in Kinds
                 PROVE  intents'[n][k].status = "none" <=> intents'[n][k].job = "absent"
      OBVIOUS
    <3>1. CASE intents'[n][k] = intents[n][k]
      BY <1>1, <3>1 DEF IntentsInv
    <3>2. CASE intents'[n][k] = i
      BY <1>6, <3>2
    <3> QED
      BY <1>8, <3>1, <3>2
  <2>2. \A n \in Numbers, k \in Kinds : n > Len(drafts') => intents'[n][k].status = "none"
    <3> SUFFICES ASSUME NEW n \in Numbers, NEW k \in Kinds, n > Len(drafts')
                 PROVE  intents'[n][k].status = "none"
      OBVIOUS
    <3>1. n > Len(drafts) /\ n # Len(drafts) + 1
      BY <1>1, <1>4 DEF DeskTypes, Numbers
    <3> QED
      BY <1>1, <1>8, <3>1 DEF IntentsInv
  <2>3. \A n \in Numbers : sent'[n] # 0 => \E k \in Kinds : intents'[n][k].job = "succeeded"
    <3>1. \A n \in Numbers, k \in Kinds :
            intents[n][k].job = "succeeded" => intents'[n][k].job = "succeeded"
      BY <1>1, <1>4, <1>8 DEF IntentsInv, DeskTypes, Numbers
    <3> QED
      BY <1>1, <1>5, <3>1 DEF IntentsInv
  <2> QED
    BY <2>1, <2>2, <2>3 DEF IntentsInv
<1>11. Drafts!SentOnce'
  <2>1. \A n \in Numbers : ~ (intents'[n]["immediate"].status # "none"
                               /\ intents'[n]["scheduled"].status # "none")
    <3> SUFFICES ASSUME NEW n \in Numbers, intents'[n]["immediate"].status # "none",
                        intents'[n]["scheduled"].status # "none"
                 PROVE  FALSE
      OBVIOUS
    <3>1. intents'[n]["scheduled"] = intents[n]["scheduled"]
      BY <1>8 DEF Kinds
    <3>2. n # Len(drafts) + 1
      BY <1>1, <1>4, <3>1 DEF IntentsInv, Kinds, DeskTypes, Numbers
    <3>3. intents'[n]["immediate"] = intents[n]["immediate"]
      BY <1>8, <3>2 DEF Kinds
    <3> QED
      BY <1>1, <3>1, <3>3 DEF Drafts!SentOnce
  <2> QED
    BY <1>1, <1>5, <2>1 DEF Drafts!SentOnce
<1>12. \A c \in Clients : HoldsLock(c)' /\ ReadIsTrue(c)'
  BY <1>2, <1>5 DEF HoldsLock, ReadIsTrue, Inside
<1>13. Drafts!IntentsOfNewest
  BY <1>3, <1>4, <1>8 DEF Drafts!IntentsOfNewest
<1> QED
  BY <1>9, <1>10, <1>11, <1>12, <1>13 DEF DeskInv

\* A review, or the destination.
LEMMA DeskReviews ==
  ASSUME Drafts!TelegramSchedulingAssumption, DeskInv,
         \/ Drafts!SetEnabled \/ Drafts!Tick \/ UNCHANGED Drafts!vars
         \/ \E n \in Numbers, to \in {"approved", "rejected"} : Drafts!Review(n, to)
  PROVE  DeskInv' /\ Drafts!IntentsOfNewest
<1> USE DeskConstants
<1>1. DeskTypes /\ IntentsInv /\ Drafts!SentOnce
  BY DEF DeskInv
<1>2. UNCHANGED <<intents, sent, lock, call>> /\ enabled' \in BOOLEAN /\ now' \in 0..MaxTime
  <2>1. CASE Drafts!SetEnabled
    BY <1>1, <2>1 DEF DeskTypes, Drafts!SetEnabled
  <2>2. CASE Drafts!Tick
    BY <1>1, <2>2 DEF DeskTypes, Drafts!Tick, Drafts!deskVars
  <2>3. CASE UNCHANGED Drafts!vars
    BY <1>1, <2>3 DEF DeskTypes, Drafts!vars, Drafts!deskVars
  <2>4. ASSUME NEW n, NEW to, Drafts!Review(n, to)
        PROVE  UNCHANGED <<intents, sent, lock, call, enabled, now>>
    BY <2>4 DEF Drafts!Review
  <2> QED
    BY <1>1, <2>1, <2>2, <2>3, <2>4 DEF DeskTypes
<1>3. /\ drafts' \in Seq(Approvals) /\ Len(drafts') = Len(drafts)
      /\ \A n \in Numbers : n \in 1..Len(drafts) /\ drafts[n] = "approved" => drafts'[n] = "approved"
  <2>1. CASE drafts' = drafts
    BY <1>1, <2>1 DEF DeskTypes
  <2>2. ASSUME NEW n \in Numbers, NEW to \in {"approved", "rejected"}, Drafts!Review(n, to)
        PROVE  /\ drafts' \in Seq(Approvals) /\ Len(drafts') = Len(drafts)
               /\ \A x \in Numbers : x \in 1..Len(drafts) /\ drafts[x] = "approved"
                                   => drafts'[x] = "approved"
    BY <1>1, <2>2 DEF Drafts!Review, DeskTypes, Approvals
  <2> QED
    BY <2>1, <2>2 DEF Drafts!SetEnabled, Drafts!Tick, Drafts!vars, Drafts!deskVars
<1>4. DeskTypes'
  BY <1>1, <1>2, <1>3 DEF DeskTypes
<1>5. IntentsInv' /\ Drafts!SentOnce'
  BY <1>1, <1>2, <1>3 DEF IntentsInv, Drafts!SentOnce
<1>6. \A c \in Clients : HoldsLock(c)' /\ ReadIsTrue(c)'
  <2> SUFFICES ASSUME NEW c \in Clients PROVE HoldsLock(c)' /\ ReadIsTrue(c)'
    OBVIOUS
  <2>1. HoldsLock(c) /\ ReadIsTrue(c)
    BY DEF DeskInv
  <2>2. Len(drafts) \in Numbers /\ Len(drafts) \in 1..Len(drafts)
    BY <1>1 DEF DeskTypes, Numbers
  <2> QED
    BY <1>2, <1>3, <2>1, <2>2 DEF HoldsLock, ReadIsTrue, Inside
<1>7. Drafts!IntentsOfNewest
  BY <1>2 DEF Drafts!IntentsOfNewest
<1> QED
  BY <1>4, <1>5, <1>6, <1>7 DEF DeskInv

\* A request waits, enters, reads, or goes; nothing is written.
LEMMA DeskAsks ==
  ASSUME Drafts!TelegramSchedulingAssumption, DeskInv, NEW c \in Clients,
         \/ \E o \in {"schedule", "publish"}, n \in Numbers, u \in 0..MaxTime :
              Drafts!Ask(c, o, n, u)
         \/ Drafts!GiveUp(c) \/ Drafts!Lock(c) \/ Drafts!Read(c) \/ Drafts!ReplaySchedule(c)
  PROVE  DeskInv' /\ Drafts!IntentsOfNewest
<1> USE DeskConstants
<1>1. DeskTypes /\ IntentsInv /\ Drafts!SentOnce /\ HoldsLock(c) /\ call[c] \in Calls
  BY DEF DeskInv, DeskTypes
<1>2. UNCHANGED <<drafts, intents, sent, enabled, now>>
  BY DEF Drafts!Ask, Drafts!GiveUp, Drafts!Lock, Drafts!Read, Drafts!ReplaySchedule,
     Drafts!deskVars
<1>3. IntentsInv' /\ Drafts!SentOnce' /\ Drafts!IntentsOfNewest
  BY <1>1, <1>2 DEF IntentsInv, Drafts!SentOnce, Drafts!IntentsOfNewest
\* What the request becomes, and who has the lock then.
<1> DEFINE Becomes(r, h) ==
      /\ call' = [call EXCEPT ![c] = r] /\ lock' = h
      /\ h = lock \/ (h = c /\ lock = NoClient) \/ (h = NoClient /\ lock = c)
      /\ r.pc \in {"locked", "write"} =>
           h = c /\ r.rev = Len(drafts) /\ drafts[r.rev] = "approved"
      /\ r.pc = "write" => r.read = {k \in Kinds : intents[r.rev][k].status # "none"}
<1>4. \E r \in Calls, h \in Clients \cup {NoClient} : Becomes(r, h)
  <2>0. lock \in Clients \cup {NoClient}
    BY <1>1 DEF DeskTypes
  <2>1. Drafts!NoCall \in Calls /\ Drafts!NoCall.pc = "idle"
    BY DEF Drafts!NoCall, Calls
  <2>2. CASE Drafts!GiveUp(c)
    <3>1. /\ call' = [call EXCEPT ![c] = Drafts!NoCall]
          /\ lock' = lock \/ (lock' = NoClient /\ lock = c)
      BY <2>2 DEF Drafts!GiveUp
    <3>2. Becomes(Drafts!NoCall, lock) \/ Becomes(Drafts!NoCall, NoClient)
      BY <2>1, <3>1
    <3> QED
      BY <2>0, <2>1, <3>2
  <2>3. CASE Drafts!ReplaySchedule(c)
    <3>1. lock = c
      BY <1>1, <2>3 DEF Drafts!ReplaySchedule, HoldsLock, Inside
    <3>2. Becomes(Drafts!NoCall, NoClient)
      BY <2>1, <2>3, <3>1 DEF Drafts!ReplaySchedule, Drafts!Answered
    <3> QED
      BY <2>1, <3>2
  <2>4. ASSUME NEW o \in {"schedule", "publish"}, NEW n \in Numbers, NEW u \in 0..MaxTime,
               Drafts!Ask(c, o, n, u)
        PROVE  \E r \in Calls, h \in Clients \cup {NoClient} : Becomes(r, h)
    <3>1. PICK r : r = [op |-> o, rev |-> n, due |-> u, pc |-> "wait", read |-> {}]
      OBVIOUS
    <3>2. r \in Calls /\ r.pc = "wait"
      BY <3>1 DEF Calls, Numbers
    <3>3. call' = [call EXCEPT ![c] = r] /\ lock' = lock
      BY <2>4, <3>1 DEF Drafts!Ask
    <3>4. Becomes(r, lock)
      BY <3>2, <3>3
    <3> QED
      BY <2>0, <3>2, <3>4
  <2>5. CASE Drafts!Lock(c)
    <3>1. PICK r : r = [call[c] EXCEPT !.pc = "locked"]
      OBVIOUS
    <3>2. r \in Calls /\ r.pc = "locked" /\ r.rev = call[c].rev
      BY <1>1, <3>1 DEF Calls
    <3>3. call' = [call EXCEPT ![c] = r] /\ lock = NoClient /\ lock' = c
          /\ call[c].rev = Len(drafts) /\ drafts[call[c].rev] = "approved"
      BY <2>5, <3>1 DEF Drafts!Lock, Drafts!Locked, Drafts!Newest
    <3>4. Becomes(r, c)
      BY <3>2, <3>3
    <3> QED
      BY <3>2, <3>4
  <2>6. CASE Drafts!Read(c)
    <3>1. PICK s : s = {k \in Kinds : intents[call[c].rev][k].status # "none"}
      OBVIOUS
    <3>2. PICK r : r = [call[c] EXCEPT !.pc = "write", !.read = s]
      OBVIOUS
    <3>3. r \in Calls /\ r.pc = "write" /\ r.rev = call[c].rev /\ r.read = s
      BY <1>1, <3>1, <3>2 DEF Calls
    <3>4. call' = [call EXCEPT ![c] = r] /\ lock' = lock /\ call[c].pc = "locked"
      BY <2>6, <3>1, <3>2 DEF Drafts!Read
    <3>5. lock = c /\ call[c].rev = Len(drafts) /\ drafts[call[c].rev] = "approved"
      BY <1>1, <3>4 DEF HoldsLock, Inside
    <3>6. r.read = {k \in Kinds : intents[r.rev][k].status # "none"}
      BY <3>1, <3>3
    <3>7. Becomes(r, lock)
      BY <3>3, <3>4, <3>5, <3>6
    <3> QED
      BY <2>0, <3>3, <3>7
  <2> QED
    BY <2>2, <2>3, <2>4, <2>5, <2>6
<1>5. PICK r \in Calls, h \in Clients \cup {NoClient} : Becomes(r, h)
  BY <1>4
<1>6. DeskTypes'
  BY <1>1, <1>2, <1>5 DEF DeskTypes
<1>7. \A x \in Clients : HoldsLock(x)' /\ ReadIsTrue(x)'
  <2> SUFFICES ASSUME NEW x \in Clients PROVE HoldsLock(x)' /\ ReadIsTrue(x)'
    OBVIOUS
  <2>1. CASE x = c
    <3>1. call'[x] = r
      BY <1>1, <1>5, <2>1 DEF DeskTypes
    <3> QED
      BY <1>2, <1>5, <2>1, <3>1 DEF HoldsLock, Inside, ReadIsTrue
  <2>2. CASE x # c
    <3>1. call'[x] = call[x] /\ HoldsLock(x) /\ ReadIsTrue(x)
      BY <1>1, <1>5, <2>2 DEF DeskTypes, DeskInv
    <3>2. lock = x => h = x
      BY <1>5, <2>2
    <3> QED
      BY <1>2, <1>5, <3>1, <3>2 DEF HoldsLock, Inside, ReadIsTrue
  <2> QED
    BY <2>1, <2>2
<1> QED
  BY <1>3, <1>6, <1>7 DEF DeskInv

\* One intent is written.
OneIntent(n, k, i) ==
  /\ intents' \in [Numbers -> [Kinds -> Intents]] /\ intents'[n][k] = i
  /\ \A m \in Numbers, l \in Kinds : m # n \/ l # k => intents'[m][l] = intents[m][l]

LEMMA IntentWritten ==
  ASSUME intents \in [Numbers -> [Kinds -> Intents]], NEW n \in Numbers, NEW k \in Kinds,
         NEW i \in Intents, intents' = [intents EXCEPT ![n][k] = i]
  PROVE  OneIntent(n, k, i)
<1>1. intents' = [intents EXCEPT ![n] = [intents[n] EXCEPT ![k] = i]]
  OBVIOUS
<1>2. [intents[n] EXCEPT ![k] = i] \in [Kinds -> Intents]
  OBVIOUS
<1> QED
  BY <1>1, <1>2 DEF OneIntent

\* A request ends with an intent for its revision, or with the one there was.
LEMMA DeskWrites ==
  ASSUME Drafts!TelegramSchedulingAssumption, DeskInv, NEW c \in Clients,
         Drafts!InsertScheduled(c) \/ Drafts!PublishNow(c)
  PROVE  DeskInv' /\ Drafts!IntentsOfNewest
<1> USE DeskConstants
<1>1. DeskTypes /\ IntentsInv /\ Drafts!SentOnce /\ HoldsLock(c) /\ ReadIsTrue(c)
      /\ call[c] \in Calls
  BY DEF DeskInv, DeskTypes
<1>2. PICK n : n = call[c].rev
  OBVIOUS
<1>3. call[c].pc = "write" /\ UNCHANGED <<drafts, sent, enabled, now>>
      /\ call' = [call EXCEPT ![c] = Drafts!NoCall] /\ lock' = NoClient
  BY DEF Drafts!InsertScheduled, Drafts!PublishNow, Drafts!Answered
<1>4. /\ lock = c /\ n = Len(drafts) /\ drafts[n] = "approved" /\ n \in Numbers
      /\ call[c].read = {k \in Kinds : intents[n][k].status # "none"}
  BY <1>1, <1>2, <1>3 DEF HoldsLock, Inside, ReadIsTrue, DeskTypes, Numbers
<1>5. \A k \in Kinds : intents[n][k] \in Intents
  BY <1>1, <1>4 DEF DeskTypes
\* The intent was none, as was that of the other kind, or it is as it was.
<1>6. \E k \in Kinds, i \in Intents :
        /\ OneIntent(n, k, i)
        /\ \/ i = intents[n][k]
           \/ /\ \A l \in Kinds : intents[n][l].status = "none"
              /\ i.status # "none" /\ i.job = "queued"
  <2>1. CASE Drafts!InsertScheduled(c)
    <3>1. PICK i : i = [status |-> "scheduled", due |-> call[c].due, job |-> "queued", retries |-> 0]
      OBVIOUS
    <3>2. i \in Intents /\ i.status = "scheduled" /\ i.job = "queued"
      BY <1>1, <3>1 DEF Intents, Calls
    <3>3. intents' = [intents EXCEPT ![n]["scheduled"] = i]
      BY <1>2, <2>1, <3>1 DEF Drafts!InsertScheduled
    <3>4. \A l \in Kinds : intents[n][l].status = "none"
      BY <1>4, <2>1 DEF Drafts!InsertScheduled
    <3>5. "scheduled" \in Kinds
      BY DEF Kinds
    <3>6. OneIntent(n, "scheduled", i)
      BY <1>1, <1>4, <3>2, <3>3, <3>5, IntentWritten DEF DeskTypes
    <3> QED
      BY <3>2, <3>4, <3>5, <3>6
  <2>2. CASE Drafts!PublishNow(c)
    <3>0. "immediate" \in Kinds
      BY DEF Kinds
    <3>1. PICK q : q = [Drafts!NoIntent EXCEPT !.status = "queued", !.job = "queued"]
      OBVIOUS
    <3>2. q = [status |-> "queued", due |-> 0, job |-> "queued", retries |-> 0]
      BY <3>1 DEF Drafts!NoIntent
    <3>3. q \in Intents /\ q.status = "queued" /\ q.job = "queued"
      BY <3>2 DEF Intents
    <3>4. PICK i : i = IF intents[n]["immediate"].status = "none" THEN q ELSE intents[n]["immediate"]
      OBVIOUS
    <3>5. i \in Intents
      BY <1>5, <3>0, <3>3, <3>4
    <3>6. intents' = [intents EXCEPT ![n]["immediate"] = i]
      BY <1>2, <2>2, <3>1, <3>4 DEF Drafts!PublishNow
    <3>7. OneIntent(n, "immediate", i)
      BY <1>1, <1>4, <3>0, <3>5, <3>6, IntentWritten DEF DeskTypes
    <3>8. \/ "immediate" \in call[c].read
          \/ "scheduled" \notin call[c].read
      BY <2>2 DEF Drafts!PublishNow, Drafts!MayPublish
    <3>9. intents[n]["immediate"].status = "none" =>
            \A l \in Kinds : intents[n][l].status = "none"
      BY <1>4, <3>8 DEF Kinds
    <3> QED
      BY <3>0, <3>3, <3>4, <3>5, <3>7, <3>9
  <2> QED
    BY <2>1, <2>2
<1>7. PICK k \in Kinds, i \in Intents :
        /\ OneIntent(n, k, i)
        /\ \/ i = intents[n][k]
           \/ /\ \A l \in Kinds : intents[n][l].status = "none"
              /\ i.status # "none" /\ i.job = "queued"
  BY <1>6
<1>8. /\ intents' \in [Numbers -> [Kinds -> Intents]] /\ intents'[n][k] = i
      /\ \A m \in Numbers, l \in Kinds : m # n \/ l # k => intents'[m][l] = intents[m][l]
  BY <1>7 DEF OneIntent
<1>9. DeskTypes'
  <2>1. Drafts!NoCall \in Calls
    BY DEF Drafts!NoCall, Calls
  <2> QED
    BY <1>1, <1>3, <1>8, <2>1 DEF DeskTypes
<1>10. IntentsInv'
  <2>1. \A m \in Numbers, l \in Kinds :
          /\ intents'[m][l].status = "none" <=> intents'[m][l].job = "absent"
          /\ m > Len(drafts') => intents'[m][l].status = "none"
          /\ intents[m][l].job = "succeeded" => intents'[m][l].job = "succeeded"
    <3> SUFFICES ASSUME NEW m \in Numbers, NEW l \in Kinds
                 PROVE  /\ intents'[m][l].status = "none" <=> intents'[m][l].job = "absent"
                        /\ m > Len(drafts') => intents'[m][l].status = "none"
                        /\ intents[m][l].job = "succeeded" => intents'[m][l].job = "succeeded"
      OBVIOUS
    <3>1. CASE intents'[m][l] = intents[m][l]
      BY <1>1, <1>3, <3>1 DEF IntentsInv
    <3>2. CASE m = n /\ l = k /\ intents[n][k].status = "none" /\ i.status # "none"
               /\ i.job = "queued"
      <4>1. ~ (m > Len(drafts')) /\ intents[m][l].job = "absent"
        BY <1>1, <1>3, <1>4, <3>2 DEF IntentsInv, DeskTypes, Numbers
      <4> QED
        BY <1>8, <3>2, <4>1
    <3> QED
      BY <1>7, <1>8, <3>1, <3>2
  <2> QED
    BY <1>1, <1>3, <2>1 DEF IntentsInv
<1>11. Drafts!SentOnce'
  <2>1. \A m \in Numbers : ~ (intents'[m]["immediate"].status # "none"
                               /\ intents'[m]["scheduled"].status # "none")
    <3>1. \A m \in Numbers : ~ (intents[m]["immediate"].status # "none"
                                 /\ intents[m]["scheduled"].status # "none")
      BY <1>1 DEF Drafts!SentOnce
    <3>2. "immediate" \in Kinds /\ "scheduled" \in Kinds
          /\ \A l \in Kinds : l = "immediate" \/ l = "scheduled"
      BY DEF Kinds
    <3>3. CASE i = intents[n][k]
      BY <1>8, <3>1, <3>2, <3>3
    <3>4. CASE \A l \in Kinds : intents[n][l].status = "none"
      BY <1>8, <3>1, <3>2, <3>4
    <3> QED
      BY <1>7, <3>3, <3>4
  <2> QED
    BY <1>1, <1>3, <2>1 DEF Drafts!SentOnce
\* It was the only one past the lock.
<1>12. \A x \in Clients : HoldsLock(x)' /\ ReadIsTrue(x)'
  <2> SUFFICES ASSUME NEW x \in Clients PROVE ~ Inside(x)'
    BY DEF HoldsLock, ReadIsTrue, Inside
  <2>1. CASE x = c
    BY <1>1, <1>3, <2>1 DEF Inside, DeskTypes, Drafts!NoCall
  <2>2. CASE x # c
    <3>1. ~ Inside(x)
      BY <1>3, <2>2, OneInside DEF Inside
    <3> QED
      BY <1>1, <1>3, <2>2, <3>1 DEF Inside, DeskTypes
  <2> QED
    BY <2>1, <2>2
<1>13. Drafts!IntentsOfNewest
  BY <1>3, <1>4, <1>7, <1>8 DEF Drafts!IntentsOfNewest
<1> QED
  BY <1>9, <1>10, <1>11, <1>12, <1>13 DEF DeskInv

\* A publish job goes on: what it delivers was delivered by no other.
LEMMA DeskDelivers ==
  ASSUME Drafts!TelegramSchedulingAssumption, DeskInv, NEW n \in Numbers, NEW k \in Kinds,
         Drafts!Deliver(n, k) \/ Drafts!RetryJob(n, k) \/ Drafts!CancelJob(n, k)
  PROVE  DeskInv' /\ Drafts!IntentsOfNewest
<1> USE DeskConstants
<1>1. DeskTypes /\ IntentsInv /\ Drafts!SentOnce /\ intents[n][k] \in Intents
  BY DEF DeskInv, DeskTypes
<1>2. UNCHANGED <<drafts, enabled, lock, call, now>>
  BY DEF Drafts!Deliver, Drafts!RetryJob, Drafts!CancelJob
<1>3. intents[n][k].job \in {"queued", "needs_review"} /\ intents[n][k].status # "none"
  BY <1>1 DEF Drafts!Deliver, Drafts!RetryJob, Drafts!CancelJob, IntentsInv
<1> DEFINE Goes(i) == /\ intents' = [intents EXCEPT ![n][k] = i]
                      /\ i.status # "none" /\ i.job # "absent"
                      /\ \/ sent' = sent
                         \/ sent' = [sent EXCEPT ![n] = @ + 1] /\ i.job = "succeeded"
<1>4. \E i \in Intents : Goes(i)
  <2> DEFINE it == intents[n][k]
  <2>1. CASE Drafts!Deliver(n, k) /\ enabled /\ drafts[n] = "approved"
    <3>1. PICK i : i = [it EXCEPT !.status = "published", !.job = "succeeded"]
      OBVIOUS
    <3>2. i \in Intents /\ i.status = "published" /\ i.job = "succeeded"
      BY <1>1, <3>1 DEF Intents
    <3>3. intents' = [intents EXCEPT ![n][k] = i] /\ sent' = [sent EXCEPT ![n] = @ + 1]
      BY <1>1, <2>1, <3>1, ZenonT(40) DEF Drafts!Deliver, DeskTypes
    <3> QED
      BY <3>2, <3>3
  <2>2. CASE Drafts!Deliver(n, k) /\ ~ (enabled /\ drafts[n] = "approved")
    <3>1. PICK i : i = [it EXCEPT !.status = "attention", !.job = "needs_review"]
      OBVIOUS
    <3>2. i \in Intents /\ i.status = "attention" /\ i.job = "needs_review"
      BY <1>1, <3>1 DEF Intents
    <3>3. intents' = [intents EXCEPT ![n][k] = i] /\ sent' = sent
      BY <1>1, <2>2, <3>1, ZenonT(40) DEF Drafts!Deliver, DeskTypes
    <3> QED
      BY <3>2, <3>3
  <2>3. CASE Drafts!RetryJob(n, k)
    <3>0. PICK q : q = it.retries + 1
      OBVIOUS
    <3>1. PICK i : i = [it EXCEPT !.job = "queued", !.retries = q]
      OBVIOUS
    <3>2. q \in 0..MaxRetries
      BY <1>1, <2>3, <3>0 DEF Drafts!RetryJob, Intents
    <3>3. i \in Intents /\ i.status = it.status /\ i.job = "queued"
      BY <1>1, <3>1, <3>2 DEF Intents
    <3>4. intents' = [intents EXCEPT ![n][k] = i] /\ sent' = sent
      BY <1>1, <2>3, <3>0, <3>1 DEF Drafts!RetryJob, DeskTypes
    <3> QED
      BY <1>3, <3>3, <3>4
  <2>4. CASE Drafts!CancelJob(n, k)
    <3>1. PICK i : i = [it EXCEPT !.job = "cancelled"]
      OBVIOUS
    <3>2. i \in Intents /\ i.status = it.status /\ i.job = "cancelled"
      BY <1>1, <3>1 DEF Intents
    <3>3. intents' = [intents EXCEPT ![n][k] = i] /\ sent' = sent
      BY <1>1, <2>4, <3>1 DEF Drafts!CancelJob, DeskTypes
    <3> QED
      BY <1>3, <3>2, <3>3
  <2> QED
    BY <2>1, <2>2, <2>3, <2>4
<1>5. PICK i \in Intents : Goes(i)
  BY <1>4
<1>6. /\ intents' \in [Numbers -> [Kinds -> Intents]] /\ intents'[n][k] = i
      /\ \A m \in Numbers, l \in Kinds : m # n \/ l # k => intents'[m][l] = intents[m][l]
  BY <1>1, <1>5, IntentWritten DEF DeskTypes, OneIntent
<1>7. \A m \in Numbers, l \in Kinds : intents'[m][l].status = "none" <=> intents[m][l].status = "none"
  BY <1>3, <1>5, <1>6
<1>8. sent' \in [Numbers -> Nat]
  <2>1. sent \in [Numbers -> Nat] /\ sent[n] + 1 \in Nat
    BY <1>1 DEF DeskTypes
  <2>2. sent' = sent \/ sent' = [sent EXCEPT ![n] = sent[n] + 1]
    BY <1>5
  <2> QED
    BY <2>1, <2>2
\* A revision that was delivered has an intent that succeeded, and no other.
<1>9. i.job = "succeeded" => sent[n] = 0
  <2>1. \A l \in Kinds \ {k} : intents[n][l].status = "none" /\ intents[n][l].job = "absent"
    BY <1>1, <1>3 DEF Drafts!SentOnce, IntentsInv, Kinds
  <2> QED
    BY <1>1, <1>3, <2>1 DEF IntentsInv
<1>10. DeskTypes'
  BY <1>1, <1>2, <1>6, <1>8 DEF DeskTypes
<1>11. IntentsInv'
  <2>1. \A m \in Numbers, l \in Kinds :
          /\ intents'[m][l].status = "none" <=> intents'[m][l].job = "absent"
          /\ intents[m][l].job = "succeeded" => intents'[m][l].job = "succeeded"
    BY <1>1, <1>3, <1>5, <1>6 DEF IntentsInv
  <2>2. \A m \in Numbers, l \in Kinds : m > Len(drafts') => intents'[m][l].status = "none"
    BY <1>1, <1>2, <1>7 DEF IntentsInv
  <2>3. ASSUME NEW m \in Numbers, sent'[m] # 0
        PROVE  \E l \in Kinds : intents'[m][l].job = "succeeded"
    <3>1. CASE sent[m] # 0
      BY <1>1, <2>1, <3>1 DEF IntentsInv
    <3>2. CASE sent[m] = 0
      <4>1. m = n /\ i.job = "succeeded"
        BY <1>1, <1>5, <2>3, <3>2 DEF DeskTypes
      <4> QED
        BY <1>6, <4>1
    <3> QED
      BY <3>1, <3>2
  <2> QED
    BY <2>1, <2>2, <2>3 DEF IntentsInv
<1>12. Drafts!SentOnce'
  <2>1. \A m \in Numbers : sent'[m] <= 1
    BY <1>1, <1>5, <1>9 DEF Drafts!SentOnce, DeskTypes
  <2>2. "immediate" \in Kinds /\ "scheduled" \in Kinds
    BY DEF Kinds
  <2> QED
    BY <1>1, <1>7, <2>1, <2>2 DEF Drafts!SentOnce
<1>13. \A x \in Clients : HoldsLock(x)' /\ ReadIsTrue(x)'
  <2> SUFFICES ASSUME NEW x \in Clients PROVE HoldsLock(x)' /\ ReadIsTrue(x)'
    OBVIOUS
  <2>1. HoldsLock(x) /\ ReadIsTrue(x)
    BY DEF DeskInv
  <2>2. HoldsLock(x)'
    BY <1>2, <2>1 DEF HoldsLock, Inside
  <2>3. call[x].pc = "write" => call[x].rev \in Numbers
    BY <1>1, <2>1 DEF HoldsLock, Inside, DeskTypes, Numbers
  <2>4. ReadIsTrue(x)'
    BY <1>2, <1>7, <2>1, <2>3 DEF ReadIsTrue
  <2> QED
    BY <2>2, <2>4
<1>14. Drafts!IntentsOfNewest
  BY <1>7 DEF Drafts!IntentsOfNewest
<1> QED
  BY <1>10, <1>11, <1>12, <1>13, <1>14 DEF DeskInv

LEMMA DeskStep ==
  ASSUME Drafts!TelegramSchedulingAssumption, DeskInv, [Drafts!Next]_(Drafts!vars)
  PROVE  DeskInv' /\ Drafts!IntentsOfNewest
<1> USE DeskConstants
<1>1. CASE UNCHANGED Drafts!vars
  BY <1>1, DeskReviews
<1>2. CASE Drafts!Edit \/ Drafts!AutoApproved
  BY <1>2, DeskEdits
<1>3. CASE \/ Drafts!SetEnabled \/ Drafts!Tick
           \/ \E n \in Numbers, to \in {"approved", "rejected"} : Drafts!Review(n, to)
  BY <1>3, DeskReviews
<1>4. ASSUME NEW c \in Clients,
             \/ \E o \in {"schedule", "publish"}, n \in Numbers, u \in 0..MaxTime :
                  Drafts!Ask(c, o, n, u)
             \/ Drafts!GiveUp(c) \/ Drafts!Lock(c) \/ Drafts!Read(c) \/ Drafts!ReplaySchedule(c)
      PROVE  DeskInv' /\ Drafts!IntentsOfNewest
  BY <1>4, DeskAsks
<1>5. ASSUME NEW c \in Clients, Drafts!InsertScheduled(c) \/ Drafts!PublishNow(c)
      PROVE  DeskInv' /\ Drafts!IntentsOfNewest
  BY <1>5, DeskWrites
<1>6. ASSUME NEW n \in Numbers, NEW k \in Kinds,
             Drafts!Deliver(n, k) \/ Drafts!RetryJob(n, k) \/ Drafts!CancelJob(n, k)
      PROVE  DeskInv' /\ Drafts!IntentsOfNewest
  BY <1>6, DeskDelivers
<1> QED
  BY <1>1, <1>2, <1>3, <1>4, <1>5, <1>6 DEF Drafts!Next

\* The invariant is kept.
LEMMA DeskKeeps ==
  ASSUME Drafts!TelegramSchedulingAssumption PROVE Drafts!Spec => []DeskInv
<1>1. Drafts!Init => DeskInv
  BY DeskStarts
<1>2. DeskInv /\ [Drafts!Next]_(Drafts!vars) => DeskInv'
  BY DeskStep
<1> QED
  BY <1>1, <1>2, PTL DEF Drafts!Spec

\* The rows of a variant's drafts and the open requests keep their types.
THEOREM DraftsTypeCorrect ==
  ASSUME Drafts!TelegramSchedulingAssumption PROVE Drafts!Spec => []Drafts!TypeOK
<1>1. DeskInv => Drafts!TypeOK
  BY DeskTyped
<1> QED
  BY <1>1, DeskKeeps, PTL

\* A revision is asked for at once or on a schedule, never both, and delivered
\* at most once, whichever browsers, dispatches and retries ask for it
\* (schedule_telegram_revision, enqueue_telegram_publish_intent).
THEOREM DraftSentOnce ==
  ASSUME Drafts!TelegramSchedulingAssumption PROVE Drafts!Spec => []Drafts!SentOnce
BY DeskKeeps, PTL DEF DeskInv

\* A new intent is for the newest revision, an approved one: no edit slips in
\* between the check under the lock and the intent (locked_revision).
THEOREM IntentsAreOfNewest ==
  ASSUME Drafts!TelegramSchedulingAssumption
  PROVE  Drafts!Spec => [][Drafts!IntentsOfNewest]_(Drafts!vars)
<1>1. DeskInv /\ [Drafts!Next]_(Drafts!vars) => [Drafts!IntentsOfNewest]_(Drafts!vars)
  BY DeskStep
<1> QED
  BY <1>1, DeskKeeps, PTL DEF Drafts!Spec
=============================================================================
