--------------------------- MODULE JobQueueProofs ---------------------------
(***************************************************************************)
(* Proofs about JobQueue, for any number of jobs and workers, any batches  *)
(* and any options.                                                        *)
(***************************************************************************)
EXTENDS JobQueue, FiniteSetTheorems, TLAPS

(* The ids the sequence has yet to hand out name no row and no claim. *)
Unborn ==
  /\ nextId > 0
  /\ \A j \in Jobs : j >= nextId => status[j] = "absent" /\ attempts[j] = 0 /\ gen[j] = 0

(* Every inserted row allows an attempt. *)
LimitsPositive == \A j \in Jobs : status[j] # "absent" => maxAttempts[j] > 0

(* What the attempt budget needs. *)
BudgetInv == TypeOK /\ Unborn /\ LimitsPositive /\ TransactionIsolation /\ AttemptBudget

(* A claim is numbered by the count of claims of its row. *)
ClaimsNumbered ==
  \A w \in Workers : InFlight(w) => claim[w].gen \in 1 .. gen[claim[w].job]

ClaimsDistinct ==
  \A v, w \in Workers :
    InFlight(v) /\ InFlight(w) /\ claim[v].job = claim[w].job /\ claim[v].gen = claim[w].gen
      => v = w

(* While nobody retries by hand, attempts counts the claims of the row. *)
AttemptsCountClaims ==
  /\ \A j \in Jobs : gen[j] = attempts[j]
  /\ \A w \in Workers : InFlight(w) => claim[w].gen = claim[w].attempts

(* The row's lock is the one its latest claim stamped. *)
OwnerHoldsLock ==
  \A w \in Workers :
    InFlight(w) /\ status[claim[w].job] = "running" /\ claim[w].gen = gen[claim[w].job]
      => lockedUntil[claim[w].job] = claim[w].lockedUntil

(* A worker loses its row only after its deadline has lapsed. *)
LosersLapsed ==
  \A w \in Workers :
    /\ InFlight(w)
    /\ claim[w].gen < gen[claim[w].job] \/ status[claim[w].job] \in {"blocked", "ready", "failed"}
    => claim[w].lockedUntil < now

(* A later claim of the row has a later deadline. *)
DeadlinesGrow ==
  \A w \in Workers :
    InFlight(w) /\ status[claim[w].job] = "running" /\ claim[w].gen < gen[claim[w].job]
      => claim[w].lockedUntil < lockedUntil[claim[w].job]

SweepsBehind == \A w \in Workers : sweep[w] <= now

(* What the fence needs under a clock that never steps back. *)
MonotoneInv ==
  /\ ClaimsNumbered
  /\ ClaimsDistinct
  /\ OwnerHoldsLock
  /\ LosersLapsed
  /\ DeadlinesGrow
  /\ SweepsBehind

-----------------------------------------------------------------------------
(* Type correctness *)

(* What a batch inserts: its ids are fresh jobs and its edges, which        *)
(* enqueueBatch has validated, all point backwards.                         *)
LEMMA InsertedBatch ==
  ASSUME TypeOK, NEW steps \in BatchShapes, BackwardEdgesOnly(steps),
         NewJobs(steps) \subseteq Jobs
  PROVE  /\ Len(steps) \in Nat \ {0}
         /\ nextId \in NewJobs(steps)
         /\ NewEdges(steps) \subseteq {e \in Jobs \X Jobs : e[2] < e[1]}
<1>1. steps \in Seq(SUBSET (Nat \ {0})) /\ steps # << >>
  BY OptionsAssumption DEF BackwardEdgesOnly
<1>2. Len(steps) \in Nat \ {0} /\ DOMAIN steps = 1 .. Len(steps)
  BY <1>1
<1>3. nextId \in Nat
  BY DEF TypeOK
<1>4. nextId \in NewJobs(steps)
  BY <1>2, <1>3 DEF NewJobs
<1>5. ASSUME NEW e \in NewEdges(steps) PROVE e \in Jobs \X Jobs /\ e[2] < e[1]
  <2>1. /\ e[1] \in NewJobs(steps)
        /\ e[2] \in NewJobs(steps)
        /\ e = <<e[1], e[2]>>
        /\ e[2] - nextId + 1 \in steps[e[1] - nextId + 1]
    BY DEF NewEdges
  <2>2. e[1] - nextId + 1 \in DOMAIN steps
    BY <1>2, <1>3, <2>1 DEF NewJobs
  <2>3. e[2] - nextId + 1 < e[1] - nextId + 1
    BY <2>1, <2>2 DEF BackwardEdgesOnly
  <2>4. e[2] < e[1]
    BY <1>2, <1>3, <2>1, <2>3 DEF NewJobs
  <2> QED
    BY <2>1, <2>4
<1> QED
  BY <1>2, <1>4, <1>5

LEMMA EnqueueBatchType == TypeOK /\ EnqueueBatch => TypeOK'
<1> SUFFICES ASSUME TypeOK, NEW steps \in BatchShapes, NEW p \in Priorities,
                    NEW m \in AttemptLimits, InsertBatch(steps, p, m)
             PROVE  TypeOK'
  BY DEF EnqueueBatch
<1>1. /\ Len(steps) \in Nat \ {0}
      /\ nextId \in Jobs
      /\ NewEdges(steps) \subseteq {e \in Jobs \X Jobs : e[2] < e[1]}
  BY InsertedBatch DEF InsertBatch
<1>2. m \in Nat /\ p \in Int /\ nextId \in Nat
  BY OptionsAssumption DEF TypeOK
<1>3. status' \in [Jobs -> Statuses] /\ priority' \in [Jobs -> Int]
  BY <1>2 DEF TypeOK, Statuses, InsertBatch
<1>4. maxAttempts' \in [Jobs -> Nat] /\ batchId' \in [Jobs -> NatOrNull]
  BY <1>2 DEF TypeOK, NatOrNull, InsertBatch
<1>5. batches' \in [Jobs -> Nat] /\ nextId' \in Nat
  BY <1>1, <1>2 DEF TypeOK, InsertBatch
<1>6. deps' \subseteq {e \in Jobs \X Jobs : e[2] < e[1]} /\ declared' \subseteq Jobs \X Jobs
  BY <1>1 DEF TypeOK, InsertBatch
<1>7. runAt' \in [Jobs -> Int]
  BY DEF TypeOK, InsertBatch
<1> QED
  BY <1>3, <1>4, <1>5, <1>6, <1>7 DEF TypeOK, InFlight, InsertBatch, workerVars

(* The pause before the next attempt. *)
LEMMA BackoffType ==
  ASSUME NEW n \in Nat, n > 0
  PROVE  Backoff(n) \in Int
<1>1. 2 ^ (n - 1) \in Int
  OBVIOUS
<1> QED
  BY <1>1, OptionsAssumption DEF Backoff, Smaller

LEMMA WalkType == NoWalk \in [dropped : SUBSET Jobs, doomed : SUBSET Jobs]
  BY DEF NoWalk

(* Every step keeps every column, claim and edge in its type. *)
LEMMA TypeStep == TypeOK /\ [Next]_vars => TypeOK'
<1> SUFFICES ASSUME TypeOK, [Next]_vars PROVE TypeOK'
  OBVIOUS
<1> USE DEF TypeOK, InFlight, NatOrNull, Statuses, Phases, columns, workerVars, history
<1>1. CASE Enqueue
  <2>1. /\ status' \in [Jobs -> Statuses]
        /\ maxAttempts' \in [Jobs -> Nat]
        /\ priority' \in [Jobs -> Int]
        /\ runAt' \in [Jobs -> Int]
        /\ nextId' \in Nat
    BY <1>1, OptionsAssumption DEF Enqueue
  <2> QED
    BY <1>1, <2>1 DEF Enqueue
<1>2. CASE EnqueueBatch
  BY <1>2, EnqueueBatchType
<1>3. ASSUME NEW w \in Workers, Claim(w) PROVE TypeOK'
  <2> PICK j \in Jobs, v \in Visibilities :
         /\ status' = [status EXCEPT ![j] = "running"]
         /\ attempts' = [attempts EXCEPT ![j] = @ + 1]
         /\ lockedUntil' = [lockedUntil EXCEPT ![j] = now + v]
         /\ gen' = [gen EXCEPT ![j] = @ + 1]
         /\ claim' = [claim EXCEPT ![w] = [job |-> j, attempts |-> attempts[j] + 1,
                                           lockedUntil |-> now + v, gen |-> gen[j] + 1]]
    BY <1>3 DEF Claim
  <2>1. v \in Nat /\ j \in Nat
    BY OptionsAssumption, BoundsAssumption DEF Jobs
  <2>2. /\ status' \in [Jobs -> Statuses]
        /\ attempts' \in [Jobs -> Nat]
        /\ lockedUntil' \in [Jobs -> NatOrNull]
        /\ gen' \in [Jobs -> Nat]
    BY <2>1
  <2>3. claim' \in [Workers -> [job : Nat, attempts : Nat, lockedUntil : Nat, gen : Nat]]
    BY <2>1
  <2>4. pc' = [pc EXCEPT ![w] = "handling"]
    BY <1>3 DEF Claim
  <2>5. \A u \in Workers : InFlight(u)' => claim'[u].job \in Jobs
    BY <2>4
  <2> QED
    BY <1>3, <2>2, <2>3, <2>4, <2>5 DEF Claim
<1>4. ASSUME NEW w \in Workers, HandlerReturns(w) \/ HandlerThrows(w) PROVE TypeOK'
  BY <1>4 DEF HandlerReturns, HandlerThrows, Goto
<1>5. ASSUME NEW w \in Workers, Complete(w) PROVE TypeOK'
  <2>1. claim[w].job \in Jobs
    BY <1>5 DEF Complete
  <2>2. /\ status' \in [Jobs -> Statuses]
        /\ lockedUntil' \in [Jobs -> NatOrNull]
        /\ finishedAt' \in [Jobs -> NatOrNull]
        /\ everDone' \subseteq Jobs
    <3>1. CASE FenceHolds(w)
      BY <1>5, <2>1, <3>1 DEF Complete, MarkDone
    <3>2. CASE ~FenceHolds(w)
      BY <1>5, <3>2 DEF Complete
    <3> QED
      BY <3>1, <3>2
  <2>3. pc' \in [Workers -> Phases] /\ \A u \in Workers : InFlight(u)' => InFlight(u)
    BY <1>5 DEF Complete, Goto
  <2> QED
    BY <1>5, <2>2, <2>3 DEF Complete
<1>6. ASSUME NEW w \in Workers, Settle(w) PROVE TypeOK'
  <2>1. txn' \in [Workers -> [released : SUBSET Jobs, at : Nat]]
    <3>1. [released |-> ReadyDependents(claim[w].job), at |-> now]
            \in [released : SUBSET Jobs, at : Nat]
      BY DEF ReadyDependents
    <3>2. CASE FenceHolds(w)
      BY <1>6, <3>1, <3>2 DEF Settle
    <3>3. CASE ~FenceHolds(w)
      BY <1>6, <3>3 DEF Settle
    <3> QED
      BY <3>2, <3>3
  <2>2. pc' \in [Workers -> Phases] /\ \A u \in Workers : InFlight(u)' => InFlight(u)
    BY <1>6 DEF Settle, Goto
  <2> QED
    BY <1>6, <2>1, <2>2 DEF Settle
<1>7. ASSUME NEW w \in Workers, Commit(w) PROVE TypeOK'
  <2>1. claim[w].job \in Jobs /\ txn[w].at \in Nat
    BY <1>7 DEF Commit, Goto
  <2>2. /\ status' \in [Jobs -> Statuses]
        /\ lockedUntil' \in [Jobs -> NatOrNull]
        /\ finishedAt' \in [Jobs -> NatOrNull]
        /\ everDone' \subseteq Jobs
    BY <1>7, <2>1 DEF Commit, MarkDone
  <2>3. pc' \in [Workers -> Phases] /\ \A u \in Workers : InFlight(u)' => InFlight(u)
    BY <1>7 DEF Commit, Goto
  <2>4. txn' \in [Workers -> [released : SUBSET Jobs, at : Nat]]
    BY <1>7 DEF Commit, NoTxn
  <2> QED
    BY <1>7, <2>2, <2>3, <2>4 DEF Commit
<1>8. ASSUME NEW w \in Workers, CompleteFaults(w) \/ Crash(w) PROVE TypeOK'
  <2>1. pc' \in [Workers -> Phases] /\ \A u \in Workers : InFlight(u)' => InFlight(u)
    BY <1>8 DEF CompleteFaults, Crash, Goto
  <2>2. txn' \in [Workers -> [released : SUBSET Jobs, at : Nat]]
    <3>1. NoTxn \in [released : SUBSET Jobs, at : Nat]
      BY DEF NoTxn
    <3> QED
      BY <1>8, <3>1 DEF CompleteFaults, Crash
  <2> QED
    BY <1>8, <2>1, <2>2 DEF CompleteFaults, Crash
<1>9. ASSUME NEW w \in Workers, Fail(w) PROVE TypeOK'
  <2>1. claim[w].job \in Jobs
    BY <1>9 DEF Fail, Goto
  <2>2. /\ status' \in [Jobs -> Statuses]
        /\ lockedUntil' \in [Jobs -> NatOrNull]
        /\ finishedAt' \in [Jobs -> NatOrNull]
        /\ everFailed' \subseteq Jobs
        /\ runAt' \in [Jobs -> Int]
    <3>1. CASE FenceHolds(w)
      <4> DEFINE done == claim[w].attempts >= maxAttempts[claim[w].job] \/ pc[w] = "retiring"
      <4>1. /\ status' = [status EXCEPT ![claim[w].job] = IF done THEN "failed" ELSE "ready"]
            /\ lockedUntil' = [lockedUntil EXCEPT ![claim[w].job] = NULL]
            /\ finishedAt' = [finishedAt EXCEPT ![claim[w].job] = IF done THEN now ELSE @]
            /\ runAt' = [runAt EXCEPT ![claim[w].job] =
                            IF done THEN @ ELSE now + Backoff(claim[w].attempts)]
            /\ everFailed' = IF done THEN everFailed \cup {claim[w].job} ELSE everFailed
        BY <1>9, <3>1 DEF Fail
      <4>2. Backoff(claim[w].attempts) \in Int
        BY <1>9, BackoffType DEF Fail, Goto
      <4> HIDE DEF done
      <4> QED
        BY <2>1, <4>1, <4>2
    <3>2. CASE ~FenceHolds(w)
      BY <1>9, <3>2 DEF Fail
    <3> QED
      BY <3>1, <3>2
  <2>3. pc' \in [Workers -> Phases] /\ \A u \in Workers : InFlight(u)' => InFlight(u)
    BY <1>9 DEF Fail, Goto
  <2> QED
    BY <1>9, <2>2, <2>3 DEF Fail
<1>10. ASSUME NEW w \in Workers, RetireStalled(w) PROVE TypeOK'
  BY <1>10 DEF RetireStalled, Stalled
<1>11. ASSUME NEW w \in Workers, ReclaimStalled(w) \/ SweepFaults(w) PROVE TypeOK'
  <2>1. CASE ReclaimStalled(w)
    BY <2>1 DEF ReclaimStalled
  <2>2. CASE SweepFaults(w)
    BY <2>2 DEF SweepFaults
  <2> QED
    BY <1>11, <2>1, <2>2
<1>12. ASSUME NEW j \in Jobs, Retry(j) PROVE TypeOK'
  BY <1>12 DEF Retry, Retriable
<1>13. ASSUME NEW j \in Jobs, Discard(j) PROVE TypeOK'
  BY <1>13 DEF Discard, Cascade
<1>14. CASE Prune
  BY <1>14 DEF Prune
<1>17. CASE DiscardTransaction
  <2>1. CASE DiscardCommit
    BY <2>1, WalkType DEF DiscardCommit
  <2>2. CASE \E j \in Jobs : DiscardRoot(j) \/ DiscardNext(j)
    <3>1. walk' \in [dropped : SUBSET Jobs, doomed : SUBSET Jobs]
      <4>1. walk.dropped \subseteq Jobs /\ walk.doomed \subseteq Jobs
        OBVIOUS
      <4>2. PICK dropped \in SUBSET Jobs, doomed \in SUBSET Jobs :
              walk' = [dropped |-> dropped, doomed |-> doomed]
        <5>1. \A j \in Jobs : BlockedOn(j) \subseteq Jobs
          BY DEF BlockedOn
        <5>2. ASSUME NEW j \in Jobs, DiscardRoot(j)
              PROVE  \E S, T \in SUBSET Jobs : walk' = [dropped |-> S, doomed |-> T]
          <6>1. {j} \in SUBSET Jobs /\ BlockedOn(j) \ {j} \in SUBSET Jobs
            BY <5>1
          <6> QED
            BY <5>2, <6>1 DEF DiscardRoot
        <5>3. ASSUME NEW j \in Jobs, DiscardNext(j)
              PROVE  \E S, T \in SUBSET Jobs : walk' = [dropped |-> S, doomed |-> T]
          <6>1. /\ walk.dropped \cup {j} \in SUBSET Jobs
                /\ (walk.doomed \cup BlockedOn(j)) \ {j} \in SUBSET Jobs
            BY <4>1, <5>1
          <6> QED
            BY <5>3, <6>1 DEF DiscardNext
        <5> QED
          BY <2>2, <5>2, <5>3
      <4> QED
        BY <4>2
    <3>2. UNCHANGED <<columns, deps, batches, nextId, now, sweep, workerVars, history>>
      BY <2>2 DEF DiscardRoot, DiscardNext
    <3> QED
      BY <3>1, <3>2
  <2>3. CASE DiscardFaults
    BY <2>3, WalkType DEF DiscardFaults
  <2> QED
    BY <1>17, <2>1, <2>2, <2>3 DEF DiscardTransaction
<1>15. CASE Tick \/ StepBack
  BY <1>15 DEF Tick, StepBack
<1>16. CASE UNCHANGED vars
  BY <1>16 DEF vars
<1> QED
  BY <1>1, <1>2, <1>3, <1>4, <1>5, <1>6, <1>7, <1>8, <1>9, <1>10, <1>11, <1>12, <1>13, <1>14,
     <1>15, <1>16, <1>17 DEF Next, WorkerStep, SweepStep

LEMMA TypeInit == Init => TypeOK
<1> SUFFICES ASSUME Init PROVE TypeOK
  OBVIOUS
<1>1. NoClaim \in [job : Nat, attempts : Nat, lockedUntil : Nat, gen : Nat]
  BY DEF NoClaim
<1>2. NoTxn \in [released : SUBSET Jobs, at : Nat]
  BY DEF NoTxn
<1> QED
  BY <1>1, <1>2, WalkType DEF Init, TypeOK, InFlight, NatOrNull, Statuses, Phases

(* Every reachable state is well typed, and lesto_job_deps has only         *)
(* backward edges, so the dependency graph of a batch is acyclic.           *)
THEOREM TypeCorrect == Spec => []TypeOK
  BY TypeInit, TypeStep, PTL DEF Spec

-----------------------------------------------------------------------------
(* Row locks *)

(* The rows of an open transaction are the running one it completes and the *)
(* blocked ones it releases.                                                *)
LEMMA WrittenRows ==
  ASSUME TypeOK, TransactionIsolation, NEW v \in Workers, NEW i \in Written(v)
  PROVE  i \in Jobs /\ status[i] \in {"running", "blocked"}
<1>1. pc[v] = "committing" /\ i \in {claim[v].job} \cup txn[v].released
  BY DEF Written
<1>2. CASE i = claim[v].job
  BY <1>1, <1>2 DEF TypeOK, InFlight, TransactionIsolation, FenceHolds
<1>3. CASE i \in txn[v].released
  BY <1>1, <1>3 DEF TypeOK, TransactionIsolation
<1> QED
  BY <1>1, <1>2, <1>3

(* A step that writes only rows outside the transactions it leaves open     *)
(* disturbs none of them.                                                   *)
LEMMA IsolationKept ==
  ASSUME TypeOK, TransactionIsolation, NEW S,
         \A i \in Jobs \ S : /\ status'[i] = status[i]
                            /\ lockedUntil'[i] = lockedUntil[i]
                            /\ attempts'[i] = attempts[i],
         \A v \in Workers : pc'[v] = "committing" =>
            /\ pc[v] = "committing"
            /\ claim'[v] = claim[v]
            /\ txn'[v] = txn[v]
            /\ Written(v) \cap S = {}
            /\ Written(v) \cap walk'.dropped = {}
  PROVE  TransactionIsolation'
<1>1. ASSUME NEW v \in Workers, pc'[v] = "committing"
      PROVE  FenceHolds(v)' /\ \A d \in txn'[v].released : status'[d] = "blocked"
  <2>1. /\ pc[v] = "committing"
        /\ claim'[v] = claim[v]
        /\ txn'[v] = txn[v]
        /\ Written(v) = {claim[v].job} \cup txn[v].released
        /\ Written(v) \cap S = {}
    BY <1>1 DEF Written
  <2>2. Written(v) \subseteq Jobs \ S
    BY <2>1, WrittenRows
  <2> QED
    BY <2>1, <2>2 DEF TransactionIsolation, FenceHolds
<1>2. ASSUME NEW v \in Workers PROVE Written(v)' \subseteq Written(v)
  BY DEF Written
<1>3. \A v, w \in Workers : v # w => Written(v)' \cap Written(w)' = {}
  BY <1>2 DEF TransactionIsolation
<1>4. \A v \in Workers : Written(v)' \cap walk'.dropped = {}
  <2>1. ASSUME NEW v \in Workers, pc'[v] = "committing" PROVE Written(v) \cap walk'.dropped = {}
    BY <2>1
  <2>2. ASSUME NEW v \in Workers, pc'[v] # "committing" PROVE Written(v)' = {}
    BY <2>2 DEF Written
  <2> QED
    BY <1>2, <2>1, <2>2
<1> QED
  BY <1>1, <1>3, <1>4 DEF TransactionIsolation

(* discard() on Postgres changes nothing of a row but that it is gone. *)
LEMMA WalkMoves ==
  ASSUME TypeOK, DiscardTransaction
  PROVE  /\ \A j \in Jobs : status'[j] = status[j]
                             \/ (j \in walk.dropped /\ walk'.dropped = {} /\ status'[j] = "absent")
         /\ UNCHANGED <<attempts, maxAttempts, lockedUntil, gen, nextId, now, sweep, pc, claim, txn>>
<1>1. CASE DiscardCommit
  BY <1>1 DEF DiscardCommit, NoWalk, workerVars
<1>2. CASE (\E j \in Jobs : DiscardRoot(j) \/ DiscardNext(j)) \/ DiscardFaults
  BY <1>2 DEF DiscardRoot, DiscardNext, DiscardFaults, columns, workerVars, history
<1> QED
  BY <1>1, <1>2 DEF DiscardTransaction

(* No other operation touches discard()'s transaction. *)
LEMMA WalkAlone == [Next]_vars => UNCHANGED walk \/ DiscardTransaction
<1> SUFFICES ASSUME [Next]_vars, ~DiscardTransaction PROVE UNCHANGED walk
  OBVIOUS
<1>1. CASE Enqueue \/ EnqueueBatch
  BY <1>1 DEF Enqueue, EnqueueBatch, InsertBatch
<1>2. ASSUME NEW w \in Workers, WorkerStep(w) \/ Crash(w) PROVE UNCHANGED walk
  BY <1>2 DEF WorkerStep, Claim, HandlerReturns, HandlerThrows, Complete, Settle, Commit,
              CompleteFaults, Fail, Crash
<1>3. ASSUME NEW w \in Workers, SweepStep(w) \/ SweepFaults(w) PROVE UNCHANGED walk
  BY <1>3 DEF SweepStep, RetireStalled, ReclaimStalled, SweepFaults
<1>4. CASE \E j \in Jobs : Retry(j) \/ Discard(j)
  BY <1>4 DEF Retry, Discard
<1>5. CASE Prune \/ Tick \/ StepBack \/ UNCHANGED vars
  BY <1>5 DEF Prune, Tick, StepBack, vars
<1> QED
  BY <1>1, <1>2, <1>3, <1>4, <1>5 DEF Next

(* The lock discipline of complete()'s transaction, in every step. *)
LEMMA IsolationStep ==
  TypeOK /\ Unborn /\ TransactionIsolation /\ [Next]_vars => TransactionIsolation'
<1> SUFFICES ASSUME TypeOK, Unborn, TransactionIsolation, [Next]_vars
             PROVE  TransactionIsolation'
  OBVIOUS
<1>1. ASSUME NEW S, \A i \in S : i \in Jobs => status[i] \in {"absent", "ready", "done", "failed"}
      PROVE  \A v \in Workers : Written(v) \cap S = {}
  BY <1>1, WrittenRows
<1>0. CASE DiscardTransaction
  <2>1. UNCHANGED <<lockedUntil, attempts, pc, claim, txn>>
    BY <1>0, WalkMoves
  <2>2. CASE walk'.dropped = {}
    <3>1. \A i \in Jobs \ walk.dropped : status'[i] = status[i]
      BY <1>0, WalkMoves
    <3>2. \A v \in Workers : Written(v) \cap walk.dropped = {} /\ Written(v) \cap walk'.dropped = {}
      BY <2>2 DEF TransactionIsolation
    <3> QED
      BY <2>1, <3>1, <3>2, IsolationKept
  <2>3. CASE walk'.dropped # {}
    <3>1. \A i \in Jobs \ {} : status'[i] = status[i]
      BY <1>0, <2>3, WalkMoves
    <3>2. \A v \in Workers : Written(v) \cap walk'.dropped = {}
      <4>1. CASE \E j \in Jobs : DiscardRoot(j)
        BY <4>1 DEF DiscardRoot, Unlocked
      <4>2. CASE \E j \in Jobs : DiscardNext(j)
        BY <4>2 DEF DiscardNext, Unlocked, TransactionIsolation
      <4>3. CASE DiscardCommit \/ DiscardFaults
        BY <2>3, <4>3 DEF DiscardCommit, DiscardFaults, NoWalk
      <4> QED
        BY <1>0, <4>1, <4>2, <4>3 DEF DiscardTransaction
    <3>3. \A v \in Workers : Written(v) \cap {} = {}
      OBVIOUS
    <3> QED
      BY <2>1, <3>1, <3>2, <3>3, IsolationKept
  <2> QED
    BY <2>2, <2>3
<1> SUFFICES ASSUME UNCHANGED walk PROVE TransactionIsolation'
  BY <1>0, WalkAlone
<1>16. \A v \in Workers : Written(v) \cap walk'.dropped = {}
  BY DEF TransactionIsolation
<1> USE <1>16
<1>2. CASE Enqueue
  <2>1. \A v \in Workers : Written(v) \cap {nextId} = {}
    <3>1. \A i \in {nextId} : i \in Jobs => status[i] = "absent"
      BY DEF Unborn, TypeOK
    <3> QED
      BY <1>1, <3>1
  <2>2. /\ \A i \in Jobs \ {nextId} : status'[i] = status[i]
        /\ UNCHANGED <<attempts, lockedUntil, pc, claim, txn>>
    BY <1>2 DEF Enqueue, TypeOK, workerVars
  <2>3. PICK S : S = {nextId}
    OBVIOUS
  <2> QED
    BY <2>1, <2>2, <2>3, IsolationKept
<1>3. CASE EnqueueBatch
  <2> PICK steps \in BatchShapes, p \in Priorities, m \in AttemptLimits : InsertBatch(steps, p, m)
    BY <1>3 DEF EnqueueBatch
  <2>1. \A i \in NewJobs(steps) : i \in Jobs => status[i] = "absent"
    BY DEF NewJobs, Unborn
  <2>2. \A v \in Workers : Written(v) \cap NewJobs(steps) = {}
    BY <1>1, <2>1
  <2> QED
    BY <2>2, IsolationKept DEF InsertBatch, TypeOK, workerVars
<1>4. ASSUME NEW w \in Workers, Claim(w) PROVE TransactionIsolation'
  <2> PICK j \in Jobs, t \in Visibilities :
                           /\ Eligible(j)
                           /\ status' = [status EXCEPT ![j] = "running"]
                           /\ lockedUntil' = [lockedUntil EXCEPT ![j] = now + t]
                           /\ attempts' = [attempts EXCEPT ![j] = @ + 1]
    BY <1>4 DEF Claim
  <2>0. \A i \in Jobs \ {j} : /\ status'[i] = status[i]
                             /\ lockedUntil'[i] = lockedUntil[i]
                             /\ attempts'[i] = attempts[i]
    BY DEF TypeOK
  <2>1. \A v \in Workers : Written(v) \cap {j} = {}
    BY <1>1 DEF Eligible
  <2>2. \A v \in Workers : pc'[v] = "committing" =>
          pc[v] = "committing" /\ claim'[v] = claim[v] /\ txn'[v] = txn[v]
    BY <1>4 DEF Claim, TypeOK
  <2> QED
    BY <2>0, <2>1, <2>2, IsolationKept
<1>5. ASSUME NEW w \in Workers,
             HandlerReturns(w) \/ HandlerThrows(w) \/ CompleteFaults(w) \/ Crash(w)
      PROVE  TransactionIsolation'
  <2>1. /\ UNCHANGED <<status, lockedUntil, attempts, claim>>
        /\ \A v \in Workers : pc'[v] = "committing" => pc[v] = "committing" /\ txn'[v] = txn[v]
    BY <1>5 DEF HandlerReturns, HandlerThrows, CompleteFaults, Crash, Goto, TypeOK, columns
  <2> QED
    BY <2>1, IsolationKept, Written(w) \cap {} = {}
<1>6. ASSUME NEW w \in Workers, Complete(w) PROVE TransactionIsolation'
  <2> DEFINE S == {claim[w].job} \cup ReadyDependents(claim[w].job)
  <2>1. /\ \A i \in Jobs \ S : status'[i] = status[i] /\ lockedUntil'[i] = lockedUntil[i]
        /\ UNCHANGED <<attempts, claim, txn>>
        /\ \A v \in Workers : Written(v) \cap S = {}
    BY <1>6 DEF Complete, MarkDone, TypeOK, Unlocked
  <2>2. \A v \in Workers : pc'[v] = "committing" => pc[v] = "committing"
    BY <1>6 DEF Complete, Goto, TypeOK
  <2> HIDE DEF S
  <2> QED
    BY <2>1, <2>2, IsolationKept
<1>7. ASSUME NEW w \in Workers, Settle(w) PROVE TransactionIsolation'
  <2>1. UNCHANGED <<status, lockedUntil, attempts, claim>>
    BY <1>7 DEF Settle, columns
  <2>2. CASE FenceHolds(w)
    <3>1. /\ pc' = [pc EXCEPT ![w] = "committing"]
          /\ txn' = [txn EXCEPT ![w] = [released |-> ReadyDependents(claim[w].job), at |-> now]]
          /\ Unlocked({claim[w].job} \cup ReadyDependents(claim[w].job))
      BY <1>7, <2>2 DEF Settle, Goto
    <3>2. txn'[w].released = ReadyDependents(claim[w].job)
      BY <3>1 DEF TypeOK
    <3>3. Written(w)' = {claim[w].job} \cup ReadyDependents(claim[w].job)
      BY <2>1, <3>1, <3>2 DEF Written, TypeOK
    <3>4. \A v \in Workers \ {w} : pc'[v] = pc[v] /\ txn'[v] = txn[v] /\ Written(v)' = Written(v)
      BY <2>1, <3>1 DEF Written, TypeOK
    <3>5. FenceHolds(w)' /\ \A d \in txn'[w].released : status'[d] = "blocked"
      BY <2>1, <2>2, <3>2 DEF FenceHolds, ReadyDependents
    <3>6. \A v \in Workers \ {w} : pc'[v] = "committing" =>
            FenceHolds(v)' /\ \A d \in txn'[v].released : status'[d] = "blocked"
      BY <2>1, <3>4 DEF TransactionIsolation, FenceHolds
    <3>7. \A u, v \in Workers : u # v => Written(u)' \cap Written(v)' = {}
      BY <3>1, <3>3, <3>4 DEF TransactionIsolation, Unlocked
    <3>8. \A v \in Workers : Written(v)' \cap walk'.dropped = {}
      BY <3>1, <3>3, <3>4 DEF TransactionIsolation, Unlocked
    <3> QED
      BY <3>5, <3>6, <3>7, <3>8 DEF TransactionIsolation
  <2>3. CASE ~FenceHolds(w)
    <3>1. UNCHANGED txn /\ \A v \in Workers : pc'[v] = "committing" => pc[v] = "committing"
      BY <1>7, <2>3 DEF Settle, Goto, TypeOK
    <3> QED
      BY <2>1, <3>1, IsolationKept, Written(w) \cap {} = {}
  <2> QED
    BY <2>2, <2>3
<1>8. ASSUME NEW w \in Workers, Commit(w) PROVE TransactionIsolation'
  <2>1. /\ Written(w) = {claim[w].job} \cup txn[w].released
        /\ \A i \in Jobs \ Written(w) : status'[i] = status[i] /\ lockedUntil'[i] = lockedUntil[i]
        /\ UNCHANGED <<attempts, claim>>
    BY <1>8 DEF Commit, Goto, MarkDone, TypeOK, Written
  <2>2. \A v \in Workers : pc'[v] = "committing" =>
          v # w /\ pc[v] = "committing" /\ txn'[v] = txn[v] /\ Written(v) \cap Written(w) = {}
    BY <1>8 DEF Commit, Goto, TypeOK, TransactionIsolation
  <2> QED
    BY <2>1, <2>2, IsolationKept
<1>9. ASSUME NEW w \in Workers, Fail(w) PROVE TransactionIsolation'
  <2>1. /\ \A i \in Jobs \ {claim[w].job} : status'[i] = status[i] /\ lockedUntil'[i] = lockedUntil[i]
        /\ UNCHANGED <<attempts, claim, txn>>
        /\ \A v \in Workers : Written(v) \cap {claim[w].job} = {}
    BY <1>9 DEF Fail, TypeOK, Unlocked
  <2>2. \A v \in Workers : pc'[v] = "committing" => pc[v] = "committing"
    BY <1>9 DEF Fail, Goto, TypeOK
  <2> QED
    BY <2>1, <2>2, IsolationKept
<1>10. ASSUME NEW w \in Workers, RetireStalled(w) PROVE TransactionIsolation'
  <2> DEFINE S == {j \in Stalled(now) : Exhausted(j)}
  <2>1. /\ \A i \in Jobs \ S : status'[i] = status[i] /\ lockedUntil'[i] = lockedUntil[i]
        /\ UNCHANGED <<attempts, pc, claim, txn>>
        /\ \A v \in Workers : Written(v) \cap S = {}
    BY <1>10 DEF RetireStalled, TypeOK, Unlocked, workerVars
  <2> QED
    BY <2>1, IsolationKept
<1>11. ASSUME NEW w \in Workers, ReclaimStalled(w) PROVE TransactionIsolation'
  <2> DEFINE S == {j \in Stalled(sweep[w]) : ~Exhausted(j)}
  <2>1. /\ \A i \in Jobs \ S : status'[i] = status[i] /\ lockedUntil'[i] = lockedUntil[i]
        /\ UNCHANGED <<attempts, pc, claim, txn>>
        /\ \A v \in Workers : Written(v) \cap S = {}
    BY <1>11 DEF ReclaimStalled, TypeOK, Unlocked, workerVars
  <2> QED
    BY <2>1, IsolationKept
<1>12. ASSUME NEW j \in Jobs, Retry(j) PROVE TransactionIsolation'
  <2>1. \A v \in Workers : Written(v) \cap {j} = {}
    BY <1>1, <1>12 DEF Retry, Retriable
  <2> QED
    BY <1>12, <2>1, IsolationKept DEF Retry, Retriable, TypeOK, workerVars
<1>13. ASSUME NEW j \in Jobs, Discard(j) PROVE TransactionIsolation'
  <2>1. /\ \A i \in Jobs \ Cascade(j) : status'[i] = status[i]
        /\ UNCHANGED <<lockedUntil, attempts, pc, claim, txn>>
        /\ \A v \in Workers : Written(v) \cap Cascade(j) = {}
    BY <1>13 DEF Discard, TypeOK, Unlocked, workerVars
  <2> QED
    BY <2>1, IsolationKept
<1>14. CASE Prune
  <2>1. \A v \in Workers : Written(v) \cap Prunable = {}
    BY <1>1 DEF Prunable
  <2>2. /\ \A i \in Jobs \ Prunable : status'[i] = status[i]
        /\ UNCHANGED <<lockedUntil, attempts, pc, claim, txn>>
    BY <1>14 DEF Prune, workerVars
  <2> QED
    BY <2>1, <2>2, IsolationKept
<1>15. ASSUME \/ \E w \in Workers : SweepFaults(w)
              \/ Tick \/ StepBack \/ UNCHANGED vars
       PROVE  TransactionIsolation'
  <2>1. UNCHANGED <<status, lockedUntil, attempts, pc, claim, txn>>
    BY <1>15 DEF SweepFaults, Tick, StepBack, vars, columns, workerVars
  <2> QED
    BY <2>1, IsolationKept, \A v \in Workers : Written(v) \cap {} = {}
<1> QED
  BY <1>0, <1>2, <1>3, <1>4, <1>5, <1>6, <1>7, <1>8, <1>9, <1>10, <1>11, <1>12, <1>13, <1>14,
     <1>15
     DEF Next, WorkerStep, SweepStep

-----------------------------------------------------------------------------
(* The attempt budget *)

LEMMA UnbornStep ==
  TypeOK /\ Unborn /\ TransactionIsolation /\ [Next]_vars => Unborn'
<1> SUFFICES ASSUME TypeOK, Unborn, TransactionIsolation, [Next]_vars PROVE Unborn'
  OBVIOUS
<1> USE DEF Unborn
<1>1. CASE Enqueue
  BY <1>1 DEF Enqueue, TypeOK, Jobs, history
<1>2. CASE EnqueueBatch
  <2> PICK steps \in BatchShapes, p \in Priorities, m \in AttemptLimits : InsertBatch(steps, p, m)
    BY <1>2 DEF EnqueueBatch
  <2>1. Len(steps) \in Nat \ {0}
    BY InsertedBatch DEF InsertBatch
  <2>2. \A j \in Jobs : j >= nextId' => j \notin NewJobs(steps) /\ j >= nextId
    BY <2>1 DEF InsertBatch, NewJobs, TypeOK, Jobs
  <2> QED
    BY <2>1, <2>2 DEF InsertBatch, TypeOK
<1>3. ASSUME UNCHANGED nextId,
             \A j \in Jobs : status[j] = "absent" =>
               status'[j] = "absent" /\ attempts'[j] = attempts[j] /\ gen'[j] = gen[j]
      PROVE  Unborn'
  BY <1>3
<1>4. ASSUME NEW w \in Workers, Claim(w) PROVE Unborn'
  BY <1>3, <1>4 DEF Claim, Eligible, TypeOK
<1>5. ASSUME NEW w \in Workers,
             \/ HandlerReturns(w) \/ HandlerThrows(w) \/ CompleteFaults(w) \/ Crash(w)
             \/ Settle(w) \/ SweepFaults(w)
      PROVE  Unborn'
  BY <1>3, <1>5 DEF HandlerReturns, HandlerThrows, CompleteFaults, Crash, Settle, SweepFaults,
                    columns, history
<1>6. ASSUME NEW w \in Workers, Complete(w) PROVE Unborn'
  <2>1. \A j \in Jobs : status[j] = "absent" => status'[j] = "absent"
    BY <1>6 DEF Complete, MarkDone, FenceHolds, ReadyDependents
  <2> QED
    BY <1>3, <1>6, <2>1 DEF Complete
<1>7. ASSUME NEW w \in Workers, Commit(w) PROVE Unborn'
  <2>1. \A j \in Jobs : status[j] = "absent" => status'[j] = "absent"
    BY <1>7 DEF Commit, Goto, MarkDone, TransactionIsolation, FenceHolds
  <2> QED
    BY <1>3, <1>7, <2>1 DEF Commit
<1>8. ASSUME NEW w \in Workers, Fail(w) PROVE Unborn'
  <2>1. \A j \in Jobs : status[j] = "absent" => status'[j] = "absent"
    BY <1>8 DEF Fail, FenceHolds, TypeOK
  <2> QED
    BY <1>3, <1>8, <2>1 DEF Fail
<1>9. ASSUME NEW w \in Workers, RetireStalled(w) \/ ReclaimStalled(w) PROVE Unborn'
  <2>1. \A j \in Jobs : status[j] = "absent" => status'[j] = "absent"
    BY <1>9 DEF RetireStalled, ReclaimStalled, Stalled
  <2> QED
    BY <1>3, <1>9, <2>1 DEF RetireStalled, ReclaimStalled, history
<1>10. ASSUME NEW j \in Jobs, Retry(j) PROVE Unborn'
  BY <1>3, <1>10 DEF Retry, Retriable, TypeOK, history
<1>11. ASSUME NEW j \in Jobs, Discard(j) PROVE Unborn'
  BY <1>3, <1>11 DEF Discard
<1>12. CASE Prune
  BY <1>3, <1>12 DEF Prune, history
<1>13. CASE Tick \/ StepBack \/ UNCHANGED vars
  BY <1>3, <1>13 DEF Tick, StepBack, vars, columns, history
<1>14. CASE DiscardTransaction
  BY <1>3, <1>14, WalkMoves
<1> QED
  BY <1>1, <1>2, <1>4, <1>5, <1>6, <1>7, <1>8, <1>9, <1>10, <1>11, <1>12, <1>13, <1>14
     DEF Next, WorkerStep, SweepStep

(* complete() moves its own row from running to done, its dependents from   *)
(* blocked to ready, and no other.                                          *)
LEMMA CompletionMoves ==
  ASSUME TypeOK, TransactionIsolation, NEW w \in Workers, Complete(w) \/ Commit(w)
  PROVE  /\ \A j \in Jobs :
              \/ status'[j] = status[j] /\ lockedUntil'[j] = lockedUntil[j]
              \/ status[j] = "running" /\ status'[j] = "done" /\ j = claim[w].job /\ FenceHolds(w)
              \/ status[j] = "blocked" /\ status'[j] = "ready"
         /\ UNCHANGED <<attempts, maxAttempts, gen, nextId, now, sweep, claim>>
         /\ \A v \in Workers : InFlight(v)' => InFlight(v)
<1>1. ASSUME NEW released, NEW at, MarkDone(claim[w].job, released, at), FenceHolds(w),
             \A d \in released : status[d] = "blocked"
      PROVE  \A j \in Jobs :
              \/ status'[j] = status[j] /\ lockedUntil'[j] = lockedUntil[j]
              \/ status[j] = "running" /\ status'[j] = "done" /\ j = claim[w].job /\ FenceHolds(w)
              \/ status[j] = "blocked" /\ status'[j] = "ready"
  BY <1>1 DEF MarkDone, FenceHolds, TypeOK
<1>2. CASE Complete(w)
  <2>1. CASE FenceHolds(w)
    <3>1. MarkDone(claim[w].job, ReadyDependents(claim[w].job), now)
      BY <1>2, <2>1 DEF Complete
    <3>2. \A d \in ReadyDependents(claim[w].job) : status[d] = "blocked"
      BY DEF ReadyDependents
    <3> QED
      BY <1>1, <1>2, <2>1, <3>1, <3>2 DEF Complete, Goto, TypeOK, InFlight
  <2>2. CASE ~FenceHolds(w)
    BY <1>2, <2>2 DEF Complete, Goto, TypeOK, InFlight
  <2> QED
    BY <2>1, <2>2
<1>3. CASE Commit(w)
  <2>1. /\ pc[w] = "committing"
        /\ MarkDone(claim[w].job, txn[w].released, txn[w].at)
        /\ UNCHANGED <<attempts, maxAttempts, gen, nextId, now, sweep, claim>>
        /\ \A v \in Workers : InFlight(v)' => InFlight(v)
    BY <1>3 DEF Commit, Goto, TypeOK, InFlight
  <2>2. FenceHolds(w) /\ \A d \in txn[w].released : status[d] = "blocked"
    BY <2>1 DEF TransactionIsolation
  <2> QED
    BY <1>1, <2>1, <2>2
<1> QED
  BY <1>2, <1>3

(* A job's status and attempts move together: a claim spends an attempt     *)
(* only of a ready row, and a row goes back to ready only with an attempt   *)
(* left.                                                                    *)
LEMMA BudgetStep ==
  BudgetInv /\ [Next]_vars => LimitsPositive' /\ AttemptBudget'
<1> SUFFICES ASSUME BudgetInv, [Next]_vars PROVE LimitsPositive' /\ AttemptBudget'
  OBVIOUS
<1> USE DEF BudgetInv, LimitsPositive, AttemptBudget
<1>1. CASE Enqueue
  <2>1. PICK m \in AttemptLimits :
          /\ status' = [status EXCEPT ![nextId] = "ready"]
          /\ maxAttempts' = [maxAttempts EXCEPT ![nextId] = m]
          /\ attempts' = attempts /\ nextId \in Jobs
    BY <1>1 DEF Enqueue
  <2>2. m \in Nat \ {0} /\ attempts[nextId] = 0
    BY <2>1, OptionsAssumption DEF Unborn, TypeOK
  <2>3. status'[nextId] = "ready" /\ maxAttempts'[nextId] = m
    BY <2>1 DEF TypeOK
  <2>4. \A j \in Jobs \ {nextId} : status'[j] = status[j] /\ maxAttempts'[j] = maxAttempts[j]
    BY <2>1 DEF TypeOK
  <2> QED
    BY <2>1, <2>2, <2>3, <2>4
<1>2. CASE EnqueueBatch
  <2> PICK steps \in BatchShapes, p \in Priorities, m \in AttemptLimits : InsertBatch(steps, p, m)
    BY <1>2 DEF EnqueueBatch
  <2>1. \A j \in NewJobs(steps) : j \in Jobs => attempts[j] = 0
    BY DEF NewJobs, Unborn
  <2>2. m \in Nat \ {0}
    BY OptionsAssumption
  <2>3. attempts' = attempts
    BY DEF InsertBatch
  <2>4. ASSUME NEW j \in Jobs, j \in NewJobs(steps)
        PROVE  status'[j] \in {"ready", "blocked"} /\ maxAttempts'[j] = m
    BY <2>4 DEF InsertBatch
  <2>5. ASSUME NEW j \in Jobs, j \notin NewJobs(steps)
        PROVE  status'[j] = status[j] /\ maxAttempts'[j] = maxAttempts[j]
    BY <2>5 DEF InsertBatch
  <2> QED
    BY <2>1, <2>2, <2>3, <2>4, <2>5
<1>3. ASSUME UNCHANGED maxAttempts,
             \A j \in Jobs :
               \/ status'[j] = status[j] /\ attempts'[j] = attempts[j]
               \/ status'[j] = "absent"
               \/ status[j] # "absent" /\ status'[j] \in {"done", "failed"}
               \/ status[j] # "absent" /\ status'[j] = "ready" /\ attempts'[j] < maxAttempts[j]
      PROVE  LimitsPositive' /\ AttemptBudget'
  BY <1>3
<1>4. ASSUME NEW w \in Workers, Claim(w) PROVE LimitsPositive' /\ AttemptBudget'
  <2> PICK j \in Jobs : /\ status[j] = "ready"
                        /\ status' = [status EXCEPT ![j] = "running"]
                        /\ attempts' = [attempts EXCEPT ![j] = @ + 1]
    BY <1>4 DEF Claim, Eligible
  <2>1. UNCHANGED maxAttempts
    BY <1>4 DEF Claim
  <2> QED
    BY <2>1 DEF TypeOK
<1>5. ASSUME NEW w \in Workers,
             \/ HandlerReturns(w) \/ HandlerThrows(w) \/ CompleteFaults(w) \/ Crash(w)
             \/ Settle(w) \/ SweepFaults(w)
      PROVE  LimitsPositive' /\ AttemptBudget'
  BY <1>3, <1>5 DEF HandlerReturns, HandlerThrows, CompleteFaults, Crash, Settle, SweepFaults,
                    columns
<1>6. ASSUME NEW w \in Workers, Complete(w) \/ Commit(w) PROVE LimitsPositive' /\ AttemptBudget'
  BY <1>3, <1>6, CompletionMoves
<1>8. ASSUME NEW w \in Workers, Fail(w) PROVE LimitsPositive' /\ AttemptBudget'
  <2>1. CASE ~FenceHolds(w)
    BY <1>3, <1>8, <2>1 DEF Fail
  <2>2. CASE FenceHolds(w)
    <3> DEFINE j == claim[w].job
    <3>1. /\ \A i \in Jobs \ {j} : status'[i] = status[i]
          /\ j \in Jobs =>
               \/ status'[j] = "failed"
               \/ status'[j] = "ready" /\ ~(claim[w].attempts >= maxAttempts[j])
      BY <1>8, <2>2 DEF Fail, TypeOK
    <3>2. status[j] = "running" /\ attempts[j] = claim[w].attempts
      BY <2>2 DEF FenceHolds
    <3>3. \A i \in Jobs : attempts[i] \in Nat /\ maxAttempts[i] \in Nat
      BY DEF TypeOK
    <3>4. UNCHANGED <<attempts, maxAttempts>>
      BY <1>8 DEF Fail
    <3> HIDE DEF j
    <3> QED
      BY <1>3, <3>1, <3>2, <3>3, <3>4
  <2> QED
    BY <2>1, <2>2
<1>9. ASSUME NEW w \in Workers, RetireStalled(w) PROVE LimitsPositive' /\ AttemptBudget'
  BY <1>3, <1>9 DEF RetireStalled, Stalled
<1>10. ASSUME NEW w \in Workers, ReclaimStalled(w) PROVE LimitsPositive' /\ AttemptBudget'
  BY <1>3, <1>10 DEF ReclaimStalled, Stalled, Exhausted, TypeOK
<1>11. ASSUME NEW j \in Jobs, Retry(j) PROVE LimitsPositive' /\ AttemptBudget'
  BY <1>3, <1>11 DEF Retry, Retriable, TypeOK
<1>12. ASSUME NEW j \in Jobs, Discard(j) PROVE LimitsPositive' /\ AttemptBudget'
  BY <1>3, <1>12 DEF Discard
<1>13. CASE Prune
  BY <1>3, <1>13 DEF Prune
<1>14. CASE Tick \/ StepBack \/ UNCHANGED vars
  BY <1>3, <1>14 DEF Tick, StepBack, vars, columns
<1>15. CASE DiscardTransaction
  BY <1>3, <1>15, WalkMoves
<1> QED
  BY <1>1, <1>2, <1>4, <1>5, <1>6, <1>8, <1>9, <1>10, <1>11, <1>12, <1>13, <1>14, <1>15
     DEF Next, WorkerStep, SweepStep

LEMMA BudgetInvariant == Spec => []BudgetInv
<1>1. Init => TypeOK
  BY TypeInit
<1>2. Init => BudgetInv
  BY <1>1 DEF Init, BudgetInv, Unborn, LimitsPositive, TransactionIsolation, Written, AttemptBudget
<1>3. BudgetInv /\ [Next]_vars => BudgetInv'
  BY TypeStep, UnbornStep, IsolationStep, BudgetStep DEF BudgetInv
<1> QED
  BY <1>2, <1>3, PTL DEF Spec

(* No job is given more than maxAttempts attempts, by thrown errors and     *)
(* stalled workers together, with any number of workers, sweeps and         *)
(* operators.                                                               *)
THEOREM AttemptsBounded == Spec => []AttemptBudget
<1>1. BudgetInv => AttemptBudget
  BY DEF BudgetInv
<1> QED
  BY <1>1, BudgetInvariant, PTL

(* complete()'s transaction keeps its claim and its dependents to itself    *)
(* until it commits.                                                        *)
THEOREM TransactionsIsolated == Spec => []TransactionIsolation
<1>1. BudgetInv => TransactionIsolation
  BY DEF BudgetInv
<1> QED
  BY <1>1, BudgetInvariant, PTL

-----------------------------------------------------------------------------
(* The fence *)

LEMMA MonotoneInvGivesFence ==
  ASSUME TypeOK, MonotoneInv
  PROVE  FenceSound
<1> SUFFICES ASSUME NEW w \in Workers, InFlight(w), FenceHolds(w)
             PROVE  claim[w].gen = gen[claim[w].job]
  BY DEF FenceSound
<1>1. claim[w].job \in Jobs /\ claim[w].lockedUntil \in Nat
  BY DEF TypeOK
<1>2. claim[w].gen \in Nat /\ gen[claim[w].job] \in Nat /\ claim[w].gen <= gen[claim[w].job]
  BY <1>1 DEF MonotoneInv, ClaimsNumbered, TypeOK
<1>3. ~(claim[w].lockedUntil < lockedUntil[claim[w].job])
  BY <1>1 DEF FenceHolds
<1> QED
  BY <1>2, <1>3 DEF MonotoneInv, DeadlinesGrow, FenceHolds

(* The steps that mint no claim: a row leaves the hands of a worker only    *)
(* for good, or once the worker's deadline has lapsed.                      *)
LEMMA MonotoneKept ==
  ASSUME TypeOK, TypeOK', MonotoneInv,
         now <= now',
         UNCHANGED gen,
         \A v \in Workers : InFlight(v)' => InFlight(v) /\ claim'[v] = claim[v],
         \A v \in Workers : sweep'[v] <= now',
         \A v \in Workers : InFlight(v)' =>
            LET j == claim[v].job IN
            \/ status'[j] = status[j] /\ lockedUntil'[j] = lockedUntil[j]
            \/ status'[j] \in {"done", "absent"}
            \/ /\ status'[j] \in {"blocked", "ready", "failed"}
               /\ status[j] \in {"blocked", "ready", "failed"} \/ claim[v].lockedUntil < now
  PROVE  MonotoneInv'
<1>1. \A v \in Workers : InFlight(v)' =>
        /\ claim[v].job \in Jobs
        /\ claim[v].lockedUntil \in Nat
        /\ claim[v].gen \in Nat
        /\ gen[claim[v].job] \in Nat
  BY DEF TypeOK
<1>2. now \in Nat /\ now' \in Nat
  BY DEF TypeOK
<1>3. ClaimsNumbered' /\ ClaimsDistinct' /\ SweepsBehind'
  BY DEF MonotoneInv, ClaimsNumbered, ClaimsDistinct, SweepsBehind
<1>4. LosersLapsed'
  <2> SUFFICES ASSUME NEW v \in Workers, InFlight(v)',
                      \/ claim[v].gen < gen[claim[v].job]
                      \/ status'[claim[v].job] \in {"blocked", "ready", "failed"}
               PROVE  claim[v].lockedUntil < now'
    BY DEF LosersLapsed
  <2>1. claim[v].lockedUntil < now
    BY DEF MonotoneInv, LosersLapsed
  <2> QED
    BY <1>1, <1>2, <2>1
<1>5. OwnerHoldsLock'
  BY DEF MonotoneInv, OwnerHoldsLock
<1>6. DeadlinesGrow'
  BY DEF MonotoneInv, DeadlinesGrow
<1> QED
  BY <1>3, <1>4, <1>5, <1>6 DEF MonotoneInv

(* A claim mints the next number of its row, with a deadline later than any *)
(* the row had before.                                                      *)
LEMMA ClaimMonotone ==
  ASSUME BudgetInv, MonotoneInv, NEW w \in Workers, Claim(w)
  PROVE  MonotoneInv'
<1> PICK j \in Jobs, t \in Visibilities :
       /\ status[j] = "ready"
       /\ status' = [status EXCEPT ![j] = "running"]
       /\ lockedUntil' = [lockedUntil EXCEPT ![j] = now + t]
       /\ gen' = [gen EXCEPT ![j] = @ + 1]
       /\ claim' = [claim EXCEPT ![w] = [job |-> j, attempts |-> attempts[j] + 1,
                                         lockedUntil |-> now + t, gen |-> gen[j] + 1]]
  BY DEF Claim, Eligible
<1>1. now \in Nat /\ t \in Nat /\ gen[j] \in Nat
  BY OptionsAssumption DEF BudgetInv, TypeOK
<1>2. /\ status'[j] = "running"
      /\ lockedUntil'[j] = now + t
      /\ gen'[j] = gen[j] + 1
      /\ \A i \in Jobs \ {j} : /\ status'[i] = status[i]
                              /\ lockedUntil'[i] = lockedUntil[i]
                              /\ gen'[i] = gen[i]
  BY DEF BudgetInv, TypeOK
<1>3. /\ UNCHANGED <<now, sweep>>
      /\ \A v \in Workers \ {w} : claim'[v] = claim[v] /\ (InFlight(v)' <=> InFlight(v))
      /\ claim'[w].job = j /\ claim'[w].lockedUntil = now + t /\ claim'[w].gen = gen[j] + 1
  BY DEF Claim, BudgetInv, TypeOK, InFlight
<1>4. ASSUME NEW v \in Workers, InFlight(v)
      PROVE  /\ claim[v].job \in Jobs
             /\ claim[v].gen \in Nat
             /\ claim[v].lockedUntil \in Nat
             /\ gen[claim[v].job] \in Nat
             /\ claim[v].gen \in 1 .. gen[claim[v].job]
             /\ claim[v].job = j => claim[v].lockedUntil < now
  BY <1>4 DEF BudgetInv, TypeOK, MonotoneInv, ClaimsNumbered, LosersLapsed
<1>5. ClaimsNumbered'
  <2> SUFFICES ASSUME NEW v \in Workers, InFlight(v)'
               PROVE  claim'[v].gen \in 1 .. gen'[claim'[v].job]
    BY DEF ClaimsNumbered
  <2>1. CASE v = w
    BY <1>1, <1>2, <1>3, <2>1
  <2>2. CASE v # w
    BY <1>1, <1>2, <1>3, <1>4, <2>2
  <2> QED
    BY <2>1, <2>2
<1>6. ClaimsDistinct'
  <2> SUFFICES ASSUME NEW u \in Workers, NEW v \in Workers, InFlight(u)', InFlight(v)',
                      claim'[u].job = claim'[v].job, claim'[u].gen = claim'[v].gen
               PROVE  u = v
    BY DEF ClaimsDistinct
  <2>1. ASSUME NEW x \in Workers \ {w}, InFlight(x), claim[x].job = j PROVE claim[x].gen # gen[j] + 1
    BY <1>1, <1>4, <2>1
  <2>2. CASE u = w \/ v = w
    BY <1>3, <2>1, <2>2
  <2>3. CASE u # w /\ v # w
    BY <1>3, <2>3 DEF MonotoneInv, ClaimsDistinct
  <2> QED
    BY <2>2, <2>3
<1>7. OwnerHoldsLock'
  <2> SUFFICES ASSUME NEW v \in Workers, InFlight(v)', status'[claim'[v].job] = "running",
                      claim'[v].gen = gen'[claim'[v].job]
               PROVE  lockedUntil'[claim'[v].job] = claim'[v].lockedUntil
    BY DEF OwnerHoldsLock
  <2>1. CASE v = w
    BY <1>2, <1>3, <2>1
  <2>2. CASE v # w
    BY <1>1, <1>2, <1>3, <1>4, <2>2 DEF MonotoneInv, OwnerHoldsLock
  <2> QED
    BY <2>1, <2>2
<1>8. LosersLapsed'
  <2> SUFFICES ASSUME NEW v \in Workers, InFlight(v)',
                      \/ claim'[v].gen < gen'[claim'[v].job]
                      \/ status'[claim'[v].job] \in {"blocked", "ready", "failed"}
               PROVE  claim'[v].lockedUntil < now'
    BY DEF LosersLapsed
  <2>1. v # w
    BY <1>1, <1>2, <1>3
  <2> QED
    BY <1>2, <1>3, <1>4, <2>1 DEF MonotoneInv, LosersLapsed
<1>9. DeadlinesGrow'
  <2> SUFFICES ASSUME NEW v \in Workers, InFlight(v)', status'[claim'[v].job] = "running",
                      claim'[v].gen < gen'[claim'[v].job]
               PROVE  claim'[v].lockedUntil < lockedUntil'[claim'[v].job]
    BY DEF DeadlinesGrow
  <2>1. v # w
    BY <1>1, <1>2, <1>3
  <2>2. CASE claim[v].job = j
    BY <1>1, <1>2, <1>3, <1>4, <2>1, <2>2
  <2>3. CASE claim[v].job # j
    BY <1>2, <1>3, <1>4, <2>1, <2>3 DEF MonotoneInv, DeadlinesGrow
  <2> QED
    BY <2>2, <2>3
<1>10. SweepsBehind'
  BY <1>3 DEF MonotoneInv, SweepsBehind
<1> QED
  BY <1>5, <1>6, <1>7, <1>8, <1>9, <1>10 DEF MonotoneInv

LEMMA CompletionMonotone ==
  ASSUME TypeOK, TypeOK', TransactionIsolation, MonotoneInv, NEW w \in Workers,
         Complete(w) \/ Commit(w)
  PROVE  MonotoneInv'
<1>1. /\ \A j \in Jobs :
          \/ status'[j] = status[j] /\ lockedUntil'[j] = lockedUntil[j]
          \/ status[j] = "running" /\ status'[j] = "done" /\ j = claim[w].job /\ FenceHolds(w)
          \/ status[j] = "blocked" /\ status'[j] = "ready"
      /\ UNCHANGED <<attempts, maxAttempts, gen, nextId, now, sweep, claim>>
      /\ \A v \in Workers : InFlight(v)' => InFlight(v)
  BY CompletionMoves
<1>2. \A v \in Workers : InFlight(v) => claim[v].job \in Jobs
  BY DEF TypeOK
<1>3. now \in Nat /\ \A v \in Workers : sweep[v] <= now
  BY DEF TypeOK, MonotoneInv, SweepsBehind
<1> QED
  BY <1>1, <1>2, <1>3, MonotoneKept

LEMMA MonotoneStep ==
  ASSUME ~ClockStepsBack, BudgetInv, BudgetInv', MonotoneInv, [Next]_vars
  PROVE  MonotoneInv'
<1> USE DEF BudgetInv
<1>1. \A w \in Workers : sweep[w] <= now
  BY DEF MonotoneInv, SweepsBehind
<1>2. now \in Nat
  BY DEF TypeOK
<1>3. ASSUME NEW v \in Workers, InFlight(v)
      PROVE  /\ claim[v].job \in Jobs
             /\ claim[v].job < nextId
             /\ claim[v].gen \in Nat
             /\ claim[v].lockedUntil \in Nat
             /\ gen[claim[v].job] \in Nat
             /\ claim[v].gen <= gen[claim[v].job]
  <2>1. /\ claim[v].job \in Jobs
        /\ claim[v].gen \in Nat
        /\ claim[v].lockedUntil \in Nat
        /\ gen[claim[v].job] \in Nat
        /\ claim[v].gen \in 1 .. gen[claim[v].job]
    BY <1>3 DEF TypeOK, MonotoneInv, ClaimsNumbered
  <2>2. claim[v].job < nextId
    BY <2>1, BoundsAssumption DEF Unborn, TypeOK, Jobs
  <2> QED
    BY <2>1, <2>2
<1>4. CASE Enqueue
  <2>1. /\ UNCHANGED <<gen, pc, claim, sweep, now, lockedUntil>>
        /\ \A j \in Jobs : j < nextId => status'[j] = status[j]
    BY <1>4 DEF Enqueue, TypeOK, workerVars, history
  <2> QED
    BY <1>1, <1>2, <1>3, <2>1, MonotoneKept DEF InFlight
<1>5. CASE EnqueueBatch
  <2> PICK steps \in BatchShapes, p \in Priorities, m \in AttemptLimits : InsertBatch(steps, p, m)
    BY <1>5 DEF EnqueueBatch
  <2>1. UNCHANGED <<gen, pc, claim, sweep, now, lockedUntil>>
    BY DEF InsertBatch, workerVars
  <2>2. \A j \in Jobs : j < nextId => status'[j] = status[j]
    BY DEF InsertBatch, NewJobs, TypeOK, Jobs
  <2> QED
    BY <1>1, <1>2, <1>3, <2>1, <2>2, MonotoneKept DEF InFlight
<1>6. ASSUME NEW w \in Workers,
             \/ HandlerReturns(w) \/ HandlerThrows(w) \/ CompleteFaults(w) \/ Crash(w)
             \/ Settle(w)
      PROVE  MonotoneInv'
  <2>1. /\ UNCHANGED <<gen, claim, sweep, now, status, lockedUntil>>
        /\ \A v \in Workers : InFlight(v)' => InFlight(v)
    BY <1>6 DEF HandlerReturns, HandlerThrows, CompleteFaults, Crash, Settle, Goto, TypeOK,
                InFlight, columns, history
  <2> QED
    BY <1>1, <1>2, <2>1, MonotoneKept
<1>7. ASSUME NEW w \in Workers, Complete(w) \/ Commit(w) PROVE MonotoneInv'
  BY <1>7, CompletionMonotone
<1>8. ASSUME NEW w \in Workers, Fail(w) PROVE MonotoneInv'
  <2>1. /\ UNCHANGED <<gen, now, sweep, claim>>
        /\ \A v \in Workers : InFlight(v)' => InFlight(v) /\ v # w
        /\ InFlight(w)
    BY <1>8 DEF Fail, Goto, TypeOK, InFlight
  <2>2. CASE ~FenceHolds(w)
    <3>1. UNCHANGED <<status, lockedUntil>>
      BY <1>8, <2>2 DEF Fail
    <3> QED
      BY <1>1, <1>2, <2>1, <3>1, MonotoneKept
  <2>3. CASE FenceHolds(w)
    <3>1. /\ \A i \in Jobs \ {claim[w].job} : /\ status'[i] = status[i]
                                            /\ lockedUntil'[i] = lockedUntil[i]
          /\ claim[w].job \in Jobs => status'[claim[w].job] \in {"ready", "failed"}
      BY <1>8, <2>3 DEF Fail, TypeOK
    <3>2. claim[w].gen = gen[claim[w].job]
      BY <2>1, <2>3, MonotoneInvGivesFence DEF FenceSound
    <3>3. ASSUME NEW v \in Workers, InFlight(v)', claim[v].job = claim[w].job
          PROVE  claim[v].lockedUntil < now
      <4>1. InFlight(v) /\ v # w
        BY <2>1, <3>3
      <4>2. claim[v].gen # claim[w].gen
        BY <2>1, <3>3, <4>1 DEF MonotoneInv, ClaimsDistinct
      <4>3. claim[v].gen < gen[claim[v].job]
        BY <1>3, <3>2, <3>3, <4>1, <4>2
      <4> QED
        BY <4>1, <4>3 DEF MonotoneInv, LosersLapsed
    <3> QED
      BY <1>1, <1>2, <1>3, <2>1, <3>1, <3>3, MonotoneKept
  <2> QED
    BY <2>2, <2>3
<1>9. ASSUME NEW j \in Jobs, status[j] = "running", lockedUntil[j] \in Nat, lockedUntil[j] < now,
             NEW v \in Workers, InFlight(v), claim[v].job = j
      PROVE  claim[v].lockedUntil < now
  <2>1. CASE claim[v].gen = gen[j]
    BY <1>9, <2>1 DEF MonotoneInv, OwnerHoldsLock
  <2>2. CASE claim[v].gen < gen[j]
    BY <1>9, <2>2 DEF MonotoneInv, LosersLapsed
  <2> QED
    BY <1>3, <1>9, <2>1, <2>2
<1>10. ASSUME NEW w \in Workers, RetireStalled(w) PROVE MonotoneInv'
  <2> DEFINE S == {j \in Stalled(now) : Exhausted(j)}
  <2>1. /\ \A i \in Jobs \ S : status'[i] = status[i] /\ lockedUntil'[i] = lockedUntil[i]
        /\ \A i \in Jobs : i \in S => status'[i] = "failed"
        /\ UNCHANGED <<gen, now, pc, claim>>
        /\ sweep' = [sweep EXCEPT ![w] = now]
    BY <1>10 DEF RetireStalled, workerVars
  <2>2. \A i \in S : status[i] = "running" /\ lockedUntil[i] \in Nat /\ lockedUntil[i] < now
    BY DEF Stalled, TypeOK, NatOrNull
  <2>3. \A v \in Workers : sweep'[v] <= now
    BY <1>1, <1>2, <2>1 DEF TypeOK
  <2> HIDE DEF S
  <2> QED
    BY <1>2, <1>3, <1>9, <2>1, <2>2, <2>3, MonotoneKept DEF InFlight
<1>11. ASSUME NEW w \in Workers, ReclaimStalled(w) PROVE MonotoneInv'
  <2> DEFINE S == {j \in Stalled(sweep[w]) : ~Exhausted(j)}
  <2>1. /\ \A i \in Jobs \ S : status'[i] = status[i] /\ lockedUntil'[i] = lockedUntil[i]
        /\ \A i \in Jobs : i \in S => status'[i] = "ready"
        /\ UNCHANGED <<gen, now, pc, claim>>
        /\ sweep' = [sweep EXCEPT ![w] = NoSweep]
        /\ sweep[w] # NoSweep
    BY <1>11 DEF ReclaimStalled, workerVars, history
  <2>2. \A i \in S : status[i] = "running" /\ lockedUntil[i] \in Nat /\ lockedUntil[i] < now
    <3>1. sweep[w] \in Nat /\ sweep[w] <= now
      BY <1>1, <2>1 DEF TypeOK
    <3> QED
      BY <1>2, <3>1 DEF Stalled, TypeOK, NatOrNull
  <2>3. \A v \in Workers : sweep'[v] <= now
    BY <1>1, <1>2, <2>1 DEF TypeOK, NoSweep
  <2> HIDE DEF S
  <2> QED
    BY <1>2, <1>3, <1>9, <2>1, <2>2, <2>3, MonotoneKept DEF InFlight
<1>12. ASSUME NEW w \in Workers, SweepFaults(w) PROVE MonotoneInv'
  <2>1. \A v \in Workers : sweep'[v] <= now
    BY <1>1, <1>2, <1>12 DEF SweepFaults, TypeOK, NoSweep
  <2>2. UNCHANGED <<gen, now, pc, claim, status, lockedUntil>>
    BY <1>12 DEF SweepFaults, columns, workerVars, history
  <2> QED
    BY <1>2, <2>1, <2>2, MonotoneKept DEF InFlight
<1>13. ASSUME NEW j \in Jobs, Retry(j) PROVE MonotoneInv'
  <2>1. /\ UNCHANGED <<gen, now, sweep, pc, claim>>
        /\ \A i \in Jobs \ {j} : status'[i] = status[i] /\ lockedUntil'[i] = lockedUntil[i]
        /\ status[j] = "failed" /\ status'[j] = "ready"
    BY <1>13 DEF Retry, Retriable, TypeOK, workerVars, history
  <2> QED
    BY <1>1, <1>2, <1>3, <2>1, MonotoneKept DEF InFlight
<1>14. ASSUME (\E j \in Jobs : Discard(j)) \/ Prune PROVE MonotoneInv'
  <2>1. /\ UNCHANGED <<gen, now, sweep, pc, claim, lockedUntil>>
        /\ \A i \in Jobs : status'[i] = status[i] \/ status'[i] = "absent"
    BY <1>14 DEF Discard, Prune, workerVars, history
  <2> QED
    BY <1>1, <1>2, <1>3, <2>1, MonotoneKept DEF InFlight
<1>15. CASE Tick \/ StepBack \/ UNCHANGED vars
  <2>1. /\ UNCHANGED <<gen, sweep, pc, claim, status, lockedUntil>>
        /\ now' = now \/ now' = now + 1
    BY <1>15 DEF Tick, StepBack, vars, columns, workerVars, history
  <2>2. \A v \in Workers : sweep[v] \in Int
    BY DEF TypeOK, NoSweep
  <2>3. \A v \in Workers : sweep'[v] <= now'
    BY <1>1, <1>2, <2>1, <2>2
  <2> QED
    BY <1>2, <2>1, <2>3, MonotoneKept DEF InFlight
<1>16. ASSUME NEW w \in Workers, Claim(w) PROVE MonotoneInv'
  BY <1>16, ClaimMonotone
<1>17. CASE DiscardTransaction
  <2>1. /\ UNCHANGED <<gen, now, sweep, pc, claim, lockedUntil>>
        /\ \A i \in Jobs : status'[i] = status[i] \/ status'[i] = "absent"
    BY <1>17, WalkMoves
  <2> QED
    BY <1>1, <1>2, <1>3, <2>1, MonotoneKept DEF InFlight
<1> QED
  BY <1>4, <1>5, <1>6, <1>7, <1>8, <1>10, <1>11, <1>12, <1>13, <1>14, <1>15, <1>16, <1>17
     DEF Next, WorkerStep, SweepStep

LEMMA MonotoneInvariant == ~ClockStepsBack => (Spec => [](BudgetInv /\ MonotoneInv))
<1> SUFFICES ASSUME ~ClockStepsBack PROVE Spec => [](BudgetInv /\ MonotoneInv)
  OBVIOUS
<1>1. Init => MonotoneInv
  BY DEF Init, MonotoneInv, ClaimsNumbered, ClaimsDistinct, OwnerHoldsLock, LosersLapsed,
         DeadlinesGrow, SweepsBehind, InFlight, NoSweep
<1>2. BudgetInv /\ BudgetInv' /\ MonotoneInv /\ [Next]_vars => MonotoneInv'
  BY MonotoneStep
<1> QED
  BY <1>1, <1>2, BudgetInvariant, PTL DEF Spec

(* The other way to a sound fence: without retry(), attempts is never       *)
(* reset and counts the claims of the row, whatever the clock does.         *)
LEMMA CountStep ==
  ASSUME "retry" \notin OperatorVerbs, BudgetInv, AttemptsCountClaims, [Next]_vars
  PROVE  AttemptsCountClaims'
<1> USE DEF AttemptsCountClaims
<1>1. ASSUME NEW w \in Workers, Claim(w) PROVE AttemptsCountClaims'
  <2> PICK j \in Jobs, t \in Visibilities :
         /\ attempts' = [attempts EXCEPT ![j] = @ + 1]
         /\ gen' = [gen EXCEPT ![j] = @ + 1]
         /\ claim' = [claim EXCEPT ![w] = [job |-> j, attempts |-> attempts[j] + 1,
                                           lockedUntil |-> now + t, gen |-> gen[j] + 1]]
    BY <1>1 DEF Claim
  <2>1. \A i \in Jobs : gen'[i] = attempts'[i]
    BY DEF BudgetInv, TypeOK
  <2>2. /\ claim'[w].gen = claim'[w].attempts
        /\ \A v \in Workers \ {w} : claim'[v] = claim[v]
    BY DEF BudgetInv, TypeOK
  <2>3. \A v \in Workers \ {w} : InFlight(v)' => InFlight(v)
    BY <1>1 DEF Claim, InFlight, BudgetInv, TypeOK
  <2> QED
    BY <2>1, <2>2, <2>3
<1>2. ASSUME UNCHANGED <<attempts, gen, claim>>, \A v \in Workers : InFlight(v)' => InFlight(v)
      PROVE  AttemptsCountClaims'
  BY <1>2
<1>3. ASSUME NEW w \in Workers,
             \/ HandlerReturns(w) \/ HandlerThrows(w) \/ CompleteFaults(w) \/ Crash(w)
             \/ Settle(w) \/ Fail(w)
      PROVE  AttemptsCountClaims'
  <2>1. UNCHANGED <<attempts, gen, claim>>
    BY <1>3 DEF HandlerReturns, HandlerThrows, CompleteFaults, Crash, Settle, Fail, columns, history
  <2>2. \A v \in Workers : InFlight(v)' => InFlight(v)
    BY <1>3 DEF HandlerReturns, HandlerThrows, CompleteFaults, Crash, Settle, Fail, Goto, InFlight,
                BudgetInv, TypeOK
  <2> QED
    BY <1>2, <2>1, <2>2
<1>4. ASSUME NEW w \in Workers, Complete(w) \/ Commit(w) PROVE AttemptsCountClaims'
  BY <1>2, <1>4, CompletionMoves DEF BudgetInv
<1>5. ASSUME NEW w \in Workers, RetireStalled(w) \/ ReclaimStalled(w) \/ SweepFaults(w)
      PROVE  AttemptsCountClaims'
  BY <1>2, <1>5 DEF RetireStalled, ReclaimStalled, SweepFaults, columns, workerVars, history, InFlight
<1>6. CASE Enqueue
  BY <1>2, <1>6 DEF Enqueue, workerVars, history, InFlight
<1>7. CASE EnqueueBatch
  BY <1>2, <1>7 DEF EnqueueBatch, InsertBatch, workerVars, InFlight
<1>8. ASSUME NEW j \in Jobs, Retry(j) \/ Discard(j) PROVE AttemptsCountClaims'
  BY <1>2, <1>8 DEF Retry, Retriable, Discard, workerVars, InFlight
<1>9. CASE Prune \/ Tick \/ StepBack \/ UNCHANGED vars
  BY <1>2, <1>9 DEF Prune, Tick, StepBack, vars, columns, workerVars, history, InFlight
<1>10. CASE DiscardTransaction
  BY <1>2, <1>10, WalkMoves DEF BudgetInv, InFlight
<1> QED
  BY <1>1, <1>3, <1>4, <1>5, <1>6, <1>7, <1>8, <1>9, <1>10 DEF Next, WorkerStep, SweepStep

LEMMA CountInvariant ==
  "retry" \notin OperatorVerbs => (Spec => [](BudgetInv /\ AttemptsCountClaims))
<1> SUFFICES ASSUME "retry" \notin OperatorVerbs
             PROVE  Spec => [](BudgetInv /\ AttemptsCountClaims)
  OBVIOUS
<1>1. Init => AttemptsCountClaims
  BY DEF Init, AttemptsCountClaims, InFlight
<1>2. BudgetInv /\ AttemptsCountClaims /\ [Next]_vars => AttemptsCountClaims'
  BY CountStep
<1> QED
  BY <1>1, <1>2, BudgetInvariant, PTL DEF Spec

(* If the clock never steps back, or nobody retries a dead-lettered job by  *)
(* hand, the fence of complete() and fail() admits only the current claim.  *)
(* Either hypothesis will do, and one is needed: after a retry() that       *)
(* resets attempts, under a clock that was stepped back, two claims of a    *)
(* row can carry the same locked_until and the same attempts.               *)
THEOREM FenceIsSound ==
  (~ClockStepsBack \/ "retry" \notin OperatorVerbs) /\ Spec => []FenceSound
<1>1. BudgetInv /\ MonotoneInv => FenceSound
  BY MonotoneInvGivesFence DEF BudgetInv
<1>2. BudgetInv /\ AttemptsCountClaims => FenceSound
  BY DEF BudgetInv, TypeOK, AttemptsCountClaims, FenceSound, FenceHolds
<1> QED
  BY <1>1, <1>2, MonotoneInvariant, CountInvariant, PTL

(* Under a clock that never steps back, two workers hold the same job at    *)
(* once only after a visibility deadline has lapsed.                        *)
THEOREM OneUnlapsedOwner == ~ClockStepsBack /\ Spec => []SoleUnlapsedOwner
<1>1. BudgetInv /\ MonotoneInv => SoleUnlapsedOwner
  <2> SUFFICES ASSUME BudgetInv, MonotoneInv, NEW v \in Workers, NEW w \in Workers,
                      InFlight(v), claim[v].lockedUntil >= now,
                      InFlight(w), claim[w].lockedUntil >= now,
                      claim[v].job = claim[w].job
               PROVE  v = w
    BY DEF SoleUnlapsedOwner
  <2>1. \A u \in {v, w} : claim[u].gen = gen[claim[u].job]
    <3> SUFFICES ASSUME NEW u \in {v, w} PROVE claim[u].gen = gen[claim[u].job]
      OBVIOUS
    <3>1. u \in Workers /\ InFlight(u) /\ claim[u].lockedUntil >= now
      OBVIOUS
    <3>2. /\ claim[u].gen \in Nat /\ gen[claim[u].job] \in Nat
          /\ claim[u].lockedUntil \in Nat /\ now \in Nat
      BY <3>1 DEF BudgetInv, TypeOK
    <3>3. claim[u].gen \in 1 .. gen[claim[u].job]
      BY <3>1 DEF MonotoneInv, ClaimsNumbered
    <3>4. ~(claim[u].gen < gen[claim[u].job])
      BY <3>1, <3>2 DEF MonotoneInv, LosersLapsed
    <3> QED
      BY <3>2, <3>3, <3>4
  <2> QED
    BY <2>1 DEF MonotoneInv, ClaimsDistinct
<1> QED
  BY <1>1, MonotoneInvariant, PTL

(* No step takes a job out of done, short of deleting its row. *)
THEOREM DoneStaysDone == Spec => DoneIsFinal
<1> DEFINE Kept == \A j \in Jobs : status[j] = "done" => status'[j] \in {"done", "absent"}
<1>1. ASSUME BudgetInv, Next PROVE Kept
  <2>1. CASE Enqueue
    BY <1>1, <2>1 DEF Enqueue, BudgetInv, Unborn, TypeOK
  <2>2. CASE EnqueueBatch
    BY <1>1, <2>2 DEF EnqueueBatch, InsertBatch, NewJobs, BudgetInv, Unborn, TypeOK
  <2>3. ASSUME NEW w \in Workers, Claim(w) PROVE Kept
    BY <1>1, <2>3 DEF Claim, Eligible, BudgetInv, TypeOK
  <2>4. ASSUME NEW w \in Workers, Complete(w) \/ Commit(w) PROVE Kept
    BY <1>1, <2>4, CompletionMoves DEF BudgetInv
  <2>5. ASSUME NEW w \in Workers, Fail(w) PROVE Kept
    BY <1>1, <2>5 DEF Fail, FenceHolds, BudgetInv, TypeOK
  <2>6. ASSUME NEW w \in Workers, RetireStalled(w) \/ ReclaimStalled(w) PROVE Kept
    BY <1>1, <2>6 DEF RetireStalled, ReclaimStalled, Stalled
  <2>7. ASSUME NEW w \in Workers,
               \/ HandlerReturns(w) \/ HandlerThrows(w) \/ CompleteFaults(w) \/ Crash(w)
               \/ Settle(w) \/ SweepFaults(w)
        PROVE  Kept
    BY <2>7 DEF HandlerReturns, HandlerThrows, CompleteFaults, Crash, Settle, SweepFaults, columns
  <2>8. ASSUME NEW j \in Jobs, Retry(j) \/ Discard(j) PROVE Kept
    BY <1>1, <2>8 DEF Retry, Retriable, Discard, BudgetInv, TypeOK
  <2>9. CASE Prune \/ Tick \/ StepBack
    BY <2>9 DEF Prune, Tick, StepBack, columns
  <2>10. CASE DiscardTransaction
    BY <1>1, <2>10, WalkMoves DEF BudgetInv
  <2> QED
    BY <1>1, <2>1, <2>2, <2>3, <2>4, <2>5, <2>6, <2>7, <2>8, <2>9, <2>10 DEF Next, WorkerStep, SweepStep
<1>2. BudgetInv /\ [Next]_vars => [Kept]_vars
  BY <1>1
<1> HIDE DEF Kept
<1>3. Spec => [][Kept]_vars
  BY <1>2, BudgetInvariant, PTL DEF Spec
<1> QED
  BY <1>3 DEF DoneIsFinal, Kept

-----------------------------------------------------------------------------
(* Batches *)

(* What is known of an id the sequence has yet to hand out, and of the ids  *)
(* that edges, claims, batches and discard()'s transaction name.            *)
IdsBorn ==
  /\ \A j \in Jobs : j >= nextId => batchId[j] = NULL
  /\ \A j \in Jobs : batchId[j] # NULL => batchId[j] < nextId
  /\ \A e \in declared : e[1] < nextId
  /\ deps \subseteq declared
  /\ \A w \in Workers : InFlight(w) => claim[w].job < nextId
  /\ \A d \in walk.dropped \cup walk.doomed : d < nextId

(* The histories know every settled row. *)
SettledKnown ==
  \A j \in Jobs : /\ status[j] = "done" => j \in everDone
                  /\ status[j] = "failed" => j \in everFailed

Members(b) == {j \in Jobs : batchId[j] = b}

(* The batch row counts the jobs the batch was enqueued with, until prune() *)
(* deletes it with the last of them.                                        *)
TotalsExact == \A b \in Jobs : batches[b] > 0 => batches[b] = Cardinality(Members(b))

(* What the fate of rows and batches needs. *)
FateInv == BudgetInv /\ IdsBorn /\ SettledKnown /\ NoJobLost /\ TotalsExact

(* What a row that has left "blocked" had to wait for has been done. *)
StartedInOrder ==
  \A e \in declared : status[e[1]] \in {"ready", "running", "done", "failed"} => e[2] \in everDone

(* A blocked row forgets a prerequisite only once that is done. *)
BlockedRemembers ==
  \A e \in declared : status[e[1]] = "blocked" => e \in deps \/ e[2] \in everDone

(* An edge goes with its rows. *)
EdgesLive == \A e \in deps : status[e[1]] # "absent" /\ status[e[2]] # "absent"

(* What an open complete() releases waits for nothing but the job it        *)
(* completes.                                                               *)
ReleasesInOrder ==
  \A w \in Workers : pc[w] = "committing" =>
    \A e \in declared : e[1] \in txn[w].released => e[2] \in everDone \cup {claim[w].job}

(* discard()'s transaction will reach everything blocked on what it dropped. *)
WalkCloses ==
  \A e \in deps : e[2] \in walk.dropped /\ status[e[1]] = "blocked"
    => e[1] \in walk.dropped \cup walk.doomed

(* What the order of a batch needs while nothing is pruned. *)
OrderInv ==
  /\ FateInv
  /\ StartedInOrder /\ BlockedRemembers /\ EdgesLive /\ ReleasesInOrder /\ WalkCloses
  /\ OrderedBatch

(* SQLite runs complete() and discard() in one step. *)
NoOpenTransaction == walk = NoWalk /\ \A w \in Workers : pc[w] # "committing"

(* A step that inserts and deletes nothing: a claim, a verdict on it, a     *)
(* sweep, a retry, time.                                                    *)
PlainStep ==
  /\ UNCHANGED <<batchId, batches, deps, nextId, walk, everDone, discarded, declared>>
  /\ everFailed \subseteq everFailed'
  /\ \A j \in Jobs :
       \/ status'[j] = status[j]
       \/ status[j] = "ready" /\ status'[j] = "running"
       \/ status[j] \in {"running", "failed"} /\ status'[j] = "ready"
       \/ status[j] = "running" /\ status'[j] = "failed" /\ j \in everFailed'
  /\ \A v \in Workers : InFlight(v)' =>
       \/ InFlight(v) /\ claim'[v] = claim[v]
       \/ claim'[v].job \in Jobs /\ status[claim'[v].job] = "ready"
  /\ \A v \in Workers : pc'[v] = "committing" =>
       \/ pc[v] = "committing" /\ claim'[v] = claim[v] /\ txn'[v] = txn[v]
       \/ /\ InFlight(v) /\ claim'[v] = claim[v] /\ Dialect = "postgres"
          /\ txn'[v].released = ReadyDependents(claim[v].job)

(* Every other step inserts rows, completes a job, or deletes rows. *)
LEMMA StepKinds ==
  ASSUME BudgetInv, [Next]_vars
  PROVE  \/ PlainStep
         \/ Enqueue \/ EnqueueBatch
         \/ \E w \in Workers : Complete(w) \/ Commit(w)
         \/ \E j \in Jobs : Discard(j)
         \/ DiscardTransaction
         \/ Prune
<1> USE DEF PlainStep, BudgetInv, InFlight, columns, workerVars, history
<1>1. ASSUME NEW w \in Workers, Claim(w) PROVE PlainStep
  <2>1. PICK j \in Jobs, t \in Visibilities :
          /\ status[j] = "ready"
          /\ status' = [status EXCEPT ![j] = "running"]
          /\ claim' = [claim EXCEPT ![w] = [job |-> j, attempts |-> attempts[j] + 1,
                                            lockedUntil |-> now + t, gen |-> gen[j] + 1]]
    BY <1>1 DEF Claim, Eligible
  <2>4. claim'[w].job = j /\ \A v \in Workers \ {w} : claim'[v] = claim[v]
    BY <2>1 DEF TypeOK
  <2>2. pc' = [pc EXCEPT ![w] = "handling"] /\ UNCHANGED txn
    BY <1>1 DEF Claim
  <2>3. UNCHANGED <<batchId, batches, deps, nextId, walk, everDone, discarded, declared, everFailed>>
    BY <1>1 DEF Claim
  <2> QED
    BY <2>1, <2>2, <2>3, <2>4 DEF TypeOK
<1>2. ASSUME NEW w \in Workers,
             HandlerReturns(w) \/ HandlerThrows(w) \/ CompleteFaults(w) \/ Crash(w) \/ SweepFaults(w)
      PROVE  PlainStep
  <2>1. \A v \in Workers : /\ InFlight(v)' => InFlight(v)
                           /\ pc'[v] = "committing" => pc[v] = "committing" /\ txn'[v] = txn[v]
    BY <1>2 DEF HandlerReturns, HandlerThrows, CompleteFaults, Crash, SweepFaults, Goto, TypeOK
  <2> QED
    BY <1>2, <2>1 DEF HandlerReturns, HandlerThrows, CompleteFaults, Crash, SweepFaults
<1>3. ASSUME NEW w \in Workers, Settle(w) PROVE PlainStep
  <2>1. pc[w] = "completing" /\ Dialect = "postgres"
    BY <1>3 DEF Settle, OpensTransaction
  <2>2. \A v \in Workers : /\ InFlight(v)' => InFlight(v)
                           /\ v # w => pc'[v] = pc[v] /\ txn'[v] = txn[v]
                           /\ v = w /\ pc'[v] = "committing" =>
                                txn'[v].released = ReadyDependents(claim[v].job)
    <3>1. CASE FenceHolds(w)
      <4>1. /\ pc' = [pc EXCEPT ![w] = "committing"]
            /\ txn' = [txn EXCEPT ![w] = [released |-> ReadyDependents(claim[w].job), at |-> now]]
        BY <1>3, <3>1 DEF Settle, Goto
      <4> QED
        BY <2>1, <4>1 DEF TypeOK
    <3>2. CASE ~FenceHolds(w)
      BY <1>3, <3>2 DEF Settle, Goto, TypeOK
    <3> QED
      BY <3>1, <3>2
  <2>3. UNCHANGED <<columns, deps, batches, nextId, walk, claim, history>>
    BY <1>3 DEF Settle
  <2> QED
    BY <2>1, <2>2, <2>3
<1>4. ASSUME NEW w \in Workers, Fail(w) PROVE PlainStep
  <2>1. \A v \in Workers : /\ InFlight(v)' => InFlight(v)
                           /\ pc'[v] = "committing" => pc[v] = "committing"
    BY <1>4 DEF Fail, Goto, TypeOK
  <2>2. /\ UNCHANGED <<batchId, batches, deps, nextId, walk, claim, txn, everDone>>
        /\ UNCHANGED <<discarded, declared>>
    BY <1>4 DEF Fail
  <2>3. /\ everFailed \subseteq everFailed'
        /\ \A j \in Jobs : \/ status'[j] = status[j]
                           \/ status[j] = "running" /\ status'[j] = "ready"
                           \/ status[j] = "running" /\ status'[j] = "failed" /\ j \in everFailed'
    <3>1. CASE ~FenceHolds(w)
      BY <1>4, <3>1 DEF Fail
    <3>2. CASE FenceHolds(w)
      <4> DEFINE done == claim[w].attempts >= maxAttempts[claim[w].job] \/ pc[w] = "retiring"
      <4>1. /\ status' = [status EXCEPT ![claim[w].job] = IF done THEN "failed" ELSE "ready"]
            /\ everFailed' = IF done THEN everFailed \cup {claim[w].job} ELSE everFailed
        BY <1>4, <3>2 DEF Fail
      <4>2. status[claim[w].job] = "running"
        BY <3>2 DEF FenceHolds
      <4> HIDE DEF done
      <4> QED
        BY <4>1, <4>2 DEF TypeOK
    <3> QED
      BY <3>1, <3>2
  <2> QED
    BY <2>1, <2>2, <2>3
<1>5. ASSUME NEW w \in Workers, RetireStalled(w) \/ ReclaimStalled(w) PROVE PlainStep
  <2>1. UNCHANGED <<batchId, batches, deps, nextId, walk, workerVars, everDone, discarded, declared>>
    BY <1>5 DEF RetireStalled, ReclaimStalled
  <2>2. /\ everFailed \subseteq everFailed'
        /\ \A j \in Jobs : \/ status'[j] = status[j]
                           \/ status[j] = "running" /\ status'[j] = "ready"
                           \/ status[j] = "running" /\ status'[j] = "failed" /\ j \in everFailed'
    BY <1>5 DEF RetireStalled, ReclaimStalled, Stalled
  <2> QED
    BY <2>1, <2>2
<1>6. ASSUME NEW j \in Jobs, Retry(j) PROVE PlainStep
  BY <1>6 DEF Retry, Retriable, TypeOK
<1>7. CASE Tick \/ StepBack \/ UNCHANGED vars
  BY <1>7 DEF Tick, StepBack, vars
<1> QED
  BY <1>1, <1>2, <1>3, <1>4, <1>5, <1>6, <1>7 DEF Next, WorkerStep, SweepStep

(* A step changes the ids that edges, claims, batches and discard() name    *)
(* only with the rows it inserts.                                           *)
LEMMA IdsBornStep ==
  ASSUME BudgetInv, IdsBorn, [Next]_vars
  PROVE  IdsBorn'
<1> USE DEF BudgetInv, IdsBorn
<1>0. \A j \in Jobs : j \in Nat /\ (status[j] # "absent" => j < nextId)
  BY DEF Unborn, TypeOK, Jobs
<1>1. CASE PlainStep
  <2>1. ASSUME NEW v \in Workers, InFlight(v)' PROVE claim'[v].job < nextId
    BY <1>0, <1>1, <2>1 DEF PlainStep
  <2> QED
    BY <1>1, <2>1 DEF PlainStep
<1>2. CASE Enqueue
  <2>1. nextId' = nextId + 1 /\ nextId \in Nat
    BY <1>2 DEF Enqueue, TypeOK
  <2>2. UNCHANGED <<batchId, deps, walk, workerVars, history>>
    BY <1>2 DEF Enqueue
  <2>3. \A v \in Workers : InFlight(v) => claim[v].job \in Nat
    BY DEF TypeOK
  <2>4. /\ \A j \in Jobs : batchId[j] # NULL => batchId[j] \in Nat
        /\ \A e \in declared : e[1] \in Nat
        /\ \A d \in walk.dropped \cup walk.doomed : d \in Nat
    BY <1>0 DEF TypeOK, NatOrNull
  <2> QED
    BY <1>0, <2>1, <2>2, <2>3, <2>4 DEF workerVars, history, InFlight
<1>3. CASE EnqueueBatch
  <2> PICK steps \in BatchShapes, p \in Priorities, m \in AttemptLimits : InsertBatch(steps, p, m)
    BY <1>3 DEF EnqueueBatch
  <2>1. Len(steps) \in Nat \ {0} /\ nextId \in Nat /\ nextId' = nextId + Len(steps)
    BY InsertedBatch DEF InsertBatch, TypeOK
  <2>2. /\ UNCHANGED <<walk, workerVars>>
        /\ batchId' = [j \in Jobs |-> IF j \in NewJobs(steps) THEN nextId ELSE batchId[j]]
        /\ deps' = deps \cup NewEdges(steps) /\ declared' = declared \cup NewEdges(steps)
    BY DEF InsertBatch
  <2>3. /\ \A j \in Jobs : batchId[j] # NULL => batchId[j] \in Nat
        /\ \A e \in declared : e[1] \in Nat
        /\ \A d \in walk.dropped \cup walk.doomed : d \in Nat
        /\ \A v \in Workers : InFlight(v) => claim[v].job \in Nat
    BY <1>0 DEF TypeOK, NatOrNull
  <2>4. \A e \in NewEdges(steps) : e[1] < nextId'
    BY <2>1 DEF NewEdges, NewJobs
  <2>5. \A j \in Jobs : j >= nextId' => j \notin NewJobs(steps) /\ j >= nextId
    BY <1>0, <2>1 DEF NewJobs
  <2>6. \A j \in Jobs : batchId'[j] # NULL => batchId'[j] < nextId'
    BY <2>1, <2>2, <2>3
  <2>7. \A e \in declared' : e[1] < nextId'
    BY <2>1, <2>2, <2>3, <2>4
  <2>8. /\ \A d \in walk.dropped \cup walk.doomed : d < nextId'
        /\ \A v \in Workers : InFlight(v) => claim[v].job < nextId'
    BY <2>1, <2>3
  <2> QED
    BY <2>2, <2>5, <2>6, <2>7, <2>8 DEF workerVars, InFlight
<1>4. ASSUME NEW w \in Workers, Complete(w) \/ Commit(w) PROVE IdsBorn'
  <2>1. UNCHANGED <<nextId, claim>> /\ \A v \in Workers : InFlight(v)' => InFlight(v)
    BY <1>4, CompletionMoves
  <2>2. UNCHANGED <<batchId, deps, walk, declared>>
    BY <1>4 DEF Complete, Commit
  <2> QED
    BY <2>1, <2>2
<1>5. ASSUME NEW j \in Jobs, Discard(j) PROVE IdsBorn'
  BY <1>5 DEF Discard, InFlight, workerVars
<1>6. CASE DiscardTransaction
  <2>1. UNCHANGED <<batchId, nextId, pc, claim, declared>> /\ deps' \subseteq deps
    BY <1>6 DEF DiscardTransaction, DiscardRoot, DiscardNext, DiscardCommit, DiscardFaults,
                columns, workerVars, history
  <2>2. \A d \in walk'.dropped \cup walk'.doomed : d < nextId
    <3>1. \A i \in Jobs : \A d \in BlockedOn(i) : d < nextId
      BY <1>0 DEF BlockedOn
    <3>2. ASSUME NEW i \in Jobs, DiscardRoot(i) PROVE \A d \in walk'.dropped \cup walk'.doomed : d < nextId
      BY <1>0, <3>1, <3>2 DEF DiscardRoot
    <3>3. ASSUME NEW i \in Jobs, DiscardNext(i) PROVE \A d \in walk'.dropped \cup walk'.doomed : d < nextId
      BY <3>1, <3>3 DEF DiscardNext
    <3>4. CASE DiscardCommit \/ DiscardFaults
      BY <3>4 DEF DiscardCommit, DiscardFaults, NoWalk
    <3> QED
      BY <1>6, <3>2, <3>3, <3>4 DEF DiscardTransaction
  <2> QED
    BY <2>1, <2>2 DEF InFlight
<1>7. CASE Prune
  BY <1>7 DEF Prune, InFlight, workerVars, history
<1> QED
  BY <1>1, <1>2, <1>3, <1>4, <1>5, <1>6, <1>7, StepKinds

(* A batch row counts its members: fresh ids, a whole list of them at once. *)
LEMMA NewTotal ==
  ASSUME TypeOK, IdsBorn, NEW steps \in BatchShapes, NEW p, NEW m, InsertBatch(steps, p, m)
  PROVE  /\ {j \in Jobs : batchId'[j] = nextId} = NewJobs(steps)
         /\ Cardinality(NewJobs(steps)) = Len(steps)
         /\ \A b \in Jobs \ {nextId} : {j \in Jobs : batchId'[j] = b} = Members(b)
<1>1. Len(steps) \in Nat \ {0} /\ nextId \in Nat /\ NewJobs(steps) \subseteq Jobs
  BY InsertedBatch DEF InsertBatch, TypeOK
<1>2. batchId' = [j \in Jobs |-> IF j \in NewJobs(steps) THEN nextId ELSE batchId[j]]
  BY DEF InsertBatch
<1>3. \A j \in Jobs : batchId[j] # nextId
  <2> SUFFICES ASSUME NEW j \in Jobs, batchId[j] = nextId PROVE FALSE
    OBVIOUS
  <2>1. batchId[j] # NULL
    BY <1>1, NullAssumption
  <2> QED
    BY <1>1, <2>1 DEF IdsBorn
<1>4. \A j \in NewJobs(steps) : batchId[j] = NULL
  BY <1>1 DEF IdsBorn, NewJobs
<1>5. \A b \in Jobs : b # NULL
  BY NullAssumption DEF Jobs
<1>6. Cardinality(NewJobs(steps)) = Len(steps)
  <2>1. nextId \in Int /\ nextId + Len(steps) - 1 \in Int /\ ~(nextId > nextId + Len(steps) - 1)
    BY <1>1
  <2>2. Cardinality(nextId .. nextId + Len(steps) - 1) = (nextId + Len(steps) - 1) - nextId + 1
    BY <2>1, FS_Interval
  <2> QED
    BY <1>1, <2>2 DEF NewJobs
<1> QED
  BY <1>1, <1>2, <1>3, <1>4, <1>5, <1>6 DEF Members

(* Rows disappear settled or discarded, and batch rows keep their totals. *)
LEMMA FateStep == FateInv /\ [Next]_vars => FateInv'
<1> SUFFICES ASSUME FateInv, [Next]_vars PROVE SettledKnown' /\ NoJobLost' /\ TotalsExact'
  BY TypeStep, UnbornStep, IsolationStep, BudgetStep, IdsBornStep DEF FateInv, BudgetInv
<1> USE DEF FateInv, SettledKnown, NoJobLost, TotalsExact
<1>0. BudgetInv /\ IdsBorn /\ TypeOK /\ TransactionIsolation /\ Unborn
  BY DEF BudgetInv
<1>1. CASE PlainStep
  BY <1>1 DEF PlainStep, Members
<1>2. CASE Enqueue
  <2>1. /\ nextId \in Jobs /\ nextId' = nextId + 1 /\ nextId \in Nat
        /\ status' = [status EXCEPT ![nextId] = "ready"]
        /\ UNCHANGED <<batchId, batches, everDone, everFailed, discarded>>
    BY <1>0, <1>2 DEF Enqueue, history, TypeOK
  <2>2. \A j \in Jobs : j < nextId' => j < nextId \/ j = nextId
    BY <2>1 DEF Jobs
  <2> QED
    BY <1>0, <2>1, <2>2 DEF TypeOK, Members
<1>3. CASE EnqueueBatch
  <2> PICK steps \in BatchShapes, p \in Priorities, m \in AttemptLimits : InsertBatch(steps, p, m)
    BY <1>3 DEF EnqueueBatch
  <2>1. Len(steps) \in Nat \ {0} /\ nextId \in Nat /\ nextId' = nextId + Len(steps)
    BY <1>0, InsertedBatch DEF InsertBatch, TypeOK
  <2>2. \A j \in Jobs : j < nextId' => j < nextId \/ j \in NewJobs(steps)
    BY <2>1 DEF Jobs, NewJobs
  <2>3. /\ UNCHANGED <<everDone, everFailed, discarded>>
        /\ \A j \in Jobs : \/ j \notin NewJobs(steps) /\ status'[j] = status[j]
                           \/ j \in NewJobs(steps) /\ status'[j] \in {"ready", "blocked"}
    BY DEF InsertBatch
  <2>4. TotalsExact'
    <3>1. nextId \in Jobs /\ batches' = [batches EXCEPT ![nextId] = Len(steps)]
      BY <1>0, InsertedBatch DEF InsertBatch
    <3>2. /\ {j \in Jobs : batchId'[j] = nextId} = NewJobs(steps)
          /\ Cardinality(NewJobs(steps)) = Len(steps)
          /\ \A b \in Jobs \ {nextId} : {j \in Jobs : batchId'[j] = b} = Members(b)
      BY <1>0, NewTotal
    <3> QED
      BY <1>0, <3>1, <3>2 DEF TypeOK, Members
  <2> QED
    BY <2>2, <2>3, <2>4
<1>4. ASSUME NEW w \in Workers, Complete(w) \/ Commit(w)
      PROVE  SettledKnown' /\ NoJobLost' /\ TotalsExact'
  <2>1. /\ \A j \in Jobs : \/ status'[j] = status[j]
                           \/ status'[j] = "done" /\ j = claim[w].job /\ FenceHolds(w)
                           \/ status'[j] = "ready"
        /\ UNCHANGED nextId
    BY <1>0, <1>4, CompletionMoves
  <2>2. UNCHANGED <<batchId, batches, everFailed, discarded>> /\ everDone \subseteq everDone'
    BY <1>4 DEF Complete, Commit, MarkDone
  <2>3. FenceHolds(w) => claim[w].job \in everDone'
    BY <1>4 DEF Complete, Commit, MarkDone
  <2> QED
    BY <2>1, <2>2, <2>3 DEF Members
<1>5. ASSUME NEW j \in Jobs, Discard(j) PROVE SettledKnown' /\ NoJobLost' /\ TotalsExact'
  BY <1>5 DEF Discard, Members
<1>6. CASE DiscardTransaction
  <2>1. /\ UNCHANGED <<batchId, batches, nextId, everDone, everFailed>>
        /\ discarded \subseteq discarded'
        /\ \A j \in Jobs : status'[j] = status[j] \/ (status'[j] = "absent" /\ j \in discarded')
    BY <1>6 DEF DiscardTransaction, DiscardRoot, DiscardNext, DiscardCommit, DiscardFaults,
                columns, history
  <2> QED
    BY <2>1 DEF Members
<1>7. CASE Prune
  <2>1. /\ UNCHANGED <<batchId, nextId, everDone, everFailed, discarded>>
        /\ \A b \in Jobs : batches'[b] \in {batches[b], 0}
        /\ \A j \in Jobs : \/ status'[j] = status[j]
                           \/ status'[j] = "absent" /\ status[j] \in {"done", "failed"}
    BY <1>7 DEF Prune, Prunable, history
  <2> QED
    BY <2>1 DEF Members
<1> QED
  BY <1>0, <1>1, <1>2, <1>3, <1>4, <1>5, <1>6, <1>7, StepKinds

LEMMA BudgetInit == Init => BudgetInv
  BY TypeInit DEF Init, BudgetInv, Unborn, LimitsPositive, TransactionIsolation, Written,
                  AttemptBudget

LEMMA FateInit == Init => FateInv
<1> SUFFICES ASSUME Init PROVE FateInv
  OBVIOUS
<1>1. IdsBorn
  BY DEF Init, IdsBorn, InFlight, NoWalk
<1>2. SettledKnown /\ TotalsExact
  BY DEF Init, SettledKnown, TotalsExact
<1>3. NoJobLost
  BY DEF Init, NoJobLost, Jobs
<1> QED
  BY <1>1, <1>2, <1>3, BudgetInit DEF FateInv

LEMMA FateInvariant == Spec => []FateInv
  BY FateInit, FateStep, PTL DEF Spec

(* A row disappears only after its job was done, was dead-lettered or was   *)
(* discarded, on either dialect, whatever prune() and the cascades of       *)
(* discard() delete (queue.ts, prune and discard).                          *)
THEOREM NoJobIsLost == Spec => []NoJobLost
<1>1. FateInv => NoJobLost
  BY DEF FateInv
<1> QED
  BY <1>1, FateInvariant, PTL

(* batch() says "completed" only of a batch whose every job has been done:  *)
(* the total it compares with counts the rows discard() and prune() deleted *)
(* too (queue.ts, batch).                                                   *)
THEOREM CompletedIsTrue == Spec => []CompletedTruthful
<1>1. FateInv => CompletedTruthful
  <2> SUFFICES ASSUME FateInv, NEW b \in Jobs, batches[b] > 0, BatchState(b) = "completed",
                      NEW j \in Jobs, batchId[j] = b
               PROVE  j \in everDone
    BY DEF CompletedTruthful
  <2> DEFINE done == {i \in Jobs : batchId[i] = b /\ status[i] = "done"}
  <2>1. Cardinality(done) = Cardinality(Members(b))
    BY DEF BatchState, FateInv, TotalsExact
  <2>2. IsFiniteSet(Jobs)
    BY FS_Interval, BoundsAssumption DEF Jobs
  <2>3. IsFiniteSet(Members(b))
    BY <2>2, FS_Subset DEF Members
  <2>4. done \in SUBSET Members(b)
    BY DEF Members
  <2>5. done = Members(b)
    BY <2>1, <2>3, <2>4, FS_Subset
  <2> QED
    BY <2>5 DEF Members, FateInv, SettledKnown
<1> QED
  BY <1>1, FateInvariant, PTL

(* Whatever complete() releases waited for nothing but the job it           *)
(* completes.                                                               *)
LEMMA ReleaseInOrder ==
  ASSUME OrderInv, NEW j \in Jobs, NEW e \in declared, e[1] \in ReadyDependents(j)
  PROVE  e[2] \in everDone \cup {j}
<1>1. e[1] \in Jobs /\ e[2] \in Jobs /\ e = <<e[1], e[2]>>
  BY DEF OrderInv, FateInv, BudgetInv, TypeOK
<1>2. e \in deps \/ e[2] \in everDone
  BY DEF OrderInv, BlockedRemembers, ReadyDependents
<1>3. ASSUME e \in deps, e[2] # j PROVE e[2] \in everDone
  <2>1. status[e[2]] \in {"done", "absent"}
    BY <1>1, <1>3 DEF ReadyDependents
  <2>2. status[e[2]] # "absent"
    BY <1>3 DEF OrderInv, EdgesLive
  <2> QED
    BY <1>1, <2>1, <2>2 DEF OrderInv, FateInv, SettledKnown
<1> QED
  BY <1>2, <1>3

(* Deleting a row takes along every job still blocked on it. *)
LEMMA CascadeCloses ==
  ASSUME NEW j \in Jobs, TypeOK
  PROVE  \A e \in deps : e[2] \in Cascade(j) /\ status[e[1]] = "blocked" => e[1] \in Cascade(j)
<1> SUFFICES ASSUME NEW e \in deps, e[2] \in Cascade(j), status[e[1]] = "blocked",
                    NEW S \in SUBSET Jobs, j \in S,
                    \A f \in deps : f[2] \in S /\ status[f[1]] = "blocked" => f[1] \in S
             PROVE  e[1] \in S
  BY DEF Cascade, TypeOK
<1> QED
  BY DEF Cascade

LEMMA OrderInsert ==
  ASSUME OrderInv, Enqueue \/ EnqueueBatch, FateInv'
  PROVE  OrderInv'
<1> USE DEF OrderInv, FateInv, BudgetInv
<1>0. /\ nextId \in Nat
      /\ \A e \in declared : e[1] \in Jobs /\ e[2] \in Jobs /\ e[1] < nextId
      /\ \A w \in Workers : InFlight(w) => claim[w].job \in Jobs /\ claim[w].job < nextId
      /\ deps \subseteq declared
  BY DEF TypeOK, IdsBorn
<1>1. CASE Enqueue
  <2>1. /\ status' = [status EXCEPT ![nextId] = "ready"]
        /\ UNCHANGED <<deps, walk, workerVars, history>>
    BY <1>1 DEF Enqueue
  <2>2. \A e \in declared : status'[e[1]] = status[e[1]]
    BY <1>0, <2>1 DEF TypeOK
  <2>3. \A j \in Jobs : status[j] # "absent" => status'[j] # "absent"
    BY <2>1 DEF TypeOK
  <2>4. StartedInOrder' /\ BlockedRemembers' /\ EdgesLive' /\ WalkCloses'
    BY <1>0, <2>1, <2>2, <2>3 DEF StartedInOrder, BlockedRemembers, EdgesLive, WalkCloses, history
  <2>5. ReleasesInOrder' /\ OrderedBatch'
    BY <2>1 DEF ReleasesInOrder, OrderedBatch, InFlight, workerVars, history
  <2> QED
    BY <2>4, <2>5
<1>2. CASE EnqueueBatch
  <2> PICK steps \in BatchShapes, p \in Priorities, m \in AttemptLimits : InsertBatch(steps, p, m)
    BY <1>2 DEF EnqueueBatch
  <2>1. /\ deps' = deps \cup NewEdges(steps) /\ declared' = declared \cup NewEdges(steps)
        /\ UNCHANGED <<walk, pc, claim, txn, everDone>>
        /\ NewJobs(steps) \subseteq Jobs
        /\ \A j \in Jobs : /\ j \notin NewJobs(steps) => status'[j] = status[j]
                           /\ j \in NewJobs(steps) => status'[j] \in {"ready", "blocked"}
    BY DEF InsertBatch, workerVars
  <2>2. \A j \in NewJobs(steps) : j >= nextId /\ status[j] = "absent"
    BY <1>0, <2>1 DEF NewJobs, Unborn
  <2>3. \A e \in NewEdges(steps) :
          e[1] \in NewJobs(steps) /\ e[2] \in NewJobs(steps) /\ status'[e[1]] = "blocked"
    <3> SUFFICES ASSUME NEW e \in NewEdges(steps)
                 PROVE  e[1] \in NewJobs(steps) /\ e[2] \in NewJobs(steps)
                        /\ status'[e[1]] = "blocked"
      OBVIOUS
    <3>1. /\ e[1] \in NewJobs(steps) /\ e[2] \in NewJobs(steps)
          /\ e[2] - nextId + 1 \in steps[e[1] - nextId + 1]
      BY DEF NewEdges
    <3> QED
      BY <2>1, <3>1 DEF InsertBatch
  <2>4. \A e \in declared : e[1] \notin NewJobs(steps) /\ status'[e[1]] = status[e[1]]
    BY <1>0, <2>1, <2>2 DEF Jobs
  <2>5. \A j \in Jobs : status[j] # "absent" => status'[j] # "absent"
    BY <2>1
  <2>6. StartedInOrder' /\ BlockedRemembers'
    BY <2>1, <2>3, <2>4 DEF StartedInOrder, BlockedRemembers
  <2>7. EdgesLive'
    <3>1. \A e \in deps : status'[e[1]] # "absent" /\ status'[e[2]] # "absent"
      BY <1>0, <2>5 DEF EdgesLive
    <3>2. \A e \in NewEdges(steps) : status'[e[1]] # "absent" /\ status'[e[2]] # "absent"
      BY <2>1, <2>3
    <3> QED
      BY <2>1, <3>1, <3>2 DEF EdgesLive
  <2>8. WalkCloses'
    <3>1. \A e \in NewEdges(steps) : e[2] \notin walk.dropped
      <4> SUFFICES ASSUME NEW e \in NewEdges(steps), e[2] \in walk.dropped PROVE FALSE
        OBVIOUS
      <4>1. e[2] < nextId /\ e[2] >= nextId /\ e[2] \in Nat
        BY <2>1, <2>2, <2>3 DEF IdsBorn, Jobs
      <4> QED
        BY <1>0, <4>1
    <3> QED
      BY <1>0, <2>1, <2>4, <3>1 DEF WalkCloses
  <2>9. ReleasesInOrder'
    <3>1. ASSUME NEW w \in Workers, pc[w] = "committing", NEW e \in NewEdges(steps)
          PROVE  e[1] \notin txn[w].released
      <4>1. \A d \in txn[w].released : status[d] = "blocked"
        BY <3>1 DEF TransactionIsolation
      <4> QED
        BY <2>2, <2>3, <4>1
    <3> QED
      BY <2>1, <3>1 DEF ReleasesInOrder
  <2>10. OrderedBatch'
    <3>1. ASSUME NEW w \in Workers, InFlight(w), NEW e \in NewEdges(steps)
          PROVE  e[1] # claim[w].job
      BY <1>0, <2>2, <2>3, <3>1 DEF Jobs
    <3> QED
      BY <2>1, <3>1 DEF OrderedBatch, InFlight
  <2> QED
    BY <2>6, <2>7, <2>8, <2>9, <2>10
<1> QED
  BY <1>1, <1>2

LEMMA OrderComplete ==
  ASSUME OrderInv, NEW w \in Workers, Complete(w) \/ Commit(w), FateInv'
  PROVE  OrderInv'
<1> USE DEF OrderInv, FateInv, BudgetInv
<1>0. /\ \A e \in declared : e[1] \in Jobs /\ e[2] \in Jobs
      /\ deps \subseteq declared
  BY DEF TypeOK, IdsBorn
<1>1. UNCHANGED <<deps, walk, claim, declared>>
  BY DEF Complete, Commit
<1>2. \A v \in Workers : /\ InFlight(v)' => InFlight(v)
                         /\ pc'[v] = "committing" => pc[v] = "committing" /\ txn'[v] = txn[v]
  BY DEF Complete, Commit, Goto, InFlight, TypeOK
<1>3. CASE status' = status /\ everDone' = everDone
  <2>1. StartedInOrder' /\ BlockedRemembers' /\ EdgesLive' /\ WalkCloses'
    BY <1>1, <1>3 DEF StartedInOrder, BlockedRemembers, EdgesLive, WalkCloses
  <2>2. ReleasesInOrder' /\ OrderedBatch'
    BY <1>1, <1>2, <1>3 DEF ReleasesInOrder, OrderedBatch
  <2> QED
    BY <2>1, <2>2
<1>4. ASSUME NEW released, NEW at, MarkDone(claim[w].job, released, at), FenceHolds(w),
             \A d \in released : status[d] = "blocked",
             \A e \in declared : e[1] \in released => e[2] \in everDone \cup {claim[w].job}
      PROVE  OrderInv'
  <2>1. /\ everDone' = everDone \cup {claim[w].job}
        /\ \A j \in Jobs : \/ status'[j] = status[j]
                           \/ status[j] = "running" /\ status'[j] = "done"
                           \/ j \in released /\ status[j] = "blocked" /\ status'[j] = "ready"
    BY <1>4 DEF MarkDone, FenceHolds, TypeOK
  <2>2. StartedInOrder'
    BY <1>0, <1>1, <1>4, <2>1 DEF StartedInOrder
  <2>3. BlockedRemembers' /\ EdgesLive' /\ WalkCloses'
    BY <1>0, <1>1, <2>1 DEF BlockedRemembers, EdgesLive, WalkCloses
  <2>4. ReleasesInOrder' /\ OrderedBatch'
    BY <1>1, <1>2, <2>1 DEF ReleasesInOrder, OrderedBatch
  <2> QED
    BY <2>2, <2>3, <2>4
<1>5. CASE Complete(w)
  <2>1. CASE FenceHolds(w)
    <3>1. MarkDone(claim[w].job, ReadyDependents(claim[w].job), now)
      BY <1>5, <2>1 DEF Complete
    <3>2. claim[w].job \in Jobs
      BY <1>5 DEF Complete, TypeOK, InFlight
    <3>3. \A d \in ReadyDependents(claim[w].job) : status[d] = "blocked"
      BY DEF ReadyDependents
    <3>4. \A e \in declared :
            e[1] \in ReadyDependents(claim[w].job) => e[2] \in everDone \cup {claim[w].job}
      BY <3>2, ReleaseInOrder
    <3> QED
      BY <1>4, <2>1, <3>1, <3>3, <3>4
  <2>2. CASE ~FenceHolds(w)
    BY <1>3, <1>5, <2>2 DEF Complete
  <2> QED
    BY <2>1, <2>2
<1>6. CASE Commit(w)
  <2>1. pc[w] = "committing" /\ MarkDone(claim[w].job, txn[w].released, txn[w].at)
    BY <1>6 DEF Commit, Goto
  <2>2. FenceHolds(w) /\ \A d \in txn[w].released : status[d] = "blocked"
    BY <2>1 DEF TransactionIsolation
  <2>3. \A e \in declared : e[1] \in txn[w].released => e[2] \in everDone \cup {claim[w].job}
    BY <2>1 DEF ReleasesInOrder
  <2> QED
    BY <1>4, <2>1, <2>2, <2>3
<1> QED
  BY <1>5, <1>6

(* The rows an operator deletes, in one step or by a transaction, leave no  *)
(* blocked job behind that has lost an edge.                                *)
LEMMA OrderDelete ==
  ASSUME OrderInv, (\E j \in Jobs : Discard(j)) \/ DiscardTransaction, FateInv'
  PROVE  OrderInv'
<1> USE DEF OrderInv, FateInv, BudgetInv
<1>0. /\ \A e \in declared : e[1] \in Jobs /\ e[2] \in Jobs /\ e = <<e[1], e[2]>>
      /\ deps \subseteq declared
      /\ \A e \in deps : e[2] # e[1]
  <2>1. \A e \in deps : e[1] \in Nat /\ e[2] < e[1]
    BY DEF TypeOK, Jobs
  <2> QED
    BY <2>1 DEF TypeOK, IdsBorn
<1>1. UNCHANGED <<everDone, declared, pc, claim, txn>>
  BY DEF Discard, DiscardTransaction, DiscardRoot, DiscardNext, DiscardCommit, DiscardFaults,
         columns, workerVars, history
<1>2. ReleasesInOrder' /\ OrderedBatch'
  BY <1>1 DEF ReleasesInOrder, OrderedBatch, InFlight
<1>3. ASSUME NEW gone, \A e \in deps : e[2] \in gone /\ status[e[1]] = "blocked" => e[1] \in gone,
             status' = [i \in Jobs |-> IF i \in gone THEN "absent" ELSE status[i]],
             deps' = {e \in deps : e[1] \notin gone /\ e[2] \notin gone}
      PROVE  StartedInOrder' /\ BlockedRemembers' /\ EdgesLive'
  <2>1. StartedInOrder' /\ EdgesLive'
    BY <1>0, <1>1, <1>3 DEF StartedInOrder, EdgesLive
  <2>2. BlockedRemembers'
    BY <1>0, <1>1, <1>3 DEF BlockedRemembers
  <2> QED
    BY <2>1, <2>2
<1>4. ASSUME NEW j \in Jobs, Discard(j) PROVE OrderInv'
  <2>1. StartedInOrder' /\ BlockedRemembers' /\ EdgesLive'
    BY <1>3, <1>4, CascadeCloses DEF Discard
  <2>2. WalkCloses'
    BY <1>0, <1>4 DEF Discard, WalkCloses
  <2> QED
    BY <1>2, <2>1, <2>2
<1>5. CASE DiscardCommit
  <2>1. StartedInOrder' /\ BlockedRemembers' /\ EdgesLive'
    <3>1. \A e \in deps : e[2] \in walk.dropped /\ status[e[1]] = "blocked" => e[1] \in walk.dropped
      BY <1>5 DEF DiscardCommit, WalkCloses
    <3> QED
      BY <1>3, <1>5, <3>1 DEF DiscardCommit
  <2>2. WalkCloses'
    BY <1>5 DEF DiscardCommit, WalkCloses, NoWalk
  <2> QED
    BY <1>2, <2>1, <2>2
<1>6. CASE DiscardFaults
  BY <1>2, <1>6 DEF DiscardFaults, NoWalk, columns, history, StartedInOrder, BlockedRemembers,
                    EdgesLive, WalkCloses
<1>7. ASSUME NEW j \in Jobs, DiscardRoot(j) \/ DiscardNext(j) PROVE OrderInv'
  <2>1. UNCHANGED <<status, deps>>
    BY <1>7 DEF DiscardRoot, DiscardNext, columns
  <2>2. StartedInOrder' /\ BlockedRemembers' /\ EdgesLive'
    BY <1>1, <2>1 DEF StartedInOrder, BlockedRemembers, EdgesLive
  <2>3. \A e \in deps : e[2] = j /\ status[e[1]] = "blocked" =>
                          e[1] \in walk.dropped \/ e[1] \in BlockedOn(j) \ {j}
    BY <1>0 DEF BlockedOn
  <2>4. WalkCloses'
    <3>1. CASE DiscardRoot(j)
      <4>1. walk = NoWalk /\ walk' = [dropped |-> {j}, doomed |-> BlockedOn(j) \ {j}]
        BY <3>1 DEF DiscardRoot
      <4>2. walk.dropped = {} /\ walk'.dropped = {j} /\ walk'.doomed = BlockedOn(j) \ {j}
        BY <4>1 DEF NoWalk
      <4> QED
        BY <2>1, <2>3, <4>2 DEF WalkCloses
    <3>2. CASE DiscardNext(j)
      <4>1. /\ walk'.dropped = walk.dropped \cup {j}
            /\ walk'.doomed = (walk.doomed \cup BlockedOn(j)) \ {j}
        BY <3>2 DEF DiscardNext
      <4> QED
        BY <2>1, <2>3, <4>1 DEF WalkCloses
    <3> QED
      BY <1>7, <3>1, <3>2
  <2> QED
    BY <1>2, <2>2, <2>4
<1> QED
  BY <1>4, <1>5, <1>6, <1>7 DEF DiscardTransaction

LEMMA OrderStep ==
  ASSUME "prune" \notin OperatorVerbs, OrderInv, [Next]_vars
  PROVE  OrderInv'
<1>1. FateInv'
  BY FateStep DEF OrderInv
<1>2. CASE PlainStep
  <2> USE DEF OrderInv, FateInv, BudgetInv, PlainStep
  <2>1. /\ \A e \in declared : e[1] \in Jobs /\ e[2] \in Jobs
        /\ deps \subseteq declared
    BY DEF TypeOK, IdsBorn
  <2>2. StartedInOrder' /\ BlockedRemembers' /\ EdgesLive' /\ WalkCloses'
    BY <1>2, <2>1 DEF StartedInOrder, BlockedRemembers, EdgesLive, WalkCloses
  <2>3. OrderedBatch'
    BY <1>2, <2>1 DEF StartedInOrder, OrderedBatch
  <2>4. ReleasesInOrder'
    <3> SUFFICES ASSUME NEW v \in Workers, pc'[v] = "committing", NEW e \in declared,
                        e[1] \in txn'[v].released
                 PROVE  e[2] \in everDone \cup {claim'[v].job}
      BY <1>2 DEF ReleasesInOrder
    <3>1. CASE pc[v] = "committing" /\ claim'[v] = claim[v] /\ txn'[v] = txn[v]
      BY <3>1 DEF ReleasesInOrder
    <3>2. CASE /\ InFlight(v) /\ claim'[v] = claim[v]
               /\ txn'[v].released = ReadyDependents(claim[v].job)
      <4>1. claim[v].job \in Jobs
        BY <3>2 DEF TypeOK
      <4> QED
        BY <3>2, <4>1, ReleaseInOrder
    <3> QED
      BY <1>2, <3>1, <3>2
  <2> QED
    BY <1>1, <2>2, <2>3, <2>4
<1>3. ~Prune
  BY DEF Prune
<1>4. BudgetInv
  BY DEF OrderInv, FateInv
<1> QED
  BY <1>1, <1>2, <1>3, <1>4, StepKinds, OrderInsert, OrderComplete, OrderDelete

LEMMA OrderInit == Init => OrderInv
<1> SUFFICES ASSUME Init PROVE OrderInv
  OBVIOUS
<1>1. FateInv
  BY FateInit
<1> QED
  BY <1>1 DEF Init, OrderInv, StartedInOrder, BlockedRemembers, EdgesLive, ReleasesInOrder,
              WalkCloses, OrderedBatch, InFlight

(* A step of a batch is processed only once every prerequisite it was       *)
(* enqueued with has been done, on either dialect, whatever is retried and  *)
(* discarded.  prune() must stay out: it deletes the edge to a failed       *)
(* prerequisite (queue.ts, releaseReadyDependents and discard).             *)
THEOREM BatchIsOrdered == "prune" \notin OperatorVerbs /\ Spec => []OrderedBatch
<1> SUFFICES ASSUME "prune" \notin OperatorVerbs PROVE Spec => []OrderedBatch
  OBVIOUS
<1>1. OrderInv => OrderedBatch
  BY DEF OrderInv
<1>2. OrderInv /\ [Next]_vars => OrderInv'
  BY OrderStep
<1> QED
  BY <1>1, <1>2, OrderInit, PTL DEF Spec

(* What a blocked job waits for changes only with the completion that       *)
(* releases it.                                                             *)
LEMMA StrandedStep ==
  ASSUME Dialect = "sqlite", "prune" \notin OperatorVerbs,
         FateInv, NoOpenTransaction, NoStranded, [Next]_vars
  PROVE  NoOpenTransaction' /\ NoStranded'
<1> USE DEF FateInv, BudgetInv
<1>0. /\ \A e \in deps : e[1] \in Jobs /\ e[2] \in Jobs /\ e = <<e[1], e[2]>>
      /\ \A d, p \in Jobs : <<d, p>> \in deps => d < nextId
      /\ nextId \in Nat
  BY DEF TypeOK, IdsBorn
<1>1. CASE PlainStep
  BY <1>1 DEF PlainStep, NoOpenTransaction, NoStranded
<1>2. CASE Enqueue
  <2>1. /\ status' = [status EXCEPT ![nextId] = "ready"] /\ UNCHANGED <<deps, walk, pc>>
    BY <1>2 DEF Enqueue, workerVars
  <2> QED
    BY <2>1 DEF NoOpenTransaction, NoStranded, TypeOK
<1>3. CASE EnqueueBatch
  <2> PICK steps \in BatchShapes, p \in Priorities, m \in AttemptLimits : InsertBatch(steps, p, m)
    BY <1>3 DEF EnqueueBatch
  <2>1. /\ deps' = deps \cup NewEdges(steps)
        /\ UNCHANGED <<walk, pc>>
        /\ NewJobs(steps) \subseteq Jobs /\ BackwardEdgesOnly(steps)
        /\ status' = [j \in Jobs |-> IF j \notin NewJobs(steps) THEN status[j]
                                     ELSE IF steps[j - nextId + 1] = {} THEN "ready" ELSE "blocked"]
    BY DEF InsertBatch, workerVars
  <2>2. ASSUME NEW j \in NewJobs(steps), status'[j] = "blocked"
        PROVE  \E q \in Jobs : <<j, q>> \in deps' /\ status'[q] # "done"
    <3>1. steps \in Seq(SUBSET (Nat \ {0})) /\ Len(steps) \in Nat /\ DOMAIN steps = 1 .. Len(steps)
      BY OptionsAssumption
    <3>2. j \in Nat /\ j - nextId + 1 \in DOMAIN steps
      BY <1>0, <2>1, <3>1 DEF NewJobs
    <3>3. PICK d \in steps[j - nextId + 1] : TRUE
      BY <2>1, <2>2
    <3>4. d \in Nat \ {0} /\ d < j - nextId + 1
      BY <2>1, <3>1, <3>2, <3>3 DEF BackwardEdgesOnly
    <3>5. nextId + d - 1 \in NewJobs(steps) /\ (nextId + d - 1) - nextId + 1 = d
      BY <1>0, <3>1, <3>2, <3>4 DEF NewJobs
    <3>6. <<j, nextId + d - 1>> \in NewEdges(steps)
      BY <3>3, <3>5 DEF NewEdges
    <3>7. status'[nextId + d - 1] # "done"
      BY <2>1, <3>5
    <3> QED
      BY <2>1, <3>5, <3>6, <3>7
  <2>3. ASSUME NEW j \in Jobs \ NewJobs(steps), status'[j] = "blocked"
        PROVE  \E q \in Jobs : <<j, q>> \in deps' /\ status'[q] # "done"
    BY <2>1, <2>3 DEF NoStranded
  <2> QED
    BY <2>1, <2>2, <2>3 DEF NoOpenTransaction, NoStranded
<1>4. ASSUME NEW w \in Workers, Complete(w) PROVE NoOpenTransaction' /\ NoStranded'
  <2>1. UNCHANGED <<deps, walk>> /\ \A v \in Workers : pc'[v] # "committing"
    BY <1>4 DEF Complete, Goto, NoOpenTransaction, TypeOK
  <2>2. CASE ~FenceHolds(w)
    BY <1>4, <2>1, <2>2 DEF Complete, NoOpenTransaction, NoStranded
  <2>3. CASE FenceHolds(w)
    <3> DEFINE j == claim[w].job
    <3>1. status' = [i \in Jobs |-> IF i = j THEN "done"
                                    ELSE IF i \in ReadyDependents(j) THEN "ready" ELSE status[i]]
      BY <1>4, <2>3 DEF Complete, MarkDone
    <3>2. j \in Jobs
      BY <1>4 DEF Complete, TypeOK, InFlight
    <3> HIDE DEF j
    <3>3. ASSUME NEW d \in Jobs, status'[d] = "blocked"
          PROVE  \E p \in Jobs : <<d, p>> \in deps /\ status'[p] # "done"
      <4>1. d # j /\ d \notin ReadyDependents(j) /\ status[d] = "blocked"
        BY <3>1, <3>3
      <4>2. PICK p \in Jobs : <<d, p>> \in deps /\ status[p] # "done"
        BY <4>1 DEF NoStranded
      <4>3. CASE p # j
        BY <3>1, <4>2, <4>3
      <4>4. CASE p = j
        <5>1. PICK q \in Jobs \ {j} : <<d, q>> \in deps /\ status[q] \notin {"done", "absent"}
          BY <4>1, <4>2, <4>4 DEF ReadyDependents
        <5> QED
          BY <3>1, <5>1
      <4> QED
        BY <4>3, <4>4
    <3> QED
      BY <2>1, <3>3 DEF NoOpenTransaction, NoStranded
  <2> QED
    BY <2>2, <2>3
<1>5. ASSUME NEW j \in Jobs, Discard(j) PROVE NoOpenTransaction' /\ NoStranded'
  <2>1. /\ UNCHANGED <<walk, pc>>
        /\ status' = [i \in Jobs |-> IF i \in Cascade(j) THEN "absent" ELSE status[i]]
        /\ deps' = {e \in deps : e[1] \notin Cascade(j) /\ e[2] \notin Cascade(j)}
    BY <1>5 DEF Discard, workerVars
  <2>2. ASSUME NEW d \in Jobs, status'[d] = "blocked"
        PROVE  \E p \in Jobs : <<d, p>> \in deps' /\ status'[p] # "done"
    <3>1. d \notin Cascade(j) /\ status[d] = "blocked"
      BY <2>1, <2>2
    <3>2. PICK p \in Jobs : <<d, p>> \in deps /\ status[p] # "done"
      BY <3>1 DEF NoStranded
    <3>3. p \notin Cascade(j)
      BY <3>1, <3>2, CascadeCloses
    <3> QED
      BY <2>1, <3>1, <3>2, <3>3
  <2> QED
    BY <2>1, <2>2 DEF NoOpenTransaction, NoStranded
<1>6. /\ \A w \in Workers : ~Commit(w)
      /\ ~Prune
      /\ ~DiscardTransaction
  <2>1. \A w \in Workers : ~Commit(w)
    BY DEF Commit, Goto, NoOpenTransaction
  <2>2. ~DiscardTransaction
    BY DEF DiscardTransaction, DiscardRoot, DiscardNext, DiscardCommit, DiscardFaults, NoWalk,
           NoOpenTransaction
  <2> QED
    BY <2>1, <2>2 DEF Prune
<1> QED
  BY <1>1, <1>2, <1>3, <1>4, <1>5, <1>6, StepKinds

(* On SQLite, where a completion and a discard are one step, a blocked job  *)
(* always waits for a prerequisite that is not done, however completions,   *)
(* retries and discards follow each other; again without prune() (queue.ts, *)
(* releaseReadyDependents).                                                 *)
THEOREM NothingStaysStranded ==
  Dialect = "sqlite" /\ "prune" \notin OperatorVerbs /\ Spec => []NoStranded
<1> SUFFICES ASSUME Dialect = "sqlite", "prune" \notin OperatorVerbs PROVE Spec => []NoStranded
  OBVIOUS
<1>1. Init => NoOpenTransaction /\ NoStranded
  BY DEF Init, NoOpenTransaction, NoStranded
<1>2. FateInv /\ NoOpenTransaction /\ NoStranded /\ [Next]_vars => NoOpenTransaction' /\ NoStranded'
  BY StrandedStep
<1> QED
  BY <1>1, <1>2, FateInvariant, PTL DEF Spec

-----------------------------------------------------------------------------
(* JobQueue implements JobLease: the initial states correspond, and every     *)
(* step of the queue is a step of the contract or leaves its view alone.      *)

(* What a step may use: the invariants of the queue, and that no discard()  *)
(* is spread over several steps.                                            *)
ContractInv == BudgetInv /\ FenceSound /\ walk = NoWalk

(* On SQLite, or if nobody discards, there is no open discard().            *)
LEMMA NoOpenDiscard ==
  (Dialect = "sqlite" \/ "discard" \notin OperatorVerbs) => (Spec => [](walk = NoWalk))
<1> SUFFICES ASSUME Dialect = "sqlite" \/ "discard" \notin OperatorVerbs
             PROVE  Spec => [](walk = NoWalk)
  OBVIOUS
<1>1. Init => walk = NoWalk
  BY DEF Init
<1>2. walk = NoWalk /\ [Next]_vars => (walk = NoWalk)'
  <2>1. NoWalk.doomed = {} /\ NoWalk' = NoWalk
    BY DEF NoWalk
  <2>2. walk = NoWalk => ~DiscardTransaction
    BY <2>1 DEF DiscardTransaction, DiscardRoot, DiscardNext, DiscardCommit, DiscardFaults
  <2> QED
    BY <2>1, <2>2, WalkAlone
<1> QED
  BY <1>1, <1>2, PTL DEF Spec

(* How the view of a row follows its status while no id is handed out. *)
LEMMA RowView ==
  ASSUME TypeOK, TypeOK', Unborn, nextId' = nextId
  PROVE  /\ RowState \in [Jobs -> Lease!States]
         /\ RowState' \in [Jobs -> Lease!States]
         /\ \A j \in Jobs :
              /\ status[j] # "absent" => RowState[j] = status[j]
              /\ status'[j] # "absent" => RowState'[j] = status'[j]
              /\ status'[j] = status[j] => RowState'[j] = RowState[j]
              /\ status[j] # "absent" /\ status'[j] = "absent" => RowState'[j] = "gone"
<1>1. \A j \in Jobs : /\ status[j] \in Statuses
                      /\ status'[j] \in Statuses
                      /\ status[j] # "absent" => j < nextId
  <2>1. \A j \in Jobs : j \in Int
    BY BoundsAssumption DEF Jobs
  <2>2. nextId \in Int
    BY DEF TypeOK
  <2>3. \A j \in Jobs : status[j] \in Statuses /\ status'[j] \in Statuses
    BY DEF TypeOK
  <2> QED
    BY <2>1, <2>2, <2>3 DEF Unborn
<1>2. \A j \in Jobs :
        /\ RowState[j] = IF status[j] # "absent" THEN status[j]
                         ELSE IF j < nextId THEN "gone" ELSE "unborn"
        /\ RowState'[j] = IF status'[j] # "absent" THEN status'[j]
                          ELSE IF j < nextId THEN "gone" ELSE "unborn"
  BY DEF RowState
<1>3. RowState \in [Jobs -> Lease!States]
  BY <1>1 DEF RowState, Lease!States, Statuses
<1>4. RowState' \in [Jobs -> Lease!States]
  BY <1>1 DEF RowState, Lease!States, Statuses
<1> QED
  BY <1>1, <1>2, <1>3, <1>4

(* A step that leaves rows and ids alone leaves the view of the rows alone. *)
LEMMA SameRows == ASSUME UNCHANGED <<status, nextId>> PROVE RowState' = RowState
BY DEF RowState

(* Claims stay and the same workers hold them. *)
LEMMA SameHeld ==
  ASSUME UNCHANGED claim, \A v \in Workers : InFlight(v)' <=> InFlight(v)
  PROVE  Held' = Held
BY DEF Held

(* One worker lets go of its claim. *)
LEMMA OneLetsGo ==
  ASSUME UNCHANGED claim, NEW w \in Workers, ~InFlight(w)',
         \A v \in Workers \ {w} : InFlight(v)' <=> InFlight(v)
  PROVE  Held' = [Held EXCEPT ![w] = {}]
BY DEF Held

(* A worker that goes from one phase to another keeps its claim or, if the  *)
(* new phase is idle, lets go of it.                                        *)
LEMMA PhaseMoves ==
  ASSUME TypeOK, NEW w \in Workers, InFlight(w), UNCHANGED claim, NEW next \in Phases,
         pc' = [pc EXCEPT ![w] = next]
  PROVE  IF next = "idle" THEN Held' = [Held EXCEPT ![w] = {}] ELSE Held' = Held
<1>1. \A v \in Workers \ {w} : InFlight(v)' <=> InFlight(v)
  BY DEF TypeOK, InFlight
<1>2. InFlight(w)' <=> next # "idle"
  BY DEF TypeOK, InFlight
<1> QED
  BY <1>1, <1>2, SameHeld, OneLetsGo

(* enqueue() and enqueueBatch() insert jobs that were unborn. *)
LEMMA InsertImplements ==
  ASSUME TypeOK, TypeOK', Unborn, Enqueue \/ EnqueueBatch
  PROVE  Lease!Insert
<1>1. \A j \in Jobs : j \in Int
  BY BoundsAssumption DEF Jobs
<1>2. nextId \in Nat
  BY DEF TypeOK
<1>3. UNCHANGED gen /\ Held' = Held
  BY SameHeld DEF Enqueue, EnqueueBatch, InsertBatch, workerVars, history, InFlight
<1>4. RowState' \in [Jobs -> Lease!States]
  <2>1. \A j \in Jobs : status'[j] \in Statuses
    BY DEF TypeOK
  <2> QED
    BY <2>1 DEF RowState, Lease!States, Statuses
<1>5. ASSUME NEW j \in Jobs, RowState'[j] # RowState[j]
      PROVE  RowState[j] = "unborn" /\ RowState'[j] \in {"ready", "blocked"}
  <2>1. /\ RowState[j] = IF status[j] # "absent" THEN status[j]
                         ELSE IF j < nextId THEN "gone" ELSE "unborn"
        /\ RowState'[j] = IF status'[j] # "absent" THEN status'[j]
                          ELSE IF j < nextId' THEN "gone" ELSE "unborn"
    BY DEF RowState
  <2>2. CASE Enqueue
    <3>1. nextId' = nextId + 1 /\ status' = [status EXCEPT ![nextId] = "ready"]
      BY <2>2 DEF Enqueue
    <3>2. CASE j = nextId
      BY <1>2, <2>1, <3>1, <3>2 DEF Unborn, TypeOK
    <3>3. CASE j # nextId
      <4>1. status'[j] = status[j]
        BY <3>1, <3>3 DEF TypeOK
      <4>2. j < nextId <=> j < nextId'
        BY <1>1, <1>2, <3>1, <3>3
      <4> QED
        BY <1>5, <2>1, <4>1, <4>2
    <3> QED
      BY <3>2, <3>3
  <2>3. CASE EnqueueBatch
    <3> PICK steps \in BatchShapes, p \in Priorities, m \in AttemptLimits : InsertBatch(steps, p, m)
      BY <2>3 DEF EnqueueBatch
    <3>1. Len(steps) \in Nat \ {0}
      BY InsertedBatch DEF InsertBatch
    <3>2. nextId' = nextId + Len(steps)
      BY DEF InsertBatch
    <3>3. CASE j \in NewJobs(steps)
      <4>1. j >= nextId
        BY <1>1, <1>2, <3>1, <3>3 DEF NewJobs
      <4>2. status'[j] \in {"ready", "blocked"}
        BY <3>3 DEF InsertBatch
      <4> QED
        BY <1>1, <1>2, <2>1, <4>1, <4>2 DEF Unborn
    <3>4. CASE j \notin NewJobs(steps)
      <4>1. j < nextId <=> j < nextId'
        BY <1>1, <1>2, <3>1, <3>2, <3>4 DEF NewJobs
      <4>2. status'[j] = status[j]
        BY <3>4 DEF InsertBatch
      <4> QED
        BY <1>5, <2>1, <4>1, <4>2
    <3> QED
      BY <3>3, <3>4
  <2> QED
    BY <2>2, <2>3
<1> QED
  BY <1>3, <1>4, <1>5 DEF Lease!Insert, Lease!Becomes

(* A claim takes the next lease of a ready job. *)
LEMMA ClaimImplements ==
  ASSUME TypeOK, TypeOK', Unborn, NEW w \in Workers, Claim(w)
  PROVE  Lease!Take(w)
<1> PICK j \in Jobs, v \in Visibilities :
       /\ status[j] = "ready"
       /\ status' = [status EXCEPT ![j] = "running"]
       /\ gen' = [gen EXCEPT ![j] = @ + 1]
       /\ claim' = [claim EXCEPT ![w] = [job |-> j, attempts |-> attempts[j] + 1,
                                         lockedUntil |-> now + v, gen |-> gen[j] + 1]]
  BY DEF Claim, Eligible
<1>1. /\ pc[w] = "idle" /\ pc' = [pc EXCEPT ![w] = "handling"]
      /\ nextId' = nextId
  BY DEF Claim
<1>2. Held[w] = {}
  BY <1>1 DEF Held, InFlight
<1>3. Held' = [Held EXCEPT ![w] = {[job |-> j, number |-> gen[j] + 1]}]
  <2>1. \A u \in Workers \ {w} : claim'[u] = claim[u] /\ (InFlight(u)' <=> InFlight(u))
    BY <1>1 DEF TypeOK, InFlight
  <2>2. InFlight(w)' /\ claim'[w].job = j /\ claim'[w].gen = gen[j] + 1
    BY <1>1 DEF TypeOK, InFlight
  <2> QED
    BY <2>1, <2>2 DEF Held
<1>4. RowState[j] = "ready" /\ RowState' = [RowState EXCEPT ![j] = "running"]
  BY <1>1 DEF RowState, TypeOK
<1> QED
  BY <1>2, <1>3, <1>4 DEF Lease!Take

(* A terminal write that passes the fence is the report of a current lease. *)
LEMMA ReportImplements ==
  ASSUME ContractInv, TypeOK', nextId' = nextId, UNCHANGED gen,
         NEW w \in Workers, InFlight(w), FenceHolds(w),
         Held' = Held \/ Held' = [Held EXCEPT ![w] = {}],
         status'[claim[w].job] \in {"done", "failed", "ready"},
         \A j \in Jobs \ {claim[w].job} :
           \/ status'[j] = status[j]
           \/ /\ status[j] = "blocked" /\ status'[j] = "ready"
              /\ status'[claim[w].job] = "done"
  PROVE  Lease!Report(w)
<1> DEFINE l == [job |-> claim[w].job, number |-> claim[w].gen]
           k == claim[w].job
<1>1. TypeOK /\ Unborn /\ k \in Jobs
  BY DEF ContractInv, BudgetInv, TypeOK
<1>2. /\ RowState' \in [Jobs -> Lease!States]
      /\ \A j \in Jobs :
           /\ status[j] # "absent" => RowState[j] = status[j]
           /\ status'[j] # "absent" => RowState'[j] = status'[j]
           /\ status'[j] = status[j] => RowState'[j] = RowState[j]
  BY <1>1, RowView
<1>3. Held[w] = {l}
  BY DEF Held
<1>4. RowState[k] = "running" /\ gen[k] = claim[w].gen
  BY <1>1, <1>2 DEF ContractInv, FenceSound, FenceHolds
<1>5. RowState'[k] = status'[k]
  BY <1>1, <1>2
<1>6. \A j \in Jobs \ {k} :
        RowState'[j] # RowState[j]
          => RowState[j] = "blocked" /\ RowState'[j] = "ready" /\ RowState'[k] = "done"
  BY <1>2, <1>5
<1>7. l.job = k /\ l.number = claim[w].gen
  OBVIOUS
<1> HIDE DEF l
<1> QED
  BY <1>2, <1>3, <1>4, <1>5, <1>6, <1>7 DEF Lease!Report, Lease!Current

(* complete(): a report, or a worker that lets go, or a write that was lost *)
(* on a claim that is not current any more.                                 *)
LEMMA CompletionImplements ==
  ASSUME ContractInv, TypeOK', NEW w \in Workers, Complete(w) \/ Commit(w)
  PROVE  Lease!Report(w) \/ Lease!LetGo(w) \/ UNCHANGED Lease!vars
<1>1. TypeOK /\ TransactionIsolation
  BY DEF ContractInv, BudgetInv
<1>2. PICK next \in {"idle", "failing"} : pc' = [pc EXCEPT ![w] = next]
  BY DEF Complete, Commit, Goto
<1>3. InFlight(w) /\ UNCHANGED <<claim, gen, nextId>>
  BY DEF Complete, Commit, Goto, InFlight
<1>4. Held' = Held \/ Held' = [Held EXCEPT ![w] = {}]
  BY <1>1, <1>2, <1>3, PhaseMoves DEF Phases
<1>5. CASE FenceHolds(w)
  <2>1. PICK released : /\ status' = [i \in Jobs |-> IF i = claim[w].job THEN "done"
                                        ELSE IF i \in released THEN "ready" ELSE status[i]]
                        /\ \A d \in released : status[d] = "blocked"
    <3>1. CASE Complete(w)
      BY <1>5, <3>1 DEF Complete, MarkDone, ReadyDependents
    <3>2. CASE Commit(w)
      BY <1>1, <3>2 DEF Commit, MarkDone, TransactionIsolation, Goto
    <3> QED
      BY <3>1, <3>2
  <2>2. claim[w].job \in Jobs
    BY <1>1, <1>3 DEF TypeOK
  <2>3. status'[claim[w].job] = "done"
    BY <2>1, <2>2
  <2>4. \A j \in Jobs \ {claim[w].job} :
          status'[j] = status[j] \/ (status[j] = "blocked" /\ status'[j] = "ready")
    BY <2>1
  <2> QED
    BY <1>3, <1>4, <1>5, <2>3, <2>4, ReportImplements
<1>6. CASE ~FenceHolds(w)
  <2>1. status' = status
    BY <1>1, <1>6 DEF Complete, Commit, Goto, TransactionIsolation
  <2>2. RowState' = RowState
    BY <1>3, <2>1, SameRows
  <2> QED
    BY <1>3, <1>4, <2>2 DEF Lease!LetGo, Lease!vars
<1> QED
  BY <1>5, <1>6

(* fail() *)
LEMMA FailImplements ==
  ASSUME ContractInv, TypeOK', NEW w \in Workers, Fail(w)
  PROVE  Lease!Report(w) \/ Lease!LetGo(w)
<1>1. TypeOK
  BY DEF ContractInv, BudgetInv
<1>2. InFlight(w) /\ pc' = [pc EXCEPT ![w] = "idle"] /\ UNCHANGED <<claim, gen, nextId>>
  BY DEF Fail, Goto, InFlight
<1>3. Held' = [Held EXCEPT ![w] = {}]
  BY <1>1, <1>2, PhaseMoves DEF Phases
<1>4. CASE FenceHolds(w)
  <2>1. PICK out \in {"failed", "ready"} : status' = [status EXCEPT ![claim[w].job] = out]
    BY <1>4 DEF Fail
  <2>2. claim[w].job \in Jobs
    BY <1>1, <1>2 DEF TypeOK
  <2>3. status'[claim[w].job] = out /\ \A j \in Jobs \ {claim[w].job} : status'[j] = status[j]
    BY <1>1, <2>1, <2>2 DEF TypeOK
  <2> QED
    BY <1>2, <1>3, <1>4, <2>3, ReportImplements
<1>5. CASE ~FenceHolds(w)
  <2>1. status' = status
    BY <1>5 DEF Fail
  <2> QED
    BY <1>2, <1>3, <2>1, SameRows DEF Lease!LetGo
<1> QED
  BY <1>4, <1>5

(* Sweeps, retries, discards and prunes touch rows and nothing else. *)
LEMMA RowsMove ==
  ASSUME TypeOK, TypeOK', Unborn, UNCHANGED <<nextId, gen, pc, claim>>
  PROVE  /\ (\A j \in Jobs : status'[j] = status[j] \/
                (status[j] = "running" /\ status'[j] \in {"ready", "failed"})) => Lease!Expire
         /\ (\A j \in Jobs : status'[j] = status[j] \/
                (status[j] = "failed" /\ status'[j] = "ready")) => Lease!Retry
         /\ (\A j \in Jobs : status'[j] = status[j] \/
                (status[j] \notin {"absent", "running"} /\ status'[j] = "absent")) => Lease!Delete
<1>1. Held' = Held
  BY DEF Held, InFlight
<1>2. /\ RowState' \in [Jobs -> Lease!States]
      /\ \A j \in Jobs :
           /\ status[j] # "absent" => RowState[j] = status[j]
           /\ status'[j] # "absent" => RowState'[j] = status'[j]
           /\ status'[j] = status[j] => RowState'[j] = RowState[j]
           /\ status[j] # "absent" /\ status'[j] = "absent" => RowState'[j] = "gone"
  BY RowView
<1>3. \A j \in Jobs : status[j] \in Statuses
  BY DEF TypeOK
<1>4. ASSUME \A j \in Jobs : status'[j] = status[j] \/
               (status[j] = "running" /\ status'[j] \in {"ready", "failed"})
      PROVE  Lease!Expire
  BY <1>1, <1>2, <1>4 DEF Lease!Expire, Lease!Becomes
<1>5. ASSUME \A j \in Jobs : status'[j] = status[j] \/
               (status[j] = "failed" /\ status'[j] = "ready")
      PROVE  Lease!Retry
  BY <1>1, <1>2, <1>5 DEF Lease!Retry, Lease!Becomes
<1>6. ASSUME \A j \in Jobs : status'[j] = status[j] \/
               (status[j] \notin {"absent", "running"} /\ status'[j] = "absent")
      PROVE  Lease!Delete
  BY <1>1, <1>2, <1>3, <1>6 DEF Lease!Delete, Lease!Becomes, Statuses
<1> QED
  BY <1>4, <1>5, <1>6

(* The walk of discard() reaches, besides its root, blocked jobs only. *)
LEMMA CascadeBlocked ==
  ASSUME TypeOK, NEW j \in Jobs
  PROVE  \A d \in Cascade(j) : d = j \/ status[d] = "blocked"
<1> DEFINE S == {d \in Jobs : d = j \/ status[d] = "blocked"}
<1>1. S \in SUBSET Jobs /\ j \in S
  OBVIOUS
<1>2. \A e \in deps : e[2] \in S /\ status[e[1]] = "blocked" => e[1] \in S
  BY DEF TypeOK
<1> HIDE DEF S
<1>3. Cascade(j) \subseteq S
  BY <1>1, <1>2 DEF Cascade
<1> QED
  BY <1>3 DEF S

(* Every step of the queue is a step of its contract, or none. *)
LEMMA StepImplements ==
  ASSUME ContractInv, TypeOK', walk' = NoWalk, [Next]_vars
  PROVE  [Lease!Next]_(Lease!vars)
<1>0. TypeOK /\ Unborn
  BY DEF ContractInv, BudgetInv
<1>1. CASE Enqueue \/ EnqueueBatch
  BY <1>0, <1>1, InsertImplements DEF Lease!Next
<1>2. ASSUME NEW w \in Workers, Claim(w) PROVE Lease!Next
  BY <1>0, <1>2, ClaimImplements DEF Lease!Next
<1>3. ASSUME NEW w \in Workers, Complete(w) \/ Commit(w) PROVE [Lease!Next]_(Lease!vars)
  BY <1>3, CompletionImplements DEF Lease!Next
<1>4. ASSUME NEW w \in Workers, Fail(w) PROVE Lease!Next
  BY <1>4, FailImplements DEF Lease!Next
<1>5. ASSUME NEW w \in Workers,
             HandlerReturns(w) \/ HandlerThrows(w) \/ CompleteFaults(w) \/ Crash(w) \/ Settle(w)
      PROVE  [Lease!Next]_(Lease!vars)
  <2>1. InFlight(w) /\ UNCHANGED <<status, nextId, gen, claim>>
    BY <1>5 DEF HandlerReturns, HandlerThrows, CompleteFaults, Crash, Settle, Goto, InFlight,
                columns, history
  <2>2. PICK next \in Phases : pc' = [pc EXCEPT ![w] = next]
    BY <1>5 DEF HandlerReturns, HandlerThrows, CompleteFaults, Crash, Settle, Goto, Phases
  <2>3. Held' = Held \/ Held' = [Held EXCEPT ![w] = {}]
    BY <1>0, <2>1, <2>2, PhaseMoves
  <2>4. RowState' = RowState
    BY <2>1, SameRows
  <2> QED
    BY <2>1, <2>3, <2>4 DEF Lease!Next, Lease!LetGo, Lease!vars
<1>6. ASSUME NEW w \in Workers, RetireStalled(w) \/ ReclaimStalled(w) PROVE Lease!Next
  <2>1. UNCHANGED <<nextId, gen, pc, claim>>
    BY <1>6 DEF RetireStalled, ReclaimStalled, workerVars, history
  <2>2. \A j \in Jobs : status'[j] = status[j] \/
           (status[j] = "running" /\ status'[j] \in {"ready", "failed"})
    BY <1>6 DEF RetireStalled, ReclaimStalled, Stalled
  <2>3. Lease!Expire
    BY <1>0, <2>1, <2>2, RowsMove
  <2> QED
    BY <2>3 DEF Lease!Next
<1>7. ASSUME NEW j \in Jobs, Retry(j) PROVE Lease!Next
  <2>1. UNCHANGED <<nextId, gen, pc, claim>>
    BY <1>7 DEF Retry, workerVars, history
  <2>2. \A i \in Jobs : status'[i] = status[i] \/ (status[i] = "failed" /\ status'[i] = "ready")
    BY <1>0, <1>7 DEF Retry, Retriable, TypeOK
  <2>3. Lease!Retry
    BY <1>0, <2>1, <2>2, RowsMove
  <2> QED
    BY <2>3 DEF Lease!Next
<1>8. ASSUME NEW j \in Jobs, Discard(j) PROVE Lease!Next
  <2>1. UNCHANGED <<nextId, gen, pc, claim>>
    BY <1>8 DEF Discard, workerVars
  <2>2. /\ status' = [i \in Jobs |-> IF i \in Cascade(j) THEN "absent" ELSE status[i]]
        /\ status[j] \notin {"absent", "running"}
    BY <1>8 DEF Discard
  <2>3. \A i \in Jobs : status'[i] = status[i] \/
           (status[i] \notin {"absent", "running"} /\ status'[i] = "absent")
    BY <1>0, <2>2, CascadeBlocked
  <2>4. Lease!Delete
    BY <1>0, <2>1, <2>3, RowsMove
  <2> QED
    BY <2>4 DEF Lease!Next
<1>9. CASE Prune
  <2>1. UNCHANGED <<nextId, gen, pc, claim>>
    BY <1>9 DEF Prune, workerVars, history
  <2>2. \A i \in Jobs : status'[i] = status[i] \/
           (status[i] \notin {"absent", "running"} /\ status'[i] = "absent")
    BY <1>9 DEF Prune, Prunable
  <2>3. Lease!Delete
    BY <1>0, <2>1, <2>2, RowsMove
  <2> QED
    BY <2>3 DEF Lease!Next
<1>10. ASSUME (\E w \in Workers : SweepFaults(w)) \/ Tick \/ StepBack \/ UNCHANGED vars
       PROVE  UNCHANGED Lease!vars
  <2>1. UNCHANGED <<status, nextId, gen, pc, claim>>
    BY <1>10 DEF SweepFaults, Tick, StepBack, vars, columns, workerVars, history
  <2> QED
    BY <2>1, SameRows DEF Held, InFlight, Lease!vars
<1>11. ~DiscardTransaction
  BY DEF ContractInv, NoWalk, DiscardTransaction, DiscardRoot, DiscardNext, DiscardCommit,
         DiscardFaults
<1> QED
  BY <1>1, <1>2, <1>3, <1>4, <1>5, <1>6, <1>7, <1>8, <1>9, <1>10, <1>11
     DEF Next, WorkerStep, SweepStep

(* If the clock never steps back, or nobody retries a dead-lettered job by  *)
(* hand, the queue implements its contract: fencing a terminal write by     *)
(* locked_until and attempts is as good as numbering the claims of a row.   *)
(* It takes a discard() that is one step, as on SQLite, or none: that of    *)
(* Postgres may delete a dependent that was claimed since it was read.      *)
THEOREM QueueImplementsContract ==
  /\ ~ClockStepsBack \/ "retry" \notin OperatorVerbs
  /\ Dialect = "sqlite" \/ "discard" \notin OperatorVerbs
  /\ Spec
  => LeaseContract
<1>1. Init => Lease!Init
  <2> SUFFICES ASSUME Init PROVE Lease!Init
    OBVIOUS
  <2>1. RowState = [j \in Jobs |-> "unborn"]
    <3>1. \A j \in Jobs : status[j] = "absent" /\ ~(j < nextId)
      BY BoundsAssumption DEF Init, Jobs
    <3> QED
      BY <3>1 DEF RowState
  <2>2. gen = [j \in Jobs |-> 0] /\ Held = [w \in Workers |-> {}]
    BY DEF Init, Held, InFlight
  <2> QED
    BY <2>1, <2>2 DEF Lease!Init
<1>2. ContractInv /\ TypeOK' /\ (walk = NoWalk)' /\ [Next]_vars => [Lease!Next]_(Lease!vars)
  <2>1. NoWalk' = NoWalk
    BY DEF NoWalk
  <2> QED
    BY <2>1, StepImplements
<1>3. BudgetInv => TypeOK
  BY DEF BudgetInv
<1>4. BudgetInv /\ FenceSound /\ walk = NoWalk => ContractInv
  BY DEF ContractInv
<1> QED
  BY <1>1, <1>2, <1>3, <1>4, BudgetInvariant, FenceIsSound, NoOpenDiscard, PTL DEF Spec, LeaseContract, Lease!Spec
=============================================================================
