------------------------------ MODULE JobQueue ------------------------------
(***************************************************************************)
(* The durable job queue of @lesto/queue (packages/queue/src/queue.ts).    *)
(*                                                                         *)
(* The columns of lesto_jobs are functions from job id to value, so that   *)
(* an SQL UPDATE is a function update; a row that does not exist (not yet  *)
(* inserted, discarded or pruned) has status "absent".  Ids come from an   *)
(* AUTOINCREMENT / IDENTITY column and are never reused.                   *)
(*                                                                         *)
(* Each SQL statement is one atomic step.  A transaction is one step on    *)
(* SQLite, whose runtime serializes every transaction over one connection. *)
(* On Postgres (READ COMMITTED) the transaction in which a batched job is  *)
(* completed is two steps: its writes, visible to itself alone, and its    *)
(* COMMIT; and that of discard() is one step per row it deletes and its    *)
(* COMMIT.                                                                 *)
(***************************************************************************)
EXTENDS Integers, Sequences, FiniteSets

CONSTANTS
  MaxJobs,         \* bound: how many rows are ever inserted
  MaxTime,         \* bound: the last instant of the clock
  Workers,         \* the polling loops started by work()
  Dialect,         \* "sqlite" or "postgres"
  BatchShapes,     \* what enqueueBatch is called with: sequences of dependsOn sets
  Priorities,      \* options.priority
  AttemptLimits,   \* options.maxAttempts
  Delays,          \* options.delayMs (0: none)
  Visibilities,    \* visibilityMs
  BaseBackoff,     \* baseBackoffMs
  MaxBackoff,      \* maxBackoffMs
  PruneAge,        \* olderThanMs
  MaxClaims,       \* bound: a row claimed this often is not retried by hand
  OperatorVerbs,   \* which of "retry", "discard", "prune" are ever called
  ClockStepsBack,  \* whether the wall clock may be stepped backwards
  NULL             \* SQL NULL

ASSUME BoundsAssumption == 
  /\ MaxJobs \in Nat
  /\ MaxTime \in Nat
  /\ MaxClaims \in Nat

ASSUME DialectAssumption == Dialect \in {"sqlite", "postgres"}

ASSUME OptionsAssumption ==
  /\ BatchShapes \subseteq Seq(SUBSET (Nat \ {0}))
  /\ AttemptLimits \subseteq Nat \ {0}
  /\ Delays \subseteq Nat
  /\ Visibilities \subseteq Nat
  /\ Priorities \subseteq Int
  /\ BaseBackoff \in Nat
  /\ MaxBackoff \in Nat

ASSUME NullAssumption == NULL \notin Nat

ASSUME ClockAssumption == ClockStepsBack \in BOOLEAN

Jobs == 1..MaxJobs

Statuses == {"absent", "blocked", "ready", "running", "done", "failed"}

(* Where runOnce stands: no claim; the handler runs; complete() is called; *)
(* complete()'s Postgres transaction is open; fail() is called for a       *)
(* failure that may be retried, or for a permanent one.                    *)
Phases == {"idle", "handling", "completing", "committing", "failing", "retiring"}

VARIABLES
  status, attempts, maxAttempts, priority, runAt, lockedUntil, finishedAt,
  batchId,     \* the columns of lesto_jobs
  deps,        \* lesto_job_deps: pairs <<job_id, depends_on_id>>
  batches,     \* lesto_job_batches: batch id |-> total (0: no such row)
  nextId,      \* the sequence behind lesto_jobs.id
  now,         \* the clock
  sweep,       \* per worker: the now its reclaim() read, between its two statements
  pc, claim,   \* per worker: where runOnce is, and the job metadata it holds
  txn,         \* per worker: what its open transaction wrote
  walk,        \* the open transaction of discard() on Postgres
  gen,         \* history: how many times the row was claimed
  everDone,    \* history: the jobs that were ever done
  everFailed,  \* history: the jobs that were ever failed
  discarded,   \* history: the jobs discard() deleted
  declared     \* history: every dependency edge ever inserted

columns == <<status, attempts, maxAttempts, priority, runAt, lockedUntil, finishedAt, batchId>>

workerVars == <<pc, claim, txn>>

history == <<gen, everDone, everFailed, discarded, declared>>

vars == <<columns, deps, batches, nextId, now, sweep, walk, workerVars, history>>

NoClaim == [job |-> 0, attempts |-> 0, lockedUntil |-> 0, gen |-> 0]

NoSweep == -1

(* A transaction's uncommitted writes: the dependents it releases and the   *)
(* finished_at it stamps.                                                   *)
NoTxn == [released |-> {}, at |-> 0]

(* discard()'s transaction: the rows it deleted, not yet for others to see, *)
(* and the dependents it has read and is about to delete.                   *)
NoWalk == [dropped |-> {}, doomed |-> {}]

Init ==
  /\ status = [j \in Jobs |-> "absent"]
  /\ attempts = [j \in Jobs |-> 0]
  /\ maxAttempts = [j \in Jobs |-> 0]
  /\ priority = [j \in Jobs |-> 0]
  /\ runAt = [j \in Jobs |-> 0]
  /\ lockedUntil = [j \in Jobs |-> NULL]
  /\ finishedAt = [j \in Jobs |-> NULL]
  /\ batchId = [j \in Jobs |-> NULL]
  /\ deps = {}
  /\ batches = [b \in Jobs |-> 0]
  /\ nextId = 1
  /\ now = 0
  /\ sweep = [w \in Workers |-> NoSweep]
  /\ pc = [w \in Workers |-> "idle"]
  /\ claim = [w \in Workers |-> NoClaim]
  /\ txn = [w \in Workers |-> NoTxn]
  /\ walk = NoWalk
  /\ gen = [j \in Jobs |-> 0]
  /\ everDone = {}
  /\ everFailed = {}
  /\ discarded = {}
  /\ declared = {}

-----------------------------------------------------------------------------
(* Producers *)

(* enqueue(): one INSERT of a ready row. *)
Enqueue ==
  /\ nextId \in Jobs
  /\ \E p \in Priorities, m \in AttemptLimits, d \in Delays :
       /\ status' = [status EXCEPT ![nextId] = "ready"]
       /\ priority' = [priority EXCEPT ![nextId] = p]
       /\ maxAttempts' = [maxAttempts EXCEPT ![nextId] = m]
       /\ runAt' = [runAt EXCEPT ![nextId] = now + d]
  /\ nextId' = nextId + 1
  /\ UNCHANGED <<attempts, lockedUntil, finishedAt, batchId, deps, batches, now, sweep, walk,
                 workerVars, history>>

(* The edges enqueueBatch accepts: a non-empty list whose every dependsOn   *)
(* points at an earlier step.                                               *)
BackwardEdgesOnly(steps) ==
  /\ steps # << >>
  /\ \A i \in DOMAIN steps : \A d \in steps[i] : d < i

(* The ids a batch of these steps is about to take, and its edges. *)
NewJobs(steps) == nextId .. nextId + Len(steps) - 1

NewEdges(steps) ==
  {e \in NewJobs(steps) \X NewJobs(steps) : e[2] - nextId + 1 \in steps[e[1] - nextId + 1]}

(* The batch row, one row per step and one edge per dependency, in one      *)
(* transaction.  A batch takes the id of its first job.                     *)
InsertBatch(steps, p, m) ==
  /\ BackwardEdgesOnly(steps)
  /\ NewJobs(steps) \subseteq Jobs
  /\ status' = [j \in Jobs |-> IF j \notin NewJobs(steps) THEN status[j]
                               ELSE IF steps[j - nextId + 1] = {} THEN "ready" ELSE "blocked"]
  /\ priority' = [j \in Jobs |-> IF j \in NewJobs(steps) THEN p ELSE priority[j]]
  /\ maxAttempts' = [j \in Jobs |-> IF j \in NewJobs(steps) THEN m ELSE maxAttempts[j]]
  /\ runAt' = [j \in Jobs |-> IF j \in NewJobs(steps) THEN now ELSE runAt[j]]
  /\ batchId' = [j \in Jobs |-> IF j \in NewJobs(steps) THEN nextId ELSE batchId[j]]
  /\ batches' = [batches EXCEPT ![nextId] = Len(steps)]
  /\ deps' = deps \cup NewEdges(steps)
  /\ declared' = declared \cup NewEdges(steps)
  /\ nextId' = nextId + Len(steps)
  /\ UNCHANGED <<attempts, lockedUntil, finishedAt, now, sweep, walk, workerVars,
                 gen, everDone, everFailed, discarded>>

(* enqueueBatch(); the steps of one call share their options here. *)
EnqueueBatch ==
  \E steps \in BatchShapes, p \in Priorities, m \in AttemptLimits : InsertBatch(steps, p, m)

-----------------------------------------------------------------------------
(* Workers *)

(* The rows w's open transaction has written, which Postgres keeps locked   *)
(* until it ends.                                                           *)
Written(w) == IF pc[w] = "committing" THEN {claim[w].job} \cup txn[w].released ELSE {}

(* Seeded fault: writers do not wait for each other. *)
NeverLocked(S) == TRUE

(* A writer that meets a locked row waits for the transaction to end. *)
Unlocked(S) == /\ \A w \in Workers : Written(w) \cap S = {}
               /\ walk.dropped \cap S = {}

(* FOR UPDATE SKIP LOCKED: a claim passes over a locked row. *)
Eligible(j) == status[j] = "ready" /\ runAt[j] <= now /\ Unlocked({j})

(* ORDER BY priority DESC, run_at ASC, id ASC *)
Precedes(i, j) ==
  \/ priority[i] > priority[j]
  \/ /\ priority[i] = priority[j]
     /\ \/ runAt[i] < runAt[j]
        \/ runAt[i] = runAt[j] /\ i < j

(* claimRow(): UPDATE .. WHERE id = (SELECT .. LIMIT 1) RETURNING *. *)
Claim(w) ==
  /\ pc[w] = "idle"
  /\ \E j \in Jobs, v \in Visibilities :
       /\ Eligible(j)
       /\ \A i \in Jobs \ {j} : Eligible(i) => Precedes(j, i)
       /\ status' = [status EXCEPT ![j] = "running"]
       /\ attempts' = [attempts EXCEPT ![j] = @ + 1]
       /\ lockedUntil' = [lockedUntil EXCEPT ![j] = now + v]
       /\ gen' = [gen EXCEPT ![j] = @ + 1]
       /\ claim' = [claim EXCEPT ![w] = [job |-> j, attempts |-> attempts[j] + 1,
                                         lockedUntil |-> now + v, gen |-> gen[j] + 1]]
  /\ pc' = [pc EXCEPT ![w] = "handling"]
  /\ UNCHANGED <<maxAttempts, priority, runAt, finishedAt, batchId, deps, batches, nextId,
                 now, sweep, walk, txn, everDone, everFailed, discarded, declared>>

Goto(w, from, to) == pc[w] = from /\ pc' = [pc EXCEPT ![w] = to]

HandlerReturns(w) ==
  /\ Goto(w, "handling", "completing")
  /\ UNCHANGED <<columns, deps, batches, nextId, now, sweep, walk, claim, txn, history>>

(* The handler throws, the payload does not parse, or no handler is         *)
(* registered; only a thrown error can carry the permanent marker.          *)
HandlerThrows(w) ==
  /\ Goto(w, "handling", "failing") \/ Goto(w, "handling", "retiring")
  /\ UNCHANGED <<columns, deps, batches, nextId, now, sweep, walk, claim, txn, history>>

(* Seeded fault: a terminal write that only looks at the row's status. *)
StatusFence(w) == status[claim[w].job] = "running"

(* The WHERE clause every terminal write carries: the claim generation.     *)
FenceHolds(w) ==
  LET c == claim[w]
  IN  /\ status[c.job] = "running"
      /\ lockedUntil[c.job] = c.lockedUntil
      /\ attempts[c.job] = c.attempts

(* Seeded faults: every dependent is released; j itself still counts as     *)
(* unfinished, as it would if the release ran before the done write.        *)
AnyDependents(j) == {d \in Jobs : status[d] = "blocked" /\ <<d, j>> \in deps}

DependentsBeforeDone(j) ==
  {d \in AnyDependents(j) : \A p \in Jobs : <<d, p>> \in deps => status[p] \in {"done", "absent"}}

(* releaseReadyDependents(j): the blocked jobs with an edge to j all of     *)
(* whose other prerequisites are done or gone.                              *)
ReadyDependents(j) ==
  {d \in Jobs : /\ status[d] = "blocked"
                /\ <<d, j>> \in deps
                /\ \A p \in Jobs \ {j} : <<d, p>> \in deps => status[p] \in {"done", "absent"}}

(* The done write of complete() together with the release of dependents. *)
MarkDone(j, released, at) ==
  /\ status' = [i \in Jobs |-> IF i = j THEN "done"
                               ELSE IF i \in released THEN "ready" ELSE status[i]]
  /\ lockedUntil' = [lockedUntil EXCEPT ![j] = NULL]
  /\ finishedAt' = [finishedAt EXCEPT ![j] = at]
  /\ everDone' = everDone \cup {j}

OpensTransaction(w) == Dialect = "postgres" /\ batchId[claim[w].job] # NULL

(* complete() in one step: a batchless job, or SQLite's serialized          *)
(* transaction.  A fault after the write has landed sends runOnce to its    *)
(* catch, that is to fail().                                                *)
Complete(w) ==
  LET j == claim[w].job IN
  /\ pc[w] = "completing" /\ ~OpensTransaction(w)
  /\ Unlocked({j} \cup ReadyDependents(j))
  /\ \E next \in {"idle", "failing"} : Goto(w, "completing", next)
  /\ IF FenceHolds(w)
     THEN MarkDone(j, ReadyDependents(j), now)
     ELSE UNCHANGED <<status, lockedUntil, finishedAt, everDone>>
  /\ UNCHANGED <<attempts, maxAttempts, priority, runAt, batchId, deps, batches, nextId, now,
                 sweep, walk, claim, txn, gen, everFailed, discarded, declared>>

(* complete() on Postgres: both UPDATEs, not yet committed.  The release    *)
(* reads what other transactions have committed and what this one wrote.    *)
Settle(w) ==
  LET j == claim[w].job IN
  /\ pc[w] = "completing" /\ OpensTransaction(w)
  /\ Unlocked({j} \cup ReadyDependents(j))
  /\ IF FenceHolds(w)
     THEN /\ Goto(w, "completing", "committing")
          /\ txn' = [txn EXCEPT ![w] = [released |-> ReadyDependents(j), at |-> now]]
     ELSE /\ Goto(w, "completing", "idle")
          /\ UNCHANGED txn
  /\ UNCHANGED <<columns, deps, batches, nextId, now, sweep, walk, claim, history>>

(* COMMIT; its acknowledgement may be lost, which runOnce takes for a fault. *)
Commit(w) ==
  /\ \E next \in {"idle", "failing"} : Goto(w, "committing", next)
  /\ MarkDone(claim[w].job, txn[w].released, txn[w].at)
  /\ txn' = [txn EXCEPT ![w] = NoTxn]
  /\ UNCHANGED <<attempts, maxAttempts, priority, runAt, batchId, deps, batches, nextId, now,
                 sweep, walk, claim, gen, everFailed, discarded, declared>>

(* complete() rejects with nothing written: a fault, or a ROLLBACK. *)
CompleteFaults(w) ==
  /\ Goto(w, "completing", "failing") \/ Goto(w, "committing", "failing")
  /\ txn' = [txn EXCEPT ![w] = NoTxn]
  /\ UNCHANGED <<columns, deps, batches, nextId, now, sweep, walk, claim, history>>

Smaller(a, b) == IF a <= b THEN a ELSE b

Backoff(n) == Smaller(MaxBackoff, BaseBackoff * 2 ^ (n - 1))

(* fail(): retire an exhausted or permanently failed job, else reschedule. *)
Fail(w) ==
  LET c == claim[w]
      j == c.job
      exhausted == c.attempts >= maxAttempts[j] \/ pc[w] = "retiring"
  IN
  /\ Unlocked({j})
  /\ Goto(w, "failing", "idle") \/ Goto(w, "retiring", "idle")
  /\ IF FenceHolds(w)
     THEN /\ status' = [status EXCEPT ![j] = IF exhausted THEN "failed" ELSE "ready"]
          /\ lockedUntil' = [lockedUntil EXCEPT ![j] = NULL]
          /\ finishedAt' = [finishedAt EXCEPT ![j] = IF exhausted THEN now ELSE @]
          /\ runAt' = [runAt EXCEPT ![j] = IF exhausted THEN @ ELSE now + Backoff(c.attempts)]
          /\ everFailed' = IF exhausted THEN everFailed \cup {j} ELSE everFailed
     ELSE UNCHANGED <<status, lockedUntil, finishedAt, runAt, everFailed>>
  /\ UNCHANGED <<attempts, maxAttempts, priority, batchId, deps, batches, nextId, now,
                 sweep, walk, claim, txn, gen, everDone, discarded, declared>>

(* The process dies, or a fault escapes runOnce: the claim is forgotten, an *)
(* open transaction rolls back and the row stays running.                   *)
Crash(w) ==
  /\ pc[w] # "idle"
  /\ pc' = [pc EXCEPT ![w] = "idle"]
  /\ txn' = [txn EXCEPT ![w] = NoTxn]
  /\ UNCHANGED <<columns, deps, batches, nextId, now, sweep, walk, claim, history>>

-----------------------------------------------------------------------------
(* reclaim(): two statements that share one reading of the clock; every     *)
(* work() sweeps on a cadence of its own, beside its polling loop.          *)

(* Seeded faults: the deadline itself counts as lapsed; only rows without a  *)
(* deadline are looked at.                                                  *)
StalledAtDeadline(t) ==
  {j \in Jobs : status[j] = "running" /\ lockedUntil[j] # NULL /\ lockedUntil[j] <= t}

StalledUnlocked(t) == {j \in Jobs : status[j] = "running" /\ lockedUntil[j] = NULL}

Stalled(t) ==
  {j \in Jobs : /\ status[j] = "running"
                /\ lockedUntil[j] # NULL
                /\ lockedUntil[j] < t}

(* Seeded fault: one attempt too many. *)
ExhaustedLate(j) == attempts[j] > maxAttempts[j]

Exhausted(j) == attempts[j] >= maxAttempts[j]

(* The stalled rows without attempts to spare are dead-lettered. *)
RetireStalled(w) ==
  LET retired == {j \in Stalled(now) : Exhausted(j)} IN
  /\ sweep[w] = NoSweep
  /\ Unlocked(retired)
  /\ status' = [j \in Jobs |-> IF j \in retired THEN "failed" ELSE status[j]]
  /\ lockedUntil' = [j \in Jobs |-> IF j \in retired THEN NULL ELSE lockedUntil[j]]
  /\ finishedAt' = [j \in Jobs |-> IF j \in retired THEN now ELSE finishedAt[j]]
  /\ everFailed' = everFailed \cup retired
  /\ sweep' = [sweep EXCEPT ![w] = now]
  /\ UNCHANGED <<attempts, maxAttempts, priority, runAt, batchId, deps, batches, nextId, now,
                 walk, workerVars, gen, everDone, discarded, declared>>

(* The others go back to ready. *)
ReclaimStalled(w) ==
  LET reclaimed == {j \in Stalled(sweep[w]) : ~Exhausted(j)} IN
  /\ sweep[w] # NoSweep
  /\ Unlocked(reclaimed)
  /\ status' = [j \in Jobs |-> IF j \in reclaimed THEN "ready" ELSE status[j]]
  /\ lockedUntil' = [j \in Jobs |-> IF j \in reclaimed THEN NULL ELSE lockedUntil[j]]
  /\ sweep' = [sweep EXCEPT ![w] = NoSweep]
  /\ UNCHANGED <<attempts, maxAttempts, priority, runAt, finishedAt, batchId, deps, batches,
                 nextId, now, walk, workerVars, history>>

(* A fault, or the death of the process, between the two. *)
SweepFaults(w) ==
  /\ sweep[w] # NoSweep
  /\ sweep' = [sweep EXCEPT ![w] = NoSweep]
  /\ UNCHANGED <<columns, deps, batches, nextId, now, walk, workerVars, history>>

-----------------------------------------------------------------------------
(* The operator surface *)

(* Seeded fault: a settled job of either kind may be retried. *)
Settled(j) == status[j] \in {"done", "failed"}

Retriable(j) == status[j] = "failed"

(* retry(j) *)
Retry(j) ==
  /\ "retry" \in OperatorVerbs
  /\ Retriable(j)
  /\ Unlocked({j})
  /\ gen[j] < MaxClaims
  /\ status' = [status EXCEPT ![j] = "ready"]
  /\ attempts' = [attempts EXCEPT ![j] = 0]
  /\ lockedUntil' = [lockedUntil EXCEPT ![j] = NULL]
  /\ finishedAt' = [finishedAt EXCEPT ![j] = NULL]
  /\ runAt' = [runAt EXCEPT ![j] = now]
  /\ UNCHANGED <<maxAttempts, priority, batchId, deps, batches, nextId, now, sweep, walk,
                 workerVars, history>>

(* What discard(j) deletes: j and, transitively, every job still blocked on *)
(* a deleted one; the least set closed under that walk.                     *)
Cascade(j) ==
  {d \in Jobs : \A S \in SUBSET Jobs :
     (/\ j \in S
      /\ \A e \in deps : e[2] \in S /\ status[e[1]] = "blocked" => e[1] \in S)
     => d \in S}

(* discard(j) in one step, on SQLite: refused for a running row. *)
Discard(j) ==
  LET gone == Cascade(j) IN
  /\ "discard" \in OperatorVerbs /\ Dialect = "sqlite"
  /\ status[j] \notin {"absent", "running"}
  /\ Unlocked(gone)
  /\ status' = [i \in Jobs |-> IF i \in gone THEN "absent" ELSE status[i]]
  /\ deps' = {e \in deps : e[1] \notin gone /\ e[2] \notin gone}
  /\ discarded' = discarded \cup gone
  /\ UNCHANGED <<attempts, maxAttempts, priority, runAt, lockedUntil, finishedAt, batchId,
                 batches, nextId, now, sweep, walk, workerVars, gen, everDone, everFailed,
                 declared>>

(* The SELECT of the walk: the jobs still blocked on p, as the transaction  *)
(* sees them.                                                               *)
BlockedOn(p) ==
  {d \in Jobs \ walk.dropped : status[d] = "blocked" /\ <<d, p>> \in deps}

(* discard(j) on Postgres opens its transaction with the DELETE of the root. *)
DiscardRoot(j) ==
  /\ "discard" \in OperatorVerbs /\ Dialect = "postgres"
  /\ walk = NoWalk
  /\ status[j] \notin {"absent", "running"}
  /\ Unlocked({j})
  /\ walk' = [dropped |-> {j}, doomed |-> BlockedOn(j) \ {j}]
  /\ UNCHANGED <<columns, deps, batches, nextId, now, sweep, workerVars, history>>

(* It deletes a dependent it has read, by its id alone, and reads on. *)
DiscardNext(d) ==
  /\ d \in walk.doomed
  /\ Unlocked({d})
  /\ walk' = [dropped |-> walk.dropped \cup {d}, doomed |-> (walk.doomed \cup BlockedOn(d)) \ {d}]
  /\ UNCHANGED <<columns, deps, batches, nextId, now, sweep, workerVars, history>>

(* COMMIT: the rows and the edges that name them are gone. *)
DiscardCommit ==
  /\ walk # NoWalk /\ walk.doomed = {}
  /\ status' = [i \in Jobs |-> IF i \in walk.dropped THEN "absent" ELSE status[i]]
  /\ deps' = {e \in deps : e[1] \notin walk.dropped /\ e[2] \notin walk.dropped}
  /\ discarded' = discarded \cup walk.dropped
  /\ walk' = NoWalk
  /\ UNCHANGED <<attempts, maxAttempts, priority, runAt, lockedUntil, finishedAt, batchId,
                 batches, nextId, now, sweep, workerVars, gen, everDone, everFailed, declared>>

(* A fault rolls the transaction back. *)
DiscardFaults ==
  /\ walk # NoWalk
  /\ walk' = NoWalk
  /\ UNCHANGED <<columns, deps, batches, nextId, now, sweep, workerVars, history>>

(* Seeded fault: prune goes by the age of the row, whatever its status. *)
PrunableByAge ==
  {j \in Jobs : status[j] \notin {"absent", "running"} /\ runAt[j] < now - PruneAge}

(* The rows prune() deletes: terminal ones that finished before the cutoff. *)
Prunable ==
  {j \in Jobs : /\ status[j] \in {"done", "failed"}
                /\ finishedAt[j] # NULL
                /\ finishedAt[j] < now - PruneAge}

(* prune(): the rows, then the edges and the batch rows they orphan. *)
Prune ==
  LET live == {j \in Jobs \ Prunable : status[j] # "absent"} IN
  /\ "prune" \in OperatorVerbs
  /\ Unlocked(Prunable)
  /\ status' = [j \in Jobs |-> IF j \in Prunable THEN "absent" ELSE status[j]]
  /\ deps' = {e \in deps : e[1] \in live /\ e[2] \in live}
  /\ batches' = [b \in Jobs |-> IF \E j \in live : batchId[j] = b THEN batches[b] ELSE 0]
  /\ UNCHANGED <<attempts, maxAttempts, priority, runAt, lockedUntil, finishedAt, batchId,
                 nextId, now, sweep, walk, workerVars, history>>

(* Seeded fault: a batch measured against the rows it still has. *)
StateOfSurvivors(b) ==
  LET count(s) == Cardinality({j \in Jobs : batchId[j] = b /\ status[j] = s}) IN
  IF count("failed") > 0 THEN "failed"
  ELSE IF count("done") = Cardinality({j \in Jobs : batchId[j] = b /\ status[j] # "absent"})
       THEN "completed" ELSE "pending"

(* batch(b).state *)
BatchState(b) ==
  LET count(s) == Cardinality({j \in Jobs : batchId[j] = b /\ status[j] = s}) IN
  IF count("failed") > 0 THEN "failed"
  ELSE IF count("done") = batches[b] THEN "completed" ELSE "pending"

-----------------------------------------------------------------------------
(* Time *)

(* Some comparison against the clock has yet to change its outcome. *)
DeadlinePending ==
  \E j \in Jobs :
    \/ status[j] = "running" /\ lockedUntil[j] >= now
    \/ status[j] = "ready" /\ runAt[j] > now
    \/ "prune" \in OperatorVerbs /\ status[j] \in {"done", "failed"} /\ j \notin Prunable

Tick ==
  /\ now < MaxTime
  /\ DeadlinePending
  /\ now' = now + 1
  /\ UNCHANGED <<columns, deps, batches, nextId, sweep, walk, workerVars, history>>

(* NTP steps the wall clock backwards. *)
StepBack ==
  /\ ClockStepsBack
  /\ now > 0
  /\ now' = now - 1
  /\ UNCHANGED <<columns, deps, batches, nextId, sweep, walk, workerVars, history>>

-----------------------------------------------------------------------------

WorkerStep(w) ==
  \/ Claim(w)
  \/ HandlerReturns(w)
  \/ HandlerThrows(w)
  \/ Complete(w)
  \/ Settle(w)
  \/ Commit(w)
  \/ CompleteFaults(w)
  \/ Fail(w)

SweepStep(w) == RetireStalled(w) \/ ReclaimStalled(w)

DiscardTransaction ==
  \/ \E j \in Jobs : DiscardRoot(j) \/ DiscardNext(j)
  \/ DiscardCommit
  \/ DiscardFaults

Next ==
  \/ Enqueue
  \/ EnqueueBatch
  \/ \E w \in Workers : WorkerStep(w) \/ Crash(w) \/ SweepStep(w) \/ SweepFaults(w)
  \/ \E j \in Jobs : Retry(j) \/ Discard(j)
  \/ DiscardTransaction
  \/ Prune
  \/ Tick
  \/ StepBack

Spec == Init /\ [][Next]_vars

(* What the code's scheduling guarantees: the polling and sweeping loops    *)
(* keep running (their error boundary catches every fault), a handler       *)
(* returns, throws or dies with its process, a sweep does not fault every   *)
(* time, and time passes.                                                   *)
Fairness ==
  /\ WF_vars(Tick)
  /\ \A w \in Workers : /\ WF_vars(WorkerStep(w))
                        /\ WF_vars(RetireStalled(w))
                        /\ SF_vars(ReclaimStalled(w))

FairSpec == Spec /\ Fairness

-----------------------------------------------------------------------------
(* Properties *)

NatOrNull == Nat \cup {NULL}

InFlight(w) == pc[w] # "idle"

(* The columns hold what the schema says, a claim is the metadata of an     *)
(* inserted job, and lesto_job_deps holds only the backward edges           *)
(* enqueueBatch lets through, so the dependency graph has no cycle.         *)
TypeOK ==
  /\ status \in [Jobs -> Statuses]
  /\ attempts \in [Jobs -> Nat]
  /\ maxAttempts \in [Jobs -> Nat]
  /\ priority \in [Jobs -> Int]
  /\ runAt \in [Jobs -> Int]
  /\ lockedUntil \in [Jobs -> NatOrNull]
  /\ finishedAt \in [Jobs -> NatOrNull]
  /\ batchId \in [Jobs -> NatOrNull]
  /\ deps \subseteq {e \in Jobs \X Jobs : e[2] < e[1]}
  /\ batches \in [Jobs -> Nat]
  /\ nextId \in Nat
  /\ now \in Nat
  /\ sweep \in [Workers -> Nat \cup {NoSweep}]
  /\ pc \in [Workers -> Phases]
  /\ claim \in [Workers -> [job : Nat, attempts : Nat, lockedUntil : Nat, gen : Nat]]
  /\ \A w \in Workers : InFlight(w) => claim[w].job \in Jobs /\ claim[w].attempts > 0
  /\ txn \in [Workers -> [released : SUBSET Jobs, at : Nat]]
  /\ walk \in [dropped : SUBSET Jobs, doomed : SUBSET Jobs]
  /\ gen \in [Jobs -> Nat]
  /\ everDone \subseteq Jobs
  /\ everFailed \subseteq Jobs
  /\ discarded \subseteq Jobs
  /\ declared \subseteq Jobs \X Jobs

(* The fence of complete() and fail() lets a write through only for the     *)
(* claim that owns the row now: a worker whose job was reclaimed, retired   *)
(* or re-claimed behind its back writes nothing.                            *)
FenceSound ==
  \A w \in Workers : InFlight(w) /\ FenceHolds(w) => claim[w].gen = gen[claim[w].job]

(* Two workers process the same job at once only after the visibility       *)
(* deadline of one of them has lapsed.                                      *)
SoleUnlapsedOwner ==
  \A v, w \in Workers :
    /\ InFlight(v) /\ claim[v].lockedUntil >= now
    /\ InFlight(w) /\ claim[w].lockedUntil >= now
    /\ claim[v].job = claim[w].job
    => v = w

(* Until complete()'s transaction ends, its claim stays current and the     *)
(* dependents it released stay blocked for everyone else; no two open       *)
(* transactions, a discard() among them, hold a row in common.              *)
TransactionIsolation ==
  /\ \A w \in Workers : pc[w] = "committing" =>
       /\ FenceHolds(w)
       /\ \A d \in txn[w].released : status[d] = "blocked"
  /\ \A v, w \in Workers : v # w => Written(v) \cap Written(w) = {}
  /\ \A w \in Workers : Written(w) \cap walk.dropped = {}

(* No job is ever given more than maxAttempts attempts, whether they end in *)
(* a thrown error (fail) or in a stalled worker (reclaim).                  *)
AttemptBudget ==
  \A j \in Jobs : /\ status[j] \in {"ready", "blocked"} => attempts[j] < maxAttempts[j]
                  /\ status[j] = "running" => attempts[j] <= maxAttempts[j]

(* A step of a batch is processed only once every prerequisite it was       *)
(* enqueued with has been done.                                             *)
OrderedBatch ==
  \A w \in Workers : \A e \in declared :
    InFlight(w) /\ e[1] = claim[w].job => e[2] \in everDone

(* A blocked job always waits for a prerequisite that is not done: nothing  *)
(* re-evaluates a blocked job later, so one whose prerequisites are all     *)
(* done would stay blocked forever.                                         *)
NoStranded ==
  \A j \in Jobs :
    status[j] = "blocked" => \E p \in Jobs : <<j, p>> \in deps /\ status[p] # "done"

(* A row disappears only after its job was done, was dead-lettered or was   *)
(* discarded: prune() and the discard cascade lose no pending work.         *)
NoJobLost ==
  \A j \in Jobs :
    j < nextId /\ status[j] = "absent" => j \in everDone \cup everFailed \cup discarded

(* batch() reports "completed" only if every job the batch was enqueued     *)
(* with has been done, whatever was discarded since.                        *)
CompletedTruthful ==
  \A b \in Jobs :
    batches[b] > 0 /\ BatchState(b) = "completed"
      => \A j \in Jobs : batchId[j] = b => j \in everDone

(* No step takes a job out of done, short of deleting its row: late writes  *)
(* of stale workers, reclaim and retry leave it alone.                      *)
DoneIsFinal ==
  [][\A j \in Jobs : status[j] = "done" => status'[j] \in {"done", "absent"}]_vars

(* A row that a worker is processing is never deleted: discard() refuses a  *)
(* running job and leaves dependents that have started alone.               *)
RunningIsKept ==
  [][\A j \in Jobs : status[j] = "running" => status'[j] # "absent"]_vars

(* Every job that is ready or running is eventually done or dead-lettered,  *)
(* though workers crash, handlers throw and sweeps fault.                   *)
EveryJobSettles ==
  \A j \in Jobs : status[j] \in {"ready", "running"} ~> status[j] \in {"done", "failed", "absent"}

(* The abstract view of a row and of what a worker holds. *)
RowState ==
  [j \in Jobs |-> IF status[j] # "absent" THEN status[j]
                  ELSE IF j < nextId THEN "gone" ELSE "unborn"]

Held ==
  [w \in Workers |-> IF InFlight(w) THEN {[job |-> claim[w].job, number |-> claim[w].gen]} ELSE {}]

Lease == INSTANCE JobLease WITH state <- RowState, leases <- gen, held <- Held

(* The queue implements its contract: claims are leases, and the terminal   *)
(* writes of complete() and fail(), fenced by a timestamp and a counter,    *)
(* report only under the latest lease of a running job; sweeps, retries,    *)
(* discards and prunes move jobs along their life cycle only.               *)
LeaseContract == Lease!Spec
=============================================================================
