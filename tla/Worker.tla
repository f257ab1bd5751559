------------------------------- MODULE Worker -------------------------------
(***************************************************************************)
(* The polling worker of @lesto/queue (packages/queue/src/queue.ts, work   *)
(* and runOnce): the job loops and the reclaim loop of one process, their  *)
(* error boundary, the report of each outcome to the observer, and the     *)
(* drain of stop().                                                        *)
(*                                                                         *)
(* A step takes a loop from one await to the next.  The rows are those of  *)
(* JobQueue, which has the clock, the deadlines and the batches: here a    *)
(* claim lapses at any time, any ready job may be the one claimed, and a   *)
(* retry counts as ready once its backoff is over.                         *)
(***************************************************************************)
EXTENDS Integers

CONSTANTS
  Loops,       \* the job loops: options.concurrency of them
  Jobs,
  NoJob,
  MaxAttempts, \* maxAttempts of every job
  MaxFaults    \* bound: statements that reject

VARIABLES
  running,
  stop,     \* "" / "asked" / "returned": the call of stop()
  pc,       \* per loop: the await it is in, or "ended"
  held,     \* per loop: the job it claimed
  token,    \* per loop: attempts as of the claim, its fence
  sweeper,  \* "sleeping" / "sweeping" / "ended": the reclaim loop
  row,      \* per job: [status, attempts, lapsed]
  faults,
  broken,   \* ghost: the jobs a statement about which rejected
  overdue   \* ghost: the loops whose claim's deadline passed

loopVars == <<pc, held, token>>
ghosts == <<broken, overdue>>
vars == <<running, stop, loopVars, sweeper, row, faults, ghosts>>

Init ==
  /\ running = TRUE /\ stop = ""
  /\ pc = [l \in Loops |-> "claiming"]
  /\ held = [l \in Loops |-> NoJob]
  /\ token = [l \in Loops |-> 0]
  /\ sweeper = "sleeping"
  /\ row = [j \in Jobs |-> [status |-> "ready", attempts |-> 0, lapsed |-> FALSE]]
  /\ faults = 0
  /\ broken = {} /\ overdue = {}

Fault == faults < MaxFaults /\ faults' = faults + 1

Goto(l, place) == pc' = [pc EXCEPT ![l] = place]

(* A pass of the loop is over. *)
Leaves(l, place) ==
  /\ Goto(l, place)
  /\ held' = [held EXCEPT ![l] = NoJob]
  /\ token' = [token EXCEPT ![l] = 0]
  /\ overdue' = overdue \ {l}

(* Seeded fault: the loop does not look at the flag again. *)
GoesOn == "claiming"

(* while (running): the next pass, or the end of the loop. *)
NextPass == IF running THEN "claiming" ELSE "ended"

Claimed(j) ==
  row' = [row EXCEPT ![j] = [status |-> "running", attempts |-> @.attempts + 1, lapsed |-> FALSE]]

(* Seeded fault: a loop that is told to stop drops the job it just claimed. *)
RunsUnlessStopped == IF running THEN {"handling", "failing"} ELSE {"ended"}

(* A claimed job is run, whatever became of the flag; a poison payload or a   *)
(* name without handler is failed at once.                                    *)
RunsClaimed == {"handling", "failing"}

(* claimRow() returns a job ... *)
Claim(l, j) ==
  /\ pc[l] = "claiming" /\ row[j].status = "ready"
  /\ Claimed(j)
  /\ held' = [held EXCEPT ![l] = j]
  /\ token' = [token EXCEPT ![l] = row[j].attempts + 1]
  /\ \E place \in RunsClaimed : Goto(l, place)
  /\ UNCHANGED <<running, stop, sweeper, faults, ghosts>>

(* ... or null: sleep(pollMs). *)
Idle(l) ==
  /\ pc[l] = "claiming" /\ \A j \in Jobs : row[j].status # "ready"
  /\ Goto(l, "sleeping")
  /\ UNCHANGED <<running, stop, held, token, sweeper, row, faults, ghosts>>

(* Seeded fault: the rejection ends the loop. *)
Dies == "ended"

(* The error boundary: report, then sleep(pollMs). *)
Contained == "sleeping"

(* It rejects, whether or not the claim was committed. *)
ClaimFaults(l) ==
  /\ pc[l] = "claiming" /\ Fault
  /\ Goto(l, Contained)
  /\ \/ UNCHANGED <<row, broken>>
     \/ \E j \in Jobs : /\ row[j].status = "ready"
                        /\ Claimed(j) /\ broken' = broken \cup {j}
  /\ UNCHANGED <<running, stop, held, token, sweeper, overdue>>

HandlerReturns(l) ==
  /\ pc[l] = "handling" /\ Goto(l, "completing")
  /\ UNCHANGED <<running, stop, held, token, sweeper, row, faults, ghosts>>

HandlerThrows(l) ==
  /\ pc[l] = "handling" /\ Goto(l, "failing")
  /\ UNCHANGED <<running, stop, held, token, sweeper, row, faults, ghosts>>

(* The fence of the terminal writes. *)
Owns(l) == row[held[l]].status = "running" /\ row[held[l]].attempts = token[l]

(* The terminal write, if the fence holds. *)
Writes(l, status) == row' = IF Owns(l) THEN [row EXCEPT ![held[l]].status = status] ELSE row

Exhausted(attempts) == attempts >= MaxAttempts

(* complete(), then observed() with "done". *)
Complete(l) ==
  /\ pc[l] = "completing"
  /\ Writes(l, "done")
  /\ Leaves(l, NextPass)
  /\ UNCHANGED <<running, stop, sweeper, faults, broken>>

(* Seeded fault: the job is reported done all the same. *)
ReportsDone(l) == Leaves(l, NextPass)

(* complete() threw: catch goes on with fail(). *)
GivesUp(l) == Goto(l, "failing") /\ UNCHANGED <<held, token, overdue>>

(* complete() rejects, whether or not its write was committed. *)
CompleteFaults(l) ==
  /\ pc[l] = "completing" /\ Fault
  /\ Writes(l, "done") \/ UNCHANGED row
  /\ broken' = broken \cup {held[l]}
  /\ GivesUp(l)
  /\ UNCHANGED <<running, stop, sweeper>>

(* The last attempt, and a permanent failure, retire the job. *)
FailedAs(l) == {"failed"} \cup (IF Exhausted(token[l]) THEN {} ELSE {"ready"})

(* fail(), then observed() with its outcome. *)
Fail(l) ==
  /\ pc[l] = "failing"
  /\ \E status \in FailedAs(l) : Writes(l, status)
  /\ Leaves(l, NextPass)
  /\ UNCHANGED <<running, stop, sweeper, faults, broken>>

(* fail() rejects, whether or not its write was committed: out of runOnce. *)
FailFaults(l) ==
  /\ pc[l] = "failing" /\ Fault
  /\ (\E status \in FailedAs(l) : Writes(l, status)) \/ UNCHANGED row
  /\ broken' = broken \cup {held[l]}
  /\ Leaves(l, Contained)
  /\ UNCHANGED <<running, stop, sweeper>>

Wake(l) ==
  /\ pc[l] = "sleeping" /\ Goto(l, NextPass)
  /\ UNCHANGED <<running, stop, held, token, sweeper, row, faults, ghosts>>

-----------------------------------------------------------------------------
(* The reclaim loop wakes every pollMs; it sweeps when reclaimMs is over. *)
SweepWakes ==
  /\ sweeper = "sleeping"
  /\ sweeper' = IF running THEN "sweeping" ELSE "ended"
  /\ UNCHANGED <<running, stop, loopVars, row, faults, ghosts>>

Stalled(j) == row[j].status = "running" /\ row[j].lapsed

(* The two statements of reclaim(): the exhausted are retired, then the others *)
(* are ready again.                                                            *)
Retired == [j \in Jobs |-> IF Stalled(j) /\ Exhausted(row[j].attempts)
                           THEN [row[j] EXCEPT !.status = "failed"] ELSE row[j]]

Reclaimed == [j \in Jobs |-> IF Stalled(j) /\ ~Exhausted(row[j].attempts)
                             THEN [row[j] EXCEPT !.status = "ready"] ELSE Retired[j]]

Sweep ==
  /\ sweeper = "sweeping"
  /\ sweeper' = IF running THEN "sleeping" ELSE "ended"
  /\ row' = Reclaimed
  /\ UNCHANGED <<running, stop, loopVars, faults, ghosts>>

(* It rejects before, between or after them. *)
SweepFaults ==
  /\ sweeper = "sweeping" /\ Fault
  /\ sweeper' = IF running THEN "sleeping" ELSE "ended"
  /\ row' \in {row, Retired, Reclaimed}
  /\ UNCHANGED <<running, stop, loopVars, ghosts>>

(* The visibility deadline of a claim passes. *)
Lapse(j) ==
  /\ row[j].status = "running" /\ ~row[j].lapsed
  /\ row' = [row EXCEPT ![j].lapsed = TRUE]
  /\ overdue' = overdue \cup {l \in Loops : held[l] = j /\ token[l] = row[j].attempts}
  /\ UNCHANGED <<running, stop, loopVars, sweeper, faults, broken>>

-----------------------------------------------------------------------------
(* Seeded fault: the reclaim loop is not waited for. *)
JobLoopsEnded == \A l \in Loops : pc[l] = "ended"

(* Promise.all over every loop. *)
Drained == (\A l \in Loops : pc[l] = "ended") /\ sweeper = "ended"

StopAsked ==
  /\ stop = ""
  /\ stop' = "asked" /\ running' = FALSE
  /\ UNCHANGED <<loopVars, sweeper, row, faults, ghosts>>

StopReturns ==
  /\ stop = "asked" /\ Drained
  /\ stop' = "returned"
  /\ UNCHANGED <<running, loopVars, sweeper, row, faults, ghosts>>

LoopStep(l) ==
  \/ \E j \in Jobs : Claim(l, j)
  \/ Idle(l) \/ HandlerReturns(l) \/ HandlerThrows(l) \/ Wake(l)
  \/ Complete(l) \/ Fail(l)

SweepStep == SweepWakes \/ Sweep

Next ==
  \/ \E l \in Loops : LoopStep(l) \/ ClaimFaults(l) \/ CompleteFaults(l) \/ FailFaults(l)
  \/ SweepStep \/ SweepFaults
  \/ \E j \in Jobs : Lapse(j)
  \/ StopAsked \/ StopReturns

Spec == Init /\ [][Next]_vars

(* Every await settles, a handler's included, and a deadline passes.          *)
Fairness ==
  /\ \A l \in Loops : WF_vars(LoopStep(l))
  /\ WF_vars(SweepStep) /\ WF_vars(StopReturns)
  /\ \A j \in Jobs : WF_vars(Lapse(j))

FairSpec == Spec /\ Fairness

-----------------------------------------------------------------------------
(* Properties *)

(* What a stopped worker leaves running is a claim about which a statement    *)
(* rejected.                                                                  *)
NothingAbandoned ==
  stop = "returned" => \A j \in Jobs : row[j].status = "running" => j \in broken

(* A stop is clean, though a sweep, a claim or a handler was under way when   *)
(* it was called: no job is abandoned, and once stop() has returned the       *)
(* worker writes to the queue no more (queue.ts, work: a claimed job is       *)
(* finished before the flag is read again; drained).                          *)
StopsClean ==
  [][/\ NothingAbandoned'
     /\ stop = "returned" => \A j \in Jobs : row'[j].status = row[j].status]_vars

(* onJob is told "done" of a job that is not done only when the deadline of   *)
(* that very claim had passed (queue.ts, observed after complete).            *)
DoneReportsTrue ==
  [][\A l \in Loops :
       pc[l] = "completing" /\ pc'[l] \notin {"completing", "failing"} =>
         row'[held[l]].status = "done" \/ l \in overdue]_vars

(* A transient fault does not kill the worker: while it runs, a ready job is  *)
(* claimed sooner or later (queue.ts, the error boundary of loop).            *)
ReadyIsClaimed == \A j \in Jobs : row[j].status = "ready" ~> (row[j].status # "ready" \/ ~running)

(* stop() returns (queue.ts, work: every loop reads the flag again).          *)
StopEnds == stop = "asked" ~> stop = "returned"

(* The loops go on until they are told to stop, and then end (queue.ts, work).*)
LoopsGoOn == ReadyIsClaimed /\ StopEnds
=============================================================================
