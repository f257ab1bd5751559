----------------------------- MODULE MCProcess -----------------------------
(***************************************************************************)
(* A small instance of what runs in one process.  In a server: the         *)
(* workflow engine, the polling worker, the cron and interval scheduler,   *)
(* the retention scheduler, the replication source, the SQLite connection, *)
(* the shutdown.  In a browser: the outbox of a live query.  They share no *)
(* state, so a behaviour is a behaviour of one of them, chosen at the      *)
(* start; the others keep their initial state.                             *)
(***************************************************************************)
EXTENDS Workflows, Sequences

CONSTANTS
  Loops, Jobs, MaxAttempts, MaxRejects, \* Worker
  Crons, Intervals, Ticks, PerMinute, MaxNow, \* Scheduler
  Cadences, MaxLag,                 \* Retention
  MaxErrors,                        \* ReplicationSource
  Spans, Loose, MaxThrows,          \* SyncSqlite
  Conns, MaxRequests,               \* Shutdown
  Rows, Outside, MaxWrites, MaxBreaks \* Outbox

VARIABLES
  part,                                                       \* who runs
  wRunning, wStop, wPc, wHeld, wToken, wSweeper, wRow,        \* Worker
  wFaults, wBroken, wOverdue,
  now, running, ticking, phase, startedAt, left, last, fired, \* Scheduler
  rRunning, rTicking, rCur, rLag, rSince,                     \* Retention
  pClient, pConns, pSlot, pStarted, pStopped, pSlotCreated,   \* ReplicationSource
  pConnected, pReconnecting, pRun, pStop, pUnheard, pFaults,
  qChain, qPc, qOpen, qPending, qDisk, qAcked, qFaults,       \* SyncSqlite
  qBlamed, qJoined, qStuck,
  hShuttingDown, hBackstop, hForce, hStep, hFailed,           \* Shutdown
  hAccepting, hGrace, hConn, hHandling, hExits, hRequests, hOrphaned, hSucceeded,
  oLog, oFate, oTarget, oFlight, oQueue, oOverlay, oHeldIds,  \* Outbox
  oTimers, oRows, oCursor, oOpen, oPos, oChain, oFrozen, oDurRows, oDurCursor,
  oDurLog, oLogged, oTorn, oFaults

(* Every minute; a list with a range and steps, one of them impossible. *)
MCCrons ==
  << {[kind |-> "any"]},
     {[kind |-> "step", n |-> 2], [kind |-> "exact", n |-> 1],
      [kind |-> "range", lo |-> 2, hi |-> 3], [kind |-> "step", n |-> 0]} >>

MCIntervals == <<2, 3>>

(* Each cadence is long enough for the timer to find every other task idle. *)
Spaced == <<4, 5, 2>>

W == INSTANCE Worker WITH
  NoJob <- None, MaxFaults <- MaxRejects, running <- wRunning, stop <- wStop, pc <- wPc,
  held <- wHeld, token <- wToken, sweeper <- wSweeper, row <- wRow, faults <- wFaults,
  broken <- wBroken, overdue <- wOverdue

S == INSTANCE Scheduler WITH at <- startedAt

R == INSTANCE Retention WITH
  EveryMs <- Cadences, running <- rRunning, ticking <- rTicking, cur <- rCur, lag <- rLag,
  since <- rSince

P == INSTANCE ReplicationSource WITH
  MaxFaults <- MaxErrors, client <- pClient, conns <- pConns, slot <- pSlot, started <- pStarted,
  stopped <- pStopped, slotCreated <- pSlotCreated, connected <- pConnected,
  reconnecting <- pReconnecting, run <- pRun, stop <- pStop, unheard <- pUnheard, faults <- pFaults

Q == INSTANCE SyncSqlite WITH
  MaxFaults <- MaxThrows, chain <- qChain, pc <- qPc, open <- qOpen, pending <- qPending,
  disk <- qDisk, acked <- qAcked, faults <- qFaults, blamed <- qBlamed, joined <- qJoined,
  stuck <- qStuck

H == INSTANCE Shutdown WITH
  Backstops <- BOOLEAN, shuttingDown <- hShuttingDown, backstop <- hBackstop, force <- hForce,
  step <- hStep, failed <- hFailed, accepting <- hAccepting, grace <- hGrace, conn <- hConn,
  handling <- hHandling, exits <- hExits, requests <- hRequests, orphaned <- hOrphaned,
  succeeded <- hSucceeded

O == INSTANCE Outbox WITH
  Keys <- Rows, MaxFaults <- MaxBreaks, log <- oLog, fate <- oFate, target <- oTarget,
  flight <- oFlight, queue <- oQueue, overlay <- oOverlay, heldIds <- oHeldIds, timers <- oTimers,
  rows <- oRows, cursor <- oCursor, open <- oOpen, pos <- oPos, chain <- oChain, frozen <- oFrozen,
  durRows <- oDurRows, durCursor <- oDurCursor, durLog <- oDurLog, logged <- oLogged,
  torn <- oTorn, faults <- oFaults

ASSUME SchedulerConstants == S!SchedulerAssumption
ASSUME LooseConstants == Q!LooseAssumption
ASSUME SourceConstants == P!FaultsAssumption

wvars == <<wRunning, wStop, wPc, wHeld, wToken, wSweeper, wRow, wFaults, wBroken, wOverdue>>
svars == <<now, running, ticking, phase, startedAt, left, last, fired>>
rvars == <<rRunning, rTicking, rCur, rLag, rSince>>

pvars == <<pClient, pConns, pSlot, pStarted, pStopped, pSlotCreated, pConnected, pReconnecting, pRun,
           pStop, pUnheard, pFaults>>
qvars == <<qChain, qPc, qOpen, qPending, qDisk, qAcked, qFaults, qBlamed, qJoined, qStuck>>
hvars == <<hShuttingDown, hBackstop, hForce, hStep, hFailed, hAccepting, hGrace, hConn, hHandling,
           hExits, hRequests, hOrphaned, hSucceeded>>

ovars == <<oLog, oFate, oTarget, oFlight, oQueue, oOverlay, oHeldIds, oTimers, oRows, oCursor, oOpen,
           oPos, oChain, oFrozen, oDurRows, oDurCursor, oDurLog, oLogged, oTorn, oFaults>>

MCInit ==
  /\ part \in {"workflows", "worker", "scheduler", "retention", "replication", "sqlite",
              "shutdown", "outbox"}
  /\ Init /\ W!Init /\ S!Init /\ R!Init /\ P!Init /\ Q!Init /\ H!Init /\ O!Init
  /\ part # "shutdown" => hBackstop

MCNext ==
  /\ UNCHANGED part
  /\ \/ part = "workflows" /\ Next
        /\ UNCHANGED <<wvars, svars, rvars, pvars, qvars, hvars, ovars>>
     \/ part = "worker" /\ W!Next
        /\ UNCHANGED <<vars, svars, rvars, pvars, qvars, hvars, ovars>>
     \/ part = "scheduler" /\ S!Next
        /\ UNCHANGED <<vars, wvars, rvars, pvars, qvars, hvars, ovars>>
     \/ part = "retention" /\ R!Next
        /\ UNCHANGED <<vars, wvars, svars, pvars, qvars, hvars, ovars>>
     \/ part = "replication" /\ P!Next
        /\ UNCHANGED <<vars, wvars, svars, rvars, qvars, hvars, ovars>>
     \/ part = "sqlite" /\ Q!Next
        /\ UNCHANGED <<vars, wvars, svars, rvars, pvars, hvars, ovars>>
     \/ part = "shutdown" /\ H!Next
        /\ UNCHANGED <<vars, wvars, svars, rvars, pvars, qvars, ovars>>
     \/ part = "outbox" /\ O!Next
        /\ UNCHANGED <<vars, wvars, svars, rvars, pvars, qvars, hvars>>

(* The Fairness of each module, each in its own behaviours. *)
MCFairness ==
  /\ \A l \in Loops : WF_wvars(part = "worker" /\ W!LoopStep(l))
  /\ WF_wvars(part = "worker" /\ W!SweepStep)
  /\ WF_wvars(part = "worker" /\ W!StopReturns)
  /\ \A j \in Jobs : WF_wvars(part = "worker" /\ W!Lapse(j))
  /\ WF_svars(part = "scheduler" /\ \E t \in Ticks : S!Fire(t))
  /\ WF_svars(part = "scheduler" /\ S!Advance)
  /\ WF_rvars(part = "retention" /\ R!Cadence)
  /\ \A t \in Ticks : /\ WF_svars(part = "scheduler" /\ S!Settle(t))
                      /\ WF_rvars(part = "retention" /\ R!Settle(t))
  /\ \A s \in P!Numbers : WF_pvars(part = "replication" /\ (P!SessionStep(s) \/ P!CallFails(s)))
  /\ \A s \in Spans : WF_qvars(part = "sqlite" /\ Q!SpanStep(s))
  /\ WF_hvars(part = "shutdown" /\ H!ForceExit)
  /\ WF_hvars(part = "shutdown" /\ H!GraceExpires)
  /\ WF_hvars(part = "shutdown" /\ H!FinishesDrain)
  /\ WF_hvars(part = "shutdown" /\ H!Exit)
  /\ WF_ovars(part = "outbox" /\ O!Drain)
  /\ WF_ovars(part = "outbox" /\ O!Stream)
  /\ WF_ovars(part = "outbox" /\ O!WriteLands)
  /\ \A w \in 1 .. MaxWrites : WF_ovars(part = "outbox" /\ O!Grace(w))

MCSpec ==
  MCInit /\ [][MCNext]_<<part, vars, wvars, svars, rvars, pvars, qvars, hvars, ovars>> /\ MCFairness

-----------------------------------------------------------------------------
(* A stop of the worker abandons no job, and after it the worker writes no    *)
(* more (queue.ts, work: drained).                                            *)
StopsClean == W!StopsClean

(* onJob is told "done" of a job that is not done only when the deadline of   *)
(* that very claim had passed (queue.ts, observed).                           *)
DoneReportsTrue == W!DoneReportsTrue

(* While the worker runs, a ready job is claimed sooner or later, and stop()  *)
(* returns (queue.ts, the loops of work and their error boundary).            *)
LoopsGoOn == part = "worker" => W!LoopsGoOn

(* A cron entry is enqueued at most once for a minute and an interval entry   *)
(* never early, ticks do not overlap, and none that is due stays due          *)
(* (scheduler.ts, tick and start).                                            *)
CadenceKept == part = "scheduler" => S!CadenceKept

(* A retention task that is due is run sooner or later, whatever the others   *)
(* do, and ticks do not overlap (retention.ts, lastRunAt stamped before the   *)
(* await; the flag of start).                                                 *)
NoStarvation == part = "retention" => []R!OneAtATime /\ R!NoStarvation

(* Repeated errors leave no client that nobody will end; after stop() no      *)
(* connection is left and no slot holds back the WAL (replication.ts,         *)
(* #reconnect and #abortIfStopped).                                           *)
NothingLeaks == P!NothingLeaks

(* A source that once streamed streams again after every error, until it is   *)
(* stopped (replication.ts, #reconnect).                                      *)
StreamsAgain == part = "replication" => P!StreamsAgain

(* A span is committed whole or not at all, its promise says which, and it    *)
(* fails for an error of its own (sync-sqlite.ts, transaction).               *)
SpansIsolated == Q!SpansIsolated

(* Every span that is asked for settles (sync-sqlite.ts, flat nesting).       *)
EverySpanSettles == part = "sqlite" => Q!EverySpanSettles

(* No handler whose client still waits works when onClosed() closes the       *)
(* database, and exit(0) says that every step of the teardown succeeded       *)
(* (server.ts, drainServer; graceful-shutdown.ts, onShutdownSignals).         *)
ShutdownOrderly == H!ShutdownOrderly

(* A process that got a signal exits, though a hook or a handler may hang for *)
(* ever (graceful-shutdown.ts, the force-exit timer).                         *)
AlwaysExits == part = "shutdown" => H!AlwaysExits

(* Every write settles (outbox.ts, the drain and the grace timer).            *)
EveryWriteSettles == part = "outbox" => O!EveryWriteSettles
=============================================================================
