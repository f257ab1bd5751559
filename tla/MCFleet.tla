------------------------------ MODULE MCFleet ------------------------------
(***************************************************************************)
(* A small instance of what a fleet and its clients share through the      *)
(* database: a batch of the job queue, the rate limiter, the migrator,     *)
(* the mailing lists, the topics announced with NOTIFY, and the writes of  *)
(* a client's outbox.  They share no table, so a behaviour is a behaviour  *)
(* of one of them, chosen at the start; the others keep their initial      *)
(* state.                                                                  *)
(***************************************************************************)
EXTENDS JobQueue, TLC

CONSTANTS
  NoOne,
  Checkers, Capacity, Cost, Retention, MaxNow,                  \* RateLimit
  Callers, NumVersions, MaxThrows,                              \* Migrator
  Emails, Requests, NoEmail, ChunkSize, MaxTokens, MaxRuns,     \* MailingLists
  Topics, MaxEntries, MaxQueue, MaxWrites, MaxFaults,           \* Realtime
  Rows, Outside, MaxBreaks                                      \* Outbox

VARIABLES
  part,                                                         \* who runs
  lNow, lDialect, lRow, lHolder, lQueue, lPc, lAt, lRead,       \* RateLimit
  lRetried, lSweep, lSpent, lMark, lRewound, lRaced, lRefused, lDeleted,
  gDialect, gLedger, gLock, gCall, gStaged, gFaults, gThrown,   \* Migrator
  gCrossed,
  mSub, mMinted, mFound, mStatus, mDelivery, mRun, mMails,      \* MailingLists
  mOptedOut, mOvertaken, mRecipients, mEarly, mTorn, mShared,
  rVersion, rNotify, rListening, rRing, rStream, rFrames,       \* Realtime
  rLastId, rSeen, rFaults, rMissed, rExcused,
  oLog, oFate, oTarget, oFlight, oQueue, oOverlay, oHeldIds,    \* Outbox
  oTimers, oRows, oCursor, oOpen, oPos, oChain, oFrozen, oDurRows, oDurCursor,
  oDurLog, oLogged, oTorn, oFaults

(* Two independent steps and a third that waits for both; and a list with a *)
(* forward edge, which enqueueBatch refuses.                                *)
FanIn == {<<{}, {}, {1, 2}>>, <<{2}, {}>>}

AnyWorker == Permutations(Workers)

Both == {"sqlite", "postgres"}

L == INSTANCE RateLimit WITH
  Dialects <- Both, now <- lNow, dialect <- lDialect, row <- lRow, holder <- lHolder,
  queue <- lQueue, pc <- lPc, at <- lAt, read <- lRead, retried <- lRetried, sweep <- lSweep,
  spent <- lSpent, mark <- lMark, rewound <- lRewound, raced <- lRaced, refused <- lRefused,
  deleted <- lDeleted

G == INSTANCE Migrator WITH
  Dialects <- Both, MaxFaults <- MaxThrows, dialect <- gDialect, ledger <- gLedger, lock <- gLock,
  call <- gCall, staged <- gStaged, faults <- gFaults, thrown <- gThrown, crossed <- gCrossed

M == INSTANCE MailingLists WITH
  sub <- mSub, minted <- mMinted, found <- mFound, status <- mStatus, delivery <- mDelivery,
  run <- mRun, mails <- mMails, optedOut <- mOptedOut, overtaken <- mOvertaken,
  recipients <- mRecipients, early <- mEarly, torn <- mTorn, shared <- mShared

R == INSTANCE Realtime WITH
  version <- rVersion, notify <- rNotify, listening <- rListening, ring <- rRing,
  stream <- rStream, frames <- rFrames, lastId <- rLastId, seen <- rSeen, faults <- rFaults,
  missed <- rMissed, excused <- rExcused

O == INSTANCE Outbox WITH
  Keys <- Rows, MaxFaults <- MaxBreaks, log <- oLog, fate <- oFate, target <- oTarget,
  flight <- oFlight, queue <- oQueue, overlay <- oOverlay, heldIds <- oHeldIds, timers <- oTimers,
  rows <- oRows, cursor <- oCursor, open <- oOpen, pos <- oPos, chain <- oChain, frozen <- oFrozen,
  durRows <- oDurRows, durCursor <- oDurCursor, durLog <- oDurLog, logged <- oLogged,
  torn <- oTorn, faults <- oFaults

ASSUME BucketConstants == L!BucketAssumption /\ L!RetentionAssumption /\ L!NoOneAssumption
ASSUME MigratorConstants == G!MigratorAssumption
ASSUME MailingConstants == M!MailingAssumption
ASSUME RealtimeConstants == R!RealtimeAssumption
ASSUME OutboxConstants == O!OutboxAssumption

lvars == <<lNow, lDialect, lRow, lHolder, lQueue, lPc, lAt, lRead, lRetried, lSweep, lSpent, lMark,
           lRewound, lRaced, lRefused, lDeleted>>
gvars == <<gDialect, gLedger, gLock, gCall, gStaged, gFaults, gThrown, gCrossed>>
mvars == <<mSub, mMinted, mFound, mStatus, mDelivery, mRun, mMails, mOptedOut, mOvertaken,
           mRecipients, mEarly, mTorn, mShared>>
rvars == <<rVersion, rNotify, rListening, rRing, rStream, rFrames, rLastId, rSeen, rFaults, rMissed,
           rExcused>>
ovars == <<oLog, oFate, oTarget, oFlight, oQueue, oOverlay, oHeldIds, oTimers, oRows, oCursor, oOpen,
           oPos, oChain, oFrozen, oDurRows, oDurCursor, oDurLog, oLogged, oTorn, oFaults>>

MCInit ==
  /\ part \in {"queue", "ratelimit", "migrator", "mailing", "realtime", "outbox"}
  /\ Init /\ L!Init /\ G!Init /\ M!Init /\ R!Init /\ O!Init
  /\ part # "ratelimit" => lDialect = "sqlite"
  /\ part # "migrator" => gDialect = "sqlite"

MCNext ==
  /\ UNCHANGED part
  /\ \/ part = "queue" /\ Next /\ UNCHANGED <<lvars, gvars, mvars, rvars, ovars>>
     \/ part = "ratelimit" /\ L!Next /\ UNCHANGED <<vars, gvars, mvars, rvars, ovars>>
     \/ part = "migrator" /\ G!Next /\ UNCHANGED <<vars, lvars, mvars, rvars, ovars>>
     \/ part = "mailing" /\ M!Next /\ UNCHANGED <<vars, lvars, gvars, rvars, ovars>>
     \/ part = "realtime" /\ R!Next /\ UNCHANGED <<vars, lvars, gvars, mvars, ovars>>
     \/ part = "outbox" /\ O!Next /\ UNCHANGED <<vars, lvars, gvars, mvars, rvars>>

MCSpec == MCInit /\ [][MCNext]_<<part, vars, lvars, gvars, mvars, rvars, ovars>>

-----------------------------------------------------------------------------
(* The fleet never spends more than the capacity and the refill since the     *)
(* start; on SQLite no time is credited twice unless a sweep deleted the row; *)
(* a check is refused only when a sweep came between its two attempts         *)
(* (limiter.ts, check; sql-store.ts, update).                                 *)
BucketSound == L!BucketSound

(* No version is applied before the ones it builds on, and instances that     *)
(* boot at once on Postgres do not fail each other (migrator.ts, migrate and  *)
(* withMigrationLock).                                                        *)
BootsAgree == G!BootsAgree

(* An address that opted out stays out until it asks to be subscribed again   *)
(* (mailing-lists.ts, confirm and unsubscribe).                               *)
OptOutHolds == M!OptOutHolds

(* Of a broadcast marked sent no recipient was left without a mail, and a     *)
(* second mail goes out only where a run died between the job and its mark,   *)
(* or where two runs loaded the row at once (mailing-lists.ts,                *)
(* drainDeliveries).                                                          *)
MailedOnce == M!MailedOnce

(* A client whose stream is open and read shows the newest data of every      *)
(* topic, four excused cases apart (replay-ring.ts, connection.ts).           *)
NeverSilentlyStale == R!NeverSilentlyStale

(* The persisted cursor stands for exactly the persisted rows, and a logged   *)
(* write stays until the server has given its verdict (sqlite-store.ts, the   *)
(* frozen guard; outbox.ts, settle).                                          *)
DurableTruthful == O!DurableTruthful

(* A write without an answer stays visible, and the server's last word on a   *)
(* row is the newest of the client's writes to it (read-model.ts, settleEcho; *)
(* outbox.ts, FIFO drain).                                                    *)
IntentPrevails == O!IntentPrevails
=============================================================================
