------------------------------ MODULE MCCopies ------------------------------
(***************************************************************************)
(* A small instance of what keeps a copy of data for several users of it:  *)
(* the cache, its bounded store, and the tabs of a live query.  They share *)
(* no state, so a behaviour is a behaviour of one of them, chosen at the   *)
(* start; the others keep their initial state.                             *)
(***************************************************************************)
EXTENDS Cache

CONSTANTS
  MemoryKeys, MaxEntries, MemoryTtls, MaxMemoryNow, MaxUses,  \* MemoryStore
  Tabs, TabWrites, NoTab, MaxChanges, MaxTabFaults            \* CrossTab

VARIABLES
  part,                                                       \* who runs
  mNow, mOrder, mDeadline, mUses, mUsedAt,                    \* MemoryStore
  tLog, tPoster, tUnused, tDurable, tHandle, tDisk, tLock,    \* CrossTab
  tWaiting, tTab, tActing, tStage, tStale, tStore, tInbox, tFaults

M == INSTANCE MemoryStore WITH
  Keys <- MemoryKeys, Ttls <- MemoryTtls, MaxNow <- MaxMemoryNow, now <- mNow, order <- mOrder,
  deadline <- mDeadline, uses <- mUses, usedAt <- mUsedAt

T == INSTANCE CrossTab WITH
  Writes <- TabWrites, Durables <- BOOLEAN, MaxFaults <- MaxTabFaults, log <- tLog,
  poster <- tPoster, unused <- tUnused, durable <- tDurable, handle <- tHandle, disk <- tDisk,
  lock <- tLock, waiting <- tWaiting, tab <- tTab, acting <- tActing, stage <- tStage,
  stale <- tStale, store <- tStore, inbox <- tInbox, faults <- tFaults

ASSUME TabConstants == T!NoTabAssumption
ASSUME MemoryConstants == M!MaxEntriesAssumption

mvars == <<mNow, mOrder, mDeadline, mUses, mUsedAt>>
tvars == <<tLog, tPoster, tUnused, tDurable, tHandle, tDisk, tLock, tWaiting, tTab, tActing, tStage,
           tStale, tStore, tInbox, tFaults>>

MCInit ==
  /\ part \in {"cache", "memory", "tabs"}
  /\ Init /\ M!Init /\ T!Init
  /\ part # "tabs" => tDurable

MCNext ==
  /\ UNCHANGED part
  /\ \/ part = "cache" /\ Next /\ UNCHANGED <<mvars, tvars>>
     \/ part = "memory" /\ M!Next /\ UNCHANGED <<vars, tvars>>
     \/ part = "tabs" /\ T!Next /\ UNCHANGED <<vars, mvars>>

(* The Fairness of each module, each in its own behaviours. *)
MCFairness ==
  /\ \A c \in Callers : WF_vars(part = "cache" /\ Continue(c))
  /\ \A d \in Deleters : WF_vars(part = "cache" /\ DeleteStep(d))
  /\ WF_tvars(part = "tabs" /\ T!Grant)
  /\ \A t \in Tabs : /\ WF_tvars(part = "tabs" /\ T!TabStep(t))
                     /\ WF_tvars(part = "tabs" /\ ~T!Opens(t) /\ T!FailsToOpen(t))
  /\ \A w \in TabWrites : WF_tvars(part = "tabs" /\ (T!PostLands(w) \/ T!PostRefused(w)))

MCSpec == MCInit /\ [][MCNext]_<<part, vars, mvars, tvars>> /\ MCFairness

-----------------------------------------------------------------------------
(* A set evicts a live entry only when all that stay are alive and were used  *)
(* after it (memory-store.ts, evictOverflow).                                 *)
EvictsTheRightOne == M!EvictsTheRightOne

(* Every call returns, those that joined another's compute included           *)
(* (cache.ts, remember).                                                      *)
CallsReturn == part = "cache" => EveryCallReturns

(* Two tabs never have a connection at once, and a term that is over leaves   *)
(* neither the lock nor the durable store behind (cross-tab.ts, stopLeading). *)
TermsSound == T!OneConnection /\ T!NothingOrphaned

(* While some tab still bids, one leads, and every tab shows what it shows    *)
(* (cross-tab.ts, leader.ts).                                                 *)
TabsConverge == part = "tabs" => T!TabsConverge
=============================================================================
