------------------------------- MODULE Cache -------------------------------
(***************************************************************************)
(* The TTL cache of @lesto/cache (packages/cache/src/cache.ts): callers of *)
(* read, write, fetch and remember, and invalidators that call delete and  *)
(* clear, over one shared store in one process.                            *)
(*                                                                         *)
(* A call of the store takes effect in one step and its await resumes in   *)
(* another; between the two every other caller may move.  The memory store *)
(* takes effect when it is called, the SQL store (sql-store.ts) later: the *)
(* two calls whose delay matters, set and delete, are steps of their own.  *)
(***************************************************************************)
EXTENDS Integers

CONSTANTS
  Keys,         \* cache keys
  Callers,      \* concurrent calls of read, write, fetch or remember
  Deleters,     \* concurrent calls of delete or clear
  Ops,          \* which of the caller's operations are used
  Ttls,         \* ttlMs of a write; Forever stands for none
  MaxNow,       \* bound: where the clock stops
  MaxDeletes    \* bound: how many deletes are issued

CONSTANTS None, Forever  \* no entry or no leader; no deadline

ASSUME BoundsAssumption == MaxNow \in Nat /\ MaxDeletes \in Nat
ASSUME OpsAssumption == Ops \subseteq {"read", "write", "fetch", "remember"}
ASSUME TtlAssumption == Ttls \subseteq Nat \cup {Forever} /\ Forever \notin Nat
ASSUME NoneAssumption == None \notin Callers \cup Keys

VARIABLES
  now,      \* the clock
  store,    \* per key: the entry, its deadline and when its compute began
  ledger,   \* inFlight, per key: the caller whose token the entry bears
  pc,       \* per caller: where its call is
  op,       \* per caller: the operation
  key,      \* per caller: the key
  got,      \* per caller: the entry read, later the entry it writes
  leader,   \* per caller: whose promise it joined
  dpc,      \* per deleter: where its call is
  scope,    \* per deleter: the keys it forgets, one or all of them
  issued,   \* per deleter: the number of its delete
  deletes,  \* how many deletes were issued
  drops,    \* ghost: per key, how many deletes dropped its ledger entry
  born,     \* ghost: per caller, how many deletes were issued when its compute began
  epoch,    \* ghost: per caller, drops of its key when its compute began
  floor     \* ghost: per key, the latest delete that returned

callVars == <<pc, op, key, got, leader, born, epoch>>
deleteVars == <<dpc, scope, issued, deletes, drops, floor>>
vars == <<now, store, ledger, callVars, deleteVars>>

Init ==
  /\ now = 0
  /\ store = [k \in Keys |-> None]
  /\ ledger = [k \in Keys |-> None]
  /\ pc = [c \in Callers |-> "idle"]
  /\ op = [c \in Callers |-> None]
  /\ key = [c \in Callers |-> None]
  /\ got = [c \in Callers |-> None]
  /\ leader = [c \in Callers |-> None]
  /\ dpc = [d \in Deleters |-> "idle"]
  /\ scope = [d \in Deleters |-> {}]
  /\ issued = [d \in Deleters |-> 0]
  /\ deletes = 0
  /\ drops = [k \in Keys |-> 0]
  /\ born = [c \in Callers |-> 0]
  /\ epoch = [c \in Callers |-> 0]
  /\ floor = [k \in Keys |-> 0]

Goto(c, l) == pc' = [pc EXCEPT ![c] = l]

Expired(e) == e.expiresAt # Forever /\ e.expiresAt <= now

(* The entry write() hands to the store: its deadline counts from now. *)
Entry(c, ttl) ==
  [expiresAt |-> IF ttl = Forever THEN Forever ELSE now + ttl, born |-> born[c]]

(* read, fetch and remember begin with store.get. *)
Get(c) ==
  /\ pc[c] = "idle"
  /\ \E o \in Ops \ {"write"}, k \in Keys :
       /\ op' = [op EXCEPT ![c] = o]
       /\ key' = [key EXCEPT ![c] = k]
       /\ got' = [got EXCEPT ![c] = store[k]]
  /\ Goto(c, "got")
  /\ UNCHANGED <<now, store, ledger, leader, born, epoch, deleteVars>>

(* write: straight to store.set. *)
Put(c) ==
  /\ pc[c] = "idle"
  /\ "write" \in Ops
  /\ op' = [op EXCEPT ![c] = "write"]
  /\ \E k \in Keys : key' = [key EXCEPT ![c] = k]
  /\ \E ttl \in Ttls : got' = [got EXCEPT ![c] = [Entry(c, ttl) EXCEPT !.born = deletes]]
  /\ Goto(c, "writing")
  /\ UNCHANGED <<now, store, ledger, leader, born, epoch, deleteVars>>

(* The read goes on: a live entry is returned, a dead one is deleted first. *)
Hit(c) ==
  /\ pc[c] = "got"
  /\ got[c] # None
  /\ IF Expired(got[c]) THEN Goto(c, "evicting") ELSE Goto(c, "idle")
  /\ UNCHANGED <<now, store, ledger, op, key, got, leader, born, epoch, deleteVars>>

(* store.delete of an entry found expired: it takes whatever is there now. *)
Evict(c) ==
  /\ pc[c] = "evicting"
  /\ store' = [store EXCEPT ![key[c]] = None]
  /\ got' = [got EXCEPT ![c] = None]
  /\ Goto(c, "got")
  /\ UNCHANGED <<now, ledger, op, key, leader, born, epoch, deleteVars>>

Missed(c) == pc[c] = "got" /\ got[c] = None

(* read() returns undefined. *)
ReadMiss(c) ==
  /\ Missed(c)
  /\ op[c] = "read"
  /\ Goto(c, "idle")
  /\ UNCHANGED <<now, store, ledger, op, key, got, leader, born, epoch, deleteVars>>

Compute(c) ==
  /\ Goto(c, "computing")
  /\ born' = [born EXCEPT ![c] = deletes]
  /\ epoch' = [epoch EXCEPT ![c] = drops[key[c]]]

(* fetch() produces, with no ledger. *)
Produce(c) ==
  /\ Missed(c)
  /\ op[c] = "fetch"
  /\ Compute(c)
  /\ UNCHANGED <<now, store, ledger, op, key, got, leader, deleteVars>>

(* Seeded fault: a miss never joins. *)
NobodyInFlight(k) == FALSE

(* inFlight.get(key) !== undefined *)
InFlight(k) == ledger[k] # None

(* remember() joins the compute in flight. *)
Join(c) ==
  /\ Missed(c)
  /\ op[c] = "remember"
  /\ InFlight(key[c])
  /\ leader' = [leader EXCEPT ![c] = ledger[key[c]]]
  /\ Goto(c, "joined")
  /\ UNCHANGED <<now, store, ledger, op, key, got, born, epoch, deleteVars>>

(* remember() leads: compute starts and the ledger entry is parked in one go. *)
Lead(c) ==
  /\ Missed(c)
  /\ op[c] = "remember"
  /\ ~InFlight(key[c])
  /\ ledger' = [ledger EXCEPT ![key[c]] = c]
  /\ Compute(c)
  /\ UNCHANGED <<now, store, op, key, got, leader, deleteVars>>

(* Seeded fault: any ledger entry will do. *)
SomeToken(c) == ledger[key[c]] # None

(* inFlight.get(key)?.token === token *)
HoldsToken(c) == ledger[key[c]] = c

(* Seeded fault: a suppressed write leaves the waiters waiting. *)
OnlyCaller(c) == {c}

(* Everyone the promise of c answers: c itself and those who joined it. *)
Answered(c) == {c} \cup {d \in Callers : pc[d] = "joined" /\ leader[d] = c}

(* The promise settles: finally drops the ledger entry if it is still ours. *)
SettlePromise(c) ==
  /\ pc' = [d \in Callers |-> IF d \in Answered(c) THEN "idle" ELSE pc[d]]
  /\ ledger' = IF HoldsToken(c) THEN [ledger EXCEPT ![key[c]] = None] ELSE ledger

(* compute resolved: remember writes only while the token is still its own. *)
Store(c) ==
  /\ pc[c] = "computing"
  /\ op[c] = "remember" => HoldsToken(c)
  /\ \E ttl \in Ttls : got' = [got EXCEPT ![c] = Entry(c, ttl)]
  /\ Goto(c, "writing")
  /\ UNCHANGED <<now, store, ledger, op, key, leader, born, epoch, deleteVars>>

Suppress(c) ==
  /\ pc[c] = "computing"
  /\ op[c] = "remember"
  /\ ~HoldsToken(c)
  /\ SettlePromise(c)
  /\ UNCHANGED <<now, store, op, key, got, leader, born, epoch, deleteVars>>

(* Seeded fault: a failure leaves the ledger alone. *)
RejectOnly(c) ==
  /\ pc[c] \in {"computing", "writing"}
  /\ pc' = [d \in Callers |-> IF d \in Answered(c) THEN "idle" ELSE pc[d]]
  /\ UNCHANGED <<now, store, ledger, op, key, got, leader, born, epoch, deleteVars>>

(* compute or store.set rejects: nothing is cached, every waiter rejects. *)
Reject(c) ==
  /\ pc[c] \in {"computing", "writing"}
  /\ SettlePromise(c)
  /\ UNCHANGED <<now, store, op, key, got, leader, born, epoch, deleteVars>>

(* store.set takes effect. *)
SetLands(c) ==
  /\ pc[c] = "writing"
  /\ store' = [store EXCEPT ![key[c]] = got[c]]
  /\ Goto(c, "written")
  /\ UNCHANGED <<now, ledger, op, key, got, leader, born, epoch, deleteVars>>

(* Its await resumes and the call returns. *)
SetReturns(c) ==
  /\ pc[c] = "written"
  /\ SettlePromise(c)
  /\ UNCHANGED <<now, store, op, key, got, leader, born, epoch, deleteVars>>

(* delete(key), or clear(): the call of the store. *)
Delete(d) ==
  /\ dpc[d] = "idle"
  /\ deletes < MaxDeletes
  /\ deletes' = deletes + 1
  /\ issued' = [issued EXCEPT ![d] = deletes + 1]
  /\ \E S \in {{k} : k \in Keys} \cup {Keys} : scope' = [scope EXCEPT ![d] = S]
  /\ dpc' = [dpc EXCEPT ![d] = "deleting"]
  /\ UNCHANGED <<now, store, ledger, callVars, drops, floor>>

DeleteLands(d) ==
  /\ dpc[d] = "deleting"
  /\ store' = [k \in Keys |-> IF k \in scope[d] THEN None ELSE store[k]]
  /\ dpc' = [dpc EXCEPT ![d] = "deleted"]
  /\ UNCHANGED <<now, ledger, callVars, scope, issued, deletes, drops, floor>>

(* Its await resumes: the ledger entries are dropped and the call returns. *)
DeleteReturns(d) ==
  /\ dpc[d] = "deleted"
  /\ ledger' = [k \in Keys |-> IF k \in scope[d] THEN None ELSE ledger[k]]
  /\ drops' = [k \in Keys |-> IF k \in scope[d] THEN drops[k] + 1 ELSE drops[k]]
  /\ floor' = [k \in Keys |-> IF k \in scope[d] /\ floor[k] < issued[d]
                              THEN issued[d] ELSE floor[k]]
  /\ dpc' = [dpc EXCEPT ![d] = "idle"]
  /\ UNCHANGED <<now, store, callVars, scope, issued, deletes>>

(* The store's delete rejects, and so does the call. *)
DeleteFaults(d) ==
  /\ dpc[d] = "deleting"
  /\ dpc' = [dpc EXCEPT ![d] = "idle"]
  /\ UNCHANGED <<now, store, ledger, callVars, scope, issued, deletes, drops, floor>>

(* The SQL store's sweep(now), run by a retention task: strictly past deadlines. *)
Sweep ==
  /\ store' = [k \in Keys |->
                 IF store[k] # None /\ store[k].expiresAt # Forever /\ store[k].expiresAt < now
                 THEN None ELSE store[k]]
  /\ UNCHANGED <<now, ledger, callVars, deleteVars>>

Advance ==
  /\ now < MaxNow
  /\ now' = now + 1
  /\ UNCHANGED <<store, ledger, callVars, deleteVars>>

Continue(c) ==
  \/ Hit(c) \/ Evict(c) \/ ReadMiss(c) \/ Produce(c) \/ Join(c) \/ Lead(c)
  \/ Store(c) \/ Suppress(c) \/ Reject(c) \/ SetLands(c) \/ SetReturns(c)

DeleteStep(d) == DeleteLands(d) \/ DeleteReturns(d) \/ DeleteFaults(d)

Next ==
  \/ \E c \in Callers : Get(c) \/ Put(c) \/ Continue(c)
  \/ \E d \in Deleters : Delete(d) \/ DeleteStep(d)
  \/ Sweep
  \/ Advance

Spec == Init /\ [][Next]_vars

(* Every await resumes: the store answers and compute settles. *)
Fairness ==
  /\ \A c \in Callers : WF_vars(Continue(c))
  /\ \A d \in Deleters : WF_vars(DeleteStep(d))

FairSpec == Spec /\ Fairness

-----------------------------------------------------------------------------
(* Properties *)

Leading(c) == op[c] = "remember" /\ pc[c] \in {"computing", "writing", "written"}

(* A ledger entry belongs to a compute that has not settled: a failure never *)
(* lingers as a poisoned promise, and no leader removes another's entry.     *)
LedgerSound ==
  \A k \in Keys : ledger[k] # None => Leading(ledger[k]) /\ key[ledger[k]] = k

(* Concurrent misses of a key share one compute: two of them run at once     *)
(* only when an invalidation dropped the first from the ledger in between.   *)
HerdShares ==
  \A c, d \in Callers :
    Leading(c) /\ Leading(d) /\ key[c] = key[d] /\ epoch[c] = epoch[d] => c = d

(* Single flight: one compute per herd, and the ledger names none but it     *)
(* (cache.ts, remember).                                                     *)
SingleFlight == LedgerSound /\ HerdShares

(* A remember that was computing when a delete of its key returned never     *)
(* goes on to write its value, also when a newer compute holds the ledger.   *)
ReturnedDeleteWins ==
  [][\A c \in Callers :
       op[c] = "remember" /\ pc[c] = "computing" /\ pc'[c] = "writing"
         => epoch[c] = drops[key[c]]]_vars

(* Every call returns, those that joined another's compute included.         *)
EveryCallReturns == \A c \in Callers : pc[c] # "idle" ~> pc[c] = "idle"

(* "an explicit `delete` is never undone by a compute that was already       *)
(* running": once a delete has returned, the store holds no value whose      *)
(* compute began before that delete was issued.                              *)
NoResurrection ==
  \A k \in Keys : store[k] # None => store[k].born >= floor[k]
=============================================================================
