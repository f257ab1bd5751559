----------------------------- MODULE CacheProofs -----------------------------
(***************************************************************************)
(* The single-flight ledger of Cache, for any number of keys, callers and  *)
(* invalidators.                                                           *)
(*                                                                         *)
(* LedgerSound and HerdShares are not inductive by themselves.  Epochs     *)
(* ties them together: a leader whose key saw no delete return since it    *)
(* began is the one in the ledger, and the one in the ledger began after   *)
(* the last delete that returned.                                          *)
(***************************************************************************)
EXTENDS Cache, TLAPS

(* The part of the state the ledger argument is about has its type. *)
LedgerType ==
  /\ ledger \in [Keys -> Callers \cup {None}]
  /\ pc \in [Callers -> {"idle", "got", "evicting", "computing", "joined", "writing", "written"}]
  /\ op \in [Callers -> Ops \cup {None}]
  /\ key \in [Callers -> Keys \cup {None}]
  /\ drops \in [Keys -> Nat]
  /\ epoch \in [Callers -> Nat]
  /\ \A c \in Callers : pc[c] # "idle" => key[c] \in Keys

Epochs ==
  \A c \in Callers : Leading(c) =>
    /\ epoch[c] <= drops[key[c]]
    /\ (epoch[c] = drops[key[c]] <=> ledger[key[c]] = c)

LedgerInv == LedgerType /\ LedgerSound /\ HerdShares /\ Epochs

LEMMA LedgerInit == Init => LedgerInv
  BY NoneAssumption DEF Init, LedgerInv, LedgerType, LedgerSound, HerdShares, Epochs, Leading

(* The steps that neither start nor end a leader, nor touch the ledger. *)
LEMMA Bystander ==
  ASSUME LedgerInv, NEW c \in Callers, LedgerType',
         UNCHANGED <<ledger, drops, epoch>>,
         \A d \in Callers : Leading(d) <=> Leading(d)',
         \A d \in Callers : Leading(d) => key'[d] = key[d]
  PROVE  LedgerInv'
  BY NoneAssumption DEF LedgerInv, LedgerType, LedgerSound, HerdShares, Epochs

(* A promise that settles: its leader, and those who joined it, are idle. *)
LEMMA SettleStep ==
  ASSUME LedgerInv, NEW c \in Callers, SettlePromise(c),
         pc[c] \in {"computing", "writing", "written"},
         UNCHANGED <<op, key, epoch, drops>>
  PROVE  LedgerInv'
<1>0. /\ ledger' \in [Keys -> Callers \cup {None}]
      /\ pc' \in [Callers -> {"idle", "got", "evicting", "computing", "joined", "writing", "written"}]
      /\ key[c] \in Keys
  BY DEF SettlePromise, LedgerInv, LedgerType
<1>1. LedgerType'
  BY <1>0 DEF SettlePromise, LedgerInv, LedgerType
<1>2. ~Leading(c)' /\ \A d \in Callers : Leading(d)' => Leading(d) /\ d # c
  BY DEF SettlePromise, Answered, LedgerInv, LedgerType, Leading
<1>3. \A d \in Callers : Leading(d) /\ d # c => Leading(d)'
  BY DEF SettlePromise, Answered, LedgerInv, LedgerType, Leading
<1>4. \A k \in Keys : ledger'[k] # c /\ (ledger[k] # c => ledger'[k] = ledger[k])
  <2>1. CASE HoldsToken(c)
    BY <2>1, <1>0, NoneAssumption
    DEF SettlePromise, HoldsToken, LedgerInv, LedgerType, LedgerSound
  <2>2. CASE ~HoldsToken(c)
    BY <2>2, <1>0, NoneAssumption
    DEF SettlePromise, HoldsToken, LedgerInv, LedgerType, LedgerSound
  <2>q. QED BY <2>1, <2>2
<1>5. \A k \in Keys : ledger'[k] # None => ledger'[k] = ledger[k]
  BY <1>0, NoneAssumption DEF SettlePromise, LedgerInv, LedgerType
<1>6. LedgerSound'
  BY <1>0, <1>3, <1>4, <1>5 DEF LedgerInv, LedgerType, LedgerSound
<1>7. HerdShares'
  BY <1>2 DEF LedgerInv, HerdShares
<1>8. Epochs'
  BY <1>0, <1>2, <1>4, <1>5, NoneAssumption DEF LedgerInv, LedgerType, Epochs, Leading
<1>q. QED BY <1>1, <1>6, <1>7, <1>8 DEF LedgerInv

(* Every step of the cache preserves the invariant. *)
LEMMA LedgerStep == LedgerInv /\ [Next]_vars => LedgerInv'
<1> SUFFICES ASSUME LedgerInv, [Next]_vars PROVE LedgerInv'
  OBVIOUS
<1> USE NoneAssumption
<1>1. ASSUME NEW c \in Callers, Get(c) PROVE LedgerInv'
  <2>1. LedgerType'
    BY <1>1 DEF Get, Goto, LedgerInv, LedgerType, deleteVars
  <2>2. \A d \in Callers : /\ Leading(d) <=> Leading(d)'
                           /\ Leading(d) => key'[d] = key[d]
    BY <1>1 DEF Get, Goto, LedgerInv, LedgerType, Leading
  <2>3. UNCHANGED <<ledger, drops, epoch>>
    BY <1>1 DEF Get, deleteVars
  <2>q. QED BY <2>1, <2>2, <2>3, Bystander
<1>2. ASSUME NEW c \in Callers, Put(c) PROVE LedgerInv'
  <2>1. LedgerType'
    BY <1>2 DEF Put, Goto, LedgerInv, LedgerType, deleteVars
  <2>2. \A d \in Callers : /\ Leading(d) <=> Leading(d)'
                           /\ Leading(d) => key'[d] = key[d]
    BY <1>2 DEF Put, Goto, LedgerInv, LedgerType, Leading
  <2>3. UNCHANGED <<ledger, drops, epoch>>
    BY <1>2 DEF Put, deleteVars
  <2>q. QED BY <2>1, <2>2, <2>3, Bystander
<1>3. ASSUME NEW c \in Callers, Hit(c) \/ Evict(c) \/ ReadMiss(c) \/ Join(c)
      PROVE LedgerInv'
  <2>1. LedgerType'
    BY <1>3 DEF Hit, Evict, ReadMiss, Join, Missed, Goto, LedgerInv, LedgerType, deleteVars
  <2>2. \A d \in Callers : /\ Leading(d) <=> Leading(d)'
                           /\ Leading(d) => key'[d] = key[d]
    BY <1>3 DEF Hit, Evict, ReadMiss, Join, Missed, Goto, LedgerInv, LedgerType, Leading
  <2>3. UNCHANGED <<ledger, drops, epoch>>
    BY <1>3 DEF Hit, Evict, ReadMiss, Join, deleteVars
  <2>q. QED BY <2>1, <2>2, <2>3, Bystander
<1>4. ASSUME NEW c \in Callers, Store(c) \/ SetLands(c) PROVE LedgerInv'
  <2>1. LedgerType'
    BY <1>4 DEF Store, SetLands, Goto, LedgerInv, LedgerType, deleteVars
  <2>2. \A d \in Callers : /\ Leading(d) <=> Leading(d)'
                           /\ Leading(d) => key'[d] = key[d]
    BY <1>4 DEF Store, SetLands, Goto, LedgerInv, LedgerType, Leading
  <2>3. UNCHANGED <<ledger, drops, epoch>>
    BY <1>4 DEF Store, SetLands, deleteVars
  <2>q. QED BY <2>1, <2>2, <2>3, Bystander
<1>5. ASSUME NEW c \in Callers, Produce(c) PROVE LedgerInv'
  <2>1. LedgerType' /\ UNCHANGED <<ledger, op, key, drops>>
    BY <1>5 DEF Produce, Missed, Compute, Goto, LedgerInv, LedgerType, deleteVars
  <2>2. \A d \in Callers : /\ Leading(d) <=> Leading(d)'
                           /\ Leading(d) => d # c /\ epoch'[d] = epoch[d]
    BY <1>5 DEF Produce, Missed, Compute, Goto, LedgerInv, LedgerType, Leading
  <2>q. QED
    BY <2>1, <2>2 DEF LedgerInv, LedgerType, LedgerSound, HerdShares, Epochs
<1>6. ASSUME NEW c \in Callers, Lead(c) PROVE LedgerInv'
  <2>0. /\ key[c] \in Keys /\ ledger[key[c]] = None
        /\ UNCHANGED <<op, key, drops>>
        /\ ledger' = [ledger EXCEPT ![key[c]] = c]
        /\ epoch' = [epoch EXCEPT ![c] = drops[key[c]]]
        /\ pc' = [pc EXCEPT ![c] = "computing"]
        /\ op[c] = "remember" /\ pc[c] = "got"
    BY <1>6 DEF Lead, Missed, InFlight, Compute, Goto, LedgerInv, LedgerType, deleteVars
  <2>1. LedgerType'
    BY <2>0 DEF LedgerInv, LedgerType
  <2>2. /\ ~Leading(c) /\ Leading(c)'
        /\ \A d \in Callers \ {c} : (Leading(d) <=> Leading(d)') /\ epoch'[d] = epoch[d]
    BY <2>0 DEF LedgerInv, LedgerType, Leading
  <2>3. epoch'[c] = drops[key[c]] /\ ledger'[key[c]] = c
    BY <2>0 DEF LedgerInv, LedgerType
  <2>4. \A k \in Keys \ {key[c]} : ledger'[k] = ledger[k]
    BY <2>0 DEF LedgerInv, LedgerType
  <2>5. LedgerSound'
    BY <2>0, <2>1, <2>2, <2>3, <2>4 DEF LedgerInv, LedgerType, LedgerSound
  <2>6. \A d \in Callers \ {c} : Leading(d) /\ key[d] = key[c] => epoch[d] < drops[key[c]]
    BY <2>0 DEF LedgerInv, LedgerType, Epochs
  <2>7. HerdShares'
    <3> SUFFICES ASSUME NEW a \in Callers, NEW b \in Callers,
                        Leading(a)', Leading(b)', key[a] = key[b], epoch'[a] = epoch'[b]
                 PROVE  a = b
      BY <2>0 DEF HerdShares
    <3>1. CASE a # c /\ b # c
      BY <3>1, <2>2 DEF LedgerInv, HerdShares
    <3>2. CASE a = c /\ b # c
      BY <3>2, <2>0, <2>2, <2>3, <2>6 DEF LedgerInv, LedgerType
    <3>3. CASE b = c /\ a # c
      BY <3>3, <2>0, <2>2, <2>3, <2>6 DEF LedgerInv, LedgerType
    <3>q. QED BY <3>1, <3>2, <3>3
  <2>8. Epochs'
    <3> SUFFICES ASSUME NEW d \in Callers, Leading(d)'
                 PROVE  /\ epoch'[d] <= drops[key[d]]
                        /\ (epoch'[d] = drops[key[d]] <=> ledger'[key[d]] = d)
      BY <2>0 DEF Epochs
    <3>1. CASE d = c
      BY <3>1, <2>0, <2>3 DEF LedgerInv, LedgerType
    <3>2. CASE d # c /\ key[d] = key[c]
      BY <3>2, <2>0, <2>2, <2>3, <2>6 DEF LedgerInv, LedgerType
    <3>3. CASE d # c /\ key[d] # key[c]
      <4>1. key[d] \in Keys
        BY <3>3, <2>2 DEF LedgerInv, LedgerType, Leading
      <4>q. QED BY <4>1, <3>3, <2>2, <2>4 DEF LedgerInv, Epochs
    <3>q. QED BY <3>1, <3>2, <3>3
  <2>q. QED BY <2>1, <2>5, <2>7, <2>8 DEF LedgerInv
<1>7. ASSUME NEW c \in Callers, Suppress(c) \/ Reject(c) \/ SetReturns(c) PROVE LedgerInv'
  <2>1. /\ SettlePromise(c)
        /\ pc[c] \in {"computing", "writing", "written"}
        /\ UNCHANGED <<op, key, epoch, drops>>
    BY <1>7 DEF Suppress, Reject, SetReturns, deleteVars
  <2>q. QED BY <2>1, SettleStep
<1>8. ASSUME NEW d \in Deleters, Delete(d) \/ DeleteLands(d) \/ DeleteFaults(d)
      PROVE LedgerInv'
  <2>1. UNCHANGED <<ledger, pc, op, key, epoch, drops>>
    BY <1>8 DEF Delete, DeleteLands, DeleteFaults, callVars
  <2>q. QED
    BY <2>1 DEF LedgerInv, LedgerType, LedgerSound, HerdShares, Epochs, Leading
<1>9. ASSUME NEW d \in Deleters, DeleteReturns(d) PROVE LedgerInv'
  <2>0. /\ UNCHANGED <<pc, op, key, epoch>>
        /\ ledger' = [k \in Keys |-> IF k \in scope[d] THEN None ELSE ledger[k]]
        /\ drops' = [k \in Keys |-> IF k \in scope[d] THEN drops[k] + 1 ELSE drops[k]]
    BY <1>9 DEF DeleteReturns, callVars
  <2>1. LedgerType'
    BY <2>0 DEF LedgerInv, LedgerType
  <2>2. \A c \in Callers : Leading(c) <=> Leading(c)'
    BY <2>0 DEF Leading
  <2>3. LedgerSound'
    BY <2>0, <2>2 DEF LedgerInv, LedgerType, LedgerSound
  <2>4. HerdShares'
    BY <2>0, <2>2 DEF LedgerInv, HerdShares
  <2>5. Epochs'
    <3> SUFFICES ASSUME NEW c \in Callers, Leading(c)
                 PROVE  /\ epoch[c] <= drops'[key[c]]
                        /\ (epoch[c] = drops'[key[c]] <=> ledger'[key[c]] = c)
      BY <2>0, <2>2 DEF Epochs
    <3>1. key[c] \in Keys /\ epoch[c] \in Nat /\ drops[key[c]] \in Nat
      BY DEF LedgerInv, LedgerType, Leading
    <3>2. epoch[c] <= drops[key[c]] /\ (epoch[c] = drops[key[c]] <=> ledger[key[c]] = c)
      BY DEF LedgerInv, Epochs
    <3>q. QED BY <2>0, <3>1, <3>2
  <2>q. QED BY <2>1, <2>3, <2>4, <2>5 DEF LedgerInv
<1>10. CASE Sweep \/ Advance \/ UNCHANGED vars
  <2>1. UNCHANGED <<ledger, pc, op, key, epoch, drops>>
    BY <1>10 DEF Sweep, Advance, callVars, deleteVars, vars
  <2>q. QED
    BY <2>1 DEF LedgerInv, LedgerType, LedgerSound, HerdShares, Epochs, Leading
<1>q. QED
  BY <1>1, <1>2, <1>3, <1>4, <1>5, <1>6, <1>7, <1>8, <1>9, <1>10
  DEF Next, Continue, DeleteStep

LEMMA LedgerHolds == Spec => []LedgerInv
<1>1. Init => LedgerInv
  BY LedgerInit
<1>2. LedgerInv /\ [Next]_vars => LedgerInv'
  BY LedgerStep
<1>q. QED BY <1>1, <1>2, PTL DEF Spec

(* A ledger entry always belongs to a compute in flight: however computes   *)
(* fail and deletes interleave, no settled promise is left behind.          *)
THEOREM NoPoisonedPromise == Spec => []LedgerSound
<1>1. LedgerInv => LedgerSound
  BY DEF LedgerInv
<1>q. QED BY <1>1, LedgerHolds, PTL

(* Two computes of a key run at once only across an invalidation, for any   *)
(* number of concurrent remember() calls.                                   *)
THEOREM OneComputePerHerd == Spec => []HerdShares
<1>1. LedgerInv => HerdShares
  BY DEF LedgerInv
<1>q. QED BY <1>1, LedgerHolds, PTL

(* Single flight, for any number of keys, callers and invalidators: one      *)
(* compute per herd, and a ledger that names none but it.                    *)
THEOREM SingleFlightHolds == Spec => []SingleFlight
<1>1. LedgerInv => SingleFlight
  BY DEF LedgerInv, SingleFlight
<1>q. QED BY <1>1, LedgerHolds, PTL

(* A compute that was running when a delete of its key returned never       *)
(* starts to write its value.                                               *)
THEOREM DeleteThatReturnedWins == Spec => ReturnedDeleteWins
<1>1. ASSUME LedgerInv, [Next]_vars, NEW c \in Callers,
             op[c] = "remember", pc[c] = "computing", pc'[c] = "writing"
      PROVE  epoch[c] = drops[key[c]]
  <2>1. Store(c)
    <3>1. ASSUME NEW d \in Callers, Get(d) \/ Put(d) \/ Continue(d), d # c PROVE FALSE
      <4>1. CASE Suppress(d) \/ Reject(d) \/ SetReturns(d)
        BY <4>1, <3>1, <1>1 DEF Suppress, Reject, SetReturns, SettlePromise
      <4>2. CASE Get(d) \/ Put(d) \/ Hit(d) \/ Evict(d) \/ ReadMiss(d) \/ Produce(d)
                   \/ Join(d) \/ Lead(d) \/ Store(d) \/ SetLands(d)
        <5>1. \E l \in {"idle", "got", "evicting", "computing", "joined", "writing", "written"} :
                pc' = [pc EXCEPT ![d] = l]
          BY <4>2 DEF Get, Put, Hit, Evict, ReadMiss, Produce, Join, Lead, Store, SetLands,
                      Compute, Goto
        <5>q. QED BY <5>1, <3>1, <1>1 DEF LedgerInv, LedgerType
      <4>q. QED BY <4>1, <4>2, <3>1 DEF Continue
    <3>2. ASSUME Get(c) \/ Put(c) \/ Continue(c), ~Store(c) PROVE FALSE
      <4>1. CASE Suppress(c) \/ Reject(c) \/ SetReturns(c)
        BY <4>1, <1>1 DEF Suppress, Reject, SetReturns, SettlePromise
      <4>q. QED
        BY <4>1, <3>2, <1>1 DEF Continue, Get, Put, Hit, Evict, ReadMiss, Produce, Join, Lead,
           SetLands, Missed
    <3>3. ~(UNCHANGED pc)
      BY <1>1
    <3>q. QED
      BY <3>1, <3>2, <3>3, <1>1
      DEF Next, Delete, DeleteStep, DeleteLands, DeleteReturns, DeleteFaults, Sweep, Advance,
          callVars, vars
  <2>2. ledger[key[c]] = c
    BY <2>1, <1>1 DEF Store, HoldsToken
  <2>q. QED BY <2>2, <1>1 DEF LedgerInv, Epochs, Leading
<1>2. LedgerInv /\ [Next]_vars =>
        [\A c \in Callers :
           op[c] = "remember" /\ pc[c] = "computing" /\ pc'[c] = "writing"
             => epoch[c] = drops[key[c]]]_vars
  BY <1>1
<1>q. QED BY <1>2, LedgerHolds, PTL DEF Spec, ReturnedDeleteWins
=============================================================================
