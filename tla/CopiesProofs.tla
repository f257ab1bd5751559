---------------------------- MODULE CopiesProofs ----------------------------
(***************************************************************************)
(* What keeps copies in MCCopies, for any number of tabs, writes, keys and *)
(* entries: the Web Lock and the order in which a term begins and ends     *)
(* leave room for one connection and leave nothing behind, and the bounded *)
(* store evicts the entry that it should.                                  *)
(***************************************************************************)
EXTENDS MCCopies, FiniteSetTheorems, SequenceTheorems, WellFoundedInduction, TLAPS

(* The tabs *)

(* A tab that opens its store or leads holds the lock, so no other does. *)
StageType == tStage \in [Tabs -> {"no", "opening", "leading"}]
LeaderHoldsLock == \A t \in Tabs : tStage[t] # "no" => tLock = t
LeaderInv == StageType /\ LeaderHoldsLock

(* Before the first tab opens nobody holds the lock. *)
LEMMA LeaderInit == T!Init => LeaderInv
BY DEF T!Init, LeaderInv, StageType, LeaderHoldsLock

(* The term of a tab ends, and with it goes the lock. *)
LEMMA TermEnds ==
  ASSUME LeaderInv, NEW t \in Tabs, tStage' = [tStage EXCEPT ![t] = "no"],
         tLock' = tLock \/ (tLock' = NoTab /\ tLock = t)
  PROVE  LeaderInv'
<1>1. StageType' /\ tStage'[t] = "no" /\ \A u \in Tabs \ {t} : tStage'[u] = tStage[u]
  BY DEF LeaderInv, StageType
<1>2. \A u \in Tabs \ {t} : tStage[u] # "no" => tLock' = u
  BY DEF LeaderInv, LeaderHoldsLock
<1>q. QED
  BY <1>1, <1>2 DEF LeaderInv, LeaderHoldsLock

(* The lock is granted when nobody holds it, hence when nobody leads. *)
LEMMA GrantKeeps == ASSUME T!NoTabAssumption, LeaderInv, T!Grant PROVE LeaderInv'
<1> DEFINE t == Head(tWaiting)
<1>1. tLock = NoTab /\ tLock' = t /\ tStage' = [tStage EXCEPT ![t] = "opening"]
  BY DEF T!Grant
<1> HIDE DEF t
<1>2. \A u \in Tabs : tStage[u] = "no"
  BY <1>1 DEF T!NoTabAssumption, LeaderInv, LeaderHoldsLock
<1>3. StageType' /\ \A u \in Tabs \ {t} : tStage'[u] = tStage[u]
  BY <1>1 DEF LeaderInv, StageType
<1>q. QED
  BY <1>1, <1>2, <1>3 DEF LeaderInv, LeaderHoldsLock

(* The store opens for the tab that holds the lock. *)
LEMMA LeadsKeeps == ASSUME LeaderInv, NEW t \in Tabs, T!Leads(t) PROVE LeaderInv'
<1>1. tStage[t] = "opening" /\ tStage' = [tStage EXCEPT ![t] = "leading"] /\ UNCHANGED tLock
  BY DEF T!Leads, T!lockVars
<1>2. StageType' /\ \A u \in Tabs \ {t} : tStage'[u] = tStage[u]
  BY <1>1 DEF LeaderInv, StageType
<1>q. QED
  BY <1>1, <1>2 DEF LeaderInv, LeaderHoldsLock

(* An opening that fails or is abandoned, and the end of a term. *)
LEMMA ResignsKeeps ==
  ASSUME LeaderInv, NEW t \in Tabs,
         T!Abandons(t) \/ T!FailsToOpen(t) \/ T!Disconnect(t) \/ T!CloseTab(t)
  PROVE  LeaderInv'
<1>1. tStage[t] # "no" => tLock = t
  BY DEF LeaderInv, LeaderHoldsLock
<1>2. CASE T!Abandons(t) \/ T!FailsToOpen(t)
  <2>1. tStage' = [tStage EXCEPT ![t] = "no"] /\ tLock' = NoTab /\ tStage[t] = "opening"
    BY <1>2 DEF T!Abandons, T!FailsToOpen
  <2>q. QED
    BY <1>1, <2>1, TermEnds
<1>3. CASE T!CloseTab(t)
  <2>1. tStage' = [tStage EXCEPT ![t] = "no"] /\ tLock' = IF tLock = t THEN NoTab ELSE tLock
    BY <1>3 DEF T!CloseTab
  <2>q. QED
    BY <2>1, TermEnds
<1>4. CASE T!Disconnect(t)
  <2>1. /\ tStage' = IF tStage[t] = "leading" THEN [tStage EXCEPT ![t] = "no"] ELSE tStage
        /\ tLock' = IF tLock = t /\ tStage[t] = "leading" THEN NoTab ELSE tLock
    BY <1>4 DEF T!Disconnect, T!Stopped
  <2>2. CASE tStage[t] = "leading"
    BY <1>1, <2>1, <2>2, TermEnds
  <2>3. CASE tStage[t] # "leading"
    BY <2>1, <2>3 DEF LeaderInv, StageType, LeaderHoldsLock
  <2>q. QED
    BY <2>2, <2>3
<1>q. QED
  BY <1>2, <1>3, <1>4

(* Every step of the tabs keeps the invariant. *)
LEMMA LeaderStep == ASSUME T!NoTabAssumption, LeaderInv, [T!Next]_(T!vars) PROVE LeaderInv'
<1>1. CASE UNCHANGED <<tStage, tLock>>
  BY <1>1 DEF LeaderInv, StageType, LeaderHoldsLock
<1>2. CASE UNCHANGED T!vars
  BY <1>1, <1>2 DEF T!vars, T!tabVars, T!lockVars
<1>3. CASE T!Grant
  BY <1>3, GrantKeeps
<1>4. CASE T!PeerChanges
  BY <1>1, <1>4 DEF T!PeerChanges, T!tabVars, T!lockVars
<1>5. ASSUME NEW t \in Tabs,
             T!TabStep(t) \/ T!OpenTab(t) \/ T!FailsToOpen(t) \/ T!Disconnect(t) \/ T!CloseTab(t)
      PROVE  LeaderInv'
  <2>1. CASE T!Leads(t)
    BY <2>1, LeadsKeeps
  <2>2. CASE T!Abandons(t) \/ T!FailsToOpen(t) \/ T!Disconnect(t) \/ T!CloseTab(t)
    BY <2>2, ResignsKeeps
  <2>3. CASE T!Dispose(t) \/ T!Receive(t) \/ T!StreamDelivers(t) \/ T!StreamSnapshots(t) \/ T!OpenTab(t)
    BY <1>1, <2>3 DEF T!Dispose, T!Receive, T!StreamDelivers, T!StreamSnapshots, T!OpenTab,
       T!tabVars, T!lockVars
  <2>q. QED
    BY <1>5, <2>1, <2>2, <2>3 DEF T!TabStep
<1>6. ASSUME NEW w \in TabWrites,
             T!PostLands(w) \/ T!PostRefused(w) \/ \E t \in Tabs : T!WriteOptimistic(t, w)
      PROVE  LeaderInv'
  BY <1>1, <1>6 DEF T!PostLands, T!PostRefused, T!WriteOptimistic, T!tabVars, T!lockVars
<1>q. QED
  BY <1>2, <1>3, <1>4, <1>5, <1>6 DEF T!Next

(* What a term holds it gives back: the lock is held by a tab in its term, and *)
(* the durable store by the leader or by a tab that will dispose of it.        *)
LockIsUsed == tLock # NoTab => tLock \in Tabs /\ tStage[tLock] # "no"
HandleIsOwned ==
  /\ tHandle # NoTab => tHandle \in Tabs /\ (tStage[tHandle] = "leading" \/ tHandle \in tStale)
  /\ tDurable => \A t \in Tabs : tStage[t] = "leading" => tHandle = t /\ t \notin tStale
  /\ tStale \subseteq Tabs /\ \A t \in tStale : tHandle = t
  /\ ~tDurable => tHandle = NoTab /\ tStale = {}
TermInv == tWaiting \in Seq(Tabs) /\ LockIsUsed /\ HandleIsOwned

(* Before the first tab opens there is nothing to give back. *)
LEMMA TermInit == T!Init => TermInv
BY DEF T!Init, TermInv, LockIsUsed, HandleIsOwned

(* What is left of the queue is a queue of tabs. *)
LEMMA WithdrawnIs == ASSUME tWaiting \in Seq(Tabs), NEW t PROVE T!Withdrawn(t) \in Seq(Tabs)
<1>1. PICK bids : bids = {i \in DOMAIN tWaiting : tWaiting[i] = t}
  OBVIOUS
<1>2. CASE bids = {}
  BY <1>1, <1>2 DEF T!Withdrawn
<1>3. CASE bids # {}
  <2>1. PICK i : i = CHOOSE j \in bids : TRUE
    OBVIOUS
  <2>2. i \in 1 .. Len(tWaiting) /\ Len(tWaiting) \in Nat
    BY <1>1, <1>3, <2>1
  <2>3. T!Withdrawn(t) = SubSeq(tWaiting, 1, i - 1) \o SubSeq(tWaiting, i + 1, Len(tWaiting))
    BY <1>1, <1>3, <2>1 DEF T!Withdrawn, T!RemoveAt
  <2>4. SubSeq(tWaiting, 1, i - 1) \in Seq(Tabs)
    BY <2>2, SubSeqProperties
  <2>5. SubSeq(tWaiting, i + 1, Len(tWaiting)) \in Seq(Tabs)
    BY <2>2, SubSeqProperties
  <2>q. QED
    BY <2>3, <2>4, <2>5
<1>q. QED
  BY <1>2, <1>3

(* The lock is granted: the tab begins to open its store. *)
LEMMA GrantHolds ==
  ASSUME T!NoTabAssumption, LeaderInv, TermInv, T!Grant
  PROVE  TermInv'
<1>1. PICK t : t = Head(tWaiting)
  OBVIOUS
<1>2. /\ tLock = NoTab /\ tWaiting # <<>> /\ tLock' = t /\ tWaiting' = Tail(tWaiting)
      /\ tStage' = [tStage EXCEPT ![t] = "opening"] /\ UNCHANGED <<tHandle, tStale, tDurable>>
  BY <1>1 DEF T!Grant, T!diskVars
<1>3. t \in Tabs /\ tWaiting' \in Seq(Tabs)
  BY <1>1, <1>2 DEF TermInv
<1>4. \A u \in Tabs : tStage[u] = "no"
  BY <1>2 DEF T!NoTabAssumption, LeaderInv, LeaderHoldsLock
<1>5. tStage'[t] = "opening" /\ \A u \in Tabs : tStage'[u] # "leading"
  BY <1>2, <1>3, <1>4 DEF LeaderInv, StageType
<1>6. tHandle # NoTab => tHandle \in Tabs /\ tHandle \in tStale
  BY <1>4 DEF TermInv, HandleIsOwned
<1>q. QED
  BY <1>2, <1>3, <1>5, <1>6 DEF TermInv, LockIsUsed, HandleIsOwned

(* The store opens: it was open nowhere, and no dispose is pending. *)
LEMMA LeadsHolds ==
  ASSUME T!NoTabAssumption, LeaderInv, TermInv, NEW t \in Tabs, T!Leads(t)
  PROVE  TermInv'
<1>1. /\ tStage[t] = "opening" /\ (tDurable => tHandle = NoTab) /\ tHandle' = (IF tDurable THEN t ELSE tHandle)
      /\ tStage' = [tStage EXCEPT ![t] = "leading"] /\ UNCHANGED <<tDurable, tStale, tLock, tWaiting>>
  BY DEF T!Leads, T!Opens, T!lockVars
<1>2. tLock = t
  BY <1>1 DEF LeaderInv, LeaderHoldsLock
<1>3. tStage'[t] = "leading" /\ \A u \in Tabs : u # t => tStage'[u] = tStage[u]
  BY <1>1 DEF LeaderInv, StageType
<1>4. \A u \in Tabs : u # t => tStage[u] = "no"
  BY <1>2 DEF LeaderInv, LeaderHoldsLock
<1>5. tWaiting' \in Seq(Tabs) /\ LockIsUsed'
  BY <1>1, <1>2, <1>3 DEF TermInv, LockIsUsed
<1>6. CASE tDurable
  <2>1. tStale = {}
    BY <1>1, <1>6 DEF TermInv, HandleIsOwned, T!NoTabAssumption
  <2>q. QED
    BY <1>1, <1>3, <1>4, <1>5, <1>6, <2>1 DEF TermInv, HandleIsOwned
<1>7. CASE ~tDurable
  BY <1>1, <1>3, <1>4, <1>5, <1>7 DEF TermInv, HandleIsOwned
<1>q. QED
  BY <1>6, <1>7

(* The half-built term is abandoned: its store waits for the dispose. *)
LEMMA AbandonsHolds ==
  ASSUME T!NoTabAssumption, LeaderInv, TermInv, NEW t \in Tabs, T!Abandons(t)
  PROVE  TermInv'
<1>1. /\ tStage[t] = "opening" /\ (tDurable => tHandle = NoTab) /\ tHandle' = (IF tDurable THEN t ELSE tHandle)
      /\ tStale' = (IF tDurable THEN tStale \cup {t} ELSE tStale) /\ tLock' = NoTab
      /\ tStage' = [tStage EXCEPT ![t] = "no"] /\ UNCHANGED <<tDurable, tWaiting>>
  BY DEF T!Abandons, T!Opens
<1>2. \A u \in Tabs : tStage[u] # "leading"
  BY <1>1 DEF LeaderInv, LeaderHoldsLock
<1>3. \A u \in Tabs : tStage'[u] # "leading"
  BY <1>1, <1>2 DEF LeaderInv, StageType
<1>4. CASE tDurable
  <2>1. tStale = {}
    BY <1>1, <1>4 DEF TermInv, HandleIsOwned, T!NoTabAssumption
  <2>q. QED
    BY <1>1, <1>3, <1>4, <2>1 DEF TermInv, LockIsUsed, HandleIsOwned
<1>5. CASE ~tDurable
  BY <1>1, <1>2, <1>3, <1>5 DEF TermInv, LockIsUsed, HandleIsOwned
<1>q. QED
  BY <1>4, <1>5

(* A term ends, or its store does not open: the lock goes with it, and an open *)
(* store waits for the dispose.                                               *)
LEMMA ResignsHolds ==
  ASSUME T!NoTabAssumption, LeaderInv, TermInv, NEW t \in Tabs,
         T!FailsToOpen(t) \/ T!Disconnect(t) \/ T!CloseTab(t)
  PROVE  TermInv'
<1>1. tStage \in [Tabs -> {"no", "opening", "leading"}] /\ \A u \in Tabs : tStage[u] # "no" => tLock = u
  BY DEF LeaderInv, StageType, LeaderHoldsLock
<1>2. CASE T!FailsToOpen(t)
  <2>1. /\ tStage[t] = "opening" /\ tStage' = [tStage EXCEPT ![t] = "no"] /\ tLock' = NoTab
        /\ UNCHANGED <<tWaiting, tDurable, tHandle, tStale>>
    BY <1>2 DEF T!FailsToOpen, T!diskVars
  <2>2. \A u \in Tabs : tStage[u] # "leading" /\ tStage'[u] # "leading"
    BY <1>1, <2>1
  <2>q. QED
    BY <2>1, <2>2 DEF TermInv, LockIsUsed, HandleIsOwned
<1>3. CASE T!CloseTab(t)
  <2>1. /\ tStage' = [tStage EXCEPT ![t] = "no"] /\ tLock' = (IF tLock = t THEN NoTab ELSE tLock)
        /\ tStale' = tStale \ {t} /\ tHandle' = (IF tHandle = t THEN NoTab ELSE tHandle)
        /\ tWaiting' = T!Withdrawn(t) /\ UNCHANGED tDurable
    BY <1>3 DEF T!CloseTab
  <2>2. tWaiting' \in Seq(Tabs)
    BY <2>1, WithdrawnIs DEF TermInv
  <2>3. tStage'[t] = "no" /\ \A u \in Tabs : u # t => tStage'[u] = tStage[u]
    BY <1>1, <2>1
  <2>4. LockIsUsed'
    BY <2>1, <2>3 DEF TermInv, LockIsUsed
  <2>5. HandleIsOwned'
    BY <2>1, <2>3 DEF TermInv, HandleIsOwned
  <2>q. QED
    BY <2>2, <2>4, <2>5 DEF TermInv
<1>4. CASE T!Disconnect(t)
  <2>1. /\ tStage' = (IF tStage[t] = "leading" THEN [tStage EXCEPT ![t] = "no"] ELSE tStage)
        /\ tStale' = (IF tStage[t] = "leading" /\ tDurable THEN tStale \cup {t} ELSE tStale)
        /\ tLock' = (IF tLock = t /\ tStage[t] = "leading" THEN NoTab ELSE tLock)
        /\ tWaiting' = T!Withdrawn(t) /\ UNCHANGED <<tDurable, tHandle>>
    BY <1>4 DEF T!Disconnect, T!Stopped
  <2>2. tWaiting' \in Seq(Tabs)
    BY <2>1, WithdrawnIs DEF TermInv
  <2>3. CASE tStage[t] = "leading"
    <3>1. tStage'[t] = "no" /\ \A u \in Tabs : u # t => tStage'[u] = tStage[u]
      BY <1>1, <2>1, <2>3
    <3>2. tLock = t /\ tLock' = NoTab
      BY <1>1, <2>1, <2>3
    <3>3. \A u \in Tabs : tStage'[u] # "leading"
      BY <1>1, <3>1, <3>2
    <3>4. LockIsUsed'
      BY <3>2 DEF LockIsUsed
    <3>5. HandleIsOwned'
      <4>1. CASE tDurable
        <5>1. tHandle = t /\ tHandle' = t /\ tStale' = tStale \cup {t}
          BY <2>1, <2>3, <4>1 DEF TermInv, HandleIsOwned
        <5>2. tStale \subseteq Tabs /\ \A u \in tStale : u = t
          BY <5>1 DEF TermInv, HandleIsOwned
        <5>3. UNCHANGED tDurable
          BY <2>1
        <5>q. QED
          BY <3>3, <4>1, <5>1, <5>2, <5>3 DEF HandleIsOwned
      <4>2. CASE ~tDurable
        <5>1. UNCHANGED <<tDurable, tHandle, tStale>>
          BY <2>1, <4>2
        <5>2. tHandle # NoTab => tHandle \in tStale
          BY <2>3, <4>2, <1>1, <3>2 DEF TermInv, HandleIsOwned
        <5>q. QED
          BY <3>3, <4>2, <5>1, <5>2 DEF TermInv, HandleIsOwned
      <4>q. QED
        BY <4>1, <4>2
    <3>q. QED
      BY <2>2, <3>4, <3>5 DEF TermInv
  <2>4. CASE tStage[t] # "leading"
    BY <2>1, <2>2, <2>4 DEF TermInv, LockIsUsed, HandleIsOwned
  <2>q. QED
    BY <2>3, <2>4
<1>q. QED
  BY <1>2, <1>3, <1>4

(* The dispose closes the store of a term that is over. *)
LEMMA DisposeHolds ==
  ASSUME LeaderInv, TermInv, NEW t \in Tabs, T!Dispose(t)
  PROVE  TermInv'
<1>1. /\ t \in tStale /\ tStale' = tStale \ {t} /\ tHandle' = (IF tHandle = t THEN NoTab ELSE tHandle)
      /\ UNCHANGED <<tDurable, tLock, tWaiting, tStage>>
  BY DEF T!Dispose, T!lockVars, T!tabVars
<1>2. tHandle = t
  BY <1>1 DEF TermInv, HandleIsOwned
<1>3. tStale' = {}
  BY <1>1, <1>2 DEF TermInv, HandleIsOwned
<1>4. tDurable => \A u \in Tabs : tStage[u] # "leading"
  BY <1>1, <1>2 DEF TermInv, HandleIsOwned
<1>q. QED
  BY <1>1, <1>2, <1>3, <1>4 DEF TermInv, LockIsUsed, HandleIsOwned

(* Every step of the tabs gives back what it must. *)
LEMMA TermStep ==
  ASSUME T!NoTabAssumption, LeaderInv, TermInv, [T!Next]_(T!vars)
  PROVE  TermInv'
<1>1. CASE UNCHANGED <<tStage, tLock, tWaiting, tHandle, tDurable, tStale>>
  BY <1>1 DEF TermInv, LockIsUsed, HandleIsOwned
<1>2. CASE UNCHANGED T!vars
  BY <1>1, <1>2 DEF T!vars, T!tabVars, T!lockVars, T!diskVars
<1>3. CASE T!Grant
  BY <1>3, GrantHolds
<1>4. CASE T!PeerChanges
  BY <1>1, <1>4 DEF T!PeerChanges, T!tabVars, T!lockVars, T!diskVars
<1>5. ASSUME NEW t \in Tabs,
             T!TabStep(t) \/ T!OpenTab(t) \/ T!FailsToOpen(t) \/ T!Disconnect(t) \/ T!CloseTab(t)
      PROVE  TermInv'
  <2>1. CASE T!Leads(t)
    BY <2>1, LeadsHolds
  <2>2. CASE T!Abandons(t)
    BY <2>2, AbandonsHolds
  <2>3. CASE T!FailsToOpen(t) \/ T!Disconnect(t) \/ T!CloseTab(t)
    BY <2>3, ResignsHolds
  <2>4. CASE T!Dispose(t)
    BY <2>4, DisposeHolds
  <2>5. CASE T!Receive(t) \/ T!StreamDelivers(t) \/ T!StreamSnapshots(t)
    BY <1>1, <2>5 DEF T!Receive, T!StreamDelivers, T!StreamSnapshots, T!tabVars, T!lockVars,
       T!diskVars
  <2>6. CASE T!OpenTab(t)
    <3>1. tWaiting' = Append(tWaiting, t) /\ UNCHANGED <<tStage, tLock, tHandle, tDurable, tStale>>
      BY <2>6 DEF T!OpenTab, T!diskVars
    <3>2. tWaiting' \in Seq(Tabs)
      BY <3>1 DEF TermInv
    <3>q. QED
      BY <3>1, <3>2 DEF TermInv, LockIsUsed, HandleIsOwned
  <2>q. QED
    BY <1>5, <2>1, <2>2, <2>3, <2>4, <2>5, <2>6 DEF T!TabStep
<1>6. ASSUME NEW w \in TabWrites,
             T!PostLands(w) \/ T!PostRefused(w) \/ \E t \in Tabs : T!WriteOptimistic(t, w)
      PROVE  TermInv'
  BY <1>1, <1>6 DEF T!PostLands, T!PostRefused, T!WriteOptimistic, T!tabVars, T!lockVars, T!diskVars
<1>q. QED
  BY <1>2, <1>3, <1>4, <1>5, <1>6 DEF T!Next

(* Two tabs never have a connection at once, and the tab that has one holds   *)
(* the lock; a term that is over leaves neither the lock nor the durable      *)
(* store behind, so that the next one can begin (cross-tab.ts, stopLeading    *)
(* before release, and the abandoned term of onLeadership).                   *)
THEOREM TermsAreSound == T!Spec => []TermsSound
<1>1. T!Init => LeaderInv /\ TermInv
  BY LeaderInit, TermInit
<1>2. LeaderInv /\ TermInv /\ [T!Next]_(T!vars) => (LeaderInv /\ TermInv)'
  BY LeaderStep, TermStep, TabConstants
<1>3. LeaderInv /\ TermInv => TermsSound
  BY DEF LeaderInv, LeaderHoldsLock, TermInv, LockIsUsed, HandleIsOwned, T!OneConnection,
         T!NothingOrphaned, TermsSound
<1>q. QED
  BY <1>1, <1>2, <1>3, PTL DEF T!Spec

-----------------------------------------------------------------------------
(* The bounded store *)

(* The keys stand in the order of their last use. *)
Sorted(keys, used) == \A i, j \in 1 .. Len(keys) : i < j => used[keys[i]] < used[keys[j]]

MemoryInv ==
  /\ mOrder \in Seq(MemoryKeys) /\ Len(mOrder) <= MaxEntries
  /\ DOMAIN mDeadline = MemoryKeys /\ mUsedAt \in [MemoryKeys -> Nat] /\ mUses \in Nat
  /\ \A k \in MemoryKeys : mUsedAt[k] <= mUses
  /\ Sorted(mOrder, mUsedAt)

(* Kept() lists the keys at the places that stay, in order. *)
LEMMA KeptIs ==
  ASSUME NEW S, NEW s \in Seq(S), NEW at \in SUBSET DOMAIN s
  PROVE  /\ M!Kept(s, at) \in Seq(S) /\ Len(M!Kept(s, at)) = Cardinality(at)
         /\ \E p \in [DOMAIN M!Kept(s, at) -> at] :
              /\ \A n \in DOMAIN M!Kept(s, at) : M!Kept(s, at)[n] = s[p[n]]
              /\ \A i \in at : \E n \in DOMAIN M!Kept(s, at) : p[n] = i
              /\ \A m, n \in DOMAIN M!Kept(s, at) : m < n => p[m] < p[n]
<1> DEFINE c == Cardinality(at)
           upTo(i) == {h \in at : h <= i}
           rank(i) == Cardinality(upTo(i))
           r == [i \in at |-> rank(i)]
           p == [n \in 1 .. c |-> CHOOSE i \in at : rank(i) = n]
<1>1. DOMAIN s = 1 .. Len(s) /\ Len(s) \in Nat OBVIOUS
<1>2. IsFiniteSet(at) /\ c \in Nat
  <2>1. IsFiniteSet(1 .. Len(s)) BY <1>1, FS_Interval
  <2> QED BY <1>1, <2>1, FS_Subset, FS_CardinalityType
<1>3. at \subseteq Nat BY <1>1
<1>4. ASSUME NEW i \in at PROVE rank(i) \in 1 .. c
  <2>1. upTo(i) \in SUBSET at /\ {i} \in SUBSET upTo(i) BY <1>3
  <2>2. IsFiniteSet(upTo(i)) /\ rank(i) <= c BY <1>2, <2>1, FS_Subset
  <2>3. rank(i) \in Nat BY <2>2, FS_CardinalityType
  <2>4. Cardinality({i}) = 1 BY FS_Singleton
  <2>5. Cardinality({i}) <= rank(i) BY <2>1, <2>2, FS_Subset
  <2> QED BY <1>2, <2>2, <2>3, <2>4, <2>5
<1>5. ASSUME NEW i \in at, NEW j \in at, i < j PROVE rank(i) < rank(j)
  <2>1. upTo(i) \in SUBSET upTo(j) /\ j \in upTo(j) /\ j \notin upTo(i) BY <1>3, <1>5
  <2>2. upTo(j) \in SUBSET at OBVIOUS
  <2>3. IsFiniteSet(upTo(j)) BY <1>2, <2>2, FS_Subset
  <2>4. rank(i) <= rank(j) /\ (rank(j) = rank(i) => upTo(j) = upTo(i)) BY <2>1, <2>3, FS_Subset
  <2>5. rank(i) # rank(j) BY <2>1, <2>4
  <2>6. rank(i) \in Nat /\ rank(j) \in Nat BY <1>4
  <2> HIDE DEF rank
  <2> QED BY <2>4, <2>5, <2>6
<1> HIDE DEF rank
<1>6. r \in Surjection(at, 1 .. c)
  <2>1. r \in [at -> 1 .. c] BY <1>4
  <2>2. ASSUME NEW i \in at, NEW j \in at, r[i] = r[j] PROVE i = j
    <3>1. i \in Nat /\ j \in Nat /\ rank(i) = rank(j) BY <1>3, <2>2
    <3>2. rank(i) \in Nat BY <1>4
    <3> QED BY <1>5, <3>1, <3>2
  <2>3. r \in Injection(at, 1 .. c) BY <2>1, <2>2 DEF Injection, IsInjective
  <2>4. IsFiniteSet(1 .. c) /\ Cardinality(1 .. c) = c BY <1>2, FS_Interval
  <2> QED BY <2>3, <2>4, FS_Injection
<1>7. ASSUME NEW n \in 1 .. c PROVE p[n] \in at /\ rank(p[n]) = n
  <2>1. PICK i \in at : r[i] = n BY <1>6 DEF Surjection
  <2>2. \E j \in at : rank(j) = n BY <2>1
  <2> QED BY <2>2
<1>8. M!Kept(s, at) = [n \in 1 .. c |-> s[p[n]]] BY DEF M!Kept, rank, M!Cardinality, Cardinality
<1> HIDE DEF p, r, c
<1>9. M!Kept(s, at) \in Seq(S) /\ DOMAIN M!Kept(s, at) = 1 .. c
  <2>1. \A n \in 1 .. c : s[p[n]] \in S BY <1>1, <1>7
  <2> QED BY <1>2, <1>8, <2>1, IsASeq
<1>10. p \in [1 .. c -> at] BY <1>7 DEF p
<1>11. ASSUME NEW i \in at PROVE \E n \in 1 .. c : p[n] = i
  <2>1. rank(i) \in 1 .. c BY <1>4
  <2>2. p[rank(i)] \in at /\ rank(p[rank(i)]) = rank(i) BY <1>7, <2>1
  <2>3. p[rank(i)] \in Nat /\ i \in Nat /\ rank(i) \in Nat BY <1>3, <2>1, <2>2
  <2>4. p[rank(i)] = i BY <1>5, <2>2, <2>3
  <2> QED BY <2>1, <2>4
<1>12. ASSUME NEW m \in 1 .. c, NEW n \in 1 .. c, m < n PROVE p[m] < p[n]
  <2>1. p[m] \in at /\ p[n] \in at /\ rank(p[m]) = m /\ rank(p[n]) = n BY <1>7
  <2>2. p[m] \in Nat /\ p[n] \in Nat BY <1>3, <2>1
  <2>3. p[m] # p[n] /\ ~(p[n] < p[m]) BY <1>5, <1>12, <2>1
  <2> QED BY <2>2, <2>3
<1>13. \A n \in 1 .. c : M!Kept(s, at)[n] = s[p[n]] BY <1>8
<1>14. Len(M!Kept(s, at)) = Cardinality(at) BY <1>2, <1>9 DEF c
<1> QED BY <1>9, <1>10, <1>11, <1>12, <1>13, <1>14

(* What stays is in the order of last use as well. *)
LEMMA KeptSorted ==
  ASSUME NEW s \in Seq(MemoryKeys), NEW used \in [MemoryKeys -> Nat], Sorted(s, used), NEW at \in SUBSET DOMAIN s
  PROVE  /\ M!Kept(s, at) \in Seq(MemoryKeys) /\ Sorted(M!Kept(s, at), used)
         /\ M!Range(M!Kept(s, at)) = {s[i] : i \in at}
         /\ Len(M!Kept(s, at)) <= Len(s)
         /\ at # DOMAIN s => Len(M!Kept(s, at)) < Len(s)
<1>1. PICK t : t = M!Kept(s, at) OBVIOUS
<1>2. t \in Seq(MemoryKeys) /\ Len(t) = Cardinality(at) BY <1>1, KeptIs
<1>3. PICK p \in [DOMAIN t -> at] :
         /\ \A n \in DOMAIN t : t[n] = s[p[n]]
         /\ \A i \in at : \E n \in DOMAIN t : p[n] = i
         /\ \A m, n \in DOMAIN t : m < n => p[m] < p[n]
  <2>1. \E p \in [DOMAIN M!Kept(s, at) -> at] :
           /\ \A n \in DOMAIN M!Kept(s, at) : M!Kept(s, at)[n] = s[p[n]]
           /\ \A i \in at : \E n \in DOMAIN M!Kept(s, at) : p[n] = i
           /\ \A m, n \in DOMAIN M!Kept(s, at) : m < n => p[m] < p[n]
    BY KeptIs
  <2> QED BY <1>1, <2>1, Zenon
<1>4. DOMAIN s = 1 .. Len(s) /\ Len(s) \in Nat /\ DOMAIN t = 1 .. Len(t) /\ Len(t) \in Nat
  BY <1>2
<1>5. Sorted(t, used)
  <2> SUFFICES ASSUME NEW i \in 1 .. Len(t), NEW j \in 1 .. Len(t), i < j
               PROVE  used[t[i]] < used[t[j]]
    BY DEF Sorted
  <2>1. p[i] < p[j] /\ p[i] \in at /\ p[j] \in at BY <1>3, <1>4
  <2>2. used[s[p[i]]] < used[s[p[j]]] BY <1>4, <2>1 DEF Sorted
  <2> QED BY <1>3, <1>4, <2>2
<1>6. M!Range(t) = {s[i] : i \in at}
  <2>1. ASSUME NEW x \in M!Range(t) PROVE x \in {s[i] : i \in at}
    <3>1. PICK n \in DOMAIN t : x = t[n] BY <2>1 DEF M!Range
    <3> QED BY <1>3, <3>1
  <2>2. ASSUME NEW i \in at PROVE s[i] \in M!Range(t)
    <3>1. PICK n \in DOMAIN t : p[n] = i BY <1>3
    <3> QED BY <1>3, <3>1 DEF M!Range
  <2> QED BY <2>1, <2>2
<1>7. /\ IsFiniteSet(1 .. Len(s)) /\ Cardinality(1 .. Len(s)) = Len(s)
  <2>1. PICK n \in Nat : n = Len(s) BY <1>4
  <2>2. IsFiniteSet(1 .. n) /\ Cardinality(1 .. n) = n BY FS_Interval
  <2> QED BY <2>1, <2>2
<1>8. /\ Cardinality(at) <= Len(s)
      /\ Cardinality(at) = Len(s) => at = DOMAIN s
  BY <1>4, <1>7, FS_Subset
<1> QED BY <1>1, <1>2, <1>4, <1>5, <1>6, <1>8

(* delete(): the key goes, and the order of the others stays. *)
LEMMA WithoutIs ==
  ASSUME NEW s \in Seq(MemoryKeys), NEW used \in [MemoryKeys -> Nat], Sorted(s, used), NEW k \in MemoryKeys
  PROVE  /\ M!Without(s, k) \in Seq(MemoryKeys) /\ Sorted(M!Without(s, k), used)
         /\ M!Range(M!Without(s, k)) = M!Range(s) \ {k}
         /\ Len(M!Without(s, k)) <= Len(s)
         /\ k \in M!Range(s) => Len(M!Without(s, k)) < Len(s)
<1>1. PICK at : at = {i \in DOMAIN s : s[i] # k} OBVIOUS
<1>2. M!Without(s, k) = M!Kept(s, at) BY <1>1 DEF M!Without
<1>3. at \in SUBSET DOMAIN s BY <1>1
<1>4. {s[i] : i \in at} = M!Range(s) \ {k} BY <1>1 DEF M!Range
<1>5. k \in M!Range(s) => at # DOMAIN s BY <1>1 DEF M!Range
<1> QED BY <1>2, <1>3, <1>4, <1>5, KeptSorted

(* A touch: the key moves to the end, where the last use belongs. *)
LEMMA TouchIs ==
  ASSUME NEW s \in Seq(MemoryKeys), NEW used \in [MemoryKeys -> Nat], Sorted(s, used), NEW k \in MemoryKeys,
         NEW n \in Nat, \A j \in MemoryKeys : used[j] < n, NEW used2, used2 = [used EXCEPT ![k] = n]
  PROVE  /\ M!Touch(s, k) \in Seq(MemoryKeys) /\ Sorted(M!Touch(s, k), used2)
         /\ M!Range(M!Touch(s, k)) = M!Range(s) \cup {k}
         /\ Len(M!Touch(s, k)) <= Len(s) + 1
         /\ k \in M!Range(s) => Len(M!Touch(s, k)) <= Len(s)
<1>1. PICK w : w = M!Without(s, k) OBVIOUS
<1>2. /\ w \in Seq(MemoryKeys) /\ Sorted(w, used) /\ M!Range(w) = M!Range(s) \ {k}
      /\ Len(w) <= Len(s) /\ (k \in M!Range(s) => Len(w) < Len(s))
  BY <1>1, WithoutIs
<1>3. PICK t : t = Append(w, k) OBVIOUS
<1>4. /\ t \in Seq(MemoryKeys) /\ Len(t) = Len(w) + 1 /\ t[Len(w) + 1] = k
      /\ \A i \in 1 .. Len(w) : t[i] = w[i]
  BY <1>2, <1>3
<1>5. Len(w) \in Nat /\ Len(s) \in Nat BY <1>2
<1>6. \A i \in 1 .. Len(w) : w[i] \in MemoryKeys /\ w[i] # k
  <2> SUFFICES ASSUME NEW i \in 1 .. Len(w) PROVE w[i] \in MemoryKeys /\ w[i] # k
    OBVIOUS
  <2>1. w[i] \in M!Range(w) BY <1>2 DEF M!Range
  <2> QED BY <1>2, <2>1
<1>7. Sorted(t, used2)
  <2> SUFFICES ASSUME NEW i \in 1 .. Len(t), NEW j \in 1 .. Len(t), i < j
               PROVE  used2[t[i]] < used2[t[j]]
    BY DEF Sorted
  <2>1. i \in 1 .. Len(w) /\ t[i] = w[i] BY <1>4, <1>5
  <2>2. w[i] \in MemoryKeys /\ w[i] # k BY <1>6, <2>1
  <2>3. used2[t[i]] = used[w[i]] /\ used2[k] = n BY <2>1, <2>2
  <2>4. CASE j \in 1 .. Len(w)
    <3>1. w[j] \in MemoryKeys /\ w[j] # k /\ t[j] = w[j] BY <1>4, <1>6, <2>4
    <3>2. used2[t[j]] = used[w[j]] BY <3>1
    <3> QED BY <1>2, <2>1, <2>3, <2>4, <3>2 DEF Sorted
  <2>5. CASE j \notin 1 .. Len(w)
    <3>1. t[j] = k BY <1>4, <1>5, <2>5
    <3> QED BY <2>2, <2>3, <3>1
  <2> QED BY <2>4, <2>5
<1>8. M!Range(t) = M!Range(s) \cup {k}
  <2>1. DOMAIN t = 1 .. Len(w) + 1 /\ DOMAIN w = 1 .. Len(w) BY <1>2, <1>4
  <2>2. ASSUME NEW x \in M!Range(t) PROVE x \in M!Range(w) \cup {k}
    <3>1. PICK i \in DOMAIN t : x = t[i] BY <2>2 DEF M!Range
    <3>2. i \in 1 .. Len(w) \/ i = Len(w) + 1 BY <1>5, <2>1
    <3> QED BY <1>4, <2>1, <3>1, <3>2 DEF M!Range
  <2>3. ASSUME NEW x \in M!Range(w) PROVE x \in M!Range(t)
    <3>1. PICK i \in DOMAIN w : x = w[i] BY <2>3 DEF M!Range
    <3>2. i \in DOMAIN t /\ t[i] = x BY <1>4, <1>5, <2>1, <3>1
    <3> QED BY <3>2 DEF M!Range
  <2>4. k \in M!Range(t)
    <3>1. Len(w) + 1 \in DOMAIN t BY <1>5, <2>1
    <3> QED BY <1>4, <3>1 DEF M!Range
  <2> QED BY <1>2, <2>2, <2>3, <2>4
<1>9. M!Touch(s, k) = t BY <1>1, <1>3 DEF M!Touch
<1> QED BY <1>2, <1>4, <1>5, <1>7, <1>8, <1>9

(* evictOverflow(): the sweep of the expired, then the head until it fits. *)
LEMMA EvictionIs ==
  ASSUME M!MaxEntriesAssumption,
         NEW s \in Seq(MemoryKeys), NEW used \in [MemoryKeys -> Nat], Sorted(s, used), NEW exp
  PROVE  /\ M!EvictOverflow(s, exp) \in Seq(MemoryKeys) /\ Sorted(M!EvictOverflow(s, exp), used)
         /\ Len(M!EvictOverflow(s, exp)) <= MaxEntries
         /\ Len(s) <= MaxEntries => M!EvictOverflow(s, exp) = s
         /\ \A k \in M!Range(s) \ M!Range(M!EvictOverflow(s, exp)) :
              ~M!Dead(exp[k]) =>
                /\ Len(M!EvictOverflow(s, exp)) = MaxEntries
                /\ \A j \in M!Range(M!EvictOverflow(s, exp)) : ~M!Dead(exp[j]) /\ used[j] > used[k]
<1>1. CASE Len(s) <= MaxEntries
  BY <1>1 DEF M!EvictOverflow
<1>2. CASE ~(Len(s) <= MaxEntries)
  <2>1. PICK at : at = {i \in DOMAIN s : ~M!Dead(exp[s[i]])} OBVIOUS
  <2>2. PICK live : live = M!Kept(s, at) OBVIOUS
  <2>3. live \in Seq(MemoryKeys) /\ Sorted(live, used) /\ M!Range(live) = {s[i] : i \in at}
    BY <2>1, <2>2, KeptSorted
  <2>4. Len(live) \in Nat /\ MaxEntries \in Nat BY <2>3 DEF M!MaxEntriesAssumption
  <2>5. PICK n : n = IF Len(live) - MaxEntries > 0 THEN Len(live) - MaxEntries ELSE 0 OBVIOUS
  <2>6. n \in Nat /\ n <= Len(live) /\ Len(live) - n <= MaxEntries
        /\ (n > 0 => Len(live) - n = MaxEntries)
    BY <2>4, <2>5
  <2>7. PICK t : t = SubSeq(live, 1 + n, Len(live)) OBVIOUS
  <2>8. M!EvictOverflow(s, exp) = t BY <1>2, <2>1, <2>2, <2>5, <2>7 DEF M!EvictOverflow
  <2>9. t \in Seq(MemoryKeys) /\ Len(t) = Len(live) - n /\ \A i \in 1 .. Len(live) - n : t[i] = live[n + i]
    <3>1. 1 + n \in 1 .. Len(live) + 1 /\ Len(live) \in 1 + n - 1 .. Len(live) BY <2>4, <2>6
    <3>2. PICK a : a = 1 + n OBVIOUS
    <3>3. t \in Seq(MemoryKeys) /\ Len(t) = Len(live) - a + 1
      BY <2>3, <2>4, <2>6, <2>7, <3>2, SubSeqProperties
    <3>4. \A i \in 1 .. Len(live) - a + 1 : t[i] = live[a + i - 1]
      BY <2>3, <2>4, <2>6, <2>7, <3>2, SubSeqProperties
    <3> QED BY <2>4, <2>6, <3>2, <3>3, <3>4
  <2>10. DOMAIN t = 1 .. Len(live) - n /\ DOMAIN live = 1 .. Len(live) BY <2>3, <2>9
  <2>11. Sorted(t, used)
    <3> SUFFICES ASSUME NEW i \in 1 .. Len(t), NEW j \in 1 .. Len(t), i < j
                 PROVE  used[t[i]] < used[t[j]]
      BY DEF Sorted
    <3>1. n + i \in 1 .. Len(live) /\ n + j \in 1 .. Len(live) /\ n + i < n + j
      BY <2>4, <2>6, <2>9
    <3>2. used[live[n + i]] < used[live[n + j]] BY <2>3, <3>1 DEF Sorted
    <3> QED BY <2>9, <3>2
  <2>12. ASSUME NEW k \in M!Range(s) \ M!Range(t), ~M!Dead(exp[k])
         PROVE  Len(t) = MaxEntries /\ \A j \in M!Range(t) : ~M!Dead(exp[j]) /\ used[j] > used[k]
    <3>1. PICK h \in DOMAIN s : s[h] = k BY <2>12 DEF M!Range
    <3>2. h \in at /\ k \in M!Range(live) BY <2>1, <2>3, <2>12, <3>1
    <3>3. PICK q \in 1 .. Len(live) : live[q] = k BY <2>10, <3>2 DEF M!Range
    <3>4. q <= n
      <4> SUFFICES ASSUME q > n PROVE FALSE BY <2>6, <3>3
      <4>1. PICK i : i = q - n OBVIOUS
      <4>2. i \in 1 .. Len(live) - n /\ n + i = q BY <2>4, <2>6, <3>3, <4>1
      <4>3. t[i] = k BY <2>9, <3>3, <4>2
      <4> QED BY <2>10, <2>12, <4>2, <4>3 DEF M!Range
    <3>5. Len(t) = MaxEntries BY <2>6, <2>9, <3>4
    <3>6. ASSUME NEW j \in M!Range(t) PROVE ~M!Dead(exp[j]) /\ used[j] > used[k]
      <4>1. PICK i \in 1 .. Len(live) - n : t[i] = j BY <2>10, <3>6 DEF M!Range
      <4>2. n + i \in 1 .. Len(live) /\ q < n + i /\ live[n + i] = j
        <5>1. n + i \in 1 .. Len(live) /\ q < n + i BY <2>4, <2>6, <3>4, <4>1
        <5>2. t[i] = live[n + i] BY <2>9, <4>1
        <5> QED BY <4>1, <5>1, <5>2
      <4>3. used[k] < used[j] BY <2>3, <3>3, <4>2 DEF Sorted
      <4>4. j \in M!Range(live) BY <2>10, <4>2 DEF M!Range
      <4>5. PICK g \in at : s[g] = j BY <2>3, <4>4
      <4>6. ~M!Dead(exp[j]) BY <2>1, <4>5
      <4>7. j \in MemoryKeys /\ k \in MemoryKeys BY <2>1, <3>1, <4>5
      <4>8. used[j] \in Nat /\ used[k] \in Nat BY <4>7
      <4> QED BY <4>3, <4>6, <4>8
    <3> QED BY <3>5, <3>6
  <2>13. Len(t) <= MaxEntries BY <2>6, <2>9
  <2> QED BY <1>2, <2>8, <2>9, <2>11, <2>12, <2>13
<1> QED BY <1>1, <1>2

(* The Map is empty at first. *)
LEMMA MemoryInit == ASSUME M!MaxEntriesAssumption, M!Init PROVE MemoryInv
BY DEF M!MaxEntriesAssumption, M!Init, MemoryInv, Sorted

(* The number of a use is above that of all before. *)
LEMMA UseIs ==
  ASSUME MemoryInv, NEW k \in MemoryKeys, M!Use(k)
  PROVE  /\ mUsedAt' = [mUsedAt EXCEPT ![k] = mUses + 1] /\ mUsedAt' \in [MemoryKeys -> Nat]
         /\ mUses' = mUses + 1 /\ mUses' \in Nat /\ mUses + 1 \in Nat
         /\ \A j \in MemoryKeys : mUsedAt'[j] <= mUses' /\ mUsedAt[j] < mUses + 1
BY DEF MemoryInv, M!Use

(* set(): a key that was in the Map already puts nothing over the cap, so what *)
(* is evicted is another one, and is alive only if all that stay are and are  *)
(* used later.                                                                *)
LEMMA SetKeeps ==
  ASSUME M!MaxEntriesAssumption, MemoryInv, NEW k0 \in MemoryKeys, M!Set(k0)
  PROVE  /\ MemoryInv'
         /\ \A k \in M!Stored \ M!Range(mOrder') : ~M!Dead(mDeadline[k]) =>
              /\ Len(mOrder') = MaxEntries
              /\ \A j \in M!Range(mOrder') : ~M!Dead(mDeadline'[j]) /\ mUsedAt'[j] > mUsedAt[k]
<1>1. /\ mOrder \in Seq(MemoryKeys) /\ Len(mOrder) <= MaxEntries /\ Sorted(mOrder, mUsedAt)
      /\ mUsedAt \in [MemoryKeys -> Nat] /\ DOMAIN mDeadline = MemoryKeys
  BY DEF MemoryInv
<1>2. M!Use(k0) /\ mOrder' = M!EvictOverflow(M!Touch(mOrder, k0), mDeadline') BY DEF M!Set
<1>3. PICK d : mDeadline' = [mDeadline EXCEPT ![k0] = d] BY DEF M!Set
<1>4. PICK t : t = M!Touch(mOrder, k0) OBVIOUS
<1>5. PICK n \in Nat : n = mUses + 1 BY <1>2, UseIs
<1>6. /\ mUsedAt' = [mUsedAt EXCEPT ![k0] = n] /\ mUsedAt' \in [MemoryKeys -> Nat] /\ mUses' \in Nat
      /\ \A j \in MemoryKeys : mUsedAt'[j] <= mUses' /\ mUsedAt[j] < n
  BY <1>2, <1>5, UseIs
<1>7. /\ t \in Seq(MemoryKeys) /\ Sorted(t, mUsedAt') /\ M!Range(t) = M!Stored \cup {k0}
      /\ k0 \in M!Stored => Len(t) <= Len(mOrder)
  BY <1>1, <1>4, <1>5, <1>6, TouchIs DEF M!Stored
<1>8. PICK exp : exp = mDeadline' OBVIOUS
<1>9. PICK o : o = mOrder' OBVIOUS
<1>10. PICK u : u = mUsedAt' OBVIOUS
<1>11. o = M!EvictOverflow(t, exp) BY <1>2, <1>4, <1>8, <1>9
<1>12. /\ o \in Seq(MemoryKeys) /\ Sorted(o, u) /\ Len(o) <= MaxEntries
       /\ Len(t) <= MaxEntries => o = t
       /\ \A k \in M!Range(t) \ M!Range(o) : ~M!Dead(exp[k]) =>
            Len(o) = MaxEntries /\ \A j \in M!Range(o) : ~M!Dead(exp[j]) /\ u[j] > u[k]
  BY <1>6, <1>7, <1>10, <1>11, EvictionIs
<1>13. MemoryInv'
  <2>1. DOMAIN mDeadline' = MemoryKeys BY <1>1, <1>3
  <2> QED BY <1>6, <1>9, <1>10, <1>12, <2>1 DEF MemoryInv, Sorted
<1>14. ASSUME NEW k \in M!Stored \ M!Range(o), ~M!Dead(mDeadline[k])
       PROVE  Len(o) = MaxEntries /\ \A j \in M!Range(o) : ~M!Dead(exp[j]) /\ u[j] > mUsedAt[k]
  <2>1. k \in MemoryKeys BY <1>1, <1>14 DEF M!Stored, M!Range
  <2>2. k # k0
    <3> SUFFICES ASSUME k = k0 PROVE FALSE OBVIOUS
    <3>1. Len(t) <= Len(mOrder) BY <1>7, <1>14
    <3>2. Len(t) \in Nat /\ Len(mOrder) \in Nat /\ MaxEntries \in Nat
      BY <1>1, <1>7 DEF M!MaxEntriesAssumption
    <3>3. o = t BY <1>1, <1>12, <3>1, <3>2
    <3> QED BY <1>7, <1>14, <3>3
  <2>3. exp[k] = mDeadline[k] /\ u[k] = mUsedAt[k] BY <1>1, <1>3, <1>6, <1>8, <1>10, <2>1, <2>2
  <2>4. k \in M!Range(t) \ M!Range(o) BY <1>7, <1>14
  <2> QED BY <1>12, <1>14, <2>3, <2>4
<1> QED BY <1>8, <1>9, <1>10, <1>13, <1>14

(* get(): nothing is evicted. *)
LEMMA GetKeeps ==
  ASSUME M!MaxEntriesAssumption, MemoryInv, NEW k \in MemoryKeys, M!Get(k)
  PROVE  MemoryInv' /\ M!Range(mOrder') = M!Stored
<1>1. /\ mOrder \in Seq(MemoryKeys) /\ Len(mOrder) <= MaxEntries /\ Sorted(mOrder, mUsedAt)
      /\ mUsedAt \in [MemoryKeys -> Nat] /\ DOMAIN mDeadline = MemoryKeys
  BY DEF MemoryInv
<1>2. M!Use(k) /\ mOrder' = M!Touch(mOrder, k) /\ mDeadline' = mDeadline /\ k \in M!Stored
  BY DEF M!Get
<1>3. PICK n \in Nat : n = mUses + 1 BY <1>2, UseIs
<1>4. /\ mUsedAt' = [mUsedAt EXCEPT ![k] = n] /\ mUsedAt' \in [MemoryKeys -> Nat] /\ mUses' \in Nat
      /\ \A j \in MemoryKeys : mUsedAt'[j] <= mUses' /\ mUsedAt[j] < n
  BY <1>2, <1>3, UseIs
<1>5. PICK o : o = mOrder' OBVIOUS
<1>6. PICK u : u = mUsedAt' OBVIOUS
<1>7. /\ o \in Seq(MemoryKeys) /\ Sorted(o, u) /\ M!Range(o) = M!Stored /\ Len(o) <= Len(mOrder)
  <2>1. o = M!Touch(mOrder, k) /\ u = [mUsedAt EXCEPT ![k] = n] BY <1>2, <1>4, <1>5, <1>6
  <2>2. M!Range(mOrder) \cup {k} = M!Stored /\ k \in M!Range(mOrder) BY <1>2 DEF M!Stored
  <2> QED BY <1>1, <1>4, <2>1, <2>2, TouchIs
<1>8. Len(o) <= MaxEntries
  <2>1. Len(o) = Len(mOrder) \/ Len(o) < Len(mOrder) BY <1>1, <1>7
  <2> QED BY <1>1, <1>7, <2>1 DEF M!MaxEntriesAssumption
<1> QED BY <1>1, <1>2, <1>4, <1>5, <1>6, <1>7, <1>8 DEF MemoryInv, Sorted

(* delete() keeps the order of the others. *)
LEMMA DeleteKeeps ==
  ASSUME M!MaxEntriesAssumption, MemoryInv, NEW k \in MemoryKeys, M!Delete(k)
  PROVE  MemoryInv'
<1>1. /\ mOrder \in Seq(MemoryKeys) /\ Len(mOrder) <= MaxEntries /\ Sorted(mOrder, mUsedAt)
      /\ mUsedAt \in [MemoryKeys -> Nat]
  BY DEF MemoryInv
<1>2. mOrder' = M!Without(mOrder, k) /\ UNCHANGED <<mDeadline, mUses, mUsedAt>> BY DEF M!Delete
<1>3. PICK o : o = mOrder' OBVIOUS
<1>4. o \in Seq(MemoryKeys) /\ Sorted(o, mUsedAt) /\ Len(o) <= Len(mOrder)
  BY <1>1, <1>2, <1>3, WithoutIs
<1>5. Len(o) <= MaxEntries
  <2>1. Len(o) \in Nat /\ Len(mOrder) \in Nat /\ MaxEntries \in Nat
    BY <1>1, <1>4 DEF M!MaxEntriesAssumption
  <2> QED BY <1>1, <1>4, <2>1
<1> QED BY <1>2, <1>3, <1>4, <1>5 DEF MemoryInv, Sorted

(* clear(), and the clock. *)
LEMMA RestKeeps ==
  ASSUME M!MaxEntriesAssumption, MemoryInv, M!Clear \/ M!Advance \/ UNCHANGED M!vars
  PROVE  MemoryInv' /\ mUses' = mUses
<1>1. CASE M!Clear
  <2>1. mOrder' = <<>> /\ UNCHANGED <<mDeadline, mUses, mUsedAt>> BY <1>1 DEF M!Clear
  <2>2. <<>> \in Seq(MemoryKeys) /\ Len(<<>>) = 0 /\ 0 <= MaxEntries BY DEF M!MaxEntriesAssumption
  <2> QED BY <2>1, <2>2 DEF MemoryInv, Sorted
<1>2. CASE M!Advance \/ UNCHANGED M!vars
  <2>1. UNCHANGED <<mOrder, mDeadline, mUses, mUsedAt>> BY <1>2 DEF M!Advance, M!vars
  <2> QED BY <2>1 DEF MemoryInv, Sorted
<1> QED BY <1>1, <1>2

(* Every verb keeps the order, and evicts as the property says. *)
LEMMA MemoryStep ==
  ASSUME M!MaxEntriesAssumption, MemoryInv, [M!Next]_(M!vars)
  PROVE  /\ MemoryInv'
         /\ mUses' # mUses =>
              \A k \in M!Stored \ M!Range(mOrder') : ~M!Dead(mDeadline[k]) =>
                /\ Len(mOrder') = MaxEntries
                /\ \A j \in M!Range(mOrder') : ~M!Dead(mDeadline'[j]) /\ mUsedAt'[j] > mUsedAt[k]
<1>1. CASE \E k \in MemoryKeys : M!Set(k) BY <1>1, SetKeeps
<1>2. CASE \E k \in MemoryKeys : M!Get(k) BY <1>2, GetKeeps
<1>3. CASE \E k \in MemoryKeys : M!Delete(k)
  <2>1. mUses' = mUses BY <1>3 DEF M!Delete
  <2> QED BY <1>3, <2>1, DeleteKeeps
<1>4. CASE M!Clear \/ M!Advance \/ UNCHANGED M!vars BY <1>4, RestKeeps
<1> QED BY <1>1, <1>2, <1>3, <1>4 DEF M!Next

(* A set evicts a live entry only when the store is full and all that stay   *)
(* are alive and were used after it, and the Map iterates in the order of     *)
(* last use (memory-store.ts, evictOverflow), for any keys, cap and uses (an  *)
(* action property).                                                          *)
THEOREM EvictsRightly == M!Spec => EvictsTheRightOne
<1>1. M!Init => MemoryInv
  BY MemoryInit, MemoryConstants
<1>2. MemoryInv /\ [M!Next]_(M!vars)
      => MemoryInv' /\ [/\ M!OrderIsRecency'
                        /\ \A k \in MemoryKeys :
                             LET stays == M!Range(mOrder') IN
                             mUses' # mUses /\ k \in M!Stored \ stays /\ ~M!Dead(mDeadline[k]) =>
                               /\ Len(mOrder') = MaxEntries
                               /\ \A j \in stays : ~M!Dead(mDeadline'[j]) /\ mUsedAt'[j] > mUsedAt[k]]_(M!vars)
  <2> SUFFICES ASSUME MemoryInv, [M!Next]_(M!vars)
               PROVE  /\ MemoryInv' /\ M!OrderIsRecency'
                      /\ \A k \in MemoryKeys :
                           mUses' # mUses /\ k \in M!Stored \ M!Range(mOrder') /\ ~M!Dead(mDeadline[k]) =>
                             /\ Len(mOrder') = MaxEntries
                             /\ \A j \in M!Range(mOrder') : /\ ~M!Dead(mDeadline'[j])
                                                            /\ mUsedAt'[j] > mUsedAt[k]
    OBVIOUS
  <2>1. MemoryInv'
    BY MemoryStep, MemoryConstants
  <2>2. M!OrderIsRecency'
    BY <2>1 DEF MemoryInv, Sorted, M!OrderIsRecency
  <2> QED
    BY <2>1, <2>2, MemoryStep, MemoryConstants
<1> QED
  BY <1>1, <1>2, PTL DEF M!Spec, M!EvictsTheRightOne, EvictsTheRightOne
=============================================================================
