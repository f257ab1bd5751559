---------------------------- MODULE FleetProofs ----------------------------
(***************************************************************************)
(* What a fleet shares through the database, for any number of checkers,   *)
(* callers, versions, addresses, runs and topics: the rate limiter, the    *)
(* migrator, the mailing lists and the topic bus of MCFleet, each by an    *)
(* inductive invariant of its own.                                         *)
(***************************************************************************)
EXTENDS MCFleet, SequenceTheorems, FiniteSetTheorems, WellFoundedInduction, TLAPS

(* The rate limiter *)

BucketRows == {L!NoRow} \cup [tokens : 0 .. Capacity, at : Nat]

BucketType ==
  /\ lNow \in Nat
  /\ lRow \in BucketRows
  /\ lQueue \in Seq(Checkers)
  /\ lPc \in [Checkers -> {"idle", "select", "update", "insert"}]
  /\ lAt \in [Checkers -> Nat]
  /\ lRead \in [Checkers -> BucketRows]
  /\ lRetried \in [Checkers -> BOOLEAN] /\ lRaced \in [Checkers -> BOOLEAN]
  /\ lSweep \in Nat \cup {L!Never}
  /\ lSpent \in Nat /\ lMark \in Nat /\ lRewound \in Nat
  /\ lRefused \subseteq Checkers /\ lDeleted \in BOOLEAN

(* No clock that was read lies in the future. *)
ClocksPast == lMark <= lNow /\ lSweep <= lNow /\ \A c \in Checkers : lAt[c] <= lNow

(* A check that is about to update has the row locked, as it read it; one     *)
(* that is about to insert found none.                                        *)
LocksHeld ==
  \A c \in Checkers : /\ lPc[c] = "update" => lHolder = c /\ lRow # L!NoRow /\ lRead[c] = lRow
                      /\ lPc[c] = "insert" => lRead[c] = L!NoRow

(* What is spent and what is left never exceed what was credited. *)
Ledger ==
  IF lRow = L!NoRow THEN lSpent <= lMark + lRewound
  ELSE lRow.at = lMark /\ lSpent + lRow.tokens <= Capacity + lMark + lRewound

(* The row a retry lost to is still there, unless a sweep came by. *)
ConflictStands ==
  \A c \in Checkers : /\ lRetried[c] /\ ~lRaced[c] => lRow # L!NoRow
                      /\ lRetried[c] /\ lPc[c] = "insert" => lRaced[c]

(* SQLite: the checks that wait are in the order of their clocks, each once,  *)
(* and the one at work is the first.                                          *)
InLine ==
  lDialect = "sqlite" =>
    /\ \A i, j \in 1 .. Len(lQueue) : i < j => lQueue[i] # lQueue[j] /\ lAt[lQueue[i]] <= lAt[lQueue[j]]
    /\ \A i \in 1 .. Len(lQueue) : lPc[lQueue[i]] # "idle"
    /\ \A c \in Checkers : lPc[c] # "idle" => \E i \in 1 .. Len(lQueue) : lQueue[i] = c
    /\ \A c \in Checkers : lPc[c] \in {"update", "insert"} => lQueue[1] = c

(* SQLite: nobody in line has an older clock than the last stamp. *)
NoRewind ==
  lDialect = "sqlite" /\ ~lDeleted =>
    lRewound = 0 /\ \A i \in 1 .. Len(lQueue) : lMark <= lAt[lQueue[i]]

BucketInv ==
  /\ BucketType /\ ClocksPast /\ LocksHeld /\ Ledger /\ ConflictStands /\ L!RefusedOnlyBySweep
  /\ InLine /\ NoRewind

BucketAssumptions == L!BucketAssumption /\ L!RetentionAssumption /\ L!NoOneAssumption

(* Before the first check no row is stored. *)
LEMMA BucketInit == BucketAssumptions /\ L!Init => BucketInv
<1> SUFFICES ASSUME BucketAssumptions, L!Init PROVE BucketInv
  OBVIOUS
<1>1. /\ lRetried \in [Checkers -> BOOLEAN] /\ lRaced \in [Checkers -> BOOLEAN]
      /\ lDeleted \in BOOLEAN
  BY DEF L!Init
<1>2. BucketType
  BY <1>1 DEF L!Init, BucketType, BucketRows
<1>3. ClocksPast /\ LocksHeld /\ Ledger
  BY DEF L!Init, ClocksPast, LocksHeld, Ledger, L!Never
<1>4. ConflictStands /\ L!RefusedOnlyBySweep
  BY DEF L!Init, ConflictStands, L!RefusedOnlyBySweep
<1>5. InLine /\ NoRewind
  BY DEF L!Init, InLine, NoRewind
<1>q. QED
  BY <1>2, <1>3, <1>4, <1>5 DEF BucketInv

(* What a refill and a mutate return. *)
LEMMA MutatedType ==
  ASSUME BucketAssumptions, NEW state \in BucketRows, NEW time \in Nat
  PROVE  /\ L!Refilled(state, time) \in 0 .. Capacity
         /\ L!Mutated(state, time) \in [tokens : 0 .. Capacity, at : Nat]
         /\ L!Mutated(state, time) # L!NoRow
         /\ L!Mutated(state, time).at = time
         /\ L!Mutated(state, time).tokens
            = L!Refilled(state, time) - (IF L!Allowed(state, time) THEN Cost ELSE 0)
<1>1. L!Refilled(state, time) \in 0 .. Capacity
  BY DEF BucketAssumptions, L!BucketAssumption, BucketRows, L!NoRow, L!Never, L!Refilled, L!AtMost,
     L!AtLeast
<1>q. QED
  BY <1>1 DEF BucketAssumptions, L!BucketAssumption, L!Mutated, L!Allowed, L!NoRow, L!Never

(* A check that is first in line leaves: the others move up. *)
LEMMA LeavesLine ==
  ASSUME BucketType, InLine, NEW c \in Checkers, lPc[c] # "idle",
         lDialect = "sqlite" => lQueue[1] = c, L!Leaves(c), UNCHANGED <<lDialect, lAt>>
  PROVE  /\ InLine'
         /\ lQueue' \in Seq(Checkers)
         /\ lDialect = "sqlite" =>
              /\ Len(lQueue') = Len(lQueue) - 1
              /\ \A i \in 1 .. Len(lQueue') : i + 1 \in 2 .. Len(lQueue) /\ lQueue'[i] = lQueue[i + 1]
<1>1. CASE lDialect # "sqlite"
  BY <1>1 DEF BucketType, InLine, L!Leaves
<1>2. CASE lDialect = "sqlite"
  <2>1. lQueue # <<>> /\ lQueue \in Seq(Checkers) /\ lQueue[1] = c /\ 1 \in 1 .. Len(lQueue)
    BY <1>2 DEF InLine, BucketType
  <2>2. /\ lQueue' \in Seq(Checkers)
        /\ Len(lQueue') = Len(lQueue) - 1
        /\ \A i \in 1 .. Len(lQueue') : i + 1 \in 2 .. Len(lQueue) /\ lQueue'[i] = lQueue[i + 1]
    BY <1>2, <2>1 DEF L!Leaves
  <2>3. /\ lPc' \in [Checkers -> {"idle", "select", "update", "insert"}]
        /\ lPc'[c] = "idle" /\ \A d \in Checkers \ {c} : lPc'[d] = lPc[d]
    BY DEF L!Leaves, BucketType
  <2>4. \A i \in 1 .. Len(lQueue') : lQueue'[i] # c /\ lQueue'[i] \in Checkers
    <3> TAKE i \in 1 .. Len(lQueue')
    <3>1. i + 1 \in 1 .. Len(lQueue) /\ 1 < i + 1 /\ lQueue'[i] = lQueue[i + 1]
      BY <2>1, <2>2
    <3>2. lQueue[1] # lQueue[i + 1]
      BY <1>2, <2>1, <3>1 DEF InLine
    <3>q. QED
      BY <2>1, <3>1, <3>2
  <2>5. \A i, j \in 1 .. Len(lQueue') : i < j => lQueue'[i] # lQueue'[j] /\ lAt[lQueue'[i]] <= lAt[lQueue'[j]]
    <3> TAKE i, j \in 1 .. Len(lQueue')
    <3>1. /\ i + 1 \in 1 .. Len(lQueue) /\ j + 1 \in 1 .. Len(lQueue)
          /\ lQueue'[i] = lQueue[i + 1] /\ lQueue'[j] = lQueue[j + 1]
      BY <2>1, <2>2
    <3>2. i < j => i + 1 < j + 1
      OBVIOUS
    <3>q. QED
      BY <1>2, <3>1, <3>2 DEF InLine
  <2>6. \A i \in 1 .. Len(lQueue') : lPc'[lQueue'[i]] # "idle"
    <3> TAKE i \in 1 .. Len(lQueue')
    <3>1. i + 1 \in 1 .. Len(lQueue) /\ lQueue'[i] = lQueue[i + 1]
      BY <2>1, <2>2
    <3>q. QED
      BY <1>2, <2>3, <2>4, <3>1 DEF InLine
  <2>7. ASSUME NEW d \in Checkers, lPc'[d] # "idle"
        PROVE  \E i \in 1 .. Len(lQueue') : lQueue'[i] = d
    <3>1. d # c /\ lPc[d] # "idle"
      BY <2>3, <2>7
    <3>2. PICK i \in 1 .. Len(lQueue) : lQueue[i] = d
      BY <1>2, <3>1 DEF InLine
    <3>3. i # 1 /\ i - 1 \in 1 .. Len(lQueue')
      BY <2>1, <2>2, <3>1, <3>2 DEF BucketType
    <3>4. lQueue'[i - 1] = lQueue[i]
      BY <2>2, <3>3
    <3>q. QED
      BY <3>2, <3>3, <3>4
  <2>8. \A d \in Checkers : lPc'[d] \in {"update", "insert"} => FALSE
    BY <1>2, <2>1, <2>3 DEF InLine
  <2>q. QED
    BY <1>2, <2>2, <2>5, <2>6, <2>7, <2>8 DEF InLine
<1>q. QED
  BY <1>1, <1>2

(* A check stamps the row: it had the row, or there was none. *)
LEMMA StampStep ==
  ASSUME BucketAssumptions, BucketInv, NEW c \in Checkers, L!Update(c) \/ L!Insert(c)
  PROVE  BucketInv'
<1>0. BucketType /\ ClocksPast /\ LocksHeld /\ Ledger /\ ConflictStands /\ L!RefusedOnlyBySweep
      /\ InLine /\ NoRewind
  BY DEF BucketInv
<1>1. /\ L!Stamp(c) /\ L!Leaves(c) /\ lRead[c] = lRow
      /\ lPc[c] \in {"update", "insert"}
      /\ UNCHANGED <<lNow, lDialect, lAt, lRetried, lSweep, lRaced, lRefused, lDeleted>>
  BY <1>0 DEF L!Update, L!Insert, LocksHeld
<1> DEFINE cost == IF L!Allowed(lRow, lAt[c]) THEN Cost ELSE 0
<1>2. /\ lAt[c] \in Nat /\ cost \in Nat /\ lRow \in BucketRows
      /\ lRow' = L!Mutated(lRow, lAt[c]) /\ lSpent' = lSpent + cost /\ lMark' = lAt[c]
      /\ lRewound' = lRewound + L!AtLeast(0, lMark - lAt[c])
  BY <1>0, <1>1 DEF L!Stamp, BucketType, BucketAssumptions, L!BucketAssumption
<1>3. /\ lRow' \in [tokens : 0 .. Capacity, at : Nat] /\ lRow' # L!NoRow /\ lRow'.at = lAt[c]
      /\ lRow'.tokens = L!Refilled(lRow, lAt[c]) - cost
      /\ L!Refilled(lRow, lAt[c]) \in 0 .. Capacity
  BY <1>2, MutatedType
<1>4. lDialect = "sqlite" => lQueue[1] = c
  BY <1>0, <1>1 DEF InLine
<1>5. /\ InLine' /\ lQueue' \in Seq(Checkers)
      /\ lDialect = "sqlite" =>
           /\ Len(lQueue') = Len(lQueue) - 1
           /\ \A i \in 1 .. Len(lQueue') : i + 1 \in 2 .. Len(lQueue) /\ lQueue'[i] = lQueue[i + 1]
  BY <1>0, <1>1, <1>4, LeavesLine
<1>6. /\ lPc' = [lPc EXCEPT ![c] = "idle"] /\ lRead' = [lRead EXCEPT ![c] = L!NoRow]
  BY <1>1 DEF L!Leaves
<1>7. BucketType'
  <2>1. lRewound' \in Nat /\ lSpent' \in Nat
    BY <1>0, <1>2 DEF BucketType, L!AtLeast
  <2>2. lRow' \in BucketRows
    BY <1>3 DEF BucketRows
  <2>3. lRead' \in [Checkers -> BucketRows] /\ lPc' \in [Checkers -> {"idle", "select", "update", "insert"}]
    BY <1>0, <1>6 DEF BucketType, BucketRows
  <2>q. QED
    BY <1>0, <1>1, <1>2, <1>5, <2>1, <2>2, <2>3 DEF BucketType
<1>8. ClocksPast'
  BY <1>0, <1>1, <1>2 DEF ClocksPast
<1>9. LocksHeld'
  BY <1>0, <1>1, <1>6 DEF LocksHeld, L!Update, L!Insert, BucketType, InLine
<1>10. Ledger'
  <2>1. CASE lRow = L!NoRow
    <3>1. lSpent <= lMark + lRewound /\ lMark \in Nat /\ lSpent \in Nat /\ lRewound \in Nat
      BY <1>0, <2>1 DEF Ledger, BucketType
    <3>2. L!AtLeast(0, lMark - lAt[c]) \in Nat /\ lMark <= lAt[c] + L!AtLeast(0, lMark - lAt[c])
      BY <1>2, <3>1 DEF L!AtLeast
    <3>3. lSpent' + lRow'.tokens = lSpent + L!Refilled(lRow, lAt[c]) /\ L!Refilled(lRow, lAt[c]) <= Capacity
      BY <1>2, <1>3, <3>1 DEF BucketAssumptions, L!BucketAssumption
    <3>4. lMark' + lRewound' = lAt[c] + lRewound + L!AtLeast(0, lMark - lAt[c])
      BY <1>2, <3>1, <3>2
    <3>5. L!Refilled(lRow, lAt[c]) \in Nat /\ Capacity \in Nat /\ lAt[c] \in Nat
      BY <1>2, <1>3 DEF BucketAssumptions, L!BucketAssumption
    <3>6. PICK extra \in Nat : extra = L!AtLeast(0, lMark - lAt[c])
      BY <3>2
    <3>7. PICK full \in Nat : full = L!Refilled(lRow, lAt[c])
      BY <3>5
    <3>8. lSpent + full <= Capacity + (lAt[c] + lRewound + extra)
      BY <3>1, <3>2, <3>3, <3>5, <3>6, <3>7
    <3>q. QED
      BY <1>2, <1>3, <3>1, <3>3, <3>4, <3>5, <3>6, <3>7, <3>8 DEF Ledger
  <2>2. CASE lRow # L!NoRow
    <3>0. lRow.tokens \in Nat /\ lRow.at \in Nat /\ Capacity \in Nat
      BY <1>2, <2>2 DEF BucketRows, BucketAssumptions, L!BucketAssumption
    <3>1. L!Refilled(lRow, lAt[c]) <= lRow.tokens + L!AtLeast(0, lAt[c] - lRow.at)
      BY <1>2, <2>2, <3>0 DEF L!Refilled, L!AtMost, L!AtLeast
    <3>2. lRow.at = lMark /\ lSpent + lRow.tokens <= Capacity + lMark + lRewound /\ lRow.tokens \in Nat
      BY <1>0, <2>2 DEF Ledger, BucketType, BucketRows
    <3>3. lMark \in Nat /\ lSpent \in Nat /\ lRewound \in Nat
      BY <1>0 DEF BucketType
    <3>4. lMark + L!AtLeast(0, lAt[c] - lMark) = lAt[c] + L!AtLeast(0, lMark - lAt[c])
      BY <1>2, <3>3 DEF L!AtLeast
    <3>5. L!AtLeast(0, lAt[c] - lMark) \in Nat /\ L!AtLeast(0, lMark - lAt[c]) \in Nat
      BY <1>2, <3>3 DEF L!AtLeast
    <3>6. lSpent' + lRow'.tokens <= Capacity + lMark' + lRewound'
      <4> DEFINE gained == L!AtLeast(0, lAt[c] - lMark)
      <4> DEFINE twice == L!AtLeast(0, lMark - lAt[c])
      <4>1. lSpent' + lRow'.tokens = lSpent + L!Refilled(lRow, lAt[c])
        BY <1>2, <1>3, <3>3
      <4>2. L!Refilled(lRow, lAt[c]) <= lRow.tokens + gained
        BY <3>1, <3>2
      <4>3. Capacity + lMark' + lRewound' = Capacity + lAt[c] + lRewound + twice
        BY <1>2, <3>0, <3>3, <3>5
      <4> HIDE DEF gained, twice, cost
      <4>4. gained \in Nat /\ twice \in Nat /\ lMark + gained = lAt[c] + twice
        BY <3>4, <3>5 DEF gained, twice
      <4>q. QED
        BY <1>2, <1>3, <3>0, <3>2, <3>3, <4>1, <4>2, <4>3, <4>4
    <3>q. QED
      BY <1>2, <1>3, <3>6 DEF Ledger
  <2>q. QED
    BY <2>1, <2>2
<1>11. ConflictStands' /\ L!RefusedOnlyBySweep'
  <2>1. \A d \in Checkers : lPc'[d] = "insert" => lPc[d] = "insert"
    BY <1>0, <1>6 DEF BucketType
  <2>2. ConflictStands'
    BY <1>0, <1>1, <1>3, <2>1 DEF ConflictStands
  <2>3. L!RefusedOnlyBySweep'
    BY <1>0, <1>1 DEF L!RefusedOnlyBySweep
  <2>q. QED
    BY <2>2, <2>3
<1>12. NoRewind'
  <2> SUFFICES ASSUME lDialect = "sqlite", ~lDeleted
               PROVE lRewound' = 0 /\ \A i \in 1 .. Len(lQueue') : lMark' <= lAt'[lQueue'[i]]
    <3>1. lDialect' = lDialect /\ lDeleted' = lDeleted
      BY <1>1
    <3>q. QED
      BY <3>1 DEF NoRewind
  <2>1. 1 \in 1 .. Len(lQueue) /\ lQueue[1] = c
    <3>1. lPc[c] # "idle"
      BY <1>1
    <3>2. PICK i \in 1 .. Len(lQueue) : lQueue[i] = c
      BY <1>0, <3>1 DEF InLine
    <3>q. QED
      BY <1>0, <1>4, <3>2 DEF BucketType
  <2>2. lMark <= lAt[c] /\ lRewound = 0
    BY <1>0, <2>1 DEF NoRewind
  <2>3. lRewound' = 0
    BY <1>0, <1>2, <2>2 DEF L!AtLeast, BucketType
  <2>4. \A i \in 1 .. Len(lQueue') : lAt[c] <= lAt[lQueue'[i]]
    <3> TAKE i \in 1 .. Len(lQueue')
    <3>1. i + 1 \in 2 .. Len(lQueue) /\ lQueue'[i] = lQueue[i + 1]
      BY <1>5
    <3>2. Len(lQueue) \in Nat
      BY <1>0 DEF BucketType
    <3>3. i + 1 \in 1 .. Len(lQueue) /\ 1 < i + 1
      BY <3>1, <3>2
    <3>q. QED
      BY <1>0, <2>1, <3>1, <3>3 DEF InLine
  <2>q. QED
    BY <1>1, <1>2, <2>3, <2>4
<1>q. QED
  BY <1>5, <1>7, <1>8, <1>9, <1>10, <1>11, <1>12 DEF BucketInv

(* A check is asked for: it is last in line, with the newest clock. *)
LEMMA CheckKeeps ==
  ASSUME BucketAssumptions, BucketInv, NEW c \in Checkers, L!Check(c)
  PROVE  BucketInv'
<1>0. BucketType /\ ClocksPast /\ LocksHeld /\ Ledger /\ ConflictStands /\ L!RefusedOnlyBySweep
      /\ InLine /\ NoRewind
  BY DEF BucketInv
<1>1. /\ UNCHANGED <<lNow, lDialect, lRow, lHolder, lRead, lSweep, lSpent, lMark, lRewound, lDeleted>>
      /\ lPc[c] = "idle" /\ lPc' = [lPc EXCEPT ![c] = "select"] /\ lAt' = [lAt EXCEPT ![c] = lNow]
      /\ lRetried' = [lRetried EXCEPT ![c] = FALSE] /\ lRaced' = [lRaced EXCEPT ![c] = FALSE]
      /\ lRefused' = lRefused \ {c}
      /\ lQueue' = IF lDialect = "sqlite" THEN Append(lQueue, c) ELSE lQueue
  BY DEF L!Check
<1>2. /\ \A d \in Checkers \ {c} : lPc'[d] = lPc[d] /\ lAt'[d] = lAt[d]
                                  /\ lRetried'[d] = lRetried[d] /\ lRaced'[d] = lRaced[d]
      /\ lPc'[c] = "select" /\ lAt'[c] = lNow /\ ~lRetried'[c]
  BY <1>0, <1>1 DEF BucketType
<1>3. BucketType'
  <2>1. lRetried' \in [Checkers -> BOOLEAN] /\ lRaced' \in [Checkers -> BOOLEAN]
    BY <1>0, <1>1, Zenon DEF BucketType
  <2>2. /\ lQueue' \in Seq(Checkers) /\ lAt' \in [Checkers -> Nat]
        /\ lPc' \in [Checkers -> {"idle", "select", "update", "insert"}]
    BY <1>0, <1>1 DEF BucketType
  <2>q. QED
    BY <1>0, <1>1, <2>1, <2>2 DEF BucketType
<1>4. ClocksPast'
  BY <1>0, <1>1, <1>2 DEF ClocksPast, BucketType
<1>5. LocksHeld'
  BY <1>0, <1>1, <1>2 DEF LocksHeld
<1>6. Ledger'
  BY <1>0, <1>1 DEF Ledger
<1>7. ConflictStands' /\ L!RefusedOnlyBySweep'
  <2>1. ConflictStands'
    BY <1>0, <1>1, <1>2 DEF ConflictStands
  <2>2. ASSUME NEW d \in lRefused' PROVE lRaced'[d]
    <3>1. d # c /\ d \in lRefused /\ lRaced[d]
      BY <1>0, <1>1, <2>2 DEF L!RefusedOnlyBySweep
    <3>q. QED
      BY <1>0, <1>1, <3>1 DEF BucketType
  <2>q. QED
    BY <2>1, <2>2 DEF L!RefusedOnlyBySweep
<1>8. InLine' /\ NoRewind'
  <2>1. CASE lDialect # "sqlite"
    BY <1>1, <2>1 DEF InLine, NoRewind
  <2>2. CASE lDialect = "sqlite"
    <3>1. /\ lQueue' = Append(lQueue, c) /\ Len(lQueue) \in Nat /\ Len(lQueue') = Len(lQueue) + 1
          /\ lQueue'[Len(lQueue')] = c
          /\ \A i \in 1 .. Len(lQueue) : lQueue'[i] = lQueue[i] /\ lQueue[i] \in Checkers
      BY <1>0, <1>1, <2>2 DEF BucketType
    <3>2. \A i \in 1 .. Len(lQueue) : lQueue[i] # c /\ lAt'[lQueue[i]] = lAt[lQueue[i]]
                                   /\ lPc'[lQueue[i]] = lPc[lQueue[i]]
      BY <1>0, <1>1, <1>2, <2>2, <3>1 DEF InLine
    <3>3. \A i, j \in 1 .. Len(lQueue') :
            i < j => lQueue'[i] # lQueue'[j] /\ lAt'[lQueue'[i]] <= lAt'[lQueue'[j]]
      <4> TAKE i, j \in 1 .. Len(lQueue')
      <4> HAVE i < j
      <4>1. i \in 1 .. Len(lQueue) /\ lAt[lQueue[i]] <= lNow
        BY <1>0, <3>1 DEF ClocksPast
      <4>2. CASE j = Len(lQueue')
        BY <1>2, <3>1, <3>2, <4>1, <4>2
      <4>3. CASE j # Len(lQueue')
        <5>1. j \in 1 .. Len(lQueue)
          BY <3>1, <4>3
        <5>q. QED
          BY <1>0, <2>2, <3>1, <3>2, <4>1, <5>1 DEF InLine
      <4>q. QED
        BY <4>2, <4>3
    <3>4. \A i \in 1 .. Len(lQueue') : lPc'[lQueue'[i]] # "idle"
      <4> TAKE i \in 1 .. Len(lQueue')
      <4>1. CASE i = Len(lQueue')
        BY <1>2, <3>1, <4>1
      <4>2. CASE i # Len(lQueue')
        <5>1. i \in 1 .. Len(lQueue)
          BY <3>1, <4>2
        <5>q. QED
          BY <1>0, <2>2, <3>1, <3>2, <5>1 DEF InLine
      <4>q. QED
        BY <4>1, <4>2
    <3>5. ASSUME NEW d \in Checkers, lPc'[d] # "idle"
          PROVE  \E i \in 1 .. Len(lQueue') : lQueue'[i] = d
      <4>1. CASE d = c
        BY <3>1, <4>1
      <4>2. CASE d # c
        <5>1. PICK i \in 1 .. Len(lQueue) : lQueue[i] = d
          BY <1>0, <1>2, <2>2, <3>5, <4>2 DEF InLine
        <5>q. QED
          BY <3>1, <5>1
      <4>q. QED
        BY <4>1, <4>2
    <3>6. ASSUME NEW d \in Checkers, lPc'[d] \in {"update", "insert"}
          PROVE  lQueue'[1] = d
      <4>1. lPc[d] \in {"update", "insert"}
        BY <1>2, <3>6
      <4>2. PICK i \in 1 .. Len(lQueue) : lQueue[i] = d
        BY <1>0, <2>2, <4>1 DEF InLine
      <4>3. 1 \in 1 .. Len(lQueue) /\ lQueue[1] = d
        BY <1>0, <2>2, <3>1, <4>1, <4>2 DEF InLine
      <4>q. QED
        BY <3>1, <4>3
    <3>7. InLine'
      BY <3>3, <3>4, <3>5, <3>6 DEF InLine
    <3>8. NoRewind'
      <4> SUFFICES ASSUME ~lDeleted
                   PROVE  lRewound' = 0 /\ \A i \in 1 .. Len(lQueue') : lMark' <= lAt'[lQueue'[i]]
        <5>1. lDeleted' = lDeleted
          BY <1>1
        <5>q. QED
          BY <5>1 DEF NoRewind
      <4>1. lRewound' = 0 /\ lMark' = lMark /\ lMark <= lNow
        BY <1>0, <1>1, <2>2 DEF NoRewind, ClocksPast
      <4>2. ASSUME NEW i \in 1 .. Len(lQueue') PROVE lMark <= lAt'[lQueue'[i]]
        <5>1. CASE i = Len(lQueue')
          BY <1>2, <3>1, <4>1, <5>1
        <5>2. CASE i # Len(lQueue')
          <6>1. i \in 1 .. Len(lQueue)
            BY <3>1, <5>2
          <6>q. QED
            BY <1>0, <2>2, <3>1, <3>2, <6>1 DEF NoRewind
        <5>q. QED
          BY <5>1, <5>2
      <4>q. QED
        BY <4>1, <4>2
    <3>q. QED
      BY <3>7, <3>8
  <2>q. QED
    BY <2>1, <2>2
<1>q. QED
  BY <1>3, <1>4, <1>5, <1>6, <1>7, <1>8 DEF BucketInv

(* The SELECT returns: nobody else has the row locked or is first in line. *)
LEMMA SelectKeeps ==
  ASSUME BucketAssumptions, BucketInv, NEW c \in Checkers, L!Select(c)
  PROVE  BucketInv'
<1>0. BucketType /\ ClocksPast /\ LocksHeld /\ Ledger /\ ConflictStands /\ L!RefusedOnlyBySweep
      /\ InLine /\ NoRewind
  BY DEF BucketInv
<1>1. /\ UNCHANGED <<lNow, lDialect, lRow, lQueue, lAt, lRetried, lSweep, L!ghosts>>
      /\ lPc[c] = "select"
      /\ lPc' = [lPc EXCEPT ![c] = IF lRow = L!NoRow THEN "insert" ELSE "update"]
      /\ lRead' = [lRead EXCEPT ![c] = lRow]
      /\ lHolder' = IF lDialect = "sqlite" \/ lRow # L!NoRow THEN c ELSE lHolder
  BY DEF L!Select
<1>2. UNCHANGED <<lSpent, lMark, lRewound, lRaced, lRefused, lDeleted>>
  BY <1>1 DEF L!ghosts
<1>3. /\ \A d \in Checkers \ {c} : lPc'[d] = lPc[d] /\ lRead'[d] = lRead[d]
      /\ lPc'[c] = (IF lRow = L!NoRow THEN "insert" ELSE "update") /\ lRead'[c] = lRow
  BY <1>0, <1>1 DEF BucketType
<1>4. BucketType'
  <2>1. /\ lPc' \in [Checkers -> {"idle", "select", "update", "insert"}]
        /\ lRead' \in [Checkers -> BucketRows]
    BY <1>0, <1>1 DEF BucketType
  <2>q. QED
    BY <1>0, <1>1, <1>2, <2>1 DEF BucketType
<1>5. ClocksPast' /\ Ledger'
  BY <1>0, <1>1, <1>2 DEF ClocksPast, Ledger
<1>6. ASSUME NEW d \in Checkers, lPc[d] = "update" PROVE FALSE
  <2>1. lHolder = d /\ lRow # L!NoRow
    BY <1>0, <1>6 DEF LocksHeld
  <2>2. lHolder = NoOne
    BY <2>1 DEF L!Select, L!MaySelect
  <2>q. QED
    BY <2>1, <2>2 DEF BucketAssumptions, L!NoOneAssumption
<1>7. LocksHeld'
  BY <1>0, <1>1, <1>3, <1>6 DEF LocksHeld
<1>8. ConflictStands'
  BY <1>0, <1>1, <1>2, <1>3 DEF ConflictStands
<1>9. L!RefusedOnlyBySweep'
  BY <1>0, <1>2 DEF L!RefusedOnlyBySweep
<1>10. InLine'
  <2>1. CASE lDialect # "sqlite"
    BY <1>1, <2>1 DEF InLine
  <2>2. CASE lDialect = "sqlite"
    <3>1. lQueue[1] = c
      BY <2>2 DEF L!Select, L!MaySelect
    <3>2. ASSUME NEW d \in Checkers, lPc'[d] \in {"update", "insert"} PROVE lQueue[1] = d
      BY <1>0, <1>3, <2>2, <3>1, <3>2 DEF InLine
    <3>3. \A d \in Checkers : lPc'[d] # "idle" <=> lPc[d] # "idle"
      BY <1>1, <1>3
    <3>4. \A i \in 1 .. Len(lQueue) : lQueue[i] \in Checkers
      BY <1>0 DEF BucketType
    <3>q. QED
      BY <1>0, <1>1, <2>2, <3>2, <3>3, <3>4 DEF InLine
  <2>q. QED
    BY <2>1, <2>2
<1>11. NoRewind'
  BY <1>0, <1>1, <1>2 DEF NoRewind
<1>q. QED
  BY <1>4, <1>5, <1>7, <1>8, <1>9, <1>10, <1>11 DEF BucketInv

(* A check leaves without having written: its lock and its place are free. *)
LEMMA LeavesKeeps ==
  ASSUME BucketInv, NEW c \in Checkers, lPc[c] # "idle", lDialect = "sqlite" => lQueue[1] = c,
         L!Leaves(c),
         UNCHANGED <<lNow, lDialect, lRow, lAt, lRetried, lSweep, lSpent, lMark, lRewound, lRaced, lDeleted>>,
         lRefused' = lRefused \/ (lRefused' = lRefused \cup {c} /\ lRaced[c])
  PROVE  BucketInv'
<1>0. BucketType /\ ClocksPast /\ LocksHeld /\ Ledger /\ ConflictStands /\ L!RefusedOnlyBySweep
      /\ InLine /\ NoRewind
  BY DEF BucketInv
<1>1. /\ lPc' = [lPc EXCEPT ![c] = "idle"] /\ lRead' = [lRead EXCEPT ![c] = L!NoRow]
      /\ lHolder' = IF lHolder = c THEN NoOne ELSE lHolder
  BY DEF L!Leaves
<1>2. /\ \A d \in Checkers \ {c} : lPc'[d] = lPc[d] /\ lRead'[d] = lRead[d]
      /\ lPc'[c] = "idle"
  BY <1>0, <1>1 DEF BucketType
<1>3. /\ InLine' /\ lQueue' \in Seq(Checkers)
      /\ lDialect = "sqlite" =>
           /\ Len(lQueue') = Len(lQueue) - 1
           /\ \A i \in 1 .. Len(lQueue') : i + 1 \in 2 .. Len(lQueue) /\ lQueue'[i] = lQueue[i + 1]
  BY <1>0, LeavesLine
<1>4. BucketType'
  <2>1. /\ lPc' \in [Checkers -> {"idle", "select", "update", "insert"}]
        /\ lRead' \in [Checkers -> BucketRows]
    BY <1>0, <1>1 DEF BucketType, BucketRows
  <2>2. lRefused' \subseteq Checkers
    BY <1>0 DEF BucketType
  <2>q. QED
    BY <1>0, <1>3, <2>1, <2>2 DEF BucketType
<1>5. ClocksPast' /\ Ledger'
  BY <1>0 DEF ClocksPast, Ledger
<1>6. LocksHeld'
  BY <1>0, <1>1, <1>2 DEF LocksHeld
<1>7. ConflictStands'
  BY <1>0, <1>2 DEF ConflictStands
<1>8. L!RefusedOnlyBySweep'
  BY <1>0 DEF L!RefusedOnlyBySweep
<1>9. NoRewind'
  <2> SUFFICES ASSUME lDialect = "sqlite", ~lDeleted
               PROVE  lRewound' = 0 /\ \A i \in 1 .. Len(lQueue') : lMark' <= lAt'[lQueue'[i]]
    BY DEF NoRewind
  <2>1. lRewound = 0 /\ \A i \in 1 .. Len(lQueue) : lMark <= lAt[lQueue[i]]
    BY <1>0 DEF NoRewind
  <2>2. ASSUME NEW i \in 1 .. Len(lQueue') PROVE lMark <= lAt[lQueue'[i]]
    <3>1. i + 1 \in 2 .. Len(lQueue) /\ lQueue'[i] = lQueue[i + 1] /\ Len(lQueue) \in Nat
      BY <1>0, <1>3 DEF BucketType
    <3>2. i + 1 \in 1 .. Len(lQueue)
      BY <3>1
    <3>q. QED
      BY <2>1, <3>1, <3>2
  <2>q. QED
    BY <2>1, <2>2
<1>q. QED
  BY <1>3, <1>4, <1>5, <1>6, <1>7, <1>8, <1>9 DEF BucketInv

(* The insert conflicts: once it is tried again, the second time refused. *)
LEMMA ConflictKeeps ==
  ASSUME BucketAssumptions, BucketInv, NEW c \in Checkers, L!Conflict(c)
  PROVE  BucketInv'
<1>0. BucketType /\ ClocksPast /\ LocksHeld /\ Ledger /\ ConflictStands /\ L!RefusedOnlyBySweep
      /\ InLine /\ NoRewind
  BY DEF BucketInv
<1>1. /\ lPc[c] = "insert" /\ lRow # L!NoRow
      /\ UNCHANGED <<lNow, lDialect, lRow, lAt, lSweep, lSpent, lMark, lRewound, lRaced, lDeleted>>
  BY DEF L!Conflict
<1>2. CASE /\ lRetried' = [lRetried EXCEPT ![c] = TRUE]
           /\ lPc' = [lPc EXCEPT ![c] = L!RetryAt(c)]
           /\ lHolder' = IF lHolder = c THEN NoOne ELSE lHolder
           /\ UNCHANGED <<lQueue, lRead, lRefused>>
  <2>1. /\ \A d \in Checkers \ {c} : lPc'[d] = lPc[d] /\ lRetried'[d] = lRetried[d]
        /\ lPc'[c] = "select" /\ lRetried'[c]
    BY <1>0, <1>2 DEF BucketType, L!RetryAt
  <2>2. BucketType'
    <3>1. lRetried' \in [Checkers -> BOOLEAN]
      BY <1>0, <1>2, Zenon DEF BucketType
    <3>2. lPc' \in [Checkers -> {"idle", "select", "update", "insert"}]
      BY <1>0, <1>2 DEF BucketType, L!RetryAt
    <3>q. QED
      BY <1>0, <1>1, <1>2, <3>1, <3>2 DEF BucketType
  <2>3. ClocksPast' /\ Ledger'
    BY <1>0, <1>1 DEF ClocksPast, Ledger
  <2>4. LocksHeld'
    BY <1>0, <1>1, <1>2, <2>1 DEF LocksHeld
  <2>5. ConflictStands'
    BY <1>0, <1>1, <2>1 DEF ConflictStands
  <2>6. L!RefusedOnlyBySweep'
    BY <1>0, <1>1, <1>2 DEF L!RefusedOnlyBySweep
  <2>7. InLine'
    <3>1. \A d \in Checkers : lPc'[d] # "idle" <=> lPc[d] # "idle"
      BY <1>1, <2>1
    <3>2. \A i \in 1 .. Len(lQueue) : lQueue[i] \in Checkers
      BY <1>0 DEF BucketType
    <3>3. \A d \in Checkers : lPc'[d] \in {"update", "insert"} => lPc[d] \in {"update", "insert"}
      BY <2>1
    <3>q. QED
      BY <1>0, <1>1, <1>2, <3>1, <3>2, <3>3 DEF InLine
  <2>8. NoRewind'
    BY <1>0, <1>1, <1>2 DEF NoRewind
  <2>q. QED
    BY <2>2, <2>3, <2>4, <2>5, <2>6, <2>7, <2>8 DEF BucketInv
<1>3. CASE lRetried[c] /\ lRefused' = lRefused \cup {c} /\ L!Leaves(c) /\ UNCHANGED lRetried
  <2>1. lRaced[c]
    BY <1>0, <1>1, <1>3 DEF ConflictStands
  <2>2. lDialect = "sqlite" => lQueue[1] = c
    BY <1>0, <1>1 DEF InLine
  <2>q. QED
    BY <1>1, <1>3, <2>1, <2>2, LeavesKeeps
<1>q. QED
  BY <1>2, <1>3 DEF L!Conflict

(* A sweep takes only a row that had the time to be full again. *)
LEMMA SweepKeeps ==
  ASSUME BucketAssumptions, BucketInv, L!SweepLands
  PROVE  BucketInv'
<1>0. BucketType /\ ClocksPast /\ LocksHeld /\ Ledger /\ ConflictStands /\ L!RefusedOnlyBySweep
      /\ InLine /\ NoRewind
  BY DEF BucketInv
<1>1. /\ lSweep # L!Never /\ lHolder = NoOne /\ lSweep' = L!Never
      /\ UNCHANGED <<lNow, lDialect, lHolder, lQueue, lPc, lAt, lRead, lRetried, lSpent, lRewound, lRefused>>
  BY DEF L!SweepLands
<1>2. InLine'
  BY <1>0, <1>1 DEF InLine
<1>3. ASSUME NEW d \in Checkers PROVE lPc[d] # "update"
  BY <1>0, <1>1 DEF LocksHeld, BucketAssumptions, L!NoOneAssumption
<1>4. LocksHeld'
  BY <1>0, <1>1, <1>3 DEF LocksHeld
<1>5. CASE L!Swept(lRow, lSweep)
  <2>1. /\ lRow # L!NoRow /\ lRow.at < lSweep - Retention
        /\ lRow' = L!NoRow /\ lMark' = lSweep /\ lDeleted' = TRUE
        /\ lRaced' = [d \in Checkers |-> lRaced[d] \/ lRetried[d]]
    BY <1>5 DEF L!SweepLands, L!Swept
  <2>2. lSweep \in Nat /\ lRow.at \in Nat /\ lRow.tokens \in Nat
    BY <1>0, <1>1, <2>1 DEF BucketType, BucketRows
  <2>3. BucketType'
    <3>1. lRaced' \in [Checkers -> BOOLEAN] /\ lDeleted' \in BOOLEAN
      BY <2>1, Zenon
    <3>2. lRow' \in BucketRows /\ lSweep' \in Nat \cup {L!Never}
      BY <1>1, <2>1 DEF BucketRows
    <3>q. QED
      BY <1>0, <1>1, <2>1, <2>2, <3>1, <3>2 DEF BucketType
  <2>4. ClocksPast'
    BY <1>0, <1>1, <2>1 DEF ClocksPast, L!Never, BucketType
  <2>5. Ledger'
    <3>1. lRow.at = lMark /\ lSpent + lRow.tokens <= Capacity + lMark + lRewound
      BY <1>0, <2>1 DEF Ledger
    <3>2. /\ lSpent \in Nat /\ lMark \in Nat /\ lRewound \in Nat /\ Capacity \in Nat
          /\ Retention \in Nat /\ Retention >= Capacity
      BY <1>0 DEF BucketType, BucketAssumptions, L!BucketAssumption, L!RetentionAssumption
    <3>3. lSpent <= lSweep + lRewound
      BY <2>1, <2>2, <3>1, <3>2
    <3>q. QED
      BY <1>1, <2>1, <3>3 DEF Ledger
  <2>6. ConflictStands'
    BY <1>0, <1>1, <2>1 DEF ConflictStands
  <2>7. L!RefusedOnlyBySweep'
    BY <1>0, <1>1, <2>1 DEF L!RefusedOnlyBySweep, BucketType
  <2>8. NoRewind'
    BY <2>1 DEF NoRewind
  <2>q. QED
    BY <1>2, <1>4, <2>3, <2>4, <2>5, <2>6, <2>7, <2>8 DEF BucketInv
<1>6. CASE ~L!Swept(lRow, lSweep)
  <2>1. UNCHANGED <<lRow, lMark, lDeleted, lRaced>>
    BY <1>6 DEF L!SweepLands
  <2>2. BucketType'
    BY <1>0, <1>1, <2>1 DEF BucketType
  <2>3. ClocksPast'
    BY <1>0, <1>1, <2>1 DEF ClocksPast, L!Never, BucketType
  <2>4. Ledger' /\ ConflictStands'
    BY <1>0, <1>1, <2>1 DEF Ledger, ConflictStands
  <2>5. L!RefusedOnlyBySweep' /\ NoRewind'
    BY <1>0, <1>1, <2>1 DEF L!RefusedOnlyBySweep, NoRewind
  <2>q. QED
    BY <1>2, <1>4, <2>2, <2>3, <2>4, <2>5 DEF BucketInv
<1>q. QED
  BY <1>5, <1>6

(* A statement rejects: the check ends without a decision. *)
LEMMA FailsKeeps ==
  ASSUME BucketInv, NEW c \in Checkers, L!Fails(c)
  PROVE  BucketInv'
<1>1. /\ lPc[c] \in {"select", "update", "insert"} /\ L!Leaves(c)
      /\ UNCHANGED <<lNow, lDialect, lRow, lAt, lRetried, lSweep, L!ghosts>>
  BY DEF L!Fails
<1>2. lDialect = "sqlite" => lQueue[1] = c
  BY DEF L!Fails
<1>3. UNCHANGED <<lNow, lDialect, lRow, lAt, lRetried, lSweep, lSpent, lMark, lRewound, lRaced, lDeleted>>
  BY <1>1 DEF L!ghosts
<1>4. lRefused' = lRefused \/ (lRefused' = lRefused \cup {c} /\ lRaced[c])
  BY <1>1 DEF L!ghosts
<1>5. lPc[c] # "idle"
  BY <1>1
<1>q. QED
  BY <1>1, <1>2, <1>3, <1>4, <1>5, LeavesKeeps

(* Every step of the limiter and its store keeps the invariant. *)
LEMMA BucketStep ==
  ASSUME BucketAssumptions, BucketInv, [L!Next]_(L!vars)
  PROVE  BucketInv'
<1>0. BucketType /\ ClocksPast /\ LocksHeld /\ Ledger /\ ConflictStands /\ L!RefusedOnlyBySweep
      /\ InLine /\ NoRewind
  BY DEF BucketInv
<1>1. ASSUME NEW c \in Checkers, L!Fails(c) PROVE BucketInv'
  BY <1>1, FailsKeeps
<1>2. ASSUME L!SweepFires \/ L!SweepFails \/ L!Advance \/ UNCHANGED L!vars PROVE BucketInv'
  <2>1. /\ UNCHANGED <<lDialect, lRow, lHolder, lQueue, lPc, lAt, lRead, lRetried, L!ghosts>>
        /\ lNow' \in Nat /\ lNow' >= lNow
        /\ lSweep' \in {lSweep, lNow, L!Never}
    BY <1>0, <1>2 DEF L!SweepFires, L!SweepFails, L!Advance, L!vars, BucketType
  <2>2. UNCHANGED <<lSpent, lMark, lRewound, lRaced, lRefused, lDeleted>>
    BY <2>1 DEF L!ghosts
  <2>3. BucketType'
    BY <1>0, <2>1, <2>2 DEF BucketType
  <2>4. ClocksPast'
    BY <1>0, <2>1, <2>2 DEF ClocksPast, L!Never, BucketType
  <2>5. LocksHeld' /\ Ledger' /\ ConflictStands'
    BY <1>0, <2>1, <2>2 DEF LocksHeld, Ledger, ConflictStands
  <2>6. L!RefusedOnlyBySweep' /\ InLine' /\ NoRewind'
    BY <1>0, <2>1, <2>2 DEF L!RefusedOnlyBySweep, InLine, NoRewind
  <2>q. QED
    BY <2>3, <2>4, <2>5, <2>6 DEF BucketInv
<1>q. QED
  BY <1>1, <1>2, CheckKeeps, SelectKeeps, StampStep, ConflictKeeps, SweepKeeps
  DEF L!Next, L!CheckStep

(* The invariant gives the property the runs check. *)
LEMMA BucketImplied == ASSUME BucketAssumptions, BucketInv PROVE L!BucketSound
<1>1. L!BudgetKept
  <2>1. /\ lSpent \in Nat /\ lMark \in Nat /\ lRewound \in Nat /\ lNow \in Nat /\ Capacity \in Nat
        /\ lMark <= lNow
    BY DEF BucketInv, BucketType, ClocksPast, BucketAssumptions, L!BucketAssumption
  <2>2. lSpent <= Capacity + lMark + lRewound
    <3>1. CASE lRow = L!NoRow
      BY <2>1, <3>1 DEF BucketInv, Ledger
    <3>2. CASE lRow # L!NoRow
      <4>1. lRow.tokens \in Nat /\ lSpent + lRow.tokens <= Capacity + lMark + lRewound
        BY <3>2 DEF BucketInv, Ledger, BucketType, BucketRows
      <4>q. QED
        BY <2>1, <4>1
    <3>q. QED
      BY <3>1, <3>2
  <2>q. QED
    BY <2>1, <2>2 DEF L!BudgetKept
<1>2. L!ClockOrderOnSqlite /\ L!RefusedOnlyBySweep
  BY DEF BucketInv, NoRewind, L!ClockOrderOnSqlite
<1>q. QED
  BY <1>1, <1>2 DEF L!BucketSound

(* The fleet never spends more than the capacity, the refill since the start  *)
(* and the time a stale clock credited again; on SQLite that happens only     *)
(* after a sweep; a check is refused only when a sweep came between its two   *)
(* attempts (limiter.ts, check; sql-store.ts, update).                        *)
THEOREM BucketIsSound == L!Spec => []BucketSound
<1>1. L!Init => BucketInv
  BY BucketInit, BucketConstants DEF BucketAssumptions
<1>2. BucketInv /\ [L!Next]_(L!vars) => BucketInv'
  BY BucketStep, BucketConstants DEF BucketAssumptions
<1>3. BucketInv => BucketSound
  BY BucketImplied, BucketConstants DEF BucketAssumptions, BucketSound
<1>q. QED
  BY <1>1, <1>2, <1>3, PTL DEF L!Spec

-----------------------------------------------------------------------------
(* The migrator *)

CallType ==
  [pc : {"idle", "lock", "read", "apply", "down", "done", "failed"}, todo : SUBSET G!Versions]

BootType ==
  /\ gLedger \subseteq G!Versions
  /\ gCall \in [Callers -> CallType]
  /\ gStaged \in [Callers -> SUBSET G!Versions]
  /\ gCrossed \in BOOLEAN

(* Postgres: who reads and applies has the lock; what it found pending is     *)
(* pending still.  SQLite: nothing is staged.                                 *)
LockedWhile ==
  /\ gDialect = "postgres" => \A c \in Callers :
       /\ gCall[c].pc \in {"read", "apply"} => gLock = c
       /\ gCall[c].pc = "apply" => gCall[c].todo \cap gLedger = {}
  /\ gDialect # "postgres" => \A c \in Callers : gStaged[c] = {}
  /\ \A c \in Callers : gCall[c].pc # "apply" => gStaged[c] = {}

(* What a migrate() has not yet to do is done, unless a rollback crossed it. *)
NoneSkipped ==
  ~gCrossed => \A c \in Callers :
    gCall[c].pc = "apply" => G!Versions \subseteq gLedger \cup gStaged[c] \cup gCall[c].todo

BootInv == BootType /\ LockedWhile /\ NoneSkipped /\ G!PrefixApplied /\ G!NoBootFailsAnother

(* A set of numbers that is not empty has a least, and a bounded one a largest. *)
LEMMA LeastOf ==
  ASSUME NEW T \in SUBSET Nat, T # {}
  PROVE  G!Min(T) \in T /\ \A y \in T : G!Min(T) <= y
<1>1. PICK x \in T : \A y \in T : ~(<<y, x>> \in OpToRel(<, Nat))
  BY NatLessThanWellFounded, WFMin
<1>2. \A y \in T : ~(y < x)
  BY <1>1 DEF OpToRel
<1>3. \A y \in T : x <= y
  BY <1>2
<1>q. QED
  BY <1>3 DEF G!Min

(* The same for the largest of them. *)
LEMMA LargestOf ==
  ASSUME NEW n \in Nat, NEW T \in SUBSET (1 .. n), T # {}
  PROVE  G!Max(T) \in T /\ \A y \in T : y <= G!Max(T)
<1> DEFINE U == {m \in Nat : n - m \in T}
<1>1. U \in SUBSET Nat
  OBVIOUS
<1>2. \A y \in T : n - y \in U
  <2> TAKE y \in T
  <2>1. y \in 1 .. n /\ n - y \in Nat /\ n - (n - y) = y
    OBVIOUS
  <2>q. QED
    BY <2>1
<1>3. U # {}
  BY <1>2
<1>4. G!Min(U) \in U /\ \A y \in U : G!Min(U) <= y
  BY <1>1, <1>3, LeastOf
<1> HIDE DEF U
<1>5. n - G!Min(U) \in T /\ G!Min(U) \in Nat
  BY <1>4 DEF U
<1>6. \A y \in T : y <= n - G!Min(U)
  <2> TAKE y \in T
  <2>1. G!Min(U) <= n - y
    BY <1>2, <1>4
  <2>2. y \in Nat
    OBVIOUS
  <2>q. QED
    BY <1>5, <2>1, <2>2
<1>7. \E x \in T : \A y \in T : x >= y
  <2>1. \A y \in T : n - G!Min(U) >= y
    BY <1>5, <1>6
  <2>q. QED
    BY <1>5, <2>1
<1>8. G!Max(T) \in T /\ \A y \in T : G!Max(T) >= y
  BY <1>7 DEF G!Max
<1>q. QED
  BY <1>8

(* Before the first call no version is applied. *)
LEMMA BootInit == G!Init => BootInv
<1> SUFFICES ASSUME G!Init PROVE BootInv
  OBVIOUS
<1>1. gCrossed \in BOOLEAN
  BY DEF G!Init
<1>2. BootType
  BY <1>1 DEF G!Init, BootType, CallType, G!Idle
<1>3. LockedWhile /\ NoneSkipped
  BY DEF G!Init, LockedWhile, NoneSkipped, G!Idle
<1>4. G!PrefixApplied /\ G!NoBootFailsAnother
  BY DEF G!Init, G!PrefixApplied, G!NoBootFailsAnother, G!Idle
<1>q. QED
  BY <1>2, <1>3, <1>4 DEF BootInv

(* A call goes to another place: the others stay where they are. *)
LEMMA GoesElsewhere ==
  ASSUME BootType, NEW c \in Callers,
         NEW goal \in {"idle", "lock", "read", "apply", "down", "done", "failed"},
         NEW todo \in SUBSET G!Versions, G!Goes(c, goal, todo)
  PROVE  /\ gCall' \in [Callers -> CallType]
         /\ gCall'[c].pc = goal /\ gCall'[c].todo = todo
         /\ \A d \in Callers \ {c} : gCall'[d] = gCall[d]
BY DEF BootType, CallType, G!Goes

(* A call that begins, or gets the lock. *)
LEMMA BeginsKeeps ==
  ASSUME G!MigratorAssumption, BootInv, NEW c \in Callers,
         G!Migrate(c) \/ G!Lock(c) \/ G!RollbackReads(c)
  PROVE  BootInv'
<1>0. BootType /\ LockedWhile /\ NoneSkipped /\ G!PrefixApplied /\ G!NoBootFailsAnother
  BY DEF BootInv
<1>1. UNCHANGED <<gDialect, gLedger, gStaged, gCrossed>>
  BY DEF G!Migrate, G!Lock, G!RollbackReads
<1>2. PICK goal \in {"lock", "read", "down"}, todo \in SUBSET G!Versions : G!Goes(c, goal, todo)
  <2>1. CASE G!RollbackReads(c)
    <3>1. gLedger \in SUBSET (1 .. NumVersions) /\ gLedger # {} /\ NumVersions \in Nat
      BY <1>0, <2>1 DEF G!RollbackReads, BootType, G!Versions, G!MigratorAssumption
    <3>2. G!Max(gLedger) \in G!Versions
      BY <3>1, LargestOf DEF G!Versions
    <3>q. QED
      BY <2>1, <3>2 DEF G!RollbackReads
  <2>2. CASE G!Migrate(c) \/ G!Lock(c)
    BY <2>2 DEF G!Migrate, G!Lock
  <2>q. QED
    BY <2>1, <2>2
<1>3. /\ gCall' \in [Callers -> CallType]
      /\ gCall'[c].pc = goal /\ gCall'[c].todo = todo
      /\ \A d \in Callers \ {c} : gCall'[d] = gCall[d]
  BY <1>0, <1>2, GoesElsewhere
<1>4. BootType'
  BY <1>0, <1>1, <1>3 DEF BootType
<1>5. /\ gCall[c].pc \notin {"apply", "read"}
      /\ \A d \in Callers \ {c} : gDialect = "postgres" /\ gLock = d => gLock' = d
      /\ gDialect = "postgres" /\ goal = "read" => gLock' = c
  <2>1. CASE G!Migrate(c)
    BY <1>3, <2>1 DEF G!Migrate, G!Goes
  <2>2. CASE G!Lock(c)
    BY <2>2 DEF G!Lock, G!At, G!Waits, G!MigratorAssumption
  <2>3. CASE G!RollbackReads(c)
    BY <1>3, <2>3 DEF G!RollbackReads, G!Goes
  <2>q. QED
    BY <2>1, <2>2, <2>3
<1>6. LockedWhile'
  BY <1>0, <1>1, <1>3, <1>5 DEF LockedWhile
<1>7. NoneSkipped'
  BY <1>0, <1>1, <1>3 DEF NoneSkipped
<1>8. G!PrefixApplied'
  BY <1>0, <1>1 DEF G!PrefixApplied
<1>9. G!NoBootFailsAnother'
  <2>1. gThrown \ {c} \subseteq gThrown'
    BY DEF G!Migrate, G!Lock, G!RollbackReads
  <2>q. QED
    BY <1>0, <1>1, <1>3, <2>1 DEF G!NoBootFailsAnother
<1>q. QED
  BY <1>4, <1>6, <1>7, <1>8, <1>9 DEF BootInv

(* The ledger is read: what it lacks is to be applied. *)
LEMMA ReadKeeps == ASSUME BootInv, NEW c \in Callers, G!Read(c) PROVE BootInv'
<1>0. BootType /\ LockedWhile /\ NoneSkipped /\ G!PrefixApplied /\ G!NoBootFailsAnother
  BY DEF BootInv
<1>1. /\ UNCHANGED <<gDialect, gLedger, gLock, gStaged, gThrown, gCrossed>>
      /\ gCall[c].pc = "read" /\ G!Goes(c, "apply", G!Versions \ gLedger)
  BY DEF G!Read, G!At
<1>2. /\ gCall' \in [Callers -> CallType]
      /\ gCall'[c].pc = "apply" /\ gCall'[c].todo = G!Versions \ gLedger
      /\ \A d \in Callers \ {c} : gCall'[d] = gCall[d]
  BY <1>0, <1>1, GoesElsewhere
<1>3. BootType'
  BY <1>0, <1>1, <1>2 DEF BootType
<1>4. LockedWhile'
  BY <1>0, <1>1, <1>2 DEF LockedWhile
<1>5. NoneSkipped'
  BY <1>0, <1>1, <1>2 DEF NoneSkipped
<1>6. G!PrefixApplied' /\ G!NoBootFailsAnother'
  BY <1>0, <1>1, <1>2 DEF G!PrefixApplied, G!NoBootFailsAnother
<1>q. QED
  BY <1>3, <1>4, <1>5, <1>6 DEF BootInv

(* The version that is applied is the least of those that are not: the ones   *)
(* before it are there.                                                       *)
LEMMA ApplyKeeps ==
  ASSUME G!MigratorAssumption, BootInv, NEW c \in Callers, G!Apply(c)
  PROVE  BootInv'
<1>0. BootType /\ LockedWhile /\ NoneSkipped /\ G!PrefixApplied /\ G!NoBootFailsAnother
  BY DEF BootInv
<1> DEFINE v == G!InOrder(gCall[c].todo)
<1>1. /\ UNCHANGED <<gDialect, gLock, gThrown, gCrossed>>
      /\ gCall[c].pc = "apply" /\ gCall[c].todo # {} /\ v \notin gLedger
      /\ G!Goes(c, "apply", gCall[c].todo \ {v})
      /\ IF gDialect = "postgres"
         THEN gStaged' = [gStaged EXCEPT ![c] = @ \cup {v}] /\ gLedger' = gLedger
         ELSE gLedger' = gLedger \cup {v} /\ gStaged' = gStaged
  BY DEF G!Apply, G!At
<1>2. gCall[c].todo \in SUBSET G!Versions /\ G!Versions \in SUBSET Nat
  BY <1>0 DEF BootType, CallType, G!Versions, G!MigratorAssumption
<1>3. v \in gCall[c].todo /\ \A w \in gCall[c].todo : v <= w
  BY <1>1, <1>2, LeastOf DEF G!InOrder
<1> HIDE DEF v
<1>4. /\ gCall' \in [Callers -> CallType]
      /\ gCall'[c].pc = "apply" /\ gCall'[c].todo = gCall[c].todo \ {v}
      /\ \A d \in Callers \ {c} : gCall'[d] = gCall[d]
  BY <1>0, <1>1, <1>2, GoesElsewhere
<1>5. /\ gStaged' \in [Callers -> SUBSET G!Versions] /\ gLedger' \subseteq G!Versions
      /\ \A d \in Callers \ {c} : gStaged'[d] = gStaged[d]
      /\ gLedger \subseteq gLedger'
      /\ gLedger' \cup gStaged'[c] = gLedger \cup gStaged[c] \cup {v}
  <2>1. v \in G!Versions /\ gStaged \in [Callers -> SUBSET G!Versions] /\ gLedger \subseteq G!Versions
    BY <1>0, <1>2, <1>3 DEF BootType
  <2>2. CASE gDialect = "postgres"
    <3>1. gStaged' = [gStaged EXCEPT ![c] = gStaged[c] \cup {v}] /\ gLedger' = gLedger
      BY <1>1, <2>2
    <3>2. gStaged[c] \cup {v} \in SUBSET G!Versions
      BY <2>1
    <3>3. gStaged'[c] = gStaged[c] \cup {v} /\ gStaged' \in [Callers -> SUBSET G!Versions]
      BY <2>1, <3>1, <3>2
    <3>q. QED
      BY <2>1, <3>1, <3>3
  <2>3. CASE gDialect # "postgres"
    BY <1>1, <2>1, <2>3
  <2>q. QED
    BY <2>2, <2>3
<1>6. BootType'
  BY <1>0, <1>1, <1>4, <1>5 DEF BootType
<1>7. LockedWhile'
  BY <1>0, <1>1, <1>4, <1>5 DEF LockedWhile
<1>8. NoneSkipped'
  <2> SUFFICES ASSUME ~gCrossed, NEW d \in Callers, gCall'[d].pc = "apply"
               PROVE  G!Versions \subseteq gLedger' \cup gStaged'[d] \cup gCall'[d].todo
    <3>1. gCrossed' = gCrossed
      BY <1>1
    <3>q. QED
      BY <3>1 DEF NoneSkipped
  <2>1. CASE d = c
    BY <1>0, <1>1, <1>4, <1>5, <2>1 DEF NoneSkipped
  <2>2. CASE d # c
    BY <1>0, <1>4, <1>5, <2>2 DEF NoneSkipped
  <2>q. QED
    BY <2>1, <2>2
<1>9. G!PrefixApplied'
  <2>1. CASE gDialect = "postgres"
    BY <1>0, <1>1, <2>1 DEF G!PrefixApplied
  <2>2. CASE gDialect # "postgres"
    <3> SUFFICES ASSUME ~gCrossed, NEW w \in gLedger' PROVE 1 .. w \subseteq gLedger'
      <4>1. gCrossed' = gCrossed
        BY <1>1
      <4>q. QED
        BY <4>1 DEF G!PrefixApplied
    <3>1. CASE w \in gLedger
      BY <1>0, <1>5, <3>1 DEF G!PrefixApplied
    <3>2. CASE w = v
      <4>1. gStaged[c] = {} /\ G!Versions \subseteq gLedger \cup gCall[c].todo
        BY <1>0, <1>1, <2>2 DEF LockedWhile, NoneSkipped
      <4>2. v \in Nat /\ 1 .. v \subseteq G!Versions
        BY <1>2, <1>3 DEF G!Versions, G!MigratorAssumption
      <4>3. ASSUME NEW u \in 1 .. v, u # v PROVE u \in gLedger
        <5>1. u < v /\ u \in G!Versions
          BY <4>2, <4>3
        <5>2. u \notin gCall[c].todo
          BY <1>3, <4>2, <5>1
        <5>q. QED
          BY <4>1, <5>1, <5>2
      <4>q. QED
        BY <1>1, <2>2, <3>2, <4>3
    <3>q. QED
      BY <1>1, <2>2, <3>1, <3>2
  <2>q. QED
    BY <2>1, <2>2
<1>10. G!NoBootFailsAnother'
  BY <1>0, <1>1, <1>4 DEF G!NoBootFailsAnother
<1>q. QED
  BY <1>6, <1>7, <1>8, <1>9, <1>10 DEF BootInv

(* A call rejects: for an error of its own, or on SQLite. *)
LEMMA RejectsKeeps ==
  ASSUME G!MigratorAssumption, BootInv, NEW c \in Callers, G!Conflicts(c) \/ G!Throws(c)
  PROVE  BootInv'
<1>0. BootType /\ LockedWhile /\ NoneSkipped /\ G!PrefixApplied /\ G!NoBootFailsAnother
  BY DEF BootInv
<1>1. /\ G!Goes(c, "failed", {}) /\ gStaged' = [gStaged EXCEPT ![c] = {}]
      /\ gLock' = IF gLock = c THEN NoOne ELSE gLock
      /\ UNCHANGED <<gDialect, gLedger, gCrossed>>
      /\ gThrown \subseteq gThrown'
  BY DEF G!Conflicts, G!Throws, G!Rejects, G!Frees
<1>2. /\ gCall' \in [Callers -> CallType]
      /\ gCall'[c].pc = "failed"
      /\ \A d \in Callers \ {c} : gCall'[d] = gCall[d]
  BY <1>0, <1>1, GoesElsewhere
<1>3. /\ gStaged' \in [Callers -> SUBSET G!Versions] /\ gStaged'[c] = {}
      /\ \A d \in Callers \ {c} : gStaged'[d] = gStaged[d]
  BY <1>0, <1>1 DEF BootType
<1>4. BootType'
  BY <1>0, <1>1, <1>2, <1>3 DEF BootType
<1>5. LockedWhile'
  BY <1>0, <1>1, <1>2, <1>3 DEF LockedWhile
<1>6. NoneSkipped'
  BY <1>0, <1>1, <1>2, <1>3 DEF NoneSkipped
<1>7. G!PrefixApplied'
  BY <1>0, <1>1 DEF G!PrefixApplied
<1>8. gDialect = "postgres" => c \in gThrown'
  <2>1. CASE G!Throws(c)
    BY <2>1 DEF G!Throws
  <2>2. CASE G!Conflicts(c)
    <3>1. /\ gCall[c].pc = "apply" /\ gCall[c].todo # {} /\ G!InOrder(gCall[c].todo) \in gLedger
      BY <2>2 DEF G!Conflicts, G!At
    <3>2. gCall[c].todo \in SUBSET Nat
      BY <1>0 DEF BootType, CallType, G!Versions, G!MigratorAssumption
    <3>3. G!InOrder(gCall[c].todo) \in gCall[c].todo
      BY <3>1, <3>2, LeastOf DEF G!InOrder
    <3>q. QED
      BY <1>0, <3>1, <3>3 DEF LockedWhile
  <2>q. QED
    BY <2>1, <2>2
<1>9. G!NoBootFailsAnother'
  BY <1>0, <1>1, <1>2, <1>8 DEF G!NoBootFailsAnother
<1>q. QED
  BY <1>4, <1>5, <1>6, <1>7, <1>9 DEF BootInv

(* A call commits: it left nothing out. *)
LEMMA ReturnsKeeps ==
  ASSUME G!MigratorAssumption, BootInv, NEW c \in Callers, G!Returns(c)
  PROVE  BootInv'
<1>0. BootType /\ LockedWhile /\ NoneSkipped /\ G!PrefixApplied /\ G!NoBootFailsAnother
  BY DEF BootInv
<1>1. /\ gCall[c].pc = "apply" /\ gCall[c].todo = {}
      /\ G!Goes(c, "done", {}) /\ gStaged' = [gStaged EXCEPT ![c] = {}]
      /\ gLedger' = gLedger \cup gStaged[c]
      /\ gLock' = IF gLock = c THEN NoOne ELSE gLock
      /\ UNCHANGED <<gDialect, gThrown, gCrossed>>
  BY DEF G!Returns, G!At, G!Frees
<1>2. /\ gCall' \in [Callers -> CallType]
      /\ gCall'[c].pc = "done"
      /\ \A d \in Callers \ {c} : gCall'[d] = gCall[d]
  BY <1>0, <1>1, GoesElsewhere
<1>3. /\ gStaged' \in [Callers -> SUBSET G!Versions] /\ gStaged'[c] = {}
      /\ \A d \in Callers \ {c} : gStaged'[d] = gStaged[d]
      /\ gLedger' \subseteq G!Versions /\ gLedger \subseteq gLedger'
  BY <1>0, <1>1 DEF BootType
<1>4. BootType'
  BY <1>0, <1>1, <1>2, <1>3 DEF BootType
<1>5. LockedWhile'
  BY <1>0, <1>1, <1>2, <1>3 DEF LockedWhile
<1>6. NoneSkipped'
  BY <1>0, <1>1, <1>2, <1>3 DEF NoneSkipped
<1>7. G!PrefixApplied'
  <2> SUFFICES ASSUME ~gCrossed, NEW w \in gLedger' PROVE 1 .. w \subseteq gLedger'
    <3>1. gCrossed' = gCrossed
      BY <1>1
    <3>q. QED
      BY <3>1 DEF G!PrefixApplied
  <2>1. G!Versions \subseteq gLedger'
    BY <1>0, <1>1 DEF NoneSkipped
  <2>2. 1 .. w \subseteq G!Versions
    BY <1>3 DEF G!Versions, G!MigratorAssumption
  <2>q. QED
    BY <2>1, <2>2
<1>8. G!NoBootFailsAnother'
  BY <1>0, <1>1, <1>2 DEF G!NoBootFailsAnother
<1>q. QED
  BY <1>4, <1>5, <1>6, <1>7, <1>8 DEF BootInv

(* A rollback that nothing crossed takes the last version of the prefix. *)
LEMMA DownKeeps ==
  ASSUME G!MigratorAssumption, BootInv, NEW c \in Callers, G!Down(c)
  PROVE  BootInv'
<1>0. BootType /\ LockedWhile /\ NoneSkipped /\ G!PrefixApplied /\ G!NoBootFailsAnother
  BY DEF BootInv
<1>1. /\ gCall[c].pc = "down" /\ G!Goes(c, "done", {}) /\ gLedger' = gLedger \ gCall[c].todo
      /\ UNCHANGED <<gDialect, gLock, gStaged, gThrown>>
      /\ gCrossed' = (gCrossed \/ gLedger = {} \/ gCall[c].todo # {G!Max(gLedger)}
                     \/ \E d \in Callers \ {c} : gCall[d].pc = "apply")
  BY DEF G!Down, G!At
<1>2. /\ gCall' \in [Callers -> CallType]
      /\ gCall'[c].pc = "done"
      /\ \A d \in Callers \ {c} : gCall'[d] = gCall[d]
  BY <1>0, <1>1, GoesElsewhere
<1>3. BootType'
  <2>1. gCrossed' \in BOOLEAN
    BY <1>1
  <2>q. QED
    BY <1>0, <1>1, <1>2, <2>1 DEF BootType
<1>4. LockedWhile'
  BY <1>0, <1>1, <1>2 DEF LockedWhile
<1>5. NoneSkipped'
  BY <1>0, <1>1, <1>2 DEF NoneSkipped
<1>6. G!PrefixApplied'
  <2> SUFFICES ASSUME ~gCrossed', NEW w \in gLedger' PROVE 1 .. w \subseteq gLedger'
    BY DEF G!PrefixApplied
  <2>1. ~gCrossed /\ gLedger # {} /\ gCall[c].todo = {G!Max(gLedger)} /\ w \in gLedger /\ w # G!Max(gLedger)
    BY <1>1
  <2>2. gLedger \in SUBSET (1 .. NumVersions) /\ NumVersions \in Nat
    BY <1>0 DEF BootType, G!Versions, G!MigratorAssumption
  <2>3. G!Max(gLedger) \in gLedger /\ \A y \in gLedger : y <= G!Max(gLedger)
    BY <2>1, <2>2, LargestOf
  <2>4. 1 .. w \subseteq gLedger
    BY <1>0, <2>1 DEF G!PrefixApplied
  <2>5. G!Max(gLedger) \notin 1 .. w
    <3>1. G!Max(gLedger) \in 1 .. NumVersions /\ w \in 1 .. NumVersions /\ w <= G!Max(gLedger)
      BY <2>1, <2>2, <2>3
    <3>q. QED
      BY <2>1, <3>1
  <2>q. QED
    BY <1>1, <2>1, <2>4, <2>5
<1>7. G!NoBootFailsAnother'
  BY <1>0, <1>1, <1>2 DEF G!NoBootFailsAnother
<1>q. QED
  BY <1>3, <1>4, <1>5, <1>6, <1>7 DEF BootInv

(* Every step of migrate() and rollback() keeps the invariant. *)
LEMMA BootStep == ASSUME G!MigratorAssumption, BootInv, [G!Next]_(G!vars) PROVE BootInv'
<1>1. CASE UNCHANGED G!vars
  BY <1>1 DEF G!vars, BootInv, BootType, LockedWhile, NoneSkipped, G!PrefixApplied,
     G!NoBootFailsAnother
<1>q. QED
  BY <1>1, BeginsKeeps, ReadKeeps, ApplyKeeps, RejectsKeeps, ReturnsKeeps, DownKeeps
  DEF G!Next, G!CallStep

(* The ledger is a prefix of the versions unless a rollback acted on a stale  *)
(* read, and instances that boot at once on Postgres do not fail each other   *)
(* (migrator.ts, migrate and withMigrationLock).                              *)
THEOREM BootsDoAgree == G!Spec => []BootsAgree
<1>1. G!Init => BootInv
  BY BootInit, MigratorConstants
<1>2. BootInv /\ [G!Next]_(G!vars) => BootInv'
  BY BootStep, MigratorConstants
<1>3. BootInv => BootsAgree
  BY DEF BootInv, G!BootsAgree, BootsAgree
<1>q. QED
  BY <1>1, <1>2, <1>3, PTL DEF G!Spec

-----------------------------------------------------------------------------
(* The mailing lists *)

FoundType == [op : {"", "confirm", "unsubscribe"}, email : Emails \cup {NoEmail}]

RowType ==
  [status : {"none", "pending", "subscribed", "unsubscribed"}, confirm : Int, unsub : Int]

SubType ==
  /\ mSub \in [Emails -> RowType]
  /\ mMinted \in Int
  /\ mFound \in [Requests -> FoundType]
  /\ \A q \in Requests : mFound[q].op # "" => mFound[q].email \in Emails
  /\ mOptedOut \in SUBSET Emails /\ mOvertaken \in SUBSET Emails

(* No confirm is on its way for an address that opted out, unless the         *)
(* unsubscribe overtook one.                                                  *)
NoneUnderWay ==
  \A e \in mOptedOut \ mOvertaken :
    /\ mSub[e].status = "unsubscribed"
    /\ \A q \in Requests : mFound[q].op = "confirm" => mFound[q].email # e

OptOutInv == SubType /\ NoneUnderWay

Steps == {"new", "insert", "record", "load", "send", "mark", "done"}
RunType == [pc : Steps, todo : SUBSET Emails, at : Emails \cup {NoEmail}]

CastType ==
  /\ mStatus \in {"none", "pending", "sent"}
  /\ mDelivery \in [Emails -> {"none", "pending", "enqueued"}]
  /\ mRun \in [M!Runs -> RunType]
  /\ mMails \in [Emails -> Nat]
  /\ mRecipients \in SUBSET Emails /\ mEarly \in BOOLEAN

(* Who is where: only broadcast() inserts and records, resumeBroadcast()      *)
(* finds a row, and only a run that delivers or records has a list.           *)
RunShape ==
  /\ \A r \in M!Runs :
       /\ mRun[r].pc \in {"new", "load", "done"} => mRun[r].todo = {}
       /\ mRun[r].pc = "mark" => mRun[r].at \in mRun[r].todo
       /\ r # 1 => mRun[r].pc \notin {"insert", "record"}
       /\ mStatus = "none" => (r # 1 => mRun[r].pc = "new")
  /\ mStatus = "none" => \A e \in Emails : mDelivery[e] = "none"
  /\ mStatus = "none" => mRun[1].pc \in {"new", "insert", "done"}
  /\ mRun[1].pc \in {"new", "insert"} => mStatus = "none"

(* A row that is marked was mailed, and a run that loaded all the rows has    *)
(* the ones it must still mail on its list.                                   *)
Covered ==
  /\ \A e \in Emails : mDelivery[e] = "enqueued" => mMails[e] > 0
  /\ \A r \in M!Runs : mRun[r].pc = "mark" => mMails[mRun[r].at] > 0
  /\ \A r \in M!Runs : mRun[r].pc \in {"send", "mark"} /\ ~mEarly =>
       \A e \in mRecipients : mMails[e] > 0 \/ e \in mRun[r].todo
  /\ M!SentMeansMailed

Delivering(r, e) == mRun[r].pc = "mark" /\ mRun[r].at = e

(* An address that no run tore and no two runs shared: one run at most has it *)
(* on its list; it is mailed once that run is at its mark.                    *)
MailedByOne ==
  \A e \in Emails \ (mTorn \cup mShared) :
    /\ \A r, p \in M!Runs : e \in mRun[r].todo /\ e \in mRun[p].todo => r = p
    /\ \A r \in M!Runs : e \in mRun[r].todo =>
         /\ mRun[r].pc \in {"insert", "record"} => mDelivery[e] = "none"
         /\ mRun[r].pc \in {"send", "mark"} => mDelivery[e] = "pending"
         /\ mMails[e] = IF Delivering(r, e) THEN 1 ELSE 0
    /\ (\A r \in M!Runs : e \notin mRun[r].todo) =>
         mMails[e] = IF mDelivery[e] = "enqueued" THEN 1 ELSE 0

MailInv == CastType /\ RunShape /\ Covered /\ MailedByOne
-----------------------------------------------------------------------------
(* Opting out *)

(* Before the first subscribe() nobody has opted out. *)
LEMMA OptOutInit == M!Init => OptOutInv
<1> SUFFICES ASSUME M!Init PROVE OptOutInv
  OBVIOUS
<1>1. mSub \in [Emails -> RowType] /\ mMinted \in Int
  BY DEF M!Init, RowType, M!NoToken
<1>2. mFound \in [Requests -> FoundType] /\ \A q \in Requests : mFound[q].op = ""
  BY DEF M!Init, M!NotFound, FoundType
<1>3. mOptedOut = {} /\ mOvertaken = {}
  BY DEF M!Init
<1>q. QED
  BY <1>1, <1>2, <1>3 DEF OptOutInv, SubType, NoneUnderWay

(* The steps of the broadcast read the subscribers and change nothing there. *)
LEMMA OptOutKept == ASSUME OptOutInv, UNCHANGED M!subVars PROVE OptOutInv'
BY DEF OptOutInv, SubType, NoneUnderWay, M!subVars

(* subscribe(): who asks again is no longer opted out. *)
LEMMA SubscribeKeeps == ASSUME OptOutInv, NEW e \in Emails, M!Subscribe(e) PROVE OptOutInv'
<1> DEFINE row == [status |-> "pending", confirm |-> mMinted', unsub |-> mMinted']
<1>1. /\ mMinted' = mMinted + 1 /\ mSub' = [mSub EXCEPT ![e] = row]
      /\ mOptedOut' = mOptedOut \ {e} /\ mOvertaken' = mOvertaken \ {e} /\ mFound' = mFound
  BY DEF M!Subscribe
<1>2. mMinted' \in Int
  <2>1. mMinted \in Int
    BY DEF OptOutInv, SubType
  <2>2. mMinted' = mMinted + 1
    BY <1>1
  <2>q. QED
    BY <2>1, <2>2
<1>3. SubType'
  <2>1. row \in RowType
    BY <1>2 DEF RowType
  <2>2. mSub' \in [Emails -> RowType]
    BY <1>1, <2>1 DEF OptOutInv, SubType
  <2>3. mOptedOut' \in SUBSET Emails /\ mOvertaken' \in SUBSET Emails
    BY <1>1 DEF OptOutInv, SubType
  <2>q. QED
    BY <1>1, <1>2, <2>2, <2>3 DEF OptOutInv, SubType
<1>4. NoneUnderWay'
  <2>1. \A d \in Emails \ {e} : mSub'[d] = mSub[d]
    BY <1>1 DEF OptOutInv, SubType
  <2>q. QED
    BY <1>1, <2>1 DEF OptOutInv, SubType, NoneUnderWay
<1>q. QED
  BY <1>3, <1>4 DEF OptOutInv

(* A confirm link finds a pending row, so nobody who opted out. *)
LEMMA FindToConfirmKeeps ==
  ASSUME OptOutInv, NEW q \in Requests, NEW t, M!FindToConfirm(q, t) PROVE OptOutInv'
<1>1. PICK e \in M!Confirmable(t) : mFound' = [mFound EXCEPT ![q] = [op |-> "confirm", email |-> e]]
  BY DEF M!FindToConfirm
<1>2. e \in Emails /\ mSub[e].status = "pending"
  BY <1>1 DEF M!Confirmable
<1>3. UNCHANGED <<mSub, mMinted, mOptedOut, mOvertaken>>
  BY DEF M!FindToConfirm
<1>4. [op |-> "confirm", email |-> e] \in FoundType
  BY <1>2 DEF FoundType
<1>5. /\ mFound' \in [Requests -> FoundType] /\ mFound'[q].op = "confirm" /\ mFound'[q].email = e
      /\ \A p \in Requests \ {q} : mFound'[p] = mFound[p]
  BY <1>1, <1>4 DEF OptOutInv, SubType
<1>6. SubType'
  BY <1>2, <1>3, <1>5 DEF OptOutInv, SubType
<1>7. NoneUnderWay'
  BY <1>2, <1>3, <1>5 DEF OptOutInv, NoneUnderWay
<1>q. QED
  BY <1>6, <1>7 DEF OptOutInv

(* An unsubscribe link only finds its row. *)
LEMMA FindToUnsubscribeKeeps ==
  ASSUME OptOutInv, NEW q \in Requests, NEW t, M!FindToUnsubscribe(q, t) PROVE OptOutInv'
<1>1. PICK e \in Emails : mFound' = [mFound EXCEPT ![q] = [op |-> "unsubscribe", email |-> e]]
  BY DEF M!FindToUnsubscribe
<1>2. UNCHANGED <<mSub, mMinted, mOptedOut, mOvertaken>>
  BY DEF M!FindToUnsubscribe
<1>3. [op |-> "unsubscribe", email |-> e] \in FoundType
  BY DEF FoundType
<1>4. /\ mFound' \in [Requests -> FoundType] /\ mFound'[q].op = "unsubscribe" /\ mFound'[q].email = e
      /\ \A p \in Requests \ {q} : mFound'[p] = mFound[p]
  BY <1>1, <1>3 DEF OptOutInv, SubType
<1>5. SubType'
  BY <1>2, <1>4 DEF OptOutInv, SubType
<1>6. NoneUnderWay'
  BY <1>2, <1>4 DEF OptOutInv, NoneUnderWay
<1>q. QED
  BY <1>5, <1>6 DEF OptOutInv

(* A request that wrote its row is over. *)
LEMMA RequestDone ==
  ASSUME OptOutInv, NEW q \in Requests, mFound' = [mFound EXCEPT ![q] = M!NotFound]
  PROVE  /\ mFound' \in [Requests -> FoundType] /\ mFound'[q].op = ""
         /\ \A p \in Requests \ {q} : mFound'[p] = mFound[p]
BY DEF OptOutInv, SubType, FoundType, M!NotFound

(* confirm() writes a row nobody opted out of, unless it was overtaken. *)
LEMMA ConfirmKeeps == ASSUME OptOutInv, NEW q \in Requests, M!Confirm(q) PROVE OptOutInv'
<1> DEFINE e == mFound[q].email
           row == [status |-> "subscribed", confirm |-> M!NoToken, unsub |-> mSub[e].unsub]
<1>1. /\ mFound[q].op = "confirm" /\ mFound' = [mFound EXCEPT ![q] = M!NotFound]
      /\ mSub' = [mSub EXCEPT ![e] = row]
      /\ UNCHANGED <<mMinted, mOptedOut, mOvertaken>>
  BY DEF M!Confirm
<1>2. e \in Emails
  BY <1>1 DEF OptOutInv, SubType
<1> HIDE DEF e
<1>3. /\ mFound' \in [Requests -> FoundType] /\ mFound'[q].op = ""
      /\ \A p \in Requests \ {q} : mFound'[p] = mFound[p]
  BY <1>1, RequestDone
<1>4. /\ mSub' \in [Emails -> RowType]
      /\ \A d \in Emails \ {e} : mSub'[d] = mSub[d]
  <2>1. row \in RowType
    <3>1. mSub[e] \in RowType
      BY <1>2 DEF OptOutInv, SubType
    <3>q. QED
      BY <3>1 DEF RowType, M!NoToken
  <2>q. QED
    BY <1>1, <1>2, <2>1 DEF OptOutInv, SubType
<1>5. e \notin mOptedOut \ mOvertaken
  BY <1>1 DEF OptOutInv, NoneUnderWay, e
<1>6. SubType'
  BY <1>1, <1>3, <1>4 DEF OptOutInv, SubType
<1>7. NoneUnderWay'
  <2> SUFFICES ASSUME NEW d \in mOptedOut \ mOvertaken
               PROVE  /\ mSub'[d].status = "unsubscribed"
                      /\ \A p \in Requests : mFound'[p].op = "confirm" => mFound'[p].email # d
    BY <1>1 DEF NoneUnderWay
  <2>1. d \in Emails \ {e}
    BY <1>5 DEF OptOutInv, SubType
  <2>q. QED
    BY <1>3, <1>4, <2>1 DEF OptOutInv, NoneUnderWay
<1>q. QED
  BY <1>6, <1>7 DEF OptOutInv

(* unsubscribe() notices the confirms it overtakes. *)
LEMMA UnsubscribeKeeps == ASSUME OptOutInv, NEW q \in Requests, M!Unsubscribe(q) PROVE OptOutInv'
<1> DEFINE e == mFound[q].email
           raced == \E p \in Requests : mFound[p] = [op |-> "confirm", email |-> e]
<1>1. /\ mFound[q].op = "unsubscribe" /\ mFound' = [mFound EXCEPT ![q] = M!NotFound]
      /\ mSub' = [mSub EXCEPT ![e].status = "unsubscribed"]
      /\ mOptedOut' = mOptedOut \cup {e}
      /\ mOvertaken' = IF raced THEN mOvertaken \cup {e} ELSE mOvertaken
      /\ UNCHANGED mMinted
  BY DEF M!Unsubscribe
<1>2. e \in Emails
  BY <1>1 DEF OptOutInv, SubType
<1>3. \A p \in Requests : mFound[p].op = "confirm" /\ mFound[p].email = e => raced
  BY DEF OptOutInv, SubType, FoundType
<1> HIDE DEF e, raced
<1>4. /\ mFound' \in [Requests -> FoundType] /\ mFound'[q].op = ""
      /\ \A p \in Requests \ {q} : mFound'[p] = mFound[p]
  BY <1>1, RequestDone
<1>5. /\ mSub' \in [Emails -> RowType]
      /\ mSub'[e].status = "unsubscribed" /\ \A d \in Emails \ {e} : mSub'[d] = mSub[d]
  BY <1>1, <1>2 DEF OptOutInv, SubType, RowType
<1>6. mOptedOut' \in SUBSET Emails /\ mOvertaken' \in SUBSET Emails
  BY <1>1, <1>2 DEF OptOutInv, SubType
<1>7. SubType'
  BY <1>1, <1>4, <1>5, <1>6 DEF OptOutInv, SubType
<1>8. NoneUnderWay'
  <2> SUFFICES ASSUME NEW d \in mOptedOut' \ mOvertaken'
               PROVE  /\ mSub'[d].status = "unsubscribed"
                      /\ \A p \in Requests : mFound'[p].op = "confirm" => mFound'[p].email # d
    BY DEF NoneUnderWay
  <2>1. CASE d = e
    BY <1>1, <1>3, <1>4, <1>5, <2>1
  <2>2. CASE d # e
    <3>1. d \in mOptedOut \ mOvertaken /\ d \in Emails \ {e}
      BY <1>1, <1>6, <2>2
    <3>q. QED
      BY <1>4, <1>5, <3>1 DEF OptOutInv, NoneUnderWay
  <2>q. QED
    BY <2>1, <2>2
<1>q. QED
  BY <1>7, <1>8 DEF OptOutInv

(* Every step keeps the invariant. *)
LEMMA OptOutStep == ASSUME OptOutInv, [M!Next]_(M!vars) PROVE OptOutInv'
<1>1. CASE UNCHANGED M!vars
  BY <1>1, OptOutKept DEF M!vars
<1>2. ASSUME NEW e \in Emails, M!Subscribe(e) PROVE OptOutInv'
  BY <1>2, SubscribeKeeps
<1>3. ASSUME NEW q \in Requests, M!RequestStep(q) PROVE OptOutInv'
  <2>1. ASSUME NEW t \in 1 .. mMinted, M!FindToConfirm(q, t) \/ M!FindToUnsubscribe(q, t)
        PROVE  OptOutInv'
    BY <2>1, FindToConfirmKeeps, FindToUnsubscribeKeeps
  <2>q. QED
    BY <1>3, <2>1, ConfirmKeeps, UnsubscribeKeeps DEF M!RequestStep
<1>4. CASE M!Broadcast \/ M!InsertBroadcast \/ M!RecordChunk \/ M!Recorded
  BY <1>4, OptOutKept DEF M!Broadcast, M!InsertBroadcast, M!RecordChunk, M!Recorded
<1>5. ASSUME NEW r \in M!Runs, M!Resume(r) \/ M!Load(r) \/ M!Deliver(r) \/ M!MarkSent(r) \/ M!Dies(r)
      PROVE  OptOutInv'
  BY <1>5, OptOutKept DEF M!Resume, M!Load, M!Deliver, M!MarkSent, M!Dies
<1>q. QED
  BY <1>1, <1>2, <1>3, <1>4, <1>5 DEF M!Next

(* An address that opted out stays out until it asks to be subscribed again,  *)
(* a confirm that had looked the row up before apart (mailing-lists.ts,       *)
(* confirm and unsubscribe).                                                  *)
THEOREM OptOutDoesHold == M!Spec => []OptOutHolds
<1>1. M!Init => OptOutInv
  BY OptOutInit
<1>2. OptOutInv /\ [M!Next]_(M!vars) => OptOutInv'
  BY OptOutStep
<1>3. OptOutInv => OptOutHolds
  BY DEF OptOutInv, NoneUnderWay, M!OptOutHolds, OptOutHolds
<1>q. QED
  BY <1>1, <1>2, <1>3, PTL DEF M!Spec


-----------------------------------------------------------------------------
(* The broadcast *)

(* Before broadcast() there is no list and no mail. *)
LEMMA MailInit == ASSUME M!MailingAssumption PROVE M!Init => MailInv
<1> SUFFICES ASSUME M!Init PROVE MailInv
  OBVIOUS
<1>1. M!NotRun \in RunType /\ M!NotRun.pc = "new" /\ M!NotRun.todo = {}
  BY DEF M!NotRun, RunType, Steps
<1>2. /\ mRun \in [M!Runs -> RunType] /\ \A r \in M!Runs : mRun[r].pc = "new" /\ mRun[r].todo = {}
  BY <1>1 DEF M!Init
<1>3. /\ mDelivery \in [Emails -> {"none", "pending", "enqueued"}] /\ mMails \in [Emails -> Nat]
      /\ \A e \in Emails : mDelivery[e] = "none" /\ mMails[e] = 0
  BY DEF M!Init
<1>4. mEarly \in BOOLEAN
  BY DEF M!Init
<1>5. mStatus = "none" /\ mRecipients = {}
  BY DEF M!Init
<1>6. CastType
  BY <1>2, <1>3, <1>4, <1>5 DEF CastType
<1>7. 1 \in M!Runs
  BY DEF M!MailingAssumption, M!Runs
<1>8. RunShape
  BY <1>2, <1>3, <1>5, <1>7 DEF RunShape
<1>9. Covered
  BY <1>2, <1>3, <1>5 DEF Covered, M!SentMeansMailed
<1>10. MailedByOne
  BY <1>2, <1>3 DEF MailedByOne
<1>q. QED
  BY <1>6, <1>8, <1>9, <1>10 DEF MailInv

(* A run goes on, and the others stay as they are. *)
LEMMA RunAfter ==
  ASSUME CastType, NEW r \in M!Runs, NEW goal \in Steps, NEW todo \in SUBSET Emails, M!Goes(r, goal, todo)
  PROVE  /\ mRun' \in [M!Runs -> RunType] /\ mRun'[r].pc = goal /\ mRun'[r].todo = todo
         /\ \A p \in M!Runs \ {r} : mRun'[p] = mRun[p]
<1>1. [pc |-> goal, todo |-> todo, at |-> NoEmail] \in RunType
  BY DEF RunType
<1>q. QED
  BY <1>1 DEF CastType, M!Goes

(* broadcast() is the first run. *)
LEMMA FirstRun == ASSUME M!MailingAssumption PROVE 1 \in M!Runs
BY DEF M!MailingAssumption, M!Runs

(* The steps of the subscribers leave the broadcast alone. *)
LEMMA MailKept == ASSUME MailInv, UNCHANGED M!castVars PROVE MailInv'
<1>1. UNCHANGED <<mStatus, mDelivery, mRun, mMails, mRecipients, mEarly, mTorn, mShared>>
  BY DEF M!castVars
<1>q. QED
  BY <1>1 DEF MailInv, CastType, RunShape, Covered, M!SentMeansMailed, MailedByOne, Delivering

(* broadcast() reads the recipients before any run has loaded a delivery. *)
LEMMA BroadcastKeeps == ASSUME M!MailingAssumption, MailInv, M!Broadcast PROVE MailInv'
<1>0. CastType /\ RunShape /\ Covered /\ MailedByOne
  BY DEF MailInv
<1>1. /\ mRun[1].pc = "new" /\ mRecipients' = {e \in Emails : mSub[e].status = "subscribed"}
      /\ M!Goes(1, "insert", mRecipients')
      /\ UNCHANGED <<mStatus, mDelivery, mMails, mEarly, mTorn, mShared>>
  BY DEF M!Broadcast, M!At
<1>2. 1 \in M!Runs /\ mRecipients' \in SUBSET Emails /\ "insert" \in Steps
  BY <1>1, FirstRun DEF Steps
<1>3. /\ mRun' \in [M!Runs -> RunType] /\ mRun'[1].pc = "insert" /\ mRun'[1].todo = mRecipients'
      /\ \A p \in M!Runs \ {1} : mRun'[p] = mRun[p]
  BY <1>0, <1>1, <1>2, RunAfter
<1>4. mStatus = "none" /\ (\A e \in Emails : mDelivery[e] = "none") /\ mRun[1].todo = {}
  BY <1>0, <1>1, <1>2 DEF RunShape
<1>5. \A p \in M!Runs \ {1} : mRun[p].pc = "new" /\ mRun[p].todo = {}
  BY <1>0, <1>4 DEF RunShape
<1>6. CastType'
  BY <1>0, <1>1, <1>2, <1>3 DEF CastType
<1>7. RunShape'
  BY <1>1, <1>3, <1>4, <1>5 DEF RunShape
<1>8. Covered'
  <2>1. \A r \in M!Runs : mRun'[r].pc \notin {"send", "mark"}
    BY <1>3, <1>5
  <2>q. QED
    BY <1>0, <1>1, <1>4, <2>1 DEF Covered, M!SentMeansMailed
<1>9. MailedByOne'
  <2> SUFFICES ASSUME NEW e \in Emails \ (mTorn \cup mShared)
               PROVE  /\ \A r, p \in M!Runs : e \in mRun'[r].todo /\ e \in mRun'[p].todo => r = p
                      /\ \A r \in M!Runs : e \in mRun'[r].todo => r = 1
                      /\ mMails[e] = 0
    BY <1>1, <1>3, <1>4 DEF MailedByOne, Delivering
  <2>1. mMails[e] = 0
    <3>1. \A r \in M!Runs : e \notin mRun[r].todo
      BY <1>4, <1>5
    <3>q. QED
      BY <1>0, <1>4, <3>1 DEF MailedByOne
  <2>2. \A r \in M!Runs : e \in mRun'[r].todo => r = 1
    BY <1>3, <1>5
  <2>q. QED
    BY <2>1, <2>2
<1>q. QED
  BY <1>6, <1>7, <1>8, <1>9 DEF MailInv

(* The row, and the steps that change neither lists nor deliveries. *)
LEMMA InsertKeeps == ASSUME M!MailingAssumption, MailInv, M!InsertBroadcast PROVE MailInv'
<1>0. CastType /\ RunShape /\ Covered /\ MailedByOne
  BY DEF MailInv
<1>1. /\ mRun[1].pc = "insert" /\ mStatus' = "pending" /\ M!Goes(1, "record", mRun[1].todo)
      /\ UNCHANGED <<mDelivery, mMails, mRecipients, mEarly, mTorn, mShared>>
  BY DEF M!InsertBroadcast, M!At
<1>2. 1 \in M!Runs /\ mRun[1].todo \in SUBSET Emails /\ "record" \in Steps
  BY <1>0, FirstRun DEF CastType, RunType, Steps
<1>3. /\ mRun' \in [M!Runs -> RunType] /\ mRun'[1].pc = "record" /\ mRun'[1].todo = mRun[1].todo
      /\ \A p \in M!Runs \ {1} : mRun'[p] = mRun[p]
  BY <1>0, <1>1, <1>2, RunAfter
<1>4. mStatus = "none"
  BY <1>0, <1>1 DEF RunShape
<1>5. CastType'
  BY <1>0, <1>1, <1>3 DEF CastType
<1>6. RunShape'
  BY <1>0, <1>1, <1>3 DEF RunShape
<1>7. Covered'
  BY <1>0, <1>1, <1>3 DEF Covered, M!SentMeansMailed
<1>8. MailedByOne'
  <2>1. \A r \in M!Runs : mRun'[r].todo = mRun[r].todo
    BY <1>3
  <2>2. \A r \in M!Runs, e \in Emails : Delivering(r, e)' <=> Delivering(r, e)
    BY <1>1, <1>3 DEF Delivering
  <2>q. QED
    BY <1>0, <1>1, <1>3, <2>1, <2>2 DEF MailedByOne
<1>q. QED
  BY <1>5, <1>6, <1>7, <1>8 DEF MailInv

(* A run without a list goes on without one. *)
LEMMA EmptyHanded ==
  ASSUME MailInv, NEW r \in M!Runs, NEW goal \in {"load", "done"}, M!Goes(r, goal, {}),
         mRun[r].todo = {}, mRun[r].pc # "mark", UNCHANGED <<mDelivery, mMails, mTorn, mShared>>
  PROVE  MailedByOne'
<1>0. CastType /\ MailedByOne
  BY DEF MailInv
<1>1. /\ mRun'[r].pc = goal /\ mRun'[r].todo = {} /\ \A p \in M!Runs \ {r} : mRun'[p] = mRun[p]
  BY <1>0, RunAfter DEF Steps
<1>2. \A p \in M!Runs : mRun'[p].todo = mRun[p].todo
  BY <1>1
<1>3. \A p \in M!Runs, e \in Emails : Delivering(p, e)' <=> Delivering(p, e)
  BY <1>1 DEF Delivering
<1>4. \A p \in M!Runs, e \in Emails : e \in mRun'[p].todo => mRun'[p].pc = mRun[p].pc
  BY <1>1
<1>q. QED
  BY <1>0, <1>2, <1>3, <1>4 DEF MailedByOne

(* The last chunk is recorded, a run resumes, or one marks the row sent. *)
LEMMA IdleStepKeeps ==
  ASSUME M!MailingAssumption, MailInv, NEW r \in M!Runs,
         (M!Recorded /\ r = 1) \/ M!Resume(r) \/ M!MarkSent(r)
  PROVE  MailInv'
<1>0. CastType /\ RunShape /\ Covered /\ MailedByOne
  BY DEF MailInv
<1>1. PICK goal \in {"load", "done"} :
        /\ M!Goes(r, goal, {}) /\ mRun[r].todo = {} /\ mRun[r].pc \notin {"mark", "insert"}
        /\ mStatus # "none" /\ mStatus' \in {mStatus, "sent"}
        /\ mStatus' # mStatus => mRun[r].pc = "send"
        /\ UNCHANGED <<mDelivery, mMails, mRecipients, mEarly, mTorn, mShared>>
  <2>1. CASE M!Recorded /\ r = 1
    BY <1>0, <2>1 DEF M!Recorded, M!At, RunShape
  <2>2. CASE M!Resume(r)
    BY <1>0, <2>2 DEF M!Resume, M!At, RunShape
  <2>3. CASE M!MarkSent(r)
    BY <1>0, <2>3 DEF M!MarkSent, M!At, RunShape
  <2>q. QED
    BY <2>1, <2>2, <2>3
<1>2. /\ mRun' \in [M!Runs -> RunType] /\ mRun'[r].pc = goal /\ mRun'[r].todo = {}
      /\ \A p \in M!Runs \ {r} : mRun'[p] = mRun[p]
  BY <1>0, <1>1, RunAfter DEF Steps
<1>3. CastType'
  BY <1>0, <1>1, <1>2 DEF CastType
<1>4. RunShape'
  BY <1>0, <1>1, <1>2, FirstRun DEF RunShape
<1>5. Covered'
  BY <1>0, <1>1, <1>2 DEF Covered, M!SentMeansMailed
<1>6. MailedByOne'
  BY <1>1, EmptyHanded
<1>q. QED
  BY <1>3, <1>4, <1>5, <1>6 DEF MailInv

(* A chunk of deliveries is recorded: none of them was on another list. *)
LEMMA RecordChunkKeeps == ASSUME M!MailingAssumption, MailInv, M!RecordChunk PROVE MailInv'
<1>0. CastType /\ RunShape /\ Covered /\ MailedByOne
  BY DEF MailInv
<1>1. PICK batch \in SUBSET mRun[1].todo :
        /\ mDelivery' = [e \in Emails |-> IF e \in batch THEN "pending" ELSE mDelivery[e]]
        /\ M!Goes(1, "record", mRun[1].todo \ batch)
  BY DEF M!RecordChunk
<1>2. mRun[1].pc = "record" /\ UNCHANGED <<mStatus, mMails, mRecipients, mEarly, mTorn, mShared>>
  BY DEF M!RecordChunk, M!At
<1>3. 1 \in M!Runs /\ mRun[1].todo \ batch \in SUBSET Emails /\ "record" \in Steps
  BY <1>0, FirstRun DEF CastType, RunType, Steps
<1>4. /\ mRun' \in [M!Runs -> RunType] /\ mRun'[1].pc = "record" /\ mRun'[1].todo = mRun[1].todo \ batch
      /\ \A p \in M!Runs \ {1} : mRun'[p] = mRun[p]
  BY <1>0, <1>1, <1>3, RunAfter
<1>5. /\ mDelivery' \in [Emails -> {"none", "pending", "enqueued"}]
      /\ \A e \in Emails : mDelivery'[e] = IF e \in batch THEN "pending" ELSE mDelivery[e]
  BY <1>0, <1>1 DEF CastType
<1>6. CastType'
  BY <1>0, <1>2, <1>4, <1>5 DEF CastType
<1>7. RunShape'
  BY <1>0, <1>2, <1>3, <1>4 DEF RunShape
<1>8. Covered'
  BY <1>0, <1>2, <1>4, <1>5 DEF Covered, M!SentMeansMailed
<1>9. MailedByOne'
  <2> SUFFICES ASSUME NEW e \in Emails \ (mTorn \cup mShared)
               PROVE  /\ \A r, p \in M!Runs : e \in mRun'[r].todo /\ e \in mRun'[p].todo => r = p
                      /\ \A r \in M!Runs : e \in mRun'[r].todo =>
                           /\ mRun'[r].pc \in {"insert", "record"} => mDelivery'[e] = "none"
                           /\ mRun'[r].pc \in {"send", "mark"} => mDelivery'[e] = "pending"
                           /\ mMails[e] = IF Delivering(r, e)' THEN 1 ELSE 0
                      /\ (\A r \in M!Runs : e \notin mRun'[r].todo) =>
                           mMails[e] = IF mDelivery'[e] = "enqueued" THEN 1 ELSE 0
    BY <1>2 DEF MailedByOne
  <2>1. \A r \in M!Runs : e \in mRun'[r].todo => e \in mRun[r].todo
    BY <1>4
  <2>2. \A r \in M!Runs : Delivering(r, e)' <=> Delivering(r, e)
    BY <1>2, <1>4 DEF Delivering
  <2>3. CASE e \in batch
    <3>1. e \in mRun[1].todo /\ ~Delivering(1, e)
      BY <1>2, <2>3 DEF Delivering
    <3>2. mMails[e] = 0 /\ \A r \in M!Runs : e \in mRun[r].todo => r = 1
      BY <1>0, <1>3, <3>1 DEF MailedByOne
    <3>3. \A r \in M!Runs : e \notin mRun'[r].todo
      BY <1>4, <2>1, <2>3, <3>2
    <3>q. QED
      BY <1>5, <2>3, <3>2, <3>3
  <2>4. CASE e \notin batch
    <3>1. mDelivery'[e] = mDelivery[e] /\ \A r \in M!Runs : e \in mRun'[r].todo <=> e \in mRun[r].todo
      BY <1>4, <1>5, <2>4
    <3>2. \A r \in M!Runs : mRun'[r].pc = mRun[r].pc
      BY <1>2, <1>4
    <3>q. QED
      BY <1>0, <2>2, <3>1, <3>2 DEF MailedByOne
  <2>q. QED
    BY <2>3, <2>4
<1>q. QED
  BY <1>6, <1>7, <1>8, <1>9 DEF MailInv

(* A run loads the rows that are pending. *)
LEMMA LoadKeeps == ASSUME M!MailingAssumption, MailInv, NEW r \in M!Runs, M!Load(r) PROVE MailInv'
<1>0. CastType /\ RunShape /\ Covered /\ MailedByOne
  BY DEF MailInv
<1> DEFINE due == {e \in Emails : mDelivery[e] = "pending"}
<1>1. /\ mRun[r].pc = "load" /\ M!Goes(r, "send", due)
      /\ mEarly' = (mEarly \/ \E e \in mRecipients : mDelivery[e] = "none")
      /\ mShared' = mShared \cup {e \in due : \E p \in M!Runs \ {r} : e \in mRun[p].todo}
      /\ UNCHANGED <<mStatus, mDelivery, mMails, mRecipients, mTorn>>
  BY DEF M!Load, M!At, M!PendingDeliveries
<1>2. due \in SUBSET Emails /\ "send" \in Steps
  BY DEF Steps
<1>3. /\ mRun' \in [M!Runs -> RunType] /\ mRun'[r].pc = "send" /\ mRun'[r].todo = due
      /\ \A p \in M!Runs \ {r} : mRun'[p] = mRun[p]
  BY <1>0, <1>1, <1>2, RunAfter
<1>4. mRun[r].todo = {}
  BY <1>0, <1>1 DEF RunShape
<1>5. CastType'
  <2>1. mEarly' \in BOOLEAN
    BY <1>0, <1>1 DEF CastType
  <2>q. QED
    BY <1>0, <1>1, <1>3, <2>1 DEF CastType
<1>6. RunShape'
  <2>1. mStatus # "none"
    BY <1>0, <1>1 DEF RunShape
  <2>q. QED
    BY <1>0, <1>1, <1>3, <2>1, FirstRun DEF RunShape
<1>7. Covered'
  <2>1. ~mEarly' => ~mEarly /\ \A e \in mRecipients : mDelivery[e] # "none"
    BY <1>0, <1>1 DEF CastType
  <2>2. ~mEarly' => \A e \in mRecipients : mMails[e] > 0 \/ e \in due
    BY <1>0, <2>1 DEF Covered, CastType
  <2>q. QED
    BY <1>0, <1>1, <1>3, <2>1, <2>2 DEF Covered, M!SentMeansMailed
<1>8. MailedByOne'
  <2> SUFFICES ASSUME NEW e \in Emails \ (mTorn \cup mShared')
               PROVE  /\ \A q, p \in M!Runs : e \in mRun'[q].todo /\ e \in mRun'[p].todo => q = p
                      /\ \A p \in M!Runs : e \in mRun'[p].todo =>
                           /\ mRun'[p].pc \in {"insert", "record"} => mDelivery[e] = "none"
                           /\ mRun'[p].pc \in {"send", "mark"} => mDelivery[e] = "pending"
                           /\ mMails[e] = IF Delivering(p, e)' THEN 1 ELSE 0
                      /\ (\A p \in M!Runs : e \notin mRun'[p].todo) =>
                           mMails[e] = IF mDelivery[e] = "enqueued" THEN 1 ELSE 0
    BY <1>1 DEF MailedByOne
  <2>1. e \notin mShared /\ (e \in due => \A p \in M!Runs \ {r} : e \notin mRun[p].todo)
    BY <1>1
  <2>2. CASE e \in due
    <3>1. \A p \in M!Runs : e \notin mRun[p].todo
      BY <1>4, <2>1, <2>2
    <3>2. mMails[e] = 0 /\ mDelivery[e] = "pending"
      BY <1>0, <2>1, <2>2, <3>1 DEF MailedByOne
    <3>3. \A p \in M!Runs : e \in mRun'[p].todo <=> p = r
      BY <1>3, <2>1, <2>2
    <3>q. QED
      BY <1>3, <3>2, <3>3 DEF Delivering
  <2>3. CASE e \notin due
    <3>1. e \notin mRun'[r].todo /\ e \notin mRun[r].todo
      BY <1>3, <1>4, <2>3
    <3>2. \A p \in M!Runs \ {r} : mRun'[p] = mRun[p] /\ (Delivering(p, e)' <=> Delivering(p, e))
      BY <1>3 DEF Delivering
    <3>q. QED
      BY <1>0, <2>1, <3>1, <3>2 DEF MailedByOne
  <2>q. QED
    BY <2>2, <2>3
<1>q. QED
  BY <1>5, <1>6, <1>7, <1>8 DEF MailInv

(* The job of an email is enqueued: it was not, if the run has it alone. *)
LEMMA SendKeeps ==
  ASSUME M!MailingAssumption, MailInv, NEW r \in M!Runs, NEW e \in mRun[r].todo, mRun[r].pc = "send",
         M!EnqueuesJob(e), M!GoesToMark(r, e),
         UNCHANGED <<mStatus, mRecipients, mEarly, mTorn, mShared>>
  PROVE  MailInv'
<1>0. CastType /\ RunShape /\ Covered /\ MailedByOne
  BY DEF MailInv
<1>1. e \in Emails /\ mRun[r] \in RunType
  BY <1>0 DEF CastType, RunType
<1>2. /\ mRun' \in [M!Runs -> RunType] /\ mRun'[r].pc = "mark" /\ mRun'[r].todo = mRun[r].todo
      /\ mRun'[r].at = e /\ \A p \in M!Runs \ {r} : mRun'[p] = mRun[p]
  BY <1>0, <1>1 DEF CastType, M!GoesToMark, RunType, Steps
<1>3. /\ mMails' \in [Emails -> Nat] /\ mMails'[e] = mMails[e] + 1 /\ UNCHANGED mDelivery
      /\ \A d \in Emails \ {e} : mMails'[d] = mMails[d]
  BY <1>0, <1>1 DEF CastType, M!EnqueuesJob
<1>4. \A d \in Emails : mMails[d] \in Nat /\ (mMails[d] > 0 => mMails'[d] > 0) /\ mMails'[e] > 0
  BY <1>0, <1>1, <1>3 DEF CastType
<1>5. CastType'
  BY <1>0, <1>2, <1>3 DEF CastType
<1>6. RunShape'
  <2>1. mStatus # "none"
    BY <1>0 DEF RunShape
  <2>q. QED
    BY <1>0, <1>2, <1>3, <2>1, FirstRun DEF RunShape
<1>7. Covered'
  <2>1. \A p \in M!Runs : mRun'[p].pc = "mark" => mMails'[mRun'[p].at] > 0
    <3> SUFFICES ASSUME NEW p \in M!Runs, mRun'[p].pc = "mark" PROVE mMails'[mRun'[p].at] > 0
      OBVIOUS
    <3>1. CASE p = r
      BY <1>1, <1>2, <1>4, <3>1
    <3>2. CASE p # r
      <4>1. mRun'[p] = mRun[p] /\ mRun[p].at \in Emails
        BY <1>0, <1>2, <3>2 DEF RunShape, CastType, RunType
      <4>q. QED
        BY <1>0, <1>4, <4>1 DEF Covered
    <3>q. QED
      BY <3>1, <3>2
  <2>2. \A p \in M!Runs : mRun'[p].pc \in {"send", "mark"} => mRun[p].pc \in {"send", "mark"}
    BY <1>2
  <2>3. \A p \in M!Runs : mRun'[p].todo = mRun[p].todo
    BY <1>2
  <2>4. \A d \in mRecipients : d \in Emails
    BY <1>0 DEF CastType
  <2>q. QED
    BY <1>0, <1>3, <1>4, <2>1, <2>2, <2>3, <2>4 DEF Covered, M!SentMeansMailed
<1>8. MailedByOne'
  <2> SUFFICES ASSUME NEW d \in Emails \ (mTorn \cup mShared)
               PROVE  /\ \A q, p \in M!Runs : d \in mRun'[q].todo /\ d \in mRun'[p].todo => q = p
                      /\ \A p \in M!Runs : d \in mRun'[p].todo =>
                           /\ mRun'[p].pc \in {"insert", "record"} => mDelivery[d] = "none"
                           /\ mRun'[p].pc \in {"send", "mark"} => mDelivery[d] = "pending"
                           /\ mMails'[d] = IF Delivering(p, d)' THEN 1 ELSE 0
                      /\ (\A p \in M!Runs : d \notin mRun'[p].todo) =>
                           mMails'[d] = IF mDelivery[d] = "enqueued" THEN 1 ELSE 0
    BY <1>3 DEF MailedByOne
  <2>1. \A p \in M!Runs : mRun'[p].todo = mRun[p].todo
    BY <1>2
  <2>2. CASE d = e
    <3>1. mMails[e] = 0 /\ mDelivery[e] = "pending" /\ \A p \in M!Runs : e \in mRun[p].todo => p = r
      BY <1>0, <2>2 DEF MailedByOne, Delivering
    <3>2. mMails'[e] = 1
      BY <1>3, <3>1
    <3>q. QED
      BY <1>2, <2>1, <2>2, <3>1, <3>2 DEF Delivering
  <2>3. CASE d # e
    <3>1. \A p \in M!Runs : Delivering(p, d)' <=> Delivering(p, d)
      BY <1>2, <2>3 DEF Delivering
    <3>2. \A p \in M!Runs : /\ mRun'[p].pc \in {"insert", "record"} => mRun[p].pc \in {"insert", "record"}
                            /\ mRun'[p].pc \in {"send", "mark"} => mRun[p].pc \in {"send", "mark"}
      BY <1>2
    <3>q. QED
      BY <1>0, <1>3, <2>1, <2>3, <3>1, <3>2 DEF MailedByOne
  <2>q. QED
    BY <2>2, <2>3
<1>q. QED
  BY <1>5, <1>6, <1>7, <1>8 DEF MailInv

(* The row is marked, and the email leaves the list. *)
LEMMA MarkKeeps ==
  ASSUME M!MailingAssumption, MailInv, NEW r \in M!Runs, mRun[r].pc = "mark", M!MarksRow(mRun[r].at),
         M!Goes(r, "send", mRun[r].todo \ {mRun[r].at}),
         UNCHANGED <<mStatus, mRecipients, mEarly, mTorn, mShared>>
  PROVE  MailInv'
<1>0. CastType /\ RunShape /\ Covered /\ MailedByOne
  BY DEF MailInv
<1> DEFINE a == mRun[r].at
<1>1. a \in mRun[r].todo /\ a \in Emails /\ mMails[a] > 0 /\ mRun[r].todo \ {a} \in SUBSET Emails
  BY <1>0 DEF RunShape, CastType, RunType, Covered
<1>2. /\ mRun' \in [M!Runs -> RunType] /\ mRun'[r].pc = "send" /\ mRun'[r].todo = mRun[r].todo \ {a}
      /\ \A p \in M!Runs \ {r} : mRun'[p] = mRun[p]
  <2>1. "send" \in Steps
    BY DEF Steps
  <2>q. QED
    BY <1>0, <1>1, <2>1, RunAfter
<1>3. /\ mDelivery' \in [Emails -> {"none", "pending", "enqueued"}] /\ mDelivery'[a] = "enqueued"
      /\ UNCHANGED mMails /\ \A d \in Emails \ {a} : mDelivery'[d] = mDelivery[d]
  BY <1>0, <1>1 DEF CastType, M!MarksRow
<1>4. \A d \in Emails : Delivering(r, d) <=> d = a
  BY DEF Delivering
<1> HIDE DEF a
<1>5. CastType'
  BY <1>0, <1>2, <1>3 DEF CastType
<1>6. RunShape'
  <2>1. mStatus # "none"
    BY <1>0 DEF RunShape
  <2>q. QED
    BY <1>0, <1>2, <2>1, FirstRun DEF RunShape
<1>7. Covered'
  BY <1>0, <1>1, <1>2, <1>3 DEF Covered, M!SentMeansMailed
<1>8. MailedByOne'
  <2> SUFFICES ASSUME NEW d \in Emails \ (mTorn \cup mShared)
               PROVE  /\ \A q, p \in M!Runs : d \in mRun'[q].todo /\ d \in mRun'[p].todo => q = p
                      /\ \A p \in M!Runs : d \in mRun'[p].todo =>
                           /\ mRun'[p].pc \in {"insert", "record"} => mDelivery'[d] = "none"
                           /\ mRun'[p].pc \in {"send", "mark"} => mDelivery'[d] = "pending"
                           /\ mMails[d] = IF Delivering(p, d)' THEN 1 ELSE 0
                      /\ (\A p \in M!Runs : d \notin mRun'[p].todo) =>
                           mMails[d] = IF mDelivery'[d] = "enqueued" THEN 1 ELSE 0
    BY <1>3 DEF MailedByOne
  <2>1. CASE d = a
    <3>1. mMails[a] = 1 /\ \A p \in M!Runs : a \in mRun[p].todo => p = r
      BY <1>0, <1>1, <1>4, <2>1 DEF MailedByOne
    <3>2. \A p \in M!Runs : a \notin mRun'[p].todo
      BY <1>2, <3>1
    <3>q. QED
      BY <1>3, <2>1, <3>1, <3>2
  <2>2. CASE d # a
    <3>1. mDelivery'[d] = mDelivery[d] /\ \A p \in M!Runs : d \in mRun'[p].todo <=> d \in mRun[p].todo
      BY <1>2, <1>3, <2>2
    <3>2. \A p \in M!Runs : Delivering(p, d)' <=> Delivering(p, d)
      BY <1>2, <1>4, <2>2 DEF Delivering
    <3>3. \A p \in M!Runs : /\ mRun'[p].pc \in {"insert", "record"} => mRun[p].pc \in {"insert", "record"}
                            /\ mRun'[p].pc \in {"send", "mark"} => mRun[p].pc \in {"send", "mark"}
      BY <1>2
    <3>q. QED
      BY <1>0, <3>1, <3>2, <3>3 DEF MailedByOne
  <2>q. QED
    BY <2>1, <2>2
<1>q. QED
  BY <1>5, <1>6, <1>7, <1>8 DEF MailInv

(* drainDeliveries(): the job, or its mark. *)
LEMMA DeliverKeeps ==
  ASSUME M!MailingAssumption, MailInv, NEW r \in M!Runs, M!Deliver(r) PROVE MailInv'
<1>1. M!Delivers(r) /\ UNCHANGED <<mStatus, mRecipients, mEarly, mTorn, mShared>>
  BY DEF M!Deliver
<1>2. CASE M!At(r, "send") /\ \E e \in mRun[r].todo : M!EnqueuesJob(e) /\ M!GoesToMark(r, e)
  BY <1>1, <1>2, SendKeeps DEF M!At
<1>3. CASE M!At(r, "mark") /\ M!MarksRow(mRun[r].at) /\ M!Goes(r, "send", mRun[r].todo \ {mRun[r].at})
  BY <1>1, <1>3, MarkKeeps DEF M!At
<1>q. QED
  BY <1>1, <1>2, <1>3 DEF M!Delivers

(* A run dies: what it had mailed and not marked is torn. *)
LEMMA DiesKeeps == ASSUME M!MailingAssumption, MailInv, NEW r \in M!Runs, M!Dies(r) PROVE MailInv'
<1>0. CastType /\ RunShape /\ Covered /\ MailedByOne
  BY DEF MailInv
<1>1. /\ mRun[r].pc \notin {"new", "done"} /\ M!Goes(r, "done", {})
      /\ mTorn' = IF mRun[r].pc = "mark" THEN mTorn \cup {mRun[r].at} ELSE mTorn
      /\ UNCHANGED <<mStatus, mDelivery, mMails, mRecipients, mEarly, mShared>>
  BY DEF M!Dies, M!At
<1>2. /\ mRun' \in [M!Runs -> RunType] /\ mRun'[r].pc = "done" /\ mRun'[r].todo = {}
      /\ \A p \in M!Runs \ {r} : mRun'[p] = mRun[p]
  <2>1. "done" \in Steps /\ {} \in SUBSET Emails
    BY DEF Steps
  <2>q. QED
    BY <1>0, <1>1, <2>1, RunAfter
<1>3. CastType'
  BY <1>0, <1>1, <1>2 DEF CastType
<1>4. RunShape'
  BY <1>0, <1>1, <1>2, FirstRun DEF RunShape
<1>5. Covered'
  BY <1>0, <1>1, <1>2 DEF Covered, M!SentMeansMailed
<1>6. MailedByOne'
  <2> SUFFICES ASSUME NEW d \in Emails \ (mTorn' \cup mShared)
               PROVE  /\ \A q, p \in M!Runs : d \in mRun'[q].todo /\ d \in mRun'[p].todo => q = p
                      /\ \A p \in M!Runs : d \in mRun'[p].todo =>
                           /\ mRun'[p].pc \in {"insert", "record"} => mDelivery[d] = "none"
                           /\ mRun'[p].pc \in {"send", "mark"} => mDelivery[d] = "pending"
                           /\ mMails[d] = IF Delivering(p, d)' THEN 1 ELSE 0
                      /\ (\A p \in M!Runs : d \notin mRun'[p].todo) =>
                           mMails[d] = IF mDelivery[d] = "enqueued" THEN 1 ELSE 0
    BY <1>1 DEF MailedByOne
  <2>1. d \notin mTorn /\ ~Delivering(r, d)
    BY <1>1 DEF Delivering
  <2>2. \A p \in M!Runs : d \in mRun'[p].todo => p # r /\ mRun'[p] = mRun[p]
    BY <1>2
  <2>3. \A p \in M!Runs \ {r} : Delivering(p, d)' <=> Delivering(p, d)
    BY <1>2 DEF Delivering
  <2>4. CASE d \in mRun[r].todo
    <3>1. mMails[d] = 0 /\ \A p \in M!Runs : d \in mRun[p].todo => p = r
      BY <1>0, <2>1, <2>4 DEF MailedByOne
    <3>2. mRun[r].pc \in {"insert", "record", "send", "mark"}
      BY <1>0, <2>4 DEF RunShape, CastType, RunType, Steps
    <3>3. mDelivery[d] # "enqueued"
      BY <1>0, <2>1, <2>4, <3>2 DEF MailedByOne
    <3>q. QED
      BY <2>2, <3>1, <3>3
  <2>5. CASE d \notin mRun[r].todo
    <3>1. \A p \in M!Runs : d \in mRun'[p].todo <=> d \in mRun[p].todo
      BY <1>2, <2>5
    <3>q. QED
      BY <1>0, <2>1, <2>2, <2>3, <3>1 DEF MailedByOne
  <2>q. QED
    BY <2>4, <2>5
<1>q. QED
  BY <1>3, <1>4, <1>5, <1>6 DEF MailInv

(* Every step keeps the invariant. *)
LEMMA MailStep == ASSUME M!MailingAssumption, MailInv, [M!Next]_(M!vars) PROVE MailInv'
<1>1. CASE UNCHANGED M!vars
  BY <1>1, MailKept DEF M!vars
<1>2. ASSUME NEW e \in Emails, M!Subscribe(e) PROVE MailInv'
  BY <1>2, MailKept DEF M!Subscribe
<1>3. ASSUME NEW q \in Requests, M!RequestStep(q) PROVE MailInv'
  BY <1>3, MailKept DEF M!RequestStep, M!FindToConfirm, M!FindToUnsubscribe, M!Confirm,
     M!Unsubscribe
<1>4. CASE M!Broadcast \/ M!InsertBroadcast \/ M!RecordChunk \/ M!Recorded
  BY <1>4, BroadcastKeeps, InsertKeeps, RecordChunkKeeps, IdleStepKeeps, FirstRun
<1>5. ASSUME NEW r \in M!Runs, M!Resume(r) \/ M!Load(r) \/ M!Deliver(r) \/ M!MarkSent(r) \/ M!Dies(r)
      PROVE  MailInv'
  BY <1>5, IdleStepKeeps, LoadKeeps, DeliverKeeps, DiesKeeps
<1>q. QED
  BY <1>1, <1>2, <1>3, <1>4, <1>5 DEF M!Next

(* The invariant gives the property the runs check. *)
LEMMA MailImplies == ASSUME MailInv PROVE M!MailedOnce
<1>1. M!SentMeansMailed
  BY DEF MailInv, Covered
<1>2. M!NoSecondMail
  <2> SUFFICES ASSUME NEW e \in Emails, e \notin mTorn \cup mShared PROVE ~(mMails[e] > 1)
    BY DEF M!NoSecondMail
  <2>1. mMails[e] = 0 \/ mMails[e] = 1
    BY DEF MailInv, MailedByOne
  <2>q. QED
    BY <2>1
<1>q. QED
  BY <1>1, <1>2 DEF M!MailedOnce

(* Of a broadcast marked sent no recipient was left without a mail, and a     *)
(* second mail goes out only where a run died between the job and its mark or *)
(* two runs loaded the row at once (mailing-lists.ts, drainDeliveries).       *)
THEOREM MailsGoOutOnce == M!Spec => []MailedOnce
<1>1. M!Init => MailInv
  BY MailInit, MailingConstants
<1>2. MailInv /\ [M!Next]_(M!vars) => MailInv'
  BY MailStep, MailingConstants
<1>3. MailInv => MailedOnce
  BY MailImplies DEF MailedOnce
<1>q. QED
  BY <1>1, <1>2, <1>3, PTL DEF M!Spec

-----------------------------------------------------------------------------
(* The topics *)

Cursors == [id : Nat, gen : Nat, index : Nat]
RingEntry == [index : Nat, topic : Topics]
FrameType == [topic : Topics \cup {R!NoTopic}, cursor : Cursors]

RealtimeType ==
  /\ rVersion \in [Topics -> Nat] /\ rSeen \in [Topics -> Nat]
  /\ rNotify \in Seq(Topics) /\ rListening \in BOOLEAN
  /\ rMissed \subseteq Topics /\ rExcused \subseteq Topics
  /\ rRing \in [id : Nat \ {0}, gen : Nat, last : Nat, entries : Seq(RingEntry)]
  /\ rStream \in {"none", "open", "ending"}
  /\ rFrames \in Seq(FrameType) /\ rLastId \in Cursors

(* Nothing is missed while the instance listens; a stream that is gone has no *)
(* frames, one that ends has some.                                            *)
ShapeKept ==
  /\ (rListening => rMissed = {}) /\ (~rListening => rNotify = <<>>)
  /\ (rStream = "none" => rFrames = <<>>) /\ (rStream = "ending" => rFrames # <<>>)

(* The ring holds the newest entries, without a gap. *)
DenseRing(r) ==
  /\ Len(r.entries) <= r.last
  /\ \A i \in 1 .. Len(r.entries) : r.entries[i].index = r.last - Len(r.entries) + i

(* Where the client stands, and will stand after i frames more. *)
Stand(from, fs, i) == IF i = 0 THEN from ELSE fs[i].cursor

Before(c, d) ==
  \/ c.id < d.id
  \/ c.id = d.id /\ (c.gen < d.gen \/ (c.gen = d.gen /\ c.index <= d.index))

(* The frames are in the order of their cursors, and none is ahead of the ring. *)
FramesOrdered(r, from, fs) ==
  /\ \A i \in 0 .. Len(fs) : \A j \in 0 .. i : Before(Stand(from, fs, j), Stand(from, fs, i))
  /\ Before(Stand(from, fs, Len(fs)), R!Cursor(r))

(* reconcile() from the cursor would name the topic, or cannot tell. *)
Remembers(r, c, t) ==
  \/ c.id # r.id \/ c.gen # r.gen \/ c.index < r.last - Len(r.entries)
  \/ \E i \in 1 .. Len(r.entries) : r.entries[i].index > c.index /\ r.entries[i].topic = t

(* Wherever the stream breaks before a frame, the reconnect brings its topic  *)
(* again, unless the client already stood at the cursor of the frame.         *)
FramesOwed(r, from, fs) ==
  \A i \in 1 .. Len(fs) : fs[i].topic # R!NoTopic =>
    \A j \in 0 .. i - 1 : \/ Stand(from, fs, j) = Stand(from, fs, i)
                          \/ Remembers(r, Stand(from, fs, j), fs[i].topic)

(* What keeps a topic from being forgotten. *)
Framed(r, from, fs, t) ==
  \E i \in 1 .. Len(fs) :
    \/ fs[i].topic = t
    \/ /\ fs[i].topic = R!NoTopic
       /\ \A j \in 0 .. i - 1 : Remembers(r, Stand(from, fs, j), t)

Told(t) ==
  \/ t \in R!Range(rNotify) \/ t \in rMissed
  \/ Framed(rRing, rLastId, rFrames, t)
  \/ rStream # "open" /\ Remembers(rRing, Stand(rLastId, rFrames, Len(rFrames)), t)

StaleAreTold == \A t \in Topics : rSeen[t] # rVersion[t] /\ t \notin rExcused => Told(t)

StaleInv ==
  /\ RealtimeType /\ ShapeKept
  /\ DenseRing(rRing) /\ FramesOrdered(rRing, rLastId, rFrames) /\ FramesOwed(rRing, rLastId, rFrames)
  /\ StaleAreTold

(* The resync frame names no topic, and the limits are numbers. *)
LEMMA RealtimeBounds == R!NoTopic \notin Topics /\ MaxEntries \in Nat /\ MaxQueue \in Nat
BY RealtimeConstants DEF R!RealtimeAssumption

RingType == [id : Nat \ {0}, gen : Nat, last : Nat, entries : Seq(RingEntry)]

(* What the ring has recorded newly, and how much of it is kept. *)
Grown(r, t, kept) ==
  LET all == Append(r.entries, [index |-> r.last + 1, topic |-> t])
  IN [r EXCEPT !.last = @ + 1, !.entries = SubSeq(all, Len(all) - kept + 1, Len(all))]

(* What the ring holds after record(): the new entry last, the newest before it. *)
LEMMA RingGrows ==
  ASSUME NEW r \in RingType, DenseRing(r), NEW t \in Topics, NEW kept \in 1 .. (Len(r.entries) + 1)
  PROVE  /\ Grown(r, t, kept) \in RingType
         /\ Grown(r, t, kept).id = r.id /\ Grown(r, t, kept).gen = r.gen
         /\ Grown(r, t, kept).last = r.last + 1
         /\ Len(Grown(r, t, kept).entries) = kept
         /\ Grown(r, t, kept).entries[kept].topic = t
         /\ \A i \in 1 .. kept - 1 :
               Grown(r, t, kept).entries[i] = r.entries[Len(r.entries) + 1 - kept + i]
         /\ DenseRing(Grown(r, t, kept))
<1> DEFINE new == [index |-> r.last + 1, topic |-> t]
           all == Append(r.entries, new)
           newest == SubSeq(all, Len(all) - kept + 1, Len(all))
           n == Len(r.entries)
<1>1. r.entries \in Seq(RingEntry) /\ n \in Nat /\ r.last \in Nat
  BY DEF RingType
<1>2. new \in RingEntry /\ new.topic = t /\ new.index = r.last + 1
  BY <1>1 DEF RingEntry
<1> HIDE DEF new
<1>3. /\ all \in Seq(RingEntry) /\ Len(all) = n + 1 /\ all[n + 1] = new
      /\ \A i \in 1 .. n : all[i] = r.entries[i]
  BY <1>1, <1>2
<1> HIDE DEF all
<1>4. /\ newest \in Seq(RingEntry) /\ Len(newest) = kept
      /\ \A i \in 1 .. kept : newest[i] = all[n + 1 - kept + i]
  BY <1>1, <1>3
<1> HIDE DEF newest
<1>5. Grown(r, t, kept) = [r EXCEPT !.last = @ + 1, !.entries = newest]
  BY DEF Grown, newest, all, new
<1>6. /\ Grown(r, t, kept) \in RingType
      /\ Grown(r, t, kept).id = r.id /\ Grown(r, t, kept).gen = r.gen
      /\ Grown(r, t, kept).last = r.last + 1 /\ Grown(r, t, kept).entries = newest
  <2>1. r.last + 1 \in Nat BY <1>1
  <2>2. Grown(r, t, kept) = [id |-> r.id, gen |-> r.gen, last |-> r.last + 1, entries |-> newest]
    BY <1>5 DEF RingType
  <2> QED BY <1>4, <2>1, <2>2 DEF RingType
<1>7. kept \in 1 .. kept /\ newest[kept] = new
  BY <1>1, <1>3, <1>4
<1>8. ASSUME NEW i \in 1 .. kept - 1
      PROVE  newest[i] = r.entries[n + 1 - kept + i] /\ (n + 1 - kept + i) \in 1 .. n
  <2> HIDE DEF n
  <2>1. i \in 1 .. kept /\ (n + 1 - kept + i) \in 1 .. n BY <1>1 DEF n
  <2> QED BY <1>3, <1>4, <2>1
<1>9. kept <= r.last + 1
  BY <1>1 DEF DenseRing
<1>10. ASSUME NEW i \in 1 .. kept
       PROVE  newest[i].index = r.last + 1 - kept + i
  <2>1. CASE i = kept BY <1>1, <1>2, <1>7, <2>1
  <2>2. CASE i # kept
    <3> DEFINE m == n + 1 - kept + i
    <3>1. i \in 1 .. kept - 1 BY <2>2
    <3>2. newest[i] = r.entries[m] /\ m \in 1 .. n
      BY <1>8, <3>1
    <3> HIDE DEF m
    <3>3. newest[i].index = r.last - n + m BY <3>2 DEF DenseRing
    <3> QED BY <1>1, <3>3 DEF m
  <2> QED BY <2>1, <2>2
<1>11. DenseRing(Grown(r, t, kept))
  <2> DEFINE g == Grown(r, t, kept)
  <2>1. g.entries = newest /\ g.last = r.last + 1 /\ Len(g.entries) = kept BY <1>4, <1>6
  <2> HIDE DEF g
  <2>2. ASSUME NEW i \in 1 .. Len(g.entries)
        PROVE  g.entries[i].index = g.last - Len(g.entries) + i
    <3>1. newest[i].index = r.last + 1 - kept + i BY <1>10, <2>1
    <3>2. g.last - Len(g.entries) + i = r.last + 1 - kept + i
      BY <1>1, <2>1
    <3>3. g.entries[i] = newest[i] BY <2>1
    <3> QED BY <3>1, <3>2, <3>3
  <2>3. Len(g.entries) <= g.last BY <1>9, <2>1
  <2>4. DenseRing(g) BY <2>2, <2>3 DEF DenseRing
  <2> QED BY <2>4 DEF g
<1> QED BY <1>2, <1>4, <1>6, <1>7, <1>8, <1>11

(* What the ring remembers, it remembers after one more entry ... *)
LEMMA GrownRemembers ==
  ASSUME NEW r \in RingType, DenseRing(r), NEW t \in Topics, NEW kept \in 1 .. (Len(r.entries) + 1),
         NEW c \in Cursors, NEW u, Remembers(r, c, u)
  PROVE  Remembers(Grown(r, t, kept), c, u)
<1> DEFINE g == Grown(r, t, kept)
           n == Len(r.entries)
<1>1. /\ g.id = r.id /\ g.gen = r.gen /\ g.last = r.last + 1 /\ Len(g.entries) = kept
      /\ \A i \in 1 .. kept - 1 : g.entries[i] = r.entries[n + 1 - kept + i]
  BY RingGrows
<1>2. n \in Nat /\ r.last \in Nat /\ c.index \in Nat
  BY DEF RingType, Cursors
<1> HIDE DEF g
<1>3. CASE c.id # r.id \/ c.gen # r.gen \/ c.index < r.last - n
  BY <1>1, <1>2, <1>3 DEF Remembers, g
<1>4. ASSUME NEW i \in 1 .. n, r.entries[i].index > c.index, r.entries[i].topic = u
      PROVE  Remembers(g, c, u)
  <2>1. r.entries[i].index = r.last - n + i BY DEF DenseRing
  <2>2. CASE i <= n + 1 - kept
    <3>1. c.index < g.last - kept BY <1>1, <1>2, <1>4, <2>1, <2>2
    <3> QED BY <1>1, <3>1 DEF Remembers
  <2>3. CASE i > n + 1 - kept
    <3> DEFINE m == i - (n + 1 - kept)
    <3>0. n \in Nat /\ kept \in Nat /\ i \in Nat /\ i <= n BY <1>2
    <3>1. m \in 1 .. kept - 1 /\ m \in 1 .. kept /\ n + 1 - kept + m = i
      <4> HIDE DEF n
      <4> QED BY <2>3, <3>0
    <3>2. g.entries[m] = r.entries[i] BY <1>1, <3>1
    <3> HIDE DEF m
    <3> QED BY <1>1, <1>4, <3>1, <3>2 DEF Remembers
  <2> QED BY <1>2, <2>2, <2>3
<1> QED BY <1>3, <1>4 DEF Remembers, g

(* ... and the new topic, for whoever stands behind it. *)
LEMMA GrownTells ==
  ASSUME NEW r \in RingType, DenseRing(r), NEW t \in Topics, NEW kept \in 1 .. (Len(r.entries) + 1),
         NEW c \in Cursors, Before(c, R!Cursor(r))
  PROVE  Remembers(Grown(r, t, kept), c, t) /\ Before(c, R!Cursor(Grown(r, t, kept)))
<1> DEFINE g == Grown(r, t, kept)
<1>1. /\ g.id = r.id /\ g.gen = r.gen /\ g.last = r.last + 1 /\ Len(g.entries) = kept
      /\ g.entries[kept].topic = t /\ DenseRing(g)
  BY RingGrows
<1> HIDE DEF g
<1>2. /\ r.last \in Nat /\ r.id \in Nat /\ r.gen \in Nat /\ c.id \in Nat /\ c.gen \in Nat
      /\ c.index \in Nat /\ kept \in Nat /\ kept \in 1 .. kept
  BY DEF RingType, Cursors
<1>3. /\ R!Cursor(r).id = r.id /\ R!Cursor(r).gen = r.gen /\ R!Cursor(r).index = r.last
      /\ R!Cursor(g).id = r.id /\ R!Cursor(g).gen = r.gen /\ R!Cursor(g).index = r.last + 1
  BY <1>1 DEF R!Cursor
<1>4. Before(c, R!Cursor(g))
  BY <1>2, <1>3 DEF Before
<1>5. g.entries[kept].index = r.last + 1
  BY <1>1, <1>2 DEF DenseRing
<1>6. c.id = r.id /\ c.gen = r.gen => c.index <= r.last
  BY <1>2, <1>3 DEF Before
<1>7. Remembers(g, c, t)
  BY <1>1, <1>2, <1>5, <1>6 DEF Remembers
<1> QED BY <1>4, <1>7 DEF g

(* Whoever stands earlier is told no less. *)
LEMMA EarlierRemembers ==
  ASSUME NEW r \in RingType, DenseRing(r), NEW c \in Cursors, NEW d \in Cursors, NEW t,
         Before(c, d), Before(d, R!Cursor(r)), Remembers(r, d, t)
  PROVE  Remembers(r, c, t)
<1>1. /\ r.last \in Nat /\ r.id \in Nat /\ r.gen \in Nat /\ Len(r.entries) \in Nat
      /\ c.id \in Nat /\ c.gen \in Nat /\ c.index \in Nat
      /\ d.id \in Nat /\ d.gen \in Nat /\ d.index \in Nat
      /\ R!Cursor(r).id = r.id /\ R!Cursor(r).gen = r.gen
  BY DEF RingType, Cursors, R!Cursor
<1>2. CASE c.id # r.id \/ c.gen # r.gen
  BY <1>2 DEF Remembers
<1>3. CASE c.id = r.id /\ c.gen = r.gen
  <2>1. d.id = r.id /\ d.gen = r.gen /\ c.index <= d.index
    BY <1>1, <1>3 DEF Before
  <2>2. CASE d.index < r.last - Len(r.entries)
    BY <1>1, <2>1, <2>2 DEF Remembers
  <2>3. ASSUME NEW i \in 1 .. Len(r.entries), r.entries[i].index > d.index, r.entries[i].topic = t
        PROVE  Remembers(r, c, t)
    <3>1. r.entries[i].index = r.last - Len(r.entries) + i BY DEF DenseRing
    <3>2. r.entries[i].index > c.index BY <1>1, <2>1, <2>3, <3>1
    <3> QED BY <2>3, <3>2 DEF Remembers
  <2> QED BY <2>1, <2>2, <2>3 DEF Remembers
<1> QED BY <1>2, <1>3

(* A ring that starts anew cannot tell whoever stood in an older one. *)
LEMMA RenewedRemembers ==
  ASSUME NEW r \in RingType, NEW g \in RingType, NEW c \in Cursors, Before(c, R!Cursor(r)),
         (g.id > r.id) \/ (g.id = r.id /\ g.gen > r.gen)
  PROVE  Before(c, R!Cursor(g)) /\ \A t : Remembers(g, c, t)
<1>1. /\ r.id \in Nat /\ r.gen \in Nat /\ g.id \in Nat /\ g.gen \in Nat
      /\ c.id \in Nat /\ c.gen \in Nat
      /\ R!Cursor(r).id = r.id /\ R!Cursor(r).gen = r.gen
      /\ R!Cursor(g).id = g.id /\ R!Cursor(g).gen = g.gen
  BY DEF RingType, Cursors, R!Cursor
<1>2. c.id # g.id \/ c.gen # g.gen BY <1>1 DEF Before
<1>3. Before(c, R!Cursor(g)) BY <1>1 DEF Before
<1> QED BY <1>2, <1>3 DEF Remembers

(* reconcile() agrees with Remembers. *)
LEMMA ReconcileTells ==
  ASSUME rRing \in RingType, DenseRing(rRing), NEW c \in Cursors
  PROVE  /\ \A t \in Topics : Remembers(rRing, c, t) => R!NoTopic \in R!Reconcile(c) \/ t \in R!Reconcile(c)
         /\ R!NoTopic \in R!Reconcile(c) => R!Reconcile(c) = {R!NoTopic} /\ \A t : Remembers(rRing, c, t)
         /\ \A t \in R!Reconcile(c) : t # R!NoTopic => t \in Topics /\ Remembers(rRing, c, t)
         /\ R!Reconcile(c) = {R!NoTopic} \/ R!Reconcile(c) = R!NewerThan(c)
<1> DEFINE n == Len(rRing.entries)
           gap == \/ c.id # rRing.id \/ c.gen # rRing.gen \/ c.index < rRing.last - n
<1>1. /\ rRing.entries \in Seq(RingEntry) /\ n \in Nat /\ rRing.last \in Nat /\ c.index \in Nat
      /\ DOMAIN rRing.entries = 1 .. n
  BY DEF RingType, Cursors
<1>2. rRing.entries = <<>> <=> n = 0
  BY <1>1, EmptySeq
<1>3. n # 0 => rRing.entries[1].index = rRing.last - n + 1
  BY <1>1 DEF DenseRing
<1>4. R!Reconcile(c) = IF gap THEN {R!NoTopic} ELSE R!NewerThan(c)
  BY <1>1, <1>2, <1>3 DEF R!Reconcile
<1>5. ASSUME NEW i \in 1 .. n PROVE rRing.entries[i].topic \in Topics
  <2>1. rRing.entries[i] \in RingEntry BY <1>1
  <2> QED BY <2>1 DEF RingEntry
<1>6. R!NewerThan(c) = {rRing.entries[i].topic : i \in {j \in 1 .. n : rRing.entries[j].index > c.index}}
  BY <1>1 DEF R!NewerThan
<1>7. R!NewerThan(c) \subseteq Topics
  BY <1>5, <1>6
<1>8. gap => \A t : Remembers(rRing, c, t)
  BY DEF Remembers
<1>9. ~gap => \A t : Remembers(rRing, c, t) <=> t \in R!NewerThan(c)
  BY <1>6 DEF Remembers
<1> HIDE DEF gap
<1> QED BY <1>4, <1>7, <1>8, <1>9, RealtimeBounds

(* reconcile() names finitely many topics. *)
LEMMA ReconcileFinite ==
  ASSUME rRing \in RingType, NEW c \in Cursors
  PROVE  IsFiniteSet(R!NewerThan(c))
<1> DEFINE n == Len(rRing.entries)
           J == {j \in 1 .. n : rRing.entries[j].index > c.index}
           f == [j \in J |-> rRing.entries[j].topic]
<1>1. n \in Nat /\ DOMAIN rRing.entries = 1 .. n BY DEF RingType
<1>2. IsFiniteSet(1 .. n) BY <1>1, FS_Interval
<1>3. IsFiniteSet(J) BY <1>2, FS_Subset
<1>4. R!NewerThan(c) = {rRing.entries[j].topic : j \in J} BY <1>1 DEF R!NewerThan
<1> HIDE DEF J
<1>5. f \in Surjection(J, R!NewerThan(c)) BY <1>4 DEF Surjection
<1> HIDE DEF f
<1> QED BY <1>3, <1>5, FS_Surjection

(* SetToSeq() of a finite set lists it. *)
LEMMA SetToSeqLists ==
  ASSUME NEW S, IsFiniteSet(S)
  PROVE  /\ R!SetToSeq(S) \in Seq(S) /\ DOMAIN R!SetToSeq(S) = 1 .. Len(R!SetToSeq(S))
         /\ \A x \in S : \E i \in DOMAIN R!SetToSeq(S) : R!SetToSeq(S)[i] = x
         /\ Len(R!SetToSeq(S)) \in Nat
         /\ \A x : S = {x} => Len(R!SetToSeq(S)) = 1
<1> DEFINE n == Cardinality(S)
           q == R!SetToSeq(S)
<1>1. n \in Nat /\ ExistsBijection(1 .. n, S) BY FS_CardinalityType
<1>2. \E f \in [1 .. n -> S] : R!IsInjective(f)
  BY <1>1 DEF ExistsBijection, Bijection, Injection, IsInjective, R!IsInjective
<1>3. q \in [1 .. n -> S] /\ R!IsInjective(q)
  <2>1. R!Cardinality(S) = Cardinality(S)
    BY DEF R!Cardinality, Cardinality
  <2>q. QED
    BY <1>2, <2>1 DEF R!SetToSeq
<1> HIDE DEF q
<1>4. q \in Seq(S) /\ Len(q) = n /\ DOMAIN q = 1 .. n
  BY <1>1, <1>3, IsASeq
<1>5. q \in Injection(1 .. n, S) BY <1>3 DEF Injection, IsInjective, R!IsInjective
<1>6. Cardinality(1 .. n) = n BY <1>1, FS_Interval
<1>7. q \in Surjection(1 .. n, S) BY <1>1, <1>5, <1>6, FS_Injection
<1>8. ASSUME NEW x, S = {x} PROVE n = 1 BY <1>8, FS_Singleton
<1> QED BY <1>1, <1>4, <1>7, <1>8 DEF Surjection, q

-----------------------------------------------------------------------------

(* The frames of the stream, and where the client stands after each. *)
LEMMA FrameParts ==
  ASSUME RealtimeType
  PROVE  /\ rRing \in RingType /\ Len(rFrames) \in Nat /\ DOMAIN rFrames = 1 .. Len(rFrames)
         /\ \A i \in 1 .. Len(rFrames) : rFrames[i] \in FrameType
         /\ \A i \in 0 .. Len(rFrames) : Stand(rLastId, rFrames, i) \in Cursors
<1>1. /\ rRing \in RingType /\ Len(rFrames) \in Nat /\ DOMAIN rFrames = 1 .. Len(rFrames)
      /\ \A i \in 1 .. Len(rFrames) : rFrames[i] \in FrameType
  BY DEF RealtimeType, RingType
<1>2. ASSUME NEW i \in 0 .. Len(rFrames) PROVE Stand(rLastId, rFrames, i) \in Cursors
  <2>1. CASE i = 0 BY <2>1 DEF Stand, RealtimeType
  <2>2. CASE i # 0
    <3>1. rFrames[i] \in FrameType BY <1>1, <2>2
    <3> QED BY <2>2, <3>1 DEF Stand, FrameType
  <2> QED BY <2>1, <2>2
<1> QED BY <1>1, <1>2

(* Wherever the client stands, it is not ahead of the ring. *)
LEMMA AllBeforeRing ==
  ASSUME RealtimeType, FramesOrdered(rRing, rLastId, rFrames)
  PROVE  \A i \in 0 .. Len(rFrames) : Before(Stand(rLastId, rFrames, i), R!Cursor(rRing))
<1> SUFFICES ASSUME NEW i \in 0 .. Len(rFrames) PROVE Before(Stand(rLastId, rFrames, i), R!Cursor(rRing))
  OBVIOUS
<1> DEFINE c == Stand(rLastId, rFrames, i)
           d == Stand(rLastId, rFrames, Len(rFrames))
           e == R!Cursor(rRing)
<1>1. Len(rFrames) \in 0 .. Len(rFrames) /\ i \in 0 .. Len(rFrames) BY FrameParts
<1>2. Before(c, d) /\ Before(d, e)
  BY <1>1 DEF FramesOrdered
<1>3. c \in Cursors /\ d \in Cursors /\ e \in Cursors
  BY <1>1, FrameParts DEF R!Cursor, RingType, Cursors
<1> HIDE DEF c, d, e
<1>4. /\ c.id \in Nat /\ c.gen \in Nat /\ c.index \in Nat
      /\ d.id \in Nat /\ d.gen \in Nat /\ d.index \in Nat
      /\ e.id \in Nat /\ e.gen \in Nat /\ e.index \in Nat
  BY <1>3 DEF Cursors
<1>5. Before(c, e) BY <1>2, <1>4 DEF Before
<1> QED BY <1>5 DEF c, e

(* Before the first write the client shows what there is. *)
LEMMA StaleInit == R!Init => StaleInv
<1> SUFFICES ASSUME R!Init PROVE StaleInv
  OBVIOUS
<1>0. rRing = [id |-> 1, gen |-> 0, last |-> 0, entries |-> <<>>] /\ rFrames = <<>> /\ rLastId = R!Unset
  BY DEF R!Init
<1>1. RealtimeType
  <2>1. rRing \in [id : Nat \ {0}, gen : Nat, last : Nat, entries : Seq(RingEntry)]
    BY <1>0, EmptySeq
  <2>2. rFrames \in Seq(FrameType) /\ rNotify \in Seq(Topics) BY EmptySeq DEF R!Init
  <2>3. rLastId \in Cursors BY <1>0 DEF R!Unset, Cursors
  <2>4. rListening \in BOOLEAN BY DEF R!Init
  <2>5. /\ rVersion \in [Topics -> Nat] /\ rSeen \in [Topics -> Nat]
        /\ rMissed \subseteq Topics /\ rExcused \subseteq Topics
        /\ rStream \in {"none", "open", "ending"}
    BY DEF R!Init
  <2> QED BY <2>1, <2>2, <2>3, <2>4, <2>5 DEF RealtimeType
<1>2. ShapeKept BY DEF R!Init, ShapeKept
<1>3. Len(rRing.entries) = 0 /\ rRing.last = 0 /\ Len(rFrames) = 0 BY <1>0
<1>4. DenseRing(rRing) /\ FramesOwed(rRing, rLastId, rFrames) BY <1>3 DEF DenseRing, FramesOwed
<1>5. FramesOrdered(rRing, rLastId, rFrames)
  <2>1. Stand(rLastId, rFrames, 0) = R!Unset BY <1>0 DEF Stand
  <2>2. Before(R!Unset, R!Unset) /\ Before(R!Unset, R!Cursor(rRing))
    BY <1>0 DEF Before, R!Unset, R!Cursor
  <2> QED BY <1>3, <2>1, <2>2 DEF FramesOrdered
<1>6. StaleAreTold BY DEF R!Init, StaleAreTold
<1> QED BY <1>1, <1>2, <1>4, <1>5, <1>6 DEF StaleInv

(* What a queue holds after one more notification ... *)
LEMMA RangeOfAppend ==
  ASSUME NEW S, NEW q \in Seq(S), NEW x \in S
  PROVE  R!Range(Append(q, x)) = R!Range(q) \cup {x}
<1> DEFINE n == Len(q)
           a == Append(q, x)
<1>1. /\ n \in Nat /\ DOMAIN q = 1 .. n /\ DOMAIN a = 1 .. (n + 1) /\ a[n + 1] = x
      /\ \A i \in 1 .. n : a[i] = q[i]
  OBVIOUS
<1> HIDE DEF n, a
<1>2. R!Range(q) = {q[i] : i \in 1 .. n} /\ R!Range(a) = {a[i] : i \in 1 .. (n + 1)}
  BY <1>1 DEF R!Range
<1>3. 1 .. (n + 1) = (1 .. n) \cup {n + 1} BY <1>1
<1>4. R!Range(a) = R!Range(q) \cup {x} BY <1>1, <1>2, <1>3
<1> QED BY <1>4 DEF a

(* ... and after one is taken. *)
LEMMA RangeOfTail ==
  ASSUME NEW S, NEW q \in Seq(S), q # <<>>
  PROVE  \A u : u \in R!Range(q) => u = Head(q) \/ u \in R!Range(Tail(q))
<1>1. /\ Len(q) \in Nat \ {0} /\ DOMAIN q = 1 .. Len(q) /\ Len(Tail(q)) = Len(q) - 1
      /\ DOMAIN Tail(q) = 1 .. (Len(q) - 1)
      /\ \A i \in 1 .. (Len(q) - 1) : Tail(q)[i] = q[i + 1]
      /\ Head(q) = q[1]
  BY EmptySeq
<1> SUFFICES ASSUME NEW i \in 1 .. Len(q), i # 1 PROVE q[i] \in R!Range(Tail(q))
  BY <1>1 DEF R!Range
<1>2. i - 1 \in 1 .. (Len(q) - 1) /\ (i - 1) + 1 = i BY <1>1
<1>3. Tail(q)[i - 1] = q[i] BY <1>1, <1>2
<1> QED BY <1>1, <1>2, <1>3 DEF R!Range

(* A write, or a NOTIFY that is lost: the client and the ring stay. *)
LEMMA WriteStale ==
  ASSUME StaleInv, NEW t \in Topics, R!Write(t) \/ R!PublishFails(t)
  PROVE  StaleInv'
<1> USE DEF StaleInv
<1>1. UNCHANGED <<rRing, rStream, rFrames, rLastId, rSeen>>
  BY DEF R!Write, R!PublishFails, R!client
<1>2. DenseRing(rRing)' /\ FramesOrdered(rRing, rLastId, rFrames)' /\ FramesOwed(rRing, rLastId, rFrames)'
  BY <1>1
<1>3. \A u : u \in R!Range(rNotify) <=> \E i \in DOMAIN rNotify : rNotify[i] = u
  BY DEF R!Range
<1>4. CASE R!Write(t)
  <2>1. CASE rListening
    <3>1. /\ rNotify' = Append(rNotify, t) /\ UNCHANGED <<rMissed, rListening, rExcused>>
          /\ rVersion' = [rVersion EXCEPT ![t] = @ + 1]
      BY <1>4, <2>1 DEF R!Write, R!client
    <3>2. RealtimeType' BY <1>1, <3>1 DEF RealtimeType
    <3>3. ShapeKept' BY <1>1, <2>1, <3>1 DEF ShapeKept
    <3>4. \A u : u \in R!Range(rNotify) \cup {t} => u \in R!Range(rNotify')
      BY <3>1, RangeOfAppend DEF RealtimeType
    <3>5. StaleAreTold'
      BY <1>1, <3>1, <3>4 DEF StaleAreTold, Told, RealtimeType
    <3> QED BY <1>2, <3>2, <3>3, <3>5
  <2>2. CASE ~rListening
    <3>1. /\ rMissed' = rMissed \cup {t} /\ UNCHANGED <<rNotify, rListening, rExcused>>
          /\ rVersion' = [rVersion EXCEPT ![t] = @ + 1]
      BY <1>4, <2>2 DEF R!Write, R!client
    <3>2. RealtimeType' BY <1>1, <3>1 DEF RealtimeType
    <3>3. ShapeKept' BY <1>1, <2>2, <3>1 DEF ShapeKept
    <3>5. StaleAreTold'
      BY <1>1, <3>1 DEF StaleAreTold, Told, RealtimeType
    <3> QED BY <1>2, <3>2, <3>3, <3>5
  <2> QED BY <2>1, <2>2
<1>5. CASE R!PublishFails(t)
  <2>1. /\ rExcused' = rExcused \cup {t} /\ UNCHANGED <<rNotify, rListening, rMissed>>
        /\ rVersion' = [rVersion EXCEPT ![t] = @ + 1]
    BY <1>5 DEF R!PublishFails
  <2>2. RealtimeType' BY <1>1, <2>1 DEF RealtimeType
  <2>3. ShapeKept' BY <1>1, <2>1 DEF ShapeKept
  <2>4. StaleAreTold' BY <1>1, <2>1 DEF StaleAreTold, Told, RealtimeType
  <2> QED BY <1>2, <2>2, <2>3, <2>4
<1> QED BY <1>4, <1>5

(* The listening connection is lost: what was on its way to it is missed. *)
LEMMA ListenBreaksStale ==
  ASSUME StaleInv, R!ListenBreaks
  PROVE  StaleInv'
<1> USE DEF StaleInv
<1>1. UNCHANGED <<rRing, rStream, rFrames, rLastId, rSeen>>
  BY DEF R!ListenBreaks, R!client
<1>2. DenseRing(rRing)' /\ FramesOrdered(rRing, rLastId, rFrames)' /\ FramesOwed(rRing, rLastId, rFrames)'
  BY <1>1
<1>3. /\ rListening /\ rListening' = FALSE /\ rMissed' = R!Range(rNotify) /\ rNotify' = <<>>
      /\ UNCHANGED <<rVersion, rExcused>>
  BY DEF R!ListenBreaks, R!client
<1>4. R!Range(rNotify) \subseteq Topics BY DEF R!Range, RealtimeType
<1>5. RealtimeType' BY <1>1, <1>3, <1>4, EmptySeq DEF RealtimeType
<1>6. ShapeKept' BY <1>1, <1>3 DEF ShapeKept
<1>7. rMissed = {} BY <1>3 DEF ShapeKept
<1>8. StaleAreTold' BY <1>1, <1>3, <1>7 DEF StaleAreTold, Told, RealtimeType
<1> QED BY <1>2, <1>5, <1>6, <1>8

(* The ring takes up a topic: nothing owed is forgotten. *)
LEMMA NotifiedStale ==
  ASSUME StaleInv, NEW kept \in R!Kept, R!Notified(kept)
  PROVE  StaleInv'
<1> DEFINE t == Head(rNotify)
           n == Len(rFrames)
<1>1. /\ RealtimeType /\ ShapeKept /\ DenseRing(rRing) /\ StaleAreTold
      /\ FramesOrdered(rRing, rLastId, rFrames) /\ FramesOwed(rRing, rLastId, rFrames)
  BY DEF StaleInv
<1>2. /\ rRing \in RingType /\ n \in Nat /\ DOMAIN rFrames = 1 .. n /\ rFrames \in Seq(FrameType)
      /\ \A i \in 0 .. n : Stand(rLastId, rFrames, i) \in Cursors
  BY <1>1, FrameParts DEF RealtimeType
<1>3. /\ t \in Topics /\ rNotify' = Tail(rNotify) /\ rNotify' \in Seq(Topics)
      /\ \A u : u \in R!Range(rNotify) => u = t \/ u \in R!Range(rNotify')
  BY <1>1, RangeOfTail, EmptySeq DEF R!Notified, RealtimeType
<1>4. kept \in 1 .. (Len(rRing.entries) + 1)
  BY <1>2, RealtimeBounds DEF R!Kept, RingType
<1> DEFINE g == Grown(rRing, t, kept)
<1>5. rRing' = g BY DEF R!Notified, R!Record, Grown
<1>6. g \in RingType /\ DenseRing(g) /\ g.last = rRing.last + 1 /\ g.id = rRing.id /\ g.gen = rRing.gen
  BY <1>1, <1>2, <1>3, <1>4, RingGrows
<1>7. \A i \in 0 .. n : /\ Remembers(g, Stand(rLastId, rFrames, i), t)
                        /\ Before(Stand(rLastId, rFrames, i), R!Cursor(g))
  BY <1>1, <1>2, <1>3, <1>4, GrownTells, AllBeforeRing
<1>8. \A i \in 0 .. n : \A u : Remembers(rRing, Stand(rLastId, rFrames, i), u)
                             => Remembers(g, Stand(rLastId, rFrames, i), u)
  BY <1>1, <1>2, <1>3, <1>4, GrownRemembers
<1>9. UNCHANGED <<rVersion, rListening, rMissed, rLastId, rSeen, rExcused>>
  BY DEF R!Notified
<1>10. R!Cursor(g) \in Cursors
  BY <1>6 DEF R!Cursor, RingType, Cursors
<1> HIDE DEF g, t
<1>11. \A u : Framed(rRing, rLastId, rFrames, u) => Framed(g, rLastId, rFrames, u)
  BY <1>2, <1>8 DEF Framed
<1>12. FramesOwed(g, rLastId, rFrames)
  BY <1>1, <1>2, <1>8 DEF FramesOwed
<1>13. CASE rStream # "open"
  <2>1. UNCHANGED <<rFrames, rStream>> BY <1>13 DEF R!Notified
  <2>2. RealtimeType' BY <1>1, <1>3, <1>5, <1>6, <1>9, <2>1 DEF RealtimeType, RingType
  <2>3. ShapeKept' BY <1>1, <1>9, <2>1, <1>13 DEF ShapeKept, R!Notified
  <2>4. n \in 0 .. n BY <1>2
  <2>5. FramesOrdered(g, rLastId, rFrames) BY <1>1, <1>7, <2>4 DEF FramesOrdered
  <2>6. StaleAreTold'
    <3> SUFFICES ASSUME NEW u \in Topics, rSeen[u] # rVersion[u], u \notin rExcused PROVE Told(u)'
      BY <1>9 DEF StaleAreTold
    <3>1. Told(u) BY <1>1 DEF StaleAreTold
    <3>2. Told(u)' <=> \/ u \in R!Range(rNotify') \/ u \in rMissed
                       \/ Framed(g, rLastId, rFrames, u)
                       \/ Remembers(g, Stand(rLastId, rFrames, n), u)
      BY <1>5, <1>9, <1>13, <2>1 DEF Told
    <3> QED BY <1>3, <1>7, <1>8, <1>11, <2>4, <3>1, <3>2 DEF Told
  <2> QED BY <1>5, <1>6, <1>9, <1>12, <2>1, <2>2, <2>3, <2>5, <2>6 DEF StaleInv
<1>14. ASSUME NEW f \in FrameType, f.cursor = R!Cursor(g), f.topic \in {t, R!NoTopic},
              rFrames' = Append(rFrames, f), rStream = "open", rStream' \in {"open", "ending"}
       PROVE  StaleInv'
  <2>1. /\ rFrames' \in Seq(FrameType) /\ Len(rFrames') = n + 1 /\ rFrames'[n + 1] = f
        /\ \A i \in 1 .. n : rFrames'[i] = rFrames[i]
    BY <1>2, <1>14
  <2>2. /\ Stand(rLastId, rFrames', n + 1) = R!Cursor(g)
        /\ \A i \in 0 .. n : Stand(rLastId, rFrames', i) = Stand(rLastId, rFrames, i)
    BY <1>2, <1>14, <2>1 DEF Stand
  <2>3. RealtimeType' BY <1>1, <1>3, <1>5, <1>6, <1>9, <1>14, <2>1 DEF RealtimeType, RingType
  <2>4. ShapeKept'
    <3>1. rFrames' # <<>> BY <1>2, <2>1
    <3> QED BY <1>1, <1>9, <1>14, <3>1 DEF ShapeKept, R!Notified
  <2>5. FramesOrdered(g, rLastId, rFrames')
    <3>1. Before(R!Cursor(g), R!Cursor(g)) BY <1>10 DEF Before, Cursors
    <3>2. ASSUME NEW i \in 0 .. (n + 1), NEW j \in 0 .. i
          PROVE  Before(Stand(rLastId, rFrames', j), Stand(rLastId, rFrames', i))
      <4>1. CASE i = n + 1
        <5>1. CASE j = n + 1 BY <2>2, <3>1, <4>1, <5>1
        <5>2. CASE j # n + 1
          <6>1. j \in 0 .. n BY <1>2, <4>1, <5>2
          <6> QED BY <1>7, <2>2, <4>1, <6>1
        <5> QED BY <5>1, <5>2
      <4>2. CASE i # n + 1
        <5>1. i \in 0 .. n /\ j \in 0 .. n BY <1>2, <4>2
        <5> QED BY <1>1, <2>2, <5>1 DEF FramesOrdered
      <4> QED BY <4>1, <4>2
    <3> QED BY <2>1, <2>2, <3>1, <3>2 DEF FramesOrdered
  <2>6. FramesOwed(g, rLastId, rFrames')
    <3> SUFFICES ASSUME NEW i \in 1 .. (n + 1), rFrames'[i].topic # R!NoTopic, NEW j \in 0 .. i - 1
                 PROVE  \/ Stand(rLastId, rFrames', j) = Stand(rLastId, rFrames', i)
                        \/ Remembers(g, Stand(rLastId, rFrames', j), rFrames'[i].topic)
      BY <2>1 DEF FramesOwed
    <3>1. CASE i = n + 1
      <4>1. j \in 0 .. n BY <1>2, <3>1
      <4> QED BY <1>7, <1>14, <2>1, <2>2, <3>1, <4>1
    <3>2. CASE i # n + 1
      <4>1. i \in 1 .. n /\ i \in 0 .. n /\ j \in 0 .. n BY <1>2, <3>2
      <4> QED BY <1>12, <2>1, <2>2, <4>1 DEF FramesOwed
    <3> QED BY <3>1, <3>2
  <2>7. Framed(g, rLastId, rFrames', t)
    <3>1. n + 1 \in 1 .. Len(rFrames') /\ \A j \in 0 .. (n + 1) - 1 : j \in 0 .. n
      BY <1>2, <2>1
    <3>2. \A j \in 0 .. (n + 1) - 1 : Remembers(g, Stand(rLastId, rFrames', j), t)
      BY <1>7, <2>2, <3>1
    <3> QED BY <1>14, <2>1, <3>1, <3>2 DEF Framed
  <2>8. ASSUME NEW u, Framed(rRing, rLastId, rFrames, u) PROVE Framed(g, rLastId, rFrames', u)
    <3>1. PICK i \in 1 .. n : \/ rFrames[i].topic = u
                              \/ /\ rFrames[i].topic = R!NoTopic
                                 /\ \A j \in 0 .. i - 1 : Remembers(g, Stand(rLastId, rFrames, j), u)
      BY <1>11, <2>8 DEF Framed
    <3>2. i \in 1 .. Len(rFrames') /\ \A j \in 0 .. i - 1 : j \in 0 .. n
      BY <1>2, <2>1
    <3> QED BY <2>1, <2>2, <3>1, <3>2 DEF Framed
  <2>9. StaleAreTold'
    <3> SUFFICES ASSUME NEW u \in Topics, rSeen[u] # rVersion[u], u \notin rExcused PROVE Told(u)'
      BY <1>9 DEF StaleAreTold
    <3>1. Told(u) BY <1>1 DEF StaleAreTold
    <3>2. u \in R!Range(rNotify') \/ u \in rMissed' \/ Framed(g, rLastId, rFrames', u)
      BY <1>3, <1>9, <1>14, <2>7, <2>8, <3>1 DEF Told
    <3> QED BY <1>5, <1>9, <3>2 DEF Told
  <2> QED BY <1>5, <1>6, <1>9, <2>3, <2>4, <2>5, <2>6, <2>9 DEF StaleInv
<1>15. CASE rStream = "open" /\ Len(rFrames) < MaxQueue
  <2> DEFINE f == R!Invalidate(t, R!Cursor(g))
  <2>1. rFrames' = Append(rFrames, f) /\ rStream' = rStream
    <3>1. ~(Len(rFrames) >= MaxQueue) BY <1>2, <1>15, RealtimeBounds
    <3> QED BY <1>5, <1>15, <3>1 DEF R!Notified, t
  <2>2. f \in FrameType /\ f.cursor = R!Cursor(g) /\ f.topic = t
    BY <1>3, <1>10 DEF R!Invalidate, FrameType
  <2> HIDE DEF f
  <2> QED BY <1>14, <1>15, <2>1, <2>2
<1>16. CASE rStream = "open" /\ Len(rFrames) >= MaxQueue
  <2> DEFINE f == R!Resync(R!Cursor(g))
  <2>1. rFrames' = Append(rFrames, f) /\ rStream' = "ending"
    <3>1. ~(Len(rFrames) < MaxQueue) BY <1>2, <1>16, RealtimeBounds
    <3> QED BY <1>5, <1>16, <3>1 DEF R!Notified, R!DropToResync, t
  <2>2. f \in FrameType /\ f.cursor = R!Cursor(g) /\ f.topic = R!NoTopic
    BY <1>10 DEF R!Resync, FrameType
  <2> HIDE DEF f
  <2> QED BY <1>14, <1>16, <2>1, <2>2
<1> QED BY <1>2, <1>13, <1>15, <1>16, RealtimeBounds

(* The ring starts anew: whoever stands in the old one gets a resync. *)
LEMMA RelistenStale ==
  ASSUME StaleInv, R!Relisten
  PROVE  StaleInv'
<1> DEFINE n == Len(rFrames)
           g == [id |-> rRing.id, gen |-> rRing.gen + 1, last |-> 0, entries |-> <<>>]
<1>1. /\ RealtimeType /\ ShapeKept /\ DenseRing(rRing) /\ StaleAreTold
      /\ FramesOrdered(rRing, rLastId, rFrames) /\ FramesOwed(rRing, rLastId, rFrames)
  BY DEF StaleInv
<1>2. /\ rRing \in RingType /\ n \in Nat
      /\ \A i \in 0 .. n : Stand(rLastId, rFrames, i) \in Cursors
  BY <1>1, FrameParts
<1>3. rRing' = g BY <1>2 DEF R!Relisten, R!NextGeneration, RingType
<1>4. /\ g \in RingType /\ g.id = rRing.id /\ g.gen > rRing.gen /\ g.last = 0 /\ Len(g.entries) = 0
  BY <1>2, EmptySeq DEF RingType
<1> HIDE DEF g
<1>5. /\ rListening' = TRUE /\ rMissed' = {}
      /\ UNCHANGED <<rVersion, rNotify, rStream, rFrames, rLastId, rSeen>>
      /\ rExcused' = IF rStream = "open" THEN rExcused \cup rMissed ELSE rExcused
  BY DEF R!Relisten
<1>6. \A i \in 0 .. n : Before(Stand(rLastId, rFrames, i), R!Cursor(g))
                        /\ \A u : Remembers(g, Stand(rLastId, rFrames, i), u)
  BY <1>1, <1>2, <1>4, AllBeforeRing, RenewedRemembers
<1>7. RealtimeType' BY <1>1, <1>3, <1>4, <1>5 DEF RealtimeType, RingType
<1>8. ShapeKept' BY <1>1, <1>5 DEF ShapeKept
<1>9. DenseRing(g) BY <1>4 DEF DenseRing
<1>10. n \in 0 .. n BY <1>2
<1>11. FramesOrdered(g, rLastId, rFrames) BY <1>1, <1>6, <1>10 DEF FramesOrdered
<1>12. FramesOwed(g, rLastId, rFrames)
  <2> SUFFICES ASSUME NEW i \in 1 .. n, NEW j \in 0 .. i - 1
               PROVE  Remembers(g, Stand(rLastId, rFrames, j), rFrames[i].topic)
    BY DEF FramesOwed
  <2>1. j \in 0 .. n BY <1>2
  <2> QED BY <1>6, <2>1
<1>13. StaleAreTold'
  <2> SUFFICES ASSUME NEW u \in Topics, rSeen[u] # rVersion[u], u \notin rExcused' PROVE Told(u)'
    BY <1>5 DEF StaleAreTold
  <2>1. Told(u) BY <1>1, <1>5 DEF StaleAreTold
  <2>2. CASE rStream # "open"
    BY <1>3, <1>5, <1>6, <1>10, <2>2 DEF Told
  <2>3. CASE rStream = "open"
    <3>1. u \in R!Range(rNotify) \/ Framed(rRing, rLastId, rFrames, u) BY <1>5, <2>1, <2>3 DEF Told
    <3>2. Framed(rRing, rLastId, rFrames, u) => Framed(g, rLastId, rFrames, u)
      <4>1. \A i \in 1 .. n : \A j \in 0 .. i - 1 : j \in 0 .. n BY <1>2
      <4> QED BY <1>6, <4>1 DEF Framed
    <3> QED BY <1>3, <1>5, <3>1, <3>2 DEF Told
  <2> QED BY <2>2, <2>3
<1> QED BY <1>3, <1>5, <1>7, <1>8, <1>9, <1>11, <1>12, <1>13 DEF StaleInv

(* Without frames nothing is promised by them. *)
LEMMA NoFrames ==
  ASSUME NEW r \in RingType, NEW from \in Cursors, Before(from, R!Cursor(r))
  PROVE  /\ FramesOrdered(r, from, <<>>) /\ FramesOwed(r, from, <<>>)
         /\ Stand(from, <<>>, Len(<<>>)) = from
<1>1. Len(<<>>) = 0 /\ Stand(from, <<>>, 0) = from BY EmptySeq DEF Stand
<1>2. Before(from, from) BY DEF Before, Cursors
<1> QED BY <1>1, <1>2 DEF FramesOrdered, FramesOwed

(* The instance starts again, with a ring that knows no old cursor. *)
LEMMA RestartStale ==
  ASSUME StaleInv, R!Restart
  PROVE  StaleInv'
<1> DEFINE g == [id |-> rRing.id + 1, gen |-> 0, last |-> 0, entries |-> <<>>]
<1>1. /\ RealtimeType /\ FramesOrdered(rRing, rLastId, rFrames)
  BY DEF StaleInv
<1>2. /\ rRing \in RingType /\ Len(rFrames) \in Nat /\ rLastId \in Cursors
  BY <1>1, FrameParts DEF RealtimeType
<1>3. rRing' = g BY DEF R!Restart
<1>4. /\ g \in RingType /\ g.id > rRing.id /\ g.last = 0 /\ Len(g.entries) = 0
  BY <1>2, EmptySeq DEF RingType
<1> HIDE DEF g
<1>5. /\ rListening' = TRUE /\ rMissed' = {} /\ rNotify' = <<>> /\ rStream' = "none" /\ rFrames' = <<>>
      /\ UNCHANGED <<rVersion, rLastId, rSeen, rExcused>>
  BY DEF R!Restart
<1>6. Before(rLastId, R!Cursor(rRing))
  <2>1. 0 \in 0 .. Len(rFrames) /\ Stand(rLastId, rFrames, 0) = rLastId BY <1>2 DEF Stand
  <2> QED BY <1>1, <2>1, AllBeforeRing
<1>7. Before(rLastId, R!Cursor(g)) /\ \A u : Remembers(g, rLastId, u)
  BY <1>2, <1>4, <1>6, RenewedRemembers
<1>8. RealtimeType' BY <1>1, <1>3, <1>4, <1>5, EmptySeq DEF RealtimeType, RingType
<1>9. ShapeKept' BY <1>5 DEF ShapeKept
<1>10. DenseRing(g) BY <1>4 DEF DenseRing
<1>11. /\ FramesOrdered(g, rLastId, <<>>) /\ FramesOwed(g, rLastId, <<>>)
       /\ Stand(rLastId, <<>>, Len(<<>>)) = rLastId
  BY <1>2, <1>4, <1>7, NoFrames
<1>12. \A u : Told(u)' BY <1>3, <1>5, <1>7, <1>11 DEF Told
<1> QED BY <1>3, <1>5, <1>8, <1>9, <1>10, <1>11, <1>12 DEF StaleInv, StaleAreTold

(* The stream breaks: what its frames would have told, the ring still can. *)
LEMMA BreaksStale ==
  ASSUME StaleInv, R!StreamBreaks
  PROVE  StaleInv'
<1> DEFINE n == Len(rFrames)
<1>1. /\ RealtimeType /\ ShapeKept /\ DenseRing(rRing) /\ StaleAreTold
      /\ FramesOrdered(rRing, rLastId, rFrames) /\ FramesOwed(rRing, rLastId, rFrames)
  BY DEF StaleInv
<1>2. /\ rRing \in RingType /\ n \in Nat /\ rLastId \in Cursors /\ DOMAIN rFrames = 1 .. n
      /\ \A i \in 1 .. n : rFrames[i] \in FrameType
      /\ \A i \in 0 .. n : Stand(rLastId, rFrames, i) \in Cursors
  BY <1>1, FrameParts DEF RealtimeType
<1>3. /\ rStream' = "none" /\ rFrames' = <<>>
      /\ rExcused' = rExcused \cup ({f.topic : f \in {g \in R!Range(rFrames) : R!Passed(g)}} \ {R!NoTopic})
      /\ UNCHANGED <<rVersion, rNotify, rListening, rRing, rMissed, rLastId, rSeen>>
  BY DEF R!StreamBreaks, R!server
<1>4. Stand(rLastId, rFrames, 0) = rLastId /\ 0 \in 0 .. n /\ n \in 0 .. n
  BY <1>2 DEF Stand
<1>5. Before(rLastId, R!Cursor(rRing)) BY <1>1, <1>4, AllBeforeRing
<1>6. R!Range(rFrames) = {rFrames[i] : i \in 1 .. n} BY <1>2 DEF R!Range
<1>7. RealtimeType'
  <2>1. rExcused' \subseteq Topics BY <1>1, <1>2, <1>3, <1>6 DEF RealtimeType, FrameType
  <2> QED BY <1>1, <1>3, <2>1, EmptySeq DEF RealtimeType
<1>8. ShapeKept' BY <1>1, <1>3 DEF ShapeKept
<1>9. /\ FramesOrdered(rRing, rLastId, <<>>) /\ FramesOwed(rRing, rLastId, <<>>)
      /\ Stand(rLastId, <<>>, Len(<<>>)) = rLastId
  BY <1>2, <1>5, NoFrames
<1>10. StaleAreTold'
  <2> SUFFICES ASSUME NEW u \in Topics, rSeen[u] # rVersion[u], u \notin rExcused' PROVE Told(u)'
    BY <1>3 DEF StaleAreTold
  <2>1. Told(u) BY <1>1, <1>3 DEF StaleAreTold
  <2>2. SUFFICES u \in R!Range(rNotify) \/ u \in rMissed \/ Remembers(rRing, rLastId, u)
    BY <1>3, <1>9 DEF Told
  <2>3. ASSUME NEW i \in 1 .. n, rFrames[i].topic = u
        PROVE  Remembers(rRing, rLastId, u)
    <3>1. u # R!NoTopic BY RealtimeBounds
    <3>2. 0 \in 0 .. i - 1 BY <1>2
    <3>3. rLastId = Stand(rLastId, rFrames, i) \/ Remembers(rRing, rLastId, u)
      BY <1>1, <1>4, <2>3, <3>1, <3>2 DEF FramesOwed
    <3>4. rLastId # Stand(rLastId, rFrames, i)
      <4> SUFFICES ASSUME rLastId = Stand(rLastId, rFrames, i) PROVE FALSE
        OBVIOUS
      <4>1. rFrames[i].cursor = rLastId BY <1>2 DEF Stand
      <4>2. R!Passed(rFrames[i]) BY <1>2, <4>1 DEF R!Passed, Cursors
      <4> QED BY <1>3, <1>6, <2>3, <3>1, <4>2
    <3> QED BY <3>3, <3>4
  <2>4. Framed(rRing, rLastId, rFrames, u) => Remembers(rRing, rLastId, u)
    <3>1. \A i \in 1 .. n : 0 \in 0 .. i - 1 BY <1>2
    <3> QED BY <1>4, <2>3, <3>1 DEF Framed
  <2>5. Remembers(rRing, Stand(rLastId, rFrames, n), u) => Remembers(rRing, rLastId, u)
    <3>1. /\ Before(rLastId, Stand(rLastId, rFrames, n))
          /\ Before(Stand(rLastId, rFrames, n), R!Cursor(rRing))
      BY <1>1, <1>4 DEF FramesOrdered
    <3> QED BY <1>1, <1>2, <1>4, <3>1, EarlierRemembers
  <2> QED BY <2>1, <2>4, <2>5 DEF Told
<1> QED BY <1>1, <1>3, <1>7, <1>8, <1>9, <1>10 DEF StaleInv

(* The last frame was read. *)
LEMMA TeardownStale ==
  ASSUME StaleInv, R!Teardown
  PROVE  StaleInv'
<1>1. /\ RealtimeType /\ ShapeKept /\ DenseRing(rRing) /\ StaleAreTold
      /\ FramesOrdered(rRing, rLastId, rFrames) /\ FramesOwed(rRing, rLastId, rFrames)
  BY DEF StaleInv
<1>2. /\ rStream = "open" /\ rStream' = IF rFrames = <<>> THEN "none" ELSE "ending"
      /\ UNCHANGED <<rVersion, rNotify, rListening, rRing, rMissed, rFrames, rLastId, rSeen, rExcused>>
  BY DEF R!Teardown, R!server
<1>3. RealtimeType' BY <1>1, <1>2 DEF RealtimeType
<1>4. ShapeKept' BY <1>1, <1>2 DEF ShapeKept
<1>5. StaleAreTold' BY <1>1, <1>2 DEF StaleAreTold, Told
<1> QED BY <1>1, <1>2, <1>3, <1>4, <1>5 DEF StaleInv

(* The client connects: reconcile() frames what it has to be told. *)
LEMMA OpensStale ==
  ASSUME StaleInv, R!Opens
  PROVE  StaleInv'
<1> DEFINE todo == IF rLastId = R!Unset THEN <<>> ELSE R!SetToSeq(R!Reconcile(rLastId))
           m == Len(todo)
<1>1. /\ RealtimeType /\ ShapeKept /\ DenseRing(rRing) /\ StaleAreTold
      /\ FramesOrdered(rRing, rLastId, rFrames)
  BY DEF StaleInv
<1>2. /\ rRing \in RingType /\ rLastId \in Cursors /\ R!Cursor(rRing) \in Cursors /\ rRing.id # 0
  BY <1>1, FrameParts DEF RealtimeType, RingType, R!Cursor, Cursors
<1>3. rStream = "none" /\ rFrames = <<>> /\ rStream' = "open"
  BY <1>1 DEF R!Opens, ShapeKept
<1>4. /\ rFrames' = [i \in DOMAIN todo |-> [topic |-> todo[i], cursor |-> R!Cursor(rRing)]]
      /\ rExcused' = IF rLastId = R!Unset THEN rExcused \cup (R!Stale \ (R!Range(rNotify) \cup rMissed)) ELSE rExcused
      /\ UNCHANGED <<rVersion, rNotify, rListening, rRing, rMissed, rLastId, rSeen>>
  BY DEF R!Opens, R!server
<1>5. Before(rLastId, R!Cursor(rRing)) /\ Stand(rLastId, rFrames, Len(rFrames)) = rLastId
  BY <1>1, <1>3, EmptySeq DEF FramesOrdered, Stand
<1>6. IsFiniteSet(R!Reconcile(rLastId))
  <2>1. R!Reconcile(rLastId) = {R!NoTopic} \/ R!Reconcile(rLastId) = R!NewerThan(rLastId)
    BY <1>1, <1>2, ReconcileTells
  <2>2. IsFiniteSet({R!NoTopic})
    BY FS_Singleton
  <2>3. IsFiniteSet(R!NewerThan(rLastId))
    BY <1>2, ReconcileFinite
  <2>q. QED
    BY <2>1, <2>2, <2>3
<1>7. /\ m \in Nat /\ DOMAIN todo = 1 .. m
      /\ \A i \in 1 .. m : rLastId # R!Unset /\ todo[i] \in R!Reconcile(rLastId)
  <2>1. CASE rLastId = R!Unset BY <2>1, EmptySeq
  <2>2. CASE rLastId # R!Unset
    <3> DEFINE S == R!Reconcile(rLastId)
    <3>1. todo = R!SetToSeq(S) BY <2>2
    <3> HIDE DEF S, todo
    <3>2. todo \in Seq(S) BY <1>6, <3>1, SetToSeqLists DEF S
    <3> QED BY <2>2, <3>2 DEF S
  <2> QED BY <2>1, <2>2
<1>8. \A u \in R!Reconcile(rLastId) : rLastId # R!Unset => \E i \in 1 .. m : todo[i] = u
  BY <1>6, <1>7, SetToSeqLists
<1>9. \A u \in R!Reconcile(rLastId) : u \in Topics \cup {R!NoTopic}
  BY <1>1, <1>2, ReconcileTells
<1>10. R!NoTopic \in R!Reconcile(rLastId) /\ rLastId # R!Unset => m = 1
  <2> SUFFICES ASSUME R!NoTopic \in R!Reconcile(rLastId), rLastId # R!Unset PROVE m = 1
    OBVIOUS
  <2>1. R!Reconcile(rLastId) = {R!NoTopic} BY <1>1, <1>2, ReconcileTells
  <2> QED BY <1>6, <2>1, SetToSeqLists
<1> HIDE DEF todo, m
<1>11. /\ rFrames' \in Seq(FrameType) /\ Len(rFrames') = m
       /\ \A i \in 1 .. m : rFrames'[i].topic = todo[i] /\ rFrames'[i].cursor = R!Cursor(rRing)
  <2>1. \A i \in 1 .. m : [topic |-> todo[i], cursor |-> R!Cursor(rRing)] \in FrameType
    BY <1>2, <1>7, <1>9 DEF FrameType
  <2>2. rFrames' \in [1 .. m -> FrameType]
    BY <1>4, <1>7, <2>1
  <2>3. rFrames' \in Seq(FrameType) /\ Len(rFrames') = m
    BY <1>7, <2>2
  <2> QED BY <1>4, <1>7, <2>3
<1>12. /\ Stand(rLastId, rFrames', 0) = rLastId
       /\ \A i \in 1 .. m : Stand(rLastId, rFrames', i) = R!Cursor(rRing)
  BY <1>7, <1>11 DEF Stand
<1>13. RealtimeType'
  <2>1. rExcused' \subseteq Topics BY <1>1, <1>4 DEF RealtimeType, R!Stale
  <2> QED BY <1>1, <1>3, <1>4, <1>11, <2>1 DEF RealtimeType
<1>14. ShapeKept' BY <1>1, <1>3, <1>4 DEF ShapeKept
<1>15. Before(rLastId, rLastId) /\ Before(R!Cursor(rRing), R!Cursor(rRing))
  BY <1>2 DEF Before, Cursors
<1>16. FramesOrdered(rRing, rLastId, rFrames')
  <2>1. ASSUME NEW i \in 0 .. m, NEW j \in 0 .. i
        PROVE  Before(Stand(rLastId, rFrames', j), Stand(rLastId, rFrames', i))
    <3>1. CASE i = 0 BY <1>12, <1>15, <3>1
    <3>2. CASE i # 0 /\ j = 0 BY <1>5, <1>7, <1>12, <3>2
    <3>3. CASE j # 0
      <4>1. i \in 1 .. m /\ j \in 1 .. m BY <1>7, <3>3
      <4> QED BY <1>12, <1>15, <4>1
    <3> QED BY <3>1, <3>2, <3>3
  <2>2. Stand(rLastId, rFrames', m) \in {rLastId, R!Cursor(rRing)}
    BY <1>7, <1>12
  <2> QED BY <1>5, <1>11, <1>15, <2>1, <2>2 DEF FramesOrdered
<1>17. FramesOwed(rRing, rLastId, rFrames')
  <2> SUFFICES ASSUME NEW i \in 1 .. m, rFrames'[i].topic # R!NoTopic, NEW j \in 0 .. i - 1
               PROVE  \/ Stand(rLastId, rFrames', j) = Stand(rLastId, rFrames', i)
                      \/ Remembers(rRing, Stand(rLastId, rFrames', j), rFrames'[i].topic)
    BY <1>11 DEF FramesOwed
  <2>1. CASE j = 0
    <3>1. Remembers(rRing, rLastId, todo[i])
      BY <1>1, <1>2, <1>7, <1>11, ReconcileTells
    <3> QED BY <1>11, <1>12, <2>1, <3>1
  <2>2. CASE j # 0
    <3>1. j \in 1 .. m BY <1>7, <2>2
    <3> QED BY <1>12, <3>1
  <2> QED BY <2>1, <2>2
<1>18. StaleAreTold'
  <2> SUFFICES ASSUME NEW u \in Topics, rSeen[u] # rVersion[u], u \notin rExcused' PROVE Told(u)'
    BY <1>4 DEF StaleAreTold
  <2>1. Told(u) BY <1>1, <1>4 DEF StaleAreTold
  <2>2. CASE u \in R!Range(rNotify) \/ u \in rMissed
    BY <1>4, <2>2 DEF Told
  <2>3. CASE ~(u \in R!Range(rNotify) \/ u \in rMissed)
    <3>1. rLastId # R!Unset BY <1>4, <2>3 DEF R!Stale
    <3>2. ~Framed(rRing, rLastId, rFrames, u) BY <1>3, EmptySeq DEF Framed
    <3>3. Remembers(rRing, rLastId, u) BY <1>5, <2>1, <2>3, <3>2 DEF Told
    <3>4. R!NoTopic \in R!Reconcile(rLastId) \/ u \in R!Reconcile(rLastId)
      BY <1>1, <1>2, <3>3, ReconcileTells
    <3>5. Framed(rRing, rLastId, rFrames', u)
      <4>1. CASE u \in R!Reconcile(rLastId)
        BY <1>8, <1>11, <3>1, <4>1 DEF Framed
      <4>2. CASE R!NoTopic \in R!Reconcile(rLastId)
        <5>1. m = 1 BY <1>10, <3>1, <4>2
        <5>2. todo[1] = R!NoTopic BY <1>8, <3>1, <4>2, <5>1
        <5>3. \A j \in 0 .. 1 - 1 : Remembers(rRing, Stand(rLastId, rFrames', j), u)
          BY <1>12, <3>3
        <5>4. 1 \in 1 .. Len(rFrames') /\ rFrames'[1].topic = R!NoTopic BY <1>11, <5>1, <5>2
        <5> QED BY <5>3, <5>4 DEF Framed
      <4> QED BY <3>4, <4>1, <4>2
    <3> QED BY <1>4, <3>5 DEF Told
  <2> QED BY <2>2, <2>3
<1> QED BY <1>1, <1>4, <1>13, <1>14, <1>16, <1>17, <1>18 DEF StaleInv

(* A frame is read: the topic is fetched, and the client stands one further. *)
LEMMA ReceivesStale ==
  ASSUME StaleInv, R!Receives
  PROVE  StaleInv'
<1> DEFINE n == Len(rFrames)
           f == Head(rFrames)
           told == IF f.topic = R!NoTopic THEN Topics ELSE {f.topic}
<1>1. /\ RealtimeType /\ ShapeKept /\ DenseRing(rRing) /\ StaleAreTold
      /\ FramesOrdered(rRing, rLastId, rFrames) /\ FramesOwed(rRing, rLastId, rFrames)
  BY DEF StaleInv
<1>2. /\ rFrames \in Seq(FrameType) /\ rFrames # <<>> /\ rFrames' = Tail(rFrames)
      /\ rLastId' = f.cursor
      /\ rStream' = IF rStream = "ending" /\ Len(rFrames) = 1 THEN "none" ELSE rStream
      /\ rSeen' = [t \in Topics |-> IF t \in told THEN rVersion[t] ELSE rSeen[t]]
      /\ rExcused' = rExcused \ told
      /\ UNCHANGED <<rVersion, rNotify, rListening, rRing, rMissed>>
  BY <1>1 DEF R!Receives, R!server, RealtimeType
<1>3. /\ n \in Nat \ {0} /\ f = rFrames[1] /\ f \in FrameType
      /\ rFrames' \in Seq(FrameType) /\ Len(rFrames') = n - 1
      /\ \A i \in 1 .. n - 1 : rFrames'[i] = rFrames[i + 1]
  BY <1>2, EmptySeq
<1> HIDE DEF f
<1>4. f.cursor \in Cursors BY <1>3 DEF FrameType
<1>5. \A i \in 0 .. n - 1 : Stand(rLastId', rFrames', i) = Stand(rLastId, rFrames, i + 1)
  BY <1>2, <1>3 DEF Stand
<1>6. RealtimeType'
  <2>1. rSeen' \in [Topics -> Nat] BY <1>1, <1>2 DEF RealtimeType
  <2>2. rStream' \in {"none", "open", "ending"} BY <1>1, <1>2 DEF RealtimeType
  <2> HIDE DEF told
  <2> QED BY <1>1, <1>2, <1>3, <1>4, <2>1, <2>2 DEF RealtimeType
<1>7. ShapeKept'
  <2>1. n - 1 = 0 <=> rFrames' = <<>> BY <1>3, EmptySeq
  <2>2. rStream # "none" BY <1>1, <1>2 DEF ShapeKept
  <2> QED BY <1>1, <1>2, <1>3, <2>1, <2>2 DEF ShapeKept
<1>8. FramesOrdered(rRing, rLastId', rFrames')
  <2>1. ASSUME NEW i \in 0 .. n - 1, NEW j \in 0 .. i
        PROVE  Before(Stand(rLastId', rFrames', j), Stand(rLastId', rFrames', i))
    <3>1. i + 1 \in 0 .. n /\ j + 1 \in 0 .. (i + 1) /\ j \in 0 .. n - 1 BY <1>3
    <3>2. Before(Stand(rLastId, rFrames, j + 1), Stand(rLastId, rFrames, i + 1))
      BY <1>1, <3>1 DEF FramesOrdered
    <3> QED BY <1>5, <3>1, <3>2
  <2>2. Stand(rLastId', rFrames', n - 1) = Stand(rLastId, rFrames, n)
    <3>1. n - 1 \in 0 .. n - 1 /\ (n - 1) + 1 = n BY <1>3
    <3> QED BY <1>5, <3>1
  <2> QED BY <1>1, <1>3, <2>1, <2>2 DEF FramesOrdered
<1>9. FramesOwed(rRing, rLastId', rFrames')
  <2> SUFFICES ASSUME NEW i \in 1 .. n - 1, rFrames'[i].topic # R!NoTopic, NEW j \in 0 .. i - 1
               PROVE  \/ Stand(rLastId', rFrames', j) = Stand(rLastId', rFrames', i)
                      \/ Remembers(rRing, Stand(rLastId', rFrames', j), rFrames'[i].topic)
    BY <1>3 DEF FramesOwed
  <2>1. i + 1 \in 1 .. n /\ j + 1 \in 0 .. (i + 1) - 1 /\ i \in 0 .. n - 1 /\ j \in 0 .. n - 1
    BY <1>3
  <2>2. rFrames'[i] = rFrames[i + 1] BY <1>3
  <2>3. \/ Stand(rLastId, rFrames, j + 1) = Stand(rLastId, rFrames, i + 1)
        \/ Remembers(rRing, Stand(rLastId, rFrames, j + 1), rFrames[i + 1].topic)
    BY <1>1, <2>1, <2>2 DEF FramesOwed
  <2> QED BY <1>5, <2>1, <2>2, <2>3
<1>10. StaleAreTold'
  <2> SUFFICES ASSUME NEW u \in Topics, rSeen'[u] # rVersion[u], u \notin rExcused' PROVE Told(u)'
    BY <1>2 DEF StaleAreTold
  <2>1. u \notin told /\ f.topic # R!NoTopic /\ f.topic # u /\ rSeen[u] # rVersion[u] /\ u \notin rExcused
    BY <1>2
  <2>2. Told(u) BY <1>1, <2>1 DEF StaleAreTold
  <2>3. Framed(rRing, rLastId, rFrames, u) => Framed(rRing, rLastId', rFrames', u)
    <3> SUFFICES ASSUME NEW i \in 1 .. n,
                        \/ rFrames[i].topic = u
                        \/ /\ rFrames[i].topic = R!NoTopic
                           /\ \A j \in 0 .. i - 1 : Remembers(rRing, Stand(rLastId, rFrames, j), u)
                 PROVE  Framed(rRing, rLastId', rFrames', u)
      BY DEF Framed
    <3>1. i # 1 BY <1>3, <2>1
    <3> DEFINE k == i - 1
    <3>2. k \in 1 .. n - 1 /\ k + 1 = i BY <1>3, <3>1
    <3>3. \A j \in 0 .. k - 1 : j \in 0 .. n - 1 /\ j + 1 \in 0 .. i - 1 BY <1>3, <3>2
    <3> HIDE DEF k
    <3>4. rFrames'[k] = rFrames[i] /\ k \in 1 .. Len(rFrames') BY <1>3, <3>2
    <3>5. (\A j \in 0 .. i - 1 : Remembers(rRing, Stand(rLastId, rFrames, j), u))
          => \A j \in 0 .. k - 1 : Remembers(rRing, Stand(rLastId', rFrames', j), u)
      BY <1>5, <3>3
    <3> QED BY <3>4, <3>5 DEF Framed
  <2>4. CASE rStream # "open" /\ Remembers(rRing, Stand(rLastId, rFrames, n), u)
    <3>1. Stand(rLastId', rFrames', n - 1) = Stand(rLastId, rFrames, n)
      <4>1. n - 1 \in 0 .. n - 1 /\ (n - 1) + 1 = n BY <1>3
      <4> QED BY <1>5, <4>1
    <3>2. rStream' # "open" BY <1>2, <2>4
    <3> QED BY <1>2, <1>3, <2>4, <3>1, <3>2 DEF Told
  <2> QED BY <1>2, <2>2, <2>3, <2>4 DEF Told
<1> QED BY <1>1, <1>2, <1>6, <1>7, <1>8, <1>9, <1>10 DEF StaleInv

(* Every step keeps the invariant. *)
LEMMA StaleStep == StaleInv /\ [R!Next]_(R!vars) => StaleInv'
<1> SUFFICES ASSUME StaleInv, [R!Next]_(R!vars) PROVE StaleInv'
  OBVIOUS
<1>1. CASE UNCHANGED R!vars
  BY <1>1 DEF R!vars, R!server, R!client, StaleInv, RealtimeType, ShapeKept, StaleAreTold, Told
<1> QED
  BY <1>1, WriteStale, ListenBreaksStale, NotifiedStale, RelistenStale, RestartStale, OpensStale,
     ReceivesStale,
     TeardownStale, BreaksStale DEF R!Next

(* The invariant gives the property the runs check. *)
LEMMA StaleImplied == StaleInv => R!NeverSilentlyStale
<1> SUFFICES ASSUME StaleInv, R!Quiet, NEW t \in R!Stale PROVE t \in rExcused
  BY DEF R!NeverSilentlyStale
<1>1. ~Framed(rRing, rLastId, rFrames, t) BY EmptySeq DEF R!Quiet, Framed
<1>2. R!Range(rNotify) = {} BY DEF R!Quiet, R!Range
<1> QED BY <1>1, <1>2 DEF R!Stale, R!Quiet, StaleInv, ShapeKept, StaleAreTold, Told

(* A client whose stream is open and read shows the newest data of every      *)
(* topic, the excused cases apart: what it does not show yet is announced,    *)
(* framed, or still in the ring behind its cursor (replay-ring.ts,            *)
(* connection.ts, http-handlers.ts).                                          *)
THEOREM ClientsAreTold == R!Spec => []NeverSilentlyStale
<1>1. R!Init => StaleInv
  BY StaleInit, RealtimeConstants
<1>2. StaleInv /\ [R!Next]_(R!vars) => StaleInv'
  BY StaleStep, RealtimeConstants
<1>3. StaleInv => NeverSilentlyStale
  BY StaleImplied DEF NeverSilentlyStale
<1>q. QED
  BY <1>1, <1>2, <1>3, PTL DEF R!Spec
=============================================================================
