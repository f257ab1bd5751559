---------------------------- MODULE OutboxProofs ----------------------------
(***************************************************************************)
(* The outbox of MCFleet, for any number of rows and of writes: what is    *)
(* durable is truthful and the client's intent prevails.  One inductive    *)
(* invariant carries both: the slice (memory, chain and disk say what the  *)
(* log says up to their cursor), the writes (the chain logs and settles in *)
(* order) and the order of what the server last heard.                     *)
(***************************************************************************)
EXTENDS MCFleet, SequenceTheorems, FiniteSetTheorems, WellFoundedInduction, TLAPS

Fates == {"", "applied", "refused"}
Entry == [id : O!Writes, held : BOOLEAN]
LogEntry == [key : Rows, id : Nat, gone : BOOLEAN]
FlightValues == [id : O!Writes \cup {0}, st : {"", "sent", "applied", "refused"}]
RowValues == [Rows -> Nat]
CursorValues == Nat \cup {O!NoCursor}
ChainWrite ==
  [op : {"slice"}, rows : RowValues, cursor : CursorValues]
    \cup [op : {"row"}, key : Rows, val : Nat, cursor : CursorValues]
    \cup [op : {"append", "markHeld", "remove"}, id : O!Writes]

OutboxType ==
  /\ oLog \in Seq(LogEntry) /\ oFate \in [O!Writes -> Fates]
  /\ oTarget \in Seq(Rows \cup {Outside}) /\ Len(oTarget) \in 0 .. MaxWrites
  /\ oFlight \in FlightValues
  /\ oQueue \in Seq(O!Writes) /\ oOverlay \in Seq(Entry) /\ oHeldIds \subseteq O!Writes
  /\ oRows \in RowValues /\ oCursor \in CursorValues /\ oOpen \in BOOLEAN /\ oPos \in Nat
  /\ oChain \in Seq(ChainWrite)
  /\ oFrozen \in BOOLEAN /\ oDurRows \in RowValues /\ oDurCursor \in CursorValues
  /\ oDurLog \in Seq(Entry) /\ oLogged \subseteq O!Writes /\ oTorn \subseteq O!Writes

(* The flight is the front of the queue, and the server's answer its fate. *)
FlightAtHead ==
  \/ oFlight = O!Idle
  \/ /\ oQueue # <<>> /\ oFlight.id = oQueue[1]
     /\ oFlight.st \in {"sent", "applied", "refused"}
     /\ oFlight.st # "sent" => oFate[oFlight.id] = oFlight.st

-----------------------------------------------------------------------------
(* The rows of a cursor, in memory, on disk, and on the way to it. *)

Member(S) == CHOOSE x \in S : TRUE
LastWrites(lg, n, k) == {i \in 1 .. n : lg[i].key = k /\ \A j \in i + 1 .. n : lg[j].key # k}

(* RowsAt, with the log as an argument. *)
RowsOf(lg, n) ==
  [k \in Rows |-> IF \A i \in LastWrites(lg, n, k) : lg[i].gone
                  THEN 0 ELSE Member(LastWrites(lg, n, k))]

Truthful(lg, rs, cur) == cur # O!NoCursor => cur <= Len(lg) /\ rs = RowsOf(lg, cur)

(* The stream is at the cursor, or one change before it. *)
StreamAtCursor ==
  /\ Truthful(oLog, oRows, oCursor)
  /\ oOpen => oCursor # O!NoCursor /\ (oPos = oCursor \/ oPos + 1 = oCursor)

(* A durable write of the slice says what the log says. *)
WriteSound(lg, w) ==
  /\ w.op = "slice" => Truthful(lg, w.rows, w.cursor)
  /\ w.op = "row" => /\ w.cursor \in 1 .. Len(lg) /\ w.key = lg[w.cursor].key
                     /\ w.val = IF lg[w.cursor].gone THEN 0 ELSE w.cursor

ChainSound == \A i \in DOMAIN oChain : WriteSound(oLog, oChain[i])

(* The cursor the j-th durable write of the chain finds, unless one before it *)
(* fails.                                                                     *)
Finds(ch, fr, dc, j, c) ==
  \/ /\ ~fr /\ c = dc /\ \A h \in 1 .. j - 1 : ~O!OfSlice(ch[h])
  \/ \E i \in 1 .. j - 1 : /\ O!OfSlice(ch[i]) /\ c = ch[i].cursor
                           /\ \A h \in i + 1 .. j - 1 : ~O!OfSlice(ch[h])

(* An incremental write finds the rows as of the change before it, or as of   *)
(* its own; the last of them leaves the rows of the memory.                   *)
ChainLinked ==
  /\ \A j \in DOMAIN oChain : oChain[j].op = "row" =>
       \A c : Finds(oChain, oFrozen, oDurCursor, j, c)
              => c = oChain[j].cursor \/ c + 1 = oChain[j].cursor
  /\ \A c : Finds(oChain, oFrozen, oDurCursor, Len(oChain) + 1, c) => c = oCursor

SliceInv == StreamAtCursor /\ Truthful(oLog, oDurRows, oDurCursor) /\ ChainSound /\ ChainLinked

-----------------------------------------------------------------------------
(* The writes *)

Increasing(q) == \A i, j \in DOMAIN q : i < j => q[i] < q[j]
InQueue(w) == \E i \in DOMAIN oQueue : oQueue[i] = w

(* In the durable log, and not held. *)
Waiting(w) == \E i \in DOMAIN oDurLog : oDurLog[i].id = w /\ ~oDurLog[i].held

Settles(c, w) == c.op \in {"markHeld", "remove"} /\ c.id = w
Logs(c, w) == c.op = "append" /\ c.id = w
Appending(w) == \E i \in DOMAIN oChain : Logs(oChain[i], w)
Settling(w) == \E i \in DOMAIN oChain : Settles(oChain[i], w)
Known(w) == w \in oLogged \/ Appending(w)

(* Nothing is known of a write before it is submitted. *)
Submitted ==
  /\ \A w \in O!Writes : \/ InQueue(w) \/ w \in oHeldIds \/ w \in O!Ids(oOverlay)
                         \/ Known(w) \/ Settling(w)
                         => w <= Len(oTarget)
  /\ \A i \in DOMAIN oLog : oLog[i].id <= Len(oTarget)

(* What is held, or is being settled, has its answer, and is not in the queue. *)
HeldAnswered ==
  /\ \A w \in O!Writes :
       \/ w \in oHeldIds \/ Settling(w)
       \/ \E i \in DOMAIN oOverlay : oOverlay[i].id = w /\ oOverlay[i].held
       => oFate[w] # "" /\ ~InQueue(w)
  /\ \A i \in DOMAIN oDurLog : oDurLog[i].held => oFate[oDurLog[i].id] # ""

(* The chain logs the writes in order, and each before it settles it. *)
ChainOrdered ==
  /\ \A a, b \in O!Writes : \A i, j \in DOMAIN oChain :
       /\ Logs(oChain[i], a) /\ Logs(oChain[j], b) /\ i < j => a < b
       /\ Logs(oChain[i], a) /\ Settles(oChain[j], a) => i < j
  /\ \A a, b \in O!Writes : a \in oLogged /\ Appending(b) => a < b
  /\ O!Ids(oDurLog) \subseteq oLogged
  /\ \A i, j \in DOMAIN oDurLog : i < j => oDurLog[i].id < oDurLog[j].id

(* What is in the log or on its way to it, unless its settling failed. *)
Standing(a) == a \notin oTorn /\ (Waiting(a) \/ Appending(a))

(* A write is settled on disk after every older one. *)
SettledInOrder ==
  /\ \A a, b \in O!Writes : \A j \in DOMAIN oChain :
       a < b /\ Standing(a) /\ Known(b) /\ Settles(oChain[j], b)
       => \E i \in 1 .. j - 1 : Settles(oChain[i], a)
  /\ \A a, b \in O!Writes : a < b /\ a \notin oTorn /\ b \in oLogged /\ Waiting(a) => Waiting(b)

(* The queue and the durable log agree. *)
QueueLogged ==
  /\ Increasing(oQueue)
  /\ \A a \in O!Writes : Standing(a) => InQueue(a) \/ Settling(a)
  /\ \A b \in O!Writes : InQueue(b) /\ b \in oLogged => Waiting(b)

(* The queue is answered in order. *)
QueueInOrder ==
  \A a, b \in O!Writes : a < b /\ a \notin oTorn /\ InQueue(a) /\ Known(b) => InQueue(b)

(* The change of the flight is the last of this client. *)
FlightIsLast ==
  oFlight.st = "applied" /\ oTarget[oFlight.id] # Outside =>
    \E m \in DOMAIN oLog : /\ oLog[m].id = oFlight.id
                           /\ \A n \in m + 1 .. Len(oLog) : oLog[n].id = 0

Overtaken(a, b) ==
  \E m \in DOMAIN oLog : oLog[m].id = a /\ \A n \in DOMAIN oLog : oLog[n].id = b => n < m

NewestLast ==
  \A a, b \in 1 .. Len(oTarget) :
    /\ a < b /\ oTarget[a] = oTarget[b] /\ a \notin oTorn /\ Known(b) /\ oFate[b] = "applied"
    /\ oTarget[a] # Outside
    /\ Overtaken(a, b)
    => InQueue(b)

WriteInv ==
  /\ FlightAtHead /\ Submitted /\ HeldAnswered /\ ChainOrdered /\ SettledInOrder
  /\ QueueLogged /\ QueueInOrder /\ O!NoWriteLost /\ O!PendingShown

(* A change of this client is of a write to a row of the shape. *)
ChangesInside ==
  \A i \in DOMAIN oLog : oLog[i].id # 0 => oLog[i].id \in 1 .. Len(oTarget) /\ oTarget[oLog[i].id] # Outside

OrderInv == FlightIsLast /\ ChangesInside /\ NewestLast

OutboxInv == OutboxType /\ SliceInv /\ WriteInv /\ OrderInv

-----------------------------------------------------------------------------
(* The operators of the model *)

(* Counting, seen from the instance. *)
LEMMA OutboxCounts == \A S : O!Cardinality(S) = Cardinality(S)
  BY DEF O!Cardinality, Cardinality

(* RowsAt() reads the log it is evaluated with. *)
LEMMA RowsAtIsRowsOf == \A n : O!RowsAt(n) = RowsOf(oLog, n)
BY DEF O!RowsAt, RowsOf, LastWrites, Member

(* A change later in the log leaves the rows of a cursor alone. *)
LEMMA RowsStable ==
  ASSUME NEW lg, NEW lh, NEW n \in Nat, \A i \in 1 .. n : lh[i] = lg[i]
  PROVE  RowsOf(lh, n) = RowsOf(lg, n)
<1>1. ASSUME NEW k \in Rows PROVE LastWrites(lh, n, k) = LastWrites(lg, n, k)
  <2>1. \A i \in 1 .. n : \A j \in i + 1 .. n : j \in 1 .. n OBVIOUS
  <2> QED BY <2>1 DEF LastWrites
<1>2. ASSUME NEW k \in Rows
      PROVE  (\A i \in LastWrites(lh, n, k) : lh[i].gone) <=> (\A i \in LastWrites(lg, n, k) : lg[i].gone)
  <2>1. LastWrites(lg, n, k) \subseteq 1 .. n BY DEF LastWrites
  <2> QED BY <1>1, <2>1
<1> QED BY <1>1, <1>2 DEF RowsOf

(* The next change makes its row, and applied again leaves it so. *)
LEMMA RowsNext ==
  ASSUME NEW lg \in Seq(LogEntry), NEW n \in Nat, NEW m \in 1 .. Len(lg), m = n + 1
  PROVE  LET v == IF lg[m].gone THEN 0 ELSE m
         IN /\ [RowsOf(lg, n) EXCEPT ![lg[m].key] = v] = RowsOf(lg, m)
            /\ [RowsOf(lg, m) EXCEPT ![lg[m].key] = v] = RowsOf(lg, m)
            /\ v \in Nat /\ lg[m].key \in Rows
<1> DEFINE v == IF lg[m].gone THEN 0 ELSE m
           x == lg[m].key
<1>0. lg[m] \in LogEntry /\ m \in Nat OBVIOUS
<1>1. lg[m] \in LogEntry /\ x \in Rows /\ m \in Nat /\ v \in Nat BY <1>0 DEF LogEntry
<1>2. LastWrites(lg, m, x) = {m}
  <2>1. ASSUME NEW i \in LastWrites(lg, m, x) PROVE i = m
    <3>1. i \in 1 .. m /\ \A j \in i + 1 .. m : lg[j].key # x BY DEF LastWrites
    <3>2. i # m => m \in i + 1 .. m BY <1>1, <3>1
    <3> QED BY <3>1, <3>2
  <2>2. m \in LastWrites(lg, m, x) BY <1>1 DEF LastWrites
  <2> QED BY <2>1, <2>2
<1>3. ASSUME NEW k \in Rows, k # x PROVE LastWrites(lg, m, k) = LastWrites(lg, n, k)
  <2>1. 1 .. m = (1 .. n) \cup {m} BY <1>1
  <2>2. \A i \in 1 .. n : i + 1 .. m = (i + 1 .. n) \cup {m} BY <1>1
  <2> QED BY <1>1, <1>3, <2>1, <2>2 DEF LastWrites
<1>4. Member({m}) = m BY DEF Member
<1>5. RowsOf(lg, m)[x] = v BY <1>1, <1>2, <1>4 DEF RowsOf
<1>6. \A k \in Rows : k # x => RowsOf(lg, m)[k] = RowsOf(lg, n)[k] BY <1>3 DEF RowsOf
<1>7. /\ RowsOf(lg, n) = [k \in Rows |-> RowsOf(lg, n)[k]]
      /\ RowsOf(lg, m) = [k \in Rows |-> RowsOf(lg, m)[k]] BY DEF RowsOf
<1> HIDE DEF v, x
<1>8. [RowsOf(lg, n) EXCEPT ![x] = v] = RowsOf(lg, m) BY <1>1, <1>5, <1>6, <1>7
<1>9. [RowsOf(lg, m) EXCEPT ![x] = v] = RowsOf(lg, m) BY <1>1, <1>5, <1>7
<1> QED BY <1>1, <1>8, <1>9 DEF v, x

(* A row is the change that wrote it, or 0. *)
LEMMA RowsTyped ==
  ASSUME NEW lg, NEW n \in Nat
  PROVE  RowsOf(lg, n) \in RowValues
<1> SUFFICES ASSUME NEW k \in Rows, ~\A i \in LastWrites(lg, n, k) : lg[i].gone
             PROVE  Member(LastWrites(lg, n, k)) \in Nat
  BY DEF RowsOf, RowValues
<1>1. LastWrites(lg, n, k) # {} /\ LastWrites(lg, n, k) \subseteq Nat BY DEF LastWrites
<1> QED BY <1>1 DEF Member

(* Kept() lists the entries at the positions, in order. *)
LEMMA KeptLists ==
  ASSUME NEW S, NEW s \in Seq(S), NEW at \in SUBSET DOMAIN s
  PROVE  /\ O!Kept(s, at) \in Seq(S)
         /\ \E p \in [DOMAIN O!Kept(s, at) -> at] :
              /\ \A n \in DOMAIN O!Kept(s, at) : O!Kept(s, at)[n] = s[p[n]]
              /\ \A i \in at : \E n \in DOMAIN O!Kept(s, at) : p[n] = i
              /\ \A m, n \in DOMAIN O!Kept(s, at) : m < n => p[m] < p[n]
<1> DEFINE c == Cardinality(at)
           upTo(i) == {h \in at : h <= i}
           rank(i) == Cardinality(upTo(i))
           r == [i \in at |-> rank(i)]
           p == [n \in 1 .. c |-> CHOOSE i \in at : rank(i) = n]
<1>1. DOMAIN s = 1 .. Len(s) /\ Len(s) \in Nat OBVIOUS
<1>2. IsFiniteSet(at) /\ c \in Nat
  <2>1. IsFiniteSet(1 .. Len(s)) BY <1>1, FS_Interval
  <2> QED BY <1>1, <2>1, FS_Subset, FS_CardinalityType
<1>3. at \subseteq Nat BY <1>1
<1>4. ASSUME NEW i \in at PROVE rank(i) \in 1 .. c
  <2>1. upTo(i) \in SUBSET at /\ {i} \in SUBSET upTo(i) BY <1>3
  <2>2. IsFiniteSet(upTo(i)) /\ rank(i) <= c BY <1>2, <2>1, FS_Subset
  <2>3. rank(i) \in Nat BY <2>2, FS_CardinalityType
  <2>4. Cardinality({i}) = 1 BY FS_Singleton
  <2>5. Cardinality({i}) <= rank(i) BY <2>1, <2>2, FS_Subset
  <2> QED BY <1>2, <2>2, <2>3, <2>4, <2>5
<1>5. ASSUME NEW i \in at, NEW j \in at, i < j PROVE rank(i) < rank(j)
  <2>1. upTo(i) \in SUBSET upTo(j) /\ j \in upTo(j) /\ j \notin upTo(i) BY <1>3, <1>5
  <2>2. upTo(j) \in SUBSET at OBVIOUS
  <2>3. IsFiniteSet(upTo(j)) BY <1>2, <2>2, FS_Subset
  <2>4. rank(i) <= rank(j) /\ (rank(j) = rank(i) => upTo(j) = upTo(i)) BY <2>1, <2>3, FS_Subset
  <2>5. rank(i) # rank(j) BY <2>1, <2>4
  <2>6. rank(i) \in Nat /\ rank(j) \in Nat BY <1>4
  <2> HIDE DEF rank
  <2> QED BY <2>4, <2>5, <2>6
<1> HIDE DEF rank
<1>6. r \in Surjection(at, 1 .. c)
  <2>1. r \in [at -> 1 .. c] BY <1>4
  <2>2. ASSUME NEW i \in at, NEW j \in at, r[i] = r[j] PROVE i = j
    <3>1. i \in Nat /\ j \in Nat /\ rank(i) = rank(j) BY <1>3, <2>2
    <3>2. rank(i) \in Nat BY <1>4
    <3> QED BY <1>5, <3>1, <3>2
  <2>3. r \in Injection(at, 1 .. c) BY <2>1, <2>2 DEF Injection, IsInjective, O!IsInjective
  <2>4. IsFiniteSet(1 .. c) /\ Cardinality(1 .. c) = c BY <1>2, FS_Interval
  <2> QED BY <2>3, <2>4, FS_Injection
<1>7. ASSUME NEW n \in 1 .. c PROVE p[n] \in at /\ rank(p[n]) = n
  <2>1. PICK i \in at : r[i] = n BY <1>6 DEF Surjection
  <2>2. \E j \in at : rank(j) = n BY <2>1
  <2> QED BY <2>2
<1>8. O!Kept(s, at) = [n \in 1 .. c |-> s[p[n]]] BY DEF O!Kept, rank, O!Cardinality, Cardinality
<1> HIDE DEF p, r, c
<1>9. O!Kept(s, at) \in Seq(S) /\ DOMAIN O!Kept(s, at) = 1 .. c
  <2>1. \A n \in 1 .. c : s[p[n]] \in S BY <1>1, <1>7
  <2> QED BY <1>2, <1>8, <2>1, IsASeq
<1>10. p \in [1 .. c -> at] BY <1>7 DEF p
<1>11. ASSUME NEW i \in at PROVE \E n \in 1 .. c : p[n] = i
  <2>1. rank(i) \in 1 .. c BY <1>4
  <2>2. p[rank(i)] \in at /\ rank(p[rank(i)]) = rank(i) BY <1>7, <2>1
  <2>3. p[rank(i)] \in Nat /\ i \in Nat /\ rank(i) \in Nat BY <1>3, <2>1, <2>2
  <2>4. p[rank(i)] = i BY <1>5, <2>2, <2>3
  <2> QED BY <2>1, <2>4
<1>12. ASSUME NEW m \in 1 .. c, NEW n \in 1 .. c, m < n PROVE p[m] < p[n]
  <2>1. p[m] \in at /\ p[n] \in at /\ rank(p[m]) = m /\ rank(p[n]) = n BY <1>7
  <2>2. p[m] \in Nat /\ p[n] \in Nat BY <1>3, <2>1
  <2>3. p[m] # p[n] /\ ~(p[n] < p[m]) BY <1>5, <1>12, <2>1
  <2> QED BY <2>2, <2>3
<1>13. \A n \in 1 .. c : O!Kept(s, at)[n] = s[p[n]] BY <1>8
<1> QED BY <1>9, <1>10, <1>11, <1>12, <1>13

(* Without() drops the ids and nothing else, and keeps the order. *)
LEMMA WithoutDrops ==
  ASSUME NEW s \in Seq(Entry), NEW ids
  PROVE  /\ O!Without(s, ids) \in Seq(Entry)
         /\ \A n \in DOMAIN O!Without(s, ids) :
              \E i \in DOMAIN s : O!Without(s, ids)[n] = s[i] /\ s[i].id \notin ids
         /\ \A i \in DOMAIN s : s[i].id \notin ids =>
              \E n \in DOMAIN O!Without(s, ids) : O!Without(s, ids)[n] = s[i]
         /\ (\A i, j \in DOMAIN s : i < j => s[i].id < s[j].id) =>
              \A i, j \in DOMAIN O!Without(s, ids) : i < j => O!Without(s, ids)[i].id < O!Without(s, ids)[j].id
<1> DEFINE at == {i \in DOMAIN s : s[i].id \notin ids}
           k == O!Kept(s, at)
<1>1. at \in SUBSET DOMAIN s /\ O!Without(s, ids) = k BY DEF O!Without
<1>2. k \in Seq(Entry) BY <1>1, KeptLists
<1>3. PICK p \in [DOMAIN k -> at] : /\ \A n \in DOMAIN k : k[n] = s[p[n]]
                                    /\ \A i \in at : \E n \in DOMAIN k : p[n] = i
                                    /\ \A m, n \in DOMAIN k : m < n => p[m] < p[n]
  BY <1>1, KeptLists
<1> HIDE DEF k
<1>4. \A n \in DOMAIN k : p[n] \in DOMAIN s /\ s[p[n]].id \notin ids BY <1>3
<1> QED BY <1>1, <1>2, <1>3, <1>4

(* So does Pending, with what is held. *)
LEMMA PendingLists ==
  ASSUME oDurLog \in Seq(Entry)
  PROVE  /\ O!Pending \in Seq(Entry)
         /\ \A n \in DOMAIN O!Pending : \E i \in DOMAIN oDurLog : O!Pending[n] = oDurLog[i] /\ ~oDurLog[i].held
         /\ \A i \in DOMAIN oDurLog : ~oDurLog[i].held => \E n \in DOMAIN O!Pending : O!Pending[n] = oDurLog[i]
         /\ (\A i, j \in DOMAIN oDurLog : i < j => oDurLog[i].id < oDurLog[j].id) =>
              \A i, j \in DOMAIN O!Pending : i < j => O!Pending[i].id < O!Pending[j].id
<1> DEFINE at == {i \in DOMAIN oDurLog : ~oDurLog[i].held}
           k == O!Kept(oDurLog, at)
<1>1. at \in SUBSET DOMAIN oDurLog /\ O!Pending = k BY DEF O!Pending
<1>2. k \in Seq(Entry) BY <1>1, KeptLists
<1>3. PICK p \in [DOMAIN k -> at] : /\ \A n \in DOMAIN k : k[n] = oDurLog[p[n]]
                                    /\ \A i \in at : \E n \in DOMAIN k : p[n] = i
                                    /\ \A m, n \in DOMAIN k : m < n => p[m] < p[n]
  BY <1>1, KeptLists
<1> HIDE DEF k
<1>4. \A n \in DOMAIN k : p[n] \in DOMAIN oDurLog /\ ~oDurLog[p[n]].held BY <1>3
<1> QED BY <1>1, <1>2, <1>3, <1>4

(* MarkedHeld() touches one entry, and moves none. *)
LEMMA MarkedHeldMarks ==
  ASSUME NEW s \in Seq(Entry), NEW w
  PROVE  /\ O!MarkedHeld(s, w) \in Seq(Entry) /\ DOMAIN O!MarkedHeld(s, w) = DOMAIN s
         /\ \A i \in DOMAIN s : /\ O!MarkedHeld(s, w)[i].id = s[i].id
                                /\ O!MarkedHeld(s, w)[i].held <=> (s[i].held \/ s[i].id = w)
<1>1. DOMAIN s = 1 .. Len(s) /\ Len(s) \in Nat OBVIOUS
<1>2. O!MarkedHeld(s, w) = [i \in 1 .. Len(s) |-> IF s[i].id = w THEN [s[i] EXCEPT !.held = TRUE] ELSE s[i]]
  BY <1>1 DEF O!MarkedHeld
<1>3. ASSUME NEW i \in 1 .. Len(s)
      PROVE  /\ O!MarkedHeld(s, w)[i] \in Entry /\ O!MarkedHeld(s, w)[i].id = s[i].id
             /\ O!MarkedHeld(s, w)[i].held <=> (s[i].held \/ s[i].id = w)
  <2>1. s[i] \in Entry OBVIOUS
  <2>2. ASSUME NEW e \in Entry
        PROVE  LET f == [e EXCEPT !.held = TRUE] IN f \in Entry /\ f.id = e.id /\ f.held = TRUE
    BY DEF Entry
  <2>3. CASE s[i].id = w BY <1>2, <2>1, <2>2, <2>3
  <2>4. CASE s[i].id # w
    <3>1. O!MarkedHeld(s, w)[i] = s[i] BY <1>2, <2>4
    <3> QED BY <2>1, <2>4, <3>1
  <2> QED BY <2>3, <2>4
<1>4. O!MarkedHeld(s, w) \in Seq(Entry) BY <1>1, <1>2, <1>3, IsASeq
<1> QED BY <1>1, <1>2, <1>3, <1>4

(* SetToSeq() of a finite set lists it. *)
LEMMA SetToSeqIsList ==
  ASSUME NEW S, IsFiniteSet(S)
  PROVE  /\ O!SetToSeq(S) \in [1 .. Cardinality(S) -> S] /\ Cardinality(S) \in Nat
         /\ \A x \in S : \E i \in 1 .. Cardinality(S) : O!SetToSeq(S)[i] = x
<1> DEFINE n == Cardinality(S)
           q == O!SetToSeq(S)
<1>1. n \in Nat /\ ExistsBijection(1 .. n, S) BY FS_CardinalityType
<1>2. \E f \in [1 .. n -> S] : O!IsInjective(f)
  BY <1>1 DEF ExistsBijection, Bijection, Injection, IsInjective, O!IsInjective
<1>3. q \in [1 .. n -> S] /\ O!IsInjective(q)
  BY <1>2, OutboxCounts DEF O!SetToSeq
<1> HIDE DEF q
<1>5. q \in Injection(1 .. n, S) BY <1>3 DEF Injection, IsInjective, O!IsInjective
<1>6. Cardinality(1 .. n) = n BY <1>1, FS_Interval
<1>7. q \in Surjection(1 .. n, S) BY <1>1, <1>5, <1>6, FS_Injection
<1> QED BY <1>1, <1>3, <1>7 DEF Surjection, q

(* A nonempty set of numbers has a first ... *)
LEMMA FirstOf ==
  ASSUME NEW T \in SUBSET Nat, T # {}
  PROVE  O!Min(T) \in T /\ \A y \in T : O!Min(T) <= y
<1>1. PICK x \in T : \A y \in T : ~(<<y, x>> \in OpToRel(<, Nat))
  BY NatLessThanWellFounded, WFMin
<1>2. \A y \in T : ~(y < x)
  BY <1>1 DEF OpToRel
<1>3. \A y \in T : x <= y
  BY <1>2
<1>q. QED
  BY <1>3 DEF O!Min

(* ... and, when it is bounded, a last. *)
LEMMA LastOf ==
  ASSUME NEW n \in Nat, NEW T \in SUBSET (1 .. n), T # {}
  PROVE  O!Max(T) \in T /\ \A y \in T : y <= O!Max(T)
<1> DEFINE U == {m \in Nat : n - m \in T}
<1>1. U \in SUBSET Nat
  OBVIOUS
<1>2. \A y \in T : n - y \in U
  <2> TAKE y \in T
  <2>1. y \in 1 .. n /\ n - y \in Nat /\ n - (n - y) = y
    OBVIOUS
  <2>q. QED
    BY <2>1
<1>3. U # {}
  BY <1>2
<1>4. O!Min(U) \in U /\ \A y \in U : O!Min(U) <= y
  BY <1>1, <1>3, FirstOf
<1> HIDE DEF U
<1>5. n - O!Min(U) \in T /\ O!Min(U) \in Nat
  BY <1>4 DEF U
<1>6. \A y \in T : y <= n - O!Min(U)
  <2> TAKE y \in T
  <2>1. O!Min(U) <= n - y
    BY <1>2, <1>4
  <2>2. y \in Nat
    OBVIOUS
  <2>q. QED
    BY <1>5, <2>1, <2>2
<1>7. \E x \in T : \A y \in T : x >= y
  <2>1. \A y \in T : n - O!Min(U) >= y
    BY <1>5, <1>6
  <2>q. QED
    BY <1>5, <2>1
<1>8. O!Max(T) \in T /\ \A y \in T : O!Max(T) >= y
  BY <1>7 DEF O!Max
<1>q. QED
  BY <1>8

-----------------------------------------------------------------------------
(* Types *)

(* The five kinds of durable write. *)
LEMMA WritesTyped ==
  /\ \A w \in O!Writes : O!Log(w) \in ChainWrite /\ O!MarkHeld(w) \in ChainWrite /\ O!Forget(w) \in ChainWrite
  /\ \A k \in Rows, v \in Nat, c \in CursorValues : O!Row(k, v, c) \in ChainWrite
  /\ \A rs \in RowValues, c \in CursorValues : O!Slice(rs, c) \in ChainWrite
BY DEF O!Log, O!MarkHeld, O!Forget, O!Row, O!Slice, ChainWrite

(* What settleEcho() settles was held. *)
LEMMA SettledIsHeld ==
  ASSUME OutboxType, NEW k, NEW w \in O!Settled(k)
  PROVE  \E i \in DOMAIN oOverlay : oOverlay[i].id = w /\ oOverlay[i].held
<1> DEFINE mine == {i \in DOMAIN oOverlay : oTarget[oOverlay[i].id] = k /\ oOverlay[i].held}
<1>1. mine # {} /\ w = oOverlay[O!Min(mine)].id BY DEF O!Settled
<1>0. oOverlay \in Seq(Entry) BY DEF OutboxType
<1>2. mine \in SUBSET Nat BY <1>0
<1>3. O!Min(mine) \in mine BY <1>1, <1>2, FirstOf
<1> QED BY <1>1, <1>3

(* What an echo does to the overlay and the chain. *)
LEMMA EchoSettles ==
  ASSUME OutboxType, NEW ks, NEW write \in ChainWrite, O!Echo(ks, write)
  PROVE  \E ids \in SUBSET O!Writes :
           /\ \A w \in ids : \E i \in DOMAIN oOverlay : oOverlay[i].id = w /\ oOverlay[i].held
           /\ oOverlay' = O!Without(oOverlay, ids) /\ oHeldIds' = oHeldIds \ ids
           /\ oChain' \in Seq(ChainWrite) /\ Len(oChain') > Len(oChain)
           /\ \A i \in 1 .. Len(oChain) : oChain'[i] = oChain[i]
           /\ \A i \in Len(oChain) + 1 .. Len(oChain') - 1 : \E w \in ids : oChain'[i] = O!Forget(w)
           /\ oChain'[Len(oChain')] = write
<1> DEFINE ids == UNION {O!Settled(k) : k \in ks}
           n == Cardinality(ids)
           q == [i \in 1 .. n |-> O!Forget(O!SetToSeq(ids)[i])]
           one == <<write>>
<1>0. oOverlay \in Seq(Entry) /\ oChain \in Seq(ChainWrite) BY DEF OutboxType
<1>1. \A w \in ids : \E i \in DOMAIN oOverlay : oOverlay[i].id = w /\ oOverlay[i].held
  BY SettledIsHeld
<1>2. ids \in SUBSET O!Writes
  <2>1. \A i \in DOMAIN oOverlay : oOverlay[i] \in Entry BY <1>0
  <2> QED BY <1>1, <2>1 DEF Entry
<1>3. IsFiniteSet(ids)
  <2> DEFINE f == [i \in 1 .. Len(oOverlay) |-> oOverlay[i].id]
             T == {oOverlay[i].id : i \in 1 .. Len(oOverlay)}
  <2>1. Len(oOverlay) \in Nat /\ DOMAIN oOverlay = 1 .. Len(oOverlay) BY <1>0
  <2>2. IsFiniteSet(1 .. Len(oOverlay)) BY <2>1, FS_Interval
  <2>3. f \in Surjection(1 .. Len(oOverlay), T) BY DEF Surjection
  <2>4. ids \in SUBSET T BY <1>1, <2>1
  <2> HIDE DEF f, T, ids
  <2>5. IsFiniteSet(T) BY <2>2, <2>3, FS_Surjection
  <2> QED BY <2>4, <2>5, FS_Subset
<1>4. oOverlay' = O!Without(oOverlay, ids) /\ oHeldIds' = oHeldIds \ ids /\ oChain' = (oChain \o q) \o one
  BY OutboxCounts DEF O!Echo
<1> HIDE DEF ids
<1>5. n \in Nat /\ O!SetToSeq(ids) \in [1 .. n -> ids] BY <1>3, SetToSeqIsList
<1>6. \A i \in 1 .. n : q[i] \in ChainWrite /\ O!SetToSeq(ids)[i] \in ids /\ q[i] = O!Forget(O!SetToSeq(ids)[i])
  BY <1>2, <1>5, WritesTyped
<1>7. q \in Seq(ChainWrite) /\ Len(q) = n BY <1>5, <1>6, IsASeq
<1>8. one \in Seq(ChainWrite) /\ Len(one) = 1 /\ one[1] = write OBVIOUS
<1>9. oChain \in Seq(ChainWrite) /\ Len(oChain) \in Nat BY <1>0
<1> HIDE DEF q, n, one
<1>10. /\ oChain \o q \in Seq(ChainWrite) /\ Len(oChain \o q) = Len(oChain) + n
       /\ \A i \in 1 .. Len(oChain) : (oChain \o q)[i] = oChain[i]
       /\ \A i \in Len(oChain) + 1 .. Len(oChain) + n : (oChain \o q)[i] = q[i - Len(oChain)]
  BY <1>5, <1>7, <1>9
<1>11. /\ oChain' \in Seq(ChainWrite) /\ Len(oChain') = Len(oChain) + n + 1
       /\ \A i \in 1 .. Len(oChain) + n : oChain'[i] = (oChain \o q)[i]
       /\ oChain'[Len(oChain) + n + 1] = write
  <2> DEFINE c == oChain \o q
             m == Len(c)
  <2>1. c \in Seq(ChainWrite) /\ m = Len(oChain) + n /\ oChain' = c \o one BY <1>4, <1>10
  <2> HIDE DEF c
  <2>2. m \in Nat /\ m + 1 \in m + 1 .. m + 1 /\ (m + 1) - m = 1 BY <2>1
  <2>3. /\ c \o one \in Seq(ChainWrite) /\ Len(c \o one) = m + Len(one)
        /\ \A i \in 1 .. m + Len(one) : (c \o one)[i] = IF i <= m THEN c[i] ELSE one[i - m]
    BY <1>8, <2>1, ConcatProperties
  <2>4. \A i \in 1 .. m : i \in 1 .. m + Len(one) /\ i <= m BY <1>8, <2>2
  <2>5. m + 1 \in 1 .. m + Len(one) /\ ~(m + 1 <= m) BY <1>8, <2>2
  <2> HIDE DEF m
  <2>6. (c \o one)[m + 1] = one[1] BY <2>2, <2>3, <2>5
  <2>7. \A i \in 1 .. m : (c \o one)[i] = c[i] BY <2>3, <2>4
  <2> QED BY <1>8, <2>1, <2>3, <2>6, <2>7 DEF c
<1>12. \A i \in 1 .. Len(oChain) : oChain'[i] = oChain[i] BY <1>5, <1>9, <1>10, <1>11
<1>13. ASSUME NEW i \in Len(oChain) + 1 .. Len(oChain') - 1
       PROVE  \E w \in ids : oChain'[i] = O!Forget(w)
  <2>1. i \in Len(oChain) + 1 .. Len(oChain) + n /\ i \in 1 .. Len(oChain) + n /\ i - Len(oChain) \in 1 .. n
    BY <1>5, <1>9, <1>11
  <2>2. oChain'[i] = q[i - Len(oChain)] BY <1>10, <1>11, <2>1
  <2> QED BY <1>6, <2>1, <2>2
<1>14. Len(oChain') > Len(oChain) BY <1>5, <1>9, <1>11
<1> QED BY <1>1, <1>2, <1>4, <1>11, <1>12, <1>13, <1>14

(* Before the first write everything has its type. *)
LEMMA OutboxTypeInit == O!Init => OutboxType
<1> SUFFICES ASSUME O!Init PROVE OutboxType
  OBVIOUS
<1>1. /\ oLog \in Seq(LogEntry) /\ oTarget \in Seq(Rows \cup {Outside}) /\ oQueue \in Seq(O!Writes)
      /\ oOverlay \in Seq(Entry) /\ oDurLog \in Seq(Entry) /\ oChain \in Seq(ChainWrite)
  BY EmptySeq DEF O!Init
<1>2. Len(oTarget) \in 0 .. MaxWrites
  <2>1. Len(oTarget) = 0 BY DEF O!Init
  <2> QED BY <2>1, OutboxConstants DEF O!OutboxAssumption
<1>3. oRows \in RowValues /\ oDurRows \in RowValues BY DEF O!Init, O!NoRows, RowValues
<1>4. oCursor \in CursorValues /\ oDurCursor \in CursorValues /\ oPos \in Nat
  BY DEF O!Init, O!NoCursor, CursorValues
<1>5. oFate \in [O!Writes -> Fates] /\ oFlight \in FlightValues
  BY DEF O!Init, Fates, O!Idle, FlightValues
<1>6. /\ oOpen \in BOOLEAN /\ oFrozen \in BOOLEAN
      /\ oHeldIds \subseteq O!Writes /\ oLogged \subseteq O!Writes /\ oTorn \subseteq O!Writes
  BY DEF O!Init
<1> QED BY <1>1, <1>2, <1>3, <1>4, <1>5, <1>6 DEF OutboxType

(* No POST is under way. *)
LEMMA IdleParts == O!Idle.st = "" /\ O!Idle.id = 0
BY DEF O!Idle

(* The drain goes on with the front of the queue. *)
LEMMA SendsFront ==
  ASSUME NEW q \in Seq(O!Writes)
  PROVE  /\ O!Sends(q) \in FlightValues
         /\ q = <<>> => O!Sends(q) = O!Idle
         /\ q # <<>> => /\ O!Sends(q).id = q[1] /\ O!Sends(q).st = "sent" /\ q[1] \in O!Writes
                        /\ O!Sends(q) # O!Idle
<1>1. CASE q = <<>> BY <1>1 DEF O!Sends, O!Idle, FlightValues
<1>2. CASE q # <<>>
  <2>1. Len(q) \in Nat \ {0} /\ Head(q) = q[1] /\ q[1] \in O!Writes BY <1>2, EmptySeq
  <2> QED BY <1>2, <2>1 DEF O!Sends, O!Idle, FlightValues
<1> QED BY <1>1, <1>2

(* A submission still has a number. *)
LEMMA RoomLeft ==
  ASSUME OutboxType, O!Room
  PROVE  Len(oTarget) + 1 \in O!Writes /\ Len(oTarget) \in Nat
<1> DEFINE P == {i \in DOMAIN oLog : oLog[i].id = 0}
<1>1. oLog \in Seq(LogEntry) /\ Len(oTarget) \in 0 .. MaxWrites BY DEF OutboxType
<1>2. Len(oLog) \in Nat /\ P \in SUBSET (1 .. Len(oLog)) BY <1>1
<1>3. IsFiniteSet(1 .. Len(oLog)) BY <1>2, FS_Interval
<1>4. IsFiniteSet(P) BY <1>2, <1>3, FS_Subset
<1>5. Cardinality(P) \in Nat BY <1>4, FS_CardinalityType
<1>6. Len(oTarget) + Cardinality(P) < MaxWrites BY OutboxCounts DEF O!Room
<1> HIDE DEF P
<1> QED BY <1>1, <1>5, <1>6, OutboxConstants DEF O!Writes, O!OutboxAssumption

(* A POST under way is for the front of the queue. *)
LEMMA FlightFront ==
  ASSUME OutboxType, FlightAtHead, oFlight # O!Idle
  PROVE  /\ oQueue \in Seq(O!Writes) /\ oQueue # <<>> /\ Len(oQueue) \in Nat \ {0}
         /\ oFlight.id = oQueue[1] /\ oFlight.id \in O!Writes
         /\ oFlight.st # "sent" => oFate[oFlight.id] = oFlight.st
         /\ Tail(oQueue) \in Seq(O!Writes) /\ Len(Tail(oQueue)) = Len(oQueue) - 1
         /\ \A i \in 1 .. Len(oQueue) - 1 : Tail(oQueue)[i] = oQueue[i + 1]
<1>1. oQueue \in Seq(O!Writes) /\ oQueue # <<>> BY DEF OutboxType, FlightAtHead
<1>2. Len(oQueue) \in Nat \ {0} BY <1>1, EmptySeq
<1>3. /\ oFlight.id = oQueue[1] /\ (oFlight.st # "sent" => oFate[oFlight.id] = oFlight.st)
  BY DEF FlightAtHead
<1>4. oQueue[1] \in O!Writes BY <1>1, <1>2
<1>5. /\ Tail(oQueue) \in Seq(O!Writes) /\ Len(Tail(oQueue)) = Len(oQueue) - 1
      /\ \A i \in 1 .. Len(oQueue) - 1 : Tail(oQueue)[i] = oQueue[i + 1]
  BY <1>1, <1>2
<1> QED BY <1>1, <1>2, <1>3, <1>4, <1>5

(* The kinds of durable writes, and what each does. *)
LEMMA ChainWriteKinds ==
  ASSUME NEW w \in ChainWrite
  PROVE  \/ w.op = "slice" /\ w.rows \in RowValues /\ w.cursor \in CursorValues
         \/ w.op = "row" /\ w.key \in Rows /\ w.val \in Nat /\ w.cursor \in CursorValues
         \/ w.op \in {"append", "markHeld", "remove"} /\ w.id \in O!Writes
BY DEF ChainWrite

(* What committing each kind of durable write changes. *)
LEMMA CommitsKinds ==
  ASSUME NEW w, O!Commits(w)
  PROVE  /\ w.op = "slice" =>
              /\ oDurRows' = w.rows /\ oDurCursor' = w.cursor /\ oFrozen' = FALSE
              /\ UNCHANGED <<oDurLog, oLogged>>
         /\ w.op = "row" =>
              /\ oDurRows' = [oDurRows EXCEPT ![w.key] = w.val] /\ oDurCursor' = w.cursor
              /\ UNCHANGED <<oFrozen, oDurLog, oLogged>>
         /\ w.op = "append" =>
              /\ oDurLog' = Append(oDurLog, [id |-> w.id, held |-> FALSE])
              /\ oLogged' = oLogged \cup {w.id}
              /\ UNCHANGED <<oFrozen, oDurRows, oDurCursor>>
         /\ w.op = "markHeld" =>
              oDurLog' = O!MarkedHeld(oDurLog, w.id) /\ UNCHANGED <<oFrozen, oDurRows, oDurCursor, oLogged>>
         /\ w.op = "remove" =>
              oDurLog' = O!Without(oDurLog, {w.id}) /\ UNCHANGED <<oFrozen, oDurRows, oDurCursor, oLogged>>
<1>1. CASE w.op = "slice" BY <1>1 DEF O!Commits
<1>2. CASE w.op = "row" BY <1>2 DEF O!Commits
<1>3. CASE w.op = "append" BY <1>3 DEF O!Commits
<1>4. CASE w.op = "markHeld" BY <1>4 DEF O!Commits
<1>5. CASE w.op = "remove" BY <1>5 DEF O!Commits
<1> QED BY <1>1, <1>2, <1>3, <1>4, <1>5

(* The head of the chain. *)
LEMMA ChainFront ==
  ASSUME OutboxType, oChain # <<>>, oChain' = Tail(oChain)
  PROVE  /\ Len(oChain) \in Nat \ {0} /\ Head(oChain) = oChain[1] /\ oChain[1] \in ChainWrite
         /\ oChain' \in Seq(ChainWrite) /\ Len(oChain') = Len(oChain) - 1
         /\ \A i \in 1 .. Len(oChain) - 1 : oChain'[i] = oChain[i + 1]
<1>1. oChain \in Seq(ChainWrite) BY DEF OutboxType
<1>2. Len(oChain) \in Nat \ {0} BY <1>1, EmptySeq
<1> QED BY <1>1, <1>2

(* A replay begins at the change of the cursor. *)
LEMMA ReplayFrom ==
  ASSUME NEW c \in Nat
  PROVE  O!Max({0, c - 1}) = IF c = 0 THEN 0 ELSE c - 1
<1> DEFINE m == IF c = 0 THEN 0 ELSE c - 1
<1>1. m \in {0, c - 1} /\ \A y \in {0, c - 1} : m >= y OBVIOUS
<1>2. \A x \in {0, c - 1} : (\A y \in {0, c - 1} : x >= y) => x = m OBVIOUS
<1> QED BY <1>1, <1>2 DEF O!Max

(* Every step keeps the types, and the POST at the front of the queue. *)
LEMMA OutboxTypeStep ==
  ASSUME OutboxType, FlightAtHead, Submitted, O!Next
  PROVE  OutboxType'
<1>0. /\ oLog \in Seq(LogEntry) /\ oFate \in [O!Writes -> Fates]
      /\ oTarget \in Seq(Rows \cup {Outside}) /\ Len(oTarget) \in 0 .. MaxWrites
      /\ oFlight \in FlightValues
      /\ oQueue \in Seq(O!Writes) /\ oOverlay \in Seq(Entry) /\ oHeldIds \subseteq O!Writes
      /\ oRows \in RowValues /\ oCursor \in CursorValues /\ oOpen \in BOOLEAN /\ oPos \in Nat
      /\ oChain \in Seq(ChainWrite)
      /\ oFrozen \in BOOLEAN /\ oDurRows \in RowValues /\ oDurCursor \in CursorValues
      /\ oDurLog \in Seq(Entry) /\ oLogged \subseteq O!Writes /\ oTorn \subseteq O!Writes
  BY DEF OutboxType
<1> USE DEF O!serverVars, O!memVars, O!sliceVars, O!durVars
<1>1. ASSUME NEW k \in Rows \cup {Outside}, O!Submit(k) PROVE OutboxType'
  <2> DEFINE w == Len(oTarget) + 1
  <2>1. w \in O!Writes BY <1>1, RoomLeft DEF O!Submit
  <2>2. /\ oTarget' = Append(oTarget, k) /\ oQueue' = Append(oQueue, w) /\ oChain' = Append(oChain, O!Log(w))
        /\ oOverlay' = Append(oOverlay, [id |-> w, held |-> FALSE])
        /\ oFlight' \in {oFlight, O!Sends(oQueue')}
        /\ UNCHANGED <<O!serverVars, oHeldIds, oTimers, O!sliceVars, O!durVars, oFaults>>
    BY <1>1 DEF O!Submit
  <2>3. O!Log(w) \in ChainWrite /\ [id |-> w, held |-> FALSE] \in Entry
    BY <2>1, WritesTyped DEF Entry
  <2> HIDE DEF w
  <2>4. /\ oTarget' \in Seq(Rows \cup {Outside}) /\ oQueue' \in Seq(O!Writes) /\ oChain' \in Seq(ChainWrite)
        /\ oOverlay' \in Seq(Entry) /\ Len(oTarget') = w
    BY <1>0, <2>1, <2>2, <2>3 DEF w
  <2>5. Len(oTarget') \in 0 .. MaxWrites BY <2>1, <2>4 DEF O!Writes
  <2>6. oFlight' \in FlightValues BY <1>0, <2>2, <2>4, SendsFront
  <2> QED BY <1>0, <2>2, <2>4, <2>5, <2>6 DEF OutboxType
<1>2. ASSUME NEW k \in Rows, NEW gone \in BOOLEAN, O!PeerWrites(k, gone) PROVE OutboxType'
  <2>1. oLog' = Append(oLog, [key |-> k, id |-> 0, gone |-> gone]) BY <1>2 DEF O!PeerWrites
  <2>2. [key |-> k, id |-> 0, gone |-> gone] \in LogEntry BY DEF LogEntry
  <2>3. oLog' \in Seq(LogEntry) BY <1>0, <2>1, <2>2
  <2> QED BY <1>0, <1>2, <2>3 DEF OutboxType, O!PeerWrites
<1>3. CASE O!Flush
  <2>1. oFlight' \in FlightValues BY <1>0, <1>3, SendsFront DEF O!Flush
  <2> QED BY <1>0, <1>3, <2>1 DEF OutboxType, O!Flush
<1>4. CASE O!ServerApplies
  <2>1. oFlight # O!Idle /\ oFlight.st = "sent" BY <1>4, IdleParts DEF O!ServerApplies
  <2>2. oFlight.id \in O!Writes /\ oFlight.id = oQueue[1] /\ Len(oQueue) \in Nat \ {0}
    BY <2>1, FlightFront
  <2>3. oFlight.id <= Len(oTarget) /\ DOMAIN oQueue = 1 .. Len(oQueue)
    BY <1>0, <2>2 DEF Submitted, InQueue
  <2>4. oFlight.id \in 1 .. Len(oTarget) BY <1>0, <2>2, <2>3 DEF O!Writes
  <2>5. oTarget[oFlight.id] \in Rows \cup {Outside} BY <1>0, <2>4
  <2>6. oTarget[oFlight.id] # Outside =>
          [key |-> oTarget[oFlight.id], id |-> oFlight.id, gone |-> FALSE] \in LogEntry
    BY <2>4, <2>5 DEF LogEntry
  <2>7. oLog' \in Seq(LogEntry) BY <1>0, <1>4, <2>6 DEF O!ServerApplies
  <2>8. oFlight' \in FlightValues BY <1>0, <1>4 DEF O!ServerApplies, FlightValues
  <2>9. oFate' \in [O!Writes -> Fates] BY <1>0, <1>4, <2>2 DEF O!ServerApplies, Fates
  <2> QED BY <1>0, <1>4, <2>7, <2>8, <2>9 DEF OutboxType, O!ServerApplies
<1>5. CASE O!ServerRefuses
  <2>1. oFlight # O!Idle /\ oFlight.st = "sent" BY <1>5, IdleParts DEF O!ServerRefuses
  <2>2. oFlight.id \in O!Writes BY <2>1, FlightFront
  <2>8. oFlight' \in FlightValues BY <1>0, <1>5 DEF O!ServerRefuses, FlightValues
  <2>9. oFate' \in [O!Writes -> Fates] BY <1>0, <1>5, <2>2 DEF O!ServerRefuses, Fates
  <2> QED BY <1>0, <1>5, <2>8, <2>9 DEF OutboxType, O!ServerRefuses
<1>6. CASE O!Acked
  <2>1. oFlight # O!Idle BY <1>6, IdleParts DEF O!Acked
  <2>2. oFlight.id \in O!Writes /\ Tail(oQueue) \in Seq(O!Writes) BY <2>1, FlightFront
  <2>3. oOverlay' \in Seq(Entry) BY <1>0, <1>6, MarkedHeldMarks DEF O!Acked
  <2>4. O!MarkHeld(oFlight.id) \in ChainWrite BY <2>2, WritesTyped
  <2>5. oChain' \in Seq(ChainWrite) BY <1>0, <1>6, <2>4 DEF O!Acked
  <2>6. oFlight' \in FlightValues BY <1>6, <2>2, SendsFront DEF O!Acked
  <2> QED BY <1>0, <1>6, <2>2, <2>3, <2>5, <2>6 DEF OutboxType, O!Acked
<1>7. CASE O!Rejected
  <2>1. oFlight # O!Idle BY <1>7, IdleParts DEF O!Rejected
  <2>2. oFlight.id \in O!Writes /\ Tail(oQueue) \in Seq(O!Writes) BY <2>1, FlightFront
  <2>3. oOverlay' \in Seq(Entry) BY <1>0, <1>7, WithoutDrops DEF O!Rejected
  <2>4. O!Forget(oFlight.id) \in ChainWrite BY <2>2, WritesTyped
  <2>5. oChain' \in Seq(ChainWrite) BY <1>0, <1>7, <2>4 DEF O!Rejected
  <2>6. oFlight' \in FlightValues BY <1>7, <2>2, SendsFront DEF O!Rejected
  <2> QED BY <1>0, <1>7, <2>2, <2>3, <2>5, <2>6 DEF OutboxType, O!Rejected
<1>8. CASE O!Retry
  <2>1. oFlight' \in FlightValues BY <1>8 DEF O!Retry, O!Idle, FlightValues
  <2> QED BY <1>0, <1>8, <2>1 DEF OutboxType, O!Retry, O!Keeps
<1>9. ASSUME NEW w \in O!Writes, O!Grace(w) PROVE OutboxType'
  <2>1. O!Forget(w) \in ChainWrite BY WritesTyped
  <2>2. Append(oChain, O!Forget(w)) \in Seq(ChainWrite) BY <1>0, <2>1
  <2>3. O!Without(oOverlay, {w}) \in Seq(Entry) BY <1>0, WithoutDrops
  <2>4. oOverlay' \in Seq(Entry) /\ oChain' \in Seq(ChainWrite)
    BY <1>0, <1>9, <2>2, <2>3 DEF O!Grace
  <2> QED BY <1>0, <1>9, <2>4 DEF OutboxType, O!Grace
<1>10. ASSUME NEW ks, NEW write \in ChainWrite, O!Echo(ks, write)
       PROVE  oOverlay' \in Seq(Entry) /\ oHeldIds' \subseteq O!Writes /\ oChain' \in Seq(ChainWrite)
  BY <1>0, <1>10, EchoSettles, WithoutDrops
<1>11. CASE O!ApplyChange
  <2> DEFINE c == oLog[oPos + 1]
             v == IF c.gone THEN 0 ELSE oPos + 1
  <2>1. oPos + 1 \in 1 .. Len(oLog) BY <1>0, <1>11 DEF O!ApplyChange
  <2>2. c \in LogEntry BY <1>0, <2>1
  <2>3. c.key \in Rows /\ v \in Nat /\ oPos + 1 \in CursorValues
    BY <1>0, <2>2 DEF LogEntry, CursorValues
  <2>4. O!Row(c.key, v, oPos + 1) \in ChainWrite BY <2>3, WritesTyped
  <2>5. O!Echo({c.key}, O!Row(c.key, v, oPos + 1)) BY <1>11 DEF O!ApplyChange
  <2>6. oRows' = [oRows EXCEPT ![c.key] = v] /\ oCursor' = oPos + 1 /\ oPos' = oPos + 1
    BY <1>11 DEF O!ApplyChange
  <2> HIDE DEF c, v
  <2>7. oRows' \in RowValues BY <1>0, <2>3, <2>6 DEF RowValues
  <2>8. oOverlay' \in Seq(Entry) /\ oHeldIds' \subseteq O!Writes /\ oChain' \in Seq(ChainWrite)
    BY <1>10, <2>4, <2>5
  <2> QED BY <1>0, <1>11, <2>3, <2>6, <2>7, <2>8 DEF OutboxType, O!ApplyChange
<1>12. CASE O!ApplySnapshot
  <2> DEFINE n == Len(oLog)
             fresh == O!RowsAt(n)
  <2>1. n \in Nat /\ n \in CursorValues BY <1>0 DEF CursorValues
  <2>2. fresh \in RowValues BY <2>1, RowsAtIsRowsOf, RowsTyped
  <2>3. O!Slice(fresh, n) \in ChainWrite BY <2>1, <2>2, WritesTyped
  <2>4. O!Echo({k \in Rows : fresh[k] # 0}, O!Slice(fresh, n)) BY <1>12 DEF O!ApplySnapshot
  <2>5. oOverlay' \in Seq(Entry) /\ oHeldIds' \subseteq O!Writes /\ oChain' \in Seq(ChainWrite)
    BY <1>10, <2>3, <2>4
  <2>6. oRows' = fresh /\ oCursor' = n /\ oPos' = n BY <1>12 DEF O!ApplySnapshot
  <2> HIDE DEF fresh, n
  <2> QED BY <1>0, <1>12, <2>1, <2>2, <2>5, <2>6 DEF OutboxType, O!ApplySnapshot
<1>13. CASE O!Resumes
  <2>1. oCursor \in Nat BY <1>0, <1>13 DEF O!Resumes, CursorValues
  <2>2. oPos' = IF oCursor = 0 THEN 0 ELSE oCursor - 1 BY <1>13, <2>1, ReplayFrom DEF O!Resumes
  <2>3. oPos' \in Nat BY <2>1, <2>2
  <2> QED BY <1>0, <1>13, <2>3 DEF OutboxType, O!Resumes
<1>14. CASE O!StreamBreaks BY <1>0, <1>14 DEF OutboxType, O!StreamBreaks
<1>15. CASE O!ApplyResync
  <2>1. O!NoRows \in RowValues /\ O!NoCursor \in CursorValues
    BY DEF O!NoRows, RowValues, CursorValues
  <2>2. O!Slice(O!NoRows, O!NoCursor) \in ChainWrite BY <2>1, WritesTyped
  <2>3. oChain' \in Seq(ChainWrite) BY <1>0, <1>15, <2>2 DEF O!ApplyResync
  <2> QED BY <1>0, <1>15, <2>1, <2>3 DEF OutboxType, O!ApplyResync
<1>16. CASE O!WriteLands
  <2> DEFINE w == oChain[1]
  <2>1. w \in ChainWrite /\ oChain' \in Seq(ChainWrite) /\ Head(oChain) = w
    BY <1>16, ChainFront DEF O!WriteLands
  <2>2. CASE O!Dropped(w)
    BY <1>0, <1>16, <2>1, <2>2 DEF OutboxType, O!WriteLands
  <2>3. CASE ~O!Dropped(w)
    <3>1. O!Commits(w) /\ UNCHANGED oTorn BY <1>16, <2>1, <2>3 DEF O!WriteLands
    <3>2. w.op = "append" => oDurLog' \in Seq(Entry) /\ oLogged' \subseteq O!Writes
      <4> SUFFICES ASSUME w.op = "append" PROVE oDurLog' \in Seq(Entry) /\ oLogged' \subseteq O!Writes
        OBVIOUS
      <4>1. w.id \in O!Writes BY <2>1, ChainWriteKinds
      <4>2. [id |-> w.id, held |-> FALSE] \in Entry BY <4>1 DEF Entry
      <4>3. /\ oDurLog' = Append(oDurLog, [id |-> w.id, held |-> FALSE])
            /\ oLogged' = oLogged \cup {w.id}
        BY <3>1, CommitsKinds
      <4> QED BY <1>0, <4>1, <4>2, <4>3
    <3>3. w.op = "markHeld" => oDurLog' \in Seq(Entry)
      <4>1. w.op = "markHeld" => oDurLog' = O!MarkedHeld(oDurLog, w.id) BY <3>1, CommitsKinds
      <4> QED BY <1>0, <4>1, MarkedHeldMarks
    <3>4. w.op = "remove" => oDurLog' \in Seq(Entry)
      <4>1. w.op = "remove" => oDurLog' = O!Without(oDurLog, {w.id}) BY <3>1, CommitsKinds
      <4> QED BY <1>0, <4>1, WithoutDrops
    <3>5. w.op = "row" => oDurRows' \in RowValues
      BY <1>0, <2>1, <3>1, CommitsKinds, ChainWriteKinds DEF RowValues
    <3>6. /\ oDurLog' \in Seq(Entry) /\ oLogged' \subseteq O!Writes /\ oFrozen' \in BOOLEAN
          /\ oDurRows' \in RowValues /\ oDurCursor' \in CursorValues
      <4> HIDE DEF w
      <4> QED BY <1>0, <2>1, <3>1, <3>2, <3>3, <3>4, <3>5, CommitsKinds, ChainWriteKinds
    <3> QED BY <1>0, <1>16, <2>1, <3>1, <3>6 DEF OutboxType, O!WriteLands
  <2> QED BY <2>2, <2>3
<1>17. CASE O!WriteFails
  <2> DEFINE w == oChain[1]
  <2>1. w \in ChainWrite /\ oChain' \in Seq(ChainWrite) /\ Head(oChain) = w
    BY <1>17, ChainFront DEF O!WriteFails
  <2>2. oTorn' \subseteq O!Writes BY <1>0, <1>17, <2>1, ChainWriteKinds DEF O!WriteFails
  <2>3. oFrozen' \in BOOLEAN BY <1>0, <1>17 DEF O!WriteFails
  <2> QED BY <1>0, <1>17, <2>1, <2>2, <2>3 DEF OutboxType, O!WriteFails
<1>18. CASE O!Reload
  <2>1. oQueue' = [i \in DOMAIN O!Pending |-> O!Pending[i].id] BY <1>18 DEF O!Reload
  <2>2. O!Pending \in Seq(Entry) BY <1>0, PendingLists
  <2>3. DOMAIN O!Pending = 1 .. Len(O!Pending) /\ Len(O!Pending) \in Nat BY <2>2
  <2>4. \A i \in 1 .. Len(O!Pending) : O!Pending[i].id \in O!Writes
    <3>1. \A i \in 1 .. Len(O!Pending) : O!Pending[i] \in Entry BY <2>2
    <3> QED BY <3>1 DEF Entry
  <2>5. oQueue' \in Seq(O!Writes) BY <2>1, <2>3, <2>4, IsASeq
  <2>6. oHeldIds' \subseteq O!Writes
    <3>1. \A i \in DOMAIN oDurLog : oDurLog[i] \in Entry BY <1>0
    <3> QED BY <1>18, <3>1 DEF O!Reload, Entry
  <2>7. oChain' \in Seq(ChainWrite) /\ oFlight' \in FlightValues
    BY <1>18, EmptySeq DEF O!Reload, O!Idle, FlightValues
  <2>8. oOpen' \in BOOLEAN /\ oFrozen' \in BOOLEAN BY <1>18 DEF O!Reload
  <2> QED BY <1>0, <1>18, <2>5, <2>6, <2>7, <2>8 DEF OutboxType, O!Reload
<1> QED
  BY <1>1, <1>2, <1>3, <1>4, <1>5, <1>6, <1>7, <1>8, <1>9, <1>11, <1>12, <1>13, <1>14, <1>15, <1>16,
     <1>17, <1>18 DEF O!Next, O!Drain, O!Stream

-----------------------------------------------------------------------------
(* The rows and the cursor *)

(* A longer log says the same of what it held. *)
LEMMA TruthfulStable ==
  ASSUME NEW lg, NEW lh, Len(lg) \in Nat, Len(lh) \in Nat, Len(lg) <= Len(lh),
         \A i \in 1 .. Len(lg) : lh[i] = lg[i], NEW rs, NEW c \in CursorValues, Truthful(lg, rs, c)
  PROVE  Truthful(lh, rs, c)
<1> SUFFICES ASSUME c # O!NoCursor PROVE c <= Len(lh) /\ rs = RowsOf(lh, c)
  BY DEF Truthful
<1>1. c \in Nat /\ c <= Len(lg) /\ rs = RowsOf(lg, c) BY DEF Truthful, CursorValues
<1>2. \A i \in 1 .. c : lh[i] = lg[i] BY <1>1
<1>3. RowsOf(lh, c) = RowsOf(lg, c) BY <1>1, <1>2, RowsStable
<1> QED BY <1>1, <1>3

(* A durable write that says what the log says goes on doing so as the log grows. *)
LEMMA WriteSoundStable ==
  ASSUME NEW lg, NEW lh, Len(lg) \in Nat, Len(lh) \in Nat, Len(lg) <= Len(lh),
         \A i \in 1 .. Len(lg) : lh[i] = lg[i], NEW w \in ChainWrite, WriteSound(lg, w)
  PROVE  WriteSound(lh, w)
<1>1. w.op = "slice" => Truthful(lh, w.rows, w.cursor)
  <2> SUFFICES ASSUME w.op = "slice" PROVE Truthful(lh, w.rows, w.cursor)
    OBVIOUS
  <2>1. w.cursor \in CursorValues /\ Truthful(lg, w.rows, w.cursor)
    BY ChainWriteKinds DEF WriteSound
  <2> QED BY <2>1, TruthfulStable
<1>2. w.op = "row" => w.cursor \in 1 .. Len(lh) /\ lh[w.cursor] = lg[w.cursor] BY DEF WriteSound
<1> QED BY <1>1, <1>2 DEF WriteSound

(* A row's change, applied to the rows before it or again to its own. *)
LEMMA RowApplied ==
  ASSUME NEW lg \in Seq(LogEntry), NEW rs, NEW c \in CursorValues, Truthful(lg, rs, c),
         NEW d \in 1 .. Len(lg), c = d \/ c + 1 = d
  PROVE  Truthful(lg, [rs EXCEPT ![lg[d].key] = IF lg[d].gone THEN 0 ELSE d], d)
<1> DEFINE v == IF lg[d].gone THEN 0 ELSE d
           n == d - 1
<1>1. n \in Nat /\ d = n + 1 /\ Len(lg) \in Nat OBVIOUS
<1>2. /\ [RowsOf(lg, n) EXCEPT ![lg[d].key] = v] = RowsOf(lg, d)
      /\ [RowsOf(lg, d) EXCEPT ![lg[d].key] = v] = RowsOf(lg, d)
  BY <1>1, RowsNext
<1>3. c \in Nat /\ c # O!NoCursor /\ c <= Len(lg) /\ c \in {n, d}
  BY <1>1 DEF CursorValues, O!NoCursor
<1>4. rs = RowsOf(lg, c) BY <1>3 DEF Truthful
<1> HIDE DEF v, n
<1>5. [rs EXCEPT ![lg[d].key] = v] = RowsOf(lg, d) BY <1>2, <1>3, <1>4
<1> QED BY <1>5 DEF Truthful, v

(* What a write of the chain finds depends on what is before it. *)
LEMMA FindsOld ==
  ASSUME NEW ch, NEW ci, NEW fr, NEW dc, NEW j \in Nat, \A i \in 1 .. j - 1 : ci[i] = ch[i], NEW c
  PROVE  Finds(ci, fr, dc, j, c) <=> Finds(ch, fr, dc, j, c)
<1>1. \A i \in 1 .. j - 1 : \A h \in i + 1 .. j - 1 : h \in 1 .. j - 1 OBVIOUS
<1> QED BY <1>1 DEF Finds

(* What a write of the chain will find does not depend on what is queued behind it. *)
LEMMA FindsGrown ==
  ASSUME NEW ch, NEW ci, NEW fr, NEW dc, NEW n \in Nat, NEW m \in Nat, NEW l, l = n + 1, l <= m,
         \A i \in 1 .. n : ci[i] = ch[i], \A i \in l .. m - 1 : ~O!OfSlice(ci[i]), NEW c,
         Finds(ci, fr, dc, m, c)
  PROVE  Finds(ch, fr, dc, l, c)
<1>0. l - 1 = n /\ \A i \in 1 .. n : i \in 1 .. m - 1 OBVIOUS
<1>1. CASE ~fr /\ c = dc /\ \A h \in 1 .. m - 1 : ~O!OfSlice(ci[h])
  <2>1. \A h \in 1 .. n : ~O!OfSlice(ch[h]) BY <1>0, <1>1
  <2> QED BY <1>0, <1>1, <2>1 DEF Finds
<1>2. ASSUME NEW i \in 1 .. m - 1, O!OfSlice(ci[i]), c = ci[i].cursor,
             \A h \in i + 1 .. m - 1 : ~O!OfSlice(ci[h])
      PROVE  Finds(ch, fr, dc, l, c)
  <2>1. i \in 1 .. n
    <3>1. i \notin l .. m - 1 BY <1>2
    <3> QED BY <3>1
  <2>2. \A h \in i + 1 .. n : h \in i + 1 .. m - 1 /\ h \in 1 .. n BY <1>0, <2>1
  <2>3. \A h \in i + 1 .. n : ~O!OfSlice(ch[h]) BY <1>2, <2>2
  <2>4. O!OfSlice(ch[i]) /\ c = ch[i].cursor BY <1>2, <2>1
  <2> QED BY <1>0, <2>1, <2>3, <2>4 DEF Finds
<1> QED BY <1>1, <1>2 DEF Finds

(* Behind a slice write the chain finds the cursor that write leaves. *)
LEMMA FindsAfter ==
  ASSUME NEW ch, NEW fr, NEW dc, NEW m \in Nat \ {0}, O!OfSlice(ch[m]), NEW c, Finds(ch, fr, dc, m + 1, c)
  PROVE  c = ch[m].cursor
<1>1. (m + 1) - 1 = m /\ m \in 1 .. m OBVIOUS
<1>2. \A i \in 1 .. m : i # m => m \in i + 1 .. m OBVIOUS
<1> QED BY <1>1, <1>2 DEF Finds

(* When the head of the chain is gone, what it left is found. *)
LEMMA FindsTail ==
  ASSUME NEW ch, NEW ci, NEW fr, NEW gr, NEW dc, NEW ec, NEW j \in Nat \ {0}, NEW k, k = j + 1,
         \A i \in 1 .. j - 1 : ci[i] = ch[i + 1],
         \/ ~O!OfSlice(ch[1]) /\ (gr <=> fr) /\ ec = dc
         \/ O!OfSlice(ch[1]) /\ (gr \/ ec = ch[1].cursor),
         NEW c, Finds(ci, gr, ec, j, c)
  PROVE  Finds(ch, fr, dc, k, c)
<1>0. k - 1 = j /\ 1 \in 1 .. j OBVIOUS
<1>1. CASE ~gr /\ c = ec /\ \A h \in 1 .. j - 1 : ~O!OfSlice(ci[h])
  <2>1. ASSUME NEW h \in 2 .. j PROVE ~O!OfSlice(ch[h])
    <3> DEFINE g == h - 1
    <3>1. g \in 1 .. j - 1 /\ g + 1 = h OBVIOUS
    <3> HIDE DEF g
    <3> QED BY <1>1, <3>1
  <2>2. CASE ~O!OfSlice(ch[1])
    <3>1. \A h \in 1 .. j : h = 1 \/ h \in 2 .. j OBVIOUS
    <3>2. \A h \in 1 .. j : ~O!OfSlice(ch[h]) BY <2>1, <2>2, <3>1
    <3> QED BY <1>0, <1>1, <2>2, <3>2 DEF Finds
  <2>3. CASE O!OfSlice(ch[1])
    <3>1. c = ch[1].cursor /\ 1 + 1 .. j = 2 .. j BY <1>1, <2>3
    <3> QED BY <1>0, <2>1, <2>3, <3>1 DEF Finds
  <2> QED BY <2>2, <2>3
<1>2. ASSUME NEW i \in 1 .. j - 1, O!OfSlice(ci[i]), c = ci[i].cursor,
             \A h \in i + 1 .. j - 1 : ~O!OfSlice(ci[h])
      PROVE  Finds(ch, fr, dc, k, c)
  <2> DEFINE e == i + 1
  <2>1. e \in 1 .. j /\ ci[i] = ch[e] OBVIOUS
  <2>2. ASSUME NEW h \in e + 1 .. j PROVE ~O!OfSlice(ch[h])
    <3> DEFINE g == h - 1
    <3>1. g \in i + 1 .. j - 1 /\ g \in 1 .. j - 1 /\ g + 1 = h OBVIOUS
    <3> HIDE DEF g
    <3> QED BY <1>2, <3>1
  <2> HIDE DEF e
  <2> QED BY <1>0, <1>2, <2>1, <2>2 DEF Finds
<1> QED BY <1>1, <1>2 DEF Finds

(* Which durable writes touch the slice. *)
LEMMA KindsOfSlice ==
  /\ \A w : ~O!OfSlice(O!Log(w)) /\ ~O!OfSlice(O!MarkHeld(w)) /\ ~O!OfSlice(O!Forget(w))
  /\ \A w : O!Log(w).op = "append" /\ O!MarkHeld(w).op = "markHeld" /\ O!Forget(w).op = "remove"
  /\ \A w : O!Log(w).id = w /\ O!MarkHeld(w).id = w /\ O!Forget(w).id = w
  /\ \A k, v, c : O!Row(k, v, c).op = "row" /\ O!Row(k, v, c).key = k /\ O!Row(k, v, c).val = v
                  /\ O!Row(k, v, c).cursor = c
  /\ \A rs, c : O!Slice(rs, c).op = "slice" /\ O!Slice(rs, c).rows = rs /\ O!Slice(rs, c).cursor = c
  /\ \A w : O!OfSlice(w) <=> w.op = "slice" \/ w.op = "row"
BY DEF O!Log, O!MarkHeld, O!Forget, O!Row, O!Slice, O!OfSlice

(* The chain grows, at its end by a write of the slice. *)
LEMMA SliceQueued ==
  ASSUME OutboxType, ChainSound, ChainLinked, UNCHANGED <<oLog, oFrozen, oDurCursor>>,
         oChain' \in Seq(ChainWrite), Len(oChain') > Len(oChain),
         \A i \in 1 .. Len(oChain) : oChain'[i] = oChain[i],
         \A i \in Len(oChain) + 1 .. Len(oChain') - 1 : ~O!OfSlice(oChain'[i]),
         NEW w, oChain'[Len(oChain')] = w, O!OfSlice(w), WriteSound(oLog, w), oCursor' = w.cursor,
         w.op = "row" => oCursor = w.cursor \/ oCursor + 1 = w.cursor
  PROVE  ChainSound' /\ ChainLinked'
<1> DEFINE n == Len(oChain)
           m == Len(oChain')
           l == n + 1
<1>1. oChain \in Seq(ChainWrite) BY DEF OutboxType
<1>2. n \in Nat /\ m \in Nat /\ m > n /\ DOMAIN oChain = 1 .. n /\ DOMAIN oChain' = 1 .. m BY <1>1
<1>3. \A i \in l .. m - 1 : oChain'[i].op # "slice" /\ oChain'[i].op # "row" BY DEF O!OfSlice
<1>4. \A i \in 1 .. m : i \in 1 .. n \/ i \in l .. m - 1 \/ i = m
  <2> HIDE DEF n, m
  <2> QED BY <1>2
<1>5. ChainSound'
  <2>1. ASSUME NEW i \in 1 .. m PROVE WriteSound(oLog, oChain'[i])
    <3>1. CASE i \in 1 .. n BY <1>2, <3>1 DEF ChainSound
    <3>2. CASE i \in l .. m - 1 BY <1>3, <3>2 DEF WriteSound
    <3>3. CASE i = m BY <3>3
    <3> QED BY <1>4, <3>1, <3>2, <3>3
  <2> QED BY <1>2, <2>1 DEF ChainSound
<1>6. ASSUME NEW c, Finds(oChain', oFrozen, oDurCursor, m, c) PROVE c = oCursor
  <2>1. l \in Nat /\ l <= m BY <1>2
  <2>2. Finds(oChain, oFrozen, oDurCursor, l, c) BY <1>2, <1>6, <2>1, FindsGrown
  <2> QED BY <2>2 DEF ChainLinked
<1>7. ASSUME NEW j \in 1 .. m, oChain'[j].op = "row", NEW c, Finds(oChain', oFrozen, oDurCursor, j, c)
      PROVE  c = oChain'[j].cursor \/ c + 1 = oChain'[j].cursor
  <2>1. CASE j = m BY <1>6, <1>7, <2>1
  <2>2. CASE j \in 1 .. n
    <3>1. \A i \in 1 .. j - 1 : oChain'[i] = oChain[i] BY <1>2, <2>2
    <3>2. Finds(oChain, oFrozen, oDurCursor, j, c) BY <1>7, <2>2, <3>1, FindsOld
    <3> QED BY <1>2, <1>7, <2>2, <3>2 DEF ChainLinked
  <2> QED BY <1>3, <1>4, <1>7, <2>1, <2>2
<1>8. ASSUME NEW c, Finds(oChain', oFrozen, oDurCursor, m + 1, c) PROVE c = oCursor'
  <2>1. m \in Nat \ {0} BY <1>2
  <2> QED BY <1>8, <2>1, FindsAfter
<1>9. ChainLinked' BY <1>2, <1>7, <1>8 DEF ChainLinked
<1> QED BY <1>5, <1>9

(* It grows by another write. *)
LEMMA OtherQueued ==
  ASSUME OutboxType, ChainSound, ChainLinked, UNCHANGED <<oLog, oFrozen, oDurCursor, oCursor>>,
         NEW w, oChain' = Append(oChain, w), ~O!OfSlice(w)
  PROVE  ChainSound' /\ ChainLinked'
<1> DEFINE n == Len(oChain)
           m == n + 1
<1>1. oChain \in Seq(ChainWrite) BY DEF OutboxType
<1>2. /\ n \in Nat /\ DOMAIN oChain = 1 .. n /\ DOMAIN oChain' = 1 .. m /\ Len(oChain') = m
      /\ \A i \in 1 .. n : oChain'[i] = oChain[i]
      /\ oChain'[m] = w
  BY <1>1
<1>3. w.op # "slice" /\ w.op # "row" BY KindsOfSlice
<1>4. \A i \in 1 .. m : i \in 1 .. n \/ i = m BY <1>2
<1>5. ChainSound' BY <1>2, <1>3, <1>4 DEF ChainSound, WriteSound
<1>6. ASSUME NEW j \in 1 .. m, oChain'[j].op = "row", NEW c, Finds(oChain', oFrozen, oDurCursor, j, c)
      PROVE  c = oChain'[j].cursor \/ c + 1 = oChain'[j].cursor
  <2>1. j \in 1 .. n /\ j \in Nat BY <1>2, <1>3, <1>4, <1>6
  <2>2. \A i \in 1 .. j - 1 : oChain'[i] = oChain[i] BY <1>2, <2>1
  <2>3. Finds(oChain, oFrozen, oDurCursor, j, c) BY <1>6, <2>1, <2>2, FindsOld
  <2> QED BY <1>2, <1>6, <2>1, <2>3 DEF ChainLinked
<1>7. ASSUME NEW c, Finds(oChain', oFrozen, oDurCursor, m + 1, c) PROVE c = oCursor
  <2> DEFINE k == m + 1
  <2>1. k \in Nat /\ m <= k /\ m \in Nat BY <1>2
  <2>2. \A i \in m .. k - 1 : ~O!OfSlice(oChain'[i])
    <3>1. \A i \in m .. k - 1 : i = m BY <2>1
    <3> QED BY <1>2, <3>1
  <2>3. m = n + 1 /\ n \in Nat /\ \A i \in 1 .. n : oChain'[i] = oChain[i] BY <1>2
  <2> HIDE DEF k, m, n
  <2>4. Finds(oChain', oFrozen, oDurCursor, k, c) BY <1>7 DEF k
  <2>5. Finds(oChain, oFrozen, oDurCursor, m, c) BY <2>1, <2>2, <2>3, <2>4, FindsGrown
  <2> QED BY <2>5 DEF ChainLinked, m, n
<1>8. ChainLinked' BY <1>2, <1>6, <1>7 DEF ChainLinked
<1> QED BY <1>5, <1>8

(* The head of the chain is run: its slice is durable, or the tier is frozen. *)
LEMMA HeadRuns ==
  ASSUME OutboxType, ChainSound, ChainLinked, UNCHANGED <<oLog, oCursor>>, oChain # <<>>,
         oChain' = Tail(oChain),
         \/ ~O!OfSlice(oChain[1]) /\ (oFrozen' <=> oFrozen) /\ oDurCursor' = oDurCursor
         \/ O!OfSlice(oChain[1]) /\ (oFrozen' \/ oDurCursor' = oChain[1].cursor)
  PROVE  ChainSound' /\ ChainLinked'
<1> DEFINE n == Len(oChain)
           m == Len(oChain')
<1>1. oChain \in Seq(ChainWrite) BY DEF OutboxType
<1>2. /\ n \in Nat \ {0} /\ m = n - 1 /\ m \in Nat /\ DOMAIN oChain = 1 .. n /\ DOMAIN oChain' = 1 .. m
      /\ \A i \in 1 .. m : oChain'[i] = oChain[i + 1] /\ i + 1 \in 1 .. n
  BY <1>1, ChainFront
<1>3. ChainSound' BY <1>2 DEF ChainSound
<1>4. ASSUME NEW j \in 1 .. m + 1, NEW c, Finds(oChain', oFrozen', oDurCursor', j, c)
      PROVE  Finds(oChain, oFrozen, oDurCursor, j + 1, c)
  <2> DEFINE k == j + 1
  <2>1. j \in Nat \ {0} /\ \A i \in 1 .. j - 1 : oChain'[i] = oChain[i + 1] BY <1>2
  <2> HIDE DEF n, m
  <2>2. Finds(oChain, oFrozen, oDurCursor, k, c) BY <1>4, <2>1, FindsTail
  <2> QED BY <2>2
<1>5. ASSUME NEW j \in 1 .. m, oChain'[j].op = "row", NEW c, Finds(oChain', oFrozen', oDurCursor', j, c)
      PROVE  c = oChain'[j].cursor \/ c + 1 = oChain'[j].cursor
  <2> DEFINE k == j + 1
  <2>1. j \in 1 .. m + 1 /\ k \in 1 .. n /\ oChain'[j] = oChain[k] BY <1>2
  <2>2. Finds(oChain, oFrozen, oDurCursor, k, c) BY <1>4, <1>5, <2>1
  <2> HIDE DEF k
  <2> QED BY <1>2, <1>5, <2>1, <2>2 DEF ChainLinked
<1>6. ASSUME NEW c, Finds(oChain', oFrozen', oDurCursor', m + 1, c) PROVE c = oCursor
  <2> DEFINE j == m + 1
  <2>1. j \in 1 .. m + 1 /\ j + 1 = n + 1 BY <1>2
  <2>2. Finds(oChain, oFrozen, oDurCursor, j + 1, c) BY <1>4, <1>6, <2>1
  <2> HIDE DEF j
  <2> QED BY <2>1, <2>2 DEF ChainLinked
<1>7. ChainLinked' BY <1>2, <1>5, <1>6 DEF ChainLinked
<1> QED BY <1>3, <1>7

(* Before the first stream no slice is stored. *)
LEMMA SliceInit == O!Init => SliceInv
<1> SUFFICES ASSUME O!Init PROVE SliceInv
  OBVIOUS
<1>1. /\ oLog = <<>> /\ oChain = <<>> /\ oCursor = O!NoCursor /\ oDurCursor = O!NoCursor /\ ~oOpen /\ ~oFrozen
  BY DEF O!Init
<1>2. StreamAtCursor /\ Truthful(oLog, oDurRows, oDurCursor) BY <1>1 DEF StreamAtCursor, Truthful
<1>3. Len(oChain) = 0 /\ DOMAIN oChain = {} BY <1>1
<1>4. ASSUME NEW c, Finds(oChain, oFrozen, oDurCursor, Len(oChain) + 1, c) PROVE c = oCursor
  <2>1. (Len(oChain) + 1) - 1 = 0 /\ 1 .. 0 = {} BY <1>3
  <2> QED BY <1>1, <1>4, <2>1 DEF Finds
<1> QED BY <1>2, <1>3, <1>4 DEF SliceInv, ChainSound, ChainLinked

(* The log grows, and neither the chain nor the memory moves. *)
LEMMA LogGrowsSlice ==
  ASSUME OutboxType, SliceInv, NEW e, oLog' = Append(oLog, e), UNCHANGED <<O!sliceVars, oChain, O!durVars>>
  PROVE  SliceInv'
<1>1. oLog \in Seq(LogEntry) /\ oChain \in Seq(ChainWrite) /\ oCursor \in CursorValues /\ oDurCursor \in CursorValues
  BY DEF OutboxType
<1>2. /\ Len(oLog) \in Nat /\ Len(oLog') \in Nat /\ Len(oLog) <= Len(oLog')
      /\ \A i \in 1 .. Len(oLog) : oLog'[i] = oLog[i]
  BY <1>1
<1>3. UNCHANGED <<oRows, oCursor, oOpen, oPos, oChain, oFrozen, oDurRows, oDurCursor>>
  BY DEF O!sliceVars, O!durVars
<1>4. Truthful(oLog', oRows, oCursor) /\ Truthful(oLog', oDurRows, oDurCursor)
  BY <1>1, <1>2, TruthfulStable DEF SliceInv, StreamAtCursor
<1>5. \A i \in DOMAIN oChain : oChain[i] \in ChainWrite BY <1>1
<1>6. \A i \in DOMAIN oChain : WriteSound(oLog', oChain[i])
  BY <1>2, <1>5, WriteSoundStable DEF SliceInv, ChainSound
<1>7. StreamAtCursor' BY <1>3, <1>4 DEF SliceInv, StreamAtCursor
<1>8. ChainSound' BY <1>3, <1>6 DEF ChainSound
<1>9. ChainLinked' BY <1>3 DEF SliceInv, ChainLinked
<1> QED BY <1>3, <1>4, <1>7, <1>8, <1>9 DEF SliceInv

(* Every step keeps the slice truthful, in memory, on the chain and on disk. *)
LEMMA SliceStep ==
  ASSUME OutboxType, SliceInv, O!Next
  PROVE  SliceInv'
<1>0. /\ oLog \in Seq(LogEntry) /\ Len(oLog) \in Nat /\ oChain \in Seq(ChainWrite)
      /\ oCursor \in CursorValues /\ oDurCursor \in CursorValues /\ oPos \in Nat
      /\ oFrozen \in BOOLEAN
  BY DEF OutboxType
<1>00. StreamAtCursor /\ Truthful(oLog, oDurRows, oDurCursor) /\ ChainSound /\ ChainLinked
  BY DEF SliceInv
<1> USE DEF O!serverVars, O!memVars, O!sliceVars, O!durVars
<1>1. ASSUME UNCHANGED <<oLog, oRows, oCursor, oOpen, oPos, oFrozen, oDurRows, oDurCursor>>,
             NEW w, ~O!OfSlice(w), oChain' \in {oChain, Append(oChain, w)}
      PROVE  SliceInv'
  <2>1. StreamAtCursor' /\ Truthful(oLog, oDurRows, oDurCursor)' BY <1>00, <1>1 DEF StreamAtCursor
  <2>2. CASE oChain' = oChain
    BY <1>00, <1>1, <2>1, <2>2 DEF SliceInv, ChainSound, ChainLinked
  <2>3. CASE oChain' = Append(oChain, w)
    BY <1>00, <1>1, <2>1, <2>3, OtherQueued DEF SliceInv
  <2> QED BY <1>1, <2>2, <2>3
<1>2. \A w : ~O!OfSlice(O!Log(w)) /\ ~O!OfSlice(O!MarkHeld(w)) /\ ~O!OfSlice(O!Forget(w))
  BY KindsOfSlice
<1>3. ASSUME NEW k \in Rows \cup {Outside}, O!Submit(k) PROVE SliceInv'
  BY <1>1, <1>2, <1>3 DEF O!Submit
<1>4. CASE O!Flush \/ O!ServerRefuses \/ O!Retry
  BY <1>1, <1>2, <1>4 DEF O!Flush, O!ServerRefuses, O!Retry, O!Keeps
<1>5. ASSUME NEW k \in Rows, NEW gone \in BOOLEAN, O!PeerWrites(k, gone) PROVE SliceInv'
  BY <1>5, LogGrowsSlice DEF O!PeerWrites
<1>6. CASE O!ServerApplies
  <2>1. CASE oLog' = oLog BY <1>1, <1>2, <1>6, <2>1 DEF O!ServerApplies
  <2>2. CASE oLog' # oLog BY <1>6, <2>2, LogGrowsSlice DEF O!ServerApplies
  <2> QED BY <2>1, <2>2
<1>7. CASE O!Acked \/ O!Rejected BY <1>1, <1>2, <1>7 DEF O!Acked, O!Rejected
<1>8. ASSUME NEW w \in O!Writes, O!Grace(w) PROVE SliceInv'
  BY <1>1, <1>2, <1>8 DEF O!Grace
<1>9. ASSUME NEW ks, NEW w \in ChainWrite, O!OfSlice(w), O!Echo(ks, w), WriteSound(oLog, w),
             UNCHANGED <<oLog, oFrozen, oDurCursor>>, oCursor' = w.cursor,
             w.op = "row" => oCursor = w.cursor \/ oCursor + 1 = w.cursor
      PROVE  ChainSound' /\ ChainLinked'
  <2>1. /\ oChain' \in Seq(ChainWrite) /\ Len(oChain') > Len(oChain)
        /\ \A i \in 1 .. Len(oChain) : oChain'[i] = oChain[i]
        /\ \A i \in Len(oChain) + 1 .. Len(oChain') - 1 : \E x : oChain'[i] = O!Forget(x)
        /\ oChain'[Len(oChain')] = w
    BY <1>9, EchoSettles
  <2>2. \A i \in Len(oChain) + 1 .. Len(oChain') - 1 : ~O!OfSlice(oChain'[i]) BY <1>2, <2>1
  <2> QED BY <1>00, <1>9, <2>1, <2>2, SliceQueued
<1>10. CASE O!ApplyChange
  <2> DEFINE d == oPos + 1
             v == IF oLog[d].gone THEN 0 ELSE d
             w == O!Row(oLog[d].key, v, d)
  <2>1. /\ oOpen /\ d \in 1 .. Len(oLog) /\ oCursor' = d /\ oPos' = d
        /\ oRows' = [oRows EXCEPT ![oLog[d].key] = v]
        /\ UNCHANGED <<oLog, oOpen, oFrozen, oDurRows, oDurCursor>>
        /\ O!Echo({oLog[d].key}, w)
    BY <1>0, <1>10 DEF O!ApplyChange
  <2>2. Truthful(oLog, oRows, oCursor) /\ oCursor # O!NoCursor /\ (oPos = oCursor \/ d = oCursor)
    BY <1>00, <2>1 DEF StreamAtCursor
  <2>3. oCursor = d \/ oCursor + 1 = d BY <1>0, <2>2
  <2>4. Truthful(oLog, oRows', d) BY <1>0, <2>1, <2>2, <2>3, RowApplied
  <2>5. d # O!NoCursor BY <1>0 DEF O!NoCursor
  <2>6. StreamAtCursor' BY <2>1, <2>4, <2>5 DEF StreamAtCursor
  <2>7. oLog[d] \in LogEntry BY <1>0, <2>1
  <2>8. oLog[d].key \in Rows /\ v \in Nat /\ d \in CursorValues
    BY <1>0, <2>7 DEF LogEntry, CursorValues
  <2>9. w \in ChainWrite BY <2>8, WritesTyped
  <2>10. w.op = "row" /\ w.cursor = d /\ w.key = oLog[d].key /\ w.val = v BY KindsOfSlice
  <2> HIDE DEF w
  <2>11. O!OfSlice(w) /\ WriteSound(oLog, w) BY <2>1, <2>10 DEF WriteSound, O!OfSlice
  <2>12. ChainSound' /\ ChainLinked' BY <1>9, <2>1, <2>3, <2>9, <2>10, <2>11
  <2> QED BY <1>00, <2>1, <2>6, <2>12 DEF SliceInv
<1>11. CASE O!ApplySnapshot
  <2> DEFINE n == Len(oLog)
             w == O!Slice(O!RowsAt(n), n)
  <2>1. /\ oOpen' = TRUE /\ oPos' = n /\ oRows' = O!RowsAt(n) /\ oCursor' = n
        /\ UNCHANGED <<oLog, oFrozen, oDurRows, oDurCursor>>
        /\ \E ks : O!Echo(ks, w)
    BY <1>11 DEF O!ApplySnapshot
  <2>2. n # O!NoCursor /\ n \in CursorValues /\ n <= Len(oLog) BY <1>0 DEF O!NoCursor, CursorValues
  <2>3. O!RowsAt(n) = RowsOf(oLog, n) /\ O!RowsAt(n) \in RowValues
    BY <1>0, RowsAtIsRowsOf, RowsTyped
  <2>4. Truthful(oLog, O!RowsAt(n), n) BY <2>2, <2>3 DEF Truthful
  <2>5. StreamAtCursor' BY <2>1, <2>2, <2>4 DEF StreamAtCursor
  <2>6. w \in ChainWrite BY <2>2, <2>3, WritesTyped
  <2>7. w.op = "slice" /\ w.cursor = n /\ w.rows = O!RowsAt(n) BY KindsOfSlice
  <2> HIDE DEF w
  <2>8. O!OfSlice(w) /\ WriteSound(oLog, w) BY <2>4, <2>7 DEF WriteSound, O!OfSlice
  <2>9. ChainSound' /\ ChainLinked'
    <3>1. PICK ks : O!Echo(ks, w) BY <2>1
    <3> QED BY <1>9, <2>1, <2>6, <2>7, <2>8, <3>1
  <2> QED BY <1>00, <2>1, <2>5, <2>9 DEF SliceInv
<1>12. CASE O!Resumes
  <2>1. oCursor \in Nat /\ oCursor # O!NoCursor BY <1>0, <1>12 DEF O!Resumes, CursorValues
  <2>2. oPos' = IF oCursor = 0 THEN 0 ELSE oCursor - 1 BY <1>12, <2>1, ReplayFrom DEF O!Resumes
  <2>3. oPos' = oCursor \/ oPos' + 1 = oCursor BY <2>1, <2>2
  <2>4. UNCHANGED <<oLog, oRows, oCursor, oChain, oFrozen, oDurRows, oDurCursor>>
    BY <1>12 DEF O!Resumes
  <2>5. StreamAtCursor' BY <1>00, <2>1, <2>3, <2>4 DEF StreamAtCursor
  <2> QED BY <1>00, <2>4, <2>5 DEF SliceInv, ChainSound, ChainLinked
<1>13. CASE O!StreamBreaks
  <2>1. UNCHANGED <<oLog, oRows, oCursor, oChain, oFrozen, oDurRows, oDurCursor>> /\ ~oOpen'
    BY <1>13 DEF O!StreamBreaks
  <2> QED BY <1>00, <2>1 DEF SliceInv, StreamAtCursor, ChainSound, ChainLinked
<1>14. CASE O!ApplyResync
  <2> DEFINE w == O!Slice(O!NoRows, O!NoCursor)
  <2>1. /\ UNCHANGED <<oLog, oFrozen, oDurRows, oDurCursor>> /\ ~oOpen' /\ oCursor' = O!NoCursor
        /\ oChain' = Append(oChain, w)
    BY <1>14 DEF O!ApplyResync
  <2>2. StreamAtCursor' BY <2>1 DEF StreamAtCursor, Truthful
  <2>3. w \in ChainWrite /\ w.op = "slice" /\ w.cursor = O!NoCursor
    <3>1. O!NoRows \in RowValues /\ O!NoCursor \in CursorValues
      BY DEF O!NoRows, RowValues, CursorValues
    <3> QED BY <3>1, WritesTyped, KindsOfSlice
  <2> HIDE DEF w
  <2>4. O!OfSlice(w) /\ WriteSound(oLog, w) BY <2>3 DEF O!OfSlice, WriteSound, Truthful
  <2>5. /\ oChain' \in Seq(ChainWrite) /\ Len(oChain') = Len(oChain) + 1 /\ oChain'[Len(oChain')] = w
        /\ \A i \in 1 .. Len(oChain) : oChain'[i] = oChain[i]
        /\ Len(oChain) \in Nat
    BY <1>0, <2>1, <2>3
  <2>6. Len(oChain') > Len(oChain) /\ Len(oChain) + 1 .. Len(oChain') - 1 = {} BY <2>5
  <2>7. ChainSound' /\ ChainLinked' BY <1>00, <2>1, <2>3, <2>4, <2>5, <2>6, SliceQueued
  <2> QED BY <1>00, <2>1, <2>2, <2>7 DEF SliceInv
<1>15. CASE O!WriteLands
  <2> DEFINE w == oChain[1]
  <2>1. /\ oChain # <<>> /\ oChain' = Tail(oChain) /\ UNCHANGED <<oLog, oRows, oCursor, oOpen, oPos>>
        /\ Head(oChain) = w /\ w \in ChainWrite /\ Len(oChain) \in Nat \ {0}
    BY <1>15, ChainFront DEF O!WriteLands
  <2>2. StreamAtCursor' BY <1>00, <2>1 DEF StreamAtCursor
  <2>3. WriteSound(oLog, w)
    <3>1. 1 \in DOMAIN oChain BY <1>0, <2>1
    <3> QED BY <1>00, <3>1 DEF ChainSound
  <2>4. CASE O!Dropped(w)
    <3>1. O!OfSlice(w) /\ oFrozen /\ UNCHANGED O!durVars
      BY <1>15, <2>1, <2>4 DEF O!WriteLands, O!Dropped
    <3>2. ChainSound' /\ ChainLinked' BY <1>00, <2>1, <3>1, HeadRuns
    <3> QED BY <1>00, <2>1, <2>2, <3>1, <3>2 DEF SliceInv
  <2>5. CASE ~O!Dropped(w) /\ w.op = "slice"
    <3>1. O!Commits(w) BY <1>15, <2>1, <2>5 DEF O!WriteLands
    <3>2. oDurRows' = w.rows /\ oDurCursor' = w.cursor BY <2>5, <3>1, CommitsKinds
    <3>3. O!OfSlice(w) BY <2>5 DEF O!OfSlice
    <3>4. ChainSound' /\ ChainLinked' BY <1>00, <2>1, <3>2, <3>3, HeadRuns
    <3>5. Truthful(oLog, oDurRows', oDurCursor') BY <2>3, <2>5, <3>2 DEF WriteSound
    <3> QED BY <2>1, <2>2, <3>4, <3>5 DEF SliceInv
  <2>6. CASE ~O!Dropped(w) /\ w.op = "row"
    <3>1. O!Commits(w) BY <1>15, <2>1, <2>6 DEF O!WriteLands
    <3>2. oDurRows' = [oDurRows EXCEPT ![w.key] = w.val] /\ oDurCursor' = w.cursor /\ oFrozen' = oFrozen
      BY <2>6, <3>1, CommitsKinds
    <3>3. O!OfSlice(w) BY <2>6 DEF O!OfSlice
    <3>4. ~oFrozen BY <2>6, <3>3 DEF O!Dropped, O!Replaces
    <3>5. ChainSound' /\ ChainLinked' BY <1>00, <2>1, <3>2, <3>3, HeadRuns
    <3>6. Finds(oChain, oFrozen, oDurCursor, 1, oDurCursor) /\ 1 \in DOMAIN oChain
      BY <1>0, <2>1, <3>4 DEF Finds
    <3>7. oDurCursor = w.cursor \/ oDurCursor + 1 = w.cursor BY <1>00, <2>6, <3>6 DEF ChainLinked
    <3>8. /\ w.cursor \in 1 .. Len(oLog) /\ w.key = oLog[w.cursor].key
          /\ w.val = IF oLog[w.cursor].gone THEN 0 ELSE w.cursor
      BY <2>3, <2>6 DEF WriteSound
    <3>9. Truthful(oLog, oDurRows', oDurCursor') BY <1>0, <1>00, <3>2, <3>7, <3>8, RowApplied
    <3> QED BY <2>1, <2>2, <3>5, <3>9 DEF SliceInv
  <2>7. CASE w.op \in {"append", "markHeld", "remove"}
    <3>1. ~O!OfSlice(w) /\ ~O!Dropped(w) BY <2>7 DEF O!OfSlice, O!Dropped
    <3>2. O!Commits(w) BY <1>15, <2>1, <3>1 DEF O!WriteLands
    <3>3. UNCHANGED <<oFrozen, oDurRows, oDurCursor>> BY <2>7, <3>2, CommitsKinds
    <3>4. ChainSound' /\ ChainLinked' BY <1>00, <2>1, <3>1, <3>3, HeadRuns
    <3> QED BY <1>00, <2>1, <2>2, <3>3, <3>4 DEF SliceInv
  <2>8. w.op = "slice" \/ w.op = "row" \/ w.op \in {"append", "markHeld", "remove"}
    BY <2>1, ChainWriteKinds
  <2> QED BY <2>4, <2>5, <2>6, <2>7, <2>8
<1>16. CASE O!WriteFails
  <2> DEFINE w == oChain[1]
  <2>1. /\ oChain # <<>> /\ oChain' = Tail(oChain)
        /\ UNCHANGED <<oLog, oRows, oCursor, oOpen, oPos, oDurRows, oDurCursor>>
        /\ Head(oChain) = w /\ oFrozen' = (oFrozen \/ O!OfSlice(w))
    BY <1>16, ChainFront DEF O!WriteFails
  <2>2. StreamAtCursor' BY <1>00, <2>1 DEF StreamAtCursor
  <2>3. CASE O!OfSlice(w)
    <3>1. oFrozen' BY <2>1, <2>3
    <3> QED BY <1>00, <2>1, <2>2, <2>3, <3>1, HeadRuns DEF SliceInv
  <2>4. CASE ~O!OfSlice(w)
    <3>1. oFrozen' <=> oFrozen BY <2>1, <2>4
    <3> QED BY <1>00, <2>1, <2>2, <2>4, <3>1, HeadRuns DEF SliceInv
  <2> QED BY <2>3, <2>4
<1>17. CASE O!Reload
  <2>1. /\ UNCHANGED <<oLog, oDurRows, oDurCursor>> /\ oChain' = <<>> /\ oRows' = oDurRows
        /\ oCursor' = oDurCursor /\ ~oOpen' /\ ~oFrozen'
    BY <1>17 DEF O!Reload
  <2>2. StreamAtCursor' BY <1>00, <2>1 DEF StreamAtCursor
  <2>3. Len(oChain') = 0 /\ DOMAIN oChain' = {} BY <2>1
  <2>4. ASSUME NEW c, Finds(oChain', oFrozen', oDurCursor', Len(oChain') + 1, c) PROVE c = oCursor'
    <3>1. (Len(oChain') + 1) - 1 = 0 /\ 1 .. 0 = {} BY <2>3
    <3> QED BY <2>1, <2>4, <3>1 DEF Finds
  <2>5. ChainSound' /\ ChainLinked' BY <2>3, <2>4 DEF ChainSound, ChainLinked
  <2> QED BY <1>00, <2>1, <2>2, <2>5 DEF SliceInv
<1> QED
  BY <1>3, <1>4, <1>5, <1>6, <1>7, <1>8, <1>10, <1>11, <1>12, <1>13, <1>14, <1>15, <1>16, <1>17
  DEF O!Next, O!Drain, O!Stream

(* The invariant gives the first half of what the runs check. *)
LEMMA SliceImplied == SliceInv => O!CursorMatchesRows
BY RowsAtIsRowsOf DEF SliceInv, Truthful, O!CursorMatchesRows

-----------------------------------------------------------------------------
(* The writes *)

(* The id of a log entry is that of a write. *)
LEMMA EntryIds ==
  ASSUME NEW es \in Seq(Entry), NEW i \in DOMAIN es
  PROVE  es[i] \in Entry /\ es[i].id \in O!Writes /\ es[i].held \in BOOLEAN
<1>1. es[i] \in Entry OBVIOUS
<1> QED BY <1>1 DEF Entry

(* Before the first write nothing is queued, logged or settled. *)
LEMMA WriteInit == O!Init => WriteInv /\ OrderInv
<1> SUFFICES ASSUME O!Init PROVE WriteInv /\ OrderInv
  OBVIOUS
<1>1. /\ oLog = <<>> /\ oTarget = <<>> /\ oFlight = O!Idle /\ oQueue = <<>> /\ oOverlay = <<>> /\ oHeldIds = {}
      /\ oChain = <<>> /\ oDurLog = <<>> /\ oLogged = {} /\ oTorn = {}
  BY DEF O!Init
<1>2. \A w : ~InQueue(w) /\ ~Waiting(w) /\ ~Appending(w) /\ ~Settling(w) /\ ~Known(w) /\ ~Standing(w)
  BY <1>1 DEF InQueue, Waiting, Appending, Settling, Known, Standing
<1>3. O!Ids(oOverlay) = {} /\ O!Ids(oDurLog) = {} BY <1>1 DEF O!Ids
<1>4. FlightAtHead /\ Submitted /\ HeldAnswered /\ ChainOrdered
  <2>1. DOMAIN oChain = {} /\ DOMAIN oLog = {} /\ DOMAIN oOverlay = {} /\ DOMAIN oDurLog = {}
    BY <1>1
  <2>2. Submitted BY <1>1, <1>2, <1>3, <2>1 DEF Submitted
  <2>3. HeldAnswered BY <1>1, <1>2, <2>1 DEF HeldAnswered
  <2>4. ChainOrdered BY <1>1, <1>2, <1>3, <2>1 DEF ChainOrdered
  <2> QED BY <1>1, <2>2, <2>3, <2>4 DEF FlightAtHead
<1>5. SettledInOrder /\ QueueLogged /\ QueueInOrder /\ O!NoWriteLost /\ O!PendingShown
  <2>1. DOMAIN oChain = {} /\ DOMAIN oQueue = {} BY <1>1
  <2>2. SettledInOrder BY <1>2, <2>1 DEF SettledInOrder
  <2>3. QueueLogged BY <1>2, <2>1 DEF QueueLogged, Increasing
  <2>4. QueueInOrder BY <1>2 DEF QueueInOrder
  <2> QED BY <1>1, <2>1, <2>2, <2>3, <2>4 DEF O!NoWriteLost, O!PendingShown
<1>6. OrderInv
  <2>1. FlightIsLast /\ NewestLast BY <1>1, <1>2, IdleParts DEF FlightIsLast, NewestLast
  <2>2. ChangesInside BY <1>1 DEF ChangesInside
  <2> QED BY <2>1, <2>2 DEF OrderInv
<1> QED BY <1>4, <1>5, <1>6 DEF WriteInv

(* The server answers, or the drain starts or stops: only the flight, the     *)
(* fate and the log change.                                                   *)
LEMMA AnswerKeeps ==
  ASSUME OutboxType, WriteInv, FlightAtHead',
         UNCHANGED <<oTarget, oQueue, oOverlay, oHeldIds, oChain, oDurLog, oLogged, oTorn>>,
         \A w \in O!Writes : oFate[w] # "" => oFate'[w] # "",
         \A i \in DOMAIN oLog' : oLog'[i].id <= Len(oTarget)
  PROVE  WriteInv'
<1>1. FlightAtHead /\ Submitted /\ HeldAnswered /\ ChainOrdered /\ SettledInOrder
      /\ QueueLogged /\ QueueInOrder /\ O!NoWriteLost /\ O!PendingShown
  BY DEF WriteInv
<1>2. \A w : /\ InQueue(w)' <=> InQueue(w)
             /\ Waiting(w)' <=> Waiting(w)
             /\ Appending(w)' <=> Appending(w)
             /\ Settling(w)' <=> Settling(w)
             /\ Known(w)' <=> Known(w)
             /\ Standing(w)' <=> Standing(w)
  BY DEF InQueue, Waiting, Appending, Settling, Known, Standing
<1>3. Submitted' BY <1>1, <1>2 DEF Submitted
<1>4. HeldAnswered'
  <2>1. \A i \in DOMAIN oDurLog : oDurLog[i].id \in O!Writes
    <3>1. oDurLog \in Seq(Entry) BY DEF OutboxType
    <3> QED BY <3>1, EntryIds
  <2> QED BY <1>1, <1>2, <2>1 DEF HeldAnswered
<1>5. ChainOrdered' BY <1>1, <1>2 DEF ChainOrdered
<1>6. SettledInOrder' BY <1>1, <1>2 DEF SettledInOrder
<1>7. QueueLogged' BY <1>1, <1>2 DEF QueueLogged
<1>8. QueueInOrder' BY <1>1, <1>2 DEF QueueInOrder
<1>9. O!NoWriteLost'
  <2>1. oLogged \subseteq O!Writes BY DEF OutboxType
  <2> QED BY <1>1, <2>1 DEF O!NoWriteLost
<1>10. O!PendingShown' BY <1>1 DEF O!PendingShown
<1> QED BY <1>3, <1>4, <1>5, <1>6, <1>7, <1>8, <1>9, <1>10 DEF WriteInv

(* Before a write settles, every older one has. *)
LEMMA OlderSettling ==
  ASSUME OutboxType, WriteInv, NEW w \in O!Writes, NEW a \in O!Writes, a < w, Standing(a), Known(w),
         ~InQueue(w) \/ (oQueue # <<>> /\ w = oQueue[1])
  PROVE  Settling(a)
<1>1. QueueLogged /\ QueueInOrder BY DEF WriteInv
<1>2. SUFFICES ASSUME InQueue(a) PROVE FALSE BY <1>1 DEF QueueLogged
<1>3. InQueue(w) BY <1>1, <1>2 DEF QueueInOrder, Standing
<1>4. oQueue \in Seq(O!Writes) /\ w = oQueue[1] /\ oQueue # <<>> BY <1>3 DEF OutboxType
<1>5. PICK i \in DOMAIN oQueue : oQueue[i] = a BY <1>2 DEF InQueue
<1>6. i \in Nat /\ (i = 1 \/ 1 < i) /\ 1 \in DOMAIN oQueue BY <1>4, <1>5, EmptySeq
<1>7. i = 1 \/ oQueue[1] < oQueue[i] BY <1>1, <1>5, <1>6 DEF QueueLogged, Increasing
<1>8. a \in Nat /\ w \in Nat BY DEF O!Writes
<1> QED BY <1>4, <1>5, <1>7, <1>8

(* The chain grows by writes of the slice and by what settles writes of D. *)
Grows(ch, ci, D) ==
  /\ Len(ch) <= Len(ci) /\ \A i \in DOMAIN ch : i \in DOMAIN ci /\ ci[i] = ch[i]
  /\ \A i \in DOMAIN ci :
       \/ i \in DOMAIN ch
       \/ i > Len(ch) /\ (O!OfSlice(ci[i]) \/ \E w \in D : Settles(ci[i], w))

(* What a chain that grew by settling writes holds. *)
LEMMA GrownChain ==
  ASSUME NEW ch \in Seq(ChainWrite), NEW ci \in Seq(ChainWrite), NEW D, Grows(ch, ci, D)
  PROVE  /\ \A i \in DOMAIN ci : \/ i \in DOMAIN ch /\ ci[i] = ch[i]
                                 \/ /\ i > Len(ch) /\ i \notin DOMAIN ch
                                    /\ \A w : ~Logs(ci[i], w) /\ (Settles(ci[i], w) => w \in D)
         /\ \A i \in DOMAIN ch : i \in DOMAIN ci /\ ci[i] = ch[i]
         /\ DOMAIN ch = 1 .. Len(ch) /\ DOMAIN ci = 1 .. Len(ci) /\ Len(ch) \in Nat /\ Len(ci) \in Nat
<1>1. /\ DOMAIN ch = 1 .. Len(ch) /\ DOMAIN ci = 1 .. Len(ci) /\ Len(ch) \in Nat /\ Len(ci) \in Nat
  OBVIOUS
<1>2. \A i \in DOMAIN ch : i \in DOMAIN ci /\ ci[i] = ch[i] BY DEF Grows
<1>3. ASSUME NEW i \in DOMAIN ci
      PROVE  \/ i \in DOMAIN ch /\ ci[i] = ch[i]
             \/ /\ i > Len(ch) /\ i \notin DOMAIN ch
                /\ \A w : ~Logs(ci[i], w) /\ (Settles(ci[i], w) => w \in D)
  <2>1. CASE i \in DOMAIN ch BY <1>2, <2>1
  <2>2. CASE i \notin DOMAIN ch
    <3>1. i > Len(ch) /\ (O!OfSlice(ci[i]) \/ \E w \in D : Settles(ci[i], w)) BY <2>2 DEF Grows
    <3>2. ASSUME NEW w PROVE ~Logs(ci[i], w) /\ (Settles(ci[i], w) => w \in D)
      BY <3>1 DEF O!OfSlice, Logs, Settles
    <3> QED BY <2>2, <3>1, <3>2
  <2> QED BY <2>1, <2>2
<1> QED BY <1>1, <1>2, <1>3

(* What settling the writes D does to the queue, the overlay and the chain. *)
SettlesWrites(D) ==
  /\ Grows(oChain, oChain', D)
  /\ \A w \in D : oFate[w] # "" /\ w <= Len(oTarget) /\ ~InQueue(w)'
                  /\ (~InQueue(w) \/ (oQueue # <<>> /\ w = oQueue[1]))
  /\ \A w : InQueue(w)' => InQueue(w)
  /\ \A w \in O!Writes : InQueue(w) /\ ~InQueue(w)' => Settling(w)'
  /\ Increasing(oQueue')
  /\ \A a, b \in O!Writes : a < b /\ InQueue(a)' /\ InQueue(b) => InQueue(b)'
  /\ oHeldIds' \subseteq oHeldIds \cup D
  /\ \A i \in DOMAIN oOverlay' : \E j \in DOMAIN oOverlay :
       /\ oOverlay'[i].id = oOverlay[j].id
       /\ oOverlay'[i].held => oOverlay[j].held \/ oOverlay[j].id \in D
  /\ \A w : InQueue(w)' => w \in O!Ids(oOverlay')

(* Settling answered writes, queue and overlay included, keeps the invariant. *)
LEMMA SettlingKeeps ==
  ASSUME OutboxType, OutboxType', WriteInv, FlightAtHead',
         UNCHANGED <<oFate, oTarget, oLog, oDurLog, oLogged, oTorn>>,
         NEW D \in SUBSET O!Writes, SettlesWrites(D)
  PROVE  WriteInv'
<1>1. FlightAtHead /\ Submitted /\ HeldAnswered /\ ChainOrdered /\ SettledInOrder
      /\ QueueLogged /\ QueueInOrder /\ O!NoWriteLost /\ O!PendingShown
  BY DEF WriteInv
<1>2. oChain \in Seq(ChainWrite) /\ oChain' \in Seq(ChainWrite) BY DEF OutboxType
<1>c. Grows(oChain, oChain', D) BY DEF SettlesWrites
<1>3. \A i \in DOMAIN oChain' : \/ i \in DOMAIN oChain /\ oChain'[i] = oChain[i]
                                \/ /\ i > Len(oChain) /\ i \notin DOMAIN oChain
                                   /\ \A w : ~Logs(oChain'[i], w) /\ (Settles(oChain'[i], w) => w \in D)
  BY <1>2, <1>c, GrownChain
<1>4. /\ \A i \in DOMAIN oChain : i \in DOMAIN oChain' /\ oChain'[i] = oChain[i]
      /\ DOMAIN oChain = 1 .. Len(oChain) /\ DOMAIN oChain' = 1 .. Len(oChain')
      /\ Len(oChain) \in Nat /\ Len(oChain') \in Nat
  BY <1>2, <1>c, GrownChain
<1>5. ASSUME NEW w PROVE Appending(w)' <=> Appending(w) BY <1>3, <1>4 DEF Appending
<1>6. ASSUME NEW w
      PROVE  /\ Settling(w) => Settling(w)'
             /\ Settling(w)' => Settling(w) \/ w \in D
  BY <1>3, <1>4 DEF Settling
<1>7. ASSUME NEW w
      PROVE  /\ Waiting(w)' <=> Waiting(w)
             /\ Known(w)' <=> Known(w)
             /\ Standing(w)' <=> Standing(w)
  BY <1>5 DEF Waiting, Known, Standing
<1>a. \A w \in D : oFate[w] # "" /\ w <= Len(oTarget) /\ ~InQueue(w)'
                   /\ (~InQueue(w) \/ (oQueue # <<>> /\ w = oQueue[1]))
  BY DEF SettlesWrites
<1>b. \A w : InQueue(w)' => InQueue(w) BY DEF SettlesWrites
<1>d. \A i \in DOMAIN oOverlay' : \E j \in DOMAIN oOverlay :
        /\ oOverlay'[i].id = oOverlay[j].id
        /\ oOverlay'[i].held => oOverlay[j].held \/ oOverlay[j].id \in D
  BY DEF SettlesWrites
<1>8. Submitted'
  <2>1. O!Ids(oOverlay') \subseteq O!Ids(oOverlay) BY <1>d DEF O!Ids
  <2>2. oHeldIds' \subseteq oHeldIds \cup D BY DEF SettlesWrites
  <2>3. ASSUME NEW w \in O!Writes,
               (InQueue(w) \/ w \in oHeldIds \/ w \in O!Ids(oOverlay) \/ Known(w) \/ Settling(w))'
        PROVE  w <= Len(oTarget)
    <3>1. w \in D \/ InQueue(w) \/ w \in oHeldIds \/ w \in O!Ids(oOverlay) \/ Known(w) \/ Settling(w)
      BY <1>b, <1>6, <1>7, <2>1, <2>2, <2>3
    <3> QED BY <1>1, <1>a, <3>1 DEF Submitted
  <2> QED BY <1>1, <2>3 DEF Submitted
<1>9. HeldAnswered'
  <2>2. oHeldIds' \subseteq oHeldIds \cup D BY DEF SettlesWrites
  <2>1. ASSUME NEW w \in O!Writes,
               \/ w \in oHeldIds' \/ Settling(w)'
               \/ \E i \in DOMAIN oOverlay' : oOverlay'[i].id = w /\ oOverlay'[i].held
        PROVE  oFate[w] # "" /\ ~InQueue(w)'
    <3>1. CASE w \in D BY <1>a, <3>1
    <3>2. CASE w \notin D
      <4>1. \/ w \in oHeldIds \/ Settling(w)
            \/ \E i \in DOMAIN oOverlay : oOverlay[i].id = w /\ oOverlay[i].held
        <5>1. CASE w \in oHeldIds' BY <2>2, <3>2, <5>1
        <5>2. CASE Settling(w)' BY <1>6, <3>2, <5>2
        <5>3. CASE \E i \in DOMAIN oOverlay' : oOverlay'[i].id = w /\ oOverlay'[i].held
          <6>1. PICK i \in DOMAIN oOverlay' : oOverlay'[i].id = w /\ oOverlay'[i].held BY <5>3
          <6>2. PICK j \in DOMAIN oOverlay : oOverlay'[i].id = oOverlay[j].id
                  /\ (oOverlay'[i].held => oOverlay[j].held \/ oOverlay[j].id \in D)
            BY <1>d, <6>1
          <6> QED BY <3>2, <6>1, <6>2
        <5> QED BY <2>1, <5>1, <5>2, <5>3
      <4> QED BY <1>1, <1>b, <4>1 DEF HeldAnswered
    <3> QED BY <3>1, <3>2
  <2>3. \A i \in DOMAIN oDurLog : oDurLog[i].held => oFate[oDurLog[i].id] # ""
    BY <1>1 DEF HeldAnswered
  <2> QED BY <2>1, <2>3 DEF HeldAnswered
<1>10. ChainOrdered'
  <2>1. ASSUME NEW a \in O!Writes, NEW b \in O!Writes, NEW i \in DOMAIN oChain', NEW j \in DOMAIN oChain'
        PROVE  /\ Logs(oChain'[i], a) /\ Logs(oChain'[j], b) /\ i < j => a < b
               /\ Logs(oChain'[i], a) /\ Settles(oChain'[j], a) => i < j
    <3>1. CASE ~Logs(oChain'[i], a) BY <3>1
    <3>2. CASE Logs(oChain'[i], a)
      <4>1. i \in DOMAIN oChain /\ oChain'[i] = oChain[i] BY <1>3, <3>2
      <4>2. CASE j \in DOMAIN oChain /\ oChain'[j] = oChain[j]
        BY <1>1, <4>1, <4>2 DEF ChainOrdered
      <4>3. CASE j > Len(oChain) /\ ~Logs(oChain'[j], b)
        <5>1. i < j BY <1>4, <4>1, <4>3
        <5> QED BY <4>3, <5>1
      <4> QED BY <1>3, <4>2, <4>3
    <3> QED BY <3>1, <3>2
  <2>2. /\ \A a, b \in O!Writes : a \in oLogged /\ Appending(b) => a < b
        /\ O!Ids(oDurLog) \subseteq oLogged
        /\ \A i, j \in DOMAIN oDurLog : i < j => oDurLog[i].id < oDurLog[j].id
    BY <1>1 DEF ChainOrdered
  <2>3. \A a, b \in O!Writes : a \in oLogged /\ Appending(b)' => a < b BY <1>5, <2>2
  <2> QED BY <2>1, <2>2, <2>3 DEF ChainOrdered, O!Ids
<1>11. SettledInOrder'
  <2>1. ASSUME NEW a \in O!Writes, NEW b \in O!Writes, NEW j \in DOMAIN oChain', a < b,
               Standing(a), Known(b), Settles(oChain'[j], b)
        PROVE  \E i \in 1 .. j - 1 : Settles(oChain'[i], a)
    <3>1. CASE j \in DOMAIN oChain /\ oChain'[j] = oChain[j]
      <4>1. PICK i \in 1 .. j - 1 : Settles(oChain[i], a)
        BY <1>1, <2>1, <3>1 DEF SettledInOrder
      <4>2. i \in DOMAIN oChain BY <1>4, <3>1
      <4> QED BY <1>4, <4>1, <4>2
    <3>2. CASE j > Len(oChain) /\ b \in D
      <4>1. Settling(a) BY <1>a, <2>1, <3>2, OlderSettling
      <4>2. PICK i \in DOMAIN oChain : Settles(oChain[i], a) BY <4>1 DEF Settling
      <4>3. i \in 1 .. j - 1 BY <1>4, <3>2
      <4> QED BY <1>4, <4>2, <4>3
    <3> QED BY <1>3, <2>1, <3>1, <3>2
  <2>2. \A a, b \in O!Writes : a < b /\ a \notin oTorn /\ b \in oLogged /\ Waiting(a) => Waiting(b)
    BY <1>1 DEF SettledInOrder
  <2>3. \A a, b \in O!Writes : a < b /\ a \notin oTorn /\ b \in oLogged /\ Waiting(a)' => Waiting(b)'
    BY <1>7, <2>2
  <2>4. \A a, b \in O!Writes : \A j \in DOMAIN oChain' :
          a < b /\ Standing(a)' /\ Known(b)' /\ Settles(oChain'[j], b)
          => \E i \in 1 .. j - 1 : Settles(oChain'[i], a)
    BY <1>7, <2>1
  <2> QED BY <2>3, <2>4 DEF SettledInOrder
<1>12. QueueLogged'
  <2>1. Increasing(oQueue') /\ \A w \in O!Writes : InQueue(w) /\ ~InQueue(w)' => Settling(w)'
    BY DEF SettlesWrites
  <2>2. \A a \in O!Writes : Standing(a)' => InQueue(a)' \/ Settling(a)'
    BY <1>1, <1>6, <1>7, <2>1 DEF QueueLogged
  <2>3. \A b \in O!Writes : InQueue(b)' /\ b \in oLogged => Waiting(b)'
    BY <1>1, <1>b, <1>7 DEF QueueLogged
  <2> QED BY <2>1, <2>2, <2>3 DEF QueueLogged
<1>13. QueueInOrder'
  <2>1. \A a, b \in O!Writes : a < b /\ InQueue(a)' /\ InQueue(b) => InQueue(b)'
    BY DEF SettlesWrites
  <2>2. \A a, b \in O!Writes : a < b /\ a \notin oTorn /\ InQueue(a)' /\ Known(b)' => InQueue(b)'
    BY <1>1, <1>b, <1>7, <2>1 DEF QueueInOrder
  <2> QED BY <2>2 DEF QueueInOrder
<1>14. O!NoWriteLost' BY <1>1 DEF O!NoWriteLost, O!Ids
<1>15. O!PendingShown'
  <2>1. \A w : InQueue(w)' => w \in O!Ids(oOverlay') BY DEF SettlesWrites
  <2> QED BY <2>1 DEF O!PendingShown, InQueue
<1> QED BY <1>8, <1>9, <1>10, <1>11, <1>12, <1>13, <1>14, <1>15 DEF WriteInv

(* One settling write at the end of the chain. *)
LEMMA AppendGrows ==
  ASSUME NEW ch \in Seq(ChainWrite), NEW c, NEW D, O!OfSlice(c) \/ \E w \in D : Settles(c, w)
  PROVE  Grows(ch, Append(ch, c), D)
<1> DEFINE ci == Append(ch, c)
<1>1. /\ Len(ch) \in Nat /\ DOMAIN ch = 1 .. Len(ch) /\ Len(ci) = Len(ch) + 1 /\ DOMAIN ci = 1 .. Len(ch) + 1
      /\ \A i \in 1 .. Len(ch) : ci[i] = ch[i]
      /\ ci[Len(ch) + 1] = c
  OBVIOUS
<1> HIDE DEF ci
<1>2. \A i \in DOMAIN ch : i \in DOMAIN ci /\ ci[i] = ch[i] BY <1>1
<1>3. \A i \in DOMAIN ci : i \in DOMAIN ch \/ (i > Len(ch) /\ ci[i] = c) BY <1>1
<1>4. Len(ch) <= Len(ci) BY <1>1
<1>5. Grows(ch, ci, D) BY <1>2, <1>3, <1>4 DEF Grows
<1> QED BY <1>5 DEF ci

(* The front of the queue leaves it. *)
LEMMA TailOfQueue ==
  ASSUME NEW q \in Seq(O!Writes), q # <<>>, Increasing(q)
  PROVE  /\ Increasing(Tail(q))
         /\ \A w : (\E i \in DOMAIN Tail(q) : Tail(q)[i] = w) <=> (\E i \in DOMAIN q : q[i] = w) /\ w # q[1]
         /\ \A w : (\E i \in DOMAIN q : q[i] = w) => q[1] <= w
<1> DEFINE r == Tail(q)
           n == Len(q)
<1>1. /\ n \in Nat \ {0} /\ DOMAIN q = 1 .. n /\ DOMAIN r = 1 .. n - 1
      /\ \A i \in 1 .. n - 1 : r[i] = q[i + 1]
      /\ \A i \in 1 .. n : q[i] \in O!Writes
  <2>1. n \in Nat \ {0} BY EmptySeq
  <2> QED BY <2>1
<1>2. \A i \in 1 .. n : q[i] \in Nat BY <1>1 DEF O!Writes
<1>3. \A i, j \in 1 .. n : i < j => q[i] < q[j] BY <1>1 DEF Increasing
<1> HIDE DEF r, n
<1>4. Increasing(r)
  <2> SUFFICES ASSUME NEW i \in DOMAIN r, NEW j \in DOMAIN r, i < j PROVE r[i] < r[j]
    BY DEF Increasing
  <2>1. i + 1 \in 1 .. n /\ j + 1 \in 1 .. n /\ i + 1 < j + 1 BY <1>1
  <2>2. q[i + 1] < q[j + 1] BY <1>3, <2>1
  <2> QED BY <1>1, <2>2
<1>5. ASSUME NEW i \in 1 .. n PROVE i = 1 \/ q[1] < q[i]
  BY <1>1, <1>3, <1>5
<1>6. ASSUME NEW w, NEW i \in DOMAIN r, r[i] = w
      PROVE  (\E j \in DOMAIN q : q[j] = w) /\ w # q[1]
  <2>1. i + 1 \in 1 .. n /\ i + 1 # 1 /\ q[i + 1] = w BY <1>1, <1>6
  <2>2. q[1] < q[i + 1] /\ q[1] \in Nat BY <1>1, <1>2, <1>5, <2>1
  <2> QED BY <1>1, <2>1, <2>2
<1>7. ASSUME NEW w, NEW i \in DOMAIN q, q[i] = w, w # q[1]
      PROVE  \E j \in DOMAIN r : r[j] = w
  <2>1. i - 1 \in 1 .. n - 1 /\ (i - 1) + 1 = i BY <1>1, <1>7
  <2> QED BY <1>1, <1>7, <2>1
<1>8. ASSUME NEW w, NEW i \in DOMAIN q, q[i] = w PROVE q[1] <= w
  BY <1>1, <1>2, <1>5, <1>8
<1> QED BY <1>4, <1>6, <1>7, <1>8 DEF r

(* A write is answered: it leaves the queue, and the chain settles it. *)
LEMMA AnsweredSettles ==
  ASSUME OutboxType, WriteInv, oFlight # O!Idle, oFlight.st # "sent", NEW c, NEW x, x = oFlight.id,
         oQueue' = Tail(oQueue), oChain' = Append(oChain, c), Settles(c, x),
         oHeldIds' \subseteq oHeldIds \cup {x},
         \A i \in DOMAIN oOverlay' : \E j \in DOMAIN oOverlay :
           /\ oOverlay'[i].id = oOverlay[j].id
           /\ oOverlay'[i].held => oOverlay[j].held \/ oOverlay[j].id = x,
         \A j \in DOMAIN oOverlay : oOverlay[j].id # x =>
           \E i \in DOMAIN oOverlay' : oOverlay'[i].id = oOverlay[j].id
  PROVE  SettlesWrites({x}) /\ x \in O!Writes
<1>1. FlightAtHead /\ Submitted /\ QueueLogged /\ O!PendingShown BY DEF WriteInv
<1>2. /\ oQueue \in Seq(O!Writes) /\ oQueue # <<>> /\ x = oQueue[1] /\ x \in O!Writes
      /\ oFate[x] = oFlight.st /\ 1 \in DOMAIN oQueue
  <2>1. /\ oQueue \in Seq(O!Writes) /\ oQueue # <<>> /\ Len(oQueue) \in Nat \ {0}
        /\ x = oQueue[1] /\ x \in O!Writes /\ oFate[x] = oFlight.st
    BY <1>1, FlightFront
  <2> QED BY <2>1
<1>3. Increasing(oQueue) BY <1>1 DEF QueueLogged
<1>4. \A w : InQueue(w)' <=> InQueue(w) /\ w # x
  <2>1. \A w : (\E i \in DOMAIN Tail(oQueue) : Tail(oQueue)[i] = w)
               <=> (\E i \in DOMAIN oQueue : oQueue[i] = w) /\ w # oQueue[1]
    BY <1>2, <1>3, TailOfQueue
  <2> QED BY <1>2, <2>1 DEF InQueue
<1>5. Increasing(oQueue') BY <1>2, <1>3, TailOfQueue
<1>6. \A w : InQueue(w) => x <= w
  <2>1. \A w : (\E i \in DOMAIN oQueue : oQueue[i] = w) => oQueue[1] <= w
    BY <1>2, <1>3, TailOfQueue
  <2> QED BY <1>2, <2>1 DEF InQueue
<1>7. oChain \in Seq(ChainWrite) BY DEF OutboxType
<1>8. Grows(oChain, oChain', {x}) BY <1>7, AppendGrows
<1>9. Settling(x)'
  <2>1. Len(oChain) + 1 \in DOMAIN oChain' /\ oChain'[Len(oChain) + 1] = c BY <1>7
  <2> QED BY <2>1 DEF Settling
<1>10. oFate[x] # "" /\ x <= Len(oTarget)
  <2>1. InQueue(x) BY <1>2 DEF InQueue
  <2>2. x <= Len(oTarget) BY <1>1, <1>2, <2>1 DEF Submitted
  <2>3. oFlight.st # ""
    <3>1. oFlight.st \in {"sent", "applied", "refused"} BY <1>1 DEF FlightAtHead
    <3> QED BY <3>1
  <2> QED BY <1>2, <2>2, <2>3
<1>11. \A a, b \in O!Writes : a < b /\ InQueue(a)' /\ InQueue(b) => InQueue(b)'
  <2> SUFFICES ASSUME NEW a \in O!Writes, NEW b \in O!Writes, a < b, InQueue(a)', InQueue(b)
               PROVE  b # x
    BY <1>4
  <2>1. x <= a BY <1>4, <1>6
  <2>2. a \in Nat /\ b \in Nat /\ x \in Nat BY <1>2 DEF O!Writes
  <2> QED BY <2>1, <2>2
<1>12. \A w : InQueue(w)' => w \in O!Ids(oOverlay')
  <2> SUFFICES ASSUME NEW w, InQueue(w), w # x PROVE w \in O!Ids(oOverlay') BY <1>4
  <2>1. w \in O!Ids(oOverlay) BY <1>1 DEF O!PendingShown, InQueue
  <2>2. PICK j \in DOMAIN oOverlay : oOverlay[j].id = w BY <2>1 DEF O!Ids
  <2>3. PICK i \in DOMAIN oOverlay' : oOverlay'[i].id = w BY <2>2
  <2> QED BY <2>3 DEF O!Ids
<1>13. \A i \in DOMAIN oOverlay' : \E j \in DOMAIN oOverlay :
         /\ oOverlay'[i].id = oOverlay[j].id
         /\ oOverlay'[i].held => oOverlay[j].held \/ oOverlay[j].id \in {x}
  OBVIOUS
<1> QED
  BY <1>2, <1>4, <1>5, <1>8, <1>9, <1>10, <1>11, <1>12, <1>13 DEF SettlesWrites

(* Held writes are settled: the queue is left alone. *)
LEMMA HeldSettles ==
  ASSUME OutboxType, WriteInv, NEW D \in SUBSET O!Writes, UNCHANGED oQueue, Grows(oChain, oChain', D),
         \A w \in D : \/ w \in oHeldIds
                      \/ \E i \in DOMAIN oOverlay : oOverlay[i].id = w /\ oOverlay[i].held,
         oHeldIds' \subseteq oHeldIds,
         \A i \in DOMAIN oOverlay' : \E j \in DOMAIN oOverlay : oOverlay'[i] = oOverlay[j],
         \A j \in DOMAIN oOverlay : oOverlay[j].id \notin D =>
           \E i \in DOMAIN oOverlay' : oOverlay'[i] = oOverlay[j]
  PROVE  SettlesWrites(D)
<1>1. Submitted /\ HeldAnswered /\ QueueLogged /\ O!PendingShown BY DEF WriteInv
<1>2. \A w : InQueue(w)' <=> InQueue(w) BY DEF InQueue
<1>3. ASSUME NEW w \in D PROVE oFate[w] # "" /\ w <= Len(oTarget) /\ ~InQueue(w)
  <2>1. w \in O!Writes OBVIOUS
  <2>2. oFate[w] # "" /\ ~InQueue(w) BY <1>1, <2>1 DEF HeldAnswered
  <2>3. w \in oHeldIds \/ w \in O!Ids(oOverlay) BY DEF O!Ids
  <2> QED BY <1>1, <2>1, <2>2, <2>3 DEF Submitted
<1>4. Increasing(oQueue') BY <1>1 DEF QueueLogged
<1>5. ASSUME NEW w, InQueue(w) PROVE w \in O!Ids(oOverlay')
  <2>1. w \in O!Ids(oOverlay) /\ w \notin D BY <1>1, <1>3, <1>5 DEF O!PendingShown, InQueue
  <2>2. PICK j \in DOMAIN oOverlay : oOverlay[j].id = w BY <2>1 DEF O!Ids
  <2>3. PICK i \in DOMAIN oOverlay' : oOverlay'[i] = oOverlay[j] BY <2>1, <2>2
  <2> QED BY <2>2, <2>3 DEF O!Ids
<1>6. \A i \in DOMAIN oOverlay' : \E j \in DOMAIN oOverlay :
         /\ oOverlay'[i].id = oOverlay[j].id
         /\ oOverlay'[i].held => oOverlay[j].held \/ oOverlay[j].id \in D
  OBVIOUS
<1>7. \A w \in D : oFate[w] # "" /\ w <= Len(oTarget) /\ ~InQueue(w)'
                  /\ (~InQueue(w) \/ (oQueue # <<>> /\ w = oQueue[1]))
  BY <1>2, <1>3
<1>8. \A w : InQueue(w)' => w \in O!Ids(oOverlay') BY <1>2, <1>5
<1>9. oHeldIds' \subseteq oHeldIds \cup D OBVIOUS
<1> QED BY <1>2, <1>4, <1>6, <1>7, <1>8, <1>9 DEF SettlesWrites

(* The log grows by a change whose write was submitted. *)
LEMMA LogSubmitted ==
  ASSUME OutboxType, Submitted, NEW e, oLog' = Append(oLog, e), e.id <= Len(oTarget)
  PROVE  \A i \in DOMAIN oLog' : oLog'[i].id <= Len(oTarget)
<1>1. oLog \in Seq(LogEntry) BY DEF OutboxType
<1>2. \A i \in DOMAIN oLog' : (i \in DOMAIN oLog /\ oLog'[i] = oLog[i]) \/ oLog'[i] = e BY <1>1
<1> QED BY <1>2 DEF Submitted

(* flush(), the server and a lost answer leave what is logged alone. *)
LEMMA AnswerStep ==
  ASSUME OutboxType, WriteInv,
         \/ \E k \in Rows, gone \in BOOLEAN : O!PeerWrites(k, gone)
         \/ O!Flush \/ O!ServerApplies \/ O!ServerRefuses \/ O!Retry \/ O!Resumes \/ O!StreamBreaks
  PROVE  WriteInv'
<1> USE DEF O!serverVars, O!memVars, O!sliceVars, O!durVars
<1>0. FlightAtHead /\ Submitted BY DEF WriteInv
<1>1. oFate \in [O!Writes -> Fates] /\ oQueue \in Seq(O!Writes) /\ Len(oTarget) \in Nat /\ oFlight \in FlightValues
  BY DEF OutboxType
<1>2. \A i \in DOMAIN oLog : oLog[i].id <= Len(oTarget) BY <1>0 DEF Submitted
<1>3. ASSUME NEW k \in Rows, NEW gone \in BOOLEAN, O!PeerWrites(k, gone) PROVE WriteInv'
  <2>1. /\ oLog' = Append(oLog, [key |-> k, id |-> 0, gone |-> gone])
        /\ UNCHANGED <<oFate, oTarget, oFlight, O!memVars, oChain, O!durVars>>
    BY <1>3 DEF O!PeerWrites
  <2>2. \A i \in DOMAIN oLog' : oLog'[i].id <= Len(oTarget)
    <3>1. [key |-> k, id |-> 0, gone |-> gone].id <= Len(oTarget) BY <1>1
    <3> QED BY <1>0, <2>1, <3>1, LogSubmitted
  <2>3. FlightAtHead' BY <1>0, <2>1 DEF FlightAtHead
  <2> QED BY <2>1, <2>2, <2>3, AnswerKeeps
<1>4. CASE O!Flush
  <2>1. /\ oFlight' = O!Sends(oQueue) /\ oQueue # <<>>
        /\ UNCHANGED <<O!serverVars, oTarget, O!memVars, oChain, O!durVars>>
    BY <1>4 DEF O!Flush
  <2>2. FlightAtHead' BY <1>1, <2>1, SendsFront DEF FlightAtHead
  <2> QED BY <1>2, <2>1, <2>2, AnswerKeeps
<1>5. CASE O!ServerApplies
  <2>1. /\ oFlight.st = "sent" /\ oFlight' = [oFlight EXCEPT !.st = "applied"]
        /\ oFate' = [oFate EXCEPT ![oFlight.id] = "applied"]
        /\ oLog' = IF oTarget[oFlight.id] = Outside THEN oLog
                  ELSE Append(oLog, [key |-> oTarget[oFlight.id], id |-> oFlight.id, gone |-> FALSE])
        /\ UNCHANGED <<oTarget, O!memVars, oChain, O!durVars>>
    BY <1>5 DEF O!ServerApplies
  <2>2. oFlight # O!Idle BY <2>1, IdleParts
  <2>3. /\ oQueue # <<>> /\ Len(oQueue) \in Nat \ {0} /\ oFlight.id = oQueue[1] /\ oFlight.id \in O!Writes
    BY <1>0, <2>2, FlightFront
  <2>4. InQueue(oFlight.id) BY <1>1, <2>3 DEF InQueue
  <2>5. oFlight.id <= Len(oTarget) BY <1>0, <2>3, <2>4 DEF Submitted
  <2>6. \A i \in DOMAIN oLog' : oLog'[i].id <= Len(oTarget)
    <3>1. [key |-> oTarget[oFlight.id], id |-> oFlight.id, gone |-> FALSE].id <= Len(oTarget)
      BY <2>5
    <3>2. CASE oLog' = oLog BY <1>2, <3>2
    <3>3. CASE oLog' = Append(oLog, [key |-> oTarget[oFlight.id], id |-> oFlight.id, gone |-> FALSE])
      BY <1>0, <3>1, <3>3, LogSubmitted
    <3> QED BY <2>1, <3>2, <3>3
  <2>7. oFlight'.id = oFlight.id /\ oFlight'.st = "applied" BY <1>1, <2>1 DEF FlightValues
  <2>8. oFate'[oFlight.id] = "applied" /\ \A w \in O!Writes : oFate[w] # "" => oFate'[w] # ""
    BY <1>1, <2>1, <2>3
  <2>9. FlightAtHead' BY <2>1, <2>3, <2>7, <2>8 DEF FlightAtHead
  <2> QED BY <2>1, <2>6, <2>8, <2>9, AnswerKeeps
<1>6. CASE O!ServerRefuses
  <2>1. /\ oFlight.st = "sent" /\ oFlight' = [oFlight EXCEPT !.st = "refused"]
        /\ oFate' = [oFate EXCEPT ![oFlight.id] = "refused"]
        /\ UNCHANGED <<oLog, oTarget, O!memVars, oChain, O!durVars>>
    BY <1>6 DEF O!ServerRefuses
  <2>2. oFlight # O!Idle BY <2>1, IdleParts
  <2>3. oQueue # <<>> /\ oFlight.id = oQueue[1] /\ oFlight.id \in O!Writes
    BY <1>0, <2>2, FlightFront
  <2>7. oFlight'.id = oFlight.id /\ oFlight'.st = "refused" BY <1>1, <2>1 DEF FlightValues
  <2>8. oFate'[oFlight.id] = "refused" /\ \A w \in O!Writes : oFate[w] # "" => oFate'[w] # ""
    BY <1>1, <2>1, <2>3
  <2>9. FlightAtHead' BY <2>1, <2>3, <2>7, <2>8 DEF FlightAtHead
  <2> QED BY <1>2, <2>1, <2>8, <2>9, AnswerKeeps
<1>7. CASE O!Retry
  <2>1. oFlight' = O!Idle /\ UNCHANGED <<O!serverVars, oTarget, O!memVars, oChain, O!durVars>>
    BY <1>7 DEF O!Retry, O!Keeps
  <2>2. FlightAtHead' BY <2>1 DEF FlightAtHead, O!Idle
  <2> QED BY <1>2, <2>1, <2>2, AnswerKeeps
<1>8. CASE O!Resumes \/ O!StreamBreaks
  <2>1. UNCHANGED <<O!serverVars, oTarget, oFlight, O!memVars, oChain, O!durVars>>
    BY <1>8 DEF O!Resumes, O!StreamBreaks
  <2>2. FlightAtHead' BY <1>0, <2>1 DEF FlightAtHead
  <2> QED BY <1>2, <2>1, <2>2, AnswerKeeps
<1> QED BY <1>3, <1>4, <1>5, <1>6, <1>7, <1>8

(* An echo puts the removal of held writes on the chain ... *)
LEMMA EchoGrows ==
  ASSUME NEW ch \in Seq(ChainWrite), NEW ci \in Seq(ChainWrite), Len(ci) > Len(ch),
         \A i \in 1 .. Len(ch) : ci[i] = ch[i], NEW D,
         \A i \in Len(ch) + 1 .. Len(ci) - 1 : \E w \in D : ci[i] = O!Forget(w),
         O!OfSlice(ci[Len(ci)])
  PROVE  Grows(ch, ci, D)
<1>1. /\ Len(ch) \in Nat /\ Len(ci) \in Nat /\ DOMAIN ch = 1 .. Len(ch) /\ DOMAIN ci = 1 .. Len(ci)
  OBVIOUS
<1>2. ASSUME NEW i \in DOMAIN ci, i \notin DOMAIN ch
      PROVE  i > Len(ch) /\ (O!OfSlice(ci[i]) \/ \E w \in D : Settles(ci[i], w))
  <2>1. i > Len(ch) /\ (i = Len(ci) \/ i \in Len(ch) + 1 .. Len(ci) - 1) BY <1>1, <1>2
  <2>2. CASE i = Len(ci) BY <2>1, <2>2
  <2>3. CASE i \in Len(ch) + 1 .. Len(ci) - 1
    <3>1. PICK w \in D : ci[i] = O!Forget(w) BY <2>3
    <3>2. Settles(ci[i], w) BY <3>1, KindsOfSlice DEF Settles
    <3> QED BY <2>1, <3>2
  <2> QED BY <2>1, <2>2, <2>3
<1> QED BY <1>1, <1>2 DEF Grows

(* ... and takes them, and only them, out of the overlay. *)
LEMMA EchoShape ==
  ASSUME OutboxType, WriteInv, NEW ks, NEW write \in ChainWrite, O!OfSlice(write),
         O!Echo(ks, write), UNCHANGED <<oFate, oTarget, oLog, oFlight, oQueue, oDurLog, oLogged, oTorn>>
  PROVE  FlightAtHead' /\ \E D \in SUBSET O!Writes : SettlesWrites(D)
<1>1. PICK ids \in SUBSET O!Writes :
        /\ \A w \in ids : \E i \in DOMAIN oOverlay : oOverlay[i].id = w /\ oOverlay[i].held
        /\ oOverlay' = O!Without(oOverlay, ids) /\ oHeldIds' = oHeldIds \ ids
        /\ oChain' \in Seq(ChainWrite) /\ Len(oChain') > Len(oChain)
        /\ \A i \in 1 .. Len(oChain) : oChain'[i] = oChain[i]
        /\ \A i \in Len(oChain) + 1 .. Len(oChain') - 1 : \E w \in ids : oChain'[i] = O!Forget(w)
        /\ oChain'[Len(oChain')] = write
  BY EchoSettles
<1>2. oChain \in Seq(ChainWrite) /\ oOverlay \in Seq(Entry) BY DEF OutboxType
<1>3. Grows(oChain, oChain', ids) BY <1>1, <1>2, EchoGrows
<1>4. \A i \in DOMAIN oOverlay' : \E j \in DOMAIN oOverlay : oOverlay'[i] = oOverlay[j]
  BY <1>1, <1>2, WithoutDrops
<1>5. \A j \in DOMAIN oOverlay : oOverlay[j].id \notin ids =>
        \E i \in DOMAIN oOverlay' : oOverlay'[i] = oOverlay[j]
  BY <1>1, <1>2, WithoutDrops
<1>6. oHeldIds' \subseteq oHeldIds BY <1>1
<1>7. SettlesWrites(ids) BY <1>1, <1>3, <1>4, <1>5, <1>6, HeldSettles
<1>8. FlightAtHead' BY DEF WriteInv, FlightAtHead
<1> QED BY <1>7, <1>8

(* Removing other entries leaves an entry in the overlay ... *)
LEMMA WithoutKeeps ==
  ASSUME NEW s \in Seq(Entry), NEW ids, NEW t, t = O!Without(s, ids)
  PROVE  /\ \A i \in DOMAIN t : \E j \in DOMAIN s : t[i] = s[j]
         /\ \A j \in DOMAIN s : s[j].id \notin ids => \E i \in DOMAIN t : t[i] = s[j]
<1>1. \A i \in DOMAIN t : \E j \in DOMAIN s : t[i] = s[j] /\ s[j].id \notin ids BY WithoutDrops
<1>2. \A j \in DOMAIN s : s[j].id \notin ids => \E i \in DOMAIN t : t[i] = s[j] BY WithoutDrops
<1> QED BY <1>1, <1>2

(* ... and so does marking one held. *)
LEMMA MarkedKeeps ==
  ASSUME NEW s \in Seq(Entry), NEW x, NEW t, t = O!MarkedHeld(s, x)
  PROVE  /\ \A i \in DOMAIN t : \E j \in DOMAIN s :
              /\ t[i].id = s[j].id
              /\ t[i].held => s[j].held \/ s[j].id = x
         /\ \A j \in DOMAIN s : s[j].id # x => \E i \in DOMAIN t : t[i].id = s[j].id
<1>1. DOMAIN t = DOMAIN s BY MarkedHeldMarks
<1>2. ASSUME NEW i \in DOMAIN s
      PROVE  t[i].id = s[i].id /\ (t[i].held => s[i].held \/ s[i].id = x)
  BY MarkedHeldMarks
<1> QED BY <1>1, <1>2

(* The steps that settle writes. *)
SettlingShape ==
  /\ FlightAtHead' /\ UNCHANGED <<oFate, oTarget, oLog, oDurLog, oLogged, oTorn>>
  /\ \E D \in SUBSET O!Writes : SettlesWrites(D)

(* The verdicts, the grace timer and the stream settle answered writes. *)
LEMMA SettlingStep ==
  ASSUME OutboxType, OutboxType', WriteInv,
         \/ O!Acked \/ O!Rejected \/ O!ApplyChange \/ O!ApplySnapshot \/ O!ApplyResync
         \/ \E w \in O!Writes : O!Grace(w)
  PROVE  SettlingShape
<1> USE DEF O!serverVars, O!memVars, O!sliceVars, O!durVars
<1>0. FlightAtHead /\ Submitted BY DEF WriteInv
<1>1. /\ oLog \in Seq(LogEntry) /\ oQueue \in Seq(O!Writes) /\ oOverlay \in Seq(Entry) /\ oPos \in Nat
      /\ oChain \in Seq(ChainWrite)
  BY DEF OutboxType
<1>2. CASE O!Acked
  <2>0. PICK x : x = oFlight.id OBVIOUS
  <2>1. /\ oFlight.st = "applied" /\ oQueue' = Tail(oQueue) /\ oOverlay' = O!MarkedHeld(oOverlay, x)
        /\ oChain' = Append(oChain, O!MarkHeld(x)) /\ oHeldIds' = oHeldIds \cup {x} /\ oFlight' = O!Sends(oQueue')
        /\ UNCHANGED <<O!serverVars, oTarget, O!durVars>>
    BY <1>2, <2>0 DEF O!Acked
  <2>2. oFlight # O!Idle /\ oFlight.st # "sent" BY <2>1, IdleParts
  <2>3. Settles(O!MarkHeld(x), x) BY KindsOfSlice DEF Settles
  <2>c. oOverlay \in Seq(Entry) /\ oOverlay' = O!MarkedHeld(oOverlay, x) BY <1>1, <2>1
  <2>4. \A i \in DOMAIN oOverlay' : \E j \in DOMAIN oOverlay :
           /\ oOverlay'[i].id = oOverlay[j].id
           /\ oOverlay'[i].held => oOverlay[j].held \/ oOverlay[j].id = x
    BY <2>c, MarkedKeeps
  <2>5. \A j \in DOMAIN oOverlay : oOverlay[j].id # x =>
           \E i \in DOMAIN oOverlay' : oOverlay'[i].id = oOverlay[j].id
    BY <2>c, MarkedKeeps
  <2>b. oQueue' = Tail(oQueue) /\ oChain' = Append(oChain, O!MarkHeld(x)) /\ oHeldIds' \subseteq oHeldIds \cup {x}
    BY <2>1
  <2>6. SettlesWrites({x}) /\ x \in O!Writes
    BY <2>0, <2>2, <2>3, <2>4, <2>5, <2>b, AnsweredSettles
  <2>7. FlightAtHead'
    <3>1. oQueue' \in Seq(O!Writes) BY DEF OutboxType
    <3> QED BY <2>1, <3>1, SendsFront DEF FlightAtHead, O!Idle
  <2>8. UNCHANGED <<oFate, oTarget, oLog, oDurLog, oLogged, oTorn>> BY <2>1
  <2> QED BY <2>6, <2>7, <2>8 DEF SettlingShape
<1>3. CASE O!Rejected
  <2>0. PICK x : x = oFlight.id OBVIOUS
  <2>1. /\ oFlight.st = "refused" /\ oQueue' = Tail(oQueue) /\ oOverlay' = O!Without(oOverlay, {x})
        /\ oChain' = Append(oChain, O!Forget(x)) /\ oFlight' = O!Sends(oQueue')
        /\ UNCHANGED <<O!serverVars, oTarget, oHeldIds, O!durVars>>
    BY <1>3, <2>0 DEF O!Rejected
  <2>2. oFlight # O!Idle /\ oFlight.st # "sent" BY <2>1, IdleParts
  <2>3. Settles(O!Forget(x), x) BY KindsOfSlice DEF Settles
  <2>a. /\ \A i \in DOMAIN oOverlay' : \E j \in DOMAIN oOverlay : oOverlay'[i] = oOverlay[j]
        /\ \A j \in DOMAIN oOverlay : oOverlay[j].id # x =>
             \E i \in DOMAIN oOverlay' : oOverlay'[i] = oOverlay[j]
    <3>1. PICK D : D = {x} OBVIOUS
    <3>3. oOverlay \in Seq(Entry) /\ oOverlay' = O!Without(oOverlay, D) BY <1>1, <2>1, <3>1
    <3>2. /\ \A i \in DOMAIN oOverlay' : \E j \in DOMAIN oOverlay : oOverlay'[i] = oOverlay[j]
          /\ \A j \in DOMAIN oOverlay : oOverlay[j].id \notin D =>
               \E i \in DOMAIN oOverlay' : oOverlay'[i] = oOverlay[j]
      BY <3>3, WithoutKeeps
    <3> QED BY <3>1, <3>2
  <2>4. \A i \in DOMAIN oOverlay' : \E j \in DOMAIN oOverlay :
           /\ oOverlay'[i].id = oOverlay[j].id
           /\ oOverlay'[i].held => oOverlay[j].held \/ oOverlay[j].id = x
    BY <2>a
  <2>5. \A j \in DOMAIN oOverlay : oOverlay[j].id # x =>
           \E i \in DOMAIN oOverlay' : oOverlay'[i].id = oOverlay[j].id
    BY <2>a
  <2>b. oQueue' = Tail(oQueue) /\ oChain' = Append(oChain, O!Forget(x)) /\ oHeldIds' \subseteq oHeldIds \cup {x}
    BY <2>1
  <2>6. SettlesWrites({x}) /\ x \in O!Writes
    BY <2>0, <2>2, <2>3, <2>4, <2>5, <2>b, AnsweredSettles
  <2>7. FlightAtHead'
    <3>1. oQueue' \in Seq(O!Writes) BY DEF OutboxType
    <3> QED BY <2>1, <3>1, SendsFront DEF FlightAtHead, O!Idle
  <2>8. UNCHANGED <<oFate, oTarget, oLog, oDurLog, oLogged, oTorn>> BY <2>1
  <2> QED BY <2>6, <2>7, <2>8 DEF SettlingShape
<1>4. ASSUME NEW w \in O!Writes, O!Grace(w) PROVE SettlingShape
  <2>1. oHeldIds' = oHeldIds \ {w} /\ UNCHANGED <<O!serverVars, oTarget, oFlight, oQueue, O!durVars>>
    BY <1>4 DEF O!Grace
  <2>2. FlightAtHead' BY <1>0, <2>1 DEF FlightAtHead
  <2>5. UNCHANGED <<oFate, oTarget, oLog, oDurLog, oLogged, oTorn>> BY <2>1
  <2>3. CASE w \in oHeldIds
    <3>0. PICK D : D = {w} OBVIOUS
    <3>1. oOverlay' = O!Without(oOverlay, D) /\ oChain' = Append(oChain, O!Forget(w))
      BY <1>4, <2>3, <3>0 DEF O!Grace
    <3>2. Settles(O!Forget(w), w) BY KindsOfSlice DEF Settles
    <3>3. Grows(oChain, oChain', D) BY <1>1, <3>0, <3>1, <3>2, AppendGrows
    <3>4. /\ \A i \in DOMAIN oOverlay' : \E j \in DOMAIN oOverlay : oOverlay'[i] = oOverlay[j]
          /\ \A j \in DOMAIN oOverlay : oOverlay[j].id \notin D =>
               \E i \in DOMAIN oOverlay' : oOverlay'[i] = oOverlay[j]
      BY <1>1, <3>1, WithoutKeeps
    <3>6. D \in SUBSET O!Writes /\ \A v \in D : v \in oHeldIds BY <2>3, <3>0
    <3>7. UNCHANGED oQueue /\ oHeldIds' \subseteq oHeldIds BY <2>1
    <3>5. SettlesWrites(D) BY <3>3, <3>4, <3>6, <3>7, HeldSettles
    <3> QED BY <2>2, <2>5, <3>5, <3>6 DEF SettlingShape
  <2>4. CASE w \notin oHeldIds
    <3>1. UNCHANGED <<oOverlay, oChain>> BY <1>4, <2>4 DEF O!Grace
    <3>2. Grows(oChain, oChain', {}) BY <1>1, <3>1 DEF Grows
    <3>3. SettlesWrites({}) BY <2>1, <3>1, <3>2, HeldSettles
    <3> QED BY <2>2, <2>5, <3>3 DEF SettlingShape
  <2> QED BY <2>3, <2>4
<1>5. CASE O!ApplyChange
  <2> DEFINE c == oLog[oPos + 1]
             v == IF c.gone THEN 0 ELSE oPos + 1
  <2>1. oPos + 1 \in 1 .. Len(oLog) BY <1>1, <1>5 DEF O!ApplyChange
  <2>2. c \in LogEntry BY <1>1, <2>1
  <2>3. c.key \in Rows /\ v \in Nat /\ oPos + 1 \in CursorValues
    BY <1>1, <2>2 DEF LogEntry, CursorValues
  <2>4. O!Row(c.key, v, oPos + 1) \in ChainWrite /\ O!OfSlice(O!Row(c.key, v, oPos + 1))
    BY <2>3, WritesTyped, KindsOfSlice
  <2>5. O!Echo({c.key}, O!Row(c.key, v, oPos + 1)) BY <1>5 DEF O!ApplyChange
  <2>6. UNCHANGED <<oFate, oTarget, oLog, oFlight, oQueue, oDurLog, oLogged, oTorn>>
    BY <1>5 DEF O!ApplyChange
  <2> HIDE DEF c, v
  <2> QED BY <2>4, <2>5, <2>6, EchoShape DEF SettlingShape
<1>6. CASE O!ApplySnapshot
  <2> DEFINE n == Len(oLog)
             fresh == O!RowsAt(n)
  <2>1. n \in Nat /\ n \in CursorValues BY <1>1 DEF CursorValues
  <2>2. fresh \in RowValues BY <2>1, RowsAtIsRowsOf, RowsTyped
  <2>3. O!Slice(fresh, n) \in ChainWrite /\ O!OfSlice(O!Slice(fresh, n))
    BY <2>1, <2>2, WritesTyped, KindsOfSlice
  <2>4. O!Echo({k \in Rows : fresh[k] # 0}, O!Slice(fresh, n)) BY <1>6 DEF O!ApplySnapshot
  <2>6. UNCHANGED <<oFate, oTarget, oLog, oFlight, oQueue, oDurLog, oLogged, oTorn>>
    BY <1>6 DEF O!ApplySnapshot
  <2> HIDE DEF fresh, n
  <2> QED BY <2>3, <2>4, <2>6, EchoShape DEF SettlingShape
<1>7. CASE O!ApplyResync
  <2>1. /\ oChain' = Append(oChain, O!Slice(O!NoRows, O!NoCursor))
        /\ UNCHANGED <<O!serverVars, oTarget, oFlight, O!memVars, O!durVars>>
    BY <1>7 DEF O!ApplyResync
  <2>2. O!OfSlice(O!Slice(O!NoRows, O!NoCursor)) BY KindsOfSlice
  <2>3. Grows(oChain, oChain', {}) BY <1>1, <2>1, <2>2, AppendGrows
  <2>4. SettlesWrites({}) BY <2>1, <2>3, HeldSettles
  <2>5. FlightAtHead' BY <1>0, <2>1 DEF FlightAtHead
  <2>6. UNCHANGED <<oFate, oTarget, oLog, oDurLog, oLogged, oTorn>> BY <2>1
  <2> QED BY <2>4, <2>5, <2>6 DEF SettlingShape
<1> QED BY <1>2, <1>3, <1>4, <1>5, <1>6, <1>7

(* A list one longer. *)
LEMMA Appended ==
  ASSUME NEW S, NEW q \in Seq(S), NEW e
  PROVE  /\ DOMAIN Append(q, e) = 1 .. Len(q) + 1 /\ DOMAIN q = 1 .. Len(q) /\ Len(q) \in Nat
         /\ \A i \in DOMAIN q : i \in DOMAIN Append(q, e) /\ Append(q, e)[i] = q[i] /\ i < Len(q) + 1
         /\ Len(q) + 1 \in DOMAIN Append(q, e) /\ Append(q, e)[Len(q) + 1] = e
         /\ \A i \in DOMAIN Append(q, e) : i \in DOMAIN q \/ i = Len(q) + 1
         /\ Len(q) + 1 \notin DOMAIN q
OBVIOUS

(* submit(): the newest write, last in the queue, the chain and the overlay. *)
LEMMA SubmitStep ==
  ASSUME OutboxType, WriteInv, NEW k \in Rows \cup {Outside}, O!Submit(k)
  PROVE  WriteInv'
<1> USE DEF O!serverVars, O!memVars, O!sliceVars, O!durVars
<1>0. FlightAtHead /\ Submitted /\ HeldAnswered /\ ChainOrdered /\ SettledInOrder
      /\ QueueLogged /\ QueueInOrder /\ O!NoWriteLost /\ O!PendingShown
  BY DEF WriteInv
<1>1. PICK w : w = Len(oTarget) + 1 OBVIOUS
<1>2. w \in O!Writes /\ Len(oTarget) \in Nat /\ w \in Nat /\ \A v \in O!Writes : v \in Nat
  BY <1>1, RoomLeft DEF O!Submit, O!Writes
<1>3. /\ oTarget' = Append(oTarget, k) /\ oQueue' = Append(oQueue, w) /\ oChain' = Append(oChain, O!Log(w))
      /\ oOverlay' = Append(oOverlay, [id |-> w, held |-> FALSE])
      /\ oFlight' = IF oFlight = O!Idle THEN O!Sends(oQueue') ELSE oFlight
      /\ UNCHANGED <<O!serverVars, oHeldIds, O!durVars>>
  BY <1>1 DEF O!Submit
<1>4. /\ oQueue \in Seq(O!Writes) /\ oChain \in Seq(ChainWrite) /\ oOverlay \in Seq(Entry)
      /\ oTarget \in Seq(Rows \cup {Outside})
  BY DEF OutboxType
<1>5. Len(oTarget') = w BY <1>1, <1>3, <1>4
<1> DEFINE e == O!Log(w)
           n == Len(oChain) + 1
<1>6. /\ \A i \in DOMAIN oChain : i \in DOMAIN oChain' /\ oChain'[i] = oChain[i] /\ i < n
      /\ n \in DOMAIN oChain' /\ oChain'[n] = e
      /\ \A i \in DOMAIN oChain' : i \in DOMAIN oChain \/ i = n
      /\ n \notin DOMAIN oChain /\ n \in Nat /\ DOMAIN oChain \subseteq Nat
  BY <1>3, <1>4, Appended
<1>7. Logs(e, w) /\ (\A v : Logs(e, v) => v = w) /\ (\A v : ~Settles(e, v))
  BY KindsOfSlice DEF Logs, Settles
<1> HIDE DEF e, n
<1>8. ASSUME NEW v \in O!Writes,
             InQueue(v) \/ v \in oHeldIds \/ v \in O!Ids(oOverlay) \/ Known(v) \/ Settling(v)
      PROVE  v < w
  BY <1>0, <1>1, <1>2, <1>8 DEF Submitted
<1>9. ASSUME NEW v PROVE InQueue(v)' <=> InQueue(v) \/ v = w
  <2>1. PICK m : m = Len(oQueue) + 1 OBVIOUS
  <2>2. /\ \A i \in DOMAIN oQueue : i \in DOMAIN oQueue' /\ oQueue'[i] = oQueue[i]
        /\ m \in DOMAIN oQueue' /\ oQueue'[m] = w
        /\ \A i \in DOMAIN oQueue' : i \in DOMAIN oQueue \/ i = m
    BY <1>3, <1>4, <2>1, Appended
  <2> QED BY <2>2 DEF InQueue
<1>10. ASSUME NEW v PROVE Appending(v)' <=> Appending(v) \/ v = w
  BY <1>6, <1>7 DEF Appending
<1>11. ASSUME NEW v PROVE Settling(v)' <=> Settling(v)
  BY <1>6, <1>7 DEF Settling
<1>12. ASSUME NEW v PROVE Waiting(v)' <=> Waiting(v) BY <1>3 DEF Waiting
<1>13. ASSUME NEW v PROVE Known(v)' <=> Known(v) \/ v = w BY <1>3, <1>10 DEF Known
<1>14. ASSUME NEW v PROVE Standing(v)' => Standing(v) \/ v = w BY <1>3, <1>10, <1>12 DEF Standing
<1>15. ASSUME NEW v PROVE v \in O!Ids(oOverlay') <=> v \in O!Ids(oOverlay) \/ v = w
  <2>1. PICK o : o = [id |-> w, held |-> FALSE] OBVIOUS
  <2>2. o.id = w /\ oOverlay' = Append(oOverlay, o) BY <1>3, <2>1
  <2>3. PICK m : m = Len(oOverlay) + 1 OBVIOUS
  <2>4. /\ \A i \in DOMAIN oOverlay : i \in DOMAIN oOverlay' /\ oOverlay'[i] = oOverlay[i]
        /\ m \in DOMAIN oOverlay' /\ oOverlay'[m] = o
        /\ \A i \in DOMAIN oOverlay' : i \in DOMAIN oOverlay \/ i = m
    BY <1>4, <2>2, <2>3, Appended
  <2> QED BY <2>2, <2>4 DEF O!Ids
<1>16. FlightAtHead'
  <2>1. oQueue' \in Seq(O!Writes) /\ oQueue' # <<>> /\ (oQueue # <<>> => oQueue'[1] = oQueue[1])
    BY <1>2, <1>3, <1>4
  <2>2. CASE oFlight = O!Idle BY <1>3, <2>1, <2>2, SendsFront DEF FlightAtHead
  <2>3. CASE oFlight # O!Idle BY <1>0, <1>3, <2>1, <2>3 DEF FlightAtHead
  <2> QED BY <2>2, <2>3
<1>17. Submitted'
  <2>1. ASSUME NEW v \in O!Writes,
               (InQueue(v) \/ v \in oHeldIds \/ v \in O!Ids(oOverlay) \/ Known(v) \/ Settling(v))'
        PROVE  v <= w
    <3>1. v = w \/ InQueue(v) \/ v \in oHeldIds \/ v \in O!Ids(oOverlay) \/ Known(v) \/ Settling(v)
      BY <1>3, <1>9, <1>11, <1>13, <1>15, <2>1
    <3>2. v = w \/ v < w BY <1>8, <3>1
    <3> QED BY <1>2, <3>2
  <2>2. oLog \in Seq(LogEntry) BY DEF OutboxType
  <2>3. ASSUME NEW i \in DOMAIN oLog PROVE oLog[i].id <= w
    <3>1. oLog[i] \in LogEntry BY <2>2
    <3>2. oLog[i].id \in Nat BY <3>1 DEF LogEntry
    <3>3. oLog[i].id <= Len(oTarget) BY <1>0 DEF Submitted
    <3> QED BY <1>1, <1>2, <3>2, <3>3
  <2> QED BY <1>3, <1>5, <2>1, <2>3 DEF Submitted
<1>18. HeldAnswered'
  <2>1. ASSUME NEW v \in O!Writes,
               \/ v \in oHeldIds' \/ Settling(v)'
               \/ \E i \in DOMAIN oOverlay' : oOverlay'[i].id = v /\ oOverlay'[i].held
        PROVE  oFate[v] # "" /\ ~InQueue(v)'
    <3>1. \/ v \in oHeldIds \/ Settling(v)
          \/ \E i \in DOMAIN oOverlay : oOverlay[i].id = v /\ oOverlay[i].held
      <4>1. CASE v \in oHeldIds' \/ Settling(v)' BY <1>3, <1>11, <4>1
      <4>2. CASE \E i \in DOMAIN oOverlay' : oOverlay'[i].id = v /\ oOverlay'[i].held
        <5>1. PICK i \in DOMAIN oOverlay' : oOverlay'[i].id = v /\ oOverlay'[i].held BY <4>2
        <5>2. PICK o : o = [id |-> w, held |-> FALSE] OBVIOUS
        <5>3. ~o.held /\ oOverlay' = Append(oOverlay, o) BY <1>3, <5>2
        <5>4. i \in DOMAIN oOverlay /\ oOverlay'[i] = oOverlay[i] BY <1>4, <5>1, <5>3, Appended
        <5> QED BY <5>1, <5>4
      <4> QED BY <2>1, <4>1, <4>2
    <3>2. oFate[v] # "" /\ ~InQueue(v) BY <1>0, <3>1 DEF HeldAnswered
    <3>3. v \in oHeldIds \/ v \in O!Ids(oOverlay) \/ Settling(v) BY <3>1 DEF O!Ids
    <3>4. v < w BY <1>8, <3>3
    <3>5. v # w BY <1>2, <3>4
    <3> QED BY <1>9, <3>2, <3>5
  <2>2. \A i \in DOMAIN oDurLog : oDurLog[i].held => oFate[oDurLog[i].id] # ""
    BY <1>0 DEF HeldAnswered
  <2> QED BY <1>3, <2>1, <2>2 DEF HeldAnswered
<1>19. ChainOrdered'
  <2>1. ASSUME NEW a \in O!Writes, NEW b \in O!Writes, NEW i \in DOMAIN oChain', NEW j \in DOMAIN oChain'
        PROVE  /\ Logs(oChain'[i], a) /\ Logs(oChain'[j], b) /\ i < j => a < b
               /\ Logs(oChain'[i], a) /\ Settles(oChain'[j], a) => i < j
    <3>1. CASE j \in DOMAIN oChain /\ i \in DOMAIN oChain
      BY <1>0, <1>6, <3>1 DEF ChainOrdered
    <3>2. CASE j = n
      <4>1. ~Settles(oChain'[j], a) /\ (Logs(oChain'[j], b) => b = w) BY <1>6, <1>7, <3>2
      <4>2. ASSUME Logs(oChain'[i], a), i < j PROVE a < w
        <5>1. i \in DOMAIN oChain /\ oChain'[i] = oChain[i] BY <1>6, <3>2, <4>2
        <5>2. Known(a) BY <4>2, <5>1 DEF Known, Appending
        <5> QED BY <1>8, <5>2
      <4> QED BY <4>1, <4>2
    <3>3. CASE i = n /\ j \in DOMAIN oChain
      <4>1. (Logs(oChain'[i], a) => a = w) /\ ~(i < j) /\ oChain'[j] = oChain[j] BY <1>6, <1>7, <3>3
      <4>2. Settles(oChain'[j], a) => Settling(a) BY <3>3, <4>1 DEF Settling
      <4>3. Settling(w) => w < w BY <1>2, <1>8
      <4> QED BY <1>2, <4>1, <4>2, <4>3
    <3> QED BY <1>6, <3>1, <3>2, <3>3
  <2>2. /\ \A a, b \in O!Writes : a \in oLogged /\ Appending(b) => a < b
        /\ O!Ids(oDurLog) \subseteq oLogged
        /\ \A i, j \in DOMAIN oDurLog : i < j => oDurLog[i].id < oDurLog[j].id
    BY <1>0 DEF ChainOrdered
  <2>3. ASSUME NEW a \in O!Writes, NEW b \in O!Writes, a \in oLogged, Appending(b)' PROVE a < b
    <3>1. a < w BY <1>8, <2>3 DEF Known
    <3> QED BY <1>10, <2>2, <2>3, <3>1
  <2> QED BY <1>3, <2>1, <2>2, <2>3 DEF ChainOrdered, O!Ids
<1>20. SettledInOrder'
  <2>1. ASSUME NEW a \in O!Writes, NEW b \in O!Writes, NEW j \in DOMAIN oChain', a < b,
               Standing(a)', Known(b)', Settles(oChain'[j], b)
        PROVE  \E i \in 1 .. j - 1 : Settles(oChain'[i], a)
    <3>1. j \in DOMAIN oChain /\ oChain'[j] = oChain[j] BY <1>6, <1>7, <2>1
    <3>2. Settling(b) BY <2>1, <3>1 DEF Settling
    <3>3. b < w BY <1>8, <3>2
    <3>4. a # w /\ b # w BY <1>2, <2>1, <3>3
    <3>5. Standing(a) /\ Known(b) BY <1>13, <1>14, <2>1, <3>4
    <3>6. PICK i \in 1 .. j - 1 : Settles(oChain[i], a) BY <1>0, <2>1, <3>1, <3>5 DEF SettledInOrder
    <3>7. i \in DOMAIN oChain
      <4>1. DOMAIN oChain = 1 .. Len(oChain) /\ Len(oChain) \in Nat BY <1>4
      <4> QED BY <3>1, <4>1
    <3> QED BY <1>6, <3>6, <3>7
  <2>2. \A a, b \in O!Writes : a < b /\ a \notin oTorn /\ b \in oLogged /\ Waiting(a) => Waiting(b)
    BY <1>0 DEF SettledInOrder
  <2>3. \A a, b \in O!Writes : a < b /\ a \notin oTorn' /\ b \in oLogged' /\ Waiting(a)' => Waiting(b)'
    BY <1>3, <1>12, <2>2
  <2> QED BY <2>1, <2>3 DEF SettledInOrder
<1>21. QueueLogged'
  <2>1. Increasing(oQueue')
    <3>1. Increasing(oQueue) BY <1>0 DEF QueueLogged
    <3> SUFFICES ASSUME NEW i \in DOMAIN oQueue', NEW j \in DOMAIN oQueue', i < j PROVE oQueue'[i] < oQueue'[j]
      BY DEF Increasing
    <3>2. CASE j \in DOMAIN oQueue /\ i \in DOMAIN oQueue
      BY <1>3, <1>4, <3>1, <3>2, Appended DEF Increasing
    <3>3. CASE j = Len(oQueue) + 1 /\ i \in DOMAIN oQueue
      <4>1. oQueue'[j] = w /\ oQueue'[i] = oQueue[i] BY <1>3, <1>4, <3>3, Appended
      <4>2. oQueue[i] \in O!Writes /\ InQueue(oQueue[i]) BY <1>4, <3>3 DEF InQueue
      <4> QED BY <1>8, <4>1, <4>2
    <3>4. i \in DOMAIN oQueue /\ (j \in DOMAIN oQueue \/ j = Len(oQueue) + 1)
      <4>1. DOMAIN oQueue = 1 .. Len(oQueue) /\ DOMAIN oQueue' = 1 .. Len(oQueue) + 1 /\ Len(oQueue) \in Nat
        BY <1>3, <1>4, Appended
      <4> QED BY <4>1
    <3> QED BY <3>2, <3>3, <3>4
  <2>2. \A a \in O!Writes : Standing(a)' => InQueue(a)' \/ Settling(a)'
    BY <1>0, <1>9, <1>11, <1>14 DEF QueueLogged
  <2>3. ASSUME NEW b \in O!Writes, InQueue(b)', b \in oLogged PROVE Waiting(b)'
    <3>1. b < w BY <1>8, <2>3 DEF Known
    <3>2. b # w BY <1>2, <3>1
    <3>3. InQueue(b) BY <1>9, <2>3, <3>2
    <3> QED BY <1>0, <1>12, <2>3, <3>3 DEF QueueLogged
  <2> QED BY <1>3, <2>1, <2>2, <2>3 DEF QueueLogged
<1>22. QueueInOrder'
  <2>1. ASSUME NEW a \in O!Writes, NEW b \in O!Writes, a < b, a \notin oTorn, InQueue(a)', Known(b)', b # w
        PROVE  InQueue(b)
    <3>1. Known(b) BY <1>13, <2>1
    <3>2. b < w BY <1>8, <3>1
    <3>3. a # w BY <1>2, <2>1, <3>2
    <3>4. InQueue(a) BY <1>9, <2>1, <3>3
    <3> QED BY <1>0, <2>1, <3>1, <3>4 DEF QueueInOrder
  <2>2. \A a, b \in O!Writes : a < b /\ a \notin oTorn' /\ InQueue(a)' /\ Known(b)' => InQueue(b)'
    BY <1>3, <1>9, <2>1
  <2> QED BY <2>2 DEF QueueInOrder
<1>23. O!NoWriteLost' BY <1>0, <1>3 DEF O!NoWriteLost, O!Ids
<1>24. O!PendingShown'
  <2>1. \A v : InQueue(v) => v \in O!Ids(oOverlay) BY <1>0 DEF O!PendingShown, InQueue
  <2>2. \A v : InQueue(v)' => v \in O!Ids(oOverlay') BY <1>9, <1>15, <2>1
  <2> QED BY <2>2 DEF O!PendingShown, InQueue
<1> QED BY <1>16, <1>17, <1>18, <1>19, <1>20, <1>21, <1>22, <1>23, <1>24 DEF WriteInv

(* What the head of the chain, landed or failed, does to the durable log. *)
HeadEffect(c) ==
  /\ oTorn \subseteq oTorn' /\ oLogged \subseteq oLogged'
  /\ \A v \in oLogged' : v \in oLogged \/ Logs(c, v)
  /\ \A v \in oLogged' : v \in O!Ids(oDurLog') \/ Settles(c, v) \/ (v \in oLogged /\ v \notin O!Ids(oDurLog))
  /\ \A v : Waiting(v)' => Waiting(v) \/ Logs(c, v)
  /\ \A v : Waiting(v) => Waiting(v)' \/ Settles(c, v)
  /\ \A v : Settles(c, v) => v \in oTorn' \/ ~Waiting(v)'
  /\ \A v : Logs(c, v) /\ v \in oLogged' => Waiting(v)'
  /\ O!Ids(oDurLog') \subseteq oLogged'
  /\ \A i, j \in DOMAIN oDurLog' : i < j => oDurLog'[i].id < oDurLog'[j].id
  /\ \A i \in DOMAIN oDurLog' : oDurLog'[i].held =>
       \/ Settles(c, oDurLog'[i].id)
       \/ \E j \in DOMAIN oDurLog : oDurLog[j].held /\ oDurLog[j].id = oDurLog'[i].id

(* The head of the chain leaves it, having run, failed or been dropped. *)
LEMMA HeadKeeps ==
  ASSUME OutboxType, OutboxType', WriteInv, oChain # <<>>, oChain' = Tail(oChain),
         UNCHANGED <<oFate, oTarget, oLog, oFlight, oQueue, oOverlay, oHeldIds>>, HeadEffect(oChain[1])
  PROVE  WriteInv'
<1>0. FlightAtHead /\ Submitted /\ HeldAnswered /\ ChainOrdered /\ SettledInOrder
      /\ QueueLogged /\ QueueInOrder /\ O!NoWriteLost /\ O!PendingShown
  BY DEF WriteInv
<1>1. PICK c : c = oChain[1] OBVIOUS
<1>2. /\ 1 \in DOMAIN oChain /\ DOMAIN oChain \subseteq Nat /\ DOMAIN oChain' \subseteq Nat \ {0}
      /\ \A i \in DOMAIN oChain' : i + 1 \in DOMAIN oChain /\ oChain'[i] = oChain[i + 1]
      /\ \A i \in DOMAIN oChain : i = 1 \/ (i - 1 \in DOMAIN oChain' /\ oChain'[i - 1] = oChain[i] /\ i > 1)
  <2>1. oChain \in Seq(ChainWrite) BY DEF OutboxType
  <2>2. /\ Len(oChain) \in Nat \ {0} /\ oChain' \in Seq(ChainWrite) /\ Len(oChain') = Len(oChain) - 1
        /\ \A i \in 1 .. Len(oChain) - 1 : oChain'[i] = oChain[i + 1]
    BY ChainFront
  <2>3. DOMAIN oChain = 1 .. Len(oChain) /\ DOMAIN oChain' = 1 .. Len(oChain) - 1 BY <2>1, <2>2
  <2>4. ASSUME NEW i \in DOMAIN oChain, i # 1 PROVE i - 1 \in DOMAIN oChain' /\ oChain'[i - 1] = oChain[i] /\ i > 1
    <3>1. i - 1 \in 1 .. Len(oChain) - 1 /\ (i - 1) + 1 = i /\ i > 1 BY <2>2, <2>3, <2>4
    <3> QED BY <2>2, <2>3, <3>1
  <2>5. \A i \in DOMAIN oChain' : i + 1 \in DOMAIN oChain /\ oChain'[i] = oChain[i + 1]
    BY <2>2, <2>3
  <2> QED BY <2>2, <2>3, <2>4, <2>5
<1>3. ASSUME NEW v PROVE (Appending(v)' => Appending(v)) /\ (Settling(v)' => Settling(v))
                         /\ (Settling(v) => Settling(v)' \/ Settles(c, v))
  <2>1. Appending(v)' => Appending(v) BY <1>2 DEF Appending
  <2>2. Settling(v)' => Settling(v) BY <1>2 DEF Settling
  <2>3. Settling(v) => Settling(v)' \/ Settles(c, v) BY <1>1, <1>2 DEF Settling
  <2> QED BY <2>1, <2>2, <2>3
<1>4. ASSUME NEW v PROVE (Logs(c, v) => Appending(v)) /\ (Settles(c, v) => Settling(v))
  BY <1>1, <1>2 DEF Appending, Settling
<1>5. oTorn \subseteq oTorn' /\ oLogged \subseteq oLogged' /\ oLogged' \subseteq O!Writes /\ oLogged \subseteq O!Writes
  BY DEF HeadEffect, OutboxType
<1>6. \A v \in oLogged' : v \in oLogged \/ Logs(c, v) BY <1>1 DEF HeadEffect
<1>7. \A v : /\ Waiting(v)' => Waiting(v) \/ Logs(c, v)
             /\ Waiting(v) => Waiting(v)' \/ Settles(c, v)
             /\ Settles(c, v) => v \in oTorn' \/ ~Waiting(v)'
             /\ Logs(c, v) /\ v \in oLogged' => Waiting(v)'
  BY <1>1 DEF HeadEffect
<1>8. ASSUME NEW v PROVE Known(v)' => Known(v) BY <1>3, <1>4, <1>6 DEF Known
<1>9. \A v \in O!Writes : Settles(c, v) => ~Appending(v)
  <2> SUFFICES ASSUME NEW v \in O!Writes, Settles(c, v), Appending(v) PROVE FALSE OBVIOUS
  <2>1. PICK i \in DOMAIN oChain : Logs(oChain[i], v) BY DEF Appending
  <2>2. i < 1 BY <1>0, <1>1, <1>2, <2>1 DEF ChainOrdered
  <2> QED BY <1>2, <2>2
<1>10. ASSUME NEW v \in O!Writes, Standing(v)' PROVE Standing(v) /\ ~Settles(c, v)
  <2>1. v \notin oTorn' /\ (Waiting(v)' \/ Appending(v)') BY <1>10 DEF Standing
  <2>2. Standing(v) BY <1>3, <1>4, <1>5, <1>7, <2>1 DEF Standing
  <2>3. ~Settles(c, v) BY <1>3, <1>7, <1>9, <2>1
  <2> QED BY <2>2, <2>3
<1>11. \A v : InQueue(v)' <=> InQueue(v) BY DEF InQueue
<1>12. FlightAtHead' BY <1>0 DEF FlightAtHead
<1>13. Submitted'
  <2>1. ASSUME NEW v \in O!Writes,
               (InQueue(v) \/ v \in oHeldIds \/ v \in O!Ids(oOverlay) \/ Known(v) \/ Settling(v))'
        PROVE  v <= Len(oTarget)
    <3>1. InQueue(v) \/ v \in oHeldIds \/ v \in O!Ids(oOverlay) \/ Known(v) \/ Settling(v)
      <4>1. v \in O!Ids(oOverlay') => v \in O!Ids(oOverlay) BY DEF O!Ids
      <4> QED BY <1>3, <1>8, <1>11, <2>1, <4>1
    <3> QED BY <1>0, <3>1 DEF Submitted
  <2>2. \A i \in DOMAIN oLog : oLog[i].id <= Len(oTarget) BY <1>0 DEF Submitted
  <2> QED BY <2>1, <2>2 DEF Submitted
<1>14. HeldAnswered'
  <2>1. ASSUME NEW v \in O!Writes,
               \/ v \in oHeldIds \/ Settling(v)'
               \/ \E i \in DOMAIN oOverlay : oOverlay[i].id = v /\ oOverlay[i].held
        PROVE  oFate[v] # "" /\ ~InQueue(v)'
    <3>1. \/ v \in oHeldIds \/ Settling(v)
          \/ \E i \in DOMAIN oOverlay : oOverlay[i].id = v /\ oOverlay[i].held
      BY <1>3, <2>1
    <3> QED BY <1>0, <1>11, <3>1 DEF HeldAnswered
  <2>2. ASSUME NEW i \in DOMAIN oDurLog', oDurLog'[i].held PROVE oFate[oDurLog'[i].id] # ""
    <3>0. oDurLog'[i].id \in O!Writes
      <4>1. oDurLog' \in Seq(Entry) BY DEF OutboxType
      <4> QED BY <4>1, EntryIds
    <3>1. CASE Settles(c, oDurLog'[i].id) BY <1>0, <1>4, <3>0, <3>1 DEF HeldAnswered
    <3>2. CASE \E j \in DOMAIN oDurLog : oDurLog[j].held /\ oDurLog[j].id = oDurLog'[i].id
      BY <1>0, <3>2 DEF HeldAnswered
    <3>3. \/ Settles(c, oDurLog'[i].id)
          \/ \E j \in DOMAIN oDurLog : oDurLog[j].held /\ oDurLog[j].id = oDurLog'[i].id
      BY <1>1, <2>2 DEF HeadEffect
    <3> QED BY <3>1, <3>2, <3>3
  <2> QED BY <2>1, <2>2 DEF HeldAnswered
<1>15. ChainOrdered'
  <2>1. ASSUME NEW a \in O!Writes, NEW b \in O!Writes, NEW i \in DOMAIN oChain', NEW j \in DOMAIN oChain'
        PROVE  /\ Logs(oChain'[i], a) /\ Logs(oChain'[j], b) /\ i < j => a < b
               /\ Logs(oChain'[i], a) /\ Settles(oChain'[j], a) => i < j
    <3>1. i + 1 \in DOMAIN oChain /\ j + 1 \in DOMAIN oChain /\ i \in Nat /\ j \in Nat BY <1>2
    <3>2. /\ Logs(oChain[i + 1], a) /\ Logs(oChain[j + 1], b) /\ i + 1 < j + 1 => a < b
          /\ Logs(oChain[i + 1], a) /\ Settles(oChain[j + 1], a) => i + 1 < j + 1
      BY <1>0, <3>1 DEF ChainOrdered
    <3>3. i + 1 < j + 1 <=> i < j BY <3>1
    <3> QED BY <1>2, <3>2, <3>3
  <2>2. ASSUME NEW a \in O!Writes, NEW b \in O!Writes, a \in oLogged', Appending(b)' PROVE a < b
    <3>1. CASE a \in oLogged BY <1>0, <1>3, <2>2, <3>1 DEF ChainOrdered
    <3>2. CASE Logs(c, a)
      <4>1. PICK i \in DOMAIN oChain' : Logs(oChain'[i], b) BY <2>2 DEF Appending
      <4>2. i + 1 \in DOMAIN oChain /\ Logs(oChain[i + 1], b) /\ 1 < i + 1 BY <1>2, <4>1
      <4> QED BY <1>0, <1>1, <1>2, <3>2, <4>2 DEF ChainOrdered
    <3> QED BY <1>6, <2>2, <3>1, <3>2
  <2>3. O!Ids(oDurLog') \subseteq oLogged' /\ \A i, j \in DOMAIN oDurLog' : i < j => oDurLog'[i].id < oDurLog'[j].id
    BY DEF HeadEffect
  <2> QED BY <2>1, <2>2, <2>3 DEF ChainOrdered
<1>16. ASSUME NEW a \in O!Writes, NEW b \in O!Writes, a < b, Standing(a), Known(b), Settles(c, b) PROVE FALSE
  <2>1. \E i \in 1 .. 1 - 1 : Settles(oChain[i], a) BY <1>0, <1>1, <1>2, <1>16 DEF SettledInOrder
  <2>2. 1 .. 1 - 1 = {} OBVIOUS
  <2> QED BY <2>1, <2>2
<1>17. SettledInOrder'
  <2>1. ASSUME NEW a \in O!Writes, NEW b \in O!Writes, NEW j \in DOMAIN oChain', a < b,
               Standing(a)', Known(b)', Settles(oChain'[j], b)
        PROVE  \E i \in 1 .. j - 1 : Settles(oChain'[i], a)
    <3>1. Standing(a) /\ Known(b) /\ ~Settles(c, a) BY <1>8, <1>10, <2>1
    <3>2. PICK m : m = j + 1 OBVIOUS
    <3>3. m \in DOMAIN oChain /\ Settles(oChain[m], b) /\ j \in Nat \ {0} BY <1>2, <2>1, <3>2
    <3>4. PICK i \in 1 .. m - 1 : Settles(oChain[i], a) BY <1>0, <2>1, <3>1, <3>3 DEF SettledInOrder
    <3>5. i \in 1 .. j /\ i # 1 BY <1>1, <3>1, <3>2, <3>3, <3>4
    <3>6. i \in DOMAIN oChain
      <4>1. DOMAIN oChain = 1 .. Len(oChain) /\ Len(oChain) \in Nat BY DEF OutboxType
      <4> QED BY <3>2, <3>3, <3>5, <4>1
    <3>7. i - 1 \in 1 .. j - 1 /\ oChain'[i - 1] = oChain[i] BY <1>2, <3>3, <3>5, <3>6
    <3> QED BY <3>4, <3>7
  <2>2. ASSUME NEW a \in O!Writes, NEW b \in O!Writes, a < b, a \notin oTorn', b \in oLogged', Waiting(a)'
        PROVE  Waiting(b)'
    <3>1. CASE b \notin oLogged BY <1>6, <1>7, <2>2, <3>1
    <3>2. CASE b \in oLogged
      <4>1. Waiting(a)
        <5>1. SUFFICES ASSUME Logs(c, a) PROVE FALSE BY <1>7, <2>2
        <5>2. b < a BY <1>0, <1>4, <3>2, <5>1 DEF ChainOrdered
        <5>3. a \in Nat /\ b \in Nat BY DEF O!Writes
        <5> QED BY <2>2, <5>2, <5>3
      <4>2. a \notin oTorn /\ Standing(a) /\ Known(b) BY <1>5, <2>2, <3>2, <4>1 DEF Standing, Known
      <4>3. Waiting(b) BY <1>0, <2>2, <3>2, <4>1, <4>2 DEF SettledInOrder
      <4>4. ~Settles(c, b) BY <1>16, <2>2, <4>2
      <4> QED BY <1>7, <4>3, <4>4
    <3> QED BY <3>1, <3>2
  <2> QED BY <2>1, <2>2 DEF SettledInOrder
<1>18. QueueLogged'
  <2>1. Increasing(oQueue') BY <1>0 DEF QueueLogged
  <2>2. ASSUME NEW a \in O!Writes, Standing(a)' PROVE InQueue(a)' \/ Settling(a)'
    <3>1. Standing(a) /\ ~Settles(c, a) BY <1>10, <2>2
    <3>2. InQueue(a) \/ Settling(a) BY <1>0, <3>1 DEF QueueLogged
    <3> QED BY <1>3, <1>11, <3>1, <3>2
  <2>3. ASSUME NEW b \in O!Writes, InQueue(b)', b \in oLogged' PROVE Waiting(b)'
    <3>1. CASE b \notin oLogged BY <1>6, <1>7, <2>3, <3>1
    <3>2. CASE b \in oLogged
      <4>1. Waiting(b) /\ InQueue(b) BY <1>0, <1>11, <2>3, <3>2 DEF QueueLogged
      <4>2. ~Settles(c, b) BY <1>0, <1>4, <4>1 DEF HeldAnswered
      <4> QED BY <1>7, <4>1, <4>2
    <3> QED BY <3>1, <3>2
  <2> QED BY <2>1, <2>2, <2>3 DEF QueueLogged
<1>19. QueueInOrder'
  <2>1. \A a, b \in O!Writes : a < b /\ a \notin oTorn' /\ InQueue(a)' /\ Known(b)' => InQueue(b)'
    BY <1>0, <1>5, <1>8, <1>11 DEF QueueInOrder
  <2> QED BY <2>1 DEF QueueInOrder
<1>20. O!NoWriteLost'
  <2>1. ASSUME NEW v \in oLogged' PROVE v \in O!Ids(oDurLog') \/ oFate[v] # ""
    <3>1. v \in O!Ids(oDurLog') \/ Settles(c, v) \/ (v \in oLogged /\ v \notin O!Ids(oDurLog))
      BY <1>1 DEF HeadEffect
    <3>2. v \in O!Writes BY <1>5
    <3>3. Settles(c, v) => oFate[v] # "" BY <1>0, <1>4, <3>2 DEF HeldAnswered
    <3> QED BY <1>0, <3>1, <3>3 DEF O!NoWriteLost
  <2> QED BY <2>1 DEF O!NoWriteLost
<1>21. O!PendingShown' BY <1>0 DEF O!PendingShown, O!Ids
<1> QED BY <1>12, <1>13, <1>14, <1>15, <1>17, <1>18, <1>19, <1>20, <1>21 DEF WriteInv

(* Nothing of the durable log changes. *)
LEMMA LogUntouched ==
  ASSUME OutboxType, WriteInv, NEW c, UNCHANGED <<oDurLog, oLogged>>, oTorn \subseteq oTorn',
         \A v : Settles(c, v) => v \in oTorn', \A v : Logs(c, v) => v \notin oLogged
  PROVE  HeadEffect(c)
<1>1. ChainOrdered BY DEF WriteInv
<1>2. \A v : Waiting(v)' <=> Waiting(v) BY DEF Waiting
<1>3. O!Ids(oDurLog') = O!Ids(oDurLog) BY DEF O!Ids
<1>4. O!Ids(oDurLog) \subseteq oLogged /\ \A i, j \in DOMAIN oDurLog : i < j => oDurLog[i].id < oDurLog[j].id
  BY <1>1 DEF ChainOrdered
<1>5. \A i \in DOMAIN oDurLog' : oDurLog'[i].held =>
        \E j \in DOMAIN oDurLog : oDurLog[j].held /\ oDurLog[j].id = oDurLog'[i].id
  OBVIOUS
<1> QED BY <1>2, <1>3, <1>4, <1>5 DEF HeadEffect

(* A write is logged. *)
LEMMA WriteLogged ==
  ASSUME OutboxType, WriteInv, NEW c, NEW x \in O!Writes, Logs(c, x), Appending(x),
         oDurLog' = Append(oDurLog, [id |-> x, held |-> FALSE]), oLogged' = oLogged \cup {x}, UNCHANGED oTorn
  PROVE  HeadEffect(c)
<1>1. ChainOrdered BY DEF WriteInv
<1>2. oDurLog \in Seq(Entry) /\ oLogged \subseteq O!Writes BY DEF OutboxType
<1>3. PICK o : o = [id |-> x, held |-> FALSE] OBVIOUS
<1>4. o.id = x /\ ~o.held /\ oDurLog' = Append(oDurLog, o) BY <1>3
<1>5. PICK m : m = Len(oDurLog) + 1 OBVIOUS
<1>6. /\ \A i \in DOMAIN oDurLog : i \in DOMAIN oDurLog' /\ oDurLog'[i] = oDurLog[i] /\ i < m
      /\ m \in DOMAIN oDurLog' /\ oDurLog'[m] = o
      /\ \A i \in DOMAIN oDurLog' : i \in DOMAIN oDurLog \/ i = m
      /\ m \in Nat /\ DOMAIN oDurLog \subseteq Nat
  BY <1>2, <1>4, <1>5, Appended
<1>7. O!Ids(oDurLog) \subseteq oLogged /\ \A i, j \in DOMAIN oDurLog : i < j => oDurLog[i].id < oDurLog[j].id
  BY <1>1 DEF ChainOrdered
<1>8. ASSUME NEW i \in DOMAIN oDurLog PROVE oDurLog[i].id \in oLogged /\ oDurLog[i].id < x
  <2>1. oDurLog[i].id \in oLogged BY <1>7 DEF O!Ids
  <2> QED BY <1>1, <1>2, <2>1 DEF ChainOrdered
<1>9. ASSUME NEW v PROVE Waiting(v)' <=> Waiting(v) \/ v = x BY <1>4, <1>6 DEF Waiting
<1>10. \A v : v \in O!Ids(oDurLog') <=> v \in O!Ids(oDurLog) \/ v = x BY <1>4, <1>6 DEF O!Ids
<1>11. ASSUME NEW i \in DOMAIN oDurLog', NEW j \in DOMAIN oDurLog', i < j
       PROVE  oDurLog'[i].id < oDurLog'[j].id
  <2>1. i \in DOMAIN oDurLog /\ oDurLog'[i] = oDurLog[i] BY <1>6, <1>11
  <2>2. CASE j = m BY <1>4, <1>6, <1>8, <2>1, <2>2
  <2>3. CASE j \in DOMAIN oDurLog BY <1>6, <1>7, <1>11, <2>1, <2>3
  <2> QED BY <1>6, <2>2, <2>3
<1>12. \A i \in DOMAIN oDurLog' : oDurLog'[i].held =>
         \E j \in DOMAIN oDurLog : oDurLog[j].held /\ oDurLog[j].id = oDurLog'[i].id
  BY <1>4, <1>6
<1>13. \A v : Logs(c, v) <=> v = x BY DEF Logs
<1>14. \A v : ~Settles(c, v) BY DEF Logs, Settles
<1>15. O!Ids(oDurLog') \subseteq oLogged' BY <1>7, <1>10
<1> QED BY <1>9, <1>10, <1>11, <1>12, <1>13, <1>14, <1>15 DEF HeadEffect

(* A write is settled on disk. *)
LEMMA WriteSettled ==
  ASSUME OutboxType, WriteInv, NEW c, NEW x \in O!Writes, Settles(c, x),
         oDurLog' = O!MarkedHeld(oDurLog, x) \/ oDurLog' = O!Without(oDurLog, {x}), UNCHANGED <<oLogged, oTorn>>
  PROVE  HeadEffect(c)
<1>1. ChainOrdered BY DEF WriteInv
<1>2. oDurLog \in Seq(Entry) BY DEF OutboxType
<1>3. O!Ids(oDurLog) \subseteq oLogged /\ \A i, j \in DOMAIN oDurLog : i < j => oDurLog[i].id < oDurLog[j].id
  BY <1>1 DEF ChainOrdered
<1>4. \A v : Settles(c, v) <=> v = x BY DEF Settles
<1>5. \A v : ~Logs(c, v) BY DEF Logs, Settles
<1>6. /\ \A i \in DOMAIN oDurLog' : \E j \in DOMAIN oDurLog :
           oDurLog'[i].id = oDurLog[j].id
           /\ (oDurLog'[i].id = x => oDurLog'[i].held)
           /\ (oDurLog'[i].id # x => (oDurLog'[i].held <=> oDurLog[j].held))
      /\ \A j \in DOMAIN oDurLog : oDurLog[j].id # x => \E i \in DOMAIN oDurLog' :
           oDurLog'[i].id = oDurLog[j].id /\ (oDurLog'[i].held <=> oDurLog[j].held)
      /\ \A i, j \in DOMAIN oDurLog' : i < j => oDurLog'[i].id < oDurLog'[j].id
  <2>1. CASE oDurLog' = O!MarkedHeld(oDurLog, x)
    <3>1. DOMAIN oDurLog' = DOMAIN oDurLog BY <1>2, <2>1, MarkedHeldMarks
    <3>2. ASSUME NEW i \in DOMAIN oDurLog
          PROVE  /\ oDurLog'[i].id = oDurLog[i].id
                 /\ oDurLog'[i].held <=> (oDurLog[i].held \/ oDurLog[i].id = x)
      BY <1>2, <2>1, MarkedHeldMarks
    <3>3. ASSUME NEW i \in DOMAIN oDurLog
          PROVE  /\ oDurLog'[i].id = oDurLog[i].id
                 /\ oDurLog'[i].id = x => oDurLog'[i].held
                 /\ oDurLog'[i].id # x => (oDurLog'[i].held <=> oDurLog[i].held)
      BY <3>2
    <3>4. \A i, j \in DOMAIN oDurLog' : i < j => oDurLog'[i].id < oDurLog'[j].id BY <1>3, <3>1, <3>2
    <3> QED BY <3>1, <3>3, <3>4
  <2>2. CASE oDurLog' = O!Without(oDurLog, {x})
    <3>1. PICK D : D = {x} OBVIOUS
    <3>2. oDurLog' = O!Without(oDurLog, D) BY <2>2, <3>1
    <3>3. \A i \in DOMAIN oDurLog' : \E j \in DOMAIN oDurLog : oDurLog'[i] = oDurLog[j] /\ oDurLog[j].id \notin D
      BY <1>2, <3>2, WithoutDrops
    <3>4. \A j \in DOMAIN oDurLog : oDurLog[j].id \notin D => \E i \in DOMAIN oDurLog' : oDurLog'[i] = oDurLog[j]
      BY <1>2, <3>2, WithoutDrops
    <3>5. \A i, j \in DOMAIN oDurLog' : i < j => oDurLog'[i].id < oDurLog'[j].id
      BY <1>2, <1>3, <3>2, WithoutDrops
    <3>6. ASSUME NEW i \in DOMAIN oDurLog'
          PROVE  \E j \in DOMAIN oDurLog :
                   oDurLog'[i].id = oDurLog[j].id
                   /\ (oDurLog'[i].id = x => oDurLog'[i].held)
                   /\ (oDurLog'[i].id # x => (oDurLog'[i].held <=> oDurLog[j].held))
      <4>1. PICK j \in DOMAIN oDurLog : oDurLog'[i] = oDurLog[j] /\ oDurLog[j].id \notin D BY <3>3
      <4>2. oDurLog'[i].id # x BY <3>1, <4>1
      <4> QED BY <4>1, <4>2
    <3>7. ASSUME NEW j \in DOMAIN oDurLog, oDurLog[j].id # x
          PROVE  \E i \in DOMAIN oDurLog' : oDurLog'[i].id = oDurLog[j].id /\ (oDurLog'[i].held <=> oDurLog[j].held)
      <4>1. PICK i \in DOMAIN oDurLog' : oDurLog'[i] = oDurLog[j] BY <3>1, <3>4, <3>7
      <4> QED BY <4>1
    <3> QED BY <3>5, <3>6, <3>7
  <2> QED BY <2>1, <2>2
<1>7. ASSUME NEW v PROVE Waiting(v)' => Waiting(v) /\ v # x
  <2> SUFFICES ASSUME NEW i \in DOMAIN oDurLog', oDurLog'[i].id = v, ~oDurLog'[i].held
               PROVE  Waiting(v) /\ v # x
    BY DEF Waiting
  <2>1. PICK j \in DOMAIN oDurLog :
          oDurLog'[i].id = oDurLog[j].id
          /\ (oDurLog'[i].id = x => oDurLog'[i].held)
          /\ (oDurLog'[i].id # x => (oDurLog'[i].held <=> oDurLog[j].held))
    BY <1>6
  <2>2. v # x /\ oDurLog[j].id = v /\ ~oDurLog[j].held BY <2>1
  <2> QED BY <2>2 DEF Waiting
<1>8. ASSUME NEW v, Waiting(v), v # x PROVE Waiting(v)'
  <2>1. PICK j \in DOMAIN oDurLog : oDurLog[j].id = v /\ ~oDurLog[j].held BY <1>8 DEF Waiting
  <2>2. PICK i \in DOMAIN oDurLog' : oDurLog'[i].id = oDurLog[j].id /\ (oDurLog'[i].held <=> oDurLog[j].held)
    BY <1>6, <1>8, <2>1
  <2>3. oDurLog'[i].id = v /\ ~oDurLog'[i].held BY <2>1, <2>2
  <2> QED BY <2>3 DEF Waiting
<1>9. \A v \in O!Ids(oDurLog) : v # x => v \in O!Ids(oDurLog') BY <1>6 DEF O!Ids
<1>10. O!Ids(oDurLog') \subseteq oLogged
  <2>1. O!Ids(oDurLog') \subseteq O!Ids(oDurLog) BY <1>6 DEF O!Ids
  <2> QED BY <1>3, <2>1
<1>11. ASSUME NEW i \in DOMAIN oDurLog', oDurLog'[i].held, oDurLog'[i].id # x
       PROVE  \E j \in DOMAIN oDurLog : oDurLog[j].held /\ oDurLog[j].id = oDurLog'[i].id
  <2>1. PICK j \in DOMAIN oDurLog :
          oDurLog'[i].id = oDurLog[j].id
          /\ (oDurLog'[i].id # x => (oDurLog'[i].held <=> oDurLog[j].held))
    BY <1>6
  <2> QED BY <1>11, <2>1
<1>12. \A i, j \in DOMAIN oDurLog' : i < j => oDurLog'[i].id < oDurLog'[j].id BY <1>6
<1>13. \A i \in DOMAIN oDurLog' : oDurLog'[i].held =>
         \/ Settles(c, oDurLog'[i].id)
         \/ \E j \in DOMAIN oDurLog : oDurLog[j].held /\ oDurLog[j].id = oDurLog'[i].id
  BY <1>4, <1>11
<1> QED BY <1>4, <1>5, <1>7, <1>8, <1>9, <1>10, <1>12, <1>13 DEF HeadEffect

(* A durable write commits, is dropped or fails. *)
LEMMA HeadStep ==
  ASSUME OutboxType, OutboxType', WriteInv, O!WriteLands \/ O!WriteFails
  PROVE  WriteInv'
<1> USE DEF O!serverVars, O!memVars, O!sliceVars, O!durVars
<1>1. /\ oChain # <<>> /\ oChain' = Tail(oChain)
      /\ UNCHANGED <<oFate, oTarget, oLog, oFlight, oQueue, oOverlay, oHeldIds>>
  BY DEF O!WriteLands, O!WriteFails
<1>2. PICK c : c = oChain[1] OBVIOUS
<1>3. Head(oChain) = c /\ c \in ChainWrite /\ 1 \in DOMAIN oChain
  <2>1. oChain \in Seq(ChainWrite) BY DEF OutboxType
  <2>2. Len(oChain) \in Nat \ {0} /\ Head(oChain) = c /\ c \in ChainWrite BY <1>1, <1>2, ChainFront
  <2> QED BY <2>1, <2>2
<1>4. \/ O!OfSlice(c)
      \/ c.op = "append" /\ c.id \in O!Writes
      \/ c.op \in {"markHeld", "remove"} /\ c.id \in O!Writes
  BY <1>3, ChainWriteKinds, KindsOfSlice
<1>5. c.op = "append" /\ c.id \in O!Writes => Logs(c, c.id) /\ Appending(c.id) /\ c.id \notin oLogged
  <2> SUFFICES ASSUME c.op = "append", c.id \in O!Writes
               PROVE  Logs(c, c.id) /\ Appending(c.id) /\ c.id \notin oLogged
    OBVIOUS
  <2>1. Logs(c, c.id) BY DEF Logs
  <2>2. Appending(c.id) BY <1>2, <1>3, <2>1 DEF Appending
  <2>3. c.id \in oLogged => c.id < c.id BY <2>2 DEF WriteInv, ChainOrdered
  <2>4. c.id \in Nat BY DEF O!Writes
  <2> QED BY <2>1, <2>2, <2>3, <2>4
<1>6. O!OfSlice(c) => \A v : ~Logs(c, v) /\ ~Settles(c, v) BY KindsOfSlice DEF Logs, Settles
<1>7. CASE UNCHANGED <<oDurLog, oLogged, oTorn>> /\ c.op \notin {"markHeld", "remove"}
  <2>1. \A v : ~Settles(c, v) BY <1>7 DEF Settles
  <2>2. \A v : Logs(c, v) => v \notin oLogged
    BY <1>4, <1>5, <1>6, <1>7 DEF Logs
  <2>3. HeadEffect(c) BY <1>7, <2>1, <2>2, LogUntouched
  <2> QED BY <1>1, <1>2, <2>3, HeadKeeps
<1>8. CASE O!WriteLands
  <2>1. CASE O!Dropped(c)
    <3>1. UNCHANGED <<oDurLog, oLogged, oTorn>> /\ c.op \notin {"markHeld", "remove"}
      BY <1>3, <1>8, <2>1 DEF O!WriteLands, O!Dropped, O!OfSlice
    <3> QED BY <1>7, <3>1
  <2>2. CASE ~O!Dropped(c)
    <3>1. O!Commits(c) /\ UNCHANGED oTorn BY <1>3, <1>8, <2>2 DEF O!WriteLands
    <3>2. CASE O!OfSlice(c)
      <4>1. UNCHANGED <<oDurLog, oLogged>> BY <3>1, <3>2, CommitsKinds, KindsOfSlice
      <4>2. c.op \notin {"markHeld", "remove"} BY <3>2 DEF O!OfSlice
      <4> QED BY <1>7, <3>1, <4>1, <4>2
    <3>3. CASE c.op = "append" /\ c.id \in O!Writes
      <4>1. oDurLog' = Append(oDurLog, [id |-> c.id, held |-> FALSE]) /\ oLogged' = oLogged \cup {c.id}
        BY <3>1, <3>3, CommitsKinds
      <4>2. Logs(c, c.id) /\ Appending(c.id) BY <1>5, <3>3
      <4>3. HeadEffect(c) BY <3>1, <3>3, <4>1, <4>2, WriteLogged
      <4> QED BY <1>1, <1>2, <4>3, HeadKeeps
    <3>4. CASE c.op \in {"markHeld", "remove"} /\ c.id \in O!Writes
      <4>1. /\ oDurLog' = O!MarkedHeld(oDurLog, c.id) \/ oDurLog' = O!Without(oDurLog, {c.id})
            /\ UNCHANGED oLogged
        <5>1. CASE c.op = "markHeld" BY <3>1, <5>1, CommitsKinds
        <5>2. CASE c.op = "remove" BY <3>1, <5>2, CommitsKinds
        <5> QED BY <3>4, <5>1, <5>2
      <4>2. Settles(c, c.id) BY <3>4 DEF Settles
      <4>3. HeadEffect(c) BY <3>1, <3>4, <4>1, <4>2, WriteSettled
      <4> QED BY <1>1, <1>2, <4>3, HeadKeeps
    <3> QED BY <1>4, <3>2, <3>3, <3>4
  <2> QED BY <2>1, <2>2
<1>9. CASE O!WriteFails
  <2>1. /\ oTorn' = IF c.op \in {"markHeld", "remove"} THEN oTorn \cup {c.id} ELSE oTorn
        /\ UNCHANGED <<oDurLog, oLogged>>
    BY <1>3, <1>9 DEF O!WriteFails
  <2>2. CASE c.op \notin {"markHeld", "remove"}
    BY <1>7, <2>1, <2>2
  <2>3. CASE c.op \in {"markHeld", "remove"}
    <3>1. oTorn \subseteq oTorn' /\ c.id \in oTorn' BY <2>1, <2>3
    <3>2. \A v : Settles(c, v) => v \in oTorn' BY <3>1 DEF Settles
    <3>3. \A v : ~Logs(c, v) BY <2>3 DEF Logs
    <3>4. HeadEffect(c) BY <2>1, <3>1, <3>2, <3>3, LogUntouched
    <3> QED BY <1>1, <1>2, <3>4, HeadKeeps
  <2> QED BY <2>2, <2>3
<1> QED BY <1>8, <1>9

(* A reload: the queue is what the log says is pending, in its order. *)
LEMMA ReloadStep ==
  ASSUME OutboxType, WriteInv, O!Reload
  PROVE  WriteInv'
<1> USE DEF O!serverVars, O!memVars, O!sliceVars, O!durVars
<1>0. FlightAtHead /\ Submitted /\ HeldAnswered /\ ChainOrdered /\ SettledInOrder
      /\ QueueLogged /\ QueueInOrder /\ O!NoWriteLost /\ O!PendingShown
  BY DEF WriteInv
<1>1. /\ oChain' = <<>> /\ oFlight' = O!Idle /\ oQueue' = [i \in DOMAIN O!Pending |-> O!Pending[i].id]
      /\ oOverlay' = oDurLog
      /\ oHeldIds' = {oDurLog[i].id : i \in {j \in DOMAIN oDurLog : oDurLog[j].held}}
      /\ UNCHANGED <<oFate, oLog, oTarget, oDurLog, oLogged, oTorn>>
  BY DEF O!Reload
<1>2. oDurLog \in Seq(Entry) /\ oLogged \subseteq O!Writes BY DEF OutboxType
<1>3. O!Ids(oDurLog) \subseteq oLogged /\ \A i, j \in DOMAIN oDurLog : i < j => oDurLog[i].id < oDurLog[j].id
  BY <1>0 DEF ChainOrdered
<1>4. DOMAIN oChain' = {} BY <1>1
<1>5. \A v : ~Appending(v)' /\ ~Settling(v)' BY <1>4 DEF Appending, Settling
<1>6. \A v : (Waiting(v)' <=> Waiting(v)) BY <1>1 DEF Waiting
<1>7. \A v : Known(v)' <=> v \in oLogged BY <1>1, <1>5 DEF Known
<1>8. ASSUME NEW v PROVE InQueue(v)' <=> Waiting(v)
  <2>1. DOMAIN oQueue' = DOMAIN O!Pending /\ \A i \in DOMAIN O!Pending : oQueue'[i] = O!Pending[i].id
    BY <1>1
  <2>2. \A n \in DOMAIN O!Pending : \E i \in DOMAIN oDurLog : O!Pending[n] = oDurLog[i] /\ ~oDurLog[i].held
    BY <1>2, PendingLists
  <2>3. \A i \in DOMAIN oDurLog : ~oDurLog[i].held => \E n \in DOMAIN O!Pending : O!Pending[n] = oDurLog[i]
    BY <1>2, PendingLists
  <2>4. ASSUME NEW i \in DOMAIN oQueue', oQueue'[i] = v PROVE Waiting(v)
    <3>1. PICK j \in DOMAIN oDurLog : O!Pending[i] = oDurLog[j] /\ ~oDurLog[j].held
      BY <2>1, <2>2, <2>4
    <3> QED BY <2>1, <2>4, <3>1 DEF Waiting
  <2>5. ASSUME NEW j \in DOMAIN oDurLog, oDurLog[j].id = v, ~oDurLog[j].held
        PROVE  \E i \in DOMAIN oQueue' : oQueue'[i] = v
    <3>1. PICK i \in DOMAIN O!Pending : O!Pending[i] = oDurLog[j] BY <2>3, <2>5
    <3> QED BY <2>1, <2>5, <3>1
  <2> QED BY <2>4, <2>5 DEF InQueue, Waiting
<1>9. ASSUME NEW v, Waiting(v) PROVE v \in oLogged /\ v \in O!Writes /\ v \in O!Ids(oDurLog)
  BY <1>2, <1>3, <1>9 DEF Waiting, O!Ids
<1>10. FlightAtHead' BY <1>1 DEF FlightAtHead, O!Idle
<1>11. ASSUME NEW v, NEW i \in DOMAIN oDurLog, oDurLog[i].id = v, oDurLog[i].held
       PROVE  oFate[v] # "" /\ ~Waiting(v) /\ v \in oLogged
  <2>1. oFate[v] # "" BY <1>0, <1>11 DEF HeldAnswered
  <2>2. v \in oLogged BY <1>3, <1>11 DEF O!Ids
  <2>3. SUFFICES ASSUME Waiting(v) PROVE FALSE BY <2>1, <2>2
  <2>4. PICK j \in DOMAIN oDurLog : oDurLog[j].id = v /\ ~oDurLog[j].held BY <2>3 DEF Waiting
  <2>5. i # j BY <1>11, <2>4
  <2>6. i \in Nat /\ j \in Nat BY <1>2
  <2>7. i < j \/ j < i BY <2>5, <2>6
  <2>8. v < v BY <1>3, <1>11, <2>4, <2>7
  <2>9. v \in Nat BY <1>2, <2>2 DEF O!Writes
  <2> QED BY <2>8, <2>9
<1>12. Submitted'
  <2>1. \A v \in O!Writes : v \in oLogged => v <= Len(oTarget) BY <1>0 DEF Submitted, Known
  <2>2. ASSUME NEW v \in O!Writes,
               (InQueue(v) \/ v \in oHeldIds \/ v \in O!Ids(oOverlay) \/ Known(v) \/ Settling(v))'
        PROVE  v \in oLogged
    <3>1. CASE InQueue(v)' BY <1>8, <1>9, <3>1
    <3>2. CASE v \in oHeldIds' BY <1>1, <1>11, <3>2
    <3>3. CASE v \in O!Ids(oOverlay')
      <4>1. v \in O!Ids(oDurLog) BY <1>1, <3>3 DEF O!Ids
      <4> QED BY <1>3, <4>1
    <3> QED BY <1>5, <1>7, <2>2, <3>1, <3>2, <3>3
  <2>3. \A i \in DOMAIN oLog : oLog[i].id <= Len(oTarget) BY <1>0 DEF Submitted
  <2> QED BY <1>1, <2>1, <2>2, <2>3 DEF Submitted
<1>13. HeldAnswered'
  <2>1. ASSUME NEW v \in O!Writes,
               \/ v \in oHeldIds' \/ Settling(v)'
               \/ \E i \in DOMAIN oOverlay' : oOverlay'[i].id = v /\ oOverlay'[i].held
        PROVE  oFate[v] # "" /\ ~InQueue(v)'
    <3>1. PICK i \in DOMAIN oDurLog : oDurLog[i].id = v /\ oDurLog[i].held BY <1>1, <1>5, <2>1
    <3> QED BY <1>8, <1>11, <3>1
  <2>2. \A i \in DOMAIN oDurLog : oDurLog[i].held => oFate[oDurLog[i].id] # ""
    BY <1>0 DEF HeldAnswered
  <2> QED BY <1>1, <2>1, <2>2 DEF HeldAnswered
<1>14. ChainOrdered' BY <1>1, <1>3, <1>4, <1>5 DEF ChainOrdered, O!Ids
<1>15. \A a, b \in O!Writes : a < b /\ a \notin oTorn /\ b \in oLogged /\ Waiting(a) => Waiting(b)
  BY <1>0 DEF SettledInOrder
<1>16. SettledInOrder' BY <1>1, <1>4, <1>6, <1>15 DEF SettledInOrder
<1>17. QueueLogged'
  <2>1. Increasing(oQueue')
    <3>1. \A i, j \in DOMAIN O!Pending : i < j => O!Pending[i].id < O!Pending[j].id
      BY <1>2, <1>3, PendingLists
    <3> QED BY <1>1, <3>1 DEF Increasing
  <2>2. \A a : Standing(a)' => InQueue(a)' BY <1>5, <1>6, <1>8 DEF Standing
  <2>3. \A b : InQueue(b)' => Waiting(b)' BY <1>6, <1>8
  <2> QED BY <2>1, <2>2, <2>3 DEF QueueLogged
<1>18. QueueInOrder' BY <1>1, <1>7, <1>8, <1>15 DEF QueueInOrder
<1>19. O!NoWriteLost' BY <1>0, <1>1 DEF O!NoWriteLost, O!Ids
<1>20. O!PendingShown'
  <2>1. \A v : InQueue(v)' => v \in O!Ids(oOverlay')
    <3>1. O!Ids(oOverlay') = O!Ids(oDurLog) BY <1>1 DEF O!Ids
    <3> QED BY <1>8, <1>9, <3>1
  <2> QED BY <2>1 DEF O!PendingShown, InQueue
<1> QED BY <1>10, <1>12, <1>13, <1>14, <1>16, <1>17, <1>18, <1>19, <1>20 DEF WriteInv

(* Every step keeps what is known of the writes. *)
LEMMA WriteStep ==
  ASSUME OutboxType, OutboxType', WriteInv, O!Next
  PROVE  WriteInv'
<1>1. CASE \E k \in Rows \cup {Outside} : O!Submit(k) BY <1>1, SubmitStep
<1>2. CASE \/ \E k \in Rows, gone \in BOOLEAN : O!PeerWrites(k, gone)
           \/ O!Flush \/ O!ServerApplies \/ O!ServerRefuses \/ O!Retry \/ O!Resumes \/ O!StreamBreaks
  BY <1>2, AnswerStep
<1>3. CASE \/ O!Acked \/ O!Rejected \/ O!ApplyChange \/ O!ApplySnapshot \/ O!ApplyResync
           \/ \E w \in O!Writes : O!Grace(w)
  <2>1. SettlingShape BY <1>3, SettlingStep
  <2>2. FlightAtHead' /\ UNCHANGED <<oFate, oTarget, oLog, oDurLog, oLogged, oTorn>>
    BY <2>1 DEF SettlingShape
  <2>3. PICK D \in SUBSET O!Writes : SettlesWrites(D) BY <2>1 DEF SettlingShape
  <2> QED BY <2>2, <2>3, SettlingKeeps
<1>4. CASE O!WriteLands \/ O!WriteFails BY <1>4, HeadStep
<1>5. CASE O!Reload BY <1>5, ReloadStep
<1> QED BY <1>1, <1>2, <1>3, <1>4, <1>5 DEF O!Next, O!Drain, O!Stream

-----------------------------------------------------------------------------
(* The order of the writes at the server *)

(* Settling writes makes no write known ... *)
LEMMA GrowsKnown ==
  ASSUME OutboxType, OutboxType', NEW D, Grows(oChain, oChain', D), UNCHANGED oLogged, NEW v, Known(v)'
  PROVE  Known(v)
<1>1. oChain \in Seq(ChainWrite) /\ oChain' \in Seq(ChainWrite) BY DEF OutboxType
<1>2. \A i \in DOMAIN oChain' : \/ i \in DOMAIN oChain /\ oChain'[i] = oChain[i]
                                \/ /\ i > Len(oChain) /\ i \notin DOMAIN oChain
                                   /\ \A w : ~Logs(oChain'[i], w) /\ (Settles(oChain'[i], w) => w \in D)
  BY <1>1, GrownChain
<1> QED BY <1>2 DEF Known, Appending

(* ... and neither does running the head of the chain. *)
LEMMA HeadKnown ==
  ASSUME OutboxType, oChain # <<>>, oChain' = Tail(oChain),
         \A v \in oLogged' : v \in oLogged \/ Logs(oChain[1], v), NEW v, Known(v)'
  PROVE  Known(v)
<1>1. /\ Len(oChain) \in Nat \ {0} /\ oChain \in Seq(ChainWrite) /\ oChain' \in Seq(ChainWrite)
      /\ Len(oChain') = Len(oChain) - 1 /\ \A i \in 1 .. Len(oChain) - 1 : oChain'[i] = oChain[i + 1]
  BY ChainFront DEF OutboxType
<1>2. DOMAIN oChain = 1 .. Len(oChain) /\ DOMAIN oChain' = 1 .. Len(oChain) - 1 BY <1>1
<1>3. 1 \in DOMAIN oChain /\ \A i \in DOMAIN oChain' : i + 1 \in DOMAIN oChain /\ oChain'[i] = oChain[i + 1]
  BY <1>1, <1>2
<1> QED BY <1>3 DEF Known, Appending

(* The server's log and verdicts stay, and the queue loses no one. *)
LEMMA OrderStays ==
  ASSUME OutboxType, OrderInv, UNCHANGED <<oLog, oTarget>>, oFlight' = oFlight \/ oFlight'.st # "applied",
         oTorn \subseteq oTorn', \A v : Known(v)' => Known(v),
         \A v \in O!Writes : oFate'[v] = "applied" => oFate[v] = "applied",
         \A b \in 1 .. Len(oTarget) :
           /\ InQueue(b) /\ Known(b)' /\ oFate[b] = "applied" /\ oFate'[b] = "applied"
           /\ \E a \in 1 .. Len(oTarget) : oTarget[a] = oTarget[b] /\ oTarget[a] # Outside /\ Overtaken(a, b)
           => InQueue(b)'
  PROVE  OrderInv'
<1>1. FlightIsLast /\ ChangesInside /\ NewestLast BY DEF OrderInv
<1>2. FlightIsLast' BY <1>1 DEF FlightIsLast
<1>3. ChangesInside' BY <1>1 DEF ChangesInside
<1>4. \A a, b : Overtaken(a, b)' <=> Overtaken(a, b) BY DEF Overtaken
<1>5. ASSUME NEW a \in 1 .. Len(oTarget), NEW b \in 1 .. Len(oTarget), a < b, oTarget[a] = oTarget[b],
             a \notin oTorn', Known(b)', oFate'[b] = "applied", oTarget[a] # Outside, Overtaken(a, b)
      PROVE  InQueue(b)'
  <2>1. b \in O!Writes
    <3>1. Len(oTarget) \in 0 .. MaxWrites BY DEF OutboxType
    <3>2. b \in 1 .. Len(oTarget) OBVIOUS
    <3> QED BY <3>1, <3>2, OutboxConstants DEF O!Writes, O!OutboxAssumption
  <2>2. a \notin oTorn /\ Known(b) /\ oFate[b] = "applied" BY <1>5, <2>1
  <2>3. InQueue(b) BY <1>1, <1>5, <2>2 DEF NewestLast
  <2> QED BY <1>5, <2>2, <2>3
<1>6. NewestLast' BY <1>4, <1>5 DEF NewestLast
<1> QED BY <1>2, <1>3, <1>6 DEF OrderInv

(* The log grows, by a peer's change or by that of the flight. *)
LEMMA OrderGrows ==
  ASSUME OutboxType, WriteInv, OrderInv, NEW e, oLog' = Append(oLog, e),
         UNCHANGED <<oTarget, oTorn, oQueue, oChain, oLogged>>,
         \/ e.id = 0 /\ UNCHANGED <<oFlight, oFate>>
         \/ /\ e.id = oFlight.id /\ oFlight # O!Idle /\ oFlight'.id = oFlight.id
            /\ oTarget[oFlight.id] # Outside /\ oFate' = [oFate EXCEPT ![oFlight.id] = "applied"]
  PROVE  OrderInv'
<1>1. FlightIsLast /\ ChangesInside /\ NewestLast BY DEF OrderInv
<1>2. FlightAtHead /\ Submitted /\ QueueInOrder BY DEF WriteInv
<1>3. oLog \in Seq(LogEntry) /\ oFate \in [O!Writes -> Fates] /\ Len(oTarget) \in 0 .. MaxWrites
  BY DEF OutboxType
<1>4. PICK n : n = Len(oLog) + 1 OBVIOUS
<1>5. /\ \A i \in DOMAIN oLog : i \in DOMAIN oLog' /\ oLog'[i] = oLog[i] /\ i < n
      /\ n \in DOMAIN oLog' /\ oLog'[n] = e
      /\ \A i \in DOMAIN oLog' : i \in DOMAIN oLog \/ i = n
      /\ n \in Nat /\ Len(oLog') = n /\ DOMAIN oLog = 1 .. Len(oLog) /\ Len(oLog) \in Nat
  BY <1>3, <1>4, Appended
<1>6. e.id # 0 => e.id = oFlight.id /\ InQueue(oFlight.id) /\ oFlight.id \in 1 .. Len(oTarget) /\ oFlight.id \in O!Writes
                  /\ oFlight'.id = oFlight.id /\ oTarget[oFlight.id] # Outside
                  /\ oFate' = [oFate EXCEPT ![oFlight.id] = "applied"]
  <2> SUFFICES ASSUME e.id # 0
               PROVE  InQueue(oFlight.id) /\ oFlight.id \in 1 .. Len(oTarget) /\ oFlight.id \in O!Writes
    OBVIOUS
  <2>0. oFlight # O!Idle OBVIOUS
  <2>1. /\ oQueue \in Seq(O!Writes) /\ Len(oQueue) \in Nat \ {0} /\ oFlight.id = oQueue[1] /\ oFlight.id \in O!Writes
    BY <1>2, <2>0, FlightFront
  <2>2. InQueue(oFlight.id) BY <2>1 DEF InQueue
  <2>3. oFlight.id <= Len(oTarget) BY <1>2, <2>1, <2>2 DEF Submitted
  <2>4. oFlight.id \in 1 .. Len(oTarget) BY <1>3, <2>1, <2>3 DEF O!Writes
  <2> QED BY <2>1, <2>2, <2>4
<1>7. FlightIsLast'
  <2>1. CASE e.id = 0 /\ oFlight' = oFlight
    <3> SUFFICES ASSUME oFlight.st = "applied", oTarget[oFlight.id] # Outside
                 PROVE  \E m \in DOMAIN oLog' : /\ oLog'[m].id = oFlight.id
                                                /\ \A i \in m + 1 .. Len(oLog') : oLog'[i].id = 0
      BY <2>1 DEF FlightIsLast
    <3>1. PICK m \in DOMAIN oLog : oLog[m].id = oFlight.id /\ \A i \in m + 1 .. Len(oLog) : oLog[i].id = 0
      BY <1>1 DEF FlightIsLast
    <3>2. ASSUME NEW i \in m + 1 .. Len(oLog') PROVE oLog'[i].id = 0
      <4>1. i = n \/ i \in m + 1 .. Len(oLog) BY <1>4, <1>5
      <4>2. CASE i = n BY <1>5, <2>1, <4>2
      <4>3. CASE i \in m + 1 .. Len(oLog)
        <5>1. i \in DOMAIN oLog BY <1>5, <4>3
        <5> QED BY <1>5, <3>1, <4>3, <5>1
      <4> QED BY <4>1, <4>2, <4>3
    <3> QED BY <1>5, <3>1, <3>2
  <2>2. CASE oFlight'.id = e.id
    <3>1. n + 1 .. Len(oLog') = {} BY <1>5
    <3>2. oLog'[n].id = oFlight'.id /\ \A i \in n + 1 .. Len(oLog') : oLog'[i].id = 0
      BY <1>5, <2>2, <3>1
    <3> QED BY <1>5, <3>2 DEF FlightIsLast
  <2> QED BY <2>1, <2>2
<1>8. ChangesInside'
  <2> SUFFICES ASSUME NEW i \in DOMAIN oLog', oLog'[i].id # 0
               PROVE  oLog'[i].id \in 1 .. Len(oTarget) /\ oTarget[oLog'[i].id] # Outside
    BY DEF ChangesInside
  <2>1. CASE i \in DOMAIN oLog BY <1>1, <1>5, <2>1 DEF ChangesInside
  <2>2. CASE i = n BY <1>5, <1>6, <2>2
  <2> QED BY <1>5, <2>1, <2>2
<1>9. \A v : (Known(v)' <=> Known(v)) /\ (InQueue(v)' <=> InQueue(v))
  BY DEF Known, Appending, InQueue
<1>10. ASSUME NEW a \in 1 .. Len(oTarget), NEW b \in 1 .. Len(oTarget), a < b, oTarget[a] = oTarget[b],
              a \notin oTorn, Known(b), oFate'[b] = "applied", oTarget[a] # Outside, Overtaken(a, b)'
       PROVE  InQueue(b)
  <2>0. a \in O!Writes /\ b \in O!Writes /\ a # 0
    BY <1>3, OutboxConstants DEF O!Writes, O!OutboxAssumption
  <2>1. CASE e.id # 0 /\ b = oFlight.id BY <1>6, <2>1
  <2>2. CASE e.id # 0 /\ a = oFlight.id BY <1>2, <1>6, <1>10, <2>0, <2>2 DEF QueueInOrder
  <2>3. CASE e.id = 0 \/ (a # oFlight.id /\ b # oFlight.id)
    <3>1. oFate[b] = "applied" BY <1>3, <1>6, <1>10, <2>0, <2>3
    <3>2. a # e.id BY <1>6, <2>0, <2>3
    <3>3. PICK m \in DOMAIN oLog' : oLog'[m].id = a /\ \A i \in DOMAIN oLog' : oLog'[i].id = b => i < m
      BY <1>10 DEF Overtaken
    <3>4. m \in DOMAIN oLog /\ oLog[m].id = a BY <1>5, <3>2, <3>3
    <3>5. \A i \in DOMAIN oLog : oLog[i].id = b => i < m BY <1>5, <3>3
    <3>6. Overtaken(a, b) BY <3>4, <3>5 DEF Overtaken
    <3> QED BY <1>1, <1>10, <3>1, <3>6 DEF NewestLast
  <2> QED BY <2>1, <2>2, <2>3
<1>11. NewestLast' BY <1>9, <1>10 DEF NewestLast
<1> QED BY <1>7, <1>8, <1>11 DEF OrderInv

(* Every step keeps the order of what the server last heard. *)
LEMMA OrderStep ==
  ASSUME OutboxType, OutboxType', WriteInv, OrderInv, O!Next
  PROVE  OrderInv'
<1> USE DEF O!serverVars, O!memVars, O!sliceVars, O!durVars
<1>0. FlightIsLast /\ ChangesInside /\ NewestLast BY DEF OrderInv
<1>1. FlightAtHead /\ Submitted /\ QueueLogged BY DEF WriteInv
<1>2. /\ oFate \in [O!Writes -> Fates] /\ oQueue \in Seq(O!Writes) /\ oTarget \in Seq(Rows \cup {Outside})
      /\ Len(oTarget) \in 0 .. MaxWrites /\ oFlight \in FlightValues /\ oChain \in Seq(ChainWrite)
  BY DEF OutboxType
<1>3. ASSUME NEW k \in Rows \cup {Outside}, O!Submit(k) PROVE OrderInv'
  <2>1. PICK w : w = Len(oTarget) + 1 OBVIOUS
  <2>2. /\ oTarget' = Append(oTarget, k) /\ oQueue' = Append(oQueue, w) /\ oChain' = Append(oChain, O!Log(w))
        /\ oFlight' = oFlight \/ oFlight' = O!Sends(oQueue')
        /\ UNCHANGED <<O!serverVars, O!durVars>>
    BY <1>3, <2>1 DEF O!Submit
  <2>3. /\ \A i \in 1 .. Len(oTarget) : oTarget'[i] = oTarget[i]
        /\ Len(oTarget') = w /\ w \in Nat /\ Len(oTarget) \in Nat
        /\ \A i \in 1 .. Len(oTarget') : i \in 1 .. Len(oTarget) \/ i = w
        /\ \A i \in 1 .. Len(oTarget) : i \in 1 .. Len(oTarget')
    BY <1>2, <2>1, <2>2
  <2>4. FlightIsLast'
    <3>1. CASE oFlight' = oFlight
      <4> SUFFICES ASSUME oFlight.st = "applied" PROVE oTarget'[oFlight.id] = oTarget[oFlight.id]
        BY <1>0, <2>2, <3>1 DEF FlightIsLast
      <4>1. oFlight # O!Idle BY IdleParts
      <4>2. Len(oQueue) \in Nat \ {0} /\ oFlight.id = oQueue[1] /\ oFlight.id \in O!Writes
        BY <1>1, <4>1, FlightFront
      <4>3. InQueue(oFlight.id) BY <1>2, <4>2 DEF InQueue
      <4>4. oFlight.id <= Len(oTarget) BY <1>1, <4>2, <4>3 DEF Submitted
      <4>5. oFlight.id \in 1 .. Len(oTarget) BY <2>3, <4>2, <4>4 DEF O!Writes
      <4> QED BY <2>3, <4>5
    <3>2. CASE oFlight' = O!Sends(oQueue')
      <4>1. oQueue' \in Seq(O!Writes) BY DEF OutboxType
      <4>2. oFlight'.st # "applied" BY <3>2, <4>1, SendsFront, IdleParts
      <4> QED BY <4>2 DEF FlightIsLast
    <3> QED BY <2>2, <3>1, <3>2
  <2>5. ChangesInside'
    <3> SUFFICES ASSUME NEW i \in DOMAIN oLog, oLog[i].id # 0
                 PROVE  oLog[i].id \in 1 .. Len(oTarget') /\ oTarget'[oLog[i].id] # Outside
      BY <2>2 DEF ChangesInside
    <3>1. oLog[i].id \in 1 .. Len(oTarget) /\ oTarget[oLog[i].id] # Outside
      BY <1>0 DEF ChangesInside
    <3> QED BY <2>3, <3>1
  <2>6. ASSUME NEW v PROVE (Known(v)' => Known(v) \/ v = w) /\ (InQueue(v) => InQueue(v)') /\ InQueue(w)'
    <3>1. \A x : Logs(O!Log(w), x) => x = w BY KindsOfSlice DEF Logs
    <3>2. PICK n : n = Len(oChain) + 1 OBVIOUS
    <3>3. \A i \in DOMAIN oChain' : (i \in DOMAIN oChain /\ oChain'[i] = oChain[i]) \/ oChain'[i] = O!Log(w)
      BY <1>2, <2>2, Appended
    <3>4. Known(v)' => Known(v) \/ v = w BY <2>2, <3>1, <3>3 DEF Known, Appending
    <3>5. PICK m : m = Len(oQueue) + 1 OBVIOUS
    <3>6. /\ \A i \in DOMAIN oQueue : i \in DOMAIN oQueue' /\ oQueue'[i] = oQueue[i]
          /\ m \in DOMAIN oQueue' /\ oQueue'[m] = w
      BY <1>2, <2>2, <3>5, Appended
    <3>7. (InQueue(v) => InQueue(v)') /\ InQueue(w)' BY <3>6 DEF InQueue
    <3> QED BY <3>4, <3>7
  <2>7. \A a, b : Overtaken(a, b)' <=> Overtaken(a, b) BY <2>2 DEF Overtaken
  <2>8. ASSUME NEW a \in 1 .. Len(oTarget'), NEW b \in 1 .. Len(oTarget'), a < b, oTarget'[a] = oTarget'[b],
               a \notin oTorn, Known(b)', oFate[b] = "applied", oTarget'[a] # Outside, Overtaken(a, b), b # w
        PROVE  InQueue(b)'
    <3>1. a \in 1 .. Len(oTarget) /\ b \in 1 .. Len(oTarget)
      <4>1. b \in 1 .. Len(oTarget) BY <2>3, <2>8
      <4>2. a # w BY <2>3, <2>8, <4>1
      <4> QED BY <2>3, <4>1, <4>2
    <3>2. oTarget[a] = oTarget[b] /\ oTarget[a] # Outside BY <2>3, <2>8, <3>1
    <3>3. Known(b) BY <2>6, <2>8
    <3>4. InQueue(b) BY <1>0, <2>8, <3>1, <3>2, <3>3 DEF NewestLast
    <3> QED BY <2>6, <3>4
  <2>9. NewestLast' BY <2>2, <2>6, <2>7, <2>8 DEF NewestLast
  <2> QED BY <2>4, <2>5, <2>9 DEF OrderInv
<1>4. ASSUME NEW k \in Rows, NEW gone \in BOOLEAN, O!PeerWrites(k, gone) PROVE OrderInv'
  <2>1. PICK e : e = [key |-> k, id |-> 0, gone |-> gone] OBVIOUS
  <2>2. /\ oLog' = Append(oLog, e) /\ e.id = 0
        /\ UNCHANGED <<oFate, oTarget, oFlight, O!memVars, oChain, O!durVars>>
    BY <1>4, <2>1 DEF O!PeerWrites
  <2> QED BY <2>2, OrderGrows
<1>5. CASE O!ServerApplies
  <2>1. /\ oFlight.st = "sent" /\ oFlight' = [oFlight EXCEPT !.st = "applied"]
        /\ oFate' = [oFate EXCEPT ![oFlight.id] = "applied"]
        /\ oLog' = IF oTarget[oFlight.id] = Outside THEN oLog
                  ELSE Append(oLog, [key |-> oTarget[oFlight.id], id |-> oFlight.id, gone |-> FALSE])
        /\ UNCHANGED <<oTarget, O!memVars, oChain, O!durVars>>
    BY <1>5 DEF O!ServerApplies
  <2>2. oFlight # O!Idle BY <2>1, IdleParts
  <2>3. oFlight'.id = oFlight.id /\ oFlight'.st = "applied" BY <1>2, <2>1 DEF FlightValues
  <2>4. CASE oTarget[oFlight.id] # Outside
    <3>1. PICK e : e = [key |-> oTarget[oFlight.id], id |-> oFlight.id, gone |-> FALSE] OBVIOUS
    <3>2. e.id = oFlight.id /\ oLog' = Append(oLog, e) BY <2>1, <2>4, <3>1
    <3>3. UNCHANGED <<oTarget, oTorn, oQueue, oChain, oLogged>> BY <2>1
    <3> QED BY <2>1, <2>2, <2>3, <2>4, <3>2, <3>3, OrderGrows
  <2>5. CASE oTarget[oFlight.id] = Outside
    <3>1. oLog' = oLog BY <2>1, <2>5
    <3>2. FlightIsLast' BY <2>1, <2>3, <2>5 DEF FlightIsLast
    <3>3. ChangesInside' BY <1>0, <2>1, <3>1 DEF ChangesInside
    <3>4. \A v : (Known(v)' <=> Known(v)) /\ (InQueue(v)' <=> InQueue(v))
      BY <2>1 DEF Known, Appending, InQueue
    <3>5. \A a, b : Overtaken(a, b)' <=> Overtaken(a, b) BY <3>1 DEF Overtaken
    <3>6. ASSUME NEW b \in 1 .. Len(oTarget), oFate'[b] = "applied", oTarget[b] # Outside
          PROVE  oFate[b] = "applied"
      <4>1. b # oFlight.id BY <2>5, <3>6
      <4> QED BY <1>2, <2>1, <3>6, <4>1
    <3>7. ASSUME NEW a \in 1 .. Len(oTarget), NEW b \in 1 .. Len(oTarget), a < b, oTarget[a] = oTarget[b],
                 a \notin oTorn, Known(b), oFate'[b] = "applied", oTarget[a] # Outside, Overtaken(a, b)
          PROVE  InQueue(b)
      <4>1. oFate[b] = "applied" BY <3>6, <3>7
      <4> QED BY <1>0, <3>7, <4>1 DEF NewestLast
    <3>8. NewestLast' BY <2>1, <3>4, <3>5, <3>7 DEF NewestLast
    <3> QED BY <3>2, <3>3, <3>8 DEF OrderInv
  <2> QED BY <2>4, <2>5
<1>6. ASSUME UNCHANGED <<oLog, oTarget, oQueue, oLogged, oChain, oTorn>>,
             oFlight' = oFlight \/ oFlight'.st # "applied",
             \A v \in O!Writes : oFate'[v] = "applied" => oFate[v] = "applied"
      PROVE  OrderInv'
  <2>1. \A v : (Known(v)' <=> Known(v)) /\ (InQueue(v)' <=> InQueue(v))
    BY <1>6 DEF Known, Appending, InQueue
  <2>2. UNCHANGED <<oLog, oTarget>> /\ oTorn \subseteq oTorn' BY <1>6
  <2> QED BY <1>6, <2>1, <2>2, OrderStays
<1>7. CASE O!Flush
  <2>1. oFlight' = O!Sends(oQueue) /\ UNCHANGED <<oLog, oFate, oTarget, oQueue, oLogged, oChain, oTorn>>
    BY <1>7 DEF O!Flush
  <2>2. oFlight'.st # "applied" BY <1>2, <2>1, SendsFront, IdleParts
  <2> QED BY <1>6, <2>1, <2>2
<1>8. CASE O!ServerRefuses
  <2>1. /\ oFlight.st = "sent" /\ oFlight' = [oFlight EXCEPT !.st = "refused"]
        /\ oFate' = [oFate EXCEPT ![oFlight.id] = "refused"]
        /\ UNCHANGED <<oLog, oTarget, oQueue, oLogged, oChain, oTorn>>
    BY <1>8 DEF O!ServerRefuses
  <2>2. oFlight'.st # "applied" BY <1>2, <2>1 DEF FlightValues
  <2>3. \A v \in O!Writes : oFate'[v] = "applied" => oFate[v] = "applied" BY <1>2, <2>1
  <2> QED BY <1>6, <2>1, <2>2, <2>3
<1>9. CASE O!Retry
  <2>1. oFlight' = O!Idle /\ UNCHANGED <<oLog, oFate, oTarget, oQueue, oLogged, oChain, oTorn>>
    BY <1>9 DEF O!Retry, O!Keeps
  <2> QED BY <1>6, <2>1, IdleParts
<1>10. CASE O!Resumes \/ O!StreamBreaks
  <2>1. UNCHANGED <<oLog, oFate, oTarget, oFlight, oQueue, oLogged, oChain, oTorn>>
    BY <1>10 DEF O!Resumes, O!StreamBreaks
  <2> QED BY <1>6, <2>1
<1>11. ASSUME SettlingShape
       PROVE  UNCHANGED <<oLog, oTarget, oFate, oTorn>> /\ oTorn \subseteq oTorn' /\ \A v : Known(v)' => Known(v)
  <2>1. UNCHANGED <<oFate, oTarget, oLog, oDurLog, oLogged, oTorn>> BY <1>11 DEF SettlingShape
  <2>2. PICK D \in SUBSET O!Writes : SettlesWrites(D) BY <1>11 DEF SettlingShape
  <2>3. Grows(oChain, oChain', D) BY <2>2 DEF SettlesWrites
  <2>4. ASSUME NEW v, Known(v)' PROVE Known(v) BY <2>1, <2>3, <2>4, GrowsKnown
  <2> QED BY <2>1, <2>4
<1>12. CASE O!ApplyChange \/ O!ApplySnapshot \/ O!ApplyResync \/ \E w \in O!Writes : O!Grace(w)
  <2>1. SettlingShape BY <1>12, SettlingStep
  <2>2. oFlight' = oFlight /\ oQueue' = oQueue
    BY <1>12 DEF O!ApplyChange, O!ApplySnapshot, O!ApplyResync, O!Grace
  <2>3. \A v : InQueue(v)' <=> InQueue(v) BY <2>2 DEF InQueue
  <2> QED BY <1>11, <2>1, <2>2, <2>3, OrderStays
<1>13. CASE O!Acked \/ O!Rejected
  <2>1. SettlingShape BY <1>13, SettlingStep
  <2>2. PICK x : x = oFlight.id OBVIOUS
  <2>3. /\ oQueue' = Tail(oQueue) /\ oFlight' = O!Sends(oQueue')
        /\ oFlight.st = "applied" \/ oFlight.st = "refused"
    BY <1>13 DEF O!Acked, O!Rejected
  <2>4. oFlight # O!Idle BY <2>3, IdleParts
  <2>5. /\ oQueue # <<>> /\ x = oQueue[1] /\ (oFlight.st # "sent" => oFate[x] = oFlight.st)
        /\ Tail(oQueue) \in Seq(O!Writes)
    BY <1>1, <2>2, <2>4, FlightFront
  <2>6. oFlight'.st # "applied"
    <3>1. oQueue' \in Seq(O!Writes) BY DEF OutboxType
    <3> QED BY <2>3, <3>1, SendsFront, IdleParts
  <2>7. ASSUME NEW v, InQueue(v), v # x PROVE InQueue(v)'
    <3>1. Increasing(oQueue) BY <1>1 DEF QueueLogged
    <3>2. \A w : (\E i \in DOMAIN Tail(oQueue) : Tail(oQueue)[i] = w)
                 <=> (\E i \in DOMAIN oQueue : oQueue[i] = w) /\ w # oQueue[1]
      BY <1>2, <2>5, <3>1, TailOfQueue
    <3> QED BY <2>3, <2>5, <2>7, <3>2 DEF InQueue
  <2>8. ASSUME oFate[x] = "applied", NEW a \in 1 .. Len(oTarget), oTarget[a] = oTarget[x], oTarget[a] # Outside,
               Overtaken(a, x)
        PROVE  FALSE
    <3>1. oFlight.st = "applied" /\ oTarget[oFlight.id] # Outside BY <2>2, <2>3, <2>5, <2>8
    <3>2. PICK m \in DOMAIN oLog : oLog[m].id = x /\ \A n \in m + 1 .. Len(oLog) : oLog[n].id = 0
      BY <1>0, <2>2, <3>1 DEF FlightIsLast
    <3>3. PICK l \in DOMAIN oLog : oLog[l].id = a /\ \A n \in DOMAIN oLog : oLog[n].id = x => n < l
      BY <2>8 DEF Overtaken
    <3>4. m < l BY <3>2, <3>3
    <3>5. DOMAIN oLog = 1 .. Len(oLog) /\ Len(oLog) \in Nat BY DEF OutboxType
    <3>6. l \in m + 1 .. Len(oLog) BY <3>4, <3>5
    <3>7. a = 0 BY <3>2, <3>3, <3>6
    <3> QED BY <1>2, <3>7
  <2>9. ASSUME NEW b \in 1 .. Len(oTarget), InQueue(b), oFate[b] = "applied",
               \E a \in 1 .. Len(oTarget) : oTarget[a] = oTarget[b] /\ oTarget[a] # Outside /\ Overtaken(a, b)
        PROVE  InQueue(b)'
    BY <2>7, <2>8, <2>9
  <2> QED BY <1>11, <2>1, <2>6, <2>9, OrderStays
<1>14. CASE O!WriteLands \/ O!WriteFails
  <2>1. /\ oChain # <<>> /\ oChain' = Tail(oChain) /\ oTorn \subseteq oTorn'
        /\ UNCHANGED <<oFate, oTarget, oLog, oFlight, oQueue>>
    BY <1>14 DEF O!WriteLands, O!WriteFails
  <2>2. ASSUME NEW v \in oLogged' PROVE v \in oLogged \/ Logs(oChain[1], v)
    <3>1. CASE O!WriteFails BY <2>2, <3>1 DEF O!WriteFails
    <3>2. CASE O!WriteLands
      <4>1. Head(oChain) = oChain[1] /\ oChain[1] \in ChainWrite BY <2>1, ChainFront
      <4>2. CASE O!Dropped(oChain[1]) BY <2>2, <3>2, <4>1, <4>2 DEF O!WriteLands
      <4>3. CASE O!Commits(oChain[1])
        <5>1. oChain[1].op \in {"slice", "row", "append", "markHeld", "remove"}
          BY <4>1, ChainWriteKinds
        <5>2. CASE oChain[1].op = "append"
          <6>1. oLogged' = oLogged \cup {oChain[1].id} BY <4>3, <5>2, CommitsKinds
          <6> QED BY <2>2, <5>2, <6>1 DEF Logs
        <5>3. CASE oChain[1].op # "append"
          <6>1. oLogged' = oLogged BY <4>3, <5>1, <5>3, CommitsKinds
          <6> QED BY <2>2, <6>1
        <5> QED BY <5>2, <5>3
      <4> QED BY <3>2, <4>1, <4>2, <4>3 DEF O!WriteLands
    <3> QED BY <1>14, <3>1, <3>2
  <2>3. ASSUME NEW v, Known(v)' PROVE Known(v) BY <2>1, <2>2, <2>3, HeadKnown
  <2>4. \A v : InQueue(v)' <=> InQueue(v) BY <2>1 DEF InQueue
  <2> QED BY <2>1, <2>3, <2>4, OrderStays
<1>15. CASE O!Reload
  <2>1. /\ oFlight' = O!Idle /\ oChain' = <<>> /\ oQueue' = [i \in DOMAIN O!Pending |-> O!Pending[i].id]
        /\ UNCHANGED <<oFate, oLog, oTarget, oDurLog, oLogged, oTorn>>
    BY <1>15 DEF O!Reload
  <2>2. \A v : Known(v)' <=> v \in oLogged
    <3>1. DOMAIN oChain' = {} BY <2>1
    <3> QED BY <2>1, <3>1 DEF Known, Appending
  <2>3. \A v : Known(v)' => Known(v) BY <2>2 DEF Known
  <2>4. ASSUME NEW v, Waiting(v) PROVE InQueue(v)'
    <3>1. PICK i \in DOMAIN oDurLog : oDurLog[i].id = v /\ ~oDurLog[i].held BY <2>4 DEF Waiting
    <3>2. oDurLog \in Seq(Entry) BY DEF OutboxType
    <3>3. PICK n \in DOMAIN O!Pending : O!Pending[n] = oDurLog[i] BY <3>1, <3>2, PendingLists
    <3>4. n \in DOMAIN oQueue' /\ oQueue'[n] = v BY <2>1, <3>1, <3>3
    <3> QED BY <3>4 DEF InQueue
  <2>5. ASSUME NEW b \in 1 .. Len(oTarget), InQueue(b), Known(b)' PROVE InQueue(b)'
    <3>1. b \in oLogged BY <2>2, <2>5
    <3>2. b \in O!Writes BY <3>1 DEF OutboxType
    <3>3. Waiting(b) BY <1>1, <2>5, <3>1, <3>2 DEF QueueLogged
    <3> QED BY <2>4, <3>3
  <2>6. oFlight'.st # "applied" /\ oTorn \subseteq oTorn' BY <2>1, IdleParts
  <2> QED BY <2>1, <2>3, <2>5, <2>6, OrderStays
<1> QED
  BY <1>3, <1>4, <1>5, <1>7, <1>8, <1>9, <1>10, <1>12, <1>13, <1>14, <1>15 DEF O!Next, O!Drain,
     O!Stream

(* The invariant gives the second half of what the runs check. *)
LEMMA OrderImplied ==
  ASSUME OutboxType, WriteInv, OrderInv
  PROVE  O!NewestWins
<1>1. SUFFICES ASSUME NEW a \in 1 .. Len(oTarget), NEW b \in 1 .. Len(oTarget), a < b, oTarget[a] = oTarget[b],
                      a \notin oTorn, b \in oLogged, oFate[b] = "applied",
                      O!Applied(a) # {}, O!Applied(b) # {}, O!Max(O!Applied(a)) > O!Max(O!Applied(b))
               PROVE  InQueue(b)
  BY DEF O!NewestWins, InQueue
<1>2. DOMAIN oLog = 1 .. Len(oLog) /\ Len(oLog) \in Nat BY DEF OutboxType
<1>3. O!Applied(a) \in SUBSET (1 .. Len(oLog)) /\ O!Applied(b) \in SUBSET (1 .. Len(oLog))
  BY <1>2 DEF O!Applied
<1>4. PICK m : m = O!Max(O!Applied(a)) OBVIOUS
<1>5. PICK n : n = O!Max(O!Applied(b)) OBVIOUS
<1>6. m \in O!Applied(a) BY <1>1, <1>2, <1>3, <1>4, LastOf
<1>7. n \in O!Applied(b) /\ \A y \in O!Applied(b) : y <= n BY <1>1, <1>2, <1>3, <1>5, LastOf
<1>8. m \in DOMAIN oLog /\ oLog[m].id = a BY <1>6 DEF O!Applied
<1>9. ASSUME NEW i \in DOMAIN oLog, oLog[i].id = b PROVE i < m
  <2>1. i \in O!Applied(b) BY <1>9 DEF O!Applied
  <2>2. i <= n /\ m > n BY <1>1, <1>4, <1>5, <1>7, <2>1
  <2>3. i \in Nat /\ m \in Nat /\ n \in Nat BY <1>2, <1>3, <1>7, <1>8
  <2> QED BY <2>2, <2>3
<1>10. Overtaken(a, b) BY <1>8, <1>9 DEF Overtaken
<1>11. oTarget[a] # Outside
  <2>1. a # 0
    <3>1. Len(oTarget) \in Nat BY DEF OutboxType
    <3> QED BY <3>1
  <2> QED BY <1>8, <2>1 DEF OrderInv, ChangesInside
<1>12. Known(b) BY <1>1 DEF Known
<1> QED BY <1>1, <1>10, <1>11, <1>12 DEF OrderInv, NewestLast

(* The invariant holds at the start. *)
LEMMA OutboxInit == O!Init => OutboxInv
BY OutboxTypeInit, SliceInit, WriteInit DEF OutboxInv

(* Every step of the outbox, the stream and the durable tier keeps it. *)
LEMMA OutboxStep == OutboxInv /\ [O!Next]_(O!vars) => OutboxInv'
<1> SUFFICES ASSUME OutboxInv, [O!Next]_(O!vars) PROVE OutboxInv' OBVIOUS
<1>1. OutboxType /\ SliceInv /\ WriteInv /\ OrderInv BY DEF OutboxInv
<1>2. CASE O!Next
  <2>1. OutboxType' BY <1>1, <1>2, OutboxTypeStep DEF WriteInv
  <2> QED BY <1>1, <1>2, <2>1, SliceStep, WriteStep, OrderStep DEF OutboxInv
<1>3. CASE UNCHANGED O!vars
  <2>1. UNCHANGED <<oLog, oFate, oTarget, oFlight, oQueue, oOverlay, oHeldIds, oTimers, oRows, oCursor, oOpen, oPos,
                    oChain, oFrozen, oDurRows, oDurCursor, oDurLog, oLogged, oTorn, oFaults>>
    BY <1>3 DEF O!vars, O!serverVars, O!memVars, O!sliceVars, O!durVars
  <2>2. OutboxType' BY <1>1, <2>1 DEF OutboxType
  <2>3. SliceInv' BY <1>1, <2>1 DEF SliceInv, StreamAtCursor, ChainSound, ChainLinked
  <2>4. FlightAtHead' BY <1>1, <2>1 DEF WriteInv, FlightAtHead
  <2>5. WriteInv'
    <3>1. \A i \in DOMAIN oLog' : oLog'[i].id <= Len(oTarget) BY <1>1, <2>1 DEF WriteInv, Submitted
    <3> QED BY <1>1, <2>1, <2>4, <3>1, AnswerKeeps
  <2>6. OrderInv'
    <3>1. \A v : (Known(v)' <=> Known(v)) /\ (InQueue(v)' <=> InQueue(v))
      BY <2>1 DEF Known, Appending, InQueue
    <3> QED BY <1>1, <2>1, <3>1, OrderStays
  <2> QED BY <2>2, <2>3, <2>5, <2>6 DEF OutboxInv
<1> QED BY <1>2, <1>3

(* The persisted cursor stands for exactly the persisted rows, and a write    *)
(* that reached the durable log stays there until the server has given its    *)
(* verdict, whatever failed or was lost with the page (sqlite-store.ts, the   *)
(* frozen guard; outbox.ts, settle).                                          *)
THEOREM DurableIsTruthful == O!Spec => []DurableTruthful
<1>1. O!Init => OutboxInv
  BY OutboxInit
<1>2. OutboxInv /\ [O!Next]_(O!vars) => OutboxInv'
  BY OutboxStep
<1>3. OutboxInv => DurableTruthful
  BY SliceImplied DEF OutboxInv, WriteInv, HeldAnswered, O!DurableTruthful, O!NoWriteLost,
     DurableTruthful
<1>q. QED
  BY <1>1, <1>2, <1>3, PTL DEF O!Spec

(* A write without an answer stays shown, and the server's last word on a row *)
(* is the newest of the client's writes to it unless that one is queued again *)
(* (read-model.ts, settleEcho; outbox.ts, the FIFO drain).                    *)
THEOREM IntentDoesPrevail == O!Spec => []IntentPrevails
<1>1. O!Init => OutboxInv
  BY OutboxInit
<1>2. OutboxInv /\ [O!Next]_(O!vars) => OutboxInv'
  BY OutboxStep
<1>3. OutboxInv => IntentPrevails
  BY OrderImplied DEF OutboxInv, WriteInv, O!IntentPrevails, IntentPrevails
<1>q. QED
  BY <1>1, <1>2, <1>3, PTL DEF O!Spec
=============================================================================
