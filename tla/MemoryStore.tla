---------------------------- MODULE MemoryStore ----------------------------
(***************************************************************************)
(* The bounded in-memory store of @lesto/cache                             *)
(* (packages/cache/src/memory-store.ts).  A Map iterates in insertion      *)
(* order and every touch re-inserts the key, so `order` is the Map's       *)
(* iteration order: the least recently used key is at its head.  Each verb *)
(* runs without an await and is one step.                                  *)
(***************************************************************************)
EXTENDS Integers, Sequences, FiniteSets, SequencesExt

CONSTANTS
  Keys,
  MaxEntries,  \* the cap
  Ttls,        \* how far ahead a deadline is set; Forever stands for null
  MaxNow,      \* bound: where the clock stops
  MaxUses,     \* bound: how many gets and sets there are
  Forever

MaxEntriesAssumption == MaxEntries \in Nat \ {0}  \* the constructor throws otherwise

VARIABLES
  now,       \* the clock
  order,     \* the keys of the Map, in iteration order
  deadline,  \* per key: expiresAt; only that of a key in the Map counts
  uses,      \* ghost: how many gets and sets there were
  usedAt     \* ghost: per key, the number of its last get or set

vars == <<now, order, deadline, uses, usedAt>>

Init ==
  /\ now = 0
  /\ order = <<>>
  /\ deadline = [k \in Keys |-> Forever]
  /\ uses = 0
  /\ usedAt = [k \in Keys |-> 0]

Stored == Range(order)

Dead(d) == d # Forever /\ d <= now

(* Seeded fault: a touch leaves the key where it is. *)
TouchInPlace(keys, k) == IF k \in Range(keys) THEN keys ELSE Append(keys, k)

(* What iteration still meets once the entries at all other places are gone. *)
Kept(keys, at) ==
  [n \in 1 .. Cardinality(at) |-> keys[CHOOSE i \in at : Cardinality({h \in at : h <= i}) = n]]

Without(keys, k) == Kept(keys, {i \in DOMAIN keys : keys[i] # k})

(* Delete, then set: the key moves to the end. *)
Touch(keys, k) == Append(Without(keys, k), k)

(* Seeded fault: the expired entries are not swept first. *)
PopOverflow(keys, exp) ==
  SubSeq(keys, 1 + (IF Len(keys) > MaxEntries THEN Len(keys) - MaxEntries ELSE 0), Len(keys))

(* Over the cap every expired entry goes, and then the head until it fits. *)
EvictOverflow(keys, exp) ==
  LET live == Kept(keys, {i \in DOMAIN keys : ~Dead(exp[keys[i]])})
      over == Len(live) - MaxEntries
  IN IF Len(keys) <= MaxEntries THEN keys
     ELSE SubSeq(live, 1 + (IF over > 0 THEN over ELSE 0), Len(live))

Use(k) ==
  /\ uses < MaxUses
  /\ uses' = uses + 1
  /\ usedAt' = [usedAt EXCEPT ![k] = uses + 1]

(* A get of a key that is not there touches nothing. *)
Get(k) ==
  /\ k \in Stored
  /\ Use(k)
  /\ order' = Touch(order, k)
  /\ UNCHANGED <<now, deadline>>

Set(k) ==
  /\ Use(k)
  /\ \E ttl \in Ttls :
       deadline' = [deadline EXCEPT ![k] = IF ttl = Forever THEN Forever ELSE now + ttl]
  /\ order' = EvictOverflow(Touch(order, k), deadline')
  /\ UNCHANGED now

Delete(k) ==
  /\ k \in Stored
  /\ order' = Without(order, k)
  /\ UNCHANGED <<now, deadline, uses, usedAt>>

Clear ==
  /\ order' = <<>>
  /\ UNCHANGED <<now, deadline, uses, usedAt>>

Advance ==
  /\ now < MaxNow
  /\ now' = now + 1
  /\ UNCHANGED <<order, deadline, uses, usedAt>>

Next ==
  \/ \E k \in Keys : Get(k) \/ Set(k) \/ Delete(k)
  \/ Clear
  \/ Advance

Spec == Init /\ [][Next]_vars

-----------------------------------------------------------------------------
(* Properties *)

(* The iteration order is the order of last use, whatever was evicted or    *)
(* deleted in between, and no key is in it twice.                           *)
OrderIsRecency ==
  \A i, j \in 1 .. Len(order) : i < j => usedAt[order[i]] < usedAt[order[j]]

(* What a set evicts: a live entry goes only when every entry that stays is *)
(* alive, the store is full and all of them were used after it.  A dead     *)
(* entry never displaces a live one, and the order stays that of last use.  *)
EvictsTheRightOne ==
  [][/\ OrderIsRecency'
     /\ \A k \in Keys :
          LET stays == Range(order') IN
          uses' # uses /\ k \in Stored \ stays /\ ~Dead(deadline[k]) =>
            /\ Len(order') = MaxEntries
            /\ \A j \in stays : ~Dead(deadline'[j]) /\ usedAt'[j] > usedAt[k]]_vars
=============================================================================
