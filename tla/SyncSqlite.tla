----------------------------- MODULE SyncSqlite -----------------------------
(***************************************************************************)
(* The transactions of a synchronous one-connection SQLite engine          *)
(* (packages/db/src/sync-sqlite.ts, adaptSyncSqlite): spans of BEGIN ...   *)
(* COMMIT or ROLLBACK, queued on a promise chain, and the statements that  *)
(* callers run on the same connection outside of any span.                 *)
(*                                                                         *)
(* A span runs one statement, then one more in a nested transaction.       *)
(***************************************************************************)
EXTENDS Integers, Sequences

CONSTANTS
  Spans,    \* calls of transaction()
  Loose,    \* statements on the database itself
  MaxFaults \* bound: statements that throw

Written(s) == {<<s, "outer">>, <<s, "inner">>}

(* A loose statement is not one of a span's. *)
LooseAssumption == \A s \in Spans : Loose \cap Written(s) = {}

VARIABLES
  chain,   \* the spans in the order they were asked for, the head may run
  pc,      \* per span
  open,    \* the connection is in a transaction
  pending, \* what that transaction wrote
  disk,    \* what is committed
  acked,   \* the loose statements that returned
  faults,
  blamed,  \* ghost: the spans one of whose own statements threw
  joined,  \* ghost: the loose statements that ran inside a span
  stuck    \* ghost: a ROLLBACK failed and left its transaction open

engine == <<open, pending, disk>>
vars == <<chain, pc, engine, acked, faults, blamed, joined, stuck>>

Init ==
  /\ chain = <<>>
  /\ pc = [s \in Spans |-> "new"]
  /\ open = FALSE /\ pending = {} /\ disk = {}
  /\ acked = {}
  /\ faults = 0
  /\ blamed = {} /\ joined = {} /\ stuck = FALSE

Fault(s) == faults < MaxFaults /\ faults' = faults + 1 /\ blamed' = blamed \cup {s}
NoFault == UNCHANGED <<faults, blamed>>

Goes(s, next) == pc' = [pc EXCEPT ![s] = next]

(* Seeded fault: BEGIN does not wait for the span before. *)
Ungated(s) == \E i \in DOMAIN chain : chain[i] = s

(* run = chain.then(...): the spans before this one have settled. *)
Gated(s) == chain # <<>> /\ Head(chain) = s

(* The promise settles, and with it the link that gates the next span.  A     *)
(* rejection is swallowed there.                                              *)
Settles(s, outcome) ==
  /\ Goes(s, outcome)
  /\ chain' = Tail(chain)

Transaction(s) ==
  /\ pc[s] = "new"
  /\ Goes(s, "begin")
  /\ chain' = Append(chain, s)
  /\ NoFault /\ UNCHANGED <<engine, acked, joined, stuck>>

(* BEGIN, outside the try: when it throws there is nothing to roll back. *)
Begin(s) ==
  /\ pc[s] = "begin" /\ Gated(s)
  /\ \/ ~open /\ open' = TRUE /\ Goes(s, "outer") /\ NoFault /\ UNCHANGED chain
     \/ open /\ Settles(s, "failed") /\ NoFault /\ UNCHANGED open
     \/ ~open /\ Settles(s, "failed") /\ Fault(s) /\ UNCHANGED open
  /\ UNCHANGED <<pending, disk, acked, joined, stuck>>

Writes(w) ==
  IF open THEN pending' = pending \cup {w} /\ UNCHANGED disk
  ELSE disk' = disk \cup {w} /\ UNCHANGED pending

Outer(s) ==
  /\ pc[s] = "outer"
  /\ Writes(<<s, "outer">>)
  /\ Goes(s, "inner")
  /\ NoFault /\ UNCHANGED <<chain, open, acked, joined, stuck>>

(* Seeded fault: a nested transaction takes its place in the chain. *)
Requeued(s) == chain = <<>>

(* A nested transaction runs flat, on the span that is open. *)
RunsFlat(s) == TRUE

Inner(s) ==
  /\ pc[s] = "inner" /\ RunsFlat(s)
  /\ Writes(<<s, "inner">>)
  /\ Goes(s, "commit")
  /\ NoFault /\ UNCHANGED <<chain, open, acked, joined, stuck>>

Commit(s) ==
  /\ pc[s] = "commit"
  /\ open' = FALSE
  /\ pending' = {}
  /\ disk' = disk \cup pending
  /\ Settles(s, "done")
  /\ NoFault /\ UNCHANGED <<acked, joined, stuck>>

(* A statement of the span throws, COMMIT included; of some errors the engine *)
(* rolls back by itself.                                                      *)
Throws(s) ==
  /\ pc[s] \in {"outer", "inner", "commit"}
  /\ Fault(s)
  /\ Goes(s, "rollback")
  /\ \/ UNCHANGED <<open, pending>>
     \/ open' = FALSE /\ pending' = {}
  /\ UNCHANGED <<chain, disk, acked, joined, stuck>>

(* Seeded fault: what was written before the error is kept. *)
Kept == disk' = disk \cup pending

Discarded == UNCHANGED disk

(* The catch: ROLLBACK, and the original error goes on. *)
Rollback(s) ==
  /\ pc[s] = "rollback"
  /\ open' = FALSE
  /\ pending' = {}
  /\ Discarded
  /\ Settles(s, "failed")
  /\ NoFault /\ UNCHANGED <<acked, joined, stuck>>

(* ROLLBACK throws as well, which is swallowed. *)
RollbackFails(s) ==
  /\ pc[s] = "rollback" /\ open
  /\ Fault(s)
  /\ Settles(s, "failed")
  /\ stuck' = TRUE
  /\ UNCHANGED <<engine, acked, joined>>

(* A statement on the database itself: it goes to the one connection, and     *)
(* into whatever span is open there.                                          *)
LooseStatement(w) ==
  /\ w \notin acked
  /\ acked' = acked \cup {w}
  /\ Writes(w)
  /\ joined' = IF open THEN joined \cup {w} ELSE joined
  /\ NoFault /\ UNCHANGED <<chain, pc, open, stuck>>

SpanStep(s) == Begin(s) \/ Outer(s) \/ Inner(s) \/ Commit(s) \/ Rollback(s)

Next ==
  \/ \E s \in Spans : Transaction(s) \/ SpanStep(s) \/ Throws(s) \/ RollbackFails(s)
  \/ \E w \in Loose : LooseStatement(w)

Spec == Init /\ [][Next]_vars

(* A callback that is through with an await goes on. *)
Fairness == \A s \in Spans : WF_vars(SpanStep(s))

FairSpec == Spec /\ Fairness

-----------------------------------------------------------------------------
(* Properties *)

(* A span is committed whole or not at all, and its promise says which,       *)
(* whatever other spans and loose statements run around it; a loose statement *)
(* is lost only in a span it happened to join (sync-sqlite.ts, transaction).  *)
SpansAtomic ==
  /\ \A s \in Spans : /\ pc[s] = "done" => Written(s) \subseteq disk
                      /\ pc[s] = "failed" => Written(s) \cap disk = {}
  /\ acked \ joined \subseteq disk

(* "A rejected span does not poison the queue": a span fails for an error of  *)
(* its own, never for another's, unless a ROLLBACK failed and left the        *)
(* connection inside its transaction (sync-sqlite.ts, the chain).             *)
FailuresAreOwn == \A s \in Spans : pc[s] = "failed" => s \in blamed \/ stuck

(* Every span that is asked for settles: no span waits for itself, or for one *)
(* that failed (sync-sqlite.ts, flat nesting).                                *)
EverySpanSettles == \A s \in Spans : pc[s] = "begin" ~> pc[s] \in {"done", "failed"}

(* Spans are isolated: each is atomic, and none fails for another's error     *)
(* (sync-sqlite.ts, transaction).                                             *)
SpansIsolated == SpansAtomic /\ FailuresAreOwn
=============================================================================
