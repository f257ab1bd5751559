------------------------------ MODULE Migrator ------------------------------
(***************************************************************************)
(* Booting instances that migrate one database, and operators who roll     *)
(* back (packages/migrate/src/migrator.ts).  On Postgres a migrate() is    *)
(* one transaction under an advisory lock, in which the transaction of     *)
(* each migration runs flat; on SQLite each migration commits by itself.   *)
(***************************************************************************)
EXTENDS Integers, FiniteSetsExt

CONSTANTS
  Callers,
  NoOne,
  NumVersions,
  Dialects,
  MaxFaults \* bound: migrations that throw

Versions == 1 .. NumVersions

MigratorAssumption == NumVersions \in Nat /\ NoOne \notin Callers

VARIABLES
  dialect,
  ledger,  \* schema_migrations: the versions applied
  lock,    \* the holder of the advisory lock
  call,    \* per caller: [pc, todo], the versions yet to go up or down
  staged,  \* per caller: what its open transaction applied
  faults,
  thrown,  \* ghost: the callers whose own migration threw
  crossed  \* ghost: a rollback acted on a ledger that had changed since

vars == <<dialect, ledger, lock, call, staged, faults, thrown, crossed>>

Idle == [pc |-> "idle", todo |-> {}]

Init ==
  /\ dialect \in Dialects
  /\ ledger = {}
  /\ lock = NoOne
  /\ call = [c \in Callers |-> Idle]
  /\ staged = [c \in Callers |-> {}]
  /\ faults = 0
  /\ thrown = {} /\ crossed = FALSE

Goes(c, pc, todo) == call' = [call EXCEPT ![c] = [pc |-> pc, todo |-> todo]]
At(c, pc) == call[c].pc = pc
Frees(c) == lock' = IF lock = c THEN NoOne ELSE lock

(* migrate() begins, its transaction too where the dialect has one. *)
Migrate(c) ==
  /\ call[c].pc \in {"idle", "done", "failed"}
  /\ Goes(c, IF dialect = "postgres" THEN "lock" ELSE "read", {})
  /\ thrown' = thrown \ {c}
  /\ UNCHANGED <<dialect, ledger, lock, staged, faults, crossed>>

(* Seeded fault: pg_try_advisory_xact_lock, and the answer is not looked at. *)
Tries(c) == TRUE

(* pg_advisory_xact_lock() waits. *)
Waits(c) == lock = NoOne

Lock(c) ==
  /\ At(c, "lock") /\ Waits(c)
  /\ lock' = c
  /\ Goes(c, "read", {})
  /\ UNCHANGED <<dialect, ledger, staged, faults, thrown, crossed>>

(* appliedVersions(), and the entries that are pending. *)
Read(c) ==
  /\ At(c, "read")
  /\ Goes(c, "apply", Versions \ ledger)
  /\ UNCHANGED <<dialect, ledger, lock, staged, faults, thrown, crossed>>

(* Seeded fault: the migrations as the caller happened to list them. *)
AsListed(todo) == Max(todo)

(* The constructor sorts the entries, and the loop takes them in order. *)
InOrder(todo) == Min(todo)

(* up() and the INSERT, in the caller's transaction or in one of their own. *)
Apply(c) ==
  LET v == InOrder(call[c].todo) IN
  /\ At(c, "apply") /\ call[c].todo # {}
  /\ v \notin ledger /\ \A d \in Callers \ {c} : v \notin staged[d]
  /\ Goes(c, "apply", call[c].todo \ {v})
  /\ IF dialect = "postgres"
     THEN staged' = [staged EXCEPT ![c] = @ \cup {v}] /\ UNCHANGED ledger
     ELSE ledger' = ledger \cup {v} /\ UNCHANGED staged
  /\ UNCHANGED <<dialect, lock, faults, thrown, crossed>>

(* The transaction rolls back, the lock goes with it, and the call rejects. *)
Rejects(c) ==
  /\ Goes(c, "failed", {})
  /\ staged' = [staged EXCEPT ![c] = {}]
  /\ Frees(c)
  /\ UNCHANGED <<dialect, ledger, crossed>>

(* Another caller has applied it meanwhile: the primary key conflicts. *)
Conflicts(c) ==
  /\ At(c, "apply") /\ call[c].todo # {} /\ InOrder(call[c].todo) \in ledger
  /\ Rejects(c)
  /\ UNCHANGED <<faults, thrown>>

Throws(c) ==
  /\ call[c].pc \in {"apply", "down"} /\ call[c].todo # {}
  /\ faults < MaxFaults /\ faults' = faults + 1
  /\ thrown' = thrown \cup {c}
  /\ Rejects(c)

(* The call returns; on Postgres its transaction commits. *)
Returns(c) ==
  /\ At(c, "apply") /\ call[c].todo = {}
  /\ ledger' = ledger \cup staged[c]
  /\ staged' = [staged EXCEPT ![c] = {}]
  /\ Frees(c)
  /\ Goes(c, "done", {})
  /\ UNCHANGED <<dialect, faults, thrown, crossed>>

(* rollback() takes no lock: it reads the ledger for the latest version ... *)
RollbackReads(c) ==
  /\ call[c].pc \in {"idle", "done", "failed"} /\ ledger # {}
  /\ Goes(c, "down", {Max(ledger)})
  /\ thrown' = thrown \ {c}
  /\ UNCHANGED <<dialect, ledger, lock, staged, faults, crossed>>

(* ... and then takes that one down. *)
Down(c) ==
  /\ At(c, "down")
  /\ ledger' = ledger \ call[c].todo
  /\ crossed' = (crossed \/ ledger = {} \/ call[c].todo # {Max(ledger)}
                 \/ \E d \in Callers \ {c} : call[d].pc = "apply")
  /\ Goes(c, "done", {})
  /\ UNCHANGED <<dialect, lock, staged, faults, thrown>>

CallStep(c) ==
  Lock(c) \/ Read(c) \/ Apply(c) \/ Conflicts(c) \/ Throws(c) \/ Returns(c) \/ Down(c)

Next == \E c \in Callers : Migrate(c) \/ RollbackReads(c) \/ CallStep(c)

Spec == Init /\ [][Next]_vars

-----------------------------------------------------------------------------
(* Properties *)

(* No version is applied before the ones it builds on, whoever boots beside   *)
(* whom and whichever migration throws.  A rollback that overlaps a migrate,  *)
(* or another rollback, is the exception: it takes no lock, and what it read  *)
(* as the latest version need not be the latest any more (migrator.ts,        *)
(* migrate and rollback).                                                     *)
PrefixApplied == ~crossed => \A v \in ledger : 1 .. v \subseteq ledger

(* Instances that boot at once on Postgres do not fail each other: one        *)
(* migrates, the others find nothing to do (migrator.ts, withMigrationLock).  *)
NoBootFailsAnother ==
  dialect = "postgres" => \A c \in Callers : call[c].pc = "failed" => c \in thrown

(* Boots agree: on a prefix, and without failing each other (migrator.ts).    *)
BootsAgree == PrefixApplied /\ NoBootFailsAnother
=============================================================================
