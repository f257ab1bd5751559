----------------------------- MODULE Workflows -----------------------------
(***************************************************************************)
(* The step-memoization engine of @lesto/workflows                         *)
(* (packages/workflows/src/engine.ts): one run id of one workflow, whose   *)
(* function takes the steps 1..NumSteps in order.                          *)
(*                                                                         *)
(* A pass is one call of run() with that run id.  Nothing stops the caller *)
(* from starting several at once, or again after a crash.  Every read and  *)
(* every write of the journal is a statement of its own, and fn runs       *)
(* between them.                                                           *)
(***************************************************************************)
EXTENDS Integers

CONSTANTS
  Passes,     \* the passes that may run at the same time
  NumSteps,   \* how many steps the workflow takes
  Values,     \* what fn may compute
  Undefined,  \* what a void fn returns
  Null,       \* JSON null
  MaxStarts   \* bound: how often run() is called

ASSUME StepsAssumption == NumSteps \in Nat \ {0} /\ MaxStarts \in Nat

ASSUME ValuesAssumption == Undefined \notin Values /\ Null # Undefined

Steps == 1 .. NumSteps

(* A row that is not there, and a step a pass has not finished. *)
CONSTANT None

ASSUME NoneAssumption == None \notin Values \cup {Undefined, Null}

(* What JSON.parse(JSON.stringify(v ?? null)) gives. *)
Journaled(v) == IF v = Undefined THEN Null ELSE v

VARIABLES
  journal,  \* the table: step key |-> result
  pc,       \* per pass: where it is
  at,       \* per pass: the step it is in
  result,   \* per pass: what fn returned
  seen,     \* per pass: what step() returned to the workflow, by step
  starts    \* how often run() was called

vars == <<journal, pc, at, result, seen, starts>>

Init ==
  /\ journal = [k \in Steps |-> None]
  /\ pc = [p \in Passes |-> "idle"]
  /\ at = [p \in Passes |-> 1]
  /\ result = [p \in Passes |-> None]
  /\ seen = [p \in Passes |-> [k \in Steps |-> None]]
  /\ starts = 0

(* run(): a fresh pass over the workflow from its first step. *)
Start(p) ==
  /\ pc[p] = "idle"
  /\ starts < MaxStarts
  /\ starts' = starts + 1
  /\ pc' = [pc EXCEPT ![p] = "reading"]
  /\ at' = [at EXCEPT ![p] = 1]
  /\ seen' = [seen EXCEPT ![p] = [k \in Steps |-> None]]
  /\ UNCHANGED <<journal, result>>

(* step() resolves to v, and the workflow goes on to its next step. *)
Resolve(p, v) ==
  /\ seen' = [seen EXCEPT ![p][at[p]] = v]
  /\ IF at[p] = NumSteps
     THEN pc' = [pc EXCEPT ![p] = "finished"] /\ UNCHANGED at
     ELSE /\ pc' = [pc EXCEPT ![p] = "reading"]
          /\ at' = [at EXCEPT ![p] = @ + 1]

(* The first #read: a journaled step is replayed, any other is executed. *)
Read(p) ==
  LET k == at[p] IN
  /\ pc[p] = "reading"
  /\ \/ /\ journal[k] # None
        /\ Resolve(p, journal[k])
     \/ /\ journal[k] = None
        /\ pc' = [pc EXCEPT ![p] = "executing"]
        /\ UNCHANGED <<at, seen>>
  /\ UNCHANGED <<journal, result, starts>>

(* fn returns; a void one returns undefined. *)
Execute(p) ==
  /\ pc[p] = "executing"
  /\ \E v \in Values \cup {Undefined} : result' = [result EXCEPT ![p] = v]
  /\ pc' = [pc EXCEPT ![p] = "writing"]
  /\ UNCHANGED <<journal, at, seen, starts>>

(* #write: INSERT .. ON CONFLICT DO NOTHING, so the first writer wins. *)
Write(p) ==
  LET k == at[p] IN
  /\ pc[p] = "writing"
  /\ \/ /\ journal[k] = None
        /\ journal' = [journal EXCEPT ![k] = Journaled(result[p])]
        /\ Resolve(p, result[p])
     \/ /\ journal[k] # None
        /\ pc' = [pc EXCEPT ![p] = "losing"]
        /\ UNCHANGED <<journal, at, seen>>
  /\ UNCHANGED <<result, starts>>

(* Seeded fault: the loser keeps the value it computed. *)
KeepOwn(p) ==
  /\ pc[p] = "losing"
  /\ Resolve(p, result[p])
  /\ UNCHANGED <<journal, result, starts>>

(* The loser reads the winning row. *)
Reread(p) ==
  /\ pc[p] = "losing"
  /\ Resolve(p, journal[at[p]])
  /\ UNCHANGED <<journal, result, starts>>

(* Seeded fault: a rejected step is skipped. *)
SkipStep(p) ==
  /\ pc[p] \in {"reading", "executing", "writing", "losing"}
  /\ pc' = [pc EXCEPT ![p] = IF at[p] = NumSteps THEN "finished" ELSE "reading"]
  /\ at' = [at EXCEPT ![p] = IF at[p] = NumSteps THEN @ ELSE @ + 1]
  /\ UNCHANGED <<journal, result, seen, starts>>

(* fn throws, a statement fails or the process dies: the pass is over and   *)
(* the caller may start another.                                            *)
Abort(p) ==
  /\ pc[p] \in {"reading", "executing", "writing", "losing"}
  /\ pc' = [pc EXCEPT ![p] = "idle"]
  /\ UNCHANGED <<journal, at, result, seen, starts>>

(* A finished pass makes room for another call. *)
Finish(p) ==
  /\ pc[p] = "finished"
  /\ pc' = [pc EXCEPT ![p] = "idle"]
  /\ UNCHANGED <<journal, at, result, seen, starts>>

PassStep(p) == Read(p) \/ Execute(p) \/ Write(p) \/ Reread(p) \/ Finish(p)

Next == \E p \in Passes : Start(p) \/ PassStep(p) \/ Abort(p)

Spec == Init /\ [][Next]_vars

-----------------------------------------------------------------------------
(* Properties *)

Phases == {"idle", "reading", "executing", "writing", "losing", "finished"}

(* The journal holds JSON, and a pass is somewhere in its workflow. *)
TypeOK ==
  /\ journal \in [Steps -> Values \cup {Null, None}]
  /\ pc \in [Passes -> Phases]
  /\ at \in [Passes -> Steps]
  /\ result \in [Passes -> Values \cup {Undefined, None}]
  /\ seen \in [Passes -> [Steps -> Values \cup {Undefined, Null, None}]]
  /\ starts \in Nat

(* What a step returned to a pass, executed, replayed or lost to another    *)
(* pass, is what the journal holds for it: concurrent and resumed passes of *)
(* one run converge on one result per step.                                 *)
Converged ==
  \A p \in Passes, k \in Steps : seen[p][k] # None => journal[k] = Journaled(seen[p][k])

(* The journal is always a prefix of the workflow: a step is journaled only *)
(* after every step before it, so a resumed pass never skips one.           *)
JournalIsPrefix ==
  \A k \in Steps : journal[k] # None => \A i \in 1 .. k - 1 : journal[i] # None

(* A run may be replayed by any pass at any time: the passes agree on every   *)
(* step, and no step is skipped (engine.ts, the step journal).                *)
Replayable == Converged /\ JournalIsPrefix
=============================================================================
