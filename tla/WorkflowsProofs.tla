-------------------------- MODULE WorkflowsProofs --------------------------
(* Proofs about Workflows, for any passes, steps and values. *)
EXTENDS Workflows, TLAPS

(* A loser lost to a row; a pass has journaled every step behind it, and    *)
(* sees nothing ahead of the step it is in.                                 *)
PassInv ==
  \A p \in Passes :
    /\ pc[p] = "losing" => journal[at[p]] # None
    /\ pc[p] = "writing" => result[p] # None
    /\ pc[p] \in {"reading", "executing", "writing", "losing"} =>
         \A i \in 1 .. at[p] - 1 : journal[i] # None

Inv == TypeOK /\ Converged /\ JournalIsPrefix /\ PassInv

LEMMA InvInit == Init => Inv
  BY StepsAssumption DEF Init, Inv, TypeOK, Converged, JournalIsPrefix, PassInv, Steps, Phases

(* A step of the workflow resolves to a value the journal holds. *)
LEMMA ResolveType ==
  ASSUME TypeOK, NEW p \in Passes, NEW v \in Values \cup {Undefined, Null}, Resolve(p, v)
  PROVE  /\ seen' \in [Passes -> [Steps -> Values \cup {Undefined, Null, None}]]
         /\ pc' \in [Passes -> Phases]
         /\ at' \in [Passes -> Steps]
         /\ \A q \in Passes, k \in Steps :
              seen'[q][k] = IF q = p /\ k = at[p] THEN v ELSE seen[q][k]
         /\ \A q \in Passes \ {p} : pc'[q] = pc[q] /\ at'[q] = at[q]
         /\ (pc'[p] = "finished" \/ (pc'[p] = "reading" /\ at'[p] = at[p] + 1))
<1>1. at[p] \in Steps
  BY DEF TypeOK
<1>2. /\ seen' \in [Passes -> [Steps -> Values \cup {Undefined, Null, None}]]
      /\ \A q \in Passes, k \in Steps :
           seen'[q][k] = IF q = p /\ k = at[p] THEN v ELSE seen[q][k]
  <2>1. seen' = [seen EXCEPT ![p] = [seen[p] EXCEPT ![at[p]] = v]]
    BY DEF Resolve
  <2>2. seen[p] \in [Steps -> Values \cup {Undefined, Null, None}]
    BY DEF TypeOK
  <2>3. [seen[p] EXCEPT ![at[p]] = v] \in [Steps -> Values \cup {Undefined, Null, None}]
    BY <1>1, <2>2
  <2>4. seen' \in [Passes -> [Steps -> Values \cup {Undefined, Null, None}]]
    BY <2>1, <2>3 DEF TypeOK
  <2>5. \A q \in Passes \ {p} : seen'[q] = seen[q]
    BY <2>1 DEF TypeOK
  <2>6. seen'[p] = [seen[p] EXCEPT ![at[p]] = v]
    BY <2>1 DEF TypeOK
  <2>7. \A k \in Steps : seen'[p][k] = IF k = at[p] THEN v ELSE seen[p][k]
    BY <1>1, <2>2, <2>6
  <2> QED
    BY <2>4, <2>5, <2>7
<1>3. /\ pc' \in [Passes -> Phases]
      /\ at' \in [Passes -> Steps]
      /\ \A q \in Passes \ {p} : pc'[q] = pc[q] /\ at'[q] = at[q]
      /\ (pc'[p] = "finished" \/ (pc'[p] = "reading" /\ at'[p] = at[p] + 1))
  <2>1. CASE at[p] = NumSteps
    <3>1. pc' = [pc EXCEPT ![p] = "finished"] /\ UNCHANGED at
      BY <2>1 DEF Resolve
    <3>2. pc' \in [Passes -> Phases]
      BY <3>1 DEF TypeOK, Phases
    <3>3. at' \in [Passes -> Steps] /\ \A q \in Passes : at'[q] = at[q]
      BY <3>1 DEF TypeOK
    <3>4. pc'[p] = "finished"
      BY <3>1 DEF TypeOK
    <3>5. \A q \in Passes \ {p} : pc'[q] = pc[q]
      BY <3>1 DEF TypeOK
    <3> QED
      BY <3>2, <3>3, <3>4, <3>5, Zenon
  <2>2. CASE at[p] # NumSteps
    <3>1. at[p] + 1 \in Steps
      BY <1>1, <2>2, StepsAssumption DEF Steps
    <3>2. pc' = [pc EXCEPT ![p] = "reading"] /\ at' = [at EXCEPT ![p] = at[p] + 1]
      BY <2>2 DEF Resolve
    <3> QED
      BY <3>1, <3>2 DEF TypeOK, Phases
  <2> QED
    BY <2>1, <2>2
<1> QED
  BY <1>2, <1>3, Zenon

LEMMA InvStep == Inv /\ [Next]_vars => Inv'
<1> SUFFICES ASSUME Inv, [Next]_vars PROVE Inv'
  OBVIOUS
<1>0. TypeOK /\ Converged /\ JournalIsPrefix /\ PassInv
  BY DEF Inv
<1>1. ASSUME NEW p \in Passes, Start(p) PROVE Inv'
  BY <1>0, <1>1, StepsAssumption
     DEF Start, Inv, TypeOK, Converged, JournalIsPrefix, PassInv, Phases, Steps
<1>2. ASSUME NEW p \in Passes, NEW v \in Values \cup {Undefined, Null}, Resolve(p, v),
             UNCHANGED <<journal, result, starts>>, journal[at[p]] # None,
             journal[at[p]] = Journaled(v),
             pc[p] \in {"reading", "losing"}
      PROVE  Inv'
  <2>1. /\ at[p] \in Steps
        /\ \A i \in 1 .. at[p] : journal[i] # None
    BY <1>0, <1>2 DEF TypeOK, PassInv, Steps
  <2>2. PassInv'
    BY <1>0, <1>2, <2>1, ResolveType DEF PassInv, Steps
  <2>3. Converged'
    BY <1>0, <1>2, ResolveType DEF Converged
  <2> QED
    BY <1>0, <1>2, <2>2, <2>3, ResolveType DEF Inv, TypeOK, JournalIsPrefix
<1>3. ASSUME NEW p \in Passes, Read(p) PROVE Inv'
  <2>1. CASE journal[at[p]] # None
    <3>1. /\ journal[at[p]] \in Values \cup {Undefined, Null}
          /\ Journaled(journal[at[p]]) = journal[at[p]]
      BY <1>0, <2>1, ValuesAssumption DEF TypeOK, Journaled
    <3> QED
      BY <1>2, <1>3, <2>1, <3>1 DEF Read
  <2>2. CASE journal[at[p]] = None
    <3>1. UNCHANGED <<journal, result, at, seen, starts>> /\ pc' = [pc EXCEPT ![p] = "executing"]
      BY <1>3, <2>2 DEF Read
    <3>2. pc[p] = "reading"
      BY <1>3 DEF Read
    <3> QED
      BY <1>0, <3>1, <3>2 DEF Inv, TypeOK, Converged, JournalIsPrefix, PassInv, Phases
  <2> QED
    BY <2>1, <2>2
<1>4. ASSUME NEW p \in Passes, Execute(p) PROVE Inv'
  <2>1. /\ result' \in [Passes -> Values \cup {Undefined, None}]
        /\ result'[p] # None
        /\ \A q \in Passes \ {p} : result'[q] = result[q]
    BY <1>0, <1>4, NoneAssumption DEF Execute, TypeOK
  <2>2. /\ pc[p] = "executing"
        /\ pc' = [pc EXCEPT ![p] = "writing"]
        /\ UNCHANGED <<journal, at, seen, starts>>
    BY <1>4 DEF Execute
  <2> QED
    BY <1>0, <2>1, <2>2 DEF Inv, TypeOK, Converged, JournalIsPrefix, PassInv, Phases
<1>5. ASSUME NEW p \in Passes, Write(p) PROVE Inv'
  <2>0. pc[p] = "writing" /\ result[p] \in Values \cup {Undefined} /\ at[p] \in Steps
    BY <1>0, <1>5 DEF Write, TypeOK, PassInv
  <2>1. CASE journal[at[p]] # None
    <3>1. UNCHANGED <<journal, result, at, seen, starts>> /\ pc' = [pc EXCEPT ![p] = "losing"]
      BY <1>5, <2>1 DEF Write
    <3> QED
      BY <1>0, <2>0, <2>1, <3>1 DEF Inv, TypeOK, Converged, JournalIsPrefix, PassInv, Phases
  <2>2. CASE journal[at[p]] = None
    <3>1. /\ journal' = [journal EXCEPT ![at[p]] = Journaled(result[p])]
          /\ Resolve(p, result[p])
          /\ UNCHANGED <<result, starts>>
      BY <1>5, <2>2 DEF Write
    <3>2. Journaled(result[p]) \in Values \cup {Null} /\ Journaled(result[p]) # None
      BY <2>0, NoneAssumption DEF Journaled
    <3>3. /\ journal' \in [Steps -> Values \cup {Null, None}]
          /\ journal'[at[p]] = Journaled(result[p])
          /\ \A k \in Steps : k # at[p] => journal'[k] = journal[k]
          /\ \A k \in Steps : journal[k] # None => journal'[k] = journal[k]
      BY <1>0, <2>0, <2>2, <3>1, <3>2 DEF TypeOK
    <3>4. \A i \in 1 .. at[p] - 1 : i \in Steps /\ journal[i] # None
      BY <1>0, <2>0, StepsAssumption DEF PassInv, Steps
    <3>5. JournalIsPrefix'
      BY <1>0, <2>0, <3>3, <3>4, StepsAssumption DEF JournalIsPrefix, Steps
    <3>6. Converged'
      <4>1. \A q \in Passes, k \in Steps :
              seen'[q][k] = IF q = p /\ k = at[p] THEN result[p] ELSE seen[q][k]
        BY <1>0, <2>0, <3>1, ResolveType
      <4>2. ASSUME NEW q \in Passes, NEW k \in Steps, seen'[q][k] # None
            PROVE  journal'[k] = Journaled(seen'[q][k])
        <5>1. CASE q = p /\ k = at[p]
          BY <3>3, <4>1, <5>1
        <5>2. CASE ~(q = p /\ k = at[p])
          <6>1. seen'[q][k] = seen[q][k]
            BY <4>1, <5>2
          <6>2. journal[k] = Journaled(seen[q][k])
            BY <1>0, <4>2, <6>1 DEF Converged
          <6>3. journal[k] # None
            BY <1>0, <4>2, <6>1, <6>2, NoneAssumption DEF Journaled
          <6> QED
            BY <3>3, <6>1, <6>2, <6>3
        <5> QED
          BY <5>1, <5>2
      <4> QED
        BY <4>2 DEF Converged
    <3>7. \A i \in Steps : journal[i] # None => journal'[i] # None
      BY <3>3
    <3>8. ASSUME NEW q \in Passes, pc'[q] \in {"reading", "executing", "writing", "losing"}
          PROVE  /\ pc'[q] = "losing" => journal'[at'[q]] # None
                 /\ pc'[q] = "writing" => result'[q] # None
                 /\ \A i \in 1 .. at'[q] - 1 : journal'[i] # None
      <4>1. CASE q = p
        <5>1. pc'[p] = "reading" /\ at'[p] = at[p] + 1
          BY <1>0, <2>0, <3>1, <3>8, <4>1, ResolveType
        <5> QED
          BY <2>0, <3>2, <3>3, <3>4, <3>7, <4>1, <5>1 DEF Steps
      <4>2. CASE q # p
        <5>1. pc'[q] = pc[q] /\ at'[q] = at[q] /\ result'[q] = result[q] /\ at[q] \in Steps
          BY <1>0, <2>0, <3>1, <4>2, ResolveType DEF TypeOK
        <5>2. \A i \in 1 .. at[q] - 1 : i \in Steps
          BY <5>1, StepsAssumption DEF Steps
        <5> QED
          BY <1>0, <3>7, <3>8, <5>1, <5>2 DEF PassInv
      <4> QED
        BY <4>1, <4>2
    <3>9. PassInv'
      BY <3>8 DEF PassInv
    <3> QED
      BY <1>0, <2>0, <3>1, <3>3, <3>5, <3>6, <3>9, ResolveType DEF Inv, TypeOK
  <2> QED
    BY <2>1, <2>2
<1>6. ASSUME NEW p \in Passes, Reread(p) PROVE Inv'
  <2>1. /\ pc[p] = "losing"
        /\ journal[at[p]] # None
        /\ journal[at[p]] \in Values \cup {Undefined, Null}
        /\ Journaled(journal[at[p]]) = journal[at[p]]
    BY <1>0, <1>6, ValuesAssumption DEF Reread, PassInv, TypeOK, Journaled
  <2> QED
    BY <1>2, <1>6, <2>1 DEF Reread
<1>7. ASSUME NEW p \in Passes, Abort(p) \/ Finish(p) PROVE Inv'
  BY <1>0, <1>7 DEF Abort, Finish, Inv, TypeOK, Converged, JournalIsPrefix, PassInv, Phases
<1>8. CASE UNCHANGED vars
  BY <1>0, <1>8 DEF vars, Inv, TypeOK, Converged, JournalIsPrefix, PassInv
<1> QED
  BY <1>1, <1>3, <1>4, <1>5, <1>6, <1>7, <1>8 DEF Next, PassStep

(* However many passes of a run execute, crash and resume at once, what     *)
(* each step returned to each of them is what the journal holds.            *)
THEOREM PassesConverge == Spec => []Converged
<1>1. Inv => Converged
  BY DEF Inv
<1> QED
  BY <1>1, InvInit, InvStep, PTL DEF Spec

(* The journal is a prefix of the workflow in every reachable state. *)
THEOREM JournalPrefix == Spec => []JournalIsPrefix
<1>1. Inv => JournalIsPrefix
  BY DEF Inv
<1> QED
  BY <1>1, InvInit, InvStep, PTL DEF Spec

(* A run may be replayed by any pass at any time, for any number of passes,   *)
(* steps and values: they agree on every step and skip none.                  *)
THEOREM RunsReplay == Spec => []Replayable
<1>1. Inv => Replayable
  BY DEF Inv, Replayable
<1> QED
  BY <1>1, InvInit, InvStep, PTL DEF Spec
=============================================================================
