------------------------------ MODULE JobLease ------------------------------
(***************************************************************************)
(* What the job queue promises, without clocks, deadlines or attempts: a   *)
(* worker processes a job under a lease, every lease of a job has a number *)
(* of its own, and only the latest lease of a running job can report an    *)
(* outcome.  A job moves along its life cycle and nowhere else; a job that *)
(* is gone stays gone and a running one is never deleted.  JobQueue        *)
(* implements this with the fence of its terminal writes.                  *)
(***************************************************************************)
EXTENDS Naturals

CONSTANTS Jobs, Workers

VARIABLES
  state,   \* where each job is in its life cycle
  leases,  \* how many leases of the job were given out
  held     \* per worker: the lease it holds, as a set of at most one

vars == <<state, leases, held>>

States == {"unborn", "blocked", "ready", "running", "done", "failed", "gone"}

Init ==
  /\ state = [j \in Jobs |-> "unborn"]
  /\ leases = [j \in Jobs |-> 0]
  /\ held = [w \in Workers |-> {}]

(* Jobs go from one of the states in from to one of those in to. *)
Becomes(from, to) ==
  /\ state' \in [Jobs -> States]
  /\ \A j \in Jobs : state'[j] # state[j] => state[j] \in from /\ state'[j] \in to

Insert == Becomes({"unborn"}, {"ready", "blocked"}) /\ UNCHANGED <<leases, held>>

Take(w) ==
  /\ held[w] = {}
  /\ \E j \in Jobs :
       /\ state[j] = "ready"
       /\ state' = [state EXCEPT ![j] = "running"]
       /\ leases' = [leases EXCEPT ![j] = @ + 1]
       /\ held' = [held EXCEPT ![w] = {[job |-> j, number |-> leases[j] + 1]}]

Current(l) == state[l.job] = "running" /\ leases[l.job] = l.number

(* The holder of the current lease reports an outcome; done releases jobs   *)
(* that were blocked.  It may believe the report lost and keep the lease.   *)
Report(w) ==
  /\ \E l \in held[w] :
       /\ Current(l)
       /\ state' \in [Jobs -> States]
       /\ state'[l.job] \in {"done", "failed", "ready"}
       /\ \A j \in Jobs \ {l.job} :
            state'[j] # state[j]
              => state[j] = "blocked" /\ state'[j] = "ready" /\ state'[l.job] = "done"
  /\ held' = held \/ held' = [held EXCEPT ![w] = {}]
  /\ UNCHANGED leases

(* A worker dies, or finds that its lease is not current any more. *)
LetGo(w) == held' = [held EXCEPT ![w] = {}] /\ UNCHANGED <<state, leases>>

(* Jobs whose holder is taken for dead. *)
Expire == Becomes({"running"}, {"ready", "failed"}) /\ UNCHANGED <<leases, held>>

Retry == Becomes({"failed"}, {"ready"}) /\ UNCHANGED <<leases, held>>

Delete == Becomes({"blocked", "ready", "done", "failed"}, {"gone"}) /\ UNCHANGED <<leases, held>>

Next ==
  \/ Insert
  \/ \E w \in Workers : Take(w) \/ Report(w) \/ LetGo(w)
  \/ Expire
  \/ Retry
  \/ Delete

Spec == Init /\ [][Next]_vars
=============================================================================
