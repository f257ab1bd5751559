----------------------------- MODULE Retention -----------------------------
(***************************************************************************)
(* The retention scheduler of @lesto/queue                                 *)
(* (packages/queue/src/retention.ts): the tasks run one after the other in *)
(* a tick, each on its own everyMs, and the cadence timer that starts the  *)
(* ticks.                                                                  *)
(*                                                                         *)
(* Time is counted in cadence periods and kept relative: since[i] is the   *)
(* clock minus task i's lastRunAt.  It stops counting where nothing can    *)
(* tell the difference, so time itself is unbounded.                       *)
(***************************************************************************)
EXTENDS Integers, Sequences, FiniteSetsExt

CONSTANTS
  EveryMs,  \* per task, in the order of options.tasks: its cadence in periods
  Ticks,    \* the ticks that may be in flight at the same time
  MaxLag    \* bound: how many periods a tick takes

Tasks == 1 .. Len(EveryMs)

Horizon(i) == EveryMs[i] + MaxLag

VARIABLES
  running,  \* the timer is set
  ticking,  \* the no-overlap flag of start()
  cur,      \* per tick: the task it awaits, 0 when it is not in flight
  lag,      \* per tick: the clock minus the now it was started with
  since     \* per task: the clock minus lastRunAt, Horizon when that is null

vars == <<running, ticking, cur, lag, since>>

Init ==
  /\ running = TRUE
  /\ ticking = FALSE
  /\ cur = [t \in Ticks |-> 0]
  /\ lag = [t \in Ticks |-> 0]
  /\ since = [i \in Tasks |-> Horizon(i)]

(* now - lastRunAt >= everyMs, in a tick that started `late` periods ago. *)
Due(ages, i, late) == ages[i] - late >= EveryMs[i]

(* Seeded fault: a task is stamped when it has succeeded. *)
NoStamp(ages, i, late) == ages

(* state.lastRunAt = now, before the task is awaited. *)
Stamp(ages, i, late) == [ages EXCEPT ![i] = late]

(* The loop of tick() from task i on, up to its next await or its end. *)
RunFrom(t, i, late, ages) ==
  LET due == {j \in Tasks : j >= i /\ Due(ages, j, late)} IN
  \/ /\ due # {}
     /\ cur' = [cur EXCEPT ![t] = Min(due)]
     /\ since' = Stamp(ages, Min(due), late)
     /\ ticking' = TRUE
  \/ /\ due = {}
     /\ cur' = [cur EXCEPT ![t] = 0]
     /\ since' = ages
     /\ ticking' = FALSE

InFlight(t) == cur[t] # 0

(* A period of the clock; ages and lags count it. *)
PeriodPasses == \A t \in Ticks : InFlight(t) => lag[t] < MaxLag

Aged == [i \in Tasks |-> Min({since[i] + 1, Horizon(i)})]

Lagged == [t \in Ticks |-> IF InFlight(t) THEN lag[t] + 1 ELSE 0]

FreeToTick == ~ticking

(* The timer fires and starts a tick. *)
Fire(t) ==
  /\ running
  /\ PeriodPasses
  /\ FreeToTick
  /\ ~InFlight(t)
  /\ lag' = [Lagged EXCEPT ![t] = 0]
  /\ RunFrom(t, 1, 0, Aged)
  /\ UNCHANGED running

(* The timer fires while a tick is in flight. *)
Skip ==
  /\ running
  /\ PeriodPasses
  /\ ticking
  /\ lag' = Lagged
  /\ since' = Aged
  /\ UNCHANGED <<running, ticking, cur>>

(* The awaited task returns and the loop goes on behind it. *)
TaskReturns(t) ==
  /\ InFlight(t)
  /\ RunFrom(t, cur[t] + 1, lag[t], since)
  /\ UNCHANGED <<running, lag>>

(* It rejects: the tick ends there, catch reports it, finally clears the flag. *)
TaskRejects(t) ==
  /\ InFlight(t)
  /\ cur' = [cur EXCEPT ![t] = 0]
  /\ ticking' = FALSE
  /\ UNCHANGED <<running, lag, since>>

Stop ==
  /\ running
  /\ running' = FALSE
  /\ UNCHANGED <<ticking, cur, lag, since>>

Settle(t) == TaskReturns(t) \/ TaskRejects(t)

Cadence == Skip \/ \E t \in Ticks : Fire(t)

Next == Cadence \/ (\E t \in Ticks : Settle(t)) \/ Stop

(* The timer keeps firing and every awaited task settles, well or badly. *)
Fairness == WF_vars(Cadence) /\ \A t \in Ticks : WF_vars(Settle(t))

Spec == Init /\ [][Next]_vars /\ Fairness

-----------------------------------------------------------------------------
(* Properties *)

(* One tick at a time, and the flag is set only while it is in flight: else   *)
(* the timer would never start another (retention.ts, start).                 *)
OneAtATime ==
  /\ \A t, u \in Ticks : InFlight(t) /\ InFlight(u) => t = u
  /\ ticking => \E t \in Ticks : InFlight(t)

(* "one failing task must not stop the others": a task that is due is run   *)
(* sooner or later while the timer runs, whatever the other tasks do.       *)
NoStarvation ==
  \A i \in Tasks : (since[i] >= EveryMs[i]) ~> (since[i] < EveryMs[i] \/ ~running)
=============================================================================
