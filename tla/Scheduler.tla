----------------------------- MODULE Scheduler -----------------------------
(***************************************************************************)
(* The cron and interval scheduler of @lesto/queue                         *)
(* (packages/queue/src/scheduler.ts): one instance, its cadence timer and  *)
(* the ticks the timer starts.                                             *)
(*                                                                         *)
(* A tick is a chain of awaited enqueues.  It runs without interruption    *)
(* between two awaits, and the timer and the clock move while it waits.    *)
(* Entries are numbered in registration order, the crons first.            *)
(***************************************************************************)
EXTENDS Integers, Sequences, FiniteSetsExt

CONSTANTS
  Crons,      \* per cron entry: the parts of its minute field
  Intervals,  \* per interval entry: everyMs
  Ticks,      \* the ticks that may be in flight at the same time
  PerMinute,  \* clock units in a minute
  MaxNow      \* bound: where the clock stops

(* The entries are lists; a cadence may be any number, as the code checks none. *)
SchedulerAssumption ==
  /\ PerMinute \in Nat \ {0}
  /\ Len(Crons) \in Nat /\ Intervals \in Seq(Int)

CronIds == 1 .. Len(Crons)
IntervalIds == Len(Crons) + 1 .. Len(Crons) + Len(Intervals)
Entries == CronIds \cup IntervalIds
EveryMs(e) == Intervals[e - Len(Crons)]

Never == -1

(* One part of a field.  value % 0 is NaN in JavaScript, equal to nothing. *)
MatchPart(part, value) ==
  \/ part.kind = "any"
  \/ part.kind = "step" /\ part.n # 0 /\ value % part.n = 0
  \/ part.kind = "range" /\ part.lo <= value /\ value <= part.hi
  \/ part.kind = "exact" /\ part.n = value

MatchField(parts, value) == \E part \in parts : MatchPart(part, value)

MinuteKey(t) == t \div PerMinute

(* The fields other than the minute are "*" in every entry. *)
CronMatches(e, t) == MatchField(Crons[e], MinuteKey(t) % 60)

VARIABLES
  now,      \* the clock
  running,  \* the timer is set
  ticking,  \* the no-overlap flag of start()
  phase,    \* per tick: "idle", "crons" or "intervals"
  at,       \* per tick: the now it was started with
  left,     \* per tick: the due entries it still has to enqueue
  last,     \* per entry: lastMinuteKey, or lastRunAt
  fired     \* ghost: per entry, the times of the ticks that enqueued it

vars == <<now, running, ticking, phase, at, left, last, fired>>

Init ==
  /\ now = 0
  /\ running = TRUE
  /\ ticking = FALSE
  /\ phase = [t \in Ticks |-> "idle"]
  /\ at = [t \in Ticks |-> 0]
  /\ left = [t \in Ticks |-> {}]
  /\ last = [e \in Entries |-> Never]
  /\ fired = [e \in Entries |-> <<>>]

DueCrons(t) == {e \in CronIds : last[e] # MinuteKey(t) /\ CronMatches(e, t)}

(* Seeded fault: the spacing is off by one. *)
DueEarly(t) == {e \in IntervalIds : last[e] = Never \/ t - last[e] >= EveryMs(e) - 1}

DueIntervals(t) == {e \in IntervalIds : last[e] = Never \/ t - last[e] >= EveryMs(e)}

Due(t) == DueCrons(t) \cup DueIntervals(t)

Stamp(e, t) == IF e \in CronIds THEN MinuteKey(t) ELSE t

(* tick() from one await to the next: the next entry of `due` is stamped and *)
(* its enqueue is in flight; after the last cron the due intervals are       *)
(* looked up; after the last interval the tick settles.                      *)
Proceed(t, ph, due, time) ==
  LET turn == ph = "crons" /\ due = {}
      todo == IF turn THEN DueIntervals(time) ELSE due
  IN
  /\ left' = [left EXCEPT ![t] = todo]
  /\ \/ /\ todo # {}
        /\ last' = [last EXCEPT ![Min(todo)] = Stamp(Min(todo), time)]
        /\ phase' = [phase EXCEPT ![t] = IF turn THEN "intervals" ELSE ph]
        /\ ticking' = TRUE
     \/ /\ todo = {}
        /\ phase' = [phase EXCEPT ![t] = "idle"]
        /\ ticking' = FALSE
        /\ UNCHANGED last

(* Seeded fault: the timer callback does not look at the flag. *)
AlwaysFree == TRUE

FreeToTick == ~ticking

(* The timer fires and no tick is in flight. *)
Fire(t) ==
  /\ running
  /\ FreeToTick
  /\ phase[t] = "idle"
  /\ at' = [at EXCEPT ![t] = now]
  /\ Proceed(t, "crons", DueCrons(now), now)
  /\ UNCHANGED <<now, running, fired>>

(* The enqueue a tick waits for returns. *)
EnqueueLands(t) ==
  LET e == Min(left[t]) IN
  /\ phase[t] # "idle"
  /\ fired' = [fired EXCEPT ![e] = Append(@, at[t])]
  /\ Proceed(t, phase[t], left[t] \ {e}, at[t])
  /\ UNCHANGED <<now, running, at>>

(* Seeded fault: the flag is cleared on success only. *)
FaultWedges(t) ==
  /\ phase[t] # "idle"
  /\ phase' = [phase EXCEPT ![t] = "idle"]
  /\ left' = [left EXCEPT ![t] = {}]
  /\ UNCHANGED <<now, running, ticking, at, last, fired>>

(* It rejects: the tick is abandoned, catch swallows the fault and finally  *)
(* clears the flag.                                                         *)
EnqueueFaults(t) ==
  /\ phase[t] # "idle"
  /\ phase' = [phase EXCEPT ![t] = "idle"]
  /\ left' = [left EXCEPT ![t] = {}]
  /\ ticking' = FALSE
  /\ UNCHANGED <<now, running, at, last, fired>>

(* handle.stop(): the timer is cleared, a tick in flight goes on. *)
Stop ==
  /\ running
  /\ running' = FALSE
  /\ UNCHANGED <<now, ticking, phase, at, left, last, fired>>

Advance ==
  /\ now < MaxNow
  /\ now' = now + 1
  /\ UNCHANGED <<running, ticking, phase, at, left, last, fired>>

Settle(t) == EnqueueLands(t) \/ EnqueueFaults(t)

Next ==
  \/ \E t \in Ticks : Fire(t) \/ Settle(t)
  \/ Stop
  \/ Advance

Spec == Init /\ [][Next]_vars

(* The timer keeps firing, every enqueue settles and time passes. *)
Fairness ==
  /\ WF_vars(\E t \in Ticks : Fire(t))
  /\ \A t \in Ticks : WF_vars(Settle(t))
  /\ WF_vars(Advance)

FairSpec == Spec /\ Fairness

-----------------------------------------------------------------------------
(* Properties *)

(* A cron entry is enqueued at most once for a minute: no two ticks          *)
(* interleave on their awaits and double-enqueue the snapshot of one of them.*)
OncePerMinute ==
  \A e \in CronIds : \A i, j \in 1 .. Len(fired[e]) :
    MinuteKey(fired[e][i]) = MinuteKey(fired[e][j]) => i = j

(* The ticks that enqueue an interval entry are at least everyMs apart. *)
IntervalsSpaced ==
  \A e \in IntervalIds : \A i \in 2 .. Len(fired[e]) :
    fired[e][i] - fired[e][i - 1] >= EveryMs(e)

(* One tick at a time, and the flag is set only while it is in flight: else   *)
(* the timer would never start another.                                       *)
OneAtATime ==
  /\ \A t, u \in Ticks : phase[t] # "idle" /\ phase[u] # "idle" => t = u
  /\ ticking => \E t \in Ticks : phase[t] # "idle"

(* While the timer runs, an entry that is due does not stay due: neither a   *)
(* slow tick nor a faulting one stops the cadence for the entries behind it. *)
NothingStaysDue == <>[](running => Due(now) = {})

(* The cadence is kept: nothing is enqueued too often, and nothing stays due  *)
(* (scheduler.ts, tick and start).                                            *)
CadenceKept == [](OncePerMinute /\ IntervalsSpaced /\ OneAtATime) /\ NothingStaysDue
=============================================================================
