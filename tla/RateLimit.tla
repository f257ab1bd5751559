----------------------------- MODULE RateLimit -----------------------------
(***************************************************************************)
(* The token bucket of one key over the SQL store of @lesto/ratelimit      *)
(* (packages/ratelimit/src/limiter.ts, refill.ts and sql-store.ts): the    *)
(* checks of a fleet, each a transaction of a locked read and a write, and *)
(* the periodic sweep.                                                     *)
(*                                                                         *)
(* A unit of time refills one unit of tokens.                              *)
(***************************************************************************)
EXTENDS Integers, Sequences

CONSTANTS
  Checkers,  \* concurrent calls of check()
  NoOne,
  Capacity, Cost, Retention,
  Dialects,  \* "sqlite": transactions queue in order; "postgres": FOR UPDATE
  MaxNow     \* bound: where the clock stops

(* The options a limiter is built with. *)
BucketAssumption ==
  Capacity \in Nat /\ Cost \in Nat /\ Cost <= Capacity /\ MaxNow \in Nat

(* "MUST exceed the full-refill horizon of EVERY limiter". *)
RetentionAssumption == Retention \in Nat /\ Retention >= Capacity

NoOneAssumption == NoOne \notin Checkers

Never == -1
NoRow == [tokens |-> Capacity, at |-> Never]

VARIABLES
  now,     \* the clock
  dialect,
  row,     \* the row of the key, NoRow when there is none
  holder,  \* the transaction that has the row locked, or the one connection
  queue,   \* SQLite: the transactions in the order they were asked for
  pc,      \* per check: "idle", "select", "update" or "insert"
  at,      \* per check: the clock it read
  read,    \* per check: the row its SELECT returned
  retried, \* per check: its first attempt met a conflict
  sweep,   \* the clock the sweep in flight read, Never when there is none
  spent,   \* ghost: the tokens the allowed checks cost
  mark,    \* ghost: up to when the refill is credited
  rewound, \* ghost: how much refill was credited twice, see Stamp
  raced,   \* ghost: per check, a sweep deleted the row after its first conflict
  refused, \* ghost: the checks that ended in RATELIMIT_STORE_CONFLICT
  deleted  \* ghost: a sweep deleted the row

ghosts == <<spent, mark, rewound, raced, refused, deleted>>
vars == <<now, dialect, row, holder, queue, pc, at, read, retried, sweep, ghosts>>

Init ==
  /\ now = 0
  /\ dialect \in Dialects
  /\ row = NoRow
  /\ holder = NoOne
  /\ queue = <<>>
  /\ pc = [c \in Checkers |-> "idle"]
  /\ at = [c \in Checkers |-> 0]
  /\ read = [c \in Checkers |-> NoRow]
  /\ retried = [c \in Checkers |-> FALSE]
  /\ sweep = Never
  /\ spent = 0 /\ mark = 0 /\ rewound = 0
  /\ raced = [c \in Checkers |-> FALSE]
  /\ refused = {} /\ deleted = FALSE

AtMost(bound, n) == IF n > bound THEN bound ELSE n
AtLeast(bound, n) == IF n < bound THEN bound ELSE n

(* refilled(): a first-seen key is full, a known one earns the elapsed time,  *)
(* never less than nothing.                                                   *)
Refilled(state, time) ==
  IF state = NoRow THEN Capacity
  ELSE AtMost(Capacity, state.tokens + AtLeast(0, time - state.at))

(* The mutate of check(): the tokens to store.  Both verdicts stamp the row.  *)
Allowed(state, time) == Refilled(state, time) >= Cost
Mutated(state, time) ==
  [tokens |-> Refilled(state, time) - (IF Allowed(state, time) THEN Cost ELSE 0), at |-> time]

(* check(): the clock is read before the transaction is asked for. *)
Check(c) ==
  /\ pc[c] = "idle"
  /\ pc' = [pc EXCEPT ![c] = "select"]
  /\ at' = [at EXCEPT ![c] = now]
  /\ queue' = IF dialect = "sqlite" THEN Append(queue, c) ELSE queue
  /\ retried' = [retried EXCEPT ![c] = FALSE]
  /\ raced' = [raced EXCEPT ![c] = FALSE]
  /\ refused' = refused \ {c}
  /\ UNCHANGED <<now, dialect, row, holder, read, sweep, spent, mark, rewound, deleted>>

(* Seeded fault: no FOR UPDATE. *)
Unlocked(c) == TRUE

(* Seeded fault: the connection is not handed out in turn. *)
AnyTurn(c) == (dialect = "sqlite" \/ row # NoRow) => holder = NoOne

(* The SELECT returns: Postgres waits for the row, SQLite for its turn. *)
MaySelect(c) ==
  IF dialect = "sqlite" THEN holder = NoOne /\ Head(queue) = c
  ELSE row # NoRow => holder = NoOne

Select(c) ==
  /\ pc[c] = "select"
  /\ MaySelect(c)
  /\ pc' = [pc EXCEPT ![c] = IF row = NoRow THEN "insert" ELSE "update"]
  /\ read' = [read EXCEPT ![c] = row]
  /\ holder' = IF dialect = "sqlite" \/ row # NoRow THEN c ELSE holder
  /\ UNCHANGED <<now, dialect, row, queue, at, retried, sweep, ghosts>>

Leaves(c) ==
  /\ pc' = [pc EXCEPT ![c] = "idle"]
  /\ queue' = IF dialect = "sqlite" THEN Tail(queue) ELSE queue
  /\ holder' = IF holder = c THEN NoOne ELSE holder
  /\ read' = [read EXCEPT ![c] = NoRow]

(* The row is written; a stamp older than the mark credits time once more. *)
Stamp(c) ==
  /\ row' = Mutated(read[c], at[c])
  /\ spent' = spent + (IF Allowed(read[c], at[c]) THEN Cost ELSE 0)
  /\ mark' = at[c]
  /\ rewound' = rewound + AtLeast(0, mark - at[c])

(* UPDATE and COMMIT. *)
Update(c) ==
  /\ pc[c] = "update"
  /\ Stamp(c)
  /\ Leaves(c)
  /\ UNCHANGED <<now, dialect, at, retried, sweep, raced, refused, deleted>>

(* INSERT and COMMIT, when no concurrent birth won. *)
Insert(c) ==
  /\ pc[c] = "insert" /\ row = NoRow
  /\ Stamp(c)
  /\ Leaves(c)
  /\ UNCHANGED <<now, dialect, at, retried, sweep, raced, refused, deleted>>

(* Seeded fault: the retry does not read again. *)
BlindRetry(c) == "insert"

(* Where the second attempt begins. *)
RetryAt(c) == "select"

(* The primary key conflicts: one retry, then the coded refusal. *)
Conflict(c) ==
  /\ pc[c] = "insert" /\ row # NoRow
  /\ \/ /\ ~retried[c]
        /\ retried' = [retried EXCEPT ![c] = TRUE]
        /\ pc' = [pc EXCEPT ![c] = RetryAt(c)]
        /\ holder' = IF holder = c THEN NoOne ELSE holder
        /\ UNCHANGED <<queue, read, refused>>
     \/ /\ retried[c]
        /\ refused' = refused \cup {c}
        /\ Leaves(c)
        /\ UNCHANGED retried
  /\ UNCHANGED <<now, dialect, row, at, sweep, spent, mark, rewound, raced, deleted>>

(* Any other error rolls the transaction back and fails the request. *)
Fails(c) ==
  /\ pc[c] \in {"select", "update", "insert"}
  /\ dialect = "sqlite" => c = Head(queue)
  /\ Leaves(c)
  /\ UNCHANGED <<now, dialect, row, at, retried, sweep, ghosts>>

(* startRateLimitSweep(): the timer fires, unless a sweep is in flight. *)
SweepFires ==
  /\ sweep = Never
  /\ sweep' = now
  /\ UNCHANGED <<now, dialect, row, holder, queue, pc, at, read, retried, ghosts>>

(* Seeded fault: the whole table. *)
Everything(state, time) == state # NoRow

(* DELETE ... WHERE updated_at < clock() - retentionMs *)
Swept(state, time) == state # NoRow /\ state.at < time - Retention

(* It lands, when nobody has the row locked; a row that changed while it      *)
(* waited is looked at again.                                                 *)
SweepLands ==
  /\ sweep # Never
  /\ holder = NoOne
  /\ IF Swept(row, sweep)
     THEN /\ row' = NoRow
          /\ mark' = sweep /\ deleted' = TRUE
          /\ raced' = [c \in Checkers |-> raced[c] \/ retried[c]]
     ELSE UNCHANGED <<row, mark, deleted, raced>>
  /\ sweep' = Never
  /\ UNCHANGED <<now, dialect, holder, queue, pc, at, read, retried, spent, rewound, refused>>

(* It rejects: the fault is routed and the next tick tries again. *)
SweepFails ==
  /\ sweep # Never
  /\ sweep' = Never
  /\ UNCHANGED <<now, dialect, row, holder, queue, pc, at, read, retried, ghosts>>

Advance ==
  /\ now < MaxNow
  /\ now' = now + 1
  /\ UNCHANGED <<dialect, row, holder, queue, pc, at, read, retried, sweep, ghosts>>

CheckStep(c) == Select(c) \/ Update(c) \/ Insert(c) \/ Conflict(c)

Next ==
  \/ \E c \in Checkers : Check(c) \/ CheckStep(c) \/ Fails(c)
  \/ SweepFires \/ SweepLands \/ SweepFails
  \/ Advance

Spec == Init /\ [][Next]_vars

-----------------------------------------------------------------------------
(* Properties *)

(* The fleet never spends more than the capacity and the refill since the     *)
(* start, whatever races: births, sweeps, retries, faults.  A check whose     *)
(* clock is stale when its lock is granted stamps the row in the past and     *)
(* lets that time be credited again; `rewound` counts it (limiter.ts, check;  *)
(* sql-store.ts, attempt).                                                    *)
BudgetKept == spent <= Capacity + now + rewound

(* On SQLite no time is credited twice unless a sweep deleted the row: the    *)
(* transactions are served in the order their clocks were read                *)
(* (limiter.ts, check; sync-sqlite.ts, the chain).                            *)
ClockOrderOnSqlite == dialect = "sqlite" /\ ~deleted => rewound = 0

(* "A second consecutive conflict (only against a concurrent sweep)": a check *)
(* is refused only when a sweep deleted the row between its two attempts      *)
(* (sql-store.ts, update).                                                    *)
RefusedOnlyBySweep == \A c \in refused : raced[c]

(* The bucket is sound: the budget is kept, and the two ways out of the exact *)
(* budget happen only where the code says (limiter.ts, sql-store.ts).         *)
BucketSound == BudgetKept /\ ClockOrderOnSqlite /\ RefusedOnlyBySweep
=============================================================================
