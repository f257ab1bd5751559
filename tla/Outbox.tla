------------------------------- MODULE Outbox -------------------------------
(***************************************************************************)
(* The offline-write outbox of a live query (packages/live/src/outbox.ts), *)
(* with the optimistic overlay it drives (read-model.ts) and the durable   *)
(* tier beneath both (sqlite-store.ts): one write chain that persists the  *)
(* rows, the cursor and the log of writes.                                 *)
(*                                                                         *)
(* The server is a log of the changes to the shape's rows; a cursor is a   *)
(* position in it and a row is the position that wrote it.  A client       *)
(* mutation is a number, in submission order.                              *)
(***************************************************************************)
EXTENDS Integers, Sequences, SequencesExt, FiniteSetsExt

CONSTANTS
  Keys,      \* the rows of the shape
  Outside,   \* a row that is not in it: nothing echoes a write to it
  MaxWrites, \* bound: mutations submitted and changes by other clients
  MaxFaults  \* bound: reloads, lost answers, failed durable writes, broken streams

Writes == 1 .. MaxWrites
NoRows == [k \in Keys |-> 0]
NoCursor == -1

OutboxAssumption == Outside \notin Keys /\ MaxWrites \in Nat

VARIABLES
  log,     \* the server: its changes, [key, id, gone], id 0 for a peer's
  fate,    \* ghost: per write, "" or what the server last made of it
  target,  \* per submitted write, in order: the key it writes
  flight,  \* the POST under way, [id, st]; id 0 for none: draining is FALSE
  queue,   \* the pending queue
  overlay, \* the optimistic overlay in insertion order, [id, held]
  heldIds,
  timers,  \* the writes with a grace timer
  rows, cursor,
  open,    \* the stream is open ...
  pos,     \* ... and how far it has got
  chain,   \* writeChain: the durable writes not yet run
  frozen,
  durRows, durCursor, durLog,
  logged,  \* ghost: the writes whose append committed
  torn,    \* ghost: the writes a markHeld or a remove failed for
  faults

serverVars == <<log, fate>>
memVars == <<queue, overlay, heldIds, timers>>
sliceVars == <<rows, cursor, open, pos>>
durVars == <<frozen, durRows, durCursor, durLog, logged, torn>>
vars == <<serverVars, target, flight, memVars, sliceVars, chain, durVars, faults>>

Idle == [id |-> 0, st |-> ""]

Init ==
  /\ log = <<>> /\ fate = [w \in Writes |-> ""]
  /\ target = <<>>
  /\ flight = Idle
  /\ queue = <<>> /\ overlay = <<>> /\ heldIds = {} /\ timers = {}
  /\ rows = NoRows /\ cursor = NoCursor /\ open = FALSE /\ pos = 0
  /\ chain = <<>>
  /\ frozen = FALSE /\ durRows = NoRows /\ durCursor = NoCursor /\ durLog = <<>>
  /\ logged = {} /\ torn = {}
  /\ faults = 0

Fault == faults < MaxFaults /\ faults' = faults + 1

Room == Len(target) + Cardinality({i \in DOMAIN log : log[i].id = 0}) < MaxWrites

Ids(entries) == {entries[i].id : i \in DOMAIN entries}

(* The entries at some of their positions, in their order. *)
Kept(entries, at) ==
  [n \in 1 .. Cardinality(at) |->
     entries[CHOOSE i \in at : Cardinality({h \in at : h <= i}) = n]]

Without(entries, ids) == Kept(entries, {i \in DOMAIN entries : entries[i].id \notin ids})
MarkedHeld(entries, id) ==
  [i \in DOMAIN entries |-> IF entries[i].id = id THEN [entries[i] EXCEPT !.held = TRUE]
                                                  ELSE entries[i]]

(* The shape's rows after the first n changes of the server: of each the last. *)
RowsAt(n) ==
  [k \in Keys |->
     LET last == {i \in 1 .. n : log[i].key = k /\ \A j \in i + 1 .. n : log[j].key # k}
     IN IF \A i \in last : log[i].gone THEN 0 ELSE CHOOSE i \in last : TRUE]

(* Durable writes on the chain. *)
Slice(rs, cur) == [op |-> "slice", rows |-> rs, cursor |-> cur]
Row(k, val, cur) == [op |-> "row", key |-> k, val |-> val, cursor |-> cur]
Log(id) == [op |-> "append", id |-> id]
MarkHeld(id) == [op |-> "markHeld", id |-> id]
Forget(id) == [op |-> "remove", id |-> id]

-----------------------------------------------------------------------------
(* Submitting and draining *)

(* The loop goes on with the front of the queue, or ends. *)
Sends(q) == IF q = <<>> THEN Idle ELSE [id |-> Head(q), st |-> "sent"]

(* submit(): queued, logged, shown, and a drain started unless one runs. *)
Submit(k) ==
  LET w == Len(target) + 1 IN
  /\ Room
  /\ target' = Append(target, k)
  /\ queue' = Append(queue, w)
  /\ chain' = Append(chain, Log(w))
  /\ overlay' = Append(overlay, [id |-> w, held |-> FALSE])
  /\ flight' = IF flight = Idle THEN Sends(queue') ELSE flight
  /\ UNCHANGED <<serverVars, heldIds, timers, sliceVars, durVars, faults>>

(* flush(), by the app, when it believes itself online. *)
Flush ==
  /\ flight = Idle /\ queue # <<>>
  /\ flight' = Sends(queue)
  /\ UNCHANGED <<serverVars, target, memVars, sliceVars, chain, durVars, faults>>

(* The server runs the mutation ... *)
ServerApplies ==
  /\ flight.st = "sent"
  /\ flight' = [flight EXCEPT !.st = "applied"]
  /\ fate' = [fate EXCEPT ![flight.id] = "applied"]
  /\ log' = IF target[flight.id] = Outside THEN log
            ELSE Append(log, [key |-> target[flight.id], id |-> flight.id, gone |-> FALSE])
  /\ UNCHANGED <<target, memVars, sliceVars, chain, durVars, faults>>

(* ... or refuses it. *)
ServerRefuses ==
  /\ flight.st = "sent"
  /\ flight' = [flight EXCEPT !.st = "refused"]
  /\ fate' = [fate EXCEPT ![flight.id] = "refused"]
  /\ UNCHANGED <<log, target, memVars, sliceVars, chain, durVars, faults>>

(* settle() on "ok": out of the queue, held until its echo. *)
Acked ==
  LET id == flight.id IN
  /\ flight.st = "applied"
  /\ queue' = Tail(queue)
  /\ overlay' = MarkedHeld(overlay, id)
  /\ chain' = Append(chain, MarkHeld(id))
  /\ heldIds' = heldIds \cup {id}
  /\ timers' = timers \cup {id}
  /\ flight' = Sends(queue')
  /\ UNCHANGED <<serverVars, target, sliceVars, durVars, faults>>

(* settle() on "rejected": rolled back. *)
Rejected ==
  LET id == flight.id IN
  /\ flight.st = "refused"
  /\ queue' = Tail(queue)
  /\ overlay' = Without(overlay, {id})
  /\ chain' = Append(chain, Forget(id))
  /\ flight' = Sends(queue')
  /\ UNCHANGED <<serverVars, target, heldIds, timers, sliceVars, durVars, faults>>

(* Seeded fault: an answer that never came is taken for a refusal. *)
RollsBack ==
  /\ queue' = Tail(queue)
  /\ overlay' = Without(overlay, {flight.id})
  /\ chain' = Append(chain, Forget(flight.id))

(* "retry", or the seam throws: the entry and its order are kept. *)
Keeps == UNCHANGED <<queue, overlay, chain>>

(* The answer is lost, whatever the server did: the drain stops. *)
Retry ==
  /\ flight # Idle /\ Fault
  /\ flight' = Idle
  /\ Keeps
  /\ UNCHANGED <<serverVars, target, heldIds, timers, sliceVars, durVars>>

(* onGrace(): no echo came in time. *)
Grace(id) ==
  /\ id \in timers
  /\ timers' = timers \ {id}
  /\ heldIds' = heldIds \ {id}
  /\ IF id \in heldIds
     THEN overlay' = Without(overlay, {id}) /\ chain' = Append(chain, Forget(id))
     ELSE UNCHANGED <<overlay, chain>>
  /\ UNCHANGED <<serverVars, target, flight, queue, sliceVars, durVars, faults>>

-----------------------------------------------------------------------------
(* The stream *)

PeerWrites(k, gone) ==
  /\ Room
  /\ log' = Append(log, [key |-> k, id |-> 0, gone |-> gone])
  /\ UNCHANGED <<fate, target, flight, memVars, sliceVars, chain, durVars, faults>>

(* Seeded fault: settleEcho() takes the oldest write of the key, held or not. *)
SettledAny(k) ==
  LET mine == {i \in DOMAIN overlay : target[overlay[i].id] = k}
  IN IF mine = {} THEN {} ELSE {overlay[Min(mine)].id}

(* settleEcho(): the oldest held write of the key, if there is one. *)
Settled(k) ==
  LET mine == {i \in DOMAIN overlay : target[overlay[i].id] = k /\ overlay[i].held}
  IN IF mine = {} THEN {} ELSE {overlay[Min(mine)].id}

(* What an echo for each of the keys settles, and leaves on the chain. *)
Echo(ks, write) ==
  LET ids == UNION {Settled(k) : k \in ks} IN
  /\ overlay' = Without(overlay, ids)
  /\ heldIds' = heldIds \ ids
  /\ chain' = chain \o [i \in 1 .. Cardinality(ids) |-> Forget(SetToSeq(ids)[i])] \o <<write>>

(* A change of the stream: applyChange(). *)
ApplyChange ==
  LET c == log[pos + 1]
      val == IF c.gone THEN 0 ELSE pos + 1
  IN
  /\ open /\ pos < Len(log)
  /\ pos' = pos + 1
  /\ rows' = [rows EXCEPT ![c.key] = val]
  /\ cursor' = pos + 1
  /\ Echo({c.key}, Row(c.key, val, pos + 1))
  /\ UNCHANGED <<serverVars, target, flight, queue, timers, open, durVars, faults>>

(* The stream opens with a snapshot: applySnapshot(). *)
ApplySnapshot ==
  LET now == RowsAt(Len(log)) IN
  /\ ~open /\ open' = TRUE
  /\ pos' = Len(log)
  /\ rows' = now
  /\ cursor' = Len(log)
  /\ Echo({k \in Keys : now[k] # 0}, Slice(now, Len(log)))
  /\ UNCHANGED <<serverVars, target, flight, queue, timers, durVars, faults>>

(* It opens with a replay instead, from the change the cursor stands at. *)
Resumes ==
  /\ ~open /\ cursor # NoCursor
  /\ open' = TRUE
  /\ pos' = Max({0, cursor - 1})
  /\ UNCHANGED <<serverVars, target, flight, memVars, rows, cursor, chain, durVars, faults>>

StreamBreaks ==
  /\ open /\ Fault
  /\ open' = FALSE
  /\ UNCHANGED <<serverVars, target, flight, memVars, rows, cursor, pos, chain, durVars>>

(* A resync frame, the last of its stream: applyResync(). *)
ApplyResync ==
  /\ open /\ Fault
  /\ open' = FALSE
  /\ rows' = NoRows
  /\ cursor' = NoCursor
  /\ chain' = Append(chain, Slice(NoRows, NoCursor))
  /\ UNCHANGED <<serverVars, target, flight, memVars, pos, durVars>>

-----------------------------------------------------------------------------
(* The durable tier *)

OfSlice(w) == w.op \in {"slice", "row"}
Replaces(w) == w.op = "slice"

(* Seeded fault: the freeze is not looked at. *)
NeverDropped(w) == FALSE

(* runWrite() drops an incremental write while the tier is frozen; runRaw()   *)
(* looks at no such thing.                                                    *)
Dropped(w) == OfSlice(w) /\ frozen /\ ~Replaces(w)

(* The transaction at the head of the chain commits. *)
Commits(w) ==
  CASE w.op = "slice" ->
         /\ durRows' = w.rows /\ durCursor' = w.cursor /\ frozen' = FALSE
         /\ UNCHANGED <<durLog, logged>>
    [] w.op = "row" ->
         /\ durRows' = [durRows EXCEPT ![w.key] = w.val] /\ durCursor' = w.cursor
         /\ UNCHANGED <<frozen, durLog, logged>>
    [] w.op = "append" ->
         /\ durLog' = Append(durLog, [id |-> w.id, held |-> FALSE])
         /\ logged' = logged \cup {w.id}
         /\ UNCHANGED <<frozen, durRows, durCursor>>
    [] w.op = "markHeld" ->
         /\ durLog' = MarkedHeld(durLog, w.id)
         /\ UNCHANGED <<frozen, durRows, durCursor, logged>>
    [] w.op = "remove" ->
         /\ durLog' = Without(durLog, {w.id})
         /\ UNCHANGED <<frozen, durRows, durCursor, logged>>

WriteLands ==
  /\ chain # <<>>
  /\ chain' = Tail(chain)
  /\ IF Dropped(Head(chain)) THEN UNCHANGED durVars
     ELSE Commits(Head(chain)) /\ UNCHANGED torn
  /\ UNCHANGED <<serverVars, target, flight, memVars, sliceVars, faults>>

(* It fails and is reported: a slice write freezes the tier, a log write does *)
(* not.                                                                       *)
WriteFails ==
  LET w == Head(chain) IN
  /\ chain # <<>> /\ ~Dropped(w) /\ Fault
  /\ chain' = Tail(chain)
  /\ frozen' = (frozen \/ OfSlice(w))
  /\ torn' = IF w.op \in {"markHeld", "remove"} THEN torn \cup {w.id} ELSE torn
  /\ UNCHANGED <<serverVars, target, flight, memVars, sliceVars, durRows, durCursor, durLog, logged>>

(* Seeded fault: a rehydrated hold is given no grace timer. *)
NoTimers(held) == {}

(* hold() of a rehydrated write arms its timer anew. *)
Rearmed(held) == held

(* Seeded fault: the log is read back newest first. *)
PendingReversed == Reverse(Kept(durLog, {i \in DOMAIN durLog : ~durLog[i].held}))

(* The log's pending writes, ORDER BY rowid. *)
Pending == Kept(durLog, {i \in DOMAIN durLog : ~durLog[i].held})

(* The page is reloaded: what the chain had not run is lost, the slice is     *)
(* hydrated, the held writes are held again and the pending ones queued       *)
(* again, in log order.  A POST under way reaches the server or it does not.  *)
Reload ==
  LET held == {durLog[i].id : i \in {j \in DOMAIN durLog : durLog[j].held}} IN
  /\ Fault
  /\ chain' = <<>>
  /\ flight' = Idle
  /\ queue' = [i \in DOMAIN Pending |-> Pending[i].id]
  /\ overlay' = durLog
  /\ heldIds' = held
  /\ timers' = Rearmed(held)
  /\ rows' = durRows /\ cursor' = durCursor /\ open' = FALSE /\ pos' = 0
  /\ frozen' = FALSE
  /\ UNCHANGED <<serverVars, target, durRows, durCursor, durLog, logged, torn>>

-----------------------------------------------------------------------------
Drain == Flush \/ ServerApplies \/ ServerRefuses \/ Acked \/ Rejected
Stream == ApplyChange \/ ApplySnapshot \/ Resumes

Next ==
  \/ \E k \in Keys \cup {Outside} : Submit(k)
  \/ \E k \in Keys, gone \in BOOLEAN : PeerWrites(k, gone)
  \/ Drain \/ Stream \/ WriteLands
  \/ \E w \in Writes : Grace(w)
  \/ Retry \/ StreamBreaks \/ ApplyResync \/ WriteFails \/ Reload

Spec == Init /\ [][Next]_vars

(* The app flushes whenever it comes back online, the server answers, the     *)
(* EventSource reconnects, a timer fires, and the chain runs.                 *)
Fairness == WF_vars(Drain) /\ WF_vars(Stream) /\ WF_vars(WriteLands) /\ \A w \in Writes : WF_vars(Grace(w))

FairSpec == Spec /\ Fairness

-----------------------------------------------------------------------------
(* Properties *)

(* The persisted cursor stands for exactly the persisted rows, whichever      *)
(* durable write failed or was lost with the page: a reload resumes from a    *)
(* point the rows had reached (sqlite-store.ts, the frozen guard).            *)
CursorMatchesRows == durCursor # NoCursor => durRows = RowsAt(durCursor)

(* A write that reached the durable log stays there, over reloads and lost    *)
(* answers, until the server has given its verdict (outbox.ts, settle).       *)
NoWriteLost == \A w \in logged : w \in Ids(durLog) \/ fate[w] # ""

(* A write without an answer stays visible: the echo of an older write, or a  *)
(* peer's change to its row, cannot roll it back (read-model.ts, settleEcho). *)
PendingShown == \A i \in DOMAIN queue : queue[i] \in Ids(overlay)

Applied(w) == {i \in DOMAIN log : log[i].id = w}

(* The server's last word on a row is the newest of the client's writes to    *)
(* it: replays after a reload or a lost answer never leave an older write on  *)
(* top, unless the newer is yet to be replayed (outbox.ts, FIFO drain; the    *)
(* chain persists markHeld in the order of the acks).                         *)
NewestWins ==
  \A a, b \in 1 .. Len(target) :
    /\ a < b /\ target[a] = target[b] /\ a \notin torn /\ b \in logged /\ fate[b] = "applied"
    /\ Applied(a) # {} /\ Applied(b) # {} /\ Max(Applied(a)) > Max(Applied(b))
    => \E i \in DOMAIN queue : queue[i] = b

(* Every write settles: nothing stays pending, shown as pending or in the     *)
(* durable log, but for a log row whose removal failed.                       *)
EveryWriteSettles == <>[](queue = <<>> /\ overlay = <<>> /\ Ids(durLog) \subseteq torn)

(* What is durable is truthful: the rows are those of the cursor, and no      *)
(* logged write is lost (sqlite-store.ts, outbox.ts).                         *)
DurableTruthful == CursorMatchesRows /\ NoWriteLost

(* The client's intent prevails: its pending writes are shown, and the newest *)
(* one wins (read-model.ts, outbox.ts).                                       *)
IntentPrevails == PendingShown /\ NewestWins
=============================================================================
