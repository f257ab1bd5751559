------------------------------ MODULE Realtime ------------------------------
(***************************************************************************)
(* Topic invalidation over SSE (packages/realtime): a write is announced   *)
(* with NOTIFY (pg-transport.ts), recorded in the instance's replay ring   *)
(* (replay-ring.ts, bus.ts), and streamed to a connection (connection.ts,  *)
(* http-handlers.ts); the browser (packages/ui/src/live.ts) refetches the  *)
(* topic and reconnects from the last id it saw.                           *)
(*                                                                         *)
(* One client, subscribed to every topic; a topic's data is the number of  *)
(* its writes.                                                             *)
(***************************************************************************)
EXTENDS Integers, Sequences, SequencesExt, FiniteSets

CONSTANTS
  Topics,
  MaxEntries, \* of the ring
  MaxQueue,   \* of a stream
  MaxWrites,  \* bound
  MaxFaults   \* bound: broken streams and LISTENs, lost NOTIFYs, restarts

NoTopic == "resync"

RealtimeAssumption == NoTopic \notin Topics /\ MaxEntries \in Nat /\ MaxQueue \in Nat

VARIABLES
  version,   \* per topic: the writes to it
  notify,    \* the notifications on their way to the listening client
  listening,
  ring,      \* [id, gen, last, entries], the entries as [index, topic]
  stream,    \* "none", "open", or "ending": closed with frames to be read
  frames,    \* the frames of the stream, [topic, cursor]
  lastId,    \* the client's Last-Event-ID, Unset before the first frame
  seen,      \* per topic: the version the client fetched
  faults,
  missed,    \* ghost: the topics announced while nobody listened
  excused    \* ghost: the topics nothing will tell the client about

server == <<version, notify, listening, ring, missed>>
client == <<stream, frames, lastId, seen, excused>>
vars == <<server, client, faults>>

Cursor(r) == [id |-> r.id, gen |-> r.gen, index |-> r.last]
Unset == [id |-> 0, gen |-> 0, index |-> 0]

Init ==
  /\ version = [t \in Topics |-> 0]
  /\ notify = <<>>
  /\ listening = TRUE
  /\ ring = [id |-> 1, gen |-> 0, last |-> 0, entries |-> <<>>]
  /\ stream = "none" /\ frames = <<>> /\ lastId = Unset
  /\ seen = [t \in Topics |-> 0]
  /\ faults = 0
  /\ missed = {} /\ excused = {}

Fault == faults < MaxFaults /\ faults' = faults + 1

Invalidate(t, cursor) == [topic |-> t, cursor |-> cursor]
Resync(cursor) == [topic |-> NoTopic, cursor |-> cursor]

-----------------------------------------------------------------------------
(* The bus *)

(* A write commits and is announced; the NOTIFY goes to whoever listens. *)
Write(t) ==
  /\ version[t] < MaxWrites
  /\ version' = [version EXCEPT ![t] = @ + 1]
  /\ notify' = IF listening THEN Append(notify, t) ELSE notify
  /\ missed' = IF listening THEN missed ELSE missed \cup {t}
  /\ UNCHANGED <<listening, ring, client, faults>>

(* publishRemote() fails, or has no client: the error is reported, no more. *)
PublishFails(t) ==
  /\ version[t] < MaxWrites /\ Fault
  /\ version' = [version EXCEPT ![t] = @ + 1]
  /\ excused' = excused \cup {t}
  /\ UNCHANGED <<notify, listening, ring, missed, stream, frames, lastId, seen>>

(* record(): the entries that are too old go, and those beyond maxEntries. *)
Record(t, kept) ==
  LET all == Append(ring.entries, [index |-> ring.last + 1, topic |-> t])
  IN [ring EXCEPT !.last = @ + 1, !.entries = SubSeq(all, Len(all) - kept + 1, Len(all))]

Kept == 1 .. (IF Len(ring.entries) < MaxEntries THEN Len(ring.entries) + 1 ELSE MaxEntries)

(* Seeded fault: a full queue drops the frame and the stream goes on. *)
Dropped(cursor) == UNCHANGED <<frames, stream>>

(* #dropToResync(): one last frame, then the stream is closed. *)
DropToResync(cursor) ==
  /\ frames' = Append(frames, Resync(cursor))
  /\ stream' = "ending"

(* The notification arrives: recorded, and delivered to the open stream. *)
Notified(kept) ==
  LET t == Head(notify) IN
  /\ listening /\ notify # <<>>
  /\ notify' = Tail(notify)
  /\ ring' = Record(t, kept)
  /\ CASE stream # "open" -> UNCHANGED <<frames, stream>>
       [] stream = "open" /\ Len(frames) < MaxQueue ->
            frames' = Append(frames, Invalidate(t, Cursor(ring'))) /\ UNCHANGED stream
       [] stream = "open" /\ Len(frames) >= MaxQueue -> DropToResync(Cursor(ring'))
  /\ UNCHANGED <<version, listening, missed, lastId, seen, excused, faults>>

(* The listening client errors: what was on its way is lost. *)
ListenBreaks ==
  /\ listening /\ Fault
  /\ listening' = FALSE
  /\ missed' = Range(notify)
  /\ notify' = <<>>
  /\ UNCHANGED <<version, ring, client>>

(* Seeded fault: the ring goes on as if nothing had been missed. *)
SameGeneration == ring

(* bumpGeneration() *)
NextGeneration == [ring EXCEPT !.gen = @ + 1, !.last = 0, !.entries = <<>>]

(* It listens again.  A stream that is open is not told. *)
Relisten ==
  /\ ~listening
  /\ listening' = TRUE
  /\ ring' = NextGeneration
  /\ missed' = {}
  /\ excused' = IF stream = "open" THEN excused \cup missed ELSE excused
  /\ UNCHANGED <<version, notify, stream, frames, lastId, seen, faults>>

(* The instance restarts, or the client comes to another one. *)
Restart ==
  /\ Fault
  /\ ring' = [id |-> ring.id + 1, gen |-> 0, last |-> 0, entries |-> <<>>]
  /\ listening' = TRUE /\ notify' = <<>> /\ missed' = {}
  /\ stream' = "none" /\ frames' = <<>>
  /\ UNCHANGED <<version, lastId, seen, excused>>

-----------------------------------------------------------------------------
(* The client *)

NewerThan(cursor) ==
  {ring.entries[i].topic : i \in {j \in DOMAIN ring.entries : ring.entries[j].index > cursor.index}}

(* Seeded fault: what the ring has evicted is not missed. *)
Remembered(cursor) ==
  IF cursor.id # ring.id \/ cursor.gen # ring.gen THEN {NoTopic} ELSE NewerThan(cursor)

(* reconcile(): the topics recorded since, or "cannot tell". *)
Reconcile(cursor) ==
  IF \/ cursor.id # ring.id \/ cursor.gen # ring.gen
     \/ /\ cursor.index < ring.last
        /\ ring.entries = <<>> \/ cursor.index + 1 < ring.entries[1].index
  THEN {NoTopic}
  ELSE NewerThan(cursor)

Stale == {t \in Topics : seen[t] # version[t]}

(* The EventSource opens: open() replays, every frame with the ring's cursor, *)
(* unless the client has none to resume from.                                 *)
Opens ==
  LET todo == IF lastId = Unset THEN <<>> ELSE SetToSeq(Reconcile(lastId)) IN
  /\ stream = "none"
  /\ stream' = "open"
  /\ frames' = [i \in DOMAIN todo |-> [topic |-> todo[i], cursor |-> Cursor(ring)]]
  /\ excused' = IF lastId = Unset THEN excused \cup (Stale \ (Range(notify) \cup missed)) ELSE excused
  /\ UNCHANGED <<server, lastId, seen, faults>>

(* A frame is read: the topic, or every topic, is fetched again. *)
Receives ==
  LET f == Head(frames)
      told == IF f.topic = NoTopic THEN Topics ELSE {f.topic}
  IN
  /\ frames # <<>>
  /\ frames' = Tail(frames)
  /\ stream' = IF stream = "ending" /\ Len(frames) = 1 THEN "none" ELSE stream
  /\ lastId' = f.cursor
  /\ seen' = [t \in Topics |-> IF t \in told THEN version[t] ELSE seen[t]]
  /\ excused' = excused \ told
  /\ UNCHANGED <<server, faults>>

(* teardown(), by maxConnectionMs or revalidate(): what is queued is still    *)
(* read, and the EventSource reconnects.                                      *)
Teardown ==
  /\ stream = "open"
  /\ stream' = IF frames = <<>> THEN "none" ELSE "ending"
  /\ UNCHANGED <<server, frames, lastId, seen, excused, faults>>

Passed(f) == f.cursor.id = lastId.id /\ f.cursor.gen = lastId.gen /\ f.cursor.index <= lastId.index

(* The stream breaks: the frames not read are lost.  Those whose cursor the   *)
(* client already stands at will not be replayed.                             *)
StreamBreaks ==
  /\ stream # "none" /\ Fault
  /\ stream' = "none"
  /\ frames' = <<>>
  /\ excused' = excused \cup ({f.topic : f \in {g \in Range(frames) : Passed(g)}} \ {NoTopic})
  /\ UNCHANGED <<server, lastId, seen>>

-----------------------------------------------------------------------------
Next ==
  \/ \E t \in Topics : Write(t) \/ PublishFails(t)
  \/ \E kept \in Kept : Notified(kept)
  \/ ListenBreaks \/ Relisten \/ Restart
  \/ Opens \/ Receives \/ Teardown \/ StreamBreaks

Spec == Init /\ [][Next]_vars

-----------------------------------------------------------------------------
(* Properties *)

Quiet == stream = "open" /\ frames = <<>> /\ notify = <<>> /\ listening

(* A client whose stream is open and read shows the newest data of every      *)
(* topic, whatever broke, overflowed, was evicted or restarted in between.    *)
(* Four cases are excused: a NOTIFY that failed; a gap in the LISTEN under an *)
(* open stream; an open without a cursor, though it be a reconnect; and a     *)
(* replay of several frames broken off between two of them, since each        *)
(* carries the ring's last cursor (replay-ring.ts, connection.ts).            *)
NeverSilentlyStale == Quiet => Stale \subseteq excused
=============================================================================
