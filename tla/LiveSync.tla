------------------------------ MODULE LiveSync ------------------------------
(***************************************************************************)
(* Live sync, from the database to the client's durable store: the shape   *)
(* engine (packages/live-server/src/engine.ts), its replay ring            *)
(* (resume.ts), one SSE stream per session (http-handlers.ts,              *)
(* connection.ts), and on the other end the consumer and the two tiers of  *)
(* its store (packages/live/src/consumer.ts, sqlite-store.ts).             *)
(*                                                                         *)
(* One shape is modelled: shapes share nothing but the fate of the feed.   *)
(* A row is the number of the commit that wrote it.  The change feed       *)
(* (replication.ts) breaks, delivers again and crosses failovers.  Steps   *)
(* are the stretches between two awaits.                                   *)
(***************************************************************************)
EXTENDS Integers, Sequences, SequencesExt, FiniteSets, FiniteSetsExt

CONSTANTS
  Clients, Sessions, Keys,
  NoSession,    \* a client without a connection
  Paths,        \* "poll" and "replication": the change sources an engine may have
  MaxChanges,   \* bound: row changes ever committed
  MaxFailovers, \* bound
  MaxIncs,      \* bound: how often the shape is seeded
  MaxFaults,    \* bound: failovers, disconnects, reloads and the like, in all
  MaxQueue,     \* maxQueue: frames buffered for a slow client
  MaxEntries    \* replay.maxEntries

ASSUME PathsAssumption == Paths \subseteq {"poll", "replication"}
ASSUME SeedingsAssumption == MaxIncs \in Nat
ASSUME LimitsAssumption == MaxQueue \in Nat /\ MaxEntries \in Nat \ {0}
ASSUME SessionsAssumption == NoSession \notin Sessions
ASSUME KeysAssumption == IsFiniteSet(Keys)

Absent == 0
NoRows == [k \in Keys |-> Absent]

(* Cursors: none at all; a v0 or resync cursor, which does not decode; and    *)
(* (identity, LSN).                                                           *)
Undefined == [id |-> 0, lsn |-> 0]
NonResumable == [id |-> 0, lsn |-> 1]
At(id, lsn) == [id |-> id, lsn |-> lsn]
Decodes(cursor) == cursor.id # 0

Incs == 1 .. MaxIncs

VARIABLES
  wal,      \* the log: [key, val, lsn, sort], the changes of a commit share its lsn
  timeline, \* the identity of the live database
  commits,  \* row changes committed so far
  conn,     \* the feed is connected
  srcId,    \* the identity the feed captured at its last connect
  tail,     \* how much of the log the feed has delivered
  high,     \* ghost: the furthest it ever was on this timeline
  path,     \* the engine's change source
  liveId,   \* liveIdentity, 0 before it is revealed
  reg,      \* the entry in the shapes map, 0 for none
  ent,      \* per seeding: the entry it made
  incs,     \* ghost: seedings so far
  raced,    \* ghost: entries another seeding replaced in the map
  tick,     \* the poll in flight: the entry and the rows it read
  sess,     \* per session: its subscriber and its stream
  cur,      \* per client: the session it is connected to
  lastId,   \* per client: the EventSource's last event id
  url,      \* per client: the ?lastEventId= its EventSource was opened with
  view,     \* per client: the mirror, with its cursor
  dur,      \* per client: the durable tier
  chain,    \* per client: the durable writes not yet run
  faults    \* faults so far

dbVars == <<wal, timeline, commits>>
srcVars == <<conn, srcId, tail, high>>
engVars == <<liveId, reg, ent, incs, raced>>
netVars == <<cur, lastId, url>>
storeVars == <<view, dur, chain>>
vars == <<dbVars, srcVars, path, engVars, tick, sess, netVars, storeVars, faults>>

FreeSession == [st |-> "free", client |-> NoSession, since |-> Undefined, sub |-> 0,
                seed |-> NoRows, pos |-> 0, tl |-> 0, q |-> <<>>, purge |-> FALSE,
                closed |-> FALSE, exact |-> FALSE]

FreshEntry == [rows |-> NoRows, ring |-> <<>>, id |-> 0, floor |-> -1, pos |-> 0, tl |-> 0,
               clean |-> TRUE, known |-> TRUE]

EmptyStore == [rows |-> NoRows, cursor |-> Undefined, origin |-> 0]

NoTick == [inc |-> 0, rows |-> NoRows]

Init ==
  /\ wal = <<>> /\ timeline = 1 /\ commits = 0
  /\ conn = FALSE /\ srcId = 0 /\ tail = 0 /\ high = 0
  /\ path \in Paths
  /\ liveId = 0 /\ reg = 0 /\ ent = [i \in Incs |-> FreshEntry] /\ incs = 0 /\ raced = {}
  /\ tick = NoTick
  /\ sess = [s \in Sessions |-> FreeSession]
  /\ cur = [c \in Clients |-> NoSession]
  /\ lastId = [c \in Clients |-> Undefined]
  /\ url = [c \in Clients |-> Undefined]
  /\ view = [c \in Clients |-> EmptyStore]
  /\ dur = [c \in Clients |-> EmptyStore]
  /\ chain = [c \in Clients |-> <<>>]
  /\ faults = 0

Fault == faults < MaxFaults /\ faults' = faults + 1

-----------------------------------------------------------------------------
(* The database and the feed *)

SetRow(rows, change) == [rows EXCEPT ![change.key] = change.val]

(* The table after the first n changes of the log: of each row the last. *)
RowsAt(n) ==
  [k \in Keys |->
     LET last == {i \in 1 .. n : wal[i].key = k /\ \A j \in i + 1 .. n : wal[j].key # k}
     IN IF last = {} THEN Absent ELSE wal[CHOOSE i \in last : TRUE].val]

DbRows == RowsAt(Len(wal))

LastLsn == IF wal = <<>> THEN 0 ELSE Last(wal).lsn

(* A change the shape sees: a row written or taken out of it.  It is refused   *)
(* when it comes without a valid LSN, or when the classifier throws (an        *)
(* incomplete old image, a changed key).                                       *)
Change(k, val, lsn, sort) == [key |-> k, val |-> val, lsn |-> lsn, sort |-> sort]

(* One commit: a change, or a change to each of two rows. *)
Commit ==
  /\ commits < MaxChanges
  /\ \E k \in Keys, gone \in BOOLEAN, sort \in {"plain", "refused"} :
       /\ gone => DbRows[k] # Absent
       /\ sort # "plain" => gone /\ path = "replication"
       /\ LET one == Change(k, IF gone THEN Absent ELSE commits + 1, LastLsn + 1, sort) IN
          \/ wal' = Append(wal, one) /\ commits' = commits + 1
          \/ /\ commits + 2 <= MaxChanges /\ sort = "plain"
             /\ \E l \in Keys \ {k} :
                  wal' = wal \o <<one, Change(l, commits + 2, LastLsn + 1, "plain")>>
             /\ commits' = commits + 2
  /\ UNCHANGED <<timeline, srcVars, path, engVars, tick, sess, netVars, storeVars, faults>>

(* A standby that has a prefix of the log is promoted. *)
Failover ==
  /\ path = "replication" /\ timeline <= MaxFailovers /\ Fault
  /\ timeline' = timeline + 1
  /\ \E n \in 0 .. Len(wal) :
       /\ n < Len(wal) /\ n > 0 => wal[n].lsn # wal[n + 1].lsn
       /\ wal' = SubSeq(wal, 1, n)
       /\ tail' = Min({tail, n})
       /\ high' = Min({tail, n})
  /\ conn' = FALSE
  /\ UNCHANGED <<commits, srcId, path, engVars, tick, sess, netVars, storeVars>>

-----------------------------------------------------------------------------
(* The stream of a session *)

Resync == [kind |-> "resync", cursor |-> NonResumable]
SnapshotFrame(rows, cursor, inc) ==
  [kind |-> "snapshot", rows |-> rows, cursor |-> cursor, inc |-> inc]
ChangeFrame(change, cursor) ==
  [kind |-> "change", key |-> change.key, val |-> change.val, cursor |-> cursor]

(* resync() and teardown of an attached stream: a last frame, closed, unsubscribed. *)
Purged(x) == [x EXCEPT !.q = Append(@, Resync), !.closed = TRUE, !.sub = 0]

(* onChange of a subscriber: buffered until the stream is attached, then      *)
(* deliver(), which drops a slow client to a resync.                          *)
Delivered(x, frames) ==
  IF x.st = "gap" \/ Len(x.q) + Len(frames) <= MaxQueue
  THEN [x EXCEPT !.q = @ \o frames]
  ELSE Purged([x EXCEPT !.q = SubSeq(@ \o frames, 1, Max({MaxQueue, Len(@)}))])

(* Seeded fault: a resync in the subscribe-to-attach gap is not latched. *)
ResyncedOpen(x) == IF x.st = "gap" THEN x ELSE Purged(x)

(* onResync of a subscriber: latched until the stream is attached. *)
Resynced(x) == IF x.st = "gap" THEN [x EXCEPT !.purge = TRUE] ELSE Purged(x)

Subscribers(ss, i) == {s \in Sessions : ss[s].sub = i}

Fan(i, frames) ==
  [s \in Sessions |-> IF sess[s].sub = i THEN Delivered(sess[s], frames) ELSE sess[s]]

(* The shape leaves the map with its last subscriber. *)
StillRegistered(ss, i) == IF Subscribers(ss, i) = {} THEN 0 ELSE i

DropShape ==
  /\ reg' = 0
  /\ sess' = [s \in Sessions |->
                IF reg # 0 /\ sess[s].sub = reg THEN Resynced(sess[s]) ELSE sess[s]]

-----------------------------------------------------------------------------
(* The replay ring *)

(* record() and evict(): by count, and by an age the ring alone knows, but    *)
(* never the entry just recorded.                                             *)
Recorded(e, id, item) ==
  LET kept == IF e.id = id THEN e.ring ELSE <<>>
      floor == IF e.id = id THEN e.floor ELSE -1
      all == Append(kept, item)
  IN {[e EXCEPT !.id = id,
                !.ring = SubSeq(all, n + 1, Len(all)),
                !.floor = IF n = 0 THEN floor ELSE all[n].lsn] :
        n \in Max({0, Len(all) - MaxEntries}) .. Len(all) - 1}

(* The items at these positions, in order. *)
Kept(items, at) ==
  [n \in 1 .. Cardinality(at) |-> items[CHOOSE i \in at : Cardinality({h \in at : h <= i}) = n]]

(* Seeded fault: the replay leaves the client's own LSN out. *)
ReplayAfter(e, since) == Kept(e.ring, {i \in DOMAIN e.ring : e.ring[i].lsn > since.lsn})

ReplayFrom(e, since) == Kept(e.ring, {i \in DOMAIN e.ring : e.ring[i].lsn >= since.lsn})

(* reconcile(): the identities match and nothing at or after the LSN was      *)
(* evicted.                                                                   *)
Covers(e, since) == e.id # 0 /\ since.id = e.id /\ since.lsn > e.floor

-----------------------------------------------------------------------------
(* The feed and the engine *)

(* Seeded fault: a new identity is noted and the shapes are kept. *)
NoteIdentity(id) == liveId' = id /\ UNCHANGED <<reg, sess>>

(* revealIdentity(): a changed identity drops every shape. *)
RevealIdentity(id) ==
  /\ liveId' = id
  /\ IF liveId # 0 /\ liveId # id THEN DropShape ELSE UNCHANGED <<reg, sess>>

(* The feed connects, again: IDENTIFY_SYSTEM is revealed before any change    *)
(* flows, and the slot, whose confirmed position never moves back, may        *)
(* deliver its last commit once more.                                         *)
SourceConnects ==
  /\ path = "replication" /\ ~conn
  /\ conn' = TRUE
  /\ srcId' = timeline
  /\ tail' \in {n \in 0 .. tail : n < tail => wal[n + 1].lsn = wal[high].lsn}
  /\ RevealIdentity(timeline)
  /\ UNCHANGED <<dbVars, high, path, ent, incs, raced, tick, netVars, storeVars, faults>>

SourceDrops ==
  /\ conn /\ Fault
  /\ conn' = FALSE
  /\ UNCHANGED <<dbVars, srcId, tail, high, path, engVars, tick, sess, netVars, storeVars>>

(* Seeded fault: the refused change is skipped, the shape stays. *)
SkipRefused(change) == change.sort # "plain" /\ UNCHANGED <<reg, sess, ent>>

(* onSourceChange() of a change without an LSN, or that the classifier refuses. *)
Refused(change) == change.sort # "plain" /\ DropShape /\ UNCHANGED ent

(* onSourceChange() otherwise: applied, recorded, fanned. *)
Applied(change) ==
  /\ change.sort = "plain"
  /\ IF reg = 0 THEN UNCHANGED <<reg, sess, ent>>
     ELSE LET e == [ent[reg] EXCEPT !.rows = SetRow(@, change)]
              ss == Fan(reg, <<ChangeFrame(change, At(srcId, change.lsn))>>) IN
          /\ \E e2 \in Recorded(e, srcId, change) : ent' = [ent EXCEPT ![reg] = e2]
          /\ sess' = ss
          /\ reg' = StillRegistered(ss, reg)

SourceDelivers ==
  /\ path = "replication" /\ conn /\ tail < Len(wal)
  /\ tail' = tail + 1
  /\ high' = Max({high, tail + 1})
  /\ Refused(wal[tail + 1]) \/ Applied(wal[tail + 1])
  /\ UNCHANGED <<dbVars, conn, srcId, path, liveId, incs, raced, tick, netVars, storeVars, faults>>

(* tickShape(): the entry is read again ... *)
PollReads ==
  /\ path = "poll" /\ tick = NoTick /\ reg # 0
  /\ tick' = [inc |-> reg, rows |-> DbRows]
  /\ UNCHANGED <<dbVars, srcVars, path, engVars, sess, netVars, storeVars, faults>>

(* ... and diffed against what it held when the rows arrived. *)
PollLands ==
  LET i == tick.inc
      diff == SetToSeq({k \in Keys : tick.rows[k] # ent[i].rows[k]})
      frames == [n \in 1 .. Len(diff) |->
                   ChangeFrame([key |-> diff[n], val |-> tick.rows[diff[n]]], NonResumable)]
      ss == Fan(i, frames)
  IN
  /\ tick # NoTick
  /\ tick' = NoTick
  /\ ent' = [ent EXCEPT ![i].rows = tick.rows]
  /\ sess' = ss
  /\ reg' = IF reg = i THEN StillRegistered(ss, i) ELSE reg
  /\ UNCHANGED <<dbVars, srcVars, path, liveId, incs, raced, netVars, storeVars, faults>>

PollFaults ==
  /\ tick # NoTick /\ Fault
  /\ tick' = NoTick
  /\ UNCHANGED <<dbVars, srcVars, path, engVars, sess, netVars, storeVars>>

-----------------------------------------------------------------------------
(* Sessions: subscribe, attach, tear down *)

(* The snapshot's cursor: the ring's last LSN on the live identity, or 0/0. *)
SnapshotCursor(e) ==
  IF path = "poll" \/ liveId = 0 THEN NonResumable
  ELSE At(liveId, IF e.id = liveId THEN Last(e.ring).lsn ELSE 0)

(* subscribe() behind the seeding, up to the subscription it returns: the     *)
(* subscriber is added and the resume cursor is reconciled.                   *)
Subscribed(x, i, e) ==
  LET replay == path = "replication" /\ Decodes(x.since) /\ Covers(e, x.since)
      missed == ReplayFrom(e, x.since)
  IN [x EXCEPT
        !.st = "gap", !.sub = i, !.seed = NoRows, !.pos = 0, !.tl = 0,
        !.q = IF replay
              THEN [n \in 1 .. Len(missed) |->
                      ChangeFrame(missed[n], At(x.since.id, missed[n].lsn))]
              ELSE <<SnapshotFrame(e.rows, SnapshotCursor(e), i)>>,
        !.exact = ~replay \/ view[x.client].origin \in {0, i}]

(* The server prefers Last-Event-ID to the query. *)
Since(c) == IF lastId[c] # Undefined THEN lastId[c] ELSE url[c]

Opened(c) == [FreeSession EXCEPT !.client = c, !.since = Since(c)]

(* The EventSource connects; the shape is in the map, or must be seeded. *)
Connect(c, s) ==
  /\ cur[c] = NoSession /\ sess[s].st = "free"
  /\ cur' = [cur EXCEPT ![c] = s]
  /\ IF reg # 0
     THEN sess' = [sess EXCEPT ![s] = Subscribed(Opened(c), reg, ent[reg])]
     ELSE incs < MaxIncs /\ sess' = [sess EXCEPT ![s] = [Opened(c) EXCEPT !.st = "probe"]]
  /\ UNCHANGED <<dbVars, srcVars, path, engVars, tick, lastId, url, storeVars, faults>>

(* fetchRows() takes its snapshot of the table ... *)
SeedReads(s) ==
  /\ sess[s].st = "probe"
  /\ sess' = [sess EXCEPT ![s] = [@ EXCEPT !.st = "read", !.seed = DbRows,
                                           !.pos = Len(wal), !.tl = timeline]]
  /\ UNCHANGED <<dbVars, srcVars, path, engVars, tick, netVars, storeVars, faults>>

(* ... and the entry is published with it. *)
SeedLands(s) ==
  LET x == sess[s]
      i == incs + 1
      e == [FreshEntry EXCEPT !.rows = x.seed, !.pos = x.pos, !.tl = x.tl,
                              !.clean = x.tl = timeline /\ tail <= x.pos, !.known = liveId # 0]
  IN
  /\ x.st = "read" /\ incs < MaxIncs
  /\ incs' = i
  /\ ent' = [ent EXCEPT ![i] = e]
  /\ reg' = i
  /\ raced' = IF reg = 0 THEN raced ELSE raced \cup {reg}
  /\ sess' = [sess EXCEPT ![s] = Subscribed(x, i, e)]
  /\ UNCHANGED <<dbVars, srcVars, path, liveId, tick, netVars, storeVars, faults>>

HangUp(c) == [d \in Clients |-> IF d = c THEN NoSession ELSE cur[d]]

(* The catalog probe or the read rejects: an error response. *)
SubscribeFails(s) ==
  /\ sess[s].st \in {"probe", "read"} /\ Fault
  /\ sess' = [sess EXCEPT ![s] = FreeSession]
  /\ cur' = [c \in Clients |-> IF cur[c] = s THEN NoSession ELSE cur[c]]
  /\ UNCHANGED <<dbVars, srcVars, path, engVars, tick, lastId, url, storeVars>>

(* unsubscribe() looks the shape up anew: only the entry in the map may go. *)
Unsubscribed(s) == IF reg # 0 /\ sess[s].sub = reg /\ Subscribers(sess, reg) = {s} THEN 0 ELSE reg

(* Seeded fault: a resync of the subscribe-to-attach gap is not looked at. *)
AttachedDeaf(x) == Delivered([x EXCEPT !.st = "open", !.q = <<>>], x.q)

(* start() of the stream: the initial send, the buffered changes, then the    *)
(* latched resync.                                                            *)
Attached(x) ==
  LET open == Delivered([x EXCEPT !.st = "open", !.q = <<>>], x.q)
  IN IF x.purge /\ ~open.closed THEN Purged(open) ELSE open

Attach(s) ==
  /\ sess[s].st = "gap" /\ cur[sess[s].client] = s
  /\ sess' = [sess EXCEPT ![s] = Attached(@)]
  /\ reg' = IF sess'[s].sub = 0 THEN Unsubscribed(s) ELSE reg
  /\ UNCHANGED <<dbVars, srcVars, path, liveId, ent, incs, raced, tick, netVars, storeVars, faults>>

(* teardown() of a stream whose client is gone, attached or not. *)
Teardown(s) ==
  /\ sess[s].st \in {"gap", "open"} /\ cur[sess[s].client] # s
  /\ sess' = [sess EXCEPT ![s] = FreeSession]
  /\ reg' = Unsubscribed(s)
  /\ UNCHANGED <<dbVars, srcVars, path, liveId, ent, incs, raced, tick, netVars, storeVars, faults>>

(* The lifetime cap: closed and unsubscribed, nothing is purged. *)
Expire(s) ==
  /\ sess[s].st = "open" /\ ~sess[s].closed /\ Fault
  /\ sess' = [sess EXCEPT ![s].closed = TRUE, ![s].sub = 0]
  /\ reg' = Unsubscribed(s)
  /\ UNCHANGED <<dbVars, srcVars, path, liveId, ent, incs, raced, tick, netVars, storeVars>>

(* A failed re-authorization: purged first. *)
Revoke(s) ==
  /\ sess[s].st = "open" /\ ~sess[s].closed /\ Fault
  /\ sess' = [sess EXCEPT ![s] = Purged(@)]
  /\ reg' = Unsubscribed(s)
  /\ UNCHANGED <<dbVars, srcVars, path, liveId, ent, incs, raced, tick, netVars, storeVars>>

-----------------------------------------------------------------------------
(* The client *)

(* The durable write each frame leaves behind, and what the frame does to the *)
(* rows.                                                                      *)
Store(frame, v) ==
  CASE frame.kind = "snapshot" -> [rows |-> frame.rows, cursor |-> frame.cursor, origin |-> frame.inc]
    [] frame.kind = "change" -> [v EXCEPT !.rows = SetRow(@, frame), !.cursor = frame.cursor]
    [] frame.kind = "resync" -> EmptyStore

(* A frame of the stream reaches the consumer. *)
Receive(c) ==
  LET s == cur[c]
      frame == Head(sess[s].q)
  IN
  /\ s # NoSession /\ sess[s].st = "open" /\ sess[s].q # <<>>
  /\ sess' = [sess EXCEPT ![s].q = Tail(@)]
  /\ lastId' = [lastId EXCEPT ![c] = frame.cursor]
  /\ view' = [view EXCEPT ![c] = Store(frame, @)]
  /\ chain' = [chain EXCEPT ![c] = Append(@, frame)]
  /\ UNCHANGED <<dbVars, srcVars, path, engVars, tick, cur, url, dur, faults>>

(* The stream has ended, and the EventSource will reconnect. *)
StreamEnds(c) ==
  LET s == cur[c] IN
  /\ s # NoSession /\ sess[s].st = "open" /\ sess[s].closed /\ sess[s].q = <<>>
  /\ sess' = [sess EXCEPT ![s] = FreeSession]
  /\ cur' = HangUp(c)
  /\ UNCHANGED <<dbVars, srcVars, path, engVars, tick, lastId, url, storeVars, faults>>

(* The connection breaks; the server hears of it when it tears down. *)
Disconnect(c) ==
  /\ cur[c] # NoSession /\ Fault
  /\ cur' = HangUp(c)
  /\ UNCHANGED <<dbVars, srcVars, path, engVars, tick, sess, lastId, url, storeVars>>

(* The page is reloaded: the mirror is hydrated, the writes that had not run  *)
(* are lost, and the persisted cursor goes into the URL.                      *)
Reload(c) ==
  /\ Fault
  /\ cur' = HangUp(c)
  /\ view' = [view EXCEPT ![c] = dur[c]]
  /\ chain' = [chain EXCEPT ![c] = <<>>]
  /\ lastId' = [lastId EXCEPT ![c] = Undefined]
  /\ url' = [url EXCEPT ![c] = dur[c].cursor]
  /\ UNCHANGED <<dbVars, srcVars, path, engVars, tick, sess, dur>>

(* runWrite(): the write at the head of the chain commits. *)
WriteLands(c) ==
  /\ chain[c] # <<>>
  /\ chain' = [chain EXCEPT ![c] = Tail(@)]
  /\ dur' = [dur EXCEPT ![c] = Store(Head(chain[c]), @)]
  /\ UNCHANGED <<dbVars, srcVars, path, engVars, tick, sess, netVars, view, faults>>

-----------------------------------------------------------------------------
SessionStep(s) ==
  SeedReads(s) \/ SeedLands(s) \/ Attach(s) \/ Teardown(s)

ClientStep(c) == Receive(c) \/ StreamEnds(c)

Progress ==
  \/ SourceConnects \/ SourceDelivers \/ PollReads \/ PollLands
  \/ \E s \in Sessions : SessionStep(s)
  \/ \E c \in Clients : ClientStep(c) \/ WriteLands(c) \/ \E s \in Sessions : Connect(c, s)

Disturbance ==
  \/ Commit \/ Failover \/ SourceDrops \/ PollFaults
  \/ \E s \in Sessions : SubscribeFails(s) \/ Expire(s) \/ Revoke(s)
  \/ \E c \in Clients : Disconnect(c) \/ Reload(c)

Next == Progress \/ Disturbance

Spec == Init /\ [][Next]_vars

(* The EventSource reconnects on its own, the feed's reconnect loop and the   *)
(* poll timer keep running, and every await returns.                          *)
Fairness ==
  /\ WF_vars(SourceConnects) /\ WF_vars(SourceDelivers)
  /\ WF_vars(PollReads) /\ WF_vars(PollLands)
  /\ \A s \in Sessions : WF_vars(SessionStep(s))
  /\ \A c \in Clients : WF_vars(ClientStep(c)) /\ WF_vars(WriteLands(c))
                        /\ WF_vars(\E s \in Sessions : Connect(c, s))

FairSpec == Spec /\ Fairness

-----------------------------------------------------------------------------
(* Properties *)

(* A session a client listens to, that nothing has purged or closed. *)
Live(s) ==
  /\ sess[s].st \in {"gap", "open"} /\ cur[sess[s].client] = s
  /\ ~sess[s].closed /\ ~sess[s].purge

(* The rows a frame sets, and to what. *)
Sets(frame, k) == frame.kind # "change" \/ frame.key = k
Written(frame, k) ==
  CASE frame.kind = "snapshot" -> frame.rows[k]
    [] frame.kind = "change" -> frame.val
    [] frame.kind = "resync" -> Absent

(* The rows the client will hold once it has read the frames under way: of    *)
(* each row what the last frame that sets it says, or what it holds now.      *)
Outlook(s) ==
  LET q == sess[s].q IN
  [k \in Keys |->
     LET by == {i \in 1 .. Len(q) : Sets(q[i], k)}
     IN IF by = {} THEN view[sess[s].client].rows[k] ELSE Written(q[Max(by)], k)]

(* A client that resumes where it left off, or starts from a snapshot, ends   *)
(* up with exactly the rows of the entry it subscribed to: the replay         *)
(* (resume.ts, reconcile) brings everything it missed, whatever was evicted,  *)
(* delivered twice or cut off in the middle of a commit, and the rows it      *)
(* reloaded are the ones its persisted cursor stands for.                     *)
ResumeExact ==
  \A s \in Sessions : Live(s) /\ sess[s].exact => Outlook(s) = ent[sess[s].sub].rows

(* Seeded outside the known windows: no change was delivered between the read *)
(* and the publication, and no failover lies between the seeding and the      *)
(* first identity the feed revealed.                                          *)
Sound(e) == e.clean /\ (e.known \/ e.tl = timeline)

(* The entry in the map never diverges silently: seeded outside the known     *)
(* windows, it holds what the log says as far as the feed has delivered it; a *)
(* change it cannot apply, or a failover, takes it out                        *)
(* (engine.ts, dropShape and revealIdentity).                                 *)
EntryTruthful ==
  path = "replication" /\ reg # 0 /\ conn /\ Sound(ent[reg])
    /\ tail = high /\ tail >= ent[reg].pos
  => ent[reg].rows = RowsAt(tail)

(* A listening client is subscribed to the entry that is being tailed, unless *)
(* that entry was replaced by a second seeding of the shape.                  *)
Tailed == \A s \in Sessions : Live(s) => sess[s].sub \in {reg} \cup raced

(* "the later entry simply wins": no client is left on an entry that nothing  *)
(* feeds.                                                                     *)
EverySubscriberIsTailed == \A s \in Sessions : Live(s) => sess[s].sub = reg

(* "a reconnect replays EXACTLY the missed changes, or re-snapshots - never   *)
(* silently misses a change".                                                 *)
NeverSilentlyMisses ==
  \A s \in Sessions : Live(s) /\ tail = Len(wal) => Outlook(s) = ent[sess[s].sub].rows

Fed(c) == cur[c] # NoSession /\ Live(cur[c]) /\ sess[cur[c]].st = "open" /\ sess[cur[c]].q = <<>>

Unharmed(c) ==
  LET x == sess[cur[c]] IN x.exact /\ x.sub \notin raced /\ Sound(ent[x.sub])

(* Once the disturbances are over every client ends up connected and shows    *)
(* the rows of the database, the known windows aside; no purge, drop,         *)
(* overflow or failed write leaves it waiting.                                *)
Converges ==
  <>[](\A c \in Clients : (reg # 0 \/ incs < MaxIncs) =>
         Fed(c) /\ (Unharmed(c) => view[c].rows = DbRows))
=============================================================================
