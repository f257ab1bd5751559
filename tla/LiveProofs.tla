----------------------------- MODULE LiveProofs -----------------------------
(***************************************************************************)
(* The shape engine of LiveSync, for any number of clients, sessions,      *)
(* keys, changes, failovers, seedings and faults: no listening client is   *)
(* left on an entry that has gone from the map, the entry in the map       *)
(* follows the log, and a client that resumes misses nothing.              *)
(***************************************************************************)
EXTENDS LiveSync, SequenceTheorems, FiniteSetTheorems, WellFoundedInduction, TLAPS

(* Records are told by their fields alone: what a queue, a ring or a row      *)
(* holds plays no part in the first two arguments.                            *)
SessionFields == DOMAIN FreeSession
EntryFields == DOMAIN FreshEntry

IsSession(x) ==
  /\ DOMAIN x = SessionFields
  /\ x.closed \in BOOLEAN /\ x.purge \in BOOLEAN

SessionsShaped == DOMAIN sess = Sessions /\ \A s \in Sessions : IsSession(sess[s])

-----------------------------------------------------------------------------
(* Every listener is tailed *)

(* A subscriber that will still be told: neither closed nor latched to be. *)
Attends(x) == x.st \in {"gap", "open"} /\ ~x.closed /\ ~x.purge

(* Tailed of every subscriber, whoever listens; and it has an entry, so that  *)
(* no entry that is published later passes for its own.                       *)
AttendedAreTailed ==
  \A s \in Sessions : Attends(sess[s]) => sess[s].sub # 0 /\ sess[s].sub \in {reg} \cup raced

TailedInv == incs \in Nat /\ SessionsShaped /\ AttendedAreTailed

-----------------------------------------------------------------------------
(* The entry follows the log *)

(* RowsAt, with the log as an argument. *)
LastWrite(log, n, k) == {i \in 1 .. n : log[i].key = k /\ \A j \in i + 1 .. n : log[j].key # k}

Member(S) == CHOOSE i \in S : TRUE

Table(log, n) ==
  [k \in Keys |-> IF LastWrite(log, n, k) = {} THEN Absent
                  ELSE log[Member(LastWrite(log, n, k))].val]

IsRows(rows) == rows = [k \in Keys |-> rows[k]]

Item == [key : Keys, val : Nat, lsn : Nat, sort : {"plain", "refused"}]

LogShaped ==
  /\ wal \in Seq(Item)
  /\ commits \in Nat /\ timeline \in Nat \ {0} /\ tail \in Nat /\ high \in Nat
  /\ tail <= Len(wal) /\ high <= Len(wal)

EntriesShaped ==
  /\ reg \in 0 .. incs /\ incs <= MaxIncs
  /\ DOMAIN ent = Incs
  /\ \A i \in Incs : /\ DOMAIN ent[i] = EntryFields
                     /\ IsRows(ent[i].rows)
                     /\ ent[i].pos \in Nat /\ ent[i].tl \in Nat /\ ent[i].tl <= timeline
                     /\ ent[i].clean \in BOOLEAN /\ ent[i].known \in BOOLEAN

(* The identity the engine knows is never ahead of the database, and a feed   *)
(* that is connected has revealed the current one.                            *)
IdentityKnown ==
  /\ liveId \in Nat /\ liveId <= timeline
  /\ conn \in BOOLEAN /\ (conn => liveId = timeline)

(* What a seeding has read is the table as it was at its place in the log,    *)
(* as long as the log is the same.                                            *)
SeedsTrue ==
  \A s \in Sessions : sess[s].st = "read" =>
    /\ sess[s].tl \in Nat /\ sess[s].tl <= timeline /\ sess[s].pos \in Nat
    /\ IsRows(sess[s].seed)
    /\ sess[s].tl = timeline => sess[s].pos <= Len(wal) /\ sess[s].seed = Table(wal, sess[s].pos)

(* An entry seeded under a known identity is of the timeline the feed is on. *)
EntryCurrent ==
  reg # 0 /\ ent[reg].clean /\ ent[reg].known =>
    liveId # 0 /\ (liveId = timeline => ent[reg].tl = timeline)

(* Each row of the entry is as it was at some place in the log that the feed  *)
(* has yet to pass: behind no place it has been at, or the one of the read.   *)
RowsAhead ==
  reg # 0 /\ ent[reg].clean /\ ent[reg].tl = timeline =>
    \A k \in Keys : \E m \in tail .. Len(wal) :
      (m <= high \/ m <= ent[reg].pos) /\ ent[reg].rows[k] = Table(wal, m)[k]

EntryInv ==
  path = "replication" =>
    /\ tick = NoTick
    /\ LogShaped /\ EntriesShaped /\ IdentityKnown
    /\ SeedsTrue /\ EntryCurrent /\ RowsAhead

-----------------------------------------------------------------------------
(* What the steps of a stream leave of a session *)

(* A later state of an attached session: the same subscriber, or closed. *)
Follows(x, y) ==
  /\ IsSession(y)
  /\ y.st = x.st /\ y.seed = x.seed /\ y.pos = x.pos /\ y.tl = x.tl
  /\ y.closed \/ (y.closed = x.closed /\ y.sub = x.sub /\ y.purge = x.purge)

LEMMA PurgedFollows ==
  ASSUME NEW x, IsSession(x)
  PROVE  Follows(x, Purged(x)) /\ Purged(x).closed
BY DEF IsSession, SessionFields, FreeSession, Follows, Purged

LEMMA DeliveredFollows ==
  ASSUME NEW x, IsSession(x), NEW frames
  PROVE  Follows(x, Delivered(x, frames))
<1> DEFINE cut == [x EXCEPT !.q = SubSeq(@ \o frames, 1, Max({MaxQueue, Len(@)}))]
           kept == [x EXCEPT !.q = @ \o frames]
<1>1. IsSession(cut) /\ Follows(x, cut)
  BY DEF IsSession, SessionFields, FreeSession, Follows
<1>2. IsSession(kept) /\ Follows(x, kept)
  BY DEF IsSession, SessionFields, FreeSession, Follows
<1>3. Follows(cut, Purged(cut)) /\ Purged(cut).closed
  BY <1>1, PurgedFollows
<1>4. Follows(x, Purged(cut))
  <2> HIDE DEF cut
  <2> QED BY <1>1, <1>3 DEF Follows
<1>5. Delivered(x, frames) \in {kept, Purged(cut)}
  BY DEF Delivered
<1> QED
  <2> HIDE DEF cut, kept
  <2> QED BY <1>2, <1>4, <1>5

LEMMA ResyncedFollows ==
  ASSUME NEW x, IsSession(x)
  PROVE  /\ IsSession(Resynced(x)) /\ ~Attends(Resynced(x))
         /\ Resynced(x).st = x.st /\ Resynced(x).seed = x.seed
         /\ Resynced(x).pos = x.pos /\ Resynced(x).tl = x.tl
<1>1. CASE x.st = "gap"
  BY <1>1 DEF IsSession, SessionFields, FreeSession, Resynced, Attends
<1>2. CASE x.st # "gap"
  BY <1>2, PurgedFollows DEF Resynced, Attends, Follows
<1> QED BY <1>1, <1>2

LEMMA AttachedFollows ==
  ASSUME NEW x, IsSession(x), x.st = "gap"
  PROVE  /\ IsSession(Attached(x)) /\ Attached(x).st = "open"
         /\ Attends(Attached(x)) => Attends(x) /\ Attached(x).sub = x.sub
<1> DEFINE bare == [x EXCEPT !.st = "open", !.q = <<>>]
           open == Delivered(bare, x.q)
<1>1. IsSession(bare) /\ bare.st = "open" /\ bare.closed = x.closed /\ bare.sub = x.sub /\ bare.purge = x.purge
  BY DEF IsSession, SessionFields, FreeSession
<1>2. Follows(bare, open)
  BY <1>1, DeliveredFollows
<1>3. Attached(x) = IF x.purge /\ ~open.closed THEN Purged(open) ELSE open
  BY DEF Attached
<1> HIDE DEF bare, open
<1>4. Follows(open, Purged(open)) /\ Purged(open).closed
  BY <1>2, PurgedFollows DEF Follows
<1> QED BY <1>1, <1>2, <1>3, <1>4 DEF Follows, Attends, IsSession

LEMMA SubscribedAttends ==
  ASSUME NEW x, IsSession(x), NEW i, NEW e
  PROVE  /\ IsSession(Subscribed(x, i, e))
         /\ Subscribed(x, i, e).sub = i /\ Subscribed(x, i, e).st = "gap"
BY DEF IsSession, SessionFields, FreeSession, Subscribed

LEMMA FreeIsSession == IsSession(FreeSession) /\ FreeSession.st = "free" /\ ~Attends(FreeSession)
BY DEF IsSession, SessionFields, FreeSession, Attends

LEMMA OpenedIsSession ==
  ASSUME NEW c
  PROVE  IsSession(Opened(c))
BY DEF IsSession, SessionFields, FreeSession, Opened

(* Of the steps of a session, and of the fanning of a change. *)
LEMMA FanFollows ==
  ASSUME SessionsShaped, NEW i, NEW frames
  PROVE  /\ DOMAIN Fan(i, frames) = Sessions
         /\ \A s \in Sessions : /\ Follows(sess[s], Fan(i, frames)[s])
                               /\ IsSession(Fan(i, frames)[s])
<1> SUFFICES ASSUME NEW s \in Sessions
             PROVE  Follows(sess[s], Fan(i, frames)[s])
  BY DEF Fan, Follows
<1>1. IsSession(sess[s]) /\ Follows(sess[s], sess[s])
  BY DEF SessionsShaped, Follows
<1>2. Follows(sess[s], Delivered(sess[s], frames))
  BY <1>1, DeliveredFollows
<1> QED BY <1>1, <1>2 DEF Fan

-----------------------------------------------------------------------------
(* Every listener is tailed: the proof *)

(* A change fanned to the entry i: whoever attends afterwards did before, and *)
(* is one of the subscribers that keep the entry in the map.                  *)
LEMMA FanTailed ==
  ASSUME TailedInv, NEW i, NEW frames,
         sess' = Fan(i, frames),
         reg' = (IF reg = i THEN StillRegistered(Fan(i, frames), i) ELSE reg),
         UNCHANGED <<incs, raced>>
  PROVE  TailedInv'
<1>1. SessionsShaped'
  BY FanFollows DEF TailedInv, SessionsShaped
<1>2. ASSUME NEW s \in Sessions, Attends(sess'[s])
      PROVE  sess'[s].sub # 0 /\ sess'[s].sub \in {reg'} \cup raced'
  <2>1. Follows(sess[s], sess'[s])
    BY FanFollows DEF TailedInv
  <2>2. Attends(sess[s]) /\ sess'[s].sub = sess[s].sub
    BY <1>2, <2>1 DEF Follows, Attends
  <2>3. sess'[s].sub = i => s \in Subscribers(Fan(i, frames), i)
    BY DEF Subscribers
  <2> QED BY <2>2, <2>3 DEF TailedInv, AttendedAreTailed, StillRegistered
<1> QED BY <1>1, <1>2 DEF TailedInv, AttendedAreTailed

LEMMA DropTailed ==
  ASSUME TailedInv, DropShape, UNCHANGED <<incs, raced>>
  PROVE  TailedInv'
<1>1. ASSUME NEW s \in Sessions
      PROVE  /\ IsSession(sess'[s])
             /\ Attends(sess'[s]) => sess'[s].sub # 0 /\ sess'[s].sub \in raced
  <2>1. IsSession(sess[s]) BY DEF TailedInv, SessionsShaped
  <2>2. CASE reg # 0 /\ sess[s].sub = reg
    <3>1. sess'[s] = Resynced(sess[s]) BY <2>2 DEF DropShape
    <3> QED BY <2>1, <3>1, ResyncedFollows
  <2>3. CASE ~(reg # 0 /\ sess[s].sub = reg)
    <3>1. sess'[s] = sess[s] BY <2>3 DEF DropShape
    <3> QED BY <2>1, <2>3, <3>1 DEF TailedInv, AttendedAreTailed
  <2> QED BY <2>2, <2>3
<1>2. DOMAIN sess' = Sessions BY DEF DropShape
<1> QED BY <1>1, <1>2 DEF TailedInv, SessionsShaped, AttendedAreTailed

(* One session changes and the map does not: as long as the session attends  *)
(* no more than it did.                                                       *)
LEMMA OneTailed ==
  ASSUME TailedInv, NEW s \in Sessions, NEW y, IsSession(y),
         sess' = [sess EXCEPT ![s] = y],
         Attends(y) => y.sub # 0 /\ y.sub \in {reg'} \cup raced',
         incs' \in Nat,
         \A r \in Sessions \ {s} : sess[r].sub # 0 /\ sess[r].sub \in {reg} \cup raced
                                     => sess[r].sub \in {reg'} \cup raced'
  PROVE  TailedInv'
BY DEF TailedInv, SessionsShaped, AttendedAreTailed

(* A subscriber leaves: the entry goes with the last one. *)
LEMMA LeaveTailed ==
  ASSUME TailedInv, NEW s \in Sessions, NEW y, IsSession(y), ~Attends(y),
         sess' = [sess EXCEPT ![s] = y], reg' = Unsubscribed(s), UNCHANGED <<incs, raced>>
  PROVE  TailedInv'
<1>1. ASSUME NEW r \in Sessions \ {s}, sess[r].sub \in {reg} \cup raced, sess[r].sub # 0
      PROVE  sess[r].sub \in {reg'} \cup raced'
  BY <1>1 DEF Unsubscribed, Subscribers
<1>2. incs' \in Nat BY DEF TailedInv
<1> QED BY <1>1, <1>2, OneTailed

LEMMA TailedInit == Init => TailedInv
BY FreeIsSession DEF Init, TailedInv, SessionsShaped, AttendedAreTailed

LEMMA TailedStep == TailedInv /\ [Next]_vars => TailedInv'
<1> SUFFICES ASSUME TailedInv, [Next]_vars PROVE TailedInv'
  OBVIOUS
<1>0. /\ SessionsShaped /\ incs \in Nat
      /\ \A s \in Sessions : IsSession(sess[s])
  BY DEF TailedInv, SessionsShaped
<1>1. CASE UNCHANGED <<sess, reg, raced, incs>>
  BY <1>1 DEF TailedInv, SessionsShaped, AttendedAreTailed
<1>2. CASE SourceConnects
  <2>1. CASE liveId # 0 /\ liveId # timeline
    BY <1>2, <2>1, DropTailed DEF SourceConnects, RevealIdentity
  <2>2. CASE ~(liveId # 0 /\ liveId # timeline)
    BY <1>1, <1>2, <2>2 DEF SourceConnects, RevealIdentity
  <2> QED BY <2>1, <2>2
<1>3. CASE SourceDelivers
  <2> DEFINE change == wal[tail + 1]
  <2>1. CASE Refused(change)
    BY <1>3, <2>1, DropTailed DEF SourceDelivers, Refused
  <2>2. CASE Applied(change) /\ reg # 0
    <3> DEFINE frames == <<ChangeFrame(change, At(srcId, change.lsn))>>
    <3>1. sess' = Fan(reg, frames) /\ reg' = StillRegistered(Fan(reg, frames), reg)
      BY <2>2 DEF Applied
    <3> HIDE DEF frames
    <3> QED BY <1>3, <3>1, FanTailed DEF SourceDelivers
  <2>3. CASE Applied(change) /\ reg = 0
    BY <1>1, <1>3, <2>3 DEF SourceDelivers, Applied
  <2> QED BY <1>3, <2>1, <2>2, <2>3 DEF SourceDelivers
<1>4. CASE PollLands
  <2>1. PICK frames : /\ sess' = Fan(tick.inc, frames)
                      /\ reg' = (IF reg = tick.inc
                                 THEN StillRegistered(Fan(tick.inc, frames), tick.inc) ELSE reg)
    BY <1>4 DEF PollLands
  <2> QED BY <1>4, <2>1, FanTailed DEF PollLands
<1>5. ASSUME NEW c \in Clients, NEW s \in Sessions, Connect(c, s)
      PROVE  TailedInv'
  <2>1. CASE reg # 0
    <3>1. /\ IsSession(Subscribed(Opened(c), reg, ent[reg]))
          /\ Subscribed(Opened(c), reg, ent[reg]).sub = reg
      BY OpenedIsSession, SubscribedAttends
    <3>2. sess' = [sess EXCEPT ![s] = Subscribed(Opened(c), reg, ent[reg])]
      BY <1>5, <2>1 DEF Connect
    <3>3. UNCHANGED <<incs, reg, raced>> BY <1>5 DEF Connect, engVars
    <3> QED BY <1>0, <2>1, <3>1, <3>2, <3>3, OneTailed
  <2>2. CASE reg = 0
    <3> DEFINE y == [Opened(c) EXCEPT !.st = "probe"]
    <3>1. IsSession(y) /\ ~Attends(y)
      BY OpenedIsSession DEF IsSession, SessionFields, FreeSession, Attends
    <3>2. sess' = [sess EXCEPT ![s] = y] BY <1>5, <2>2 DEF Connect
    <3>3. UNCHANGED <<incs, reg, raced>> BY <1>5 DEF Connect, engVars
    <3> HIDE DEF y
    <3> QED BY <1>0, <3>1, <3>2, <3>3, OneTailed
  <2> QED BY <2>1, <2>2
<1>6. ASSUME NEW s \in Sessions, SeedReads(s)
      PROVE  TailedInv'
  <2> DEFINE y == [sess[s] EXCEPT !.st = "read", !.seed = DbRows, !.pos = Len(wal), !.tl = timeline]
  <2>1. IsSession(y) /\ ~Attends(y)
    BY <1>0 DEF IsSession, SessionFields, FreeSession, Attends
  <2>2. sess' = [sess EXCEPT ![s] = y] BY <1>6 DEF SeedReads
  <2>3. UNCHANGED <<incs, reg, raced>> BY <1>6 DEF SeedReads, engVars
  <2> HIDE DEF y
  <2> QED BY <1>0, <2>1, <2>2, <2>3, OneTailed
<1>7. ASSUME NEW s \in Sessions, SeedLands(s)
      PROVE  TailedInv'
  <2>1. PICK e : sess' = [sess EXCEPT ![s] = Subscribed(sess[s], incs + 1, e)]
    BY <1>7 DEF SeedLands
  <2>2. /\ reg' = incs + 1 /\ incs' = incs + 1
        /\ raced' = IF reg = 0 THEN raced ELSE raced \cup {reg}
    BY <1>7 DEF SeedLands
  <2>3. /\ IsSession(Subscribed(sess[s], incs + 1, e))
        /\ Subscribed(sess[s], incs + 1, e).sub = incs + 1
    BY <1>0, SubscribedAttends
  <2>4. incs + 1 \in Nat /\ incs + 1 # 0 BY <1>0
  <2> QED BY <2>1, <2>2, <2>3, <2>4, OneTailed
<1>8. ASSUME NEW s \in Sessions, SubscribeFails(s)
      PROVE  TailedInv'
  <2>1. /\ sess' = [sess EXCEPT ![s] = FreeSession]
        /\ UNCHANGED <<incs, reg, raced>>
    BY <1>8 DEF SubscribeFails, engVars
  <2> QED BY <1>0, <2>1, FreeIsSession, OneTailed
<1>9. ASSUME NEW s \in Sessions, Attach(s)
      PROVE  TailedInv'
  <2> DEFINE y == Attached(sess[s])
  <2>1. /\ IsSession(y)
        /\ Attends(y) => Attends(sess[s]) /\ y.sub = sess[s].sub
    BY <1>0, <1>9, AttachedFollows DEF Attach
  <2>2. sess' = [sess EXCEPT ![s] = y] /\ sess'[s] = y /\ UNCHANGED <<incs, raced>>
    BY <1>0, <1>9 DEF Attach, SessionsShaped
  <2>3. reg' = IF y.sub = 0 THEN Unsubscribed(s) ELSE reg
    BY <1>9, <2>2 DEF Attach
  <2> HIDE DEF y
  <2>4. CASE Attends(y)
    <3>1. y.sub # 0 /\ y.sub \in {reg} \cup raced
      BY <2>1, <2>4 DEF TailedInv, AttendedAreTailed
    <3> QED BY <1>0, <2>1, <2>2, <2>3, <3>1, OneTailed
  <2>5. CASE ~Attends(y) /\ y.sub = 0
    BY <2>1, <2>2, <2>3, <2>5, LeaveTailed
  <2>6. CASE ~Attends(y) /\ y.sub # 0
    BY <1>0, <2>1, <2>2, <2>3, <2>6, OneTailed
  <2> QED BY <2>4, <2>5, <2>6
<1>10. ASSUME NEW s \in Sessions, Teardown(s)
       PROVE  TailedInv'
  BY <1>10, FreeIsSession, LeaveTailed DEF Teardown
<1>11. ASSUME NEW s \in Sessions, Expire(s)
       PROVE  TailedInv'
  <2> DEFINE y == [sess[s] EXCEPT !.closed = TRUE, !.sub = 0]
  <2>1. IsSession(y) /\ ~Attends(y)
    BY <1>0 DEF IsSession, SessionFields, FreeSession, Attends
  <2>2. sess' = [sess EXCEPT ![s] = y] BY <1>0, <1>11 DEF Expire, SessionsShaped
  <2> HIDE DEF y
  <2> QED BY <1>11, <2>1, <2>2, LeaveTailed DEF Expire
<1>12. ASSUME NEW s \in Sessions, Revoke(s)
       PROVE  TailedInv'
  <2>1. IsSession(Purged(sess[s])) /\ ~Attends(Purged(sess[s]))
    BY <1>0, PurgedFollows DEF Follows, Attends
  <2> QED BY <1>12, <2>1, LeaveTailed DEF Revoke
<1>13. ASSUME NEW c \in Clients, Receive(c)
       PROVE  TailedInv'
  <2> DEFINE s == cur[c]
             y == [sess[s] EXCEPT !.q = Tail(@)]
  <2>1. UNCHANGED <<incs, reg, raced>> BY <1>13 DEF Receive, engVars
  <2>2. CASE s \in Sessions
    <3>1. IsSession(y) /\ (Attends(y) => Attends(sess[s])) /\ y.sub = sess[s].sub
      BY <1>0, <2>2 DEF IsSession, SessionFields, FreeSession, Attends
    <3>2. sess' = [sess EXCEPT ![s] = y] BY <1>0, <1>13, <2>2 DEF Receive, SessionsShaped
    <3>3. Attends(y) => y.sub # 0 /\ y.sub \in {reg'} \cup raced'
      BY <2>1, <2>2, <3>1 DEF TailedInv, AttendedAreTailed
    <3> HIDE DEF y, s
    <3> QED BY <1>0, <2>1, <2>2, <3>1, <3>2, <3>3, OneTailed
  <2>3. CASE s \notin Sessions
    <3>1. DOMAIN sess' = Sessions /\ \A r \in Sessions : sess'[r] = sess[r]
      BY <1>0, <1>13, <2>3 DEF Receive, SessionsShaped
    <3> QED BY <2>1, <3>1 DEF TailedInv, SessionsShaped, AttendedAreTailed
  <2> QED BY <2>2, <2>3
<1>14. ASSUME NEW c \in Clients, StreamEnds(c)
       PROVE  TailedInv'
  <2> DEFINE s == cur[c]
  <2>1. /\ sess' = [sess EXCEPT ![s] = FreeSession]
        /\ UNCHANGED <<incs, reg, raced>>
    BY <1>14 DEF StreamEnds, engVars
  <2> HIDE DEF s
  <2>2. CASE s \in Sessions
    BY <1>0, <2>1, <2>2, FreeIsSession, OneTailed
  <2>3. CASE s \notin Sessions
    <3>1. DOMAIN sess' = Sessions /\ \A r \in Sessions : sess'[r] = sess[r]
      BY <1>0, <2>1, <2>3 DEF SessionsShaped
    <3> QED BY <2>1, <3>1 DEF TailedInv, SessionsShaped, AttendedAreTailed
  <2> QED BY <2>2, <2>3
<1>15. CASE \/ UNCHANGED vars
            \/ Commit \/ Failover \/ SourceDrops \/ PollFaults \/ PollReads
            \/ \E c \in Clients : Disconnect(c) \/ Reload(c) \/ WriteLands(c)
  BY <1>1, <1>15
  DEF vars, engVars, Commit, Failover, SourceDrops, PollFaults, PollReads, Disconnect, Reload, WriteLands
<1> QED
  BY <1>2, <1>3, <1>4, <1>5, <1>6, <1>7, <1>8, <1>9, <1>10, <1>11, <1>12, <1>13, <1>14, <1>15
  DEF Next, Progress, Disturbance, SessionStep, ClientStep

(* A client that listens is subscribed to the entry the engine tails, or to   *)
(* one a second seeding of the shape replaced (engine.ts, subscribe and       *)
(* dropShape): a dropped shape, a slow client, a failed re-authorization and  *)
(* a resync that falls between subscribe and attach all reach it.             *)
THEOREM ListenersAreTailed == Spec => []Tailed
<1>1. TailedInv => Tailed
  BY DEF TailedInv, AttendedAreTailed, Tailed, Live, Attends
<1> QED BY <1>1, TailedInit, TailedStep, PTL DEF Spec

-----------------------------------------------------------------------------
(* The entry follows the log: the proof *)

LEMMA MaxOfTwo ==
  ASSUME NEW a \in Int, NEW b \in Int
  PROVE  Max({a, b}) = IF a >= b THEN a ELSE b
BY DEF Max

LEMMA MinOfTwo ==
  ASSUME NEW a \in Int, NEW b \in Int
  PROVE  Min({a, b}) = IF a <= b THEN a ELSE b
BY DEF Min

(* The next change of the log is the last word on its row, and on no other. *)
LEMMA TableNext ==
  ASSUME NEW log, NEW n \in Nat, NEW m, m = n + 1, NEW k \in Keys
  PROVE  /\ log[m].key = k => Table(log, m)[k] = log[m].val
         /\ log[m].key # k => Table(log, m)[k] = Table(log, n)[k]
<1>1. CASE log[m].key = k
  <2>1. LastWrite(log, m, k) = {m} BY <1>1 DEF LastWrite
  <2>2. Member({m}) = m BY DEF Member
  <2>3. {m} # {} OBVIOUS
  <2> QED BY <1>1, <2>1, <2>2, <2>3 DEF Table
<1>2. CASE log[m].key # k
  <2>1. LastWrite(log, m, k) = LastWrite(log, n, k) BY <1>2 DEF LastWrite
  <2> QED BY <1>2, <2>1 DEF Table
<1> QED BY <1>1, <1>2

(* A place in the log stands for the same rows in every log that agrees up to *)
(* it.                                                                        *)
LEMMA TableKept ==
  ASSUME NEW log, NEW longer, NEW n \in Nat, \A i \in 1 .. n : longer[i] = log[i]
  PROVE  Table(longer, n) = Table(log, n)
<1> SUFFICES ASSUME NEW k \in Keys
             PROVE  Table(longer, n)[k] = Table(log, n)[k]
  BY DEF Table
<1>1. LastWrite(longer, n, k) = LastWrite(log, n, k) BY DEF LastWrite
<1>2. \A i \in LastWrite(log, n, k) : longer[i] = log[i] BY DEF LastWrite
<1>3. LastWrite(log, n, k) # {} => Member(LastWrite(log, n, k)) \in LastWrite(log, n, k)
  BY DEF Member
<1> QED BY <1>1, <1>2, <1>3 DEF Table

LEMMA RowsAtIsTable == \A n : RowsAt(n) = Table(wal, n)
BY DEF RowsAt, Table, LastWrite, Member

(* No seeding reads, and those that have read stay as they are. *)
ReadsKept ==
  \A s \in Sessions : sess'[s].st = "read" =>
    /\ sess[s].st = "read" /\ sess'[s].seed = sess[s].seed
    /\ sess'[s].pos = sess[s].pos /\ sess'[s].tl = sess[s].tl

LEMMA FollowedReadsKept ==
  ASSUME \A s \in Sessions : Follows(sess[s], sess'[s])
  PROVE  ReadsKept
BY DEF ReadsKept, Follows

(* A step of the streams: at most the shape leaves the map. *)
LEMMA QuietEntry ==
  ASSUME EntryInv, ReadsKept,
         UNCHANGED <<dbVars, tail, high, path, liveId, ent, incs, tick>>,
         conn' = conn \/ conn' = FALSE, reg' \in {reg, 0}, incs \in Nat
  PROVE  EntryInv'
<1> SUFFICES ASSUME path = "replication" PROVE EntryInv'
  BY DEF EntryInv
<1> USE DEF EntryInv, dbVars
<1>1. tick' = NoTick /\ LogShaped' BY DEF LogShaped
<1>6. IdentityKnown'
  <2>1. CASE conn' = FALSE BY <2>1 DEF IdentityKnown
  <2>2. CASE conn' = conn BY <2>2 DEF IdentityKnown
  <2> QED BY <2>1, <2>2
<1>2. EntriesShaped' BY DEF EntriesShaped, IsRows
<1>3. SeedsTrue' BY DEF SeedsTrue, ReadsKept, IsRows
<1>4. EntryCurrent' BY DEF EntryCurrent
<1>5. RowsAhead' BY DEF RowsAhead
<1> QED BY <1>1, <1>2, <1>3, <1>4, <1>5, <1>6

LEMMA DropReadsKept ==
  ASSUME SessionsShaped, DropShape
  PROVE  ReadsKept
BY ResyncedFollows DEF SessionsShaped, DropShape, ReadsKept

(* One session changes, and does not hold rows it has read. *)
LEMMA OneReadsKept ==
  ASSUME SessionsShaped, NEW s, NEW y, sess' = [sess EXCEPT ![s] = y], y.st # "read"
  PROVE  ReadsKept
BY DEF SessionsShaped, ReadsKept

LEMMA CommitEntry ==
  ASSUME EntryInv, Commit, incs \in Nat
  PROVE  EntryInv'
<1> SUFFICES ASSUME path = "replication" PROVE EntryInv'
  BY DEF EntryInv, Commit
<1> USE DEF EntryInv
<1>1. LastLsn \in Nat
  <2>1. CASE wal = <<>> BY <2>1 DEF LastLsn
  <2>2. CASE wal # <<>>
    <3>1. wal \in Seq(Item) BY DEF LogShaped
    <3>2. wal[Len(wal)] \in Item
      <4>1. Len(wal) \in Nat \ {0} BY <2>2, <3>1, EmptySeq
      <4> QED BY <3>1, <4>1
    <3> QED BY <2>2, <3>2 DEF LastLsn, Last, Item
  <2> QED BY <2>1, <2>2
<1>2. /\ wal' \in Seq(Item) /\ commits' \in Nat
      /\ Len(wal') \in Nat /\ Len(wal') >= Len(wal)
      /\ \A i \in 1 .. Len(wal) : wal'[i] = wal[i]
  <2>1. PICK k \in Keys, gone \in BOOLEAN, sort \in {"plain", "refused"} :
          LET one == Change(k, IF gone THEN Absent ELSE commits + 1, LastLsn + 1, sort) IN
          \/ wal' = Append(wal, one) /\ commits' = commits + 1
          \/ /\ \E l \in Keys : wal' = wal \o <<one, Change(l, commits + 2, LastLsn + 1, "plain")>>
             /\ commits' = commits + 2
    BY DEF Commit
  <2> DEFINE one == Change(k, IF gone THEN Absent ELSE commits + 1, LastLsn + 1, sort)
  <2>2. commits \in Nat /\ wal \in Seq(Item) /\ one \in Item
    BY <1>1 DEF LogShaped, Change, Absent, Item
  <2>3. \A l \in Keys : Change(l, commits + 2, LastLsn + 1, "plain") \in Item
    BY <1>1, <2>2 DEF Change, Item
  <2> HIDE DEF one
  <2>4. CASE wal' = Append(wal, one) /\ commits' = commits + 1
    BY <2>2, <2>4
  <2>5. ASSUME NEW l \in Keys, wal' = wal \o <<one, Change(l, commits + 2, LastLsn + 1, "plain")>>,
               commits' = commits + 2
        PROVE  /\ wal' \in Seq(Item) /\ commits' \in Nat
               /\ Len(wal') \in Nat /\ Len(wal') >= Len(wal)
               /\ \A i \in 1 .. Len(wal) : wal'[i] = wal[i]
    BY <2>2, <2>3, <2>5
  <2> QED BY <2>1, <2>4, <2>5 DEF one
<1>3. UNCHANGED <<timeline, tail, high, path, liveId, reg, ent, incs, tick, sess, conn>>
  BY DEF Commit, srcVars, engVars
<1>4. LogShaped' BY <1>2, <1>3 DEF LogShaped
<1>5. \A n \in 0 .. Len(wal) : Table(wal', n) = Table(wal, n)
  BY <1>2, TableKept DEF LogShaped
<1>6. tick' = NoTick /\ IdentityKnown' /\ EntriesShaped' /\ EntryCurrent'
  BY <1>3 DEF IdentityKnown, EntriesShaped, IsRows, EntryCurrent
<1>7. SeedsTrue' BY <1>2, <1>3, <1>5 DEF SeedsTrue, IsRows, LogShaped
<1>8. RowsAhead' BY <1>2, <1>3, <1>5 DEF RowsAhead, LogShaped
<1> QED BY <1>3, <1>4, <1>6, <1>7, <1>8

LEMMA FailoverEntry ==
  ASSUME EntryInv, Failover, incs \in Nat
  PROVE  EntryInv'
<1> SUFFICES ASSUME path = "replication" PROVE EntryInv'
  BY DEF EntryInv, Failover
<1> USE DEF EntryInv
<1>1. PICK n \in 0 .. Len(wal) : /\ wal' = SubSeq(wal, 1, n)
                                /\ tail' = Min({tail, n}) /\ high' = Min({tail, n})
  BY DEF Failover
<1>2. /\ timeline' = timeline + 1 /\ conn' = FALSE
      /\ UNCHANGED <<commits, path, liveId, reg, ent, incs, tick, sess>>
  BY DEF Failover, engVars
<1>3. /\ wal \in Seq(Item) /\ tail \in Nat /\ timeline \in Nat \ {0} /\ commits \in Nat
  BY DEF LogShaped
<1>4. wal' \in Seq(Item) /\ Len(wal') = n /\ n \in Nat
  BY <1>1, <1>3
<1>5. tail' \in Nat /\ high' \in Nat /\ tail' <= n /\ high' <= n
  BY <1>1, <1>3, <1>4, MinOfTwo
<1>6. LogShaped' BY <1>2, <1>3, <1>4, <1>5 DEF LogShaped
<1>7. tick' = NoTick /\ IdentityKnown'
  <2>1. liveId' \in Nat /\ liveId' <= timeline' BY <1>2, <1>3 DEF IdentityKnown
  <2>2. conn' = FALSE BY <1>2
  <2> QED BY <1>2, <2>1, <2>2 DEF IdentityKnown
<1>11. EntriesShaped'
  <2>1. ASSUME NEW i \in Incs
        PROVE  ent[i].tl \in Nat /\ ent[i].tl <= timeline'
    BY <1>2, <1>3 DEF EntriesShaped
  <2> QED BY <1>2, <2>1 DEF EntriesShaped, IsRows
<1>8. EntryCurrent' BY <1>2, <1>3 DEF EntryCurrent, IdentityKnown
<1>9. SeedsTrue' BY <1>2, <1>3 DEF SeedsTrue, IsRows
<1>10. RowsAhead'
  BY <1>2, <1>3, SeedingsAssumption DEF RowsAhead, EntriesShaped, Incs
<1> QED BY <1>2, <1>6, <1>7, <1>8, <1>9, <1>10, <1>11

LEMMA ConnectsEntry ==
  ASSUME EntryInv, SessionsShaped, SourceConnects, incs \in Nat
  PROVE  EntryInv'
<1> SUFFICES ASSUME path = "replication" PROVE EntryInv'
  BY DEF SourceConnects
<1> USE DEF EntryInv
<1>1. /\ conn' = TRUE /\ liveId' = timeline
      /\ UNCHANGED <<wal, timeline, commits, high, path, ent, incs, tick>>
  BY DEF SourceConnects, dbVars, RevealIdentity
<1>2. tail' \in Nat /\ tail' <= tail
  BY DEF SourceConnects, LogShaped
<1>3. ReadsKept /\ reg' \in {reg, 0} /\ (reg' # 0 => reg' = reg /\ liveId \in {0, timeline})
  <2>1. CASE liveId # 0 /\ liveId # timeline
    BY <2>1, DropReadsKept DEF SourceConnects, RevealIdentity, DropShape
  <2>2. CASE ~(liveId # 0 /\ liveId # timeline)
    BY <2>2 DEF SourceConnects, RevealIdentity, ReadsKept
  <2> QED BY <2>1, <2>2
<1>4. tick' = NoTick /\ LogShaped' /\ IdentityKnown'
  BY <1>1, <1>2 DEF LogShaped, IdentityKnown
<1>5. EntriesShaped' BY <1>1, <1>3 DEF EntriesShaped, IsRows
<1>6. SeedsTrue' BY <1>1, <1>3 DEF SeedsTrue, ReadsKept, IsRows
<1>7. EntryCurrent' BY <1>1, <1>3 DEF EntryCurrent, LogShaped
<1>8. RowsAhead'
  <2> SUFFICES ASSUME reg' # 0, ent'[reg'].clean, ent'[reg'].tl = timeline', NEW k \in Keys
               PROVE  \E m \in tail' .. Len(wal') :
                        (m <= high' \/ m <= ent'[reg'].pos) /\ ent'[reg'].rows[k] = Table(wal', m)[k]
    BY DEF RowsAhead
  <2>1. PICK m \in tail .. Len(wal) :
          (m <= high \/ m <= ent[reg].pos) /\ ent[reg].rows[k] = Table(wal, m)[k]
    BY <1>1, <1>3 DEF RowsAhead
  <2>2. m \in tail' .. Len(wal') BY <1>1, <1>2 DEF LogShaped
  <2> QED BY <1>1, <1>3, <2>1, <2>2
<1> QED BY <1>1, <1>4, <1>5, <1>6, <1>7, <1>8

(* A change that is applied: each row of the entry keeps a place ahead of the *)
(* feed, the written row the one just delivered.                              *)
LEMMA AppliedEntry ==
  ASSUME EntryInv, SessionsShaped, incs \in Nat, path = "replication", conn, tail < Len(wal),
         tail' = tail + 1, high' = Max({high, tail + 1}), Applied(wal[tail + 1]), reg # 0,
         UNCHANGED <<dbVars, conn, path, liveId, incs, tick>>
  PROVE  EntryInv'
<1> DEFINE change == wal[tail + 1]
           frames == <<ChangeFrame(change, At(srcId, change.lsn))>>
           e == [ent[reg] EXCEPT !.rows = SetRow(@, change)]
<1> USE DEF EntryInv, dbVars
<1>1. /\ sess' = Fan(reg, frames) /\ reg' = StillRegistered(Fan(reg, frames), reg)
      /\ \E e2 \in Recorded(e, srcId, change) : ent' = [ent EXCEPT ![reg] = e2]
  BY DEF Applied
<1>2. PICK e2 \in Recorded(e, srcId, change) : ent' = [ent EXCEPT ![reg] = e2]
  BY <1>1
<1>3. reg' \in {reg, 0} BY <1>1 DEF StillRegistered
<1>4. ReadsKept
  <2> HIDE DEF frames
  <2> QED BY <1>1, FanFollows, FollowedReadsKept
<1>5. change.key \in Keys
  <2>1. wal \in Seq(Item) /\ tail \in Nat BY DEF LogShaped
  <2>2. wal[tail + 1] \in Item
    BY <2>1
  <2> QED BY <2>2 DEF Item
<1>6. reg \in Incs /\ DOMAIN ent = Incs /\ DOMAIN ent[reg] = EntryFields /\ IsRows(ent[reg].rows)
  BY SeedingsAssumption DEF EntriesShaped, Incs
<1>7. /\ DOMAIN e = EntryFields /\ e.rows = SetRow(ent[reg].rows, change)
      /\ e.pos = ent[reg].pos /\ e.tl = ent[reg].tl
      /\ e.clean = ent[reg].clean /\ e.known = ent[reg].known
  BY <1>6 DEF EntryFields, FreshEntry
<1>8. /\ DOMAIN e2 = EntryFields /\ e2.rows = e.rows /\ e2.pos = e.pos /\ e2.tl = e.tl
      /\ e2.clean = e.clean /\ e2.known = e.known
  <2> HIDE DEF e, change
  <2> QED BY <1>7 DEF Recorded, EntryFields, FreshEntry
<1>9. /\ IsRows(e2.rows)
      /\ \A k \in Keys : e2.rows[k] = IF change.key = k THEN change.val ELSE ent[reg].rows[k]
  <2>1. e2.rows = [ent[reg].rows EXCEPT ![change.key] = change.val]
    BY <1>7, <1>8 DEF SetRow
  <2> DEFINE rows == ent[reg].rows
  <2>2. rows = [k \in Keys |-> rows[k]] BY <1>6 DEF IsRows
  <2> HIDE DEF rows, change, e
  <2> QED BY <1>5, <2>1, <2>2 DEF IsRows, rows
<1>10. /\ ent'[reg] = e2 /\ DOMAIN ent' = Incs
       /\ \A i \in Incs \ {reg} : ent'[i] = ent[i]
  BY <1>2, <1>6
<1> HIDE DEF e
<1>11. tick' = NoTick /\ IdentityKnown' /\ high' = IF high >= tail + 1 THEN high ELSE tail + 1
  BY MaxOfTwo DEF IdentityKnown, LogShaped
<1>12. LogShaped' BY <1>11 DEF LogShaped
<1>13. EntriesShaped'
  <2>1. ASSUME NEW i \in Incs
        PROVE  /\ DOMAIN ent'[i] = EntryFields /\ IsRows(ent'[i].rows)
               /\ ent'[i].pos \in Nat /\ ent'[i].tl \in Nat /\ ent'[i].tl <= timeline
               /\ ent'[i].clean \in BOOLEAN /\ ent'[i].known \in BOOLEAN
    <3>1. CASE i = reg BY <1>7, <1>8, <1>9, <1>10, <3>1 DEF EntriesShaped
    <3>2. CASE i # reg BY <1>10, <3>2 DEF EntriesShaped
    <3> QED BY <3>1, <3>2
  <2>2. reg' \in 0 .. incs' /\ incs' <= MaxIncs
    BY <1>3 DEF EntriesShaped
  <2> QED BY <1>10, <2>1, <2>2 DEF EntriesShaped, IsRows
<1>14. SeedsTrue' BY <1>4 DEF SeedsTrue, ReadsKept, IsRows
<1>15. EntryCurrent' BY <1>3, <1>7, <1>8, <1>10 DEF EntryCurrent
<1>16. RowsAhead'
  <2> SUFFICES ASSUME reg' # 0, ent'[reg'].clean, ent'[reg'].tl = timeline', NEW k \in Keys
               PROVE  \E m \in tail' .. Len(wal') :
                        (m <= high' \/ m <= ent'[reg'].pos) /\ ent'[reg'].rows[k] = Table(wal', m)[k]
    BY DEF RowsAhead
  <2>1. ent'[reg'] = e2 /\ wal' = wal BY <1>3, <1>10
  <2>2. PICK m \in tail .. Len(wal) :
          (m <= high \/ m <= ent[reg].pos) /\ ent[reg].rows[k] = Table(wal, m)[k]
    BY <1>7, <1>8, <2>1 DEF RowsAhead
  <2>3. Table(wal, tail + 1)[k] = IF change.key = k THEN change.val ELSE Table(wal, tail)[k]
    <3>1. tail \in Nat BY DEF LogShaped
    <3>2. ASSUME NEW next, next = tail + 1
          PROVE  /\ wal[next].key = k => Table(wal, next)[k] = wal[next].val
                 /\ wal[next].key # k => Table(wal, next)[k] = Table(wal, tail)[k]
      BY <3>1, <3>2, TableNext
    <3> QED BY <3>2
  <2>4. tail + 1 \in tail' .. Len(wal') /\ tail + 1 <= high' /\ high <= high' /\ m \in Nat
    BY <1>11 DEF LogShaped
  <2> HIDE DEF change
  <2>5. CASE change.key = k \/ m = tail
    <3>1. e2.rows[k] = Table(wal, tail + 1)[k]
      BY <1>9, <2>2, <2>3, <2>5
    <3> QED BY <2>1, <2>4, <3>1
  <2>6. CASE change.key # k /\ m # tail
    <3>1. m \in tail' .. Len(wal') /\ (m <= high' \/ m <= e2.pos)
      BY <1>7, <1>8, <1>11, <2>1, <2>2, <2>6 DEF LogShaped
    <3>2. e2.rows[k] = Table(wal, m)[k]
      BY <1>9, <2>2, <2>6
    <3> QED BY <2>1, <3>1, <3>2
  <2> QED BY <2>5, <2>6
<1> QED BY <1>11, <1>12, <1>13, <1>14, <1>15, <1>16

(* A change that is not applied: no shape is in the map afterwards. *)
LEMMA PassedEntry ==
  ASSUME EntryInv, incs \in Nat, path = "replication", tail < Len(wal),
         tail' = tail + 1, high' = Max({high, tail + 1}), ReadsKept, reg' = 0,
         UNCHANGED <<dbVars, conn, path, liveId, incs, tick, ent>>
  PROVE  EntryInv'
<1> USE DEF EntryInv, dbVars
<1>1. tick' = NoTick /\ IdentityKnown' /\ high' = IF high >= tail + 1 THEN high ELSE tail + 1
  BY MaxOfTwo DEF IdentityKnown, LogShaped
<1>2. LogShaped' BY <1>1 DEF LogShaped
<1>3. EntriesShaped' BY DEF EntriesShaped, IsRows
<1>4. SeedsTrue' BY DEF SeedsTrue, ReadsKept, IsRows
<1>5. EntryCurrent' /\ RowsAhead' BY DEF EntryCurrent, RowsAhead
<1> QED BY <1>1, <1>2, <1>3, <1>4, <1>5

LEMMA DeliversEntry ==
  ASSUME EntryInv, SessionsShaped, SourceDelivers, incs \in Nat
  PROVE  EntryInv'
<1>1. /\ path = "replication" /\ conn /\ tail < Len(wal)
      /\ tail' = tail + 1 /\ high' = Max({high, tail + 1})
      /\ UNCHANGED <<dbVars, conn, path, liveId, incs, tick>>
  BY DEF SourceDelivers, dbVars
<1>2. CASE Refused(wal[tail + 1])
  BY <1>1, <1>2, DropReadsKept, PassedEntry DEF Refused, DropShape
<1>3. CASE Applied(wal[tail + 1]) /\ reg # 0
  BY <1>1, <1>3, AppliedEntry
<1>4. CASE Applied(wal[tail + 1]) /\ reg = 0
  BY <1>1, <1>4, PassedEntry DEF Applied, ReadsKept
<1> QED BY <1>2, <1>3, <1>4 DEF SourceDelivers

LEMMA SeedReadsEntry ==
  ASSUME EntryInv, SessionsShaped, NEW s \in Sessions, SeedReads(s), incs \in Nat
  PROVE  EntryInv'
<1> SUFFICES ASSUME path = "replication" PROVE EntryInv'
  BY DEF EntryInv, SeedReads
<1> USE DEF EntryInv
<1> DEFINE y == [sess[s] EXCEPT !.st = "read", !.seed = DbRows, !.pos = Len(wal), !.tl = timeline]
<1>1. /\ sess' = [sess EXCEPT ![s] = y]
      /\ UNCHANGED <<wal, timeline, commits, conn, tail, high, path, liveId, reg, ent, incs, tick>>
  BY DEF SeedReads, dbVars, srcVars, engVars
<1>2. y.seed = Table(wal, Len(wal)) /\ y.pos = Len(wal) /\ y.tl = timeline
  BY RowsAtIsTable DEF DbRows, SessionsShaped, IsSession, SessionFields, FreeSession
<1>3. /\ sess'[s].seed = Table(wal, Len(wal)) /\ sess'[s].pos = Len(wal) /\ sess'[s].tl = timeline
      /\ \A r \in Sessions \ {s} : sess'[r] = sess[r]
  <2> HIDE DEF y
  <2> QED BY <1>1, <1>2 DEF SessionsShaped
<1>4. tick' = NoTick /\ LogShaped' BY <1>1 DEF LogShaped
<1>5. IdentityKnown' BY <1>1 DEF IdentityKnown
<1>6. EntriesShaped' BY <1>1 DEF EntriesShaped, IsRows
<1>7. EntryCurrent' /\ RowsAhead' BY <1>1 DEF EntryCurrent, RowsAhead
<1>8. IsRows(Table(wal, Len(wal))) /\ Len(wal) \in Nat /\ timeline \in Nat
  BY DEF IsRows, Table, LogShaped
<1>9. SeedsTrue'
  <2>1. ASSUME NEW r \in Sessions, sess'[r].st = "read"
        PROVE  /\ sess'[r].tl \in Nat /\ sess'[r].tl <= timeline /\ sess'[r].pos \in Nat
               /\ IsRows(sess'[r].seed)
               /\ sess'[r].tl = timeline =>
                    sess'[r].pos <= Len(wal) /\ sess'[r].seed = Table(wal, sess'[r].pos)
    <3>1. CASE r = s BY <1>3, <1>8, <3>1
    <3>2. CASE r # s BY <1>3, <2>1, <3>2 DEF SeedsTrue
    <3> QED BY <3>1, <3>2
  <2> QED BY <1>1, <2>1 DEF SeedsTrue, IsRows
<1> QED BY <1>1, <1>4, <1>5, <1>6, <1>7, <1>9

LEMMA SeedLandsEntry ==
  ASSUME EntryInv, SessionsShaped, NEW s \in Sessions, SeedLands(s), incs \in Nat
  PROVE  EntryInv'
<1> SUFFICES ASSUME path = "replication" PROVE EntryInv'
  BY DEF EntryInv, SeedLands
<1> USE DEF EntryInv
<1> DEFINE x == sess[s]
           i == incs + 1
           e == [FreshEntry EXCEPT !.rows = x.seed, !.pos = x.pos, !.tl = x.tl,
                                   !.clean = x.tl = timeline /\ tail <= x.pos, !.known = liveId # 0]
<1>1. /\ x.st = "read" /\ incs < MaxIncs /\ incs' = i /\ reg' = i
      /\ ent' = [ent EXCEPT ![i] = e]
      /\ sess' = [sess EXCEPT ![s] = Subscribed(x, i, e)]
      /\ UNCHANGED <<wal, timeline, commits, conn, tail, high, path, liveId, tick>>
  BY DEF SeedLands, dbVars, srcVars
<1>2. /\ DOMAIN e = EntryFields /\ e.rows = x.seed /\ e.pos = x.pos /\ e.tl = x.tl
      /\ e.clean = (x.tl = timeline /\ tail <= x.pos) /\ e.known = (liveId # 0)
  BY DEF EntryFields, FreshEntry
<1>3. /\ x.tl \in Nat /\ x.tl <= timeline /\ x.pos \in Nat /\ IsRows(x.seed)
      /\ x.tl = timeline => x.pos <= Len(wal) /\ x.seed = Table(wal, x.pos)
  BY <1>1 DEF SeedsTrue
<1> HIDE DEF e
<1>4. ReadsKept
  <2>1. Subscribed(x, i, e).st # "read" BY SubscribedAttends DEF SessionsShaped
  <2> QED BY <1>1, <2>1, OneReadsKept
<1>5. i \in Incs /\ i \in Nat \ {0} BY <1>1, SeedingsAssumption DEF Incs
<1>6. /\ ent'[i] = e /\ DOMAIN ent' = Incs
      /\ \A j \in Incs \ {i} : ent'[j] = ent[j]
  BY <1>1, <1>5 DEF EntriesShaped
<1> HIDE DEF x, i
<1>7. tick' = NoTick /\ LogShaped' BY <1>1 DEF LogShaped
<1>8. IdentityKnown' BY <1>1 DEF IdentityKnown
<1>9. SeedsTrue' BY <1>1, <1>4 DEF SeedsTrue, ReadsKept, IsRows
<1>10. EntriesShaped'
  <2>1. ASSUME NEW j \in Incs
        PROVE  /\ DOMAIN ent'[j] = EntryFields /\ IsRows(ent'[j].rows)
               /\ ent'[j].pos \in Nat /\ ent'[j].tl \in Nat /\ ent'[j].tl <= timeline
               /\ ent'[j].clean \in BOOLEAN /\ ent'[j].known \in BOOLEAN
    <3>1. CASE j = i BY <1>2, <1>3, <1>6, <3>1
    <3>2. CASE j # i BY <1>6, <3>2 DEF EntriesShaped
    <3> QED BY <3>1, <3>2
  <2>2. reg' \in 0 .. incs' /\ incs' <= MaxIncs
    BY <1>1, <1>5, SeedingsAssumption DEF i
  <2> QED BY <1>1, <1>6, <2>1, <2>2 DEF EntriesShaped, IsRows
<1>11. EntryCurrent'
  BY <1>1, <1>2, <1>6 DEF EntryCurrent
<1>12. RowsAhead'
  <2> SUFFICES ASSUME e.clean, NEW k \in Keys
               PROVE  \E m \in tail .. Len(wal) :
                        (m <= high \/ m <= e.pos) /\ e.rows[k] = Table(wal, m)[k]
    BY <1>1, <1>6 DEF RowsAhead
  <2>0. x.tl = timeline /\ tail <= x.pos BY <1>2
  <2>1. x.pos \in tail .. Len(wal) /\ x.seed = Table(wal, x.pos)
    BY <1>3, <2>0 DEF LogShaped
  <2> QED BY <1>2, <2>1, <1>3
<1> QED BY <1>1, <1>7, <1>8, <1>9, <1>10, <1>11, <1>12

LEMMA EntryInit == Init => EntryInv
<1> SUFFICES ASSUME Init, path = "replication" PROVE EntryInv
  BY DEF EntryInv
<1>1. tick = NoTick /\ EntryCurrent /\ RowsAhead
  BY DEF Init, EntryCurrent, RowsAhead
<1>4. LogShaped BY EmptySeq DEF Init, LogShaped
<1>5. IdentityKnown
  <2>1. liveId \in Nat /\ liveId <= timeline BY DEF Init
  <2>2. conn = FALSE BY DEF Init
  <2> QED BY <2>1, <2>2 DEF IdentityKnown
<1>2. EntriesShaped
  <2>1. /\ DOMAIN FreshEntry = EntryFields /\ FreshEntry.rows = NoRows
        /\ FreshEntry.pos = 0 /\ FreshEntry.tl = 0
        /\ FreshEntry.clean \in BOOLEAN /\ FreshEntry.known \in BOOLEAN
    BY DEF EntryFields, FreshEntry
  <2>2. IsRows(NoRows) BY DEF IsRows, NoRows
  <2>3. /\ reg = 0 /\ incs = 0 /\ timeline = 1
        /\ DOMAIN ent = Incs /\ \A i \in Incs : ent[i] = FreshEntry
    BY DEF Init
  <2>4. reg \in 0 .. incs /\ incs <= MaxIncs BY <2>3, SeedingsAssumption
  <2> QED BY <2>1, <2>2, <2>3, <2>4 DEF EntriesShaped
<1>3. SeedsTrue
  BY FreeIsSession DEF Init, SeedsTrue
<1> QED BY <1>1, <1>2, <1>3, <1>4, <1>5 DEF EntryInv

LEMMA EntryStep == TailedInv /\ EntryInv /\ [Next]_vars => EntryInv'
<1> SUFFICES ASSUME TailedInv, EntryInv, [Next]_vars PROVE EntryInv'
  OBVIOUS
<1>0. /\ SessionsShaped /\ incs \in Nat
      /\ \A s \in Sessions : IsSession(sess[s])
  BY DEF TailedInv, SessionsShaped
<1>1. CASE SourceConnects BY <1>0, <1>1, ConnectsEntry
<1>2. CASE SourceDelivers BY <1>0, <1>2, DeliversEntry
<1>3. CASE Commit BY <1>0, <1>3, CommitEntry
<1>4. CASE Failover BY <1>0, <1>4, FailoverEntry
<1>5. CASE PollReads \/ PollLands \/ PollFaults
  BY <1>5 DEF PollReads, PollLands, PollFaults, EntryInv
<1>6. ASSUME NEW s \in Sessions, SeedReads(s) PROVE EntryInv'
  BY <1>0, <1>6, SeedReadsEntry
<1>7. ASSUME NEW s \in Sessions, SeedLands(s) PROVE EntryInv'
  BY <1>0, <1>7, SeedLandsEntry
<1>8. CASE /\ ReadsKept
           /\ UNCHANGED <<dbVars, tail, high, path, liveId, ent, incs, tick>>
           /\ conn' = conn \/ conn' = FALSE
           /\ reg' \in {reg, 0}
  BY <1>0, <1>8, QuietEntry
<1>9. CASE \/ UNCHANGED vars \/ SourceDrops
           \/ \E c \in Clients : Disconnect(c) \/ Reload(c) \/ WriteLands(c)
  <2>1. UNCHANGED <<sess, reg>>
    BY <1>9 DEF vars, engVars, SourceDrops, Disconnect, Reload, WriteLands
  <2>2. UNCHANGED <<dbVars, tail, high, path, liveId, ent, incs, tick>> /\ (conn' = conn \/ conn' = FALSE)
    BY <1>9 DEF vars, srcVars, engVars, SourceDrops, Disconnect, Reload, WriteLands
  <2>3. ReadsKept BY <2>1 DEF ReadsKept
  <2> QED BY <1>8, <2>1, <2>2, <2>3
<1>10. ASSUME NEW s, NEW y, sess' = [sess EXCEPT ![s] = y], y.st # "read",
              UNCHANGED <<dbVars, tail, high, path, liveId, ent, incs, tick, conn>>,
              reg' \in {reg, 0}
       PROVE  EntryInv'
  BY <1>0, <1>8, <1>10, OneReadsKept
<1>11. ASSUME NEW c \in Clients, NEW s \in Sessions, Connect(c, s) PROVE EntryInv'
  <2>1. UNCHANGED <<dbVars, tail, high, path, liveId, ent, incs, tick, conn, reg>>
    BY <1>11 DEF Connect, srcVars, engVars
  <2>2. CASE reg # 0
    <3>1. Subscribed(Opened(c), reg, ent[reg]).st # "read"
      BY OpenedIsSession, SubscribedAttends
    <3> QED BY <1>10, <1>11, <2>1, <2>2, <3>1 DEF Connect
  <2>3. CASE reg = 0
    <3>1. [Opened(c) EXCEPT !.st = "probe"].st # "read"
      BY DEF Opened, FreeSession
    <3> QED BY <1>10, <1>11, <2>1, <2>3, <3>1 DEF Connect
  <2> QED BY <2>2, <2>3
<1>12. ASSUME NEW s \in Sessions, SubscribeFails(s) PROVE EntryInv'
  <2>1. UNCHANGED <<dbVars, tail, high, path, liveId, ent, incs, tick, conn, reg>>
    BY <1>12 DEF SubscribeFails, srcVars, engVars
  <2> QED BY <1>10, <1>12, <2>1, FreeIsSession DEF SubscribeFails
<1>13. ASSUME NEW s \in Sessions, Attach(s) PROVE EntryInv'
  <2>1. UNCHANGED <<dbVars, tail, high, path, liveId, ent, incs, tick, conn>>
    BY <1>13 DEF Attach, srcVars
  <2>2. Attached(sess[s]).st # "read"
    BY <1>0, <1>13, AttachedFollows DEF Attach
  <2>3. reg' \in {reg, 0} BY <1>13 DEF Attach, Unsubscribed
  <2> QED BY <1>10, <1>13, <2>1, <2>2, <2>3 DEF Attach
<1>14. ASSUME NEW s \in Sessions, Teardown(s) PROVE EntryInv'
  <2>1. UNCHANGED <<dbVars, tail, high, path, liveId, ent, incs, tick, conn>> /\ reg' \in {reg, 0}
    BY <1>14 DEF Teardown, srcVars, Unsubscribed
  <2> QED BY <1>10, <1>14, <2>1, FreeIsSession DEF Teardown
<1>15. ASSUME NEW s \in Sessions, Expire(s) PROVE EntryInv'
  <2> DEFINE y == [sess[s] EXCEPT !.closed = TRUE, !.sub = 0]
  <2>1. UNCHANGED <<dbVars, tail, high, path, liveId, ent, incs, tick, conn>> /\ reg' \in {reg, 0}
    BY <1>15 DEF Expire, srcVars, Unsubscribed
  <2>2. y.st # "read"
    BY <1>0, <1>15 DEF Expire, IsSession, SessionFields, FreeSession
  <2>3. sess' = [sess EXCEPT ![s] = y] BY <1>0, <1>15 DEF Expire, SessionsShaped
  <2> HIDE DEF y
  <2> QED BY <1>10, <2>1, <2>2, <2>3
<1>16. ASSUME NEW s \in Sessions, Revoke(s) PROVE EntryInv'
  <2>1. UNCHANGED <<dbVars, tail, high, path, liveId, ent, incs, tick, conn>> /\ reg' \in {reg, 0}
    BY <1>16 DEF Revoke, srcVars, Unsubscribed
  <2>2. Purged(sess[s]).st # "read"
    BY <1>0, <1>16, PurgedFollows DEF Revoke, Follows
  <2> QED BY <1>10, <1>16, <2>1, <2>2 DEF Revoke
<1>17. ASSUME NEW c \in Clients, Receive(c) PROVE EntryInv'
  <2> DEFINE s == cur[c]
             y == [sess[s] EXCEPT !.q = Tail(@)]
  <2>1. UNCHANGED <<dbVars, tail, high, path, liveId, ent, incs, tick, conn, reg>>
    BY <1>17 DEF Receive, srcVars, engVars
  <2>2. CASE s \in Sessions
    <3>1. y.st # "read"
      BY <1>0, <1>17, <2>2 DEF Receive, IsSession, SessionFields, FreeSession
    <3>2. sess' = [sess EXCEPT ![s] = y] BY <1>0, <1>17, <2>2 DEF Receive, SessionsShaped
    <3> HIDE DEF y, s
    <3> QED BY <1>10, <2>1, <3>1, <3>2
  <2>3. CASE s \notin Sessions
    <3>1. \A r \in Sessions : sess'[r] = sess[r]
      BY <1>0, <1>17, <2>3 DEF Receive, SessionsShaped
    <3>2. ReadsKept BY <3>1 DEF ReadsKept
    <3> QED BY <1>8, <2>1, <3>2
  <2> QED BY <2>2, <2>3
<1>18. ASSUME NEW c \in Clients, StreamEnds(c) PROVE EntryInv'
  <2>1. UNCHANGED <<dbVars, tail, high, path, liveId, ent, incs, tick, conn, reg>>
    BY <1>18 DEF StreamEnds, srcVars, engVars
  <2> QED BY <1>10, <1>18, <2>1, FreeIsSession DEF StreamEnds
<1> QED
  BY <1>1, <1>2, <1>3, <1>4, <1>5, <1>6, <1>7, <1>9, <1>11, <1>12, <1>13, <1>14, <1>15, <1>16, <1>17, <1>18
  DEF Next, Progress, Disturbance, SessionStep, ClientStep

(* On the replication path the entry in the map is the table as the log has   *)
(* it, as far as the feed has delivered it (engine.ts, onSourceChange): a     *)
(* redelivered commit, a reconnect, a failover or a refused change never      *)
(* leaves it behind or ahead in silence, outside the two known windows of the *)
(* seeding.                                                                   *)
THEOREM EntryIsTruthful == Spec => []EntryTruthful
<1>1. TailedInv /\ EntryInv => EntryTruthful
  <2> SUFFICES ASSUME incs \in Nat, EntryInv, path = "replication", reg # 0, conn,
                      Sound(ent[reg]), tail = high, tail >= ent[reg].pos
               PROVE  ent[reg].rows = RowsAt(tail)
    BY DEF EntryTruthful, TailedInv
  <2> USE DEF EntryInv
  <2>1. ent[reg].clean /\ ent[reg].tl = timeline
    BY DEF Sound, EntryCurrent, IdentityKnown
  <2>2. ASSUME NEW k \in Keys
        PROVE  ent[reg].rows[k] = Table(wal, tail)[k]
    <3>1. PICK m \in tail .. Len(wal) :
            (m <= high \/ m <= ent[reg].pos) /\ ent[reg].rows[k] = Table(wal, m)[k]
      BY <2>1 DEF RowsAhead
    <3>2. reg \in Incs /\ ent[reg].pos \in Nat
      BY SeedingsAssumption DEF EntriesShaped, Incs
    <3>3. m = tail BY <3>1, <3>2 DEF LogShaped
    <3> QED BY <3>1, <3>3
  <2>3. IsRows(ent[reg].rows)
    BY SeedingsAssumption DEF EntriesShaped, Incs
  <2>4. IsRows(Table(wal, tail))
    BY DEF IsRows, Table
  <2> QED BY <2>2, <2>3, <2>4, RowsAtIsTable DEF IsRows
<1> QED BY <1>1, TailedInit, TailedStep, EntryInit, EntryStep, PTL DEF Spec

-----------------------------------------------------------------------------
(***************************************************************************)
(* A resume is exact: the argument                                         *)
(*                                                                         *)
(* A store is good when its rows differ from those of the entry it came    *)
(* from only where the ring, from the store's cursor on, will tell.  Good  *)
(* is not only the mirror of a client but the durable tier, and every      *)
(* store that the writes not yet run, or the frames not yet read, will     *)
(* make of it on the way: a reload or a break may stop at any of them.     *)
(***************************************************************************)

-----------------------------------------------------------------------------
(* What the frames under way make of a store *)

(* The rows, after the first n frames of F. *)
SetBy(F, n, k) == {i \in 1 .. n : Sets(F[i], k)}
Over(rows, F, n) ==
  [k \in Keys |-> IF SetBy(F, n, k) = {} THEN rows[k] ELSE Written(F[Max(SetBy(F, n, k))], k)]

(* The seeding they go back to: 0 after a resync. *)
ResetBy(F, n) == {i \in 1 .. n : F[i].kind # "change"}
OriginOf(frame) == IF frame.kind = "snapshot" THEN frame.inc ELSE 0
OriginAt(v, F, n) == IF ResetBy(F, n) = {} THEN v.origin ELSE OriginOf(F[Max(ResetBy(F, n))])

CursorAt(v, F, n) ==
  IF n = 0 THEN v.cursor ELSE IF F[n].kind = "resync" THEN Undefined ELSE F[n].cursor

(* The store after the first n frames of F. *)
StoreAt(v, F, n) ==
  [rows |-> Over(v.rows, F, n), cursor |-> CursorAt(v, F, n), origin |-> OriginAt(v, F, n)]

Rows == [Keys -> Nat]
Cursor == [id : Nat, lsn : Nat]
Frame ==
  [kind : {"snapshot"}, rows : Rows, cursor : Cursor \ {Undefined}, inc : Nat \ {0}]
    \cup [kind : {"change"}, key : Keys, val : Nat, cursor : Cursor \ {Undefined}]
    \cup {Resync}
Stores == [rows : Rows, cursor : Cursor, origin : Nat]

(* A set of numbers that is not empty has a least member. *)
LEMMA FirstOf ==
  ASSUME NEW T \in SUBSET Nat, T # {}
  PROVE  \E x \in T : \A y \in T : x <= y
<1>1. PICK x \in T : \A y \in T : ~(<<y, x>> \in OpToRel(<, Nat))
  BY NatLessThanWellFounded, WFMin
<1>2. \A y \in T : ~(y < x)
  BY <1>1 DEF OpToRel
<1> QED BY <1>2

(* A set of numbers with a bound has a greatest member. *)
LEMMA LastOf ==
  ASSUME NEW n \in Nat, NEW T \in SUBSET (1 .. n), T # {}
  PROVE  Max(T) \in T /\ \A y \in T : y <= Max(T)
<1> DEFINE U == {m \in Nat : n - m \in T}
<1>1. \A y \in T : n - y \in U
  <2> TAKE y \in T
  <2>1. y \in 1 .. n /\ n - y \in Nat /\ n - (n - y) = y OBVIOUS
  <2> QED BY <2>1
<1>2. U \in SUBSET Nat /\ U # {} BY <1>1
<1>3. PICK u \in U : \A y \in U : u <= y BY <1>2, FirstOf
<1>4. n - u \in T /\ u \in Nat BY <1>3
<1> HIDE DEF U
<1>5. \A y \in T : n - u >= y
  <2> TAKE y \in T
  <2>1. u <= n - y /\ y \in Nat BY <1>1, <1>3
  <2> QED BY <1>4, <2>1
<1>6. Max(T) \in T /\ \A y \in T : Max(T) >= y BY <1>4, <1>5 DEF Max
<1> QED BY <1>6

(* What Max chooses of such a set. *)
LEMMA MaxIs ==
  ASSUME NEW T \in SUBSET Nat, NEW m \in T, \A y \in T : y <= m
  PROVE  Max(T) = m
<1>1. \A y \in T : m >= y OBVIOUS
<1>2. Max(T) \in T /\ \A y \in T : Max(T) >= y BY <1>1 DEF Max
<1>3. Max(T) >= m /\ Max(T) <= m /\ Max(T) \in Nat /\ m \in Nat BY <1>2
<1> QED BY <1>3

(* A row is what the last frame that sets it says. *)
LEMMA OverIs ==
  ASSUME NEW rows, NEW F, NEW n \in Nat, NEW k \in Keys
  PROVE  /\ (\A i \in 1 .. n : ~Sets(F[i], k)) => Over(rows, F, n)[k] = rows[k]
         /\ \A i \in 1 .. n :
              Sets(F[i], k) /\ (\A j \in i + 1 .. n : ~Sets(F[j], k))
                => Over(rows, F, n)[k] = Written(F[i], k)
         /\ \/ \A i \in 1 .. n : ~Sets(F[i], k)
            \/ \E i \in 1 .. n : Sets(F[i], k) /\ \A j \in i + 1 .. n : ~Sets(F[j], k)
<1> DEFINE S == SetBy(F, n, k)
<1>1. S \in SUBSET (1 .. n) /\ S \in SUBSET Nat /\ \A i \in 1 .. n : i \in S <=> Sets(F[i], k)
  BY DEF SetBy
<1>2. Over(rows, F, n)[k] = IF S = {} THEN rows[k] ELSE Written(F[Max(S)], k)
  BY DEF Over
<1> HIDE DEF S
<1>3. (\A i \in 1 .. n : ~Sets(F[i], k)) => Over(rows, F, n)[k] = rows[k]
  BY <1>1, <1>2
<1>4. ASSUME NEW i \in 1 .. n, Sets(F[i], k), \A j \in i + 1 .. n : ~Sets(F[j], k)
      PROVE  Over(rows, F, n)[k] = Written(F[i], k)
  <2>1. i \in S /\ \A y \in S : y <= i BY <1>1, <1>4
  <2>2. Max(S) = i BY <1>1, <2>1, MaxIs
  <2> QED BY <1>2, <2>1, <2>2
<1>5. \/ \A i \in 1 .. n : ~Sets(F[i], k)
      \/ \E i \in 1 .. n : Sets(F[i], k) /\ \A j \in i + 1 .. n : ~Sets(F[j], k)
  <2>1. CASE S = {} BY <1>1, <2>1
  <2>2. CASE S # {}
    <3>1. Max(S) \in S /\ \A y \in S : y <= Max(S) BY <1>1, <2>2, LastOf
    <3>2. ASSUME NEW m, m = Max(S)
          PROVE  \E i \in 1 .. n : Sets(F[i], k) /\ \A j \in i + 1 .. n : ~Sets(F[j], k)
      <4>1. m \in 1 .. n /\ Sets(F[m], k) BY <1>1, <3>1, <3>2
      <4>2. ASSUME NEW j \in m + 1 .. n PROVE ~Sets(F[j], k)
        <5>1. j \in 1 .. n /\ ~(j <= m) BY <4>1
        <5> QED BY <1>1, <3>1, <3>2, <5>1
      <4> QED BY <4>1, <4>2
    <3> QED BY <3>2
  <2> QED BY <2>1, <2>2
<1> QED BY <1>3, <1>4, <1>5

(* The origin is what the last frame that resets the store says. *)
LEMMA OriginIs ==
  ASSUME NEW v, NEW F, NEW n \in Nat
  PROVE  /\ (\A i \in 1 .. n : F[i].kind = "change") => OriginAt(v, F, n) = v.origin
         /\ \A i \in 1 .. n :
              F[i].kind # "change" /\ (\A j \in i + 1 .. n : F[j].kind = "change")
                => OriginAt(v, F, n) = OriginOf(F[i])
         /\ \/ \A i \in 1 .. n : F[i].kind = "change"
            \/ \E i \in 1 .. n : F[i].kind # "change" /\ \A j \in i + 1 .. n : F[j].kind = "change"
<1> DEFINE S == ResetBy(F, n)
<1>1. S \in SUBSET (1 .. n) /\ S \in SUBSET Nat /\ \A i \in 1 .. n : i \in S <=> F[i].kind # "change"
  BY DEF ResetBy
<1>2. OriginAt(v, F, n) = IF S = {} THEN v.origin ELSE OriginOf(F[Max(S)])
  BY DEF OriginAt
<1> HIDE DEF S
<1>3. (\A i \in 1 .. n : F[i].kind = "change") => OriginAt(v, F, n) = v.origin
  BY <1>1, <1>2
<1>4. ASSUME NEW i \in 1 .. n, F[i].kind # "change", \A j \in i + 1 .. n : F[j].kind = "change"
      PROVE  OriginAt(v, F, n) = OriginOf(F[i])
  <2>1. i \in S /\ \A y \in S : y <= i BY <1>1, <1>4
  <2>2. Max(S) = i BY <1>1, <2>1, MaxIs
  <2> QED BY <1>2, <2>1, <2>2
<1>5. \/ \A i \in 1 .. n : F[i].kind = "change"
      \/ \E i \in 1 .. n : F[i].kind # "change" /\ \A j \in i + 1 .. n : F[j].kind = "change"
  <2>1. CASE S = {} BY <1>1, <2>1
  <2>2. CASE S # {}
    <3>1. Max(S) \in S /\ \A y \in S : y <= Max(S) BY <1>1, <2>2, LastOf
    <3>2. ASSUME NEW m, m = Max(S)
          PROVE  \E i \in 1 .. n : F[i].kind # "change" /\ \A j \in i + 1 .. n : F[j].kind = "change"
      <4>1. m \in 1 .. n /\ F[m].kind # "change" BY <1>1, <3>1, <3>2
      <4>2. ASSUME NEW j \in m + 1 .. n PROVE F[j].kind = "change"
        <5>1. j \in 1 .. n /\ ~(j <= m) BY <4>1
        <5> QED BY <1>1, <3>1, <3>2, <5>1
      <4> QED BY <4>1, <4>2
    <3> QED BY <3>2
  <2> QED BY <2>1, <2>2
<1> QED BY <1>3, <1>4, <1>5

(* One frame more. *)
LEMMA OverLast ==
  ASSUME NEW rows, NEW F, NEW m \in Nat \ {0}, NEW k \in Keys, Sets(F[m], k)
  PROVE  Over(rows, F, m)[k] = Written(F[m], k)
<1>1. m \in 1 .. m /\ \A j \in m + 1 .. m : ~Sets(F[j], k) OBVIOUS
<1> QED BY <1>1, OverIs

(* One more frame is the last word on the rows it sets, and on no other. *)
LEMMA OverNext ==
  ASSUME NEW rows, NEW F, NEW n \in Nat, NEW m, m = n + 1, NEW k \in Keys, ~Sets(F[m], k)
  PROVE  Over(rows, F, m)[k] = Over(rows, F, n)[k]
<1>2. ~Sets(F[m], k) OBVIOUS
<1> QED
  <2>1. CASE \A i \in 1 .. n : ~Sets(F[i], k)
    <3>1. \A i \in 1 .. m : ~Sets(F[i], k)
      <4> TAKE i \in 1 .. m
      <4>1. i = m \/ i \in 1 .. n OBVIOUS
      <4> QED BY <1>2, <2>1, <4>1
    <3>2. m \in Nat OBVIOUS
    <3> QED BY <1>2, <2>1, <3>1, <3>2, OverIs
  <2>2. CASE \E i \in 1 .. n : Sets(F[i], k) /\ \A j \in i + 1 .. n : ~Sets(F[j], k)
    <3>1. PICK i \in 1 .. n : Sets(F[i], k) /\ \A j \in i + 1 .. n : ~Sets(F[j], k) BY <2>2
    <3>2. i \in 1 .. m /\ m \in Nat OBVIOUS
    <3>3. ASSUME NEW j \in i + 1 .. m PROVE ~Sets(F[j], k)
      <4>1. j = m \/ j \in i + 1 .. n OBVIOUS
      <4> QED BY <1>2, <3>1, <4>1
    <3> QED BY <1>2, <3>1, <3>2, <3>3, OverIs
  <2> QED BY <2>1, <2>2, OverIs

(* One more frame: a snapshot or a resync decides the origin, a change does   *)
(* not.                                                                       *)
LEMMA OriginNext ==
  ASSUME NEW v, NEW F, NEW n \in Nat, NEW m, m = n + 1
  PROVE  OriginAt(v, F, m) = IF F[m].kind # "change" THEN OriginOf(F[m]) ELSE OriginAt(v, F, n)
<1>1. CASE F[m].kind # "change"
  <2>1. m \in 1 .. m /\ \A j \in m + 1 .. m : F[j].kind = "change" OBVIOUS
  <2> QED BY <1>1, <2>1, OriginIs
<1>2. CASE F[m].kind = "change"
  <2>1. CASE \A i \in 1 .. n : F[i].kind = "change"
    <3>1. \A i \in 1 .. m : F[i].kind = "change"
      <4> TAKE i \in 1 .. m
      <4>1. i = m \/ i \in 1 .. n OBVIOUS
      <4> QED BY <1>2, <2>1, <4>1
    <3>2. m \in Nat OBVIOUS
    <3> QED BY <1>2, <2>1, <3>1, <3>2, OriginIs
  <2>2. CASE \E i \in 1 .. n : F[i].kind # "change" /\ \A j \in i + 1 .. n : F[j].kind = "change"
    <3>1. PICK i \in 1 .. n : F[i].kind # "change" /\ \A j \in i + 1 .. n : F[j].kind = "change" BY <2>2
    <3>2. i \in 1 .. m /\ m \in Nat OBVIOUS
    <3>3. ASSUME NEW j \in i + 1 .. m PROVE F[j].kind = "change"
      <4>1. j = m \/ j \in i + 1 .. n OBVIOUS
      <4> QED BY <1>2, <3>1, <4>1
    <3> QED BY <1>2, <3>1, <3>2, <3>3, OriginIs
  <2> QED BY <2>1, <2>2, OriginIs
<1> QED BY <1>1, <1>2

(* The first frame, and then the others. *)
LEMMA OverRest ==
  ASSUME NEW rows, NEW base, NEW F, NEW G, NEW n \in Nat, NEW m, m = n + 1, NEW k \in Keys,
         \A i \in 1 .. n : G[i] = F[i + 1],
         Sets(F[1], k) => base[k] = Written(F[1], k), ~Sets(F[1], k) => base[k] = rows[k]
  PROVE  Over(base, G, n)[k] = Over(rows, F, m)[k]
<1>0. m \in Nat /\ 1 \in 1 .. m OBVIOUS
<1>1. CASE \A i \in 1 .. n : ~Sets(G[i], k)
  <2>1. Over(base, G, n)[k] = base[k] BY <1>1, OverIs
  <2>2. \A j \in 1 + 1 .. m : ~Sets(F[j], k)
    <3> TAKE j \in 1 + 1 .. m
    <3>1. PICK i \in 1 .. n : j = i + 1
      <4>1. j - 1 \in 1 .. n /\ j = (j - 1) + 1 OBVIOUS
      <4> QED BY <4>1
    <3> QED BY <1>1, <3>1
  <2>3. CASE Sets(F[1], k) BY <1>0, <2>1, <2>2, <2>3, OverIs
  <2>4. CASE ~Sets(F[1], k)
    <3>1. \A i \in 1 .. m : ~Sets(F[i], k)
      <4> TAKE i \in 1 .. m
      <4>1. i = 1 \/ i \in 1 + 1 .. m OBVIOUS
      <4> QED BY <2>2, <2>4, <4>1
    <3> QED BY <1>0, <2>1, <2>4, <3>1, OverIs
  <2> QED BY <2>3, <2>4
<1>2. CASE \E i \in 1 .. n : Sets(G[i], k) /\ \A j \in i + 1 .. n : ~Sets(G[j], k)
  <2>1. PICK i \in 1 .. n : Sets(G[i], k) /\ \A j \in i + 1 .. n : ~Sets(G[j], k) BY <1>2
  <2>2. PICK h : h = i + 1 OBVIOUS
  <2>3. h \in 1 .. m /\ G[i] = F[h] BY <2>2
  <2>4. ASSUME NEW j \in h + 1 .. m PROVE ~Sets(F[j], k)
    <3>1. PICK g \in i + 1 .. n : j = g + 1
      <4>1. j - 1 \in i + 1 .. n /\ j = (j - 1) + 1 BY <2>2
      <4> QED BY <4>1
    <3>2. g \in 1 .. n BY <3>1
    <3> QED BY <2>1, <3>1, <3>2
  <2>5. Over(base, G, n)[k] = Written(G[i], k) BY <2>1, OverIs
  <2>6. Over(rows, F, m)[k] = Written(F[h], k) BY <1>0, <2>1, <2>3, <2>4, OverIs
  <2> QED BY <2>3, <2>5, <2>6
<1> QED BY <1>1, <1>2, OverIs

(* The origin is the same whether the first frame has been read or not. *)
LEMMA OriginRest ==
  ASSUME NEW v, NEW base, NEW F, NEW G, NEW n \in Nat, NEW m, m = n + 1,
         \A i \in 1 .. n : G[i] = F[i + 1],
         base.origin = IF F[1].kind # "change" THEN OriginOf(F[1]) ELSE v.origin
  PROVE  OriginAt(base, G, n) = OriginAt(v, F, m)
<1>0. m \in Nat /\ 1 \in 1 .. m OBVIOUS
<1>1. CASE \A i \in 1 .. n : G[i].kind = "change"
  <2>1. OriginAt(base, G, n) = base.origin BY <1>1, OriginIs
  <2>2. \A j \in 1 + 1 .. m : F[j].kind = "change"
    <3> TAKE j \in 1 + 1 .. m
    <3>1. PICK i \in 1 .. n : j = i + 1
      <4>1. j - 1 \in 1 .. n /\ j = (j - 1) + 1 OBVIOUS
      <4> QED BY <4>1
    <3> QED BY <1>1, <3>1
  <2>3. CASE F[1].kind # "change" BY <1>0, <2>1, <2>2, <2>3, OriginIs
  <2>4. CASE F[1].kind = "change"
    <3>1. \A i \in 1 .. m : F[i].kind = "change"
      <4> TAKE i \in 1 .. m
      <4>1. i = 1 \/ i \in 1 + 1 .. m OBVIOUS
      <4> QED BY <2>2, <2>4, <4>1
    <3> QED BY <1>0, <2>1, <2>4, <3>1, OriginIs
  <2> QED BY <2>3, <2>4
<1>2. CASE \E i \in 1 .. n : G[i].kind # "change" /\ \A j \in i + 1 .. n : G[j].kind = "change"
  <2>1. PICK i \in 1 .. n : G[i].kind # "change" /\ \A j \in i + 1 .. n : G[j].kind = "change" BY <1>2
  <2>2. PICK h : h = i + 1 OBVIOUS
  <2>3. h \in 1 .. m /\ G[i] = F[h] BY <2>2
  <2>4. ASSUME NEW j \in h + 1 .. m PROVE F[j].kind = "change"
    <3>1. PICK g \in i + 1 .. n : j = g + 1
      <4>1. j - 1 \in i + 1 .. n /\ j = (j - 1) + 1 BY <2>2
      <4> QED BY <4>1
    <3>2. g \in 1 .. n BY <3>1
    <3> QED BY <2>1, <3>1, <3>2
  <2>5. OriginAt(base, G, n) = OriginOf(G[i]) BY <2>1, OriginIs
  <2>6. OriginAt(v, F, m) = OriginOf(F[h]) BY <1>0, <2>1, <2>3, <2>4, OriginIs
  <2> QED BY <2>3, <2>5, <2>6
<1> QED BY <1>1, <1>2, OriginIs

(* The fields of a frame, by its kind. *)
LEMMA FrameCases ==
  ASSUME NEW f \in Frame
  PROVE  /\ f.kind \in {"snapshot", "change", "resync"}
         /\ f.cursor \in Cursor /\ f.cursor # Undefined
         /\ f.kind = "snapshot" => f.rows \in Rows /\ f.inc \in Nat \ {0}
         /\ f.kind = "change" => f.key \in Keys /\ f.val \in Nat
         /\ f.kind = "resync" => f = Resync /\ f.cursor = NonResumable
<1>1. CASE f \in [kind : {"snapshot"}, rows : Rows, cursor : Cursor \ {Undefined}, inc : Nat \ {0}]
  BY <1>1
<1>2. CASE f \in [kind : {"change"}, key : Keys, val : Nat, cursor : Cursor \ {Undefined}]
  BY <1>2
<1>3. CASE f = Resync
  <2>1. f.kind = "resync" /\ f.cursor = NonResumable BY <1>3 DEF Resync
  <2>2. NonResumable \in Cursor /\ NonResumable # Undefined BY DEF NonResumable, Undefined, Cursor
  <2> QED BY <1>3, <2>1, <2>2
<1> QED BY <1>1, <1>2, <1>3 DEF Frame

(* A store nothing was ever written to. *)
LEMMA EmptyStoreTyped ==
  /\ EmptyStore \in Stores /\ EmptyStore.rows = NoRows
  /\ EmptyStore.cursor = Undefined /\ EmptyStore.origin = 0 /\ ~Decodes(Undefined)
BY DEF EmptyStore, Stores, Rows, NoRows, Absent, Undefined, Cursor, Decodes

(* What a frame does to a store. *)
LEMMA StoreIs ==
  ASSUME NEW f \in Frame, NEW v \in Stores
  PROVE  /\ Store(f, v) \in Stores
         /\ \A k \in Keys : Sets(f, k) => Store(f, v).rows[k] = Written(f, k)
         /\ \A k \in Keys : ~Sets(f, k) => Store(f, v).rows[k] = v.rows[k]
         /\ Store(f, v).cursor = IF f.kind = "resync" THEN Undefined ELSE f.cursor
         /\ Store(f, v).origin = IF f.kind # "change" THEN OriginOf(f) ELSE v.origin
<1>0. /\ f.kind \in {"snapshot", "change", "resync"}
      /\ f.cursor \in Cursor
      /\ f.kind = "snapshot" => f.rows \in Rows /\ f.inc \in Nat \ {0}
      /\ f.kind = "change" => f.key \in Keys /\ f.val \in Nat
  BY FrameCases
<1>1. CASE f.kind = "snapshot"
  <2>1. Store(f, v) = [rows |-> f.rows, cursor |-> f.cursor, origin |-> f.inc]
    BY <1>1 DEF Store
  <2> QED BY <1>0, <1>1, <2>1 DEF Stores, Sets, Written, OriginOf
<1>2. CASE f.kind = "change"
  <2>1. Store(f, v) = [v EXCEPT !.rows = SetRow(v.rows, f), !.cursor = f.cursor]
    BY <1>2 DEF Store
  <2>2. v.rows \in Rows /\ v.cursor \in Cursor /\ v.origin \in Nat
    BY DEF Stores
  <2>3. SetRow(v.rows, f) \in Rows
    BY <1>0, <1>2, <2>2 DEF SetRow, Rows
  <2>4. \A k \in Keys : SetRow(v.rows, f)[k] = IF f.key = k THEN f.val ELSE v.rows[k]
    BY <1>0, <1>2, <2>2 DEF SetRow, Rows
  <2>5. /\ Store(f, v) \in Stores
        /\ Store(f, v).rows = SetRow(v.rows, f)
        /\ Store(f, v).cursor = f.cursor
        /\ Store(f, v).origin = v.origin
    BY <1>0, <2>1, <2>2, <2>3 DEF Stores
  <2>6. \A k \in Keys : Sets(f, k) <=> f.key = k BY <1>2 DEF Sets
  <2>7. \A k \in Keys : Written(f, k) = f.val BY <1>2 DEF Written
  <2> QED BY <1>2, <2>4, <2>5, <2>6, <2>7
<1>3. CASE f.kind = "resync"
  <2>1. Store(f, v) = EmptyStore BY <1>3 DEF Store
  <2>2. \A k \in Keys : NoRows[k] = Absent BY DEF NoRows
  <2>3. \A k \in Keys : Sets(f, k) /\ Written(f, k) = Absent BY <1>3 DEF Sets, Written
  <2>4. OriginOf(f) = 0 BY <1>3 DEF OriginOf
  <2> QED BY <1>3, <2>1, <2>2, <2>3, <2>4, EmptyStoreTyped
<1> QED BY <1>0, <1>1, <1>2, <1>3

(* Two stores with the same rows, cursor and origin are one. *)
LEMMA StoreEq ==
  ASSUME NEW u \in Stores, NEW v \in Stores,
         \A k \in Keys : u.rows[k] = v.rows[k], u.cursor = v.cursor, u.origin = v.origin
  PROVE  u = v
<1>1. u.rows = v.rows BY DEF Stores, Rows
<1> QED BY <1>1 DEF Stores

(* A row that a frame writes is a row. *)
LEMMA WrittenTyped ==
  ASSUME NEW f \in Frame, NEW k \in Keys, Sets(f, k)
  PROVE  Written(f, k) \in Nat
BY FrameCases DEF Written, Absent, Rows

(* The frames read so far make a store of a store. *)
LEMMA StoreAtTyped ==
  ASSUME NEW v \in Stores, NEW F \in Seq(Frame), NEW n \in 0 .. Len(F)
  PROVE  StoreAt(v, F, n) \in Stores
<1>0. n \in Nat /\ \A i \in 1 .. n : F[i] \in Frame OBVIOUS
<1>1. Over(v.rows, F, n) \in Rows
  <2>1. ASSUME NEW k \in Keys PROVE Over(v.rows, F, n)[k] \in Nat
    <3>1. v.rows[k] \in Nat BY DEF Stores, Rows
    <3>2. CASE \A i \in 1 .. n : ~Sets(F[i], k) BY <1>0, <3>1, <3>2, OverIs
    <3>3. CASE \E i \in 1 .. n : Sets(F[i], k) /\ \A j \in i + 1 .. n : ~Sets(F[j], k)
      <4>1. PICK i \in 1 .. n : Sets(F[i], k) /\ \A j \in i + 1 .. n : ~Sets(F[j], k) BY <3>3
      <4>2. Over(v.rows, F, n)[k] = Written(F[i], k) BY <1>0, <4>1, OverIs
      <4> QED BY <1>0, <4>1, <4>2, WrittenTyped
    <3> QED BY <1>0, <3>2, <3>3, OverIs
  <2>2. Over(v.rows, F, n) = [k \in Keys |-> Over(v.rows, F, n)[k]] BY DEF Over
  <2> QED BY <2>1, <2>2 DEF Rows
<1>2. CursorAt(v, F, n) \in Cursor
  <2>1. CASE n = 0 BY <2>1 DEF CursorAt, Stores
  <2>2. CASE n # 0
    <3>1. F[n] \in Frame BY <1>0, <2>2
    <3>2. Undefined \in Cursor BY DEF Undefined, Cursor
    <3> QED BY <2>2, <3>1, <3>2, FrameCases DEF CursorAt
  <2> QED BY <2>1, <2>2
<1>3. OriginAt(v, F, n) \in Nat
  <2>1. CASE \A i \in 1 .. n : F[i].kind = "change" BY <1>0, <2>1, OriginIs DEF Stores
  <2>2. CASE \E i \in 1 .. n : F[i].kind # "change" /\ \A j \in i + 1 .. n : F[j].kind = "change"
    <3>1. PICK i \in 1 .. n : F[i].kind # "change" /\ \A j \in i + 1 .. n : F[j].kind = "change" BY <2>2
    <3>2. OriginAt(v, F, n) = OriginOf(F[i]) BY <1>0, <3>1, OriginIs
    <3>3. OriginOf(F[i]) \in Nat BY <1>0, FrameCases DEF OriginOf
    <3> QED BY <3>2, <3>3
  <2> QED BY <1>0, <2>1, <2>2, OriginIs
<1> QED BY <1>1, <1>2, <1>3 DEF StoreAt, Stores

(* No frame leaves the store as it is. *)
LEMMA StoreZero ==
  ASSUME NEW v \in Stores, NEW F
  PROVE  StoreAt(v, F, 0) = v
<1>1. \A k \in Keys : Over(v.rows, F, 0)[k] = v.rows[k] BY OverIs
<1>2. OriginAt(v, F, 0) = v.origin BY OriginIs
<1>3. Over(v.rows, F, 0) = [k \in Keys |-> Over(v.rows, F, 0)[k]] BY DEF Over
<1>4. v.rows = [k \in Keys |-> v.rows[k]] BY DEF Stores, Rows
<1>5. Over(v.rows, F, 0) = v.rows BY <1>1, <1>3, <1>4
<1>6. CursorAt(v, F, 0) = v.cursor BY DEF CursorAt
<1>7. v = [rows |-> v.rows, cursor |-> v.cursor, origin |-> v.origin] BY DEF Stores
<1> QED BY <1>2, <1>5, <1>6, <1>7 DEF StoreAt

(* Frames that agree so far make the same store. *)
LEMMA StoreSame ==
  ASSUME NEW v \in Stores, NEW F, NEW G, NEW n \in Nat, \A i \in 1 .. n : G[i] = F[i]
  PROVE  StoreAt(v, G, n) = StoreAt(v, F, n)
<1>1. \A k \in Keys : SetBy(G, n, k) = SetBy(F, n, k) BY DEF SetBy
<1>2. ResetBy(G, n) = ResetBy(F, n) BY DEF ResetBy
<1>3. ASSUME NEW k \in Keys PROVE Over(v.rows, G, n)[k] = Over(v.rows, F, n)[k]
  <2>0. SetBy(F, n, k) \in SUBSET (1 .. n) BY DEF SetBy
  <2>1. SetBy(F, n, k) # {} => Max(SetBy(F, n, k)) \in 1 .. n BY <2>0, LastOf
  <2> QED BY <1>1, <2>1 DEF Over
<1>4. Over(v.rows, G, n) = Over(v.rows, F, n) BY <1>3 DEF Over
<1>5. ResetBy(F, n) # {} => Max(ResetBy(F, n)) \in 1 .. n
  <2>1. ResetBy(F, n) \in SUBSET (1 .. n) BY DEF ResetBy
  <2> QED BY <2>1, LastOf
<1>6. OriginAt(v, G, n) = OriginAt(v, F, n) BY <1>2, <1>5 DEF OriginAt
<1>7. CursorAt(v, G, n) = CursorAt(v, F, n) BY DEF CursorAt
<1> QED BY <1>4, <1>6, <1>7 DEF StoreAt

(* The store after one more frame is what the consumer makes of that frame. *)
LEMMA StoreNext ==
  ASSUME NEW v \in Stores, NEW F \in Seq(Frame), NEW n \in Nat, NEW m, m = n + 1, m <= Len(F)
  PROVE  StoreAt(v, F, m) = Store(F[m], StoreAt(v, F, n))
<1>1. n \in 0 .. Len(F) /\ m \in 0 .. Len(F) /\ F[m] \in Frame /\ m # 0 OBVIOUS
<1> DEFINE u == StoreAt(v, F, n)
           w == StoreAt(v, F, m)
<1>2. u \in Stores /\ w \in Stores BY <1>1, StoreAtTyped
<1>3. /\ u.rows = Over(v.rows, F, n) /\ u.origin = OriginAt(v, F, n)
      /\ w.rows = Over(v.rows, F, m) /\ w.origin = OriginAt(v, F, m)
      /\ w.cursor = CursorAt(v, F, m)
  BY DEF StoreAt
<1> HIDE DEF u, w
<1>4. \A k \in Keys : w.rows[k] = Store(F[m], u).rows[k]
  <2> TAKE k \in Keys
  <2>1. /\ Sets(F[m], k) => Over(v.rows, F, m)[k] = Written(F[m], k)
        /\ ~Sets(F[m], k) => Over(v.rows, F, m)[k] = Over(v.rows, F, n)[k]
    <3>1. m \in Nat \ {0} OBVIOUS
    <3> QED BY <3>1, OverLast, OverNext
  <2>2. /\ Sets(F[m], k) => Store(F[m], u).rows[k] = Written(F[m], k)
        /\ ~Sets(F[m], k) => Store(F[m], u).rows[k] = u.rows[k]
    BY <1>1, <1>2, StoreIs
  <2> QED BY <1>3, <2>1, <2>2
<1>5. w.origin = Store(F[m], u).origin BY <1>1, <1>2, <1>3, OriginNext, StoreIs
<1>6. w.cursor = Store(F[m], u).cursor BY <1>1, <1>2, <1>3, StoreIs DEF CursorAt
<1>7. Store(F[m], u) \in Stores BY <1>1, <1>2, StoreIs
<1>8. w = Store(F[m], u) BY <1>2, <1>4, <1>5, <1>6, <1>7, StoreEq
<1> QED BY <1>8 DEF u, w

(* Reading the first frame now leaves the same stores to come. *)
LEMMA StoreRest ==
  ASSUME NEW v \in Stores, NEW F \in Seq(Frame), F # <<>>,
         NEW n \in Nat, NEW m, m = n + 1, m <= Len(F)
  PROVE  StoreAt(Store(Head(F), v), Tail(F), n) = StoreAt(v, F, m)
<1> DEFINE b == Store(Head(F), v)
           G == Tail(F)
<1>1. /\ Head(F) = F[1] /\ F[1] \in Frame /\ Len(G) = Len(F) - 1 /\ G \in Seq(Frame)
      /\ \A i \in 1 .. n : G[i] = F[i + 1]
      /\ n \in 0 .. Len(G) /\ m \in 0 .. Len(F) /\ m # 0
  OBVIOUS
<1>2. /\ b \in Stores
      /\ \A k \in Keys : Sets(F[1], k) => b.rows[k] = Written(F[1], k)
      /\ \A k \in Keys : ~Sets(F[1], k) => b.rows[k] = v.rows[k]
      /\ b.cursor = IF F[1].kind = "resync" THEN Undefined ELSE F[1].cursor
      /\ b.origin = IF F[1].kind # "change" THEN OriginOf(F[1]) ELSE v.origin
  BY <1>1, StoreIs
<1> HIDE DEF b, G
<1>3. StoreAt(b, G, n) \in Stores /\ StoreAt(v, F, m) \in Stores BY <1>1, <1>2, StoreAtTyped
<1>4. /\ StoreAt(b, G, n).rows = Over(b.rows, G, n) /\ StoreAt(b, G, n).origin = OriginAt(b, G, n)
      /\ StoreAt(b, G, n).cursor = CursorAt(b, G, n)
      /\ StoreAt(v, F, m).rows = Over(v.rows, F, m) /\ StoreAt(v, F, m).origin = OriginAt(v, F, m)
      /\ StoreAt(v, F, m).cursor = CursorAt(v, F, m)
  BY DEF StoreAt
<1>5. \A k \in Keys : Over(b.rows, G, n)[k] = Over(v.rows, F, m)[k]
  <2> TAKE k \in Keys
  <2>1. Sets(F[1], k) => b.rows[k] = Written(F[1], k) BY <1>2
  <2>2. ~Sets(F[1], k) => b.rows[k] = v.rows[k] BY <1>2
  <2>3. \A i \in 1 .. n : G[i] = F[i + 1] BY <1>1
  <2>4. PICK base : base = b.rows OBVIOUS
  <2>5. PICK rows : rows = v.rows OBVIOUS
  <2>6. Sets(F[1], k) => base[k] = Written(F[1], k) BY <2>1, <2>4
  <2>7. ~Sets(F[1], k) => base[k] = rows[k] BY <2>2, <2>4, <2>5
  <2>8. Over(base, G, n)[k] = Over(rows, F, m)[k] 
    BY <2>3, <2>6, <2>7, OverRest
  <2> QED BY <2>4, <2>5, <2>8
<1>6. OriginAt(b, G, n) = OriginAt(v, F, m)
  BY <1>1, <1>2, OriginRest
<1>7. CursorAt(b, G, n) = CursorAt(v, F, m)
  <2>1. CASE n = 0 BY <1>2, <2>1 DEF CursorAt
  <2>2. CASE n # 0
    <3>1. G[n] = F[m] BY <1>1, <2>2
    <3> QED BY <1>1, <2>2, <3>1 DEF CursorAt
  <2> QED BY <2>1, <2>2
<1>8. StoreAt(b, G, n) = StoreAt(v, F, m)
  BY <1>3, <1>4, <1>5, <1>6, <1>7, StoreEq
<1> QED BY <1>8 DEF b, G

-----------------------------------------------------------------------------
(* What makes a store fit to resume from *)

LsnAt(n) == IF n = 0 THEN 0 ELSE wal[n].lsn

(* What the engine knows of the shape in the map: the entry and its ring, the *)
(* identity, and how far the feed has been.                                   *)
World ==
  [repl |-> path = "replication", reg |-> reg, e |-> ent[reg], incs |-> incs,
   id |-> liveId, live |-> liveId = timeline, top |-> LsnAt(high)]

(* The rows of a store that a ring covers differ from those of the entry only *)
(* where a change of the ring at or after its cursor will tell.               *)
ResumableIn(w, v) ==
  /\ w.e.id = 0 => v.cursor.lsn = 0
  /\ w.live => v.cursor.lsn <= w.top
  /\ v.cursor.lsn > w.e.floor =>
       \A k \in Keys :
         (\A i \in DOMAIN w.e.ring : w.e.ring[i].key = k => w.e.ring[i].lsn < v.cursor.lsn)
           => v.rows[k] = w.e.rows[k]

GoodIn(w, v) ==
  w.repl =>
    /\ v.origin <= w.incs
    /\ v.origin = 0 => ~Decodes(v.cursor)
    /\ w.reg # 0 /\ v.origin = w.reg /\ Decodes(v.cursor) => ResumableIn(w, v)

(* A store, and every one that the frames under way will make of it. *)
TrailGood(w, v, F) == \A n \in 0 .. Len(F) : GoodIn(w, StoreAt(v, F, n))

AllRead(v, F) == StoreAt(v, F, Len(F))

(* A stream and the mirror of the client that reads it. *)
StreamIn(w, v, x, rows) ==
  /\ x.q \in Seq(Frame) /\ TrailGood(w, v, x.q)
  /\ x.exact \in BOOLEAN /\ x.closed \in BOOLEAN
  /\ x.closed => x.sub = 0
  /\ ~x.closed =>
       /\ x.sub \in Nat \ {0} /\ x.sub <= w.incs
       /\ x.exact => AllRead(v, x.q).origin = x.sub /\ AllRead(v, x.q).rows = rows
       /\ ~x.exact => w.repl /\ AllRead(v, x.q).origin \notin {0, x.sub}

(* A client: its durable tier leads to its mirror, and the cursor that it     *)
(* presents is that of the mirror.                                            *)
ClientIn(w, v, d, F, since) ==
  /\ v \in Stores /\ d \in Stores /\ F \in Seq(Frame)
  /\ v = AllRead(d, F) /\ TrailGood(w, d, F)
  /\ since \in Cursor /\ (Decodes(since) => since = v.cursor)

-----------------------------------------------------------------------------

(* An empty store is good: it has no cursor to resume from. *)
LEMMA GoodEmpty ==
  ASSUME NEW w, w.incs \in Nat
  PROVE  GoodIn(w, EmptyStore)
BY EmptyStoreTyped DEF GoodIn

(* On a good trail both ends are good. *)
LEMMA TrailEnds ==
  ASSUME NEW w, NEW v \in Stores, NEW F \in Seq(Frame), TrailGood(w, v, F)
  PROVE  GoodIn(w, v) /\ GoodIn(w, AllRead(v, F)) /\ AllRead(v, F) \in Stores
<1>1. 0 \in 0 .. Len(F) /\ Len(F) \in 0 .. Len(F) OBVIOUS
<1>2. GoodIn(w, StoreAt(v, F, 0)) BY <1>1 DEF TrailGood
<1>3. GoodIn(w, StoreAt(v, F, Len(F))) BY <1>1 DEF TrailGood
<1>4. StoreAt(v, F, Len(F)) \in Stores BY <1>1, StoreAtTyped
<1> QED BY <1>2, <1>3, <1>4, StoreZero DEF AllRead

(* A good store with nothing under way. *)
LEMMA TrailNone ==
  ASSUME NEW w, NEW v \in Stores, GoodIn(w, v)
  PROVE  <<>> \in Seq(Frame) /\ TrailGood(w, v, <<>>) /\ AllRead(v, <<>>) = v
<1>1. Len(<<>>) = 0 /\ 0 .. 0 = {0} OBVIOUS
<1> QED BY <1>1, StoreZero DEF TrailGood, AllRead

(* One more frame under way, if the store it will make is good. *)
LEMMA TrailSnoc ==
  ASSUME NEW w, NEW v \in Stores, NEW F \in Seq(Frame), NEW f \in Frame,
         TrailGood(w, v, F), GoodIn(w, Store(f, AllRead(v, F)))
  PROVE  /\ Append(F, f) \in Seq(Frame)
         /\ TrailGood(w, v, Append(F, f))
         /\ AllRead(v, Append(F, f)) = Store(f, AllRead(v, F))
<1>1. PICK G : G = Append(F, f) OBVIOUS
<1>2. PICK l : l = Len(F) OBVIOUS
<1>3. /\ G \in Seq(Frame) /\ Len(G) = l + 1 /\ l \in Nat /\ G[l + 1] = f
      /\ \A i \in 1 .. l : G[i] = F[i]
  BY <1>1, <1>2
<1>4. ASSUME NEW n \in 0 .. l PROVE StoreAt(v, G, n) = StoreAt(v, F, n)
  <2>1. n \in Nat /\ \A i \in 1 .. n : G[i] = F[i] BY <1>3
  <2> QED BY <2>1, StoreSame
<1>5. StoreAt(v, G, l + 1) = Store(f, AllRead(v, F))
  <2>1. PICK m : m = l + 1 OBVIOUS
  <2>2. m <= Len(G) /\ G[m] = f BY <1>3, <2>1
  <2>3. StoreAt(v, G, m) = Store(G[m], StoreAt(v, G, l)) BY <1>3, <2>1, <2>2, StoreNext
  <2>4. StoreAt(v, G, l) = StoreAt(v, F, l) BY <1>3, <1>4
  <2> QED BY <1>2, <2>1, <2>2, <2>3, <2>4 DEF AllRead
<1>6. ASSUME NEW n \in 0 .. Len(G) PROVE GoodIn(w, StoreAt(v, G, n))
  <2>1. CASE n = l + 1 BY <1>5, <2>1
  <2>2. CASE n # l + 1
    <3>1. n \in 0 .. l BY <1>3, <2>2
    <3> QED BY <1>2, <1>4, <3>1 DEF TrailGood
  <2> QED BY <2>1, <2>2
<1> QED BY <1>1, <1>3, <1>5, <1>6 DEF TrailGood, AllRead

(* The frames under way, cut short. *)
LEMMA TrailCut ==
  ASSUME NEW w, NEW v \in Stores, NEW F \in Seq(Frame), TrailGood(w, v, F), NEW n \in 0 .. Len(F)
  PROVE  SubSeq(F, 1, n) \in Seq(Frame) /\ TrailGood(w, v, SubSeq(F, 1, n))
<1>1. PICK G : G = SubSeq(F, 1, n) OBVIOUS
<1>2. G \in Seq(Frame) /\ Len(G) = n /\ \A i \in 1 .. n : G[i] = F[i] BY <1>1
<1>3. ASSUME NEW m \in 0 .. n PROVE GoodIn(w, StoreAt(v, G, m))
  <2>1. m \in Nat /\ (\A i \in 1 .. m : G[i] = F[i]) /\ m \in 0 .. Len(F) BY <1>2
  <2>2. StoreAt(v, G, m) = StoreAt(v, F, m) BY <2>1, StoreSame
  <2> QED BY <2>1, <2>2 DEF TrailGood
<1> QED BY <1>1, <1>2, <1>3 DEF TrailGood

(* A resync may follow any trail. *)
LEMMA TrailResync ==
  ASSUME NEW w, w.incs \in Nat, NEW v \in Stores, NEW F \in Seq(Frame), TrailGood(w, v, F)
  PROVE  Append(F, Resync) \in Seq(Frame) /\ TrailGood(w, v, Append(F, Resync))
<1>1. Resync \in Frame BY DEF Frame
<1>2. Store(Resync, AllRead(v, F)) = EmptyStore BY DEF Store, Resync
<1> QED BY <1>1, <1>2, GoodEmpty, TrailSnoc

(* The first frame under way is read. *)
LEMMA TrailRest ==
  ASSUME NEW w, NEW v \in Stores, NEW F \in Seq(Frame), TrailGood(w, v, F), F # <<>>
  PROVE  /\ Head(F) \in Frame /\ Store(Head(F), v) \in Stores /\ Tail(F) \in Seq(Frame)
         /\ TrailGood(w, Store(Head(F), v), Tail(F))
         /\ AllRead(Store(Head(F), v), Tail(F)) = AllRead(v, F)
<1>1. /\ Head(F) \in Frame /\ Tail(F) \in Seq(Frame) /\ Len(Tail(F)) = Len(F) - 1
      /\ Len(F) \in Nat \ {0}
  OBVIOUS
<1>2. Store(Head(F), v) \in Stores BY <1>1, StoreIs
<1>3. ASSUME NEW n \in 0 .. Len(Tail(F))
      PROVE  StoreAt(Store(Head(F), v), Tail(F), n) = StoreAt(v, F, n + 1) /\ n + 1 \in 0 .. Len(F)
  <2>1. PICK m : m = n + 1 OBVIOUS
  <2>2. n \in Nat /\ m <= Len(F) /\ m \in 0 .. Len(F) BY <1>1, <2>1
  <2>3. StoreAt(Store(Head(F), v), Tail(F), n) = StoreAt(v, F, m) BY <2>1, <2>2, StoreRest
  <2> QED BY <2>1, <2>2, <2>3
<1>4. TrailGood(w, Store(Head(F), v), Tail(F)) BY <1>3 DEF TrailGood
<1>5. AllRead(Store(Head(F), v), Tail(F)) = AllRead(v, F)
  <2>1. PICK n : n = Len(Tail(F)) OBVIOUS
  <2>2. n \in 0 .. Len(Tail(F)) /\ n + 1 = Len(F) BY <1>1, <2>1
  <2>3. StoreAt(Store(Head(F), v), Tail(F), n) = StoreAt(v, F, n + 1) BY <1>3, <2>2
  <2> QED BY <2>1, <2>2, <2>3 DEF AllRead
<1> QED BY <1>1, <1>2, <1>4, <1>5

-----------------------------------------------------------------------------
(* From one state of the engine to the next *)

Preserves(w, w2) ==
  /\ w.incs \in Nat /\ w2.incs \in Nat /\ w.incs <= w2.incs /\ w2.repl = w.repl
  /\ \A v \in Stores : GoodIn(w, v) => GoodIn(w2, v)

(* A step of the engine that keeps the stores good keeps the trails. *)
LEMMA TrailKept ==
  ASSUME NEW w, NEW w2, Preserves(w, w2), NEW v \in Stores, NEW F \in Seq(Frame), TrailGood(w, v, F)
  PROVE  TrailGood(w2, v, F)
<1> SUFFICES ASSUME NEW n \in 0 .. Len(F) PROVE GoodIn(w2, StoreAt(v, F, n))
  BY DEF TrailGood
<1>1. StoreAt(v, F, n) \in Stores BY StoreAtTyped
<1> QED BY <1>1 DEF TrailGood, Preserves

(* The same for a stream. *)
LEMMA StreamKept ==
  ASSUME NEW w, NEW w2, Preserves(w, w2), NEW v \in Stores, NEW x, NEW rows, StreamIn(w, v, x, rows)
  PROVE  StreamIn(w2, v, x, rows)
<1>1. TrailGood(w2, v, x.q) BY TrailKept DEF StreamIn
<1>2. ~x.closed => x.sub <= w2.incs BY DEF StreamIn, Preserves
<1> QED BY <1>1, <1>2 DEF StreamIn, Preserves

(* The same for a client. *)
LEMMA ClientKept ==
  ASSUME NEW w, NEW w2, Preserves(w, w2), NEW v, NEW d, NEW F, NEW since,
         ClientIn(w, v, d, F, since)
  PROVE  ClientIn(w2, v, d, F, since)
BY TrailKept DEF ClientIn

(* The poll path: no store is resumed from. *)
LEMMA PollPreserves ==
  ASSUME NEW w, NEW w2, w2.repl = FALSE, w.repl = FALSE, w.incs \in Nat, w2.incs \in Nat, w.incs <= w2.incs
  PROVE  Preserves(w, w2)
BY DEF Preserves, GoodIn

(* The shape leaves the map, or is seeded anew. *)
LEMMA DropPreserves ==
  ASSUME NEW w, NEW w2, w2.repl = w.repl, w.incs \in Nat, w2.incs \in Nat, w.incs <= w2.incs,
         w2.reg = 0 \/ w2.reg = w.incs + 1
  PROVE  Preserves(w, w2)
<1> SUFFICES ASSUME NEW v \in Stores, GoodIn(w, v), w.repl PROVE GoodIn(w2, v)
  BY DEF Preserves, GoodIn
<1>1. v.origin \in Nat /\ v.origin <= w.incs BY DEF Stores, GoodIn
<1>2. v.origin <= w2.incs /\ ~(w2.reg # 0 /\ v.origin = w2.reg) BY <1>1
<1> QED BY <1>2 DEF GoodIn

(* The entry stays as it is, and the feed is no further back. *)
LEMMA SamePreserves ==
  ASSUME NEW w, NEW w2, w2.repl = w.repl, w.incs \in Nat, w2.incs = w.incs,
         w2.reg = w.reg, w2.e = w.e, w.top \in Nat, w2.top \in Nat,
         w2.live => w.e.id = 0 \/ (w.live /\ w.top <= w2.top)
  PROVE  Preserves(w, w2)
<1> SUFFICES ASSUME NEW v \in Stores, GoodIn(w, v), w.repl,
                    w.reg # 0, v.origin = w.reg, Decodes(v.cursor)
             PROVE  ResumableIn(w2, v)
  BY DEF Preserves, GoodIn
<1>1. ResumableIn(w, v) /\ v.cursor.lsn \in Nat BY DEF GoodIn, Stores, Cursor
<1>2. w2.live => v.cursor.lsn <= w2.top BY <1>1 DEF ResumableIn
<1> QED BY <1>1, <1>2 DEF ResumableIn

-----------------------------------------------------------------------------
(* The replay ring *)

(* The ring of the entry in the map. *)
RingIn(w) ==
  LET e == w.e IN
  /\ e.ring \in Seq(Item) /\ e.floor \in Int /\ e.id \in Nat /\ e.rows \in Rows
  /\ e.id = 0 => e.ring = <<>> /\ e.floor = -1
  /\ e.id # 0 => e.id = w.id /\ e.ring # <<>>
  /\ w.live => \A i \in DOMAIN e.ring : e.ring[i].lsn <= w.top
  /\ \A i, j \in DOMAIN e.ring : i <= j => e.ring[i].lsn <= e.ring[j].lsn
  /\ \A i \in DOMAIN e.ring : e.floor <= e.ring[i].lsn
  /\ \A i \in DOMAIN e.ring :
       (\A j \in DOMAIN e.ring : j > i => e.ring[j].key # e.ring[i].key)
         => e.rows[e.ring[i].key] = e.ring[i].val

(* A change sets its row and leaves the others. *)
LEMMA SetRowIs ==
  ASSUME NEW rows \in Rows, NEW c, c.key \in Keys, c.val \in Nat
  PROVE  /\ SetRow(rows, c) \in Rows
         /\ \A k \in Keys : SetRow(rows, c)[k] = IF k = c.key THEN c.val ELSE rows[k]
BY DEF SetRow, Rows

(* The item at the end of the ring, and of what was there n evicted. *)
RecordedAs(e2, ring, floor, item) ==
  \E n \in 0 .. Len(ring) :
    LET all == Append(ring, item) IN
    /\ e2.ring = SubSeq(all, n + 1, Len(all))
    /\ e2.floor = IF n = 0 THEN floor ELSE all[n].lsn

(* What record() leaves of an entry. *)
LEMMA RecordedIs ==
  ASSUME NEW e, NEW id, NEW item \in Item, NEW floor \in Int, NEW ring \in Seq(Item),
         DOMAIN e = EntryFields,
         e.id = id => e.ring = ring /\ e.floor = floor,
         e.id # id => ring = <<>> /\ floor = -1,
         NEW e2 \in Recorded(e, id, item)
  PROVE  /\ e2.rows = e.rows /\ e2.id = id
         /\ RecordedAs(e2, ring, floor, item)
<1> DEFINE all == Append(ring, item)
<1>1. (IF e.id = id THEN e.ring ELSE <<>>) = ring /\ (IF e.id = id THEN e.floor ELSE -1) = floor
  OBVIOUS
<1>2. PICK n \in Max({0, Len(all) - MaxEntries}) .. Len(all) - 1 :
         e2 = [e EXCEPT !.id = id, !.ring = SubSeq(all, n + 1, Len(all)),
                        !.floor = IF n = 0 THEN floor ELSE all[n].lsn]
  BY <1>1 DEF Recorded
<1>3. Len(all) = Len(ring) + 1 /\ Len(ring) \in Nat OBVIOUS
<1>4. n \in 0 .. Len(ring)
  <2>1. Max({0, Len(all) - MaxEntries}) \in Nat
    BY <1>3, LimitsAssumption, MaxOfTwo
  <2> QED BY <1>2, <1>3, <2>1
<1> HIDE DEF all
<1>5. /\ e2.rows = e.rows /\ e2.id = id /\ e2.ring = SubSeq(all, n + 1, Len(all))
      /\ e2.floor = IF n = 0 THEN floor ELSE all[n].lsn
  BY <1>2 DEF EntryFields, FreshEntry
<1> QED BY <1>4, <1>5 DEF all, RecordedAs

(* A change recorded in the ring: the ring still tells all that the entry     *)
(* has seen since its floor, and whoever could resume before can resume now.  *)
LEMMA RecordedRing ==
  ASSUME NEW w, NEW w2, RingIn(w), DOMAIN w.e = EntryFields,
         w.live = TRUE, w2.live = TRUE, w.id # 0, w.id \in Nat, w2.id = w.id,
         w.incs \in Nat, w2.incs = w.incs, w2.repl = w.repl, w.reg # 0, w2.reg = w.reg,
         NEW item \in Item, w.top \in Nat, w2.top \in Nat, w.top <= item.lsn, item.lsn <= w2.top,
         w2.e \in Recorded([w.e EXCEPT !.rows = SetRow(@, item)], w.id, item)
  PROVE  RingIn(w2) /\ Preserves(w, w2) /\ w2.e.rows = SetRow(w.e.rows, item) /\ w2.e.id = w.id
<1> DEFINE e == [w.e EXCEPT !.rows = SetRow(@, item)]
<1>0. PICK ring, floor, rows, e2 : ring = w.e.ring /\ floor = w.e.floor /\ rows = w.e.rows /\ e2 = w2.e
  OBVIOUS
<1>1. /\ ring \in Seq(Item) /\ floor \in Int /\ w.e.id \in Nat /\ rows \in Rows
      /\ w.e.id = 0 => ring = <<>> /\ floor = -1
      /\ w.e.id # 0 => w.e.id = w.id /\ ring # <<>>
      /\ \A i \in DOMAIN ring : ring[i].lsn <= w.top
      /\ \A i, j \in DOMAIN ring : i <= j => ring[i].lsn <= ring[j].lsn
      /\ \A i \in DOMAIN ring : floor <= ring[i].lsn
      /\ \A i \in DOMAIN ring :
           (\A j \in DOMAIN ring : j > i => ring[j].key # ring[i].key)
             => rows[ring[i].key] = ring[i].val
  BY <1>0 DEF RingIn
<1>2. item.key \in Keys /\ item.val \in Nat /\ item.lsn \in Nat BY DEF Item
<1>3. DOMAIN e = EntryFields /\ e.id = w.e.id /\ e.ring = ring /\ e.floor = floor
      /\ e.rows = SetRow(rows, item)
  BY <1>0 DEF EntryFields, FreshEntry
<1> HIDE DEF e
<1>4. PICK r2 : r2 = SetRow(rows, item) OBVIOUS
<1>5. r2 \in Rows /\ \A k \in Keys : r2[k] = IF k = item.key THEN item.val ELSE rows[k]
  BY <1>1, <1>2, <1>4, SetRowIs
<1>6. /\ e2.rows = r2 /\ e2.id = w.id
      /\ RecordedAs(e2, ring, floor, item)
  <2>1. e.id = w.id => e.ring = ring /\ e.floor = floor BY <1>3
  <2>2. e.id # w.id => ring = <<>> /\ floor = -1 BY <1>1, <1>3
  <2>3. e2 \in Recorded(e, w.id, item) BY <1>0 DEF e
  <2>4. PICK id : id = w.id OBVIOUS
  <2>5. (e.id = id => e.ring = ring /\ e.floor = floor) /\ (e.id # id => ring = <<>> /\ floor = -1)
    BY <2>1, <2>2, <2>4
  <2>6. ring \in Seq(Item) /\ floor \in Int /\ DOMAIN e = EntryFields /\ e.rows = r2
        /\ e2 \in Recorded(e, id, item)
    BY <1>1, <1>3, <1>4, <2>3, <2>4
  <2>7. /\ e2.rows = r2 /\ e2.id = id
        /\ RecordedAs(e2, ring, floor, item)
    BY <2>5, <2>6, RecordedIs
  <2> QED BY <2>4, <2>7
<1>7. PICK all : all = Append(ring, item) OBVIOUS
<1>8. PICK l : l = Len(ring) OBVIOUS
<1>9. PICK n \in 0 .. l : /\ e2.ring = SubSeq(all, n + 1, Len(all))
                          /\ e2.floor = IF n = 0 THEN floor ELSE all[n].lsn
  BY <1>6, <1>7, <1>8 DEF RecordedAs
<1>10. /\ all \in Seq(Item) /\ Len(all) = l + 1 /\ l \in Nat /\ DOMAIN ring = 1 .. l
       /\ all[l + 1] = item /\ \A i \in 1 .. l : all[i] = ring[i] /\ all[i] \in Item
       /\ n \in Nat
  BY <1>1, <1>7, <1>8, <1>9
<1>11. PICK new : new = e2.ring OBVIOUS
<1>12. /\ new \in Seq(Item) /\ Len(new) = l + 1 - n /\ DOMAIN new = 1 .. l + 1 - n
       /\ \A i \in 1 .. l + 1 - n : new[i] = all[n + i]
  BY <1>9, <1>10, <1>11
<1>13. \A i, j \in 1 .. l + 1 : i <= j => all[i].lsn <= all[j].lsn
  <2> TAKE i, j \in 1 .. l + 1
  <2> HAVE i <= j
  <2>1. CASE j \in 1 .. l BY <1>1, <1>10, <2>1
  <2>2. CASE j = l + 1 /\ i \in 1 .. l
    <3>1. all[i].lsn <= w.top /\ all[i].lsn \in Nat BY <1>1, <1>10, <2>2 DEF Item
    <3> QED BY <1>2, <1>10, <2>2, <3>1
  <2>3. CASE j = l + 1 /\ i = l + 1 BY <1>2, <1>10, <2>3
  <2> QED BY <1>10, <2>1, <2>2, <2>3
<1>14. \A i \in 1 .. l + 1 : all[i].lsn \in Nat /\ all[i].lsn <= w2.top
  <2> TAKE i \in 1 .. l + 1
  <2>1. CASE i \in 1 .. l
    <3>1. all[i].lsn <= w.top /\ all[i].lsn \in Nat BY <1>1, <1>10, <2>1 DEF Item
    <3> QED BY <1>2, <3>1
  <2>2. CASE i = l + 1 BY <1>2, <1>10, <2>2
  <2> QED BY <1>10, <2>1, <2>2
<1>15. floor <= e2.floor /\ e2.floor \in Int /\ \A i \in n + 1 .. l + 1 : e2.floor <= all[i].lsn
  <2>1. \A i \in 1 .. l + 1 : floor <= all[i].lsn
    <3> TAKE i \in 1 .. l + 1
    <3>1. CASE i \in 1 .. l BY <1>1, <1>10, <3>1
    <3>2. CASE i = l + 1 /\ l # 0
      <4>1. 1 \in 1 .. l /\ floor <= all[1].lsn /\ all[1].lsn <= all[l + 1].lsn
        BY <1>1, <1>10, <1>13, <3>2
      <4>2. all[1].lsn \in Nat /\ all[l + 1].lsn \in Nat BY <1>10, <1>14, <4>1
      <4> QED BY <1>1, <3>2, <4>1, <4>2
    <3>3. CASE i = l + 1 /\ l = 0
      <4>1. ring = <<>> BY <1>1, <1>8, <3>3, EmptySeq
      <4>2. floor = -1 BY <1>1, <4>1
      <4> QED BY <1>2, <1>10, <3>3, <4>2
    <3> QED BY <1>10, <3>1, <3>2, <3>3
  <2>2. CASE n = 0 BY <1>1, <1>9, <2>1, <2>2
  <2>3. CASE n # 0
    <3>1. n \in 1 .. l + 1 /\ e2.floor = all[n].lsn BY <1>9, <1>10, <2>3
    <3>2. \A i \in n + 1 .. l + 1 : i \in 1 .. l + 1 /\ n <= i BY <1>10
    <3> QED BY <1>13, <1>14, <2>1, <3>1, <3>2
  <2> QED BY <2>2, <2>3
<1>16. RingIn(w2)
  <2>1. \A i \in 1 .. l + 1 - n : n + i \in 1 .. l + 1 /\ n + i \in n + 1 .. l + 1 BY <1>10
  <2>2. new # <<>>
    <3>1. Len(new) # 0 BY <1>10, <1>12
    <3> QED BY <3>1
  <2>3. \A i \in DOMAIN new : new[i].lsn <= w2.top BY <1>12, <1>14, <2>1
  <2>4. \A i, j \in DOMAIN new : i <= j => new[i].lsn <= new[j].lsn
    <3> TAKE i, j \in DOMAIN new
    <3> HAVE i <= j
    <3>1. i \in 1 .. l + 1 - n /\ j \in 1 .. l + 1 - n /\ n + i <= n + j BY <1>10, <1>12
    <3> QED BY <1>12, <1>13, <2>1, <3>1
  <2>5. \A i \in DOMAIN new : e2.floor <= new[i].lsn BY <1>12, <1>15, <2>1
  <2>6. ASSUME NEW i \in DOMAIN new, \A j \in DOMAIN new : j > i => new[j].key # new[i].key
        PROVE  r2[new[i].key] = new[i].val
    <3>1. i \in 1 .. l + 1 - n /\ n + i \in 1 .. l + 1 /\ new[i] = all[n + i] BY <1>12, <2>1
    <3>2. CASE n + i = l + 1 BY <1>2, <1>5, <1>10, <3>1, <3>2
    <3>3. CASE n + i # l + 1
      <4>1. PICK h : h = n + i OBVIOUS
      <4>2. h \in 1 .. l /\ new[i] = ring[h] /\ ring[h] \in Item BY <1>10, <3>1, <3>3, <4>1
      <4>3. ring[h].key # item.key
        <5>1. PICK j : j = l + 1 - n OBVIOUS
        <5>2. j \in DOMAIN new /\ j > i /\ n + j = l + 1 BY <1>10, <1>12, <3>1, <3>3, <5>1
        <5>3. new[j] = item BY <1>10, <1>12, <5>1, <5>2
        <5> QED BY <2>6, <4>2, <5>2, <5>3
      <4>4. ASSUME NEW j \in DOMAIN ring, j > h PROVE ring[j].key # ring[h].key
        <5>1. PICK g : g = j - n OBVIOUS
        <5>a. l \in Nat /\ n \in Nat /\ i \in 1 .. l + 1 - n /\ j \in 1 .. l /\ j > n + i
          BY <1>10, <3>1, <4>1, <4>4
        <5>b. g \in 1 .. l + 1 - n /\ g > i /\ n + g = j BY <5>1, <5>a
        <5>2. g \in DOMAIN new /\ g > i /\ n + g = j /\ j \in 1 .. l BY <1>12, <5>a, <5>b
        <5>3. new[g] = ring[j] BY <1>10, <1>12, <5>1, <5>2
        <5> QED BY <2>6, <4>2, <5>2, <5>3
      <4>5. rows[ring[h].key] = ring[h].val BY <1>1, <1>10, <4>2, <4>4
      <4> QED BY <1>5, <4>2, <4>3, <4>5 DEF Item
    <3> QED BY <3>2, <3>3
  <2>7. /\ w2.e.ring = new /\ w2.e.rows = r2 /\ w2.e.id = w.id /\ w2.e.floor = e2.floor
    BY <1>0, <1>6, <1>11
  <2> QED BY <1>5, <1>12, <1>15, <2>2, <2>3, <2>4, <2>5, <2>6, <2>7 DEF RingIn
<1>17. ASSUME NEW v \in Stores, ResumableIn(w, v)
       PROVE  ResumableIn(w2, v)
  <2>1. v.cursor.lsn \in Nat BY DEF Stores, Cursor
  <2>2. v.cursor.lsn <= w.top BY <1>17 DEF ResumableIn
  <2>3. ASSUME v.cursor.lsn > e2.floor, NEW k \in Keys,
               \A i \in DOMAIN new : new[i].key = k => new[i].lsn < v.cursor.lsn
        PROVE  v.rows[k] = r2[k]
    <3>1. k # item.key
      <4>1. PICK j : j = l + 1 - n OBVIOUS
      <4>2. j \in DOMAIN new /\ n + j = l + 1 BY <1>10, <1>12, <4>1
      <4>3. new[j] = item BY <1>10, <1>12, <4>1, <4>2
      <4>4. k = item.key => item.lsn < v.cursor.lsn BY <2>3, <4>2, <4>3
      <4> QED BY <1>2, <2>1, <2>2, <4>4
    <3>2. ASSUME NEW i \in DOMAIN ring, ring[i].key = k PROVE ring[i].lsn < v.cursor.lsn
      <4>1. CASE i > n
        <5>1. PICK g : g = i - n OBVIOUS
        <5>2. g \in DOMAIN new /\ n + g = i /\ i \in 1 .. l BY <1>10, <1>12, <4>1, <5>1
        <5>3. new[g] = ring[i] BY <1>10, <1>12, <5>1, <5>2
        <5> QED BY <2>3, <3>2, <5>2, <5>3
      <4>2. CASE i <= n
        <5>1. i \in 1 .. l + 1 /\ n \in 1 .. l + 1 /\ n # 0 /\ all[i] = ring[i] BY <1>10, <4>2
        <5>2. all[i].lsn <= all[n].lsn /\ e2.floor = all[n].lsn BY <1>9, <1>13, <4>2, <5>1
        <5>3. all[i].lsn \in Nat /\ all[n].lsn \in Nat BY <1>14, <5>1
        <5> QED BY <2>1, <2>3, <5>1, <5>2, <5>3
      <4> QED BY <1>10, <4>1, <4>2
    <3>3. v.cursor.lsn > floor BY <1>1, <1>15, <2>1, <2>3
    <3>4. v.rows[k] = rows[k] BY <1>0, <1>17, <3>2, <3>3 DEF ResumableIn
    <3> QED BY <1>5, <3>1, <3>4
  <2>4. v.cursor.lsn <= w2.top BY <1>2, <2>1, <2>2
  <2>5. w2.e.ring = new /\ w2.e.rows = r2 /\ w2.e.id = w.id /\ w2.e.floor = e2.floor
    BY <1>0, <1>6, <1>11
  <2> QED BY <2>3, <2>4, <2>5 DEF ResumableIn
<1>18. Preserves(w, w2)
  <2> SUFFICES ASSUME NEW v \in Stores, GoodIn(w, v), w.repl PROVE GoodIn(w2, v)
    BY DEF Preserves, GoodIn
  <2>1. w2.reg # 0 /\ v.origin = w2.reg /\ Decodes(v.cursor) => ResumableIn(w2, v)
    BY <1>17 DEF GoodIn
  <2> QED BY <2>1 DEF GoodIn
<1> QED BY <1>0, <1>4, <1>6, <1>16, <1>18

-----------------------------------------------------------------------------
(* The stream of a session, step by step *)

(* Only its queue, its flags and its subscription make a stream. *)
LEMMA StreamFields ==
  ASSUME NEW w, NEW v, NEW x, NEW y, NEW rows, StreamIn(w, v, x, rows),
         y.q = x.q, y.exact = x.exact, y.closed = x.closed, y.sub = x.sub
  PROVE  StreamIn(w, v, y, rows)
BY DEF StreamIn

(* A stream that is cut short by a resync, wherever. *)
LEMMA StreamCut ==
  ASSUME NEW w, w.incs \in Nat, NEW v \in Stores, NEW F \in Seq(Frame), TrailGood(w, v, F),
         NEW n \in 0 .. Len(F), NEW y, NEW rows,
         y.q = Append(SubSeq(F, 1, n), Resync), y.closed = TRUE, y.sub = 0, y.exact \in BOOLEAN
  PROVE  StreamIn(w, v, y, rows)
<1>1. PICK G : G = SubSeq(F, 1, n) OBVIOUS
<1>2. G \in Seq(Frame) /\ TrailGood(w, v, G) BY <1>1, TrailCut
<1>3. Append(G, Resync) \in Seq(Frame) /\ TrailGood(w, v, Append(G, Resync)) BY <1>2, TrailResync
<1> QED BY <1>1, <1>3 DEF StreamIn

(* A stream that is purged. *)
LEMMA PurgedStream ==
  ASSUME NEW w, w.incs \in Nat, NEW v \in Stores, NEW x, IsSession(x), NEW rows, StreamIn(w, v, x, rows)
  PROVE  StreamIn(w, v, Purged(x), rows) /\ Purged(x).client = x.client
<1>1. /\ Purged(x).q = Append(x.q, Resync) /\ Purged(x).closed = TRUE /\ Purged(x).sub = 0
      /\ Purged(x).exact = x.exact /\ Purged(x).client = x.client
  BY DEF Purged, IsSession, SessionFields, FreeSession
<1>2. x.q \in Seq(Frame) /\ TrailGood(w, v, x.q) /\ x.exact \in BOOLEAN BY DEF StreamIn
<1>3. Append(x.q, Resync) \in Seq(Frame) /\ TrailGood(w, v, Append(x.q, Resync)) BY <1>2, TrailResync
<1> QED BY <1>1, <1>2, <1>3 DEF StreamIn

(* What deliver() makes of a stream and some more frames. *)
LEMMA DeliveredIs ==
  ASSUME NEW x, IsSession(x), NEW frames \in Seq(Frame), x.q \in Seq(Frame)
  PROVE  /\ Delivered(x, frames).exact = x.exact /\ Delivered(x, frames).client = x.client
         /\ \/ /\ Delivered(x, frames).q = x.q \o frames
               /\ Delivered(x, frames).closed = x.closed /\ Delivered(x, frames).sub = x.sub
            \/ /\ Delivered(x, frames).closed = TRUE /\ Delivered(x, frames).sub = 0
               /\ \E n \in 0 .. Len(x.q \o frames) :
                    Delivered(x, frames).q = Append(SubSeq(x.q \o frames, 1, n), Resync)
<1> DEFINE n == Max({MaxQueue, Len(x.q)})
           cut == [x EXCEPT !.q = SubSeq(@ \o frames, 1, n)]
           kept == [x EXCEPT !.q = @ \o frames]
<1>1. /\ kept.q = x.q \o frames /\ kept.closed = x.closed /\ kept.sub = x.sub
      /\ kept.exact = x.exact /\ kept.client = x.client
  BY DEF IsSession, SessionFields, FreeSession
<1>2. IsSession(cut) /\ cut.q = SubSeq(x.q \o frames, 1, n) /\ cut.exact = x.exact /\ cut.client = x.client
  BY DEF IsSession, SessionFields, FreeSession
<1>3. /\ Purged(cut).q = Append(SubSeq(x.q \o frames, 1, n), Resync)
      /\ Purged(cut).closed = TRUE /\ Purged(cut).sub = 0
      /\ Purged(cut).exact = x.exact /\ Purged(cut).client = x.client
  <2> HIDE DEF cut, n
  <2> QED BY <1>2 DEF Purged, IsSession, SessionFields, FreeSession
<1>4. CASE x.st = "gap" \/ Len(x.q) + Len(frames) <= MaxQueue
  <2>1. Delivered(x, frames) = kept BY <1>4 DEF Delivered
  <2> HIDE DEF kept, cut, n
  <2> QED BY <1>1, <2>1
<1>5. CASE ~(x.st = "gap" \/ Len(x.q) + Len(frames) <= MaxQueue)
  <2>1. Delivered(x, frames) = Purged(cut) BY <1>5 DEF Delivered
  <2>2. Len(x.q) \in Nat /\ Len(frames) \in Nat /\ Len(x.q \o frames) = Len(x.q) + Len(frames)
    OBVIOUS
  <2>3. n \in 0 .. Len(x.q \o frames)
    BY <1>5, <2>2, MaxOfTwo, LimitsAssumption
  <2> HIDE DEF kept, cut, n
  <2> QED BY <1>3, <2>1, <2>3
<1> QED BY <1>4, <1>5

(* Every frame arrives in the queue. *)
Extended(x, frames) == [x EXCEPT !.q = x.q \o frames]

(* A stream the frames are delivered to, or that is dropped for being slow. *)
LEMMA DeliveredStream ==
  ASSUME NEW w, w.incs \in Nat, NEW v \in Stores, NEW x, IsSession(x), NEW frames \in Seq(Frame),
         x.q \in Seq(Frame), NEW rows, StreamIn(w, v, Extended(x, frames), rows)
  PROVE  StreamIn(w, v, Delivered(x, frames), rows) /\ Delivered(x, frames).client = x.client
<1>0. PICK big : big = Extended(x, frames) OBVIOUS
<1>9. /\ StreamIn(w, v, big, rows)
      /\ big.q = x.q \o frames /\ big.exact = x.exact /\ big.closed = x.closed /\ big.sub = x.sub
  BY <1>0 DEF Extended, IsSession, SessionFields, FreeSession
<1>1. PICK y : y = Delivered(x, frames) OBVIOUS
<1>2. PICK F : F = x.q \o frames OBVIOUS
<1>3. F \in Seq(Frame) /\ TrailGood(w, v, F) /\ x.exact \in BOOLEAN BY <1>9, <1>2 DEF StreamIn
<1>4. /\ y.exact = x.exact /\ y.client = x.client
      /\ \/ y.q = F /\ y.closed = x.closed /\ y.sub = x.sub
         \/ /\ y.closed = TRUE /\ y.sub = 0
            /\ \E n \in 0 .. Len(F) : y.q = Append(SubSeq(F, 1, n), Resync)
  BY <1>1, <1>2, DeliveredIs
<1>5. CASE y.q = F /\ y.closed = x.closed /\ y.sub = x.sub
  <2>1. y.q = big.q /\ y.exact = big.exact /\ y.closed = big.closed /\ y.sub = big.sub
    BY <1>9, <1>2, <1>4, <1>5
  <2> QED BY <1>9, <1>1, <1>4, <2>1, StreamFields
<1>6. CASE /\ y.closed = TRUE /\ y.sub = 0
           /\ \E n \in 0 .. Len(F) : y.q = Append(SubSeq(F, 1, n), Resync)
  <2>1. PICK n \in 0 .. Len(F) : y.q = Append(SubSeq(F, 1, n), Resync) BY <1>6
  <2>2. StreamIn(w, v, y, rows) BY <1>3, <1>4, <1>6, <2>1, StreamCut
  <2> QED BY <1>1, <1>4, <2>2
<1> QED BY <1>4, <1>5, <1>6

(* A stream whose shape has been dropped. *)
LEMMA ResyncedStream ==
  ASSUME NEW w, w.incs \in Nat, NEW v \in Stores, NEW x, IsSession(x), NEW rows, StreamIn(w, v, x, rows)
  PROVE  StreamIn(w, v, Resynced(x), rows) /\ Resynced(x).client = x.client
<1>1. CASE x.st = "gap"
  <2> DEFINE y == [x EXCEPT !.purge = TRUE]
  <2>1. /\ y.q = x.q /\ y.exact = x.exact /\ y.closed = x.closed /\ y.sub = x.sub
        /\ y.client = x.client
    BY DEF IsSession, SessionFields, FreeSession
  <2>2. Resynced(x) = y BY <1>1 DEF Resynced
  <2> HIDE DEF y
  <2> QED BY <2>1, <2>2, StreamFields
<1>2. CASE x.st # "gap" BY <1>2, PurgedStream DEF Resynced
<1> QED BY <1>1, <1>2

(* A stream that is attached: what was buffered is sent, and a latched        *)
(* resync after it.                                                           *)
LEMMA AttachedStream ==
  ASSUME NEW w, w.incs \in Nat, NEW v \in Stores, NEW x, IsSession(x), NEW rows, StreamIn(w, v, x, rows)
  PROVE  StreamIn(w, v, Attached(x), rows) /\ Attached(x).client = x.client
<1> DEFINE bare == [x EXCEPT !.st = "open", !.q = <<>>]
           open == Delivered(bare, x.q)
<1>1. /\ IsSession(bare) /\ bare.q = <<>> /\ bare.exact = x.exact /\ bare.closed = x.closed
      /\ bare.sub = x.sub /\ bare.client = x.client
  BY DEF IsSession, SessionFields, FreeSession
<1>2. Attached(x) = IF x.purge /\ ~open.closed THEN Purged(open) ELSE open BY DEF Attached
<1> HIDE DEF bare
<1>3. x.q \in Seq(Frame) /\ <<>> \in Seq(Frame) /\ x.q = bare.q \o x.q BY <1>1 DEF StreamIn
<1>4. StreamIn(w, v, open, rows) /\ open.client = x.client
  <2>1. PICK frames : frames = x.q OBVIOUS
  <2>2. frames \in Seq(Frame) /\ bare.q \in Seq(Frame) /\ x.q = bare.q \o frames BY <1>1, <1>3, <2>1
  <2>3. StreamIn(w, v, Delivered(bare, frames), rows) /\ Delivered(bare, frames).client = bare.client
    <3>1. PICK big : big = Extended(bare, frames) OBVIOUS
    <3>2. /\ big.q = x.q /\ big.exact = x.exact /\ big.closed = x.closed /\ big.sub = x.sub
      BY <1>1, <2>2, <3>1 DEF Extended, IsSession, SessionFields, FreeSession
    <3>3. StreamIn(w, v, big, rows) BY <3>2, StreamFields
    <3>4. IsSession(bare) /\ bare.q \in Seq(Frame) /\ frames \in Seq(Frame) BY <1>1, <2>2
    <3>5. StreamIn(w, v, Extended(bare, frames), rows) BY <3>1, <3>3
    <3> HIDE DEF open
    <3> QED BY <3>4, <3>5, DeliveredStream
  <2> QED BY <1>1, <2>1, <2>3 DEF open
<1>5. IsSession(open) BY <1>1, DeliveredFollows DEF Follows
<1> HIDE DEF open
<1>6. StreamIn(w, v, Purged(open), rows) /\ Purged(open).client = open.client
  BY <1>4, <1>5, PurgedStream
<1> QED BY <1>2, <1>4, <1>6

(* A change that is recorded and fanned reaches a subscriber. *)
LEMMA FannedStream ==
  ASSUME NEW w, NEW w2, Preserves(w, w2), w.reg \in Nat \ {0}, w2.reg = w.reg, w.incs \in Nat, w2.incs = w.incs,
         w.id \in Nat \ {0}, w2.e.id = w.id, w2.live = TRUE, NEW item \in Item,
         w2.top \in Nat, item.lsn <= w2.top, w.e.rows \in Rows,
         w2.e.rows = SetRow(w.e.rows, item),
         NEW v \in Stores, NEW x, IsSession(x), x.sub = w.reg, StreamIn(w, v, x, w.e.rows)
  PROVE  /\ StreamIn(w2, v, Delivered(x, <<ChangeFrame(item, At(w.id, item.lsn))>>), w2.e.rows)
         /\ Delivered(x, <<ChangeFrame(item, At(w.id, item.lsn))>>).client = x.client
<1>1. PICK f : f = ChangeFrame(item, At(w.id, item.lsn)) OBVIOUS
<1>2. item.key \in Keys /\ item.val \in Nat /\ item.lsn \in Nat BY DEF Item
<1>3. /\ f.kind = "change" /\ f.key = item.key /\ f.val = item.val
      /\ f.cursor = At(w.id, item.lsn)
  BY <1>1 DEF ChangeFrame
<1>4. /\ At(w.id, item.lsn) \in Cursor \ {Undefined} /\ At(w.id, item.lsn).lsn = item.lsn
      /\ Decodes(At(w.id, item.lsn))
  BY <1>2 DEF At, Cursor, Undefined, Decodes
<1>5. f \in Frame
  <2>1. f \in [kind : {"change"}, key : Keys, val : Nat, cursor : Cursor \ {Undefined}]
    BY <1>1, <1>2, <1>4 DEF ChangeFrame
  <2> QED BY <2>1 DEF Frame
<1>6. ~x.closed /\ x.closed \in BOOLEAN /\ x.exact \in BOOLEAN /\ x.q \in Seq(Frame) /\ TrailGood(w, v, x.q)
  BY DEF StreamIn
<1>7. PICK u : u = AllRead(v, x.q) OBVIOUS
<1>8. TrailGood(w2, v, x.q) BY <1>6, TrailKept
<1>9. u \in Stores /\ GoodIn(w2, u) BY <1>6, <1>7, <1>8, TrailEnds
<1>10. PICK u2 : u2 = Store(f, u) OBVIOUS
<1>11. u2 \in Stores /\ u2.cursor = f.cursor /\ u2.origin = u.origin BY <1>3, <1>5, <1>9, <1>10, StoreIs
<1>12. u2.rows = SetRow(u.rows, item)
  <2>1. u2.rows = SetRow(u.rows, f)
    BY <1>3, <1>9, <1>10 DEF Store, Stores
  <2> QED BY <1>3, <2>1 DEF SetRow
<1>13. x.exact => u.origin = w.reg /\ u.rows = w.e.rows BY <1>6, <1>7 DEF StreamIn
<1>14. ~x.exact => w.repl /\ u.origin \notin {0, w.reg} BY <1>6, <1>7 DEF StreamIn
<1>15. GoodIn(w2, u2)
  <2> SUFFICES ASSUME w2.repl PROVE GoodIn(w2, u2) BY DEF GoodIn
  <2>1. u2.origin <= w2.incs /\ u2.origin # 0 BY <1>9, <1>11, <1>13, <1>14 DEF GoodIn
  <2>2. ASSUME u2.origin = w2.reg PROVE ResumableIn(w2, u2)
    <3>1. x.exact BY <1>6, <1>11, <1>14, <2>2
    <3>2. u2.rows = w2.e.rows BY <1>12, <1>13, <3>1
    <3>3. u2.cursor.lsn = item.lsn BY <1>3, <1>4, <1>11
    <3> QED BY <3>2, <3>3 DEF ResumableIn
  <2> QED BY <2>1, <2>2 DEF GoodIn
<1>16. PICK big : big = [x EXCEPT !.q = Append(x.q, f)] OBVIOUS
<1>17. big.q = Append(x.q, f) /\ big.exact = x.exact /\ big.closed = x.closed /\ big.sub = x.sub
  BY <1>16 DEF IsSession, SessionFields, FreeSession
<1>18. PICK G : G = Append(x.q, f) OBVIOUS
<1>19. G \in Seq(Frame) /\ TrailGood(w2, v, G) /\ AllRead(v, G) = u2
  BY <1>5, <1>6, <1>7, <1>8, <1>10, <1>15, <1>18, TrailSnoc
<1>20. StreamIn(w2, v, big, w2.e.rows)
  <2>1. x.sub \in Nat \ {0} /\ x.sub <= w2.incs BY <1>6 DEF StreamIn
  <2>2. x.exact => u2.origin = x.sub /\ u2.rows = w2.e.rows BY <1>11, <1>12, <1>13
  <2>3. ~x.exact => w2.repl /\ u2.origin \notin {0, x.sub} BY <1>11, <1>14 DEF Preserves
  <2> QED BY <1>6, <1>17, <1>18, <1>19, <2>1, <2>2, <2>3 DEF StreamIn
<1>21. PICK frames : frames = <<f>> OBVIOUS
<1>22. frames \in Seq(Frame) /\ Append(x.q, f) = x.q \o frames BY <1>5, <1>6, <1>21
<1>23. w2.incs \in Nat /\ StreamIn(w2, v, Extended(x, frames), w2.e.rows)
  BY <1>16, <1>20, <1>22 DEF Extended
<1>24. StreamIn(w2, v, Delivered(x, frames), w2.e.rows) /\ Delivered(x, frames).client = x.client
  BY <1>6, <1>22, <1>23, DeliveredStream
<1> QED BY <1>1, <1>21, <1>24

-----------------------------------------------------------------------------
(* A replay *)

(* Kept() lists the items at the positions, in order. *)
LEMMA KeptLists ==
  ASSUME NEW S, NEW s \in Seq(S), NEW at \in SUBSET DOMAIN s
  PROVE  /\ Kept(s, at) \in Seq(S)
         /\ \E p \in [DOMAIN Kept(s, at) -> at] :
              /\ \A n \in DOMAIN Kept(s, at) : Kept(s, at)[n] = s[p[n]]
              /\ \A i \in at : \E n \in DOMAIN Kept(s, at) : p[n] = i
              /\ \A m, n \in DOMAIN Kept(s, at) : m < n => p[m] < p[n]
<1> DEFINE c == Cardinality(at)
           upTo(i) == {h \in at : h <= i}
           rank(i) == Cardinality(upTo(i))
           r == [i \in at |-> rank(i)]
           p == [n \in 1 .. c |-> CHOOSE i \in at : rank(i) = n]
<1>1. DOMAIN s = 1 .. Len(s) /\ Len(s) \in Nat OBVIOUS
<1>2. IsFiniteSet(at) /\ c \in Nat
  <2>1. IsFiniteSet(1 .. Len(s)) BY <1>1, FS_Interval
  <2> QED BY <1>1, <2>1, FS_Subset, FS_CardinalityType
<1>3. at \subseteq Nat BY <1>1
<1>4. ASSUME NEW i \in at PROVE rank(i) \in 1 .. c
  <2>1. upTo(i) \in SUBSET at /\ {i} \in SUBSET upTo(i) BY <1>3
  <2>2. IsFiniteSet(upTo(i)) /\ rank(i) <= c BY <1>2, <2>1, FS_Subset
  <2>3. rank(i) \in Nat BY <2>2, FS_CardinalityType
  <2>4. Cardinality({i}) = 1 BY FS_Singleton
  <2>5. Cardinality({i}) <= rank(i) BY <2>1, <2>2, FS_Subset
  <2> QED BY <1>2, <2>2, <2>3, <2>4, <2>5
<1>5. ASSUME NEW i \in at, NEW j \in at, i < j PROVE rank(i) < rank(j)
  <2>1. upTo(i) \in SUBSET upTo(j) /\ j \in upTo(j) /\ j \notin upTo(i) BY <1>3, <1>5
  <2>2. upTo(j) \in SUBSET at OBVIOUS
  <2>3. IsFiniteSet(upTo(j)) BY <1>2, <2>2, FS_Subset
  <2>4. rank(i) <= rank(j) /\ (rank(j) = rank(i) => upTo(j) = upTo(i)) BY <2>1, <2>3, FS_Subset
  <2>5. rank(i) # rank(j) BY <2>1, <2>4
  <2>6. rank(i) \in Nat /\ rank(j) \in Nat BY <1>4
  <2> HIDE DEF rank
  <2> QED BY <2>4, <2>5, <2>6
<1> HIDE DEF rank
<1>6. r \in Surjection(at, 1 .. c)
  <2>1. r \in [at -> 1 .. c] BY <1>4
  <2>2. ASSUME NEW i \in at, NEW j \in at, r[i] = r[j] PROVE i = j
    <3>1. i \in Nat /\ j \in Nat /\ rank(i) = rank(j) BY <1>3, <2>2
    <3>2. rank(i) \in Nat BY <1>4
    <3> QED BY <1>5, <3>1, <3>2
  <2>3. r \in Injection(at, 1 .. c) BY <2>1, <2>2 DEF Injection, IsInjective
  <2>4. IsFiniteSet(1 .. c) /\ Cardinality(1 .. c) = c BY <1>2, FS_Interval
  <2> QED BY <2>3, <2>4, FS_Injection
<1>7. ASSUME NEW n \in 1 .. c PROVE p[n] \in at /\ rank(p[n]) = n
  <2>1. PICK i \in at : r[i] = n BY <1>6 DEF Surjection
  <2>2. \E j \in at : rank(j) = n BY <2>1
  <2> QED BY <2>2
<1>8. Kept(s, at) = [n \in 1 .. c |-> s[p[n]]] BY DEF Kept, rank
<1> HIDE DEF p, r, c
<1>9. Kept(s, at) \in Seq(S) /\ DOMAIN Kept(s, at) = 1 .. c
  <2>1. \A n \in 1 .. c : s[p[n]] \in S BY <1>1, <1>7
  <2> QED BY <1>2, <1>8, <2>1, IsASeq
<1>10. p \in [1 .. c -> at] BY <1>7 DEF p
<1>11. ASSUME NEW i \in at PROVE \E n \in 1 .. c : p[n] = i
  <2>1. rank(i) \in 1 .. c BY <1>4
  <2>2. p[rank(i)] \in at /\ rank(p[rank(i)]) = rank(i) BY <1>7, <2>1
  <2>3. p[rank(i)] \in Nat /\ i \in Nat /\ rank(i) \in Nat BY <1>3, <2>1, <2>2
  <2>4. p[rank(i)] = i BY <1>5, <2>2, <2>3
  <2> QED BY <2>1, <2>4
<1>12. ASSUME NEW m \in 1 .. c, NEW n \in 1 .. c, m < n PROVE p[m] < p[n]
  <2>1. p[m] \in at /\ p[n] \in at /\ rank(p[m]) = m /\ rank(p[n]) = n BY <1>7
  <2>2. p[m] \in Nat /\ p[n] \in Nat BY <1>3, <2>1
  <2>3. p[m] # p[n] /\ ~(p[n] < p[m]) BY <1>5, <1>12, <2>1
  <2> QED BY <2>2, <2>3
<1>13. \A n \in 1 .. c : Kept(s, at)[n] = s[p[n]] BY <1>8
<1> QED BY <1>9, <1>10, <1>11, <1>12, <1>13

(* SetToSeq() of a finite set lists it. *)
LEMMA SetToSeqIsList ==
  ASSUME NEW S, IsFiniteSet(S)
  PROVE  /\ SetToSeq(S) \in Seq(S)
         /\ \A x \in S : \E i \in 1 .. Len(SetToSeq(S)) : SetToSeq(S)[i] = x
<1> DEFINE n == Cardinality(S)
           q == SetToSeq(S)
<1>1. n \in Nat /\ ExistsBijection(1 .. n, S) BY FS_CardinalityType
<1>2. \E f \in [1 .. n -> S] : IsInjective(f)
  BY <1>1 DEF ExistsBijection, Bijection, Injection, IsInjective
<1>3. q \in [1 .. n -> S] /\ IsInjective(q) BY <1>2 DEF SetToSeq
<1> HIDE DEF q
<1>4. q \in Injection(1 .. n, S) BY <1>3 DEF Injection, IsInjective
<1>5. Cardinality(1 .. n) = n BY <1>1, FS_Interval
<1>6. q \in Surjection(1 .. n, S) BY <1>1, <1>4, <1>5, FS_Injection
<1>7. q \in Seq(S) /\ Len(q) = n
  <2> HIDE DEF n
  <2> QED BY <1>1, <1>3
<1> QED BY <1>6, <1>7 DEF Surjection, q

(* The first n frames of q are the changes of the ring at p, all of them at   *)
(* or after the LSN; they have every such change on the row; and the row was  *)
(* known where there is none.                                                 *)
Replays(w, since, q, n, p) ==
  /\ \A m \in 1 .. n : /\ p[m] \in DOMAIN w.e.ring /\ w.e.ring[p[m]].lsn >= since
                        /\ q[m].kind = "change"
                        /\ q[m].key = w.e.ring[p[m]].key /\ q[m].val = w.e.ring[p[m]].val
  /\ \A m, h \in 1 .. n : m < h => p[m] < p[h]
ReplaysAll(w, since, n, p, k) ==
  \A j \in DOMAIN w.e.ring :
    w.e.ring[j].lsn >= since /\ w.e.ring[j].key = k => \E m \in 1 .. n : p[m] = j
KnownBefore(w, since, rows, k) ==
  (\A i \in DOMAIN w.e.ring : w.e.ring[i].key = k => w.e.ring[i].lsn < since)
    => rows[k] = w.e.rows[k]
ReplaysRow(w, since, rows, q, n, p, k) ==
  Replays(w, since, q, n, p) /\ ReplaysAll(w, since, n, p, k) /\ KnownBefore(w, since, rows, k)

(* A row, once the changes on it that the ring kept have been replayed. *)
LEMMA ReplayedRow ==
  ASSUME NEW w, RingIn(w), NEW rows, NEW since \in Nat, NEW q, NEW n \in Nat, NEW p, NEW k \in Keys,
         ReplaysRow(w, since, rows, q, n, p, k)
  PROVE  Over(rows, q, n)[k] = w.e.rows[k]
<1> USE DEF ReplaysRow
<1>0. PICK ring : ring = w.e.ring OBVIOUS
<1>1. /\ ring \in Seq(Item)
      /\ \A i, j \in DOMAIN ring : i <= j => ring[i].lsn <= ring[j].lsn
      /\ \A i \in DOMAIN ring :
           (\A j \in DOMAIN ring : j > i => ring[j].key # ring[i].key)
             => w.e.rows[ring[i].key] = ring[i].val
  BY <1>0 DEF RingIn
<1>2. \A i \in DOMAIN ring : i \in Nat /\ ring[i].lsn \in Nat
  <2> TAKE i \in DOMAIN ring
  <2>1. i \in Nat /\ ring[i] \in Item BY <1>1
  <2> QED BY <2>1 DEF Item
<1>3. \A m \in 1 .. n : (Sets(q[m], k) <=> ring[p[m]].key = k) /\ p[m] \in DOMAIN ring
  BY <1>0 DEF Sets, Replays
<1>4. CASE \A m \in 1 .. n : ~Sets(q[m], k)
  <2>1. \A i \in DOMAIN ring : ring[i].key = k => ring[i].lsn < since
    <3> TAKE i \in DOMAIN ring
    <3> HAVE ring[i].key = k
    <3>1. ~(ring[i].lsn >= since)
      <4> SUFFICES ASSUME ring[i].lsn >= since PROVE FALSE OBVIOUS
      <4>1. PICK m \in 1 .. n : p[m] = i BY <1>0 DEF ReplaysAll
      <4> QED BY <1>3, <1>4, <4>1
    <3> QED BY <1>2, <3>1
  <2>2. rows[k] = w.e.rows[k] BY <1>0, <2>1 DEF KnownBefore
  <2> QED BY <1>4, <2>2, OverIs
<1>5. CASE \E m \in 1 .. n : Sets(q[m], k) /\ \A j \in m + 1 .. n : ~Sets(q[j], k)
  <2>1. PICK m \in 1 .. n : Sets(q[m], k) /\ \A j \in m + 1 .. n : ~Sets(q[j], k) BY <1>5
  <2>2. PICK i : i = p[m] OBVIOUS
  <2>3. i \in DOMAIN ring /\ ring[i].lsn >= since /\ ring[i].key = k /\ q[m].val = ring[i].val
        /\ q[m].kind = "change"
    BY <1>0, <1>3, <2>1, <2>2 DEF Replays
  <2>4. ASSUME NEW j \in DOMAIN ring, j > i PROVE ring[j].key # k
    <3> SUFFICES ASSUME ring[j].key = k PROVE FALSE OBVIOUS
    <3>1. ring[j].lsn >= since
      <4>1. ring[i].lsn <= ring[j].lsn BY <1>1, <1>2, <2>3, <2>4
      <4> QED BY <1>2, <2>3, <4>1
    <3>2. PICK h \in 1 .. n : p[h] = j BY <1>0, <3>1 DEF ReplaysAll
    <3>3. h \in m + 1 .. n
      <4>1. i \in Nat /\ j \in Nat BY <1>2, <2>3
      <4>2. h # m /\ ~(h < m) BY <2>2, <2>4, <3>2, <4>1 DEF Replays
      <4> QED BY <4>2
    <3> QED BY <1>3, <2>1, <3>2, <3>3
  <2>5. w.e.rows[k] = ring[i].val BY <1>1, <2>3, <2>4
  <2>6. Over(rows, q, n)[k] = Written(q[m], k) BY <2>1, OverIs
  <2> QED BY <2>3, <2>5, <2>6 DEF Written
<1> QED BY <1>4, <1>5, OverIs

(* Changes leave the origin alone. *)
LEMMA OriginSame ==
  ASSUME NEW v, NEW F, NEW n \in Nat, \A i \in 1 .. n : F[i].kind = "change"
  PROVE  OriginAt(v, F, n) = v.origin
BY OriginIs

(* The frames of a replay. *)
ReplayFrames(e, cursor) ==
  LET missed == ReplayFrom(e, cursor) IN
  [n \in 1 .. Len(missed) |-> ChangeFrame(missed[n], At(cursor.id, missed[n].lsn))]

(* A replay from the ring, to the client that presents its cursor. *)
LEMMA ReplayStream ==
  ASSUME NEW w, RingIn(w), w.repl, w.incs \in Nat, w.reg \in Nat \ {0}, w.reg <= w.incs, w.top \in Nat,
         NEW v \in Stores, GoodIn(w, v), Decodes(v.cursor), Covers(w.e, v.cursor),
         NEW q, q = ReplayFrames(w.e, v.cursor)
  PROVE  /\ q \in Seq(Frame) /\ TrailGood(w, v, q)
         /\ AllRead(v, q).origin = v.origin /\ v.origin # 0
         /\ v.origin = w.reg => AllRead(v, q).rows = w.e.rows
<1>0. PICK ring, at, missed, since :
        /\ ring = w.e.ring /\ since = v.cursor.lsn
        /\ at = {i \in DOMAIN ring : ring[i].lsn >= since} /\ missed = Kept(ring, at)
  OBVIOUS
<1>1. /\ ring \in Seq(Item) /\ w.e.id \in Nat
      /\ w.live => \A i \in DOMAIN ring : ring[i].lsn <= w.top
      /\ \A i, j \in DOMAIN ring : i <= j => ring[i].lsn <= ring[j].lsn
  BY <1>0 DEF RingIn
<1>2. since \in Nat /\ v.cursor.id \in Nat \ {0} BY <1>0 DEF Stores, Cursor, Decodes
<1>3. v.origin # 0 /\ v.origin \in Nat BY DEF GoodIn, Stores
<1>4. at \in SUBSET DOMAIN ring BY <1>0
<1>5. /\ missed \in Seq(Item)
      /\ \E p \in [DOMAIN missed -> at] :
           /\ \A n \in DOMAIN missed : missed[n] = ring[p[n]]
           /\ \A i \in at : \E n \in DOMAIN missed : p[n] = i
           /\ \A m, n \in DOMAIN missed : m < n => p[m] < p[n]
  <2>1. /\ Kept(ring, at) \in Seq(Item)
        /\ \E p \in [DOMAIN Kept(ring, at) -> at] :
             /\ \A n \in DOMAIN Kept(ring, at) : Kept(ring, at)[n] = ring[p[n]]
             /\ \A i \in at : \E n \in DOMAIN Kept(ring, at) : p[n] = i
             /\ \A m, n \in DOMAIN Kept(ring, at) : m < n => p[m] < p[n]
    BY <1>1, <1>4, KeptLists
  <2>2. missed = Kept(ring, at) BY <1>0
  <2> QED BY <2>1, <2>2, Zenon
<1>6. PICK l : l = Len(missed) OBVIOUS
<1>7. l \in Nat /\ DOMAIN missed = 1 .. l BY <1>5, <1>6
<1>8. PICK p \in [1 .. l -> at] :
        /\ \A n \in 1 .. l : missed[n] = ring[p[n]]
        /\ \A i \in at : \E n \in 1 .. l : p[n] = i
        /\ \A m, n \in 1 .. l : m < n => p[m] < p[n]
  BY <1>5, <1>7
<1>9. q = [n \in 1 .. l |-> ChangeFrame(missed[n], At(v.cursor.id, missed[n].lsn))]
  BY <1>0, <1>6 DEF ReplayFrom, ReplayFrames
<1>10. ASSUME NEW n \in 1 .. l
       PROVE  /\ p[n] \in at /\ p[n] \in DOMAIN ring /\ q[n] \in Frame /\ q[n].kind = "change"
              /\ q[n].key = ring[p[n]].key /\ q[n].val = ring[p[n]].val
              /\ q[n].cursor = At(v.cursor.id, ring[p[n]].lsn)
              /\ ring[p[n]].lsn \in Nat /\ ring[p[n]] \in Item
  <2>1. p[n] \in at /\ p[n] \in DOMAIN ring /\ missed[n] = ring[p[n]] BY <1>4, <1>8
  <2>2. ring[p[n]] \in Item BY <1>1, <2>1
  <2>3. PICK item : item = ring[p[n]] OBVIOUS
  <2>4. q[n] = ChangeFrame(item, At(v.cursor.id, item.lsn)) BY <1>9, <2>1, <2>3
  <2>5. item.key \in Keys /\ item.val \in Nat /\ item.lsn \in Nat BY <2>2, <2>3 DEF Item
  <2>6. At(v.cursor.id, item.lsn) \in Cursor \ {Undefined} BY <1>2, <2>5 DEF At, Cursor, Undefined
  <2>7. /\ q[n] \in [kind : {"change"}, key : Keys, val : Nat, cursor : Cursor \ {Undefined}]
        /\ q[n].kind = "change" /\ q[n].key = item.key /\ q[n].val = item.val
        /\ q[n].cursor = At(v.cursor.id, item.lsn)
    BY <2>4, <2>5, <2>6 DEF ChangeFrame
  <2>8. q[n] \in Frame BY <2>7 DEF Frame
  <2> QED BY <2>1, <2>2, <2>3, <2>5, <2>7, <2>8
<1>11. q \in Seq(Frame) /\ Len(q) = l
  <2>1. DOMAIN q = 1 .. l /\ \A n \in 1 .. l : q[n] \in Frame BY <1>9, <1>10
  <2>2. q = [n \in 1 .. l |-> q[n]] BY <1>9
  <2>3. q \in Seq(Frame) BY <1>7, <2>1, <2>2, IsASeq
  <2> QED BY <1>7, <2>1, <2>3
<1>12. ASSUME NEW n \in 0 .. l
       PROVE  StoreAt(v, q, n) \in Stores /\ StoreAt(v, q, n).origin = v.origin
  <2>1. StoreAt(v, q, n) \in Stores BY <1>11, StoreAtTyped
  <2>0. n \in Nat /\ \A i \in 1 .. n : i \in 1 .. l BY <1>7
  <2>2. \A i \in 1 .. n : q[i].kind = "change" BY <1>10, <2>0
  <2>3. OriginAt(v, q, n) = v.origin BY <2>0, <2>2, OriginSame
  <2> QED BY <2>1, <2>3 DEF StoreAt
<1>13. ASSUME v.origin = w.reg, NEW n \in 0 .. l, NEW k \in Keys,
              \A j \in at : ring[j].key = k => \E m \in 1 .. n : p[m] = j
       PROVE  StoreAt(v, q, n).rows[k] = w.e.rows[k]
  <2>1. ResumableIn(w, v) BY <1>13 DEF GoodIn
  <2>2. (\A i \in DOMAIN ring : ring[i].key = k => ring[i].lsn < since) => v.rows[k] = w.e.rows[k]
    BY <1>0, <2>1 DEF ResumableIn, Covers
  <2>3. PICK rows : rows = v.rows OBVIOUS
  <2>4. n \in Nat /\ \A m \in 1 .. n : m \in 1 .. l BY <1>7
  <2>5. Replays(w, since, q, n, p)
    <3>1. \A m \in 1 .. n : /\ p[m] \in DOMAIN ring /\ ring[p[m]].lsn >= since
                            /\ q[m].kind = "change"
                            /\ q[m].key = ring[p[m]].key /\ q[m].val = ring[p[m]].val
      BY <1>0, <1>10, <2>4
    <3>2. \A m, h \in 1 .. n : m < h => p[m] < p[h] BY <1>8, <2>4
    <3> QED BY <1>0, <3>1, <3>2 DEF Replays
  <2>6. ReplaysAll(w, since, n, p, k) BY <1>0, <1>13 DEF ReplaysAll
  <2>7. KnownBefore(w, since, rows, k) BY <1>0, <2>2, <2>3 DEF KnownBefore
  <2>8. n \in Nat /\ since \in Nat BY <1>2, <2>4
  <2>9. ReplaysRow(w, since, rows, q, n, p, k) BY <2>5, <2>6, <2>7 DEF ReplaysRow
  <2>10. Over(rows, q, n)[k] = w.e.rows[k]
    BY <2>8, <2>9, ReplayedRow
  <2> QED BY <2>3, <2>10 DEF StoreAt
<1>14. ASSUME v.origin = w.reg, NEW n \in 1 .. l PROVE ResumableIn(w, StoreAt(v, q, n))
  <2>1. PICK u : u = StoreAt(v, q, n) OBVIOUS
  <2>2. PICK top : top = p[n] OBVIOUS
  <2>3. /\ top \in DOMAIN ring /\ ring[top].lsn \in Nat
        /\ q[n].cursor = At(v.cursor.id, ring[top].lsn) /\ q[n].kind = "change"
    BY <1>10, <2>2
  <2>4. u.cursor = At(v.cursor.id, ring[top].lsn) BY <1>7, <2>1, <2>3 DEF StoreAt, CursorAt
  <2>5. u.cursor.lsn = ring[top].lsn BY <2>4 DEF At
  <2>6. w.live => u.cursor.lsn <= w.top BY <1>1, <2>3, <2>5
  <2>7. ASSUME NEW k \in Keys, \A i \in DOMAIN ring : ring[i].key = k => ring[i].lsn < u.cursor.lsn
        PROVE  u.rows[k] = w.e.rows[k]
    <3>1. ASSUME NEW j \in at, ring[j].key = k PROVE \E m \in 1 .. n : p[m] = j
      <4>1. j \in DOMAIN ring /\ j \in Nat /\ top \in Nat /\ ring[j].lsn \in Nat
        <5>1. j \in DOMAIN ring BY <1>4
        <5>2. j \in Nat /\ top \in Nat /\ ring[j] \in Item BY <1>1, <2>3, <5>1
        <5> QED BY <5>1, <5>2 DEF Item
      <4>2. ring[j].lsn < ring[top].lsn BY <2>5, <2>7, <3>1, <4>1
      <4>3. ~(top <= j)
        <5>1. top <= j => ring[top].lsn <= ring[j].lsn BY <1>1, <2>3, <4>1
        <5> QED BY <2>3, <4>1, <4>2, <5>1
      <4>4. PICK m \in 1 .. l : p[m] = j BY <1>8
      <4>5. ~(n < m) BY <1>8, <2>2, <4>1, <4>3, <4>4
      <4>6. m \in 1 .. n BY <1>7, <4>5
      <4> QED BY <4>4, <4>6
    <3>2. n \in 0 .. l OBVIOUS
    <3> QED BY <1>13, <1>14, <2>1, <3>1, <3>2
  <2>8. w.e.id # 0 BY DEF Covers
  <2>9. ResumableIn(w, u) BY <1>0, <2>6, <2>7, <2>8 DEF ResumableIn
  <2> QED BY <2>1, <2>9
<1>15. TrailGood(w, v, q)
  <2> SUFFICES ASSUME NEW n \in 0 .. l PROVE GoodIn(w, StoreAt(v, q, n))
    BY <1>11 DEF TrailGood
  <2>1. CASE n = 0 BY <2>1, StoreZero
  <2>2. CASE n # 0
    <3>1. n \in 1 .. l BY <1>7, <2>2
    <3>2. v.origin <= w.incs BY DEF GoodIn
    <3>3. v.origin = w.reg => ResumableIn(w, StoreAt(v, q, n)) BY <1>14, <3>1
    <3>4. StoreAt(v, q, n).origin = v.origin BY <1>12
    <3> QED BY <1>3, <3>2, <3>3, <3>4 DEF GoodIn
  <2> QED BY <2>1, <2>2
<1>16. AllRead(v, q) = StoreAt(v, q, l) /\ l \in 0 .. l BY <1>7, <1>11 DEF AllRead
<1>17. ASSUME v.origin = w.reg PROVE AllRead(v, q).rows = w.e.rows
  <2>1. \A k \in Keys : StoreAt(v, q, l).rows[k] = w.e.rows[k] BY <1>8, <1>13, <1>16, <1>17
  <2>2. StoreAt(v, q, l).rows \in Rows BY <1>12, <1>16 DEF Stores
  <2>3. w.e.rows \in Rows BY DEF RingIn
  <2>4. StoreAt(v, q, l).rows = w.e.rows
    <3>1. PICK a, b : a = StoreAt(v, q, l).rows /\ b = w.e.rows OBVIOUS
    <3>2. a \in [Keys -> Nat] /\ b \in [Keys -> Nat] /\ \A k \in Keys : a[k] = b[k]
      BY <2>1, <2>2, <2>3, <3>1 DEF Rows
    <3>3. a = b BY <3>2
    <3> QED BY <3>1, <3>3
  <2> QED BY <1>16, <2>4
<1> QED BY <1>3, <1>11, <1>12, <1>15, <1>16, <1>17

(* A stream that starts from a snapshot. *)
LEMMA SnapshotStream ==
  ASSUME NEW w, w.incs \in Nat, w.reg \in Nat \ {0}, w.reg <= w.incs, w.e.rows \in Rows,
         NEW v \in Stores, GoodIn(w, v), NEW cursor \in Cursor \ {Undefined},
         Decodes(cursor) /\ w.repl => (w.e.id = 0 => cursor.lsn = 0) /\ (w.live => cursor.lsn <= w.top),
         NEW q, q = <<SnapshotFrame(w.e.rows, cursor, w.reg)>>
  PROVE  /\ q \in Seq(Frame) /\ TrailGood(w, v, q)
         /\ AllRead(v, q).origin = w.reg /\ AllRead(v, q).rows = w.e.rows
<1>1. PICK f : f = SnapshotFrame(w.e.rows, cursor, w.reg) OBVIOUS
<1>2. /\ f \in Frame /\ f.kind = "snapshot" /\ f.rows = w.e.rows /\ f.cursor = cursor /\ f.inc = w.reg
  <2>1. PICK rows, inc : rows = w.e.rows /\ inc = w.reg OBVIOUS
  <2>2. f = [kind |-> "snapshot", rows |-> rows, cursor |-> cursor, inc |-> inc]
    BY <1>1, <2>1 DEF SnapshotFrame
  <2>3. rows \in Rows /\ inc \in Nat \ {0} BY <2>1
  <2>4. f \in [kind : {"snapshot"}, rows : Rows, cursor : Cursor \ {Undefined}, inc : Nat \ {0}]
    BY <2>2, <2>3
  <2> QED BY <2>1, <2>2, <2>4 DEF Frame
<1>3. PICK u : u = Store(f, v) OBVIOUS
<1>4. u = [rows |-> w.e.rows, cursor |-> cursor, origin |-> w.reg]
  BY <1>2, <1>3 DEF Store
<1>5. u.rows = w.e.rows /\ u.cursor = cursor /\ u.origin = w.reg BY <1>4
<1>6. GoodIn(w, u) BY <1>5 DEF GoodIn, ResumableIn
<1>7. <<>> \in Seq(Frame) /\ TrailGood(w, v, <<>>) /\ AllRead(v, <<>>) = v BY TrailNone
<1>8. PICK none : none = <<>> OBVIOUS
<1>9. none \in Seq(Frame) /\ TrailGood(w, v, none) /\ GoodIn(w, Store(f, AllRead(v, none)))
  BY <1>3, <1>6, <1>7, <1>8
<1>10. /\ Append(none, f) \in Seq(Frame) /\ TrailGood(w, v, Append(none, f))
       /\ AllRead(v, Append(none, f)) = Store(f, AllRead(v, none))
  BY <1>2, <1>9, TrailSnoc
<1>11. q = Append(none, f) BY <1>1, <1>8
<1> QED BY <1>3, <1>5, <1>7, <1>8, <1>10, <1>11

(* A subscription: the queue it starts with, whichever way it resumes. *)
LEMMA SubscribedStream ==
  ASSUME NEW w, w.incs \in Nat, w.reg \in Nat \ {0}, w.reg <= w.incs, w.e.rows \in Rows,
         w.repl = (path = "replication"), path \in {"poll", "replication"}, w.id = liveId,
         path = "replication" => RingIn(w) /\ w.top \in Nat /\ liveId \in Nat,
         NEW x, IsSession(x), ~x.closed,
         view[x.client] \in Stores, GoodIn(w, view[x.client]),
         Decodes(x.since) /\ Covers(w.e, x.since) => x.since = view[x.client].cursor
  PROVE  /\ StreamIn(w, view[x.client], Subscribed(x, w.reg, w.e), w.e.rows)
         /\ Subscribed(x, w.reg, w.e).client = x.client
<1>0. PICK v, e, i : v = view[x.client] /\ e = w.e /\ i = w.reg OBVIOUS
<1> DEFINE replay == path = "replication" /\ Decodes(x.since) /\ Covers(e, x.since)
           missed == ReplayFrom(e, x.since)
           again == [n \in 1 .. Len(missed) |-> ChangeFrame(missed[n], At(x.since.id, missed[n].lsn))]
           anew == <<SnapshotFrame(e.rows, SnapshotCursor(e), i)>>
<1>1. PICK y : y = Subscribed(x, i, e) OBVIOUS
<1>2. /\ y.q = IF replay THEN again ELSE anew
      /\ y.exact = (~replay \/ v.origin \in {0, i})
      /\ y.sub = i /\ y.closed = x.closed /\ y.client = x.client
  BY <1>0, <1>1 DEF Subscribed, IsSession, SessionFields, FreeSession
<1>3. x.closed \in BOOLEAN BY DEF IsSession
<1>4. v \in Stores /\ GoodIn(w, v) /\ i \in Nat \ {0} /\ i <= w.incs BY <1>0
<1>5. CASE replay
  <2>1. /\ path = "replication" /\ Decodes(x.since) /\ Covers(e, x.since) BY <1>5
  <2>2. x.since = v.cursor BY <1>0, <2>1
  <2>3. PICK q : q = again OBVIOUS
  <2>4. q = ReplayFrames(w.e, v.cursor) BY <1>0, <2>2, <2>3 DEF ReplayFrames
  <2>5. w.repl /\ Decodes(v.cursor) /\ Covers(w.e, v.cursor) /\ RingIn(w) /\ w.top \in Nat
    BY <1>0, <2>1, <2>2
  <2> HIDE DEF again, missed
  <2>6. /\ q \in Seq(Frame) /\ TrailGood(w, v, q)
        /\ AllRead(v, q).origin = v.origin /\ v.origin # 0
        /\ v.origin = w.reg => AllRead(v, q).rows = w.e.rows
    BY <1>4, <2>4, <2>5, ReplayStream
  <2>7. y.q = q /\ y.exact = (v.origin = i) /\ y.exact \in BOOLEAN BY <1>2, <1>5, <2>3, <2>6
  <2>8. StreamIn(w, v, y, w.e.rows)
    BY <1>0, <1>2, <1>3, <1>4, <2>5, <2>6, <2>7 DEF StreamIn
  <2> QED BY <1>0, <1>1, <1>2, <2>8
<1>6. CASE ~replay
  <2>1. PICK cursor : cursor = SnapshotCursor(e) OBVIOUS
  <2>2. NonResumable \in Cursor \ {Undefined} /\ NonResumable.id = 0 /\ NonResumable.lsn \in Nat
    BY DEF NonResumable, Undefined, Cursor
  <2>3. /\ cursor \in Cursor \ {Undefined}
        /\ Decodes(cursor) /\ w.repl => (e.id = 0 => cursor.lsn = 0) /\ (w.live => cursor.lsn <= w.top)
    <3>1. CASE path = "poll" \/ liveId = 0
      BY <2>1, <2>2, <3>1 DEF SnapshotCursor, Decodes
    <3>2. CASE ~(path = "poll" \/ liveId = 0)
      <4>1. path = "replication" /\ RingIn(w) /\ w.top \in Nat /\ liveId \in Nat \ {0} BY <3>2
      <4>2. PICK lsn : lsn = IF e.id = liveId THEN Last(e.ring).lsn ELSE 0 OBVIOUS
      <4>3. cursor = [id |-> liveId, lsn |-> lsn] BY <2>1, <3>2, <4>2 DEF SnapshotCursor, At
      <4>4. lsn \in Nat /\ (e.id = 0 => lsn = 0) /\ (w.live => lsn <= w.top)
        <5>1. CASE e.id = liveId
          <6>1. PICK ring : ring = e.ring OBVIOUS
          <6>2. ring \in Seq(Item) /\ ring # <<>> /\ (w.live => \A n \in DOMAIN ring : ring[n].lsn <= w.top)
            BY <1>0, <4>1, <5>1, <6>1 DEF RingIn
          <6>3. Len(ring) \in DOMAIN ring /\ ring[Len(ring)] \in Item BY <6>2
          <6>4. lsn = ring[Len(ring)].lsn BY <4>2, <5>1, <6>1 DEF Last
          <6> QED BY <4>1, <5>1, <6>2, <6>3, <6>4 DEF Item
        <5>2. CASE e.id # liveId BY <4>1, <4>2, <5>2
        <5> QED BY <5>1, <5>2
      <4> QED BY <4>1, <4>3, <4>4 DEF Cursor, Undefined
    <3> QED BY <3>1, <3>2
  <2>4. PICK q : q = <<SnapshotFrame(w.e.rows, cursor, w.reg)>> OBVIOUS
  <2>5. /\ q \in Seq(Frame) /\ TrailGood(w, v, q)
        /\ AllRead(v, q).origin = w.reg /\ AllRead(v, q).rows = w.e.rows
    <3>1. Decodes(cursor) /\ w.repl => (w.e.id = 0 => cursor.lsn = 0) /\ (w.live => cursor.lsn <= w.top)
      BY <1>0, <2>3
    <3>2. cursor \in Cursor \ {Undefined} BY <2>3
    <3> HIDE DEF replay
    <3> QED BY <1>4, <2>4, <3>1, <3>2, SnapshotStream
  <2>6. y.q = q /\ y.exact = TRUE BY <1>0, <1>2, <1>6, <2>1, <2>4
  <2>7. StreamIn(w, v, y, w.e.rows)
    BY <1>0, <1>2, <1>3, <1>4, <2>5, <2>6 DEF StreamIn
  <2> QED BY <1>0, <1>1, <1>2, <2>7
<1> QED BY <1>5, <1>6

-----------------------------------------------------------------------------
(* A poll *)

(* More frames, of which none sets the row, or the last that does says val. *)
LEMMA OverSkips ==
  ASSUME NEW rows, NEW F, NEW G, NEW n \in Nat, NEW m \in Nat, n <= m, NEW k \in Keys,
         \A i \in 1 .. n : G[i] = F[i], \A i \in n + 1 .. m : ~Sets(G[i], k)
  PROVE  Over(rows, G, m)[k] = Over(rows, F, n)[k]
<1>1. CASE \A i \in 1 .. n : ~Sets(F[i], k)
  <2>1. \A i \in 1 .. m : ~Sets(G[i], k)
    <3> TAKE i \in 1 .. m
    <3>1. i \in 1 .. n \/ i \in n + 1 .. m OBVIOUS
    <3> QED BY <1>1, <3>1
  <2> QED BY <1>1, <2>1, OverIs
<1>2. CASE \E i \in 1 .. n : Sets(F[i], k) /\ \A j \in i + 1 .. n : ~Sets(F[j], k)
  <2>1. PICK i \in 1 .. n : Sets(F[i], k) /\ \A j \in i + 1 .. n : ~Sets(F[j], k) BY <1>2
  <2>2. i \in 1 .. m /\ G[i] = F[i] OBVIOUS
  <2>3. ASSUME NEW j \in i + 1 .. m PROVE ~Sets(G[j], k)
    <3>1. j \in i + 1 .. n \/ j \in n + 1 .. m OBVIOUS
    <3>2. j \in i + 1 .. n => j \in 1 .. n OBVIOUS
    <3> QED BY <2>1, <3>1, <3>2
  <2>4. Over(rows, F, n)[k] = Written(F[i], k) BY <2>1, OverIs
  <2>5. Over(rows, G, m)[k] = Written(G[i], k) BY <2>1, <2>2, <2>3, OverIs
  <2> QED BY <2>2, <2>4, <2>5
<1> QED BY <1>1, <1>2, OverIs

Says(G, n, m, k, val) ==
  /\ \E i \in n + 1 .. m : Sets(G[i], k)
  /\ \A i \in n + 1 .. m : Sets(G[i], k) => Written(G[i], k) = val

(* Frames that all say the same of a row, and of which one does say it. *)
LEMMA OverSays ==
  ASSUME NEW rows, NEW G, NEW n \in Nat, NEW m \in Nat, NEW k \in Keys, NEW val, Says(G, n, m, k, val)
  PROVE  Over(rows, G, m)[k] = val
<1> USE DEF Says
<1>0. PICK h \in n + 1 .. m : Sets(G[h], k) OBVIOUS
<1>1. h \in 1 .. m OBVIOUS
<1>2. PICK i \in 1 .. m : Sets(G[i], k) /\ \A j \in i + 1 .. m : ~Sets(G[j], k)
  BY <1>0, <1>1, OverIs
<1>3. i \in n + 1 .. m
  <2>1. ~(i < h) BY <1>0, <1>1, <1>2
  <2> QED BY <2>1
<1>4. Over(rows, G, m)[k] = Written(G[i], k) BY <1>2, OverIs
<1> QED BY <1>2, <1>3, <1>4

(* Changes leave the origin alone, after the frames before them. *)
LEMMA OriginSkips ==
  ASSUME NEW v, NEW F, NEW G, NEW n \in Nat, NEW m \in Nat, n <= m,
         \A i \in 1 .. n : G[i] = F[i], \A i \in n + 1 .. m : G[i].kind = "change"
  PROVE  OriginAt(v, G, m) = OriginAt(v, F, n)
<1>1. CASE \A i \in 1 .. n : F[i].kind = "change"
  <2>1. \A i \in 1 .. m : G[i].kind = "change"
    <3> TAKE i \in 1 .. m
    <3>1. i \in 1 .. n \/ i \in n + 1 .. m OBVIOUS
    <3> QED BY <1>1, <3>1
  <2> QED BY <1>1, <2>1, OriginIs
<1>2. CASE \E i \in 1 .. n : F[i].kind # "change" /\ \A j \in i + 1 .. n : F[j].kind = "change"
  <2>1. PICK i \in 1 .. n : F[i].kind # "change" /\ \A j \in i + 1 .. n : F[j].kind = "change" BY <1>2
  <2>2. i \in 1 .. m /\ G[i] = F[i] OBVIOUS
  <2>3. ASSUME NEW j \in i + 1 .. m PROVE G[j].kind = "change"
    <3>1. j \in i + 1 .. n \/ j \in n + 1 .. m OBVIOUS
    <3>2. j \in i + 1 .. n => j \in 1 .. n OBVIOUS
    <3> QED BY <2>1, <3>1, <3>2
  <2>4. OriginAt(v, F, n) = OriginOf(F[i]) BY <2>1, OriginIs
  <2>5. OriginAt(v, G, m) = OriginOf(G[i]) BY <2>1, <2>2, <2>3, OriginIs
  <2> QED BY <2>2, <2>4, <2>5
<1> QED BY <1>1, <1>2, OriginIs

(* The frames of a poll that found the rows changed from one to the other. *)
Diff(rows, rows2) == {k \in Keys : rows2[k] # rows[k]}
PollFrames(rows, rows2) ==
  LET diff == SetToSeq(Diff(rows, rows2)) IN
  [n \in 1 .. Len(diff) |-> ChangeFrame([key |-> diff[n], val |-> rows2[diff[n]]], NonResumable)]

Tells(frames, rows, rows2) ==
  /\ \A n \in 1 .. Len(frames) :
       /\ frames[n].kind = "change" /\ frames[n].key \in Diff(rows, rows2)
       /\ frames[n].val = rows2[frames[n].key]
  /\ \A k \in Diff(rows, rows2) : \E n \in 1 .. Len(frames) : frames[n].key = k

(* The frames of a poll tell every row that changed, once. *)
LEMMA PollFramesAre ==
  ASSUME NEW rows \in Rows, NEW rows2 \in Rows
  PROVE  PollFrames(rows, rows2) \in Seq(Frame) /\ Tells(PollFrames(rows, rows2), rows, rows2)
<1>1. PICK S, diff, frames :
        S = Diff(rows, rows2) /\ diff = SetToSeq(S) /\ frames = PollFrames(rows, rows2)
  OBVIOUS
<1>2. S \in SUBSET Keys BY <1>1 DEF Diff
<1>3. IsFiniteSet(S) BY <1>2, KeysAssumption, FS_Subset
<1>4. /\ SetToSeq(S) \in Seq(S)
      /\ \A x \in S : \E i \in 1 .. Len(SetToSeq(S)) : SetToSeq(S)[i] = x
  BY <1>3, SetToSeqIsList
<1>5. PICK l : l = Len(diff) OBVIOUS
<1>6. diff \in Seq(S) /\ l \in Nat /\ \A x \in S : \E i \in 1 .. l : diff[i] = x BY <1>1, <1>4, <1>5
<1>7. frames = [n \in 1 .. l |-> ChangeFrame([key |-> diff[n], val |-> rows2[diff[n]]], NonResumable)]
  BY <1>1, <1>5 DEF PollFrames
<1>8. ASSUME NEW n \in 1 .. l
      PROVE  /\ frames[n] \in Frame /\ frames[n].kind = "change" /\ frames[n].key = diff[n]
             /\ diff[n] \in S /\ frames[n].val = rows2[diff[n]]
  <2>1. diff[n] \in S BY <1>5, <1>6
  <2>2. PICK k : k = diff[n] OBVIOUS
  <2>3. k \in Keys /\ rows2[k] \in Nat BY <1>2, <2>1, <2>2 DEF Rows
  <2>4. NonResumable \in Cursor \ {Undefined} BY DEF NonResumable, Cursor, Undefined
  <2>5. frames[n] = [kind |-> "change", key |-> k, val |-> rows2[k], cursor |-> NonResumable]
    BY <1>7, <2>2 DEF ChangeFrame
  <2>6. frames[n] \in [kind : {"change"}, key : Keys, val : Nat, cursor : Cursor \ {Undefined}]
    BY <2>3, <2>4, <2>5
  <2>7. frames[n] \in Frame BY <2>6 DEF Frame
  <2> QED BY <2>1, <2>2, <2>5, <2>7
<1>9. frames \in Seq(Frame) /\ Len(frames) = l
  <2>1. frames \in Seq(Frame) /\ DOMAIN frames = 1 .. l BY <1>6, <1>7, <1>8, IsASeq
  <2> QED BY <1>6, <2>1
<1>10. \A n \in 1 .. Len(frames) :
         frames[n].kind = "change" /\ frames[n].key \in S /\ frames[n].val = rows2[frames[n].key]
  BY <1>8, <1>9
<1>11. \A k \in S : \E n \in 1 .. Len(frames) : frames[n].key = k
  <2> TAKE k \in S
  <2>1. PICK n \in 1 .. l : diff[n] = k BY <1>6
  <2>2. n \in 1 .. Len(frames) /\ frames[n].key = k BY <1>8, <1>9, <2>1
  <2> QED BY <2>2
<1> QED BY <1>1, <1>9, <1>10, <1>11 DEF Tells

(* A subscriber of the polled entry gets there by the frames of the poll. *)
LEMMA PolledStream ==
  ASSUME NEW w, NEW w2, Preserves(w, w2), ~w2.repl, ~w.repl,
         NEW rows \in Rows, NEW rows2 \in Rows,
         NEW v \in Stores, NEW x, IsSession(x), x.sub # 0, StreamIn(w, v, x, rows)
  PROVE  /\ StreamIn(w2, v, Delivered(x, PollFrames(rows, rows2)), rows2)
         /\ Delivered(x, PollFrames(rows, rows2)).client = x.client
<1>1. PICK frames, q, F, big :
        /\ frames = PollFrames(rows, rows2) /\ q = x.q /\ F = q \o frames
        /\ big = Extended(x, frames)
  OBVIOUS
<1>2. ~x.closed /\ x.closed \in BOOLEAN /\ x.exact \in BOOLEAN /\ q \in Seq(Frame)
  BY <1>1 DEF StreamIn
<1>3. x.exact /\ x.sub \in Nat \ {0} /\ x.sub <= w.incs
  <2>1. ~x.exact => w.repl BY <1>2 DEF StreamIn
  <2>2. x.sub \in Nat \ {0} /\ x.sub <= w.incs BY <1>2 DEF StreamIn
  <2> QED BY <1>2, <2>1, <2>2, Zenon
<1>4. AllRead(v, q).origin = x.sub /\ AllRead(v, q).rows = rows BY <1>1, <1>2, <1>3 DEF StreamIn
<1>5. /\ frames \in Seq(Frame)
      /\ \A n \in 1 .. Len(frames) :
           frames[n].kind = "change" /\ frames[n].key \in Diff(rows, rows2)
             /\ frames[n].val = rows2[frames[n].key]
      /\ \A k \in Diff(rows, rows2) : \E n \in 1 .. Len(frames) : frames[n].key = k
  <2>1. frames \in Seq(Frame) /\ Tells(frames, rows, rows2) BY <1>1, PollFramesAre
  <2> QED BY <2>1 DEF Tells
<1>6. PICK n, m : n = Len(q) /\ m = Len(F) OBVIOUS
<1>7. /\ F \in Seq(Frame) /\ n \in Nat /\ m \in Nat /\ m = n + Len(frames) /\ n <= m
      /\ \A i \in 1 .. n : F[i] = q[i]
      /\ \A i \in 1 .. Len(frames) : F[n + i] = frames[i]
  BY <1>1, <1>2, <1>5, <1>6
<1>8. ASSUME NEW i \in n + 1 .. m
      PROVE  /\ F[i].kind = "change" /\ F[i].key \in Diff(rows, rows2) /\ F[i].val = rows2[F[i].key]
  <2>1. PICK j : j = i - n OBVIOUS
  <2>2. j \in 1 .. Len(frames) /\ n + j = i BY <1>5, <1>7, <2>1
  <2>3. F[i] = frames[j] BY <1>7, <2>2
  <2> QED BY <1>5, <2>2, <2>3
<1>9. PICK was, now : was = AllRead(v, q) /\ now = AllRead(v, F) OBVIOUS
<1>10. was = StoreAt(v, q, n) /\ now = StoreAt(v, F, m) /\ now \in Stores /\ was \in Stores
  <2>1. n \in 0 .. Len(q) /\ m \in 0 .. Len(F) BY <1>6, <1>7
  <2> QED BY <1>2, <1>6, <1>7, <1>9, <2>1, StoreAtTyped DEF AllRead
<1>11. now.origin = was.origin
  <2>1. \A i \in n + 1 .. m : F[i].kind = "change" BY <1>8
  <2>3. \A i \in 1 .. n : F[i] = q[i] BY <1>7
  <2>4. n \in Nat /\ m \in Nat /\ n <= m BY <1>7
  <2>2. OriginAt(v, F, m) = OriginAt(v, q, n) BY <2>1, <2>3, <2>4, OriginSkips
  <2> QED BY <1>10, <2>2 DEF StoreAt
<1>12. ASSUME NEW k \in Keys PROVE now.rows[k] = rows2[k]
  <2>1. now.rows = Over(v.rows, F, m) /\ was.rows = Over(v.rows, q, n) BY <1>10 DEF StoreAt
  <2>2. PICK base : base = v.rows OBVIOUS
  <2>3. CASE k \in Diff(rows, rows2)
    <3>1. PICK j \in 1 .. Len(frames) : frames[j].key = k BY <1>5, <2>3
    <3>2. PICK h : h = n + j OBVIOUS
    <3>3. h \in n + 1 .. m /\ F[h] = frames[j] BY <1>7, <3>2
    <3>4. Sets(F[h], k) BY <3>1, <3>3 DEF Sets
    <3>5. ASSUME NEW i \in n + 1 .. m, Sets(F[i], k) PROVE Written(F[i], k) = rows2[k]
      <4>1. F[i].kind = "change" /\ F[i].val = rows2[F[i].key] BY <1>8
      <4> QED BY <3>5, <4>1 DEF Sets, Written
    <3>6. PICK val : val = rows2[k] OBVIOUS
    <3>7. \A i \in n + 1 .. m : Sets(F[i], k) => Written(F[i], k) = val BY <3>5, <3>6
    <3>9. Says(F, n, m, k, val) BY <3>3, <3>4, <3>7 DEF Says
    <3>10. n \in Nat /\ m \in Nat BY <1>7
    <3>8. Over(base, F, m)[k] = val BY <3>9, <3>10, OverSays
    <3> QED BY <2>1, <2>2, <3>6, <3>8
  <2>4. CASE k \notin Diff(rows, rows2)
    <3>1. rows2[k] = rows[k] BY <2>4 DEF Diff
    <3>2. \A i \in n + 1 .. m : ~Sets(F[i], k) BY <1>8, <2>4 DEF Sets
    <3>3. \A i \in 1 .. n : F[i] = q[i] BY <1>7
    <3>4. n \in Nat /\ m \in Nat /\ n <= m BY <1>7
    <3>5. Over(base, F, m)[k] = Over(base, q, n)[k] BY <3>2, <3>3, <3>4, OverSkips
    <3> QED BY <1>4, <1>9, <2>1, <2>2, <3>1, <3>5
  <2> QED BY <2>3, <2>4
<1>13. now.rows = rows2
  <2>1. PICK a : a = now.rows OBVIOUS
  <2>2. a \in [Keys -> Nat] /\ rows2 \in [Keys -> Nat] /\ \A k \in Keys : a[k] = rows2[k]
    BY <1>10, <1>12, <2>1 DEF Rows, Stores
  <2>3. a = rows2 BY <2>2
  <2> QED BY <2>1, <2>3
<1>14. big.q = F /\ big.exact = x.exact /\ big.closed = x.closed /\ big.sub = x.sub
  BY <1>1 DEF Extended, IsSession, SessionFields, FreeSession
<1>15. TrailGood(w2, v, F) BY DEF TrailGood, GoodIn
<1>16. StreamIn(w2, v, big, rows2)
  <2>1. x.sub <= w2.incs BY <1>3 DEF Preserves
  <2> QED BY <1>2, <1>3, <1>4, <1>7, <1>9, <1>11, <1>13, <1>14, <1>15, <2>1 DEF StreamIn
<1>17. w2.incs \in Nat BY DEF Preserves
<1>18. StreamIn(w2, v, Delivered(x, frames), rows2) /\ Delivered(x, frames).client = x.client
  BY <1>1, <1>2, <1>5, <1>16, <1>17, DeliveredStream
<1> QED BY <1>1, <1>18

-----------------------------------------------------------------------------
(* The invariant *)

(* The feed never goes back before the last commit it delivered. *)
LogOrdered ==
  path = "replication" =>
    /\ \A p, q \in 1 .. Len(wal) : p <= q => wal[p].lsn <= wal[q].lsn
    /\ tail <= high
    /\ \A p \in tail + 1 .. Len(wal) : LsnAt(high) <= wal[p].lsn
    /\ conn => srcId = timeline

RingKept == path = "replication" /\ reg # 0 => RingIn(World)

LogTyped == wal \in Seq(Item) /\ commits \in Nat

MapTyped ==
  /\ path \in {"poll", "replication"}
  /\ reg \in 0 .. incs /\ incs <= MaxIncs
  /\ DOMAIN ent = Incs
  /\ \A i \in Incs : DOMAIN ent[i] = EntryFields /\ ent[i].rows \in Rows
  /\ tick # NoTick => tick.inc \in 1 .. incs /\ tick.rows \in Rows

Owned(x) ==
  /\ x.st # "free" => x.client \in Clients
  /\ x.st = "read" => x.seed \in Rows

SessionsOwned == \A s \in Sessions : Owned(sess[s])

ClientsTyped ==
  /\ DOMAIN cur = Clients /\ DOMAIN lastId = Clients /\ DOMAIN url = Clients
  /\ DOMAIN view = Clients /\ DOMAIN dur = Clients /\ DOMAIN chain = Clients

ClientsTrail == \A c \in Clients : ClientIn(World, view[c], dur[c], chain[c], Since(c))

(* The session of a client: its stream, or a seeding under way. *)
StreamOK(w, v, x, E) ==
  /\ x.st # "free"
  /\ IF x.st \in {"gap", "open"} THEN StreamIn(w, v, x, E[x.sub].rows)
     ELSE x.sub = 0 /\ x.closed = FALSE

StreamsTrail ==
  \A c \in Clients : cur[c] # NoSession =>
    /\ cur[c] \in Sessions /\ sess[cur[c]].client = c
    /\ StreamOK(World, view[c], sess[cur[c]], ent)

ResumeInv ==
  /\ LogTyped /\ MapTyped /\ SessionsOwned /\ ClientsTyped
  /\ LogOrdered /\ RingKept /\ ClientsTrail /\ StreamsTrail

-----------------------------------------------------------------------------
(* The outlook of the model is the end of the trail. *)
LEMMA OutlookIs ==
  ASSUME NEW s
  PROVE  Outlook(s) = AllRead(view[sess[s].client], sess[s].q).rows
BY DEF Outlook, AllRead, StoreAt, Over, SetBy

(* The invariant is strong enough. *)
LEMMA ResumeIsExact == TailedInv /\ ResumeInv => ResumeExact
<1> SUFFICES ASSUME TailedInv, ResumeInv, NEW s \in Sessions, Live(s), sess[s].exact
             PROVE  Outlook(s) = ent[sess[s].sub].rows
  BY DEF ResumeExact
<1>1. PICK x, c : x = sess[s] /\ c = x.client OBVIOUS
<1>2. x.st \in {"gap", "open"} /\ cur[c] = s /\ ~x.closed /\ x.exact BY <1>1 DEF Live
<1>3. c \in Clients BY <1>1, <1>2 DEF ResumeInv, SessionsOwned, Owned
<1>4. s # NoSession BY SessionsAssumption
<1>5. StreamOK(World, view[c], x, ent) BY <1>1, <1>2, <1>3, <1>4 DEF ResumeInv, StreamsTrail
<1>6. StreamIn(World, view[c], x, ent[x.sub].rows) BY <1>2, <1>5 DEF StreamOK
<1>7. AllRead(view[c], x.q).rows = ent[x.sub].rows BY <1>2, <1>6 DEF StreamIn
<1> QED BY <1>1, <1>7, OutlookIs

-----------------------------------------------------------------------------
(* The clients, when the engine keeps their stores good. *)
LEMMA ClientsKept ==
  ASSUME ClientsTrail, Preserves(World, World'), UNCHANGED <<view, dur, chain, lastId, url>>
  PROVE  ClientsTrail'
<1> SUFFICES ASSUME NEW c \in Clients
             PROVE  ClientIn(World', view[c], dur[c], chain[c], Since(c))
  BY DEF ClientsTrail, Since
<1>1. ClientIn(World, view[c], dur[c], chain[c], Since(c)) BY DEF ClientsTrail
<1> QED BY <1>1, ClientKept

(* A session that stays as it is, and so does the entry it subscribed to. *)
LEMMA StreamOKKept ==
  ASSUME NEW w, NEW w2, Preserves(w, w2), NEW v \in Stores, NEW x, NEW E, NEW E2,
         StreamOK(w, v, x, E), x.sub # 0 => E2[x.sub].rows = E[x.sub].rows
  PROVE  StreamOK(w2, v, x, E2)
<1>1. CASE x.st \in {"gap", "open"}
  <2>1. PICK r, r2 : r = E[x.sub].rows /\ r2 = E2[x.sub].rows OBVIOUS
  <2>2. StreamIn(w, v, x, r) BY <1>1, <2>1 DEF StreamOK
  <2>3. StreamIn(w2, v, x, r) BY <2>2, StreamKept
  <2>4. CASE x.sub = 0
    <3>1. x.closed BY <2>3, <2>4 DEF StreamIn
    <3>2. StreamIn(w2, v, x, r2) BY <2>3, <3>1 DEF StreamIn
    <3> QED BY <1>1, <2>1, <3>2 DEF StreamOK
  <2>5. CASE x.sub # 0 BY <1>1, <2>1, <2>3, <2>5 DEF StreamOK
  <2> QED BY <2>4, <2>5
<1>2. CASE x.st \notin {"gap", "open"} BY <1>2 DEF StreamOK
<1> QED BY <1>1, <1>2

(* One session changes, its client's mirror does not, and no client moves to  *)
(* another.                                                                   *)
LEMMA OneStream ==
  ASSUME StreamsTrail, ClientsTrail, SessionsShaped, Preserves(World, World'),
         NEW s \in Sessions, NEW y, sess' = [sess EXCEPT ![s] = y], UNCHANGED view,
         \A c \in Clients : cur'[c] \in {cur[c], NoSession} \/ cur'[c] = s,
         \A i : i \in 1 .. incs => ent'[i].rows = ent[i].rows,
         World.incs = incs,
         \A c \in Clients : cur'[c] = s => y.client = c /\ StreamOK(World', view[c], y, ent')
  PROVE  StreamsTrail'
<1> SUFFICES ASSUME NEW c \in Clients, cur'[c] # NoSession
             PROVE  /\ cur'[c] \in Sessions /\ sess'[cur'[c]].client = c
                    /\ StreamOK(World', view[c], sess'[cur'[c]], ent')
  BY DEF StreamsTrail
<1>1. CASE cur'[c] = s
  <2>1. sess'[s] = y BY DEF SessionsShaped
  <2> QED BY <1>1, <2>1
<1>2. CASE cur'[c] # s
  <2>1. PICK r : r = cur[c] OBVIOUS
  <2>2. cur'[c] = r /\ r # NoSession /\ r # s BY <1>2, <2>1
  <2>3. /\ r \in Sessions /\ sess[r].client = c /\ StreamOK(World, view[c], sess[r], ent)
    BY <2>1, <2>2 DEF StreamsTrail
  <2>4. sess'[r] = sess[r] BY <2>2, <2>3 DEF SessionsShaped
  <2>5. PICK x : x = sess[r] OBVIOUS
  <2>6. x.sub # 0 => ent'[x.sub].rows = ent[x.sub].rows
    BY <2>3, <2>5 DEF StreamOK, StreamIn
  <2>7. view[c] \in Stores BY DEF ClientsTrail, ClientIn
  <2>8. StreamOK(World, view[c], x, ent) BY <2>3, <2>5
  <2>9. StreamOK(World', view[c], x, ent') BY <2>6, <2>7, <2>8, StreamOKKept
  <2> QED BY <2>2, <2>3, <2>4, <2>5, <2>9
<1> QED BY <1>1, <1>2

(* No session changes. *)
LEMMA SameStreams ==
  ASSUME StreamsTrail, ClientsTrail, Preserves(World, World'), UNCHANGED <<sess, view, ent>>,
         \A c \in Clients : cur'[c] \in {cur[c], NoSession}
  PROVE  StreamsTrail'
<1> SUFFICES ASSUME NEW c \in Clients, cur'[c] # NoSession
             PROVE  /\ cur'[c] \in Sessions /\ sess'[cur'[c]].client = c
                    /\ StreamOK(World', view[c], sess'[cur'[c]], ent)
  BY DEF StreamsTrail
<1>1. cur'[c] = cur[c] OBVIOUS
<1>2. PICK x : x = sess[cur[c]] OBVIOUS
<1>3. cur[c] \in Sessions /\ x.client = c /\ StreamOK(World, view[c], x, ent)
  BY <1>1, <1>2 DEF StreamsTrail
<1>4. view[c] \in Stores BY DEF ClientsTrail, ClientIn
<1>5. StreamOK(World', view[c], x, ent) BY <1>3, <1>4, StreamOKKept
<1> QED BY <1>1, <1>2, <1>3, <1>5

-----------------------------------------------------------------------------
(* The steps of the database and the feed *)

(* The fields of World. *)
LEMMA WorldIs ==
  /\ World.repl = (path = "replication") /\ World.reg = reg /\ World.e = ent[reg]
  /\ World.incs = incs /\ World.id = liveId /\ World.live = (liveId = timeline)
  /\ World.top = LsnAt(high)
BY DEF World

(* The same after a step. *)
LEMMA WorldNext ==
  /\ World'.repl = (path' = "replication") /\ World'.reg = reg' /\ World'.e = ent'[reg']
  /\ World'.incs = incs' /\ World'.id = liveId' /\ World'.live = (liveId' = timeline')
  /\ World'.top = LsnAt(high)'
BY DEF World

(* The furthest LSN delivered is a number. *)
LEMMA TopTyped ==
  ASSUME LogShaped
  PROVE  LsnAt(high) \in Nat
<1>1. CASE high = 0 BY <1>1 DEF LsnAt
<1>2. CASE high # 0
  <2>1. wal[high] \in Item BY <1>2 DEF LogShaped
  <2> QED BY <1>2, <2>1 DEF LsnAt, Item
<1> QED BY <1>1, <1>2

(* Nothing the stores depend on changes. *)
LEMMA WorldKept ==
  ASSUME incs \in Nat, UNCHANGED <<path, reg, ent, incs, liveId, timeline, wal, high>>
  PROVE  World' = World /\ Preserves(World, World')
<1>1. World' = World BY DEF World, LsnAt
<1>2. World.incs \in Nat BY WorldIs
<1> QED BY <1>1, <1>2 DEF Preserves

(* On the poll path no cursor decodes. *)
LEMMA PolledPreserves ==
  ASSUME path # "replication", path' = path, incs \in Nat, incs' \in Nat, incs <= incs'
  PROVE  Preserves(World, World')
<1>1. PICK w, w2 : w = World /\ w2 = World' OBVIOUS
<1>2. /\ w.repl = FALSE /\ w2.repl = FALSE /\ w.incs \in Nat /\ w2.incs \in Nat /\ w.incs <= w2.incs
  BY <1>1, WorldIs, WorldNext
<1>3. Preserves(w, w2) BY <1>2, PollPreserves
<1> QED BY <1>1, <1>3

(* A step of the database or the feed that no session notices. *)
LEMMA QuietResume ==
  ASSUME ResumeInv, LogTyped', MapTyped', LogOrdered', RingKept', Preserves(World, World'),
         UNCHANGED <<sess, view, ent, dur, chain, lastId, url, cur>>
  PROVE  ResumeInv'
<1>1. ClientsTrail' BY ClientsKept DEF ResumeInv
<1>2. StreamsTrail' BY SameStreams DEF ResumeInv
<1>3. SessionsOwned' /\ ClientsTyped'
  BY DEF ResumeInv, SessionsOwned, Owned, ClientsTyped
<1> QED BY <1>1, <1>2, <1>3 DEF ResumeInv

(* A commit only adds to the log. *)
LEMMA CommitGrows ==
  ASSUME LogTyped, Commit
  PROVE  /\ LogTyped' /\ LastLsn \in Nat
         /\ Len(wal) \in Nat /\ Len(wal') \in Nat /\ Len(wal') >= Len(wal)
         /\ \A i \in 1 .. Len(wal) : wal'[i] = wal[i]
         /\ \A i \in Len(wal) + 1 .. Len(wal') : wal'[i].lsn = LastLsn + 1
<1>1. LastLsn \in Nat
  <2>1. CASE wal = <<>> BY <2>1 DEF LastLsn
  <2>2. CASE wal # <<>>
    <3>1. wal \in Seq(Item) BY DEF LogTyped
    <3>2. wal[Len(wal)] \in Item
      <4>1. Len(wal) \in Nat \ {0} BY <2>2, <3>1, EmptySeq
      <4> QED BY <3>1, <4>1
    <3> QED BY <2>2, <3>2 DEF LastLsn, Last, Item
  <2> QED BY <2>1, <2>2
<1>2. PICK k \in Keys, gone \in BOOLEAN, sort \in {"plain", "refused"} :
        LET one == Change(k, IF gone THEN Absent ELSE commits + 1, LastLsn + 1, sort) IN
        \/ wal' = Append(wal, one) /\ commits' = commits + 1
        \/ /\ \E l \in Keys : wal' = wal \o <<one, Change(l, commits + 2, LastLsn + 1, "plain")>>
           /\ commits' = commits + 2
  BY DEF Commit
<1> DEFINE one == Change(k, IF gone THEN Absent ELSE commits + 1, LastLsn + 1, sort)
<1>3. commits \in Nat /\ wal \in Seq(Item) /\ one \in Item /\ one.lsn = LastLsn + 1
  BY <1>1 DEF LogTyped, Change, Absent, Item
<1>4. \A l \in Keys : /\ Change(l, commits + 2, LastLsn + 1, "plain") \in Item
                      /\ Change(l, commits + 2, LastLsn + 1, "plain").lsn = LastLsn + 1
  BY <1>1, <1>3 DEF Change, Item
<1> HIDE DEF one
<1>5. CASE wal' = Append(wal, one) /\ commits' = commits + 1
  <2>1. /\ wal' \in Seq(Item) /\ commits' \in Nat /\ Len(wal') = Len(wal) + 1 /\ Len(wal) \in Nat
        /\ wal'[Len(wal) + 1] = one /\ \A i \in 1 .. Len(wal) : wal'[i] = wal[i]
    BY <1>3, <1>5
  <2>2. \A i \in Len(wal) + 1 .. Len(wal') : i = Len(wal) + 1 BY <2>1
  <2> QED BY <1>1, <1>3, <2>1, <2>2 DEF LogTyped
<1>6. ASSUME NEW l \in Keys, wal' = wal \o <<one, Change(l, commits + 2, LastLsn + 1, "plain")>>,
             commits' = commits + 2
      PROVE  /\ LogTyped' /\ LastLsn \in Nat
             /\ Len(wal) \in Nat /\ Len(wal') \in Nat /\ Len(wal') >= Len(wal)
             /\ \A i \in 1 .. Len(wal) : wal'[i] = wal[i]
             /\ \A i \in Len(wal) + 1 .. Len(wal') : wal'[i].lsn = LastLsn + 1
  <2>1. PICK two : two = Change(l, commits + 2, LastLsn + 1, "plain") OBVIOUS
  <2>2. two \in Item /\ two.lsn = LastLsn + 1 BY <1>4, <2>1
  <2>3. wal' = wal \o <<one, two>> BY <1>6, <2>1
  <2>4. /\ wal' \in Seq(Item) /\ commits' \in Nat /\ Len(wal') = Len(wal) + 2 /\ Len(wal) \in Nat
        /\ wal'[Len(wal) + 1] = one /\ wal'[Len(wal) + 2] = two
        /\ \A i \in 1 .. Len(wal) : wal'[i] = wal[i]
    BY <1>3, <1>6, <2>2, <2>3
  <2>5. \A i \in Len(wal) + 1 .. Len(wal') : i = Len(wal) + 1 \/ i = Len(wal) + 2 BY <2>4
  <2> QED BY <1>1, <1>3, <2>2, <2>4, <2>5 DEF LogTyped
<1> QED BY <1>2, <1>5, <1>6 DEF one

(* A commit: the feed has yet to deliver it. *)
LEMMA CommitResume ==
  ASSUME TailedInv, EntryInv, ResumeInv, Commit
  PROVE  ResumeInv'
<1>1. UNCHANGED <<timeline, conn, srcId, tail, high, path, liveId, reg, ent, incs, tick, sess,
                  view, dur, chain, lastId, url, cur>>
  BY DEF Commit, srcVars, engVars, netVars, storeVars
<1>2. LogTyped /\ incs \in Nat BY DEF ResumeInv, TailedInv
<1>3. /\ LogTyped' /\ LastLsn \in Nat
      /\ Len(wal) \in Nat /\ Len(wal') \in Nat /\ Len(wal') >= Len(wal)
      /\ \A i \in 1 .. Len(wal) : wal'[i] = wal[i]
      /\ \A i \in Len(wal) + 1 .. Len(wal') : wal'[i].lsn = LastLsn + 1
  BY <1>2, CommitGrows
<1>4. MapTyped' BY <1>1 DEF ResumeInv, MapTyped
<1>5. CASE path # "replication"
  <2>1. Preserves(World, World') BY <1>1, <1>2, <1>5, PolledPreserves
  <2>2. LogOrdered' /\ RingKept' BY <1>1, <1>5 DEF LogOrdered, RingKept
  <2> QED BY <1>1, <1>3, <1>4, <2>1, <2>2, QuietResume
<1>6. CASE path = "replication"
  <2>1. high \in 0 .. Len(wal) /\ tail \in Nat /\ wal \in Seq(Item)
    BY <1>6 DEF EntryInv, LogShaped
  <2>2. World' = World
    <3>1. LsnAt(high)' = LsnAt(high) BY <1>1, <1>3, <2>1 DEF LsnAt
    <3> QED BY <1>1, <3>1 DEF World
  <2>3. Preserves(World, World')
    <3>1. World.incs \in Nat BY <1>2, WorldIs
    <3> QED BY <2>2, <3>1 DEF Preserves
  <2>4. RingKept' BY <1>1, <2>2 DEF ResumeInv, RingKept
  <2>5. \A p \in 1 .. Len(wal) : wal[p].lsn \in Nat /\ wal[p].lsn <= LastLsn
    <3> TAKE p \in 1 .. Len(wal)
    <3>1. wal # <<>> /\ Len(wal) \in 1 .. Len(wal) BY <1>3
    <3>2. LastLsn = wal[Len(wal)].lsn BY <3>1 DEF LastLsn, Last
    <3>3. wal[p] \in Item BY <2>1
    <3>4. wal[p].lsn <= wal[Len(wal)].lsn BY <1>6, <3>1 DEF ResumeInv, LogOrdered
    <3> QED BY <3>2, <3>3, <3>4 DEF Item
  <2>6. LogOrdered'
    <3>1. ASSUME NEW p \in 1 .. Len(wal'), NEW q \in 1 .. Len(wal'), p <= q
          PROVE  wal'[p].lsn <= wal'[q].lsn
      <4>1. CASE q \in 1 .. Len(wal)
        <5>1. p \in 1 .. Len(wal) BY <3>1, <4>1
        <5>2. wal[p].lsn <= wal[q].lsn BY <1>6, <3>1, <4>1, <5>1 DEF ResumeInv, LogOrdered
        <5> QED BY <1>3, <4>1, <5>1, <5>2
      <4>2. CASE q \in Len(wal) + 1 .. Len(wal')
        <5>1. wal'[q].lsn = LastLsn + 1 BY <1>3, <4>2
        <5>2. CASE p \in 1 .. Len(wal) BY <1>3, <2>5, <5>1, <5>2
        <5>3. CASE p \in Len(wal) + 1 .. Len(wal') BY <1>3, <5>1, <5>3
        <5> QED BY <1>3, <5>2, <5>3
      <4> QED BY <1>3, <4>1, <4>2
    <3>2. ASSUME NEW p \in tail + 1 .. Len(wal') PROVE LsnAt(high) <= wal'[p].lsn
      <4>1. CASE p \in 1 .. Len(wal)
        <5>1. p \in tail + 1 .. Len(wal) BY <2>1, <4>1
        <5>2. LsnAt(high) <= wal[p].lsn BY <1>6, <5>1 DEF ResumeInv, LogOrdered
        <5> QED BY <1>3, <4>1, <5>2
      <4>2. CASE p \in Len(wal) + 1 .. Len(wal')
        <5>1. wal'[p].lsn = LastLsn + 1 BY <1>3, <4>2
        <5>2. high # 0 => wal[high].lsn \in Nat /\ wal[high].lsn <= LastLsn BY <2>1, <2>5
        <5> QED BY <1>3, <5>1, <5>2 DEF LsnAt
      <4> QED BY <1>3, <2>1, <4>1, <4>2
    <3>3. LsnAt(high)' = LsnAt(high) BY <1>1, <1>3, <2>1 DEF LsnAt
    <3>4. tail' <= high' /\ (conn' => srcId' = timeline') BY <1>1, <1>6 DEF ResumeInv, LogOrdered
    <3> QED BY <1>1, <3>1, <3>2, <3>3, <3>4 DEF LogOrdered
  <2> QED BY <1>1, <1>3, <1>4, <2>3, <2>4, <2>6, QuietResume
<1> QED BY <1>5, <1>6

(* A prefix of the log. *)
LEMMA PrefixIs ==
  ASSUME NEW log \in Seq(Item), NEW n \in Nat, n <= Len(log)
  PROVE  /\ SubSeq(log, 1, n) \in Seq(Item) /\ Len(SubSeq(log, 1, n)) = n
         /\ \A i \in 1 .. n : SubSeq(log, 1, n)[i] = log[i]
<1>1. n \in 1 - 1 .. Len(log) BY LenProperties
<1> QED BY <1>1, SubSeqProperties

(* A failover: the feed is cut off, and no cursor of the old timeline is      *)
(* compared with the new log.                                                 *)
LEMMA FailoverResume ==
  ASSUME TailedInv, EntryInv, ResumeInv, Failover
  PROVE  ResumeInv'
<1>0. path = "replication" BY DEF Failover
<1>1. PICK n \in 0 .. Len(wal) : /\ wal' = SubSeq(wal, 1, n)
                                /\ tail' = Min({tail, n}) /\ high' = Min({tail, n})
  BY DEF Failover
<1>2. /\ timeline' = timeline + 1 /\ conn' = FALSE
      /\ UNCHANGED <<commits, path, liveId, reg, ent, incs, tick, sess, view, dur, chain, lastId, url, cur>>
  BY DEF Failover, engVars, netVars, storeVars
<1>3. /\ wal \in Seq(Item) /\ tail \in Nat /\ timeline \in Nat \ {0} /\ commits \in Nat
      /\ liveId \in Nat /\ liveId <= timeline /\ incs \in Nat
      /\ \A p, q \in 1 .. Len(wal) : p <= q => wal[p].lsn <= wal[q].lsn
      /\ LogShaped
  BY <1>0 DEF EntryInv, LogShaped, IdentityKnown, TailedInv, ResumeInv, LogOrdered
<1>n. n \in Nat /\ Len(wal) \in Nat /\ n <= Len(wal) BY <1>1, <1>3
<1>a. /\ wal' \in Seq(Item) /\ Len(wal') = n /\ \A i \in 1 .. n : wal'[i] = wal[i]
  BY <1>1, <1>3, <1>n, PrefixIs
<1>b. \A i \in 1 .. n : wal'[i] \in Item
  <2> TAKE i \in 1 .. n
  <2>1. i \in 1 .. Len(wal') BY <1>a
  <2> QED BY <1>a, <2>1
<1>4. /\ wal' \in Seq(Item) /\ Len(wal') = n /\ n \in Nat /\ \A i \in 1 .. n : wal'[i] = wal[i] /\ wal'[i] \in Item
  BY <1>a, <1>b, <1>n
<1>5. tail' \in 0 .. n /\ high' = tail'
  <2>1. PICK m : m = Min({tail, n}) OBVIOUS
  <2>2. m = IF tail <= n THEN tail ELSE n BY <1>3, <1>n, <2>1, MinOfTwo
  <2>3. m \in 0 .. n BY <1>3, <1>n, <2>2
  <2> QED BY <1>1, <2>1, <2>3
<1>6. LogTyped' BY <1>2, <1>3, <1>4 DEF LogTyped
<1>7. MapTyped' BY <1>2 DEF ResumeInv, MapTyped
<1>8. LogOrdered'
  <2>1. \A p, q \in 1 .. Len(wal') : p <= q => wal'[p].lsn <= wal'[q].lsn
    <3> TAKE p, q \in 1 .. Len(wal')
    <3>1. p \in 1 .. Len(wal) /\ q \in 1 .. Len(wal) /\ p \in 1 .. n /\ q \in 1 .. n
      BY <1>n, <1>4
    <3>2. p <= q => wal[p].lsn <= wal[q].lsn BY <1>3, <3>1
    <3>3. wal'[p] = wal[p] /\ wal'[q] = wal[q] BY <1>4, <3>1
    <3> QED BY <3>2, <3>3
  <2>2. ASSUME NEW p \in tail' + 1 .. Len(wal') PROVE LsnAt(high)' <= wal'[p].lsn
    <3>t. PICK t : t = tail' OBVIOUS
    <3>u. t \in 0 .. n /\ p \in t + 1 .. n BY <1>4, <1>5, <3>t
    <3>a. p \in 1 .. n BY <1>n, <3>u
    <3>b. wal'[p] \in Item BY <1>4, <3>a
    <3>1. p \in 1 .. Len(wal') /\ wal'[p].lsn \in Nat BY <1>4, <3>a, <3>b DEF Item
    <3>2. CASE high' = 0 BY <3>1, <3>2 DEF LsnAt
    <3>3. CASE high' # 0
      <4>a. PICK h : h = high' OBVIOUS
      <4>b. h \in 0 .. n /\ h # 0 /\ p \in h + 1 .. Len(wal') BY <1>5, <3>3, <4>a
      <4>c. h \in 1 .. n /\ h <= p BY <1>n, <3>a, <4>b
      <4>1. high' \in 1 .. Len(wal') /\ high' <= p BY <1>4, <4>a, <4>c
      <4>2. wal'[high'].lsn <= wal'[p].lsn BY <2>1, <3>1, <4>1
      <4> QED BY <3>3, <4>2 DEF LsnAt
    <3> QED BY <3>2, <3>3
  <2>3. tail' <= high' BY <1>4, <1>5
  <2>4. ~conn' BY <1>2
  <2>5. \A p \in tail' + 1 .. Len(wal') : LsnAt(high)' <= wal'[p].lsn BY <2>2
  <2> QED BY <2>1, <2>3, <2>4, <2>5 DEF LogOrdered
<1>9. PICK w, w2 : w = World /\ w2 = World' OBVIOUS
<1>10. /\ w2.repl = w.repl /\ w.incs \in Nat /\ w2.incs = w.incs /\ w2.reg = w.reg /\ w2.e = w.e
       /\ w2.id = w.id /\ ~w2.live
  <2>1. liveId' # timeline' BY <1>2, <1>3
  <2>2. ent'[reg'] = ent[reg] BY <1>2
  <2> QED BY <1>2, <1>3, <1>9, <2>1, <2>2, WorldIs, WorldNext
<1>11. w.top \in Nat /\ w2.top \in Nat
  <2>1. LsnAt(high)' \in Nat
    <3>1. CASE high' = 0 BY <3>1 DEF LsnAt
    <3>2. CASE high' # 0
      <4>1. wal'[high'] \in Item BY <1>4, <1>5, <3>2
      <4> QED BY <3>2, <4>1 DEF LsnAt, Item
    <3> QED BY <3>1, <3>2
  <2> QED BY <1>3, <1>9, <2>1, TopTyped, WorldIs, WorldNext
<1>12. Preserves(w, w2) BY <1>10, <1>11, SamePreserves
<1>13. RingKept'
  <2>1. ASSUME RingIn(w) PROVE RingIn(w2) BY <1>10, <2>1 DEF RingIn
  <2> QED BY <1>0, <1>2, <1>9, <2>1 DEF ResumeInv, RingKept
<1> QED BY <1>2, <1>6, <1>7, <1>8, <1>9, <1>12, <1>13, QuietResume

(* The feed breaks. *)
LEMMA DropsResume ==
  ASSUME TailedInv, ResumeInv, SourceDrops
  PROVE  ResumeInv'
<1>1. /\ conn' = FALSE
      /\ UNCHANGED <<wal, timeline, commits, tail, high, path, liveId, reg, ent, incs, tick, sess,
                     view, dur, chain, lastId, url, cur>>
  BY DEF SourceDrops, dbVars, engVars, netVars, storeVars
<1>2. World' = World /\ Preserves(World, World') BY <1>1, WorldKept DEF TailedInv
<1>3. LogTyped' /\ MapTyped' BY <1>1 DEF ResumeInv, LogTyped, MapTyped
<1>4. LogOrdered' BY <1>1 DEF ResumeInv, LogOrdered, LsnAt
<1>5. RingKept' BY <1>1, <1>2 DEF ResumeInv, RingKept
<1> QED BY <1>1, <1>2, <1>3, <1>4, <1>5, QuietResume

(* The rows of the table. *)
LEMMA TableTyped ==
  ASSUME NEW log \in Seq(Item), NEW n \in 0 .. Len(log)
  PROVE  Table(log, n) \in Rows
<1> SUFFICES ASSUME NEW k \in Keys PROVE Table(log, n)[k] \in Nat
  BY DEF Table, Rows
<1>1. PICK S : S = LastWrite(log, n, k) OBVIOUS
<1>2. S \in SUBSET (1 .. n) BY <1>1 DEF LastWrite
<1>3. CASE S = {} BY <1>1, <1>3 DEF Table, Absent
<1>4. CASE S # {}
  <2>1. Member(S) \in S BY <1>4 DEF Member
  <2>2. PICK i : i = Member(S) OBVIOUS
  <2>3. Len(log) \in Nat OBVIOUS
  <2>a. i \in 1 .. n BY <1>2, <2>1, <2>2
  <2>4. i \in 1 .. Len(log) BY <2>3, <2>a
  <2>5. log[i] \in Item BY <2>4
  <2> QED BY <1>1, <1>4, <2>2, <2>5 DEF Table, Item
<1> QED BY <1>3, <1>4

(* The rows of the database. *)
LEMMA DbRowsTyped ==
  ASSUME LogTyped
  PROVE  DbRows \in Rows
<1>1. wal \in Seq(Item) BY DEF LogTyped
<1>2. Len(wal) \in 0 .. Len(wal) BY <1>1
<1> QED BY <1>1, <1>2, TableTyped, RowsAtIsTable DEF DbRows

(* The poll reads, or fails. *)
LEMMA PollReadsResume ==
  ASSUME TailedInv, ResumeInv, PollReads \/ PollFaults
  PROVE  ResumeInv'
<1>1. UNCHANGED <<wal, timeline, commits, conn, srcId, tail, high, path, liveId, reg, ent, incs, sess,
                  view, dur, chain, lastId, url, cur>>
  BY DEF PollReads, PollFaults, dbVars, srcVars, engVars, netVars, storeVars
<1>2. World' = World /\ Preserves(World, World') BY <1>1, WorldKept DEF TailedInv
<1>3. LogTyped' /\ LogTyped BY <1>1 DEF ResumeInv, LogTyped
<1>4. LogOrdered' BY <1>1 DEF ResumeInv, LogOrdered, LsnAt
<1>5. RingKept' BY <1>1, <1>2 DEF ResumeInv, RingKept
<1>6. tick' # NoTick => tick'.inc \in 1 .. incs' /\ tick'.rows \in Rows
  <2>1. CASE PollFaults BY <2>1 DEF PollFaults
  <2>2. CASE PollReads
    <3>1. tick' = [inc |-> reg, rows |-> DbRows] /\ reg # 0 BY <2>2 DEF PollReads
    <3>2. tick'.inc = reg /\ tick'.rows = DbRows BY <3>1
    <3>3. reg \in 1 .. incs' BY <1>1, <3>1 DEF ResumeInv, MapTyped, TailedInv
    <3> QED BY <1>3, <3>2, <3>3, DbRowsTyped
  <2> QED BY <2>1, <2>2
<1>7. MapTyped' BY <1>1, <1>6 DEF ResumeInv, MapTyped
<1> QED BY <1>1, <1>2, <1>3, <1>4, <1>5, <1>7, QuietResume

-----------------------------------------------------------------------------
(* What the steps of a stream leave of a session, whoever listens *)

Keeps(x, y) == y.client = x.client /\ y.sub \in {x.sub, 0} /\ y.seed = x.seed /\ (Owned(x) => Owned(y))

(* A purge. *)
LEMMA PurgedKeeps ==
  ASSUME NEW x, IsSession(x)
  PROVE  Keeps(x, Purged(x))
BY DEF IsSession, SessionFields, FreeSession, Purged, Keeps, Owned

(* A delivery. *)
LEMMA DeliveredKeeps ==
  ASSUME NEW x, IsSession(x), NEW frames
  PROVE  Keeps(x, Delivered(x, frames)) /\ Delivered(x, frames).st = x.st
<1> DEFINE cut == [x EXCEPT !.q = SubSeq(@ \o frames, 1, Max({MaxQueue, Len(@)}))]
           kept == [x EXCEPT !.q = @ \o frames]
<1>1. IsSession(cut) /\ Keeps(x, cut) /\ cut.st = x.st
  BY DEF IsSession, SessionFields, FreeSession, Keeps, Owned
<1>2. Keeps(x, kept) /\ kept.st = x.st
  BY DEF IsSession, SessionFields, FreeSession, Keeps, Owned
<1>3. Delivered(x, frames) \in {kept, Purged(cut)}
  BY DEF Delivered
<1> HIDE DEF cut, kept
<1>4. Keeps(cut, Purged(cut)) /\ Purged(cut).st = cut.st BY <1>1, PurgedKeeps, PurgedFollows DEF Follows
<1>5. Keeps(x, Purged(cut)) BY <1>1, <1>4 DEF Keeps
<1> QED BY <1>1, <1>2, <1>3, <1>4, <1>5

(* A resync. *)
LEMMA ResyncedKeeps ==
  ASSUME NEW x, IsSession(x)
  PROVE  Keeps(x, Resynced(x)) /\ Resynced(x).st = x.st
<1>1. CASE x.st = "gap"
  BY <1>1 DEF IsSession, SessionFields, FreeSession, Resynced, Keeps, Owned
<1>2. CASE x.st # "gap"
  BY <1>2, PurgedKeeps, ResyncedFollows DEF Resynced
<1> QED BY <1>1, <1>2

(* The attach. *)
LEMMA AttachedKeeps ==
  ASSUME NEW x, IsSession(x), x.st = "gap"
  PROVE  Keeps(x, Attached(x)) /\ Attached(x).st = "open"
<1> DEFINE bare == [x EXCEPT !.st = "open", !.q = <<>>]
           open == Delivered(bare, x.q)
<1>1. IsSession(bare) /\ Keeps(x, bare)
  BY DEF IsSession, SessionFields, FreeSession, Keeps, Owned
<1>2. Attached(x) = IF x.purge /\ ~open.closed THEN Purged(open) ELSE open
  BY DEF Attached
<1> HIDE DEF bare
<1>3. Keeps(bare, open) /\ IsSession(open) BY <1>1, DeliveredKeeps, DeliveredFollows DEF Follows
<1> HIDE DEF open
<1>4. Keeps(open, Purged(open)) BY <1>3, PurgedKeeps
<1>5. Attached(x).st = "open" BY AttachedFollows
<1> QED BY <1>1, <1>2, <1>3, <1>4, <1>5 DEF Keeps

(* A stream that is closed leads to no rows. *)
LEMMA StreamAnyRows ==
  ASSUME NEW w, NEW v, NEW x, NEW r, NEW r2, StreamIn(w, v, x, r), x.sub # 0 => r2 = r
  PROVE  StreamIn(w, v, x, r2)
BY DEF StreamIn

(* An attached session after a step of its stream. *)
LEMMA StreamOKNext ==
  ASSUME NEW w, NEW v, NEW x, NEW y, NEW r, NEW E,
         y.st \in {"gap", "open"}, StreamIn(w, v, y, r), y.sub # 0 => r = E[y.sub].rows
  PROVE  StreamOK(w, v, y, E)
BY StreamAnyRows DEF StreamOK

(* A step that leaves the clients' stores alone. *)
LEMMA StepResume ==
  ASSUME ResumeInv, LogTyped', MapTyped', SessionsOwned', LogOrdered', RingKept', StreamsTrail',
         Preserves(World, World'), UNCHANGED <<view, dur, chain, lastId, url>>,
         DOMAIN cur' = Clients
  PROVE  ResumeInv'
<1>1. ClientsTrail' BY ClientsKept DEF ResumeInv
<1>2. ClientsTyped' BY DEF ResumeInv, ClientsTyped
<1> QED BY <1>1, <1>2 DEF ResumeInv

(* The log, the map and the ring, when at most the shape leaves the map. *)
LEMMA LeaveKept ==
  ASSUME TailedInv, ResumeInv, reg' \in {reg, 0},
         UNCHANGED <<wal, timeline, commits, conn, srcId, tail, high, path, liveId, ent, incs, tick>>
  PROVE  LogTyped' /\ MapTyped' /\ LogOrdered' /\ RingKept' /\ Preserves(World, World')
<1>1. LogTyped' BY DEF ResumeInv, LogTyped
<1>2. MapTyped'
  <2>1. reg' \in 0 .. incs' BY DEF ResumeInv, MapTyped, TailedInv
  <2> QED BY <2>1 DEF ResumeInv, MapTyped
<1>3. LogOrdered' BY DEF ResumeInv, LogOrdered, LsnAt
<1>4. incs \in Nat BY DEF TailedInv
<1>5. CASE reg' = reg
  <2>1. World' = World /\ Preserves(World, World') BY <1>4, <1>5, WorldKept
  <2>2. RingKept' BY <1>5, <2>1 DEF ResumeInv, RingKept
  <2> QED BY <1>1, <1>2, <1>3, <2>1, <2>2
<1>6. CASE reg' = 0
  <2>1. PICK w, w2 : w = World /\ w2 = World' OBVIOUS
  <2>2. /\ w2.repl = w.repl /\ w.incs \in Nat /\ w2.incs \in Nat /\ w.incs <= w2.incs /\ w2.reg = 0
    BY <1>4, <1>6, <2>1, WorldIs, WorldNext
  <2>3. Preserves(w, w2) BY <2>2, DropPreserves
  <2>4. RingKept' BY <1>6 DEF RingKept
  <2> QED BY <1>1, <1>2, <1>3, <2>1, <2>3, <2>4
<1> QED BY <1>5, <1>6

(* The shape leaves the map: its subscribers are resynced. *)
LEMMA DropStreams ==
  ASSUME TailedInv, ResumeInv, DropShape, Preserves(World, World'), UNCHANGED <<view, cur, ent>>
  PROVE  StreamsTrail' /\ SessionsOwned'
<1>1. \A s \in Sessions : IsSession(sess[s]) BY DEF TailedInv, SessionsShaped
<1>2. \A s \in Sessions :
        \/ sess'[s] = sess[s]
        \/ reg # 0 /\ sess[s].sub = reg /\ sess'[s] = Resynced(sess[s])
  BY DEF DropShape
<1>3. SessionsOwned'
  <2> SUFFICES ASSUME NEW s \in Sessions PROVE Owned(sess'[s])
    BY DEF SessionsOwned, Owned
  <2>1. Owned(sess[s]) BY DEF ResumeInv, SessionsOwned
  <2>2. Keeps(sess[s], Resynced(sess[s])) BY <1>1, ResyncedKeeps
  <2> QED BY <1>2, <2>1, <2>2 DEF Keeps
<1>4. StreamsTrail'
  <2> SUFFICES ASSUME NEW c \in Clients, cur[c] # NoSession
               PROVE  /\ cur[c] \in Sessions /\ sess'[cur[c]].client = c
                      /\ StreamOK(World', view[c], sess'[cur[c]], ent)
    BY DEF StreamsTrail
  <2>1. PICK s, x, v : s = cur[c] /\ x = sess[s] /\ v = view[c] OBVIOUS
  <2>2. s \in Sessions /\ x.client = c /\ StreamOK(World, v, x, ent)
    BY <2>1 DEF ResumeInv, StreamsTrail
  <2>3. v \in Stores BY <2>1 DEF ResumeInv, ClientsTrail, ClientIn
  <2>4. CASE sess'[s] = x
    <3>1. StreamOK(World', v, x, ent) BY <2>2, <2>3, StreamOKKept
    <3> QED BY <2>1, <2>2, <2>4, <3>1
  <2>5. CASE reg # 0 /\ x.sub = reg /\ sess'[s] = Resynced(x)
    <3>1. PICK r, y, w, w2 : r = ent[x.sub].rows /\ y = Resynced(x) /\ w = World /\ w2 = World' OBVIOUS
    <3>2. x.st \in {"gap", "open"} /\ StreamIn(w, v, x, r) BY <2>2, <2>5, <3>1 DEF StreamOK
    <3>3. w.incs \in Nat /\ IsSession(x) BY <1>1, <2>1, <2>2, <3>1 DEF Preserves
    <3>4. StreamIn(w, v, y, r) /\ y.client = x.client BY <2>3, <3>1, <3>2, <3>3, ResyncedStream
    <3>5. StreamIn(w2, v, y, r) BY <2>3, <3>1, <3>4, StreamKept
    <3>6. y.st = x.st /\ y.sub \in {x.sub, 0} BY <3>1, <3>3, ResyncedKeeps DEF Keeps
    <3>7. y.st \in {"gap", "open"} /\ (y.sub # 0 => r = ent[y.sub].rows) BY <3>1, <3>2, <3>6
    <3>8. StreamOK(w2, v, y, ent) BY <3>5, <3>7, StreamOKNext
    <3> QED BY <2>1, <2>2, <2>5, <3>1, <3>4, <3>8
  <2> QED BY <1>2, <2>1, <2>2, <2>4, <2>5
<1> QED BY <1>3, <1>4

(* The feed connects: what the clients hold of another timeline is dropped    *)
(* with the shape.                                                            *)
LEMMA ConnectsResume ==
  ASSUME TailedInv, EntryInv, ResumeInv, SourceConnects
  PROVE  ResumeInv'
<1>0. path = "replication" BY DEF SourceConnects
<1>1. /\ conn' = TRUE /\ srcId' = timeline /\ liveId' = timeline
      /\ UNCHANGED <<wal, timeline, commits, high, path, ent, incs, tick, cur, lastId, url, view, dur, chain>>
  BY DEF SourceConnects, RevealIdentity, dbVars, netVars, storeVars
<1>2. tail' \in 0 .. tail /\ (tail' < tail => wal[tail' + 1].lsn = wal[high].lsn)
  BY DEF SourceConnects
<1>3. \/ liveId # 0 /\ liveId # timeline /\ DropShape
      \/ liveId \in {0, timeline} /\ UNCHANGED <<reg, sess>>
  BY DEF SourceConnects, RevealIdentity
<1>4. /\ wal \in Seq(Item) /\ tail \in Nat /\ high \in Nat /\ tail <= Len(wal) /\ high <= Len(wal)
      /\ LogShaped /\ liveId \in Nat /\ incs \in Nat
      /\ \A p, q \in 1 .. Len(wal) : p <= q => wal[p].lsn <= wal[q].lsn
      /\ tail <= high
      /\ \A p \in tail + 1 .. Len(wal) : LsnAt(high) <= wal[p].lsn
      /\ Len(wal) \in Nat
  BY <1>0 DEF EntryInv, LogShaped, IdentityKnown, TailedInv, ResumeInv, LogOrdered
<1>5. LsnAt(high)' = LsnAt(high) BY <1>1 DEF LsnAt
<1>6. LogOrdered'
  <2>1. ASSUME NEW p \in tail' + 1 .. Len(wal) PROVE LsnAt(high) <= wal[p].lsn
    <3>1. CASE tail' = tail BY <1>4, <3>1
    <3>2. CASE tail' < tail
      <4>1. PICK n : n = tail' + 1 OBVIOUS
      <4>a. PICK t : t = tail' OBVIOUS
      <4>b. t \in 0 .. tail /\ t < tail /\ n = t + 1 /\ p \in t + 1 .. Len(wal)
        BY <1>2, <3>2, <4>1, <4>a
      <4>2. n \in 1 .. Len(wal) /\ p \in 1 .. Len(wal) /\ n <= p /\ high # 0
        BY <1>4, <4>b
      <4>3. wal[n].lsn <= wal[p].lsn BY <1>4, <4>2
      <4>4. LsnAt(high) = wal[n].lsn BY <1>2, <3>2, <4>1, <4>2 DEF LsnAt
      <4> QED BY <4>3, <4>4
    <3> QED BY <1>2, <1>4, <3>1, <3>2
  <2>2. tail' <= high' BY <1>1, <1>2, <1>4
  <2>3. \A p \in tail' + 1 .. Len(wal') : LsnAt(high)' <= wal'[p].lsn BY <1>1, <1>5, <2>1
  <2> QED BY <1>1, <1>4, <2>2, <2>3 DEF LogOrdered
<1>7. LogTyped' BY <1>1 DEF ResumeInv, LogTyped
<1>8. MapTyped'
  <2>1. reg' \in {reg, 0} BY <1>3 DEF DropShape
  <2>2. reg' \in 0 .. incs' BY <1>1, <1>4, <2>1 DEF ResumeInv, MapTyped
  <2> QED BY <1>1, <2>2 DEF ResumeInv, MapTyped
<1>9. PICK w, w2 : w = World /\ w2 = World' OBVIOUS
<1>10. /\ w2.repl = w.repl /\ w.incs \in Nat /\ w2.incs = w.incs
       /\ w.reg = reg /\ w2.reg = reg' /\ w2.id = timeline /\ w.id = liveId
       /\ w.top \in Nat /\ w2.top = w.top
  BY <1>1, <1>4, <1>5, <1>9, WorldIs, WorldNext, TopTyped
<1>11. CASE reg' = 0
  <2>1. w2.incs \in Nat /\ w.incs <= w2.incs /\ w2.reg = 0 BY <1>10, <1>11
  <2>2. Preserves(w, w2) BY <1>10, <2>1, DropPreserves
  <2>3. RingKept' BY <1>11 DEF RingKept
  <2>4. StreamsTrail' /\ SessionsOwned'
    <3>1. CASE DropShape BY <1>1, <1>9, <2>2, <3>1, DropStreams
    <3>2. CASE UNCHANGED <<reg, sess>>
      <4>1. StreamsTrail' BY <1>1, <1>9, <2>2, <3>2, SameStreams DEF ResumeInv
      <4>2. SessionsOwned' BY <3>2 DEF ResumeInv, SessionsOwned, Owned
      <4> QED BY <4>1, <4>2
    <3> QED BY <1>3, <3>1, <3>2
  <2>5. DOMAIN cur' = Clients BY <1>1 DEF ResumeInv, ClientsTyped
  <2> QED BY <1>1, <1>6, <1>7, <1>8, <1>9, <2>2, <2>3, <2>4, <2>5, StepResume
<1>12. CASE reg' # 0
  <2>1. UNCHANGED <<reg, sess>> /\ liveId \in {0, timeline} BY <1>3, <1>12 DEF DropShape
  <2>2. RingIn(w) /\ w2.e = w.e /\ w2.reg = w.reg
    BY <1>0, <1>1, <1>9, <1>12, <2>1, WorldIs, WorldNext DEF ResumeInv, RingKept
  <2>3. w.e.id = 0 \/ w.live
    <3>1. CASE liveId = 0
      <4>1. w.e.id # 0 => w.e.id = w.id BY <2>2 DEF RingIn
      <4> QED BY <1>10, <3>1, <4>1
    <3>2. CASE liveId = timeline BY <1>9, <3>2, WorldIs
    <3> QED BY <2>1, <3>1, <3>2
  <2>4. Preserves(w, w2)
    <3>1. w2.live => w.e.id = 0 \/ (w.live /\ w.top <= w2.top) BY <1>10, <2>3
    <3>2. w2.top \in Nat BY <1>10
    <3> QED BY <1>10, <2>2, <3>1, <3>2, SamePreserves
  <2>5. RingIn(w2)
    <3>1. w.e.id # 0 => w.e.id = timeline
      <4>1. w.e.id # 0 => w.e.id = w.id BY <2>2 DEF RingIn
      <4> QED BY <1>10, <2>1, <4>1
    <3>2. w2.live => \A i \in DOMAIN w.e.ring : w.e.ring[i].lsn <= w2.top
      <4>1. CASE w.e.id = 0
        <5>1. w.e.ring = <<>> BY <2>2, <4>1 DEF RingIn
        <5> QED BY <5>1
      <4>2. CASE w.live BY <1>10, <2>2, <4>2 DEF RingIn
      <4> QED BY <2>3, <4>1, <4>2
    <3> QED BY <1>10, <2>2, <3>1, <3>2 DEF RingIn
  <2>6. RingKept' BY <1>9, <2>5 DEF RingKept
  <2> QED BY <1>1, <1>6, <1>7, <1>8, <1>9, <2>1, <2>4, <2>6, QuietResume
<1> QED BY <1>11, <1>12

(* Two steps of the engine in a row. *)
LEMMA PreservesTrans ==
  ASSUME NEW w, NEW w2, NEW w3, Preserves(w, w2), Preserves(w2, w3)
  PROVE  Preserves(w, w3)
BY DEF Preserves

(* The frames take every subscriber of entry i from its rows to those it has  *)
(* after the step.                                                            *)
FanOK(i, frames) ==
  \A v \in Stores : \A s \in Sessions :
    sess[s].sub = i /\ StreamIn(World, v, sess[s], ent[i].rows)
      => StreamIn(World', v, Delivered(sess[s], frames), ent'[i].rows)

(* A change or a poll is fanned to the subscribers of an entry. *)
LEMMA FanStreams ==
  ASSUME TailedInv, ResumeInv, NEW i, i # 0, NEW frames, sess' = Fan(i, frames), UNCHANGED <<view, cur>>,
         Preserves(World, World'), \A j : j \in 1 .. incs /\ j # i => ent'[j].rows = ent[j].rows,
         FanOK(i, frames)
  PROVE  StreamsTrail' /\ SessionsOwned'
<1>1. \A s \in Sessions : IsSession(sess[s]) BY DEF TailedInv, SessionsShaped
<1>2. \A s \in Sessions :
        \/ sess[s].sub # i /\ sess'[s] = sess[s]
        \/ sess[s].sub = i /\ sess'[s] = Delivered(sess[s], frames)
  BY DEF Fan
<1>3. SessionsOwned'
  <2> SUFFICES ASSUME NEW s \in Sessions PROVE Owned(sess'[s])
    BY DEF SessionsOwned, Owned
  <2>1. Owned(sess[s]) BY DEF ResumeInv, SessionsOwned
  <2>2. Keeps(sess[s], Delivered(sess[s], frames)) BY <1>1, DeliveredKeeps
  <2> QED BY <1>2, <2>1, <2>2 DEF Keeps
<1>4. StreamsTrail'
  <2> SUFFICES ASSUME NEW c \in Clients, cur[c] # NoSession
               PROVE  /\ cur[c] \in Sessions /\ sess'[cur[c]].client = c
                      /\ StreamOK(World', view[c], sess'[cur[c]], ent')
    BY DEF StreamsTrail
  <2>1. PICK s, x, v, w, w2 : s = cur[c] /\ x = sess[s] /\ v = view[c] /\ w = World /\ w2 = World' OBVIOUS
  <2>2. s \in Sessions /\ x.client = c /\ StreamOK(w, v, x, ent)
    BY <2>1 DEF ResumeInv, StreamsTrail
  <2>3. v \in Stores BY <2>1 DEF ResumeInv, ClientsTrail, ClientIn
  <2>4. CASE x.sub # i /\ sess'[s] = x
    <3>1. x.sub # 0 => ent'[x.sub].rows = ent[x.sub].rows
      <4>1. x.sub # 0 => x.sub \in Nat /\ x.sub <= w.incs BY <2>2 DEF StreamOK, StreamIn
      <4>2. w.incs = incs /\ incs \in Nat BY <2>1, WorldIs DEF TailedInv
      <4> QED BY <2>4, <4>1, <4>2
    <3>2. StreamOK(w2, v, x, ent') BY <2>1, <2>2, <2>3, <3>1, StreamOKKept
    <3> QED BY <2>1, <2>2, <2>4, <3>2
  <2>5. CASE x.sub = i /\ sess'[s] = Delivered(x, frames)
    <3>1. PICK r, y : r = ent'[i].rows /\ y = Delivered(x, frames) OBVIOUS
    <3>2. x.st \in {"gap", "open"} /\ StreamIn(w, v, x, ent[i].rows) BY <2>2, <2>5 DEF StreamOK
    <3>3. IsSession(x) BY <1>1, <2>1, <2>2
    <3>4. StreamIn(w2, v, y, r) BY <2>1, <2>2, <2>3, <2>5, <3>1, <3>2 DEF FanOK
    <3>5. y.st = x.st /\ y.sub \in {x.sub, 0} /\ y.client = x.client
      BY <3>1, <3>3, DeliveredKeeps DEF Keeps
    <3>6. y.st \in {"gap", "open"} /\ (y.sub # 0 => r = ent'[y.sub].rows) BY <2>5, <3>1, <3>2, <3>5
    <3>7. StreamOK(w2, v, y, ent') BY <3>4, <3>6, StreamOKNext
    <3> QED BY <2>1, <2>2, <2>5, <3>1, <3>5, <3>7
  <2> QED BY <1>2, <2>1, <2>2, <2>4, <2>5
<1> QED BY <1>3, <1>4

(* The place in the log after one more delivery. *)
LEMMA DeliversOrder ==
  ASSUME EntryInv, ResumeInv, SourceDelivers
  PROVE  /\ LogOrdered' /\ wal[tail + 1] \in Item
         /\ LsnAt(high) \in Nat /\ LsnAt(high)' \in Nat
         /\ LsnAt(high) <= wal[tail + 1].lsn /\ wal[tail + 1].lsn <= LsnAt(high)'
<1>1. /\ path = "replication" /\ conn /\ tail < Len(wal) /\ tail' = tail + 1
      /\ high' = Max({high, tail + 1}) /\ UNCHANGED <<wal, timeline, conn, srcId, path>>
  BY DEF SourceDelivers, dbVars
<1>2. /\ wal \in Seq(Item) /\ tail \in Nat /\ high \in Nat /\ tail <= Len(wal) /\ high <= Len(wal)
      /\ LogShaped
      /\ \A p, q \in 1 .. Len(wal) : p <= q => wal[p].lsn <= wal[q].lsn
      /\ tail <= high
      /\ \A p \in tail + 1 .. Len(wal) : LsnAt(high) <= wal[p].lsn
      /\ Len(wal) \in Nat /\ srcId = timeline
  BY <1>1 DEF EntryInv, LogShaped, ResumeInv, LogOrdered
<1>3. PICK n, h : n = tail + 1 /\ h = high' OBVIOUS
<1>4. n \in 1 .. Len(wal) BY <1>1, <1>2, <1>3
<1>5. h = IF high >= n THEN high ELSE n BY <1>1, <1>2, <1>3, <1>4, MaxOfTwo
<1>6. h \in 1 .. Len(wal) /\ n <= h BY <1>2, <1>4, <1>5
<1>7. wal[n] \in Item /\ wal[h] \in Item BY <1>2, <1>4, <1>6
<1>8. LsnAt(high)' = wal[h].lsn BY <1>1, <1>3, <1>6 DEF LsnAt
<1>9. LsnAt(high) \in Nat BY <1>2, TopTyped
<1>10. LsnAt(high) <= wal[n].lsn
  <2>1. n \in tail + 1 .. Len(wal) BY <1>2, <1>3, <1>4
  <2> QED BY <1>2, <2>1
<1>11. wal[n].lsn <= wal[h].lsn BY <1>2, <1>4, <1>6
<1>12. ASSUME NEW p \in n + 1 .. Len(wal) PROVE wal[h].lsn <= wal[p].lsn
  <2>1. p \in 1 .. Len(wal) /\ n <= p /\ p \in tail + 1 .. Len(wal) BY <1>2, <1>3, <1>4
  <2>2. CASE h = n BY <1>2, <1>4, <2>1, <2>2
  <2>3. CASE h = high /\ high # 0
    <3>1. LsnAt(high) <= wal[p].lsn BY <1>2, <2>1
    <3> QED BY <2>3, <3>1 DEF LsnAt
  <2> QED BY <1>5, <1>6, <2>2, <2>3
<1>13. LogOrdered'
  <2>1. tail' <= high' BY <1>1, <1>3, <1>6
  <2>2. \A p \in tail' + 1 .. Len(wal') : LsnAt(high)' <= wal'[p].lsn
    BY <1>1, <1>3, <1>8, <1>12
  <2> QED BY <1>1, <1>2, <2>1, <2>2 DEF LogOrdered
<1>14. wal[h].lsn \in Nat BY <1>7 DEF Item
<1> QED BY <1>3, <1>7, <1>8, <1>9, <1>10, <1>11, <1>13, <1>14

(* A change that is refused takes the shape out of the map; one that comes    *)
(* when it is not there passes.                                               *)
LEMMA PassedResume ==
  ASSUME TailedInv, EntryInv, ResumeInv, SourceDelivers, DropShape \/ UNCHANGED <<reg, sess>>, reg' = 0,
         ent' = ent
  PROVE  ResumeInv'
<1>1. UNCHANGED <<wal, timeline, commits, path, liveId, incs, tick, cur, lastId, url, view, dur, chain>>
  BY DEF SourceDelivers, dbVars, netVars, storeVars
<1>2. LogOrdered' BY DeliversOrder
<1>3. LogTyped' BY <1>1 DEF ResumeInv, LogTyped
<1>4. incs \in Nat BY DEF TailedInv
<1>5. MapTyped'
  <2>1. reg' \in 0 .. incs' BY <1>1, <1>4
  <2> QED BY <1>1, <2>1 DEF ResumeInv, MapTyped
<1>6. RingKept' BY DEF RingKept
<1>7. Preserves(World, World')
  <2>1. PICK w, w2 : w = World /\ w2 = World' OBVIOUS
  <2>2. w2.repl = w.repl /\ w.incs \in Nat /\ w2.incs \in Nat /\ w.incs <= w2.incs /\ w2.reg = 0
    BY <1>1, <1>4, <2>1, WorldIs, WorldNext
  <2>3. Preserves(w, w2) BY <2>2, DropPreserves
  <2> QED BY <2>1, <2>3
<1>8. CASE DropShape
  <2>1. StreamsTrail' /\ SessionsOwned' BY <1>1, <1>7, <1>8, DropStreams
  <2>2. DOMAIN cur' = Clients BY <1>1 DEF ResumeInv, ClientsTyped
  <2> QED BY <1>1, <1>2, <1>3, <1>5, <1>6, <1>7, <2>1, <2>2, StepResume
<1>9. CASE UNCHANGED <<reg, sess>>
  BY <1>1, <1>2, <1>3, <1>5, <1>6, <1>7, <1>9, QuietResume
<1> QED BY <1>8, <1>9

(* A change that is applied: recorded in the ring, and fanned. *)
LEMMA AppliedResume ==
  ASSUME TailedInv, EntryInv, ResumeInv, SourceDelivers, Applied(wal[tail + 1]), reg # 0
  PROVE  ResumeInv'
<1>0. PICK item, w, w2, h, f :
        /\ item = wal[tail + 1] /\ w = World /\ w2 = World' /\ h = LsnAt(high)'
        /\ f = <<ChangeFrame(item, At(liveId, item.lsn))>>
  OBVIOUS
<1>1. /\ path = "replication" /\ conn
      /\ UNCHANGED <<wal, timeline, commits, path, liveId, incs, tick, cur, lastId, url, view, dur, chain>>
  BY DEF SourceDelivers, dbVars, netVars, storeVars
<1>2. /\ LogOrdered' /\ item \in Item /\ LsnAt(high) \in Nat /\ h \in Nat
      /\ LsnAt(high) <= item.lsn /\ item.lsn <= h
  BY <1>0, DeliversOrder
<1>3. /\ liveId = timeline /\ srcId = timeline /\ liveId \in Nat \ {0} /\ incs \in Nat
      /\ reg \in 1 .. incs /\ reg \in Incs
  <2>1. liveId = timeline /\ timeline \in Nat \ {0} BY <1>1 DEF EntryInv, IdentityKnown, LogShaped
  <2>2. srcId = timeline BY <1>1 DEF ResumeInv, LogOrdered
  <2>3. incs \in Nat /\ reg \in 0 .. incs /\ incs <= MaxIncs BY DEF ResumeInv, MapTyped, TailedInv
  <2>4. reg \in 1 .. incs /\ reg \in 1 .. MaxIncs BY <2>3, SeedingsAssumption
  <2> QED BY <2>1, <2>2, <2>3, <2>4 DEF Incs
<1>4. PICK e2 \in Recorded([ent[reg] EXCEPT !.rows = SetRow(@, item)], liveId, item) :
        ent' = [ent EXCEPT ![reg] = e2]
  BY <1>0, <1>3 DEF Applied
<1>5. sess' = Fan(reg, f) /\ reg' \in {reg, 0}
  BY <1>0, <1>3 DEF Applied, StillRegistered
<1>6. PICK w3 : w3 = [w EXCEPT !.e = e2, !.top = h] OBVIOUS
<1>7. /\ w3.repl = w.repl /\ w3.reg = w.reg /\ w3.e = e2 /\ w3.incs = w.incs /\ w3.id = w.id
      /\ w3.live = w.live /\ w3.top = h
  BY <1>0, <1>6 DEF World
<1>8. /\ w.reg = reg /\ w.e = ent[reg] /\ w.incs = incs /\ w.id = liveId /\ w.live = TRUE
      /\ w.top = LsnAt(high)
  BY <1>0, <1>3, WorldIs
<1>9. DOMAIN ent = Incs /\ DOMAIN ent[reg] = EntryFields /\ RingIn(w)
  BY <1>0, <1>1, <1>3 DEF ResumeInv, MapTyped, RingKept
<1>10. RingIn(w3) /\ Preserves(w, w3) /\ w3.e.rows = SetRow(w.e.rows, item) /\ w3.e.id = w.id
  <2>1. w3.e \in Recorded([w.e EXCEPT !.rows = SetRow(@, item)], w.id, item) BY <1>4, <1>7, <1>8
  <2>2. DOMAIN w.e = EntryFields /\ w3.live = TRUE /\ w.live = TRUE BY <1>7, <1>8, <1>9
  <2>3. w.id # 0 /\ w.id \in Nat /\ w.incs \in Nat /\ w.reg # 0 BY <1>3, <1>8
  <2>4. w.top \in Nat /\ w3.top \in Nat /\ w.top <= item.lsn /\ item.lsn <= w3.top BY <1>2, <1>7, <1>8
  <2> QED BY <1>2, <1>7, <1>9, <2>1, <2>2, <2>3, <2>4, RecordedRing
<1>11. ent'[reg] = e2 /\ \A j \in Incs : j # reg => ent'[j] = ent[j]
  BY <1>3, <1>4, <1>9
<1>12. Preserves(w3, w2) /\ (reg' = reg => w2 = w3)
  <2>1. /\ w2.repl = w3.repl /\ w3.incs \in Nat /\ w2.incs \in Nat /\ w3.incs <= w2.incs /\ w2.reg = reg'
    BY <1>0, <1>1, <1>3, <1>7, <1>8, WorldIs, WorldNext
  <2>2. CASE reg' = 0 BY <1>3, <2>1, <2>2, DropPreserves
  <2>3. CASE reg' = reg
    <3>1. w2 = w3
      <4>1. /\ w = [repl |-> path = "replication", reg |-> reg, e |-> ent[reg], incs |-> incs,
                    id |-> liveId, live |-> liveId = timeline, top |-> LsnAt(high)]
        BY <1>0 DEF World
      <4>2. w2 = [repl |-> path = "replication", reg |-> reg, e |-> e2, incs |-> incs,
                  id |-> liveId, live |-> liveId = timeline, top |-> h]
        BY <1>0, <1>1, <1>11, <2>3 DEF World
      <4> QED BY <1>6, <4>1, <4>2
    <3> QED BY <2>1, <3>1 DEF Preserves
  <2> QED BY <1>5, <2>2, <2>3
<1>13. Preserves(w, w2) BY <1>10, <1>12, PreservesTrans
<1>14. w.e.rows \in Rows BY <1>9 DEF RingIn
<1>15. FanOK(reg, f)
  <2> SUFFICES ASSUME NEW v \in Stores, NEW s \in Sessions, sess[s].sub = reg,
                      StreamIn(w, v, sess[s], ent[reg].rows)
               PROVE  StreamIn(w2, v, Delivered(sess[s], f), ent'[reg].rows)
    BY <1>0 DEF FanOK
  <2>1. PICK x : x = sess[s] OBVIOUS
  <2>2. IsSession(x) /\ x.sub = w.reg /\ StreamIn(w, v, x, w.e.rows)
    BY <1>8, <2>1 DEF TailedInv, SessionsShaped
  <2>3. /\ w.reg \in Nat \ {0} /\ w3.reg = w.reg /\ w.incs \in Nat /\ w3.incs = w.incs
        /\ w.id \in Nat \ {0} /\ w3.top \in Nat /\ item.lsn <= w3.top /\ w3.live = TRUE
    BY <1>2, <1>3, <1>7, <1>8
  <2>4. StreamIn(w3, v, Delivered(x, <<ChangeFrame(item, At(w.id, item.lsn))>>), w3.e.rows)
    BY <1>2, <1>10, <1>14, <2>2, <2>3, FannedStream
  <2>5. StreamIn(w3, v, Delivered(x, f), ent'[reg].rows) BY <1>0, <1>7, <1>8, <1>11, <2>4
  <2> QED BY <1>12, <2>1, <2>5, StreamKept
<1>16. StreamsTrail' /\ SessionsOwned'
  <2>1. \A j : j \in 1 .. incs /\ j # reg => ent'[j].rows = ent[j].rows
    <3>1. \A j \in 1 .. incs : j \in Incs BY <1>3, SeedingsAssumption DEF ResumeInv, MapTyped, Incs
    <3> QED BY <1>11, <3>1
  <2> QED BY <1>0, <1>1, <1>3, <1>5, <1>13, <1>15, <2>1, FanStreams
<1>17. LogTyped' BY <1>1 DEF ResumeInv, LogTyped
<1>18. MapTyped'
  <2>1. reg' \in 0 .. incs' BY <1>1, <1>3, <1>5
  <2>2. DOMAIN e2 = EntryFields /\ e2.rows \in Rows
    <3>1. DOMAIN e2 = EntryFields BY <1>4, <1>9 DEF Recorded
    <3>2. e2.rows \in Rows BY <1>7, <1>10 DEF RingIn
    <3> QED BY <3>1, <3>2
  <2>3. DOMAIN ent' = Incs BY <1>4, <1>9
  <2>4. \A i \in Incs : DOMAIN ent'[i] = EntryFields /\ ent'[i].rows \in Rows
    BY <1>11, <2>2 DEF ResumeInv, MapTyped
  <2> QED BY <1>1, <2>1, <2>3, <2>4 DEF ResumeInv, MapTyped
<1>19. RingKept'
  <2>1. reg' # 0 => RingIn(w2) BY <1>5, <1>10, <1>12
  <2> QED BY <1>0, <2>1 DEF RingKept
<1>20. DOMAIN cur' = Clients BY <1>1 DEF ResumeInv, ClientsTyped
<1> QED BY <1>0, <1>1, <1>2, <1>13, <1>16, <1>17, <1>18, <1>19, <1>20, StepResume

(* The feed delivers a change. *)
LEMMA DeliversResume ==
  ASSUME TailedInv, EntryInv, ResumeInv, SourceDelivers
  PROVE  ResumeInv'
<1>1. CASE Refused(wal[tail + 1]) BY <1>1, PassedResume DEF Refused, DropShape
<1>2. CASE Applied(wal[tail + 1]) /\ reg = 0 BY <1>2, PassedResume DEF Applied
<1>3. CASE Applied(wal[tail + 1]) /\ reg # 0 BY <1>3, AppliedResume
<1> QED BY <1>1, <1>2, <1>3 DEF SourceDelivers

-----------------------------------------------------------------------------
(* A poll lands *)

(* The rows of a poll arrive, and are fanned as the changes they make. *)
LEMMA PollLandsResume ==
  ASSUME TailedInv, EntryInv, ResumeInv, PollLands
  PROVE  ResumeInv'
<1>0. PICK i, rows, rows2, f :
        i = tick.inc /\ rows2 = tick.rows /\ rows = ent[i].rows /\ f = PollFrames(rows, rows2)
  OBVIOUS
<1>1. /\ tick # NoTick /\ tick' = NoTick
      /\ ent' = [ent EXCEPT ![i].rows = rows2]
      /\ reg' \in {reg, 0}
      /\ UNCHANGED <<wal, timeline, commits, conn, srcId, tail, high, path, liveId, incs,
                     cur, lastId, url, view, dur, chain>>
  BY <1>0 DEF PollLands, StillRegistered, dbVars, srcVars, netVars, storeVars
<1>2. sess' = Fan(i, f) BY <1>0 DEF PollLands, PollFrames, Diff
<1>3. path # "replication" BY <1>1 DEF EntryInv
<1>4. incs \in Nat /\ i \in 1 .. incs /\ rows2 \in Rows BY <1>0, <1>1 DEF ResumeInv, MapTyped, TailedInv
<1>5. i \in Incs /\ \A j \in 1 .. incs : j \in Incs
  BY <1>4, SeedingsAssumption DEF ResumeInv, MapTyped, Incs
<1>6. DOMAIN ent = Incs /\ \A j \in Incs : DOMAIN ent[j] = EntryFields /\ ent[j].rows \in Rows
  BY DEF ResumeInv, MapTyped
<1>7. /\ ent'[i].rows = rows2 /\ DOMAIN ent'[i] = EntryFields /\ DOMAIN ent' = Incs
      /\ \A j \in Incs : j # i => ent'[j] = ent[j]
  <2>1. "rows" \in DOMAIN ent[i] BY <1>5, <1>6 DEF EntryFields, FreshEntry
  <2> QED BY <1>1, <1>5, <1>6, <2>1
<1>8. Preserves(World, World') BY <1>1, <1>3, <1>4, PolledPreserves
<1>9. FanOK(i, f)
  <2> SUFFICES ASSUME NEW v \in Stores, NEW s \in Sessions, sess[s].sub = i,
                      StreamIn(World, v, sess[s], rows)
               PROVE  StreamIn(World', v, Delivered(sess[s], f), rows2)
    BY <1>0, <1>7 DEF FanOK
  <2>1. PICK x, w, w2 : x = sess[s] /\ w = World /\ w2 = World' OBVIOUS
  <2>2. IsSession(x) /\ x.sub # 0 BY <1>4, <2>1 DEF TailedInv, SessionsShaped
  <2>3. ~w.repl /\ ~w2.repl BY <1>1, <1>3, <2>1, WorldIs, WorldNext
  <2>4. rows \in Rows BY <1>0, <1>5, <1>6
  <2>5. Preserves(w, w2) /\ StreamIn(w, v, x, rows) BY <1>8, <2>1
  <2> QED BY <1>0, <1>4, <2>1, <2>2, <2>3, <2>4, <2>5, PolledStream
<1>10. StreamsTrail' /\ SessionsOwned'
  <2>1. \A j : j \in 1 .. incs /\ j # i => ent'[j].rows = ent[j].rows BY <1>5, <1>7
  <2>2. i # 0 BY <1>4
  <2> QED BY <1>1, <1>2, <1>8, <1>9, <2>1, <2>2, FanStreams
<1>11. LogTyped' BY <1>1 DEF ResumeInv, LogTyped
<1>12. MapTyped'
  <2>1. reg' \in 0 .. incs' BY <1>1, <1>4 DEF ResumeInv, MapTyped
  <2>2. \A j \in Incs : DOMAIN ent'[j] = EntryFields /\ ent'[j].rows \in Rows BY <1>4, <1>6, <1>7
  <2> QED BY <1>1, <1>7, <2>1, <2>2 DEF ResumeInv, MapTyped
<1>13. LogOrdered' /\ RingKept' BY <1>1, <1>3 DEF LogOrdered, RingKept
<1>14. DOMAIN cur' = Clients BY <1>1 DEF ResumeInv, ClientsTyped
<1> QED BY <1>1, <1>8, <1>10, <1>11, <1>12, <1>13, <1>14, StepResume

-----------------------------------------------------------------------------
(* What a client holds is good, and so is the cursor it presents. *)
LEMMA MirrorGood ==
  ASSUME ClientsTrail, NEW c \in Clients
  PROVE  /\ view[c] \in Stores /\ GoodIn(World, view[c])
         /\ Decodes(Since(c)) => Since(c) = view[c].cursor
<1>1. ClientIn(World, view[c], dur[c], chain[c], Since(c)) BY DEF ClientsTrail
<1> QED BY <1>1, TrailEnds DEF ClientIn

(* One session changes: who owns it. *)
LEMMA OneOwned ==
  ASSUME SessionsOwned, SessionsShaped, NEW s \in Sessions, NEW y, sess' = [sess EXCEPT ![s] = y], Owned(y)
  PROVE  SessionsOwned'
<1> SUFFICES ASSUME NEW r \in Sessions PROVE Owned(sess'[r])
  BY DEF SessionsOwned, Owned
<1>1. sess'[r] = IF r = s THEN y ELSE sess[r] BY DEF SessionsShaped
<1> QED BY <1>1 DEF SessionsOwned

(* A client connects to a shape that is in the map. *)
LEMMA ConnectResume ==
  ASSUME TailedInv, EntryInv, ResumeInv, NEW c \in Clients, NEW s \in Sessions, Connect(c, s)
  PROVE  ResumeInv'
<1>1. /\ sess[s].st = "free" /\ cur' = [cur EXCEPT ![c] = s]
      /\ UNCHANGED <<wal, timeline, commits, conn, srcId, tail, high, path, liveId, reg, ent, incs, tick,
                     lastId, url, view, dur, chain>>
  BY DEF Connect, dbVars, srcVars, engVars, storeVars
<1>2. LogTyped' /\ MapTyped' /\ LogOrdered' /\ RingKept' /\ Preserves(World, World')
  BY <1>1, LeaveKept
<1>3. incs \in Nat /\ World' = World BY <1>1, WorldKept DEF TailedInv
<1>4. DOMAIN cur = Clients BY DEF ResumeInv, ClientsTyped
<1>5. cur'[c] = s /\ DOMAIN cur' = Clients /\ \A d \in Clients : d # c => cur'[d] = cur[d]
  BY <1>1, <1>4
<1>6. \A d \in Clients : cur[d] # s
  <2> SUFFICES ASSUME NEW d \in Clients, cur[d] = s PROVE FALSE OBVIOUS
  <2>1. s # NoSession BY SessionsAssumption
  <2>2. StreamOK(World, view[d], sess[s], ent) BY <2>1 DEF ResumeInv, StreamsTrail
  <2> QED BY <1>1, <2>2 DEF StreamOK
<1>7. ASSUME NEW y, sess' = [sess EXCEPT ![s] = y], y.client = c, y.st # "read",
             StreamOK(World, view[c], y, ent)
      PROVE  ResumeInv'
  <2>1. SessionsOwned' BY <1>7, OneOwned DEF ResumeInv, TailedInv, Owned
  <2>2. \A d \in Clients : cur'[d] = s => y.client = d /\ StreamOK(World', view[d], y, ent')
    <3>1. \A d \in Clients : cur'[d] = s => d = c BY <1>5, <1>6
    <3> QED BY <1>1, <1>3, <1>7, <3>1
  <2>3. \A d \in Clients : cur'[d] \in {cur[d], NoSession} \/ cur'[d] = s BY <1>5
  <2>4. World.incs = incs BY WorldIs
  <2>5. \A i : i \in 1 .. incs => ent'[i].rows = ent[i].rows BY <1>1
  <2>6. StreamsTrail' BY <1>1, <1>2, <1>7, <2>2, <2>3, <2>4, <2>5, OneStream DEF ResumeInv, TailedInv
  <2> QED BY <1>1, <1>2, <1>5, <2>1, <2>6, StepResume
<1>8. /\ Opened(c).client = c /\ Opened(c).since = Since(c) /\ Opened(c).closed = FALSE
      /\ Opened(c).sub = 0
  BY DEF Opened, FreeSession
<1>9. CASE reg = 0
  <2>1. PICK y : y = [Opened(c) EXCEPT !.st = "probe"] OBVIOUS
  <2>2. y.st = "probe" /\ y.client = c /\ y.closed = FALSE /\ y.sub = 0
    BY <2>1 DEF Opened, FreeSession
  <2>3. sess' = [sess EXCEPT ![s] = y] BY <1>9, <2>1 DEF Connect
  <2>4. StreamOK(World, view[c], y, ent) BY <2>2 DEF StreamOK
  <2> QED BY <1>7, <2>2, <2>3, <2>4
<1>10. CASE reg # 0
  <2>1. PICK x, w : x = Opened(c) /\ w = World OBVIOUS
  <2>2. PICK y : y = Subscribed(x, reg, ent[reg]) OBVIOUS
  <2>3. sess' = [sess EXCEPT ![s] = y] BY <1>10, <2>1, <2>2 DEF Connect
  <2>4. /\ IsSession(x) /\ y.sub = reg /\ y.st = "gap" BY <2>1, <2>2, OpenedIsSession, SubscribedAttends
  <2>5. /\ w.reg = reg /\ w.e = ent[reg] /\ w.incs = incs /\ w.repl = (path = "replication") /\ w.id = liveId
        /\ w.top = LsnAt(high)
    BY <2>1, WorldIs
  <2>6. /\ reg \in Nat \ {0} /\ reg <= incs /\ ent[reg].rows \in Rows /\ path \in {"poll", "replication"}
    <3>1. reg \in 0 .. incs /\ incs <= MaxIncs BY DEF ResumeInv, MapTyped
    <3>2. reg \in Incs BY <1>3, <1>10, <3>1, SeedingsAssumption DEF Incs
    <3> QED BY <1>3, <1>10, <3>1, <3>2 DEF ResumeInv, MapTyped
  <2>7. path = "replication" => RingIn(w) /\ w.top \in Nat /\ liveId \in Nat
    BY <1>10, <2>1, <2>5, TopTyped DEF ResumeInv, RingKept, EntryInv, IdentityKnown
  <2>8. /\ view[x.client] \in Stores /\ GoodIn(w, view[x.client])
        /\ Decodes(x.since) => x.since = view[x.client].cursor
    BY <1>8, <2>1, MirrorGood DEF ResumeInv
  <2>9. /\ StreamIn(w, view[x.client], Subscribed(x, w.reg, w.e), w.e.rows)
        /\ Subscribed(x, w.reg, w.e).client = x.client
    <3>1. w.incs \in Nat /\ w.reg \in Nat \ {0} /\ w.reg <= w.incs /\ w.e.rows \in Rows /\ ~x.closed
      BY <1>3, <1>8, <2>1, <2>5, <2>6
    <3> QED BY <2>4, <2>5, <2>6, <2>7, <2>8, <3>1, SubscribedStream
  <2>10. StreamIn(w, view[c], y, ent[reg].rows) /\ y.client = c
    BY <1>8, <2>1, <2>2, <2>5, <2>9
  <2>11. StreamOK(World, view[c], y, ent) BY <2>1, <2>4, <2>10 DEF StreamOK
  <2> QED BY <1>7, <2>3, <2>4, <2>10, <2>11
<1> QED BY <1>9, <1>10

(* A seeding reads the table. *)
LEMMA SeedReadsResume ==
  ASSUME TailedInv, EntryInv, ResumeInv, NEW s \in Sessions, SeedReads(s)
  PROVE  ResumeInv'
<1>1. /\ sess[s].st = "probe"
      /\ UNCHANGED <<wal, timeline, commits, conn, srcId, tail, high, path, liveId, reg, ent, incs, tick,
                     cur, lastId, url, view, dur, chain>>
  BY DEF SeedReads, dbVars, srcVars, engVars, netVars, storeVars
<1>2. LogTyped' /\ MapTyped' /\ LogOrdered' /\ RingKept' /\ Preserves(World, World')
  BY <1>1, LeaveKept
<1>3. IsSession(sess[s]) /\ DOMAIN sess = Sessions BY DEF TailedInv, SessionsShaped
<1>4. PICK x, y : x = sess[s] /\ y = [sess[s] EXCEPT !.st = "read", !.seed = DbRows,
                                                     !.pos = Len(wal), !.tl = timeline]
  OBVIOUS
<1>5. sess' = [sess EXCEPT ![s] = y] BY <1>3, <1>4 DEF SeedReads
<1>6. y.st = "read" /\ y.seed = DbRows /\ y.client = x.client /\ y.sub = x.sub /\ y.closed = x.closed
  BY <1>3, <1>4 DEF IsSession, SessionFields, FreeSession
<1>7. DbRows \in Rows BY DbRowsTyped DEF ResumeInv
<1>8. SessionsOwned'
  <2>1. Owned(y) BY <1>1, <1>4, <1>6, <1>7 DEF ResumeInv, SessionsOwned, Owned
  <2> QED BY <1>5, <2>1, OneOwned DEF ResumeInv, TailedInv
<1>9. StreamsTrail'
  <2>1. \A c \in Clients : cur'[c] = s => y.client = c /\ StreamOK(World', view[c], y, ent')
    <3> SUFFICES ASSUME NEW c \in Clients, cur[c] = s
                 PROVE  y.client = c /\ StreamOK(World', view[c], y, ent')
      BY <1>1
    <3>1. s # NoSession BY SessionsAssumption
    <3>2. x.client = c /\ StreamOK(World, view[c], x, ent) BY <1>4, <3>1 DEF ResumeInv, StreamsTrail
    <3>3. x.sub = 0 /\ x.closed = FALSE BY <1>1, <1>4, <3>2 DEF StreamOK
    <3> QED BY <1>6, <3>2, <3>3 DEF StreamOK
  <2>2. \A c \in Clients : cur'[c] \in {cur[c], NoSession} \/ cur'[c] = s BY <1>1
  <2>3. World.incs = incs BY WorldIs
  <2>4. \A i : i \in 1 .. incs => ent'[i].rows = ent[i].rows BY <1>1
  <2> QED BY <1>1, <1>2, <1>5, <2>1, <2>2, <2>3, <2>4, OneStream DEF ResumeInv, TailedInv
<1>10. DOMAIN cur' = Clients BY <1>1 DEF ResumeInv, ClientsTyped
<1> QED BY <1>1, <1>2, <1>8, <1>9, <1>10, StepResume

-----------------------------------------------------------------------------
(* A seeding lands, and the steps of the sessions *)

(* A seeding lands: what the clients hold is of earlier entries. *)
LEMMA SeedLandsResume ==
  ASSUME TailedInv, EntryInv, ResumeInv, NEW s \in Sessions, SeedLands(s)
  PROVE  ResumeInv'
<1>0. PICK x, i, w, w2 : x = sess[s] /\ i = incs + 1 /\ w = World /\ w2 = World' OBVIOUS
<1>1. PICK e : e = [FreshEntry EXCEPT !.rows = x.seed, !.pos = x.pos, !.tl = x.tl,
                                      !.clean = x.tl = timeline /\ tail <= x.pos, !.known = liveId # 0]
  OBVIOUS
<1>2. /\ x.st = "read" /\ incs < MaxIncs /\ incs' = i /\ ent' = [ent EXCEPT ![i] = e] /\ reg' = i
      /\ sess' = [sess EXCEPT ![s] = Subscribed(x, i, e)]
      /\ UNCHANGED <<wal, timeline, commits, conn, srcId, tail, high, path, liveId, tick,
                     cur, lastId, url, view, dur, chain>>
  BY <1>0, <1>1 DEF SeedLands, dbVars, srcVars, netVars, storeVars
<1>3. incs \in Nat /\ i \in Nat \ {0} /\ i \in Incs /\ IsSession(x) /\ DOMAIN sess = Sessions
  <2>1. incs \in Nat /\ IsSession(x) /\ DOMAIN sess = Sessions BY <1>0 DEF TailedInv, SessionsShaped
  <2> QED BY <1>0, <1>2, <2>1, SeedingsAssumption DEF Incs
<1>4. x.client \in Clients /\ x.seed \in Rows BY <1>0, <1>2 DEF ResumeInv, SessionsOwned, Owned
<1>5. /\ DOMAIN e = EntryFields /\ e.rows = x.seed /\ e.ring = <<>> /\ e.id = 0 /\ e.floor = -1
  BY <1>1 DEF EntryFields, FreshEntry
<1>6. DOMAIN ent = Incs /\ ent'[i] = e /\ DOMAIN ent' = Incs /\ \A j \in Incs : j # i => ent'[j] = ent[j]
  BY <1>2, <1>3 DEF ResumeInv, MapTyped
<1>7. /\ w2.repl = w.repl /\ w2.reg = i /\ w2.e = e /\ w2.incs = i /\ w2.id = liveId /\ w.incs = incs
      /\ w2.repl = (path = "replication")
  BY <1>0, <1>2, <1>6, WorldIs, WorldNext
<1>8. Preserves(w, w2)
  <2>1. w.incs \in Nat /\ w2.incs \in Nat /\ w.incs <= w2.incs /\ w2.reg = w.incs + 1
    BY <1>0, <1>3, <1>7
  <2> QED BY <1>7, <2>1, DropPreserves
<1>9. RingIn(w2)
  <2>1. e.ring \in Seq(Item) /\ DOMAIN e.ring = {} /\ e.floor \in Int /\ e.id \in Nat /\ e.rows \in Rows
    BY <1>4, <1>5
  <2> QED BY <1>5, <1>7, <2>1 DEF RingIn
<1>10. RingKept' BY <1>0, <1>9 DEF RingKept
<1>11. LogTyped' BY <1>2 DEF ResumeInv, LogTyped
<1>12. LogOrdered' BY <1>2 DEF ResumeInv, LogOrdered, LsnAt
<1>13. MapTyped'
  <2>1. reg' \in 0 .. incs' /\ incs' <= MaxIncs BY <1>0, <1>2, <1>3, SeedingsAssumption
  <2>2. \A j \in Incs : DOMAIN ent'[j] = EntryFields /\ ent'[j].rows \in Rows
    BY <1>4, <1>5, <1>6 DEF ResumeInv, MapTyped
  <2>3. tick' # NoTick => tick'.inc \in 1 .. incs' /\ tick'.rows \in Rows
    <3>1. tick # NoTick => tick.inc \in 1 .. incs /\ tick.rows \in Rows BY DEF ResumeInv, MapTyped
    <3>2. 1 .. incs \subseteq 1 .. i BY <1>0, <1>3
    <3> QED BY <1>2, <3>1, <3>2
  <2> QED BY <1>2, <1>6, <2>1, <2>2, <2>3 DEF ResumeInv, MapTyped
<1>14. PICK y : y = Subscribed(x, i, e) OBVIOUS
<1>15. y.st = "gap" /\ y.sub = i /\ IsSession(y) BY <1>3, <1>14, SubscribedAttends
<1>16. y.client = x.client BY <1>3, <1>14 DEF Subscribed, IsSession, SessionFields, FreeSession
<1>17. SessionsOwned'
  <2>1. Owned(y) BY <1>4, <1>15, <1>16 DEF Owned
  <2> QED BY <1>2, <1>14, <2>1, OneOwned DEF ResumeInv, TailedInv
<1>18. \A c \in Clients : cur'[c] = s => y.client = c /\ StreamOK(w2, view[c], y, ent')
  <2> SUFFICES ASSUME NEW c \in Clients, cur[c] = s
               PROVE  y.client = c /\ StreamOK(w2, view[c], y, ent')
    BY <1>2
  <2>1. s # NoSession BY SessionsAssumption
  <2>2. x.client = c /\ StreamOK(w, view[c], x, ent) BY <1>0, <2>1 DEF ResumeInv, StreamsTrail
  <2>3. x.closed = FALSE BY <1>2, <2>2 DEF StreamOK
  <2>4. view[x.client] \in Stores /\ GoodIn(w2, view[x.client])
    BY <1>0, <1>8, <2>2, MirrorGood DEF ResumeInv, Preserves
  <2>5. ~Covers(w2.e, x.since) BY <1>5, <1>7 DEF Covers
  <2>6. path = "replication" => RingIn(w2) /\ w2.top \in Nat /\ liveId \in Nat
    <3>1. LsnAt(high)' = LsnAt(high) BY <1>2 DEF LsnAt
    <3> QED BY <1>0, <1>9, <3>1, TopTyped, WorldNext DEF EntryInv, IdentityKnown
  <2>7. StreamIn(w2, view[x.client], Subscribed(x, w2.reg, w2.e), w2.e.rows)
    <3>1. /\ w2.incs \in Nat /\ w2.reg \in Nat \ {0} /\ w2.reg <= w2.incs /\ w2.e.rows \in Rows /\ ~x.closed
          /\ path \in {"poll", "replication"}
      BY <1>3, <1>4, <1>5, <1>7, <2>3 DEF ResumeInv, MapTyped
    <3> QED BY <1>3, <1>7, <2>4, <2>5, <2>6, <3>1, SubscribedStream
  <2>8. StreamIn(w2, view[c], y, ent'[y.sub].rows) BY <1>6, <1>7, <1>14, <1>15, <2>2, <2>7
  <2> QED BY <1>15, <1>16, <2>2, <2>8 DEF StreamOK
<1>19. StreamsTrail'
  <2>1. \A c \in Clients : cur'[c] \in {cur[c], NoSession} \/ cur'[c] = s BY <1>2
  <2>2. World.incs = incs BY WorldIs
  <2>3. \A j : j \in 1 .. incs => ent'[j].rows = ent[j].rows
    <3>1. \A j \in 1 .. incs : j \in Incs /\ j # i BY <1>0, <1>2, <1>3, SeedingsAssumption DEF Incs
    <3> QED BY <1>6, <3>1
  <2>4. Preserves(World, World') /\ sess' = [sess EXCEPT ![s] = y] BY <1>0, <1>2, <1>8, <1>14
  <2>5. \A c \in Clients : cur'[c] = s => y.client = c /\ StreamOK(World', view[c], y, ent')
    BY <1>0, <1>18
  <2> QED BY <1>2, <2>1, <2>2, <2>3, <2>4, <2>5, OneStream DEF ResumeInv, TailedInv
<1>20. DOMAIN cur' = Clients BY <1>2 DEF ResumeInv, ClientsTyped
<1>21. Preserves(World, World') BY <1>0, <1>8
<1> QED BY <1>2, <1>10, <1>11, <1>12, <1>13, <1>17, <1>19, <1>20, <1>21, StepResume

(* One session changes, and at most the shape leaves the map: a session that  *)
(* nobody listens to, or a step of its own stream.                            *)
LEMMA LeaveResume ==
  ASSUME TailedInv, ResumeInv, NEW s \in Sessions, NEW y, sess' = [sess EXCEPT ![s] = y],
         Owned(y), reg' \in {reg, 0}, DOMAIN cur' = Clients,
         \A c \in Clients : cur'[c] \in {cur[c], NoSession},
         \A c \in Clients : cur'[c] = s => y.client = c /\ StreamOK(World, view[c], y, ent),
         UNCHANGED <<wal, timeline, commits, conn, srcId, tail, high, path, liveId, ent, incs, tick,
                     lastId, url, view, dur, chain>>
  PROVE  ResumeInv'
<1>1. LogTyped' /\ MapTyped' /\ LogOrdered' /\ RingKept' /\ Preserves(World, World')
  BY LeaveKept
<1>2. SessionsOwned' BY OneOwned DEF ResumeInv, TailedInv
<1>3. StreamsTrail'
  <2>1. \A c \in Clients : cur'[c] = s => y.client = c /\ StreamOK(World', view[c], y, ent')
    <3> SUFFICES ASSUME NEW c \in Clients, cur'[c] = s
                 PROVE  y.client = c /\ StreamOK(World', view[c], y, ent)
      OBVIOUS
    <3>1. y.client = c /\ StreamOK(World, view[c], y, ent) OBVIOUS
    <3>2. view[c] \in Stores BY MirrorGood DEF ResumeInv
    <3> QED BY <1>1, <3>1, <3>2, StreamOKKept
  <2>2. World.incs = incs BY WorldIs
  <2>3. \A i : i \in 1 .. incs => ent'[i].rows = ent[i].rows OBVIOUS
  <2>4. \A c \in Clients : cur'[c] \in {cur[c], NoSession} \/ cur'[c] = s OBVIOUS
  <2> QED BY <1>1, <2>1, <2>2, <2>3, <2>4, OneStream DEF ResumeInv, TailedInv
<1> QED BY <1>1, <1>2, <1>3, StepResume

(* The stream of the client that listens to a session, and how to tell that   *)
(* the step of a session leaves it one.                                       *)
LEMMA ListenerStream ==
  ASSUME TailedInv, ResumeInv, NEW c \in Clients, NEW s \in Sessions, cur[c] = s,
         sess[s].st \in {"gap", "open"}
  PROVE  /\ sess[s].client = c /\ view[c] \in Stores /\ World.incs \in Nat
         /\ StreamIn(World, view[c], sess[s], ent[sess[s].sub].rows)
<1>1. s # NoSession BY SessionsAssumption
<1>2. sess[s].client = c /\ StreamOK(World, view[c], sess[s], ent) BY <1>1 DEF ResumeInv, StreamsTrail
<1>3. World.incs \in Nat BY WorldIs DEF TailedInv
<1> QED BY <1>2, <1>3, MirrorGood DEF ResumeInv, StreamOK

(* A session that is free has no owner. *)
LEMMA FreeOwned == Owned(FreeSession) /\ FreeSession.st = "free"
BY DEF Owned, FreeSession

(* A seeding fails. *)
LEMMA SubscribeFailsResume ==
  ASSUME TailedInv, ResumeInv, NEW s \in Sessions, SubscribeFails(s)
  PROVE  ResumeInv'
<1>1. /\ sess' = [sess EXCEPT ![s] = FreeSession]
      /\ cur' = [c \in Clients |-> IF cur[c] = s THEN NoSession ELSE cur[c]]
      /\ UNCHANGED <<wal, timeline, commits, conn, srcId, tail, high, path, liveId, reg, ent, incs, tick,
                     lastId, url, view, dur, chain>>
  BY DEF SubscribeFails, dbVars, srcVars, engVars, storeVars
<1>2. DOMAIN cur' = Clients /\ \A c \in Clients : cur'[c] \in {cur[c], NoSession} /\ cur'[c] # s
  BY <1>1, SessionsAssumption
<1>3. reg' \in {reg, 0} BY <1>1
<1> QED BY <1>1, <1>2, <1>3, FreeOwned, LeaveResume

(* The stream of a client that is gone is torn down. *)
LEMMA TeardownResume ==
  ASSUME TailedInv, ResumeInv, NEW s \in Sessions, Teardown(s)
  PROVE  ResumeInv'
<1>1. /\ sess' = [sess EXCEPT ![s] = FreeSession] /\ reg' \in {reg, 0}
      /\ sess[s].st \in {"gap", "open"} /\ cur[sess[s].client] # s
      /\ UNCHANGED <<wal, timeline, commits, conn, srcId, tail, high, path, liveId, ent, incs, tick,
                     cur, lastId, url, view, dur, chain>>
  BY DEF Teardown, Unsubscribed, dbVars, srcVars, netVars, storeVars
<1>2. \A c \in Clients : cur[c] # s
  <2> SUFFICES ASSUME NEW c \in Clients, cur[c] = s PROVE FALSE OBVIOUS
  <2>1. s # NoSession BY SessionsAssumption
  <2>2. sess[s].client = c BY <2>1 DEF ResumeInv, StreamsTrail
  <2> QED BY <1>1, <2>2
<1>3. DOMAIN cur' = Clients /\ \A c \in Clients : cur'[c] \in {cur[c], NoSession} /\ cur'[c] # s
  BY <1>1, <1>2 DEF ResumeInv, ClientsTyped
<1> QED BY <1>1, <1>3, FreeOwned, LeaveResume

(* The stream is attached. *)
LEMMA AttachResume ==
  ASSUME TailedInv, ResumeInv, NEW s \in Sessions, Attach(s)
  PROVE  ResumeInv'
<1>0. PICK x, y : x = sess[s] /\ y = Attached(x) OBVIOUS
<1>1. /\ sess' = [sess EXCEPT ![s] = y] /\ reg' \in {reg, 0} /\ x.st = "gap"
      /\ UNCHANGED <<wal, timeline, commits, conn, srcId, tail, high, path, liveId, ent, incs, tick,
                     cur, lastId, url, view, dur, chain>>
  BY <1>0 DEF Attach, Unsubscribed, dbVars, srcVars, netVars, storeVars, TailedInv, SessionsShaped
<1>2. IsSession(x) BY <1>0 DEF TailedInv, SessionsShaped
<1>3. Keeps(x, y) /\ y.st = "open" BY <1>0, <1>1, <1>2, AttachedKeeps
<1>4. Owned(y) BY <1>0, <1>3 DEF ResumeInv, SessionsOwned, Keeps
<1>5. ASSUME NEW c \in Clients, cur'[c] = s
      PROVE  y.client = c /\ StreamOK(World, view[c], y, ent)
  <2>1. PICK r, v : r = ent[x.sub].rows /\ v = view[c] OBVIOUS
  <2>2. x.client = c /\ v \in Stores /\ World.incs \in Nat /\ StreamIn(World, v, x, r)
    BY <1>0, <1>1, <1>5, <2>1, ListenerStream
  <2>3. StreamIn(World, v, y, r) BY <1>0, <1>2, <2>2, AttachedStream
  <2>4. y.sub # 0 => r = ent[y.sub].rows BY <1>3, <2>1 DEF Keeps
  <2>5. StreamOK(World, v, y, ent) BY <1>3, <2>3, <2>4, StreamOKNext
  <2> QED BY <1>3, <2>1, <2>2, <2>5 DEF Keeps
<1>6. DOMAIN cur' = Clients /\ \A c \in Clients : cur'[c] \in {cur[c], NoSession}
  BY <1>1 DEF ResumeInv, ClientsTyped
<1> QED BY <1>1, <1>4, <1>5, <1>6, LeaveResume

(* A failed re-authorization purges the stream. *)
LEMMA RevokeResume ==
  ASSUME TailedInv, ResumeInv, NEW s \in Sessions, Revoke(s)
  PROVE  ResumeInv'
<1>0. PICK x, y : x = sess[s] /\ y = Purged(x) OBVIOUS
<1>1. /\ sess' = [sess EXCEPT ![s] = y] /\ reg' \in {reg, 0} /\ x.st = "open"
      /\ UNCHANGED <<wal, timeline, commits, conn, srcId, tail, high, path, liveId, ent, incs, tick,
                     cur, lastId, url, view, dur, chain>>
  BY <1>0 DEF Revoke, Unsubscribed, dbVars, srcVars, netVars, storeVars, TailedInv, SessionsShaped
<1>2. IsSession(x) BY <1>0 DEF TailedInv, SessionsShaped
<1>3. Keeps(x, y) /\ y.st = "open" BY <1>0, <1>1, <1>2, PurgedKeeps, PurgedFollows DEF Follows
<1>4. Owned(y) BY <1>0, <1>3 DEF ResumeInv, SessionsOwned, Keeps
<1>5. ASSUME NEW c \in Clients, cur'[c] = s
      PROVE  y.client = c /\ StreamOK(World, view[c], y, ent)
  <2>1. PICK r, v : r = ent[x.sub].rows /\ v = view[c] OBVIOUS
  <2>2. x.client = c /\ v \in Stores /\ World.incs \in Nat /\ StreamIn(World, v, x, r)
    BY <1>0, <1>1, <1>5, <2>1, ListenerStream
  <2>3. StreamIn(World, v, y, r) BY <1>0, <1>2, <2>2, PurgedStream
  <2>4. y.sub # 0 => r = ent[y.sub].rows BY <1>3, <2>1 DEF Keeps
  <2>5. StreamOK(World, v, y, ent) BY <1>3, <2>3, <2>4, StreamOKNext
  <2> QED BY <1>3, <2>1, <2>2, <2>5 DEF Keeps
<1>6. DOMAIN cur' = Clients /\ \A c \in Clients : cur'[c] \in {cur[c], NoSession}
  BY <1>1 DEF ResumeInv, ClientsTyped
<1> QED BY <1>1, <1>4, <1>5, <1>6, LeaveResume

(* The lifetime cap closes the stream. *)
LEMMA ExpireResume ==
  ASSUME TailedInv, ResumeInv, NEW s \in Sessions, Expire(s)
  PROVE  ResumeInv'
<1>0. PICK x, y : x = sess[s] /\ y = [sess[s] EXCEPT !.closed = TRUE, !.sub = 0] OBVIOUS
<1>1. /\ sess' = [sess EXCEPT ![s] = y] /\ reg' \in {reg, 0} /\ x.st = "open"
      /\ UNCHANGED <<wal, timeline, commits, conn, srcId, tail, high, path, liveId, ent, incs, tick,
                     cur, lastId, url, view, dur, chain>>
  BY <1>0 DEF Expire, Unsubscribed, dbVars, srcVars, netVars, storeVars, TailedInv, SessionsShaped
<1>2. IsSession(x) BY <1>0 DEF TailedInv, SessionsShaped
<1>3. /\ y.client = x.client /\ y.st = "open" /\ y.sub = 0 /\ y.closed = TRUE /\ y.q = x.q
      /\ y.exact = x.exact
  BY <1>0, <1>1, <1>2 DEF IsSession, SessionFields, FreeSession
<1>4. Owned(y) BY <1>0, <1>1, <1>3 DEF ResumeInv, SessionsOwned, Owned
<1>5. ASSUME NEW c \in Clients, cur'[c] = s
      PROVE  y.client = c /\ StreamOK(World, view[c], y, ent)
  <2>1. PICK r, v : r = ent[x.sub].rows /\ v = view[c] OBVIOUS
  <2>2. x.client = c /\ v \in Stores /\ World.incs \in Nat /\ StreamIn(World, v, x, r)
    BY <1>0, <1>1, <1>5, <2>1, ListenerStream
  <2>3. StreamIn(World, v, y, ent[y.sub].rows) BY <1>3, <2>2 DEF StreamIn
  <2> QED BY <1>3, <2>1, <2>2, <2>3 DEF StreamOK
<1>6. DOMAIN cur' = Clients /\ \A c \in Clients : cur'[c] \in {cur[c], NoSession}
  BY <1>1 DEF ResumeInv, ClientsTyped
<1> QED BY <1>1, <1>4, <1>5, <1>6, LeaveResume

(* The client has read a closed stream to its end. *)
LEMMA StreamEndsResume ==
  ASSUME TailedInv, ResumeInv, NEW c \in Clients, StreamEnds(c)
  PROVE  ResumeInv'
<1>1. PICK s : s = cur[c] OBVIOUS
<1>2. /\ s # NoSession /\ sess' = [sess EXCEPT ![s] = FreeSession] /\ cur' = HangUp(c)
      /\ UNCHANGED <<wal, timeline, commits, conn, srcId, tail, high, path, liveId, reg, ent, incs, tick,
                     lastId, url, view, dur, chain>>
  BY <1>1 DEF StreamEnds, dbVars, srcVars, engVars, storeVars
<1>3. s \in Sessions BY <1>1, <1>2 DEF ResumeInv, StreamsTrail
<1>4. DOMAIN cur' = Clients /\ \A d \in Clients : cur'[d] \in {cur[d], NoSession}
  BY <1>2 DEF HangUp
<1>5. \A d \in Clients : cur'[d] # s
  <2> SUFFICES ASSUME NEW d \in Clients, cur'[d] = s PROVE FALSE OBVIOUS
  <2>1. d # c /\ cur[d] = s BY <1>1, <1>2 DEF HangUp
  <2>2. sess[s].client = c /\ sess[s].client = d BY <1>1, <1>2, <2>1 DEF ResumeInv, StreamsTrail
  <2> QED BY <2>1, <2>2
<1>6. reg' \in {reg, 0} BY <1>2
<1> QED BY <1>2, <1>3, <1>4, <1>5, <1>6, FreeOwned, LeaveResume

-----------------------------------------------------------------------------
(* The steps of the clients *)

(* A step of a client: nothing that the engine keeps changes. *)
LEMMA EngineKept ==
  ASSUME TailedInv, ResumeInv,
         UNCHANGED <<wal, timeline, commits, conn, srcId, tail, high, path, liveId, reg, ent, incs, tick>>
  PROVE  World' = World /\ LogTyped' /\ MapTyped' /\ LogOrdered' /\ RingKept'
<1>1. LogTyped' /\ MapTyped' /\ LogOrdered' /\ RingKept' BY LeaveKept
<1> QED BY <1>1, WorldKept DEF TailedInv

(* The stores of one client change. *)
LEMMA OneClient ==
  ASSUME ClientsTrail, World' = World, NEW c \in Clients,
         \A d \in Clients \ {c} : /\ view'[d] = view[d] /\ dur'[d] = dur[d] /\ chain'[d] = chain[d]
                                  /\ lastId'[d] = lastId[d] /\ url'[d] = url[d],
         ClientIn(World, view'[c], dur'[c], chain'[c], Since(c)')
  PROVE  ClientsTrail'
<1> SUFFICES ASSUME NEW d \in Clients PROVE ClientIn(World, view'[d], dur'[d], chain'[d], Since(d)')
  BY DEF ClientsTrail
<1>1. CASE d = c BY <1>1
<1>2. CASE d # c
  <2>1. Since(d)' = Since(d) BY <1>2 DEF Since
  <2>2. ClientIn(World, view[d], dur[d], chain[d], Since(d)) BY DEF ClientsTrail
  <2> QED BY <1>2, <2>1, <2>2
<1> QED BY <1>1, <1>2

(* The streams of the other clients. *)
LEMMA OtherStreams ==
  ASSUME StreamsTrail, World' = World, UNCHANGED ent, NEW c \in Clients,
         \A d \in Clients \ {c} : /\ view'[d] = view[d] /\ cur'[d] = cur[d]
                                  /\ cur[d] # NoSession => sess'[cur[d]] = sess[cur[d]],
         cur'[c] # NoSession =>
           /\ cur'[c] \in Sessions /\ sess'[cur'[c]].client = c
           /\ StreamOK(World, view'[c], sess'[cur'[c]], ent)
  PROVE  StreamsTrail'
<1> SUFFICES ASSUME NEW d \in Clients, cur'[d] # NoSession
             PROVE  /\ cur'[d] \in Sessions /\ sess'[cur'[d]].client = d
                    /\ StreamOK(World, view'[d], sess'[cur'[d]], ent)
  BY DEF StreamsTrail
<1>1. CASE d = c BY <1>1
<1>2. CASE d # c
  <2>a. d \in Clients \ {c} BY <1>2
  <2>b. cur'[d] = cur[d] /\ view'[d] = view[d] BY <2>a
  <2>c. cur[d] # NoSession BY <2>b
  <2>d. sess'[cur[d]] = sess[cur[d]] BY <2>a, <2>c
  <2>1. cur[d] # NoSession /\ cur'[d] = cur[d] /\ view'[d] = view[d] /\ sess'[cur[d]] = sess[cur[d]]
    BY <2>b, <2>c, <2>d
  <2>2. cur[d] \in Sessions /\ sess[cur[d]].client = d /\ StreamOK(World, view[d], sess[cur[d]], ent)
    BY <2>1 DEF StreamsTrail
  <2> QED BY <2>1, <2>2
<1> QED BY <1>1, <1>2

(* The connection breaks; the client keeps its mirror and its cursor. *)
LEMMA DisconnectResume ==
  ASSUME TailedInv, ResumeInv, NEW c \in Clients, Disconnect(c)
  PROVE  ResumeInv'
<1>1. /\ cur' = HangUp(c)
      /\ UNCHANGED <<wal, timeline, commits, conn, srcId, tail, high, path, liveId, reg, ent, incs, tick,
                     sess, lastId, url, view, dur, chain>>
  BY DEF Disconnect, dbVars, srcVars, engVars, storeVars
<1>2. LogTyped' /\ MapTyped' /\ LogOrdered' /\ RingKept' /\ Preserves(World, World')
  BY <1>1, LeaveKept
<1>3. DOMAIN cur' = Clients /\ \A d \in Clients : cur'[d] \in {cur[d], NoSession}
  BY <1>1 DEF HangUp
<1>4. StreamsTrail' BY <1>1, <1>2, <1>3, SameStreams DEF ResumeInv
<1>5. SessionsOwned' BY <1>1 DEF ResumeInv, SessionsOwned, Owned
<1> QED BY <1>1, <1>2, <1>3, <1>4, <1>5, StepResume

(* The page is reloaded: the mirror goes back to the durable tier, and the    *)
(* cursor with it.                                                            *)
LEMMA ReloadResume ==
  ASSUME TailedInv, ResumeInv, NEW c \in Clients, Reload(c)
  PROVE  ResumeInv'
<1>1. /\ cur' = HangUp(c) /\ view' = [view EXCEPT ![c] = dur[c]] /\ chain' = [chain EXCEPT ![c] = <<>>]
      /\ lastId' = [lastId EXCEPT ![c] = Undefined] /\ url' = [url EXCEPT ![c] = dur[c].cursor]
      /\ UNCHANGED <<wal, timeline, commits, conn, srcId, tail, high, path, liveId, reg, ent, incs, tick,
                     sess, dur>>
  BY DEF Reload, dbVars, srcVars, engVars
<1>2. World' = World /\ LogTyped' /\ MapTyped' /\ LogOrdered' /\ RingKept' BY <1>1, EngineKept
<1>3. ClientsTyped BY DEF ResumeInv
<1>4. /\ ClientsTyped'
      /\ view'[c] = dur[c] /\ dur'[c] = dur[c] /\ chain'[c] = <<>> /\ lastId'[c] = Undefined
      /\ url'[c] = dur[c].cursor
      /\ \A d \in Clients \ {c} : /\ view'[d] = view[d] /\ dur'[d] = dur[d] /\ chain'[d] = chain[d]
                                  /\ lastId'[d] = lastId[d] /\ url'[d] = url[d]
  BY <1>1, <1>3 DEF ClientsTyped, HangUp
<1>5. ClientIn(World, view[c], dur[c], chain[c], Since(c)) BY DEF ResumeInv, ClientsTrail
<1>6. dur[c] \in Stores /\ GoodIn(World, dur[c]) BY <1>5, TrailEnds DEF ClientIn
<1>7. Since(c)' = dur[c].cursor BY <1>4 DEF Since
<1>8. ClientIn(World, view'[c], dur'[c], chain'[c], Since(c)')
  <2>1. <<>> \in Seq(Frame) /\ TrailGood(World, dur[c], <<>>) /\ AllRead(dur[c], <<>>) = dur[c]
    BY <1>6, TrailNone
  <2>2. dur[c].cursor \in Cursor BY <1>6 DEF Stores
  <2>3. ClientIn(World, dur[c], dur[c], <<>>, dur[c].cursor) BY <1>6, <2>1, <2>2 DEF ClientIn
  <2> QED BY <1>4, <1>7, <2>3
<1>9. ClientsTrail' BY <1>2, <1>4, <1>8, OneClient DEF ResumeInv
<1>10. StreamsTrail'
  <2>1. cur'[c] = NoSession /\ \A d \in Clients \ {c} : cur'[d] = cur[d] BY <1>1 DEF HangUp
  <2> QED BY <1>1, <1>2, <1>4, <2>1, OtherStreams DEF ResumeInv
<1>11. SessionsOwned' BY <1>1 DEF ResumeInv, SessionsOwned, Owned
<1> QED BY <1>2, <1>4, <1>9, <1>10, <1>11 DEF ResumeInv

(* A durable write lands. *)
LEMMA WriteLandsResume ==
  ASSUME TailedInv, ResumeInv, NEW c \in Clients, WriteLands(c)
  PROVE  ResumeInv'
<1>0. PICK F, d : F = chain[c] /\ d = dur[c] OBVIOUS
<1>1. /\ F # <<>> /\ chain' = [chain EXCEPT ![c] = Tail(F)]
      /\ dur' = [dur EXCEPT ![c] = Store(Head(F), d)]
      /\ UNCHANGED <<wal, timeline, commits, conn, srcId, tail, high, path, liveId, reg, ent, incs, tick,
                     sess, cur, lastId, url, view>>
  BY <1>0 DEF WriteLands, dbVars, srcVars, engVars, netVars
<1>2. World' = World /\ LogTyped' /\ MapTyped' /\ LogOrdered' /\ RingKept' BY <1>1, EngineKept
<1>3. ClientsTyped BY DEF ResumeInv
<1>4. /\ ClientsTyped' /\ dur'[c] = Store(Head(F), d) /\ chain'[c] = Tail(F)
      /\ \A b \in Clients \ {c} : dur'[b] = dur[b] /\ chain'[b] = chain[b]
  BY <1>1, <1>3 DEF ClientsTyped
<1>5. ClientIn(World, view[c], d, F, Since(c)) BY <1>0 DEF ResumeInv, ClientsTrail
<1>6. /\ Store(Head(F), d) \in Stores /\ Tail(F) \in Seq(Frame)
      /\ TrailGood(World, Store(Head(F), d), Tail(F))
      /\ AllRead(Store(Head(F), d), Tail(F)) = AllRead(d, F)
  BY <1>1, <1>5, TrailRest DEF ClientIn
<1>7. ClientIn(World, view[c], Store(Head(F), d), Tail(F), Since(c)) BY <1>5, <1>6 DEF ClientIn
<1>8. Since(c)' = Since(c) BY <1>1 DEF Since
<1>9. ClientsTrail'
  <2>1. ClientIn(World, view'[c], dur'[c], chain'[c], Since(c)') BY <1>1, <1>4, <1>7, <1>8
  <2> QED BY <1>1, <1>2, <1>4, <2>1, OneClient DEF ResumeInv
<1>10. StreamsTrail' BY <1>1, <1>2 DEF ResumeInv, StreamsTrail
<1>11. SessionsOwned' BY <1>1 DEF ResumeInv, SessionsOwned, Owned
<1> QED BY <1>2, <1>4, <1>9, <1>10, <1>11 DEF ResumeInv

(* A frame reaches the consumer: the mirror, the write it leaves and the      *)
(* cursor move together.                                                      *)
LEMMA ReceiveResume ==
  ASSUME TailedInv, ResumeInv, NEW c \in Clients, Receive(c)
  PROVE  ResumeInv'
<1>0. PICK s, x, f, v, F, w : /\ s = cur[c] /\ x = sess[s] /\ f = Head(x.q) /\ v = view[c] /\ F = chain[c]
                             /\ w = World
  OBVIOUS
<1>1. /\ s # NoSession /\ x.st = "open" /\ x.q # <<>>
      /\ sess' = [sess EXCEPT ![s].q = Tail(@)]
      /\ lastId' = [lastId EXCEPT ![c] = f.cursor] /\ view' = [view EXCEPT ![c] = Store(f, v)]
      /\ chain' = [chain EXCEPT ![c] = Append(F, f)]
      /\ UNCHANGED <<wal, timeline, commits, conn, srcId, tail, high, path, liveId, reg, ent, incs, tick,
                     cur, url, dur>>
  BY <1>0 DEF Receive, dbVars, srcVars, engVars
<1>2. World' = World /\ LogTyped' /\ MapTyped' /\ LogOrdered' /\ RingKept' BY <1>1, EngineKept
<1>3. s \in Sessions /\ x.client = c BY <1>0, <1>1 DEF ResumeInv, StreamsTrail
<1>4. IsSession(x) /\ DOMAIN sess = Sessions BY <1>0, <1>3 DEF TailedInv, SessionsShaped
<1>5. PICK y : y = [x EXCEPT !.q = Tail(@)] OBVIOUS
<1>6. sess' = [sess EXCEPT ![s] = y] BY <1>0, <1>1, <1>3, <1>4, <1>5
<1>7. /\ y.q = Tail(x.q) /\ y.st = "open" /\ y.client = c /\ y.sub = x.sub /\ y.closed = x.closed
      /\ y.exact = x.exact
  BY <1>1, <1>3, <1>4, <1>5 DEF IsSession, SessionFields, FreeSession
<1>8. ClientsTyped BY DEF ResumeInv
<1>9. /\ ClientsTyped' /\ lastId'[c] = f.cursor /\ view'[c] = Store(f, v) /\ chain'[c] = Append(F, f)
      /\ \A d \in Clients \ {c} : view'[d] = view[d] /\ chain'[d] = chain[d] /\ lastId'[d] = lastId[d]
  BY <1>1, <1>8 DEF ClientsTyped
<1>10. PICK r : r = ent[x.sub].rows OBVIOUS
<1>11. v \in Stores /\ StreamIn(w, v, x, r)
  BY <1>0, <1>1, <1>3, <1>10, ListenerStream
<1>12. /\ f \in Frame /\ Store(f, v) \in Stores /\ Tail(x.q) \in Seq(Frame)
       /\ TrailGood(w, Store(f, v), Tail(x.q))
       /\ AllRead(Store(f, v), Tail(x.q)) = AllRead(v, x.q)
  BY <1>0, <1>1, <1>11, TrailRest DEF StreamIn
<1>13. GoodIn(w, Store(f, v)) BY <1>12, TrailEnds
<1>14. ClientIn(w, v, dur[c], F, Since(c)) BY <1>0 DEF ResumeInv, ClientsTrail
<1>15. ClientsTrail'
  <2>1. /\ Append(F, f) \in Seq(Frame) /\ TrailGood(w, dur[c], Append(F, f))
        /\ AllRead(dur[c], Append(F, f)) = Store(f, v)
    <3>1. v = AllRead(dur[c], F) /\ dur[c] \in Stores /\ F \in Seq(Frame) /\ TrailGood(w, dur[c], F)
      BY <1>14 DEF ClientIn
    <3>2. GoodIn(w, Store(f, AllRead(dur[c], F))) BY <1>13, <3>1
    <3> QED BY <1>12, <3>1, <3>2, TrailSnoc
  <2>2. f.cursor \in Cursor /\ f.cursor # Undefined BY <1>12, FrameCases
  <2>3. Since(c)' = f.cursor BY <1>9, <2>2 DEF Since
  <2>4. Decodes(f.cursor) => f.cursor = Store(f, v).cursor
    <3>1. Store(f, v).cursor = IF f.kind = "resync" THEN Undefined ELSE f.cursor
      BY <1>11, <1>12, StoreIs
    <3>2. f.kind = "resync" => f.cursor = NonResumable BY <1>12, FrameCases
    <3> QED BY <3>1, <3>2 DEF NonResumable, Decodes
  <2>5. dur[c] \in Stores BY <1>14 DEF ClientIn
  <2>6. ClientIn(w, Store(f, v), dur[c], Append(F, f), f.cursor)
    BY <1>12, <2>1, <2>2, <2>4, <2>5 DEF ClientIn
  <2>7. ClientIn(World, view'[c], dur'[c], chain'[c], Since(c)') BY <1>0, <1>1, <1>9, <2>3, <2>6
  <2> QED BY <1>1, <1>2, <1>9, <2>7, OneClient DEF ResumeInv
<1>16. StreamsTrail'
  <2>1. StreamIn(w, Store(f, v), y, r) BY <1>7, <1>11, <1>12 DEF StreamIn
  <2>2. StreamOK(w, Store(f, v), y, ent) BY <1>7, <1>10, <2>1 DEF StreamOK
  <2>3. sess'[s] = y /\ \A q \in Sessions \ {s} : sess'[q] = sess[q] BY <1>3, <1>4, <1>6
  <2>4. \A d \in Clients \ {c} : cur[d] # NoSession => cur[d] # s /\ cur[d] \in Sessions
    <3> SUFFICES ASSUME NEW d \in Clients \ {c}, cur[d] # NoSession
                 PROVE  cur[d] # s /\ cur[d] \in Sessions
      OBVIOUS
    <3>1. cur[d] \in Sessions /\ sess[cur[d]].client = d BY DEF ResumeInv, StreamsTrail
    <3> QED BY <1>0, <1>3, <3>1
  <2>5. /\ cur'[c] \in Sessions /\ sess'[cur'[c]].client = c
        /\ StreamOK(World, view'[c], sess'[cur'[c]], ent)
    <3>1. cur'[c] = s /\ sess'[cur'[c]] = y /\ view'[c] = Store(f, v) BY <1>0, <1>1, <1>9, <2>3
    <3> QED BY <1>0, <1>3, <1>7, <2>2, <3>1
  <2>6. \A d \in Clients \ {c} : /\ view'[d] = view[d] /\ cur'[d] = cur[d]
                                 /\ cur[d] # NoSession => sess'[cur[d]] = sess[cur[d]]
    BY <1>1, <1>9, <2>3, <2>4
  <2>7. StreamsTrail /\ UNCHANGED ent BY <1>1 DEF ResumeInv
  <2> QED BY <1>2, <2>5, <2>6, <2>7, OtherStreams
<1>17. SessionsOwned'
  <2>1. Owned(y) BY <1>7 DEF Owned
  <2> QED BY <1>3, <1>6, <2>1, OneOwned DEF ResumeInv, TailedInv
<1> QED BY <1>2, <1>9, <1>15, <1>16, <1>17 DEF ResumeInv

-----------------------------------------------------------------------------
(* Initially the invariant holds ... *)
LEMMA ResumeInit == Init => ResumeInv
<1> SUFFICES ASSUME Init PROVE ResumeInv OBVIOUS
<1>1. LogTyped BY DEF Init, LogTyped
<1>2. NoRows \in Rows BY DEF NoRows, Rows, Absent
<1>3. MapTyped
  <2>1. \A i \in Incs : DOMAIN ent[i] = EntryFields /\ ent[i].rows \in Rows
    BY <1>2 DEF Init, EntryFields, FreshEntry
  <2> QED BY <2>1, PathsAssumption, SeedingsAssumption DEF Init, MapTyped
<1>4. SessionsOwned BY FreeOwned DEF Init, SessionsOwned
<1>5. ClientsTyped BY DEF Init, ClientsTyped
<1>6. LogOrdered BY DEF Init, LogOrdered
<1>7. RingKept BY DEF Init, RingKept
<1>8. ClientsTrail
  <2> SUFFICES ASSUME NEW c \in Clients PROVE ClientIn(World, view[c], dur[c], chain[c], Since(c))
    BY DEF ClientsTrail
  <2>1. view[c] = EmptyStore /\ dur[c] = EmptyStore /\ chain[c] = <<>> /\ Since(c) = Undefined
    BY DEF Init, Since
  <2>2. World.incs \in Nat BY WorldIs DEF Init
  <2>3. EmptyStore \in Stores /\ GoodIn(World, EmptyStore) BY <2>2, EmptyStoreTyped, GoodEmpty
  <2>4. <<>> \in Seq(Frame) /\ TrailGood(World, EmptyStore, <<>>) /\ AllRead(EmptyStore, <<>>) = EmptyStore
    BY <2>3, TrailNone
  <2>5. Undefined \in Cursor /\ ~Decodes(Undefined) BY EmptyStoreTyped DEF Undefined, Cursor
  <2> QED BY <2>1, <2>3, <2>4, <2>5 DEF ClientIn
<1>9. StreamsTrail BY DEF Init, StreamsTrail
<1> QED BY <1>1, <1>3, <1>4, <1>5, <1>6, <1>7, <1>8, <1>9 DEF ResumeInv

(* ... and every step keeps it. *)
LEMMA ResumeStep == TailedInv /\ EntryInv /\ ResumeInv /\ [Next]_vars => ResumeInv'
<1> SUFFICES ASSUME TailedInv, EntryInv, ResumeInv, [Next]_vars PROVE ResumeInv'
  OBVIOUS
<1>1. CASE SourceConnects BY <1>1, ConnectsResume
<1>2. CASE SourceDelivers BY <1>2, DeliversResume
<1>3. CASE PollReads \/ PollFaults BY <1>3, PollReadsResume
<1>4. CASE PollLands BY <1>4, PollLandsResume
<1>5. CASE Commit BY <1>5, CommitResume
<1>6. CASE Failover BY <1>6, FailoverResume
<1>7. CASE SourceDrops BY <1>7, DropsResume
<1>8. ASSUME NEW s \in Sessions,
             \/ SeedReads(s) \/ SeedLands(s) \/ Attach(s) \/ Teardown(s)
             \/ SubscribeFails(s) \/ Expire(s) \/ Revoke(s)
      PROVE  ResumeInv'
  BY <1>8, SeedReadsResume, SeedLandsResume, AttachResume, TeardownResume, SubscribeFailsResume,
     ExpireResume, RevokeResume
<1>9. ASSUME NEW c \in Clients,
             \/ Receive(c) \/ StreamEnds(c) \/ WriteLands(c) \/ Disconnect(c) \/ Reload(c)
      PROVE  ResumeInv'
  BY <1>9, ReceiveResume, StreamEndsResume, WriteLandsResume, DisconnectResume, ReloadResume
<1>10. ASSUME NEW c \in Clients, NEW s \in Sessions, Connect(c, s) PROVE ResumeInv'
  BY <1>10, ConnectResume
<1>11. CASE UNCHANGED vars
  <2>1. UNCHANGED <<wal, timeline, commits, conn, srcId, tail, high, path, liveId, reg, ent, incs, tick,
                    sess, cur, lastId, url, view, dur, chain>>
    BY <1>11 DEF vars, dbVars, srcVars, engVars, netVars, storeVars
  <2>2. LogTyped' /\ MapTyped' /\ LogOrdered' /\ RingKept' /\ Preserves(World, World')
    BY <2>1, LeaveKept
  <2> QED BY <2>1, <2>2, QuietResume
<1> QED
  BY <1>1, <1>2, <1>3, <1>4, <1>5, <1>6, <1>7, <1>8, <1>9, <1>10, <1>11
  DEF Next, Progress, Disturbance, SessionStep, ClientStep

(* A client that resumes, or starts from a snapshot, ends up with exactly     *)
(* the rows of the entry it subscribed to (resume.ts, reconcile; engine.ts,   *)
(* subscribe; consumer.ts and sqlite-store.ts): whatever was evicted from     *)
(* the ring, delivered twice, cut off in the middle of a commit or lost with  *)
(* a reload, for any number of clients, sessions, keys, changes, failovers    *)
(* and seedings.                                                              *)
THEOREM ResumedIsExact == Spec => []ResumeExact
<1>1. Init => TailedInv /\ EntryInv /\ ResumeInv BY TailedInit, EntryInit, ResumeInit
<1>2. TailedInv /\ EntryInv /\ ResumeInv /\ [Next]_vars => (TailedInv /\ EntryInv /\ ResumeInv)'
  BY TailedStep, EntryStep, ResumeStep
<1>3. TailedInv /\ EntryInv /\ ResumeInv => ResumeExact BY ResumeIsExact
<1> QED BY <1>1, <1>2, <1>3, PTL DEF Spec

=============================================================================
