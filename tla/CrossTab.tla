------------------------------ MODULE CrossTab ------------------------------
(***************************************************************************)
(* The tabs of one live query (packages/live/src/cross-tab.ts): a Web Lock *)
(* elects the leader (leader.ts), which alone opens the store and the sync *)
(* connection and broadcasts its rendered rows to the others.              *)
(*                                                                         *)
(* The server is a log of changes, each a peer's or one of the client's    *)
(* own writes.  A store is the position its rows reflect, the writes that  *)
(* are baked into its rows though the wire did not bring them, and the     *)
(* writes of its optimistic overlay.                                       *)
(***************************************************************************)
EXTENDS Integers, Sequences, SequencesExt, FiniteSets

CONSTANTS
  Tabs, Writes,
  NoTab,
  Durables,   \* whether createLeaderStore opens the one durable store
  MaxChanges, \* bound: changes at the server
  MaxFaults   \* bound: tabs closed or disconnected, stores that fail to open

NoTabAssumption == NoTab \notin Tabs

Peer == NoTab
NoCursor == -1

VARIABLES
  log,     \* the server's changes
  poster,  \* per write: the tab whose POST is under way
  unused,  \* the writes not yet made
  durable, \* createLeaderStore opens the durable store
  handle,  \* the tab that has the durable store open
  disk,    \* the rows of the durable store
  lock,    \* the holder of the Web Lock
  waiting, \* the queue for it
  tab,     \* per tab: "new", "up", "disconnected" or "closed"
  acting,
  stage,   \* per tab, its leadership: "no", "opening" or "leading"
  stale,   \* the stores a dispose is pending for
  store,   \* per tab: the store the query reads
  inbox,   \* per tab: the channel's messages to it
  faults

srvVars == <<log, poster, unused>>
diskVars == <<durable, handle, disk, stale>>
lockVars == <<lock, waiting>>
tabVars == <<tab, acting, stage>>
vars == <<srvVars, diskVars, lockVars, tabVars, store, inbox, faults>>

EmptyStore == [upto |-> NoCursor, baked |-> {}, over |-> {}]

Init ==
  /\ log = <<>> /\ poster = [w \in Writes |-> NoTab] /\ unused = Writes
  /\ durable \in Durables /\ handle = NoTab /\ disk = EmptyStore /\ stale = {}
  /\ lock = NoTab /\ waiting = <<>>
  /\ tab = [t \in Tabs |-> "new"]
  /\ acting = [t \in Tabs |-> FALSE]
  /\ stage = [t \in Tabs |-> "no"]
  /\ store = [t \in Tabs |-> EmptyStore]
  /\ inbox = [t \in Tabs |-> <<>>]
  /\ faults = 0

Fault == faults < MaxFaults /\ faults' = faults + 1

-----------------------------------------------------------------------------
(* The channel *)

Up(t) == tab[t] = "up"

(* postMessage() reaches every other tab on the channel, in order. *)
Posted(box, t, message) ==
  [u \in Tabs |-> IF u # t /\ Up(u) THEN Append(box[u], message) ELSE box[u]]

Hello == [t |-> "hello"]

(* The rendered slice: the overlay is merged into the rows. *)
Rendered(s) == [t |-> "snapshot", upto |-> s.upto, baked |-> s.baked \cup s.over]

(* The rows go to the durable store, the overlay does not. *)
Persists(s) == disk' = IF durable THEN [s EXCEPT !.over = {}] ELSE disk

(* The leader's store changes, and its subscription publishes. *)
Mutates(t, s) ==
  /\ store' = [store EXCEPT ![t] = s]
  /\ inbox' = Posted(inbox, t, Rendered(s))

-----------------------------------------------------------------------------
(* A tab opens: a follower with an empty store, a hello, a bid for the lock. *)
OpenTab(t) ==
  /\ tab[t] = "new"
  /\ tab' = [tab EXCEPT ![t] = "up"]
  /\ inbox' = Posted(inbox, t, Hello)
  /\ waiting' = Append(waiting, t)
  /\ UNCHANGED <<srvVars, diskVars, lock, acting, stage, store, faults>>

(* The browser grants the lock; onLeadership() begins to open the store. *)
Grant ==
  LET t == Head(waiting) IN
  /\ lock = NoTab /\ waiting # <<>>
  /\ lock' = t
  /\ waiting' = Tail(waiting)
  /\ acting' = [acting EXCEPT ![t] = TRUE]
  /\ stage' = [stage EXCEPT ![t] = "opening"]
  /\ UNCHANGED <<srvVars, diskVars, tab, store, inbox, faults>>

(* The durable store is exclusive: it opens for one tab at a time. *)
Opens(t) == durable => handle = NoTab

(* A store without a cursor of its own takes over the follower's view. *)
Seeded(fresh, view) ==
  IF fresh.upto = NoCursor THEN [fresh EXCEPT !.upto = view.upto, !.baked = view.baked] ELSE fresh

(* createLeaderStore() returns to a tab that is still acting: seed, swap,     *)
(* publish, connect.                                                          *)
Leads(t) ==
  LET s == Seeded(IF durable THEN disk ELSE EmptyStore, store[t]) IN
  /\ stage[t] = "opening" /\ acting[t] /\ Opens(t)
  /\ handle' = IF durable THEN t ELSE handle
  /\ stage' = [stage EXCEPT ![t] = "leading"]
  /\ Mutates(t, s)
  /\ Persists(s)
  /\ UNCHANGED <<srvVars, durable, stale, lockVars, tab, acting, faults>>

(* It returns to one that disconnected meanwhile: the half-built term is      *)
(* abandoned and its store disposed of.                                       *)
Abandons(t) ==
  /\ stage[t] = "opening" /\ ~acting[t] /\ Opens(t)
  /\ handle' = IF durable THEN t ELSE handle
  /\ stale' = IF durable THEN stale \cup {t} ELSE stale
  /\ stage' = [stage EXCEPT ![t] = "no"]
  /\ lock' = NoTab
  /\ UNCHANGED <<srvVars, durable, disk, waiting, tab, acting, store, inbox, faults>>

(* Seeded fault: the failed leader goes on ignoring what others broadcast. *)
StillActing(t) == acting

Resigned(t) == [acting EXCEPT ![t] = FALSE]

(* It throws, by itself or since the store is still open elsewhere: the lock  *)
(* goes back, and the tab does not bid again.                                 *)
FailsToOpen(t) ==
  /\ stage[t] = "opening" /\ (~Opens(t) \/ faults < MaxFaults)
  /\ faults' = IF Opens(t) THEN faults + 1 ELSE faults
  /\ acting' = Resigned(t)
  /\ stage' = [stage EXCEPT ![t] = "no"]
  /\ lock' = NoTab
  /\ UNCHANGED <<srvVars, diskVars, waiting, tab, store, inbox>>

(* The dispose of a store: flushed, and its handle closed. *)
Dispose(t) ==
  /\ t \in stale
  /\ stale' = stale \ {t}
  /\ handle' = IF handle = t THEN NoTab ELSE handle
  /\ UNCHANGED <<srvVars, durable, disk, lockVars, tabVars, store, inbox, faults>>

(* Seeded fault: the connection outlives the term. *)
LeftOpen(t) == stage

(* stopLeading() closes the connection at once. *)
Stopped(t) == IF stage[t] = "leading" THEN [stage EXCEPT ![t] = "no"] ELSE stage

(* The queue without the bid of a tab, which bids once. *)
Withdrawn(t) ==
  LET bids == {i \in DOMAIN waiting : waiting[i] = t} IN
  IF bids = {} THEN waiting ELSE RemoveAt(waiting, CHOOSE i \in bids : TRUE)

(* disconnect(): the term ends, then the lock is released, or the bid         *)
(* withdrawn; a store that is being opened keeps the lock until it is.        *)
Disconnect(t) ==
  /\ Up(t) /\ Fault
  /\ tab' = [tab EXCEPT ![t] = "disconnected"]
  /\ acting' = [acting EXCEPT ![t] = FALSE]
  /\ stage' = Stopped(t)
  /\ stale' = IF stage[t] = "leading" /\ durable THEN stale \cup {t} ELSE stale
  /\ lock' = IF lock = t /\ stage[t] = "leading" THEN NoTab ELSE lock
  /\ waiting' = Withdrawn(t)
  /\ inbox' = [inbox EXCEPT ![t] = <<>>]
  /\ UNCHANGED <<srvVars, durable, handle, disk, store>>

(* The tab is destroyed: no code runs, the browser takes everything back, and *)
(* a POST that did not reach the server is gone.                              *)
CloseTab(t) ==
  /\ tab[t] \in {"up", "disconnected"} /\ Fault
  /\ tab' = [tab EXCEPT ![t] = "closed"]
  /\ acting' = [acting EXCEPT ![t] = FALSE]
  /\ stage' = [stage EXCEPT ![t] = "no"]
  /\ stale' = stale \ {t}
  /\ handle' = IF handle = t THEN NoTab ELSE handle
  /\ lock' = IF lock = t THEN NoTab ELSE lock
  /\ waiting' = Withdrawn(t)
  /\ inbox' = [inbox EXCEPT ![t] = <<>>]
  /\ store' = [store EXCEPT ![t] = EmptyStore]
  /\ poster' = [w \in Writes |-> IF poster[w] = t THEN NoTab ELSE poster[w]]
  /\ UNCHANGED <<log, unused, durable, disk>>

(* The channel's listener: a leader answers a hello, a follower takes the     *)
(* leader's slice verbatim.                                                   *)
Receive(t) ==
  LET m == Head(inbox[t])
      rest == [inbox EXCEPT ![t] = Tail(@)]
  IN
  /\ inbox[t] # <<>>
  /\ IF m.t = "hello"
     THEN /\ inbox' = IF stage[t] = "leading" THEN Posted(rest, t, Rendered(store[t])) ELSE rest
          /\ UNCHANGED store
     ELSE /\ inbox' = rest
          /\ store' = IF acting[t] THEN store
                      ELSE [store EXCEPT ![t] = [upto |-> m.upto, baked |-> m.baked, over |-> {}]]
  /\ UNCHANGED <<srvVars, diskVars, lockVars, tabVars, faults>>

-----------------------------------------------------------------------------
(* The leader's stream and its writes *)

(* A change of the stream; the echo of a write replaces it. *)
StreamDelivers(t) ==
  LET n == store[t].upto + 1
      s == [upto |-> n, baked |-> store[t].baked \ {log[n]}, over |-> store[t].over \ {log[n]}]
  IN
  /\ stage[t] = "leading" /\ store[t].upto # NoCursor /\ n <= Len(log)
  /\ Mutates(t, s) /\ Persists(s)
  /\ UNCHANGED <<srvVars, durable, handle, stale, lockVars, tabVars, faults>>

(* A snapshot: the rows are replaced by the server's. *)
StreamSnapshots(t) ==
  LET s == [upto |-> Len(log), baked |-> {}, over |-> store[t].over \ Range(log)] IN
  /\ stage[t] = "leading" /\ store[t].upto = NoCursor
  /\ Mutates(t, s) /\ Persists(s)
  /\ UNCHANGED <<srvVars, durable, handle, stale, lockVars, tabVars, faults>>

PeerChanges ==
  /\ Len(log) < MaxChanges
  /\ log' = Append(log, Peer)
  /\ UNCHANGED <<poster, unused, diskVars, lockVars, tabVars, store, inbox, faults>>

(* The app writes through the leader's store. *)
WriteOptimistic(t, w) ==
  /\ stage[t] = "leading" /\ w \in unused
  /\ unused' = unused \ {w}
  /\ poster' = [poster EXCEPT ![w] = t]
  /\ Mutates(t, [store[t] EXCEPT !.over = @ \cup {w}])
  /\ UNCHANGED <<log, diskVars, lockVars, tabVars, faults>>

PostLands(w) ==
  /\ poster[w] # NoTab /\ Len(log) < MaxChanges
  /\ log' = Append(log, w)
  /\ poster' = [poster EXCEPT ![w] = NoTab]
  /\ UNCHANGED <<unused, diskVars, lockVars, tabVars, store, inbox, faults>>

(* The server refuses the write: clearOptimistic(). *)
PostRefused(w) ==
  LET t == poster[w] IN
  /\ t # NoTab
  /\ poster' = [poster EXCEPT ![w] = NoTab]
  /\ IF stage[t] = "leading" THEN Mutates(t, [store[t] EXCEPT !.over = @ \ {w}])
     ELSE UNCHANGED <<store, inbox>>
  /\ UNCHANGED <<log, unused, diskVars, lockVars, tabVars, faults>>

-----------------------------------------------------------------------------
TabStep(t) ==
  Leads(t) \/ Abandons(t) \/ Dispose(t) \/ Receive(t) \/ StreamDelivers(t) \/ StreamSnapshots(t)

Next ==
  \/ Grant
  \/ \E t \in Tabs : TabStep(t) \/ OpenTab(t) \/ FailsToOpen(t) \/ Disconnect(t) \/ CloseTab(t)
  \/ PeerChanges
  \/ \E w \in Writes : PostLands(w) \/ PostRefused(w) \/ \E t \in Tabs : WriteOptimistic(t, w)

Spec == Init /\ [][Next]_vars

(* The browser grants the lock, and every await and every message arrives. *)
Fairness ==
  /\ WF_vars(Grant)
  /\ \A t \in Tabs : WF_vars(TabStep(t)) /\ WF_vars(~Opens(t) /\ FailsToOpen(t))
  /\ \A w \in Writes : WF_vars(PostLands(w) \/ PostRefused(w))

FairSpec == Spec /\ Fairness

-----------------------------------------------------------------------------
(* Properties *)

(* "exactly one tab": two tabs never have a connection at once, whatever      *)
(* disconnects while it opens its store, and the tab that has one holds the   *)
(* lock (cross-tab.ts, stopLeading before release).                           *)
OneConnection ==
  \A t \in Tabs : stage[t] = "leading" => lock = t /\ \A u \in Tabs \ {t} : stage[u] # "leading"

(* Nothing stays behind a term that is over, or no later one could begin: the *)
(* lock is held by a tab that opens its store or leads, and the durable store *)
(* is open in the tab that leads or in one that is about to dispose of it     *)
(* (cross-tab.ts, stopLeading and the abandoned term of onLeadership).        *)
NothingOrphaned ==
  /\ lock # NoTab => stage[lock] # "no"
  /\ handle # NoTab => stage[handle] = "leading" \/ handle \in stale

Bids(t) == t = lock \/ \E i \in DOMAIN waiting : waiting[i] = t

(* The tabs settle: while some tab still bids, one leads, and then every tab  *)
(* shows the rows the leader shows, all the server's changes in them.         *)
TabsConverge ==
  <>[]((\E t \in Tabs : Up(t) /\ Bids(t)) =>
       \E l \in Tabs :
         /\ stage[l] = "leading" /\ store[l].upto = Len(log)
         /\ \A u \in Tabs : Up(u) => Rendered(store[u]) = Rendered(store[l]))
=============================================================================
