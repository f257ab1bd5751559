------------------------- MODULE ReplicationSource -------------------------
(***************************************************************************)
(* The life of a replication source (packages/live-server/src/             *)
(* replication.ts): start, stop, and the reconnect sessions between them,  *)
(* around one slot that holds back the WAL as long as it exists.           *)
(*                                                                         *)
(* A session is a run of #openAndStart: the first is start()'s, the others *)
(* are #reconnect's.  Its pc names the call it awaits.                     *)
(***************************************************************************)
EXTENDS Integers, FiniteSets

CONSTANT MaxFaults \* bound: client errors, and calls that fail by themselves

FaultsAssumption == MaxFaults \in Nat

Numbers == 1 .. MaxFaults + 1
NoClient == 0

VARIABLES
  client,  \* #client
  conns,   \* the clients: "none", "open", "streaming", "broken" or "ended"
  slot,    \* the slot exists
  started, stopped, slotCreated, connected, reconnecting,
  run,     \* per session: [pc, client]
  stop,    \* stop(): "no", "drop" or "done"
  unheard, \* ghost: the answer to a CREATE was lost, or a DROP failed
  faults

flags == <<started, stopped, slotCreated, connected, reconnecting>>
vars == <<client, conns, slot, flags, run, stop, unheard, faults>>

Idle == [pc |-> "idle", client |-> NoClient]

Init ==
  /\ client = NoClient /\ conns = [c \in Numbers |-> "none"]
  /\ slot = FALSE
  /\ started = FALSE /\ stopped = FALSE /\ slotCreated = FALSE
  /\ connected = FALSE /\ reconnecting = FALSE
  /\ run = [s \in Numbers |-> Idle]
  /\ stop = "no"
  /\ unheard = FALSE
  /\ faults = 0

Fault == faults < MaxFaults /\ faults' = faults + 1

Awaits(s, pc) == run[s].pc = pc
Goes(s, pc) == run' = [run EXCEPT ![s].pc = pc]
Ended(c) == IF c = NoClient THEN conns ELSE [conns EXCEPT ![c] = "ended"]
Reconnects(s) == s # 1

(* Seeded fault: the guard of #reconnect stays set. *)
StaysReconnecting(s) ==
  /\ run' = [run EXCEPT ![s] = Idle]
  /\ UNCHANGED reconnecting

(* The session ends; #reconnect's finally clears its guard. *)
Finishes(s) ==
  /\ run' = [run EXCEPT ![s] = Idle]
  /\ reconnecting' = IF Reconnects(s) THEN FALSE ELSE reconnecting

-----------------------------------------------------------------------------
(* #openAndStart(): a fresh client, and connect(). *)
OpensClient(s) ==
  \E c \in Numbers :
    /\ conns[c] = "none" /\ \A n \in Numbers : conns[n] = "none" => c <= n
    /\ client' = c
    /\ conns' = [conns EXCEPT ![c] = "open"]
    /\ run' = [run EXCEPT ![s] = [pc |-> "connect", client |-> c]]

Start ==
  /\ ~stopped /\ ~started
  /\ started' = TRUE
  /\ OpensClient(1)
  /\ UNCHANGED <<slot, stopped, slotCreated, connected, reconnecting, stop, unheard, faults>>

(* Seeded fault: nobody looks whether stop() ran while the slot was created. *)
NeverAborted == FALSE

(* #abortIfStopped() after CREATE_REPLICATION_SLOT. *)
AbortedCreate == stopped

(* connect() or IDENTIFY_SYSTEM returns: go on, or unwind. *)
Answered(s, pc, next) ==
  /\ Awaits(s, pc)
  /\ Goes(s, IF stopped THEN "abortEnd" ELSE next)
  /\ UNCHANGED <<client, conns, slot, flags, stop, unheard, faults>>

Opening(s) ==
  \/ Answered(s, "connect", "identify")
  \/ Answered(s, "identify", IF Reconnects(s) THEN "start" ELSE "createSlot")

(* The slot is created, on the first start only. *)
SlotCreated(s) ==
  /\ Awaits(s, "createSlot")
  /\ slot' = TRUE
  /\ slotCreated' = TRUE
  /\ Goes(s, IF AbortedCreate THEN "abortDrop" ELSE "start")
  /\ UNCHANGED <<client, conns, started, stopped, connected, reconnecting, stop, unheard, faults>>

(* START_REPLICATION confirms: the source is connected. *)
Streams(s) ==
  /\ Awaits(s, "start") /\ conns[run[s].client] = "open" /\ slot
  /\ conns' = [conns EXCEPT ![run[s].client] = "streaming"]
  /\ connected' = TRUE
  /\ Finishes(s)
  /\ UNCHANGED <<client, slot, started, stopped, slotCreated, stop, unheard, faults>>

(* A call rejects, by itself or on a client that is gone: start() rejects,    *)
(* #reconnect loops.  A CREATE may have been carried out all the same.        *)
CallFails(s) ==
  /\ run[s].pc \in {"connect", "identify", "createSlot", "start"}
  /\ IF conns[run[s].client] = "open" /\ (run[s].pc = "start" => slot)
     THEN Fault /\ conns' = [conns EXCEPT ![run[s].client] = "broken"]
     ELSE UNCHANGED <<faults, conns>>
  /\ \/ UNCHANGED <<slot, unheard>>
     \/ run[s].pc = "createSlot" /\ slot' = TRUE /\ unheard' = TRUE
  /\ run' = [run EXCEPT ![s] = IF Reconnects(s) THEN [@ EXCEPT !.pc = "endClient"] ELSE Idle]
  /\ UNCHANGED <<client, flags, stop>>

(* #abortIfStopped(): the slot just created, then the client. *)
AbortDrops(s) ==
  /\ Awaits(s, "abortDrop")
  /\ \/ slot' = FALSE /\ UNCHANGED <<unheard, faults>>
     \/ Fault /\ unheard' = TRUE /\ UNCHANGED slot
  /\ Goes(s, "abortEnd")
  /\ UNCHANGED <<client, conns, flags, stop>>

AbortEnds(s) ==
  /\ Awaits(s, "abortEnd")
  /\ conns' = Ended(run[s].client)
  /\ Finishes(s)
  /\ UNCHANGED <<client, slot, started, stopped, slotCreated, connected, stop, unheard, faults>>

-----------------------------------------------------------------------------
(* Seeded fault: overlapping errors each start a session. *)
Unguarded == connected /\ ~stopped

(* #onClientError() and the guard of #reconnect(). *)
MayReconnect == connected /\ ~reconnecting /\ ~stopped

(* The error event of a client, the first or one more of a dead client's. *)
ClientError ==
  /\ \E c \in Numbers :
       \/ conns[c] = "streaming" /\ conns' = [conns EXCEPT ![c] = "broken"]
       \/ conns[c] \in {"broken", "ended"} /\ UNCHANGED conns
  /\ Fault
  /\ IF MayReconnect
     THEN /\ reconnecting' = TRUE
          /\ \E s \in Numbers \ {1} :
               /\ Awaits(s, "idle")
               /\ run' = [run EXCEPT ![s] = [pc |-> "endClient", client |-> NoClient]]
     ELSE UNCHANGED <<reconnecting, run>>
  /\ UNCHANGED <<client, slot, started, stopped, slotCreated, connected, stop, unheard>>

(* The loop of #reconnect(): end the client, keep the slot, back off ... *)
EndsClient(s) ==
  /\ Awaits(s, "endClient")
  /\ conns' = Ended(client)
  /\ Goes(s, "delay")
  /\ UNCHANGED <<client, slot, flags, stop, unheard, faults>>

(* ... and open again, unless stop() ran. *)
DelayOver(s) ==
  /\ Awaits(s, "delay")
  /\ IF stopped
     THEN Finishes(s) /\ UNCHANGED <<client, conns>>
     ELSE OpensClient(s) /\ UNCHANGED reconnecting
  /\ UNCHANGED <<slot, started, stopped, slotCreated, connected, stop, unheard, faults>>

-----------------------------------------------------------------------------
(* stop(): the streaming connection first ... *)
Stop ==
  /\ ~stopped
  /\ stopped' = TRUE
  /\ conns' = Ended(client)
  /\ stop' = "drop"
  /\ UNCHANGED <<client, slot, started, slotCreated, connected, reconnecting, run, unheard, faults>>

(* ... then the slot, if this source is known to have created it. *)
StopDrops ==
  /\ stop = "drop"
  /\ stop' = "done"
  /\ IF client # NoClient /\ slotCreated
     THEN \/ slot' = FALSE /\ UNCHANGED <<unheard, faults>>
          \/ Fault /\ unheard' = TRUE /\ UNCHANGED slot
     ELSE UNCHANGED <<slot, unheard, faults>>
  /\ client' = NoClient
  /\ UNCHANGED <<conns, flags, run>>

-----------------------------------------------------------------------------
SessionStep(s) ==
  \/ Opening(s) \/ SlotCreated(s) \/ Streams(s)
  \/ AbortDrops(s) \/ AbortEnds(s) \/ EndsClient(s) \/ DelayOver(s)

Next ==
  \/ Start \/ Stop \/ StopDrops \/ ClientError
  \/ \E s \in Numbers : SessionStep(s) \/ CallFails(s)

Spec == Init /\ [][Next]_vars

(* Every call is answered, if only by a timeout. *)
Fairness == \A s \in Numbers : WF_vars(SessionStep(s) \/ CallFails(s))

FairSpec == Spec /\ Fairness

-----------------------------------------------------------------------------
(* Properties *)

(* After stop(), when the sessions it raced have unwound, no connection is    *)
(* left and no slot holds back the WAL, whichever await stop() overtook; the  *)
(* one exception is a CREATE or DROP whose outcome nobody heard of            *)
(* (replication.ts, #abortIfStopped).                                         *)
NothingLeftBehind ==
  stop = "done" /\ (\A s \in Numbers : Awaits(s, "idle")) =>
    /\ \A c \in Numbers : conns[c] \notin {"open", "streaming"}
    /\ slot => unheard

(* Repeated errors, late ones of old clients included, leave one reconnect    *)
(* session and no client that nobody will end (replication.ts, the            *)
(* #reconnecting guard).                                                      *)
NoOrphanedClient ==
  \A c \in Numbers : conns[c] \in {"open", "streaming"} =>
    c = client \/ \E s \in Numbers : run[s].client = c

(* A source that once streamed streams again after every error, until it is   *)
(* stopped (replication.ts, #reconnect).                                      *)
StreamsAgain ==
  <>[](connected /\ ~stopped => client # NoClient /\ conns[client] = "streaming")

(* No client and no slot leaks, while the source runs and after it stopped    *)
(* (replication.ts).                                                          *)
NothingLeaks == NothingLeftBehind /\ NoOrphanedClient
=============================================================================
