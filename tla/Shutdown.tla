------------------------------ MODULE Shutdown ------------------------------
(***************************************************************************)
(* Graceful shutdown (packages/runtime/src/graceful-shutdown.ts) and the   *)
(* drain of the HTTP server (server.ts, drainServer and closeWithDrain):   *)
(* signals, hooks that may fail or hang, connections, and two timers.      *)
(***************************************************************************)
EXTENDS Integers, Sequences, FiniteSets

CONSTANTS
  Conns,
  Backstops,  \* whether forceExitTimeoutMs is set
  MaxRequests \* bound: requests served

VARIABLES
  shuttingDown,
  backstop,  \* forceExitTimeoutMs is set
  force,     \* the force-exit timer is armed
  step,      \* the await of teardown, "up" before and "settled" after it
  failed,    \* teardown rejected
  accepting, \* the server listens
  grace,     \* the drain's timer is armed
  conn,      \* per connection: "closed", "idle" or "busy"
  handling,  \* the connections whose request a handler still works on
  exits,     \* the calls of exit(), with their codes
  requests,
  orphaned,  \* ghost: the handlers whose connection ended before them
  succeeded  \* ghost: the steps of teardown that resolved

sockets == <<accepting, grace, conn, handling, requests, orphaned>>
control == <<shuttingDown, force, step, failed, exits, succeeded>>
vars == <<backstop, sockets, control>>

Init ==
  /\ shuttingDown = FALSE
  /\ backstop \in Backstops
  /\ force = FALSE
  /\ step = "up"
  /\ failed = FALSE
  /\ accepting = TRUE
  /\ grace = FALSE
  /\ conn = [c \in Conns |-> "closed"]
  /\ handling = {}
  /\ exits = <<>>
  /\ requests = 0
  /\ orphaned = {}
  /\ succeeded = {}

-----------------------------------------------------------------------------
(* The sockets *)

Connect(c) ==
  /\ accepting /\ conn[c] = "closed" /\ c \notin handling
  /\ conn' = [conn EXCEPT ![c] = "idle"]
  /\ UNCHANGED <<backstop, accepting, grace, handling, requests, orphaned, control>>

(* A kept-alive connection may bring a request while the server drains. *)
Request(c) ==
  /\ conn[c] = "idle" /\ requests < MaxRequests
  /\ requests' = requests + 1
  /\ conn' = [conn EXCEPT ![c] = "busy"]
  /\ handling' = handling \cup {c}
  /\ UNCHANGED <<backstop, accepting, grace, orphaned, control>>

(* The handler is through, whether or not anybody still listens. *)
Respond(c) ==
  /\ c \in handling
  /\ handling' = handling \ {c}
  /\ orphaned' = orphaned \ {c}
  /\ conn' = IF conn[c] = "busy" THEN [conn EXCEPT ![c] = "idle"] ELSE conn
  /\ UNCHANGED <<backstop, accepting, grace, requests, control>>

(* The keep-alive timeout, or the client. *)
IdleCloses(c) ==
  /\ conn[c] = "idle"
  /\ conn' = [conn EXCEPT ![c] = "closed"]
  /\ UNCHANGED <<backstop, accepting, grace, handling, requests, orphaned, control>>

(* The client goes away; the handler works on. *)
ClientAborts(c) ==
  /\ conn[c] = "busy"
  /\ conn' = [conn EXCEPT ![c] = "closed"]
  /\ orphaned' = orphaned \cup {c}
  /\ UNCHANGED <<backstop, accepting, grace, handling, requests, control>>

(* The grace window of drainServer() is over: closeAllConnections(). *)
GraceExpires ==
  /\ grace
  /\ grace' = FALSE
  /\ orphaned' = orphaned \cup {c \in Conns : conn[c] = "busy"}
  /\ conn' = [c \in Conns |-> "closed"]
  /\ UNCHANGED <<backstop, accepting, handling, requests, control>>

-----------------------------------------------------------------------------
(* The teardown *)

(* A signal; a second one is dropped. *)
Signal ==
  /\ ~shuttingDown
  /\ shuttingDown' = TRUE
  /\ force' = backstop
  /\ step' = "onShutdown"
  /\ UNCHANGED <<backstop, sockets, failed, exits, succeeded>>

Resolves(next) ==
  /\ succeeded' = succeeded \cup {step}
  /\ step' = next
  /\ UNCHANGED <<backstop, shuttingDown, force, failed, exits>>

(* onShutdown() is through, then server.close(): no new connection, no idle   *)
(* one, and a timer for the others.                                           *)
StopsProducing ==
  /\ step = "onShutdown"
  /\ accepting' = FALSE
  /\ grace' = TRUE
  /\ conn' = [c \in Conns |-> IF conn[c] = "idle" THEN "closed" ELSE conn[c]]
  /\ Resolves("drain")
  /\ UNCHANGED <<handling, requests, orphaned>>

(* Seeded fault: the drain is over when the server no longer accepts. *)
NotAccepting == ~accepting

(* The callback of server.close(): the last connection has ended. *)
Drained == \A c \in Conns : conn[c] = "closed"

FinishesDrain ==
  /\ step = "drain" /\ Drained
  /\ grace' = FALSE
  /\ Resolves("onDrain")
  /\ UNCHANGED <<accepting, conn, handling, requests, orphaned>>

(* The drain hook resolves or rejects: either way the shutdown goes on. *)
Flushes ==
  /\ step = "onDrain"
  /\ Resolves("onClosed")
  /\ UNCHANGED sockets

Releases ==
  /\ step = "onClosed"
  /\ Resolves("settled")
  /\ UNCHANGED sockets

(* A hook that rejects ends the teardown. *)
HookRejects ==
  /\ step \in {"onShutdown", "onClosed"}
  /\ failed' = TRUE
  /\ step' = "settled"
  /\ UNCHANGED <<backstop, sockets, shuttingDown, force, exits, succeeded>>

(* Seeded fault: the backstop stays armed. *)
StillArmed == force

(* cancelForceExit() *)
Disarmed == FALSE

(* Teardown has settled: the timer is disarmed, and the code says how it went. *)
Exit ==
  /\ step = "settled"
  /\ step' = "exited"
  /\ force' = Disarmed
  /\ exits' = Append(exits, IF failed THEN 1 ELSE 0)
  /\ UNCHANGED <<backstop, sockets, shuttingDown, failed, succeeded>>

(* Seeded fault: the timer logs, and does not exit. *)
OnlyLogs == exits

Forced == Append(exits, 1)

(* The force-exit timer fires.  exit() need not halt an embedder's process. *)
ForceExit ==
  /\ force
  /\ force' = FALSE
  /\ exits' = Forced
  /\ UNCHANGED <<backstop, sockets, shuttingDown, step, failed, succeeded>>

-----------------------------------------------------------------------------
Next ==
  \/ \E c \in Conns : Connect(c) \/ Request(c) \/ Respond(c) \/ IdleCloses(c) \/ ClientAborts(c)
  \/ GraceExpires
  \/ Signal \/ StopsProducing \/ FinishesDrain \/ Flushes \/ Releases \/ HookRejects
  \/ Exit \/ ForceExit

Spec == Init /\ [][Next]_vars

(* Timers fire, a server without connections closes, and a settled promise    *)
(* runs its callback.  No hook and no handler need ever settle.               *)
Fairness == WF_vars(ForceExit) /\ WF_vars(GraceExpires) /\ WF_vars(FinishesDrain) /\ WF_vars(Exit)

FairSpec == Spec /\ Fairness

-----------------------------------------------------------------------------
(* Properties *)

(* "release resources now that nothing is serving": no handler works when     *)
(* onClosed() closes the database, however requests arrive on kept-alive      *)
(* connections.  The exception is a handler that outlives its connection: a   *)
(* client that goes away, or the end of the grace window, ends the connection *)
(* and stops no handler (server.ts, drainServer).                             *)
NothingServes == "onDrain" \in succeeded => handling \subseteq orphaned

(* exit(0) says that every step of the teardown succeeded, and once the       *)
(* teardown has exited no timer exits again with another code                 *)
(* (graceful-shutdown.ts, onShutdownSignals).                                 *)
ExitTruthful ==
  /\ \A i \in DOMAIN exits :
       exits[i] = 0 => {"onShutdown", "drain", "onDrain", "onClosed"} \subseteq succeeded /\ ~failed
  /\ step = "exited" => exits[Len(exits)] = (IF failed THEN 1 ELSE 0)

(* A process that got a signal exits, though a hook or a handler may hang for *)
(* ever, unless the backstop was left out (graceful-shutdown.ts, the          *)
(* force-exit timer).                                                         *)
AlwaysExits == shuttingDown /\ backstop ~> exits # <<>>

(* The shutdown is orderly: nothing is served from closed resources, and the  *)
(* exit code tells the truth (server.ts, graceful-shutdown.ts).               *)
ShutdownOrderly == NothingServes /\ ExitTruthful
=============================================================================
