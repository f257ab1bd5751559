--------------------------- MODULE ProcessProofs ---------------------------
(***************************************************************************)
(* What runs in one process, for any number of connections, spans, loops,  *)
(* jobs, entries and faults: the shutdown, the SQLite connection, the      *)
(* polling worker, the replication source and the two schedulers of        *)
(* MCProcess, each by an inductive invariant of its own.                   *)
(***************************************************************************)
EXTENDS MCProcess, SequenceTheorems, WellFoundedInduction, TLAPS

(* The shutdown *)

ShutdownType ==
  /\ hAccepting \in BOOLEAN /\ hShuttingDown \in BOOLEAN /\ hForce \in BOOLEAN /\ hFailed \in BOOLEAN
  /\ hBackstop \in BOOLEAN
  /\ hStep \in {"up", "onShutdown", "drain", "onDrain", "onClosed", "settled", "exited"}
  /\ hConn \in [Conns -> {"closed", "idle", "busy"}]
  /\ hHandling \subseteq Conns
  /\ hExits \in Seq({0, 1})

(* A handler whose connection has ended is orphaned. *)
Attended == \A c \in hHandling : c \in hOrphaned \/ hConn[c] = "busy"

(* Once the drain is over the server has no connection and gets no other. *)
ServerClosed == "drain" \in hSucceeded => ~hAccepting /\ \A c \in Conns : hConn[c] = "closed"

StopsListening == hStep = "drain" => ~hAccepting

(* The steps of the teardown succeed in their order, unless one rejected. *)
InOrder ==
  /\ hStep = "drain" => {"onShutdown"} \subseteq hSucceeded
  /\ hStep = "onDrain" => {"onShutdown", "drain"} \subseteq hSucceeded
  /\ hStep = "onClosed" => {"onShutdown", "drain", "onDrain"} \subseteq hSucceeded
  /\ hStep \in {"settled", "exited"} /\ ~hFailed =>
       {"onShutdown", "drain", "onDrain", "onClosed"} \subseteq hSucceeded
  /\ "onDrain" \in hSucceeded => "drain" \in hSucceeded

(* The flags follow the step. *)
FlagsAgree ==
  /\ hStep = "up" <=> ~hShuttingDown
  /\ ~hShuttingDown => ~hForce
  /\ hFailed => hStep \in {"settled", "exited"}

(* Only the settled teardown exits with 0, and nothing exits after it. *)
LastExit ==
  /\ hStep = "exited" => ~hForce /\ hExits # <<>> /\ hExits[Len(hExits)] = (IF hFailed THEN 1 ELSE 0)
  /\ \A i \in 1 .. Len(hExits) : hExits[i] = 0 => hStep = "exited" /\ ~hFailed

ShutdownInv ==
  ShutdownType /\ Attended /\ ServerClosed /\ StopsListening /\ InOrder /\ FlagsAgree /\ LastExit

(* Before the first signal the shutdown has done nothing. *)
LEMMA ShutdownInit == H!Init => ShutdownInv
<1> SUFFICES ASSUME H!Init PROVE ShutdownInv
  OBVIOUS
<1>1. ShutdownType
  <2>1. hBackstop \in BOOLEAN /\ hAccepting \in BOOLEAN /\ hShuttingDown \in BOOLEAN
        /\ hForce \in BOOLEAN /\ hFailed \in BOOLEAN
    BY Zenon DEF H!Init
  <2>2. hExits \in Seq({0, 1}) /\ hConn \in [Conns -> {"closed", "idle", "busy"}]
    BY DEF H!Init
  <2>q. QED
    BY <2>1, <2>2 DEF H!Init, ShutdownType
<1>2. Attended /\ ServerClosed /\ StopsListening /\ InOrder
  BY DEF H!Init, Attended, ServerClosed, StopsListening, InOrder
<1>3. FlagsAgree
  BY DEF H!Init, FlagsAgree
<1>4. LastExit
  BY DEF H!Init, LastExit
<1>q. QED
  BY <1>1, <1>2, <1>3, <1>4 DEF ShutdownInv

(* A signal, the drain, the backstop, a second signal and the steps of the    *)
(* sequence keep the invariant (graceful-shutdown.ts, shutdown).              *)
LEMMA ShutdownStep == ShutdownInv /\ [H!Next]_(H!vars) => ShutdownInv'
<1> SUFFICES ASSUME ShutdownInv, [H!Next]_(H!vars) PROVE ShutdownInv'
  OBVIOUS
<1>0. ShutdownType /\ Attended /\ ServerClosed /\ StopsListening /\ InOrder /\ FlagsAgree /\ LastExit
  BY DEF ShutdownInv
<1> USE DEF H!control, H!sockets
<1>1. ASSUME NEW c \in Conns, H!Connect(c) \/ H!Request(c) \/ H!Respond(c) \/ H!IdleCloses(c) \/ H!ClientAborts(c)
      PROVE ShutdownInv'
  <2>1. ShutdownType'
    BY <1>0, <1>1 DEF ShutdownType, H!Connect, H!Request, H!Respond, H!IdleCloses, H!ClientAborts
  <2>2. Attended'
    BY <1>0, <1>1 DEF ShutdownType, Attended, H!Connect, H!Request, H!Respond, H!IdleCloses,
       H!ClientAborts
  <2>3. ServerClosed' /\ StopsListening'
    BY <1>0, <1>1 DEF ShutdownType, ServerClosed, StopsListening, H!Connect, H!Request, H!Respond,
       H!IdleCloses, H!ClientAborts
  <2>4. InOrder' /\ FlagsAgree' /\ LastExit'
    BY <1>0, <1>1 DEF InOrder, FlagsAgree, LastExit, H!Connect, H!Request, H!Respond, H!IdleCloses,
       H!ClientAborts
  <2>q. QED BY <2>1, <2>2, <2>3, <2>4 DEF ShutdownInv
<1>2. CASE H!GraceExpires
  <2>1. ShutdownType' /\ Attended' /\ ServerClosed' /\ StopsListening'
    BY <1>0, <1>2 DEF ShutdownType, Attended, ServerClosed, StopsListening, H!GraceExpires
  <2>2. InOrder' /\ FlagsAgree' /\ LastExit'
    BY <1>0, <1>2 DEF InOrder, FlagsAgree, LastExit, H!GraceExpires
  <2>q. QED BY <2>1, <2>2 DEF ShutdownInv
<1>3. CASE H!Signal
  <2>1. ShutdownType' /\ Attended' /\ ServerClosed' /\ StopsListening'
    BY <1>0, <1>3 DEF ShutdownType, Attended, ServerClosed, StopsListening, H!Signal
  <2>2. InOrder' /\ FlagsAgree'
    BY <1>0, <1>3 DEF ShutdownType, InOrder, FlagsAgree, H!Signal
  <2>3. LastExit'
    BY <1>0, <1>3 DEF ShutdownType, FlagsAgree, LastExit, H!Signal
  <2>q. QED BY <2>1, <2>2, <2>3 DEF ShutdownInv
<1>4. CASE H!StopsProducing
  <2>1. ShutdownType' /\ Attended' /\ ServerClosed' /\ StopsListening'
    BY <1>0, <1>4 DEF ShutdownType, Attended, ServerClosed, StopsListening, H!StopsProducing,
       H!Resolves
  <2>2. InOrder' /\ FlagsAgree'
    BY <1>0, <1>4 DEF ShutdownType, InOrder, FlagsAgree, H!StopsProducing, H!Resolves
  <2>3. LastExit'
    BY <1>0, <1>4 DEF ShutdownType, LastExit, H!StopsProducing, H!Resolves
  <2>q. QED BY <2>1, <2>2, <2>3 DEF ShutdownInv
<1>5. CASE H!FinishesDrain
  <2>1. ShutdownType' /\ Attended' /\ ServerClosed' /\ StopsListening'
    BY <1>0, <1>5 DEF ShutdownType, Attended, ServerClosed, StopsListening, H!FinishesDrain,
       H!Drained, H!Resolves
  <2>2. InOrder' /\ FlagsAgree'
    BY <1>0, <1>5 DEF ShutdownType, InOrder, FlagsAgree, H!FinishesDrain, H!Resolves
  <2>3. LastExit'
    BY <1>0, <1>5 DEF ShutdownType, LastExit, H!FinishesDrain, H!Resolves
  <2>q. QED BY <2>1, <2>2, <2>3 DEF ShutdownInv
<1>6. CASE H!Flushes \/ H!Releases \/ H!HookRejects
  <2>0. UNCHANGED <<hAccepting, hConn, hHandling, hOrphaned, hBackstop>>
    BY <1>6 DEF H!Flushes, H!Releases, H!HookRejects, H!Resolves
  <2>1. Attended' /\ ServerClosed' /\ StopsListening'
    BY <1>0, <1>6, <2>0 DEF Attended, ServerClosed, StopsListening, H!Flushes, H!Releases,
       H!HookRejects, H!Resolves
  <2>2. ShutdownType'
    BY <1>0, <1>6, <2>0 DEF ShutdownType, H!Flushes, H!Releases, H!HookRejects, H!Resolves
  <2>3. InOrder' /\ FlagsAgree'
    BY <1>0, <1>6 DEF ShutdownType, InOrder, FlagsAgree, H!Flushes, H!Releases, H!HookRejects,
       H!Resolves
  <2>4. LastExit'
    BY <1>0, <1>6 DEF ShutdownType, LastExit, FlagsAgree, H!Flushes, H!Releases, H!HookRejects,
       H!Resolves
  <2>q. QED BY <2>1, <2>2, <2>3, <2>4 DEF ShutdownInv
<1>7. CASE H!Exit
  <2>0. UNCHANGED <<hAccepting, hConn, hHandling, hOrphaned, hBackstop>>
    BY <1>7 DEF H!Exit, H!Disarmed
  <2>1. Attended' /\ ServerClosed' /\ StopsListening'
    BY <1>0, <1>7, <2>0 DEF Attended, ServerClosed, StopsListening, H!Exit, H!Disarmed
  <2>2. ShutdownType'
    <3>1. hExits' \in Seq({0, 1})
      BY <1>0, <1>7 DEF ShutdownType, H!Exit, H!Disarmed
    <3>2. hForce' \in BOOLEAN
      BY <1>7, Zenon DEF H!Exit, H!Disarmed
    <3>q. QED
      BY <1>0, <1>7, <2>0, <3>1, <3>2 DEF ShutdownType, H!Exit
  <2>3. InOrder' /\ FlagsAgree'
    BY <1>0, <1>7 DEF ShutdownType, InOrder, FlagsAgree, H!Exit, H!Disarmed
  <2>4. LastExit'
    BY <1>0, <1>7 DEF ShutdownType, LastExit, FlagsAgree, H!Exit, H!Disarmed
  <2>q. QED BY <2>1, <2>2, <2>3, <2>4 DEF ShutdownInv
<1>8. CASE H!ForceExit
  <2>0. UNCHANGED <<hAccepting, hConn, hHandling, hOrphaned, hBackstop>>
    BY <1>8 DEF H!ForceExit, H!Forced
  <2>1. Attended' /\ ServerClosed' /\ StopsListening'
    BY <1>0, <1>8, <2>0 DEF Attended, ServerClosed, StopsListening, H!ForceExit, H!Forced
  <2>2. ShutdownType'
    <3>1. hExits' \in Seq({0, 1})
      BY <1>0, <1>8 DEF ShutdownType, H!ForceExit, H!Forced
    <3>2. hForce' \in BOOLEAN
      BY <1>8, Zenon DEF H!ForceExit, H!Forced
    <3>q. QED
      BY <1>0, <1>8, <2>0, <3>1, <3>2 DEF ShutdownType, H!ForceExit
  <2>3. InOrder' /\ FlagsAgree'
    BY <1>0, <1>8 DEF ShutdownType, InOrder, FlagsAgree, H!ForceExit
  <2>4. LastExit'
    BY <1>0, <1>8 DEF ShutdownType, LastExit, FlagsAgree, H!ForceExit, H!Forced
  <2>q. QED BY <2>1, <2>2, <2>3, <2>4 DEF ShutdownInv
<1>9. CASE UNCHANGED H!vars
  BY <1>0, <1>9 DEF ShutdownInv, H!vars, ShutdownType, Attended, ServerClosed, StopsListening,
     InOrder, FlagsAgree, LastExit
<1>q. QED
  BY <1>1, <1>2, <1>3, <1>4, <1>5, <1>6, <1>7, <1>8, <1>9 DEF H!Next

(* The invariant gives the property the runs check. *)
LEMMA ShutdownImplied == ShutdownInv => H!ShutdownOrderly
<1> SUFFICES ASSUME ShutdownInv PROVE H!ShutdownOrderly
  OBVIOUS
<1>1. H!NothingServes
  BY DEF ShutdownInv, ShutdownType, H!NothingServes, Attended, ServerClosed, InOrder
<1>2. H!ExitTruthful
  BY DEF ShutdownInv, ShutdownType, H!ExitTruthful, LastExit, InOrder
<1>q. QED BY <1>1, <1>2 DEF H!ShutdownOrderly

(* Nothing is served once the resources are released, handlers the grace      *)
(* timer left behind apart; exit(0) is reported only when every step of the   *)
(* teardown succeeded, and no later timer exits with another code (server.ts, *)
(* drainServer; graceful-shutdown.ts, onShutdownSignals).                     *)
THEOREM ShutdownIsOrderly == H!Spec => []ShutdownOrderly
<1>1. H!Init => ShutdownInv
  BY ShutdownInit
<1>2. ShutdownInv /\ [H!Next]_(H!vars) => ShutdownInv'
  BY ShutdownStep
<1>3. ShutdownInv => ShutdownOrderly
  BY ShutdownImplied DEF ShutdownOrderly
<1>q. QED
  BY <1>1, <1>2, <1>3, PTL DEF H!Spec

-----------------------------------------------------------------------------
(* The single SQLite connection *)

Working == {"outer", "inner", "commit", "rollback"}

SpanType ==
  /\ qChain \in Seq(Spans)
  /\ qPc \in [Spans -> {"new", "begin", "done", "failed"} \cup Working]
  /\ qOpen \in BOOLEAN /\ qStuck \in BOOLEAN
  /\ qJoined \subseteq Loose

(* The chain holds the spans that are asked for and not settled, each once,   *)
(* and only its head works.                                                   *)
ChainInTurn ==
  /\ \A i, j \in 1 .. Len(qChain) : i < j => qChain[i] # qChain[j]
  /\ \A i \in 1 .. Len(qChain) : qPc[qChain[i]] \in Working \cup {"begin"}
  /\ \A s \in Spans : qPc[s] \in Working => qChain # <<>> /\ qChain[1] = s

(* The transaction that is open is that of the span at work, or the one a     *)
(* failed ROLLBACK left.                                                      *)
OpenIsOwned ==
  /\ \A s \in Spans : qPc[s] \in {"outer", "inner", "commit"} => qOpen
  /\ qOpen => qStuck \/ \E s \in Spans : qPc[s] \in Working
  /\ qStuck => qOpen /\ \A s \in Spans : qPc[s] \notin Working

(* What is pending: all that the span at work wrote, and nothing of another.  *)
PendingIsOwn ==
  /\ ~qOpen => qPending = {}
  /\ ~qStuck => \A w \in qPending : w \in Loose \/ \E s \in Spans : qPc[s] \in Working /\ w \in Q!Written(s)
  /\ \A s \in Spans : /\ qPc[s] = "inner" => <<s, "outer">> \in qPending
                      /\ qPc[s] = "commit" => Q!Written(s) \subseteq qPending

(* What is on disk: all of the spans that are done, and nothing of another. *)
DiskIsDone ==
  /\ \A s \in Spans : /\ qPc[s] = "done" => Q!Written(s) \subseteq qDisk
                      /\ qPc[s] # "done" => Q!Written(s) \cap qDisk = {}
  /\ qAcked \ qJoined \subseteq qDisk

(* A span rolls back for an error of its own, and fails for one. *)
BlameKept == Q!FailuresAreOwn /\ \A s \in Spans : qPc[s] = "rollback" => s \in qBlamed

SpanInv ==
  SpanType /\ ChainInTurn /\ OpenIsOwned /\ PendingIsOwn /\ DiskIsDone /\ BlameKept

(* Before the first span the chain is empty. *)
LEMMA SpanInit == Q!Init => SpanInv
<1> SUFFICES ASSUME Q!Init PROVE SpanInv
  OBVIOUS
<1>1. qOpen \in BOOLEAN /\ qStuck \in BOOLEAN
  BY DEF Q!Init
<1>2. SpanType
  BY <1>1 DEF Q!Init, SpanType
<1>3. ChainInTurn /\ OpenIsOwned
  BY DEF Q!Init, ChainInTurn, OpenIsOwned, Working
<1>4. PendingIsOwn /\ DiskIsDone /\ BlameKept
  BY DEF Q!Init, PendingIsOwn, DiskIsDone, BlameKept, Q!FailuresAreOwn
<1>q. QED
  BY <1>2, <1>3, <1>4 DEF SpanInv

(* The head of the chain settles: the next span moves up, and nobody works. *)
LEMMA SettlesInTurn ==
  ASSUME SpanType, ChainInTurn, NEW s \in Spans, qChain # <<>>, qChain[1] = s,
         NEW outcome \in {"done", "failed"}, Q!Settles(s, outcome)
  PROVE  /\ ChainInTurn'
         /\ qChain' \in Seq(Spans)
         /\ qPc' \in [Spans -> {"new", "begin", "done", "failed"} \cup Working]
         /\ qPc'[s] = outcome
         /\ \A t \in Spans \ {s} : qPc'[t] = qPc[t]
         /\ \A t \in Spans : qPc'[t] \notin Working
<1>1. /\ qChain' = Tail(qChain) /\ qPc' = [qPc EXCEPT ![s] = outcome]
  BY DEF Q!Settles, Q!Goes
<1>2. qChain \in Seq(Spans) /\ qPc \in [Spans -> {"new", "begin", "done", "failed"} \cup Working]
  BY DEF SpanType
<1>3. /\ qChain' \in Seq(Spans) /\ Len(qChain) \in Nat /\ Len(qChain) >= 1
      /\ Len(qChain') = Len(qChain) - 1
      /\ \A i \in 1 .. Len(qChain') : i + 1 \in 1 .. Len(qChain) /\ 1 < i + 1 /\ qChain'[i] = qChain[i + 1]
  BY <1>1, <1>2
<1>4. /\ qPc' \in [Spans -> {"new", "begin", "done", "failed"} \cup Working]
      /\ qPc'[s] = outcome
      /\ \A t \in Spans \ {s} : qPc'[t] = qPc[t]
  BY <1>1, <1>2
<1>5. \A t \in Spans : qPc'[t] \notin Working
  BY <1>4 DEF ChainInTurn, Working
<1>6. \A i, j \in 1 .. Len(qChain') : i < j => qChain'[i] # qChain'[j]
  <2> TAKE i, j \in 1 .. Len(qChain')
  <2>1. /\ i + 1 \in 1 .. Len(qChain) /\ qChain'[i] = qChain[i + 1]
        /\ j + 1 \in 1 .. Len(qChain) /\ qChain'[j] = qChain[j + 1]
    BY <1>3
  <2>2. i < j => i + 1 < j + 1
    OBVIOUS
  <2>q. QED
    BY <2>1, <2>2 DEF ChainInTurn
<1>7. \A i \in 1 .. Len(qChain') : qPc'[qChain'[i]] \in Working \cup {"begin"}
  <2> TAKE i \in 1 .. Len(qChain')
  <2>1. i + 1 \in 1 .. Len(qChain) /\ 1 < i + 1 /\ qChain'[i] = qChain[i + 1] /\ 1 \in 1 .. Len(qChain)
    BY <1>3
  <2>2. qChain[i + 1] # s /\ qChain[i + 1] \in Spans
    BY <1>2, <2>1 DEF ChainInTurn
  <2>q. QED
    BY <1>4, <2>1, <2>2 DEF ChainInTurn
<1>q. QED
  BY <1>3, <1>4, <1>5, <1>6, <1>7 DEF ChainInTurn

(* The span at work goes on to its next statement. *)
LEMMA GoesInTurn ==
  ASSUME SpanType, ChainInTurn, NEW s \in Spans, qChain # <<>>, qChain[1] = s,
         qPc[s] \in Working \cup {"begin"}, NEW next \in Working, Q!Goes(s, next), UNCHANGED qChain
  PROVE  /\ ChainInTurn'
         /\ qPc' \in [Spans -> {"new", "begin", "done", "failed"} \cup Working]
         /\ qPc'[s] = next
         /\ \A t \in Spans \ {s} : qPc'[t] = qPc[t] /\ qPc[t] \notin Working
<1>1. /\ qPc' = [qPc EXCEPT ![s] = next] /\ qChain' = qChain
      /\ qChain \in Seq(Spans) /\ qPc \in [Spans -> {"new", "begin", "done", "failed"} \cup Working]
  BY DEF Q!Goes, SpanType
<1>2. /\ qPc' \in [Spans -> {"new", "begin", "done", "failed"} \cup Working]
      /\ qPc'[s] = next
      /\ \A t \in Spans \ {s} : qPc'[t] = qPc[t]
  BY <1>1
<1>3. \A t \in Spans \ {s} : qPc[t] \notin Working
  BY DEF ChainInTurn
<1>4. \A i \in 1 .. Len(qChain) : qChain[i] \in Spans
  BY <1>1
<1>q. QED
  BY <1>1, <1>2, <1>3, <1>4 DEF ChainInTurn

(* transaction(): a span joins the chain at its end. *)
LEMMA TransactionKeeps == ASSUME SpanInv, NEW s \in Spans, Q!Transaction(s) PROVE SpanInv'
<1>0. SpanType /\ ChainInTurn /\ OpenIsOwned /\ PendingIsOwn /\ DiskIsDone /\ BlameKept
  BY DEF SpanInv
<1>1. /\ qPc[s] = "new" /\ qPc' = [qPc EXCEPT ![s] = "begin"] /\ qChain' = Append(qChain, s)
      /\ UNCHANGED <<qOpen, qPending, qDisk, qAcked, qJoined, qStuck, qBlamed>>
  BY DEF Q!Transaction, Q!Goes, Q!NoFault, Q!engine
<1>2. qChain \in Seq(Spans) /\ qPc \in [Spans -> {"new", "begin", "done", "failed"} \cup Working]
  BY <1>0 DEF SpanType
<1>3. /\ qPc' \in [Spans -> {"new", "begin", "done", "failed"} \cup Working]
      /\ qPc'[s] = "begin"
      /\ \A t \in Spans \ {s} : qPc'[t] = qPc[t]
  BY <1>1, <1>2
<1>4. /\ qChain' \in Seq(Spans) /\ Len(qChain) \in Nat /\ Len(qChain') = Len(qChain) + 1
      /\ qChain'[Len(qChain')] = s
      /\ \A i \in 1 .. Len(qChain) : qChain'[i] = qChain[i] /\ qChain[i] \in Spans
  BY <1>1, <1>2
<1>5. \A i \in 1 .. Len(qChain) : qChain[i] # s
  BY <1>0, <1>1 DEF ChainInTurn, Working
<1>6. \A i \in 1 .. Len(qChain') : i \in 1 .. Len(qChain) \/ i = Len(qChain')
  BY <1>4
<1>7. ChainInTurn'
  <2>1. \A i, j \in 1 .. Len(qChain') : i < j => qChain'[i] # qChain'[j]
    <3> TAKE i, j \in 1 .. Len(qChain')
    <3> HAVE i < j
    <3>1. i \in 1 .. Len(qChain)
      BY <1>4
    <3>q. QED
      BY <1>0, <1>4, <1>5, <1>6, <3>1 DEF ChainInTurn
  <2>2. \A i \in 1 .. Len(qChain') : qPc'[qChain'[i]] \in Working \cup {"begin"}
    BY <1>0, <1>3, <1>4, <1>5, <1>6 DEF ChainInTurn
  <2>3. ASSUME NEW t \in Spans, qPc'[t] \in Working PROVE qChain' # <<>> /\ qChain'[1] = t
    <3>1. qPc[t] \in Working
      BY <1>3, <2>3 DEF Working
    <3>2. qChain # <<>> /\ qChain[1] = t
      BY <1>0, <3>1 DEF ChainInTurn
    <3>q. QED
      BY <1>2, <1>4, <3>2
  <2>q. QED
    BY <2>1, <2>2, <2>3 DEF ChainInTurn
<1>8. SpanType'
  BY <1>0, <1>1, <1>3, <1>4 DEF SpanType
<1>9. \A t \in Spans : qPc'[t] \in Working <=> qPc[t] \in Working
  BY <1>1, <1>3 DEF Working
<1>10. OpenIsOwned'
  BY <1>0, <1>1, <1>3, <1>9 DEF OpenIsOwned
<1>11. PendingIsOwn'
  BY <1>0, <1>1, <1>3, <1>9 DEF PendingIsOwn, Working
<1>12. DiskIsDone' /\ BlameKept'
  BY <1>0, <1>1, <1>3 DEF DiskIsDone, BlameKept, Q!FailuresAreOwn
<1>q. QED
  BY <1>7, <1>8, <1>10, <1>11, <1>12 DEF SpanInv

(* BEGIN: the span at the head opens the transaction. *)
LEMMA BeginKeeps == ASSUME SpanInv, NEW s \in Spans, Q!Begin(s) PROVE SpanInv'
<1>0. SpanType /\ ChainInTurn /\ OpenIsOwned /\ PendingIsOwn /\ DiskIsDone /\ BlameKept
  BY DEF SpanInv
<1>1. /\ qPc[s] = "begin" /\ qChain # <<>> /\ qChain[1] = s
      /\ UNCHANGED <<qPending, qDisk, qAcked, qJoined, qStuck>>
  BY DEF Q!Begin, Q!Gated
<1>2. \A t \in Spans : qPc[t] \notin Working
  BY <1>0, <1>1 DEF ChainInTurn, Working
<1>3. CASE ~qOpen /\ qOpen' = TRUE /\ Q!Goes(s, "outer") /\ Q!NoFault /\ UNCHANGED qChain
  <2>1. /\ ChainInTurn'
        /\ qPc' \in [Spans -> {"new", "begin", "done", "failed"} \cup Working]
        /\ qPc'[s] = "outer"
        /\ \A t \in Spans \ {s} : qPc'[t] = qPc[t] /\ qPc[t] \notin Working
    BY <1>0, <1>1, <1>3, GoesInTurn DEF Working
  <2>2. ~qStuck /\ qPending = {}
    BY <1>0, <1>3 DEF OpenIsOwned, PendingIsOwn
  <2>3. SpanType'
    <3>1. qOpen' \in BOOLEAN
      BY <1>3
    <3>q. QED
      BY <1>0, <1>1, <1>3, <2>1, <3>1 DEF SpanType
  <2>4. OpenIsOwned'
    BY <1>1, <1>3, <2>1, <2>2 DEF OpenIsOwned, Working
  <2>5. PendingIsOwn'
    BY <1>1, <1>2, <1>3, <2>1, <2>2 DEF PendingIsOwn, Working
  <2>6. DiskIsDone'
    BY <1>0, <1>1, <2>1 DEF DiskIsDone
  <2>7. BlameKept'
    BY <1>0, <1>1, <1>3, <2>1 DEF BlameKept, Q!FailuresAreOwn, Q!NoFault
  <2>q. QED
    BY <2>1, <2>3, <2>4, <2>5, <2>6, <2>7 DEF SpanInv
<1>4. CASE /\ Q!Settles(s, "failed") /\ UNCHANGED qOpen
           /\ qBlamed \subseteq qBlamed' /\ (s \in qBlamed' \/ qStuck)
  <2>1. /\ ChainInTurn' /\ qChain' \in Seq(Spans)
        /\ qPc' \in [Spans -> {"new", "begin", "done", "failed"} \cup Working]
        /\ qPc'[s] = "failed"
        /\ \A t \in Spans \ {s} : qPc'[t] = qPc[t]
        /\ \A t \in Spans : qPc'[t] \notin Working
    BY <1>0, <1>1, <1>4, SettlesInTurn
  <2>2. SpanType'
    BY <1>0, <1>1, <1>4, <2>1 DEF SpanType
  <2>3. OpenIsOwned'
    BY <1>0, <1>1, <1>2, <1>4, <2>1 DEF OpenIsOwned, Working
  <2>4. PendingIsOwn'
    BY <1>0, <1>1, <1>2, <1>4, <2>1 DEF PendingIsOwn, Working
  <2>5. DiskIsDone'
    BY <1>0, <1>1, <2>1 DEF DiskIsDone
  <2>6. BlameKept'
    BY <1>0, <1>1, <1>4, <2>1 DEF BlameKept, Q!FailuresAreOwn
  <2>q. QED
    BY <2>1, <2>2, <2>3, <2>4, <2>5, <2>6 DEF SpanInv
<1>5. qOpen => qStuck
  BY <1>0, <1>2 DEF OpenIsOwned
<1>q. QED
  BY <1>3, <1>4, <1>5 DEF Q!Begin, Q!Fault, Q!NoFault

(* A statement of the span at work goes into its transaction. *)
LEMMA WriteKeeps ==
  ASSUME SpanInv, NEW s \in Spans, Q!Outer(s) \/ Q!Inner(s)
  PROVE  SpanInv'
<1>0. SpanType /\ ChainInTurn /\ OpenIsOwned /\ PendingIsOwn /\ DiskIsDone /\ BlameKept
  BY DEF SpanInv
<1>1. /\ UNCHANGED <<qChain, qOpen, qAcked, qJoined, qStuck, qBlamed>>
      /\ qPc[s] \in {"outer", "inner"}
      /\ Q!Goes(s, IF qPc[s] = "outer" THEN "inner" ELSE "commit")
      /\ Q!Writes(<<s, qPc[s]>>)
  BY DEF Q!Outer, Q!Inner, Q!NoFault
<1> DEFINE next == IF qPc[s] = "outer" THEN "inner" ELSE "commit"
<1>2. /\ qOpen /\ ~qStuck /\ qChain # <<>> /\ qChain[1] = s
  BY <1>0, <1>1 DEF OpenIsOwned, ChainInTurn, Working
<1>3. qPending' = qPending \cup {<<s, qPc[s]>>} /\ qDisk' = qDisk
  BY <1>1, <1>2 DEF Q!Writes
<1>4. /\ ChainInTurn'
      /\ qPc' \in [Spans -> {"new", "begin", "done", "failed"} \cup Working]
      /\ qPc'[s] = next
      /\ \A t \in Spans \ {s} : qPc'[t] = qPc[t] /\ qPc[t] \notin Working
  BY <1>0, <1>1, <1>2, GoesInTurn DEF Working
<1>5. SpanType'
  BY <1>0, <1>1, <1>4 DEF SpanType
<1>6. OpenIsOwned'
  BY <1>0, <1>1, <1>2, <1>4 DEF OpenIsOwned, Working
<1>7. PendingIsOwn'
  <2>1. \A w \in qPending' : w \in Loose \/ w \in Q!Written(s)
    BY <1>0, <1>1, <1>2, <1>3, <1>4 DEF PendingIsOwn, Q!Written
  <2>2. qPc'[s] \in Working
    BY <1>4 DEF Working
  <2>3. \A t \in Spans : /\ qPc'[t] = "inner" => <<t, "outer">> \in qPending'
                         /\ qPc'[t] = "commit" => Q!Written(t) \subseteq qPending'
    BY <1>0, <1>1, <1>3, <1>4 DEF PendingIsOwn, Q!Written, Working
  <2>q. QED
    BY <1>1, <1>2, <2>1, <2>2, <2>3 DEF PendingIsOwn
<1>8. DiskIsDone'
  BY <1>0, <1>1, <1>3, <1>4 DEF DiskIsDone
<1>9. BlameKept'
  BY <1>0, <1>1, <1>4 DEF BlameKept, Q!FailuresAreOwn
<1>q. QED
  BY <1>4, <1>5, <1>6, <1>7, <1>8, <1>9 DEF SpanInv

(* COMMIT: what the span wrote, and nothing else, reaches the disk. *)
LEMMA CommitKeeps ==
  ASSUME Q!LooseAssumption, SpanInv, NEW s \in Spans, Q!Commit(s)
  PROVE  SpanInv'
<1>0. SpanType /\ ChainInTurn /\ OpenIsOwned /\ PendingIsOwn /\ DiskIsDone /\ BlameKept
  BY DEF SpanInv
<1>1. /\ qPc[s] = "commit" /\ qOpen' = FALSE /\ qPending' = {} /\ qDisk' = qDisk \cup qPending
      /\ Q!Settles(s, "done") /\ UNCHANGED <<qAcked, qJoined, qStuck, qBlamed>>
  BY DEF Q!Commit, Q!NoFault
<1>2. ~qStuck /\ qChain # <<>> /\ qChain[1] = s /\ \A t \in Spans \ {s} : qPc[t] \notin Working
  BY <1>0, <1>1 DEF OpenIsOwned, ChainInTurn, Working
<1>3. /\ ChainInTurn' /\ qChain' \in Seq(Spans)
      /\ qPc' \in [Spans -> {"new", "begin", "done", "failed"} \cup Working]
      /\ qPc'[s] = "done"
      /\ \A t \in Spans \ {s} : qPc'[t] = qPc[t]
      /\ \A t \in Spans : qPc'[t] \notin Working
  BY <1>0, <1>1, <1>2, SettlesInTurn
<1>4. SpanType'
  <2>1. qOpen' \in BOOLEAN
    BY <1>1
  <2>q. QED
    BY <1>0, <1>1, <1>3, <2>1 DEF SpanType
<1>5. OpenIsOwned' /\ PendingIsOwn'
  BY <1>1, <1>2, <1>3 DEF OpenIsOwned, PendingIsOwn, Working
<1>6. DiskIsDone'
  <2>1. \A w \in qPending : w \in Loose \/ w \in Q!Written(s)
    BY <1>0, <1>2 DEF PendingIsOwn
  <2>2. Q!Written(s) \subseteq qPending
    BY <1>0, <1>1 DEF PendingIsOwn
  <2>3. ASSUME NEW t \in Spans, t # s PROVE Q!Written(t) \cap qPending = {}
    <3>1. Q!Written(t) \cap Q!Written(s) = {}
      BY <2>3 DEF Q!Written
    <3>q. QED
      BY <2>1, <3>1 DEF Q!LooseAssumption
  <2>4. \A t \in Spans \ {s} : qPc'[t] # "done" => Q!Written(t) \cap qDisk' = {}
    BY <1>0, <1>1, <1>3, <2>3 DEF DiskIsDone
  <2>5. \A t \in Spans : qPc'[t] = "done" => Q!Written(t) \subseteq qDisk'
    BY <1>0, <1>1, <1>3, <2>2 DEF DiskIsDone
  <2>6. qAcked' \ qJoined' \subseteq qDisk'
    BY <1>0, <1>1 DEF DiskIsDone
  <2>q. QED
    BY <1>3, <2>4, <2>5, <2>6 DEF DiskIsDone
<1>7. BlameKept'
  BY <1>0, <1>1, <1>3 DEF BlameKept, Q!FailuresAreOwn
<1>q. QED
  BY <1>3, <1>4, <1>5, <1>6, <1>7 DEF SpanInv

(* A span throws: its transaction is rolled back next. *)
LEMMA ThrowsKeeps == ASSUME SpanInv, NEW s \in Spans, Q!Throws(s) PROVE SpanInv'
<1>0. SpanType /\ ChainInTurn /\ OpenIsOwned /\ PendingIsOwn /\ DiskIsDone /\ BlameKept
  BY DEF SpanInv
<1>1. /\ qPc[s] \in {"outer", "inner", "commit"} /\ qBlamed' = qBlamed \cup {s} /\ Q!Goes(s, "rollback")
      /\ UNCHANGED <<qOpen, qPending>> \/ (qOpen' = FALSE /\ qPending' = {})
      /\ UNCHANGED <<qChain, qDisk, qAcked, qJoined, qStuck>>
  BY DEF Q!Throws, Q!Fault
<1>2. /\ qOpen /\ ~qStuck /\ qChain # <<>> /\ qChain[1] = s
  BY <1>0, <1>1 DEF OpenIsOwned, ChainInTurn, Working
<1>3. /\ ChainInTurn'
      /\ qPc' \in [Spans -> {"new", "begin", "done", "failed"} \cup Working]
      /\ qPc'[s] = "rollback"
      /\ \A t \in Spans \ {s} : qPc'[t] = qPc[t] /\ qPc[t] \notin Working
  BY <1>0, <1>1, <1>2, GoesInTurn DEF Working
<1>4. SpanType'
  <2>1. qOpen' \in BOOLEAN
    BY <1>0, <1>1 DEF SpanType
  <2>q. QED
    BY <1>0, <1>1, <1>3, <2>1 DEF SpanType
<1>5. OpenIsOwned'
  BY <1>1, <1>2, <1>3 DEF OpenIsOwned, Working
<1>6. PendingIsOwn'
  BY <1>0, <1>1, <1>2, <1>3 DEF PendingIsOwn, Working
<1>7. DiskIsDone'
  BY <1>0, <1>1, <1>3 DEF DiskIsDone
<1>8. BlameKept'
  BY <1>0, <1>1, <1>3 DEF BlameKept, Q!FailuresAreOwn
<1>q. QED
  BY <1>3, <1>4, <1>5, <1>6, <1>7, <1>8 DEF SpanInv

(* A span fails for good: the ROLLBACK is done, or it throws as well. *)
LEMMA RollbackKeeps ==
  ASSUME SpanInv, NEW s \in Spans, Q!Rollback(s) \/ Q!RollbackFails(s)
  PROVE  SpanInv'
<1>0. SpanType /\ ChainInTurn /\ OpenIsOwned /\ PendingIsOwn /\ DiskIsDone /\ BlameKept
  BY DEF SpanInv
<1>1. /\ qPc[s] = "rollback" /\ Q!Settles(s, "failed") /\ qBlamed \subseteq qBlamed'
      /\ UNCHANGED <<qDisk, qAcked, qJoined>>
      /\ \/ qOpen' = FALSE /\ qPending' = {} /\ UNCHANGED qStuck
         \/ qOpen /\ qStuck' = TRUE /\ UNCHANGED <<qOpen, qPending>>
  BY DEF Q!Rollback, Q!RollbackFails, Q!Discarded, Q!NoFault, Q!Fault, Q!engine
<1>2. ~qStuck /\ qChain # <<>> /\ qChain[1] = s
  BY <1>0, <1>1 DEF OpenIsOwned, ChainInTurn, Working
<1>3. /\ ChainInTurn' /\ qChain' \in Seq(Spans)
      /\ qPc' \in [Spans -> {"new", "begin", "done", "failed"} \cup Working]
      /\ qPc'[s] = "failed"
      /\ \A t \in Spans \ {s} : qPc'[t] = qPc[t]
      /\ \A t \in Spans : qPc'[t] \notin Working
  BY <1>0, <1>1, <1>2, SettlesInTurn
<1>4. SpanType'
  <2>1. qOpen' \in BOOLEAN /\ qStuck' \in BOOLEAN
    BY <1>0, <1>1 DEF SpanType
  <2>q. QED
    BY <1>0, <1>1, <1>3, <2>1 DEF SpanType
<1>5. OpenIsOwned' /\ PendingIsOwn'
  BY <1>0, <1>1, <1>2, <1>3 DEF OpenIsOwned, PendingIsOwn, Working
<1>6. DiskIsDone'
  BY <1>0, <1>1, <1>3 DEF DiskIsDone
<1>7. BlameKept'
  BY <1>0, <1>1, <1>3 DEF BlameKept, Q!FailuresAreOwn
<1>q. QED
  BY <1>3, <1>4, <1>5, <1>6, <1>7 DEF SpanInv

(* A loose statement joins the transaction that is open, or is on disk. *)
LEMMA LooseKeeps ==
  ASSUME Q!LooseAssumption, SpanInv, NEW l \in Loose, Q!LooseStatement(l)
  PROVE  SpanInv'
<1>0. SpanType /\ ChainInTurn /\ OpenIsOwned /\ PendingIsOwn /\ DiskIsDone /\ BlameKept
  BY DEF SpanInv
<1>1. /\ UNCHANGED <<qChain, qPc, qOpen, qStuck, qBlamed>> /\ qAcked' = qAcked \cup {l}
      /\ Q!Writes(l) /\ qJoined' = IF qOpen THEN qJoined \cup {l} ELSE qJoined
  BY DEF Q!LooseStatement, Q!NoFault
<1>2. SpanType'
  BY <1>0, <1>1 DEF SpanType
<1>3. ChainInTurn' /\ OpenIsOwned' /\ BlameKept'
  BY <1>0, <1>1 DEF ChainInTurn, OpenIsOwned, BlameKept, Q!FailuresAreOwn
<1>4. PendingIsOwn'
  BY <1>0, <1>1 DEF PendingIsOwn, Q!Writes
<1>5. DiskIsDone'
  BY <1>0, <1>1 DEF DiskIsDone, Q!Writes, Q!LooseAssumption
<1>q. QED
  BY <1>2, <1>3, <1>4, <1>5 DEF SpanInv

(* Every step of the adapter keeps the invariant. *)
LEMMA SpanKeeps == ASSUME Q!LooseAssumption, SpanInv, [Q!Next]_(Q!vars) PROVE SpanInv'
<1>1. CASE UNCHANGED Q!vars
  BY <1>1 DEF Q!vars, Q!engine, SpanInv, SpanType, ChainInTurn, OpenIsOwned, PendingIsOwn,
     DiskIsDone,
     BlameKept, Q!FailuresAreOwn
<1>q. QED
  BY <1>1, TransactionKeeps, BeginKeeps, WriteKeeps, CommitKeeps, ThrowsKeeps, RollbackKeeps,
     LooseKeeps DEF Q!Next, Q!SpanStep

(* A span is on disk whole or not at all, as its promise says, an             *)
(* acknowledged loose statement is lost only in a span it joined, and no span *)
(* fails for another's error (sync-sqlite.ts, the chain of transaction()).    *)
THEOREM SpansAreIsolated == Q!Spec => []SpansIsolated
<1>1. Q!Init => SpanInv
  BY SpanInit, LooseConstants
<1>2. SpanInv /\ [Q!Next]_(Q!vars) => SpanInv'
  BY SpanKeeps, LooseConstants
<1>3. SpanInv => SpansIsolated
  BY DEF SpanInv, DiskIsDone, BlameKept, Q!SpansIsolated, Q!SpansAtomic, SpansIsolated
<1>q. QED
  BY <1>1, <1>2, <1>3, PTL DEF Q!Spec

-----------------------------------------------------------------------------
(* The polling worker *)

RowType == [status : {"ready", "running", "done", "failed"}, attempts : Nat, lapsed : BOOLEAN]
Busy == {"handling", "completing", "failing"}

WorkerType ==
  /\ wRunning \in BOOLEAN
  /\ wPc \in [Loops -> {"claiming", "sleeping", "ended"} \cup Busy]
  /\ wHeld \in [Loops -> Jobs \cup {None}]
  /\ wToken \in [Loops -> Nat]
  /\ wRow \in [Jobs -> RowType]

(* A busy loop has a job and a fence that was handed out for it, and no two   *)
(* have the same one.                                                         *)
FencesDiffer ==
  /\ \A l \in Loops : wPc[l] \in Busy => wHeld[l] \in Jobs /\ wToken[l] <= wRow[wHeld[l]].attempts
  /\ \A l, m \in Loops : l # m /\ wPc[l] \in Busy /\ wPc[m] \in Busy /\ wHeld[l] = wHeld[m]
                           => wToken[l] # wToken[m]

(* A job whose deadline passed under a busy loop is known to be overdue. *)
LapseSeen ==
  \A l \in Loops : wPc[l] \in Busy /\ W!Owns(l) /\ wRow[wHeld[l]].lapsed => l \in wOverdue

(* A loop that has not written yet still owns its job, or is overdue. *)
StillOwned == \A l \in Loops : wPc[l] \in {"handling", "completing"} => W!Owns(l) \/ l \in wOverdue

(* A running job is that of a busy loop, or a statement about it rejected. *)
RunningIsHeld ==
  \A j \in Jobs : wRow[j].status = "running" =>
    j \in wBroken \/ \E l \in Loops : wPc[l] \in Busy /\ wHeld[l] = j /\ wToken[l] = wRow[j].attempts

StopDrained == wStop = "returned" => W!Drained

WorkerInv ==
  WorkerType /\ FencesDiffer /\ LapseSeen /\ StillOwned /\ RunningIsHeld /\ StopDrained

(* Before start() no loop holds a job. *)
LEMMA WorkerInit == W!Init => WorkerInv
<1> SUFFICES ASSUME W!Init PROVE WorkerInv
  OBVIOUS
<1>1. wRunning \in BOOLEAN /\ wRow \in [Jobs -> RowType]
  BY DEF W!Init, RowType
<1>2. WorkerType
  BY <1>1 DEF W!Init, WorkerType
<1>3. FencesDiffer /\ LapseSeen /\ StillOwned
  BY DEF W!Init, FencesDiffer, LapseSeen, StillOwned, Busy
<1>4. RunningIsHeld /\ StopDrained
  BY DEF W!Init, RunningIsHeld, StopDrained
<1>q. QED
  BY <1>2, <1>3, <1>4 DEF WorkerInv

(* A loop that goes on without a job, or whose handler settles. *)
LEMMA MovesKeeps ==
  ASSUME WorkerInv, NEW l \in Loops, NEW place \in {"claiming", "sleeping", "ended"} \cup Busy,
         W!Goto(l, place), wPc[l] # "ended",
         \/ wPc[l] \notin Busy /\ place \notin Busy
         \/ wPc[l] = "handling" /\ place \in Busy,
         UNCHANGED <<wRunning, wStop, wHeld, wToken, wSweeper, wRow, wBroken, wOverdue>>
  PROVE  WorkerInv'
<1>0. WorkerType /\ FencesDiffer /\ LapseSeen /\ StillOwned /\ RunningIsHeld /\ StopDrained
  BY DEF WorkerInv
<1>1. /\ wPc' \in [Loops -> {"claiming", "sleeping", "ended"} \cup Busy]
      /\ wPc'[l] = place /\ \A m \in Loops \ {l} : wPc'[m] = wPc[m]
  BY <1>0 DEF WorkerType, W!Goto
<1>2. \A m \in Loops : wPc'[m] \in Busy <=> wPc[m] \in Busy
  BY <1>1 DEF Busy
<1>3. \A m \in Loops : wPc'[m] \in {"handling", "completing"} => wPc[m] \in {"handling", "completing"}
  BY <1>1 DEF Busy
<1>4. WorkerType'
  BY <1>0, <1>1 DEF WorkerType
<1>5. FencesDiffer'
  BY <1>0, <1>2 DEF FencesDiffer
<1>6. LapseSeen' /\ StillOwned'
  BY <1>0, <1>2, <1>3 DEF LapseSeen, StillOwned, W!Owns
<1>7. RunningIsHeld'
  BY <1>0, <1>2 DEF RunningIsHeld
<1>8. StopDrained'
  BY <1>0 DEF StopDrained, W!Drained
<1>q. QED
  BY <1>4, <1>5, <1>6, <1>7, <1>8 DEF WorkerInv

(* The row of a job that is claimed, for a loop or by a claim that rejects. *)
LEMMA ClaimedRow ==
  ASSUME WorkerType, NEW j \in Jobs, W!Claimed(j)
  PROVE  /\ wRow' \in [Jobs -> RowType]
         /\ \A i \in Jobs \ {j} : wRow'[i] = wRow[i]
         /\ wRow'[j].status = "running" /\ wRow'[j].attempts = wRow[j].attempts + 1 /\ ~wRow'[j].lapsed
         /\ wRow[j].attempts \in Nat
<1>1. wRow \in [Jobs -> RowType] /\ wRow[j] \in RowType
  BY DEF WorkerType
<1>2. wRow[j].attempts \in Nat
  BY <1>1 DEF RowType
<1>3. [status |-> "running", attempts |-> wRow[j].attempts + 1, lapsed |-> FALSE] \in RowType
  BY <1>2 DEF RowType
<1>4. wRow' = [wRow EXCEPT ![j] =
                [status |-> "running", attempts |-> wRow[j].attempts + 1, lapsed |-> FALSE]]
  BY DEF W!Claimed
<1>q. QED
  BY <1>1, <1>2, <1>3, <1>4

(* A claim: the loop holds the job under a token nobody had before. *)
LEMMA ClaimKeeps ==
  ASSUME WorkerInv, NEW l \in Loops, NEW j \in Jobs, W!Claim(l, j)
  PROVE  WorkerInv'
<1>0. WorkerType /\ FencesDiffer /\ LapseSeen /\ StillOwned /\ RunningIsHeld /\ StopDrained
  BY DEF WorkerInv
<1>1. /\ wPc[l] = "claiming" /\ wRow[j].status = "ready" /\ W!Claimed(j)
      /\ wHeld' = [wHeld EXCEPT ![l] = j] /\ wToken' = [wToken EXCEPT ![l] = wRow[j].attempts + 1]
      /\ \E place \in {"handling", "failing"} : wPc' = [wPc EXCEPT ![l] = place]
      /\ UNCHANGED <<wRunning, wStop, wSweeper, wBroken, wOverdue>>
  BY DEF W!Claim, W!Goto, W!RunsClaimed, W!ghosts
<1>2. /\ wRow' \in [Jobs -> RowType]
      /\ \A i \in Jobs \ {j} : wRow'[i] = wRow[i]
      /\ wRow'[j].status = "running" /\ wRow'[j].attempts = wRow[j].attempts + 1 /\ ~wRow'[j].lapsed
      /\ wRow[j].attempts \in Nat
  BY <1>0, <1>1, ClaimedRow
<1>3. /\ wPc' \in [Loops -> {"claiming", "sleeping", "ended"} \cup Busy]
      /\ wPc'[l] \in Busy /\ \A m \in Loops \ {l} : wPc'[m] = wPc[m]
  BY <1>0, <1>1 DEF WorkerType, Busy
<1>4. /\ wHeld' \in [Loops -> Jobs \cup {None}] /\ wToken' \in [Loops -> Nat]
      /\ wHeld'[l] = j /\ wToken'[l] = wRow[j].attempts + 1
      /\ \A m \in Loops \ {l} : wHeld'[m] = wHeld[m] /\ wToken'[m] = wToken[m]
  BY <1>0, <1>1, <1>2 DEF WorkerType
<1>5. WorkerType'
  BY <1>0, <1>1, <1>2, <1>3, <1>4 DEF WorkerType
<1>6. ASSUME NEW m \in Loops, m # l, wPc[m] \in Busy, wHeld[m] = j PROVE wToken[m] < wRow[j].attempts + 1
  BY <1>0, <1>2, <1>6 DEF FencesDiffer, WorkerType
<1>7. FencesDiffer'
  <2>1. ASSUME NEW m \in Loops, wPc'[m] \in Busy
        PROVE  wHeld'[m] \in Jobs /\ wToken'[m] <= wRow'[wHeld'[m]].attempts
    <3>1. CASE m = l
      BY <1>2, <1>4, <3>1
    <3>2. CASE m # l
      <4>1. wHeld[m] \in Jobs /\ wToken[m] <= wRow[wHeld[m]].attempts /\ wToken[m] \in Nat
        BY <1>0, <1>3, <2>1, <3>2 DEF FencesDiffer, WorkerType
      <4>q. QED
        BY <1>2, <1>4, <3>2, <4>1
    <3>q. QED
      BY <3>1, <3>2
  <2>2. ASSUME NEW m \in Loops, NEW n \in Loops, m # n, wPc'[m] \in Busy, wPc'[n] \in Busy,
               wHeld'[m] = wHeld'[n]
        PROVE  wToken'[m] # wToken'[n]
    <3>1. CASE m = l
      <4>1. n # l /\ wPc[n] \in Busy /\ wHeld[n] = j /\ wToken'[n] = wToken[n] /\ wToken[n] \in Nat
        BY <1>0, <1>3, <1>4, <2>2, <3>1 DEF WorkerType
      <4>q. QED
        BY <1>2, <1>4, <1>6, <3>1, <4>1
    <3>2. CASE n = l
      <4>1. m # l /\ wPc[m] \in Busy /\ wHeld[m] = j /\ wToken'[m] = wToken[m] /\ wToken[m] \in Nat
        BY <1>0, <1>3, <1>4, <2>2, <3>2 DEF WorkerType
      <4>q. QED
        BY <1>2, <1>4, <1>6, <3>2, <4>1
    <3>3. CASE m # l /\ n # l
      BY <1>0, <1>3, <1>4, <2>2, <3>3 DEF FencesDiffer
    <3>q. QED
      BY <3>1, <3>2, <3>3
  <2>q. QED
    BY <2>1, <2>2 DEF FencesDiffer
<1>8. ASSUME NEW m \in Loops, m # l, wPc[m] \in Busy PROVE W!Owns(m)' => W!Owns(m) /\ wHeld[m] # j
  <2>1. wHeld'[m] = wHeld[m] /\ wToken'[m] = wToken[m] /\ wHeld[m] \in Jobs /\ wToken[m] \in Nat
    BY <1>0, <1>4, <1>8 DEF FencesDiffer, WorkerType
  <2>2. CASE wHeld[m] = j
    <3>1. wToken[m] < wRow[j].attempts + 1
      BY <1>6, <1>8, <2>2
    <3>2. wRow'[wHeld'[m]].attempts # wToken'[m]
      BY <1>2, <2>1, <2>2, <3>1
    <3>q. QED
      BY <3>2 DEF W!Owns
  <2>3. CASE wHeld[m] # j
    BY <1>2, <2>1, <2>3 DEF W!Owns
  <2>q. QED
    BY <2>2, <2>3
<1>9. LapseSeen'
  <2> SUFFICES ASSUME NEW m \in Loops, wPc'[m] \in Busy, W!Owns(m)', wRow'[wHeld'[m]].lapsed
               PROVE  m \in wOverdue'
    BY DEF LapseSeen
  <2>1. m # l
    BY <1>2, <1>4
  <2>2. wPc[m] \in Busy /\ W!Owns(m) /\ wHeld[m] # j /\ wHeld[m] \in Jobs
    BY <1>0, <1>3, <1>8, <2>1 DEF FencesDiffer
  <2>3. wRow[wHeld[m]].lapsed
    BY <1>2, <1>4, <2>1, <2>2
  <2>q. QED
    BY <1>0, <1>1, <2>2, <2>3 DEF LapseSeen
<1>10. StillOwned'
  <2> SUFFICES ASSUME NEW m \in Loops, wPc'[m] \in {"handling", "completing"}
               PROVE  W!Owns(m)' \/ m \in wOverdue'
    BY DEF StillOwned
  <2>1. CASE m = l
    BY <1>2, <1>4, <2>1 DEF W!Owns
  <2>2. CASE m # l
    <3>1. wPc[m] \in {"handling", "completing"} /\ wPc[m] \in Busy
      BY <1>3, <2>2 DEF Busy
    <3>2. wHeld[m] \in Jobs
      BY <1>0, <3>1 DEF FencesDiffer
    <3>3. CASE m \in wOverdue
      BY <1>1, <3>3
    <3>4. CASE W!Owns(m)
      <4>1. wHeld[m] # j
        BY <1>1, <3>4 DEF W!Owns
      <4>q. QED
        BY <1>2, <1>4, <2>2, <3>2, <3>4, <4>1 DEF W!Owns
    <3>q. QED
      BY <1>0, <3>1, <3>3, <3>4 DEF StillOwned
  <2>q. QED
    BY <2>1, <2>2
<1>11. RunningIsHeld'
  <2> SUFFICES ASSUME NEW i \in Jobs, wRow'[i].status = "running", i \notin wBroken'
               PROVE  \E m \in Loops : wPc'[m] \in Busy /\ wHeld'[m] = i /\ wToken'[m] = wRow'[i].attempts
    BY DEF RunningIsHeld
  <2>1. CASE i = j
    BY <1>2, <1>3, <1>4, <2>1
  <2>2. CASE i # j
    <3>1. wRow'[i] = wRow[i]
      BY <1>2, <2>2
    <3>2. PICK m \in Loops : wPc[m] \in Busy /\ wHeld[m] = i /\ wToken[m] = wRow[i].attempts
      BY <1>0, <1>1, <3>1 DEF RunningIsHeld
    <3>3. m # l
      BY <1>1, <3>2 DEF Busy
    <3>q. QED
      BY <1>3, <1>4, <3>1, <3>2, <3>3
  <2>q. QED
    BY <2>1, <2>2
<1>12. StopDrained'
  BY <1>0, <1>1 DEF StopDrained, W!Drained
<1>q. QED
  BY <1>5, <1>7, <1>9, <1>10, <1>11, <1>12 DEF WorkerInv

(* A claim that rejects, though it was committed: nobody has the job. *)
LEMMA LostClaimKeeps ==
  ASSUME WorkerInv, NEW l \in Loops, NEW j \in Jobs, wPc[l] = "claiming", wRow[j].status = "ready",
         W!Goto(l, "sleeping"), W!Claimed(j), wBroken' = wBroken \cup {j},
         UNCHANGED <<wRunning, wStop, wHeld, wToken, wSweeper, wOverdue>>
  PROVE  WorkerInv'
<1>0. WorkerType /\ FencesDiffer /\ LapseSeen /\ StillOwned /\ RunningIsHeld /\ StopDrained
  BY DEF WorkerInv
<1>1. /\ wRow' \in [Jobs -> RowType]
      /\ \A i \in Jobs \ {j} : wRow'[i] = wRow[i]
      /\ wRow'[j].status = "running" /\ wRow'[j].attempts = wRow[j].attempts + 1 /\ ~wRow'[j].lapsed
      /\ wRow[j].attempts \in Nat
  BY <1>0, ClaimedRow
<1>2. /\ wPc' \in [Loops -> {"claiming", "sleeping", "ended"} \cup Busy]
      /\ wPc'[l] = "sleeping" /\ \A m \in Loops \ {l} : wPc'[m] = wPc[m]
  BY <1>0 DEF WorkerType, W!Goto
<1>3. \A m \in Loops : wPc'[m] \in Busy <=> wPc[m] \in Busy
  BY <1>2 DEF Busy
<1>4. WorkerType'
  BY <1>0, <1>1, <1>2 DEF WorkerType
<1>5. ASSUME NEW m \in Loops, wPc[m] \in Busy
      PROVE  /\ wHeld[m] \in Jobs /\ wToken[m] <= wRow'[wHeld[m]].attempts
             /\ W!Owns(m)' => W!Owns(m) /\ wHeld[m] # j
             /\ W!Owns(m) => W!Owns(m)'
  <2>1. wHeld[m] \in Jobs /\ wToken[m] <= wRow[wHeld[m]].attempts /\ wToken[m] \in Nat
    BY <1>0, <1>5 DEF FencesDiffer, WorkerType
  <2>2. CASE wHeld[m] = j
    <3>1. wToken[m] < wRow'[j].attempts
      BY <1>1, <2>1, <2>2
    <3>2. ~W!Owns(m)
      BY <2>2 DEF W!Owns
    <3>q. QED
      BY <1>1, <2>1, <2>2, <3>1, <3>2 DEF W!Owns
  <2>3. CASE wHeld[m] # j
    BY <1>1, <2>1, <2>3 DEF W!Owns
  <2>q. QED
    BY <2>2, <2>3
<1>6. FencesDiffer'
  BY <1>0, <1>3, <1>5 DEF FencesDiffer
<1>7. LapseSeen'
  BY <1>0, <1>1, <1>3, <1>5 DEF LapseSeen
<1>8. StillOwned'
  <2> SUFFICES ASSUME NEW m \in Loops, wPc'[m] \in {"handling", "completing"}
               PROVE  W!Owns(m)' \/ m \in wOverdue'
    BY DEF StillOwned
  <2>1. wPc[m] \in {"handling", "completing"} /\ wPc[m] \in Busy
    BY <1>2 DEF Busy
  <2>q. QED
    BY <1>0, <1>5, <2>1 DEF StillOwned
<1>9. RunningIsHeld'
  <2> SUFFICES ASSUME NEW i \in Jobs, wRow'[i].status = "running", i \notin wBroken'
               PROVE  \E m \in Loops : wPc'[m] \in Busy /\ wHeld'[m] = i /\ wToken'[m] = wRow'[i].attempts
    BY DEF RunningIsHeld
  <2>1. i # j /\ wRow'[i] = wRow[i]
    BY <1>1
  <2>q. QED
    BY <1>0, <1>3, <2>1 DEF RunningIsHeld
<1>10. StopDrained'
  BY <1>0 DEF StopDrained, W!Drained
<1>q. QED
  BY <1>4, <1>6, <1>7, <1>8, <1>9, <1>10 DEF WorkerInv

(* What a terminal write changes: the status of a job that its loop owns. *)
LEMMA WrittenRow ==
  ASSUME WorkerType, FencesDiffer, NEW l \in Loops, wPc[l] \in Busy,
         NEW status \in {"ready", "done", "failed"}, W!Writes(l, status) \/ UNCHANGED wRow
  PROVE  /\ wRow' \in [Jobs -> RowType]
         /\ \A j \in Jobs : wRow'[j].attempts = wRow[j].attempts /\ wRow'[j].lapsed = wRow[j].lapsed
         /\ \A j \in Jobs \ {wHeld[l]} : wRow'[j] = wRow[j]
         /\ ~W!Owns(l) => wRow' = wRow
         /\ wRow'[wHeld[l]].status \in {wRow[wHeld[l]].status, status}
         /\ W!Writes(l, status) /\ W!Owns(l) => wRow'[wHeld[l]].status = status
<1>1. wRow \in [Jobs -> RowType] /\ wHeld[l] \in Jobs
  BY DEF WorkerType, FencesDiffer
<1>2. CASE wRow' = wRow
  BY <1>1, <1>2 DEF W!Writes, RowType
<1>3. CASE W!Owns(l) /\ wRow' = [wRow EXCEPT ![wHeld[l]].status = status]
  <2>1. [wRow[wHeld[l]] EXCEPT !.status = status] \in RowType
    BY <1>1 DEF RowType
  <2>2. wRow' = [wRow EXCEPT ![wHeld[l]] = [wRow[wHeld[l]] EXCEPT !.status = status]]
    BY <1>1, <1>3
  <2>3. wRow' \in [Jobs -> RowType] /\ \A j \in Jobs \ {wHeld[l]} : wRow'[j] = wRow[j]
    BY <1>1, <2>1, <2>2
  <2>4. wRow'[wHeld[l]] = [wRow[wHeld[l]] EXCEPT !.status = status]
    BY <1>1, <2>2
  <2>5. /\ wRow'[wHeld[l]].status = status /\ wRow'[wHeld[l]].attempts = wRow[wHeld[l]].attempts
        /\ wRow'[wHeld[l]].lapsed = wRow[wHeld[l]].lapsed
    BY <1>1, <2>4 DEF RowType
  <2>q. QED
    BY <1>1, <1>3, <2>3, <2>5
<1>q. QED
  BY <1>2, <1>3 DEF W!Writes

(* Another loop's write leaves a loop its job: their fences differ. *)
LEMMA OthersOwn ==
  ASSUME WorkerType, FencesDiffer, NEW l \in Loops, wPc[l] \in Busy,
         NEW status \in {"ready", "done", "failed"}, W!Writes(l, status) \/ UNCHANGED wRow,
         NEW m \in Loops, m # l, wPc[m] \in Busy, wHeld'[m] = wHeld[m], wToken'[m] = wToken[m]
  PROVE  W!Owns(m)' <=> W!Owns(m)
<1>1. /\ \A j \in Jobs : wRow'[j].attempts = wRow[j].attempts
      /\ \A j \in Jobs \ {wHeld[l]} : wRow'[j] = wRow[j]
      /\ ~W!Owns(l) => wRow' = wRow
  BY WrittenRow
<1>2. wHeld[m] \in Jobs /\ wHeld[l] \in Jobs
  BY DEF FencesDiffer
<1>3. CASE wHeld[m] # wHeld[l]
  BY <1>1, <1>2, <1>3 DEF W!Owns
<1>4. CASE wHeld[m] = wHeld[l]
  <2>1. wToken[l] # wToken[m]
    BY <1>4 DEF FencesDiffer
  <2>2. CASE W!Owns(l)
    <3>1. wRow[wHeld[m]].attempts = wToken[l] /\ wRow'[wHeld[m]].attempts = wToken[l]
      BY <1>1, <1>2, <1>4, <2>2 DEF W!Owns
    <3>q. QED
      BY <2>1, <3>1 DEF W!Owns
  <2>3. CASE ~W!Owns(l)
    BY <1>1, <2>3 DEF W!Owns
  <2>q. QED
    BY <2>2, <2>3
<1>q. QED
  BY <1>3, <1>4

(* A loop writes what became of its job and leaves it. *)
LEMMA LeavesJobKeeps ==
  ASSUME WorkerInv, NEW l \in Loops, wPc[l] \in Busy,
         NEW status \in {"ready", "done", "failed"},
         W!Writes(l, status) \/ (UNCHANGED wRow /\ wHeld[l] \in wBroken'),
         wBroken \subseteq wBroken',
         NEW place \in {"claiming", "sleeping", "ended"}, W!Leaves(l, place),
         UNCHANGED <<wRunning, wStop, wSweeper>>
  PROVE  WorkerInv'
<1>0. WorkerType /\ FencesDiffer /\ LapseSeen /\ StillOwned /\ RunningIsHeld /\ StopDrained
  BY DEF WorkerInv
<1>1. /\ wPc' = [wPc EXCEPT ![l] = place] /\ wHeld' = [wHeld EXCEPT ![l] = None]
      /\ wToken' = [wToken EXCEPT ![l] = 0] /\ wOverdue' = wOverdue \ {l}
  BY DEF W!Leaves, W!Goto
<1>2. /\ wPc' \in [Loops -> {"claiming", "sleeping", "ended"} \cup Busy]
      /\ wHeld' \in [Loops -> Jobs \cup {None}] /\ wToken' \in [Loops -> Nat]
      /\ wPc'[l] \notin Busy
      /\ \A m \in Loops \ {l} : wPc'[m] = wPc[m] /\ wHeld'[m] = wHeld[m] /\ wToken'[m] = wToken[m]
  BY <1>0, <1>1 DEF WorkerType, Busy
<1>3. /\ wRow' \in [Jobs -> RowType]
      /\ \A j \in Jobs : wRow'[j].attempts = wRow[j].attempts /\ wRow'[j].lapsed = wRow[j].lapsed
      /\ \A j \in Jobs \ {wHeld[l]} : wRow'[j] = wRow[j]
      /\ ~W!Owns(l) => wRow' = wRow
      /\ wRow'[wHeld[l]].status \in {wRow[wHeld[l]].status, status}
      /\ W!Writes(l, status) /\ W!Owns(l) => wRow'[wHeld[l]].status = status
  BY <1>0, WrittenRow
<1>4. ASSUME NEW m \in Loops, m # l, wPc[m] \in Busy PROVE W!Owns(m)' <=> W!Owns(m)
  BY <1>0, <1>2, <1>4, OthersOwn
<1>5. WorkerType'
  BY <1>0, <1>2, <1>3 DEF WorkerType
<1>6. FencesDiffer'
  BY <1>0, <1>2, <1>3 DEF FencesDiffer
<1>7. LapseSeen'
  <2> SUFFICES ASSUME NEW m \in Loops, wPc'[m] \in Busy, W!Owns(m)', wRow'[wHeld'[m]].lapsed
               PROVE  m \in wOverdue'
    BY DEF LapseSeen
  <2>1. m # l /\ wPc[m] \in Busy /\ wHeld'[m] = wHeld[m]
    BY <1>2
  <2>2. wHeld[m] \in Jobs /\ W!Owns(m)
    BY <1>0, <1>4, <2>1 DEF FencesDiffer
  <2>q. QED
    BY <1>0, <1>1, <1>3, <2>1, <2>2 DEF LapseSeen
<1>8. StillOwned'
  <2> SUFFICES ASSUME NEW m \in Loops, wPc'[m] \in {"handling", "completing"}
               PROVE  W!Owns(m)' \/ m \in wOverdue'
    BY DEF StillOwned
  <2>1. m # l /\ wPc[m] \in Busy /\ wPc[m] \in {"handling", "completing"}
    BY <1>2 DEF Busy
  <2>q. QED
    BY <1>0, <1>1, <1>4, <2>1 DEF StillOwned
<1>9. RunningIsHeld'
  <2> SUFFICES ASSUME NEW i \in Jobs, wRow'[i].status = "running", i \notin wBroken'
               PROVE  \E m \in Loops : wPc'[m] \in Busy /\ wHeld'[m] = i /\ wToken'[m] = wRow'[i].attempts
    BY DEF RunningIsHeld
  <2>1. wRow[i].status = "running"
    BY <1>3
  <2>2. PICK m \in Loops : wPc[m] \in Busy /\ wHeld[m] = i /\ wToken[m] = wRow[i].attempts
    BY <1>0, <2>1 DEF RunningIsHeld
  <2>3. m # l
    <3> SUFFICES ASSUME m = l PROVE FALSE
      OBVIOUS
    <3>1. W!Owns(l) /\ i = wHeld[l]
      BY <2>1, <2>2 DEF W!Owns
    <3>2. W!Writes(l, status)
      BY <3>1
    <3>q. QED
      BY <1>3, <3>1, <3>2
  <2>q. QED
    BY <1>2, <1>3, <2>2, <2>3
<1>10. StopDrained'
  BY <1>0 DEF StopDrained, W!Drained, Busy
<1>q. QED
  BY <1>5, <1>6, <1>7, <1>8, <1>9, <1>10 DEF WorkerInv

(* complete() rejects, before or after the row was written. *)
LEMMA CompleteFaultsKeeps ==
  ASSUME WorkerInv, NEW l \in Loops, W!CompleteFaults(l)
  PROVE  WorkerInv'
<1>0. WorkerType /\ FencesDiffer /\ LapseSeen /\ StillOwned /\ RunningIsHeld /\ StopDrained
  BY DEF WorkerInv
<1>1. /\ wPc[l] = "completing" /\ wPc[l] \in Busy /\ (W!Writes(l, "done") \/ UNCHANGED wRow)
      /\ wBroken' = wBroken \cup {wHeld[l]} /\ wPc' = [wPc EXCEPT ![l] = "failing"]
      /\ UNCHANGED <<wRunning, wStop, wSweeper, wHeld, wToken, wOverdue>>
  BY DEF W!CompleteFaults, W!GivesUp, W!Goto, Busy
<1>2. /\ wPc' \in [Loops -> {"claiming", "sleeping", "ended"} \cup Busy]
      /\ wPc'[l] = "failing" /\ \A m \in Loops \ {l} : wPc'[m] = wPc[m]
      /\ \A m \in Loops : wPc'[m] \in Busy <=> wPc[m] \in Busy
  BY <1>0, <1>1 DEF WorkerType, Busy
<1>3. /\ wRow' \in [Jobs -> RowType]
      /\ \A j \in Jobs : wRow'[j].attempts = wRow[j].attempts /\ wRow'[j].lapsed = wRow[j].lapsed
      /\ \A j \in Jobs \ {wHeld[l]} : wRow'[j] = wRow[j]
      /\ ~W!Owns(l) => wRow' = wRow
      /\ wRow'[wHeld[l]].status \in {wRow[wHeld[l]].status, "done"}
  BY <1>0, <1>1, WrittenRow
<1>4. ASSUME NEW m \in Loops, m # l, wPc[m] \in Busy PROVE W!Owns(m)' <=> W!Owns(m)
  BY <1>0, <1>1, <1>4, OthersOwn
<1>5. W!Owns(l)' => W!Owns(l)
  BY <1>0, <1>1, <1>3 DEF W!Owns, FencesDiffer
<1>6. WorkerType'
  BY <1>0, <1>1, <1>2, <1>3 DEF WorkerType
<1>7. FencesDiffer'
  BY <1>0, <1>1, <1>2, <1>3 DEF FencesDiffer
<1>8. LapseSeen'
  <2> SUFFICES ASSUME NEW m \in Loops, wPc'[m] \in Busy, W!Owns(m)', wRow'[wHeld'[m]].lapsed
               PROVE  m \in wOverdue'
    BY DEF LapseSeen
  <2>1. wPc[m] \in Busy /\ wHeld'[m] = wHeld[m] /\ wHeld[m] \in Jobs
    BY <1>0, <1>1, <1>2 DEF FencesDiffer
  <2>2. W!Owns(m)
    BY <1>4, <1>5, <2>1
  <2>q. QED
    BY <1>0, <1>1, <1>3, <2>1, <2>2 DEF LapseSeen
<1>9. StillOwned'
  <2> SUFFICES ASSUME NEW m \in Loops, wPc'[m] \in {"handling", "completing"}
               PROVE  W!Owns(m)' \/ m \in wOverdue'
    BY DEF StillOwned
  <2>1. m # l /\ wPc[m] \in Busy /\ wPc[m] \in {"handling", "completing"}
    BY <1>2 DEF Busy
  <2>q. QED
    BY <1>0, <1>1, <1>4, <2>1 DEF StillOwned
<1>10. RunningIsHeld'
  <2> SUFFICES ASSUME NEW i \in Jobs, wRow'[i].status = "running", i \notin wBroken'
               PROVE  \E m \in Loops : wPc'[m] \in Busy /\ wHeld'[m] = i /\ wToken'[m] = wRow'[i].attempts
    BY DEF RunningIsHeld
  <2>1. i # wHeld[l] /\ i \notin wBroken /\ wRow'[i] = wRow[i]
    BY <1>1, <1>3
  <2>q. QED
    BY <1>0, <1>1, <1>2, <2>1 DEF RunningIsHeld
<1>11. StopDrained'
  BY <1>0, <1>1 DEF StopDrained, W!Drained
<1>q. QED
  BY <1>6, <1>7, <1>8, <1>9, <1>10, <1>11 DEF WorkerInv

(* A sweep takes only what is stalled, and that is overdue. *)
LEMMA SweepRow ==
  ASSUME WorkerType, wRow' \in {wRow, W!Retired, W!Reclaimed}
  PROVE  /\ wRow' \in [Jobs -> RowType]
         /\ \A j \in Jobs : /\ wRow'[j].attempts = wRow[j].attempts /\ wRow'[j].lapsed = wRow[j].lapsed
                            /\ wRow'[j] = wRow[j] \/ (W!Stalled(j) /\ wRow'[j].status \in {"failed", "ready"})
<1>1. wRow \in [Jobs -> RowType]
  BY DEF WorkerType
<1>2. ASSUME NEW j \in Jobs
      PROVE  wRow'[j] \in {wRow[j]} \cup (IF W!Stalled(j) THEN {[wRow[j] EXCEPT !.status = "failed"],
                                                          [wRow[j] EXCEPT !.status = "ready"]} ELSE {})
  <2>1. W!Retired[j] \in {wRow[j]} \cup (IF W!Stalled(j) THEN {[wRow[j] EXCEPT !.status = "failed"]} ELSE {})
    BY DEF W!Retired
  <2>2. W!Reclaimed[j] \in {W!Retired[j]} \cup (IF W!Stalled(j) THEN {[wRow[j] EXCEPT !.status = "ready"]} ELSE {})
    BY DEF W!Reclaimed
  <2>q. QED
    BY <2>1, <2>2
<1>3. ASSUME NEW j \in Jobs, NEW status \in {"failed", "ready"}
      PROVE  /\ [wRow[j] EXCEPT !.status = status] \in RowType
             /\ [wRow[j] EXCEPT !.status = status].status = status
             /\ [wRow[j] EXCEPT !.status = status].attempts = wRow[j].attempts
             /\ [wRow[j] EXCEPT !.status = status].lapsed = wRow[j].lapsed
  BY <1>1 DEF RowType
<1>4. ASSUME NEW j \in Jobs
      PROVE  /\ wRow'[j] \in RowType
             /\ wRow'[j].attempts = wRow[j].attempts /\ wRow'[j].lapsed = wRow[j].lapsed
             /\ wRow'[j] = wRow[j] \/ (W!Stalled(j) /\ wRow'[j].status \in {"failed", "ready"})
  BY <1>1, <1>2, <1>3
<1>5. wRow' = [j \in Jobs |-> wRow'[j]]
  BY <1>1 DEF W!Retired, W!Reclaimed
<1>q. QED
  BY <1>4, <1>5

(* The sweep returns a job whose claim lapsed to the queue. *)
LEMMA SweepKeeps ==
  ASSUME WorkerInv, wSweeper # "ended", wRow' \in {wRow, W!Retired, W!Reclaimed},
         UNCHANGED <<wRunning, wStop, wPc, wHeld, wToken, wBroken, wOverdue>>
  PROVE  WorkerInv'
<1>0. WorkerType /\ FencesDiffer /\ LapseSeen /\ StillOwned /\ RunningIsHeld /\ StopDrained
  BY DEF WorkerInv
<1>1. /\ wRow' \in [Jobs -> RowType]
      /\ \A j \in Jobs : /\ wRow'[j].attempts = wRow[j].attempts /\ wRow'[j].lapsed = wRow[j].lapsed
                         /\ wRow'[j] = wRow[j] \/ (W!Stalled(j) /\ wRow'[j].status \in {"failed", "ready"})
  BY <1>0, SweepRow
<1>2. WorkerType'
  BY <1>0, <1>1 DEF WorkerType
<1>3. FencesDiffer'
  BY <1>0, <1>1 DEF FencesDiffer
<1>4. ASSUME NEW m \in Loops, wPc[m] \in Busy
      PROVE  /\ W!Owns(m)' => W!Owns(m)
             /\ W!Owns(m) => W!Owns(m)' \/ m \in wOverdue
  <2>1. wHeld[m] \in Jobs
    BY <1>0, <1>4 DEF FencesDiffer
  <2>2. CASE wRow'[wHeld[m]] = wRow[wHeld[m]]
    BY <2>2 DEF W!Owns
  <2>3. CASE W!Stalled(wHeld[m]) /\ wRow'[wHeld[m]].status \in {"failed", "ready"}
    BY <1>0, <1>4, <2>3 DEF W!Owns, LapseSeen, W!Stalled
  <2>q. QED
    BY <1>1, <2>1, <2>2, <2>3
<1>5. LapseSeen'
  <2> SUFFICES ASSUME NEW m \in Loops, wPc[m] \in Busy, W!Owns(m)', wRow'[wHeld[m]].lapsed
               PROVE  m \in wOverdue
    BY DEF LapseSeen
  <2>1. wHeld[m] \in Jobs /\ W!Owns(m)
    BY <1>0, <1>4 DEF FencesDiffer
  <2>q. QED
    BY <1>0, <1>1, <2>1 DEF LapseSeen
<1>6. StillOwned'
  BY <1>0, <1>4 DEF StillOwned, Busy
<1>7. RunningIsHeld'
  <2> SUFFICES ASSUME NEW i \in Jobs, wRow'[i].status = "running", i \notin wBroken
               PROVE  \E m \in Loops : wPc[m] \in Busy /\ wHeld[m] = i /\ wToken[m] = wRow'[i].attempts
    BY DEF RunningIsHeld
  <2>1. wRow'[i] = wRow[i]
    BY <1>1
  <2>q. QED
    BY <1>0, <2>1 DEF RunningIsHeld
<1>8. StopDrained'
  BY <1>0 DEF StopDrained, W!Drained
<1>q. QED
  BY <1>2, <1>3, <1>5, <1>6, <1>7, <1>8 DEF WorkerInv

(* A deadline passes: whoever has the job is overdue. *)
LEMMA LapseKeeps == ASSUME WorkerInv, NEW j \in Jobs, W!Lapse(j) PROVE WorkerInv'
<1>0. WorkerType /\ FencesDiffer /\ LapseSeen /\ StillOwned /\ RunningIsHeld /\ StopDrained
  BY DEF WorkerInv
<1>1. /\ wRow[j].status = "running"
      /\ wRow' = [wRow EXCEPT ![j] = [wRow[j] EXCEPT !.lapsed = TRUE]]
      /\ wOverdue' = wOverdue \cup {l \in Loops : wHeld[l] = j /\ wToken[l] = wRow[j].attempts}
      /\ UNCHANGED <<wRunning, wStop, wPc, wHeld, wToken, wSweeper, wBroken>>
  BY DEF W!Lapse, W!loopVars
<1>2. wRow \in [Jobs -> RowType] /\ [wRow[j] EXCEPT !.lapsed = TRUE] \in RowType
  BY <1>0 DEF WorkerType, RowType
<1>3. /\ wRow' \in [Jobs -> RowType] /\ \A i \in Jobs \ {j} : wRow'[i] = wRow[i]
      /\ wRow'[j].status = wRow[j].status /\ wRow'[j].attempts = wRow[j].attempts
  BY <1>1, <1>2 DEF RowType
<1>4. \A i \in Jobs : wRow'[i].status = wRow[i].status /\ wRow'[i].attempts = wRow[i].attempts
  BY <1>3
<1>5. WorkerType'
  BY <1>0, <1>1, <1>3 DEF WorkerType
<1>6. FencesDiffer'
  BY <1>0, <1>1, <1>4 DEF FencesDiffer
<1>7. ASSUME NEW m \in Loops, wPc[m] \in Busy PROVE W!Owns(m)' <=> W!Owns(m)
  <2>1. wHeld[m] \in Jobs
    BY <1>0, <1>7 DEF FencesDiffer
  <2>q. QED
    BY <1>1, <1>4, <2>1 DEF W!Owns
<1>8. LapseSeen'
  <2> SUFFICES ASSUME NEW m \in Loops, wPc[m] \in Busy, W!Owns(m)', wRow'[wHeld[m]].lapsed
               PROVE  m \in wOverdue'
    BY <1>1 DEF LapseSeen
  <2>1. wHeld[m] \in Jobs /\ W!Owns(m)
    BY <1>0, <1>7 DEF FencesDiffer
  <2>2. CASE wHeld[m] = j
    BY <1>1, <2>1, <2>2 DEF W!Owns
  <2>3. CASE wHeld[m] # j
    BY <1>0, <1>1, <1>3, <2>1, <2>3 DEF LapseSeen
  <2>q. QED
    BY <2>2, <2>3
<1>9. StillOwned'
  BY <1>0, <1>1, <1>7 DEF StillOwned, Busy
<1>10. RunningIsHeld'
  BY <1>0, <1>1, <1>4 DEF RunningIsHeld
<1>11. StopDrained'
  BY <1>0, <1>1 DEF StopDrained, W!Drained
<1>q. QED
  BY <1>5, <1>6, <1>8, <1>9, <1>10, <1>11 DEF WorkerInv

(* Every step of the worker keeps the invariant. *)
LEMMA WorkerStep == ASSUME WorkerInv, [W!Next]_(W!vars) PROVE WorkerInv'
<1>1. ASSUME NEW l \in Loops, W!Idle(l) \/ W!HandlerReturns(l) \/ W!HandlerThrows(l) \/ W!Wake(l)
      PROVE  WorkerInv'
  <2>1. CASE W!Idle(l)
    BY <2>1, MovesKeeps DEF W!Idle, Busy, W!ghosts
  <2>2. CASE W!HandlerReturns(l)
    BY <2>2, MovesKeeps DEF W!HandlerReturns, Busy, W!ghosts
  <2>3. CASE W!HandlerThrows(l)
    BY <2>3, MovesKeeps DEF W!HandlerThrows, Busy, W!ghosts
  <2>4. CASE W!Wake(l)
    BY <2>4, MovesKeeps DEF W!Wake, W!NextPass, Busy, W!ghosts
  <2>q. QED
    BY <1>1, <2>1, <2>2, <2>3, <2>4
<1>2. ASSUME NEW l \in Loops, W!ClaimFaults(l) PROVE WorkerInv'
  <2>1. /\ wPc[l] = "claiming" /\ W!Goto(l, "sleeping")
        /\ UNCHANGED <<wRunning, wStop, wHeld, wToken, wSweeper, wOverdue>>
    BY <1>2 DEF W!ClaimFaults, W!Contained
  <2>2. CASE UNCHANGED <<wRow, wBroken>>
    BY <2>1, <2>2, MovesKeeps DEF Busy
  <2>3. CASE \E j \in Jobs : wRow[j].status = "ready" /\ W!Claimed(j) /\ wBroken' = wBroken \cup {j}
    BY <2>1, <2>3, LostClaimKeeps
  <2>q. QED
    BY <1>2, <2>2, <2>3 DEF W!ClaimFaults
<1>3. ASSUME NEW l \in Loops, W!Complete(l) \/ W!Fail(l) \/ W!FailFaults(l) PROVE WorkerInv'
  <2>1. /\ wPc[l] \in Busy /\ wBroken \subseteq wBroken' /\ UNCHANGED <<wRunning, wStop, wSweeper>>
        /\ \E place \in {"claiming", "sleeping", "ended"} : W!Leaves(l, place)
    BY <1>3 DEF W!Complete, W!Fail, W!FailFaults, W!NextPass, W!Contained, Busy
  <2>2. \E status \in {"ready", "done", "failed"} :
          W!Writes(l, status) \/ (UNCHANGED wRow /\ wHeld[l] \in wBroken')
    BY <1>3 DEF W!Complete, W!Fail, W!FailFaults, W!FailedAs
  <2>q. QED
    BY <2>1, <2>2, LeavesJobKeeps
<1>4. CASE W!SweepStep \/ W!SweepFaults
  <2>1. /\ wSweeper # "ended" /\ wRow' \in {wRow, W!Retired, W!Reclaimed}
        /\ UNCHANGED <<wRunning, wStop, W!loopVars, W!ghosts>>
    BY <1>4 DEF W!SweepStep, W!SweepWakes, W!Sweep, W!SweepFaults
  <2>2. UNCHANGED <<wRunning, wStop, wPc, wHeld, wToken, wBroken, wOverdue>>
    BY <2>1 DEF W!loopVars, W!ghosts
  <2>q. QED
    BY <2>1, <2>2, SweepKeeps
<1>5. CASE W!StopAsked \/ W!StopReturns \/ UNCHANGED W!vars
  <2>1. /\ UNCHANGED <<wPc, wHeld, wToken, wSweeper, wRow, wBroken, wOverdue>>
        /\ wRunning' \in {wRunning, FALSE}
        /\ wStop' = "returned" => wStop = "returned" \/ W!Drained
    BY <1>5 DEF W!StopAsked, W!StopReturns, W!vars, W!loopVars, W!ghosts
  <2>2. WorkerType'
    BY <2>1 DEF WorkerInv, WorkerType
  <2>3. FencesDiffer' /\ LapseSeen' /\ StillOwned'
    BY <2>1 DEF WorkerInv, FencesDiffer, LapseSeen, StillOwned, W!Owns
  <2>4. RunningIsHeld' /\ StopDrained'
    BY <2>1 DEF WorkerInv, RunningIsHeld, StopDrained, W!Drained
  <2>q. QED
    BY <2>2, <2>3, <2>4 DEF WorkerInv
<1>q. QED
  BY <1>1, <1>2, <1>3, <1>4, <1>5, ClaimKeeps, CompleteFaultsKeeps, LapseKeeps
     DEF W!Next, W!LoopStep

(* "done" is reported of a job that is done, or of a claim that is overdue. *)
LEMMA DoneStep ==
  ASSUME WorkerInv, [W!Next]_(W!vars), NEW l \in Loops, wPc[l] = "completing",
         wPc'[l] \notin {"completing", "failing"}
  PROVE  wRow'[wHeld[l]].status = "done" \/ l \in wOverdue
<1>1. WorkerType /\ FencesDiffer /\ StillOwned /\ wPc[l] \in Busy
  BY DEF WorkerInv, Busy
<1>2. ASSUME NEW m \in Loops, NEW place, wPc' = [wPc EXCEPT ![m] = place] PROVE m = l
  BY <1>1, <1>2 DEF WorkerType
<1>3. ASSUME NEW m \in Loops,
             W!LoopStep(m) \/ W!ClaimFaults(m) \/ W!CompleteFaults(m) \/ W!FailFaults(m)
      PROVE  W!Complete(l)
  <2>1. \E place : wPc' = [wPc EXCEPT ![m] = place]
    BY <1>3 DEF W!LoopStep, W!ClaimFaults, W!CompleteFaults, W!FailFaults, W!Claim, W!Idle,
       W!HandlerReturns,
       W!HandlerThrows, W!Wake, W!Complete, W!Fail, W!Leaves, W!GivesUp, W!Goto
  <2>2. m = l
    BY <1>2, <2>1
  <2>3. ~W!CompleteFaults(l)
    BY <1>1 DEF W!CompleteFaults, W!GivesUp, W!Goto, WorkerType
  <2>q. QED
    BY <1>3, <2>2, <2>3 DEF W!LoopStep, W!ClaimFaults, W!FailFaults, W!Claim, W!Idle,
       W!HandlerReturns,
       W!HandlerThrows, W!Wake, W!Fail
<1>4. CASE W!Complete(l)
  <2>1. W!Writes(l, "done")
    BY <1>4 DEF W!Complete
  <2>2. W!Owns(l) => wRow'[wHeld[l]].status = "done"
    BY <1>1, <2>1, WrittenRow
  <2>q. QED
    BY <1>1, <2>2 DEF StillOwned
<1>5. CASE W!SweepStep \/ W!SweepFaults \/ (\E j \in Jobs : W!Lapse(j)) \/ W!StopAsked \/ W!StopReturns
           \/ UNCHANGED W!vars
  <2>1. wPc' = wPc
    BY <1>5 DEF W!SweepStep, W!SweepWakes, W!Sweep, W!SweepFaults, W!Lapse, W!StopAsked,
       W!StopReturns, W!vars,
       W!loopVars
  <2>q. QED
    BY <2>1
<1>q. QED
  BY <1>3, <1>4, <1>5 DEF W!Next

(* Once stop() has returned nobody is left to write. *)
LEMMA StoppedStep ==
  ASSUME WorkerInv, [W!Next]_(W!vars), wStop = "returned", NEW j \in Jobs
  PROVE  wRow'[j].status = wRow[j].status
<1>1. WorkerType /\ (\A l \in Loops : wPc[l] = "ended") /\ wSweeper = "ended"
  BY DEF WorkerInv, StopDrained, W!Drained
<1>2. ASSUME NEW m \in Loops,
             W!LoopStep(m) \/ W!ClaimFaults(m) \/ W!CompleteFaults(m) \/ W!FailFaults(m)
      PROVE  FALSE
  BY <1>1, <1>2 DEF W!LoopStep, W!ClaimFaults, W!CompleteFaults, W!FailFaults, W!Claim, W!Idle,
     W!HandlerReturns,
     W!HandlerThrows, W!Wake, W!Complete, W!Fail
<1>3. ~(W!SweepStep \/ W!SweepFaults)
  BY <1>1 DEF W!SweepStep, W!SweepWakes, W!Sweep, W!SweepFaults
<1>4. ASSUME NEW i \in Jobs, W!Lapse(i) PROVE wRow'[j].status = wRow[j].status
  <2>1. wRow' = [wRow EXCEPT ![i] = [wRow[i] EXCEPT !.lapsed = TRUE]] /\ wRow \in [Jobs -> RowType]
    BY <1>1, <1>4 DEF W!Lapse, WorkerType
  <2>q. QED
    BY <2>1 DEF RowType
<1>5. CASE W!StopAsked \/ W!StopReturns \/ UNCHANGED W!vars
  BY <1>5 DEF W!StopAsked, W!StopReturns, W!vars
<1>q. QED
  BY <1>2, <1>3, <1>4, <1>5 DEF W!Next

(* The invariant holds in every reachable state. *)
LEMMA WorkerAlways == W!Spec => []WorkerInv
<1>1. W!Init => WorkerInv
  BY WorkerInit
<1>2. WorkerInv /\ [W!Next]_(W!vars) => WorkerInv'
  BY WorkerStep
<1>q. QED
  BY <1>1, <1>2, PTL DEF W!Spec

(* What a stopped worker leaves running is a claim about which a statement    *)
(* rejected, and once stop() has returned no row changes (queue.ts, work and  *)
(* its stop()).                                                               *)
THEOREM StopIsClean == W!Spec => StopsClean
<1>1. WorkerInv => W!NothingAbandoned
  BY DEF WorkerInv, RunningIsHeld, StopDrained, W!Drained, W!NothingAbandoned, Busy
<1>2. WorkerInv /\ WorkerInv' /\ [W!Next]_(W!vars)
      => [/\ W!NothingAbandoned'
          /\ wStop = "returned" => \A j \in Jobs : wRow'[j].status = wRow[j].status]_(W!vars)
  <2> SUFFICES ASSUME WorkerInv, WorkerInv', [W!Next]_(W!vars)
               PROVE  /\ W!NothingAbandoned'
                      /\ wStop = "returned" => \A j \in Jobs : wRow'[j].status = wRow[j].status
    OBVIOUS
  <2>1. W!NothingAbandoned'
    BY <1>1, PTL
  <2>2. wStop = "returned" => \A j \in Jobs : wRow'[j].status = wRow[j].status
    BY StoppedStep
  <2>q. QED
    BY <2>1, <2>2
<1>q. QED
  BY <1>2, WorkerAlways, PTL DEF W!Spec, W!StopsClean, StopsClean

(* The observer is told "done" only of a job that is done, unless the         *)
(* deadline of that very claim had passed (queue.ts, runOnce).                *)
THEOREM DoneIsReportedTruly == W!Spec => DoneReportsTrue
<1>1. WorkerInv /\ [W!Next]_(W!vars)
      => [\A l \in Loops :
            wPc[l] = "completing" /\ wPc'[l] \notin {"completing", "failing"} =>
              wRow'[wHeld[l]].status = "done" \/ l \in wOverdue]_(W!vars)
  BY DoneStep
<1>q. QED
  BY <1>1, WorkerAlways, PTL DEF W!Spec, W!DoneReportsTrue, DoneReportsTrue

-----------------------------------------------------------------------------
(* The replication source *)

Calling == {"connect", "identify", "createSlot", "start"}

Places == Calling \cup {"idle", "abortDrop", "abortEnd", "endClient", "delay"}
SessionType == [pc : Places, client : P!Numbers \cup {P!NoClient}]

SourceType ==
  /\ pClient \in P!Numbers \cup {P!NoClient}
  /\ pConns \in [P!Numbers -> {"none", "open", "streaming", "broken", "ended"}]
  /\ pRun \in [P!Numbers -> SessionType]
  /\ pSlot \in BOOLEAN /\ pUnheard \in BOOLEAN
  /\ pStarted \in BOOLEAN /\ pStopped \in BOOLEAN /\ pSlotCreated \in BOOLEAN
  /\ pConnected \in BOOLEAN /\ pReconnecting \in BOOLEAN
  /\ pStop \in {"no", "drop", "done"}

(* One session at a time: start()'s until the source is connected, then one   *)
(* of #reconnect, which its guard announces.  Only start() creates a slot.    *)
OneSession ==
  /\ (pConnected \/ pReconnecting) => pStarted
  /\ \A s \in P!Numbers : pRun[s].pc # "idle" =>
       pStarted /\ (pConnected <=> s # 1) /\ (pReconnecting <=> s # 1)
  /\ \A s, t \in P!Numbers : pRun[s].pc # "idle" /\ pRun[t].pc # "idle" => s = t
  /\ \A s \in P!Numbers : /\ pRun[s].pc \in {"createSlot", "abortDrop"} => s = 1
                          /\ pRun[s].pc \in Calling => pRun[s].client \in P!Numbers

(* The client the source knows is the only one that is open, and none is      *)
(* when a session backs off or stop() was called.                             *)
OneClient ==
  \A c \in P!Numbers : pConns[c] \in {"open", "streaming"} =>
    c = pClient /\ pStarted /\ ~pStopped /\ \A s \in P!Numbers : pRun[s].pc # "delay"

(* A slot is one that stop() will drop, or the session that created it. *)
SlotIsKnown ==
  /\ (pStopped <=> pStop # "no")
  /\ pStarted /\ pStop # "done" => pClient # P!NoClient
  /\ pSlotCreated => pStarted
  /\ pSlot /\ ~pUnheard => \/ pSlotCreated /\ pStop # "done"
                           \/ pRun[1].pc = "abortDrop"

SourceInv == SourceType /\ OneSession /\ OneClient /\ SlotIsKnown

(* Before start() there is neither a client nor a slot. *)
LEMMA SourceInit == ASSUME P!FaultsAssumption PROVE P!Init => SourceInv
<1> SUFFICES ASSUME P!Init PROVE SourceInv
  OBVIOUS
<1>1. /\ pSlot \in BOOLEAN /\ pUnheard \in BOOLEAN /\ pStarted \in BOOLEAN /\ pStopped \in BOOLEAN
      /\ pSlotCreated \in BOOLEAN /\ pConnected \in BOOLEAN /\ pReconnecting \in BOOLEAN
  BY DEF P!Init
<1>2. SourceType
  BY <1>1 DEF P!Init, SourceType, SessionType, Places, P!Idle
<1>3. OneSession /\ OneClient /\ SlotIsKnown
  BY DEF P!Init, OneSession, OneClient, SlotIsKnown, P!Idle, Calling
<1>q. QED
  BY <1>2, <1>3 DEF SourceInv

(* A session goes on: the others stay as they are. *)
LEMMA RunGoes ==
  ASSUME SourceType, NEW s \in P!Numbers, NEW next \in SessionType, pRun' = [pRun EXCEPT ![s] = next]
  PROVE  /\ pRun' \in [P!Numbers -> SessionType] /\ pRun'[s] = next
         /\ \A t \in P!Numbers \ {s} : pRun'[t] = pRun[t]
BY DEF SourceType

(* A session that ended holds no client. *)
LEMMA IdleIsSession == P!Idle \in SessionType /\ P!Idle.pc = "idle"
BY DEF P!Idle, SessionType, Places

(* The same, where only the await changes. *)
LEMMA GoesTo ==
  ASSUME SourceType, NEW s \in P!Numbers, NEW goal \in Places, P!Goes(s, goal)
  PROVE  /\ pRun' \in [P!Numbers -> SessionType] /\ pRun'[s].pc = goal /\ pRun'[s].client = pRun[s].client
         /\ \A t \in P!Numbers \ {s} : pRun'[t] = pRun[t]
<1>1. pRun \in [P!Numbers -> SessionType]
  BY DEF SourceType
<1>2. pRun' = [pRun EXCEPT ![s] = [pRun[s] EXCEPT !.pc = goal]]
  BY <1>1 DEF P!Goes
<1>3. /\ [pRun[s] EXCEPT !.pc = goal] \in SessionType
      /\ [pRun[s] EXCEPT !.pc = goal].pc = goal /\ [pRun[s] EXCEPT !.pc = goal].client = pRun[s].client
  BY <1>1 DEF SessionType
<1>q. QED
  BY <1>1, <1>2, <1>3

(* A client is ended, or lost. *)
LEMMA ConnsAfter ==
  ASSUME SourceType, NEW c \in P!Numbers, NEW next \in {"open", "streaming", "broken", "ended"},
         pConns' = [pConns EXCEPT ![c] = next]
  PROVE  /\ pConns' \in [P!Numbers -> {"none", "open", "streaming", "broken", "ended"}]
         /\ pConns'[c] = next /\ \A d \in P!Numbers \ {c} : pConns'[d] = pConns[d]
BY DEF SourceType

(* client.end() on the client a session or the source knows. *)
LEMMA EndedConns ==
  ASSUME SourceType, NEW c \in P!Numbers \cup {P!NoClient}, pConns' = P!Ended(c)
  PROVE  /\ pConns' \in [P!Numbers -> {"none", "open", "streaming", "broken", "ended"}]
         /\ c \in P!Numbers => pConns'[c] = "ended"
         /\ \A d \in P!Numbers \ {c} : pConns'[d] = pConns[d]
BY DEF SourceType, P!Ended, P!NoClient, P!Numbers

(* start() and the end of a delay open a fresh client, and no other is open. *)
LEMMA StartKeeps == ASSUME P!FaultsAssumption, SourceInv, P!Start PROVE SourceInv'
<1>0. SourceType /\ OneSession /\ OneClient /\ SlotIsKnown
  BY DEF SourceInv
<1>1. /\ ~pStopped /\ ~pStarted /\ pStarted' = TRUE
      /\ UNCHANGED <<pSlot, pStopped, pSlotCreated, pConnected, pReconnecting, pStop, pUnheard>>
  BY DEF P!Start
<1>2. 1 \in P!Numbers
  BY DEF P!FaultsAssumption, P!Numbers
<1>3. PICK c \in P!Numbers : /\ pClient' = c /\ pConns' = [pConns EXCEPT ![c] = "open"]
                             /\ pRun' = [pRun EXCEPT ![1] = [pc |-> "connect", client |-> c]]
  BY DEF P!Start, P!OpensClient
<1>4. /\ pRun' \in [P!Numbers -> SessionType] /\ pRun'[1] = [pc |-> "connect", client |-> c]
      /\ \A t \in P!Numbers \ {1} : pRun'[t] = pRun[t]
  <2>1. [pc |-> "connect", client |-> c] \in SessionType
    BY DEF SessionType, Places, Calling
  <2>q. QED
    BY <1>0, <1>2, <1>3, <2>1, RunGoes
<1>5. /\ pConns' \in [P!Numbers -> {"none", "open", "streaming", "broken", "ended"}]
      /\ pConns'[c] = "open" /\ \A d \in P!Numbers \ {c} : pConns'[d] = pConns[d]
  BY <1>0, <1>3, ConnsAfter
<1>6. \A t \in P!Numbers : pRun[t].pc = "idle"
  BY <1>0, <1>1 DEF OneSession
<1>7. pRun'[1].pc = "connect" /\ pRun'[1].client = c /\ \A t \in P!Numbers \ {1} : pRun'[t].pc = "idle"
  BY <1>4, <1>6
<1>8. SourceType'
  <2>1. pStarted' \in BOOLEAN
    BY <1>1
  <2>2. pClient' \in P!Numbers \cup {P!NoClient}
    BY <1>3
  <2>q. QED
    BY <1>0, <1>1, <1>4, <1>5, <2>1, <2>2 DEF SourceType
<1>9. OneSession'
  <2>1. ~pConnected /\ ~pReconnecting'
    BY <1>0, <1>1 DEF OneSession, SourceType
  <2>q. QED
    BY <1>1, <1>7, <2>1 DEF OneSession, Calling
<1>10. OneClient'
  <2>1. \A d \in P!Numbers \ {c} : pConns'[d] \notin {"open", "streaming"}
    BY <1>0, <1>1, <1>5 DEF OneClient
  <2>q. QED
    BY <1>1, <1>3, <1>7, <2>1 DEF OneClient
<1>11. SlotIsKnown'
  BY <1>0, <1>1, <1>2, <1>3, <1>6 DEF SlotIsKnown, P!NoClient, P!Numbers
<1>q. QED
  BY <1>8, <1>9, <1>10, <1>11 DEF SourceInv

(* The session that runs goes on. *)
LEMMA SessionMoves ==
  ASSUME P!FaultsAssumption, SourceType, OneSession, NEW s \in P!Numbers, pRun[s].pc # "idle",
         UNCHANGED <<pStarted, pConnected, pReconnecting>>,
         \A t \in P!Numbers \ {s} : pRun'[t] = pRun[t],
         pRun'[s].pc \in {"createSlot", "abortDrop"} => s = 1,
         pRun'[s].pc \in Calling => pRun'[s].client \in P!Numbers
  PROVE  OneSession'
<1>1. \A t \in P!Numbers \ {s} : pRun'[t].pc = "idle"
  BY DEF OneSession
<1>2. /\ pStarted' /\ (pConnected' <=> s # 1) /\ (pReconnecting' <=> s # 1)
  BY DEF OneSession
<1>3. \A t \in P!Numbers : pRun'[t].pc # "idle" => t = s
  BY <1>1
<1>4. \A t \in P!Numbers : /\ pRun'[t].pc \in {"createSlot", "abortDrop"} => t = 1
                           /\ pRun'[t].pc \in Calling => pRun'[t].client \in P!Numbers
  BY <1>1 DEF Calling
<1>q. QED
  BY <1>2, <1>3, <1>4 DEF OneSession

(* The session that runs ends. *)
LEMMA SessionEnds ==
  ASSUME P!FaultsAssumption, SourceType, OneSession, NEW s \in P!Numbers, pRun[s].pc # "idle",
         UNCHANGED pStarted, \A t \in P!Numbers \ {s} : pRun'[t] = pRun[t], pRun'[s].pc = "idle"
  PROVE  OneSession' /\ \A t \in P!Numbers : pRun'[t].pc = "idle"
<1>1. \A t \in P!Numbers : pRun'[t].pc = "idle"
  BY DEF OneSession
<1>2. pStarted'
  BY DEF OneSession
<1>q. QED
  BY <1>1, <1>2 DEF OneSession, Calling

(* A call that returns while the session still runs. *)
LEMMA AnsweredKeeps ==
  ASSUME P!FaultsAssumption, SourceInv, NEW s \in P!Numbers, P!Opening(s) PROVE SourceInv'
<1>0. SourceType /\ OneSession /\ OneClient /\ SlotIsKnown
  BY DEF SourceInv
<1>1. PICK next \in Places : /\ next \in {"createSlot", "abortDrop"} => s = 1
                             /\ next \in Calling \cup {"abortEnd"}
                             /\ pRun[s].pc \in {"connect", "identify"}
                             /\ P!Goes(s, next)
                             /\ UNCHANGED <<pClient, pConns, pSlot, P!flags, pStop, pUnheard>>
  <2>1. CASE P!Answered(s, "connect", "identify")
    BY <2>1 DEF P!Answered, P!Awaits, Places, Calling
  <2>2. CASE P!Answered(s, "identify", IF P!Reconnects(s) THEN "start" ELSE "createSlot")
    BY <2>2 DEF P!Answered, P!Awaits, Places, Calling, P!Reconnects
  <2>q. QED
    BY <2>1, <2>2 DEF P!Opening
<1>2. /\ pRun' \in [P!Numbers -> SessionType] /\ pRun'[s].pc = next /\ pRun'[s].client = pRun[s].client
      /\ \A t \in P!Numbers \ {s} : pRun'[t] = pRun[t]
  BY <1>0, <1>1, GoesTo
<1>3. UNCHANGED <<pStarted, pStopped, pSlotCreated, pConnected, pReconnecting>>
  BY <1>1 DEF P!flags
<1>4. SourceType'
  BY <1>0, <1>1, <1>2, <1>3 DEF SourceType
<1>5. OneSession'
  <2>1. pRun[s].client \in P!Numbers
    BY <1>0, <1>1 DEF OneSession, Calling
  <2>q. QED
    BY <1>0, <1>1, <1>2, <1>3, <2>1, SessionMoves
<1>6. OneClient'
  BY <1>0, <1>1, <1>2, <1>3 DEF OneClient, Calling
<1>7. SlotIsKnown'
  <2>1. pRun[1].pc = "abortDrop" => pRun'[1].pc = "abortDrop"
    BY <1>0, <1>1, <1>2 DEF P!FaultsAssumption, P!Numbers
  <2>q. QED
    BY <1>0, <1>1, <1>3, <2>1 DEF SlotIsKnown
<1>q. QED
  BY <1>4, <1>5, <1>6, <1>7 DEF SourceInv

(* The slot is created. *)
LEMMA SlotCreatedKeeps ==
  ASSUME P!FaultsAssumption, SourceInv, NEW s \in P!Numbers, P!SlotCreated(s) PROVE SourceInv'
<1>0. SourceType /\ OneSession /\ OneClient /\ SlotIsKnown
  BY DEF SourceInv
<1> DEFINE next == IF pStopped THEN "abortDrop" ELSE "start"
<1>1. /\ pRun[s].pc = "createSlot" /\ pSlot' = TRUE /\ pSlotCreated' = TRUE /\ P!Goes(s, next)
      /\ UNCHANGED <<pClient, pConns, pStarted, pStopped, pConnected, pReconnecting, pStop, pUnheard>>
  BY DEF P!SlotCreated, P!Awaits, P!AbortedCreate
<1>2. next \in Places
  BY DEF Places, Calling
<1>3. /\ pRun' \in [P!Numbers -> SessionType] /\ pRun'[s].pc = next /\ pRun'[s].client = pRun[s].client
      /\ \A t \in P!Numbers \ {s} : pRun'[t] = pRun[t]
  BY <1>0, <1>1, <1>2, GoesTo
<1>4. s = 1 /\ pStarted /\ pRun[s].client \in P!Numbers
  BY <1>0, <1>1 DEF OneSession, Calling
<1>5. SourceType'
  <2>1. pSlot' \in BOOLEAN /\ pSlotCreated' \in BOOLEAN
    BY <1>1
  <2>q. QED
    BY <1>0, <1>1, <1>3, <2>1 DEF SourceType
<1>6. OneSession'
  BY <1>0, <1>1, <1>3, <1>4, SessionMoves
<1>7. OneClient'
  BY <1>0, <1>1, <1>3 DEF OneClient
<1>8. SlotIsKnown'
  BY <1>0, <1>1, <1>3, <1>4 DEF SlotIsKnown
<1>q. QED
  BY <1>5, <1>6, <1>7, <1>8 DEF SourceInv

(* The stream starts, on the client the source knows. *)
LEMMA StreamsKeeps ==
  ASSUME P!FaultsAssumption, SourceInv, NEW s \in P!Numbers, P!Streams(s) PROVE SourceInv'
<1>0. SourceType /\ OneSession /\ OneClient /\ SlotIsKnown
  BY DEF SourceInv
<1>1. /\ pRun[s].pc = "start" /\ pConns[pRun[s].client] = "open"
      /\ pConns' = [pConns EXCEPT ![pRun[s].client] = "streaming"]
      /\ pConnected' = TRUE /\ pRun' = [pRun EXCEPT ![s] = P!Idle]
      /\ pReconnecting' = IF s # 1 THEN FALSE ELSE pReconnecting
      /\ UNCHANGED <<pClient, pSlot, pStarted, pStopped, pSlotCreated, pStop, pUnheard>>
  BY DEF P!Streams, P!Awaits, P!Finishes, P!Reconnects
<1>2. pRun[s].client \in P!Numbers
  BY <1>0, <1>1 DEF OneSession, Calling
<1>3. /\ pRun' \in [P!Numbers -> SessionType] /\ pRun'[s].pc = "idle"
      /\ \A t \in P!Numbers \ {s} : pRun'[t] = pRun[t]
  BY <1>0, <1>1, RunGoes, IdleIsSession
<1>4. /\ pConns' \in [P!Numbers -> {"none", "open", "streaming", "broken", "ended"}]
      /\ \A d \in P!Numbers \ {pRun[s].client} : pConns'[d] = pConns[d]
  BY <1>0, <1>1, <1>2, ConnsAfter
<1>5. OneSession' /\ \A t \in P!Numbers : pRun'[t].pc = "idle"
  BY <1>0, <1>1, <1>3, SessionEnds
<1>6. SourceType'
  <2>1. pConnected' \in BOOLEAN /\ pReconnecting' \in BOOLEAN
    BY <1>0, <1>1 DEF SourceType
  <2>q. QED
    BY <1>0, <1>1, <1>3, <1>4, <2>1 DEF SourceType
<1>7. OneClient'
  BY <1>0, <1>1, <1>2, <1>4, <1>5 DEF OneClient
<1>8. SlotIsKnown'
  <2>1. pRun[1].pc # "abortDrop"
    BY <1>0, <1>1 DEF OneSession, P!FaultsAssumption, P!Numbers
  <2>q. QED
    BY <1>0, <1>1, <2>1 DEF SlotIsKnown
<1>q. QED
  BY <1>5, <1>6, <1>7, <1>8 DEF SourceInv

(* A call fails: its client is broken at the latest now. *)
LEMMA CallFailsKeeps ==
  ASSUME P!FaultsAssumption, SourceInv, NEW s \in P!Numbers, P!CallFails(s) PROVE SourceInv'
<1>0. SourceType /\ OneSession /\ OneClient /\ SlotIsKnown
  BY DEF SourceInv
<1> DEFINE next == IF s # 1 THEN [pRun[s] EXCEPT !.pc = "endClient"] ELSE P!Idle
<1>1. /\ pRun[s].pc \in Calling
      /\ \/ pConns' = [pConns EXCEPT ![pRun[s].client] = "broken"]
         \/ UNCHANGED pConns
      /\ UNCHANGED <<pSlot, pUnheard>> \/ (pSlot' = TRUE /\ pUnheard' = TRUE)
      /\ UNCHANGED <<pClient, pStop, pStarted, pStopped, pSlotCreated, pConnected, pReconnecting>>
  BY DEF P!CallFails, Calling, P!flags
<1>2. pRun' = [pRun EXCEPT ![s] = next]
  BY <1>0 DEF P!CallFails, P!Reconnects, SourceType
<1>3. pRun[s].client \in P!Numbers
  BY <1>0, <1>1 DEF OneSession
<1>4. next \in SessionType /\ next.pc = IF s # 1 THEN "endClient" ELSE "idle"
  <2>1. pRun[s] \in SessionType
    BY <1>0 DEF SourceType
  <2>q. QED
    BY <2>1 DEF SessionType, Places, P!Idle
<1> HIDE DEF next
<1>5. /\ pRun' \in [P!Numbers -> SessionType] /\ pRun'[s] = next
      /\ \A t \in P!Numbers \ {s} : pRun'[t] = pRun[t]
  BY <1>0, <1>2, <1>4, RunGoes
<1>6. /\ pConns' \in [P!Numbers -> {"none", "open", "streaming", "broken", "ended"}]
      /\ \A c \in P!Numbers : pConns'[c] \in {pConns[c], "broken"}
  BY <1>0, <1>1, <1>3, ConnsAfter DEF SourceType
<1>7. SourceType'
  <2>1. pSlot' \in BOOLEAN /\ pUnheard' \in BOOLEAN
    BY <1>0, <1>1 DEF SourceType
  <2>q. QED
    BY <1>0, <1>1, <1>5, <1>6, <2>1 DEF SourceType
<1>8. OneSession'
  <2>1. pRun[s].pc # "idle"
    BY <1>1 DEF Calling
  <2>2. CASE s = 1
    BY <1>0, <1>1, <1>4, <1>5, <2>1, <2>2, SessionEnds
  <2>3. CASE s # 1
    BY <1>0, <1>1, <1>4, <1>5, <2>1, <2>3, SessionMoves DEF Calling
  <2>q. QED
    BY <2>2, <2>3
<1>9. OneClient'
  BY <1>0, <1>1, <1>4, <1>5, <1>6 DEF OneClient
<1>10. SlotIsKnown'
  <2>1. pRun[1].pc = "abortDrop" => pRun'[1].pc = "abortDrop"
    BY <1>0, <1>1, <1>5 DEF P!FaultsAssumption, P!Numbers, Calling
  <2>q. QED
    BY <1>0, <1>1, <2>1 DEF SlotIsKnown
<1>q. QED
  BY <1>7, <1>8, <1>9, <1>10 DEF SourceInv

(* The session that stop() overtook drops the slot it created. *)
LEMMA AbortDropsKeeps ==
  ASSUME P!FaultsAssumption, SourceInv, NEW s \in P!Numbers, P!AbortDrops(s) PROVE SourceInv'
<1>0. SourceType /\ OneSession /\ OneClient /\ SlotIsKnown
  BY DEF SourceInv
<1>1. /\ pRun[s].pc = "abortDrop" /\ P!Goes(s, "abortEnd")
      /\ (pSlot' = FALSE /\ UNCHANGED pUnheard) \/ (pUnheard' = TRUE /\ UNCHANGED pSlot)
      /\ UNCHANGED <<pClient, pConns, pStop, pStarted, pStopped, pSlotCreated, pConnected, pReconnecting>>
  BY DEF P!AbortDrops, P!Awaits, P!flags
<1>2. /\ pRun' \in [P!Numbers -> SessionType] /\ pRun'[s].pc = "abortEnd"
      /\ \A t \in P!Numbers \ {s} : pRun'[t] = pRun[t]
  <2>1. "abortEnd" \in Places
    BY DEF Places
  <2>q. QED
    BY <1>0, <1>1, <2>1, GoesTo
<1>3. SourceType'
  <2>1. pSlot' \in BOOLEAN /\ pUnheard' \in BOOLEAN
    BY <1>0, <1>1 DEF SourceType
  <2>q. QED
    BY <1>0, <1>1, <1>2, <2>1 DEF SourceType
<1>4. OneSession'
  BY <1>0, <1>1, <1>2, SessionMoves DEF Calling
<1>5. OneClient'
  BY <1>0, <1>1, <1>2 DEF OneClient
<1>6. SlotIsKnown'
  BY <1>0, <1>1 DEF SlotIsKnown, SourceType
<1>q. QED
  BY <1>3, <1>4, <1>5, <1>6 DEF SourceInv

(* The session that stop() overtook ends its client. *)
LEMMA AbortEndsKeeps ==
  ASSUME P!FaultsAssumption, SourceInv, NEW s \in P!Numbers, P!AbortEnds(s) PROVE SourceInv'
<1>0. SourceType /\ OneSession /\ OneClient /\ SlotIsKnown
  BY DEF SourceInv
<1>1. /\ pRun[s].pc = "abortEnd" /\ pConns' = P!Ended(pRun[s].client)
      /\ pRun' = [pRun EXCEPT ![s] = P!Idle]
      /\ pReconnecting' = IF s # 1 THEN FALSE ELSE pReconnecting
      /\ UNCHANGED <<pClient, pSlot, pStarted, pStopped, pSlotCreated, pConnected, pStop, pUnheard>>
  BY DEF P!AbortEnds, P!Awaits, P!Finishes, P!Reconnects
<1>2. pRun[s].client \in P!Numbers \cup {P!NoClient}
  BY <1>0 DEF SourceType, SessionType
<1>3. /\ pRun' \in [P!Numbers -> SessionType] /\ pRun'[s].pc = "idle"
      /\ \A t \in P!Numbers \ {s} : pRun'[t] = pRun[t]
  BY <1>0, <1>1, RunGoes, IdleIsSession
<1>4. /\ pConns' \in [P!Numbers -> {"none", "open", "streaming", "broken", "ended"}]
      /\ \A d \in P!Numbers : pConns'[d] \in {pConns[d], "ended"}
  BY <1>0, <1>1, <1>2, EndedConns
<1>5. OneSession' /\ \A t \in P!Numbers : pRun'[t].pc = "idle"
  BY <1>0, <1>1, <1>3, SessionEnds
<1>6. SourceType'
  <2>1. pReconnecting' \in BOOLEAN
    BY <1>0, <1>1 DEF SourceType
  <2>q. QED
    BY <1>0, <1>1, <1>3, <1>4, <2>1 DEF SourceType
<1>7. OneClient'
  BY <1>0, <1>1, <1>4, <1>5 DEF OneClient
<1>8. SlotIsKnown'
  <2>1. pRun[1].pc # "abortDrop"
    BY <1>0, <1>1 DEF OneSession, P!FaultsAssumption, P!Numbers
  <2>q. QED
    BY <1>0, <1>1, <2>1 DEF SlotIsKnown
<1>q. QED
  BY <1>5, <1>6, <1>7, <1>8 DEF SourceInv

(* An error starts a session only when none runs. *)
LEMMA ClientErrorKeeps ==
  ASSUME P!FaultsAssumption, SourceInv, P!ClientError PROVE SourceInv'
<1>0. SourceType /\ OneSession /\ OneClient /\ SlotIsKnown
  BY DEF SourceInv
<1>1. UNCHANGED <<pClient, pSlot, pStarted, pStopped, pSlotCreated, pConnected, pStop, pUnheard>>
  BY DEF P!ClientError
<1>2. PICK c \in P!Numbers : pConns' = [pConns EXCEPT ![c] = "broken"] \/ UNCHANGED pConns
  BY DEF P!ClientError
<1>3. /\ pConns' \in [P!Numbers -> {"none", "open", "streaming", "broken", "ended"}]
      /\ \A d \in P!Numbers : pConns'[d] \in {pConns[d], "broken"}
  BY <1>0, <1>2, ConnsAfter DEF SourceType
<1>4. CASE P!MayReconnect
  <2>1. /\ pConnected /\ ~pReconnecting /\ ~pStopped /\ pReconnecting' = TRUE
    BY <1>4 DEF P!ClientError, P!MayReconnect
  <2>2. PICK s \in P!Numbers \ {1} :
          pRun' = [pRun EXCEPT ![s] = [pc |-> "endClient", client |-> P!NoClient]]
    BY <1>4 DEF P!ClientError
  <2>3. [pc |-> "endClient", client |-> P!NoClient] \in SessionType
    BY DEF SessionType, Places
  <2>4. /\ pRun' \in [P!Numbers -> SessionType] /\ pRun'[s].pc = "endClient"
        /\ \A t \in P!Numbers \ {s} : pRun'[t] = pRun[t]
    BY <1>0, <2>2, <2>3, RunGoes
  <2>5. \A t \in P!Numbers : pRun[t].pc = "idle"
    BY <1>0, <2>1 DEF OneSession
  <2>6. pStarted
    BY <1>0, <2>1 DEF OneSession
  <2>7. SourceType'
    <3>1. pReconnecting' \in BOOLEAN
      BY <2>1
    <3>q. QED
      BY <1>0, <1>1, <1>3, <2>4, <3>1 DEF SourceType
  <2>8. OneSession'
    <3>1. \A t \in P!Numbers \ {s} : pRun'[t].pc = "idle"
      BY <2>4, <2>5
    <3>q. QED
      BY <1>1, <2>1, <2>2, <2>4, <2>6, <3>1 DEF OneSession, Calling
  <2>9. OneClient'
    BY <1>0, <1>1, <1>3, <2>4, <2>5 DEF OneClient
  <2>10. SlotIsKnown'
    <3>1. pRun[1].pc # "abortDrop"
      BY <2>5 DEF P!FaultsAssumption, P!Numbers
    <3>q. QED
      BY <1>0, <1>1, <3>1 DEF SlotIsKnown
  <2>q. QED
    BY <2>7, <2>8, <2>9, <2>10 DEF SourceInv
<1>5. CASE ~P!MayReconnect
  <2>1. UNCHANGED <<pReconnecting, pRun>>
    BY <1>5 DEF P!ClientError
  <2>2. SourceType' /\ OneSession' /\ SlotIsKnown'
    BY <1>0, <1>1, <1>3, <2>1 DEF SourceType, OneSession, SlotIsKnown
  <2>3. OneClient'
    BY <1>0, <1>1, <1>3, <2>1 DEF OneClient
  <2>q. QED
    BY <2>2, <2>3 DEF SourceInv
<1>q. QED
  BY <1>4, <1>5

(* A session that backs off has ended the client first. *)
LEMMA EndsClientKeeps ==
  ASSUME P!FaultsAssumption, SourceInv, NEW s \in P!Numbers, P!EndsClient(s) PROVE SourceInv'
<1>0. SourceType /\ OneSession /\ OneClient /\ SlotIsKnown
  BY DEF SourceInv
<1>1. /\ pRun[s].pc = "endClient" /\ pConns' = P!Ended(pClient) /\ P!Goes(s, "delay")
      /\ UNCHANGED <<pClient, pSlot, pStarted, pStopped, pSlotCreated, pConnected, pReconnecting>>
      /\ UNCHANGED <<pStop, pUnheard>>
  BY DEF P!EndsClient, P!Awaits, P!flags
<1>2. /\ pRun' \in [P!Numbers -> SessionType] /\ pRun'[s].pc = "delay"
      /\ \A t \in P!Numbers \ {s} : pRun'[t] = pRun[t]
  <2>1. "delay" \in Places
    BY DEF Places
  <2>q. QED
    BY <1>0, <1>1, <2>1, GoesTo
<1>3. pClient \in P!Numbers \cup {P!NoClient}
  BY <1>0 DEF SourceType
<1>4. /\ pConns' \in [P!Numbers -> {"none", "open", "streaming", "broken", "ended"}]
      /\ pClient \in P!Numbers => pConns'[pClient] = "ended"
      /\ \A d \in P!Numbers \ {pClient} : pConns'[d] = pConns[d]
  BY <1>0, <1>1, <1>3, EndedConns
<1>5. SourceType'
  BY <1>0, <1>1, <1>2, <1>4 DEF SourceType
<1>6. OneSession'
  BY <1>0, <1>1, <1>2, SessionMoves DEF Calling
<1>7. OneClient'
  <2>1. \A d \in P!Numbers : pConns'[d] \notin {"open", "streaming"}
    BY <1>0, <1>4 DEF OneClient
  <2>q. QED
    BY <2>1 DEF OneClient
<1>8. SlotIsKnown'
  <2>1. pRun[1].pc = "abortDrop" => pRun'[1].pc = "abortDrop"
    BY <1>0, <1>1, <1>2 DEF P!FaultsAssumption, P!Numbers
  <2>q. QED
    BY <1>0, <1>1, <2>1 DEF SlotIsKnown
<1>q. QED
  BY <1>5, <1>6, <1>7, <1>8 DEF SourceInv

(* The delay is over: the loop opens a fresh client, or ends. *)
LEMMA DelayOverKeeps ==
  ASSUME P!FaultsAssumption, SourceInv, NEW s \in P!Numbers, P!DelayOver(s) PROVE SourceInv'
<1>0. SourceType /\ OneSession /\ OneClient /\ SlotIsKnown
  BY DEF SourceInv
<1>1. /\ pRun[s].pc = "delay"
      /\ UNCHANGED <<pSlot, pStarted, pStopped, pSlotCreated, pConnected, pStop, pUnheard>>
  BY DEF P!DelayOver, P!Awaits
<1>2. pRun[1].pc # "abortDrop"
  BY <1>0, <1>1 DEF OneSession, P!FaultsAssumption, P!Numbers
<1>3. CASE pStopped
  <2>1. /\ pRun' = [pRun EXCEPT ![s] = P!Idle] /\ UNCHANGED <<pClient, pConns>>
        /\ pReconnecting' = IF s # 1 THEN FALSE ELSE pReconnecting
    BY <1>3 DEF P!DelayOver, P!Finishes, P!Reconnects
  <2>2. /\ pRun' \in [P!Numbers -> SessionType] /\ pRun'[s].pc = "idle"
        /\ \A t \in P!Numbers \ {s} : pRun'[t] = pRun[t]
    BY <1>0, <2>1, RunGoes, IdleIsSession
  <2>3. OneSession' /\ \A t \in P!Numbers : pRun'[t].pc = "idle"
    BY <1>0, <1>1, <2>2, SessionEnds
  <2>4. SourceType'
    <3>1. pReconnecting' \in BOOLEAN
      BY <1>0, <2>1 DEF SourceType
    <3>q. QED
      BY <1>0, <1>1, <2>1, <2>2, <3>1 DEF SourceType
  <2>5. OneClient'
    BY <1>0, <1>1, <2>1, <2>3 DEF OneClient
  <2>6. SlotIsKnown'
    BY <1>0, <1>1, <1>2, <2>1 DEF SlotIsKnown
  <2>q. QED
    BY <2>3, <2>4, <2>5, <2>6 DEF SourceInv
<1>4. CASE ~pStopped
  <2>1. PICK c \in P!Numbers : /\ pClient' = c /\ pConns' = [pConns EXCEPT ![c] = "open"]
                               /\ pRun' = [pRun EXCEPT ![s] = [pc |-> "connect", client |-> c]]
    BY <1>4 DEF P!DelayOver, P!OpensClient
  <2>2. UNCHANGED pReconnecting
    BY <1>4 DEF P!DelayOver
  <2>3. /\ pRun' \in [P!Numbers -> SessionType] /\ pRun'[s].pc = "connect" /\ pRun'[s].client = c
        /\ \A t \in P!Numbers \ {s} : pRun'[t] = pRun[t]
    <3>1. [pc |-> "connect", client |-> c] \in SessionType
      BY DEF SessionType, Places, Calling
    <3>q. QED
      BY <1>0, <2>1, <3>1, RunGoes
  <2>4. /\ pConns' \in [P!Numbers -> {"none", "open", "streaming", "broken", "ended"}]
        /\ pConns'[c] = "open" /\ \A d \in P!Numbers \ {c} : pConns'[d] = pConns[d]
    BY <1>0, <2>1, ConnsAfter
  <2>5. SourceType'
    <3>1. pClient' \in P!Numbers \cup {P!NoClient}
      BY <2>1
    <3>q. QED
      BY <1>0, <1>1, <2>2, <2>3, <2>4, <3>1 DEF SourceType
  <2>6. OneSession'
    BY <1>0, <1>1, <2>2, <2>3, SessionMoves
  <2>7. OneClient'
    <3>1. \A d \in P!Numbers \ {c} : pConns'[d] \notin {"open", "streaming"}
      BY <1>0, <1>1, <2>4 DEF OneClient
    <3>2. pStarted /\ \A t \in P!Numbers : pRun'[t].pc # "delay"
      BY <1>0, <1>1, <2>3 DEF OneSession
    <3>q. QED
      BY <1>1, <1>4, <2>1, <3>1, <3>2 DEF OneClient
  <2>8. SlotIsKnown'
    BY <1>0, <1>1, <1>2, <2>1 DEF SlotIsKnown, P!NoClient, P!Numbers
  <2>q. QED
    BY <2>5, <2>6, <2>7, <2>8 DEF SourceInv
<1>q. QED
  BY <1>3, <1>4

(* stop(): the client is ended, then the slot dropped. *)
LEMMA StopKeeps == ASSUME P!FaultsAssumption, SourceInv, P!Stop PROVE SourceInv'
<1>0. SourceType /\ OneSession /\ OneClient /\ SlotIsKnown
  BY DEF SourceInv
<1>1. /\ ~pStopped /\ pStopped' = TRUE /\ pConns' = P!Ended(pClient) /\ pStop' = "drop"
      /\ UNCHANGED <<pClient, pSlot, pStarted, pSlotCreated, pConnected, pReconnecting, pRun, pUnheard>>
  BY DEF P!Stop
<1>2. pClient \in P!Numbers \cup {P!NoClient}
  BY <1>0 DEF SourceType
<1>3. /\ pConns' \in [P!Numbers -> {"none", "open", "streaming", "broken", "ended"}]
      /\ pClient \in P!Numbers => pConns'[pClient] = "ended"
      /\ \A d \in P!Numbers \ {pClient} : pConns'[d] = pConns[d]
  BY <1>0, <1>1, <1>2, EndedConns
<1>4. SourceType'
  <2>1. pStopped' \in BOOLEAN /\ pStop' \in {"no", "drop", "done"}
    BY <1>1
  <2>q. QED
    BY <1>0, <1>1, <1>3, <2>1 DEF SourceType
<1>5. OneSession'
  BY <1>0, <1>1 DEF OneSession
<1>6. OneClient'
  <2>1. \A d \in P!Numbers : pConns'[d] \notin {"open", "streaming"}
    BY <1>0, <1>3 DEF OneClient
  <2>q. QED
    BY <2>1 DEF OneClient
<1>7. SlotIsKnown'
  BY <1>0, <1>1 DEF SlotIsKnown
<1>q. QED
  BY <1>4, <1>5, <1>6, <1>7 DEF SourceInv

(* stop() drops the slot only if this source is known to have created it. *)
LEMMA StopDropsKeeps == ASSUME P!FaultsAssumption, SourceInv, P!StopDrops PROVE SourceInv'
<1>0. SourceType /\ OneSession /\ OneClient /\ SlotIsKnown
  BY DEF SourceInv
<1>1. /\ pStop = "drop" /\ pStop' = "done" /\ pClient' = P!NoClient /\ UNCHANGED <<pConns, pRun>>
      /\ UNCHANGED <<pStarted, pStopped, pSlotCreated, pConnected, pReconnecting>>
  BY DEF P!StopDrops, P!flags
<1>2. \/ (pSlot' = FALSE /\ UNCHANGED pUnheard)
      \/ (pUnheard' = TRUE /\ UNCHANGED pSlot)
      \/ (UNCHANGED <<pSlot, pUnheard>> /\ ~(pClient # P!NoClient /\ pSlotCreated))
  BY DEF P!StopDrops
<1>3. pStopped /\ (pSlotCreated => pClient # P!NoClient)
  BY <1>0, <1>1 DEF SlotIsKnown
<1>4. SourceType'
  <2>1. pSlot' \in BOOLEAN /\ pUnheard' \in BOOLEAN
    BY <1>0, <1>2 DEF SourceType
  <2>2. pClient' \in P!Numbers \cup {P!NoClient} /\ pStop' \in {"no", "drop", "done"}
    BY <1>1
  <2>q. QED
    BY <1>0, <1>1, <2>1, <2>2 DEF SourceType
<1>5. OneSession'
  BY <1>0, <1>1 DEF OneSession
<1>6. OneClient'
  BY <1>0, <1>1, <1>3 DEF OneClient
<1>7. SlotIsKnown'
  BY <1>0, <1>1, <1>2, <1>3 DEF SlotIsKnown, SourceType
<1>q. QED
  BY <1>4, <1>5, <1>6, <1>7 DEF SourceInv

(* Every step of the source keeps the invariant. *)
LEMMA SourceStep == ASSUME P!FaultsAssumption, SourceInv, [P!Next]_(P!vars) PROVE SourceInv'
<1>1. CASE UNCHANGED P!vars
  BY <1>1 DEF P!vars, P!flags, SourceInv, SourceType, OneSession, OneClient, SlotIsKnown
<1>2. CASE P!Next
  <2>1. CASE P!Start \/ P!Stop \/ P!StopDrops \/ P!ClientError
    BY <2>1, StartKeeps, StopKeeps, StopDropsKeeps, ClientErrorKeeps
  <2>2. ASSUME NEW s \in P!Numbers, P!SessionStep(s) \/ P!CallFails(s) PROVE SourceInv'
    BY <2>2, AnsweredKeeps, SlotCreatedKeeps, StreamsKeeps, AbortDropsKeeps, AbortEndsKeeps,
       EndsClientKeeps, DelayOverKeeps, CallFailsKeeps DEF P!SessionStep
  <2>q. QED
    BY <1>2, <2>1, <2>2 DEF P!Next
<1>q. QED
  BY <1>1, <1>2

(* The invariant gives the property the runs check. *)
LEMMA SourceImplies == ASSUME P!FaultsAssumption, SourceInv PROVE P!NothingLeaks
<1>0. SourceType /\ OneSession /\ OneClient /\ SlotIsKnown
  BY DEF SourceInv
<1>1. P!NoOrphanedClient
  BY <1>0 DEF OneClient, P!NoOrphanedClient
<1>2. P!NothingLeftBehind
  <2> SUFFICES ASSUME pStop = "done", \A s \in P!Numbers : P!Awaits(s, "idle")
               PROVE  /\ \A c \in P!Numbers : pConns[c] \notin {"open", "streaming"}
                      /\ pSlot => pUnheard
    BY DEF P!NothingLeftBehind
  <2>1. \A c \in P!Numbers : pConns[c] \notin {"open", "streaming"}
    BY <1>0 DEF OneClient, SlotIsKnown
  <2>2. pRun[1].pc # "abortDrop"
    BY DEF P!Awaits, P!FaultsAssumption, P!Numbers
  <2>3. pSlot => pUnheard
    BY <1>0, <2>2 DEF SlotIsKnown
  <2>q. QED
    BY <2>1, <2>3
<1>q. QED
  BY <1>1, <1>2 DEF P!NothingLeaks

(* No client and no slot leaks, while the source runs and after it stopped,   *)
(* whichever await stop() overtook (replication.ts, #abortIfStopped).         *)
THEOREM NothingDoesLeak == P!Spec => []NothingLeaks
<1>1. P!Init => SourceInv
  BY SourceInit, SourceConstants
<1>2. SourceInv /\ [P!Next]_(P!vars) => SourceInv'
  BY SourceStep, SourceConstants
<1>3. SourceInv => NothingLeaks
  BY SourceImplies, SourceConstants DEF NothingLeaks
<1>q. QED
  BY <1>1, <1>2, <1>3, PTL DEF P!Spec

-----------------------------------------------------------------------------
(* The scheduler *)

(* Of an entry, time y is far enough from time x. *)
Later(e, x, y) == IF e \in S!CronIds THEN S!MinuteKey(x) < S!MinuteKey(y) ELSE y - x >= S!EveryMs(e)

AllLater(e, times, y) == \A i \in 1 .. Len(times) : Later(e, times[i], y)

(* The stamp of an entry is not behind what it was enqueued for. *)
Known(e, times, stamp) == \A i \in 1 .. Len(times) : S!Stamp(e, times[i]) <= stamp

Apart(e, times) == \A i, j \in 1 .. Len(times) : i < j => Later(e, times[i], times[j])

TickTypes ==
  /\ now \in Nat /\ ticking \in BOOLEAN
  /\ phase \in [Ticks -> {"idle", "crons", "intervals"}]
  /\ startedAt \in [Ticks -> Nat] /\ left \in [Ticks -> SUBSET S!Entries]
  /\ last \in [S!Entries -> Int] /\ fired \in [S!Entries -> Seq(Nat)]

(* The flag of start() leaves one tick at a time. *)
OneTick ==
  \A t \in Ticks : phase[t] # "idle" =>
    /\ ticking /\ startedAt[t] <= now
    /\ \A u \in Ticks : phase[u] # "idle" => u = t

(* And it is set for no other reason. *)
FlagIsTrue == ticking => \E t \in Ticks : phase[t] # "idle"

History ==
  \A e \in S!Entries :
    last[e] <= S!Stamp(e, now) /\ Known(e, fired[e], last[e]) /\ Apart(e, fired[e])

(* What a tick has still to enqueue was not enqueued too close to its time, and *)
(* the entry whose enqueue is under way is stamped.                             *)
TickInv ==
  \A t \in Ticks : phase[t] # "idle" =>
    /\ left[t] # {} /\ (phase[t] = "crons" => left[t] \subseteq S!CronIds)
    /\ \A e \in S!Entries : last[e] <= S!Stamp(e, startedAt[t])
    /\ \A e \in left[t] : AllLater(e, fired[e], startedAt[t])
    /\ last[S!Min(left[t])] = S!Stamp(S!Min(left[t]), startedAt[t])

SchedulerInv == TickTypes /\ OneTick /\ FlagIsTrue /\ History /\ TickInv

(* A set of numbers that is not empty has a least. *)
LEMMA LeastIs ==
  ASSUME NEW T \in SUBSET Nat, T # {}
  PROVE  S!Min(T) \in T
<1>1. PICK x \in T : \A y \in T : ~(<<y, x>> \in OpToRel(<, Nat)) BY NatLessThanWellFounded, WFMin
<1>2. \A y \in T : ~(y < x) BY <1>1 DEF OpToRel
<1>3. \A y \in T : x <= y BY <1>2
<1> QED BY <1>3 DEF S!Min

(* The entries are numbered, the crons first. *)
LEMMA EntriesAre ==
  ASSUME S!SchedulerAssumption
  PROVE  /\ S!Entries \subseteq Nat
         /\ \A e \in S!Entries : e \notin S!CronIds => e \in S!IntervalIds /\ S!EveryMs(e) \in Int
<1>1. Len(Crons) \in Nat /\ Intervals \in Seq(Int) /\ Len(Intervals) \in Nat
  BY DEF S!SchedulerAssumption
<1>2. PICK c \in Nat : c = Len(Crons) BY <1>1
<1>3. ASSUME NEW e \in S!IntervalIds PROVE e - c \in 1 .. Len(Intervals)
  BY <1>1, <1>2, <1>3 DEF S!IntervalIds
<1>4. ASSUME NEW e \in S!IntervalIds PROVE S!EveryMs(e) \in Int
  <2>1. PICK i : i = e - c OBVIOUS
  <2>2. i \in 1 .. Len(Intervals) BY <1>3, <2>1
  <2>3. Intervals[i] \in Int BY <1>1, <2>2
  <2> QED BY <1>2, <2>1, <2>3 DEF S!EveryMs
<1>5. S!Entries \subseteq Nat BY <1>1 DEF S!Entries, S!CronIds, S!IntervalIds
<1> QED BY <1>4, <1>5 DEF S!Entries

(* What a quotient is. *)
LEMMA DivIs ==
  ASSUME NEW a \in Nat, NEW d \in Nat \ {0}
  PROVE  a \div d \in Nat /\ d * (a \div d) <= a /\ a < d * (a \div d) + d
OBVIOUS

(* A later time is in the same minute or in a later one. *)
LEMMA DivGrows ==
  ASSUME NEW a \in Nat, NEW b \in Nat, a <= b, NEW d \in Nat \ {0}
  PROVE  a \div d <= b \div d
<1>1. PICK p \in Nat : p = a \div d /\ d * p <= a /\ a < d * p + d BY DivIs
<1>2. PICK q \in Nat : q = b \div d /\ d * q <= b /\ b < d * q + d BY DivIs
<1>3. SUFFICES ASSUME q < p PROVE FALSE BY <1>1, <1>2
<1>4. d * (q + 1) <= d * p BY <1>3
<1> QED BY <1>1, <1>2, <1>4

(* The stamp of an entry only grows with the time. *)
LEMMA StampIs ==
  ASSUME S!SchedulerAssumption, NEW e, NEW x \in Nat
  PROVE  /\ S!MinuteKey(x) \in Nat /\ S!Stamp(e, x) \in Nat
         /\ \A y \in Nat : x <= y => S!MinuteKey(x) <= S!MinuteKey(y) /\ S!Stamp(e, x) <= S!Stamp(e, y)
<1>1. PICK d \in Nat \ {0} : d = PerMinute BY DEF S!SchedulerAssumption
<1>2. S!MinuteKey(x) \in Nat BY <1>1, DivIs DEF S!MinuteKey
<1>3. ASSUME NEW y \in Nat, x <= y PROVE S!MinuteKey(x) <= S!MinuteKey(y)
  BY <1>1, <1>3, DivGrows DEF S!MinuteKey
<1> QED BY <1>2, <1>3 DEF S!Stamp

(* tick() from one await to the next: the entry it turns to was not enqueued  *)
(* too close to the time of the tick, and is stamped.                         *)
LEMMA ProceedKeeps ==
  ASSUME S!SchedulerAssumption, TickTypes, NEW t \in Ticks, NEW ph \in {"crons", "intervals"},
         NEW due \in SUBSET S!Entries, ph = "crons" => due \subseteq S!CronIds,
         NEW time \in Nat, S!Proceed(t, ph, due, time), time <= now, now' = now,
         startedAt' \in [Ticks -> Nat], startedAt'[t] = time, fired' \in [S!Entries -> Seq(Nat)],
         \A u \in Ticks : u # t => phase[u] = "idle",
         \A e \in S!Entries : /\ last[e] <= S!Stamp(e, time)
                              /\ Known(e, fired'[e], last[e]) /\ Apart(e, fired'[e]),
         \A e \in due : AllLater(e, fired'[e], time)
  PROVE  SchedulerInv'
<1>1. PICK todo : todo = IF ph = "crons" /\ due = {} THEN S!DueIntervals(time) ELSE due OBVIOUS
<1>2. PICK ph2 : ph2 = IF ph = "crons" /\ due = {} THEN "intervals" ELSE ph OBVIOUS
<1>3. PICK m : m = S!Min(todo) OBVIOUS
<1>4. /\ left' = [left EXCEPT ![t] = todo]
      /\ \/ /\ todo # {} /\ last' = [last EXCEPT ![m] = S!Stamp(m, time)]
            /\ phase' = [phase EXCEPT ![t] = ph2] /\ ticking' = TRUE
         \/ /\ todo = {} /\ phase' = [phase EXCEPT ![t] = "idle"] /\ ticking' = FALSE /\ last' = last
  BY <1>1, <1>2, <1>3 DEF S!Proceed
<1>5. PICK f : f = fired' OBVIOUS
<1>6. PICK l : l = last' OBVIOUS
<1>7. S!Entries \subseteq Nat /\ S!CronIds \subseteq S!Entries BY EntriesAre DEF S!Entries
<1>8. todo \in SUBSET S!Entries /\ (ph2 = "crons" => todo \subseteq S!CronIds) /\ ph2 \in {"crons", "intervals"}
  BY <1>1, <1>2 DEF S!DueIntervals, S!Entries
<1>9. ASSUME NEW e \in todo PROVE AllLater(e, f[e], time)
  <2>1. CASE e \in due BY <1>5, <2>1
  <2>2. CASE e \notin due
    <3>1. e \in S!IntervalIds /\ (last[e] = S!Never \/ time - last[e] >= S!EveryMs(e))
      BY <1>1, <1>9, <2>2 DEF S!DueIntervals
    <3>2. e \in S!Entries /\ e \notin S!CronIds
      BY <3>1 DEF S!Entries, S!CronIds, S!IntervalIds, S!SchedulerAssumption
    <3>3. S!EveryMs(e) \in Int /\ last[e] \in Int /\ f[e] \in Seq(Nat)
      BY <1>5, <3>2, EntriesAre DEF TickTypes
    <3>4. ASSUME NEW i \in 1 .. Len(f[e]) PROVE Later(e, f[e][i], time)
      <4>1. f[e][i] \in Nat BY <3>3
      <4>2. S!Stamp(e, f[e][i]) <= last[e] BY <1>5, <3>2 DEF Known
      <4>3. f[e][i] <= last[e] BY <3>2, <4>2 DEF S!Stamp
      <4>4. last[e] # S!Never BY <3>3, <4>1, <4>3 DEF S!Never
      <4>5. time - f[e][i] >= S!EveryMs(e) BY <3>1, <3>3, <4>1, <4>3, <4>4
      <4> QED BY <3>2, <4>5 DEF Later
    <3> QED BY <3>4 DEF AllLater
  <2> QED BY <2>1, <2>2
<1>10. todo # {} => m \in todo BY <1>3, <1>7, <1>8, LeastIs
<1>11. ASSUME NEW e \in S!Entries PROVE S!Stamp(e, time) \in Int /\ S!Stamp(e, time) <= S!Stamp(e, now)
  <2>1. now \in Nat BY DEF TickTypes
  <2> QED BY <2>1, StampIs
<1>12. l \in [S!Entries -> Int]
  <2>1. CASE todo # {}
    <3>1. m \in S!Entries BY <1>8, <1>10, <2>1
    <3>2. PICK x \in Int : x = S!Stamp(m, time) BY <1>11, <3>1
    <3>3. l = [last EXCEPT ![m] = x] BY <1>4, <1>6, <2>1, <3>2
    <3> QED BY <3>1, <3>3 DEF TickTypes
  <2>2. CASE todo = {} BY <1>4, <1>6, <2>2 DEF TickTypes
  <2> QED BY <2>1, <2>2
<1>13. ASSUME NEW e \in S!Entries PROVE last[e] <= l[e] /\ l[e] <= S!Stamp(e, time)
  <2>1. last[e] \in Int BY DEF TickTypes
  <2>2. l[e] = last[e] \/ l[e] = S!Stamp(e, time)
    <3>1. CASE todo # {} BY <1>4, <1>6, <3>1 DEF TickTypes
    <3>2. CASE todo = {} BY <1>4, <1>6, <3>2
    <3> QED BY <3>1, <3>2
  <2> QED BY <1>11, <2>1, <2>2
<1>14. ASSUME NEW e \in S!Entries
       PROVE  l[e] <= S!Stamp(e, now) /\ Known(e, f[e], l[e]) /\ Apart(e, f[e])
  <2>1. l[e] \in Int /\ last[e] \in Int /\ f[e] \in Seq(Nat) BY <1>5, <1>12 DEF TickTypes
  <2>2. l[e] <= S!Stamp(e, now)
    <3>1. S!Stamp(e, now) \in Int
      <4>1. now \in Nat BY DEF TickTypes
      <4> QED BY <4>1, StampIs
    <3> QED BY <1>11, <1>13, <2>1, <3>1
  <2>3. Known(e, f[e], l[e])
    <3> SUFFICES ASSUME NEW i \in 1 .. Len(f[e]) PROVE S!Stamp(e, f[e][i]) <= l[e] BY DEF Known
    <3>1. f[e][i] \in Nat BY <2>1
    <3>2. S!Stamp(e, f[e][i]) \in Nat BY <3>1, StampIs
    <3>3. S!Stamp(e, f[e][i]) <= last[e] BY <1>5 DEF Known
    <3> QED BY <1>13, <2>1, <3>2, <3>3
  <2> QED BY <1>5, <2>2, <2>3
<1>15. TickTypes'
  <2>1. phase' \in [Ticks -> {"idle", "crons", "intervals"}] /\ ticking' \in BOOLEAN
    BY <1>4, <1>8 DEF TickTypes
  <2>2. left' \in [Ticks -> SUBSET S!Entries] BY <1>4, <1>8 DEF TickTypes
  <2> QED BY <1>6, <1>12, <2>1, <2>2 DEF TickTypes
<1>16. ASSUME NEW u \in Ticks, phase'[u] # "idle"
       PROVE  u = t /\ todo # {} /\ ticking' /\ phase'[u] = ph2 /\ left'[u] = todo
  BY <1>4, <1>16 DEF TickTypes
<1>17. OneTick' BY <1>16 DEF OneTick
<1>18. History'
  <2>1. \A e \in S!Entries : last'[e] <= S!Stamp(e, now') /\ Known(e, fired'[e], last'[e]) /\ Apart(e, fired'[e])
    BY <1>5, <1>6, <1>14
  <2> QED BY <2>1 DEF History, S!Stamp, Known, Apart, Later
<1>19. TickInv'
  <2> SUFFICES ASSUME NEW u \in Ticks, phase'[u] # "idle"
               PROVE  /\ left'[u] # {} /\ (phase'[u] = "crons" => left'[u] \subseteq S!CronIds)
                      /\ \A e \in S!Entries : last'[e] <= S!Stamp(e, startedAt'[u])
                      /\ \A e \in left'[u] : AllLater(e, fired'[e], startedAt'[u])
                      /\ last'[S!Min(left'[u])] = S!Stamp(S!Min(left'[u]), startedAt'[u])
    BY DEF TickInv, S!Stamp, AllLater, Later
  <2>1. u = t /\ todo # {} /\ phase'[u] = ph2 /\ left'[u] = todo /\ startedAt'[u] = time BY <1>16
  <2>2. \A e \in S!Entries : last'[e] <= S!Stamp(e, startedAt'[u]) BY <1>6, <1>13, <2>1
  <2>3. \A e \in left'[u] : AllLater(e, fired'[e], startedAt'[u]) BY <1>5, <1>9, <2>1
  <2>4. m \in S!Entries BY <1>8, <1>10, <2>1
  <2>5. last'[m] = S!Stamp(m, time) BY <1>4, <2>1, <2>4 DEF TickTypes
  <2> QED BY <1>3, <1>8, <2>1, <2>2, <2>3, <2>5
<1>20. FlagIsTrue'
  <2>1. todo # {} => phase'[t] # "idle" BY <1>4, <1>8 DEF TickTypes
  <2> QED BY <1>4, <2>1 DEF FlagIsTrue
<1> QED BY <1>15, <1>17, <1>18, <1>19, <1>20 DEF SchedulerInv

(* The timer finds no tick in flight: the due crons are those of another minute. *)
LEMMA FireKeeps ==
  ASSUME S!SchedulerAssumption, SchedulerInv, NEW t \in Ticks, S!Fire(t)
  PROVE  SchedulerInv'
<1>1. TickTypes /\ now \in Nat BY DEF SchedulerInv, TickTypes
<1>2. /\ ~ticking /\ startedAt' = [startedAt EXCEPT ![t] = now] /\ S!Proceed(t, "crons", S!DueCrons(now), now)
      /\ now' = now /\ fired' = fired
  BY DEF S!Fire, S!FreeToTick
<1>3. \A u \in Ticks : u # t => phase[u] = "idle" BY <1>2 DEF SchedulerInv, OneTick
<1>4. startedAt' \in [Ticks -> Nat] /\ startedAt'[t] = now /\ fired' \in [S!Entries -> Seq(Nat)]
  BY <1>1, <1>2 DEF TickTypes
<1>5. \A e \in S!Entries : /\ last[e] <= S!Stamp(e, now)
                           /\ Known(e, fired'[e], last[e]) /\ Apart(e, fired'[e])
  BY <1>2 DEF SchedulerInv, History
<1>6. S!DueCrons(now) \in SUBSET S!Entries /\ S!DueCrons(now) \subseteq S!CronIds
  BY DEF S!DueCrons, S!Entries
<1>7. ASSUME NEW e \in S!DueCrons(now) PROVE AllLater(e, fired'[e], now)
  <2>1. e \in S!CronIds /\ e \in S!Entries /\ last[e] # S!MinuteKey(now)
    BY <1>6, <1>7 DEF S!DueCrons
  <2>2. last[e] \in Int /\ fired[e] \in Seq(Nat) BY <1>1, <2>1 DEF TickTypes
  <2>3. S!MinuteKey(now) \in Nat BY <1>1, StampIs
  <2>4. last[e] < S!MinuteKey(now) BY <1>5, <2>1, <2>2, <2>3 DEF S!Stamp
  <2>5. ASSUME NEW i \in 1 .. Len(fired[e]) PROVE Later(e, fired[e][i], now)
    <3>1. fired[e][i] \in Nat BY <2>2
    <3>2. S!MinuteKey(fired[e][i]) \in Nat BY <3>1, StampIs
    <3>3. S!MinuteKey(fired[e][i]) <= last[e] BY <1>2, <1>5, <2>1 DEF Known, S!Stamp
    <3> QED BY <2>1, <2>2, <2>3, <2>4, <3>2, <3>3 DEF Later
  <2> QED BY <1>2, <2>5 DEF AllLater
<1>8. PICK due : due = S!DueCrons(now) OBVIOUS
<1>9. PICK time \in Nat : time = now /\ time <= now BY <1>1
<1>10. due \in SUBSET S!Entries /\ due \subseteq S!CronIds /\ S!Proceed(t, "crons", due, time)
       /\ \A e \in due : AllLater(e, fired'[e], time)
  BY <1>2, <1>6, <1>7, <1>8, <1>9
<1>11. \A e \in S!Entries : last[e] <= S!Stamp(e, time) /\ Known(e, fired'[e], last[e]) /\ Apart(e, fired'[e])
  BY <1>5, <1>9
<1> QED BY <1>1, <1>2, <1>3, <1>4, <1>9, <1>10, <1>11, ProceedKeeps

(* An enqueue returns: the entry joins what was enqueued, apart from all before. *)
LEMMA LandsKeeps ==
  ASSUME S!SchedulerAssumption, SchedulerInv, NEW t \in Ticks, S!EnqueueLands(t)
  PROVE  SchedulerInv'
<1>1. TickTypes BY DEF SchedulerInv
<1>2. PICK m : m = S!Min(left[t]) OBVIOUS
<1>3. PICK time : time = startedAt[t] OBVIOUS
<1>4. /\ phase[t] # "idle" /\ fired' = [fired EXCEPT ![m] = Append(fired[m], time)]
      /\ S!Proceed(t, phase[t], left[t] \ {m}, time) /\ now' = now /\ startedAt' = startedAt
  BY <1>2, <1>3 DEF S!EnqueueLands
<1>5. /\ left[t] # {} /\ (phase[t] = "crons" => left[t] \subseteq S!CronIds)
      /\ \A e \in S!Entries : last[e] <= S!Stamp(e, time)
      /\ \A e \in left[t] : AllLater(e, fired[e], time)
      /\ last[m] = S!Stamp(m, time)
  BY <1>2, <1>3, <1>4 DEF SchedulerInv, TickInv
<1>6. time \in Nat /\ time <= now /\ left[t] \in SUBSET S!Entries /\ phase[t] \in {"crons", "intervals"}
  BY <1>3, <1>4 DEF SchedulerInv, OneTick, TickTypes
<1>7. m \in left[t] /\ m \in S!Entries BY <1>2, <1>5, <1>6, LeastIs, EntriesAre
<1>8. \A u \in Ticks : u # t => phase[u] = "idle" BY <1>4 DEF SchedulerInv, OneTick
<1>9. PICK g : g = Append(fired[m], time) OBVIOUS
<1>10. fired[m] \in Seq(Nat) BY <1>1, <1>7 DEF TickTypes
<1>11. /\ g \in Seq(Nat) /\ Len(g) = Len(fired[m]) + 1 /\ g[Len(fired[m]) + 1] = time
       /\ \A i \in 1 .. Len(fired[m]) : g[i] = fired[m][i]
  BY <1>6, <1>9, <1>10
<1>12. fired' \in [S!Entries -> Seq(Nat)] /\ fired'[m] = g /\ \A e \in S!Entries : e # m => fired'[e] = fired[e]
  BY <1>1, <1>4, <1>7, <1>9, <1>11 DEF TickTypes
<1>13. Known(m, fired[m], last[m]) /\ Apart(m, fired[m]) /\ AllLater(m, fired[m], time)
  BY <1>5, <1>7 DEF SchedulerInv, History
<1>14. Known(m, g, last[m])
  <2> SUFFICES ASSUME NEW i \in 1 .. Len(g) PROVE S!Stamp(m, g[i]) <= last[m] BY DEF Known
  <2>1. CASE i \in 1 .. Len(fired[m]) BY <1>11, <1>13, <2>1 DEF Known
  <2>2. CASE i \notin 1 .. Len(fired[m])
    <3>1. g[i] = time BY <1>10, <1>11, <2>2
    <3>2. S!Stamp(m, time) \in Nat BY <1>6, StampIs
    <3> QED BY <1>5, <3>1, <3>2
  <2> QED BY <2>1, <2>2
<1>15. Apart(m, g)
  <2> SUFFICES ASSUME NEW i \in 1 .. Len(g), NEW j \in 1 .. Len(g), i < j PROVE Later(m, g[i], g[j])
    BY DEF Apart
  <2>1. i \in 1 .. Len(fired[m]) /\ g[i] = fired[m][i] BY <1>10, <1>11
  <2>2. CASE j \in 1 .. Len(fired[m]) BY <1>11, <1>13, <2>1, <2>2 DEF Apart
  <2>3. CASE j \notin 1 .. Len(fired[m])
    <3>1. g[j] = time BY <1>10, <1>11, <2>3
    <3> QED BY <1>13, <2>1, <3>1 DEF AllLater
  <2> QED BY <2>2, <2>3
<1>16. \A e \in S!Entries : /\ last[e] <= S!Stamp(e, time)
                            /\ Known(e, fired'[e], last[e]) /\ Apart(e, fired'[e])
  <2> SUFFICES ASSUME NEW e \in S!Entries
               PROVE  Known(e, fired'[e], last[e]) /\ Apart(e, fired'[e])
    BY <1>5
  <2>1. CASE e = m BY <1>12, <1>14, <1>15, <2>1
  <2>2. CASE e # m BY <1>12, <2>2 DEF SchedulerInv, History
  <2> QED BY <2>1, <2>2
<1>17. PICK due : due = left[t] \ {m} OBVIOUS
<1>18. PICK ph : ph = phase[t] OBVIOUS
<1>19. /\ due \in SUBSET S!Entries /\ ph \in {"crons", "intervals"} /\ (ph = "crons" => due \subseteq S!CronIds)
       /\ S!Proceed(t, ph, due, time)
  BY <1>4, <1>5, <1>6, <1>17, <1>18
<1>20. \A e \in due : AllLater(e, fired'[e], time)
  BY <1>5, <1>12, <1>17, <1>19
<1>21. startedAt' \in [Ticks -> Nat] /\ startedAt'[t] = time /\ now' = now
  BY <1>1, <1>3, <1>4 DEF TickTypes
<1> QED BY <1>1, <1>6, <1>8, <1>12, <1>16, <1>19, <1>20, <1>21, ProceedKeeps

(* An enqueue rejects: the tick is over, and the flag is cleared. *)
LEMMA FaultsKeeps ==
  ASSUME SchedulerInv, NEW t \in Ticks, S!EnqueueFaults(t)
  PROVE  SchedulerInv'
<1>1. /\ phase[t] # "idle" /\ phase' = [phase EXCEPT ![t] = "idle"] /\ left' = [left EXCEPT ![t] = {}]
      /\ ticking' = FALSE /\ UNCHANGED <<now, startedAt, last, fired>>
  BY DEF S!EnqueueFaults
<1>2. TickTypes' BY <1>1 DEF SchedulerInv, TickTypes
<1>3. \A u \in Ticks : phase'[u] = "idle" BY <1>1 DEF SchedulerInv, TickTypes, OneTick
<1>4. History' BY <1>1 DEF SchedulerInv, History, Known, Apart, Later, S!Stamp
<1> QED BY <1>1, <1>2, <1>3, <1>4 DEF SchedulerInv, OneTick, FlagIsTrue, TickInv

(* stop(), and the clock. *)
LEMMA ClockKeeps ==
  ASSUME S!SchedulerAssumption, SchedulerInv, S!Stop \/ S!Advance \/ UNCHANGED S!vars
  PROVE  SchedulerInv'
<1>1. UNCHANGED <<ticking, phase, startedAt, left, last, fired>> /\ now' \in {now, now + 1}
  BY DEF S!Stop, S!Advance, S!vars
<1>2. now \in Nat /\ TickTypes BY DEF SchedulerInv, TickTypes
<1>3. TickTypes' BY <1>1, <1>2 DEF TickTypes
<1>4. PICK n \in Nat : n = now' /\ now <= n BY <1>1, <1>2
<1>5. OneTick'
  <2> SUFFICES ASSUME NEW t \in Ticks, phase[t] # "idle" PROVE startedAt[t] <= n
    BY <1>1, <1>4 DEF SchedulerInv, OneTick
  <2>1. startedAt[t] <= now /\ startedAt[t] \in Nat BY <1>2 DEF SchedulerInv, OneTick, TickTypes
  <2> QED BY <1>2, <1>4, <2>1
<1>6. History'
  <2> SUFFICES ASSUME NEW e \in S!Entries PROVE last[e] <= S!Stamp(e, n)
    BY <1>1, <1>4 DEF SchedulerInv, History, Known, Apart, Later, S!Stamp
  <2>1. last[e] <= S!Stamp(e, now) /\ last[e] \in Int BY <1>2 DEF SchedulerInv, History, TickTypes
  <2>2. S!Stamp(e, now) \in Nat /\ S!Stamp(e, n) \in Nat /\ S!Stamp(e, now) <= S!Stamp(e, n)
    BY <1>2, <1>4, StampIs
  <2> QED BY <2>1, <2>2
<1>7. TickInv' BY <1>1 DEF SchedulerInv, TickInv, AllLater, Later, S!Stamp
<1>8. FlagIsTrue' BY <1>1 DEF SchedulerInv, FlagIsTrue
<1> QED BY <1>3, <1>5, <1>6, <1>7, <1>8 DEF SchedulerInv

(* Before the first tick nothing is stamped. *)
LEMMA SchedulerInit == ASSUME S!SchedulerAssumption, S!Init PROVE SchedulerInv
<1>1. TickTypes
  <2>1. now \in Nat /\ ticking \in BOOLEAN BY DEF S!Init
  <2>2. phase \in [Ticks -> {"idle", "crons", "intervals"}] /\ startedAt \in [Ticks -> Nat]
    BY DEF S!Init
  <2>3. left \in [Ticks -> SUBSET S!Entries] BY DEF S!Init
  <2>4. last \in [S!Entries -> Int] BY DEF S!Init, S!Never
  <2>5. fired \in [S!Entries -> Seq(Nat)] BY DEF S!Init
  <2> QED BY <2>1, <2>2, <2>3, <2>4, <2>5 DEF TickTypes
<1>2. OneTick /\ FlagIsTrue /\ TickInv BY DEF S!Init, OneTick, FlagIsTrue, TickInv
<1>3. History
  <2> SUFFICES ASSUME NEW e \in S!Entries
               PROVE  last[e] <= S!Stamp(e, now) /\ Known(e, fired[e], last[e]) /\ Apart(e, fired[e])
    BY DEF History
  <2>1. last[e] = -1 /\ fired[e] = <<>> /\ now \in Nat BY DEF S!Init, S!Never
  <2>2. S!Stamp(e, now) \in Nat BY <2>1, StampIs
  <2>3. last[e] <= S!Stamp(e, now) BY <2>1, <2>2
  <2> QED BY <2>1, <2>3 DEF Known, Apart
<1> QED BY <1>1, <1>2, <1>3 DEF SchedulerInv

(* Every step of the scheduler keeps the invariant. *)
LEMMA SchedulerStep ==
  ASSUME S!SchedulerAssumption, SchedulerInv, [S!Next]_(S!vars)
  PROVE  SchedulerInv'
<1>1. CASE \E t \in Ticks : S!Fire(t) BY <1>1, FireKeeps
<1>2. CASE \E t \in Ticks : S!EnqueueLands(t) BY <1>2, LandsKeeps
<1>3. CASE \E t \in Ticks : S!EnqueueFaults(t) BY <1>3, FaultsKeeps
<1>4. CASE S!Stop \/ S!Advance \/ UNCHANGED S!vars BY <1>4, ClockKeeps
<1> QED BY <1>1, <1>2, <1>3, <1>4 DEF S!Next, S!Settle

(* The invariant gives both halves of the claim. *)
LEMMA SchedulerImplied ==
  ASSUME S!SchedulerAssumption, SchedulerInv
  PROVE  S!OncePerMinute /\ S!IntervalsSpaced /\ S!OneAtATime
<1>1. \A e \in S!Entries : Apart(e, fired[e]) /\ fired[e] \in Seq(Nat)
  BY DEF SchedulerInv, History, TickTypes
<1>2. S!OncePerMinute
  <2> SUFFICES ASSUME NEW e \in S!CronIds, NEW i \in 1 .. Len(fired[e]), NEW j \in 1 .. Len(fired[e]),
                      S!MinuteKey(fired[e][i]) = S!MinuteKey(fired[e][j])
               PROVE  i = j
    BY DEF S!OncePerMinute
  <2>1. e \in S!Entries BY DEF S!Entries
  <2>2. fired[e][i] \in Nat /\ fired[e][j] \in Nat BY <1>1, <2>1
  <2>3. S!MinuteKey(fired[e][i]) \in Nat /\ S!MinuteKey(fired[e][j]) \in Nat BY <2>2, StampIs
  <2>4. ~(i < j) /\ ~(j < i) BY <1>1, <2>1, <2>3 DEF Apart, Later
  <2> QED BY <2>4
<1>3. S!IntervalsSpaced
  <2> SUFFICES ASSUME NEW e \in S!IntervalIds, NEW i \in 2 .. Len(fired[e])
               PROVE  fired[e][i] - fired[e][i - 1] >= S!EveryMs(e)
    BY DEF S!IntervalsSpaced
  <2>1. e \in S!Entries /\ e \notin S!CronIds
    BY DEF S!Entries, S!CronIds, S!IntervalIds, S!SchedulerAssumption
  <2>2. Len(fired[e]) \in Nat BY <1>1, <2>1
  <2>3. PICK h : h = i - 1 OBVIOUS
  <2>4. h \in 1 .. Len(fired[e]) /\ i \in 1 .. Len(fired[e]) /\ h < i BY <2>2, <2>3
  <2>5. Later(e, fired[e][h], fired[e][i]) BY <1>1, <2>1, <2>4 DEF Apart
  <2> QED BY <2>1, <2>3, <2>5 DEF Later
<1>4. S!OneAtATime BY DEF SchedulerInv, OneTick, FlagIsTrue, S!OneAtATime
<1> QED BY <1>2, <1>3, <1>4

(* A cron entry is enqueued at most once for a minute, and an interval entry  *)
(* at least everyMs after the last time: no two ticks interleave on their     *)
(* awaits and enqueue an entry twice, whatever is slow or rejects             *)
(* (scheduler.ts, tick and the flag of start()), and the flag is never left   *)
(* set behind them, for any entries.  It is the safety half of CadenceKept.   *)
THEOREM NothingTooOften == S!Spec => [](S!OncePerMinute /\ S!IntervalsSpaced /\ S!OneAtATime)
<1>1. S!Init => SchedulerInv
  BY SchedulerInit, SchedulerConstants
<1>2. SchedulerInv /\ [S!Next]_(S!vars) => SchedulerInv'
  BY SchedulerStep, SchedulerConstants
<1>3. SchedulerInv => S!OncePerMinute /\ S!IntervalsSpaced /\ S!OneAtATime
  BY SchedulerImplied, SchedulerConstants
<1> QED
  BY <1>1, <1>2, <1>3, PTL DEF S!Spec

-----------------------------------------------------------------------------
(* The retention scheduler *)

(* The flag stands for the one tick in flight. *)
FlagIsTick ==
  /\ rCur \in [Ticks -> Nat] /\ R!OneAtATime
  /\ \A t \in Ticks : R!InFlight(t) => rTicking

(* The first of some tasks is a task. *)
LEMMA LeastTask ==
  ASSUME NEW T \in SUBSET R!Tasks, T # {}
  PROVE  R!Min(T) \in Nat \ {0}
<1>1. T \subseteq Nat /\ 0 \notin T BY DEF R!Tasks
<1>2. PICK x \in T : \A y \in T : ~(<<y, x>> \in OpToRel(<, Nat))
  BY <1>1, NatLessThanWellFounded, WFMin
<1>3. \A y \in T : ~(y < x) BY <1>1, <1>2 DEF OpToRel
<1>4. \A y \in T : x <= y BY <1>1, <1>3
<1>5. R!Min(T) \in T BY <1>4 DEF R!Min
<1> QED BY <1>1, <1>5

(* The loop of tick(), in a tick that is alone: it awaits a task and holds the *)
(* flag, or is over and has cleared it.                                       *)
LEMMA LoopKeeps ==
  ASSUME rCur \in [Ticks -> Nat], NEW t \in Ticks, NEW i, NEW late, NEW ages, R!RunFrom(t, i, late, ages),
         \A u \in Ticks : u # t => ~R!InFlight(u)
  PROVE  FlagIsTick'
<1>1. PICK due : due = {j \in R!Tasks : j >= i /\ R!Due(ages, j, late)} OBVIOUS
<1>2. CASE due # {}
  <2>1. PICK m : m = R!Min(due) OBVIOUS
  <2>2. m \in Nat \ {0} BY <1>1, <1>2, <2>1, LeastTask
  <2>3. rCur' = [rCur EXCEPT ![t] = m] /\ rTicking' = TRUE BY <1>1, <1>2, <2>1 DEF R!RunFrom
  <2>4. rCur' \in [Ticks -> Nat] /\ rCur'[t] # 0 BY <2>2, <2>3
  <2>5. \A u \in Ticks : u # t => rCur'[u] = 0 BY <2>3 DEF R!InFlight
  <2> QED BY <2>3, <2>4, <2>5 DEF FlagIsTick, R!OneAtATime, R!InFlight
<1>3. CASE due = {}
  <2>1. rCur' = [rCur EXCEPT ![t] = 0] /\ rTicking' = FALSE BY <1>1, <1>3 DEF R!RunFrom
  <2>2. rCur' \in [Ticks -> Nat] /\ \A u \in Ticks : rCur'[u] = 0 BY <2>1 DEF R!InFlight
  <2> QED BY <2>1, <2>2 DEF FlagIsTick, R!OneAtATime, R!InFlight
<1> QED BY <1>2, <1>3

(* Before the first tick the flag is clear. *)
LEMMA FlagInit == R!Init => FlagIsTick
BY DEF R!Init, FlagIsTick, R!OneAtATime, R!InFlight

(* The timer, a task that returns or rejects, and stop() keep the invariant. *)
LEMMA FlagStep == ASSUME FlagIsTick, [R!Next]_(R!vars) PROVE FlagIsTick'
<1>1. rCur \in [Ticks -> Nat] BY DEF FlagIsTick
<1>2. ASSUME NEW t \in Ticks, R!Fire(t) PROVE FlagIsTick'
  <2>1. ~rTicking /\ R!RunFrom(t, 1, 0, R!Aged) BY <1>2 DEF R!Fire, R!FreeToTick
  <2>2. \A u \in Ticks : ~R!InFlight(u) BY <2>1 DEF FlagIsTick
  <2> QED BY <1>1, <2>1, <2>2, LoopKeeps
<1>3. ASSUME NEW t \in Ticks, R!TaskReturns(t) PROVE FlagIsTick'
  <2>1. R!InFlight(t) /\ R!RunFrom(t, rCur[t] + 1, rLag[t], rSince) BY <1>3 DEF R!TaskReturns
  <2>2. \A u \in Ticks : u # t => ~R!InFlight(u) BY <2>1 DEF FlagIsTick, R!OneAtATime
  <2> QED BY <1>1, <2>1, <2>2, LoopKeeps
<1>4. ASSUME NEW t \in Ticks, R!TaskRejects(t) PROVE FlagIsTick'
  <2>1. R!InFlight(t) /\ rCur' = [rCur EXCEPT ![t] = 0] /\ rTicking' = FALSE
    BY <1>4 DEF R!TaskRejects
  <2>2. \A u \in Ticks : u # t => ~R!InFlight(u) BY <2>1 DEF FlagIsTick, R!OneAtATime
  <2>3. rCur' \in [Ticks -> Nat] /\ \A u \in Ticks : rCur'[u] = 0 BY <1>1, <2>1, <2>2 DEF R!InFlight
  <2> QED BY <2>1, <2>3 DEF FlagIsTick, R!OneAtATime, R!InFlight
<1>5. CASE R!Skip \/ R!Stop \/ UNCHANGED R!vars
  <2>1. UNCHANGED <<rCur, rTicking>> BY <1>5 DEF R!Skip, R!Stop, R!vars
  <2> QED BY <2>1 DEF FlagIsTick, R!OneAtATime, R!InFlight
<1> QED BY <1>2, <1>3, <1>4, <1>5 DEF R!Next, R!Cadence, R!Settle

(* Ticks do not overlap, and the flag that keeps them apart is never left set *)
(* without one, whatever a task does (retention.ts, start: finally clears     *)
(* it).  It is the safety half of NoStarvation.                               *)
THEOREM RetentionTicksAlone == R!Spec => []R!OneAtATime
<1>1. R!Init => FlagIsTick
  BY FlagInit
<1>2. FlagIsTick /\ [R!Next]_(R!vars) => FlagIsTick'
  BY FlagStep
<1>3. FlagIsTick => R!OneAtATime
  BY DEF FlagIsTick
<1> QED
  BY <1>1, <1>2, <1>3, PTL DEF R!Spec
=============================================================================
