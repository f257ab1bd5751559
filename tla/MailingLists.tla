---------------------------- MODULE MailingLists ----------------------------
(***************************************************************************)
(* A mailing list (packages/mailing-lists/src/mailing-lists.ts and         *)
(* models.ts): the double opt-in of its subscribers, and one broadcast     *)
(* with the runs that resume it.                                           *)
(*                                                                         *)
(* confirm() and unsubscribe() look a row up by token and then write it by *)
(* id: two statements, with other requests between them.  A run of the     *)
(* broadcast is one call of broadcast() or resumeBroadcast().              *)
(***************************************************************************)
EXTENDS Integers, FiniteSets

CONSTANTS
  Emails,
  Requests,  \* concurrent calls of confirm() and unsubscribe()
  NoEmail,
  ChunkSize,
  MaxTokens, \* bound: calls of subscribe()
  MaxRuns    \* bound: calls of broadcast() and resumeBroadcast()

MailingAssumption == MaxRuns \in Nat \ {0} /\ NoEmail \notin Emails

Runs == 1 .. MaxRuns
NoToken == 0

VARIABLES
  sub,        \* the subscribers: per email, [status, confirm, unsub]
  minted,     \* the tokens handed out
  found,      \* per request: what its lookup found, [op, email]
  status,     \* the broadcast row: "none", "pending" or "sent"
  delivery,   \* per email: "none", "pending" or "enqueued"
  run,        \* per run: [pc, todo, at], the email its loop is at
  mails,      \* per email: the delivery jobs enqueued
  optedOut,   \* ghost: unsubscribed, and not asked to be subscribed since
  overtaken,  \* ghost: ... while a confirm had already looked the row up
  recipients, \* ghost: whom broadcast() found subscribed
  early,      \* ghost: deliveries were loaded before all were recorded
  torn,       \* ghost: a run died between an email's job and its mark
  shared      \* ghost: loaded by a run while another run was at them

subVars == <<sub, minted, found, optedOut, overtaken>>
castVars == <<status, delivery, run, mails, recipients, early, torn, shared>>
vars == <<subVars, castVars>>

NotFound == [op |-> "", email |-> NoEmail]
NotRun == [pc |-> "new", todo |-> {}, at |-> NoEmail]

Init ==
  /\ sub = [e \in Emails |-> [status |-> "none", confirm |-> NoToken, unsub |-> NoToken]]
  /\ minted = 0
  /\ found = [q \in Requests |-> NotFound]
  /\ status = "none"
  /\ delivery = [e \in Emails |-> "none"]
  /\ run = [r \in Runs |-> NotRun]
  /\ mails = [e \in Emails |-> 0]
  /\ optedOut = {} /\ overtaken = {}
  /\ recipients = {} /\ early = FALSE /\ torn = {} /\ shared = {}

-----------------------------------------------------------------------------
(* Opting in and out *)

(* upsertPendingSubscriber(), one transaction: the row starts over. *)
Subscribe(e) ==
  /\ minted < MaxTokens
  /\ minted' = minted + 1
  /\ sub' = [sub EXCEPT ![e] = [status |-> "pending", confirm |-> minted', unsub |-> minted']]
  /\ optedOut' = optedOut \ {e}
  /\ overtaken' = overtaken \ {e}
  /\ UNCHANGED <<found, castVars>>

(* Seeded fault: any row with the token, whatever its status. *)
ByTokenAlone(t) == {e \in Emails : sub[e].confirm = t}

(* findPendingSubscriberByConfirmToken() *)
Confirmable(t) == {e \in Emails : sub[e].confirm = t /\ sub[e].status = "pending"}

FindToConfirm(q, t) ==
  /\ found[q] = NotFound
  /\ \E e \in Confirmable(t) : found' = [found EXCEPT ![q] = [op |-> "confirm", email |-> e]]
  /\ UNCHANGED <<sub, minted, optedOut, overtaken, castVars>>

(* findSubscriberByUnsubscribeToken(), any status *)
FindToUnsubscribe(q, t) ==
  /\ found[q] = NotFound
  /\ \E e \in Emails :
       sub[e].unsub = t /\ found' = [found EXCEPT ![q] = [op |-> "unsubscribe", email |-> e]]
  /\ UNCHANGED <<sub, minted, optedOut, overtaken, castVars>>

(* confirmSubscriber(), by id: the confirm token is spent. *)
Confirm(q) ==
  /\ found[q].op = "confirm"
  /\ sub' = [sub EXCEPT ![found[q].email] =
                [status |-> "subscribed", confirm |-> NoToken, unsub |-> @.unsub]]
  /\ found' = [found EXCEPT ![q] = NotFound]
  /\ UNCHANGED <<minted, optedOut, overtaken, castVars>>

(* unsubscribeSubscriber(), by id *)
Unsubscribe(q) ==
  LET e == found[q].email IN
  /\ found[q].op = "unsubscribe"
  /\ sub' = [sub EXCEPT ![e].status = "unsubscribed"]
  /\ found' = [found EXCEPT ![q] = NotFound]
  /\ optedOut' = optedOut \cup {e}
  /\ overtaken' = IF \E p \in Requests : found[p] = [op |-> "confirm", email |-> e]
                  THEN overtaken \cup {e} ELSE overtaken
  /\ UNCHANGED <<minted, castVars>>

-----------------------------------------------------------------------------
(* The broadcast *)

At(r, pc) == run[r].pc = pc
Goes(r, pc, todo) == run' = [run EXCEPT ![r] = [pc |-> pc, todo |-> todo, at |-> NoEmail]]
GoesToMark(r, e) == run' = [run EXCEPT ![r].pc = "mark", ![r].at = e]

(* broadcast(): the recipients are read ... *)
Broadcast ==
  /\ At(1, "new")
  /\ recipients' = {e \in Emails : sub[e].status = "subscribed"}
  /\ Goes(1, "insert", recipients')
  /\ UNCHANGED <<subVars, status, delivery, mails, early, torn, shared>>

(* ... the row is inserted ... *)
InsertBroadcast ==
  /\ At(1, "insert")
  /\ status' = "pending"
  /\ Goes(1, "record", run[1].todo)
  /\ UNCHANGED <<subVars, delivery, mails, recipients, early, torn, shared>>

(* ... and the deliveries, a transaction for each chunk. *)
RecordChunk ==
  /\ At(1, "record") /\ run[1].todo # {}
  /\ \E batch \in SUBSET run[1].todo :
       /\ Cardinality(batch) = ChunkSize \/ (Cardinality(batch) < ChunkSize /\ batch = run[1].todo)
       /\ delivery' = [e \in Emails |-> IF e \in batch THEN "pending" ELSE delivery[e]]
       /\ Goes(1, "record", run[1].todo \ batch)
  /\ UNCHANGED <<subVars, status, mails, recipients, early, torn, shared>>

Recorded ==
  /\ At(1, "record") /\ run[1].todo = {}
  /\ Goes(1, "load", {})
  /\ UNCHANGED <<subVars, status, delivery, mails, recipients, early, torn, shared>>

(* resumeBroadcast(), by whoever finds the broadcast pending, or by hand. *)
Resume(r) ==
  /\ r # 1 /\ At(r, "new") /\ status # "none"
  /\ Goes(r, "load", {})
  /\ UNCHANGED <<subVars, status, delivery, mails, recipients, early, torn, shared>>

(* Seeded fault: every delivery of the broadcast. *)
AllDeliveries == {e \in Emails : delivery[e] # "none"}

(* pendingBroadcastDeliveries() *)
PendingDeliveries == {e \in Emails : delivery[e] = "pending"}

Load(r) ==
  /\ At(r, "load")
  /\ Goes(r, "send", PendingDeliveries)
  /\ early' = (early \/ \E e \in recipients : delivery[e] = "none")
  /\ shared' = shared \cup {e \in PendingDeliveries : \E p \in Runs \ {r} : e \in run[p].todo}
  /\ UNCHANGED <<subVars, status, delivery, mails, recipients, torn>>

(* drainDeliveries(): the mail job first, ... *)
EnqueuesJob(e) == mails' = [mails EXCEPT ![e] = @ + 1] /\ UNCHANGED delivery

(* ... then markDeliveryEnqueued(). *)
MarksRow(e) == delivery' = [delivery EXCEPT ![e] = "enqueued"] /\ UNCHANGED mails

(* Seeded fault: the row is marked, and then the job is enqueued. *)
MarkedFirst(r) ==
  \/ At(r, "send") /\ \E e \in run[r].todo : MarksRow(e) /\ GoesToMark(r, e)
  \/ At(r, "mark") /\ EnqueuesJob(run[r].at) /\ Goes(r, "send", run[r].todo \ {run[r].at})

Delivers(r) ==
  \/ At(r, "send") /\ \E e \in run[r].todo : EnqueuesJob(e) /\ GoesToMark(r, e)
  \/ At(r, "mark") /\ MarksRow(run[r].at) /\ Goes(r, "send", run[r].todo \ {run[r].at})

Deliver(r) ==
  /\ Delivers(r)
  /\ UNCHANGED <<subVars, status, recipients, early, torn, shared>>

(* The loop is over: markBroadcastSent(). *)
MarkSent(r) ==
  /\ At(r, "send") /\ run[r].todo = {}
  /\ status' = "sent"
  /\ Goes(r, "done", {})
  /\ UNCHANGED <<subVars, delivery, mails, recipients, early, torn, shared>>

(* The process dies, or a statement or the mailer rejects. *)
Dies(r) ==
  /\ run[r].pc \notin {"new", "done"}
  /\ torn' = IF At(r, "mark") THEN torn \cup {run[r].at} ELSE torn
  /\ Goes(r, "done", {})
  /\ UNCHANGED <<subVars, status, delivery, mails, recipients, early, shared>>

-----------------------------------------------------------------------------
RequestStep(q) ==
  \/ \E t \in 1 .. minted : FindToConfirm(q, t) \/ FindToUnsubscribe(q, t)
  \/ Confirm(q) \/ Unsubscribe(q)

Next ==
  \/ \E e \in Emails : Subscribe(e)
  \/ \E q \in Requests : RequestStep(q)
  \/ Broadcast \/ InsertBroadcast \/ RecordChunk \/ Recorded
  \/ \E r \in Runs : Resume(r) \/ Load(r) \/ Deliver(r) \/ MarkSent(r) \/ Dies(r)

Spec == Init /\ [][Next]_vars

-----------------------------------------------------------------------------
(* Properties *)

(* An address that opted out stays out until it asks to be subscribed again,  *)
(* whichever old links are followed, in whichever order.  The exception is    *)
(* the race the two statements leave open: a confirm that had looked the row  *)
(* up before the unsubscribe wrote it (mailing-lists.ts, confirm and          *)
(* unsubscribe).                                                              *)
OptOutHolds ==
  \A e \in optedOut \ overtaken : sub[e].status = "unsubscribed"

(* "`sent` once every row is enqueued": of a broadcast marked sent no         *)
(* recipient was left without a mail, whatever run died and however the       *)
(* others overlapped it.  The exception is a broadcast() that died, or was    *)
(* resumed, between two chunks: the run that resumes it knows only the        *)
(* recorded ones (mailing-lists.ts, drainDeliveries).                         *)
SentMeansMailed == status = "sent" /\ ~early => \A e \in recipients : mails[e] > 0

(* "no recipient is enqueued twice": a second mail goes out only where a run  *)
(* died between the job and its mark, or where two runs loaded the row at     *)
(* once (mailing-lists.ts, drainDeliveries).                                  *)
NoSecondMail == \A e \in Emails : mails[e] > 1 => e \in torn \cup shared

(* A broadcast reaches every recipient, and once (mailing-lists.ts,           *)
(* drainDeliveries).                                                          *)
MailedOnce == SentMeansMailed /\ NoSecondMail
=============================================================================
