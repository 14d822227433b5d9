------------------------------ MODULE Inbound ------------------------------
(***************************************************************************)
(* One recipient's copy of an incoming mail, from the SMTP transaction to  *)
(* the mailbox: the intake handler (worker.ts email(), intake.ts), the     *)
(* at-least-once inbound queue (wrangler.jsonc consumers, the Node         *)
(* InProcessQueue) and the consumer processInboundMessage (inbound.ts).    *)
(*                                                                         *)
(* A run is one delivery of one queue message to the consumer.  Every      *)
(* await of the consumer that another actor can observe, or that can fail, *)
(* is a step of its own.                                                   *)
(***************************************************************************)
EXTENDS Naturals

CONSTANTS
  Mails,          \* one element per recipient of an incoming message
  Mailboxes,      \* mailboxes a routing decision may name
  NoBox,          \* a routing decision without a mailbox
  Parts,          \* names of MIME parts
  PartsOf,        \* [Mails -> SUBSET Parts]: the attachments of each mail
  MaxRetries,     \* wrangler.jsonc max_retries; InProcessQueue maxRetries
  MaxRuns,        \* bound: deliveries of one queue message
  MaxDuplicates,  \* bound: deliveries of a message that is already in flight
  MaxCrashes,     \* bound: consumer or process crashes
  MaxEdits,       \* bound: edits of the routing rules
  MaxDisturbances,\* bound: duplicates, crashes and edits together
  Entries         \* the ways mail comes in that are considered, see AllEntries

\* "worker": the Cloudflare email handler, whose queue is durable.
\* "smtp", "relay": the Node process, fed by its SMTP listener or by the relay
\* Worker through /api/inbound; its queue lives in memory.
AllEntries == {"worker", "smtp", "relay"}

ASSUME InboundAssumption ==
  /\ NoBox \notin Mailboxes
  /\ PartsOf \in [Mails -> SUBSET Parts]
  /\ MaxRetries \in Nat
  /\ MaxDuplicates \in Nat
  /\ MaxRuns \in Nat
  /\ MaxCrashes \in Nat
  /\ MaxEdits \in Nat
  /\ Entries \subseteq AllEntries

VARIABLES
  entry,        \* how mail comes in; never changes
  route,        \* what resolveInboundAddress answers for a mail's recipient
  intake,       \* progress of the SMTP transaction of each mail
  held,         \* the forward decision the intake handler is acting on
  forwarded,    \* what became of the rule's forward, see Forwards
  raw,          \* mails whose raw MIME object is in the bucket
  job,          \* state of each mail's queue message
  tries,        \* failed deliveries counted against max_retries
  runs,         \* deliveries begun so far
  pc,           \* program counter of each run
  box,          \* mailbox each run resolved
  stored,       \* runs whose row is in the messages table
  objects,      \* attachment objects in the bucket, per run
  records,      \* message_attachments rows, per run
  announced,    \* runs whose message.inbound webhook was dispatched
  (* history, read by no action *)
  overlapped,   \* mails that had two deliveries in flight at once
  torn,         \* runs that stopped between the row and its attachments
  dropped,      \* mails a consumer run discarded because of the routing
  destroyed,    \* runs whose row a user destroyed
  edits, duplicates, crashes \* counters for the bounds

queueVars == <<job, tries, runs>>
intakeVars == <<intake, held, forwarded, raw>>
dataVars == <<box, stored, objects, records, announced>>
history == <<overlapped, torn, dropped, destroyed>>
bounds == <<edits, duplicates, crashes>>
vars == <<entry, route, intakeVars, queueVars, pc, dataVars, history, bounds>>

Runs == Mails \X (1..MaxRuns)
MailOf(r) == r[1]

(***************************************************************************)
(* Routing decisions (routing.ts RoutingDecision; null is action "none").  *)
(* A forward keeps a copy only when its rule names a usable mailbox; the   *)
(* mailbox of one that keeps none is never read.                           *)
(***************************************************************************)
Decision(action, mailbox, keepCopy) ==
  [action |-> action, mailbox |-> mailbox, keepCopy |-> keepCopy]

Null == Decision("none", NoBox, FALSE)

Decisions ==
  {Null, Decision("reject", NoBox, FALSE), Decision("forward", NoBox, FALSE)}
    \cup {Decision("store", b, FALSE) : b \in Mailboxes}
    \cup {Decision("forward", b, TRUE) : b \in Mailboxes}

IntakeSteps == {"offered", "forwarding", "account", "storing", "enqueuing",
                "accepted", "relayed", "refused", "disowned"}
\* "promised": /api/inbound told the relay to forward; "superseded": the account's
\* forward took the only forwardTo of that answer.
Forwards == {"no", "ok", "failed", "promised", "superseded"}
JobStates == {"none", "ready", "leased", "acked", "dead", "lost"}
Resting == {"idle", "done", "failed", "crashed"}
Attaching == {"attach", "record", "rollback", "unstore"}
Steps == Resting \cup Attaching
           \cup {"resolve", "dedupe", "classify", "insert",
                 "reply", "notify", "webhook", "ack"}

Live(r) == pc[r] \notin Resting
Goto(r, step) == pc' = [pc EXCEPT ![r] = step]
Complete(r) == objects[r] = PartsOf[MailOf(r)] /\ records[r] = PartsOf[MailOf(r)]

Init ==
  /\ entry \in Entries
  /\ route \in [Mails -> Decisions]
  /\ intake = [m \in Mails |-> "offered"]
  /\ held = [m \in Mails |-> Null]
  /\ forwarded = [m \in Mails |-> "no"]
  /\ raw = {}
  /\ job = [m \in Mails |-> "none"]
  /\ tries = [m \in Mails |-> 0]
  /\ runs = [m \in Mails |-> 0]
  /\ pc = [r \in Runs |-> "idle"]
  /\ box = [r \in Runs |-> NoBox]
  /\ stored = {}
  /\ objects = [r \in Runs |-> {}]
  /\ records = [r \in Runs |-> {}]
  /\ announced = {}
  /\ overlapped = {} /\ torn = {} /\ dropped = {} /\ destroyed = {}
  /\ edits = 0 /\ duplicates = 0 /\ crashes = 0

Disturbable == duplicates + crashes + edits < MaxDisturbances

-----------------------------------------------------------------------------
(***************************************************************************)
(* The administrator edits the rules, mailboxes or aliases that decide a   *)
(* recipient's routing, at any time.                                       *)
(***************************************************************************)
EditRouting(m) ==
  /\ edits < MaxEdits /\ Disturbable
  /\ \E d \in Decisions \ {route[m]} : route' = [route EXCEPT ![m] = d]
  /\ edits' = edits + 1
  /\ UNCHANGED <<entry, intakeVars, queueVars, pc, dataVars, history,
                 duplicates, crashes>>

-----------------------------------------------------------------------------
(***************************************************************************)
(* Intake: worker.ts email() and intakeIncomingMail.                       *)
(***************************************************************************)
IntakeUnchanged == UNCHANGED <<entry, route, pc, dataVars, history, bounds>>

\* resolveIncomingMail never throws: a failed lookup counts as "no decision".
IntakeResolve(m) ==
  /\ intake[m] = "offered"
  /\ \E d \in {route[m], Null} :
       /\ held' = [held EXCEPT ![m] = IF d.action = "forward" THEN d ELSE Null]
       /\ intake' = [intake EXCEPT ![m] =
            CASE d.action = "reject" -> "refused"
              [] d.action = "forward" -> "forwarding"
              [] OTHER -> "account"]
  /\ UNCHANGED <<forwarded, raw, queueVars>>
  /\ IntakeUnchanged

\* The rule's forward: only a successful one without keepCopy ends the intake.
\* /api/inbound answers TRUE for a forward the relay has yet to make, and the
\* SMTP listener's forward may throw, which refuses the mail.
IntakeForward(m) ==
  /\ intake[m] = "forwarding"
  /\ \/ /\ entry # "relay"
        /\ forwarded' = [forwarded EXCEPT ![m] = "failed"]
        /\ \/ intake' = [intake EXCEPT ![m] = "account"]
           \/ entry = "smtp" /\ intake' = [intake EXCEPT ![m] = "refused"]
     \/ /\ forwarded' = [forwarded EXCEPT ![m] = IF entry = "relay" THEN "promised" ELSE "ok"]
        /\ intake' = [intake EXCEPT ![m] = IF held[m].keepCopy THEN "account" ELSE "relayed"]
  /\ held' = [held EXCEPT ![m] = Null]
  /\ UNCHANGED <<raw, queueVars>>
  /\ IntakeUnchanged

\* The account-wide forward, if there is one, whose own failure does not matter;
\* a failed lookup refuses the mail.
IntakeAccountForward(m) ==
  /\ intake[m] = "account"
  /\ \E next \in {"storing", "refused"} : intake' = [intake EXCEPT ![m] = next]
  /\ \/ UNCHANGED forwarded
     \/ /\ forwarded[m] = "promised"
        /\ forwarded' = [forwarded EXCEPT ![m] = "superseded"]
  /\ UNCHANGED <<held, raw, queueVars>>
  /\ IntakeUnchanged

\* Mutant: the message is sent to the queue before its raw object is stored.
EnqueueBeforeRaw(m) ==
  /\ intake[m] = "storing"
  /\ job' = [job EXCEPT ![m] = "ready"]
  /\ intake' = [intake EXCEPT ![m] = "enqueuing"]
  /\ UNCHANGED <<held, forwarded, raw, tries, runs>>
  /\ IntakeUnchanged

IntakeStoreRaw(m) ==
  /\ intake[m] = "storing"
  /\ \/ raw' = raw \cup {m} /\ intake' = [intake EXCEPT ![m] = "enqueuing"]
     \/ raw' = raw /\ intake' = [intake EXCEPT ![m] = "refused"]
  /\ UNCHANGED <<held, forwarded, queueVars>>
  /\ IntakeUnchanged

\* A queue that refuses the message makes the handler refuse the mail.
IntakeEnqueue(m) ==
  /\ intake[m] = "enqueuing"
  /\ \/ /\ job' = [job EXCEPT ![m] = "ready"]
        /\ intake' = [intake EXCEPT ![m] = "accepted"]
     \/ /\ job' = job
        /\ intake' = [intake EXCEPT ![m] = "refused"]
  /\ UNCHANGED <<held, forwarded, raw, tries, runs>>
  /\ IntakeUnchanged

\* The relay Worker acts on the answer of /api/inbound; a failure is only logged.
RelayForward(m) ==
  /\ intake[m] \in {"accepted", "relayed"}
  /\ forwarded[m] = "promised"
  /\ \E outcome \in {"ok", "failed"} : forwarded' = [forwarded EXCEPT ![m] = outcome]
  /\ UNCHANGED <<intake, held, raw, queueVars>>
  /\ IntakeUnchanged

\* The sender is told of a failure although this recipient's part is done: the
\* relay never gets the answer of /api/inbound, or the SMTP listener, which has
\* one answer for all recipients, refuses the mail because of another one.
Disown(m) ==
  /\ entry # "worker"
  /\ intake[m] \in {"accepted", "relayed"}
  /\ entry = "relay" => forwarded[m] \notin {"ok", "failed"}
  /\ intake' = [intake EXCEPT ![m] = "disowned"]
  /\ UNCHANGED <<held, forwarded, raw, queueVars>>
  /\ IntakeUnchanged

Intake(m) ==
  \/ IntakeResolve(m) \/ IntakeForward(m) \/ IntakeAccountForward(m)
  \/ IntakeStoreRaw(m) \/ IntakeEnqueue(m) \/ RelayForward(m)

-----------------------------------------------------------------------------
(***************************************************************************)
(* The queue.  A job is ready, leased by at least one run, acked, dead     *)
(* (retries used up) or lost with the memory of a Node process.            *)
(***************************************************************************)
\* Mutants of Retry: one attempt too many, and a failure that is only logged.
RetryOnceMore(m) ==
  IF job[m] # "leased" THEN UNCHANGED <<job, tries>>
  ELSE IF tries[m] <= MaxRetries
       THEN /\ job' = [job EXCEPT ![m] = "ready"]
            /\ tries' = [tries EXCEPT ![m] = @ + 1]
       ELSE job' = [job EXCEPT ![m] = "dead"] /\ UNCHANGED tries

RetryNothing(m) == UNCHANGED <<job, tries>>

\* msg.retry(), or InProcessQueue.deliver's catch.
Retry(m) ==
  IF job[m] # "leased" THEN UNCHANGED <<job, tries>>
  ELSE IF tries[m] < MaxRetries
       THEN /\ job' = [job EXCEPT ![m] = "ready"]
            /\ tries' = [tries EXCEPT ![m] = @ + 1]
       ELSE job' = [job EXCEPT ![m] = "dead"] /\ UNCHANGED tries

\* Begin run number runs[m] + 1 of mail m.
BeginRun(m) ==
  LET r == <<m, runs[m] + 1>> IN
  /\ runs[m] < MaxRuns
  /\ runs' = [runs EXCEPT ![m] = @ + 1]
  /\ Goto(r, "resolve")
  /\ job' = [job EXCEPT ![m] = "leased"]
  /\ overlapped' = IF \E q \in Runs : MailOf(q) = m /\ Live(q)
                   THEN overlapped \cup {m} ELSE overlapped
  /\ UNCHANGED <<entry, route, intakeVars, tries, dataVars, torn, dropped,
                 destroyed, edits, crashes>>

Deliver(m) ==
  /\ job[m] = "ready"
  /\ BeginRun(m)
  /\ UNCHANGED duplicates

\* Cloudflare Queues deliver at least once: a leased message may come again.
DeliverDuplicate(m) ==
  /\ entry = "worker"
  /\ job[m] = "leased"
  /\ duplicates < MaxDuplicates /\ Disturbable
  /\ duplicates' = duplicates + 1
  /\ BeginRun(m)

-----------------------------------------------------------------------------
(***************************************************************************)
(* The consumer, processInboundMessage.                                    *)
(***************************************************************************)
RunUnchanged == UNCHANGED <<entry, route, intakeVars, runs, bounds, overlapped>>
QueueUnchanged == UNCHANGED <<job, tries>>
RowsUnchanged == UNCHANGED <<stored, objects, records, torn, destroyed>>

\* Routing is resolved again, from the rules as they are now.
ResolveRecipient(r) ==
  LET d == route[MailOf(r)]
      discards == \/ d.action \in {"none", "reject"}
                  \/ d.action = "forward" /\ ~d.keepCopy
                  \/ d.mailbox = NoBox
  IN
  /\ pc[r] = "resolve"
  /\ Goto(r, IF discards THEN "ack" ELSE "dedupe")
  /\ dropped' = IF discards THEN dropped \cup {MailOf(r)} ELSE dropped
  /\ box' = IF discards THEN box ELSE [box EXCEPT ![r] = d.mailbox]
  /\ UNCHANGED <<announced>>
  /\ RowsUnchanged /\ QueueUnchanged /\ RunUnchanged

\* Mutant: no look-up of a stored row.
FindNothing(r) ==
  /\ pc[r] = "dedupe"
  /\ Goto(r, "classify")
  /\ UNCHANGED <<box, announced, dropped>>
  /\ RowsUnchanged /\ QueueUnchanged /\ RunUnchanged

\* A row of this raw key in this mailbox ends the run.  (The raw object is
\* always found: nothing deletes it.)
FindStored(r) ==
  /\ pc[r] = "dedupe"
  /\ Goto(r, IF \E q \in stored : MailOf(q) = MailOf(r) /\ box[q] = box[r]
             THEN "ack" ELSE "classify")
  /\ UNCHANGED <<box, announced, dropped>>
  /\ RowsUnchanged /\ QueueUnchanged /\ RunUnchanged

\* Mailbox rules, spam analysis (its errors leave the verdict unknown), contact
\* and thread lookups: what they come to is told apart in FinishAttachments.
Classify(r) ==
  /\ pc[r] = "classify"
  /\ Goto(r, "insert")
  /\ UNCHANGED <<box, announced, dropped>>
  /\ RowsUnchanged /\ QueueUnchanged /\ RunUnchanged

\* Mutant: the attachments are not awaited.
InsertRowAndGoOn(r) ==
  /\ pc[r] = "insert"
  /\ stored' = stored \cup {r} /\ Goto(r, "webhook")
  /\ UNCHANGED <<box, announced, dropped, objects, records, torn, destroyed>>
  /\ QueueUnchanged /\ RunUnchanged

InsertRow(r) ==
  /\ pc[r] = "insert"
  /\ \/ stored' = stored \cup {r} /\ Goto(r, "attach")
     \/ stored' = stored /\ Goto(r, "unstore")
  /\ UNCHANGED <<box, announced, dropped, objects, records, torn, destroyed>>
  /\ QueueUnchanged /\ RunUnchanged

(***************************************************************************)
(* storeMessageAttachments: per attachment an object, then a row, one      *)
(* attachment after the other.                                             *)
(***************************************************************************)
PutObject(r) ==
  /\ pc[r] = "attach"
  /\ \E p \in PartsOf[MailOf(r)] \ objects[r] :
       objects' = [objects EXCEPT ![r] = @ \cup {p}]
  /\ Goto(r, "record")
  /\ UNCHANGED <<box, stored, records, announced, torn, dropped, destroyed>>
  /\ QueueUnchanged /\ RunUnchanged

\* The row refers to its message, which a user may have destroyed by now.
InsertRecord(r) ==
  /\ pc[r] = "record"
  /\ r \in stored
  /\ records' = [records EXCEPT ![r] = objects[r]]
  /\ Goto(r, "attach")
  /\ UNCHANGED <<box, stored, objects, announced, torn, dropped, destroyed>>
  /\ QueueUnchanged /\ RunUnchanged

\* The status Classify came to decides what follows: "received" is answered,
\* "spam" is not notified of.
FinishAttachments(r) ==
  /\ pc[r] = "attach"
  /\ objects[r] = PartsOf[MailOf(r)]
  /\ \E next \in {"reply", "notify", "webhook"} : Goto(r, next)
  /\ UNCHANGED <<box, announced, dropped>>
  /\ RowsUnchanged /\ QueueUnchanged /\ RunUnchanged

\* A put or an insert throws.
FailAttachments(r) ==
  /\ \/ pc[r] = "attach" /\ objects[r] # PartsOf[MailOf(r)]
     \/ pc[r] = "record"
  /\ Goto(r, "rollback")
  /\ UNCHANGED <<box, announced, dropped>>
  /\ RowsUnchanged /\ QueueUnchanged /\ RunUnchanged

\* The inner catch deletes the objects; some of those deletes may fail.
DeleteObjects(r) ==
  /\ pc[r] = "rollback"
  /\ \E left \in SUBSET objects[r] : objects' = [objects EXCEPT ![r] = left]
  /\ Goto(r, "unstore")
  /\ UNCHANGED <<box, stored, records, announced, torn, dropped, destroyed>>
  /\ QueueUnchanged /\ RunUnchanged

\* Mutant: the outer catch only rethrows.
KeepRow(r) ==
  /\ pc[r] = "unstore"
  /\ Goto(r, "failed")
  /\ Retry(MailOf(r))
  /\ UNCHANGED <<box, announced, dropped>>
  /\ RowsUnchanged /\ RunUnchanged

\* The outer catch deletes the row, whose attachment rows cascade, and rethrows.
\* When that delete throws too, the row stays as it is.
DeleteRow(r) ==
  /\ pc[r] = "unstore"
  /\ \/ /\ stored' = stored \ {r}
        /\ records' = [records EXCEPT ![r] = {}]
        /\ UNCHANGED torn
     \/ /\ r \in stored
        /\ torn' = torn \cup {r}
        /\ UNCHANGED <<stored, records>>
  /\ Goto(r, "failed")
  /\ Retry(MailOf(r))
  /\ UNCHANGED <<box, objects, announced, dropped, destroyed>>
  /\ RunUnchanged

\* Whatever sendMailboxAutoReply does, its errors are swallowed.
AutoReply(r) ==
  /\ pc[r] = "reply"
  /\ Goto(r, "notify")
  /\ UNCHANGED <<box, announced, dropped>>
  /\ RowsUnchanged /\ QueueUnchanged /\ RunUnchanged

Notify(r) ==
  /\ pc[r] = "notify"
  /\ Goto(r, "webhook")
  /\ UNCHANGED <<box, announced, dropped>>
  /\ RowsUnchanged /\ QueueUnchanged /\ RunUnchanged

DispatchWebhooks(r) ==
  /\ pc[r] = "webhook"
  /\ announced' = announced \cup {r}
  /\ Goto(r, "ack")
  /\ UNCHANGED <<box, dropped>>
  /\ RowsUnchanged /\ QueueUnchanged /\ RunUnchanged

Ack(r) ==
  /\ pc[r] = "ack"
  /\ Goto(r, "done")
  /\ job' = [job EXCEPT ![MailOf(r)] = IF @ = "leased" THEN "acked" ELSE @]
  /\ UNCHANGED <<tries, box, announced, dropped>>
  /\ RowsUnchanged /\ RunUnchanged

\* A database or bucket error outside the try blocks reaches the queue consumer.
RunFails(r) ==
  /\ pc[r] \in {"resolve", "dedupe", "classify", "notify", "webhook"}
  /\ Goto(r, "failed")
  /\ Retry(MailOf(r))
  /\ UNCHANGED <<box, announced, dropped>>
  /\ RowsUnchanged /\ RunUnchanged

Run(r) ==
  \/ ResolveRecipient(r) \/ FindStored(r) \/ Classify(r) \/ InsertRow(r)
  \/ PutObject(r) \/ InsertRecord(r) \/ FinishAttachments(r)
  \/ FailAttachments(r) \/ DeleteObjects(r) \/ DeleteRow(r)
  \/ AutoReply(r) \/ Notify(r) \/ DispatchWebhooks(r) \/ Ack(r) \/ RunFails(r)

-----------------------------------------------------------------------------
(***************************************************************************)
(* Crashes, and the one thing a user does that the consumer can notice.    *)
(***************************************************************************)
TornBy(crashing) == torn \cup {r \in crashing \cap stored : pc[r] \in Attaching}

\* A Worker invocation ends early; the queue counts it as a failed delivery.
CrashRun(r) ==
  /\ entry = "worker" /\ crashes < MaxCrashes /\ Disturbable
  /\ Live(r)
  /\ Goto(r, "crashed")
  /\ torn' = TornBy({r})
  /\ Retry(MailOf(r))
  /\ crashes' = crashes + 1
  /\ UNCHANGED <<entry, route, intakeVars, runs, dataVars, overlapped, dropped,
                 destroyed, edits, duplicates>>

\* The Node process restarts: its queue, its runs and its SMTP sessions are gone.
RestartProcess ==
  LET live == {r \in Runs : Live(r)} IN
  /\ entry # "worker" /\ crashes < MaxCrashes /\ Disturbable
  /\ pc' = [r \in Runs |-> IF r \in live THEN "crashed" ELSE pc[r]]
  /\ torn' = TornBy(live)
  /\ job' = [m \in Mails |-> IF job[m] \in {"ready", "leased"} THEN "lost" ELSE job[m]]
  /\ intake' = [m \in Mails |->
       IF intake[m] \in {"forwarding", "account", "storing", "enqueuing"}
       THEN "refused" ELSE intake[m]]
  /\ crashes' = crashes + 1
  /\ UNCHANGED <<entry, route, held, forwarded, raw, tries, runs, dataVars,
                 overlapped, dropped, destroyed, edits, duplicates>>

\* JMAP Email/set destroy of a row in the trash; attachment rows cascade.
Destroy(r) ==
  /\ r \in stored
  /\ stored' = stored \ {r}
  /\ records' = [records EXCEPT ![r] = {}]
  /\ destroyed' = destroyed \cup {r}
  /\ UNCHANGED <<entry, route, intakeVars, queueVars, pc, box, objects,
                 announced, overlapped, torn, dropped, bounds>>

Next ==
  \/ \E m \in Mails : EditRouting(m) \/ Intake(m) \/ Disown(m) \/ Deliver(m) \/ DeliverDuplicate(m)
  \/ \E r \in Runs : Run(r) \/ CrashRun(r) \/ Destroy(r)
  \/ RestartProcess

(***************************************************************************)
(* A handler that started goes on, and the queue delivers what is ready.   *)
(* Nothing forces an edit, a crash, a duplicate or a user's action.        *)
(***************************************************************************)
Handling ==
  \/ \E m \in Mails : Intake(m) \/ Deliver(m)
  \/ \E r \in Runs : Run(r)
Fairness == WF_vars(Handling)

Spec == Init /\ [][Next]_vars
FairSpec == Spec /\ Fairness

-----------------------------------------------------------------------------
(***************************************************************************)
(* Properties                                                              *)
(***************************************************************************)
TypeOK ==
  /\ entry \in Entries
  /\ route \in [Mails -> Decisions]
  /\ intake \in [Mails -> IntakeSteps]
  /\ held \in [Mails -> Decisions]
  /\ forwarded \in [Mails -> Forwards]
  /\ raw \subseteq Mails
  /\ job \in [Mails -> JobStates]
  /\ tries \in [Mails -> 0..MaxRetries]
  /\ runs \in [Mails -> 0..MaxRuns]
  /\ pc \in [Runs -> Steps]
  /\ box \in [Runs -> Mailboxes \cup {NoBox}]
  /\ stored \subseteq Runs
  /\ objects \in [Runs -> SUBSET Parts]
  /\ records \in [Runs -> SUBSET Parts]
  /\ announced \subseteq Runs
  /\ overlapped \subseteq Mails
  /\ torn \subseteq Runs
  /\ dropped \subseteq Mails
  /\ destroyed \subseteq Runs
  /\ edits \in 0..MaxEdits
  /\ duplicates \in 0..MaxDuplicates
  /\ crashes \in 0..MaxCrashes

(***************************************************************************)
(* Redelivery never files a mail twice: two rows of one mail mean that two *)
(* deliveries ran at once, or that the routing named another mailbox when  *)
(* an interrupted delivery was repeated (the select before the insert,     *)
(* inbound.ts:58-62, is keyed by mailbox and raw object).  And what a user *)
(* destroyed stays destroyed: it is filed again in that mailbox only if    *)
(* the delivery that had filed it never finished.                          *)
(***************************************************************************)
OneCopy ==
  \A q, r \in stored :
    (q # r /\ MailOf(q) = MailOf(r) /\ MailOf(r) \notin overlapped) =>
      /\ box[q] # box[r]
      /\ pc[q] \in {"failed", "crashed"} \/ pc[r] \in {"failed", "crashed"}
DestroyedStaysGone ==
  \A q \in destroyed, r \in stored :
    (q # r /\ MailOf(q) = MailOf(r) /\ box[q] = box[r])
      => pc[q] # "done" \/ MailOf(r) \in overlapped
FiledOnce == OneCopy /\ DestroyedStaysGone

(***************************************************************************)
(* A row outside its attachment step has all of its attachments, objects   *)
(* and rows: a failure there takes the row away again (inbound.ts:168-171),*)
(* unless the delivery was cut off in between.                             *)
(***************************************************************************)
StoredIsComplete ==
  \A r \in stored : pc[r] \notin Attaching /\ r \notin torn => Complete(r)

(***************************************************************************)
(* The message.inbound webhook tells of a mail at most once per mailbox,   *)
(* and only of a row that is complete or that a user has destroyed.        *)
(***************************************************************************)
AnnouncedOnce ==
  \A r \in announced :
    /\ r \in stored \cup destroyed
    /\ r \in stored => Complete(r)
    /\ \A q \in announced :
         (q # r /\ MailOf(q) = MailOf(r) /\ box[q] = box[r])
           => MailOf(r) \in overlapped \/ {q, r} \cap destroyed # {}

(***************************************************************************)
(* What the sender and the queue were told is true.  A job the queue       *)
(* regards as finished left a row, unless the routing in force when it ran *)
(* discards the mail or two deliveries ran at once.  A mail its own intake *)
(* refused never turns up; one that was disowned after it had been queued  *)
(* does, and comes again with the sender's retry.                          *)
(***************************************************************************)
AckedMeansHandled ==
  \A m \in Mails : job[m] = "acked" =>
    \/ \E r \in stored \cup destroyed : MailOf(r) = m
    \/ m \in dropped \/ m \in overlapped
RefusedIsNotFiled ==
  \A m \in Mails : intake[m] = "refused" => \A r \in stored : MailOf(r) # m
HandledTruly == AckedMeansHandled /\ RefusedIsNotFiled

(***************************************************************************)
(* Every queued mail is eventually acked, given up after MaxRetries or     *)
(* lost with the process: no failure pattern keeps a job going for ever.   *)
(***************************************************************************)
JobsEnd ==
  \A m \in Mails : job[m] = "ready" ~>
    job[m] \in {"acked", "dead", "lost"} \/ runs[m] = MaxRuns

(***************************************************************************)
(* "If the forward itself failed we still store it, so mail is never       *)
(* silently lost" (worker.ts:54-55): with the routing left alone, a mail   *)
(* whose forward failed and whose job is done is in a mailbox.             *)
(***************************************************************************)
FailedForwardIsStored ==
  \A m \in Mails :
    (forwarded[m] = "failed" /\ job[m] = "acked" /\ edits = 0 /\ m \notin overlapped)
      => \E r \in stored \cup destroyed : MailOf(r) = m
=============================================================================
