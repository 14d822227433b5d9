------------------------------ MODULE Outbound ------------------------------
(***************************************************************************)
(* One outgoing mail: the request that runs sendEmail, the scheduled       *)
(* delivery it may leave on the outbound queue, the consumer               *)
(* processOutboundQueue that repeats it, and deliverEmail, which both use  *)
(* (send.ts).  The mail provider is a service that accepts a mail or       *)
(* throws.                                                                 *)
(*                                                                         *)
(* A run is one execution of deliverEmail's caller: run 0 is the request,  *)
(* run n > 0 the n-th delivery of one of the mail's queue messages, which  *)
(* are called tickets here.                                                *)
(***************************************************************************)
EXTENDS Naturals, FiniteSets

CONSTANTS
  Mails,          \* one element per call of sendEmail
  MaxRetries,     \* wrangler.jsonc max_retries; InProcessQueue maxRetries
  MaxTickets,     \* bound: queue messages of one mail
  MaxRuns,        \* bound: queue deliveries of one mail
  MaxFaults       \* bound: crashes, and deliveries of a ticket already in flight

ASSUME OutboundAssumption ==
  /\ MaxRetries \in Nat /\ MaxFaults \in Nat
  /\ MaxTickets \in Nat \ {0}
  /\ MaxRuns \in Nat

VARIABLES
  runtime,      \* "worker": durable queue; "node": InProcessQueue; never changes
  scheduled,    \* mails asked for at a later time; never changes
  due,          \* mails whose time has come
  row,          \* messages.status of each mail, or that there is no row
  files,        \* mails whose attachments are stored with the row
  jobs,         \* outbound_jobs.status of each mail, or "none"
  answer,       \* what the caller of sendEmail was told
  ticket,       \* state of each queue message
  tries,        \* its failed deliveries counted against max_retries
  runs,         \* queue deliveries begun so far
  pc,           \* program counter of each run
  serves,       \* the ticket each run delivers
  carried,      \* runs whose delivery holds the attachments
  accepted,     \* runs whose mail the provider accepted
  told,         \* events dispatched to webhooks, per mail
  (* history, read by no action *)
  overlapped,   \* mails that had two runs at once
  tripped,      \* runs that threw after the provider had accepted the mail
  slipped,      \* runs the provider accepted that ended before the job was settled
  faults \* counters for the bounds

queueVars == <<ticket, tries>>
storeVars == <<row, files, jobs>>
deliveryVars == <<carried, accepted, told>>
history == <<overlapped, tripped, slipped>>
bounds == <<faults>>
vars == <<runtime, scheduled, due, storeVars, answer, queueVars, runs, pc, serves,
          deliveryVars, history, bounds>>

Runs == Mails \X (0..MaxRuns)
Tickets == Mails \X (1..MaxTickets)
MailOf(r) == r[1]
IsRequest(r) == r[2] = 0

RowStates == {"none", "queued", "sent", "failed", "trash", "gone"}
JobStates == {"none", "queued", "sent", "failed"}
TicketStates == {"free", "ready", "leased", "acked", "dead", "lost"}
Events == {"message.outbound", "message.failed"}
Resting == {"idle", "done", "failed", "crashed"}
Recording == {"mark", "markJob"}
Reporting == {"event", "audit"}
Catching == {"failMark", "failJob", "failEvent"}
Steps == Resting \cup Recording \cup Reporting \cup Catching
           \cup {"row", "files", "undo", "job", "enqueue",
                 "read", "requeue", "load", "send", "return"}

Live(r) == pc[r] \notin Resting
\* A run that only has its answer or its ack to give touches nothing any more.
Working(r) == Live(r) /\ pc[r] # "return"
Goto(r, step) == pc' = [pc EXCEPT ![r] = step]
TicketOf(r) == <<MailOf(r), serves[r]>>
Free(m) == {t \in Tickets : t[1] = m /\ ticket[t] = "free"}

Init ==
  /\ runtime \in {"worker", "node"}
  /\ scheduled \in SUBSET Mails
  /\ due = Mails \ scheduled
  /\ row = [m \in Mails |-> "none"]
  /\ files = {}
  /\ jobs = [m \in Mails |-> "none"]
  /\ answer = [m \in Mails |-> "none"]
  /\ ticket = [t \in Tickets |-> "free"]
  /\ tries = [t \in Tickets |-> 0]
  /\ runs = [m \in Mails |-> 0]
  /\ pc = [r \in Runs |-> IF IsRequest(r) THEN "row" ELSE "idle"]
  /\ serves = [r \in Runs |-> 0]
  /\ carried = {r \in Runs : IsRequest(r)}
  /\ accepted = {}
  /\ told = [m \in Mails |-> {}]
  /\ overlapped = {} /\ tripped = {} /\ slipped = {}
  /\ faults = 0

-----------------------------------------------------------------------------
(***************************************************************************)
(* How a run ends.  A request answers its caller; a queue delivery acks or *)
(* retries its ticket (worker.ts queue(), InProcessQueue.deliver).         *)
(***************************************************************************)
\* Mutants of Retry: one attempt too many, and a failure that is only logged.
RetryOnceMore(t) ==
  IF ticket[t] # "leased" THEN UNCHANGED queueVars
  ELSE IF tries[t] <= MaxRetries
       THEN /\ ticket' = [ticket EXCEPT ![t] = "ready"]
            /\ tries' = [tries EXCEPT ![t] = @ + 1]
       ELSE ticket' = [ticket EXCEPT ![t] = "dead"] /\ UNCHANGED tries

RetryNothing(t) == UNCHANGED queueVars

Retry(t) ==
  IF ticket[t] # "leased" THEN UNCHANGED queueVars
  ELSE IF tries[t] < MaxRetries
       THEN /\ ticket' = [ticket EXCEPT ![t] = "ready"]
            /\ tries' = [tries EXCEPT ![t] = @ + 1]
       ELSE ticket' = [ticket EXCEPT ![t] = "dead"] /\ UNCHANGED tries

\* The run stops at this point, by an error or a crash, and its job is as it was.
Slips(r) == slipped' = IF r \in accepted /\ jobs[MailOf(r)] = "queued"
                       THEN slipped \cup {r} ELSE slipped

Throw(r) ==
  /\ Goto(r, "failed")
  /\ IF IsRequest(r)
     THEN answer' = [answer EXCEPT ![MailOf(r)] = "error"] /\ UNCHANGED queueVars
     ELSE Retry(TicketOf(r)) /\ UNCHANGED answer
  /\ Slips(r)

Same == UNCHANGED <<runtime, scheduled, due, runs, serves, overlapped, bounds>>
SameEnd == UNCHANGED <<answer, queueVars, slipped>>

-----------------------------------------------------------------------------
(***************************************************************************)
(* The request: sendEmail, after its input was found valid.                *)
(***************************************************************************)
InsertRow(r) ==
  /\ pc[r] = "row"
  /\ \/ row' = [row EXCEPT ![MailOf(r)] = "queued"] /\ Goto(r, "files") /\ SameEnd
     \/ UNCHANGED row /\ Throw(r)
  /\ UNCHANGED <<files, jobs, deliveryVars, tripped>> /\ Same

\* storeMessageAttachments stores all the files or throws.
StoreFiles(r) ==
  /\ pc[r] = "files"
  /\ \/ /\ row[MailOf(r)] # "gone"   \* their foreign key
        /\ files' = files \cup {MailOf(r)}
        /\ Goto(r, "job")
     \/ UNCHANGED files /\ Goto(r, "undo")
  /\ UNCHANGED <<row, jobs, deliveryVars, tripped>> /\ SameEnd /\ Same

\* The catch deletes the row and rethrows; the delete may throw as well.
DeleteRow(r) ==
  /\ pc[r] = "undo"
  /\ \/ row' = [row EXCEPT ![MailOf(r)] = "gone"]
     \/ UNCHANGED row
  /\ Throw(r)
  /\ UNCHANGED <<files, jobs, deliveryVars, tripped>> /\ Same

InsertJob(r) ==
  LET m == MailOf(r) IN
  /\ pc[r] = "job"
  /\ \/ /\ row[m] # "gone"   \* its foreign key
        /\ jobs' = [jobs EXCEPT ![m] = "queued"]
        /\ Goto(r, IF m \in scheduled THEN "enqueue" ELSE "send")
        /\ SameEnd
     \/ UNCHANGED jobs /\ Throw(r)
  /\ UNCHANGED <<row, files, deliveryVars, tripped>> /\ Same

\* Mutant: an error of the queue is swallowed.
EnqueueSilently(r) ==
  /\ pc[r] \in {"enqueue", "requeue"}
  /\ \/ \E t \in Free(MailOf(r)) : ticket' = [ticket EXCEPT ![t] = "ready"]
     \/ UNCHANGED ticket
  /\ Goto(r, "return")
  /\ UNCHANGED <<answer, tries, slipped, storeVars, deliveryVars, tripped>> /\ Same

\* enqueueScheduledDelivery, by the request or by a consumer that came too early:
\* the queue's delay is capped at a day, so a longer wait takes several tickets.
Enqueue(r) ==
  LET m == MailOf(r) IN
  /\ pc[r] \in {"enqueue", "requeue"}
  /\ \/ /\ \E t \in Free(m) : ticket' = [ticket EXCEPT ![t] = "ready"]
        /\ Goto(r, "return")
        /\ UNCHANGED <<answer, tries, slipped>>
     \/ Throw(r)
  /\ UNCHANGED <<storeVars, deliveryVars, tripped>> /\ Same

-----------------------------------------------------------------------------
(***************************************************************************)
(* The consumer: processOutboundQueue.                                     *)
(***************************************************************************)
BeginRun(t) ==
  LET m == t[1] r == <<m, runs[m] + 1>> IN
  /\ runs[m] < MaxRuns
  /\ runs' = [runs EXCEPT ![m] = @ + 1]
  /\ Goto(r, "read")
  /\ serves' = [serves EXCEPT ![r] = t[2]]
  /\ ticket' = [ticket EXCEPT ![t] = "leased"]
  /\ overlapped' = IF \E q \in Runs : MailOf(q) = m /\ Working(q)
                   THEN overlapped \cup {m} ELSE overlapped
  /\ UNCHANGED <<runtime, scheduled, due, storeVars, answer, tries, deliveryVars,
                 tripped, slipped>>

Deliver(t) ==
  /\ ticket[t] = "ready"
  /\ BeginRun(t)
  /\ UNCHANGED faults

\* Cloudflare Queues deliver at least once: a leased ticket may come again.
DeliverDuplicate(t) ==
  /\ runtime = "worker"
  /\ ticket[t] = "leased"
  /\ faults < MaxFaults
  /\ faults' = faults + 1
  /\ BeginRun(t)

\* Mutant: no look at the status.
ReadUnguarded(r) ==
  /\ pc[r] = "read"
  /\ Goto(r, "load") /\ SameEnd
  /\ UNCHANGED <<storeVars, deliveryVars, tripped>> /\ Same

\* Only a job that is still queued is acted on.  (MaxTickets is the horizon: the
\* last ticket waits for the mail to be due.)
ReadJob(r) ==
  LET m == MailOf(r) IN
  /\ pc[r] = "read"
  /\ \/ /\ jobs[m] # "queued"
        /\ Goto(r, "return") /\ SameEnd
     \/ /\ jobs[m] = "queued" /\ m \in due
        /\ Goto(r, "load") /\ SameEnd
     \/ /\ jobs[m] = "queued" /\ m \notin due /\ Free(m) # {}
        /\ Goto(r, "requeue") /\ SameEnd
     \/ Throw(r)
  /\ UNCHANGED <<storeVars, deliveryVars, tripped>> /\ Same

\* Mutant: the attachments of a scheduled mail are not loaded.
LoadNothing(r) ==
  /\ pc[r] = "load"
  /\ Goto(r, "send") /\ SameEnd
  /\ UNCHANGED <<storeVars, deliveryVars, tripped>> /\ Same

LoadFiles(r) ==
  /\ pc[r] = "load"
  /\ \/ /\ carried' = IF MailOf(r) \in files THEN carried \cup {r} ELSE carried
        /\ Goto(r, "send") /\ SameEnd
     \/ UNCHANGED carried /\ Throw(r)
  /\ UNCHANGED <<storeVars, accepted, told, tripped>> /\ Same

-----------------------------------------------------------------------------
(***************************************************************************)
(* deliverEmail.  Every error after "send" is taken by the same catch.     *)
(***************************************************************************)
\* Mutant: an error of the provider is logged and passed over.
SendAndGoOn(r) ==
  /\ pc[r] = "send"
  /\ accepted' \in {accepted, accepted \cup {r}}
  /\ Goto(r, "mark")
  /\ UNCHANGED <<storeVars, carried, told, tripped>> /\ SameEnd /\ Same

Send(r) ==
  /\ pc[r] = "send"
  /\ \/ accepted' = accepted \cup {r} /\ Goto(r, "mark")
     \/ UNCHANGED accepted /\ Goto(r, "failMark")
  /\ UNCHANGED <<storeVars, carried, told, tripped>> /\ SameEnd /\ Same

\* Updating a row that is gone is no error.
SetRow(m, s) == row' = [row EXCEPT ![m] = IF @ = "gone" THEN @ ELSE s]

MarkSent(r) ==
  /\ pc[r] = "mark"
  /\ SetRow(MailOf(r), "sent")
  /\ Goto(r, "markJob")
  /\ UNCHANGED <<files, jobs, deliveryVars, tripped>> /\ SameEnd /\ Same

MarkJobSent(r) ==
  /\ pc[r] = "markJob"
  /\ jobs' = [jobs EXCEPT ![MailOf(r)] = "sent"]
  /\ Goto(r, "event")
  /\ UNCHANGED <<row, files, deliveryVars, tripped>> /\ SameEnd /\ Same

Tell(m, e) == told' = [told EXCEPT ![m] = @ \cup {e}]

Announce(r) ==
  /\ pc[r] = "event"
  /\ Tell(MailOf(r), "message.outbound")
  /\ Goto(r, "audit")
  /\ UNCHANGED <<storeVars, carried, accepted, tripped>> /\ SameEnd /\ Same

Audit(r) ==
  /\ pc[r] = "audit"
  /\ Goto(r, "return")
  /\ UNCHANGED <<storeVars, deliveryVars, tripped>> /\ SameEnd /\ Same

\* One of the four steps above throws; of the hooks told, some may have been.
Trip(r) ==
  /\ pc[r] \in Recording \cup Reporting
  /\ tripped' = tripped \cup {r}
  /\ \/ UNCHANGED told
     \/ pc[r] = "event" /\ Tell(MailOf(r), "message.outbound")
  /\ Goto(r, "failMark")
  /\ UNCHANGED <<storeVars, carried, accepted>> /\ SameEnd /\ Same

FailMark(r) ==
  /\ pc[r] = "failMark"
  /\ SetRow(MailOf(r), "failed")
  /\ Goto(r, "failJob")
  /\ UNCHANGED <<files, jobs, deliveryVars, tripped>> /\ SameEnd /\ Same

FailJob(r) ==
  /\ pc[r] = "failJob"
  /\ jobs' = [jobs EXCEPT ![MailOf(r)] = "failed"]
  /\ Goto(r, "failEvent")
  /\ UNCHANGED <<row, files, deliveryVars, tripped>> /\ SameEnd /\ Same

\* The catch ends by rethrowing.
FailEvent(r) ==
  /\ pc[r] = "failEvent"
  /\ Tell(MailOf(r), "message.failed")
  /\ Throw(r)
  /\ UNCHANGED <<storeVars, carried, accepted, tripped>> /\ Same

\* A step of the catch itself throws.
CatchFails(r) ==
  /\ pc[r] \in Catching
  /\ Throw(r)
  /\ UNCHANGED <<storeVars, deliveryVars, tripped>> /\ Same

Return(r) ==
  /\ pc[r] = "return"
  /\ Goto(r, "done")
  /\ IF IsRequest(r)
     THEN answer' = [answer EXCEPT ![MailOf(r)] = "ok"] /\ UNCHANGED ticket
     ELSE /\ ticket' = [ticket EXCEPT ![TicketOf(r)] = IF @ = "leased" THEN "acked" ELSE @]
          /\ UNCHANGED answer
  /\ UNCHANGED <<storeVars, tries, deliveryVars, tripped, slipped>> /\ Same

Run(r) ==
  \/ InsertRow(r) \/ StoreFiles(r) \/ DeleteRow(r) \/ InsertJob(r) \/ Enqueue(r)
  \/ ReadJob(r) \/ LoadFiles(r)
  \/ Send(r) \/ MarkSent(r) \/ MarkJobSent(r) \/ Announce(r) \/ Audit(r) \/ Trip(r)
  \/ FailMark(r) \/ FailJob(r) \/ FailEvent(r) \/ CatchFails(r) \/ Return(r)

-----------------------------------------------------------------------------
(***************************************************************************)
(* Time, users and crashes.                                                *)
(***************************************************************************)
BecomesDue(m) ==
  /\ m \notin due
  /\ due' = due \cup {m}
  /\ UNCHANGED <<runtime, scheduled, storeVars, answer, queueVars, runs, pc, serves,
                 deliveryVars, history, bounds>>

\* A user moves the message to the trash, and deletes it from there; the rows of
\* its attachments cascade, the job stays.
Trash(m) ==
  /\ row[m] \in {"queued", "sent", "failed"}
  /\ row' = [row EXCEPT ![m] = "trash"]
  /\ UNCHANGED <<runtime, scheduled, due, files, jobs, answer, queueVars, runs, pc,
                 serves, deliveryVars, history, bounds>>

Destroy(m) ==
  /\ row[m] = "trash"
  /\ row' = [row EXCEPT ![m] = "gone"]
  /\ files' = files \ {m}
  /\ UNCHANGED <<runtime, scheduled, due, jobs, answer, queueVars, runs, pc, serves,
                 deliveryVars, history, bounds>>

\* A Worker invocation ends early; a queue delivery counts as failed.
CrashRun(r) ==
  /\ runtime = "worker" /\ faults < MaxFaults
  /\ Live(r)
  /\ Goto(r, "crashed")
  /\ IF IsRequest(r) THEN UNCHANGED queueVars ELSE Retry(TicketOf(r))
  /\ Slips(r)
  /\ faults' = faults + 1
  /\ UNCHANGED <<runtime, scheduled, due, storeVars, answer, runs, serves,
                 deliveryVars, overlapped, tripped>>

\* The Node process restarts: its requests, runs and tickets are gone.
RestartProcess ==
  LET live == {r \in Runs : Live(r)} IN
  /\ runtime = "node" /\ faults < MaxFaults
  /\ pc' = [r \in Runs |-> IF r \in live THEN "crashed" ELSE pc[r]]
  /\ ticket' = [t \in Tickets |-> IF ticket[t] \in {"ready", "leased"} THEN "lost" ELSE ticket[t]]
  /\ slipped' = slipped \cup {r \in live \cap accepted : jobs[MailOf(r)] = "queued"}
  /\ faults' = faults + 1
  /\ UNCHANGED <<runtime, scheduled, due, storeVars, answer, tries, runs, serves,
                 deliveryVars, overlapped, tripped>>

Next ==
  \/ \E t \in Tickets : Deliver(t) \/ DeliverDuplicate(t)
  \/ \E r \in Runs : Run(r) \/ CrashRun(r)
  \/ \E m \in Mails : BecomesDue(m) \/ Trash(m) \/ Destroy(m)
  \/ RestartProcess

(***************************************************************************)
(* A handler that started goes on, time passes, and the queue delivers     *)
(* what is ready.  Nothing forces a user's action, a crash or a duplicate. *)
(***************************************************************************)
Handling ==
  \/ \E r \in Runs : Run(r)
  \/ \E t \in Tickets : Deliver(t)
  \/ \E m \in Mails : BecomesDue(m)
Fairness == WF_vars(Handling)

Spec == Init /\ [][Next]_vars
FairSpec == Spec /\ Fairness

-----------------------------------------------------------------------------
(***************************************************************************)
(* Properties                                                              *)
(***************************************************************************)
TypeOK ==
  /\ runtime \in {"worker", "node"}
  /\ scheduled \subseteq Mails /\ due \subseteq Mails
  /\ row \in [Mails -> RowStates]
  /\ files \subseteq Mails
  /\ jobs \in [Mails -> JobStates]
  /\ answer \in [Mails -> {"none", "ok", "error"}]
  /\ ticket \in [Tickets -> TicketStates]
  /\ tries \in [Tickets -> 0..MaxRetries]
  /\ runs \in [Mails -> 0..MaxRuns]
  /\ pc \in [Runs -> Steps]
  /\ serves \in [Runs -> 0..MaxTickets]
  /\ carried \subseteq Runs /\ accepted \subseteq Runs
  /\ told \in [Mails -> SUBSET Events]
  /\ overlapped \subseteq Mails /\ tripped \subseteq Runs /\ slipped \subseteq Runs
  /\ faults \in 0..MaxFaults

SentBy(m) == {r \in accepted : MailOf(r) = m}

(***************************************************************************)
(* Sending keeps the promise of Once: a mail goes out at most once, none   *)
(* whose job is settled (send.ts:273), and the job tells what became of    *)
(* it, but for the mails two runs worked on at once, and those with a run  *)
(* that ended or whose bookkeeping threw between the provider's answer and *)
(* the settled job.                                                        *)
(***************************************************************************)
JobState(m) ==
  CASE jobs[m] = "none" -> "new" [] jobs[m] = "queued" -> "open"
    [] jobs[m] = "sent" -> "done" [] jobs[m] = "failed" -> "failed"
Job == INSTANCE Once WITH
  Items <- Mails,
  state <- [m \in Mails |-> JobState(m)],
  effects <- [m \in Mails |-> Cardinality(SentBy(m))],
  doubtful <- overlapped \cup {MailOf(r) : r \in tripped \cup slipped}
SendsOnce == Job!Spec

(***************************************************************************)
(* A mail is sent with its attachments, however late, unless a user has    *)
(* destroyed the message that keeps them (send.ts:302).                    *)
(***************************************************************************)
FilesTravel ==
  \A r \in accepted : r \in carried \/ row[MailOf(r)] = "gone"

(***************************************************************************)
(* What is said of a mail is true: the provider accepted one that an event *)
(* reports as sent, and neither did nor will accept one that an event      *)
(* reports as failed or whose caller got an error and may send it again,   *)
(* but for the runs whose bookkeeping threw or was cut off after the       *)
(* sending.                                                                *)
(***************************************************************************)
EventsAreTrue ==
  \A m \in Mails :
    /\ "message.outbound" \in told[m] => SentBy(m) # {}
    /\ "message.failed" \in told[m] =>
         SentBy(m) \subseteq tripped \cup slipped \/ m \in overlapped
RefusedIsNotSent ==
  \A m \in Mails : answer[m] = "error" => SentBy(m) \subseteq tripped
ToldTruly == EventsAreTrue /\ RefusedIsNotSent

(***************************************************************************)
(* A caller that was told the mail is scheduled has something working on   *)
(* it for as long as the job is queued: a ticket, or what the queue gave   *)
(* up on or lost with the process.                                         *)
(***************************************************************************)
ScheduledIsPending ==
  \A m \in Mails : answer[m] = "ok" /\ jobs[m] = "queued" =>
    \E t \in Tickets : t[1] = m /\ ticket[t] \notin {"free", "acked"}

(***************************************************************************)
(* A mail the caller was told of is sent or fails, in the end, unless the  *)
(* queue gave up on a ticket or lost it.                                   *)
(***************************************************************************)
Settles ==
  \A m \in Mails : answer[m] = "ok" ~>
    \/ jobs[m] \in {"sent", "failed"} \/ runs[m] = MaxRuns
    \/ \E t \in Tickets : t[1] = m /\ ticket[t] \in {"dead", "lost"}

(***************************************************************************)
(* The webhooks page offers message.failed as "Delivery failure: An        *)
(* outbound message failed": it is not told of a mail the provider took.   *)
(***************************************************************************)
FailedEventMeansUnsent ==
  \A m \in Mails : "message.failed" \in told[m] => SentBy(m) = {}
=============================================================================
