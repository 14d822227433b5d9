------------------------------ MODULE Webhooks ------------------------------
(***************************************************************************)
(* Deliveries of events to one webhook (webhooks.ts): the first attempt,   *)
(* made by whoever dispatches the event, the retries carried by the        *)
(* outbound queue, and the manual retry of the admin page.  All of them    *)
(* run attemptDelivery, which reads the delivery, posts, and only then     *)
(* writes what it came to; nothing keeps two of them apart.                *)
(*                                                                         *)
(* A run is one execution of attemptDelivery with what leads up to it; a   *)
(* ticket is one webhook.retry message of the outbound queue.              *)
(***************************************************************************)
EXTENDS Naturals, FiniteSets

CONSTANTS
  Deliveries,     \* one element per event that is due to this webhook
  Limits,         \* values the owner gives the webhook's maxAttempts
  MaxRetries,     \* wrangler.jsonc max_retries; InProcessQueue maxRetries
  MaxTickets,     \* bound: retry messages of one delivery
  MaxRuns,        \* bound: runs of one delivery
  MaxEvents       \* bound: crashes, duplicates of a ticket in flight, manual retries, edits

ASSUME WebhooksAssumption ==
  /\ Limits \subseteq Nat \ {0} /\ Limits # {}
  /\ MaxRetries \in Nat /\ MaxTickets \in Nat /\ MaxEvents \in Nat
  /\ MaxRuns \in Nat

VARIABLES
  runtime,      \* "worker": durable queue; "node": InProcessQueue; never changes
  limit,        \* webhooks.max_attempts, or 0 once the webhook is deleted
  row,          \* webhook_deliveries.status of each delivery, or "none", "gone"
  attempts,     \* webhook_deliveries.attempts
  ticket,       \* state of each queue message
  tries,        \* its failed deliveries counted against max_retries
  runs,         \* runs begun so far
  manual,       \* of these, the manual ones
  pc,           \* program counter of each run
  serves,       \* the ticket each run delivers, 0 if it delivers none
  seen,         \* attempts as the run read them
  allowed,      \* maxAttempts as the run read it
  ok,           \* runs whose post was answered with success
  (* history, read by no action *)
  posts,        \* posts made for each delivery
  overlapped,   \* deliveries that had two runs at once, or one ticket in two runs
  interrupted,  \* deliveries with a run that was cut off in its attempt
  unscheduled,  \* deliveries with a retry the queue did not take
  events        \* counter for the bound

queueVars == <<ticket, tries>>
rowVars == <<row, attempts>>
localVars == <<seen, allowed, ok>>
vars == <<runtime, limit, rowVars, queueVars, runs, manual, pc, serves, localVars,
          posts, overlapped, interrupted, unscheduled, events>>

Runs == Deliveries \X (1..MaxRuns)
Tickets == Deliveries \X (1..MaxTickets)
DeliveryOf(r) == r[1]
TicketOf(r) == <<DeliveryOf(r), serves[r]>>

RowStates == {"none", "pending", "delivered", "retrying", "exhausted", "gone"}
TicketStates == {"free", "ready", "leased", "acked", "dead", "lost"}
Resting == {"idle", "done", "failed", "crashed"}
Attempting == {"post", "record", "schedule", "end"}
Steps == Resting \cup Attempting \cup {"create", "read", "hook"}

Live(r) == pc[r] \notin Resting
Working(r) == Live(r) /\ pc[r] # "end"
Goto(r, step) == pc' = [pc EXCEPT ![r] = step]

\* Mutant: the answer is not looked at.
CanRetryAnyway(r) == seen[r] + 1 < allowed[r]

\* canRetry of attemptDelivery, from what the run read and was answered.
CanRetry(r) == r \notin ok /\ seen[r] + 1 < allowed[r]

Init ==
  /\ runtime \in {"worker", "node"}
  /\ limit \in Limits
  /\ row = [d \in Deliveries |-> "none"]
  /\ attempts = [d \in Deliveries |-> 0]
  /\ ticket = [t \in Tickets |-> "free"]
  /\ tries = [t \in Tickets |-> 0]
  /\ runs = [d \in Deliveries |-> 0]
  /\ manual = [d \in Deliveries |-> 0]
  /\ pc = [r \in Runs |-> "idle"]
  /\ serves = [r \in Runs |-> 0]
  /\ seen = [r \in Runs |-> 0]
  /\ allowed = [r \in Runs |-> 0]
  /\ ok = {}
  /\ posts = [d \in Deliveries |-> 0]
  /\ overlapped = {} /\ interrupted = {} /\ unscheduled = {}
  /\ events = 0

-----------------------------------------------------------------------------
(***************************************************************************)
(* How runs begin: by dispatchWebhooks, by the queue, by the admin page.   *)
(***************************************************************************)
BeginRun(d, step, n) ==
  LET r == <<d, runs[d] + 1>> IN
  /\ runs[d] < MaxRuns
  /\ runs' = [runs EXCEPT ![d] = @ + 1]
  /\ Goto(r, step)
  /\ serves' = [serves EXCEPT ![r] = n]
  /\ overlapped' = IF \E q \in Runs :
                        /\ DeliveryOf(q) = d /\ Live(q)
                        /\ Working(q) \/ (n # 0 /\ serves[q] = n)
                   THEN overlapped \cup {d} ELSE overlapped
  /\ UNCHANGED <<runtime, rowVars, tries, seen, ok, posts, interrupted,
                 unscheduled>>

\* The webhook was read, enabled and subscribed to the event.
Dispatch(d) ==
  /\ limit # 0
  /\ runs[d] = 0
  /\ allowed' = [allowed EXCEPT ![<<d, 1>>] = limit]
  /\ BeginRun(d, "create", 0)
  /\ UNCHANGED <<limit, ticket, manual, events>>

Deliver(t) ==
  /\ ticket[t] = "ready"
  /\ ticket' = [ticket EXCEPT ![t] = "leased"]
  /\ BeginRun(t[1], "read", t[2])
  /\ UNCHANGED <<limit, allowed, manual, events>>

\* Cloudflare Queues deliver at least once: a leased ticket may come again.
DeliverDuplicate(t) ==
  /\ runtime = "worker"
  /\ ticket[t] = "leased"
  /\ events < MaxEvents
  /\ events' = events + 1
  /\ BeginRun(t[1], "read", t[2])
  /\ UNCHANGED <<limit, allowed, ticket, manual>>

\* The page offers it for every delivery, whatever its status.
RetryManually(d) ==
  /\ row[d] \notin {"none", "gone"}
  /\ events < MaxEvents /\ events' = events + 1
  /\ manual' = [manual EXCEPT ![d] = @ + 1]
  /\ BeginRun(d, "read", 0)
  /\ UNCHANGED <<limit, allowed, ticket>>

-----------------------------------------------------------------------------
(***************************************************************************)
(* How a run ends early: the queue retries its ticket, if it has one.      *)
(***************************************************************************)
\* Mutants of Retry: one attempt too many, and a failure that is only logged.
RetryOnceMore(t) ==
  IF ticket[t] # "leased" THEN UNCHANGED queueVars
  ELSE IF tries[t] <= MaxRetries
       THEN /\ ticket' = [ticket EXCEPT ![t] = "ready"]
            /\ tries' = [tries EXCEPT ![t] = @ + 1]
       ELSE ticket' = [ticket EXCEPT ![t] = "dead"] /\ UNCHANGED tries

RetryNothing(t) == UNCHANGED queueVars

Retry(t) ==
  IF ticket[t] # "leased" THEN UNCHANGED queueVars
  ELSE IF tries[t] < MaxRetries
       THEN /\ ticket' = [ticket EXCEPT ![t] = "ready"]
            /\ tries' = [tries EXCEPT ![t] = @ + 1]
       ELSE ticket' = [ticket EXCEPT ![t] = "dead"] /\ UNCHANGED tries

Stop(r, step) ==
  /\ Goto(r, step)
  /\ IF serves[r] = 0 THEN UNCHANGED queueVars ELSE Retry(TicketOf(r))
  /\ interrupted' = IF pc[r] \in Attempting
                    THEN interrupted \cup {DeliveryOf(r)} ELSE interrupted

Same == UNCHANGED <<runtime, limit, runs, manual, serves, overlapped, events>>

\* A database error outside attemptDelivery's try block.
Throw(r) ==
  /\ pc[r] \in {"create", "read", "hook", "record"}
  /\ Stop(r, "failed")
  /\ UNCHANGED <<rowVars, localVars, posts, unscheduled>> /\ Same

-----------------------------------------------------------------------------
(***************************************************************************)
(* attemptDelivery and what leads up to it.                                *)
(***************************************************************************)
CreateDelivery(r) ==
  LET d == DeliveryOf(r) IN
  /\ pc[r] = "create"
  /\ limit # 0   \* the foreign key to webhooks
  /\ row' = [row EXCEPT ![d] = "pending"]
  /\ Goto(r, "post")
  /\ UNCHANGED <<attempts, queueVars, localVars, posts, interrupted, unscheduled>>
  /\ Same

\* runDelivery: the delivery, then its webhook; it ends when either is gone.
ReadDelivery(r) ==
  LET d == DeliveryOf(r) IN
  /\ pc[r] = "read"
  /\ Goto(r, IF row[d] = "gone" THEN "end" ELSE "hook")
  /\ seen' = [seen EXCEPT ![r] = attempts[d]]
  /\ UNCHANGED <<rowVars, queueVars, allowed, ok, posts, interrupted, unscheduled>>
  /\ Same

ReadHook(r) ==
  /\ pc[r] = "hook"
  /\ Goto(r, IF limit = 0 THEN "end" ELSE "post")
  /\ allowed' = [allowed EXCEPT ![r] = limit]
  /\ UNCHANGED <<rowVars, queueVars, seen, ok, posts, interrupted, unscheduled>>
  /\ Same

\* The endpoint answers with success, or with an error, or not in time.
Post(r) ==
  /\ pc[r] = "post"
  /\ posts' = [posts EXCEPT ![DeliveryOf(r)] = @ + 1]
  /\ ok' \in {ok, ok \cup {r}}
  /\ Goto(r, "record")
  /\ UNCHANGED <<rowVars, queueVars, seen, allowed, interrupted, unscheduled>>
  /\ Same

\* Mutant: only failures are counted.
RecordFailures(r) ==
  LET d == DeliveryOf(r) IN
  /\ pc[r] = "record"
  /\ IF row[d] = "gone" THEN UNCHANGED rowVars
     ELSE /\ attempts' = [attempts EXCEPT ![d] = IF r \in ok THEN @ ELSE seen[r] + 1]
          /\ row' = [row EXCEPT ![d] = IF r \in ok THEN "delivered"
                                       ELSE IF CanRetry(r) THEN "retrying" ELSE "exhausted"]
  /\ Goto(r, IF CanRetry(r) THEN "schedule" ELSE "end")
  /\ UNCHANGED <<queueVars, localVars, posts, interrupted, unscheduled>> /\ Same

\* The outcome overwrites the row as it is by now, unless it is gone.
Record(r) ==
  LET d == DeliveryOf(r) IN
  /\ pc[r] = "record"
  /\ IF row[d] = "gone" THEN UNCHANGED rowVars
     ELSE /\ attempts' = [attempts EXCEPT ![d] = seen[r] + 1]
          /\ row' = [row EXCEPT ![d] = IF r \in ok THEN "delivered"
                                       ELSE IF CanRetry(r) THEN "retrying" ELSE "exhausted"]
  /\ Goto(r, IF CanRetry(r) THEN "schedule" ELSE "end")
  /\ UNCHANGED <<queueVars, localVars, posts, interrupted, unscheduled>> /\ Same

\* Mutant: the retry is left to somebody else.
ScheduleNothing(r) ==
  /\ pc[r] = "schedule"
  /\ Goto(r, "end")
  /\ UNCHANGED <<rowVars, queueVars, localVars, posts, interrupted, unscheduled>> /\ Same

\* An error of the queue is logged and passed over.
ScheduleRetry(r) ==
  LET d == DeliveryOf(r) IN
  /\ pc[r] = "schedule"
  /\ \/ /\ \E t \in Tickets : /\ t[1] = d /\ ticket[t] = "free"
                              /\ ticket' = [ticket EXCEPT ![t] = "ready"]
        /\ UNCHANGED unscheduled
     \/ UNCHANGED ticket /\ unscheduled' = unscheduled \cup {d}
  /\ Goto(r, "end")
  /\ UNCHANGED <<rowVars, tries, localVars, posts, interrupted>> /\ Same

EndRun(r) ==
  /\ pc[r] = "end"
  /\ Goto(r, "done")
  /\ IF serves[r] # 0 /\ ticket[TicketOf(r)] = "leased"
     THEN ticket' = [ticket EXCEPT ![TicketOf(r)] = "acked"]
     ELSE UNCHANGED ticket
  /\ UNCHANGED <<rowVars, tries, localVars, posts, interrupted, unscheduled>> /\ Same

Run(r) ==
  \/ CreateDelivery(r) \/ ReadDelivery(r) \/ ReadHook(r) \/ Post(r)
  \/ Record(r) \/ ScheduleRetry(r) \/ EndRun(r) \/ Throw(r)

-----------------------------------------------------------------------------
(***************************************************************************)
(* The owner changes or deletes the webhook; crashes.                      *)
(***************************************************************************)
EditHook ==
  /\ limit # 0 /\ events < MaxEvents
  /\ \E n \in Limits \ {limit} : limit' = n
  /\ events' = events + 1
  /\ UNCHANGED <<runtime, rowVars, queueVars, runs, manual, pc, serves, localVars,
                 posts, overlapped, interrupted, unscheduled>>

\* The deliveries cascade with the webhook.
DeleteHook ==
  /\ limit # 0 /\ events < MaxEvents
  /\ limit' = 0
  /\ row' = [d \in Deliveries |-> IF row[d] = "none" THEN "none" ELSE "gone"]
  /\ events' = events + 1
  /\ UNCHANGED <<runtime, attempts, queueVars, runs, manual, pc, serves, localVars,
                 posts, overlapped, interrupted, unscheduled>>

CrashRun(r) ==
  /\ runtime = "worker" /\ events < MaxEvents
  /\ Live(r)
  /\ Stop(r, "crashed")
  /\ events' = events + 1
  /\ UNCHANGED <<runtime, limit, rowVars, runs, manual, serves, localVars, posts,
                 overlapped, unscheduled>>

RestartProcess ==
  LET live == {r \in Runs : Live(r)} IN
  /\ runtime = "node" /\ events < MaxEvents
  /\ pc' = [r \in Runs |-> IF r \in live THEN "crashed" ELSE pc[r]]
  /\ ticket' = [t \in Tickets |-> IF ticket[t] \in {"ready", "leased"} THEN "lost" ELSE ticket[t]]
  /\ interrupted' = interrupted \cup
       {DeliveryOf(r) : r \in {q \in live : pc[q] \in Attempting}}
  /\ events' = events + 1
  /\ UNCHANGED <<runtime, limit, rowVars, tries, runs, manual, serves, localVars,
                 posts, overlapped, unscheduled>>

Next ==
  \/ \E d \in Deliveries : Dispatch(d) \/ RetryManually(d)
  \/ \E t \in Tickets : Deliver(t) \/ DeliverDuplicate(t)
  \/ \E r \in Runs : Run(r) \/ CrashRun(r)
  \/ EditHook \/ DeleteHook \/ RestartProcess

(***************************************************************************)
(* A run that began goes on and the queue delivers what is ready.          *)
(***************************************************************************)
Handling == (\E r \in Runs : Run(r)) \/ (\E t \in Tickets : Deliver(t))
Fairness == WF_vars(Handling)

Spec == Init /\ [][Next]_vars
FairSpec == Spec /\ Fairness

-----------------------------------------------------------------------------
(***************************************************************************)
(* Properties                                                              *)
(***************************************************************************)
TypeOK ==
  /\ runtime \in {"worker", "node"}
  /\ limit \in Limits \cup {0}
  /\ row \in [Deliveries -> RowStates]
  /\ attempts \in [Deliveries -> 0..MaxRuns]
  /\ ticket \in [Tickets -> TicketStates]
  /\ tries \in [Tickets -> 0..MaxRetries]
  /\ runs \in [Deliveries -> 0..MaxRuns]
  /\ manual \in [Deliveries -> 0..MaxEvents]
  /\ pc \in [Runs -> Steps]
  /\ serves \in [Runs -> 0..MaxTickets]
  /\ seen \in [Runs -> 0..MaxRuns]
  /\ allowed \in [Runs -> Limits \cup {0}]
  /\ ok \subseteq Runs
  /\ posts \in [Deliveries -> 0..MaxRuns]
  /\ overlapped \subseteq Deliveries
  /\ interrupted \subseteq Deliveries
  /\ unscheduled \subseteq Deliveries
  /\ events \in 0..MaxEvents

\* Deliveries none of whose runs overlapped another or ended half-way.
Undisturbed == Deliveries \ (overlapped \cup interrupted)

(***************************************************************************)
(* The attempts shown to the owner are the posts the endpoint got, but for *)
(* the one being made, and the retries stop: no more posts than the        *)
(* largest maxAttempts in force allows, and one more for each manual       *)
(* retry.  Only an overlap or an interruption miscounts.                   *)
(***************************************************************************)
AttemptsAreCounted ==
  \A d \in Undisturbed :
    /\ row[d] # "gone" => posts[d] = attempts[d] +
         (IF \E r \in Runs : DeliveryOf(r) = d /\ pc[r] = "record" THEN 1 ELSE 0)
    /\ \E n \in Limits : posts[d] <= n + manual[d]

(***************************************************************************)
(* Posting keeps the promise of Once: an event the endpoint took is not    *)
(* posted again, and a delivery shown as delivered was taken and as        *)
(* exhausted was not (webhooks.ts:119-124), unless the owner asked for a   *)
(* retry or its runs overlapped or ended half-way.                         *)
(***************************************************************************)
RowState(d) ==
  CASE row[d] = "none" -> "new" [] row[d] \in {"pending", "retrying"} -> "open"
    [] row[d] = "delivered" -> "done" [] row[d] = "exhausted" -> "failed"
    [] row[d] = "gone" -> "gone"
Event == INSTANCE Once WITH
  Items <- Deliveries,
  state <- [d \in Deliveries |-> RowState(d)],
  effects <- [d \in Deliveries |-> Cardinality({r \in ok : DeliveryOf(r) = d})],
  doubtful <- (Deliveries \ Undisturbed) \cup {d \in Deliveries : manual[d] > 0}
PostsOnce == Event!Spec

(***************************************************************************)
(* A delivery shown as retrying has a retry to come: a ticket, or a run    *)
(* about to put one on the queue; or one of the known ways to lose it.     *)
(***************************************************************************)
RetryingIsPending ==
  \A d \in Deliveries : row[d] = "retrying" =>
    \/ \E t \in Tickets : t[1] = d /\ ticket[t] \notin {"free", "acked"}
    \/ \E r \in Runs : DeliveryOf(r) = d /\ pc[r] = "schedule"
    \/ d \in unscheduled \cup interrupted

(***************************************************************************)
(* A delivery comes to an end: delivered, given up or gone with its        *)
(* webhook, unless its retry was lost on the way.                          *)
(***************************************************************************)
DeliveriesEnd ==
  \A d \in Deliveries : row[d] \in {"pending", "retrying"} ~>
    \/ row[d] \in {"delivered", "exhausted", "gone"}
    \/ d \in unscheduled \cup interrupted \/ runs[d] = MaxRuns
    \/ \E t \in Tickets : t[1] = d /\ ticket[t] \in {"dead", "lost"}
=============================================================================
