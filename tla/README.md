# Dmailflare: a TLA+ verification project

Dmailflare is a mail server and webmail that runs either as a Cloudflare Worker
(D1, R2, Queues, Email Routing) or as a Node process (SQLite, a directory, an
in-process queue, an SMTP listener). This directory holds TLA+ models of its
mail paths, the TLC configurations that check them on small instances and the
TLAPS proofs about them. Paths below are relative to `src/`.

## 1. The system

| Component | Sources | State it keeps | Operations |
|---|---|---|---|
| Inbound intake | `src/worker.ts`, `server/runtime/smtp.ts`, `src/lib/email/{intake,incoming,account-forwarding}.ts`, `src/app/api/inbound/route.ts`, `deploy/cloudflare-email-relay` | raw MIME objects, inbound queue | resolve the recipient, reject, forward, store raw, enqueue, answer the sender |
| Inbound processing | `src/lib/email/{inbound,attachments}.ts` | `messages`, `message_attachments`, attachment objects | dedupe, classify, insert, attach or roll back, answer, notify, dispatch |
| Queues | `wrangler.jsonc`, `server/runtime/queue.ts` | messages, their attempts | send, deliver, ack, retry, give up; lost on a restart of Node |
| Outbound sending | `src/lib/email/send.ts` | `messages`, `outbound_jobs` | send now, schedule, deliver, mark |
| Webhooks | `src/lib/email/webhooks.ts` | `webhooks`, `webhook_deliveries` | dispatch, attempt, retry by queue or by hand |
| Routing | `src/lib/email/routing.ts` | `routing_rules`, aliases, mailboxes, match counts | resolve in three phases, count a match |
| Auto-reply, threading | `src/lib/email/{auto-reply,threading}.ts` | replies sent, thread ids | answer once a day, join a thread |
| Sign-in | `src/lib/auth/*`, `src/app/api/auth`, `src/app/(auth)` | accounts, sessions, challenges, recovery codes, reset links; tokens in the browser | log in, second factor, reset, enrol, disable, revoke |
| Backups | `src/lib/backups/*` | `backups`, archives | schedule, run, retain, delete, restore |
| Domains | `src/lib/domains/*`, `src/app/api/auth/register` | `domains`, `users`, the Cloudflare zone | register, provision, roll back, remove |
| Drafts, send API, JMAP | `src/components/compose/*`, `src/app/api/{drafts,send}`, `src/lib/jmap/*` | drafts, the composer and its requests | open, autosave, send, discard, submit |
| Mail in the browser | `src/hooks/*`, `src/components/messages/*`, `src/app/api/messages/*`, realtime hub, `src/lib/spam/feedback.ts` | caches of lists and counts, the page, classifications | fetch, invalidate, show in advance, take back, train |
| Node runtime | `server/runtime/*` | one SQLite connection | statements, batches, limits |

`PROJECT.json` lists every component with its status, those that are not
modelled included.

How they interact. The intake puts `{rawKey, to, ...}` on the inbound queue
only after the raw object is in the bucket. The consumer takes it from there,
asks the routing again, and calls the attachment store, the auto-reply (which
is an outbound send), the notification hub and the webhooks in this order.
Sending and webhook retries share the outbound queue, whose consumer tells the
two kinds of message apart. Both runtimes run the same handlers: they differ in
how a sender is answered, in whether the queue survives a restart, and in
whether a message can be delivered twice.

What is hard about it:

- *No transaction spans two statements.* Every check ("is there a row?", "is the
  job still queued?", "how many attempts so far?") is read by one await and
  acted on by a later one.
- *At-least-once delivery.* A handler may run again after it failed, after it
  was cut off, or while it is still running.
- *Partial failure.* Storage, provider, hub and webhooks fail independently;
  each step has its own idea of what is undone and what is passed over.
- *Decisions taken twice.* The routing answers at the intake and again at the
  consumer; the administrator edits it in between.
- *Users in the middle.* A message can be trashed and destroyed while the
  system is still working on it; a webhook can be edited or deleted.

What makes each modelled component correct:

- Intake and processing: an accepted mail is filed once, whole, or was
  discarded on purpose; a refused one is not filed; webhooks tell of what is
  there; what a user destroyed stays destroyed; every job ends.
- Sending: a mail is sent at most once, with its attachments; what the caller,
  the job, the row and the events say of it is true; a scheduled mail is sent
  or fails in the end.
- Webhooks: attempts are counted and bounded; a delivered event is not posted
  again; what is shown is true; a retry that is shown is pending.
- Backups: one scheduled backup a day; a row shown as completed has its archive
  and an archive its row; a backup in progress is kept, and comes to an end.
- Routing: blocks before mailboxes before catch-alls, rules by priority, whatever
  is edited meanwhile; a count that is sound.
- Sign-in: a new password or factor ends the sessions that rest on the old one;
  a code and a link work once; a factor that is on can be passed.
- Mail in the browser: what is cached is the user's and no older than what the
  page was told; a page that stays open shows the truth in the end; the spam
  filter learns of each message once.
- Composing: a message that was sent or discarded leaves no draft; what is
  shown as saved is what was written.
- Domains: a failed registration or addition is undone exactly, and a domain
  that is set up stays routed.

`hazards` in `PROJECT.json` lists what is hard to test in this code, at its
line, with the properties that watch it; where none does, a note says why.

## 2. Modules

| Module | Models |
|---|---|
| `Inbound` | intake, inbound queue, consumer |
| `Outbound` | `sendEmail`, `deliverEmail`, `processOutboundQueue` |
| `Webhooks` | `dispatchWebhooks`, `attemptDelivery`, `processWebhookRetry`, manual retry |
| `Once` | what a queue of the system promises of a piece of work; implemented by `Outbound` and `Webhooks` |
| `Backups` | `createScheduledBackupIfDue`, `runDatabaseBackup`, `deleteExpiredBackups`, `deleteBackup`, `restoreDatabaseRecords` and what calls them |
| `Routing` | `resolveInboundAddress`, `recordRuleMatch` and the edits they meet |
| `SignIn` | `src/lib/auth`, the routes and forms over it |
| `Mailview` | client caches, the inbox page, the handlers that change messages, `applySpamFeedback` |
| `Compose` | the composer, the drafts API, sending a draft, `EmailSubmission/set` |
| `Provision` | registration, `addDomainForUser`, `removeDomainForUser`, provisioning and rollback |
| `InboundProofs`, `OutboundProofs`, `WebhooksProofs`, `SignInProofs`, `BackupsProofs`, `ComposeProofs`, `RoutingProofs`, `ProvisionMailviewProofs` | theorems |
| `MC...` | constants for TLC |

The state machines have one form. A *run* is one execution of a handler
and has a program counter `pc`; it takes one step for every await that another
actor can observe or that can fail, named after the call it stands for. What a
run holds in local variables is indexed by the run (`box`, `serves`, `seen`,
`allowed`, `carried`). Shared tables, buckets and queue messages are variables
of their own. An await that throws ends in the code's `catch`, whose own steps
may throw as well. History variables, marked as such and read by no action,
record the disturbances the properties have to allow for.

### Inbound

`Mails` has one element per recipient of an incoming message. `entry` chooses
the way in: `"worker"` (Cloudflare, durable queue, duplicates possible),
`"smtp"` and `"relay"` (Node, queue in memory, lost by `RestartProcess`).
`route[m]` is what `resolveInboundAddress` answers for the recipient;
`EditRouting` changes it at any time.

| Actions | Code |
|---|---|
| `IntakeResolve`, `IntakeForward`, `IntakeAccountForward` | `incoming.ts`, `intake.ts`, `account-forwarding.ts`: a failing look-up is "no decision"; a successful forward without a copy ends the intake; the account's forward follows |
| `IntakeStoreRaw`, `IntakeEnqueue` | `worker.ts email()`, `storeRawToR2`, `INBOUND_QUEUE.send`; an error refuses the mail |
| `RelayForward`, `Disown` | the relay Worker acting on `/api/inbound`'s answer; a sender who is told of a failure after this recipient was queued |
| `Deliver`, `DeliverDuplicate`, `Retry`, `Ack` | the queue and `worker.ts queue()` |
| `ResolveRecipient`, `FindStored`, `Classify`, `InsertRow` | `processInboundMessage` up to the row |
| `PutObject`, `InsertRecord`, `FinishAttachments`, `FailAttachments`, `DeleteObjects`, `DeleteRow` | `storeMessageAttachments` with its inner rollback, and the outer one |
| `AutoReply`, `Notify`, `DispatchWebhooks`, `RunFails` | the rest of `processInboundMessage`; what throws is retried |
| `CrashRun`, `RestartProcess`, `Destroy` | the runtime's end, and a user's `Email/set destroy` |

### Outbound

Run 0 of a mail is the request that calls `sendEmail`; run n is the n-th
delivery of one of its queue messages (*tickets*). `row` is
`messages.status`, `jobs` is `outbound_jobs.status`, `answer` what the caller
was told, `accepted` the runs whose mail the provider took. `Send` may be
answered or throw; `MarkSent`, `MarkJobSent`, `Announce` and `Audit` follow and
each of them may `Trip` into the catch `FailMark`, `FailJob`, `FailEvent`,
which rethrows. A scheduled mail goes through `Enqueue`, and through `ReadJob`
and `Enqueue` again for as long as its time has not come (the queue's delay is
capped at a day). Users `Trash` and `Destroy` the message meanwhile.

### Webhooks

A run is one `attemptDelivery` with what leads up to it: `Dispatch` and
`CreateDelivery`, or `Deliver`/`RetryManually`, `ReadDelivery` and `ReadHook`.
Then `Post`, `Record` (which writes `attempts` and the status from what it
*read* before the post) and `ScheduleRetry`. `EditHook` and `DeleteHook` are
the owner's.

### Backups

A *job* is one execution of a handler: the scheduled run (`Tick`), a manual one,
a deletion or a restore; a backup has the number of the job that made it. `rows`
and `settings` are the two tables that matter to it, `archives` the objects in
the bucket, `export[j]` the tables as job j exported them. A scheduled job goes
through `CheckSchedule`, `LookForToday` and `CreateRecord`; every run through
`StartRun`, `ExportTables`, `PutArchive`, `CompleteRun` and the retention sweep,
`ListExpired`, which is inside its `try`; a sweep and a deletion (`Inspect`)
share `EraseArchive` and `DropRow`. A restore empties the two tables and fills
them again in four steps, and any job may work in between. `Throw` ends a job at
any step, a run in its catch (`MarkFailed`). `Crash` cuts off one job on the
Worker, and all of them on Node, whose scheduler forgets that it has ticked.

Dates are days. A row of day d that is kept n days expires at some time of day
d + n, so on that day the sweep may or may not take it.

### Routing

One recipient, one sender. A *resolution* is one call of `resolveInboundAddress`
by the intake, the consumer or the account forwarding, one step for each query:
`FindDomain`, `ReadRules` (phase 1), `FindExact`, `FindAlias`, `ListCandidates`
and `TryCandidate` (phase 2), `TryRule` (phase 3, the rules as they were read,
their mailboxes as they are). The intake goes on to `ReadCount` and `WriteCount`.
A mailbox is what its local part and domain are to the recipient: the same
(`literal`), the same up to dots, case and suffix (`variant`), another one of
the domain (`here`), the same in another domain (`away`); it may have an alias
there and serve all domains. A rule is what it does, whom it hits and its
priority. The queries of `getMailboxDomainAddresses` for one mailbox are one
step. `Route` says, without steps, what one state of the tables calls for;
`could`, `stood`, `meanwhile` and `moved` remember the states a resolution met.

### SignIn

One account, two browsers of its owner, and its administrator. A *request* is one
call of a handler: what the form sends is in `job`, what the handler read first in
`saw`, and each later read and write is a step. A session, challenge, link,
password, secret or list of recovery codes has the number of the request that
made it, and 0 is what there was before. The tables lose what was used
(`UseLink`, `BurnCode`), and a browser holds a bearer token, a cookie and a
half-made sign-in (`bearer`, `cookie`, `pending`). `AdminReset` and
`AdminDisable` are `PATCH /api/accounts/[id]`. A request may be cut off between
any two of its writes.

### Mailview

One browser with the inbox open, ungrouped and on one page, and one other
device. `fetches` are the requests for the list and the counts under way, each
with what the code compares when the answer comes: the generations (`same`,
`counts`), whether it is the shared one, whether a mounted page waits for it.
`shown`, `local` and `count` are the list, the rows' own read state
(`MessageListRow`) and the badge. A change made here is a job: a row and the
toolbar show it at once and take it back on failure (`MarkRow`,
`MarkSelection`, `Rollback`), everything else waits for the answer (`Act`,
`Succeed`); on the server it selects, then writes (`SelectMail`, `Write`), and
classifications go through `Recall` and `Learn`. `Refresh` stands for the
WebSocket and the timer that replaces it.

### Compose

`form` is the one floating composer: its text, the draft it names, the autosave
timer (`timer`), what it is doing. `saves`, `sends` and `deletes` are its
requests, which are served and answered in any order and may fail before or
after the server has acted. `nr` is the generation (`draftGeneration`) that a
late answer is compared with (`Outdated`). A draft row remembers the message it
was made of. A PATCH checks the draft and updates it in two steps
(`CheckDraft`, `UpdateDraft`); JMAP submission takes a draft and drops it
(`TakeDraft`, `DropDraft`).

### Provision

`zone` is the Cloudflare zone all hostnames lie in: Email Routing, the catch-all,
the sending subdomains and the address rules. A request goes from one call to the
next (`pc`) with what it remembers of the zone in `job`; `OnError` says where an
error leads, and `Undoings` is the rollback in its order, followed by the
deletions of row and account. A removal switches off what its row names, step by
step. An account has one local part, so a rule is named by its hostname; a call
that throws has changed nothing.

## 3. Runs

| Run | Question | Size |
|---|---|---|
| `inbound` | Copies, attachments, webhooks, acks and refusals under every disturbance; does every job end? | one mail with an attachment, two mailboxes, every way in, one retry, one duplicate, crash, edit or destruction |
| `inbound_forward` | Is a mail whose forward failed stored, as `src/worker.ts:54-55` says? **Violated** | no disturbance at all |
| `outbound` | Does sending implement `Once`; is it reported truly; does an accepted mail end sent or failed? | one mail, two tickets, one retry, one crash, duplicate or user action |
| `outbound_failed` | Does `message.failed` mean the mail was not sent? **Violated** | no disturbance at all |
| `webhooks` | Do deliveries implement `Once`; counts, retries; does every delivery end? | two tickets, limits 1 and 2, two of manual retry, edit, crash, duplicate |
| `backups` | One scheduled backup a day; rows, archives and their ends | three jobs over two days, one error, crash or edit of the settings |
| `routing` | Precedence and answers under edits; is the match count sound? | two resolutions, two mailboxes, two rules out of four, one edit, every layout of `MCFewLayouts` |
| `signin` | Whose sessions survive, what is used twice, can the factor be passed? | two requests of any kind over two browsers, from three beginnings |
| `mailview` | Caches, feedback, and does an open page come to show the truth? | one message, two of change, failure, notification, leaving the page and change of user |
| `compose` | What is left behind, and is what is saved what was written? | three drafts, one file, three messages or edits, two saves and discards, faults |
| `provision` | What does a rollback leave of the zone, and does a live domain stay routed? | three requests, two at once, two hostnames, a new zone and one in use (a catch-all of its own, subdomains and rules to the worker already there), one throw |
| `provision_undo` | Does a failed attempt leave the account as it was, as `rollback.ts:20-22` says? **Violated** | as `provision` |

The bounds. `MaxRuns`, `MaxTickets`, `MaxRequests`, `MaxFetches`, `MaxSaves`,
`MaxTexts`, `MaxDiscards` and `MaxAtOnce` bound counters that the system leaves
open; `MaxDisturbances`, `MaxFaults`, `MaxFailures` and `MaxEvents` bound the
disturbances of a run together, because each can fall at every step. One mail
(one delivery) is enough because mails share no row, object, job or counter.
Two mailboxes are what an edit of the routing needs to split a mail. Two
deliveries of one message are what an overlap needs; one more, for a retry after
either, is within `MaxRuns`. Two tickets give a chain of delays its inner and
its last link; the code keeps no memory of earlier ones. The safety properties
hold as well where `MaxRuns` cuts a retry off; the liveness properties excuse it.

In `Backups` three jobs are a restore, which needs a backup to restore, against a
run. `Schedules` has "every day" besides "off": `isBackupDue` is asked once a
day whatever it answers on others. In `Routing` a resolution looks for the first of an order, so two rules and
two mailboxes show every pair; an edit can fall between any two queries. In
`SignIn` each property is about the writes of at most two requests crossing; the
beginnings supply what an earlier request would have made (a link, a challenge,
a list of codes). In `Mailview` the caches and the page hold the list as a whole,
so one message tells the lists apart; two events are a change and what crosses it.
In `Compose` two drafts come of one message whose first saves overlap, and the
third belongs to the next message. In `Provision` two attempts overlap and the
third request prepared or follows them. Three failures in two requests were
checked as well.

Deadlock is not checked: the systems stop when there is nothing left to do.

Fairness is weak fairness of the handlers as a whole (`Handling`; `Work` in
`Backups`): as long as a started handler can go on or a ready message can be
delivered, something of them happens. Both queues deliver what they hold
(`InProcessQueue.schedule` sets a timer for each), and each step of a handler
brings it nearer its end, so that no handler can starve another for ever. In
`Mailview` it is weak fairness of loading the list, of loading the counts and of
the requests under way: the intervals keep firing and requests are answered, be
it with an error. No fairness is assumed of users, administrators, days,
crashes or duplicates, nor that any call ever succeeds: the liveness properties
name the ways a job can be lost.

Every property of a passing run has a mutant in `PROJECT.json`: a definition of
the module (marked *Mutant* there) that replaces an action by what a plausible
slip in the code would make of it, and that the property refutes.

`SendsOnce` and `PostsOnce` are refinements: the tables, tickets and runs of
`Outbound` and `Webhooks`, seen through `JobState` and `RowState`, are a
behaviour of `Once`, in which an item is performed at most once and done only
after it was, unless it is in doubt. What brings a mail or a delivery in doubt
is the `doubtful` of the mapping: two runs at once, a run cut off or thrown out
between effect and record, and for a webhook a manual retry, which is meant to
post again.

What the properties had to allow for is as informative as what they say:

- `FiledOnce` needs "unless two deliveries ran at once": there is no unique index
  on (mailbox, raw object), so two overlapping deliveries both insert.
- `HandledTruly` needs it as well: a duplicate finds a row that the first
  delivery then rolls back, and acks.
- `StoredIsComplete` needs "unless its delivery was cut off": a redelivery takes
  a row for a complete message.
- `ArchivesMatch` needs "unless its deletion was cut off between archive
  and row", and the same between put and row.
- `RunsSettle` excuses a run that was cut off: nothing ever settles its row, and
  neither the sweep nor a deletion takes it. It excuses what a restore brought
  back, too: a run exports its own row as running, and so it is restored.
- `AnswersOneState` needs "unless the address got a mailbox or lost its domain
  meanwhile": with that one edit the answer may be that of no state at all. If
  an alias or mailbox takes over an address between the look-ups, the earlier
  ones miss it and the last one (`getMailboxDomainAddresses`) finds the address
  taken: the mail goes to the catch-all or nowhere, as no catch-all should have
  it while a mailbox does (`routing.ts:46-47`).
- `SendsOnce` says nothing of a mail two jobs sent at once, or whose job was cut off
  between sending and recording it; `PostsOnce` likewise of a delivery.
- `ScheduledIsPending` is about mails that were answered as scheduled; `FilesTravel`
  excuses messages destroyed while they were sent.
- `AttemptsAreCounted` needs that no two attempts overlapped or were cut off: the
  increment is a read, a post and a write.
- `CountsAreSound` lets two matches at once count as one: it bounds the count from above.
- `SessionsAreCurrent` excuses sign-ins whose password was checked before the
  reset, and challenges are such sign-ins: they outlive it.
- `SingleUse` excuses two requests that had both found the code or link unused.
- `FactorIsWhole` excuses an enrolment that was let in before another tab's was
  confirmed: it replaces the secret and turns the factor off
  (`mfa.ts:27`). Two confirmations or renewals at once leave two lists of codes.
- `CachesAreCurrent` excuses a list request under way when the list cache is
  cleared: the list has no generation of its own (`hooks/utils.ts:80-82`). The page
  asks again, so `ShownIsTrue` holds nevertheless.
- `FeedbackIsCounted` excuses two classifications of one message at once
  (`feedback.ts:18`): both are counted.
- `ShownIsTrue` excuses the read state of a row marked twice or marked by a
  request whose failure was reported after it had been made: `MessageListRow`
  follows the list only when the list's value changes.
- `SavedIsCurrent` excuses two PATCH requests under way at once (`unsure`): either text
  may be written last.
- `NothingLeftBehind` excuses a message sent while an autosave was due or under
  way (`hasty`), and two overlapping first saves, which make two drafts (`Split`).
- `LiveIsRouted` excuses the removal of a domain, which disables routing for the
  whole zone (`service.ts:158`), a rollback of which a call failed, and an attempt that found
  the zone unrouted and ran beside another: both may think they enabled it.
- `RollbackLeaves` excuses a catch-all kept while routing was off, which is not read
  (`provision.ts:82`) and so lost, and what could not be read. Routing, the catch-all
  and the sending subdomains are as before, but the address rules are not: the rule of
  the address that is registered goes even if the zone had it before, and rules that an
  added domain brought to the mailbox that uses all domains may stay. The comments of
  the code say otherwise; see section 4.

Observations, without a document that says otherwise:

- Mailboxes are unique as written but found without dots, case and suffix
  (`routing.ts:89-91`): with `a.b` and `ab` in one domain, mail for either may be
  stored in the other.
- `getAccountForwardingDestination` resolves without the sender
  (`account-forwarding.ts:16`), so with a store rule on the sender the copy may go
  to the forwarding address of another account than the mail.
- An error response is shown, and cached, as an empty list
  (`hooks/utils.ts:130-134`); the counts check for it.
- An autosave answered after the message was sent leaves the composer naming a
  deleted draft, or the next message a draft of the previous one.
- A composer whose draft was deleted elsewhere cannot be discarded, and one
  whose send lost its answer stays "sending".
- A getDomainDns that throws within a registration deletes account and domain
  without a rollback, although the domain "is fully set up by now"
  (`service.ts:104`).
- Two registrations at once make two administrators (`register/route.ts:23`).
- A logout that cannot reach the server forgets the bearer token while the cookie
  stays.

## 4. Findings

1. *A mail whose forward failed is dropped* (`inbound_forward`). For a rule that
   forwards without keeping a copy, the intake stores and queues a mail whose
   forward failed, "so mail is never silently lost" (`src/worker.ts:54-55`). The
   consumer asks the routing again, gets the same rule, and returns
   (`src/lib/email/inbound.ts:50-55`): nothing is filed and the job is acked.
2. *`message.failed` for a mail that was sent* (`outbound_failed`). The catch of
   `deliverEmail` takes errors of the updates, of the webhooks and of the audit
   log after the provider accepted the mail, marks row and job failed, and
   dispatches `message.failed` (`src/lib/email/send.ts:224-233`), which the
   webhooks page calls "An outbound message failed".
3. *A failed provisioning is not undone* (`provision_undo`). `addDomainForUser`
   provisions before its `try` (`src/lib/domains/service.ts:43-48`): when a call
   throws after Email Routing was enabled or the catch-all replaced, nobody has
   the changes and no rollback runs, where `rollback.ts:20-22` says that "a failed
   signup or domain add leaves the Cloudflare account as it was".
   `LeavesAsItWas` takes in the whole zone, address rules included, and these are
   not as they were even where the rollback does run. A registration notes its
   address rule as created although `ensureEmailRoutingRuleToWorker` may have found it
   there (`register/route.ts:76-77`), and the rollback deletes it
   (`rollback.ts:32-36`), against "Anything the attempt merely reused is deliberately
   left alone" (`rollback.ts:24`) and "undo its own work and nothing else"
   (`lib/domains/types.d.ts:4-6`). The rules that adding a domain makes for the mailboxes
   of all domains (`service.ts:80-85`) are noted nowhere and stay behind. The shortest
   trace of the run is the error within the provisioning; what becomes of the rules
   is stated, and proved, as it is by `RollbackLeaves` in the run `provision`.

## 5. Proofs

`InboundProofs` proves, for every set of mails, mailboxes and parts and all
values of the bounds, from `InboundAssumption` only: `TypeCorrect`,
`FiledOnceHolds`, `StoredIsCompleteHolds`, `AnnouncedOnceHolds` and
`HandledTrulyHolds`: every safety property of the run `inbound`.

None of these is inductive. The invariant is

    IInv == TypeOK /\ QueueInv /\ RowInv /\ AnnounceInv /\ CopyInv /\ HandledInv

- `QueueInv` ties the queue to the runs: a run exists only below `runs[m]`; no
  job exists before the intake enqueued it; without an overlap at most one run
  of a mail is live, and while it is, the job is leased.
- `RowInv` says at which steps a run has its row, its objects and its records.
- `AnnounceInv`: an announced run is past its webhook step, was never torn, and
  its row is stored or was destroyed.
- `CopyInv`: between the look-up and the insert, no other row of the mail is in
  the run's mailbox; two rows of one mail are in different mailboxes and one of
  their runs was interrupted; likewise for a destroyed row and a stored one. All
  of it unless deliveries overlapped. This carries `FiledOnce`.
- `HandledInv`: a run that is about to ack, and a job that was acked, left or found a
  row, or were told by the routing to discard, or overlapped another delivery.
  This carries `HandledTruly`.

Each part is a lemma about one step (`QueueStep`, `RowStep`, `AnnounceStep`,
`CopyStep`, `HandledStep`) with one case per action; `Invariance` puts them
together, and each theorem follows from `IInv` by unfolding.

`OutboundProofs` proves `TypeCorrect`, `FilesTravelHolds`, `ToldTrulyHolds`,
`ScheduledIsPendingHolds`, `ImplementsOnce` and `PromiseHolds`, from
`OutboundAssumption`.
`RequestInv` and `PlaceInv` say where a run can be and what it holds there: the
request is over with the mail before the queue has anything of it. `RecordInv`
says what cannot be taken back, `FilesInv` that the files are there whenever they
are still to be read, `PendInv` that a queued job has a ticket that no run is
about to ack. `OnceInv` carries `ImplementsOnce`: without an overlap a run works
alone, a mail that was sent cleanly has no open job, and no run that delivers it
comes after one that did. Each action maps to an action of `Once` for the mail it
is about (`Wander` for one in doubt) and to a stutter for the others. `PromiseHolds`
draws from the refinement what `Once` promises: every mail is sent at most once,
and its job says truly whether it was, unless it is in doubt. Its invariant is the
promise itself and the types, by one case per alternative of an item's step of
`Once`.

`WebhooksProofs` proves `TypeCorrect`, `AttemptsAreCountedHolds`,
`RetryingIsPendingHolds`, `ImplementsOnce` and, in the way of `Outbound`,
`PromiseHolds`. `AttemptsAreCounted` bounds the
posts of a delivery by its webhook's limit and its manual retries, and this is
not inductive: the bound is kept by what can *still* lead to a post. `Chains(d)`
are the tickets that wait and the run that has none, `Debt(d)` is a post not yet
recorded, and `SoloAt` says of an undisturbed delivery that posts plus open
chains stay within limit, manual retries and debt. `CountInv` bounds the counters
by the runs past their post, so that `TypeOK` is a theorem; `OnceAt` says that
while a chain is open nothing was delivered, `PendInv` that a delivery shown as
retrying has one.

`SignInProofs` proves `TypeCorrect`, `SessionsAreCurrentHolds`,
`SingleUseHolds` and `FactorIsWholeHolds`. `PathInv` gives for each step the
kinds of request that come by it. `SessionInv`: a session rests on the password
and factor in force, or comes of an earlier check, or a request that will end it
is still at work. `CodesInv` and `LinksInv` count: a code or link has served at
most once, and not at all while a request is yet to use it, unless two raced over
it. `FactorInv`: a factor that is on has a secret that was proven, and one list
of codes unless requests clashed over it.

`BackupsProofs` proves `TypeCorrect`, `ArchivesMatchHolds`,
`OneScheduledADayHolds` and the action property `InProgressIsKeptHolds`. A
deletion acts on what it read awaits ago, so `ListInv` says that what was listed
stays deletable: a row that is settled was settled by its own run, at its end
(`RecordInv`), or brought back by a restore. `TickInv` says that at most one job
decides on the scheduled backup of a day, and that what it saw of the table holds
until it has written its row.

`ComposeProofs` proves `TypeCorrect`, `NothingLeftBehindHolds` and
`SavedIsCurrentHolds`. The invariant names, for every draft nothing excuses, who
is about to delete it (`Doomed`) or has yet to hear of it (`Awaited`); a composer
without a draft has made none it does not await (`UnnamedInv`), and a send without
a draft leaves none (`SendInv`). For `SavedIsCurrent`: a composer that saves as it
should has its drafts to itself (`MineInv`), and what it shows is in its draft or
in a save under way while no other save of that draft carries anything else
(`SavedInv`).

`RoutingProofs` proves `TypeCorrect`, `AnswersOneStateHolds`,
`PrecedenceAlwaysHolds` and `CountsAreAlwaysSound`, for every number of
resolutions, mailboxes, rules and edits. `StandInv` carries the precedence:
what stood all the while is gone from the record once it was looked for. For
`AnswersOneState` the invariant foresees the answer: `FromDomain`, `FromRules`,
`FromExact` and so on are the answers a resolution comes to from each of its
steps if nothing is edited any more, and `ViewInv` says that they are among those
the tables called for. `ResolveView` shows that a step of the resolution keeps
them, `EditView` that the first edit does, by kinds of edit: rules already read
do not matter, a mailbox that is deleted fits where it never was, and a new one
either lies outside the address or is the excuse. `FreshInv` says that before the
first edit what was read is what the tables say, `KeyInv` that a rule has a
mailbox there is (the foreign key, from `RoutingAssumption`). That `First` is
well defined, for any priorities, is a lemma of its own (by a least element, as
the library's induction theorems cannot be used). `CountInv` bounds a count by the
matches that went through, and what a match has read of it as well.

`ProvisionMailviewProofs` has the theorems of two modules. Of `Provision` it
proves `TypeCorrect`, `LiveIsRoutedHolds` and the action property
`RollbackLeavesHolds`. None of them is inductive: what a request does to the zone
depends on what it remembers of it, and what others have done since.

- `RunInv` says of each request what it can have done at its step: what it has
  enabled, replaced, created or written, and what it will still undo (`JobOK`).
- `TableType` are the types of the zone and the tables; `MemberInv` relates the
  tables to the requests: an account there is is being registered or was, the row of
  one being registered is its own, and its mailbox comes last.
- `AloneInv`: a request that has a `start` has had the installation to itself
  since, so whoever else runs is at rest.
- `CalmInv` carries `LiveIsRouted`. Until the zone is shaken, it is routed to the
  worker as soon as anybody is signed in; a request that found it routed would
  restore it to that, and one that found it otherwise is the first, and alone.
- `ExactInv` carries `RollbackLeaves`: for a lone request with no error behind it,
  what the zone is at each step, as the zone it found and what it has changed,
  forwards and back. `OnError` of a failed step enters the rollback at the call
  that undoes it, and the lemmas follow the calls from there one by one. `Spared` is
  its part about the rules: none has gone but the one noted as its own.
- `AliasInv` bounds the rules of a domain being added from above: they are those it
  found, and from the step on at which they are made, the addresses of the mailbox that
  uses all domains. Those stay what they are as long as nobody else moves.

Of `Mailview`, taken as the instance `View`, it proves `ViewTypeCorrect`,
`CachesAreCurrentHolds` and `FeedbackIsCountedHolds`, with `MailviewAssumption`
as their hypothesis. `FetchOK` says of a fetch under way what `CachesAreCurrent`
needs when it is answered: of this generation it is of this user, and an answer
older than a change the page was told of belongs to a list that was cleared
meanwhile or to counts of an earlier generation. `LearnCounts` is the step of
`FeedbackIsCounted`: replacing the classification that is there moves one message
from one count to the other, and only the step that replaces another than it read
(`raced`) does not. That `None` is no classification is needed for it, and
assumed. `PageType` bounds nothing by `MaxEvents`: the unread count is any natural
number, as the badge is kept from below 0 only. An instance brings copies of what
its module extends, so `SameCount` relates its `Cardinality` to that of the library.

Every theorem is about all values of the constants its module's assumption allows.
The invariants were checked by TLC on small instances before they were proved.

So every invariant, every action property and both refinements that a passing run
checks are theorems. Only model-checked are `JobsEnd`, `Settles`, `DeliveriesEnd`,
`RunsSettle` and `ShownIsTrue`, which are liveness (fairness and ENABLED are outside
what the prover handles), and the three violations `FailedForwardIsStored`,
`FailedEventMeansUnsent` and `LeavesAsItWas`, which are counterexamples. Induction
over data and RECURSIVE operators are outside as well; the modules use neither.

## 6. What is not modelled

Within the modelled components: the content of mails (parsing, MIME, HTML,
addresses), spam scores, contact upserts, the lengths of delays, batches of the
queue (each message has its own try), and which webhooks subscribe to what. The
rules that choose the status of an incoming mail are a choice in
`FinishAttachments`. Of a backup's document only the tables of the backups
themselves are modelled; its format, the check of its tables and the conversion
of older documents are left out. What `sendMailboxAutoReply` sends is a mail of its own.

Of the routing: how a rule is compared with its text (only whom it hits), the
rules within a mailbox, and the removal of a domain. Of sign-in: Turnstile, the
rate limits (counters of the platform), the lapse of sessions and links by time.
Of the mail view: other folders, search, pages and threads, star, the details of a
snooze, selection and drag, the cache of message details. Of the composer:
uploads and their limits (a file is there or not). Of the domains: the manual
zone, for which no call is made, the preflight, and zones other than the one; a row is
found again by its hostname, where the code has its id.

Merged or left out as no property depends on them: reading the settings and selecting the
expired backups are one step, as are the queries of `getMailboxDomainAddresses` and of
`getRuleMailbox`; an audit log that fails after a classification was learnt
(`feedback.ts:46`); enabling an account again without a new password. A manual retry is
offered for every delivery, where the page asks `isRetryable`.

Not modelled at all: auto-reply (its check, send and record are a step of
`Inbound`), threading, contacts, licenses, the import (its state is the IMAP
server's), mailbox access (queries without state), the SQLite adapter, whose interleaving is that of a driver
outside the repository. Pages, translations, branding, calendar, export,
search, set-up, the MCP server, scripts and seeds are forms and queries
without state that interacts.

## 7. Plan

The plan of the proofs is done: what is safety is proved. To model next, in this
order: auto-reply with two mails of one sender at once (auto-reply.ts:44), the
registration of two first accounts at once with its own property
(register/route.ts:23), the removal of a domain beside others of its zone as a
property of its own (service.ts:158), the cache of message details in `Mailview`,
and the rules within a mailbox in `Routing`.
