--------------------------- MODULE OutboundProofs ---------------------------
(***************************************************************************)
(* What is proved of Outbound, for every set of mails and every value of   *)
(* the bounds: its safety properties, and that it implements Once.         *)
(***************************************************************************)
EXTENDS Outbound, FiniteSetTheorems, TLAPS

(***************************************************************************)
(* Runs and tickets are pairs; the request of a mail is its run 0.         *)
(***************************************************************************)
Request(m) == <<m, 0>>

LEMMA Pairs ==
  /\ \A r \in Runs : MailOf(r) \in Mails /\ r[2] \in 0..MaxRuns /\ r = <<MailOf(r), r[2]>>
  /\ \A r \in Runs : IsRequest(r) <=> r = Request(MailOf(r))
  /\ \A m \in Mails : Request(m) \in Runs /\ MailOf(Request(m)) = m /\ IsRequest(Request(m))
BY OutboundAssumption DEF Runs, MailOf, IsRequest, Request

\* A run that is not the request delivers a ticket of its mail.
LEMMA TicketPairs ==
  /\ \A t \in Tickets : t[1] \in Mails /\ t[2] \in 1..MaxTickets /\ t = <<t[1], t[2]>>
  /\ \A m \in Mails, n \in 1..MaxTickets : <<m, n>> \in Tickets
BY DEF Tickets

(***************************************************************************)
(* What a retry and an error do to the queue, the caller and the history.  *)
(***************************************************************************)
LEMMA RetryEffect ==
  ASSUME TypeOK, NEW t, Retry(t)
  PROVE  /\ ticket' \in [Tickets -> TicketStates] /\ tries' \in [Tickets -> 0..MaxRetries]
         /\ \A u \in Tickets : \/ ticket'[u] = ticket[u]
                               \/ ticket[u] = "leased" /\ ticket'[u] \in {"ready", "dead"}
<1>0. /\ ticket \in [Tickets -> TicketStates] /\ tries \in [Tickets -> 0..MaxRetries]
      /\ MaxRetries \in Nat
  BY OutboundAssumption DEF TypeOK
<1>1. CASE ticket[t] # "leased"
  BY <1>0, <1>1 DEF Retry, queueVars
<1>2. CASE ticket[t] = "leased" /\ tries[t] < MaxRetries
  <2>1. t \in Tickets => tries[t] + 1 \in 0..MaxRetries
    BY <1>0, <1>2
  <2> QED
    BY <1>0, <1>2, <2>1 DEF Retry, TicketStates
<1>3. CASE ticket[t] = "leased" /\ ~(tries[t] < MaxRetries)
  BY <1>0, <1>3 DEF Retry, TicketStates
<1> QED
  BY <1>1, <1>2, <1>3

LEMMA SlipsEffect ==
  ASSUME TypeOK, NEW r \in Runs, Slips(r)
  PROVE  /\ slipped' \subseteq Runs /\ slipped \subseteq slipped'
         /\ slipped' \subseteq slipped \cup {r}
         /\ r \in accepted /\ jobs[MailOf(r)] = "queued" => r \in slipped'
BY DEF TypeOK, Slips

LEMMA ThrowEffect ==
  ASSUME TypeOK, NEW r \in Runs, Throw(r)
  PROVE  /\ Goto(r, "failed") /\ Slips(r)
         /\ ticket' \in [Tickets -> TicketStates] /\ tries' \in [Tickets -> 0..MaxRetries]
         /\ \A u \in Tickets : \/ ticket'[u] = ticket[u]
                               \/ ticket[u] = "leased" /\ ticket'[u] \in {"ready", "dead"}
         /\ answer' \in [Mails -> {"none", "ok", "error"}]
         /\ IsRequest(r) => answer' = [answer EXCEPT ![MailOf(r)] = "error"] /\ UNCHANGED ticket
         /\ ~IsRequest(r) => UNCHANGED answer
<1>1. CASE IsRequest(r)
  BY <1>1 DEF Throw, TypeOK, queueVars
<1>2. CASE ~IsRequest(r)
  <2>1. Retry(TicketOf(r)) /\ UNCHANGED answer
    BY <1>2 DEF Throw
  <2> QED
    BY <1>2, <2>1, RetryEffect DEF Throw, TypeOK
<1> QED
  BY <1>1, <1>2

-----------------------------------------------------------------------------
(***************************************************************************)
(* Every step keeps every variable in its set.                             *)
(***************************************************************************)
LEMMA GotoType ==
  ASSUME TypeOK, NEW r, NEW step \in Steps, Goto(r, step)
  PROVE  pc' \in [Runs -> Steps]
BY DEF TypeOK, Goto

LEMMA StepNames ==
  /\ {"row", "files", "undo", "job", "enqueue", "read", "requeue", "load", "send",
      "return", "mark", "markJob", "event", "audit", "failMark", "failJob", "failEvent",
      "idle", "done", "failed", "crashed"} \subseteq Steps
BY DEF Steps, Resting, Recording, Reporting, Catching

LEMMA RequestType ==
  ASSUME TypeOK, NEW r \in Runs,
         InsertRow(r) \/ StoreFiles(r) \/ DeleteRow(r) \/ InsertJob(r) \/ Enqueue(r)
  PROVE  TypeOK'
<1>0. MailOf(r) \in Mails
  BY Pairs
<1>1. pc' \in [Runs -> Steps]
  BY StepNames, GotoType DEF InsertRow, StoreFiles, DeleteRow, InsertJob, Enqueue, Throw
<1>2. /\ answer' \in [Mails -> {"none", "ok", "error"}]
      /\ tries' \in [Tickets -> 0..MaxRetries] /\ slipped' \subseteq Runs
  BY ThrowEffect, SlipsEffect DEF InsertRow, StoreFiles, DeleteRow, InsertJob, Enqueue,
     SameEnd, queueVars, TypeOK
<1>3. ticket' \in [Tickets -> TicketStates]
  <2>1. ASSUME NEW t \in Tickets
        PROVE  [ticket EXCEPT ![t] = "ready"] \in [Tickets -> TicketStates]
    BY DEF TypeOK, TicketStates
  <2> QED
    BY <2>1, ThrowEffect DEF InsertRow, StoreFiles, DeleteRow, InsertJob, Enqueue, Free,
       SameEnd, queueVars, TypeOK
<1>4. /\ row' \in [Mails -> RowStates] /\ files' \subseteq Mails
      /\ jobs' \in [Mails -> JobStates]
  BY <1>0 DEF InsertRow, StoreFiles, DeleteRow, InsertJob, Enqueue, storeVars, TypeOK,
     RowStates, JobStates
<1>5. UNCHANGED <<runtime, scheduled, due, runs, serves, overlapped, faults, carried,
                  accepted, told, tripped>>
  BY DEF InsertRow, StoreFiles, DeleteRow, InsertJob, Enqueue, Same, bounds, deliveryVars
<1> QED
  BY <1>1, <1>2, <1>3, <1>4, <1>5 DEF TypeOK

LEMMA ConsumerType ==
  ASSUME TypeOK, NEW r \in Runs, ReadJob(r) \/ LoadFiles(r) \/ Return(r)
  PROVE  TypeOK'
<1>0. MailOf(r) \in Mails
  BY Pairs
<1>1. pc' \in [Runs -> Steps]
  BY StepNames, GotoType DEF ReadJob, LoadFiles, Return, Throw
<1>2. /\ answer' \in [Mails -> {"none", "ok", "error"}]
      /\ tries' \in [Tickets -> 0..MaxRetries] /\ slipped' \subseteq Runs
  BY <1>0, ThrowEffect, SlipsEffect DEF ReadJob, LoadFiles, Return, SameEnd, queueVars, TypeOK
<1>3. ticket' \in [Tickets -> TicketStates]
  <2>1. CASE Return(r)
    BY <2>1 DEF Return, TypeOK, TicketStates
  <2>2. CASE ReadJob(r) \/ LoadFiles(r)
    BY <2>2, ThrowEffect DEF ReadJob, LoadFiles, SameEnd, queueVars, TypeOK
  <2> QED
    BY <2>1, <2>2
<1>4. /\ carried' \subseteq Runs
      /\ UNCHANGED <<runtime, scheduled, due, storeVars, runs, serves, overlapped, faults,
                     accepted, told, tripped>>
  BY DEF ReadJob, LoadFiles, Return, Same, bounds, deliveryVars, TypeOK
<1> QED
  BY <1>1, <1>2, <1>3, <1>4 DEF TypeOK, storeVars

LEMMA SendType ==
  ASSUME TypeOK, NEW r \in Runs,
         \/ Send(r) \/ MarkSent(r) \/ MarkJobSent(r) \/ Announce(r) \/ Audit(r) \/ Trip(r)
         \/ FailMark(r) \/ FailJob(r) \/ FailEvent(r) \/ CatchFails(r)
  PROVE  TypeOK'
<1>0. MailOf(r) \in Mails
  BY Pairs
<1>1. pc' \in [Runs -> Steps]
  BY StepNames, GotoType DEF Send, MarkSent, MarkJobSent, Announce, Audit, Trip, FailMark,
     FailJob, FailEvent, CatchFails, Throw
<1>2. /\ answer' \in [Mails -> {"none", "ok", "error"}]
      /\ ticket' \in [Tickets -> TicketStates]
      /\ tries' \in [Tickets -> 0..MaxRetries] /\ slipped' \subseteq Runs
  BY ThrowEffect, SlipsEffect DEF Send, MarkSent, MarkJobSent, Announce, Audit, Trip, FailMark,
     FailJob, FailEvent, CatchFails, SameEnd, queueVars, TypeOK
<1>3. /\ row' \in [Mails -> RowStates] /\ jobs' \in [Mails -> JobStates]
  <2>1. CASE MarkSent(r) \/ FailMark(r)
    BY <1>0, <2>1 DEF MarkSent, FailMark, SetRow, TypeOK, RowStates
  <2>2. CASE MarkJobSent(r) \/ FailJob(r)
    BY <1>0, <2>2 DEF MarkJobSent, FailJob, TypeOK, JobStates
  <2>3. CASE Send(r) \/ Announce(r) \/ Audit(r) \/ Trip(r) \/ FailEvent(r) \/ CatchFails(r)
    BY <2>3 DEF Send, Announce, Audit, Trip, FailEvent, CatchFails, storeVars, TypeOK
  <2> QED
    BY <2>1, <2>2, <2>3
<1>4. told' \in [Mails -> SUBSET Events]
  <2>1. ASSUME NEW e \in Events, Tell(MailOf(r), e) PROVE told' \in [Mails -> SUBSET Events]
    BY <1>0, <2>1 DEF Tell, TypeOK
  <2>2. UNCHANGED told \/ \E e \in Events : Tell(MailOf(r), e)
    BY DEF Send, MarkSent, MarkJobSent, Announce, Audit, Trip, FailMark, FailJob, FailEvent,
       CatchFails, deliveryVars, Events
  <2> QED
    BY <2>1, <2>2 DEF TypeOK
<1>5. /\ accepted' \subseteq Runs /\ tripped' \subseteq Runs
      /\ UNCHANGED <<runtime, scheduled, due, files, runs, serves, overlapped, faults, carried>>
  BY DEF Send, MarkSent, MarkJobSent, Announce, Audit, Trip, FailMark, FailJob, FailEvent,
     CatchFails, Same, bounds, deliveryVars, storeVars, TypeOK
<1> QED
  BY <1>1, <1>2, <1>3, <1>4, <1>5 DEF TypeOK

LEMMA BeginRunType ==
  ASSUME TypeOK, NEW t \in Tickets, Deliver(t) \/ DeliverDuplicate(t)
  PROVE  TypeOK'
<1>0. /\ t[1] \in Mails /\ t[2] \in 0..MaxTickets
      /\ MaxRuns \in Nat /\ MaxFaults \in Nat /\ BeginRun(t)
  BY TicketPairs, OutboundAssumption DEF Deliver, DeliverDuplicate
<1>1. runs[t[1]] \in 0..MaxRuns /\ runs[t[1]] < MaxRuns
  BY <1>0 DEF BeginRun, TypeOK
<1>2. runs' \in [Mails -> 0..MaxRuns]
  <2>1. runs[t[1]] + 1 \in 0..MaxRuns
    BY <1>0, <1>1
  <2> QED
    BY <1>0, <2>1 DEF BeginRun, TypeOK
<1>3. faults' \in 0..MaxFaults
  <2>1. CASE faults' = faults
    BY <2>1 DEF TypeOK
  <2>2. CASE faults < MaxFaults /\ faults' = faults + 1
    BY <1>0, <2>2 DEF TypeOK
  <2> QED
    BY <2>1, <2>2 DEF Deliver, DeliverDuplicate
<1>4. /\ pc' \in [Runs -> Steps] /\ serves' \in [Runs -> 0..MaxTickets]
      /\ ticket' \in [Tickets -> TicketStates] /\ overlapped' \subseteq Mails
  BY <1>0, StepNames, GotoType DEF BeginRun, TypeOK, TicketStates
<1> QED
  BY <1>0, <1>2, <1>3, <1>4 DEF BeginRun, TypeOK, storeVars, deliveryVars

LEMMA CrashType ==
  ASSUME TypeOK, (\E r \in Runs : CrashRun(r)) \/ RestartProcess
  PROVE  TypeOK'
<1>0. MaxFaults \in Nat
  BY OutboundAssumption
<1>1. faults' \in 0..MaxFaults
  BY <1>0 DEF CrashRun, RestartProcess, TypeOK
<1>2. CASE RestartProcess
  <2>1. /\ pc' \in [Runs -> Steps] /\ ticket' \in [Tickets -> TicketStates]
        /\ slipped' \subseteq Runs
    BY <1>2, StepNames DEF RestartProcess, TypeOK, TicketStates
  <2> QED
    BY <1>1, <1>2, <2>1 DEF RestartProcess, TypeOK, storeVars, deliveryVars
<1>3. ASSUME NEW r \in Runs, CrashRun(r) PROVE TypeOK'
  <2>1. pc' \in [Runs -> Steps] /\ slipped' \subseteq Runs
    BY <1>3, StepNames, GotoType, SlipsEffect DEF CrashRun
  <2>2. ticket' \in [Tickets -> TicketStates] /\ tries' \in [Tickets -> 0..MaxRetries]
    BY <1>3, RetryEffect DEF CrashRun, TypeOK, queueVars
  <2> QED
    BY <1>1, <1>3, <2>1, <2>2 DEF CrashRun, TypeOK, storeVars, deliveryVars
<1> QED
  BY <1>2, <1>3

LEMMA OutsideType ==
  ASSUME TypeOK, NEW m \in Mails, BecomesDue(m) \/ Trash(m) \/ Destroy(m)
  PROVE  TypeOK'
<1>1. /\ row' \in [Mails -> RowStates] /\ due' \subseteq Mails /\ files' \subseteq Mails
  BY DEF BecomesDue, Trash, Destroy, TypeOK, RowStates, storeVars
<1> QED
  BY <1>1 DEF BecomesDue, Trash, Destroy, TypeOK, storeVars, queueVars, deliveryVars, history,
     bounds

LEMMA InitType ==
  ASSUME Init
  PROVE  TypeOK
<1>1. 0 \in 0..MaxRetries /\ 0 \in 0..MaxRuns /\ 0 \in 0..MaxTickets /\ 0 \in 0..MaxFaults
  BY OutboundAssumption
<1>2. pc \in [Runs -> Steps]
  BY StepNames DEF Init
<1> QED
  BY <1>1, <1>2 DEF Init, TypeOK, RowStates, JobStates, TicketStates

LEMMA NextType ==
  ASSUME TypeOK, [Next]_vars
  PROVE  TypeOK'
<1>1. CASE UNCHANGED vars
  BY <1>1 DEF vars, storeVars, queueVars, deliveryVars, history, bounds, TypeOK
<1> QED
  BY <1>1, RequestType, ConsumerType, SendType, BeginRunType, CrashType, OutsideType
     DEF Next, Run

\* Every variable keeps to its set.
THEOREM TypeCorrect == Spec => []TypeOK
<1> QED
  BY InitType, NextType, PTL DEF Spec

-----------------------------------------------------------------------------
(***************************************************************************)
(* The inductive invariant.                                                *)
(***************************************************************************)
\* Some queue message of the mail has been sent.
Started(m) == \E t \in Tickets : t[1] = m /\ ticket[t] # "free"
\* The provider has the mail of this run, and nothing went wrong after that.
Clean(r) == r \in accepted /\ r \notin tripped \cup slipped
Unsent == {"idle", "row", "files", "undo", "job", "enqueue", "read", "requeue", "load", "send"}
Delivering == {"load", "send"} \cup Recording \cup Reporting \cup Catching

\* Where a run can be, and what it has done there.
RunInv(r) ==
  /\ IsRequest(r) => pc[r] \notin {"idle", "read", "requeue", "load"}
  /\ ~IsRequest(r) => pc[r] \notin {"row", "files", "undo", "job", "enqueue"}
  /\ ~IsRequest(r) => (pc[r] = "idle" <=> r[2] > runs[MailOf(r)])
  /\ pc[r] \in Unsent => r \notin accepted
  /\ pc[r] \in Recording \cup Reporting => r \in accepted
  /\ pc[r] \in Catching \cup {"failed"} /\ r \in accepted => r \in tripped
  /\ ~IsRequest(r) /\ pc[r] # "idle" =>
       serves[r] \in 1..MaxTickets /\ ticket[TicketOf(r)] # "free"
PlaceInv == \A r \in Runs : RunInv(r)

\* The request is over with the mail before the queue has anything of it.
RequestAt(m) ==
  /\ Started(m) => pc[Request(m)] \in {"return", "done", "crashed"}
                   /\ Request(m) \notin accepted
  /\ pc[Request(m)] = "row" => row[m] = "none"
  /\ pc[Request(m)] \in {"row", "files", "undo", "job"} => jobs[m] = "none"
  /\ answer[m] = "error" => pc[Request(m)] = "failed"
  /\ answer[m] = "ok" => pc[Request(m)] = "done"
RequestInv == \A m \in Mails : RequestAt(m)

\* What has been recorded stays so, whoever works on the mail.
Settled(m) == jobs[m] \in {"sent", "failed"}
RecordInv ==
  /\ \A r \in Runs : /\ pc[r] \in {"event", "audit", "failEvent"} => Settled(MailOf(r))
                     /\ pc[r] \in Delivering => jobs[MailOf(r)] # "none"
  /\ \A m \in Mails :
       /\ "message.failed" \in told[m] => Settled(m)
       /\ jobs[m] = "sent" \/ "message.outbound" \in told[m] => SentBy(m) # {}

\* A run works alone, and a mail that was sent cleanly has no open job or other run.
OnceAt(r) ==
  /\ Working(r) => \A q \in Runs : MailOf(q) = MailOf(r) /\ Working(q) => q = r
  /\ Clean(r) /\ ~Working(r) => jobs[MailOf(r)] # "queued"
  /\ pc[r] \in Delivering => \A q \in Runs : MailOf(q) = MailOf(r) /\ Clean(q) => q = r
  /\ pc[r] \in {"load", "send"} \cup Recording => jobs[MailOf(r)] = "queued"
  /\ pc[r] \in {"failMark", "failJob"} => jobs[MailOf(r)] = "queued" \/ r \in tripped
OnceInv == \A r \in Runs : MailOf(r) \notin overlapped => OnceAt(r)

FailedInv ==
  \A r \in accepted :
    "message.failed" \in told[MailOf(r)] /\ MailOf(r) \notin overlapped => r \in tripped \cup slipped

Kept(m) == m \in files \/ row[m] = "gone"
FilesInv ==
  /\ \A r \in Runs :
       /\ IsRequest(r) => r \in carried
       /\ pc[r] = "send" \/ r \in accepted => r \in carried \/ row[MailOf(r)] = "gone"
       /\ pc[r] = "load" => Kept(MailOf(r))
  /\ \A m \in Mails : jobs[m] # "none" \/ pc[Request(m)] = "job" => Kept(m)

\* A ticket that is not about to be acked.
Pending(t) ==
  /\ ticket[t] \notin {"free", "acked"}
  /\ \A r \in Runs : pc[r] = "return" /\ ~IsRequest(r) => TicketOf(r) # t
PendAt(m) ==
  /\ Started(m) => \E t \in Tickets : t[1] = m /\ Pending(t)
  /\ pc[Request(m)] \in {"return", "done"} => Started(m)
PendInv == \A m \in Mails : jobs[m] = "queued" => PendAt(m)

IInv == /\ TypeOK /\ PlaceInv /\ RequestInv /\ RecordInv /\ OnceInv /\ FailedInv
        /\ FilesInv /\ PendInv

-----------------------------------------------------------------------------
(***************************************************************************)
(* What a step of one run leaves alone.                                    *)
(***************************************************************************)
Stepping(r) == Run(r) \/ CrashRun(r)

\* A ticket once sent is never free again, and those of other mails stay put.
LEMMA TicketFrame ==
  ASSUME TypeOK, NEW r \in Runs, Stepping(r)
  PROVE  \A t \in Tickets :
           /\ ticket[t] # "free" => ticket'[t] # "free"
           /\ t[1] # MailOf(r) => ticket'[t] = ticket[t]
<1>0. ticket \in [Tickets -> TicketStates] /\ TicketOf(r)[1] = MailOf(r)
  BY DEF TypeOK, TicketOf
<1>1. ASSUME NEW t, t[1] = MailOf(r), Retry(t)
      PROVE  \A u \in Tickets : /\ ticket[u] # "free" => ticket'[u] # "free"
                                /\ u[1] # MailOf(r) => ticket'[u] = ticket[u]
  BY <1>0, <1>1 DEF Retry, queueVars
<1>2. ASSUME Throw(r)
      PROVE  \A u \in Tickets : /\ ticket[u] # "free" => ticket'[u] # "free"
                                /\ u[1] # MailOf(r) => ticket'[u] = ticket[u]
  BY <1>0, <1>1, <1>2 DEF Throw, queueVars
<1>3. CASE Enqueue(r)
  BY <1>0, <1>2, <1>3 DEF Enqueue, Free
<1>4. CASE Return(r)
  BY <1>0, <1>4 DEF Return
<1>5. CASE CrashRun(r)
  BY <1>0, <1>1, <1>5 DEF CrashRun, queueVars
<1>6. CASE Run(r) /\ ~Enqueue(r) /\ ~Return(r)
  <2>1. Throw(r) \/ UNCHANGED ticket
    BY <1>6 DEF Run, InsertRow, StoreFiles, DeleteRow, InsertJob, ReadJob, LoadFiles, Send,
       MarkSent, MarkJobSent, Announce, Audit, Trip, FailMark, FailJob, FailEvent, CatchFails,
       SameEnd, queueVars
  <2> QED
    BY <1>2, <2>1
<1> QED
  BY <1>3, <1>4, <1>5, <1>6 DEF Stepping

LEMMA RunFrame ==
  ASSUME TypeOK, NEW r \in Runs, Stepping(r)
  PROVE  /\ \A q \in Runs : q # r => pc'[q] = pc[q]
         /\ UNCHANGED <<serves, runs, overlapped>>
         /\ Live(r)
<1>1. UNCHANGED <<serves, runs, overlapped>>
  BY DEF Stepping, Run, InsertRow, StoreFiles, DeleteRow, InsertJob, Enqueue, ReadJob, LoadFiles,
     Send, MarkSent, MarkJobSent, Announce, Audit, Trip, FailMark, FailJob, FailEvent,
     CatchFails, Return, CrashRun, Same
<1>2. \E step : Goto(r, step)
  BY DEF Stepping, Run, InsertRow, StoreFiles, DeleteRow, InsertJob, Enqueue, ReadJob, LoadFiles,
     Send, MarkSent, MarkJobSent, Announce, Audit, Trip, FailMark, FailJob, FailEvent,
     CatchFails, Return, CrashRun, Throw
<1>3. Live(r)
  BY DEF Stepping, Run, InsertRow, StoreFiles, DeleteRow, InsertJob, Enqueue, ReadJob, LoadFiles,
     Send, MarkSent, MarkJobSent, Announce, Audit, Trip, FailMark, FailJob, FailEvent,
     CatchFails, Return, CrashRun, Live, Resting, Recording, Reporting, Catching
<1> QED
  BY <1>1, <1>2, <1>3 DEF TypeOK, Goto

LEMMA SetsFrame ==
  ASSUME TypeOK, NEW r \in Runs, Stepping(r)
  PROVE  /\ accepted \subseteq accepted' /\ accepted' \subseteq accepted \cup {r}
         /\ tripped \subseteq tripped' /\ tripped' \subseteq tripped \cup {r}
         /\ slipped \subseteq slipped' /\ slipped' \subseteq slipped \cup {r}
         /\ carried \subseteq carried' /\ carried' \subseteq carried \cup {r}
<1>1. slipped \subseteq slipped' /\ slipped' \subseteq slipped \cup {r}
  <2>1. Slips(r) \/ UNCHANGED slipped
    BY DEF Stepping, Run, InsertRow, StoreFiles, DeleteRow, InsertJob, Enqueue, ReadJob,
       LoadFiles, Send, MarkSent, MarkJobSent, Announce, Audit, Trip, FailMark, FailJob,
       FailEvent, CatchFails, Return, CrashRun, Throw, SameEnd
  <2> QED
    BY <2>1, SlipsEffect
<1>2. /\ accepted \subseteq accepted' /\ accepted' \subseteq accepted \cup {r}
      /\ tripped \subseteq tripped' /\ tripped' \subseteq tripped \cup {r}
      /\ carried \subseteq carried' /\ carried' \subseteq carried \cup {r}
  BY DEF Stepping, Run, InsertRow, StoreFiles, DeleteRow, InsertJob, Enqueue, ReadJob,
     LoadFiles, Send, MarkSent, MarkJobSent, Announce, Audit, Trip, FailMark, FailJob,
     FailEvent, CatchFails, Return, CrashRun, deliveryVars
<1> QED
  BY <1>1, <1>2

LEMMA MailFrame ==
  ASSUME TypeOK, NEW r \in Runs, Stepping(r), NEW m \in Mails, m # MailOf(r)
  PROVE  /\ jobs'[m] = jobs[m] /\ row'[m] = row[m] /\ answer'[m] = answer[m]
         /\ told'[m] = told[m] /\ (m \in files' <=> m \in files)
<1>1. answer'[m] = answer[m]
  <2>1. Throw(r) => answer'[m] = answer[m]
    BY DEF Throw, TypeOK
  <2>2. Throw(r) \/ Return(r) \/ UNCHANGED answer
    BY DEF Stepping, Run, InsertRow, StoreFiles, DeleteRow, InsertJob, Enqueue, ReadJob,
       LoadFiles, Send, MarkSent, MarkJobSent, Announce, Audit, Trip, FailMark, FailJob,
       FailEvent, CatchFails, CrashRun, SameEnd
  <2> QED
    BY <2>1, <2>2 DEF Return, TypeOK
<1>2. jobs'[m] = jobs[m]
  BY DEF Stepping, Run, InsertRow, StoreFiles, DeleteRow, InsertJob, Enqueue, ReadJob,
     LoadFiles, Send, MarkSent, MarkJobSent, Announce, Audit, Trip, FailMark, FailJob,
     FailEvent, CatchFails, Return, CrashRun, storeVars, TypeOK
<1>3. row'[m] = row[m] /\ (m \in files' <=> m \in files)
  BY DEF Stepping, Run, InsertRow, StoreFiles, DeleteRow, InsertJob, Enqueue, ReadJob,
     LoadFiles, Send, MarkSent, MarkJobSent, Announce, Audit, Trip, FailMark, FailJob,
     FailEvent, CatchFails, Return, CrashRun, storeVars, SetRow, TypeOK
<1>4. told'[m] = told[m]
  BY DEF Stepping, Run, InsertRow, StoreFiles, DeleteRow, InsertJob, Enqueue, ReadJob,
     LoadFiles, Send, MarkSent, MarkJobSent, Announce, Audit, Trip, FailMark, FailJob,
     FailEvent, CatchFails, Return, CrashRun, deliveryVars, Tell, TypeOK
<1> QED
  BY <1>1, <1>2, <1>3, <1>4

-----------------------------------------------------------------------------
(***************************************************************************)
(* Where a run can be.                                                     *)
(***************************************************************************)
LEMMA RunPlace ==
  ASSUME TypeOK, PlaceInv, NEW r \in Runs, Stepping(r)
  PROVE  PlaceInv'
<1>0. /\ \A q \in Runs : q # r => pc'[q] = pc[q]
      /\ UNCHANGED <<serves, runs>> /\ Live(r)
      /\ accepted \subseteq accepted' /\ accepted' \subseteq accepted \cup {r}
      /\ tripped \subseteq tripped'
      /\ \A t \in Tickets : ticket[t] # "free" => ticket'[t] # "free"
      /\ pc \in [Runs -> Steps]
  BY RunFrame, SetsFrame, TicketFrame DEF TypeOK
<1>1. ASSUME NEW q \in Runs, ~IsRequest(q), pc[q] # "idle"
      PROVE  (serves[q] \in 1..MaxTickets /\ ticket[TicketOf(q)] # "free")'
  <2>1. serves[q] \in 1..MaxTickets /\ ticket[TicketOf(q)] # "free" /\ MailOf(q) \in Mails
    BY <1>1, Pairs DEF PlaceInv, RunInv
  <2>2. TicketOf(q) \in Tickets
    BY <2>1, TicketPairs DEF TicketOf
  <2> QED
    BY <1>0, <2>1, <2>2 DEF TicketOf
<1>2. ASSUME NEW q \in Runs, q # r PROVE RunInv(q)'
  <2>1. RunInv(q) /\ pc'[q] = pc[q] /\ (q \in accepted' <=> q \in accepted)
        /\ (q \in tripped => q \in tripped')
    BY <1>0, <1>2 DEF PlaceInv
  <2> QED
    BY <1>0, <1>1, <2>1 DEF RunInv, IsRequest, MailOf
<1>3. RunInv(r)'
  <2>0. RunInv(r) /\ pc[r] # "idle"
    BY <1>0 DEF PlaceInv, Live, Resting
  <2>1. /\ IsRequest(r) => pc'[r] \notin {"idle", "read", "requeue", "load"}
        /\ ~IsRequest(r) => pc'[r] \notin {"idle", "row", "files", "undo", "job", "enqueue"}
    BY <1>0, <2>0 DEF RunInv, Stepping, Run, InsertRow, StoreFiles, DeleteRow, InsertJob, Enqueue,
       ReadJob, LoadFiles, Send, MarkSent, MarkJobSent, Announce, Audit, Trip, FailMark, FailJob,
       FailEvent, CatchFails, Return, CrashRun, Throw, Goto, Catching
  <2>2. pc'[r] \in Unsent => r \notin accepted'
    BY <1>0, <2>0 DEF RunInv, Stepping, Run, InsertRow, StoreFiles, DeleteRow, InsertJob, Enqueue,
       ReadJob, LoadFiles, Send, MarkSent, MarkJobSent, Announce, Audit, Trip, FailMark, FailJob,
       FailEvent, CatchFails, Return, CrashRun, Throw, Goto, Unsent, deliveryVars
  <2>3. pc'[r] \in Recording \cup Reporting => r \in accepted'
    BY <1>0, <2>0 DEF RunInv, Stepping, Run, InsertRow, StoreFiles, DeleteRow, InsertJob, Enqueue,
       ReadJob, LoadFiles, Send, MarkSent, MarkJobSent, Announce, Audit, Trip, FailMark, FailJob,
       FailEvent, CatchFails, Return, CrashRun, Throw, Goto, Recording, Reporting, deliveryVars
  <2>4. pc'[r] \in Catching \cup {"failed"} /\ r \in accepted' => r \in tripped'
    BY <1>0, <2>0 DEF RunInv, Stepping, Run, InsertRow, StoreFiles, DeleteRow, InsertJob, Enqueue,
       ReadJob, LoadFiles, Send, MarkSent, MarkJobSent, Announce, Audit, Trip, FailMark, FailJob,
       FailEvent, CatchFails, Return, CrashRun, Throw, Goto, Unsent, Catching, Recording,
       Reporting, deliveryVars
  <2> QED
    BY <1>0, <1>1, <2>0, <2>1, <2>2, <2>3, <2>4 DEF RunInv, IsRequest, MailOf
<1> QED
  BY <1>2, <1>3 DEF PlaceInv

LEMMA BeginPlace ==
  ASSUME TypeOK, PlaceInv, NEW t \in Tickets, BeginRun(t)
  PROVE  /\ PlaceInv'
         /\ <<t[1], runs[t[1]] + 1>> \in Runs /\ pc[<<t[1], runs[t[1]] + 1>>] = "idle"
<1> DEFINE m == t[1]
<1>0. /\ m \in Mails /\ t = <<m, t[2]>> /\ t[2] \in 1..MaxTickets /\ MaxRuns \in Nat
      /\ runs[m] \in 0..MaxRuns /\ runs[m] < MaxRuns
  BY TicketPairs, OutboundAssumption DEF TypeOK, BeginRun
<1>1. PICK n \in Runs : /\ n = <<m, runs[m] + 1>>
                       /\ MailOf(n) = m /\ n[2] = runs[m] + 1 /\ ~IsRequest(n)
  <2>1. <<m, runs[m] + 1>> \in Runs
    BY <1>0 DEF Runs
  <2> QED
    BY <1>0, <2>1 DEF MailOf, IsRequest
<1>2. pc[n] = "idle"
  BY <1>0, <1>1 DEF PlaceInv, RunInv
<1>3. /\ pc' = [pc EXCEPT ![n] = "read"] /\ serves' = [serves EXCEPT ![n] = t[2]]
      /\ ticket' = [ticket EXCEPT ![t] = "leased"] /\ runs' = [runs EXCEPT ![m] = runs[m] + 1]
      /\ UNCHANGED <<accepted, tripped>>
      /\ pc \in [Runs -> Steps] /\ serves \in [Runs -> 0..MaxTickets]
      /\ ticket \in [Tickets -> TicketStates] /\ runs \in [Mails -> 0..MaxRuns]
  BY <1>1 DEF BeginRun, Goto, TypeOK, deliveryVars
<1> HIDE DEF m
<1>4. ASSUME NEW q \in Runs, q # n PROVE RunInv(q)'
  <2>1. /\ RunInv(q) /\ pc'[q] = pc[q] /\ serves'[q] = serves[q] /\ TicketOf(q)' = TicketOf(q)
        /\ MailOf(q) \in Mails /\ q[2] \in 0..MaxRuns /\ q = <<MailOf(q), q[2]>>
    BY <1>3, <1>4, Pairs DEF PlaceInv, TicketOf, MailOf
  <2>2. ~IsRequest(q) /\ pc[q] # "idle" => ticket'[TicketOf(q)] # "free"
    <3>1. ASSUME ~IsRequest(q), pc[q] # "idle" PROVE TicketOf(q) \in Tickets
      BY <2>1, <3>1, TicketPairs DEF RunInv, TicketOf
    <3> QED
      BY <1>3, <2>1, <3>1 DEF RunInv
  <2>3. ~IsRequest(q) => (pc[q] = "idle" <=> q[2] > runs'[MailOf(q)])
    <3>1. CASE MailOf(q) # m
      BY <1>3, <2>1, <3>1 DEF RunInv
    <3>2. CASE MailOf(q) = m
      <4>1. q[2] # runs[m] + 1
        BY <1>1, <1>4, <2>1, <3>2
      <4>2. runs'[m] = runs[m] + 1
        BY <1>0, <1>3
      <4> QED
        BY <1>0, <2>1, <3>2, <4>1, <4>2 DEF RunInv
    <3> QED
      BY <3>1, <3>2
  <2> QED
    BY <1>3, <2>1, <2>2, <2>3 DEF RunInv, IsRequest, MailOf
<1>5. RunInv(n)'
  <2>1. /\ pc'[n] = "read" /\ serves'[n] = t[2] /\ n[2] = runs'[MailOf(n)]
        /\ n \notin accepted
    BY <1>0, <1>1, <1>2, <1>3 DEF PlaceInv, RunInv, Unsent
  <2>2. TicketOf(n)' = t
    BY <1>0, <1>1, <2>1 DEF TicketOf, MailOf
  <2>3. ticket'[t] = "leased" /\ runs'[MailOf(n)] \in Nat
    BY <1>0, <1>1, <1>3
  <2>4. ~(n[2] > runs'[MailOf(n)])
    BY <2>1, <2>3
  <2>5. ~(pc'[n] \in Recording \cup Reporting \cup Catching \cup {"failed"})
    BY <2>1 DEF Recording, Reporting, Catching
  <2> QED
    BY <1>0, <1>1, <1>3, <2>1, <2>2, <2>3, <2>4, <2>5 DEF RunInv, IsRequest, MailOf
<1> QED
  BY <1>1, <1>2, <1>4, <1>5 DEF PlaceInv, m

\* What time, users and restarts do.
LEMMA OutsideFrame ==
  ASSUME TypeOK, NEW m \in Mails, BecomesDue(m) \/ Trash(m) \/ Destroy(m)
  PROVE  /\ UNCHANGED <<jobs, answer, ticket, runs, pc, serves, carried, accepted, told,
                        overlapped, tripped, slipped>>
         /\ \A k \in Mails : /\ row[k] = "none" => row'[k] = "none"
                             /\ row[k] = "gone" => row'[k] = "gone"
                             /\ k \in files => k \in files' \/ row'[k] = "gone"
BY DEF BecomesDue, Trash, Destroy, storeVars, queueVars, deliveryVars, history, TypeOK

LEMMA RestartFrame ==
  ASSUME TypeOK, RestartProcess
  PROVE  /\ UNCHANGED <<jobs, row, files, answer, runs, serves, carried, accepted, told,
                        overlapped, tripped>>
         /\ \A r \in Runs : pc'[r] = IF Live(r) THEN "crashed" ELSE pc[r]
         /\ \A t \in Tickets : /\ ticket[t] = "free" <=> ticket'[t] = "free"
                               /\ ticket[t] = "acked" <=> ticket'[t] = "acked"
         /\ \A r \in accepted : Live(r) /\ jobs[MailOf(r)] = "queued" => r \in slipped'
         /\ slipped \subseteq slipped'
BY DEF RestartProcess, TypeOK, TicketStates, storeVars, deliveryVars

LEMMA OtherPlace ==
  ASSUME TypeOK, PlaceInv,
         \/ RestartProcess
         \/ \E m \in Mails : BecomesDue(m) \/ Trash(m) \/ Destroy(m)
  PROVE  PlaceInv'
<1>1. CASE RestartProcess
  <2>1. ASSUME NEW q \in Runs PROVE RunInv(q)'
    <3>1. /\ RunInv(q) /\ UNCHANGED <<accepted, tripped, serves, runs>>
          /\ pc'[q] = pc[q] \/ (pc'[q] = "crashed" /\ Live(q))
      BY <1>1, RestartFrame DEF PlaceInv
    <3>2. ~IsRequest(q) /\ pc[q] # "idle" => TicketOf(q) \in Tickets
      BY <3>1, Pairs, TicketPairs DEF RunInv, TicketOf
    <3>3. ~IsRequest(q) /\ pc[q] # "idle" => ticket'[TicketOf(q)] # "free"
      BY <1>1, <3>1, <3>2, RestartFrame DEF RunInv
    <3>4. TicketOf(q)' = TicketOf(q)
      BY <3>1 DEF TicketOf
    <3>5. CASE pc'[q] = pc[q]
      BY <3>1, <3>3, <3>4, <3>5 DEF RunInv
    <3>6. CASE pc'[q] = "crashed" /\ Live(q)
      BY <3>1, <3>3, <3>4, <3>6 DEF RunInv, Live, Resting, Unsent, Recording, Reporting, Catching
    <3> QED
      BY <3>1, <3>5, <3>6
  <2> QED
    BY <2>1 DEF PlaceInv
<1>2. CASE \E m \in Mails : BecomesDue(m) \/ Trash(m) \/ Destroy(m)
  <2>1. UNCHANGED <<ticket, runs, pc, serves, accepted, tripped>>
    BY <1>2, OutsideFrame
  <2> QED
    BY <2>1 DEF PlaceInv, RunInv, TicketOf
<1> QED
  BY <1>1, <1>2

-----------------------------------------------------------------------------
(***************************************************************************)
(* The request is over with the mail before the queue has it.              *)
(***************************************************************************)
LEMMA ConsumerStarted ==
  ASSUME PlaceInv, NEW r \in Runs, ~IsRequest(r), pc[r] # "idle"
  PROVE  Started(MailOf(r))
<1>1. /\ MailOf(r) \in Mails /\ serves[r] \in 1..MaxTickets
      /\ ticket[TicketOf(r)] # "free"
  BY Pairs DEF PlaceInv, RunInv
<1>2. TicketOf(r) \in Tickets /\ TicketOf(r)[1] = MailOf(r)
  BY <1>1, TicketPairs DEF TicketOf
<1> QED
  BY <1>1, <1>2 DEF Started

\* A consumer does nothing the caller sees.
LEMMA ConsumerAnswer ==
  ASSUME TypeOK, PlaceInv, NEW r \in Runs, Stepping(r), ~IsRequest(r)
  PROVE  UNCHANGED answer
<1>1. Throw(r) => UNCHANGED answer
  BY DEF Throw
<1>2. RunInv(r)
  BY DEF PlaceInv
<1> QED
  BY <1>1, <1>2 DEF RunInv, Stepping, Run, InsertRow, StoreFiles, DeleteRow, InsertJob, Enqueue,
     ReadJob, LoadFiles, Send, MarkSent, MarkJobSent, Announce, Audit, Trip, FailMark, FailJob,
     FailEvent, CatchFails, Return, CrashRun, SameEnd

\* The request does nothing the queue sees, but for enqueueing.
LEMMA RequestTickets ==
  ASSUME TypeOK, NEW r \in Runs, Stepping(r), IsRequest(r)
  PROVE  UNCHANGED ticket \/ (pc[r] \in {"enqueue", "requeue"} /\ Goto(r, "return"))
<1>1. Throw(r) => UNCHANGED ticket
  BY DEF Throw, queueVars
<1> QED
  BY <1>1 DEF Stepping, Run, InsertRow, StoreFiles, DeleteRow, InsertJob, Enqueue,
     ReadJob, LoadFiles, Send, MarkSent, MarkJobSent, Announce, Audit, Trip, FailMark, FailJob,
     FailEvent, CatchFails, Return, CrashRun, SameEnd, queueVars

LEMMA RunRequest ==
  ASSUME TypeOK, PlaceInv, RequestInv, NEW r \in Runs, Stepping(r)
  PROVE  RequestInv'
<1>0. /\ \A q \in Runs : q # r => pc'[q] = pc[q]
      /\ accepted \subseteq accepted' /\ accepted' \subseteq accepted \cup {r}
      /\ \A t \in Tickets : t[1] # MailOf(r) => ticket'[t] = ticket[t]
      /\ Live(r) /\ pc \in [Runs -> Steps] /\ MailOf(r) \in Mails
  BY RunFrame, SetsFrame, TicketFrame, Pairs DEF TypeOK
<1>1. ASSUME NEW m \in Mails, m # MailOf(r) PROVE RequestAt(m)'
  <2>1. RequestAt(m) /\ Request(m) # r /\ Request(m) \in Runs
    BY <1>1, Pairs DEF RequestInv, RequestAt
  <2>2. Started(m)' => Started(m)
    BY <1>0, <1>1 DEF Started
  <2>3. /\ jobs'[m] = jobs[m] /\ row'[m] = row[m] /\ answer'[m] = answer[m]
        /\ pc'[Request(m)] = pc[Request(m)] /\ (Request(m) \in accepted' => Request(m) \in accepted)
    BY <1>0, <1>1, <2>1, MailFrame
  <2> QED
    BY <2>1, <2>2, <2>3 DEF RequestAt, Request
<1>2. ASSUME ~IsRequest(r) PROVE RequestAt(MailOf(r))'
  <2> DEFINE m == MailOf(r)
  <2>1. RequestAt(m) /\ Request(m) # r /\ Request(m) \in Runs
    BY <1>0, <1>2, Pairs DEF RequestInv, RequestAt
  <2>2. Started(m)
    BY <1>0, <1>2, ConsumerStarted DEF Live, Resting
  <2>3. /\ UNCHANGED answer
        /\ pc'[Request(m)] = pc[Request(m)] /\ (Request(m) \in accepted' => Request(m) \in accepted)
    BY <1>0, <1>2, <2>1, ConsumerAnswer
  <2> QED
    BY <2>1, <2>2, <2>3 DEF RequestAt, Request, MailOf
<1>3. ASSUME IsRequest(r) PROVE RequestAt(MailOf(r))'
  <2> DEFINE m == MailOf(r)
  <2>1. RequestAt(m) /\ Request(m) = r
    BY <1>0, <1>3, Pairs DEF RequestInv, RequestAt
  <2>2. Started(m)' => pc'[r] \in {"return", "done", "crashed"} /\ r \notin accepted'
    <3>1. CASE Started(m)
      <4>1. pc[r] = "return" /\ r \notin accepted
        BY <1>0, <2>1, <3>1 DEF RequestAt, Live, Resting
      <4> QED
        BY <1>0, <4>1 DEF Stepping, Run, InsertRow, StoreFiles, DeleteRow, InsertJob, Enqueue,
           ReadJob, LoadFiles, Send, MarkSent, MarkJobSent, Announce, Audit, Trip, FailMark,
           FailJob, FailEvent, CatchFails, Return, CrashRun, Goto, Recording, Reporting, Catching,
           deliveryVars
    <3>2. CASE ~Started(m)
      <4>1. Started(m)' => pc[r] \in {"enqueue", "requeue"} /\ Goto(r, "return")
        BY <1>3, <3>2, RequestTickets DEF Started, MailOf
      <4>2. pc[r] \in {"enqueue", "requeue"} => r \notin accepted'
        BY DEF PlaceInv, RunInv, Unsent, Stepping, Run, InsertRow, StoreFiles, DeleteRow,
           InsertJob, Enqueue, ReadJob, LoadFiles, Send, MarkSent, MarkJobSent, Announce, Audit,
           Trip, FailMark, FailJob, FailEvent, CatchFails, Return, CrashRun, deliveryVars,
           Recording, Reporting, Catching
      <4> QED
        BY <1>0, <4>1, <4>2 DEF Goto
    <3> QED
      BY <3>1, <3>2
  <2>3. /\ pc'[r] # "row"
        /\ pc'[r] \in {"files", "undo", "job"} => jobs'[m] = "none"
    BY <1>0, <2>1 DEF RequestAt, Stepping, Run, InsertRow, StoreFiles, DeleteRow, InsertJob,
       Enqueue, ReadJob, LoadFiles, Send, MarkSent, MarkJobSent, Announce, Audit, Trip, FailMark,
       FailJob, FailEvent, CatchFails, Return, CrashRun, Throw, Goto, storeVars
  <2>4. /\ answer'[m] = "error" => pc'[r] = "failed"
        /\ answer'[m] = "ok" => pc'[r] = "done"
    <3>1. CASE Throw(r)
      BY <1>0, <1>3, <3>1 DEF Throw, Goto, TypeOK
    <3>2. CASE Return(r)
      BY <1>0, <1>3, <3>2 DEF Return, Goto, TypeOK
    <3>3. CASE ~Throw(r) /\ ~Return(r)
      <4>1. UNCHANGED answer
        BY <3>3 DEF Stepping, Run, InsertRow, StoreFiles, DeleteRow, InsertJob, Enqueue, ReadJob,
           LoadFiles, Send, MarkSent, MarkJobSent, Announce, Audit, Trip, FailMark, FailJob,
           FailEvent, CatchFails, CrashRun, SameEnd
      <4> QED
        BY <1>0, <2>1, <4>1 DEF RequestAt, Live, Resting
    <3> QED
      BY <3>1, <3>2, <3>3
  <2> QED
    BY <2>1, <2>2, <2>3, <2>4 DEF RequestAt, Request, MailOf
<1> QED
  BY <1>1, <1>2, <1>3, <1>0 DEF RequestInv, RequestAt

LEMMA BeginRequest ==
  ASSUME TypeOK, PlaceInv, RequestInv, NEW t \in Tickets, BeginRun(t), ticket[t] # "free"
  PROVE  RequestInv'
<1>1. PICK n \in Runs : pc[n] = "idle" /\ Goto(n, "read")
  BY BeginPlace DEF BeginRun
<1>2. ~IsRequest(n)
  BY <1>1 DEF PlaceInv, RunInv
<1>3. /\ \A m \in Mails : pc'[Request(m)] = pc[Request(m)]
      /\ UNCHANGED <<accepted, row, jobs, answer>>
      /\ ticket' = [ticket EXCEPT ![t] = "leased"] /\ ticket \in [Tickets -> TicketStates]
  BY <1>1, <1>2, Pairs DEF BeginRun, Goto, TypeOK, deliveryVars, storeVars
<1>4. \A m \in Mails : Started(m)' => Started(m)
  BY <1>3 DEF Started
<1> QED
  BY <1>3, <1>4 DEF RequestInv, RequestAt, Request

LEMMA OtherRequest ==
  ASSUME TypeOK, RequestInv,
         \/ RestartProcess
         \/ \E m \in Mails : BecomesDue(m) \/ Trash(m) \/ Destroy(m)
  PROVE  RequestInv'
<1>1. CASE RestartProcess
  <2>1. \A m \in Mails : Started(m)' => Started(m)
    BY <1>1, RestartFrame DEF Started
  <2>2. /\ UNCHANGED <<accepted, row, jobs, answer>>
        /\ \A m \in Mails : pc'[Request(m)] = IF Live(Request(m)) THEN "crashed" ELSE pc[Request(m)]
    BY <1>1, RestartFrame, Pairs
  <2> QED
    BY <2>1, <2>2 DEF RequestInv, RequestAt, Request, Live, Resting
<1>2. CASE \E m \in Mails : BecomesDue(m) \/ Trash(m) \/ Destroy(m)
  <2>1. /\ UNCHANGED <<jobs, answer, ticket, pc, accepted>>
        /\ \A k \in Mails : row[k] = "none" => row'[k] = "none"
    BY <1>2, OutsideFrame
  <2> QED
    BY <2>1 DEF RequestInv, RequestAt, Request, Started
<1> QED
  BY <1>1, <1>2

-----------------------------------------------------------------------------
(***************************************************************************)
(* What has been recorded stays so.                                        *)
(***************************************************************************)
\* Only the request makes a job, and nothing else is at work on the mail then.
LEMMA InsertJobAlone ==
  ASSUME TypeOK, PlaceInv, RequestInv, NEW r \in Runs, pc[r] = "job"
  PROVE  /\ IsRequest(r) /\ r = Request(MailOf(r)) /\ jobs[MailOf(r)] = "none"
         /\ ~Started(MailOf(r))
         /\ \A q \in Runs : q # r /\ MailOf(q) = MailOf(r) => pc[q] = "idle"
         /\ \A q \in Runs : MailOf(q) = MailOf(r) => q \notin accepted
<1>1. IsRequest(r) /\ MailOf(r) \in Mails /\ r = Request(MailOf(r))
  BY Pairs DEF PlaceInv, RunInv
<1>2. jobs[MailOf(r)] = "none" /\ ~Started(MailOf(r))
  BY <1>1 DEF RequestInv, RequestAt
<1>3. ASSUME NEW q \in Runs, q # r, MailOf(q) = MailOf(r) PROVE pc[q] = "idle"
  BY <1>1, <1>2, <1>3, Pairs, ConsumerStarted
<1>4. ASSUME NEW q \in Runs, pc[q] \in {"idle", "job"} PROVE q \notin accepted
  BY <1>4 DEF PlaceInv, RunInv, Unsent
<1> QED
  BY <1>1, <1>2, <1>3, <1>4

LEMMA JobsMove ==
  ASSUME TypeOK, PlaceInv, RequestInv, NEW r \in Runs, Stepping(r), NEW m \in Mails
  PROVE  /\ jobs'[m] # jobs[m] => m = MailOf(r)
         /\ jobs'[m] = jobs[m] \/ jobs'[m] = "queued" \/ Settled(m)'
         /\ jobs'[m] = "none" => jobs[m] = "none"
         /\ jobs'[m] = "queued" /\ jobs[m] # "queued" => pc[r] = "job"
         /\ Settled(m) => Settled(m)'
<1>1. jobs'[m] # jobs[m] => m = MailOf(r)
  BY MailFrame
<1>2. jobs \in [Mails -> JobStates]
  BY DEF TypeOK
<1>3. CASE InsertJob(r)
  BY <1>1, <1>2, <1>3, InsertJobAlone DEF InsertJob, Settled, JobStates
<1>4. CASE MarkJobSent(r) \/ FailJob(r)
  BY <1>1, <1>2, <1>4 DEF MarkJobSent, FailJob, Settled, JobStates
<1>5. CASE ~InsertJob(r) /\ ~MarkJobSent(r) /\ ~FailJob(r)
  <2>1. UNCHANGED jobs
    BY <1>5 DEF Stepping, Run, InsertRow, StoreFiles, DeleteRow, Enqueue, ReadJob,
       LoadFiles, Send, MarkSent, Announce, Audit, Trip, FailMark, FailEvent, CatchFails,
       Return, CrashRun, storeVars
  <2> QED
    BY <2>1 DEF Settled
<1> QED
  BY <1>3, <1>4, <1>5

\* How a run comes to deliver, and what it holds of the job while it does.
LEMMA Enters ==
  ASSUME TypeOK, NEW r \in Runs, Stepping(r), pc[r] \notin Delivering, pc'[r] \in Delivering
  PROVE  /\ UNCHANGED accepted
         /\ \/ pc[r] = "read" /\ jobs[MailOf(r)] = "queued" /\ UNCHANGED jobs
            \/ pc[r] = "job" /\ jobs'[MailOf(r)] = "queued"
<1>1. pc \in [Runs -> Steps] /\ jobs \in [Mails -> JobStates] /\ MailOf(r) \in Mails
  BY Pairs DEF TypeOK
<1>2. CASE InsertJob(r) \/ ReadJob(r)
  BY <1>1, <1>2 DEF InsertJob, ReadJob, Goto, Throw, Delivering, Recording, Reporting, Catching,
     deliveryVars, storeVars
<1>3. CASE ~InsertJob(r) /\ ~ReadJob(r)
  BY <1>1, <1>3 DEF Stepping, Run, InsertRow, StoreFiles, DeleteRow, Enqueue, LoadFiles, Send,
     MarkSent, MarkJobSent, Announce, Audit, Trip, FailMark, FailJob, FailEvent, CatchFails,
     Return, CrashRun, Goto, Throw, Delivering, Recording, Reporting, Catching
<1> QED
  BY <1>2, <1>3

LEMMA RunRecord ==
  ASSUME TypeOK, PlaceInv, RequestInv, RecordInv, NEW r \in Runs, Stepping(r)
  PROVE  RecordInv'
<1>0. /\ \A q \in Runs : q # r => pc'[q] = pc[q]
      /\ accepted \subseteq accepted' /\ accepted' \subseteq Runs
      /\ MailOf(r) \in Mails /\ pc \in [Runs -> Steps] /\ jobs \in [Mails -> JobStates]
      /\ told \in [Mails -> SUBSET Events] /\ accepted \subseteq Runs
      /\ RunInv(r)
  BY RunFrame, SetsFrame, Pairs DEF TypeOK, PlaceInv
<1>1. ASSUME NEW q \in Runs, pc'[q] \in {"event", "audit", "failEvent"}
      PROVE  Settled(MailOf(q))'
  <2>1. MailOf(q) \in Mails
    BY Pairs
  <2>2. CASE pc[q] \in {"event", "audit", "failEvent"}
    BY <2>1, <2>2, JobsMove DEF RecordInv, Settled, MailOf
  <2>3. CASE pc[q] \notin {"event", "audit", "failEvent"}
    <3>1. q = r
      BY <1>0, <1>1, <2>3
    <3>2. MarkJobSent(r) \/ FailJob(r)
      BY <1>0, <1>1, <2>3, <3>1 DEF Stepping, Run, InsertRow, StoreFiles, DeleteRow, InsertJob,
         Enqueue, ReadJob, LoadFiles, Send, MarkSent, Announce, Audit, Trip, FailMark, FailEvent,
         CatchFails, Return, CrashRun, Throw, Goto
    <3> QED
      BY <1>0, <3>1, <3>2 DEF MarkJobSent, FailJob, Settled, MailOf
  <2> QED
    BY <2>2, <2>3
<1>2. ASSUME NEW m \in Mails PROVE SentBy(m) # {} => SentBy(m)' # {}
  BY <1>0 DEF SentBy, MailOf
<1>3. pc[r] \in {"markJob", "event"} => SentBy(MailOf(r)) # {}
  BY <1>0 DEF RunInv, Recording, Reporting, SentBy
<1>4. ASSUME NEW m \in Mails, jobs'[m] = "sent" PROVE SentBy(m)' # {}
  <2>1. CASE jobs[m] = "sent"
    BY <1>2, <2>1 DEF RecordInv
  <2>2. CASE jobs[m] # "sent"
    <3>1. m = MailOf(r) /\ MarkJobSent(r)
      BY <1>0, <1>4, <2>2, MailFrame DEF Stepping, Run, InsertRow, StoreFiles, DeleteRow,
         InsertJob, Enqueue, ReadJob, LoadFiles, Send, MarkSent, Announce, Audit, Trip, FailMark,
         FailJob, FailEvent, CatchFails, Return, CrashRun, storeVars
    <3> QED
      BY <1>2, <1>3, <3>1 DEF MarkJobSent
  <2> QED
    BY <2>1, <2>2
<1>5. ASSUME NEW m \in Mails, "message.outbound" \in told'[m] PROVE SentBy(m)' # {}
  <2>1. CASE "message.outbound" \in told[m]
    BY <1>2, <2>1 DEF RecordInv
  <2>2. CASE "message.outbound" \notin told[m]
    <3>1. m = MailOf(r) /\ pc[r] = "event"
      BY <1>0, <1>5, <2>2, MailFrame DEF Stepping, Run, InsertRow, StoreFiles, DeleteRow,
         InsertJob, Enqueue, ReadJob, LoadFiles, Send, MarkSent, MarkJobSent, Announce, Audit,
         Trip, FailMark, FailJob, FailEvent, CatchFails, Return, CrashRun, deliveryVars, Tell
    <3> QED
      BY <1>2, <1>3, <3>1
  <2> QED
    BY <2>1, <2>2
<1>6. ASSUME NEW m \in Mails, "message.failed" \in told'[m] PROVE Settled(m)'
  <2>1. CASE "message.failed" \in told[m]
    BY <2>1, JobsMove DEF RecordInv
  <2>2. CASE "message.failed" \notin told[m]
    <3>1. m = MailOf(r) /\ pc[r] = "failEvent"
      BY <1>0, <1>6, <2>2, MailFrame DEF Stepping, Run, InsertRow, StoreFiles, DeleteRow,
         InsertJob, Enqueue, ReadJob, LoadFiles, Send, MarkSent, MarkJobSent, Announce, Audit,
         Trip, FailMark, FailJob, FailEvent, CatchFails, Return, CrashRun, deliveryVars, Tell
    <3>2. Settled(m)
      BY <3>1 DEF RecordInv
    <3> QED
      BY <3>2, JobsMove
  <2> QED
    BY <2>1, <2>2
<1>7. ASSUME NEW q \in Runs, pc'[q] \in Delivering PROVE jobs'[MailOf(q)] # "none"
  <2>1. MailOf(q) \in Mails
    BY Pairs
  <2>2. CASE pc[q] \in Delivering
    BY <2>1, <2>2, JobsMove DEF RecordInv
  <2>3. CASE pc[q] \notin Delivering
    <3>1. q = r
      BY <1>0, <1>7, <2>3
    <3> QED
      BY <1>7, <2>3, <3>1, Enters
  <2> QED
    BY <2>2, <2>3
<1> QED
  BY <1>1, <1>4, <1>5, <1>6, <1>7 DEF RecordInv, MailOf, Delivering

LEMMA OtherRecord ==
  ASSUME TypeOK, PlaceInv, RecordInv,
         \/ RestartProcess
         \/ \E t \in Tickets : BeginRun(t)
         \/ \E m \in Mails : BecomesDue(m) \/ Trash(m) \/ Destroy(m)
  PROVE  RecordInv'
<1>1. UNCHANGED <<jobs, told, accepted>>
  BY OutsideFrame, RestartFrame DEF BeginRun, deliveryVars, storeVars
<1>2. ASSUME NEW q \in Runs, pc'[q] \in {"event", "audit", "failEvent"} \cup Delivering
      PROVE  pc[q] = pc'[q]
  <2>0. pc'[q] \notin {"read", "crashed"}
    BY <1>2 DEF Delivering, Recording, Reporting, Catching
  <2>1. CASE RestartProcess
    BY <2>0, <2>1, RestartFrame
  <2>2. CASE \E t \in Tickets : BeginRun(t)
    BY <2>0, <2>2 DEF BeginRun, Goto, TypeOK
  <2>3. CASE \E m \in Mails : BecomesDue(m) \/ Trash(m) \/ Destroy(m)
    BY <2>3, OutsideFrame
  <2> QED
    BY <2>1, <2>2, <2>3
<1> QED
  BY <1>1, <1>2 DEF RecordInv, Settled, SentBy, MailOf, Delivering

-----------------------------------------------------------------------------
(***************************************************************************)
(* A mail on which no two runs were at work at once is sent by one of them *)
(* and by no other.                                                        *)
(***************************************************************************)
LEMMA DeliveringWorks ==
  ASSUME NEW r \in Runs, pc[r] \in Delivering
  PROVE  Working(r)
BY DEF Delivering, Working, Live, Resting, Recording, Reporting, Catching

\* A run stops working before the sending, after settling the job, or by slipping.
LEMMA StopsWorking ==
  ASSUME TypeOK, PlaceInv, NEW r \in Runs, Stepping(r), Working(r), ~Working(r)'
  PROVE  /\ UNCHANGED accepted
         /\ Slips(r) \/ r \notin accepted \/ pc[r] = "audit"
<1>1. RunInv(r) /\ pc \in [Runs -> Steps]
  BY DEF PlaceInv, TypeOK
<1>2. CASE Throw(r) \/ CrashRun(r)
  <2>1. UNCHANGED accepted
    BY <1>1, <1>2 DEF Stepping, Run, InsertRow, StoreFiles, DeleteRow, InsertJob, Enqueue, ReadJob,
       LoadFiles, Send, MarkSent, MarkJobSent, Announce, Audit, Trip, FailMark, FailJob,
       FailEvent, CatchFails, Return, CrashRun, deliveryVars, Throw, Goto
  <2> QED
    BY <1>2, <2>1 DEF Throw, CrashRun
<1>3. CASE Run(r) /\ ~Throw(r)
  <2>1. pc'[r] \in Resting \cup {"return"}
    BY <1>1 DEF Working, Live
  <2>2. CASE Enqueue(r) \/ ReadJob(r)
    BY <1>1, <2>2 DEF Enqueue, ReadJob, RunInv, Unsent, deliveryVars
  <2>3. CASE Audit(r)
    BY <2>3 DEF Audit, deliveryVars
  <2>4. CASE Return(r)
    BY <2>4 DEF Return, Working
  <2>5. CASE ~Enqueue(r) /\ ~ReadJob(r) /\ ~Audit(r) /\ ~Return(r)
    BY <1>1, <1>3, <2>1, <2>5 DEF Run, InsertRow, StoreFiles, DeleteRow, InsertJob, LoadFiles,
       Send, MarkSent, MarkJobSent, Announce, Trip, FailMark, FailJob, FailEvent, CatchFails,
       Goto, Resting
  <2> QED
    BY <1>3, <2>2, <2>3, <2>4, <2>5 DEF Run
<1> QED
  BY <1>2, <1>3 DEF Stepping

LEMMA NewlySent ==
  ASSUME TypeOK, NEW r \in Runs, Stepping(r), NEW q, q \in accepted', q \notin accepted
  PROVE  q = r /\ pc[r] = "send" /\ pc'[r] = "mark"
<1>1. Send(r)
  BY DEF Stepping, Run, InsertRow, StoreFiles, DeleteRow, InsertJob, Enqueue, ReadJob, LoadFiles,
     MarkSent, MarkJobSent, Announce, Audit, Trip, FailMark, FailJob, FailEvent, CatchFails,
     Return, CrashRun, deliveryVars
<1> QED
  BY <1>1 DEF Send, Goto, TypeOK

LEMMA RunOnce ==
  ASSUME TypeOK, PlaceInv, RequestInv, RecordInv, OnceInv, NEW r \in Runs, Stepping(r)
  PROVE  OnceInv'
<1>0. /\ \A q \in Runs : q # r => pc'[q] = pc[q]
      /\ UNCHANGED overlapped
      /\ accepted' \subseteq accepted \cup {r} /\ tripped \subseteq tripped'
      /\ slipped \subseteq slipped'
      /\ pc \in [Runs -> Steps] /\ jobs \in [Mails -> JobStates] /\ Live(r)
      /\ MailOf(r) \in Mails /\ RunInv(r)
  BY RunFrame, SetsFrame, Pairs DEF TypeOK, PlaceInv
<1>1. ASSUME NEW q \in Runs, Working(q)' PROVE Working(q)
  <2>1. CASE q # r
    BY <1>0, <1>1, <2>1 DEF Working, Live
  <2>2. CASE q = r /\ pc[r] = "return"
    BY <1>0, <1>1, <2>2 DEF Working, Live, Resting, Stepping, Run, InsertRow, StoreFiles, DeleteRow,
       InsertJob, Enqueue, ReadJob, LoadFiles, Send, MarkSent, MarkJobSent, Announce, Audit, Trip,
       FailMark, FailJob, FailEvent, CatchFails, Return, CrashRun, Goto, Recording, Reporting,
       Catching
  <2> QED
    BY <1>0, <2>1, <2>2 DEF Working
<1>2. ASSUME NEW q \in Runs, q \in accepted, Clean(q)' PROVE Clean(q)
  BY <1>0, <1>2 DEF Clean
<1>3. ASSUME NEW q \in Runs, MailOf(q) \notin overlapped, Clean(q)', ~Working(q)'
      PROVE  jobs'[MailOf(q)] # "queued"
  <2>0. OnceAt(q) /\ MailOf(q) \in Mails
    BY <1>3, Pairs DEF OnceInv, OnceAt
  <2>1. q \in accepted
    BY <1>3, NewlySent DEF Clean, Working, Live, Resting
  <2>2. Clean(q)
    BY <1>2, <1>3, <2>1
  <2>3. CASE jobs[MailOf(q)] # "queued"
    BY <2>0, <2>1, <2>3, JobsMove, InsertJobAlone, MailFrame
  <2>4. CASE jobs[MailOf(q)] = "queued"
    <3>1. Working(q)
      BY <2>0, <2>2, <2>4 DEF OnceAt
    <3>2. q = r
      BY <1>0, <1>3, <3>1 DEF Working, Live
    <3>3. Slips(r) \/ pc[r] = "audit"
      BY <1>3, <2>1, <3>1, <3>2, StopsWorking
    <3>4. pc[r] # "audit"
      BY <2>4, <3>2 DEF RecordInv, Settled
    <3> QED
      BY <1>3, <2>1, <2>4, <3>2, <3>3, <3>4 DEF Slips, Clean
  <2> QED
    BY <2>3, <2>4
<1>4. ASSUME NEW q \in Runs, MailOf(q) \notin overlapped, pc'[q] \in Delivering,
             NEW p \in Runs, MailOf(p) = MailOf(q), Clean(p)'
      PROVE  p = q
  <2>0. OnceAt(q) /\ OnceAt(p)
    BY <1>4 DEF OnceInv, OnceAt
  <2>1. CASE pc[q] \in Delivering
    <3>1. CASE p \in accepted
      BY <1>2, <1>4, <2>0, <2>1, <3>1 DEF OnceAt
    <3>2. CASE p \notin accepted
      <4>1. p = r /\ pc[r] = "send"
        BY <1>4, <3>2, NewlySent DEF Clean
      <4>2. Working(p) /\ Working(q)
        BY <2>1, <4>1, DeliveringWorks DEF Delivering
      <4> QED
        BY <1>4, <2>0, <4>2 DEF OnceAt
    <3> QED
      BY <3>1, <3>2
  <2>2. CASE pc[q] \notin Delivering
    <3>1. q = r
      BY <1>0, <1>4, <2>2
    <3>2. /\ p \in accepted
          /\ \/ pc[r] = "read" /\ jobs[MailOf(r)] = "queued"
             \/ pc[r] = "job"
      BY <1>4, <2>2, <3>1, Enters DEF Clean
    <3>3. pc[r] # "job"
      BY <1>4, <3>1, <3>2, InsertJobAlone
    <3>4. Clean(p) /\ Working(q)
      BY <1>2, <1>4, <3>1, <3>2, <3>3 DEF Working, Live, Resting
    <3>5. Working(p)
      BY <1>4, <2>0, <3>1, <3>2, <3>3, <3>4 DEF OnceAt
    <3> QED
      BY <1>4, <2>0, <3>4, <3>5 DEF OnceAt
  <2> QED
    BY <2>1, <2>2
<1>5. ASSUME NEW q \in Runs, MailOf(q) \notin overlapped, q # r, pc[q] \in Delivering
      PROVE  jobs'[MailOf(q)] = jobs[MailOf(q)]
  <2>0. OnceAt(q) /\ Working(q) /\ MailOf(q) \in Mails
    BY <1>5, DeliveringWorks, Pairs DEF OnceInv, OnceAt
  <2>1. CASE MailOf(q) # MailOf(r)
    BY <2>0, <2>1, MailFrame
  <2>2. CASE MailOf(q) = MailOf(r)
    <3>1. ~Working(r)
      BY <1>5, <2>0, <2>2 DEF OnceAt
    <3>2. pc[r] = "return"
      BY <1>0, <3>1 DEF Working
    <3> QED
      BY <3>2 DEF Stepping, Run, InsertRow, StoreFiles, DeleteRow, InsertJob, Enqueue, ReadJob,
         LoadFiles, Send, MarkSent, MarkJobSent, Announce, Audit, Trip, FailMark, FailJob,
         FailEvent, CatchFails, Return, CrashRun, Recording, Reporting, Catching, storeVars
  <2> QED
    BY <2>1, <2>2
<1>6. ASSUME NEW q \in Runs, MailOf(q) \notin overlapped
      PROVE  /\ pc'[q] \in {"load", "send"} \cup Recording => jobs'[MailOf(q)] = "queued"
             /\ pc'[q] \in {"failMark", "failJob"} =>
                  jobs'[MailOf(q)] = "queued" \/ q \in tripped'
  <2>0. OnceAt(q)
    BY <1>6 DEF OnceInv, OnceAt
  <2>1. CASE q # r
    BY <1>0, <1>5, <1>6, <2>0, <2>1 DEF OnceAt, Delivering, Catching
  <2>2. CASE q = r
    <3>1. CASE pc[r] \notin Delivering
      BY <1>0, <2>2, <3>1, Enters DEF Delivering, Recording, Catching, Stepping, Run,
         InsertRow, StoreFiles, DeleteRow, InsertJob,
         Enqueue, ReadJob, LoadFiles, Send, MarkSent, MarkJobSent, Announce, Audit, Trip,
         FailMark, FailJob, FailEvent, CatchFails, Return, CrashRun, Goto, Throw, Reporting
    <3>2. CASE pc[r] \in Delivering
      BY <1>0, <2>0, <2>2, <3>2 DEF OnceAt, Delivering, Recording, Reporting, Catching, Stepping,
         Run, InsertRow, StoreFiles, DeleteRow, InsertJob, Enqueue, ReadJob, LoadFiles, Send,
         MarkSent, MarkJobSent, Announce, Audit, Trip, FailMark, FailJob, FailEvent, CatchFails,
         Return, CrashRun, Goto, Throw, storeVars
    <3> QED
      BY <3>1, <3>2
  <2> QED
    BY <2>1, <2>2
<1>7. ASSUME NEW q \in Runs, MailOf(q) \notin overlapped, Working(q)', NEW p \in Runs,
             MailOf(p) = MailOf(q), Working(p)'
      PROVE  p = q
  BY <1>1, <1>7 DEF OnceInv, OnceAt
<1>8. ASSUME NEW q \in Runs, MailOf(q) \notin overlapped' PROVE OnceAt(q)'
  BY <1>0, <1>3, <1>4, <1>6, <1>7, <1>8 DEF OnceAt, MailOf
<1> QED
  BY <1>8 DEF OnceInv, OnceAt, MailOf

LEMMA BeginOnce ==
  ASSUME TypeOK, PlaceInv, OnceInv, NEW t \in Tickets, BeginRun(t)
  PROVE  OnceInv'
<1>1. PICK n \in Runs : /\ pc' = [pc EXCEPT ![n] = "read"] /\ MailOf(n) = t[1] /\ pc[n] = "idle"
  BY BeginPlace DEF BeginRun, Goto, MailOf
<1>2. /\ UNCHANGED <<jobs, accepted, tripped, slipped>> /\ pc \in [Runs -> Steps]
      /\ overlapped \subseteq overlapped'
      /\ t[1] \notin overlapped' => \A q \in Runs : MailOf(q) = t[1] => ~Working(q)
  BY DEF BeginRun, TypeOK, storeVars, deliveryVars
<1>3. ASSUME NEW q \in Runs, MailOf(q) \notin overlapped' PROVE OnceAt(q)'
  <2>0. OnceAt(q) /\ MailOf(q) \notin overlapped
    BY <1>2, <1>3 DEF OnceInv, OnceAt
  <2>1. /\ \A p \in Runs : Clean(p)' <=> Clean(p)
        /\ \A p \in Runs : p # n => (Working(p)' <=> Working(p))
        /\ Working(n)' /\ ~(pc'[n] \in Delivering) /\ ~(pc'[n] \in Recording \cup {"failMark", "failJob"})
    BY <1>1, <1>2 DEF Clean, Working, Live, Resting, Delivering, Recording, Reporting, Catching
  <2>2. ASSUME Working(q)', NEW p \in Runs, MailOf(p) = MailOf(q), Working(p)' PROVE p = q
    BY <1>1, <1>2, <1>3, <2>0, <2>1, <2>2 DEF OnceAt
  <2>3. CASE q = n
    BY <1>1, <2>1, <2>2, <2>3 DEF OnceAt, MailOf, Recording
  <2>4. CASE q # n
    <3>1. pc'[q] = pc[q] /\ (Working(q)' <=> Working(q))
      BY <1>1, <1>2, <2>1, <2>4
    <3> QED
      BY <1>2, <2>0, <2>1, <2>2, <3>1 DEF OnceAt, MailOf
  <2> QED
    BY <2>3, <2>4
<1> QED
  BY <1>3 DEF OnceInv, OnceAt, MailOf

LEMMA OtherOnce ==
  ASSUME TypeOK, OnceInv,
         \/ RestartProcess
         \/ \E m \in Mails : BecomesDue(m) \/ Trash(m) \/ Destroy(m)
  PROVE  OnceInv'
<1>1. CASE RestartProcess
  <2>1. /\ UNCHANGED <<jobs, accepted, tripped, overlapped>> /\ slipped \subseteq slipped'
        /\ \A r \in Runs : pc'[r] = IF Live(r) THEN "crashed" ELSE pc[r]
        /\ \A r \in accepted : Live(r) /\ jobs[MailOf(r)] = "queued" => r \in slipped'
    BY <1>1, RestartFrame
  <2>2. ASSUME NEW q \in Runs, MailOf(q) \notin overlapped PROVE OnceAt(q)'
    <3>1. OnceAt(q)
      BY <2>2 DEF OnceInv, OnceAt
    <3>2. /\ pc'[q] \in Resting /\ ~Working(q)'
          /\ Clean(q)' => Clean(q)
      BY <2>1 DEF Live, Working, Resting, Clean
    <3>3. pc'[q] \notin Delivering /\ pc'[q] \notin Recording \cup {"failMark", "failJob"}
      BY <3>2 DEF Resting, Delivering, Recording, Reporting, Catching
    <3>4. Clean(q)' => jobs'[MailOf(q)] # "queued"
      BY <2>1, <3>1, <3>2 DEF OnceAt, Clean, Working, Live
    <3> QED
      BY <3>2, <3>3, <3>4 DEF OnceAt, MailOf, Delivering, Recording
  <2> QED
    BY <2>1, <2>2 DEF OnceInv, OnceAt, MailOf
<1>2. CASE \E m \in Mails : BecomesDue(m) \/ Trash(m) \/ Destroy(m)
  <2>1. UNCHANGED <<jobs, accepted, tripped, slipped, overlapped, pc>>
    BY <1>2, OutsideFrame
  <2> QED
    BY <2>1 DEF OnceInv, OnceAt, Working, Live, Clean
<1> QED
  BY <1>1, <1>2

-----------------------------------------------------------------------------
(***************************************************************************)
(* What was reported as failed was not sent.                               *)
(***************************************************************************)
LEMMA RunFailed ==
  ASSUME TypeOK, PlaceInv, RecordInv, OnceInv, FailedInv, NEW r \in Runs, Stepping(r)
  PROVE  FailedInv'
<1>0. /\ UNCHANGED overlapped /\ tripped \subseteq tripped' /\ slipped \subseteq slipped'
      /\ accepted' \subseteq Runs /\ accepted \subseteq Runs
      /\ told \in [Mails -> SUBSET Events]
  BY RunFrame, SetsFrame DEF TypeOK
<1>1. ASSUME NEW q \in accepted', "message.failed" \in told'[MailOf(q)],
             MailOf(q) \notin overlapped
      PROVE  q \in tripped' \cup slipped'
  <2>0. q \in Runs /\ MailOf(q) \in Mails
    BY <1>0, Pairs
  <2>1. CASE "message.failed" \in told[MailOf(q)]
    <3>1. CASE q \in accepted
      BY <1>0, <1>1, <2>1, <3>1 DEF FailedInv
    <3>2. CASE q \notin accepted
      <4>1. pc[q] = "send"
        BY <1>1, <3>2, NewlySent
      <4>2. jobs[MailOf(q)] = "queued"
        BY <1>1, <2>0, <4>1 DEF OnceInv, OnceAt
      <4> QED
        BY <2>0, <2>1, <4>2 DEF RecordInv, Settled
    <3> QED
      BY <3>1, <3>2
  <2>2. CASE "message.failed" \notin told[MailOf(q)]
    <3>1. MailOf(q) = MailOf(r) /\ pc[r] = "failEvent"
      BY <1>0, <1>1, <2>0, <2>2, MailFrame DEF Stepping, Run, InsertRow, StoreFiles, DeleteRow,
         InsertJob, Enqueue, ReadJob, LoadFiles, Send, MarkSent, MarkJobSent, Announce, Audit,
         Trip, FailMark, FailJob, FailEvent, CatchFails, Return, CrashRun, deliveryVars, Tell
    <3>2. q \in accepted
      BY <1>1, <3>1, NewlySent
    <3>3. q \in tripped \cup slipped \/ q = r
      BY <1>1, <2>0, <3>1, <3>2 DEF OnceInv, OnceAt, Delivering, Catching, Clean
    <3>4. r \in accepted => r \in tripped
      BY <3>1 DEF PlaceInv, RunInv, Catching
    <3> QED
      BY <1>0, <3>2, <3>3, <3>4
  <2> QED
    BY <2>1, <2>2
<1> QED
  BY <1>0, <1>1 DEF FailedInv, MailOf

LEMMA OtherFailed ==
  ASSUME TypeOK, FailedInv,
         \/ RestartProcess
         \/ \E t \in Tickets : BeginRun(t)
         \/ \E m \in Mails : BecomesDue(m) \/ Trash(m) \/ Destroy(m)
  PROVE  FailedInv'
<1>1. /\ UNCHANGED <<told, accepted, tripped>> /\ slipped \subseteq slipped'
      /\ overlapped \subseteq overlapped'
  BY OutsideFrame, RestartFrame DEF BeginRun, deliveryVars, storeVars
<1> QED
  BY <1>1 DEF FailedInv

-----------------------------------------------------------------------------
(***************************************************************************)
(* A mail takes its files along.                                           *)
(***************************************************************************)
LEMMA RowMoves ==
  ASSUME TypeOK, PlaceInv, RequestInv, NEW r \in Runs, Stepping(r), NEW m \in Mails
  PROVE  /\ row[m] = "gone" => row'[m] = "gone"
         /\ m \in files => m \in files'
<1>1. row \in [Mails -> RowStates] /\ MailOf(r) \in Mails
  BY Pairs DEF TypeOK
<1>2. m \in files => m \in files'
  BY DEF Stepping, Run, InsertRow, StoreFiles, DeleteRow, InsertJob, Enqueue, ReadJob, LoadFiles,
     Send, MarkSent, MarkJobSent, Announce, Audit, Trip, FailMark, FailJob, FailEvent,
     CatchFails, Return, CrashRun, storeVars
<1>3. CASE m # MailOf(r)
  BY <1>2, <1>3, MailFrame
<1>4. CASE m = MailOf(r) /\ InsertRow(r)
  <2>1. pc[r] = "row"
    BY <1>4 DEF InsertRow
  <2>2. row[m] = "none"
    BY <1>1, <1>4, <2>1, Pairs DEF PlaceInv, RunInv, RequestInv, RequestAt
  <2> QED
    BY <1>2, <2>2
<1>5. CASE m = MailOf(r) /\ ~InsertRow(r)
  <2>1. row[m] = "gone" => row'[m] = "gone"
    BY <1>1, <1>5 DEF Stepping, Run, StoreFiles, DeleteRow, InsertJob, Enqueue, ReadJob,
       LoadFiles, Send, MarkSent, MarkJobSent, Announce, Audit, Trip, FailMark, FailJob,
       FailEvent, CatchFails, Return, CrashRun, storeVars, SetRow
  <2> QED
    BY <1>2, <2>1
<1> QED
  BY <1>3, <1>4, <1>5

LEMMA RunFiles ==
  ASSUME TypeOK, PlaceInv, RequestInv, RecordInv, FilesInv, NEW r \in Runs, Stepping(r)
  PROVE  FilesInv'
<1>0. /\ \A q \in Runs : q # r => pc'[q] = pc[q]
      /\ carried \subseteq carried'
      /\ pc \in [Runs -> Steps] /\ jobs \in [Mails -> JobStates]
      /\ MailOf(r) \in Mails /\ RunInv(r)
  BY RunFrame, SetsFrame, Pairs DEF TypeOK, PlaceInv
<1>1. ASSUME NEW m \in Mails, Kept(m) PROVE Kept(m)'
  BY <1>1, RowMoves DEF Kept
<1>2. ASSUME NEW q \in Runs
      PROVE  pc'[q] = "send" \/ q \in accepted' => q \in carried' \/ row'[MailOf(q)] = "gone"
  <2>0. MailOf(q) \in Mails
    BY Pairs
  <2>1. CASE pc[q] = "send" \/ q \in accepted
    BY <1>0, <2>0, <2>1, RowMoves DEF FilesInv
  <2>2. CASE pc[q] # "send" /\ q \notin accepted
    <3>1. q \in accepted' => pc[q] = "send"
      BY <2>2, NewlySent
    <3>2. CASE pc'[q] = "send"
      <4>1. q = r
        BY <1>0, <2>2, <3>2
      <4>2. LoadFiles(r) \/ InsertJob(r)
        BY <1>0, <2>2, <3>2, <4>1 DEF Stepping, Run, InsertRow, StoreFiles, DeleteRow, Enqueue,
           ReadJob, Send, MarkSent, MarkJobSent, Announce, Audit, Trip, FailMark, FailJob,
           FailEvent, CatchFails, Return, CrashRun, Throw, Goto
      <4>3. CASE InsertJob(r)
        <5>1. r \in carried
          BY <4>3, InsertJobAlone DEF InsertJob, FilesInv
        <5> QED
          BY <1>0, <4>1, <5>1
      <4>4. CASE LoadFiles(r)
        <5>1. Kept(MailOf(r))
          BY <4>4 DEF LoadFiles, FilesInv
        <5> QED
          BY <1>0, <3>2, <4>1, <4>4, <5>1 DEF LoadFiles, Kept, Goto, Throw, storeVars
      <4> QED
        BY <4>2, <4>3, <4>4
    <3> QED
      BY <2>2, <3>1, <3>2
  <2> QED
    BY <2>1, <2>2
<1>3. ASSUME NEW m \in Mails, jobs'[m] # "none" \/ pc'[Request(m)] = "job" PROVE Kept(m)'
  <2>1. CASE jobs[m] # "none" \/ pc[Request(m)] = "job"
    BY <1>1, <2>1 DEF FilesInv
  <2>2. CASE jobs[m] = "none" /\ pc[Request(m)] # "job"
    <3>1. jobs'[m] = jobs[m] \/ (m = MailOf(r) /\ pc[r] = "job") \/ Settled(m)'
      BY JobsMove
    <3>2. CASE m = MailOf(r) /\ pc[r] = "job"
      BY <2>2, <3>2, InsertJobAlone
    <3>3. CASE jobs'[m] # jobs[m] /\ Settled(m)'
      <4>1. m = MailOf(r) /\ (MarkJobSent(r) \/ FailJob(r) \/ InsertJob(r))
        BY <3>3, JobsMove DEF Stepping, Run, InsertRow, StoreFiles, DeleteRow, Enqueue, ReadJob,
           LoadFiles, Send, MarkSent, Announce, Audit, Trip, FailMark, FailEvent, CatchFails,
           Return, CrashRun, storeVars
      <4> QED
        BY <2>2, <4>1, <3>2 DEF MarkJobSent, FailJob, InsertJob, RecordInv, Delivering, Recording,
           Catching
    <3>4. CASE jobs'[m] = jobs[m] /\ pc'[Request(m)] = "job"
      <4>1. r = Request(m) /\ Request(m) \in Runs /\ MailOf(r) = m
        BY <1>0, <2>2, <3>4, Pairs
      <4>2. StoreFiles(r)
        BY <1>0, <2>2, <3>4, <4>1 DEF Stepping, Run, InsertRow, DeleteRow, InsertJob, Enqueue,
           ReadJob, LoadFiles, Send, MarkSent, MarkJobSent, Announce, Audit, Trip, FailMark,
           FailJob, FailEvent, CatchFails, Return, CrashRun, Throw, Goto
      <4> QED
        BY <1>0, <3>4, <4>1, <4>2 DEF StoreFiles, Goto, Kept
    <3> QED
      BY <1>3, <2>2, <3>1, <3>2, <3>3, <3>4
  <2> QED
    BY <2>1, <2>2
<1>4. ASSUME NEW q \in Runs, pc'[q] = "load" PROVE Kept(MailOf(q))'
  <2>0. MailOf(q) \in Mails
    BY Pairs
  <2>1. CASE pc[q] = "load"
    BY <1>1, <2>0, <2>1 DEF FilesInv, MailOf
  <2>2. CASE pc[q] # "load"
    <3>1. q = r
      BY <1>0, <1>4, <2>2
    <3>2. jobs[MailOf(r)] = "queued"
      BY <1>0, <1>4, <2>2, <3>1, Enters, InsertJobAlone DEF Delivering, Recording, Reporting,
         Catching, Stepping, Run, InsertRow, StoreFiles, DeleteRow, InsertJob, Enqueue, ReadJob,
         LoadFiles, Send, MarkSent, MarkJobSent, Announce, Audit, Trip, FailMark, FailJob,
         FailEvent, CatchFails, Return, CrashRun, Throw, Goto
    <3>3. Kept(MailOf(r))
      BY <1>0, <3>2 DEF FilesInv
    <3> QED
      BY <1>0, <1>1, <3>1, <3>3 DEF MailOf
  <2> QED
    BY <2>1, <2>2
<1>5. \A q \in Runs : IsRequest(q) => q \in carried'
  BY <1>0 DEF FilesInv
<1> QED
  BY <1>2, <1>3, <1>4, <1>5 DEF FilesInv, IsRequest, MailOf, Request

LEMMA OtherFiles ==
  ASSUME TypeOK, PlaceInv, FilesInv,
         \/ RestartProcess
         \/ \E t \in Tickets : BeginRun(t)
         \/ \E m \in Mails : BecomesDue(m) \/ Trash(m) \/ Destroy(m)
  PROVE  FilesInv'
<1>1. /\ UNCHANGED <<jobs, carried, accepted>>
      /\ \A m \in Mails : /\ row[m] = "gone" => row'[m] = "gone"
                          /\ Kept(m) => Kept(m)'
  <2>1. CASE RestartProcess
    BY <2>1, RestartFrame DEF Kept
  <2>2. CASE \E t \in Tickets : BeginRun(t)
    BY <2>2 DEF BeginRun, deliveryVars, storeVars, Kept
  <2>3. CASE \E m \in Mails : BecomesDue(m) \/ Trash(m) \/ Destroy(m)
    BY <2>3, OutsideFrame DEF Kept
  <2> QED
    BY <2>1, <2>2, <2>3
<1>2. ASSUME NEW q \in Runs, pc'[q] \in {"send", "load", "job"}
      PROVE  pc[q] = pc'[q]
  <2>1. CASE RestartProcess
    BY <1>2, <2>1, RestartFrame
  <2>2. CASE \E t \in Tickets : BeginRun(t)
    BY <1>2, <2>2 DEF BeginRun, Goto, TypeOK
  <2>3. CASE \E m \in Mails : BecomesDue(m) \/ Trash(m) \/ Destroy(m)
    BY <2>3, OutsideFrame
  <2> QED
    BY <2>1, <2>2, <2>3
<1>3. \A m \in Mails : Request(m) \in Runs
  BY Pairs
<1>4. \A q \in Runs : MailOf(q) \in Mails
  BY Pairs
<1> QED
  BY <1>1, <1>2, <1>3, <1>4 DEF FilesInv, MailOf, Request, IsRequest

-----------------------------------------------------------------------------
(***************************************************************************)
(* While the job is queued, a ticket that is not about to be acked is      *)
(* there for it.                                                           *)
(***************************************************************************)
Enqueues(r) == \E t \in Free(MailOf(r)) : ticket' = [ticket EXCEPT ![t] = "ready"]

LEMMA TicketMoves ==
  ASSUME TypeOK, NEW r \in Runs, Stepping(r)
  PROVE  \/ pc[r] \in {"enqueue", "requeue"} /\ Goto(r, "return") /\ Enqueues(r)
         \/ /\ \A t \in Tickets : /\ ticket[t] = "free" => ticket'[t] = "free"
                                  /\ ticket[t] # "acked" /\ ticket'[t] = "acked" =>
                                       pc[r] = "return" /\ ~IsRequest(r) /\ t = TicketOf(r)
            /\ pc'[r] = "return" => \/ pc[r] = "audit"
                                    \/ pc[r] = "read" /\ jobs[MailOf(r)] # "queued"
            /\ pc'[r] = "done" => pc[r] = "return"
<1>0. ticket \in [Tickets -> TicketStates] /\ pc \in [Runs -> Steps]
  BY DEF TypeOK
<1>1. CASE Throw(r) \/ CrashRun(r)
  <2>1. \A t \in Tickets : ticket'[t] = ticket[t] \/ (ticket[t] = "leased" /\ ticket'[t] # "acked")
    BY <1>0, <1>1, RetryEffect DEF Throw, CrashRun, queueVars
  <2>2. pc'[r] \in {"failed", "crashed"}
    BY <1>0, <1>1 DEF Throw, CrashRun, Goto
  <2> QED
    BY <2>1, <2>2
<1>2. CASE Enqueue(r) /\ ~Throw(r)
  BY <1>2 DEF Enqueue, Enqueues
<1>3. CASE Return(r)
  BY <1>0, <1>3 DEF Return, Goto
<1>4. CASE Run(r) /\ ~Throw(r) /\ ~Enqueue(r) /\ ~Return(r)
  <2>1. UNCHANGED ticket
    BY <1>4 DEF Run, InsertRow, StoreFiles, DeleteRow, InsertJob, ReadJob, LoadFiles, Send,
       MarkSent, MarkJobSent, Announce, Audit, Trip, FailMark, FailJob, FailEvent, CatchFails,
       SameEnd, queueVars
  <2>2. /\ pc'[r] = "return" => \/ pc[r] = "audit"
                                \/ pc[r] = "read" /\ jobs[MailOf(r)] # "queued"
        /\ pc'[r] # "done"
    BY <1>0, <1>4 DEF Run, InsertRow, StoreFiles, DeleteRow, InsertJob, ReadJob, LoadFiles, Send,
       MarkSent, MarkJobSent, Announce, Audit, Trip, FailMark, FailJob, FailEvent, CatchFails,
       Goto
  <2> QED
    BY <2>1, <2>2
<1> QED
  BY <1>1, <1>2, <1>3, <1>4 DEF Stepping

LEMMA RunPend ==
  ASSUME TypeOK, PlaceInv, RequestInv, RecordInv, PendInv, NEW r \in Runs, Stepping(r)
  PROVE  PendInv'
<1>0. /\ \A q \in Runs : q # r => pc'[q] = pc[q]
      /\ UNCHANGED serves
      /\ pc \in [Runs -> Steps] /\ ticket \in [Tickets -> TicketStates] /\ Live(r)
      /\ MailOf(r) \in Mails /\ RunInv(r)
      /\ \A t \in Tickets : /\ ticket[t] # "free" => ticket'[t] # "free"
                            /\ t[1] # MailOf(r) => ticket'[t] = ticket[t]
      /\ \A m \in Mails : Request(m) \in Runs
      /\ \A q \in Runs : TicketOf(q)' = TicketOf(q)
  BY RunFrame, TicketFrame, Pairs DEF TypeOK, PlaceInv, TicketOf
<1>1. ASSUME NEW m \in Mails, Started(m) PROVE Started(m)'
  BY <1>0, <1>1 DEF Started
<1>2. ASSUME NEW m \in Mails, jobs'[m] = "queued", jobs[m] # "queued" PROVE PendAt(m)'
  <2>1. pc[r] = "job" /\ m = MailOf(r)
    BY <1>2, JobsMove
  <2>2. IsRequest(r) /\ r = Request(m) /\ ~Started(m)
    BY <2>1, InsertJobAlone
  <2>3. UNCHANGED ticket /\ pc'[r] \notin {"return", "done"}
    BY <1>0, <2>1, <2>2, TicketMoves, RequestTickets
  <2> QED
    BY <2>2, <2>3 DEF PendAt, Started, Request
<1>3. ASSUME NEW m \in Mails, jobs[m] = "queued", m # MailOf(r) PROVE PendAt(m)'
  <2>1. PendAt(m)
    BY <1>3 DEF PendInv, PendAt
  <2>2. Started(m)' => Started(m)
    BY <1>0, <1>3 DEF Started
  <2>3. ASSUME NEW t \in Tickets, t[1] = m, Pending(t) PROVE Pending(t)'
    <3>1. ASSUME NEW q \in Runs, TicketOf(q) = t PROVE q # r
      BY <1>3, <2>3, <3>1 DEF TicketOf
    <3> QED
      BY <1>0, <1>3, <2>3, <3>1 DEF Pending, IsRequest
  <2>4. pc'[Request(m)] = pc[Request(m)]
    BY <1>0, <1>3, Pairs
  <2> QED
    BY <1>1, <2>1, <2>2, <2>3, <2>4 DEF PendAt, Request
<1>4. ASSUME jobs[MailOf(r)] = "queued", Enqueues(r), Goto(r, "return"),
             pc[r] \in {"enqueue", "requeue"}
      PROVE  PendAt(MailOf(r))'
  <2>1. PICK t \in Tickets : /\ t[1] = MailOf(r) /\ ticket[t] = "free"
                             /\ ticket' = [ticket EXCEPT ![t] = "ready"]
    BY <1>4 DEF Enqueues, Free
  <2>2. ASSUME NEW q \in Runs, pc[q] # "idle", ~IsRequest(q) PROVE TicketOf(q) # t
    BY <2>1, <2>2 DEF PlaceInv, RunInv
  <2>3. Pending(t)'
    <3>1. ASSUME NEW q \in Runs, pc'[q] = "return" PROVE pc[q] # "idle"
      BY <1>0, <1>4, <3>1
    <3> QED
      BY <1>0, <2>1, <2>2, <3>1 DEF Pending, IsRequest
  <2>4. Started(MailOf(r))' /\ t[1] = MailOf(r)'
    BY <1>0, <2>1 DEF Started, MailOf
  <2> QED
    BY <2>3, <2>4 DEF PendAt
<1>5. ASSUME jobs[MailOf(r)] = "queued", ~(Enqueues(r) /\ Goto(r, "return")
                                           /\ pc[r] \in {"enqueue", "requeue"})
      PROVE  PendAt(MailOf(r))'
  <2> DEFINE m == MailOf(r)
  <2>1. PendAt(m)
    BY <1>0, <1>5 DEF PendInv, PendAt
  <2>2. /\ \A t \in Tickets : /\ ticket[t] = "free" => ticket'[t] = "free"
                              /\ ticket[t] # "acked" /\ ticket'[t] = "acked" =>
                                   pc[r] = "return" /\ ~IsRequest(r) /\ t = TicketOf(r)
        /\ pc'[r] # "return"
        /\ pc'[r] = "done" => pc[r] = "return"
    BY <1>5, TicketMoves DEF RecordInv, Settled
  <2>3. Started(m)' <=> Started(m)
    BY <1>0, <1>1, <2>2 DEF Started, MailOf
  <2>4. ASSUME NEW t \in Tickets, Pending(t) PROVE Pending(t)'
    BY <1>0, <2>2, <2>4 DEF Pending, IsRequest
  <2>5. pc'[Request(m)] \in {"return", "done"} => pc[Request(m)] \in {"return", "done"}
    BY <1>0, <2>2
  <2> HIDE DEF m
  <2>6. PendAt(m)'
    BY <2>1, <2>3, <2>4, <2>5 DEF PendAt, Request, MailOf, m
  <2> QED
    BY <2>6 DEF m
<1>6. ASSUME NEW m \in Mails, jobs'[m] = "queued" PROVE PendAt(m)'
  BY <1>2, <1>3, <1>4, <1>5, <1>6
<1> QED
  BY <1>6 DEF PendInv, PendAt

LEMMA BeginPend ==
  ASSUME TypeOK, PlaceInv, PendInv, NEW t \in Tickets, BeginRun(t), ticket[t] \in {"ready", "leased"}
  PROVE  PendInv'
<1>1. PICK n \in Runs : /\ pc' = [pc EXCEPT ![n] = "read"] /\ pc[n] = "idle"
                        /\ serves' = [serves EXCEPT ![n] = t[2]]
  BY BeginPlace DEF BeginRun, Goto
<1>2. /\ UNCHANGED jobs /\ ticket' = [ticket EXCEPT ![t] = "leased"]
      /\ pc \in [Runs -> Steps] /\ ticket \in [Tickets -> TicketStates]
      /\ serves \in [Runs -> 0..MaxTickets]
  BY DEF BeginRun, TypeOK, storeVars
<1>3. \A m \in Mails : Started(m)' <=> Started(m)
  BY <1>2 DEF Started
<1>4. ASSUME NEW u \in Tickets, Pending(u) PROVE Pending(u)'
  <2>1. ASSUME NEW q \in Runs, pc'[q] = "return" PROVE pc[q] = "return" /\ TicketOf(q)' = TicketOf(q)
    BY <1>1, <1>2, <2>1 DEF TicketOf
  <2> QED
    BY <1>2, <1>4, <2>1 DEF Pending, IsRequest
<1>5. \A m \in Mails : pc'[Request(m)] = pc[Request(m)]
  BY <1>1, <1>2, Pairs DEF PlaceInv, RunInv
<1> QED
  BY <1>2, <1>3, <1>4, <1>5 DEF PendInv, PendAt, Request

LEMMA OtherPend ==
  ASSUME TypeOK, PendInv,
         \/ RestartProcess
         \/ \E m \in Mails : BecomesDue(m) \/ Trash(m) \/ Destroy(m)
  PROVE  PendInv'
<1>1. CASE RestartProcess
  <2>1. /\ UNCHANGED <<jobs, serves>>
        /\ \A r \in Runs : pc'[r] = IF Live(r) THEN "crashed" ELSE pc[r]
        /\ \A t \in Tickets : /\ ticket[t] = "free" <=> ticket'[t] = "free"
                              /\ ticket[t] = "acked" <=> ticket'[t] = "acked"
    BY <1>1, RestartFrame
  <2>2. \A m \in Mails : Started(m)' <=> Started(m)
    BY <2>1 DEF Started
  <2>3. ASSUME NEW u \in Tickets, Pending(u) PROVE Pending(u)'
    BY <2>1, <2>3 DEF Pending, Live, Resting
  <2>4. \A m \in Mails : pc'[Request(m)] \in {"return", "done"} => pc[Request(m)] \in {"return", "done"}
    BY <2>1, Pairs
  <2> QED
    BY <2>1, <2>2, <2>3, <2>4 DEF PendInv, PendAt, Request
<1>2. CASE \E m \in Mails : BecomesDue(m) \/ Trash(m) \/ Destroy(m)
  <2>1. UNCHANGED <<jobs, serves, ticket, pc>>
    BY <1>2, OutsideFrame
  <2> QED
    BY <2>1 DEF PendInv, PendAt, Pending, Started, TicketOf, Request
<1> QED
  BY <1>1, <1>2

-----------------------------------------------------------------------------
(***************************************************************************)
(* The invariant holds, and with it the safety properties.                 *)
(***************************************************************************)
LEMMA InitInv ==
  ASSUME Init
  PROVE  IInv
<1>1. TypeOK
  BY InitType
<1>2. /\ \A m \in Mails : /\ ~Started(m) /\ Request(m) \in Runs /\ pc[Request(m)] = "row"
                          /\ jobs[m] = "none" /\ SentBy(m) = {} /\ told[m] = {}
                          /\ answer[m] = "none" /\ row[m] = "none"
      /\ \A r \in Runs : pc[r] = IF IsRequest(r) THEN "row" ELSE "idle"
      /\ accepted = {}
  BY Pairs DEF Init, Started, SentBy
<1>3. PlaceInv
  <2>1. ASSUME NEW r \in Runs, ~IsRequest(r) PROVE r[2] > runs[MailOf(r)]
    <3>1. r[2] \in 0..MaxRuns /\ r[2] # 0 /\ runs[MailOf(r)] = 0 /\ MaxRuns \in Nat
      BY <2>1, Pairs, OutboundAssumption DEF Init, IsRequest
    <3> QED
      BY <3>1
  <2> QED
    BY <1>2, <2>1 DEF PlaceInv, RunInv, Recording, Reporting, Catching
<1>4. RequestInv
  BY <1>2 DEF RequestInv, RequestAt
<1>5. RecordInv
  BY <1>2 DEF RecordInv, Delivering, Recording, Reporting, Catching
<1>6. OnceInv
  <2>1. ASSUME NEW r \in Runs, Working(r) PROVE r = Request(MailOf(r))
    BY <1>2, <2>1, Pairs DEF Working, Live, Resting
  <2>2. \A r \in Runs : ~Clean(r) /\ pc[r] \notin Delivering /\ MailOf(r) \in Mails
    BY <1>2, Pairs DEF Clean, Delivering, Recording, Reporting, Catching
  <2> QED
    BY <1>2, <2>1, <2>2 DEF OnceInv, OnceAt, Recording
<1>7. FailedInv /\ PendInv
  BY <1>2 DEF FailedInv, PendInv, PendAt
<1>8. FilesInv
  BY <1>2, Pairs DEF FilesInv, Init
<1> QED
  BY <1>1, <1>3, <1>4, <1>5, <1>6, <1>7, <1>8 DEF IInv

LEMMA NextInv ==
  ASSUME IInv, [Next]_vars
  PROVE  IInv'
<1>0. TypeOK'
  BY NextType DEF IInv
<1>1. CASE UNCHANGED vars
  <2>1. PlaceInv' /\ RequestInv' /\ RecordInv'
    BY <1>1 DEF IInv, vars, storeVars, queueVars, deliveryVars, history, PlaceInv, RunInv,
       RequestInv, RequestAt, Started, RecordInv, SentBy, Settled, TicketOf
  <2>2. OnceInv' /\ FailedInv'
    BY <1>1 DEF IInv, vars, storeVars, deliveryVars, history, OnceInv, OnceAt, Working, Live, Clean,
       FailedInv
  <2>3. FilesInv' /\ PendInv'
    BY <1>1 DEF IInv, vars, storeVars, queueVars, deliveryVars, FilesInv, Kept, PendInv,
       PendAt, Pending,
       Started, TicketOf
  <2> QED
    BY <1>0, <2>1, <2>2, <2>3 DEF IInv
<1>2. ASSUME NEW r \in Runs, Stepping(r) PROVE IInv'
  BY <1>0, <1>2, RunPlace, RunRequest, RunRecord, RunOnce, RunFailed, RunFiles, RunPend DEF IInv
<1>3. ASSUME NEW t \in Tickets, BeginRun(t), ticket[t] \in {"ready", "leased"} PROVE IInv'
  BY <1>0, <1>3, BeginPlace, BeginRequest, OtherRecord, BeginOnce, OtherFailed, OtherFiles,
     BeginPend DEF IInv
<1>4. CASE RestartProcess \/ \E m \in Mails : BecomesDue(m) \/ Trash(m) \/ Destroy(m)
  BY <1>0, <1>4, OtherPlace, OtherRequest, OtherRecord, OtherOnce, OtherFailed, OtherFiles,
     OtherPend DEF IInv
<1> QED
  BY <1>1, <1>2, <1>3, <1>4 DEF Next, Stepping, Deliver, DeliverDuplicate

\* No step of a run, of the queue, of a user or of a crash breaks the invariant.
THEOREM Invariance == Spec => []IInv
<1> QED
  BY InitInv, NextInv, PTL DEF Spec

(***************************************************************************)
(* Every mail the provider takes has its attachments, unless a user has    *)
(* destroyed the message (send.ts:302).                                    *)
(***************************************************************************)
THEOREM FilesTravelHolds == Spec => []FilesTravel
<1>1. IInv => FilesTravel
  BY DEF IInv, FilesInv, FilesTravel, TypeOK
<1> QED
  BY <1>1, Invariance, PTL

(***************************************************************************)
(* The events and the answers about a mail are true, but for the runs that *)
(* were cut off, or whose bookkeeping threw, after the sending.            *)
(***************************************************************************)
THEOREM ToldTrulyHolds == Spec => []ToldTruly
<1>1. IInv => EventsAreTrue
  <2> SUFFICES ASSUME IInv, NEW m \in Mails
               PROVE  /\ "message.outbound" \in told[m] => SentBy(m) # {}
                      /\ "message.failed" \in told[m] =>
                           SentBy(m) \subseteq tripped \cup slipped \/ m \in overlapped
    BY DEF EventsAreTrue
  <2> QED
    BY DEF IInv, RecordInv, FailedInv, SentBy
<1>2. IInv => RefusedIsNotSent
  <2> SUFFICES ASSUME IInv, NEW m \in Mails, answer[m] = "error", NEW r \in SentBy(m)
               PROVE  r \in tripped
    BY DEF RefusedIsNotSent
  <2>1. /\ pc[Request(m)] = "failed" /\ ~Started(m) /\ r \in Runs /\ r \in accepted
        /\ MailOf(r) = m
    BY DEF IInv, RequestInv, RequestAt, SentBy, TypeOK
  <2>2. IsRequest(r)
    BY <2>1, ConsumerStarted DEF IInv, PlaceInv, RunInv, Unsent
  <2>3. r = Request(m)
    BY <2>1, <2>2, Pairs
  <2> QED
    BY <2>1, <2>3 DEF IInv, PlaceInv, RunInv
<1> QED
  BY <1>1, <1>2, Invariance, PTL DEF ToldTruly

(***************************************************************************)
(* A caller that was told the mail is scheduled has a ticket working on    *)
(* it, or one the queue gave up on or lost, while the job is queued.       *)
(***************************************************************************)
THEOREM ScheduledIsPendingHolds == Spec => []ScheduledIsPending
<1>1. IInv => ScheduledIsPending
  BY DEF IInv, RequestInv, RequestAt, PendInv, PendAt, Pending, ScheduledIsPending
<1> QED
  BY <1>1, Invariance, PTL

-----------------------------------------------------------------------------
(***************************************************************************)
(* Sending implements Once.                                                *)
(***************************************************************************)
Sent(m) == Cardinality(SentBy(m))
Doubtful == overlapped \cup {MailOf(r) : r \in tripped \cup slipped}

LEMMA SentFinite ==
  ASSUME NEW A \in SUBSET Runs, NEW m
  PROVE  /\ IsFiniteSet({r \in A : MailOf(r) = m})
         /\ Cardinality({r \in A : MailOf(r) = m}) \in Nat
<1> DEFINE S == {r \in A : MailOf(r) = m}
           f == [r \in S |-> r[2]]
<1>1. \A r \in S : r[2] \in 0..MaxRuns /\ r = <<m, r[2]>>
  BY Pairs
<1>2. f \in Injection(S, 0..MaxRuns)
  BY <1>1 DEF Injection, IsInjective
<1>3. IsFiniteSet(0..MaxRuns)
  BY FS_Interval, OutboundAssumption
<1>4. IsFiniteSet(S)
  BY <1>2, <1>3, FS_Injection
<1> QED
  BY <1>4, FS_CardinalityType

\* A mail in no doubt has been sent by none but the run that delivers it.
LEMMA SentAlone ==
  ASSUME IInv, NEW r \in Runs, MailOf(r) \notin Doubtful,
         pc[r] \in Delivering, jobs[MailOf(r)] = "queued"
  PROVE  SentBy(MailOf(r)) = IF r \in accepted THEN {r} ELSE {}
<1>1. \A q \in SentBy(MailOf(r)) : q \in Runs /\ MailOf(q) = MailOf(r) /\ Clean(q)
  BY DEF IInv, TypeOK, SentBy, Clean, Doubtful
<1>2. \A q \in SentBy(MailOf(r)) : q = r
  BY <1>1 DEF IInv, OnceInv, OnceAt, Doubtful
<1> QED
  BY <1>2 DEF SentBy

\* What a step does to a mail in no doubt.
LEMMA RunKeepsPromise ==
  ASSUME IInv, TypeOK', NEW r \in Runs, Stepping(r), NEW m \in Mails, m \notin Doubtful'
  PROVE  \/ jobs[m] = "none" /\ jobs'[m] = "queued" /\ Sent(m)' = Sent(m)
         \/ jobs[m] = "queued" /\ jobs'[m] = jobs[m] /\ Sent(m) = 0 /\ Sent(m)' = 1
         \/ jobs[m] = "queued" /\ jobs'[m] = "sent" /\ Sent(m) = 1 /\ Sent(m)' = Sent(m)
         \/ jobs[m] = "queued" /\ jobs'[m] = "failed" /\ Sent(m) = 0 /\ Sent(m)' = Sent(m)
         \/ jobs'[m] = jobs[m] /\ Sent(m)' = Sent(m)
<1>0. /\ m \notin Doubtful /\ UNCHANGED overlapped
      /\ accepted \subseteq accepted' /\ accepted' \subseteq accepted \cup {r}
      /\ jobs \in [Mails -> JobStates]
      /\ TypeOK /\ PlaceInv /\ RequestInv
  BY RunFrame, SetsFrame DEF Doubtful, IInv, TypeOK
<1>1. accepted' = accepted => Sent(m)' = Sent(m)
  BY DEF Sent, SentBy
<1>2. CASE m # MailOf(r)
  <2>1. SentBy(m)' = SentBy(m)
    BY <1>0, <1>2 DEF SentBy, MailOf
  <2> QED
    BY <1>0, <1>2, <2>1, MailFrame DEF Sent
<1>3. CASE m = MailOf(r) /\ InsertJob(r)
  <2>1. jobs[m] = "none" /\ UNCHANGED accepted
    BY <1>0, <1>3, InsertJobAlone DEF InsertJob, deliveryVars
  <2> QED
    BY <1>0, <1>1, <1>3, <2>1 DEF InsertJob
<1>4. CASE m = MailOf(r) /\ (MarkJobSent(r) \/ FailJob(r))
  <2>1. UNCHANGED accepted /\ pc[r] \in {"markJob", "failJob"} /\ pc[r] \in Delivering
    BY <1>4 DEF MarkJobSent, FailJob, deliveryVars, Delivering, Recording, Catching
  <2>2. r \in accepted => r \notin tripped
    BY <1>0, <1>4 DEF Doubtful
  <2>3. jobs[m] = "queued" \/ r \in tripped
    BY <1>0, <1>4, <2>1 DEF IInv, OnceInv, OnceAt, Recording, Doubtful
  <2>4. r \notin tripped /\ jobs[m] = "queued"
    BY <1>0, <1>4, <2>3 DEF Doubtful
  <2>5. /\ pc[r] = "markJob" => r \in accepted
        /\ pc[r] = "failJob" => r \notin accepted
    BY <1>0, <2>2, <2>4 DEF PlaceInv, RunInv, Recording, Catching
  <2>6. Sent(m) = IF r \in accepted THEN 1 ELSE 0
    BY <1>0, <1>4, <2>1, <2>4, SentAlone, FS_EmptySet, FS_Singleton DEF Sent
  <2>7. jobs'[m] = IF pc[r] = "markJob" THEN "sent" ELSE "failed"
    BY <1>0, <1>4 DEF MarkJobSent, FailJob
  <2> QED
    BY <1>1, <2>1, <2>4, <2>5, <2>6, <2>7
<1>5. CASE m = MailOf(r) /\ Send(r)
  <2>1. CASE accepted' = accepted
    BY <1>1, <1>5, <2>1 DEF Send, storeVars
  <2>2. CASE accepted' = accepted \cup {r}
    <3>1. pc[r] = "send" /\ pc[r] \in Delivering /\ UNCHANGED jobs
      BY <1>5 DEF Send, Delivering, storeVars
    <3>2. r \notin accepted /\ jobs[m] = "queued"
      BY <1>0, <1>5, <3>1 DEF IInv, OnceInv, OnceAt, PlaceInv, RunInv, Unsent, Doubtful
    <3>3. SentBy(m) = {}
      BY <1>0, <1>5, <3>1, <3>2, SentAlone
    <3>4. SentBy(m)' = {r}
      BY <1>5, <2>2, <3>3 DEF SentBy, MailOf
    <3> QED
      BY <3>1, <3>2, <3>3, <3>4, FS_EmptySet, FS_Singleton DEF Sent
  <2> QED
    BY <1>5, <2>1, <2>2 DEF Send
<1>6. CASE m = MailOf(r) /\ ~InsertJob(r) /\ ~MarkJobSent(r) /\ ~FailJob(r) /\ ~Send(r)
  <2>1. UNCHANGED <<jobs, accepted>>
    BY <1>6 DEF Stepping, Run, InsertRow, StoreFiles, DeleteRow, Enqueue, ReadJob, LoadFiles,
       MarkSent, Announce, Audit, Trip, FailMark, FailEvent, CatchFails, Return, CrashRun,
       storeVars, deliveryVars
  <2> QED
    BY <1>1, <2>1
<1> QED
  BY <1>2, <1>3, <1>4, <1>5, <1>6

\* What is said to be sent was sent, of any mail; and no step sends twice.
LEMMA RunWanders ==
  ASSUME IInv, TypeOK', RecordInv', [Next]_vars, NEW m \in Mails
  PROVE  /\ Sent(m)' \in {Sent(m), Sent(m) + 1}
         /\ jobs'[m] = "sent" => Sent(m)' > 0
<1>0. /\ IsFiniteSet(SentBy(m)) /\ Sent(m) \in Nat /\ TypeOK
      /\ IsFiniteSet(SentBy(m)') /\ Sent(m)' \in Nat
  <2>1. accepted \subseteq Runs /\ accepted' \subseteq Runs /\ TypeOK
    BY DEF IInv, TypeOK, Runs
  <2> QED
    BY <2>1, SentFinite DEF Sent, SentBy, MailOf
<1>1. jobs'[m] = "sent" => Sent(m)' > 0
  BY <1>0, FS_EmptySet DEF RecordInv, Sent
<1>2. UNCHANGED accepted \/ \E r \in Runs : accepted' = accepted \cup {r}
  <2>1. ASSUME NEW r \in Runs, Stepping(r) PROVE UNCHANGED accepted \/ accepted' = accepted \cup {r}
    BY <1>0, <2>1, SetsFrame
  <2>2. CASE \E t \in Tickets : BeginRun(t)
    BY <2>2 DEF BeginRun, deliveryVars
  <2>3. CASE RestartProcess \/ \E k \in Mails : BecomesDue(k) \/ Trash(k) \/ Destroy(k)
    BY <1>0, <2>3, RestartFrame, OutsideFrame
  <2> QED
    BY <2>1, <2>2, <2>3 DEF Next, Stepping, Deliver, DeliverDuplicate, vars, deliveryVars
<1>3. UNCHANGED SentBy(m) \/ \E r \in Runs : SentBy(m)' = SentBy(m) \cup {r}
  BY <1>2 DEF SentBy, MailOf
<1>4. Sent(m)' \in {Sent(m), Sent(m) + 1}
  BY <1>0, <1>3, FS_AddElement DEF Sent
<1> QED
  BY <1>1, <1>4

LEMMA DoubtGrows ==
  ASSUME IInv, [Next]_vars
  PROVE  Doubtful \subseteq Doubtful'
<1>0. TypeOK
  BY DEF IInv
<1>1. overlapped \subseteq overlapped' /\ tripped \subseteq tripped' /\ slipped \subseteq slipped'
  <2>1. ASSUME NEW r \in Runs, Stepping(r)
        PROVE  UNCHANGED overlapped /\ tripped \subseteq tripped' /\ slipped \subseteq slipped'
    BY <1>0, <2>1, RunFrame, SetsFrame
  <2>2. CASE \E t \in Tickets : BeginRun(t)
    BY <2>2 DEF BeginRun
  <2>3. CASE RestartProcess \/ \E k \in Mails : BecomesDue(k) \/ Trash(k) \/ Destroy(k)
    BY <1>0, <2>3, RestartFrame, OutsideFrame
  <2> QED
    BY <2>1, <2>2, <2>3 DEF Next, Stepping, Deliver, DeliverDuplicate, vars, history
<1> QED
  BY <1>1 DEF Doubtful, MailOf

\* Seen as Once, an untouched mail rests and one in doubt wanders.
LEMMA StepImplements ==
  ASSUME IInv, IInv', [Next]_vars
  PROVE  [Job!Next]_(Job!vars)
<1> DEFINE state == [m \in Mails |-> JobState(m)]
           effects == [m \in Mails |-> Sent(m)]
<1>0. /\ TypeOK /\ TypeOK' /\ RecordInv'
      /\ jobs \in [Mails -> JobStates] /\ jobs' \in [Mails -> JobStates]
  BY DEF IInv, TypeOK, JobStates
<1>1. state' \in [Mails -> Job!States]
  BY <1>0 DEF JobState, Job!States, JobStates
<1>2. effects' \in [Mails -> Nat]
  <2>1. accepted' \subseteq Runs
    BY <1>0 DEF TypeOK, Runs
  <2> QED
    BY <2>1, SentFinite DEF Sent, SentBy, MailOf
<1>3. Doubtful \subseteq Doubtful' /\ Doubtful' \subseteq Mails
  <2>1. Doubtful' \subseteq Mails
    BY <1>0, Pairs DEF Doubtful, TypeOK, Runs, MailOf
  <2> QED
    BY <2>1, DoubtGrows
<1>4. ASSUME NEW m \in Mails, m \in Doubtful'
      PROVE  /\ effects'[m] \in {effects[m], effects[m] + 1}
             /\ state'[m] = "done" => effects'[m] > 0
  <2>1. state'[m] = "done" => jobs'[m] = "sent"
    BY <1>0 DEF JobState, JobStates
  <2> QED
    BY <1>0, <2>1, RunWanders
<1>5. ASSUME NEW m \in Mails, m \notin Doubtful'
      PROVE  \/ state[m] = "new" /\ state'[m] = "open" /\ effects'[m] = effects[m]
             \/ state[m] = "open" /\ effects[m] = 0 /\ state'[m] = state[m] /\ effects'[m] = 1
             \/ state[m] = "open" /\ effects[m] = 1 /\ state'[m] = "done" /\ effects'[m] = effects[m]
             \/ state[m] = "open" /\ effects[m] = 0 /\ state'[m] = "failed" /\ effects'[m] = effects[m]
             \/ state'[m] = state[m] /\ effects'[m] = effects[m]
  <2>1. ASSUME NEW r \in Runs, Stepping(r)
        PROVE  \/ jobs[m] = "none" /\ jobs'[m] = "queued" /\ Sent(m)' = Sent(m)
               \/ jobs[m] = "queued" /\ jobs'[m] = jobs[m] /\ Sent(m) = 0 /\ Sent(m)' = 1
               \/ jobs[m] = "queued" /\ jobs'[m] = "sent" /\ Sent(m) = 1 /\ Sent(m)' = Sent(m)
               \/ jobs[m] = "queued" /\ jobs'[m] = "failed" /\ Sent(m) = 0 /\ Sent(m)' = Sent(m)
               \/ jobs'[m] = jobs[m] /\ Sent(m)' = Sent(m)
    BY <1>0, <1>5, <2>1, RunKeepsPromise
  <2>2. ASSUME ~(\E r \in Runs : Stepping(r))
        PROVE  jobs'[m] = jobs[m] /\ Sent(m)' = Sent(m)
    <3>1. UNCHANGED <<jobs, accepted>>
      BY <1>0, <2>2, RestartFrame, OutsideFrame DEF Next, Stepping, Deliver, DeliverDuplicate,
         BeginRun, vars, storeVars, deliveryVars
    <3> QED
      BY <3>1 DEF Sent, SentBy
  <2>3. /\ state[m] = JobState(m) /\ state'[m] = JobState(m)'
        /\ effects[m] = Sent(m) /\ effects'[m] = Sent(m)'
    OBVIOUS
  <2>4. /\ jobs[m] = "none" => JobState(m) = "new"
        /\ jobs[m] = "queued" => JobState(m) = "open"
        /\ jobs'[m] = "queued" => JobState(m)' = "open"
        /\ jobs'[m] = "sent" => JobState(m)' = "done"
        /\ jobs'[m] = "failed" => JobState(m)' = "failed"
        /\ jobs'[m] = jobs[m] => JobState(m)' = JobState(m)
    BY <1>0 DEF JobState, JobStates
  <2> HIDE DEF state, effects
  <2> QED
    BY <2>1, <2>2, <2>3, <2>4
<1> HIDE DEF state, effects
<1>6. ASSUME NEW m \in Mails
      PROVE  \/ Job!Open(m) \/ Job!Perform(m) \/ Job!Finish(m) \/ Job!GiveUp(m)
             \/ Job!Withdraw(m) \/ Job!Rest(m) \/ Job!Wander(m)
  <2>1. CASE m \in Doubtful'
    <3>1. /\ effects'[m] \in {effects[m], effects[m] + 1}
          /\ state'[m] = "done" => effects'[m] > 0
      BY <1>4, <2>1
    <3> QED
      BY <2>1, <3>1 DEF Job!Wander, state, effects, Sent, Doubtful
  <2>2. CASE m \notin Doubtful'
    <3>1. CASE state[m] = "new" /\ state'[m] = "open" /\ effects'[m] = effects[m]
      BY <3>1 DEF Job!Open, Job!Says, state, effects, Sent
    <3>2. CASE /\ state[m] = "open" /\ effects[m] = 0 /\ state'[m] = state[m]
               /\ effects'[m] = 1
      BY <3>2 DEF Job!Perform, state, effects, Sent
    <3>3. CASE /\ state[m] = "open" /\ effects[m] = 1 /\ state'[m] = "done"
               /\ effects'[m] = effects[m]
      BY <3>3 DEF Job!Finish, Job!Says, state, effects, Sent
    <3>4. CASE /\ state[m] = "open" /\ effects[m] = 0 /\ state'[m] = "failed"
               /\ effects'[m] = effects[m]
      BY <3>4 DEF Job!GiveUp, Job!Says, state, effects, Sent
    <3>5. CASE state'[m] = state[m] /\ effects'[m] = effects[m]
      BY <3>5 DEF Job!Rest, Job!Says, state, effects, Sent
    <3> QED
      BY <1>5, <2>2, <3>1, <3>2, <3>3, <3>4, <3>5
  <2> QED
    BY <2>1, <2>2
<1>7. /\ [m \in Mails |-> JobState(m)]' \in [Mails -> Job!States]
      /\ [m \in Mails |-> Cardinality(SentBy(m))]' \in [Mails -> Nat]
  BY <1>1, <1>2 DEF state, effects, Sent
<1>8. /\ overlapped \cup {MailOf(r) : r \in tripped \cup slipped}
           \subseteq (overlapped \cup {MailOf(r) : r \in tripped \cup slipped})'
      /\ (overlapped \cup {MailOf(r) : r \in tripped \cup slipped})' \subseteq Mails
  BY <1>3 DEF Doubtful
<1>9. Job!Next
  BY <1>6, <1>7, <1>8 DEF Job!Next
<1> QED
  BY <1>9

(***************************************************************************)
(* Sending keeps the promise of Once: one effect at most, and a true       *)
(* record of it, for every mail in no doubt (send.ts:273).                 *)
(***************************************************************************)
THEOREM ImplementsOnce == Spec => SendsOnce
<1>1. Init => Job!Init
  <2> SUFFICES ASSUME Init PROVE Job!Init
    OBVIOUS
  <2>1. \A m \in Mails : Cardinality(SentBy(m)) = 0 /\ JobState(m) = "new"
    BY FS_EmptySet DEF Init, SentBy, JobState
  <2> QED
    BY <2>1 DEF Init, Job!Init
<1>2. IInv /\ IInv' /\ [Next]_vars => [Job!Next]_(Job!vars)
  BY StepImplements
<1> QED
  BY <1>1, <1>2, Invariance, PTL DEF Spec, SendsOnce, Job!Spec

(***************************************************************************)
(* What Once promises holds of every mail: sent at most once, sent if its  *)
(* job says so and not if it says failed, unless the mail is in doubt      *)
(* (send.ts:273).                                                          *)
(***************************************************************************)
THEOREM PromiseHolds == Spec => []Job!Promise
<1> DEFINE state == [i \in Mails |-> JobState(i)]
           effects == [i \in Mails |-> Cardinality(SentBy(i))]
           doubtful == overlapped \cup {MailOf(r) : r \in tripped \cup slipped}
           TypeOnce == /\ state \in [Mails -> Job!States] /\ effects \in [Mails -> Nat]
                       /\ doubtful \subseteq Mails
<1>1. Job!Init => TypeOnce /\ Job!Promise
  BY DEF Job!Init, Job!Promise, Job!States
<1>2. TypeOnce /\ Job!Promise /\ [Job!Next]_(Job!vars) => TypeOnce' /\ Job!Promise'
  <2> SUFFICES ASSUME TypeOnce, Job!Promise, [Job!Next]_(Job!vars)
               PROVE  TypeOnce' /\ Job!Promise'
    OBVIOUS
  <2>1. CASE UNCHANGED Job!vars
    <3>1. state' = state /\ effects' = effects /\ doubtful' = doubtful
      BY <2>1 DEF Job!vars
    <3>. QED BY <3>1 DEF Job!Promise
  <2>2. CASE Job!Next
    <3>1. TypeOnce'
      BY <2>2 DEF Job!Next
    <3>2. ASSUME NEW i \in Mails
          PROVE  /\ state'[i] = "done" => effects'[i] > 0
                 /\ \/ i \in doubtful'
                    \/ effects'[i] <= (IF state'[i] \in {"new", "failed"} THEN 0 ELSE 1)
      <4>1. /\ state[i] \in Job!States /\ effects[i] \in Nat /\ doubtful \subseteq doubtful'
            /\ state[i] = "done" => effects[i] > 0
            /\ i \in doubtful \/ effects[i] <= (IF state[i] \in {"new", "failed"} THEN 0 ELSE 1)
        BY <2>2 DEF Job!Next, Job!Promise
      <4>2. \/ Job!Open(i) \/ Job!Perform(i) \/ Job!Finish(i) \/ Job!GiveUp(i)
            \/ Job!Withdraw(i) \/ Job!Rest(i) \/ Job!Wander(i)
        BY <2>2 DEF Job!Next
      <4>3. CASE Job!Wander(i)
        BY <4>1, <4>3 DEF Job!Wander
      <4>4. CASE Job!Perform(i)
        BY <4>1, <4>4 DEF Job!Perform
      <4>5. CASE \/ Job!Open(i) \/ Job!Finish(i) \/ Job!GiveUp(i)
                 \/ Job!Withdraw(i) \/ Job!Rest(i)
        BY <4>1, <4>5 DEF Job!Open, Job!Finish, Job!GiveUp, Job!Withdraw, Job!Rest,
           Job!Says, Job!States
      <4>. QED BY <4>2, <4>3, <4>4, <4>5
    <3>. QED BY <3>1, <3>2 DEF Job!Promise
  <2>. QED BY <2>1, <2>2
<1> HIDE DEF TypeOnce
<1>3. QED BY <1>1, <1>2, ImplementsOnce, PTL DEF SendsOnce, Job!Spec
=============================================================================
