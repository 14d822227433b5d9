--------------------------- MODULE InboundProofs ---------------------------
(***************************************************************************)
(* What is proved of Inbound, for every set of mails and mailboxes and     *)
(* every value of the bounds.                                              *)
(***************************************************************************)
EXTENDS Inbound, TLAPS

USE DEF Runs, MailOf

(***************************************************************************)
(* The sets of names, and that a decision is in Decisions.                 *)
(***************************************************************************)
LEMMA NullIsDecision == Null \in Decisions
BY DEF Null, Decisions

LEMMA DecisionMailbox ==
  ASSUME NEW d \in Decisions, d.mailbox # NoBox
  PROVE  d.mailbox \in Mailboxes
BY DEF Decisions, Null, Decision

(***************************************************************************)
(* A retry keeps the queue's variables in their sets.                      *)
(***************************************************************************)
LEMMA RetryType ==
  ASSUME TypeOK, NEW m \in Mails, Retry(m)
  PROVE  job' \in [Mails -> JobStates] /\ tries' \in [Mails -> 0..MaxRetries]
<1>1. /\ job \in [Mails -> JobStates] /\ tries \in [Mails -> 0..MaxRetries]
      /\ MaxRetries \in Nat
  BY InboundAssumption DEF TypeOK
<1>2. CASE job[m] # "leased"
  BY <1>1, <1>2 DEF Retry
<1>3. CASE job[m] = "leased" /\ tries[m] < MaxRetries
  <2>1. tries[m] + 1 \in 0..MaxRetries
    BY <1>1, <1>3
  <2> QED
    BY <1>1, <1>3, <2>1 DEF Retry, JobStates
<1>4. CASE job[m] = "leased" /\ ~(tries[m] < MaxRetries)
  BY <1>1, <1>4 DEF Retry, JobStates
<1> QED
  BY <1>2, <1>3, <1>4

LEMMA InitType == Init => TypeOK
<1> SUFFICES ASSUME Init PROVE TypeOK
  OBVIOUS
<1> USE InboundAssumption, NullIsDecision DEF Init
<1>1. /\ entry \in Entries /\ route \in [Mails -> Decisions]
      /\ intake \in [Mails -> IntakeSteps]
      /\ held \in [Mails -> Decisions]
      /\ forwarded \in [Mails -> Forwards]
      /\ raw \subseteq Mails
  BY DEF IntakeSteps, Forwards
<1>2. /\ job \in [Mails -> JobStates]
      /\ tries \in [Mails -> 0..MaxRetries]
      /\ runs \in [Mails -> 0..MaxRuns]
  BY DEF JobStates
<1>3. pc \in [Runs -> Steps] /\ box \in [Runs -> Mailboxes \cup {NoBox}]
  BY DEF Steps, Resting
<1>4. /\ stored \subseteq Runs /\ announced \subseteq Runs
      /\ objects \in [Runs -> SUBSET Parts]
      /\ records \in [Runs -> SUBSET Parts]
      /\ overlapped \subseteq Mails /\ torn \subseteq Runs
      /\ dropped \subseteq Mails /\ destroyed \subseteq Runs
      /\ edits \in 0..MaxEdits
      /\ duplicates \in 0..MaxDuplicates
      /\ crashes \in 0..MaxCrashes
  OBVIOUS
<1> QED
  BY <1>1, <1>2, <1>3, <1>4 DEF TypeOK

(***************************************************************************)
(* Every step keeps every variable in its set.                             *)
(***************************************************************************)
LEMMA IntakeType ==
  ASSUME TypeOK, NEW m \in Mails, Intake(m)
  PROVE  TypeOK'
<1> USE DEF IntakeUnchanged, intakeVars, queueVars, dataVars, history, bounds, vars
<1>1. CASE IntakeResolve(m)
  <2> PICK d \in {route[m], Null} :
        /\ held' = [held EXCEPT ![m] = IF d.action = "forward" THEN d ELSE Null]
        /\ intake' = [intake EXCEPT ![m] =
             CASE d.action = "reject" -> "refused"
               [] d.action = "forward" -> "forwarding"
               [] OTHER -> "account"]
    BY <1>1 DEF IntakeResolve
  <2>1. d \in Decisions
    BY NullIsDecision DEF TypeOK
  <2>2. held' \in [Mails -> Decisions]
    BY <2>1, NullIsDecision DEF TypeOK
  <2>3. intake' \in [Mails -> IntakeSteps]
    BY DEF TypeOK, IntakeSteps
  <2> QED
    BY <1>1, <2>2, <2>3 DEF IntakeResolve, TypeOK
<1>2. CASE IntakeForward(m)
  BY <1>2, NullIsDecision DEF IntakeForward, TypeOK, IntakeSteps, Forwards
<1>3. CASE IntakeAccountForward(m)
  BY <1>3 DEF IntakeAccountForward, TypeOK, IntakeSteps, Forwards
<1>4. CASE IntakeStoreRaw(m)
  BY <1>4 DEF IntakeStoreRaw, TypeOK, IntakeSteps
<1>5. CASE IntakeEnqueue(m)
  BY <1>5 DEF IntakeEnqueue, TypeOK, IntakeSteps, JobStates
<1>6. CASE RelayForward(m)
  BY <1>6 DEF RelayForward, TypeOK, Forwards
<1> QED
  BY <1>1, <1>2, <1>3, <1>4, <1>5, <1>6 DEF Intake

LEMMA DisownType ==
  ASSUME TypeOK, NEW m \in Mails, Disown(m)
  PROVE  TypeOK'
BY DEF Disown, TypeOK, IntakeSteps, IntakeUnchanged, intakeVars, queueVars, dataVars,
   history, bounds

LEMMA DeliveryType ==
  ASSUME TypeOK, NEW m \in Mails, Deliver(m) \/ DeliverDuplicate(m)
  PROVE  TypeOK'
<1> USE DEF intakeVars, dataVars
<1>1. BeginRun(m) /\ duplicates' \in 0..MaxDuplicates
  BY InboundAssumption DEF Deliver, DeliverDuplicate, TypeOK
<1>2. <<m, runs[m] + 1>> \in Runs /\ runs[m] + 1 \in 0..MaxRuns
  BY <1>1, InboundAssumption DEF BeginRun, TypeOK
<1>3. /\ runs' \in [Mails -> 0..MaxRuns]
      /\ pc' \in [Runs -> Steps]
      /\ job' \in [Mails -> JobStates]
      /\ overlapped' \subseteq Mails
  BY <1>1, <1>2 DEF BeginRun, Goto, TypeOK, Steps, JobStates
<1> QED
  BY <1>1, <1>3 DEF BeginRun, TypeOK

LEMMA RunType ==
  ASSUME TypeOK, NEW r \in Runs, Run(r)
  PROVE  TypeOK'
<1> USE DEF RunUnchanged, QueueUnchanged, RowsUnchanged, Goto,
            intakeVars, queueVars, dataVars, bounds
<1>0. MailOf(r) \in Mails
  OBVIOUS
<1>1. CASE ResolveRecipient(r)
  <2>1. route[MailOf(r)] \in Decisions
    BY <1>0 DEF TypeOK
  <2>2. pc' \in [Runs -> Steps] /\ dropped' \subseteq Mails
    BY <1>0, <1>1 DEF ResolveRecipient, TypeOK, Steps
  <2>3. box' \in [Runs -> Mailboxes \cup {NoBox}]
    BY <1>1, <2>1, DecisionMailbox DEF ResolveRecipient, TypeOK
  <2> QED
    BY <1>1, <2>2, <2>3 DEF ResolveRecipient, TypeOK
<1>2. CASE FindStored(r)
  BY <1>2 DEF FindStored, TypeOK, Steps
<1>3. CASE Classify(r)
  BY <1>3 DEF Classify, TypeOK, Steps
<1>4. CASE InsertRow(r)
  BY <1>4 DEF InsertRow, TypeOK, Steps, Attaching
<1>5. CASE PutObject(r)
  <2>1. PartsOf[MailOf(r)] \subseteq Parts
    BY <1>0, InboundAssumption
  <2> QED
    BY <1>5, <2>1 DEF PutObject, TypeOK, Steps, Attaching
<1>6. CASE InsertRecord(r)
  BY <1>6 DEF InsertRecord, TypeOK, Steps, Attaching
<1>7. CASE FinishAttachments(r)
  BY <1>7 DEF FinishAttachments, TypeOK, Steps
<1>8. CASE FailAttachments(r)
  BY <1>8 DEF FailAttachments, TypeOK, Steps, Attaching
<1>9. CASE DeleteObjects(r)
  BY <1>9 DEF DeleteObjects, TypeOK, Steps, Attaching
<1>10. CASE DeleteRow(r)
  BY <1>0, <1>10, RetryType DEF DeleteRow, TypeOK, Steps, Resting
<1>11. CASE AutoReply(r)
  BY <1>11 DEF AutoReply, TypeOK, Steps
<1>12. CASE Notify(r)
  BY <1>12 DEF Notify, TypeOK, Steps
<1>13. CASE DispatchWebhooks(r)
  BY <1>13 DEF DispatchWebhooks, TypeOK, Steps
<1>14. CASE Ack(r)
  BY <1>14 DEF Ack, TypeOK, Steps, Resting, JobStates
<1>15. CASE RunFails(r)
  BY <1>0, <1>15, RetryType DEF RunFails, TypeOK, Steps, Resting
<1> QED
  BY <1>1, <1>2, <1>3, <1>4, <1>5, <1>6, <1>7, <1>8, <1>9, <1>10, <1>11,
     <1>12, <1>13, <1>14, <1>15 DEF Run

LEMMA StepType == TypeOK /\ [Next]_vars => TypeOK'
<1> SUFFICES ASSUME TypeOK, [Next]_vars PROVE TypeOK'
  OBVIOUS
<1> USE DEF intakeVars, queueVars, dataVars, history, bounds
<1>1. ASSUME NEW m \in Mails, EditRouting(m) PROVE TypeOK'
  BY <1>1, InboundAssumption DEF EditRouting, TypeOK
<1>2. ASSUME NEW r \in Runs, CrashRun(r) PROVE TypeOK'
  <2>1. MailOf(r) \in Mails /\ Retry(MailOf(r))
    BY <1>2 DEF CrashRun
  <2>2. torn' \subseteq Runs /\ crashes' \in 0..MaxCrashes
    BY <1>2, InboundAssumption DEF CrashRun, TornBy, TypeOK
  <2> QED
    BY <1>2, <2>1, <2>2, RetryType DEF CrashRun, Goto, TypeOK, Steps, Resting
<1>3. ASSUME NEW r \in Runs, Destroy(r) PROVE TypeOK'
  BY <1>3 DEF Destroy, TypeOK
<1>4. CASE RestartProcess
  <2>1. pc' \in [Runs -> Steps]
    BY <1>4 DEF RestartProcess, TypeOK, Steps, Resting
  <2>2. /\ job' \in [Mails -> JobStates] /\ intake' \in [Mails -> IntakeSteps]
    BY <1>4 DEF RestartProcess, TypeOK, JobStates, IntakeSteps
  <2>3. torn' \subseteq Runs /\ crashes' \in 0..MaxCrashes
    BY <1>4, InboundAssumption DEF RestartProcess, TornBy, TypeOK
  <2> QED
    BY <1>4, <2>1, <2>2, <2>3 DEF RestartProcess, TypeOK
<1>5. CASE UNCHANGED vars
  BY <1>5 DEF vars, TypeOK
<1> QED
  BY <1>1, <1>2, <1>3, <1>4, <1>5, IntakeType, DisownType, DeliveryType, RunType DEF Next

(***************************************************************************)
(* Type correctness: no run, retry or crash takes a variable out of its    *)
(* set; in particular a job is never attempted more often than MaxRetries. *)
(***************************************************************************)
THEOREM TypeCorrect == Spec => []TypeOK
BY InitType, StepType, PTL DEF Spec

-----------------------------------------------------------------------------
(***************************************************************************)
(* The inductive invariant.  None of the safety properties is inductive:   *)
(* they rest on when a run may exist at all (QueueInv), on what a run has  *)
(* written at each of its steps (RowInv), and on what it knows of the      *)
(* other rows of its mail between the look-up and the insert (CopyInv).    *)
(***************************************************************************)
Before == {"idle", "resolve", "dedupe", "classify", "insert"}
After == {"reply", "notify", "webhook"}
Interrupted == {"failed", "crashed"}

\* Runs begin in order; a job exists only once the mail is accepted; outside
\* overlapped mails a live run holds the lease, alone, and a finished one means
\* that the job is acked.
QueueInv ==
  /\ \A m \in Mails, i \in 1..MaxRuns : i > runs[m] => pc[<<m, i>>] = "idle"
  /\ \A m \in Mails : intake[m] \notin {"accepted", "disowned"} => job[m] = "none"
  /\ \A m \in Mails : job[m] = "none" => runs[m] = 0
  /\ \A q, r \in Runs :
       Live(q) /\ Live(r) /\ MailOf(q) = MailOf(r) => q = r \/ MailOf(r) \in overlapped
  /\ \A r \in Runs : Live(r) => job[MailOf(r)] = "leased" \/ MailOf(r) \in overlapped
  /\ \A r \in Runs : pc[r] = "done" => job[MailOf(r)] = "acked" \/ MailOf(r) \in overlapped

RowInv ==
  \A r \in Runs :
    /\ pc[r] \in Before => /\ r \notin stored \cup destroyed
                           /\ objects[r] = {} /\ records[r] = {}
    /\ pc[r] = "attach" /\ r \in stored => records[r] = objects[r]
    /\ pc[r] \in {"attach", "record"} \cup After => r \in stored \cup destroyed
    /\ r \in stored /\ pc[r] \notin Attaching => Complete(r) \/ r \in torn
    /\ r \in torn => pc[r] \in Interrupted

AnnounceInv ==
  \A r \in announced :
    /\ r \in stored \cup destroyed
    /\ pc[r] \in {"ack", "done", "crashed"}
    /\ r \notin torn

CopyInv ==
  /\ \A q \in stored, r \in Runs :
       pc[r] \in {"classify", "insert"} /\ MailOf(q) = MailOf(r) /\ box[q] = box[r]
         => MailOf(r) \in overlapped
  /\ \A q, r \in stored :
       q # r /\ MailOf(q) = MailOf(r) /\ MailOf(r) \notin overlapped =>
         /\ box[q] # box[r]
         /\ pc[q] \in Interrupted \/ pc[r] \in Interrupted
  /\ \A q \in destroyed, r \in stored :
       q # r /\ MailOf(q) = MailOf(r) /\ box[q] = box[r] =>
         pc[q] \in Interrupted \/ MailOf(r) \in overlapped

Handled(m) ==
  \/ \E q \in stored \cup destroyed : MailOf(q) = m
  \/ m \in dropped \cup overlapped

HandledInv ==
  /\ \A r \in Runs : pc[r] = "ack" => Handled(MailOf(r))
  /\ \A m \in Mails : job[m] = "acked" => Handled(m)

IInv == TypeOK /\ QueueInv /\ RowInv /\ AnnounceInv /\ CopyInv /\ HandledInv

LEMMA InitInv == Init => IInv
<1> SUFFICES ASSUME Init PROVE IInv
  OBVIOUS
<1>1. TypeOK
  BY InitType
<1>2. QueueInv
  BY InboundAssumption DEF Init, QueueInv, Live, Resting
<1>3. RowInv /\ AnnounceInv /\ CopyInv /\ HandledInv
  BY DEF Init, RowInv, Before, After, Attaching, AnnounceInv, CopyInv, HandledInv
<1> QED
  BY <1>1, <1>2, <1>3 DEF IInv

(***************************************************************************)
(* A run that begins is a run that never was.                              *)
(***************************************************************************)
LEMMA BeginFresh ==
  ASSUME TypeOK, QueueInv, NEW m \in Mails, BeginRun(m)
  PROVE  /\ <<m, runs[m] + 1>> \in Runs
         /\ pc[<<m, runs[m] + 1>>] = "idle"
         /\ pc' = [pc EXCEPT ![<<m, runs[m] + 1>>] = "resolve"]
<1>1. runs[m] + 1 \in 1..MaxRuns /\ runs[m] + 1 > runs[m]
  BY InboundAssumption DEF TypeOK, BeginRun
<1> QED
  BY <1>1 DEF QueueInv, BeginRun, Goto

LEMMA RowStep == TypeOK /\ QueueInv /\ RowInv /\ [Next]_vars => RowInv'
<1> SUFFICES ASSUME TypeOK, QueueInv, RowInv, [Next]_vars PROVE RowInv'
  OBVIOUS
<1> USE DEF RowInv, Before, After, Attaching, Interrupted, Complete
<1>1. ASSUME UNCHANGED <<pc, dataVars, torn, destroyed>> PROVE RowInv'
  BY <1>1 DEF dataVars
<1>2. ASSUME NEW m \in Mails, Deliver(m) \/ DeliverDuplicate(m) PROVE RowInv'
  <2>1. BeginRun(m)
    BY <1>2 DEF Deliver, DeliverDuplicate
  <2>2. UNCHANGED <<dataVars, torn, destroyed>>
    BY <2>1 DEF BeginRun
  <2>3. /\ <<m, runs[m] + 1>> \in Runs /\ pc[<<m, runs[m] + 1>>] = "idle"
        /\ pc' = [pc EXCEPT ![<<m, runs[m] + 1>>] = "resolve"]
    BY <2>1, BeginFresh
  <2>4. pc \in [Runs -> Steps]
    BY DEF TypeOK
  <2> HIDE DEF Runs
  <2> QED
    BY <2>2, <2>3, <2>4 DEF dataVars
<1>3. ASSUME NEW r \in Runs, Run(r) PROVE RowInv'
  <2> USE DEF RunUnchanged, RowsUnchanged, Goto, TypeOK
  <2>1. CASE \/ ResolveRecipient(r) \/ FindStored(r) \/ Classify(r)
    BY <2>1 DEF ResolveRecipient, FindStored, Classify
  <2>2. CASE InsertRow(r)
    <3>1. /\ pc[r] = "insert" /\ pc'[r] \in {"attach", "unstore"}
          /\ pc'[r] = "attach" => r \in stored'
          /\ \A q \in Runs \ {r} : pc'[q] = pc[q] /\ (q \in stored' <=> q \in stored)
          /\ objects' = objects /\ records' = records /\ torn' = torn /\ destroyed' = destroyed
      BY <2>2 DEF InsertRow
    <3>2. stored' = stored \cup {r} \/ (stored' = stored /\ pc'[r] = "unstore")
      BY <2>2 DEF InsertRow
    <3> HIDE DEF RunUnchanged, RowsUnchanged, Goto, TypeOK
    <3> QED
      BY <3>1, <3>2
  <2>3. CASE PutObject(r) \/ InsertRecord(r)
    BY <2>3 DEF PutObject, InsertRecord
  <2>4. CASE FinishAttachments(r) \/ FailAttachments(r)
    BY <2>4 DEF FinishAttachments, FailAttachments
  <2>5. CASE DeleteObjects(r)
    BY <2>5 DEF DeleteObjects
  <2>6. CASE DeleteRow(r)
    BY <2>6 DEF DeleteRow
  <2>7. CASE AutoReply(r) \/ Notify(r)
    BY <2>7 DEF AutoReply, Notify
  <2>8. CASE DispatchWebhooks(r) \/ Ack(r) \/ RunFails(r)
    BY <2>8 DEF DispatchWebhooks, Ack, RunFails
  <2> QED
    BY <1>3, <2>1, <2>2, <2>3, <2>4, <2>5, <2>6, <2>7, <2>8 DEF Run
<1>4. ASSUME NEW r \in Runs, CrashRun(r) PROVE RowInv'
  BY <1>4 DEF CrashRun, TornBy, Goto, Live, Resting, dataVars, TypeOK
<1>5. ASSUME NEW r \in Runs, Destroy(r) PROVE RowInv'
  BY <1>5 DEF Destroy, TypeOK
<1>6. CASE RestartProcess
  BY <1>6 DEF RestartProcess, TornBy, Live, Resting, dataVars, TypeOK
<1>7. ASSUME NEW m \in Mails, EditRouting(m) \/ Intake(m) \/ Disown(m) PROVE RowInv'
  BY <1>1, <1>7 DEF EditRouting, Intake, IntakeResolve, IntakeForward,
     IntakeAccountForward, IntakeStoreRaw, IntakeEnqueue, RelayForward,
     Disown, IntakeUnchanged, history
<1>8. CASE UNCHANGED vars
  BY <1>1, <1>8 DEF vars, history
<1> QED
  BY <1>2, <1>3, <1>4, <1>5, <1>6, <1>7, <1>8 DEF Next

\* A retry of a leased job readies it or gives it up; no other job changes.
LEMMA RetryEffect ==
  ASSUME TypeOK, NEW m \in Mails, Retry(m)
  PROVE  /\ \A n \in Mails : n # m \/ job[m] # "leased" => job'[n] = job[n]
         /\ job[m] = "leased" => job'[m] \in {"ready", "dead"}
BY DEF Retry, TypeOK

LEMMA QueueStep == TypeOK /\ QueueInv /\ [Next]_vars => QueueInv'
<1> SUFFICES ASSUME TypeOK, QueueInv, [Next]_vars PROVE QueueInv'
  OBVIOUS
<1> USE DEF QueueInv, Live, Resting
<1>1. ASSUME UNCHANGED <<intake, job, runs, pc, overlapped>> PROVE QueueInv'
  BY <1>1
<1>2. ASSUME NEW m \in Mails, Intake(m) PROVE QueueInv'
  <2> USE DEF IntakeUnchanged, history, queueVars, TypeOK
  <2>1. UNCHANGED <<pc, overlapped>>
    BY <1>2 DEF Intake, IntakeResolve, IntakeForward, IntakeAccountForward,
       IntakeStoreRaw, IntakeEnqueue, RelayForward
  <2>2. CASE IntakeEnqueue(m)
    <3>1. runs[m] = 0 /\ job[m] = "none"
      BY <2>2 DEF IntakeEnqueue
    <3>2. \A r \in Runs : MailOf(r) = m => pc[r] = "idle"
      BY <3>1
    <3>3. CASE UNCHANGED job
      <4>1. /\ \A n \in Mails : intake'[n] = intake[n] \/ job[n] = "none"
            /\ UNCHANGED <<runs, job, pc, overlapped>>
        BY <2>1, <2>2, <3>1, <3>3 DEF IntakeEnqueue
      <4> QED
        BY <4>1
    <3>4. CASE job' = [job EXCEPT ![m] = "ready"] /\ intake' = [intake EXCEPT ![m] = "accepted"]
      BY <2>1, <2>2, <3>1, <3>2, <3>4 DEF IntakeEnqueue
    <3> QED
      BY <2>2, <3>3, <3>4 DEF IntakeEnqueue
  <2>3. CASE ~IntakeEnqueue(m)
    BY <1>2, <2>1, <2>3 DEF Intake, IntakeResolve, IntakeForward,
       IntakeAccountForward, IntakeStoreRaw, RelayForward
  <2> QED
    BY <2>2, <2>3
<1>3. ASSUME NEW m \in Mails, Deliver(m) \/ DeliverDuplicate(m) PROVE QueueInv'
  <2>1. BeginRun(m) /\ job[m] \in {"ready", "leased"}
    BY <1>3 DEF Deliver, DeliverDuplicate
  <2>2. /\ runs' = [runs EXCEPT ![m] = @ + 1]
        /\ job' = [job EXCEPT ![m] = "leased"]
        /\ overlapped' = IF \E q \in Runs : MailOf(q) = m /\ Live(q)
                         THEN overlapped \cup {m} ELSE overlapped
        /\ intake' = intake
    BY <2>1 DEF BeginRun, intakeVars
  <2>3. \A r \in Runs : pc[r] = "done" /\ MailOf(r) = m => m \in overlapped
    BY <2>1
  <2>4. /\ <<m, runs[m] + 1>> \in Runs /\ pc[<<m, runs[m] + 1>>] = "idle"
        /\ pc' = [pc EXCEPT ![<<m, runs[m] + 1>>] = "resolve"]
    BY <2>1, BeginFresh
  <2>5. /\ runs[m] \in Nat /\ \A n \in Mails : runs[n] \in Nat
        /\ pc \in [Runs -> Steps]
        /\ job \in [Mails -> JobStates] /\ runs \in [Mails -> 0..MaxRuns]
    BY InboundAssumption DEF TypeOK
  <2>6. \A n \in Mails, i \in 1..MaxRuns : i > runs'[n] => pc'[<<n, i>>] = "idle"
    BY <2>2, <2>4, <2>5
  <2>7. \A n \in Mails : (intake'[n] \notin {"accepted", "disowned"} => job'[n] = "none")
            /\ (job'[n] = "none" => runs'[n] = 0)
    BY <2>1, <2>2, <2>5
  <2>8. \A q, r \in Runs :
          /\ pc'[q] \notin Resting /\ pc'[r] \notin Resting /\ MailOf(q) = MailOf(r)
          => q = r \/ MailOf(r) \in overlapped'
    BY <2>2, <2>4, <2>5
  <2>9. \A r \in Runs :
          /\ pc'[r] \notin Resting => job'[MailOf(r)] = "leased" \/ MailOf(r) \in overlapped'
          /\ pc'[r] = "done" => job'[MailOf(r)] = "acked" \/ MailOf(r) \in overlapped'
    BY <2>2, <2>3, <2>4, <2>5
  <2> QED
    BY <2>6, <2>7, <2>8, <2>9
<1>4. ASSUME NEW r \in Runs, Run(r) PROVE QueueInv'
  <2> USE DEF RunUnchanged, QueueUnchanged, Goto, TypeOK
  <2>0. UNCHANGED <<intake, runs, overlapped>> /\ MailOf(r) \in Mails
    BY <1>4 DEF Run, ResolveRecipient, FindStored, Classify, InsertRow, PutObject,
       InsertRecord, FinishAttachments, FailAttachments, DeleteObjects, DeleteRow,
       AutoReply, Notify, DispatchWebhooks, Ack, RunFails, intakeVars
  <2>1. CASE /\ Live(r) /\ UNCHANGED job
             /\ \E step \in Steps \ Resting : pc' = [pc EXCEPT ![r] = step]
    BY <2>0, <2>1
  <2>2. CASE Ack(r)
    BY <2>0, <2>2 DEF Ack
  <2>3. CASE DeleteRow(r) \/ RunFails(r)
    <3>1. Live(r) /\ Retry(MailOf(r)) /\ pc' = [pc EXCEPT ![r] = "failed"]
      BY <2>3 DEF DeleteRow, RunFails
    <3>2. /\ \A n \in Mails : n # MailOf(r) \/ job[MailOf(r)] # "leased" => job'[n] = job[n]
          /\ job[MailOf(r)] = "leased" => job'[MailOf(r)] \in {"ready", "dead"}
      BY <2>0, <3>1, RetryEffect
    <3> QED
      BY <2>0, <3>1, <3>2
  <2>4. CASE ~Ack(r) /\ ~DeleteRow(r) /\ ~RunFails(r)
    <3>1. /\ Live(r) /\ UNCHANGED job
          /\ \E step \in Steps \ Resting : pc' = [pc EXCEPT ![r] = step]
      BY <1>4, <2>4 DEF Run, ResolveRecipient, FindStored, Classify, InsertRow,
         PutObject, InsertRecord, FinishAttachments, FailAttachments, DeleteObjects,
         AutoReply, Notify, DispatchWebhooks, Steps, Attaching
    <3> QED
      BY <2>1, <3>1
  <2> QED
    BY <2>2, <2>3, <2>4
<1>5. ASSUME NEW r \in Runs, CrashRun(r) PROVE QueueInv'
  <2>1. /\ Live(r) /\ Retry(MailOf(r)) /\ MailOf(r) \in Mails
        /\ pc' = [pc EXCEPT ![r] = "crashed"]
        /\ UNCHANGED <<intake, runs, overlapped>>
    BY <1>5 DEF CrashRun, Goto, intakeVars
  <2>2. /\ \A n \in Mails : n # MailOf(r) \/ job[MailOf(r)] # "leased" => job'[n] = job[n]
        /\ job[MailOf(r)] = "leased" => job'[MailOf(r)] \in {"ready", "dead"}
    BY <2>1, RetryEffect
  <2> QED
    BY <2>1, <2>2 DEF TypeOK
<1>6. CASE RestartProcess
  BY <1>6 DEF RestartProcess, TypeOK
<1>7. ASSUME NEW m \in Mails, EditRouting(m) \/ Disown(m) PROVE QueueInv'
  <2>1. CASE EditRouting(m)
    BY <1>1, <2>1 DEF EditRouting, intakeVars, queueVars, history
  <2>2. CASE Disown(m)
    BY <2>2 DEF Disown, IntakeUnchanged, history, queueVars, TypeOK
  <2> QED
    BY <1>7, <2>1, <2>2
<1>8. ASSUME NEW r \in Runs, Destroy(r) PROVE QueueInv'
  BY <1>1, <1>8 DEF Destroy, intakeVars, queueVars
<1>9. CASE UNCHANGED vars
  BY <1>1, <1>9 DEF vars, intakeVars, queueVars, history
<1> QED
  BY <1>2, <1>3, <1>4, <1>5, <1>6, <1>7, <1>8, <1>9 DEF Next

(***************************************************************************)
(* The actions of no run leave alone what the remaining parts speak of.    *)
(***************************************************************************)
LEMMA OtherSteps ==
  ASSUME NEW m \in Mails, EditRouting(m) \/ Intake(m) \/ Disown(m)
  PROVE  UNCHANGED <<pc, dataVars, history>>
BY DEF EditRouting, Intake, IntakeResolve, IntakeForward, IntakeAccountForward,
   IntakeStoreRaw, IntakeEnqueue, RelayForward, Disown, IntakeUnchanged

LEMMA BeginEffect ==
  ASSUME TypeOK, QueueInv, NEW m \in Mails, Deliver(m) \/ DeliverDuplicate(m)
  PROVE  /\ UNCHANGED <<dataVars, torn, dropped, destroyed>>
         /\ overlapped \subseteq overlapped'
         /\ \E r \in Runs : pc[r] = "idle" /\ pc' = [pc EXCEPT ![r] = "resolve"]
<1>1. BeginRun(m)
  BY DEF Deliver, DeliverDuplicate
<1>2. /\ UNCHANGED <<dataVars, torn, dropped, destroyed>>
      /\ overlapped \subseteq overlapped'
  BY <1>1 DEF BeginRun
<1> QED
  BY <1>1, <1>2, BeginFresh

LEMMA AnnounceStep ==
  TypeOK /\ QueueInv /\ RowInv /\ AnnounceInv /\ [Next]_vars => AnnounceInv'
<1> SUFFICES ASSUME TypeOK, QueueInv, RowInv, AnnounceInv, [Next]_vars
             PROVE  AnnounceInv'
  OBVIOUS
<1>0. pc \in [Runs -> Steps] /\ announced \subseteq Runs
  BY DEF TypeOK
<1> USE <1>0 DEF AnnounceInv
<1>1. ASSUME UNCHANGED <<pc, dataVars, torn, destroyed>> PROVE AnnounceInv'
  BY <1>1 DEF dataVars
<1>2. ASSUME NEW m \in Mails, Deliver(m) \/ DeliverDuplicate(m) PROVE AnnounceInv'
  BY <1>2, BeginEffect DEF dataVars
<1>3. ASSUME NEW r \in Runs, Run(r) PROVE AnnounceInv'
  <2> USE DEF RunUnchanged, RowsUnchanged, Goto
  <2>1. CASE ResolveRecipient(r) \/ FindStored(r) \/ Classify(r) \/ InsertRow(r)
    BY <2>1 DEF ResolveRecipient, FindStored, Classify, InsertRow
  <2>2. CASE PutObject(r) \/ InsertRecord(r) \/ FinishAttachments(r)
             \/ FailAttachments(r) \/ DeleteObjects(r)
    BY <2>2 DEF PutObject, InsertRecord, FinishAttachments, FailAttachments, DeleteObjects
  <2>3. CASE DeleteRow(r)
    BY <2>3 DEF DeleteRow
  <2>4. CASE AutoReply(r) \/ Notify(r) \/ Ack(r) \/ RunFails(r)
    BY <2>4 DEF AutoReply, Notify, Ack, RunFails
  <2>5. CASE DispatchWebhooks(r)
    BY <2>5 DEF DispatchWebhooks, RowInv, After, Interrupted
  <2> QED
    BY <1>3, <2>1, <2>2, <2>3, <2>4, <2>5 DEF Run
<1>4. ASSUME NEW r \in Runs, CrashRun(r) PROVE AnnounceInv'
  BY <1>4 DEF CrashRun, TornBy, Goto, Live, Resting, Attaching, dataVars
<1>5. ASSUME NEW r \in Runs, Destroy(r) PROVE AnnounceInv'
  BY <1>5 DEF Destroy
<1>6. CASE RestartProcess
  BY <1>6 DEF RestartProcess, TornBy, Live, Resting, Attaching, dataVars
<1>7. ASSUME NEW m \in Mails, EditRouting(m) \/ Intake(m) \/ Disown(m) PROVE AnnounceInv'
  BY <1>1, <1>7, OtherSteps DEF history
<1>8. CASE UNCHANGED vars
  BY <1>1, <1>8 DEF vars, history
<1> QED
  BY <1>2, <1>3, <1>4, <1>5, <1>6, <1>7, <1>8 DEF Next

LEMMA CopyStep ==
  TypeOK /\ QueueInv /\ RowInv /\ CopyInv /\ [Next]_vars => CopyInv'
<1> SUFFICES ASSUME TypeOK, QueueInv, RowInv, CopyInv, [Next]_vars
             PROVE  CopyInv'
  OBVIOUS
<1>0. /\ pc \in [Runs -> Steps] /\ stored \subseteq Runs /\ destroyed \subseteq Runs
      /\ box \in [Runs -> Mailboxes \cup {NoBox}]
  BY DEF TypeOK
<1> USE <1>0 DEF CopyInv, Interrupted
<1>1. ASSUME UNCHANGED <<pc, dataVars, overlapped, destroyed>> PROVE CopyInv'
  BY <1>1 DEF dataVars
<1>2. ASSUME NEW m \in Mails, Deliver(m) \/ DeliverDuplicate(m) PROVE CopyInv'
  BY <1>2, BeginEffect DEF dataVars
<1>3. ASSUME NEW r \in Runs, Run(r) PROVE CopyInv'
  <2> USE DEF RunUnchanged, RowsUnchanged, Goto
  <2>1. CASE ResolveRecipient(r)
    BY <2>1 DEF ResolveRecipient, RowInv, Before
  <2>2. CASE FindStored(r)
    BY <2>2 DEF FindStored
  <2>3. CASE Classify(r) \/ FinishAttachments(r) \/ FailAttachments(r)
             \/ AutoReply(r) \/ Notify(r) \/ DispatchWebhooks(r) \/ Ack(r)
             \/ RunFails(r) \/ PutObject(r) \/ InsertRecord(r) \/ DeleteObjects(r)
    <3>1. /\ UNCHANGED <<stored, destroyed, box, overlapped>>
          /\ \E step \in Steps : pc' = [pc EXCEPT ![r] = step]
          /\ pc[r] \notin Interrupted
          /\ pc'[r] \in {"classify", "insert"} => pc[r] \in {"classify", "insert"}
      BY <2>3 DEF Classify, FinishAttachments, FailAttachments, AutoReply, Notify,
         DispatchWebhooks, Ack, RunFails, PutObject, InsertRecord, DeleteObjects,
         Steps, Resting, Attaching
    <3> QED
      BY <3>1
  <2>4. CASE DeleteRow(r)
    BY <2>4 DEF DeleteRow
  <2>5. CASE InsertRow(r)
    <3>1. /\ pc[r] = "insert" /\ stored' \subseteq stored \cup {r}
          /\ pc' \in {[pc EXCEPT ![r] = "attach"], [pc EXCEPT ![r] = "unstore"]}
          /\ UNCHANGED <<destroyed, box, overlapped>>
      BY <2>5 DEF InsertRow
    <3>2. ASSUME NEW q \in stored \cup destroyed, q # r, MailOf(q) = MailOf(r),
                 MailOf(r) \notin overlapped
          PROVE  pc[q] \in Interrupted
      <4>1. Live(r) /\ ~Live(q)
        BY <3>1, <3>2 DEF QueueInv, Live, Resting
      <4>2. pc[q] # "done"
        BY <3>1, <3>2, <4>1 DEF QueueInv
      <4>3. pc[q] # "idle"
        BY DEF RowInv, Before
      <4> QED
        BY <4>1, <4>2, <4>3 DEF Live, Resting
    <3>3. ASSUME NEW q \in Runs, Live(q), q # r, MailOf(q) = MailOf(r)
          PROVE  MailOf(r) \in overlapped
      BY <3>1, <3>3 DEF QueueInv, Live, Resting
    <3> QED
      BY <3>1, <3>2, <3>3 DEF Live, Resting
  <2> QED
    BY <1>3, <2>1, <2>2, <2>3, <2>4, <2>5 DEF Run
<1>4. ASSUME NEW r \in Runs, CrashRun(r) PROVE CopyInv'
  BY <1>4 DEF CrashRun, Goto, dataVars
<1>5. ASSUME NEW r \in Runs, Destroy(r) PROVE CopyInv'
  BY <1>5 DEF Destroy
<1>6. CASE RestartProcess
  BY <1>6 DEF RestartProcess, Live, Resting, dataVars
<1>7. ASSUME NEW m \in Mails, EditRouting(m) \/ Intake(m) \/ Disown(m) PROVE CopyInv'
  BY <1>1, <1>7, OtherSteps DEF history
<1>8. CASE UNCHANGED vars
  BY <1>1, <1>8 DEF vars, history
<1> QED
  BY <1>2, <1>3, <1>4, <1>5, <1>6, <1>7, <1>8 DEF Next

\* What has been handled stays handled, unless a live run takes its row away.
LEMMA HandledStays ==
  ASSUME NEW m \in Mails, Handled(m),
         \A q \in stored : MailOf(q) = m => q \in stored' \cup destroyed',
         destroyed \subseteq destroyed', dropped \subseteq dropped',
         overlapped \subseteq overlapped'
  PROVE  Handled(m)'
BY DEF Handled

LEMMA HandledStep ==
  TypeOK /\ QueueInv /\ RowInv /\ HandledInv /\ [Next]_vars => HandledInv'
<1> SUFFICES ASSUME TypeOK, QueueInv, RowInv, HandledInv, [Next]_vars
             PROVE  HandledInv'
  OBVIOUS
<1>0. /\ pc \in [Runs -> Steps] /\ stored \subseteq Runs /\ destroyed \subseteq Runs
      /\ job \in [Mails -> JobStates]
  BY DEF TypeOK
<1> USE <1>0 DEF HandledInv, Handled
<1>1. ASSUME UNCHANGED <<pc, job, stored, history>> PROVE HandledInv'
  BY <1>1 DEF history
<1>2. ASSUME NEW m \in Mails, Deliver(m) \/ DeliverDuplicate(m) PROVE HandledInv'
  <2>1. job' = [job EXCEPT ![m] = "leased"]
    BY <1>2 DEF Deliver, DeliverDuplicate, BeginRun
  <2> QED
    BY <1>2, <2>1, BeginEffect DEF dataVars
<1>3. ASSUME NEW r \in Runs, Run(r) PROVE HandledInv'
  <2> USE DEF RunUnchanged, RowsUnchanged, QueueUnchanged, Goto
  <2>1. CASE ResolveRecipient(r)
    BY <2>1 DEF ResolveRecipient
  <2>2. CASE FindStored(r)
    BY <2>2 DEF FindStored
  <2>3. CASE Classify(r) \/ FinishAttachments(r) \/ FailAttachments(r)
             \/ AutoReply(r) \/ Notify(r) \/ PutObject(r) \/ InsertRecord(r)
             \/ DeleteObjects(r) \/ InsertRow(r)
    <3>1. /\ stored \subseteq stored'
          /\ UNCHANGED <<destroyed, overlapped, dropped, job>>
          /\ \E step \in Steps \ {"ack"} : pc' = [pc EXCEPT ![r] = step]
      BY <2>3 DEF Classify, FinishAttachments, FailAttachments, AutoReply, Notify,
         PutObject, InsertRecord, DeleteObjects, InsertRow, Steps, Attaching
    <3> QED
      BY <3>1
  <2>4. CASE DeleteRow(r) \/ RunFails(r)
    <3>1. /\ MailOf(r) \in Mails /\ Live(r) /\ Retry(MailOf(r))
          /\ stored \ {r} \subseteq stored'
          /\ UNCHANGED <<destroyed, overlapped, dropped>>
          /\ pc' = [pc EXCEPT ![r] = "failed"]
      BY <2>4 DEF DeleteRow, RunFails, Live, Resting
    <3>2. \A n \in Mails : job'[n] = "acked" => job[n] = "acked"
      BY <3>1, RetryEffect DEF JobStates
    <3>3. \A q \in Runs : pc'[q] = "ack" => pc[q] = "ack" /\ q # r
      BY <3>1
    <3>4. ASSUME NEW m \in Mails, Handled(m), m # MailOf(r) \/ m \in overlapped
          PROVE  Handled(m)'
      BY <3>1, <3>4
    <3>5. \A q \in Runs : q # r /\ pc[q] = "ack" /\ MailOf(q) = MailOf(r)
                           => MailOf(r) \in overlapped
      BY <3>1 DEF QueueInv, Live, Resting
    <3>6. job[MailOf(r)] = "acked" => MailOf(r) \in overlapped
      BY <3>1 DEF QueueInv
    <3> QED
      BY <3>2, <3>3, <3>4, <3>5, <3>6
  <2>5. CASE DispatchWebhooks(r)
    BY <2>5 DEF DispatchWebhooks, RowInv, After
  <2>6. CASE Ack(r)
    BY <2>6 DEF Ack
  <2> QED
    BY <1>3, <2>1, <2>2, <2>3, <2>4, <2>5, <2>6 DEF Run
<1>4. ASSUME NEW r \in Runs, CrashRun(r) PROVE HandledInv'
  <2>1. /\ MailOf(r) \in Mails /\ Retry(MailOf(r))
        /\ UNCHANGED <<stored, destroyed, overlapped, dropped>>
        /\ pc' = [pc EXCEPT ![r] = "crashed"]
    BY <1>4 DEF CrashRun, Goto, dataVars
  <2>2. \A n \in Mails : job'[n] = "acked" => job[n] = "acked"
    BY <2>1, RetryEffect DEF JobStates
  <2> QED
    BY <2>1, <2>2
<1>5. ASSUME NEW r \in Runs, Destroy(r) PROVE HandledInv'
  BY <1>5 DEF Destroy, queueVars
<1>6. CASE RestartProcess
  BY <1>6 DEF RestartProcess, dataVars
<1>7. ASSUME NEW m \in Mails, EditRouting(m) \/ Intake(m) \/ Disown(m) PROVE HandledInv'
  <2>1. \A n \in Mails : job'[n] = "acked" => job[n] = "acked"
    BY <1>7 DEF EditRouting, Intake, IntakeResolve, IntakeForward, IntakeAccountForward,
       IntakeStoreRaw, IntakeEnqueue, RelayForward, Disown, queueVars
  <2> QED
    BY <1>7, <2>1, OtherSteps DEF history, dataVars
<1>8. CASE UNCHANGED vars
  BY <1>1, <1>8 DEF vars, dataVars, queueVars
<1> QED
  BY <1>2, <1>3, <1>4, <1>5, <1>6, <1>7, <1>8 DEF Next

LEMMA Invariance == Spec => []IInv
<1>1. IInv /\ [Next]_vars => IInv'
  BY StepType, QueueStep, RowStep, AnnounceStep, CopyStep, HandledStep DEF IInv
<1> QED
  BY InitInv, <1>1, PTL DEF Spec

-----------------------------------------------------------------------------
(***************************************************************************)
(* Redelivery never files a mail twice in one mailbox: inbound.ts:58-62    *)
(* does what it is there for unless two deliveries overlap.                *)
(***************************************************************************)
THEOREM OneCopyHolds == Spec => []OneCopy
<1>1. IInv => OneCopy
  BY DEF IInv, CopyInv, OneCopy, Interrupted
<1> QED
  BY <1>1, Invariance, PTL

(***************************************************************************)
(* A row outside its attachment step has all its attachments, unless its   *)
(* delivery was cut off there (inbound.ts:168-171, attachments.ts:104-107).*)
(***************************************************************************)
THEOREM StoredIsCompleteHolds == Spec => []StoredIsComplete
<1>1. IInv => StoredIsComplete
  BY DEF IInv, TypeOK, RowInv, StoredIsComplete
<1> QED
  BY <1>1, Invariance, PTL

(***************************************************************************)
(* The message.inbound webhook (inbound.ts:203-212) tells of a complete    *)
(* row, and once per mail and mailbox.                                     *)
(***************************************************************************)
THEOREM AnnouncedOnceHolds == Spec => []AnnouncedOnce
<1>1. ASSUME IInv PROVE AnnouncedOnce
  <2>1. announced \subseteq Runs
    BY <1>1 DEF IInv, TypeOK
  <2>2. \A r \in announced : r \in stored \cup destroyed /\ (r \in stored => Complete(r))
    BY <1>1, <2>1 DEF IInv, AnnounceInv, RowInv, Attaching
  <2>3. \A q, r \in announced :
          q # r /\ MailOf(q) = MailOf(r) /\ box[q] = box[r] /\ MailOf(r) \notin overlapped
            => q \in destroyed \/ r \in destroyed
    BY <1>1, <2>2 DEF IInv, CopyInv
  <2> QED
    BY <2>2, <2>3 DEF AnnouncedOnce
<1> QED
  BY <1>1, Invariance, PTL

(***************************************************************************)
(* An acked job left a row, or was discarded by the routing in force, or   *)
(* overlapped another delivery of the same mail (worker.ts:79-95).         *)
(***************************************************************************)
THEOREM AckedMeansHandledHolds == Spec => []AckedMeansHandled
<1>1. IInv => AckedMeansHandled
  BY DEF IInv, HandledInv, Handled, AckedMeansHandled
<1> QED
  BY <1>1, Invariance, PTL

(***************************************************************************)
(* A mail that a user destroyed is filed again in that mailbox only when   *)
(* the delivery that had filed it never finished.                          *)
(***************************************************************************)
THEOREM DestroyedStaysGoneHolds == Spec => []DestroyedStaysGone
<1>1. IInv => DestroyedStaysGone
  BY DEF IInv, CopyInv, DestroyedStaysGone, Interrupted
<1> QED
  BY <1>1, Invariance, PTL

(***************************************************************************)
(* A mail that its own intake refused (worker.ts catch, SMTP 451) never    *)
(* turns up in a mailbox: the row is what the queue message leads to, and  *)
(* the queue message is the last step of the intake.                       *)
(***************************************************************************)
THEOREM RefusedIsNotFiledHolds == Spec => []RefusedIsNotFiled
<1>1. ASSUME IInv PROVE RefusedIsNotFiled
  <2>1. ASSUME NEW m \in Mails, intake[m] = "refused", NEW r \in stored, MailOf(r) = m
        PROVE  FALSE
    <3>1. runs[m] = 0 /\ r \in Runs
      BY <1>1, <2>1 DEF IInv, QueueInv, TypeOK
    <3>2. pc[r] = "idle"
      BY <1>1, <2>1, <3>1 DEF IInv, QueueInv
    <3> QED
      BY <1>1, <2>1, <3>1, <3>2 DEF IInv, RowInv, Before
  <2> QED
    BY <2>1 DEF RefusedIsNotFiled
<1> QED
  BY <1>1, Invariance, PTL

(***************************************************************************)
(* A mail is filed once (inbound.ts:58-62), and a destroyed one not again: *)
(* the two theorems above together.                                        *)
(***************************************************************************)
THEOREM FiledOnceHolds == Spec => []FiledOnce
  BY OneCopyHolds, DestroyedStaysGoneHolds, PTL DEF FiledOnce

(***************************************************************************)
(* What the queue and the sender were told of a mail is true.              *)
(***************************************************************************)
THEOREM HandledTrulyHolds == Spec => []HandledTruly
  BY AckedMeansHandledHolds, RefusedIsNotFiledHolds, PTL DEF HandledTruly
=============================================================================
