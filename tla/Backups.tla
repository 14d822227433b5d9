------------------------------ MODULE Backups ------------------------------
(***************************************************************************)
(* The backups of the database: rows of the backups table, archives in the *)
(* bucket, and the handlers that create, run, sweep, delete and restore    *)
(* them (lib/backups/, app/api/backups/).  Handlers share nothing but the  *)
(* tables and the bucket; each await of a handler is a step of its own.    *)
(*                                                                         *)
(* A job is one execution of a handler.  A backup has the number of the    *)
(* job that created it.                                                    *)
(***************************************************************************)
EXTENDS Integers

CONSTANTS
  MaxJobs,        \* bound: handler executions
  MaxDay,         \* bound: days that pass
  Schedules,      \* sets of days on which isBackupDue says yes that are considered
  Keeps,          \* values considered for retentionDays
  MaxFaults       \* bound: calls that throw, crashes, restores, and changes
                  \* of the settings

Jobs == 1..MaxJobs
Days == 0..MaxDay

ASSUME BackupsAssumption ==
  /\ MaxJobs \in Nat \ {0} /\ MaxDay \in Nat /\ MaxFaults \in Nat
  /\ Schedules \subseteq SUBSET Days
  /\ Keeps \subseteq Nat

VARIABLES
  runtime,      \* "worker" or "node"; never changes
  day,          \* today
  ticked,       \* days whose 02:00 tick has been fired, as far as is remembered
  settings,     \* the backup_settings row, in a set that is empty when it is gone
  rows,         \* the backups table
  archives,     \* backups whose archive is in the bucket
  documents,    \* backups whose archive could be downloaded at some time
  begun,        \* jobs begun so far
  pc,           \* program counter of each job
  kind,         \* what each job executes
  target,       \* the backup a job deletes, or whose document it restores
  export,       \* the tables as each run exported them
  listed,       \* rows a job is about to delete, with their r2Key as it was read
  (* history, read by no action *)
  cutOff,       \* backups whose deletion ended between archive and row
  strayed,      \* backups whose run ended between archive and row
  stuck,        \* backups whose run ended without settling their row
  wiped,        \* backups whose row was there when a restore emptied the table
  revived,      \* backups whose row came back with a restore
  faults        \* counter for the bound

tables == <<settings, rows>>
bucket == <<archives, documents>>
localVars == <<target, export, listed>>
history == <<cutOff, strayed, stuck, wiped, revived>>
vars == <<runtime, day, ticked, tables, bucket, begun, kind, pc,
          localVars, history, faults>>

NoRow == [status |-> "none", trigger |-> "none", day |-> 0, key |-> FALSE]
Rows == [status : {"queued", "running", "completed", "failed"},
         trigger : {"scheduled", "manual"}, day : Days, key : BOOLEAN] \cup {NoRow}
\* enabled and the schedule come to the days that are due; a retention that is
\* off is one of 0 days.
Settings == [due : Schedules, keep : Keeps]
Tables == [settings : SUBSET Settings, rows : [Jobs -> Rows]]
NoExport == [settings |-> {}, rows |-> [j \in Jobs |-> NoRow]]

Kinds == {"none", "scheduled", "manual", "delete", "restore"}
Resting == {"idle", "done", "failed", "crashed"}
Running == {"start", "export", "put", "complete"}
Sweeping == {"sweep", "erase", "drop"}
Restoring == {"empty", "unset", "reset", "fill"}
Steps == Resting \cup Running \cup Sweeping \cup Restoring
           \cup {"check", "look", "create", "inspect", "catch"}

Live(j) == pc[j] \notin Resting
Goto(j, step) == pc' = [pc EXCEPT ![j] = step]
Present(b) == rows[b] # NoRow
\* Inside the try block of runDatabaseBackup.
InTry(j) == pc[j] \in Running \/ (pc[j] \in Sweeping /\ export[j] # NoExport)

\* The administrator made one backup, which is deleted again or is there on the
\* last day; a run's export has its own row running.
Manual(status, key) == [status |-> status, trigger |-> "manual", day |-> day, key |-> key]

Init ==
  /\ runtime \in {"worker", "node"}
  /\ ticked = {}
  /\ \E s \in Settings : settings = {s}
  /\ \/ /\ day = 0 /\ rows = NoExport.rows /\ archives = {}
     \/ /\ day = MaxDay /\ archives = {1}
        /\ rows = [NoExport.rows EXCEPT ![1] = Manual("completed", TRUE)]
  /\ documents = archives
  /\ begun = 1
  /\ pc = [j \in Jobs |-> IF j = 1 THEN "done" ELSE "idle"]
  /\ kind = [j \in Jobs |-> IF j = 1 THEN "manual" ELSE "none"]
  /\ target = [j \in Jobs |-> 0]
  /\ export = [j \in Jobs |-> IF j # 1 \/ archives = {} THEN NoExport ELSE
       [settings |-> settings, rows |-> [NoExport.rows EXCEPT ![1] = Manual("running", FALSE)]]]
  /\ listed = [j \in Jobs |-> {}]
  /\ cutOff = {} /\ strayed = {} /\ stuck = {} /\ wiped = {} /\ revived = {}
  /\ faults = 0

-----------------------------------------------------------------------------
(***************************************************************************)
(* How jobs begin.                                                         *)
(***************************************************************************)
Fault == faults < MaxFaults /\ faults' = faults + 1

BeginJob(k, step, b) ==
  LET j == begun + 1 IN
  /\ begun < MaxJobs
  /\ begun' = j
  /\ kind' = [kind EXCEPT ![j] = k]
  /\ target' = [target EXCEPT ![j] = b]
  /\ Goto(j, step)
  /\ UNCHANGED <<runtime, day, tables, bucket, export, listed, history>>

\* The cron trigger, or the Node scheduler, which remembers the day of its last
\* tick for as long as the process lives.
Tick ==
  /\ day \notin ticked
  /\ ticked' = ticked \cup {day}
  /\ BeginJob("scheduled", "check", 0) /\ UNCHANGED faults

RunManually ==
  /\ BeginJob("manual", "create", 0)
  /\ UNCHANGED <<ticked, faults>>

RequestDelete(b) ==
  /\ Present(b)
  /\ BeginJob("delete", "inspect", b)
  /\ UNCHANGED <<ticked, faults>>

\* The administrator uploads a document downloaded from this installation.
RequestRestore(b) ==
  /\ b \in documents /\ Fault
  /\ BeginJob("restore", "empty", b)
  /\ UNCHANGED ticked

-----------------------------------------------------------------------------
(***************************************************************************)
(* How jobs end early: an error or a crash at the step they are at.        *)
(***************************************************************************)
EndsBadly(ended) ==
  /\ cutOff' = cutOff \cup {target[j] : j \in {i \in ended : pc[i] = "drop"}}
  /\ strayed' = strayed \cup {j \in ended : pc[j] = "complete"}

Ours == UNCHANGED <<runtime, day, ticked, begun, kind>>
Same == Ours /\ UNCHANGED faults

\* Mutant: the run has no catch.
ThrowUncaught(j) ==
  /\ Live(j) /\ pc[j] # "catch"
  /\ Goto(j, "failed")
  /\ EndsBadly({j})
  /\ Fault
  /\ UNCHANGED <<tables, bucket, localVars, stuck, wiped, revived>> /\ Ours

\* Any await may throw; only a run has a catch.
Throw(j) ==
  /\ Live(j) /\ pc[j] # "catch"
  /\ Goto(j, IF InTry(j) THEN "catch" ELSE "failed")
  /\ EndsBadly({j})
  /\ Fault
  /\ UNCHANGED <<tables, bucket, localVars, stuck, wiped, revived>> /\ Ours

\* Mutant: an update makes the row if there is none.
SetOrMakeRow(b, row) == rows' = [rows EXCEPT ![b] = row]

\* Updating a row that is gone is no error.
SetRow(b, row) == rows' = [rows EXCEPT ![b] = IF Present(b) THEN row ELSE @]

MarkFailed(j) ==
  /\ pc[j] = "catch"
  /\ \/ SetRow(j, [rows[j] EXCEPT !.status = "failed"]) /\ UNCHANGED <<stuck, faults>>
     \/ UNCHANGED rows /\ stuck' = stuck \cup {j} /\ Fault
  /\ Goto(j, "failed")
  /\ UNCHANGED <<settings, bucket, localVars, cutOff, strayed, wiped, revived>> /\ Ours

-----------------------------------------------------------------------------
(***************************************************************************)
(* createScheduledBackupIfDue and createBackupRecord.                      *)
(***************************************************************************)
CheckSchedule(j) ==
  /\ pc[j] = "check"
  /\ Goto(j, IF \E s \in settings : day \in s.due THEN "look" ELSE "sweep")
  /\ UNCHANGED <<tables, bucket, localVars, history>> /\ Same

TodaysWith(statuses) ==
  {b \in Jobs : rows[b].trigger = "scheduled" /\ rows[b].day = day
                  /\ rows[b].status \in statuses}

\* Mutant: a backup that is not over is not counted.
LookForCompleted(j) ==
  /\ pc[j] = "look"
  /\ Goto(j, IF TodaysWith({"completed"}) = {} THEN "create" ELSE "sweep")
  /\ UNCHANGED <<tables, bucket, localVars, history>> /\ Same

LookForToday(j) ==
  /\ pc[j] = "look"
  /\ Goto(j, IF TodaysWith({"queued", "running", "completed"}) = {}
             THEN "create" ELSE "sweep")
  /\ UNCHANGED <<tables, bucket, localVars, history>> /\ Same

CreateRecord(j) ==
  /\ pc[j] = "create"
  /\ rows' = [rows EXCEPT ![j] = [status |-> "queued", trigger |-> kind[j],
                                  day |-> day, key |-> FALSE]]
  /\ Goto(j, "start")
  /\ UNCHANGED <<settings, bucket, localVars, history>> /\ Same

(***************************************************************************)
(* runDatabaseBackup.                                                      *)
(***************************************************************************)
StartRun(j) ==
  /\ pc[j] = "start"
  /\ SetRow(j, [rows[j] EXCEPT !.status = "running"])
  /\ Goto(j, "export")
  /\ UNCHANGED <<settings, bucket, localVars, history>> /\ Same

\* Of the tables in the document only these two matter here.
ExportTables(j) ==
  /\ pc[j] = "export"
  /\ export' = [export EXCEPT ![j] = [settings |-> settings, rows |-> rows]]
  /\ Goto(j, "put")
  /\ UNCHANGED <<tables, bucket, target, listed, history>> /\ Same

\* Mutant: the archive is put without waiting for it.
PutInBackground(j) ==
  /\ pc[j] = "put"
  /\ archives' \in {archives, archives \cup {j}}
  /\ Goto(j, "complete")
  /\ UNCHANGED <<tables, documents, localVars, history>> /\ Same

PutArchive(j) ==
  /\ pc[j] = "put"
  /\ archives' = archives \cup {j}
  /\ Goto(j, "complete")
  /\ UNCHANGED <<tables, documents, localVars, history>> /\ Same

CompleteRun(j) ==
  /\ pc[j] = "complete"
  /\ SetRow(j, [rows[j] EXCEPT !.status = "completed", !.key = TRUE])
  /\ documents' = IF Present(j) THEN documents \cup {j} ELSE documents
  /\ strayed' = IF Present(j) THEN strayed ELSE strayed \cup {j}
  /\ Goto(j, "sweep")
  /\ UNCHANGED <<settings, archives, localVars, cutOff, stuck, wiped, revived>> /\ Same

-----------------------------------------------------------------------------
(***************************************************************************)
(* deleteExpiredBackups, by a run or by a tick that is not due, and        *)
(* deleteBackup, by the administrator.                                     *)
(***************************************************************************)
Entry(b) == <<b, rows[b].key>>
Settled(b) == rows[b].status \in {"completed", "failed"}
\* A row created on day d and kept n days expires in the course of day d + n.
MayExpire(b, n) == rows[b].day + n <= day
HasExpired(b, n) == rows[b].day + n < day

ListExpired(j) ==
  /\ pc[j] = "sweep"
  /\ \/ /\ \E s \in settings : \E expired \in SUBSET {b \in Jobs : Settled(b)} :
             /\ s.keep # 0
             /\ \A b \in expired : MayExpire(b, s.keep)
             /\ \A b \in Jobs \ expired : Settled(b) => ~HasExpired(b, s.keep)
             /\ listed' = [listed EXCEPT ![j] = {Entry(b) : b \in expired}]
        /\ Goto(j, "erase")
     \/ /\ \A s \in settings : s.keep = 0
        /\ Goto(j, "done")
        /\ UNCHANGED listed
  /\ UNCHANGED <<tables, bucket, target, export, history>> /\ Same

\* Mutant: a backup in progress may be deleted.
InspectNothing(j) ==
  /\ pc[j] = "inspect"
  /\ IF Present(target[j])
     THEN listed' = [listed EXCEPT ![j] = {Entry(target[j])}] /\ Goto(j, "erase")
     ELSE UNCHANGED listed /\ Goto(j, "done")
  /\ UNCHANGED <<tables, bucket, target, export, history>> /\ Same

Inspect(j) ==
  LET b == target[j] IN
  /\ pc[j] = "inspect"
  /\ IF Settled(b)
     THEN listed' = [listed EXCEPT ![j] = {Entry(b)}] /\ Goto(j, "erase")
     ELSE UNCHANGED listed /\ Goto(j, IF Present(b) THEN "failed" ELSE "done")
  /\ UNCHANGED <<tables, bucket, target, export, history>> /\ Same

\* One listed backup after the other: its archive, if its row named one, then
\* its row.
EraseArchive(j) ==
  /\ pc[j] = "erase"
  /\ \/ /\ listed[j] = {}
        /\ Goto(j, "done")
        /\ UNCHANGED <<archives, listed, target>>
     \/ \E e \in listed[j] :
          /\ archives' = IF e[2] THEN archives \ {e[1]} ELSE archives
          /\ listed' = [listed EXCEPT ![j] = @ \ {e}]
          /\ target' = [target EXCEPT ![j] = e[1]]
          /\ Goto(j, "drop")
  /\ UNCHANGED <<tables, documents, export, history>> /\ Same

DropRow(j) ==
  /\ pc[j] = "drop"
  /\ rows' = [rows EXCEPT ![target[j]] = NoRow]
  /\ Goto(j, "erase")
  /\ UNCHANGED <<settings, bucket, localVars, history>> /\ Same

-----------------------------------------------------------------------------
(***************************************************************************)
(* restoreDatabaseRecords: the tables are emptied, one statement each, and *)
(* filled again in the opposite order, while everything else goes on.      *)
(***************************************************************************)
EmptyBackups(j) ==
  /\ pc[j] = "empty"
  /\ rows' = [b \in Jobs |-> NoRow]
  /\ wiped' = wiped \cup {b \in Jobs : Present(b)}
  /\ Goto(j, "unset")
  /\ UNCHANGED <<settings, bucket, localVars, cutOff, strayed, stuck, revived>> /\ Same

EmptySettings(j) ==
  /\ pc[j] = "unset"
  /\ settings' = {}
  /\ Goto(j, "reset")
  /\ UNCHANGED <<rows, bucket, localVars, history>> /\ Same

\* Inserting a row whose id is there already throws.
FillSettings(j) ==
  LET filling == export[target[j]].settings IN
  /\ pc[j] = "reset"
  /\ filling = {} \/ settings = {}
  /\ settings' = settings \cup filling
  /\ Goto(j, "fill")
  /\ UNCHANGED <<rows, bucket, localVars, history>> /\ Same

FillBackups(j) ==
  LET filling == export[target[j]].rows
      ids == {b \in Jobs : filling[b] # NoRow}
  IN
  /\ pc[j] = "fill"
  /\ \A b \in ids : ~Present(b)
  /\ rows' = [b \in Jobs |-> IF b \in ids THEN filling[b] ELSE rows[b]]
  /\ revived' = revived \cup ids
  /\ Goto(j, "done")
  /\ UNCHANGED <<settings, bucket, localVars, cutOff, strayed, stuck, wiped>> /\ Same

Work(j) ==
  \/ CheckSchedule(j) \/ LookForToday(j) \/ CreateRecord(j)
  \/ StartRun(j) \/ ExportTables(j) \/ PutArchive(j) \/ CompleteRun(j)
  \/ ListExpired(j) \/ Inspect(j) \/ EraseArchive(j) \/ DropRow(j)
  \/ EmptyBackups(j) \/ EmptySettings(j) \/ FillSettings(j) \/ FillBackups(j)
  \/ Throw(j) \/ MarkFailed(j)

-----------------------------------------------------------------------------
(***************************************************************************)
(* Time, the administrator and crashes.                                    *)
(***************************************************************************)
\* The look-ups and the insert of the 02:00 tick are over long before midnight.
NextDay ==
  /\ day < MaxDay
  /\ \A j \in Jobs : kind[j] = "scheduled" => pc[j] \notin {"check", "look", "create"}
  /\ day' = day + 1
  /\ UNCHANGED <<runtime, ticked, tables, bucket, begun, kind, pc, localVars, history, faults>>

\* The update of a settings row that is gone does nothing.
EditSettings ==
  /\ settings # {}
  /\ \E s \in Settings \ settings : settings' = {s}
  /\ Fault
  /\ UNCHANGED <<runtime, day, ticked, rows, bucket, begun, kind, pc, localVars, history>>

\* A Worker invocation ends early, or the Node process restarts.
Crash ==
  LET live == {j \in Jobs : Live(j)} IN
  /\ Fault
  /\ \E ended \in IF runtime = "worker" THEN {{j} : j \in live} ELSE {live} :
       /\ pc' = [j \in Jobs |-> IF j \in ended THEN "crashed" ELSE pc[j]]
       /\ stuck' = stuck \cup ended
       /\ EndsBadly(ended)
  /\ ticked' = IF runtime = "node" THEN {} ELSE ticked
  /\ UNCHANGED <<runtime, day, tables, bucket, begun, kind, localVars, wiped, revived>>

Next ==
  \/ Tick \/ RunManually \/ NextDay \/ EditSettings \/ Crash
  \/ \E b \in Jobs : RequestDelete(b) \/ RequestRestore(b)
  \/ \E j \in Jobs : Work(j)

\* A handler that began goes on.
Fairness == WF_vars(\E j \in Jobs : Work(j))

Spec == Init /\ [][Next]_vars
FairSpec == Spec /\ Fairness

-----------------------------------------------------------------------------
(***************************************************************************)
(* Properties                                                              *)
(***************************************************************************)
TypeOK ==
  /\ runtime \in {"worker", "node"}
  /\ day \in Days /\ ticked \subseteq Days
  /\ settings \subseteq Settings
  /\ rows \in [Jobs -> Rows]
  /\ archives \subseteq Jobs /\ documents \subseteq Jobs
  /\ begun \in 0..MaxJobs
  /\ kind \in [Jobs -> Kinds]
  /\ pc \in [Jobs -> Steps]
  /\ target \in [Jobs -> 0..MaxJobs]
  /\ export \in [Jobs -> Tables]
  /\ listed \in [Jobs -> SUBSET (Jobs \X BOOLEAN)]
  /\ cutOff \subseteq Jobs /\ strayed \subseteq Jobs /\ stuck \subseteq Jobs
  /\ wiped \subseteq Jobs /\ revived \subseteq Jobs
  /\ faults \in 0..MaxFaults

BeingDropped(b) == \E j \in Jobs : pc[j] = "drop" /\ target[j] = b

(***************************************************************************)
(* Rows and archives belong together.  A backup shown as completed can be  *)
(* downloaded: its archive is there, unless it is being deleted, its       *)
(* deletion was cut off between archive and row (service.ts:81-82,         *)
(* runner.ts:71-72), or a restore brought back a row whose archive had     *)
(* been deleted since.  And nothing is left in the bucket that no row      *)
(* names: an archive without a row that has its key belongs to a run that  *)
(* is about to record it, was kept from it, or lost its row to a restore.  *)
(***************************************************************************)
CompletedHasArchive ==
  \A b \in Jobs : rows[b].status = "completed" =>
    b \in archives \/ BeingDropped(b) \/ b \in cutOff \cup revived
ArchivesAreNamed ==
  \A b \in archives :
    rows[b].key \/ pc[b] = "complete" \/ b \in strayed \cup wiped \cup revived
ArchivesMatch == CompletedHasArchive /\ ArchivesAreNamed

(***************************************************************************)
(* One scheduled backup a day (service.ts:42-54), however often the        *)
(* scheduler ticks after restarts: a second one only once the first has    *)
(* failed.                                                                 *)
(***************************************************************************)
OneScheduledADay ==
  \A a, b \in Jobs \ (wiped \cup revived) :
    /\ a # b /\ rows[a].trigger = "scheduled" /\ rows[b].trigger = "scheduled"
    /\ rows[a].day = rows[b].day
    => rows[a].status = "failed" \/ rows[b].status = "failed"

(***************************************************************************)
(* A backup in progress is not deleted, by a sweep or by hand, although    *)
(* its status is read long before its row goes: only a restore takes it.   *)
(***************************************************************************)
InProgressIsKept ==
  [][\A b \in Jobs \ revived :
       rows[b].status \in {"queued", "running"} /\ rows'[b] = NoRow => b \in wiped']_vars

(***************************************************************************)
(* A backup in progress is completed or fails in the end, unless its run   *)
(* was cut off, could not say that it failed, or a restore touched it.     *)
(***************************************************************************)
RunsSettle ==
  \A b \in Jobs : rows[b].status \in {"queued", "running"} ~>
    rows[b].status \notin {"queued", "running"} \/ b \in stuck \cup revived
=============================================================================
