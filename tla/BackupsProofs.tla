---------------------------- MODULE BackupsProofs ----------------------------
(***************************************************************************)
(* What is proved of Backups, for every value of the bounds, every set of  *)
(* schedules and of retentions.                                            *)
(***************************************************************************)
EXTENDS Backups, TLAPS

-----------------------------------------------------------------------------
(***************************************************************************)
(* The inductive invariant.                                                *)
(***************************************************************************)
\* A run that will not write its row any more, other than to say that it failed.
Early == {"idle", "check", "look", "create", "start", "export", "put", "complete"}
Over(b) == pc[b] \notin Early
Excused(b) == b \in strayed \cup wiped \cup revived

\* What a job does where it is.
PlaceAt(j) ==
  /\ pc[j] = "idle" <=> j > begun
  /\ pc[j] \in {"check", "look"} => kind[j] = "scheduled"
  /\ pc[j] = "create" => kind[j] \in {"scheduled", "manual"}
  /\ pc[j] \in Restoring \cup {"drop", "inspect"} => target[j] \in Jobs
PlaceInv == \A j \in Jobs : PlaceAt(j)

\* A row is settled by its run, at the end, unless a restore brought it back.
RecordAt(b) ==
  /\ Settled(b) \/ rows[b].key => Over(b) \/ b \in revived
  /\ rows[b].status = "completed" => rows[b].key \/ b \in revived
  /\ pc[b] = "complete" => b \in archives \cup revived
RecordInv == \A b \in Jobs : RecordAt(b)

\* What was listed to be deleted stays settled for as long as it takes.
Deletable(b) == (Over(b) /\ rows[b].status \notin {"queued", "running"}) \/ b \in revived
ListAt(j) ==
  /\ \A e \in listed[j] : /\ Deletable(e[1])
                          /\ ~e[2] /\ e[1] \in archives => Excused(e[1])
  /\ pc[j] = "drop" => /\ Deletable(target[j])
                       /\ target[j] \in archives => Excused(target[j])
ListInv == \A j \in Jobs : ListAt(j)

\* At most one job of a day is about to decide on the scheduled backup, and what it
\* has seen of the table holds until it has written its row.
Choosing(j) == kind[j] = "scheduled" /\ pc[j] \in {"check", "look", "create"}
Scheduled(b, d) == rows[b].trigger = "scheduled" /\ rows[b].day = d
TickInv ==
  /\ \A i, j \in Jobs : Choosing(i) /\ Choosing(j) => i = j
  /\ \A j \in Jobs : Choosing(j) => day \in ticked
  /\ \A j \in Jobs : Choosing(j) /\ pc[j] = "create" =>
       \A b \in Jobs \ (wiped \cup revived) : Scheduled(b, day) => rows[b].status = "failed"

IInv == /\ TypeOK /\ PlaceInv /\ RecordInv /\ ListInv /\ TickInv
        /\ ArchivesMatch /\ OneScheduledADay

-----------------------------------------------------------------------------
(***************************************************************************)
(* Type correctness.                                                       *)
(***************************************************************************)
FullRows == [status : {"queued", "running", "completed", "failed"},
             trigger : {"scheduled", "manual"}, day : Days, key : BOOLEAN]

LEMMA Bounds ==
  /\ MaxJobs \in Nat /\ MaxDay \in Nat /\ MaxFaults \in Nat
  /\ 1 \in Jobs /\ 0 \in Days /\ MaxDay \in Days /\ Days \subseteq Int /\ Jobs \subseteq Int
BY BackupsAssumption DEF Days, Jobs

LEMMA RowTypes ==
  /\ Rows = FullRows \cup {NoRow}
  /\ NoRow \notin FullRows
  /\ \A row \in FullRows :
       /\ row.status \in {"queued", "running", "completed", "failed"}
       /\ row.trigger \in {"scheduled", "manual"} /\ row.day \in Days /\ row.key \in BOOLEAN
<1>1. Rows = FullRows \cup {NoRow}
  BY DEF Rows, FullRows
<1>2. \A row \in FullRows :
       /\ row.status \in {"queued", "running", "completed", "failed"}
       /\ row.trigger \in {"scheduled", "manual"} /\ row.day \in Days /\ row.key \in BOOLEAN
  BY DEF FullRows
<1>3. NoRow \notin FullRows
  BY <1>2 DEF NoRow
<1> QED
  BY <1>1, <1>2, <1>3

LEMMA NoRowIs ==
  /\ NoRow.status = "none" /\ NoRow.trigger = "none" /\ NoRow.key = FALSE /\ NoRow.day = 0
BY DEF NoRow

\* What runs write into their rows.
LEMMA RowUpdates ==
  ASSUME NEW row \in FullRows
  PROVE  /\ \A s \in {"running", "failed"} :
              /\ [row EXCEPT !.status = s] \in FullRows
              /\ [row EXCEPT !.status = s].status = s
              /\ [row EXCEPT !.status = s].trigger = row.trigger
              /\ [row EXCEPT !.status = s].day = row.day
              /\ [row EXCEPT !.status = s].key = row.key
         /\ [row EXCEPT !.status = "completed", !.key = TRUE] \in FullRows
         /\ [row EXCEPT !.status = "completed", !.key = TRUE].status = "completed"
         /\ [row EXCEPT !.status = "completed", !.key = TRUE].trigger = row.trigger
         /\ [row EXCEPT !.status = "completed", !.key = TRUE].day = row.day
         /\ [row EXCEPT !.status = "completed", !.key = TRUE].key = TRUE
BY DEF FullRows

LEMMA SetRowType ==
  ASSUME TypeOK, NEW j \in Jobs, NEW row, Present(j) => row \in FullRows, SetRow(j, row)
  PROVE  rows' \in [Jobs -> Rows]
BY RowTypes DEF TypeOK, SetRow, Present

LEMMA InitType == Init => TypeOK
<1> SUFFICES ASSUME Init PROVE TypeOK
  OBVIOUS
<1>0. Days \subseteq Int /\ MaxJobs \in Nat /\ 1 \in Jobs /\ day \in Days
  BY Bounds DEF Init
<1>1. \A status \in {"completed", "running"}, key \in BOOLEAN : Manual(status, key) \in FullRows
  BY <1>0 DEF Manual, FullRows
<1>2. NoExport.rows \in [Jobs -> Rows] /\ NoExport.settings = {} /\ NoExport \in Tables
  BY RowTypes DEF NoExport, Tables
<1>3. rows \in [Jobs -> Rows] /\ archives \subseteq Jobs
  BY <1>0, <1>1, <1>2, RowTypes DEF Init
<1>4. settings \subseteq Settings
  BY DEF Init, Settings
<1>5. [settings |-> settings, rows |-> [NoExport.rows EXCEPT ![1] = Manual("running", FALSE)]]
        \in Tables
  BY <1>0, <1>1, <1>2, <1>4, RowTypes DEF Tables
<1>6. export \in [Jobs -> Tables]
  BY <1>2, <1>5 DEF Init
<1>7. pc \in [Jobs -> Steps] /\ kind \in [Jobs -> Kinds]
  BY DEF Init, Kinds, Steps, Resting
<1>8. target \in [Jobs -> 0..MaxJobs] /\ listed \in [Jobs -> SUBSET (Jobs \X BOOLEAN)]
  BY <1>0 DEF Init
<1>9. begun \in 0..MaxJobs /\ faults \in 0..MaxFaults
  BY Bounds DEF Init, Jobs
<1> QED
  BY <1>0, <1>3, <1>4, <1>6, <1>7, <1>8, <1>9 DEF Init, TypeOK

\* The type of everything but rows, archives and exports, action by action.
LEMMA StepNames ==
  /\ Steps = {"idle", "done", "failed", "crashed", "start", "export", "put", "complete",
              "sweep", "erase", "drop", "empty", "unset", "reset", "fill",
              "check", "look", "create", "inspect", "catch"}
  /\ Kinds = {"none", "scheduled", "manual", "delete", "restore"}
BY DEF Steps, Kinds, Resting, Running, Sweeping, Restoring

LEMMA GotoType ==
  ASSUME TypeOK, NEW j \in Jobs, NEW step \in Steps, Goto(j, step)
  PROVE  /\ pc' \in [Jobs -> Steps]
         /\ pc'[j] = step
         /\ \A i \in Jobs \ {j} : pc'[i] = pc[i]
BY DEF TypeOK, Goto

LEMMA EntryType ==
  ASSUME TypeOK, NEW b \in Jobs
  PROVE  Entry(b) \in Jobs \X BOOLEAN /\ Entry(b)[1] = b /\ Entry(b)[2] = rows[b].key
<1>1. rows[b].key \in BOOLEAN
  BY RowTypes, NoRowIs DEF TypeOK
<1> QED
  BY <1>1 DEF Entry

\* The names of the places a step is taken to.
LEMMA WorkMoves ==
  ASSUME TypeOK, NEW j \in Jobs, Work(j)
  PROVE  \E step \in Steps : Goto(j, step)
<1>1. ASSUME CheckSchedule(j) PROVE \E step \in Steps : Goto(j, step)
  BY <1>1, StepNames DEF CheckSchedule
<1>2. ASSUME LookForToday(j) PROVE \E step \in Steps : Goto(j, step)
  BY <1>2, StepNames DEF LookForToday
<1>3. ASSUME CreateRecord(j) PROVE \E step \in Steps : Goto(j, step)
  BY <1>3, StepNames DEF CreateRecord
<1>4. ASSUME StartRun(j) PROVE \E step \in Steps : Goto(j, step)
  BY <1>4, StepNames DEF StartRun
<1>5. ASSUME ExportTables(j) PROVE \E step \in Steps : Goto(j, step)
  BY <1>5, StepNames DEF ExportTables
<1>6. ASSUME PutArchive(j) PROVE \E step \in Steps : Goto(j, step)
  BY <1>6, StepNames DEF PutArchive
<1>7. ASSUME CompleteRun(j) PROVE \E step \in Steps : Goto(j, step)
  BY <1>7, StepNames DEF CompleteRun
<1>8. ASSUME ListExpired(j) PROVE \E step \in Steps : Goto(j, step)
  BY <1>8, StepNames DEF ListExpired
<1>9. ASSUME Inspect(j) PROVE \E step \in Steps : Goto(j, step)
  BY <1>9, StepNames DEF Inspect
<1>10. ASSUME EraseArchive(j) PROVE \E step \in Steps : Goto(j, step)
  BY <1>10, StepNames DEF EraseArchive
<1>11. ASSUME DropRow(j) PROVE \E step \in Steps : Goto(j, step)
  BY <1>11, StepNames DEF DropRow
<1>12. ASSUME EmptyBackups(j) PROVE \E step \in Steps : Goto(j, step)
  BY <1>12, StepNames DEF EmptyBackups
<1>13. ASSUME EmptySettings(j) PROVE \E step \in Steps : Goto(j, step)
  BY <1>13, StepNames DEF EmptySettings
<1>14. ASSUME FillSettings(j) PROVE \E step \in Steps : Goto(j, step)
  BY <1>14, StepNames DEF FillSettings
<1>15. ASSUME FillBackups(j) PROVE \E step \in Steps : Goto(j, step)
  BY <1>15, StepNames DEF FillBackups
<1>16. ASSUME Throw(j) PROVE \E step \in Steps : Goto(j, step)
  BY <1>16, StepNames DEF Throw
<1>17. ASSUME MarkFailed(j) PROVE \E step \in Steps : Goto(j, step)
  BY <1>17, StepNames DEF MarkFailed
<1> QED
  BY <1>1, <1>2, <1>3, <1>4, <1>5, <1>6, <1>7, <1>8, <1>9, <1>10, <1>11, <1>12, <1>13, <1>14,
     <1>15, <1>16, <1>17 DEF Work

LEMMA WorkRows ==
  ASSUME TypeOK, PlaceInv, NEW j \in Jobs, Work(j)
  PROVE  rows' \in [Jobs -> Rows]
<1>0. /\ rows \in [Jobs -> Rows] /\ day \in Days /\ target[j] \in 0..MaxJobs
      /\ \A b \in Jobs : Present(b) => rows[b] \in FullRows
  BY RowTypes DEF TypeOK, Present
<1>1. ASSUME CreateRecord(j) PROVE rows' \in [Jobs -> Rows]
  <2>1. kind[j] \in {"scheduled", "manual"}
    BY <1>1 DEF CreateRecord, PlaceInv, PlaceAt
  <2>2. [status |-> "queued", trigger |-> kind[j], day |-> day, key |-> FALSE] \in Rows
    BY <1>0, <2>1 DEF Rows
  <2> QED
    BY <1>0, <1>1, <2>2 DEF CreateRecord
<1>2. ASSUME StartRun(j) PROVE rows' \in [Jobs -> Rows]
  <2>1. Present(j) => [rows[j] EXCEPT !.status = "running"] \in FullRows
    BY <1>0, RowUpdates
  <2> QED
    BY <1>2, <2>1, SetRowType DEF StartRun
<1>3. ASSUME CompleteRun(j) PROVE rows' \in [Jobs -> Rows]
  <2>1. Present(j) => [rows[j] EXCEPT !.status = "completed", !.key = TRUE] \in FullRows
    BY <1>0, RowUpdates
  <2> QED
    BY <1>3, <2>1, SetRowType DEF CompleteRun
<1>4. ASSUME MarkFailed(j) PROVE rows' \in [Jobs -> Rows]
  <2>1. Present(j) => [rows[j] EXCEPT !.status = "failed"] \in FullRows
    BY <1>0, RowUpdates
  <2>2. CASE SetRow(j, [rows[j] EXCEPT !.status = "failed"])
    BY <2>1, <2>2, SetRowType
  <2>3. CASE UNCHANGED rows
    BY <1>0, <2>3
  <2> QED
    BY <1>4, <2>2, <2>3 DEF MarkFailed
<1>5. ASSUME DropRow(j) \/ EmptyBackups(j) PROVE rows' \in [Jobs -> Rows]
  BY <1>0, <1>5, RowTypes DEF DropRow, EmptyBackups
<1>6. ASSUME FillBackups(j) PROVE rows' \in [Jobs -> Rows]
  <2>1. target[j] \in Jobs
    BY <1>6 DEF FillBackups, PlaceInv, PlaceAt, Restoring
  <2>2. export[target[j]].rows \in [Jobs -> Rows]
    BY <2>1 DEF TypeOK, Tables
  <2> QED
    BY <1>0, <1>6, <2>2 DEF FillBackups
<1>7. ASSUME \/ CheckSchedule(j) \/ LookForToday(j) \/ ExportTables(j) \/ PutArchive(j)
             \/ ListExpired(j) \/ Inspect(j) \/ EraseArchive(j) \/ EmptySettings(j)
             \/ FillSettings(j) \/ Throw(j)
      PROVE  rows' \in [Jobs -> Rows]
  BY <1>0, <1>7 DEF CheckSchedule, LookForToday, ExportTables, PutArchive, ListExpired, Inspect,
     EraseArchive, EmptySettings, FillSettings, Throw, tables
<1> QED
  BY <1>1, <1>2, <1>3, <1>4, <1>5, <1>6, <1>7 DEF Work


LEMMA WorkKeeps ==
  ASSUME TypeOK, NEW j \in Jobs, Work(j)
  PROVE  /\ UNCHANGED <<runtime, day, ticked, begun, kind>>
         /\ faults' \in 0..MaxFaults
<1>1. UNCHANGED <<runtime, day, ticked, begun, kind>>
  BY DEF Work, CheckSchedule, LookForToday, CreateRecord, StartRun, ExportTables, PutArchive,
     CompleteRun,
     ListExpired, Inspect, EraseArchive, DropRow, EmptyBackups, EmptySettings, FillSettings,
     FillBackups, Throw, MarkFailed, tables, bucket, localVars, history, Ours, Same, Fault
<1>2. faults' = faults \/ (faults < MaxFaults /\ faults' = faults + 1)
  BY DEF Work, CheckSchedule, LookForToday, CreateRecord, StartRun, ExportTables, PutArchive,
     CompleteRun,
     ListExpired, Inspect, EraseArchive, DropRow, EmptyBackups, EmptySettings, FillSettings,
     FillBackups, Throw, MarkFailed, tables, bucket, localVars, history, Ours, Same, Fault
<1> QED
  BY <1>1, <1>2, Bounds DEF TypeOK

LEMMA WorkSettings ==
  ASSUME TypeOK, PlaceInv, NEW j \in Jobs, Work(j)
  PROVE  settings' \subseteq Settings
<1>0. settings \subseteq Settings
  BY DEF TypeOK
<1>1. ASSUME FillSettings(j) PROVE settings' \subseteq Settings
  <2>1. target[j] \in Jobs
    BY <1>1 DEF FillSettings, PlaceInv, PlaceAt, Restoring
  <2>2. export[target[j]].settings \subseteq Settings
    BY <2>1 DEF TypeOK, Tables
  <2> QED
    BY <1>0, <1>1, <2>2 DEF FillSettings
<1>2. ASSUME ~FillSettings(j) PROVE settings' = settings \/ settings' = {}
  BY <1>2 DEF Work, CheckSchedule, LookForToday, CreateRecord, StartRun, ExportTables,
     PutArchive, CompleteRun,
     ListExpired, Inspect, EraseArchive, DropRow, EmptyBackups, EmptySettings, FillSettings,
     FillBackups, Throw, MarkFailed, tables, bucket, localVars, history, Ours, Same, Fault
<1> QED
  BY <1>0, <1>1, <1>2

LEMMA WorkBucket ==
  ASSUME TypeOK, NEW j \in Jobs, Work(j)
  PROVE  archives' \subseteq Jobs /\ documents' \subseteq Jobs
<1>0. archives \subseteq Jobs /\ documents \subseteq Jobs
  BY DEF TypeOK
<1>1. documents' = documents \/ documents' = documents \cup {j}
  BY DEF Work, CheckSchedule, LookForToday, CreateRecord, StartRun, ExportTables, PutArchive,
     CompleteRun,
     ListExpired, Inspect, EraseArchive, DropRow, EmptyBackups, EmptySettings, FillSettings,
     FillBackups, Throw, MarkFailed, tables, bucket, localVars, history, Ours, Same, Fault
<1>2. archives' \subseteq archives \cup {j}
  BY DEF Work, CheckSchedule, LookForToday, CreateRecord, StartRun, ExportTables, PutArchive,
     CompleteRun,
     ListExpired, Inspect, EraseArchive, DropRow, EmptyBackups, EmptySettings, FillSettings,
     FillBackups, Throw, MarkFailed, tables, bucket, localVars, history, Ours, Same, Fault
<1> QED
  BY <1>0, <1>1, <1>2

LEMMA WorkHistory ==
  ASSUME TypeOK, PlaceInv, NEW j \in Jobs, Work(j)
  PROVE  /\ cutOff' \subseteq Jobs /\ strayed' \subseteq Jobs /\ stuck' \subseteq Jobs
         /\ wiped' \subseteq Jobs /\ revived' \subseteq Jobs
<1>0. /\ cutOff \subseteq Jobs /\ strayed \subseteq Jobs /\ stuck \subseteq Jobs
      /\ wiped \subseteq Jobs /\ revived \subseteq Jobs
      /\ pc[j] = "drop" => target[j] \in Jobs
  BY DEF TypeOK, PlaceInv, PlaceAt
<1>1. /\ cutOff' \subseteq cutOff \cup Jobs /\ strayed' \subseteq strayed \cup {j}
      /\ stuck' \subseteq stuck \cup {j}
  <2>1. ASSUME Throw(j)
        PROVE  /\ cutOff' \subseteq cutOff \cup Jobs /\ strayed' \subseteq strayed \cup {j}
               /\ stuck' \subseteq stuck \cup {j}
    BY <1>0, <2>1 DEF Throw, EndsBadly
  <2> QED
    BY <2>1 DEF Work, CheckSchedule, LookForToday, CreateRecord, StartRun, ExportTables,
       PutArchive, CompleteRun, ListExpired, Inspect, EraseArchive, DropRow, EmptyBackups,
       EmptySettings, FillSettings, FillBackups, MarkFailed, history
<1>2. wiped' \subseteq wiped \cup Jobs /\ revived' \subseteq revived \cup Jobs
  BY DEF Work, CheckSchedule, LookForToday, CreateRecord, StartRun, ExportTables, PutArchive,
     CompleteRun,
     ListExpired, Inspect, EraseArchive, DropRow, EmptyBackups, EmptySettings, FillSettings,
     FillBackups, Throw, MarkFailed, tables, bucket, localVars, history, Ours, Same, Fault
<1> QED
  BY <1>0, <1>1, <1>2

LEMMA WorkLocals ==
  ASSUME TypeOK, PlaceInv, NEW j \in Jobs, Work(j)
  PROVE  /\ target' \in [Jobs -> 0..MaxJobs]
         /\ export' \in [Jobs -> Tables]
         /\ listed' \in [Jobs -> SUBSET (Jobs \X BOOLEAN)]
<1>0. /\ target \in [Jobs -> 0..MaxJobs] /\ export \in [Jobs -> Tables]
      /\ listed \in [Jobs -> SUBSET (Jobs \X BOOLEAN)]
      /\ Jobs \subseteq 0..MaxJobs /\ [settings |-> settings, rows |-> rows] \in Tables
  BY Bounds DEF TypeOK, Jobs, Tables
<1>1. target' = target \/ \E b \in Jobs : target' = [target EXCEPT ![j] = b]
  <2>1. ASSUME EraseArchive(j)
        PROVE  target' = target \/ \E b \in Jobs : target' = [target EXCEPT ![j] = b]
    <3>1. \A e \in listed[j] : e[1] \in Jobs
      <4>1. listed[j] \subseteq Jobs \X BOOLEAN
        BY <1>0
      <4> QED
        BY <4>1
    <3> QED
      BY <2>1, <3>1 DEF EraseArchive
  <2> QED
    BY <2>1 DEF Work, CheckSchedule, LookForToday, CreateRecord, StartRun, ExportTables,
       PutArchive, CompleteRun,
     ListExpired, Inspect, EraseArchive, DropRow, EmptyBackups, EmptySettings, FillSettings,
     FillBackups, Throw, MarkFailed, tables, bucket, localVars, history, Ours, Same, Fault
<1>2. export' = export \/ export' = [export EXCEPT ![j] = [settings |-> settings, rows |-> rows]]
  BY DEF Work, CheckSchedule, LookForToday, CreateRecord, StartRun, ExportTables, PutArchive,
     CompleteRun,
     ListExpired, Inspect, EraseArchive, DropRow, EmptyBackups, EmptySettings, FillSettings,
     FillBackups, Throw, MarkFailed, tables, bucket, localVars, history, Ours, Same, Fault
<1>3. listed' = listed \/ \E s \in SUBSET (Jobs \X BOOLEAN) : listed' = [listed EXCEPT ![j] = s]
  <2>1. ASSUME EraseArchive(j)
        PROVE  listed' = listed \/ \E s \in SUBSET (Jobs \X BOOLEAN) :
                                     listed' = [listed EXCEPT ![j] = s]
    <3>1. \A e : listed[j] \ {e} \subseteq Jobs \X BOOLEAN
      BY <1>0
    <3> QED
      BY <1>0, <2>1, <3>1 DEF EraseArchive, localVars
  <2>2. ASSUME ListExpired(j)
        PROVE  listed' = listed \/ \E s \in SUBSET (Jobs \X BOOLEAN) :
                                     listed' = [listed EXCEPT ![j] = s]
    <3>1. \A expired \in SUBSET Jobs : {Entry(b) : b \in expired} \subseteq Jobs \X BOOLEAN
      BY EntryType
    <3>2. CASE UNCHANGED listed
      BY <3>2
    <3>3. CASE \E expired \in SUBSET {b \in Jobs : Settled(b)} :
                 listed' = [listed EXCEPT ![j] = {Entry(b) : b \in expired}]
      BY <3>1, <3>3
    <3> QED
      BY <2>2, <3>2, <3>3 DEF ListExpired
  <2>3. ASSUME Inspect(j)
        PROVE  listed' = listed \/ \E s \in SUBSET (Jobs \X BOOLEAN) :
                                     listed' = [listed EXCEPT ![j] = s]
    <3>1. target[j] \in Jobs
      BY <2>3 DEF Inspect, PlaceInv, PlaceAt
    <3>2. {Entry(target[j])} \subseteq Jobs \X BOOLEAN
      BY <3>1, EntryType
    <3> QED
      BY <2>3, <3>2 DEF Inspect
  <2> QED
    BY <2>1, <2>2, <2>3 DEF Work, CheckSchedule, LookForToday, CreateRecord, StartRun,
       ExportTables, PutArchive, CompleteRun,
     ListExpired, Inspect, EraseArchive, DropRow, EmptyBackups, EmptySettings, FillSettings,
     FillBackups, Throw, MarkFailed, tables, bucket, localVars, history, Ours, Same, Fault
<1> QED
  BY <1>0, <1>1, <1>2, <1>3

LEMMA WorkType ==
  ASSUME TypeOK, PlaceInv, NEW j \in Jobs, Work(j)
  PROVE  TypeOK'
<1>1. pc' \in [Jobs -> Steps]
  BY WorkMoves, GotoType
<1>2. rows' \in [Jobs -> Rows]
  BY WorkRows
<1>3. UNCHANGED <<runtime, day, ticked, begun, kind>> /\ faults' \in 0..MaxFaults
  BY WorkKeeps
<1>4. settings' \subseteq Settings /\ archives' \subseteq Jobs /\ documents' \subseteq Jobs
  BY WorkSettings, WorkBucket
<1>5. /\ cutOff' \subseteq Jobs /\ strayed' \subseteq Jobs /\ stuck' \subseteq Jobs
      /\ wiped' \subseteq Jobs /\ revived' \subseteq Jobs
  BY WorkHistory
<1>6. /\ target' \in [Jobs -> 0..MaxJobs] /\ export' \in [Jobs -> Tables]
      /\ listed' \in [Jobs -> SUBSET (Jobs \X BOOLEAN)]
  BY WorkLocals
<1> QED
  BY <1>1, <1>2, <1>3, <1>4, <1>5, <1>6 DEF TypeOK

\* A job that begins does so where nothing has been done yet.
Beginning(j, k, step, b) ==
  /\ j = begun + 1 /\ j \in Jobs
  /\ begun' = j
  /\ kind' = [kind EXCEPT ![j] = k]
  /\ target' = [target EXCEPT ![j] = b]
  /\ pc' = [pc EXCEPT ![j] = step]
  /\ UNCHANGED <<runtime, day, settings, rows, archives, documents, export, listed,
                 cutOff, strayed, stuck, wiped, revived>>
Begins(j) ==
  \/ day \notin ticked /\ ticked' = ticked \cup {day} /\ Beginning(j, "scheduled", "check", 0)
  \/ UNCHANGED ticked /\ Beginning(j, "manual", "create", 0)
  \/ UNCHANGED ticked /\ \E b \in Jobs : Beginning(j, "delete", "inspect", b)
  \/ UNCHANGED ticked /\ \E b \in Jobs : Beginning(j, "restore", "empty", b)

LEMMA JobsBegin ==
  ASSUME TypeOK,
         Tick \/ RunManually \/ \E b \in Jobs : RequestDelete(b) \/ RequestRestore(b)
  PROVE  (\E j \in Jobs : Begins(j)) /\ faults' \in 0..MaxFaults
<1>1. ASSUME NEW k, NEW step, NEW b, BeginJob(k, step, b)
      PROVE  Beginning(begun + 1, k, step, b)
  <2>1. begun + 1 \in Jobs
    BY <1>1, Bounds DEF TypeOK, BeginJob, Jobs
  <2> QED
    BY <1>1, <2>1 DEF BeginJob, Beginning, Goto, tables, bucket, history
<1>2. begun + 1 \in Jobs
  BY Bounds DEF TypeOK, BeginJob, Jobs, Tick, RunManually, RequestDelete, RequestRestore
<1>3. Begins(begun + 1)
  BY <1>1 DEF Begins, Tick, RunManually, RequestDelete, RequestRestore
<1>4. faults' \in 0..MaxFaults
  BY Bounds DEF TypeOK, Tick, RunManually, RequestDelete, RequestRestore, Fault
<1> QED
  BY <1>2, <1>3, <1>4

LEMMA BeginsType ==
  ASSUME TypeOK, NEW j \in Jobs, Begins(j), faults' \in 0..MaxFaults
  PROVE  TypeOK'
<1>1. PICK k \in Kinds, step \in Steps, b \in Jobs \cup {0} : Beginning(j, k, step, b)
  BY StepNames DEF Begins
<1>2. ticked' \subseteq Days
  BY DEF Begins, TypeOK
<1>3. Jobs \subseteq 0..MaxJobs /\ 0 \in 0..MaxJobs
  BY Bounds DEF Jobs
<1>4. /\ begun' \in 0..MaxJobs /\ kind' \in [Jobs -> Kinds] /\ pc' \in [Jobs -> Steps]
      /\ target' \in [Jobs -> 0..MaxJobs]
  BY <1>1, <1>3 DEF Beginning, TypeOK
<1> QED
  BY <1>1, <1>2, <1>4 DEF Beginning, TypeOK

LEMMA TypeStep ==
  ASSUME TypeOK, PlaceInv, [Next]_vars
  PROVE  TypeOK'
<1>1. ASSUME NEW j \in Jobs, Work(j) PROVE TypeOK'
  BY <1>1, WorkType
<1>2. ASSUME Tick \/ RunManually \/ \E b \in Jobs : RequestDelete(b) \/ RequestRestore(b)
      PROVE  TypeOK'
  BY <1>2, JobsBegin, BeginsType
<1>3. ASSUME NextDay PROVE TypeOK'
  <2>1. day' \in Days
    BY <1>3, Bounds DEF NextDay, TypeOK, Days
  <2> QED
    BY <1>3, <2>1 DEF NextDay, TypeOK, tables, bucket, localVars, history
<1>4. ASSUME EditSettings PROVE TypeOK'
  <2>1. faults' \in 0..MaxFaults
    BY <1>4, Bounds DEF EditSettings, Fault, TypeOK
  <2> QED
    BY <1>4, <2>1 DEF EditSettings, TypeOK, bucket, localVars, history
<1>5. ASSUME Crash PROVE TypeOK'
  <2>1. faults' \in 0..MaxFaults
    BY <1>5, Bounds DEF Crash, Fault, TypeOK
  <2>2. PICK ended \in SUBSET {j \in Jobs : Live(j)} :
          /\ pc' = [j \in Jobs |-> IF j \in ended THEN "crashed" ELSE pc[j]]
          /\ stuck' = stuck \cup ended
          /\ EndsBadly(ended)
    BY <1>5 DEF Crash
  <2>3. pc' \in [Jobs -> Steps]
    BY <2>2, StepNames DEF TypeOK
  <2>4. cutOff' \subseteq Jobs
    BY <2>2 DEF EndsBadly, PlaceInv, PlaceAt, TypeOK
  <2>5. strayed' \subseteq Jobs /\ stuck' \subseteq Jobs /\ ticked' \subseteq Days
    BY <1>5, <2>2 DEF EndsBadly, Crash, TypeOK
  <2>6. UNCHANGED <<runtime, day, settings, rows, archives, documents, begun, kind,
                    target, export, listed, wiped, revived>>
    BY <1>5 DEF Crash, tables, bucket, localVars
  <2> QED
    BY <2>1, <2>3, <2>4, <2>5, <2>6 DEF TypeOK
<1>6. ASSUME UNCHANGED vars PROVE TypeOK'
  BY <1>6 DEF vars, tables, bucket, localVars, history, TypeOK
<1> QED
  BY <1>1, <1>2, <1>3, <1>4, <1>5, <1>6 DEF Next

-----------------------------------------------------------------------------
(***************************************************************************)
(* What one step can do to a row, to an archive, to a list of rows to      *)
(* delete, and to a job.                                                   *)
(***************************************************************************)
Updated(b, status, key) ==
  /\ rows'[b].status = status /\ rows'[b].key = key
  /\ rows'[b].trigger = rows[b].trigger /\ rows'[b].day = rows[b].day

RowStep(b) ==
  \/ rows'[b] = rows[b]
  \/ rows'[b] = NoRow /\ (rows[b] = NoRow \/ b \in wiped')
  \/ rows'[b] = NoRow /\ \E j \in Jobs : pc[j] = "drop" /\ target[j] = b
  \/ rows'[b] # NoRow /\ b \in revived'
  \/ /\ pc[b] = "create" /\ pc'[b] = "start"
     /\ rows'[b] = [status |-> "queued", trigger |-> kind[b], day |-> day, key |-> FALSE]
  \/ pc[b] = "start" /\ Updated(b, "running", rows[b].key)
  \/ pc[b] = "complete" /\ pc'[b] = "sweep" /\ Updated(b, "completed", TRUE)
  \/ pc[b] = "catch" /\ Updated(b, "failed", rows[b].key)

ArchiveStep(b) ==
  /\ b \in archives' => b \in archives \/ (pc[b] = "put" /\ pc'[b] = "complete")
  /\ b \in archives =>
       b \in archives' \/ \E j \in Jobs : /\ pc'[j] = "drop" /\ target'[j] = b
                                          /\ <<b, TRUE>> \in listed[j]

ListStep(i) ==
  \A e \in listed'[i] :
    e \in listed[i] \/ (Settled(e[1]) /\ e[2] = rows[e[1]].key /\ UNCHANGED <<rows, archives>>)

JobStep(i) ==
  /\ Over(i) => Over(i)'
  /\ pc'[i] = "complete" => pc[i] = "complete" \/ (pc[i] = "put" /\ i \in archives')
  /\ pc[i] = "complete" =>
       pc'[i] = "complete" \/ i \in strayed' \/ rows'[i].key
  /\ pc'[i] = "drop" =>
       \/ pc[i] = "drop" /\ target'[i] = target[i]
       \/ \E e \in listed[i] : target'[i] = e[1] /\ (e[2] => e[1] \notin archives')
  /\ pc[i] = "drop" =>
       \/ pc'[i] = "drop" /\ target'[i] = target[i]
       \/ rows'[target[i]] = NoRow \/ target[i] \in cutOff'

HistoryGrows ==
  /\ cutOff \subseteq cutOff' /\ strayed \subseteq strayed'
  /\ wiped \subseteq wiped' /\ revived \subseteq revived'

\* Jobs do not touch one another.
LEMMA WorkOthers ==
  ASSUME TypeOK, NEW j \in Jobs, Work(j), NEW i \in Jobs, i # j
  PROVE  pc'[i] = pc[i] /\ target'[i] = target[i] /\ listed'[i] = listed[i]
<1>1. pc'[i] = pc[i]
  BY WorkMoves, GotoType
<1>2. target'[i] = target[i] /\ listed'[i] = listed[i]
  BY DEF Work, TypeOK, CheckSchedule, LookForToday, CreateRecord, StartRun, ExportTables,
     PutArchive, CompleteRun, ListExpired, Inspect, EraseArchive, DropRow, EmptyBackups,
     EmptySettings, FillSettings, FillBackups, Throw, MarkFailed, localVars
<1> QED
  BY <1>1, <1>2

LEMMA SetRowEffect ==
  ASSUME TypeOK, NEW j \in Jobs, NEW row, SetRow(j, row)
  PROVE  /\ \A b \in Jobs \ {j} : rows'[b] = rows[b]
         /\ rows'[j] = IF Present(j) THEN row ELSE rows[j]
BY DEF SetRow, TypeOK

LEMMA WorkRowStep ==
  ASSUME TypeOK, PlaceInv, NEW j \in Jobs, Work(j), NEW b \in Jobs
  PROVE  RowStep(b)
<1>0. /\ rows \in [Jobs -> Rows]
      /\ \A a \in Jobs : Present(a) => rows[a] \in FullRows
  BY RowTypes DEF TypeOK, Present
<1>1. ASSUME CreateRecord(j) PROVE RowStep(b)
  <2>1. pc'[j] = "start"
    BY <1>1, StepNames, GotoType DEF CreateRecord
  <2> QED
    BY <1>0, <1>1, <2>1 DEF CreateRecord, RowStep
<1>2. ASSUME StartRun(j) PROVE RowStep(b)
  <2>1. SetRow(j, [rows[j] EXCEPT !.status = "running"]) /\ pc[j] = "start"
    BY <1>2 DEF StartRun
  <2>2. CASE b # j \/ ~Present(j)
    BY <2>1, <2>2, SetRowEffect DEF RowStep
  <2>3. CASE b = j /\ Present(j)
    <3>1. rows'[j] = [rows[j] EXCEPT !.status = "running"]
      BY <2>1, <2>3, SetRowEffect
    <3>2. rows[j] \in FullRows
      BY <1>0, <2>3
    <3>3. Updated(j, "running", rows[j].key)
      BY <3>1, <3>2 DEF Updated, FullRows
    <3> QED
      BY <2>1, <2>3, <3>3 DEF RowStep
  <2> QED
    BY <2>2, <2>3
<1>3. ASSUME CompleteRun(j) PROVE RowStep(b)
  <2>1. /\ SetRow(j, [rows[j] EXCEPT !.status = "completed", !.key = TRUE])
        /\ pc[j] = "complete" /\ pc'[j] = "sweep"
    BY <1>3, StepNames, GotoType DEF CompleteRun
  <2>2. CASE b # j \/ ~Present(j)
    BY <2>1, <2>2, SetRowEffect DEF RowStep
  <2>3. CASE b = j /\ Present(j)
    <3>1. rows'[j] = [rows[j] EXCEPT !.status = "completed", !.key = TRUE]
      BY <2>1, <2>3, SetRowEffect
    <3>2. rows[j] \in FullRows
      BY <1>0, <2>3
    <3>3. Updated(j, "completed", TRUE)
      BY <3>1, <3>2 DEF Updated, FullRows
    <3> QED
      BY <2>1, <2>3, <3>3 DEF RowStep
  <2> QED
    BY <2>2, <2>3
<1>4. ASSUME MarkFailed(j) PROVE RowStep(b)
  <2>1. CASE UNCHANGED rows
    BY <2>1 DEF RowStep
  <2>2. CASE SetRow(j, [rows[j] EXCEPT !.status = "failed"])
    <3>1. CASE b # j \/ ~Present(j)
      BY <2>2, <3>1, SetRowEffect DEF RowStep
    <3>2. CASE b = j /\ Present(j)
      <4>1. rows'[j] = [rows[j] EXCEPT !.status = "failed"]
        BY <2>2, <3>2, SetRowEffect
      <4>2. rows[j] \in FullRows
        BY <1>0, <3>2
      <4>3. Updated(j, "failed", rows[j].key)
        BY <4>1, <4>2 DEF Updated, FullRows
      <4> QED
        BY <1>4, <3>2, <4>3 DEF RowStep, MarkFailed
    <3> QED
      BY <3>1, <3>2
  <2> QED
    BY <1>4, <2>1, <2>2 DEF MarkFailed
<1>5. ASSUME DropRow(j) \/ EmptyBackups(j) PROVE RowStep(b)
  BY <1>0, <1>5 DEF DropRow, EmptyBackups, RowStep, Present
<1>6. ASSUME FillBackups(j) PROVE RowStep(b)
  BY <1>6 DEF FillBackups, RowStep
<1>7. ASSUME \/ CheckSchedule(j) \/ LookForToday(j) \/ ExportTables(j) \/ PutArchive(j)
             \/ ListExpired(j) \/ Inspect(j) \/ EraseArchive(j) \/ EmptySettings(j)
             \/ FillSettings(j) \/ Throw(j)
      PROVE  RowStep(b)
  <2>1. UNCHANGED rows
    BY <1>7 DEF CheckSchedule, LookForToday, ExportTables, PutArchive, ListExpired, Inspect,
       EraseArchive, EmptySettings, FillSettings, Throw, tables
  <2> QED
    BY <2>1 DEF RowStep
<1> QED
  BY <1>1, <1>2, <1>3, <1>4, <1>5, <1>6, <1>7 DEF Work

\* What erasing an archive does.
LEMMA EraseEffect ==
  ASSUME TypeOK, NEW j \in Jobs, EraseArchive(j)
  PROVE  \/ pc'[j] = "done" /\ UNCHANGED <<archives, listed, target>>
         \/ \E e \in listed[j] :
              /\ e \in Jobs \X BOOLEAN
              /\ archives' = IF e[2] THEN archives \ {e[1]} ELSE archives
              /\ listed'[j] = listed[j] \ {e}
              /\ target'[j] = e[1] /\ pc'[j] = "drop"
<1>1. listed[j] \subseteq Jobs \X BOOLEAN /\ listed \in [Jobs -> SUBSET (Jobs \X BOOLEAN)]
  BY DEF TypeOK
<1>2. CASE listed[j] = {} /\ Goto(j, "done") /\ UNCHANGED <<archives, listed, target>>
  BY <1>2, StepNames, GotoType
<1>3. CASE \E e \in listed[j] :
             /\ archives' = IF e[2] THEN archives \ {e[1]} ELSE archives
             /\ listed' = [listed EXCEPT ![j] = @ \ {e}]
             /\ target' = [target EXCEPT ![j] = e[1]]
             /\ Goto(j, "drop")
  <2>1. PICK e \in listed[j] :
          /\ archives' = IF e[2] THEN archives \ {e[1]} ELSE archives
          /\ listed' = [listed EXCEPT ![j] = @ \ {e}]
          /\ target' = [target EXCEPT ![j] = e[1]]
          /\ Goto(j, "drop")
    BY <1>3
  <2>2. pc'[j] = "drop"
    BY <2>1, StepNames, GotoType
  <2>3. listed'[j] = listed[j] \ {e} /\ target'[j] = e[1]
    BY <1>1, <2>1 DEF TypeOK
  <2> QED
    BY <1>1, <2>1, <2>2, <2>3
<1> QED
  BY <1>2, <1>3 DEF EraseArchive

LEMMA WorkArchiveStep ==
  ASSUME TypeOK, NEW j \in Jobs, Work(j), NEW b \in Jobs
  PROVE  ArchiveStep(b)
<1>1. ASSUME PutArchive(j) PROVE ArchiveStep(b)
  <2>1. pc[j] = "put" /\ pc'[j] = "complete" /\ archives' = archives \cup {j}
    BY <1>1, StepNames, GotoType DEF PutArchive
  <2> QED
    BY <2>1 DEF ArchiveStep
<1>2. ASSUME EraseArchive(j) PROVE ArchiveStep(b)
  <2>1. CASE UNCHANGED archives
    BY <2>1 DEF ArchiveStep
  <2>2. CASE \E e \in listed[j] : /\ e \in Jobs \X BOOLEAN
                                  /\ archives' = IF e[2] THEN archives \ {e[1]} ELSE archives
                                  /\ target'[j] = e[1] /\ pc'[j] = "drop"
    <3>1. PICK e \in listed[j] : /\ e \in Jobs \X BOOLEAN
                                 /\ archives' = IF e[2] THEN archives \ {e[1]} ELSE archives
                                 /\ target'[j] = e[1] /\ pc'[j] = "drop"
      BY <2>2
    <3>2. e[2] => e = <<e[1], TRUE>>
      <4>1. e = <<e[1], e[2]>> /\ e[2] \in BOOLEAN
        BY <3>1
      <4>2. e[2] => e[2] = TRUE
        BY <4>1
      <4> QED
        BY <4>1, <4>2, Zenon
    <3>3. b \in archives' => b \in archives
      BY <3>1
    <3>4. b \in archives /\ b \notin archives' => e = <<b, TRUE>>
      BY <3>1, <3>2
    <3>5. b \in archives /\ b \notin archives' => target'[j] = b /\ <<b, TRUE>> \in listed[j]
      BY <3>1, <3>4
    <3> QED
      BY <3>1, <3>3, <3>5 DEF ArchiveStep
  <2> QED
    BY <1>2, <2>1, <2>2, EraseEffect
<1>3. ASSUME ~PutArchive(j), ~EraseArchive(j) PROVE ArchiveStep(b)
  <2>1. UNCHANGED archives
    BY <1>3 DEF Work, CheckSchedule, LookForToday, CreateRecord, StartRun, ExportTables,
       CompleteRun, ListExpired, Inspect, DropRow, EmptyBackups,
       EmptySettings, FillSettings, FillBackups, Throw, MarkFailed, bucket
  <2> QED
    BY <2>1 DEF ArchiveStep
<1> QED
  BY <1>1, <1>2, <1>3

LEMMA WorkListStep ==
  ASSUME TypeOK, PlaceInv, NEW j \in Jobs, Work(j), NEW i \in Jobs
  PROVE  ListStep(i)
<1>0. CASE i # j
  BY <1>0, WorkOthers DEF ListStep
<1>1. ASSUME ListExpired(j) PROVE ListStep(j)
  <2>1. UNCHANGED <<rows, archives>>
    BY <1>1 DEF ListExpired, tables, bucket
  <2>2. CASE UNCHANGED listed
    BY <2>2 DEF ListStep
  <2>3. CASE \E expired \in SUBSET {b \in Jobs : Settled(b)} :
               listed' = [listed EXCEPT ![j] = {Entry(b) : b \in expired}]
    <3>1. PICK expired \in SUBSET {b \in Jobs : Settled(b)} :
            listed' = [listed EXCEPT ![j] = {Entry(b) : b \in expired}]
      BY <2>3
    <3>2. listed'[j] = {Entry(b) : b \in expired}
      BY <3>1 DEF TypeOK
    <3> QED
      BY <2>1, <3>2, EntryType DEF ListStep
  <2> QED
    BY <1>1, <2>2, <2>3 DEF ListExpired
<1>2. ASSUME Inspect(j) PROVE ListStep(j)
  <2>1. UNCHANGED <<rows, archives>> /\ target[j] \in Jobs
    BY <1>2 DEF Inspect, tables, bucket, PlaceInv, PlaceAt
  <2>2. CASE UNCHANGED listed
    BY <2>2 DEF ListStep
  <2>3. CASE Settled(target[j]) /\ listed' = [listed EXCEPT ![j] = {Entry(target[j])}]
    <3>1. listed'[j] = {Entry(target[j])}
      BY <2>3 DEF TypeOK
    <3> QED
      BY <2>1, <2>3, <3>1, EntryType DEF ListStep
  <2> QED
    BY <1>2, <2>2, <2>3 DEF Inspect
<1>3. ASSUME EraseArchive(j) PROVE ListStep(j)
  BY <1>3, EraseEffect DEF ListStep
<1>4. ASSUME ~ListExpired(j), ~Inspect(j), ~EraseArchive(j) PROVE ListStep(j)
  <2>1. UNCHANGED listed
    BY <1>4 DEF Work, CheckSchedule, LookForToday, CreateRecord, StartRun, ExportTables,
       PutArchive, CompleteRun, DropRow, EmptyBackups, EmptySettings, FillSettings,
       FillBackups, Throw, MarkFailed, localVars
  <2> QED
    BY <2>1 DEF ListStep
<1> QED
  BY <1>0, <1>1, <1>2, <1>3, <1>4

LEMMA WorkHistoryGrows ==
  ASSUME NEW j \in Jobs, Work(j)
  PROVE  HistoryGrows
<1>1. ASSUME Throw(j) PROVE HistoryGrows
  BY <1>1 DEF Throw, EndsBadly, HistoryGrows
<1>2. ASSUME ~Throw(j) PROVE HistoryGrows
  BY <1>2 DEF HistoryGrows, Work, CheckSchedule, LookForToday, CreateRecord, StartRun, ExportTables,
     PutArchive, CompleteRun, ListExpired, Inspect, EraseArchive, DropRow, EmptyBackups,
     EmptySettings, FillSettings, FillBackups, MarkFailed, history
<1> QED
  BY <1>1, <1>2

\* Where a step takes the job that does it.
LEMMA WorkPlaces ==
  ASSUME TypeOK, PlaceInv, NEW j \in Jobs, Work(j)
  PROVE  /\ pc[j] # "idle" /\ pc'[j] \notin {"idle", "check", "inspect"}
         /\ pc'[j] = "look" => pc[j] = "check"
         /\ pc'[j] = "create" =>
              pc[j] = "look" /\ TodaysWith({"queued", "running", "completed"}) = {}
         /\ pc'[j] = "start" => pc[j] = "create"
         /\ pc'[j] = "export" => pc[j] = "start"
         /\ pc'[j] = "put" => pc[j] = "export"
         /\ pc'[j] = "complete" => pc[j] = "put" /\ j \in archives'
         /\ pc'[j] = "drop" => pc[j] = "erase"
         /\ pc'[j] \in Restoring => pc[j] \in Restoring
         /\ pc'[j] = "create" => UNCHANGED rows
         /\ pc'[j] # "drop" => UNCHANGED target
<1>1. ASSUME CheckSchedule(j) \/ LookForToday(j)
      PROVE  /\ pc[j] \in {"check", "look"}
             /\ pc'[j] = "look" => pc[j] = "check"
             /\ pc'[j] = "create" =>
                  pc[j] = "look" /\ TodaysWith({"queued", "running", "completed"}) = {}
             /\ pc'[j] \in {"look", "create", "sweep"} /\ UNCHANGED <<target, rows>>
  BY <1>1, StepNames, GotoType DEF CheckSchedule, LookForToday, localVars, tables
<1>2. ASSUME \/ CreateRecord(j) \/ StartRun(j) \/ ExportTables(j) \/ PutArchive(j)
             \/ CompleteRun(j)
      PROVE  /\ \/ pc[j] = "create" /\ pc'[j] = "start"
                \/ pc[j] = "start" /\ pc'[j] = "export"
                \/ pc[j] = "export" /\ pc'[j] = "put"
                \/ pc[j] = "put" /\ pc'[j] = "complete" /\ j \in archives'
                \/ pc[j] = "complete" /\ pc'[j] = "sweep"
             /\ UNCHANGED target
  BY <1>2, StepNames, GotoType
     DEF CreateRecord, StartRun, ExportTables, PutArchive, CompleteRun, localVars
<1>3. ASSUME ListExpired(j) \/ Inspect(j) \/ DropRow(j)
      PROVE  /\ pc[j] \in {"sweep", "inspect", "drop"}
             /\ pc'[j] \in {"erase", "done", "failed"} /\ UNCHANGED target
  BY <1>3, StepNames, GotoType DEF ListExpired, Inspect, DropRow, localVars
<1>4. ASSUME EraseArchive(j)
      PROVE  pc[j] = "erase" /\ (pc'[j] = "drop" \/ (pc'[j] = "done" /\ UNCHANGED target))
  <2>1. pc[j] = "erase"
    BY <1>4 DEF EraseArchive
  <2> QED
    BY <1>4, <2>1, EraseEffect
<1>5. ASSUME EmptyBackups(j) \/ EmptySettings(j) \/ FillSettings(j) \/ FillBackups(j)
      PROVE  pc[j] \in Restoring /\ pc'[j] \in Restoring \cup {"done"} /\ UNCHANGED target
             /\ pc'[j] # "empty"
  BY <1>5, StepNames, GotoType
     DEF EmptyBackups, EmptySettings, FillSettings, FillBackups, localVars, Restoring
<1>6. ASSUME Throw(j) \/ MarkFailed(j)
      PROVE  pc[j] # "idle" /\ pc'[j] \in {"catch", "failed"} /\ UNCHANGED target
  BY <1>6, StepNames, GotoType DEF Throw, MarkFailed, localVars, Live, Resting
<1> QED
  BY <1>1, <1>2, <1>3, <1>4, <1>5, <1>6 DEF Work, Restoring

LEMMA ThrowEffect ==
  ASSUME TypeOK, NEW j \in Jobs, Throw(j)
  PROVE  /\ pc'[j] \in {"catch", "failed"}
         /\ pc[j] = "complete" => j \in strayed'
         /\ pc[j] = "drop" => target[j] \in cutOff'
<1>1. pc'[j] \in {"catch", "failed"}
  BY StepNames, GotoType DEF Throw
<1> QED
  BY <1>1 DEF Throw, EndsBadly

LEMMA WorkJobStep ==
  ASSUME TypeOK, PlaceInv, NEW j \in Jobs, Work(j), NEW i \in Jobs
  PROVE  JobStep(i)
<1>1. CASE i # j
  BY <1>1, WorkOthers DEF JobStep, Over
<1>2. CASE i = j
  <2>1. Over(j) => Over(j)'
    BY WorkPlaces DEF Over, Early
  <2>2. pc'[j] = "complete" => pc[j] = "put" /\ j \in archives'
    BY WorkPlaces
  <2>3. pc[j] = "complete" => j \in strayed' \/ rows'[j].key
    <3>1. ASSUME pc[j] = "complete" PROVE CompleteRun(j) \/ Throw(j)
      BY <3>1 DEF Work, CheckSchedule, LookForToday, CreateRecord, StartRun, ExportTables,
         PutArchive, ListExpired, Inspect, EraseArchive, DropRow, EmptyBackups, EmptySettings,
         FillSettings, FillBackups, MarkFailed
    <3>2. ASSUME CompleteRun(j), Present(j) PROVE rows'[j].key
      <4>1. rows'[j] = [rows[j] EXCEPT !.status = "completed", !.key = TRUE]
        BY <3>2, SetRowEffect DEF CompleteRun
      <4>2. rows[j] \in FullRows
        BY <3>2, RowTypes DEF Present, TypeOK
      <4> QED
        BY <4>1, <4>2 DEF FullRows
    <3>3. ASSUME CompleteRun(j), ~Present(j) PROVE j \in strayed'
      BY <3>3 DEF CompleteRun
    <3> QED
      BY <3>1, <3>2, <3>3, ThrowEffect
  <2>4. ASSUME pc'[j] = "drop"
        PROVE  \E e \in listed[j] : target'[j] = e[1] /\ (e[2] => e[1] \notin archives')
    <3>1. pc[j] = "erase"
      BY <2>4, WorkPlaces
    <3>2. ~Throw(j)
      BY <2>4, ThrowEffect
    <3>3. EraseArchive(j)
      BY <3>1, <3>2 DEF Work, CheckSchedule, LookForToday, CreateRecord, StartRun, ExportTables,
         PutArchive, CompleteRun, ListExpired, Inspect, DropRow, EmptyBackups, EmptySettings,
         FillSettings, FillBackups, MarkFailed
    <3>4. PICK e \in listed[j] : /\ archives' = IF e[2] THEN archives \ {e[1]} ELSE archives
                                 /\ target'[j] = e[1]
      BY <2>4, <3>3, EraseEffect
    <3> QED
      BY <3>4
  <2>5. pc[j] = "drop" => rows'[target[j]] = NoRow \/ target[j] \in cutOff'
    <3>1. ASSUME pc[j] = "drop" PROVE DropRow(j) \/ Throw(j)
      BY <3>1 DEF Work, CheckSchedule, LookForToday, CreateRecord, StartRun, ExportTables,
         PutArchive, CompleteRun, ListExpired, Inspect, EraseArchive, EmptyBackups, EmptySettings,
         FillSettings, FillBackups, MarkFailed
    <3>2. ASSUME DropRow(j) PROVE rows'[target[j]] = NoRow
      <4>1. target[j] \in Jobs
        BY <3>2 DEF DropRow, PlaceInv, PlaceAt
      <4> QED
        BY <3>2, <4>1 DEF DropRow, TypeOK
    <3> QED
      BY <3>1, <3>2, ThrowEffect
  <2> QED
    BY <1>2, <2>1, <2>2, <2>3, <2>4, <2>5 DEF JobStep
<1> QED
  BY <1>1, <1>2

\* A step that leaves jobs, rows, archives and lists alone.
LEMMA IdleStep ==
  ASSUME UNCHANGED <<pc, rows, archives, target, listed, cutOff, strayed, wiped, revived>>,
         NEW b \in Jobs
  PROVE  RowStep(b) /\ ArchiveStep(b) /\ ListStep(b) /\ JobStep(b) /\ HistoryGrows
<1>1. RowStep(b) /\ HistoryGrows
  BY DEF RowStep, HistoryGrows
<1>2. ArchiveStep(b) /\ ListStep(b)
  BY DEF ArchiveStep, ListStep
<1>3. JobStep(b)
  BY DEF JobStep, Over
<1> QED
  BY <1>1, <1>2, <1>3

LEMMA StepEffects ==
  ASSUME TypeOK, PlaceInv, [Next]_vars, NEW b \in Jobs
  PROVE  RowStep(b) /\ ArchiveStep(b) /\ ListStep(b) /\ JobStep(b) /\ HistoryGrows
<1> DEFINE Effects == RowStep(b) /\ ArchiveStep(b) /\ ListStep(b) /\ JobStep(b) /\ HistoryGrows
<1>1. ASSUME NEW j \in Jobs, Work(j) PROVE Effects
  BY <1>1, WorkRowStep, WorkArchiveStep, WorkListStep, WorkJobStep, WorkHistoryGrows
<1>2. ASSUME Tick \/ RunManually \/ \E a \in Jobs : RequestDelete(a) \/ RequestRestore(a)
      PROVE  Effects
  <2>1. PICK j \in Jobs : Begins(j)
    BY <1>2, JobsBegin
  <2>2. PICK k \in Kinds, step \in {"check", "create", "inspect", "empty"}, a \in Jobs \cup {0} :
          Beginning(j, k, step, a)
    BY <2>1, StepNames DEF Begins
  <2>3. pc[j] = "idle"
    BY <2>2, Bounds DEF Beginning, PlaceInv, PlaceAt, TypeOK
  <2>4. /\ pc'[j] = step
        /\ \A i \in Jobs \ {j} : pc'[i] = pc[i] /\ target'[i] = target[i]
    BY <2>2 DEF Beginning, TypeOK
  <2>5. RowStep(b) /\ HistoryGrows
    BY <2>2 DEF Beginning, RowStep, HistoryGrows
  <2>6. ArchiveStep(b) /\ ListStep(b)
    BY <2>2 DEF Beginning, ArchiveStep, ListStep
  <2>7. JobStep(b)
    BY <2>3, <2>4 DEF JobStep, Over, Early
  <2> QED
    BY <2>5, <2>6, <2>7
<1>3. ASSUME NextDay \/ EditSettings \/ UNCHANGED vars PROVE Effects
  <2>1. UNCHANGED <<pc, rows, archives, target, listed, cutOff, strayed, wiped, revived>>
    BY <1>3 DEF NextDay, EditSettings, vars, tables, bucket, localVars, history
  <2> QED
    BY <2>1, IdleStep
<1>4. ASSUME Crash PROVE Effects
  <2>1. PICK ended \in SUBSET Jobs :
          /\ pc' = [j \in Jobs |-> IF j \in ended THEN "crashed" ELSE pc[j]]
          /\ EndsBadly(ended)
    BY <1>4 DEF Crash
  <2>2. UNCHANGED <<rows, archives, target, listed, wiped, revived>>
    BY <1>4 DEF Crash, tables, bucket, localVars
  <2>3. RowStep(b) /\ HistoryGrows
    BY <2>1, <2>2 DEF RowStep, HistoryGrows, EndsBadly
  <2>4. ArchiveStep(b) /\ ListStep(b)
    BY <2>2 DEF ArchiveStep, ListStep
  <2>5. b \in ended => /\ pc'[b] = "crashed"
                       /\ pc[b] = "complete" => b \in strayed'
                       /\ pc[b] = "drop" => target[b] \in cutOff'
    BY <2>1 DEF EndsBadly
  <2>6. b \notin ended => pc'[b] = pc[b]
    BY <2>1
  <2>7. JobStep(b)
    BY <2>2, <2>5, <2>6 DEF JobStep, Over, Early
  <2> QED
    BY <2>3, <2>4, <2>7
<1> QED
  BY <1>1, <1>2, <1>3, <1>4 DEF Next

-----------------------------------------------------------------------------
(***************************************************************************)
(* The parts of the invariant, step by step.                               *)
(***************************************************************************)
LEMMA PlaceStep ==
  ASSUME TypeOK, PlaceInv, [Next]_vars
  PROVE  PlaceInv'
<1> SUFFICES ASSUME NEW i \in Jobs PROVE PlaceAt(i)'
  BY DEF PlaceInv
<1>0. PlaceAt(i)
  BY DEF PlaceInv
<1>1. ASSUME NEW j \in Jobs, Work(j) PROVE PlaceAt(i)'
  <2>1. UNCHANGED <<begun, kind>>
    BY <1>1, WorkKeeps
  <2>2. CASE i # j
    BY <1>0, <1>1, <2>1, <2>2, WorkOthers DEF PlaceAt
  <2>3. CASE i = j
    <3>1. /\ pc[j] # "idle" /\ pc'[j] \notin {"idle", "check", "inspect"}
          /\ pc'[j] = "look" => pc[j] = "check"
          /\ pc'[j] = "create" => pc[j] = "look"
          /\ pc'[j] \in Restoring => pc[j] \in Restoring
          /\ pc'[j] # "drop" => UNCHANGED target
      BY <1>1, WorkPlaces
    <3>2. pc'[j] = "drop" => target'[j] \in Jobs
      <4>1. JobStep(j)
        BY <1>1, WorkJobStep
      <4>2. \A e \in listed[j] : e[1] \in Jobs
        <5>1. listed[j] \subseteq Jobs \X BOOLEAN
          BY DEF TypeOK
        <5> QED
          BY <5>1
      <4>3. pc[j] = "drop" => target[j] \in Jobs
        BY <1>0, <2>3 DEF PlaceAt
      <4> QED
        BY <4>1, <4>2, <4>3 DEF JobStep
    <3>3. pc'[j] \in Restoring => target'[j] \in Jobs
      BY <1>0, <2>3, <3>1 DEF PlaceAt, Restoring
    <3>4. (pc'[j] = "idle" <=> j > begun')
      BY <1>0, <2>1, <2>3, <3>1 DEF PlaceAt
    <3>5. /\ pc'[j] \in {"check", "look"} => kind'[j] = "scheduled"
          /\ pc'[j] = "create" => kind'[j] \in {"scheduled", "manual"}
      BY <1>0, <2>1, <2>3, <3>1 DEF PlaceAt
    <3> QED
      BY <2>3, <3>1, <3>2, <3>3, <3>4, <3>5 DEF PlaceAt
  <2> QED
    BY <2>2, <2>3
<1>2. ASSUME Tick \/ RunManually \/ \E b \in Jobs : RequestDelete(b) \/ RequestRestore(b)
      PROVE  PlaceAt(i)'
  <2>1. PICK j \in Jobs : Begins(j)
    BY <1>2, JobsBegin
  <2>2. PICK k \in Kinds, step \in {"check", "create", "inspect", "empty"}, a \in Jobs \cup {0} :
          /\ Beginning(j, k, step, a)
          /\ step = "check" => k = "scheduled"
          /\ step = "create" => k = "manual"
          /\ step \in {"inspect", "empty"} => a \in Jobs
    BY <2>1, StepNames DEF Begins
  <2>3. /\ j = begun + 1 /\ begun' = j /\ begun \in Int /\ j \in Int /\ i \in Int
        /\ pc'[j] = step /\ kind'[j] = k /\ target'[j] = a
        /\ i # j => pc'[i] = pc[i] /\ kind'[i] = kind[i] /\ target'[i] = target[i]
    BY <2>2, Bounds DEF Beginning, TypeOK
  <2>4. CASE i = j
    BY <2>2, <2>3, <2>4 DEF PlaceAt, Restoring
  <2>5. CASE i # j
    <3>1. i > begun <=> i > begun'
      BY <2>3, <2>5
    <3> QED
      BY <1>0, <2>3, <2>5, <3>1 DEF PlaceAt
  <2> QED
    BY <2>4, <2>5
<1>3. ASSUME NextDay \/ EditSettings \/ UNCHANGED vars PROVE PlaceAt(i)'
  <2>1. UNCHANGED <<pc, begun, kind, target>>
    BY <1>3 DEF NextDay, EditSettings, vars, localVars
  <2> QED
    BY <1>0, <2>1 DEF PlaceAt
<1>4. ASSUME Crash PROVE PlaceAt(i)'
  <2>1. PICK ended \in SUBSET {j \in Jobs : Live(j)} :
          pc' = [j \in Jobs |-> IF j \in ended THEN "crashed" ELSE pc[j]]
    BY <1>4 DEF Crash
  <2>2. UNCHANGED <<begun, kind, target>>
    BY <1>4 DEF Crash, localVars
  <2>3. (pc'[i] = "crashed" /\ pc[i] # "idle") \/ pc'[i] = pc[i]
    BY <2>1 DEF Live, Resting
  <2> QED
    BY <1>0, <2>2, <2>3 DEF PlaceAt, Restoring
<1> QED
  BY <1>1, <1>2, <1>3, <1>4 DEF Next

LEMMA RecordStep ==
  ASSUME TypeOK, PlaceInv, RecordInv, ListInv, [Next]_vars
  PROVE  RecordInv'
<1> SUFFICES ASSUME NEW b \in Jobs PROVE RecordAt(b)'
  BY DEF RecordInv
<1>0. RecordAt(b) /\ rows[b] \in Rows
  BY DEF RecordInv, TypeOK
<1>1. RowStep(b) /\ ArchiveStep(b) /\ JobStep(b) /\ HistoryGrows
  BY StepEffects
<1>2. NoRow.status = "none" /\ NoRow.key = FALSE
  BY NoRowIs
<1>3. Settled(b)' \/ rows'[b].key => Over(b)' \/ b \in revived'
  <2>1. Over(b) => Over(b)'
    BY <1>1 DEF JobStep
  <2>2. CASE pc[b] = "complete" /\ pc'[b] = "sweep"
    BY <2>2 DEF Over, Early
  <2>3. CASE pc[b] = "catch"
    BY <2>1, <2>3 DEF Over, Early
  <2>4. CASE ~(pc[b] = "complete" /\ pc'[b] = "sweep") /\ pc[b] # "catch"
    <3>1. \/ rows'[b] = rows[b] \/ rows'[b] = NoRow \/ b \in revived'
          \/ rows'[b].status \in {"queued", "running"} /\ (rows'[b].key => rows[b].key)
      BY <1>1, <2>4 DEF RowStep, Updated
    <3> QED
      BY <1>0, <1>1, <1>2, <2>1, <3>1 DEF RecordAt, Settled, HistoryGrows
  <2> QED
    BY <2>2, <2>3, <2>4
<1>4. rows'[b].status = "completed" => rows'[b].key \/ b \in revived'
  BY <1>0, <1>1, <1>2 DEF RowStep, Updated, RecordAt, HistoryGrows
<1>5. pc'[b] = "complete" => b \in archives' \cup revived'
  <2>1. ASSUME pc'[b] = "complete", pc[b] = "complete", b \notin revived'
        PROVE  b \in archives'
    <3>1. b \in archives /\ b \notin revived
      BY <1>0, <1>1, <2>1 DEF RecordAt, HistoryGrows
    <3>2. ASSUME NEW j \in Jobs, <<b, TRUE>> \in listed[j] PROVE FALSE
      <4>1. Deletable(b)
        BY <3>2 DEF ListInv, ListAt
      <4> QED
        BY <2>1, <3>1, <4>1 DEF Deletable, Over, Early
    <3> QED
      BY <1>1, <3>1, <3>2 DEF ArchiveStep
  <2> QED
    BY <1>1, <2>1 DEF JobStep
<1> QED
  BY <1>3, <1>4, <1>5 DEF RecordAt

\* What is settled for good stays so; what is excused stays excused.
LEMMA DeletableStays ==
  ASSUME TypeOK, PlaceInv, [Next]_vars, NEW b \in Jobs
  PROVE  /\ Deletable(b) => Deletable(b)'
         /\ Excused(b) => Excused(b)'
<1>1. RowStep(b) /\ JobStep(b) /\ HistoryGrows
  BY StepEffects
<1>2. Excused(b) => Excused(b)'
  BY <1>1 DEF Excused, HistoryGrows
<1>3. CASE b \in revived
  BY <1>1, <1>3, <1>2 DEF Deletable, HistoryGrows
<1>4. CASE Over(b) /\ rows[b].status \notin {"queued", "running"}
  <2>1. pc[b] \notin {"create", "start", "complete"} /\ Over(b)'
    BY <1>1, <1>4 DEF Over, Early, JobStep
  <2>2. rows'[b].status \notin {"queued", "running"} \/ b \in revived'
    BY <1>1, <1>4, <2>1, NoRowIs DEF RowStep, Updated
  <2> QED
    BY <1>2, <2>1, <2>2 DEF Deletable
<1> QED
  BY <1>2, <1>3, <1>4 DEF Deletable

LEMMA ListInvStep ==
  ASSUME TypeOK, PlaceInv, RecordInv, ListInv, ArchivesMatch, [Next]_vars
  PROVE  ListInv'
<1> SUFFICES ASSUME NEW i \in Jobs PROVE ListAt(i)'
  BY DEF ListInv
<1>0. ListAt(i) /\ ListStep(i) /\ JobStep(i)
  BY StepEffects DEF ListInv
<1>1. \A e \in listed[i] \cup listed'[i] : e[1] \in Jobs
  <2>1. TypeOK'
    BY TypeStep
  <2>2. listed[i] \subseteq Jobs \X BOOLEAN /\ listed'[i] \subseteq Jobs \X BOOLEAN
    BY <2>1 DEF TypeOK
  <2> QED
    BY <2>2
\* An archive that appears belongs to a run that was not over.
<1>2. ASSUME NEW b \in Jobs, Deletable(b), b \in archives'
      PROVE  b \in archives \/ Excused(b)'
  <2>1. ArchiveStep(b) /\ HistoryGrows
    BY StepEffects
  <2> QED
    BY <1>2, <2>1 DEF ArchiveStep, HistoryGrows, Deletable, Over, Early, Excused
<1>3. ASSUME NEW e \in listed'[i]
      PROVE  Deletable(e[1])' /\ (~e[2] /\ e[1] \in archives' => Excused(e[1])')
  <2>0. e[1] \in Jobs
    BY <1>1
  <2>1. CASE e \in listed[i]
    <3>1. Deletable(e[1]) /\ (~e[2] /\ e[1] \in archives => Excused(e[1]))
      BY <1>0, <2>1 DEF ListAt
    <3> QED
      BY <1>2, <2>0, <3>1, DeletableStays
  <2>2. CASE Settled(e[1]) /\ e[2] = rows[e[1]].key /\ UNCHANGED <<rows, archives>>
    <3>1. Deletable(e[1])
      BY <2>0, <2>2 DEF RecordInv, RecordAt, Deletable, Settled
    <3>2. ASSUME ~e[2], e[1] \in archives PROVE Excused(e[1])
      BY <2>0, <2>2, <3>1, <3>2 DEF ArchivesMatch, ArchivesAreNamed, Deletable, Over, Early, Excused
    <3> QED
      BY <1>2, <2>0, <2>2, <3>1, <3>2, DeletableStays
  <2> QED
    BY <1>0, <2>1, <2>2 DEF ListStep
<1>4. ASSUME pc'[i] = "drop"
      PROVE  (Deletable(target[i]) /\ (target[i] \in archives => Excused(target[i])))'
  <2>1. PICK b \in Jobs : b = target'[i] /\ Deletable(b)' /\ (b \in archives' => Excused(b)')
    <3>1. CASE pc[i] = "drop" /\ target'[i] = target[i]
      <4>1. PICK b \in Jobs : b = target[i]
        BY <3>1 DEF PlaceInv, PlaceAt
      <4>2. Deletable(b) /\ (b \in archives => Excused(b))
        BY <1>0, <3>1, <4>1 DEF ListAt
      <4> QED
        BY <1>2, <3>1, <4>1, <4>2, DeletableStays
    <3>2. CASE \E e \in listed[i] : target'[i] = e[1] /\ (e[2] => e[1] \notin archives')
      <4>1. PICK e \in listed[i] : target'[i] = e[1] /\ (e[2] => e[1] \notin archives')
        BY <3>2
      <4>2. e[1] \in Jobs
        BY <1>1
      <4>3. Deletable(e[1]) /\ (~e[2] /\ e[1] \in archives => Excused(e[1]))
        BY <1>0 DEF ListAt
      <4>4. Deletable(e[1])' /\ (e[1] \in archives' => Excused(e[1])')
        BY <1>2, <4>1, <4>2, <4>3, DeletableStays
      <4> QED
        BY <4>1, <4>2, <4>4
    <3> QED
      BY <1>0, <1>4, <3>1, <3>2 DEF JobStep
  <2> QED
    BY <2>1 DEF Deletable, Over, Excused
<1>5. \A e \in listed'[i] : Deletable(e[1])' /\ (~e[2] /\ e[1] \in archives' => Excused(e[1])')
  BY <1>3
<1> QED
  BY <1>4, <1>5 DEF ListAt

LEMMA CompletedStep ==
  ASSUME TypeOK, PlaceInv, RecordInv, ListInv, ArchivesMatch, [Next]_vars
  PROVE  CompletedHasArchive'
<1> SUFFICES ASSUME NEW b \in Jobs, rows'[b].status = "completed", b \notin cutOff' \cup revived'
             PROVE  b \in archives' \/ \E j \in Jobs : pc'[j] = "drop" /\ target'[j] = b
  BY DEF CompletedHasArchive, BeingDropped
<1>0. RowStep(b) /\ ArchiveStep(b) /\ HistoryGrows
  BY StepEffects
<1>1. CASE rows[b].status = "completed"
  <2>1. CASE b \in archives
    BY <1>0, <2>1 DEF ArchiveStep
  <2>2. CASE \E j \in Jobs : pc[j] = "drop" /\ target[j] = b
    <3>1. PICK j \in Jobs : pc[j] = "drop" /\ target[j] = b
      BY <2>2
    <3>2. JobStep(j)
      BY StepEffects
    <3> QED
      BY <3>1, <3>2, NoRowIs DEF JobStep
  <2> QED
    BY <1>0, <1>1, <2>1, <2>2
       DEF ArchivesMatch, CompletedHasArchive, BeingDropped, HistoryGrows
<1>2. CASE rows[b].status # "completed"
  <2>1. pc[b] = "complete"
    BY <1>0, <1>2, NoRowIs DEF RowStep, Updated
  <2>2. b \in archives
    BY <1>0, <2>1 DEF RecordInv, RecordAt, HistoryGrows
  <2> QED
    BY <1>0, <2>2 DEF ArchiveStep
<1> QED
  BY <1>1, <1>2

LEMMA NamedStep ==
  ASSUME TypeOK, PlaceInv, RecordInv, ListInv, ArchivesMatch, [Next]_vars
  PROVE  ArchivesAreNamed'
<1>0. archives' \subseteq Jobs
  BY TypeStep DEF TypeOK
<1> SUFFICES ASSUME NEW b \in Jobs, b \in archives', ~Excused(b)'
             PROVE  rows'[b].key \/ pc'[b] = "complete"
  BY <1>0 DEF ArchivesAreNamed, Excused
<1>1. RowStep(b) /\ ArchiveStep(b) /\ JobStep(b) /\ HistoryGrows
  BY StepEffects
<1>2. ~Excused(b) /\ b \notin wiped' /\ b \notin revived' /\ b \notin strayed'
  BY <1>1 DEF Excused, HistoryGrows
<1>3. CASE b \notin archives
  BY <1>1, <1>3 DEF ArchiveStep
<1>4. CASE b \in archives /\ pc[b] = "complete"
  BY <1>1, <1>2, <1>4 DEF JobStep
<1>5. CASE b \in archives /\ rows[b].key
  <2>1. rows[b] # NoRow
    BY <1>5, NoRowIs
  <2>2. \A j \in Jobs : ~(pc[j] = "drop" /\ target[j] = b)
    BY <1>2, <1>5 DEF ListInv, ListAt
  <2>3. pc[b] # "create"
    BY <1>2, <1>5 DEF RecordInv, RecordAt, Over, Early, Excused
  <2> QED
    BY <1>1, <1>2, <1>5, <2>1, <2>2, <2>3 DEF RowStep, Updated
<1> QED
  BY <1>2, <1>3, <1>4, <1>5 DEF ArchivesMatch, ArchivesAreNamed, Excused

\* A scheduled row is written by a job that was choosing; one that failed stays so.
LEMMA ScheduledStays ==
  ASSUME TypeOK, PlaceInv, RecordInv, [Next]_vars,
         NEW b \in Jobs \ (wiped' \cup revived'), NEW d, Scheduled(b, d)'
  PROVE  /\ b \notin wiped \cup revived
         /\ \/ pc[b] = "create" /\ pc'[b] = "start" /\ kind[b] = "scheduled" /\ d = day
            \/ Scheduled(b, d) /\ (rows[b].status = "failed" => rows'[b].status = "failed")
<1>1. RowStep(b) /\ HistoryGrows
  BY StepEffects
<1>2. b \notin wiped \cup revived
  BY <1>1 DEF HistoryGrows
<1>3. rows[b].status = "failed" => pc[b] \notin {"create", "start", "complete"}
  BY <1>2 DEF RecordInv, RecordAt, Settled, Over, Early
<1>4. rows'[b] # NoRow
  BY NoRowIs DEF Scheduled
<1>5. CASE pc[b] = "create" /\ pc'[b] = "start" /\ rows'[b] # rows[b]
  <2>1. rows'[b] = [status |-> "queued", trigger |-> kind[b], day |-> day, key |-> FALSE]
    BY <1>1, <1>4, <1>5 DEF RowStep
  <2> QED
    BY <1>2, <1>5, <2>1 DEF Scheduled
<1>6. CASE ~(pc[b] = "create" /\ pc'[b] = "start" /\ rows'[b] # rows[b])
  <2>1. \/ rows'[b] = rows[b]
        \/ pc[b] = "start" /\ Updated(b, "running", rows[b].key)
        \/ pc[b] = "complete" /\ Updated(b, "completed", TRUE)
        \/ pc[b] = "catch" /\ Updated(b, "failed", rows[b].key)
    BY <1>1, <1>4, <1>6 DEF RowStep
  <2> QED
    BY <1>2, <1>3, <2>1 DEF Scheduled, Updated
<1> QED
  BY <1>5, <1>6

\* As long as no other job chooses, what a choosing job has seen stays so.
LEMMA ChoiceStays ==
  ASSUME TypeOK, PlaceInv, RecordInv, TickInv, [Next]_vars,
         NEW i \in Jobs, Choosing(i), pc[i] = "create", pc'[i] = "create", day' = day
  PROVE  \A b \in Jobs \ (wiped' \cup revived') : Scheduled(b, day)' => rows'[b].status = "failed"
<1> SUFFICES ASSUME NEW b \in Jobs \ (wiped' \cup revived'), Scheduled(b, day)'
             PROVE  rows'[b].status = "failed"
  OBVIOUS
<1>1. PICK d : d = day
  OBVIOUS
<1>2. Scheduled(b, d)'
  BY <1>1 DEF Scheduled
<1>3. CASE pc[b] = "create" /\ pc'[b] = "start" /\ kind[b] = "scheduled"
  BY <1>3 DEF TickInv, Choosing
<1>4. CASE /\ b \notin wiped \cup revived /\ Scheduled(b, d)
           /\ rows[b].status = "failed" => rows'[b].status = "failed"
  BY <1>1, <1>4 DEF TickInv
<1> QED
  BY <1>2, <1>3, <1>4, ScheduledStays

LEMMA TickStep ==
  ASSUME TypeOK, PlaceInv, RecordInv, TickInv, [Next]_vars
  PROVE  TickInv'
\* It is enough that no job has begun to choose, and that who decides has looked.
<1>0. ASSUME day' = day, ticked \subseteq ticked' \/ \A j \in Jobs : ~Choosing(j)',
             \A i \in Jobs : Choosing(i)' => Choosing(i),
             \A i \in Jobs : Choosing(i)' /\ pc'[i] = "create" =>
               pc[i] = "create" \/ \A b \in Jobs \ (wiped' \cup revived') :
                                     Scheduled(b, day)' => rows'[b].status = "failed"
      PROVE  TickInv'
  <2>1. \A i, j \in Jobs : Choosing(i)' /\ Choosing(j)' => i = j
    BY <1>0 DEF TickInv
  <2>2. \A j \in Jobs : Choosing(j)' => day' \in ticked'
    BY <1>0 DEF TickInv
  <2>3. ASSUME NEW i \in Jobs, Choosing(i)', pc'[i] = "create"
        PROVE  \A b \in Jobs \ (wiped' \cup revived') :
                 Scheduled(b, day)' => rows'[b].status = "failed"
    BY <1>0, <2>3, ChoiceStays
  <2> QED
    BY <2>1, <2>2, <2>3 DEF TickInv
<1>1. ASSUME NEW j \in Jobs, Work(j) PROVE TickInv'
  <2>1. UNCHANGED <<day, ticked, kind>>
    BY <1>1, WorkKeeps
  <2>2. \A i \in Jobs : i # j => pc'[i] = pc[i]
    BY <1>1, WorkOthers
  <2>3. /\ pc'[j] # "check" /\ (pc'[j] = "look" => pc[j] = "check")
        /\ pc'[j] = "create" =>
             /\ pc[j] = "look" /\ TodaysWith({"queued", "running", "completed"}) = {}
             /\ UNCHANGED rows
    BY <1>1, WorkPlaces
  <2>4. \A i \in Jobs : Choosing(i)' => Choosing(i)
    BY <2>1, <2>2, <2>3 DEF Choosing
  <2>5. ASSUME pc'[j] = "create", NEW b \in Jobs, Scheduled(b, day)'
        PROVE  rows'[b].status = "failed"
    <3>1. rows[b] \in Rows
      BY DEF TypeOK
    <3>2. rows[b].trigger = "scheduled" /\ rows[b].day = day /\ rows'[b] = rows[b]
      BY <2>1, <2>3, <2>5 DEF Scheduled
    <3>3. rows[b].status \in {"queued", "running", "completed", "failed"}
      BY <3>1, <3>2, RowTypes, NoRowIs
    <3> QED
      BY <2>3, <2>5, <3>2, <3>3 DEF TodaysWith
  <2> QED
    BY <1>0, <2>1, <2>2, <2>4, <2>5
<1>2. ASSUME Tick \/ RunManually \/ \E b \in Jobs : RequestDelete(b) \/ RequestRestore(b)
      PROVE  TickInv'
  <2>1. PICK j \in Jobs : Begins(j)
    BY <1>2, JobsBegin
  <2>2. PICK k \in Kinds, step \in {"check", "create", "inspect", "empty"}, a \in Jobs \cup {0} :
          /\ Beginning(j, k, step, a)
          /\ \/ /\ step = "check" /\ k = "scheduled"
                /\ day \notin ticked /\ ticked' = ticked \cup {day}
             \/ k # "scheduled" /\ UNCHANGED ticked
    BY <2>1, StepNames DEF Begins
  <2>3. /\ day' = day /\ pc'[j] = step /\ kind'[j] = k
        /\ \A i \in Jobs \ {j} : pc'[i] = pc[i] /\ kind'[i] = kind[i]
    BY <2>2 DEF Beginning, TypeOK
  <2>4. \A i \in Jobs \ {j} : Choosing(i)' => Choosing(i)
    BY <2>3 DEF Choosing
  <2>5. CASE k # "scheduled" /\ UNCHANGED ticked
    <3>1. ~Choosing(j)'
      BY <2>3, <2>5 DEF Choosing
    <3> QED
      BY <1>0, <2>3, <2>4, <2>5, <3>1
  <2>6. CASE step = "check" /\ day \notin ticked /\ ticked' = ticked \cup {day}
    <3>1. \A i \in Jobs \ {j} : ~Choosing(i)'
      BY <2>4, <2>6 DEF TickInv
    <3> QED
      BY <2>3, <2>6, <3>1 DEF TickInv
  <2> QED
    BY <2>2, <2>5, <2>6
<1>3. ASSUME NextDay PROVE TickInv'
  <2>1. \A j \in Jobs : ~Choosing(j)'
    BY <1>3 DEF NextDay, Choosing
  <2> QED
    BY <2>1 DEF TickInv
<1>4. ASSUME EditSettings \/ UNCHANGED vars PROVE TickInv'
  <2>1. UNCHANGED <<day, ticked, pc, kind>>
    BY <1>4 DEF EditSettings, vars
  <2> QED
    BY <1>0, <2>1 DEF Choosing
<1>5. ASSUME Crash PROVE TickInv'
  <2>1. PICK ended \in IF runtime = "worker" THEN {{j} : j \in {j \in Jobs : Live(j)}}
                       ELSE {{j \in Jobs : Live(j)}} :
          pc' = [j \in Jobs |-> IF j \in ended THEN "crashed" ELSE pc[j]]
    BY <1>5 DEF Crash
  <2>2. day' = day /\ kind' = kind
    BY <1>5 DEF Crash
  <2>3. \A i \in Jobs : pc'[i] \in {"crashed", pc[i]}
    BY <2>1
  <2>4. \A i \in Jobs : Choosing(i)' => Choosing(i) /\ pc'[i] = pc[i]
    BY <2>2, <2>3 DEF Choosing
  <2>5. CASE runtime = "worker"
    <3>1. ticked' = ticked
      BY <1>5, <2>5 DEF Crash
    <3> QED
      BY <1>0, <2>2, <2>4, <3>1
  <2>6. CASE runtime # "worker"
    <3>1. \A i \in Jobs : ~Choosing(i)'
      BY <2>1, <2>4, <2>6 DEF Choosing, Live, Resting
    <3> QED
      BY <1>0, <2>2, <2>4, <3>1
  <2> QED
    BY <2>5, <2>6
<1> QED
  BY <1>1, <1>2, <1>3, <1>4, <1>5 DEF Next

LEMMA OneStep ==
  ASSUME TypeOK, PlaceInv, RecordInv, TickInv, OneScheduledADay, [Next]_vars
  PROVE  OneScheduledADay'
<1> SUFFICES ASSUME NEW a \in Jobs \ (wiped' \cup revived'), NEW b \in Jobs \ (wiped' \cup revived'),
                    a # b, rows'[a].trigger = "scheduled", rows'[b].trigger = "scheduled",
                    rows'[a].day = rows'[b].day
             PROVE  rows'[a].status = "failed" \/ rows'[b].status = "failed"
  BY DEF OneScheduledADay
<1>1. PICK d : d = rows'[a].day
  OBVIOUS
<1>2. Scheduled(a, d)' /\ Scheduled(b, d)'
  BY <1>1 DEF Scheduled
\* Who writes a scheduled row saw that the others of the day had failed.
<1>3. ASSUME NEW i \in Jobs, pc[i] = "create", kind[i] = "scheduled", d = day,
             NEW c \in Jobs \ (wiped' \cup revived'), c # i, Scheduled(c, d)'
      PROVE  rows'[c].status = "failed"
  <2>1. ~(pc[c] = "create" /\ kind[c] = "scheduled")
    BY <1>3 DEF TickInv, Choosing
  <2>2. /\ c \notin wiped \cup revived /\ Scheduled(c, d)
        /\ rows[c].status = "failed" => rows'[c].status = "failed"
    BY <1>3, <2>1, ScheduledStays
  <2> QED
    BY <1>3, <2>2 DEF TickInv, Choosing
<1>4. CASE pc[a] = "create" /\ kind[a] = "scheduled" /\ d = day
  BY <1>2, <1>3, <1>4
<1>5. CASE pc[b] = "create" /\ kind[b] = "scheduled" /\ d = day
  BY <1>2, <1>3, <1>5
<1>6. CASE /\ Scheduled(a, d) /\ (rows[a].status = "failed" => rows'[a].status = "failed")
           /\ Scheduled(b, d) /\ (rows[b].status = "failed" => rows'[b].status = "failed")
  <2>1. a \notin wiped \cup revived /\ b \notin wiped \cup revived
    BY <1>2, ScheduledStays
  <2> QED
    BY <1>6, <2>1 DEF OneScheduledADay, Scheduled
<1> QED
  BY <1>2, <1>4, <1>5, <1>6, ScheduledStays

-----------------------------------------------------------------------------
(***************************************************************************)
(* The theorems.                                                           *)
(***************************************************************************)
LEMMA InitInv == Init => IInv
<1> SUFFICES ASSUME Init PROVE IInv
  OBVIOUS
<1>0. TypeOK /\ 1 \in Jobs /\ 0 \notin Jobs
  BY InitType, Bounds DEF Jobs
<1>1. /\ \A j \in Jobs : (j = 1 /\ pc[j] = "done") \/ (j # 1 /\ pc[j] = "idle")
      /\ \A j \in Jobs : j > begun <=> j # 1
      /\ \A j \in Jobs : listed[j] = {}
  BY <1>0, Bounds DEF Init, Jobs
<1>2. \A b \in Jobs : \/ rows[b] = NoRow /\ b \notin archives
                      \/ /\ b = 1 /\ 1 \in archives /\ rows[b].status = "completed"
                         /\ rows[b].key = TRUE /\ rows[b].trigger = "manual"
  <2>1. CASE rows = NoExport.rows /\ archives = {}
    BY <2>1 DEF NoExport
  <2>2. CASE archives = {1} /\ rows = [NoExport.rows EXCEPT ![1] = Manual("completed", TRUE)]
    <3>1. NoExport.rows = [j \in Jobs |-> NoRow]
      BY DEF NoExport
    <3>2. \A b \in Jobs : rows[b] = IF b = 1 THEN Manual("completed", TRUE) ELSE NoRow
      BY <2>2, <3>1
    <3> QED
      BY <2>2, <3>2 DEF Manual
  <2> QED
    BY <2>1, <2>2 DEF Init
<1>3. PlaceInv
  BY <1>1 DEF PlaceInv, PlaceAt, Restoring
<1>4. RecordInv
  BY <1>1, <1>2, NoRowIs DEF RecordInv, RecordAt, Settled, Over, Early
<1>5. ListInv
  BY <1>1 DEF ListInv, ListAt
<1>6. TickInv
  BY <1>1 DEF TickInv, Choosing
<1>7. ArchivesMatch
  BY <1>0, <1>2, NoRowIs DEF ArchivesMatch, CompletedHasArchive, ArchivesAreNamed, TypeOK
<1>8. OneScheduledADay
  BY <1>2, NoRowIs DEF OneScheduledADay
<1> QED
  BY <1>0, <1>3, <1>4, <1>5, <1>6, <1>7, <1>8 DEF IInv

LEMMA IInvStep == IInv /\ [Next]_vars => IInv'
<1> SUFFICES ASSUME IInv, [Next]_vars PROVE IInv'
  OBVIOUS
<1>1. TypeOK' /\ PlaceInv' /\ RecordInv' /\ ListInv'
  BY TypeStep, PlaceStep, RecordStep, ListInvStep DEF IInv
<1>2. TickInv' /\ OneScheduledADay'
  BY TickStep, OneStep DEF IInv
<1>3. ArchivesMatch'
  BY CompletedStep, NamedStep DEF IInv, ArchivesMatch
<1> QED
  BY <1>1, <1>2, <1>3 DEF IInv

(***************************************************************************)
(* The inductive invariant holds in every state of the handlers of         *)
(* lib/backups/ and app/api/backups/.                                      *)
(***************************************************************************)
THEOREM Invariance == Spec => []IInv
<1>1. Init => IInv
  BY InitInv
<1>2. IInv /\ [Next]_vars => IInv'
  BY IInvStep
<1> QED
  BY <1>1, <1>2, PTL DEF Spec

(***************************************************************************)
(* Every table, archive, list and program counter keeps its type: a row is *)
(* whole or gone, whatever runs, sweeps and restores do to it together.    *)
(***************************************************************************)
THEOREM TypeCorrect == Spec => []TypeOK
<1>1. IInv => TypeOK
  BY DEF IInv
<1> QED
  BY <1>1, Invariance, PTL

(***************************************************************************)
(* Rows and archives belong together (runner.ts, service.ts:71-84): a      *)
(* completed backup has its archive and no archive is without a row,       *)
(* however runs, sweeps, deletions, restores and crashes interleave, save  *)
(* for those that were cut off between the two or that a restore touched.  *)
(***************************************************************************)
THEOREM ArchivesMatchHolds == Spec => []ArchivesMatch
<1>1. IInv => ArchivesMatch
  BY DEF IInv
<1> QED
  BY <1>1, Invariance, PTL

(***************************************************************************)
(* One scheduled backup a day, whatever the schedule and however often the *)
(* process restarts (service.ts:42-54).                                    *)
(***************************************************************************)
THEOREM OneScheduledADayHolds == Spec => []OneScheduledADay
<1>1. IInv => OneScheduledADay
  BY DEF IInv
<1> QED
  BY <1>1, Invariance, PTL

\* A row that goes was emptied by a restore, or was about to be dropped.
LEMMA InProgressStep ==
  ASSUME IInv, [Next]_vars, NEW b \in Jobs \ revived,
         rows[b].status \in {"queued", "running"}, rows'[b] = NoRow
  PROVE  b \in wiped'
<1>1. TypeOK /\ PlaceInv /\ ListInv
  BY DEF IInv
<1>2. RowStep(b)
  BY <1>1, StepEffects
<1>3. rows[b] # NoRow
  BY NoRowIs
<1>4. \A j \in Jobs : ~(pc[j] = "drop" /\ target[j] = b)
  BY <1>1 DEF ListInv, ListAt, Deletable
<1> QED
  BY <1>2, <1>3, <1>4, NoRowIs DEF RowStep, Updated

(***************************************************************************)
(* A backup in progress is not deleted, although what a sweep or a         *)
(* deletion goes by was read long before (service.ts:56-84): what has been *)
(* listed is over for good, unless a restore brings back another state.    *)
(***************************************************************************)
THEOREM InProgressIsKeptHolds == Spec => InProgressIsKept
<1>1. IInv /\ [Next]_vars =>
        [\A b \in Jobs \ revived :
           rows[b].status \in {"queued", "running"} /\ rows'[b] = NoRow => b \in wiped']_vars
  BY InProgressStep
<1> QED
  BY <1>1, Invariance, PTL DEF Spec, InProgressIsKept
=============================================================================
