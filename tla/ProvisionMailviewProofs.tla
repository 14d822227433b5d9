---------------------- MODULE ProvisionMailviewProofs -----------------------
(***************************************************************************)
(* What is proved of Provision, and after it of Mailview.                  *)
(*                                                                         *)
(* What the zone of Cloudflare is while domains are set up, undone and     *)
(* removed, for every number of hostnames, requests and failures.          *)
(***************************************************************************)
EXTENDS Provision, FiniteSetTheorems, TLAPS

JobType ==
  [kind : {"register", "add", "remove"}, user : Users \cup {None}, host : Hosts \cup {None},
   routing : BOOLEAN, sending : BOOLEAN, wasOn : BOOLEAN, previous : CatchAlls \cup {None},
   enabled : BOOLEAN, created : BOOLEAN, ruled : BOOLEAN, found : BOOLEAN,
   inserted : BOOLEAN, known : BOOLEAN, start : ZoneType \cup {None}, fresh : BOOLEAN,
   spoiled : BOOLEAN]
Early == {"user", "zone", "copy", "enable"}
Places == Ends \cup {"idle", "user", "dns"} \cup Provisioning \cup Adding \cup Registering
          \cup Undoing \cup Removing
Resting == Ends \cup {"idle"}
\* Steps at which the row of the request is written, and those at which its part of
\* the zone is set up, or about to be taken back.
Written == {"alias", "select", "dns"} \cup Registering
Forward == Adding \cup Registering \cup {"dns", "list", "create"}
Reverting == {"unrule", "unsend", "restore", "switchOff"}

(***************************************************************************)
(* Of a request at step p with the variables j: by which steps its kind    *)
(* goes, and what it cannot have done yet.                                 *)
(***************************************************************************)
JobOK(r, p, j) ==
  /\ j \in JobType
  /\ p \in Resting => j.start = None /\ ~j.fresh
  /\ p # "idle" => j.host \in Hosts /\ (j.kind = "register" => j.user = r)
  /\ p \in {"user", "unuser"} \cup Registering => j.kind = "register"
  /\ p \notin Resting => /\ j.kind = "remove" <=> p \in Removing
                         /\ j.kind = "register" => j.routing
  /\ p \in Early => ~j.enabled
  /\ p \in Early \cup Provisioning => ~j.created
  /\ p \in {"user", "zone", "copy"} => j.previous = None
  /\ p \in Early \cup Provisioning \cup Adding \cup {"dns"} => ~j.ruled
  /\ p \in {"list", "create"} => j.sending
  /\ p \in {"copy", "enable", "catchAll"} => j.routing
  /\ p \in {"user", "zone"} => ~j.fresh
  /\ p \in {"user", "zone"} => ~j.spoiled
  /\ p = "unsend" => j.created
  /\ p = "restore" => j.previous # None \/ j.enabled
  /\ p = "switchOff" => j.enabled
  /\ j.enabled => ~j.wasOn
  /\ j.created => j.sending
  /\ ~j.routing \/ j.kind = "remove" => ~j.enabled /\ j.previous = None /\ ~j.fresh
RunInv == /\ pc \in [Requests -> Places] /\ job \in [Requests -> JobType]
          /\ \A r \in Requests : JobOK(r, pc[r], job[r])
          /\ \A r \in Requests : pc[r] # "idle" /\ job[r].kind # "register" => job[r].user \in SignedIn

(***************************************************************************)
(* Of the tables: an account that exists is being registered or done, the  *)
(* row of one that is being registered is its own, and its mailbox comes   *)
(* last.                                                                   *)
(***************************************************************************)
UserOK(u) ==
  /\ job[u].kind = "register"
  /\ pc[u] \notin {"idle", "refused", "user", "failed"}
  /\ shaken \/ pc[u] # "undone"
RowOK(h, u) == Running(u) => h = Host(u) /\ pc[u] \in Written \cup Undoing
TableType ==
  /\ zone \in ZoneType
  /\ domains \in [Hosts -> [owner : Users \cup {None}, routing : BOOLEAN, tagged : BOOLEAN]]
  /\ users \subseteq Users /\ mailboxes \subseteq users
  /\ \A h \in Hosts : /\ domains[h].owner \in users \cup {None}
                      /\ domains[h].owner = None => ~domains[h].routing
  /\ shaken \in BOOLEAN /\ failures \in 0..MaxFailures
MemberInv ==
  /\ \A u \in users : UserOK(u)
  /\ \A h \in Hosts : domains[h].owner # None => RowOK(h, domains[h].owner)
  /\ \A u \in mailboxes : pc[u] \in {"route", "done", "undone"} \cup Undoing

\* A request that knows the zone it found has had nobody beside it.
AloneInv == \A r \in Requests : Running(r) /\ job[r].start # None =>
               \A q \in Requests : Running(q) => q = r

(***************************************************************************)
(* Until the zone is shaken: it is routed to the worker as soon as anybody *)
(* is signed in, a request that found it so finds it so, and would restore *)
(* it to that, and the one that found it otherwise is the first and alone. *)
(***************************************************************************)
Routed == zone.on /\ zone.catchAll = "worker"
PastZone(r) == /\ Running(r) /\ pc[r] \notin {"user", "zone", "unrow", "unuser"}
               /\ job[r].kind # "remove" /\ job[r].routing
CalmOK(r) ==
  /\ job[r].fresh => job[r].start # None /\ SignedIn = {}
  /\ PastZone(r) /\ ~job[r].fresh => Routed /\ job[r].wasOn /\ job[r].previous \in {None, "worker"}
  /\ PastZone(r) /\ pc[r] = "catchAll" => zone.on
  /\ PastZone(r) /\ pc[r] \in Forward => Routed
CalmInv == shaken \/ ((SignedIn # {} => Routed) /\ \A r \in Requests : CalmOK(r))

(***************************************************************************)
(* What a request alone, with nothing spoiled, has made of the zone s that *)
(* it found, and what it remembers of it, at each step p.                  *)
(***************************************************************************)
Copied(s) == IF s.on THEN s.catchAll ELSE None
Own(j) == IF j.ruled THEN {j.host} ELSE {}
\* No address rule was taken but its own, and for a registration none has come.
Spared(j, z) == /\ j.start.rules \ Own(j) \subseteq z.rules
                /\ j.kind = "register" => z.rules \subseteq j.start.rules \ Own(j)
Exact(p, j, z) ==
  LET s == j.start IN
  /\ p \in Early => z = s
  /\ p \in {"copy", "enable"} => j.wasOn = s.on
  /\ p = "copy" => s.on
  /\ p \in {"enable", "catchAll"} => j.previous = Copied(s)
  /\ p = "catchAll" => /\ j.enabled = ~s.on /\ z.on /\ z.catchAll = s.catchAll
                       /\ z.sending = s.sending /\ z.rules = s.rules
  /\ p \in Forward \cup Reverting =>
       /\ j.enabled = (j.routing /\ ~s.on)
       /\ j.previous = IF j.routing THEN Copied(s) ELSE None
       /\ j.created => j.host \notin s.sending
       /\ j.ruled => j.kind = "register"
  /\ p = "unrule" => j.ruled
  /\ p \in Forward \cup Reverting => z.on = (j.routing \/ s.on)
  /\ p \in Forward \cup {"unrule", "unsend", "restore"} =>
       z.catchAll = IF j.routing THEN "worker" ELSE s.catchAll
  /\ p = "switchOff" => z.catchAll = s.catchAll
  /\ p \in Forward \cup {"unrule", "unsend"} =>
       z.sending = IF j.created THEN s.sending \cup {j.host} ELSE s.sending
  /\ p = "create" => j.host \notin z.sending
  /\ p \in {"restore", "switchOff"} => z.sending = s.sending
  /\ p \in Forward \cup {"unrule"} =>
       /\ s.rules \subseteq z.rules
       /\ j.kind = "register" => z.rules \subseteq s.rules \cup Own(j)
  /\ p \in {"unsend", "restore", "switchOff"} => Spared(j, z)
Alone(r) == /\ Running(r) /\ job[r].kind # "remove" /\ job[r].start # None
            /\ ~job[r].spoiled /\ Kept(job[r].start)
ExactInv == \A r \in Requests : Alone(r) => Exact(pc[r], job[r], zone)

\* The rules that a domain added has brought are of the mailbox that uses all domains.
Aliased == {"select", "dns"} \cup Reverting
AliasOK(p, j, z, addresses) ==
  j.kind = "add" /\ j.start # None /\ p \notin {"unrow", "unuser"}
  => z.rules \subseteq j.start.rules \cup (IF p \in Aliased THEN addresses ELSE {})
AliasInv == \A r \in Requests : AliasOK(pc[r], job[r], zone, Addresses(job[r].user))

IInv == RunInv /\ TableType /\ MemberInv /\ AloneInv /\ CalmInv /\ ExactInv /\ AliasInv

-----------------------------------------------------------------------------
(* The order of the steps that undo and remove *)

LEMMA Least ==
  ASSUME NEW S \in SUBSET Int, NEW k \in S, \A m \in S : k <= m
  PROVE  (CHOOSE n \in S : \A m \in S : n <= m) = k
<1>1. \A n \in S : (\A m \in S : n <= m) => n = k
  OBVIOUS
<1>. QED BY <1>1

LEMMA DueOrNot ==
  ASSUME NEW j, NEW steps, Len(steps) \in Nat, NEW i \in 1..Len(steps)
  PROVE  FirstDue(j, steps, i) = IF Due(j, steps[i]) THEN steps[i] ELSE FirstDue(j, steps, i + 1)
<1> DEFINE From(k) == {n \in k..Len(steps) : Due(j, steps[n])}
           First(k) == IF From(k) = {} THEN "undone"
                       ELSE steps[CHOOSE n \in From(k) : \A m \in From(k) : n <= m]
<1>0. FirstDue(j, steps, i) = First(i) /\ FirstDue(j, steps, i + 1) = First(i + 1)
  BY DEF FirstDue
<1>1. CASE Due(j, steps[i])
  <2>1. From(i) \in SUBSET Int /\ i \in From(i) /\ \A m \in From(i) : i <= m
    BY <1>1
  <2> HIDE DEF From
  <2>2. (CHOOSE n \in From(i) : \A m \in From(i) : n <= m) = i
    BY <2>1, Least
  <2>. QED BY <1>0, <1>1, <2>1, <2>2
<1>2. CASE ~Due(j, steps[i])
  <2>1. From(i) = From(i + 1)
    BY <1>2
  <2> HIDE DEF From
  <2>. QED BY <1>0, <1>2, <2>1
<1>. QED BY <1>1, <1>2

LEMMA NoneDue ==
  ASSUME NEW j, NEW steps, Len(steps) \in Nat
  PROVE  FirstDue(j, steps, Len(steps) + 1) = "undone"
<1>1. {n \in (Len(steps) + 1)..Len(steps) : Due(j, steps[n])} = {}
  OBVIOUS
<1>. QED BY <1>1 DEF FirstDue

\* The steps of a rollback spelt out: what comes of each, if it is not due.
Undo6(j) == IF j.kind = "register" THEN "unuser" ELSE "undone"
Undo5(j) == IF j.inserted /\ ~j.known THEN "unrow" ELSE Undo6(j)
Undo4(j) == IF j.enabled THEN "switchOff" ELSE Undo5(j)
Undo3(j) == IF j.previous # None \/ j.enabled THEN "restore" ELSE Undo4(j)
Undo2(j) == IF j.created THEN "unsend" ELSE Undo3(j)
Undo1(j) == IF j.ruled THEN "unrule" ELSE Undo2(j)
Remove3(j) == IF j.sending THEN "unsendRow" ELSE "deleteRow"
Remove2(j) == IF j.routing THEN "disable" ELSE Remove3(j)

LEMMA UndoOrder ==
  ASSUME NEW j
  PROVE  /\ FirstDue(j, Undoings, 1) = Undo1(j) /\ FirstDue(j, Undoings, 2) = Undo2(j)
         /\ FirstDue(j, Undoings, 3) = Undo3(j) /\ FirstDue(j, Undoings, 4) = Undo4(j)
         /\ FirstDue(j, Undoings, 5) = Undo5(j) /\ FirstDue(j, Undoings, 6) = Undo6(j)
         /\ FirstDue(j, Undoings, 7) = "undone"
<1>1. /\ Len(Undoings) = 6
      /\ Undoings[1] = "unrule" /\ Undoings[2] = "unsend" /\ Undoings[3] = "restore"
      /\ Undoings[4] = "switchOff" /\ Undoings[5] = "unrow" /\ Undoings[6] = "unuser"
  BY DEF Undoings
<1>2. \A i \in 1..6 : FirstDue(j, Undoings, i) =
        IF Due(j, Undoings[i]) THEN Undoings[i] ELSE FirstDue(j, Undoings, i + 1)
  <2>1. Len(Undoings) \in Nat /\ \A i \in 1..6 : i \in 1..Len(Undoings)
    BY <1>1
  <2>. QED BY <2>1, DueOrNot
<1>3. FirstDue(j, Undoings, 7) = "undone"
  <2>1. Len(Undoings) \in Nat
    BY <1>1
  <2>2. FirstDue(j, Undoings, Len(Undoings) + 1) = "undone"
    BY <2>1, NoneDue
  <2>. QED BY <1>1, <2>2
<1>4. FirstDue(j, Undoings, 6) = Undo6(j)
  BY <1>1, <1>2, <1>3 DEF Due, Undo6
<1>5. FirstDue(j, Undoings, 5) = Undo5(j)
  BY <1>1, <1>2, <1>4 DEF Due, Undo5
<1>6. FirstDue(j, Undoings, 4) = Undo4(j)
  BY <1>1, <1>2, <1>5 DEF Due, Undo4
<1>7. FirstDue(j, Undoings, 3) = Undo3(j)
  BY <1>1, <1>2, <1>6 DEF Due, Undo3
<1>8. FirstDue(j, Undoings, 2) = Undo2(j)
  BY <1>1, <1>2, <1>7 DEF Due, Undo2
<1>9. FirstDue(j, Undoings, 1) = Undo1(j)
  BY <1>1, <1>2, <1>8 DEF Due, Undo1
<1>. QED BY <1>3, <1>4, <1>5, <1>6, <1>7, <1>8, <1>9

LEMMA AfterUndo ==
  ASSUME NEW j
  PROVE  /\ After(j, Undoings, "unrule") = Undo2(j) /\ After(j, Undoings, "unsend") = Undo3(j)
         /\ After(j, Undoings, "restore") = Undo4(j) /\ After(j, Undoings, "switchOff") = Undo5(j)
         /\ After(j, Undoings, "unrow") = Undo6(j) /\ After(j, Undoings, "unuser") = "undone"
<1>1. /\ Len(Undoings) = 6
      /\ Undoings[1] = "unrule" /\ Undoings[2] = "unsend" /\ Undoings[3] = "restore"
      /\ Undoings[4] = "switchOff" /\ Undoings[5] = "unrow" /\ Undoings[6] = "unuser"
  BY DEF Undoings
<1>2. ASSUME NEW k \in 1..6 PROVE (CHOOSE n \in 1..Len(Undoings) : Undoings[n] = Undoings[k]) = k
  <2>1. \A n \in 1..Len(Undoings) : Undoings[n] = Undoings[k] => n = k
    <3>1. \A n \in 1..6 : n \in {1, 2, 3, 4, 5, 6}
      OBVIOUS
    <3>. QED BY <1>1, <3>1
  <2>2. k \in 1..Len(Undoings)
    BY <1>1
  <2>. QED BY <2>1, <2>2
<1>3. \A k \in 1..6 : After(j, Undoings, Undoings[k]) = FirstDue(j, Undoings, 1 + k)
  BY <1>2 DEF After
<1>4. /\ After(j, Undoings, Undoings[1]) = FirstDue(j, Undoings, 2)
      /\ After(j, Undoings, Undoings[2]) = FirstDue(j, Undoings, 3)
      /\ After(j, Undoings, Undoings[3]) = FirstDue(j, Undoings, 4)
      /\ After(j, Undoings, Undoings[4]) = FirstDue(j, Undoings, 5)
      /\ After(j, Undoings, Undoings[5]) = FirstDue(j, Undoings, 6)
      /\ After(j, Undoings, Undoings[6]) = FirstDue(j, Undoings, 7)
  BY <1>3
<1>. QED BY <1>1, <1>4, UndoOrder

LEMMA AfterRemoval ==
  ASSUME NEW j
  PROVE  /\ After(j, Removings, "unruleAll") = Remove2(j)
         /\ After(j, Removings, "disable") = Remove3(j)
         /\ After(j, Removings, "unsendRow") = "deleteRow"
<1>1. /\ Len(Removings) = 4
      /\ Removings[1] = "unruleAll" /\ Removings[2] = "disable" /\ Removings[3] = "unsendRow"
      /\ Removings[4] = "deleteRow"
  BY DEF Removings
<1>2. ASSUME NEW k \in 1..4
      PROVE (CHOOSE n \in 1..Len(Removings) : Removings[n] = Removings[k]) = k
  <2>1. \A n \in 1..Len(Removings) : Removings[n] = Removings[k] => n = k
    <3>1. \A n \in 1..4 : n \in {1, 2, 3, 4}
      OBVIOUS
    <3>. QED BY <1>1, <3>1
  <2>2. k \in 1..Len(Removings)
    BY <1>1
  <2>. QED BY <2>1, <2>2
<1>3. \A k \in 1..4 : After(j, Removings, Removings[k]) = FirstDue(j, Removings, 1 + k)
  BY <1>2 DEF After
<1>4. /\ After(j, Removings, Removings[1]) = FirstDue(j, Removings, 2)
      /\ After(j, Removings, Removings[2]) = FirstDue(j, Removings, 3)
      /\ After(j, Removings, Removings[3]) = FirstDue(j, Removings, 4)
  BY <1>3
<1>5. \A i \in 1..4 : FirstDue(j, Removings, i) =
        IF Due(j, Removings[i]) THEN Removings[i] ELSE FirstDue(j, Removings, i + 1)
  <2>1. Len(Removings) \in Nat /\ \A i \in 1..4 : i \in 1..Len(Removings)
    BY <1>1
  <2>. QED BY <2>1, DueOrNot
<1>6. FirstDue(j, Removings, 4) = "deleteRow"
  BY <1>1, <1>5 DEF Due
<1>7. FirstDue(j, Removings, 3) = Remove3(j)
  BY <1>1, <1>5, <1>6 DEF Due, Remove3
<1>8. FirstDue(j, Removings, 2) = Remove2(j)
  BY <1>1, <1>5, <1>7 DEF Due, Remove2
<1>. QED BY <1>1, <1>4, <1>6, <1>7, <1>8

-----------------------------------------------------------------------------
(* Where a step takes a request *)

LEMMA PlacesApart ==
  /\ \A p \in Places : p \in Resting \/ p \in Early \cup Provisioning \cup Forward \cup Undoing
                                              \cup Removing
  /\ Removing \cap (Resting \cup Early \cup Provisioning \cup Forward \cup Undoing) = {}
  /\ Undoing \cap (Resting \cup Early \cup Provisioning \cup Forward) = {}
  /\ Resting \cap (Early \cup Provisioning \cup Forward) = {}
BY DEF Places, Resting, Ends, Early, Provisioning, Forward, Adding, Registering, Undoing, Removing

Fits(r, to, j) == JobOK(r, to, IF to \in Ends THEN Ended(j) ELSE j)
Kin(j, k) == /\ j.kind = k.kind /\ j.user = k.user /\ j.host = k.host /\ j.routing = k.routing
             /\ j.sending = k.sending /\ j.start = k.start
Flows(r, to) ==
  /\ to \in Places \ {"idle", "user", "refused"}
  /\ pc[r] \in Written \cup Undoing => to \in Written \cup Undoing \cup Ends
  /\ pc[r] \in {"route"} \cup Undoing => to \in {"done", "undone"} \cup Undoing
  /\ job[r].kind = "register" => /\ to = "failed" => pc[r] = "user"
                                 /\ to = "undone" => pc[r] = "unuser"
                                 /\ to = "done" => pc[r] = "route"
(* What every step of a request but its first has in common. *)
Goes(r, to, j) ==
  /\ Running(r) /\ Goto(r, to, j) /\ j \in JobType /\ Fits(r, to, j) /\ Kin(j, job[r])
  /\ Flows(r, to) /\ (pc[r] # "zone" => j.fresh = job[r].fresh)
Going(r) == \E to \in Places, j \in JobType : Goes(r, to, j)

LEMMA NobodyElse == \A u \in Users : u # None
BY ProvisionAssumption DEF Users, Requests

LEMMA NoJobType == NoJob \in JobType
BY DEF NoJob, JobType

LEMMA EndedParts ==
  ASSUME NEW j \in JobType
  PROVE  /\ Ended(j) \in JobType /\ Ended(j).kind = j.kind /\ Ended(j).user = j.user
         /\ Ended(j).host = j.host /\ Ended(j).start = None /\ ~Ended(j).fresh
         /\ ~Ended(j).enabled /\ ~Ended(j).created /\ Ended(j).previous = None
<1>1. j.kind \in {"register", "add", "remove"} /\ j.user \in Users \cup {None}
      /\ j.host \in Hosts \cup {None}
  BY DEF JobType
<1>2. /\ NoJob.start = None /\ ~NoJob.fresh /\ ~NoJob.enabled /\ ~NoJob.created
      /\ NoJob.previous = None
  BY DEF NoJob
<1>. QED BY <1>1, <1>2, NoJobType DEF Ended, JobType

LEMMA EndFits ==
  ASSUME NEW r, NEW p, NEW j, JobOK(r, p, j), p # "idle", NEW to \in Ends
  PROVE  Fits(r, to, j)
<1>1. j \in JobType /\ j.host \in Hosts /\ (j.kind = "register" => j.user = r)
  BY DEF JobOK
<1> DEFINE e == Ended(j)
<1>2. /\ e \in JobType /\ e.kind = j.kind /\ e.user = j.user /\ e.host = j.host /\ e.start = None
      /\ ~e.fresh /\ ~e.enabled /\ ~e.created /\ e.previous = None
  BY <1>1, EndedParts
<1> HIDE DEF e
<1>3. JobOK(r, to, e)
  BY <1>1, <1>2 DEF JobOK, Ends, Resting, Early, Provisioning, Adding, Registering
<1>. QED BY <1>3 DEF Fits, e

\* Where a rollback may go on.
Undoable(j, to) ==
  /\ to \in Undoing \cup {"undone"}
  /\ to = "unuser" => j.kind = "register"
  /\ to = "unsend" => j.created
  /\ to = "restore" => j.previous # None \/ j.enabled
  /\ to = "switchOff" => j.enabled

LEMMA UndoPlaces ==
  ASSUME NEW j
  PROVE  /\ \A to \in {Undo1(j), Undo2(j), Undo3(j), Undo4(j), Undo5(j), Undo6(j)} : Undoable(j, to)
         /\ j.kind = "register" =>
               "undone" \notin {Undo1(j), Undo2(j), Undo3(j), Undo4(j), Undo5(j), Undo6(j)}
BY DEF Undo1, Undo2, Undo3, Undo4, Undo5, Undo6, Undoing, Undoable

LEMMA UndoFits ==
  ASSUME NEW r, NEW p, NEW j, JobOK(r, p, j), p \in Forward \cup Provisioning \cup Undoing,
         NEW to, Undoable(j, to)
  PROVE  Fits(r, to, j)
<1>1. CASE to = "undone"
  BY <1>1, EndFits DEF Ends, Forward, Adding, Registering, Provisioning, Undoing
<1>2. CASE to \in Undoing
  BY <1>2 DEF Undoable, Fits, JobOK, Ends, Resting, Early, Provisioning, Adding, Registering,
     Undoing,
              Removing, Forward
<1>. QED BY <1>1, <1>2 DEF Undoable

LEMMA ErrorOrder ==
  ASSUME NEW r \in Requests, Running(r), pc[r] \in Places
  PROVE  /\ pc[r] \in {"user", "deleteRow"} => OnError(r) = "failed"
         /\ pc[r] \in Provisioning \cup {"dns"} =>
              OnError(r) = IF job[r].kind = "register" THEN "unuser" ELSE "failed"
         /\ pc[r] \in Adding \cup Registering => OnError(r) = Undo1(job[r])
         /\ pc[r] = "unrule" => OnError(r) = Undo2(job[r])
         /\ pc[r] = "unsend" => OnError(r) = Undo3(job[r])
         /\ pc[r] = "restore" => OnError(r) = Undo4(job[r])
         /\ pc[r] = "switchOff" => OnError(r) = Undo5(job[r])
         /\ pc[r] = "unrow" => OnError(r) = Undo6(job[r])
         /\ pc[r] = "unuser" => OnError(r) = "undone"
         /\ pc[r] = "unruleAll" => OnError(r) = Remove2(job[r])
         /\ pc[r] = "disable" => OnError(r) = Remove3(job[r])
         /\ pc[r] = "unsendRow" => OnError(r) = "deleteRow"
<1> USE DEF OnError, Provisioning, Adding, Registering, Undoing, Removing
<1>1. /\ pc[r] \in {"user", "deleteRow"} => OnError(r) = "failed"
      /\ pc[r] \in Provisioning \cup {"dns"} =>
              OnError(r) = IF job[r].kind = "register" THEN "unuser" ELSE "failed"
  OBVIOUS
<1>2. pc[r] \in Adding \cup Registering => OnError(r) = Undo1(job[r])
  BY UndoOrder
<1>3. pc[r] \in Undoing => OnError(r) = After(job[r], Undoings, pc[r])
  OBVIOUS
<1>4. pc[r] \in Removing \ {"deleteRow"} => OnError(r) = After(job[r], Removings, pc[r])
  OBVIOUS
<1>. QED BY <1>1, <1>2, <1>3, <1>4, AfterUndo, AfterRemoval

LEMMA RunParts ==
  ASSUME RunInv, NEW r \in Requests
  PROVE  /\ pc[r] \in Places /\ job[r] \in JobType /\ JobOK(r, pc[r], job[r])
         /\ Running(r) <=> pc[r] \notin Resting
         /\ ~Running(r) => ~job[r].fresh /\ job[r].start = None
         /\ pc[r] # "idle" => job[r].host \in Hosts /\ (job[r].kind = "register" => job[r].user = r)
         /\ pc[r] # "idle" /\ job[r].kind # "register" => job[r].user \in SignedIn
BY DEF RunInv, JobOK, Running, Resting

LEMMA KeepGoes ==
  ASSUME RunInv, NEW r \in Requests, NEW from, NEW to \in Places, At(r, from, to),
         from \notin Resting,
         Fits(r, to, job[r]), Flows(r, to)
  PROVE  Goes(r, to, job[r])
BY RunParts DEF Goes, At, Step, Kin

LEMMA ChangeGoes ==
  ASSUME RunInv, NEW r \in Requests, NEW from, NEW to \in Places, NEW j \in JobType,
         Step(r, from, to, j), from \notin Resting, Fits(r, to, j), Flows(r, to), Kin(j, job[r]),
         pc[r] # "zone" => j.fresh = job[r].fresh
  PROVE  Goes(r, to, j)
BY RunParts DEF Goes, Step

\* A step that leaves the variables of the request as they are.
LEMMA AheadGoes ==
  ASSUME RunInv, NEW r \in Requests,
         \/ InsertUser(r) \/ FindZone(r) \/ PutCatchAll(r) \/ ListSending(r)
         \/ RouteAliases(r) \/ SelectRow(r) \/ InsertMailbox(r) \/ RouteMailbox(r)
  PROVE  Going(r)
<1> DEFINE j == job[r]
<1>0. JobOK(r, pc[r], j) /\ j \in JobType
  BY RunParts
<1> USE DEF Ends, Resting, Early, Provisioning, Forward, Written, Adding, Registering, Undoing, Removing, Places
<1>1. CASE InsertUser(r)
  <2>1. At(r, "user", "zone") /\ pc[r] = "user"
    BY <1>1 DEF InsertUser, At, Step
  <2>2. Fits(r, "zone", j)
    BY <1>0, <2>1, EndFits DEF Fits, JobOK
  <2>3. Flows(r, "zone")
    BY <1>0, <2>1 DEF Flows, JobOK
  <2>. QED BY <1>0, <2>1, <2>2, <2>3, KeepGoes DEF Going
<1>2. CASE FindZone(r)
  <2>1. PICK to \in {"list", "find"} : At(r, "zone", to) /\ (to = "list" => j.sending)
    BY <1>2 DEF FindZone, AfterRouting
  <2>2. pc[r] = "zone"
    BY <2>1 DEF At, Step
  <2>3. Fits(r, to, j)
    BY <1>0, <2>1, <2>2 DEF Fits, JobOK
  <2>4. Flows(r, to)
    BY <2>2 DEF Flows
  <2>. QED BY <1>0, <2>1, <2>2, <2>3, <2>4, KeepGoes DEF Going
<1>3. CASE PutCatchAll(r)
  <2>1. PICK to \in {"list", "find"} : At(r, "catchAll", to) /\ (to = "list" => j.sending)
    BY <1>3 DEF PutCatchAll, AfterRouting
  <2>2. pc[r] = "catchAll"
    BY <2>1 DEF At, Step
  <2>3. Fits(r, to, j)
    BY <1>0, <2>1, <2>2 DEF Fits, JobOK
  <2>4. Flows(r, to)
    BY <2>2 DEF Flows
  <2>. QED BY <1>0, <2>1, <2>2, <2>3, <2>4, KeepGoes DEF Going
<1>4. CASE ListSending(r)
  <2>1. PICK to \in {"find", "create"} : At(r, "list", to)
    BY <1>4 DEF ListSending, AfterRouting
  <2>2. pc[r] = "list"
    BY <2>1 DEF At, Step
  <2>3. Fits(r, to, j)
    BY <1>0, <2>1, <2>2 DEF Fits, JobOK
  <2>4. Flows(r, to)
    BY <2>2 DEF Flows
  <2>. QED BY <1>0, <2>1, <2>2, <2>3, <2>4, KeepGoes DEF Going
<1>5. CASE RouteAliases(r)
  <2>1. At(r, "alias", "select") /\ pc[r] = "alias"
    BY <1>5 DEF RouteAliases, At, Step
  <2>2. Fits(r, "select", j)
    BY <1>0, <2>1, EndFits DEF Fits, JobOK
  <2>3. Flows(r, "select")
    BY <1>0, <2>1 DEF Flows, JobOK
  <2>. QED BY <1>0, <2>1, <2>2, <2>3, KeepGoes DEF Going
<1>6. CASE SelectRow(r)
  <2>1. At(r, "select", "dns") /\ pc[r] = "select"
    BY <1>6 DEF SelectRow, At, Step
  <2>2. Fits(r, "dns", j)
    BY <1>0, <2>1, EndFits DEF Fits, JobOK
  <2>3. Flows(r, "dns")
    BY <1>0, <2>1 DEF Flows, JobOK
  <2>. QED BY <1>0, <2>1, <2>2, <2>3, KeepGoes DEF Going
<1>7. CASE InsertMailbox(r)
  <2>1. At(r, "mailbox", "route") /\ pc[r] = "mailbox"
    BY <1>7 DEF InsertMailbox, At, Step
  <2>2. Fits(r, "route", j)
    BY <1>0, <2>1, EndFits DEF Fits, JobOK
  <2>3. Flows(r, "route")
    BY <1>0, <2>1 DEF Flows, JobOK
  <2>. QED BY <1>0, <2>1, <2>2, <2>3, KeepGoes DEF Going
<1>8. CASE RouteMailbox(r)
  <2>1. At(r, "route", "done") /\ pc[r] = "route"
    BY <1>8 DEF RouteMailbox, At, Step
  <2>2. Fits(r, "done", j)
    BY <1>0, <2>1, EndFits DEF Fits, JobOK
  <2>3. Flows(r, "done")
    BY <1>0, <2>1 DEF Flows, JobOK
  <2>. QED BY <1>0, <2>1, <2>2, <2>3, KeepGoes DEF Going
<1>. QED BY <1>1, <1>2, <1>3, <1>4, <1>5, <1>6, <1>7, <1>8

\* A step that notes something in the variables of the request.
LEMMA NotedGoes ==
  ASSUME RunInv, zone \in ZoneType, NEW r \in Requests,
         \/ \E readable \in BOOLEAN : ReadSettings(r, readable) \/ ReadCatchAll(r, readable)
         \/ EnableRouting(r) \/ CreateSending(r) \/ ReadDns(r) \/ MakeRule(r)
  PROVE  Going(r)
<1>0. JobOK(r, pc[r], job[r]) /\ job[r] \in JobType
  BY RunParts
<1>00. zone.on \in BOOLEAN /\ zone.catchAll \in CatchAlls
  BY DEF ZoneType
<1> USE DEF Ends, Resting, Early, Provisioning, Forward, Written, Adding, Registering, Undoing, Removing, Places
<1>1. ASSUME NEW readable \in BOOLEAN, ReadSettings(r, readable) PROVE Going(r)
  <2> DEFINE w == readable => zone.on
             f == ~zone.on \/ zone.catchAll # "worker"
             s == ~readable
             to == IF w THEN "copy" ELSE "enable"
             j == [job[r] EXCEPT !.wasOn = w, !.fresh = f, !.spoiled = s]
  <2>0. pc[r] = "zone" /\ Step(r, "zone", to, j) /\ job[r].routing
    BY <1>1 DEF ReadSettings, Step
  <2>1. /\ w \in BOOLEAN /\ f \in BOOLEAN /\ s \in BOOLEAN /\ to \in {"copy", "enable"}
        /\ job[r].routing /\ job[r].kind # "remove"
    <3>1. job[r].routing /\ job[r].kind # "remove"
      BY <1>0, <2>0 DEF JobOK
    <3>2. w \in BOOLEAN
      BY <1>00
    <3>3. f \in BOOLEAN /\ s \in BOOLEAN
      BY <1>00
    <3>. QED BY <3>1, <3>2, <3>3
  <2> HIDE DEF w, f, s, to
  <2>2. j \in JobType /\ Kin(j, job[r])
    <3>1. j \in JobType
      <4> DEFINE a == [job[r] EXCEPT !.wasOn = w]
                 b == [a EXCEPT !.fresh = f]
      <4>1. a \in JobType
        BY <1>0, <2>1 DEF JobType
      <4>2. j = [b EXCEPT !.spoiled = s]
        OBVIOUS
      <4> HIDE DEF a
      <4>3. b \in JobType
        BY <2>1, <4>1 DEF JobType
      <4> HIDE DEF b
      <4>4. [b EXCEPT !.spoiled = s] \in JobType
        BY <2>1, <4>3 DEF JobType
      <4>. QED BY <4>2, <4>4
    <3>2. Kin(j, job[r])
      BY <1>0 DEF JobType, Kin
    <3>. QED BY <3>1, <3>2
  <2>3. Fits(r, to, j)
    BY <1>0, <2>0, <2>1, <2>2, EndFits DEF Fits, JobOK, JobType
  <2>4. Flows(r, to) /\ to \in Places
    BY <1>0, <2>0, <2>1 DEF Flows, JobOK
  <2>5. pc[r] # "zone" => j.fresh = job[r].fresh
    BY <1>0, <2>0 DEF JobType
  <2> HIDE DEF j
  <2>. QED BY <2>0, <2>2, <2>3, <2>4, <2>5, ChangeGoes DEF Going
<1>2. ASSUME NEW readable \in BOOLEAN, ReadCatchAll(r, readable) PROVE Going(r)
  <2> DEFINE p == IF readable THEN zone.catchAll ELSE None
             s == job[r].spoiled \/ ~readable
             to == "enable"
             j == [job[r] EXCEPT !.previous = p, !.spoiled = s]
  <2>0. pc[r] = "copy" /\ Step(r, "copy", to, j)
    BY <1>2 DEF ReadCatchAll, Step
  <2>1. p \in CatchAlls \cup {None} /\ s \in BOOLEAN /\ to = "enable" /\ job[r].kind # "remove"
    BY <1>0, <1>00, <2>0 DEF JobOK
  <2> HIDE DEF p, s, to
  <2>2. j \in JobType /\ Kin(j, job[r])
    BY <1>0, <2>1 DEF JobType, Kin
  <2>3. Fits(r, to, j)
    BY <1>0, <2>0, <2>1, <2>2, EndFits DEF Fits, JobOK, JobType
  <2>4. Flows(r, to) /\ to \in Places
    BY <1>0, <2>0, <2>1 DEF Flows, JobOK
  <2>5. pc[r] # "zone" => j.fresh = job[r].fresh
    BY <1>0, <2>0 DEF JobType
  <2> HIDE DEF j
  <2>. QED BY <2>0, <2>2, <2>3, <2>4, <2>5, ChangeGoes DEF Going
<1>3. CASE EnableRouting(r)
  <2> DEFINE e == ~job[r].wasOn
             to == "catchAll"
             j == [job[r] EXCEPT !.enabled = e]
  <2>0. pc[r] = "enable" /\ Step(r, "enable", to, j)
    BY <1>3 DEF EnableRouting, TurnedOn, Step
  <2>1. e \in BOOLEAN /\ e = ~job[r].wasOn /\ to = "catchAll" /\ job[r].kind # "remove"
    BY <1>0, <1>00, <2>0 DEF JobOK
  <2> HIDE DEF e, to
  <2>2. j \in JobType /\ Kin(j, job[r])
    BY <1>0, <2>1 DEF JobType, Kin
  <2>3. Fits(r, to, j)
    BY <1>0, <2>0, <2>1, <2>2, EndFits DEF Fits, JobOK, JobType
  <2>4. Flows(r, to) /\ to \in Places
    BY <1>0, <2>0, <2>1 DEF Flows, JobOK
  <2>5. pc[r] # "zone" => j.fresh = job[r].fresh
    BY <1>0, <2>0 DEF JobType
  <2> HIDE DEF j
  <2>. QED BY <2>0, <2>2, <2>3, <2>4, <2>5, ChangeGoes DEF Going
<1>4. CASE CreateSending(r)
  <2> DEFINE to == "find"
             j == [job[r] EXCEPT !.created = TRUE]
  <2>0. pc[r] = "create" /\ Step(r, "create", to, j)
    BY <1>4 DEF CreateSending, Step
  <2>1. to = "find"
    BY <1>0, <1>00, <2>0 DEF JobOK
  <2> HIDE DEF to
  <2>2. j \in JobType /\ Kin(j, job[r])
    BY <1>0, <2>1 DEF JobType, Kin
  <2>3. Fits(r, to, j)
    BY <1>0, <2>0, <2>1, <2>2, EndFits DEF Fits, JobOK, JobType
  <2>4. Flows(r, to) /\ to \in Places
    BY <1>0, <2>0, <2>1 DEF Flows, JobOK
  <2>5. pc[r] # "zone" => j.fresh = job[r].fresh
    BY <1>0, <2>0 DEF JobType
  <2> HIDE DEF j
  <2>. QED BY <2>0, <2>2, <2>3, <2>4, <2>5, ChangeGoes DEF Going
<1>5. CASE ReadDns(r)
  <2> DEFINE k == job[r].kind = "register"
             to == IF k THEN "rule" ELSE "done"
             j == [job[r] EXCEPT !.known = k]
  <2>0. pc[r] = "dns" /\ Step(r, "dns", to, j)
    BY <1>5 DEF ReadDns, Step
  <2>1. k \in BOOLEAN /\ to \in {"rule", "done"} /\ (job[r].kind = "register" <=> to = "rule")
    BY <1>0, <1>00, <2>0 DEF JobOK
  <2> HIDE DEF k, to
  <2>2. j \in JobType /\ Kin(j, job[r])
    BY <1>0, <2>1 DEF JobType, Kin
  <2>3. Fits(r, to, j)
    <3>1. JobOK(r, "dns", j)
      BY <1>0, <2>0, <2>2 DEF JobOK, JobType
    <3>2. CASE to = "done"
      BY <2>1, <3>1, <3>2, EndFits
    <3>3. CASE to = "rule"
      BY <2>0, <2>1, <3>1, <3>3 DEF Fits, JobOK, Kin
    <3>. QED BY <2>1, <3>2, <3>3
  <2>4. Flows(r, to) /\ to \in Places
    BY <1>0, <2>0, <2>1 DEF Flows, JobOK
  <2>5. pc[r] # "zone" => j.fresh = job[r].fresh
    BY <1>0, <2>0 DEF JobType
  <2> HIDE DEF j
  <2>. QED BY <2>0, <2>2, <2>3, <2>4, <2>5, ChangeGoes DEF Going
<1>6. CASE MakeRule(r)
  <2> DEFINE to == "mailbox"
             j == [job[r] EXCEPT !.ruled = TRUE]
  <2>0. pc[r] = "rule" /\ Step(r, "rule", to, j)
    BY <1>6 DEF MakeRule, Step
  <2>1. to = "mailbox"
    BY <1>0, <1>00, <2>0 DEF JobOK
  <2> HIDE DEF to
  <2>2. j \in JobType /\ Kin(j, job[r])
    BY <1>0, <2>1 DEF JobType, Kin
  <2>3. Fits(r, to, j)
    BY <1>0, <2>0, <2>1, <2>2, EndFits DEF Fits, JobOK, JobType
  <2>4. Flows(r, to) /\ to \in Places
    BY <1>0, <2>0, <2>1 DEF Flows, JobOK
  <2>5. pc[r] # "zone" => j.fresh = job[r].fresh
    BY <1>0, <2>0 DEF JobType
  <2> HIDE DEF j
  <2>. QED BY <2>0, <2>2, <2>3, <2>4, <2>5, ChangeGoes DEF Going
<1>. QED BY <1>1, <1>2, <1>3, <1>4, <1>5, <1>6

LEMMA RemovalFits ==
  ASSUME NEW r, NEW p \in Removing, NEW j, JobOK(r, p, j), NEW to \in Removing
  PROVE  Fits(r, to, j)
<1>1. to \notin Ends
  BY DEF Removing, Ends
<1>. QED BY <1>1 DEF Fits, JobOK, Ends, Resting, Early, Provisioning, Adding, Registering,
            Removing

\* The step of a rollback or of a removal that comes after the request's.
Onward(r, to) ==
  /\ pc[r] \in Undoing => Undoable(job[r], to)
  /\ pc[r] \in Undoing /\ to = "undone" /\ job[r].kind = "register" => pc[r] = "unuser"
  /\ pc[r] \in Removing => to \in Removing

LEMMA NextUndo ==
  ASSUME NEW r \in Requests, pc[r] \in Undoing
  PROVE  Onward(r, After(job[r], Undoings, pc[r]))
<1> DEFINE j == job[r]
<1>1. Undoing \cap Removing = {}
  BY PlacesApart
<1>2. CASE pc[r] = "unuser"
  BY <1>1, <1>2, AfterUndo DEF Onward, Undoable
<1>3. CASE pc[r] # "unuser"
  <2>1. After(j, Undoings, pc[r]) \in {Undo2(j), Undo3(j), Undo4(j), Undo5(j), Undo6(j)}
    BY <1>3, AfterUndo DEF Undoing
  <2>. QED BY <1>1, <2>1, UndoPlaces DEF Onward
<1>. QED BY <1>2, <1>3

LEMMA NextRemoval ==
  ASSUME NEW r \in Requests, pc[r] \in Removing, pc[r] # "deleteRow"
  PROVE  Onward(r, After(job[r], Removings, pc[r]))
<1>1. Undoing \cap Removing = {}
  BY PlacesApart
<1>2. After(job[r], Removings, pc[r]) \in {Remove2(job[r]), Remove3(job[r]), "deleteRow"}
  BY AfterRemoval DEF Removing
<1>. QED BY <1>1, <1>2 DEF Onward, Remove2, Remove3, Removing

LEMMA NextGoes ==
  ASSUME RunInv, NEW r \in Requests, NEW j, JobOK(r, pc[r], j), Kin(j, job[r]), NEW to,
         j.enabled = job[r].enabled, j.previous = job[r].previous, j.created = job[r].created,
         pc[r] \in Undoing \cup Removing, Onward(r, to)
  PROVE  to \in Places /\ Fits(r, to, j) /\ Flows(r, to)
<1>1. CASE pc[r] \in Undoing
  <2>1. to \in Undoing \cup {"undone"} /\ Undoable(j, to)
    BY <1>1 DEF Onward, Kin, Undoable
  <2>2. Fits(r, to, j)
    BY <1>1, <2>1, UndoFits
  <2>3. to \in Places \ {"idle", "user", "refused"}
    BY <2>1 DEF Places, Undoing, Ends
  <2>4. Flows(r, to)
    BY <1>1, <2>1, <2>3 DEF Flows, Onward, Ends, Undoing
  <2>. QED BY <2>2, <2>3, <2>4
<1>2. CASE pc[r] \in Removing
  <2>1. to \in Removing
    BY <1>2 DEF Onward
  <2>2. Fits(r, to, j)
    BY <1>2, <2>1, RemovalFits
  <2>3. to \in Places \ {"idle", "user", "refused"}
    BY <2>1 DEF Places, Removing
  <2>4. Flows(r, to)
    BY <1>2, <2>1, <2>3 DEF Flows, Removing, Undoing, Written, Registering
  <2>. QED BY <2>2, <2>3, <2>4
<1>. QED BY <1>1, <1>2

\* What follows on a throw fits the request.
LEMMA ErrorGoes ==
  ASSUME RunInv, NEW r \in Requests, Running(r), NEW j, JobOK(r, pc[r], j), Kin(j, job[r]),
         j.enabled = job[r].enabled, j.previous = job[r].previous, j.created = job[r].created
  PROVE  OnError(r) \in Places /\ Fits(r, OnError(r), j) /\ Flows(r, OnError(r))
<1> DEFINE to == OnError(r)
<1>0. /\ pc[r] \in Places /\ JobOK(r, pc[r], job[r]) /\ pc[r] \notin Resting /\ pc[r] # "idle"
      /\ j.kind = job[r].kind
  BY RunParts DEF Kin, Resting
<1>1. CASE pc[r] \in Undoing \cup (Removing \ {"deleteRow"})
  <2>1. to = IF pc[r] \in Undoing THEN After(job[r], Undoings, pc[r]) ELSE After(job[r], Removings, pc[r])
    BY <1>1 DEF OnError, Provisioning, Adding, Registering, Undoing, Removing
  <2>2. Onward(r, to)
    BY <1>1, <2>1, NextUndo, NextRemoval
  <2>. QED BY <1>1, <2>2, NextGoes
<1>2. CASE pc[r] \in {"user", "deleteRow"}
  <2>1. to = "failed"
    BY <1>0, <1>2, ErrorOrder
  <2>2. Fits(r, to, j)
    BY <1>0, <2>1, EndFits DEF Ends
  <2>3. Flows(r, to) /\ to \in Places
    BY <1>0, <1>2, <2>1 DEF Flows, JobOK, Places, Ends, Written, Registering, Undoing, Removing
  <2>. QED BY <2>2, <2>3
<1>3. CASE pc[r] \in Provisioning \cup {"dns"}
  <2>1. to = IF job[r].kind = "register" THEN "unuser" ELSE "failed"
    BY <1>0, <1>3, ErrorOrder
  <2>2. Fits(r, to, j)
    <3>1. CASE to = "failed"
      BY <1>0, <3>1, EndFits DEF Ends
    <3>2. CASE to = "unuser"
      BY <1>0, <1>3, <2>1, <3>2, UndoFits DEF Forward, Undoing, Undoable
    <3>. QED BY <2>1, <3>1, <3>2
  <2>3. Flows(r, to) /\ to \in Places
    BY <1>3, <2>1 DEF Flows, Places, Ends, Provisioning, Undoing
  <2>. QED BY <2>2, <2>3
<1>4. CASE pc[r] \in Adding \cup Registering
  <2>1. to = Undo1(job[r])
    BY <1>0, <1>4, ErrorOrder
  <2>2. /\ to \in Undoing \cup {"undone"} /\ Undoable(j, to)
        /\ job[r].kind = "register" => to # "undone"
    BY <1>0, <2>1, UndoPlaces DEF Undoable
  <2>3. Fits(r, to, j)
    BY <1>0, <1>4, <2>2, UndoFits DEF Forward
  <2>4. Flows(r, to) /\ to \in Places
    BY <1>4, <2>2 DEF Flows, Places, Ends, Undoing
  <2>. QED BY <2>3, <2>4
<1>. QED BY <1>0, <1>1, <1>2, <1>3, <1>4 DEF Places, Resting

LEMMA FailGoes ==
  ASSUME RunInv, NEW r \in Requests, Fail(r) \/ Miss(r)
  PROVE  Going(r)
<1>0. JobOK(r, pc[r], job[r]) /\ job[r] \in JobType /\ Kin(job[r], job[r])
  BY RunParts DEF Kin
<1>1. CASE Fail(r)
  <2> DEFINE s == job[r].spoiled \/ pc[r] \in Undoing
             j == [job[r] EXCEPT !.spoiled = s]
  <2>1. Goto(r, OnError(r), j) /\ Running(r)
    BY <1>1 DEF Fail
  <2>2. s \in BOOLEAN /\ (pc[r] \notin Undoing => s = job[r].spoiled)
    BY <1>0 DEF JobType
  <2> HIDE DEF s
  <2>3. j \in JobType /\ Kin(j, job[r]) /\ j.fresh = job[r].fresh
        /\ j.enabled = job[r].enabled /\ j.previous = job[r].previous
        /\ j.created = job[r].created
    BY <1>0, <2>2 DEF JobType, Kin
  <2>4. JobOK(r, pc[r], j)
    <3>1. pc[r] # "idle"
      BY <2>1 DEF Running
    <3>2. pc[r] \in {"user", "zone"} => ~j.spoiled
      BY <1>0, <2>2 DEF JobOK, JobType, Undoing
    <3>. QED BY <1>0, <2>2, <2>3, <3>1, <3>2 DEF JobOK, JobType
  <2> HIDE DEF j
  <2>. QED BY <2>1, <2>3, <2>4, ErrorGoes DEF Going, Goes
<1>2. CASE Miss(r)
  <2>1. Goto(r, OnError(r), job[r]) /\ Running(r)
    BY <1>2 DEF Miss, Running, Ends
  <2>. QED BY <1>0, <2>1, ErrorGoes DEF Going, Goes
<1>. QED BY <1>1, <1>2

LEMMA BackGoes ==
  ASSUME RunInv, NEW r \in Requests,
         \/ UndoRule(r) \/ UndoSending(r) \/ RestoreCatchAll(r) \/ UndoRouting(r)
         \/ UndoRow(r) \/ UndoUser(r) \/ RemoveRules(r) \/ DisableRouting(r) \/ RemoveSending(r)
  PROVE  Going(r)
<1>0. JobOK(r, pc[r], job[r]) /\ job[r] \in JobType /\ Kin(job[r], job[r])
  BY RunParts DEF Kin
<1>1. PICK to : /\ At(r, pc[r], to) /\ Onward(r, to)
                /\ pc[r] \in Undoing \cup Removing
  <2>1. CASE \/ UndoRule(r) \/ UndoSending(r) \/ RestoreCatchAll(r) \/ UndoRouting(r)
             \/ UndoRow(r) \/ UndoUser(r)
    <3>1. PICK step \in Undoing : At(r, step, After(job[r], Undoings, step))
      BY <2>1 DEF UndoRule, UndoSending, RestoreCatchAll, UndoRouting, UndoRow, UndoUser, Undo,
         Undoing
    <3>2. pc[r] = step
      BY <3>1 DEF At, Step
    <3>. QED BY <3>1, <3>2, NextUndo
  <2>2. CASE RemoveRules(r) \/ DisableRouting(r) \/ RemoveSending(r)
    <3>1. PICK step \in Removing \ {"deleteRow"} : At(r, step, After(job[r], Removings, step))
      BY <2>2 DEF RemoveRules, DisableRouting, RemoveSending, RemoveStep, Removing
    <3>2. pc[r] = step
      BY <3>1 DEF At, Step
    <3>. QED BY <3>1, <3>2, NextRemoval
  <2>. QED BY <2>1, <2>2
<1>2. to \in Places /\ Fits(r, to, job[r]) /\ Flows(r, to)
  BY <1>0, <1>1, NextGoes
<1>3. pc[r] \notin Resting
  BY <1>1, PlacesApart
<1>. QED BY <1>0, <1>1, <1>2, <1>3, KeepGoes DEF Going

LEMMA RowGoes ==
  ASSUME RunInv, NEW r \in Requests, FindRow(r) \/ WriteRow(r) \/ DeleteRow(r)
  PROVE  Going(r)
<1>0. JobOK(r, pc[r], job[r]) /\ job[r] \in JobType /\ Kin(job[r], job[r])
  BY RunParts DEF Kin
<1> USE DEF Ends, Resting, Early, Provisioning, Forward, Written, Adding, Registering, Undoing, Removing, Places
<1>1. CASE FindRow(r)
  <2> DEFINE f == domains[Host(r)].owner # None
             j == [job[r] EXCEPT !.found = f]
  <2>1. PICK to \in {"write", OnError(r)} : Step(r, "find", to, j)
    BY <1>1 DEF FindRow
  <2>2. pc[r] = "find" /\ Running(r) /\ f \in BOOLEAN
    BY <2>1 DEF Step, Running
  <2> HIDE DEF f
  <2>3. j \in JobType /\ Kin(j, job[r]) /\ j.fresh = job[r].fresh
        /\ j.enabled = job[r].enabled /\ j.previous = job[r].previous
        /\ j.created = job[r].created
    BY <1>0, <2>2 DEF JobType, Kin
  <2>4. JobOK(r, "find", j)
    BY <1>0, <2>2, <2>3 DEF JobOK, JobType
  <2> HIDE DEF j
  <2>5. to \in Places /\ Fits(r, to, j) /\ Flows(r, to)
    <3>1. CASE to = "write"
      <4>1. Fits(r, to, j)
        BY <2>4, <3>1 DEF Fits, JobOK
      <4>2. Flows(r, to)
        BY <2>2, <3>1 DEF Flows
      <4>. QED BY <3>1, <4>1, <4>2
    <3>2. CASE to = OnError(r)
      BY <2>2, <2>3, <2>4, <3>2, ErrorGoes
    <3>. QED BY <2>1, <3>1, <3>2
  <2>. QED BY <2>1, <2>2, <2>3, <2>5, ChangeGoes DEF Going
<1>2. CASE WriteRow(r)
  <2>1. pc[r] = "write" /\ Running(r)
    BY <1>2 DEF WriteRow, At, Step, Running
  <2>2. PICK j \in {job[r], [job[r] EXCEPT !.inserted = TRUE]}, to \in {"alias", OnError(r)} :
               Step(r, "write", to, j)
    BY <1>2 DEF WriteRow, At
  <2>3. j \in JobType /\ Kin(j, job[r]) /\ j.fresh = job[r].fresh
        /\ j.enabled = job[r].enabled /\ j.previous = job[r].previous
        /\ j.created = job[r].created
    BY <1>0, <2>2 DEF JobType, Kin
  <2>4. JobOK(r, "write", j)
    <3>1. CASE j = job[r]
      BY <1>0, <2>1, <3>1
    <3>2. CASE j = [job[r] EXCEPT !.inserted = TRUE]
      BY <1>0, <2>1, <2>3, <3>2 DEF JobOK, JobType
    <3>. QED BY <2>2, <3>1, <3>2
  <2>5. to \in Places /\ Fits(r, to, j) /\ Flows(r, to)
    <3>1. CASE to = "alias"
      <4>1. Fits(r, to, j)
        BY <2>4, <3>1 DEF Fits, JobOK
      <4>2. Flows(r, to)
        BY <2>1, <3>1 DEF Flows
      <4>. QED BY <3>1, <4>1, <4>2
    <3>2. CASE to = OnError(r)
      BY <2>1, <2>3, <2>4, <3>2, ErrorGoes
    <3>. QED BY <2>2, <3>1, <3>2
  <2>. QED BY <2>1, <2>2, <2>3, <2>5, ChangeGoes DEF Going
<1>3. CASE DeleteRow(r)
  <2>1. At(r, "deleteRow", "done") /\ pc[r] = "deleteRow"
    BY <1>3 DEF DeleteRow, At, Step
  <2>2. Fits(r, "done", job[r])
    BY <1>0, <2>1, EndFits
  <2>3. Flows(r, "done")
    BY <1>0, <2>1 DEF Flows, JobOK
  <2>. QED BY <1>0, <2>1, <2>2, <2>3, KeepGoes DEF Going
<1>. QED BY <1>1, <1>2, <1>3

Acting(r) == Go(r) \/ GoBack(r) \/ Remove(r)

LEMMA ActingGoes ==
  ASSUME RunInv, zone \in ZoneType, NEW r \in Requests, Acting(r)
  PROVE  Going(r)
BY AheadGoes, NotedGoes, FailGoes, BackGoes, RowGoes DEF Acting, Go, GoBack, Remove

\* What such a step leaves behind.
LEMMA Gone ==
  ASSUME RunInv, NEW r \in Requests, NEW to \in Places, NEW j \in JobType, Goes(r, to, j)
  PROVE  /\ pc' \in [Requests -> Places] /\ job' \in [Requests -> JobType]
         /\ pc'[r] = to /\ job'[r] = IF to \in Ends THEN Ended(j) ELSE j
         /\ \A q \in Requests : q # r => pc'[q] = pc[q] /\ job'[q] = job[q]
         /\ JobOK(r, pc'[r], job'[r]) /\ pc[r] \notin Resting
         /\ job'[r].kind = job[r].kind /\ job'[r].user = job[r].user /\ job'[r].host = job[r].host
         /\ to \notin Resting => Kin(job'[r], job[r])
         /\ pc[r] # "zone" /\ to \notin Resting => job'[r].fresh = job[r].fresh
<1> DEFINE k == IF to \in Ends THEN Ended(j) ELSE j
<1>1. pc \in [Requests -> Places] /\ job \in [Requests -> JobType]
  BY DEF RunInv
<1>2. pc' = [pc EXCEPT ![r] = to] /\ job' = [job EXCEPT ![r] = k] /\ pc[r] \notin Resting
  BY DEF Goes, Goto, Running, Resting
<1>3. k \in JobType /\ k.kind = j.kind /\ k.user = j.user /\ k.host = j.host
  BY EndedParts
<1>4. JobOK(r, to, k) /\ Kin(j, job[r]) /\ (pc[r] # "zone" => j.fresh = job[r].fresh)
  BY DEF Goes, Fits
<1>5. to \notin Resting => k = j
  BY DEF Resting
<1> HIDE DEF k
<1>6. pc'[r] = to /\ job'[r] = k
  BY <1>1, <1>2
<1>7. pc' \in [Requests -> Places] /\ job' \in [Requests -> JobType]
  BY <1>1, <1>2, <1>3
<1>8. \A q \in Requests : q # r => pc'[q] = pc[q] /\ job'[q] = job[q]
  BY <1>1, <1>2
<1>. QED BY <1>2, <1>3, <1>4, <1>5, <1>6, <1>7, <1>8 DEF k, Kin

\* Who is signed in stays so: only a registration under way is deleted.
LEMMA SignedStays ==
  ASSUME RunInv, TableType, NEW r \in Requests, Acting(r)
  PROVE  /\ SignedIn \subseteq SignedIn' /\ r \notin SignedIn
         /\ users' \subseteq users \cup {r} /\ users \subseteq users' \cup {r}
<1>1. PICK to \in Places, j \in JobType : Goes(r, to, j)
  BY ActingGoes DEF Going, TableType
<1>2. pc[r] # "done" /\ \A q \in Requests : q # r => pc'[q] = pc[q]
  BY <1>1, Gone DEF Resting, Ends
<1>3. users' \subseteq users \cup {r} /\ users \subseteq users' \cup {r}
  <2>1. CASE Go(r)
    BY <2>1 DEF Go, InsertUser, FindZone, ReadSettings, ReadCatchAll, EnableRouting, PutCatchAll,
       ListSending, CreateSending, FindRow, WriteRow, RouteAliases, SelectRow, ReadDns, MakeRule,
       InsertMailbox, RouteMailbox, Rows
  <2>2. CASE GoBack(r)
    BY <2>2 DEF GoBack, Fail, Miss, UndoRule, UndoSending, RestoreCatchAll, UndoRouting, UndoRow,
       UndoUser, AccountDeleted, Rows
  <2>3. CASE Remove(r)
    BY <2>3 DEF Remove, RemoveRules, DisableRouting, RemoveSending, DeleteRow, RemoveStep, Rows
  <2>. QED BY <2>1, <2>2, <2>3 DEF Acting
<1>4. users \subseteq Requests
  BY DEF TableType, Users
<1>5. SignedIn \subseteq SignedIn' /\ r \notin SignedIn
  BY <1>2, <1>3, <1>4 DEF SignedIn
<1>. QED BY <1>3, <1>5

LEMMA RunStays ==
  ASSUME RunInv, TableType, NEW r \in Requests, Acting(r)
  PROVE  RunInv'
<1>1. PICK to \in Places, j \in JobType : Goes(r, to, j)
  BY ActingGoes DEF Going, TableType
<1>2. pc' \in [Requests -> Places] /\ job' \in [Requests -> JobType]
  BY <1>1, Gone
<1>3. \A q \in Requests : JobOK(q, pc'[q], job'[q])
  BY <1>1, Gone, RunParts
<1>4. ASSUME NEW q \in Requests, pc'[q] # "idle", job'[q].kind # "register"
      PROVE  job'[q].user \in SignedIn'
  <2>1. pc[q] # "idle" /\ job[q].kind = job'[q].kind /\ job[q].user = job'[q].user
    BY <1>1, <1>4, Gone DEF Resting
  <2>. QED BY <1>4, <2>1, RunParts, SignedStays
<1>. QED BY <1>2, <1>3, <1>4 DEF RunInv

LEMMA AloneStays ==
  ASSUME RunInv, TableType, AloneInv, NEW r \in Requests, Acting(r)
  PROVE  AloneInv'
<1>1. PICK to \in Places, j \in JobType : Goes(r, to, j)
  BY ActingGoes DEF Going, TableType
<1>2. \A q \in Requests : Running(q)' => Running(q)
  BY <1>1, Gone DEF Running, Resting
<1>3. Running(r)
  BY <1>1 DEF Goes
<1>4. SUFFICES ASSUME NEW q \in Requests, Running(q)', job'[q].start # None
               PROVE  \A p \in Requests : Running(p)' => p = q
  BY DEF AloneInv
<1>5. job[q].start # None
  <2>1. CASE q # r
    BY <1>1, <1>4, <2>1, Gone
  <2>2. CASE q = r
    BY <1>1, <1>4, <2>2, Gone DEF Running, Resting, Kin
  <2>. QED BY <2>1, <2>2
<1>. QED BY <1>2, <1>4, <1>5 DEF AloneInv

-----------------------------------------------------------------------------
(* What a step of a request does to the tables *)

Effects(r) ==
  /\ r \in users' \ users => pc'[r] = "zone"
  /\ r \in users' /\ pc[r] = "unuser" => shaken'
  /\ shaken => shaken'
  /\ mailboxes' \subseteq mailboxes \cup {r}
  /\ r \in mailboxes' \ mailboxes => pc'[r] = "route"
  /\ \A h \in Hosts : \/ domains'[h].owner \in {None, domains[h].owner}
                      \/ /\ pc[r] = "write" /\ pc'[r] = "alias"
                         /\ h = Host(r) /\ domains'[h].owner = job[r].user

LEMMA StepTo ==
  ASSUME RunInv, NEW r \in Requests, NEW to, NEW j, Goto(r, to, j)
  PROVE  pc'[r] = to
BY DEF RunInv, Goto

LEMMA KeptEffects ==
  ASSUME UNCHANGED Rows, NEW r, shaken => shaken', pc[r] = "unuser" => shaken'
  PROVE  Effects(r)
BY DEF Effects, Rows

LEMMA GoEffects ==
  ASSUME RunInv, TableType, NEW r \in Requests, Go(r)
  PROVE  Effects(r) /\ TableType'
<1>0. /\ zone \in ZoneType
      /\ domains \in [Hosts -> [owner : Users \cup {None}, routing : BOOLEAN, tagged : BOOLEAN]]
      /\ users \subseteq Users /\ mailboxes \subseteq users
      /\ \A h \in Hosts : /\ domains[h].owner \in users \cup {None}
                          /\ domains[h].owner = None => ~domains[h].routing
      /\ shaken \in BOOLEAN /\ failures \in 0..MaxFailures /\ MaxFailures \in Nat
  BY ProvisionAssumption DEF TableType
<1>00. pc[r] # "idle" => Host(r) \in Hosts
  BY RunParts DEF Host
<1>1. CASE InsertUser(r)
  <2>1. pc[r] = "user" /\ pc'[r] = "zone"
    BY <1>1, StepTo DEF InsertUser, At, Step
  <2>. QED BY <1>0, <1>1, <2>1 DEF InsertUser, Quiet, Effects, TableType, Users
<1>2. CASE \/ FindZone(r) \/ ListSending(r) \/ FindRow(r) \/ SelectRow(r) \/ ReadDns(r)
  <2>1. UNCHANGED <<zone, Rows, shaken, failures>> /\ pc[r] # "unuser"
    BY <1>2 DEF FindZone, ListSending, FindRow, SelectRow, ReadDns, At, Step, Quiet
  <2>2. TableType'
    BY <1>0, <2>1 DEF TableType, Rows
  <2>. QED BY <2>1, <2>2, KeptEffects
<1>3. ASSUME NEW readable \in BOOLEAN, ReadSettings(r, readable) \/ ReadCatchAll(r, readable)
      PROVE  Effects(r) /\ TableType'
  <2>1. UNCHANGED <<zone, Rows>> /\ Glimpse(readable) /\ pc[r] # "unuser"
    BY <1>3 DEF ReadSettings, ReadCatchAll, Step
  <2>2. shaken' \in BOOLEAN /\ (shaken => shaken')
    <3>1. CASE ReadCatchAll(r, readable)
      BY <1>0, <3>1 DEF ReadCatchAll
    <3>2. CASE ReadSettings(r, readable)
      BY <3>2 DEF ReadSettings, Shaken
    <3>. QED BY <1>3, <3>1, <3>2
  <2>3. failures' \in 0..MaxFailures
    BY <1>0, <2>1 DEF Glimpse
  <2>4. TableType'
    BY <1>0, <2>1, <2>2, <2>3 DEF TableType, Rows
  <2>. QED BY <2>1, <2>2, <2>4, KeptEffects
<1>4. CASE \/ EnableRouting(r) \/ PutCatchAll(r) \/ CreateSending(r) \/ RouteAliases(r)
           \/ MakeRule(r) \/ RouteMailbox(r)
  <2>1. UNCHANGED <<Rows, shaken, failures>> /\ pc[r] # "unuser" /\ pc[r] # "idle"
    BY <1>4 DEF EnableRouting, PutCatchAll, CreateSending, RouteAliases, MakeRule, RouteMailbox,
                At, Step, Quiet
  <2>2. zone' \in ZoneType
    <3>1. CASE EnableRouting(r)
      BY <1>0, <3>1 DEF EnableRouting, ZoneType
    <3>2. CASE PutCatchAll(r)
      BY <1>0, <3>2 DEF PutCatchAll, ZoneType, CatchAlls
    <3>3. CASE CreateSending(r)
      BY <1>0, <1>00, <2>1, <3>3 DEF CreateSending, ZoneType
    <3>4. CASE RouteAliases(r)
      <4>1. PICK made \in SUBSET Hosts : zone' = [zone EXCEPT !.rules = @ \cup made]
        BY <3>4 DEF RouteAliases, Addresses
      <4>. QED BY <1>0, <4>1 DEF ZoneType
    <3>5. CASE MakeRule(r)
      BY <1>0, <1>00, <2>1, <3>5 DEF MakeRule, ZoneType
    <3>6. CASE RouteMailbox(r)
      <4>1. PICK made \in SUBSET Hosts : zone' = [zone EXCEPT !.rules = @ \cup made]
        BY <3>6 DEF RouteMailbox, Addresses
      <4>. QED BY <1>0, <4>1 DEF ZoneType
    <3>. QED BY <1>4, <3>1, <3>2, <3>3, <3>4, <3>5, <3>6
  <2>3. TableType'
    BY <1>0, <2>1, <2>2 DEF TableType, Rows
  <2>. QED BY <2>1, <2>3, KeptEffects
<1>5. CASE WriteRow(r)
  <2> DEFINE u == job[r].user
             row == [owner |-> u, routing |-> job[r].routing, tagged |-> job[r].sending]
  <2>1. /\ pc[r] = "write" /\ u \in users /\ UNCHANGED <<zone, users, mailboxes, shaken, failures>>
        /\ UNCHANGED domains \/ (pc'[r] = "alias" /\ domains' = [domains EXCEPT ![Host(r)] = row])
    BY <1>5, StepTo DEF WriteRow, At, Step, Quiet, Host
  <2>2. Host(r) \in Hosts /\ job[r] \in JobType
    BY <1>00, <2>1, RunParts
  <2>3. CASE UNCHANGED domains
    <3>1. TableType'
      BY <1>0, <2>1, <2>3 DEF TableType
    <3>. QED BY <2>1, <2>3, <3>1, KeptEffects DEF Rows
  <2>4. CASE pc'[r] = "alias" /\ domains' = [domains EXCEPT ![Host(r)] = row]
    <3>1. row \in [owner : Users \cup {None}, routing : BOOLEAN, tagged : BOOLEAN] /\ row.owner = u
      BY <1>0, <2>1, <2>2 DEF JobType
    <3> HIDE DEF row
    <3>2. /\ domains' \in [Hosts -> [owner : Users \cup {None}, routing : BOOLEAN, tagged : BOOLEAN]]
          /\ domains'[Host(r)] = row /\ \A h \in Hosts : h # Host(r) => domains'[h] = domains[h]
      BY <1>0, <2>2, <2>4, <3>1
    <3>3. \A h \in Hosts : /\ domains'[h].owner \in users' \cup {None}
                           /\ domains'[h].owner = None => ~domains'[h].routing
      <4>1. u # None
        BY <1>0, <2>1, NobodyElse
      <4>. QED BY <1>0, <2>1, <3>1, <3>2, <4>1
    <3>4. TableType'
      BY <1>0, <2>1, <3>2, <3>3 DEF TableType
    <3>5. Effects(r)
      BY <2>1, <2>4, <3>1, <3>2 DEF Effects
    <3>. QED BY <3>4, <3>5
  <2>. QED BY <2>1, <2>3, <2>4
<1>6. CASE InsertMailbox(r)
  <2>1. pc[r] = "mailbox" /\ pc'[r] = "route"
    BY <1>6, StepTo DEF InsertMailbox, At, Step
  <2>2. r \in users /\ mailboxes' = mailboxes \cup {r} /\ UNCHANGED <<zone, domains, users, shaken, failures>>
    BY <1>6 DEF InsertMailbox, Quiet
  <2>3. TableType'
    BY <1>0, <2>2 DEF TableType
  <2>. QED BY <2>1, <2>2, <2>3 DEF Effects
<1>. QED BY <1>1, <1>2, <1>3, <1>4, <1>5, <1>6 DEF Go

LEMMA RowDeletedParts ==
  ASSUME TableType, NEW h \in Hosts, RowDeleted(h)
  PROVE  /\ domains' \in [Hosts -> [owner : Users \cup {None}, routing : BOOLEAN, tagged : BOOLEAN]]
         /\ \A k \in Hosts : domains'[k] = IF k = h THEN NoRow ELSE domains[k]
         /\ \A k \in Hosts : domains'[k].owner \in {None, domains[k].owner}
         /\ \A k \in Hosts : domains'[k].owner = None => ~domains'[k].routing
         /\ mailboxes' \subseteq mailboxes
<1>1. /\ NoRow \in [owner : Users \cup {None}, routing : BOOLEAN, tagged : BOOLEAN] /\ NoRow.owner = None
      /\ ~NoRow.routing
  BY DEF NoRow
<1> HIDE DEF NoRow
<1>2. /\ domains' \in [Hosts -> [owner : Users \cup {None}, routing : BOOLEAN, tagged : BOOLEAN]]
      /\ \A k \in Hosts : domains'[k] = IF k = h THEN NoRow ELSE domains[k]
  BY <1>1 DEF RowDeleted, TableType
<1>3. /\ \A k \in Hosts : domains'[k].owner \in {None, domains[k].owner}
      /\ \A k \in Hosts : domains'[k].owner = None => ~domains'[k].routing
  BY <1>1, <1>2 DEF TableType
<1>4. mailboxes' \subseteq mailboxes
  BY DEF RowDeleted
<1>. QED BY <1>2, <1>3, <1>4

LEMMA AccountDeletedParts ==
  ASSUME TableType, NEW u \in Users, AccountDeleted(u)
  PROVE  /\ domains' \in [Hosts -> [owner : Users \cup {None}, routing : BOOLEAN, tagged : BOOLEAN]]
         /\ \A k \in Hosts : domains'[k] = IF domains[k].owner = u THEN NoRow ELSE domains[k]
         /\ \A k \in Hosts : domains'[k].owner \in {None, domains[k].owner} \ {u}
         /\ \A k \in Hosts : domains'[k].owner = None => ~domains'[k].routing
         /\ users' = users \ {u} /\ mailboxes' = mailboxes \ {u}
<1>1. /\ NoRow \in [owner : Users \cup {None}, routing : BOOLEAN, tagged : BOOLEAN]
      /\ NoRow.owner = None /\ u # None /\ ~NoRow.routing
  BY ProvisionAssumption DEF NoRow, Users, Requests
<1> HIDE DEF NoRow
<1>2. /\ domains' \in [Hosts -> [owner : Users \cup {None}, routing : BOOLEAN, tagged : BOOLEAN]]
      /\ \A k \in Hosts : domains'[k] = IF domains[k].owner = u THEN NoRow ELSE domains[k]
  BY <1>1 DEF AccountDeleted, TableType
<1>3. /\ \A k \in Hosts : domains'[k].owner \in {None, domains[k].owner} \ {u}
      /\ \A k \in Hosts : domains'[k].owner = None => ~domains'[k].routing
  BY <1>1, <1>2 DEF TableType
<1>. QED BY <1>2, <1>3 DEF AccountDeleted

LEMMA BackEffects ==
  ASSUME RunInv, TableType, NEW r \in Requests, GoBack(r) \/ Remove(r)
  PROVE  Effects(r) /\ TableType'
<1>0. /\ zone \in ZoneType
      /\ domains \in [Hosts -> [owner : Users \cup {None}, routing : BOOLEAN, tagged : BOOLEAN]]
      /\ users \subseteq Users /\ mailboxes \subseteq users
      /\ \A h \in Hosts : /\ domains[h].owner \in users \cup {None}
                          /\ domains[h].owner = None => ~domains[h].routing
      /\ shaken \in BOOLEAN /\ failures \in 0..MaxFailures /\ MaxFailures \in Nat
  BY ProvisionAssumption DEF TableType
<1>00. pc[r] # "idle" => Host(r) \in Hosts
  BY RunParts DEF Host
<1>1. CASE Fail(r) \/ Miss(r)
  <2>1. /\ UNCHANGED <<zone, Rows>> /\ shaken' \in BOOLEAN /\ (shaken => shaken')
        /\ failures' \in 0..MaxFailures /\ (pc[r] = "unuser" => shaken')
    <3>1. CASE Fail(r)
      <4>1. shaken' = (shaken \/ pc[r] \in Undoing)
        BY <3>1 DEF Fail, Shaken
      <4>2. UNCHANGED <<zone, Rows>> /\ failures' \in 0..MaxFailures
        BY <1>0, <3>1 DEF Fail
      <4>3. shaken' \in BOOLEAN
        BY <4>1
      <4>. QED BY <4>1, <4>2, <4>3 DEF Undoing
    <3>2. CASE Miss(r)
      BY <1>0, <3>2 DEF Miss, Quiet
    <3>. QED BY <1>1, <3>1, <3>2
  <2>2. TableType'
    BY <1>0, <2>1 DEF TableType, Rows
  <2>. QED BY <2>1, <2>2, KeptEffects
<1>2. CASE \/ UndoRule(r) \/ UndoSending(r) \/ RestoreCatchAll(r) \/ UndoRouting(r)
           \/ RemoveRules(r) \/ DisableRouting(r) \/ RemoveSending(r)
  <2>1. /\ UNCHANGED <<Rows, failures>> /\ shaken' \in BOOLEAN /\ (shaken => shaken')
        /\ pc[r] # "unuser" /\ pc[r] # "idle"
    <3>1. CASE \/ UndoRule(r) \/ UndoSending(r) \/ RestoreCatchAll(r) \/ UndoRouting(r)
      BY <1>0, <3>1 DEF UndoRule, UndoSending, RestoreCatchAll, UndoRouting, Undo, At, Step, Quiet
    <3>2. CASE RemoveRules(r) \/ DisableRouting(r) \/ RemoveSending(r)
      BY <1>0, <3>2 DEF RemoveRules, DisableRouting, RemoveSending, RemoveStep, At, Step, Shaken
    <3>. QED BY <1>2, <3>1, <3>2
  <2>2. zone' \in ZoneType
    <3>1. CASE UndoRule(r) \/ RemoveRules(r)
      BY <1>0, <3>1 DEF UndoRule, RemoveRules, ZoneType
    <3>2. CASE UndoSending(r) \/ RemoveSending(r)
      BY <1>0, <3>2 DEF UndoSending, RemoveSending, ZoneType
    <3>3. CASE UndoRouting(r) \/ DisableRouting(r)
      BY <1>0, <3>3 DEF UndoRouting, DisableRouting, ZoneType
    <3>4. CASE RestoreCatchAll(r)
      <4>1. Restored(job[r]) \in CatchAlls
        BY RunParts DEF Restored, JobType, CatchAlls
      <4>. QED BY <1>0, <3>4, <4>1 DEF RestoreCatchAll, ZoneType
    <3>. QED BY <1>2, <3>1, <3>2, <3>3, <3>4
  <2>3. TableType'
    BY <1>0, <2>1, <2>2 DEF TableType, Rows
  <2>. QED BY <2>1, <2>3, KeptEffects
<1>3. CASE UndoRow(r) \/ DeleteRow(r)
  <2>1. /\ pc[r] \in {"unrow", "deleteRow"} /\ RowDeleted(Host(r))
        /\ UNCHANGED <<zone, users, shaken, failures>>
    BY <1>3 DEF UndoRow, DeleteRow, Undo, At, Step, Quiet
  <2>2. /\ domains' \in [Hosts -> [owner : Users \cup {None}, routing : BOOLEAN, tagged : BOOLEAN]]
        /\ \A k \in Hosts : domains'[k].owner \in {None, domains[k].owner}
        /\ \A k \in Hosts : domains'[k].owner = None => ~domains'[k].routing
        /\ mailboxes' \subseteq mailboxes
    BY <1>00, <2>1, RowDeletedParts
  <2>3. TableType'
    BY <1>0, <2>1, <2>2 DEF TableType
  <2>4. Effects(r)
    BY <2>1, <2>2 DEF Effects
  <2>. QED BY <2>3, <2>4
<1>4. CASE UndoUser(r)
  <2>1. r \in Users /\ AccountDeleted(r) /\ UNCHANGED <<zone, shaken, failures>>
    BY <1>4 DEF UndoUser, Undo, Quiet, Users
  <2>2. /\ domains' \in [Hosts -> [owner : Users \cup {None}, routing : BOOLEAN, tagged : BOOLEAN]]
        /\ \A k \in Hosts : domains'[k].owner \in {None, domains[k].owner} \ {r}
        /\ \A k \in Hosts : domains'[k].owner = None => ~domains'[k].routing
        /\ users' = users \ {r} /\ mailboxes' = mailboxes \ {r}
    BY <2>1, AccountDeletedParts
  <2>3. TableType'
    BY <1>0, <2>1, <2>2 DEF TableType
  <2>4. Effects(r)
    BY <2>1, <2>2 DEF Effects
  <2>. QED BY <2>3, <2>4
<1>. QED BY <1>1, <1>2, <1>3, <1>4 DEF GoBack, Remove

LEMMA ActingEffects ==
  ASSUME RunInv, TableType, NEW r \in Requests, Acting(r)
  PROVE  Effects(r) /\ TableType'
BY GoEffects, BackEffects DEF Acting

LEMMA MembersStay ==
  ASSUME RunInv, TableType, MemberInv, NEW r \in Requests, Acting(r)
  PROVE  MemberInv'
<1>0. Effects(r) /\ users' \subseteq users \cup {r} /\ users \subseteq Requests
  BY ActingEffects, SignedStays DEF TableType, Users
<1>1. PICK to \in Places, j \in JobType : Goes(r, to, j)
  BY ActingGoes DEF Going, TableType
<1>2. /\ pc'[r] = to /\ \A q \in Requests : q # r => pc'[q] = pc[q] /\ job'[q] = job[q]
      /\ job'[r].kind = job[r].kind /\ job'[r].host = job[r].host
      /\ Flows(r, to) /\ Running(r)
  BY <1>1, Gone DEF Goes
<1>3. ASSUME NEW u \in users' PROVE UserOK(u)'
  <2>1. CASE u # r
    BY <1>0, <1>2, <2>1 DEF UserOK, MemberInv, Effects
  <2>2. CASE u = r /\ r \in users
    <3>1. UserOK(r) /\ job[r].kind = "register"
      BY <2>2 DEF MemberInv, UserOK
    <3>2. to \notin {"idle", "refused", "user", "failed"} /\ (to = "undone" => pc[r] = "unuser")
      BY <1>2, <3>1 DEF Flows, UserOK
    <3>3. shaken' \/ to # "undone"
      BY <1>0, <1>3, <2>2, <3>2 DEF Effects
    <3>. QED BY <1>2, <2>2, <3>1, <3>2, <3>3 DEF UserOK
  <2>3. CASE u = r /\ r \notin users
    <3>1. Go(r) /\ InsertUser(r)
      <4>1. CASE Go(r)
        BY <1>3, <2>3, <4>1 DEF Go, InsertUser, FindZone, ReadSettings, ReadCatchAll,
           EnableRouting,
          PutCatchAll, ListSending, CreateSending, FindRow, WriteRow, RouteAliases, SelectRow, ReadDns,
          MakeRule, InsertMailbox, RouteMailbox, Rows
      <4>2. CASE GoBack(r)
        BY <1>3, <2>3, <4>2 DEF GoBack, Fail, Miss, UndoRule, UndoSending, RestoreCatchAll,
           UndoRouting,
          UndoRow, UndoUser, AccountDeleted, Rows
      <4>3. CASE Remove(r)
        BY <1>3, <2>3, <4>3 DEF Remove, RemoveRules, DisableRouting, RemoveSending, DeleteRow,
           RemoveStep,
          Rows
      <4>. QED BY <4>1, <4>2, <4>3 DEF Acting
    <3>2. pc[r] = "user"
      BY <3>1 DEF InsertUser, At, Step
    <3>3. job[r].kind = "register"
      BY <3>2, RunParts DEF JobOK
    <3>4. to = "zone"
      BY <1>0, <1>2, <1>3, <2>3 DEF Effects
    <3>. QED BY <1>2, <2>3, <3>3, <3>4 DEF UserOK
  <2>. QED BY <2>1, <2>2, <2>3
<1>4. ASSUME NEW h \in Hosts, NEW u, u = domains'[h].owner, u # None PROVE RowOK(h, u)'
  <2>1. u \in Requests
    BY <1>4, ActingEffects DEF TableType, Users
  <2>2. CASE u = domains[h].owner
    <3>1. RowOK(h, u)
      BY <1>4, <2>2 DEF MemberInv
    <3>2. CASE u # r
      BY <1>2, <2>1, <3>1, <3>2 DEF RowOK, Running, Host
    <3>3. CASE u = r
      <4>1. h = Host(r) /\ pc[r] \in Written \cup Undoing
        BY <1>2, <3>1, <3>3 DEF RowOK
      <4>2. to \in Written \cup Undoing \cup Ends
        BY <1>2, <4>1 DEF Flows
      <4>. QED BY <1>2, <3>3, <4>1, <4>2 DEF RowOK, Running, Host
    <3>. QED BY <3>2, <3>3
  <2>3. CASE to = "alias" /\ h = Host(r) /\ u = job[r].user /\ pc[r] = "write"
    <3>1. CASE job[r].kind = "register"
      <4>1. u = r
        BY <2>3, <3>1, RunParts
      <4>. QED BY <1>2, <2>3, <4>1 DEF RowOK, Host, Written
    <3>2. CASE job[r].kind # "register"
      <4>1. u \in SignedIn /\ u # r
        BY <2>3, <3>2, RunParts, SignedStays
      <4>2. pc'[u] = "done"
        BY <1>2, <2>1, <4>1 DEF SignedIn
      <4>. QED BY <4>2 DEF RowOK, Running, Ends
    <3>. QED BY <3>1, <3>2
  <2>4. u \in {None, domains[h].owner} \/ (to = "alias" /\ h = Host(r) /\ u = job[r].user /\ pc[r] = "write")
    BY <1>0, <1>2, <1>4 DEF Effects
  <2>. QED BY <1>4, <2>2, <2>3, <2>4
<1>5. ASSUME NEW u \in mailboxes' PROVE pc'[u] \in {"route", "done", "undone"} \cup Undoing
  <2>1. u \in Requests
    BY ActingEffects DEF TableType, Users
  <2>2. CASE u # r
    BY <1>0, <1>2, <1>5, <2>1, <2>2 DEF MemberInv, Effects
  <2>3. CASE u = r /\ r \in mailboxes
    <3>1. pc[r] \in {"route"} \cup Undoing
      BY <1>2, <2>3 DEF MemberInv, Running, Ends
    <3>. QED BY <1>2, <2>3, <3>1 DEF Flows
  <2>4. CASE u = r /\ r \notin mailboxes
    BY <1>0, <1>2, <1>5, <2>4 DEF Effects
  <2>. QED BY <2>2, <2>3, <2>4
<1>. QED BY <1>3, <1>4, <1>5 DEF MemberInv

-----------------------------------------------------------------------------
(* What a step of a request does to the routing of the zone *)

Outside == {"user", "zone", "unrow", "unuser"}
Moves(r) ==
  /\ \/ zone'.on = zone.on \/ pc[r] = "switchOff" \/ shaken'
     \/ pc[r] = "enable" /\ zone'.on
  /\ \/ zone'.catchAll = zone.catchAll
     \/ pc[r] = "catchAll" /\ zone'.catchAll = "worker"
     \/ pc[r] = "restore" /\ zone'.catchAll = Restored(job[r])
  /\ pc'[r] = "catchAll" => zone'.on
  /\ pc[r] = "catchAll" /\ pc'[r] \in Forward => zone'.catchAll = "worker"
  /\ pc'[r] \in Forward => \/ pc[r] \in Forward \cup {"catchAll"}
                           \/ pc[r] = "zone" /\ ~job[r].routing
  /\ pc'[r] \notin Resting /\ pc[r] # "zone" =>
       /\ job'[r].wasOn = job[r].wasOn
       /\ job'[r].previous = job[r].previous \/ (pc[r] = "copy" /\ job'[r].previous \in {None, zone.catchAll})
  /\ pc'[r] \notin Resting /\ pc[r] = "zone" => ~job'[r].fresh \/ \E readable \in BOOLEAN : ReadSettings(r, readable)
  /\ pc'[r] \notin Resting \cup Outside /\ pc[r] \in Outside =>
       ~job[r].routing \/ \E readable \in BOOLEAN : ReadSettings(r, readable)

LEMMA StepSets ==
  ASSUME RunInv, NEW r \in Requests, NEW to, NEW j, Goto(r, to, j)
  PROVE  pc'[r] = to /\ (to \notin Ends => job'[r] = j)
BY DEF RunInv, Goto

LEMMA GoMoves ==
  ASSUME RunInv, TableType, NEW r \in Requests, Go(r)
  PROVE  Moves(r)
<1>0. zone \in ZoneType /\ job[r] \in JobType /\ JobOK(r, pc[r], job[r])
  BY RunParts DEF TableType
<1> USE DEF Ends, Resting, Outside, Forward, Adding, Registering
<1>1. CASE InsertUser(r)
  <2>1. pc[r] = "user" /\ pc'[r] = "zone" /\ job'[r] = job[r] /\ zone' = zone
    BY <1>1, StepSets DEF InsertUser, At, Step
  <2>. QED BY <2>1 DEF Moves
<1>2. CASE FindZone(r)
  <2>1. pc[r] = "zone" /\ pc'[r] \in {"list", "find"} /\ job'[r] = job[r] /\ zone' = zone /\ ~job[r].routing
    BY <1>2, StepSets DEF FindZone, At, Step, AfterRouting
  <2>2. ~job[r].fresh
    BY <1>0, <2>1 DEF JobOK
  <2>. QED BY <2>1, <2>2 DEF Moves
<1>3. ASSUME NEW readable \in BOOLEAN, ReadSettings(r, readable) PROVE Moves(r)
  <2>1. pc[r] = "zone" /\ pc'[r] \in {"copy", "enable"} /\ zone' = zone
    BY <1>3, StepSets DEF ReadSettings, Step
  <2>. QED BY <1>3, <2>1 DEF Moves
<1>4. ASSUME NEW readable \in BOOLEAN, ReadCatchAll(r, readable) PROVE Moves(r)
  <2> DEFINE p == IF readable THEN zone.catchAll ELSE None
             s == job[r].spoiled \/ ~readable
             j == [job[r] EXCEPT !.previous = p, !.spoiled = s]
  <2>1. pc[r] = "copy" /\ pc'[r] = "enable" /\ job'[r] = j /\ zone' = zone
    BY <1>4, StepSets DEF ReadCatchAll, Step
  <2>2. p \in {None, zone.catchAll}
    OBVIOUS
  <2> HIDE DEF p, s
  <2>3. j.wasOn = job[r].wasOn /\ j.previous = p
    BY <1>0 DEF JobType
  <2>. QED BY <2>1, <2>2, <2>3 DEF Moves
<1>5. CASE EnableRouting(r)
  <2> DEFINE e == TurnedOn(job[r])
             j == [job[r] EXCEPT !.enabled = e]
  <2>1. pc[r] = "enable" /\ pc'[r] = "catchAll" /\ job'[r] = j /\ zone' = [zone EXCEPT !.on = TRUE]
    BY <1>5, StepSets DEF EnableRouting, Step
  <2> HIDE DEF e
  <2>2. j.wasOn = job[r].wasOn /\ j.previous = job[r].previous
    BY <1>0 DEF JobType
  <2>3. zone'.on /\ zone'.catchAll = zone.catchAll
    BY <1>0, <2>1 DEF ZoneType
  <2>. QED BY <2>1, <2>2, <2>3 DEF Moves
<1>6. CASE PutCatchAll(r)
  <2>1. /\ pc[r] = "catchAll" /\ pc'[r] \in {"list", "find"} /\ job'[r] = job[r]
        /\ zone' = [zone EXCEPT !.catchAll = "worker"]
    BY <1>6, StepSets DEF PutCatchAll, At, Step, AfterRouting
  <2>2. zone'.on = zone.on /\ zone'.catchAll = "worker"
    BY <1>0, <2>1 DEF ZoneType
  <2>. QED BY <2>1, <2>2 DEF Moves
<1>7. CASE \/ ListSending(r) \/ CreateSending(r) \/ FindRow(r) \/ WriteRow(r) \/ RouteAliases(r)
           \/ SelectRow(r) \/ ReadDns(r) \/ MakeRule(r) \/ InsertMailbox(r) \/ RouteMailbox(r)
  <2>1. zone'.on = zone.on /\ zone'.catchAll = zone.catchAll /\ pc[r] \in Forward
    <3>1. CASE CreateSending(r)
      BY <1>0, <3>1 DEF CreateSending, Step, ZoneType
    <3>2. CASE MakeRule(r)
      BY <1>0, <3>2 DEF MakeRule, Step, ZoneType
    <3>3. CASE RouteMailbox(r)
      <4>1. pc[r] = "route" /\ zone' = [zone EXCEPT !.rules = @ \cup Addresses(r)]
        BY <3>3 DEF RouteMailbox, At, Step
      <4>. QED BY <1>0, <4>1 DEF ZoneType
    <3>4. CASE RouteAliases(r)
      <4>1. PICK made : zone' = [zone EXCEPT !.rules = @ \cup made]
        BY <3>4 DEF RouteAliases
      <4>2. pc[r] = "alias"
        BY <3>4 DEF RouteAliases, At, Step
      <4>. QED BY <1>0, <4>1, <4>2 DEF ZoneType
    <3>5. CASE \/ ListSending(r) \/ FindRow(r) \/ SelectRow(r) \/ ReadDns(r) \/ InsertMailbox(r) \/ WriteRow(r)
      <4>1. zone' = zone /\ pc[r] \in Forward
        BY <3>5 DEF ListSending, FindRow, SelectRow, ReadDns, InsertMailbox, WriteRow, At, Step
      <4>. QED BY <4>1
    <3>. QED BY <1>7, <3>1, <3>2, <3>3, <3>4, <3>5
  <2>2. PICK to, j : Goto(r, to, j) /\ j.wasOn = job[r].wasOn /\ j.previous = job[r].previous /\ to # "catchAll"
    <3>1. CASE \/ ListSending(r) \/ RouteAliases(r) \/ SelectRow(r) \/ InsertMailbox(r) \/ RouteMailbox(r)
      BY <3>1 DEF ListSending, RouteAliases, SelectRow, InsertMailbox, RouteMailbox, At, Step
    <3>2. CASE CreateSending(r)
      BY <1>0, <3>2 DEF CreateSending, Step, JobType
    <3>3. CASE MakeRule(r)
      BY <1>0, <3>3 DEF MakeRule, Step, JobType
    <3>4. CASE ReadDns(r)
      <4> DEFINE k == job[r].kind = "register"
                 to == IF k THEN "rule" ELSE "done"
                 j == [job[r] EXCEPT !.known = k]
      <4>1. Goto(r, to, j) /\ to # "catchAll"
        BY <3>4 DEF ReadDns, Step
      <4> HIDE DEF k, to
      <4>2. j.wasOn = job[r].wasOn /\ j.previous = job[r].previous
        BY <1>0 DEF JobType
      <4>. QED BY <4>1, <4>2
    <3>5. CASE FindRow(r) \/ WriteRow(r)
      <4>1. pc[r] \in {"find", "write"} /\ Running(r)
        BY <3>5 DEF FindRow, WriteRow, At, Step, Running
      <4>2. OnError(r) = Undo1(job[r])
        BY <4>1, ErrorOrder, RunParts
      <4>3. OnError(r) # "catchAll"
        BY <4>2, UndoPlaces DEF Undoable, Undoing
      <4>4. CASE FindRow(r)
        <5> DEFINE f == domains[Host(r)].owner # None
                   j == [job[r] EXCEPT !.found = f]
        <5>1. PICK to \in {"write", OnError(r)} : Goto(r, to, j)
          BY <4>4 DEF FindRow, Step
        <5> HIDE DEF f
        <5>2. j.wasOn = job[r].wasOn /\ j.previous = job[r].previous
          BY <1>0 DEF JobType
        <5>. QED BY <4>3, <5>1, <5>2
      <4>5. CASE WriteRow(r)
        <5>1. PICK j \in {job[r], [job[r] EXCEPT !.inserted = TRUE]}, to \in {"alias", OnError(r)} :
                     Goto(r, to, j)
          BY <4>5 DEF WriteRow, At, Step
        <5>2. j.wasOn = job[r].wasOn /\ j.previous = job[r].previous
          BY <1>0, <5>1 DEF JobType
        <5>. QED BY <4>3, <5>1, <5>2
      <4>. QED BY <3>5, <4>4, <4>5
    <3>. QED BY <1>7, <3>1, <3>2, <3>3, <3>4, <3>5
  <2>. QED BY <2>1, <2>2, StepSets DEF Moves
<1>. QED BY <1>1, <1>2, <1>3, <1>4, <1>5, <1>6, <1>7 DEF Go

\* A request on its way back goes no way forward.
LEMMA BackTo ==
  ASSUME RunInv, NEW r \in Requests, Running(r), NEW to,
         to = OnError(r) \/ (pc[r] \in Undoing /\ to = After(job[r], Undoings, pc[r]))
           \/ (pc[r] \in Removing \ {"deleteRow"} /\ to = After(job[r], Removings, pc[r]))
  PROVE  to \in Undoing \cup Removing \cup {"failed", "undone"} /\ (pc[r] \in Outside => to \in Resting \cup Outside)
<1> USE DEF Ends, Resting, Outside
<1>1. pc[r] \in Places
  BY RunParts
<1>2. CASE pc[r] \in Undoing
  <2>1. to = After(job[r], Undoings, pc[r])
    BY <1>2 DEF OnError, Provisioning, Adding, Registering, Undoing, Removing
  <2>2. Onward(r, to)
    BY <1>2, <2>1, NextUndo
  <2>3. to \in Undoing \cup {"undone"}
    BY <1>2, <2>2 DEF Onward, Undoable
  <2>4. pc[r] \in Outside => to \in {"unuser", "undone"}
    BY <1>2, <2>1, AfterUndo DEF Undoing, Undo6
  <2>. QED BY <2>3, <2>4
<1>3. CASE pc[r] \in Removing \ {"deleteRow"}
  <2>1. to = After(job[r], Removings, pc[r]) /\ pc[r] \notin Outside
    BY <1>3 DEF OnError, Provisioning, Adding, Registering, Undoing, Removing
  <2>2. to \in Removing
    BY <1>3, <2>1, AfterRemoval DEF Removing, Remove2, Remove3
  <2>. QED BY <2>1, <2>2
<1>4. CASE pc[r] \notin Undoing \cup (Removing \ {"deleteRow"})
  <2>1. to = OnError(r)
    BY <1>4
  <2>2. CASE pc[r] \in {"user", "deleteRow"}
    BY <2>1, <2>2, ErrorOrder, <1>1
  <2>3. CASE pc[r] \in Provisioning \cup {"dns"}
    BY <2>1, <2>3, ErrorOrder, <1>1 DEF Undoing
  <2>4. CASE pc[r] \in Adding \cup Registering
    <3>1. to = Undo1(job[r]) /\ pc[r] \notin Outside
      BY <1>1, <2>1, <2>4, ErrorOrder DEF Adding, Registering
    <3>. QED BY <3>1, UndoPlaces DEF Undoable
  <2>5. pc[r] \notin Resting
    BY DEF Running
  <2>. QED BY <1>1, <1>4, <2>2, <2>3, <2>4, <2>5 DEF Places
<1>. QED BY <1>2, <1>3, <1>4

LEMMA BackMoves ==
  ASSUME RunInv, TableType, NEW r \in Requests, GoBack(r) \/ Remove(r)
  PROVE  Moves(r)
<1>0. zone \in ZoneType /\ job[r] \in JobType /\ JobOK(r, pc[r], job[r])
  BY RunParts DEF TableType
<1>1. /\ \/ zone'.on = zone.on \/ pc[r] = "switchOff" \/ shaken'
      /\ \/ zone'.catchAll = zone.catchAll
         \/ pc[r] = "restore" /\ zone'.catchAll = Restored(job[r])
  <2>1. CASE Fail(r) \/ Miss(r) \/ UndoRow(r) \/ UndoUser(r) \/ DeleteRow(r)
    BY <2>1 DEF Fail, Miss, UndoRow, UndoUser, DeleteRow
  <2>2. CASE UndoRule(r) \/ UndoSending(r) \/ RemoveRules(r) \/ RemoveSending(r)
    BY <1>0, <2>2 DEF UndoRule, UndoSending, RemoveRules, RemoveSending, ZoneType
  <2>3. CASE RestoreCatchAll(r)
    <3>1. pc[r] = "restore" /\ zone' = [zone EXCEPT !.catchAll = Restored(job[r])]
      BY <2>3 DEF RestoreCatchAll, Undo, At, Step
    <3> HIDE DEF Restored
    <3>. QED BY <1>0, <3>1 DEF ZoneType
  <2>4. CASE UndoRouting(r)
    BY <1>0, <2>4 DEF UndoRouting, Undo, At, Step, ZoneType
  <2>5. CASE DisableRouting(r)
    BY <1>0, <2>5 DEF DisableRouting, Shaken, ZoneType
  <2>. QED BY <2>1, <2>2, <2>3, <2>4, <2>5 DEF GoBack, Remove
<1>2. PICK to, j : /\ Goto(r, to, j) /\ j.wasOn = job[r].wasOn /\ j.previous = job[r].previous
                   /\ j.fresh = job[r].fresh
                   /\ to \in Undoing \cup Removing \cup Ends
                   /\ pc[r] \in Outside => to \in Resting \cup Outside
  <2>1. CASE Fail(r)
    <3> DEFINE s == job[r].spoiled \/ pc[r] \in Undoing
               j == [job[r] EXCEPT !.spoiled = s]
    <3>1. Goto(r, OnError(r), j) /\ Running(r)
      BY <2>1 DEF Fail
    <3> HIDE DEF s
    <3>2. j.wasOn = job[r].wasOn /\ j.previous = job[r].previous /\ j.fresh = job[r].fresh
      BY <1>0 DEF JobType
    <3>3. /\ OnError(r) \in Undoing \cup Removing \cup Ends
          /\ pc[r] \in Outside => OnError(r) \in Resting \cup Outside
      BY <3>1, BackTo DEF Ends
    <3> HIDE DEF j
    <3>. QED BY <3>1, <3>2, <3>3
  <2>2. CASE Miss(r)
    <3>1. Goto(r, OnError(r), job[r]) /\ Running(r)
      BY <2>2 DEF Miss, Running, Ends
    <3>. QED BY <3>1, BackTo DEF Ends
  <2>3. CASE \/ UndoRule(r) \/ UndoSending(r) \/ RestoreCatchAll(r) \/ UndoRouting(r)
             \/ UndoRow(r) \/ UndoUser(r)
    <3>1. PICK step \in Undoing : At(r, step, After(job[r], Undoings, step))
      BY <2>3 DEF UndoRule, UndoSending, RestoreCatchAll, UndoRouting, UndoRow, UndoUser, Undo,
         Undoing
    <3>2. pc[r] = step /\ Goto(r, After(job[r], Undoings, step), job[r])
      BY <3>1 DEF At, Step
    <3>3. Running(r)
      BY <3>2, PlacesApart DEF Running, Resting
    <3>. QED BY <3>2, <3>3, BackTo DEF Ends
  <2>4. CASE RemoveRules(r) \/ DisableRouting(r) \/ RemoveSending(r)
    <3>1. PICK step \in Removing \ {"deleteRow"} : At(r, step, After(job[r], Removings, step))
      BY <2>4 DEF RemoveRules, DisableRouting, RemoveSending, RemoveStep, Removing
    <3>2. pc[r] = step /\ Goto(r, After(job[r], Removings, step), job[r])
      BY <3>1 DEF At, Step
    <3>3. Running(r)
      BY <3>2, PlacesApart DEF Running, Resting
    <3>. QED BY <3>2, <3>3, BackTo DEF Ends
  <2>5. CASE DeleteRow(r)
    BY <2>5 DEF DeleteRow, At, Step, Ends, Outside
  <2>. QED BY <2>1, <2>2, <2>3, <2>4, <2>5 DEF GoBack, Remove
<1>3. pc'[r] = to /\ (to \notin Ends => job'[r] = j)
  BY <1>2, StepSets
<1>4. to \notin Forward /\ to # "catchAll"
  BY <1>2 DEF Forward, Adding, Registering, Undoing, Removing, Ends
<1>5. pc[r] = "zone" => ~job[r].fresh
  BY <1>0 DEF JobOK
<1>. QED BY <1>1, <1>2, <1>3, <1>4, <1>5 DEF Moves, Resting

LEMMA ActingMoves ==
  ASSUME RunInv, TableType, NEW r \in Requests, Acting(r)
  PROVE  Moves(r)
BY GoMoves, BackMoves DEF Acting

-----------------------------------------------------------------------------
(* Until the zone is shaken *)

\* A request that found the zone routed leaves it routed.
LEMMA RoutedStays ==
  ASSUME RunInv, TableType, NEW r \in Requests, Acting(r), ~shaken', CalmOK(r), ~job[r].fresh,
         Routed
  PROVE  Routed'
<1>0. JobOK(r, pc[r], job[r]) /\ Moves(r)
  BY RunParts, ActingMoves
<1>1. pc[r] # "switchOff"
  <2>1. SUFFICES ASSUME pc[r] = "switchOff" PROVE FALSE
    OBVIOUS
  <2>2. job[r].enabled /\ job[r].routing /\ job[r].kind # "remove"
    BY <1>0, <2>1 DEF JobOK
  <2>3. PastZone(r)
    BY <2>1, <2>2 DEF PastZone, Running, Ends
  <2>. QED BY <1>0, <2>2, <2>3 DEF CalmOK, JobOK
<1>2. pc[r] = "restore" => Restored(job[r]) = "worker"
  <2>1. SUFFICES ASSUME pc[r] = "restore" PROVE Restored(job[r]) = "worker"
    OBVIOUS
  <2>2. job[r].previous # None \/ job[r].enabled
    BY <1>0, <2>1 DEF JobOK
  <2>3. job[r].routing /\ job[r].kind # "remove"
    BY <1>0, <2>2 DEF JobOK
  <2>4. PastZone(r)
    BY <2>1, <2>3 DEF PastZone, Running, Ends
  <2>5. job[r].previous = "worker" /\ job[r].previous # None
    BY <1>0, <2>2, <2>4 DEF CalmOK, JobOK
  <2>. QED BY <2>5 DEF Restored
<1>. QED BY <1>0, <1>1, <1>2 DEF Moves, Routed

\* The first to be signed in has routed the zone.
LEMMA SignedRouted ==
  ASSUME RunInv, TableType, MemberInv, AloneInv, CalmInv, NEW r \in Requests, Acting(r), ~shaken',
         SignedIn' # {}
  PROVE  Routed'
<1>0. /\ Moves(r) /\ Effects(r) /\ ~shaken /\ (SignedIn # {} => Routed) /\ CalmOK(r)
      /\ users' \subseteq users \cup {r} /\ users \subseteq Requests
  <2>1. Moves(r) /\ Effects(r) /\ users' \subseteq users \cup {r} /\ users \subseteq Requests
    BY ActingMoves, ActingEffects, SignedStays DEF TableType, Users
  <2>2. ~shaken
    BY <2>1 DEF Effects
  <2>. QED BY <2>1, <2>2 DEF CalmInv
<1>1. PICK to \in Places, j \in JobType : Goes(r, to, j)
  BY ActingGoes DEF Going, TableType
<1>2. pc'[r] = to /\ \A q \in Requests : q # r => pc'[q] = pc[q]
  BY <1>1, Gone
<1>3. CASE SignedIn # {}
  BY <1>0, <1>3, RoutedStays DEF CalmOK
<1>4. CASE SignedIn = {}
  <2>1. r \in users' /\ to = "done"
    BY <1>0, <1>2, <1>4 DEF SignedIn
  <2>2. job[r].kind = "register"
    <3>1. UserOK(r)'
      BY <2>1, MembersStay DEF MemberInv
    <3>. QED BY <1>1, <3>1, Gone DEF UserOK
  <2>3. pc[r] = "route"
    BY <1>1, <2>1, <2>2 DEF Goes, Flows
  <2>4. job[r].routing
    BY <2>2, <2>3, RunParts DEF JobOK, Resting, Ends
  <2>5. Routed
    BY <1>0, <2>2, <2>3, <2>4 DEF CalmOK, PastZone, Running, Ends, Forward, Registering
  <2>. QED BY <1>0, <2>3, <2>5 DEF Moves, Routed
<1>. QED BY <1>3, <1>4

LEMMA OthersCalm ==
  ASSUME RunInv, TableType, MemberInv, AloneInv, CalmInv, NEW r \in Requests, Acting(r), ~shaken',
         NEW q \in Requests, q # r
  PROVE  CalmOK(q)'
<1>0. /\ ~shaken /\ CalmOK(q) /\ CalmOK(r)
  <2>1. Effects(r)
    BY ActingEffects
  <2>2. ~shaken
    BY <2>1 DEF Effects
  <2>. QED BY <2>2 DEF CalmInv
<1>1. PICK to \in Places, j \in JobType : Goes(r, to, j)
  BY ActingGoes DEF Going, TableType
<1>2. pc'[q] = pc[q] /\ job'[q] = job[q] /\ Running(r)
  BY <1>1, Gone DEF Goes
<1>3. ~job'[q].fresh
  <2>1. SUFFICES ASSUME job[q].fresh PROVE FALSE
    BY <1>2
  <2>2. Running(q) /\ job[q].start # None
    BY <1>0, <2>1, RunParts DEF CalmOK
  <2>. QED BY <1>2, <2>2 DEF AloneInv
<1>4. CASE ~PastZone(q)
  <2>1. ~PastZone(q)'
    BY <1>2, <1>4 DEF PastZone, Running
  <2>. QED BY <1>3, <2>1 DEF CalmOK
<1>5. CASE PastZone(q)
  <2>1. Routed /\ job[q].wasOn /\ job[q].previous \in {None, "worker"}
    BY <1>0, <1>2, <1>3, <1>5 DEF CalmOK
  <2>2. ~job[r].fresh
    <3>1. SUFFICES ASSUME job[r].fresh PROVE FALSE
      OBVIOUS
    <3>2. job[r].start # None
      BY <1>0, <3>1 DEF CalmOK
    <3>. QED BY <1>2, <1>5, <3>2 DEF AloneInv, PastZone
  <2>3. Routed'
    BY <1>0, <2>1, <2>2, RoutedStays
  <2>. QED BY <1>2, <1>3, <2>1, <2>3 DEF CalmOK, Routed
<1>. QED BY <1>4, <1>5

LEMMA OneCalm ==
  ASSUME RunInv, TableType, MemberInv, AloneInv, CalmInv, NEW r \in Requests, Acting(r), ~shaken'
  PROVE  CalmOK(r)'
<1>0. /\ Moves(r) /\ ~shaken /\ CalmOK(r) /\ (SignedIn # {} => Routed)
      /\ users' \subseteq users \cup {r} /\ users \subseteq Requests
      /\ JobOK(r, pc[r], job[r])
  <2>1. Moves(r) /\ Effects(r) /\ users' \subseteq users \cup {r} /\ users \subseteq Requests
    BY ActingMoves, ActingEffects, SignedStays DEF TableType, Users
  <2>2. ~shaken
    BY <2>1 DEF Effects
  <2>. QED BY <2>1, <2>2, RunParts DEF CalmInv
<1>1. PICK to \in Places, j \in JobType : Goes(r, to, j)
  BY ActingGoes DEF Going, TableType
<1>2. /\ pc'[r] = to /\ \A q \in Requests : q # r => pc'[q] = pc[q]
      /\ JobOK(r, to, job'[r]) /\ Running(r) /\ pc[r] \notin Resting
      /\ to \notin Resting => Kin(job'[r], job[r])
      /\ pc[r] # "zone" /\ to \notin Resting => job'[r].fresh = job[r].fresh
  BY <1>1, Gone DEF Goes
<1>3. CASE to \in Resting
  <2>1. ~job'[r].fresh /\ ~PastZone(r)'
    BY <1>2, <1>3 DEF JobOK, PastZone, Running, Resting
  <2>. QED BY <2>1 DEF CalmOK
<1>4. CASE to \notin Resting
  <2>0. /\ job'[r].kind = job[r].kind /\ job'[r].routing = job[r].routing
        /\ job'[r].start = job[r].start
    BY <1>2, <1>4 DEF Kin
  <2>1. SignedIn' \subseteq SignedIn
    BY <1>0, <1>2, <1>4 DEF SignedIn, Resting, Ends
  <2>2. CASE \E readable \in BOOLEAN : ReadSettings(r, readable)
    <3>1. PICK readable \in BOOLEAN : ReadSettings(r, readable)
      BY <2>2
    <3> DEFINE w == readable => zone.on
               f == ~zone.on \/ zone.catchAll # "worker"
               s == ~readable
               k == [job[r] EXCEPT !.wasOn = w, !.fresh = f, !.spoiled = s]
    <3>2. /\ pc[r] = "zone" /\ to \in {"copy", "enable"} /\ job'[r] = k /\ zone' = zone
          /\ Shaken(f /\ job[r].start = None)
      BY <1>2, <3>1, StepSets DEF ReadSettings, Step, Ends
    <3>3. (f <=> ~Routed) /\ f \in BOOLEAN /\ (Routed => w)
      BY DEF Routed
    <3>4. f => job[r].start # None
      BY <3>2 DEF Shaken
    <3> HIDE DEF w, f, s
    <3>5. k.fresh = f /\ k.wasOn = w /\ k.previous = job[r].previous
      BY RunParts DEF JobType
    <3>6. job[r].previous = None
      BY <1>0, <3>2 DEF JobOK
    <3>7. f => SignedIn' = {}
      BY <1>0, <2>1, <3>3
    <3>8. to # "catchAll" /\ to \notin Forward
      BY <3>2 DEF Forward, Adding, Registering
    <3>9. zone' = zone /\ (Routed => Routed')
      BY <3>2 DEF Routed
    <3> HIDE DEF k
    <3>. QED BY <1>2, <2>0, <3>2, <3>3, <3>4, <3>5, <3>6, <3>7, <3>8, <3>9 DEF CalmOK
  <2>3. CASE ~(\E readable \in BOOLEAN : ReadSettings(r, readable))
    <3>1. job'[r].fresh = job[r].fresh
      <4>1. CASE pc[r] = "zone"
        <5>1. ~job'[r].fresh /\ ~job[r].fresh
          BY <1>0, <1>2, <1>4, <2>3, <4>1 DEF Moves, JobOK
        <5>2. job'[r].fresh \in BOOLEAN /\ job[r].fresh \in BOOLEAN
          BY <1>0, <1>2 DEF JobOK, JobType
        <5>. QED BY <5>1, <5>2
      <4>. QED BY <1>2, <1>4, <4>1
    <3>2. job'[r].fresh => job'[r].start # None /\ SignedIn' = {}
      BY <1>0, <2>0, <2>1, <3>1 DEF CalmOK
    <3>3. PastZone(r)' => PastZone(r)
      BY <1>0, <1>2, <1>4, <2>0, <2>3 DEF Moves, PastZone, Outside
    <3>4. PastZone(r) => pc[r] # "zone"
      BY DEF PastZone
    <3>5. PastZone(r) /\ ~job[r].fresh => Routed' /\ job'[r].wasOn /\ job'[r].previous \in {None, "worker"}
      <4>1. SUFFICES ASSUME PastZone(r), ~job[r].fresh
                     PROVE  Routed' /\ job'[r].wasOn /\ job'[r].previous \in {None, "worker"}
        OBVIOUS
      <4>2. Routed /\ job[r].wasOn /\ job[r].previous \in {None, "worker"}
        BY <1>0, <4>1 DEF CalmOK
      <4>3. Routed'
        BY <1>0, <4>1, <4>2, RoutedStays
      <4>. QED BY <1>0, <1>2, <1>4, <3>4, <4>1, <4>2, <4>3 DEF Moves, Routed
    <3>6. to = "catchAll" => zone'.on
      BY <1>0, <1>2 DEF Moves
    <3>7. PastZone(r) /\ to \in Forward => Routed'
      <4>1. SUFFICES ASSUME PastZone(r), to \in Forward PROVE Routed'
        OBVIOUS
      <4>2. pc[r] \in Forward \cup {"catchAll"}
        BY <1>0, <1>2, <3>4, <4>1 DEF Moves
      <4>3. CASE pc[r] = "catchAll"
        BY <1>0, <1>2, <4>1, <4>3 DEF Moves, CalmOK, Routed
      <4>4. CASE pc[r] \in Forward
        BY <1>0, <4>1, <4>4 DEF Moves, CalmOK, Routed, Forward, Adding, Registering
      <4>. QED BY <4>2, <4>3, <4>4
    <3>. QED BY <1>2, <3>1, <3>2, <3>3, <3>5, <3>6, <3>7 DEF CalmOK
  <2>. QED BY <2>2, <2>3
<1>. QED BY <1>3, <1>4

LEMMA CalmStays ==
  ASSUME RunInv, TableType, MemberInv, AloneInv, CalmInv, NEW r \in Requests, Acting(r)
  PROVE  CalmInv'
<1>1. CASE shaken'
  BY <1>1 DEF CalmInv
<1>2. CASE ~shaken'
  <2>1. SignedIn' # {} => Routed'
    BY <1>2, SignedRouted
  <2>2. \A q \in Requests : CalmOK(q)'
    BY <1>2, OthersCalm, OneCalm
  <2>. QED BY <2>1, <2>2 DEF CalmInv
<1>. QED BY <1>1, <1>2

-----------------------------------------------------------------------------
(* What a request alone makes of the zone *)

Alike(j, k) == /\ j.kind = k.kind /\ j.host = k.host /\ j.routing = k.routing /\ j.start = k.start
               /\ j.wasOn = k.wasOn /\ j.previous = k.previous /\ j.enabled = k.enabled
               /\ j.created = k.created /\ j.ruled = k.ruled

LEMMA AlikeExact ==
  ASSUME NEW p, NEW j, NEW k, NEW z, Alike(j, k), Exact(p, j, z)
  PROVE  Exact(p, k, z)
BY DEF Alike, Exact, Spared, Own

\* The zone z is what the request with the variables j found, where its rollback ends.
Clean(to, j, z) ==
  /\ Exact(to, j, z)
  /\ to \in {"unrow", "unuser", "undone"} =>
       Same(z, j.start) /\ Spared(j, z)

LEMMA CleanForward ==
  ASSUME NEW j \in JobType, NEW z \in ZoneType, NEW p \in Forward, Exact(p, j, z),
         j.start # None, j.kind = "register" => j.routing
  PROVE  Clean(Undo1(j), j, z)
<1> DEFINE s == j.start
           to == Undo1(j)
<1>0. s \in ZoneType /\ s.catchAll # None /\ s.on \in BOOLEAN /\ j.enabled \in BOOLEAN
      /\ j.routing \in BOOLEAN /\ j.created \in BOOLEAN /\ j.ruled \in BOOLEAN /\ z.on \in BOOLEAN
  BY ProvisionAssumption DEF JobType, ZoneType
<1>1. /\ j.enabled = (j.routing /\ ~s.on)
      /\ j.previous = IF j.routing THEN Copied(s) ELSE None
      /\ j.created => j.host \notin s.sending
      /\ z.on = (j.routing \/ s.on)
      /\ z.catchAll = IF j.routing THEN "worker" ELSE s.catchAll
      /\ z.sending = IF j.created THEN s.sending \cup {j.host} ELSE s.sending
      /\ j.ruled => j.kind = "register"
      /\ s.rules \subseteq z.rules
      /\ j.kind = "register" => z.rules \subseteq s.rules \cup Own(j)
  BY DEF Exact
<1>2. /\ to \in {"unrule", "unsend", "restore", "unrow", "unuser", "undone"}
      /\ to = "unrule" <=> j.ruled
      /\ to \in {"restore", "unrow", "unuser", "undone"} => ~j.created
      /\ to \in {"unrow", "unuser", "undone"} => j.previous = None /\ ~j.enabled
  BY DEF Undo1, Undo2, Undo3, Undo4, Undo5, Undo6
<1>3. j.routing => j.previous # None \/ j.enabled
  BY <1>0, <1>1 DEF Copied
<1>6. ~j.ruled => Spared(j, z)
  BY <1>1 DEF Spared, Own
<1> HIDE DEF to
<1>4. Exact(to, j, z)
  BY <1>0, <1>1, <1>2, <1>6 DEF Exact, Early, Forward, Adding, Registering, Reverting
<1>5. to \in {"unrow", "unuser", "undone"} =>
        Same(z, s) /\ Spared(j, z)
  BY <1>0, <1>1, <1>2, <1>3, <1>6 DEF Same
<1>. QED BY <1>4, <1>5 DEF Clean, to

LEMMA CleanUnrule ==
  ASSUME NEW j \in JobType, NEW z \in ZoneType, Exact("unrule", j, z),
         j.start # None, j.kind = "register" => j.routing, NEW y \in ZoneType,
         y.on = z.on, y.catchAll = z.catchAll, y.sending = z.sending, y.rules = z.rules \ {j.host}
  PROVE  Clean(Undo2(j), j, y)
<1> DEFINE s == j.start
           to == Undo2(j)
<1>0. s \in ZoneType /\ s.catchAll # None /\ s.on \in BOOLEAN /\ j.enabled \in BOOLEAN
      /\ j.routing \in BOOLEAN /\ j.created \in BOOLEAN /\ j.ruled \in BOOLEAN /\ z.on \in BOOLEAN
  BY ProvisionAssumption DEF JobType, ZoneType
<1>1. /\ j.enabled = (j.routing /\ ~s.on)
      /\ j.previous = IF j.routing THEN Copied(s) ELSE None
      /\ j.created => j.host \notin s.sending
      /\ y.on = (j.routing \/ s.on)
      /\ y.catchAll = IF j.routing THEN "worker" ELSE s.catchAll
      /\ y.sending = IF j.created THEN s.sending \cup {j.host} ELSE s.sending
      /\ j.ruled => j.kind = "register"
  BY DEF Exact, Reverting
<1>6. Spared(j, y)
  <2>1. /\ j.ruled /\ s.rules \subseteq z.rules
        /\ j.kind = "register" => z.rules \subseteq s.rules \cup {j.host}
    BY DEF Exact, Own
  <2>. QED BY <2>1 DEF Spared, Own
<1>2. /\ to \in {"unsend", "restore", "unrow", "unuser", "undone"}
      /\ to \in {"restore", "unrow", "unuser", "undone"} => ~j.created
      /\ to \in {"unrow", "unuser", "undone"} => j.previous = None /\ ~j.enabled
  BY DEF Undo2, Undo3, Undo4, Undo5, Undo6
<1>3. j.routing => j.previous # None \/ j.enabled
  BY <1>0, <1>1 DEF Copied
<1> HIDE DEF to
<1>4. Exact(to, j, y)
  BY <1>0, <1>1, <1>2, <1>6 DEF Exact, Early, Forward, Adding, Registering, Reverting
<1>5. to \in {"unrow", "unuser", "undone"} =>
        Same(y, s) /\ Spared(j, y)
  BY <1>0, <1>1, <1>2, <1>3, <1>6 DEF Same
<1>. QED BY <1>4, <1>5 DEF Clean, to

LEMMA CleanUnsend ==
  ASSUME NEW j \in JobType, NEW z \in ZoneType, Exact("unsend", j, z), j.created,
         j.start # None, j.kind = "register" => j.routing, NEW y \in ZoneType,
         y.on = z.on, y.catchAll = z.catchAll, y.sending = z.sending \ {j.host}, y.rules = z.rules
  PROVE  Clean(Undo3(j), j, y)
<1> DEFINE s == j.start
           to == Undo3(j)
<1>0. s \in ZoneType /\ s.catchAll # None /\ s.on \in BOOLEAN /\ j.enabled \in BOOLEAN
      /\ j.routing \in BOOLEAN /\ z.on \in BOOLEAN
  BY ProvisionAssumption DEF JobType, ZoneType
<1>1. /\ j.enabled = (j.routing /\ ~s.on)
      /\ j.previous = IF j.routing THEN Copied(s) ELSE None
      /\ j.host \notin s.sending
      /\ y.on = (j.routing \/ s.on)
      /\ y.catchAll = IF j.routing THEN "worker" ELSE s.catchAll
      /\ y.sending = s.sending
      /\ j.ruled => j.kind = "register"
      /\ Spared(j, z)
  BY DEF Exact, Reverting
<1>6. Spared(j, y)
  BY <1>1 DEF Spared
<1>2. /\ to \in {"restore", "unrow", "unuser", "undone"}
      /\ to \in {"unrow", "unuser", "undone"} => j.previous = None /\ ~j.enabled
  BY DEF Undo3, Undo4, Undo5, Undo6
<1>3. j.routing => j.previous # None \/ j.enabled
  BY <1>0, <1>1 DEF Copied
<1> HIDE DEF to
<1>4. Exact(to, j, y)
  BY <1>0, <1>1, <1>2, <1>6 DEF Exact, Early, Forward, Adding, Registering, Reverting
<1>5. to \in {"unrow", "unuser", "undone"} =>
        Same(y, s) /\ Spared(j, y)
  BY <1>0, <1>1, <1>2, <1>3, <1>6 DEF Same
<1>. QED BY <1>4, <1>5 DEF Clean, to

LEMMA CleanRestore ==
  ASSUME NEW j \in JobType, NEW z \in ZoneType, Exact("restore", j, z), Kept(j.start),
         j.previous # None \/ j.enabled, j.start # None, NEW y \in ZoneType,
         y.on = z.on, y.catchAll = Restored(j), y.sending = z.sending, y.rules = z.rules
  PROVE  Clean(Undo4(j), j, y)
<1> DEFINE s == j.start
           to == Undo4(j)
<1>0. s \in ZoneType /\ s.catchAll # None /\ s.on \in BOOLEAN /\ j.enabled \in BOOLEAN
      /\ j.routing \in BOOLEAN /\ z.on \in BOOLEAN
  BY ProvisionAssumption DEF JobType, ZoneType
<1>1. /\ j.enabled = (j.routing /\ ~s.on)
      /\ j.previous = IF j.routing THEN Copied(s) ELSE None
      /\ j.created => j.host \notin s.sending
      /\ y.on = (j.routing \/ s.on)
      /\ y.sending = s.sending
      /\ j.ruled => j.kind = "register"
      /\ Spared(j, z)
  BY DEF Exact, Reverting
<1>6. Spared(j, y)
  BY <1>1 DEF Spared
<1>2. y.catchAll = s.catchAll
  BY <1>0, <1>1 DEF Copied, Kept, Restored
<1>3. /\ to \in {"switchOff", "unrow", "unuser", "undone"}
      /\ to \in {"unrow", "unuser", "undone"} => ~j.enabled
  BY DEF Undo4, Undo5, Undo6
<1> HIDE DEF to
<1>4. Exact(to, j, y)
  BY <1>0, <1>1, <1>2, <1>3, <1>6 DEF Exact, Early, Forward, Adding, Registering, Reverting
<1>5. to \in {"unrow", "unuser", "undone"} =>
        Same(y, s) /\ Spared(j, y)
  BY <1>0, <1>1, <1>2, <1>3, <1>6 DEF Same
<1>. QED BY <1>4, <1>5 DEF Clean, to

LEMMA CleanSwitchOff ==
  ASSUME NEW j \in JobType, NEW z \in ZoneType, Exact("switchOff", j, z), j.enabled,
         j.start # None,
         NEW y \in ZoneType, ~y.on, y.catchAll = z.catchAll, y.sending = z.sending, y.rules = z.rules
  PROVE  Clean(Undo5(j), j, y)
<1> DEFINE s == j.start
           to == Undo5(j)
<1>0. s \in ZoneType /\ s.on \in BOOLEAN /\ y.on \in BOOLEAN
  BY DEF JobType, ZoneType
<1>1. /\ ~s.on /\ y.sending = s.sending /\ y.catchAll = s.catchAll
      /\ Spared(j, z)
  BY DEF Exact, Reverting
<1>6. Spared(j, y)
  BY <1>1 DEF Spared
<1>2. to \in {"unrow", "unuser", "undone"}
  BY DEF Undo5, Undo6
<1> HIDE DEF to
<1>3. Exact(to, j, y)
  BY <1>2 DEF Exact, Early, Forward, Adding, Registering, Reverting
<1>4. Same(y, s)
  BY <1>0, <1>1 DEF Same
<1>. QED BY <1>3, <1>4, <1>6 DEF Clean, to

\* The steps that set up the zone.
LEMMA SetupExact ==
  ASSUME RunInv, TableType, NEW r \in Requests, Alone(r), Exact(pc[r], job[r], zone),
         ~job'[r].spoiled,
         \/ InsertUser(r) \/ FindZone(r) \/ EnableRouting(r) \/ PutCatchAll(r)
         \/ \E readable \in BOOLEAN : ReadSettings(r, readable) \/ ReadCatchAll(r, readable)
         \/ ListSending(r) \/ CreateSending(r)
  PROVE  Exact(pc'[r], job'[r], zone')
<1> DEFINE j == job[r]
           s == job[r].start
<1>0. /\ zone \in ZoneType /\ j \in JobType /\ JobOK(r, pc[r], j) /\ s \in ZoneType /\ s # None
      /\ s.on \in BOOLEAN /\ s.catchAll # None /\ Kept(s) /\ j.kind # "remove" /\ zone.on \in BOOLEAN
  BY RunParts, ProvisionAssumption DEF TableType, Alone, JobType, ZoneType
<1> USE DEF Ends, Early, Forward, Adding, Registering, Reverting
<1>1. CASE InsertUser(r)
  <2>1. pc[r] = "user" /\ pc'[r] = "zone" /\ job'[r] = j /\ zone' = zone
    BY <1>1, StepSets DEF InsertUser, At, Step
  <2>. QED BY <2>1 DEF Exact
<1>2. CASE FindZone(r)
  <2>1. pc[r] = "zone" /\ pc'[r] \in {"list", "find"} /\ job'[r] = j /\ zone' = zone /\ ~j.routing
    BY <1>2, StepSets DEF FindZone, At, Step, AfterRouting
  <2>2. /\ ~j.enabled /\ j.previous = None /\ ~j.created /\ ~j.ruled /\ j.kind # "register"
        /\ zone = s
    BY <1>0, <2>1 DEF JobOK, Exact, Resting
  <2>3. j.enabled \in BOOLEAN /\ j.routing \in BOOLEAN
    BY <1>0 DEF JobType
  <2>. QED BY <1>0, <2>1, <2>2, <2>3 DEF Exact
<1>3. ASSUME NEW readable \in BOOLEAN, ReadSettings(r, readable) PROVE Exact(pc'[r], job'[r],
             zone')
  <2> DEFINE w == readable => zone.on
             f == ~zone.on \/ zone.catchAll # "worker"
             d == ~readable
             k == [job[r] EXCEPT !.wasOn = w, !.fresh = f, !.spoiled = d]
             to == IF w THEN "copy" ELSE "enable"
  <2>0. pc[r] = "zone" /\ Goto(r, to, k) /\ zone' = zone
    BY <1>3 DEF ReadSettings, Step
  <2>2. w \in BOOLEAN /\ (d \/ (w <=> zone.on))
    BY <1>0
  <2> HIDE DEF w, f, d
  <2>3. (w /\ to = "copy") \/ (~w /\ to = "enable")
    BY <2>2
  <2> HIDE DEF to, k
  <2>1. pc[r] = "zone" /\ pc'[r] = to /\ job'[r] = k /\ zone' = zone
    BY <2>0, <2>3, StepSets
  <2> USE DEF k
  <2>4. k.wasOn = w /\ k.previous = j.previous /\ k.start = s /\ k.spoiled = d
    BY <1>0 DEF JobType
  <2>5. j.previous = None /\ zone = s
    BY <1>0, <2>1 DEF JobOK, Exact
  <2> HIDE DEF k
  <2>6. w = s.on
    BY <1>0, <2>1, <2>2, <2>4, <2>5
  <2>. QED BY <1>0, <2>1, <2>3, <2>4, <2>5, <2>6 DEF Exact, Copied
<1>4. ASSUME NEW readable \in BOOLEAN, ReadCatchAll(r, readable) PROVE Exact(pc'[r], job'[r],
             zone')
  <2> DEFINE p == IF readable THEN zone.catchAll ELSE None
             d == job[r].spoiled \/ ~readable
             k == [job[r] EXCEPT !.previous = p, !.spoiled = d]
  <2>0. pc[r] = "copy" /\ Goto(r, "enable", k) /\ zone' = zone
    BY <1>4 DEF ReadCatchAll, Step
  <2>1. pc[r] = "copy" /\ pc'[r] = "enable" /\ job'[r] = k /\ zone' = zone
    BY <2>0, StepSets
  <2>2. d \/ p = zone.catchAll
    OBVIOUS
  <2> HIDE DEF p, d
  <2>3. k.wasOn = j.wasOn /\ k.previous = p /\ k.start = s /\ k.spoiled = d
    BY <1>0 DEF JobType
  <2>4. zone = s /\ j.wasOn = s.on /\ s.on
    BY <2>1 DEF Exact
  <2> HIDE DEF k
  <2>. QED BY <1>0, <2>1, <2>2, <2>3, <2>4 DEF Exact, Copied
<1>5. CASE EnableRouting(r)
  <2> DEFINE e == ~job[r].wasOn
             k == [job[r] EXCEPT !.enabled = e]
  <2>1. pc[r] = "enable" /\ pc'[r] = "catchAll" /\ job'[r] = k /\ zone' = [zone EXCEPT !.on = TRUE]
    BY <1>5, StepSets DEF EnableRouting, Step, TurnedOn
  <2>2. e = ~j.wasOn
    OBVIOUS
  <2> HIDE DEF e
  <2>3. k.previous = j.previous /\ k.start = s /\ k.enabled = e
    BY <1>0 DEF JobType
  <2>4. zone = s /\ j.wasOn = s.on /\ j.previous = Copied(s)
    BY <2>1 DEF Exact
  <2>5. /\ zone'.on /\ zone'.catchAll = zone.catchAll /\ zone'.sending = zone.sending
        /\ zone'.rules = zone.rules
    BY <1>0, <2>1 DEF ZoneType
  <2> HIDE DEF k
  <2>. QED BY <1>0, <2>1, <2>2, <2>3, <2>4, <2>5 DEF Exact
<1>6. CASE PutCatchAll(r)
  <2>1. /\ pc[r] = "catchAll" /\ pc'[r] \in {"list", "find"} /\ job'[r] = j
        /\ zone' = [zone EXCEPT !.catchAll = "worker"]
    BY <1>6, StepSets DEF PutCatchAll, At, Step, AfterRouting
  <2>2. /\ zone'.on = zone.on /\ zone'.catchAll = "worker" /\ zone'.sending = zone.sending
        /\ zone'.rules = zone.rules
    BY <1>0, <2>1 DEF ZoneType
  <2>3. j.routing /\ ~j.created /\ ~j.ruled
    BY <1>0, <2>1 DEF JobOK, Provisioning
  <2>4. j.enabled = ~s.on /\ zone.on /\ zone.sending = s.sending /\ zone.rules = s.rules
        /\ j.previous = Copied(s)
    BY <2>1 DEF Exact
  <2>5. j.enabled \in BOOLEAN /\ j.routing \in BOOLEAN
    BY <1>0 DEF JobType
  <2>. QED BY <1>0, <2>1, <2>2, <2>3, <2>4, <2>5 DEF Exact
<1>7. CASE ListSending(r)
  <2>1. /\ pc[r] = "list" /\ pc'[r] = IF j.host \in zone.sending THEN "find" ELSE "create"
        /\ job'[r] = j /\ zone' = zone
    BY <1>7, StepSets DEF ListSending, At, Step, Host
  <2>. QED BY <2>1 DEF Exact
<1>8. CASE CreateSending(r)
  <2> DEFINE k == [job[r] EXCEPT !.created = TRUE]
  <2>1. /\ pc[r] = "create" /\ pc'[r] = "find" /\ job'[r] = k
        /\ zone' = [zone EXCEPT !.sending = @ \cup {j.host}]
    BY <1>8, StepSets DEF CreateSending, Step, Host
  <2>2. /\ k.kind = j.kind /\ k.routing = j.routing /\ k.start = s /\ k.enabled = j.enabled
        /\ k.previous = j.previous /\ k.host = j.host /\ k.created /\ k.ruled = j.ruled
    BY <1>0 DEF JobType
  <2>3. /\ zone'.on = zone.on /\ zone'.catchAll = zone.catchAll
        /\ zone'.sending = zone.sending \cup {j.host} /\ zone'.rules = zone.rules
    BY <1>0, <2>1 DEF ZoneType
  <2>4. ~j.created
    BY <1>0, <2>1 DEF JobOK, Provisioning
  <2>5. j.host \notin s.sending /\ zone.sending = s.sending
    BY <2>1, <2>4 DEF Exact
  <2> HIDE DEF k
  <2>6. Own(k) = Own(j)
    BY <2>2 DEF Own
  <2>. QED BY <2>1, <2>2, <2>3, <2>5, <2>6 DEF Exact
<1>. QED BY <1>1, <1>2, <1>3, <1>4, <1>5, <1>6, <1>7, <1>8

\* The steps that make the rows of the request and its rules.
LEMMA AddingExact ==
  ASSUME RunInv, TableType, MemberInv, NEW r \in Requests, Alone(r), Exact(pc[r], job[r], zone),
         pc'[r] \notin Resting \cup Undoing,
         \/ FindRow(r) \/ WriteRow(r) \/ RouteAliases(r) \/ SelectRow(r) \/ ReadDns(r)
         \/ MakeRule(r) \/ InsertMailbox(r) \/ RouteMailbox(r)
  PROVE  Exact(pc'[r], job'[r], zone')
<1> DEFINE j == job[r]
           s == job[r].start
           p == pc[r]
           to == pc'[r]
           Slid(k) == /\ p \in Forward /\ to \in Forward \ {"create"} /\ job'[r] = k
<1>0. zone \in ZoneType /\ j \in JobType /\ JobOK(r, p, j) /\ s \in ZoneType /\ j.kind # "remove"
  BY RunParts DEF TableType, Alone, JobType
<1> USE DEF Ends, Resting, Early, Forward, Adding, Registering, Reverting
\* Whatever is noted of the row, the zone is as it was but for some rules.
<1>1. ASSUME NEW k, Slid(k), Alike(j, k), zone' = zone
      PROVE  Exact(to, job'[r], zone')
  <2>1. Exact(p, k, zone)
    BY <1>1, AlikeExact
  <2>. QED BY <1>1, <2>1 DEF Exact
<1>2. CASE FindRow(r)
  <2> DEFINE f == domains[Host(r)].owner # None
             k == [job[r] EXCEPT !.found = f]
  <2>1. p = "find" /\ to \in {"write", OnError(r)} /\ job'[r] = k /\ zone' = zone
    BY <1>2, StepSets DEF FindRow, Step
  <2> HIDE DEF f
  <2>2. Alike(j, k)
    BY <1>0 DEF JobType, Alike
  <2> HIDE DEF k
  <2>3. to = "write"
    <3>1. OnError(r) = Undo1(j)
      BY <2>1, ErrorOrder, RunParts DEF Running
    <3>2. OnError(r) \in Undoing \cup Resting
      BY <3>1, UndoPlaces DEF Undoable
    <3>. QED BY <2>1, <3>2
  <2>. QED BY <1>1, <2>1, <2>2, <2>3
<1>3. CASE WriteRow(r)
  <2>1. p = "write" /\ zone' = zone
    BY <1>3 DEF WriteRow, At, Step
  <2>2. PICK k \in {j, [j EXCEPT !.inserted = TRUE]} : to \in {"alias", OnError(r)} /\ (to \notin Ends => job'[r] = k)
    BY <1>3, StepSets DEF WriteRow, At, Step
  <2>3. Alike(j, k)
    BY <1>0, <2>2 DEF JobType, Alike
  <2>4. to = "alias"
    <3>1. OnError(r) = Undo1(j)
      BY <2>1, ErrorOrder, RunParts DEF Running
    <3>2. OnError(r) \in Undoing \cup Resting
      BY <3>1, UndoPlaces DEF Undoable
    <3>. QED BY <2>2, <3>2
  <2>. QED BY <1>1, <2>1, <2>2, <2>3, <2>4
<1>4. CASE RouteAliases(r)
  <2>1. PICK made \in SUBSET Addresses(j.user) : zone' = [zone EXCEPT !.rules = @ \cup made]
    BY <1>4 DEF RouteAliases
  <2>2. p = "alias" /\ to = "select" /\ job'[r] = j
    BY <1>4, StepSets DEF RouteAliases, At, Step
  <2>3. /\ zone'.on = zone.on /\ zone'.catchAll = zone.catchAll
        /\ zone'.sending = zone.sending /\ zone'.rules = zone.rules \cup made
    BY <1>0, <2>1 DEF ZoneType
  <2>4. j.kind = "register" => made = {}
    <3>1. SUFFICES ASSUME j.kind = "register" PROVE made = {}
      OBVIOUS
    <3>2. j.user = r
      BY <2>2, <3>1, RunParts
    <3>3. r \notin mailboxes
      BY <2>2 DEF MemberInv, Undoing
    <3>. QED BY <3>2, <3>3 DEF Addresses
  <2>5. j.kind = "register" => zone'.rules = zone.rules
    BY <2>3, <2>4
  <2>. QED BY <2>2, <2>3, <2>5 DEF Exact
<1>5. CASE SelectRow(r) \/ InsertMailbox(r)
  <2>1. p \in {"select", "mailbox"} /\ to \in {"dns", "route"} /\ job'[r] = j /\ zone' = zone
    BY <1>5, StepSets DEF SelectRow, InsertMailbox, At, Step
  <2>. QED BY <1>1, <2>1 DEF Alike
<1>6. CASE ReadDns(r)
  <2> DEFINE g == job[r].kind = "register"
             k == [job[r] EXCEPT !.known = g]
  <2>1. p = "dns" /\ to \in {"rule", "done"} /\ (to \notin Ends => job'[r] = k) /\ zone' = zone
    BY <1>6, StepSets DEF ReadDns, Step
  <2> HIDE DEF g
  <2>2. Alike(j, k)
    BY <1>0 DEF JobType, Alike
  <2> HIDE DEF k
  <2>. QED BY <1>1, <2>1, <2>2
<1>7. CASE MakeRule(r)
  <2> DEFINE k == [job[r] EXCEPT !.ruled = TRUE]
  <2>1. /\ p = "rule" /\ to = "mailbox" /\ job'[r] = k
        /\ zone' = [zone EXCEPT !.rules = @ \cup {j.host}]
    BY <1>7, StepSets DEF MakeRule, Step, Host
  <2>2. /\ k.kind = j.kind /\ k.routing = j.routing /\ k.start = s /\ k.enabled = j.enabled
        /\ k.previous = j.previous /\ k.host = j.host /\ k.created = j.created /\ k.ruled
    BY <1>0 DEF JobType
  <2>3. /\ zone'.on = zone.on /\ zone'.catchAll = zone.catchAll
        /\ zone'.sending = zone.sending /\ zone'.rules = zone.rules \cup {j.host}
    BY <1>0, <2>1 DEF ZoneType
  <2>4. /\ j.kind = "register" /\ s.rules \subseteq zone.rules
        /\ zone.rules \subseteq s.rules \cup {j.host}
    BY <1>0, <2>1 DEF Exact, Own, JobOK
  <2> HIDE DEF k
  <2>5. s.rules \subseteq zone'.rules /\ zone'.rules \subseteq s.rules \cup Own(k)
    BY <2>2, <2>3, <2>4 DEF Own
  <2>. QED BY <2>1, <2>2, <2>3, <2>4, <2>5 DEF Exact
<1>8. CASE RouteMailbox(r)
  BY <1>8, StepSets DEF RouteMailbox, At, Step
<1>. QED BY <1>2, <1>3, <1>4, <1>5, <1>6, <1>7, <1>8

\* The steps that take it back.
LEMMA BackClean ==
  ASSUME RunInv, TableType, NEW r \in Requests, Alone(r), Exact(pc[r], job[r], zone), Acting(r),
         pc[r] \in Adding \cup Registering \cup Reverting, pc'[r] \in Undoing \cup {"undone"},
         pc[r] \in Undoing => failures' = failures
  PROVE  Clean(pc'[r], job[r], zone') /\ zone'.rules \subseteq zone.rules
<1> DEFINE j == job[r]
<1>0. /\ zone \in ZoneType /\ j \in JobType /\ JobOK(r, pc[r], j) /\ j.start # None /\ Kept(j.start)
      /\ Running(r) /\ pc[r] \in Places /\ (j.kind = "register" => j.routing)
  BY RunParts DEF TableType, Alone, JobOK, Resting
<1>1. CASE FindRow(r) \/ WriteRow(r) \/ Fail(r) \/ Miss(r)
  <2>1. zone' = zone /\ \E k : Goto(r, OnError(r), k) \/ Goto(r, "write", k) \/ Goto(r, "alias", k)
    BY <1>1 DEF FindRow, WriteRow, Fail, Miss, At, Step
  <2>2. pc'[r] = OnError(r)
    BY <2>1, StepSets DEF Undoing
  <2>3. pc[r] \in Adding \cup Registering
    <3>1. SUFFICES ASSUME pc[r] \in Reverting PROVE FALSE
      OBVIOUS
    <3>2. Fail(r)
      BY <1>1, <3>1 DEF FindRow, WriteRow, Miss, At, Step, Reverting
    <3>3. failures' # failures
      BY <3>2 DEF Fail, TableType
    <3>. QED BY <3>1, <3>3 DEF Reverting, Undoing
  <2>4. pc'[r] = Undo1(j)
    BY <1>0, <2>2, <2>3, ErrorOrder
  <2>. QED BY <1>0, <2>1, <2>3, <2>4, CleanForward DEF Forward
<1>2. ASSUME NEW step \in Undoing, Undo(r, step)
      PROVE  pc[r] = step /\ pc'[r] = After(j, Undoings, step)
  <2>1. pc[r] = step /\ Goto(r, After(j, Undoings, step), j)
    BY <1>2 DEF Undo, At, Step
  <2>. QED BY <2>1, StepSets
<1>3. CASE UndoRule(r)
  <2>1. pc[r] = "unrule" /\ pc'[r] = Undo2(j) /\ zone' = [zone EXCEPT !.rules = @ \ {Host(r)}]
    BY <1>2, <1>3, AfterUndo DEF UndoRule, Undoing
  <2>2. /\ zone' \in ZoneType /\ zone'.on = zone.on /\ zone'.catchAll = zone.catchAll
        /\ zone'.sending = zone.sending /\ zone'.rules = zone.rules \ {j.host}
    BY <1>0, <2>1 DEF ZoneType, Host
  <2>. QED BY <1>0, <2>1, <2>2, CleanUnrule
<1>4. CASE UndoSending(r)
  <2>1. pc[r] = "unsend" /\ pc'[r] = Undo3(j) /\ zone' = [zone EXCEPT !.sending = @ \ {Host(r)}]
    BY <1>2, <1>4, AfterUndo DEF UndoSending, Undoing
  <2>2. /\ zone' \in ZoneType /\ zone'.on = zone.on /\ zone'.catchAll = zone.catchAll
        /\ zone'.sending = zone.sending \ {j.host} /\ zone'.rules = zone.rules
    BY <1>0, <2>1 DEF ZoneType, Host
  <2>3. j.created
    BY <1>0, <2>1 DEF JobOK
  <2>. QED BY <1>0, <2>1, <2>2, <2>3, CleanUnsend
<1>5. CASE RestoreCatchAll(r)
  <2>1. pc[r] = "restore" /\ pc'[r] = Undo4(j) /\ zone' = [zone EXCEPT !.catchAll = Restored(j)]
    BY <1>2, <1>5, AfterUndo DEF RestoreCatchAll, Undoing
  <2>2. Restored(j) \in CatchAlls /\ (j.previous # None \/ j.enabled)
    BY <1>0, <2>1 DEF Restored, JobType, CatchAlls, JobOK
  <2> HIDE DEF Restored
  <2>3. /\ zone' \in ZoneType /\ zone'.on = zone.on /\ zone'.catchAll = Restored(j)
        /\ zone'.sending = zone.sending /\ zone'.rules = zone.rules
    BY <1>0, <2>1, <2>2 DEF ZoneType
  <2>. QED BY <1>0, <2>1, <2>2, <2>3, CleanRestore
<1>6. CASE UndoRouting(r)
  <2>1. pc[r] = "switchOff" /\ pc'[r] = Undo5(j) /\ zone' = [zone EXCEPT !.on = FALSE]
    BY <1>2, <1>6, AfterUndo DEF UndoRouting, Undoing
  <2>2. /\ zone' \in ZoneType /\ ~zone'.on /\ zone'.catchAll = zone.catchAll
        /\ zone'.sending = zone.sending /\ zone'.rules = zone.rules
    BY <1>0, <2>1 DEF ZoneType
  <2>3. j.enabled
    BY <1>0, <2>1 DEF JobOK
  <2>. QED BY <1>0, <2>1, <2>2, <2>3, CleanSwitchOff
<1>7. CASE UndoRow(r) \/ UndoUser(r) \/ Remove(r)
  <2>1. pc[r] \in {"unrow", "unuser"} \cup Removing
    BY <1>7 DEF UndoRow, UndoUser, Undo, Remove, RemoveRules, DisableRouting, RemoveSending,
       DeleteRow,
                RemoveStep, At, Step, Removing
  <2>. QED BY <2>1 DEF Adding, Registering, Reverting, Removing
<1>8. CASE Go(r) /\ ~(FindRow(r) \/ WriteRow(r))
  <2> USE DEF Undoing
  <2>1. CASE \/ InsertUser(r) \/ FindZone(r) \/ EnableRouting(r) \/ PutCatchAll(r) \/ ListSending(r)
             \/ CreateSending(r) \/ ReadDns(r)
             \/ \E readable \in BOOLEAN : ReadSettings(r, readable) \/ ReadCatchAll(r, readable)
    <3>1. pc[r] \in {"user", "dns"} \cup Provisioning
      BY <2>1 DEF InsertUser, FindZone, EnableRouting, PutCatchAll, ListSending, CreateSending,
         ReadDns,
         ReadSettings, ReadCatchAll, At, Step, Provisioning
    <3>. QED BY <3>1 DEF Provisioning, Adding, Registering, Reverting
  <2>2. CASE RouteAliases(r) \/ SelectRow(r) \/ InsertMailbox(r) \/ RouteMailbox(r)
    BY <2>2, StepSets DEF RouteAliases, SelectRow, InsertMailbox, RouteMailbox, At, Step
  <2>3. CASE MakeRule(r)
    BY <2>3, StepSets DEF MakeRule, Step
  <2>. QED BY <1>8, <2>1, <2>2, <2>3 DEF Go
<1>. QED BY <1>1, <1>3, <1>4, <1>5, <1>6, <1>7, <1>8 DEF Acting, GoBack

\* A step on the way back notes nothing that matters, but that a call failed.
LEMMA BackAlike ==
  ASSUME RunInv, NEW r \in Requests, GoBack(r) \/ FindRow(r) \/ WriteRow(r),
         pc'[r] \in Undoing
  PROVE  Alike(job[r], job'[r]) /\ (pc[r] \in Undoing /\ ~job'[r].spoiled => ~Fail(r))
<1>0. job[r] \in JobType /\ Undoing \cap Ends = {}
  BY RunParts DEF Undoing, Ends
<1>1. CASE Fail(r)
  <2> DEFINE s == job[r].spoiled \/ pc[r] \in Undoing
             j == [job[r] EXCEPT !.spoiled = s]
  <2>1. job'[r] = j
    BY <1>0, <1>1, StepSets DEF Fail
  <2>2. pc[r] \in Undoing => s
    OBVIOUS
  <2> HIDE DEF s
  <2>3. Alike(job[r], j) /\ j.spoiled = s
    BY <1>0 DEF Alike, JobType
  <2>. QED BY <2>1, <2>2, <2>3
<1>2. CASE FindRow(r)
  <2> DEFINE f == domains[Host(r)].owner # None
             j == [job[r] EXCEPT !.found = f]
  <2>1. job'[r] = j /\ pc[r] = "find"
    BY <1>0, <1>2, StepSets DEF FindRow, Step
  <2> HIDE DEF f
  <2>2. Alike(job[r], j)
    BY <1>0 DEF Alike, JobType
  <2>. QED BY <2>1, <2>2 DEF Undoing
<1>3. CASE WriteRow(r)
  <2>1. job'[r] \in {job[r], [job[r] EXCEPT !.inserted = TRUE]} /\ pc[r] = "write"
    BY <1>0, <1>3, StepSets DEF WriteRow, At, Step
  <2>2. Alike(job[r], job'[r])
    BY <1>0, <2>1 DEF Alike, JobType
  <2>. QED BY <2>1, <2>2 DEF Undoing
<1>4. CASE ~Fail(r) /\ GoBack(r)
  <2>1. job'[r] = job[r]
    BY <1>0, <1>4, StepSets DEF GoBack, Miss, UndoRule, UndoSending, RestoreCatchAll, UndoRouting,
       UndoRow, UndoUser, Undo, At, Step
  <2>. QED BY <1>4, <2>1 DEF Alike
<1>. QED BY <1>1, <1>2, <1>3, <1>4

\* What was spoiled stays so.
LEMMA SpoiledStays ==
  ASSUME RunInv, TableType, NEW r \in Requests, Acting(r), job[r].spoiled, pc'[r] \notin Resting
  PROVE  job'[r].spoiled
<1>0. job[r] \in JobType /\ JobOK(r, pc[r], job[r]) /\ Ends \subseteq Resting
  BY RunParts DEF Resting
<1>1. CASE \/ InsertUser(r) \/ FindZone(r) \/ PutCatchAll(r) \/ ListSending(r) \/ RouteAliases(r)
           \/ SelectRow(r) \/ InsertMailbox(r) \/ RouteMailbox(r) \/ Miss(r) \/ UndoRule(r)
           \/ UndoSending(r) \/ RestoreCatchAll(r) \/ UndoRouting(r) \/ UndoRow(r) \/ UndoUser(r)
           \/ Remove(r)
  <2>1. \E to : Goto(r, to, job[r])
    BY <1>1 DEF InsertUser, FindZone, PutCatchAll, ListSending, RouteAliases, SelectRow,
       InsertMailbox,
       RouteMailbox, Miss, UndoRule, UndoSending, RestoreCatchAll, UndoRouting, UndoRow, UndoUser, Undo,
       Remove, RemoveRules, DisableRouting, RemoveSending, DeleteRow, RemoveStep, At, Step
  <2>. QED BY <1>0, <2>1, StepSets
<1>2. ASSUME NEW readable \in BOOLEAN, ReadSettings(r, readable) PROVE FALSE
  <2>1. pc[r] = "zone"
    BY <1>2 DEF ReadSettings, Step
  <2>. QED BY <1>0, <2>1 DEF JobOK
<1>3. ASSUME NEW k, NEW to, Goto(r, to, k), k.spoiled PROVE job'[r].spoiled
  BY <1>0, <1>3, StepSets
<1>4. ASSUME NEW readable \in BOOLEAN, ReadCatchAll(r, readable) PROVE job'[r].spoiled
  <2> DEFINE p == IF readable THEN zone.catchAll ELSE None
             d == job[r].spoiled \/ ~readable
             k == [job[r] EXCEPT !.previous = p, !.spoiled = d]
  <2>1. Goto(r, "enable", k)
    BY <1>4 DEF ReadCatchAll, Step
  <2>2. d
    OBVIOUS
  <2> HIDE DEF p, d
  <2>3. k.spoiled
    BY <1>0, <2>2 DEF JobType
  <2>. QED BY <1>3, <2>1, <2>3
<1>5. CASE Fail(r)
  <2> DEFINE d == job[r].spoiled \/ pc[r] \in Undoing
             k == [job[r] EXCEPT !.spoiled = d]
  <2>1. Goto(r, OnError(r), k)
    BY <1>5 DEF Fail
  <2>2. d
    OBVIOUS
  <2> HIDE DEF d
  <2>3. k.spoiled
    BY <1>0, <2>2 DEF JobType
  <2>. QED BY <1>3, <2>1, <2>3
<1>6. CASE EnableRouting(r)
  <2> DEFINE e == TurnedOn(job[r])
             k == [job[r] EXCEPT !.enabled = e]
  <2>1. Goto(r, "catchAll", k)
    BY <1>6 DEF EnableRouting, Step
  <2> HIDE DEF e
  <2>2. k.spoiled
    BY <1>0 DEF JobType
  <2>. QED BY <1>3, <2>1, <2>2
<1>7. CASE CreateSending(r) \/ MakeRule(r) \/ WriteRow(r)
  <2>1. PICK k, to : /\ Goto(r, to, k)
                     /\ k \in {job[r], [job[r] EXCEPT !.created = TRUE], [job[r] EXCEPT !.ruled = TRUE],
                               [job[r] EXCEPT !.inserted = TRUE]}
    BY <1>7 DEF CreateSending, MakeRule, WriteRow, At, Step
  <2>2. k.spoiled
    BY <1>0, <2>1 DEF JobType
  <2>. QED BY <1>3, <2>1, <2>2
<1>8. CASE FindRow(r)
  <2> DEFINE f == domains[Host(r)].owner # None
             k == [job[r] EXCEPT !.found = f]
  <2>1. \E to : Goto(r, to, k)
    BY <1>8 DEF FindRow, Step
  <2> HIDE DEF f
  <2>2. k.spoiled
    BY <1>0 DEF JobType
  <2>. QED BY <1>3, <2>1, <2>2
<1>9. CASE ReadDns(r)
  <2> DEFINE f == job[r].kind = "register"
             k == [job[r] EXCEPT !.known = f]
  <2>1. \E to : Goto(r, to, k)
    BY <1>9 DEF ReadDns, Step
  <2> HIDE DEF f
  <2>2. k.spoiled
    BY <1>0 DEF JobType
  <2>. QED BY <1>3, <2>1, <2>2
<1>. QED BY <1>1, <1>2, <1>4, <1>5, <1>6, <1>7, <1>8, <1>9 DEF Acting, Go, GoBack

LEMMA BackQuiet ==
  ASSUME NEW r \in Requests, GoBack(r) \/ FindRow(r) \/ WriteRow(r), ~Fail(r)
  PROVE  failures' = failures
BY DEF GoBack, FindRow, WriteRow, Miss, UndoRule, UndoSending, RestoreCatchAll, UndoRouting,
   UndoRow,
       UndoUser, Undo, Quiet

LEMMA ExactStays ==
  ASSUME RunInv, TableType, MemberInv, AloneInv, ExactInv, NEW r \in Requests, Acting(r)
  PROVE  ExactInv'
<1>1. PICK to \in Places, j \in JobType : Goes(r, to, j)
  BY ActingGoes DEF Going, TableType
<1>2. SUFFICES ASSUME NEW q \in Requests, Alone(q)' PROVE Exact(pc'[q], job'[q], zone')
  BY DEF ExactInv
<1>3. Running(r) /\ Running(q)' /\ job'[q].kind # "remove" /\ job'[q].start # None /\ ~job'[q].spoiled
      /\ Kept(job'[q].start)
  BY <1>1, <1>2 DEF Goes, Alone
<1>4. q = r
  <2>1. SUFFICES ASSUME q # r PROVE FALSE
    OBVIOUS
  <2>2. pc'[q] = pc[q] /\ job'[q] = job[q]
    BY <1>1, <2>1, Gone
  <2>3. Running(q) /\ job[q].start # None
    BY <1>3, <2>2 DEF Running
  <2>. QED BY <1>3, <2>1, <2>3 DEF AloneInv
<1>5. /\ pc'[r] \notin Resting /\ pc'[r] = to /\ Kin(job'[r], job[r])
  BY <1>1, <1>3, <1>4, Gone DEF Running, Resting
<1>6. Alone(r) /\ Exact(pc[r], job[r], zone)
  <2>1. ~job[r].spoiled
    BY <1>3, <1>4, <1>5, SpoiledStays
  <2>2. job'[r].kind = job[r].kind /\ job'[r].start = job[r].start
    BY <1>5 DEF Kin
  <2>. QED BY <1>3, <1>4, <2>1, <2>2 DEF Alone, ExactInv
<1>7. CASE \/ InsertUser(r) \/ FindZone(r) \/ EnableRouting(r) \/ PutCatchAll(r)
           \/ \E readable \in BOOLEAN : ReadSettings(r, readable) \/ ReadCatchAll(r, readable)
           \/ ListSending(r) \/ CreateSending(r)
  BY <1>3, <1>4, <1>6, <1>7, SetupExact
<1>8. CASE /\ Go(r) /\ pc'[r] \notin Undoing
           /\ \/ FindRow(r) \/ WriteRow(r) \/ RouteAliases(r) \/ SelectRow(r) \/ ReadDns(r)
              \/ MakeRule(r) \/ InsertMailbox(r) \/ RouteMailbox(r)
  BY <1>4, <1>5, <1>6, <1>8, AddingExact
<1>9. CASE pc'[r] \in Undoing /\ (GoBack(r) \/ FindRow(r) \/ WriteRow(r))
  <2>1. CASE pc[r] \in Adding \cup Registering \cup Reverting
    <3>1. pc[r] \in Undoing => failures' = failures
      BY <1>3, <1>4, <1>9, BackAlike, BackQuiet
    <3>2. Exact(pc'[r], job[r], zone')
      BY <1>6, <1>9, <2>1, <3>1, BackClean DEF Clean
    <3>. QED BY <1>4, <1>9, <3>2, BackAlike, AlikeExact
  <2>2. CASE pc[r] \notin Adding \cup Registering \cup Reverting
    <3>1. pc[r] \in {"user", "dns", "unrow", "unuser"} \cup Provisioning
      <4>1. pc[r] \in Places \ (Resting \cup Removing)
        BY <1>3, <1>6, RunParts DEF Alone, JobOK
      <4>. QED BY <2>2, <4>1 DEF Places, Resting, Reverting, Undoing
    <3>2. pc'[r] = "unuser"
      <4>1. CASE pc[r] \in {"user", "dns"} \cup Provisioning
        <5>1. Fail(r) \/ Miss(r)
          BY <1>9, <4>1 DEF GoBack, FindRow, WriteRow, UndoRule, UndoSending, RestoreCatchAll,
             UndoRouting, UndoRow, UndoUser, Undo, At, Step, Provisioning
        <5>2. pc'[r] = OnError(r)
          BY <5>1, StepSets DEF Fail, Miss
        <5>3. OnError(r) \in {"failed", "unuser"}
          BY <1>3, <4>1, ErrorOrder, RunParts
        <5>. QED BY <1>9, <5>2, <5>3 DEF Undoing
      <4>2. CASE pc[r] \in {"unrow", "unuser"}
        <5>1. pc'[r] = to /\ Moves(r)
          BY <1>5, ActingMoves
        <5>2. PICK t : pc'[r] = t /\ (t = OnError(r) \/ t = After(job[r], Undoings, pc[r]))
          BY <1>9, <4>2, StepSets DEF GoBack, Fail, Miss, FindRow, WriteRow, UndoRule,
             UndoSending,
             RestoreCatchAll, UndoRouting, UndoRow, UndoUser, Undo, At, Step
        <5>3. pc'[r] \in Resting \cup Outside
          BY <1>3, <4>2, <5>2, BackTo DEF Outside, Undoing
        <5>4. pc'[r] # "unrow"
          BY <1>3, <4>2, <5>2, ErrorOrder, AfterUndo, RunParts DEF Undo6
        <5>. QED BY <1>5, <1>9, <5>3, <5>4 DEF Outside, Undoing
      <4>. QED BY <3>1, <4>1, <4>2
    <3>. QED BY <1>4, <3>2 DEF Exact, Early, Forward, Adding, Registering, Reverting
  <2>. QED BY <2>1, <2>2
<1>10. CASE GoBack(r) /\ pc'[r] \notin Undoing
  <2>1. Running(r) /\ pc[r] \notin Removing
    BY <1>3, <1>5, <1>6, RunParts DEF Alone, JobOK
  <2>2. \E k : Goto(r, OnError(r), k) \/ (pc[r] \in Undoing /\ Goto(r, After(job[r], Undoings, pc[r]), k))
    BY <1>10 DEF GoBack, Fail, Miss, UndoRule, UndoSending, RestoreCatchAll, UndoRouting,
       UndoRow, UndoUser,
       Undo, At, Step, Undoing
  <2>3. pc'[r] \in Undoing \cup Removing \cup {"failed", "undone"}
    BY <2>1, <2>2, StepSets, BackTo
  <2>4. pc'[r] \in Removing
    BY <1>5, <1>10, <2>3 DEF Resting, Ends
  <2>5. JobOK(r, pc'[r], job'[r])
    BY <1>1, Gone
  <2>. QED BY <1>3, <1>4, <1>5, <2>4, <2>5 DEF JobOK
<1>11. CASE Remove(r)
  <2>1. pc[r] \in Removing
    BY <1>11 DEF Remove, RemoveRules, DisableRouting, RemoveSending, DeleteRow, RemoveStep, At,
       Step, Removing
  <2>. QED BY <1>3, <1>6, <2>1, RunParts DEF Alone, JobOK
<1>12. ASSUME RouteAliases(r) \/ SelectRow(r) \/ ReadDns(r) \/ MakeRule(r) \/ InsertMailbox(r)
              \/ RouteMailbox(r)
       PROVE  pc'[r] \notin Undoing
  BY <1>12, StepSets DEF RouteAliases, SelectRow, ReadDns, MakeRule, InsertMailbox, RouteMailbox,
     At, Step,
     Undoing
<1>. QED BY <1>7, <1>8, <1>9, <1>10, <1>11, <1>12 DEF Acting, Go

-----------------------------------------------------------------------------
(* Which rules a domain added brings *)

\* A step of a domain being added brings none but the rules of the mailbox that uses all
\* domains, and from then on its addresses stay what they are.
AliasMoves(r) ==
  LET rows == UNCHANGED <<domains, mailboxes>> IN
  \/ /\ pc[r] \notin Aliased /\ zone'.rules \subseteq zone.rules
  \/ /\ pc[r] \in Aliased /\ pc'[r] \in Aliased /\ zone'.rules \subseteq zone.rules /\ rows
  \/ /\ pc[r] \notin Aliased /\ pc'[r] \in Aliased /\ rows
     /\ zone'.rules \subseteq zone.rules \cup Addresses(job[r].user)

LEMMA AliasBack ==
  ASSUME RunInv, NEW r \in Requests, Running(r), Fail(r) \/ Miss(r), job[r].kind = "add",
         pc[r] \notin {"unrow", "unuser"}, pc'[r] \notin Resting \cup {"unrow", "unuser"}
  PROVE  AliasMoves(r)
<1>1. zone' = zone /\ UNCHANGED <<domains, mailboxes>> /\ pc'[r] = OnError(r)
  BY StepSets DEF Fail, Miss, Rows
<1>2. CASE pc[r] \in Aliased
  <2>1. pc[r] \in Places /\ pc[r] \in Undoing \cup {"select", "dns"}
    BY <1>2, RunParts DEF Aliased, Reverting, Undoing
  <2>2. OnError(r) \in Undoing \cup Resting
    BY <1>2, <2>1, ErrorOrder, UndoPlaces
       DEF Aliased, Reverting, Adding, Undoable, Resting, Ends
  <2>3. pc'[r] \in Reverting
    BY <1>1, <2>2 DEF Undoing, Reverting
  <2>. QED BY <1>1, <1>2, <2>3 DEF AliasMoves, Aliased
<1>3. CASE pc[r] \notin Aliased
  BY <1>1, <1>3 DEF AliasMoves
<1>. QED BY <1>2, <1>3

LEMMA AliasSteps ==
  ASSUME RunInv, TableType, NEW r \in Requests, Acting(r), job[r].kind = "add", Running(r),
         pc[r] \notin {"unrow", "unuser"}, pc'[r] \notin Resting \cup {"unrow", "unuser"}
  PROVE  AliasMoves(r)
<1>0. zone \in ZoneType /\ JobOK(r, pc[r], job[r])
  BY RunParts DEF TableType
<1>1. pc[r] \notin {"user"} \cup Registering \cup Removing
  BY <1>0, RunParts DEF JobOK
<1> USE DEF Aliased, Reverting
<1>2. CASE \/ FindZone(r) \/ EnableRouting(r) \/ PutCatchAll(r)
           \/ \E readable \in BOOLEAN : ReadSettings(r, readable) \/ ReadCatchAll(r, readable)
           \/ ListSending(r) \/ CreateSending(r)
  <2>1. pc[r] \in Provisioning /\ zone'.rules = zone.rules
    BY <1>0, <1>2 DEF FindZone, EnableRouting, PutCatchAll, ReadSettings, ReadCatchAll,
       ListSending, CreateSending, At, Step, Provisioning, ZoneType
  <2>. QED BY <2>1 DEF AliasMoves, Provisioning
<1>3. CASE FindRow(r) \/ WriteRow(r)
  <2>1. pc[r] \in {"find", "write"} /\ zone' = zone
    BY <1>3 DEF FindRow, WriteRow, At, Step
  <2>. QED BY <2>1 DEF AliasMoves
<1>4. CASE RouteAliases(r)
  <2>1. PICK made \in SUBSET Addresses(job[r].user) : zone' = [zone EXCEPT !.rules = @ \cup made]
    BY <1>4 DEF RouteAliases
  <2>2. zone'.rules = zone.rules \cup made
    BY <1>0, <2>1 DEF ZoneType
  <2>3. pc[r] = "alias" /\ pc'[r] = "select" /\ UNCHANGED <<domains, mailboxes>>
    BY <1>4, StepSets DEF RouteAliases, At, Step, Rows
  <2>. QED BY <2>2, <2>3 DEF AliasMoves
<1>5. CASE SelectRow(r)
  <2>1. pc[r] = "select" /\ pc'[r] = "dns" /\ zone' = zone /\ UNCHANGED <<domains, mailboxes>>
    BY <1>5, StepSets DEF SelectRow, At, Step, Rows
  <2>. QED BY <2>1 DEF AliasMoves
<1>6. CASE ReadDns(r)
  BY <1>6, StepSets DEF ReadDns, Step, Resting, Ends
<1>7. CASE InsertUser(r) \/ MakeRule(r) \/ InsertMailbox(r) \/ RouteMailbox(r) \/ Remove(r)
  <2>1. pc[r] \in {"user"} \cup Registering \cup Removing
    BY <1>7 DEF InsertUser, MakeRule, InsertMailbox, RouteMailbox, Remove, RemoveRules,
       DisableRouting, RemoveSending, DeleteRow, RemoveStep, At, Step, Registering, Removing
  <2>. QED BY <1>1, <2>1
<1>8. CASE Fail(r) \/ Miss(r)
  BY <1>8, AliasBack
<1>9. CASE UndoRow(r) \/ UndoUser(r)
  BY <1>9 DEF UndoRow, UndoUser, Undo, At, Step
<1>10. CASE UndoRule(r) \/ UndoSending(r) \/ RestoreCatchAll(r) \/ UndoRouting(r)
  <2>1. /\ pc[r] \in Undoing /\ pc[r] \in Reverting /\ UNCHANGED <<domains, mailboxes>>
        /\ \E to : Goto(r, to, job[r]) /\ to = After(job[r], Undoings, pc[r])
    BY <1>10 DEF UndoRule, UndoSending, RestoreCatchAll, UndoRouting, Undo, At, Step, Undoing, Rows
  <2>2. zone'.rules \subseteq zone.rules
    <3>1. CASE UndoRule(r) \/ UndoSending(r) \/ UndoRouting(r)
      BY <1>0, <3>1 DEF UndoRule, UndoSending, UndoRouting, ZoneType
    <3>2. CASE RestoreCatchAll(r)
      <4>1. zone' = [zone EXCEPT !.catchAll = Restored(job[r])]
        BY <3>2 DEF RestoreCatchAll
      <4> HIDE DEF Restored
      <4>. QED BY <1>0, <4>1 DEF ZoneType
    <3>. QED BY <1>10, <3>1, <3>2
  <2>3. pc'[r] \in Undoing \cup {"undone"}
    <3>1. Onward(r, After(job[r], Undoings, pc[r]))
      BY <2>1, NextUndo
    <3>. QED BY <2>1, <3>1, StepSets DEF Onward, Undoable
  <2>4. pc'[r] \in Reverting
    BY <2>3 DEF Undoing, Resting, Ends
  <2>. QED BY <2>1, <2>2, <2>4 DEF AliasMoves
<1>. QED BY <1>2, <1>3, <1>4, <1>5, <1>6, <1>7, <1>8, <1>9, <1>10 DEF Acting, Go, GoBack

LEMMA LastSteps ==
  ASSUME RunInv, NEW r \in Requests, Acting(r), pc[r] \in {"unrow", "unuser"}
  PROVE  pc'[r] \in {"unuser", "undone"}
<1>1. Running(r) /\ pc[r] \in Places
  BY RunParts DEF Running, Ends
<1>2. CASE Fail(r) \/ UndoRow(r) \/ UndoUser(r)
  <2>1. \/ pc'[r] = OnError(r)
        \/ pc'[r] = After(job[r], Undoings, pc[r])
    BY <1>2, StepSets DEF Fail, UndoRow, UndoUser, Undo, At, Step
  <2>. QED BY <1>1, <2>1, ErrorOrder, AfterUndo DEF Undo6
<1>3. CASE Go(r)
  BY <1>3 DEF Go, InsertUser, FindZone, ReadSettings, ReadCatchAll, EnableRouting, PutCatchAll,
     ListSending, CreateSending, FindRow, WriteRow, RouteAliases, SelectRow, ReadDns, MakeRule,
     InsertMailbox, RouteMailbox, At, Step
<1>4. CASE \/ Miss(r) \/ UndoRule(r) \/ UndoSending(r) \/ RestoreCatchAll(r) \/ UndoRouting(r)
           \/ Remove(r)
  BY <1>4 DEF Miss, UndoRule, UndoSending, RestoreCatchAll, UndoRouting, Undo, Remove,
     RemoveRules, DisableRouting, RemoveSending, DeleteRow, RemoveStep, At, Step
<1>. QED BY <1>2, <1>3, <1>4 DEF Acting, GoBack

LEMMA AliasStays ==
  ASSUME RunInv, TableType, AloneInv, AliasInv, NEW r \in Requests, Acting(r)
  PROVE  AliasInv'
<1>1. PICK to \in Places, j \in JobType : Goes(r, to, j)
  BY ActingGoes DEF Going, TableType
<1>2. SUFFICES ASSUME NEW q \in Requests, job'[q].kind = "add", job'[q].start # None,
                      pc'[q] \notin {"unrow", "unuser"}
               PROVE  AliasOK(pc'[q], job'[q], zone', Addresses(job[q].user)')
  BY DEF AliasInv, AliasOK
<1>3. q = r
  <2>1. SUFFICES ASSUME q # r PROVE FALSE
    OBVIOUS
  <2>2. pc'[q] = pc[q] /\ job'[q] = job[q]
    BY <1>1, <2>1, Gone
  <2>3. Running(q) /\ Running(r)
    BY <1>1, <1>2, <2>2, RunParts DEF Goes
  <2>. QED BY <1>1, <1>2, <2>1, <2>2, <2>3 DEF AloneInv
<1>4. /\ pc'[r] = to /\ to \notin Resting /\ Running(r) /\ Kin(job'[r], job[r])
  <2>1. pc'[r] = to /\ JobOK(r, to, job'[r]) /\ Running(r)
    BY <1>1, Gone DEF Goes
  <2>2. to \notin Resting
    BY <1>2, <1>3, <2>1 DEF JobOK
  <2>. QED BY <1>1, <2>1, <2>2, Gone
<1>5. /\ job[r].kind = "add" /\ job[r].start # None /\ job'[r].start = job[r].start
      /\ \A u \in Requests : job'[u].host = job[u].host
  BY <1>1, <1>2, <1>3, <1>4, Gone DEF Kin
<1>6. pc[r] \notin {"unrow", "unuser"}
  BY <1>2, <1>3, <1>4, LastSteps DEF Resting, Ends
<1> DEFINE addresses == Addresses(job[r].user)
<1>7. UNCHANGED <<domains, mailboxes>> => addresses' = addresses
  <2>1. SUFFICES ASSUME UNCHANGED <<domains, mailboxes>> PROVE addresses' = addresses
    OBVIOUS
  <2>2. job'[r].user = job[r].user
    BY <1>4 DEF Kin
  <2>3. job[r].user \in Requests
    BY <1>4, <1>5, RunParts DEF SignedIn, TableType, Users, Resting
  <2>. QED BY <1>5, <2>1, <2>2, <2>3 DEF Addresses, Host
<1>8. zone.rules \subseteq job[r].start.rules \cup (IF pc[r] \in Aliased THEN addresses ELSE {})
  BY <1>5, <1>6 DEF AliasInv, AliasOK
<1>9. AliasMoves(r)
  BY <1>2, <1>3, <1>4, <1>5, <1>6, AliasSteps
<1>10. zone'.rules \subseteq job[r].start.rules
         \cup (IF pc'[r] \in Aliased THEN addresses' ELSE {})
  <2>1. CASE pc[r] \notin Aliased /\ zone'.rules \subseteq zone.rules
    BY <1>8, <2>1
  <2>2. CASE /\ pc[r] \in Aliased /\ pc'[r] \in Aliased /\ zone'.rules \subseteq zone.rules
             /\ UNCHANGED <<domains, mailboxes>>
    BY <1>7, <1>8, <2>2
  <2>3. CASE /\ pc[r] \notin Aliased /\ pc'[r] \in Aliased /\ UNCHANGED <<domains, mailboxes>>
             /\ zone'.rules \subseteq zone.rules \cup addresses
    BY <1>7, <1>8, <2>3
  <2>. QED BY <1>9, <2>1, <2>2, <2>3 DEF AliasMoves
<1>. QED BY <1>3, <1>5, <1>10 DEF AliasOK

-----------------------------------------------------------------------------
(* A request begins *)

Starts(r, step, j) ==
  /\ j \in JobType /\ j.host \in Hosts /\ j.start = None /\ j.previous = None
  /\ ~j.fresh /\ ~j.enabled /\ ~j.created /\ ~j.ruled /\ ~j.spoiled
  /\ \/ step \in {"user", "refused"} /\ j.kind = "register" /\ j.user = r /\ j.routing
     \/ step = "zone" /\ j.kind = "add" /\ j.user \in SignedIn
     \/ step = "unruleAll" /\ j.kind = "remove" /\ j.user \in SignedIn

LEMMA NoJobParts ==
  /\ NoJob \in JobType /\ NoJob.kind = "add" /\ NoJob.start = None /\ NoJob.previous = None
  /\ ~NoJob.fresh /\ ~NoJob.enabled /\ ~NoJob.created /\ ~NoJob.ruled /\ ~NoJob.spoiled
BY NoJobType DEF NoJob

LEMMA Asks ==
  ASSUME TableType, NEW r \in Requests, Ask(r)
  PROVE  \E step \in {"user", "refused", "zone", "unruleAll"}, j \in JobType :
            Begin(r, step, j) /\ Starts(r, step, j)
<1>0. r \in Users /\ SignedIn \subseteq Users
  BY DEF Users, TableType, SignedIn
<1>1. PICK h \in Hosts : \/ \E sending \in BOOLEAN : Register(r, h, sending)
                         \/ \E u \in SignedIn :
                              \/ \E routing, sending \in BOOLEAN : AddDomain(r, u, h, routing, sending)
                              \/ RemoveDomain(r, u, h)
  BY DEF Ask
<1>2. ASSUME NEW sending \in BOOLEAN, Register(r, h, sending)
      PROVE  \E step \in {"user", "refused", "zone", "unruleAll"}, j \in JobType :
               Begin(r, step, j) /\ Starts(r, step, j)
  <2> DEFINE step == IF users = {} THEN "user" ELSE "refused"
             j == [NoJob EXCEPT !.kind = "register", !.user = r, !.host = h, !.routing = TRUE,
                                !.sending = sending]
  <2>1. Begin(r, step, j) /\ step \in {"user", "refused"}
    BY <1>2 DEF Register
  <2> HIDE DEF step
  <2>2. /\ j \in JobType /\ j.kind = "register" /\ j.user = r /\ j.host = h /\ j.routing
        /\ j.start = None /\ j.previous = None
        /\ ~j.fresh /\ ~j.enabled /\ ~j.created /\ ~j.ruled /\ ~j.spoiled
    BY <1>0, NoJobParts DEF JobType
  <2> HIDE DEF j
  <2>. QED BY <2>1, <2>2 DEF Starts
<1>3. ASSUME NEW u \in SignedIn, NEW routing \in BOOLEAN, NEW sending \in BOOLEAN,
             AddDomain(r, u, h, routing, sending)
      PROVE  \E step \in {"user", "refused", "zone", "unruleAll"}, j \in JobType :
               Begin(r, step, j) /\ Starts(r, step, j)
  <2> DEFINE j == [NoJob EXCEPT !.user = u, !.host = h, !.routing = routing, !.sending = sending]
  <2>1. Begin(r, "zone", j)
    BY <1>3 DEF AddDomain
  <2>2. /\ j \in JobType /\ j.kind = "add" /\ j.user = u /\ j.host = h
        /\ j.start = None /\ j.previous = None
        /\ ~j.fresh /\ ~j.enabled /\ ~j.created /\ ~j.ruled /\ ~j.spoiled
    BY <1>0, NoJobParts DEF JobType
  <2> HIDE DEF j
  <2>. QED BY <2>1, <2>2 DEF Starts
<1>4. ASSUME NEW u \in SignedIn, RemoveDomain(r, u, h)
      PROVE  \E step \in {"user", "refused", "zone", "unruleAll"}, j \in JobType :
               Begin(r, step, j) /\ Starts(r, step, j)
  <2> DEFINE routing == domains[h].routing
             sending == domains[h].tagged
             j == [NoJob EXCEPT !.kind = "remove", !.user = u, !.host = h, !.routing = routing,
                                !.sending = sending]
  <2>1. Begin(r, "unruleAll", j) /\ routing \in BOOLEAN /\ sending \in BOOLEAN
    BY <1>4 DEF RemoveDomain, TableType
  <2> HIDE DEF routing, sending
  <2>2. /\ j \in JobType /\ j.kind = "remove" /\ j.user = u /\ j.host = h
        /\ j.start = None /\ j.previous = None
        /\ ~j.fresh /\ ~j.enabled /\ ~j.created /\ ~j.ruled /\ ~j.spoiled
    BY <1>0, <2>1, NoJobParts DEF JobType
  <2> HIDE DEF j
  <2>. QED BY <2>1, <2>2 DEF Starts
<1>. QED BY <1>1, <1>2, <1>3, <1>4

\* What it leaves behind: those beside it no longer know the zone they found.
Began(r, step, k) ==
  /\ pc[r] = "idle" /\ pc'[r] = step /\ job'[r] = k /\ k \in JobType
  /\ pc' \in [Requests -> Places] /\ job' \in [Requests -> JobType]
  /\ \A q \in Requests : q # r => /\ pc'[q] = pc[q] /\ job'[q].start = None
                                  /\ JobOK(q, pc'[q], job'[q])
                                  /\ job'[q].kind = job[q].kind /\ job'[q].user = job[q].user
                                  /\ job'[q].host = job[q].host /\ job'[q].routing = job[q].routing
                                  /\ job'[q].fresh = job[q].fresh /\ job'[q].wasOn = job[q].wasOn
                                  /\ job'[q].previous = job[q].previous
  /\ k.start # None => k.start = zone /\ step \notin Ends /\ \A q \in Requests : ~Running(q)
  /\ JobOK(r, step, k) /\ ~k.fresh
  /\ \/ step \in {"user", "refused", "zone"}
     \/ step = "unruleAll" /\ k.kind = "remove"
  /\ k.kind # "register" => k.user \in SignedIn
  /\ UNCHANGED <<zone, domains, users, mailboxes, failures>>
  /\ shaken' = (shaken \/ \E q \in Requests : Running(q) /\ job[q].fresh)

LEMMA Begins ==
  ASSUME RunInv, TableType, NEW r \in Requests, Ask(r)
  PROVE  \E step, k : Began(r, step, k)
<1>1. PICK step \in {"user", "refused", "zone", "unruleAll"}, j \in JobType :
              Begin(r, step, j) /\ Starts(r, step, j)
  BY Asks
<1> DEFINE beside == {q \in Requests : Running(q)}
           x == IF beside = {} THEN zone ELSE None
           n == [j EXCEPT !.start = x]
           k == IF step \in Ends THEN Ended(j) ELSE n
<1>2. /\ pc[r] = "idle" /\ pc' = [pc EXCEPT ![r] = step]
      /\ job' = [q \in Requests |-> IF q = r THEN k ELSE [job[q] EXCEPT !.start = None]]
      /\ UNCHANGED <<zone, domains, users, mailboxes, failures>>
      /\ Shaken(\E q \in beside : job[q].fresh)
  BY <1>1 DEF Begin
<1>3. x \in ZoneType \cup {None} /\ (x # None => x = zone /\ \A q \in Requests : ~Running(q))
  BY DEF TableType
<1>4. step \in Places /\ (step \in Ends <=> step = "refused")
  BY <1>1 DEF Places, Ends, Provisioning, Removing
<1>5. shaken' = (shaken \/ \E q \in Requests : Running(q) /\ job[q].fresh)
  BY <1>2 DEF Shaken
<1> HIDE DEF beside, x
<1>6. /\ n \in JobType /\ n.start = x /\ n.kind = j.kind /\ n.user = j.user /\ n.host = j.host
      /\ n.routing = j.routing /\ n.fresh = j.fresh /\ n.enabled = j.enabled /\ n.created = j.created
      /\ n.ruled = j.ruled /\ n.spoiled = j.spoiled /\ n.previous = j.previous
  BY <1>3 DEF JobType
<1> HIDE DEF n
<1>7. k \in JobType /\ JobOK(r, step, k) /\ ~k.fresh /\ k.kind = j.kind /\ k.user = j.user
  <2>1. CASE step \in Ends
    <3>1. step = "refused" /\ k = Ended(j)
      BY <1>4, <2>1
    <3>2. /\ k \in JobType /\ k.kind = j.kind /\ k.user = j.user /\ k.host = j.host /\ k.start = None
          /\ ~k.fresh /\ ~k.enabled /\ ~k.created /\ k.previous = None
      BY <3>1, EndedParts
    <3> HIDE DEF k
    <3>3. JobOK(r, step, k)
      BY <1>1, <3>1, <3>2 DEF Starts, JobOK, Resting, Ends, Early, Provisioning, Adding,
         Registering
    <3>. QED BY <3>2, <3>3
  <2>2. CASE step \notin Ends
    <3>1. k = n
      BY <2>2
    <3>2. JobOK(r, step, n)
      BY <1>1, <1>4, <1>6, <2>2 DEF Starts, JobOK, Resting, Ends, Early, Provisioning, Adding,
         Registering,
         Removing
    <3>. QED BY <1>1, <1>6, <3>1, <3>2 DEF Starts
  <2>. QED BY <2>1, <2>2
<1>8. k.start # None => k.start = zone /\ step \notin Ends /\ \A q \in Requests : ~Running(q)
  BY <1>3, <1>6, EndedParts
<1> HIDE DEF k
<1>9. ASSUME NEW q \in Requests, q # r
      PROVE  /\ pc'[q] = pc[q] /\ job'[q].start = None /\ job'[q] \in JobType
             /\ JobOK(q, pc'[q], job'[q])
             /\ job'[q].kind = job[q].kind /\ job'[q].user = job[q].user
             /\ job'[q].host = job[q].host /\ job'[q].routing = job[q].routing
             /\ job'[q].fresh = job[q].fresh /\ job'[q].wasOn = job[q].wasOn
             /\ job'[q].previous = job[q].previous
  <2> DEFINE m == [job[q] EXCEPT !.start = None]
  <2>1. pc'[q] = pc[q] /\ job'[q] = m
    BY <1>2, <1>9 DEF RunInv
  <2>2. job[q] \in JobType /\ JobOK(q, pc[q], job[q])
    BY RunParts
  <2>3. /\ m \in JobType /\ m.start = None /\ m.kind = job[q].kind /\ m.user = job[q].user
        /\ m.host = job[q].host /\ m.routing = job[q].routing /\ m.fresh = job[q].fresh
        /\ m.wasOn = job[q].wasOn /\ m.previous = job[q].previous /\ m.enabled = job[q].enabled
        /\ m.created = job[q].created /\ m.ruled = job[q].ruled /\ m.sending = job[q].sending
        /\ m.spoiled = job[q].spoiled
    BY <2>2 DEF JobType
  <2> HIDE DEF m
  <2>4. JobOK(q, pc[q], m)
    BY <2>2, <2>3 DEF JobOK
  <2>. QED BY <2>1, <2>3, <2>4
<1>10. pc'[r] = step /\ job'[r] = k /\ pc' \in [Requests -> Places]
  BY <1>2, <1>4 DEF RunInv
<1>11. job' \in [Requests -> JobType]
  <2>1. \A q \in Requests : job'[q] \in JobType
    BY <1>7, <1>9, <1>10
  <2>2. job' = [q \in Requests |-> job'[q]]
    BY <1>2
  <2>. QED BY <2>1, <2>2
<1>12. /\ step \in {"user", "refused", "zone"} \/ (step = "unruleAll" /\ k.kind = "remove")
       /\ k.kind # "register" => k.user \in SignedIn
  BY <1>1, <1>7 DEF Starts
<1>13. Began(r, step, k)
  BY <1>2, <1>5, <1>7, <1>8, <1>9, <1>10, <1>11, <1>12 DEF Began
<1>. QED BY <1>13

LEMMA BeginStays ==
  ASSUME IInv, NEW r \in Requests, Ask(r)
  PROVE  IInv'
<1>0. RunInv /\ TableType /\ MemberInv /\ AloneInv /\ CalmInv /\ ExactInv /\ AliasInv
  BY DEF IInv
<1>1. PICK step, k : Began(r, step, k)
  BY <1>0, Begins
<1>2. /\ pc[r] = "idle" /\ pc'[r] = step /\ job'[r] = k /\ step # "done" /\ step # "idle"
      /\ \A q \in Requests : q # r => pc'[q] = pc[q] /\ job'[q].start = None
      /\ UNCHANGED <<zone, domains, users, mailboxes, failures>> /\ users \subseteq Requests
      /\ shaken' = (shaken \/ \E q \in Requests : Running(q) /\ job[q].fresh)
  BY <1>0, <1>1 DEF Began, TableType, Users
<1>3. r \notin users /\ SignedIn' = SignedIn
  <2>1. r \notin users
    BY <1>0, <1>2 DEF MemberInv, UserOK
  <2>. QED BY <1>2, <2>1 DEF SignedIn
<1>4. RunInv'
  <2>1. /\ pc' \in [Requests -> Places] /\ job' \in [Requests -> JobType]
        /\ \A q \in Requests : JobOK(q, pc'[q], job'[q])
    BY <1>1 DEF Began
  <2>2. ASSUME NEW q \in Requests, pc'[q] # "idle", job'[q].kind # "register"
        PROVE  job'[q].user \in SignedIn'
    <3>1. CASE q = r
      BY <1>1, <1>3, <2>2, <3>1 DEF Began
    <3>2. CASE q # r
      <4>1. pc[q] # "idle" /\ job[q].kind # "register" /\ job'[q].user = job[q].user
        BY <1>1, <2>2, <3>2 DEF Began
      <4>. QED BY <1>0, <1>3, <4>1, RunParts
    <3>. QED BY <3>1, <3>2
  <2>. QED BY <2>1, <2>2 DEF RunInv
<1>5. TableType'
  <2>1. shaken' \in BOOLEAN
    BY <1>2
  <2>. QED BY <1>0, <1>2, <2>1 DEF TableType
<1>6. MemberInv'
  <2>1. ASSUME NEW u \in users PROVE UserOK(u)'
    <3>1. UserOK(u) /\ u # r /\ u \in Requests
      BY <1>0, <1>2, <1>3 DEF MemberInv
    <3>2. pc'[u] = pc[u] /\ job'[u].kind = job[u].kind
      BY <1>1, <3>1 DEF Began
    <3>. QED BY <1>2, <3>1, <3>2 DEF UserOK
  <2>2. ASSUME NEW h \in Hosts, NEW u, u = domains[h].owner, u # None PROVE RowOK(h, u)'
    <3>1. RowOK(h, u) /\ u \in users /\ u # r
      BY <1>0, <1>3, <2>2 DEF MemberInv, TableType
    <3>2. pc'[u] = pc[u] /\ job'[u].host = job[u].host
      BY <1>1, <1>2, <3>1 DEF Began
    <3>. QED BY <3>1, <3>2 DEF RowOK, Running, Host
  <2>3. \A u \in mailboxes : pc'[u] = pc[u]
    BY <1>0, <1>2, <1>3 DEF TableType
  <2>. QED BY <1>0, <1>2, <2>1, <2>2, <2>3 DEF MemberInv
<1>7. AloneInv'
  <2>1. SUFFICES ASSUME NEW q \in Requests, job'[q].start # None
                 PROVE  \A p \in Requests : Running(p)' => p = q
    BY DEF AloneInv
  <2>2. q = r
    BY <1>2, <2>1
  <2>3. \A p \in Requests : ~Running(p)
    BY <1>1, <1>2, <2>1, <2>2 DEF Began
  <2>. QED BY <1>2, <2>2, <2>3 DEF Running
<1>8. CalmInv'
  <2>1. SUFFICES ASSUME ~shaken'
                 PROVE (SignedIn' # {} => Routed') /\ \A q \in Requests : CalmOK(q)'
    BY DEF CalmInv
  <2>2. ~shaken /\ \A q \in Requests : ~(Running(q) /\ job[q].fresh)
    BY <1>2, <2>1
  <2>3. (SignedIn # {} => Routed) /\ \A q \in Requests : CalmOK(q)
    BY <1>0, <2>2 DEF CalmInv
  <2>4. SignedIn' # {} => Routed'
    BY <1>2, <1>3, <2>3 DEF Routed
  <2>5. ASSUME NEW q \in Requests, q # r PROVE CalmOK(q)'
    <3>1. /\ pc'[q] = pc[q] /\ job'[q].kind = job[q].kind /\ job'[q].routing = job[q].routing
          /\ job'[q].fresh = job[q].fresh /\ job'[q].wasOn = job[q].wasOn
          /\ job'[q].previous = job[q].previous
      BY <1>1, <2>5 DEF Began
    <3>2. ~job[q].fresh
      BY <1>0, <2>2, RunParts
    <3>3. PastZone(q)' <=> PastZone(q)
      BY <3>1 DEF PastZone, Running
    <3>4. Routed' <=> Routed
      BY <1>2 DEF Routed
    <3>. QED BY <1>2, <2>3, <3>1, <3>2, <3>3, <3>4 DEF CalmOK
  <2>6. CalmOK(r)'
    <3>1. ~job'[r].fresh
      BY <1>1 DEF Began
    <3>2. ~PastZone(r)'
      BY <1>1 DEF Began, PastZone, Running, Ends
    <3>. QED BY <3>1, <3>2 DEF CalmOK
  <2>. QED BY <2>4, <2>5, <2>6
<1>9. ExactInv'
  <2>1. SUFFICES ASSUME NEW q \in Requests, Alone(q)' PROVE Exact(pc'[q], job'[q], zone')
    BY DEF ExactInv
  <2>2. q = r
    BY <1>2, <2>1 DEF Alone
  <2>3. k.start = zone /\ zone' = zone /\ step \in {"user", "zone"} /\ pc'[r] = step /\ job'[r] = k
    BY <1>1, <1>2, <2>1, <2>2 DEF Alone, Began, Ends
  <2>. QED BY <2>2, <2>3 DEF Exact, Early, Forward, Adding, Registering, Reverting
<1>10. AliasInv'
  <2>1. SUFFICES ASSUME NEW q \in Requests, job'[q].start # None
                 PROVE  zone'.rules \subseteq job'[q].start.rules
    BY DEF AliasInv, AliasOK
  <2>2. q = r
    BY <1>2, <2>1
  <2>. QED BY <1>1, <1>2, <2>1, <2>2 DEF Began
<1>. QED BY <1>4, <1>5, <1>6, <1>7, <1>8, <1>9, <1>10 DEF IInv

LEMMA StutterStays == IInv /\ UNCHANGED vars => IInv'
<1> SUFFICES ASSUME IInv, UNCHANGED vars PROVE IInv'
  OBVIOUS
<1>0. /\ zone' = zone /\ domains' = domains /\ users' = users /\ mailboxes' = mailboxes
      /\ pc' = pc /\ job' = job /\ shaken' = shaken /\ failures' = failures
  BY DEF vars
<1>1. RunInv'
  BY <1>0 DEF IInv, RunInv, SignedIn
<1>2. TableType'
  BY <1>0 DEF IInv, TableType
<1>3. MemberInv'
  BY <1>0 DEF IInv, MemberInv, UserOK, RowOK, Running, Host
<1>4. AloneInv'
  BY <1>0 DEF IInv, AloneInv, Running
<1>5. CalmInv'
  BY <1>0 DEF IInv, CalmInv, CalmOK, PastZone, Running, Routed, SignedIn
<1>6. ExactInv'
  BY <1>0 DEF IInv, ExactInv, Alone, Running
<1>7. AliasInv'
  <2>1. AliasInv
    BY DEF IInv
  <2>. QED BY <1>0, <2>1 DEF AliasInv, AliasOK, Addresses, Host
<1>. QED BY <1>1, <1>2, <1>3, <1>4, <1>5, <1>6, <1>7 DEF IInv

LEMMA Base == Init => IInv
<1> SUFFICES ASSUME Init PROVE IInv
  OBVIOUS
<1>1. /\ zone \in ZoneType /\ domains = [h \in Hosts |-> NoRow] /\ users = {} /\ mailboxes = {}
      /\ pc = [r \in Requests |-> "idle"] /\ job = [r \in Requests |-> NoJob]
      /\ shaken = FALSE /\ failures = 0 /\ MaxFailures \in Nat
  BY ProvisionAssumption DEF Init
<1>2. SignedIn = {} /\ \A r \in Requests : pc[r] = "idle" /\ job[r] = NoJob /\ ~Running(r)
  BY <1>1 DEF SignedIn, Running
<1>3. RunInv
  <2>1. \A r \in Requests : JobOK(r, "idle", NoJob)
    BY NoJobParts DEF JobOK, Resting, Ends, Early, Provisioning, Adding, Registering
  <2>. QED BY <1>1, <1>2, <2>1, NoJobParts DEF RunInv, Places
<1>4. TableType
  <2>1. /\ NoRow \in [owner : Users \cup {None}, routing : BOOLEAN, tagged : BOOLEAN]
        /\ NoRow.owner = None /\ ~NoRow.routing
    BY DEF NoRow
  <2> HIDE DEF NoRow
  <2>2. /\ domains \in [Hosts -> [owner : Users \cup {None}, routing : BOOLEAN, tagged : BOOLEAN]]
        /\ \A h \in Hosts : domains[h].owner = None /\ ~domains[h].routing
    BY <1>1, <2>1
  <2>3. failures = 0 /\ MaxFailures \in Nat
    BY <1>1
  <2>4. failures \in 0..MaxFailures
    BY <2>3
  <2>5. shaken \in BOOLEAN
    BY <1>1
  <2>. QED BY <1>1, <2>2, <2>4, <2>5 DEF TableType
<1>5. MemberInv
  <2>1. \A h \in Hosts : domains[h].owner = None
    BY <1>1 DEF NoRow
  <2>. QED BY <1>1, <2>1 DEF MemberInv
<1>6. AloneInv /\ ExactInv /\ AliasInv
  BY <1>2, NoJobParts DEF AloneInv, ExactInv, Alone, AliasInv, AliasOK
<1>7. CalmInv
  BY <1>2, NoJobParts DEF CalmInv, CalmOK, PastZone
<1>. QED BY <1>3, <1>4, <1>5, <1>6, <1>7 DEF IInv

LEMMA Preserved == IInv /\ [Next]_vars => IInv'
<1> SUFFICES ASSUME IInv, [Next]_vars PROVE IInv'
  OBVIOUS
<1>1. CASE UNCHANGED vars
  BY <1>1, StutterStays
<1>2. ASSUME NEW r \in Requests, Ask(r) PROVE IInv'
  BY <1>2, BeginStays
<1>3. ASSUME NEW r \in Requests, Acting(r) PROVE IInv'
  <2>1. RunInv /\ TableType /\ MemberInv /\ AloneInv /\ CalmInv /\ ExactInv /\ AliasInv
    BY DEF IInv
  <2>. QED BY <1>3, <2>1, RunStays, ActingEffects, MembersStay, AloneStays, CalmStays,
              ExactStays, AliasStays DEF IInv
<1>. QED BY <1>1, <1>2, <1>3 DEF Next, Acting

LEMMA Invariance == Spec => []IInv
BY Base, Preserved, PTL DEF Spec

-----------------------------------------------------------------------------
(* Theorems *)

LEMMA Typed == IInv => TypeOK
<1> SUFFICES ASSUME IInv PROVE TypeOK
  OBVIOUS
<1>1. RunInv /\ TableType
  BY DEF IInv
<1>2. \A r \in Requests : /\ job[r].kind \in {"register", "add", "remove"}
                          /\ job[r].previous \in CatchAlls \cup {None}
                          /\ job[r].start \in ZoneType \cup {None}
                          /\ job[r].enabled => ~job[r].wasOn
                          /\ job[r].created => job[r].sending
  <2>1. SUFFICES ASSUME NEW r \in Requests
                 PROVE  /\ job[r].kind \in {"register", "add", "remove"}
                        /\ job[r].previous \in CatchAlls \cup {None}
                        /\ job[r].start \in ZoneType \cup {None}
                        /\ job[r].enabled => ~job[r].wasOn
                        /\ job[r].created => job[r].sending
    OBVIOUS
  <2>2. job[r] \in JobType /\ JobOK(r, pc[r], job[r])
    BY <1>1, RunParts
  <2>. QED BY <2>2 DEF JobType, JobOK
<1>. QED BY <1>1, <1>2 DEF TypeOK, TableType, RunInv, Places

LEMMA Routes == IInv => LiveIsRouted
<1> SUFFICES ASSUME IInv, NEW h \in Hosts, domains[h].routing, ~Withdrawn(h), ~shaken
             PROVE  Routed
  BY DEF LiveIsRouted, Routed
<1> DEFINE u == domains[h].owner
<1>1. RunInv /\ TableType /\ MemberInv /\ CalmInv
  BY DEF IInv
<1>2. u \in users /\ u \in Requests
  BY <1>1 DEF TableType, Users
<1>3. /\ job[u].kind = "register" /\ pc[u] \notin {"idle", "refused", "user", "failed", "undone"}
      /\ RowOK(h, u)
  <2>1. u # None
    BY <1>2, NobodyElse DEF Users
  <2>. QED BY <1>1, <1>2, <2>1 DEF MemberInv, UserOK
<1>4. CASE pc[u] = "done"
  BY <1>1, <1>2, <1>4 DEF CalmInv, SignedIn
<1>5. CASE pc[u] # "done"
  <2>1. Running(u)
    BY <1>3, <1>5 DEF Running, Ends
  <2>2. h = job[u].host /\ pc[u] \in Written
    BY <1>2, <1>3, <2>1 DEF RowOK, Host, Withdrawn
  <2>3. job[u].routing
    BY <1>1, <1>2, <1>3, <2>1, RunParts DEF JobOK
  <2>4. PastZone(u) /\ pc[u] \in Forward
    BY <1>3, <2>1, <2>2, <2>3 DEF PastZone, Written, Forward, Adding, Registering
  <2>. QED BY <1>1, <1>2, <2>4 DEF CalmInv, CalmOK
<1>. QED BY <1>4, <1>5

\* What is left of the rules, and what may be left beside them.
Others(r) == job[r].start.rules \ Own(job[r])
Stray(r) == IF job[r].kind = "add" THEN Addresses(job[r].user) ELSE {}
Undone(r) ==
  /\ pc[r] \in (Adding \cup Registering \cup Undoing) \ {"unrow", "unuser"}
  /\ pc'[r] \in {"unrow", "unuser", "undone"}
  /\ job[r].start # None /\ ~Spoiled(r) /\ Kept(job[r].start)
  => /\ Same(zone', job[r].start)
     /\ Others(r) \subseteq zone'.rules /\ zone'.rules \subseteq Others(r) \cup Stray(r)

LEMMA Undoes == IInv /\ [Next]_vars => \A r \in Requests : Undone(r)
<1> SUFFICES ASSUME IInv, [Next]_vars, NEW r \in Requests,
                    pc[r] \in (Adding \cup Registering \cup Undoing) \ {"unrow", "unuser"},
                    pc'[r] \in {"unrow", "unuser", "undone"},
                    job[r].start # None, ~Spoiled(r), Kept(job[r].start)
             PROVE  /\ Same(zone', job[r].start)
                    /\ Others(r) \subseteq zone'.rules
                    /\ zone'.rules \subseteq Others(r) \cup Stray(r)
  BY DEF Undone
<1>1. RunInv /\ TableType /\ ExactInv /\ AliasInv
  BY DEF IInv
<1>2. pc[r] \in Adding \cup Registering \cup Reverting /\ pc'[r] # pc[r]
  BY DEF Undoing, Reverting, Adding, Registering
<1>3. Acting(r)
  <2>1. CASE UNCHANGED vars
    BY <1>2, <2>1 DEF vars
  <2>2. ASSUME NEW q \in Requests, Ask(q) PROVE FALSE
    <3>1. PICK step, k : Began(q, step, k)
      BY <1>1, <2>2, Begins
    <3>2. pc[q] = "idle" /\ \A p \in Requests : p # q => pc'[p] = pc[p]
      BY <3>1 DEF Began
    <3>. QED BY <1>2, <3>2 DEF Adding, Registering, Reverting
  <2>3. ASSUME NEW q \in Requests, Acting(q) PROVE q = r
    <3>1. PICK to \in Places, j \in JobType : Goes(q, to, j)
      BY <1>1, <2>3, ActingGoes DEF Going, TableType
    <3>. QED BY <1>1, <1>2, <3>1, Gone
  <2>. QED BY <2>1, <2>2, <2>3 DEF Next, Acting
<1>4. Alone(r) /\ Exact(pc[r], job[r], zone)
  <2>1. Running(r) /\ job[r].kind # "remove"
    <3>1. pc[r] \notin Resting \cup Removing
      BY <1>2 DEF Resting, Ends, Removing, Adding, Registering, Reverting
    <3>. QED BY <1>1, <3>1, RunParts DEF JobOK
  <2>2. Alone(r)
    BY <2>1 DEF Alone, Spoiled
  <2>. QED BY <1>1, <2>2 DEF ExactInv
<1>5. pc[r] \in Undoing => failures' = failures
  BY DEF Spoiled
<1>6. Clean(pc'[r], job[r], zone') /\ zone'.rules \subseteq zone.rules
  BY <1>1, <1>2, <1>3, <1>4, <1>5, BackClean DEF Undoing
<1>7. Same(zone', job[r].start) /\ Spared(job[r], zone')
  BY <1>6 DEF Clean
<1>8. CASE job[r].kind = "register"
  BY <1>7, <1>8 DEF Spared, Others, Stray
<1>9. CASE job[r].kind # "register"
  <2>1. job[r].kind = "add"
    <3>1. job[r] \in JobType /\ job[r].kind # "remove"
      BY <1>1, <1>4, RunParts DEF Alone
    <3>. QED BY <1>9, <3>1 DEF JobType
  <2>2. ~job[r].ruled
    BY <1>2, <1>4, <1>9 DEF Exact, Forward
  <2>3. zone.rules \subseteq job[r].start.rules \cup Addresses(job[r].user)
    BY <1>1, <2>1 DEF AliasInv, AliasOK
  <2>. QED BY <1>6, <1>7, <2>1, <2>2, <2>3 DEF Spared, Others, Stray, Own
<1>. QED BY <1>7, <1>8, <1>9

\* The tables hold what their columns hold, a request is at a step of its kind, and
\* what it would undo it did itself, whatever comes between its calls.
THEOREM TypeCorrect == Spec => []TypeOK
BY Invariance, Typed, PTL

\* A domain that is set up with routing stays routed to the worker through the failed
\* attempts of others (lib/domains), until the zone is shaken.
THEOREM LiveIsRoutedHolds == Spec => []LiveIsRouted
BY Invariance, Routes, PTL

\* A rollback that nothing spoils, of a request with nobody beside it, leaves routing, the
\* catch-all and the sending subdomains as the request found them, and every address rule
\* but the one it noted as its own.  Beside those a registration leaves no rule, a domain
\* added only rules of the mailbox that uses all domains (lib/domains, auth/register).
THEOREM RollbackLeavesHolds == Spec => RollbackLeaves
<1>1. IInv /\ [Next]_vars => [\A r \in Requests : Undone(r)]_vars
  BY Undoes
<1>2. RollbackLeaves <=> [][\A r \in Requests : Undone(r)]_vars
  BY DEF RollbackLeaves, Undone, Others, Stray, Own, Host
<1>. QED BY <1>1, <1>2, Invariance, PTL DEF Spec
-----------------------------------------------------------------------------
(***************************************************************************)
(* What the browser's caches and the spam filter's counts are, for every   *)
(* number of messages, requests and fetches under way.  Mailview shares    *)
(* nothing with Provision but None, so it is taken as an instance; what it *)
(* assumes of its constants is a hypothesis here.                          *)
(***************************************************************************)
CONSTANTS Mails, MaxEvents, MaxFetches
VARIABLES mail, feedback, trained, jobs, begun, open, shown, local, count,
          listCache, countsCache, fetches, touched, crossed, raced, events
View == INSTANCE Mailview

\* What TypeOK says of the server, of the page and of the caches.
ServerType ==
  /\ mail \in [Mails -> View!Rows]
  /\ feedback \in [Mails -> View!Classes \cup {None}]
  /\ trained \in [View!Classes -> Nat]
  /\ jobs \in [View!Requests -> View!Jobs]
  /\ begun \in Nat /\ events \in Nat /\ begun + events <= MaxEvents
  /\ crossed \subseteq touched /\ raced \in BOOLEAN
PageType ==
  open \in BOOLEAN /\ shown \in View!Lists /\ local \subseteq shown.rows /\ count \in Nat
CacheType ==
  /\ listCache = None \/ listCache \in View!Entries
  /\ countsCache = None \/ countsCache \in View!Entries
  /\ fetches \subseteq View!Fetches

(***************************************************************************)
(* Of a request: what it marks is noted, a whole selection called spam     *)
(* goes to the filter, which is told of a message there is.                *)
(***************************************************************************)
ChangeOK(j) ==
  /\ j.op \in View!Marks => j.ids \subseteq touched
  /\ j.op = "spam" /\ j.step \in {"recall", "learn", "write"} => j.ids = {}
  /\ j.step \in {"recall", "learn"} => j.spam # {}
ChangeInv == \A r \in View!Requests : ChangeOK(jobs[r])

(***************************************************************************)
(* Of a fetch: one of this generation is this user's, and an answer older  *)
(* than a change the page was told of belongs to a list that was cleared   *)
(* meanwhile, or to counts of an earlier generation.                       *)
(***************************************************************************)
FetchOK(f) ==
  /\ f.same => f.mine
  /\ f.answer # None /\ f.answer.late => IF f.of = "list" THEN f.spans ELSE ~f.counts
FetchesOK(fs) == fs \subseteq View!Fetches /\ \A f \in fs : FetchOK(f)

CacheInv == CacheType /\ FetchesOK(fetches) /\ View!CachesAreCurrent
ServerInv == ServerType /\ ChangeInv /\ View!FeedbackIsCounted
ViewInv == CacheInv /\ PageType /\ ServerInv

LEMMA TypeParts == View!TypeOK <=> ServerType /\ PageType /\ CacheType
BY DEF View!TypeOK, ServerType, PageType, CacheType

-----------------------------------------------------------------------------
(* Sets of messages, lists and answers *)

\* The cardinality View counts with is that of FiniteSets.
LEMMA SameCount ==
  /\ \A S : View!Cardinality(S) = Cardinality(S)
  /\ \A S : View!IsFiniteSet(S) <=> IsFiniteSet(S)
<1>1. \A S : View!Cardinality(S) = Cardinality(S)
  BY DEF View!Cardinality, Cardinality
<1>2. \A S : View!IsFiniteSet(S) <=> IsFiniteSet(S)
  BY DEF View!IsFiniteSet, IsFiniteSet
<1>. QED BY <1>1, <1>2

LEMMA Counted ==
  ASSUME View!MailviewAssumption, NEW S \in SUBSET Mails
  PROVE  Cardinality(S) \in Nat /\ Cardinality(S) <= Cardinality(Mails) /\ IsFiniteSet(S)
BY SameCount, FS_Subset, FS_CardinalityType DEF View!MailviewAssumption

LEMMA ListsMade ==
  ASSUME NEW rows \in SUBSET Mails, NEW read \in SUBSET rows
  PROVE  [rows |-> rows, read |-> read] \in View!Lists
BY DEF View!Lists

LEMMA ListParts ==
  ASSUME NEW l \in View!Lists
  PROVE  l.rows \subseteq Mails /\ l.read \subseteq l.rows
BY DEF View!Lists

LEMMA EmptyList == View!Empty \in View!Lists
BY ListsMade DEF View!Empty

LEMMA ServerList ==
  ASSUME View!MailviewAssumption
  PROVE  View!List \in View!Lists /\ View!Unread \in 0..Cardinality(Mails)
<1>1. /\ View!ReadMail \in SUBSET View!Inbox /\ View!Inbox \in SUBSET Mails
      /\ View!Inbox \ View!ReadMail \in SUBSET Mails
  BY DEF View!ReadMail, View!Inbox
<1>2. Cardinality(Mails) \in Nat /\ View!Unread \in Nat /\ View!Unread <= Cardinality(Mails)
  BY <1>1, Counted, SameCount, FS_CardinalityType DEF View!Unread, View!MailviewAssumption
<1>. QED BY <1>1, <1>2, ListsMade DEF View!List

LEMMA AnswersMade ==
  ASSUME View!MailviewAssumption
  PROVE  /\ \A kind : View!Current(kind) \in View!Answers /\ ~View!Current(kind).late
         /\ View!Failed \in View!Answers /\ ~View!Failed.late
         /\ View!Foreign \in View!Answers /\ ~View!Foreign.late
<1>1. 0 \in 0..Cardinality(Mails)
  BY SameCount, FS_CardinalityType DEF View!MailviewAssumption
<1>2. ASSUME NEW l \in View!Lists, NEW u \in 0..Cardinality(Mails), NEW ok \in BOOLEAN
      PROVE  LET a == [list |-> l, unread |-> u, ok |-> ok, late |-> FALSE]
             IN a \in View!Answers /\ ~a.late
  BY <1>2, SameCount DEF View!Answers
<1>3. ASSUME NEW kind PROVE View!Current(kind) \in View!Answers /\ ~View!Current(kind).late
  <2> DEFINE l == IF kind = "list" THEN View!List ELSE View!Empty
             u == IF kind = "counts" THEN View!Unread ELSE 0
  <2>1. l \in View!Lists
    BY ServerList, EmptyList
  <2>2. u \in 0..Cardinality(Mails)
    BY <1>1, ServerList
  <2>3. View!Current(kind) = [list |-> l, unread |-> u, ok |-> TRUE, late |-> FALSE]
    BY DEF View!Current
  <2> HIDE DEF l, u
  <2>. QED BY <1>2, <2>1, <2>2, <2>3
<1>4. View!Failed \in View!Answers /\ ~View!Failed.late
  BY <1>1, <1>2, EmptyList DEF View!Failed
<1>5. View!Foreign \in View!Answers /\ ~View!Foreign.late
  BY <1>4 DEF View!Foreign, View!Answers
<1>. QED BY <1>3, <1>4, <1>5

\* What is put in a cache, and what an answer shows.
LEMMA EntryParts ==
  ASSUME View!MailviewAssumption, NEW e \in View!Entries
  PROVE  e.answer.list \in View!Lists /\ e.answer.unread \in Nat
BY SameCount, FS_CardinalityType DEF View!Entries, View!Answers, View!MailviewAssumption

LEMMA EntryMade ==
  ASSUME View!MailviewAssumption, NEW f \in View!Fetches, f.answer # None
  PROVE  /\ View!Entry(f) \in View!Entries /\ f.answer.list \in View!Lists /\ f.answer.unread \in Nat
         /\ View!Entry(f).answer = f.answer /\ View!Entry(f).mine = f.mine /\ View!Entry(f).spans = f.spans
<1>1. f.answer \in View!Answers /\ f.mine \in BOOLEAN /\ f.spans \in BOOLEAN
  BY DEF View!Fetches
<1>2. View!Entry(f) \in View!Entries
  BY <1>1 DEF View!Entry, View!Entries
<1>. QED BY <1>1, <1>2, EntryParts DEF View!Entry

-----------------------------------------------------------------------------
(* What is done to the requests under way *)

LEMMA FetchParts ==
  ASSUME NEW f \in View!Fetches
  PROVE  /\ f.of \in {"list", "counts"}
         /\ f.same \in BOOLEAN /\ f.counts \in BOOLEAN /\ f.shared \in BOOLEAN
         /\ f.waiting \in BOOLEAN /\ f.mine \in BOOLEAN /\ f.spans \in BOOLEAN
         /\ f.answer \in View!Answers \cup {None}
BY DEF View!Fetches

LEMMA NewFetch ==
  ASSUME NEW kind \in {"list", "counts"}
  PROVE  View!Fetch(kind) \in View!Fetches /\ FetchOK(View!Fetch(kind))
BY DEF View!Fetch, View!Fetches, FetchOK

LEMMA WaitingFetch ==
  ASSUME NEW f \in View!Fetches, FetchOK(f), NEW w \in BOOLEAN
  PROVE  [f EXCEPT !.waiting = w] \in View!Fetches /\ FetchOK([f EXCEPT !.waiting = w])
BY DEF View!Fetches, FetchOK

LEMMA UnsharedFetch ==
  ASSUME NEW f \in View!Fetches, FetchOK(f)
  PROVE  [f EXCEPT !.shared = FALSE] \in View!Fetches /\ FetchOK([f EXCEPT !.shared = FALSE])
BY DEF View!Fetches, FetchOK

LEMMA WithListOK ==
  ASSUME NEW fs, FetchesOK(fs)
  PROVE  FetchesOK(View!WithList(fs))
BY NewFetch, WaitingFetch DEF FetchesOK, View!WithList

LEMMA WithCountsOK ==
  ASSUME NEW fs, FetchesOK(fs)
  PROVE  FetchesOK(View!WithCounts(fs))
BY NewFetch, UnsharedFetch DEF FetchesOK, View!WithCounts, View!Unshared

LEMMA JoinCountsOK ==
  ASSUME NEW fs, FetchesOK(fs)
  PROVE  FetchesOK(View!JoinCounts(fs))
BY WithCountsOK, WaitingFetch DEF FetchesOK, View!JoinCounts

LEMMA LateFetch ==
  ASSUME NEW f \in View!Fetches, FetchOK(f)
  PROVE  /\ View!Late(f) \in View!Fetches
         /\ View!Late(f).of = f.of /\ View!Late(f).same = f.same /\ View!Late(f).mine = f.mine
<1>1. CASE f.answer = None
  BY <1>1 DEF View!Late
<1>2. CASE f.answer # None
  <2> DEFINE a == [f.answer EXCEPT !.late = TRUE]
  <2>1. a \in View!Answers
    BY <1>2, FetchParts DEF View!Answers
  <2>2. View!Late(f) = [f EXCEPT !.answer = a]
    BY <1>2 DEF View!Late
  <2> HIDE DEF a
  <2>. QED BY <2>1, <2>2 DEF View!Fetches
<1>. QED BY <1>1, <1>2

\* Whatever is older than the change is of a cleared list or of a generation gone.
LEMMA ClearedOK ==
  ASSUME NEW fs, FetchesOK(fs)
  PROVE  FetchesOK(View!CountsCleared({View!Late(f) : f \in fs}))
<1>1. ASSUME NEW g \in View!Fetches, g.same => g.mine
      PROVE  LET h == IF g.of = "counts" THEN [g EXCEPT !.counts = FALSE, !.shared = FALSE]
                                         ELSE [g EXCEPT !.spans = TRUE]
             IN h \in View!Fetches /\ FetchOK(h)
  BY <1>1 DEF View!Fetches, FetchOK
<1>2. ASSUME NEW f \in fs
      PROVE View!Late(f) \in View!Fetches /\ (View!Late(f).same => View!Late(f).mine)
  BY <1>2, LateFetch DEF FetchesOK, FetchOK
<1>. QED BY <1>1, <1>2 DEF View!CountsCleared, FetchesOK

LEMMA ForeignOK ==
  ASSUME View!MailviewAssumption, NEW f \in View!Fetches
  PROVE  LET g == [f EXCEPT !.answer = IF @ = None THEN None ELSE View!Foreign,
                            !.waiting = FALSE, !.same = FALSE, !.counts = FALSE,
                            !.shared = FALSE, !.mine = FALSE]
         IN g \in View!Fetches /\ FetchOK(g)
<1> DEFINE a == IF f.answer = None THEN None ELSE View!Foreign
<1>1. a \in View!Answers \cup {None} /\ (a # None => ~a.late)
  BY AnswersMade
<1> HIDE DEF a
<1>2. LET g == [f EXCEPT !.answer = a, !.waiting = FALSE, !.same = FALSE, !.counts = FALSE,
                         !.shared = FALSE, !.mine = FALSE]
      IN g \in View!Fetches /\ FetchOK(g)
  BY <1>1 DEF View!Fetches, FetchOK
<1>. QED BY <1>2 DEF a

LEMMA ServedOK ==
  ASSUME NEW f \in View!Fetches, FetchOK(f), NEW a \in View!Answers, ~a.late
  PROVE  [f EXCEPT !.answer = a] \in View!Fetches /\ FetchOK([f EXCEPT !.answer = a])
BY DEF View!Fetches, FetchOK

-----------------------------------------------------------------------------
(* The caches *)

LEMMA ChangedCaches ==
  ASSUME CacheInv, View!MessagesChanged
  PROVE  CacheInv'
<1>1. CASE open
  <2>1. FetchesOK(View!WithCounts(View!WithList(View!CountsCleared({View!Late(f) : f \in fetches}))))
    BY ClearedOK, WithListOK, WithCountsOK DEF CacheInv
  <2>2. listCache' = None /\ countsCache' = None /\ FetchesOK(fetches)'
    BY <1>1, <2>1 DEF View!MessagesChanged, FetchesOK, FetchOK
  <2>. QED BY <2>2 DEF CacheInv, CacheType, View!CachesAreCurrent, FetchesOK
<1>2. CASE ~open
  BY <1>2 DEF View!MessagesChanged, View!caches, CacheInv, CacheType, View!CachesAreCurrent,
     FetchesOK, FetchOK
<1>. QED BY <1>1, <1>2

LEMMA KeptCaches ==
  ASSUME CacheInv, UNCHANGED View!caches
  PROVE  CacheInv'
BY DEF View!caches, CacheInv, CacheType, View!CachesAreCurrent, FetchesOK, FetchOK

\* Only the requests under way change.
LEMMA FetchesChange ==
  ASSUME CacheInv, UNCHANGED <<listCache, countsCache>>, NEW fs, FetchesOK(fs), fetches' = fs
  PROVE  CacheInv'
BY DEF CacheInv, CacheType, View!CachesAreCurrent, FetchesOK, FetchOK

LEMMA PageCaches ==
  ASSUME View!MailviewAssumption, CacheInv, View!OpenPage \/ View!LeavePage \/ View!ChangeUser
  PROVE  CacheInv'
<1>1. CASE View!OpenPage
  <2> DEFINE fs == IF listCache = None THEN View!WithList(fetches) ELSE fetches
             gs == IF countsCache = None THEN View!JoinCounts(fs) ELSE fs
  <2>1. FetchesOK(fs)
    BY WithListOK DEF CacheInv
  <2> HIDE DEF fs
  <2>2. FetchesOK(gs)
    BY <2>1, JoinCountsOK
  <2>3. fetches' = gs /\ UNCHANGED <<listCache, countsCache>>
    BY <1>1 DEF View!OpenPage, fs
  <2> HIDE DEF gs
  <2>. QED BY <2>2, <2>3, FetchesChange
<1>2. CASE View!LeavePage
  <2>1. FetchesOK({[f EXCEPT !.waiting = FALSE] : f \in fetches})
    BY WaitingFetch DEF CacheInv, FetchesOK
  <2>. QED BY <1>2, <2>1, FetchesChange DEF View!LeavePage
<1>3. CASE View!ChangeUser
  <2> DEFINE Left(f) == [f EXCEPT !.answer = IF @ = None THEN None ELSE View!Foreign,
                                  !.waiting = FALSE, !.same = FALSE, !.counts = FALSE,
                                  !.shared = FALSE, !.mine = FALSE]
             fs == {Left(f) : f \in fetches}
  <2>1. \A f \in fetches : Left(f) \in View!Fetches /\ FetchOK(Left(f))
    BY ForeignOK DEF CacheInv, FetchesOK
  <2>2. fetches' = fs /\ listCache' = None /\ countsCache' = None
    BY <1>3 DEF View!ChangeUser
  <2> HIDE DEF Left
  <2>3. FetchesOK(fs)
    BY <2>1 DEF FetchesOK
  <2> HIDE DEF fs
  <2>. QED BY <2>2, <2>3 DEF CacheInv, CacheType, View!CachesAreCurrent, FetchesOK, FetchOK
<1>. QED BY <1>1, <1>2, <1>3

LEMMA FetchCaches ==
  ASSUME View!MailviewAssumption, CacheInv, NEW f \in fetches,
         View!Serve(f) \/ View!ReceiveList(f) \/ View!ReceiveCounts(f)
  PROVE  CacheInv'
<1>0. f \in View!Fetches /\ FetchOK(f)
  BY DEF CacheInv, FetchesOK
<1>1. CASE View!Serve(f)
  <2>1. PICK a \in View!Answers : ~a.late /\ fetches' = (fetches \ {f}) \cup {[f EXCEPT !.answer = a]}
    BY <1>1, AnswersMade DEF View!Serve
  <2> DEFINE g == [f EXCEPT !.answer = a]
  <2>2. g \in View!Fetches /\ FetchOK(g)
    BY <1>0, <2>1, ServedOK
  <2>3. fetches' = (fetches \ {f}) \cup {g} /\ UNCHANGED <<listCache, countsCache>>
    BY <1>1, <2>1 DEF View!Serve
  <2> HIDE DEF g
  <2>4. FetchesOK((fetches \ {f}) \cup {g})
    BY <2>2 DEF CacheInv, FetchesOK
  <2>. QED BY <2>3, <2>4, FetchesChange
<1>2. CASE View!ReceiveList(f)
  <2>1. /\ f.of = "list" /\ f.answer # None /\ fetches' = fetches \ {f}
        /\ listCache' = (IF f.same THEN View!Entry(f) ELSE listCache) /\ UNCHANGED countsCache
    BY <1>2 DEF View!ReceiveList, View!MayCacheList
  <2>2. View!Entry(f) \in View!Entries /\ View!Entry(f).answer = f.answer /\ View!Entry(f).mine = f.mine
        /\ View!Entry(f).spans = f.spans
    BY <1>0, <2>1, EntryMade
  <2>. QED BY <1>0, <2>1, <2>2 DEF CacheInv, CacheType, View!CachesAreCurrent, FetchesOK, FetchOK
<1>3. CASE View!ReceiveCounts(f)
  <2>1. /\ f.of = "counts" /\ f.answer # None /\ fetches' = fetches \ {f}
        /\ countsCache' = (IF f.answer.ok /\ f.same /\ f.counts THEN View!Entry(f) ELSE countsCache)
        /\ UNCHANGED listCache
    BY <1>3 DEF View!ReceiveCounts, View!MayCacheCounts
  <2>2. View!Entry(f) \in View!Entries /\ View!Entry(f).answer = f.answer /\ View!Entry(f).mine = f.mine
    BY <1>0, <2>1, EntryMade
  <2>. QED BY <1>0, <2>1, <2>2 DEF CacheInv, CacheType, View!CachesAreCurrent, FetchesOK, FetchOK
<1>. QED BY <1>1, <1>2, <1>3

LEMMA CacheStep ==
  ASSUME View!MailviewAssumption, CacheInv, View!Next
  PROVE  CacheInv'
<1>1. CASE View!OpenPage \/ View!LeavePage \/ View!ChangeUser
  BY <1>1, PageCaches
<1>2. CASE View!PollList
  BY <1>2, WithListOK, FetchesChange DEF View!PollList, CacheInv
<1>3. CASE View!PollCounts
  BY <1>3, WithCountsOK, FetchesChange DEF View!PollCounts, CacheInv
<1>4. ASSUME NEW f \in fetches,
             View!Serve(f) \/ View!ReceiveList(f) \/ View!ReceiveCounts(f) PROVE CacheInv'
  BY <1>4, FetchCaches
<1>5. ASSUME NEW r \in View!Requests, View!Serving(r) \/ View!Refuse(r) \/ View!Rollback(r)
      PROVE CacheInv'
  BY <1>5, KeptCaches DEF View!Serving, View!SelectMail, View!Recall, View!Learn, View!Write,
     View!Refuse, View!Rollback, View!ServerOnly
<1>6. ASSUME NEW r \in View!Requests, View!Succeed(r) PROVE CacheInv'
  BY <1>6, KeptCaches, ChangedCaches DEF View!Succeed
<1>7. CASE View!NewRequest
  BY <1>7, KeptCaches DEF View!NewRequest, View!MarkRow, View!Act, View!MarkSelection
<1>8. ASSUME NEW m \in Mails, View!Arrive(m) PROVE CacheInv'
  BY <1>8, KeptCaches DEF View!Arrive
<1>9. CASE View!Refresh
  BY <1>9, ChangedCaches DEF View!Refresh
<1>. QED
  BY <1>1, <1>2, <1>3, <1>4, <1>5, <1>6, <1>7, <1>8, <1>9
     DEF View!Next, View!Loading, View!Counting, View!Working, View!Hear, View!Of

-----------------------------------------------------------------------------
(* The page *)

LEMMA ShowOK ==
  ASSUME NEW list \in View!Lists, View!Show(list)
  PROVE  shown' \in View!Lists /\ local' \subseteq shown'.rows
BY DEF View!Show, View!Follows

LEMMA DeltaOK ==
  ASSUME count \in Nat, NEW d \in Int, View!Delta(d)
  PROVE  count' \in Nat
BY DEF View!Delta

LEMMA JobParts ==
  ASSUME ServerType, NEW r \in View!Requests
  PROVE  /\ jobs[r] \in View!Jobs /\ jobs[r].op \in View!Ops /\ jobs[r].ids \in SUBSET Mails
         /\ jobs[r].origin \in View!Origins /\ jobs[r].mounted \in BOOLEAN /\ jobs[r].step \in View!Steps
         /\ jobs[r].spam \in SUBSET Mails /\ jobs[r].prior \in View!Lists
         /\ jobs[r].previous \in View!Classes \cup {None}
BY DEF ServerType, View!Jobs

LEMMA MarkPage ==
  ASSUME View!MailviewAssumption, PageType, View!NewRequest
  PROVE  PageType'
<1>0. shown.rows \subseteq Mails /\ shown.read \subseteq shown.rows
  BY ListParts DEF PageType
<1>1. ASSUME NEW op \in View!Ops, NEW m \in Mails, View!MarkRow(m, op) PROVE PageType'
  <2> DEFINE d == IF op = "read" THEN -1 ELSE 1
  <2>1. d \in Int /\ View!Delta(d)
    BY <1>1 DEF View!MarkRow
  <2> HIDE DEF d
  <2>2. count' \in Nat
    BY <2>1, DeltaOK DEF PageType
  <2>. QED BY <1>1, <2>2 DEF View!MarkRow, View!Begin, PageType
<1>2. ASSUME NEW op \in View!Ops, NEW m \in Mails, NEW o \in View!Origins, View!Act(m, op,
             o) PROVE PageType'
  BY <1>2 DEF View!Act, View!Begin, PageType
<1>3. ASSUME NEW op \in View!Ops, NEW ids \in SUBSET shown.rows, View!MarkSelection(op, ids)
      PROVE  PageType'
  <2> DEFINE read == IF op = "read" THEN shown.read \cup ids ELSE shown.read \ ids
             marked == [shown EXCEPT !.read = read]
             sign == IF op = "read" THEN -1 ELSE 1
             d == Cardinality(View!MarkedBy(op, ids)) * sign
  <2>1. View!Show(marked) /\ View!Delta(d)
    BY <1>3, SameCount DEF View!MarkSelection
  <2>2. read \subseteq shown.rows
    BY <1>0
  <2> HIDE DEF read
  <2>3. marked \in View!Lists
    BY <1>0, <2>2 DEF PageType, View!Lists
  <2>4. View!MarkedBy(op, ids) \in SUBSET Mails
    BY <1>0 DEF View!MarkedBy
  <2>5. d \in Int
    BY <2>4, Counted
  <2> HIDE DEF d, marked
  <2>6. count' \in Nat /\ shown' \in View!Lists /\ local' \subseteq shown'.rows
    BY <2>1, <2>3, <2>5, DeltaOK, ShowOK DEF PageType
  <2>. QED BY <1>3, <2>6 DEF View!MarkSelection, View!Begin, PageType
<1>. QED BY <1>1, <1>2, <1>3 DEF View!NewRequest

LEMMA RollbackPage ==
  ASSUME View!MailviewAssumption, ServerType, PageType, NEW r \in View!Requests, View!Rollback(r)
  PROVE  PageType'
<1> DEFINE j == jobs[r]
           back == IF j.op = "read" THEN 1 ELSE -1
<1>0. j.prior \in View!Lists /\ j.ids \in SUBSET Mails /\ j.mounted \in BOOLEAN
  BY JobParts
<1>1. open' \in BOOLEAN
  BY DEF View!Rollback, View!Heard, PageType
<1>2. CASE j.origin = "row"
  <2>1. /\ View!Delta(back) /\ UNCHANGED shown
        /\ local' = (CASE ~j.mounted -> local [] j.op = "read" -> local \ j.ids
                       [] OTHER -> local \cup (j.ids \cap shown.rows))
    BY <1>2 DEF View!Rollback
  <2>2. local' \subseteq shown'.rows
    BY <1>0, <2>1 DEF PageType
  <2>3. back \in Int
    OBVIOUS
  <2> HIDE DEF back
  <2>. QED BY <1>1, <2>1, <2>2, <2>3, DeltaOK DEF PageType
<1>3. CASE j.origin = "bulk"
  <2> DEFINE S == {m \in j.ids \cap j.prior.rows : (m \in j.prior.read) # (j.op = "read")}
             d == back * Cardinality(S)
  <2>1. View!Delta(d) /\ (IF j.mounted THEN View!Show(j.prior) ELSE UNCHANGED <<shown, local>>)
    BY <1>3, SameCount DEF View!Rollback
  <2>2. S \in SUBSET Mails
    BY <1>0
  <2> HIDE DEF S
  <2>3. d \in Int
    BY <2>2, Counted
  <2> HIDE DEF d
  <2>4. count' \in Nat
    BY <2>1, <2>3, DeltaOK DEF PageType
  <2>. QED BY <1>0, <1>1, <2>1, <2>4, ShowOK DEF PageType
<1>4. CASE j.origin \notin {"row", "bulk"}
  BY <1>1, <1>4 DEF View!Rollback, PageType
<1>. QED BY <1>2, <1>3, <1>4

LEMMA PageStep ==
  ASSUME View!MailviewAssumption, CacheInv, ServerType, PageType, View!Next
  PROVE  PageType'
<1>1. CASE View!OpenPage
  <2> DEFINE list == IF listCache = None THEN View!Empty ELSE listCache.answer.list
             unread == IF countsCache = None THEN 0 ELSE countsCache.answer.unread
  <2>1. list \in View!Lists /\ unread \in Nat
    BY EntryParts, EmptyList DEF CacheInv, CacheType
  <2>2. open' = TRUE /\ shown' = list /\ local' = shown'.read /\ count' = unread
    BY <1>1 DEF View!OpenPage
  <2> HIDE DEF list, unread
  <2>. QED BY <2>1, <2>2, ListParts DEF PageType
<1>2. CASE View!LeavePage \/ View!ChangeUser
  <2>1. open' = FALSE /\ shown' = View!Empty /\ local' = {} /\ count' = 0
    BY <1>2 DEF View!LeavePage, View!ChangeUser, View!Unmounted
  <2>. QED BY <2>1, EmptyList DEF PageType
<1>3. CASE View!PollList \/ View!PollCounts \/ View!Refresh
  BY <1>3 DEF View!PollList, View!PollCounts, View!Refresh, View!page, PageType
<1>4. ASSUME NEW f \in fetches,
             View!Serve(f) \/ View!ReceiveList(f) \/ View!ReceiveCounts(f) PROVE PageType'
  <2>1. CASE View!Serve(f)
    BY <2>1 DEF View!Serve, View!page, PageType
  <2>2. CASE View!ReceiveList(f)
    <3>1. f.answer.list \in View!Lists
      BY <2>2, EntryMade DEF View!ReceiveList, CacheInv, FetchesOK
    <3>. QED BY <2>2, <3>1, ShowOK DEF View!ReceiveList, PageType
  <2>3. CASE View!ReceiveCounts(f)
    <3>1. f.answer.unread \in Nat
      BY <2>3, EntryMade DEF View!ReceiveCounts, CacheInv, FetchesOK
    <3>. QED BY <2>3, <3>1 DEF View!ReceiveCounts, PageType
  <2>. QED BY <1>4, <2>1, <2>2, <2>3
<1>5. ASSUME NEW r \in View!Requests, View!Serving(r) \/ View!Refuse(r) \/ View!Succeed(r)
      PROVE PageType'
  BY <1>5 DEF View!Serving, View!SelectMail, View!Recall, View!Learn, View!Write, View!Refuse,
     View!Succeed, View!ServerOnly, View!Heard,
              View!page, PageType
<1>6. ASSUME NEW r \in View!Requests, View!Rollback(r) PROVE PageType'
  BY <1>6, RollbackPage
<1>7. CASE View!NewRequest
  BY <1>7, MarkPage
<1>8. ASSUME NEW m \in Mails, View!Arrive(m) PROVE PageType'
  BY <1>8 DEF View!Arrive, View!page, PageType
<1>. QED
  BY <1>1, <1>2, <1>3, <1>4, <1>5, <1>6, <1>7, <1>8
     DEF View!Next, View!Loading, View!Counting, View!Working, View!Hear, View!Of

-----------------------------------------------------------------------------
(* The server: the requests *)

LEMMA CountsKept ==
  ASSUME View!FeedbackIsCounted, UNCHANGED <<feedback, trained, raced>>
  PROVE  View!FeedbackIsCounted'
BY DEF View!FeedbackIsCounted

LEMMA Bounded ==
  ASSUME View!MailviewAssumption, ServerType, View!Event
  PROVE  events' \in Nat /\ begun + events' <= MaxEvents
BY DEF ServerType, View!Event, View!MailviewAssumption

LEMMA JobChanges ==
  ASSUME ServerType, ChangeInv, NEW r \in View!Requests, NEW j \in View!Jobs, ChangeOK(j),
         UNCHANGED touched,
         jobs' = [jobs EXCEPT ![r] = j]
  PROVE  jobs' \in [View!Requests -> View!Jobs] /\ ChangeInv'
<1>1. jobs' \in [View!Requests -> View!Jobs]
  BY DEF ServerType
<1>2. \A q \in View!Requests : ChangeOK(jobs'[q])
  BY DEF ServerType, ChangeInv
<1>. QED BY <1>1, <1>2 DEF ChangeInv, ChangeOK

\* A request goes on with its own variables as they are.
LEMMA JobGoesOn ==
  ASSUME ServerType, ChangeInv, NEW r \in View!Requests, NEW step \in {"ok", "failed"},
         View!Goto(r, step),
         UNCHANGED touched
  PROVE  jobs' \in [View!Requests -> View!Jobs] /\ ChangeInv'
<1> DEFINE j == [jobs[r] EXCEPT !.step = step]
<1>1. j \in View!Jobs
  BY JobParts DEF View!Jobs, View!Steps
<1>2. ChangeOK(j)
  BY JobParts DEF ChangeInv, ChangeOK, View!Jobs
<1>3. jobs' = [jobs EXCEPT ![r] = j]
  BY DEF View!Goto
<1> HIDE DEF j
<1>. QED BY <1>1, <1>2, <1>3, JobChanges

LEMMA IdleJob == \A step \in {"idle", "done"} :
                   LET j == [View!NoJob EXCEPT !.step = step] IN j \in View!Jobs /\ ChangeOK(j)
<1>1. View!NoJob \in View!Jobs
  BY EmptyList DEF View!NoJob, View!Jobs, View!Ops, View!Origins, View!Steps
<1>2. View!NoJob.op = "read" /\ View!NoJob.ids = {}
  BY DEF View!NoJob
<1>. QED BY <1>1, <1>2 DEF View!Jobs, ChangeOK, View!Steps, View!Marks

LEMMA FinishedServer ==
  ASSUME ServerInv, NEW r \in View!Requests, View!Finished(r), View!Heard
  PROVE  ServerInv'
<1>1. PICK j \in View!Jobs : ChangeOK(j) /\ jobs' = [jobs EXCEPT ![r] = j]
  BY IdleJob DEF View!Finished
<1>2. jobs' \in [View!Requests -> View!Jobs] /\ ChangeInv'
  BY <1>1, JobChanges DEF ServerInv, View!Heard
<1>. QED BY <1>2, CountsKept DEF ServerInv, ServerType, View!Heard

\* The page is left: nobody hears of the outcome.
LEMMA UnmountedServer ==
  ASSUME View!MailviewAssumption, ServerInv, View!LeavePage \/ View!ChangeUser
  PROVE  ServerInv'
<1>1. /\ jobs' = [r \in View!Requests |-> [jobs[r] EXCEPT !.mounted = FALSE]] /\ View!Event
      /\ UNCHANGED <<mail, feedback, trained, begun, touched, crossed, raced>>
  BY DEF View!LeavePage, View!ChangeUser, View!Unmounted, View!history
<1>2. ASSUME NEW r \in View!Requests
      PROVE  LET j == [jobs[r] EXCEPT !.mounted = FALSE] IN j \in View!Jobs /\ ChangeOK(j)
  <2>1. jobs[r] \in View!Jobs /\ ChangeOK(jobs[r])
    BY JobParts DEF ServerInv, ChangeInv
  <2>. QED BY <2>1 DEF View!Jobs, ChangeOK
<1> DEFINE Left(r) == [jobs[r] EXCEPT !.mounted = FALSE]
<1>3. \A r \in View!Requests : Left(r) \in View!Jobs /\ ChangeOK(Left(r))
  BY <1>2
<1>4. jobs' = [r \in View!Requests |-> Left(r)]
  BY <1>1
<1> HIDE DEF Left
<1>5. jobs' \in [View!Requests -> View!Jobs] /\ \A r \in View!Requests : ChangeOK(jobs'[r])
  BY <1>3, <1>4
<1>6. ChangeInv'
  BY <1>1, <1>5 DEF ChangeInv, ChangeOK
<1>. QED BY <1>1, <1>5, <1>6, CountsKept, Bounded DEF ServerInv, ServerType

\* Nothing of the server changes but the counter of the bound.
LEMMA KeptServer ==
  ASSUME View!MailviewAssumption, ServerInv, UNCHANGED <<mail, feedback, trained, jobs, begun,
         touched, crossed, raced>>,
         UNCHANGED events \/ View!Event
  PROVE  ServerInv'
<1>1. ServerType'
  BY Bounded DEF ServerInv, ServerType
<1>2. ChangeInv'
  BY DEF ServerInv, ChangeInv, ChangeOK
<1>. QED BY <1>1, <1>2, CountsKept DEF ServerInv

LEMMA BegunServer ==
  ASSUME View!MailviewAssumption, ServerInv, NEW op \in View!Ops, NEW ids \in SUBSET Mails,
         NEW origin \in View!Origins,
         shown \in View!Lists, View!Begin(op, ids, origin)
  PROVE  ServerInv'
<1> DEFINE r == begun + 1
           prior == IF origin = "bulk" THEN shown ELSE View!Empty
           mounted == origin \in {"row", "bulk"}
           j == [op |-> op, ids |-> ids, origin |-> origin, mounted |-> mounted,
                 step |-> "select", spam |-> {}, previous |-> None, prior |-> prior]
<1>1. /\ r \in View!Requests /\ begun + events < MaxEvents /\ begun' = r
      /\ begun' \in Nat /\ begun' + events' <= MaxEvents
  BY DEF View!Begin, View!Requests, ServerInv, ServerType, View!MailviewAssumption
<1>2. prior \in View!Lists /\ mounted \in BOOLEAN
  BY EmptyList
<1>3. jobs' = [jobs EXCEPT ![r] = j]
  BY DEF View!Begin
<1> HIDE DEF prior, mounted
<1>4. j \in View!Jobs
  BY <1>2 DEF View!Jobs, View!Steps
<1>5. j.op = op /\ j.ids = ids /\ j.step = "select"
  OBVIOUS
<1> HIDE DEF j, r
<1>6. /\ touched \subseteq touched' /\ (op \in View!Marks => ids \subseteq touched')
      /\ crossed' \subseteq touched'
  BY DEF View!Begin, ServerInv, ServerType
<1>7. jobs' \in [View!Requests -> View!Jobs]
  BY <1>1, <1>3, <1>4 DEF ServerInv, ServerType
<1>8. ASSUME NEW q \in View!Requests PROVE ChangeOK(jobs[q])'
  <2>1. CASE q = r
    BY <1>1, <1>3, <1>5, <1>6, <2>1 DEF ChangeOK, ServerInv, ServerType
  <2>2. CASE q # r
    BY <1>1, <1>3, <1>6, <2>2 DEF ChangeOK, ChangeInv, ServerInv, ServerType
  <2>. QED BY <2>1, <2>2
<1>9. ChangeInv'
  BY <1>8 DEF ChangeInv
<1>. QED BY <1>1, <1>6, <1>7, <1>9, CountsKept DEF ServerInv, ServerType, View!Begin

-----------------------------------------------------------------------------
(* The server: the handlers *)

LEMMA SelectServer ==
  ASSUME ServerInv, NEW r \in View!Requests, View!SelectMail(r)
  PROVE  ServerInv'
<1> DEFINE ids == {m \in jobs[r].ids : mail[m] # View!Absent}
           spam == IF jobs[r].op = "spam" THEN ids
                   ELSE IF jobs[r].op = "inbox" THEN {m \in ids : mail[m].place = "spam"} ELSE {}
           step == IF ids = {} THEN "failed" ELSE IF spam # {} THEN "recall" ELSE "write"
           rest == ids \ spam
           j == [jobs[r] EXCEPT !.ids = rest, !.spam = spam, !.step = step]
<1>0. jobs[r] \in View!Jobs /\ ChangeOK(jobs[r]) /\ jobs[r].ids \in SUBSET Mails
  BY JobParts DEF ServerInv, ChangeInv
<1>1. /\ spam \in SUBSET Mails /\ step \in View!Steps /\ rest \in SUBSET Mails
      /\ rest \subseteq jobs[r].ids
  BY <1>0 DEF View!Steps
<1>2. /\ jobs[r].op = "spam" => rest = {}
      /\ step \in {"recall", "learn"} => spam # {}
  BY <1>0
<1>3. jobs' = [jobs EXCEPT ![r] = j]
  BY DEF View!SelectMail
<1> HIDE DEF spam, step, rest
<1>4. j \in View!Jobs
  BY <1>0, <1>1 DEF View!Jobs
<1>5. ChangeOK(j)
  BY <1>0, <1>1, <1>2 DEF ChangeOK, View!Jobs
<1> HIDE DEF j
<1>6. jobs' \in [View!Requests -> View!Jobs] /\ ChangeInv'
  BY <1>3, <1>4, <1>5, JobChanges DEF ServerInv, View!SelectMail, View!ServerOnly
<1>. QED BY <1>6, CountsKept DEF ServerInv, ServerType, View!SelectMail, View!ServerOnly

LEMMA SpamThere ==
  ASSUME ServerInv, NEW r \in View!Requests, jobs[r].step \in {"recall", "learn"}
  PROVE  (CHOOSE m \in jobs[r].spam : TRUE) \in Mails
<1>1. jobs[r].spam # {} /\ jobs[r].spam \in SUBSET Mails
  BY JobParts DEF ServerInv, ChangeInv, ChangeOK
<1>2. \E m \in jobs[r].spam : TRUE
  BY <1>1
<1>. QED BY <1>1, <1>2

LEMMA RecallServer ==
  ASSUME ServerInv, NEW r \in View!Requests, View!Recall(r)
  PROVE  ServerInv'
<1> DEFINE m == CHOOSE m \in jobs[r].spam : TRUE
           p == feedback[m]
           j == [jobs[r] EXCEPT !.previous = p, !.step = "learn"]
<1>0. jobs[r] \in View!Jobs /\ ChangeOK(jobs[r]) /\ jobs[r].step = "recall"
  BY JobParts DEF ServerInv, ChangeInv, View!Recall, View!Step
<1>1. m \in Mails
  BY <1>0, SpamThere
<1>2. jobs' = [jobs EXCEPT ![r] = j]
  BY DEF View!Recall
<1> HIDE DEF m
<1>3. p \in View!Classes \cup {None}
  BY <1>1 DEF ServerInv, ServerType
<1> HIDE DEF p
<1>4. j \in View!Jobs
  BY <1>0, <1>3 DEF View!Jobs, View!Steps
<1>5. ChangeOK(j)
  BY <1>0 DEF ChangeOK, View!Jobs
<1> HIDE DEF j
<1>6. jobs' \in [View!Requests -> View!Jobs] /\ ChangeInv'
  BY <1>2, <1>4, <1>5, JobChanges DEF ServerInv, View!Recall, View!ServerOnly
<1>. QED BY <1>6, CountsKept DEF ServerInv, ServerType, View!Recall, View!ServerOnly

\* Replacing the classification that is there keeps the counts.
LEMMA LearnCounts ==
  ASSUME View!MailviewAssumption, ServerInv, NEW m \in Mails, NEW class \in View!Classes,
         NEW previous,
         trained' = View!Trained(previous, class), feedback' = [feedback EXCEPT ![m] = class],
         raced' = (raced \/ feedback[m] # previous)
  PROVE  View!FeedbackIsCounted'
<1> SUFFICES ASSUME ~raced' PROVE \A c \in View!Classes :
                      trained'[c] = Cardinality({n \in Mails : feedback'[n] = c})
  BY SameCount DEF View!FeedbackIsCounted
<1>0. /\ ~raced /\ feedback[m] = previous /\ feedback \in [Mails -> View!Classes \cup {None}]
      /\ trained \in [View!Classes -> Nat] /\ feedback' \in [Mails -> View!Classes \cup {None}]
  BY DEF ServerInv, ServerType
<1> DEFINE Was(c) == {n \in Mails : feedback[n] = c}
           Is(c) == {n \in Mails : feedback'[n] = c}
<1>1. ASSUME NEW c \in View!Classes
      PROVE  /\ IsFiniteSet(Was(c)) /\ Cardinality(Was(c)) \in Nat
             /\ trained[c] = Cardinality(Was(c))
  BY <1>0, Counted, SameCount DEF ServerInv, View!FeedbackIsCounted
<1>2. ASSUME NEW c \in View!Classes PROVE trained'[c] = Cardinality(Is(c))
  <2>1. CASE previous = class
    <3>1. Is(c) = Was(c) /\ trained' = trained
      BY <1>0, <2>1 DEF View!Trained
    <3>. QED BY <1>1, <3>1
  <2>2. CASE previous # class /\ c = class
    <3>1. Is(c) = Was(c) \cup {m} /\ m \notin Was(c) /\ trained'[c] = trained[c] + 1
      BY <1>0, <2>2 DEF View!Trained
    <3> HIDE DEF Was, Is
    <3>2. IsFiniteSet(Was(c)) /\ m \notin Was(c)
      BY <1>1, <3>1
    <3>3. Cardinality(Was(c) \cup {m}) = Cardinality(Was(c)) + 1
      BY <3>2, FS_AddElement
    <3>. QED BY <1>1, <3>1, <3>3
  <2>3. CASE previous # class /\ c # class /\ c = previous
    <3>1. Is(c) = Was(c) \ {m} /\ m \in Was(c)
      BY <1>0, <2>3
    <3>2. trained'[c] = (IF trained[c] > 0 THEN trained[c] - 1 ELSE trained[c])
      BY <2>3 DEF View!Trained
    <3> HIDE DEF Was, Is
    <3>3. Cardinality(Is(c)) = Cardinality(Was(c)) - 1 /\ Cardinality(Is(c)) \in Nat
      BY <1>1, <3>1, FS_RemoveElement, FS_CardinalityType
    <3>. QED BY <1>1, <3>2, <3>3
  <2>4. CASE previous # class /\ c # class /\ c # previous
    <3>1. Is(c) = Was(c)
      BY <1>0, <2>4
    <3>2. trained'[c] = trained[c]
      BY <2>4 DEF View!Trained
    <3>. QED BY <1>1, <3>1, <3>2
  <2>. QED BY <2>1, <2>2, <2>3, <2>4
<1>. QED BY <1>2

LEMMA TrainedType ==
  ASSUME trained \in [View!Classes -> Nat], NEW previous, NEW class
  PROVE  View!Trained(previous, class) \in [View!Classes -> Nat]
BY DEF View!Trained

LEMMA LearnServer ==
  ASSUME View!MailviewAssumption, ServerInv, NEW r \in View!Requests, View!Learn(r)
  PROVE  ServerInv'
<1> DEFINE m == CHOOSE m \in jobs[r].spam : TRUE
           class == View!Class(jobs[r])
           rest == jobs[r].spam \ {m}
           step == IF rest # {} THEN "recall" ELSE IF jobs[r].ids # {} THEN "write" ELSE "ok"
           j == [jobs[r] EXCEPT !.spam = rest, !.previous = None, !.step = step]
           place == IF class = "spam" THEN "spam" ELSE "inbox"
<1>0. jobs[r] \in View!Jobs /\ ChangeOK(jobs[r]) /\ jobs[r].step = "learn" /\ jobs[r].spam \in SUBSET Mails
  BY JobParts DEF ServerInv, ChangeInv, View!Learn, View!Step
<1>1. m \in Mails
  BY <1>0, SpamThere
<1>2. class \in View!Classes /\ rest \in SUBSET Mails /\ step \in View!Steps
      /\ (step \in {"recall", "learn"} => rest # {})
  BY <1>0 DEF View!Class, View!Classes, View!Steps
<1>3. /\ jobs' = [jobs EXCEPT ![r] = j] /\ feedback' = [feedback EXCEPT ![m] = class]
      /\ trained' = View!Trained(jobs[r].previous, class)
      /\ raced' = (raced \/ feedback[m] # jobs[r].previous)
      /\ mail' = [mail EXCEPT ![m].place = place]
      /\ UNCHANGED <<begun, crossed, events, touched>>
  BY DEF View!Learn, View!ServerOnly
<1>4. place \in {"spam", "inbox"}
  OBVIOUS
<1> HIDE DEF m, class, rest, step, place
<1>5. j \in View!Jobs
  BY <1>0, <1>2 DEF View!Jobs
<1>6. ChangeOK(j)
  BY <1>0, <1>2 DEF ChangeOK, View!Jobs
<1> HIDE DEF j
<1>7. jobs' \in [View!Requests -> View!Jobs] /\ ChangeInv'
  BY <1>3, <1>5, <1>6, JobChanges DEF ServerInv
<1>8. mail' \in [Mails -> View!Rows]
  BY <1>1, <1>3, <1>4 DEF ServerInv, ServerType, View!Rows
<1>9. feedback' \in [Mails -> View!Classes \cup {None}] /\ trained' \in [View!Classes -> Nat]
  BY <1>1, <1>2, <1>3, TrainedType DEF ServerInv, ServerType
<1>10. View!FeedbackIsCounted'
  BY <1>1, <1>2, <1>3, LearnCounts
<1>11. raced' \in BOOLEAN
  BY <1>3
<1>. QED BY <1>3, <1>7, <1>8, <1>9, <1>10, <1>11 DEF ServerInv, ServerType

LEMMA WriteServer ==
  ASSUME View!MailviewAssumption, ServerInv, NEW r \in View!Requests, View!Write(r)
  PROVE  ServerInv'
<1> DEFINE Wrote(m) == IF m \in jobs[r].ids THEN View!Effect(jobs[r].op, mail[m]) ELSE mail[m]
<1>0. /\ jobs[r].op \in View!Ops /\ ChangeOK(jobs[r]) /\ jobs[r].step = "write"
      /\ UNCHANGED <<feedback, trained, begun, raced, touched>>
  BY JobParts DEF ServerInv, ChangeInv, View!Write, View!Step, View!ServerOnly
<1>1. ASSUME NEW m \in Mails PROVE Wrote(m) \in View!Rows
  <2>1. mail[m] \in View!Rows
    BY DEF ServerInv, ServerType
  <2>2. CASE m \notin jobs[r].ids
    BY <2>1, <2>2
  <2>3. CASE m \in jobs[r].ids
    <3>1. jobs[r].op \in {"read", "unread", "move", "inbox"}
      BY <1>0, <2>3 DEF ChangeOK, View!Ops
    <3>2. /\ [mail[m] EXCEPT !.read = TRUE] \in View!Rows
          /\ [mail[m] EXCEPT !.read = FALSE] \in View!Rows
          /\ [mail[m] EXCEPT !.place = "away"] \in View!Rows
          /\ [mail[m] EXCEPT !.place = "inbox"] \in View!Rows
      BY <2>1 DEF View!Rows
    <3>3. View!Effect(jobs[r].op, mail[m]) \in View!Rows
      BY <3>1, <3>2 DEF View!Effect
    <3>. QED BY <2>3, <3>3
  <2>. QED BY <2>2, <2>3
<1>2. mail' = [m \in Mails |-> Wrote(m)]
  BY DEF View!Write
<1> HIDE DEF Wrote
<1>3. mail' \in [Mails -> View!Rows]
  BY <1>1, <1>2
<1>4. PICK step \in {"ok", "failed"} : View!Goto(r, step)
  BY DEF View!Write
<1>5. jobs' \in [View!Requests -> View!Jobs] /\ ChangeInv'
  BY <1>0, <1>4, JobGoesOn DEF ServerInv
<1>6. crossed' \subseteq touched'
  BY <1>0 DEF View!Write, ChangeOK, ServerInv, ServerType
<1>7. events' \in Nat /\ begun + events' <= MaxEvents
  BY Bounded DEF View!Write, ServerInv, ServerType
<1>. QED BY <1>0, <1>3, <1>5, <1>6, <1>7, CountsKept DEF ServerInv, ServerType

LEMMA RefuseServer ==
  ASSUME View!MailviewAssumption, ServerInv, NEW r \in View!Requests, View!Refuse(r)
  PROVE  ServerInv'
<1>1. jobs' \in [View!Requests -> View!Jobs] /\ ChangeInv'
  BY JobGoesOn DEF View!Refuse, View!ServerOnly, ServerInv
<1>2. events' \in Nat /\ begun + events' <= MaxEvents
  BY Bounded DEF View!Refuse, ServerInv
<1>. QED BY <1>1, <1>2, CountsKept DEF View!Refuse, View!ServerOnly, ServerInv, ServerType

LEMMA ArriveServer ==
  ASSUME ServerInv, NEW m \in Mails, View!Arrive(m)
  PROVE  ServerInv'
<1>1. mail' \in [Mails -> View!Rows] /\ UNCHANGED <<feedback, trained, jobs, begun, View!history, events>>
  BY DEF View!Arrive, View!Arrived, View!Rows, ServerInv, ServerType
<1>2. ChangeInv'
  BY <1>1 DEF ServerInv, ChangeInv, ChangeOK, View!history
<1>. QED BY <1>1, <1>2, CountsKept DEF ServerInv, ServerType, View!history

LEMMA ServerStep ==
  ASSUME View!MailviewAssumption, ServerInv, PageType, View!Next
  PROVE  ServerInv'
<1>1. CASE View!OpenPage \/ View!PollList \/ View!PollCounts \/ View!Refresh
  BY <1>1, KeptServer DEF View!OpenPage, View!PollList, View!PollCounts, View!Refresh,
     View!server, View!history
<1>2. CASE View!LeavePage \/ View!ChangeUser
  BY <1>2, UnmountedServer
<1>3. ASSUME NEW f \in fetches,
             View!Serve(f) \/ View!ReceiveList(f) \/ View!ReceiveCounts(f) PROVE ServerInv'
  BY <1>3, KeptServer DEF View!Serve, View!ReceiveList, View!ReceiveCounts, View!server,
     View!history
<1>4. ASSUME NEW r \in View!Requests, View!Serving(r) \/ View!Refuse(r) PROVE ServerInv'
  BY <1>4, SelectServer, RecallServer, LearnServer, WriteServer, RefuseServer DEF View!Serving
<1>5. ASSUME NEW r \in View!Requests, View!Hear(r) PROVE ServerInv'
  BY <1>5, FinishedServer DEF View!Hear, View!Succeed, View!Rollback
<1>6. CASE View!NewRequest
  <2>1. ASSUME NEW op \in View!Ops, NEW m \in Mails,
               View!MarkRow(m, op) \/ \E o \in View!Origins : View!Act(m, op, o)
        PROVE  ServerInv'
    <3>1. PICK o \in View!Origins : View!Begin(op, {m}, o)
      BY <2>1 DEF View!MarkRow, View!Act, View!Origins
    <3>. QED BY <3>1, BegunServer DEF PageType
  <2>2. ASSUME NEW op \in View!Ops, NEW ids \in SUBSET shown.rows, View!MarkSelection(op, ids)
        PROVE  ServerInv'
    <3>1. ids \in SUBSET Mails /\ "bulk" \in View!Origins /\ View!Begin(op, ids, "bulk")
      BY <2>2, ListParts DEF View!MarkSelection, PageType, View!Origins
    <3>. QED BY <3>1, BegunServer DEF PageType
  <2>. QED BY <1>6, <2>1, <2>2 DEF View!NewRequest
<1>7. ASSUME NEW m \in Mails, View!Arrive(m) PROVE ServerInv'
  BY <1>7, ArriveServer
<1>. QED BY <1>1, <1>2, <1>3, <1>4, <1>5, <1>6, <1>7 DEF View!Next, View!Loading, View!Counting,
            View!Working, View!Of

-----------------------------------------------------------------------------
(* The theorems *)

LEMMA InitOK ==
  ASSUME View!MailviewAssumption
  PROVE  View!Init => ViewInv
<1> SUFFICES ASSUME View!Init PROVE ViewInv
  OBVIOUS
<1>1. CacheInv
  BY DEF View!Init, CacheInv, CacheType, FetchesOK, View!CachesAreCurrent
<1>2. PageType
  BY EmptyList DEF View!Init, PageType, View!Empty
<1>3. mail \in [Mails -> View!Rows]
  <2>1. View!Absent \in View!Rows /\ View!Arrived \in View!Rows
    BY DEF View!Absent, View!Arrived, View!Rows
  <2>. QED BY <2>1 DEF View!Init
<1>4. View!NoJob \in View!Jobs /\ ChangeOK(View!NoJob)
  <2>1. View!NoJob \in View!Jobs
    BY EmptyList DEF View!NoJob, View!Jobs, View!Ops, View!Origins, View!Steps
  <2>. QED BY <2>1 DEF View!NoJob, ChangeOK
<1>5. jobs \in [View!Requests -> View!Jobs] /\ ChangeInv
  BY <1>4 DEF View!Init, ChangeInv
<1>6. \A c \in View!Classes : trained[c] = Cardinality({m \in Mails : feedback[m] = c})
  <2>1. ASSUME NEW c \in View!Classes PROVE {m \in Mails : feedback[m] = c} = {}
    BY DEF View!Init, View!MailviewAssumption
  <2>. QED BY <2>1, FS_EmptySet DEF View!Init
<1>7. /\ feedback \in [Mails -> View!Classes \cup {None}] /\ trained \in [View!Classes -> Nat]
      /\ crossed \subseteq touched /\ raced \in BOOLEAN
  BY DEF View!Init
<1>8. begun \in Nat /\ events \in Nat /\ begun + events <= MaxEvents
  BY DEF View!Init, View!MailviewAssumption
<1>9. ServerType
  BY <1>3, <1>5, <1>7, <1>8 DEF ServerType
<1>10. ServerInv
  BY <1>5, <1>6, <1>9, SameCount DEF ServerInv, View!FeedbackIsCounted
<1>. QED BY <1>1, <1>2, <1>10 DEF ViewInv

LEMMA ViewInvariance ==
  ASSUME View!MailviewAssumption
  PROVE  View!Spec => []ViewInv
<1>1. ViewInv /\ [View!Next]_(View!vars) => ViewInv'
  <2> SUFFICES ASSUME ViewInv, [View!Next]_(View!vars) PROVE ViewInv'
    OBVIOUS
  <2>1. CASE View!Next
    BY <2>1, CacheStep, PageStep, ServerStep DEF ViewInv, ServerInv
  <2>2. CASE UNCHANGED View!vars
    <3>1. CacheInv' /\ ServerInv'
      BY <2>2, KeptCaches, KeptServer DEF ViewInv, View!vars, View!server, View!history
    <3>2. PageType'
      BY <2>2 DEF ViewInv, View!vars, View!page, PageType
    <3>. QED BY <3>1, <3>2 DEF ViewInv
  <2>. QED BY <2>1, <2>2
<1>. QED BY <1>1, InitOK, PTL DEF View!Spec

(***************************************************************************)
(* The variables keep to their types: the badge is never negative          *)
(* (use-message-counts.ts:47-60), a row is shown as read only if it is on  *)
(* the page, and a row of which nobody knows whether it is read was marked *)
(* by somebody.                                                            *)
(***************************************************************************)
THEOREM ViewTypeCorrect ==
  ASSUME View!MailviewAssumption
  PROVE  View!Spec => []View!TypeOK
<1>1. ViewInv => View!TypeOK
  BY TypeParts DEF ViewInv, CacheInv, ServerInv
<1>. QED BY <1>1, ViewInvariance, PTL

(***************************************************************************)
(* What is cached is of the user who is signed in, and no older than the   *)
(* latest change the page was told of, unless it is a list that was under  *)
(* way when the cache was cleared (utils.ts:80-82, 107-113, 135-137).      *)
(***************************************************************************)
THEOREM CachesAreCurrentHolds ==
  ASSUME View!MailviewAssumption
  PROVE  View!Spec => []View!CachesAreCurrent
<1>1. ViewInv => View!CachesAreCurrent
  BY DEF ViewInv, CacheInv
<1>. QED BY <1>1, ViewInvariance, PTL

(***************************************************************************)
(* Each message counts once in what the spam filter learnt, as what its    *)
(* owner last called it (feedback.ts:18-45), unless two classifications of *)
(* one message overlapped.                                                 *)
(***************************************************************************)
THEOREM FeedbackIsCountedHolds ==
  ASSUME View!MailviewAssumption
  PROVE  View!Spec => []View!FeedbackIsCounted
<1>1. ViewInv => View!FeedbackIsCounted
  BY DEF ViewInv, ServerInv
<1>. QED BY <1>1, ViewInvariance, PTL
=============================================================================
