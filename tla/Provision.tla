----------------------------- MODULE Provision -----------------------------
(***************************************************************************)
(* The domains of an installation on the zone of Cloudflare they lie in:   *)
(* the first account's registration, a domain added and a domain removed   *)
(* (api/auth/register, api/domains, lib/domains).  A request provisions    *)
(* the zone call by call, writes its rows, and undoes what it changed when *)
(* a later call throws; another request may come between any two calls.    *)
(*                                                                         *)
(* All hostnames lie in one zone, as an apex and its subdomains do.  Each  *)
(* account has one local part, so a routing rule is named by its hostname. *)
(* A call that throws has changed nothing, but for the failed deliveries   *)
(* Promise.allSettled passes over.                                         *)
(***************************************************************************)
EXTENDS Integers, Sequences, FiniteSets

CONSTANTS
  Hosts,        \* hostnames
  Zones,        \* what the zone may be like at first
  None,         \* nobody, nothing
  MaxRequests,  \* bound: requests
  MaxAtOnce,    \* bound: requests under way at once
  MaxFailures   \* bound: calls that throw

Requests == 1..MaxRequests
Users == Requests                       \* an account has the number of its registration
CatchAlls == {"drop", "other", "worker"} \* "drop": disabled, as a zone begins
ZoneType == [on : BOOLEAN, catchAll : CatchAlls, sending : SUBSET Hosts, rules : SUBSET Hosts]

ASSUME ProvisionAssumption ==
  /\ {MaxRequests, MaxAtOnce, MaxFailures} \subseteq Nat
  /\ None \notin Nat \cup Hosts \cup ZoneType \cup CatchAlls
  /\ Zones \subseteq ZoneType /\ \A z \in Zones : z.catchAll # "worker"

VARIABLES
  zone,       \* Email Routing, the catch-all, the sending subdomains, the rules to the worker
  domains,    \* the row of each hostname
  users,      \* the administrators
  mailboxes,  \* the accounts whose first mailbox has a row
  pc, job,    \* of each request: where it is, and its variables
  shaken,     \* history: see Shaken
  failures    \* counter for the bound

vars == <<zone, domains, users, mailboxes, pc, job, shaken, failures>>

NoRow == [owner |-> None, routing |-> FALSE, tagged |-> FALSE]
\* The variables of a request, and of its history: start is the zone it found,
\* if no other request ran beside it; fresh, that it found the zone not yet routed to
\* the worker; spoiled, that reading the zone failed or a call of its rollback did.
NoJob == [kind |-> "add", user |-> None, host |-> None, routing |-> FALSE, sending |-> FALSE,
          wasOn |-> TRUE, previous |-> None, enabled |-> FALSE, created |-> FALSE,
          ruled |-> FALSE, found |-> FALSE, inserted |-> FALSE, known |-> FALSE,
          start |-> None, fresh |-> FALSE, spoiled |-> FALSE]
\* What is remembered of a request that has ended.
Ended(j) == [NoJob EXCEPT !.kind = j.kind, !.user = j.user, !.host = j.host]

Ends == {"done", "refused", "failed", "undone"}
Running(r) == pc[r] \notin Ends \cup {"idle"}
Provisioning == {"zone", "copy", "enable", "catchAll", "list", "create"}
Adding == {"find", "write", "alias", "select"}
Registering == {"rule", "mailbox", "route"}
Undoing == {"unrule", "unsend", "restore", "switchOff", "unrow", "unuser"}
Removing == {"unruleAll", "disable", "unsendRow", "deleteRow"}

TypeOK ==
  /\ zone \in ZoneType
  /\ domains \in [Hosts -> [owner : Users \cup {None}, routing : BOOLEAN, tagged : BOOLEAN]]
  /\ users \subseteq Users /\ mailboxes \subseteq users
  /\ pc \in [Requests -> Ends \cup {"idle", "user", "dns"} \cup Provisioning \cup Adding
                         \cup Registering \cup Undoing \cup Removing]
  /\ \A r \in Requests :
       /\ job[r].kind \in {"register", "add", "remove"} /\ job[r].previous \in CatchAlls \cup {None}
       \* What a request undoes it did itself, and a row has an owner who exists.
       /\ job[r].enabled => ~job[r].wasOn
       /\ job[r].created => job[r].sending
       /\ job[r].start \in ZoneType \cup {None}
  /\ \A h \in Hosts : domains[h].owner \in users \cup {None}
  /\ shaken \in BOOLEAN /\ failures \in 0..MaxFailures

Init ==
  /\ zone \in Zones
  /\ domains = [h \in Hosts |-> NoRow]
  /\ users = {} /\ mailboxes = {}
  /\ pc = [r \in Requests |-> "idle"] /\ job = [r \in Requests |-> NoJob]
  /\ shaken = FALSE /\ failures = 0

-----------------------------------------------------------------------------
(* Requests begin *)

\* From here on an unrouted zone is no surprise: a domain was removed, a call of a
\* rollback failed, or a request that found the zone unrouted ran beside another.
Shaken(now) == shaken' = (shaken \/ now)

Begin(r, step, j) ==
  LET beside == {q \in Requests : Running(q)} IN
  /\ pc[r] = "idle" /\ \A q \in 1..(r - 1) : pc[q] # "idle"
  /\ Cardinality(beside) < MaxAtOnce
  /\ pc' = [pc EXCEPT ![r] = step]
  /\ job' = [q \in Requests |->
       IF q = r THEN IF step \in Ends THEN Ended(j)
                     ELSE [j EXCEPT !.start = IF beside = {} THEN zone ELSE None]
       ELSE [job[q] EXCEPT !.start = None]]
  /\ Shaken(\E q \in beside : job[q].fresh)
  /\ UNCHANGED <<zone, domains, users, mailboxes, failures>>

\* Open until there is an administrator; the account is inserted in a later step.
Register(r, h, sending) ==
  Begin(r, IF users = {} THEN "user" ELSE "refused",
        [NoJob EXCEPT !.kind = "register", !.user = r, !.host = h,
                      !.routing = TRUE, !.sending = sending])

SignedIn == {u \in users : pc[u] = "done"}

AddDomain(r, u, h, routing, sending) ==
  /\ u \in SignedIn
  /\ Begin(r, "zone", [NoJob EXCEPT !.user = u, !.host = h,
                                    !.routing = routing, !.sending = sending])

RemoveDomain(r, u, h) ==
  /\ u \in SignedIn /\ domains[h].owner = u
  /\ Begin(r, "unruleAll", [NoJob EXCEPT !.kind = "remove", !.user = u, !.host = h,
                              !.routing = domains[h].routing, !.sending = domains[h].tagged])

-----------------------------------------------------------------------------
(* Where a request goes: Step takes it from one step to the next, with j   *)
(* as its variables; At leaves them as they are.                           *)

Goto(r, to, j) ==
  /\ pc' = [pc EXCEPT ![r] = to]
  /\ job' = [job EXCEPT ![r] = IF to \in Ends THEN Ended(j) ELSE j]
Step(r, from, to, j) == pc[r] = from /\ Goto(r, to, j)
At(r, from, to) == Step(r, from, to, job[r])
Rows == <<domains, users, mailboxes>>
Quiet == UNCHANGED <<shaken, failures>>
Host(r) == job[r].host

\* rollbackDomainProvisioning, the rows its callers delete, and removeDomainForUser:
\* the steps in their order, and which of them a request has to take.
Undoings == <<"unrule", "unsend", "restore", "switchOff", "unrow", "unuser">>
Removings == <<"unruleAll", "disable", "unsendRow", "deleteRow">>
Due(j, step) ==
  CASE step = "unrule" -> j.ruled
    [] step = "unsend" -> j.created
    [] step = "restore" -> j.previous # None \/ j.enabled
    [] step = "switchOff" -> j.enabled
    [] step = "unrow" -> j.inserted /\ ~j.known
    [] step = "unuser" -> j.kind = "register"
    [] step = "disable" -> j.routing
    [] step = "unsendRow" -> j.sending
    [] OTHER -> TRUE

FirstDue(j, steps, i) ==
  LET due == {n \in i..Len(steps) : Due(j, steps[n])} IN
  IF due = {} THEN "undone" ELSE steps[CHOOSE n \in due : \A m \in due : n <= m]
After(j, steps, step) ==
  FirstDue(j, steps, 1 + CHOOSE n \in 1..Len(steps) : steps[n] = step)

\* Where a throw leads.  A rollback's or a removal's is logged and passed over, and
\* nothing is rolled back before addDomainForUser has what provisioning changed.
OnError(r) ==
  LET step == pc[r] IN
  CASE step \in {"user", "deleteRow"} -> "failed"
    [] step \in Provisioning \cup {"dns"} ->
         IF job[r].kind = "register" THEN "unuser" ELSE "failed"
    [] step \in Adding \cup Registering -> FirstDue(job[r], Undoings, 1)
    [] step \in Undoing -> After(job[r], Undoings, step)
    [] step \in Removing \ {"deleteRow"} -> After(job[r], Removings, step)

-----------------------------------------------------------------------------
(* A registration, or a domain added, goes on *)

InsertUser(r) ==
  /\ At(r, "user", "zone") /\ users' = users \cup {r}
  /\ UNCHANGED <<zone, domains, mailboxes>> /\ Quiet

AfterRouting(r) == IF job[r].sending THEN "list" ELSE "find"

FindZone(r) ==
  /\ ~job[r].routing /\ At(r, "zone", AfterRouting(r))
  /\ UNCHANGED <<zone, Rows>> /\ Quiet

\* Unreadable settings count as routing that was on, an unreadable catch-all as none.
Glimpse(readable) ==
  /\ readable \/ failures < MaxFailures
  /\ failures' = IF readable THEN failures ELSE failures + 1

ReadSettings(r, readable) ==
  /\ job[r].routing /\ Glimpse(readable)
  /\ LET wasOn == readable => zone.on
         fresh == ~zone.on \/ zone.catchAll # "worker"
     IN /\ Step(r, "zone", IF wasOn THEN "copy" ELSE "enable",
             [job[r] EXCEPT !.wasOn = wasOn, !.fresh = fresh, !.spoiled = ~readable])
        /\ Shaken(fresh /\ job[r].start = None)
  /\ UNCHANGED <<zone, Rows>>

ReadCatchAll(r, readable) ==
  /\ Glimpse(readable)
  /\ Step(r, "copy", "enable",
          [job[r] EXCEPT !.previous = IF readable THEN zone.catchAll ELSE None,
                         !.spoiled = @ \/ ~readable])
  /\ UNCHANGED <<zone, Rows, shaken>>

\* Mutant: whoever enables routing will switch it off again.
TurnedOnAlways(j) == TRUE
TurnedOn(j) == ~j.wasOn

EnableRouting(r) ==
  /\ Step(r, "enable", "catchAll", [job[r] EXCEPT !.enabled = TurnedOn(job[r])])
  /\ zone' = [zone EXCEPT !.on = TRUE]
  /\ UNCHANGED Rows /\ Quiet

PutCatchAll(r) ==
  /\ At(r, "catchAll", AfterRouting(r)) /\ zone' = [zone EXCEPT !.catchAll = "worker"]
  /\ UNCHANGED Rows /\ Quiet

ListSending(r) ==
  /\ At(r, "list", IF Host(r) \in zone.sending THEN "find" ELSE "create")
  /\ UNCHANGED <<zone, Rows>> /\ Quiet

CreateSending(r) ==
  /\ Step(r, "create", "find", [job[r] EXCEPT !.created = TRUE])
  /\ zone' = [zone EXCEPT !.sending = @ \cup {Host(r)}]
  /\ UNCHANGED Rows /\ Quiet

FindRow(r) ==
  LET owner == domains[Host(r)].owner IN
  /\ Step(r, "find", IF owner \in {None, job[r].user} THEN "write" ELSE OnError(r),
          [job[r] EXCEPT !.found = (owner # None)])
  /\ UNCHANGED <<zone, Rows>> /\ Quiet

\* An update of a row that has gone changes nothing; the hostname is unique.
WriteRow(r) ==
  LET j == job[r]
      row == [owner |-> j.user, routing |-> j.routing, tagged |-> j.sending]
      there == domains[j.host].owner # None
  IN /\ j.user \in users
     /\ IF j.found
        THEN /\ At(r, "write", "alias")
             /\ domains' = IF there THEN [domains EXCEPT ![j.host] = row] ELSE domains
        ELSE IF there THEN At(r, "write", OnError(r)) /\ UNCHANGED domains
        ELSE /\ Step(r, "write", "alias", [j EXCEPT !.inserted = TRUE])
             /\ domains' = [domains EXCEPT ![j.host] = row]
     /\ UNCHANGED <<zone, users, mailboxes>> /\ Quiet

\* The addresses of an account's mailbox that uses all domains: at its own, and at
\* every other of the account's that is active.  (One with a sending subdomain may be.)
Addresses(u) ==
  {h \in Hosts : /\ u \in mailboxes /\ domains[h].owner = u
                 /\ h = Host(u) \/ domains[h].routing \/ domains[h].tagged}

\* Some of the rules may not be made: that is only logged.
RouteAliases(r) ==
  /\ At(r, "alias", "select")
  /\ \E made \in SUBSET Addresses(job[r].user) : zone' = [zone EXCEPT !.rules = @ \cup made]
  /\ UNCHANGED Rows /\ Quiet

SelectRow(r) == At(r, "select", "dns") /\ UNCHANGED <<zone, Rows>> /\ Quiet

\* Reads the zone; throws on a row that has gone.
ReadDns(r) ==
  /\ LET register == job[r].kind = "register" IN
     Step(r, "dns", IF register THEN "rule" ELSE "done", [job[r] EXCEPT !.known = register])
  /\ domains[Host(r)].owner # None
  /\ UNCHANGED <<zone, Rows>> /\ Quiet

\* A rule that was there already is noted as made.
MakeRule(r) ==
  /\ Step(r, "rule", "mailbox", [job[r] EXCEPT !.ruled = TRUE])
  /\ zone' = [zone EXCEPT !.rules = @ \cup {Host(r)}]
  /\ UNCHANGED Rows /\ Quiet

InsertMailbox(r) ==
  /\ At(r, "mailbox", "route") /\ r \in users /\ domains[Host(r)].owner = r
  /\ mailboxes' = mailboxes \cup {r}
  /\ UNCHANGED <<zone, domains, users>> /\ Quiet

RouteMailbox(r) ==
  /\ At(r, "route", "done") /\ zone' = [zone EXCEPT !.rules = @ \cup Addresses(r)]
  /\ UNCHANGED Rows /\ Quiet

-----------------------------------------------------------------------------
(* A call throws *)

Fail(r) ==
  /\ Running(r) /\ failures < MaxFailures
  /\ pc[r] \notin {"copy", "alias"}
  /\ failures' = failures + 1
  /\ Goto(r, OnError(r), [job[r] EXCEPT !.spoiled = @ \/ pc[r] \in Undoing])
  /\ Shaken(pc[r] \in Undoing)
  /\ UNCHANGED <<zone, Rows>>

\* The row or the account the request counts on has gone.
Miss(r) ==
  /\ \/ pc[r] = "write" /\ job[r].user \notin users
     \/ pc[r] = "dns" /\ domains[Host(r)].owner = None
     \/ pc[r] = "mailbox" /\ (r \notin users \/ domains[Host(r)].owner # r)
  /\ Goto(r, OnError(r), job[r])
  /\ UNCHANGED <<zone, Rows>> /\ Quiet

-----------------------------------------------------------------------------
(* The steps of a rollback *)

Undo(r, step) == At(r, step, After(job[r], Undoings, step)) /\ Quiet

UndoRule(r) ==
  /\ Undo(r, "unrule") /\ zone' = [zone EXCEPT !.rules = @ \ {Host(r)}] /\ UNCHANGED Rows

UndoSending(r) ==
  /\ Undo(r, "unsend") /\ zone' = [zone EXCEPT !.sending = @ \ {Host(r)}] /\ UNCHANGED Rows

\* Mutant: the catch-all is always reset to a disabled drop.
RestoredToDrop(j) == "drop"
Restored(j) == IF j.previous = None THEN "drop" ELSE j.previous

RestoreCatchAll(r) ==
  /\ Undo(r, "restore") /\ zone' = [zone EXCEPT !.catchAll = Restored(job[r])] /\ UNCHANGED Rows

UndoRouting(r) ==
  /\ Undo(r, "switchOff") /\ zone' = [zone EXCEPT !.on = FALSE] /\ UNCHANGED Rows

\* Mailboxes go with their domain, domains with their owner.
RowDeleted(h) ==
  /\ domains' = [domains EXCEPT ![h] = NoRow]
  /\ mailboxes' = {u \in mailboxes : job[u].host # h}

UndoRow(r) ==
  /\ Undo(r, "unrow") /\ RowDeleted(Host(r)) /\ UNCHANGED <<zone, users>>

\* Mutant: the domain's row stays behind its owner.
OnlyAccountDeleted(u) == users' = users \ {u} /\ UNCHANGED <<domains, mailboxes>>
AccountDeleted(u) ==
  /\ users' = users \ {u} /\ mailboxes' = mailboxes \ {u}
  /\ domains' = [h \in Hosts |-> IF domains[h].owner = u THEN NoRow ELSE domains[h]]

UndoUser(r) ==
  /\ Undo(r, "unuser") /\ AccountDeleted(r) /\ UNCHANGED zone

-----------------------------------------------------------------------------
(* The steps of a removal *)

RemoveStep(r, step) == At(r, step, After(job[r], Removings, step)) /\ UNCHANGED <<Rows, failures>>

RemoveRules(r) ==
  /\ RemoveStep(r, "unruleAll") /\ zone' = [zone EXCEPT !.rules = @ \ {Host(r)}]
  /\ UNCHANGED shaken

\* Routing is switched off for the whole zone.
DisableRouting(r) ==
  RemoveStep(r, "disable") /\ zone' = [zone EXCEPT !.on = FALSE] /\ Shaken(TRUE)

RemoveSending(r) ==
  /\ RemoveStep(r, "unsendRow") /\ zone' = [zone EXCEPT !.sending = @ \ {Host(r)}]
  /\ UNCHANGED shaken

DeleteRow(r) ==
  /\ At(r, "deleteRow", "done") /\ RowDeleted(Host(r))
  /\ UNCHANGED <<zone, users>> /\ Quiet

-----------------------------------------------------------------------------
Ask(r) ==
  \E h \in Hosts :
    \/ \E sending \in BOOLEAN : Register(r, h, sending)
    \/ \E u \in SignedIn :
         \/ \E routing, sending \in BOOLEAN : AddDomain(r, u, h, routing, sending)
         \/ RemoveDomain(r, u, h)

Go(r) ==
  \/ InsertUser(r) \/ FindZone(r)
  \/ \E readable \in BOOLEAN : ReadSettings(r, readable) \/ ReadCatchAll(r, readable)
  \/ EnableRouting(r) \/ PutCatchAll(r) \/ ListSending(r) \/ CreateSending(r)
  \/ FindRow(r) \/ WriteRow(r) \/ RouteAliases(r) \/ SelectRow(r) \/ ReadDns(r)
  \/ MakeRule(r) \/ InsertMailbox(r) \/ RouteMailbox(r)

GoBack(r) == Fail(r) \/ Miss(r) \/ UndoRule(r) \/ UndoSending(r) \/ RestoreCatchAll(r)
             \/ UndoRouting(r) \/ UndoRow(r) \/ UndoUser(r)

Remove(r) == RemoveRules(r) \/ DisableRouting(r) \/ RemoveSending(r) \/ DeleteRow(r)

Next == \E r \in Requests : Ask(r) \/ Go(r) \/ GoBack(r) \/ Remove(r)
Spec == Init /\ [][Next]_vars

-----------------------------------------------------------------------------
(* Properties *)

\* A catch-all kept while routing was off is not read, and so not put back.
Kept(z) == z.on \/ z.catchAll = "drop"
Spoiled(r) == job[r].spoiled \/ (pc[r] \in Undoing /\ failures' # failures)
Same(z, start) == z.on = start.on /\ z.catchAll = start.catchAll /\ z.sending = start.sending

\* What a rollback leaves (rollback.ts), of a request nobody ran beside and no call of
\* whose rollback failed: routing, the catch-all and the sending subdomains as they were
\* found, and the address rules but for two things.  The rule a registration noted as its
\* own has gone, even one the zone had before (auth/register); and of a domain added, the
\* rules made for the mailbox that uses all domains may stay (service.ts).
RollbackLeaves ==
  [][\A r \in Requests :
       /\ pc[r] \in (Adding \cup Registering \cup Undoing) \ {"unrow", "unuser"}
       /\ pc'[r] \in {"unrow", "unuser", "undone"}
       /\ job[r].start # None /\ ~Spoiled(r) /\ Kept(job[r].start)
       => LET start == job[r].start
              others == start.rules \ (IF job[r].ruled THEN {Host(r)} ELSE {})
              stray == IF job[r].kind = "add" THEN Addresses(job[r].user) ELSE {}
          IN /\ Same(zone', start)
             /\ others \subseteq zone'.rules /\ zone'.rules \subseteq others \cup stray]_vars

\* The request that wrote the row is on its way out.
Withdrawn(h) == \E r \in Requests : Running(r) /\ pc[r] \in Undoing /\ job[r].host = h

\* A domain that is set up with routing stays routed to the worker through the failed
\* attempts of others (addDomainForUser, rollback.ts), unless a domain of the zone was
\* removed, a call of a rollback failed, or an attempt that found the zone unrouted ran
\* beside another request.
LiveIsRouted ==
  \A h \in Hosts :
    domains[h].routing /\ ~Withdrawn(h) => shaken \/ (zone.on /\ zone.catchAll = "worker")

\* "A failed signup or domain add leaves the Cloudflare account as it was" (rollback.ts),
\* when nobody ran beside it and what was asked of the zone was answered; "anything the
\* attempt merely reused" is part of that.
LeavesAsItWas ==
  [][\A r \in Requests :
       /\ Running(r) /\ pc'[r] \in {"failed", "undone"} /\ job[r].kind # "remove"
       /\ job[r].start # None /\ ~Spoiled(r) /\ Kept(job[r].start)
       => zone' = job[r].start]_vars

=============================================================================
