--------------------------- MODULE WebhooksProofs ---------------------------
(***************************************************************************)
(* What is proved of Webhooks, for every set of deliveries and every value *)
(* of the bounds: its safety properties, and that it implements Once.      *)
(***************************************************************************)
EXTENDS Webhooks, FiniteSetTheorems, TLAPS

-----------------------------------------------------------------------------
(***************************************************************************)
(* The inductive invariant.                                                *)
(***************************************************************************)
\* The runs of a delivery that are past their post, or will never come to it.
Past(d) == {r \in Runs : DeliveryOf(r) = d
                         /\ pc[r] \notin {"idle", "create", "read", "hook", "post"}}
Posted(d) == {r \in ok : DeliveryOf(r) = d}
OfDelivery(d) == {r \in Runs : DeliveryOf(r) = d}

CountInv ==
  /\ \A d \in Deliveries :
       /\ manual[d] <= events
       /\ attempts[d] <= Cardinality(Past(d)) /\ posts[d] <= Cardinality(Past(d))
  /\ \A r \in Runs :
       /\ pc[r] \in {"hook", "post"} => seen[r] <= Cardinality(Past(DeliveryOf(r)))
       /\ pc[r] = "record" => seen[r] < Cardinality(Past(DeliveryOf(r)))

\* Where a run can be, and what it holds.
RunInv(r) ==
  /\ pc[r] = "idle" <=> r[2] > runs[DeliveryOf(r)]
  /\ pc[r] # "idle" /\ serves[r] # 0 => ticket[TicketOf(r)] # "free"
  /\ pc[r] \in {"create", "post", "record", "schedule"} => allowed[r] \in Limits
  /\ pc[r] = "create" => row[DeliveryOf(r)] = "none" /\ seen[r] = 0 /\ r[2] = 1
  /\ pc[r] = "idle" => seen[r] = 0
  /\ r \in ok => pc[r] \in {"record", "end", "done", "failed", "crashed"}
PlaceInv == \A r \in Runs : RunInv(r)

\* Nothing happens to a delivery before it is there; the webhook's end is theirs.
RowAt(d) ==
  /\ row[d] = "none" =>
       /\ posts[d] = 0 /\ attempts[d] = 0 /\ manual[d] = 0
       /\ \A t \in Tickets : t[1] = d => ticket[t] = "free"
       /\ \A r \in OfDelivery(d) : pc[r] \in {"idle", "create", "failed", "crashed"}
  /\ runs[d] = 0 => row[d] = "none"
  /\ limit = 0 => row[d] \in {"none", "gone"}
  /\ row[d] = "delivered" => Posted(d) # {}
RowInv == \A d \in Deliveries : RowAt(d)

\* What can still lead to a post: a ticket n > 0 whose run is not about to ack it,
\* and, as 0, a run that has no ticket.
Serving(d, n) == \E r \in OfDelivery(d) : Working(r) /\ serves[r] = n
Spent(d, n) == \E r \in OfDelivery(d) : pc[r] = "end" /\ serves[r] = n
Waiting(d, n) == ticket[<<d, n>>] \notin {"free", "acked"} /\ ~Spent(d, n)
Chains(d) == {n \in 0..MaxTickets : IF n = 0 THEN Serving(d, 0) ELSE Waiting(d, n)}
Open(d) == Cardinality(Chains(d))
Recording(d) == \E r \in OfDelivery(d) : pc[r] = "record"
Debt(d) == IF Recording(d) THEN 1 ELSE 0

SoloAt(d) ==
  /\ \A q, r \in OfDelivery(d) : Working(q) /\ Working(r) => q = r
  /\ \A r \in OfDelivery(d) : Live(r) /\ serves[r] # 0 =>
       /\ ticket[TicketOf(r)] = "leased"
       /\ \A q \in OfDelivery(d) : Live(q) /\ serves[q] = serves[r] => q = r
  /\ row[d] # "gone" => posts[d] = attempts[d] + Debt(d)
  /\ \A r \in OfDelivery(d) :
       /\ pc[r] \in {"hook", "post"} => posts[d] = seen[r]
       /\ pc[r] \in {"record", "schedule"} => posts[d] = seen[r] + 1
  /\ Open(d) <= 1 + manual[d]
  /\ \E n \in Limits : posts[d] + Open(d) <= n + manual[d] + Debt(d)
SoloInv == \A d \in Undisturbed : SoloAt(d)

OnceAt(d) ==
  Chains(d) # {} =>
    /\ row[d] \in {"none", "pending", "retrying", "gone"}
    /\ \A r \in Posted(d) : pc[r] = "record"
OnceInv == \A d \in Undisturbed : manual[d] = 0 => OnceAt(d)

PendInv ==
  \A d \in Deliveries : row[d] = "retrying" =>
    \/ \E n \in 1..MaxTickets : Waiting(d, n)
    \/ \E r \in OfDelivery(d) : pc[r] = "schedule"
    \/ d \in unscheduled \cup interrupted

IInv == TypeOK /\ CountInv /\ PlaceInv /\ RowInv /\ SoloInv /\ OnceInv /\ PendInv

-----------------------------------------------------------------------------
(***************************************************************************)
(* Runs and tickets are pairs, and a delivery has finitely many of them.   *)
(***************************************************************************)
LEMMA Pairs ==
  /\ \A r \in Runs : DeliveryOf(r) \in Deliveries /\ r[2] \in 1..MaxRuns
                     /\ r = <<DeliveryOf(r), r[2]>>
  /\ \A d \in Deliveries, n \in 1..MaxRuns :
       <<d, n>> \in Runs /\ DeliveryOf(<<d, n>>) = d /\ <<d, n>>[2] = n
  /\ \A t \in Tickets : t[1] \in Deliveries /\ t[2] \in 1..MaxTickets /\ t = <<t[1], t[2]>>
  /\ \A d \in Deliveries, n \in 1..MaxTickets :
       <<d, n>> \in Tickets /\ <<d, n>>[1] = d /\ <<d, n>>[2] = n
BY DEF Runs, Tickets, DeliveryOf

LEMMA FewRuns ==
  ASSUME NEW A \in SUBSET Runs, NEW d, \A r \in A : DeliveryOf(r) = d
  PROVE  IsFiniteSet(A) /\ Cardinality(A) \in 0..MaxRuns
<1> DEFINE f == [r \in A |-> r[2]]
<1>1. \A r \in A : r[2] \in 1..MaxRuns /\ r = <<d, r[2]>>
  BY Pairs
<1>2. f \in Injection(A, 1..MaxRuns)
  BY <1>1 DEF Injection, IsInjective
<1>3. IsFiniteSet(1..MaxRuns) /\ Cardinality(1..MaxRuns) = MaxRuns
  <2>1. MaxRuns \in Nat /\ (1 > MaxRuns => MaxRuns = 0)
    BY WebhooksAssumption
  <2>2. IsFiniteSet(1..MaxRuns) /\ Cardinality(1..MaxRuns) = IF 1 > MaxRuns THEN 0 ELSE MaxRuns - 1 + 1
    BY <2>1, FS_Interval
  <2> QED
    BY <2>1, <2>2
<1>4. IsFiniteSet(A) /\ Cardinality(A) <= MaxRuns
  BY <1>2, <1>3, FS_Injection
<1>5. Cardinality(A) \in Nat
  BY <1>4, FS_CardinalityType
<1> QED
  BY <1>4, <1>5, WebhooksAssumption

LEMMA PastFinite ==
  ASSUME NEW d
  PROVE  IsFiniteSet(Past(d)) /\ Cardinality(Past(d)) \in 0..MaxRuns
BY FewRuns DEF Past

LEMMA ChainsFinite ==
  ASSUME NEW S \in SUBSET (0..MaxTickets)
  PROVE  IsFiniteSet(S) /\ Cardinality(S) \in Nat
<1>1. IsFiniteSet(0..MaxTickets)
  BY FS_Interval, WebhooksAssumption
<1> QED
  BY <1>1, FS_Subset, FS_CardinalityType

-----------------------------------------------------------------------------
(***************************************************************************)
(* What the steps leave alone.                                             *)
(***************************************************************************)
Stepping(r) == Run(r) \/ CrashRun(r)
Stops(r) == Throw(r) \/ CrashRun(r)

LEMMA RetryEffect ==
  ASSUME TypeOK, NEW t, Retry(t)
  PROVE  /\ ticket' \in [Tickets -> TicketStates] /\ tries' \in [Tickets -> 0..MaxRetries]
         /\ \A u \in Tickets : \/ ticket'[u] = ticket[u]
                               \/ u = t /\ ticket[u] = "leased" /\ ticket'[u] \in {"ready", "dead"}
<1>0. /\ ticket \in [Tickets -> TicketStates] /\ tries \in [Tickets -> 0..MaxRetries]
      /\ MaxRetries \in Nat
  BY WebhooksAssumption DEF TypeOK
<1>1. CASE ticket[t] # "leased"
  BY <1>0, <1>1 DEF Retry, queueVars
<1>2. CASE ticket[t] = "leased" /\ tries[t] < MaxRetries
  <2>1. t \in Tickets => tries[t] + 1 \in 0..MaxRetries
    BY <1>0, <1>2
  <2> QED
    BY <1>0, <1>2, <2>1 DEF Retry, TicketStates
<1>3. CASE ticket[t] = "leased" /\ ~(tries[t] < MaxRetries)
  BY <1>0, <1>3 DEF Retry, TicketStates
<1> QED
  BY <1>1, <1>2, <1>3

\* A run that stops gives its ticket back, if it had one.
LEMMA StopEffect ==
  ASSUME TypeOK, NEW r \in Runs, Stops(r)
  PROVE  /\ pc' = [pc EXCEPT ![r] = pc'[r]] /\ pc'[r] \in {"failed", "crashed"} /\ Live(r)
         /\ interrupted' = IF pc[r] \in Attempting
                           THEN interrupted \cup {DeliveryOf(r)} ELSE interrupted
         /\ ticket' \in [Tickets -> TicketStates] /\ tries' \in [Tickets -> 0..MaxRetries]
         /\ \A u \in Tickets : \/ ticket'[u] = ticket[u]
                               \/ /\ serves[r] # 0 /\ u = TicketOf(r)
                                  /\ ticket[u] = "leased" /\ ticket'[u] \in {"ready", "dead"}
         /\ UNCHANGED <<rowVars, localVars, posts, unscheduled>>
         /\ UNCHANGED <<runtime, limit, runs, manual, serves, overlapped>>
<1>1. \E step \in {"failed", "crashed"} : Stop(r, step)
  BY DEF Stops, Throw, CrashRun
<1>2. /\ pc' = [pc EXCEPT ![r] = pc'[r]] /\ pc'[r] \in {"failed", "crashed"} /\ Live(r)
  BY <1>1 DEF Stop, Goto, Stops, Throw, CrashRun, Live, Resting, TypeOK
<1>3. /\ ticket' \in [Tickets -> TicketStates] /\ tries' \in [Tickets -> 0..MaxRetries]
      /\ \A u \in Tickets : \/ ticket'[u] = ticket[u]
                            \/ /\ serves[r] # 0 /\ u = TicketOf(r)
                               /\ ticket[u] = "leased" /\ ticket'[u] \in {"ready", "dead"}
  <2>1. CASE serves[r] = 0
    BY <1>1, <2>1 DEF Stop, queueVars, TypeOK
  <2>2. CASE serves[r] # 0
    BY <1>1, <2>2, RetryEffect DEF Stop
  <2> QED
    BY <2>1, <2>2
<1> QED
  BY <1>1, <1>2, <1>3 DEF Stop, Stops, Throw, CrashRun, Same

LEMMA RunFrame ==
  ASSUME TypeOK, NEW r \in Runs, Stepping(r)
  PROVE  /\ \A q \in Runs : q # r =>
              pc'[q] = pc[q] /\ seen'[q] = seen[q] /\ allowed'[q] = allowed[q]
         /\ UNCHANGED <<runtime, limit, serves, runs, manual, overlapped>>
         /\ Live(r)
<1>1. CASE Stops(r)
  BY <1>1, StopEffect DEF localVars, TypeOK
<1>2. CASE Run(r) /\ ~Stops(r)
  <2>1. UNCHANGED <<runtime, limit, serves, runs, manual, overlapped>>
    BY <1>2 DEF Stops, Run, CreateDelivery, ReadDelivery, ReadHook, Post, Record, ScheduleRetry,
       EndRun, Same
  <2>2. /\ \E step : Goto(r, step)
        /\ Live(r)
    BY <1>2 DEF Stops, Run, CreateDelivery, ReadDelivery, ReadHook, Post, Record, ScheduleRetry,
       EndRun, Live, Resting
  <2>3. \A q \in Runs : q # r => seen'[q] = seen[q] /\ allowed'[q] = allowed[q]
    BY <1>2 DEF Stops, Run, CreateDelivery, ReadDelivery, ReadHook, Post, Record, ScheduleRetry,
       EndRun, localVars, TypeOK
  <2> QED
    BY <2>1, <2>2, <2>3 DEF Goto, TypeOK
<1> QED
  BY <1>1, <1>2 DEF Stepping, Stops

LEMMA SetsFrame ==
  ASSUME TypeOK, NEW r \in Runs, Stepping(r)
  PROVE  /\ ok \subseteq ok' /\ ok' \subseteq ok \cup {r}
         /\ interrupted \subseteq interrupted' /\ interrupted' \subseteq interrupted \cup {DeliveryOf(r)}
         /\ unscheduled \subseteq unscheduled' /\ unscheduled' \subseteq unscheduled \cup {DeliveryOf(r)}
<1>1. CASE Stops(r)
  BY <1>1, StopEffect DEF localVars
<1>2. CASE Run(r) /\ ~Stops(r)
  BY <1>2 DEF Stops, Run, CreateDelivery, ReadDelivery, ReadHook, Post, Record, ScheduleRetry,
     EndRun, localVars
<1> QED
  BY <1>1, <1>2 DEF Stepping, Stops

LEMMA DeliveryFrame ==
  ASSUME TypeOK, NEW r \in Runs, Stepping(r)
  PROVE  /\ \A d \in Deliveries : d # DeliveryOf(r) =>
              row'[d] = row[d] /\ attempts'[d] = attempts[d] /\ posts'[d] = posts[d]
         /\ \A t \in Tickets : /\ ticket[t] # "free" => ticket'[t] # "free"
                               /\ t[1] # DeliveryOf(r) => ticket'[t] = ticket[t]
<1>0. DeliveryOf(r) \in Deliveries /\ TicketOf(r)[1] = DeliveryOf(r)
  BY Pairs DEF TicketOf
<1>1. CASE Stops(r)
  BY <1>0, <1>1, StopEffect DEF rowVars
<1>2. CASE Run(r) /\ ~Stops(r)
  <2>1. \A d \in Deliveries : d # DeliveryOf(r) =>
          row'[d] = row[d] /\ attempts'[d] = attempts[d] /\ posts'[d] = posts[d]
    BY <1>0, <1>2 DEF Stops, Run, CreateDelivery, ReadDelivery, ReadHook, Post, Record,
       ScheduleRetry, EndRun, rowVars, TypeOK
  <2>2. \A t \in Tickets : /\ ticket[t] # "free" => ticket'[t] # "free"
                           /\ t[1] # DeliveryOf(r) => ticket'[t] = ticket[t]
    BY <1>0, <1>2 DEF Stops, Run, CreateDelivery, ReadDelivery, ReadHook, Post, Record,
       ScheduleRetry, EndRun, queueVars, TypeOK
  <2> QED
    BY <2>1, <2>2
<1> QED
  BY <1>1, <1>2 DEF Stepping, Stops

\* A run of d begins, for ticket n of d or, if that is 0, for none.
Beginning(d, n) ==
  \/ n = 0 /\ (Dispatch(d) \/ RetryManually(d))
  \/ n # 0 /\ (Deliver(<<d, n>>) \/ DeliverDuplicate(<<d, n>>))

Begun(r, d, n) ==
  /\ DeliveryOf(r) = d /\ r[2] = runs[d] + 1 /\ pc[r] = "idle"
  /\ pc' = [pc EXCEPT ![r] = pc'[r]] /\ pc'[r] \in {"create", "read"}
  /\ serves' = [serves EXCEPT ![r] = n] /\ runs' = [runs EXCEPT ![d] = r[2]]
  /\ pc'[r] = "create" => n = 0 /\ runs[d] = 0 /\ allowed'[r] \in Limits
  /\ \A q \in Runs : q # r => allowed'[q] = allowed[q]

LEMMA BeginRuns ==
  ASSUME TypeOK, PlaceInv, NEW d \in Deliveries, NEW n \in 0..MaxTickets,
         NEW step \in {"create", "read"}, BeginRun(d, step, n)
  PROVE  \E r \in Runs : /\ DeliveryOf(r) = d /\ r[2] = runs[d] + 1 /\ r = <<d, runs[d] + 1>>
                         /\ pc[r] = "idle" /\ pc' = [pc EXCEPT ![r] = step] /\ pc'[r] = step
                         /\ serves' = [serves EXCEPT ![r] = n]
                         /\ runs' = [runs EXCEPT ![d] = r[2]]
<1>1. runs[d] \in 0..MaxRuns /\ runs[d] < MaxRuns /\ MaxRuns \in Nat
  BY WebhooksAssumption DEF TypeOK, BeginRun
<1>2. PICK k \in 1..MaxRuns : k = runs[d] + 1
  BY <1>1
<1>a. <<d, k>> \in Runs /\ DeliveryOf(<<d, k>>) = d /\ <<d, k>>[2] = k
  BY <1>2, Pairs
<1>3. PICK r \in Runs : r = <<d, runs[d] + 1>> /\ DeliveryOf(r) = d /\ r[2] = runs[d] + 1
  BY <1>2, <1>a
<1>4. r[2] > runs[d]
  BY <1>1, <1>3
<1>5. pc[r] = "idle"
  BY <1>3, <1>4 DEF PlaceInv, RunInv
<1> QED
  BY <1>3, <1>5 DEF BeginRun, Goto, TypeOK

LEMMA BeginEffect ==
  ASSUME TypeOK, PlaceInv, NEW d \in Deliveries, NEW n \in 0..MaxTickets, Beginning(d, n)
  PROVE  /\ \E r \in Runs : Begun(r, d, n)
         /\ n = 0 => UNCHANGED ticket
         /\ n # 0 => /\ ticket[<<d, n>>] \in {"ready", "leased"}
                     /\ ticket' = [ticket EXCEPT ![<<d, n>>] = "leased"]
         /\ d \notin overlapped' => \A q \in OfDelivery(d) :
              ~Working(q) /\ (Live(q) => n = 0 \/ serves[q] # n)
         /\ overlapped \subseteq overlapped' /\ overlapped' \subseteq overlapped \cup {d}
         /\ allowed' \in [Runs -> Limits \cup {0}]
         /\ UNCHANGED <<runtime, limit, rowVars, tries, seen, ok, posts, interrupted, unscheduled>>
<1>0. /\ \A m \in 1..MaxTickets : /\ <<d, m>> \in Tickets
                                  /\ <<d, m>>[1] = d /\ <<d, m>>[2] = m
      /\ n # 0 => n \in 1..MaxTickets
      /\ ticket \in [Tickets -> TicketStates] /\ allowed \in [Runs -> Limits \cup {0}]
      /\ limit \in Limits \cup {0}
  BY Pairs DEF TypeOK
<1>1. \E step \in {"create", "read"} : BeginRun(d, step, n) /\ (step = "create" => n = 0 /\ Dispatch(d))
  BY <1>0 DEF Beginning, Dispatch, RetryManually, Deliver, DeliverDuplicate
<1>2. \E r \in Runs : Begun(r, d, n)
  <2>1. PICK step \in {"create", "read"} :
           BeginRun(d, step, n) /\ (step = "create" => n = 0 /\ Dispatch(d))
    BY <1>1
  <2>2. PICK r \in Runs : /\ DeliveryOf(r) = d /\ r[2] = runs[d] + 1 /\ r = <<d, runs[d] + 1>>
                          /\ pc[r] = "idle" /\ pc' = [pc EXCEPT ![r] = step] /\ pc'[r] = step
                          /\ serves' = [serves EXCEPT ![r] = n]
                          /\ runs' = [runs EXCEPT ![d] = r[2]]
    BY <2>1, BeginRuns
  <2>3. CASE Dispatch(d)
    <3>1. runs[d] = 0 /\ r = <<d, 1>> /\ limit \in Limits /\ allowed' = [allowed EXCEPT ![<<d, 1>>] = limit]
      BY <1>0, <2>2, <2>3 DEF Dispatch
    <3> QED
      BY <1>0, <2>1, <2>2, <3>1 DEF Begun
  <2>4. CASE ~Dispatch(d)
    <3>1. UNCHANGED allowed /\ step # "create"
      BY <1>0, <2>1, <2>4 DEF Beginning, RetryManually, Deliver, DeliverDuplicate
    <3> QED
      BY <2>1, <2>2, <3>1 DEF Begun
  <2> QED
    BY <2>3, <2>4
<1>3. /\ d \notin overlapped' => \A q \in OfDelivery(d) :
           ~Working(q) /\ (Live(q) => n = 0 \/ serves[q] # n)
      /\ overlapped \subseteq overlapped' /\ overlapped' \subseteq overlapped \cup {d}
      /\ UNCHANGED <<runtime, rowVars, tries, seen, ok, posts, interrupted, unscheduled>>
  BY <1>1 DEF BeginRun, OfDelivery, Working
<1>4. allowed' \in [Runs -> Limits \cup {0}]
  BY <1>0 DEF Beginning, Dispatch, RetryManually, Deliver, DeliverDuplicate
<1>5. /\ n = 0 => UNCHANGED ticket
      /\ n # 0 => /\ ticket[<<d, n>>] \in {"ready", "leased"}
                  /\ ticket' = [ticket EXCEPT ![<<d, n>>] = "leased"]
      /\ UNCHANGED limit
  BY <1>0 DEF Beginning, Dispatch, RetryManually, Deliver, DeliverDuplicate
<1> QED
  BY <1>2, <1>3, <1>4, <1>5

-----------------------------------------------------------------------------
(***************************************************************************)
(* Where a run can be, and what it holds.                                  *)
(***************************************************************************)
LEMMA TicketOfType ==
  ASSUME TypeOK, NEW r \in Runs, serves[r] # 0
  PROVE  TicketOf(r) \in Tickets /\ TicketOf(r) = <<DeliveryOf(r), serves[r]>>
         /\ serves[r] \in 1..MaxTickets
<1>1. serves[r] \in 0..MaxTickets /\ DeliveryOf(r) \in Deliveries /\ MaxTickets \in Nat
  BY Pairs, WebhooksAssumption DEF TypeOK
<1>2. serves[r] \in 1..MaxTickets
  BY <1>1
<1> QED
  BY <1>1, <1>2, Pairs DEF TicketOf

LEMMA RunPlace ==
  ASSUME TypeOK, PlaceInv, RowInv, NEW r \in Runs, Stepping(r)
  PROVE  PlaceInv'
<1>0. /\ \A q \in Runs : q # r => pc'[q] = pc[q] /\ seen'[q] = seen[q] /\ allowed'[q] = allowed[q]
      /\ UNCHANGED <<serves, runs, limit>> /\ Live(r)
      /\ ok \subseteq ok' /\ ok' \subseteq ok \cup {r}
      /\ \A t \in Tickets : ticket[t] # "free" => ticket'[t] # "free"
      /\ pc \in [Runs -> Steps] /\ limit \in Limits \cup {0} /\ allowed \in [Runs -> Limits \cup {0}]
      /\ row \in [Deliveries -> RowStates]
      /\ 0 \notin Limits
  BY RunFrame, SetsFrame, DeliveryFrame, WebhooksAssumption DEF TypeOK
<1>1. ASSUME NEW q \in Runs, pc[q] # "idle", serves[q] # 0
      PROVE  ticket'[TicketOf(q)] # "free"
  BY <1>0, <1>1, TicketOfType DEF PlaceInv, RunInv
<1>2. ASSUME NEW q \in Runs, q # r PROVE RunInv(q)'
  <2>1. RunInv(q) /\ pc'[q] = pc[q] /\ seen'[q] = seen[q] /\ allowed'[q] = allowed[q]
        /\ (q \in ok' <=> q \in ok) /\ TicketOf(q)' = TicketOf(q)
    BY <1>0, <1>2 DEF PlaceInv, TicketOf
  <2>2. pc[q] = "create" => row'[DeliveryOf(q)] = "none"
    <3>1. CASE DeliveryOf(q) # DeliveryOf(r)
      BY <2>1, <3>1, DeliveryFrame, Pairs DEF RunInv
    <3>2. CASE pc[q] = "create" /\ DeliveryOf(q) = DeliveryOf(r)
      <4>1. row[DeliveryOf(r)] = "none"
        BY <2>1, <3>2 DEF RunInv
      <4>2. pc[r] = "create"
        BY <1>0, <4>1, Pairs DEF RowInv, RowAt, OfDelivery, Live, Resting
      <4>3. q[2] = 1 /\ r[2] = 1
        BY <2>1, <3>2, <4>2 DEF PlaceInv, RunInv
      <4> QED
        BY <1>2, <3>2, <4>3, Pairs
    <3> QED
      BY <3>1, <3>2
  <2> QED
    BY <1>0, <1>1, <2>1, <2>2 DEF RunInv, DeliveryOf
<1>3. RunInv(r)'
  <2>0. RunInv(r) /\ pc[r] # "idle" /\ TicketOf(r)' = TicketOf(r)
    BY <1>0 DEF PlaceInv, Live, Resting, TicketOf
  <2>1. pc'[r] \notin {"idle", "create"}
    <3>1. CASE Stops(r)
      BY <3>1, StopEffect
    <3>2. CASE Run(r) /\ ~Stops(r)
      BY <1>0, <3>2 DEF Stops, Run, CreateDelivery, ReadDelivery, ReadHook, Post, Record,
         ScheduleRetry, EndRun, Goto
    <3> QED
      BY <3>1, <3>2 DEF Stepping, Stops
  <2>2. pc'[r] \in {"post", "record", "schedule"} => allowed'[r] \in Limits
    <3>1. CASE Stops(r)
      BY <3>1, StopEffect
    <3>2. CASE Run(r) /\ ~Stops(r)
      BY <1>0, <2>0, <3>2 DEF Stops, Run, CreateDelivery, ReadDelivery, ReadHook, Post, Record,
         ScheduleRetry, EndRun, Goto, RunInv, localVars
    <3> QED
      BY <3>1, <3>2 DEF Stepping, Stops
  <2>3. r \in ok' => pc'[r] \in {"record", "end", "done", "failed", "crashed"}
    <3>1. CASE Stops(r)
      BY <3>1, StopEffect
    <3>2. CASE Run(r) /\ ~Stops(r)
      BY <1>0, <2>0, <3>2 DEF Stops, Run, CreateDelivery, ReadDelivery, ReadHook, Post, Record,
         ScheduleRetry, EndRun, Goto, RunInv, localVars, CanRetry
    <3> QED
      BY <3>1, <3>2 DEF Stepping, Stops
  <2> QED
    BY <1>0, <1>1, <2>0, <2>1, <2>2, <2>3 DEF RunInv, DeliveryOf
<1> QED
  BY <1>2, <1>3 DEF PlaceInv

LEMMA BeginPlace ==
  ASSUME TypeOK, PlaceInv, RowInv, NEW d \in Deliveries, NEW n \in 0..MaxTickets, Beginning(d, n)
  PROVE  PlaceInv'
<1>1. PICK r \in Runs : Begun(r, d, n)
  BY BeginEffect
<1>0. /\ pc \in [Runs -> Steps] /\ serves \in [Runs -> 0..MaxTickets]
      /\ runs \in [Deliveries -> 0..MaxRuns] /\ MaxRuns \in Nat
      /\ n = 0 => UNCHANGED ticket
      /\ n # 0 => ticket' = [ticket EXCEPT ![<<d, n>>] = "leased"]
      /\ ticket \in [Tickets -> TicketStates]
      /\ UNCHANGED <<row, seen, ok>>
  BY BeginEffect, WebhooksAssumption DEF TypeOK, rowVars
<1>2. ASSUME NEW q \in Runs, q # r PROVE RunInv(q)'
  <2>1. /\ RunInv(q) /\ pc'[q] = pc[q] /\ serves'[q] = serves[q] /\ TicketOf(q)' = TicketOf(q)
        /\ allowed'[q] = allowed[q]
        /\ DeliveryOf(q) \in Deliveries /\ q[2] \in 1..MaxRuns /\ q = <<DeliveryOf(q), q[2]>>
    BY <1>0, <1>1, <1>2, Pairs DEF PlaceInv, TicketOf, Begun
  <2>2. pc[q] # "idle" /\ serves[q] # 0 => ticket'[TicketOf(q)] # "free"
    BY <1>0, <2>1, TicketOfType DEF RunInv
  <2>3. pc[q] = "idle" <=> q[2] > runs'[DeliveryOf(q)]
    <3>1. CASE DeliveryOf(q) # d
      BY <1>0, <1>1, <2>1, <3>1 DEF RunInv, Begun
    <3>2. CASE DeliveryOf(q) = d
      <4>1. q[2] # runs[d] + 1 /\ runs'[d] = runs[d] + 1 /\ runs[d] \in 0..MaxRuns
        BY <1>0, <1>1, <1>2, <2>1, <3>2, Pairs DEF Begun
      <4> QED
        BY <1>0, <2>1, <3>2, <4>1 DEF RunInv
    <3> QED
      BY <3>1, <3>2
  <2> QED
    BY <1>0, <2>1, <2>2, <2>3 DEF RunInv, DeliveryOf
<1>3. RunInv(r)'
  <2>1. /\ pc'[r] \in {"create", "read"} /\ serves'[r] = n /\ runs'[d] = r[2] /\ DeliveryOf(r) = d
        /\ seen[r] = 0 /\ r \notin ok /\ r[2] \in 1..MaxRuns /\ r[2] = runs[d] + 1
    BY <1>0, <1>1, Pairs DEF Begun, PlaceInv, RunInv
  <2>2. n # 0 => TicketOf(r)' = <<d, n>> /\ <<d, n>> \in Tickets
    BY <2>1, Pairs DEF TicketOf, DeliveryOf
  <2>3. pc'[r] = "create" => row[d] = "none" /\ r[2] = 1 /\ allowed'[r] \in Limits
    BY <1>1, <2>1 DEF Begun, RowInv, RowAt
  <2>4. ~(r[2] > runs'[d])
    BY <2>1
  <2> QED
    BY <1>0, <2>1, <2>2, <2>3, <2>4 DEF RunInv, DeliveryOf
<1> QED
  BY <1>2, <1>3 DEF PlaceInv

\* What the owner and restarts do.
Outside == EditHook \/ DeleteHook \/ RestartProcess

LEMMA OutsideFrame ==
  ASSUME TypeOK, Outside
  PROVE  /\ UNCHANGED <<attempts, tries, runs, manual, serves, localVars, posts, overlapped,
                        unscheduled>>
         /\ \A r \in Runs : \/ pc'[r] = pc[r]
                            \/ pc'[r] = "crashed" /\ Live(r)
                               /\ (pc[r] \in Attempting => DeliveryOf(r) \in interrupted')
         /\ \A t \in Tickets : /\ ticket[t] = "free" <=> ticket'[t] = "free"
                               /\ ticket[t] = "acked" <=> ticket'[t] = "acked"
         /\ \A d \in Deliveries : \/ row'[d] = row[d]
                                  \/ row[d] # "none" /\ row'[d] = "gone"
         /\ limit' = 0 /\ limit # 0 => \A d \in Deliveries : row'[d] \in {"none", "gone"}
         /\ limit = 0 => limit' = 0
         /\ interrupted \subseteq interrupted' /\ limit' \in Limits \cup {0}
         /\ \A r \in Runs : Live(r) /\ pc'[r] = pc[r] => UNCHANGED ticket
<1>0. limit \in Limits \cup {0} /\ 0 \notin Limits
  BY WebhooksAssumption DEF TypeOK
<1>1. CASE EditHook
  BY <1>0, <1>1 DEF EditHook, rowVars, queueVars
<1>2. CASE DeleteHook
  BY <1>0, <1>2 DEF DeleteHook, TypeOK, queueVars
<1>3. CASE RestartProcess
  BY <1>0, <1>3 DEF RestartProcess, TypeOK, TicketStates, rowVars, Live, Resting
<1> QED
  BY <1>1, <1>2, <1>3 DEF Outside

LEMMA OutsidePlace ==
  ASSUME TypeOK, PlaceInv, RowInv, Outside
  PROVE  PlaceInv'
<1>1. ASSUME NEW q \in Runs PROVE RunInv(q)'
  <2>1. /\ RunInv(q) /\ UNCHANGED <<seen, allowed, ok, serves, runs>>
        /\ pc'[q] = pc[q] \/ (pc'[q] = "crashed" /\ pc[q] # "idle")
        /\ row[DeliveryOf(q)] = "none" => row'[DeliveryOf(q)] = "none"
        /\ TicketOf(q)' = TicketOf(q)
    BY <1>1, OutsideFrame, Pairs DEF PlaceInv, localVars, Live, Resting, TicketOf
  <2>2. pc[q] # "idle" /\ serves[q] # 0 => ticket'[TicketOf(q)] # "free"
    BY <2>1, OutsideFrame, TicketOfType DEF RunInv
  <2> QED
    BY <2>1, <2>2 DEF RunInv, DeliveryOf
<1> QED
  BY <1>1 DEF PlaceInv

-----------------------------------------------------------------------------
(***************************************************************************)
(* The counters count runs, of which there are at most MaxRuns.            *)
(***************************************************************************)
LEMMA PastGrows ==
  ASSUME NEW d, Past(d) \subseteq Past(d)'
  PROVE  /\ Cardinality(Past(d)) \in Nat /\ Cardinality(Past(d))' \in Nat
         /\ Cardinality(Past(d)) <= Cardinality(Past(d))'
         /\ \A r : r \in Past(d)' /\ r \notin Past(d) =>
              Cardinality(Past(d)) + 1 <= Cardinality(Past(d))'
<1>1. /\ IsFiniteSet(Past(d)) /\ Cardinality(Past(d)) \in Nat
      /\ IsFiniteSet(Past(d)') /\ Cardinality(Past(d)') \in Nat
  <2>1. \A r \in Past(d)' : r \in Runs /\ DeliveryOf(r) = d
    BY DEF Past, DeliveryOf, Runs
  <2>2. Past(d)' \in SUBSET Runs
    BY <2>1
  <2> QED
    BY <2>1, <2>2, PastFinite, FewRuns
<1>2. Cardinality(Past(d)) <= Cardinality(Past(d)')
  BY <1>1, FS_Subset
<1>3. ASSUME NEW r, r \in Past(d)', r \notin Past(d)
      PROVE  Cardinality(Past(d)) + 1 <= Cardinality(Past(d)')
  <2>1. IsFiniteSet(Past(d) \cup {r}) /\ Cardinality(Past(d) \cup {r}) = Cardinality(Past(d)) + 1
    BY <1>1, <1>3, FS_AddElement
  <2>2. Past(d) \cup {r} \in SUBSET (Past(d)')
    BY <1>3
  <2>3. Cardinality(Past(d) \cup {r}) <= Cardinality(Past(d)')
    BY <1>1, <2>2, FS_Subset
  <2> QED
    BY <2>1, <2>3
<1> QED
  BY <1>1, <1>2, <1>3

LEMMA RunCount ==
  ASSUME TypeOK, CountInv, PlaceInv, NEW r \in Runs, Stepping(r)
  PROVE  CountInv'
<1> DEFINE Count(d) == Cardinality(Past(d))
<1>0. /\ \A q \in Runs : q # r => pc'[q] = pc[q] /\ seen'[q] = seen[q]
      /\ UNCHANGED manual
      /\ pc \in [Runs -> Steps] /\ DeliveryOf(r) \in Deliveries
      /\ attempts \in [Deliveries -> 0..MaxRuns] /\ posts \in [Deliveries -> 0..MaxRuns]
      /\ seen \in [Runs -> 0..MaxRuns] /\ MaxRuns \in Nat
      /\ events \in Nat
  BY RunFrame, Pairs, WebhooksAssumption DEF TypeOK
<1>1. \A q \in Runs : pc[q] \notin {"idle", "create", "read", "hook", "post"} =>
                       pc'[q] \notin {"idle", "create", "read", "hook", "post"}
  <2>1. CASE Stops(r)
    BY <1>0, <2>1, StopEffect
  <2>2. CASE Run(r) /\ ~Stops(r)
    BY <1>0, <2>2 DEF Stops, Run, CreateDelivery, ReadDelivery, ReadHook, Post, Record,
       ScheduleRetry, EndRun, Goto
  <2> QED
    BY <2>1, <2>2 DEF Stepping, Stops
<1>2. ASSUME NEW d
      PROVE  /\ Count(d) \in Nat /\ Count(d)' \in Nat /\ Count(d) <= Count(d)'
             /\ \A q : q \in Past(d)' /\ q \notin Past(d) => Count(d) + 1 <= Count(d)'
  <2>1. Past(d) \subseteq Past(d)'
    BY <1>1 DEF Past, DeliveryOf
  <2> QED
    BY <2>1, PastGrows
<1>3. pc[r] = "post" /\ pc'[r] = "record" =>
        Count(DeliveryOf(r)) + 1 <= Count(DeliveryOf(r))'
  <2>1. pc[r] = "post" /\ pc'[r] = "record" => r \in Past(DeliveryOf(r))' /\ r \notin Past(DeliveryOf(r))
    BY DEF Past, DeliveryOf
  <2>2. Cardinality(Past(DeliveryOf(r)))' = Count(DeliveryOf(r))'
    OBVIOUS
  <2> QED
    BY <1>2, <2>1 DEF DeliveryOf
<1> HIDE DEF Count
<1>4. ASSUME NEW d \in Deliveries
      PROVE  manual'[d] <= events' /\ attempts'[d] <= Count(d)' /\ posts'[d] <= Count(d)'
  <2>0. /\ manual[d] <= events /\ attempts[d] <= Count(d) /\ posts[d] <= Count(d)
        /\ manual[d] \in Nat
    BY WebhooksAssumption DEF CountInv, Count, TypeOK
  <2>1. manual'[d] <= events'
    BY <1>0, <2>0 DEF Stepping, Run, CreateDelivery, ReadDelivery, ReadHook, Post, Record,
       ScheduleRetry, EndRun, Throw, CrashRun, Same
  <2>2. CASE d # DeliveryOf(r)
    <3>1. attempts'[d] = attempts[d] /\ posts'[d] = posts[d]
      BY <2>2, DeliveryFrame
    <3> QED
      BY <1>0, <1>2, <2>0, <2>1, <3>1
  <2>3. CASE d = DeliveryOf(r) /\ Record(r)
    <3>1. seen[r] < Count(d)
      BY <2>3 DEF Record, CountInv, Count
    <3>2. attempts'[d] \in {attempts[d], seen[r] + 1} /\ UNCHANGED posts
      BY <1>0, <2>3 DEF Record, rowVars
    <3> QED
      BY <1>0, <1>2, <2>0, <2>1, <3>1, <3>2
  <2>4. CASE d = DeliveryOf(r) /\ Post(r)
    <3>1. pc[r] = "post" /\ pc'[r] = "record" /\ posts'[d] = posts[d] + 1 /\ UNCHANGED attempts
      BY <1>0, <2>4 DEF Post, rowVars, Goto
    <3>2. Count(d) + 1 <= Count(d)'
      BY <1>3, <2>4, <3>1 DEF DeliveryOf
    <3> QED
      BY <1>0, <1>2, <2>0, <2>1, <3>1, <3>2
  <2>5. CASE ~Record(r) /\ ~Post(r)
    <3>1. UNCHANGED <<attempts, posts>>
      BY <2>5 DEF Stepping, Run, CreateDelivery, ReadDelivery, ReadHook, ScheduleRetry, EndRun,
         Throw, CrashRun, rowVars
    <3> QED
      BY <1>0, <1>2, <2>0, <2>1, <3>1
  <2> QED
    BY <2>2, <2>3, <2>4, <2>5
<1>5. ASSUME NEW q \in Runs
      PROVE  /\ pc'[q] \in {"hook", "post"} => seen'[q] <= Count(DeliveryOf(q))'
             /\ pc'[q] = "record" => seen'[q] < Count(DeliveryOf(q))'
  <2>0. /\ pc[q] \in {"hook", "post"} => seen[q] <= Count(DeliveryOf(q))
        /\ pc[q] = "record" => seen[q] < Count(DeliveryOf(q))
        /\ seen[q] \in Nat /\ Count(DeliveryOf(q)) \in Nat /\ Count(DeliveryOf(q))' \in Nat
        /\ Count(DeliveryOf(q)) <= Count(DeliveryOf(q))'
    BY <1>0, <1>2 DEF CountInv, Count, DeliveryOf
  <2>1. CASE q # r
    BY <1>0, <2>0, <2>1
  <2>2. CASE q = r /\ ReadDelivery(r)
    <3>1. seen'[r] = attempts[DeliveryOf(r)] /\ pc'[r] \in {"hook", "end"}
      BY <1>0, <2>2 DEF ReadDelivery, Goto
    <3>2. attempts[DeliveryOf(r)] <= Count(DeliveryOf(r)) /\ attempts[DeliveryOf(r)] \in Nat
      BY <1>0 DEF CountInv, Count
    <3> QED
      BY <1>0, <2>0, <2>2, <3>1, <3>2
  <2>3. CASE q = r /\ CreateDelivery(r)
    <3>1. seen'[r] = 0 /\ pc'[r] = "post"
      BY <1>0, <2>3 DEF CreateDelivery, Goto, localVars, PlaceInv, RunInv
    <3> QED
      BY <2>0, <2>3, <3>1
  <2>4. CASE q = r /\ Post(r)
    <3>1. pc[r] = "post" /\ pc'[r] = "record" /\ seen'[r] = seen[r]
      BY <1>0, <2>4 DEF Post, Goto
    <3> QED
      BY <1>3, <2>0, <2>4, <3>1
  <2>5. CASE q = r /\ ~ReadDelivery(r) /\ ~CreateDelivery(r) /\ ~Post(r)
    <3>1. CASE Stops(r)
      BY <2>5, <3>1, StopEffect
    <3>2. CASE ~Stops(r)
      <4>1. /\ pc'[r] \in {"hook", "post", "record"} => pc'[r] = "post" /\ pc[r] = "hook"
            /\ seen'[r] = seen[r]
        BY <1>0, <2>5, <3>2 DEF Stepping, Stops, Run, ReadHook, Record, ScheduleRetry, EndRun,
           localVars, Goto
      <4> QED
        BY <2>0, <2>5, <4>1
    <3> QED
      BY <3>1, <3>2
  <2> QED
    BY <2>1, <2>2, <2>3, <2>4, <2>5
<1> QED
  BY <1>4, <1>5 DEF CountInv, Count, DeliveryOf

\* Nothing but the set of runs and the events' counter moves.
LEMMA StillCount ==
  ASSUME TypeOK, CountInv, UNCHANGED <<attempts, posts, seen>>, events' \in Nat,
         \A d \in Deliveries : manual'[d] <= events',
         \A d : Past(d) \subseteq Past(d)',
         \A q \in Runs : pc'[q] \in {"hook", "post", "record"} => pc'[q] = pc[q]
  PROVE  CountInv'
<1> DEFINE Count(d) == Cardinality(Past(d))
<1>0. /\ attempts \in [Deliveries -> 0..MaxRuns] /\ posts \in [Deliveries -> 0..MaxRuns]
      /\ seen \in [Runs -> 0..MaxRuns] /\ MaxRuns \in Nat
  BY WebhooksAssumption DEF TypeOK
<1>1. ASSUME NEW d PROVE Count(d) \in Nat /\ Count(d)' \in Nat /\ Count(d) <= Count(d)'
  BY PastGrows
<1> HIDE DEF Count
<1>2. ASSUME NEW d \in Deliveries PROVE attempts'[d] <= Count(d)' /\ posts'[d] <= Count(d)'
  <2>1. attempts[d] <= Count(d) /\ posts[d] <= Count(d)
    BY DEF CountInv, Count
  <2> QED
    BY <1>0, <1>1, <2>1
<1>3. ASSUME NEW q \in Runs
      PROVE  /\ pc'[q] \in {"hook", "post"} => seen'[q] <= Count(DeliveryOf(q))'
             /\ pc'[q] = "record" => seen'[q] < Count(DeliveryOf(q))'
  <2>0. /\ pc[q] \in {"hook", "post"} => seen[q] <= Count(DeliveryOf(q))
        /\ pc[q] = "record" => seen[q] < Count(DeliveryOf(q))
        /\ Count(DeliveryOf(q)) \in Nat /\ Count(DeliveryOf(q))' \in Nat
        /\ Count(DeliveryOf(q)) <= Count(DeliveryOf(q))'
    BY <1>0, <1>1 DEF CountInv, Count, DeliveryOf
  <2> QED
    BY <1>0, <2>0
<1> QED
  BY <1>2, <1>3 DEF CountInv, Count, DeliveryOf

LEMMA BeginCount ==
  ASSUME TypeOK, CountInv, PlaceInv, NEW d \in Deliveries, NEW n \in 0..MaxTickets,
         Beginning(d, n)
  PROVE  CountInv' /\ manual' \in [Deliveries -> 0..MaxEvents] /\ events' \in 0..MaxEvents
<1>1. PICK r \in Runs : Begun(r, d, n)
  BY BeginEffect
<1>0. /\ UNCHANGED <<attempts, posts, seen>>
      /\ manual \in [Deliveries -> 0..MaxEvents] /\ events \in 0..MaxEvents
      /\ pc \in [Runs -> Steps] /\ MaxEvents \in Nat
      /\ \A e \in Deliveries : manual[e] <= events
  BY BeginEffect, WebhooksAssumption DEF TypeOK, rowVars, CountInv
<1>2. /\ events' \in 0..MaxEvents /\ manual' \in [Deliveries -> 0..MaxEvents]
      /\ \A e \in Deliveries : manual'[e] <= events'
  <2>1. CASE RetryManually(d)
    <3>1. /\ events < MaxEvents /\ events' = events + 1
          /\ manual' = [manual EXCEPT ![d] = @ + 1]
      BY <2>1 DEF RetryManually
    <3>2. \A e \in Deliveries : manual'[e] \in Nat /\ manual'[e] <= events'
      BY <1>0, <3>1
    <3> QED
      BY <1>0, <3>1, <3>2
  <2>2. CASE ~RetryManually(d)
    <3>1. UNCHANGED manual /\ (events' = events \/ (events < MaxEvents /\ events' = events + 1))
      BY <2>2 DEF Beginning, Dispatch, Deliver, DeliverDuplicate
    <3>2. \A e \in Deliveries : manual'[e] <= events'
      BY <1>0, <3>1
    <3> QED
      BY <1>0, <3>1, <3>2
  <2> QED
    BY <2>1, <2>2
<1>3. \A e : Past(e) \subseteq Past(e)'
  BY <1>0, <1>1 DEF Past, DeliveryOf, Begun
<1>4. \A q \in Runs : pc'[q] \in {"hook", "post", "record"} => pc'[q] = pc[q]
  BY <1>0, <1>1 DEF Begun
<1> QED
  BY <1>0, <1>2, <1>3, <1>4, StillCount

LEMMA OutsideCount ==
  ASSUME TypeOK, CountInv, PlaceInv, Outside
  PROVE  CountInv' /\ events' \in 0..MaxEvents
<1>0. /\ UNCHANGED <<attempts, posts, seen, manual>>
      /\ manual \in [Deliveries -> 0..MaxEvents] /\ events \in 0..MaxEvents
      /\ events < MaxEvents /\ events' = events + 1 /\ MaxEvents \in Nat
      /\ \A e \in Deliveries : manual[e] <= events
  BY OutsideFrame, WebhooksAssumption DEF TypeOK, localVars, CountInv, Outside, EditHook,
     DeleteHook,
     RestartProcess
<1>1. events' \in 0..MaxEvents /\ \A e \in Deliveries : manual'[e] <= events'
  BY <1>0
<1>2. \A q \in Runs : pc'[q] = pc[q] \/ (pc'[q] = "crashed" /\ pc[q] # "idle")
  BY OutsideFrame DEF Live, Resting
<1>3. \A e : Past(e) \subseteq Past(e)'
  BY <1>2 DEF Past, DeliveryOf
<1> QED
  BY <1>0, <1>1, <1>2, <1>3, StillCount

-----------------------------------------------------------------------------
(***************************************************************************)
(* Type correctness.                                                       *)
(***************************************************************************)
LEMMA CountBound ==
  ASSUME CountInv
  PROVE  /\ \A d \in Deliveries : posts[d] \in Nat => posts[d] \in 0..MaxRuns
         /\ \A d \in Deliveries : attempts[d] \in Nat => attempts[d] \in 0..MaxRuns
         /\ \A r \in Runs : pc[r] = "record" /\ seen[r] \in Nat => seen[r] + 1 \in 0..MaxRuns
<1>1. \A d : Cardinality(Past(d)) \in 0..MaxRuns
  BY PastFinite
<1>2. MaxRuns \in Nat
  BY WebhooksAssumption
<1> QED
  BY <1>1, <1>2 DEF CountInv

LEMMA CountBoundNext ==
  ASSUME CountInv'
  PROVE  \A d \in Deliveries : posts'[d] \in Nat => posts'[d] \in 0..MaxRuns
<1>1. ASSUME NEW d PROVE Cardinality(Past(d)') \in 0..MaxRuns
  <2>1. \A r \in Past(d)' : r \in Runs /\ DeliveryOf(r) = d
    BY DEF Past, DeliveryOf, Runs
  <2>2. Past(d)' \in SUBSET Runs
    BY <2>1
  <2> QED
    BY <2>1, <2>2, FewRuns
<1>2. MaxRuns \in Nat
  BY WebhooksAssumption
<1>3. \A d \in Deliveries : posts'[d] <= Cardinality(Past(d)')
  BY DEF CountInv
<1> QED
  BY <1>1, <1>2, <1>3

LEMMA RunType ==
  ASSUME TypeOK, CountInv, CountInv', NEW r \in Runs, Stepping(r)
  PROVE  TypeOK'
<1>0. /\ TypeOK /\ MaxRuns \in Nat /\ MaxEvents \in Nat /\ MaxRetries \in Nat
      /\ DeliveryOf(r) \in Deliveries
      /\ \A d \in Deliveries : attempts[d] \in 0..MaxRuns
      /\ pc[r] = "record" => seen[r] + 1 \in 0..MaxRuns
  <2>1. seen[r] \in Nat
    BY WebhooksAssumption DEF TypeOK
  <2> QED
    BY <2>1, CountBound, Pairs, WebhooksAssumption DEF TypeOK
<1>1. /\ UNCHANGED <<runtime, limit, serves, runs, manual, overlapped>>
      /\ ok' \subseteq Runs /\ interrupted' \subseteq Deliveries /\ unscheduled' \subseteq Deliveries
  BY <1>0, RunFrame, SetsFrame DEF TypeOK
<1>2. events' \in 0..MaxEvents
  BY <1>0 DEF TypeOK, Stepping, Run, CreateDelivery, ReadDelivery, ReadHook, Post, Record,
     ScheduleRetry, EndRun, Throw, CrashRun, Same
<1>3. CASE Stops(r)
  <2>1. pc' \in [Runs -> Steps]
    BY <1>0, <1>3, StopEffect DEF TypeOK, Steps, Resting
  <2> QED
    BY <1>0, <1>1, <1>2, <1>3, <2>1, StopEffect DEF TypeOK, rowVars, localVars
<1>4. CASE Run(r) /\ ~Stops(r)
  <2>1. pc' \in [Runs -> Steps]
    BY <1>0, <1>4 DEF TypeOK, Stops, Run, CreateDelivery, ReadDelivery, ReadHook, Post, Record,
       ScheduleRetry, EndRun, Goto, Steps, Resting, Attempting
  <2>2. ticket' \in [Tickets -> TicketStates] /\ UNCHANGED tries
    BY <1>0, <1>4 DEF TypeOK, Stops, Run, CreateDelivery, ReadDelivery, ReadHook, Post, Record,
       ScheduleRetry, EndRun, TicketStates, queueVars
  <2>3. row' \in [Deliveries -> RowStates]
    BY <1>0, <1>4 DEF TypeOK, Stops, Run, CreateDelivery, ReadDelivery, ReadHook, Post, Record,
       ScheduleRetry, EndRun, RowStates, rowVars
  <2>4. attempts' \in [Deliveries -> 0..MaxRuns]
    BY <1>0, <1>4 DEF TypeOK, Stops, Run, CreateDelivery, ReadDelivery, ReadHook, Post, Record,
       ScheduleRetry, EndRun, rowVars
  <2>5. seen' \in [Runs -> 0..MaxRuns] /\ allowed' \in [Runs -> Limits \cup {0}]
    BY <1>0, <1>4 DEF TypeOK, Stops, Run, CreateDelivery, ReadDelivery, ReadHook, Post, Record,
       ScheduleRetry, EndRun, localVars
  <2>6. posts' \in [Deliveries -> 0..MaxRuns]
    <3>1. \/ UNCHANGED posts
          \/ posts' = [posts EXCEPT ![DeliveryOf(r)] = @ + 1]
      BY <1>4 DEF Stops, Run, CreateDelivery, ReadDelivery, ReadHook, Post, Record,
         ScheduleRetry, EndRun
    <3>2. \A d \in Deliveries : posts'[d] \in Nat
      BY <1>0, <3>1 DEF TypeOK
    <3>3. \A d \in Deliveries : posts'[d] \in 0..MaxRuns
      BY <3>2, CountBoundNext
    <3> QED
      BY <1>0, <3>1, <3>3 DEF TypeOK
  <2> QED
    BY <1>0, <1>1, <1>2, <2>1, <2>2, <2>3, <2>4, <2>5, <2>6 DEF TypeOK
<1> QED
  BY <1>3, <1>4 DEF Stepping, Stops

LEMMA BeginType ==
  ASSUME TypeOK, CountInv, PlaceInv, NEW d \in Deliveries, NEW n \in 0..MaxTickets,
         Beginning(d, n)
  PROVE  TypeOK'
<1>1. PICK r \in Runs : Begun(r, d, n)
  BY BeginEffect
<1>2. manual' \in [Deliveries -> 0..MaxEvents] /\ events' \in 0..MaxEvents
  BY BeginCount
<1>3. pc' \in [Runs -> Steps] /\ serves' \in [Runs -> 0..MaxTickets]
      /\ runs' \in [Deliveries -> 0..MaxRuns]
  BY <1>1, Pairs, WebhooksAssumption DEF TypeOK, Begun, Steps
<1>4. ticket' \in [Tickets -> TicketStates]
  <2>1. ticket \in [Tickets -> TicketStates] /\ "leased" \in TicketStates
    BY DEF TypeOK, TicketStates
  <2>2. \/ UNCHANGED ticket
        \/ ticket' = [ticket EXCEPT ![<<d, n>>] = "leased"]
    BY BeginEffect
  <2> QED
    BY <2>1, <2>2
<1>5. overlapped' \subseteq Deliveries
  <2>1. overlapped' \subseteq overlapped \cup {d}
    BY BeginEffect
  <2>2. overlapped \subseteq Deliveries
    BY DEF TypeOK
  <2> QED
    BY <2>1, <2>2
<1>6. /\ allowed' \in [Runs -> Limits \cup {0}]
      /\ UNCHANGED <<runtime, limit, rowVars, tries, seen, ok, posts, interrupted, unscheduled>>
  BY BeginEffect
<1> QED
  BY <1>2, <1>3, <1>4, <1>5, <1>6 DEF TypeOK, rowVars

LEMMA OutsideType ==
  ASSUME TypeOK, CountInv, PlaceInv, Outside
  PROVE  TypeOK'
<1>0. TypeOK /\ events' \in 0..MaxEvents
  BY OutsideCount
<1>1. CASE EditHook
  BY <1>0, <1>1 DEF TypeOK, EditHook, rowVars, queueVars, localVars
<1>2. CASE DeleteHook
  BY <1>0, <1>2 DEF TypeOK, DeleteHook, RowStates, queueVars, localVars
<1>3. CASE RestartProcess
  <2>1. /\ pc' \in [Runs -> Steps] /\ ticket' \in [Tickets -> TicketStates]
        /\ interrupted' \subseteq Deliveries
    BY <1>0, <1>3, Pairs DEF TypeOK, RestartProcess, Steps, Resting, TicketStates
  <2> QED
    BY <1>0, <1>3, <2>1 DEF TypeOK, RestartProcess, rowVars, localVars
<1> QED
  BY <1>1, <1>2, <1>3 DEF Outside

-----------------------------------------------------------------------------
(***************************************************************************)
(* Nothing happens to a delivery before its row is there.                  *)
(***************************************************************************)
LEMMA RunRow ==
  ASSUME TypeOK, PlaceInv, RowInv, NEW r \in Runs, Stepping(r)
  PROVE  RowInv'
<1>0. /\ DeliveryOf(r) \in Deliveries /\ Live(r)
      /\ UNCHANGED <<runs, manual, limit>>
      /\ \A q \in Runs : q # r => pc'[q] = pc[q]
      /\ row \in [Deliveries -> RowStates] /\ pc \in [Runs -> Steps]
      /\ r[2] \in 1..MaxRuns
      /\ \A d \in Deliveries : RowAt(d)
      /\ RunInv(r)
  BY Pairs, RunFrame DEF TypeOK, RowInv, PlaceInv
<1>1. row[DeliveryOf(r)] = "none" => pc[r] = "create"
  BY <1>0 DEF RowAt, OfDelivery, Live, Resting
<1>2. /\ row'[DeliveryOf(r)] = "none" => Stops(r) /\ row[DeliveryOf(r)] = "none"
      /\ limit = 0 /\ row[DeliveryOf(r)] \in {"none", "gone"} =>
           row'[DeliveryOf(r)] = row[DeliveryOf(r)]
      /\ \/ row'[DeliveryOf(r)] = row[DeliveryOf(r)]
         \/ row'[DeliveryOf(r)] # "delivered"
         \/ r \in ok'
  <2>1. CASE Stops(r)
    BY <1>0, <2>1, StopEffect DEF rowVars
  <2>2. CASE Run(r) /\ ~Stops(r)
    BY <1>0, <1>1, <2>2 DEF Stops, Run, CreateDelivery, ReadDelivery, ReadHook, Post, Record,
       ScheduleRetry, EndRun, rowVars, localVars
  <2> QED
    BY <2>1, <2>2 DEF Stepping, Stops
<1>3. ASSUME NEW d \in Deliveries, row'[d] = "none"
      PROVE  /\ posts'[d] = 0 /\ attempts'[d] = 0 /\ manual'[d] = 0
             /\ \A t \in Tickets : t[1] = d => ticket'[t] = "free"
             /\ \A q \in OfDelivery(d) : pc'[q] \in {"idle", "create", "failed", "crashed"}
  <2>1. CASE d # DeliveryOf(r)
    <3>1. /\ row'[d] = row[d] /\ posts'[d] = posts[d] /\ attempts'[d] = attempts[d]
          /\ \A t \in Tickets : t[1] = d => ticket'[t] = ticket[t]
      BY <2>1, DeliveryFrame
    <3> QED
      BY <1>0, <1>3, <2>1, <3>1 DEF RowAt, OfDelivery
  <2>2. CASE d = DeliveryOf(r)
    <3>1. Stops(r) /\ row[d] = "none"
      BY <1>2, <1>3, <2>2
    <3>2. /\ UNCHANGED <<posts, attempts>> /\ pc'[r] \in {"failed", "crashed"}
          /\ \A t \in Tickets : ticket'[t] = ticket[t] \/ ticket[t] = "leased"
      BY <3>1, StopEffect DEF rowVars
    <3> QED
      BY <1>0, <3>1, <3>2 DEF RowAt, OfDelivery
  <2> QED
    BY <2>1, <2>2
<1>4. ASSUME NEW d \in Deliveries
      PROVE  /\ runs'[d] = 0 => row'[d] = "none"
             /\ limit' = 0 => row'[d] \in {"none", "gone"}
             /\ row'[d] = "delivered" => Posted(d)' # {}
  <2>1. ok \subseteq ok' /\ (runs[d] = 0 => d # DeliveryOf(r))
    BY <1>0, SetsFrame DEF RunInv, Live, Resting
  <2>2. CASE d # DeliveryOf(r)
    <3>1. row'[d] = row[d]
      BY <2>2, DeliveryFrame
    <3> QED
      BY <1>0, <2>1, <3>1 DEF RowAt, Posted, DeliveryOf
  <2>3. CASE d = DeliveryOf(r)
    BY <1>0, <1>2, <2>1, <2>3 DEF RowAt, Posted, DeliveryOf
  <2> QED
    BY <2>2, <2>3
<1> QED
  BY <1>3, <1>4 DEF RowInv, RowAt, OfDelivery, DeliveryOf

LEMMA BeginRow ==
  ASSUME TypeOK, PlaceInv, RowInv, NEW d \in Deliveries, NEW n \in 0..MaxTickets, Beginning(d, n)
  PROVE  RowInv'
<1>1. PICK r \in Runs : Begun(r, d, n)
  BY BeginEffect
<1>0. /\ UNCHANGED <<row, attempts, posts, limit, ok>>
      /\ \A e \in Deliveries : RowAt(e)
      /\ pc \in [Runs -> Steps] /\ runs \in [Deliveries -> 0..MaxRuns] /\ MaxRuns \in Nat
      /\ manual \in [Deliveries -> 0..MaxEvents] /\ MaxTickets \in Nat
      /\ ticket \in [Tickets -> TicketStates]
      /\ \A m \in 1..MaxTickets : /\ <<d, m>> \in Tickets /\ <<d, m>>[1] = d
      /\ r[2] \in 1..MaxRuns
  BY BeginEffect, Pairs, WebhooksAssumption DEF TypeOK, RowInv, rowVars
<1>2. /\ n # 0 => n \in 1..MaxTickets /\ ticket[<<d, n>>] \in {"ready", "leased"}
      /\ n # 0 => ticket' = [ticket EXCEPT ![<<d, n>>] = "leased"]
      /\ n = 0 => UNCHANGED ticket
  BY <1>0, BeginEffect
<1>3. row[d] = "none" => /\ n = 0 /\ UNCHANGED manual
                         /\ pc'[r] = "create"
  <2>1. row[d] = "none" => n = 0
    BY <1>0, <1>2 DEF RowAt
  <2>2. row[d] = "none" => Dispatch(d)
    BY <1>0, <2>1 DEF Beginning, RetryManually
  <2>3. Dispatch(d) => pc'[r] = "create" /\ UNCHANGED manual
    <3>1. ASSUME Dispatch(d) PROVE pc'[r] = "create" /\ UNCHANGED manual
      <4>1. r = <<d, runs[d] + 1>>
        BY <1>1, Pairs DEF Begun
      <4>2. pc' = [pc EXCEPT ![<<d, runs[d] + 1>>] = "create"] /\ UNCHANGED manual
        BY <3>1 DEF Dispatch, BeginRun, Goto
      <4> QED
        BY <1>0, <4>1, <4>2
    <3> QED
      BY <3>1
  <2> QED
    BY <2>1, <2>2, <2>3
<1>4. ASSUME NEW e \in Deliveries, row'[e] = "none"
      PROVE  /\ posts'[e] = 0 /\ attempts'[e] = 0 /\ manual'[e] = 0
             /\ \A t \in Tickets : t[1] = e => ticket'[t] = "free"
             /\ \A q \in OfDelivery(e) : pc'[q] \in {"idle", "create", "failed", "crashed"}
  <2>0. /\ row[e] = "none" /\ posts[e] = 0 /\ attempts[e] = 0 /\ manual[e] = 0
        /\ \A t \in Tickets : t[1] = e => ticket[t] = "free"
        /\ \A q \in OfDelivery(e) : pc[q] \in {"idle", "create", "failed", "crashed"}
    BY <1>0, <1>4 DEF RowAt
  <2>1. CASE e = d
    BY <1>0, <1>1, <1>2, <1>3, <2>0, <2>1 DEF Begun, OfDelivery
  <2>2. CASE e # d
    <3>1. manual'[e] = manual[e]
      BY <1>0, <2>2 DEF Beginning, Dispatch, RetryManually, Deliver, DeliverDuplicate
    <3>2. \A t \in Tickets : t[1] = e => ticket'[t] = ticket[t]
      BY <1>0, <1>2, <2>2
    <3>3. \A q \in OfDelivery(e) : pc'[q] = pc[q]
      BY <1>0, <1>1, <2>2 DEF Begun, OfDelivery
    <3> QED
      BY <1>0, <2>0, <3>1, <3>2, <3>3
  <2> QED
    BY <2>1, <2>2
<1>5. \A e \in Deliveries : runs'[e] = 0 => row'[e] = "none"
  <2>1. \A e \in Deliveries : runs'[e] = 0 => runs[e] = 0
    BY <1>0, <1>1 DEF Begun
  <2> QED
    BY <1>0, <2>1 DEF RowAt
<1> QED
  BY <1>0, <1>4, <1>5 DEF RowInv, RowAt, OfDelivery, Posted, DeliveryOf

LEMMA OutsideRow ==
  ASSUME TypeOK, PlaceInv, RowInv, Outside
  PROVE  RowInv'
<1>1. ASSUME NEW d \in Deliveries PROVE RowAt(d)'
  <2>0. /\ RowAt(d) /\ UNCHANGED <<attempts, posts, manual, runs, ok>>
        /\ limit \in Limits \cup {0} /\ limit' \in Limits \cup {0}
        /\ row'[d] = row[d] \/ (row[d] # "none" /\ row'[d] = "gone")
        /\ limit' = 0 /\ limit # 0 => row'[d] \in {"none", "gone"}
        /\ \A t \in Tickets : ticket[t] = "free" <=> ticket'[t] = "free"
        /\ \A r \in Runs : pc'[r] = pc[r] \/ pc'[r] = "crashed"
    BY OutsideFrame DEF TypeOK, RowInv, localVars
  <2> QED
    BY <2>0 DEF RowAt, OfDelivery, Posted, DeliveryOf
<1> QED
  BY <1>1 DEF RowInv

-----------------------------------------------------------------------------
(***************************************************************************)
(* What can still lead to a post.                                          *)
(***************************************************************************)
LEMMA ChainSets ==
  ASSUME NEW S \in SUBSET (0..MaxTickets), NEW T \in SUBSET (0..MaxTickets)
  PROVE  /\ Cardinality(S) \in Nat /\ Cardinality(T) \in Nat
         /\ S \subseteq T => Cardinality(S) <= Cardinality(T)
         /\ \A k \in T : S \subseteq T /\ k \notin S => Cardinality(S) + 1 <= Cardinality(T)
         /\ \A m : S \subseteq T \cup {m} => Cardinality(S) <= Cardinality(T) + 1
         /\ \A k \in T : \A m : S \subseteq T \cup {m} /\ k \notin S => Cardinality(S) <= Cardinality(T)
<1>1. IsFiniteSet(S) /\ IsFiniteSet(T) /\ Cardinality(S) \in Nat /\ Cardinality(T) \in Nat
  BY ChainsFinite
<1>2. S \subseteq T => Cardinality(S) <= Cardinality(T)
  BY <1>1, FS_Subset
<1>3. ASSUME NEW k \in T
      PROVE  /\ IsFiniteSet(T \ {k}) /\ Cardinality(T \ {k}) = Cardinality(T) - 1
  BY <1>1, FS_RemoveElement
<1>4. ASSUME NEW U, IsFiniteSet(U), NEW m
      PROVE  /\ IsFiniteSet(U \cup {m}) /\ Cardinality(U) \in Nat
             /\ Cardinality(U \cup {m}) \in {Cardinality(U), Cardinality(U) + 1}
  BY <1>4, FS_AddElement, FS_CardinalityType
<1>5. ASSUME NEW k \in T, S \subseteq T, k \notin S
      PROVE  Cardinality(S) + 1 <= Cardinality(T)
  <2>1. S \in SUBSET (T \ {k})
    BY <1>5
  <2>2. Cardinality(S) <= Cardinality(T \ {k})
    BY <1>3, <2>1, FS_Subset
  <2> QED
    BY <1>1, <1>3, <2>2
<1>6. ASSUME NEW m, S \subseteq T \cup {m}
      PROVE  Cardinality(S) <= Cardinality(T) + 1
  <2>1. IsFiniteSet(T \cup {m}) /\ Cardinality(T \cup {m}) \in {Cardinality(T), Cardinality(T) + 1}
    BY <1>1, <1>4
  <2>2. Cardinality(S) <= Cardinality(T \cup {m})
    BY <1>6, <2>1, FS_Subset
  <2> QED
    BY <1>1, <2>1, <2>2
<1>7. ASSUME NEW k \in T, NEW m, S \subseteq T \cup {m}, k \notin S
      PROVE  Cardinality(S) <= Cardinality(T)
  <2>1. /\ IsFiniteSet((T \ {k}) \cup {m})
        /\ Cardinality((T \ {k}) \cup {m}) \in {Cardinality(T \ {k}), Cardinality(T \ {k}) + 1}
    BY <1>3, <1>4
  <2>2. S \in SUBSET ((T \ {k}) \cup {m})
    BY <1>7
  <2>3. Cardinality(S) <= Cardinality((T \ {k}) \cup {m})
    BY <2>1, <2>2, FS_Subset
  <2> QED
    BY <1>1, <1>3, <2>1, <2>3
<1> QED
  BY <1>1, <1>2, <1>5, <1>6, <1>7

LEMMA ChainTypes ==
  ASSUME NEW d
  PROVE  Chains(d) \in SUBSET (0..MaxTickets) /\ Chains(d)' \in SUBSET (0..MaxTickets)
BY DEF Chains

\* The chain of a run that is at work is open.
LEMMA ChainOf ==
  ASSUME TypeOK, NEW r \in Runs, SoloAt(DeliveryOf(r)), Working(r)
  PROVE  serves[r] \in Chains(DeliveryOf(r))
<1>0. serves[r] \in 0..MaxTickets /\ r \in OfDelivery(DeliveryOf(r))
  BY DEF TypeOK, OfDelivery
<1>1. CASE serves[r] = 0
  BY <1>0, <1>1 DEF Chains, Serving
<1>2. CASE serves[r] # 0
  <2>1. /\ ticket[TicketOf(r)] = "leased" /\ TicketOf(r) = <<DeliveryOf(r), serves[r]>>
        /\ \A q \in OfDelivery(DeliveryOf(r)) : Live(q) /\ serves[q] = serves[r] => q = r
    BY <1>0, <1>2 DEF SoloAt, Working, TicketOf
  <2>2. ~Spent(DeliveryOf(r), serves[r])
    BY <2>1 DEF Spent, Live, Resting, Working
  <2> QED
    BY <1>0, <1>2, <2>1, <2>2 DEF Chains, Waiting
<1> QED
  BY <1>1, <1>2

\* Nothing of the delivery moves.
Still(d) ==
  /\ \A r \in OfDelivery(d) : pc'[r] = pc[r] /\ serves'[r] = serves[r] /\ seen'[r] = seen[r]
  /\ \A n \in 1..MaxTickets : ticket'[<<d, n>>] = ticket[<<d, n>>]
  /\ posts'[d] = posts[d] /\ attempts'[d] = attempts[d] /\ manual'[d] = manual[d]

LEMMA StillChains ==
  ASSUME TypeOK, NEW d \in Deliveries, Still(d)
  PROVE  Chains(d)' = Chains(d) /\ Debt(d)' = Debt(d) /\ Open(d)' = Open(d)
<1>1. OfDelivery(d)' = OfDelivery(d)
  BY DEF OfDelivery, DeliveryOf, Runs
<1>2. \A n \in 0..MaxTickets : n = 0 \/ n \in 1..MaxTickets
  BY WebhooksAssumption
<1>3. \A n \in 0..MaxTickets : /\ Serving(d, n)' <=> Serving(d, n)
                               /\ Spent(d, n)' <=> Spent(d, n)
  BY <1>1 DEF Still, Serving, Spent, Working, Live
<1>4. Recording(d)' <=> Recording(d)
  BY <1>1 DEF Still, Recording
<1>5. \A n \in 0..MaxTickets : (IF n = 0 THEN Serving(d, 0) ELSE Waiting(d, n))'
                                <=> (IF n = 0 THEN Serving(d, 0) ELSE Waiting(d, n))
  BY <1>2, <1>3 DEF Waiting, Still
<1>6. Chains(d)' = Chains(d)
  BY <1>5 DEF Chains
<1> QED
  BY <1>4, <1>6 DEF Debt, Open

LEMMA StillSolo ==
  ASSUME TypeOK, NEW d \in Deliveries, Still(d), SoloAt(d), row'[d] = row[d] \/ row'[d] = "gone"
  PROVE  SoloAt(d)'
<1>1. Chains(d)' = Chains(d) /\ Debt(d)' = Debt(d) /\ Open(d)' = Open(d)
  BY StillChains
<1>2. OfDelivery(d)' = OfDelivery(d)
  BY DEF OfDelivery, DeliveryOf, Runs
<1>3. \A r \in OfDelivery(d) : /\ Live(r)' <=> Live(r)
                               /\ Working(r)' <=> Working(r)
                               /\ serves'[r] = serves[r]
                               /\ TicketOf(r) = <<d, serves[r]>> /\ TicketOf(r)' = <<d, serves[r]>>
                               /\ serves[r] # 0 => serves[r] \in 1..MaxTickets
  BY TicketOfType DEF Still, Live, Working, TicketOf, OfDelivery
<1>4. \A r \in OfDelivery(d) : Live(r)' /\ serves'[r] # 0 =>
         /\ ticket'[TicketOf(r)'] = "leased"
         /\ \A q \in OfDelivery(d) : Live(q)' /\ serves'[q] = serves'[r] => q = r
  BY <1>3 DEF SoloAt, Still
<1>5. /\ \A q, r \in OfDelivery(d) : Working(q)' /\ Working(r)' => q = r
      /\ row'[d] # "gone" => posts'[d] = attempts'[d] + Debt(d)'
      /\ \A r \in OfDelivery(d) :
           /\ pc'[r] \in {"hook", "post"} => posts'[d] = seen'[r]
           /\ pc'[r] \in {"record", "schedule"} => posts'[d] = seen'[r] + 1
      /\ Open(d)' <= 1 + manual'[d]
      /\ \E n \in Limits : posts'[d] + Open(d)' <= n + manual'[d] + Debt(d)'
  BY <1>1, <1>3 DEF SoloAt, Still
<1> QED
  BY <1>2, <1>4, <1>5 DEF SoloAt

\* A step of a run opens at most one chain, by ScheduleRetry, and closes its own at the end.
LEMMA StepChains ==
  ASSUME TypeOK, NEW r \in Runs, Stepping(r), SoloAt(DeliveryOf(r)),
         DeliveryOf(r) \notin interrupted'
  PROVE  /\ ~ScheduleRetry(r) => Chains(DeliveryOf(r))' \subseteq Chains(DeliveryOf(r))
         /\ \E m : Chains(DeliveryOf(r))' \subseteq Chains(DeliveryOf(r)) \cup {m}
         /\ pc'[r] = "end" => serves[r] \notin Chains(DeliveryOf(r))'
<1> DEFINE d == DeliveryOf(r)
<1>0. /\ d \in Deliveries /\ MaxTickets \in Nat
      /\ \A q \in Runs : q # r => pc'[q] = pc[q]
      /\ UNCHANGED serves /\ Live(r) /\ pc \in [Runs -> Steps] /\ r \in OfDelivery(d)
      /\ OfDelivery(d)' = OfDelivery(d) /\ OfDelivery(d) \subseteq Runs
      /\ \A m \in 1..MaxTickets : /\ <<d, m>> \in Tickets /\ <<d, m>>[1] = d
      /\ ticket \in [Tickets -> TicketStates] /\ serves[r] \in 0..MaxTickets
  BY RunFrame, Pairs, WebhooksAssumption DEF TypeOK, OfDelivery, DeliveryOf, Runs
<1>1. /\ pc[r] # "end" \/ (EndRun(r) /\ pc'[r] = "done")
      /\ Working(r)' => Working(r)
      /\ pc'[r] = "end" => Working(r)
  <2>1. CASE Stops(r)
    <3>1. pc[r] # "end"
      BY <2>1, StopEffect DEF Attempting
    <3> QED
      BY <1>0, <2>1, <3>1, StopEffect DEF Working, Live, Resting
  <2>2. CASE Run(r) /\ ~Stops(r)
    BY <1>0, <2>2 DEF Stops, Run, CreateDelivery, ReadDelivery, ReadHook, Post, Record,
       ScheduleRetry, EndRun, Goto, Working, Live, Resting
  <2> QED
    BY <2>1, <2>2 DEF Stepping, Stops
<1>2. \E m : /\ \A n \in 1..MaxTickets : n # m /\ ticket[<<d, n>>] \in {"free", "acked"} =>
                   ticket'[<<d, n>>] = ticket[<<d, n>>]
             /\ ~ScheduleRetry(r) => m = 0
  <2>1. CASE Stops(r)
    <3>1. \A n \in 1..MaxTickets : ticket[<<d, n>>] \in {"free", "acked"} =>
              ticket'[<<d, n>>] = ticket[<<d, n>>]
      BY <1>0, <2>1, StopEffect
    <3> QED
      BY <3>1
  <2>2. CASE ScheduleRetry(r)
    <3>1. PICK t : \A u \in Tickets : u # t => ticket'[u] = ticket[u]
      BY <1>0, <2>2 DEF ScheduleRetry
    <3>2. \A n \in 1..MaxTickets : n # t[2] => <<d, n>> # t
      OBVIOUS
    <3> QED
      BY <1>0, <2>2, <3>1, <3>2
  <2>3. CASE Run(r) /\ ~Stops(r) /\ ~ScheduleRetry(r)
    <3>1. ticket' = ticket \/ (EndRun(r) /\ \A u \in Tickets : ticket'[u] = ticket[u] \/ ticket[u] = "leased")
      BY <1>0, <2>3 DEF Stops, Run, CreateDelivery, ReadDelivery, ReadHook, Post, Record, EndRun,
         queueVars
    <3>2. \A n \in 1..MaxTickets : ticket[<<d, n>>] \in {"free", "acked"} =>
              ticket'[<<d, n>>] = ticket[<<d, n>>]
      BY <1>0, <3>1
    <3> QED
      BY <3>2
  <2> QED
    BY <2>1, <2>2, <2>3 DEF Stepping, Stops
<1>3. PICK m : /\ \A n \in 1..MaxTickets : n # m /\ ticket[<<d, n>>] \in {"free", "acked"} =>
                     ticket'[<<d, n>>] = ticket[<<d, n>>]
               /\ ~ScheduleRetry(r) => m = 0
  BY <1>2
<1>4. Serving(d, 0)' => Serving(d, 0)
  BY <1>0, <1>1 DEF Serving, Working, Live
<1>5. ASSUME NEW n \in 1..MaxTickets, n # m, Waiting(d, n)'
      PROVE  Waiting(d, n)
  <2>1. ticket[<<d, n>>] \notin {"free", "acked"}
    BY <1>3, <1>5 DEF Waiting
  <2>2. ASSUME NEW q \in OfDelivery(d), pc[q] = "end", serves[q] = n
        PROVE  FALSE
    <3>1. CASE q # r
      BY <1>0, <1>5, <2>2, <3>1 DEF Waiting, Spent
    <3>2. CASE q = r
      <4>1. EndRun(r)
        BY <1>1, <2>2, <3>2
      <4>2. serves[r] # 0 /\ ticket[TicketOf(r)] = "leased" /\ TicketOf(r) = <<d, n>>
        BY <1>0, <2>2, <3>2 DEF SoloAt, TicketOf
      <4>3. ticket'[<<d, n>>] = "acked"
        BY <1>0, <4>1, <4>2 DEF EndRun
      <4> QED
        BY <1>5, <4>3 DEF Waiting
    <3> QED
      BY <3>1, <3>2
  <2> QED
    BY <2>1, <2>2 DEF Waiting, Spent
<1>6. \A n \in 0..MaxTickets : n \in Chains(d)' /\ n # m => n \in Chains(d)
  BY <1>0, <1>4, <1>5 DEF Chains
<1>7. ~ScheduleRetry(r) => \A n \in 0..MaxTickets : n \in Chains(d)' => n \in Chains(d)
  <2>1. 0 \in Chains(d)' => 0 \in Chains(d)
    BY <1>0, <1>4 DEF Chains
  <2> QED
    BY <1>3, <1>6, <2>1
<1>8. ASSUME pc'[r] = "end" PROVE serves[r] \notin Chains(d)'
  <2>1. CASE serves[r] = 0
    <3>1. ASSUME NEW q \in OfDelivery(d), Working(q)', serves'[q] = 0 PROVE FALSE
      <4>1. q # r
        BY <1>8, <3>1 DEF Working
      <4>2. Working(q) /\ Working(r)
        BY <1>0, <1>1, <1>8, <3>1, <4>1 DEF Working, Live
      <4> QED
        BY <1>0, <3>1, <4>1, <4>2 DEF SoloAt
    <3>2. ~Serving(d, 0)'
      BY <1>0, <3>1 DEF Serving
    <3> QED
      BY <1>0, <2>1, <3>2 DEF Chains
  <2>2. CASE serves[r] # 0
    <3>1. Spent(d, serves[r])'
      BY <1>0, <1>8 DEF Spent
    <3> QED
      BY <1>0, <2>2, <3>1 DEF Chains, Waiting
  <2> QED
    BY <2>1, <2>2
<1>9. /\ \A n \in Chains(d)' : n \in 0..MaxTickets
      /\ \A n \in Chains(d) : n \in 0..MaxTickets
  BY DEF Chains
<1>10. Chains(d)' \subseteq Chains(d) \cup {m}
  BY <1>6, <1>9
<1>11. ~ScheduleRetry(r) => Chains(d)' \subseteq Chains(d)
  BY <1>7, <1>9
<1> QED
  BY <1>8, <1>10, <1>11 DEF DeliveryOf

-----------------------------------------------------------------------------
(***************************************************************************)
(* An undisturbed delivery has one run at work, and its posts are counted. *)
(***************************************************************************)
LEMMA RunApart ==
  ASSUME TypeOK, NEW r \in Runs, Stepping(r), SoloAt(DeliveryOf(r))
  PROVE  /\ \A q, s \in OfDelivery(DeliveryOf(r))' : Working(q)' /\ Working(s)' => q = s
         /\ \A q \in OfDelivery(DeliveryOf(r))' : Live(q)' /\ serves'[q] # 0 =>
              /\ ticket'[TicketOf(q)'] = "leased"
              /\ \A s \in OfDelivery(DeliveryOf(r))' : Live(s)' /\ serves'[s] = serves'[q] => s = q
<1> DEFINE d == DeliveryOf(r)
<1>0. /\ \A q \in Runs : q # r => pc'[q] = pc[q]
      /\ UNCHANGED serves /\ Live(r) /\ r \in OfDelivery(d)
      /\ OfDelivery(d)' = OfDelivery(d) /\ OfDelivery(d) \subseteq Runs
      /\ ticket \in [Tickets -> TicketStates] /\ pc \in [Runs -> Steps]
      /\ \A q \in Runs : TicketOf(q)' = TicketOf(q)
      /\ \A q \in Runs : serves[q] # 0 =>
           /\ TicketOf(q) \in Tickets
           /\ TicketOf(q) = <<DeliveryOf(q), serves[q]>>
  BY RunFrame, TicketOfType DEF TypeOK, OfDelivery, DeliveryOf, Runs, TicketOf
<1>1. /\ Working(r)' => Working(r)
      /\ \A u \in Tickets : ticket[u] = "leased" /\ ticket'[u] # "leased" =>
           u = TicketOf(r) /\ serves[r] # 0 /\ ~Live(r)'
  <2>1. CASE Stops(r)
    BY <1>0, <2>1, StopEffect DEF Working, Live, Resting
  <2>2. CASE Run(r) /\ ~Stops(r)
    BY <1>0, <2>2 DEF Stops, Run, CreateDelivery, ReadDelivery, ReadHook, Post, Record,
       ScheduleRetry, EndRun, Goto, Working, Live, Resting, queueVars
  <2> QED
    BY <2>1, <2>2 DEF Stepping, Stops
<1>2. \A q \in OfDelivery(d) : /\ Working(q)' => Working(q)
                               /\ Live(q)' => Live(q)
  BY <1>0, <1>1 DEF Working, Live
<1>3. ASSUME NEW q \in OfDelivery(d), Live(q)', serves'[q] # 0
      PROVE  /\ ticket'[TicketOf(q)'] = "leased"
             /\ \A s \in OfDelivery(d) : Live(s)' /\ serves'[s] = serves'[q] => s = q
  <2>1. /\ Live(q) /\ serves[q] # 0 /\ ticket[TicketOf(q)] = "leased"
        /\ \A s \in OfDelivery(d) : Live(s) /\ serves[s] = serves[q] => s = q
    BY <1>0, <1>2, <1>3 DEF SoloAt
  <2>2. TicketOf(q) \in Tickets /\ TicketOf(q)' = TicketOf(q)
    BY <1>0, <2>1
  <2>3. ticket'[TicketOf(q)] = "leased"
    <3>1. CASE q = r
      BY <1>1, <1>3, <2>1, <2>2, <3>1
    <3>2. CASE q # r
      <4>1. serves[r] # 0 => serves[r] # serves[q]
        BY <1>0, <2>1, <3>2
      <4>2. serves[r] # 0 => TicketOf(q) # TicketOf(r)
        BY <1>0, <2>1, <4>1
      <4> QED
        BY <1>1, <2>1, <2>2, <4>2
    <3> QED
      BY <3>1, <3>2
  <2> QED
    BY <1>0, <1>2, <2>1, <2>2, <2>3
<1>4. \A q, s \in OfDelivery(d) : Working(q)' /\ Working(s)' => q = s
  BY <1>2 DEF SoloAt
<1> QED
  BY <1>0, <1>3, <1>4

LEMMA RunSolo ==
  ASSUME TypeOK, PlaceInv, RowInv, NEW r \in Runs, Stepping(r), SoloAt(DeliveryOf(r)),
         DeliveryOf(r) \notin interrupted'
  PROVE  SoloAt(DeliveryOf(r))'
<1>d. PICK d \in Deliveries : d = DeliveryOf(r)
  BY Pairs
<1>0. /\ DeliveryOf(r)' = d /\ r \in OfDelivery(d)
      /\ \A q \in Runs : q # r => pc'[q] = pc[q] /\ seen'[q] = seen[q]
      /\ UNCHANGED <<serves, manual>> /\ Live(r)
      /\ OfDelivery(d)' = OfDelivery(d) /\ OfDelivery(d) \subseteq Runs
      /\ pc \in [Runs -> Steps] /\ SoloAt(d) /\ row \in [Deliveries -> RowStates]
      /\ posts[d] \in Nat /\ attempts[d] \in Nat /\ manual[d] \in Nat /\ seen[r] \in Nat
      /\ posts \in [Deliveries -> 0..MaxRuns] /\ attempts \in [Deliveries -> 0..MaxRuns]
      /\ seen \in [Runs -> 0..MaxRuns]
      /\ Limits \subseteq Nat \ {0}
      /\ RunInv(r) /\ RowAt(d)
  BY <1>d, RunFrame, WebhooksAssumption
     DEF TypeOK, OfDelivery, DeliveryOf, Runs, PlaceInv, RowInv
<1>1. Open(d) \in Nat /\ Open(d)' \in Nat
  BY ChainTypes, ChainSets DEF Open
<1>2. /\ ~ScheduleRetry(r) => Open(d)' <= Open(d)
      /\ pc'[r] = "end" /\ Working(r) => Open(d)' <= Open(d)
      /\ pc'[r] = "end" /\ Working(r) /\ ~ScheduleRetry(r) => Open(d)' + 1 <= Open(d)
  <2>1. /\ ~ScheduleRetry(r) => Chains(d)' \subseteq Chains(d)
        /\ \E m : Chains(d)' \subseteq Chains(d) \cup {m}
        /\ pc'[r] = "end" => serves[r] \notin Chains(d)'
    BY <1>d, StepChains DEF DeliveryOf
  <2>2. Working(r) => serves[r] \in Chains(d)
    BY <1>d, ChainOf
  <2>3. Chains(d) \in SUBSET (0..MaxTickets) /\ Chains(d)' \in SUBSET (0..MaxTickets)
    BY ChainTypes
  <2>4. Open(d) = Cardinality(Chains(d)) /\ Open(d)' = Cardinality(Chains(d)')
    BY DEF Open
  <2> DEFINE S == Chains(d)'  T == Chains(d)
  <2> HIDE DEF S, T
  <2>5. /\ S \subseteq T => Cardinality(S) <= Cardinality(T)
        /\ \A k \in T : S \subseteq T /\ k \notin S => Cardinality(S) + 1 <= Cardinality(T)
        /\ \A k \in T : \A m : S \subseteq T \cup {m} /\ k \notin S => Cardinality(S) <= Cardinality(T)
    BY <2>3, ChainSets DEF S, T
  <2> QED
    BY <2>1, <2>2, <2>4, <2>5 DEF S, T
<1>3. ASSUME Working(r)
      PROVE  \A q \in OfDelivery(d) : q # r =>
               pc[q] \notin {"create", "read", "hook", "post", "record", "schedule"}
  BY <1>0, <1>3 DEF SoloAt, Working, Live, Resting
<1>4. /\ Debt(d) = IF pc[r] = "record" THEN 1 ELSE IF Working(r) THEN 0 ELSE Debt(d)
      /\ Debt(d)' = IF pc'[r] = "record" THEN 1 ELSE IF Working(r) THEN 0 ELSE Debt(d)
      /\ Debt(d) \in {0, 1} /\ Debt(d)' \in {0, 1}
      /\ Working(r) \/ EndRun(r)
      /\ EndRun(r) => pc'[r] = "done"
  <2>1. /\ \A q \in OfDelivery(d) : q # r => pc'[q] = pc[q]
        /\ Working(r) \/ (EndRun(r) /\ pc[r] = "end")
        /\ EndRun(r) => pc'[r] = "done"
    BY <1>0, <1>d, StopEffect DEF Working, Stepping, Stops, Run, CreateDelivery, ReadDelivery,
       ReadHook, Post, Record, ScheduleRetry, EndRun, Throw, CrashRun, Stop, Attempting, Goto
  <2>2. Recording(d)' <=> \E q \in OfDelivery(d) : pc'[q] = "record"
    BY <1>0 DEF Recording
  <2> QED
    BY <1>0, <1>3, <2>1, <2>2 DEF Debt, Recording, Working
<1>5. /\ row'[d] # "gone" => posts'[d] = attempts'[d] + Debt(d)'
      /\ pc'[r] \in {"hook", "post"} => posts'[d] = seen'[r]
      /\ pc'[r] \in {"record", "schedule"} => posts'[d] = seen'[r] + 1
      /\ posts'[d] # posts[d] => Working(r)
      /\ Open(d)' <= 1 + manual[d]
      /\ \E n \in Limits : posts'[d] + Open(d)' <= n + manual[d] + Debt(d)'
  <2>0. /\ row[d] # "gone" => posts[d] = attempts[d] + Debt(d)
        /\ pc[r] \in {"hook", "post"} => posts[d] = seen[r]
        /\ pc[r] \in {"record", "schedule"} => posts[d] = seen[r] + 1
        /\ Open(d) <= 1 + manual[d]
    BY <1>0 DEF SoloAt
  <2>n. PICK n \in Limits : posts[d] + Open(d) <= n + manual[d] + Debt(d)
    BY <1>0 DEF SoloAt
  <2>m. n \in Nat
    BY <1>0
  <2>1. CASE Stops(r)
    <3>1. /\ UNCHANGED <<row, attempts, posts, seen>> /\ pc'[r] \in {"failed", "crashed"}
          /\ pc[r] \notin Attempting /\ ~ScheduleRetry(r)
      BY <1>0, <1>d, <2>1, StopEffect DEF rowVars, localVars, ScheduleRetry, Attempting
    <3>2. Open(d)' <= Open(d) /\ Debt(d)' = 0 /\ Debt(d) = 0
      BY <1>2, <1>4, <3>1 DEF Working, Live, Attempting, EndRun
    <3> QED
      BY <1>0, <1>1, <2>0, <2>n, <2>m, <3>1, <3>2
  <2>2. CASE CreateDelivery(r)
    <3>1. /\ UNCHANGED <<attempts, posts, seen>> /\ pc'[r] = "post" /\ pc[r] = "create"
          /\ ~ScheduleRetry(r)
      BY <1>0, <2>2 DEF CreateDelivery, ScheduleRetry, localVars, Goto
    <3>2. posts[d] = 0 /\ attempts[d] = 0 /\ seen[r] = 0
      BY <1>0, <1>d, <3>1 DEF RunInv, RowAt
    <3>3. Open(d)' <= Open(d) /\ Debt(d)' = 0 /\ Debt(d) = 0
      BY <1>2, <1>4, <3>1 DEF EndRun
    <3> QED
      BY <1>0, <1>1, <2>0, <2>n, <2>m, <3>1, <3>2, <3>3
  <2>3. CASE ReadDelivery(r)
    <3>1. /\ UNCHANGED <<row, attempts, posts>> /\ pc'[r] \in {"hook", "end"} /\ pc[r] = "read"
          /\ seen'[r] = attempts[d] /\ (pc'[r] = "hook" => row[d] # "gone")
          /\ ~ScheduleRetry(r)
      BY <1>0, <1>d, <2>3 DEF ReadDelivery, ScheduleRetry, rowVars, Goto
    <3>2. Open(d)' <= Open(d) /\ Debt(d)' = 0 /\ Debt(d) = 0
      BY <1>2, <1>4, <3>1 DEF EndRun
    <3> QED
      BY <1>0, <1>1, <2>0, <2>n, <2>m, <3>1, <3>2
  <2>4. CASE ReadHook(r)
    <3>1. /\ UNCHANGED <<row, attempts, posts, seen>> /\ pc'[r] \in {"post", "end"}
          /\ pc[r] = "hook" /\ ~ScheduleRetry(r)
      BY <1>0, <2>4 DEF ReadHook, ScheduleRetry, rowVars, Goto
    <3>2. Open(d)' <= Open(d) /\ Debt(d)' = 0 /\ Debt(d) = 0
      BY <1>2, <1>4, <3>1 DEF EndRun
    <3> QED
      BY <1>0, <1>1, <2>0, <2>n, <2>m, <3>1, <3>2
  <2>5. CASE Post(r)
    <3>1. /\ UNCHANGED <<row, attempts, seen>> /\ pc'[r] = "record" /\ pc[r] = "post"
          /\ posts'[d] = posts[d] + 1 /\ ~ScheduleRetry(r)
      BY <1>0, <1>d, <2>5 DEF Post, ScheduleRetry, rowVars, Goto
    <3>2. Open(d)' <= Open(d) /\ Debt(d)' = 1 /\ Debt(d) = 0 /\ Working(r)
      BY <1>2, <1>4, <3>1 DEF EndRun
    <3> QED
      BY <1>0, <1>1, <2>0, <2>n, <2>m, <3>1, <3>2
  <2>6. CASE Record(r)
    <3>1. /\ UNCHANGED <<posts, seen>> /\ pc'[r] \in {"schedule", "end"} /\ pc[r] = "record"
          /\ row'[d] # "gone" => attempts'[d] = seen[r] + 1
          /\ pc'[r] = "schedule" => seen[r] + 1 < allowed[r] /\ allowed[r] \in Limits
          /\ ~ScheduleRetry(r)
      BY <1>0, <1>d, <2>6 DEF Record, CanRetry, RunInv, ScheduleRetry, rowVars, localVars, Goto
    <3>2. Open(d)' <= Open(d) /\ Debt(d)' = 0 /\ Debt(d) = 1 /\ Working(r)
          /\ (pc'[r] = "end" => Open(d)' + 1 <= Open(d))
      BY <1>2, <1>4, <3>1 DEF EndRun
    <3>3. \E k \in Limits : posts[d] + Open(d)' <= k + manual[d]
      <4>1. CASE pc'[r] = "end"
        BY <1>0, <1>1, <2>n, <2>m, <3>2, <4>1
      <4>2. CASE pc'[r] = "schedule"
        <5>1. seen[r] + 1 < allowed[r] /\ allowed[r] \in Limits /\ allowed[r] \in Nat
          BY <1>0, <3>1, <4>2
        <5>2. posts[d] + Open(d)' <= allowed[r] + manual[d]
          BY <1>0, <1>1, <2>0, <3>1, <3>2, <5>1
        <5> QED
          BY <5>1, <5>2
      <4> QED
        BY <3>1, <4>1, <4>2
    <3> QED
      <4>1. PICK k \in Limits : posts[d] + Open(d)' <= k + manual[d]
        BY <3>3
      <4>2. k \in Nat /\ posts'[d] + Open(d)' <= k + manual[d] + Debt(d)'
        <5>1. k \in Nat /\ manual[d] \in Nat /\ posts'[d] = posts[d] /\ Debt(d)' = 0
          BY <1>0, <3>1, <3>2
        <5> QED
          BY <4>1, <5>1
      <4>3. row'[d] # "gone" => posts'[d] = attempts'[d] + Debt(d)'
        BY <1>0, <2>0, <3>1, <3>2
      <4>4. /\ pc'[r] \in {"record", "schedule"} => posts'[d] = seen'[r] + 1
            /\ pc'[r] \notin {"hook", "post"} /\ posts'[d] = posts[d]
        BY <2>0, <3>1
      <4>5. Open(d)' <= 1 + manual[d]
        BY <1>0, <1>1, <2>0, <3>2
      <4> QED
        BY <4>1, <4>2, <4>3, <4>4, <4>5
  <2>7. CASE ScheduleRetry(r)
    <3>1. /\ UNCHANGED <<row, attempts, posts, seen>> /\ pc'[r] = "end" /\ pc[r] = "schedule"
      BY <1>0, <2>7 DEF ScheduleRetry, rowVars, localVars, Goto
    <3>2. Working(r)
      BY <1>0, <3>1 DEF Working
    <3>3. Open(d)' <= Open(d) /\ Debt(d)' = 0 /\ Debt(d) = 0
      BY <1>2, <1>4, <3>1, <3>2
    <3> QED
      BY <1>0, <1>1, <2>0, <2>n, <2>m, <3>1, <3>3
  <2>8. CASE EndRun(r)
    <3>1. /\ UNCHANGED <<row, attempts, posts, seen>> /\ pc'[r] = "done" /\ pc[r] = "end"
          /\ ~ScheduleRetry(r)
      BY <1>0, <2>8 DEF EndRun, ScheduleRetry, rowVars, localVars, Goto
    <3>2. Open(d)' <= Open(d) /\ Debt(d)' = Debt(d)
      BY <1>2, <1>4, <3>1 DEF Working
    <3> QED
      BY <1>0, <1>1, <1>4, <2>0, <2>n, <2>m, <3>1, <3>2
  <2> QED
    BY <2>1, <2>2, <2>3, <2>4, <2>5, <2>6, <2>7, <2>8 DEF Stepping, Stops, Run
<1>6. \A q \in OfDelivery(d) :
           /\ pc'[q] \in {"hook", "post"} => posts'[d] = seen'[q]
           /\ pc'[q] \in {"record", "schedule"} => posts'[d] = seen'[q] + 1
  <2>1. ASSUME NEW q \in OfDelivery(d), q # r, pc'[q] \in {"hook", "post", "record", "schedule"}
        PROVE  posts'[d] = posts[d] /\ pc'[q] = pc[q] /\ seen'[q] = seen[q]
    BY <1>0, <1>3, <1>5, <2>1
  <2>2. \A q \in OfDelivery(d) : /\ pc[q] \in {"hook", "post"} => posts[d] = seen[q]
                                 /\ pc[q] \in {"record", "schedule"} => posts[d] = seen[q] + 1
    BY <1>0 DEF SoloAt
  <2> QED
    BY <1>5, <2>1, <2>2
<1>7. /\ \A q, s \in OfDelivery(d) : Working(q)' /\ Working(s)' => q = s
      /\ \A q \in OfDelivery(d) : Live(q)' /\ serves'[q] # 0 =>
              /\ ticket'[TicketOf(q)'] = "leased"
              /\ \A s \in OfDelivery(d) : Live(s)' /\ serves'[s] = serves'[q] => s = q
  BY <1>0, <1>d, RunApart
<1>8. SoloAt(d)'
  BY <1>0, <1>5, <1>6, <1>7 DEF SoloAt
<1> QED
  BY <1>d, <1>8 DEF DeliveryOf

LEMMA BeginChains ==
  ASSUME TypeOK, PlaceInv, NEW d \in Deliveries, NEW n \in 0..MaxTickets, Beginning(d, n),
         d \notin overlapped', SoloAt(d)
  PROVE  /\ Chains(d)' \subseteq Chains(d) \cup {0}
         /\ n # 0 => Chains(d)' \subseteq Chains(d)
<1>1. PICK r \in Runs : Begun(r, d, n)
  BY BeginEffect
<1>0. /\ pc \in [Runs -> Steps] /\ serves \in [Runs -> 0..MaxTickets]
      /\ ticket \in [Tickets -> TicketStates] /\ MaxTickets \in Nat
      /\ OfDelivery(d)' = OfDelivery(d) /\ OfDelivery(d) \subseteq Runs /\ r \in OfDelivery(d)
      /\ \A m \in 1..MaxTickets : /\ <<d, m>> \in Tickets /\ <<d, m>>[2] = m
      /\ n = 0 => UNCHANGED ticket
      /\ n # 0 => /\ ticket[<<d, n>>] \in {"ready", "leased"}
                  /\ ticket' = [ticket EXCEPT ![<<d, n>>] = "leased"]
      /\ \A q \in OfDelivery(d) : ~Working(q) /\ (Live(q) => n = 0 \/ serves[q] # n)
  BY <1>1, BeginEffect, Pairs, WebhooksAssumption
     DEF TypeOK, OfDelivery, DeliveryOf, Runs, Begun
<1>2. ASSUME NEW m \in 1..MaxTickets, Waiting(d, m)' PROVE Waiting(d, m)
  <2>1. \A q \in OfDelivery(d) : pc[q] = "end" => q # r /\ pc'[q] = "end" /\ serves'[q] = serves[q]
    BY <1>0, <1>1 DEF Begun
  <2>2. ~Spent(d, m)
    BY <1>0, <1>2, <2>1 DEF Waiting, Spent
  <2>3. ticket[<<d, m>>] \notin {"free", "acked"}
    BY <1>0, <1>2 DEF Waiting
  <2> QED
    BY <2>2, <2>3 DEF Waiting
<1>3. n # 0 => ~Serving(d, 0)'
  BY <1>0, <1>1 DEF Serving, Working, Live, Begun
<1>4. \A m \in 0..MaxTickets : m \in Chains(d)' => (m = 0 /\ n = 0) \/ m \in Chains(d)
  BY <1>0, <1>2, <1>3 DEF Chains
<1>5. \A m \in Chains(d)' : m \in 0..MaxTickets
  BY DEF Chains
<1> QED
  BY <1>4, <1>5

LEMMA BeginSolo ==
  ASSUME TypeOK, PlaceInv, RowInv, NEW d \in Deliveries, NEW n \in 0..MaxTickets,
         Beginning(d, n), d \notin overlapped', SoloAt(d)
  PROVE  SoloAt(d)'
<1>1. PICK r \in Runs : Begun(r, d, n)
  BY BeginEffect
<1>0. /\ pc \in [Runs -> Steps] /\ serves \in [Runs -> 0..MaxTickets]
      /\ ticket \in [Tickets -> TicketStates] /\ MaxTickets \in Nat
      /\ OfDelivery(d)' = OfDelivery(d) /\ OfDelivery(d) \subseteq Runs /\ r \in OfDelivery(d)
      /\ n = 0 => UNCHANGED ticket
      /\ n # 0 => /\ <<d, n>> \in Tickets
                  /\ ticket' = [ticket EXCEPT ![<<d, n>>] = "leased"]
      /\ \A q \in OfDelivery(d) : ~Working(q) /\ (Live(q) => n = 0 \/ serves[q] # n)
      /\ UNCHANGED <<row, attempts, posts, seen>>
      /\ posts[d] \in Nat /\ manual[d] \in Nat /\ manual \in [Deliveries -> 0..MaxEvents]
      /\ Limits \subseteq Nat \ {0} /\ Limits # {}
      /\ \A q \in Runs : serves[q] # 0 =>
           /\ TicketOf(q) \in Tickets
           /\ TicketOf(q) = <<DeliveryOf(q), serves[q]>>
      /\ RowAt(d) /\ PlaceInv
  <2>1. n # 0 => <<d, n>> \in Tickets
    BY Pairs
  <2>2. /\ OfDelivery(d)' = OfDelivery(d) /\ OfDelivery(d) \subseteq Runs /\ r \in OfDelivery(d)
    BY <1>1 DEF OfDelivery, DeliveryOf, Runs, Begun
  <2> QED
    BY <2>1, <2>2, BeginEffect, TicketOfType, WebhooksAssumption DEF TypeOK, rowVars, RowInv
<1>b. /\ \A q \in Runs : q # r => /\ pc'[q] = pc[q] /\ serves'[q] = serves[q]
                                  /\ TicketOf(q)' = TicketOf(q)
      /\ pc'[r] \in {"create", "read"} /\ serves'[r] = n
      /\ n # 0 => TicketOf(r)' = <<d, n>>
  BY <1>0, <1>1 DEF Begun, TicketOf, DeliveryOf
<1>2. \A q, s \in OfDelivery(d) : Working(q)' /\ Working(s)' => q = s
  BY <1>0, <1>b DEF Working, Live
<1>3. ASSUME NEW q \in OfDelivery(d), Live(q)', serves'[q] # 0
      PROVE  /\ ticket'[TicketOf(q)'] = "leased"
             /\ \A s \in OfDelivery(d) : Live(s)' /\ serves'[s] = serves'[q] => s = q
  <2>1. CASE q = r
    <3>1. ticket'[TicketOf(q)'] = "leased"
      BY <1>0, <1>3, <1>b, <2>1
    <3>2. \A s \in OfDelivery(d) : Live(s)' /\ serves'[s] = serves'[q] => s = q
      BY <1>0, <1>3, <1>b, <2>1 DEF Live
    <3> QED
      BY <3>1, <3>2
  <2>2. CASE q # r
    <3>1. Live(q) /\ serves[q] # 0 /\ serves[q] # n
      BY <1>0, <1>3, <1>b, <2>2 DEF Live
    <3>2. /\ ticket[TicketOf(q)] = "leased"
          /\ \A s \in OfDelivery(d) : Live(s) /\ serves[s] = serves[q] => s = q
      BY <3>1 DEF SoloAt
    <3>3. ticket'[TicketOf(q)] = "leased"
      BY <1>0, <3>1, <3>2
    <3>4. \A s \in OfDelivery(d) : Live(s)' /\ serves'[s] = serves'[q] => s = q
      BY <1>0, <1>b, <2>2, <3>1, <3>2 DEF Live
    <3> QED
      BY <1>0, <1>b, <2>2, <3>3, <3>4
  <2> QED
    BY <2>1, <2>2
<1>4. Debt(d) = 0 /\ Debt(d)' = 0
  <2>1. \A q \in OfDelivery(d) : pc[q] # "record" /\ pc'[q] # "record"
    BY <1>0, <1>b DEF Working, Live, Resting
  <2> QED
    BY <1>0, <2>1 DEF Debt, Recording
<1>5. row'[d] # "gone" => posts'[d] = attempts'[d] + Debt(d)'
  BY <1>0, <1>4 DEF SoloAt
<1>6. \A q \in OfDelivery(d) : pc'[q] \notin {"hook", "post", "record", "schedule"}
  BY <1>0, <1>b DEF Working, Live, Resting
<1>7. /\ Open(d)' <= 1 + manual'[d]
      /\ \E k \in Limits : posts'[d] + Open(d)' <= k + manual'[d] + Debt(d)'
  <2>1. /\ Open(d) \in Nat /\ Open(d)' \in Nat /\ Open(d)' <= Open(d) + 1
        /\ n # 0 => Open(d)' <= Open(d)
    <3>1. /\ Chains(d)' \subseteq Chains(d) \cup {0}
          /\ n # 0 => Chains(d)' \subseteq Chains(d)
      BY BeginChains
    <3>2. Chains(d) \in SUBSET (0..MaxTickets) /\ Chains(d)' \in SUBSET (0..MaxTickets)
      BY ChainTypes
    <3> DEFINE S == Chains(d)'  T == Chains(d)
    <3>3. Open(d) = Cardinality(T) /\ Open(d)' = Cardinality(S)
      BY DEF Open
    <3> HIDE DEF S, T
    <3>4. /\ Cardinality(S) \in Nat /\ Cardinality(T) \in Nat
          /\ S \subseteq T => Cardinality(S) <= Cardinality(T)
          /\ \A m : S \subseteq T \cup {m} => Cardinality(S) <= Cardinality(T) + 1
      BY <3>2, ChainSets DEF S, T
    <3> QED
      BY <3>1, <3>3, <3>4 DEF S, T
  <2>0. Open(d) <= 1 + manual[d]
    BY DEF SoloAt
  <2>n. PICK k \in Limits : posts[d] + Open(d) <= k + manual[d] + Debt(d)
    BY DEF SoloAt
  <2>m. k \in Nat /\ k >= 1 /\ posts'[d] = posts[d]
    BY <1>0
  <2>2. CASE n = 0 /\ RetryManually(d)
    <3>1. manual'[d] = manual[d] + 1
      BY <1>0, <2>2 DEF RetryManually
    <3> QED
      BY <1>0, <1>4, <2>0, <2>1, <2>n, <2>m, <3>1
  <2>3. CASE n = 0 /\ Dispatch(d)
    <3>1. manual'[d] = manual[d] /\ row[d] = "none" /\ runs[d] = 0
      BY <1>0, <2>3 DEF Dispatch, RowAt
    <3>2. posts[d] = 0
      BY <1>0, <3>1 DEF RowAt
    <3>3. \A m \in 1..MaxTickets : ticket[<<d, m>>] = "free"
      BY <1>0, <3>1, Pairs DEF RowAt
    <3>4. Chains(d) = {}
      BY <1>0, <3>3 DEF Chains, Waiting, Serving
    <3>5. Open(d) = 0
      BY <3>4, FS_EmptySet DEF Open
    <3>6. Open(d)' <= 1 + manual'[d]
      BY <1>0, <2>1, <3>1, <3>5
    <3>7. posts'[d] + Open(d)' <= k + manual'[d] + Debt(d)'
      BY <1>0, <1>4, <2>1, <2>m, <3>1, <3>2, <3>5
    <3> QED
      BY <3>6, <3>7
  <2>4. CASE n # 0
    <3>1. manual'[d] = manual[d]
      BY <2>4 DEF Beginning, Deliver, DeliverDuplicate
    <3> QED
      BY <1>0, <1>4, <2>0, <2>1, <2>4, <2>n, <2>m, <3>1
  <2> QED
    BY <2>2, <2>3, <2>4 DEF Beginning
<1> QED
  BY <1>0, <1>2, <1>3, <1>5, <1>6, <1>7 DEF SoloAt

\* A restart leaves an undisturbed delivery no run, and its tickets as they count.
LEMMA RestartEffect ==
  ASSUME TypeOK, NEW d \in Deliveries, RestartProcess, d \notin interrupted'
  PROVE  /\ \A q \in OfDelivery(d) : ~Live(q)' /\ pc'[q] \notin Attempting
                                     /\ pc[q] \notin Attempting
         /\ OfDelivery(d)' = OfDelivery(d)
         /\ Chains(d)' \subseteq Chains(d)
<1>0. /\ OfDelivery(d)' = OfDelivery(d) /\ OfDelivery(d) \subseteq Runs
      /\ pc \in [Runs -> Steps] /\ ticket \in [Tickets -> TicketStates] /\ MaxTickets \in Nat
      /\ \A m \in 1..MaxTickets : <<d, m>> \in Tickets
  BY Pairs, WebhooksAssumption DEF TypeOK, OfDelivery, DeliveryOf, Runs
<1>1. \A q \in OfDelivery(d) : /\ ~Live(q)' /\ pc[q] \notin Attempting
                               /\ pc'[q] \notin Attempting
  BY <1>0 DEF RestartProcess, Live, Resting, Attempting, OfDelivery
<1>2. \A m \in 1..MaxTickets : Waiting(d, m)' => Waiting(d, m)
  <2>1. \A m \in 1..MaxTickets : ~Spent(d, m)
    BY <1>1 DEF Spent, Attempting
  <2>2. \A m \in 1..MaxTickets : ticket[<<d, m>>] \in {"free", "acked"} =>
            ticket'[<<d, m>>] = ticket[<<d, m>>]
    BY <1>0 DEF RestartProcess
  <2> QED
    BY <2>1, <2>2 DEF Waiting
<1>3. ~Serving(d, 0)'
  BY <1>0, <1>1 DEF Serving, Working
<1>4. \A m \in 0..MaxTickets : m \in Chains(d)' => m \in Chains(d)
  BY <1>0, <1>2, <1>3 DEF Chains
<1>5. \A m \in Chains(d)' : m \in 0..MaxTickets
  BY DEF Chains
<1> QED
  BY <1>0, <1>1, <1>4, <1>5

LEMMA EditStill ==
  ASSUME TypeOK, NEW d \in Deliveries, EditHook \/ DeleteHook
  PROVE  Still(d) /\ (row'[d] = row[d] \/ row'[d] = "gone")
BY DEF EditHook, DeleteHook, Still, rowVars, queueVars, localVars

LEMMA OutsideSolo ==
  ASSUME TypeOK, NEW d \in Deliveries, Outside, d \notin interrupted', SoloAt(d)
  PROVE  SoloAt(d)'
<1>1. CASE EditHook \/ DeleteHook
  BY <1>1, EditStill, StillSolo
<1>2. CASE RestartProcess
  <2>1. /\ \A q \in OfDelivery(d) : ~Live(q)' /\ pc'[q] \notin Attempting
                                     /\ pc[q] \notin Attempting
        /\ OfDelivery(d)' = OfDelivery(d)
        /\ Chains(d)' \subseteq Chains(d)
    BY <1>2, RestartEffect
  <2>2. /\ UNCHANGED <<row, attempts, posts, manual>>
        /\ posts[d] \in Nat /\ manual[d] \in Nat /\ Limits \subseteq Nat
    BY <1>2, WebhooksAssumption DEF RestartProcess, rowVars, TypeOK
  <2>3. Debt(d) = 0 /\ Debt(d)' = 0
    BY <2>1 DEF Debt, Recording, Attempting
  <2>4. Open(d) \in Nat /\ Open(d)' \in Nat /\ Open(d)' <= Open(d)
    BY <2>1, ChainTypes, ChainSets DEF Open
  <2>5. \A q \in OfDelivery(d) :
           pc'[q] \notin {"hook", "post", "record", "schedule"} /\ ~Working(q)'
    BY <2>1 DEF Live, Resting, Attempting, Working
  <2>6. Open(d)' <= 1 + manual'[d]
    <3>1. Open(d) <= 1 + manual[d]
      BY DEF SoloAt
    <3> QED
      BY <2>2, <2>4, <3>1
  <2>7. \E n \in Limits : posts'[d] + Open(d)' <= n + manual'[d] + Debt(d)'
    <3>1. PICK n \in Limits : posts[d] + Open(d) <= n + manual[d] + Debt(d)
      BY DEF SoloAt
    <3>2. n \in Nat
      BY <2>2
    <3> QED
      BY <2>2, <2>3, <2>4, <3>1, <3>2
  <2>8. row'[d] # "gone" => posts'[d] = attempts'[d] + Debt(d)'
    BY <2>2, <2>3 DEF SoloAt
  <2> QED
    BY <2>1, <2>5, <2>6, <2>7, <2>8 DEF SoloAt
<1> QED
  BY <1>1, <1>2 DEF Outside

\* Steps elsewhere leave a delivery still.
LEMMA RunStill ==
  ASSUME TypeOK, NEW r \in Runs, Stepping(r), NEW d \in Deliveries, d # DeliveryOf(r)
  PROVE  Still(d) /\ row'[d] = row[d]
<1>1. \A m \in 1..MaxTickets : <<d, m>> \in Tickets /\ <<d, m>>[1] = d
  BY Pairs
<1>2. \A q \in OfDelivery(d) : q \in Runs /\ q # r
  BY DEF OfDelivery
<1> QED
  BY <1>1, <1>2, RunFrame, DeliveryFrame DEF Still

LEMMA BeginStill ==
  ASSUME TypeOK, PlaceInv, NEW d \in Deliveries, NEW n \in 0..MaxTickets, Beginning(d, n),
         NEW e \in Deliveries, e # d
  PROVE  Still(e) /\ row'[e] = row[e]
<1>1. PICK r \in Runs : Begun(r, d, n)
  BY BeginEffect
<1>2. \A q \in OfDelivery(e) : q \in Runs /\ q # r
  BY <1>1 DEF OfDelivery, Begun
<1>3. manual'[e] = manual[e]
  BY DEF Beginning, Dispatch, RetryManually, Deliver, DeliverDuplicate, TypeOK
<1>4. \A m \in 1..MaxTickets : ticket'[<<e, m>>] = ticket[<<e, m>>]
  <2>1. \A m \in 1..MaxTickets : <<e, m>> \in Tickets /\ <<e, m>> # <<d, n>>
    BY Pairs
  <2>2. \/ UNCHANGED ticket
        \/ ticket' = [ticket EXCEPT ![<<d, n>>] = "leased"]
    BY BeginEffect
  <2> QED
    BY <2>1, <2>2 DEF TypeOK
<1>5. UNCHANGED <<row, attempts, posts, seen>>
  BY BeginEffect DEF rowVars
<1>6. \A q \in OfDelivery(e) : pc'[q] = pc[q] /\ serves'[q] = serves[q]
  BY <1>1, <1>2 DEF Begun, TypeOK
<1> QED
  BY <1>3, <1>4, <1>5, <1>6 DEF Still

LEMMA NextSteps ==
  ASSUME TypeOK, Next
  PROVE  \/ \E r \in Runs : Stepping(r)
         \/ \E d \in Deliveries, n \in 0..MaxTickets : Beginning(d, n)
         \/ Outside
<1>1. ASSUME NEW d \in Deliveries, Dispatch(d) \/ RetryManually(d)
      PROVE  Beginning(d, 0) /\ 0 \in 0..MaxTickets
  BY <1>1, WebhooksAssumption DEF Beginning
<1>2. ASSUME NEW t \in Tickets, Deliver(t) \/ DeliverDuplicate(t)
      PROVE  \E d \in Deliveries, n \in 0..MaxTickets : Beginning(d, n)
  <2>1. t[1] \in Deliveries /\ t[2] \in 1..MaxTickets /\ t = <<t[1], t[2]>>
    BY Pairs
  <2>2. t[2] \in 0..MaxTickets /\ t[2] # 0
    BY <2>1, WebhooksAssumption
  <2>3. Beginning(t[1], t[2])
    BY <1>2, <2>1, <2>2 DEF Beginning
  <2> QED
    BY <2>1, <2>2, <2>3
<1> QED
  BY <1>1, <1>2 DEF Next, Stepping, Outside

LEMMA FewerUndisturbed ==
  ASSUME TypeOK, PlaceInv, Next
  PROVE  /\ overlapped \subseteq overlapped' /\ interrupted \subseteq interrupted'
         /\ unscheduled \subseteq unscheduled'
         /\ Undisturbed' \subseteq Undisturbed
<1>1. overlapped \subseteq overlapped' /\ interrupted \subseteq interrupted'
      /\ unscheduled \subseteq unscheduled'
  BY NextSteps, RunFrame, SetsFrame, BeginEffect, OutsideFrame
<1> QED
  BY <1>1 DEF Undisturbed

LEMMA SoloStep ==
  ASSUME TypeOK, PlaceInv, RowInv, SoloInv, Next
  PROVE  SoloInv'
<1>1. ASSUME NEW d \in Undisturbed' PROVE SoloAt(d)'
  <2>0. /\ d \in Deliveries /\ SoloAt(d) /\ d \notin overlapped' /\ d \notin interrupted'
    BY <1>1, FewerUndisturbed DEF SoloInv, Undisturbed
  <2>1. ASSUME NEW r \in Runs, Stepping(r) PROVE SoloAt(d)'
    <3>1. CASE d # DeliveryOf(r)
      BY <2>0, <2>1, <3>1, RunStill, StillSolo
    <3>2. CASE d = DeliveryOf(r)
      BY <2>0, <2>1, <3>2, RunSolo DEF DeliveryOf
    <3> QED
      BY <3>1, <3>2
  <2>2. ASSUME NEW e \in Deliveries, NEW n \in 0..MaxTickets, Beginning(e, n) PROVE SoloAt(d)'
    <3>1. CASE d # e
      BY <2>0, <2>2, <3>1, BeginStill, StillSolo
    <3>2. CASE d = e
      BY <2>0, <2>2, <3>2, BeginSolo
    <3> QED
      BY <3>1, <3>2
  <2>3. CASE Outside
    BY <2>0, <2>3, OutsideSolo
  <2> QED
    BY <2>1, <2>2, <2>3, NextSteps
<1> QED
  BY <1>1 DEF SoloInv

-----------------------------------------------------------------------------
(***************************************************************************)
(* What was taken is not posted again.                                     *)
(***************************************************************************)
LEMMA RunOnce ==
  ASSUME TypeOK, PlaceInv, NEW r \in Runs, Stepping(r), NEW d \in Deliveries, d = DeliveryOf(r),
         SoloAt(d), OnceAt(d), manual[d] = 0, d \notin interrupted', Chains(d)' # {}
  PROVE  /\ row'[d] \in {"none", "pending", "retrying", "gone"}
         /\ \A q \in Posted(d)' : pc'[q] = "record"
<1>0. /\ \A q \in Runs : q # r => pc'[q] = pc[q]
      /\ Live(r) /\ r \in OfDelivery(d) /\ pc \in [Runs -> Steps]
      /\ row \in [Deliveries -> RowStates] /\ RunInv(r)
      /\ ok \subseteq Runs /\ ok \subseteq ok' /\ ok' \subseteq ok \cup {r}
      /\ Posted(d) = {q \in ok : DeliveryOf(q) = d}
      /\ Posted(d)' = {q \in ok' : DeliveryOf(q) = d}
      /\ Posted(d) \subseteq OfDelivery(d)
  BY RunFrame, SetsFrame DEF TypeOK, OfDelivery, DeliveryOf, PlaceInv, Posted
<1>1. /\ ~ScheduleRetry(r) => Chains(d)' \subseteq Chains(d)
      /\ pc'[r] = "end" => serves[r] \notin Chains(d)'
      /\ Working(r) => serves[r] \in Chains(d)
  BY StepChains, ChainOf DEF DeliveryOf
<1>2. Chains(d) # {}
  BY <1>0, <1>1 DEF ScheduleRetry, Working
<1>3. /\ row[d] \in {"none", "pending", "retrying", "gone"}
      /\ \A q \in Posted(d) : pc[q] = "record"
  BY <1>2 DEF OnceAt
<1>4. ASSUME Working(r), pc[r] # "record" PROVE Posted(d) = {}
  <2>1. \A q \in OfDelivery(d) : Working(q) => q = r
    BY <1>0, <1>4 DEF SoloAt
  <2>2. \A q \in Posted(d) : FALSE
    BY <1>0, <1>3, <1>4, <2>1 DEF Working, Live, Resting
  <2> QED
    BY <2>2
<1>5. CASE Stops(r)
  <2>1. pc[r] \notin Attempting /\ row'[d] = row[d] /\ ok' = ok
    BY <1>0, <1>5, StopEffect DEF rowVars, localVars
  <2>2. Posted(d) = {}
    BY <1>0, <1>4, <2>1 DEF Working, Attempting
  <2> QED
    BY <1>0, <1>3, <2>1, <2>2
<1>6. CASE CreateDelivery(r)
  <2>1. Working(r) /\ pc[r] # "record" /\ row'[d] = "pending" /\ ok' = ok
    BY <1>0, <1>6 DEF CreateDelivery, Working, localVars
  <2> QED
    BY <1>0, <1>4, <2>1
<1>7. CASE ReadDelivery(r) \/ ReadHook(r) \/ ScheduleRetry(r)
  <2>1. Working(r) /\ pc[r] # "record" /\ row'[d] = row[d] /\ ok' = ok
    BY <1>0, <1>7 DEF ReadDelivery, ReadHook, ScheduleRetry, Working, rowVars, localVars
  <2> QED
    BY <1>0, <1>3, <1>4, <2>1
<1>8. CASE Post(r)
  <2>1. Working(r) /\ pc[r] # "record" /\ row'[d] = row[d] /\ pc'[r] = "record"
    BY <1>0, <1>8 DEF Post, Working, rowVars, Goto
  <2> QED
    BY <1>0, <1>3, <1>4, <2>1
<1>9. CASE Record(r)
  <2>1. Working(r) /\ pc[r] = "record" /\ ok' = ok /\ ~ScheduleRetry(r)
    BY <1>0, <1>9 DEF Record, Working, localVars, ScheduleRetry
  <2>2. \A q \in OfDelivery(d) : Working(q) => q = r
    BY <1>0, <2>1 DEF SoloAt
  <2>3. CASE CanRetry(r)
    <3>1. r \notin ok /\ row'[d] \in {row[d], "retrying"}
      BY <1>0, <1>9, <2>3 DEF Record, CanRetry, rowVars
    <3>2. \A q \in Posted(d) : FALSE
      BY <1>0, <1>3, <2>2, <3>1 DEF Working, Live, Resting
    <3> QED
      BY <1>0, <1>3, <2>1, <3>1, <3>2
  <2>4. CASE ~CanRetry(r)
    <3>1. pc'[r] = "end"
      BY <1>0, <1>9, <2>4 DEF Record, Goto
    <3>2. Cardinality(Chains(d)') + 1 <= Cardinality(Chains(d))
      <4> DEFINE S == Chains(d)'  T == Chains(d)
      <4>1. S \in SUBSET (0..MaxTickets) /\ T \in SUBSET (0..MaxTickets)
        BY ChainTypes
      <4>2. S \subseteq T /\ serves[r] \in T /\ serves[r] \notin S
        BY <1>1, <2>1, <3>1
      <4> HIDE DEF S, T
      <4>3. Cardinality(S) + 1 <= Cardinality(T)
        BY <4>1, <4>2, ChainSets
      <4> QED
        BY <4>3 DEF S, T
    <3>3. Cardinality(Chains(d)) <= 1
      BY DEF SoloAt, Open
    <3>4. /\ IsFiniteSet(Chains(d)') /\ Cardinality(Chains(d)') \in Nat
          /\ Cardinality(Chains(d)) \in Nat
      BY ChainTypes, ChainsFinite
    <3>5. Cardinality(Chains(d)') = 0
      BY <3>2, <3>3, <3>4
    <3>6. Chains(d)' = {}
      BY <3>4, <3>5, FS_EmptySet
    <3> QED
      BY <3>6
  <2> QED
    BY <2>3, <2>4
<1>10. CASE EndRun(r)
  <2>1. pc[r] = "end" /\ row'[d] = row[d] /\ ok' = ok
    BY <1>0, <1>10 DEF EndRun, rowVars, localVars
  <2> QED
    BY <1>0, <1>3, <2>1
<1> QED
  BY <1>5, <1>6, <1>7, <1>8, <1>9, <1>10 DEF Stepping, Stops, Run

LEMMA BeginOnce ==
  ASSUME TypeOK, PlaceInv, RowInv, NEW d \in Deliveries, NEW n \in 0..MaxTickets,
         Beginning(d, n), d \notin overlapped', SoloAt(d), OnceAt(d), manual'[d] = 0,
         Chains(d)' # {}
  PROVE  /\ row'[d] \in {"none", "pending", "retrying", "gone"}
         /\ \A q \in Posted(d)' : pc'[q] = "record"
<1>0. /\ UNCHANGED <<row, ok>> /\ ok \subseteq Runs
      /\ Posted(d)' = Posted(d)
      /\ Posted(d) \subseteq OfDelivery(d)
      /\ \A q \in OfDelivery(d) : ~Working(q)
      /\ manual \in [Deliveries -> 0..MaxEvents] /\ MaxEvents \in Nat
  BY BeginEffect, WebhooksAssumption DEF TypeOK, rowVars, Posted, OfDelivery, DeliveryOf
<1>1. CASE n = 0 /\ Dispatch(d)
  <2>1. row[d] = "none" /\ runs[d] = 0
    BY <1>1 DEF Dispatch, RowInv, RowAt
  <2>2. \A q \in OfDelivery(d) : q[2] > runs[d]
    BY <2>1, Pairs DEF OfDelivery
  <2>3. \A q \in OfDelivery(d) : pc[q] = "idle" /\ q \notin ok
    BY <2>2 DEF OfDelivery, PlaceInv, RunInv
  <2> QED
    BY <1>0, <2>1, <2>3 DEF Posted
<1>2. CASE n = 0 /\ RetryManually(d)
  <2>1. manual'[d] = manual[d] + 1 /\ manual[d] \in Nat
    BY <1>0, <1>2 DEF RetryManually
  <2> QED
    BY <2>1
<1>3. CASE n # 0
  <2>1. Chains(d) # {}
    BY <1>3, BeginChains
  <2>2. /\ row[d] \in {"none", "pending", "retrying", "gone"}
        /\ \A q \in Posted(d) : pc[q] = "record"
    BY <2>1 DEF OnceAt
  <2>3. \A q \in Posted(d) : FALSE
    BY <1>0, <2>2 DEF Working, Live, Resting
  <2> QED
    BY <1>0, <2>2, <2>3
<1> QED
  BY <1>1, <1>2, <1>3 DEF Beginning

LEMMA OutsideOnce ==
  ASSUME TypeOK, NEW d \in Deliveries, Outside, d \notin interrupted', OnceAt(d), Chains(d)' # {}
  PROVE  /\ row'[d] \in {"none", "pending", "retrying", "gone"}
         /\ \A q \in Posted(d)' : pc'[q] = "record"
<1>0. /\ ok' = ok /\ ok \subseteq Runs /\ Posted(d)' = Posted(d)
      /\ Posted(d) \subseteq OfDelivery(d)
  BY OutsideFrame DEF TypeOK, localVars, Posted, OfDelivery, DeliveryOf
<1>1. Chains(d) # {}
  BY EditStill, StillChains, RestartEffect DEF Outside
<1>2. /\ row[d] \in {"none", "pending", "retrying", "gone"}
      /\ \A q \in Posted(d) : pc[q] = "record"
  BY <1>1 DEF OnceAt
<1>3. row'[d] \in {"none", "pending", "retrying", "gone"}
  BY <1>2, OutsideFrame
<1>4. CASE EditHook \/ DeleteHook
  BY <1>0, <1>2, <1>3, <1>4, EditStill DEF Still
<1>5. CASE RestartProcess
  <2>1. \A q \in OfDelivery(d) : pc[q] \notin Attempting
    BY <1>5, RestartEffect
  <2> QED
    BY <1>0, <1>2, <1>3, <2>1 DEF Attempting
<1> QED
  BY <1>4, <1>5 DEF Outside

LEMMA StillOnce ==
  ASSUME TypeOK, NEW d \in Deliveries, Still(d), row'[d] = row[d], OnceAt(d), Chains(d)' # {},
         \A q \in OfDelivery(d) : q \in ok' <=> q \in ok, ok' \subseteq Runs
  PROVE  /\ row'[d] \in {"none", "pending", "retrying", "gone"}
         /\ \A q \in Posted(d)' : pc'[q] = "record"
<1>1. Chains(d) # {}
  BY StillChains
<1>2. \A q \in Posted(d)' : q \in OfDelivery(d) /\ q \in Posted(d)
  BY DEF Posted, OfDelivery, DeliveryOf
<1> QED
  BY <1>1, <1>2 DEF OnceAt, Still

LEMMA OnceStep ==
  ASSUME TypeOK, PlaceInv, RowInv, SoloInv, OnceInv, Next
  PROVE  OnceInv'
<1>1. ASSUME NEW d \in Undisturbed', manual'[d] = 0, Chains(d)' # {}
      PROVE  /\ row'[d] \in {"none", "pending", "retrying", "gone"}
             /\ \A q \in Posted(d)' : pc'[q] = "record"
  <2>0. /\ d \in Deliveries /\ SoloAt(d) /\ d \notin overlapped' /\ d \notin interrupted'
        /\ manual[d] = 0 => OnceAt(d)
    BY <1>1, FewerUndisturbed DEF SoloInv, OnceInv, Undisturbed
  <2>1. ASSUME NEW r \in Runs, Stepping(r)
        PROVE  /\ row'[d] \in {"none", "pending", "retrying", "gone"}
               /\ \A q \in Posted(d)' : pc'[q] = "record"
    <3>1. manual[d] = 0
      BY <1>1, <2>1, RunFrame
    <3>2. CASE d # DeliveryOf(r)
      <4>1. /\ \A q \in OfDelivery(d) : q \in ok' <=> q \in ok
            /\ ok' \subseteq Runs
        BY <2>1, <3>2, SetsFrame DEF OfDelivery, TypeOK
      <4> QED
        BY <1>1, <2>0, <2>1, <3>1, <3>2, <4>1, RunStill, StillOnce
    <3>3. CASE d = DeliveryOf(r)
      BY <1>1, <2>0, <2>1, <3>1, <3>3, RunOnce
    <3> QED
      BY <3>2, <3>3
  <2>2. ASSUME NEW e \in Deliveries, NEW n \in 0..MaxTickets, Beginning(e, n)
        PROVE  /\ row'[d] \in {"none", "pending", "retrying", "gone"}
               /\ \A q \in Posted(d)' : pc'[q] = "record"
    <3>1. manual[d] = 0
      <4>1. /\ manual[d] \in Nat
            /\ manual' = manual \/ manual' = [manual EXCEPT ![e] = @ + 1]
        BY <2>0, <2>2, WebhooksAssumption DEF Beginning, Dispatch, RetryManually, Deliver,
           DeliverDuplicate, TypeOK
      <4>2. manual \in [Deliveries -> 0..MaxEvents]
        BY DEF TypeOK
      <4>3. manual'[d] = manual[d] \/ manual'[d] = manual[d] + 1
        BY <2>0, <4>1, <4>2
      <4> QED
        BY <1>1, <4>1, <4>3
    <3>2. CASE d # e
      <4>0. ok' = ok /\ ok \subseteq Runs
        BY <2>2, BeginEffect DEF TypeOK
      <4>1. Still(d) /\ row'[d] = row[d] /\ ok' = ok /\ ok' \subseteq Runs
        BY <2>0, <2>2, <3>2, <4>0, BeginStill
      <4> QED
        BY <1>1, <2>0, <3>1, <4>1, StillOnce
    <3>3. CASE d = e
      BY <1>1, <2>0, <2>2, <3>1, <3>3, BeginOnce
    <3> QED
      BY <3>2, <3>3
  <2>3. CASE Outside
    <3>1. manual[d] = 0
      BY <1>1, <2>3, OutsideFrame
    <3> QED
      BY <1>1, <2>0, <2>3, <3>1, OutsideOnce
  <2> QED
    BY <2>1, <2>2, <2>3, NextSteps
<1> QED
  BY <1>1 DEF OnceInv, OnceAt

-----------------------------------------------------------------------------
(***************************************************************************)
(* A delivery that says retrying has a retry to come.                      *)
(***************************************************************************)
PendAt(d) ==
  \/ \E n \in 1..MaxTickets : Waiting(d, n)
  \/ \E r \in OfDelivery(d) : pc[r] = "schedule"
  \/ d \in unscheduled \cup interrupted

LEMMA RunPend ==
  ASSUME TypeOK, PlaceInv, RowInv, NEW r \in Runs, Stepping(r),
         NEW d \in Deliveries, d = DeliveryOf(r),
         d \notin unscheduled' \cup interrupted', row'[d] = "retrying",
         row[d] = "retrying" => PendAt(d)
  PROVE  PendAt(d)'
<1>0. /\ \A q \in Runs : q # r => pc'[q] = pc[q]
      /\ Live(r) /\ r \in OfDelivery(d) /\ pc \in [Runs -> Steps] /\ UNCHANGED serves
      /\ row \in [Deliveries -> RowStates] /\ RunInv(r) /\ RowAt(d)
      /\ interrupted \subseteq interrupted' /\ unscheduled \subseteq unscheduled'
      /\ OfDelivery(d)' = OfDelivery(d) /\ OfDelivery(d) \subseteq Runs
      /\ ticket \in [Tickets -> TicketStates]
      /\ \A m \in 1..MaxTickets : /\ <<d, m>> \in Tickets
                                  /\ <<d, m>>[1] = d /\ <<d, m>>[2] = m
      /\ \A t \in Tickets : ticket[t] # "free" => ticket'[t] # "free"
  BY RunFrame, SetsFrame, DeliveryFrame, Pairs
     DEF TypeOK, OfDelivery, DeliveryOf, Runs, PlaceInv, RowInv
<1>1. CASE Stops(r)
  <2>1. row[d] = "retrying" /\ pc[r] \notin Attempting /\ pc'[r] \in {"failed", "crashed"}
    BY <1>0, <1>1, StopEffect DEF rowVars
  <2>2. PendAt(d) /\ d \notin unscheduled \cup interrupted
    BY <1>0, <2>1
  <2>3. CASE \E q \in OfDelivery(d) : pc[q] = "schedule"
    BY <1>0, <2>1, <2>3 DEF PendAt, Attempting
  <2>4. ASSUME NEW n \in 1..MaxTickets, Waiting(d, n) PROVE Waiting(d, n)'
    <3>1. ticket[<<d, n>>] \notin {"free", "acked"} /\ ~Spent(d, n)
      BY <2>4 DEF Waiting
    <3>2. ticket'[<<d, n>>] \notin {"free", "acked"}
      BY <1>0, <1>1, <3>1, StopEffect
    <3>3. ~Spent(d, n)'
      BY <1>0, <2>1, <3>1 DEF Spent
    <3> QED
      BY <3>2, <3>3 DEF Waiting
  <2> QED
    BY <2>2, <2>3, <2>4 DEF PendAt
<1>2. CASE CreateDelivery(r)
  BY <1>0, <1>2 DEF CreateDelivery
<1>3. CASE Record(r)
  <2>1. CASE row[d] = "gone"
    BY <1>0, <1>3, <2>1 DEF Record, rowVars
  <2>2. CASE row[d] # "gone"
    <3>1. CanRetry(r)
      BY <1>0, <1>3, <2>2 DEF Record
    <3>2. pc'[r] = "schedule"
      BY <1>0, <1>3, <3>1 DEF Record, Goto
    <3> QED
      BY <1>0, <3>2 DEF PendAt
  <2> QED
    BY <2>1, <2>2
<1>4. CASE ScheduleRetry(r)
  <2>1. PICK t \in Tickets : t[1] = d /\ ticket[t] = "free" /\ ticket' = [ticket EXCEPT ![t] = "ready"]
    BY <1>0, <1>4 DEF ScheduleRetry
  <2>2. PICK n \in 1..MaxTickets : t = <<d, n>> /\ n # 0
    BY <2>1, Pairs
  <2>3. \A q \in OfDelivery(d) : serves[q] = n => pc[q] = "idle"
    BY <1>0, <2>1, <2>2 DEF PlaceInv, RunInv, TicketOf, OfDelivery
  <2>4. ~Spent(d, n)'
    BY <1>0, <2>3 DEF Spent, Live, Resting
  <2>5. ticket'[<<d, n>>] = "ready"
    BY <1>0, <2>1, <2>2
  <2>6. Waiting(d, n)'
    BY <2>4, <2>5 DEF Waiting
  <2> QED
    BY <2>6 DEF PendAt
<1>5. CASE ReadDelivery(r) \/ ReadHook(r) \/ Post(r) \/ EndRun(r)
  <2>1. row[d] = "retrying" /\ pc[r] # "schedule"
    BY <1>0, <1>5 DEF ReadDelivery, ReadHook, Post, EndRun, rowVars
  <2>2. PendAt(d) /\ d \notin unscheduled \cup interrupted
    BY <1>0, <2>1
  <2>3. CASE \E q \in OfDelivery(d) : pc[q] = "schedule"
    BY <1>0, <2>1, <2>3 DEF PendAt
  <2>4. ASSUME NEW n \in 1..MaxTickets, Waiting(d, n) PROVE Waiting(d, n)'
    <3>1. ticket[<<d, n>>] \notin {"free", "acked"} /\ ~Spent(d, n)
      BY <2>4 DEF Waiting
    <3>2. pc'[r] # "end"
      <4>1. limit # 0
        BY <1>0, <2>1 DEF RowAt
      <4> QED
        BY <1>0, <1>5, <2>1, <4>1 DEF ReadDelivery, ReadHook, Post, EndRun, Goto
    <3>3. ~Spent(d, n)'
      BY <1>0, <3>1, <3>2 DEF Spent
    <3>4. ticket'[<<d, n>>] \notin {"free", "acked"}
      <4>1. CASE EndRun(r)
        <5>1. pc[r] = "end" /\ serves[r] # n
          BY <1>0, <3>1, <4>1 DEF EndRun, Spent
        <5>2. <<d, n>> # TicketOf(r)
          BY <5>1 DEF TicketOf
        <5> QED
          BY <1>0, <3>1, <4>1, <5>2 DEF EndRun
      <4>2. CASE ~EndRun(r)
        BY <1>5, <3>1, <4>2 DEF ReadDelivery, ReadHook, Post, queueVars
      <4> QED
        BY <4>1, <4>2
    <3> QED
      BY <3>3, <3>4 DEF Waiting
  <2> QED
    BY <2>2, <2>3, <2>4 DEF PendAt
<1> QED
  BY <1>1, <1>2, <1>3, <1>4, <1>5 DEF Stepping, Stops, Run

LEMMA StillPend ==
  ASSUME TypeOK, NEW d \in Deliveries, Still(d), PendAt(d),
         interrupted \subseteq interrupted', unscheduled \subseteq unscheduled'
  PROVE  PendAt(d)'
<1>1. OfDelivery(d)' = OfDelivery(d)
  BY DEF OfDelivery, DeliveryOf, Runs
<1>2. \A n \in 1..MaxTickets : Waiting(d, n)' <=> Waiting(d, n)
  BY <1>1 DEF Waiting, Spent, Still
<1> QED
  BY <1>1, <1>2 DEF PendAt, Still

LEMMA BeginPend ==
  ASSUME TypeOK, PlaceInv, NEW d \in Deliveries, NEW n \in 0..MaxTickets, Beginning(d, n),
         PendAt(d)
  PROVE  PendAt(d)'
<1>1. PICK r \in Runs : Begun(r, d, n)
  BY BeginEffect
<1>0. /\ OfDelivery(d)' = OfDelivery(d) /\ OfDelivery(d) \subseteq Runs
      /\ \A q \in Runs : q # r => pc'[q] = pc[q] /\ serves'[q] = serves[q]
      /\ pc[r] = "idle" /\ pc'[r] \in {"create", "read"}
      /\ interrupted' = interrupted /\ unscheduled' = unscheduled
  BY <1>1, BeginEffect DEF OfDelivery, DeliveryOf, Runs, Begun, TypeOK
<1>2. \A m \in 1..MaxTickets : Spent(d, m)' => Spent(d, m)
  BY <1>0 DEF Spent
<1>3. \A m \in 1..MaxTickets : ticket'[<<d, m>>] \in {ticket[<<d, m>>], "leased"}
  <2>1. \A m \in 1..MaxTickets : <<d, m>> \in Tickets
    BY Pairs
  <2>2. ticket \in [Tickets -> TicketStates]
        /\ (UNCHANGED ticket \/ ticket' = [ticket EXCEPT ![<<d, n>>] = "leased"])
    BY BeginEffect DEF TypeOK
  <2> QED
    BY <2>1, <2>2
<1>4. \A m \in 1..MaxTickets : Waiting(d, m) => Waiting(d, m)'
  BY <1>2, <1>3 DEF Waiting
<1> QED
  BY <1>0, <1>4 DEF PendAt

LEMMA RestartPend ==
  ASSUME TypeOK, NEW d \in Deliveries, RestartProcess, d \notin interrupted', PendAt(d)
  PROVE  PendAt(d)'
<1>0. /\ \A q \in OfDelivery(d) : pc'[q] \notin Attempting /\ pc[q] \notin Attempting
      /\ OfDelivery(d)' = OfDelivery(d)
      /\ interrupted \subseteq interrupted' /\ unscheduled' = unscheduled
  BY RestartEffect DEF RestartProcess
<1>1. \A m \in 1..MaxTickets : ~Spent(d, m)'
  BY <1>0 DEF Spent, Attempting
<1>2. \A m \in 1..MaxTickets : /\ ticket[<<d, m>>] = "free" <=> ticket'[<<d, m>>] = "free"
                               /\ ticket[<<d, m>>] = "acked" <=> ticket'[<<d, m>>] = "acked"
  BY OutsideFrame, Pairs DEF Outside
<1>3. \A m \in 1..MaxTickets : Waiting(d, m) => Waiting(d, m)'
  BY <1>1, <1>2 DEF Waiting
<1> QED
  BY <1>0, <1>3 DEF PendAt, Attempting

LEMMA PendStep ==
  ASSUME TypeOK, PlaceInv, RowInv, PendInv, Next
  PROVE  PendInv'
<1>1. ASSUME NEW d \in Deliveries, row'[d] = "retrying", d \notin unscheduled' \cup interrupted'
      PROVE  PendAt(d)'
  <2>0. /\ row[d] = "retrying" => PendAt(d)
        /\ interrupted \subseteq interrupted' /\ unscheduled \subseteq unscheduled'
    BY FewerUndisturbed DEF PendInv, PendAt
  <2>1. ASSUME NEW r \in Runs, Stepping(r) PROVE PendAt(d)'
    <3>1. CASE d # DeliveryOf(r)
      BY <1>1, <2>0, <2>1, <3>1, RunStill, StillPend
    <3>2. CASE d = DeliveryOf(r)
      BY <1>1, <2>0, <2>1, <3>2, RunPend
    <3> QED
      BY <3>1, <3>2
  <2>2. ASSUME NEW e \in Deliveries, NEW n \in 0..MaxTickets, Beginning(e, n) PROVE PendAt(d)'
    <3>1. CASE d # e
      BY <1>1, <2>0, <2>2, <3>1, BeginStill, StillPend
    <3>2. CASE d = e
      <4>1. row' = row
        BY <2>2, BeginEffect DEF rowVars
      <4> QED
        BY <1>1, <2>0, <2>2, <3>2, <4>1, BeginPend
    <3> QED
      BY <3>1, <3>2
  <2>3. CASE EditHook \/ DeleteHook
    BY <1>1, <2>0, <2>3, EditStill, StillPend
  <2>4. CASE RestartProcess
    BY <1>1, <2>0, <2>4, RestartPend DEF RestartProcess, rowVars
  <2> QED
    BY <2>1, <2>2, <2>3, <2>4, NextSteps DEF Outside
<1> QED
  BY <1>1 DEF PendInv, PendAt

-----------------------------------------------------------------------------
(***************************************************************************)
(* The invariant holds.                                                    *)
(***************************************************************************)
LEMMA InitInv == Init => IInv
<1> SUFFICES ASSUME Init PROVE IInv
  OBVIOUS
<1>0. \A d \in Deliveries : /\ OfDelivery(d) \subseteq Runs
                            /\ \A r \in OfDelivery(d) : r \in Runs
  BY DEF OfDelivery
<1>1. TypeOK
  BY WebhooksAssumption DEF Init, TypeOK, RowStates, TicketStates, Steps, Resting
<1>2. CountInv
  <2>1. \A d : Cardinality(Past(d)) \in Nat
    BY PastFinite, WebhooksAssumption
  <2> QED
    BY <2>1, Pairs DEF Init, CountInv
<1>3. PlaceInv
  BY Pairs DEF Init, PlaceInv, RunInv
<1>4. RowInv
  BY <1>0, WebhooksAssumption DEF Init, RowInv, RowAt
<1>5. \A d \in Deliveries : Chains(d) = {}
  <2>1. ASSUME NEW d \in Deliveries, NEW n \in Chains(d) PROVE FALSE
    <3>1. n \in 0..MaxTickets
      BY DEF Chains
    <3>2. n # 0 => <<d, n>> \in Tickets
      BY <3>1, Pairs
    <3> QED
      BY <1>0, <3>1, <3>2 DEF Init, Chains, Serving, Waiting, Working, Live, Resting
  <2> QED
    BY <2>1
<1>6. SoloInv
  <2>1. ASSUME NEW d \in Deliveries PROVE SoloAt(d)
    <3>1. Open(d) = 0
      BY <1>5, FS_EmptySet DEF Open
    <3>2. \A r \in OfDelivery(d) : pc[r] = "idle" /\ ~Live(r) /\ ~Working(r)
      BY <1>0 DEF Init, Live, Working, Resting
    <3>3. Debt(d) = 0
      BY <3>2 DEF Debt, Recording
    <3>4. posts[d] = 0 /\ attempts[d] = 0 /\ manual[d] = 0
      BY DEF Init
    <3>5. PICK n \in Limits : n \in Nat
      BY WebhooksAssumption
    <3>6. posts[d] + Open(d) <= n + manual[d] + Debt(d) /\ Open(d) <= 1 + manual[d]
      BY <3>1, <3>3, <3>4, <3>5
    <3> QED
      BY <3>2, <3>3, <3>4, <3>6 DEF SoloAt
  <2> QED
    BY <2>1 DEF SoloInv, Undisturbed
<1>7. OnceInv
  BY <1>5 DEF OnceInv, OnceAt, Undisturbed
<1>8. PendInv
  BY DEF Init, PendInv
<1> QED
  BY <1>1, <1>2, <1>3, <1>4, <1>6, <1>7, <1>8 DEF IInv

LEMMA FreshStep ==
  ASSUME TypeOK, CountInv, PlaceInv, RowInv, Next
  PROVE  TypeOK' /\ CountInv' /\ PlaceInv' /\ RowInv'
<1>1. ASSUME NEW r \in Runs, Stepping(r) PROVE TypeOK' /\ CountInv' /\ PlaceInv' /\ RowInv'
  BY <1>1, RunCount, RunType, RunPlace, RunRow
<1>2. ASSUME NEW d \in Deliveries, NEW n \in 0..MaxTickets, Beginning(d, n)
      PROVE  TypeOK' /\ CountInv' /\ PlaceInv' /\ RowInv'
  BY <1>2, BeginCount, BeginType, BeginPlace, BeginRow
<1>3. CASE Outside
  BY <1>3, OutsideCount, OutsideType, OutsidePlace, OutsideRow
<1> QED
  BY <1>1, <1>2, <1>3, NextSteps

LEMMA InductiveStep == IInv /\ [Next]_vars => IInv'
<1> SUFFICES ASSUME IInv, [Next]_vars PROVE IInv'
  OBVIOUS
<1>1. CASE Next
  BY <1>1, FreshStep, SoloStep, OnceStep, PendStep DEF IInv
<1>2. CASE UNCHANGED vars
  <2>1. UNCHANGED <<runtime, limit, row, attempts, ticket, tries, runs, manual, pc, serves>>
        /\ UNCHANGED <<seen, allowed, ok, posts, overlapped, interrupted, unscheduled, events>>
    BY <1>2 DEF vars, rowVars, queueVars, localVars
  <2>2. TypeOK' /\ CountInv' /\ PlaceInv' /\ RowInv'
    BY <2>1 DEF IInv, TypeOK, CountInv, PlaceInv, RunInv, RowInv, RowAt, OfDelivery, Posted,
       Past, DeliveryOf, TicketOf, Runs
  <2>3. \A d \in Deliveries : Still(d)
    BY <2>1 DEF Still
  <2>4. \A d \in Deliveries : Chains(d)' = Chains(d) /\ Posted(d)' = Posted(d)
    BY <2>1, <2>3, StillChains DEF IInv, Posted, DeliveryOf
  <2>5. SoloInv'
    BY <2>1, <2>3, StillSolo DEF IInv, SoloInv, Undisturbed
  <2>6. OnceInv'
    BY <2>1, <2>4 DEF IInv, OnceInv, OnceAt, Undisturbed
  <2>7. PendInv'
    <3>1. ASSUME NEW d \in Deliveries, row'[d] = "retrying" PROVE PendAt(d)'
      BY <2>1, <2>3, <3>1, StillPend DEF IInv, PendInv, PendAt
    <3> QED
      BY <3>1 DEF PendInv, PendAt
  <2> QED
    BY <2>2, <2>5, <2>6, <2>7 DEF IInv
<1> QED
  BY <1>1, <1>2

(***************************************************************************)
(* The strengthening of the properties below, for every instance.          *)
(***************************************************************************)
THEOREM Invariance == Spec => []IInv
BY InitInv, InductiveStep, PTL DEF Spec

(***************************************************************************)
(* Every variable keeps its type: the counters of attempts and posts never *)
(* outrun the runs that were begun.                                        *)
(***************************************************************************)
THEOREM TypeCorrect == Spec => []TypeOK
<1>1. IInv => TypeOK
  BY DEF IInv
<1> QED
  BY <1>1, Invariance, PTL

(***************************************************************************)
(* The attempts shown are the posts made, and the posts are bounded, for a *)
(* delivery none of whose runs overlapped or was cut off (webhooks.ts).    *)
(***************************************************************************)
THEOREM AttemptsAreCountedHolds == Spec => []AttemptsAreCounted
<1>1. IInv => AttemptsAreCounted
  <2> SUFFICES ASSUME IInv, NEW d \in Undisturbed
               PROVE  /\ row[d] # "gone" => posts[d] = attempts[d] +
                           (IF \E r \in Runs : DeliveryOf(r) = d /\ pc[r] = "record" THEN 1 ELSE 0)
                      /\ \E n \in Limits : posts[d] <= n + manual[d]
    BY DEF AttemptsAreCounted
  <2>0. /\ SoloAt(d) /\ TypeOK /\ d \in Deliveries /\ Limits \subseteq Nat
        /\ posts[d] \in Nat /\ manual[d] \in Nat
    BY WebhooksAssumption DEF IInv, SoloInv, Undisturbed, TypeOK
  <2>1. Debt(d) = IF \E r \in Runs : DeliveryOf(r) = d /\ pc[r] = "record" THEN 1 ELSE 0
    BY DEF Debt, Recording, OfDelivery
  <2>2. PICK n \in Limits : posts[d] + Open(d) <= n + manual[d] + Debt(d)
    BY <2>0 DEF SoloAt
  <2>3. IsFiniteSet(Chains(d)) /\ Open(d) \in Nat
    BY ChainTypes, ChainsFinite DEF Open
  <2>4. Debt(d) = 1 => Open(d) >= 1
    <3>1. ASSUME Debt(d) = 1 PROVE Open(d) >= 1
      <4>1. PICK r \in Runs : DeliveryOf(r) = d /\ pc[r] = "record"
        BY <2>1, <3>1
      <4>2. serves[r] \in Chains(d)
        BY <2>0, <4>1, ChainOf DEF Working, Live, Resting
      <4>3. Open(d) # 0
        BY <2>3, <4>2, FS_EmptySet DEF Open
      <4> QED
        BY <2>3, <4>3
    <3> QED
      BY <3>1
  <2>5. n \in Nat /\ Debt(d) \in {0, 1}
    BY <2>0 DEF Debt
  <2>6. posts[d] <= n + manual[d]
    BY <2>0, <2>2, <2>3, <2>4, <2>5
  <2> QED
    BY <2>0, <2>1, <2>6 DEF SoloAt
<1> QED
  BY <1>1, Invariance, PTL

(***************************************************************************)
(* A delivery that says retrying has a retry to come, or one of the known  *)
(* ways to lose it (webhooks.ts:119-143).                                  *)
(***************************************************************************)
THEOREM RetryingIsPendingHolds == Spec => []RetryingIsPending
<1>1. IInv => RetryingIsPending
  BY Pairs DEF IInv, PendInv, RetryingIsPending, Waiting, OfDelivery
<1> QED
  BY <1>1, Invariance, PTL

-----------------------------------------------------------------------------
(***************************************************************************)
(* Posting implements Once.                                                *)
(***************************************************************************)
Doubtful == (Deliveries \ Undisturbed) \cup {d \in Deliveries : manual[d] > 0}
Took(d) == Cardinality(Posted(d))

LEMMA PostedFinite ==
  ASSUME NEW d, ok \subseteq Runs
  PROVE  IsFiniteSet(Posted(d)) /\ Took(d) \in Nat
<1>1. Posted(d) \in SUBSET Runs /\ \A r \in Posted(d) : DeliveryOf(r) = d
  BY DEF Posted
<1> QED
  BY <1>1, FewRuns, WebhooksAssumption DEF Took

LEMMA TookGrows ==
  ASSUME TypeOK, PlaceInv, Next, NEW d \in Deliveries
  PROVE  Took(d)' \in {Took(d), Took(d) + 1}
<1>1. \/ ok' = ok
      \/ \E r \in Runs : ok' = ok \cup {r}
  <2>1. ASSUME NEW r \in Runs, Stepping(r) PROVE ok' = ok \/ ok' = ok \cup {r}
    BY <2>1, SetsFrame
  <2> QED
    BY <2>1, NextSteps, BeginEffect, OutsideFrame DEF localVars
<1>2. IsFiniteSet(Posted(d))
  BY PostedFinite DEF TypeOK
<1>3. CASE ok' = ok
  BY <1>3 DEF Took, Posted, DeliveryOf
<1>4. ASSUME NEW r \in Runs, ok' = ok \cup {r} PROVE Took(d)' \in {Took(d), Took(d) + 1}
  <2>1. Posted(d)' = Posted(d) \/ Posted(d)' = Posted(d) \cup {r}
    BY <1>4 DEF Posted, DeliveryOf
  <2>2. Cardinality(Posted(d) \cup {r}) \in {Cardinality(Posted(d)), Cardinality(Posted(d)) + 1}
    BY <1>2, FS_AddElement
  <2> QED
    BY <2>1, <2>2 DEF Took
<1> QED
  BY <1>1, <1>3, <1>4

LEMMA DoubtGrows ==
  ASSUME TypeOK, PlaceInv, Next
  PROVE  Doubtful \subseteq Doubtful'
<1>1. ASSUME NEW d \in Deliveries, manual[d] > 0 PROVE manual'[d] > 0
  <2>1. manual[d] \in Nat /\ manual \in [Deliveries -> 0..MaxEvents]
    BY WebhooksAssumption DEF TypeOK
  <2>2. \/ UNCHANGED manual
        \/ \E e \in Deliveries : manual' = [manual EXCEPT ![e] = @ + 1]
    BY NextSteps, RunFrame, OutsideFrame DEF Beginning, Dispatch, RetryManually, Deliver,
       DeliverDuplicate
  <2>3. manual'[d] = manual[d] \/ manual'[d] = manual[d] + 1
    BY <2>1, <2>2
  <2> QED
    BY <1>1, <2>1, <2>3
<1> QED
  BY <1>1, FewerUndisturbed DEF Doubtful

LEMMA RunKeepsPromise ==
  ASSUME TypeOK, PlaceInv, RowInv, NEW r \in Runs, Stepping(r),
         NEW d \in Deliveries, d = DeliveryOf(r), SoloAt(d), OnceAt(d)
  PROVE  \/ row[d] = "none" /\ row'[d] = "pending" /\ Took(d)' = Took(d)
         \/ row[d] \in {"pending", "retrying", "gone"} /\ row'[d] = row[d]
            /\ Took(d) = 0 /\ Took(d)' = 1
         \/ row[d] \in {"pending", "retrying"} /\ row'[d] = "delivered"
            /\ Took(d) = 1 /\ Took(d)' = Took(d)
         \/ row[d] \in {"pending", "retrying"} /\ row'[d] = "exhausted"
            /\ Took(d) = 0 /\ Took(d)' = Took(d)
         \/ row[d] \in {"pending", "retrying"} /\ row'[d] = "retrying" /\ Took(d)' = Took(d)
         \/ row'[d] = row[d] /\ Took(d)' = Took(d)
<1>0. /\ r \in OfDelivery(d) /\ pc \in [Runs -> Steps] /\ ok \subseteq Runs
      /\ row \in [Deliveries -> RowStates] /\ RunInv(r) /\ RowAt(d)
      /\ Posted(d) \subseteq OfDelivery(d)
      /\ Posted(d) = {q \in ok : DeliveryOf(q) = d}
      /\ Posted(d)' = {q \in ok' : DeliveryOf(q) = d}
  BY DEF TypeOK, OfDelivery, DeliveryOf, PlaceInv, RowInv, Posted
<1>1. ok' = ok => Took(d)' = Took(d)
  BY <1>0 DEF Took
<1>2. ASSUME pc[r] \in {"post", "record"}
      PROVE  /\ row[d] \in {"pending", "retrying", "gone"}
             /\ \A q \in Posted(d) : q = r /\ pc[r] = "record"
  <2>1. Working(r)
    BY <1>2 DEF Working, Live, Resting
  <2>2. /\ row[d] \in {"none", "pending", "retrying", "gone"}
        /\ \A q \in Posted(d) : pc[q] = "record"
    BY <2>1, ChainOf DEF OnceAt
  <2>3. \A q \in OfDelivery(d) : Working(q) => q = r
    BY <1>0, <2>1 DEF SoloAt
  <2> QED
    BY <1>0, <1>2, <2>2, <2>3 DEF RowAt, Working, Live, Resting
<1>3. Cardinality({}) = 0 /\ Cardinality({r}) = 1
  BY FS_EmptySet, FS_Singleton
<1>4. CASE CreateDelivery(r)
  BY <1>0, <1>1, <1>4 DEF CreateDelivery, RunInv, localVars
<1>5. CASE Stops(r) \/ ReadDelivery(r) \/ ReadHook(r) \/ ScheduleRetry(r) \/ EndRun(r)
  BY <1>1, <1>5, StopEffect DEF ReadDelivery, ReadHook, ScheduleRetry, EndRun, rowVars, localVars
<1>6. CASE Post(r)
  <2>1. pc[r] = "post" /\ row'[d] = row[d] /\ ok' \in {ok, ok \cup {r}}
    BY <1>6 DEF Post, rowVars
  <2>2. Posted(d) = {}
    BY <1>2, <2>1
  <2>3. CASE ok' = ok
    BY <1>1, <2>1, <2>3
  <2>4. CASE ok' = ok \cup {r}
    <3>1. Posted(d)' = {r}
      BY <1>0, <2>2, <2>4
    <3> QED
      BY <1>2, <1>3, <2>1, <2>2, <3>1 DEF Took
  <2> QED
    BY <2>1, <2>3, <2>4
<1>7. CASE Record(r)
  <2>1. pc[r] = "record" /\ ok' = ok
    BY <1>7 DEF Record, localVars
  <2>2. CASE row[d] = "gone"
    BY <1>1, <1>7, <2>1, <2>2 DEF Record, rowVars
  <2>3. CASE row[d] # "gone" /\ r \in ok
    <3>1. row'[d] = "delivered"
      BY <1>0, <1>7, <2>3 DEF Record
    <3>2. Posted(d) = {r}
      BY <1>0, <1>2, <2>1, <2>3
    <3> QED
      BY <1>1, <1>2, <1>3, <2>1, <2>3, <3>1, <3>2 DEF Took
  <2>4. CASE row[d] # "gone" /\ r \notin ok
    <3>1. row'[d] \in {"retrying", "exhausted"}
      BY <1>0, <1>7, <2>4 DEF Record
    <3>2. Posted(d) = {}
      BY <1>0, <1>2, <2>1, <2>4
    <3> QED
      BY <1>1, <1>2, <1>3, <2>1, <2>4, <3>1, <3>2 DEF Took
  <2> QED
    BY <2>2, <2>3, <2>4
<1> QED
  BY <1>4, <1>5, <1>6, <1>7 DEF Stepping, Stops, Run

LEMMA StepImplements ==
  ASSUME IInv, IInv', [Next]_vars
  PROVE  [Event!Next]_(Event!vars)
<1> DEFINE state == [d \in Deliveries |-> RowState(d)]
           effects == [d \in Deliveries |-> Took(d)]
<1>n. CASE UNCHANGED vars
  <2>1. UNCHANGED <<row, ok, overlapped, interrupted, manual>>
    BY <1>n DEF vars, rowVars, localVars
  <2> QED
    BY <2>1 DEF Event!vars, RowState, Undisturbed, DeliveryOf
<1>a. CASE Next
  <2>0. /\ TypeOK /\ TypeOK' /\ PlaceInv /\ RowInv /\ RowInv' /\ SoloInv /\ OnceInv
        /\ row \in [Deliveries -> RowStates] /\ row' \in [Deliveries -> RowStates]
    BY DEF IInv, TypeOK, RowStates
  <2>1. state' \in [Deliveries -> Event!States]
    BY <2>0 DEF RowState, Event!States, RowStates
  <2>2. effects' \in [Deliveries -> Nat]
    <3>1. \A d \in Deliveries : Took(d) \in Nat
      BY <2>0, PostedFinite DEF TypeOK
    <3>2. \A d \in Deliveries : Took(d)' \in Nat
      BY <1>a, <2>0, <3>1, TookGrows
    <3> QED
      BY <3>2
  <2>3. Doubtful \subseteq Doubtful' /\ Doubtful' \subseteq Deliveries
    BY <1>a, <2>0, DoubtGrows DEF Doubtful
  <2>4. ASSUME NEW d \in Deliveries
        PROVE  /\ effects'[d] \in {effects[d], effects[d] + 1}
               /\ state'[d] = "done" => effects'[d] > 0
    <3>1. state'[d] = "done" => Posted(d)' # {}
      BY <2>0 DEF RowState, RowStates, RowInv, RowAt
    <3>2. effects'[d] \in Nat /\ IsFiniteSet(Posted(d)')
      <4>1. Posted(d)' \in SUBSET Runs /\ \A r \in Posted(d)' : DeliveryOf(r) = d
        BY <2>0 DEF TypeOK, Posted, DeliveryOf, Runs
      <4> QED
        BY <2>2, <4>1, FewRuns
    <3>3. Posted(d)' # {} => Cardinality(Posted(d)') # 0
      BY <3>2, FS_EmptySet
    <3> QED
      BY <1>a, <2>0, <3>1, <3>2, <3>3, TookGrows DEF Took
  <2>5. ASSUME NEW d \in Deliveries, d \notin Doubtful'
        PROVE  \/ state[d] = "new" /\ state'[d] = "open" /\ effects'[d] = effects[d]
               \/ state[d] \in {"open", "gone"} /\ effects[d] = 0 /\ state'[d] = state[d]
                  /\ effects'[d] = 1
               \/ state[d] = "open" /\ effects[d] = 1 /\ state'[d] = "done"
                  /\ effects'[d] = effects[d]
               \/ state[d] = "open" /\ effects[d] = 0 /\ state'[d] = "failed"
                  /\ effects'[d] = effects[d]
               \/ state[d] # "new" /\ state'[d] = "gone" /\ effects'[d] = effects[d]
               \/ state'[d] = state[d] /\ effects'[d] = effects[d]
    <3>0. d \notin Doubtful /\ SoloAt(d) /\ OnceAt(d)
      <4>1. manual[d] = 0 /\ d \in Undisturbed
        BY <2>0, <2>3, <2>5, WebhooksAssumption DEF Doubtful, TypeOK
      <4> QED
        BY <2>0, <2>3, <2>5, <4>1 DEF SoloInv, OnceInv
    <3>1. ASSUME NEW r \in Runs, Stepping(r)
          PROVE  \/ row[d] = "none" /\ row'[d] = "pending" /\ Took(d)' = Took(d)
                 \/ row[d] \in {"pending", "retrying", "gone"} /\ row'[d] = row[d]
                    /\ Took(d) = 0 /\ Took(d)' = 1
                 \/ row[d] \in {"pending", "retrying"} /\ row'[d] = "delivered"
                    /\ Took(d) = 1 /\ Took(d)' = Took(d)
                 \/ row[d] \in {"pending", "retrying"} /\ row'[d] = "exhausted"
                    /\ Took(d) = 0 /\ Took(d)' = Took(d)
                 \/ row[d] \in {"pending", "retrying"} /\ row'[d] = "retrying"
                    /\ Took(d)' = Took(d)
                 \/ row'[d] = row[d] /\ Took(d)' = Took(d)
      <4>1. CASE d = DeliveryOf(r)
        BY <2>0, <3>0, <3>1, <4>1, RunKeepsPromise
      <4>2. CASE d # DeliveryOf(r)
        <5>1. row'[d] = row[d] /\ ok \subseteq ok' /\ ok' \subseteq ok \cup {r}
          BY <2>0, <3>1, <4>2, DeliveryFrame, SetsFrame
        <5>2. Posted(d)' = Posted(d)
          BY <4>2, <5>1 DEF Posted, DeliveryOf
        <5> QED
          BY <5>1, <5>2 DEF Took
      <4> QED
        BY <4>1, <4>2
    <3>2. ASSUME ~(\E r \in Runs : Stepping(r))
          PROVE  /\ Took(d)' = Took(d)
                 /\ row'[d] = row[d] \/ (row[d] # "none" /\ row'[d] = "gone")
      <4>1. ok' = ok /\ (row'[d] = row[d] \/ (row[d] # "none" /\ row'[d] = "gone"))
        BY <1>a, <2>0, <3>2, NextSteps, BeginEffect, OutsideFrame DEF localVars, rowVars
      <4> QED
        BY <4>1 DEF Took, Posted, DeliveryOf
    <3>3. /\ state[d] = RowState(d) /\ state'[d] = RowState(d)'
          /\ effects[d] = Took(d) /\ effects'[d] = Took(d)'
      OBVIOUS
    <3>4. /\ row[d] = "none" => RowState(d) = "new"
          /\ row[d] # "none" => RowState(d) # "new"
          /\ row[d] \in {"pending", "retrying"} => RowState(d) = "open"
          /\ row[d] = "gone" => RowState(d) = "gone"
          /\ row'[d] \in {"pending", "retrying"} => RowState(d)' = "open"
          /\ row'[d] = "delivered" => RowState(d)' = "done"
          /\ row'[d] = "exhausted" => RowState(d)' = "failed"
          /\ row'[d] = "gone" => RowState(d)' = "gone"
          /\ row'[d] = row[d] => RowState(d)' = RowState(d)
      BY <2>0 DEF RowState, RowStates
    <3> HIDE DEF state, effects
    <3>5. CASE \E r \in Runs : Stepping(r)
      BY <3>1, <3>3, <3>4, <3>5
    <3>6. CASE ~(\E r \in Runs : Stepping(r))
      BY <3>2, <3>3, <3>4, <3>6
    <3> QED
      BY <3>5, <3>6
  <2> HIDE DEF state, effects
  <2>6. ASSUME NEW d \in Deliveries
        PROVE  \/ Event!Open(d) \/ Event!Perform(d) \/ Event!Finish(d) \/ Event!GiveUp(d)
               \/ Event!Withdraw(d) \/ Event!Rest(d) \/ Event!Wander(d)
    <3>1. CASE d \in Doubtful'
      <4>1. /\ effects'[d] \in {effects[d], effects[d] + 1}
            /\ state'[d] = "done" => effects'[d] > 0
        BY <2>4
      <4> QED
        BY <3>1, <4>1 DEF Event!Wander, state, effects, Took, Posted, Doubtful
    <3>2. CASE d \notin Doubtful'
      <4>1. CASE state[d] = "new" /\ state'[d] = "open" /\ effects'[d] = effects[d]
        BY <4>1 DEF Event!Open, Event!Says, state, effects, Took, Posted
      <4>2. CASE /\ state[d] \in {"open", "gone"} /\ effects[d] = 0 /\ state'[d] = state[d]
                 /\ effects'[d] = 1
        BY <4>2 DEF Event!Perform, state, effects, Took, Posted
      <4>3. CASE /\ state[d] = "open" /\ effects[d] = 1 /\ state'[d] = "done"
                 /\ effects'[d] = effects[d]
        BY <4>3 DEF Event!Finish, Event!Says, state, effects, Took, Posted
      <4>4. CASE /\ state[d] = "open" /\ effects[d] = 0 /\ state'[d] = "failed"
                 /\ effects'[d] = effects[d]
        BY <4>4 DEF Event!GiveUp, Event!Says, state, effects, Took, Posted
      <4>5. CASE state[d] # "new" /\ state'[d] = "gone" /\ effects'[d] = effects[d]
        BY <4>5 DEF Event!Withdraw, Event!Says, state, effects, Took, Posted
      <4>6. CASE state'[d] = state[d] /\ effects'[d] = effects[d]
        BY <4>6 DEF Event!Rest, Event!Says, state, effects, Took, Posted
      <4> QED
        BY <2>5, <3>2, <4>1, <4>2, <4>3, <4>4, <4>5, <4>6
    <3> QED
      BY <3>1, <3>2
  <2>7. /\ [d \in Deliveries |-> RowState(d)]' \in [Deliveries -> Event!States]
        /\ [d \in Deliveries |-> Cardinality({r \in ok : DeliveryOf(r) = d})]'
              \in [Deliveries -> Nat]
    BY <2>1, <2>2 DEF state, effects, Took, Posted
  <2>8. LET D == (Deliveries \ Undisturbed) \cup {d \in Deliveries : manual[d] > 0}
        IN  D \subseteq D' /\ D' \subseteq Deliveries
    BY <2>3 DEF Doubtful
  <2>9. Event!Next
    BY <2>6, <2>7, <2>8 DEF Event!Next
  <2> QED
    BY <2>9
<1> QED
  BY <1>n, <1>a

(***************************************************************************)
(* Posting keeps the promise of Once: an event the endpoint took is not    *)
(* posted again and is shown as it came out, for every delivery in no      *)
(* doubt (webhooks.ts:119-124).                                            *)
(***************************************************************************)
THEOREM ImplementsOnce == Spec => PostsOnce
<1>1. Init => Event!Init
  <2> SUFFICES ASSUME Init PROVE Event!Init
    OBVIOUS
  <2>1. \A d \in Deliveries : /\ Cardinality({r \in ok : DeliveryOf(r) = d}) = 0
                              /\ RowState(d) = "new"
    BY FS_EmptySet DEF Init, RowState
  <2>2. (Deliveries \ Undisturbed) \cup {d \in Deliveries : manual[d] > 0} = {}
    BY DEF Init, Undisturbed
  <2> QED
    BY <2>1, <2>2 DEF Event!Init
<1>2. IInv /\ IInv' /\ [Next]_vars => [Event!Next]_(Event!vars)
  BY StepImplements
<1> QED
  BY <1>1, <1>2, Invariance, PTL DEF Spec, PostsOnce, Event!Spec

(***************************************************************************)
(* What Once promises holds of every delivery: taken by the endpoint at    *)
(* most once, and taken if it is shown as delivered, not taken if it is    *)
(* shown as exhausted, unless it is in doubt (webhooks.ts:119-124).        *)
(***************************************************************************)
THEOREM PromiseHolds == Spec => []Event!Promise
<1> DEFINE state == [i \in Deliveries |-> RowState(i)]
           effects == [i \in Deliveries |-> Cardinality({r \in ok : DeliveryOf(r) = i})]
           doubtful == (Deliveries \ Undisturbed) \cup {d \in Deliveries : manual[d] > 0}
           TypeOnce == /\ state \in [Deliveries -> Event!States] /\ effects \in [Deliveries -> Nat]
                       /\ doubtful \subseteq Deliveries
<1>1. Event!Init => TypeOnce /\ Event!Promise
  BY DEF Event!Init, Event!Promise, Event!States
<1>2. TypeOnce /\ Event!Promise /\ [Event!Next]_(Event!vars) => TypeOnce' /\ Event!Promise'
  <2> SUFFICES ASSUME TypeOnce, Event!Promise, [Event!Next]_(Event!vars)
               PROVE  TypeOnce' /\ Event!Promise'
    OBVIOUS
  <2>1. CASE UNCHANGED Event!vars
    <3>1. state' = state /\ effects' = effects /\ doubtful' = doubtful
      BY <2>1 DEF Event!vars
    <3>. QED BY <3>1 DEF Event!Promise
  <2>2. CASE Event!Next
    <3>1. TypeOnce'
      BY <2>2 DEF Event!Next
    <3>2. ASSUME NEW i \in Deliveries
          PROVE  /\ state'[i] = "done" => effects'[i] > 0
                 /\ \/ i \in doubtful'
                    \/ effects'[i] <= (IF state'[i] \in {"new", "failed"} THEN 0 ELSE 1)
      <4>1. /\ state[i] \in Event!States /\ effects[i] \in Nat /\ doubtful \subseteq doubtful'
            /\ state[i] = "done" => effects[i] > 0
            /\ i \in doubtful \/ effects[i] <= (IF state[i] \in {"new", "failed"} THEN 0 ELSE 1)
        BY <2>2 DEF Event!Next, Event!Promise
      <4>2. \/ Event!Open(i) \/ Event!Perform(i) \/ Event!Finish(i) \/ Event!GiveUp(i)
            \/ Event!Withdraw(i) \/ Event!Rest(i) \/ Event!Wander(i)
        BY <2>2 DEF Event!Next
      <4>3. CASE Event!Wander(i)
        BY <4>1, <4>3 DEF Event!Wander
      <4>4. CASE Event!Perform(i)
        BY <4>1, <4>4 DEF Event!Perform
      <4>5. CASE \/ Event!Open(i) \/ Event!Finish(i) \/ Event!GiveUp(i)
                 \/ Event!Withdraw(i) \/ Event!Rest(i)
        BY <4>1, <4>5 DEF Event!Open, Event!Finish, Event!GiveUp, Event!Withdraw, Event!Rest,
           Event!Says, Event!States
      <4>. QED BY <4>2, <4>3, <4>4, <4>5
    <3>. QED BY <3>1, <3>2 DEF Event!Promise
  <2>. QED BY <2>1, <2>2
<1> HIDE DEF TypeOnce
<1>3. QED BY <1>1, <1>2, ImplementsOnce, PTL DEF PostsOnce, Event!Spec
=============================================================================
