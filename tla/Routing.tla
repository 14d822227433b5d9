------------------------------ MODULE Routing ------------------------------
(***************************************************************************)
(* resolveInboundAddress (lib/email/routing.ts): what happens to mail for  *)
(* one address, found in three phases by queries of their own, while rules *)
(* and mailboxes change; and recordRuleMatch, which counts the matches.    *)
(*                                                                         *)
(* There is one recipient and one sender.  A mailbox is what it is to that *)
(* address, a rule whether it hits them.                                   *)
(***************************************************************************)
EXTENDS Integers, FiniteSets

CONSTANTS
  Boxes,          \* mailboxes
  None,           \* no mailbox
  MaxRules,       \* bound: rules; numbered by createdAt
  Drafts,         \* rules considered
  Layouts,        \* boxes and rules considered to begin with
  MaxResolutions, \* bound: calls of resolveInboundAddress
  MaxEdits        \* bound: changes of rules, mailboxes and the domain

RuleIds == 1..MaxRules
Resolutions == 1..MaxResolutions

(***************************************************************************)
(* A mailbox of the domain has the address's local part literally, or up   *)
(* to dots, case and a +suffix, or another one; a mailbox of another domain*)
(* of the owner has the same local part up to those.  Mailboxes are never  *)
(* disabled: no handler writes that column.                                *)
(***************************************************************************)
Homes == {"literal", "variant", "here", "away"}
Box == [home : Homes \cup {"unborn", "gone"}, alias : BOOLEAN, everywhere : BOOLEAN]

\* A rule that is not enabled hits nobody; a forward has an address.
Rule == [action : {"reject", "forward", "store"}, hits : {"never", "sender", "any"},
         box : Boxes \cup {None}, keep : BOOLEAN, priority : Nat]
Vacant == [action |-> "vacant", hits |-> "never", box |-> None, keep |-> FALSE, priority |-> 0]
Deleted == [Vacant EXCEPT !.action = "deleted"]

ASSUME RoutingAssumption ==
  /\ MaxRules \in Nat /\ MaxResolutions \in Nat /\ MaxEdits \in Nat
  /\ IsFiniteSet(Boxes) /\ None \notin Boxes
  /\ Drafts \subseteq Rule
  /\ Layouts \subseteq [boxes : [Boxes -> Box],
                        rules : [RuleIds -> Drafts \cup {Vacant}]]
  \* The mailbox of a rule is a foreign key, and one of the domain.
  /\ \A l \in Layouts : \A i \in RuleIds :
       l.rules[i].box = None \/ l.boxes[l.rules[i].box].home \in Homes \ {"away"}

Decisions == [action : {"none", "reject", "store", "forward"},
              rule : RuleIds \cup {0}, box : Boxes \cup {None}, keep : BOOLEAN]
Null == [action |-> "none", rule |-> 0, box |-> None, keep |-> FALSE]
Reject(i) == [Null EXCEPT !.action = "reject", !.rule = i]
Store(b) == [Null EXCEPT !.action = "store", !.box = b]

VARIABLES
  active,       \* the domain's status
  boxes,        \* the mailboxes and their aliases in the domain
  rules,        \* the domain's rules
  matchCount,   \* and their counts
  asker,        \* who asks
  pc,           \* program counter of each resolution
  seen,         \* the rules as a resolution read them
  rest,         \* fallback rules it has yet to try
  candidates,   \* mailboxes of all domains it has yet to try
  counted,      \* the count it read
  decision,     \* its answer
  (* history, read by no action *)
  could,        \* answers the tables called for at some time while it ran
  stood,        \* mailboxes at the address, and rules blocking, all the while
  meanwhile,    \* edits while it ran
  moved,        \* whether the address got a mailbox or alias, or lost its domain
  edits         \* counter for the bound

tables == <<active, boxes, rules>>
localVars == <<asker, seen, rest, candidates, counted>>
history == <<could, stood, meanwhile, moved>>
vars == <<tables, matchCount, pc, localVars, decision, history, edits>>

Steps == {"idle", "domain", "rules", "exact", "alias", "everywhere", "spread",
          "fallback", "count", "write", "done", "failed"}
Live(r) == pc[r] \notin {"idle", "done", "failed"}
Deciding(r) == Live(r) /\ pc[r] \notin {"count", "write"}

-----------------------------------------------------------------------------
(***************************************************************************)
(* What the tables say.                                                    *)
(***************************************************************************)
Present(b) == b # None /\ boxes[b].home \notin {"unborn", "gone"}
HasAddress(b) == boxes[b].home \in {"literal", "variant"}
AliasedTo(b) == Present(b) /\ boxes[b].alias

\* getMailboxDomainAddresses has the address among those of mailbox b, which
\* was at `home` when it was read.
Answers(b, home) ==
  \/ home \in {"literal", "variant"}
  \/ AliasedTo(b)
  \/ /\ home = "away" /\ active
     /\ \A c \in Boxes \ {b} : ~HasAddress(c) /\ ~AliasedTo(c)

\* Only the intake and the consumer know the sender.
Hits(rule, who) ==
  rule.hits = "any" \/ (rule.hits = "sender" /\ who # "forwarding")

Before(i, k, rs) ==
  rs[i].priority > rs[k].priority \/ (rs[i].priority = rs[k].priority /\ i < k)
First(S, rs) == CHOOSE i \in S : \A k \in S \ {i} : Before(i, k, rs)
Blocking(rs, who) == {i \in RuleIds : rs[i].action = "reject" /\ Hits(rs[i], who)}
Fallbacks(rs, who) ==
  {i \in RuleIds : rs[i].action \in {"forward", "store"} /\ Hits(rs[i], who)}

\* What a fallback rule comes to, with its mailbox as it is now.
ByRule(i, rule) ==
  LET there == Present(rule.box) IN
  [action |-> rule.action, rule |-> i, box |-> IF there THEN rule.box ELSE None,
   keep |-> rule.keep /\ there]
Usable(rule) == rule.action = "forward" \/ Present(rule.box)

(***************************************************************************)
(* The answers one state of the tables calls for: blocks before mailboxes, *)
(* mailboxes before aliases, aliases before mailboxes of all domains, and  *)
(* these before the fallback rules; rules by priority, then by age.        *)
(***************************************************************************)
Route(who) ==
  LET blocking == Blocking(rules, who)
      usable == {i \in Fallbacks(rules, who) : Usable(rules[i])}
      exact == {b \in Boxes : HasAddress(b)}
      aliased == {b \in Boxes : AliasedTo(b)}
      spread == {b \in Boxes : boxes[b].home = "away" /\ boxes[b].everywhere
                                 /\ Answers(b, "away")}
      nearest == IF exact # {} THEN exact ELSE IF aliased # {} THEN aliased ELSE spread
  IN
  CASE ~active -> {Null}
    [] active /\ blocking # {} -> {Reject(First(blocking, rules))}
    [] active /\ blocking = {} /\ nearest # {} -> {Store(b) : b \in nearest}
    [] OTHER -> IF usable = {} THEN {Null}
                ELSE LET i == First(usable, rules) IN {ByRule(i, rules[i])}

Standing(who) ==
  IF active
  THEN [boxes |-> {b \in Boxes : HasAddress(b)}, blocks |-> Blocking(rules, who)]
  ELSE [boxes |-> {}, blocks |-> {}]
Both(s, t) == [boxes |-> s.boxes \cap t.boxes, blocks |-> s.blocks \cap t.blocks]
Nothing == [boxes |-> {}, blocks |-> {}]

Init ==
  /\ active \in BOOLEAN
  /\ \E layout \in Layouts : boxes = layout.boxes /\ rules = layout.rules
  /\ matchCount = [i \in RuleIds |-> 0]
  /\ asker = [r \in Resolutions |-> "nobody"]
  /\ pc = [r \in Resolutions |-> "idle"]
  /\ seen = [r \in Resolutions |-> [i \in RuleIds |-> Vacant]]
  /\ rest = [r \in Resolutions |-> {}]
  /\ candidates = [r \in Resolutions |-> {}]
  /\ counted = [r \in Resolutions |-> 0]
  /\ decision = [r \in Resolutions |-> Null]
  /\ could = [r \in Resolutions |-> {}]
  /\ stood = [r \in Resolutions |-> Nothing]
  /\ meanwhile = [r \in Resolutions |-> 0]
  /\ moved = [r \in Resolutions |-> FALSE]
  /\ edits = 0

-----------------------------------------------------------------------------
(***************************************************************************)
(* One resolution.                                                         *)
(***************************************************************************)
Goto(r, step) == pc' = [pc EXCEPT ![r] = step]
Unasked == UNCHANGED <<tables, asker, history, edits>>
Searching == Unasked /\ UNCHANGED <<matchCount, counted>>

Ask(r, who) ==
  /\ pc[r] = "idle" /\ \A q \in 1..(r - 1) : pc[q] # "idle"
  /\ asker' = [asker EXCEPT ![r] = who]
  /\ Goto(r, "domain")
  /\ could' = [could EXCEPT ![r] = Route(who)]
  /\ stood' = [stood EXCEPT ![r] = Standing(who)]
  /\ UNCHANGED <<tables, matchCount, seen, rest, candidates, counted, decision,
                 meanwhile, moved, edits>>

\* Mutant: the consumer counts a match as well.
DecideAndCount(r, d) ==
  /\ decision' = [decision EXCEPT ![r] = d]
  /\ Goto(r, IF d.rule # 0 THEN "count" ELSE "done")

\* Only the intake records the match of a rule (incoming.ts).
Decide(r, d) ==
  /\ decision' = [decision EXCEPT ![r] = d]
  /\ Goto(r, IF asker[r] = "intake" /\ d.rule # 0 THEN "count" ELSE "done")

Continue(r, step) == Goto(r, step) /\ UNCHANGED decision

FindDomain(r) ==
  /\ pc[r] = "domain"
  /\ IF active THEN Continue(r, "rules") ELSE Decide(r, Null)
  /\ UNCHANGED <<seen, rest, candidates>> /\ Searching

\* Mutant: blocks wait for the mailboxes.
ReadRulesOnly(r) ==
  /\ pc[r] = "rules"
  /\ seen' = [seen EXCEPT ![r] = rules]
  /\ Continue(r, "exact")
  /\ UNCHANGED <<rest, candidates>> /\ Searching

\* Phase 1.
ReadRules(r) ==
  LET blocking == Blocking(rules, asker[r]) IN
  /\ pc[r] = "rules"
  /\ seen' = [seen EXCEPT ![r] = rules]
  /\ IF blocking # {} THEN Decide(r, Reject(First(blocking, rules)))
                      ELSE Continue(r, "exact")
  /\ UNCHANGED <<rest, candidates>> /\ Searching

\* Phase 2; the first row that fits, in whatever order the rows come.
FindExact(r) ==
  LET exact == {b \in Boxes : HasAddress(b)} IN
  /\ pc[r] = "exact"
  /\ IF exact # {} THEN \E b \in exact : Decide(r, Store(b)) ELSE Continue(r, "alias")
  /\ UNCHANGED <<seen, rest, candidates>> /\ Searching

FindAlias(r) ==
  LET aliased == {b \in Boxes : AliasedTo(b)} IN
  /\ pc[r] = "alias"
  /\ IF aliased # {} THEN \E b \in aliased : Decide(r, Store(b))
                     ELSE Continue(r, "everywhere")
  /\ UNCHANGED <<seen, rest, candidates>> /\ Searching

\* Mutant: the local parts are not compared.
ListEveryone(r) ==
  /\ pc[r] = "everywhere"
  /\ candidates' = [candidates EXCEPT ![r] =
       {<<b, boxes[b].home>> : b \in {c \in Boxes : Present(c) /\ boxes[c].everywhere}}]
  /\ Continue(r, "spread")
  /\ UNCHANGED <<seen, rest>> /\ Searching

ListCandidates(r) ==
  /\ pc[r] = "everywhere"
  /\ candidates' = [candidates EXCEPT ![r] =
       {<<b, boxes[b].home>> : b \in {c \in Boxes :
          boxes[c].everywhere /\ boxes[c].home \in {"literal", "variant", "away"}}}]
  /\ Continue(r, "spread")
  /\ UNCHANGED <<seen, rest>> /\ Searching

TryCandidate(r) ==
  /\ pc[r] = "spread"
  /\ \/ \E e \in candidates[r] :
          /\ IF Answers(e[1], e[2]) THEN Decide(r, Store(e[1])) ELSE Continue(r, "spread")
          /\ candidates' = [candidates EXCEPT ![r] = @ \ {e}]
          /\ UNCHANGED rest
     \/ /\ candidates[r] = {}
        /\ rest' = [rest EXCEPT ![r] = Fallbacks(seen[r], asker[r])]
        /\ Continue(r, "fallback")
        /\ UNCHANGED candidates
  /\ UNCHANGED seen /\ Searching

\* Mutant: the oldest rule comes first.
TryOldestRule(r) ==
  LET i == CHOOSE k \in rest[r] : \A l \in rest[r] : k <= l
      rule == seen[r][i]
  IN
  /\ pc[r] = "fallback"
  /\ \/ rest[r] = {} /\ Decide(r, Null) /\ UNCHANGED rest
     \/ /\ rest[r] # {}
        /\ IF Usable(rule) THEN Decide(r, ByRule(i, rule)) ELSE Continue(r, "fallback")
        /\ rest' = [rest EXCEPT ![r] = @ \ {i}]
  /\ UNCHANGED <<seen, candidates>> /\ Searching

\* Phase 3: the rules as they were read, their mailboxes as they are.
TryRule(r) ==
  LET i == First(rest[r], seen[r])
      rule == seen[r][i]
  IN
  /\ pc[r] = "fallback"
  /\ \/ rest[r] = {} /\ Decide(r, Null) /\ UNCHANGED rest
     \/ /\ rest[r] # {}
        /\ IF Usable(rule) THEN Decide(r, ByRule(i, rule)) ELSE Continue(r, "fallback")
        /\ rest' = [rest EXCEPT ![r] = @ \ {i}]
  /\ UNCHANGED <<seen, candidates>> /\ Searching

\* recordRuleMatch; its errors are passed over.
ReadCount(r) ==
  LET i == decision[r].rule IN
  /\ pc[r] = "count"
  /\ counted' = [counted EXCEPT ![r] = matchCount[i]]
  /\ Goto(r, IF rules[i] = Deleted THEN "done" ELSE "write")
  /\ UNCHANGED <<matchCount, seen, rest, candidates, decision>> /\ Unasked

WriteCount(r) ==
  LET i == decision[r].rule IN
  /\ pc[r] = "write"
  /\ matchCount' = [matchCount EXCEPT ![i] = IF rules[i] = Deleted THEN @ ELSE counted[r] + 1]
  /\ Goto(r, "done")
  /\ UNCHANGED <<counted, seen, rest, candidates, decision>> /\ Unasked

\* Any query may throw: the intake takes that for no decision, the consumer's
\* job is retried.
Throw(r) ==
  /\ Live(r)
  /\ Goto(r, "failed")
  /\ UNCHANGED <<seen, rest, candidates, decision>> /\ Searching

Resolve(r) ==
  \/ FindDomain(r) \/ ReadRules(r) \/ FindExact(r) \/ FindAlias(r)
  \/ ListCandidates(r) \/ TryCandidate(r) \/ TryRule(r)
  \/ ReadCount(r) \/ WriteCount(r) \/ Throw(r)

-----------------------------------------------------------------------------
(***************************************************************************)
(* The administrator.                                                      *)
(***************************************************************************)
Edit(moves) ==
  /\ edits < MaxEdits
  /\ edits' = edits + 1
  /\ UNCHANGED <<matchCount, pc, localVars, decision>>
  /\ could' = [r \in Resolutions |->
                 IF Deciding(r) THEN could[r] \cup Route(asker[r])' ELSE could[r]]
  /\ stood' = [r \in Resolutions |->
                 IF Deciding(r) THEN Both(stood[r], Standing(asker[r])') ELSE stood[r]]
  /\ meanwhile' = [r \in Resolutions |->
                     IF Deciding(r) THEN meanwhile[r] + 1 ELSE meanwhile[r]]
  /\ moved' = [r \in Resolutions |-> moved[r] \/ (Deciding(r) /\ moves)]

\* The mailbox of a rule is one of the domain.
SavableAs(rule) ==
  rule.box \in {None} \cup {b \in Boxes : boxes[b].home \in Homes \ {"away"}}

CreateRule(i, rule) ==
  /\ rules[i] = Vacant /\ \A k \in 1..(i - 1) : rules[k] # Vacant
  /\ SavableAs(rule)
  /\ rules' = [rules EXCEPT ![i] = rule]
  /\ UNCHANGED <<active, boxes>>
  /\ Edit(FALSE)

ChangeRule(i, rule) ==
  /\ rules[i] \notin {Vacant, Deleted, rule}
  /\ SavableAs(rule)
  /\ rules' = [rules EXCEPT ![i] = rule]
  /\ UNCHANGED <<active, boxes>>
  /\ Edit(FALSE)

DeleteRule(i) ==
  /\ rules[i] \notin {Vacant, Deleted}
  /\ rules' = [rules EXCEPT ![i] = Deleted]
  /\ UNCHANGED <<active, boxes>>
  /\ Edit(FALSE)

CreateBox(b, home) ==
  /\ boxes[b].home = "unborn"
  /\ home = "literal" => \A c \in Boxes : boxes[c].home # "literal"
  /\ boxes' = [boxes EXCEPT ![b] = [home |-> home, alias |-> FALSE, everywhere |-> TRUE]]
  /\ UNCHANGED <<active, rules>>
  /\ Edit(home \in {"literal", "variant"})

\* Its aliases go with it, and rules lose their mailbox.
DeleteBox(b) ==
  /\ Present(b)
  /\ boxes' = [boxes EXCEPT ![b].home = "gone", ![b].alias = FALSE]
  /\ rules' = [i \in RuleIds |->
                 IF rules[i].box = b THEN [rules[i] EXCEPT !.box = None] ELSE rules[i]]
  /\ UNCHANGED active
  /\ Edit(FALSE)

ChangeAlias(b) ==
  /\ Present(b)
  /\ boxes' = [boxes EXCEPT ![b].alias = ~@]
  /\ UNCHANGED <<active, rules>>
  /\ Edit(~boxes[b].alias)

ChangeDomains(b) ==
  /\ Present(b)
  /\ boxes' = [boxes EXCEPT ![b].everywhere = ~@]
  /\ UNCHANGED <<active, rules>>
  /\ Edit(FALSE)

ChangeStatus ==
  /\ active' = ~active
  /\ UNCHANGED <<boxes, rules>>
  /\ Edit(active)

Administer ==
  \/ \E i \in RuleIds : DeleteRule(i) \/ \E rule \in Drafts : CreateRule(i, rule) \/ ChangeRule(i, rule)
  \/ \E b \in Boxes : DeleteBox(b) \/ ChangeAlias(b) \/ ChangeDomains(b)
                        \/ \E home \in Homes : CreateBox(b, home)
  \/ ChangeStatus

Next ==
  \/ \E r \in Resolutions : Resolve(r) \/ \E who \in {"intake", "consumer", "forwarding"} : Ask(r, who)
  \/ Administer

Spec == Init /\ [][Next]_vars

-----------------------------------------------------------------------------
(***************************************************************************)
(* Properties                                                              *)
(***************************************************************************)
TypeOK ==
  /\ active \in BOOLEAN
  /\ boxes \in [Boxes -> Box]
  /\ rules \in [RuleIds -> Rule \cup {Vacant, Deleted}]
  /\ matchCount \in [RuleIds -> 0..MaxResolutions]
  /\ asker \in [Resolutions -> {"nobody", "intake", "consumer", "forwarding"}]
  /\ pc \in [Resolutions -> Steps]
  /\ seen \in [Resolutions -> [RuleIds -> Rule \cup {Vacant, Deleted}]]
  /\ rest \in [Resolutions -> SUBSET RuleIds]
  /\ candidates \in [Resolutions -> SUBSET (Boxes \X {"literal", "variant", "away"})]
  /\ counted \in [Resolutions -> 0..MaxResolutions]
  /\ decision \in [Resolutions -> Decisions]
  /\ edits \in 0..MaxEdits

Decided(r) == pc[r] \in {"count", "write", "done"}

(***************************************************************************)
(* A resolution takes no lock, yet with at most one edit on its way its    *)
(* answer is the one the tables called for before it or after it, unless   *)
(* the edit brought the address a mailbox of its own or took its domain:   *)
(* then the search for a mailbox of all domains may miss both, and ends at *)
(* the fallback rules or with no mailbox at all.  Without an edit,         *)
(* the three phases come to the precedence of Route.                       *)
(***************************************************************************)
AnswersOneState ==
  \A r \in Resolutions : Decided(r) =>
    decision[r] \in could[r] \/ meanwhile[r] > 1 \/ moved[r]

(***************************************************************************)
(* Whatever is edited meanwhile, block rules come first, "even when the    *)
(* recipient is a real mailbox" (routing.ts:72-73): while one that hits    *)
(* stays, the answer is to reject.  And "a real mailbox always wins over a *)
(* catch-all" (routing.ts:84): while a mailbox stays at the address no     *)
(* fallback rule answers in its stead, and the mail is not taken for       *)
(* unknown.                                                                *)
(***************************************************************************)
BlocksHold ==
  \A r \in Resolutions : Decided(r) /\ stood[r].blocks # {} => decision[r].action = "reject"
MailboxWins ==
  \A r \in Resolutions : Decided(r) /\ stood[r].boxes # {} =>
    decision[r].action = "reject" \/ (decision[r].action = "store" /\ decision[r].rule = 0)
PrecedenceHolds == BlocksHold /\ MailboxWins

(***************************************************************************)
(* The count the routing page shows is never more than the mails the rule  *)
(* decided at the intake, and not 0 when there was one, although mails at  *)
(* the same time write back the same count (routing.ts:183-194).           *)
(***************************************************************************)
CountsAreSound ==
  \A i \in RuleIds :
    LET matched == {r \in Resolutions : asker[r] = "intake" /\ decision[r].rule = i} IN
    /\ matchCount[i] <= Cardinality(matched)
    /\ rules[i] # Deleted /\ (\E r \in matched : pc[r] = "done") => matchCount[i] > 0
=============================================================================
