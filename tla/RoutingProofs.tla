--------------------------- MODULE RoutingProofs ---------------------------
(***************************************************************************)
(* What is proved of Routing, for every set of mailboxes and of rules and  *)
(* every number of resolutions and of edits.                               *)
(***************************************************************************)
EXTENDS Routing, FiniteSetTheorems, WellFoundedInduction, TLAPS

-----------------------------------------------------------------------------
(***************************************************************************)
(* The inductive invariant.                                                *)
(***************************************************************************)
HistoryOK ==
  /\ could \in [Resolutions -> SUBSET Decisions]
  /\ stood \in [Resolutions -> [boxes : SUBSET Boxes, blocks : SUBSET RuleIds]]
  /\ meanwhile \in [Resolutions -> Nat]
  /\ moved \in [Resolutions -> BOOLEAN]
  /\ \A r \in Resolutions : moved[r] => meanwhile[r] > 0

\* A rule has a mailbox there is; as a resolution read it, one there was.
KeyInv ==
  /\ \A i \in RuleIds : rules[i].box # None => Present(rules[i].box)
  /\ \A r \in Resolutions : \A i \in RuleIds :
       seen[r][i].box # None => boxes[seen[r][i].box].home # "unborn"

\* Who counts a match is the intake, of a rule.
Counting(r) == pc[r] \in {"count", "write"}
WhoInv ==
  \A r \in Resolutions :
    /\ pc[r] = "idle" => decision[r] = Null
    /\ Deciding(r) => decision[r] = Null
    /\ Counting(r) => asker[r] = "intake" /\ decision[r].rule \in RuleIds

\* The rules it has yet to try are fallback rules.
RestInv ==
  \A r \in Resolutions : pc[r] = "fallback" =>
    \A i \in rest[r] : seen[r][i].action \in {"forward", "store"}

\* The matches of rule i that were counted, or found it deleted.
Matched(i) == {r \in Resolutions : asker[r] = "intake" /\ decision[r].rule = i}
Through(i) == {r \in Matched(i) : pc[r] = "done"}
CountInv ==
  /\ \A i \in RuleIds :
       /\ matchCount[i] <= Cardinality(Through(i))
       /\ rules[i] # Deleted /\ Through(i) # {} => matchCount[i] > 0
  /\ \A r \in Resolutions :
       pc[r] = "write" => counted[r] <= Cardinality(Through(decision[r].rule))

\* What stood all the while is still there, and is not there once it was looked for.
Past == {"exact", "alias", "everywhere", "spread", "fallback"}
StandAt(r) ==
  /\ Deciding(r) => /\ stood[r].boxes \subseteq Standing(asker[r]).boxes
                    /\ stood[r].blocks \subseteq Standing(asker[r]).blocks
  /\ pc[r] \in Past => stood[r].blocks = {}
  /\ pc[r] \in Past \ {"exact"} => stood[r].boxes = {}
  /\ Decided(r) /\ stood[r].blocks # {} => decision[r].action = "reject"
  /\ Decided(r) /\ stood[r].boxes # {} =>
       decision[r].action = "reject" \/ (decision[r].action = "store" /\ decision[r].rule = 0)
StandInv == \A r \in Resolutions : StandAt(r)

(***************************************************************************)
(* The answers a resolution comes to from each of its steps, if nothing is *)
(* edited any more and the address has been brought no mailbox.            *)
(***************************************************************************)
Exact == {b \in Boxes : HasAddress(b)}
Aliased == {b \in Boxes : AliasedTo(b)}
Spread == {b \in Boxes : boxes[b].home = "away" /\ boxes[b].everywhere}
Stores(S) == {Store(b) : b \in S}
Fitting(S, rs) == {i \in S : Usable(rs[i])}
ByRules(S, rs) ==
  IF Fitting(S, rs) = {} THEN Null
  ELSE ByRule(First(Fitting(S, rs), rs), rs[First(Fitting(S, rs), rs)])
ByFallback(rs, who) == ByRules(Fallbacks(rs, who), rs)
FromEverywhere(rs, who) == IF Spread # {} THEN Stores(Spread) ELSE {ByFallback(rs, who)}
FromAlias(rs, who) == IF Aliased # {} THEN Stores(Aliased) ELSE FromEverywhere(rs, who)
FromExact(rs, who) == IF Exact # {} THEN Stores(Exact) ELSE FromAlias(rs, who)
FromRules(who) ==
  IF Blocking(rules, who) # {} THEN {Reject(First(Blocking(rules, who), rules))}
  ELSE FromExact(rules, who)
FromDomain(who) == IF active THEN FromRules(who) ELSE {Null}

\* The answer to come is one the tables called for.
Excused(r) == meanwhile[r] > 1 \/ moved[r]
ViewAt(r) ==
  /\ pc[r] = "domain" => FromDomain(asker[r]) \subseteq could[r]
  /\ pc[r] \in Past \cup {"rules"} => active
  /\ pc[r] = "rules" => FromRules(asker[r]) \subseteq could[r]
  /\ pc[r] = "exact" => FromExact(seen[r], asker[r]) \subseteq could[r]
  /\ pc[r] \in Past \ {"exact"} => Exact = {}
  /\ pc[r] = "alias" => FromAlias(seen[r], asker[r]) \subseteq could[r]
  /\ pc[r] \in Past \ {"exact", "alias"} => Aliased = {}
  /\ pc[r] = "everywhere" => FromEverywhere(seen[r], asker[r]) \subseteq could[r]
  /\ pc[r] = "spread" =>
       /\ \A e \in candidates[r] : e[2] = "away" /\ Store(e[1]) \in could[r]
       /\ candidates[r] = {} => ByFallback(seen[r], asker[r]) \in could[r]
  /\ pc[r] = "fallback" => ByRules(rest[r], seen[r]) \in could[r]
ViewInv == \A r \in Resolutions : Deciding(r) /\ ~Excused(r) => ViewAt(r)

\* While nothing is edited, what was read is what the tables say.
FreshAt(r) ==
  /\ pc[r] \in Past => seen[r] = rules /\ Blocking(rules, asker[r]) = {}
  /\ pc[r] = "spread" => candidates[r] = {<<b, "away">> : b \in Spread}
  /\ pc[r] = "fallback" =>
       /\ Spread = {} /\ rest[r] \subseteq Fallbacks(seen[r], asker[r])
       /\ \A i \in Fallbacks(seen[r], asker[r]) \ rest[r] : ~Usable(seen[r][i])
FreshInv == \A r \in Resolutions : Deciding(r) /\ meanwhile[r] = 0 => FreshAt(r)

CouldInv == \A r \in Resolutions : Deciding(r) => Route(asker[r]) \subseteq could[r]

IInv ==
  /\ TypeOK /\ HistoryOK /\ KeyInv /\ WhoInv /\ RestInv /\ CountInv /\ StandInv
  /\ CouldInv /\ FreshInv /\ ViewInv /\ AnswersOneState

-----------------------------------------------------------------------------
(***************************************************************************)
(* Rules, and which comes first.                                           *)
(***************************************************************************)
Lists == [RuleIds -> Rule \cup {Vacant, Deleted}]

LEMMA RowFields ==
  ASSUME NEW rule \in Rule \cup {Vacant, Deleted}
  PROVE  /\ rule.action \in {"reject", "forward", "store", "vacant", "deleted"}
         /\ rule.hits \in {"never", "sender", "any"}
         /\ rule.box \in Boxes \cup {None} /\ rule.priority \in Nat
         /\ rule \in Rule => rule.action \in {"reject", "forward", "store"}
         /\ rule \notin Rule => rule.action \notin {"reject", "forward", "store"}
         /\ rule \notin Rule => rule.box = None
<1>1. CASE rule \in Rule
  BY <1>1 DEF Rule
<1>2. CASE rule \notin Rule
  <2>1. rule = Vacant \/ rule = Deleted
    BY <1>2
  <2>2. /\ rule.action \in {"vacant", "deleted"} /\ rule.hits = "never"
        /\ rule.box = None /\ rule.priority = 0
    BY <2>1 DEF Vacant, Deleted
  <2> QED
    BY <1>2, <2>2
<1> QED
  BY <1>1, <1>2

LEMMA ListFields ==
  ASSUME NEW rs \in Lists, NEW i \in RuleIds
  PROVE  /\ rs[i] \in Rule \cup {Vacant, Deleted}
         /\ rs[i].box \in Boxes \cup {None} /\ rs[i].priority \in Nat
BY RowFields DEF Lists

\* There is a first rule among some, whichever they are.
LEMMA FirstExists ==
  ASSUME NEW S \in SUBSET RuleIds, S # {}, NEW rs, \A i \in RuleIds : rs[i].priority \in Nat
  PROVE  First(S, rs) \in S /\ \A k \in S \ {First(S, rs)} : Before(First(S, rs), k, rs)
<1> DEFINE Lacks(T) == ~\E i \in T : \A k \in T \ {i} : Before(i, k, rs)
           Bad == {n \in Nat : \E T \in SUBSET RuleIds : T \subseteq 1..n /\ T # {} /\ Lacks(T)}
<1>1. MaxRules \in Nat
  BY RoutingAssumption
<1>2. Bad = {}
  <2> SUFFICES ASSUME Bad # {} PROVE FALSE
    OBVIOUS
  <2>1. PICK n \in Bad : \A m \in Bad : <<m, n>> \notin OpToRel(<, Nat)
    <3> HIDE DEF Bad
    <3>1. Bad \subseteq Nat
      BY DEF Bad
    <3> QED
      BY <3>1, NatLessThanWellFounded, WFMin
  <2>2. n \in Nat /\ \A m \in Nat : m < n => m \notin Bad
    BY <2>1 DEF OpToRel
  <2>3. PICK T \in SUBSET RuleIds : T \subseteq 1..n /\ T # {} /\ Lacks(T)
    BY <2>1
  <2>4. n # 0
    <3> SUFFICES ASSUME n = 0 PROVE FALSE
      OBVIOUS
    <3>1. PICK t : t \in T
      BY <2>3
    <3>2. t \in 1..n
      BY <2>3, <3>1
    <3> QED
      BY <3>2
  <2>5. n \in T
    <3> SUFFICES ASSUME n \notin T PROVE FALSE
      OBVIOUS
    <3>1. T \subseteq 1..(n - 1)
      <4> SUFFICES ASSUME NEW t \in T PROVE t \in 1..(n - 1)
        OBVIOUS
      <4>1. t \in 1..n /\ t # n
        BY <2>3
      <4>2. n \in Nat
        BY <2>2
      <4> HIDE DEF Lacks, Bad
      <4> QED
        BY <4>1, <4>2
    <3>2. n - 1 \in Nat /\ n - 1 < n
      BY <2>2, <2>4
    <3>3. n - 1 \in Bad
      BY <2>3, <3>1, <3>2
    <3> QED
      BY <2>2, <3>2, <3>3
  <2>6. T # {n}
    BY <2>3
  <2>7. T \ {n} \subseteq 1..(n - 1) /\ T \ {n} # {}
    BY <2>2, <2>3, <2>5, <2>6
  <2>8. ~Lacks(T \ {n})
    <3>1. n - 1 \in Nat /\ n - 1 < n
      BY <2>2, <2>4
    <3> HIDE DEF Lacks
    <3> QED
      BY <2>2, <2>3, <2>7, <3>1
  <2>9. PICK i \in T \ {n} : \A k \in (T \ {n}) \ {i} : Before(i, k, rs)
    BY <2>8
  <2>10. /\ i \in RuleIds /\ n \in RuleIds /\ i < n
         /\ \A k \in T : k \in Nat /\ rs[k].priority \in Nat
    BY <1>1, <2>2, <2>3, <2>5, <2>9 DEF RuleIds
  <2>11. CASE rs[n].priority > rs[i].priority
    <3>1. \A k \in T \ {n} : Before(n, k, rs)
      BY <2>9, <2>10, <2>11, <2>5 DEF Before
    <3> QED
      BY <2>3, <2>5, <3>1
  <2>12. CASE ~(rs[n].priority > rs[i].priority)
    <3>1. Before(i, n, rs)
      <4>1. rs[n].priority \in Nat /\ rs[i].priority \in Nat
        BY <2>5, <2>9, <2>10
      <4> HIDE DEF Lacks, Bad
      <4> QED
        BY <2>10, <2>12, <4>1 DEF Before
    <3>2. \A k \in T \ {i} : Before(i, k, rs)
      BY <2>9, <3>1
    <3> QED
      BY <2>3, <2>9, <3>2
  <2> QED
    BY <2>11, <2>12
<1>3. S \subseteq 1..MaxRules
  BY DEF RuleIds
<1>4. ~Lacks(S)
  <2> HIDE DEF Lacks
  <2> QED
    BY <1>1, <1>2, <1>3
<1> QED
  BY <1>4 DEF First

\* And only one: the first of some that are left is the first of these.
LEMMA FirstIsUnique ==
  ASSUME NEW S \in SUBSET RuleIds, NEW rs, \A i \in RuleIds : rs[i].priority \in Nat,
         NEW i \in S, \A k \in S \ {i} : Before(i, k, rs)
  PROVE  First(S, rs) = i
<1>1. First(S, rs) \in S /\ \A k \in S \ {First(S, rs)} : Before(First(S, rs), k, rs)
  BY FirstExists
<1>2. \A k \in S : k \in Nat /\ rs[k].priority \in Nat
  BY RoutingAssumption DEF RuleIds
<1> QED
  BY <1>1, <1>2 DEF Before

LEMMA FirstOfFewer ==
  ASSUME NEW S \in SUBSET RuleIds, NEW F \in SUBSET S, NEW rs,
         \A i \in RuleIds : rs[i].priority \in Nat, First(S, rs) \in F
  PROVE  First(F, rs) = First(S, rs)
<1>1. \A k \in S \ {First(S, rs)} : Before(First(S, rs), k, rs)
  BY FirstExists
<1> QED
  BY <1>1, FirstIsUnique

LEMMA FirstByPriority ==
  ASSUME NEW S \in SUBSET RuleIds, S # {}, NEW rs, NEW ss,
         \A i \in RuleIds : rs[i].priority \in Nat /\ ss[i].priority = rs[i].priority
  PROVE  First(S, ss) = First(S, rs)
<1>1. First(S, rs) \in S /\ \A k \in S \ {First(S, rs)} : Before(First(S, rs), k, rs)
  BY FirstExists
<1>2. \A k \in S \ {First(S, rs)} : Before(First(S, rs), k, ss)
  BY <1>1 DEF Before
<1> QED
  BY <1>1, <1>2, FirstIsUnique

-----------------------------------------------------------------------------
(***************************************************************************)
(* Types.                                                                  *)
(***************************************************************************)
Askers == {"nobody", "intake", "consumer", "forwarding"}

LEMMA BlockingIsSome ==
  ASSUME NEW rs, NEW who
  PROVE  Blocking(rs, who) \subseteq RuleIds /\ Fallbacks(rs, who) \subseteq RuleIds
BY DEF Blocking, Fallbacks

LEMMA DecisionTypes ==
  /\ Null \in Decisions
  /\ \A b \in Boxes : Store(b) \in Decisions
  /\ \A i \in RuleIds : Reject(i) \in Decisions
  /\ \A i \in RuleIds, rs \in Lists : \A x \in {rs[i].box, None} : \A y \in BOOLEAN :
       rs[i].action \in {"forward", "store"} =>
         [action |-> rs[i].action, rule |-> i, box |-> x, keep |-> y] \in Decisions
<1>1. /\ Null \in Decisions /\ \A b \in Boxes : Store(b) \in Decisions
      /\ \A i \in RuleIds : Reject(i) \in Decisions
  BY DEF Null, Store, Reject, Decisions
<1>2. ASSUME NEW i \in RuleIds, NEW rs \in Lists, NEW x \in {rs[i].box, None},
             NEW y \in BOOLEAN, rs[i].action \in {"forward", "store"}
      PROVE  [action |-> rs[i].action, rule |-> i, box |-> x, keep |-> y] \in Decisions
  BY <1>2, ListFields DEF Decisions
<1> QED
  BY <1>1, <1>2

LEMMA FirstTypes ==
  ASSUME NEW rs \in Lists, NEW S \in SUBSET RuleIds, S # {}
  PROVE  First(S, rs) \in S /\ First(S, rs) \in RuleIds
BY FirstExists, ListFields

\* The answers that can be given, with the mailboxes of any one state.
LEMMA ByRuleTypes ==
  ASSUME NEW rs \in Lists, NEW i \in RuleIds, rs[i].action \in {"forward", "store"}
  PROVE  ByRule(i, rs[i]) \in Decisions
<1> DEFINE x == IF Present(rs[i].box) THEN rs[i].box ELSE None
           y == rs[i].keep /\ Present(rs[i].box)
<1>1. x \in {rs[i].box, None} /\ y \in BOOLEAN
  OBVIOUS
<1>2. ByRule(i, rs[i]) = [action |-> rs[i].action, rule |-> i, box |-> x, keep |-> y]
  BY DEF ByRule
<1> HIDE DEF x, y
<1> QED
  BY <1>1, <1>2, DecisionTypes

LEMMA RouteTypes ==
  ASSUME TypeOK
  PROVE  \A who \in Askers : Route(who) \subseteq Decisions
<1> SUFFICES ASSUME NEW who \in Askers PROVE Route(who) \subseteq Decisions
  OBVIOUS
<1>1. rules \in Lists
  BY DEF TypeOK, Lists
<1>2. Blocking(rules, who) # {} => First(Blocking(rules, who), rules) \in RuleIds
  BY <1>1, BlockingIsSome, FirstTypes
<1> DEFINE U == {i \in Fallbacks(rules, who) : Usable(rules[i])}
<1>3. U # {} => ByRule(First(U, rules), rules[First(U, rules)]) \in Decisions
  <2> SUFFICES ASSUME U # {}
               PROVE  ByRule(First(U, rules), rules[First(U, rules)]) \in Decisions
    OBVIOUS
  <2>1. U \subseteq Fallbacks(rules, who) /\ U \subseteq RuleIds
    BY BlockingIsSome
  <2> HIDE DEF U
  <2>2. First(U, rules) \in RuleIds /\ First(U, rules) \in U
    BY <1>1, <2>1, FirstTypes
  <2>3. rules[First(U, rules)].action \in {"forward", "store"}
    BY <2>1, <2>2 DEF Fallbacks
  <2> QED
    BY <1>1, <2>2, <2>3, ByRuleTypes
<1> QED
  BY <1>2, <1>3, DecisionTypes DEF Route

\* A count that is written back is one more than mails that are through already.
LEMMA ThroughIsFinite ==
  ASSUME NEW i
  PROVE  /\ Through(i) \subseteq Resolutions /\ IsFiniteSet(Through(i))
         /\ Cardinality(Through(i)) \in Nat /\ Cardinality(Through(i)) <= MaxResolutions
<1>1. MaxResolutions \in Nat
  BY RoutingAssumption
<1>2. IsFiniteSet(Resolutions) /\ Cardinality(Resolutions) = MaxResolutions
  BY <1>1, FS_Interval DEF Resolutions
<1>3. Through(i) \subseteq Resolutions
  BY DEF Through, Matched
<1> HIDE DEF Through
<1> QED
  BY <1>2, <1>3, FS_Subset, FS_CardinalityType

LEMMA OneIsNotThrough ==
  ASSUME NEW i, NEW r \in Resolutions, r \notin Through(i)
  PROVE  /\ Cardinality(Through(i)) < MaxResolutions
         /\ Cardinality(Through(i) \cup {r}) = Cardinality(Through(i)) + 1
<1>1. MaxResolutions \in Nat
  BY RoutingAssumption
<1>2. IsFiniteSet(Resolutions) /\ Cardinality(Resolutions) = MaxResolutions
  BY <1>1, FS_Interval DEF Resolutions
<1>3. Through(i) \subseteq Resolutions /\ IsFiniteSet(Through(i)) /\ Cardinality(Through(i)) \in Nat
  BY ThroughIsFinite
<1>4. Cardinality(Through(i) \cup {r}) = Cardinality(Through(i)) + 1
  BY <1>3, FS_AddElement
<1>5. Through(i) \cup {r} \subseteq Resolutions
  BY <1>3
<1>6. Cardinality(Through(i) \cup {r}) <= Cardinality(Resolutions)
  BY <1>2, <1>5, FS_Subset
<1> QED
  BY <1>1, <1>2, <1>3, <1>4, <1>6

LEMMA ResolveKeeps ==
  ASSUME NEW r, Resolve(r)
  PROVE  UNCHANGED <<tables, asker, history, edits>>
<1>1. ASSUME Searching PROVE UNCHANGED <<tables, asker, history, edits>>
  BY <1>1 DEF Searching, Unasked
<1>2. Searching \/ Unasked
  BY DEF Resolve, FindDomain, ReadRules, FindExact, FindAlias, ListCandidates, TryCandidate,
         TryRule, ReadCount, WriteCount, Throw
<1> QED
  BY <1>1, <1>2 DEF Unasked

LEMMA ResolveTypes ==
  ASSUME TypeOK, HistoryOK, WhoInv, RestInv, CountInv, NEW r \in Resolutions, Resolve(r)
  PROVE  TypeOK' /\ HistoryOK'
<1> DEFINE PcOK == pc' \in [Resolutions -> Steps]
           DecisionOK == decision' \in [Resolutions -> Decisions]
           SeenOK == seen' \in [Resolutions -> [RuleIds -> Rule \cup {Vacant, Deleted}]]
           RestOK == rest' \in [Resolutions -> SUBSET RuleIds]
           ListOK == candidates' \in [Resolutions -> SUBSET (Boxes \X {"literal", "variant", "away"})]
           ReadOK == counted' \in [Resolutions -> 0..MaxResolutions]
           CountOK == matchCount' \in [RuleIds -> 0..MaxResolutions]
<1>1. UNCHANGED <<tables, asker, history, edits>>
  BY ResolveKeeps
<1>2. PcOK /\ DecisionOK /\ SeenOK /\ RestOK /\ ListOK /\ ReadOK /\ CountOK
      => TypeOK' /\ HistoryOK'
  BY <1>1 DEF TypeOK, HistoryOK, tables, history
<1>3. rules \in Lists /\ seen[r] \in Lists /\ rest[r] \in SUBSET RuleIds
  BY DEF TypeOK, Lists
<1>a. /\ \A d \in Decisions : Decide(r, d) => PcOK /\ DecisionOK
      /\ \A step \in Steps : Continue(r, step) => PcOK /\ DecisionOK
      /\ \A step \in Steps : Goto(r, step) => PcOK
  <2>1. \A step \in Steps : Goto(r, step) => PcOK
    BY DEF Goto, TypeOK
  <2>2. decision \in [Resolutions -> Decisions]
    BY DEF TypeOK
  <2>3. \A d \in Decisions : decision' = [decision EXCEPT ![r] = d] => DecisionOK
    BY <2>2
  <2>4. decision' = decision => DecisionOK
    BY <2>2
  <2>5. {"count", "done"} \subseteq Steps
    BY DEF Steps
  <2> HIDE DEF PcOK, DecisionOK
  <2>6. ASSUME NEW d \in Decisions, Decide(r, d) PROVE PcOK /\ DecisionOK
    <3>1. \E step \in {"count", "done"} : Goto(r, step)
      BY <2>6 DEF Decide
    <3> QED
      BY <2>1, <2>3, <2>5, <2>6, <3>1 DEF Decide
  <2> QED
    BY <2>1, <2>4, <2>6 DEF Continue
<1>b. {"rules", "exact", "alias", "everywhere", "spread", "fallback", "done", "failed", "write"}
        \subseteq Steps
  BY DEF Steps
<1>c. /\ matchCount' = matchCount => CountOK
      /\ counted' = counted => ReadOK
      /\ seen' = seen => SeenOK
      /\ rest' = rest => RestOK
      /\ candidates' = candidates => ListOK
      /\ decision' = decision => DecisionOK
  BY DEF TypeOK
<1>d. FindDomain(r) => RestOK /\ ListOK /\ ReadOK /\ CountOK /\ SeenOK
  BY <1>c DEF FindDomain, Searching
<1>4. CASE FindDomain(r)
  <2>1. PcOK /\ DecisionOK
    BY <1>4, <1>a, <1>b, DecisionTypes DEF FindDomain
  <2> QED
    BY <1>4, <1>d, <2>1, <1>2
<1>5. CASE ReadRules(r)
  <2>1. Blocking(rules, asker[r]) # {} => Reject(First(Blocking(rules, asker[r]), rules)) \in Decisions
    BY <1>3, BlockingIsSome, FirstTypes, DecisionTypes
  <2>2. PcOK /\ DecisionOK
    <3> HIDE DEF PcOK, DecisionOK
    <3> QED
      BY <1>5, <1>a, <1>b, <2>1 DEF ReadRules
  <2>3. SeenOK
    BY <1>5 DEF ReadRules, TypeOK
  <2> HIDE DEF PcOK, DecisionOK, SeenOK, RestOK, ListOK, ReadOK, CountOK
  <2> QED
    BY <1>5, <1>c, <2>2, <2>3, <1>2 DEF ReadRules, Searching
<1>6. CASE FindExact(r)
  <2> HIDE DEF PcOK, DecisionOK, SeenOK, RestOK, ListOK, ReadOK, CountOK
  <2>1. PcOK /\ DecisionOK
    BY <1>6, <1>a, <1>b, DecisionTypes DEF FindExact
  <2> QED
    BY <1>6, <1>c, <2>1, <1>2 DEF FindExact, Searching
<1>7. CASE FindAlias(r)
  <2> HIDE DEF PcOK, DecisionOK, SeenOK, RestOK, ListOK, ReadOK, CountOK
  <2>1. PcOK /\ DecisionOK
    BY <1>7, <1>a, <1>b, DecisionTypes DEF FindAlias
  <2> QED
    BY <1>7, <1>c, <2>1, <1>2 DEF FindAlias, Searching
<1>8. CASE ListCandidates(r)
  <2> DEFINE S == {<<b, boxes[b].home>> : b \in {c \in Boxes :
                     boxes[c].everywhere /\ boxes[c].home \in {"literal", "variant", "away"}}}
  <2>1. ListOK
    <3>1. S \in SUBSET (Boxes \X {"literal", "variant", "away"})
      OBVIOUS
    <3>2. candidates' = [candidates EXCEPT ![r] = S]
      BY <1>8 DEF ListCandidates
    <3> HIDE DEF S
    <3> QED
      BY <3>1, <3>2 DEF TypeOK
  <2> HIDE DEF PcOK, DecisionOK, SeenOK, RestOK, ListOK, ReadOK, CountOK
  <2>2. PcOK /\ DecisionOK
    BY <1>8, <1>a, <1>b DEF ListCandidates
  <2> QED
    BY <1>8, <1>c, <2>1, <2>2, <1>2 DEF ListCandidates, Searching
<1>9. CASE TryCandidate(r)
  <2>1. ListOK
    <3>1. \/ UNCHANGED candidates
          \/ \E e : candidates' = [candidates EXCEPT ![r] = @ \ {e}]
      BY <1>9 DEF TryCandidate
    <3> QED
      BY <3>1 DEF TypeOK
  <2>2. RestOK
    BY <1>9, BlockingIsSome DEF TryCandidate, TypeOK
  <2>3. \A e \in candidates[r] : e[1] \in Boxes
    BY DEF TypeOK
  <2> HIDE DEF PcOK, DecisionOK, SeenOK, RestOK, ListOK, ReadOK, CountOK
  <2>4. PcOK /\ DecisionOK
    BY <1>9, <1>a, <1>b, <2>3, DecisionTypes DEF TryCandidate
  <2> QED
    BY <1>9, <1>c, <2>1, <2>2, <2>4, <1>2 DEF TryCandidate, Searching
<1>10. CASE TryRule(r)
  <2> DEFINE i == First(rest[r], seen[r])
  <2>1. rest[r] # {} => i \in RuleIds /\ i \in rest[r]
    BY <1>3, FirstTypes
  <2>2. rest[r] # {} => ByRule(i, seen[r][i]) \in Decisions
    BY <1>3, <1>10, <2>1, ByRuleTypes DEF RestInv, TryRule
  <2>3. RestOK
    BY <1>10 DEF TryRule, TypeOK
  <2> HIDE DEF PcOK, DecisionOK, SeenOK, RestOK, ListOK, ReadOK, CountOK
  <2>4. PcOK /\ DecisionOK
    BY <1>10, <1>a, <1>b, <2>2, DecisionTypes DEF TryRule
  <2> QED
    BY <1>10, <1>c, <2>3, <2>4, <1>2 DEF TryRule, Searching
<1>11. CASE ReadCount(r)
  <2>1. decision[r].rule \in RuleIds /\ matchCount[decision[r].rule] \in 0..MaxResolutions
    BY <1>11 DEF ReadCount, WhoInv, Counting, TypeOK
  <2>2. ReadOK
    BY <1>11, <2>1 DEF ReadCount, TypeOK
  <2> HIDE DEF PcOK, DecisionOK, SeenOK, RestOK, ListOK, ReadOK, CountOK
  <2>3. PcOK
    BY <1>11, <1>a, <1>b DEF ReadCount
  <2> QED
    BY <1>11, <1>c, <2>2, <2>3, <1>2 DEF ReadCount
<1>12. CASE WriteCount(r)
  <2>1. decision[r].rule \in RuleIds /\ counted[r] \in 0..MaxResolutions
    BY <1>12 DEF WriteCount, WhoInv, Counting, TypeOK
  <2>2. counted[r] + 1 \in 0..MaxResolutions
    <3>1. r \notin Through(decision[r].rule) /\ counted[r] <= Cardinality(Through(decision[r].rule))
      BY <1>12 DEF WriteCount, Through, CountInv
    <3>2. /\ Cardinality(Through(decision[r].rule)) < MaxResolutions
          /\ Cardinality(Through(decision[r].rule)) \in Nat /\ MaxResolutions \in Nat
      BY <3>1, OneIsNotThrough, ThroughIsFinite, RoutingAssumption
    <3> QED
      BY <2>1, <3>1, <3>2
  <2>3. CountOK
    BY <1>12, <2>2 DEF WriteCount, TypeOK
  <2> HIDE DEF PcOK, DecisionOK, SeenOK, RestOK, ListOK, ReadOK, CountOK
  <2>4. PcOK
    BY <1>12, <1>a, <1>b DEF WriteCount
  <2> QED
    BY <1>12, <1>c, <2>3, <2>4, <1>2 DEF WriteCount
<1>13. CASE Throw(r)
  <2> HIDE DEF PcOK, DecisionOK, SeenOK, RestOK, ListOK, ReadOK, CountOK
  <2>1. PcOK
    BY <1>13, <1>a, <1>b DEF Throw
  <2> QED
    BY <1>13, <1>c, <2>1, <1>2 DEF Throw, Searching
<1> QED
  BY <1>4, <1>5, <1>6, <1>7, <1>8, <1>9, <1>10, <1>11, <1>12, <1>13 DEF Resolve

LEMMA AskTypes ==
  ASSUME TypeOK, HistoryOK, NEW r \in Resolutions,
         NEW who \in {"intake", "consumer", "forwarding"}, Ask(r, who)
  PROVE  TypeOK' /\ HistoryOK'
<1>1. /\ asker' \in [Resolutions -> Askers] /\ pc' \in [Resolutions -> Steps]
      /\ UNCHANGED <<tables, matchCount, seen, rest, candidates, counted, decision,
                     meanwhile, moved, edits>>
  <2>1. "domain" \in Steps
    BY DEF Steps
  <2> QED
    BY <2>1 DEF Ask, Goto, TypeOK, Askers
<1>2. Route(who) \subseteq Decisions
  BY RouteTypes DEF Askers
<1>3. could' \in [Resolutions -> SUBSET Decisions]
  BY <1>2 DEF Ask, HistoryOK
<1>4. Standing(who) \in [boxes : SUBSET Boxes, blocks : SUBSET RuleIds]
  BY BlockingIsSome DEF Standing
<1>5. stood' \in [Resolutions -> [boxes : SUBSET Boxes, blocks : SUBSET RuleIds]]
  BY <1>4 DEF Ask, HistoryOK
<1> QED
  BY <1>1, <1>3, <1>5 DEF TypeOK, HistoryOK, tables, Askers

LEMMA BoxUpdates ==
  ASSUME NEW f \in [Boxes -> Box], NEW b \in Boxes, NEW u \in BOOLEAN
  PROVE  /\ [f EXCEPT ![b].alias = u] \in [Boxes -> Box]
         /\ [f EXCEPT ![b].everywhere = u] \in [Boxes -> Box]
         /\ [f EXCEPT ![b].home = "gone"] \in [Boxes -> Box]
         /\ [f EXCEPT ![b].home = "gone"][b].home = "gone"
<1> DEFINE x == [f[b] EXCEPT !.alias = u]
           y == [f[b] EXCEPT !.everywhere = u]
           z == [f[b] EXCEPT !.home = "gone"]
<1>1. f[b] \in Box
  OBVIOUS
<1>2. x \in Box
  BY <1>1 DEF Box
<1>3. y \in Box
  BY <1>1 DEF Box
<1>4. z \in Box /\ z.home = "gone"
  BY <1>1 DEF Box
<1>5. /\ [f EXCEPT ![b].alias = u] = [f EXCEPT ![b] = x]
      /\ [f EXCEPT ![b].everywhere = u] = [f EXCEPT ![b] = y]
      /\ [f EXCEPT ![b].home = "gone"] = [f EXCEPT ![b] = z]
  OBVIOUS
<1> HIDE DEF x, y, z
<1> QED
  BY <1>2, <1>3, <1>4, <1>5

\* What every edit has in common.
Edited ==
  /\ edits < MaxEdits /\ edits' = edits + 1
  /\ UNCHANGED <<matchCount, pc, localVars, decision>>
  /\ could' = [r \in Resolutions |->
                 IF Deciding(r) THEN could[r] \cup Route(asker[r])' ELSE could[r]]
  /\ stood' = [r \in Resolutions |->
                 IF Deciding(r) THEN Both(stood[r], Standing(asker[r])') ELSE stood[r]]
  /\ meanwhile' = [r \in Resolutions |->
                     IF Deciding(r) THEN meanwhile[r] + 1 ELSE meanwhile[r]]
  /\ moved' \in [Resolutions -> BOOLEAN]
  /\ \A r \in Resolutions : (moved[r] => moved'[r]) /\ (moved'[r] => moved[r] \/ Deciding(r))

LEMMA AdministerEdits ==
  ASSUME HistoryOK, Administer
  PROVE  Edited
<1>1. ASSUME Edit(FALSE) PROVE Edited
  BY <1>1 DEF Edit, Edited, HistoryOK
<1>2. ASSUME NEW b \in Boxes, NEW home \in Homes, Edit(home \in {"literal", "variant"})
      PROVE  Edited
  BY <1>2 DEF Edit, Edited, HistoryOK
<1>3. ASSUME NEW b \in Boxes, Edit(~boxes[b].alias) PROVE Edited
  BY <1>3 DEF Edit, Edited, HistoryOK
<1>4. ASSUME Edit(active) PROVE Edited
  BY <1>4 DEF Edit, Edited, HistoryOK
<1>5. ASSUME NEW i \in RuleIds, DeleteRule(i) \/ \E rule \in Drafts : CreateRule(i, rule) \/ ChangeRule(i, rule)
      PROVE  Edited
  BY <1>1, <1>5 DEF DeleteRule, CreateRule, ChangeRule
<1>6. ASSUME NEW b \in Boxes, DeleteBox(b) \/ ChangeDomains(b)
      PROVE  Edited
  BY <1>1, <1>6 DEF DeleteBox, ChangeDomains
<1>7. ASSUME NEW b \in Boxes, ChangeAlias(b) PROVE Edited
  BY <1>3, <1>7 DEF ChangeAlias
<1>8. ASSUME NEW b \in Boxes, NEW home \in Homes, CreateBox(b, home) PROVE Edited
  BY <1>2, <1>8 DEF CreateBox
<1>9. ASSUME ChangeStatus PROVE Edited
  BY <1>4, <1>9 DEF ChangeStatus
<1> QED
  BY <1>5, <1>6, <1>7, <1>8, <1>9 DEF Administer

LEMMA EveryRouteTypes ==
  TypeOK => \A r \in Resolutions : Route(asker[r]) \subseteq Decisions
BY RouteTypes DEF TypeOK, Askers

LEMMA AdministerTypes ==
  ASSUME TypeOK, HistoryOK, Administer
  PROVE  TypeOK' /\ HistoryOK'
<1>1. Edited
  BY AdministerEdits
<1>2. /\ Drafts \subseteq Rule /\ None \notin Boxes
      /\ edits' \in 0..MaxEdits
  BY <1>1, RoutingAssumption DEF Edited, TypeOK
<1>3. active' \in BOOLEAN
  BY DEF Administer, DeleteRule, CreateRule, ChangeRule, DeleteBox, ChangeAlias, ChangeDomains,
         CreateBox, ChangeStatus, TypeOK
<1>4. rules' \in [RuleIds -> Rule \cup {Vacant, Deleted}]
  <2>1. ASSUME rules' = rules PROVE rules' \in [RuleIds -> Rule \cup {Vacant, Deleted}]
    BY <2>1 DEF TypeOK
  <2>2. ASSUME NEW i \in RuleIds, DeleteRule(i) \/ \E rule \in Drafts : CreateRule(i, rule) \/ ChangeRule(i, rule)
        PROVE  rules' \in [RuleIds -> Rule \cup {Vacant, Deleted}]
    BY <1>2, <2>2 DEF DeleteRule, CreateRule, ChangeRule, TypeOK
  <2>3. ASSUME NEW b \in Boxes, DeleteBox(b)
        PROVE  rules' \in [RuleIds -> Rule \cup {Vacant, Deleted}]
    <3>1. ASSUME NEW i \in RuleIds, rules[i].box = b
          PROVE  [rules[i] EXCEPT !.box = None] \in Rule
      <4>1. rules[i] \in Rule
        BY <1>2, <3>1, RowFields DEF TypeOK
      <4> QED
        BY <4>1 DEF Rule
    <3> QED
      BY <2>3, <3>1 DEF DeleteBox, TypeOK
  <2> QED
    BY <2>1, <2>2, <2>3 DEF Administer, ChangeAlias, ChangeDomains, CreateBox, ChangeStatus
<1>5. boxes' \in [Boxes -> Box]
  <2>1. ASSUME boxes' = boxes PROVE boxes' \in [Boxes -> Box]
    BY <2>1 DEF TypeOK
  <2>2. ASSUME NEW b \in Boxes, NEW home \in Homes, CreateBox(b, home)
        PROVE  boxes' \in [Boxes -> Box]
    BY <2>2 DEF CreateBox, TypeOK, Box
  <2>3. ASSUME NEW b \in Boxes, DeleteBox(b) PROVE boxes' \in [Boxes -> Box]
    <3> DEFINE f == [boxes EXCEPT ![b].home = "gone"]
    <3>1. f \in [Boxes -> Box]
      BY BoxUpdates DEF TypeOK
    <3>2. boxes' = [f EXCEPT ![b].alias = FALSE]
      BY <2>3 DEF DeleteBox
    <3> HIDE DEF f
    <3> QED
      BY <3>1, <3>2, BoxUpdates
  <2>4. ASSUME NEW b \in Boxes, ChangeAlias(b) PROVE boxes' \in [Boxes -> Box]
    <3> DEFINE u == ~boxes[b].alias
    <3>1. u \in BOOLEAN
      OBVIOUS
    <3>2. boxes' = [boxes EXCEPT ![b].alias = u]
      BY <2>4 DEF ChangeAlias
    <3> HIDE DEF u
    <3> QED
      BY <3>1, <3>2, BoxUpdates DEF TypeOK
  <2>5. ASSUME NEW b \in Boxes, ChangeDomains(b) PROVE boxes' \in [Boxes -> Box]
    <3> DEFINE u == ~boxes[b].everywhere
    <3>1. u \in BOOLEAN
      OBVIOUS
    <3>2. boxes' = [boxes EXCEPT ![b].everywhere = u]
      BY <2>5 DEF ChangeDomains
    <3> HIDE DEF u
    <3> QED
      BY <3>1, <3>2, BoxUpdates DEF TypeOK
  <2> QED
    BY <2>1, <2>2, <2>3, <2>4, <2>5 DEF Administer, DeleteRule, CreateRule, ChangeRule, ChangeStatus
<1>6. TypeOK'
  BY <1>1, <1>2, <1>3, <1>4, <1>5 DEF TypeOK, Edited, localVars
<1>7. \A r \in Resolutions : Route(asker[r])' \subseteq Decisions
  <2>1. (TypeOK => \A r \in Resolutions : Route(asker[r]) \subseteq Decisions)'
    BY EveryRouteTypes, PTL
  <2> QED
    BY <1>6, <2>1
<1>8. could' \in [Resolutions -> SUBSET Decisions]
  BY <1>1, <1>7 DEF Edited, HistoryOK
<1>9. stood' \in [Resolutions -> [boxes : SUBSET Boxes, blocks : SUBSET RuleIds]]
  BY <1>1 DEF Edited, HistoryOK, Both
<1>10. /\ meanwhile' \in [Resolutions -> Nat]
       /\ \A r \in Resolutions : moved'[r] => meanwhile'[r] > 0
  <2>3. meanwhile' \in [Resolutions -> Nat]
    BY <1>1 DEF Edited, HistoryOK
  <2> SUFFICES ASSUME NEW r \in Resolutions, moved'[r] PROVE meanwhile'[r] > 0
    BY <2>3
  <2>1. /\ meanwhile'[r] = IF Deciding(r) THEN meanwhile[r] + 1 ELSE meanwhile[r]
        /\ meanwhile[r] \in Nat
    BY <1>1 DEF Edited, HistoryOK
  <2>2. moved'[r] => Deciding(r) \/ meanwhile[r] > 0
    BY <1>1 DEF Edited, HistoryOK
  <2> HIDE DEF Deciding
  <2> QED
    BY <2>1, <2>2
<1> QED
  BY <1>1, <1>6, <1>8, <1>9, <1>10 DEF HistoryOK, Edited

-----------------------------------------------------------------------------
(***************************************************************************)
(* What each step leaves alone.                                            *)
(***************************************************************************)
Stays(q) ==
  /\ pc'[q] = pc[q] /\ decision'[q] = decision[q] /\ asker'[q] = asker[q]
  /\ seen'[q] = seen[q] /\ rest'[q] = rest[q] /\ candidates'[q] = candidates[q]
  /\ counted'[q] = counted[q]
  /\ could'[q] = could[q] /\ stood'[q] = stood[q]
  /\ meanwhile'[q] = meanwhile[q] /\ moved'[q] = moved[q]

LEMMA AskStays ==
  ASSUME TypeOK, HistoryOK, NEW r \in Resolutions, NEW who, Ask(r, who),
         NEW q \in Resolutions, q # r
  PROVE  Stays(q)
BY DEF Ask, Goto, Stays, TypeOK, HistoryOK

LEMMA ResolveStays ==
  ASSUME TypeOK, NEW r \in Resolutions, Resolve(r), NEW q \in Resolutions, q # r
  PROVE  Stays(q)
<1>1. UNCHANGED <<asker, could, stood, meanwhile, moved>>
  BY ResolveKeeps DEF history
<1>a. pc \in [Resolutions -> Steps] /\ decision \in [Resolutions -> Decisions]
  BY DEF TypeOK
<1>2. /\ \A step : Goto(r, step) => pc'[q] = pc[q]
      /\ \A d : Decide(r, d) => pc'[q] = pc[q] /\ decision'[q] = decision[q]
      /\ \A step : Continue(r, step) => pc'[q] = pc[q] /\ decision'[q] = decision[q]
  BY <1>a DEF Goto, Decide, Continue
<1>3. /\ pc'[q] = pc[q] /\ decision'[q] = decision[q]
  BY <1>2 DEF Resolve, FindDomain, ReadRules, FindExact, FindAlias, ListCandidates, TryCandidate,
         TryRule, ReadCount, WriteCount, Throw
<1>b. /\ seen \in [Resolutions -> [RuleIds -> Rule \cup {Vacant, Deleted}]]
      /\ rest \in [Resolutions -> SUBSET RuleIds]
      /\ candidates \in [Resolutions -> SUBSET (Boxes \X {"literal", "variant", "away"})]
      /\ counted \in [Resolutions -> 0..MaxResolutions]
  BY DEF TypeOK
<1>4. seen'[q] = seen[q]
  BY <1>b DEF Resolve, FindDomain, ReadRules, FindExact, FindAlias, ListCandidates, TryCandidate,
         TryRule, ReadCount, WriteCount, Throw
<1>5. rest'[q] = rest[q]
  BY <1>b DEF Resolve, FindDomain, ReadRules, FindExact, FindAlias, ListCandidates, TryCandidate,
         TryRule, ReadCount, WriteCount, Throw
<1>6. candidates'[q] = candidates[q]
  BY <1>b DEF Resolve, FindDomain, ReadRules, FindExact, FindAlias, ListCandidates, TryCandidate,
         TryRule, ReadCount, WriteCount, Throw
<1>7. counted'[q] = counted[q]
  BY <1>b DEF Resolve, FindDomain, ReadRules, FindExact, FindAlias, ListCandidates, TryCandidate,
         TryRule, ReadCount, WriteCount, Throw, Searching
<1> QED
  BY <1>1, <1>3, <1>4, <1>5, <1>6, <1>7 DEF Stays

\* Where a resolution goes, and what it decides.
LEMMA DecideEffect ==
  ASSUME TypeOK, NEW r \in Resolutions
  PROVE  /\ \A d : Decide(r, d) =>
              /\ decision'[r] = d
              /\ pc'[r] = IF asker[r] = "intake" /\ d.rule # 0 THEN "count" ELSE "done"
         /\ \A step : Continue(r, step) => decision'[r] = decision[r] /\ pc'[r] = step
         /\ \A step : Goto(r, step) => pc'[r] = step
BY DEF TypeOK, Decide, Continue, Goto

LEMMA Stages ==
  \A r \in Resolutions :
    /\ pc[r] \in {"domain", "rules", "exact", "alias", "everywhere", "spread", "fallback"}
         => Deciding(r) /\ Live(r) /\ ~Decided(r) /\ ~Counting(r)
    /\ Counting(r) => Decided(r) /\ ~Deciding(r)
    /\ pc[r] \in {"idle", "done", "failed"} => ~Deciding(r) /\ ~Counting(r) /\ ~Live(r)
    /\ TypeOK /\ Deciding(r) =>
         pc[r] \in {"domain", "rules", "exact", "alias", "everywhere", "spread", "fallback"}
BY DEF Deciding, Live, Decided, Counting, TypeOK, Steps

-----------------------------------------------------------------------------
(***************************************************************************)
(* The edits, one by one: what they do to the mailboxes and the rules.     *)
(***************************************************************************)
EditsRules ==
  /\ UNCHANGED <<active, boxes>> /\ Edited
  /\ \A i \in RuleIds :
       rules'[i] = rules[i] \/ rules'[i].box = None \/ Present(rules'[i].box)

Deletes(b) ==
  /\ Present(b) /\ b \in Boxes /\ UNCHANGED active /\ Edited
  /\ boxes'[b].home = "gone" /\ ~boxes'[b].alias
  /\ \A c \in Boxes \ {b} : boxes'[c] = boxes[c]
  /\ \A i \in RuleIds :
       /\ rules'[i].action = rules[i].action /\ rules'[i].hits = rules[i].hits
       /\ rules'[i].priority = rules[i].priority /\ (rules'[i].keep <=> rules[i].keep)
       /\ rules'[i].box = IF rules[i].box = b THEN None ELSE rules[i].box

\* A mailbox of the domain or of another, or its choice of domains, or no alias any more.
EditsBoxes ==
  /\ UNCHANGED <<active, rules>> /\ Edited
  /\ \A b \in Boxes :
       /\ boxes[b].home # "unborn" => boxes'[b].home = boxes[b].home
       /\ boxes[b].home = "unborn" => /\ boxes'[b].home \in Homes \cup {"unborn"}
                                      /\ boxes'[b] = boxes[b] \/ ~boxes'[b].alias
  /\ \A r \in Resolutions : Deciding(r) /\ ~moved'[r] =>
       \A b \in Boxes : /\ boxes'[b].home \in {"literal", "variant"} => boxes'[b].home = boxes[b].home
                        /\ boxes'[b].alias => boxes[b].alias

LEMMA DeleteBoxDeletes ==
  ASSUME TypeOK, HistoryOK, NEW b \in Boxes, DeleteBox(b)
  PROVE  Deletes(b)
<1>1. Edited
  <2>1. Administer
    BY DEF Administer
  <2> QED
    BY <2>1, AdministerEdits
<1>2. boxes'[b].home = "gone" /\ ~boxes'[b].alias
  <2> DEFINE f == [boxes EXCEPT ![b].home = "gone"]
  <2>1. f \in [Boxes -> Box] /\ f[b].home = "gone"
    BY BoxUpdates DEF TypeOK
  <2>2. boxes' = [f EXCEPT ![b].alias = FALSE]
    BY DEF DeleteBox
  <2> HIDE DEF f
  <2>3. f[b] \in Box
    BY <2>1
  <2>4. boxes'[b] = [f[b] EXCEPT !.alias = FALSE]
    BY <2>1, <2>2
  <2> QED
    BY <2>1, <2>3, <2>4 DEF Box
<1>3. \A c \in Boxes \ {b} : boxes'[c] = boxes[c]
  BY DEF DeleteBox, TypeOK
<1>4. ASSUME NEW i \in RuleIds
      PROVE  /\ rules'[i].action = rules[i].action /\ rules'[i].hits = rules[i].hits
             /\ rules'[i].priority = rules[i].priority /\ (rules'[i].keep <=> rules[i].keep)
             /\ rules'[i].box = IF rules[i].box = b THEN None ELSE rules[i].box
  <2>1. rules'[i] = IF rules[i].box = b THEN [rules[i] EXCEPT !.box = None] ELSE rules[i]
    BY DEF DeleteBox
  <2>2. CASE rules[i].box = b
    <3>1. rules[i] \in Rule
      BY <2>2, RoutingAssumption, RowFields DEF TypeOK
    <3> QED
      BY <2>1, <2>2, <3>1 DEF Rule
  <2>3. CASE rules[i].box # b
    BY <2>1, <2>3
  <2> QED
    BY <2>2, <2>3
<1> QED
  BY <1>1, <1>2, <1>3, <1>4 DEF DeleteBox, Deletes

Switches ==
  /\ UNCHANGED <<boxes, rules>> /\ Edited
  /\ \A r \in Resolutions : Deciding(r) /\ ~moved'[r] => ~active

LEMMA EditKinds ==
  ASSUME TypeOK, HistoryOK, Administer
  PROVE  EditsRules \/ EditsBoxes \/ Switches \/ \E b \in Boxes : Deletes(b)
<1>1. Edited
  BY AdministerEdits
<1>2. ASSUME NEW i \in RuleIds, DeleteRule(i) \/ \E rule \in Drafts : CreateRule(i, rule) \/ ChangeRule(i, rule)
      PROVE  EditsRules
  <2>1. UNCHANGED <<active, boxes>>
    BY <1>2 DEF DeleteRule, CreateRule, ChangeRule
  <2>2. \A k \in RuleIds \ {i} : rules'[k] = rules[k]
    BY <1>2 DEF DeleteRule, CreateRule, ChangeRule, TypeOK
  <2>3. rules'[i].box = None \/ Present(rules'[i].box)
    <3>1. CASE DeleteRule(i)
      BY <3>1 DEF DeleteRule, TypeOK, Deleted, Vacant
    <3>2. ASSUME NEW rule \in Drafts, CreateRule(i, rule) \/ ChangeRule(i, rule)
          PROVE  rules'[i].box = None \/ Present(rules'[i].box)
      <4>1. rules'[i] = rule /\ SavableAs(rule)
        BY <3>2 DEF CreateRule, ChangeRule, TypeOK
      <4> QED
        BY <4>1, RoutingAssumption DEF SavableAs, Present, Homes
    <3> QED
      BY <1>2, <3>1, <3>2
  <2> QED
    BY <1>1, <2>1, <2>2, <2>3 DEF EditsRules
<1>3. ASSUME NEW b \in Boxes, DeleteBox(b) PROVE Deletes(b)
  BY <1>3, DeleteBoxDeletes
<1>4. ASSUME NEW b \in Boxes, NEW home \in Homes, CreateBox(b, home) PROVE EditsBoxes
  <2>1. \A r \in Resolutions : Deciding(r) /\ home \in {"literal", "variant"} => moved'[r]
    BY <1>4 DEF CreateBox, Edit
  <2>2. /\ boxes'[b].home = home /\ ~boxes'[b].alias
        /\ \A c \in Boxes \ {b} : boxes'[c] = boxes[c]
        /\ boxes[b].home = "unborn" /\ UNCHANGED <<active, rules>>
    BY <1>4 DEF CreateBox, TypeOK
  <2> QED
    BY <1>1, <2>1, <2>2 DEF EditsBoxes
<1>5. ASSUME NEW b \in Boxes, ChangeAlias(b) PROVE EditsBoxes
  <2>1. \A r \in Resolutions : Deciding(r) /\ ~boxes[b].alias => moved'[r]
    BY <1>5 DEF ChangeAlias, Edit
  <2>2. /\ boxes'[b].home = boxes[b].home
        /\ \A c \in Boxes \ {b} : boxes'[c] = boxes[c]
        /\ boxes[b].home # "unborn" /\ UNCHANGED <<active, rules>>
    BY <1>5 DEF ChangeAlias, TypeOK, Box, Present
  <2> QED
    BY <1>1, <2>1, <2>2 DEF EditsBoxes
<1>6. ASSUME NEW b \in Boxes, ChangeDomains(b) PROVE EditsBoxes
  <2>1. /\ boxes'[b].home = boxes[b].home /\ boxes'[b].alias = boxes[b].alias
        /\ \A c \in Boxes \ {b} : boxes'[c] = boxes[c]
        /\ boxes[b].home # "unborn" /\ UNCHANGED <<active, rules>>
    BY <1>6 DEF ChangeDomains, TypeOK, Box, Present
  <2> QED
    BY <1>1, <2>1 DEF EditsBoxes
<1>7. ASSUME ChangeStatus PROVE Switches
  BY <1>1, <1>7 DEF ChangeStatus, Edit, Switches
<1> QED
  BY <1>2, <1>3, <1>4, <1>5, <1>6, <1>7 DEF Administer

\* A deleted rule stays so.
LEMMA DeletedStays ==
  ASSUME TypeOK, [Next]_vars, NEW i \in RuleIds, rules[i] = Deleted
  PROVE  rules'[i] = Deleted
<1>1. CASE rules' = rules
  BY <1>1
<1>2. ASSUME NEW k \in RuleIds, DeleteRule(k) \/ \E rule \in Drafts : CreateRule(k, rule) \/ ChangeRule(k, rule)
      PROVE  rules'[i] = Deleted
  <2>1. Vacant # Deleted
    BY DEF Vacant, Deleted
  <2>2. k # i
    BY <1>2, <2>1 DEF DeleteRule, CreateRule, ChangeRule
  <2> QED
    BY <1>2, <2>2 DEF DeleteRule, CreateRule, ChangeRule, TypeOK
<1>3. ASSUME NEW b \in Boxes, DeleteBox(b) PROVE rules'[i] = Deleted
  <2>1. rules[i].box = None /\ b # None
    BY RoutingAssumption DEF Deleted, Vacant
  <2> QED
    BY <1>3, <2>1 DEF DeleteBox
<1>4. rules' = rules \/ Administer
  BY ResolveKeeps DEF Next, vars, tables, Ask
<1> QED
  BY <1>1, <1>2, <1>3, <1>4 DEF Administer, ChangeAlias, ChangeDomains, CreateBox, ChangeStatus

-----------------------------------------------------------------------------
(***************************************************************************)
(* The conjuncts of the invariant, one by one.                             *)
(***************************************************************************)
LEMMA KeyStep ==
  ASSUME TypeOK, HistoryOK, KeyInv, Next
  PROVE  KeyInv'
<1>1. ASSUME NEW r \in Resolutions, NEW who, Ask(r, who) PROVE KeyInv'
  BY <1>1 DEF Ask, KeyInv, Present, tables
<1>2. ASSUME NEW r \in Resolutions, Resolve(r) PROVE KeyInv'
  <2>1. UNCHANGED tables
    BY <1>2, ResolveKeeps
  <2>2. \A q \in Resolutions : seen'[q] = seen[q] \/ seen'[q] = rules
    BY <1>2 DEF Resolve, FindDomain, ReadRules, FindExact, FindAlias, ListCandidates, TryCandidate,
         TryRule, ReadCount, WriteCount, Throw, TypeOK
  <2> QED
    BY <2>1, <2>2 DEF KeyInv, Present, tables
<1>3. CASE Administer
  <2>1. UNCHANGED seen
    BY <1>3, AdministerEdits DEF Edited, localVars
  <2>2. /\ rules \in Lists /\ \A r \in Resolutions : seen[r] \in Lists
        /\ None \notin Boxes
    BY RoutingAssumption DEF TypeOK, Lists
  <2>3. CASE EditsRules
    BY <2>1, <2>3 DEF EditsRules, KeyInv, Present
  <2>4. ASSUME NEW b, Deletes(b) PROVE KeyInv'
    <3>1. \A i \in RuleIds : rules[i].box \in Boxes \cup {None}
      BY <2>2, ListFields
    <3>2. \A r \in Resolutions, i \in RuleIds : seen[r][i].box \in Boxes \cup {None}
      BY <2>2, ListFields
    <3> QED
      BY <2>1, <2>4, <3>1, <3>2 DEF Deletes, KeyInv, Present
  <2>5. CASE EditsBoxes
    <3>1. \A i \in RuleIds : rules[i].box \in Boxes \cup {None}
      BY <2>2, ListFields
    <3>2. \A r \in Resolutions, i \in RuleIds : seen[r][i].box \in Boxes \cup {None}
      BY <2>2, ListFields
    <3> QED
      BY <2>1, <2>5, <3>1, <3>2 DEF EditsBoxes, KeyInv, Present
  <2>6. CASE Switches
    BY <2>1, <2>6 DEF Switches, KeyInv, Present
  <2> QED
    BY <1>3, <2>3, <2>4, <2>5, <2>6, EditKinds
<1> QED
  BY <1>1, <1>2, <1>3 DEF Next

\* A resolution that decides: who counts, and what.
LEMMA DecidesFor ==
  ASSUME TypeOK, NEW r \in Resolutions, asker'[r] = asker[r],
         NEW d, Decide(r, d), decision'[r] \in Decisions
  PROVE  /\ pc'[r] \in {"count", "done"}
         /\ Counting(r)' => asker'[r] = "intake" /\ decision'[r].rule \in RuleIds
<1>1. /\ decision'[r] = d
      /\ pc'[r] = IF asker[r] = "intake" /\ d.rule # 0 THEN "count" ELSE "done"
  BY DecideEffect
<1>2. decision'[r].rule \in RuleIds \cup {0}
  BY DEF Decisions
<1> QED
  BY <1>1, <1>2 DEF Counting

WhoAt(q) ==
  /\ pc[q] = "idle" => decision[q] = Null
  /\ Deciding(q) => decision[q] = Null
  /\ Counting(q) => asker[q] = "intake" /\ decision[q].rule \in RuleIds
  /\ pc[q] = "fallback" => \A i \in rest[q] : seen[q][i].action \in {"forward", "store"}

LEMMA WhoStep ==
  ASSUME TypeOK, HistoryOK, WhoInv, RestInv, CountInv, Next
  PROVE  WhoInv' /\ RestInv'
<1>0. /\ \A q \in Resolutions : WhoAt(q)
      /\ (\A q \in Resolutions : WhoAt(q)') => WhoInv' /\ RestInv'
  BY DEF WhoInv, RestInv, WhoAt
<1>1. ASSUME NEW q \in Resolutions, Stays(q) PROVE WhoAt(q)'
  <2>1. WhoAt(q)
    BY <1>0
  <2> QED
    BY <1>1, <2>1 DEF Stays, WhoAt, Counting, Deciding, Live
<1>2. ASSUME NEW r \in Resolutions, NEW who \in {"intake", "consumer", "forwarding"}, Ask(r, who)
      PROVE  WhoAt(r)'
  <2>1. pc[r] = "idle" /\ pc'[r] = "domain" /\ decision' = decision
    BY <1>2, DecideEffect DEF Ask
  <2> QED
    BY <1>0, <2>1 DEF WhoAt, Counting
<1>3. ASSUME NEW r \in Resolutions, Resolve(r) PROVE WhoAt(r)'
  <2>1. asker'[r] = asker[r] /\ decision'[r] \in Decisions
    <3>1. decision' \in [Resolutions -> Decisions]
      BY <1>3, ResolveTypes DEF TypeOK
    <3> QED
      BY <1>3, <3>1, ResolveKeeps
  <2>2. ASSUME NEW d, Decide(r, d) PROVE WhoAt(r)'
    <3>1. /\ pc'[r] \in {"count", "done"}
          /\ Counting(r)' => asker'[r] = "intake" /\ decision'[r].rule \in RuleIds
      BY <2>1, <2>2, DecidesFor
    <3> QED
      BY <3>1 DEF WhoAt, Deciding, Live
  <2>3. ASSUME NEW step \in {"rules", "exact", "alias", "everywhere", "spread"},
               Continue(r, step), Deciding(r)
        PROVE  WhoAt(r)'
    <3>1. pc'[r] = step /\ decision'[r] = Null
      BY <1>0, <2>3, DecideEffect DEF WhoAt
    <3> QED
      BY <3>1 DEF WhoAt, Counting
  <2>4. CASE FindDomain(r)
    BY <2>2, <2>3, <2>4, Stages DEF FindDomain
  <2>5. CASE ReadRules(r)
    BY <2>2, <2>3, <2>5, Stages DEF ReadRules
  <2>6. CASE FindExact(r)
    BY <2>2, <2>3, <2>6, Stages DEF FindExact
  <2>7. CASE FindAlias(r)
    BY <2>2, <2>3, <2>7, Stages DEF FindAlias
  <2>8. CASE ListCandidates(r)
    BY <2>2, <2>3, <2>8, Stages DEF ListCandidates
  <2>9. CASE TryCandidate(r)
    <3>1. CASE Continue(r, "fallback") /\ rest' = [rest EXCEPT ![r] = Fallbacks(seen[r], asker[r])]
               /\ UNCHANGED seen
      <4>1. pc'[r] = "fallback" /\ decision'[r] = Null
        BY <1>0, <2>9, <3>1, DecideEffect, Stages DEF WhoAt, TryCandidate
      <4>2. rest'[r] = Fallbacks(seen[r], asker[r]) /\ seen'[r] = seen[r]
        BY <3>1 DEF TypeOK
      <4> QED
        BY <4>1, <4>2 DEF WhoAt, Counting, Fallbacks
    <3> QED
      BY <2>2, <2>3, <2>9, <3>1, Stages DEF TryCandidate
  <2>10. CASE TryRule(r)
    <3>1. ASSUME Continue(r, "fallback"), rest'[r] \subseteq rest[r] PROVE WhoAt(r)'
      <4>1. pc[r] = "fallback" /\ seen' = seen
        BY <2>10 DEF TryRule
      <4>2. pc'[r] = "fallback" /\ decision'[r] = Null
        BY <1>0, <3>1, <4>1, DecideEffect, Stages DEF WhoAt
      <4> QED
        BY <1>0, <3>1, <4>1, <4>2 DEF WhoAt, Counting
    <3>2. rest'[r] \subseteq rest[r]
      BY <2>10 DEF TryRule, TypeOK
    <3> QED
      BY <2>2, <2>10, <3>1, <3>2 DEF TryRule
  <2>11. CASE ReadCount(r) \/ WriteCount(r) \/ Throw(r)
    <3>1. pc'[r] \in {"write", "done", "failed"} /\ decision' = decision /\ asker' = asker
      BY <2>11, <1>3, ResolveKeeps, DecideEffect DEF ReadCount, WriteCount, Throw
    <3>2. pc'[r] = "write" => Counting(r)
      BY <2>11, DecideEffect DEF ReadCount, WriteCount, Throw, Counting
    <3>3. ~Deciding(r)'
      BY <3>1 DEF Deciding, Live
    <3> QED
      BY <1>0, <3>1, <3>2, <3>3 DEF WhoAt, Counting
  <2> QED
    BY <1>3, <2>4, <2>5, <2>6, <2>7, <2>8, <2>9, <2>10, <2>11 DEF Resolve
<1>4. ASSUME Administer, NEW q \in Resolutions PROVE WhoAt(q)'
  <2>1. UNCHANGED <<pc, localVars, decision>>
    BY <1>4, AdministerEdits DEF Edited
  <2>2. WhoAt(q)
    BY <1>0
  <2> QED
    BY <2>1, <2>2 DEF WhoAt, Deciding, Live, Counting, localVars
<1>5. \A q \in Resolutions : WhoAt(q)'
  BY <1>1, <1>2, <1>3, <1>4, AskStays, ResolveStays DEF Next
<1> QED
  BY <1>0, <1>5

-----------------------------------------------------------------------------
(* The counts. *)
LEMMA DecidesUncounted ==
  ASSUME TypeOK, NEW r \in Resolutions, NEW d, Decide(r, d), asker'[r] = asker[r],
         pc'[r] = "done", asker'[r] = "intake"
  PROVE  decision'[r].rule = 0
BY DecideEffect

LEMMA ThroughGrows ==
  ASSUME TypeOK, HistoryOK, WhoInv, Next, NEW i \in RuleIds
  PROVE  /\ Through(i) \subseteq Through(i)'
         /\ \A q \in Through(i)' \ Through(i) :
              (ReadCount(q) /\ rules[i] = Deleted) \/ WriteCount(q)
<1>1. ASSUME NEW q \in Resolutions, Stays(q) PROVE q \in Through(i)' <=> q \in Through(i)
  BY <1>1 DEF Stays, Through, Matched
<1>2. ASSUME NEW r \in Resolutions, NEW who, Ask(r, who)
      PROVE  r \notin Through(i) /\ r \notin Through(i)'
  <2>1. pc[r] = "idle" /\ pc'[r] = "domain"
    BY <1>2, DecideEffect DEF Ask
  <2> QED
    BY <2>1 DEF Through
<1>3. ASSUME NEW r \in Resolutions, Resolve(r)
      PROVE  /\ r \notin Through(i)
             /\ r \in Through(i)' => (ReadCount(r) /\ rules[i] = Deleted) \/ WriteCount(r)
  <2>1. asker'[r] = asker[r]
    BY <1>3, ResolveKeeps
  <2>2. pc[r] # "done"
    BY <1>3 DEF Resolve, FindDomain, ReadRules, FindExact, FindAlias, ListCandidates, TryCandidate,
         TryRule, ReadCount, WriteCount, Throw, Live
  <2>3. 0 \notin RuleIds
    BY DEF RuleIds
  <2>4. ASSUME NEW d, Decide(r, d) PROVE r \notin Through(i)'
    BY <2>1, <2>3, <2>4, DecidesUncounted DEF Through, Matched
  <2>5. ASSUME NEW step \in {"rules", "exact", "alias", "everywhere", "spread", "fallback"},
               Continue(r, step)
        PROVE  r \notin Through(i)'
    BY <2>5, DecideEffect DEF Through
  <2>6. r \notin Through(i)' \/ ReadCount(r) \/ WriteCount(r) \/ Throw(r)
    BY <1>3, <2>4, <2>5 DEF Resolve, FindDomain, ReadRules, FindExact, FindAlias, ListCandidates,
       TryCandidate, TryRule
  <2>7. CASE Throw(r)
    BY <2>2, <2>7, DecideEffect DEF Throw, Through
  <2>8. CASE ReadCount(r)
    <3>1. ASSUME r \in Through(i)' PROVE rules[i] = Deleted
      <4>1. pc'[r] = "done" /\ decision'[r] = decision[r] /\ decision'[r].rule = i
        BY <2>8, <3>1 DEF Through, Matched, ReadCount
      <4> QED
        BY <2>8, <4>1, DecideEffect DEF ReadCount
    <3> QED
      BY <2>2, <2>8, <3>1 DEF Through
  <2> QED
    BY <2>2, <2>6, <2>7, <2>8 DEF Through
<1>4. ASSUME Administer PROVE Through(i)' = Through(i)
  <2>1. UNCHANGED <<pc, asker, decision>>
    BY <1>4, AdministerEdits DEF Edited, localVars
  <2> QED
    BY <2>1 DEF Through, Matched
<1>5. Through(i) \subseteq Resolutions /\ Through(i)' \subseteq Resolutions
  BY DEF Through, Matched
<1>6. ASSUME NEW r \in Resolutions, NEW who \in {"intake", "consumer", "forwarding"}, Ask(r, who)
      PROVE  Through(i)' = Through(i)
  BY <1>1, <1>2, <1>5, <1>6, AskStays
<1>7. ASSUME NEW r \in Resolutions, Resolve(r)
      PROVE  /\ Through(i) \subseteq Through(i)'
             /\ \A q \in Through(i)' \ Through(i) :
                  (ReadCount(q) /\ rules[i] = Deleted) \/ WriteCount(q)
  <2>1. \A q \in Resolutions \ {r} : q \in Through(i)' <=> q \in Through(i)
    BY <1>1, <1>7, ResolveStays
  <2> QED
    BY <1>3, <1>5, <1>7, <2>1
<1> QED
  BY <1>4, <1>6, <1>7 DEF Next

LEMMA ThroughCounts ==
  ASSUME TypeOK, HistoryOK, WhoInv, Next, NEW i \in RuleIds
  PROVE  /\ Cardinality(Through(i)) \in Nat /\ Cardinality(Through(i)') \in Nat
         /\ Cardinality(Through(i)) <= Cardinality(Through(i)')
         /\ \A q \in Through(i)' \ Through(i) : Cardinality(Through(i)) + 1 <= Cardinality(Through(i)')
<1>1. IsFiniteSet(Resolutions)
  BY RoutingAssumption, FS_Interval DEF Resolutions
<1>2. Through(i)' \subseteq Resolutions /\ Through(i) \subseteq Through(i)'
  BY ThroughGrows DEF Through, Matched
<1> DEFINE S == Through(i)  T == Through(i)'
<1>3. S \subseteq T /\ T \subseteq Resolutions
  BY <1>2
<1> HIDE DEF S, T
<1>4. IsFiniteSet(T) /\ IsFiniteSet(S) /\ Cardinality(S) \in Nat /\ Cardinality(T) \in Nat
  BY <1>1, <1>3, FS_Subset, FS_CardinalityType
<1>5. Cardinality(S) <= Cardinality(T)
  BY <1>3, <1>4, FS_Subset
<1>6. ASSUME NEW q \in T \ S PROVE Cardinality(S) + 1 <= Cardinality(T)
  <2>1. S \cup {q} \subseteq T /\ q \notin S
    BY <1>3, <1>6
  <2>2. Cardinality(S \cup {q}) = Cardinality(S) + 1
    BY <1>4, <2>1, FS_AddElement
  <2>3. Cardinality(S \cup {q}) <= Cardinality(T)
    BY <1>4, <2>1, FS_Subset
  <2> QED
    BY <2>2, <2>3
<1> QED
  BY <1>4, <1>5, <1>6 DEF S, T

LEMMA CountStep ==
  ASSUME TypeOK, HistoryOK, WhoInv, CountInv, Next
  PROVE  CountInv'
<1>1. ASSUME NEW i \in RuleIds
      PROVE  /\ matchCount'[i] <= Cardinality(Through(i)')
             /\ rules'[i] # Deleted /\ Through(i)' # {} => matchCount'[i] > 0
  <2>1. /\ Cardinality(Through(i)) \in Nat /\ Cardinality(Through(i)') \in Nat
        /\ Cardinality(Through(i)) <= Cardinality(Through(i)')
        /\ \A q \in Through(i)' \ Through(i) : Cardinality(Through(i)) + 1 <= Cardinality(Through(i)')
    BY ThroughCounts
  <2>2. /\ matchCount[i] \in Nat /\ matchCount[i] <= Cardinality(Through(i))
        /\ rules[i] # Deleted /\ Through(i) # {} => matchCount[i] > 0
    BY DEF CountInv, TypeOK
  <2>3. rules'[i] # Deleted => rules[i] # Deleted
    BY DeletedStays
  <2>4. ASSUME NEW r \in Resolutions, WriteCount(r), decision[r].rule = i, rules[i] # Deleted
        PROVE  /\ matchCount'[i] = counted[r] + 1 /\ counted[r] \in Nat
               /\ counted[r] <= Cardinality(Through(i)) /\ r \in Through(i)' \ Through(i)
    <3>1. pc[r] = "write" /\ pc'[r] = "done" /\ asker[r] = "intake" /\ UNCHANGED <<asker, decision>>
      BY <2>4, DecideEffect DEF WriteCount, WhoInv, Counting, Unasked
    <3>2. counted[r] \in Nat /\ counted[r] <= Cardinality(Through(i))
      BY <2>4, <3>1 DEF CountInv, TypeOK
    <3>3. matchCount'[i] = counted[r] + 1
      BY <2>4 DEF WriteCount, TypeOK
    <3> QED
      BY <2>4, <3>1, <3>2, <3>3 DEF Through, Matched
  <2>5. CASE \E r \in Resolutions : WriteCount(r) /\ decision[r].rule = i /\ rules[i] # Deleted
    <3>1. PICK r \in Resolutions : WriteCount(r) /\ decision[r].rule = i /\ rules[i] # Deleted
      BY <2>5
    <3> HIDE DEF Through
    <3> QED
      BY <2>1, <2>4, <3>1
  <2>6. CASE ~\E r \in Resolutions : WriteCount(r) /\ decision[r].rule = i /\ rules[i] # Deleted
    <3>1. matchCount'[i] = matchCount[i]
      <4>1. ASSUME NEW r \in Resolutions, Resolve(r) PROVE matchCount'[i] = matchCount[i]
        <5>1. CASE WriteCount(r)
          BY <2>6, <5>1 DEF WriteCount, TypeOK
        <5>2. CASE ~WriteCount(r)
          BY <4>1, <5>2 DEF Resolve, FindDomain, ReadRules, FindExact, FindAlias, ListCandidates,
             TryCandidate, TryRule, ReadCount, Throw, Searching
        <5> QED
          BY <5>1, <5>2
      <4>2. ASSUME Administer PROVE matchCount' = matchCount
        BY <4>2, AdministerEdits DEF Edited
      <4> QED
        BY <4>1, <4>2 DEF Next, Ask
    <3>2. rules[i] # Deleted => Through(i)' \subseteq Through(i)
      <4> SUFFICES ASSUME rules[i] # Deleted, NEW q \in Through(i)', q \notin Through(i) PROVE FALSE
        OBVIOUS
      <4>1. WriteCount(q)
        BY ThroughGrows
      <4>2. q \in Resolutions /\ decision'[q].rule = i
        BY DEF Through, Matched
      <4> QED
        BY <2>6, <4>1, <4>2 DEF WriteCount
    <3> QED
      BY <2>1, <2>2, <2>3, <3>1, <3>2
  <2> QED
    BY <2>5, <2>6
<1>2. ASSUME NEW q \in Resolutions, pc'[q] = "write"
      PROVE  counted'[q] <= Cardinality(Through(decision[q].rule)')
  <2>1. CASE Stays(q)
    <3>1. /\ pc[q] = "write" /\ counted'[q] = counted[q] /\ decision'[q] = decision[q]
      BY <1>2, <2>1 DEF Stays
    <3>2. PICK i \in RuleIds : i = decision[q].rule
      BY <3>1 DEF WhoInv, Counting
    <3>3. counted[q] \in Nat /\ counted[q] <= Cardinality(Through(i))
      BY <3>1, <3>2 DEF CountInv, TypeOK
    <3>4. Cardinality(Through(i)) <= Cardinality(Through(i)')
          /\ Cardinality(Through(i)) \in Nat /\ Cardinality(Through(i)') \in Nat
      BY ThroughCounts
    <3>5. counted'[q] <= Cardinality(Through(i)')
      BY <3>1, <3>3, <3>4
    <3>6. Through(decision[q].rule)' = Through(i)'
      BY <3>1, <3>2 DEF Through, Matched
    <3> QED
      BY <3>5, <3>6
  <2>2. CASE Resolve(q)
    <3>1. ReadCount(q)
      <4>1. ASSUME NEW d, Decide(q, d) PROVE FALSE
        BY <1>2, <4>1, DecideEffect
      <4>2. ASSUME NEW step \in {"rules", "exact", "alias", "everywhere", "spread", "fallback"},
                   Continue(q, step)
            PROVE  FALSE
        BY <1>2, <4>2, DecideEffect
      <4> QED
        BY <1>2, <2>2, <4>1, <4>2, DecideEffect DEF Resolve, FindDomain, ReadRules, FindExact,
           FindAlias, ListCandidates, TryCandidate, TryRule, WriteCount, Throw
    <3>2. PICK i \in RuleIds : i = decision[q].rule
      BY <3>1 DEF WhoInv, Counting, ReadCount
    <3>3. counted'[q] = matchCount[i] /\ decision' = decision
      BY <3>1, <3>2 DEF ReadCount, TypeOK
    <3>4. /\ Cardinality(Through(i)) <= Cardinality(Through(i)')
          /\ Cardinality(Through(i)) \in Nat /\ Cardinality(Through(i)') \in Nat
      BY ThroughCounts
    <3>5. matchCount[i] \in Nat /\ matchCount[i] <= Cardinality(Through(i))
      BY DEF CountInv, TypeOK
    <3>6. Through(decision[q].rule)' = Through(i)'
      BY <3>3, <3>2 DEF Through, Matched
    <3> QED
      BY <3>3, <3>4, <3>5, <3>6
  <2>3. CASE Administer
    <3>1. UNCHANGED <<pc, counted, decision, asker>>
      BY <2>3, AdministerEdits DEF Edited, localVars
    <3>2. Stays(q) \/ counted'[q] <= Cardinality(Through(decision[q].rule)')
      <4>1. pc[q] = "write"
        BY <1>2, <3>1
      <4>2. counted[q] <= Cardinality(Through(decision[q].rule))
        BY <4>1 DEF CountInv
      <4>3. Through(decision[q].rule)' = Through(decision[q].rule)
        BY <3>1 DEF Through, Matched
      <4> QED
        BY <3>1, <4>2, <4>3
    <3> QED
      BY <2>1, <3>2
  <2>4. ASSUME NEW who \in {"intake", "consumer", "forwarding"}, Ask(q, who) PROVE FALSE
    BY <1>2, <2>4, DecideEffect DEF Ask
  <2> QED
    BY <2>1, <2>2, <2>3, <2>4, AskStays, ResolveStays DEF Next
<1> QED
  BY <1>1, <1>2 DEF CountInv

-----------------------------------------------------------------------------
(* What stands. *)
LEMMA AnswerFields ==
  /\ \A i : Reject(i).action = "reject"
  /\ \A b : Store(b).action = "store" /\ Store(b).rule = 0
<1>1. ASSUME NEW i PROVE Reject(i).action = "reject"
  BY DEF Reject, Null
<1>2. ASSUME NEW b PROVE Store(b).action = "store" /\ Store(b).rule = 0
  BY DEF Store, Null
<1> QED
  BY <1>1, <1>2

LEMMA DecidingBefore ==
  ASSUME TypeOK, NEW r \in Resolutions, Resolve(r)
  PROVE  Deciding(r)' => Deciding(r)
<1>1. Live(r)
  BY DEF Resolve, FindDomain, ReadRules, FindExact, FindAlias, ListCandidates,
     TryCandidate, TryRule, ReadCount, WriteCount, Throw, Live
<1>2. CASE Counting(r)
  <2>1. ReadCount(r) \/ WriteCount(r) \/ Throw(r)
    BY <1>2 DEF Counting, Resolve, FindDomain, ReadRules, FindExact, FindAlias,
       ListCandidates, TryCandidate, TryRule
  <2>2. pc'[r] \in {"write", "done", "failed"}
    BY <2>1, DecideEffect DEF ReadCount, WriteCount, Throw
  <2> QED
    BY <2>2 DEF Deciding, Live
<1> QED
  BY <1>1, <1>2 DEF Deciding, Counting

LEMMA StandStep ==
  ASSUME TypeOK, HistoryOK, StandInv, Next
  PROVE  StandInv'
<1>1. ASSUME NEW q \in Resolutions, Stays(q), UNCHANGED tables PROVE StandAt(q)'
  <2>1. StandAt(q)
    BY DEF StandInv
  <2>2. Standing(asker[q])' = Standing(asker[q])
    BY <1>1 DEF Stays, Standing, Blocking, HasAddress, tables
  <2> QED
    BY <1>1, <2>1, <2>2 DEF Stays, StandAt, Decided, Deciding, Live
<1>2. ASSUME NEW r \in Resolutions, NEW who \in {"intake", "consumer", "forwarding"}, Ask(r, who)
      PROVE  StandAt(r)'
  <2>1. pc'[r] = "domain" /\ asker'[r] = who /\ stood'[r] = Standing(who)
    BY <1>2, DecideEffect DEF Ask, TypeOK, HistoryOK
  <2>2. Standing(asker[r])' = Standing(who)
    BY <1>2, <2>1 DEF Ask, Standing, Blocking, HasAddress, tables
  <2> QED
    BY <2>1, <2>2 DEF StandAt, Past, Decided
<1>3. ASSUME NEW r \in Resolutions, Resolve(r) PROVE StandAt(r)'
  <2>1. UNCHANGED <<tables, asker, stood>>
    BY <1>3, ResolveKeeps DEF history
  <2>2. StandAt(r)
    BY DEF StandInv
  <2>3. Standing(asker[r])' = Standing(asker[r]) /\ stood'[r] = stood[r]
    BY <2>1 DEF Standing, Blocking, HasAddress, tables
  <2> DEFINE s == stood[r]
             Rest == /\ pc'[r] \in Past => s.blocks = {}
                     /\ pc'[r] \in Past \ {"exact"} => s.boxes = {}
                     /\ Decided(r)' /\ s.blocks # {} => decision'[r].action = "reject"
                     /\ Decided(r)' /\ s.boxes # {} =>
                          \/ decision'[r].action = "reject"
                          \/ decision'[r].action = "store" /\ decision'[r].rule = 0
  <2>4. Deciding(r)' => Deciding(r)
    BY <1>3, DecidingBefore
  <2>5. Rest => StandAt(r)'
    BY <2>2, <2>3, <2>4 DEF StandAt
  <2>6. CASE FindDomain(r)
    <3>1. ASSUME active PROVE Rest
      BY <2>6, <3>1, DecideEffect DEF FindDomain, Past, Decided
    <3>2. ASSUME ~active PROVE Rest
      <4>1. s.boxes = {} /\ s.blocks = {}
        BY <2>2, <2>6, <3>2, Stages DEF FindDomain, StandAt, Standing
      <4> QED
        BY <4>1
    <3> HIDE DEF Rest
    <3> QED
      BY <2>5, <3>1, <3>2
  <2>7. CASE ReadRules(r)
    <3>1. ASSUME Blocking(rules, asker[r]) # {} PROVE Rest
      <4>1. pc'[r] \in {"count", "done"} /\ decision'[r].action = "reject"
        BY <2>7, <3>1, AnswerFields, DecideEffect DEF ReadRules
      <4> QED
        BY <4>1 DEF Past
    <3>2. ASSUME Blocking(rules, asker[r]) = {} PROVE Rest
      <4>1. s.blocks = {}
        BY <2>2, <2>7, <3>2, Stages DEF ReadRules, StandAt, Standing
      <4>2. pc'[r] = "exact"
        BY <2>7, <3>2, DecideEffect DEF ReadRules
      <4> QED
        BY <4>1, <4>2 DEF Decided
    <3> HIDE DEF Rest
    <3> QED
      BY <2>5, <3>1, <3>2
  <2>8. CASE FindExact(r)
    <3>1. s.blocks = {}
      BY <2>2, <2>8 DEF FindExact, StandAt, Past
    <3>2. ASSUME \E b \in Boxes : HasAddress(b) PROVE Rest
      <4>1. PICK b \in Boxes : Decide(r, Store(b))
        BY <2>8, <3>2 DEF FindExact
      <4>2. decision'[r].action = "store" /\ decision'[r].rule = 0 /\ pc'[r] \in {"count", "done"}
        BY <4>1, AnswerFields, DecideEffect
      <4> QED
        BY <3>1, <4>2 DEF Past
    <3>3. ASSUME ~\E b \in Boxes : HasAddress(b) PROVE Rest
      <4>1. s.boxes = {}
        BY <2>2, <2>8, <3>3, Stages DEF FindExact, StandAt, Standing
      <4> QED
        BY <3>1, <4>1
    <3> HIDE DEF Rest
    <3> QED
      BY <2>5, <3>2, <3>3
  <2>9. CASE FindAlias(r) \/ ListCandidates(r) \/ TryCandidate(r) \/ TryRule(r)
    <3>1. pc[r] \in Past \ {"exact"}
      BY <2>9 DEF FindAlias, ListCandidates, TryCandidate, TryRule, Past
    <3>2. s.boxes = {} /\ s.blocks = {}
      BY <2>2, <3>1 DEF StandAt
    <3> QED
      BY <2>5, <3>2
  <2>10. CASE ReadCount(r) \/ WriteCount(r)
    <3>1. pc'[r] \in {"write", "done"} /\ decision' = decision /\ Decided(r)
      BY <2>10, DecideEffect DEF ReadCount, WriteCount, Decided
    <3> QED
      BY <2>2, <2>5, <3>1 DEF StandAt, Past
  <2>11. CASE Throw(r)
    <3>1. pc'[r] = "failed"
      BY <2>11, DecideEffect DEF Throw
    <3> QED
      BY <2>5, <3>1 DEF Past, Decided
  <2> QED
    BY <1>3, <2>6, <2>7, <2>8, <2>9, <2>10, <2>11 DEF Resolve
<1>4. ASSUME Administer, NEW q \in Resolutions PROVE StandAt(q)'
  <2>1. Edited
    BY <1>4, AdministerEdits
  <2>2. /\ UNCHANGED <<pc, asker, decision>>
        /\ stood'[q] = IF Deciding(q) THEN Both(stood[q], Standing(asker[q])') ELSE stood[q]
    BY <2>1 DEF Edited, localVars
  <2>3. StandAt(q)
    BY DEF StandInv
  <2>4. CASE Deciding(q)
    <3>1. /\ stood'[q].boxes = stood[q].boxes \cap Standing(asker[q])'.boxes
          /\ stood'[q].blocks = stood[q].blocks \cap Standing(asker[q])'.blocks
      BY <2>2, <2>4 DEF Both
    <3>2. Decided(q)' => Decided(q)
      BY <2>2 DEF Decided
    <3> QED
      BY <2>2, <2>3, <3>1, <3>2 DEF StandAt
  <2>5. CASE ~Deciding(q)
    BY <2>2, <2>3, <2>5 DEF StandAt, Decided, Deciding, Live
  <2> QED
    BY <2>4, <2>5
<1>5. \A q \in Resolutions : StandAt(q)'
  BY <1>1, <1>2, <1>3, <1>4, AskStays, ResolveStays, ResolveKeeps DEF Next, Ask
<1> QED
  BY <1>5 DEF StandInv

-----------------------------------------------------------------------------
(***************************************************************************)
(* The answers to come.                                                    *)
(***************************************************************************)
LEMMA RouteIsFromDomain ==
  TypeOK => \A r \in Resolutions : Route(asker[r]) = FromDomain(asker[r])
<1> SUFFICES ASSUME NEW r \in Resolutions PROVE Route(asker[r]) = FromDomain(asker[r])
  OBVIOUS
<1> DEFINE spread == {b \in Boxes : boxes[b].home = "away" /\ boxes[b].everywhere /\ Answers(b, "away")}
           usable == {i \in Fallbacks(rules, asker[r]) : Usable(rules[i])}
           nearest == IF Exact # {} THEN Exact ELSE IF Aliased # {} THEN Aliased ELSE spread
<1>1. active /\ Exact = {} /\ Aliased = {} => spread = Spread
  BY DEF Exact, Aliased, Spread, Answers
<1>2. Route(asker[r]) =
        CASE ~active -> {Null}
          [] active /\ Blocking(rules, asker[r]) # {} -> {Reject(First(Blocking(rules, asker[r]), rules))}
          [] active /\ Blocking(rules, asker[r]) = {} /\ nearest # {} -> {Store(b) : b \in nearest}
          [] OTHER -> IF usable = {} THEN {Null}
                      ELSE {ByRule(First(usable, rules), rules[First(usable, rules)])}
  BY DEF Route, Exact, Aliased
<1>3. ByFallback(rules, asker[r]) = IF usable = {} THEN Null
                                    ELSE ByRule(First(usable, rules), rules[First(usable, rules)])
  BY DEF ByFallback, ByRules, Fitting
<1> HIDE DEF spread, usable
<1> QED
  BY <1>1, <1>2, <1>3 DEF FromDomain, FromRules, FromExact, FromAlias, FromEverywhere, Stores

LEMMA RouteIsFromDomainNext ==
  ASSUME TypeOK'
  PROVE  \A r \in Resolutions : Route(asker[r])' = FromDomain(asker[r])'
<1>1. (TypeOK => \A r \in Resolutions : Route(asker[r]) = FromDomain(asker[r]))'
  BY RouteIsFromDomain, PTL
<1> QED
  BY <1>1

LEMMA SameBoxes ==
  ASSUME UNCHANGED boxes
  PROVE  /\ Exact' = Exact /\ Aliased' = Aliased /\ Spread' = Spread
         /\ \A S, rs : ByRules(S, rs)' = ByRules(S, rs)
         /\ \A rs, who : FromEverywhere(rs, who)' = FromEverywhere(rs, who)
         /\ \A rs, who : FromAlias(rs, who)' = FromAlias(rs, who)
         /\ \A rs, who : FromExact(rs, who)' = FromExact(rs, who)
<1>1. boxes' = boxes
  OBVIOUS
<1>2. Exact' = Exact /\ Aliased' = Aliased /\ Spread' = Spread
  BY <1>1 DEF Exact, Aliased, Spread, HasAddress, AliasedTo, Present
<1>3. ASSUME NEW S, NEW rs PROVE ByRules(S, rs)' = ByRules(S, rs)
  <2>1. Fitting(S, rs)' = Fitting(S, rs)
    BY <1>1 DEF Fitting, Usable, Present
  <2>2. \A i, rule : ByRule(i, rule)' = ByRule(i, rule)
    BY <1>1 DEF ByRule, Present
  <2> QED
    BY <2>1, <2>2 DEF ByRules
<1>4. ASSUME NEW rs, NEW who PROVE FromEverywhere(rs, who)' = FromEverywhere(rs, who)
  BY <1>2, <1>3 DEF FromEverywhere, ByFallback, Stores
<1>5. ASSUME NEW rs, NEW who PROVE FromAlias(rs, who)' = FromAlias(rs, who)
  BY <1>2, <1>4 DEF FromAlias, Stores
<1>6. ASSUME NEW rs, NEW who PROVE FromExact(rs, who)' = FromExact(rs, who)
  BY <1>2, <1>5 DEF FromExact, Stores
<1> QED
  BY <1>2, <1>3, <1>4, <1>5, <1>6

LEMMA SameTables ==
  ASSUME UNCHANGED tables
  PROVE  /\ Exact' = Exact /\ Aliased' = Aliased /\ Spread' = Spread
         /\ \A S, rs : ByRules(S, rs)' = ByRules(S, rs)
         /\ \A rs, who : FromEverywhere(rs, who)' = FromEverywhere(rs, who)
         /\ \A rs, who : FromAlias(rs, who)' = FromAlias(rs, who)
         /\ \A rs, who : FromExact(rs, who)' = FromExact(rs, who)
         /\ \A who : FromRules(who)' = FromRules(who)
         /\ \A who : FromDomain(who)' = FromDomain(who)
<1>1. active' = active /\ boxes' = boxes /\ rules' = rules
  BY DEF tables
<1>2. /\ Exact' = Exact /\ Aliased' = Aliased /\ Spread' = Spread
      /\ \A S, rs : ByRules(S, rs)' = ByRules(S, rs)
      /\ \A rs, who : FromEverywhere(rs, who)' = FromEverywhere(rs, who)
      /\ \A rs, who : FromAlias(rs, who)' = FromAlias(rs, who)
      /\ \A rs, who : FromExact(rs, who)' = FromExact(rs, who)
  BY <1>1, SameBoxes
<1>3. ASSUME NEW who PROVE FromRules(who)' = FromRules(who)
  BY <1>1, <1>2 DEF FromRules
<1>4. ASSUME NEW who PROVE FromDomain(who)' = FromDomain(who)
  BY <1>1, <1>3 DEF FromDomain
<1> QED
  BY <1>2, <1>3, <1>4

LEMMA ViewStays ==
  ASSUME UNCHANGED tables, NEW q, Stays(q)
  PROVE  ViewAt(q)' <=> ViewAt(q)
<1>1. active' = active /\ Exact' = Exact /\ Aliased' = Aliased
  BY SameTables DEF tables
<1>2. /\ FromDomain(asker[q])' = FromDomain(asker[q])
      /\ FromRules(asker[q])' = FromRules(asker[q])
      /\ FromExact(seen[q], asker[q])' = FromExact(seen[q], asker[q])
      /\ FromAlias(seen[q], asker[q])' = FromAlias(seen[q], asker[q])
      /\ FromEverywhere(seen[q], asker[q])' = FromEverywhere(seen[q], asker[q])
      /\ ByFallback(seen[q], asker[q])' = ByFallback(seen[q], asker[q])
      /\ ByRules(rest[q], seen[q])' = ByRules(rest[q], seen[q])
  BY SameTables DEF Stays, ByFallback
<1>3. /\ pc'[q] = pc[q] /\ could'[q] = could[q] /\ candidates'[q] = candidates[q]
  BY DEF Stays
<1> QED
  BY <1>1, <1>2, <1>3 DEF ViewAt

LEMMA FreshStays ==
  ASSUME UNCHANGED tables, NEW q, Stays(q)
  PROVE  FreshAt(q)' <=> FreshAt(q)
<1>1. rules' = rules /\ Spread' = Spread /\ Blocking(rules, asker[q])' = Blocking(rules, asker[q])
  BY SameTables DEF tables, Stays
<1>2. \A i : Usable(seen[q][i])' <=> Usable(seen[q][i])
  BY DEF Usable, Present, Stays, tables
<1> QED
  BY <1>1, <1>2 DEF FreshAt, Stays

-----------------------------------------------------------------------------
(* A resolution goes on as it was foreseen. *)
LEMMA NextRule ==
  ASSUME NEW S \in SUBSET RuleIds, S # {}, NEW rs \in Lists
  PROVE  /\ Usable(rs[First(S, rs)]) => ByRules(S, rs) = ByRule(First(S, rs), rs[First(S, rs)])
         /\ ~Usable(rs[First(S, rs)]) => ByRules(S \ {First(S, rs)}, rs) = ByRules(S, rs)
<1>1. First(S, rs) \in S
  BY FirstTypes
<1>2. CASE Usable(rs[First(S, rs)])
  <2> DEFINE F == Fitting(S, rs)
  <2>1. First(S, rs) \in F /\ F \subseteq S
    BY <1>1, <1>2 DEF Fitting
  <2> HIDE DEF F
  <2>2. First(F, rs) = First(S, rs)
    BY <2>1, FirstOfFewer, ListFields
  <2> QED
    BY <1>2, <2>1, <2>2 DEF ByRules, F
<1>3. CASE ~Usable(rs[First(S, rs)])
  <2>1. Fitting(S \ {First(S, rs)}, rs) = Fitting(S, rs)
    BY <1>3 DEF Fitting
  <2> QED
    BY <1>3, <2>1 DEF ByRules
<1> QED
  BY <1>2, <1>3

LEMMA NoRule ==
  ASSUME NEW rs PROVE ByRules({}, rs) = Null
BY DEF ByRules, Fitting

LEMMA ResolveView ==
  ASSUME TypeOK, HistoryOK, FreshInv, ViewInv, AnswersOneState, NEW r \in Resolutions, Resolve(r)
  PROVE  /\ Deciding(r)' /\ ~Excused(r)' => ViewAt(r)'
         /\ Deciding(r)' /\ meanwhile'[r] = 0 => FreshAt(r)'
         /\ Decided(r)' => decision'[r] \in could'[r] \/ meanwhile'[r] > 1 \/ moved'[r]
<1>1. /\ asker'[r] = asker[r] /\ could'[r] = could[r]
      /\ meanwhile'[r] = meanwhile[r] /\ moved'[r] = moved[r] /\ UNCHANGED tables
  BY ResolveKeeps DEF history
<1>2. meanwhile[r] = 0 => ~Excused(r)
  BY DEF HistoryOK, Excused
<1> DEFINE Goal == /\ Deciding(r)' => ViewAt(r)'
                   /\ Deciding(r)' /\ meanwhile[r] = 0 => FreshAt(r)'
                   /\ Decided(r)' => decision'[r] \in could[r]
<1>3. ~Excused(r) => Goal
  <2> SUFFICES ASSUME ~Excused(r) PROVE Goal
    OBVIOUS
  <2>1. /\ Deciding(r) => ViewAt(r)
        /\ Deciding(r) /\ meanwhile[r] = 0 => FreshAt(r)
        /\ Decided(r) => decision[r] \in could[r]
    BY DEF ViewInv, FreshInv, AnswersOneState, Excused
  <2>2. ASSUME NEW d, Decide(r, d), d \in could[r] PROVE Goal
    <3>1. pc'[r] \in {"count", "done"} /\ decision'[r] = d
      BY <2>2, DecideEffect
    <3> QED
      BY <2>2, <3>1 DEF Deciding, Live
  <2>3. /\ Exact' = Exact /\ Aliased' = Aliased /\ Spread' = Spread
        /\ active' = active /\ rules' = rules /\ boxes' = boxes
    BY <1>1, SameTables DEF tables
  <2>4. CASE FindDomain(r)
    <3>1. FromDomain(asker[r]) \subseteq could[r]
      BY <2>1, <2>4, Stages DEF FindDomain, ViewAt
    <3>2. ASSUME ~active PROVE Goal
      <4>1. Null \in could[r] /\ Decide(r, Null)
        BY <2>4, <3>1, <3>2 DEF FindDomain, FromDomain
      <4> HIDE DEF Goal
      <4> QED
        BY <2>2, <4>1
    <3>3. ASSUME active PROVE Goal
      <4>1. pc'[r] = "rules" /\ FromRules(asker[r]) \subseteq could[r]
        BY <2>4, <3>1, <3>3, DecideEffect DEF FindDomain, FromDomain
      <4>2. FromRules(asker[r])' = FromRules(asker[r])
        BY <1>1, SameTables
      <4> QED
        BY <1>1, <2>3, <3>3, <4>1, <4>2 DEF ViewAt, FreshAt, Past, Decided
    <3> HIDE DEF Goal
    <3> QED
      BY <3>2, <3>3
  <2>5. CASE ReadRules(r)
    <3>1. FromRules(asker[r]) \subseteq could[r] /\ active
      BY <2>1, <2>5, Stages DEF ReadRules, ViewAt
    <3>2. ASSUME Blocking(rules, asker[r]) # {} PROVE Goal
      <4> DEFINE d == Reject(First(Blocking(rules, asker[r]), rules))
      <4>1. Decide(r, d)
        BY <2>5, <3>2 DEF ReadRules
      <4>2. d \in could[r]
        BY <3>1, <3>2 DEF FromRules
      <4> HIDE DEF Goal, d
      <4> QED
        BY <2>2, <4>1, <4>2
    <3>3. ASSUME Blocking(rules, asker[r]) = {} PROVE Goal
      <4>1. pc'[r] = "exact" /\ seen'[r] = rules
        BY <2>5, <3>3, DecideEffect DEF ReadRules, TypeOK
      <4>2. FromExact(rules, asker[r]) \subseteq could[r]
        BY <3>1, <3>3 DEF FromRules
      <4>3. FromExact(seen[r], asker[r])' = FromExact(rules, asker[r])
        BY <1>1, <4>1, SameTables
      <4>4. Blocking(rules, asker[r])' = {}
        BY <1>1, <2>3, <3>3
      <4> QED
        BY <1>1, <2>3, <3>1, <4>1, <4>2, <4>3, <4>4 DEF ViewAt, FreshAt, Decided
    <3> HIDE DEF Goal
    <3> QED
      BY <3>2, <3>3
  <2>6. CASE FindExact(r)
    <3>1. /\ FromExact(seen[r], asker[r]) \subseteq could[r] /\ active
          /\ meanwhile[r] = 0 => seen[r] = rules /\ Blocking(rules, asker[r]) = {}
      BY <2>1, <2>6, Stages DEF FindExact, ViewAt, FreshAt, Past
    <3>2. seen'[r] = seen[r]
      BY <2>6 DEF FindExact
    <3>3. ASSUME Exact # {} PROVE Goal
      <4>1. PICK b \in Exact : Decide(r, Store(b))
        BY <2>6, <3>3 DEF FindExact, Exact
      <4>2. Store(b) \in could[r]
        BY <3>1, <3>3, <4>1 DEF FromExact, Stores
      <4> HIDE DEF Goal
      <4> QED
        BY <2>2, <4>1, <4>2
    <3>4. ASSUME Exact = {} PROVE Goal
      <4>1. pc'[r] = "alias"
        BY <2>6, <3>4, DecideEffect DEF FindExact, Exact
      <4>2. FromAlias(seen[r], asker[r])' \subseteq could[r]
        BY <1>1, <3>1, <3>2, <3>4, SameTables DEF FromExact
      <4>3. Blocking(rules, asker[r])' = Blocking(rules, asker[r])
        BY <1>1, <2>3
      <4> QED
        BY <1>1, <2>3, <3>1, <3>2, <3>4, <4>1, <4>2, <4>3 DEF ViewAt, FreshAt, Decided
    <3> HIDE DEF Goal
    <3> QED
      BY <3>3, <3>4
  <2>7. CASE FindAlias(r)
    <3>1. /\ FromAlias(seen[r], asker[r]) \subseteq could[r] /\ active /\ Exact = {}
          /\ meanwhile[r] = 0 => seen[r] = rules /\ Blocking(rules, asker[r]) = {}
      BY <2>1, <2>7, Stages DEF FindAlias, ViewAt, FreshAt, Past
    <3>2. seen'[r] = seen[r]
      BY <2>7 DEF FindAlias
    <3>3. ASSUME Aliased # {} PROVE Goal
      <4>1. PICK b \in Aliased : Decide(r, Store(b))
        BY <2>7, <3>3 DEF FindAlias, Aliased
      <4>2. Store(b) \in could[r]
        BY <3>1, <3>3, <4>1 DEF FromAlias, Stores
      <4> HIDE DEF Goal
      <4> QED
        BY <2>2, <4>1, <4>2
    <3>4. ASSUME Aliased = {} PROVE Goal
      <4>1. pc'[r] = "everywhere"
        BY <2>7, <3>4, DecideEffect DEF FindAlias, Aliased
      <4>2. FromEverywhere(seen[r], asker[r])' \subseteq could[r]
        BY <1>1, <3>1, <3>2, <3>4, SameTables DEF FromAlias
      <4>3. Blocking(rules, asker[r])' = Blocking(rules, asker[r])
        BY <1>1, <2>3
      <4> QED
        BY <1>1, <2>3, <3>1, <3>2, <3>4, <4>1, <4>2, <4>3 DEF ViewAt, FreshAt, Decided
    <3> HIDE DEF Goal
    <3> QED
      BY <3>3, <3>4
  <2>8. CASE ListCandidates(r)
    <3>1. /\ FromEverywhere(seen[r], asker[r]) \subseteq could[r]
          /\ active /\ Exact = {} /\ Aliased = {}
          /\ meanwhile[r] = 0 => seen[r] = rules /\ Blocking(rules, asker[r]) = {}
      BY <2>1, <2>8, Stages DEF ListCandidates, ViewAt, FreshAt, Past
    <3>2. seen'[r] = seen[r] /\ pc'[r] = "spread"
      BY <2>8, DecideEffect DEF ListCandidates
    <3>3. candidates'[r] = {<<b, "away">> : b \in Spread}
      <4>1. candidates'[r] = {<<b, boxes[b].home>> : b \in {c \in Boxes :
              boxes[c].everywhere /\ boxes[c].home \in {"literal", "variant", "away"}}}
        BY <2>8 DEF ListCandidates, TypeOK
      <4>2. \A c \in Boxes : boxes[c].home \notin {"literal", "variant"}
        BY <3>1 DEF Exact, HasAddress
      <4> QED
        BY <4>1, <4>2 DEF Spread
    <3>4. \A e \in candidates'[r] : e[2] = "away" /\ Store(e[1]) \in could[r]
      BY <3>1, <3>3 DEF FromEverywhere, Stores
    <3>5. candidates'[r] = {} => ByFallback(seen[r], asker[r])' \in could[r]
      <4> SUFFICES ASSUME candidates'[r] = {} PROVE ByFallback(seen[r], asker[r])' \in could[r]
        OBVIOUS
      <4>1. Spread = {}
        BY <3>3
      <4>2. ByFallback(seen[r], asker[r]) \in could[r]
        BY <3>1, <4>1 DEF FromEverywhere
      <4> QED
        BY <1>1, <3>2, <4>2, SameTables DEF ByFallback
    <3>6. Blocking(rules, asker[r])' = Blocking(rules, asker[r])
      BY <1>1, <2>3
    <3> QED
      BY <1>1, <2>3, <3>1, <3>2, <3>3, <3>4, <3>5, <3>6 DEF ViewAt, FreshAt, Decided
  <2>9. CASE TryCandidate(r)
    <3>1. /\ \A e \in candidates[r] : e[2] = "away" /\ Store(e[1]) \in could[r]
          /\ candidates[r] = {} => ByFallback(seen[r], asker[r]) \in could[r]
          /\ active /\ Exact = {} /\ Aliased = {}
          /\ meanwhile[r] = 0 => /\ seen[r] = rules /\ Blocking(rules, asker[r]) = {}
                                /\ candidates[r] = {<<b, "away">> : b \in Spread}
      BY <2>1, <2>9, Stages DEF TryCandidate, ViewAt, FreshAt, Past
    <3>2. \A e \in candidates[r] : Answers(e[1], e[2])
      BY <3>1 DEF Answers, Exact, Aliased
    <3>3. ASSUME NEW e \in candidates[r], Decide(r, Store(e[1])) PROVE Goal
      <4>1. Store(e[1]) \in could[r]
        BY <3>1
      <4> HIDE DEF Goal
      <4> QED
        BY <2>2, <3>3, <4>1
    <3>4. ASSUME candidates[r] = {}, rest' = [rest EXCEPT ![r] = Fallbacks(seen[r], asker[r])],
                 Continue(r, "fallback"), UNCHANGED seen
          PROVE  Goal
      <4>1. pc'[r] = "fallback" /\ rest'[r] = Fallbacks(seen[r], asker[r]) /\ seen'[r] = seen[r]
        BY <3>4, DecideEffect DEF TypeOK
      <4>2. ByRules(rest[r], seen[r])' \in could[r]
        BY <1>1, <3>1, <3>4, <4>1, SameTables DEF ByFallback
      <4>3. Blocking(rules, asker[r])' = Blocking(rules, asker[r])
        BY <1>1, <2>3
      <4>4. meanwhile[r] = 0 => Spread = {}
        BY <3>1, <3>4
      <4> QED
        BY <1>1, <2>3, <3>1, <4>1, <4>2, <4>3, <4>4 DEF ViewAt, FreshAt, Decided
    <3> HIDE DEF Goal
    <3> QED
      BY <2>9, <3>2, <3>3, <3>4 DEF TryCandidate
  <2>10. CASE TryRule(r)
    <3> DEFINE i == First(rest[r], seen[r])
    <3>1. /\ ByRules(rest[r], seen[r]) \in could[r] /\ active /\ Exact = {} /\ Aliased = {}
          /\ meanwhile[r] = 0 =>
               /\ seen[r] = rules /\ Blocking(rules, asker[r]) = {}
               /\ Spread = {} /\ rest[r] \subseteq Fallbacks(seen[r], asker[r])
               /\ \A k \in Fallbacks(seen[r], asker[r]) \ rest[r] : ~Usable(seen[r][k])
      BY <2>1, <2>10, Stages DEF TryRule, ViewAt, FreshAt, Past
    <3>2. rest[r] \in SUBSET RuleIds /\ seen[r] \in Lists /\ seen'[r] = seen[r]
      BY <2>10 DEF TypeOK, Lists, TryRule
    <3>3. ASSUME rest[r] = {} PROVE Goal
      <4>1. Decide(r, Null) /\ Null \in could[r]
        BY <2>10, <3>1, <3>3, NoRule DEF TryRule
      <4> HIDE DEF Goal
      <4> QED
        BY <2>2, <4>1
    <3>4. ASSUME rest[r] # {}, Usable(seen[r][i]) PROVE Goal
      <4> DEFINE d == ByRule(i, seen[r][i])
      <4>1. Decide(r, d)
        BY <2>10, <3>4 DEF TryRule
      <4>2. d = ByRules(rest[r], seen[r])
        BY <3>2, <3>4, NextRule
      <4> HIDE DEF Goal, d
      <4> QED
        BY <2>2, <3>1, <4>1, <4>2
    <3>5. ASSUME rest[r] # {}, ~Usable(seen[r][i]) PROVE Goal
      <4>1. pc'[r] = "fallback" /\ rest'[r] = rest[r] \ {i}
        BY <2>10, <3>5, DecideEffect DEF TryRule, TypeOK
      <4>2. ByRules(rest[r] \ {i}, seen[r]) = ByRules(rest[r], seen[r])
        BY <3>2, <3>5, NextRule
      <4>3. ByRules(rest[r], seen[r])' \in could[r]
        BY <1>1, <3>1, <3>2, <4>1, <4>2, SameTables
      <4>4. Blocking(rules, asker[r])' = Blocking(rules, asker[r])
        BY <1>1, <2>3
      <4>5. \A k : Usable(seen[r][k])' <=> Usable(seen[r][k])
        BY <2>3, <3>2 DEF Usable, Present
      <4>6. meanwhile[r] = 0 =>
              \A k \in Fallbacks(seen[r], asker[r]) \ rest'[r] : ~Usable(seen[r][k])'
        BY <3>1, <3>5, <4>1, <4>5
      <4> HIDE DEF i
      <4> QED
        BY <1>1, <2>3, <3>1, <3>2, <4>1, <4>3, <4>4, <4>6 DEF ViewAt, FreshAt, Decided
    <3> HIDE DEF Goal
    <3> QED
      BY <3>3, <3>4, <3>5
  <2>11. CASE ReadCount(r) \/ WriteCount(r)
    <3>1. pc'[r] \in {"write", "done"} /\ decision' = decision /\ Decided(r)
      BY <2>11, DecideEffect DEF ReadCount, WriteCount, Decided
    <3> QED
      BY <2>1, <3>1 DEF Deciding, Live
  <2>12. CASE Throw(r)
    <3>1. pc'[r] = "failed"
      BY <2>12, DecideEffect DEF Throw
    <3> QED
      BY <3>1 DEF Deciding, Live, Decided
  <2> HIDE DEF Goal
  <2> QED
    BY <2>4, <2>5, <2>6, <2>7, <2>8, <2>9, <2>10, <2>11, <2>12 DEF Resolve
<1> QED
  BY <1>1, <1>2, <1>3 DEF Excused

-----------------------------------------------------------------------------
(***************************************************************************)
(* The first edit while a resolution runs: its answer will be one from     *)
(* before or after.                                                        *)
(***************************************************************************)
LEMMA BoxesEdited ==
  ASSUME TypeOK, KeyInv, EditsBoxes, NEW r \in Resolutions, Deciding(r), ~moved'[r]
  PROVE  /\ Exact' = Exact /\ Aliased' \subseteq Aliased
         /\ ByFallback(seen[r], asker[r])' = ByFallback(seen[r], asker[r])
         /\ ByRules(rest[r], seen[r])' = ByRules(rest[r], seen[r])
<1>1. seen' = seen /\ asker' = asker /\ rest' = rest
  BY DEF EditsBoxes, Edited, localVars
<1>2. ASSUME NEW b \in Boxes
      PROVE  /\ boxes'[b].home \in {"literal", "variant"} <=> boxes[b].home \in {"literal", "variant"}
             /\ boxes'[b].alias => boxes[b].alias
             /\ boxes[b].home # "unborn" => boxes'[b].home = boxes[b].home
             /\ boxes'[b].alias /\ boxes[b].home = "unborn" => boxes'[b] = boxes[b]
  BY DEF EditsBoxes, Homes
<1>3. Exact' = Exact
  BY <1>2 DEF Exact, HasAddress
<1>4. ASSUME NEW b \in Boxes, AliasedTo(b)' PROVE AliasedTo(b)
  <2>1. b # None /\ boxes'[b].home \notin {"unborn", "gone"} /\ boxes'[b].alias
    BY <1>4 DEF AliasedTo, Present
  <2>2. boxes[b].home # "unborn"
    BY <1>2, <2>1
  <2> QED
    BY <1>2, <2>1, <2>2 DEF AliasedTo, Present
<1>5. Aliased' \subseteq Aliased
  BY <1>4 DEF Aliased
<1>6. ASSUME NEW i \in RuleIds PROVE Present(seen[r][i].box)' <=> Present(seen[r][i].box)
  <2>1. CASE seen[r][i].box = None
    BY <1>1, <2>1 DEF Present
  <2>2. CASE seen[r][i].box # None
    <3>1. seen[r][i].box \in Boxes
      BY <2>2, RowFields DEF TypeOK
    <3>2. boxes[seen[r][i].box].home # "unborn"
      BY <2>2 DEF KeyInv
    <3> QED
      BY <1>1, <1>2, <3>1, <3>2 DEF Present
  <2> QED
    BY <2>1, <2>2
<1>7. ASSUME NEW S \in SUBSET RuleIds PROVE ByRules(S, seen[r])' = ByRules(S, seen[r])
  <2>1. \A i \in S : /\ Usable(seen[r][i])' <=> Usable(seen[r][i])
                     /\ ByRule(i, seen[r][i])' = ByRule(i, seen[r][i])
    BY <1>1, <1>6 DEF Usable, ByRule
  <2>2. Fitting(S, seen[r])' = Fitting(S, seen[r])
    BY <1>1, <2>1 DEF Fitting
  <2> DEFINE F == Fitting(S, seen[r])
  <2>3. F # {} => First(F, seen[r]) \in S
    <3>1. F \subseteq S
      BY DEF Fitting
    <3> HIDE DEF F
    <3> QED
      BY <3>1, FirstTypes DEF TypeOK, Lists
  <2> QED
    BY <1>1, <2>1, <2>2, <2>3 DEF ByRules
<1>8. Fallbacks(seen[r], asker[r]) \in SUBSET RuleIds /\ rest[r] \in SUBSET RuleIds
  BY DEF Fallbacks, TypeOK
<1>9. Fallbacks(seen[r], asker[r])' = Fallbacks(seen[r], asker[r])
  BY <1>1 DEF Fallbacks, Hits
<1>10. ByFallback(seen[r], asker[r])' = ByFallback(seen[r], asker[r])
  BY <1>1, <1>7, <1>8, <1>9 DEF ByFallback
<1>11. ByRules(rest[r], seen[r])' = ByRules(rest[r], seen[r])
  BY <1>1, <1>7, <1>8
<1> QED
  BY <1>3, <1>5, <1>10, <1>11

LEMMA BoxDeleted ==
  ASSUME TypeOK, NEW b \in Boxes, Deletes(b), NEW r \in Resolutions, seen[r] = rules
  PROVE  /\ Exact' \subseteq Exact /\ Aliased' \subseteq Aliased /\ Spread' \subseteq Spread
         /\ Blocking(rules, asker[r])' = Blocking(rules, asker[r])
         /\ \A i \in RuleIds : Usable(seen[r][i])' => Usable(seen[r][i])
         /\ ByFallback(seen[r], asker[r])' = ByFallback(rules, asker[r])'
<1>1. seen' = seen /\ asker' = asker
  BY DEF Deletes, Edited, localVars
<1>2. /\ boxes'[b].home = "gone" /\ ~boxes'[b].alias /\ b # None
      /\ \A c \in Boxes \ {b} : boxes'[c] = boxes[c]
  BY RoutingAssumption DEF Deletes
<1>3. Exact' \subseteq Exact /\ Aliased' \subseteq Aliased /\ Spread' \subseteq Spread
  BY <1>2 DEF Exact, Aliased, Spread, HasAddress, AliasedTo, Present
<1>4. ASSUME NEW i \in RuleIds
      PROVE  /\ rules'[i].action = rules[i].action /\ rules'[i].hits = rules[i].hits
             /\ rules'[i].priority = rules[i].priority /\ (rules'[i].keep <=> rules[i].keep)
             /\ rules'[i].box = IF rules[i].box = b THEN None ELSE rules[i].box
             /\ rules[i].box \in Boxes \cup {None} /\ rules[i].priority \in Nat
  BY RowFields DEF Deletes, TypeOK
<1>5. ASSUME NEW i \in RuleIds
      PROVE  /\ Present(rules[i].box)' <=> Present(seen[r][i].box)'
             /\ Present(seen[r][i].box)' => Present(seen[r][i].box)
             /\ Present(rules[i].box)' => rules'[i].box = seen'[r][i].box
  BY <1>1, <1>2, <1>4 DEF Present
<1>6. Blocking(rules, asker[r])' = Blocking(rules, asker[r])
  BY <1>1, <1>4 DEF Blocking, Hits
<1>7. Fallbacks(rules, asker[r])' = Fallbacks(seen[r], asker[r])'
  BY <1>1, <1>4 DEF Fallbacks, Hits
<1>8. ASSUME NEW i \in RuleIds PROVE Usable(rules[i])' <=> Usable(seen[r][i])'
  BY <1>1, <1>4, <1>5 DEF Usable
<1>9. ASSUME NEW i \in RuleIds PROVE Usable(seen[r][i])' => Usable(seen[r][i])
  BY <1>1, <1>5 DEF Usable
<1>10. ASSUME NEW i \in RuleIds PROVE ByRule(i, rules[i])' = ByRule(i, seen[r][i])'
  <2> DEFINE x == IF Present(rules[i].box)' THEN rules'[i].box ELSE None
             y == IF Present(seen[r][i].box)' THEN seen'[r][i].box ELSE None
             k == rules'[i].keep /\ Present(rules[i].box)'
             l == seen'[r][i].keep /\ Present(seen[r][i].box)'
  <2>1. x = y
    BY <1>5
  <2>2. k \in BOOLEAN /\ l \in BOOLEAN /\ (k <=> l)
    BY <1>1, <1>4, <1>5
  <2>3. k = l
    BY <2>2
  <2>4. rules'[i].action = seen'[r][i].action
    BY <1>1, <1>4
  <2>5. /\ ByRule(i, rules[i])' = [action |-> rules'[i].action, rule |-> i, box |-> x, keep |-> k]
        /\ ByRule(i, seen[r][i])' = [action |-> seen'[r][i].action, rule |-> i, box |-> y, keep |-> l]
    BY DEF ByRule
  <2> HIDE DEF x, y, k, l
  <2> QED
    BY <2>1, <2>3, <2>4, <2>5
<1>11. ASSUME NEW S \in SUBSET RuleIds PROVE ByRules(S, rules)' = ByRules(S, seen[r])'
  <2> DEFINE F == Fitting(S, seen[r])
  <2>1. Fitting(S, rules)' = F' /\ F' \in SUBSET RuleIds
    BY <1>8 DEF Fitting
  <2>2. CASE F' = {}
    BY <2>1, <2>2 DEF ByRules
  <2>3. CASE F' # {}
    <3>1. First(F', rules') = First(F', seen'[r])
      <4> HIDE DEF F
      <4>1. \A i \in RuleIds : seen'[r][i].priority \in Nat /\ rules'[i].priority = seen'[r][i].priority
        BY <1>1, <1>4
      <4> QED
        BY <2>1, <2>3, <4>1, FirstByPriority
    <3>2. First(F', seen'[r]) \in RuleIds
      <4> HIDE DEF F
      <4>1. \A i \in RuleIds : seen'[r][i].priority \in Nat
        BY <1>1, <1>4
      <4> QED
        BY <2>1, <2>3, <4>1, FirstExists
    <3>3. First(F, rules)' = First(F', rules') /\ First(F, seen[r])' = First(F', seen'[r])
      BY DEF First, Before
    <3>4. ByRule(First(F, rules), rules[First(F, rules)])' = ByRule(First(F, seen[r]), seen[r][First(F, seen[r])])'
      BY <1>10, <3>1, <3>2, <3>3
    <3> QED
      BY <2>1, <2>3, <3>4 DEF ByRules
  <2> QED
    BY <2>2, <2>3
<1>12. Fallbacks(seen[r], asker[r])' \in SUBSET RuleIds
  BY DEF Fallbacks
<1>13. ByFallback(seen[r], asker[r])' = ByFallback(rules, asker[r])'
  BY <1>7, <1>11, <1>12 DEF ByFallback
<1> QED
  BY <1>3, <1>6, <1>9, <1>13

LEMMA EditView ==
  ASSUME TypeOK, HistoryOK, KeyInv, CouldInv, FreshInv, ViewInv, Administer,
         NEW r \in Resolutions, Deciding(r), ~Excused(r)',
         Route(asker[r])' \subseteq could'[r]
  PROVE  ViewAt(r)'
<1>1. Edited
  BY AdministerEdits
<1>2. /\ pc' = pc /\ asker' = asker /\ seen' = seen /\ rest' = rest /\ candidates' = candidates
      /\ could[r] \subseteq could'[r] /\ meanwhile'[r] = meanwhile[r] + 1
      /\ ~moved'[r] /\ ~moved[r]
  BY <1>1 DEF Edited, localVars, Excused
<1>3. meanwhile[r] = 0 /\ ~Excused(r)
  BY <1>2 DEF Excused, HistoryOK
<1>4. ViewAt(r) /\ FreshAt(r)
  BY <1>3 DEF ViewInv, FreshInv
<1>5. FromDomain(asker[r])' \subseteq could'[r]
  BY RouteIsFromDomainNext, AdministerTypes
<1>6. pc[r] \in {"domain", "rules", "exact", "alias", "everywhere", "spread", "fallback"}
  BY Stages
<1>7. CASE pc[r] = "domain"
  BY <1>2, <1>5, <1>7 DEF ViewAt, Past
<1>8. ASSUME pc[r] # "domain" PROVE active /\ ~Switches
  BY <1>2, <1>4, <1>6, <1>8 DEF ViewAt, Past, Switches
<1>9. CASE pc[r] = "rules"
  <2>1. active'
    BY <1>8, <1>9, EditKinds DEF EditsRules, EditsBoxes, Deletes
  <2>2. FromRules(asker[r])' \subseteq could'[r]
    BY <1>5, <2>1 DEF FromDomain
  <2> QED
    BY <1>2, <1>9, <2>1, <2>2 DEF ViewAt, Past
<1>10. CASE pc[r] \in Past
  <2>1. active /\ active' /\ seen[r] = rules /\ Blocking(rules, asker[r]) = {}
    BY <1>4, <1>8, <1>10, EditKinds DEF EditsRules, EditsBoxes, Deletes, FreshAt, Past
  <2>2. CASE EditsRules
    <3>1. UNCHANGED boxes
      BY <2>2 DEF EditsRules
    <3>2. /\ Exact' = Exact /\ Aliased' = Aliased
          /\ FromExact(seen[r], asker[r])' = FromExact(seen[r], asker[r])
          /\ FromAlias(seen[r], asker[r])' = FromAlias(seen[r], asker[r])
          /\ FromEverywhere(seen[r], asker[r])' = FromEverywhere(seen[r], asker[r])
          /\ ByFallback(seen[r], asker[r])' = ByFallback(seen[r], asker[r])
          /\ ByRules(rest[r], seen[r])' = ByRules(rest[r], seen[r])
      BY <1>2, <3>1, SameBoxes DEF ByFallback
    <3> QED
      BY <1>2, <1>4, <1>10, <2>1, <3>2 DEF ViewAt, Past
  <2>3. ASSUME FromExact(seen[r], asker[r])' \subseteq could'[r],
               Exact' \subseteq Exact, Aliased' \subseteq Aliased,
               pc[r] = "spread" /\ candidates[r] = {} => ByFallback(seen[r], asker[r])' \in could'[r],
               pc[r] = "fallback" => ByRules(rest[r], seen[r])' \in could'[r]
        PROVE  ViewAt(r)'
    <3>1. pc[r] \in Past \ {"exact"} => /\ Exact' = {}
                                       /\ FromAlias(seen[r], asker[r])' \subseteq could'[r]
      BY <1>4, <2>3 DEF ViewAt, FromExact
    <3>2. pc[r] \in Past \ {"exact", "alias"} => /\ Aliased' = {}
                                                /\ FromEverywhere(seen[r], asker[r])' \subseteq could'[r]
      BY <1>4, <2>3, <3>1 DEF ViewAt, FromAlias
    <3>3. pc[r] = "spread" => \A e \in candidates[r] : e[2] = "away" /\ Store(e[1]) \in could'[r]
      BY <1>2, <1>4 DEF ViewAt
    <3> QED
      BY <1>2, <1>10, <2>1, <2>3, <3>1, <3>2, <3>3 DEF ViewAt, Past
  <2>4. CASE EditsBoxes
    <3>1. /\ Exact' = Exact /\ Aliased' \subseteq Aliased
          /\ ByFallback(seen[r], asker[r])' = ByFallback(seen[r], asker[r])
          /\ ByRules(rest[r], seen[r])' = ByRules(rest[r], seen[r])
      BY <1>2, <2>4, BoxesEdited
    <3>2. rules' = rules /\ Blocking(rules, asker[r])' = {} /\ seen'[r] = rules'
      BY <1>2, <2>1, <2>4 DEF EditsBoxes, Blocking, Hits
    <3>3. FromExact(seen[r], asker[r])' \subseteq could'[r]
      BY <1>5, <2>1, <3>2 DEF FromDomain, FromRules
    <3> QED
      BY <1>2, <1>4, <2>3, <3>1, <3>3 DEF ViewAt
  <2>5. ASSUME NEW b \in Boxes, Deletes(b) PROVE ViewAt(r)'
    <3>1. /\ Exact' \subseteq Exact /\ Aliased' \subseteq Aliased /\ Spread' \subseteq Spread
          /\ Blocking(rules, asker[r])' = Blocking(rules, asker[r])
          /\ \A i \in RuleIds : Usable(seen[r][i])' => Usable(seen[r][i])
          /\ ByFallback(seen[r], asker[r])' = ByFallback(rules, asker[r])'
      BY <2>1, <2>5, BoxDeleted
    <3>2. FromExact(rules, asker[r])' \subseteq could'[r]
      BY <1>5, <2>1, <3>1 DEF FromDomain, FromRules
    <3>3. FromExact(seen[r], asker[r])' = FromExact(rules, asker[r])'
      BY <3>1 DEF FromExact, FromAlias, FromEverywhere
    <3>4. pc[r] \in {"spread", "fallback"} => Exact' = {} /\ Aliased' = {}
      BY <1>4, <3>1 DEF ViewAt, Past
    <3>5. pc[r] \in {"spread", "fallback"} /\ Spread = {} => ByFallback(seen[r], asker[r])' \in could'[r]
      BY <3>1, <3>2, <3>3, <3>4 DEF FromExact, FromAlias, FromEverywhere
    <3>6. pc[r] = "spread" /\ candidates[r] = {} => Spread = {}
      BY <1>4 DEF FreshAt
    <3>7. pc[r] = "fallback" => ByRules(rest[r], seen[r])' = ByFallback(seen[r], asker[r])'
      <4> SUFFICES ASSUME pc[r] = "fallback"
                   PROVE  ByRules(rest[r], seen[r])' = ByFallback(seen[r], asker[r])'
        OBVIOUS
      <4>1. /\ rest[r] \subseteq Fallbacks(seen[r], asker[r])
            /\ \A i \in Fallbacks(seen[r], asker[r]) \ rest[r] : ~Usable(seen[r][i])
        BY <1>4 DEF FreshAt
      <4>2. Fallbacks(seen[r], asker[r])' = Fallbacks(seen[r], asker[r])
        BY <1>2 DEF Fallbacks, Hits
      <4>3. \A i \in Fallbacks(seen[r], asker[r]) \ rest[r] : ~Usable(seen[r][i])'
        BY <3>1, <4>1 DEF Fallbacks
      <4>4. Fitting(rest[r], seen[r])' = Fitting(Fallbacks(seen[r], asker[r]), seen[r])'
        BY <1>2, <4>1, <4>2, <4>3 DEF Fitting
      <4> QED
        BY <4>4 DEF ByFallback, ByRules
    <3>8. pc[r] = "fallback" => Spread = {}
      BY <1>4 DEF FreshAt
    <3> QED
      BY <2>3, <3>1, <3>2, <3>3, <3>5, <3>6, <3>7, <3>8
  <2> QED
    BY <1>8, <1>10, <2>2, <2>4, <2>5, EditKinds DEF Past
<1> QED
  BY <1>6, <1>7, <1>9, <1>10 DEF Past

-----------------------------------------------------------------------------
(* What is known of the answer of one resolution, to come or given. *)
AnswerAt(q) ==
  /\ Deciding(q) => Route(asker[q]) \subseteq could[q]
  /\ Deciding(q) /\ ~Excused(q) => ViewAt(q)
  /\ Deciding(q) /\ meanwhile[q] = 0 => FreshAt(q)
  /\ Decided(q) => decision[q] \in could[q] \/ meanwhile[q] > 1 \/ moved[q]

LEMMA AnswerStep ==
  ASSUME TypeOK, TypeOK', HistoryOK, KeyInv, CouldInv, FreshInv, ViewInv, AnswersOneState, Next
  PROVE  CouldInv' /\ FreshInv' /\ ViewInv' /\ AnswersOneState'
<1>1. /\ \A q \in Resolutions : AnswerAt(q)
      /\ (\A q \in Resolutions : AnswerAt(q)') => CouldInv' /\ FreshInv' /\ ViewInv' /\ AnswersOneState'
  BY DEF AnswerAt, CouldInv, FreshInv, ViewInv, AnswersOneState
<1>2. ASSUME NEW q \in Resolutions, UNCHANGED tables, asker'[q] = asker[q]
      PROVE  Route(asker[q])' = Route(asker[q])
  <2>1. Route(asker[q])' = FromDomain(asker[q])'
    BY RouteIsFromDomainNext
  <2>2. Route(asker[q]) = FromDomain(asker[q])
    BY RouteIsFromDomain
  <2>3. FromDomain(asker[q])' = FromDomain(asker[q])
    BY <1>2, SameTables
  <2> QED
    BY <2>1, <2>2, <2>3
<1>3. ASSUME NEW q \in Resolutions, Stays(q), UNCHANGED tables PROVE AnswerAt(q)'
  <2>1. /\ ViewAt(q)' <=> ViewAt(q)
        /\ FreshAt(q)' <=> FreshAt(q)
    BY <1>3, ViewStays, FreshStays
  <2>2. Route(asker[q])' = Route(asker[q])
    BY <1>2, <1>3 DEF Stays
  <2> QED
    BY <1>1, <1>3, <2>1, <2>2 DEF AnswerAt, Stays, Deciding, Live, Decided, Excused
<1>4. ASSUME NEW r \in Resolutions, NEW who \in {"intake", "consumer", "forwarding"}, Ask(r, who)
      PROVE  AnswerAt(r)'
  <2>1. pc'[r] = "domain" /\ asker'[r] = who /\ could'[r] = Route(who)
    BY <1>4, DecideEffect DEF Ask, TypeOK, HistoryOK
  <2>2. active' = active /\ boxes' = boxes /\ rules' = rules
    BY <1>4 DEF Ask, tables
  <2>3. Route(asker[r])' = Route(who)
    BY <2>1, <2>2 DEF Route, Blocking, Fallbacks, Usable, ByRule, HasAddress, AliasedTo, Present, Answers
  <2>4. FromDomain(asker[r])' = Route(who)
    BY <2>3, RouteIsFromDomainNext
  <2> QED
    BY <2>1, <2>3, <2>4 DEF AnswerAt, ViewAt, FreshAt, Past, Decided
<1>5. ASSUME NEW r \in Resolutions, Resolve(r) PROVE AnswerAt(r)'
  <2>1. UNCHANGED tables /\ asker' = asker /\ could' = could
    BY <1>5, ResolveKeeps DEF history
  <2>2. Route(asker[r])' = Route(asker[r]) /\ (Deciding(r)' => Deciding(r))
    BY <1>2, <1>5, <2>1, DecidingBefore
  <2>3. Deciding(r)' => Route(asker[r])' \subseteq could'[r]
    BY <2>1, <2>2 DEF CouldInv
  <2> QED
    BY <1>5, <2>3, ResolveView DEF AnswerAt
<1>6. ASSUME Administer, NEW q \in Resolutions PROVE AnswerAt(q)'
  <2>1. Edited
    BY <1>6, AdministerEdits
  <2>2. pc' = pc /\ decision' = decision /\ asker' = asker
    BY <2>1 DEF Edited, localVars
  <2>3. (Deciding(q)' <=> Deciding(q)) /\ (Decided(q)' <=> Decided(q))
    BY <2>2 DEF Deciding, Live, Decided
  <2>4. CASE Deciding(q)
    <3>1. Route(asker[q])' \subseteq could'[q] /\ meanwhile'[q] = meanwhile[q] + 1
      BY <2>1, <2>4 DEF Edited
    <3>2. meanwhile'[q] # 0
      BY <3>1 DEF HistoryOK
    <3>3. ~Excused(q)' => ViewAt(q)'
      BY <1>6, <2>4, <3>1, EditView
    <3>4. ~Decided(q)'
      BY <2>3, <2>4, Stages
    <3> QED
      BY <3>1, <3>2, <3>3, <3>4 DEF AnswerAt
  <2>5. CASE ~Deciding(q)
    <3>1. could'[q] = could[q] /\ meanwhile'[q] = meanwhile[q] /\ (moved[q] => moved'[q])
      BY <2>1, <2>5 DEF Edited
    <3> QED
      BY <1>1, <2>2, <2>3, <2>5, <3>1 DEF AnswerAt
  <2> QED
    BY <2>4, <2>5
<1>7. ASSUME NEW r \in Resolutions,
             Resolve(r) \/ \E who \in {"intake", "consumer", "forwarding"} : Ask(r, who),
             NEW q \in Resolutions
      PROVE  AnswerAt(q)'
  <2>1. UNCHANGED tables
    BY <1>7, ResolveKeeps DEF Ask
  <2>2. q # r => Stays(q)
    BY <1>7, AskStays, ResolveStays
  <2> QED
    BY <1>3, <1>4, <1>5, <1>7, <2>1, <2>2
<1> QED
  BY <1>1, <1>6, <1>7 DEF Next

-----------------------------------------------------------------------------
(***************************************************************************)
(* The invariant, and what it shows.                                       *)
(***************************************************************************)
LEMMA InitialTypes ==
  ASSUME Init PROVE TypeOK /\ HistoryOK
<1>1. PICK layout \in Layouts : boxes = layout.boxes /\ rules = layout.rules
  BY DEF Init
<1>2. layout \in [boxes : [Boxes -> Box], rules : [RuleIds -> Drafts \cup {Vacant}]]
  BY RoutingAssumption
<1>3. boxes \in [Boxes -> Box] /\ rules \in [RuleIds -> Rule \cup {Vacant, Deleted}]
  BY <1>1, <1>2, RoutingAssumption
<1>4. Null \in Decisions
  BY DEF Null, Decisions
<1>5. 0 \in 0..MaxResolutions /\ 0 \in 0..MaxEdits
  BY RoutingAssumption
<1>6. /\ pc \in [Resolutions -> Steps] /\ asker \in [Resolutions -> {"nobody", "intake", "consumer", "forwarding"}]
      /\ matchCount \in [RuleIds -> 0..MaxResolutions] /\ counted \in [Resolutions -> 0..MaxResolutions]
      /\ edits \in 0..MaxEdits /\ active \in BOOLEAN
  BY <1>5 DEF Init, Steps
<1>7. /\ seen \in [Resolutions -> [RuleIds -> Rule \cup {Vacant, Deleted}]]
      /\ rest \in [Resolutions -> SUBSET RuleIds]
      /\ candidates \in [Resolutions -> SUBSET (Boxes \X {"literal", "variant", "away"})]
      /\ decision \in [Resolutions -> Decisions]
  BY <1>4 DEF Init
<1>8. TypeOK
  BY <1>3, <1>6, <1>7 DEF TypeOK
<1>9. Nothing \in [boxes : SUBSET Boxes, blocks : SUBSET RuleIds]
  BY DEF Nothing
<1>10. HistoryOK
  BY <1>9 DEF Init, HistoryOK
<1> QED
  BY <1>8, <1>10

LEMMA Initial ==
  ASSUME Init PROVE IInv
<1>1. TypeOK /\ HistoryOK
  BY InitialTypes
<1>2. ASSUME NEW r \in Resolutions
      PROVE  /\ pc[r] = "idle" /\ decision[r] = Null /\ asker[r] = "nobody"
             /\ \A i \in RuleIds : seen[r][i].box = None
  BY DEF Init, Vacant
<1>3. KeyInv
  <2>1. PICK layout \in Layouts : boxes = layout.boxes /\ rules = layout.rules
    BY DEF Init
  <2>2. \A i \in RuleIds : rules[i].box # None => Present(rules[i].box)
    BY <2>1, RoutingAssumption DEF Present, Homes
  <2> QED
    BY <1>2, <2>2 DEF KeyInv
<1>4. WhoInv /\ RestInv /\ StandInv /\ CouldInv /\ FreshInv /\ ViewInv /\ AnswersOneState
  BY <1>2 DEF WhoInv, Counting, RestInv, StandInv, StandAt, Past, CouldInv, FreshInv, ViewInv,
     AnswersOneState, Deciding, Live, Decided
<1>5. CountInv
  <2>1. ASSUME NEW i \in RuleIds
        PROVE  matchCount[i] = 0 /\ Through(i) = {} /\ Cardinality(Through(i)) \in Nat
    <3>1. Through(i) = {}
      BY <1>2 DEF Through, Matched
    <3> QED
      BY <3>1, ThroughIsFinite DEF Init
  <2>2. \A r \in Resolutions : pc[r] # "write"
    BY <1>2
  <2> QED
    BY <2>1, <2>2 DEF CountInv
<1> QED
  BY <1>1, <1>3, <1>4, <1>5 DEF IInv

LEMMA Unchanged ==
  ASSUME IInv, UNCHANGED vars PROVE IInv'
<1>1. /\ active' = active /\ boxes' = boxes /\ rules' = rules /\ matchCount' = matchCount
      /\ pc' = pc /\ asker' = asker /\ seen' = seen /\ rest' = rest /\ candidates' = candidates
      /\ counted' = counted /\ decision' = decision /\ could' = could /\ stood' = stood
      /\ meanwhile' = meanwhile /\ moved' = moved /\ edits' = edits
  BY DEF vars, tables, localVars, history
<1>2. TypeOK' /\ HistoryOK'
  BY <1>1 DEF IInv, TypeOK, HistoryOK
<1>3. KeyInv' /\ WhoInv' /\ RestInv'
  BY <1>1 DEF IInv, KeyInv, Present, WhoInv, Deciding, Live, Counting, RestInv
<1>4. CountInv'
  BY <1>1 DEF IInv, CountInv, Through, Matched
<1>5. StandInv'
  BY <1>1 DEF IInv, StandInv, StandAt, Standing, Blocking, HasAddress, Deciding, Live, Decided
<1>6. UNCHANGED tables /\ \A q \in Resolutions : Stays(q)
  BY <1>1 DEF tables, Stays
<1>7. CouldInv'
  <2>1. \A q \in Resolutions : Route(asker[q])' = Route(asker[q])
    BY <1>1 DEF Route, Blocking, Fallbacks, Usable, ByRule, HasAddress, AliasedTo, Present, Answers
  <2> QED
    BY <1>1, <2>1 DEF IInv, CouldInv, Deciding, Live
<1>8. FreshInv' /\ ViewInv'
  BY <1>1, <1>6, ViewStays, FreshStays DEF IInv, FreshInv, ViewInv, Deciding, Live, Excused
<1>9. AnswersOneState'
  BY <1>1 DEF IInv, AnswersOneState, Decided
<1> QED
  BY <1>2, <1>3, <1>4, <1>5, <1>7, <1>8, <1>9 DEF IInv

LEMMA Step ==
  ASSUME IInv, Next PROVE IInv'
<1>1. TypeOK' /\ HistoryOK'
  BY ResolveTypes, AskTypes, AdministerTypes DEF IInv, Next
<1>2. KeyInv' /\ WhoInv' /\ RestInv' /\ CountInv' /\ StandInv'
  BY KeyStep, WhoStep, CountStep, StandStep DEF IInv
<1>3. CouldInv' /\ FreshInv' /\ ViewInv' /\ AnswersOneState'
  BY <1>1, AnswerStep DEF IInv
<1> QED
  BY <1>1, <1>2, <1>3 DEF IInv

\* The invariant holds in every state that can be reached.
THEOREM Invariance == Spec => []IInv
<1>1. Init => IInv
  BY Initial
<1>2. IInv /\ [Next]_vars => IInv'
  BY Unchanged, Step
<1> QED
  BY <1>1, <1>2, PTL DEF Spec

\* Every variable keeps its type, whatever is asked and edited at once
\* (routing.ts:60-181, and the settings that change its tables).
THEOREM TypeCorrect == Spec => []TypeOK
<1>1. IInv => TypeOK
  BY DEF IInv
<1> QED
  BY <1>1, Invariance, PTL

\* With one edit on its way, the answer of resolveInboundAddress is the one the
\* tables called for before or after it, unless the edit brought the address a
\* mailbox or took its domain; without one, it is the precedence of Route.
THEOREM AnswersOneStateHolds == Spec => []AnswersOneState
<1>1. IInv => AnswersOneState
  BY DEF IInv
<1> QED
  BY <1>1, Invariance, PTL

\* Whatever is edited meanwhile, a block that stays answers before any mailbox,
\* and a mailbox that stays before any fallback rule (routing.ts:72-108).
THEOREM PrecedenceAlwaysHolds == Spec => []PrecedenceHolds
<1>1. IInv => PrecedenceHolds
  BY DEF IInv, StandInv, StandAt, PrecedenceHolds, BlocksHold, MailboxWins
<1> QED
  BY <1>1, Invariance, PTL

\* The count of a rule is never more than the mails it decided, and not 0 when
\* one was counted, although recordRuleMatch reads and writes in two steps.
THEOREM CountsAreAlwaysSound == Spec => []CountsAreSound
<1>1. ASSUME IInv PROVE CountsAreSound
  <2>1. ASSUME NEW i \in RuleIds
        PROVE  /\ matchCount[i] <= Cardinality(Matched(i))
               /\ rules[i] # Deleted /\ (\E r \in Matched(i) : pc[r] = "done") => matchCount[i] > 0
    <3>1. /\ matchCount[i] \in Nat /\ matchCount[i] <= Cardinality(Through(i))
          /\ rules[i] # Deleted /\ Through(i) # {} => matchCount[i] > 0
      BY <1>1 DEF IInv, CountInv, TypeOK
    <3>2. IsFiniteSet(Matched(i)) /\ Through(i) \subseteq Matched(i)
      <4>1. IsFiniteSet(Resolutions)
        BY FS_Interval, RoutingAssumption DEF Resolutions
      <4>2. Matched(i) \subseteq Resolutions
        BY DEF Matched
      <4> QED
        BY <4>1, <4>2, FS_Subset DEF Through
    <3>3. /\ Cardinality(Through(i)) \in Nat /\ Cardinality(Matched(i)) \in Nat
          /\ Cardinality(Through(i)) <= Cardinality(Matched(i))
      BY <3>2, ThroughIsFinite, FS_Subset, FS_CardinalityType
    <3> QED
      BY <3>1, <3>3 DEF Through
  <2> QED
    BY <2>1 DEF CountsAreSound, Matched
<1> QED
  BY <1>1, Invariance, PTL
=============================================================================
