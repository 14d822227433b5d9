----------------------------- MODULE MCRouting -----------------------------
(* Rules and mailboxes for the runs of Routing. *)
EXTENDS Routing

CONSTANTS a, b

Draft(action, hits, box, keep, priority) ==
  [action |-> action, hits |-> hits, box |-> box, keep |-> keep, priority |-> priority]

MCDrafts == {
  Draft("reject", "sender", None, FALSE, 0),
  Draft("store", "any", a, FALSE, 0),
  Draft("store", "sender", b, FALSE, 1),
  Draft("forward", "any", b, TRUE, 1)}

MCBox(home, alias, everywhere) == [home |-> home, alias |-> alias, everywhere |-> everywhere]
MCBoxes == {MCBox("literal", FALSE, TRUE), MCBox("variant", FALSE, FALSE),
            MCBox("here", TRUE, FALSE), MCBox("here", FALSE, FALSE),
            MCBox("away", FALSE, TRUE), MCBox("unborn", FALSE, FALSE)}
RuleBoxesFit(bs, rs) ==
  \A i \in RuleIds : rs[i].box = None \/ bs[rs[i].box].home \in Homes \ {"away"}
MCLayouts == {l \in [boxes : [Boxes -> MCBoxes], rules : [RuleIds -> MCDrafts \cup {Vacant}]] :
  /\ RuleBoxesFit(l.boxes, l.rules)
  /\ \A i \in RuleIds : l.rules[i] = Vacant => \A k \in i..MaxRules : l.rules[k] = Vacant
  /\ Cardinality({c \in Boxes : l.boxes[c].home = "literal"}) < 2}

\* Two mailboxes at the address, one and an alias, one to come and one of all
\* domains, and none; with one or two rules.
MCPairs == {<<MCBox("literal", FALSE, TRUE), MCBox("variant", FALSE, FALSE)>>,
            <<MCBox("variant", FALSE, FALSE), MCBox("here", TRUE, FALSE)>>,
            <<MCBox("unborn", FALSE, FALSE), MCBox("away", FALSE, TRUE)>>,
            <<MCBox("here", FALSE, FALSE), MCBox("here", FALSE, FALSE)>>}
MCFewLayouts == {l \in MCLayouts : <<l.boxes[a], l.boxes[b]>> \in MCPairs /\ l.rules[1] # Vacant}
=============================================================================
