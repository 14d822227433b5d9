-------------------------------- MODULE Once --------------------------------
(***************************************************************************)
(* What a queue of this system promises of a piece of work, a mail to send *)
(* or an event to post: its effect happens at most once, and what is said  *)
(* of it is true, except for work that has fallen into doubt because it    *)
(* was cut off or done twice at a time.  Outbound and Webhooks implement   *)
(* it, each with tables, tickets and runs of its own.                      *)
(***************************************************************************)
EXTENDS Naturals

CONSTANT Items

VARIABLES
  state,     \* what the tables say of each item
  effects,   \* how often its effect happened
  doubtful   \* items in doubt, for good

vars == <<state, effects, doubtful>>

States == {"new", "open", "done", "failed", "gone"}

Init ==
  /\ state = [i \in Items |-> "new"]
  /\ effects = [i \in Items |-> 0]
  /\ doubtful = {}

Says(i, s) == state'[i] = s /\ effects'[i] = effects[i]

Open(i) == state[i] = "new" /\ Says(i, "open")
\* An owner may withdraw work that is on its way.
Perform(i) ==
  /\ state[i] \in {"open", "gone"} /\ effects[i] = 0
  /\ state'[i] = state[i] /\ effects'[i] = 1
Finish(i) == state[i] = "open" /\ effects[i] = 1 /\ Says(i, "done")
GiveUp(i) == state[i] = "open" /\ effects[i] = 0 /\ Says(i, "failed")
Withdraw(i) == state[i] # "new" /\ Says(i, "gone")
Rest(i) == Says(i, state[i])
\* Whatever is said of it, a doubtful item is not done without an effect.
Wander(i) ==
  /\ i \in doubtful'
  /\ effects'[i] \in {effects[i], effects[i] + 1}
  /\ state'[i] = "done" => effects'[i] > 0

\* A restart may bring several items into doubt at once.
Next ==
  /\ state' \in [Items -> States] /\ effects' \in [Items -> Nat]
  /\ doubtful \subseteq doubtful' /\ doubtful' \subseteq Items
  /\ \A i \in Items :
       \/ Open(i) \/ Perform(i) \/ Finish(i) \/ GiveUp(i) \/ Withdraw(i) \/ Rest(i)
       \/ Wander(i)

Spec == Init /\ [][Next]_vars

(***************************************************************************)
(* At most one effect, one of what is said to be done, and none of what    *)
(* failed, unless the item is in doubt (send.ts:273, webhooks.ts:119-124). *)
(***************************************************************************)
Promise ==
  \A i \in Items :
    /\ state[i] = "done" => effects[i] > 0
    /\ i \in doubtful \/ effects[i] <= (IF state[i] \in {"new", "failed"} THEN 0 ELSE 1)
=============================================================================
