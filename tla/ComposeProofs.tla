---------------------------- MODULE ComposeProofs ----------------------------
(***************************************************************************)
(* What is proved of Compose, for every set of drafts and of files and     *)
(* every value of the bounds.                                              *)
(***************************************************************************)
EXTENDS Compose, TLAPS

-----------------------------------------------------------------------------
(***************************************************************************)
(* The inductive invariant.                                                *)
(***************************************************************************)
Writers == saves \cup sends
Open == form # Closed
Used(d) == d # None => rows[d].state # "unused"

\* What names what: messages and composers that have begun, rows that were made.
RowAt(d) ==
  /\ rows[d].state = "unused" => rows[d] = Unused
  /\ rows[d].state # "unused" => rows[d].of \in 1..texts
WriterAt(r) == r.of \in 1..texts /\ r.nr \in 1..opens /\ Used(r.draft)
SaveAt(s) ==
  /\ s.gen <= gens[s.nr]
  /\ s.stage = "checked" => s.draft # None
  /\ s.stage = "answered" /\ s.ok => s.draft # None
DeleteAt(x) ==
  /\ Used(x.draft) /\ x.nr \in 0..opens
  /\ x.stage = "answered" => x.nr # 0 /\ (x.ok => rows[x.draft].state = "gone")
FormAt ==
  /\ Open => form.nr = opens /\ opens \in Composers /\ form.of \in 1..texts
  /\ Used(form.draft)
NameInv ==
  /\ over \subseteq 1..texts
  /\ \A d \in Drafts : RowAt(d)
  /\ \A d \in submitting : rows[d].state # "unused" /\ faults > 0
  /\ \A r \in Writers : WriterAt(r)
  /\ \A s \in saves : SaveAt(s)
  /\ \A x \in deletes : DeleteAt(x)
  /\ FormAt
  /\ \A n \in Composers : n > opens => gens[n] = 0

\* A draft is named by its own message, unless the composer went on too fast.
Owns(r) == r.draft # None => rows[r.draft].of = r.of \/ r.of \in hasty
OwnInv == (\A r \in Writers : Owns(r)) /\ Owns(form)

\* A save and a send of one message do not meet, unless somebody was hasty; a
\* composer has one send under way, and knows it.
MeetInv == \A s \in saves, r \in sends : s.of = r.of => s.of \in hasty
SendingInv ==
  \A r \in sends : r.nr = form.nr =>
    form.sending /\ \A q \in sends : q.nr = r.nr => q = r

\* A draft that nothing excuses, and what is about to delete it.
Loose(d) == IsDraft(d) /\ d \notin spared /\ rows[d].of \notin hasty /\ ~Split(rows[d].of)
Doomed(d) ==
  \/ \E x \in deletes : x.draft = d /\ x.stage = "out"
  \/ \E s \in saves : s.draft = d /\ s.stage = "answered" /\ s.ok /\ Outdated(s)
HasRow(of) == \E d \in Drafts : rows[d].of = of

\* The composer has yet to hear of the draft its first save made.
Awaited(d) ==
  \E s \in saves : /\ s.draft = d /\ s.stage = "answered" /\ s.ok
                   /\ s.nr = form.nr /\ s.of = form.of
UnnamedInv ==
  Open /\ form.draft = None =>
    /\ \A r \in Writers : r.of = form.of => r.nr = form.nr
    /\ form.of \in over => HasRow(form.of)
    /\ \A d \in Drafts : Loose(d) /\ rows[d].of = form.of => Awaited(d) \/ Doomed(d)
SendInv ==
  \A s \in sends : s.draft = None =>
    \A d \in Drafts : Loose(d) /\ rows[d].of = s.of => Doomed(d)
OverInv ==
  /\ \A d \in Drafts : Loose(d) /\ rows[d].of \in over => Doomed(d)
  /\ \A s \in saves : s.draft = None /\ s.of \in over =>
       Outdated(s) \/ s.of \in hasty \/ HasRow(s.of)

\* A composer that saves as it should has its drafts to itself.
Sure == Open /\ ~form.unsure /\ ~form.discarding
Mine(d) == d = form.draft \/ \E s \in saves : s.nr = form.nr /\ s.of = form.of /\ s.draft = d
MineInv ==
  Sure =>
    /\ gens[form.nr] = 0
    /\ \A d \in Drafts : Mine(d) =>
         /\ \A r \in Writers : r.draft = d => r.nr = form.nr
         /\ faults = 0 => IsDraft(d) /\ \A x \in deletes : x.draft # d

\* What is shown is in its draft, or on its way there and nothing else is.
Holds == IsDraft(form.draft) => rows[form.draft].text = form.text
Pending(s) ==
  /\ s.nr = form.nr /\ s.of = form.of
  /\ s.stage # "answered" => s.draft = form.draft /\ s.text = form.text
  /\ s.stage = "answered" /\ s.ok => form.draft = None \/ (s.draft = form.draft /\ Holds)
SavedInv ==
  Sure /\ ~form.timer /\ form.text # 0 =>
    /\ form.draft # None =>
         \A s \in saves : s.draft = form.draft /\ s.stage # "answered" => s.text = form.text
    /\ (form.draft # None /\ Holds) \/ \E s \in saves : Pending(s)

IInv ==
  /\ TypeOK /\ NameInv /\ OwnInv /\ MeetInv /\ SendingInv
  /\ UnnamedInv /\ SendInv /\ OverInv /\ MineInv /\ SavedInv


-----------------------------------------------------------------------------
(***************************************************************************)
(* Types.                                                                  *)
(***************************************************************************)
RowSet == [state : {"unused", "draft", "gone"}, of : 0..MaxTexts,
           text : Versions, files : SUBSET Files]
FormSet == [nr : 0..MaxEvents, of : 0..MaxTexts, draft : Drafts \cup {None}, text : Versions,
            kept : SUBSET Files, timer : BOOLEAN, sending : BOOLEAN,
            discarding : BOOLEAN, unsure : BOOLEAN]
SaveSet == [nr : Composers, of : Texts, draft : Drafts \cup {None}, text : Versions,
            gen : Gens, stage : {"out", "checked", "answered"}, ok : BOOLEAN]
DeleteSet == [draft : Drafts, nr : 0..MaxEvents, stage : {"out", "answered"}, ok : BOOLEAN]
SendSet == [nr : Composers, of : Texts, draft : Drafts \cup {None}, text : Versions,
            kept : SUBSET Files, stage : {"out", "answered"}, ok : BOOLEAN]

LEMMA Bounds ==
  /\ MaxEvents \in Nat /\ MaxTexts \in Nat /\ MaxDiscards \in Nat /\ MaxSaves \in Nat
  /\ None \notin Drafts
  /\ 0 \in Versions /\ 0 \in Gens /\ Texts \subseteq 0..MaxTexts /\ Composers \subseteq 0..MaxEvents
  /\ Texts \subseteq Nat /\ Composers \subseteq Nat /\ Versions \subseteq Nat /\ Gens \subseteq Nat
BY ComposeAssumption DEF Texts, Composers, Versions, Gens

LEMMA TypeSets ==
  TypeOK <=> /\ rows \in [Drafts -> RowSet] /\ submitting \subseteq Drafts
             /\ form \in FormSet /\ gens \in [Composers -> Gens]
             /\ saves \subseteq SaveSet /\ deletes \subseteq DeleteSet /\ sends \subseteq SendSet
             /\ over \subseteq Texts /\ hasty \subseteq Texts /\ spared \subseteq Drafts
             /\ edits \in Versions /\ opens \in 0..MaxEvents /\ texts \in 0..MaxTexts
             /\ faults \in 0..MaxEvents
             /\ \A d \in Drafts : rows[d].state # "draft" => rows[d].files = {} /\ rows[d].text = 0
             /\ form.draft = None => form.kept = {}
BY DEF TypeOK, RowSet, FormSet, SaveSet, DeleteSet, SendSet

LEMMA SaveUpdates ==
  ASSUME NEW s \in SaveSet, NEW stage \in {"out", "checked", "answered"}, NEW ok \in BOOLEAN
  PROVE  /\ [s EXCEPT !.stage = stage] \in SaveSet
         /\ [s EXCEPT !.stage = stage].stage = stage
         /\ [s EXCEPT !.stage = stage].draft = s.draft /\ [s EXCEPT !.stage = stage].nr = s.nr
         /\ [s EXCEPT !.stage = stage].of = s.of /\ [s EXCEPT !.stage = stage].text = s.text
         /\ [s EXCEPT !.stage = stage].gen = s.gen
         /\ [s EXCEPT !.stage = stage, !.ok = ok] \in SaveSet
         /\ [s EXCEPT !.stage = stage, !.ok = ok].stage = stage
         /\ [s EXCEPT !.stage = stage, !.ok = ok].ok = ok
         /\ [s EXCEPT !.stage = stage, !.ok = ok].draft = s.draft
         /\ [s EXCEPT !.stage = stage, !.ok = ok].nr = s.nr
         /\ [s EXCEPT !.stage = stage, !.ok = ok].of = s.of
         /\ [s EXCEPT !.stage = stage, !.ok = ok].text = s.text
         /\ [s EXCEPT !.stage = stage, !.ok = ok].gen = s.gen
BY DEF SaveSet

LEMMA SaveNamed ==
  ASSUME NEW s \in SaveSet, NEW d \in Drafts
  PROVE  /\ [s EXCEPT !.draft = d] \in SaveSet /\ [s EXCEPT !.draft = d].draft = d
         /\ [s EXCEPT !.draft = d].nr = s.nr /\ [s EXCEPT !.draft = d].of = s.of
         /\ [s EXCEPT !.draft = d].text = s.text /\ [s EXCEPT !.draft = d].gen = s.gen
BY DEF SaveSet

LEMMA SendUpdates ==
  ASSUME NEW s \in SendSet, NEW ok \in BOOLEAN
  PROVE  /\ [s EXCEPT !.stage = "answered", !.ok = ok] \in SendSet
         /\ [s EXCEPT !.stage = "answered", !.ok = ok].stage = "answered"
         /\ [s EXCEPT !.stage = "answered", !.ok = ok].ok = ok
         /\ [s EXCEPT !.stage = "answered", !.ok = ok].draft = s.draft
         /\ [s EXCEPT !.stage = "answered", !.ok = ok].of = s.of
         /\ [s EXCEPT !.stage = "answered", !.ok = ok].nr = s.nr
BY DEF SendSet

LEMMA DeleteUpdates ==
  ASSUME NEW s \in DeleteSet, NEW ok \in BOOLEAN
  PROVE  /\ [s EXCEPT !.stage = "answered", !.ok = ok] \in DeleteSet
         /\ [s EXCEPT !.stage = "answered", !.ok = ok].stage = "answered"
         /\ [s EXCEPT !.stage = "answered", !.ok = ok].ok = ok
         /\ [s EXCEPT !.stage = "answered", !.ok = ok].draft = s.draft
         /\ [s EXCEPT !.stage = "answered", !.ok = ok].nr = s.nr
BY DEF DeleteSet

LEMMA RowFacts ==
  /\ Unused \in RowSet /\ Unused.state = "unused" /\ Unused.of = 0 /\ Unused.text = 0
  /\ Unused.files = {}
  /\ \A of \in Texts, text \in Versions :
       /\ Row(of, text) \in RowSet /\ Row(of, text).state = "draft" /\ Row(of, text).of = of
       /\ Row(of, text).text = text /\ Row(of, text).files = {}
  /\ \A row \in RowSet :
       /\ Gone(row) \in RowSet /\ Gone(row).state = "gone" /\ Gone(row).of = row.of
       /\ Gone(row).text = 0 /\ Gone(row).files = {}
  /\ \A row \in RowSet, text \in Versions :
       /\ [row EXCEPT !.text = text] \in RowSet /\ [row EXCEPT !.text = text].state = row.state
       /\ [row EXCEPT !.text = text].of = row.of /\ [row EXCEPT !.text = text].text = text
       /\ [row EXCEPT !.text = text].files = row.files
  /\ \A row \in RowSet, files \in SUBSET Files :
       /\ [row EXCEPT !.files = files] \in RowSet /\ [row EXCEPT !.files = files].state = row.state
       /\ [row EXCEPT !.files = files].of = row.of /\ [row EXCEPT !.files = files].text = row.text
       /\ [row EXCEPT !.files = files].files = files
<1>1. Unused \in RowSet /\ Unused.state = "unused" /\ Unused.of = 0 /\ Unused.text = 0
      /\ Unused.files = {}
  BY Bounds DEF Unused, RowSet
<1>2. ASSUME NEW of \in Texts, NEW text \in Versions
      PROVE  /\ Row(of, text) \in RowSet /\ Row(of, text).state = "draft" /\ Row(of, text).of = of
             /\ Row(of, text).text = text /\ Row(of, text).files = {}
  BY Bounds DEF Row, RowSet
<1>3. ASSUME NEW row \in RowSet
      PROVE  /\ Gone(row) \in RowSet /\ Gone(row).state = "gone" /\ Gone(row).of = row.of
             /\ Gone(row).text = 0 /\ Gone(row).files = {}
  BY Bounds DEF Gone, RowSet
<1>4. ASSUME NEW row \in RowSet, NEW text \in Versions
      PROVE  /\ [row EXCEPT !.text = text] \in RowSet
             /\ [row EXCEPT !.text = text].state = row.state
             /\ [row EXCEPT !.text = text].of = row.of /\ [row EXCEPT !.text = text].text = text
             /\ [row EXCEPT !.text = text].files = row.files
  BY DEF RowSet
<1>5. ASSUME NEW row \in RowSet, NEW files \in SUBSET Files
      PROVE  /\ [row EXCEPT !.files = files] \in RowSet
             /\ [row EXCEPT !.files = files].state = row.state
             /\ [row EXCEPT !.files = files].of = row.of
             /\ [row EXCEPT !.files = files].text = row.text
             /\ [row EXCEPT !.files = files].files = files
  BY DEF RowSet
<1> QED
  BY <1>1, <1>2, <1>3, <1>4, <1>5

-----------------------------------------------------------------------------
(***************************************************************************)
(* What one step can do to the requests, the rows and the composer.        *)
(***************************************************************************)
SaveMade(t) ==
  /\ SaveDue /\ form # Closed /\ t \in SaveSet
  /\ t.nr = form.nr /\ t.of = form.of /\ t.draft = form.draft /\ t.text = form.text
  /\ t.gen = gens[form.nr] /\ t.stage = "out" /\ ~t.ok
SaveMoves(s, t) ==
  /\ t \in SaveSet
  /\ t.nr = s.nr /\ t.of = s.of /\ t.text = s.text /\ t.gen = s.gen
  /\ \/ /\ s.stage = "out" /\ s.draft # None /\ t.draft = s.draft /\ t.stage = "checked"
     \/ /\ t.draft = s.draft /\ t.stage = "answered" /\ ~t.ok
        /\ s.stage = "answered" /\ s.draft # None => s.draft \in spared'
     \/ /\ s.stage = "checked" /\ t.draft = s.draft /\ t.stage = "answered" /\ t.ok
        /\ s.draft # None /\ IsDraft(s.draft) => rows'[s.draft].text = s.text
     \/ /\ s.stage = "out" /\ s.draft = None /\ t.stage = "answered" /\ t.ok
        /\ t.draft \in Drafts /\ rows[t.draft].state = "unused"
        /\ rows' = [rows EXCEPT ![t.draft] = Row(s.of, s.text)]

\* What a step does to the saves that are under way.
SavesStep ==
  /\ \A t \in saves' : t \in saves \/ SaveMade(t) \/ \E s \in saves : SaveMoves(s, t)
  /\ \A s \in saves : \/ s \in saves' \/ (s.stage = "answered" /\ ReceiveSave(s))
                      \/ \E t \in saves' : SaveMoves(s, t)

LEMMA OneMoves ==
  ASSUME NEW s \in saves, NEW t, SaveMoves(s, t),
         \A r : r \in saves' <=> (r \in saves /\ r # s) \/ r = t
  PROVE  SavesStep
BY DEF SavesStep

LEMMA CreateDraftMoves ==
  ASSUME TypeOK, NameInv, NEW s \in saves, CreateDraft(s)
  PROVE  SavesStep
<1>0. s \in SaveSet
  BY TypeSets
<1>1. PICK d \in Drafts :
        /\ rows[d].state = "unused"
        /\ rows' = [rows EXCEPT ![d] = Row(s.of, s.text)]
        /\ saves' = Answered(saves \ {s}, [s EXCEPT !.draft = d], TRUE)
  BY DEF CreateDraft
<1> DEFINE u == [s EXCEPT !.draft = d]
           t == [u EXCEPT !.stage = "answered", !.ok = TRUE]
<1>2. u \in SaveSet /\ u.draft = d /\ u.nr = s.nr /\ u.of = s.of /\ u.text = s.text /\ u.gen = s.gen
  BY <1>0, SaveNamed
<1> HIDE DEF u
<1>3. /\ t \in SaveSet /\ t.draft = u.draft /\ t.stage = "answered" /\ t.ok
      /\ t.nr = u.nr /\ t.of = u.of /\ t.text = u.text /\ t.gen = u.gen
  BY <1>2, SaveUpdates
<1>4. \A r : r \in saves' <=> (r \in saves /\ r # s /\ r # u) \/ r = t
  BY <1>1 DEF Answered, u, t
<1> HIDE DEF t
<1>5. SaveMoves(s, t)
  BY <1>1, <1>2, <1>3 DEF SaveMoves, CreateDraft
\* No save names a draft that has no row yet.
<1>6. u \notin saves
  BY <1>1, <1>2, Bounds DEF NameInv, Writers, WriterAt, Used
<1>7. \A r : r \in saves' <=> (r \in saves /\ r # s) \/ r = t
  BY <1>4, <1>6
<1> QED
  BY <1>5, <1>7, OneMoves

LEMMA CheckDraftMoves ==
  ASSUME TypeOK, NEW s \in saves, CheckDraft(s)
  PROVE  SavesStep
<1>0. s \in SaveSet
  BY TypeSets
<1>1. CASE saves' = Moved(saves, s, "checked") /\ IsDraft(s.draft)
  <2> DEFINE t == [s EXCEPT !.stage = "checked"]
  <2>1. /\ t \in SaveSet /\ t.draft = s.draft /\ t.stage = "checked"
        /\ t.nr = s.nr /\ t.of = s.of /\ t.text = s.text /\ t.gen = s.gen
    BY <1>0, SaveUpdates
  <2>2. \A r : r \in saves' <=> (r \in saves /\ r # s) \/ r = t
    BY <1>1 DEF Moved, t
  <2> HIDE DEF t
  <2>3. SaveMoves(s, t)
    BY <2>1 DEF SaveMoves, CheckDraft
  <2> QED
    BY <2>2, <2>3, OneMoves
<1>2. CASE saves' = Answered(saves, s, FALSE)
  <2> DEFINE t == [s EXCEPT !.stage = "answered", !.ok = FALSE]
  <2>1. /\ t \in SaveSet /\ t.draft = s.draft /\ t.stage = "answered" /\ ~t.ok
        /\ t.nr = s.nr /\ t.of = s.of /\ t.text = s.text /\ t.gen = s.gen
    BY <1>0, SaveUpdates
  <2>2. \A r : r \in saves' <=> (r \in saves /\ r # s) \/ r = t
    BY <1>2 DEF Answered, t
  <2> HIDE DEF t
  <2>3. SaveMoves(s, t)
    BY <2>1 DEF SaveMoves, CheckDraft
  <2> QED
    BY <2>2, <2>3, OneMoves
<1> QED
  BY <1>1, <1>2 DEF CheckDraft

LEMMA UpdateDraftMoves ==
  ASSUME TypeOK, NameInv, NEW s \in saves, UpdateDraft(s)
  PROVE  SavesStep
<1>0. s \in SaveSet /\ s.draft # None
  BY TypeSets DEF NameInv, SaveAt, UpdateDraft
<1> DEFINE t == [s EXCEPT !.stage = "answered", !.ok = TRUE]
<1>1. /\ t \in SaveSet /\ t.draft = s.draft /\ t.stage = "answered" /\ t.ok
      /\ t.nr = s.nr /\ t.of = s.of /\ t.text = s.text /\ t.gen = s.gen
  BY <1>0, SaveUpdates
<1>2. \A r : r \in saves' <=> (r \in saves /\ r # s) \/ r = t
  BY DEF UpdateDraft, Answered, t
<1> HIDE DEF t
<1>3. IsDraft(s.draft) => rows'[s.draft].text = s.text
  <2>1. ASSUME IsDraft(s.draft)
        PROVE  rows'[s.draft] = [rows[s.draft] EXCEPT !.text = s.text] /\ rows[s.draft] \in RowSet
    BY <1>0, <2>1, TypeSets DEF UpdateDraft, IsDraft, SaveSet
  <2>2. ASSUME IsDraft(s.draft) PROVE rows'[s.draft].text = s.text
    BY <2>1, <2>2 DEF RowSet
  <2> QED
    BY <2>2
<1>4. SaveMoves(s, t)
  BY <1>0, <1>1, <1>3 DEF SaveMoves, UpdateDraft
<1> QED
  BY <1>2, <1>4, OneMoves

LEMMA FailSaveMoves ==
  ASSUME TypeOK, NEW s \in saves, FailSave(s)
  PROVE  SavesStep
<1>0. s \in SaveSet
  BY TypeSets
<1> DEFINE t == [s EXCEPT !.stage = "answered", !.ok = FALSE]
<1>1. /\ t \in SaveSet /\ t.draft = s.draft /\ t.stage = "answered" /\ ~t.ok
      /\ t.nr = s.nr /\ t.of = s.of /\ t.text = s.text /\ t.gen = s.gen
  BY <1>0, SaveUpdates
<1>2. \A r : r \in saves' <=> (r \in saves /\ r # s) \/ r = t
  BY DEF FailSave, Answered, t
<1> HIDE DEF t
<1>3. SaveMoves(s, t)
  BY <1>1 DEF SaveMoves, FailSave
<1> QED
  BY <1>2, <1>3, OneMoves

LEMMA SavesEffect ==
  ASSUME TypeOK, NameInv, [Next]_vars
  PROVE  SavesStep
<1>1. ASSUME NEW s \in saves, CreateDraft(s) \/ CheckDraft(s) \/ UpdateDraft(s) \/ FailSave(s)
      PROVE  SavesStep
  BY <1>1, CreateDraftMoves, CheckDraftMoves, UpdateDraftMoves, FailSaveMoves
<1>2. ASSUME SaveDue PROVE SavesStep
  <2> DEFINE t == [nr |-> form.nr, of |-> form.of, draft |-> form.draft,
                   text |-> form.text, gen |-> gens[form.nr], stage |-> "out", ok |-> FALSE]
  <2>0. /\ form.nr \in Composers /\ form.of \in Texts /\ form.draft \in Drafts \cup {None}
        /\ form.text \in Versions /\ gens[form.nr] \in Gens /\ form # Closed
    <3>1. form # Closed
      BY <1>2 DEF SaveDue, Closed
    <3>2. form.nr \in Composers /\ form.of \in 1..texts
      BY <3>1 DEF NameInv, FormAt, Open
    <3>3. texts \in 0..MaxTexts /\ MaxTexts \in Nat
      BY TypeSets, Bounds
    <3>4. form.of \in Texts
      BY <3>2, <3>3 DEF Texts
    <3> QED
      BY <3>1, <3>2, <3>4, TypeSets DEF FormSet
  <2>1. SaveMade(t)
    BY <1>2, <2>0 DEF SaveMade, SaveSet
  <2>2. saves' = saves \cup {t}
    BY <1>2 DEF SaveDue
  <2> HIDE DEF t
  <2> QED
    BY <2>1, <2>2 DEF SavesStep
<1>3. ASSUME NEW s \in saves, ReceiveSave(s) PROVE SavesStep
  BY <1>3 DEF SavesStep, ReceiveSave
<1>4. ASSUME saves' = saves PROVE SavesStep
  BY <1>4 DEF SavesStep
<1>5. ASSUME Next PROVE \/ SaveDue \/ saves' = saves
                        \/ \E s \in saves : \/ CreateDraft(s) \/ CheckDraft(s) \/ UpdateDraft(s)
                                            \/ FailSave(s) \/ ReceiveSave(s)
  BY <1>5 DEF Next, Compose, Receive, Serve, Disturb, OpenNew, OpenDraft, Forward, Close, Edit,
     Submit, ReceiveSend, Discard, ReceiveDelete,
     RemoveFile, DeleteDraft, ServeSend, TakeDraft, DropDraft, FailDelete, FailSend,
     DiscardElsewhere, server, browser, requests, history, bounds, Mount, Fault
<1> QED
  BY <1>1, <1>2, <1>3, <1>4, <1>5 DEF vars, requests

\* The other variables only grow.
Grows ==
  /\ texts <= texts' /\ opens <= opens' /\ faults <= faults'
  /\ over \subseteq over' /\ hasty \subseteq hasty' /\ spared \subseteq spared'
  /\ \A n \in Composers : gens[n] <= gens'[n] /\ (~Discard \/ n # form.nr => gens'[n] = gens[n])

LEMMA ActionsGrow ==
  ASSUME TypeOK, [Next]_vars
  PROVE  Grows
<1>0. /\ texts \in Nat /\ opens \in Nat /\ faults \in Nat
      /\ gens \in [Composers -> Gens] /\ Gens \subseteq Nat
  BY Bounds, TypeSets
<1>1. texts <= texts' /\ opens <= opens' /\ faults <= faults'
  <2>1. texts' = texts \/ texts' = texts + 1
    BY DEF Next, Compose, Receive, Serve, Disturb, OpenNew, OpenDraft, Forward, Close, Edit,
       SaveDue, Submit, ReceiveSave, ReceiveSend, Discard, ReceiveDelete, RemoveFile, CreateDraft,
       CheckDraft, UpdateDraft, DeleteDraft, ServeSend, TakeDraft, DropDraft, FailSave, FailDelete,
       FailSend, DiscardElsewhere, Mount, Fault, vars, server, browser, requests, history, bounds
  <2>2. opens' = opens \/ opens' = opens + 1
    BY DEF Next, Compose, Receive, Serve, Disturb, OpenNew, OpenDraft, Forward, Close, Edit,
       SaveDue, Submit, ReceiveSave, ReceiveSend, Discard, ReceiveDelete, RemoveFile, CreateDraft,
       CheckDraft, UpdateDraft, DeleteDraft, ServeSend, TakeDraft, DropDraft, FailSave, FailDelete,
       FailSend, DiscardElsewhere, Mount, Fault, vars, server, browser, requests, history, bounds
  <2>3. faults' = faults \/ faults' = faults + 1
    BY DEF Next, Compose, Receive, Serve, Disturb, OpenNew, OpenDraft, Forward, Close, Edit,
       SaveDue, Submit, ReceiveSave, ReceiveSend, Discard, ReceiveDelete, RemoveFile, CreateDraft,
       CheckDraft, UpdateDraft, DeleteDraft, ServeSend, TakeDraft, DropDraft, FailSave, FailDelete,
       FailSend, DiscardElsewhere, Mount, Fault, vars, server, browser, requests, history, bounds
  <2> QED
    BY <1>0, <2>1, <2>2, <2>3
<1>2. over \subseteq over' /\ hasty \subseteq hasty' /\ spared \subseteq spared'
  BY DEF Next, Compose, Receive, Serve, Disturb, OpenNew, OpenDraft, Forward, Close, Edit,
     SaveDue, Submit, ReceiveSave, ReceiveSend, Discard, ReceiveDelete, RemoveFile, CreateDraft,
     CheckDraft, UpdateDraft, DeleteDraft, ServeSend, TakeDraft, DropDraft, FailSave, FailDelete,
     FailSend, DiscardElsewhere, Mount, Fault, vars, server, browser, requests, history, bounds
<1>3. gens' = gens \/ Discard
  BY <1>0 DEF Next, Compose, Receive, Serve, Disturb, OpenNew, OpenDraft, Forward, Close, Edit,
     SaveDue, Submit, ReceiveSave, ReceiveSend, ReceiveDelete, RemoveFile, CreateDraft,
     CheckDraft, UpdateDraft, DeleteDraft, ServeSend, TakeDraft, DropDraft, FailSave, FailDelete,
     FailSend, DiscardElsewhere, Mount, Fault, vars, server, browser, requests, history, bounds
<1>4. ASSUME NEW n \in Composers
      PROVE  gens[n] <= gens'[n] /\ (~Discard \/ n # form.nr => gens'[n] = gens[n])
  <2>1. gens[n] \in Nat
    BY <1>0
  <2>2. CASE gens' = gens
    BY <2>1, <2>2
  <2>3. CASE Discard
    <3>1. gens' = [gens EXCEPT ![form.nr] = gens[form.nr] + 1]
      BY <2>3 DEF Discard
    <3>2. gens'[n] = IF n = form.nr THEN gens[n] + 1 ELSE gens[n]
      BY <1>0, <3>1
    <3> QED
      BY <2>1, <2>3, <3>2
  <2> QED
    BY <1>3, <2>2, <2>3
<1> QED
  BY <1>1, <1>2, <1>4 DEF Grows

SendMade(t) ==
  /\ form # Closed /\ ~form.sending /\ t \in SendSet
  /\ t.nr = form.nr /\ t.of = form.of /\ t.draft = form.draft /\ t.stage = "out"
SendMoves(s, t) ==
  /\ t \in SendSet /\ t.nr = s.nr /\ t.of = s.of /\ t.draft = s.draft
  /\ s.stage # "answered" \/ s.ok

\* What a step does to the sends that are under way.
SendsStep ==
  \/ sends' \subseteq sends
  \/ Submit /\ \E t \in sends' : SendMade(t) /\ sends' = sends \cup {t}
  \/ \E s \in sends : \E t \in sends' : SendMoves(s, t) /\ sends' = (sends \ {s}) \cup {t}

LEMMA SendsEffect ==
  ASSUME TypeOK, NameInv, [Next]_vars
  PROVE  SendsStep
<1>1. ASSUME NEW s \in sends, NEW ok \in BOOLEAN, sends' = Answered(sends, s, ok),
             s.stage # "answered" \/ s.ok
      PROVE  SendsStep
  <2> DEFINE t == [s EXCEPT !.stage = "answered", !.ok = ok]
  <2>1. SendMoves(s, t)
    BY <1>1, SendUpdates, TypeSets DEF SendMoves
  <2>2. sends' = (sends \ {s}) \cup {t}
    BY <1>1 DEF Answered
  <2> HIDE DEF t
  <2>3. t \in sends'
    BY <2>2
  <2> QED
    BY <2>1, <2>2, <2>3 DEF SendsStep
<1>2. ASSUME Submit PROVE SendsStep
  <2> DEFINE t == [nr |-> form.nr, of |-> form.of, draft |-> form.draft, text |-> form.text,
                   kept |-> form.kept, stage |-> "out", ok |-> FALSE]
  <2>0. /\ form.nr \in Composers /\ form.of \in Texts /\ form.draft \in Drafts \cup {None}
        /\ form.text \in Versions /\ form.kept \in SUBSET Files /\ form # Closed
    <3>1. form # Closed
      BY <1>2 DEF Submit, Closed
    <3>2. form.nr \in Composers /\ form.of \in 1..texts
      BY <3>1 DEF NameInv, FormAt, Open
    <3>3. texts \in 0..MaxTexts /\ MaxTexts \in Nat
      BY TypeSets, Bounds
    <3>4. form.of \in Texts
      BY <3>2, <3>3 DEF Texts
    <3> QED
      BY <3>1, <3>2, <3>4, TypeSets DEF FormSet
  <2>1. SendMade(t)
    BY <1>2, <2>0 DEF SendMade, SendSet, Submit
  <2>2. sends' = sends \cup {t}
    BY <1>2 DEF Submit
  <2> HIDE DEF t
  <2> QED
    BY <1>2, <2>1, <2>2 DEF SendsStep
<1>3. ASSUME NEW s \in sends, ServeSend(s) PROVE SendsStep
  <2>1. PICK ok \in BOOLEAN : sends' = Answered(sends, s, ok)
    <3>1. (s.kept = {} \/ IsDraft(s.draft)) \in BOOLEAN
      BY DEF IsDraft
    <3> QED
      BY <1>3, <3>1 DEF ServeSend
  <2> QED
    BY <1>1, <1>3, <2>1 DEF ServeSend
<1>4. ASSUME NEW s \in sends, FailSend(s) PROVE SendsStep
  BY <1>1, <1>4 DEF FailSend, SendsStep
<1>5. ASSUME NEW s \in sends, ReceiveSend(s) PROVE SendsStep
  BY <1>5 DEF ReceiveSend, SendsStep
<1>6. ASSUME Next PROVE \/ Submit \/ sends' = sends
                        \/ \E s \in sends : ServeSend(s) \/ FailSend(s) \/ ReceiveSend(s)
  BY <1>6 DEF Next, Compose, Receive, Serve, Disturb, OpenNew, OpenDraft, Forward, Close, Edit,
     SaveDue, ReceiveSave, Discard, ReceiveDelete, RemoveFile, CreateDraft,
     CheckDraft, UpdateDraft, DeleteDraft, TakeDraft, DropDraft, FailSave, FailDelete,
     DiscardElsewhere, Mount, Fault, server, browser, requests, history, bounds
<1>7. ASSUME sends' = sends PROVE SendsStep
  BY <1>7 DEF SendsStep
<1> QED
  BY <1>2, <1>3, <1>4, <1>5, <1>6, <1>7 DEF vars, requests

DeleteMade(y) ==
  /\ y \in DeleteSet /\ y.stage = "out"
  /\ \/ y.nr = 0 /\ \E s \in saves : ReceiveSave(s) /\ s.ok /\ Outdated(s) /\ y.draft = s.draft
     \/ y.nr = 0 /\ \E s \in sends : ReceiveSend(s) /\ s.ok /\ y.draft = s.draft
     \/ Discard /\ y.draft = form.draft /\ y.nr = form.nr
     \/ y.nr = 0 /\ faults' > 0 /\ IsDraft(y.draft)
DeleteMoves(x, y) ==
  /\ y \in DeleteSet /\ y.draft = x.draft /\ y.nr = x.nr /\ x.nr # 0 /\ y.stage = "answered"
  /\ y.ok => rows'[x.draft].state = "gone"

\* What a step does to the deletes that are under way: one that is out is carried out or fails.
DeletesStep ==
  /\ \A y \in deletes' : y \in deletes \/ DeleteMade(y) \/ \E x \in deletes : DeleteMoves(x, y)
  /\ \A x \in deletes : x.stage = "out" =>
       x \in deletes' \/ rows'[x.draft].state # "draft" \/ x.draft \in spared'

LEMMA MadeDeletes ==
  ASSUME TypeOK, NEW d \in Drafts, NEW n \in 0..MaxEvents
  PROVE  [draft |-> d, nr |-> n, stage |-> "out", ok |-> FALSE] \in DeleteSet
BY DEF DeleteSet

LEMMA OneDeleteMade ==
  ASSUME NEW y, DeleteMade(y), deletes' = deletes \cup {y}
  PROVE  DeletesStep
BY DEF DeletesStep

LEMMA ReceivedSavesDeletes ==
  ASSUME TypeOK, NameInv, NEW s \in saves, ReceiveSave(s)
  PROVE  DeletesStep
<1>1. CASE s.ok /\ Outdated(s)
  <2> DEFINE y == [draft |-> s.draft, nr |-> 0, stage |-> "out", ok |-> FALSE]
  <2>1. s.draft \in Drafts
    BY <1>1, TypeSets DEF NameInv, SaveAt, SaveSet, ReceiveSave
  <2>2. y \in DeleteSet /\ y.draft = s.draft /\ y.stage = "out" /\ y.nr = 0
    BY <2>1, Bounds, MadeDeletes
  <2>3. deletes' = deletes \cup {y}
    BY <1>1 DEF ReceiveSave
  <2> HIDE DEF y
  <2>4. DeleteMade(y)
    BY <1>1, <2>2 DEF DeleteMade
  <2> QED
    BY <2>3, <2>4, OneDeleteMade
<1>2. CASE deletes' = deletes
  BY <1>2 DEF DeletesStep
<1> QED
  BY <1>1, <1>2 DEF ReceiveSave

LEMMA ReceivedSendDeletes ==
  ASSUME TypeOK, NameInv, NEW s \in sends, ReceiveSend(s)
  PROVE  DeletesStep
<1>1. CASE s.ok /\ s.draft # None
  <2> DEFINE y == [draft |-> s.draft, nr |-> 0, stage |-> "out", ok |-> FALSE]
  <2>1. s.draft \in Drafts
    BY <1>1, TypeSets DEF SendSet
  <2>2. y \in DeleteSet /\ y.draft = s.draft /\ y.stage = "out" /\ y.nr = 0
    BY <2>1, Bounds, MadeDeletes
  <2>3. deletes' = deletes \cup {y}
    BY <1>1 DEF ReceiveSend
  <2> HIDE DEF y
  <2>4. DeleteMade(y)
    BY <1>1, <2>2 DEF DeleteMade
  <2> QED
    BY <2>3, <2>4, OneDeleteMade
<1>2. CASE deletes' = deletes
  BY <1>2 DEF DeletesStep
<1> QED
  BY <1>1, <1>2 DEF ReceiveSend

LEMMA DiscardDeletes ==
  ASSUME TypeOK, Discard
  PROVE  DeletesStep
<1>1. CASE form.draft # None
  <2> DEFINE y == [draft |-> form.draft, nr |-> form.nr, stage |-> "out", ok |-> FALSE]
  <2>1. form.draft \in Drafts /\ form.nr \in 0..MaxEvents
    BY <1>1, TypeSets DEF FormSet
  <2>2. y \in DeleteSet /\ y.draft = form.draft /\ y.stage = "out" /\ y.nr = form.nr
    BY <2>1, MadeDeletes
  <2>3. deletes' = deletes \cup {y}
    BY <1>1 DEF Discard
  <2> HIDE DEF y
  <2>4. DeleteMade(y)
    BY <2>2 DEF DeleteMade
  <2> QED
    BY <2>3, <2>4, OneDeleteMade
<1>2. CASE form.draft = None
  BY <1>2 DEF DeletesStep, Discard
<1> QED
  BY <1>1, <1>2

LEMMA ElsewhereDeletes ==
  ASSUME TypeOK, NEW d \in Drafts, DiscardElsewhere(d)
  PROVE  DeletesStep
<1> DEFINE y == [draft |-> d, nr |-> 0, stage |-> "out", ok |-> FALSE]
<1>1. y \in DeleteSet /\ y.draft = d /\ y.stage = "out" /\ y.nr = 0
  BY Bounds, MadeDeletes
<1>2. deletes' = deletes \cup {y} /\ IsDraft(d) /\ faults' = faults + 1
  BY DEF DiscardElsewhere, Fault
<1> HIDE DEF y
<1>3. faults' > 0
  BY <1>2, TypeSets, Bounds
<1>4. DeleteMade(y)
  BY <1>1, <1>2, <1>3 DEF DeleteMade
<1> QED
  BY <1>2, <1>4, OneDeleteMade

LEMMA RepliedDeletes ==
  ASSUME TypeOK, NEW x \in deletes, NEW ok \in BOOLEAN, deletes' = Replied(x, ok),
         ok => rows'[x.draft].state = "gone",
         rows'[x.draft].state # "draft" \/ x.draft \in spared'
  PROVE  DeletesStep
<1> DEFINE y == [x EXCEPT !.stage = "answered", !.ok = ok]
<1>1. /\ y \in DeleteSet /\ y.draft = x.draft /\ y.nr = x.nr /\ y.stage = "answered" /\ y.ok = ok
  <2>1. x \in DeleteSet
    BY TypeSets
  <2> HIDE DEF y
  <2> QED
    BY <2>1, DeleteUpdates DEF y
<1>2. CASE x.nr = 0
  BY <1>2 DEF Replied, DeletesStep
<1>3. CASE x.nr # 0
  <2>1. deletes' = (deletes \ {x}) \cup {y}
    BY <1>3 DEF Replied, Answered
  <2> HIDE DEF y
  <2>2. DeleteMoves(x, y)
    BY <1>1, <1>3 DEF DeleteMoves
  <2> QED
    BY <2>1, <2>2 DEF DeletesStep
<1> QED
  BY <1>2, <1>3

LEMMA DeleteDraftDeletes ==
  ASSUME TypeOK, NEW x \in deletes, DeleteDraft(x)
  PROVE  DeletesStep
<1>1. x.draft \in Drafts /\ rows \in [Drafts -> RowSet] /\ x.draft # None
  BY TypeSets, Bounds DEF DeleteSet
<1>2. CASE IsDraft(x.draft)
  <2>1. rows'[x.draft].state = "gone"
    BY <1>1, <1>2, RowFacts DEF DeleteDraft
  <2>2. deletes' = Replied(x, TRUE)
    BY <1>2 DEF DeleteDraft, IsDraft
  <2> QED
    BY <2>1, <2>2, RepliedDeletes
<1>3. CASE ~IsDraft(x.draft)
  <2>1. rows'[x.draft].state # "draft"
    BY <1>1, <1>3 DEF DeleteDraft, IsDraft
  <2>2. deletes' = Replied(x, FALSE)
    BY <1>3 DEF DeleteDraft, IsDraft
  <2> QED
    BY <2>1, <2>2, RepliedDeletes
<1> QED
  BY <1>2, <1>3

LEMMA DeletesEffect ==
  ASSUME TypeOK, NameInv, [Next]_vars
  PROVE  DeletesStep
<1>1. ASSUME NEW x \in deletes, FailDelete(x) PROVE DeletesStep
  <2>1. x.draft \in spared'
    BY <1>1 DEF FailDelete
  <2>2. CASE deletes' = Replied(x, FALSE)
    BY <2>1, <2>2, RepliedDeletes
  <2>3. CASE deletes' = deletes \ {x}
    BY <2>1, <2>3 DEF DeletesStep
  <2> QED
    BY <1>1, <2>2, <2>3 DEF FailDelete
<1>2. ASSUME NEW x \in deletes, ReceiveDelete(x) PROVE DeletesStep
  BY <1>2 DEF DeletesStep, ReceiveDelete
<1>3. ASSUME deletes' = deletes PROVE DeletesStep
  BY <1>3 DEF DeletesStep
<1>4. ASSUME Next PROVE \/ Discard \/ deletes' = deletes
                        \/ \E s \in saves : ReceiveSave(s)
                        \/ \E s \in sends : ReceiveSend(s)
                        \/ \E x \in deletes : DeleteDraft(x) \/ FailDelete(x) \/ ReceiveDelete(x)
                        \/ \E d \in Drafts : DiscardElsewhere(d)
  BY <1>4 DEF Next, Compose, Receive, Serve, Disturb, OpenNew, OpenDraft, Forward, Close, Edit,
     SaveDue, Submit, RemoveFile, CreateDraft, CheckDraft, UpdateDraft, ServeSend, TakeDraft,
     DropDraft, FailSave, FailSend, Mount, Fault, server, browser, requests, history, bounds
<1> QED
  BY <1>1, <1>2, <1>3, <1>4, ReceivedSavesDeletes, ReceivedSendDeletes, DiscardDeletes,
     ElsewhereDeletes, DeleteDraftDeletes DEF vars, requests

\* A draft is made by the first save of a message, or to forward one.
FirstSaved(d) ==
  \E s \in saves :
    /\ s.stage = "out" /\ s.draft = None /\ rows'[d].of = s.of
    /\ \E t \in saves' : /\ t.nr = s.nr /\ t.of = s.of /\ t.gen = s.gen /\ t.draft = d
                         /\ t.stage = "answered" /\ t.ok
RowMade(d) ==
  /\ rows[d].state = "unused" /\ rows'[d].state = "draft"
  /\ \/ FirstSaved(d)
     \/ (\E files \in SUBSET Files : Forward(d, files)) /\ rows'[d].of = texts + 1
RowWritten(d) ==
  /\ rows[d].state = "draft" /\ rows'[d].state = "draft" /\ rows'[d].of = rows[d].of
  /\ \/ rows'[d].text = rows[d].text
     \/ \E s \in saves : s.stage = "checked" /\ s.draft = d /\ rows'[d].text = s.text
RowGone(d) ==
  /\ rows[d].state # "unused" /\ rows'[d].state = "gone" /\ rows'[d].of = rows[d].of
  /\ d \in submitting \/ \E x \in deletes : x.draft = d /\ x.stage = "out"
RowStep(d) == rows'[d] = rows[d] \/ RowMade(d) \/ RowWritten(d) \/ RowGone(d)
RowsStep == \A d \in Drafts : RowStep(d)
RowsTyped ==
  /\ rows' \in [Drafts -> RowSet]
  /\ \A d \in Drafts : rows'[d].state # "draft" => rows'[d].files = {} /\ rows'[d].text = 0

LEMMA OneRow ==
  ASSUME TypeOK, NEW d \in Drafts, NEW row \in RowSet, rows' = [rows EXCEPT ![d] = row],
         row.state # "draft" => row.files = {} /\ row.text = 0
  PROVE  /\ RowsTyped /\ rows'[d] = row
         /\ \A e \in Drafts : e # d => rows'[e] = rows[e]
<1>1. /\ rows \in [Drafts -> RowSet]
      /\ \A e \in Drafts : rows[e].state # "draft" => rows[e].files = {} /\ rows[e].text = 0
  BY TypeSets
<1>2. rows' \in [Drafts -> RowSet]
  BY <1>1
<1>3. rows'[d] = row /\ \A e \in Drafts : e # d => rows'[e] = rows[e]
  BY <1>1
<1>4. \A e \in Drafts : rows'[e].state # "draft" => rows'[e].files = {} /\ rows'[e].text = 0
  BY <1>1, <1>3
<1> QED
  BY <1>2, <1>3, <1>4 DEF RowsTyped

LEMMA CreateDraftRows ==
  ASSUME TypeOK, NameInv, NEW s \in saves, CreateDraft(s)
  PROVE  RowsStep /\ RowsTyped
<1>1. PICK d \in Drafts :
        /\ rows[d].state = "unused"
        /\ rows' = [rows EXCEPT ![d] = Row(s.of, s.text)]
        /\ saves' = Answered(saves \ {s}, [s EXCEPT !.draft = d], TRUE)
  BY DEF CreateDraft
<1>2. s \in SaveSet /\ s.of \in Texts /\ s.text \in Versions
  BY TypeSets DEF SaveSet
<1> DEFINE u == [s EXCEPT !.draft = d]
           t == [u EXCEPT !.stage = "answered", !.ok = TRUE]
<1>3. u \in SaveSet /\ u.draft = d /\ u.nr = s.nr /\ u.of = s.of /\ u.gen = s.gen
  BY <1>2, SaveNamed
<1> HIDE DEF u
<1>4. /\ t.draft = u.draft /\ t.stage = "answered" /\ t.ok
      /\ t.nr = u.nr /\ t.of = u.of /\ t.gen = u.gen
  BY <1>3, SaveUpdates
<1>5. t \in saves'
  BY <1>1 DEF Answered, u, t
<1> HIDE DEF t
<1> DEFINE row == Row(s.of, s.text)
<1>6. row \in RowSet /\ row.state = "draft" /\ row.of = s.of
  BY <1>2, RowFacts
<1>7. rows' = [rows EXCEPT ![d] = row]
  BY <1>1
<1> HIDE DEF row
<1>8. RowsTyped /\ rows'[d] = row /\ \A e \in Drafts : e # d => rows'[e] = rows[e]
  BY <1>6, <1>7, OneRow
<1>9. FirstSaved(d)
  BY <1>3, <1>4, <1>5, <1>6, <1>8 DEF FirstSaved, CreateDraft
<1>10. RowMade(d)
  BY <1>1, <1>6, <1>8, <1>9 DEF RowMade
<1> QED
  BY <1>8, <1>10 DEF RowsStep, RowStep

LEMMA ForwardRows ==
  ASSUME TypeOK, NEW d \in Drafts, NEW files \in SUBSET Files, Forward(d, files)
  PROVE  RowsStep /\ RowsTyped
<1> DEFINE base == Row(texts + 1, edits + 1)
           row == [base EXCEPT !.files = files]
<1>1. texts + 1 \in Texts /\ edits + 1 \in Versions
  BY TypeSets, Bounds DEF Forward, Texts, Versions
<1>2. base \in RowSet /\ base.state = "draft" /\ base.of = texts + 1
  BY <1>1, RowFacts
<1> HIDE DEF base
<1>3. row \in RowSet /\ row.state = "draft" /\ row.of = texts + 1
  BY <1>2, RowFacts
<1>4. rows' = [rows EXCEPT ![d] = row]
  BY DEF Forward, base, row
<1> HIDE DEF row
<1>5. RowsTyped /\ rows'[d] = row /\ \A e \in Drafts : e # d => rows'[e] = rows[e]
  BY <1>3, <1>4, OneRow
<1>6. RowMade(d)
  BY <1>3, <1>5 DEF RowMade, Forward
<1> QED
  BY <1>5, <1>6 DEF RowsStep, RowStep

LEMMA UpdateDraftRows ==
  ASSUME TypeOK, NameInv, NEW s \in saves, UpdateDraft(s), IsDraft(s.draft)
  PROVE  RowsStep /\ RowsTyped
<1>1. s.draft \in Drafts /\ s.text \in Versions
  BY TypeSets DEF SaveSet, IsDraft
<1>2. rows[s.draft] \in RowSet
  BY <1>1, TypeSets
<1> DEFINE row == [rows[s.draft] EXCEPT !.text = s.text]
<1>3. /\ row \in RowSet /\ row.state = rows[s.draft].state /\ row.of = rows[s.draft].of
      /\ row.text = s.text
  BY <1>1, <1>2, RowFacts
<1>4. rows' = [rows EXCEPT ![s.draft] = row]
  BY DEF UpdateDraft
<1> HIDE DEF row
<1>5. /\ RowsTyped /\ rows'[s.draft] = row
      /\ \A e \in Drafts : e # s.draft => rows'[e] = rows[e]
  BY <1>1, <1>3, <1>4, OneRow DEF IsDraft
<1>6. RowWritten(s.draft)
  BY <1>3, <1>5 DEF RowWritten, UpdateDraft, IsDraft
<1> QED
  BY <1>5, <1>6 DEF RowsStep, RowStep

LEMMA RemoveFileRows ==
  ASSUME TypeOK, NEW f \in Files, RemoveFile(f)
  PROVE  RowsStep /\ RowsTyped
<1> DEFINE d == form.draft
           row == [rows[d] EXCEPT !.files = rows[d].files \ {f}]
<1>1. d \in Drafts /\ rows[d].state = "draft"
  BY TypeSets DEF FormSet, RemoveFile, IsDraft
<1>2. rows[d] \in RowSet /\ rows[d].files \ {f} \in SUBSET Files
  BY <1>1, TypeSets DEF RowSet
<1>3. /\ row \in RowSet /\ row.state = rows[d].state /\ row.of = rows[d].of
      /\ row.text = rows[d].text
  BY <1>2, RowFacts
<1>4. rows' = [rows EXCEPT ![d] = row]
  BY DEF RemoveFile
<1> HIDE DEF row, d
<1>5. /\ RowsTyped /\ rows'[d] = row
      /\ \A e \in Drafts : e # d => rows'[e] = rows[e]
  BY <1>1, <1>3, <1>4, OneRow
<1>6. RowWritten(d)
  BY <1>1, <1>3, <1>5 DEF RowWritten
<1> QED
  BY <1>5, <1>6 DEF RowsStep, RowStep

LEMMA GoneRows ==
  ASSUME TypeOK, NEW d \in Drafts, rows' = [rows EXCEPT ![d] = Gone(rows[d])],
         rows[d].state # "unused",
         d \in submitting \/ \E x \in deletes : x.draft = d /\ x.stage = "out"
  PROVE  RowsStep /\ RowsTyped
<1> DEFINE row == Gone(rows[d])
<1>1. rows[d] \in RowSet
  BY TypeSets
<1>2. row \in RowSet /\ row.state = "gone" /\ row.of = rows[d].of /\ row.text = 0 /\ row.files = {}
  BY <1>1, RowFacts
<1>3. rows' = [rows EXCEPT ![d] = row]
  OBVIOUS
<1> HIDE DEF row
<1>4. /\ RowsTyped /\ rows'[d] = row
      /\ \A e \in Drafts : e # d => rows'[e] = rows[e]
  BY <1>2, <1>3, OneRow
<1>5. RowGone(d)
  BY <1>2, <1>4 DEF RowGone
<1> QED
  BY <1>4, <1>5 DEF RowsStep, RowStep

LEMMA RowsEffect ==
  ASSUME TypeOK, NameInv, [Next]_vars
  PROVE  RowsStep /\ RowsTyped
<1>1. ASSUME NEW x \in deletes, DeleteDraft(x), IsDraft(x.draft) PROVE RowsStep /\ RowsTyped
  <2>1. x.draft \in Drafts /\ x.stage = "out" /\ rows[x.draft].state # "unused"
    BY <1>1, TypeSets DEF DeleteSet, DeleteDraft, IsDraft
  <2>2. rows' = [rows EXCEPT ![x.draft] = Gone(rows[x.draft])]
    BY <1>1 DEF DeleteDraft
  <2> QED
    BY <2>1, <2>2, GoneRows
<1>2. ASSUME NEW d \in Drafts, DropDraft(d) PROVE RowsStep /\ RowsTyped
  <2>1. rows[d].state # "unused" /\ d \in submitting
    BY <1>2 DEF DropDraft, NameInv
  <2>2. rows' = [rows EXCEPT ![d] = Gone(rows[d])]
    BY <1>2 DEF DropDraft
  <2> QED
    BY <2>1, <2>2, GoneRows
<1>3. ASSUME rows' = rows PROVE RowsStep /\ RowsTyped
  BY <1>3, TypeSets DEF RowsStep, RowStep, RowsTyped
<1>4. ASSUME Next PROVE \/ rows' = rows
                        \/ \E s \in saves : CreateDraft(s) \/ (UpdateDraft(s) /\ IsDraft(s.draft))
                        \/ \E x \in deletes : DeleteDraft(x) /\ IsDraft(x.draft)
                        \/ \E d \in Drafts : \/ DropDraft(d)
                                             \/ \E files \in SUBSET Files : Forward(d, files)
                        \/ \E f \in Files : RemoveFile(f)
  BY <1>4 DEF Next, Compose, Receive, Serve, Disturb, OpenNew, OpenDraft, Close, Edit,
     SaveDue, Submit, ReceiveSave, ReceiveSend, Discard, ReceiveDelete, CheckDraft, UpdateDraft,
     DeleteDraft, ServeSend, TakeDraft, FailSave, FailDelete, FailSend, DiscardElsewhere,
     Mount, Fault, server, browser, requests, history, bounds
<1> QED
  BY <1>1, <1>2, <1>3, <1>4, CreateDraftRows, ForwardRows, UpdateDraftRows, RemoveFileRows
     DEF vars, server

\* What a step does to the composer: it goes, comes, begins another message, hears of its
\* draft, or stays with what it has.
FormNew ==
  /\ OpenNew /\ form = Closed /\ opens' = opens + 1 /\ texts' = texts + 1 /\ rows' = rows
  /\ form'.nr = opens + 1 /\ form'.of = texts + 1 /\ form'.draft = None /\ form'.text = 0
FormOpened(d) ==
  /\ OpenDraft(d) /\ form = Closed /\ opens' = opens + 1 /\ rows' = rows /\ IsDraft(d)
  /\ form'.nr = opens + 1 /\ form'.of = rows[d].of /\ form'.draft = d
  /\ form'.text # 0 => form'.timer
  /\ ~form'.unsure => Settled(rows[d].of)
FormForwarded(d) ==
  /\ \E files \in SUBSET Files : Forward(d, files)
  /\ form = Closed /\ opens' = opens + 1 /\ texts' = texts + 1 /\ rows[d].state = "unused"
  /\ rows'[d].of = texts + 1 /\ rows'[d].state = "draft"
  /\ form'.nr = opens + 1 /\ form'.of = texts + 1 /\ form'.draft = d
  /\ form'.text # 0 => form'.timer
FormCleared ==
  /\ \E s \in sends : ReceiveSend(s) /\ s.ok /\ s.nr = form.nr
  /\ form # Closed /\ texts' = texts + 1
  /\ form'.nr = form.nr /\ form'.of = texts + 1 /\ form'.draft = None /\ form'.text = 0
  /\ form'.unsure = form.unsure /\ form'.discarding = form.discarding
FormNamed(s) ==
  /\ ReceiveSave(s) /\ s.ok /\ ~Outdated(s) /\ s.nr = form.nr
  /\ form'.nr = form.nr /\ form'.of = form.of /\ form'.draft = s.draft /\ s.draft # form.draft
  /\ form'.text # 0 => form'.timer
  /\ form'.sending = form.sending
  /\ form'.discarding = form.discarding
  /\ form.unsure \/ s.of # form.of => form'.unsure
  /\ s.of # form.of => form.of \in hasty'
FormKept ==
  /\ form = Closed => form' = Closed
  /\ form'.nr = form.nr /\ form'.of = form.of /\ form'.draft = form.draft
  /\ form.unsure => form'.unsure
  /\ ~form'.unsure /\ ~form'.discarding => ~form.discarding
  /\ form.sending => form'.sending \/ \E s \in sends : ReceiveSend(s) /\ s.nr = form.nr

  /\ ~form'.timer /\ ~form'.discarding /\ form'.text # 0 =>
       form'.text = form.text /\ (SaveDue \/ ~form.timer)
FormStep ==
  \/ form' = Closed \/ FormNew \/ FormCleared \/ FormKept
  \/ \E d \in Drafts : FormOpened(d) \/ FormForwarded(d)
  \/ \E s \in saves : FormNamed(s)

LEMMA ClosedFields ==
  /\ Closed \in FormSet /\ Closed.nr = 0 /\ Closed.of = 0 /\ Closed.draft = None /\ Closed.text = 0
  /\ Closed.kept = {} /\ ~Closed.timer /\ ~Closed.sending /\ ~Closed.discarding /\ ~Closed.unsure
BY Bounds DEF Closed, FormSet

LEMMA ShownFields ==
  ASSUME TypeOK, NEW d \in Drafts, NEW row \in RowSet, opens + 1 \in Composers
  PROVE  /\ Shown(d, row) \in FormSet
         /\ Shown(d, row).nr = opens + 1 /\ Shown(d, row).of = row.of /\ Shown(d, row).draft = d
         /\ Shown(d, row).text # 0 => Shown(d, row).timer
         /\ ~Shown(d, row).unsure => Settled(row.of)
         /\ ~Shown(d, row).sending /\ ~Shown(d, row).discarding
<1> DEFINE u == ~Settled(row.of)
<1>1. u \in BOOLEAN
  BY DEF Settled
<1> DEFINE f == [Closed EXCEPT !.nr = opens + 1, !.of = row.of, !.draft = d,
                                !.text = row.text, !.kept = row.files, !.unsure = u]
<1> HIDE DEF u
<1>2. /\ f \in FormSet /\ f.nr = opens + 1 /\ f.of = row.of /\ f.draft = d /\ f.text = row.text
      /\ f.unsure = u /\ ~f.sending /\ ~f.discarding
  BY <1>1, Bounds DEF Closed, FormSet, RowSet
<1>3. Shown(d, row) = [f EXCEPT !.timer = (f.text # 0)]
  BY DEF Shown, Rearm, f, u
<1> HIDE DEF f
<1>4. /\ [f EXCEPT !.timer = (f.text # 0)] \in FormSet
      /\ [f EXCEPT !.timer = (f.text # 0)].timer = (f.text # 0)
      /\ [f EXCEPT !.timer = (f.text # 0)].nr = f.nr
      /\ [f EXCEPT !.timer = (f.text # 0)].of = f.of
      /\ [f EXCEPT !.timer = (f.text # 0)].draft = f.draft
      /\ [f EXCEPT !.timer = (f.text # 0)].text = f.text
      /\ [f EXCEPT !.timer = (f.text # 0)].unsure = f.unsure
      /\ [f EXCEPT !.timer = (f.text # 0)].sending = f.sending
      /\ [f EXCEPT !.timer = (f.text # 0)].discarding = f.discarding
  BY <1>2 DEF FormSet
<1> QED
  BY <1>2, <1>3, <1>4 DEF u

LEMMA Mounts ==
  ASSUME TypeOK, NEW f, Mount(f)
  PROVE  form = Closed /\ form' = f /\ opens' = opens + 1 /\ opens + 1 \in Composers
BY TypeSets, Bounds DEF Mount, Eventful, Composers, Versions

LEMMA Rearmed ==
  ASSUME NEW f \in FormSet
  PROVE  /\ Rearm(f) \in FormSet /\ (f.text # 0 => Rearm(f).timer)
         /\ Rearm(f).nr = f.nr /\ Rearm(f).of = f.of /\ Rearm(f).draft = f.draft
         /\ Rearm(f).text = f.text /\ Rearm(f).kept = f.kept /\ Rearm(f).unsure = f.unsure
         /\ Rearm(f).sending = f.sending /\ Rearm(f).discarding = f.discarding
BY DEF Rearm, FormSet

LEMMA OpenNewForm ==
  ASSUME TypeOK, OpenNew
  PROVE  FormStep /\ form' \in FormSet /\ form'.kept = {}
<1> DEFINE f == [Closed EXCEPT !.nr = opens + 1, !.of = texts + 1]
<1>1. form = Closed /\ form' = f /\ opens' = opens + 1 /\ opens + 1 \in Composers
  BY Mounts DEF OpenNew
<1>2. texts' = texts + 1 /\ rows' = rows /\ texts + 1 \in 0..MaxTexts
  BY TypeSets, Bounds DEF OpenNew
<1>3. /\ f \in FormSet /\ f.nr = opens + 1 /\ f.of = texts + 1 /\ f.draft = None /\ f.text = 0
      /\ f.kept = {}
  BY <1>1, <1>2, Bounds DEF Closed, FormSet
<1> QED
  BY <1>1, <1>2, <1>3 DEF FormStep, FormNew

LEMMA OpenDraftForm ==
  ASSUME TypeOK, NEW d \in Drafts, OpenDraft(d)
  PROVE  FormStep /\ form' \in FormSet /\ form'.draft # None
<1>1. /\ form = Closed /\ form' = Shown(d, rows[d]) /\ opens' = opens + 1
      /\ opens + 1 \in Composers
  BY Mounts DEF OpenDraft
<1>2. rows[d] \in RowSet
  BY TypeSets
<1> DEFINE f == Shown(d, rows[d])
<1>3. /\ f \in FormSet /\ f.nr = opens + 1 /\ f.of = rows[d].of /\ f.draft = d
      /\ f.text # 0 => f.timer
      /\ ~f.unsure => Settled(rows[d].of)
  BY <1>1, <1>2, ShownFields
<1> HIDE DEF f
<1>4. form' = f
  BY <1>1 DEF f
<1>5. FormOpened(d) /\ form' \in FormSet /\ form'.draft # None
  BY <1>1, <1>3, <1>4, Bounds DEF FormOpened, OpenDraft
<1> QED
  BY <1>5 DEF FormStep

LEMMA ForwardForm ==
  ASSUME TypeOK, NEW d \in Drafts, NEW files \in SUBSET Files, Forward(d, files)
  PROVE  FormStep /\ form' \in FormSet /\ form'.draft # None
<1>1. /\ form = Closed /\ form' = Shown(d, rows'[d]) /\ opens' = opens + 1
      /\ opens + 1 \in Composers
  BY Mounts DEF Forward
<1> DEFINE base == Row(texts + 1, edits + 1)
           row == [base EXCEPT !.files = files]
<1>2. texts + 1 \in Texts /\ edits + 1 \in Versions
  BY TypeSets, Bounds DEF Forward, Texts, Versions
<1>3. base \in RowSet /\ base.of = texts + 1 /\ base.state = "draft"
  BY <1>2, RowFacts
<1> HIDE DEF base
<1>4. row \in RowSet /\ row.of = texts + 1 /\ row.state = "draft"
  BY <1>3, RowFacts
<1>5. rows'[d] = row
  BY TypeSets DEF Forward, base, row
<1> HIDE DEF row
<1> DEFINE f == Shown(d, row)
<1>6. /\ f \in FormSet /\ f.nr = opens + 1 /\ f.of = row.of /\ f.draft = d
      /\ f.text # 0 => f.timer
  BY <1>1, <1>4, ShownFields
<1> HIDE DEF f
<1>7. form' = f
  BY <1>1, <1>5 DEF f
<1>8. texts' = texts + 1 /\ rows[d].state = "unused"
  BY DEF Forward
<1>9. FormForwarded(d) /\ form' \in FormSet /\ form'.draft # None
  BY <1>1, <1>4, <1>5, <1>6, <1>7, <1>8, Bounds DEF FormForwarded
<1> QED
  BY <1>9 DEF FormStep

LEMMA EditForm ==
  ASSUME TypeOK, NEW text \in {0, edits + 1}, Edit(text)
  PROVE  FormStep /\ form' \in FormSet /\ (form'.draft = None => form'.kept = {})
<1> DEFINE f == [form EXCEPT !.text = text]
<1>1. text \in Versions
  BY TypeSets, Bounds DEF Edit, Eventful, Versions
<1>2. /\ f \in FormSet /\ f.nr = form.nr /\ f.of = form.of /\ f.draft = form.draft
      /\ f.text = text /\ f.kept = form.kept /\ f.unsure = form.unsure
      /\ f.sending = form.sending /\ f.discarding = form.discarding
  BY <1>1, TypeSets DEF FormSet
<1>3. form' = Rearm(f)
  BY DEF Edit
<1> HIDE DEF f
<1>5. FormKept
  BY <1>2, <1>3, Rearmed DEF FormKept, Edit
<1> QED
  BY <1>2, <1>3, <1>5, Rearmed, TypeSets DEF FormStep

LEMMA SaveDueForm ==
  ASSUME TypeOK, SaveDue
  PROVE  FormStep /\ form' \in FormSet /\ (form'.draft = None => form'.kept = {})
<1>1. Saving(form.draft) \in BOOLEAN
  BY DEF Saving
<1> DEFINE u == form.unsure \/ Saving(form.draft)
           f == [form EXCEPT !.timer = FALSE, !.unsure = u]
<1>2. u \in BOOLEAN /\ (form.unsure => u)
  BY <1>1
<1> HIDE DEF u
<1>3. /\ f \in FormSet /\ f.nr = form.nr /\ f.of = form.of /\ f.draft = form.draft
      /\ f.text = form.text /\ f.kept = form.kept /\ f.unsure = u
      /\ f.sending = form.sending /\ f.discarding = form.discarding
  BY <1>2, TypeSets DEF FormSet
<1>4. form' = f
  BY DEF SaveDue, u
<1> HIDE DEF f
<1>5. form # Closed
  BY ClosedFields DEF SaveDue
<1>6. FormKept
  BY <1>2, <1>3, <1>4, <1>5 DEF FormKept
<1> QED
  BY <1>3, <1>4, <1>6, TypeSets DEF FormStep

LEMMA ReceiveSaveForm ==
  ASSUME TypeOK, NameInv, NEW s \in saves, ReceiveSave(s)
  PROVE  FormStep /\ form' \in FormSet /\ (form'.draft = None => form'.kept = {})
<1>1. form \in FormSet /\ s \in SaveSet /\ (form.draft = None => form.kept = {})
  BY TypeSets
<1>2. CASE form' = form
  <2>1. FormKept
    BY <1>2, Zenon DEF FormKept
  <2> QED
    BY <1>1, <1>2, <2>1 DEF FormStep
<1>0. form.nr = s.nr => form # Closed
  BY <1>1, Bounds, ClosedFields DEF SaveSet, Composers
<1>3. CASE form.nr = s.nr /\ form' = [form EXCEPT !.unsure = TRUE]
  <2> DEFINE f == [form EXCEPT !.unsure = TRUE]
  <2>1. /\ f \in FormSet /\ f.nr = form.nr /\ f.of = form.of /\ f.draft = form.draft
        /\ f.text = form.text /\ f.kept = form.kept /\ f.unsure /\ f.timer = form.timer
        /\ f.sending = form.sending /\ f.discarding = form.discarding
    BY <1>1 DEF FormSet
  <2>2. form' = f
    BY <1>3
  <2> HIDE DEF f
  <2>3. FormKept
    BY <1>0, <1>3, <2>1, <2>2 DEF FormKept
  <2> QED
    BY <1>1, <2>1, <2>2, <2>3 DEF FormStep
<1>4. CASE /\ s.ok /\ ~Outdated(s) /\ form.nr = s.nr
           /\ form' = Named([form EXCEPT !.unsure = @ \/ s.of # form.of], s.draft)
  <2> DEFINE u == form.unsure \/ s.of # form.of
             f == [form EXCEPT !.unsure = u]
             g == [f EXCEPT !.draft = s.draft]
  <2>1. u \in BOOLEAN /\ (form.unsure \/ s.of # form.of => u)
    BY <1>1 DEF FormSet
  <2> HIDE DEF u
  <2>2. /\ f \in FormSet /\ f.nr = form.nr /\ f.of = form.of /\ f.draft = form.draft
        /\ f.text = form.text /\ f.kept = form.kept /\ f.unsure = u /\ f.timer = form.timer
        /\ f.sending = form.sending /\ f.discarding = form.discarding
    BY <1>1, <2>1 DEF FormSet
  <2>3. form' = IF f.draft = s.draft THEN f ELSE Rearm(g)
    BY <1>4 DEF Named, u, f, g
  <2> HIDE DEF f
  <2>4. s.draft \in Drafts
    BY <1>1, <1>4 DEF NameInv, SaveAt, SaveSet, ReceiveSave
  <2>5. CASE f.draft = s.draft
    <3>1. FormKept
      BY <1>0, <1>4, <2>1, <2>2, <2>3, <2>5 DEF FormKept
    <3> QED
      BY <1>1, <2>2, <2>3, <2>5, <3>1 DEF FormStep
  <2>6. CASE f.draft # s.draft
    <3>1. /\ g \in FormSet /\ g.nr = f.nr /\ g.of = f.of /\ g.draft = s.draft
          /\ g.text = f.text /\ g.kept = f.kept /\ g.unsure = f.unsure
          /\ g.sending = f.sending /\ g.discarding = f.discarding
      BY <2>2, <2>4 DEF FormSet
    <3> HIDE DEF g
    <3>2. form' = Rearm(g)
      BY <2>3, <2>6
    <3>3. /\ form' \in FormSet /\ form'.nr = form.nr /\ form'.of = form.of
          /\ form'.draft = s.draft /\ form'.unsure = u
          /\ form'.sending = form.sending /\ form'.discarding = form.discarding
          /\ form'.text # 0 => form'.timer
      BY <2>2, <3>1, <3>2, Rearmed
    <3>4. s.of # form.of => form.of \in hasty'
      BY <2>2, <2>6, <3>3 DEF ReceiveSave
    <3>5. FormNamed(s)
      BY <1>4, <2>1, <2>2, <2>6, <3>3, <3>4 DEF FormNamed
    <3> QED
      BY <2>4, <3>3, <3>5, Bounds DEF FormStep
  <2> QED
    BY <2>5, <2>6
<1> QED
  BY <1>2, <1>3, <1>4 DEF ReceiveSave

LEMMA ReceiveSendForm ==
  ASSUME TypeOK, NameInv, NEW s \in sends, ReceiveSend(s)
  PROVE  FormStep /\ form' \in FormSet /\ (form'.draft = None => form'.kept = {})
<1>1. form \in FormSet /\ s \in SendSet /\ (form.draft = None => form.kept = {})
  BY TypeSets
<1>2. CASE form' = form
  <2>1. FormKept
    BY <1>2, Zenon DEF FormKept
  <2> QED
    BY <1>1, <1>2, <2>1 DEF FormStep
<1>0. form.nr = s.nr => form # Closed
  BY <1>1, Bounds, ClosedFields DEF SendSet, Composers
<1>3. CASE form.nr = s.nr /\ form' = [form EXCEPT !.sending = FALSE]
  <2> DEFINE f == [form EXCEPT !.sending = FALSE]
  <2>1. /\ f \in FormSet /\ f.nr = form.nr /\ f.of = form.of /\ f.draft = form.draft
        /\ f.text = form.text /\ f.kept = form.kept /\ f.unsure = form.unsure
        /\ f.timer = form.timer /\ f.discarding = form.discarding
    BY <1>1 DEF FormSet
  <2>2. form' = f
    BY <1>3
  <2> HIDE DEF f
  <2>3. FormKept
    BY <1>0, <1>3, <2>1, <2>2 DEF FormKept
  <2> QED
    BY <1>1, <2>1, <2>2, <2>3 DEF FormStep
<1>4. CASE form.nr = s.nr /\ s.ok /\ texts < MaxTexts /\ form' = Cleared /\ texts' = texts + 1
  <2>1. texts + 1 \in 0..MaxTexts
    BY <1>4, TypeSets, Bounds
  <2>2. /\ Cleared \in FormSet /\ Cleared.nr = form.nr /\ Cleared.of = texts + 1
        /\ Cleared.draft = None /\ Cleared.text = 0 /\ Cleared.kept = {}
        /\ Cleared.unsure = form.unsure /\ Cleared.discarding = form.discarding
    BY <1>1, <2>1, Bounds DEF FormSet, Cleared
  <2>3. form # Closed
    BY <1>0, <1>4
  <2>4. FormCleared
    BY <1>4, <2>2, <2>3 DEF FormCleared
  <2> QED
    BY <1>4, <2>2, <2>4 DEF FormStep
<1> QED
  BY <1>2, <1>3, <1>4 DEF ReceiveSend

LEMMA OtherForms ==
  ASSUME TypeOK,
         \/ form' = Closed \/ form' = form
         \/ /\ form # Closed
            /\ \/ form' = [form EXCEPT !.sending = TRUE]
               \/ form' = [form EXCEPT !.timer = FALSE, !.discarding = TRUE]
               \/ form' = [form EXCEPT !.discarding = FALSE, !.unsure = TRUE]
               \/ \E kept \in SUBSET form.kept : form' = [form EXCEPT !.kept = kept]
  PROVE  FormStep /\ form' \in FormSet /\ (form'.draft = None => form'.kept = {})
<1>1. form \in FormSet /\ (form.draft = None => form.kept = {})
  BY TypeSets
<1>2. CASE form' = Closed
  BY <1>2, ClosedFields DEF FormStep
<1>3. CASE form' = form
  <2>1. FormKept
    BY <1>3, Zenon DEF FormKept
  <2> QED
    BY <1>1, <1>3, <2>1 DEF FormStep
<1>4. CASE form # Closed /\ form' = [form EXCEPT !.sending = TRUE]
  <2> DEFINE f == [form EXCEPT !.sending = TRUE]
  <2>1. /\ f \in FormSet /\ f.nr = form.nr /\ f.of = form.of /\ f.draft = form.draft
        /\ f.text = form.text /\ f.kept = form.kept /\ f.unsure = form.unsure
        /\ f.timer = form.timer /\ f.sending /\ f.discarding = form.discarding
    BY <1>1 DEF FormSet
  <2>2. form' = f
    BY <1>4
  <2> HIDE DEF f
  <2>3. FormKept
    BY <1>4, <2>1, <2>2 DEF FormKept
  <2> QED
    BY <1>1, <2>1, <2>2, <2>3 DEF FormStep
<1>5. CASE form # Closed /\ form' = [form EXCEPT !.timer = FALSE, !.discarding = TRUE]
  <2> DEFINE f == [form EXCEPT !.timer = FALSE, !.discarding = TRUE]
  <2>1. /\ f \in FormSet /\ f.nr = form.nr /\ f.of = form.of /\ f.draft = form.draft
        /\ f.text = form.text /\ f.kept = form.kept /\ f.unsure = form.unsure
        /\ f.sending = form.sending /\ f.discarding
    BY <1>1 DEF FormSet
  <2>2. form' = f
    BY <1>5
  <2> HIDE DEF f
  <2>3. FormKept
    BY <1>5, <2>1, <2>2 DEF FormKept
  <2> QED
    BY <1>1, <2>1, <2>2, <2>3 DEF FormStep
<1>6. CASE form # Closed /\ form' = [form EXCEPT !.discarding = FALSE, !.unsure = TRUE]
  <2> DEFINE f == [form EXCEPT !.discarding = FALSE, !.unsure = TRUE]
  <2>1. /\ f \in FormSet /\ f.nr = form.nr /\ f.of = form.of /\ f.draft = form.draft
        /\ f.text = form.text /\ f.kept = form.kept /\ f.unsure /\ f.timer = form.timer
        /\ f.sending = form.sending
    BY <1>1 DEF FormSet
  <2>2. form' = f
    BY <1>6
  <2> HIDE DEF f
  <2>3. FormKept
    BY <1>6, <2>1, <2>2 DEF FormKept
  <2> QED
    BY <1>1, <2>1, <2>2, <2>3 DEF FormStep
<1>7. ASSUME NEW kept \in SUBSET form.kept, form # Closed,
             form' = [form EXCEPT !.kept = kept]
      PROVE  FormStep /\ form' \in FormSet /\ (form'.draft = None => form'.kept = {})
  <2> DEFINE f == [form EXCEPT !.kept = kept]
  <2>1. /\ f \in FormSet /\ f.nr = form.nr /\ f.of = form.of /\ f.draft = form.draft
        /\ f.text = form.text /\ f.kept = kept /\ f.unsure = form.unsure /\ f.timer = form.timer
        /\ f.sending = form.sending /\ f.discarding = form.discarding
    BY <1>1 DEF FormSet
  <2>2. form' = f
    BY <1>7
  <2> HIDE DEF f
  <2>3. FormKept
    BY <1>7, <2>1, <2>2 DEF FormKept
  <2> QED
    BY <1>1, <2>1, <2>2, <2>3 DEF FormStep
<1> QED
  BY <1>2, <1>3, <1>4, <1>5, <1>6, <1>7

LEMMA FormEffect ==
  ASSUME TypeOK, NameInv, [Next]_vars
  PROVE  FormStep /\ form' \in FormSet /\ (form'.draft = None => form'.kept = {})
<1> DEFINE Goal == FormStep /\ form' \in FormSet /\ (form'.draft = None => form'.kept = {})
<1>1. ASSUME NEW d \in Drafts, \/ OpenDraft(d) \/ \E files \in SUBSET Files : Forward(d, files)
      PROVE  Goal
  BY <1>1, OpenDraftForm, ForwardForm
<1>2. ASSUME \/ OpenNew \/ SaveDue \/ (\E text \in {0, edits + 1} : Edit(text))
             \/ (\E s \in saves : ReceiveSave(s)) \/ (\E s \in sends : ReceiveSend(s))
      PROVE  Goal
  BY <1>2, OpenNewForm, SaveDueForm, EditForm, ReceiveSaveForm, ReceiveSendForm
<1>3. ASSUME NEW f \in Files, RemoveFile(f) PROVE Goal
  <2>1. form' = [form EXCEPT !.kept = form.kept \ {f}] /\ form # Closed
    BY <1>3, ClosedFields DEF RemoveFile, IsDraft
  <2> QED
    BY <2>1, OtherForms
<1>4. ASSUME Close \/ Submit \/ Discard \/ \E x \in deletes : ReceiveDelete(x) PROVE Goal
  <2>1. ASSUME NEW x \in deletes, ReceiveDelete(x), form = Closed PROVE form.nr # x.nr
    BY <2>1, ClosedFields DEF NameInv, DeleteAt, ReceiveDelete
  <2>2. Submit => form # Closed
    BY ClosedFields DEF Submit
  <2> QED
    BY <1>4, <2>1, <2>2, OtherForms DEF Close, Submit, Discard, ReceiveDelete
<1>5. ASSUME form' = form PROVE Goal
  BY <1>5, OtherForms
<1>6. ASSUME Next
      PROVE  \/ form' = form
             \/ \E d \in Drafts : OpenDraft(d) \/ \E files \in SUBSET Files : Forward(d, files)
             \/ OpenNew \/ SaveDue \/ (\E text \in {0, edits + 1} : Edit(text))
             \/ (\E s \in saves : ReceiveSave(s)) \/ (\E s \in sends : ReceiveSend(s))
             \/ \E f \in Files : RemoveFile(f)
             \/ Close \/ Submit \/ Discard \/ \E x \in deletes : ReceiveDelete(x)
  BY <1>6 DEF Next, Compose, Receive, Serve, Disturb, CreateDraft, CheckDraft, UpdateDraft,
     DeleteDraft, ServeSend, TakeDraft, DropDraft, FailSave, FailDelete, FailSend,
     DiscardElsewhere, Fault, server, browser, requests, history, bounds
<1> QED
  BY <1>1, <1>2, <1>3, <1>4, <1>5, <1>6 DEF vars, browser

\* What a step adds to the messages that are sent or discarded.
OverStep ==
  \A m \in over' \ over :
    \/ \E s \in sends : ReceiveSend(s) /\ s.ok /\ m = s.of
    \/ Discard /\ form.draft = None /\ m = form.of
    \/ \E x \in deletes : ReceiveDelete(x) /\ x.ok /\ m = rows[x.draft].of /\ rows' = rows
    \/ \E d \in submitting : DropDraft(d) /\ m = rows[d].of

LEMMA OverEffect ==
  ASSUME [Next]_vars
  PROVE  OverStep
<1>1. ASSUME over' = over PROVE OverStep
  BY <1>1 DEF OverStep
<1>2. ASSUME NEW s \in sends, ReceiveSend(s) PROVE OverStep
  BY <1>2 DEF OverStep, ReceiveSend
<1>3. ASSUME Discard PROVE OverStep
  BY <1>3 DEF OverStep, Discard
<1>4. ASSUME NEW x \in deletes, ReceiveDelete(x) PROVE OverStep
  BY <1>4 DEF OverStep, ReceiveDelete, server
<1>5. ASSUME NEW d \in Drafts, DropDraft(d) PROVE OverStep
  BY <1>5 DEF OverStep, DropDraft
<1>6. ASSUME Next
      PROVE  \/ over' = over \/ (\E s \in sends : ReceiveSend(s)) \/ Discard
             \/ (\E x \in deletes : ReceiveDelete(x)) \/ (\E d \in Drafts : DropDraft(d))
  BY <1>6 DEF Next, Compose, Receive, Serve, Disturb, OpenNew, OpenDraft, Forward, Close, Edit,
     SaveDue, Submit, ReceiveSave, RemoveFile, CreateDraft, CheckDraft, UpdateDraft, DeleteDraft,
     ServeSend, TakeDraft, FailSave, FailDelete, FailSend, DiscardElsewhere, Mount, Fault,
     server, browser, requests, history, bounds
<1> QED
  BY <1>1, <1>2, <1>3, <1>4, <1>5, <1>6 DEF vars, history

LEMMA OpenFields ==
  ASSUME TypeOK, NameInv, form # Closed
  PROVE  form.nr = opens /\ form.nr \in Composers /\ form.of \in 1..texts /\ form.of \in Texts
<1>1. form.nr = opens /\ form.nr \in Composers /\ form.of \in 1..texts
  BY DEF NameInv, FormAt, Open
<1>2. texts \in 0..MaxTexts /\ MaxTexts \in Nat
  BY TypeSets, Bounds
<1> QED
  BY <1>1, <1>2 DEF Texts

LEMMA UsedRows ==
  ASSUME TypeOK, NameInv, NEW d \in Drafts, rows[d].state # "unused"
  PROVE  rows[d].of \in 1..texts /\ rows[d].of \in Texts
<1>1. rows[d].of \in 1..texts
  BY DEF NameInv, RowAt
<1>2. texts \in 0..MaxTexts /\ MaxTexts \in Nat
  BY TypeSets, Bounds
<1> QED
  BY <1>1, <1>2 DEF Texts

\* Whom a message that is over belongs to.
LEMMA OverNames ==
  ASSUME TypeOK, NameInv, OverStep
  PROVE  \A m \in over' : m \in over \/ (m \in 1..texts /\ m \in Texts)
<1> SUFFICES ASSUME NEW m \in over', m \notin over
             PROVE  m \in 1..texts /\ m \in Texts
  OBVIOUS
<1>1. texts \in 0..MaxTexts /\ MaxTexts \in Nat
  BY TypeSets, Bounds
<1>2. CASE \E s \in sends : ReceiveSend(s) /\ s.ok /\ m = s.of
  BY <1>1, <1>2 DEF NameInv, Writers, WriterAt, Texts
<1>3. CASE Discard /\ form.draft = None /\ m = form.of
  BY <1>3, OpenFields DEF Discard
<1>4. CASE \E x \in deletes : ReceiveDelete(x) /\ x.ok /\ m = rows[x.draft].of /\ rows' = rows
  <2>1. PICK x \in deletes : m = rows[x.draft].of
    BY <1>4
  <2>2. x.draft \in Drafts /\ rows[x.draft].state # "unused"
    BY TypeSets, Bounds DEF NameInv, DeleteAt, Used, DeleteSet
  <2> QED
    BY <2>1, <2>2, UsedRows
<1>5. CASE \E d \in submitting : DropDraft(d) /\ m = rows[d].of
  BY <1>5, UsedRows, TypeSets DEF NameInv
<1> QED
  BY <1>2, <1>3, <1>4, <1>5 DEF OverStep

LEMMA TypeStep ==
  ASSUME TypeOK, NameInv, [Next]_vars
  PROVE  TypeOK'
<1>1. SavesStep /\ SendsStep /\ DeletesStep /\ RowsTyped /\ OverStep
  BY SavesEffect, SendsEffect, DeletesEffect, RowsEffect, OverEffect
<1>2. form' \in FormSet /\ (form'.draft = None => form'.kept = {})
  BY FormEffect
<1>3. saves' \subseteq SaveSet
  BY <1>1, TypeSets DEF SavesStep, SaveMade, SaveMoves
<1>4. sends' \subseteq SendSet
  BY <1>1, TypeSets DEF SendsStep, SendMade, SendMoves
<1>5. deletes' \subseteq DeleteSet
  BY <1>1, TypeSets DEF DeletesStep, DeleteMade, DeleteMoves
<1>6. over' \subseteq Texts
  BY <1>1, OverNames, TypeSets
<1>7. submitting' \subseteq Drafts
  BY TypeSets DEF Next, Compose, Receive, Serve, Disturb, OpenNew, OpenDraft, Forward, Close,
     Edit, SaveDue, Submit, ReceiveSave, ReceiveSend, Discard, ReceiveDelete, RemoveFile,
     CreateDraft, CheckDraft, UpdateDraft, DeleteDraft, ServeSend, TakeDraft, DropDraft, FailSave,
     FailDelete, FailSend, DiscardElsewhere, Mount, Fault, vars, server, browser, requests,
     history, bounds
<1>8. hasty' \subseteq Texts
  <2>1. hasty' = hasty \/ SaveDue \/ Submit \/ \E s \in saves : ReceiveSave(s)
    BY DEF Next, Compose, Receive, Serve, Disturb, OpenNew, OpenDraft, Forward, Close,
     Edit, ReceiveSend, Discard, ReceiveDelete, RemoveFile, CreateDraft, CheckDraft,
     UpdateDraft, DeleteDraft, ServeSend, TakeDraft, DropDraft, FailSave, FailDelete,
     FailSend, DiscardElsewhere, Mount, Fault, vars, server, browser, requests, history, bounds
  <2>2. ASSUME SaveDue \/ Submit PROVE form # Closed /\ hasty' \subseteq hasty \cup {form.of}
    BY <2>2, ClosedFields DEF SaveDue, Submit
  <2>3. ASSUME NEW s \in saves, ReceiveSave(s)
        PROVE  hasty' = hasty \/ (form # Closed /\ hasty' \subseteq hasty \cup {form.of})
    <3>1. s.nr \in Composers
      BY TypeSets DEF SaveSet
    <3>2. form.nr = s.nr => form # Closed
      BY <3>1, ClosedFields, Bounds DEF Composers
    <3>3. form.nr # s.nr => form' = form
      BY <2>3, Zenon DEF ReceiveSave
    <3>4. /\ hasty' = hasty \/ form'.draft # form.draft
          /\ hasty' \subseteq hasty \cup {form.of}
      BY <2>3, Zenon DEF ReceiveSave
    <3> QED
      BY <3>2, <3>3, <3>4
  <2> QED
    BY <2>1, <2>2, <2>3, OpenFields, TypeSets
<1>9. spared' \subseteq Drafts
  <2>1. \A s \in saves : s.draft \in Drafts \cup {None}
    BY TypeSets DEF SaveSet
  <2>2. \A x \in deletes : x.draft \in Drafts
    BY TypeSets DEF DeleteSet
  <2>3. \/ spared' = spared \/ (\E s \in saves : s.draft # None /\ spared' = spared \cup {s.draft})
        \/ \E x \in deletes : spared' = spared \cup {x.draft}
    BY DEF Next, Compose, Receive, Serve, Disturb, OpenNew, OpenDraft, Forward, Close,
     Edit, SaveDue, Submit, ReceiveSave, ReceiveSend, Discard, ReceiveDelete, RemoveFile,
     CreateDraft, CheckDraft, UpdateDraft, DeleteDraft, ServeSend, TakeDraft, DropDraft, FailSave,
     FailDelete, FailSend, DiscardElsewhere, Mount, Fault, vars, server, browser, requests,
     history, bounds
  <2> QED
    BY <2>1, <2>2, <2>3, TypeSets
<1>10. gens' \in [Composers -> Gens]
  <2>1. gens' = gens \/ Discard
    BY DEF Next, Compose, Receive, Serve, Disturb, OpenNew, OpenDraft, Forward, Close, Edit,
     SaveDue, Submit, ReceiveSave, ReceiveSend, ReceiveDelete, RemoveFile, CreateDraft,
     CheckDraft, UpdateDraft, DeleteDraft, ServeSend, TakeDraft, DropDraft, FailSave, FailDelete,
     FailSend, DiscardElsewhere, Mount, Fault, vars, server, browser, requests, history, bounds
  <2>2. ASSUME Discard PROVE gens' \in [Composers -> Gens]
    <3>1. gens' = [gens EXCEPT ![form.nr] = gens[form.nr] + 1] /\ gens[form.nr] < MaxDiscards
      BY <2>2 DEF Discard
    <3>2. form.nr \in Composers /\ gens \in [Composers -> Gens]
      BY <2>2, OpenFields, TypeSets DEF Discard
    <3>3. gens[form.nr] + 1 \in Gens
      <4>1. gens[form.nr] \in Gens
        BY <3>2
      <4> QED
        BY <3>1, <4>1, Bounds DEF Gens
    <3> QED
      BY <3>1, <3>2, <3>3
  <2> QED
    BY <2>1, <2>2, TypeSets
<1>11. edits' \in Versions /\ opens' \in 0..MaxEvents /\ texts' \in 0..MaxTexts
       /\ faults' \in 0..MaxEvents
  <2>0. edits \in Versions /\ opens \in 0..MaxEvents /\ faults \in 0..MaxEvents
        /\ texts \in 0..MaxTexts
    BY TypeSets
  <2>1. edits \in Nat /\ opens \in Nat /\ faults \in Nat /\ texts \in Nat
    BY <2>0, Bounds
  <2>2. texts' = texts \/ (texts' = texts + 1 /\ texts < MaxTexts)
    BY DEF Next, Compose, Receive, Serve, Disturb, OpenNew, OpenDraft, Forward, Close,
     Edit, SaveDue, Submit, ReceiveSave, ReceiveSend, Discard, ReceiveDelete, RemoveFile,
     CreateDraft, CheckDraft, UpdateDraft, DeleteDraft, ServeSend, TakeDraft, DropDraft, FailSave,
     FailDelete, FailSend, DiscardElsewhere, Mount, Fault, vars, server, browser, requests,
     history, bounds
  <2>3. \/ (edits' = edits /\ opens' = opens /\ faults' = faults)
        \/ edits + 1 < MaxEvents /\ edits' = edits + 1 /\ opens' = opens + 1 /\ faults' = faults
           /\ Eventful
        \/ Eventful /\ edits' = edits + 1 /\ opens' = opens /\ faults' = faults
        \/ Eventful /\ edits' = edits /\ opens' = opens + 1 /\ faults' = faults
        \/ Eventful /\ edits' = edits /\ opens' = opens /\ faults' = faults + 1
    BY DEF Next, Compose, Receive, Serve, Disturb, OpenNew, OpenDraft, Forward, Close,
     Edit, SaveDue, Submit, ReceiveSave, ReceiveSend, Discard, ReceiveDelete, RemoveFile,
     CreateDraft, CheckDraft, UpdateDraft, DeleteDraft, ServeSend, TakeDraft, DropDraft, FailSave,
     FailDelete, FailSend, DiscardElsewhere, Mount, Fault, vars, server, browser, requests,
     history, bounds
  <2>4. edits' \in Versions /\ opens' \in 0..MaxEvents /\ faults' \in 0..MaxEvents
    BY <2>1, <2>3, TypeSets, Bounds DEF Eventful, Versions
  <2> QED
    BY <2>1, <2>2, <2>4, TypeSets, Bounds
<1> QED
  BY <1>1, <1>2, <1>3, <1>4, <1>5, <1>6, <1>7, <1>8, <1>9, <1>10, <1>11
     DEF TypeOK, RowsTyped, RowSet, FormSet, SaveSet, DeleteSet, SendSet

-----------------------------------------------------------------------------
(***************************************************************************)
(* Each part of the invariant is kept by every step.                       *)
(***************************************************************************)
StepFacts == /\ SavesStep /\ SendsStep /\ DeletesStep /\ RowsStep /\ RowsTyped
             /\ FormStep /\ OverStep /\ Grows

LEMMA Effects ==
  ASSUME TypeOK, NameInv, [Next]_vars
  PROVE  StepFacts
BY SavesEffect, SendsEffect, DeletesEffect, RowsEffect, FormEffect, OverEffect, ActionsGrow
   DEF StepFacts

LEMMA RowsKeep ==
  ASSUME RowsStep, NEW d \in Drafts
  PROVE  /\ rows[d].state # "unused" =>
              rows'[d].state # "unused" /\ rows'[d].of = rows[d].of
         /\ rows'[d].state = "draft" => rows[d].state = "draft" \/ RowMade(d)
         /\ rows[d].state = "gone" => rows'[d].state = "gone"
BY DEF RowsStep, RowStep, RowMade, RowWritten, RowGone

\* A writer of the next state is one of this state, or the composer made it.
LEMMA WritersKeep ==
  ASSUME TypeOK, NameInv, StepFacts, NEW r \in Writers'
  PROVE  \/ /\ form # Closed /\ r.nr = form.nr /\ r.of = form.of /\ r.draft = form.draft
         \/ \E q \in Writers :
              /\ r.nr = q.nr /\ r.of = q.of
              /\ \/ r.draft = q.draft
                 \/ /\ q.draft = None /\ r.draft \in Drafts /\ rows[r.draft].state = "unused"
                    /\ q \in saves /\ rows'[r.draft].state = "draft" /\ rows'[r.draft].of = r.of
<1>1. CASE r \in saves'
  <2>1. CASE r \in saves
    BY <2>1 DEF Writers
  <2>2. CASE SaveMade(r)
    BY <2>2 DEF SaveMade
  <2>3. ASSUME NEW s \in saves, SaveMoves(s, r)
        PROVE  \/ r.draft = s.draft
               \/ /\ s.draft = None /\ r.draft \in Drafts /\ rows[r.draft].state = "unused"
                  /\ rows'[r.draft].state = "draft" /\ rows'[r.draft].of = r.of
    <3>1. CASE /\ s.stage = "out" /\ s.draft = None /\ r.stage = "answered" /\ r.ok
               /\ r.draft \in Drafts /\ rows[r.draft].state = "unused"
               /\ rows' = [rows EXCEPT ![r.draft] = Row(s.of, s.text)]
      <4>1. s.of \in Texts /\ s.text \in Versions /\ rows \in [Drafts -> RowSet]
        BY TypeSets DEF SaveSet
      <4>2. rows'[r.draft] = Row(s.of, s.text)
        BY <3>1, <4>1
      <4>3. rows'[r.draft].state = "draft" /\ rows'[r.draft].of = s.of
        BY <4>1, <4>2, RowFacts
      <4> QED
        BY <2>3, <3>1, <4>3 DEF SaveMoves
    <3>2. CASE r.draft = s.draft
      BY <3>2
    <3> QED
      BY <2>3, <3>1, <3>2 DEF SaveMoves
  <2>4. ASSUME NEW s \in saves, SaveMoves(s, r) PROVE r.nr = s.nr /\ r.of = s.of /\ s \in Writers
    BY <2>4 DEF SaveMoves, Writers
  <2> QED
    BY <1>1, <2>1, <2>2, <2>3, <2>4 DEF StepFacts, SavesStep
<1>2. CASE r \in sends'
  <2>1. CASE r \in sends
    BY <2>1 DEF Writers
  <2>2. CASE SendMade(r)
    BY <2>2 DEF SendMade
  <2>3. ASSUME NEW s \in sends, SendMoves(s, r)
        PROVE  r.nr = s.nr /\ r.of = s.of /\ r.draft = s.draft /\ s \in Writers
    BY <2>3 DEF SendMoves, Writers
  <2> QED
    BY <1>2, <2>1, <2>2, <2>3 DEF StepFacts, SendsStep
<1> QED
  BY <1>1, <1>2 DEF Writers

LEMMA Numbers ==
  ASSUME TypeOK, TypeOK', StepFacts
  PROVE  /\ texts \in Nat /\ opens \in Nat /\ texts' \in Nat /\ opens' \in Nat
         /\ faults \in Nat /\ faults' \in Nat
         /\ texts <= texts' /\ opens <= opens' /\ faults <= faults'
         /\ 1..texts \subseteq 1..texts' /\ 1..opens \subseteq 1..opens'
         /\ 0..opens \subseteq 0..opens'
<1>1. /\ texts \in Nat /\ opens \in Nat /\ texts' \in Nat /\ opens' \in Nat
      /\ faults \in Nat /\ faults' \in Nat
  BY Bounds DEF TypeOK
<1>2. texts <= texts' /\ opens <= opens' /\ faults <= faults'
  BY DEF StepFacts, Grows
<1> QED
  BY <1>1, <1>2

LEMMA WriterStep ==
  ASSUME TypeOK, TypeOK', NameInv, StepFacts, NEW r \in Writers'
  PROVE  WriterAt(r)'
<1>1. 1..texts \subseteq 1..texts' /\ 1..opens \subseteq 1..opens'
  BY Numbers
<1>2. ASSUME NEW d \in Drafts \cup {None}, Used(d)
      PROVE  d # None => rows'[d].state # "unused"
  BY <1>2, RowsKeep DEF Used, StepFacts
<1>3. CASE form # Closed /\ r.nr = form.nr /\ r.of = form.of /\ r.draft = form.draft
  <2>1. form.nr \in 1..opens /\ form.of \in 1..texts
    <3>1. form.nr = opens /\ form.nr \in Composers /\ form.of \in 1..texts
      BY <1>3, OpenFields
    <3> QED
      BY <3>1, Numbers DEF Composers
  <2>2. form.draft \in Drafts \cup {None} /\ Used(form.draft)
    BY TypeSets DEF FormSet, NameInv, FormAt
  <2>3. r.draft # None => rows'[r.draft].state # "unused"
    BY <1>2, <1>3, <2>2
  <2> QED
    BY <1>1, <1>3, <2>1, <2>3 DEF WriterAt, Used
<1>4. ASSUME NEW q \in Writers, r.nr = q.nr, r.of = q.of,
             \/ r.draft = q.draft
             \/ r.draft \in Drafts /\ rows'[r.draft].state = "draft"
      PROVE  WriterAt(r)'
  <2>1. q.of \in 1..texts /\ q.nr \in 1..opens /\ Used(q.draft)
    BY DEF NameInv, WriterAt
  <2>2. q.draft \in Drafts \cup {None}
    BY TypeSets DEF Writers, SaveSet, SendSet
  <2>3. r.draft # None => rows'[r.draft].state # "unused"
    BY <1>2, <1>4, <2>1, <2>2
  <2> QED
    BY <1>1, <1>4, <2>1, <2>3 DEF WriterAt, Used
<1> QED
  BY <1>3, <1>4, WritersKeep

LEMMA SaveAtStep ==
  ASSUME TypeOK, TypeOK', NameInv, StepFacts, NEW s \in saves'
  PROVE  SaveAt(s)'
<1>1. \A n \in Composers : gens[n] \in Nat /\ gens'[n] \in Nat /\ gens[n] <= gens'[n]
  <2>1. gens \in [Composers -> Gens] /\ gens' \in [Composers -> Gens]
    BY DEF TypeOK
  <2>2. \A n \in Composers : gens[n] <= gens'[n]
    BY DEF StepFacts, Grows
  <2> QED
    BY <2>1, <2>2, Bounds
<1>2. \A q \in saves : q.nr \in Composers /\ q.gen \in Nat /\ q.gen <= gens[q.nr]
  BY TypeSets, Bounds DEF SaveSet, NameInv, SaveAt
<1>3. CASE s \in saves
  <2>1. SaveAt(s)
    BY <1>3 DEF NameInv
  <2>2. s.gen <= gens'[s.nr]
    BY <1>1, <1>2, <1>3
  <2> QED
    BY <2>1, <2>2 DEF SaveAt
<1>4. CASE SaveMade(s)
  <2>1. s.nr \in Composers /\ s.gen = gens[s.nr] /\ s.stage = "out"
    BY <1>4 DEF SaveMade, SaveSet
  <2>2. s.gen <= gens'[s.nr]
    BY <1>1, <2>1
  <2> QED
    BY <2>1, <2>2 DEF SaveAt
<1>5. ASSUME NEW q \in saves, SaveMoves(q, s) PROVE SaveAt(s)'
  <2>1. s.nr = q.nr /\ s.gen = q.gen
    BY <1>5 DEF SaveMoves
  <2>2. s.gen <= gens'[s.nr]
    BY <1>1, <1>2, <2>1
  <2>3. /\ s.stage = "checked" => s.draft # None
        /\ s.stage = "answered" /\ s.ok => s.draft # None
    BY <1>5, Bounds DEF SaveMoves, NameInv, SaveAt
  <2> QED
    BY <2>2, <2>3 DEF SaveAt
<1> QED
  BY <1>3, <1>4, <1>5 DEF StepFacts, SavesStep

LEMMA DeleteAtStep ==
  ASSUME TypeOK, TypeOK', NameInv, StepFacts, NEW y \in deletes'
  PROVE  DeleteAt(y)'
<1>1. 0..opens \subseteq 0..opens' /\ opens \in Nat
  BY Numbers
<1>2. ASSUME NEW d \in Drafts, Used(d)
      PROVE  d # None => rows'[d].state # "unused"
  BY <1>2, RowsKeep DEF Used, StepFacts
<1>3. CASE y \in deletes
  <2>1. DeleteAt(y) /\ y.draft \in Drafts
    BY <1>3, TypeSets DEF NameInv, DeleteSet
  <2>2. y.draft # None => rows'[y.draft].state # "unused"
    BY <1>2, <2>1 DEF DeleteAt
  <2>3. rows[y.draft].state = "gone" => rows'[y.draft].state = "gone"
    BY <2>1, RowsKeep DEF StepFacts
  <2> QED
    BY <1>1, <2>1, <2>2, <2>3 DEF DeleteAt, Used
<1>4. CASE DeleteMade(y)
  <2>1. y.draft \in Drafts /\ y.stage = "out"
    BY <1>4 DEF DeleteMade, DeleteSet
  <2>2. y.nr \in 0..opens
    BY <1>1, <1>4, OpenFields DEF DeleteMade, Discard
  <2>3. Used(y.draft)
    <3>1. \A r \in Writers : Used(r.draft)
      BY DEF NameInv, WriterAt
    <3>2. Used(form.draft)
      BY DEF NameInv, FormAt
    <3>3. IsDraft(y.draft) => Used(y.draft)
      BY DEF IsDraft, Used
    <3> QED
      BY <1>4, <3>1, <3>2, <3>3 DEF DeleteMade, Writers
  <2>4. y.draft # None => rows'[y.draft].state # "unused"
    BY <1>2, <2>1, <2>3
  <2> QED
    BY <1>1, <2>1, <2>2, <2>4 DEF DeleteAt, Used
<1>5. ASSUME NEW x \in deletes, DeleteMoves(x, y) PROVE DeleteAt(y)'
  <2>1. DeleteAt(x) /\ x.draft \in Drafts
    BY TypeSets DEF NameInv, DeleteSet
  <2>2. x.draft # None => rows'[x.draft].state # "unused"
    BY <1>2, <2>1 DEF DeleteAt
  <2> QED
    BY <1>1, <1>5, <2>1, <2>2 DEF DeleteAt, DeleteMoves, Used
<1> QED
  BY <1>3, <1>4, <1>5 DEF StepFacts, DeletesStep

LEMMA OpensStep ==
  ASSUME TypeOK, [Next]_vars
  PROVE  opens' = opens \/ (opens' = opens + 1 /\ form = Closed /\ ~Discard)
<1>1. Discard => form # Closed
  BY DEF Discard
<1> QED
  BY <1>1 DEF Next, Compose, Receive, Serve, Disturb, OpenNew, OpenDraft, Forward, Close, Edit,
     SaveDue, Submit, ReceiveSave, ReceiveSend, Discard, ReceiveDelete, RemoveFile, CreateDraft,
     CheckDraft, UpdateDraft, DeleteDraft, ServeSend, TakeDraft, DropDraft, FailSave, FailDelete,
     FailSend, DiscardElsewhere, Mount, Fault, vars, server, browser, requests, history, bounds

LEMMA FormAtStep ==
  ASSUME TypeOK, TypeOK', NameInv, StepFacts, [Next]_vars
  PROVE  FormAt'
<1>1. 1..texts \subseteq 1..texts' /\ texts \in Nat /\ texts' \in Nat /\ opens \in Nat
  BY Numbers
<1>2. ASSUME NEW d \in Drafts, Used(d)
      PROVE  d # None => rows'[d].state # "unused"
  BY <1>2, RowsKeep DEF Used, StepFacts
<1>3. opens' = opens + 1 => opens' \in Composers
  BY <1>1 DEF TypeOK, Composers
<1>4. ASSUME form # Closed
      PROVE  form.nr = opens' /\ opens' \in Composers /\ form.of \in 1..texts'
  BY <1>1, <1>4, OpenFields, OpensStep
<1>5. form.draft \in Drafts \cup {None} /\ Used(form.draft)
  BY TypeSets DEF FormSet, NameInv, FormAt
<1>6. CASE form' = Closed
  BY <1>6, ClosedFields DEF FormAt, Open, Used
<1>7. CASE FormNew
  BY <1>1, <1>3, <1>7 DEF FormNew, FormAt, Open, Used
<1>8. CASE FormCleared
  BY <1>1, <1>4, <1>8 DEF FormCleared, FormAt, Open, Used
<1>9. CASE FormKept
  <2>1. form'.draft # None => rows'[form'.draft].state # "unused"
    BY <1>2, <1>5, <1>9 DEF FormKept
  <2>2. form' # Closed => form'.nr = opens' /\ opens' \in Composers /\ form'.of \in 1..texts'
    BY <1>4, <1>9 DEF FormKept
  <2> QED
    BY <2>1, <2>2 DEF FormAt, Open, Used
<1>10. ASSUME NEW d \in Drafts, FormOpened(d) PROVE FormAt'
  <2>1. rows[d].of \in 1..texts
    BY <1>10, UsedRows DEF FormOpened, IsDraft
  <2>2. form'.of \in 1..texts' /\ form'.nr = opens' /\ opens' \in Composers
    BY <1>1, <1>3, <1>10, <2>1 DEF FormOpened
  <2>3. rows'[form'.draft].state # "unused"
    BY <1>10 DEF FormOpened, IsDraft
  <2> QED
    BY <2>2, <2>3 DEF FormAt, Open, Used
<1>11. ASSUME NEW d \in Drafts, FormForwarded(d) PROVE FormAt'
  <2>1. form'.of \in 1..texts' /\ form'.nr = opens' /\ opens' \in Composers
    BY <1>1, <1>3, <1>11 DEF FormForwarded
  <2>2. rows'[form'.draft].state # "unused"
    BY <1>11 DEF FormForwarded
  <2> QED
    BY <2>1, <2>2 DEF FormAt, Open, Used
<1>12. ASSUME NEW s \in saves, FormNamed(s) PROVE FormAt'
  <2>1. s.nr \in Composers /\ s.draft \in Drafts \cup {None} /\ Used(s.draft)
    BY TypeSets DEF SaveSet, NameInv, Writers, WriterAt
  <2>2. form # Closed
    BY <1>12, <2>1, ClosedFields, Bounds DEF FormNamed, Composers
  <2>3. form'.of \in 1..texts' /\ form'.nr = opens' /\ opens' \in Composers
    BY <1>4, <1>12, <2>2 DEF FormNamed
  <2>4. form'.draft # None => rows'[form'.draft].state # "unused"
    BY <1>2, <1>12, <2>1 DEF FormNamed
  <2> QED
    BY <2>3, <2>4 DEF FormAt, Open, Used
<1> QED
  BY <1>6, <1>7, <1>8, <1>9, <1>10, <1>11, <1>12 DEF StepFacts, FormStep

LEMMA NameStep ==
  ASSUME TypeOK, TypeOK', NameInv, StepFacts, [Next]_vars
  PROVE  NameInv'
<1>1. /\ 1..texts \subseteq 1..texts' /\ texts \in Nat /\ texts' \in Nat
      /\ faults \in Nat /\ faults' \in Nat /\ faults <= faults'
  BY Numbers
<1>2. over' \subseteq 1..texts'
  BY <1>1, OverNames DEF StepFacts, NameInv
<1>3. ASSUME NEW d \in Drafts PROVE RowAt(d)'
  <2>1. RowAt(d)
    BY DEF NameInv
  <2>2. rows[d].of \in 1..texts /\ rows[d].state # "unused" => rows[d].of \in 1..texts'
    BY <1>1
  <2>3. CASE rows'[d] = rows[d]
    BY <2>1, <2>2, <2>3 DEF RowAt
  <2>4. CASE RowMade(d)
    <3>1. CASE FirstSaved(d)
      <4>1. rows'[d].of \in 1..texts
        BY <3>1 DEF FirstSaved, NameInv, Writers, WriterAt
      <4> QED
        BY <1>1, <2>4, <4>1 DEF RowAt, RowMade
    <3>2. CASE (\E files \in SUBSET Files : Forward(d, files)) /\ rows'[d].of = texts + 1
      <4>1. texts' = texts + 1
        BY <3>2 DEF Forward
      <4> QED
        BY <1>1, <2>4, <3>2, <4>1 DEF RowAt, RowMade
    <3> QED
      BY <2>4, <3>1, <3>2 DEF RowMade
  <2>5. CASE RowWritten(d) \/ RowGone(d)
    BY <2>1, <2>2, <2>5 DEF RowAt, RowWritten, RowGone
  <2> QED
    BY <2>3, <2>4, <2>5 DEF StepFacts, RowsStep, RowStep
<1>4. ASSUME NEW d \in submitting' PROVE rows'[d].state # "unused" /\ faults' > 0
  <2>1. d \in submitting \/ (\E e \in Drafts : TakeDraft(e) /\ d = e)
    BY DEF Next, Compose, Receive, Serve, Disturb, OpenNew, OpenDraft, Forward, Close, Edit,
     SaveDue, Submit, ReceiveSave, ReceiveSend, Discard, ReceiveDelete, RemoveFile, CreateDraft,
     CheckDraft, UpdateDraft, DeleteDraft, ServeSend, TakeDraft, DropDraft, FailSave, FailDelete,
     FailSend, DiscardElsewhere, Mount, Fault, vars, server, browser, requests, history, bounds
  <2>2. CASE d \in submitting
    <3>1. d \in Drafts /\ rows[d].state # "unused" /\ faults > 0
      BY <2>2, TypeSets DEF NameInv
    <3> QED
      BY <1>1, <3>1, RowsKeep DEF StepFacts
  <2>3. CASE TakeDraft(d) /\ d \in Drafts
    <3>1. rows' = rows /\ rows[d].state = "draft" /\ faults' = faults + 1
      BY <2>3 DEF TakeDraft, IsDraft, Fault
    <3> QED
      BY <1>1, <3>1
  <2> QED
    BY <2>1, <2>2, <2>3
<1>5. ASSUME NEW n \in Composers, n > opens' PROVE gens'[n] = 0
  <2>1. opens \in Nat /\ opens' \in Nat /\ n \in Nat /\ opens <= opens'
    BY Numbers, Bounds
  <2>2. gens[n] = 0 /\ n # opens
    BY <1>5, <2>1 DEF NameInv
  <2>3. Discard => form.nr = opens
    BY OpenFields DEF Discard
  <2> QED
    BY <2>2, <2>3 DEF StepFacts, Grows
<1> QED
  BY <1>2, <1>3, <1>4, <1>5, WriterStep, SaveAtStep, DeleteAtStep, FormAtStep DEF NameInv

LEMMA OwnStep ==
  ASSUME TypeOK, NameInv, OwnInv, StepFacts
  PROVE  OwnInv'
<1>1. ASSUME NEW d \in Drafts \cup {None}, NEW of, Used(d),
             d # None => rows[d].of = of \/ of \in hasty
      PROVE  d # None => rows'[d].of = of \/ of \in hasty'
  BY <1>1, RowsKeep DEF Used, StepFacts, Grows
<1>2. form.draft \in Drafts \cup {None} /\ Used(form.draft) /\ Owns(form)
  BY TypeSets DEF FormSet, NameInv, FormAt, OwnInv
<1>3. \A q \in Writers : q.draft \in Drafts \cup {None} /\ Used(q.draft) /\ Owns(q)
  BY TypeSets DEF Writers, SaveSet, SendSet, NameInv, WriterAt, OwnInv
<1>4. ASSUME NEW r \in Writers' PROVE Owns(r)'
  <2>1. CASE form # Closed /\ r.nr = form.nr /\ r.of = form.of /\ r.draft = form.draft
    BY <1>1, <1>2, <2>1 DEF Owns
  <2>2. ASSUME NEW q \in Writers, r.of = q.of, r.draft = q.draft PROVE Owns(r)'
    BY <1>1, <1>3, <2>2 DEF Owns
  <2>3. CASE r.draft \in Drafts /\ rows'[r.draft].of = r.of
    BY <2>3 DEF Owns
  <2> QED
    BY <2>1, <2>2, <2>3, WritersKeep
<1>5. Owns(form)'
  <2>1. CASE form' = Closed \/ FormNew \/ FormCleared
    BY <2>1, ClosedFields DEF Owns, FormNew, FormCleared
  <2>2. CASE FormKept
    BY <1>1, <1>2, <2>2 DEF Owns, FormKept
  <2>3. ASSUME NEW d \in Drafts, FormOpened(d) \/ FormForwarded(d) PROVE Owns(form)'
    BY <2>3 DEF Owns, FormOpened, FormForwarded
  <2>4. ASSUME NEW s \in saves, FormNamed(s) PROVE Owns(form)'
    <3>1. form'.draft = s.draft /\ form'.of = form.of /\ (s.of # form.of => form.of \in hasty')
      BY <2>4 DEF FormNamed
    <3>2. s.draft \in Drafts \cup {None} /\ Used(s.draft) /\ Owns(s)
      BY <1>3 DEF Writers
    <3>3. s.draft # None => rows'[s.draft].of = s.of \/ s.of \in hasty'
      BY <1>1, <3>2 DEF Owns
    <3> QED
      BY <3>1, <3>3 DEF Owns
  <2> QED
    BY <2>1, <2>2, <2>3, <2>4 DEF StepFacts, FormStep
<1> QED
  BY <1>4, <1>5 DEF OwnInv

LEMMA MeetStep ==
  ASSUME TypeOK, NameInv, MeetInv, StepFacts
  PROVE  MeetInv'
<1> SUFFICES ASSUME NEW s \in saves', NEW r \in sends', s.of = r.of
             PROVE  s.of \in hasty'
  BY DEF MeetInv
<1>1. hasty \subseteq hasty'
  BY DEF StepFacts, Grows
<1>2. \/ SaveMade(s) \/ \E q \in saves : q.of = s.of
  BY DEF StepFacts, SavesStep, SaveMoves
<1>3. (Submit /\ r.of = form.of) \/ \E q \in sends : q.of = r.of
  BY DEF StepFacts, SendsStep, SendMade, SendMoves
<1>4. CASE SaveMade(s) /\ \E q \in sends : q.of = r.of
  BY <1>4 DEF SaveMade, SaveDue, Sending
<1>5. CASE Submit /\ r.of = form.of /\ \E q \in saves : q.of = s.of
  BY <1>5 DEF Submit
<1>6. CASE (\E q \in saves : q.of = s.of) /\ \E q \in sends : q.of = r.of
  BY <1>1, <1>6 DEF MeetInv
<1>7. CASE SaveMade(s) /\ Submit /\ r.of = form.of
  <2>1. /\ form.timer /\ form' = [form EXCEPT !.sending = TRUE]
        /\ form' = [form EXCEPT !.timer = FALSE, !.unsure = @ \/ Saving(form.draft)]
    BY <1>7 DEF SaveMade, SaveDue, Submit
  <2>2. form \in FormSet
    BY TypeSets
  <2>3. form'.timer = TRUE /\ form'.timer = FALSE
    BY <2>1, <2>2 DEF FormSet
  <2> QED
    BY <2>3
<1> QED
  BY <1>2, <1>3, <1>4, <1>5, <1>6, <1>7

LEMMA SendingStep ==
  ASSUME TypeOK, TypeOK', NameInv, SendingInv, StepFacts
  PROVE  SendingInv'
<1> DEFINE Alone(r, set) == \A q \in set : q.nr = r.nr => q = r
<1>1. SUFFICES ASSUME NEW r \in sends', r.nr = form'.nr
               PROVE  form'.sending /\ Alone(r, sends')
  BY DEF SendingInv
<1>2. \A q \in sends : q.nr \in 1..opens /\ q.nr # opens + 1
  <2>1. \A q \in sends : q.nr \in 1..opens
    BY DEF NameInv, Writers, WriterAt
  <2>2. opens \in Nat
    BY TypeSets, Bounds
  <2> QED
    BY <2>1, <2>2
<1>3. r.nr # 0
  BY DEF TypeOK, Composers
<1>4. \A q \in sends : q.nr = form.nr => form.sending /\ Alone(q, sends)
  BY DEF SendingInv
<1>5. \/ \E o \in sends : r.nr = o.nr
      \/ form # Closed /\ r.nr = form.nr
  BY DEF StepFacts, SendsStep, SendMade, SendMoves
\* The answer of the composer's own send leaves none.
<1>6. ASSUME NEW s \in sends, ReceiveSend(s), s.nr = form.nr PROVE r.nr # form.nr
  <2>1. r \in sends /\ r # s
    BY <1>6 DEF ReceiveSend
  <2> QED
    BY <1>4, <1>6, <2>1
<1>7. CASE form' = Closed
  BY <1>1, <1>3, <1>7, ClosedFields
<1>8. CASE FormNew \/ \E d \in Drafts : FormOpened(d) \/ FormForwarded(d)
  BY <1>1, <1>2, <1>5, <1>8 DEF FormNew, FormOpened, FormForwarded
<1>9. CASE FormCleared
  BY <1>1, <1>6, <1>9 DEF FormCleared
<1>10. ASSUME NEW s \in saves, FormNamed(s) PROVE form'.sending /\ Alone(r, sends')
  <2>1. sends' = sends
    BY <1>10 DEF FormNamed, ReceiveSave
  <2>2. form'.sending = form.sending /\ r.nr = form.nr
    BY <1>1, <1>10 DEF FormNamed
  <2> QED
    BY <1>4, <2>1, <2>2
<1>11. CASE FormKept
  <2>1. r.nr = form.nr /\ (form.sending => form'.sending)
    BY <1>1, <1>6, <1>11 DEF FormKept
  <2>2. CASE sends' \subseteq sends
    BY <1>4, <2>1, <2>2
  <2>3. ASSUME Submit, NEW t \in sends', SendMade(t), sends' = sends \cup {t}
        PROVE  form'.sending /\ Alone(r, sends')
    <3>1. form' = [form EXCEPT !.sending = TRUE] /\ form \in FormSet
      BY <2>3, TypeSets DEF Submit
    <3>2. form'.sending
      BY <3>1 DEF FormSet
    <3>3. \A q \in sends : q.nr # form.nr
      BY <1>4, <2>3 DEF SendMade
    <3> QED
      BY <2>1, <2>3, <3>2, <3>3
  <2>4. ASSUME NEW s \in sends, NEW t \in sends', SendMoves(s, t), sends' = (sends \ {s}) \cup {t}
        PROVE  form'.sending /\ Alone(r, sends')
    <3>1. t.nr = s.nr
      BY <2>4 DEF SendMoves
    <3>2. CASE s.nr = form.nr
      <4>1. form.sending /\ \A q \in sends : q.nr = form.nr => q = s
        BY <1>4, <3>2
      <4> QED
        BY <2>1, <2>4, <3>1, <4>1
    <3>3. CASE s.nr # form.nr
      <4>1. r \in sends /\ r # t
        BY <2>1, <2>4, <3>1, <3>3
      <4>2. form.sending /\ Alone(r, sends)
        BY <1>4, <2>1, <4>1
      <4> QED
        BY <2>1, <2>4, <3>1, <3>3, <4>2
    <3> QED
      BY <3>2, <3>3
  <2> QED
    BY <2>2, <2>3, <2>4 DEF StepFacts, SendsStep
<1> QED
  BY <1>7, <1>8, <1>9, <1>10, <1>11 DEF StepFacts, FormStep

\* What is about to delete a draft goes on doing so, unless it fails.
LEMMA DoomedStays ==
  ASSUME TypeOK, TypeOK', NameInv, StepFacts, NEW d \in Drafts,
         Doomed(d), rows'[d].state = "draft", d \notin spared'
  PROVE  Doomed(d)'
<1>1. ASSUME NEW x \in deletes, x.draft = d, x.stage = "out" PROVE Doomed(d)'
  BY <1>1 DEF StepFacts, DeletesStep, Doomed
<1>2. ASSUME NEW s \in saves, s.draft = d, s.stage = "answered", s.ok, Outdated(s)
      PROVE  Doomed(d)'
  <2>1. s.gen # gens'[s.nr]
    <3>1. /\ s.nr \in Composers /\ s.gen \in Nat /\ s.gen <= gens[s.nr] /\ s.gen # gens[s.nr]
      BY <1>2, TypeSets, Bounds DEF SaveSet, NameInv, SaveAt, Outdated
    <3>2. gens[s.nr] \in Nat /\ gens'[s.nr] \in Nat
      BY <3>1, Bounds DEF TypeOK
    <3>3. gens[s.nr] <= gens'[s.nr]
      BY <3>1 DEF StepFacts, Grows
    <3> QED
      BY <3>1, <3>2, <3>3
  <2>2. CASE s \in saves'
    BY <1>2, <2>1, <2>2 DEF Doomed, Outdated
  <2>3. CASE ReceiveSave(s)
    <3> DEFINE y == [draft |-> s.draft, nr |-> 0, stage |-> "out", ok |-> FALSE]
    <3>1. y \in deletes'
      BY <1>2, <2>3 DEF ReceiveSave
    <3>2. y.draft = d /\ y.stage = "out"
      BY <1>2
    <3> HIDE DEF y
    <3> QED
      BY <3>1, <3>2 DEF Doomed
  <2>4. ~\E t \in saves' : SaveMoves(s, t)
    BY <1>2, Bounds DEF SaveMoves
  <2> QED
    BY <2>2, <2>3, <2>4 DEF StepFacts, SavesStep
<1> QED
  BY <1>1, <1>2 DEF Doomed

LEMMA RowsHeld ==
  ASSUME TypeOK, NameInv, StepFacts
  PROVE  \A d \in Drafts : rows[d].of # 0 => rows'[d].of = rows[d].of
<1> SUFFICES ASSUME NEW d \in Drafts, rows[d].of # 0 PROVE rows'[d].of = rows[d].of
  OBVIOUS
<1>1. rows[d].state # "unused"
  BY RowFacts DEF NameInv, RowAt
<1> QED
  BY <1>1, RowsKeep DEF StepFacts

LEMMA LooseWas ==
  ASSUME TypeOK, NameInv, StepFacts, NEW d \in Drafts, Loose(d)'
  PROVE  /\ rows'[d].state = "draft" /\ d \notin spared' /\ rows'[d].of \notin hasty'
         /\ \A e \in Drafts : e # d => rows'[e].of # rows'[d].of
         /\ (Loose(d) /\ rows'[d].of = rows[d].of /\ rows[d].of \in 1..texts) \/ RowMade(d)
<1>1. /\ rows'[d].state = "draft" /\ d \notin spared' /\ rows'[d].of \notin hasty'
      /\ \A e \in Drafts : e # d => rows'[e].of # rows'[d].of
  BY DEF Loose, IsDraft, Split
<1>2. CASE rows[d].state = "draft"
  <2>1. rows'[d].of = rows[d].of /\ rows[d].of \in 1..texts
    BY <1>2, RowsKeep, UsedRows DEF StepFacts
  <2>2. rows[d].of # 0
    BY <2>1, TypeSets, Bounds
  <2>3. \A e \in Drafts : e # d => rows[e].of # rows[d].of
    BY <1>1, <2>1, <2>2, RowsHeld
  <2>4. ~Split(rows[d].of)
    <3>1. ASSUME NEW e \in Drafts, NEW f \in Drafts, e # f,
                 rows[e].of = rows[d].of, rows[f].of = rows[d].of
          PROVE  FALSE
      BY <2>3, <3>1
    <3> QED
      BY <3>1 DEF Split
  <2>5. d # None /\ spared \subseteq spared' /\ hasty \subseteq hasty'
    BY Bounds DEF StepFacts, Grows
  <2>6. Loose(d)
    BY <1>1, <1>2, <2>1, <2>4, <2>5 DEF Loose, IsDraft
  <2> QED
    BY <1>1, <2>1, <2>6
<1> QED
  BY <1>1, <1>2, RowsKeep DEF StepFacts

\* An unnamed composer of the next state was unnamed with the same message, or is new to it.
LEMMA UnnamedWas ==
  ASSUME TypeOK, TypeOK', NameInv, StepFacts, form' # Closed, form'.draft = None, NameInv'
  PROVE  \/ /\ form # Closed /\ form.draft = None
            /\ form'.nr = form.nr /\ form'.of = form.of /\ FormKept
         \/ form'.of = texts + 1 /\ (FormNew \/ FormCleared)
<1>1. \A d \in Drafts : d # None
  BY Bounds
<1>2. CASE FormKept
  BY <1>2 DEF FormKept
<1>3. CASE FormNew \/ FormCleared
  BY <1>3 DEF FormNew, FormCleared
<1>4. ASSUME NEW d \in Drafts, FormOpened(d) \/ FormForwarded(d) PROVE FALSE
  BY <1>1, <1>4 DEF FormOpened, FormForwarded
<1>5. ASSUME NEW s \in saves, FormNamed(s) PROVE FALSE
  BY <1>5 DEF FormNamed, NameInv, SaveAt, ReceiveSave
<1> QED
  BY <1>2, <1>3, <1>4, <1>5 DEF StepFacts, FormStep

LEMMA NewlyNumbered ==
  ASSUME TypeOK, TypeOK', NameInv, StepFacts, texts' = texts + 1, OverStep
  PROVE  /\ \A r \in Writers : r.of # texts + 1
         /\ \A d \in Drafts : rows[d].of # texts + 1
         /\ texts + 1 \notin over'
<1>1. texts \in Nat /\ texts + 1 \notin 1..texts /\ texts + 1 # 0
  BY Numbers
<1>2. \A r \in Writers : r.of # texts + 1
  BY <1>1 DEF NameInv, WriterAt
<1>3. \A d \in Drafts : rows[d].of # texts + 1
  BY <1>1, RowFacts DEF NameInv, RowAt
<1>4. texts + 1 \notin over'
  BY <1>1, OverNames DEF NameInv
<1> QED
  BY <1>2, <1>3, <1>4

LEMMA HeardOf ==
  ASSUME TypeOK, NameInv, NEW s \in saves, ReceiveSave(s), s.ok, ~Outdated(s), s.nr = form.nr
  PROVE  form'.draft = s.draft
<1> DEFINE u == form.unsure \/ s.of # form.of
           f == [form EXCEPT !.unsure = u]
           g == [f EXCEPT !.draft = s.draft]
<1>1. form \in FormSet /\ s.draft \in Drafts \cup {None} /\ u \in BOOLEAN
  BY TypeSets DEF FormSet, SaveSet
<1>2. form' = IF f.draft = s.draft THEN f ELSE Rearm(g)
  BY DEF ReceiveSave, Named
<1> HIDE DEF u
<1>3. f \in FormSet
  BY <1>1 DEF FormSet
<1> HIDE DEF f
<1>4. g \in FormSet /\ g.draft = s.draft
  BY <1>1, <1>3 DEF FormSet
<1> HIDE DEF g
<1> QED
  BY <1>2, <1>4, Rearmed

LEMMA ClearedForm ==
  ASSUME TypeOK, NEW s \in sends, ReceiveSend(s), s.ok, s.nr = form.nr
  PROVE  form'.of = texts + 1 /\ form'.draft = None
<1>1. form' = Cleared /\ form \in FormSet
  BY TypeSets DEF ReceiveSend
<1> QED
  BY <1>1 DEF Cleared, FormSet

LEMMA UnnamedStep ==
  ASSUME TypeOK, TypeOK', NameInv, NameInv', UnnamedInv, StepFacts
  PROVE  UnnamedInv'
<1> DEFINE Row1 == \A r \in Writers' : r.of = form'.of => r.nr = form'.nr
           Row2 == form'.of \in over' => \E d \in Drafts : rows'[d].of = form'.of
           Row3 == \A d \in Drafts : Loose(d)' /\ rows'[d].of = form'.of
                                       => Awaited(d)' \/ Doomed(d)'
<1> SUFFICES ASSUME form' # Closed, form'.draft = None
             PROVE  Row1 /\ Row2 /\ Row3
  BY DEF UnnamedInv, Open, HasRow
<1>1. texts \in Nat /\ texts + 1 \notin 1..texts /\ texts + 1 # 0
  BY Numbers
<1>2. OverStep /\ FormStep
  BY DEF StepFacts
<1>3. \A d \in Drafts : RowMade(d) => FirstSaved(d)
  BY ForwardForm DEF RowMade
<1>4. CASE form'.of = texts + 1 /\ (FormNew \/ FormCleared)
  <2>1. texts' = texts + 1
    BY <1>4 DEF FormNew, FormCleared
  <2>2. /\ \A r \in Writers : r.of # texts + 1
        /\ \A d \in Drafts : rows[d].of # texts + 1
        /\ texts + 1 \notin over'
    BY <1>2, <2>1, NewlyNumbered
  <2>3. form # Closed => form.of # texts + 1
    BY <1>1, OpenFields
  <2>4. Row1
    BY <1>4, <2>2, <2>3, WritersKeep
  <2>5. Row2
    BY <1>4, <2>2
  <2>6. ASSUME NEW d \in Drafts, Loose(d)', rows'[d].of = form'.of PROVE FALSE
    <3>1. (rows'[d].of = rows[d].of) \/ FirstSaved(d)
      BY <1>3, <2>6, LooseWas
    <3>2. ~FirstSaved(d)
      BY <1>4, <2>2, <2>6 DEF FirstSaved, Writers
    <3> QED
      BY <1>4, <2>2, <2>6, <3>1, <3>2
  <2> QED
    BY <2>4, <2>5, <2>6
<1>5. CASE form # Closed /\ form.draft = None /\ form'.nr = form.nr /\ form'.of = form.of
  <2>1. /\ \A r \in Writers : r.of = form.of => r.nr = form.nr
        /\ form.of \in over => HasRow(form.of)
        /\ \A d \in Drafts : Loose(d) /\ rows[d].of = form.of => Awaited(d) \/ Doomed(d)
    BY <1>5 DEF UnnamedInv, Open
  <2>2. form.of \in 1..texts /\ form.of # 0 /\ form.of # texts + 1
    BY <1>1, <1>5, OpenFields
  <2>3. Row1
    BY <1>5, <2>1, WritersKeep
  <2>4. Row2
    <3> SUFFICES ASSUME form.of \in over'
                 PROVE  \E d \in Drafts : rows'[d].of = form.of
      BY <1>5
    <3>1. ASSUME NEW d \in Drafts, rows[d].of = form.of
          PROVE  \E e \in Drafts : rows'[e].of = form.of
      BY <2>2, <3>1, RowsHeld
    <3>2. CASE form.of \in over
      BY <2>1, <3>1, <3>2 DEF HasRow
    <3>3. ASSUME NEW s \in sends, ReceiveSend(s), s.ok, form.of = s.of PROVE FALSE
      BY <1>5, <2>1, <2>2, <3>3, ClearedForm DEF Writers
    <3>4. ~(Discard /\ form.draft = None)
      BY DEF Discard
    <3>5. ASSUME NEW x \in deletes, form.of = rows[x.draft].of
          PROVE  \E e \in Drafts : rows'[e].of = form.of
      BY <3>1, <3>5, TypeSets DEF DeleteSet
    <3>6. ASSUME NEW d \in submitting, form.of = rows[d].of
          PROVE  \E e \in Drafts : rows'[e].of = form.of
      BY <3>1, <3>6, TypeSets
    <3> QED
      BY <1>2, <3>2, <3>3, <3>4, <3>5, <3>6 DEF OverStep
  <2>5. ASSUME NEW d \in Drafts, Loose(d)', rows'[d].of = form'.of PROVE Awaited(d)' \/ Doomed(d)'
    <3>1. rows'[d].state = "draft" /\ d \notin spared'
      BY <2>5, LooseWas
    <3>2. CASE FirstSaved(d)
      BY <1>5, <2>1, <2>5, <3>2 DEF FirstSaved, Awaited, Writers
    <3>3. CASE Doomed(d)
      BY <3>1, <3>3, DoomedStays
    <3>4. CASE Awaited(d) /\ ~Doomed(d)
      <4>1. PICK s \in saves : /\ s.draft = d /\ s.stage = "answered" /\ s.ok
                               /\ s.nr = form.nr /\ s.of = form.of
        BY <3>4 DEF Awaited
      <4>2. ~Outdated(s)
        BY <3>4, <4>1 DEF Doomed
      <4>3. ~ReceiveSave(s)
        BY <4>1, <4>2, HeardOf, Bounds
      <4>4. ~\E t \in saves' : SaveMoves(s, t)
        BY <3>1, <4>1, Bounds DEF SaveMoves
      <4>5. s \in saves'
        BY <4>3, <4>4 DEF StepFacts, SavesStep
      <4> QED
        BY <1>5, <4>1, <4>5 DEF Awaited
    <3>5. CASE Loose(d) /\ rows'[d].of = rows[d].of
      BY <1>5, <2>1, <2>5, <3>3, <3>4, <3>5
    <3> QED
      BY <1>3, <2>5, <3>2, <3>5, LooseWas
  <2> QED
    BY <2>3, <2>4, <2>5
<1> QED
  BY <1>4, <1>5, UnnamedWas

LEMMA SendStep ==
  ASSUME TypeOK, TypeOK', NameInv, MeetInv, UnnamedInv, SendInv, StepFacts
  PROVE  SendInv'
<1> SUFFICES ASSUME NEW s \in sends', s.draft = None,
                    NEW d \in Drafts, Loose(d)', rows'[d].of = s.of
             PROVE  Doomed(d)'
  BY DEF SendInv
<1>1. /\ rows'[d].state = "draft" /\ d \notin spared' /\ rows'[d].of \notin hasty'
      /\ (Loose(d) /\ rows'[d].of = rows[d].of) \/ RowMade(d)
  BY LooseWas
<1>2. CASE Doomed(d)
  BY <1>1, <1>2, DoomedStays
<1>3. texts \in Nat /\ texts + 1 \notin 1..texts /\ hasty \subseteq hasty'
  BY Numbers DEF StepFacts, Grows
<1>4. ASSUME NEW q \in sends, q.of = s.of, q.draft = None PROVE Doomed(d)'
  <2>1. CASE Loose(d) /\ rows'[d].of = rows[d].of
    BY <1>2, <1>4, <2>1 DEF SendInv
  <2>2. CASE FirstSaved(d)
    BY <1>1, <1>3, <1>4, <2>2 DEF FirstSaved, MeetInv
  <2>3. rows'[d].of # texts + 1
    BY <1>3, <1>4 DEF NameInv, Writers, WriterAt
  <2> QED
    BY <1>1, <2>1, <2>2, <2>3 DEF RowMade
<1>5. CASE Submit /\ SendMade(s)
  <2>1. rows' = rows /\ Loose(d)
    BY <1>1, <1>5 DEF Submit, server, RowMade
  <2>2. form # Closed /\ form.draft = None /\ rows[d].of = form.of
    BY <1>5, <2>1 DEF SendMade
  <2>3. Awaited(d) \/ Doomed(d)
    BY <2>1, <2>2 DEF UnnamedInv, Open
  <2>4. ~Awaited(d)
    BY <1>1, <1>5, <2>1, <2>2 DEF Awaited, Submit
  <2> QED
    BY <1>2, <2>3, <2>4
<1> QED
  BY <1>4, <1>5 DEF StepFacts, SendsStep, SendMoves

LEMMA OverKept ==
  ASSUME TypeOK, TypeOK', NameInv, OwnInv, MeetInv, UnnamedInv, SendInv, OverInv, StepFacts,
         NEW d \in Drafts, Loose(d)', rows'[d].of \in over'
  PROVE  Doomed(d)'
<1>1. /\ rows'[d].state = "draft" /\ d \notin spared' /\ rows'[d].of \notin hasty'
      /\ \A e \in Drafts : e # d => rows'[e].of # rows'[d].of
      /\ (Loose(d) /\ rows'[d].of = rows[d].of /\ rows[d].of \in 1..texts) \/ RowMade(d)
  BY LooseWas
<1>2. CASE Doomed(d)
  BY <1>1, <1>2, DoomedStays
<1>3. /\ texts \in Nat /\ texts + 1 \notin 1..texts /\ 0 \notin 1..texts
      /\ hasty \subseteq hasty'
  BY Numbers DEF StepFacts, Grows
<1>4. \A e \in Drafts : rows[e].of # 0 => rows'[e].of = rows[e].of
  BY RowsHeld
\* An old draft, of a message that is over in this step.
<1>5. CASE Loose(d) /\ rows'[d].of = rows[d].of /\ rows[d].of \in 1..texts
  <2>1. CASE rows[d].of \in over
    BY <1>2, <1>5, <2>1 DEF OverInv
  <2>2. ASSUME NEW s \in sends, ReceiveSend(s), s.ok, rows[d].of = s.of PROVE Doomed(d)'
    <3>1. CASE s.draft = None
      BY <1>2, <1>5, <2>2, <3>1 DEF SendInv
    <3>2. CASE s.draft # None
      <4>1. rows[s.draft].of = s.of /\ s.draft \in Drafts
        BY <1>1, <1>3, <1>5, <2>2, <3>2, TypeSets DEF OwnInv, Owns, Writers, SendSet
      <4>2. s.draft = d
        BY <1>1, <1>3, <1>4, <1>5, <2>2, <4>1
      <4> DEFINE y == [draft |-> s.draft, nr |-> 0, stage |-> "out", ok |-> FALSE]
      <4>3. y \in deletes' /\ y.draft = d /\ y.stage = "out"
        BY <2>2, <3>2, <4>2 DEF ReceiveSend
      <4> HIDE DEF y
      <4> QED
        BY <4>3 DEF Doomed
    <3> QED
      BY <3>1, <3>2
  <2>3. ASSUME Discard, form.draft = None, rows[d].of = form.of PROVE Doomed(d)'
    <3>1. Awaited(d) \/ Doomed(d)
      BY <1>5, <2>3 DEF UnnamedInv, Open, Discard
    <3>2. ASSUME NEW s \in saves, s.draft = d, s.stage = "answered", s.ok, s.nr = form.nr
          PROVE  Doomed(d)'
      <4>1. s.nr \in Composers /\ s.gen \in Nat /\ s.gen <= gens[s.nr] /\ gens[s.nr] \in Nat
        BY TypeSets, Bounds DEF SaveSet, NameInv, SaveAt
      <4>2. gens'[s.nr] = gens[s.nr] + 1
        BY <2>3, <3>2, <4>1, TypeSets DEF Discard
      <4>3. s.gen # gens'[s.nr]
        BY <4>1, <4>2
      <4>4. saves' = saves
        BY <2>3 DEF Discard
      <4> QED
        BY <3>2, <4>3, <4>4 DEF Doomed, Outdated
    <3> QED
      BY <1>2, <3>1, <3>2 DEF Awaited
  <2>4. ASSUME NEW x \in deletes, ReceiveDelete(x), x.ok, rows[d].of = rows[x.draft].of
        PROVE  FALSE
    <3>1. x.draft \in Drafts /\ rows[x.draft].state = "gone"
      BY <2>4, TypeSets DEF DeleteSet, NameInv, DeleteAt, ReceiveDelete
    <3>2. x.draft # d
      BY <1>5, <3>1 DEF Loose, IsDraft
    <3> QED
      BY <1>1, <1>3, <1>4, <1>5, <2>4, <3>1, <3>2
  <2>5. ASSUME NEW e \in submitting, DropDraft(e), rows[d].of = rows[e].of PROVE FALSE
    <3>1. e \in Drafts /\ rows' = [rows EXCEPT ![e] = Gone(rows[e])]
      BY <2>5, TypeSets DEF DropDraft
    <3>2. rows'[e].state = "gone"
      BY <3>1, RowFacts, TypeSets
    <3> QED
      BY <1>1, <1>3, <1>4, <1>5, <2>5, <3>1, <3>2
  <2> QED
    BY <1>5, <2>1, <2>2, <2>3, <2>4, <2>5 DEF StepFacts, OverStep
\* A draft made in this step, of a message that was over.
<1>6. CASE RowMade(d)
  <2>1. CASE FirstSaved(d)
    <3>1. PICK s \in saves :
            /\ s.stage = "out" /\ s.draft = None /\ rows'[d].of = s.of
            /\ \E t \in saves' : /\ t.nr = s.nr /\ t.of = s.of /\ t.gen = s.gen /\ t.draft = d
                                 /\ t.stage = "answered" /\ t.ok
      BY <2>1 DEF FirstSaved
    <3>2. PICK t \in saves' : /\ t.nr = s.nr /\ t.of = s.of /\ t.gen = s.gen /\ t.draft = d
                              /\ t.stage = "answered" /\ t.ok
      BY <3>1
    <3>3. saves' # saves
      <4>1. \A q \in saves : Used(q.draft)
        BY DEF NameInv, Writers, WriterAt
      <4>2. ~Used(d)
        BY <1>6, Bounds DEF Used, RowMade
      <4> QED
        BY <3>2, <4>1, <4>2
    <3>4. over' \subseteq over /\ ~Discard
      BY <3>3 DEF StepFacts, OverStep, ReceiveSend, Discard, ReceiveDelete, DropDraft, requests
    <3>5. Outdated(s) \/ s.of \in hasty \/ HasRow(s.of)
      BY <3>1, <3>4 DEF OverInv
    <3>6. s.of \in 1..texts /\ s.nr \in Composers
      BY TypeSets DEF NameInv, Writers, WriterAt, SaveSet
    <3>7. CASE Outdated(s)
      <4>1. gens'[s.nr] = gens[s.nr]
        BY <3>4, <3>6 DEF StepFacts, Grows
      <4> QED
        BY <3>2, <3>7, <4>1 DEF Outdated, Doomed
    <3>8. ASSUME NEW e \in Drafts, rows[e].of = s.of PROVE FALSE
      <4>1. rows[d].of = 0
        BY <1>6, RowFacts DEF NameInv, RowAt, RowMade
      <4> QED
        BY <1>1, <1>3, <1>4, <3>1, <3>6, <3>8, <4>1
    <3> QED
      BY <1>1, <1>3, <3>1, <3>5, <3>7, <3>8 DEF HasRow
  <2>2. CASE (\E files \in SUBSET Files : Forward(d, files)) /\ rows'[d].of = texts + 1
    <3>1. over' = over
      BY <2>2 DEF Forward, Mount, history
    <3> QED
      BY <1>3, <2>2, <3>1 DEF NameInv
  <2> QED
    BY <1>6, <2>1, <2>2 DEF RowMade
<1> QED
  BY <1>1, <1>5, <1>6

LEMMA OverStays ==
  ASSUME TypeOK, TypeOK', NameInv, OwnInv, MeetInv, UnnamedInv, SendInv, OverInv, StepFacts
  PROVE  OverInv'
<1>1. \A d \in Drafts : Loose(d)' /\ rows'[d].of \in over' => Doomed(d)'
  BY OverKept
<1>2. ASSUME NEW s \in saves', s.draft = None, s.of \in over'
      PROVE  \/ s.gen # gens'[s.nr] \/ s.of \in hasty'
             \/ \E d \in Drafts : rows'[d].of = s.of
  <2> DEFINE Goal == \/ s.gen # gens'[s.nr] \/ s.of \in hasty'
                     \/ \E d \in Drafts : rows'[d].of = s.of
  <2>1. \A d \in Drafts : rows[d].of # 0 => rows'[d].of = rows[d].of
    BY RowsHeld
  <2>2. ASSUME NEW d \in Drafts, rows[d].of = s.of, s.of # 0 PROVE Goal
    BY <2>1, <2>2
  <2>3. hasty \subseteq hasty' /\ 0 \notin 1..texts
    BY Numbers DEF StepFacts, Grows
  \* It was there, of the same message and generation, or the composer sends it now.
  <2>4. ASSUME NEW q \in saves, q.nr = s.nr, q.of = s.of, q.gen = s.gen, q.draft = None PROVE Goal
    <3>1. /\ q.of \in 1..texts /\ q.nr \in Composers /\ q.gen \in Nat
          /\ q.gen <= gens[q.nr] /\ gens[q.nr] \in Nat /\ gens'[q.nr] \in Nat
          /\ gens[q.nr] <= gens'[q.nr]
      <4>1. q.of \in 1..texts /\ q.nr \in Composers /\ q.gen \in Nat /\ q.gen <= gens[q.nr]
        BY TypeSets, Bounds DEF NameInv, Writers, WriterAt, SaveAt, SaveSet
      <4> QED
        BY <4>1, Bounds DEF TypeOK, StepFacts, Grows
    <3>2. CASE s.of \in over
      <4>1. Outdated(q) \/ q.of \in hasty \/ HasRow(q.of)
        BY <2>4, <3>2 DEF OverInv
      <4>2. CASE Outdated(q)
        BY <2>4, <3>1, <4>2 DEF Outdated
      <4>3. CASE q.of \in hasty
        BY <2>3, <2>4, <4>3
      <4>4. CASE HasRow(q.of)
        BY <2>2, <2>3, <2>4, <3>1, <4>4 DEF HasRow
      <4> QED
        BY <4>1, <4>2, <4>3, <4>4
    <3>3. ASSUME NEW r \in sends, s.of = r.of PROVE Goal
      BY <2>3, <2>4, <3>3 DEF MeetInv
    <3>4. ASSUME Discard, form.draft = None, s.of = form.of PROVE Goal
      <4>1. q.nr = form.nr
        BY <2>4, <3>4 DEF UnnamedInv, Open, Discard, Writers
      <4>2. gens'[q.nr] = gens[q.nr] + 1
        BY <3>1, <3>4, <4>1, TypeSets DEF Discard
      <4> QED
        BY <2>4, <3>1, <4>2
    <3>5. ASSUME NEW x \in deletes, s.of = rows[x.draft].of PROVE Goal
      BY <2>2, <2>3, <2>4, <3>1, <3>5, TypeSets DEF DeleteSet
    <3>6. ASSUME NEW d \in submitting, s.of = rows[d].of PROVE Goal
      BY <2>2, <2>3, <2>4, <3>1, <3>6, TypeSets
    <3> QED
      BY <1>2, <3>2, <3>3, <3>4, <3>5, <3>6 DEF StepFacts, OverStep
  <2>5. CASE SaveMade(s)
    <3>1. form # Closed /\ form.draft = None /\ s.of = form.of /\ SaveDue
      BY <1>2, <2>5 DEF SaveMade
    <3>2. over' = over /\ s.of # 0
      BY <2>3, <3>1, OpenFields DEF SaveDue
    <3>3. HasRow(form.of)
      BY <1>2, <3>1, <3>2 DEF UnnamedInv, Open
    <3> QED
      BY <2>2, <3>1, <3>2, <3>3 DEF HasRow
  <2>6. ASSUME NEW q \in saves, SaveMoves(q, s)
        PROVE  q.nr = s.nr /\ q.of = s.of /\ q.gen = s.gen /\ q.draft = None
    BY <1>2, <2>6, Bounds DEF SaveMoves
  <2> QED
    BY <1>2, <2>4, <2>5, <2>6 DEF StepFacts, SavesStep
<1> QED
  BY <1>1, <1>2 DEF OverInv, Outdated, HasRow

LEMMA OneSaveIsNew ==
  ASSUME [Next]_vars
  PROVE  \E x : saves' \subseteq saves \cup {x}
<1>1. ASSUME NEW x, saves' \subseteq saves \cup {x} PROVE \E y : saves' \subseteq saves \cup {y}
  BY <1>1
<1>2. ASSUME NEW s \in saves, CreateDraft(s) PROVE \E x : saves' \subseteq saves \cup {x}
  <2>1. PICK d \in Drafts : saves' = Answered(saves \ {s}, [s EXCEPT !.draft = d], TRUE)
    BY <1>2 DEF CreateDraft
  <2> DEFINE u == [s EXCEPT !.draft = d]
             t == [u EXCEPT !.stage = "answered", !.ok = TRUE]
  <2>2. saves' \subseteq saves \cup {t}
    BY <2>1 DEF Answered
  <2> HIDE DEF t
  <2> QED
    BY <1>1, <2>2
<1>3. ASSUME NEW s \in saves, NEW ok \in BOOLEAN, saves' = Answered(saves, s, ok)
      PROVE  \E x : saves' \subseteq saves \cup {x}
  <2> DEFINE t == [s EXCEPT !.stage = "answered", !.ok = ok]
  <2>1. saves' \subseteq saves \cup {t}
    BY <1>3 DEF Answered
  <2> HIDE DEF t
  <2> QED
    BY <1>1, <2>1
<1>4. ASSUME NEW s \in saves, saves' = Moved(saves, s, "checked")
      PROVE  \E x : saves' \subseteq saves \cup {x}
  <2> DEFINE t == [s EXCEPT !.stage = "checked"]
  <2>1. saves' \subseteq saves \cup {t}
    BY <1>4 DEF Moved
  <2> HIDE DEF t
  <2> QED
    BY <1>1, <2>1
<1>5. ASSUME SaveDue PROVE \E x : saves' \subseteq saves \cup {x}
  BY <1>5 DEF SaveDue
<1>6. ASSUME NEW s \in saves, ReceiveSave(s) PROVE \E x : saves' \subseteq saves \cup {x}
  <2>1. saves' \subseteq saves \cup {s}
    BY <1>6 DEF ReceiveSave
  <2> QED
    BY <1>1, <2>1
<1>7. ASSUME saves' = saves PROVE \E x : saves' \subseteq saves \cup {x}
  <2>1. saves' \subseteq saves \cup {saves}
    BY <1>7
  <2> QED
    BY <1>1, <2>1
<1>8. ASSUME Next PROVE \/ SaveDue \/ saves' = saves
                        \/ \E s \in saves : CreateDraft(s) \/ ReceiveSave(s)
                        \/ \E s \in saves : \/ saves' = Moved(saves, s, "checked")
                                            \/ saves' = Answered(saves, s, FALSE)
                                            \/ saves' = Answered(saves, s, TRUE)
  BY <1>8 DEF Next, Compose, Receive, Serve, Disturb, OpenNew, OpenDraft, Forward, Close, Edit,
     Submit, ReceiveSend, Discard, ReceiveDelete, RemoveFile, DeleteDraft, ServeSend, TakeDraft,
     DropDraft, FailDelete, FailSend, DiscardElsewhere, CheckDraft, UpdateDraft, FailSave,
     server, browser, requests, history, bounds, Mount, Fault
<1> QED
  BY <1>2, <1>3, <1>4, <1>5, <1>6, <1>7, <1>8 DEF vars, requests

\* A draft that is made is named by nobody but the save that made it.
LEMMA NewAlone ==
  ASSUME TypeOK, NameInv, StepFacts, [Next]_vars, NEW d \in Drafts, rows[d].state = "unused",
         NEW r \in Writers', r.draft = d, NEW t \in Writers', t.draft = d
  PROVE  r = t
<1>1. \A q \in Writers : q.draft # d
  BY Bounds DEF NameInv, WriterAt, Used
<1>2. form.draft # d
  BY Bounds DEF NameInv, FormAt, Used
<1>3. \A q \in sends' : q.draft # d
  BY <1>1, <1>2 DEF StepFacts, SendsStep, SendMade, SendMoves, Writers
<1>4. r \in saves' /\ t \in saves' /\ r \notin saves /\ t \notin saves
  BY <1>1, <1>3 DEF Writers
<1> QED
  BY <1>4, OneSaveIsNew

LEMMA MineStep ==
  ASSUME TypeOK, TypeOK', NameInv, NameInv', MineInv, StepFacts, [Next]_vars
  PROVE  MineInv'
<1> DEFINE MineNext(d) == \/ d = form'.draft
                          \/ \E s \in saves' : s.nr = form'.nr /\ s.of = form'.of /\ s.draft = d
           Alone(d) == /\ \A r \in Writers' : r.draft = d => r.nr = form'.nr
                       /\ faults' = 0 => rows'[d].state = "draft" /\ \A x \in deletes' : x.draft # d
<1> SUFFICES ASSUME form' # Closed, ~form'.unsure, ~form'.discarding
             PROVE  gens'[form'.nr] = 0 /\ \A d \in Drafts : MineNext(d) => Alone(d)
  BY Bounds DEF MineInv, Sure, Open, Mine, IsDraft
<1>1. /\ \A d \in Drafts : d # None
      /\ texts \in Nat /\ opens \in Nat /\ texts + 1 \notin 1..texts
      /\ opens + 1 \notin 1..opens /\ opens + 1 > opens
  BY Bounds, Numbers
<1>2. \A q \in Writers : q.nr \in 1..opens /\ q.of \in 1..texts /\ Used(q.draft)
  BY DEF NameInv, WriterAt
<1>3. /\ \A n \in Composers : ~Discard => gens'[n] = gens[n]
      /\ form'.nr \in Composers
  BY DEF StepFacts, Grows, NameInv, FormAt, Open
\* A composer that opens has no save under way.
<1>4. ASSUME form = Closed, form'.nr = opens + 1, opens' = opens + 1
      PROVE  gens'[form'.nr] = 0 /\ \A r \in Writers' : r.nr # form'.nr
  <2>1. ~Discard
    BY <1>4 DEF Discard
  <2>2. gens[form'.nr] = 0
    BY <1>1, <1>3, <1>4 DEF NameInv
  <2>3. \A r \in Writers' : r.nr # form'.nr
    BY <1>1, <1>2, <1>4, WritersKeep
  <2> QED
    BY <1>3, <2>1, <2>2, <2>3
<1>5. CASE FormNew
  BY <1>1, <1>4, <1>5 DEF FormNew, Writers
<1>6. ASSUME NEW d \in Drafts, FormOpened(d)
      PROVE  gens'[form'.nr] = 0 /\ \A e \in Drafts : MineNext(e) => Alone(e)
  <2>1. gens'[form'.nr] = 0 /\ \A e \in Drafts : MineNext(e) => e = d
    BY <1>4, <1>6 DEF FormOpened, Writers
  <2>2. Settled(rows[d].of) /\ rows[d].state = "draft" /\ rows' = rows
    BY <1>6 DEF FormOpened, IsDraft
  <2>3. saves' = saves /\ sends' = sends /\ deletes' = deletes
    BY <1>6 DEF FormOpened, OpenDraft, Mount, requests
  <2>4. \A r \in Writers' : r.draft # d
    BY <1>1, <2>2, <2>3 DEF Settled, About, Writers
  <2>5. \A x \in deletes' : x.draft # d
    BY <1>1, <2>2, <2>3 DEF Settled, About
  <2> QED
    BY <2>1, <2>2, <2>4, <2>5
<1>7. ASSUME NEW d \in Drafts, FormForwarded(d)
      PROVE  gens'[form'.nr] = 0 /\ \A e \in Drafts : MineNext(e) => Alone(e)
  <2>1. gens'[form'.nr] = 0 /\ \A e \in Drafts : MineNext(e) => e = d
    BY <1>4, <1>7 DEF FormForwarded, Writers
  <2>2. rows[d].state = "unused" /\ rows'[d].state = "draft"
    BY <1>7 DEF FormForwarded
  <2>3. saves' = saves /\ sends' = sends /\ deletes' = deletes
    BY <1>7 DEF FormForwarded, Forward, Mount, requests
  <2>4. \A r \in Writers' : r.draft # d
    BY <1>1, <1>2, <2>2, <2>3 DEF Used, Writers
  <2>5. \A x \in deletes' : x.draft # d
    BY <1>1, <2>2, <2>3 DEF Used, NameInv, DeleteAt
  <2> QED
    BY <2>1, <2>2, <2>4, <2>5
<1>8. ASSUME ~form.unsure, ~form.discarding, form # Closed, form'.nr = form.nr, ~Discard
      PROVE  gens'[form'.nr] = 0
  BY <1>3, <1>8 DEF MineInv, Sure, Open
<1>9. CASE FormCleared
  <2>1. ~Discard
    BY <1>9 DEF FormCleared, Discard, ReceiveSend
  <2>2. \A r \in Writers' : r.of # form'.of
    BY <1>1, <1>2, <1>9, WritersKeep, OpenFields DEF FormCleared
  <2> QED
    BY <1>1, <1>8, <1>9, <2>1, <2>2 DEF FormCleared, Writers
<1>10. ASSUME NEW s \in saves, FormNamed(s)
       PROVE  gens'[form'.nr] = 0 /\ \A e \in Drafts : MineNext(e) => Alone(e)
  <2>1. s.nr = form.nr /\ s.of = form.of /\ ~form.unsure /\ ~form.discarding
    BY <1>10 DEF FormNamed
  <2>2. form # Closed
    BY <1>3, <1>10, ClosedFields, Bounds DEF FormNamed, Composers
  <2>3. /\ saves' = saves \ {s} /\ sends' = sends /\ deletes' = deletes /\ rows' = rows
        /\ ~Discard
    BY <1>10 DEF FormNamed, ReceiveSave, Discard, server
  <2>4. ASSUME NEW e \in Drafts, MineNext(e) PROVE Alone(e)
    <3>1. Mine(e)
      BY <1>10, <2>1, <2>3, <2>4 DEF FormNamed, Mine
    <3>2. /\ \A r \in Writers : r.draft = e => r.nr = form.nr
          /\ faults = 0 => IsDraft(e) /\ \A x \in deletes : x.draft # e
      BY <2>1, <2>2, <3>1 DEF MineInv, Sure, Open
    <3>3. faults' = faults
      BY <1>10 DEF FormNamed, ReceiveSave, bounds
    <3> QED
      BY <1>10, <2>3, <3>2, <3>3 DEF FormNamed, Writers, IsDraft
  <2> QED
    BY <1>8, <1>10, <2>1, <2>2, <2>3, <2>4 DEF FormNamed
<1>11. CASE FormKept
  <2>1. /\ form # Closed /\ ~form.unsure /\ ~form.discarding
        /\ form'.nr = form.nr /\ form'.of = form.of /\ form'.draft = form.draft
    BY <1>11 DEF FormKept
  <2>2. ~Discard
    <3>1. ASSUME Discard, form' = [form EXCEPT !.timer = FALSE, !.discarding = TRUE]
          PROVE  form'.discarding
      BY <3>1, TypeSets DEF FormSet
    <3> QED
      BY <3>1 DEF Discard
  <2>3. gens[form.nr] = 0 /\ form.of \in 1..texts /\ form.nr \in Composers
    BY <2>1, OpenFields DEF MineInv, Sure, Open
  <2>4. form.draft \in Drafts \cup {None} /\ Used(form.draft)
    BY TypeSets DEF NameInv, FormAt, FormSet
  \* A draft the composer had to itself stays its own.
  <2>5. ASSUME NEW d \in Drafts, Mine(d) PROVE Alone(d)
    <3>1. /\ \A r \in Writers : r.draft = d => r.nr = form.nr
          /\ faults = 0 => IsDraft(d) /\ \A x \in deletes : x.draft # d
      BY <2>1, <2>5 DEF MineInv, Sure, Open
    <3>2. rows[d].state # "unused"
      BY <1>1, <1>2, <2>4, <2>5 DEF Mine, Used, Writers
    <3>3. \A r \in Writers' : r.draft = d => r.nr = form.nr
      BY <3>1, <3>2, WritersKeep
    <3>4. ASSUME faults' = 0 PROVE rows'[d].state = "draft" /\ \A x \in deletes' : x.draft # d
      <4>1. IsDraft(d) /\ \A x \in deletes : x.draft # d
        BY <3>1, <3>4, Numbers
      <4>2. rows'[d].state = "draft"
        <5>1. d \notin submitting
          BY <3>4, Numbers DEF NameInv
        <5>2. ~RowGone(d)
          BY <4>1, <5>1 DEF RowGone
        <5> QED
          BY <4>1, <5>2 DEF IsDraft, StepFacts, RowsStep, RowStep, RowMade, RowWritten
      <4>3. ASSUME NEW y \in deletes', DeleteMade(y), y.draft = d PROVE FALSE
        <5>1. ASSUME NEW s \in saves, ReceiveSave(s), Outdated(s), s.draft = d PROVE FALSE
          <6>1. s.nr = form.nr /\ s.gen \in Nat /\ s.gen <= gens[s.nr] /\ s.gen # gens[s.nr]
            BY <3>1, <5>1, TypeSets, Bounds DEF Writers, SaveSet, NameInv, SaveAt, Outdated
          <6> QED
            BY <2>3, <6>1
        <5>2. ASSUME NEW s \in sends, ReceiveSend(s), s.ok, s.draft = d PROVE FALSE
          <6>1. s.nr = form.nr
            BY <3>1, <5>2 DEF Writers
          <6> QED
            BY <1>1, <2>1, <2>3, <5>2, <6>1, ClearedForm
        <5>3. ~(faults' > 0)
          BY <3>4
        <5> QED
          BY <2>2, <4>3, <5>1, <5>2, <5>3 DEF DeleteMade
      <4>4. \A y \in deletes' : y.draft # d
        BY <4>1, <4>3 DEF StepFacts, DeletesStep, DeleteMoves
      <4> QED
        BY <4>2, <4>4
    <3> QED
      BY <2>1, <3>3, <3>4
  \* One that its first save makes now is named by that save alone.
  <2>6. ASSUME NEW d \in Drafts, rows[d].state = "unused", rows'[d].state = "draft",
               NEW t \in saves', t.nr = form.nr, t.draft = d
        PROVE  Alone(d)
    <3>1. \A r \in Writers' : r.draft = d => r.nr = form.nr
      BY <2>6, NewAlone DEF Writers
    <3>2. \A x \in deletes : x.draft # d
      BY <1>1, <2>6 DEF NameInv, DeleteAt, Used
    <3>3. \A x \in deletes' : x.draft # d \/ faults' > 0
      <4>1. \A y \in deletes' : DeleteMade(y) /\ y.draft = d => faults' > 0
        BY <1>1, <1>2, <2>2, <2>6 DEF DeleteMade, Used, Writers
      <4> QED
        BY <3>2, <4>1 DEF StepFacts, DeletesStep, DeleteMoves
    <3> QED
      BY <2>1, <2>6, <3>1, <3>3, Numbers
  <2>7. ASSUME NEW d \in Drafts, MineNext(d) PROVE Alone(d)
    <3>1. CASE d = form'.draft
      BY <2>1, <2>5, <3>1 DEF Mine
    <3>2. ASSUME NEW t \in saves', t.nr = form.nr, t.of = form.of, t.draft = d PROVE Alone(d)
      <4>1. CASE t \in saves
        BY <2>5, <3>2, <4>1 DEF Mine
      <4>2. CASE SaveMade(t)
        BY <2>5, <3>2, <4>2 DEF Mine, SaveMade
      <4>3. ASSUME NEW s \in saves, SaveMoves(s, t) PROVE Alone(d)
        <5>1. s.nr = form.nr /\ s.of = form.of
          BY <3>2, <4>3 DEF SaveMoves
        <5>2. CASE t.draft = s.draft
          BY <2>5, <3>2, <5>1, <5>2 DEF Mine
        <5>3. CASE rows[d].state = "unused" /\ rows' = [rows EXCEPT ![d] = Row(s.of, s.text)]
          <6>1. rows'[d] = Row(s.of, s.text) /\ s.of \in Texts /\ s.text \in Versions
            BY <5>3, TypeSets DEF SaveSet
          <6>2. rows'[d].state = "draft"
            BY <6>1, RowFacts
          <6> QED
            BY <2>6, <3>2, <5>3, <6>2
        <5> QED
          BY <3>2, <4>3, <5>2, <5>3 DEF SaveMoves
      <4> QED
        BY <4>1, <4>2, <4>3 DEF StepFacts, SavesStep
    <3> QED
      BY <2>1, <2>7, <3>1, <3>2
  <2> QED
    BY <1>8, <2>1, <2>2, <2>7
<1> QED
  BY <1>5, <1>6, <1>7, <1>9, <1>10, <1>11 DEF StepFacts, FormStep

LEMMA SavedStep ==
  ASSUME TypeOK, TypeOK', NameInv, NameInv', MineInv, SavedInv, StepFacts, [Next]_vars
  PROVE  SavedInv'
<1> DEFINE HoldsNext == rows'[form'.draft].state = "draft" => rows'[form'.draft].text = form'.text
           Part1 == form'.draft # None =>
                      \A s \in saves' : s.draft = form'.draft /\ s.stage # "answered"
                                          => s.text = form'.text
           Part2 == \/ form'.draft # None /\ HoldsNext
                    \/ \E s \in saves' : Pending(s)'
<1> SUFFICES ASSUME form' # Closed, ~form'.unsure, ~form'.discarding, ~form'.timer, form'.text # 0
             PROVE  Part1 /\ Part2
  BY DEF SavedInv, Sure, Open, Holds, IsDraft
\* Only a composer that keeps what it has is left with something to save and no timer.
<1>1. FormKept
  BY ClosedFields DEF StepFacts, FormStep, FormNew, FormCleared, FormOpened, FormForwarded,
     FormNamed
<1>2. /\ form # Closed /\ ~form.unsure /\ ~form.discarding
      /\ form'.nr = form.nr /\ form'.of = form.of /\ form'.draft = form.draft
      /\ form'.text = form.text /\ (SaveDue \/ ~form.timer)
  BY <1>1 DEF FormKept
<1>3. form.draft \in Drafts \cup {None} /\ Used(form.draft)
  BY TypeSets DEF NameInv, FormAt, FormSet
<1>4. CASE SaveDue
  <2>1. rows' = rows /\ ~Saving(form.draft)
    <3>1. Saving(form.draft) \in BOOLEAN
      BY DEF Saving
    <3> DEFINE u == form.unsure \/ Saving(form.draft)
    <3>2. form' = [form EXCEPT !.timer = FALSE, !.unsure = u]
      BY <1>4 DEF SaveDue
    <3>3. u \in BOOLEAN /\ (Saving(form.draft) => u)
      BY <3>1, TypeSets DEF FormSet
    <3> HIDE DEF u
    <3>4. form'.unsure = u
      BY <3>2, <3>3, TypeSets DEF FormSet
    <3> QED
      BY <1>4, <3>3, <3>4 DEF SaveDue, server
  <2> DEFINE t == [nr |-> form.nr, of |-> form.of, draft |-> form.draft,
                   text |-> form.text, gen |-> gens[form.nr], stage |-> "out", ok |-> FALSE]
  <2>2. /\ t.nr = form.nr /\ t.of = form.of /\ t.draft = form.draft /\ t.text = form.text
        /\ t.stage = "out"
    OBVIOUS
  <2>3. saves' = saves \cup {t}
    BY <1>4 DEF SaveDue
  <2> HIDE DEF t
  <2>4. ASSUME NEW q \in saves', q.nr = form.nr, q.of = form.of, q.draft = form.draft,
               q.text = form.text, q.stage = "out"
        PROVE  Pending(q)'
    BY <1>2, <2>4 DEF Pending
  <2>5. form.draft # None => \A s \in saves : s.draft # form.draft
    BY <2>1 DEF Saving
  <2>6. Part1
    BY <1>2, <2>2, <2>3, <2>5
  <2>7. \E q \in saves' : q.nr = form.nr /\ q.of = form.of /\ q.draft = form.draft
                          /\ q.text = form.text /\ q.stage = "out"
    BY <2>2, <2>3
  <2>8. \E q \in saves' : Pending(q)'
    BY <2>4, <2>7
  <2> QED
    BY <2>6, <2>8
<1>5. CASE ~form.timer
  <2>1. /\ form.draft # None =>
             \A s \in saves : s.draft = form.draft /\ s.stage # "answered" => s.text = form.text
        /\ (form.draft # None /\ Holds) \/ \E s \in saves : Pending(s)
    BY <1>2, <1>5 DEF SavedInv, Sure, Open
  <2>2. ~SaveDue
    BY <1>5 DEF SaveDue
  <2>3. Part1
    <3>1. ASSUME form.draft # None, NEW s \in saves', s.draft = form.draft, s.stage # "answered"
          PROVE  s.text = form.text
      <4>1. s \in saves \/ \E q \in saves : SaveMoves(q, s)
        BY <2>2 DEF StepFacts, SavesStep, SaveMade
      <4>2. ASSUME NEW q \in saves, SaveMoves(q, s)
            PROVE  q.draft = s.draft /\ q.stage # "answered" /\ q.text = s.text
        BY <3>1, <4>2 DEF SaveMoves
      <4> QED
        BY <2>1, <3>1, <4>1, <4>2
    <3> QED
      BY <1>2, <3>1
  \* The row of the draft changes only to what the composer shows.
  <2>4. ASSUME form.draft # None, Holds PROVE HoldsNext
    <3>1. rows[form.draft].state # "unused" /\ form.draft \in Drafts
      BY <1>3, <2>4 DEF Used
    <3>2. ASSUME rows'[form.draft].state = "draft"
          PROVE  rows[form.draft].state = "draft" /\ rows'[form.draft].text = form.text
      <4>1. rows[form.draft].state = "draft"
        BY <3>1, <3>2, RowsKeep DEF StepFacts, RowMade
      <4>2. rows[form.draft].text = form.text
        BY <2>4, <4>1 DEF Holds, IsDraft
      <4>3. CASE RowWritten(form.draft)
        BY <2>1, <2>4, <4>2, <4>3 DEF RowWritten
      <4> QED
        BY <3>1, <3>2, <4>1, <4>2, <4>3 DEF StepFacts, RowsStep, RowStep, RowMade, RowGone
    <3> QED
      BY <1>2, <3>2
  <2>5. CASE form.draft # None /\ Holds
    BY <1>2, <2>3, <2>4, <2>5
  <2>6. ASSUME NEW s \in saves, Pending(s) PROVE Part2
    <3>1. /\ s.nr = form.nr /\ s.of = form.of
          /\ s.stage # "answered" => s.draft = form.draft /\ s.text = form.text
          /\ s.stage = "answered" /\ s.ok => form.draft = None \/ (s.draft = form.draft /\ Holds)
      BY <2>6 DEF Pending
    <3>2. CASE s \in saves'
      <4>1. s.stage = "answered" /\ s.ok => form.draft = None \/ (s.draft = form.draft /\ HoldsNext)
        BY <2>4, <3>1
      <4>2. Pending(s)'
        BY <1>2, <3>1, <4>1 DEF Pending, Holds, IsDraft
      <4> QED
        BY <3>2, <4>2
    <3>3. CASE s.stage = "answered" /\ ReceiveSave(s)
      <4>1. s.ok
        <5>1. ASSUME ~s.ok, form' = [form EXCEPT !.unsure = TRUE] PROVE form'.unsure
          BY <5>1, TypeSets DEF FormSet
        <5> QED
          BY <3>1, <3>3, <5>1, Zenon DEF ReceiveSave
      <4>2. ~Outdated(s)
        <5>1. gens[form.nr] = 0
          BY <1>2 DEF MineInv, Sure, Open
        <5>2. s.gen \in Nat /\ s.gen <= gens[s.nr]
          BY TypeSets, Bounds DEF SaveSet, NameInv, SaveAt
        <5> QED
          BY <3>1, <5>1, <5>2 DEF Outdated
      <4>3. form'.draft = s.draft /\ s.draft # None
        BY <3>1, <3>3, <4>1, <4>2, HeardOf DEF NameInv, SaveAt
      <4> QED
        BY <1>2, <2>4, <3>1, <3>3, <4>1, <4>3
    <3>4. ASSUME NEW t \in saves', SaveMoves(s, t) PROVE Part2
      <4>1. t.nr = s.nr /\ t.of = s.of /\ t.text = s.text
        BY <3>4 DEF SaveMoves
      <4>2. CASE s.stage = "out" /\ t.draft = s.draft /\ t.stage = "checked"
        <5>1. Pending(t)'
          BY <1>2, <3>1, <4>1, <4>2 DEF Pending
        <5> QED
          BY <5>1
      <4>3. CASE t.stage = "answered" /\ ~t.ok
        <5>1. Pending(t)'
          BY <1>2, <3>1, <4>1, <4>3 DEF Pending
        <5> QED
          BY <5>1
      <4>4. CASE /\ s.stage = "checked"
                 /\ s.draft # None /\ IsDraft(s.draft) => rows'[s.draft].text = s.text
        <5>1. s.draft # None /\ s.draft = form.draft /\ s.text = form.text /\ form.draft \in Drafts
          BY <1>3, <3>1, <4>4 DEF NameInv, SaveAt
        <5>2. rows'[form.draft].state = "draft" => rows[form.draft].state = "draft"
          BY <1>3, <5>1, RowsKeep DEF StepFacts, RowMade, Used
        <5>3. HoldsNext
          BY <1>2, <4>4, <5>1, <5>2 DEF IsDraft
        <5> QED
          BY <1>2, <5>1, <5>3
      <4>5. CASE s.stage = "out" /\ s.draft = None
        <5>1. form.draft = None
          BY <3>1, <4>5
        <5>2. CASE t.stage = "answered"
          <6>1. Pending(t)'
            BY <1>2, <3>1, <4>1, <5>1, <5>2 DEF Pending
          <6> QED
            BY <6>1
        <5> QED
          BY <3>4, <4>2, <4>3, <4>5, <5>2 DEF SaveMoves
      <4> QED
        BY <3>4, <4>2, <4>3, <4>4, <4>5 DEF SaveMoves
    <3> QED
      BY <3>2, <3>3, <3>4 DEF StepFacts, SavesStep
  <2> QED
    BY <2>1, <2>3, <2>5, <2>6
<1> QED
  BY <1>2, <1>4, <1>5

-----------------------------------------------------------------------------
(***************************************************************************)
(* The theorems.                                                           *)
(***************************************************************************)

\* Nothing is begun, shown or under way at first.
LEMMA Starts ==
  ASSUME Init
  PROVE  IInv
<1>1. /\ rows = [d \in Drafts |-> Unused] /\ submitting = {} /\ form = Closed
      /\ gens = [n \in Composers |-> 0] /\ saves = {} /\ deletes = {} /\ sends = {}
      /\ over = {} /\ hasty = {} /\ spared = {}
      /\ edits = 0 /\ opens = 0 /\ texts = 0 /\ faults = 0
  BY DEF Init
<1>2. TypeOK
  BY <1>1, Bounds, RowFacts, ClosedFields, TypeSets
<1>3. NameInv
  BY <1>1, Bounds, RowFacts, ClosedFields
     DEF NameInv, RowAt, Writers, FormAt, Open, Used
<1>4. OwnInv /\ MeetInv /\ SendingInv /\ UnnamedInv /\ SendInv /\ MineInv /\ SavedInv
  BY <1>1, ClosedFields DEF OwnInv, Owns, Writers, MeetInv, SendingInv, UnnamedInv, Open, SendInv,
     MineInv, SavedInv, Sure
<1>5. OverInv
  BY <1>1 DEF OverInv
<1> QED
  BY <1>2, <1>3, <1>4, <1>5 DEF IInv

LEMMA Steps ==
  ASSUME IInv, [Next]_vars
  PROVE  IInv'
<1>1. /\ TypeOK /\ NameInv /\ OwnInv /\ MeetInv /\ SendingInv
      /\ UnnamedInv /\ SendInv /\ OverInv /\ MineInv /\ SavedInv
  BY DEF IInv
<1>2. StepFacts
  BY <1>1, Effects
<1>3. TypeOK'
  BY <1>1, TypeStep
<1>4. NameInv'
  BY <1>1, <1>2, <1>3, NameStep
<1>5. OwnInv' /\ MeetInv' /\ SendingInv'
  BY <1>1, <1>2, <1>3, OwnStep, MeetStep, SendingStep
<1>6. UnnamedInv' /\ SendInv' /\ OverInv'
  BY <1>1, <1>2, <1>3, <1>4, UnnamedStep, SendStep, OverStays
<1>7. MineInv' /\ SavedInv'
  BY <1>1, <1>2, <1>3, <1>4, MineStep, SavedStep
<1> QED
  BY <1>3, <1>4, <1>5, <1>6, <1>7 DEF IInv

\* The invariant holds in every state the composer and the server can reach.
THEOREM Invariance == Spec => []IInv
<1>1. Init => IInv
  BY Starts
<1>2. IInv /\ [Next]_vars => IInv'
  BY Steps
<1> QED
  BY <1>1, <1>2, PTL DEF Spec

\* Rows, the composer and the requests under way keep their types (TypeOK): every
\* request is about a message that has begun and a draft that may exist.
THEOREM TypeCorrect == Spec => []TypeOK
<1>1. IInv => TypeOK
  BY DEF IInv
<1> QED
  BY <1>1, Invariance, PTL

\* A message that was sent or discarded leaves no draft once its requests are answered
\* (draftGeneration and the DELETEs of compose-form.tsx), but for a DELETE that failed,
\* a save beside a send, and two first saves that overlapped.
THEOREM NothingLeftBehindHolds == Spec => []NothingLeftBehind
<1>1. IInv => NothingLeftBehind
  <2> SUFFICES ASSUME IInv, NEW d \in Drafts, IsDraft(d), rows[d].of \in over,
                      Settled(rows[d].of), d \notin spared, rows[d].of \notin hasty,
                      ~Split(rows[d].of)
               PROVE  FALSE
    BY DEF NothingLeftBehind
  <2>1. Doomed(d)
    BY DEF IInv, OverInv, Loose
  <2> QED
    BY <2>1, Bounds DEF Doomed, Settled, About
<1> QED
  BY <1>1, Invariance, PTL

\* With no save due or under way the draft a composer names holds what the composer
\* shows (the autosave effect of compose-form.tsx), whichever save answered last.
THEOREM SavedIsCurrentHolds == Spec => []SavedIsCurrent
<1>1. IInv => SavedIsCurrent
  <2> SUFFICES ASSUME IInv, AtRest, form.text # 0, ~form.unsure, ~DeletedElsewhere
               PROVE  IsDraft(form.draft) /\ rows[form.draft].text = form.text
    BY DEF SavedIsCurrent
  <2>1. Sure /\ ~form.timer /\ \A s \in saves : s.nr # form.nr
    BY DEF AtRest, Sure, Open
  <2>2. form.draft # None /\ Holds
    BY <2>1 DEF IInv, SavedInv, Pending
  <2>3. form.draft \in Drafts /\ faults \in Nat
    BY <2>2, TypeSets, Bounds DEF IInv, FormSet
  <2>4. faults = 0 => IsDraft(form.draft)
    BY <2>1, <2>3 DEF IInv, MineInv, Mine
  <2>5. faults > 0 => IsDraft(form.draft)
    BY <2>2 DEF DeletedElsewhere
  <2> QED
    BY <2>2, <2>3, <2>4, <2>5 DEF Holds
<1> QED
  BY <1>1, Invariance, PTL
=============================================================================
