------------------------------ MODULE Compose ------------------------------
(***************************************************************************)
(* Writing a message: the composer of a browser with its autosave, its     *)
(* send and its discard (compose-form.tsx), the drafts it leaves on the    *)
(* server (api/drafts), the files kept on a draft (email/attachments.ts),  *)
(* the send API up to sendEmail, and the other sender of a draft, JMAP's   *)
(* EmailSubmission/set (jmap/identities.ts).                               *)
(*                                                                         *)
(* A request is a record that the server handles in one or two steps and   *)
(* whose answer the composer receives in a later one.  What is written is  *)
(* a version number, 0 for nothing; a sender, a recipient and a mailbox    *)
(* the user may write from are given.  sendEmail itself is Outbound.       *)
(***************************************************************************)
EXTENDS Integers, FiniteSets

CONSTANTS
  Drafts,       \* ids of draft rows
  Files,        \* the files of a message to forward
  None,         \* no draft
  MaxEvents,    \* bound: edits, composers opened, failed or lost requests and requests
                \* of other devices together
  MaxTexts,     \* bound: messages begun
  MaxSaves,     \* bound: saves under way after a timer fires
  MaxDiscards   \* bound: discards of one composer

ASSUME ComposeAssumption ==
  /\ None \notin Drafts
  /\ {MaxEvents, MaxTexts, MaxDiscards} \subseteq Nat
  /\ MaxSaves \in Nat \ {0}

VARIABLES
  (* the server *)
  rows,        \* the draft rows of the messages table, with the files stored for each
  submitting,  \* drafts that EmailSubmission/set is sending
  (* the browser *)
  form,        \* the mounted composer
  gens,        \* draftGeneration of each composer, which outlives it
  (* between them *)
  saves, deletes, sends,
  (* history, read by no guard *)
  over,        \* messages sent or discarded
  hasty,       \* messages with a save and a send under way at once, or named after
               \* a draft of the message before
  spared,      \* drafts whose DELETE failed or whose save's answer was lost
  (* counters for the bounds *)
  edits, opens, texts, faults

server == <<rows, submitting>>
browser == <<form, gens>>
requests == <<saves, deletes, sends>>
history == <<over, hasty, spared>>
bounds == <<edits, opens, texts, faults>>
vars == <<server, browser, requests, history, bounds>>

Composers == 1..MaxEvents
Texts == 1..MaxTexts
Versions == 0..MaxEvents
Gens == 0..MaxDiscards

\* of: the message a row, a composer or a request is about.
Unused == [state |-> "unused", of |-> 0, text |-> 0, files |-> {}]
Row(of, text) == [state |-> "draft", of |-> of, text |-> text, files |-> {}]
Gone(row) == [row EXCEPT !.state = "gone", !.text = 0, !.files = {}]
IsDraft(d) == d # None /\ rows[d].state = "draft"

\* timer: an autosave is due; unsure: what the composer shows may not be saved
\* (history), because a save failed or two of them ran at once.
Closed == [nr |-> 0, of |-> 0, draft |-> None, text |-> 0, kept |-> {}, timer |-> FALSE,
           sending |-> FALSE, discarding |-> FALSE, unsure |-> FALSE]

TypeOK ==
  /\ rows \in [Drafts -> [state : {"unused", "draft", "gone"}, of : 0..MaxTexts,
                          text : Versions, files : SUBSET Files]]
  /\ submitting \subseteq Drafts
  /\ form \in [nr : 0..MaxEvents, of : 0..MaxTexts, draft : Drafts \cup {None}, text : Versions,
               kept : SUBSET Files, timer : BOOLEAN, sending : BOOLEAN,
               discarding : BOOLEAN, unsure : BOOLEAN]
  /\ gens \in [Composers -> Gens]
  /\ saves \subseteq [nr : Composers, of : Texts, draft : Drafts \cup {None}, text : Versions,
                      gen : Gens, stage : {"out", "checked", "answered"}, ok : BOOLEAN]
  /\ deletes \subseteq [draft : Drafts, nr : 0..MaxEvents, stage : {"out", "answered"},
                        ok : BOOLEAN]
  /\ sends \subseteq [nr : Composers, of : Texts, draft : Drafts \cup {None}, text : Versions,
                      kept : SUBSET Files,
                      stage : {"out", "answered"}, ok : BOOLEAN]
  /\ over \subseteq Texts /\ hasty \subseteq Texts /\ spared \subseteq Drafts
  /\ edits \in Versions /\ opens \in 0..MaxEvents /\ texts \in 0..MaxTexts /\ faults \in 0..MaxEvents
  \* A draft without a row has no files, and a composer without a draft shows none.
  /\ \A d \in Drafts : rows[d].state # "draft" => rows[d].files = {} /\ rows[d].text = 0
  /\ form.draft = None => form.kept = {}

Init ==
  /\ rows = [d \in Drafts |-> Unused]
  /\ submitting = {}
  /\ form = Closed /\ gens = [n \in Composers |-> 0]
  /\ saves = {} /\ deletes = {} /\ sends = {}
  /\ over = {} /\ hasty = {} /\ spared = {}
  /\ edits = 0 /\ opens = 0 /\ texts = 0 /\ faults = 0

Eventful == edits + opens + faults < MaxEvents
Fault == Eventful /\ faults' = faults + 1

-----------------------------------------------------------------------------
(* The composer *)

\* The autosave's effect runs when what is written or the draft's id changes:
\* it replaces the timer.
Rearm(f) == [f EXCEPT !.timer = (f.text # 0)]
\* Mutant: the timer is not set again.
NamedOnly(f, d) == [f EXCEPT !.draft = d]
\* The composer learns the id of its draft.
Named(f, d) == IF f.draft = d THEN f ELSE Rearm([f EXCEPT !.draft = d])
\* A save of the same draft is under way already.
Saving(d) == d # None /\ \E s \in saves : s.draft = d
Sending(of) == \E s \in sends : s.of = of

\* Nothing of the message is under way.
About(of, d) == d # None /\ rows[d].of = of
Settled(of) ==
  /\ ~\E r \in saves \cup sends : r.of = of \/ About(of, r.draft)
  /\ ~\E x \in deletes : About(of, x.draft)

Mount(f) ==
  /\ form = Closed /\ Eventful
  /\ opens' = opens + 1 /\ form' = f
  /\ UNCHANGED <<submitting, gens, requests, history, faults>>

OpenNew ==
  /\ texts < MaxTexts /\ texts' = texts + 1
  /\ Mount([Closed EXCEPT !.nr = opens + 1, !.of = texts + 1])
  /\ UNCHANGED <<rows, edits>>

\* The draft is fetched and shown; what was loaded is saved again 900 ms later.
Shown(d, row) == Rearm([Closed EXCEPT !.nr = opens + 1, !.of = row.of, !.draft = d,
                                      !.text = row.text, !.kept = row.files,
                                      !.unsure = ~Settled(row.of)])
OpenDraft(d) ==
  /\ IsDraft(d) /\ Mount(Shown(d, rows[d]))
  /\ UNCHANGED <<rows, edits, texts>>

\* Forward, and reply without files: POST /api/drafts inserts the draft and copies
\* the files it finds, and the composer opens it.
Forward(d, files) ==
  /\ rows[d].state = "unused" /\ texts < MaxTexts /\ edits + 1 < MaxEvents
  /\ rows' = [rows EXCEPT ![d] = [Row(texts + 1, edits + 1) EXCEPT !.files = files]]
  /\ texts' = texts + 1 /\ edits' = edits + 1
  /\ Mount(Shown(d, rows'[d]))

\* Unmounting clears the timer; the requests under way go on.
Close ==
  /\ form # Closed /\ form' = Closed
  /\ UNCHANGED <<server, gens, requests, history, bounds>>

Edit(text) ==
  /\ form # Closed /\ Eventful
  /\ edits' = edits + 1 /\ form' = Rearm([form EXCEPT !.text = text])
  /\ UNCHANGED <<server, gens, requests, history, opens, texts, faults>>

SaveDue ==
  /\ form.timer /\ Cardinality(saves) < MaxSaves
  /\ saves' = saves \cup {[nr |-> form.nr, of |-> form.of, draft |-> form.draft,
                           text |-> form.text, gen |-> gens[form.nr], stage |-> "out", ok |-> FALSE]}
  /\ form' = [form EXCEPT !.timer = FALSE, !.unsure = @ \/ Saving(form.draft)]
  /\ hasty' = IF Sending(form.of) THEN hasty \cup {form.of} ELSE hasty
  /\ UNCHANGED <<server, gens, deletes, sends, over, spared, bounds>>

\* Mutant: the generation is not compared.
NeverOutdated(s) == FALSE
\* The answer of a save made before a discard: its draft is deleted.
Outdated(s) == s.gen # gens[s.nr]

ReceiveSave(s) ==
  /\ s.stage = "answered" /\ saves' = saves \ {s}
  /\ deletes' = IF s.ok /\ Outdated(s)
                THEN deletes \cup {[draft |-> s.draft, nr |-> 0, stage |-> "out", ok |-> FALSE]}
                ELSE deletes
  /\ form' = IF form.nr # s.nr THEN form
             ELSE IF ~s.ok THEN [form EXCEPT !.unsure = TRUE]
             ELSE IF Outdated(s) THEN form
             ELSE Named([form EXCEPT !.unsure = @ \/ s.of # form.of], s.draft)
  \* The next message was named after a draft of the one before.
  /\ hasty' = IF form'.draft # form.draft /\ s.of # form.of THEN hasty \cup {form.of} ELSE hasty
  /\ UNCHANGED <<server, gens, sends, over, spared, bounds>>

\* Mutant: the stored files stay in the composer.
ClearedButFiles == [form EXCEPT !.of = texts + 1, !.draft = None, !.text = 0,
                                !.timer = FALSE, !.sending = FALSE]
\* The next message is written in the same composer.
Cleared == [form EXCEPT !.of = texts + 1, !.draft = None, !.text = 0, !.kept = {},
                        !.timer = FALSE, !.sending = FALSE]

Submit ==
  /\ form.text # 0 /\ ~form.sending /\ texts < MaxTexts
  /\ sends' = sends \cup {[nr |-> form.nr, of |-> form.of, draft |-> form.draft,
                           text |-> form.text, kept |-> form.kept,
                           stage |-> "out", ok |-> FALSE]}
  /\ form' = [form EXCEPT !.sending = TRUE]
  /\ hasty' = IF \E s \in saves : s.of = form.of THEN hasty \cup {form.of} ELSE hasty
  /\ UNCHANGED <<server, gens, saves, deletes, over, spared, bounds>>

\* The closure knows the draft's id as it was when the send was submitted.
ReceiveSend(s) ==
  /\ s.stage = "answered" /\ sends' = sends \ {s}
  /\ deletes' = IF s.ok /\ s.draft # None
                THEN deletes \cup {[draft |-> s.draft, nr |-> 0, stage |-> "out", ok |-> FALSE]}
                ELSE deletes
  /\ over' = IF s.ok THEN over \cup {s.of} ELSE over
  /\ IF form.nr # s.nr THEN UNCHANGED <<form, texts>>
     ELSE IF s.ok THEN texts < MaxTexts /\ form' = Cleared /\ texts' = texts + 1
     ELSE form' = [form EXCEPT !.sending = FALSE] /\ UNCHANGED texts
  /\ UNCHANGED <<server, gens, saves, hasty, spared, edits, opens, faults>>

Discard ==
  /\ form # Closed /\ ~form.sending /\ ~form.discarding
  /\ gens[form.nr] < MaxDiscards
  /\ gens' = [gens EXCEPT ![form.nr] = @ + 1]
  /\ IF form.draft = None
     THEN form' = Closed /\ over' = over \cup {form.of} /\ UNCHANGED deletes
     ELSE /\ form' = [form EXCEPT !.timer = FALSE, !.discarding = TRUE]
          /\ deletes' = deletes \cup {[draft |-> form.draft, nr |-> form.nr,
                                       stage |-> "out", ok |-> FALSE]}
          /\ UNCHANGED over
  /\ UNCHANGED <<server, saves, sends, hasty, spared, bounds>>

ReceiveDelete(x) ==
  /\ x.stage = "answered" /\ deletes' = deletes \ {x}
  /\ over' = IF x.ok THEN over \cup {rows[x.draft].of} ELSE over
  /\ form' = IF form.nr # x.nr THEN form
             ELSE IF x.ok THEN Closed
             ELSE [form EXCEPT !.discarding = FALSE, !.unsure = TRUE]
  /\ UNCHANGED <<server, gens, saves, sends, hasty, spared, bounds>>

\* DELETE /api/drafts/{id}/attachments/{attachmentId}: the row, then the object;
\* the composer drops the file when it is answered.
RemoveFile(f) ==
  /\ f \in form.kept /\ IsDraft(form.draft) /\ f \in rows[form.draft].files
  /\ rows' = [rows EXCEPT ![form.draft].files = @ \ {f}]
  /\ form' = [form EXCEPT !.kept = @ \ {f}]
  /\ UNCHANGED <<submitting, gens, requests, history, bounds>>

-----------------------------------------------------------------------------
(* The server *)

Answered(set, req, ok) == (set \ {req}) \cup {[req EXCEPT !.stage = "answered", !.ok = ok]}
Moved(set, req, stage) == (set \ {req}) \cup {[req EXCEPT !.stage = stage]}

\* POST /api/drafts.
CreateDraft(s) ==
  /\ s.stage = "out" /\ s.draft = None
  /\ \E d \in Drafts :
       /\ rows[d].state = "unused"
       /\ rows' = [rows EXCEPT ![d] = Row(s.of, s.text)]
       /\ saves' = Answered(saves \ {s}, [s EXCEPT !.draft = d], TRUE)
  /\ UNCHANGED <<submitting, browser, deletes, sends, history, bounds>>

\* PATCH /api/drafts/{id} reads the row, then updates it, if it is still there.
CheckDraft(s) ==
  /\ s.stage = "out" /\ s.draft # None
  /\ saves' = IF IsDraft(s.draft) THEN Moved(saves, s, "checked") ELSE Answered(saves, s, FALSE)
  /\ UNCHANGED <<server, browser, deletes, sends, history, bounds>>

UpdateDraft(s) ==
  /\ s.stage = "checked"
  /\ rows' = IF IsDraft(s.draft) THEN [rows EXCEPT ![s.draft].text = s.text] ELSE rows
  /\ saves' = Answered(saves, s, TRUE)
  /\ UNCHANGED <<submitting, browser, deletes, sends, history, bounds>>

\* Only a discard waits for the answer of its DELETE.
Replied(x, ok) == IF x.nr = 0 THEN deletes \ {x} ELSE Answered(deletes, x, ok)

\* DELETE /api/drafts/{id}: the files and the row.
DeleteDraft(x) ==
  /\ x.stage = "out"
  /\ rows' = IF IsDraft(x.draft) THEN [rows EXCEPT ![x.draft] = Gone(@)] ELSE rows
  /\ deletes' = Replied(x, IsDraft(x.draft))
  /\ UNCHANGED <<submitting, browser, saves, sends, history, bounds>>

\* POST /api/send.  It names the draft only when the composer shows files of it, and
\* is then refused if the draft has gone; otherwise sendEmail accepts the message.
ServeSend(s) ==
  /\ s.stage = "out"
  /\ sends' = Answered(sends, s, s.kept = {} \/ IsDraft(s.draft))
  /\ UNCHANGED <<server, browser, saves, deletes, history, bounds>>

\* EmailSubmission/set: reads the draft, sends it, and then deletes the row.
TakeDraft(d) ==
  /\ IsDraft(d) /\ Fault
  /\ submitting' = submitting \cup {d}
  /\ UNCHANGED <<rows, browser, requests, history, edits, opens, texts>>

DropDraft(d) ==
  /\ d \in submitting /\ submitting' = submitting \ {d}
  /\ rows' = [rows EXCEPT ![d] = Gone(@)]
  /\ over' = over \cup {rows[d].of}
  /\ UNCHANGED <<browser, requests, hasty, spared, bounds>>

-----------------------------------------------------------------------------
(* Failures and other devices.  A request that throws never runs the lines *)
(* after its await.                                                        *)

FailSave(s) ==
  /\ s.stage # "answered" \/ s.ok
  /\ Fault /\ saves' = Answered(saves, s, FALSE)
  /\ spared' = IF s.draft = None THEN spared ELSE spared \cup {s.draft}
  /\ UNCHANGED <<server, browser, deletes, sends, over, hasty, edits, opens, texts>>

FailDelete(x) ==
  /\ x.stage = "out" /\ Fault
  /\ spared' = spared \cup {x.draft}
  /\ deletes' \in {Replied(x, FALSE), deletes \ {x}}
  /\ UNCHANGED <<server, browser, saves, sends, over, hasty, edits, opens, texts>>

FailSend(s) ==
  /\ s.stage # "answered" \/ s.ok
  /\ Fault
  /\ sends' \in {Answered(sends, s, FALSE), sends \ {s}}
  /\ UNCHANGED <<server, browser, saves, deletes, history, edits, opens, texts>>

\* Another tab or device discards the draft.
DiscardElsewhere(d) ==
  /\ IsDraft(d) /\ Fault
  /\ deletes' = deletes \cup {[draft |-> d, nr |-> 0, stage |-> "out", ok |-> FALSE]}
  /\ UNCHANGED <<server, browser, saves, sends, history, edits, opens, texts>>

-----------------------------------------------------------------------------
Compose ==
  \/ OpenNew \/ Close \/ SaveDue \/ Submit \/ Discard
  \/ \E d \in Drafts : OpenDraft(d) \/ \E files \in SUBSET Files : Forward(d, files)
  \/ \E text \in {0, edits + 1} : Edit(text)
  \/ \E f \in Files : RemoveFile(f)

Receive ==
  \/ \E s \in saves : ReceiveSave(s)
  \/ \E s \in sends : ReceiveSend(s)
  \/ \E x \in deletes : ReceiveDelete(x)

Serve ==
  \/ \E s \in saves : CreateDraft(s) \/ CheckDraft(s) \/ UpdateDraft(s)
  \/ \E x \in deletes : DeleteDraft(x)
  \/ \E s \in sends : ServeSend(s)
  \/ \E d \in Drafts : TakeDraft(d) \/ DropDraft(d)

Disturb ==
  \/ \E s \in saves : FailSave(s)
  \/ \E x \in deletes : FailDelete(x)
  \/ \E s \in sends : FailSend(s)
  \/ \E d \in Drafts : DiscardElsewhere(d)

Next == Compose \/ Receive \/ Serve \/ Disturb
Spec == Init /\ [][Next]_vars

-----------------------------------------------------------------------------
(* Properties *)

\* Two drafts were made of one message: its first save was still under way
\* when the next one fired.
Split(of) == \E d, e \in Drafts : d # e /\ rows[d].of = of /\ rows[e].of = of

\* A message that was sent or discarded leaves no draft behind once its requests
\* are answered (draftGeneration and the DELETEs of compose-form.tsx), but for a
\* DELETE that failed, a save that ran beside a send, and a message whose first
\* two saves overlapped.
NothingLeftBehind ==
  \A d \in Drafts :
    IsDraft(d) /\ rows[d].of \in over /\ Settled(rows[d].of)
      => d \in spared \/ rows[d].of \in hasty \/ Split(rows[d].of)

AtRest == /\ form # Closed /\ ~form.timer /\ ~form.sending /\ ~form.discarding
          /\ \A s \in saves : s.nr # form.nr
DeletedElsewhere == faults > 0 /\ form.draft # None /\ ~IsDraft(form.draft)

\* With no save due or under way the draft a composer names holds what the
\* composer shows, whichever of two overlapping first saves answered last: the
\* effect of compose-form.tsx saves again when the draft's id changes.
SavedIsCurrent ==
  AtRest /\ form.text # 0 /\ ~form.unsure /\ ~DeletedElsewhere
    => IsDraft(form.draft) /\ rows[form.draft].text = form.text

=============================================================================
