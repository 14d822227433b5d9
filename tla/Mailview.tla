------------------------------ MODULE Mailview ------------------------------
(***************************************************************************)
(* The inbox page of a browser and the messages it shows: the caches of    *)
(* the lists and counts with their requests under way (hooks/utils.ts),    *)
(* the page that polls, is told of new mail over a WebSocket and shows a   *)
(* change before the server has made it (use-messages.ts,                  *)
(* use-message-counts.ts, message-folder-page.tsx), and the handlers under *)
(* api/messages that change a message, with the training of the spam       *)
(* filter (spam/feedback.ts).                                              *)
(*                                                                         *)
(* One browser shows one folder, the inbox, ungrouped and on one page; all *)
(* mail is inbound, of mailboxes the user manages.  The other folders,     *)
(* search and pages are further keys of the same caches.                   *)
(***************************************************************************)
EXTENDS Integers, FiniteSets

CONSTANTS
  Mails,        \* messages
  None,         \* no answer
  MaxEvents,    \* bound: requests that change mail, failed requests, announcements of
                \* new mail, leaving the page and changes of the user together
  MaxFetches    \* bound: requests for the counts under way when a poll adds one

\* "move" stands for archive, trash, a folder of the user's and a snooze.
Ops == {"read", "unread", "move", "spam", "inbox"}
Classes == {"spam", "ham"}

ASSUME MailviewAssumption ==
  /\ IsFiniteSet(Mails) /\ None \notin Classes
  /\ MaxEvents \in Nat /\ MaxFetches \in Nat \ {0}

VARIABLES
  (* the server *)
  mail,        \* the messages table
  feedback,    \* how the owner has classified each message
  trained,     \* spam_token_stats of a word all messages have
  jobs,        \* the requests that change mail
  begun,       \* how many there have been
  (* the browser *)
  open,        \* the page is mounted
  shown,       \* the messages of the page
  local,       \* the rows shown as read
  count,       \* the unread count
  listCache, countsCache,
  fetches,     \* requests for the list and for the counts under way
  (* history, read by no action *)
  touched,     \* messages somebody marked as read or unread
  crossed,     \* messages marked again, or marked by a request of unknown outcome
  raced,       \* two classifications of one message overlapped
  events       \* counter for the bound

server == <<mail, feedback, trained, jobs, begun>>
page == <<open, shown, local, count>>
caches == <<listCache, countsCache, fetches>>
history == <<touched, crossed, raced>>
vars == <<server, page, caches, history, events>>

Requests == 1..MaxEvents
Marks == {"read", "unread"}
Absent == [place |-> "absent", read |-> FALSE]
Arrived == [place |-> "inbox", read |-> FALSE]
\* place: where status, folderId and snoozedUntil put a message; elsewhere than
\* in the inbox or the spam folder makes no difference here.
Rows == [place : {"absent", "inbox", "away", "spam"}, read : BOOLEAN]

\* What the query of the inbox returns, and the count of its unread messages.
Inbox == {m \in Mails : mail[m].place = "inbox"}
ReadMail == {m \in Inbox : mail[m].read}
Unread == Cardinality(Inbox \ ReadMail)

Lists == {l \in [rows : SUBSET Mails, read : SUBSET Mails] : l.read \subseteq l.rows}
\* late: it was read before the latest change the page was told of.
Answers == [list : Lists, unread : 0..Cardinality(Mails), ok : BOOLEAN, late : BOOLEAN]
Empty == [rows |-> {}, read |-> {}]
List == [rows |-> Inbox, read |-> ReadMail]
Current(kind) == [list |-> IF kind = "list" THEN List ELSE Empty,
                  unread |-> IF kind = "counts" THEN Unread ELSE 0,
                  ok |-> TRUE, late |-> FALSE]
\* The body of an error response has neither messages nor counts.
Failed == [list |-> Empty, unread |-> 0, ok |-> FALSE, late |-> FALSE]

\* The mail of another user is not looked into.
Foreign == [Failed EXCEPT !.ok = TRUE]

\* same: messageCacheGeneration is what it was when the request began; counts:
\* so is messageCountsGeneration; shared: it is the one in messageCountsRequests;
\* mine: the user who asked is still the one signed in.
Fetches == [of : {"list", "counts"}, same : BOOLEAN, counts : BOOLEAN, shared : BOOLEAN,
            waiting : BOOLEAN, mine : BOOLEAN, spans : BOOLEAN, answer : Answers \cup {None}]
\* spans: the list was cleared while the request was under way.
Entries == [answer : Answers, mine : BOOLEAN, spans : BOOLEAN]

Origins == {"row", "bulk", "plain", "other"}
Steps == {"idle", "select", "recall", "learn", "write", "ok", "failed", "done"}
Jobs == [op : Ops, ids : SUBSET Mails, origin : Origins, mounted : BOOLEAN, step : Steps,
         spam : SUBSET Mails, prior : Lists, previous : Classes \cup {None}]
NoJob == [op |-> "read", ids |-> {}, origin |-> "other", mounted |-> FALSE, step |-> "idle",
          spam |-> {}, prior |-> Empty, previous |-> None]

Init ==
  /\ mail \in [Mails -> {Absent, Arrived}]
  /\ feedback = [m \in Mails |-> None]
  /\ trained = [c \in Classes |-> 0]
  /\ jobs = [r \in Requests |-> NoJob] /\ begun = 0
  /\ open = FALSE /\ shown = Empty /\ local = {} /\ count = 0
  /\ listCache = None /\ countsCache = None /\ fetches = {}
  /\ touched = {} /\ crossed = {} /\ raced = FALSE
  /\ events = 0

Event == begun + events < MaxEvents /\ events' = events + 1

-----------------------------------------------------------------------------
(***************************************************************************)
(* The caches.  Each operator says which requests are under way after it.  *)
(***************************************************************************)
Fetch(kind) == [of |-> kind, same |-> TRUE, counts |-> TRUE, shared |-> TRUE,
                waiting |-> TRUE, mine |-> TRUE, spans |-> FALSE, answer |-> None]
Of(fs, kind) == {f \in fs : f.of = kind}

\* A request for the list of this generation is joined, even by a forced load.
WithList(fs) ==
  IF \E f \in Of(fs, "list") : f.same
  THEN {IF f.of = "list" /\ f.same THEN [f EXCEPT !.waiting = TRUE] ELSE f : f \in fs}
  ELSE fs \cup {Fetch("list")}

\* A forced request for the counts takes the place of the one that is shared.
Unshared(fs) == {IF f.of = "counts" THEN [f EXCEPT !.shared = FALSE] ELSE f : f \in fs}
WithCounts(fs) == Unshared(fs) \cup {Fetch("counts")}
JoinCounts(fs) ==
  IF \E f \in Of(fs, "counts") : f.shared
  THEN {IF f.of = "counts" /\ f.shared THEN [f EXCEPT !.waiting = TRUE] ELSE f : f \in fs}
  ELSE WithCounts(fs)

Late(f) == IF f.answer = None THEN f ELSE [f EXCEPT !.answer.late = TRUE]
CountsCleared(fs) == {IF f.of = "counts" THEN [f EXCEPT !.counts = FALSE, !.shared = FALSE]
                                         ELSE [f EXCEPT !.spans = TRUE] : f \in fs}

\* mailflare:messages-changed, heard while the page is mounted.
MessagesChanged ==
  IF open
  THEN /\ listCache' = None /\ countsCache' = None
       /\ fetches' = WithCounts(WithList(CountsCleared({Late(f) : f \in fetches})))
  ELSE UNCHANGED caches

\* A row keeps a state of its own, which follows the list only when the list's
\* value changes.
Follows(list) ==
  {m \in list.rows : IF m \in shown.rows /\ (m \in shown.read <=> m \in list.read)
                     THEN m \in local ELSE m \in list.read}
Show(list) == shown' = list /\ local' = Follows(list)

(* mutant: the badge may go below zero *)
DeltaUnchecked(d) == count' = IF open THEN count + d ELSE count
Delta(d) == count' = IF open THEN (IF count + d < 0 THEN 0 ELSE count + d) ELSE count

-----------------------------------------------------------------------------
(***************************************************************************)
(* The page is mounted, polls, and gets its answers.                       *)
(***************************************************************************)
OpenPage ==
  /\ ~open /\ open' = TRUE
  /\ shown' = IF listCache = None THEN Empty ELSE listCache.answer.list
  /\ local' = shown'.read
  /\ count' = IF countsCache = None THEN 0 ELSE countsCache.answer.unread
  /\ fetches' = LET fs == IF listCache = None THEN WithList(fetches) ELSE fetches IN
                IF countsCache = None THEN JoinCounts(fs) ELSE fs
  /\ UNCHANGED <<server, listCache, countsCache, history, events>>

Unmounted ==
  /\ open' = FALSE /\ shown' = Empty /\ local' = {} /\ count' = 0
  /\ jobs' = [r \in Requests |-> [jobs[r] EXCEPT !.mounted = FALSE]]

LeavePage ==
  /\ open /\ Event /\ Unmounted
  /\ fetches' = {[f EXCEPT !.waiting = FALSE] : f \in fetches}
  /\ UNCHANGED <<mail, feedback, trained, begun, listCache, countsCache, history>>

\* Signing out and in again; clearMessageClientState.
ChangeUser ==
  /\ Event
  /\ Unmounted
  /\ listCache' = None /\ countsCache' = None
  /\ fetches' = {[f EXCEPT !.answer = IF @ = None THEN None ELSE Foreign,
                           !.waiting = FALSE, !.same = FALSE, !.counts = FALSE,
                           !.shared = FALSE, !.mine = FALSE] : f \in fetches}
  /\ UNCHANGED <<mail, feedback, trained, begun, history>>

PollList ==
  /\ open /\ fetches' = WithList(fetches)
  /\ UNCHANGED <<server, page, listCache, countsCache, history, events>>

PollCounts ==
  /\ open /\ Cardinality(Of(fetches, "counts")) < MaxFetches
  /\ fetches' = WithCounts(fetches)
  /\ UNCHANGED <<server, page, listCache, countsCache, history, events>>

\* GET /api/messages or /api/messages/counts; an error response is JSON as well.
Serve(f) ==
  /\ f.answer = None
  /\ \/ fetches' = (fetches \ {f}) \cup {[f EXCEPT !.answer =
                                       IF f.mine THEN Current(f.of) ELSE Foreign]} /\ UNCHANGED events
     \/ fetches' = (fetches \ {f}) \cup {[f EXCEPT !.answer = Failed]} /\ Event
  /\ UNCHANGED <<server, page, listCache, countsCache, history>>

Entry(f) == [answer |-> f.answer, mine |-> f.mine, spans |-> f.spans]

MayCacheList(f) == f.same

(* mutant: a list that arrives is kept for the next visit only *)
ReceiveUnshown(f) ==
  /\ f.of = "list" /\ f.answer # None
  /\ fetches' = fetches \ {f}
  /\ listCache' = IF MayCacheList(f) THEN Entry(f) ELSE listCache
  /\ UNCHANGED <<server, page, countsCache, history, events>>

ReceiveList(f) ==
  /\ f.of = "list" /\ f.answer # None
  /\ fetches' = fetches \ {f}
  /\ listCache' = IF MayCacheList(f) THEN Entry(f) ELSE listCache
  /\ IF f.waiting THEN Show(f.answer.list) ELSE UNCHANGED <<shown, local>>
  /\ UNCHANGED <<server, open, count, countsCache, history, events>>

(* mutant: the generation of the counts is not compared *)
MayCacheAnyCounts(f) == f.answer.ok /\ f.same

\* An error has no counts and is not cached.
MayCacheCounts(f) == f.answer.ok /\ f.same /\ f.counts
ReceiveCounts(f) ==
  /\ f.of = "counts" /\ f.answer # None
  /\ fetches' = fetches \ {f}
  /\ countsCache' = IF MayCacheCounts(f) THEN Entry(f) ELSE countsCache
  /\ count' = IF f.waiting THEN f.answer.unread ELSE count
  /\ UNCHANGED <<server, open, shown, local, listCache, history, events>>

-----------------------------------------------------------------------------
(***************************************************************************)
(* Requests that change mail: from a row of the page, from its toolbar,    *)
(* from the page of one message, or from another device.                   *)
(***************************************************************************)
Begin(op, ids, origin) ==
  LET r == begun + 1 IN
  /\ begun + events < MaxEvents /\ begun' = r
  /\ jobs' = [jobs EXCEPT ![r] =
       [op |-> op, ids |-> ids, origin |-> origin, mounted |-> origin \in {"row", "bulk"},
        step |-> "select", spam |-> {}, previous |-> None,
        prior |-> IF origin = "bulk" THEN shown ELSE Empty]]
  /\ touched' = IF op \in Marks THEN touched \cup ids ELSE touched
  /\ crossed' = IF op \in Marks THEN crossed \cup (touched \cap ids) ELSE crossed
  /\ UNCHANGED <<mail, feedback, trained, open, raced, events>>

\* MessageListRow: a mark shows at once, and the badge changes with it.
MarkRow(m, op) ==
  /\ open /\ m \in shown.rows
  /\ op = IF m \in local THEN "unread" ELSE "read"
  /\ Begin(op, {m}, "row")
  /\ local' = IF op = "read" THEN local \cup {m} ELSE local \ {m}
  /\ Delta(IF op = "read" THEN -1 ELSE 1)
  /\ UNCHANGED <<shown, caches>>

\* runSelectedAction: a mark shows at once in the list itself.
MarkedBy(op, ids) == {m \in ids : (m \in shown.read) # (op = "read")}
Busy == \E r \in Requests : jobs[r].origin = "bulk" /\ jobs[r].mounted
MarkSelection(op, selection) ==
  /\ open /\ selection # {} /\ ~Busy /\ op \in Marks
  /\ Begin(op, selection, "bulk")
  /\ Show([shown EXCEPT !.read = IF op = "read" THEN @ \cup selection ELSE @ \ selection])
  /\ Delta(Cardinality(MarkedBy(op, selection)) * IF op = "read" THEN -1 ELSE 1)
  /\ UNCHANGED caches

\* MessageActions, MarkAsRead, the cards of a conversation, and every other action
\* of a row or the toolbar, which waits for the answer; or another device.  (Moving
\* a message elsewhere than to the spam folder is left to the other device.)
Act(m, op, origin) ==
  /\ mail[m] # Absent
  /\ \/ origin = "plain" /\ op # "move"
     \/ origin = "other" /\ op \in Marks \cup {"move"}
  /\ Begin(op, {m}, origin)
  /\ UNCHANGED <<shown, local, count, caches>>

NewRequest ==
  \E op \in Ops :
    \/ \E m \in Mails : MarkRow(m, op) \/ \E o \in Origins : Act(m, op, o)
    \/ \E ids \in SUBSET shown.rows : MarkSelection(op, ids)

-----------------------------------------------------------------------------
(***************************************************************************)
(* The server: a handler selects the messages, then updates them.          *)
(***************************************************************************)
ServerOnly == UNCHANGED <<page, caches, touched>>
Step(r, step) == jobs[r].step = step
Goto(r, step) == jobs' = [jobs EXCEPT ![r].step = step]

Effect(op, row) ==
  CASE op = "read" -> [row EXCEPT !.read = TRUE]
    [] op = "unread" -> [row EXCEPT !.read = FALSE]
    [] op = "move" -> [row EXCEPT !.place = "away"]
    [] op = "inbox" -> [row EXCEPT !.place = "inbox"]

\* spam: the messages the spam filter is to be told of.
SelectMail(r) ==
  LET j == jobs[r] ids == {m \in j.ids : mail[m] # Absent}
      spam == IF j.op = "spam" THEN ids
              ELSE IF j.op = "inbox" THEN {m \in ids : mail[m].place = "spam"} ELSE {} IN
  /\ Step(r, "select")
  /\ jobs' = [jobs EXCEPT ![r] =
       [@ EXCEPT !.ids = ids \ spam, !.spam = spam,
                 !.step = IF ids = {} THEN "failed" ELSE IF spam # {} THEN "recall" ELSE "write"]]
  /\ UNCHANGED <<mail, feedback, trained, begun, crossed, raced, events>> /\ ServerOnly

\* applySpamFeedback, one message after the other: the earlier classification
\* is read, then a batch replaces it in the counts.
Class(j) == IF j.op = "spam" THEN "spam" ELSE "ham"
Recall(r) ==
  LET m == CHOOSE m \in jobs[r].spam : TRUE IN
  /\ Step(r, "recall")
  /\ jobs' = [jobs EXCEPT ![r] = [@ EXCEPT !.previous = feedback[m], !.step = "learn"]]
  /\ UNCHANGED <<mail, feedback, trained, begun, crossed, raced, events>> /\ ServerOnly

(* mutant: the earlier classification stays counted *)
TrainedAgain(previous, class) ==
  IF previous = class THEN trained ELSE [trained EXCEPT ![class] = @ + 1]

Trained(previous, class) ==
  IF previous = class THEN trained
  ELSE [c \in Classes |-> IF c = class THEN trained[c] + 1
                          ELSE IF c = previous /\ trained[c] > 0 THEN trained[c] - 1
                          ELSE trained[c]]
Learn(r) ==
  LET j == jobs[r] m == CHOOSE m \in j.spam : TRUE rest == j.spam \ {m} IN
  /\ Step(r, "learn")
  /\ trained' = Trained(j.previous, Class(j))
  /\ feedback' = [feedback EXCEPT ![m] = Class(j)]
  /\ raced' = (raced \/ feedback[m] # j.previous)
  /\ mail' = [mail EXCEPT ![m].place = IF Class(j) = "spam" THEN "spam" ELSE "inbox"]
  /\ jobs' = [jobs EXCEPT ![r] = [@ EXCEPT !.spam = rest, !.previous = None, !.step =
       IF rest # {} THEN "recall" ELSE IF j.ids # {} THEN "write" ELSE "ok"]]
  /\ UNCHANGED <<begun, crossed, events>> /\ ServerOnly

Write(r) ==
  LET j == jobs[r] IN
  /\ Step(r, "write")
  /\ mail' = [m \in Mails |->
       IF m \in j.ids THEN Effect(j.op, mail[m]) ELSE mail[m]]
  /\ \/ Goto(r, "ok") /\ UNCHANGED <<crossed, events>>
     \* The audit log fails, or the answer is lost: done, but reported as failed.
     \/ Goto(r, "failed") /\ Event /\ crossed' = crossed \cup (IF j.op \in Marks THEN j.ids ELSE {})
  /\ UNCHANGED <<feedback, trained, begun, raced>> /\ ServerOnly

\* An error before anything, or anything more, is written.
Refuse(r) ==
  /\ jobs[r].step \in {"select", "recall", "learn", "write"}
  /\ Event /\ Goto(r, "failed")
  /\ UNCHANGED <<mail, feedback, trained, begun, crossed, raced>> /\ ServerOnly

Serving(r) == SelectMail(r) \/ Recall(r) \/ Learn(r) \/ Write(r)

-----------------------------------------------------------------------------
(***************************************************************************)
(* The browser hears of the outcome.                                       *)
(***************************************************************************)
Notifies(j) == j.origin # "other" /\ j.origin # "row"
Finished(r) == jobs' = [jobs EXCEPT ![r] = [NoJob EXCEPT !.step = "done"]]
Heard == UNCHANGED <<mail, feedback, trained, begun, open, touched, crossed, raced, events>>

Succeed(r) ==
  LET j == jobs[r] IN
  /\ Step(r, "ok") /\ Finished(r)
  /\ IF ~Notifies(j) THEN UNCHANGED caches ELSE MessagesChanged
  /\ UNCHANGED <<shown, local, count>> /\ Heard

\* The optimistic change is taken back: on a row to what it was, from the toolbar
\* to the whole list as it was.
Rollback(r) ==
  LET j == jobs[r]
      back == IF j.op = "read" THEN 1 ELSE -1 IN
  /\ Step(r, "failed") /\ Finished(r)
  /\ CASE j.origin = "row" ->
            /\ local' = CASE ~j.mounted -> local [] j.op = "read" -> local \ j.ids
                        [] OTHER -> local \cup (j.ids \cap shown.rows)
            /\ Delta(back) /\ UNCHANGED shown
       [] j.origin = "bulk" ->
            /\ IF j.mounted THEN Show(j.prior) ELSE UNCHANGED <<shown, local>>
            /\ Delta(back * Cardinality({m \in j.ids \cap j.prior.rows :
                                           (m \in j.prior.read) # (j.op = "read")}))
       [] OTHER -> UNCHANGED <<shown, local, count>>
  /\ UNCHANGED caches /\ Heard

Hear(r) == Succeed(r) \/ Rollback(r)

-----------------------------------------------------------------------------
(***************************************************************************)
(* New mail.                                                               *)
(***************************************************************************)
Arrive(m) ==
  /\ mail[m] = Absent
  /\ mail' = [mail EXCEPT ![m] = Arrived]
  /\ UNCHANGED <<feedback, trained, jobs, begun, page, caches, history, events>>

\* useMessagePolling: a new_message event, or the timer that runs while the socket
\* is down.  Whether it is connected is left open: neither is ever relied on.
Refresh ==
  /\ open /\ Event /\ MessagesChanged
  /\ UNCHANGED <<server, page, history>>

Loading == PollList \/ \E f \in Of(fetches, "list") : Serve(f) \/ ReceiveList(f)
Counting == PollCounts \/ \E f \in Of(fetches, "counts") : Serve(f) \/ ReceiveCounts(f)
Working == \E r \in Requests : Serving(r) \/ Hear(r)

Next ==
  \/ OpenPage \/ LeavePage \/ ChangeUser
  \/ Loading \/ Counting \/ Working
  \/ NewRequest \/ \E m \in Mails : Arrive(m)
  \/ \E r \in Requests : Refuse(r)
  \/ Refresh

\* The intervals keep firing, every request is answered and every answer heard.
Fairness == WF_vars(Loading) /\ WF_vars(Counting) /\ WF_vars(Working)

Spec == Init /\ [][Next]_vars
FairSpec == Spec /\ Fairness

-----------------------------------------------------------------------------
(***************************************************************************)
(* Properties                                                              *)
(***************************************************************************)
TypeOK ==
  /\ mail \in [Mails -> Rows]
  /\ feedback \in [Mails -> Classes \cup {None}]
  /\ trained \in [Classes -> Nat]
  /\ jobs \in [Requests -> Jobs]
  /\ begun \in Nat /\ events \in Nat /\ begun + events <= MaxEvents
  /\ open \in BOOLEAN /\ shown \in Lists /\ local \subseteq shown.rows
  /\ count \in Nat
  /\ listCache = None \/ listCache \in Entries
  /\ countsCache = None \/ countsCache \in Entries
  /\ fetches \subseteq Fetches
  /\ crossed \subseteq touched /\ raced \in BOOLEAN

(***************************************************************************)
(* What is cached belongs to the user who is signed in, and was read after *)
(* the latest change the page was told of, however the requests overlap:   *)
(* requests of an earlier generation are heard but not kept                *)
(* (utils.ts:107-113, 135-137).  The list has no generation of its own     *)
(* (utils.ts:80-82): a request for it that was under way when the cache    *)
(* was cleared may still put the older list there.                         *)
(***************************************************************************)
CachesAreCurrent ==
  /\ listCache # None => listCache.mine /\ (listCache.answer.late => listCache.spans)
  /\ countsCache # None => countsCache.mine /\ ~countsCache.answer.late

(***************************************************************************)
(* The spam filter has learnt of each message once, as what its owner last *)
(* called it (feedback.ts:18-45), whatever was said before; unless two     *)
(* classifications of one message overlapped, which both count.            *)
(***************************************************************************)
FeedbackIsCounted ==
  raced \/ \A c \in Classes : trained[c] = Cardinality({m \in Mails : feedback[m] = c})

(***************************************************************************)
(* Once nothing changes any more a page that stays open shows what the     *)
(* server has: the list, the unread count and which rows are read,         *)
(* whatever answers were late, failed or overtook one another and whatever *)
(* was shown in advance and taken back.  A row somebody marked twice, or   *)
(* whose marking failed after it was made, may keep its own state.         *)
(***************************************************************************)
ShownIsTrue ==
  <>[]open =>
    <>[](/\ shown = List /\ count = Unread
         /\ \A m \in Inbox \ crossed : m \in local <=> mail[m].read)
=============================================================================
