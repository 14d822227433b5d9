---------------------------- MODULE SignInProofs ----------------------------
(***************************************************************************)
(* What is proved of SignIn, for every set of browsers and any number of   *)
(* requests.                                                               *)
(***************************************************************************)
EXTENDS SignIn, FiniteSetTheorems, TLAPS

(***************************************************************************)
(* A request starts at the step of its kind, and what it brings along fits *)
(* its kind.                                                               *)
(***************************************************************************)
SettingKinds == {"change", "enroll", "confirm", "disable", "renew"}
Entry(kind) ==
  CASE kind \in SettingKinds -> "session?"
    [] kind = "reset" -> "set"
    [] kind = "disabling" -> "flags"
    [] OTHER -> kind

Proper(j) ==
  /\ j.code[1] = "recovery" => j.code[2] \in Ids
  /\ j.from \in Ids <=> j.kind \in {"verify", "redeem"}

(***************************************************************************)
(* PathInv: which kinds of request a step may belong to.                   *)
(***************************************************************************)
PathAt(j, step) ==
  /\ Proper(j)
  /\ step \in {"session?", "owner"} => j.kind \in SettingKinds
  /\ step \in {"verify", "user", "consume"} => j.kind = "verify"
  /\ step \in {"find", "burn"} => j.kind \in {"verify", "disable"} /\ j.code[1] = "recovery"
  /\ step \in {"redeem", "used"} => j.kind = "redeem"
  /\ step = "set" => j.kind \in {"redeem", "change", "reset"}
  /\ step = "on" => j.kind = "confirm"
  /\ step = "off" => j.kind = "disable"
  /\ step = "drop" => j.kind \in {"confirm", "renew", "disable"}
  /\ step = "issue" => j.kind \in {"confirm", "renew"}

Path(r) == PathAt(job[r], pc[r])
PathInv == \A r \in Requests : Path(r)

LEMMA Names == Requests \subseteq Ids /\ Ids \subseteq Held /\ None \in Held /\ None \notin Ids
               /\ 0 \in Ids
BY SignInAssumption DEF Requests, Ids, Held

LEMMA SessionJob ==
  ASSUME TypeOK, NEW b \in Browsers, NEW kind \in SettingKinds \cup {"logout"},
         NEW j, j = InSession(b, kind)
  PROVE  /\ j \in Jobs /\ j.kind = kind /\ j.from = None
         /\ j.code = <<"none", None>>
<1>1. Carried(b) \in Held /\ password \in Held /\ None \in Held
  BY Names DEF Carried, TypeOK, Held
<1>2. j = [kind |-> kind, by |-> b, session |-> Carried(b), password |-> password,
           code |-> <<"none", None>>, from |-> None]
  BY DEF InSession, NoJob
<1> QED
  BY <1>1, <1>2 DEF Jobs, Kinds, SettingKinds

\* The form in which a request is known to have been sent.
Sent(r) == \E j \in Jobs : Proper(j) /\ Send(r, Entry(j.kind), j)

LEMMA SentJob ==
  ASSUME NEW r, NEW j \in Jobs, Proper(j), NEW step, step = Entry(j.kind), Send(r, step, j)
  PROVE  Sent(r)
BY DEF Sent

LEMMA Sending ==
  ASSUME TypeOK, NEW r \in Requests,
         AdminReset(r) \/ AdminDisable(r) \/ \E b \in Browsers : Submit(b, r)
  PROVE  Sent(r)
<1>0. /\ password \in Held /\ phone \subseteq Ids /\ paper \subseteq Ids
      /\ pending \in [Browsers -> Held]
  BY Names DEF TypeOK, Held
<1>1. CASE AdminReset(r)
  <2> DEFINE j == [NoJob EXCEPT !.kind = "reset"]
  <2>1. j \in Jobs /\ j.kind = "reset" /\ j.from = None /\ j.code[1] = "none"
    BY Names DEF NoJob, Jobs, Kinds
  <2>2. Send(r, "set", j)
    BY <1>1 DEF AdminReset
  <2> HIDE DEF j
  <2> QED
    BY <2>1, <2>2, Names, SentJob DEF Proper, Entry, SettingKinds
<1>2. CASE AdminDisable(r)
  <2> DEFINE j == [NoJob EXCEPT !.kind = "disabling"]
  <2>1. j \in Jobs /\ j.kind = "disabling" /\ j.from = None /\ j.code[1] = "none"
    BY Names DEF NoJob, Jobs, Kinds
  <2>2. Send(r, "flags", j)
    BY <1>2 DEF AdminDisable
  <2> HIDE DEF j
  <2> QED
    BY <2>1, <2>2, Names, SentJob DEF Proper, Entry, SettingKinds
<1>3. ASSUME NEW b \in Browsers, Submit(b, r) PROVE Sent(r)
  <2>1. CASE SubmitLogin(b, r)
    <3> DEFINE j == [NoJob EXCEPT !.by = b, !.password = password]
    <3>1. j \in Jobs /\ j.kind = "login" /\ j.from = None /\ j.code[1] = "none"
      BY Names, <1>0 DEF NoJob, Jobs, Kinds
    <3>2. Send(r, "login", j)
      BY <2>1 DEF SubmitLogin
    <3> HIDE DEF j
    <3> QED
      BY <3>1, <3>2, Names, SentJob DEF Proper, Entry, SettingKinds
  <2>2. CASE RequestReset(b, r)
    <3> DEFINE j == [NoJob EXCEPT !.kind = "ask", !.by = b]
    <3>1. j \in Jobs /\ j.kind = "ask" /\ j.from = None /\ j.code[1] = "none"
      BY Names DEF NoJob, Jobs, Kinds
    <3>2. Send(r, "ask", j)
      BY <2>2 DEF RequestReset
    <3> HIDE DEF j
    <3> QED
      BY <3>1, <3>2, Names, SentJob DEF Proper, Entry, SettingKinds
  <2>3. ASSUME NEW kind \in SettingKinds \cup {"logout"}, NEW step, step = Entry(kind),
               Send(r, step, InSession(b, kind))
        PROVE  Sent(r)
    <3> DEFINE j == InSession(b, kind)
    <3>1. j \in Jobs /\ j.kind = kind /\ j.from = None /\ j.code = <<"none", None>>
      BY SessionJob
    <3>2. Proper(j)
      BY <3>1, Names DEF Proper, SettingKinds
    <3> HIDE DEF j
    <3> QED
      BY <2>3, <3>1, <3>2, SentJob DEF j
  <2>4. CASE ChangePassword(b, r) \/ OpenEnroll(b, r) \/ SubmitRenew(b, r) \/ ClickLogout(b, r)
    BY <2>3, <2>4 DEF ChangePassword, OpenEnroll, SubmitRenew, ClickLogout, Entry, SettingKinds
  <2>5. ASSUME NEW kind \in {"confirm", "disable"},
               NEW c \in {"totp", "recovery"} \X Ids,
               Send(r, "session?", [InSession(b, kind) EXCEPT !.code = c])
        PROVE  Sent(r)
    <3> DEFINE i == InSession(b, kind)
               j == [i EXCEPT !.code = c]
    <3>1. i \in Jobs /\ i.kind = kind /\ i.from = None
      BY SessionJob DEF SettingKinds
    <3> HIDE DEF i
    <3>2. j \in Jobs /\ j.kind = kind /\ j.from = None /\ j.code = c
      BY <3>1, Names DEF Jobs
    <3>3. Proper(j)
      BY <3>2, Names DEF Proper
    <3>4. Send(r, "session?", j)
      BY <2>5 DEF i
    <3>5. "session?" = Entry(j.kind)
      BY <3>2 DEF Entry, SettingKinds
    <3> HIDE DEF j
    <3> QED
      BY <3>2, <3>3, <3>4, <3>5, SentJob
  <2>6. ASSUME NEW c \in KnownCodes, SubmitDisable(b, r, c) PROVE Sent(r)
    BY <1>0, <2>5, <2>6 DEF SubmitDisable, KnownCodes
  <2>7. ASSUME NEW s \in phone, ConfirmEnroll(b, r, s) PROVE Sent(r)
    <3>1. <<"totp", s>> \in {"totp", "recovery"} \X Ids
      BY <1>0
    <3> QED
      BY <2>5, <2>7, <3>1 DEF ConfirmEnroll
  <2>8. ASSUME NEW c \in KnownCodes, SubmitMfaCode(b, r, c) PROVE Sent(r)
    <3> DEFINE j == [NoJob EXCEPT !.kind = "verify", !.by = b, !.code = c, !.from = pending[b]]
    <3>1. c \in {"totp", "recovery"} \X Ids /\ pending[b] \in Ids
      BY <1>0, <2>8 DEF SubmitMfaCode, KnownCodes, Held
    <3>2. j \in Jobs /\ j.kind = "verify" /\ j.from = pending[b] /\ j.code = c
      BY <3>1, Names DEF NoJob, Jobs, Kinds
    <3>3. Send(r, "verify", j)
      BY <2>8 DEF SubmitMfaCode
    <3> HIDE DEF j
    <3> QED
      BY <3>1, <3>2, <3>3, SentJob DEF Proper, Entry, SettingKinds
  <2>9. ASSUME NEW l \in Ids, OpenLink(b, r, l) PROVE Sent(r)
    <3> DEFINE j == [NoJob EXCEPT !.kind = "redeem", !.by = b, !.from = l]
    <3>1. j \in Jobs /\ j.kind = "redeem" /\ j.from = l /\ j.code[1] = "none"
      BY Names DEF NoJob, Jobs, Kinds
    <3>2. Send(r, "redeem", j)
      BY <2>9 DEF OpenLink
    <3> HIDE DEF j
    <3> QED
      BY <3>1, <3>2, SentJob DEF Proper, Entry, SettingKinds
  <2> QED
    BY <1>3, <2>1, <2>2, <2>4, <2>6, <2>7, <2>8, <2>9 DEF Submit
<1> QED
  BY <1>1, <1>2, <1>3

-----------------------------------------------------------------------------
(***************************************************************************)
(* Every step keeps every variable in its set.                             *)
(***************************************************************************)
LEMMA SentType ==
  ASSUME TypeOK, NEW r \in Requests, Sent(r)
  PROVE  TypeOK'
<1>1. PICK j \in Jobs : Proper(j) /\ Send(r, Entry(j.kind), j)
  BY DEF Sent
<1>2. Entry(j.kind) \in Steps
  BY DEF Jobs, Kinds, Entry, SettingKinds, Steps
<1> HIDE DEF Steps, Jobs
<1>3. /\ pc' \in [Requests -> Steps] /\ job' \in [Requests -> Jobs]
      /\ UNCHANGED <<account, tables, holdings, saw, history>>
  BY <1>1, <1>2 DEF TypeOK, Send, Goto, Quietly
<1> QED
  BY <1>3 DEF TypeOK, account, tables, holdings, history

LEMMA GotoType ==
  ASSUME TypeOK, NEW r, NEW step \in Steps, Goto(r, step)
  PROVE  pc' \in [Requests -> Steps]
BY DEF TypeOK, Goto

\* The steps of the server that only read, and those that write.
Serving(r) ==
  \/ TurnAway(r) \/ LoginRead(r) \/ ReadChallenge(r) \/ ReadUser(r) \/ FindSession(r)
  \/ FindOwner(r) \/ FindAccount(r) \/ FindCode(r) \/ FindLink(r)

Writing(r) ==
  \/ CreateChallenge(r) \/ CreateLink(r) \/ CreateSession(r) \/ ConsumeChallenge(r)
  \/ BurnCode(r) \/ SetPassword(r) \/ UseLink(r) \/ SignOut(r) \/ SetFlags(r)
  \/ StoreSecret(r) \/ TurnOn(r) \/ TurnOff(r) \/ DropCodes(r) \/ IssueCodes(r)
  \/ DeleteSession(r) \/ Throw(r)

LEMMA ReadType ==
  ASSUME TypeOK, PathInv, NEW r \in Requests, Serving(r)
  PROVE  TypeOK'
<1>0. /\ Account \in [password : Ids, factor : Factors, disabled : BOOLEAN]
      /\ job[r] \in Jobs /\ job[r].code[2] \in Held
      /\ Path(r)
  BY DEF TypeOK, Account, Jobs, PathInv
<1> USE <1>0, Names DEF TypeOK, account, tables, holdings, history, Still, Quietly, Goto
<1>1. CASE TurnAway(r) \/ ReadChallenge(r) \/ FindSession(r) \/ FindAccount(r)
  BY <1>1 DEF TurnAway, ReadChallenge, FindSession, FindAccount, Decides, Steps, Answers
<1>2. CASE LoginRead(r) \/ ReadUser(r)
  <2>1. /\ saw' \in [Ids -> [password : Ids, factor : Factors, disabled : BOOLEAN]]
        /\ UNCHANGED <<account, tables, holdings, job, history>>
    BY <1>2 DEF LoginRead, ReadUser, Reads
  <2>2. \E step \in Steps : Goto(r, step)
    BY <1>2 DEF LoginRead, ReadUser, Reads, Checked, Steps, Answers
  <2> QED
    BY <2>1, <2>2, GotoType DEF TypeOK, account, tables, holdings, history
<1>3. CASE FindOwner(r)
  <2>1. /\ saw' \in [Ids -> [password : Ids, factor : Factors, disabled : BOOLEAN]]
        /\ proven' \subseteq Held
        /\ UNCHANGED <<account, tables, holdings, job, born, late, grants, raced, clashes>>
    BY <1>3 DEF FindOwner
  <2>2. \E step \in Steps : Goto(r, step)
    BY <1>3 DEF FindOwner, Path, PathAt, SettingKinds, Checked, Steps, Answers
  <2> QED
    BY <2>1, <2>2, GotoType DEF TypeOK, account, tables, holdings
<1>4. CASE FindCode(r) \/ FindLink(r)
  <2>1. /\ raced' \subseteq {"code", "link"} \X Ids
        /\ UNCHANGED <<account, tables, holdings, job, saw, born, late, proven, grants, clashes>>
    BY <1>4 DEF FindCode, FindLink, Path, PathAt, Proper
  <2>2. \E step \in Steps : Goto(r, step)
    BY <1>4 DEF FindCode, FindLink, Steps, Answers
  <2> QED
    BY <2>1, <2>2, GotoType DEF TypeOK, account, tables, holdings
<1> QED
  BY <1>1, <1>2, <1>3, <1>4 DEF Serving

LEMMA FactorValues ==
  ASSUME NEW f \in Factors, NEW r \in Requests
  PROVE  /\ [f EXCEPT !.on = TRUE] \in Factors /\ Off \in Factors
         /\ [on |-> FALSE, secret |-> r] \in Factors
<1>1. r \in Held /\ None \in Held
  BY Names
<1> QED
  BY <1>1 DEF Factors, Off

LEMMA GrantUpdates ==
  ASSUME NEW g \in [Ids -> [code : Nat, link : Nat]], NEW i
  PROVE  /\ [g EXCEPT ![i].code = @ + 1] \in [Ids -> [code : Nat, link : Nat]]
         /\ [g EXCEPT ![i].link = @ + 1] \in [Ids -> [code : Nat, link : Nat]]
<1> DEFINE Grants == [code : Nat, link : Nat]
           x == [g[i] EXCEPT !.code = @ + 1]
           y == [g[i] EXCEPT !.link = @ + 1]
<1>1. g \in [Ids -> Grants]
  OBVIOUS
<1>2. i \in Ids => x \in Grants /\ y \in Grants
  <2> SUFFICES ASSUME i \in Ids PROVE x \in Grants /\ y \in Grants
    OBVIOUS
  <2>1. g[i] \in Grants
    BY <1>1
  <2> QED
    BY <2>1
<1>3. /\ [g EXCEPT ![i].code = @ + 1] = [g EXCEPT ![i] = x]
      /\ [g EXCEPT ![i].link = @ + 1] = [g EXCEPT ![i] = y]
  OBVIOUS
<1> HIDE DEF Grants, x, y
<1>4. [g EXCEPT ![i] = x] \in [Ids -> Grants] /\ [g EXCEPT ![i] = y] \in [Ids -> Grants]
  BY <1>1, <1>2
<1> QED
  BY <1>3, <1>4 DEF Grants

LEMMA UsedGrants ==
  ASSUME TypeOK, NEW r \in Requests, BurnCode(r) \/ SetPassword(r)
  PROVE  grants' \in [Ids -> [code : Nat, link : Nat]]
<1>1. \/ grants' = grants
      \/ \E i : \/ grants' = [grants EXCEPT ![i].code = @ + 1]
               \/ grants' = [grants EXCEPT ![i].link = @ + 1]
  BY DEF BurnCode, SetPassword
<1>2. grants \in [Ids -> [code : Nat, link : Nat]]
  BY DEF TypeOK
<1> QED
  BY <1>1, <1>2, GrantUpdates

LEMMA PasswordBirths ==
  ASSUME TypeOK, NEW r \in Requests, SetPassword(r)
  PROVE  born' \in [Ids -> [password : Ids, factor : BOOLEAN]]
<1> DEFINE Births == [password : Ids, factor : BOOLEAN]
           s == job[r].session
           birth == [born[s] EXCEPT !.password = r]
<1>1. born \in [Ids -> Births] /\ r \in Ids
  BY Names DEF TypeOK
<1>2. s \in Ids => birth \in Births
  <2> SUFFICES ASSUME s \in Ids PROVE birth \in Births
    OBVIOUS
  <2>1. born[s] \in Births
    BY <1>1
  <2> QED
    BY <1>1, <2>1
<1>3. born' = born \/ born' = [born EXCEPT ![s] = birth]
  BY DEF SetPassword
<1> HIDE DEF Births, birth, s
<1>4. born' \in [Ids -> Births]
  BY <1>1, <1>2, <1>3
<1> QED
  BY <1>4 DEF Births

LEMMA WriteType ==
  ASSUME TypeOK, PathInv, NEW r \in Requests, Writing(r)
  PROVE  TypeOK'
<1>0. /\ job[r] \in Jobs /\ Path(r) /\ r \in Ids
  BY Names DEF TypeOK, PathInv
<1> USE <1>0, Names DEF TypeOK, account, tables, holdings, history, Quietly, Goto
<1>1. CASE CreateChallenge(r) \/ CreateLink(r) \/ ConsumeChallenge(r) \/ DeleteSession(r)
           \/ UseLink(r) \/ SetFlags(r) \/ SignOut(r) \/ IssueCodes(r)
  BY <1>1 DEF CreateChallenge, CreateLink, ConsumeChallenge, DeleteSession, UseLink,
     SetFlags, SignOut, IssueCodes, Steps, Answers
<1>2. CASE CreateSession(r)
  <2>1. saw[IF job[r].kind = "verify" THEN job[r].from ELSE r].password \in Ids
    BY DEF Path, PathAt, Proper
  <2>2. /\ sessions' \subseteq Ids /\ late' \subseteq Ids
        /\ born' \in [Ids -> [password : Ids, factor : BOOLEAN]]
    BY <1>2, <2>1 DEF CreateSession
  <2>3. pc' \in [Requests -> Steps]
    BY <1>2, GotoType DEF CreateSession, Steps, Answers
  <2> QED
    BY <1>2, <2>2, <2>3 DEF CreateSession
<1>3. CASE BurnCode(r)
  <2>1. codes' \subseteq Ids /\ grants' \in [Ids -> [code : Nat, link : Nat]]
    BY <1>3, UsedGrants DEF BurnCode
  <2>2. pc' \in [Requests -> Steps]
    BY <1>3, GotoType DEF BurnCode, Steps
  <2> QED
    BY <1>3, <2>1, <2>2 DEF BurnCode
<1>4. CASE SetPassword(r)
  <2>1. born' \in [Ids -> [password : Ids, factor : BOOLEAN]]
    BY <1>4, PasswordBirths
  <2>2. grants' \in [Ids -> [code : Nat, link : Nat]]
    BY <1>4, UsedGrants
  <2>3. pc' \in [Requests -> Steps]
    BY <1>4, GotoType DEF SetPassword, Steps
  <2> QED
    BY <1>4, <2>1, <2>2, <2>3 DEF SetPassword
<1>5. CASE StoreSecret(r) \/ Throw(r)
  <2>1. factor' \in Factors
    <3>1. factor' = factor \/ factor' = [on |-> FALSE, secret |-> r]
      BY <1>5 DEF StoreSecret, Throw
    <3>2. factor \in Factors /\ [on |-> FALSE, secret |-> r] \in Factors
      BY FactorValues
    <3> QED
      BY <3>1, <3>2
  <2>3. clashes' \subseteq {"cut", "swapped", "mixed"}
    BY <1>5 DEF StoreSecret, Throw
  <2>2. pc' \in [Requests -> Steps]
    BY <1>5, GotoType DEF StoreSecret, Throw, Steps, Answers
  <2> QED
    BY <1>5, <2>1, <2>2, <2>3 DEF StoreSecret, Throw
<1>6. CASE TurnOn(r) \/ TurnOff(r) \/ DropCodes(r)
  <2>1. clashes' \subseteq {"cut", "swapped", "mixed"} /\ codes' \subseteq Ids
    BY <1>6 DEF TurnOn, TurnOff, DropCodes, Crossing
  <2>0. [factor EXCEPT !.on = TRUE] \in Factors /\ Off \in Factors
    BY FactorValues
  <2>4. factor' \in Factors
    BY <1>6, <2>0 DEF TurnOn, TurnOff, DropCodes
  <2>2. born' \in [Ids -> [password : Ids, factor : BOOLEAN]]
    <3>1. CASE TurnOn(r)
      <4> DEFINE s == job[r].session
      <4>1. born' = [born EXCEPT ![s].factor = TRUE]
        BY <3>1 DEF TurnOn
      <4> HIDE DEF s
      <4>2. born \in [Ids -> [password : Ids, factor : BOOLEAN]]
        OBVIOUS
      <4> QED
        BY <4>1, <4>2
    <3> QED
      BY <1>6, <3>1 DEF TurnOff, DropCodes
  <2>3. pc' \in [Requests -> Steps]
    BY <1>6, GotoType DEF TurnOn, TurnOff, DropCodes, Steps, Answers
  <2> QED
    BY <1>6, <2>1, <2>2, <2>3, <2>4 DEF TurnOn, TurnOff, DropCodes
<1> QED
  BY <1>1, <1>2, <1>3, <1>4, <1>5, <1>6 DEF Writing

LEMMA AnswerFrame ==
  ASSUME NEW r, Answer(r)
  PROVE  /\ UNCHANGED <<account, tables, job, saw, history>>
         /\ Goto(r, "done") /\ pc[r] \in Answers
BY DEF Answer, SignedIn, AskedForCode, BackToPassword, ScanSecret, SaveCodes, LoggedOut,
   SentToLogin, ShowMessage, NoNews, Hear, Quietly, Answers

LEMMA AnswerType ==
  ASSUME TypeOK, NEW r \in Requests, Answer(r)
  PROVE  TypeOK'
<1>0. /\ bearer \in [Browsers -> Held] /\ cookie \in [Browsers -> Held]
      /\ pending \in [Browsers -> Held]
      /\ phone \subseteq Ids /\ paper \subseteq Ids /\ r \in Held /\ None \in Held
      /\ r \in Ids
  BY Names DEF TypeOK
<1>1. /\ bearer' \in [Browsers -> Held] /\ cookie' \in [Browsers -> Held]
      /\ pending' \in [Browsers -> Held]
      /\ phone' \subseteq Ids /\ paper' \subseteq Ids
  <2>1. CASE SignedIn(r) \/ AskedForCode(r) \/ BackToPassword(r)
    BY <1>0, <2>1 DEF SignedIn, AskedForCode, BackToPassword
  <2>2. CASE ScanSecret(r) \/ SaveCodes(r) \/ LoggedOut(r)
    BY <1>0, <2>2 DEF ScanSecret, SaveCodes, LoggedOut
  <2>3. CASE SentToLogin(r) \/ ShowMessage(r) \/ NoNews(r)
    BY <1>0, <2>3 DEF SentToLogin, ShowMessage, NoNews, holdings
  <2> QED
    BY <2>1, <2>2, <2>3 DEF Answer
<1>2. pc' \in [Requests -> Steps]
  BY AnswerFrame, GotoType DEF Steps
<1> QED
  BY <1>1, <1>2, AnswerFrame DEF TypeOK, account, tables, history

-----------------------------------------------------------------------------
(***************************************************************************)
(* A step of a request keeps to the path of its kind.                      *)
(***************************************************************************)
LEMMA PathFrame ==
  ASSUME TypeOK, PathInv, NEW r \in Requests, NEW step, Goto(r, step), UNCHANGED job,
         PathAt(job[r], step)
  PROVE  PathInv'
<1>1. /\ pc \in [Requests -> Steps] /\ pc' = [pc EXCEPT ![r] = step]
  BY DEF TypeOK, Goto
<1>2. ASSUME NEW q \in Requests PROVE PathAt(job[q], pc'[q])
  BY <1>1 DEF PathInv, Path
<1> QED
  BY <1>2 DEF PathInv, Path

LEMMA ReadPath ==
  ASSUME TypeOK, PathInv, NEW r \in Requests, Serving(r)
  PROVE  PathInv'
<1>0. UNCHANGED job
  BY DEF Serving, TurnAway, LoginRead, ReadChallenge, ReadUser, FindSession, FindOwner,
     FindAccount, FindCode, FindLink, Reads, Decides, Still
<1>1. PathAt(job[r], pc[r])
  BY DEF PathInv, Path
<1>2. \E step : Goto(r, step) /\ PathAt(job[r], step)
  <2>1. CASE TurnAway(r) \/ FindAccount(r) \/ FindSession(r) \/ ReadChallenge(r)
    BY <1>1, <2>1 DEF TurnAway, FindAccount, FindSession, ReadChallenge, Decides, PathAt
  <2>2. CASE LoginRead(r) \/ ReadUser(r)
    BY <1>1, <2>2 DEF LoginRead, ReadUser, Reads, Checked, PathAt
  <2>3. CASE FindOwner(r)
    BY <1>1, <2>3 DEF FindOwner, Checked, PathAt, SettingKinds
  <2>4. CASE FindCode(r) \/ FindLink(r)
    BY <1>1, <2>4 DEF FindCode, FindLink, PathAt
  <2> QED
    BY <2>1, <2>2, <2>3, <2>4 DEF Serving
<1> QED
  BY <1>0, <1>2, PathFrame

LEMMA WritePath ==
  ASSUME TypeOK, PathInv, NEW r \in Requests, Writing(r)
  PROVE  PathInv'
<1>0. UNCHANGED job
  BY DEF Writing, CreateChallenge, CreateLink, CreateSession, ConsumeChallenge, BurnCode,
     SetPassword, UseLink, SignOut, SetFlags, StoreSecret, TurnOn, TurnOff, DropCodes,
     IssueCodes, DeleteSession, Throw
<1>1. PathAt(job[r], pc[r])
  BY DEF PathInv, Path
<1>2. \E step : Goto(r, step) /\ PathAt(job[r], step)
  <2>1. CASE CreateChallenge(r) \/ CreateLink(r) \/ CreateSession(r) \/ ConsumeChallenge(r)
             \/ UseLink(r) \/ SetFlags(r) \/ StoreSecret(r) \/ DeleteSession(r) \/ Throw(r)
    BY <1>1, <2>1 DEF CreateChallenge, CreateLink, CreateSession, ConsumeChallenge, UseLink,
       SetFlags, StoreSecret, DeleteSession, Throw, PathAt
  <2>2. CASE BurnCode(r) \/ SetPassword(r) \/ SignOut(r)
    BY <1>1, <2>2 DEF BurnCode, SetPassword, SignOut, PathAt
  <2>3. CASE TurnOn(r) \/ TurnOff(r) \/ DropCodes(r) \/ IssueCodes(r)
    BY <1>1, <2>3 DEF TurnOn, TurnOff, DropCodes, IssueCodes, PathAt
  <2> QED
    BY <2>1, <2>2, <2>3 DEF Writing
<1> QED
  BY <1>0, <1>2, PathFrame

LEMMA SentPath ==
  ASSUME TypeOK, PathInv, NEW r \in Requests, Sent(r)
  PROVE  PathInv'
<1>1. PICK j \in Jobs : Proper(j) /\ Send(r, Entry(j.kind), j)
  BY DEF Sent
<1>2. PathAt(j, Entry(j.kind))
  BY <1>1 DEF PathAt, Entry, SettingKinds, Jobs, Kinds
<1>3. /\ pc \in [Requests -> Steps] /\ pc' = [pc EXCEPT ![r] = Entry(j.kind)]
      /\ job \in [Requests -> Jobs] /\ job' = [job EXCEPT ![r] = j]
  BY <1>1 DEF TypeOK, Send, Goto
<1> HIDE DEF Jobs, Steps
<1>4. ASSUME NEW q \in Requests PROVE PathAt(job'[q], pc'[q])
  BY <1>2, <1>3 DEF PathInv, Path
<1> QED
  BY <1>4 DEF PathInv, Path

\* What a step is: sent, read, written or heard of, or an end by time.
LEMMA Cases ==
  ASSUME TypeOK, [Next]_vars
  PROVE  \/ \E r \in Requests : Sent(r) \/ Serving(r) \/ Writing(r) \/ Answer(r)
         \/ Expire \/ UNCHANGED vars
BY Sending DEF Next, Serve, Serving, Writing

LEMMA StepType ==
  TypeOK /\ PathInv /\ [Next]_vars => TypeOK' /\ PathInv'
<1> SUFFICES ASSUME TypeOK, PathInv, [Next]_vars PROVE TypeOK' /\ PathInv'
  OBVIOUS
<1>1. CASE Expire
  BY <1>1 DEF Expire, TypeOK, PathInv, Path, account, holdings, history, Quietly
<1>2. CASE UNCHANGED vars
  BY <1>2 DEF vars, TypeOK, PathInv, Path, account, tables, holdings, history
<1>3. ASSUME NEW r \in Requests, Answer(r) PROVE TypeOK' /\ PathInv'
  BY <1>3, AnswerType, AnswerFrame, PathFrame DEF PathInv, Path, PathAt
<1>4. ASSUME NEW r \in Requests, Sent(r) \/ Serving(r) \/ Writing(r) PROVE TypeOK' /\ PathInv'
  BY <1>4, SentType, SentPath, ReadType, ReadPath, WriteType, WritePath
<1> QED
  BY <1>1, <1>2, <1>3, <1>4, Cases

-----------------------------------------------------------------------------
(***************************************************************************)
(* SessionInv: a session that does not rest on the account as it is was    *)
(* made late, or a request is on its way to end it: one that will end all, *)
(* or one that will spare another session only.                            *)
(***************************************************************************)
Ends(r, s) ==
  \/ pc[r] \in {"used", "all"}
  \/ /\ pc[r] = "others" \/ (pc[r] \in {"drop", "issue"} /\ job[r].kind = "confirm")
     /\ job[r].session # s

SessionInv ==
  "cut" \in clashes \/ \A s \in sessions : Current(s) \/ s \in late \/ \E r \in Requests : Ends(r, s)

\* A step that leaves sessions alone and moves a request that ends none.
LEMMA SessionFrame ==
  ASSUME TypeOK, SessionInv, NEW r \in Requests, NEW step, Goto(r, step),
         pc[r] \notin {"used", "all", "others", "drop", "issue"},
         \A q \in Requests \ {r} : job'[q] = job[q],
         clashes \subseteq clashes', sessions' \subseteq sessions,
         UNCHANGED <<password, born, late>>, factor' = factor \/ ~factor'.on
  PROVE  SessionInv'
<1>1. pc \in [Requests -> Steps] /\ pc' = [pc EXCEPT ![r] = step]
  BY DEF TypeOK, Goto
<1>2. \A q \in Requests, s \in sessions : Ends(q, s) => Ends(q, s)'
  BY <1>1 DEF Ends
<1>3. \A s \in sessions : Current(s) => Current(s)'
  BY DEF Current
<1> QED
  BY <1>2, <1>3 DEF SessionInv

LEMMA SessionStep ==
  TypeOK /\ PathInv /\ SessionInv /\ [Next]_vars => SessionInv'
<1> SUFFICES ASSUME TypeOK, PathInv, SessionInv, [Next]_vars PROVE SessionInv'
  OBVIOUS
<1>1. CASE Expire
  BY <1>1 DEF Expire, SessionInv, Ends, Current, account, holdings, history, Quietly
<1>2. CASE UNCHANGED vars
  BY <1>2 DEF vars, SessionInv, Ends, Current, account, tables, holdings, history
<1>3. ASSUME NEW r \in Requests, Answer(r) PROVE SessionInv'
  BY <1>3, AnswerFrame, SessionFrame DEF Answers, account, tables, history
<1>4. ASSUME NEW r \in Requests, Sent(r) PROVE SessionInv'
  <2>1. PICK j \in Jobs : Send(r, Entry(j.kind), j)
    BY <1>4 DEF Sent
  <2>2. \A q \in Requests \ {r} : job'[q] = job[q]
    BY <2>1 DEF Send, TypeOK
  <2> QED
    BY <2>1, <2>2, SessionFrame DEF Send, Quietly, account, tables, history
<1>5. ASSUME NEW r \in Requests, Serving(r) PROVE SessionInv'
  <2>1. /\ UNCHANGED <<account, tables, job, born, late, clashes>>
        /\ \E step : Goto(r, step)
        /\ pc[r] \notin {"used", "all", "others", "drop", "issue"}
    BY <1>5 DEF Serving, TurnAway, LoginRead, ReadChallenge, ReadUser, FindSession, FindOwner,
       FindAccount, FindCode, FindLink, Reads, Decides, Still, Quietly, history
  <2> QED
    BY <2>1, SessionFrame DEF account, tables
<1>6. ASSUME NEW r \in Requests, Writing(r) PROVE SessionInv'
  <2>0. /\ pc \in [Requests -> Steps] /\ sessions \subseteq Ids
        /\ born \in [Ids -> [password : Ids, factor : BOOLEAN]] /\ r \in Ids
        /\ PathAt(job[r], pc[r])
    BY Names DEF TypeOK, PathInv, Path
  <2> USE <2>0
  <2>1. CASE \/ CreateChallenge(r) \/ CreateLink(r) \/ ConsumeChallenge(r) \/ BurnCode(r)
             \/ SetFlags(r) \/ StoreSecret(r) \/ DeleteSession(r) \/ TurnOff(r)
    <3>1. /\ sessions' \subseteq sessions /\ clashes \subseteq clashes'
          /\ UNCHANGED <<password, job, born, late>>
          /\ factor' = factor \/ ~factor'.on
          /\ \E step : Goto(r, step)
          /\ pc[r] \notin {"used", "all", "others", "drop", "issue"}
      BY <2>1 DEF CreateChallenge, CreateLink, ConsumeChallenge, BurnCode, SetFlags,
         StoreSecret, DeleteSession, TurnOff, Crossing, Off, Quietly, account, tables, history
    <3>2. \A q \in Requests \ {r} : job'[q] = job[q]
      BY <3>1
    <3>3. PICK step : Goto(r, step)
      BY <3>1
    <3> QED
      BY <3>1, <3>2, <3>3, SessionFrame
  <2>2. CASE CreateSession(r)
    <3>1. \A q \in Requests, s \in sessions : Ends(q, s) => Ends(q, s)'
      BY <2>2 DEF CreateSession, Goto, Ends
    <3>2. \A s \in sessions \ {r} : Current(s) => Current(s)'
      BY <2>2 DEF CreateSession, Current, account
    <3>3. Current(r)' \/ r \in late'
      BY <2>2 DEF CreateSession, Current, account
    <3> QED
      BY <2>2, <3>1, <3>2, <3>3 DEF CreateSession, SessionInv
  <2>3. CASE SetPassword(r)
    <3>1. CASE job[r].kind = "change"
      <4>1. \A q \in Requests, s \in sessions : Ends(q, s) => Ends(q, s)'
        BY <2>3 DEF SetPassword, Goto, Ends
      <4>2. ASSUME NEW s \in sessions, s # job[r].session PROVE Ends(r, s)'
        BY <2>3, <3>1, <4>2 DEF SetPassword, Goto, Ends
      <4>3. ASSUME NEW s \in sessions, s = job[r].session, Current(s) PROVE Current(s)'
        BY <2>3, <3>1, <4>3 DEF SetPassword, Current
      <4> QED
        BY <2>3, <4>1, <4>2, <4>3 DEF SetPassword, SessionInv, tables
    <3>2. CASE job[r].kind # "change"
      <4>1. pc'[r] \in {"used", "all"}
        BY <2>3, <3>2 DEF SetPassword, Goto
      <4> QED
        BY <4>1 DEF SessionInv, Ends
    <3> QED
      BY <3>1, <3>2
  <2>4. CASE SignOut(r)
    <3>1. sessions' \subseteq sessions /\ (sessions' = {} \/ sessions' \subseteq {job[r].session})
      BY <2>4 DEF SignOut
    <3>2. \A q \in Requests \ {r}, s \in sessions : Ends(q, s) => Ends(q, s)'
      BY <2>4 DEF SignOut, Goto, Ends
    <3>3. ASSUME NEW s \in sessions' PROVE ~Ends(r, s)
      BY <2>4, <3>1, <3>3 DEF SignOut, Ends
    <3>4. \A s \in sessions : Current(s) => Current(s)'
      BY <2>4 DEF SignOut, Current, account, Quietly, history
    <3> QED
      BY <2>4, <3>1, <3>2, <3>3, <3>4 DEF SignOut, SessionInv, Quietly, history
  <2>5. CASE TurnOn(r)
    <3>1. \A q \in Requests, s \in sessions : Ends(q, s) => Ends(q, s)'
      BY <2>5 DEF TurnOn, Goto, Ends
    <3>2. ASSUME NEW s \in sessions, s # job[r].session PROVE Ends(r, s)'
      BY <2>5, <3>2 DEF TurnOn, Goto, Ends, PathAt
    <3>3. ASSUME NEW s \in sessions, s = job[r].session, Current(s) PROVE Current(s)'
      BY <2>5, <3>3 DEF TurnOn, Current
    <3>4. clashes \subseteq clashes'
      BY <2>5 DEF TurnOn, Crossing
    <3> QED
      BY <2>5, <3>1, <3>2, <3>3, <3>4 DEF TurnOn, SessionInv, tables
  <2>6. CASE UseLink(r) \/ DropCodes(r) \/ IssueCodes(r)
    <3>1. \A q \in Requests, s \in sessions : Ends(q, s) => Ends(q, s)'
      BY <2>6 DEF UseLink, DropCodes, IssueCodes, Goto, Ends, PathAt
    <3>2. \A s \in sessions : Current(s) => Current(s)'
      BY <2>6 DEF UseLink, DropCodes, IssueCodes, Current, account, Quietly, history
    <3>3. clashes \subseteq clashes' /\ UNCHANGED <<sessions, late>>
      BY <2>6 DEF UseLink, DropCodes, IssueCodes, Crossing, Quietly, history, tables
    <3> QED
      BY <3>1, <3>2, <3>3 DEF SessionInv
  <2>7. CASE Throw(r)
    <3>1. \A q \in Requests, s \in sessions :
            Ends(q, s) => Ends(q, s)' \/ "cut" \in clashes'
      BY <2>7 DEF Throw, Goto, Ends
    <3>2. \A s \in sessions : Current(s) => Current(s)'
      BY <2>7 DEF Throw, Current, account
    <3> QED
      BY <2>7, <3>1, <3>2 DEF Throw, SessionInv, tables
  <2> QED
    BY <1>6, <2>1, <2>2, <2>3, <2>4, <2>5, <2>6, <2>7 DEF Writing
<1> QED
  BY <1>1, <1>2, <1>3, <1>4, <1>5, <1>6, Cases

-----------------------------------------------------------------------------
(***************************************************************************)
(* CodesInv: a recovery code is there, or has been taken, or is held by    *)
(* the one request that found it; and before a list is issued there is     *)
(* nothing of it.                                                          *)
(***************************************************************************)
Ended == Answers \cup {"others", "all", "flags", "done"}
Burning(r, i) == pc[r] = "burn" /\ job[r].code[2] = i

CodeOnce(i) ==
  /\ grants[i].code <= 1
  /\ i \in codes => grants[i].code = 0
  /\ \A r \in Requests : Burning(r, i) =>
       grants[i].code = 0 /\ \A q \in Requests : Burning(q, i) => q = r

CodeUnmade(i) ==
  i \notin codes /\ grants[i].code = 0 /\ \A r \in Requests : ~Burning(r, i)

CodesInv ==
  /\ \A i \in Ids : <<"code", i>> \in raced \/ CodeOnce(i)
  /\ \A i \in Requests : pc[i] \in Ended \/ CodeUnmade(i)

LEMMA CodesFrame ==
  ASSUME TypeOK, CodesInv, NEW r \in Requests, NEW step, Goto(r, step),
         step # "burn", pc[r] \in Ended => step \in Ended,
         \A q \in Requests \ {r} : job'[q] = job[q],
         \A i \in Ids : grants'[i].code = grants[i].code,
         codes' \subseteq codes, raced \subseteq raced'
  PROVE  CodesInv'
<1>1. pc \in [Requests -> Steps] /\ pc' = [pc EXCEPT ![r] = step] /\ Requests \subseteq Ids
  BY Names DEF TypeOK, Goto
<1>2. \A q \in Requests, i \in Ids : Burning(q, i)' => Burning(q, i)
  BY <1>1 DEF Burning
<1>3. \A i \in Ids : CodeOnce(i) => CodeOnce(i)'
  BY <1>2 DEF CodeOnce
<1>4. \A i \in Requests : CodeUnmade(i) => CodeUnmade(i)'
  BY <1>1, <1>2 DEF CodeUnmade
<1>5. \A i \in Requests : pc[i] \in Ended => pc'[i] \in Ended
  BY <1>1
<1> QED
  BY <1>3, <1>4, <1>5 DEF CodesInv

LEMMA CodesStep ==
  TypeOK /\ PathInv /\ CodesInv /\ [Next]_vars => CodesInv'
<1> SUFFICES ASSUME TypeOK, PathInv, CodesInv, [Next]_vars PROVE CodesInv'
  OBVIOUS
<1>0. /\ pc \in [Requests -> Steps] /\ codes \subseteq Ids /\ Requests \subseteq Ids
      /\ grants \in [Ids -> [code : Nat, link : Nat]]
  BY Names DEF TypeOK
<1>1. CASE Expire
  BY <1>1 DEF Expire, CodesInv, CodeOnce, CodeUnmade, Burning, account, holdings, history, Quietly
<1>2. CASE UNCHANGED vars
  BY <1>2 DEF vars, CodesInv, CodeOnce, CodeUnmade, Burning, account, tables, holdings, history
<1>3. ASSUME NEW r \in Requests, Answer(r) PROVE CodesInv'
  BY <1>3, AnswerFrame, CodesFrame DEF Ended, account, tables, history
<1>4. ASSUME NEW r \in Requests, Sent(r) PROVE CodesInv'
  <2>1. PICK j \in Jobs : Send(r, Entry(j.kind), j)
    BY <1>4 DEF Sent
  <2>2. \A q \in Requests \ {r} : job'[q] = job[q]
    BY <2>1 DEF Send, TypeOK
  <2>3. Entry(j.kind) # "burn" /\ pc[r] \notin Ended
    BY <2>1 DEF Send, Entry, SettingKinds, Ended, Answers, Jobs, Kinds
  <2> QED
    BY <2>1, <2>2, <2>3, CodesFrame DEF Send, Quietly, account, tables, history
<1>5. ASSUME NEW r \in Requests, Serving(r) PROVE CodesInv'
  <2>1. CASE FindCode(r)
    <3> DEFINE n == job[r].code[2]
    <3>0. n \in Ids /\ pc[r] = "find" /\ UNCHANGED <<codes, grants, job>>
      BY <2>1 DEF FindCode, PathInv, Path, PathAt, Proper, account
    <3>1. CASE n \in codes
      <4>1. pc' = [pc EXCEPT ![r] = "burn"] /\ raced \subseteq raced'
        BY <2>1, <3>1 DEF FindCode, Goto
      <4>2. \A q \in Requests, i \in Ids : Burning(q, i)' => Burning(q, i) \/ (q = r /\ i = n)
        BY <1>0, <3>0, <4>1 DEF Burning
      <4>3. ASSUME NEW i \in Requests, pc'[i] \notin Ended PROVE CodeUnmade(i)'
        <5>1. pc[i] \notin Ended
          BY <1>0, <3>0, <4>1, <4>3 DEF Ended, Answers
        <5>2. CodeUnmade(i)
          BY <5>1 DEF CodesInv
        <5> QED
          BY <1>0, <3>0, <3>1, <4>2, <5>2 DEF CodeUnmade
      <4>4. ASSUME NEW i \in Ids, <<"code", i>> \notin raced' PROVE CodeOnce(i)'
        <5>1. CodeOnce(i)
          BY <4>1, <4>4 DEF CodesInv
        <5>2. CASE i # n
          BY <3>0, <4>2, <5>1, <5>2 DEF CodeOnce
        <5>3. CASE i = n
          <6>1. \A q \in Requests : ~Burning(q, n)
            BY <2>1, <3>1, <4>4, <5>3 DEF FindCode, Burning
          <6> QED
            BY <3>0, <3>1, <4>2, <5>1, <5>3, <6>1 DEF CodeOnce
        <5> QED
          BY <5>2, <5>3
      <4> QED
        BY <4>3, <4>4 DEF CodesInv
    <3>2. CASE n \notin codes
      <4>1. Goto(r, "refused") /\ raced \subseteq raced'
        BY <2>1, <3>2 DEF FindCode
      <4>2. "refused" \in Ended /\ "refused" # "burn"
        BY DEF Ended, Answers
      <4> QED
        BY <3>0, <4>1, <4>2, CodesFrame
    <3> QED
      BY <3>1, <3>2
  <2>2. CASE ~FindCode(r)
    <3>1. /\ UNCHANGED <<codes, grants, job>> /\ raced \subseteq raced'
          /\ \E step : Goto(r, step) /\ step # "burn"
          /\ pc[r] \notin Ended
      BY <1>5, <2>2 DEF Serving, TurnAway, LoginRead, ReadChallenge, ReadUser, FindSession,
         FindOwner, FindAccount, FindLink, Reads, Decides, Still, Quietly, history, account,
         Checked, Ended, Answers, PathInv, Path, PathAt, SettingKinds
    <3> QED
      BY <3>1, CodesFrame
  <2> QED
    BY <2>1, <2>2
<1>6. ASSUME NEW r \in Requests, Writing(r) PROVE CodesInv'
  <2>1. CASE BurnCode(r)
    <3> DEFINE n == job[r].code[2]
    <3>0. n \in Ids /\ UNCHANGED <<job, raced>> /\ Burning(r, n)
      BY <2>1 DEF BurnCode, PathInv, Path, PathAt, Proper, Burning
    <3>1. /\ codes' = codes \ {n} /\ grants'[n].code = grants[n].code + 1
          /\ \A i \in Ids \ {n} : grants'[i].code = grants[i].code
      BY <1>0, <2>1, <3>0 DEF BurnCode
    <3>2. \A q \in Requests, i \in Ids : Burning(q, i)' => Burning(q, i) /\ q # r
      BY <1>0, <2>1 DEF BurnCode, Burning, Goto
    <3>3. ASSUME NEW i \in Requests, pc'[i] \notin Ended PROVE CodeUnmade(i)'
      <4>1. pc[i] \notin Ended
        BY <1>0, <2>1, <3>3 DEF BurnCode, Goto, Ended, Answers
      <4>2. CodeUnmade(i) /\ i # n
        BY <3>0, <4>1 DEF CodesInv, CodeUnmade
      <4> QED
        BY <1>0, <3>1, <3>2, <4>2 DEF CodeUnmade
    <3>4. ASSUME NEW i \in Ids, CodeOnce(i) PROVE CodeOnce(i)'
      BY <1>0, <3>0, <3>1, <3>2, <3>4 DEF CodeOnce
    <3> QED
      BY <3>0, <3>3, <3>4 DEF CodesInv
  <2>2. CASE IssueCodes(r)
    <3>1. /\ codes' = codes \cup {r} /\ UNCHANGED <<grants, job, raced>>
          /\ pc'[r] \in Ended /\ CodeUnmade(r)
      BY <1>0, <2>2 DEF IssueCodes, Goto, Ended, Answers, CodesInv, Quietly, history
    <3>2. \A q \in Requests, i \in Ids : Burning(q, i)' => Burning(q, i)
      BY <1>0, <2>2 DEF IssueCodes, Burning, Goto
    <3>3. \A i \in Requests : pc[i] \in Ended => pc'[i] \in Ended
      BY <1>0, <2>2, <3>1 DEF IssueCodes, Goto
    <3>4. ASSUME NEW i \in Ids, CodeOnce(i) PROVE CodeOnce(i)'
      BY <3>1, <3>2, <3>4 DEF CodeOnce, CodeUnmade
    <3>5. ASSUME NEW i \in Requests, i # r, CodeUnmade(i) PROVE CodeUnmade(i)'
      BY <1>0, <3>1, <3>2, <3>5 DEF CodeUnmade
    <3> QED
      BY <3>1, <3>3, <3>4, <3>5 DEF CodesInv
  <2>3. CASE ~BurnCode(r) /\ ~IssueCodes(r)
    <3>1. /\ codes' \subseteq codes /\ UNCHANGED <<job, raced>>
          /\ \E step : Goto(r, step) /\ step # "burn" /\ (pc[r] \in Ended => step \in Ended)
      BY <1>6, <2>3 DEF Writing, CreateChallenge, CreateLink, CreateSession, ConsumeChallenge,
         SetPassword, UseLink, SignOut, SetFlags, StoreSecret, TurnOn, TurnOff, DropCodes,
         DeleteSession, Throw, Quietly, history, account, Ended, Answers
    <3>2. \A i \in Ids : grants'[i].code = grants[i].code
      BY <1>0, <1>6, <2>3 DEF Writing, CreateChallenge, CreateLink, CreateSession, ConsumeChallenge,
         SetPassword, UseLink, SignOut, SetFlags, StoreSecret, TurnOn, TurnOff, DropCodes,
         DeleteSession, Throw, Quietly, history
    <3> QED
      BY <3>1, <3>2, CodesFrame
  <2> QED
    BY <2>1, <2>2, <2>3
<1> QED
  BY <1>1, <1>2, <1>3, <1>4, <1>5, <1>6, Cases

-----------------------------------------------------------------------------
(***************************************************************************)
(* LinksInv: a reset link is there, or was redeemed, or is held by the one *)
(* request that found it; a link redeemed but still there belongs to a     *)
(* request that is about to end it.                                        *)
(***************************************************************************)
Redeeming(r, l) == pc[r] \in {"set", "used"} /\ job[r].from = l

LinkOnce(l) ==
  /\ grants[l].link <= 1
  /\ l \in links => grants[l].link = 0 \/ \E r \in Requests : pc[r] = "used" /\ job[r].from = l
  /\ \A r \in Requests : Redeeming(r, l) =>
       /\ pc[r] = "set" => grants[l].link = 0
       /\ \A q \in Requests : Redeeming(q, l) => q = r

LinkUnmade(l) ==
  l \notin links /\ grants[l].link = 0 /\ \A r \in Requests : ~Redeeming(r, l)

Asking == {"idle", "ask", "link"}

LinksInv ==
  /\ \A l \in Ids : "cut" \in clashes \/ <<"link", l>> \in raced \/ LinkOnce(l)
  /\ \A l \in Requests : pc[l] \in Asking => LinkUnmade(l)

LEMMA LinksFrame ==
  ASSUME TypeOK, LinksInv, NEW r \in Requests, NEW step, Goto(r, step),
         step \in {"set", "used"} => job'[r].from \notin Ids,
         pc[r] = "used" => "cut" \in clashes',
         step \in Asking => pc[r] \in Asking,
         \A q \in Requests \ {r} : job'[q] = job[q],
         \A i \in Ids : grants'[i].link = grants[i].link,
         links' \subseteq links, raced \subseteq raced', clashes \subseteq clashes'
  PROVE  LinksInv'
<1>1. pc \in [Requests -> Steps] /\ pc' = [pc EXCEPT ![r] = step] /\ Requests \subseteq Ids
  BY Names DEF TypeOK, Goto
<1>2. \A q \in Requests, l \in Ids : Redeeming(q, l)' => Redeeming(q, l) /\ q # r
  BY <1>1 DEF Redeeming
<1>3. ASSUME NEW l \in Ids, LinkOnce(l), "cut" \notin clashes' PROVE LinkOnce(l)'
  <2>1. \A q \in Requests : pc[q] = "used" => pc'[q] = "used" /\ job'[q] = job[q]
    BY <1>1, <1>3
  <2> QED
    BY <1>1, <1>2, <1>3, <2>1 DEF LinkOnce
<1>4. \A l \in Requests : LinkUnmade(l) => LinkUnmade(l)'
  BY <1>1, <1>2 DEF LinkUnmade
<1>5. \A l \in Requests : pc'[l] \in Asking => pc[l] \in Asking
  BY <1>1
<1> QED
  BY <1>3, <1>4, <1>5 DEF LinksInv

LEMMA LinksStep ==
  TypeOK /\ PathInv /\ LinksInv /\ [Next]_vars => LinksInv'
<1> SUFFICES ASSUME TypeOK, PathInv, LinksInv, [Next]_vars PROVE LinksInv'
  OBVIOUS
<1>0. /\ pc \in [Requests -> Steps] /\ links \subseteq Ids /\ Requests \subseteq Ids
      /\ grants \in [Ids -> [code : Nat, link : Nat]]
  BY Names DEF TypeOK
<1>1. CASE Expire
  <2>1. links' \subseteq links /\ UNCHANGED <<pc, job, history>>
    BY <1>1 DEF Expire, Quietly
  <2> QED
    BY <2>1 DEF LinksInv, LinkOnce, LinkUnmade, Redeeming, history
<1>2. CASE UNCHANGED vars
  BY <1>2 DEF vars, LinksInv, LinkOnce, LinkUnmade, Redeeming, account, tables, holdings, history
<1>3. ASSUME NEW r \in Requests, Answer(r) PROVE LinksInv'
  BY <1>3, AnswerFrame, LinksFrame DEF Answers, Asking, account, tables, history
<1>4. ASSUME NEW r \in Requests, Sent(r) PROVE LinksInv'
  <2>1. PICK j \in Jobs : Proper(j) /\ Send(r, Entry(j.kind), j)
    BY <1>4 DEF Sent
  <2>2. job'[r] = j /\ \A q \in Requests \ {r} : job'[q] = job[q]
    BY <2>1 DEF Send, TypeOK
  <2>3. /\ Entry(j.kind) \in {"set", "used"} => j.from \notin Ids
        /\ pc[r] = "idle" /\ pc[r] \in Asking
    BY <2>1 DEF Send, Proper, Entry, SettingKinds, Asking, Jobs, Kinds
  <2> QED
    BY <2>1, <2>2, <2>3, LinksFrame DEF Send, Quietly, account, tables, history
<1>5. ASSUME NEW r \in Requests, Serving(r) PROVE LinksInv'
  <2>1. CASE FindLink(r)
    <3> DEFINE n == job[r].from
    <3>0. n \in Ids /\ pc[r] = "redeem" /\ UNCHANGED <<links, grants, job, clashes>>
      BY <2>1 DEF FindLink, PathInv, Path, PathAt, Proper, tables
    <3>1. CASE n \in links
      <4>1. pc' = [pc EXCEPT ![r] = "set"] /\ raced \subseteq raced'
        BY <2>1, <3>1 DEF FindLink, Goto
      <4>2. \A q \in Requests, l \in Ids :
              Redeeming(q, l)' => Redeeming(q, l) \/ (q = r /\ l = n)
        BY <1>0, <3>0, <4>1 DEF Redeeming
      <4>3. ASSUME NEW l \in Requests, pc'[l] \in Asking PROVE LinkUnmade(l)'
        <5>1. pc[l] \in Asking
          BY <1>0, <3>0, <4>1, <4>3 DEF Asking
        <5>2. LinkUnmade(l)
          BY <5>1 DEF LinksInv
        <5> QED
          BY <1>0, <3>0, <3>1, <4>2, <5>2 DEF LinkUnmade
      <4>4. ASSUME NEW l \in Ids, <<"link", l>> \notin raced', "cut" \notin clashes'
            PROVE  LinkOnce(l)'
        <5>1. LinkOnce(l)
          BY <3>0, <4>1, <4>4 DEF LinksInv
        <5>2. \A q \in Requests : pc[q] = "used" => pc'[q] = "used"
          BY <1>0, <3>0, <4>1
        <5>3. CASE l # n
          <6>1. \A q \in Requests : Redeeming(q, l)' => Redeeming(q, l) /\ pc'[q] = pc[q]
            BY <1>0, <3>0, <4>1, <4>2, <5>3 DEF Redeeming
          <6> QED
            BY <3>0, <5>1, <5>2, <5>3, <6>1 DEF LinkOnce
        <5>4. CASE l = n
          <6>1. \A q \in Requests : ~Redeeming(q, n)
            BY <2>1, <3>1, <4>4, <5>4 DEF FindLink, Redeeming
          <6>2. grants[n].link = 0
            BY <3>1, <5>1, <5>4, <6>1 DEF LinkOnce, Redeeming
          <6> QED
            BY <3>0, <4>2, <5>4, <6>1, <6>2 DEF LinkOnce
        <5> QED
          BY <5>3, <5>4
      <4> QED
        BY <4>3, <4>4 DEF LinksInv
    <3>2. CASE n \notin links
      <4>1. Goto(r, "refused") /\ raced \subseteq raced'
        BY <2>1, <3>2 DEF FindLink
      <4> QED
        BY <3>0, <4>1, LinksFrame DEF Asking
    <3> QED
      BY <3>1, <3>2
  <2>2. CASE ~FindLink(r)
    <3>1. /\ UNCHANGED <<links, grants, job, clashes>> /\ raced \subseteq raced'
          /\ \E step : /\ Goto(r, step)
                       /\ step \in {"set", "used"} => job[r].from \notin Ids
                       /\ step \in Asking => pc[r] \in Asking
          /\ pc[r] # "used"
      BY <1>5, <2>2 DEF Serving, TurnAway, LoginRead, ReadChallenge, ReadUser, FindSession,
         FindOwner, FindAccount, FindCode, Reads, Decides, Still, Quietly, history, tables,
         Checked, Asking, PathInv, Path, PathAt, Proper, SettingKinds
    <3> QED
      BY <3>1, LinksFrame
  <2> QED
    BY <2>1, <2>2
<1>6. ASSUME NEW r \in Requests, Writing(r) PROVE LinksInv'
  <2>1. CASE SetPassword(r)
    <3> DEFINE n == job[r].from
    <3>0. /\ UNCHANGED <<job, raced, clashes, links>> /\ pc[r] = "set"
          /\ n \in Ids <=> job[r].kind = "redeem"
      BY <2>1 DEF SetPassword, PathInv, Path, PathAt, Proper, tables
    <3>1. CASE job[r].kind # "redeem"
      <4>1. /\ \E step \in {"others", "all"} : Goto(r, step)
            /\ UNCHANGED grants
        BY <2>1, <3>1 DEF SetPassword
      <4> QED
        BY <3>0, <4>1, LinksFrame DEF Asking
    <3>2. CASE job[r].kind = "redeem"
      <4>1. /\ n \in Ids /\ Redeeming(r, n)
            /\ grants'[n].link = grants[n].link + 1 /\ pc' = [pc EXCEPT ![r] = "used"]
            /\ \A l \in Ids \ {n} : grants'[l].link = grants[l].link
        BY <1>0, <2>1, <3>0, <3>2 DEF SetPassword, Goto, Redeeming
      <4>2. \A q \in Requests, l \in Ids : Redeeming(q, l)' <=> Redeeming(q, l)
        BY <1>0, <3>0, <4>1 DEF Redeeming
      <4>3. ASSUME NEW l \in Requests, pc'[l] \in Asking PROVE LinkUnmade(l)'
        <5>1. pc[l] \in Asking
          BY <1>0, <4>1, <4>3 DEF Asking
        <5>2. LinkUnmade(l) /\ l # n
          BY <4>1, <5>1 DEF LinksInv, LinkUnmade
        <5> QED
          BY <1>0, <3>0, <4>1, <4>2, <5>2 DEF LinkUnmade
      <4>4. ASSUME NEW l \in Ids, LinkOnce(l) PROVE LinkOnce(l)'
        <5>1. \A q \in Requests : pc[q] = "used" => pc'[q] = "used"
          BY <1>0, <4>1
        <5>2. CASE l = n
          <6>1. grants[n].link = 0
            BY <3>0, <4>1, <4>4, <5>2 DEF LinkOnce
          <6>2. pc'[r] = "used" /\ job'[r].from = n
            BY <1>0, <3>0, <4>1
          <6> QED
            BY <1>0, <3>0, <4>1, <4>2, <4>4, <5>2, <6>1, <6>2 DEF LinkOnce
        <5>3. CASE l # n
          <6>1. \A q \in Requests : Redeeming(q, l) => pc'[q] = pc[q]
            BY <1>0, <4>1, <5>3 DEF Redeeming
          <6> QED
            BY <3>0, <4>1, <4>2, <4>4, <5>1, <5>3, <6>1 DEF LinkOnce
        <5> QED
          BY <5>2, <5>3
      <4> QED
        BY <3>0, <4>3, <4>4 DEF LinksInv
    <3> QED
      BY <3>1, <3>2
  <2>2. CASE UseLink(r)
    <3> DEFINE n == job[r].from
    <3>1. /\ n \in Ids /\ links' = links \ {n} /\ UNCHANGED <<grants, job, raced, clashes>>
          /\ pc[r] = "used" /\ pc' = [pc EXCEPT ![r] = "all"]
      BY <2>2 DEF UseLink, Goto, PathInv, Path, PathAt, Proper, Quietly, history
    <3>2. \A q \in Requests, l \in Ids : Redeeming(q, l)' => Redeeming(q, l) /\ pc'[q] = pc[q]
      BY <1>0, <3>1 DEF Redeeming
    <3>3. ASSUME NEW l \in Ids, LinkOnce(l) PROVE LinkOnce(l)'
      <4>1. \A q \in Requests : l # n /\ pc[q] = "used" /\ job[q].from = l => pc'[q] = "used"
        BY <1>0, <3>1
      <4> QED
        BY <3>1, <3>2, <3>3, <4>1 DEF LinkOnce
    <3>4. ASSUME NEW l \in Requests, pc'[l] \in Asking PROVE LinkUnmade(l)'
      BY <1>0, <3>1, <3>2, <3>4 DEF LinkUnmade, LinksInv, Asking
    <3> QED
      BY <3>1, <3>3, <3>4 DEF LinksInv
  <2>3. CASE CreateLink(r)
    <3>1. /\ links' = links \cup {r} /\ UNCHANGED <<grants, job, raced, clashes>>
          /\ LinkUnmade(r) /\ pc[r] = "link" /\ pc' = [pc EXCEPT ![r] = "ok"]
      BY <1>0, <2>3 DEF CreateLink, Goto, LinksInv, Asking, Quietly, history
    <3>2. \A q \in Requests, l \in Ids : Redeeming(q, l)' => Redeeming(q, l) /\ pc'[q] = pc[q]
      BY <1>0, <3>1 DEF Redeeming
    <3>3. ASSUME NEW l \in Ids, LinkOnce(l) PROVE LinkOnce(l)'
      <4>1. \A q \in Requests : pc[q] = "used" => pc'[q] = "used"
        BY <1>0, <3>1
      <4> QED
        BY <3>1, <3>2, <3>3, <4>1 DEF LinkOnce, LinkUnmade
    <3>4. ASSUME NEW l \in Requests, pc'[l] \in Asking PROVE LinkUnmade(l)'
      <4>1. l # r /\ pc[l] \in Asking
        BY <1>0, <3>1, <3>4 DEF Asking
      <4> QED
        BY <1>0, <3>1, <3>2, <4>1 DEF LinkUnmade, LinksInv
    <3> QED
      BY <3>1, <3>3, <3>4 DEF LinksInv
  <2>4. CASE ~SetPassword(r) /\ ~UseLink(r) /\ ~CreateLink(r)
    <3>1. /\ UNCHANGED <<job, links, raced>> /\ clashes \subseteq clashes'
          /\ \E step : Goto(r, step) /\ step \notin {"set", "used"} \cup Asking
          /\ pc[r] = "used" => "cut" \in clashes'
      BY <1>6, <2>4 DEF Writing, CreateChallenge, CreateSession, ConsumeChallenge, BurnCode,
         SignOut, SetFlags, StoreSecret, TurnOn, TurnOff, DropCodes, IssueCodes,
         DeleteSession, Throw, Quietly, history, tables, Crossing, Asking
    <3>2. \A l \in Ids : grants'[l].link = grants[l].link
      BY <1>0, <1>6, <2>4 DEF Writing, CreateChallenge, CreateSession, ConsumeChallenge, BurnCode,
         SignOut, SetFlags, StoreSecret, TurnOn, TurnOff, DropCodes, IssueCodes,
         DeleteSession, Throw, Quietly, history
    <3> QED
      BY <3>1, <3>2, LinksFrame
  <2> QED
    BY <2>1, <2>2, <2>3, <2>4
<1> QED
  BY <1>1, <1>2, <1>3, <1>4, <1>5, <1>6, Cases

-----------------------------------------------------------------------------
(***************************************************************************)
(* FactorInv: the second factor and its recovery codes, and the requests   *)
(* about to change them.                                                   *)
(***************************************************************************)
Proven == factor.on \/ Confirming => factor.secret \in proven \/ "swapped" \in clashes

OneList ==
  /\ \A i, j \in codes : i = j
  /\ \A r \in Requests : pc[r] = "issue" =>
       codes = {} /\ \A q \in Requests : pc[q] = "issue" => q = r

DisabledIsOff ==
  \A r \in Requests : pc[r] = "drop" /\ job[r].kind = "disable" => ~factor.on

HasList ==
  factor.on /\ (\A r \in Requests : pc[r] \notin {"drop", "issue"}) =>
    "cut" \in clashes \/ codes # {} \/ \E i \in Ids : grants[i].code > 0

FactorInv ==
  /\ Proven
  /\ "mixed" \in clashes \/ (OneList /\ DisabledIsOff /\ HasList)

LEMMA FactorFrame ==
  ASSUME TypeOK, FactorInv, NEW r \in Requests, NEW step, Goto(r, step),
         step \notin {"on", "drop", "issue"},
         pc[r] \in {"drop", "issue"} => "cut" \in clashes',
         \A q \in Requests \ {r} : job'[q] = job[q],
         codes' \subseteq codes,
         codes' # codes => \E i \in Ids : grants'[i].code > 0,
         \A i \in Ids : grants[i].code > 0 => grants'[i].code > 0,
         factor' = factor, proven \subseteq proven', clashes \subseteq clashes'
  PROVE  FactorInv'
<1>1. pc \in [Requests -> Steps] /\ pc' = [pc EXCEPT ![r] = step]
  BY DEF TypeOK, Goto
<1>2. Proven'
  BY <1>1 DEF FactorInv, Proven, Confirming
<1>3. ASSUME OneList PROVE OneList'
  BY <1>1, <1>3 DEF OneList
<1>4. ASSUME DisabledIsOff PROVE DisabledIsOff'
  BY <1>1, <1>4 DEF DisabledIsOff
<1>5. ASSUME HasList PROVE HasList'
  BY <1>1, <1>5 DEF HasList
<1> QED
  BY <1>2, <1>3, <1>4, <1>5 DEF FactorInv

LEMMA FactorStep ==
  TypeOK /\ PathInv /\ FactorInv /\ [Next]_vars => FactorInv'
<1> SUFFICES ASSUME TypeOK, PathInv, FactorInv, [Next]_vars PROVE FactorInv'
  OBVIOUS
<1>0. /\ pc \in [Requests -> Steps] /\ codes \subseteq Ids /\ Requests \subseteq Ids
      /\ factor \in Factors /\ grants \in [Ids -> [code : Nat, link : Nat]]
  BY Names DEF TypeOK
<1> USE DEF OneList, DisabledIsOff, HasList
<1>1. CASE Expire
  BY <1>1 DEF Expire, FactorInv, Proven, Confirming, account, holdings, history, Quietly
<1>2. CASE UNCHANGED vars
  BY <1>2 DEF vars, FactorInv, Proven, Confirming, account, tables, holdings, history
<1>3. ASSUME NEW r \in Requests, Answer(r) PROVE FactorInv'
  BY <1>3, AnswerFrame, FactorFrame DEF Answers, account, tables, history
<1>4. ASSUME NEW r \in Requests, Sent(r) PROVE FactorInv'
  <2>1. PICK j \in Jobs : Send(r, Entry(j.kind), j)
    BY <1>4 DEF Sent
  <2>2. \A q \in Requests \ {r} : job'[q] = job[q]
    BY <2>1 DEF Send, TypeOK
  <2>3. Entry(j.kind) \notin {"on", "drop", "issue"} /\ pc[r] = "idle"
    BY <2>1 DEF Send, Entry, SettingKinds, Jobs, Kinds
  <2> QED
    BY <2>1, <2>2, <2>3, FactorFrame DEF Send, Quietly, account, tables, history
<1>5. ASSUME NEW r \in Requests, Serving(r) PROVE FactorInv'
  <2>1. CASE FindOwner(r)
    <3>1. /\ UNCHANGED <<codes, factor, job, grants, clashes>> /\ proven \subseteq proven'
          /\ pc[r] = "owner" /\ PathAt(job[r], "owner")
      BY <2>1 DEF FindOwner, account, PathInv, Path
    <3>2. PICK step : /\ Goto(r, step)
                      /\ step = "on" => factor.secret \in proven'
                      /\ step = "drop" => job[r].kind = "renew"
                      /\ step # "issue"
      BY <2>1, <3>1 DEF FindOwner, MayConfirm, Checked, PathAt, SettingKinds
    <3>3. CASE step = "on"
      <4>1. pc' = [pc EXCEPT ![r] = "on"]
        BY <3>2, <3>3 DEF Goto
      <4> QED
        BY <1>0, <3>1, <3>2, <3>3, <4>1 DEF FactorInv, Proven
    <3>4. CASE step = "drop"
      <4>1. pc' = [pc EXCEPT ![r] = "drop"] /\ job[r].kind = "renew"
        BY <3>2, <3>4 DEF Goto
      <4> QED
        BY <1>0, <3>1, <4>1 DEF FactorInv, Proven, Confirming
    <3>5. CASE step \notin {"on", "drop"}
      BY <3>1, <3>2, <3>5, FactorFrame
    <3> QED
      BY <3>3, <3>4, <3>5
  <2>2. CASE ~FindOwner(r)
    <3>1. /\ UNCHANGED <<account, grants, job, clashes, proven>>
          /\ \E step : Goto(r, step) /\ step \notin {"on", "drop", "issue"}
          /\ pc[r] \notin {"drop", "issue"}
      BY <1>5, <2>2 DEF Serving, TurnAway, LoginRead, ReadChallenge, ReadUser, FindSession,
         FindAccount, FindCode, FindLink, Reads, Decides, Still, Quietly, history, Checked
    <3> QED
      BY <3>1, FactorFrame DEF account
  <2> QED
    BY <2>1, <2>2
<1>6. ASSUME NEW r \in Requests, Writing(r) PROVE FactorInv'
  <2>0. PathAt(job[r], pc[r])
    BY DEF PathInv, Path
  <2>1. CASE BurnCode(r) \/ SetPassword(r)
    <3>1. /\ UNCHANGED <<factor, job, clashes, proven>> /\ codes' \subseteq codes
          /\ \E step : Goto(r, step) /\ step \notin {"on", "drop", "issue"}
          /\ pc[r] \notin {"drop", "issue"}
      BY <2>1 DEF BurnCode, SetPassword
    <3>2. \A i \in Ids : grants[i].code > 0 => grants'[i].code > 0
      BY <1>0, <2>1 DEF BurnCode, SetPassword
    <3>3. CASE BurnCode(r)
      <4>1. job[r].code[2] \in Ids
        BY <2>0, <3>3 DEF BurnCode, PathAt, Proper
      <4>2. grants'[job[r].code[2]].code > 0
        BY <1>0, <3>3, <4>1 DEF BurnCode
      <4> QED
        BY <3>1, <3>2, <4>1, <4>2, FactorFrame
    <3>4. CASE SetPassword(r)
      <4>1. UNCHANGED codes
        BY <3>4 DEF SetPassword
      <4> QED
        BY <3>1, <3>2, <4>1, FactorFrame
    <3> QED
      BY <2>1, <3>3, <3>4
  <2>2. CASE StoreSecret(r)
    <3>1. /\ pc' = [pc EXCEPT ![r] = "ok"] /\ pc[r] = "secret" /\ ~factor'.on
          /\ UNCHANGED <<codes, job, grants, proven>> /\ clashes \subseteq clashes'
          /\ Confirming => "swapped" \in clashes'
      BY <2>2 DEF StoreSecret, Goto
    <3>2. Proven'
      BY <1>0, <3>1 DEF Proven, Confirming
    <3> QED
      BY <1>0, <3>1, <3>2 DEF FactorInv
  <2>3. CASE TurnOn(r)
    <3>1. /\ pc' = [pc EXCEPT ![r] = "drop"] /\ pc[r] = "on" /\ job[r].kind = "confirm"
          /\ factor'.secret = factor.secret
          /\ UNCHANGED <<codes, job, grants, proven>> /\ clashes \subseteq clashes'
          /\ ListsMoving(r) => "mixed" \in clashes'
      BY <1>0, <2>0, <2>3 DEF TurnOn, Goto, Crossing, PathAt, Factors
    <3>2. Proven'
      BY <1>0, <3>1 DEF FactorInv, Proven, Confirming
    <3> QED
      BY <1>0, <3>1, <3>2 DEF FactorInv, ListsMoving
  <2>4. CASE TurnOff(r)
    <3>1. /\ pc' = [pc EXCEPT ![r] = "drop"] /\ pc[r] = "off" /\ ~factor'.on
          /\ UNCHANGED <<codes, job, grants, proven>> /\ clashes \subseteq clashes'
          /\ Confirming => "swapped" \in clashes'
      BY <2>4 DEF TurnOff, Goto, Crossing, Off
    <3>2. Proven'
      BY <1>0, <3>1 DEF Proven, Confirming
    <3> QED
      BY <1>0, <3>1, <3>2 DEF FactorInv
  <2>5. CASE DropCodes(r)
    <3>1. /\ pc[r] = "drop" /\ codes' = {} /\ UNCHANGED <<factor, job, grants, proven>>
          /\ clashes \subseteq clashes'
          /\ ListsMoving(r) => "mixed" \in clashes'
      BY <2>5 DEF DropCodes, Crossing
    <3>2. PICK step \in {"ok", "issue"} :
            pc' = [pc EXCEPT ![r] = step] /\ (step = "ok" => job[r].kind = "disable")
      BY <2>5 DEF DropCodes, Goto
    <3>3. Proven'
      BY <1>0, <3>1, <3>2 DEF FactorInv, Proven, Confirming
    <3>4. CASE "mixed" \in clashes'
      BY <3>3, <3>4 DEF FactorInv
    <3>5. CASE "mixed" \notin clashes'
      <4>1. /\ OneList /\ DisabledIsOff /\ HasList
            /\ \A q \in Requests \ {r} : pc[q] \notin {"drop", "issue"}
        BY <3>1, <3>5 DEF FactorInv, ListsMoving
      <4>2. OneList' /\ DisabledIsOff'
        BY <1>0, <3>1, <3>2, <4>1
      <4>3. HasList'
        BY <1>0, <3>1, <3>2, <4>1
      <4> QED
        BY <3>3, <4>2, <4>3 DEF FactorInv
    <3> QED
      BY <3>4, <3>5
  <2>6. CASE IssueCodes(r)
    <3>1. /\ pc[r] = "issue" /\ codes' = codes \cup {r}
          /\ UNCHANGED <<factor, job, grants, proven, clashes>>
      BY <2>6 DEF IssueCodes, Quietly, history
    <3>2. PICK step \in {"others", "ok"} : pc' = [pc EXCEPT ![r] = step]
      BY <2>6 DEF IssueCodes, Goto
    <3>3. Proven'
      BY <1>0, <3>1, <3>2 DEF FactorInv, Proven, Confirming
    <3> QED
      BY <1>0, <3>1, <3>2, <3>3 DEF FactorInv
  <2>7. CASE \/ CreateChallenge(r) \/ CreateLink(r) \/ CreateSession(r) \/ ConsumeChallenge(r)
             \/ UseLink(r) \/ SignOut(r) \/ SetFlags(r) \/ DeleteSession(r) \/ Throw(r)
    <3>1. /\ UNCHANGED <<factor, codes, job, grants, proven>> /\ clashes \subseteq clashes'
          /\ \E step : Goto(r, step) /\ step \notin {"on", "drop", "issue"}
          /\ pc[r] \in {"drop", "issue"} => "cut" \in clashes'
      BY <2>7 DEF CreateChallenge, CreateLink, CreateSession, ConsumeChallenge, UseLink,
         SignOut, SetFlags, DeleteSession, Throw, Quietly, history, account
    <3> QED
      BY <3>1, FactorFrame
  <2> QED
    BY <1>6, <2>1, <2>2, <2>3, <2>4, <2>5, <2>6, <2>7 DEF Writing
<1> QED
  BY <1>1, <1>2, <1>3, <1>4, <1>5, <1>6, Cases

-----------------------------------------------------------------------------
(***************************************************************************)
(* The inductive invariant.                                                *)
(***************************************************************************)
IInv == TypeOK /\ PathInv /\ SessionInv /\ CodesInv /\ LinksInv /\ FactorInv

LEMMA InitInv == Init => IInv
<1> SUFFICES ASSUME Init PROVE IInv
  OBVIOUS
<1>0. /\ NoJob \in Jobs /\ Proper(NoJob) /\ NoJob.from = None
      /\ factor \in Factors /\ codes \subseteq {0} /\ proven = codes
      /\ factor.on => codes = {0} /\ factor.secret = 0
      /\ \A r \in Requests : pc[r] = "idle" /\ job[r] = NoJob
      /\ \A i \in Ids : grants[i].code = 0 /\ grants[i].link = 0
  BY Names DEF Init, NoJob, Jobs, Kinds, Factors, Held, Proper
<1>1. TypeOK
  <2>1. /\ Account \in [password : Ids, factor : Factors, disabled : BOOLEAN]
        /\ challenges \subseteq {0}
    BY <1>0, Names DEF Init, Account
  <2>4. /\ bearer \in [Browsers -> Held] /\ cookie = bearer
        /\ pending \in [Browsers -> Held]
    BY Names DEF Init
  <2>2. pc \in [Requests -> Steps] /\ job \in [Requests -> Jobs]
    BY <1>0 DEF Init, Steps
  <2>3. /\ born \in [Ids -> [password : Ids, factor : BOOLEAN]]
        /\ grants \in [Ids -> [code : Nat, link : Nat]]
    BY <1>0, Names DEF Init, Factors
  <2> QED
    BY <1>0, <2>1, <2>2, <2>3, <2>4, Names DEF Init, TypeOK
<1>2. PathInv
  BY <1>0 DEF PathInv, Path, PathAt
<1>3. SessionInv
  BY <1>0, Names DEF Init, SessionInv, Current
<1>7. Requests \subseteq Ids /\ 0 \notin Requests /\ links = {0}
  BY SignInAssumption, Names DEF Init, Requests
<1>4. CodesInv
  <2>1. \A q \in Requests : \A i : ~Burning(q, i)
    BY <1>0 DEF Burning
  <2>2. \A i \in Ids : CodeOnce(i)
    BY <1>0, <2>1 DEF CodeOnce
  <2>3. \A i \in Requests : CodeUnmade(i)
    BY <1>0, <1>7, <2>1 DEF CodeUnmade
  <2> QED
    BY <2>2, <2>3 DEF CodesInv
<1>5. LinksInv
  BY <1>0, <1>7 DEF LinksInv, LinkOnce, LinkUnmade, Redeeming
<1>6. FactorInv
  BY <1>0 DEF FactorInv, Proven, Confirming, OneList, DisabledIsOff, HasList
<1> QED
  BY <1>1, <1>2, <1>3, <1>4, <1>5, <1>6 DEF IInv

LEMMA Invariance == Spec => []IInv
<1>1. IInv /\ [Next]_vars => IInv'
  BY StepType, SessionStep, CodesStep, LinksStep, FactorStep DEF IInv
<1> QED
  BY InitInv, <1>1, PTL DEF Spec

(***************************************************************************)
(* Every variable of the sign-in stays in its set.                         *)
(***************************************************************************)
THEOREM TypeCorrect == Spec => []TypeOK
<1>1. IInv => TypeOK
  BY DEF IInv
<1> QED
  BY <1>1, Invariance, PTL

(***************************************************************************)
(* A new password or factor leaves no other session behind                 *)
(* (password-reset.ts:50, mfa.ts:47, accounts/[id]/route.ts:51).           *)
(***************************************************************************)
THEOREM SessionsAreCurrentHolds == Spec => []SessionsAreCurrent
<1>1. IInv => SessionsAreCurrent
  BY DEF IInv, SessionInv, SessionsAreCurrent, Ends, Ending
<1> QED
  BY <1>1, Invariance, PTL

(***************************************************************************)
(* A recovery code and a reset link are taken once (recovery-codes.ts:45,  *)
(* password-reset.ts:72), unless two requests had found them at once.      *)
(***************************************************************************)
THEOREM SingleUseHolds == Spec => []SingleUse
<1>1. IInv => SingleUse
  BY DEF IInv, CodesInv, CodeOnce, LinksInv, LinkOnce, SingleUse
<1> QED
  BY <1>1, Invariance, PTL

(***************************************************************************)
(* A factor that is on has a secret that was proven, and one list of       *)
(* recovery codes (mfa.ts:20-22, recovery-codes/route.ts:9).               *)
(***************************************************************************)
THEOREM FactorIsWholeHolds == Spec => []FactorIsWhole
<1>1. ASSUME IInv PROVE FactorIsWhole
  <2>1. factor.on => factor.secret \in proven \/ "swapped" \in clashes
    BY <1>1 DEF IInv, FactorInv, Proven
  <2>2. "mixed" \notin clashes => Cardinality(codes) <= 1
    <3>1. ASSUME "mixed" \notin clashes PROVE codes = {} \/ \E i : codes = {i}
      BY <1>1, <3>1 DEF IInv, FactorInv, OneList
    <3> QED
      BY <3>1, FS_EmptySet, FS_Singleton
  <2> QED
    BY <1>1, <2>1, <2>2 DEF IInv, FactorInv, HasList, FactorIsWhole
<1> QED
  BY <1>1, Invariance, PTL
=============================================================================
