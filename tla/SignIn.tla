------------------------------- MODULE SignIn -------------------------------
(***************************************************************************)
(* One account, the browsers of its owner and its administrator: sign-in   *)
(* with a password and a second factor, recovery codes, reset links, and   *)
(* the sessions all these end (lib/auth and the routes and forms over it). *)
(* A request reads, checks and writes in steps, and others come between.   *)
(*                                                                         *)
(* What a request makes (a session, a challenge, a link, a password, a     *)
(* secret, a list of recovery codes) has the request's number; 0 is what   *)
(* there was before.  Of a list of recovery codes one is modelled.         *)
(***************************************************************************)
EXTENDS Integers, FiniteSets

CONSTANTS
  Browsers,     \* browsers of the owner; their tabs share what they hold
  None,         \* nothing
  MaxRequests   \* bound: requests

ASSUME SignInAssumption ==
  /\ MaxRequests \in Nat /\ IsFiniteSet(Browsers)
  /\ None \notin 0..MaxRequests

Requests == 1..MaxRequests
Ids == 0..MaxRequests
Kinds == {"login", "verify", "ask", "redeem", "change", "enroll", "confirm",
          "disable", "renew", "logout", "reset", "disabling"}

VARIABLES
  password, factor, codes, disabled,   \* the account; codes not used yet
  sessions, challenges, links,         \* the tables, without what was used
  bearer, cookie, pending,             \* of each browser: session twice, challenge
  phone, paper,                        \* the owner's secrets and code lists
  pc, job, saw,                        \* of each request
  (* history, read by no action *)
  born,      \* the password and factor a session was made with
  late,      \* sessions not made with the account's password and factor
  proven,    \* secrets a code was seen of
  grants,    \* how often a code was taken, a link redeemed
  raced,     \* codes or links two requests had found at once
  clashes    \* what went wrong on the way: requests cut off or crossing

account == <<password, factor, codes, disabled>>
tables == <<sessions, challenges, links>>
holdings == <<bearer, cookie, pending, phone, paper>>
history == <<born, late, proven, grants, raced, clashes>>
vars == <<account, tables, holdings, pc, job, saw, history>>

Answers == {"ok", "asked", "refused", "expired", "unauthorized", "error"}
Working(r) == pc[r] \notin Answers \cup {"idle", "done"}
NoJob == [kind |-> "login", by |-> None, session |-> None, password |-> None,
          code |-> <<"none", None>>, from |-> None]
Account == [password |-> password, factor |-> factor, disabled |-> disabled]
Off == [on |-> FALSE, secret |-> None]

Held == Ids \cup {None}
Factors == [on : BOOLEAN, secret : Held]
Jobs == [kind : Kinds, by : Browsers \cup {None}, session : Held, password : Held,
         code : {"totp", "recovery", "none"} \X Held, from : Held]
Steps == Answers \cup
  {"idle", "login", "verify", "ask", "redeem", "session?", "owner", "user", "find",
   "challenge", "link", "insert", "consume", "burn", "set", "used", "all", "others", "flags",
   "secret", "on", "off", "drop", "issue", "logout", "done"}

\* Without a factor, or about to turn it on, or with it and a sign-in half-way;
\* a reset link may be in the mail.
Init ==
  /\ password = 0 /\ disabled = FALSE
  /\ \E on \in BOOLEAN :
       /\ factor = [on |-> on, secret |-> 0]
       /\ codes = (IF on THEN {0} ELSE {}) /\ paper = codes
       /\ challenges = codes
       /\ \E b \in Browsers : pending = [c \in Browsers |-> IF c = b /\ on THEN 0 ELSE None]
       /\ proven = codes
  /\ phone = {0} /\ sessions = {0} /\ links = {0}
  /\ \E b \in Browsers : bearer = [c \in Browsers |-> IF c = b THEN 0 ELSE None]
  /\ cookie = bearer
  /\ pc = [r \in Requests |-> "idle"]
  /\ job = [r \in Requests |-> NoJob]
  /\ saw = [i \in Ids |-> Account]
  /\ born = [i \in Ids |-> [password |-> 0, factor |-> factor.on]]
  /\ late = {} /\ raced = {} /\ clashes = {}
  /\ grants = [i \in Ids |-> [code |-> 0, link |-> 0]]

-----------------------------------------------------------------------------
(***************************************************************************)
(* The browser sends.  The owner types what there is to know.              *)
(***************************************************************************)
Goto(r, step) == pc' = [pc EXCEPT ![r] = step]
Quietly == UNCHANGED history

Send(r, step, j) ==
  /\ pc[r] = "idle" /\ \A q \in 1..(r - 1) : pc[q] # "idle"
  /\ Goto(r, step)
  /\ job' = [job EXCEPT ![r] = j]
  /\ UNCHANGED <<account, tables, holdings, saw>> /\ Quietly

\* The Bearer header comes before the cookie.
Carried(b) == IF bearer[b] # None THEN bearer[b] ELSE cookie[b]
KnownCodes == ({"totp"} \X phone) \cup ({"recovery"} \X paper)

SubmitLogin(b, r) ==
  Send(r, "login", [NoJob EXCEPT !.by = b, !.password = password])

SubmitMfaCode(b, r, c) ==
  /\ pending[b] # None
  /\ Send(r, "verify", [NoJob EXCEPT !.kind = "verify", !.by = b, !.code = c,
                                     !.from = pending[b]])

RequestReset(b, r) == Send(r, "ask", [NoJob EXCEPT !.kind = "ask", !.by = b])

\* The link is in the mail once the request is through.
OpenLink(b, r, l) ==
  /\ l # 0 => job[l].kind = "ask" /\ pc[l] \in {"ok", "done"}
  /\ Send(r, "redeem", [NoJob EXCEPT !.kind = "redeem", !.by = b, !.from = l])

InSession(b, kind) ==
  [NoJob EXCEPT !.kind = kind, !.by = b, !.session = Carried(b), !.password = password]

ChangePassword(b, r) == Send(r, "session?", InSession(b, "change"))
OpenEnroll(b, r) == Send(r, "session?", InSession(b, "enroll"))
ConfirmEnroll(b, r, s) ==
  Send(r, "session?", [InSession(b, "confirm") EXCEPT !.code = <<"totp", s>>])
SubmitDisable(b, r, c) == Send(r, "session?", [InSession(b, "disable") EXCEPT !.code = c])
SubmitRenew(b, r) == Send(r, "session?", InSession(b, "renew"))
ClickLogout(b, r) == Carried(b) # None /\ Send(r, "logout", InSession(b, "logout"))

\* The administrator sets a password, or only the flag.
AdminReset(r) == Send(r, "set", [NoJob EXCEPT !.kind = "reset"])
AdminDisable(r) == ~disabled /\ Send(r, "flags", [NoJob EXCEPT !.kind = "disabling"])

-----------------------------------------------------------------------------
(***************************************************************************)
(* The server reads and checks.                                            *)
(***************************************************************************)
Still == UNCHANGED <<account, tables, holdings, job>> /\ Quietly
Reads(r, step) == Goto(r, step) /\ saw' = [saw EXCEPT ![r] = Account] /\ Still
Decides(r, step) == Goto(r, step) /\ UNCHANGED saw /\ Still

\* The limiter or Turnstile says no.
TurnAway(r) == pc[r] \in {"login", "verify", "ask", "redeem"} /\ Decides(r, "refused")

LoginRead(r) ==
  /\ pc[r] = "login"
  /\ Reads(r, IF disabled \/ job[r].password # password THEN "refused"
              ELSE IF factor.on /\ factor.secret # None THEN "challenge" ELSE "insert")

ReadChallenge(r) ==
  /\ pc[r] = "verify"
  /\ Decides(r, IF job[r].from \in challenges THEN "user" ELSE "expired")

\* verifySecondFactor up to the look-up of a recovery code.
Checked(code, user, next) ==
  IF ~user.factor.on \/ user.factor.secret = None THEN "refused"
  ELSE IF code = <<"totp", user.factor.secret>> THEN next
  ELSE IF code[1] = "recovery" THEN "find" ELSE "refused"

ReadUser(r) ==
  /\ pc[r] = "user"
  /\ Reads(r, IF disabled THEN "refused" ELSE Checked(job[r].code, Account, "consume"))

\* requireUser: first the session, then its user.
FindSession(r) ==
  /\ pc[r] = "session?"
  /\ Decides(r, IF job[r].session \in sessions THEN "owner"
                ELSE IF job[r].kind = "change" THEN "error" ELSE "unauthorized")

MayEnroll(r) == job[r].password = password /\ ~factor.on
\* Mutant: any code will do.
MayConfirmUnseen(r) == factor.secret # None /\ ~factor.on /\ job[r].code[1] = "totp"
MayConfirm(r) == factor.secret # None /\ ~factor.on /\ job[r].code = <<"totp", factor.secret>>
MayRenew(r) == job[r].password = password /\ factor.on

FindOwner(r) ==
  LET kind == job[r].kind
      typed == job[r].password = password
      If(allowed, step) == IF allowed THEN step ELSE "refused"
  IN
  /\ pc[r] = "owner"
  /\ Goto(r, CASE disabled -> IF kind = "change" THEN "error" ELSE "unauthorized"
               [] ~disabled /\ kind = "change" -> If(typed, "set")
               [] ~disabled /\ kind = "enroll" -> If(MayEnroll(r), "secret")
               [] ~disabled /\ kind = "confirm" -> If(MayConfirm(r), "on")
               [] ~disabled /\ kind = "renew" -> If(MayRenew(r), "drop")
               [] ~disabled /\ kind = "disable" ->
                    If(typed, Checked(job[r].code, Account, "off")))
  /\ saw' = [saw EXCEPT ![r] = Account]
  /\ proven' = IF kind = "confirm" /\ MayConfirm(r) THEN proven \cup {job[r].code[2]} ELSE proven
  /\ UNCHANGED <<account, tables, holdings, job, born, late, grants, raced, clashes>>

FindAccount(r) ==
  /\ pc[r] = "ask"
  /\ Decides(r, IF disabled THEN "ok" ELSE "link")

FindCode(r) ==
  LET n == job[r].code[2] IN
  /\ pc[r] = "find"
  /\ Goto(r, IF n \in codes THEN "burn" ELSE "refused")
  /\ raced' = IF \E q \in Requests : pc[q] = "burn" /\ job[q].code[2] = n
              THEN raced \cup {<<"code", n>>} ELSE raced
  /\ UNCHANGED <<account, tables, holdings, job, saw, born, late, proven, grants, clashes>>

FindLink(r) ==
  LET l == job[r].from IN
  /\ pc[r] = "redeem"
  /\ Goto(r, IF l \in links THEN "set" ELSE "refused")
  /\ raced' = IF \E q \in Requests : pc[q] \in {"set", "used"} /\ job[q].from = l
              THEN raced \cup {<<"link", l>>} ELSE raced
  /\ UNCHANGED <<account, tables, holdings, job, saw, born, late, proven, grants, clashes>>

-----------------------------------------------------------------------------
(***************************************************************************)
(* The server writes.                                                      *)
(***************************************************************************)
\* Mutant: the challenge is filed under what the request came from.
CreateChallengeFrom(r) ==
  /\ pc[r] = "challenge" /\ Goto(r, "asked")
  /\ challenges' = challenges \cup {job[r].from}
  /\ UNCHANGED <<account, sessions, links, holdings, job, saw>> /\ Quietly

CreateChallenge(r) ==
  /\ pc[r] = "challenge" /\ Goto(r, "asked")
  /\ challenges' = challenges \cup {r}
  /\ UNCHANGED <<account, sessions, links, holdings, job, saw>> /\ Quietly

CreateLink(r) ==
  /\ pc[r] = "link" /\ Goto(r, "ok")
  /\ links' = links \cup {r}
  /\ UNCHANGED <<account, sessions, challenges, holdings, job, saw>> /\ Quietly

\* The password a session rests on is the one its challenge was issued for.
CreateSession(r) ==
  LET known == saw[IF job[r].kind = "verify" THEN job[r].from ELSE r].password
      made == [password |-> known, factor |-> job[r].kind = "verify"]
  IN
  /\ pc[r] = "insert" /\ Goto(r, "ok")
  /\ sessions' = sessions \cup {r}
  /\ born' = [born EXCEPT ![r] = made]
  /\ late' = IF known # password \/ (factor.on /\ ~made.factor) THEN late \cup {r} ELSE late
  /\ UNCHANGED <<account, challenges, links, holdings, job, saw, proven, grants, raced, clashes>>

ConsumeChallenge(r) ==
  /\ pc[r] = "consume" /\ Goto(r, "insert")
  /\ challenges' = challenges \ {job[r].from}
  /\ UNCHANGED <<account, sessions, links, holdings, job, saw>> /\ Quietly

\* Mutant: the code is checked, not used up.
KeepCode(r) ==
  /\ pc[r] = "burn"
  /\ Goto(r, IF job[r].kind = "verify" THEN "consume" ELSE "off")
  /\ grants' = [grants EXCEPT ![job[r].code[2]].code = @ + 1]
  /\ UNCHANGED <<account, tables, holdings, job, saw, born, late, proven, raced, clashes>>

BurnCode(r) ==
  /\ pc[r] = "burn"
  /\ Goto(r, IF job[r].kind = "verify" THEN "consume" ELSE "off")
  /\ codes' = codes \ {job[r].code[2]}
  /\ grants' = [grants EXCEPT ![job[r].code[2]].code = @ + 1]
  /\ UNCHANGED <<password, factor, disabled, tables, holdings, job, saw, born, late,
                 proven, raced, clashes>>

\* The session that changes the password goes on with the new one.
SetPassword(r) ==
  LET kind == job[r].kind IN
  /\ pc[r] = "set"
  /\ Goto(r, CASE kind = "redeem" -> "used" [] kind = "change" -> "others" [] OTHER -> "all")
  /\ password' = r
  /\ born' = IF kind = "change" THEN [born EXCEPT ![job[r].session].password = r] ELSE born
  /\ grants' = IF kind = "redeem" THEN [grants EXCEPT ![job[r].from].link = @ + 1] ELSE grants
  /\ UNCHANGED <<factor, codes, disabled, tables, holdings, job, saw, late, proven, raced, clashes>>

\* Mutant: nobody is signed out.
UseLinkOnly(r) ==
  /\ pc[r] = "used" /\ Goto(r, "ok")
  /\ links' = links \ {job[r].from}
  /\ UNCHANGED <<account, sessions, challenges, holdings, job, saw>> /\ Quietly

UseLink(r) ==
  /\ pc[r] = "used" /\ Goto(r, "all")
  /\ links' = links \ {job[r].from}
  /\ UNCHANGED <<account, sessions, challenges, holdings, job, saw>> /\ Quietly

SignOut(r) ==
  /\ pc[r] \in {"all", "others"}
  /\ sessions' = IF pc[r] = "all" THEN {} ELSE sessions \cap {job[r].session}
  /\ Goto(r, IF job[r].kind = "reset" THEN "flags" ELSE "ok")
  /\ UNCHANGED <<account, challenges, links, holdings, job, saw>> /\ Quietly

SetFlags(r) ==
  /\ pc[r] = "flags" /\ Goto(r, "ok")
  /\ disabled' = (job[r].kind = "disabling")
  /\ UNCHANGED <<password, factor, codes, tables, holdings, job, saw>> /\ Quietly

\* An enrolment was let in that has not turned its factor on.
Confirming == \E q \in Requests : pc[q] = "on"

\* A fresh secret, not yet trusted; what is on by now is off.
StoreSecret(r) ==
  /\ pc[r] = "secret" /\ Goto(r, "ok")
  /\ factor' = [on |-> FALSE, secret |-> r]
  /\ clashes' = IF factor.on \/ Confirming THEN clashes \cup {"swapped"} ELSE clashes
  /\ UNCHANGED <<password, codes, disabled, tables, holdings, job, saw, born, late,
                 proven, grants, raced>>

ListsMoving(r) == \E q \in Requests \ {r} : pc[q] \in {"drop", "issue"}
Crossing(r) == IF ListsMoving(r) THEN clashes \cup {"mixed"} ELSE clashes

\* The secret is not written: it is the one of the latest enrolment.
TurnOn(r) ==
  /\ pc[r] = "on" /\ Goto(r, "drop")
  /\ factor' = [factor EXCEPT !.on = TRUE]
  /\ born' = [born EXCEPT ![job[r].session].factor = TRUE]
  /\ clashes' = Crossing(r)
  /\ UNCHANGED <<password, codes, disabled, tables, holdings, job, saw, late, proven, grants, raced>>

TurnOff(r) ==
  /\ pc[r] = "off" /\ Goto(r, "drop")
  /\ factor' = Off
  /\ clashes' = Crossing(r) \cup (IF Confirming THEN {"swapped"} ELSE {})
  /\ UNCHANGED <<password, codes, disabled, tables, holdings, job, saw, born, late, proven,
                 grants, raced>>

DropCodes(r) ==
  /\ pc[r] = "drop"
  /\ Goto(r, IF job[r].kind = "disable" THEN "ok" ELSE "issue")
  /\ codes' = {}
  /\ clashes' = Crossing(r)
  /\ UNCHANGED <<password, factor, disabled, tables, holdings, job, saw, born, late, proven,
                 grants, raced>>

IssueCodes(r) ==
  /\ pc[r] = "issue"
  /\ Goto(r, IF job[r].kind = "confirm" THEN "others" ELSE "ok")
  /\ codes' = codes \cup {r}
  /\ UNCHANGED <<password, factor, disabled, tables, holdings, job, saw>> /\ Quietly

DeleteSession(r) ==
  /\ pc[r] = "logout" /\ Goto(r, "ok")
  /\ sessions' = sessions \ {job[r].session}
  /\ UNCHANGED <<account, challenges, links, holdings, job, saw>> /\ Quietly

\* A query throws, or the Worker is stopped.
Throw(r) ==
  /\ Working(r) /\ Goto(r, "error")
  /\ clashes' = IF pc[r] \in {"used", "all", "others", "drop", "issue"}
                THEN clashes \cup {"cut"} ELSE clashes
  /\ UNCHANGED <<account, tables, holdings, job, saw, born, late, proven, grants, raced>>

Expire ==
  /\ \/ \E s \in sessions : sessions' = sessions \ {s} /\ UNCHANGED <<challenges, links>>
     \/ \E c \in challenges : challenges' = challenges \ {c} /\ UNCHANGED <<sessions, links>>
     \/ \E l \in links : links' = links \ {l} /\ UNCHANGED <<sessions, challenges>>
  /\ UNCHANGED <<account, holdings, pc, job, saw>> /\ Quietly

-----------------------------------------------------------------------------
(***************************************************************************)
(* The browser hears, or gives up waiting.                                 *)
(***************************************************************************)
Hear(r, answers) ==
  /\ pc[r] \in answers /\ Goto(r, "done")
  /\ UNCHANGED <<account, tables, job, saw>> /\ Quietly

\* persistAuthSession, and the cookie of the answer.
SignedIn(r) ==
  LET b == job[r].by IN
  /\ job[r].kind \in {"login", "verify"} /\ Hear(r, {"ok"})
  /\ bearer' = [bearer EXCEPT ![b] = r]
  /\ cookie' = [cookie EXCEPT ![b] = r]
  /\ pending' = [pending EXCEPT ![b] = None]
  /\ UNCHANGED <<phone, paper>>

AskedForCode(r) ==
  /\ job[r].kind = "login" /\ Hear(r, {"asked"})
  /\ pending' = [pending EXCEPT ![job[r].by] = r]
  /\ UNCHANGED <<bearer, cookie, phone, paper>>

BackToPassword(r) ==
  /\ job[r].kind = "verify" /\ Hear(r, {"expired"})
  /\ pending' = [pending EXCEPT ![job[r].by] = None]
  /\ UNCHANGED <<bearer, cookie, phone, paper>>

ScanSecret(r) ==
  /\ job[r].kind = "enroll" /\ Hear(r, {"ok"})
  /\ phone' = phone \cup {r}
  /\ UNCHANGED <<bearer, cookie, pending, paper>>

SaveCodes(r) ==
  /\ job[r].kind \in {"confirm", "renew"} /\ Hear(r, {"ok"})
  /\ paper' = paper \cup {r}
  /\ UNCHANGED <<bearer, cookie, pending, phone>>

\* The cookie is the server's to clear.
LoggedOut(r) ==
  LET b == job[r].by IN
  /\ job[r].kind = "logout" /\ Hear(r, {"ok", "error"})
  /\ bearer' = [bearer EXCEPT ![b] = None]
  /\ cookie' = IF pc[r] = "ok" THEN [cookie EXCEPT ![b] = None] ELSE cookie
  /\ UNCHANGED <<pending, phone, paper>>

\* authFetch sends the page to /login.
SentToLogin(r) ==
  /\ Hear(r, {"unauthorized"})
  /\ bearer' = [bearer EXCEPT ![job[r].by] = None]
  /\ UNCHANGED <<cookie, pending, phone, paper>>

ShowMessage(r) ==
  /\ job[r].kind # "logout" /\ Hear(r, {"refused", "error"})
  /\ UNCHANGED holdings

\* The answer is lost, or says no more than that it is done.
NoNews(r) == job[r].kind # "logout" /\ Hear(r, {"ok", "asked"}) /\ UNCHANGED holdings

Submit(b, r) ==
  \/ SubmitLogin(b, r) \/ RequestReset(b, r) \/ ChangePassword(b, r) \/ OpenEnroll(b, r)
  \/ SubmitRenew(b, r) \/ ClickLogout(b, r)
  \/ \E c \in KnownCodes : SubmitMfaCode(b, r, c) \/ SubmitDisable(b, r, c)
  \/ \E s \in phone : ConfirmEnroll(b, r, s)
  \/ \E l \in Ids : OpenLink(b, r, l)
Serve(r) ==
  \/ TurnAway(r) \/ LoginRead(r) \/ ReadChallenge(r) \/ ReadUser(r) \/ FindSession(r)
  \/ FindOwner(r) \/ FindAccount(r) \/ FindCode(r) \/ FindLink(r)
  \/ CreateChallenge(r) \/ CreateLink(r) \/ CreateSession(r) \/ ConsumeChallenge(r)
  \/ BurnCode(r) \/ SetPassword(r) \/ UseLink(r) \/ SignOut(r) \/ SetFlags(r)
  \/ StoreSecret(r) \/ TurnOn(r) \/ TurnOff(r) \/ DropCodes(r) \/ IssueCodes(r)
  \/ DeleteSession(r) \/ Throw(r)
Answer(r) ==
  \/ SignedIn(r) \/ AskedForCode(r) \/ BackToPassword(r) \/ ScanSecret(r) \/ SaveCodes(r)
  \/ LoggedOut(r) \/ SentToLogin(r) \/ ShowMessage(r) \/ NoNews(r)

Next ==
  \/ \E r \in Requests :
       \/ \E b \in Browsers : Submit(b, r)
       \/ AdminReset(r) \/ AdminDisable(r) \/ Serve(r) \/ Answer(r)
  \/ Expire

Spec == Init /\ [][Next]_vars

-----------------------------------------------------------------------------
(***************************************************************************)
(* Properties                                                              *)
(***************************************************************************)
TypeOK ==
  /\ password \in Ids /\ disabled \in BOOLEAN /\ factor \in Factors
  /\ codes \subseteq Ids /\ phone \subseteq Ids /\ paper \subseteq Ids
  /\ sessions \subseteq Ids /\ challenges \subseteq Ids /\ links \subseteq Ids
  /\ bearer \in [Browsers -> Held] /\ cookie \in [Browsers -> Held]
  /\ pending \in [Browsers -> Held]
  /\ pc \in [Requests -> Steps] /\ job \in [Requests -> Jobs]
  /\ saw \in [Ids -> [password : Ids, factor : Factors, disabled : BOOLEAN]]
  /\ born \in [Ids -> [password : Ids, factor : BOOLEAN]]
  /\ late \subseteq Ids /\ proven \subseteq Held
  /\ grants \in [Ids -> [code : Nat, link : Nat]]
  /\ raced \subseteq {"code", "link"} \X Ids /\ clashes \subseteq {"cut", "swapped", "mixed"}

Ending(r) == pc[r] \in {"used", "all", "others"}
Current(s) == born[s].password = password /\ (factor.on => born[s].factor)

(***************************************************************************)
(* A new password, and a second factor, sign the others out                *)
(* (password-reset.ts:50, mfa.ts:47, accounts/[id]/route.ts:51): once the  *)
(* request that set it is through, every session rests on the password     *)
(* and the factor the account has, or is the one that asked.  Except       *)
(* sessions made by a sign-in that had its password checked before; a      *)
(* challenge is such a sign-in, and outlives a reset.                      *)
(***************************************************************************)
SessionsAreCurrent ==
  \A s \in sessions :
    \/ Current(s) \/ s \in late \/ "cut" \in clashes
    \/ \E r \in Requests : Ending(r) \/ pc[r] \in {"drop", "issue"}

(***************************************************************************)
(* "Each code works once" (mfa-settings.tsx:97), and so does a reset link, *)
(* unless two requests had found it before either used it, or one ended    *)
(* between the new password and the end of the link.                       *)
(***************************************************************************)
SingleUse ==
  \A i \in Ids :
    /\ grants[i].code <= 1 \/ <<"code", i>> \in raced
    /\ grants[i].link <= 1 \/ <<"link", i>> \in raced \/ "cut" \in clashes

(***************************************************************************)
(* A factor that is on has a secret an authenticator gave a code of        *)
(* (mfa.ts:20-22), and one list of recovery codes, the old one being gone  *)
(* (recovery-codes/route.ts:9): except for an enrolment that was let in    *)
(* before the factor changed, and for two lists replaced at once.          *)
(***************************************************************************)
FactorIsWhole ==
  /\ factor.on => factor.secret \in proven \/ "swapped" \in clashes
  /\ Cardinality(codes) <= 1 \/ "mixed" \in clashes
  /\ (factor.on /\ \A r \in Requests : pc[r] \notin {"drop", "issue"}) =>
       \/ "cut" \in clashes \/ "mixed" \in clashes
       \/ codes # {} \/ \E i \in Ids : grants[i].code > 0
=============================================================================
