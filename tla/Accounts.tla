------------------------------ MODULE Accounts ------------------------------
(***************************************************************************)
(* One account, used from several browsers of its owner: sign-up, sign-in  *)
(* with its grace period and its lockout, verification, password reset and *)
(* sessions, with the pages that drive them.                               *)
(*                                                                         *)
(* lib/auth.ts keeps the counters with a SELECT and a later UPDATE, so a   *)
(* sign-in is cut at each of its statements and others run in between.     *)
(* Passwords are numbered by reset; user.pw is the one that works.  What   *)
(* Better Auth does itself is taken from its options and hooks.            *)
(***************************************************************************)
EXTENDS Naturals, FiniteSets

CONSTANTS
  Browser,
  MaxUnverified, MaxFailed,   \* MAX_UNVERIFIED_LOGINS, MAX_FAILED_LOGINS
  LockTime,                   \* LOCK_DURATION_MS, in ticks
  MaxSignIns                  \* bound: sign-in requests

ASSUME AccountsAssumption ==
  /\ MaxUnverified \in Nat \ {0} /\ MaxFailed \in Nat \ {0}
  /\ LockTime \in Nat \ {0} /\ MaxSignIns \in Nat

VARIABLES
  user,      \* the row: pw, verified, unverifiedLoginCount, failedLoginCount, lock
  links,     \* the mailed links that still work
  session,   \* session[b]: the password b signed in with, or NoSession
  signIn,    \* signIn[b]: b's sign-in request in the API
  view,      \* view[b]: the page b shows; a page with only a message is a "notice"
  reset,     \* the reset request in the API
  tally      \* for the properties: what really happened

accountVars == <<user, links, session, signIn, view, reset, tally>>

NoSession == 99
NoSignIn  == [step |-> "none", typed |-> 0, ok |-> FALSE, val |-> 0,
              locked |-> FALSE, early |-> FALSE, crossed |-> FALSE]
NoReset   == [step |-> "none", by |-> "nobody"]

\* A mail with link l is sent.  Without a provider none is, and a failure to
\* deliver one is swallowed: the caller goes on as if it had arrived.
Mail(l) == links' \in {links, links \cup {l}}

\* Sign-ins whose password has been checked.
Checked == {b \in Browser : signIn[b].step \in {"grace", "count", "create", "after", "write"}}

AccountsInit ==
  /\ user = [exists |-> FALSE, pw |-> 0, verified |-> FALSE,
             grace |-> 0, fails |-> 0, lock |-> 0]
  /\ links = {}
  /\ session = [b \in Browser |-> NoSession]
  /\ signIn = [b \in Browser |-> NoSignIn]
  /\ view = [b \in Browser |-> "login"]
  /\ reset = NoReset
  /\ tally = [wrong |-> 0, made |-> 0, sent |-> 0, overlap |-> FALSE, strays |-> {}]

Show(b, v)  == view' = [view EXCEPT ![b] = v]
Put(b, r)   == signIn' = [signIn EXCEPT ![b] = r]
To(b, s)    == Put(b, [signIn[b] EXCEPT !.step = s])
\* A password is checked while another checked sign-in has not finished.
Overlap(b)  == tally.overlap \/ Checked \ {b} # {} \/ reset.step # "none"

-----------------------------------------------------------------------------
(* Pages *)

\* The app's layout lets everybody in who is not known to be signed out; the
\* session lookup may be unavailable.
OpenApp(b) ==
  /\ signIn[b].step = "none"
  /\ \E known \in BOOLEAN :
       Show(b, IF known /\ session[b] = NoSession THEN "login" ELSE "app")
  /\ UNCHANGED <<user, links, session, signIn, reset, tally>>

\* The public pages, and the link in a mail.
OpenPage(b) ==
  /\ signIn[b].step = "none" /\ ~(reset.step # "none" /\ reset.by = b)
  /\ \/ \E v \in {"login", "forgot"} : Show(b, v)
     \/ "reset" \in links /\ Show(b, "reset")
  /\ UNCHANGED <<user, links, session, signIn, reset, tally>>

\* The header's menu.
SignOut(b) ==
  /\ view[b] = "app" /\ session[b] # NoSession
  /\ session' = [session EXCEPT ![b] = NoSession]
  /\ tally' = [tally EXCEPT !.strays = @ \ {b}]
  /\ Show(b, "login")
  /\ UNCHANGED <<user, links, signIn, reset>>

\* AuthForm, signup: the checks of the form pass and the address is new.  The
\* new user is signed in, which counts, and gets a verification mail.
SignUp(b) ==
  /\ view[b] = "login" /\ ~user.exists
  /\ user' = [user EXCEPT !.exists = TRUE, !.grace = 1]
  /\ Mail("verify")
  /\ session' = [session EXCEPT ![b] = user.pw]
  /\ tally' = [tally EXCEPT !.made = 1]
  /\ Show(b, "app")
  /\ UNCHANGED <<signIn, reset>>

\* AuthForm, login: the button is disabled while a request is out.
SubmitSignIn(b) ==
  /\ view[b] = "login" /\ user.exists /\ signIn[b].step = "none"
  /\ session[b] = NoSession /\ tally.sent < MaxSignIns
  /\ tally' = [tally EXCEPT !.sent = @ + 1]
  /\ \E typed \in {0, 1} : Put(b, [NoSignIn EXCEPT !.step = "before", !.typed = typed])
  /\ UNCHANGED <<user, links, session, view, reset>>

\* ForgotPasswordForm: rate limited or unreachable, or the generic notice.
SubmitForgot(b) ==
  /\ view[b] = "forgot" /\ user.exists
  /\ \/ UNCHANGED <<view, links>>
     \/ Show(b, "notice") /\ Mail("reset")
  /\ UNCHANGED <<user, session, signIn, reset, tally>>

\* Following the verification link verifies and signs in.
Verify(b) ==
  /\ "verify" \in links /\ signIn[b].step = "none"
  /\ user' = [user EXCEPT !.verified = TRUE]
  /\ links' = links \ {"verify"}
  /\ session' = [session EXCEPT ![b] = user.pw]
  /\ tally' = [tally EXCEPT !.strays = @ \ {b}]
  /\ Show(b, "app")
  /\ UNCHANGED <<signIn, reset>>

\* VerifyEmailResult: a link that no longer works can be replaced.
ResendVerification(b) ==
  /\ "verify" \notin links /\ signIn[b].step = "none"
  /\ user.exists /\ ~user.verified
  /\ Mail("verify")
  /\ Show(b, "notice")
  /\ UNCHANGED <<user, session, signIn, reset, tally>>

-----------------------------------------------------------------------------
(* Sign-in, statement by statement *)

\* The lock is only looked at after the password.
BadBefore(b) ==
  /\ signIn[b].step = "before"
  /\ To(b, "password")
  /\ UNCHANGED <<user, links, session, view, reset, tally>>

\* hooks.before: refused with 403 while the account is locked.
Before(b) ==
  /\ signIn[b].step = "before"
  /\ To(b, IF user.lock > 0 THEN "none" ELSE "password")
  /\ UNCHANGED <<user, links, session, view, reset, tally>>

\* Better Auth compares the password.
CheckPassword(b) ==
  LET ok == signIn[b].typed = user.pw IN
  /\ signIn[b].step = "password"
  /\ Put(b, [signIn[b] EXCEPT !.ok = ok, !.step = IF ok THEN "grace" ELSE "after"])
  /\ tally' = [tally EXCEPT !.wrong = IF ok THEN @ ELSE @ + 1, !.overlap = Overlap(b)]
  /\ UNCHANGED <<user, links, session, view, reset>>

\* session.create.before reads the user: a verified one is never counted.
ReadGrace(b) ==
  /\ signIn[b].step = "grace"
  /\ Put(b, [signIn[b] EXCEPT !.val = user.grace,
                !.step = IF user.verified THEN "create" ELSE "count"])
  /\ UNCHANGED <<user, links, session, view, reset, tally>>

\* The last free sign-in is counted but not refused.
BadCountGrace(b) ==
  LET count == signIn[b].val + 1 IN
  /\ signIn[b].step = "count"
  /\ user' = [user EXCEPT !.grace = count]
  /\ IF count > MaxUnverified + 1
       THEN Put(b, NoSignIn) /\ Mail("verify")
       ELSE To(b, "create") /\ UNCHANGED links
  /\ UNCHANGED <<session, view, reset, tally>>

\* It writes what it read plus one, and refuses with 403, which neither counts
\* as a wrong password nor clears the count; the form asks for a new link.
CountGrace(b) ==
  LET count == signIn[b].val + 1 IN
  /\ signIn[b].step = "count"
  /\ user' = [user EXCEPT !.grace = count]
  /\ IF count > MaxUnverified
       THEN Put(b, NoSignIn) /\ Mail("verify")
       ELSE To(b, "create") /\ UNCHANGED links
  /\ UNCHANGED <<session, view, reset, tally>>

CreateSession(b) ==
  /\ signIn[b].step = "create"
  /\ session' = [session EXCEPT ![b] = signIn[b].typed]
  /\ To(b, "after")
  /\ tally' = [tally EXCEPT !.made = IF user.verified THEN @ ELSE @ + 1,
                            !.strays = IF signIn[b].crossed THEN @ \cup {b} ELSE @ \ {b}]
  /\ UNCHANGED <<user, links, view, reset>>

\* hooks.after reads the lock state.
ReadLock(b) ==
  /\ signIn[b].step = "after"
  /\ Put(b, [signIn[b] EXCEPT !.step = "write", !.val = user.fails,
                               !.locked = user.lock > 0])
  /\ UNCHANGED <<user, links, session, view, reset, tally>>

\* A wrong password that does not lock leaves the count as it is.
BadLockState(s) ==
  IF s.ok \/ s.val + 1 >= MaxFailed THEN [fails |-> 0, lock |-> IF s.ok THEN 0 ELSE LockTime]
  ELSE [fails |-> s.val, lock |-> 0]

\* What hooks.after writes: a success clears, the MaxFailed-th failure locks.
LockState(s) ==
  CASE s.ok /\ (s.val > 0 \/ s.locked)  -> [fails |-> 0, lock |-> 0]
    [] s.ok /\ ~(s.val > 0 \/ s.locked) -> [fails |-> user.fails, lock |-> user.lock]
    [] ~s.ok /\ s.val + 1 >= MaxFailed  -> [fails |-> 0, lock |-> LockTime]
    [] ~s.ok /\ s.val + 1 < MaxFailed   -> [fails |-> s.val + 1, lock |-> 0]

\* Locking mails a reset link.  The answer takes the browser to the app, or
\* shows its error; it may be lost on its way.
WriteLock(b) ==
  LET s == signIn[b]  new == LockState(s)  locks == ~s.ok /\ s.val + 1 >= MaxFailed IN
  /\ s.step = "write"
  /\ user' = [user EXCEPT !.fails = new.fails, !.lock = new.lock]
  /\ IF locks THEN Mail("reset") ELSE UNCHANGED links
  /\ signIn' = [c \in Browser |->
       IF c = b THEN NoSignIn
       ELSE IF locks /\ signIn[c].step \notin {"none", "before"}
            THEN [signIn[c] EXCEPT !.early = TRUE] ELSE signIn[c]]
  /\ tally' = [tally EXCEPT !.wrong = IF s.ok \/ locks THEN 0 ELSE @]
  /\ \/ s.ok /\ Show(b, "app")
     \/ UNCHANGED view
  /\ UNCHANGED <<session, reset>>

-----------------------------------------------------------------------------
(* Password reset *)

\* ResetPasswordForm: length and match are checked in the form.  Every error
\* answer, a dead link, a rate limit or a fault, ends on a notice.
SubmitReset(b) ==
  /\ view[b] = "reset" /\ reset.step = "none"
  /\ \/ "reset" \in links /\ reset' = [step |-> "change", by |-> b] /\ UNCHANGED view
     \/ Show(b, "notice") /\ UNCHANGED reset
  /\ UNCHANGED <<user, links, session, signIn, tally>>

\* The password is changed, once: the link stops working.
ChangePassword ==
  /\ reset.step = "change" /\ user.pw = 0
  /\ user' = [user EXCEPT !.pw = 1]
  /\ links' = links \ {"reset"}
  /\ signIn' = [c \in Browser |->
       IF signIn[c].step \in {"grace", "count", "create"}
       THEN [signIn[c] EXCEPT !.crossed = TRUE] ELSE signIn[c]]
  /\ tally' = [tally EXCEPT !.overlap = @ \/ Checked # {}]
  /\ reset' = [reset EXCEPT !.step = "clear"]
  /\ UNCHANGED <<session, view>>

\* onPasswordReset clears the lockout; a failure to is swallowed.
ClearLockout ==
  /\ reset.step = "clear"
  /\ \/ user' = [user EXCEPT !.fails = 0, !.lock = 0]
        /\ tally' = [tally EXCEPT !.wrong = 0, !.overlap = @ \/ Checked # {}]
     \/ UNCHANGED <<user, tally>>
  /\ reset' = [reset EXCEPT !.step = "revoke"]
  /\ UNCHANGED <<links, session, signIn, view>>

\* The mailed reset leaves the other browsers signed in.
BadRevokeSessions ==
  /\ reset.step = "revoke"
  /\ session' = [session EXCEPT ![reset.by] = NoSession]
  /\ tally' = [tally EXCEPT !.strays = {}]
  /\ reset' = NoReset
  /\ Show(reset.by, "notice")
  /\ UNCHANGED <<user, links, signIn>>

\* revokeSessionsOnPasswordReset.
RevokeSessions ==
  /\ reset.step = "revoke"
  /\ session' = [c \in Browser |-> NoSession]
  /\ tally' = [tally EXCEPT !.strays = {}]
  /\ reset' = NoReset
  /\ Show(reset.by, "notice")
  /\ UNCHANGED <<user, links, signIn>>

\* Time: locks and links run out.
AccountsTick ==
  /\ \/ user.lock > 0 /\ user' = [user EXCEPT !.lock = @ - 1] /\ UNCHANGED links
     \/ \E l \in links : links' = links \ {l} /\ UNCHANGED user
  /\ UNCHANGED <<session, signIn, view, reset, tally>>

-----------------------------------------------------------------------------

AccountsNext ==
  \/ AccountsTick \/ ChangePassword \/ ClearLockout \/ RevokeSessions
  \/ \E b \in Browser :
       \/ OpenApp(b) \/ OpenPage(b) \/ SignOut(b) \/ SignUp(b) \/ SubmitSignIn(b)
       \/ SubmitForgot(b) \/ Verify(b) \/ ResendVerification(b) \/ SubmitReset(b)
       \/ Before(b) \/ CheckPassword(b) \/ ReadGrace(b) \/ CountGrace(b)
       \/ CreateSession(b) \/ ReadLock(b) \/ WriteLock(b)

AccountsSpec == AccountsInit /\ [][AccountsNext]_accountVars

-----------------------------------------------------------------------------
(* Properties *)

\* auth.ts:217-218: the failures on record are the consecutive ones, as long
\* as no two sign-ins ran at once (the counter is read, then written).
FailuresAddUp ==
  ~tally.overlap /\ Checked = {} => user.fails = tally.wrong

\* auth.ts:192-194: without such an overlap, no more than MaxUnverified
\* sessions exist or existed of an unverified user, the sign-up's included.
GraceHolds == ~tally.overlap /\ ~user.verified => tally.made <= MaxUnverified

\* auth.ts:216: while the account is locked, the sign-ins that are past the
\* check are those that were past it when the lock was set.
LockStopsSignIns ==
  user.lock > 0 => \A b \in Checked : signIn[b].early

\* auth.ts:93: once a reset is over, no browser is signed in with the old
\* password, except by a sign-in that the reset overtook.
SessionsFollowPassword ==
  reset.step = "none" =>
    \A b \in Browser \ tally.strays : session[b] \in {NoSession, user.pw}
=============================================================================
