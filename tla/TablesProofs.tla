---------------------------- MODULE TablesProofs ----------------------------
(***************************************************************************)
(* The tables that hold no batches: the account behind the sign-ins, and   *)
(* the alerts of a URL with the browser that shows them.                   *)
(***************************************************************************)
EXTENDS Accounts, Alerts, FiniteSetTheorems, TLAPS

-----------------------------------------------------------------------------
(* Accounts: the invariant *)

Steps == {"none", "before", "password", "grace", "count", "create", "after", "write"}

SignInRow == [step : Steps, typed : {0, 1}, ok : BOOLEAN, val : Nat,
              locked : BOOLEAN, early : BOOLEAN, crossed : BOOLEAN]
UserRow   == [exists : BOOLEAN, pw : {0, 1}, verified : BOOLEAN, grace : Nat, fails : Nat, lock : Nat]
TallyRow  == [wrong : Nat, made : Nat, sent : Nat, overlap : BOOLEAN, strays : SUBSET Browser]

AccountsTypeOK ==
  /\ user \in UserRow /\ tally \in TallyRow
  /\ session \in [Browser -> {NoSession, 0, 1}]
  /\ signIn \in [Browser -> SignInRow]
  /\ reset \in [step : {"none", "change", "clear", "revoke"}, by : Browser \cup {"nobody"}]

\* Whoever is past the lock check was so when the lock was set.
LockInv ==
  user.lock > 0 =>
    \A b \in Browser : signIn[b].step \notin {"none", "before"} => signIn[b].early

\* Until a reset changes the password, and again once it has revoked the
\* sessions, those that exist have the password that works.
SessionInv ==
  /\ reset.step \in {"none", "change"} =>
       \A b \in Browser \ tally.strays : session[b] \in {NoSession, user.pw}
  /\ \A b \in Browser :
       signIn[b].step \in {"grace", "count", "create"} =>
         signIn[b].crossed \/ signIn[b].typed = user.pw

\* Without an overlap one checked sign-in at most is under way, and the count
\* it is about to write is the number of failures before its own.
CountInv ==
  /\ ~user.exists => \A b \in Browser : signIn[b].step = "none"
  /\ \A b \in Browser : signIn[b].step \in {"grace", "count", "create"} => signIn[b].ok
  /\ ~tally.overlap =>
       /\ \A b, c \in Checked : b = c
       /\ \A b \in Checked : /\ signIn[b].step = "write" => signIn[b].val = user.fails
                             /\ tally.wrong = IF signIn[b].ok THEN user.fails ELSE user.fails + 1
       /\ Checked = {} => tally.wrong = user.fails

\* A session of an unverified user is counted before it is made.
GraceInv ==
  ~tally.overlap /\ ~user.verified =>
    /\ tally.made <= user.grace /\ tally.made <= MaxUnverified
    /\ \A b \in Browser :
         /\ signIn[b].step = "count" => signIn[b].val = user.grace
         /\ signIn[b].step = "create" => tally.made < user.grace /\ tally.made < MaxUnverified

AccountsInv == AccountsTypeOK /\ LockInv /\ SessionInv /\ CountInv /\ GraceInv

LEMMA NoSignInFields ==
  /\ NoSignIn \in SignInRow /\ NoSignIn.step = "none" /\ NoSignIn.early = FALSE
  BY DEF NoSignIn, SignInRow, Steps

LEMMA InitAccounts == AccountsInit => AccountsInv
  <1>. SUFFICES ASSUME AccountsInit PROVE AccountsInv
    OBVIOUS
  <1>1. /\ user \in UserRow /\ user.exists = FALSE /\ user.lock = 0 /\ user.fails = 0 /\ user.grace = 0
        /\ tally \in TallyRow /\ tally.wrong = 0 /\ tally.made = 0
    BY DEF AccountsInit, UserRow, TallyRow
  <1>2. /\ signIn \in [Browser -> SignInRow] /\ \A b \in Browser : signIn[b].step = "none"
        /\ session \in [Browser -> {NoSession, 0, 1}] /\ \A b \in Browser : session[b] = NoSession
    BY NoSignInFields DEF AccountsInit
  <1>3. reset \in [step : {"none", "change", "clear", "revoke"}, by : Browser \cup {"nobody"}]
    BY DEF AccountsInit, NoReset
  <1>4. Checked = {}
    BY <1>2 DEF Checked
  <1>. QED
    BY <1>1, <1>2, <1>3, <1>4, AccountsAssumption
       DEF AccountsInv, AccountsTypeOK, LockInv, SessionInv, CountInv, GraceInv

-----------------------------------------------------------------------------
(* Accounts: the pages *)

LEMMA PageStep ==
  ASSUME AccountsInv, UNCHANGED <<user, session, signIn, reset, tally>>
  PROVE  AccountsInv'
  BY DEF AccountsInv, AccountsTypeOK, LockInv, SessionInv, CountInv, GraceInv, Checked

LEMMA SignOutStep == ASSUME AccountsInv, NEW b \in Browser, SignOut(b) PROVE AccountsInv'
  <1>1. AccountsTypeOK /\ LockInv /\ SessionInv /\ CountInv /\ GraceInv
    BY DEF AccountsInv
  <1>2. /\ UNCHANGED <<user, signIn, reset>>
        /\ session' \in [Browser -> {NoSession, 0, 1}]
        /\ session'[b] = NoSession /\ \A c \in Browser \ {b} : session'[c] = session[c]
        /\ tally' \in TallyRow /\ tally'.strays = tally.strays \ {b}
        /\ tally'.wrong = tally.wrong /\ tally'.made = tally.made /\ tally'.overlap = tally.overlap
    BY <1>1 DEF SignOut, AccountsTypeOK, TallyRow
  <1>3. AccountsTypeOK' /\ LockInv' /\ GraceInv' /\ Checked' = Checked
    BY <1>1, <1>2 DEF AccountsTypeOK, LockInv, GraceInv, Checked
  <1>4. SessionInv'
    BY <1>1, <1>2 DEF SessionInv
  <1>5. CountInv'
    BY <1>1, <1>2, <1>3 DEF CountInv
  <1>. QED
    BY <1>3, <1>4, <1>5 DEF AccountsInv

LEMMA SignUpStep == ASSUME AccountsInv, NEW b \in Browser, SignUp(b) PROVE AccountsInv'
  <1>1. AccountsTypeOK /\ LockInv /\ SessionInv /\ CountInv /\ GraceInv
    BY DEF AccountsInv
  <1>2. /\ UNCHANGED <<signIn, reset>> /\ ~user.exists
        /\ user' \in UserRow /\ user'.pw = user.pw /\ user'.lock = user.lock
        /\ user'.fails = user.fails /\ user'.grace = 1 /\ user'.exists
        /\ session' \in [Browser -> {NoSession, 0, 1}]
        /\ session'[b] = user.pw /\ \A c \in Browser \ {b} : session'[c] = session[c]
        /\ tally' \in TallyRow /\ tally'.strays = tally.strays
        /\ tally'.wrong = tally.wrong /\ tally'.made = 1 /\ tally'.overlap = tally.overlap
    BY <1>1 DEF SignUp, AccountsTypeOK, TallyRow, UserRow
  <1>3. \A c \in Browser : signIn[c].step = "none"
    BY <1>1, <1>2 DEF CountInv
  <1>4. AccountsTypeOK' /\ LockInv' /\ Checked' = {} /\ Checked = {}
    BY <1>1, <1>2, <1>3 DEF AccountsTypeOK, LockInv, Checked
  <1>5. SessionInv'
    BY <1>1, <1>2 DEF SessionInv
  <1>6. CountInv'
    BY <1>1, <1>2, <1>3, <1>4 DEF CountInv
  <1>7. GraceInv'
    BY <1>2, <1>3, AccountsAssumption DEF GraceInv
  <1>. QED
    BY <1>4, <1>5, <1>6, <1>7 DEF AccountsInv

LEMMA VerifyStep == ASSUME AccountsInv, NEW b \in Browser, Verify(b) PROVE AccountsInv'
  <1>1. AccountsTypeOK /\ LockInv /\ SessionInv /\ CountInv /\ GraceInv
    BY DEF AccountsInv
  <1>2. /\ UNCHANGED <<signIn, reset>>
        /\ user' \in UserRow /\ user'.pw = user.pw /\ user'.lock = user.lock
        /\ user'.fails = user.fails /\ user'.exists = user.exists /\ user'.verified
        /\ session' \in [Browser -> {NoSession, 0, 1}]
        /\ session'[b] = user.pw /\ \A c \in Browser \ {b} : session'[c] = session[c]
        /\ tally' \in TallyRow /\ tally'.strays = tally.strays \ {b}
        /\ tally'.wrong = tally.wrong /\ tally'.overlap = tally.overlap
    BY <1>1 DEF Verify, AccountsTypeOK, TallyRow, UserRow
  <1>3. AccountsTypeOK' /\ LockInv' /\ Checked' = Checked /\ GraceInv'
    BY <1>1, <1>2 DEF AccountsTypeOK, LockInv, Checked, GraceInv
  <1>4. SessionInv'
    BY <1>1, <1>2 DEF SessionInv
  <1>5. CountInv'
    BY <1>1, <1>2, <1>3 DEF CountInv
  <1>. QED
    BY <1>3, <1>4, <1>5 DEF AccountsInv

\* What a sign-in's next statement makes of its own record.
LEMMA PutFields ==
  ASSUME AccountsTypeOK, NEW b \in Browser, NEW r \in SignInRow, Put(b, r)
  PROVE  /\ signIn' \in [Browser -> SignInRow]
         /\ signIn'[b] = r /\ \A c \in Browser \ {b} : signIn'[c] = signIn[c]
  BY DEF Put, AccountsTypeOK

LEMMA SubmitSignInStep == ASSUME AccountsInv, NEW b \in Browser, SubmitSignIn(b) PROVE AccountsInv'
  <1>1. AccountsTypeOK /\ LockInv /\ SessionInv /\ CountInv /\ GraceInv
    BY DEF AccountsInv
  <1>2. /\ UNCHANGED <<user, session, reset>> /\ user.exists
        /\ tally' \in TallyRow /\ tally'.strays = tally.strays /\ tally'.made = tally.made
        /\ tally'.wrong = tally.wrong /\ tally'.overlap = tally.overlap
    BY <1>1 DEF SubmitSignIn, AccountsTypeOK, TallyRow
  <1>3. PICK r \in SignInRow : r.step = "before" /\ Put(b, r)
    BY NoSignInFields DEF SubmitSignIn, SignInRow, Steps
  <1>4. signIn[b].step = "none"
    BY DEF SubmitSignIn
  <1>5. /\ signIn' \in [Browser -> SignInRow]
        /\ signIn'[b] = r /\ \A c \in Browser \ {b} : signIn'[c] = signIn[c]
    BY <1>1, <1>3, PutFields
  <1>6. Checked' = Checked /\ b \notin Checked
    BY <1>3, <1>4, <1>5 DEF Checked
  <1>7. AccountsTypeOK' /\ LockInv' /\ SessionInv'
    BY <1>1, <1>2, <1>3, <1>5 DEF AccountsTypeOK, LockInv, SessionInv
  <1>8. CountInv'
    <2>1. \A c \in Checked : signIn'[c] = signIn[c]
      BY <1>5, <1>6 DEF Checked
    <2>2. \A c \in Browser : signIn'[c].step \in {"grace", "count", "create"} => signIn'[c].ok
      BY <1>1, <1>3, <1>5 DEF CountInv
    <2>. QED
      BY <1>1, <1>2, <1>6, <2>1, <2>2 DEF CountInv
  <1>9. GraceInv'
    BY <1>1, <1>2, <1>3, <1>5 DEF GraceInv
  <1>. QED
    BY <1>7, <1>8, <1>9 DEF AccountsInv

-----------------------------------------------------------------------------
(* Accounts: a sign-in, statement by statement *)

LEMMA BeforeStep == ASSUME AccountsInv, NEW b \in Browser, Before(b) PROVE AccountsInv'
  <1>1. AccountsTypeOK /\ LockInv /\ SessionInv /\ CountInv /\ GraceInv
    BY DEF AccountsInv
  <1>2. UNCHANGED <<user, session, reset, tally>> /\ signIn[b].step = "before"
    BY DEF Before
  <1>3. PICK r \in SignInRow : /\ r.step \in {"none", "password"} /\ Put(b, r)
                               /\ r.step = "password" => user.lock = 0
    <2>1. signIn[b] \in SignInRow /\ user.lock \in Nat
      BY <1>1 DEF AccountsTypeOK, UserRow
    <2>2. PICK s \in {"none", "password"} :
            Put(b, [signIn[b] EXCEPT !.step = s]) /\ (s = "password" => user.lock = 0)
      BY <2>1 DEF Before, To
    <2>3. [signIn[b] EXCEPT !.step = s] \in SignInRow /\ [signIn[b] EXCEPT !.step = s].step = s
      BY <2>1 DEF SignInRow, Steps
    <2>. QED
      BY <2>2, <2>3
  <1>4. /\ signIn' \in [Browser -> SignInRow]
        /\ signIn'[b] = r /\ \A c \in Browser \ {b} : signIn'[c] = signIn[c]
    BY <1>1, <1>3, PutFields
  <1>5. Checked' = Checked /\ b \notin Checked
    BY <1>2, <1>3, <1>4 DEF Checked
  <1>6. AccountsTypeOK' /\ LockInv' /\ SessionInv'
    BY <1>1, <1>2, <1>3, <1>4 DEF AccountsTypeOK, LockInv, SessionInv
  <1>7. CountInv'
    <2>1. \A c \in Checked : signIn'[c] = signIn[c]
      BY <1>4, <1>5 DEF Checked
    <2>2. user.exists
      BY <1>1, <1>2 DEF CountInv
    <2>3. \A c \in Browser : signIn'[c].step \in {"grace", "count", "create"} => signIn'[c].ok
      BY <1>1, <1>3, <1>4 DEF CountInv
    <2>. QED
      BY <1>1, <1>2, <1>5, <2>1, <2>2, <2>3 DEF CountInv
  <1>8. GraceInv'
    BY <1>1, <1>2, <1>3, <1>4 DEF GraceInv
  <1>. QED
    BY <1>6, <1>7, <1>8 DEF AccountsInv

\* The one statement that lets another sign-in in among the checked ones.
LEMMA CheckPasswordStep == ASSUME AccountsInv, NEW b \in Browser, CheckPassword(b) PROVE AccountsInv'
  <1>1. AccountsTypeOK /\ LockInv /\ SessionInv /\ CountInv /\ GraceInv
    BY DEF AccountsInv
  <1>2. UNCHANGED <<user, session, reset>> /\ signIn[b].step = "password"
    BY DEF CheckPassword
  <1>3. /\ tally' \in TallyRow /\ tally'.strays = tally.strays /\ tally'.made = tally.made
        /\ tally'.overlap = Overlap(b)
        /\ tally'.wrong = IF signIn[b].typed = user.pw THEN tally.wrong ELSE tally.wrong + 1
    <2>1. Overlap(b) \in BOOLEAN
      BY <1>1 DEF Overlap, AccountsTypeOK, TallyRow
    <2>2. PICK o \in BOOLEAN : o = Overlap(b)
      BY <2>1
    <2>3. PICK w \in Nat : w = IF signIn[b].typed = user.pw THEN tally.wrong ELSE tally.wrong + 1
      BY <1>1 DEF AccountsTypeOK, TallyRow
    <2>4. tally' = [tally EXCEPT !.wrong = w, !.overlap = o]
      BY <2>2, <2>3 DEF CheckPassword
    <2>. QED
      BY <1>1, <2>2, <2>3, <2>4 DEF AccountsTypeOK, TallyRow
  <1>4. PICK r \in SignInRow : /\ Put(b, r) /\ r.early = signIn[b].early /\ r.typed = signIn[b].typed
                               /\ r.ok <=> signIn[b].typed = user.pw
                               /\ r.step = IF r.ok THEN "grace" ELSE "after"
    <2>. DEFINE ok == signIn[b].typed = user.pw
                r  == [signIn[b] EXCEPT !.ok = ok, !.step = IF ok THEN "grace" ELSE "after"]
    <2>1. Put(b, r)
      BY DEF CheckPassword
    <2>2. signIn[b] \in SignInRow
      BY <1>1 DEF AccountsTypeOK
    <2>3. /\ r \in SignInRow /\ r.early = signIn[b].early /\ r.typed = signIn[b].typed
          /\ r.ok = ok /\ r.step = IF ok THEN "grace" ELSE "after"
      <3>1. PICK o \in BOOLEAN : o = ok
        OBVIOUS
      <3>2. PICK s \in Steps : s = IF ok THEN "grace" ELSE "after"
        BY DEF Steps
      <3>3. r = [signIn[b] EXCEPT !.ok = o, !.step = s]
        BY <3>1, <3>2
      <3>. HIDE DEF r, ok
      <3>. QED
        BY <2>2, <3>1, <3>2, <3>3 DEF SignInRow
    <2>. HIDE DEF r
    <2>. QED
      BY <2>1, <2>3
  <1>5. /\ signIn' \in [Browser -> SignInRow]
        /\ signIn'[b] = r /\ \A c \in Browser \ {b} : signIn'[c] = signIn[c]
    BY <1>1, <1>4, PutFields
  <1>6. Checked' = Checked \cup {b} /\ b \notin Checked
    BY <1>2, <1>4, <1>5 DEF Checked
  <1>7. ~tally'.overlap => ~tally.overlap /\ Checked = {}
    BY <1>3, <1>6 DEF Overlap
  <1>8. AccountsTypeOK' /\ LockInv' /\ SessionInv'
    BY <1>1, <1>2, <1>3, <1>4, <1>5 DEF AccountsTypeOK, LockInv, SessionInv
  <1>9. CountInv'
    <2>1. user.exists
      BY <1>1, <1>2 DEF CountInv
    <2>2. \A c \in Browser : signIn'[c].step \in {"grace", "count", "create"} => signIn'[c].ok
      BY <1>1, <1>4, <1>5 DEF CountInv
    <2>3. ASSUME ~tally'.overlap
          PROVE  /\ Checked' = {b} /\ r.step # "write"
                 /\ tally'.wrong = IF r.ok THEN user.fails ELSE user.fails + 1
      BY <1>1, <1>3, <1>4, <1>6, <1>7, <2>3 DEF CountInv
    <2>. QED
      BY <1>2, <1>5, <2>1, <2>2, <2>3 DEF CountInv
  <1>10. GraceInv'
    BY <1>1, <1>2, <1>3, <1>4, <1>5, <1>7 DEF GraceInv
  <1>. QED
    BY <1>8, <1>9, <1>10 DEF AccountsInv

\* A statement of a checked sign-in that writes nothing but its own record.
LEMMA CheckedStep ==
  ASSUME AccountsInv, NEW b \in Checked, NEW r \in SignInRow, Put(b, r), UNCHANGED <<user, session, reset, tally>>,
         r.early = signIn[b].early, r.typed = signIn[b].typed, r.crossed = signIn[b].crossed, r.ok = signIn[b].ok,
         r.step \in {"count", "create", "write"},
         r.step \in {"count", "create"} => signIn[b].step \in {"grace", "count"},
         r.step = "write" => r.val = user.fails,
         r.step = "count" => r.val = user.grace,
         r.step = "create" => user.verified
  PROVE  AccountsInv'
  <1>1. AccountsTypeOK /\ LockInv /\ SessionInv /\ CountInv /\ GraceInv /\ b \in Browser
    BY DEF AccountsInv, Checked
  <1>2. /\ signIn' \in [Browser -> SignInRow]
        /\ signIn'[b] = r /\ \A c \in Browser \ {b} : signIn'[c] = signIn[c]
    BY <1>1, PutFields
  <1>3. Checked' = Checked /\ signIn[b].step \notin {"none", "before"}
    BY <1>1, <1>2 DEF Checked
  <1>4. AccountsTypeOK' /\ LockInv' /\ SessionInv'
    BY <1>1, <1>2, <1>3 DEF AccountsTypeOK, LockInv, SessionInv
  <1>5. CountInv'
    <2>1. user.exists
      BY <1>1, <1>3 DEF CountInv
    <2>2. \A c \in Browser : signIn'[c].step \in {"grace", "count", "create"} => signIn'[c].ok
      BY <1>1, <1>2 DEF CountInv
    <2>3. ASSUME NEW c \in Checked, ~tally.overlap
          PROVE  /\ signIn'[c].step = "write" => signIn'[c].val = user.fails
                 /\ signIn'[c].ok = signIn[c].ok
      BY <1>1, <1>2, <2>3 DEF CountInv, Checked
    <2>. QED
      BY <1>1, <1>3, <2>1, <2>2, <2>3 DEF CountInv
  <1>6. GraceInv'
    BY <1>1, <1>2 DEF GraceInv
  <1>. QED
    BY <1>4, <1>5, <1>6 DEF AccountsInv

LEMMA ReadGraceStep == ASSUME AccountsInv, NEW b \in Browser, ReadGrace(b) PROVE AccountsInv'
  <1>1. /\ signIn[b] \in SignInRow /\ user \in UserRow /\ signIn[b].step = "grace" /\ b \in Checked
        /\ UNCHANGED <<user, session, reset, tally>>
    BY DEF ReadGrace, AccountsInv, AccountsTypeOK, Checked
  <1>2. PICK r \in SignInRow :
          /\ Put(b, r) /\ r.early = signIn[b].early /\ r.typed = signIn[b].typed
          /\ r.crossed = signIn[b].crossed /\ r.ok = signIn[b].ok /\ r.val = user.grace
          /\ r.step = IF user.verified THEN "create" ELSE "count"
    <2>1. PICK s \in Steps, g \in Nat : s = (IF user.verified THEN "create" ELSE "count") /\ g = user.grace
      BY <1>1 DEF Steps, UserRow
    <2>2. Put(b, [signIn[b] EXCEPT !.val = g, !.step = s])
      BY <2>1 DEF ReadGrace
    <2>3. LET r == [signIn[b] EXCEPT !.val = g, !.step = s] IN
            /\ r \in SignInRow /\ r.early = signIn[b].early /\ r.typed = signIn[b].typed
            /\ r.crossed = signIn[b].crossed /\ r.ok = signIn[b].ok /\ r.val = g /\ r.step = s
      BY <1>1 DEF SignInRow
    <2>. QED
      BY <2>1, <2>2, <2>3
  <1>. QED
    BY <1>1, <1>2, CheckedStep

LEMMA ReadLockStep == ASSUME AccountsInv, NEW b \in Browser, ReadLock(b) PROVE AccountsInv'
  <1>1. /\ signIn[b] \in SignInRow /\ user \in UserRow /\ b \in Checked
        /\ UNCHANGED <<user, session, reset, tally>>
    BY DEF ReadLock, AccountsInv, AccountsTypeOK, Checked
  <1>2. PICK r \in SignInRow :
          /\ Put(b, r) /\ r.early = signIn[b].early /\ r.typed = signIn[b].typed
          /\ r.crossed = signIn[b].crossed /\ r.ok = signIn[b].ok /\ r.val = user.fails /\ r.step = "write"
    <2>0. PICK l \in BOOLEAN : l = (user.lock > 0)
      <3>1. (user.lock > 0) \in BOOLEAN
        BY <1>1 DEF UserRow
      <3>. QED
        BY <3>1, Zenon
    <2>1. PICK f \in Nat : f = user.fails
      BY <1>1 DEF UserRow
    <2>2. Put(b, [signIn[b] EXCEPT !.step = "write", !.val = f, !.locked = l])
      BY <2>0, <2>1 DEF ReadLock
    <2>3. LET r == [signIn[b] EXCEPT !.step = "write", !.val = f, !.locked = l] IN
            /\ r \in SignInRow /\ r.early = signIn[b].early /\ r.typed = signIn[b].typed
            /\ r.crossed = signIn[b].crossed /\ r.ok = signIn[b].ok /\ r.val = f /\ r.step = "write"
      BY <1>1 DEF SignInRow, Steps
    <2>. QED
      BY <2>1, <2>2, <2>3
  <1>. QED
    BY <1>1, <1>2, CheckedStep

\* The sign-in that is refused has been counted all the same.
LEMMA CountGraceStep == ASSUME AccountsInv, NEW b \in Browser, CountGrace(b) PROVE AccountsInv'
  <1>1. AccountsTypeOK /\ LockInv /\ SessionInv /\ CountInv /\ GraceInv
    BY DEF AccountsInv
  <1>2. /\ UNCHANGED <<session, reset, tally>> /\ signIn[b].step = "count" /\ signIn[b] \in SignInRow
        /\ b \in Checked
    BY <1>1 DEF CountGrace, AccountsTypeOK, Checked
  <1>3. PICK g \in Nat : g = signIn[b].val + 1
    BY <1>2 DEF SignInRow
  <1>4. /\ user' \in UserRow /\ user'.pw = user.pw /\ user'.lock = user.lock /\ user'.fails = user.fails
        /\ user'.exists = user.exists /\ user'.verified = user.verified /\ user'.grace = g
    <2>1. user' = [user EXCEPT !.grace = g]
      BY <1>3 DEF CountGrace
    <2>. QED
      BY <1>1, <2>1 DEF AccountsTypeOK, UserRow
  <1>5. PICK r \in SignInRow :
          /\ Put(b, r)
          /\ \/ r.step = "none" /\ g > MaxUnverified
             \/ /\ r.step = "create" /\ g <= MaxUnverified /\ r.early = signIn[b].early
                /\ r.typed = signIn[b].typed /\ r.crossed = signIn[b].crossed /\ r.ok = signIn[b].ok
    <2>1. CASE g > MaxUnverified
      BY <1>3, <2>1, NoSignInFields DEF CountGrace
    <2>2. CASE ~(g > MaxUnverified)
      <3>1. Put(b, [signIn[b] EXCEPT !.step = "create"])
        BY <1>3, <2>2 DEF CountGrace, To
      <3>2. LET r == [signIn[b] EXCEPT !.step = "create"] IN
              /\ r \in SignInRow /\ r.step = "create" /\ r.early = signIn[b].early
              /\ r.typed = signIn[b].typed /\ r.crossed = signIn[b].crossed /\ r.ok = signIn[b].ok
        BY <1>2 DEF SignInRow, Steps
      <3>3. g <= MaxUnverified
        BY <2>2, AccountsAssumption
      <3>. QED
        BY <3>1, <3>2, <3>3
    <2>. QED
      BY <2>1, <2>2
  <1>6. /\ signIn' \in [Browser -> SignInRow]
        /\ signIn'[b] = r /\ \A c \in Browser \ {b} : signIn'[c] = signIn[c]
    BY <1>1, <1>5, PutFields
  <1>7. Checked' = IF r.step = "none" THEN Checked \ {b} ELSE Checked
    BY <1>2, <1>5, <1>6 DEF Checked
  <1>8. AccountsTypeOK' /\ LockInv' /\ SessionInv'
    BY <1>1, <1>2, <1>4, <1>5, <1>6 DEF AccountsTypeOK, LockInv, SessionInv
  <1>9. CountInv'
    <2>1. user.exists /\ signIn[b].ok
      BY <1>1, <1>2 DEF CountInv
    <2>2. \A c \in Browser : signIn'[c].step \in {"grace", "count", "create"} => signIn'[c].ok
      BY <1>1, <1>2, <1>5, <1>6 DEF CountInv
    <2>3. ASSUME ~tally.overlap PROVE tally.wrong = user.fails /\ Checked = {b}
      BY <1>1, <1>2, <2>1, <2>3 DEF CountInv
    <2>4. CASE r.step = "none"
      BY <1>2, <1>4, <1>7, <2>1, <2>2, <2>3, <2>4 DEF CountInv
    <2>5. CASE r.step = "create"
      BY <1>2, <1>4, <1>5, <1>6, <1>7, <2>1, <2>2, <2>3, <2>5 DEF CountInv
    <2>. QED
      BY <1>5, <2>4, <2>5
  <1>10. GraceInv'
    <2>. SUFFICES ASSUME ~tally.overlap, ~user.verified PROVE GraceInv'
      BY <1>2, <1>4 DEF GraceInv
    <2>1. /\ tally.made <= user.grace /\ tally.made <= MaxUnverified /\ g = user.grace + 1
          /\ tally.made \in Nat /\ user.grace \in Nat /\ MaxUnverified \in Nat
      BY <1>1, <1>2, <1>3, AccountsAssumption DEF GraceInv, AccountsTypeOK, UserRow, TallyRow
    <2>2. \A c \in Browser \ {b} : signIn[c].step \notin {"count", "create"}
      BY <1>1, <1>2 DEF CountInv, Checked
    <2>. QED
      BY <1>2, <1>4, <1>5, <1>6, <2>1, <2>2 DEF GraceInv
  <1>. QED
    BY <1>8, <1>9, <1>10 DEF AccountsInv

LEMMA CreateSessionStep == ASSUME AccountsInv, NEW b \in Browser, CreateSession(b) PROVE AccountsInv'
  <1>1. AccountsTypeOK /\ LockInv /\ SessionInv /\ CountInv /\ GraceInv
    BY DEF AccountsInv
  <1>2. /\ UNCHANGED <<user, reset>> /\ signIn[b].step = "create" /\ signIn[b] \in SignInRow /\ b \in Checked
        /\ session' = [session EXCEPT ![b] = signIn[b].typed]
    BY <1>1 DEF CreateSession, AccountsTypeOK, Checked
  <1>3. PICK r \in SignInRow : /\ Put(b, r) /\ r.step = "after" /\ r.early = signIn[b].early /\ r.ok = signIn[b].ok
    <2>1. Put(b, [signIn[b] EXCEPT !.step = "after"])
      BY DEF CreateSession, To
    <2>2. LET r == [signIn[b] EXCEPT !.step = "after"] IN
            /\ r \in SignInRow /\ r.step = "after" /\ r.early = signIn[b].early /\ r.ok = signIn[b].ok
      BY <1>2 DEF SignInRow, Steps
    <2>. QED
      BY <2>1, <2>2
  <1>4. /\ signIn' \in [Browser -> SignInRow]
        /\ signIn'[b] = r /\ \A c \in Browser \ {b} : signIn'[c] = signIn[c]
    BY <1>1, <1>3, PutFields
  <1>5. /\ tally' \in TallyRow /\ tally'.wrong = tally.wrong /\ tally'.overlap = tally.overlap
        /\ tally'.made = IF user.verified THEN tally.made ELSE tally.made + 1
        /\ tally'.strays = IF signIn[b].crossed THEN tally.strays \cup {b} ELSE tally.strays \ {b}
    <2>1. tally.strays \in SUBSET Browser /\ tally.made \in Nat
      BY <1>1 DEF AccountsTypeOK, TallyRow
    <2>2. PICK S \in SUBSET Browser : S = IF signIn[b].crossed THEN tally.strays \cup {b} ELSE tally.strays \ {b}
      BY <2>1
    <2>3. PICK m \in Nat : m = IF user.verified THEN tally.made ELSE tally.made + 1
      BY <2>1
    <2>4. tally' = [tally EXCEPT !.made = m, !.strays = S]
      BY <2>2, <2>3 DEF CreateSession
    <2>. QED
      BY <1>1, <2>2, <2>3, <2>4 DEF AccountsTypeOK, TallyRow
  <1>6. Checked' = Checked
    BY <1>2, <1>3, <1>4 DEF Checked
  <1>7. session' \in [Browser -> {NoSession, 0, 1}] /\ session'[b] = signIn[b].typed
        /\ \A c \in Browser \ {b} : session'[c] = session[c]
    BY <1>1, <1>2 DEF AccountsTypeOK, SignInRow
  <1>8. AccountsTypeOK' /\ LockInv'
    BY <1>1, <1>2, <1>3, <1>4, <1>5, <1>7 DEF AccountsTypeOK, LockInv
  <1>9. SessionInv'
    <2>1. \A c \in Browser : signIn'[c].step \in {"grace", "count", "create"} =>
                               signIn'[c].crossed \/ signIn'[c].typed = user.pw
      BY <1>1, <1>3, <1>4 DEF SessionInv
    <2>2. ASSUME reset.step \in {"none", "change"}, NEW c \in Browser, c \notin tally'.strays
          PROVE  session'[c] \in {NoSession, user.pw}
      <3>1. CASE c = b
        BY <1>1, <1>2, <1>5, <1>7, <2>2, <3>1 DEF SessionInv
      <3>2. CASE c # b
        BY <1>1, <1>5, <1>7, <2>2, <3>2 DEF SessionInv
      <3>. QED
        BY <3>1, <3>2
    <2>. QED
      BY <1>2, <2>1, <2>2 DEF SessionInv
  <1>10. CountInv'
    <2>1. user.exists
      BY <1>1, <1>2 DEF CountInv
    <2>2. \A c \in Browser : signIn'[c].step \in {"grace", "count", "create"} => signIn'[c].ok
      BY <1>1, <1>3, <1>4 DEF CountInv
    <2>3. ASSUME NEW c \in Checked, ~tally.overlap
          PROVE  /\ signIn'[c].step = "write" => signIn'[c].val = user.fails
                 /\ signIn'[c].ok = signIn[c].ok
      BY <1>1, <1>3, <1>4, <2>3 DEF CountInv, Checked
    <2>. QED
      BY <1>1, <1>2, <1>5, <1>6, <2>1, <2>2, <2>3 DEF CountInv
  <1>11. GraceInv'
    <2>. SUFFICES ASSUME ~tally.overlap, ~user.verified PROVE GraceInv'
      BY <1>2, <1>5 DEF GraceInv
    <2>1. /\ tally.made < user.grace /\ tally.made < MaxUnverified
          /\ tally.made \in Nat /\ user.grace \in Nat /\ MaxUnverified \in Nat
      BY <1>1, <1>2, AccountsAssumption DEF GraceInv, AccountsTypeOK, UserRow, TallyRow
    <2>2. \A c \in Browser \ {b} : signIn[c].step \notin {"count", "create"}
      BY <1>1, <1>2 DEF CountInv, Checked
    <2>. QED
      BY <1>2, <1>3, <1>4, <1>5, <2>1, <2>2 DEF GraceInv
  <1>. QED
    BY <1>8, <1>9, <1>10, <1>11 DEF AccountsInv

\* What hooks.after writes, when its own read of the count is still true.
LEMMA LockStateFields ==
  ASSUME NEW s \in SignInRow, user \in UserRow
  PROVE  /\ LockState(s).fails \in Nat /\ LockState(s).lock \in Nat
         /\ LockState(s).lock > 0 => \/ s.ok /\ LockState(s).lock = user.lock
                                     \/ ~s.ok /\ s.val + 1 >= MaxFailed
         /\ s.val = user.fails => LockState(s).fails =
              IF s.ok \/ s.val + 1 >= MaxFailed THEN 0 ELSE s.val + 1
  <1>1. s.val \in Nat /\ user.fails \in Nat /\ user.lock \in Nat /\ MaxFailed \in Nat /\ LockTime \in Nat
    BY AccountsAssumption DEF SignInRow, UserRow
  <1>2. CASE s.ok /\ (s.val > 0 \/ s.locked)
    BY <1>1, <1>2 DEF LockState
  <1>3. CASE s.ok /\ ~(s.val > 0 \/ s.locked)
    BY <1>1, <1>3 DEF LockState
  <1>4. CASE ~s.ok /\ s.val + 1 >= MaxFailed
    BY <1>1, <1>4 DEF LockState
  <1>5. CASE ~s.ok /\ ~(s.val + 1 >= MaxFailed)
    <2>1. s.val + 1 < MaxFailed
      BY <1>1, <1>5
    <2>2. LockState(s) = [fails |-> s.val + 1, lock |-> 0]
      BY <1>5, <2>1 DEF LockState
    <2>. QED
      BY <1>1, <1>5, <2>2
  <1>. QED
    BY <1>2, <1>3, <1>4, <1>5

\* The failure that locks marks every sign-in that is past the check.
LEMMA WriteLockStep == ASSUME AccountsInv, NEW b \in Browser, WriteLock(b) PROVE AccountsInv'
  <1>. DEFINE s == signIn[b]
              locks == ~s.ok /\ s.val + 1 >= MaxFailed
  <1>1. AccountsTypeOK /\ LockInv /\ SessionInv /\ CountInv /\ GraceInv
    BY DEF AccountsInv
  <1>2. /\ UNCHANGED <<session, reset>> /\ s.step = "write" /\ s \in SignInRow /\ b \in Checked
    BY <1>1 DEF WriteLock, AccountsTypeOK, Checked
  <1>3. /\ user' \in UserRow /\ user'.pw = user.pw /\ user'.exists = user.exists
        /\ user'.verified = user.verified /\ user'.grace = user.grace
        /\ user'.lock > 0 => (s.ok /\ user'.lock = user.lock) \/ locks
        /\ s.val = user.fails => user'.fails = IF s.ok \/ locks THEN 0 ELSE s.val + 1
    <2>1. PICK f \in Nat, l \in Nat : f = LockState(s).fails /\ l = LockState(s).lock
      BY <1>1, <1>2, LockStateFields DEF AccountsTypeOK
    <2>2. user' = [user EXCEPT !.fails = f, !.lock = l]
      BY <2>1 DEF WriteLock
    <2>3. /\ l > 0 => (s.ok /\ l = user.lock) \/ locks
          /\ s.val = user.fails => f = IF s.ok \/ locks THEN 0 ELSE s.val + 1
      BY <1>1, <1>2, <2>1, LockStateFields DEF AccountsTypeOK
    <2>. HIDE DEF s, locks
    <2>. QED
      BY <1>1, <2>2, <2>3 DEF AccountsTypeOK, UserRow
  <1>4. /\ tally' \in TallyRow /\ tally'.strays = tally.strays /\ tally'.made = tally.made
        /\ tally'.overlap = tally.overlap
        /\ tally'.wrong = IF s.ok \/ locks THEN 0 ELSE tally.wrong
    <2>1. PICK w \in Nat : w = IF s.ok \/ locks THEN 0 ELSE tally.wrong
      BY <1>1 DEF AccountsTypeOK, TallyRow
    <2>2. tally' = [tally EXCEPT !.wrong = w]
      BY <2>1 DEF WriteLock
    <2>. HIDE DEF s, locks
    <2>. QED
      BY <1>1, <2>1, <2>2 DEF AccountsTypeOK, TallyRow
  <1>5. /\ signIn'[b] = NoSignIn
        /\ \A c \in Browser \ {b} :
             /\ signIn'[c] \in SignInRow /\ signIn'[c].step = signIn[c].step
             /\ signIn'[c].typed = signIn[c].typed /\ signIn'[c].ok = signIn[c].ok
             /\ signIn'[c].val = signIn[c].val /\ signIn'[c].crossed = signIn[c].crossed
             /\ signIn[c].early \/ (locks /\ signIn[c].step \notin {"none", "before"}) => signIn'[c].early
    <2>1. signIn' = [c \in Browser |->
            IF c = b THEN NoSignIn
            ELSE IF locks /\ signIn[c].step \notin {"none", "before"}
                 THEN [signIn[c] EXCEPT !.early = TRUE] ELSE signIn[c]]
      BY DEF WriteLock
    <2>2. ASSUME NEW c \in Browser, c # b
          PROVE  signIn'[c] = IF locks /\ signIn[c].step \notin {"none", "before"}
                              THEN [signIn[c] EXCEPT !.early = TRUE] ELSE signIn[c]
      BY <2>1, <2>2
    <2>3. \A c \in Browser : signIn[c] \in SignInRow
      BY <1>1 DEF AccountsTypeOK
    <2>4. signIn'[b] = NoSignIn
      BY <2>1
    <2>5. ASSUME NEW c \in Browser, c # b, locks, signIn[c].step \notin {"none", "before"}
          PROVE  /\ signIn'[c] \in SignInRow /\ signIn'[c].early
                 /\ signIn'[c].step = signIn[c].step /\ signIn'[c].typed = signIn[c].typed
                 /\ signIn'[c].ok = signIn[c].ok /\ signIn'[c].val = signIn[c].val
                 /\ signIn'[c].crossed = signIn[c].crossed
      <3>1. signIn'[c] = [signIn[c] EXCEPT !.early = TRUE] /\ signIn[c] \in SignInRow
        BY <2>2, <2>3, <2>5
      <3>. QED
        BY <3>1 DEF SignInRow
    <2>6. ASSUME NEW c \in Browser, c # b, ~(locks /\ signIn[c].step \notin {"none", "before"})
          PROVE  signIn'[c] = signIn[c]
      BY <2>2, <2>6
    <2>. HIDE DEF s, locks
    <2>. QED
      BY <2>3, <2>4, <2>5, <2>6
  <1>6. signIn' \in [Browser -> SignInRow]
    <2>1. \A c \in Browser : signIn'[c] \in SignInRow
      BY <1>5, NoSignInFields
    <2>2. signIn' = [c \in Browser |-> signIn'[c]]
      BY DEF WriteLock
    <2>. QED
      BY <2>1, <2>2
  <1>7. Checked' = Checked \ {b}
    BY <1>2, <1>5, NoSignInFields DEF Checked
  <1>. HIDE DEF s, locks
  <1>8. AccountsTypeOK' /\ SessionInv' /\ GraceInv'
    BY <1>1, <1>2, <1>3, <1>4, <1>5, <1>6, NoSignInFields DEF AccountsTypeOK, SessionInv, GraceInv
  <1>9. LockInv'
    BY <1>1, <1>3, <1>5, NoSignInFields DEF LockInv
  <1>10. CountInv'
    <2>1. user.exists
      BY <1>1, <1>2 DEF CountInv, s
    <2>2. \A c \in Browser : signIn'[c].step \in {"grace", "count", "create"} => signIn'[c].ok
      BY <1>1, <1>5, NoSignInFields DEF CountInv
    <2>3. ASSUME ~tally.overlap PROVE Checked' = {} /\ tally'.wrong = user'.fails
      <3>1. /\ Checked = {b} /\ s.val = user.fails
            /\ tally.wrong = IF s.ok THEN user.fails ELSE user.fails + 1
        BY <1>1, <1>2, <2>3 DEF CountInv, s
      <3>. QED
        BY <1>3, <1>4, <1>7, <3>1
    <2>. QED
      BY <1>3, <1>4, <2>1, <2>2, <2>3 DEF CountInv
  <1>. QED
    BY <1>8, <1>9, <1>10 DEF AccountsInv

-----------------------------------------------------------------------------
(* Accounts: a reset, and time *)

LEMMA SubmitResetStep == ASSUME AccountsInv, NEW b \in Browser, SubmitReset(b) PROVE AccountsInv'
  <1>1. AccountsTypeOK /\ LockInv /\ SessionInv /\ CountInv /\ GraceInv
    BY DEF AccountsInv
  <1>2. /\ UNCHANGED <<user, session, signIn, tally>> /\ reset.step = "none"
        /\ reset' \in {reset, [step |-> "change", by |-> b]}
    BY DEF SubmitReset
  <1>3. AccountsTypeOK' /\ LockInv' /\ GraceInv' /\ CountInv'
    BY <1>1, <1>2 DEF AccountsTypeOK, LockInv, GraceInv, CountInv, Checked
  <1>4. SessionInv'
    BY <1>1, <1>2 DEF SessionInv
  <1>. QED
    BY <1>3, <1>4 DEF AccountsInv

\* Until the sessions are revoked, those of the old password are still there.
LEMMA ChangePasswordStep == ASSUME AccountsInv, ChangePassword PROVE AccountsInv'
  <1>1. AccountsTypeOK /\ LockInv /\ SessionInv /\ CountInv /\ GraceInv
    BY DEF AccountsInv
  <1>2. /\ UNCHANGED session
        /\ user' \in UserRow /\ user'.pw = 1 /\ user'.lock = user.lock /\ user'.exists = user.exists
        /\ user'.verified = user.verified /\ user'.grace = user.grace /\ user'.fails = user.fails
    BY <1>1 DEF ChangePassword, AccountsTypeOK, UserRow
  <1>3. reset' \in [step : {"none", "change", "clear", "revoke"}, by : Browser \cup {"nobody"}] /\ reset'.step = "clear"
    BY <1>1 DEF ChangePassword, AccountsTypeOK
  <1>4. /\ tally' \in TallyRow /\ tally'.strays = tally.strays /\ tally'.made = tally.made
        /\ tally'.wrong = tally.wrong /\ tally'.overlap = (tally.overlap \/ Checked # {})
    <2>1. PICK o \in BOOLEAN : o = (tally.overlap \/ Checked # {})
      BY <1>1 DEF AccountsTypeOK, TallyRow
    <2>2. tally' = [tally EXCEPT !.overlap = o]
      BY <2>1 DEF ChangePassword
    <2>. QED
      BY <1>1, <2>1, <2>2 DEF AccountsTypeOK, TallyRow
  <1>5. \A c \in Browser :
          /\ signIn'[c] \in SignInRow /\ signIn'[c].step = signIn[c].step
          /\ signIn'[c].ok = signIn[c].ok /\ signIn'[c].val = signIn[c].val
          /\ signIn'[c].early = signIn[c].early
          /\ signIn[c].step \in {"grace", "count", "create"} => signIn'[c].crossed
    <2>1. ASSUME NEW c \in Browser
          PROVE  signIn'[c] = IF signIn[c].step \in {"grace", "count", "create"}
                              THEN [signIn[c] EXCEPT !.crossed = TRUE] ELSE signIn[c]
      BY DEF ChangePassword
    <2>2. \A c \in Browser : signIn[c] \in SignInRow
      BY <1>1 DEF AccountsTypeOK
    <2>. QED
      BY <2>1, <2>2 DEF SignInRow
  <1>6. signIn' \in [Browser -> SignInRow]
    <2>1. signIn' = [c \in Browser |-> signIn'[c]]
      BY DEF ChangePassword
    <2>. QED
      BY <1>5, <2>1
  <1>7. Checked' = Checked
    BY <1>5 DEF Checked
  <1>8. AccountsTypeOK' /\ LockInv' /\ SessionInv' /\ GraceInv'
    <2>1. AccountsTypeOK' /\ LockInv'
      BY <1>1, <1>2, <1>3, <1>4, <1>5, <1>6 DEF AccountsTypeOK, LockInv
    <2>2. SessionInv'
      BY <1>3, <1>5 DEF SessionInv
    <2>3. ~tally'.overlap => ~tally.overlap
      BY <1>4
    <2>4. GraceInv'
      BY <1>1, <1>2, <1>4, <1>5, <2>3 DEF GraceInv
    <2>. QED
      BY <2>1, <2>2, <2>4
  <1>9. CountInv'
    <2>1. /\ ~user'.exists => \A c \in Browser : signIn'[c].step = "none"
          /\ \A c \in Browser : signIn'[c].step \in {"grace", "count", "create"} => signIn'[c].ok
      BY <1>1, <1>2, <1>5 DEF CountInv
    <2>2. ~tally'.overlap => Checked' = {} /\ tally'.wrong = user'.fails
      BY <1>1, <1>2, <1>4, <1>7 DEF CountInv
    <2>. QED
      BY <2>1, <2>2 DEF CountInv
  <1>. QED
    BY <1>8, <1>9 DEF AccountsInv

LEMMA ClearLockoutStep == ASSUME AccountsInv, ClearLockout PROVE AccountsInv'
  <1>1. AccountsTypeOK /\ LockInv /\ SessionInv /\ CountInv /\ GraceInv
    BY DEF AccountsInv
  <1>2. /\ UNCHANGED <<session, signIn>> /\ Checked' = Checked
        /\ reset' \in [step : {"none", "change", "clear", "revoke"}, by : Browser \cup {"nobody"}]
        /\ reset'.step = "revoke"
    BY <1>1 DEF ClearLockout, AccountsTypeOK, Checked
  <1>3. CASE UNCHANGED <<user, tally>>
    BY <1>1, <1>2, <1>3 DEF AccountsInv, AccountsTypeOK, LockInv, SessionInv, CountInv, GraceInv
  <1>4. CASE /\ user' = [user EXCEPT !.fails = 0, !.lock = 0]
             /\ tally' = [tally EXCEPT !.wrong = 0, !.overlap = @ \/ Checked # {}]
    <2>1. /\ user' \in UserRow /\ user'.pw = user.pw /\ user'.lock = 0 /\ user'.exists = user.exists
          /\ user'.verified = user.verified /\ user'.grace = user.grace /\ user'.fails = 0
      BY <1>1, <1>4 DEF AccountsTypeOK, UserRow
    <2>2. PICK o \in BOOLEAN : o = (tally.overlap \/ Checked # {})
      BY <1>1 DEF AccountsTypeOK, TallyRow
    <2>3. tally' = [tally EXCEPT !.wrong = 0, !.overlap = o]
      BY <1>4, <2>2
    <2>4. /\ tally' \in TallyRow /\ tally'.strays = tally.strays /\ tally'.made = tally.made
          /\ tally'.wrong = 0 /\ tally'.overlap = (tally.overlap \/ Checked # {})
      BY <1>1, <2>2, <2>3 DEF AccountsTypeOK, TallyRow
    <2>5. AccountsTypeOK' /\ LockInv' /\ SessionInv' /\ GraceInv'
      <3>1. AccountsTypeOK' /\ LockInv' /\ SessionInv'
        BY <1>1, <1>2, <2>1, <2>4 DEF AccountsTypeOK, LockInv, SessionInv
      <3>2. ~tally'.overlap => ~tally.overlap
        BY <2>4
      <3>3. GraceInv'
        BY <1>1, <1>2, <2>1, <2>4, <3>2 DEF GraceInv
      <3>. QED
        BY <3>1, <3>3
    <2>6. CountInv'
      <3>1. ~tally'.overlap => Checked' = {} /\ tally'.wrong = user'.fails
        BY <1>2, <2>1, <2>4
      <3>. QED
        BY <1>1, <1>2, <2>1, <3>1 DEF CountInv
    <2>. QED
      BY <2>5, <2>6 DEF AccountsInv
  <1>. QED
    BY <1>3, <1>4 DEF ClearLockout

LEMMA RevokeSessionsStep == ASSUME AccountsInv, RevokeSessions PROVE AccountsInv'
  <1>1. AccountsTypeOK /\ LockInv /\ SessionInv /\ CountInv /\ GraceInv
    BY DEF AccountsInv
  <1>2. /\ UNCHANGED <<user, signIn>> /\ Checked' = Checked
        /\ session' = [c \in Browser |-> NoSession] /\ reset' = NoReset
        /\ tally' = [tally EXCEPT !.strays = {}]
    BY DEF RevokeSessions, Checked
  <1>3. /\ tally' \in TallyRow /\ tally'.strays = {} /\ tally'.made = tally.made
        /\ tally'.wrong = tally.wrong /\ tally'.overlap = tally.overlap
    BY <1>1, <1>2 DEF AccountsTypeOK, TallyRow
  <1>4. AccountsTypeOK' /\ LockInv' /\ GraceInv' /\ CountInv'
    BY <1>1, <1>2, <1>3 DEF AccountsTypeOK, LockInv, GraceInv, CountInv, NoReset
  <1>5. SessionInv'
    BY <1>1, <1>2, <1>3 DEF SessionInv
  <1>. QED
    BY <1>4, <1>5 DEF AccountsInv

LEMMA AccountsTickStep == ASSUME AccountsInv, AccountsTick PROVE AccountsInv'
  <1>1. AccountsTypeOK /\ LockInv /\ SessionInv /\ CountInv /\ GraceInv
    BY DEF AccountsInv
  <1>2. UNCHANGED <<session, signIn, reset, tally>> /\ Checked' = Checked
    BY DEF AccountsTick, Checked
  <1>3. /\ user' \in UserRow /\ user'.pw = user.pw /\ user'.exists = user.exists
        /\ user'.verified = user.verified /\ user'.grace = user.grace /\ user'.fails = user.fails
        /\ user'.lock > 0 => user.lock > 0
    <2>1. CASE UNCHANGED user
      BY <1>1, <2>1 DEF AccountsTypeOK
    <2>2. CASE user.lock > 0 /\ user' = [user EXCEPT !.lock = @ - 1]
      BY <1>1, <2>2 DEF AccountsTypeOK, UserRow
    <2>. QED
      BY <2>1, <2>2 DEF AccountsTick
  <1>4. AccountsTypeOK' /\ LockInv' /\ GraceInv' /\ CountInv' /\ SessionInv'
    BY <1>1, <1>2, <1>3 DEF AccountsTypeOK, LockInv, GraceInv, CountInv, SessionInv
  <1>. QED
    BY <1>4 DEF AccountsInv

-----------------------------------------------------------------------------
(* Accounts: the theorems *)

LEMMA StepKeepsAccountsInv == AccountsInv /\ [AccountsNext]_accountVars => AccountsInv'
  <1>. SUFFICES ASSUME AccountsInv, [AccountsNext]_accountVars PROVE AccountsInv'
    OBVIOUS
  <1>1. CASE UNCHANGED accountVars
    BY <1>1, PageStep DEF accountVars
  <1>2. CASE AccountsTick \/ ChangePassword \/ ClearLockout \/ RevokeSessions
    BY <1>2, AccountsTickStep, ChangePasswordStep, ClearLockoutStep, RevokeSessionsStep
  <1>3. ASSUME NEW b \in Browser, OpenApp(b) \/ OpenPage(b) \/ SubmitForgot(b) \/ ResendVerification(b)
        PROVE  AccountsInv'
    BY <1>3, PageStep DEF OpenApp, OpenPage, SubmitForgot, ResendVerification
  <1>4. ASSUME NEW b \in Browser,
               SignOut(b) \/ SignUp(b) \/ SubmitSignIn(b) \/ Verify(b) \/ SubmitReset(b)
        PROVE  AccountsInv'
    BY <1>4, SignOutStep, SignUpStep, SubmitSignInStep, VerifyStep, SubmitResetStep
  <1>5. ASSUME NEW b \in Browser,
               \/ Before(b) \/ CheckPassword(b) \/ ReadGrace(b) \/ CountGrace(b)
               \/ CreateSession(b) \/ ReadLock(b) \/ WriteLock(b)
        PROVE  AccountsInv'
    BY <1>5, BeforeStep, CheckPasswordStep, ReadGraceStep, CountGraceStep, CreateSessionStep,
       ReadLockStep, WriteLockStep
  <1>. QED
    BY <1>1, <1>2, <1>3, <1>4, <1>5 DEF AccountsNext

\* What the row, the sessions and the sign-ins under way say of one another,
\* auth.ts:150-330, in every reachable state.
THEOREM AccountsBookkeeping == AccountsSpec => []AccountsInv
  <1>. QED
    BY InitAccounts, StepKeepsAccountsInv, PTL DEF AccountsSpec

\* auth.ts:216: no sign-in passes a lock that was set before its check.
THEOREM LockHolds == AccountsSpec => []LockStopsSignIns
  <1>1. AccountsInv => LockStopsSignIns
    BY DEF AccountsInv, LockInv, LockStopsSignIns, Checked
  <1>. QED
    BY <1>1, AccountsBookkeeping, PTL

\* auth.ts:93: a reset ends every session of the old password.
THEOREM ResetRevokes == AccountsSpec => []SessionsFollowPassword
  <1>1. AccountsInv => SessionsFollowPassword
    BY DEF AccountsInv, SessionInv, SessionsFollowPassword
  <1>. QED
    BY <1>1, AccountsBookkeeping, PTL

\* auth.ts:217-218: the failures on record are the consecutive ones.
THEOREM FailuresAreCounted == AccountsSpec => []FailuresAddUp
  <1>1. AccountsInv => FailuresAddUp
    BY DEF AccountsInv, CountInv, FailuresAddUp
  <1>. QED
    BY <1>1, AccountsBookkeeping, PTL

\* auth.ts:192-194: an unverified user gets no more than the free sign-ins.
THEOREM GraceIsFinite == AccountsSpec => []GraceHolds
  <1>1. AccountsInv => GraceHolds
    BY DEF AccountsInv, GraceInv, GraceHolds
  <1>. QED
    BY <1>1, AccountsBookkeeping, PTL


-----------------------------------------------------------------------------
(* Alerts: the invariant *)

AlertType == Failure \cup Extra \cup {"RECOVERED"}
AlertRow  == [type : AlertType, status : {"new", "acknowledged", "resolved"}]
FlowRow   == [phase : {"idle", "post", "posted", "get", "end"}, id : Nat,
              to : {"new", "acknowledged", "resolved"}, late : BOOLEAN,
              list : [ver : Nat, rows : Seq(AlertRow)],
              bell : {"none", "sent", "read"}, bver : Nat]
CheckRow  == [step : {"idle", "close", "insert"}, result : Failure \cup {"none", "SUCCESS"},
              had : BOOLEAN, closing : SUBSET Nat,
              last : Failure \cup {"none", "SUCCESS"}, reopened : BOOLEAN]

AlertsTypeOK ==
  /\ rows \in Seq(AlertRow)
  /\ check \in CheckRow
  /\ ver \in Nat
  /\ flow \in [Act -> FlowRow]
  /\ page \in [rows : Seq(AlertRow), ver : Nat, loading : BOOLEAN, touched : BOOLEAN]
  /\ bell \in Nat /\ mess \in BOOLEAN

\* The table only grows: whatever the browser was told of is still there.
IdInv ==
  /\ Len(page.rows) <= Len(rows)
  /\ \A f \in Act : /\ Len(flow[f].list.rows) <= Len(rows)
                    /\ flow[f].phase = "post" \/ flow[f].late => flow[f].id \in 1 .. Len(rows)
                    /\ flow[f].phase = "post" => ~flow[f].late
                    /\ flow[f].phase # "get" => flow[f].list = Unasked

\* While the page lacks the user's own change, or shows an optimistic one, a
\* refresh that will bring the truth is due or under way.
PageInv ==
  ~mess =>
    /\ page.touched => \E f \in Act : flow[f].phase \in {"post", "posted", "get"}
    /\ page.ver < ver => \E f \in Act :
         \/ flow[f].phase = "posted"
         \/ flow[f].phase = "get" /\ (flow[f].list = Unasked \/ flow[f].list.ver >= ver)

BellInv ==
  ~mess /\ bell < ver => \E f \in Act :
    \/ flow[f].phase = "posted" \/ flow[f].bell = "sent"
    \/ flow[f].bell = "read" /\ flow[f].bver >= ver

\* Until a success commits, the closing UPDATE has every open failure but those
\* opened again since it looked; from then on there is none but those.
CheckInv ==
  /\ check.last = "SUCCESS" => check.step = "idle" /\ check.closing = {}
  /\ check.step = "insert" => check.result \in Failure \cup {"SUCCESS"}
  /\ check.step = "close" => check.result = "SUCCESS"
  /\ check.step = "insert" /\ check.result = "SUCCESS" /\ ~check.reopened
       => OpenOf(rows, Failure) \subseteq check.closing
  /\ OpenFailureHasCause

AlertsInv == AlertsTypeOK /\ IdInv /\ PageInv /\ BellInv /\ CheckInv

LEMMA InitAlerts == AlertsInit => AlertsInv
  <1>. SUFFICES ASSUME AlertsInit PROVE AlertsInv
    OBVIOUS
  <1>1. <<>> \in Seq(AlertRow) /\ Len(<<>>) = 0
    OBVIOUS
  <1>2. NoFlow \in FlowRow /\ NoFlow.phase = "idle" /\ ~NoFlow.late /\ NoFlow.list = Unasked /\ Len(Unasked.rows) = 0
    BY <1>1 DEF NoFlow, Unasked, FlowRow
  <1>3. AlertsTypeOK
    <2>1. check \in CheckRow
      BY DEF AlertsInit, NoCheck, CheckRow
    <2>2. page \in [rows : Seq(AlertRow), ver : Nat, loading : BOOLEAN, touched : BOOLEAN]
      BY <1>1 DEF AlertsInit
    <2>3. flow \in [Act -> FlowRow]
      BY <1>2 DEF AlertsInit
    <2>4. rows \in Seq(AlertRow)
      BY <1>1 DEF AlertsInit
    <2>5. ver \in Nat /\ bell \in Nat
      BY DEF AlertsInit
    <2>6. mess \in BOOLEAN
      BY DEF AlertsInit
    <2>. QED
      BY <2>1, <2>2, <2>3, <2>4, <2>5, <2>6 DEF AlertsTypeOK
  <1>4. IdInv
    BY <1>1, <1>2 DEF AlertsInit, IdInv
  <1>5. PageInv /\ BellInv
    BY DEF AlertsInit, PageInv, BellInv
  <1>6. CheckInv
    BY DEF AlertsInit, CheckInv, NoCheck, OpenFailureHasCause
  <1>. QED
    BY <1>3, <1>4, <1>5, <1>6 DEF AlertsInv

-----------------------------------------------------------------------------
(* Alerts: the worker *)

\* What INSERT .. ON CONFLICT DO NOTHING leaves: the old rows, and behind them
\* rows of the types it was given.
LEMMA InsertedRows ==
  ASSUME NEW rs \in Seq(AlertRow), NEW types \in SUBSET AlertType
  PROVE  /\ Inserted(rs, types) \in Seq(AlertRow)
         /\ Len(rs) <= Len(Inserted(rs, types))
         /\ \A i \in 1 .. Len(rs) : Inserted(rs, types)[i] = rs[i]
         /\ \A i \in 1 .. Len(Inserted(rs, types)) :
              i > Len(rs) => Inserted(rs, types)[i].type \in types
  <1>. DEFINE fresh == {t \in types : OpenOf(rs, {t}) = {}}
              n     == Cardinality(fresh)
              IsOrder(s) == s \in [1 .. n -> fresh] /\ \A t \in fresh : \E i \in DOMAIN s : s[i] = t
              order == CHOOSE s \in [1 .. n -> fresh] : \A t \in fresh : \E i \in DOMAIN s : s[i] = t
              new   == [i \in DOMAIN order |-> [type |-> order[i], status |-> "new"]]
  <1>1. IsFiniteSet(fresh)
    <2>1. IsFiniteSet(AlertType)
      <3>1. IsFiniteSet(Failure \cup Extra)
        BY AlertsAssumption, FS_Union DEF AlertsAssumption
      <3>2. IsFiniteSet({"RECOVERED"})
        BY FS_Singleton
      <3>. QED
        BY <3>1, <3>2, FS_Union DEF AlertType
    <2>. QED
      BY <2>1, FS_Subset
  <1>2. n \in Nat /\ ExistsBijection(1 .. n, fresh)
    BY <1>1, FS_CardinalityType
  <1>3. \E s \in [1 .. n -> fresh] : \A t \in fresh : \E i \in DOMAIN s : s[i] = t
    <2>1. PICK s \in Surjection(1 .. n, fresh) : TRUE
      BY <1>2 DEF ExistsBijection, Bijection
    <2>2. s \in [1 .. n -> fresh] /\ \A t \in fresh : \E i \in 1 .. n : s[i] = t
      BY <2>1 DEF Surjection
    <2>. QED
      BY <2>2
  <1>4. order \in [1 .. n -> fresh]
    BY <1>3
  <1>5. Inserted(rs, types) = rs \o new
    BY DEF Inserted
  <1>. HIDE DEF order, n, fresh
  <1>6. new \in Seq(AlertRow) /\ Len(new) = n /\ \A i \in 1 .. n : new[i].type \in types
    <2>1. \A i \in 1 .. n : order[i] \in types /\ order[i] \in AlertType
      BY <1>4 DEF fresh
    <2>2. DOMAIN order = 1 .. n
      BY <1>4
    <2>3. new \in [1 .. n -> AlertRow] /\ \A i \in 1 .. n : new[i].type \in types
      BY <2>1, <2>2 DEF AlertRow
    <2>. QED
      BY <1>2, <2>3
  <1>. HIDE DEF new
  <1>. QED
    BY <1>2, <1>5, <1>6

\* The closing UPDATE touches no type and leaves no row of its own open.
LEMMA ClosedRows ==
  ASSUME rows \in Seq(AlertRow)
  PROVE  /\ Closed \in Seq(AlertRow) /\ Len(Closed) = Len(rows)
         /\ OpenOf(Closed, Failure) \subseteq OpenOf(rows, Failure) \ check.closing
  <1>1. \A i \in DOMAIN rows :
          /\ Closed[i] \in AlertRow /\ Closed[i].type = rows[i].type
          /\ i \in check.closing => Closed[i].status = "resolved"
          /\ i \notin check.closing => Closed[i] = rows[i]
    <2>1. \A i \in DOMAIN rows : rows[i] \in AlertRow
      OBVIOUS
    <2>. QED
      BY <2>1 DEF AlertRow, Closed
  <1>2. DOMAIN Closed = DOMAIN rows /\ DOMAIN rows = 1 .. Len(rows) /\ Len(rows) \in Nat
    BY DEF Closed
  <1>3. Closed \in Seq(AlertRow) /\ Len(Closed) = Len(rows)
    <2>1. Closed = [i \in 1 .. Len(rows) |-> Closed[i]]
      BY <1>2 DEF Closed
    <2>2. Closed \in [1 .. Len(rows) -> AlertRow]
      BY <1>1, <1>2, <2>1
    <2>. QED
      BY <1>2, <2>2
  <1>4. OpenOf(Closed, Failure) \subseteq OpenOf(rows, Failure) \ check.closing
    BY <1>1, <1>2 DEF OpenOf
  <1>. QED
    BY <1>3, <1>4

LEMMA PersistCommitsStep == ASSUME AlertsInv, PersistCommits PROVE AlertsInv'
  <1>1. AlertsTypeOK /\ IdInv /\ PageInv /\ BellInv /\ CheckInv
    BY DEF AlertsInv
  <1>2. UNCHANGED <<ver, flow, page, bell, mess>> /\ check.step = "insert"
    BY DEF PersistCommits
  <1>3. PICK extras \in SUBSET Extra : rows' = Inserted(Closed, Derived(extras))
    BY DEF PersistCommits
  <1>4. check.result \in Failure \cup {"SUCCESS"}
    BY <1>1, <1>2 DEF CheckInv
  <1>5. /\ Derived(extras) \in SUBSET AlertType
        /\ check.result = "SUCCESS" => Derived(extras) \cap Failure = {}
    BY <1>4, AlertsAssumption DEF AlertsAssumption, Derived, AlertType
  <1>6. /\ Closed \in Seq(AlertRow) /\ Len(Closed) = Len(rows)
        /\ OpenOf(Closed, Failure) \subseteq OpenOf(rows, Failure) \ check.closing
    BY <1>1, ClosedRows DEF AlertsTypeOK
  <1>7. /\ rows' \in Seq(AlertRow) /\ Len(rows) <= Len(rows')
        /\ \A i \in 1 .. Len(rows) : rows'[i] = Closed[i]
        /\ \A i \in 1 .. Len(rows') : i > Len(rows) => rows'[i].type \in Derived(extras)
    BY <1>3, <1>5, <1>6, InsertedRows
  <1>8. /\ check' \in CheckRow
        /\ check'.step = "idle" /\ check'.closing = {} /\ check'.last = check.result
        /\ check'.reopened = check.reopened /\ check'.result = "none"
    <2>1. check.result \in Failure \cup {"SUCCESS"} /\ check.reopened \in BOOLEAN
      BY <1>1, <1>4 DEF AlertsTypeOK, CheckRow
    <2>2. check' = [NoCheck EXCEPT !.last = check.result, !.reopened = check.reopened]
      BY DEF PersistCommits
    <2>. QED
      BY <2>1, <2>2 DEF NoCheck, CheckRow
  <1>9. AlertsTypeOK'
    BY <1>1, <1>2, <1>7, <1>8 DEF AlertsTypeOK
  <1>10. IdInv'
    <2>1. /\ Len(rows) \in Nat /\ Len(rows') \in Nat /\ Len(page.rows) \in Nat
          /\ \A f \in Act : Len(flow[f].list.rows) \in Nat
      BY <1>1, <1>7 DEF AlertsTypeOK, FlowRow
    <2>. QED
      BY <1>1, <1>2, <1>7, <2>1 DEF IdInv
  <1>11. PageInv' /\ BellInv'
    BY <1>1, <1>2 DEF PageInv, BellInv
  <1>12. OpenFailureHasCause'
    <2>. SUFFICES ASSUME check.result = "SUCCESS", ~check.reopened, NEW i \in OpenOf(rows', Failure)
                  PROVE  FALSE
      BY <1>8 DEF OpenFailureHasCause
    <2>1. OpenOf(Closed, Failure) = {}
      BY <1>1, <1>2, <1>6 DEF CheckInv
    <2>2. i \in 1 .. Len(rows') /\ rows'[i].type \in Failure /\ rows'[i].status # "resolved"
      BY <1>7 DEF OpenOf
    <2>3. CASE i \in 1 .. Len(rows)
      <3>1. i \in DOMAIN Closed /\ rows'[i] = Closed[i]
        BY <1>6, <1>7, <2>3
      <3>. QED
        BY <2>1, <2>2, <3>1 DEF OpenOf
    <2>4. CASE i \notin 1 .. Len(rows)
      <3>1. i > Len(rows)
        BY <1>1, <2>2, <2>4 DEF AlertsTypeOK
      <3>. QED
        BY <1>5, <1>7, <2>2, <3>1
    <2>. QED
      BY <2>3, <2>4
  <1>13. CheckInv'
    BY <1>8, <1>12 DEF CheckInv
  <1>. QED
    BY <1>9, <1>10, <1>11, <1>13 DEF AlertsInv

\* A step of the transaction that nobody else sees yet.
LEMMA CheckStep ==
  ASSUME AlertsInv, UNCHANGED <<rows, ver, flow, page, bell, mess>>, check' \in CheckRow, CheckInv'
  PROVE  AlertsInv'
  BY DEF AlertsInv, AlertsTypeOK, IdInv, PageInv, BellInv

LEMMA PersistReadsStep == ASSUME AlertsInv, PersistReads PROVE AlertsInv'
  <1>1. /\ UNCHANGED <<rows, ver, flow, page, bell, mess>>
        /\ check \in CheckRow /\ check.last # "SUCCESS" /\ check.step = "idle"
    BY DEF PersistReads, AlertsInv, AlertsTypeOK
  <1>2. PICK result \in Failure \cup {"SUCCESS"}, had \in BOOLEAN :
          check' = [check EXCEPT !.step = IF result = "SUCCESS" THEN "close" ELSE "insert",
                                 !.result = result, !.had = had]
    BY DEF PersistReads
  <1>3. /\ check' \in CheckRow /\ check'.last # "SUCCESS" /\ check'.result = result
        /\ check'.step = IF result = "SUCCESS" THEN "close" ELSE "insert"
    BY <1>1, <1>2 DEF CheckRow
  <1>4. CheckInv'
    BY <1>3 DEF CheckInv, OpenFailureHasCause
  <1>. QED
    BY <1>1, <1>3, <1>4, CheckStep

LEMMA PersistClosesStep == ASSUME AlertsInv, PersistCloses PROVE AlertsInv'
  <1>1. /\ UNCHANGED <<rows, ver, flow, page, bell, mess>> /\ check \in CheckRow
        /\ check.step = "close" /\ check.result = "SUCCESS" /\ check.last # "SUCCESS"
    BY DEF PersistCloses, AlertsInv, AlertsTypeOK, CheckInv
  <1>2. PICK open \in SUBSET Nat : open = OpenOf(rows, Failure)
    <2>1. DOMAIN rows = 1 .. Len(rows) /\ Len(rows) \in Nat
      BY DEF AlertsInv, AlertsTypeOK
    <2>2. OpenOf(rows, Failure) \subseteq 1 .. Len(rows)
      BY <2>1 DEF OpenOf
    <2>. QED
      BY <2>1, <2>2
  <1>3. check' = [check EXCEPT !.step = "insert", !.closing = open, !.reopened = FALSE]
    BY <1>2 DEF PersistCloses
  <1>4. /\ check' \in CheckRow /\ check'.last = check.last /\ check'.result = "SUCCESS"
        /\ check'.step = "insert" /\ check'.closing = open
    BY <1>1, <1>3 DEF CheckRow
  <1>5. CheckInv'
    BY <1>1, <1>2, <1>4 DEF CheckInv, OpenFailureHasCause
  <1>. QED
    BY <1>1, <1>4, <1>5, CheckStep

LEMMA PersistRollsBackStep == ASSUME AlertsInv, PersistRollsBack PROVE AlertsInv'
  <1>1. /\ UNCHANGED <<rows, ver, flow, page, bell, mess>> /\ check \in CheckRow
        /\ check.last # "SUCCESS" /\ check' = [NoCheck EXCEPT !.last = check.last]
    BY DEF PersistRollsBack, AlertsInv, AlertsTypeOK, CheckInv
  <1>2. check' \in CheckRow /\ check'.last # "SUCCESS" /\ check'.step = "idle"
    BY <1>1 DEF CheckRow, NoCheck
  <1>3. CheckInv'
    BY <1>2 DEF CheckInv, OpenFailureHasCause
  <1>. QED
    BY <1>1, <1>2, <1>3, CheckStep

-----------------------------------------------------------------------------
(* Alerts: the requests of a click *)

\* Click f's record becomes r.
Becomes(f, r) == flow' = [flow EXCEPT ![f] = r]

\* One click's record moves on, and nothing of the others'.
LEMMA FlowFields ==
  ASSUME AlertsTypeOK, NEW f \in Act, NEW r \in FlowRow, Becomes(f, r)
  PROVE  /\ flow' \in [Act -> FlowRow]
         /\ flow'[f] = r /\ \A g \in Act \ {f} : flow'[g] = flow[g]
  BY DEF Becomes, AlertsTypeOK

LEMMA SetStatusStep == ASSUME AlertsInv, NEW f \in Act, SetStatus(f) PROVE AlertsInv'
  <1>1. AlertsTypeOK /\ IdInv /\ PageInv /\ BellInv /\ CheckInv
    BY DEF AlertsInv
  <1>. DEFINE i == flow[f].id
              r == [flow[f] EXCEPT !.phase = IF flow[f].phase = "post" THEN "posted" ELSE flow[f].phase,
                                   !.late = FALSE, !.id = 0, !.to = "new"]
  <1>2. /\ UNCHANGED <<page, bell>> /\ ver' = ver + 1 /\ ver \in Nat
        /\ flow[f] \in FlowRow /\ (flow[f].phase = "post" \/ flow[f].late) /\ i \in 1 .. Len(rows)
        /\ i \notin check.closing
    BY <1>1 DEF SetStatus, AlertsTypeOK, IdInv
  <1>3. /\ r \in FlowRow /\ r.list = flow[f].list /\ r.bell = flow[f].bell /\ ~r.late
        /\ flow[f].phase = "post" => r.phase = "posted"
        /\ flow[f].phase # "post" => r.phase = flow[f].phase
    <2>1. PICK p \in {"idle", "posted", "get", "end"} :
            p = IF flow[f].phase = "post" THEN "posted" ELSE flow[f].phase
      BY <1>2 DEF FlowRow
    <2>2. r = [flow[f] EXCEPT !.phase = p, !.late = FALSE, !.id = 0, !.to = "new"]
      BY <2>1
    <2>. HIDE DEF r
    <2>. QED
      BY <1>2, <2>1, <2>2 DEF FlowRow
  <1>4. /\ flow' \in [Act -> FlowRow]
        /\ flow'[f] = r /\ \A g \in Act \ {f} : flow'[g] = flow[g]
    <2>1. Becomes(f, r)
      BY DEF SetStatus, Becomes
    <2>. HIDE DEF r
    <2>. QED
      BY <1>1, <1>3, <2>1, FlowFields
  <1>. HIDE DEF r
  <1>5. /\ rows' \in Seq(AlertRow) /\ Len(rows') = Len(rows)
        /\ \A j \in 1 .. Len(rows) : rows'[j].type = rows[j].type
        /\ \A j \in 1 .. Len(rows) : j # i => rows'[j] = rows[j]
        /\ rows'[i].status = flow[f].to
    <2>1. flow[f].to \in {"new", "acknowledged", "resolved"} /\ rows \in Seq(AlertRow)
      BY <1>1, <1>2 DEF FlowRow, AlertsTypeOK
    <2>2. PICK t \in {"new", "acknowledged", "resolved"} : t = flow[f].to
      BY <2>1
    <2>3. rows[i] \in AlertRow
      BY <1>2, <2>1
    <2>4. LET a == [rows[i] EXCEPT !.status = t] IN a \in AlertRow /\ a.type = rows[i].type /\ a.status = t
      BY <2>3 DEF AlertRow
    <2>5. PICK a \in AlertRow : a = [rows[i] EXCEPT !.status = t] /\ a.type = rows[i].type /\ a.status = t
      BY <2>4
    <2>6. rows' = [rows EXCEPT ![i] = a]
      BY <2>2, <2>5 DEF SetStatus
    <2>. HIDE DEF i
    <2>. QED
      BY <1>2, <2>1, <2>2, <2>5, <2>6
  <1>6. /\ check' \in CheckRow
        /\ check'.step = check.step /\ check'.closing = check.closing
        /\ check'.result = check.result /\ check'.last = check.last
        /\ ~check'.reopened => ~check.reopened /\ ~Reopens(i, flow[f].to)
    <2>1. PICK o \in BOOLEAN : o <=> Reopens(i, flow[f].to)
      OBVIOUS
    <2>2. PICK n \in BOOLEAN : n <=> (check.reopened \/ Reopens(i, flow[f].to))
      OBVIOUS
    <2>3. check \in CheckRow /\ check.reopened \in BOOLEAN
      BY <1>1 DEF AlertsTypeOK, CheckRow
    <2>4. check' = [check EXCEPT !.reopened = check.reopened \/ Reopens(i, flow[f].to)]
      BY DEF SetStatus
    <2>5. (check.reopened \/ Reopens(i, flow[f].to)) \in BOOLEAN
      OBVIOUS
    <2>6. check' = [check EXCEPT !.reopened = n]
      BY <2>2, <2>4, <2>5, Zenon
    <2>. QED
      BY <2>2, <2>3, <2>6 DEF CheckRow
  <1>. HIDE DEF i
  <1>7. mess' \in BOOLEAN /\ (~mess' => ~mess /\ ~TooLate(f))
    BY DEF SetStatus
  <1>8. AlertsTypeOK'
    BY <1>1, <1>2, <1>4, <1>5, <1>6, <1>7 DEF AlertsTypeOK
  <1>9. IdInv'
    BY <1>1, <1>2, <1>3, <1>4, <1>5 DEF IdInv
  <1>10. ~mess' => \/ r.phase = "posted"
                   \/ r.phase = "get" /\ r.list = Unasked /\ r.bell = "sent"
    BY <1>2, <1>3, <1>7 DEF TooLate
  <1>11. PageInv' /\ BellInv'
    BY <1>4, <1>10 DEF PageInv, BellInv
  <1>12. CheckInv'
    <2>1. ASSUME ~check'.reopened, "SUCCESS" \in {check.result, check.last}
          PROVE  OpenOf(rows', Failure) \subseteq OpenOf(rows, Failure)
      <3>. SUFFICES ASSUME NEW j \in OpenOf(rows', Failure) PROVE j \in OpenOf(rows, Failure)
        OBVIOUS
      <3>1. j \in DOMAIN rows /\ j \in 1 .. Len(rows) /\ rows'[j].status # "resolved" /\ rows[j].type \in Failure
        BY <1>1, <1>5 DEF OpenOf, AlertsTypeOK
      <3>2. CASE j = i
        BY <1>5, <1>6, <2>1, <3>1, <3>2 DEF Reopens, OpenOf
      <3>3. CASE j # i
        BY <1>5, <3>1, <3>3 DEF OpenOf
      <3>. QED
        BY <3>2, <3>3
    <2>. QED
      BY <1>1, <1>6, <2>1 DEF CheckInv, OpenFailureHasCause
  <1>. QED
    BY <1>8, <1>9, <1>11, <1>12 DEF AlertsInv

\* A step that takes one click's requests further and leaves the table alone,
\* from what becomes of the click's phase and of its two answers.
LEMMA RequestStep ==
  ASSUME AlertsInv, NEW f \in Act, NEW r \in FlowRow, Becomes(f, r),
         UNCHANGED <<rows, check, ver, page, bell, mess>>,
         r.phase = "post" \/ r.late => (flow[f].phase = "post" \/ flow[f].late) /\ r.id = flow[f].id,
         r.phase = "post" => ~r.late, r.phase # "get" => r.list = Unasked,
         r.phase \in {"posted", "get"} \/ r.phase = flow[f].phase,
         \/ r.phase = "posted" /\ flow[f].phase = "post"
         \/ r.phase = "get" /\ (r.list = Unasked \/ r.list.ver >= ver)
         \/ r.phase = flow[f].phase /\ r.list = flow[f].list,
         \/ r.phase = "posted" \/ r.bell = "sent"
         \/ r.bell = "read" /\ r.bver >= ver
         \/ flow[f].phase # "posted" /\ r.bell = flow[f].bell /\ r.bver = flow[f].bver,
         Len(r.list.rows) <= Len(rows)
  PROVE  AlertsInv'
  <1>1. AlertsTypeOK /\ IdInv /\ PageInv /\ BellInv /\ CheckInv
    BY DEF AlertsInv
  <1>2. /\ flow' \in [Act -> FlowRow]
        /\ flow'[f] = r /\ \A g \in Act \ {f} : flow'[g] = flow[g]
    BY <1>1, FlowFields
  <1>3. AlertsTypeOK' /\ IdInv' /\ CheckInv'
    BY <1>1, <1>2 DEF AlertsTypeOK, IdInv, CheckInv, OpenFailureHasCause
  <1>4. PageInv'
    BY <1>1, <1>2 DEF PageInv
  <1>5. BellInv'
    BY <1>1, <1>2 DEF BellInv
  <1>. QED
    BY <1>3, <1>4, <1>5 DEF AlertsInv

LEMMA PostFailsStep == ASSUME AlertsInv, NEW f \in Act, PostFails(f) PROVE AlertsInv'
  <1>1. /\ flow[f] \in FlowRow /\ flow[f].phase = "post" /\ ~flow[f].late /\ flow[f].list = Unasked
        /\ Len(flow[f].list.rows) <= Len(rows)
        /\ UNCHANGED <<rows, check, ver, page, bell, mess>>
    BY DEF PostFails, AlertsInv, AlertsTypeOK, IdInv
  <1>2. PICK r \in FlowRow : Becomes(f, r) /\ r.phase = "posted" /\ r.list = flow[f].list /\ ~r.late
    <2>1. Becomes(f, [flow[f] EXCEPT !.phase = "posted", !.id = 0, !.to = "new"])
      BY DEF PostFails, Becomes
    <2>2. LET r == [flow[f] EXCEPT !.phase = "posted", !.id = 0, !.to = "new"] IN
            r \in FlowRow /\ r.phase = "posted" /\ r.list = flow[f].list /\ ~r.late
      BY <1>1 DEF FlowRow
    <2>. QED
      BY <2>1, <2>2
  <1>. QED
    BY <1>1, <1>2, RequestStep

LEMMA PostAbortsStep == ASSUME AlertsInv, NEW f \in Act, PostAborts(f) PROVE AlertsInv'
  <1>1. /\ flow[f] \in FlowRow /\ flow[f].phase = "post" /\ flow[f].list = Unasked
        /\ Len(flow[f].list.rows) <= Len(rows)
        /\ UNCHANGED <<rows, check, ver, page, bell, mess>>
    BY DEF PostAborts, AlertsInv, AlertsTypeOK, IdInv
  <1>2. PICK r \in FlowRow : Becomes(f, r) /\ r.phase = "posted" /\ r.list = flow[f].list /\ r.id = flow[f].id
    <2>1. Becomes(f, [flow[f] EXCEPT !.phase = "posted", !.late = TRUE])
      BY DEF PostAborts, Becomes
    <2>2. LET r == [flow[f] EXCEPT !.phase = "posted", !.late = TRUE] IN
            r \in FlowRow /\ r.phase = "posted" /\ r.list = flow[f].list /\ r.id = flow[f].id
      BY <1>1 DEF FlowRow
    <2>. QED
      BY <2>1, <2>2
  <1>. QED
    BY <1>1, <1>2, RequestStep

LEMMA DoneStep == ASSUME AlertsInv, NEW f \in Act, Done(f) PROVE AlertsInv'
  <1>1. /\ flow[f] \in FlowRow /\ flow[f].phase = "posted" /\ flow[f].list = Unasked
        /\ Len(flow[f].list.rows) <= Len(rows)
        /\ UNCHANGED <<rows, check, ver, page, bell, mess>>
    BY DEF Done, AlertsInv, AlertsTypeOK, IdInv
  <1>2. PICK r \in FlowRow : Becomes(f, r) /\ r.phase = "get" /\ r.list = flow[f].list /\ r.bell = "sent"
                              /\ r.late = flow[f].late /\ r.id = flow[f].id
    <2>1. Becomes(f, [flow[f] EXCEPT !.phase = "get", !.bell = "sent"])
      BY DEF Done, Becomes
    <2>2. LET r == [flow[f] EXCEPT !.phase = "get", !.bell = "sent"] IN
            r \in FlowRow /\ r.phase = "get" /\ r.list = flow[f].list /\ r.bell = "sent"
                              /\ r.late = flow[f].late /\ r.id = flow[f].id
      BY <1>1 DEF FlowRow
    <2>. QED
      BY <2>1, <2>2
  <1>. QED
    BY <1>1, <1>2, RequestStep

\* The list is read after the user's own change: it has it.
LEMMA ReadListStep == ASSUME AlertsInv, NEW f \in Act, ReadList(f) PROVE AlertsInv'
  <1>1. /\ flow[f] \in FlowRow /\ flow[f].phase = "get" /\ rows \in Seq(AlertRow) /\ ver \in Nat
        /\ UNCHANGED <<rows, check, ver, page, bell, mess>>
    BY DEF ReadList, AlertsInv, AlertsTypeOK
  <1>2. PICK r \in FlowRow : /\ Becomes(f, r) /\ r.phase = "get" /\ r.list.ver = ver /\ r.list.rows = rows
                             /\ r.bell = flow[f].bell /\ r.bver = flow[f].bver
            /\ r.late = flow[f].late /\ r.id = flow[f].id
    <2>1. PICK l \in [ver : Nat, rows : Seq(AlertRow)] :
            l = [ver |-> ver, rows |-> rows] /\ l.ver = ver /\ l.rows = rows
      <3>1. [ver |-> ver, rows |-> rows] \in [ver : Nat, rows : Seq(AlertRow)]
        BY <1>1
      <3>2. [ver |-> ver, rows |-> rows].ver = ver /\ [ver |-> ver, rows |-> rows].rows = rows
        OBVIOUS
      <3>. QED
        BY <3>1, <3>2, Zenon
    <2>2. Becomes(f, [flow[f] EXCEPT !.list = l])
      BY <2>1 DEF ReadList, Becomes
    <2>3. LET r == [flow[f] EXCEPT !.list = l] IN
            /\ r \in FlowRow /\ r.phase = "get" /\ r.list = l
            /\ r.bell = flow[f].bell /\ r.bver = flow[f].bver
            /\ r.late = flow[f].late /\ r.id = flow[f].id
      BY <1>1 DEF FlowRow
    <2>. QED
      BY <2>1, <2>2, <2>3
  <1>3. Len(r.list.rows) <= Len(rows) /\ r.list.ver >= ver
    BY <1>1, <1>2 DEF AlertsInv, AlertsTypeOK
  <1>. QED
    BY <1>1, <1>2, <1>3, RequestStep

LEMMA ReadCountsStep == ASSUME AlertsInv, NEW f \in Act, ReadCounts(f) PROVE AlertsInv'
  <1>1. /\ flow[f] \in FlowRow /\ ver \in Nat
        /\ Len(flow[f].list.rows) <= Len(rows)
        /\ flow[f].phase # "get" => flow[f].list = Unasked
        /\ flow[f].phase = "post" => ~flow[f].late
        /\ UNCHANGED <<rows, check, ver, page, bell, mess>>
    BY DEF ReadCounts, AlertsInv, AlertsTypeOK, IdInv
  <1>2. PICK r \in FlowRow :
          /\ Becomes(f, r) /\ r.phase = flow[f].phase /\ r.list = flow[f].list /\ r.id = flow[f].id /\ r.late = flow[f].late
          /\ r.bell = "read" /\ r.bver = ver
    <2>1. Becomes(f, [flow[f] EXCEPT !.bell = "read", !.bver = ver])
      BY DEF ReadCounts, Becomes
    <2>2. LET r == [flow[f] EXCEPT !.bell = "read", !.bver = ver] IN
            /\ r \in FlowRow /\ r.phase = flow[f].phase /\ r.list = flow[f].list
            /\ r.id = flow[f].id /\ r.late = flow[f].late /\ r.bell = "read" /\ r.bver = ver
      BY <1>1 DEF FlowRow
    <2>. QED
      BY <2>1, <2>2
  <1>3. r.bver >= ver
    BY <1>1, <1>2
  <1>4. \/ r.phase \in {"posted", "get"} \/ r.phase = flow[f].phase
    BY <1>2
  <1>. QED
    BY <1>1, <1>2, <1>3, <1>4, RequestStep

-----------------------------------------------------------------------------
(* Alerts: the browser *)

\* The click is on a row the page has, so the table has it too.
LEMMA ClickStep == ASSUME AlertsInv, NEW f \in Act, Click(f) PROVE AlertsInv'
  <1>1. AlertsTypeOK /\ IdInv /\ PageInv /\ BellInv /\ CheckInv
    BY DEF AlertsInv
  <1>2. /\ UNCHANGED <<rows, check, ver, bell, mess>>
        /\ flow[f] = NoFlow /\ flow[f] \in FlowRow /\ page.rows \in Seq(AlertRow)
    BY <1>1 DEF Click, AlertsTypeOK
  <1>3. PICK i \in DOMAIN page.rows, to \in {"acknowledged", "resolved"} :
          /\ page' = [page EXCEPT !.touched = TRUE, !.rows[i].status = to]
          /\ flow' = [flow EXCEPT ![f] = [@ EXCEPT !.phase = "post", !.id = i, !.to = to]]
    <2>1. \A i \in DOMAIN page.rows : page.rows[i].status \in {"new", "acknowledged", "resolved"}
      <3>1. \A i \in DOMAIN page.rows : page.rows[i] \in AlertRow
        BY <1>2
      <3>. QED
        BY <3>1 DEF AlertRow
    <2>2. \A i \in DOMAIN page.rows : Offered(i) \subseteq {"acknowledged", "resolved"}
      BY <2>1 DEF Offered
    <2>3. \A tab : Shown(tab) \subseteq DOMAIN page.rows
      BY DEF Shown
    <2>. QED
      BY <2>2, <2>3 DEF Click
  <1>4. /\ page' \in [rows : Seq(AlertRow), ver : Nat, loading : BOOLEAN, touched : BOOLEAN]
        /\ page'.ver = page.ver /\ Len(page'.rows) = Len(page.rows)
    <2>1. page.rows[i] \in AlertRow
      BY <1>2
    <2>2. PICK a \in AlertRow : a = [page.rows[i] EXCEPT !.status = to]
      BY <2>1 DEF AlertRow
    <2>. DEFINE q == [page.rows EXCEPT ![i] = [page.rows[i] EXCEPT !.status = to]]
    <2>3. page' = [page EXCEPT !.touched = TRUE, !.rows = q]
      BY <1>3
    <2>4. q \in Seq(AlertRow) /\ Len(q) = Len(page.rows)
      <3>1. q = [page.rows EXCEPT ![i] = a]
        BY <2>2
      <3>. HIDE DEF q
      <3>. QED
        BY <1>2, <2>2, <3>1
    <2>. HIDE DEF q
    <2>. QED
      BY <1>1, <2>3, <2>4 DEF AlertsTypeOK
  <1>5. i \in Nat /\ i \in 1 .. Len(rows)
    <2>1. i \in 1 .. Len(page.rows) /\ Len(page.rows) \in Nat /\ Len(rows) \in Nat /\ Len(page.rows) <= Len(rows)
      BY <1>1, <1>2 DEF IdInv, AlertsTypeOK
    <2>. QED
      BY <2>1
  <1>6. PICK r \in FlowRow : /\ Becomes(f, r) /\ r.phase = "post" /\ r.id = i
                             /\ r.list = Unasked /\ r.bell = "none" /\ ~r.late
    <2>1. Becomes(f, [flow[f] EXCEPT !.phase = "post", !.id = i, !.to = to])
      BY <1>3 DEF Becomes
    <2>2. LET r == [flow[f] EXCEPT !.phase = "post", !.id = i, !.to = to] IN
            /\ r \in FlowRow /\ r.phase = "post" /\ r.id = i
            /\ r.list = flow[f].list /\ r.bell = flow[f].bell /\ r.late = flow[f].late
      BY <1>2, <1>5 DEF FlowRow
    <2>3. flow[f].list = Unasked /\ flow[f].bell = "none" /\ ~flow[f].late
      BY <1>2 DEF NoFlow
    <2>. QED
      BY <2>1, <2>2, <2>3
  <1>7. /\ flow' \in [Act -> FlowRow]
        /\ flow'[f] = r /\ \A g \in Act \ {f} : flow'[g] = flow[g]
    BY <1>1, <1>6, FlowFields
  <1>8. flow[f].phase = "idle" /\ flow[f].bell = "none" /\ Len(Unasked.rows) <= Len(rows)
    BY <1>1, <1>2 DEF NoFlow, IdInv
  <1>9. AlertsTypeOK' /\ CheckInv'
    BY <1>1, <1>2, <1>4, <1>7 DEF AlertsTypeOK, CheckInv, OpenFailureHasCause
  <1>10. IdInv'
    BY <1>1, <1>2, <1>4, <1>5, <1>6, <1>7, <1>8 DEF IdInv
  <1>11. PageInv'
    BY <1>1, <1>2, <1>4, <1>6, <1>7, <1>8 DEF PageInv
  <1>12. BellInv'
    BY <1>1, <1>2, <1>6, <1>7, <1>8 DEF BellInv
  <1>. QED
    BY <1>9, <1>10, <1>11, <1>12 DEF AlertsInv

LEMMA RefreshedStep == ASSUME AlertsInv, NEW f \in Act, Refreshed(f) PROVE AlertsInv'
  <1>1. AlertsTypeOK /\ IdInv /\ PageInv /\ BellInv /\ CheckInv
    BY DEF AlertsInv
  <1>2. /\ UNCHANGED <<rows, check, ver, bell>> /\ flow[f] \in FlowRow /\ flow[f].phase = "get"
    BY <1>1 DEF Refreshed, AlertsTypeOK
  <1>3. Unasked \in [ver : Nat, rows : Seq(AlertRow)] /\ Len(Unasked.rows) = 0
    <2>1. <<>> \in Seq(AlertRow) /\ Len(<<>>) = 0
      OBVIOUS
    <2>. QED
      BY <2>1 DEF Unasked
  <1>4. PICK r \in FlowRow : /\ Becomes(f, r) /\ r.phase = "end" /\ r.list = Unasked
                             /\ r.bell = flow[f].bell /\ r.bver = flow[f].bver
            /\ r.late = flow[f].late /\ r.id = flow[f].id
    <2>1. Becomes(f, [flow[f] EXCEPT !.phase = "end", !.list = Unasked])
      BY DEF Refreshed, Becomes
    <2>2. PICK l \in [ver : Nat, rows : Seq(AlertRow)] : l = Unasked
      BY <1>3
    <2>3. LET r == [flow[f] EXCEPT !.phase = "end", !.list = l] IN
            /\ r \in FlowRow /\ r.phase = "end" /\ r.list = l
            /\ r.bell = flow[f].bell /\ r.bver = flow[f].bver
            /\ r.late = flow[f].late /\ r.id = flow[f].id
      BY <1>2 DEF FlowRow
    <2>. QED
      BY <2>1, <2>2, <2>3
  <1>5. /\ flow' \in [Act -> FlowRow]
        /\ flow'[f] = r /\ \A g \in Act \ {f} : flow'[g] = flow[g]
    BY <1>1, <1>4, FlowFields
  <1>6. /\ page' \in [rows : Seq(AlertRow), ver : Nat, loading : BOOLEAN, touched : BOOLEAN]
        /\ mess' \in BOOLEAN /\ Len(page'.rows) <= Len(rows)
        /\ ~mess' => /\ ~mess /\ ~page'.touched /\ flow[f].list # Unasked
                     /\ page'.ver = flow[f].list.ver /\ page'.ver >= page.ver
    <2>1. CASE UNCHANGED page /\ mess' = TRUE
      BY <1>1, <2>1 DEF AlertsTypeOK, IdInv
    <2>2. CASE /\ flow[f].list # Unasked
               /\ page' = [rows |-> flow[f].list.rows, ver |-> flow[f].list.ver,
                           loading |-> FALSE, touched |-> FALSE]
               /\ mess' = (mess \/ flow[f].list.ver < page.ver)
      <3>1. /\ flow[f].list.rows \in Seq(AlertRow) /\ flow[f].list.ver \in Nat /\ page.ver \in Nat
            /\ Len(flow[f].list.rows) <= Len(rows)
        BY <1>1, <1>2 DEF FlowRow, AlertsTypeOK, IdInv
      <3>2. /\ page' \in [rows : Seq(AlertRow), ver : Nat, loading : BOOLEAN, touched : BOOLEAN]
            /\ page'.rows = flow[f].list.rows /\ page'.ver = flow[f].list.ver /\ page'.touched = FALSE
        BY <2>2, <3>1
      <3>3. mess' \in BOOLEAN /\ (~mess' => ~mess /\ flow[f].list.ver >= page.ver)
        <4>1. PICK lt \in BOOLEAN : lt <=> flow[f].list.ver < page.ver
          OBVIOUS
        <4>2. mess' <=> mess \/ lt
          BY <2>2, <4>1
        <4>3. mess' \in BOOLEAN
          BY <2>2
        <4>. QED
          BY <3>1, <4>1, <4>2, <4>3
      <3>. QED
        BY <2>2, <3>1, <3>2, <3>3
    <2>. QED
      BY <2>1, <2>2 DEF Refreshed
  <1>7. AlertsTypeOK' /\ CheckInv'
    BY <1>1, <1>2, <1>5, <1>6 DEF AlertsTypeOK, CheckInv, OpenFailureHasCause
  <1>8. IdInv'
    <2>1. Len(rows) \in Nat
      BY <1>1 DEF AlertsTypeOK
    <2>. QED
      BY <1>1, <1>2, <1>3, <1>4, <1>5, <1>6, <2>1 DEF IdInv
  <1>9. PageInv'
    <2>. SUFFICES ASSUME ~mess', page'.ver < ver
                  PROVE  \E g \in Act :
                           \/ flow'[g].phase = "posted"
                           \/ flow'[g].phase = "get" /\ (flow'[g].list = Unasked \/ flow'[g].list.ver >= ver)
      BY <1>2, <1>6 DEF PageInv
    <2>1. page.ver < ver /\ flow[f].list.ver < ver /\ ~mess
      BY <1>1, <1>2, <1>6 DEF AlertsTypeOK, FlowRow
    <2>2. PICK g \in Act :
            \/ flow[g].phase = "posted"
            \/ flow[g].phase = "get" /\ (flow[g].list = Unasked \/ flow[g].list.ver >= ver)
      BY <1>1, <2>1 DEF PageInv
    <2>3. g # f
      BY <1>1, <1>2, <1>6, <2>1, <2>2 DEF AlertsTypeOK, FlowRow
    <2>. QED
      BY <1>5, <2>2, <2>3
  <1>10. BellInv'
    BY <1>1, <1>2, <1>4, <1>5, <1>6 DEF BellInv
  <1>. QED
    BY <1>7, <1>8, <1>9, <1>10 DEF AlertsInv

LEMMA BellRingsStep == ASSUME AlertsInv, NEW f \in Act, BellRings(f) PROVE AlertsInv'
  <1>1. AlertsTypeOK /\ IdInv /\ PageInv /\ BellInv /\ CheckInv
    BY DEF AlertsInv
  <1>2. UNCHANGED <<rows, check, ver, page>> /\ flow[f] \in FlowRow
    BY <1>1 DEF BellRings, AlertsTypeOK
  <1>3. PICK r \in FlowRow : /\ Becomes(f, r) /\ r.phase = flow[f].phase /\ r.list = flow[f].list
                             /\ r.id = flow[f].id /\ r.late = flow[f].late /\ r.bell = "none"
    <2>1. Becomes(f, [flow[f] EXCEPT !.bell = "none", !.bver = 0])
      BY DEF BellRings, Becomes
    <2>2. LET r == [flow[f] EXCEPT !.bell = "none", !.bver = 0] IN
            /\ r \in FlowRow /\ r.phase = flow[f].phase /\ r.list = flow[f].list
            /\ r.id = flow[f].id /\ r.late = flow[f].late /\ r.bell = "none"
      BY <1>2 DEF FlowRow
    <2>. QED
      BY <2>1, <2>2
  <1>4. /\ flow' \in [Act -> FlowRow]
        /\ flow'[f] = r /\ \A g \in Act \ {f} : flow'[g] = flow[g]
    BY <1>1, <1>3, FlowFields
  <1>5. /\ bell' \in Nat /\ mess' \in BOOLEAN
        /\ ~mess' => ~mess /\ flow[f].bell = "read" /\ bell' = flow[f].bver /\ bell' >= bell
    <2>1. CASE UNCHANGED bell /\ mess' = TRUE
      BY <1>1, <2>1 DEF AlertsTypeOK
    <2>2. CASE flow[f].bell = "read" /\ bell' = flow[f].bver /\ mess' = (mess \/ flow[f].bver < bell)
      <3>1. PICK lt \in BOOLEAN : lt <=> flow[f].bver < bell
        OBVIOUS
      <3>2. mess' <=> mess \/ lt
        BY <2>2, <3>1
      <3>3. mess' \in BOOLEAN
        BY <2>2
      <3>4. flow[f].bver \in Nat /\ bell \in Nat
        BY <1>1, <1>2 DEF AlertsTypeOK, FlowRow
      <3>. QED
        BY <2>2, <3>1, <3>2, <3>3, <3>4
    <2>. QED
      BY <2>1, <2>2 DEF BellRings
  <1>6. AlertsTypeOK' /\ IdInv' /\ CheckInv'
    BY <1>1, <1>2, <1>3, <1>4, <1>5 DEF AlertsTypeOK, IdInv, CheckInv, OpenFailureHasCause
  <1>7. PageInv'
    BY <1>1, <1>2, <1>3, <1>4, <1>5 DEF PageInv
  <1>8. BellInv'
    <2>. SUFFICES ASSUME ~mess', bell' < ver
                  PROVE  \E g \in Act : \/ flow'[g].phase = "posted" \/ flow'[g].bell = "sent"
                                        \/ flow'[g].bell = "read" /\ flow'[g].bver >= ver
      BY <1>2 DEF BellInv
    <2>1. bell < ver /\ flow[f].bver < ver /\ ~mess
      BY <1>1, <1>2, <1>5 DEF AlertsTypeOK, FlowRow
    <2>2. PICK g \in Act : \/ flow[g].phase = "posted" \/ flow[g].bell = "sent"
                           \/ flow[g].bell = "read" /\ flow[g].bver >= ver
      BY <1>1, <2>1 DEF BellInv
    <2>3. g = f => flow[f].phase = "posted"
      BY <1>1, <1>2, <1>5, <2>1, <2>2 DEF AlertsTypeOK, FlowRow
    <2>. QED
      BY <1>3, <1>4, <2>2, <2>3
  <1>. QED
    BY <1>6, <1>7, <1>8 DEF AlertsInv

LEMMA LoadStep == ASSUME AlertsInv, Load PROVE AlertsInv'
  <1>1. AlertsTypeOK /\ IdInv /\ CheckInv
    BY DEF AlertsInv
  <1>2. /\ UNCHANGED <<rows, check, ver, flow, mess>> /\ bell' = ver
        /\ page' \in [rows : Seq(AlertRow), ver : Nat, loading : BOOLEAN, touched : BOOLEAN]
        /\ page'.rows = rows /\ page'.ver = ver /\ page'.touched = FALSE
    BY <1>1 DEF Load, AlertsTypeOK
  <1>3. ver \in Nat /\ Len(rows) \in Nat
    BY <1>1 DEF AlertsTypeOK
  <1>4. AlertsTypeOK' /\ IdInv' /\ CheckInv'
    BY <1>1, <1>2, <1>3 DEF AlertsTypeOK, IdInv, CheckInv, OpenFailureHasCause
  <1>5. PageInv' /\ BellInv'
    BY <1>2, <1>3 DEF PageInv, BellInv
  <1>. QED
    BY <1>4, <1>5 DEF AlertsInv

-----------------------------------------------------------------------------
(* Alerts: the theorems *)

LEMMA StepKeepsAlertsInv == AlertsInv /\ [AlertsNext]_alertsVars => AlertsInv'
  <1>. SUFFICES ASSUME AlertsInv, [AlertsNext]_alertsVars PROVE AlertsInv'
    OBVIOUS
  <1>1. CASE UNCHANGED alertsVars
    BY <1>1 DEF alertsVars, AlertsInv, AlertsTypeOK, IdInv, PageInv, BellInv, CheckInv, OpenFailureHasCause
  <1>2. CASE PersistReads \/ PersistCloses \/ PersistCommits \/ PersistRollsBack \/ Load
    BY <1>2, PersistReadsStep, PersistClosesStep, PersistCommitsStep, PersistRollsBackStep, LoadStep
  <1>3. ASSUME NEW f \in Act, SetStatus(f) \/ PostFails(f) \/ PostAborts(f) \/ ReadList(f) \/ ReadCounts(f)
        PROVE  AlertsInv'
    BY <1>3, SetStatusStep, PostFailsStep, PostAbortsStep, ReadListStep, ReadCountsStep
  <1>4. ASSUME NEW f \in Act, Done(f) \/ Refreshed(f) \/ BellRings(f) \/ Click(f)
        PROVE  AlertsInv'
    BY <1>4, DoneStep, RefreshedStep, BellRingsStep, ClickStep
  <1>. QED
    BY <1>1, <1>2, <1>3, <1>4 DEF AlertsNext

\* In every reachable state, what the table, the page and the bell have of the
\* user's changes, and which requests still have it to bring.
THEOREM AlertsBookkeeping == AlertsSpec => []AlertsInv
  <1>. QED
    BY InitAlerts, StepKeepsAlertsInv, PTL DEF AlertsSpec

\* lib/alerts.ts:37: a success closes every failure alert but those opened again
\* since its UPDATE looked.
THEOREM SuccessClosesFailures == AlertsSpec => []OpenFailureHasCause
  <1>1. AlertsInv => OpenFailureHasCause
    BY DEF AlertsInv, CheckInv
  <1>. QED
    BY <1>1, AlertsBookkeeping, PTL

\* useAlertsStore.ts:12: the page and the bell end on what the table has.
THEOREM PageIsReconciled == AlertsSpec => []Reconciled
  <1>1. AlertsInv => Reconciled
    BY DEF AlertsInv, AlertsTypeOK, PageInv, BellInv, Reconciled, Quiet
  <1>. QED
    BY <1>1, AlertsBookkeeping, PTL
=============================================================================
