------------------------------ MODULE Sessions ------------------------------
(***************************************************************************)
(* Accounts and sessions (routers/auth.py, services/auth.py,               *)
(* db/user_repository.py): registering, signing in, refreshing a token and *)
(* changing the password, as requests that await the database and the      *)
(* password threads between their steps, with the attempt throttle and the *)
(* bounded pool of password work.  One address and one client; a token is  *)
(* what it claims (the version of the account) and, for the properties,    *)
(* the password that was shown for it and by which kind of request.        *)
(***************************************************************************)
EXTENDS Integers, Sequences, SequencesExt, FiniteSets

CONSTANTS Callers,      \* requests under way at once
          Passwords,    \* what a caller may type
          Usable,       \* those that validate_password() accepts
          Absent,       \* no account, no row
          Slots,        \* _password_slots
          MaxFailures,  \* LoginThrottle._max
          MaxVersion,   \* bound on token_version
          MaxAttempts   \* bound on the attempts the throttle sees

ASSUME SessionBounds ==
    /\ Usable \subseteq Passwords
    /\ {Slots, MaxFailures, MaxVersion, MaxAttempts} \subseteq Nat \ {0}

Keys == {"email", "ip", "register"}
Attempts == 0 .. MaxAttempts
Rows == [pw : Passwords, ver : 1 .. MaxVersion]

ASSUME CallersAreFinite == IsFiniteSet(Callers)
ASSUME AbsentIsNothing == Absent \notin Rows \union Passwords

VARIABLES account,   \* the row of users, or Absent
          tokens,    \* tokens handed out that still decode
          caller,    \* what each caller's request is waiting for
          stamps,    \* _failures: attempts within the window, oldest first
          recovery,  \* _recovery_after of the address: none, waiting or due
          attempts,  \* attempts so far: the next attempt's identity
          orphans,   \* password work whose request was cancelled
          taken,     \* slots of _password_slots that are taken
          failed     \* attempts of the client that failed or are not over

sessionVars == <<account, tokens, caller, stamps, recovery, attempts, orphans, taken, failed>>

NoRequest == [step |-> "none", pw |-> Absent, new |-> Absent, row |-> Absent, attempt |-> 0]

Working == {"hashing", "verifying", "proving", "rehashing"}
Steps == Working \union {"none", "inserting", "registered", "finding", "touching", "saving",
                         "rereading"}
TokenKinds == {"registration", "sign-in", "change"}

SessionTypeOK ==
    /\ account \in Rows \union {Absent}
    /\ tokens \subseteq [ver : 1 .. MaxVersion, pw : Passwords, by : TokenKinds]
    /\ \A c \in Callers :
        /\ caller[c].step \in Steps
        /\ {caller[c].pw, caller[c].new} \subseteq Passwords \union {Absent}
        /\ caller[c].row \in Rows \union {Absent}
    /\ \A k \in Keys : stamps[k] \in Seq(Attempts) /\ Len(stamps[k]) <= MaxFailures
    /\ recovery \in {"none", "waiting", "due"}
    /\ taken \in 0 .. Slots

SessionInit ==
    /\ account = Absent /\ tokens = {}
    /\ caller = [c \in Callers |-> NoRequest]
    /\ stamps = [k \in Keys |-> <<>>] /\ recovery = "none"
    /\ attempts = 0 /\ failed = {}
    /\ orphans = 0 /\ taken = 0

-----------------------------------------------------------------------------
(* LoginThrottle. *)

IsBlocked(s, k) == Len(s[k]) >= MaxFailures

\* record_failure() on each of the keys, for the attempt about to start.
Stamped(ks) ==
    [k \in Keys |-> IF k \in ks
                    THEN LET s == Append(stamps[k], attempts + 1)
                         IN SubSeq(s, IF Len(s) > MaxFailures THEN 2 ELSE 1, Len(s))
                    ELSE stamps[k]]

\* admit(): the address may probe once a recovery period while it is blocked.
AdmitLogin ==
    \/ /\ ~IsBlocked(stamps, "email")
       /\ stamps' = Stamped({"email", "ip"})
       /\ recovery' = IF IsBlocked(stamps', "email") /\ recovery = "none"
                      THEN "waiting" ELSE recovery
    \/ /\ IsBlocked(stamps, "email") /\ recovery # "waiting"
       /\ stamps' = Stamped({"ip"})
       /\ recovery' = "waiting"

\* The attempt is in the list once, or has passed out of the window.
Released(s, a) ==
    IF a \in ToSet(s) THEN RemoveAt(s, CHOOSE i \in DOMAIN s : s[i] = a) ELSE s

\* clear() for the address; forgive() for the client, which releases only the
\* attempt that succeeded.
Forgive(a) ==
    [stamps EXCEPT !["ip"] = Released(@, a), !["email"] = <<>>]

\* The window passes over the oldest attempt of a key.
Expire(k) ==
    /\ stamps[k] # <<>>
    /\ stamps' = [stamps EXCEPT ![k] = Tail(@)]
    /\ recovery' = IF k = "email" /\ Len(stamps[k]) = 1 THEN "none" ELSE recovery
    /\ failed' = IF k = "ip" THEN failed \ {Head(stamps[k])} ELSE failed
    /\ UNCHANGED <<account, tokens, caller, attempts, orphans, taken>>

RecoveryPasses ==
    /\ recovery = "waiting" /\ recovery' = "due"
    /\ UNCHANGED <<account, tokens, caller, stamps, attempts, orphans, taken, failed>>

-----------------------------------------------------------------------------
(* Requests. *)

Idle(c) == caller[c].step = "none"
At(c, s) == caller[c].step = s
To(c, s) == caller' = [caller EXCEPT ![c].step = s]
Over(c) == caller' = [caller EXCEPT ![c] = NoRequest]

Issue(row, pw, by) == tokens \union {[ver |-> row.ver, pw |-> pw, by |-> by]}

\* The throttle first; then the password is hashed.
Register(c, pw) ==
    /\ Idle(c) /\ attempts < MaxAttempts
    /\ ~IsBlocked(stamps, "register")
    /\ stamps' = Stamped({"register"}) /\ attempts' = attempts + 1
    /\ IF pw \in Usable /\ taken < Slots
       THEN /\ caller' = [caller EXCEPT ![c] = [NoRequest EXCEPT !.step = "hashing", !.pw = pw]]
            /\ taken' = taken + 1
       ELSE UNCHANGED <<caller, taken>>
    /\ UNCHANGED <<account, tokens, recovery, orphans, failed>>

Hashed(c) ==
    /\ At(c, "hashing")
    /\ To(c, "inserting") /\ taken' = taken - 1
    /\ UNCHANGED <<account, tokens, stamps, recovery, attempts, orphans, failed>>

\* create() commits: the unique address decides between two registrations.
Insert(c) ==
    /\ At(c, "inserting")
    /\ IF account = Absent
       THEN account' = [pw |-> caller[c].pw, ver |-> 1] /\ To(c, "registered")
       ELSE Over(c) /\ UNCHANGED account
    /\ UNCHANGED <<tokens, stamps, recovery, attempts, orphans, taken, failed>>

\* session.refresh(row): the token carries the version the row has by now.
FirstToken(c) ==
    /\ At(c, "registered") /\ Over(c)
    /\ tokens' = Issue(account, caller[c].pw, "registration")
    /\ UNCHANGED <<account, stamps, recovery, attempts, orphans, taken, failed>>

\* login(): both budgets are reserved before the first await.
Login(c, pw) ==
    /\ Idle(c) /\ attempts < MaxAttempts
    /\ ~IsBlocked(stamps, "ip") /\ AdmitLogin
    /\ attempts' = attempts + 1 /\ failed' = failed \union {attempts + 1}
    /\ caller' = [caller EXCEPT ![c] = [NoRequest EXCEPT !.step = "finding", !.pw = pw,
                                                         !.attempt = attempts + 1]]
    /\ UNCHANGED <<account, tokens, orphans, taken>>

Find(c) ==
    /\ At(c, "finding")
    /\ IF account # Absent /\ taken < Slots
       THEN /\ caller' = [caller EXCEPT ![c].step = "verifying", ![c].row = account]
            /\ taken' = taken + 1
       ELSE Over(c) /\ UNCHANGED taken
    /\ UNCHANGED <<account, tokens, stamps, recovery, attempts, orphans, failed>>

\* The password is checked against the row that was read.
Verify(c) ==
    /\ At(c, "verifying") /\ taken' = taken - 1
    /\ IF caller[c].pw = caller[c].row.pw
       THEN /\ To(c, "touching")
            /\ stamps' = Forgive(caller[c].attempt) /\ recovery' = "none"
            /\ failed' = failed \ {caller[c].attempt}
       ELSE Over(c) /\ UNCHANGED <<stamps, recovery, failed>>
    /\ UNCHANGED <<account, tokens, attempts, orphans>>

\* Mutant: the token carries the version the account has now.
TouchAndReread(c) ==
    /\ At(c, "touching") /\ Over(c)
    /\ tokens' = Issue(account, caller[c].pw, "sign-in")
    /\ UNCHANGED <<account, stamps, recovery, attempts, orphans, taken, failed>>

\* touch_last_login() answers or fails; the token carries the version of the row
\* that was verified.
Touch(c) ==
    /\ At(c, "touching") /\ Over(c)
    /\ tokens' = Issue(caller[c].row, caller[c].pw, "sign-in")
    /\ UNCHANGED <<account, stamps, recovery, attempts, orphans, taken, failed>>

Valid(t) == account # Absent /\ t.ver = account.ver

\* change_password(): get_current_user() reads the row the password is checked
\* against.
Change(c, t, pw, new) ==
    /\ Idle(c) /\ Valid(t) /\ taken < Slots /\ account.ver < MaxVersion
    /\ taken' = taken + 1
    /\ caller' = [caller EXCEPT ![c] = [NoRequest EXCEPT !.step = "proving", !.pw = pw,
                                                         !.new = new, !.row = account]]
    /\ UNCHANGED <<account, tokens, stamps, recovery, attempts, orphans, failed>>

\* The slot is given back before the new password's hash asks for one, and
\* another request may be quicker.
Prove(c) ==
    /\ At(c, "proving")
    /\ \/ /\ caller[c].pw = caller[c].row.pw /\ caller[c].new \in Usable
          /\ To(c, "rehashing") /\ UNCHANGED taken
       \/ Over(c) /\ taken' = taken - 1
    /\ UNCHANGED <<account, tokens, stamps, recovery, attempts, orphans, failed>>

Rehash(c) ==
    /\ At(c, "rehashing")
    /\ To(c, "saving") /\ taken' = taken - 1
    /\ UNCHANGED <<account, tokens, stamps, recovery, attempts, orphans, failed>>

\* set_password(): a new hash and the next version.
SetPassword(c) ==
    /\ At(c, "saving") /\ account.ver < MaxVersion
    /\ account' = [pw |-> caller[c].new, ver |-> account.ver + 1]
    /\ To(c, "rereading")
    /\ UNCHANGED <<tokens, stamps, recovery, attempts, orphans, taken, failed>>

Reread(c) ==
    /\ At(c, "rereading") /\ Over(c)
    /\ tokens' = Issue(account, caller[c].new, "change")
    /\ UNCHANGED <<account, stamps, recovery, attempts, orphans, taken, failed>>

\* refresh(): the row is read and the pair issued without an await in between.
Refresh(t) ==
    /\ Valid(t)
    /\ tokens' = Issue(account, t.pw, t.by)
    /\ UNCHANGED <<account, caller, stamps, recovery, attempts, orphans, taken, failed>>

\* Mutant: a cancelled request gives its slot back while its work goes on.
CancelReleasing(c) ==
    /\ ~Idle(c) /\ Over(c)
    /\ IF caller[c].step \in Working
       THEN orphans' = orphans + 1 /\ taken' = taken - 1
       ELSE UNCHANGED <<orphans, taken>>
    /\ UNCHANGED <<account, tokens, stamps, recovery, attempts, failed>>

\* The client goes away: the work it asked for runs on in its thread.
Cancel(c) ==
    /\ ~Idle(c) /\ Over(c)
    /\ orphans' = IF caller[c].step \in Working THEN orphans + 1 ELSE orphans
    /\ UNCHANGED <<account, tokens, stamps, recovery, attempts, taken, failed>>

OrphanEnds ==
    /\ orphans > 0
    /\ orphans' = orphans - 1 /\ taken' = taken - 1
    /\ UNCHANGED <<account, tokens, caller, stamps, recovery, attempts, failed>>

\* The process restarts: the throttle forgets, and without a configured secret
\* no token decodes any more.
Restart ==
    /\ tokens' \in {tokens, {}}
    /\ caller' = [c \in Callers |-> NoRequest]
    /\ stamps' = [k \in Keys |-> <<>>] /\ recovery' = "none"
    /\ failed' = {} /\ orphans' = 0 /\ taken' = 0
    /\ UNCHANGED <<account, attempts>>

SessionNext ==
    \/ \E c \in Callers, pw \in Passwords : Register(c, pw) \/ Login(c, pw)
    \/ \E c \in Callers, t \in tokens, pw, new \in Passwords : Change(c, t, pw, new)
    \/ \E c \in Callers :
        \/ Hashed(c) \/ Insert(c) \/ FirstToken(c) \/ Find(c) \/ Verify(c) \/ Touch(c)
        \/ Prove(c) \/ Rehash(c) \/ SetPassword(c) \/ Reread(c) \/ Cancel(c)
    \/ \E t \in tokens : Refresh(t)
    \/ \E k \in Keys : Expire(k)
    \/ RecoveryPasses \/ OrphanEnds \/ Restart

SessionSpec == SessionInit /\ [][SessionNext]_sessionVars

-----------------------------------------------------------------------------
\* "After a password change the tokens handed out before it stop verifying"
\* (user_repository.py:106-109), although sign-in awaits twice between reading the
\* account and issuing its token: a token that still verifies and comes from a
\* sign-in, or was refreshed from one, was given for the present password.  A
\* registration and a change read the row again after their commit, and are excepted.
SignInsShowThePassword ==
    \A t \in tokens : Valid(t) /\ t.by = "sign-in" => t.pw = account.pw

\* "Success releases only its own IP reservation, preserving earlier and
\* concurrent failed attempts" (routers/auth.py:378-379): within the window every
\* attempt of the client that failed or is still under way counts.
FailuresStayCounted == failed = ToSet(stamps["ip"])

\* "Neither the executor nor cancelled requests may create an unbounded queue"
\* (routers/auth.py:75-76): the slots taken are the work that is running.
SlotsAreWork ==
    taken = orphans + Cardinality({c \in Callers : caller[c].step \in Working})

\* What the limits on sign-ins count, in steps of several requests that fail, are
\* cancelled and overlap, is what there is to count.
LimitsCountTheWork == FailuresStayCounted /\ SlotsAreWork
=============================================================================
