-------------------------- MODULE Requests_proofs --------------------------
(***************************************************************************)
(* What concurrent requests share, for any number of them.  Sign-ins: a    *)
(* token shows the present password, failed attempts stay counted, and the *)
(* slots taken are the work under way.  Lists and journal: the limits      *)
(* hold, a list stays, and a review replaces only what its device knew.    *)
(* Scans and back-tests: slots, gate and locks belong to work under way,   *)
(* and a client pays only for work that starts for it.  Reported errors:   *)
(* no hit is lost or counted twice.  The life they all run in: nothing     *)
(* outlives the engine, the log's queue stays bounded, and its rows are in *)
(* the order of that queue.                                                *)
(***************************************************************************)
EXTENDS Lifespan, Sessions, AccountData, ErrorTracker, ScanAdmission, Sums_proofs,
        SequenceTheorems, FiniteSetTheorems, TLAPS

-----------------------------------------------------------------------------
(* Sign-ins. *)

Requests == [step : Steps, pw : Passwords \union {Absent}, new : Passwords \union {Absent},
             row : Rows \union {Absent}, attempt : Nat]

\* A row that was read is of the account as it is, or of an earlier version.
RowShows(row) ==
    /\ row \in Rows /\ account # Absent
    /\ row.ver <= account.ver
    /\ row.ver = account.ver => row.pw = account.pw

RequestShows(r) ==
    /\ r.step \in {"hashing", "inserting", "registered"} => r.pw \in Passwords
    /\ r.step = "registered" => account # Absent
    /\ r.step \in {"verifying", "touching", "proving"} => RowShows(r.row)
    /\ r.step = "touching" => r.pw = r.row.pw
    /\ r.step \in {"proving", "rehashing", "saving", "rereading"} =>
         r.new \in Passwords /\ account # Absent

TokenShows(t) ==
    /\ t.ver \in Nat /\ account # Absent
    /\ t.ver <= account.ver
    /\ t.by = "sign-in" /\ t.ver = account.ver => t.pw = account.pw

\* Inductive: whatever the request still holds, a row or a password, fits the
\* version it was read at.
SignInInv ==
    /\ account \in Rows \union {Absent}
    /\ caller \in [Callers -> Requests]
    /\ \A c \in Callers : RequestShows(caller[c])
    /\ \A t \in tokens : TokenShows(t)

LEMMA RowFacts ==
    /\ \A r \in Rows : r # Absent /\ r.ver \in Nat /\ r.pw \in Passwords
    /\ \A r \in Rows : r = [pw |-> r.pw, ver |-> r.ver]
    BY AbsentIsNothing, SessionBounds DEF Rows

LEMMA NoRequestShows == NoRequest \in Requests /\ RequestShows(NoRequest)
    BY DEF NoRequest, Requests, RequestShows, Steps

\* One request changes and the account does not.
LEMMA OneRequest ==
    ASSUME SignInInv, UNCHANGED account,
           NEW c \in Callers, NEW r \in Requests, RequestShows(r),
           caller' = [caller EXCEPT ![c] = r]
    PROVE  /\ caller' \in [Callers -> Requests]
           /\ \A d \in Callers : RequestShows(caller[d])'
<1>1. caller' \in [Callers -> Requests]
    BY DEF SignInInv
<1>2. \A d \in Callers : caller'[d] = IF d = c THEN r ELSE caller[d]
    BY DEF SignInInv
<1>3. ASSUME NEW d \in Callers PROVE RequestShows(caller[d])'
    <2>1. RequestShows(caller'[d])
        BY <1>2 DEF SignInInv
    <2> QED BY <2>1 DEF RequestShows, RowShows
<1> QED BY <1>1, <1>3

LEMMA SameAccount ==
    ASSUME SignInInv, UNCHANGED <<account, tokens>>
    PROVE  (account \in Rows \union {Absent})' /\ (\A t \in tokens : TokenShows(t))'
    BY DEF SignInInv, TokenShows

\* A step that leaves the account, the tokens and the requests alone.
LEMMA NothingSignsIn ==
    ASSUME SignInInv, UNCHANGED <<account, tokens, caller>>
    PROVE  SignInInv'
    BY DEF SignInInv, TokenShows, RequestShows, RowShows

\* A step of one request that does not touch the account or the tokens.
LEMMA RequestStep ==
    ASSUME SignInInv, UNCHANGED <<account, tokens>>,
           NEW c \in Callers, NEW r \in Requests, RequestShows(r),
           caller' = [caller EXCEPT ![c] = r]
    PROVE  SignInInv'
    BY OneRequest, SameAccount DEF SignInInv

\* A request ends with a token.
LEMMA TokenStep ==
    ASSUME SignInInv, UNCHANGED account, NEW t, TokenShows(t),
           tokens' = tokens \union {t},
           NEW c \in Callers, Over(c)
    PROVE  SignInInv'
<1>1. \A u \in tokens' : TokenShows(u)'
    BY DEF SignInInv, TokenShows
<1>2. caller' \in [Callers -> Requests] /\ \A d \in Callers : RequestShows(caller[d])'
    BY NoRequestShows, OneRequest DEF Over
<1> QED BY <1>1, <1>2 DEF SignInInv

\* A request goes on to another step with what it holds.
LEMMA NextStep ==
    ASSUME SignInInv, UNCHANGED <<account, tokens>>, NEW c \in Callers,
           NEW step \in Steps, To(c, step),
           RequestShows([caller[c] EXCEPT !.step = step])
    PROVE  SignInInv'
<1>1. caller[c] \in Requests
    BY DEF SignInInv
<1>2. [caller[c] EXCEPT !.step = step] \in Requests
    BY <1>1 DEF Requests
<1>3. caller' = [caller EXCEPT ![c] = [caller[c] EXCEPT !.step = step]]
    BY DEF To
<1> QED BY <1>2, <1>3, RequestStep

LEMMA RequestEnds ==
    ASSUME SignInInv, UNCHANGED <<account, tokens>>, NEW c \in Callers, Over(c)
    PROVE  SignInInv'
    BY NoRequestShows, RequestStep DEF Over

LEMMA RegisterKeepsSignIns ==
    ASSUME SignInInv, NEW c \in Callers, NEW pw \in Passwords, Register(c, pw)
    PROVE  SignInInv'
<1>1. CASE UNCHANGED caller
    BY <1>1, NothingSignsIn DEF Register
<1>2. CASE caller' = [caller EXCEPT ![c] = [NoRequest EXCEPT !.step = "hashing", !.pw = pw]]
    <2> DEFINE r == [NoRequest EXCEPT !.step = "hashing", !.pw = pw]
    <2>1. r \in Requests /\ RequestShows(r)
        BY DEF Requests, RequestShows, NoRequest, Steps, Working
    <2> QED BY <1>2, <2>1, RequestStep DEF Register
<1> QED BY <1>1, <1>2 DEF Register

LEMMA LoginKeepsSignIns ==
    ASSUME SignInInv, attempts \in Nat,
           NEW c \in Callers, NEW pw \in Passwords, Login(c, pw)
    PROVE  SignInInv'
<1> DEFINE r == [NoRequest EXCEPT !.step = "finding", !.pw = pw, !.attempt = attempts + 1]
<1>1. r \in Requests /\ RequestShows(r)
    <2>1. attempts + 1 \in Nat
        OBVIOUS
    <2> QED BY <2>1 DEF Requests, RequestShows, NoRequest, Steps, Working
<1>2. caller' = [caller EXCEPT ![c] = r] /\ UNCHANGED <<account, tokens>>
    BY DEF Login
<1> QED BY <1>1, <1>2, RequestStep

LEMMA FindKeepsSignIns ==
    ASSUME SignInInv, NEW c \in Callers, Find(c)
    PROVE  SignInInv'
<1>1. CASE Over(c)
    BY <1>1, RequestEnds DEF Find
<1>2. CASE /\ account # Absent
           /\ caller' = [caller EXCEPT ![c].step = "verifying", ![c].row = account]
    <2> DEFINE r == [caller[c] EXCEPT !.step = "verifying", !.row = account]
    <2>1. caller[c] \in Requests /\ account \in Rows
        BY <1>2 DEF SignInInv
    <2>2. r \in Requests
        BY <2>1 DEF Requests, Steps, Working
    <2>3. RequestShows(r)
        BY <2>1, RowFacts DEF RequestShows, RowShows, Requests
    <2>4. caller' = [caller EXCEPT ![c] = r]
        BY <1>2 DEF SignInInv
    <2> QED BY <2>2, <2>3, <2>4, RequestStep DEF Find
<1> QED BY <1>1, <1>2 DEF Find

LEMMA ChangeKeepsSignIns ==
    ASSUME SignInInv, NEW c \in Callers, NEW t \in tokens,
           NEW pw \in Passwords, NEW new \in Passwords, Change(c, t, pw, new)
    PROVE  SignInInv'
<1> DEFINE r == [NoRequest EXCEPT !.step = "proving", !.pw = pw, !.new = new, !.row = account]
<1>1. account \in Rows
    BY DEF SignInInv, Change, Valid
<1>2. r \in Requests
    BY <1>1 DEF Requests, NoRequest, Steps, Working
<1>3. RequestShows(r)
    BY <1>1, RowFacts DEF RequestShows, RowShows, NoRequest
<1>4. caller' = [caller EXCEPT ![c] = r] /\ UNCHANGED <<account, tokens>>
    BY DEF Change
<1> QED BY <1>2, <1>3, <1>4, RequestStep

\* Verifying, proving and rehashing go on with what the request holds.
LEMMA WorkKeepsSignIns ==
    ASSUME SignInInv, NEW c \in Callers,
           Hashed(c) \/ Verify(c) \/ Prove(c) \/ Rehash(c) \/ Cancel(c)
    PROVE  SignInInv'
<1>1. caller[c] \in Requests /\ RequestShows(caller[c])
    BY DEF SignInInv
<1>2. UNCHANGED <<account, tokens>>
    BY DEF Hashed, Verify, Prove, Rehash, Cancel
<1>3. CASE Over(c)
    BY <1>2, <1>3, RequestEnds
<1>4. CASE At(c, "hashing") /\ To(c, "inserting")
    <2>1. RequestShows([caller[c] EXCEPT !.step = "inserting"])
        BY <1>1, <1>4 DEF RequestShows, At, Requests
    <2> QED BY <1>2, <1>4, <2>1, NextStep DEF Steps
<1>5. CASE At(c, "verifying") /\ caller[c].pw = caller[c].row.pw /\ To(c, "touching")
    <2>1. RequestShows([caller[c] EXCEPT !.step = "touching"])
        BY <1>1, <1>5 DEF RequestShows, At, Requests
    <2> QED BY <1>2, <1>5, <2>1, NextStep DEF Steps
<1>6. CASE At(c, "proving") /\ To(c, "rehashing")
    <2>1. RequestShows([caller[c] EXCEPT !.step = "rehashing"])
        BY <1>1, <1>6 DEF RequestShows, At, Requests
    <2> QED BY <1>2, <1>6, <2>1, NextStep DEF Steps, Working
<1>7. CASE At(c, "rehashing") /\ To(c, "saving")
    <2>1. RequestShows([caller[c] EXCEPT !.step = "saving"])
        BY <1>1, <1>7 DEF RequestShows, At, Requests
    <2> QED BY <1>2, <1>7, <2>1, NextStep DEF Steps
<1> QED BY <1>3, <1>4, <1>5, <1>6, <1>7 DEF Hashed, Verify, Prove, Rehash, Cancel

\* The token of a sign-in is of the row that was verified, whatever came since.
LEMMA TouchKeepsSignIns ==
    ASSUME SignInInv, NEW c \in Callers, Touch(c)
    PROVE  SignInInv'
<1> DEFINE t == [ver |-> caller[c].row.ver, pw |-> caller[c].pw, by |-> "sign-in"]
<1>1. caller[c] \in Requests /\ RequestShows(caller[c]) /\ caller[c].step = "touching"
    BY DEF SignInInv, Touch, At
<1>2. TokenShows(t)
    BY <1>1, RowFacts DEF TokenShows, RequestShows, RowShows
<1>3. tokens' = tokens \union {t} /\ Over(c) /\ UNCHANGED account
    BY DEF Touch, Issue
<1> QED BY <1>2, <1>3, TokenStep

LEMMA RereadKeepsSignIns ==
    ASSUME SignInInv, NEW c \in Callers, Reread(c)
    PROVE  SignInInv'
<1> DEFINE t == [ver |-> account.ver, pw |-> caller[c].new, by |-> "change"]
<1>1. RequestShows(caller[c]) /\ caller[c].step = "rereading"
    BY DEF SignInInv, Reread, At
<1>2. account \in Rows
    BY <1>1 DEF SignInInv, RequestShows
<1>3. TokenShows(t)
    BY <1>2, RowFacts DEF TokenShows
<1>4. tokens' = tokens \union {t} /\ Over(c) /\ UNCHANGED account
    BY DEF Reread, Issue
<1> QED BY <1>3, <1>4, TokenStep

LEMMA FirstTokenKeepsSignIns ==
    ASSUME SignInInv, NEW c \in Callers, FirstToken(c)
    PROVE  SignInInv'
<1> DEFINE t == [ver |-> account.ver, pw |-> caller[c].pw, by |-> "registration"]
<1>1. RequestShows(caller[c]) /\ caller[c].step = "registered"
    BY DEF SignInInv, FirstToken, At
<1>2. account \in Rows
    BY <1>1 DEF SignInInv, RequestShows
<1>3. TokenShows(t)
    BY <1>2, RowFacts DEF TokenShows
<1>4. tokens' = tokens \union {t} /\ Over(c) /\ UNCHANGED account
    BY DEF FirstToken, Issue
<1> QED BY <1>3, <1>4, TokenStep

LEMMA RefreshKeepsSignIns ==
    ASSUME SignInInv, NEW t \in tokens, Refresh(t)
    PROVE  SignInInv'
<1> DEFINE u == [ver |-> account.ver, pw |-> t.pw, by |-> t.by]
<1>1. TokenShows(t) /\ account \in Rows /\ t.ver = account.ver
    BY DEF SignInInv, Refresh, Valid
<1>2. TokenShows(u)
    BY <1>1, RowFacts DEF TokenShows
<1>3. tokens' = tokens \union {u} /\ UNCHANGED <<account, caller>>
    BY DEF Refresh, Issue
<1> QED BY <1>2, <1>3 DEF SignInInv, TokenShows, RequestShows, RowShows

\* The first registration: nobody can have read a row or been given a token before.
LEMMA InsertKeepsSignIns ==
    ASSUME SignInInv, NEW c \in Callers, Insert(c)
    PROVE  SignInInv'
<1>1. CASE account # Absent
    BY <1>1, RequestEnds DEF Insert
<1>2. CASE account = Absent
    <2> DEFINE row == [pw |-> caller[c].pw, ver |-> 1]
               r == [caller[c] EXCEPT !.step = "registered"]
    <2>1. caller[c] \in Requests /\ RequestShows(caller[c]) /\ caller[c].step = "inserting"
        BY DEF SignInInv, Insert, At
    <2>2. row \in Rows
        BY <2>1, SessionBounds DEF RequestShows, Rows
    <2>3. account' = row /\ account' # Absent
        BY <1>2, <2>2, RowFacts DEF Insert
    <2>4. tokens' = {}
        BY <1>2 DEF SignInInv, TokenShows, Insert
    <2>5. r \in Requests /\ r.step = "registered" /\ r.pw \in Passwords
        BY <2>1 DEF Requests, RequestShows, Steps
    <2>6. caller' \in [Callers -> Requests] /\ \A d \in Callers : RequestShows(caller[d])'
        <3>1. caller' = [caller EXCEPT ![c] = r]
            BY <1>2 DEF Insert, To
        <3>2. caller' \in [Callers -> Requests]
            BY <2>5, <3>1 DEF SignInInv
        <3>3. ASSUME NEW d \in Callers PROVE RequestShows(caller[d])'
            <4>1. CASE d = c
                <5>1. caller'[d] = r
                    BY <3>1, <4>1 DEF SignInInv
                <5> QED BY <2>3, <2>5, <5>1 DEF RequestShows
            <4>2. CASE d # c
                <5>1. caller'[d] = caller[d] /\ RequestShows(caller[d])
                    BY <3>1, <4>2 DEF SignInInv
                <5> QED BY <1>2, <5>1 DEF RequestShows, RowShows
            <4> QED BY <4>1, <4>2
        <3> QED BY <3>2, <3>3
    <2> QED BY <2>2, <2>3, <2>4, <2>6 DEF SignInInv
<1> QED BY <1>1, <1>2

\* A new password is a new version: what was read or handed out is of an older one.
LEMMA SetPasswordKeepsSignIns ==
    ASSUME SignInInv, NEW c \in Callers, SetPassword(c)
    PROVE  SignInInv'
<1>1. caller[c] \in Requests /\ RequestShows(caller[c]) /\ caller[c].step = "saving"
    BY DEF SignInInv, SetPassword, At
<1>2. account \in Rows /\ account.ver < MaxVersion
    BY <1>1 DEF SignInInv, RequestShows, SetPassword
<1>3. account' = [pw |-> caller[c].new, ver |-> account.ver + 1]
    BY DEF SetPassword
<1>4. account' \in Rows
    BY <1>1, <1>2, <1>3, SessionBounds DEF RequestShows, Rows
<1>5. account' # Absent /\ account.ver \in Nat /\ account'.ver = account.ver + 1
    BY <1>2, <1>3, <1>4, RowFacts
<1>6. ASSUME NEW t \in tokens' PROVE TokenShows(t)'
    BY <1>5 DEF SignInInv, TokenShows, SetPassword
<1>7. caller' = [caller EXCEPT ![c] = [caller[c] EXCEPT !.step = "rereading"]]
    BY DEF SetPassword, To
<1>8. [caller[c] EXCEPT !.step = "rereading"] \in Requests
    BY <1>1 DEF Requests, Steps
<1>9. caller' \in [Callers -> Requests]
    BY <1>7, <1>8 DEF SignInInv
<1>10. ASSUME NEW d \in Callers PROVE RequestShows(caller[d])'
    <2>1. caller'[d] = IF d = c THEN [caller[c] EXCEPT !.step = "rereading"] ELSE caller[d]
        BY <1>7 DEF SignInInv
    <2>2. CASE d = c
        <3>1. /\ caller'[d].step = "rereading"
              /\ caller'[d].new = caller[c].new
            BY <2>1, <2>2, <1>1 DEF Requests
        <3> QED BY <3>1, <1>1, <1>5 DEF RequestShows
    <2>3. CASE d # c
        <3>1. caller'[d] = caller[d] /\ RequestShows(caller[d])
            BY <2>1, <2>3 DEF SignInInv
        <3>2. ASSUME RowShows(caller[d].row) PROVE RowShows(caller[d].row)'
            BY <3>1, <3>2, <1>5, RowFacts DEF RowShows
        <3> QED BY <3>1, <3>2, <1>5 DEF RequestShows
    <2> QED BY <2>2, <2>3
<1> QED BY <1>4, <1>6, <1>9, <1>10 DEF SignInInv

-----------------------------------------------------------------------------
(* The throttle. *)

\* The attempts in list s are different ones of the first n, and are those in f.
Tracked(s, n, f) ==
    /\ s \in Seq(Nat) /\ Len(s) <= MaxFailures
    /\ \A i \in 1 .. Len(s) : s[i] <= n
    /\ \A i, j \in 1 .. Len(s) : s[i] = s[j] => i = j
    /\ f = ToSet(s)

\* Inductive: an attempt has a number of its own, so that forgiving one, or letting
\* the oldest go, takes no other with it.
ThrottleInv ==
    /\ attempts \in Nat
    /\ stamps \in [Keys -> Seq(Nat)]
    /\ Tracked(stamps["ip"], attempts, failed)

LEMMA ToSetIs ==
    ASSUME NEW s \in Seq(Nat)
    PROVE  ToSet(s) = {s[i] : i \in 1 .. Len(s)}
<1>1. DOMAIN s = 1 .. Len(s)
    OBVIOUS
<1> QED BY <1>1 DEF ToSet

LEMMA TrackedNone == \A n \in Nat : Tracked(<<>>, n, {})
<1>1. <<>> \in Seq(Nat) /\ Len(<<>>) = 0
    OBVIOUS
<1>2. ToSet(<<>>) = {}
    <2>1. DOMAIN <<>> = {}
        BY <1>1
    <2> QED BY <2>1 DEF ToSet
<1> QED BY <1>1, <1>2, SessionBounds DEF Tracked

LEMMA TrackedLater ==
    ASSUME NEW s, NEW n \in Nat, NEW f, Tracked(s, n, f)
    PROVE  Tracked(s, n + 1, f)
<1>1. \A i \in 1 .. Len(s) : s[i] \in Nat
    BY DEF Tracked
<1> QED BY <1>1 DEF Tracked

LEMMA TrackedAppend ==
    ASSUME NEW s, NEW n \in Nat, NEW f, Tracked(s, n, f), Len(s) < MaxFailures
    PROVE  Tracked(Append(s, n + 1), n + 1, f \union {n + 1})
<1> DEFINE t == Append(s, n + 1)
<1>1. s \in Seq(Nat) /\ \A i \in 1 .. Len(s) : s[i] \in Nat
    BY DEF Tracked
<1>2. /\ t \in Seq(Nat) /\ Len(t) = Len(s) + 1 /\ Len(s) \in Nat
      /\ \A i \in 1 .. Len(s) : t[i] = s[i]
      /\ t[Len(s) + 1] = n + 1
    BY <1>1, AppendProperties
<1> HIDE DEF t
<1>3. Len(t) <= MaxFailures
    BY <1>2, SessionBounds DEF Tracked
<1>4. ASSUME NEW i \in 1 .. Len(t) PROVE t[i] <= n + 1
    <2>1. CASE i = Len(s) + 1
        BY <2>1, <1>2
    <2>2. CASE i \in 1 .. Len(s)
        <3>1. s[i] \in Nat /\ s[i] <= n
            BY <1>1, <2>2 DEF Tracked
        <3>2. s[i] <= n + 1
            BY <3>1
        <3> QED BY <1>2, <2>2, <3>2
    <2> QED BY <2>1, <2>2, <1>2
<1>5. ASSUME NEW i \in 1 .. Len(t), NEW j \in 1 .. Len(t), t[i] = t[j] PROVE i = j
    <2>1. \A k \in 1 .. Len(t) : k = Len(s) + 1 \/ k \in 1 .. Len(s)
        BY <1>2
    <2>2. ASSUME NEW k \in 1 .. Len(s) PROVE t[k] = s[k] /\ s[k] # n + 1
        <3>1. s[k] \in Nat /\ s[k] <= n
            BY <1>1 DEF Tracked
        <3>2. s[k] # n + 1
            BY <3>1
        <3> QED BY <1>2, <3>2
    <2> QED BY <2>1, <2>2, <1>2, <1>5 DEF Tracked
<1>6. ToSet(t) = f \union {n + 1}
    <2>1. ToSet(t) = {t[i] : i \in 1 .. Len(t)} /\ f = {s[i] : i \in 1 .. Len(s)}
        BY <1>1, <1>2, ToSetIs DEF Tracked
    <2>2. ASSUME NEW x \in ToSet(t) PROVE x \in f \union {n + 1}
        BY <2>1, <1>2
    <2>3. ASSUME NEW x \in f \union {n + 1} PROVE x \in ToSet(t)
        <3>1. CASE x = n + 1
            <4>1. Len(s) + 1 \in 1 .. Len(t)
                BY <1>2
            <4> QED BY <4>1, <3>1, <2>1, <1>2
        <3>2. CASE x \in f
            <4>1. PICK i \in 1 .. Len(s) : x = s[i]
                BY <3>2, <2>1
            <4>2. i \in 1 .. Len(t) /\ t[i] = x
                BY <4>1, <1>2
            <4> QED BY <4>2, <2>1
        <3> QED BY <3>1, <3>2
    <2> QED BY <2>2, <2>3
<1>7. Tracked(t, n + 1, f \union {n + 1})
    BY <1>2, <1>3, <1>4, <1>5, <1>6 DEF Tracked
<1> QED BY <1>7 DEF t

\* Taking one attempt out of the list takes it out of the set, and no other.
LEMMA TrackedRemove ==
    ASSUME NEW s, NEW n \in Nat, NEW f, Tracked(s, n, f), NEW k \in 1 .. Len(s)
    PROVE  Tracked(RemoveAt(s, k), n, f \ {s[k]})
<1> DEFINE t == RemoveAt(s, k)
<1>1. s \in Seq(Nat) /\ Len(s) \in Nat /\ \A i \in 1 .. Len(s) : s[i] \in Nat
    BY DEF Tracked
<1> DEFINE before == SubSeq(s, 1, k - 1)
           after == SubSeq(s, k + 1, Len(s))
<1>2. /\ before \in Seq(Nat) /\ Len(before) = k - 1
      /\ \A i \in 1 .. k - 1 : before[i] = s[i]
    BY <1>1, SubSeqProperties
<1>3. /\ after \in Seq(Nat) /\ Len(after) = Len(s) - k
      /\ \A i \in 1 .. Len(s) - k : after[i] = s[k + i]
    BY <1>1, SubSeqProperties
<1>4. t = before \o after
    BY DEF RemoveAt
<1> HIDE DEF t, before, after
<1>5. /\ t \in Seq(Nat) /\ Len(t) = Len(before) + Len(after)
      /\ \A i \in 1 .. Len(before) + Len(after) :
            t[i] = IF i <= Len(before) THEN before[i] ELSE after[i - Len(before)]
    BY <1>2, <1>3, <1>4, ConcatProperties
<1>6. Len(t) = Len(s) - 1
    BY <1>1, <1>2, <1>3, <1>5
<1>7. ASSUME NEW i \in 1 .. Len(t) PROVE t[i] = IF i < k THEN s[i] ELSE s[i + 1]
    <2>1. CASE i < k
        BY <2>1, <1>1, <1>2, <1>3, <1>5
    <2>2. CASE ~(i < k)
        <3>1. i - (k - 1) \in 1 .. Len(s) - k
            BY <2>2, <1>1, <1>6
        <3>2. t[i] = after[i - (k - 1)]
            BY <2>2, <1>1, <1>2, <1>3, <1>5, <1>6
        <3>3. after[i - (k - 1)] = s[k + (i - (k - 1))]
            BY <3>1, <1>3
        <3>4. k + (i - (k - 1)) = i + 1
            BY <1>1
        <3> QED BY <2>2, <3>2, <3>3, <3>4
    <2> QED BY <2>1, <2>2
<1>8. Len(t) <= MaxFailures
    BY <1>1, <1>6, SessionBounds DEF Tracked
<1> DEFINE was(i) == IF i < k THEN i ELSE i + 1
<1>9. \A i \in 1 .. Len(t) : was(i) \in 1 .. Len(s) /\ t[i] = s[was(i)]
    <2>1. ASSUME NEW i \in 1 .. Len(t) PROVE was(i) \in 1 .. Len(s)
        BY <1>1, <1>6
    <2> QED BY <2>1, <1>7
<1>10. \A i, j \in 1 .. Len(t) : was(i) = was(j) => i = j
    OBVIOUS
<1> HIDE DEF was
<1>11. \A i \in 1 .. Len(t) : t[i] <= n
    BY <1>9 DEF Tracked
<1>12. \A i, j \in 1 .. Len(t) : t[i] = t[j] => i = j
    BY <1>9, <1>10 DEF Tracked
<1>13. ToSet(t) = f \ {s[k]}
    <2>1. ToSet(t) = {t[i] : i \in 1 .. Len(t)} /\ f = {s[i] : i \in 1 .. Len(s)}
        BY <1>1, <1>5, ToSetIs DEF Tracked
    <2>2. ASSUME NEW x \in ToSet(t) PROVE x \in f \ {s[k]}
        <3>1. PICK i \in 1 .. Len(t) : x = t[i]
            BY <2>1
        <3>2. PICK j \in 1 .. Len(s) : j # k /\ x = s[j]
            <4>1. CASE i < k
                BY <4>1, <3>1, <1>1, <1>6, <1>7
            <4>2. CASE ~(i < k)
                <5>1. i + 1 \in 1 .. Len(s) /\ i + 1 # k
                    BY <4>2, <1>1, <1>6
                <5> QED BY <5>1, <4>2, <3>1, <1>7
            <4> QED BY <4>1, <4>2
        <3>3. s[j] # s[k]
            BY <3>2 DEF Tracked
        <3> QED BY <2>1, <3>2, <3>3
    <2>3. ASSUME NEW x \in f \ {s[k]} PROVE x \in ToSet(t)
        <3>1. PICK j \in 1 .. Len(s) : x = s[j] /\ j # k
            BY <2>1
        <3>2. CASE j < k
            <4>1. j \in 1 .. Len(t) /\ t[j] = x
                BY <3>1, <3>2, <1>1, <1>6, <1>7
            <4> QED BY <4>1, <2>1
        <3>3. CASE j > k
            <4>1. j - 1 \in 1 .. Len(t) /\ ~(j - 1 < k) /\ (j - 1) + 1 = j
                BY <3>3, <1>1, <1>6
            <4>2. t[j - 1] = x
                BY <3>1, <4>1, <1>7
            <4> QED BY <4>1, <4>2, <2>1
        <3> QED BY <3>1, <3>2, <3>3, <1>1
    <2> QED BY <2>2, <2>3
<1>14. Tracked(t, n, f \ {s[k]})
    BY <1>5, <1>8, <1>11, <1>12, <1>13 DEF Tracked
<1> QED BY <1>14 DEF t

LEMMA TrackedReleased ==
    ASSUME NEW s, NEW n \in Nat, NEW f, Tracked(s, n, f), NEW a
    PROVE  Tracked(Released(s, a), n, f \ {a})
<1>1. s \in Seq(Nat) /\ DOMAIN s = 1 .. Len(s)
    BY DEF Tracked
<1>2. CASE a \in ToSet(s)
    <2> DEFINE k == CHOOSE i \in DOMAIN s : s[i] = a
    <2>1. \E i \in DOMAIN s : s[i] = a
        BY <1>2 DEF ToSet
    <2>2. k \in 1 .. Len(s) /\ s[k] = a
        BY <1>1, <2>1
    <2>3. Released(s, a) = RemoveAt(s, k)
        BY <1>2 DEF Released
    <2> HIDE DEF k
    <2> QED BY <2>2, <2>3, TrackedRemove
<1>3. CASE a \notin ToSet(s)
    <2>1. Released(s, a) = s /\ f \ {a} = f
        BY <1>3 DEF Released, Tracked
    <2> QED BY <2>1
<1> QED BY <1>2, <1>3

LEMMA TrackedTail ==
    ASSUME NEW s, NEW n \in Nat, NEW f, Tracked(s, n, f), s # <<>>
    PROVE  Tracked(Tail(s), n, f \ {Head(s)})
<1>1. s \in Seq(Nat) /\ 1 \in 1 .. Len(s)
    BY DEF Tracked
<1>2. Tail(s) = SubSeq(s, 2, Len(s)) /\ Head(s) = s[1]
    BY <1>1, TailIsSubSeq
<1>3. RemoveAt(s, 1) = Tail(s)
    <2>1. SubSeq(s, 1, 0) = <<>>
        BY SubSeqEmpty
    <2>2. <<>> \o Tail(s) = Tail(s)
        BY <1>1, ConcatEmptySeq, HeadTailProperties
    <2> QED BY <1>2, <2>1, <2>2 DEF RemoveAt
<1>4. Tracked(RemoveAt(s, 1), n, f \ {s[1]})
    BY <1>1, TrackedRemove
<1> QED BY <1>2, <1>3, <1>4

\* Nothing is recorded or forgotten in the client's list.
LEMMA ThrottleUntouched ==
    ASSUME ThrottleInv, UNCHANGED <<attempts, failed>>, stamps' \in [Keys -> Seq(Nat)],
           stamps'["ip"] = stamps["ip"]
    PROVE  ThrottleInv'
    BY DEF ThrottleInv, Tracked

LEMMA StampedIs ==
    ASSUME ThrottleInv, NEW ks \in SUBSET Keys
    PROVE  /\ Stamped(ks) \in [Keys -> Seq(Nat)]
           /\ "ip" \notin ks => Stamped(ks)["ip"] = stamps["ip"]
           /\ "ip" \in ks /\ ~IsBlocked(stamps, "ip") =>
                Stamped(ks)["ip"] = Append(stamps["ip"], attempts + 1)
<1>1. "ip" \in Keys /\ attempts + 1 \in Nat
    BY DEF Keys, ThrottleInv
<1>2. ASSUME NEW k \in Keys
      PROVE  LET s == Append(stamps[k], attempts + 1)
             IN  SubSeq(s, IF Len(s) > MaxFailures THEN 2 ELSE 1, Len(s)) \in Seq(Nat)
    <2> DEFINE s == Append(stamps[k], attempts + 1)
               m == IF Len(s) > MaxFailures THEN 2 ELSE 1
    <2>1. stamps[k] \in Seq(Nat)
        BY DEF ThrottleInv
    <2>2. s \in Seq(Nat) /\ Len(s) \in Nat
        BY <1>1, <2>1, AppendProperties
    <2>3. m \in Int /\ m >= 1
        OBVIOUS
    <2> HIDE DEF s, m
    <2>4. \A i \in m .. Len(s) : s[i] \in Nat
        BY <2>2, <2>3
    <2>5. SubSeq(s, m, Len(s)) \in Seq(Nat)
        BY <2>2, <2>3, <2>4, SubSeqProperties
    <2> QED BY <2>5 DEF s, m
<1>3. Stamped(ks) \in [Keys -> Seq(Nat)]
    BY <1>2 DEF Stamped, ThrottleInv
<1>4. ASSUME "ip" \in ks, ~IsBlocked(stamps, "ip")
      PROVE  Stamped(ks)["ip"] = Append(stamps["ip"], attempts + 1)
    <2> DEFINE s == Append(stamps["ip"], attempts + 1)
    <2>1. stamps["ip"] \in Seq(Nat) /\ Len(stamps["ip"]) < MaxFailures
        BY <1>1, <1>4, SessionBounds DEF IsBlocked, ThrottleInv
    <2>2. s \in Seq(Nat) /\ Len(s) = Len(stamps["ip"]) + 1
        BY <1>1, <2>1, AppendProperties
    <2>3. ~(Len(s) > MaxFailures)
        BY <2>1, <2>2, SessionBounds
    <2>4. SubSeq(s, 1, Len(s)) = s
        BY <2>2, SubSeqFull
    <2>5. Stamped(ks)["ip"] = SubSeq(s, IF Len(s) > MaxFailures THEN 2 ELSE 1, Len(s))
        BY <1>1, <1>4 DEF Stamped
    <2> QED BY <2>3, <2>4, <2>5
<1> QED BY <1>1, <1>3, <1>4 DEF Stamped

\* Both budgets are reserved at once, and the client's has room for the attempt.
LEMMA LoginKeepsThrottle ==
    ASSUME ThrottleInv, NEW c \in Callers, NEW pw \in Passwords, Login(c, pw)
    PROVE  ThrottleInv'
<1>1. PICK ks \in SUBSET Keys : "ip" \in ks /\ stamps' = Stamped(ks)
    BY DEF Login, AdmitLogin, Keys
<1>2. /\ stamps' \in [Keys -> Seq(Nat)]
      /\ stamps'["ip"] = Append(stamps["ip"], attempts + 1)
    BY <1>1, StampedIs DEF Login
<1>3. Len(stamps["ip"]) < MaxFailures
    <2>1. stamps["ip"] \in Seq(Nat)
        BY DEF ThrottleInv, Keys
    <2> QED BY <2>1, SessionBounds DEF Login, IsBlocked
<1>4. Tracked(stamps'["ip"], attempts + 1, failed \union {attempts + 1})
    BY <1>2, <1>3, TrackedAppend DEF ThrottleInv
<1>5. attempts' = attempts + 1 /\ failed' = failed \union {attempts + 1}
    BY DEF Login
<1> QED BY <1>2, <1>4, <1>5 DEF ThrottleInv

LEMMA RegisterKeepsThrottle ==
    ASSUME ThrottleInv, NEW c \in Callers, NEW pw \in Passwords, Register(c, pw)
    PROVE  ThrottleInv'
<1>1. /\ stamps' \in [Keys -> Seq(Nat)] /\ stamps'["ip"] = stamps["ip"]
      /\ attempts' = attempts + 1 /\ UNCHANGED failed
    BY StampedIs DEF Register, Keys
<1>2. Tracked(stamps["ip"], attempts + 1, failed)
    BY TrackedLater DEF ThrottleInv
<1> QED BY <1>1, <1>2 DEF ThrottleInv

\* A sign-in takes back its own attempt.
LEMMA VerifyKeepsThrottle ==
    ASSUME ThrottleInv, NEW c \in Callers, Verify(c)
    PROVE  ThrottleInv'
<1>1. CASE UNCHANGED <<stamps, failed>>
    BY <1>1, ThrottleUntouched DEF Verify, ThrottleInv
<1>2. CASE stamps' = Forgive(caller[c].attempt) /\ failed' = failed \ {caller[c].attempt}
    <2> DEFINE a == caller[c].attempt
    <2>1. Tracked(Released(stamps["ip"], a), attempts, failed \ {a})
        BY TrackedReleased DEF ThrottleInv
    <2>2. Released(stamps["ip"], a) \in Seq(Nat) /\ <<>> \in Seq(Nat)
        BY <2>1 DEF Tracked
    <2>3. /\ stamps' \in [Keys -> Seq(Nat)]
          /\ stamps'["ip"] = Released(stamps["ip"], a)
        BY <1>2, <2>2 DEF Forgive, ThrottleInv, Keys
    <2> QED BY <1>2, <2>1, <2>3 DEF ThrottleInv, Verify
<1> QED BY <1>1, <1>2 DEF Verify

LEMMA ExpireKeepsThrottle ==
    ASSUME ThrottleInv, NEW k \in Keys, Expire(k)
    PROVE  ThrottleInv'
<1>1. stamps[k] \in Seq(Nat) /\ stamps[k] # <<>>
    BY DEF Expire, ThrottleInv
<1>2. stamps' = [stamps EXCEPT ![k] = Tail(stamps[k])] /\ UNCHANGED attempts
    BY DEF Expire
<1>3. stamps' \in [Keys -> Seq(Nat)]
    BY <1>1, <1>2, HeadTailProperties DEF ThrottleInv
<1>4. CASE k = "ip"
    <2>1. Tracked(Tail(stamps["ip"]), attempts, failed \ {Head(stamps["ip"])})
        BY <1>1, <1>4, TrackedTail DEF ThrottleInv
    <2>2. stamps'["ip"] = Tail(stamps["ip"])
        BY <1>2, <1>4 DEF ThrottleInv, Keys
    <2>3. failed' = failed \ {Head(stamps["ip"])}
        BY <1>4 DEF Expire
    <2> QED BY <1>2, <1>3, <2>1, <2>2, <2>3 DEF ThrottleInv
<1>5. CASE k # "ip"
    <2>1. stamps'["ip"] = stamps["ip"]
        BY <1>2, <1>5 DEF ThrottleInv, Keys
    <2> QED BY <1>2, <1>3, <1>5, <2>1, ThrottleUntouched DEF Expire
<1> QED BY <1>4, <1>5

LEMMA NoStamps ==
    ASSUME NEW n \in Nat
    PROVE  /\ [k \in Keys |-> <<>>] \in [Keys -> Seq(Nat)]
           /\ Tracked([k \in Keys |-> <<>>]["ip"], n, {})
<1>1. [k \in Keys |-> <<>>]["ip"] = <<>>
    BY DEF Keys
<1> QED BY <1>1, TrackedNone

THEOREM ThrottleIsInvariant == SessionSpec => []ThrottleInv
<1>1. SessionInit => ThrottleInv
    <2> SUFFICES ASSUME SessionInit PROVE ThrottleInv
        OBVIOUS
    <2> QED BY NoStamps DEF SessionInit, ThrottleInv
<1>2. ThrottleInv /\ [SessionNext]_sessionVars => ThrottleInv'
    <2> SUFFICES ASSUME ThrottleInv, [SessionNext]_sessionVars PROVE ThrottleInv'
        OBVIOUS
    <2>1. CASE UNCHANGED <<stamps, attempts, failed>>
        BY <2>1, ThrottleUntouched DEF ThrottleInv
    <2>2. CASE Restart
        BY <2>2, NoStamps DEF Restart, ThrottleInv
    <2>3. ASSUME NEW c \in Callers, NEW pw \in Passwords, Register(c, pw) \/ Login(c, pw)
          PROVE  ThrottleInv'
        BY <2>3, RegisterKeepsThrottle, LoginKeepsThrottle
    <2>4. ASSUME NEW c \in Callers, Verify(c) PROVE ThrottleInv'
        BY <2>4, VerifyKeepsThrottle
    <2>5. ASSUME NEW k \in Keys, Expire(k) PROVE ThrottleInv'
        BY <2>5, ExpireKeepsThrottle
    <2>6. ASSUME NEW c \in Callers,
                 \/ Hashed(c) \/ Insert(c) \/ FirstToken(c) \/ Find(c) \/ Touch(c)
                 \/ Prove(c) \/ Rehash(c) \/ SetPassword(c) \/ Reread(c) \/ Cancel(c)
          PROVE  UNCHANGED <<stamps, attempts, failed>>
        BY <2>6 DEF Hashed, Insert, FirstToken, Find, Touch, Prove, Rehash, SetPassword,
                    Reread, Cancel
    <2>7. ASSUME NEW c \in Callers, NEW t \in tokens, NEW pw \in Passwords,
                 NEW new \in Passwords, Change(c, t, pw, new)
          PROVE  UNCHANGED <<stamps, attempts, failed>>
        BY <2>7 DEF Change
    <2>8. ASSUME NEW t \in tokens, Refresh(t) PROVE UNCHANGED <<stamps, attempts, failed>>
        BY <2>8 DEF Refresh
    <2>9. ASSUME RecoveryPasses \/ OrphanEnds \/ UNCHANGED sessionVars
          PROVE  UNCHANGED <<attempts, failed, stamps>>
        BY <2>9 DEF RecoveryPasses, OrphanEnds, sessionVars
    <2> QED BY <2>1, <2>2, <2>3, <2>4, <2>5, <2>6, <2>7, <2>8, <2>9 DEF SessionNext
<1> QED BY <1>1, <1>2, PTL DEF SessionSpec

\* "Success releases only its own IP reservation, preserving earlier and concurrent
\* failed attempts" (routers/auth.py:378-379), however many requests sign in, fail,
\* are cancelled or are forgotten in between.
THEOREM FailuresCount == SessionSpec => []FailuresStayCounted
<1>1. ThrottleInv => FailuresStayCounted
    BY DEF ThrottleInv, Tracked, FailuresStayCounted
<1> QED BY <1>1, ThrottleIsInvariant, PTL

\* A token that still verifies and comes from a sign-in was given for the present
\* password, also while a registration or a change has committed and not yet read its
\* row again, however many requests change it meanwhile (user_repository.py:106-109).
THEOREM SignInIsInvariant == SessionSpec => []SignInInv
<1>1. SessionInit => SignInInv
    BY NoRequestShows DEF SessionInit, SignInInv
<1>2. SignInInv /\ ThrottleInv /\ [SessionNext]_sessionVars => SignInInv'
    <2> SUFFICES ASSUME SignInInv, ThrottleInv, [SessionNext]_sessionVars PROVE SignInInv'
        OBVIOUS
    <2>1. ASSUME NEW c \in Callers, NEW pw \in Passwords, Register(c, pw) \/ Login(c, pw)
          PROVE  SignInInv'
        BY <2>1, RegisterKeepsSignIns, LoginKeepsSignIns DEF ThrottleInv
    <2>2. ASSUME NEW c \in Callers, NEW t \in tokens, NEW pw \in Passwords,
                 NEW new \in Passwords, Change(c, t, pw, new)
          PROVE  SignInInv'
        BY <2>2, ChangeKeepsSignIns
    <2>3. ASSUME NEW c \in Callers,
                 \/ Hashed(c) \/ Insert(c) \/ FirstToken(c) \/ Find(c) \/ Verify(c) \/ Touch(c)
                 \/ Prove(c) \/ Rehash(c) \/ SetPassword(c) \/ Reread(c) \/ Cancel(c)
          PROVE  SignInInv'
        BY <2>3, WorkKeepsSignIns, InsertKeepsSignIns, FirstTokenKeepsSignIns, FindKeepsSignIns,
           TouchKeepsSignIns, SetPasswordKeepsSignIns, RereadKeepsSignIns
    <2>4. ASSUME NEW t \in tokens, Refresh(t) PROVE SignInInv'
        BY <2>4, RefreshKeepsSignIns
    <2>5. CASE UNCHANGED <<account, tokens, caller>>
        BY <2>5, NothingSignsIn
    <2>6. ASSUME NEW k \in Keys, Expire(k) PROVE UNCHANGED <<account, tokens, caller>>
        BY <2>6 DEF Expire
    <2>7. ASSUME RecoveryPasses \/ OrphanEnds \/ UNCHANGED sessionVars
          PROVE  UNCHANGED <<account, tokens, caller>>
        BY <2>7 DEF RecoveryPasses, OrphanEnds, sessionVars
    <2>8. CASE Restart
        BY <2>8, NoRequestShows DEF Restart, SignInInv, TokenShows, RequestShows, RowShows
    <2> QED BY <2>1, <2>2, <2>3, <2>4, <2>5, <2>6, <2>7, <2>8 DEF SessionNext
<1> QED BY <1>1, <1>2, ThrottleIsInvariant, PTL DEF SessionSpec

\* What it says of the tokens alone: no sign-in shows a password that was changed.
THEOREM SignInsShow == SessionSpec => []SignInsShowThePassword
<1>1. SignInInv => SignInsShowThePassword
    BY DEF SignInInv, TokenShows, SignInsShowThePassword, Valid
<1> QED BY <1>1, SignInIsInvariant, PTL

-----------------------------------------------------------------------------
(* The pool of password work. *)

AtWork == {c \in Callers : caller[c].step \in Working}

\* Inductive: a slot is taken before its work is handed to a thread and given back
\* when the thread is done, whether or not anybody still waits for it.
SlotInv ==
    /\ orphans \in Nat
    /\ caller \in [Callers -> Requests]
    /\ taken = orphans + Cardinality(AtWork)
    /\ taken <= Slots

Busy(r) == IF r.step \in Working THEN 1 ELSE 0

\* What the working set becomes when one request moves.
LEMMA WorkChanges ==
    ASSUME caller \in [Callers -> Requests], NEW c \in Callers, NEW r \in Requests,
           caller' = [caller EXCEPT ![c] = r]
    PROVE  /\ caller' \in [Callers -> Requests]
           /\ Cardinality(AtWork) \in Nat
           /\ Cardinality(AtWork)' = Cardinality(AtWork) + Busy(r) - Busy(caller[c])
<1>1. IsFiniteSet(AtWork) /\ Cardinality(AtWork) \in Nat
    BY CallersAreFinite, FS_Subset, FS_CardinalityType DEF AtWork
<1>2. /\ caller' \in [Callers -> Requests]
      /\ \A d \in Callers : caller'[d] = IF d = c THEN r ELSE caller[d]
    OBVIOUS
<1>3. AtWork' = IF r.step \in Working THEN AtWork \union {c} ELSE AtWork \ {c}
    BY <1>2 DEF AtWork
<1>4. c \in AtWork <=> caller[c].step \in Working
    BY DEF AtWork
<1>5. c \in AtWork => AtWork \union {c} = AtWork
    OBVIOUS
<1>6. c \notin AtWork => AtWork \ {c} = AtWork
    OBVIOUS
<1>7. c \notin AtWork => Cardinality(AtWork \union {c}) = Cardinality(AtWork) + 1
    BY <1>1, FS_AddElement
<1>8. c \in AtWork => Cardinality(AtWork \ {c}) = Cardinality(AtWork) - 1
    BY <1>1, FS_RemoveElement
<1>9. /\ Busy(r) = IF r.step \in Working THEN 1 ELSE 0
      /\ Busy(caller[c]) = IF c \in AtWork THEN 1 ELSE 0
    BY <1>4 DEF Busy
<1>10. Cardinality(AtWork)' = Cardinality(AtWork) + Busy(r) - Busy(caller[c])
    <2>1. CASE c \in AtWork /\ r.step \in Working
        <3>1. AtWork' = AtWork
            BY <2>1, <1>3, <1>5
        <3> QED BY <2>1, <3>1, <1>1, <1>9
    <2>2. CASE c \in AtWork /\ r.step \notin Working
        <3>1. AtWork' = AtWork \ {c}
            BY <2>2, <1>3
        <3> QED BY <2>2, <3>1, <1>1, <1>8, <1>9
    <2>3. CASE c \notin AtWork /\ r.step \in Working
        <3>1. AtWork' = AtWork \union {c}
            BY <2>3, <1>3
        <3> QED BY <2>3, <3>1, <1>1, <1>7, <1>9
    <2>4. CASE c \notin AtWork /\ r.step \notin Working
        <3>1. AtWork' = AtWork
            BY <2>4, <1>3, <1>6
        <3> QED BY <2>4, <3>1, <1>1, <1>9
    <2> QED BY <2>1, <2>2, <2>3, <2>4
<1> QED BY <1>1, <1>2, <1>10

\* A step of one request that takes a slot if and only if it begins to use one.
LEMMA SlotStep ==
    ASSUME SlotInv, NEW c \in Callers, NEW r \in Requests,
           caller' = [caller EXCEPT ![c] = r], orphans' \in Nat,
           taken' - orphans' = taken - orphans + Busy(r) - Busy(caller[c]),
           taken' \in Int, taken' <= Slots
    PROVE  SlotInv'
<1>1. /\ caller' \in [Callers -> Requests]
      /\ Cardinality(AtWork) \in Nat
      /\ Cardinality(AtWork)' = Cardinality(AtWork) + Busy(r) - Busy(caller[c])
    BY WorkChanges DEF SlotInv
<1>2. Busy(r) \in {0, 1} /\ Busy(caller[c]) \in {0, 1}
    BY DEF Busy
<1>3. orphans \in Nat /\ taken = orphans + Cardinality(AtWork)
    BY DEF SlotInv
<1>4. taken' = orphans' + Cardinality(AtWork)'
    BY <1>1, <1>2, <1>3
<1> QED BY <1>1, <1>4 DEF SlotInv

LEMMA SlotsUntouched ==
    ASSUME SlotInv, UNCHANGED <<caller, orphans, taken>>
    PROVE  SlotInv'
    BY DEF SlotInv, AtWork

\* What is known of the slots before any step.
LEMMA SlotFacts ==
    ASSUME SlotInv
    PROVE  /\ taken \in Nat /\ orphans \in Nat /\ Slots \in Nat
           /\ \A c \in Callers : caller[c].step \in Working => taken - 1 \in Nat
<1>1. IsFiniteSet(AtWork) /\ Cardinality(AtWork) \in Nat
    BY CallersAreFinite, FS_Subset, FS_CardinalityType DEF AtWork
<1>2. \A c \in Callers : caller[c].step \in Working => Cardinality(AtWork) # 0
    BY <1>1, FS_EmptySet DEF AtWork
<1> QED BY <1>1, <1>2, SessionBounds DEF SlotInv

\* A request goes on, from a step that works or does not to one that does or does not.
LEMMA GoesOn ==
    ASSUME SlotInv, NEW c \in Callers, NEW from, At(c, from), NEW step \in Steps,
           To(c, step), UNCHANGED orphans,
           taken' = taken + (IF step \in Working THEN 1 ELSE 0)
                          - (IF from \in Working THEN 1 ELSE 0),
           taken' <= Slots
    PROVE  SlotInv'
<1> DEFINE r == [caller[c] EXCEPT !.step = step]
<1>1. caller[c] \in Requests
    BY DEF SlotInv
<1>2. r \in Requests /\ r.step = step
    BY <1>1 DEF Requests
<1>3. caller' = [caller EXCEPT ![c] = r]
    BY DEF To
<1>4. Busy(r) = (IF step \in Working THEN 1 ELSE 0) /\ Busy(caller[c]) = (IF from \in Working THEN 1 ELSE 0)
    BY <1>2 DEF Busy, At
<1> HIDE DEF r
<1>5. taken' - orphans' = taken - orphans + Busy(r) - Busy(caller[c]) /\ taken' \in Int /\ orphans' \in Nat
    BY <1>4, SlotFacts
<1> QED BY <1>2, <1>3, <1>5, SlotStep

\* A request is over.
LEMMA GivesUp ==
    ASSUME SlotInv, NEW c \in Callers, Over(c), orphans' \in Nat,
           taken' - orphans' = taken - orphans - Busy(caller[c]),
           taken' \in Int, taken' <= Slots
    PROVE  SlotInv'
<1>1. NoRequest \in Requests /\ Busy(NoRequest) = 0
    BY NoRequestShows DEF Busy, NoRequest, Working
<1>2. caller' = [caller EXCEPT ![c] = NoRequest]
    BY DEF Over
<1>3. Busy(caller[c]) \in {0, 1}
    BY DEF Busy
<1>4. taken' - orphans' = taken - orphans + Busy(NoRequest) - Busy(caller[c])
    BY <1>1, <1>3, SlotFacts
<1> QED BY <1>1, <1>2, <1>4, SlotStep

LEMMA NewRequestKeepsSlots ==
    ASSUME SlotInv, attempts \in Nat, NEW c \in Callers, NEW pw \in Passwords,
           Register(c, pw) \/ Login(c, pw)
    PROVE  SlotInv'
<1>1. CASE UNCHANGED <<caller, taken>>
    BY <1>1, SlotsUntouched DEF Register, Login
<1>2. CASE Register(c, pw) /\ caller' = [caller EXCEPT ![c] =
              [NoRequest EXCEPT !.step = "hashing", !.pw = pw]] /\ taken < Slots /\ taken' = taken + 1
    <2> DEFINE r == [NoRequest EXCEPT !.step = "hashing", !.pw = pw]
    <2>1. r \in Requests /\ Busy(r) = 1
        BY DEF Requests, NoRequest, Steps, Working, Busy
    <2>2. Busy(caller[c]) = 0 /\ UNCHANGED orphans
        BY <1>2 DEF Register, Idle, Busy, Working
    <2> HIDE DEF r
    <2>3. /\ taken' - orphans' = taken - orphans + Busy(r) - Busy(caller[c])
          /\ taken' \in Int /\ taken' <= Slots /\ orphans' \in Nat
        BY <1>2, <2>1, <2>2, SlotFacts
    <2>4. caller' = [caller EXCEPT ![c] = r]
        BY <1>2 DEF r
    <2> QED BY <2>1, <2>3, <2>4, SlotStep
<1>3. CASE Login(c, pw)
    <2> DEFINE r == [NoRequest EXCEPT !.step = "finding", !.pw = pw, !.attempt = attempts + 1]
    <2>1. attempts + 1 \in Nat
        OBVIOUS
    <2>2. r \in Requests /\ Busy(r) = 0
        BY <2>1 DEF Requests, NoRequest, Steps, Working, Busy
    <2>3. Busy(caller[c]) = 0 /\ UNCHANGED <<orphans, taken>>
        BY <1>3 DEF Login, Idle, Busy, Working
    <2>4. caller' = [caller EXCEPT ![c] = r]
        BY <1>3 DEF Login
    <2> HIDE DEF r
    <2>5. /\ taken' - orphans' = taken - orphans + Busy(r) - Busy(caller[c])
          /\ taken' \in Int /\ taken' <= Slots /\ orphans' \in Nat
        BY <2>2, <2>3, SlotFacts DEF SlotInv
    <2> QED BY <2>2, <2>4, <2>5, SlotStep
<1> QED BY <1>1, <1>2, <1>3 DEF Register

LEMMA FindKeepsSlots ==
    ASSUME SlotInv, SignInInv, NEW c \in Callers, Find(c)
    PROVE  SlotInv'
<1>1. Busy(caller[c]) = 0 /\ UNCHANGED orphans
    BY DEF Find, At, Busy, Working
<1>2. CASE Over(c) /\ UNCHANGED taken
    BY <1>1, <1>2, SlotFacts, GivesUp DEF SlotInv
<1>3. CASE /\ account # Absent /\ taken < Slots /\ taken' = taken + 1
           /\ caller' = [caller EXCEPT ![c].step = "verifying", ![c].row = account]
    <2> DEFINE r == [caller[c] EXCEPT !.step = "verifying", !.row = account]
    <2>1. caller[c] \in Requests /\ account \in Rows
        BY <1>3 DEF SignInInv
    <2>2. r \in Requests /\ Busy(r) = 1
        BY <2>1 DEF Requests, Steps, Working, Busy
    <2>3. caller' = [caller EXCEPT ![c] = r]
        BY <1>3 DEF SlotInv
    <2> HIDE DEF r
    <2>4. /\ taken' - orphans' = taken - orphans + Busy(r) - Busy(caller[c])
          /\ taken' \in Int /\ taken' <= Slots /\ orphans' \in Nat
        BY <1>1, <1>3, <2>2, SlotFacts
    <2> QED BY <2>2, <2>3, <2>4, SlotStep
<1> QED BY <1>2, <1>3 DEF Find

LEMMA ChangeKeepsSlots ==
    ASSUME SlotInv, SignInInv, NEW c \in Callers, NEW t \in tokens,
           NEW pw \in Passwords, NEW new \in Passwords, Change(c, t, pw, new)
    PROVE  SlotInv'
<1> DEFINE r == [NoRequest EXCEPT !.step = "proving", !.pw = pw, !.new = new, !.row = account]
<1>1. account \in Rows
    BY DEF SignInInv, Change, Valid
<1>2. r \in Requests /\ Busy(r) = 1
    BY <1>1 DEF Requests, NoRequest, Steps, Working, Busy
<1>3. Busy(caller[c]) = 0 /\ UNCHANGED orphans /\ taken < Slots /\ taken' = taken + 1
    BY DEF Change, Idle, Busy, Working
<1>4. caller' = [caller EXCEPT ![c] = r]
    BY DEF Change
<1> HIDE DEF r
<1>5. /\ taken' - orphans' = taken - orphans + Busy(r) - Busy(caller[c])
      /\ taken' \in Int /\ taken' <= Slots /\ orphans' \in Nat
    BY <1>2, <1>3, SlotFacts
<1> QED BY <1>2, <1>4, <1>5, SlotStep

\* Work that ends gives its slot back, and so does work nobody waits for.
LEMMA RequestKeepsSlots ==
    ASSUME SlotInv, NEW c \in Callers,
           \/ Hashed(c) \/ Insert(c) \/ FirstToken(c) \/ Verify(c) \/ Touch(c) \/ Prove(c)
           \/ Rehash(c) \/ SetPassword(c) \/ Reread(c) \/ Cancel(c)
    PROVE  SlotInv'
<1>1. taken \in Nat /\ orphans \in Nat /\ Slots \in Nat /\ taken <= Slots
    BY SlotFacts DEF SlotInv
<1>2. CASE Hashed(c)
    <2>1. At(c, "hashing") /\ To(c, "inserting") /\ taken' = taken - 1 /\ UNCHANGED orphans
        BY <1>2 DEF Hashed
    <2>2. taken' = taken + 0 - 1 /\ taken' <= Slots
        BY <1>1, <2>1
    <2> QED BY <2>1, <2>2, GoesOn DEF Steps, Working
<1>3. CASE Rehash(c)
    <2>1. At(c, "rehashing") /\ To(c, "saving") /\ taken' = taken - 1 /\ UNCHANGED orphans
        BY <1>3 DEF Rehash
    <2>2. taken' = taken + 0 - 1 /\ taken' <= Slots
        BY <1>1, <2>1
    <2> QED BY <2>1, <2>2, GoesOn DEF Steps, Working
<1>4. CASE SetPassword(c)
    <2>1. At(c, "saving") /\ To(c, "rereading") /\ UNCHANGED <<taken, orphans>>
        BY <1>4 DEF SetPassword
    <2>2. taken' = taken + 0 - 0 /\ taken' <= Slots
        BY <1>1, <2>1
    <2> QED BY <2>1, <2>2, GoesOn DEF Steps, Working
<1>5. CASE Verify(c) /\ To(c, "touching")
    <2>1. At(c, "verifying") /\ To(c, "touching") /\ taken' = taken - 1 /\ UNCHANGED orphans
        BY <1>5 DEF Verify
    <2>2. taken' = taken + 0 - 1 /\ taken' <= Slots
        BY <1>1, <2>1
    <2> QED BY <2>1, <2>2, GoesOn DEF Steps, Working
<1>6. CASE Prove(c) /\ To(c, "rehashing") /\ UNCHANGED taken
    <2>1. At(c, "proving") /\ To(c, "rehashing") /\ UNCHANGED <<taken, orphans>>
        BY <1>6 DEF Prove
    <2>2. taken' = taken + 1 - 1 /\ taken' <= Slots
        BY <1>1, <2>1
    <2> QED BY <2>1, <2>2, GoesOn DEF Steps, Working
<1>7. CASE (Verify(c) \/ Prove(c)) /\ Over(c) /\ taken' = taken - 1
    <2>1. Busy(caller[c]) = 1 /\ UNCHANGED orphans
        BY <1>7 DEF Verify, Prove, At, Busy, Working
    <2>2. /\ taken' - orphans' = taken - orphans - Busy(caller[c])
          /\ taken' \in Int /\ taken' <= Slots /\ orphans' \in Nat
        BY <1>1, <1>7, <2>1
    <2> QED BY <1>7, <2>2, GivesUp
<1>8. CASE Insert(c) /\ To(c, "registered")
    <2>1. At(c, "inserting") /\ To(c, "registered") /\ UNCHANGED <<taken, orphans>>
        BY <1>8 DEF Insert
    <2>2. taken' = taken + 0 - 0 /\ taken' <= Slots
        BY <1>1, <2>1
    <2> QED BY <2>1, <2>2, GoesOn DEF Steps, Working
<1>10. CASE (Insert(c) /\ Over(c)) \/ FirstToken(c) \/ Touch(c) \/ Reread(c)
    <2>1. Over(c) /\ Busy(caller[c]) = 0 /\ UNCHANGED <<taken, orphans>>
        BY <1>10 DEF Insert, FirstToken, Touch, Reread, At, Busy, Working
    <2>2. /\ taken' - orphans' = taken - orphans - Busy(caller[c])
          /\ taken' \in Int /\ taken' <= Slots /\ orphans' \in Nat
        BY <1>1, <2>1
    <2> QED BY <2>1, <2>2, GivesUp
<1>9. CASE Cancel(c)
    <2>1. Over(c) /\ UNCHANGED taken /\ orphans' = orphans + Busy(caller[c])
        BY <1>1, <1>9 DEF Cancel, Busy
    <2>2. Busy(caller[c]) \in {0, 1}
        BY DEF Busy
    <2>3. /\ taken' - orphans' = taken - orphans - Busy(caller[c])
          /\ taken' \in Int /\ taken' <= Slots /\ orphans' \in Nat
        BY <1>1, <2>1, <2>2
    <2> QED BY <2>1, <2>3, GivesUp
<1> QED BY <1>2, <1>3, <1>4, <1>5, <1>6, <1>7, <1>8, <1>9, <1>10 DEF Insert, Verify, Prove

LEMMA NobodyWorks ==
    ASSUME NEW f, f = [c \in Callers |-> NoRequest]
    PROVE  f \in [Callers -> Requests] /\ {c \in Callers : f[c].step \in Working} = {}
    BY NoRequestShows DEF NoRequest, Working

THEOREM SlotsAreInvariant == SessionSpec => []SlotInv
<1>1. SessionInit => SlotInv
    <2> SUFFICES ASSUME SessionInit PROVE SlotInv
        OBVIOUS
    <2>1. caller \in [Callers -> Requests] /\ AtWork = {}
        BY NobodyWorks DEF SessionInit, AtWork
    <2> QED BY <2>1, FS_EmptySet, SessionBounds DEF SessionInit, SlotInv
<1>2. SlotInv /\ SignInInv /\ ThrottleInv /\ [SessionNext]_sessionVars => SlotInv'
    <2> SUFFICES ASSUME SlotInv, SignInInv, ThrottleInv, [SessionNext]_sessionVars
                 PROVE  SlotInv'
        OBVIOUS
    <2>1. ASSUME NEW c \in Callers, NEW pw \in Passwords, Register(c, pw) \/ Login(c, pw)
          PROVE  SlotInv'
        BY <2>1, NewRequestKeepsSlots DEF ThrottleInv
    <2>2. ASSUME NEW c \in Callers, NEW t \in tokens, NEW pw \in Passwords,
                 NEW new \in Passwords, Change(c, t, pw, new)
          PROVE  SlotInv'
        BY <2>2, ChangeKeepsSlots
    <2>3. ASSUME NEW c \in Callers,
                 \/ Hashed(c) \/ Insert(c) \/ FirstToken(c) \/ Find(c) \/ Verify(c) \/ Touch(c)
                 \/ Prove(c) \/ Rehash(c) \/ SetPassword(c) \/ Reread(c) \/ Cancel(c)
          PROVE  SlotInv'
        BY <2>3, RequestKeepsSlots, FindKeepsSlots
    <2>4. CASE UNCHANGED <<caller, orphans, taken>>
        BY <2>4, SlotsUntouched
    <2>5. ASSUME NEW t \in tokens, Refresh(t) PROVE UNCHANGED <<caller, orphans, taken>>
        BY <2>5 DEF Refresh
    <2>6. ASSUME NEW k \in Keys, Expire(k) PROVE UNCHANGED <<caller, orphans, taken>>
        BY <2>6 DEF Expire
    <2>7. ASSUME RecoveryPasses \/ UNCHANGED sessionVars
          PROVE  UNCHANGED <<caller, orphans, taken>>
        BY <2>7 DEF RecoveryPasses, sessionVars
    <2>8. CASE OrphanEnds
        <3>1. AtWork' = AtWork
            BY <2>8 DEF OrphanEnds, AtWork
        <3>2. Cardinality(AtWork) \in Nat
            BY CallersAreFinite, FS_Subset, FS_CardinalityType DEF AtWork
        <3> QED BY <2>8, <3>1, <3>2, SlotFacts DEF OrphanEnds, SlotInv
    <2>9. CASE Restart
        <3>1. caller' \in [Callers -> Requests] /\ AtWork' = {}
            BY <2>9, NobodyWorks DEF Restart, AtWork
        <3> QED BY <2>9, <3>1, FS_EmptySet, SessionBounds DEF Restart, SlotInv
    <2> QED BY <2>1, <2>2, <2>3, <2>4, <2>5, <2>6, <2>7, <2>8, <2>9 DEF SessionNext
<1> QED BY <1>1, <1>2, SignInIsInvariant, ThrottleIsInvariant, PTL DEF SessionSpec

\* "Neither the executor nor cancelled requests may create an unbounded queue"
\* (routers/auth.py:75-76): the slots taken are the work that is running, and there
\* is never more of it than slots.
THEOREM SlotsBoundTheWork == SessionSpec => [](SlotsAreWork /\ taken <= Slots)
<1>1. SlotInv => SlotsAreWork /\ taken <= Slots
    BY DEF SlotInv, SlotsAreWork, AtWork
<1> QED BY <1>1, SlotsAreInvariant, PTL

\* Both limits on sign-ins at once: the attempts that count are those that failed or
\* are under way, the slots taken are the work that runs (routers/auth.py:75-76,
\* 378-379).
THEOREM LimitsCount == SessionSpec => []LimitsCountTheWork
<1>1. FailuresStayCounted /\ SlotsAreWork /\ taken <= Slots => LimitsCountTheWork
    BY DEF LimitsCountTheWork
<1> QED BY <1>1, FailuresCount, SlotsBoundTheWork, PTL

-----------------------------------------------------------------------------
(* What an account keeps. *)

ListAsk == [op : ListOperations, id : ListIds, name : Names, tickers : SUBSET Tickers]
NoteAsk == [op : {"note"}, id : EntryIds, text : Texts]
ListRows == [ListIds -> Lists \union {Nothing}]
EntryRows == [EntryIds -> Entries \union {Nothing}]
Transactions == [ask : ListAsk, rows : ListRows] \union [ask : NoteAsk, rows : EntryRows]

\* What somebody saw of entry i: the entry as it is, or an earlier version of it.
Seen(e, i) ==
    i \notin used =>
        /\ entries[i] # Nothing /\ e.version <= entries[i].version
        /\ e.version = entries[i].version => e = entries[i]

\* The transaction of the device that holds the lock works on what is stored, except
\* that entries may have been reviewed or deleted since it read them.
Fresh(d) ==
    tx[d] # Nothing =>
        /\ lock = d
        /\ tx[d].ask.op \in ListOperations => tx[d].rows = lists
        /\ tx[d].ask.op = "note" =>
            /\ Stored(entries) \subseteq Stored(tx[d].rows)
            /\ \A i \in Stored(tx[d].rows) : Seen(tx[d].rows[i], i)

DataTypes ==
    /\ lists \in ListRows /\ entries \in EntryRows
    /\ used \subseteq EntryIds
    /\ tx \in [Devices -> Transactions \union {Nothing}]
    /\ known \in [Devices -> EntryRows]

Knows == \A d \in Devices, i \in EntryIds : known[d][i] # Nothing => Seen(known[d][i], i)

\* Inductive.
DataInv ==
    /\ DataTypes
    /\ \A d \in Devices : Fresh(d)
    /\ Knows
    /\ LimitsHold

LEMMA StoredIs ==
    /\ \A rows \in ListRows : Stored(rows) = {i \in ListIds : rows[i] # Nothing}
    /\ \A rows \in EntryRows : Stored(rows) = {i \in EntryIds : rows[i] # Nothing}
    BY DEF Stored, ListRows, EntryRows

LEMMA StoredIsFinite ==
    /\ \A rows \in ListRows : IsFiniteSet(Stored(rows)) /\ Cardinality(Stored(rows)) \in Nat
    /\ \A rows \in EntryRows : IsFiniteSet(Stored(rows)) /\ Cardinality(Stored(rows)) \in Nat
    BY DataIsFinite, StoredIs, FS_Subset, FS_CardinalityType

\* One more row, or a row replaced: at most one row more is stored.
LEMMA OneMore ==
    ASSUME NEW S, IsFiniteSet(S), NEW i, NEW T, T \subseteq S \union {i}
    PROVE  IsFiniteSet(T) /\ Cardinality(T) <= Cardinality(S) + 1 /\ Cardinality(S) \in Nat
<1>1. /\ IsFiniteSet(S \union {i}) /\ Cardinality(S) \in Nat
      /\ Cardinality(S \union {i}) <= Cardinality(S) + 1
    BY FS_AddElement, FS_CardinalityType
<1>2. IsFiniteSet(T) /\ Cardinality(T) \in Nat /\ Cardinality(T) <= Cardinality(S \union {i})
    BY <1>1, FS_Subset, FS_CardinalityType
<1>3. Cardinality(S \union {i}) \in Nat
    BY <1>1, FS_CardinalityType
<1> QED BY <1>1, <1>2, <1>3

LEMMA NothingFacts ==
    /\ \A l \in Lists : l # Nothing
    /\ \A e \in Entries : e # Nothing /\ e.version \in Nat
    BY NothingIsNoRow, DataBounds DEF Entries

\* The end of a transaction leaves none under way.
LEMMA NoneUnderWay ==
    ASSUME DataInv, NEW d \in Devices, tx[d] # Nothing, EndTransaction(d)
    PROVE  /\ tx' \in [Devices -> Transactions \union {Nothing}]
           /\ \A e \in Devices : Fresh(e)'
<1>1. \A e \in Devices : e # d => tx[e] = Nothing
    BY DEF DataInv, Fresh
<1>2. tx' = [tx EXCEPT ![d] = Nothing]
    BY DEF EndTransaction
<1>3. \A e \in Devices : tx'[e] = Nothing
    BY <1>1, <1>2 DEF DataInv, DataTypes
<1>4. tx' \in [Devices -> Transactions \union {Nothing}]
    BY <1>2 DEF DataInv, DataTypes
<1> QED BY <1>3, <1>4 DEF Fresh

\* An entry that anybody may have seen stays, or gets a later version, or is deleted
\* and its id used up.
EntriesMoveOn ==
    /\ used \subseteq used'
    /\ \A i \in EntryIds \ used' :
        entries[i] # Nothing =>
            /\ entries'[i] # Nothing
            /\ entries'[i] = entries[i] \/ entries'[i].version > entries[i].version

LEMMA SeenStays ==
    ASSUME DataInv, DataTypes', EntriesMoveOn,
           NEW i \in EntryIds, NEW e \in Entries, Seen(e, i)
    PROVE  Seen(e, i)'
<1> SUFFICES ASSUME i \notin used'
             PROVE  /\ entries'[i] # Nothing /\ e.version <= entries'[i].version
                    /\ e.version = entries'[i].version => e = entries'[i]
    BY DEF Seen
<1>1. /\ entries[i] # Nothing /\ e.version <= entries[i].version
      /\ e.version = entries[i].version => e = entries[i]
    BY DEF Seen, EntriesMoveOn
<1>2. /\ entries'[i] # Nothing
      /\ entries'[i] = entries[i] \/ entries'[i].version > entries[i].version
    BY <1>1 DEF EntriesMoveOn
<1>3. entries[i] \in Entries /\ entries'[i] \in Entries
    BY <1>1, <1>2 DEF DataInv, DataTypes, EntryRows
<1>4. e.version \in Nat /\ entries[i].version \in Nat /\ entries'[i].version \in Nat
    BY <1>3, NothingFacts
<1> QED BY <1>1, <1>2, <1>4

LEMMA KnowsStays ==
    ASSUME DataInv, DataTypes', EntriesMoveOn,
           \A d \in Devices, i \in EntryIds :
                known'[d][i] = known[d][i] \/ (known'[d][i] # Nothing => Seen(known[d][i], i)')
    PROVE  Knows'
<1>1. ASSUME NEW d \in Devices, NEW i \in EntryIds, known'[d][i] # Nothing
      PROVE  Seen(known[d][i], i)'
    <2>1. CASE known'[d][i] = known[d][i]
        <3>1. known[d][i] \in Entries /\ Seen(known[d][i], i)
            BY <1>1, <2>1 DEF DataInv, DataTypes, EntryRows, Knows
        <3>2. ASSUME NEW e, e = known[d][i] PROVE Seen(e, i)'
            BY <3>1, <3>2, SeenStays
        <3> QED BY <2>1, <3>2 DEF Seen
    <2> QED BY <1>1, <2>1 DEF Seen
<1> QED BY <1>1 DEF Knows

\* A device that begins holds the lock, and reads what is stored.
LEMMA BeginKeepsData ==
    ASSUME DataInv, NEW d \in Devices, NEW ask, NEW rows, Begin(d, ask, rows),
           \/ ask \in ListAsk /\ rows = lists
           \/ ask \in NoteAsk /\ rows = entries
    PROVE  DataInv'
<1> DEFINE t == [ask |-> ask, rows |-> rows]
<1>1. t \in Transactions
    BY DEF Transactions, DataInv, DataTypes
<1>2. tx' = [tx EXCEPT ![d] = t] /\ lock' = d /\ UNCHANGED <<lists, entries, used, known>>
    BY DEF Begin
<1>3. DataTypes'
    BY <1>1, <1>2 DEF DataInv, DataTypes
<1>4. \A e \in Devices : tx[e] = Nothing
    <2>1. lock = Nothing
        BY DEF Begin
    <2>2. Nothing \notin Devices
        BY DataBounds
    <2> QED BY <2>1, <2>2 DEF DataInv, Fresh
<1>5. ASSUME NEW e \in Devices PROVE Fresh(e)'
    <2>1. CASE e # d
        <3>1. tx'[e] = Nothing
            BY <1>2, <1>4, <2>1 DEF DataInv, DataTypes
        <3> QED BY <3>1 DEF Fresh
    <2>2. CASE e = d
        <3>1. tx'[e].ask = ask /\ tx'[e].rows = rows
            BY <1>2, <2>2 DEF DataInv, DataTypes
        <3>2. ask \in ListAsk => ask.op # "note"
            BY DEF ListAsk, ListOperations
        <3>3. ask \in NoteAsk => ask.op \notin ListOperations
            BY DEF NoteAsk, ListOperations
        <3>4. \A i \in Stored(entries) : Seen(entries[i], i)
            <4>1. \A i \in Stored(entries) : entries[i] # Nothing /\ entries[i] \in Entries
                BY StoredIs DEF DataInv, DataTypes, EntryRows
            <4> QED BY <4>1, NothingFacts DEF Seen
        <3> QED BY <1>2, <2>2, <3>1, <3>2, <3>3, <3>4 DEF Fresh, Seen, Stored
    <2> QED BY <2>1, <2>2
<1>6. Knows' /\ LimitsHold'
    BY <1>2 DEF DataInv, Knows, Seen, LimitsHold, Stored
<1> QED BY <1>3, <1>5, <1>6 DEF DataInv

LEMMA RollBackKeepsData ==
    ASSUME DataInv, NEW d \in Devices, RollBack(d)
    PROVE  DataInv'
<1>1. /\ tx[d] # Nothing /\ EndTransaction(d) /\ UNCHANGED <<lists, entries, used, known>>
    BY DEF RollBack
<1>2. Knows' /\ LimitsHold'
    BY <1>1 DEF DataInv, Knows, Seen, LimitsHold, Stored
<1> QED BY <1>1, <1>2, NoneUnderWay DEF DataInv, DataTypes

-----------------------------------------------------------------------------
ListLimits(rows) ==
    /\ \A i, j \in Stored(rows) : rows[i].name = rows[j].name => i = j
    /\ Cardinality(Stored(rows)) <= MaxLists
    /\ \A i \in Stored(rows) : Cardinality(rows[i].tickers) <= MaxTickers

\* What an operation makes of lists that are within their limits.
LEMMA NewListFits ==
    ASSUME lists \in ListRows, ListLimits(lists), NEW ask \in ListAsk, NewList(ask, lists)
    PROVE  lists' \in ListRows /\ ListLimits(lists)' /\ Stored(lists)' # {}
<1> DEFINE new == [name |-> ask.name, tickers |-> {}]
<1>1. new \in Lists /\ new # Nothing /\ ask.id \in ListIds
    BY NothingFacts DEF Lists, ListAsk
<1>2. lists' = [lists EXCEPT ![ask.id] = new]
    BY DEF NewList
<1>3. lists' \in ListRows
    BY <1>1, <1>2 DEF ListRows
<1>4. \A i \in ListIds : lists'[i] = IF i = ask.id THEN new ELSE lists[i]
    BY <1>2 DEF ListRows
<1>5. Stored(lists') = Stored(lists) \union {ask.id}
    BY <1>1, <1>3, <1>4, StoredIs
<1>6. Cardinality(Stored(lists')) <= MaxLists
    <2>1. Cardinality(Stored(lists)) < MaxLists
        BY DEF NewList
    <2>2. IsFiniteSet(Stored(lists))
        BY StoredIsFinite
    <2>3. /\ Cardinality(Stored(lists')) <= Cardinality(Stored(lists)) + 1
          /\ Cardinality(Stored(lists)) \in Nat /\ IsFiniteSet(Stored(lists'))
        BY <2>2, <1>5, OneMore
    <2>4. Cardinality(Stored(lists')) \in Nat
        BY <2>3, FS_CardinalityType
    <2> QED BY <2>1, <2>3, <2>4, DataBounds
<1>7. ASSUME NEW i \in Stored(lists'), NEW j \in Stored(lists'), lists'[i].name = lists'[j].name
      PROVE  i = j
    <2>1. \A k \in Stored(lists) \ {ask.id} : lists[k].name # ask.name
        BY DEF NewList, NameTaken
    <2>2. \A k \in Stored(lists') : k = ask.id \/ (k \in Stored(lists) \ {ask.id} /\ lists'[k] = lists[k])
        BY <1>4, <1>5, StoredIs
    <2>3. lists'[ask.id].name = ask.name
        BY <1>1, <1>4
    <2> QED BY <1>7, <2>1, <2>2, <2>3 DEF ListLimits
<1>8. ASSUME NEW i \in Stored(lists') PROVE Cardinality(lists'[i].tickers) <= MaxTickers
    <2>1. CASE i = ask.id
        <3>1. lists'[i].tickers = {}
            BY <2>1, <1>1, <1>4
        <3> QED BY <3>1, FS_EmptySet, DataBounds
    <2>2. CASE i # ask.id
        BY <2>2, <1>4, <1>5, StoredIs DEF ListLimits
    <2> QED BY <2>1, <2>2
<1> QED BY <1>3, <1>5, <1>6, <1>7, <1>8 DEF ListLimits

\* The operations on a list that is there keep the others as they are.
LEMMA KeptListFits ==
    ASSUME lists \in ListRows, ListLimits(lists), NEW id \in ListIds, lists[id] # Nothing,
           NEW new \in Lists, lists' = [lists EXCEPT ![id] = new],
           new.name # lists[id].name => \A i \in Stored(lists) \ {id} : lists[i].name # new.name,
           Cardinality(new.tickers) <= MaxTickers
    PROVE  lists' \in ListRows /\ ListLimits(lists)' /\ Stored(lists)' # {}
<1>1. lists' \in ListRows
    BY DEF ListRows
<1>2. \A i \in ListIds : lists'[i] = IF i = id THEN new ELSE lists[i]
    BY DEF ListRows
<1>3. Stored(lists') = Stored(lists) /\ id \in Stored(lists)
    <2>1. new # Nothing
        BY NothingFacts
    <2>2. Stored(lists') = {i \in ListIds : lists'[i] # Nothing}
        BY <1>1, StoredIs
    <2>3. Stored(lists) = {i \in ListIds : lists[i] # Nothing}
        BY StoredIs
    <2> QED BY <1>2, <2>1, <2>2, <2>3
<1>4. \A k \in Stored(lists) \ {id} : lists'[k] = lists[k] /\ lists[k].name # new.name
    <2>1. \A k \in Stored(lists) \ {id} : lists'[k] = lists[k]
        BY <1>2, StoredIs
    <2>2. CASE new.name # lists[id].name
        BY <2>1, <2>2
    <2>3. CASE new.name = lists[id].name
        BY <2>1, <2>3, <1>3 DEF ListLimits
    <2> QED BY <2>2, <2>3
<1>5. lists'[id] = new
    BY <1>2
<1>6. ASSUME NEW i \in Stored(lists'), NEW j \in Stored(lists'), lists'[i].name = lists'[j].name
      PROVE  i = j
    BY <1>3, <1>4, <1>5, <1>6 DEF ListLimits
<1>7. ASSUME NEW i \in Stored(lists') PROVE Cardinality(lists'[i].tickers) <= MaxTickers
    BY <1>3, <1>4, <1>5 DEF ListLimits
<1> QED BY <1>1, <1>3, <1>6, <1>7 DEF ListLimits

LEMMA DeleteListFits ==
    ASSUME lists \in ListRows, ListLimits(lists), NEW ask \in ListAsk,
           lists[ask.id] # Nothing, DeleteList(ask, lists)
    PROVE  lists' \in ListRows /\ ListLimits(lists)' /\ Stored(lists)' # {}
<1>1. ask.id \in ListIds /\ lists' = [lists EXCEPT ![ask.id] = Nothing]
    BY DEF ListAsk, DeleteList
<1>2. lists' \in ListRows
    BY <1>1 DEF ListRows
<1>3. \A i \in ListIds : lists'[i] = IF i = ask.id THEN Nothing ELSE lists[i]
    BY <1>1 DEF ListRows
<1>4. Stored(lists') = Stored(lists) \ {ask.id} /\ ask.id \in Stored(lists)
    BY <1>1, <1>2, <1>3, StoredIs
<1>5. IsFiniteSet(Stored(lists)) /\ Cardinality(Stored(lists)) \in Nat
    BY StoredIsFinite
<1>6. Cardinality(Stored(lists')) = Cardinality(Stored(lists)) - 1
    BY <1>4, <1>5, FS_RemoveElement
<1>7. Cardinality(Stored(lists')) <= MaxLists
    BY <1>5, <1>6, DataBounds DEF ListLimits
<1>8. Stored(lists') # {}
    <2>1. Cardinality(Stored(lists)) # 1
        BY DEF DeleteList
    <2> QED BY <2>1, <1>5, <1>6, FS_EmptySet
<1>9. \A i \in Stored(lists') : i \in Stored(lists) /\ lists'[i] = lists[i]
    BY <1>3, <1>4, StoredIs
<1> QED BY <1>2, <1>7, <1>8, <1>9 DEF ListLimits

LEMMA ListsChange ==
    ASSUME DataInv, NEW d \in Devices, ChangeList(d)
    PROVE  lists' \in ListRows /\ ListLimits(lists)' /\ (Stored(lists) # {} => Stored(lists)' # {})
<1> DEFINE ask == tx[d].ask
<1>1. /\ tx[d] # Nothing /\ ask.op \in ListOperations
      /\ \/ NewList(ask, tx[d].rows)
         \/ /\ lists[ask.id] # Nothing
            /\ \/ Rename(ask, tx[d].rows) \/ DeleteList(ask, tx[d].rows)
               \/ AddTickers(ask, tx[d].rows) \/ RemoveTickers(ask, tx[d].rows)
    BY DEF ChangeList
<1>2. tx[d].rows = lists
    BY <1>1 DEF DataInv, Fresh
<1>3. ask \in ListAsk
    <2>1. tx[d] \in Transactions
        BY <1>1 DEF DataInv, DataTypes
    <2>2. \A a \in NoteAsk : a.op \notin ListOperations
        BY DEF NoteAsk, ListOperations
    <2> QED BY <1>1, <2>1, <2>2 DEF Transactions
<1>4. lists \in ListRows /\ ListLimits(lists)
    BY DEF DataInv, DataTypes, LimitsHold, ListLimits
<1> HIDE DEF ask
<1>5. CASE NewList(ask, lists)
    BY <1>3, <1>4, <1>5, NewListFits
<1>6. CASE lists[ask.id] # Nothing /\ DeleteList(ask, lists)
    BY <1>3, <1>4, <1>6, DeleteListFits
<1>7. ASSUME lists[ask.id] # Nothing,
             Rename(ask, lists) \/ AddTickers(ask, lists) \/ RemoveTickers(ask, lists)
      PROVE  lists' \in ListRows /\ ListLimits(lists)' /\ Stored(lists)' # {}
    <2>1. /\ ask.id \in ListIds /\ ask.name \in Names /\ ask.tickers \subseteq Tickers
          /\ lists[ask.id] \in Lists
        BY <1>3, <1>4, <1>7 DEF ListAsk, ListRows
    <2>2. ask.id \in Stored(lists) /\ Cardinality(lists[ask.id].tickers) <= MaxTickers
        BY <1>4, <1>7, <2>1, StoredIs DEF ListLimits
    <2>3. CASE Rename(ask, lists)
        <3> DEFINE new == [lists[ask.id] EXCEPT !.name = ask.name]
        <3>1. new \in Lists /\ new.name = ask.name /\ new.tickers = lists[ask.id].tickers
            BY <2>1 DEF Lists
        <3>2. lists' = [lists EXCEPT ![ask.id] = new]
            BY <2>3 DEF Rename
        <3>3. \A i \in Stored(lists) \ {ask.id} : lists[i].name # new.name
            BY <2>3, <3>1 DEF Rename, NameTaken
        <3> HIDE DEF new
        <3> QED BY <1>4, <1>7, <2>1, <2>2, <3>1, <3>2, <3>3, KeptListFits
    <2>4. CASE AddTickers(ask, lists)
        <3> DEFINE new == [lists[ask.id] EXCEPT !.tickers = lists[ask.id].tickers \union ask.tickers]
        <3>1. new \in Lists /\ new.name = lists[ask.id].name
            BY <2>1 DEF Lists
        <3>2. lists' = [lists EXCEPT ![ask.id] = new] /\ Cardinality(new.tickers) <= MaxTickers
            BY <2>1, <2>4 DEF AddTickers, Lists
        <3> HIDE DEF new
        <3> QED BY <1>4, <1>7, <2>1, <3>1, <3>2, KeptListFits
    <2>5. CASE RemoveTickers(ask, lists)
        <3> DEFINE new == [lists[ask.id] EXCEPT !.tickers = lists[ask.id].tickers \ ask.tickers]
        <3>1. new \in Lists /\ new.name = lists[ask.id].name
            BY <2>1 DEF Lists
        <3>2. lists' = [lists EXCEPT ![ask.id] = new]
            BY <2>5 DEF RemoveTickers
        <3>3. Cardinality(new.tickers) <= MaxTickers
            <4>1. new.tickers = lists[ask.id].tickers \ ask.tickers
                BY <2>1 DEF Lists
            <4>2. IsFiniteSet(lists[ask.id].tickers)
                BY <2>1, DataIsFinite, FS_Subset DEF Lists
            <4>3. /\ Cardinality(new.tickers) <= Cardinality(lists[ask.id].tickers)
                  /\ Cardinality(new.tickers) \in Nat /\ Cardinality(lists[ask.id].tickers) \in Nat
                BY <4>1, <4>2, FS_Subset, FS_CardinalityType
            <4> QED BY <2>2, <4>3, DataBounds
        <3> HIDE DEF new
        <3> QED BY <1>4, <1>7, <2>1, <3>1, <3>2, <3>3, KeptListFits
    <2> QED BY <1>7, <2>3, <2>4, <2>5
<1> QED BY <1>1, <1>2, <1>5, <1>6, <1>7 DEF ask

LEMMA ChangeListKeepsData ==
    ASSUME DataInv, NEW d \in Devices, ChangeList(d)
    PROVE  DataInv'
<1>1. tx[d] # Nothing /\ EndTransaction(d) /\ UNCHANGED <<entries, used, known>>
    BY DEF ChangeList
<1>2. lists' \in ListRows /\ ListLimits(lists)'
    BY ListsChange
<1>3. LimitsHold'
    BY <1>1, <1>2 DEF LimitsHold, ListLimits, DataInv, Stored
<1>4. Knows'
    BY <1>1 DEF DataInv, Knows, Seen
<1> QED BY <1>1, <1>2, <1>3, <1>4, NoneUnderWay DEF DataInv, DataTypes

-----------------------------------------------------------------------------
\* An answer tells a device what it may have seen.
LEMMA AnswerIs ==
    ASSUME DataInv, NEW d \in Devices, NEW i \in EntryIds, NEW e \in Entries, Answer(d, i, e)
    PROVE  /\ known' \in [Devices -> EntryRows]
           /\ \A c \in Devices, j \in EntryIds :
                known'[c][j] = known[c][j] \/ (c = d /\ j = i /\ known'[c][j] = e)
<1>1. known \in [Devices -> EntryRows]
    BY DEF DataInv, DataTypes
<1>2. known' = known \/ known' = [known EXCEPT ![d][i] = e]
    BY DEF Answer
<1> QED BY <1>1, <1>2 DEF EntryRows

\* A creation finds its entry, or there is none: then nobody has seen one.
LEMMA CreateEntryKeepsData ==
    ASSUME DataInv, NEW d \in Devices, CreateEntry(d)
    PROVE  /\ DataInv'
           /\ \A i \in EntryIds \ used : entries[i] # Nothing => entries'[i] = entries[i]
<1> DEFINE i == tx[d].ask.id
           new == [text |-> tx[d].ask.text, review |-> Nothing, version |-> 1, by |-> d]
           rows == tx[d].rows
<1>1. /\ tx[d] # Nothing /\ EndTransaction(d) /\ UNCHANGED <<lists, used>>
      /\ tx[d].ask.op = "note"
    BY DEF CreateEntry
<1>2. tx[d].ask \in NoteAsk /\ rows \in EntryRows
    <2>1. tx[d] \in Transactions
        BY <1>1 DEF DataInv, DataTypes
    <2>2. \A a \in ListAsk : a.op # "note"
        BY DEF ListAsk, ListOperations
    <2> QED BY <1>1, <2>1, <2>2 DEF Transactions
<1>3. i \in EntryIds /\ new \in Entries
    BY <1>2, DataBounds DEF NoteAsk, Entries
<1>4. /\ Stored(entries) \subseteq Stored(rows)
      /\ \A j \in Stored(rows) : Seen(rows[j], j)
    BY <1>1 DEF DataInv, Fresh
<1>5. entries \in EntryRows /\ entries \in EntryRows
    BY DEF DataInv, DataTypes
<1> HIDE DEF new, i, rows
<1>6. CASE rows[i] # Nothing /\ Answer(d, i, rows[i]) /\ UNCHANGED entries
    <2>1. rows[i] \in Entries /\ Seen(rows[i], i)
        BY <1>2, <1>3, <1>4, <1>6, StoredIs DEF EntryRows
    <2>2. DataTypes'
        BY <1>1, <1>3, <1>6, <2>1, AnswerIs, NoneUnderWay DEF DataInv, DataTypes
    <2>3. EntriesMoveOn
        BY <1>1, <1>6 DEF EntriesMoveOn
    <2>4. ASSUME NEW c \in Devices, NEW j \in EntryIds
          PROVE  known'[c][j] = known[c][j] \/ (known'[c][j] # Nothing => Seen(known[c][j], j)')
        <3>1. known'[c][j] = known[c][j] \/ (j = i /\ known'[c][j] = rows[i])
            BY <1>3, <1>6, <2>1, AnswerIs
        <3> QED BY <1>1, <1>6, <2>1, <3>1 DEF Seen
    <2>5. Knows'
        BY <2>2, <2>3, <2>4, KnowsStays
    <2>6. LimitsHold'
        BY <1>1, <1>6 DEF DataInv, LimitsHold, Stored
    <2> QED BY <1>1, <1>6, <2>2, <2>5, <2>6, NoneUnderWay DEF DataInv
<1>7. CASE /\ rows[i] = Nothing /\ Cardinality(Stored(rows)) < MaxEntries
           /\ entries' = [entries EXCEPT ![i] = new] /\ Answer(d, i, new)
    <2>1. entries' \in EntryRows /\ \A j \in EntryIds : entries'[j] = IF j = i THEN new ELSE entries[j]
        BY <1>3, <1>5, <1>7 DEF EntryRows
    <2>2. entries[i] = Nothing
        BY <1>2, <1>3, <1>4, <1>5, <1>7, StoredIs
    <2>3. DataTypes'
        BY <1>1, <1>3, <1>7, <2>1, AnswerIs, NoneUnderWay DEF DataInv, DataTypes
    <2>4. EntriesMoveOn
        BY <1>1, <2>1, <2>2 DEF EntriesMoveOn
    <2>5. ASSUME NEW c \in Devices, NEW j \in EntryIds
          PROVE  known'[c][j] = known[c][j] \/ (known'[c][j] # Nothing => Seen(known[c][j], j)')
        <3>1. known'[c][j] = known[c][j] \/ (j = i /\ known'[c][j] = new)
            BY <1>3, <1>7, AnswerIs
        <3>2. new # Nothing /\ new.version \in Nat
            BY <1>3, NothingFacts
        <3>3. entries'[i] = new
            BY <1>3, <2>1
        <3> QED BY <3>1, <3>2, <3>3 DEF Seen
    <2>6. Knows'
        BY <2>3, <2>4, <2>5, KnowsStays
    <2>7. Cardinality(Stored(entries')) <= MaxEntries
        <3>1. Stored(entries') \subseteq Stored(rows) \union {i}
            BY <1>4, <1>5, <2>1, StoredIs
        <3>2. IsFiniteSet(Stored(rows))
            BY <1>2, StoredIsFinite
        <3>3. /\ Cardinality(Stored(entries')) <= Cardinality(Stored(rows)) + 1
              /\ Cardinality(Stored(rows)) \in Nat /\ IsFiniteSet(Stored(entries'))
            BY <3>1, <3>2, OneMore
        <3>4. Cardinality(Stored(entries')) \in Nat
            BY <3>3, FS_CardinalityType
        <3> QED BY <1>7, <3>3, <3>4, DataBounds
    <2>8. LimitsHold'
        BY <1>1, <2>7 DEF DataInv, LimitsHold, Stored
    <2>9. \A j \in EntryIds \ used : entries[j] # Nothing => entries'[j] = entries[j]
        BY <2>1, <2>2
    <2> QED BY <1>1, <2>3, <2>6, <2>8, <2>9, NoneUnderWay DEF DataInv
<1> QED BY <1>6, <1>7 DEF CreateEntry, i, new, rows

\* Outside a transaction the others' transactions may be under way: what they read
\* of the entries stays what somebody may have seen.
LEMMA EntryStepKeepsData ==
    ASSUME DataInv, UNCHANGED <<lists, lock, tx>>, DataTypes', EntriesMoveOn,
           Stored(entries)' \subseteq Stored(entries),
           \A d \in Devices, i \in EntryIds :
                known'[d][i] = known[d][i] \/ (known'[d][i] # Nothing => Seen(known[d][i], i)')
    PROVE  DataInv'
<1>1. Knows'
    BY KnowsStays
<1>2. ASSUME NEW d \in Devices, tx[d] # Nothing PROVE Fresh(d)'
    <2>1. CASE tx[d].ask.op = "note"
        <3>1. tx[d].rows \in EntryRows
            <4>1. tx[d] \in Transactions
                BY <1>2 DEF DataInv, DataTypes
            <4>2. \A a \in ListAsk : a.op # "note"
                BY DEF ListAsk, ListOperations
            <4> QED BY <2>1, <4>1, <4>2 DEF Transactions
        <3>2. Fresh(d)
            BY DEF DataInv
        <3>3. ASSUME NEW i \in Stored(tx[d].rows) PROVE Seen(tx[d].rows[i], i)'
            <4>1. i \in EntryIds /\ tx[d].rows[i] \in Entries /\ Seen(tx[d].rows[i], i)
                BY <1>2, <2>1, <3>1, <3>2, StoredIs DEF EntryRows, Fresh
            <4>2. ASSUME NEW e, e = tx[d].rows[i] PROVE Seen(e, i)'
                BY <4>1, <4>2, SeenStays
            <4> QED BY <4>2 DEF Seen
        <3>4. Stored(tx[d].rows)' = Stored(tx[d].rows)
            BY DEF Stored
        <3>5. "note" \notin ListOperations
            BY DEF ListOperations
        <3> QED BY <1>2, <2>1, <3>2, <3>3, <3>4, <3>5 DEF Fresh
    <2>2. CASE tx[d].ask.op # "note"
        BY <1>2, <2>2 DEF Fresh, DataInv
    <2> QED BY <2>1, <2>2
<1>3. \A d \in Devices : Fresh(d)'
    BY <1>2 DEF Fresh
<1>4. LimitsHold'
    <2>1. entries \in EntryRows /\ entries' \in EntryRows
        BY DEF DataInv, DataTypes
    <2>2. /\ Cardinality(Stored(entries')) <= Cardinality(Stored(entries))
          /\ Cardinality(Stored(entries')) \in Nat /\ Cardinality(Stored(entries)) \in Nat
        BY <2>1, StoredIsFinite, FS_Subset
    <2>3. Cardinality(Stored(entries')) <= MaxEntries
        BY <2>2, DataBounds DEF DataInv, LimitsHold
    <2> QED BY <2>3 DEF DataInv, LimitsHold, Stored
<1> QED BY <1>1, <1>3, <1>4 DEF DataInv

LEMMA LookKeepsData ==
    ASSUME DataInv, NEW d \in Devices, NEW i \in EntryIds, Look(d, i)
    PROVE  DataInv'
<1>1. entries[i] \in Entries /\ UNCHANGED <<lists, entries, used, lock, tx>>
    BY DEF Look, DataInv, DataTypes, EntryRows
<1>2. known' = [known EXCEPT ![d][i] = entries[i]]
    BY DEF Look
<1>3. DataTypes'
    BY <1>1, <1>2 DEF DataInv, DataTypes, EntryRows
<1>4. EntriesMoveOn
    BY <1>1 DEF EntriesMoveOn
<1>5. ASSUME NEW c \in Devices, NEW j \in EntryIds
      PROVE  known'[c][j] = known[c][j] \/ (known'[c][j] # Nothing => Seen(known[c][j], j)')
    <2>1. known'[c][j] = known[c][j] \/ (j = i /\ known'[c][j] = entries'[i])
        BY <1>1, <1>2 DEF DataInv, DataTypes, EntryRows
    <2>2. entries'[i] # Nothing /\ entries'[i].version \in Nat
        BY <1>1, NothingFacts
    <2> QED BY <2>1, <2>2 DEF Seen
<1> QED BY <1>1, <1>3, <1>4, <1>5, EntryStepKeepsData DEF Stored

\* What a review makes of its entry: the next version of what its device knew.
LEMMA ReviewIs ==
    ASSUME DataInv, NEW d \in Devices, NEW i \in EntryIds, NEW r \in Reviews, Review(d, i, r)
    PROVE  /\ entries[i] \in Entries /\ entries' \in EntryRows /\ entries'[i] \in Entries
           /\ \A j \in EntryIds : j # i => entries'[j] = entries[j]
           /\ entries'[i].version = entries[i].version + 1
           /\ entries'[i].text = entries[i].text /\ entries'[i].by = d
           /\ i \notin used => known[d][i] = entries[i]
<1> DEFINE new == [text |-> entries[i].text, review |-> r, version |-> entries[i].version + 1, by |-> d]
<1>1. entries[i] \in Entries /\ entries[i].version < MaxEdits
    BY DEF Review, SameVersion, DataInv, DataTypes, EntryRows
<1>2. new \in Entries
    BY <1>1, DataBounds DEF Entries
<1>3. entries' = [entries EXCEPT ![i] = new]
    BY DEF Review, Reviewed
<1>4. entries \in EntryRows
    BY DEF DataInv, DataTypes
<1>5. entries' \in EntryRows /\ \A j \in EntryIds : entries'[j] = IF j = i THEN new ELSE entries[j]
    BY <1>2, <1>3, <1>4 DEF EntryRows
<1>6. ASSUME i \notin used PROVE known[d][i] = entries[i]
    BY <1>6 DEF Review, SameVersion, DataInv, Knows, Seen
<1> QED BY <1>1, <1>2, <1>5, <1>6

LEMMA ReviewKeepsData ==
    ASSUME DataInv, NEW d \in Devices, NEW i \in EntryIds, NEW r \in Reviews, Review(d, i, r)
    PROVE  DataInv'
<1>1. UNCHANGED <<lists, used, lock, tx>> /\ Answer(d, i, entries'[i]) /\ entries[i] # Nothing
    BY DEF Review, SameVersion
<1>2. /\ entries[i] \in Entries /\ entries' \in EntryRows /\ entries'[i] \in Entries
      /\ \A j \in EntryIds : j # i => entries'[j] = entries[j]
      /\ entries'[i].version = entries[i].version + 1
    BY ReviewIs
<1>3. entries'[i] # Nothing /\ entries[i].version \in Nat /\ entries'[i].version > entries[i].version
    BY <1>2, NothingFacts
<1>4. EntriesMoveOn
    BY <1>1, <1>2, <1>3 DEF EntriesMoveOn
<1>5. /\ known' \in [Devices -> EntryRows]
      /\ \A c \in Devices, j \in EntryIds :
            known'[c][j] = known[c][j] \/ (c = d /\ j = i /\ known'[c][j] = entries'[i])
    <2>1. ASSUME NEW e \in Entries, e = entries'[i]
          PROVE  /\ known' \in [Devices -> EntryRows]
                 /\ \A c \in Devices, j \in EntryIds :
                        known'[c][j] = known[c][j] \/ (c = d /\ j = i /\ known'[c][j] = e)
        <3>1. Answer(d, i, e)
            BY <1>1, <2>1 DEF Answer
        <3> QED BY <3>1, AnswerIs
    <2> QED BY <1>2, <2>1
<1>6. DataTypes'
    BY <1>1, <1>2, <1>5 DEF DataInv, DataTypes
<1>7. ASSUME NEW c \in Devices, NEW j \in EntryIds
      PROVE  known'[c][j] = known[c][j] \/ (known'[c][j] # Nothing => Seen(known[c][j], j)')
    <2>1. known'[c][j] = known[c][j] \/ (j = i /\ known'[c][j] = entries'[i])
        BY <1>5
    <2>2. entries'[i].version \in Nat
        BY <1>2, NothingFacts
    <2> QED BY <1>3, <2>1, <2>2 DEF Seen
<1>8. Stored(entries)' \subseteq Stored(entries)
    BY <1>1, <1>2, StoredIs DEF DataInv, DataTypes
<1> QED BY <1>1, <1>4, <1>6, <1>7, <1>8, EntryStepKeepsData

LEMMA DeleteEntryKeepsData ==
    ASSUME DataInv, NEW d \in Devices, NEW i \in EntryIds, DeleteEntry(d, i)
    PROVE  /\ DataInv'
           /\ \A j \in EntryIds : entries'[j] = Nothing \/ entries'[j] = entries[j]
<1>1. /\ UNCHANGED <<lists, lock, tx, known>> /\ used' = used \union {i}
      /\ entries' = [entries EXCEPT ![i] = Nothing] /\ entries \in EntryRows
    BY DEF DeleteEntry, DataInv, DataTypes
<1>2. /\ entries' \in EntryRows
      /\ \A j \in EntryIds : entries'[j] = IF j = i THEN Nothing ELSE entries[j]
    BY <1>1 DEF EntryRows
<1>3. DataTypes'
    BY <1>1, <1>2 DEF DataInv, DataTypes
<1>4. EntriesMoveOn
    BY <1>1, <1>2 DEF EntriesMoveOn
<1>5. Stored(entries)' \subseteq Stored(entries)
    <2>1. Stored(entries') = {j \in EntryIds : entries'[j] # Nothing}
        BY <1>2, StoredIs
    <2>2. Stored(entries) = {j \in EntryIds : entries[j] # Nothing}
        BY <1>1, StoredIs
    <2> QED BY <1>2, <2>1, <2>2
<1> QED BY <1>1, <1>2, <1>3, <1>4, <1>5, EntryStepKeepsData

-----------------------------------------------------------------------------
LEMMA AsksAreAsks ==
    /\ \A op \in ListOperations, i \in ListIds, n \in Names, ts \in SUBSET Tickers :
        [op |-> op, id |-> i, name |-> n, tickers |-> ts] \in ListAsk
    /\ \A i \in EntryIds, t \in Texts : [op |-> "note", id |-> i, text |-> t] \in NoteAsk
    BY DEF ListAsk, NoteAsk

LEMMA DataInitially == DataInit => DataInv
<1> SUFFICES ASSUME DataInit PROVE DataInv
    OBVIOUS
<1>1. DataTypes
    BY DEF DataInit, DataTypes, ListRows, EntryRows
<1>2. Stored(lists) = {} /\ Stored(entries) = {}
    BY DEF DataInit, Stored
<1>3. Cardinality(Stored(lists)) = 0 /\ Cardinality(Stored(entries)) = 0
    BY <1>2, FS_EmptySet
<1>4. LimitsHold
    BY <1>2, <1>3, DataBounds DEF LimitsHold
<1> QED BY <1>1, <1>4 DEF DataInv, DataInit, Fresh, Knows

LEMMA DataStep ==
    ASSUME DataInv, [ListStep \/ JournalStep]_dataVars
    PROVE  DataInv'
<1>1. CASE UNCHANGED dataVars
    BY <1>1 DEF dataVars, DataInv, DataTypes, Fresh, Knows, Seen, LimitsHold, Stored
<1>2. CASE ListStep
    <2>1. PICK d \in Devices :
            \/ \E op \in ListOperations, i \in ListIds, n \in Names, ts \in SUBSET Tickers :
                AskList(d, op, i, n, ts)
            \/ ChangeList(d) \/ RollBack(d)
        BY <1>2 DEF ListStep
    <2>2. ASSUME NEW op \in ListOperations, NEW i \in ListIds, NEW n \in Names,
                 NEW ts \in SUBSET Tickers, AskList(d, op, i, n, ts)
          PROVE  DataInv'
        BY <2>2, AsksAreAsks, BeginKeepsData DEF AskList
    <2> QED BY <2>1, <2>2, ChangeListKeepsData, RollBackKeepsData
<1>3. CASE JournalStep
    <2>1. PICK d \in Devices :
            \/ \E i \in EntryIds, t \in Texts : AskEntry(d, i, t)
            \/ CreateEntry(d) \/ RollBack(d)
            \/ \E i \in EntryIds :
                Look(d, i) \/ DeleteEntry(d, i) \/ \E r \in Reviews : Review(d, i, r)
        BY <1>3 DEF JournalStep
    <2>2. ASSUME NEW i \in EntryIds, NEW t \in Texts, AskEntry(d, i, t) PROVE DataInv'
        BY <2>2, AsksAreAsks, BeginKeepsData DEF AskEntry
    <2>3. ASSUME NEW i \in EntryIds,
                 Look(d, i) \/ DeleteEntry(d, i) \/ \E r \in Reviews : Review(d, i, r)
          PROVE  DataInv'
        BY <2>3, LookKeepsData, DeleteEntryKeepsData, ReviewKeepsData
    <2> QED BY <2>1, <2>2, <2>3, CreateEntryKeepsData, RollBackKeepsData
<1> QED BY <1>1, <1>2, <1>3

THEOREM DataIsInvariant == DataSpec => []DataInv
<1>1. DataInv /\ [ListStep \/ JournalStep]_dataVars => DataInv'
    BY DataStep
<1> QED BY <1>1, DataInitially, PTL DEF DataSpec

\* However many devices change an account's lists and journal at once: names differ
\* and no limit is passed (watchlist_repository.py:25).
THEOREM LimitsAlwaysHold == DataSpec => []LimitsHold
<1>1. DataInv => LimitsHold
    BY DEF DataInv
<1> QED BY <1>1, DataIsInvariant, PTL

\* The account's last list is never deleted, whichever devices delete lists at once.
THEOREM SomeListAlwaysStays == DataSpec => SomeListStays
<1>1. DataInv /\ [ListStep \/ JournalStep]_dataVars => (Stored(lists) # {} => Stored(lists)' # {})
    <2> SUFFICES ASSUME DataInv, [ListStep \/ JournalStep]_dataVars, Stored(lists) # {}
                 PROVE  Stored(lists)' # {}
        OBVIOUS
    <2>1. CASE UNCHANGED lists
        BY <2>1 DEF Stored
    <2>2. ASSUME NEW d \in Devices, ChangeList(d) PROVE Stored(lists)' # {}
        BY <2>2, ListsChange
    <2>3. ASSUME ListStep, \A d \in Devices : ~ChangeList(d) PROVE UNCHANGED lists
        BY <2>3 DEF ListStep, AskList, Begin, RollBack
    <2>4. ASSUME JournalStep PROVE UNCHANGED lists
        BY <2>4 DEF JournalStep, AskEntry, Begin, CreateEntry, RollBack, Look, DeleteEntry, Review
    <2> QED BY <2>1, <2>2, <2>3, <2>4 DEF dataVars
<1> QED BY <1>1, DataIsInvariant, PTL DEF DataSpec, SomeListStays

\* Evidence is insert-only, and a review replaces only what its device knew, whatever
\* answers are lost or repeated (journal_repository.py:1).
THEOREM ReviewsReplaceWhatTheySaw == DataSpec => ReviewsReplaceWhatWasSeen
<1> DEFINE Replaces ==
        \A i \in EntryIds \ used :
            entries[i] # Nothing /\ entries'[i] # Nothing /\ entries'[i] # entries[i] =>
                /\ entries'[i].text = entries[i].text
                /\ known[entries'[i].by][i] = entries[i]
<1>1. DataInv /\ [ListStep \/ JournalStep]_dataVars => Replaces
    <2> SUFFICES ASSUME DataInv, [ListStep \/ JournalStep]_dataVars PROVE Replaces
        OBVIOUS
    <2>1. CASE UNCHANGED entries
        BY <2>1
    <2>2. ASSUME NEW d \in Devices, CreateEntry(d) PROVE Replaces
        BY <2>2, CreateEntryKeepsData
    <2>3. ASSUME NEW d \in Devices, NEW i \in EntryIds, NEW r \in Reviews, Review(d, i, r)
          PROVE  Replaces
        BY <2>3, ReviewIs
    <2>4. ASSUME NEW d \in Devices, NEW i \in EntryIds, DeleteEntry(d, i) PROVE Replaces
        BY <2>4, DeleteEntryKeepsData
    <2>5. ASSUME NEW d \in Devices, NEW i \in EntryIds, Look(d, i) PROVE UNCHANGED entries
        BY <2>5 DEF Look
    <2>6. ASSUME NEW d \in Devices, RollBack(d) PROVE UNCHANGED entries
        BY <2>6 DEF RollBack
    <2>7. ASSUME NEW d \in Devices, NEW i \in EntryIds, NEW t \in Texts, AskEntry(d, i, t)
          PROVE  UNCHANGED entries
        BY <2>7 DEF AskEntry, Begin
    <2>8. ASSUME ListStep PROVE UNCHANGED entries
        BY <2>8 DEF ListStep, AskList, Begin, ChangeList, RollBack
    <2> HIDE DEF Replaces
    <2> QED BY <2>1, <2>2, <2>3, <2>4, <2>5, <2>6, <2>7, <2>8 DEF JournalStep, dataVars
<1> QED BY <1>1, DataIsInvariant, PTL DEF DataSpec, ReviewsReplaceWhatWasSeen

---------------------------------------------------------------------------
AnyTask == [key : Scans, asked : Generations, read : Generations \union {Unread}, stage : Stages]
AnyWait == [on : {"none", "scan", "lock", "test"}, key : CacheKeys \union {"none"},
            asked : Generations \union {Unread}]
AnyTest == [key : Tests \union {"none"}, read : Generations \union {Unread},
            stage : Stages \union {"none"}, owner : Visitors \union {NoOwner}]

ScanWait(k, g) == [on |-> "scan", key |-> k, asked |-> g]
LockWait(k) == [on |-> "lock", key |-> k, asked |-> Unread]
TestWait(k) == [on |-> "test", key |-> k, asked |-> Unread]

-----------------------------------------------------------------------------
(* Scans. *)

\* A scan per key and generation, no more than the slots, and behind everybody who
\* waits for a scan.
TaskInv ==
    /\ generation \in Generations
    /\ waits \in [Visitors -> AnyWait]
    /\ tasks \subseteq AnyTask /\ IsFiniteSet(tasks)
    /\ Cardinality(tasks) <= MaxTasks
    /\ \A t, u \in tasks : t.key = u.key /\ t.asked = u.asked => t = u
    /\ \A v \in Visitors : waits[v].on = "scan" =>
            \E t \in tasks : t.key = waits[v].key /\ t.asked = waits[v].asked

LEMMA WaitsAreWaits ==
    /\ Resting \in AnyWait
    /\ \A k \in Scans, g \in Generations : ScanWait(k, g) \in AnyWait
    /\ \A k \in Tests : LockWait(k) \in AnyWait /\ TestWait(k) \in AnyWait
    BY DEF AnyWait, Resting, ScanWait, LockWait, TestWait, CacheKeys

\* Nothing happens to the scans, and nobody comes to wait for one.
LEMMA ScansUntouched ==
    ASSUME TaskInv, UNCHANGED tasks, generation' \in Generations,
           waits' \in [Visitors -> AnyWait],
           \A v \in Visitors : waits'[v] = waits[v] \/ waits'[v].on # "scan"
    PROVE  TaskInv'
    BY DEF TaskInv

LEMMA OneWaitChanges ==
    ASSUME waits \in [Visitors -> AnyWait], NEW v \in Visitors, NEW w \in AnyWait,
           waits' = [waits EXCEPT ![v] = w]
    PROVE  /\ waits' \in [Visitors -> AnyWait]
           /\ \A u \in Visitors : waits'[u] = IF u = v THEN w ELSE waits[u]
    OBVIOUS

\* A task of its own, for a key and a generation that have none.
LEMMA StartScanKeepsTasks ==
    ASSUME TaskInv, NEW v \in Visitors, NEW k \in Scans, ~Shared(k), StartScan(v, k),
           UNCHANGED generation
    PROVE  TaskInv' /\ Cardinality(tasks') > Cardinality(tasks)
<1> DEFINE t == [key |-> k, asked |-> generation, read |-> Unread, stage |-> "new"]
<1>1. t \in AnyTask /\ t.key = k /\ t.asked = generation
    BY DEF TaskInv, AnyTask, Stages
<1>2. tasks' = tasks \union {t} /\ Cardinality(tasks) < MaxTasks
    BY DEF StartScan
<1>3. \A u \in tasks : ~(u.key = k /\ u.asked = generation)
    BY DEF Shared
<1>4. t \notin tasks
    BY <1>1, <1>3
<1> HIDE DEF t
<1>5. IsFiniteSet(tasks') /\ Cardinality(tasks') = Cardinality(tasks) + 1 /\ Cardinality(tasks) \in Nat
    BY <1>2, <1>4, FS_AddElement, FS_CardinalityType DEF TaskInv
<1>6. Cardinality(tasks') <= MaxTasks /\ Cardinality(tasks') > Cardinality(tasks)
    BY <1>2, <1>5, AdmissionBounds
<1>7. waits' = [waits EXCEPT ![v] = ScanWait(k, generation)]
    BY DEF StartScan, WaitFor, ScanWait
<1>8. /\ waits' \in [Visitors -> AnyWait]
      /\ \A u \in Visitors : waits'[u] = IF u = v THEN ScanWait(k, generation) ELSE waits[u]
    BY <1>7, WaitsAreWaits, OneWaitChanges DEF TaskInv
<1>9. \A a, b \in tasks' : a.key = b.key /\ a.asked = b.asked => a = b
    BY <1>1, <1>2, <1>3 DEF TaskInv
<1>10. ASSUME NEW u \in Visitors, waits'[u].on = "scan"
       PROVE  \E a \in tasks' : a.key = waits'[u].key /\ a.asked = waits'[u].asked
    <2>1. CASE u = v
        <3>1. waits'[u].key = k /\ waits'[u].asked = generation
            BY <1>8, <2>1 DEF ScanWait
        <3> QED BY <1>1, <1>2, <3>1
    <2>2. CASE u # v
        BY <1>2, <1>8, <1>10, <2>2 DEF TaskInv
    <2> QED BY <2>1, <2>2
<1>11. generation' \in Generations /\ tasks' \subseteq AnyTask
    BY <1>1, <1>2 DEF TaskInv
<1> QED BY <1>5, <1>6, <1>8, <1>9, <1>10, <1>11 DEF TaskInv

LEMMA AskScanKeepsTasks ==
    ASSUME TaskInv, NEW v \in Visitors, NEW k \in Scans, AskScan(v, k)
    PROVE  TaskInv'
<1>1. UNCHANGED generation
    BY DEF AskScan
<1>2. CASE UNCHANGED <<waits, tasks>>
    BY <1>1, <1>2 DEF TaskInv
<1>3. CASE Shared(k) /\ WaitFor(v, k) /\ UNCHANGED tasks
    <2>1. /\ waits' \in [Visitors -> AnyWait]
          /\ \A u \in Visitors : waits'[u] = IF u = v THEN ScanWait(k, generation) ELSE waits[u]
        BY <1>3, WaitsAreWaits, OneWaitChanges DEF TaskInv, WaitFor, ScanWait
    <2>2. ASSUME NEW u \in Visitors, waits'[u].on = "scan"
          PROVE  \E a \in tasks : a.key = waits'[u].key /\ a.asked = waits'[u].asked
        BY <1>3, <2>1, <2>2 DEF TaskInv, Shared, ScanWait
    <2> QED BY <1>1, <1>3, <2>1, <2>2 DEF TaskInv
<1>4. CASE ~Shared(k) /\ StartScan(v, k)
    BY <1>1, <1>4, StartScanKeepsTasks
<1> QED BY <1>2, <1>3, <1>4 DEF AskScan

\* A task goes on as the task of its key and generation.
LEMMA AdvanceKeepsTasks ==
    ASSUME TaskInv, NEW t \in tasks, NEW stage \in Stages,
           NEW read \in Generations \union {Unread}, Advance(t, stage, read),
           UNCHANGED <<generation, waits>>
    PROVE  TaskInv'
<1> DEFINE r == [t EXCEPT !.stage = stage, !.read = read]
<1>1. t \in AnyTask
    BY DEF TaskInv
<1>2. r \in AnyTask /\ r.key = t.key /\ r.asked = t.asked
    BY <1>1 DEF AnyTask
<1>3. tasks' = (tasks \ {t}) \union {r}
    BY DEF Advance
<1> HIDE DEF r
<1>4. /\ IsFiniteSet(tasks \ {t}) /\ Cardinality(tasks \ {t}) = Cardinality(tasks) - 1
      /\ Cardinality(tasks) \in Nat
    BY FS_RemoveElement, FS_CardinalityType DEF TaskInv
<1>5. r \notin tasks \ {t}
    <2>1. ASSUME r \in tasks PROVE r = t
        BY <1>2, <2>1 DEF TaskInv
    <2> QED BY <2>1
<1>6. IsFiniteSet(tasks') /\ Cardinality(tasks') = Cardinality(tasks \ {t}) + 1
    BY <1>3, <1>4, <1>5, FS_AddElement
<1>7. Cardinality(tasks') <= MaxTasks
    BY <1>4, <1>6, AdmissionBounds DEF TaskInv
<1>8. \A a, b \in tasks' : a.key = b.key /\ a.asked = b.asked => a = b
    BY <1>2, <1>3 DEF TaskInv
<1>9. \A v \in Visitors : waits[v].on = "scan" =>
        \E a \in tasks' : a.key = waits[v].key /\ a.asked = waits[v].asked
    BY <1>2, <1>3 DEF TaskInv
<1>10. tasks' \subseteq AnyTask
    BY <1>2, <1>3 DEF TaskInv
<1> QED BY <1>6, <1>7, <1>8, <1>9, <1>10 DEF TaskInv

LEMMA ScanFinishedKeepsTasks ==
    ASSUME TaskInv, NEW t \in tasks, ScanFinished(t)
    PROVE  TaskInv'
<1>1. tasks' = tasks \ {t} /\ UNCHANGED generation
    BY DEF ScanFinished
<1>2. \A v \in Visitors :
        waits'[v] = IF waits[v] = ScanWait(t.key, t.asked) THEN Resting ELSE waits[v]
    BY DEF ScanFinished, ScanWait
<1>3. waits' \in [Visitors -> AnyWait]
    BY WaitsAreWaits DEF ScanFinished, TaskInv
<1>4. /\ IsFiniteSet(tasks') /\ Cardinality(tasks') = Cardinality(tasks) - 1
      /\ Cardinality(tasks) \in Nat
    BY <1>1, FS_RemoveElement, FS_CardinalityType DEF TaskInv
<1>5. Cardinality(tasks') <= MaxTasks
    BY <1>4, AdmissionBounds DEF TaskInv
<1>6. ASSUME NEW v \in Visitors, waits'[v].on = "scan"
      PROVE  \E a \in tasks' : a.key = waits'[v].key /\ a.asked = waits'[v].asked
    <2>1. waits'[v] = waits[v] /\ waits[v] # ScanWait(t.key, t.asked)
        BY <1>2, <1>6 DEF Resting
    <2>2. PICK a \in tasks : a.key = waits[v].key /\ a.asked = waits[v].asked
        BY <1>6, <2>1 DEF TaskInv
    <2>3. waits[v] = [on |-> "scan", key |-> waits[v].key, asked |-> waits[v].asked]
        BY <1>6, <2>1 DEF TaskInv, AnyWait
    <2>4. a # t
        BY <2>1, <2>2, <2>3 DEF ScanWait
    <2> QED BY <1>1, <2>1, <2>2, <2>4
<1> QED BY <1>1, <1>3, <1>4, <1>5, <1>6 DEF TaskInv

\* Steps of back-tests and departures leave every other caller where it was.
LEMMA OneLeavesTheScans ==
    ASSUME TaskInv, UNCHANGED <<tasks, generation>>, NEW v \in Visitors, NEW w \in AnyWait,
           w.on # "scan", waits' = [waits EXCEPT ![v] = w]
    PROVE  TaskInv'
<1>1. /\ waits' \in [Visitors -> AnyWait]
      /\ \A u \in Visitors : waits'[u] = IF u = v THEN w ELSE waits[u]
    BY OneWaitChanges DEF TaskInv
<1>2. generation' \in Generations
    BY DEF TaskInv
<1> QED BY <1>1, <1>2, ScansUntouched

LEMMA TasksStep ==
    ASSUME TaskInv, [AdmissionNext]_admissionVars
    PROVE  TaskInv'
<1>1. CASE UNCHANGED admissionVars
    BY <1>1 DEF TaskInv, admissionVars
<1>2. ASSUME NEW k \in CacheKeys, Age(k) PROVE TaskInv'
    BY <1>2 DEF TaskInv, Age
<1>3. ASSUME NEW doomed \in {CacheKeys, Baselines}, Invalidate(doomed) PROVE TaskInv'
    <2>1. generation' \in Generations
        BY <1>3, AdmissionBounds DEF Invalidate, Generations, TaskInv
    <2> QED BY <1>3, <2>1 DEF Invalidate, TaskInv
<1>4. ASSUME NEW v \in Visitors, NEW k \in Scans, AskScan(v, k) PROVE TaskInv'
    BY <1>4, AskScanKeepsTasks
<1>5. ASSUME NEW t \in tasks, ScanBegins(t) PROVE TaskInv'
    <2>1. generation \in Generations \union {Unread} /\ "running" \in Stages
        BY DEF TaskInv, Stages
    <2>2. Advance(t, "running", generation) /\ UNCHANGED <<generation, waits>>
        BY <1>5 DEF ScanBegins
    <2> QED BY <2>1, <2>2, AdvanceKeepsTasks
<1>6. ASSUME NEW t \in tasks, ScanEnds(t) PROVE TaskInv'
    <2>1. t.read \in Generations \union {Unread} /\ "done" \in Stages
        BY DEF TaskInv, AnyTask, Stages
    <2>2. Advance(t, "done", t.read) /\ UNCHANGED <<generation, waits>>
        BY <1>6 DEF ScanEnds
    <2> QED BY <2>1, <2>2, AdvanceKeepsTasks
<1>7. ASSUME NEW t \in tasks, ScanFinished(t) PROVE TaskInv'
    BY <1>7, ScanFinishedKeepsTasks
<1>8. ASSUME NEW k \in Baselines, Prewarm(k) PROVE TaskInv'
    BY <1>8 DEF TaskInv, Prewarm
<1>9. ASSUME NEW kind \in {"scan", "test"}, MissForgotten(kind) PROVE TaskInv'
    BY <1>9 DEF TaskInv, MissForgotten
<1>10. ASSUME NEW v \in Visitors, NEW k \in Tests, AskTest(v, k) PROVE TaskInv'
    <2>1. UNCHANGED <<tasks, generation>>
        BY <1>10 DEF AskTest
    <2>2. \/ UNCHANGED waits
          \/ \E w \in {LockWait(k), TestWait(k), Resting} : waits' = [waits EXCEPT ![v] = w]
        BY <1>10 DEF AskTest, Enter, StartTest, LockWait, TestWait
    <2>3. /\ LockWait(k) \in AnyWait /\ TestWait(k) \in AnyWait /\ Resting \in AnyWait
          /\ LockWait(k).on = "lock" /\ TestWait(k).on = "test" /\ Resting.on = "none"
        BY WaitsAreWaits DEF LockWait, TestWait, Resting
    <2>4. CASE UNCHANGED waits
        BY <2>1, <2>4 DEF TaskInv
    <2> QED BY <2>1, <2>2, <2>3, <2>4, OneLeavesTheScans
<1>11. ASSUME NEW v \in Visitors, Wake(v) PROVE TaskInv'
    <2> DEFINE k == waits[v].key
    <2>1. UNCHANGED <<tasks, generation>>
        BY <1>11 DEF Wake
    <2>2. \E w \in {TestWait(k), Resting} : waits' = [waits EXCEPT ![v] = w]
        BY <1>11 DEF Wake, Enter, StartTest, TestWait
    <2>3. \A w \in {TestWait(k), Resting} : w \in AnyWait /\ w.on # "scan"
        BY WaitsAreWaits DEF TaskInv, AnyWait, TestWait, Resting
    <2> QED BY <2>1, <2>2, <2>3, OneLeavesTheScans
<1>12. ASSUME NEW v \in Visitors, Answered(v) \/ Disconnect(v) PROVE TaskInv'
    <2>1. UNCHANGED <<tasks, generation>> /\ waits' = [waits EXCEPT ![v] = Resting]
        BY <1>12 DEF Answered, Disconnect
    <2>2. Resting \in AnyWait /\ Resting.on # "scan"
        BY WaitsAreWaits DEF Resting
    <2> QED BY <2>1, <2>2, OneLeavesTheScans
<1>13. CASE TestBegins \/ TestEnds \/ TestFinished
    BY <1>13 DEF TaskInv, TestBegins, TestEnds, TestFinished
<1> QED BY <1>1, <1>2, <1>3, <1>4, <1>5, <1>6, <1>7, <1>8, <1>9, <1>10, <1>11, <1>12, <1>13
        DEF AdmissionNext, CacheStep, ScanStep, TestStep, Leaving

LEMMA TasksInit == AdmissionInit => TaskInv
<1> SUFFICES ASSUME AdmissionInit PROVE TaskInv
    OBVIOUS
<1>1. IsFiniteSet({}) /\ Cardinality({}) = 0
    BY FS_EmptySet
<1>2. generation \in Generations
    BY AdmissionBounds DEF AdmissionInit, Generations
<1>3. waits \in [Visitors -> AnyWait] /\ \A v \in Visitors : waits[v].on # "scan"
    BY WaitsAreWaits DEF AdmissionInit, Resting
<1>4. tasks = {}
    BY DEF AdmissionInit
<1>5. Cardinality(tasks) <= MaxTasks
    BY <1>1, <1>4, AdmissionBounds
<1> QED BY <1>1, <1>2, <1>3, <1>4, <1>5 DEF TaskInv

\* The slots are taken by scans that are under way, one per key and generation, and
\* every caller that waits for a scan waits for one of them.
THEOREM TasksAreInvariant == AdmissionSpec => []TaskInv
<1>1. TaskInv /\ [AdmissionNext]_admissionVars => TaskInv'
    BY TasksStep
<1> QED BY <1>1, TasksInit, PTL DEF AdmissionSpec

-----------------------------------------------------------------------------
(* The gate. *)

\* Who stands in a line asked for a back-test.
LinesAreForTests == \A v \in Visitors : waits[v].on = "lock" => waits[v].key \in Tests

GateInv ==
    /\ test \in AnyTest /\ gate \in BOOLEAN
    /\ gate <=> test # NoTest
    /\ test # NoTest => test.stage \in Stages

LEMMA EnterKeepsGate ==
    ASSUME GateInv, NEW v \in Visitors, NEW k \in Tests, Enter(v, k)
    PROVE  GateInv'
<1>1. CASE Starts(k)
    <2>1. gate' = TRUE /\ test' = [key |-> k, read |-> Unread, stage |-> "new", owner |-> v]
        BY <1>1 DEF Enter, StartTest
    <2>2. test'.stage = "new" /\ NoTest.stage = "none"
        BY <2>1 DEF NoTest
    <2>3. test' \in AnyTest
        BY <2>1 DEF AnyTest, Stages
    <2> QED BY <2>1, <2>2, <2>3 DEF GateInv, Stages
<1>2. CASE ~Starts(k)
    BY <1>2 DEF Enter, GateInv
<1> QED BY <1>1, <1>2

LEMMA GateStep ==
    ASSUME GateInv, TaskInv, LinesAreForTests, [AdmissionNext]_admissionVars
    PROVE  GateInv'
<1>0. NoTest.stage = "none" /\ NoTest.owner = NoOwner /\ NoTest \in AnyTest
    BY DEF NoTest, AnyTest, Stages, Unread
<1>1. CASE UNCHANGED <<test, gate>>
    BY <1>1 DEF GateInv
<1>2. CASE CacheStep \/ ScanStep
    BY <1>1, <1>2 DEF CacheStep, ScanStep, Age, Invalidate, AskScan, ScanBegins, ScanEnds,
        ScanFinished, Prewarm, MissForgotten
<1>3. CASE MissForgotten("test")
    BY <1>1, <1>3 DEF MissForgotten
<1>4. ASSUME NEW v \in Visitors, NEW k \in Tests, AskTest(v, k) PROVE GateInv'
    BY <1>1, <1>4, EnterKeepsGate DEF AskTest
<1>5. ASSUME NEW v \in Visitors, Wake(v) PROVE GateInv'
    <2>1. waits[v].key \in Tests /\ Enter(v, waits[v].key)
        BY <1>5 DEF Wake, LinesAreForTests
    <2> QED BY <2>1, EnterKeepsGate
<1>6. ASSUME NEW v \in Visitors, Answered(v) PROVE GateInv'
    BY <1>1, <1>6 DEF Answered
<1>7. CASE TestBegins
    <2>1. test.stage = "new" /\ test \in AnyTest /\ generation \in Generations
        BY <1>7 DEF TestBegins, GateInv, TaskInv
    <2>2. test # NoTest /\ UNCHANGED gate
        BY <1>0, <1>7, <2>1 DEF TestBegins
    <2>3. test' \in AnyTest /\ test'.stage = "running"
        BY <1>7, <2>1 DEF TestBegins, AnyTest, Stages
    <2> QED BY <1>0, <2>2, <2>3 DEF GateInv, Stages
<1>8. CASE TestEnds
    <2>1. test.stage = "running" /\ test \in AnyTest
        BY <1>8 DEF TestEnds, GateInv
    <2>2. test # NoTest /\ UNCHANGED gate
        BY <1>0, <1>8, <2>1 DEF TestEnds
    <2>3. test' \in AnyTest /\ test'.stage = "done"
        BY <1>8, <2>1 DEF TestEnds, AnyTest, Stages
    <2> QED BY <1>0, <2>2, <2>3 DEF GateInv, Stages
<1>9. CASE TestFinished
    BY <1>0, <1>9 DEF TestFinished, GateInv
<1>10. ASSUME NEW v \in Visitors, Disconnect(v) PROVE GateInv'
    <2>1. CASE test.owner = v
        <3>1. test # NoTest
            BY <1>0, <2>1, NobodyIsNoVisitor
        <3>2. test' = [test EXCEPT !.owner = NoOwner] /\ UNCHANGED gate
            BY <1>10, <2>1 DEF Disconnect
        <3>3. test' \in AnyTest /\ test'.stage = test.stage
            BY <3>2 DEF GateInv, AnyTest
        <3> QED BY <1>0, <3>1, <3>2, <3>3 DEF GateInv, Stages
    <2>2. CASE test.owner # v
        BY <1>1, <1>10, <2>2 DEF Disconnect
    <2> QED BY <2>1, <2>2
<1> QED BY <1>1, <1>2, <1>3, <1>4, <1>5, <1>6, <1>7, <1>8, <1>9, <1>10
        DEF AdmissionNext, TestStep, Leaving, admissionVars

-----------------------------------------------------------------------------
(* Sequences of locks and lines of visitors. *)

Members(l) == ToSet(l.line)
NobodyTwice(s) == \A i, j \in DOMAIN s : s[i] = s[j] => i = j
OneKeyEach(s) == \A i, j \in DOMAIN s : s[i].key = s[j].key => i = j

LEMMA MembersAre ==
    ASSUME NEW T, NEW s \in Seq(T)
    PROVE  ToSet(s) \subseteq T /\ ToSet(s) = {s[i] : i \in 1 .. Len(s)}
    BY DEF ToSet

\* Where the elements of a sequence with one removed were before.
LEMMA RemovedAt ==
    ASSUME NEW T, NEW s \in Seq(T), NEW i \in DOMAIN s
    PROVE  /\ RemoveAt(s, i) \in Seq(T) /\ Len(RemoveAt(s, i)) = Len(s) - 1
           /\ \A j \in 1 .. (Len(s) - 1) : RemoveAt(s, i)[j] = s[IF j < i THEN j ELSE j + 1]
<1> DEFINE before == SubSeq(s, 1, i - 1)
           after == SubSeq(s, i + 1, Len(s))
           r == RemoveAt(s, i)
<1>0. Len(s) \in Nat /\ i \in 1 .. Len(s)
    BY LenProperties
<1>1. /\ before \in Seq(T) /\ Len(before) = i - 1
      /\ \A j \in 1 .. i - 1 : before[j] = s[j]
    BY <1>0, SubSeqProperties
<1>2. /\ after \in Seq(T) /\ Len(after) = Len(s) - i
      /\ \A j \in 1 .. Len(s) - i : after[j] = s[i + j]
    BY <1>0, SubSeqProperties
<1>3. r = before \o after
    BY DEF RemoveAt
<1> HIDE DEF r, before, after
<1>4. /\ r \in Seq(T) /\ Len(r) = Len(before) + Len(after)
      /\ \A j \in 1 .. Len(before) + Len(after) :
            r[j] = IF j <= Len(before) THEN before[j] ELSE after[j - Len(before)]
    BY <1>1, <1>2, <1>3, ConcatProperties
<1>5. Len(r) = Len(s) - 1
    BY <1>0, <1>1, <1>2, <1>4
<1>6. ASSUME NEW j \in 1 .. (Len(s) - 1) PROVE r[j] = s[IF j < i THEN j ELSE j + 1]
    <2>1. CASE j < i
        BY <2>1, <1>0, <1>1, <1>2, <1>4
    <2>2. CASE ~(j < i)
        <3>1. j - (i - 1) \in 1 .. Len(s) - i
            BY <2>2, <1>0
        <3>0. j \in 1 .. Len(before) + Len(after) /\ ~(j <= Len(before)) /\ Len(before) = i - 1
            BY <2>2, <1>0, <1>1, <1>2
        <3>2. r[j] = after[j - (i - 1)]
            BY <3>0, <1>4
        <3>3. after[j - (i - 1)] = s[i + (j - (i - 1))]
            BY <3>1, <1>2
        <3>4. i + (j - (i - 1)) = j + 1
            BY <1>0
        <3> QED BY <2>2, <3>2, <3>3, <3>4
    <2> QED BY <2>1, <2>2
<1> QED BY <1>4, <1>5, <1>6 DEF r

LEMMA RemovedFromALine ==
    ASSUME NEW T, NEW s \in Seq(T), NobodyTwice(s), NEW i \in DOMAIN s
    PROVE  /\ RemoveAt(s, i) \in Seq(T) /\ NobodyTwice(RemoveAt(s, i))
           /\ ToSet(RemoveAt(s, i)) = ToSet(s) \ {s[i]}
<1> DEFINE r == RemoveAt(s, i)
           was(j) == IF j < i THEN j ELSE j + 1
<1>0. /\ RemoveAt(s, i) \in Seq(T) /\ Len(RemoveAt(s, i)) = Len(s) - 1
      /\ \A j \in 1 .. (Len(s) - 1) : RemoveAt(s, i)[j] = s[IF j < i THEN j ELSE j + 1]
    BY RemovedAt
<1>1. /\ r \in Seq(T) /\ DOMAIN r = 1 .. (Len(s) - 1) /\ DOMAIN s = 1 .. Len(s)
      /\ \A j \in DOMAIN r : r[j] = s[was(j)]
    BY <1>0
<1>2. i \in 1 .. Len(s) /\ Len(s) \in Nat
    BY LenProperties
<1>3. /\ \A j \in DOMAIN r : was(j) \in DOMAIN s /\ was(j) # i
      /\ \A j, k \in DOMAIN r : was(j) = was(k) => j = k
      /\ \A k \in DOMAIN s : k # i => \E j \in DOMAIN r : was(j) = k
    <2>1. \A j \in DOMAIN r : was(j) \in DOMAIN s /\ was(j) # i
        BY <1>1, <1>2
    <2>2. \A j, k \in DOMAIN r : was(j) = was(k) => j = k
        BY <1>1, <1>2
    <2>3. ASSUME NEW k \in DOMAIN s, k # i PROVE \E j \in DOMAIN r : was(j) = k
        <3>1. k \in 1 .. Len(s) /\ Len(s) \in Nat /\ i \in 1 .. Len(s)
            BY <1>1, <1>2
        <3>2. CASE k < i
            BY <1>1, <3>1, <3>2
        <3>3. CASE k > i
            <4>1. k - 1 \in 1 .. (Len(s) - 1) /\ was(k - 1) = k
                BY <3>1, <3>3
            <4> QED BY <1>1, <4>1
        <3> QED BY <2>3, <3>1, <3>2, <3>3
    <2> QED BY <2>1, <2>2, <2>3
<1> HIDE DEF r, was
<1>4. ToSet(r) = {r[j] : j \in DOMAIN r} /\ ToSet(s) = {s[j] : j \in DOMAIN s}
    BY DEF ToSet
<1>5. NobodyTwice(r)
    BY <1>1, <1>3 DEF NobodyTwice
<1>6. \A x : x \in ToSet(r) <=> x \in ToSet(s) /\ x # s[i]
    <2>1. ASSUME NEW x \in ToSet(r) PROVE x \in ToSet(s) /\ x # s[i]
        BY <1>1, <1>3, <1>4 DEF NobodyTwice
    <2>2. ASSUME NEW x \in ToSet(s), x # s[i] PROVE x \in ToSet(r)
        <3>1. PICK k \in DOMAIN s : x = s[k]
            BY <1>4
        <3>2. PICK j \in DOMAIN r : was(j) = k
            BY <1>3, <2>2, <3>1
        <3> QED BY <1>1, <1>4, <3>1, <3>2
    <2> QED BY <2>1, <2>2
<1> QED BY <1>1, <1>5, <1>6 DEF r

LEMMA AddedToALine ==
    ASSUME NEW T, NEW s \in Seq(T), NobodyTwice(s), NEW x \in T, x \notin ToSet(s)
    PROVE  /\ Append(s, x) \in Seq(T) /\ NobodyTwice(Append(s, x))
           /\ ToSet(Append(s, x)) = ToSet(s) \union {x}
<1>1. /\ Append(s, x) \in Seq(T) /\ Len(Append(s, x)) = Len(s) + 1 /\ Len(s) \in Nat
      /\ \A j \in 1 .. Len(s) : Append(s, x)[j] = s[j]
      /\ Append(s, x)[Len(s) + 1] = x
    BY AppendProperties, LenProperties
<1>2. \A j \in 1 .. Len(s) : s[j] # x
    BY DEF ToSet
<1>3. DOMAIN Append(s, x) = 1 .. (Len(s) + 1) /\ DOMAIN s = 1 .. Len(s)
    BY <1>1
<1>4. NobodyTwice(Append(s, x))
    BY <1>1, <1>2, <1>3 DEF NobodyTwice
<1>5. ToSet(Append(s, x)) = ToSet(s) \union {x}
    BY <1>1, <1>3 DEF ToSet
<1> QED BY <1>1, <1>4, <1>5

LEMMA FirstLeavesTheLine ==
    ASSUME NEW T, NEW s \in Seq(T), NobodyTwice(s), s # <<>>
    PROVE  /\ Tail(s) \in Seq(T) /\ NobodyTwice(Tail(s))
           /\ ToSet(Tail(s)) = ToSet(s) \ {Head(s)} /\ Head(s) \in ToSet(s)
<1>1. /\ Tail(s) \in Seq(T) /\ Len(Tail(s)) = Len(s) - 1 /\ Len(s) \in Nat /\ Len(s) > 0
      /\ \A j \in 1 .. (Len(s) - 1) : Tail(s)[j] = s[j + 1]
      /\ Head(s) = s[1]
    BY HeadTailProperties, EmptySeq
<1>2. DOMAIN Tail(s) = 1 .. (Len(s) - 1) /\ DOMAIN s = 1 .. Len(s)
    BY <1>1
<1>3. NobodyTwice(Tail(s))
    BY <1>1, <1>2 DEF NobodyTwice
<1>4. \A x : x \in ToSet(Tail(s)) <=> x \in ToSet(s) /\ x # Head(s)
    <2>1. ASSUME NEW x \in ToSet(Tail(s)) PROVE x \in ToSet(s) /\ x # Head(s)
        BY <1>1, <1>2 DEF ToSet, NobodyTwice
    <2>2. ASSUME NEW x \in ToSet(s), x # Head(s) PROVE x \in ToSet(Tail(s))
        <3>1. PICK k \in 1 .. Len(s) : x = s[k]
            BY <1>2 DEF ToSet
        <3>2. k - 1 \in 1 .. (Len(s) - 1) /\ (k - 1) + 1 = k
            BY <1>1, <2>2, <3>1
        <3> QED BY <1>1, <1>2, <3>1, <3>2 DEF ToSet
    <2> QED BY <2>1, <2>2
<1>5. Head(s) \in ToSet(s)
    BY <1>1, <1>2 DEF ToSet
<1> QED BY <1>1, <1>3, <1>4, <1>5

-----------------------------------------------------------------------------
(* Locks: those the registry knows, S, those it has dropped, D, and what the *)
(* visitors wait for, w.                                                    *)

LinesHold(S, D, w) ==
    /\ S \subseteq Lock /\ D \subseteq Lock
    /\ \A l, m \in S : l.key = m.key => l = m
    /\ \A l \in S \union D : NobodyTwice(l.line)
    /\ \A l \in S \union D : l.holder # NoOwner => w[l.holder] = TestWait(l.key)
    /\ \A l \in S \union D : \A v \in Members(l) : w[v] = LockWait(l.key)
    /\ \A l \in S, m \in D : Members(l) \intersect Members(m) = {}
    /\ \A l, m \in D : l # m => Members(l) \intersect Members(m) = {}
    /\ \A v \in Visitors : w[v].on = "lock" =>
            \E l \in S \union D : l.key = w[v].key /\ v \in Members(l)

LEMMA LocksAre ==
    ASSUME NEW l \in Lock
    PROVE  /\ l.key \in Tests /\ l.holder \in Visitors \union {NoOwner}
           /\ l.line \in Seq(Visitors) /\ Members(l) \subseteq Visitors
           /\ Contains(l.line, NoOwner) = FALSE
           /\ \A v : Contains(l.line, v) <=> v \in Members(l)
<1>1. l.key \in Tests /\ l.holder \in Visitors \union {NoOwner} /\ l.line \in Seq(Visitors)
    BY DEF Lock
<1>2. Members(l) \subseteq Visitors /\ Members(l) = {l.line[i] : i \in 1 .. Len(l.line)}
    BY <1>1, MembersAre DEF Members
<1>3. \A v : Contains(l.line, v) <=> v \in Members(l)
    BY <1>2 DEF Contains
<1> QED BY <1>1, <1>2, <1>3, NobodyIsNoVisitor

\* A visitor stands in one line and once, and who has a lock stands in none.
LEMMA OneLineEach ==
    ASSUME NEW S, NEW D, NEW w, LinesHold(S, D, w), NEW l \in S \union D,
           NEW m \in S \union D, NEW v \in Members(l), v \in Members(m)
    PROVE  l = m
<1>1. w[v] = LockWait(l.key) /\ w[v] = LockWait(m.key)
    BY DEF LinesHold
<1>2. l.key = m.key
    BY <1>1 DEF LockWait
<1> QED BY <1>2 DEF LinesHold

\* f is every lock as it is after visitor v left its place, gave the lock back, or
\* got the lock whose turn it was; a dropped lock may go once its line is empty.
LeavesLocks(S, D, w, v, f, S2, D2, w2) ==
    /\ \A u \in Visitors : u # v => w2[u] = w[u]
    /\ w2[v].on # "lock"
    /\ \A l \in S \union D :
            /\ f[l] \in Lock /\ f[l].key = l.key /\ NobodyTwice(f[l].line)
            /\ Members(f[l]) = Members(l) \ {v}
            /\ f[l].holder # NoOwner => w2[f[l].holder] = TestWait(l.key)
    /\ \A n \in S2 : \E l \in S : n = f[l]
    /\ \A l \in S : f[l] \in S2
    /\ \A n \in D2 : \E l \in D : n = f[l]
    /\ \A l \in D : Members(f[l]) # {} => f[l] \in D2

LEMMA LeavingALock ==
    ASSUME NEW S, NEW D, NEW w, LinesHold(S, D, w), NEW v \in Visitors,
           NEW f, NEW S2, NEW D2, NEW w2, LeavesLocks(S, D, w, v, f, S2, D2, w2)
    PROVE  LinesHold(S2, D2, w2)
<1>0. /\ \A u \in Visitors : u # v => w2[u] = w[u]
      /\ w2[v].on # "lock"
      /\ \A l \in S \union D :
            /\ f[l] \in Lock /\ f[l].key = l.key /\ NobodyTwice(f[l].line)
            /\ Members(f[l]) = Members(l) \ {v}
            /\ f[l].holder # NoOwner => w2[f[l].holder] = TestWait(l.key)
      /\ \A l \in D : Members(f[l]) # {} => f[l] \in D2
    BY DEF LeavesLocks
<1>1. \A n \in S2 : \E l \in S : n = f[l]
    BY DEF LeavesLocks
<1>2. \A n \in D2 : \E l \in D : n = f[l]
    BY DEF LeavesLocks
<1>3. \A l \in S : f[l] \in S2
    BY DEF LeavesLocks
<1>4. S2 \subseteq Lock /\ D2 \subseteq Lock
    BY <1>0, <1>1, <1>2
<1>5. \A l, m \in S2 : l.key = m.key => l = m
    BY <1>0, <1>1 DEF LinesHold
<1>6. \A l \in S2 \union D2 : NobodyTwice(l.line)
    BY <1>0, <1>1, <1>2
<1>7. \A l \in S2 \union D2 : l.holder # NoOwner => w2[l.holder] = TestWait(l.key)
    BY <1>0, <1>1, <1>2
<1>8. ASSUME NEW n \in S2 \union D2, NEW u \in Members(n) PROVE w2[u] = LockWait(n.key)
    <2>1. PICK l \in S \union D : n = f[l]
        BY <1>0, <1>1, <1>2
    <2>2. u \in Members(l) /\ u # v /\ n.key = l.key /\ l \in Lock
        BY <1>0, <2>1, <1>8 DEF LinesHold
    <2>3. u \in Visitors
        BY <2>2, LocksAre
    <2> QED BY <1>0, <2>2, <2>3 DEF LinesHold
<1>9. \A l \in S2, m \in D2 : Members(l) \intersect Members(m) = {}
    BY <1>0, <1>1, <1>2 DEF LinesHold
<1>10. \A l, m \in D2 : l # m => Members(l) \intersect Members(m) = {}
    BY <1>0, <1>2 DEF LinesHold
<1>11. ASSUME NEW u \in Visitors, w2[u].on = "lock"
       PROVE  \E l \in S2 \union D2 : l.key = w2[u].key /\ u \in Members(l)
    <2>1. u # v /\ w2[u] = w[u]
        BY <1>0, <1>11
    <2>2. PICK l \in S \union D : l.key = w[u].key /\ u \in Members(l)
        BY <1>11, <2>1 DEF LinesHold
    <2>3. u \in Members(f[l]) /\ f[l].key = w2[u].key
        BY <1>0, <2>1, <2>2
    <2> QED BY <1>0, <1>3, <2>2, <2>3
<1> QED BY <1>4, <1>5, <1>6, <1>7, <1>8, <1>9, <1>10, <1>11 DEF LinesHold

\* A visitor that waits for nothing neither holds a lock nor stands in a line.
LEMMA FreeOfLocks ==
    ASSUME NEW S, NEW D, NEW w, LinesHold(S, D, w), NEW v \in Visitors,
           w[v].on \notin {"lock", "test"}, NEW l \in S \union D
    PROVE  v # l.holder /\ v \notin Members(l)
<1>1. TestWait(l.key).on = "test" /\ LockWait(l.key).on = "lock"
    BY DEF TestWait, LockWait
<1> QED BY <1>1, NobodyIsNoVisitor DEF LinesHold

\* It may come to wait for something else.
LEMMA OtherWaits ==
    ASSUME NEW S, NEW D, NEW w, LinesHold(S, D, w), NEW w2,
           \A u \in Visitors : w2[u] = w[u] \/ {w[u].on, w2[u].on} \intersect {"lock", "test"} = {}
    PROVE  LinesHold(S, D, w2)
<1>1. ASSUME NEW l \in S \union D, l.holder # NoOwner PROVE w2[l.holder] = TestWait(l.key)
    <2>1. l.holder \in Visitors /\ w[l.holder] = TestWait(l.key)
        BY <1>1, LocksAre DEF LinesHold
    <2>2. w[l.holder].on = "test"
        BY <2>1 DEF TestWait
    <2>3. w2[l.holder] = w[l.holder]
        BY <2>1, <2>2
    <2> QED BY <2>1, <2>3
<1>2. ASSUME NEW l \in S \union D, NEW u \in Members(l) PROVE w2[u] = LockWait(l.key)
    <2>1. u \in Visitors /\ w[u] = LockWait(l.key)
        BY <1>2, LocksAre DEF LinesHold
    <2>2. w[u].on = "lock"
        BY <2>1 DEF LockWait
    <2>3. w2[u] = w[u]
        BY <2>1, <2>2
    <2> QED BY <2>1, <2>3
<1>3. ASSUME NEW u \in Visitors, w2[u].on = "lock"
      PROVE  \E l \in S \union D : l.key = w2[u].key /\ u \in Members(l)
    BY <1>3 DEF LinesHold
<1> QED BY <1>1, <1>2, <1>3 DEF LinesHold

\* Visitor v takes the idle lock n, new or known; of the other locks the registry
\* keeps R, and F are those it forgets with visitors in line.
TakesLock(S, R, F, w, v, n, w2) ==
    /\ w[v] = Resting /\ R \subseteq S
    /\ n \in Lock /\ n.line = <<>> /\ \A l \in R : l.key # n.key
    /\ \A u \in Visitors : u # v => w2[u] = w[u]
    /\ w2[v].on # "lock"
    /\ n.holder # NoOwner => n.holder = v /\ w2[v] = TestWait(n.key)
    /\ F \subseteq S \ R /\ \A l \in S \ R : l \notin F => Members(l) = {}

LEMMA TakingALock ==
    ASSUME NEW S, NEW D, NEW w, LinesHold(S, D, w), NEW v \in Visitors,
           NEW R, NEW F, NEW n, NEW w2, TakesLock(S, R, F, w, v, n, w2)
    PROVE  LinesHold(R \union {n}, D \union F, w2)
<1>0. /\ w[v] = Resting /\ R \subseteq S
      /\ n \in Lock /\ n.line = <<>> /\ \A l \in R : l.key # n.key
      /\ \A u \in Visitors : u # v => w2[u] = w[u]
      /\ w2[v].on # "lock"
      /\ n.holder # NoOwner => n.holder = v /\ w2[v] = TestWait(n.key)
      /\ F \subseteq S \ R /\ \A l \in S \ R : l \notin F => Members(l) = {}
    BY DEF TakesLock
<1>1. Members(n) = {} /\ NobodyTwice(n.line)
    BY <1>0 DEF Members, ToSet, NobodyTwice
<1>2. \A l \in S \union D : v # l.holder /\ v \notin Members(l) /\ l \in Lock
    <2>1. w[v].on \notin {"lock", "test"}
        BY <1>0 DEF Resting
    <2>2. \A l \in S \union D : v # l.holder /\ v \notin Members(l)
        BY <2>1, FreeOfLocks
    <2>3. S \union D \subseteq Lock
        BY DEF LinesHold
    <2> QED BY <2>2, <2>3
<1>3. ASSUME NEW l \in S \union D, l.holder # NoOwner PROVE w2[l.holder] = TestWait(l.key)
    <2>1. l.holder \in Visitors /\ l.holder # v
        BY <1>2, <1>3, LocksAre
    <2> QED BY <1>0, <1>3, <2>1 DEF LinesHold
<1>4. ASSUME NEW l \in S \union D, NEW u \in Members(l) PROVE w2[u] = LockWait(l.key)
    <2>1. u \in Visitors /\ u # v
        BY <1>2, <1>4, LocksAre
    <2> QED BY <1>0, <1>4, <2>1 DEF LinesHold
<1>5. ASSUME NEW u \in Visitors, w2[u].on = "lock"
      PROVE  \E l \in R \union D \union F : l.key = w2[u].key /\ u \in Members(l)
    <2>1. w2[u] = w[u]
        BY <1>0, <1>5
    <2>2. PICK l \in S \union D : l.key = w[u].key /\ u \in Members(l)
        BY <1>5, <2>1 DEF LinesHold
    <2> QED BY <1>0, <2>1, <2>2
<1>6. \A l, m \in R \union {n} : l.key = m.key => l = m
    BY <1>0 DEF LinesHold
<1>7. \A l \in R \union {n}, m \in D \union F : Members(l) \intersect Members(m) = {}
    <2>1. ASSUME NEW l \in R, NEW m \in F, NEW u \in Members(l), u \in Members(m) PROVE FALSE
        BY <1>0, <2>1, OneLineEach
    <2> QED BY <1>0, <1>1, <2>1 DEF LinesHold
<1>8. \A l, m \in D \union F : l # m => Members(l) \intersect Members(m) = {}
    <2>1. ASSUME NEW l \in F, NEW m \in D \union F, NEW u \in Members(l), u \in Members(m)
          PROVE  l = m
        BY <1>0, <2>1, OneLineEach
    <2>2. ASSUME NEW l \in D, NEW m \in F, NEW u \in Members(l), u \in Members(m)
          PROVE  l = m
        BY <1>0, <2>2, OneLineEach
    <2> QED BY <2>1, <2>2 DEF LinesHold
<1>9. \A l \in R \union {n} \union D \union F : NobodyTwice(l.line)
    BY <1>0, <1>1 DEF LinesHold
<1>10. R \union {n} \subseteq Lock /\ D \union F \subseteq Lock
    BY <1>0 DEF LinesHold
<1>11. n.holder # NoOwner => w2[n.holder] = TestWait(n.key)
    BY <1>0
<1> QED BY <1>0, <1>1, <1>3, <1>4, <1>5, <1>6, <1>7, <1>8, <1>9, <1>10, <1>11 DEF LinesHold

\* It joins the line of its key.
LEMMA JoiningALine ==
    ASSUME NEW S, NEW D, NEW w, LinesHold(S, D, w), NEW v \in Visitors, w[v] = Resting,
           NEW l \in S, NEW n \in Lock, n.key = l.key, n.holder = l.holder,
           NobodyTwice(n.line), Members(n) = Members(l) \union {v}, NEW w2,
           \A u \in Visitors : u # v => w2[u] = w[u], w2[v] = LockWait(l.key)
    PROVE  LinesHold((S \ {l}) \union {n}, D, w2)
<1> DEFINE R == S \ {l}
<1>0. R \subseteq S /\ (\A m \in R : m # l) /\ (\A m \in S : m = l \/ m \in R)
    OBVIOUS
<1> HIDE DEF R
<1>1. \A m \in S \union D : v # m.holder /\ v \notin Members(m) /\ m \in Lock
    <2>1. w[v].on \notin {"lock", "test"}
        BY DEF Resting
    <2>2. \A m \in S \union D : v # m.holder /\ v \notin Members(m)
        BY <2>1, FreeOfLocks
    <2>3. S \union D \subseteq Lock
        BY DEF LinesHold
    <2> QED BY <2>2, <2>3
<1>2. ASSUME NEW m \in S \union D, m.holder # NoOwner PROVE w2[m.holder] = TestWait(m.key)
    <2>1. m.holder \in Visitors /\ m.holder # v
        BY <1>1, <1>2, LocksAre
    <2> QED BY <1>2, <2>1 DEF LinesHold
<1>3. ASSUME NEW m \in S \union D, NEW u \in Members(m) PROVE w2[u] = LockWait(m.key)
    <2>1. u \in Visitors /\ u # v
        BY <1>1, <1>3, LocksAre
    <2> QED BY <1>3, <2>1 DEF LinesHold
<1>4. ASSUME NEW u \in Visitors, w2[u].on = "lock"
      PROVE  \E m \in R \union {n} \union D : m.key = w2[u].key /\ u \in Members(m)
    <2>1. CASE u = v
        BY <2>1 DEF LockWait
    <2>2. CASE u # v
        <3>1. PICK m \in S \union D : m.key = w[u].key /\ u \in Members(m)
            BY <1>4, <2>2 DEF LinesHold
        <3> QED BY <1>0, <2>2, <3>1
    <2> QED BY <2>1, <2>2
<1>5. \A a, b \in R \union {n} : a.key = b.key => a = b
    BY <1>0 DEF LinesHold
<1>6. \A a \in R \union {n}, b \in D : Members(a) \intersect Members(b) = {}
    BY <1>0, <1>1 DEF LinesHold
<1>7. \A m \in R \union {n} \union D : NobodyTwice(m.line)
    BY <1>0 DEF LinesHold
<1>8. R \union {n} \subseteq Lock
    BY <1>0 DEF LinesHold
<1>9. n.holder # NoOwner => w2[n.holder] = TestWait(n.key)
    BY <1>2
<1>10. \A u \in Members(n) : w2[u] = LockWait(n.key)
    BY <1>3
<1>11. LinesHold(R \union {n}, D, w2)
    BY <1>0, <1>2, <1>3, <1>4, <1>5, <1>6, <1>7, <1>8, <1>9, <1>10 DEF LinesHold
<1> QED BY <1>11 DEF R

-----------------------------------------------------------------------------
(* The registry itself: its locks in the order of their use. *)

LockInv ==
    /\ locks \in Seq(Lock) /\ OneKeyEach(locks)
    /\ LinesHold(ToSet(locks), dropped, waits)

LEMMA KnownLocks ==
    ASSUME NEW s \in Seq(Lock)
    PROVE  /\ ToSet(s) = {s[i] : i \in DOMAIN s} /\ ToSet(s) \subseteq Lock
           /\ DOMAIN s = 1 .. Len(s) /\ \A i \in DOMAIN s : s[i] \in Lock
    BY DEF ToSet

\* Changing every lock in its place.
LEMMA LocksInPlace ==
    ASSUME NEW s \in Seq(Lock), OneKeyEach(s), NEW f,
           \A l \in ToSet(s) : f[l] \in Lock /\ f[l].key = l.key,
           NEW t, t = [i \in DOMAIN s |-> f[s[i]]]
    PROVE  t \in Seq(Lock) /\ OneKeyEach(t) /\ ToSet(t) = {f[l] : l \in ToSet(s)}
<1>1. /\ ToSet(s) = {s[i] : i \in DOMAIN s} /\ DOMAIN s = 1 .. Len(s)
    BY KnownLocks
<1>2. \A i \in DOMAIN s : t[i] = f[s[i]] /\ t[i] \in Lock /\ t[i].key = s[i].key
    BY <1>1
<1>3. DOMAIN t = DOMAIN s /\ Len(s) \in Nat
    OBVIOUS
<1>4. t \in Seq(Lock)
    BY <1>1, <1>2, <1>3
<1>5. OneKeyEach(t)
    BY <1>2, <1>3 DEF OneKeyEach
<1>6. ToSet(t) = {t[i] : i \in DOMAIN t}
    BY DEF ToSet
<1>7. ToSet(t) = {f[l] : l \in ToSet(s)}
    BY <1>1, <1>2, <1>3, <1>6
<1> QED BY <1>4, <1>5, <1>7

LEMMA KeysApart ==
    ASSUME NEW s \in Seq(Lock), OneKeyEach(s)
    PROVE  NobodyTwice(s)
    BY DEF OneKeyEach, NobodyTwice

\* A lock leaves the registry.
LEMMA LockRemoved ==
    ASSUME NEW s \in Seq(Lock), OneKeyEach(s), NEW i \in DOMAIN s
    PROVE  /\ RemoveAt(s, i) \in Seq(Lock) /\ OneKeyEach(RemoveAt(s, i))
           /\ ToSet(RemoveAt(s, i)) = ToSet(s) \ {s[i]}
<1>1. /\ RemoveAt(s, i) \in Seq(Lock) /\ NobodyTwice(RemoveAt(s, i))
      /\ ToSet(RemoveAt(s, i)) = ToSet(s) \ {s[i]}
    BY KeysApart, RemovedFromALine
<1> DEFINE r == RemoveAt(s, i)
<1>2. ToSet(r) = {r[j] : j \in DOMAIN r} /\ ToSet(s) = {s[j] : j \in DOMAIN s}
    BY DEF ToSet
<1>3. r \in Seq(Lock) /\ NobodyTwice(r) /\ ToSet(r) \subseteq ToSet(s)
    BY <1>1
<1> HIDE DEF r
<1>4. \A l, m \in ToSet(s) : l.key = m.key => l = m
    BY <1>2 DEF OneKeyEach
<1>5. \A j \in DOMAIN r : r[j] \in ToSet(s)
    BY <1>2, <1>3
<1>6. OneKeyEach(r)
    BY <1>3, <1>4, <1>5 DEF OneKeyEach, NobodyTwice
<1> QED BY <1>1, <1>6 DEF r

\* A lock of a key of its own joins the registry.
LEMMA LockAdded ==
    ASSUME NEW s \in Seq(Lock), OneKeyEach(s), NEW n \in Lock,
           \A l \in ToSet(s) : l.key # n.key
    PROVE  /\ Append(s, n) \in Seq(Lock) /\ OneKeyEach(Append(s, n))
           /\ ToSet(Append(s, n)) = ToSet(s) \union {n}
<1>1. /\ Append(s, n) \in Seq(Lock) /\ Len(Append(s, n)) = Len(s) + 1 /\ Len(s) \in Nat
      /\ \A j \in 1 .. Len(s) : Append(s, n)[j] = s[j]
      /\ Append(s, n)[Len(s) + 1] = n
    BY AppendProperties, LenProperties
<1>2. DOMAIN Append(s, n) = 1 .. (Len(s) + 1) /\ DOMAIN s = 1 .. Len(s)
    BY <1>1
<1>3. \A j \in 1 .. Len(s) : s[j].key # n.key
    BY <1>2 DEF ToSet
<1>4. OneKeyEach(Append(s, n))
    BY <1>1, <1>2, <1>3 DEF OneKeyEach
<1>5. ToSet(Append(s, n)) = ToSet(s) \union {n}
    BY <1>1, <1>2 DEF ToSet
<1> QED BY <1>1, <1>4, <1>5

LEMMA LockOfAKey ==
    ASSUME NEW k, Known(k)
    PROVE  LockOf(k) \in DOMAIN locks /\ locks[LockOf(k)].key = k
    BY DEF Known, LockOf

\* Pruning takes out at most one lock, and none that is held.
LEMMA PrunedLocks ==
    ASSUME LockInv
    PROVE  /\ Pruned \in Seq(Lock) /\ OneKeyEach(Pruned) /\ ToSet(Pruned) \subseteq ToSet(locks)
           /\ \A l \in ToSet(locks) \ ToSet(Pruned) : l.holder = NoOwner
<1>1. CASE Len(locks) < MaxLocks \/ Victim = {}
    <2>1. Pruned = locks
        BY <1>1 DEF Pruned
    <2> QED BY <2>1 DEF LockInv
<1>2. CASE ~(Len(locks) < MaxLocks \/ Victim = {})
    <2> DEFINE i == CHOOSE i \in Victim : TRUE
    <2>1. i \in Victim
        BY <1>2
    <2>2. Pruned = RemoveAt(locks, i)
        BY <1>2 DEF Pruned
    <2> HIDE DEF i
    <2>3. i \in DOMAIN locks /\ locks[i].holder = NoOwner
        BY <2>1 DEF Victim
    <2>4. /\ RemoveAt(locks, i) \in Seq(Lock) /\ OneKeyEach(RemoveAt(locks, i))
          /\ ToSet(RemoveAt(locks, i)) = ToSet(locks) \ {locks[i]}
        BY <2>3, LockRemoved DEF LockInv
    <2> QED BY <2>2, <2>3, <2>4
<1> QED BY <1>1, <1>2

LEMMA ForgottenLocks ==
    ASSUME LockInv
    PROVE  Forgotten = {l \in ToSet(locks) \ ToSet(Pruned) : Members(l) # {}}
<1>1. ASSUME NEW l \in ToSet(locks) PROVE l.line = <<>> <=> Members(l) = {}
    <2>1. l.line \in Seq(Visitors)
        BY KnownLocks, LocksAre DEF LockInv
    <2>2. Len(l.line) \in Nat /\ Members(l) = {l.line[i] : i \in 1 .. Len(l.line)}
        BY <2>1, MembersAre, LenProperties DEF Members
    <2>3. l.line = <<>> <=> Len(l.line) = 0
        BY <2>1, EmptySeq
    <2>4. ASSUME Len(l.line) # 0 PROVE l.line[1] \in Members(l)
        <3>1. 1 \in 1 .. Len(l.line)
            BY <2>2, <2>4
        <3> QED BY <2>2, <3>1
    <2>5. ASSUME Len(l.line) = 0 PROVE Members(l) = {}
        <3>1. 1 .. Len(l.line) = {}
            BY <2>5
        <3> QED BY <2>2, <3>1
    <2> QED BY <2>3, <2>4, <2>5
<1> QED BY <1>1 DEF Forgotten

\* What a visitor waits for once it has the lock of its key.
LEMMA Entering ==
    ASSUME NEW v \in Visitors, NEW k \in Tests, Enter(v, k), waits \in [Visitors -> AnyWait]
    PROVE  /\ \A u \in Visitors : u # v => waits'[u] = waits[u]
           /\ waits'[v].on # "lock" /\ Keeper(v, k) \in {v, NoOwner}
           /\ Keeper(v, k) # NoOwner => waits'[v] = TestWait(k)
<1>1. CASE Starts(k)
    <2>1. waits' = [waits EXCEPT ![v] = TestWait(k)]
        BY <1>1 DEF Enter, StartTest, TestWait
    <2>2. waits'[v] = TestWait(k) /\ TestWait(k).on = "test"
        BY <2>1 DEF TestWait
    <2> QED BY <1>1, <2>1, <2>2 DEF Keeper
<1>2. CASE ~Starts(k)
    <2>1. waits' = [waits EXCEPT ![v] = Resting]
        BY <1>2 DEF Enter
    <2>2. waits'[v] = Resting /\ Resting.on = "none"
        BY <2>1 DEF Resting
    <2> QED BY <1>2, <2>1, <2>2 DEF Keeper
<1> QED BY <1>1, <1>2

KnownOrDropped == ToSet(locks) \union dropped

\* Every lock as it is after one visitor has left it, or got it.
LEMMA LocksLeft ==
    ASSUME LockInv, NEW v \in Visitors,
           \A u \in Visitors : u # v => waits'[u] = waits[u], waits'[v].on # "lock",
           NEW f, \A l \in KnownOrDropped :
                /\ f[l] \in Lock /\ f[l].key = l.key /\ NobodyTwice(f[l].line)
                /\ Members(f[l]) = Members(l) \ {v}
                /\ f[l].holder # NoOwner => waits'[f[l].holder] = TestWait(l.key),
           locks' = [i \in DOMAIN locks |-> f[locks[i]]],
           dropped' \subseteq {f[l] : l \in dropped},
           \A l \in dropped : Members(f[l]) # {} => f[l] \in dropped'
    PROVE  LockInv'
<1> DEFINE w2 == waits'
           D2 == dropped'
           t == locks'
           S == ToSet(locks)
           S2 == ToSet(t)
<1>1. t \in Seq(Lock) /\ OneKeyEach(t) /\ S2 = {f[l] : l \in S}
    <2>1. locks \in Seq(Lock) /\ OneKeyEach(locks) /\ t = [i \in DOMAIN locks |-> f[locks[i]]]
        BY DEF LockInv
    <2>2. \A l \in ToSet(locks) : f[l] \in Lock /\ f[l].key = l.key
        BY DEF KnownOrDropped
    <2> HIDE DEF t
    <2> QED BY <2>1, <2>2, LocksInPlace
<1>2. LinesHold(S2, D2, w2)
    <2>1. LinesHold(S, dropped, waits)
        BY DEF LockInv
    <2>2. \A l \in S \union dropped :
                /\ f[l] \in Lock /\ f[l].key = l.key /\ NobodyTwice(f[l].line)
                /\ Members(f[l]) = Members(l) \ {v}
                /\ f[l].holder # NoOwner => w2[f[l].holder] = TestWait(l.key)
        BY DEF KnownOrDropped
    <2>3. /\ \A u \in Visitors : u # v => w2[u] = waits[u]
          /\ w2[v].on # "lock" /\ \A n \in D2 : \E l \in dropped : n = f[l]
          /\ \A l \in dropped : Members(f[l]) # {} => f[l] \in D2
        OBVIOUS
    <2> HIDE DEF w2, D2, S, S2, t
    <2>4. (\A n \in S2 : \E l \in S : n = f[l]) /\ \A l \in S : f[l] \in S2
        BY <1>1
    <2>5. LeavesLocks(S, dropped, waits, v, f, S2, D2, w2)
        BY <2>2, <2>3, <2>4 DEF LeavesLocks
    <2> QED BY <2>1, <2>5, LeavingALock
<1>3. S2 = ToSet(locks)'
    BY DEF ToSet
<1> QED BY <1>1, <1>2, <1>3 DEF LockInv, OneKeyEach

LEMMA LockFacts ==
    ASSUME LockInv, NEW l \in KnownOrDropped
    PROVE  /\ l \in Lock /\ NobodyTwice(l.line) /\ l.line \in Seq(Visitors)
           /\ l.holder \in Visitors \union {NoOwner} /\ Members(l) \subseteq Visitors
           /\ l.holder # NoOwner => waits[l.holder] = TestWait(l.key)
           /\ \A v \in Members(l) : waits[v] = LockWait(l.key)
<1>1. l \in Lock
    BY DEF LockInv, LinesHold, KnownOrDropped
<1> QED BY <1>1, LocksAre DEF LockInv, LinesHold, KnownOrDropped

LEMMA NoIdleLockHasMembers ==
    ASSUME NEW k
    PROVE  Members(IdleLock(k)) = {}
    BY DEF Members, IdleLock, ToSet

LEMMA ReleaseKeepsLocks ==
    ASSUME LockInv, NEW v \in Visitors, waits[v].on = "test", Release(v),
           waits \in [Visitors -> AnyWait], waits' = [waits EXCEPT ![v] = Resting]
    PROVE  LockInv'
<1> DEFINE f == [l \in KnownOrDropped |-> IF l.holder = v THEN [l EXCEPT !.holder = NoOwner] ELSE l]
<1>1. /\ \A u \in Visitors : u # v => waits'[u] = waits[u]
      /\ waits'[v].on # "lock"
    BY DEF Resting
<1>2. ASSUME NEW l \in KnownOrDropped
      PROVE  /\ f[l] \in Lock /\ f[l].key = l.key /\ NobodyTwice(f[l].line)
             /\ Members(f[l]) = Members(l) \ {v}
             /\ f[l].holder # NoOwner => waits'[f[l].holder] = TestWait(l.key)
    <2>1. v \notin Members(l)
        <3>1. LockWait(l.key).on = "lock"
            BY DEF LockWait
        <3>2. \A u \in Members(l) : waits[u] = LockWait(l.key)
            BY LockFacts
        <3> QED BY <3>1, <3>2
    <2>2. f[l] = IF l.holder = v THEN [l EXCEPT !.holder = NoOwner] ELSE l
        OBVIOUS
    <2> HIDE DEF f
    <2>3. f[l] \in Lock /\ f[l].key = l.key /\ f[l].line = l.line
        BY <2>2, LockFacts DEF Lock
    <2>4. f[l].holder # NoOwner => f[l].holder = l.holder /\ l.holder # v
        BY <2>2, LockFacts DEF Lock
    <2> QED BY <1>1, <2>1, <2>3, <2>4, LockFacts DEF Members
<1>3. locks' = [i \in DOMAIN locks |-> f[locks[i]]]
    <2>1. \A i \in DOMAIN locks : locks[i] \in KnownOrDropped
        BY DEF KnownOrDropped, ToSet
    <2> QED BY <2>1 DEF Release
<1>4. dropped' = {f[l] : l \in dropped} \ {IdleLock(k) : k \in Tests}
    <2>1. dropped \subseteq KnownOrDropped
        BY DEF KnownOrDropped
    <2> QED BY <2>1 DEF Release
<1> HIDE DEF f
<1>5. \A l \in dropped : Members(f[l]) # {} => f[l] \in dropped'
    BY <1>4, NoIdleLockHasMembers
<1>6. dropped' \subseteq {f[l] : l \in dropped}
    BY <1>4
<1> QED BY <1>1, <1>2, <1>3, <1>5, <1>6, LocksLeft

LEMMA LeaveLineKeepsLocks ==
    ASSUME LockInv, NEW v \in Visitors, waits[v].on = "lock", LeaveLine(v),
           waits \in [Visitors -> AnyWait], waits' = [waits EXCEPT ![v] = Resting]
    PROVE  LockInv'
<1> DEFINE place(l) == CHOOSE i \in DOMAIN l.line : l.line[i] = v
           f == [l \in KnownOrDropped |->
                    IF v \in ToSet(l.line) THEN [l EXCEPT !.line = RemoveAt(@, place(l))] ELSE l]
<1>1. /\ \A u \in Visitors : u # v => waits'[u] = waits[u]
      /\ waits'[v].on # "lock"
    BY DEF Resting
<1>2. ASSUME NEW l \in KnownOrDropped
      PROVE  /\ f[l] \in Lock /\ f[l].key = l.key /\ NobodyTwice(f[l].line)
             /\ Members(f[l]) = Members(l) \ {v}
             /\ f[l].holder # NoOwner => waits'[f[l].holder] = TestWait(l.key)
    <2>1. l.holder # v
        <3>1. TestWait(l.key).on = "test" /\ v # NoOwner
            BY NobodyIsNoVisitor DEF TestWait
        <3>2. l.holder # NoOwner => waits[l.holder] = TestWait(l.key)
            BY LockFacts
        <3> QED BY <3>1, <3>2
    <2>2. CASE v \in ToSet(l.line)
        <3> DEFINE i == place(l)
        <3>1. i \in DOMAIN l.line /\ l.line[i] = v
            BY <2>2 DEF ToSet
        <3>2. f[l] = [l EXCEPT !.line = RemoveAt(l.line, i)]
            BY <2>2
        <3> HIDE DEF i, f
        <3>3. /\ RemoveAt(l.line, i) \in Seq(Visitors) /\ NobodyTwice(RemoveAt(l.line, i))
              /\ ToSet(RemoveAt(l.line, i)) = ToSet(l.line) \ {v}
            BY <3>1, RemovedFromALine, LockFacts
        <3>4. /\ f[l] \in Lock /\ f[l].key = l.key /\ f[l].holder = l.holder
              /\ f[l].line = RemoveAt(l.line, i)
            BY <3>2, <3>3, LockFacts DEF Lock
        <3> QED BY <1>1, <2>1, <3>3, <3>4, LockFacts DEF Members
    <2>3. CASE v \notin ToSet(l.line)
        <3>1. f[l] = l
            BY <2>3
        <3> HIDE DEF f
        <3> QED BY <1>1, <2>1, <2>3, <3>1, LockFacts DEF Members
    <2> QED BY <2>2, <2>3
<1>3. locks' = [i \in DOMAIN locks |-> f[locks[i]]]
    <2>1. \A i \in DOMAIN locks : locks[i] \in KnownOrDropped
        BY DEF KnownOrDropped, ToSet
    <2> QED BY <2>1 DEF LeaveLine
<1>4. dropped' = {f[l] : l \in dropped} \ {IdleLock(k) : k \in Tests}
    <2>1. dropped \subseteq KnownOrDropped
        BY DEF KnownOrDropped
    <2> QED BY <2>1 DEF LeaveLine
<1> HIDE DEF f
<1>5. \A l \in dropped : Members(f[l]) # {} => f[l] \in dropped'
    BY <1>4, NoIdleLockHasMembers
<1>6. dropped' \subseteq {f[l] : l \in dropped}
    BY <1>4
<1> QED BY <1>1, <1>2, <1>3, <1>5, <1>6, LocksLeft

\* The lock whose turn it is goes to the first in its line.
LEMMA WakeKeepsLocks ==
    ASSUME LockInv, TaskInv, NEW v \in Visitors, Wake(v)
    PROVE  LockInv'
<1> DEFINE k == waits[v].key
           moved(l) == [l EXCEPT !.line = Tail(@), !.holder = Keeper(v, k)]
           turn(l) == l.holder = NoOwner /\ l.line # <<>> /\ Head(l.line) = v
<1>0. waits \in [Visitors -> AnyWait]
    BY DEF TaskInv
<1>1. ASSUME NEW m \in KnownOrDropped, turn(m)
      PROVE  /\ m.key = k /\ k \in Tests /\ v \in Members(m)
             /\ moved(m) \in Lock /\ moved(m).key = k /\ NobodyTwice(moved(m).line)
             /\ Members(moved(m)) = Members(m) \ {v} /\ moved(m).holder = Keeper(v, k)
    <2>1. /\ Tail(m.line) \in Seq(Visitors) /\ NobodyTwice(Tail(m.line))
          /\ ToSet(Tail(m.line)) = ToSet(m.line) \ {v} /\ v \in ToSet(m.line)
        BY <1>1, LockFacts, FirstLeavesTheLine
    <2>2. waits[v] = LockWait(m.key)
        BY <2>1, LockFacts DEF Members
    <2>3. m.key = k /\ m.key \in Tests /\ m \in Lock
        <3>1. m \in Lock
            BY LockFacts
        <3>2. LockWait(m.key).key = m.key
            BY DEF LockWait
        <3> QED BY <2>2, <3>1, <3>2, LocksAre
    <2>4. Keeper(v, k) \in Visitors \union {NoOwner}
        BY DEF Keeper
    <2> HIDE DEF k
    <2>5. /\ moved(m) \in Lock /\ moved(m).key = m.key /\ moved(m).holder = Keeper(v, k)
          /\ moved(m).line = Tail(m.line)
        BY <2>1, <2>3, <2>4 DEF Lock
    <2> HIDE DEF moved
    <2> QED BY <2>1, <2>3, <2>5 DEF Members
<1>2. ASSUME NEW m \in KnownOrDropped, turn(m), NEW f,
             f = [l \in KnownOrDropped |-> IF l = m THEN moved(m) ELSE l]
      PROVE  /\ \A u \in Visitors : u # v => waits'[u] = waits[u]
             /\ waits'[v].on # "lock"
             /\ \A l \in KnownOrDropped :
                /\ f[l] \in Lock /\ f[l].key = l.key /\ NobodyTwice(f[l].line)
                /\ Members(f[l]) = Members(l) \ {v}
                /\ f[l].holder # NoOwner => waits'[f[l].holder] = TestWait(l.key)
    <2>1. Enter(v, k) /\ k \in Tests /\ waits[v].on = "lock"
        BY <1>1, <1>2 DEF Wake
    <2>2. m.key = k /\ v \in Members(m) /\ moved(m) \in Lock /\ moved(m).key = k
          /\ NobodyTwice(moved(m).line) /\ Members(moved(m)) = Members(m) \ {v}
          /\ moved(m).holder = Keeper(v, k)
        BY <1>1, <1>2
    <2> HIDE DEF k, moved, turn
    <2>3. /\ \A u \in Visitors : u # v => waits'[u] = waits[u]
          /\ waits'[v].on # "lock" /\ Keeper(v, k) \in {v, NoOwner}
          /\ Keeper(v, k) # NoOwner => waits'[v] = TestWait(k)
        BY <1>0, <2>1, Entering
    <2>4. ASSUME NEW l \in KnownOrDropped, l # m
          PROVE  v \notin Members(l)
        BY <2>2, <2>4, OneLineEach DEF LockInv, KnownOrDropped
    <2>5. ASSUME NEW l \in KnownOrDropped
          PROVE  /\ f[l] \in Lock /\ f[l].key = l.key /\ NobodyTwice(f[l].line)
                 /\ Members(f[l]) = Members(l) \ {v}
                 /\ f[l].holder # NoOwner => waits'[f[l].holder] = TestWait(l.key)
        <3>1. CASE l = m
            <4>1. f[l] = moved(m)
                BY <1>2, <3>1
            <4> QED BY <2>2, <2>3, <3>1, <4>1
        <3>2. CASE l # m
            <4>1. f[l] = l /\ v \notin Members(l)
                BY <1>2, <2>4, <3>2
            <4>2. l.holder # v
                <5>1. TestWait(l.key).on = "test" /\ v # NoOwner
                    BY NobodyIsNoVisitor DEF TestWait
                <5>2. l.holder # NoOwner => waits[l.holder] = TestWait(l.key)
                    BY LockFacts
                <5> QED BY <2>1, <5>1, <5>2
            <4> QED BY <2>3, <4>1, <4>2, LockFacts
        <3> QED BY <3>1, <3>2
    <2> QED BY <2>3, <2>5
<1>3. ASSUME NEW i \in DOMAIN locks, turn(locks[i]), locks' = [locks EXCEPT ![i] = moved(locks[i])],
             UNCHANGED dropped
      PROVE  LockInv'
    <2> DEFINE m == locks[i]
               f == [l \in KnownOrDropped |-> IF l = m THEN moved(m) ELSE l]
    <2>1. \A j \in DOMAIN locks : locks[j] \in KnownOrDropped
        BY DEF KnownOrDropped, ToSet
    <2>2. m \in KnownOrDropped /\ turn(m)
        BY <1>3, <2>1
    <2>3. \A j \in DOMAIN locks : locks[j] = m => j = i
        BY DEF LockInv, OneKeyEach
    <2>4. ASSUME NEW l \in dropped PROVE f[l] = l
        <3>1. v \in Members(m) /\ m \in ToSet(locks)
            BY <1>1, <2>2 DEF ToSet
        <3>2. l # m
            BY <3>1 DEF LockInv, LinesHold
        <3> QED BY <3>2 DEF KnownOrDropped
    <2>5. locks' = [j \in DOMAIN locks |-> f[locks[j]]]
        <3>1. locks' = [j \in DOMAIN locks |-> IF j = i THEN moved(m) ELSE locks[j]]
            BY <1>3
        <3>2. \A j \in DOMAIN locks : f[locks[j]] = IF j = i THEN moved(m) ELSE locks[j]
            BY <2>1, <2>3
        <3> HIDE DEF moved, f
        <3> QED BY <3>1, <3>2
    <2> HIDE DEF moved, m, turn
    <2>6. /\ \A u \in Visitors : u # v => waits'[u] = waits[u]
          /\ waits'[v].on # "lock"
          /\ \A l \in KnownOrDropped :
                /\ f[l] \in Lock /\ f[l].key = l.key /\ NobodyTwice(f[l].line)
                /\ Members(f[l]) = Members(l) \ {v}
                /\ f[l].holder # NoOwner => waits'[f[l].holder] = TestWait(l.key)
        BY <1>2, <2>2
    <2> HIDE DEF f
    <2>7. dropped' = {f[l] : l \in dropped} /\ \A l \in dropped : f[l] \in dropped'
        BY <1>3, <2>4
    <2> QED BY <2>5, <2>6, <2>7, LocksLeft
<1>4. ASSUME NEW m \in dropped, turn(m), UNCHANGED locks,
             dropped' = (dropped \ {m}) \union
                        (IF moved(m) = IdleLock(m.key) THEN {} ELSE {moved(m)})
      PROVE  LockInv'
    <2> DEFINE f == [l \in KnownOrDropped |-> IF l = m THEN moved(m) ELSE l]
    <2>1. \A j \in DOMAIN locks : locks[j] \in KnownOrDropped
        BY DEF KnownOrDropped, ToSet
    <2>2. m \in KnownOrDropped
        BY DEF KnownOrDropped
    <2>3. \A j \in DOMAIN locks : f[locks[j]] = locks[j]
        <3>1. ASSUME NEW j \in DOMAIN locks PROVE locks[j] # m
            <4>1. v \in Members(m) /\ locks[j] \in ToSet(locks)
                BY <1>1, <1>4, <2>2 DEF ToSet
            <4> QED BY <4>1 DEF LockInv, LinesHold
        <3> QED BY <2>1, <3>1
    <2>4. f[m] = moved(m) /\ \A l \in dropped : l # m => f[l] = l
        BY <2>2 DEF KnownOrDropped
    <2>5. /\ \A u \in Visitors : u # v => waits'[u] = waits[u]
          /\ waits'[v].on # "lock"
          /\ \A l \in KnownOrDropped :
                /\ f[l] \in Lock /\ f[l].key = l.key /\ NobodyTwice(f[l].line)
                /\ Members(f[l]) = Members(l) \ {v}
                /\ f[l].holder # NoOwner => waits'[f[l].holder] = TestWait(l.key)
        <3> HIDE DEF moved, turn
        <3> QED BY <1>2, <1>4, <2>2
    <2> HIDE DEF f, moved, turn
    <2>6. locks' = [j \in DOMAIN locks |-> f[locks[j]]]
        <3>1. locks = [j \in DOMAIN locks |-> locks[j]]
            BY DEF LockInv
        <3> QED BY <1>4, <2>3, <3>1
    <2>7. dropped' \subseteq {f[l] : l \in dropped}
        BY <1>4, <2>4
    <2>8. ASSUME NEW l \in dropped, Members(f[l]) # {} PROVE f[l] \in dropped'
        <3>1. f[l] # IdleLock(m.key)
            BY <2>8, NoIdleLockHasMembers
        <3> QED BY <1>4, <2>4, <3>1
    <2> QED BY <2>5, <2>6, <2>7, <2>8, LocksLeft
<1>5. \/ \E i \in DOMAIN locks :
            turn(locks[i]) /\ locks' = [locks EXCEPT ![i] = moved(locks[i])] /\ UNCHANGED dropped
      \/ \E m \in dropped :
            /\ turn(m) /\ UNCHANGED locks
            /\ dropped' = (dropped \ {m}) \union
                        (IF moved(m) = IdleLock(m.key) THEN {} ELSE {moved(m)})
    BY DEF Wake
<1> HIDE DEF k, moved, turn
<1> QED BY <1>3, <1>4, <1>5

\* A request for a back-test is answered, joins the line of its key, or takes its lock.
LEMMA AskTestKeepsLocks ==
    ASSUME LockInv, TaskInv, NEW v \in Visitors, NEW k \in Tests, AskTest(v, k)
    PROVE  LockInv'
<1> DEFINE entry == IF Known(k) THEN locks[LockOf(k)] ELSE IdleLock(k)
           others == IF Known(k) THEN RemoveAt(locks, LockOf(k)) ELSE Pruned
           queues == entry.holder # NoOwner \/ entry.line # <<>>
           S == ToSet(locks)
           R == ToSet(others)
           w2 == waits'
<1>1. waits \in [Visitors -> AnyWait] /\ waits[v] = Resting
    BY DEF TaskInv, AskTest, Free
<1>2. /\ entry \in Lock /\ entry.key = k /\ NobodyTwice(entry.line)
      /\ Known(k) => entry \in S
    <2>1. CASE Known(k)
        <3>1. LockOf(k) \in DOMAIN locks /\ locks[LockOf(k)].key = k
            BY <2>1, LockOfAKey
        <3>2. entry = locks[LockOf(k)] /\ entry \in S
            BY <2>1, <3>1 DEF ToSet
        <3>3. entry \in KnownOrDropped
            BY <3>2 DEF KnownOrDropped
        <3> HIDE DEF entry
        <3> QED BY <3>1, <3>2, <3>3, LockFacts
    <2>2. CASE ~Known(k)
        BY <2>2 DEF IdleLock, Lock, NobodyTwice
    <2> QED BY <2>1, <2>2
<1>3. /\ others \in Seq(Lock) /\ OneKeyEach(others) /\ R \subseteq S
      /\ \A l \in R : l.key # k
    <2>1. CASE Known(k)
        <3>1. LockOf(k) \in DOMAIN locks /\ locks[LockOf(k)].key = k
            BY <2>1, LockOfAKey
        <3>2. /\ others \in Seq(Lock) /\ OneKeyEach(others)
              /\ R = S \ {locks[LockOf(k)]}
            BY <2>1, <3>1, LockRemoved DEF LockInv
        <3>3. \A l, m \in S : l.key = m.key => l = m
            BY DEF LockInv, LinesHold
        <3>4. locks[LockOf(k)] \in S
            BY <3>1 DEF ToSet
        <3> QED BY <3>1, <3>2, <3>3, <3>4
    <2>2. CASE ~Known(k)
        <3>1. others = Pruned
            BY <2>2
        <3>2. \A l \in S : l.key # k
            BY <2>2 DEF Known, ToSet
        <3> HIDE DEF others
        <3> QED BY <3>1, <3>2, PrunedLocks
    <2> QED BY <2>1, <2>2
<1>4. CASE UNCHANGED <<waits, locks, dropped>>
    BY <1>4 DEF LockInv, OneKeyEach, ToSet
<1>5. CASE /\ queues /\ waits' = [waits EXCEPT ![v] = [on |-> "lock", key |-> k, asked |-> Unread]]
           /\ locks' = Append(others, [entry EXCEPT !.line = Append(@, v)]) /\ UNCHANGED dropped
    <2> DEFINE n == [entry EXCEPT !.line = Append(@, v)]
    <2>1. Known(k)
        BY <1>5 DEF IdleLock
    <2>2. entry \in S /\ entry \in KnownOrDropped
        BY <1>2, <2>1 DEF KnownOrDropped
    <2>3. R = S \ {entry}
        <3>1. LockOf(k) \in DOMAIN locks
            BY <2>1, LockOfAKey
        <3> QED BY <2>1, <3>1, LockRemoved DEF LockInv
    <2>4. v \notin Members(entry) /\ entry.line \in Seq(Visitors)
        <3> HIDE DEF entry
        <3>1. \A u \in Members(entry) : waits[u] = LockWait(entry.key)
            BY <2>2, LockFacts
        <3>2. Resting.on = "none" /\ LockWait(entry.key).on = "lock"
            BY DEF Resting, LockWait
        <3> QED BY <1>1, <2>2, <3>1, <3>2, LockFacts
    <2>5. locks' = Append(others, n) /\ dropped' = dropped
        BY <1>5
    <2>6. /\ n \in Lock /\ n.key = entry.key /\ n.holder = entry.holder
          /\ n.line = Append(entry.line, v)
        <3> HIDE DEF entry
        <3>1. Append(entry.line, v) \in Seq(Visitors)
            BY <2>4
        <3> QED BY <1>2, <3>1 DEF Lock
    <2> HIDE DEF entry, others, n
    <2>7. NobodyTwice(n.line) /\ Members(n) = Members(entry) \union {v}
        <3>1. /\ NobodyTwice(Append(entry.line, v))
              /\ ToSet(Append(entry.line, v)) = ToSet(entry.line) \union {v}
            BY <1>2, <2>4, AddedToALine DEF Members
        <3> QED BY <2>6, <3>1 DEF Members
    <2>8. w2[v] = LockWait(entry.key) /\ \A u \in Visitors : u # v => w2[u] = waits[u]
        BY <1>1, <1>2, <1>5 DEF LockWait
    <2>9. LinesHold(S, dropped, waits)
        BY DEF LockInv
    <2> HIDE DEF S, w2
    <2>10. LinesHold((S \ {entry}) \union {n}, dropped, w2)
        BY <1>1, <2>2, <2>6, <2>7, <2>8, <2>9, JoiningALine
    <2>11. /\ Append(others, n) \in Seq(Lock) /\ OneKeyEach(Append(others, n))
           /\ ToSet(Append(others, n)) = R \union {n}
        BY <1>2, <1>3, <2>6, LockAdded
    <2>12. ToSet(locks)' = R \union {n} /\ locks' \in Seq(Lock) /\ OneKeyEach(locks)'
        BY <2>5, <2>11 DEF ToSet, OneKeyEach
    <2>13. LinesHold(ToSet(locks)', dropped', waits')
        BY <2>3, <2>5, <2>10, <2>12 DEF w2
    <2> QED BY <2>12, <2>13 DEF LockInv
<1>6. CASE /\ ~queues /\ Enter(v, k)
           /\ locks' = Append(others, [entry EXCEPT !.holder = Keeper(v, k)])
           /\ dropped' = IF Known(k) THEN dropped ELSE dropped \union Forgotten
    <2> DEFINE n == [entry EXCEPT !.holder = Keeper(v, k)]
               F == {l \in S \ R : Members(l) # {}}
    <2>1. /\ \A u \in Visitors : u # v => w2[u] = waits[u]
          /\ w2[v].on # "lock" /\ Keeper(v, k) \in {v, NoOwner}
          /\ Keeper(v, k) # NoOwner => w2[v] = TestWait(k)
        BY <1>1, <1>6, Entering
    <2>2. entry.holder = NoOwner /\ entry.line = <<>>
        BY <1>6
    <2>3. dropped' = dropped \union F
        <3>1. CASE Known(k)
            <4>1. R = S \ {entry}
                BY <3>1, LockOfAKey, LockRemoved DEF LockInv
            <4>2. Members(entry) = {}
                <5> HIDE DEF entry
                <5> QED BY <2>2 DEF Members, ToSet
            <4>3. F = {}
                <5> HIDE DEF entry, R
                <5> QED BY <4>1, <4>2
            <4> QED BY <1>6, <3>1, <4>3
        <3>2. CASE ~Known(k)
            BY <1>6, <3>2, ForgottenLocks
        <3> QED BY <3>1, <3>2
    <2>4. locks' = Append(others, n)
        BY <1>6
    <2> HIDE DEF entry, others
    <2>5. /\ n \in Lock /\ n.key = k /\ n.holder = Keeper(v, k) /\ n.line = <<>>
        BY <1>2, <2>1, <2>2 DEF Lock
    <2>6. LinesHold(S, dropped, waits)
        BY DEF LockInv
    <2> HIDE DEF S, w2, n
    <2>7. LinesHold(R \union {n}, dropped \union F, w2)
        <3> HIDE DEF R
        <3>1. \A l \in R : l.key # n.key
            BY <1>3, <2>5
        <3>2. n.holder # NoOwner => n.holder = v /\ w2[v] = TestWait(n.key)
            BY <2>1, <2>5
        <3>3. F \subseteq S \ R /\ \A l \in S \ R : l \notin F => Members(l) = {}
            OBVIOUS
        <3>4. TakesLock(S, R, F, waits, v, n, w2)
            BY <1>1, <1>3, <2>1, <2>5, <3>1, <3>2, <3>3 DEF TakesLock
        <3> HIDE DEF F
        <3> QED BY <2>6, <3>4, TakingALock
    <2>8. /\ Append(others, n) \in Seq(Lock) /\ OneKeyEach(Append(others, n))
          /\ ToSet(Append(others, n)) = R \union {n}
        BY <1>3, <2>5, LockAdded
    <2>9. ToSet(locks)' = R \union {n} /\ locks' \in Seq(Lock) /\ OneKeyEach(locks)'
        BY <2>4, <2>8 DEF ToSet, OneKeyEach
    <2>10. LinesHold(ToSet(locks)', dropped', waits')
        BY <2>3, <2>7, <2>9 DEF w2
    <2> QED BY <2>9, <2>10 DEF LockInv
<1> QED BY <1>4, <1>5, <1>6 DEF AskTest

\* The steps that leave the locks where they are.
LEMMA LocksUntouched ==
    ASSUME LockInv, UNCHANGED <<locks, dropped>>,
           \A u \in Visitors : \/ waits'[u] = waits[u]
                               \/ {waits[u].on, waits'[u].on} \intersect {"lock", "test"} = {}
    PROVE  LockInv'
<1> DEFINE w2 == waits'
           S == ToSet(locks)
<1>1. LinesHold(S, dropped, waits)
    BY DEF LockInv
<1>2. \A u \in Visitors : w2[u] = waits[u] \/ {waits[u].on, w2[u].on} \intersect {"lock", "test"} = {}
    OBVIOUS
<1>3. ToSet(locks)' = S
    BY DEF ToSet
<1> HIDE DEF w2, S
<1>4. LinesHold(S, dropped, w2)
    BY <1>1, <1>2, OtherWaits
<1> QED BY <1>3, <1>4 DEF LockInv, OneKeyEach, w2

LEMMA LocksStep ==
    ASSUME LockInv, TaskInv, [AdmissionNext]_admissionVars
    PROVE  LockInv'
<1>0. waits \in [Visitors -> AnyWait]
    BY DEF TaskInv
<1>1. CASE UNCHANGED <<waits, locks, dropped>>
    BY <1>1, LocksUntouched
<1>2. CASE CacheStep \/ TestBegins \/ TestEnds \/ TestFinished
    BY <1>1, <1>2 DEF CacheStep, Age, Invalidate, TestBegins, TestEnds, TestFinished
<1>3. ASSUME NEW kind, MissForgotten(kind) PROVE LockInv'
    BY <1>1, <1>3 DEF MissForgotten
<1>4. ASSUME NEW k, Prewarm(k) PROVE LockInv'
    BY <1>1, <1>4 DEF Prewarm
<1>5. ASSUME NEW t \in tasks, ScanBegins(t) \/ ScanEnds(t) PROVE LockInv'
    BY <1>1, <1>5 DEF ScanBegins, ScanEnds
<1>6. ASSUME NEW v \in Visitors, NEW k \in Scans, AskScan(v, k) PROVE LockInv'
    <2>1. waits[v] = Resting /\ UNCHANGED <<locks, dropped>>
        BY <1>6 DEF AskScan, Free
    <2>2. UNCHANGED waits \/ waits' = [waits EXCEPT ![v] = ScanWait(k, generation)]
        BY <1>6 DEF AskScan, StartScan, WaitFor, ScanWait
    <2>3. ScanWait(k, generation).on = "scan" /\ Resting.on = "none"
        BY DEF ScanWait, Resting
    <2>4. \A u \in Visitors : \/ waits'[u] = waits[u]
                              \/ {waits[u].on, waits'[u].on} \intersect {"lock", "test"} = {}
        BY <1>0, <2>1, <2>2, <2>3
    <2> QED BY <2>1, <2>4, LocksUntouched
<1>7. ASSUME NEW t \in tasks, ScanFinished(t) PROVE LockInv'
    <2>1. UNCHANGED <<locks, dropped>>
        BY <1>7 DEF ScanFinished
    <2>2. \A u \in Visitors :
            waits'[u] = IF waits[u] = ScanWait(t.key, t.asked) THEN Resting ELSE waits[u]
        BY <1>7 DEF ScanFinished, ScanWait
    <2>3. ScanWait(t.key, t.asked).on = "scan" /\ Resting.on = "none"
        BY DEF ScanWait, Resting
    <2> QED BY <2>1, <2>2, <2>3, LocksUntouched
<1>8. ASSUME NEW v \in Visitors, NEW k \in Tests, AskTest(v, k) PROVE LockInv'
    BY <1>8, AskTestKeepsLocks
<1>9. ASSUME NEW v \in Visitors, Wake(v) PROVE LockInv'
    BY <1>9, WakeKeepsLocks
<1>10. ASSUME NEW v \in Visitors, Answered(v) PROVE LockInv'
    BY <1>0, <1>10, ReleaseKeepsLocks DEF Answered
<1>11. ASSUME NEW v \in Visitors, Disconnect(v) PROVE LockInv'
    <2>1. waits' = [waits EXCEPT ![v] = Resting] /\ waits[v].on \in {"none", "scan", "lock", "test"}
        BY <1>0, <1>11 DEF Disconnect, AnyWait
    <2>2. CASE waits[v].on = "test"
        BY <1>0, <1>11, <2>1, <2>2, ReleaseKeepsLocks DEF Disconnect
    <2>3. CASE waits[v].on = "lock"
        BY <1>0, <1>11, <2>1, <2>3, LeaveLineKeepsLocks DEF Disconnect
    <2>4. CASE waits[v].on \in {"none", "scan"}
        <3>1. UNCHANGED <<locks, dropped>>
            BY <1>11, <2>4 DEF Disconnect
        <3>2. Resting.on = "none"
            BY DEF Resting
        <3>3. \A u \in Visitors : waits'[u] = IF u = v THEN Resting ELSE waits[u]
            BY <1>0, <2>1
        <3> QED BY <2>4, <3>1, <3>2, <3>3, LocksUntouched
    <2> QED BY <2>1, <2>2, <2>3, <2>4
<1> QED BY <1>1, <1>2, <1>3, <1>4, <1>5, <1>6, <1>7, <1>8, <1>9, <1>10, <1>11
        DEF AdmissionNext, ScanStep, TestStep, Leaving, admissionVars

LEMMA LocksInit == AdmissionInit => LockInv
<1> SUFFICES ASSUME AdmissionInit PROVE LockInv
    OBVIOUS
<1>1. locks = <<>> /\ ToSet(locks) = {} /\ dropped = {}
    BY DEF AdmissionInit, ToSet
<1>2. \A v \in Visitors : waits[v].on # "lock"
    BY DEF AdmissionInit, Resting
<1>3. locks \in Seq(Lock) /\ OneKeyEach(locks)
    BY <1>1 DEF OneKeyEach
<1> QED BY <1>1, <1>2, <1>3 DEF LockInv, LinesHold

LEMMA LinesAskForTests ==
    ASSUME LockInv
    PROVE  LinesAreForTests
<1>1. ASSUME NEW v \in Visitors, waits[v].on = "lock" PROVE waits[v].key \in Tests
    <2>1. PICK l \in ToSet(locks) \union dropped : l.key = waits[v].key
        BY <1>1 DEF LockInv, LinesHold
    <2>2. l \in Lock
        BY DEF LockInv, LinesHold
    <2> QED BY <2>1, <2>2, LocksAre
<1> QED BY <1>1 DEF LinesAreForTests

LEMMA GateInit == AdmissionInit => GateInv
<1>1. NoTest \in AnyTest
    BY DEF NoTest, AnyTest, Stages
<1> QED BY <1>1 DEF AdmissionInit, GateInv

AdmissionInv == TaskInv /\ LockInv /\ GateInv

LEMMA WhatTheInvariantSays ==
    ASSUME AdmissionInv
    PROVE  WaitersHaveWork
<1>1. /\ Cardinality(tasks) <= MaxTasks
      /\ \A t, u \in tasks : t.key = u.key /\ t.asked = u.asked => t = u
      /\ \A v \in Visitors : waits[v].on = "scan" =>
            \E t \in tasks : t.key = waits[v].key /\ t.asked = waits[v].asked
    BY DEF AdmissionInv, TaskInv
<1>2. gate = (test # NoTest)
    BY DEF AdmissionInv, GateInv
<1>3. ASSUME NEW v \in Visitors, waits[v].on = "lock"
      PROVE  \E l \in ToSet(locks) \union dropped : l.key = waits[v].key /\ Contains(l.line, v)
    <2>1. PICK l \in ToSet(locks) \union dropped : l.key = waits[v].key /\ v \in Members(l)
        BY <1>3 DEF AdmissionInv, LockInv, LinesHold
    <2>2. l \in Lock
        BY DEF AdmissionInv, LockInv, LinesHold
    <2> QED BY <2>1, <2>2, LocksAre
<1>4. \A l \in ToSet(locks) \union dropped :
        l.holder # NoOwner => waits[l.holder] = [on |-> "test", key |-> l.key, asked |-> Unread]
    BY DEF AdmissionInv, LockInv, LinesHold, TestWait
<1> QED BY <1>1, <1>2, <1>3, <1>4 DEF WaitersHaveWork

\* The slots, the gate and the locks are taken by work that is under way, through
\* every order of arriving, finishing and leaving, and whoever waits waits for it
\* (services/scan_work.py, services/cache.py, routers/stocks.py).
THEOREM AdmissionIsWork == AdmissionSpec => []WaitersHaveWork
<1>1. AdmissionInit => AdmissionInv
    BY TasksInit, LocksInit, GateInit DEF AdmissionInv
<1>2. AdmissionInv /\ [AdmissionNext]_admissionVars => AdmissionInv'
    BY TasksStep, LocksStep, GateStep, LinesAskForTests DEF AdmissionInv
<1>3. AdmissionInv => WaitersHaveWork
    BY WhatTheInvariantSays
<1> QED BY <1>1, <1>2, <1>3, PTL DEF AdmissionSpec

-----------------------------------------------------------------------------
(* What a client pays for. *)

MissesCount == spent \in [{"scan", "test"} -> Nat]

LEMMA EnterPays ==
    ASSUME MissesCount, NEW v \in Visitors, NEW k \in Tests, Enter(v, k)
    PROVE  /\ MissesCount' /\ spent'["scan"] = spent["scan"]
           /\ spent'["test"] > spent["test"] => ~gate /\ test'.stage = "new"
<1>1. CASE Starts(k)
    <2>1. spent' = [spent EXCEPT !["test"] = @ + 1] /\ ~gate /\ test'.stage = "new"
        BY <1>1 DEF Enter, StartTest, Starts
    <2> QED BY <2>1 DEF MissesCount
<1>2. CASE ~Starts(k)
    BY <1>2 DEF Enter, MissesCount
<1> QED BY <1>1, <1>2

LEMMA PaysStep ==
    ASSUME MissesCount, TaskInv, LinesAreForTests, [AdmissionNext]_admissionVars
    PROVE  MissesCount' /\ PaysForWork
<1>1. CASE UNCHANGED spent
    BY <1>1 DEF MissesCount, PaysForWork
<1>2. CASE CacheStep \/ TestBegins \/ TestEnds \/ TestFinished \/ Leaving
    BY <1>1, <1>2 DEF CacheStep, Age, Invalidate, TestBegins, TestEnds, TestFinished, Leaving, Disconnect
<1>3. ASSUME NEW k, Prewarm(k) PROVE UNCHANGED spent
    BY <1>3 DEF Prewarm
<1>4. ASSUME NEW t \in tasks, ScanBegins(t) \/ ScanEnds(t) \/ ScanFinished(t) PROVE UNCHANGED spent
    BY <1>4 DEF ScanBegins, ScanEnds, ScanFinished
<1>5. ASSUME NEW kind \in {"scan", "test"}, MissForgotten(kind) PROVE MissesCount' /\ PaysForWork
    <2>1. spent[kind] > 0 /\ spent' = [spent EXCEPT ![kind] = @ - 1]
        BY <1>5 DEF MissForgotten
    <2>2. spent'["scan"] <= spent["scan"] /\ spent'["test"] <= spent["test"] /\ MissesCount'
        BY <2>1 DEF MissesCount
    <2> QED BY <2>2 DEF MissesCount, PaysForWork
<1>6. ASSUME NEW v \in Visitors, NEW k \in Scans, AskScan(v, k) PROVE MissesCount' /\ PaysForWork
    <2>1. CASE ~Shared(k) /\ StartScan(v, k)
        <3>1. spent' = [spent EXCEPT !["scan"] = @ + 1]
            BY <2>1 DEF StartScan
        <3>2. Cardinality(tasks') > Cardinality(tasks)
            BY <1>6, <2>1, StartScanKeepsTasks DEF AskScan
        <3>3. MissesCount' /\ spent'["test"] = spent["test"] /\ spent["test"] \in Nat
            BY <3>1 DEF MissesCount
        <3> QED BY <3>2, <3>3 DEF PaysForWork
    <2> QED BY <1>1, <1>6, <2>1 DEF AskScan
<1>7. ASSUME NEW v \in Visitors, NEW k \in Tests, Enter(v, k) PROVE MissesCount' /\ PaysForWork
    <2>1. MissesCount' /\ spent'["scan"] = spent["scan"] /\ spent["scan"] \in Nat
        BY <1>7, EnterPays DEF MissesCount
    <2>2. spent'["test"] > spent["test"] => ~gate /\ test'.stage = "new"
        BY <1>7, EnterPays
    <2> QED BY <2>1, <2>2 DEF PaysForWork
<1>8. ASSUME NEW v \in Visitors, NEW k \in Tests, AskTest(v, k) PROVE MissesCount' /\ PaysForWork
    BY <1>1, <1>7, <1>8 DEF AskTest
<1>9. ASSUME NEW v \in Visitors, Wake(v) PROVE MissesCount' /\ PaysForWork
    <2>1. waits[v].key \in Tests /\ Enter(v, waits[v].key)
        BY <1>9 DEF Wake, LinesAreForTests
    <2> QED BY <1>7, <2>1
<1>10. ASSUME NEW v \in Visitors, Answered(v) PROVE UNCHANGED spent
    BY <1>10 DEF Answered
<1> QED BY <1>1, <1>2, <1>3, <1>4, <1>5, <1>6, <1>8, <1>9, <1>10
        DEF AdmissionNext, ScanStep, TestStep, admissionVars

\* Answers from the cache, joined scans and refused requests cost a client nothing
\* (services/scan_work.py:26).
THEOREM ClientsPayForWork == AdmissionSpec => RefusalsAreFree
<1>1. AdmissionInit => MissesCount /\ TaskInv /\ LockInv
    BY TasksInit, LocksInit DEF AdmissionInit, MissesCount
<1>2. MissesCount /\ TaskInv /\ LockInv /\ [AdmissionNext]_admissionVars
        => (MissesCount /\ TaskInv /\ LockInv)' /\ PaysForWork
    BY TasksStep, LocksStep, LinesAskForTests, PaysStep
<1> QED BY <1>1, <1>2, PTL DEF AdmissionSpec, RefusalsAreFree

-----------------------------------------------------------------------------
(* Reported errors. *)

Groups == [kind : Kinds, count : Nat, pending : Nat]

\* Inductive: the hits add up, and what threads hold and the table lists was made.
TrackerInv ==
    /\ objects \in Seq(Groups) /\ groups \in Seq(Made)
    /\ holding \in [Threads -> Made \union {Nobody}]
    /\ written \in [Kinds -> Nat]
    /\ HitsAddUp

LEMMA MadeFacts ==
    ASSUME objects \in Seq(Groups)
    PROVE  /\ Len(objects) \in Nat /\ Made = DOMAIN objects /\ Nobody \notin Made
           /\ \A o \in Made : objects[o] \in Groups
           /\ \A k \in Kinds : IsFiniteSet(GroupsOf(k)) /\ GroupsOf(k) \subseteq Made
<1>1. Len(objects) \in Nat /\ Made = DOMAIN objects /\ Nobody \notin Made
    BY DEF Made, Nobody
<1>2. IsFiniteSet(Made)
    BY <1>1, FS_Interval DEF Made
<1>3. \A k \in Kinds : GroupsOf(k) \in SUBSET Made
    BY DEF GroupsOf
<1>. QED BY <1>1, <1>2, <1>3, FS_Subset

LEMMA SumsAreIntegers ==
    ASSUME objects \in Seq(Groups), NEW k \in Kinds
    PROVE  Pending(k) \in Int /\ Counted(k) \in Int
<1>1. \A o \in GroupsOf(k) : objects[o].pending \in Int /\ objects[o].count \in Int
    BY MadeFacts DEF Groups
<1>2. \A o \in GroupsOf(k) : /\ [x \in Made |-> objects[x].pending][o] \in Int
                             /\ [x \in Made |-> objects[x].count][o] \in Int
    BY <1>1 DEF GroupsOf
<1>. QED BY <1>2, MadeFacts, SumIsInteger DEF Pending, Counted

\* A thread takes a group, or lets go of the one it holds.
LEMMA HeldIsFinite ==
    ASSUME NEW k \in Kinds
    PROVE  IsFiniteSet(Held(k)) /\ Cardinality(Held(k)) \in Nat
<1>1. Held(k) \in SUBSET Threads
    BY DEF Held
<1>. QED BY <1>1, TrackerBounds, FS_Subset, FS_CardinalityType

LEMMA ThreadTakes ==
    ASSUME TrackerInv, NEW t \in Threads, NEW o \in Made', o # Nobody,
           holding[t] = Nobody, holding' = [holding EXCEPT ![t] = o],
           \A x \in Made : objects'[x].kind = objects[x].kind,
           NEW k \in Kinds
    PROVE  Cardinality(Held(k))'
               = Cardinality(Held(k)) + (IF objects'[o].kind = k THEN 1 ELSE 0)
<1>1. \A s \in Threads : /\ holding'[s] = IF s = t THEN o ELSE holding[s]
                         /\ holding[s] # Nobody => holding[s] \in Made
    BY DEF TrackerInv
<1>2. t \notin Held(k)
    BY DEF Held
<1>3. CASE objects'[o].kind = k
    <2>1. Held(k)' = Held(k) \union {t}
        BY <1>1, <1>3 DEF Held
    <2>. QED BY <1>2, <1>3, <2>1, HeldIsFinite, FS_AddElement
<1>4. CASE objects'[o].kind # k
    <2>1. Held(k)' = Held(k)
        BY <1>1, <1>2, <1>4 DEF Held
    <2>. QED BY <1>4, <2>1, HeldIsFinite
<1>. QED BY <1>3, <1>4

LEMMA ThreadLetsGo ==
    ASSUME TrackerInv, NEW t \in Threads, holding[t] # Nobody,
           holding' = [holding EXCEPT ![t] = Nobody],
           \A x \in Made : objects'[x].kind = objects[x].kind,
           NEW k \in Kinds
    PROVE  Cardinality(Held(k))'
               = Cardinality(Held(k)) - (IF objects[holding[t]].kind = k THEN 1 ELSE 0)
<1>1. \A s \in Threads : /\ holding'[s] = IF s = t THEN Nobody ELSE holding[s]
                         /\ holding[s] # Nobody => holding[s] \in Made
    BY DEF TrackerInv
<1>2. CASE objects[holding[t]].kind = k
    <2>1. Held(k)' = Held(k) \ {t} /\ t \in Held(k)
        BY <1>1, <1>2 DEF Held
    <2>. QED BY <1>2, <2>1, HeldIsFinite, FS_RemoveElement
<1>3. CASE objects[holding[t]].kind # k
    <2>1. Held(k)' = Held(k)
        BY <1>1, <1>3 DEF Held
    <2>. QED BY <1>3, <2>1, HeldIsFinite
<1>. QED BY <1>2, <1>3

\* A new group has one hit, and none of them pending.
LEMMA CreateKeepsInv ==
    ASSUME TrackerInv, NEW t \in Threads, NEW kind \in Kinds, holding[t] = Nobody,
           Create(t, kind), UNCHANGED written
    PROVE  TrackerInv'
<1>. DEFINE n == Len(objects) + 1
            new == [kind |-> kind, count |-> 1, pending |-> 0]
<1>1. new \in Groups /\ objects \in Seq(Groups)
    BY DEF Groups, TrackerInv
<1>2. objects' = Append(objects, new)
    BY DEF Create
<1>3. objects' \in Seq(Groups) /\ Len(objects') = n
    BY <1>1, <1>2
<1>4. Made' = Made \union {n} /\ n \notin Made /\ n # Nobody /\ n \in Made'
    BY <1>3, MadeFacts, <1>1 DEF Made, Nobody
<1>5. objects'[n] = new /\ \A o \in Made : objects'[o] = objects[o]
    BY <1>1, <1>2, MadeFacts
<1>6. groups' \in Seq(Made')
    <2>1. groups \in Seq(Made') /\ n \in Made'
        <3>1. groups \in Seq(Made) /\ Made \subseteq Made'
            BY <1>4 DEF TrackerInv
        <3>. HIDE DEF n
        <3>. QED BY <1>4, <3>1
    <2>. HIDE DEF n
    <2>2. ASSUME NEW S, groups \in Seq(S), n \in S
          PROVE  Append(groups, n) \in Seq(S) /\ Tail(Append(groups, n)) \in Seq(S)
        <3>1. Append(groups, n) \in Seq(S) /\ Len(Append(groups, n)) = Len(groups) + 1
              /\ Len(groups) \in Nat
            BY <2>2
        <3>2. Append(groups, n) # <<>>
            BY <3>1
        <3>. QED BY <3>1, <3>2
    <2>3. /\ Append(groups, n) \in Seq(Made')
          /\ Tail(Append(groups, n)) \in Seq(Made')
        BY <2>1, <2>2
    <2>. QED BY <2>3 DEF Create, Evict, n
<1>7. holding' = [holding EXCEPT ![t] = n] /\ holding' \in [Threads -> Made' \union {Nobody}]
    <2>1. holding' = [holding EXCEPT ![t] = n]
        BY DEF Create
    <2>. HIDE DEF n
    <2>. QED BY <1>4, <2>1 DEF TrackerInv
<1>8. ASSUME NEW k \in Kinds
      PROVE  (written[k] + Pending(k) + Cardinality(Held(k)) = Counted(k))'
    <2>. DEFINE one == IF kind = k THEN 1 ELSE 0
    <2>1. Cardinality(Held(k))' = Cardinality(Held(k)) + one
        <3>1. objects'[n].kind = kind /\ \A x \in Made : objects'[x].kind = objects[x].kind
            BY <1>5
        <3>. HIDE DEF n
        <3>2. Cardinality(Held(k))'
                = Cardinality(Held(k)) + (IF objects'[n].kind = k THEN 1 ELSE 0)
            BY <1>4, <1>7, <3>1, ThreadTakes
        <3>. QED BY <3>1, <3>2
    <2>2. Pending(k)' = Pending(k) /\ Counted(k)' = Counted(k) + one
        <3>. DEFINE p == [o \in Made |-> objects[o].pending]
                    q == [o \in Made' |-> objects'[o].pending]
                    c == [o \in Made |-> objects[o].count]
                    d == [o \in Made' |-> objects'[o].count]
                    S == GroupsOf(k)
        <3>1. IsFiniteSet(S) /\ n \notin S
            BY <1>1, <1>4, MadeFacts
        <3>2. \A o \in S : /\ p[o] \in Int /\ q[o] = p[o]
                           /\ c[o] \in Int /\ d[o] = c[o]
            <4>1. \A o \in S : o \in Made /\ o \in Made' /\ objects[o] \in Groups
                BY <1>1, <1>4, MadeFacts
            <4>. QED BY <1>5, <4>1 DEF Groups
        <3>3. q[n] = 0 /\ d[n] = 1
            BY <1>4, <1>5
        <3>4. /\ Pending(k) = SumFunctionOnSet(p, S) /\ Counted(k) = SumFunctionOnSet(c, S)
              /\ Pending(k)' = SumFunctionOnSet(q, S') /\ Counted(k)' = SumFunctionOnSet(d, S')
            BY DEF Pending, Counted
        <3>5. Pending(k) \in Int /\ Counted(k) \in Int
            BY <1>1, SumsAreIntegers
        <3>6. CASE kind = k
            <4>1. S' = S \union {n}
                BY <1>4, <1>5, <3>6 DEF GroupsOf
            <4>. HIDE DEF n, p, q, c, d, S
            <4>2. /\ SumFunctionOnSet(q, S \union {n}) = SumFunctionOnSet(p, S) + 0
                  /\ SumFunctionOnSet(d, S \union {n}) = SumFunctionOnSet(c, S) + 1
                BY <3>1, <3>2, <3>3, SumWithOneMore
            <4>. QED BY <3>4, <3>5, <3>6, <4>1, <4>2
        <3>7. CASE kind # k
            <4>1. S' = S
                BY <1>4, <1>5, <3>7 DEF GroupsOf
            <4>. HIDE DEF n, p, q, c, d, S
            <4>2. /\ SumFunctionOnSet(q, S) = SumFunctionOnSet(p, S)
                  /\ SumFunctionOnSet(d, S) = SumFunctionOnSet(c, S)
                BY <3>1, <3>2, SumIsOfTheValues
            <4>. QED BY <3>4, <3>5, <3>7, <4>1, <4>2
        <3>. QED BY <3>6, <3>7
    <2>3. written[k] + Pending(k) + Cardinality(Held(k)) = Counted(k)
        BY DEF TrackerInv, HitsAddUp
    <2>4. /\ written[k] \in Nat /\ Pending(k) \in Int /\ Counted(k) \in Int
          /\ Cardinality(Held(k)) \in Nat /\ one \in Nat
        BY <1>1, SumsAreIntegers, HeldIsFinite DEF TrackerInv
    <2>. HIDE DEF one
    <2>. QED BY <2>1, <2>2, <2>3, <2>4
<1>. QED BY <1>3, <1>6, <1>7, <1>8 DEF TrackerInv, HitsAddUp

\* What one group's numbers become: the sums of its kind follow, no other does.
LEMMA OneGroupChanges ==
    ASSUME objects \in Seq(Groups), NEW o \in Made, NEW g \in Groups,
           g.kind = objects[o].kind,
           objects' = [objects EXCEPT ![o] = g], NEW k \in Kinds
    PROVE  LET one == objects[o].kind = k
           IN  /\ Pending(k)' = Pending(k)
                      + (IF one THEN g.pending - objects[o].pending ELSE 0)
               /\ Counted(k)' = Counted(k)
                      + (IF one THEN g.count - objects[o].count ELSE 0)
<1>1. /\ Made' = Made /\ Len(objects') = Len(objects) /\ objects' \in Seq(Groups)
      /\ objects'[o] = g
      /\ \A x \in Made : x # o => objects'[x] = objects[x]
    BY MadeFacts DEF Made
<1>2. GroupsOf(k)' = GroupsOf(k)
    BY <1>1 DEF GroupsOf
<1>. DEFINE p == [x \in Made |-> objects[x].pending]
            q == [x \in Made |-> objects'[x].pending]
            c == [x \in Made |-> objects[x].count]
            d == [x \in Made |-> objects'[x].count]
            S == GroupsOf(k)
<1>3. IsFiniteSet(S) /\ S \subseteq Made
    BY MadeFacts
<1>4. /\ Pending(k) = SumFunctionOnSet(p, S) /\ Counted(k) = SumFunctionOnSet(c, S)
      /\ Pending(k)' = SumFunctionOnSet(q, S) /\ Counted(k)' = SumFunctionOnSet(d, S)
    BY <1>1, <1>2 DEF Pending, Counted
<1>5. \A x \in S : p[x] \in Int /\ c[x] \in Int
    BY <1>3, MadeFacts DEF Groups
<1>6. \A x \in S \ {o} : q[x] = p[x] /\ d[x] = c[x]
    BY <1>1, <1>3
<1>7. /\ q[o] = g.pending /\ q[o] \in Int /\ d[o] = g.count /\ d[o] \in Int
      /\ p[o] = objects[o].pending /\ c[o] = objects[o].count
    BY <1>1 DEF Groups
<1>8. Pending(k) \in Int /\ Counted(k) \in Int
    BY SumsAreIntegers
<1>9. CASE objects[o].kind = k
    <2>1. o \in S
        BY <1>9 DEF GroupsOf
    <2>2. p[o] \in Int /\ c[o] \in Int
        BY <1>5, <2>1
    <2>. HIDE DEF p, q, c, d, S
    <2>3. /\ SumFunctionOnSet(q, S) = SumFunctionOnSet(p, S) - p[o] + q[o]
          /\ SumFunctionOnSet(d, S) = SumFunctionOnSet(c, S) - c[o] + d[o]
        BY <1>3, <1>5, <1>6, <1>7, <2>1, SumAfterChange
    <2>4. /\ Pending(k)' = Pending(k) - p[o] + q[o]
          /\ Counted(k)' = Counted(k) - c[o] + d[o]
        BY <1>4, <2>3
    <2>5. /\ Pending(k)' = Pending(k) + (q[o] - p[o])
          /\ Counted(k)' = Counted(k) + (d[o] - c[o])
        BY <1>7, <1>8, <2>2, <2>4
    <2>. QED BY <1>7, <1>9, <2>5
<1>10. CASE objects[o].kind # k
    <2>1. o \notin S
        BY <1>10 DEF GroupsOf
    <2>. HIDE DEF p, q, c, d, S
    <2>2. /\ SumFunctionOnSet(q, S) = SumFunctionOnSet(p, S)
          /\ SumFunctionOnSet(d, S) = SumFunctionOnSet(c, S)
        BY <1>3, <1>6, <2>1, SumIsOfTheValues
    <2>. QED BY <1>4, <1>8, <1>10, <2>2
<1>. QED BY <1>9, <1>10

LEMMA UpdateKeepsInv ==
    ASSUME TrackerInv, NEW t \in Threads, holding[t] = Nobody,
           NEW i \in DOMAIN groups, Update(t, i), UNCHANGED written
    PROVE  TrackerInv'
<1>. DEFINE o == groups[i]
            g == [objects[o] EXCEPT !.count = @ + 1]
<1>1. objects \in Seq(Groups) /\ groups \in Seq(Made) /\ o \in Made
    BY DEF TrackerInv
<1>2. /\ objects[o] \in Groups /\ g \in Groups /\ g.kind = objects[o].kind
      /\ g.pending = objects[o].pending /\ g.count = objects[o].count + 1
    <2>1. objects[o] \in Groups
        BY <1>1, MadeFacts
    <2>. HIDE DEF o
    <2>. QED BY <2>1 DEF Groups
<1>3. objects' = [objects EXCEPT ![o] = g]
    BY DEF Update
<1>4. holding' = [holding EXCEPT ![t] = o]
    BY DEF Update
<1>5. groups' = Append(RemoveAt(groups, i), o)
    BY DEF Update
<1>. HIDE DEF o, g
<1>6. /\ Made' = Made /\ objects' \in Seq(Groups)
      /\ \A x \in Made : objects'[x].kind = objects[x].kind
    BY <1>1, <1>2, <1>3, MadeFacts DEF Made
<1>7. groups' \in Seq(Made')
    <2>1. i \in 1..Len(groups) /\ Len(groups) \in Nat
        BY <1>1
    <2>2. SubSeq(groups, 1, i - 1) \in Seq(Made) /\ SubSeq(groups, i + 1, Len(groups)) \in Seq(Made)
        BY <1>1, <2>1
    <2>3. RemoveAt(groups, i) \in Seq(Made)
        BY <2>2 DEF RemoveAt
    <2>. QED BY <1>1, <1>5, <1>6, <2>3
<1>8. holding' \in [Threads -> Made' \union {Nobody}]
    BY <1>1, <1>4, <1>6 DEF TrackerInv
<1>9. ASSUME NEW k \in Kinds
      PROVE  (written[k] + Pending(k) + Cardinality(Held(k)) = Counted(k))'
    <2>. DEFINE one == IF objects[o].kind = k THEN 1 ELSE 0
    <2>1. Cardinality(Held(k))' = Cardinality(Held(k)) + one
        BY <1>1, <1>4, <1>6, ThreadTakes, MadeFacts
    <2>2. objects[o].pending \in Nat /\ objects[o].count \in Nat
        BY <1>2 DEF Groups
    <2>3. /\ written[k] \in Nat /\ Pending(k) \in Int /\ Counted(k) \in Int
          /\ Cardinality(Held(k)) \in Nat
        BY <1>1, SumsAreIntegers, HeldIsFinite DEF TrackerInv
    <2>4. /\ Pending(k)' = Pending(k)
                 + (IF objects[o].kind = k THEN g.pending - objects[o].pending ELSE 0)
          /\ Counted(k)' = Counted(k)
                 + (IF objects[o].kind = k THEN g.count - objects[o].count ELSE 0)
        BY <1>1, <1>2, <1>3, OneGroupChanges
    <2>5. Pending(k)' = Pending(k) /\ Counted(k)' = Counted(k) + one
        BY <1>2, <2>2, <2>3, <2>4
    <2>6. written[k] + Pending(k) + Cardinality(Held(k)) = Counted(k) /\ one \in Nat
        BY DEF TrackerInv, HitsAddUp
    <2>. HIDE DEF one
    <2>. QED BY <2>1, <2>3, <2>5, <2>6
<1>. QED BY <1>6, <1>7, <1>8, <1>9 DEF TrackerInv, HitsAddUp

\* The thread decides: its hit becomes pending, or is written with all that were.
LEMMA MaybeWriteKeepsInv ==
    ASSUME TrackerInv, NEW t \in Threads, MaybeWrite(t)
    PROVE  TrackerInv'
<1>. DEFINE o == holding[t]
            kind == objects[o].kind
<1>1. /\ objects \in Seq(Groups) /\ groups \in Seq(Made) /\ o \in Made /\ o # Nobody
      /\ holding' = [holding EXCEPT ![t] = Nobody] /\ UNCHANGED groups
    BY DEF TrackerInv, MaybeWrite
<1>2. objects[o] \in Groups /\ kind \in Kinds /\ objects[o].pending \in Nat
    BY <1>1, MadeFacts DEF Groups
<1>3. PICK g \in Groups :
        /\ g.kind = kind /\ g.count = objects[o].count
        /\ objects' = [objects EXCEPT ![o] = g]
        /\ \/ g.pending = objects[o].pending + 1 /\ UNCHANGED written
           \/ /\ g.pending = 0
              /\ written' = [written EXCEPT ![kind] = @ + 1 + objects[o].pending]
    <2>1. CASE o \in recent
        <3>. DEFINE g == [objects[o] EXCEPT !.pending = @ + 1]
        <3>1. g \in Groups /\ g.kind = kind /\ g.count = objects[o].count
              /\ g.pending = objects[o].pending + 1
            BY <1>2 DEF Groups
        <3>2. objects' = [objects EXCEPT ![o] = g] /\ UNCHANGED written
            BY <2>1 DEF MaybeWrite
        <3>. HIDE DEF g, o
        <3>. QED BY <3>1, <3>2
    <2>2. CASE o \notin recent
        <3>. DEFINE g == [objects[o] EXCEPT !.pending = 0]
        <3>1. g \in Groups /\ g.kind = kind /\ g.count = objects[o].count /\ g.pending = 0
            BY <1>2 DEF Groups
        <3>2. /\ objects' = [objects EXCEPT ![o] = g]
              /\ written' = [written EXCEPT ![kind] = @ + 1 + objects[o].pending]
            BY <2>2 DEF MaybeWrite
        <3>. HIDE DEF g, o
        <3>. QED BY <3>1, <3>2
    <2>. QED BY <2>1, <2>2
<1>. HIDE DEF o
<1>4. /\ Made' = Made /\ objects' \in Seq(Groups)
      /\ \A x \in Made : objects'[x].kind = objects[x].kind
    BY <1>1, <1>2, <1>3, MadeFacts DEF Made
<1>5. written' \in [Kinds -> Nat]
    <2>1. written \in [Kinds -> Nat]
        BY DEF TrackerInv
    <2>. HIDE DEF kind
    <2>. QED BY <1>2, <1>3, <2>1
<1>6. groups' \in Seq(Made') /\ holding' \in [Threads -> Made' \union {Nobody}]
    BY <1>1, <1>4 DEF TrackerInv
<1>7. ASSUME NEW k \in Kinds
      PROVE  (written[k] + Pending(k) + Cardinality(Held(k)) = Counted(k))'
    <2>1. Cardinality(Held(k))' = Cardinality(Held(k)) - (IF kind = k THEN 1 ELSE 0)
        BY <1>1, <1>4, ThreadLetsGo DEF o
    <2>2. /\ written[k] \in Nat /\ Pending(k) \in Int /\ Counted(k) \in Int
          /\ Cardinality(Held(k)) \in Nat /\ objects[o].count \in Nat
        BY <1>1, <1>2, SumsAreIntegers, HeldIsFinite DEF TrackerInv, Groups
    <2>3. /\ Pending(k)' = Pending(k)
                 + (IF kind = k THEN g.pending - objects[o].pending ELSE 0)
          /\ Counted(k)' = Counted(k)
                 + (IF kind = k THEN g.count - objects[o].count ELSE 0)
        BY <1>1, <1>2, <1>3, OneGroupChanges
    <2>4. Counted(k)' = Counted(k)
        BY <1>3, <2>2, <2>3
    <2>5. written[k] + Pending(k) + Cardinality(Held(k)) = Counted(k)
        BY DEF TrackerInv, HitsAddUp
    <2>. HIDE DEF kind
    <2>6. CASE kind # k
        <3>1. written'[k] = written[k]
            BY <1>3, <2>6 DEF TrackerInv
        <3>2. Pending(k)' = Pending(k)
            BY <2>2, <2>3, <2>6
        <3>3. Cardinality(Held(k))' = Cardinality(Held(k))
            BY <2>1, <2>2, <2>6
        <3>. QED BY <2>4, <2>5, <3>1, <3>2, <3>3
    <2>7. CASE kind = k
        <3>1. Cardinality(Held(k))' = Cardinality(Held(k)) - 1
              /\ Pending(k)' = Pending(k) + (g.pending - objects[o].pending)
            BY <2>1, <2>3, <2>7
        <3>2. \/ g.pending = objects[o].pending + 1 /\ written'[k] = written[k]
              \/ g.pending = 0 /\ written'[k] = written[k] + 1 + objects[o].pending
            BY <1>3, <2>7 DEF TrackerInv
        <3>3. written'[k] + (g.pending - objects[o].pending) = written[k] + 1
            BY <1>2, <2>2, <3>2
        <3>4. written'[k] \in Int /\ g.pending \in Int /\ objects[o].pending \in Int
            BY <1>2, <1>5 DEF Groups
        <3>. QED BY <2>2, <2>4, <2>5, <3>1, <3>3, <3>4
    <2>. QED BY <2>6, <2>7
<1>. QED BY <1>4, <1>5, <1>6, <1>7 DEF TrackerInv, HitsAddUp

\* However reports, decisions, evictions and the throttle's windows interleave, no
\* hit is lost and none is counted twice, for any number of threads and kinds
\* (error_tracker.py:327-330, _maybe_write).
THEOREM NoHitIsLost == TrackerSpec => []HitsAddUp
<1>1. TrackerInit => TrackerInv
    <2>. SUFFICES ASSUME TrackerInit PROVE TrackerInv
        OBVIOUS
    <2>1. objects = <<>> /\ groups = <<>> /\ Len(objects) = 0
        BY DEF TrackerInit
    <2>2. objects \in Seq(Groups) /\ groups \in Seq(Made) /\ Made = {}
        BY <2>1 DEF Made
    <2>3. holding \in [Threads -> Made \union {Nobody}] /\ written \in [Kinds -> Nat]
        BY DEF TrackerInit
    <2>4. ASSUME NEW k \in Kinds
          PROVE  written[k] + Pending(k) + Cardinality(Held(k)) = Counted(k)
        <3>1. Held(k) = {} /\ GroupsOf(k) = {} /\ written[k] = 0
            BY <2>2 DEF Held, GroupsOf, TrackerInit
        <3>2. Pending(k) = 0 /\ Counted(k) = 0
            BY <3>1, FS_EmptySet, SumUnfolds DEF Pending, Counted
        <3>3. Cardinality(Held(k)) = 0
            BY <3>1, FS_EmptySet
        <3>. QED BY <3>1, <3>2, <3>3
    <2>. QED BY <2>2, <2>3, <2>4 DEF TrackerInv, HitsAddUp
<1>2. TrackerInv /\ [TrackerNext]_trackerVars => TrackerInv'
    <2>. SUFFICES ASSUME TrackerInv, [TrackerNext]_trackerVars PROVE TrackerInv'
        OBVIOUS
    <2>1. CASE UNCHANGED <<groups, objects, holding, written>>
        BY <2>1 DEF TrackerInv, HitsAddUp, Pending, Counted, Held, GroupsOf, Made
    <2>2. ASSUME NEW t \in Threads, NEW k \in Kinds, Report(t, k)
          PROVE  TrackerInv'
        <3>1. holding[t] = Nobody /\ UNCHANGED written
            BY <2>2 DEF Report
        <3>2. CASE Create(t, k)
            BY <3>1, <3>2, CreateKeepsInv
        <3>3. ASSUME NEW i \in Places(k), Update(t, i) PROVE TrackerInv'
            BY <3>1, <3>3, UpdateKeepsInv DEF Places
        <3>. QED BY <2>2, <3>2, <3>3 DEF Report
    <2>3. ASSUME NEW o \in Made, WindowPasses(o) PROVE TrackerInv'
        BY <2>1, <2>3 DEF WindowPasses
    <2>4. CASE UNCHANGED trackerVars
        BY <2>1, <2>4 DEF trackerVars
    <2>. QED BY <2>2, <2>3, <2>4, MaybeWriteKeepsInv DEF TrackerNext
<1>3. TrackerInv => HitsAddUp
    BY DEF TrackerInv
<1>. QED BY <1>1, <1>2, <1>3, PTL DEF TrackerSpec

-----------------------------------------------------------------------------
(* The action log and the application's life. *)

Queues == Seq(LogEntries \union {Shutdown})

\* A queue within its bound.
IsQueue(q) == q # Off /\ q \in Queues /\ Len(q) <= QueueMax

QueueInv == queue = Off \/ IsQueue(queue)

\* Without a queue there is no writer.  Once the services are stopped no task is
\* left that could start anything, and a writer still running is being waited for.
LifeInv ==
    /\ QueueInv
    /\ queue = Off => ~Running
    /\ lifespan \in {"serving", "ending startup", "stopping log", "closed"}
    /\ lifespan \in {"stopping log", "closed"} =>
         /\ StartupOver /\ ~scheduler /\ ~jobs
         /\ Running => stopper = "waiting"
    /\ lifespan = "closed" => ~Running /\ ~published

USE DEF Running, StartupOver

LEMMA NoQueueIsOff == \A q \in Queues : q # Off
    BY OffIsNothingElse DEF Queues

LEMMA OffIsNoTask == worker = Off => ~Running
    BY OffIsNothingElse

LEMMA EmptyQueue == IsQueue(<<>>)
<1>1. <<>> \in Queues /\ Len(<<>>) = 0
    BY DEF Queues
<1> QED BY <1>1, NoQueueIsOff, LogBounds DEF IsQueue

LEMMA OneSentinel == IsQueue(<<Shutdown>>)
<1>1. <<Shutdown>> \in Queues
    BY DEF Queues
<1>2. Len(<<Shutdown>>) = 1
    OBVIOUS
<1> QED BY <1>1, <1>2, NoQueueIsOff, LogBounds DEF IsQueue

LEMMA AppendQueue ==
    ASSUME NEW q, IsQueue(q), Len(q) < QueueMax, NEW e \in LogEntries \union {Shutdown}
    PROVE  IsQueue(Append(q, e))
<1>1. q \in Queues
    BY DEF IsQueue
<1>2. Append(q, e) \in Queues /\ Len(Append(q, e)) = Len(q) + 1 /\ Len(q) \in Nat
    BY <1>1 DEF Queues
<1>3. Len(Append(q, e)) <= QueueMax
    <2>1. QueueMax \in Nat /\ Len(q) <= QueueMax
        BY LogBounds DEF IsQueue
    <2> QED BY <1>2, <2>1
<1>4. Append(q, e) # Off
    BY <1>2, NoQueueIsOff
<1> QED BY <1>2, <1>3, <1>4 DEF IsQueue

LEMMA TailQueue ==
    ASSUME NEW q, IsQueue(q), q # <<>>
    PROVE  IsQueue(Tail(q))
<1>1. q \in Queues
    BY DEF IsQueue
<1>2. Tail(q) \in Queues /\ Len(Tail(q)) = Len(q) - 1 /\ Len(q) \in Nat
    BY <1>1 DEF Queues
<1>3. Len(Tail(q)) <= QueueMax
    <2>1. QueueMax \in Nat /\ Len(q) <= QueueMax
        BY LogBounds DEF IsQueue
    <2> QED BY <1>2, <2>1
<1>4. Tail(q) # Off
    BY <1>2, NoQueueIsOff
<1> QED BY <1>2, <1>3, <1>4 DEF IsQueue

\* Emptying the queue leaves an empty one or none, and no writer.
LEMMA FlushEnds ==
    ASSUME Flush
    PROVE  QueueInv' /\ ~Running'
    BY EmptyQueue, OffIsNoTask, OffIsNothingElse, LogBounds DEF Flush, Forget, QueueInv

\* Recording puts entries on the queue within its bound and touches nothing else.
LEMMA RecordKeepsInv ==
    ASSUME LifeInv, RecordStep, UNCHANGED lifeVars
    PROVE  LifeInv'
<1> USE DEF LifeInv, lifeVars
<1>1. ASSUME NEW e \in LogEntries, QueueInv, queue # Off, Enqueue(e)
      PROVE  QueueInv' /\ queue' # Off
    <2>1. IsQueue(queue)
        BY <1>1 DEF QueueInv
    <2>2. CASE Len(queue) < QueueMax
        <3>1. queue' = Append(queue, e)
            BY <1>1, <2>2 DEF Enqueue
        <3>2. IsQueue(Append(queue, e))
            BY <2>1, <2>2, AppendQueue
        <3> QED BY <3>1, <3>2 DEF QueueInv, IsQueue
    <2>3. CASE ~(Len(queue) < QueueMax)
        BY <1>1, <2>3 DEF Enqueue, QueueInv
    <2> QED BY <2>2, <2>3
<1>2. PICK e \in LogEntries : Record(e) \/ RecordInThread(e) \/ RunCallback(e)
    BY DEF RecordStep
<1>3. UNCHANGED <<worker, stopper>>
    BY <1>2 DEF Record, RecordInThread, RunCallback
<1>4. QueueInv' /\ (queue' = Off => queue = Off)
    <2>1. CASE UNCHANGED queue
        BY <2>1 DEF QueueInv
    <2>2. CASE queue # Off /\ Enqueue(e)
        BY <2>2, <1>1
    <2> QED BY <1>2, <2>1, <2>2 DEF Record, RecordInThread, RunCallback
<1> QED BY <1>3, <1>4

\* The writer takes entries off the queue; it never starts again by itself.
LEMMA WriterKeepsInv ==
    ASSUME LifeInv, WriterStep, UNCHANGED lifeVars
    PROVE  LifeInv'
<1> USE DEF LifeInv, lifeVars
<1>1. CASE TakeFirst
    <2>1. IsQueue(queue) /\ queue' = Tail(queue) /\ queue # <<>>
        BY <1>1 DEF QueueInv, TakeFirst
    <2>2. IsQueue(Tail(queue))
        BY <2>1, TailQueue
    <2>3. QueueInv' /\ queue' # Off
        BY <2>1, <2>2 DEF QueueInv, IsQueue
    <2> QED BY <1>1, <2>3 DEF TakeFirst
<1>2. CASE TakeNext
    <2>1. IsQueue(queue) /\ queue' = Tail(queue) /\ queue # <<>>
        BY <1>2 DEF QueueInv, TakeNext
    <2>2. IsQueue(Tail(queue))
        BY <2>1, TailQueue
    <2>3. QueueInv' /\ queue' # Off
        BY <2>1, <2>2 DEF QueueInv, IsQueue
    <2> QED BY <1>2, <2>3 DEF TakeNext
<1>3. CASE CloseBatch
    BY <1>3 DEF CloseBatch, QueueInv
<1>4. CASE InsertBatch
    BY <1>4 DEF InsertBatch, QueueInv
<1>5. CASE EndPass
    BY <1>5 DEF EndPass, QueueInv
<1> QED BY <1>1, <1>2, <1>3, <1>4, <1>5 DEF WriterStep, CollectStep, WriterAnswer

\* Every way out of the wait ends with a flush, and every flush without a writer.
LEMMA StopKeepsInv ==
    ASSUME LifeInv, StopStep, UNCHANGED lifeVars
    PROVE  LifeInv'
<1> USE DEF LifeInv, lifeVars
<1>1. CASE WriterEnded
    BY <1>1, FlushEnds DEF WriterEnded
<1>2. CASE StopTimesOut
    BY <1>2, FlushEnds DEF StopTimesOut
<1>3. CASE EndStop
    BY <1>3, OffIsNothingElse DEF EndStop, Forget, QueueInv
<1> QED BY <1>1, <1>2, <1>3 DEF StopStep, WaitStep

\* Activation and its roll-back happen only before the services are stopped.
LEMMA StartupKeepsInv ==
    ASSUME LifeInv, Activate \/ PreparationFails \/ ActivationFails \/ Retry \/ JobsEnd
    PROVE  LifeInv'
<1> USE DEF LifeInv
<1>1. CASE Activate
    <2>1. QueueInv' /\ queue' # Off
        BY <1>1, EmptyQueue DEF Activate, StartWriter, QueueInv, IsQueue
    <2> QED BY <1>1, <2>1 DEF Activate
<1>2. CASE PreparationFails
    BY <1>2 DEF PreparationFails, logVars, QueueInv
<1>3. CASE ActivationFails
    <2>1. QueueInv' /\ queue' # Off
        BY <1>3, OneSentinel DEF ActivationFails, QueueInv, IsQueue
    <2> QED BY <1>3, <2>1 DEF ActivationFails
<1>4. CASE Retry
    BY <1>4 DEF Retry, logVars, QueueInv
<1>5. CASE JobsEnd
    BY <1>5 DEF JobsEnd, logVars, QueueInv
<1> QED BY <1>1, <1>2, <1>3, <1>4, <1>5

\* Shutdown, step by step.
LEMMA ShutdownKeepsInv ==
    ASSUME LifeInv, BeginShutdown \/ StopServices \/ Close \/ Closed
    PROVE  LifeInv'
<1> USE DEF LifeInv
<1>1. CASE BeginShutdown
    <2>1. QueueInv' /\ (queue' = Off => ~Running')
        <3>1. CASE UNCHANGED logVars
            BY <3>1 DEF logVars, QueueInv
        <3>2. CASE StopCancelledWaiting
            BY <3>2, FlushEnds DEF StopCancelledWaiting
        <3>3. CASE StopCancelledFlushing
            BY <3>3 DEF StopCancelledFlushing, QueueInv
        <3> QED BY <1>1, <3>1, <3>2, <3>3 DEF BeginShutdown, CancelStartup
    <2> QED BY <1>1, <2>1 DEF BeginShutdown
<1>2. CASE StopServices
    <2>1. CASE queue = Off
        BY <1>2, <2>1 DEF StopServices, logVars, QueueInv
    <2>2. CASE queue # Off
        <3>1. BeginStop
            BY <1>2, <2>2 DEF StopServices
        <3>2. CASE Flush
            BY <1>2, <3>2, FlushEnds DEF StopServices
        <3>3. CASE /\ Running /\ Len(queue) < QueueMax
                   /\ queue' = Append(queue, Shutdown) /\ stopper' = "waiting"
                   /\ UNCHANGED worker
            <4>1. IsQueue(queue)
                BY <2>2 DEF QueueInv
            <4>2. IsQueue(Append(queue, Shutdown))
                BY <3>3, <4>1, AppendQueue
            <4>3. QueueInv' /\ queue' # Off
                BY <3>3, <4>2 DEF QueueInv, IsQueue
            <4> QED BY <1>2, <3>3, <4>3 DEF StopServices
        <3> QED BY <3>1, <3>2, <3>3 DEF BeginStop
    <2> QED BY <2>1, <2>2
<1>3. CASE Close
    BY <1>3 DEF Close, logVars, QueueInv
<1>4. CASE Closed
    BY <1>4 DEF Closed, vars, QueueInv
<1> QED BY <1>1, <1>2, <1>3, <1>4

\* The inductive invariant of the life cycle: no step, in any phase, leaves a writer
\* without a queue or starts one that shutdown does not wait for.
THEOREM LifeIsInvariant == Spec => []LifeInv
<1>1. Init => LifeInv
    BY OffIsNothingElse DEF Init, LogInit, LifeInv, QueueInv
<1>2. LifeInv /\ [Next]_vars => LifeInv'
    <2> SUFFICES ASSUME LifeInv, [Next]_vars PROVE LifeInv'
        OBVIOUS
    <2>1. CASE LogNext
        BY <2>1, RecordKeepsInv, WriterKeepsInv, StopKeepsInv DEF LogNext
    <2>2. CASE UNCHANGED vars
        BY <2>2 DEF vars, LifeInv, QueueInv
    <2> QED BY <2>1, <2>2, StartupKeepsInv, ShutdownKeepsInv DEF Next
<1> QED BY <1>1, <1>2, PTL DEF Spec

\* Once the engine is disposed of, nothing that uses it is left running, however
\* many times the start-up failed, was rolled back and tried again, and wherever in
\* that the shutdown arrived (main.py:426-427).
THEOREM TeardownIsComplete == Spec => []NothingOutlivesTheEngine
<1>1. LifeInv => NothingOutlivesTheEngine
    BY DEF LifeInv, NothingOutlivesTheEngine
<1> QED BY <1>1, LifeIsInvariant, PTL

\* Whatever records, and however slow the database is, no more than _QUEUE_MAX
\* entries wait for the writer (action_log.py:448-455).
THEOREM QueueIsBounded == Spec => [](queue # Off => Len(queue) <= QueueMax)
<1>1. LifeInv => (queue # Off => Len(queue) <= QueueMax)
    BY DEF LifeInv, QueueInv, IsQueue
<1> QED BY <1>1, LifeIsInvariant, PTL

-----------------------------------------------------------------------------
(* The order of the log. *)

\* Of sequences in which entries may have the sentinel among them: their entries are
\* of M, each is before every later one, and those of one before those of another.
Among(s, M) == \A i \in 1 .. Len(s) : s[i] # Shutdown => s[i] \in M
Ascends(s, B) ==
    \A i, j \in 1 .. Len(s) : i < j /\ s[i] # Shutdown /\ s[j] # Shutdown => <<s[i], s[j]>> \in B
Leads(s, t, B) ==
    \A i \in 1 .. Len(s), j \in 1 .. Len(t) :
        s[i] # Shutdown /\ t[j] # Shutdown => <<s[i], t[j]>> \in B

\* What is written, what a task has in its hands and what waits, one behind the other.
Line(written_, held, waiting, B, M) ==
    /\ written_ \in Seq(LogEntries) /\ held \in Seq(LogEntries) /\ waiting \in Queues
    /\ Among(written_, M) /\ Among(held, M) /\ Among(waiting, M)
    /\ Ascends(written_, B) /\ Ascends(held, B) /\ Ascends(waiting, B)
    /\ Leads(written_, held, B) /\ Leads(written_, waiting, B) /\ Leads(held, waiting, B)

OnlySentinel(q) == \A i, j \in 1 .. Len(q) : q[i] = Shutdown /\ q[j] = Shutdown => i = j

LEMMA NothingInLine ==
    ASSUME NEW B, NEW M
    PROVE  /\ <<>> \in Seq(LogEntries) /\ <<>> \in Queues
           /\ Among(<<>>, M) /\ Ascends(<<>>, B)
           /\ \A s : Leads(s, <<>>, B) /\ Leads(<<>>, s, B)
BY DEF Among, Ascends, Leads, Queues

LEMMA LineDrops ==
    ASSUME NEW w, NEW h, NEW q, NEW B, NEW M, Line(w, h, q, B, M)
    PROVE  Line(w, <<>>, q, B, M) /\ Line(w, h, <<>>, B, M) /\ Line(w, <<>>, <<>>, B, M)
BY NothingInLine DEF Line

\* One more behind all of them.
LEMMA LineGrows ==
    ASSUME NEW w, NEW h, NEW q, NEW B, NEW M, Line(w, h, q, B, M), NEW C, B \subseteq C,
           NEW e \in LogEntries, \A d \in M : <<d, e>> \in C
    PROVE  Line(w, h, Append(q, e), C, M \union {e})
<1>. DEFINE N == M \union {e}
            longer == Append(q, e)
<1>1. q \in Queues /\ Among(w, M) /\ Among(h, M) /\ Among(q, M)
    BY DEF Line
<1>2. /\ longer \in Queues /\ Len(longer) = Len(q) + 1 /\ Len(q) \in Nat
      /\ \A i \in 1 .. Len(q) : longer[i] = q[i]
      /\ longer[Len(q) + 1] = e
    BY <1>1 DEF Queues
<1>. HIDE DEF longer
<1>3. Among(w, N) /\ Among(h, N) /\ Among(longer, N)
    <2>1. Among(longer, N)
        <3>. SUFFICES ASSUME NEW i \in 1 .. Len(longer), longer[i] # Shutdown PROVE longer[i] \in N
            BY DEF Among
        <3>1. i \in 1 .. Len(q) \/ i = Len(q) + 1
            BY <1>2
        <3>. QED BY <1>1, <1>2, <3>1 DEF Among
    <2>. QED BY <1>1, <2>1 DEF Among
<1>4. Ascends(w, C) /\ Ascends(h, C) /\ Leads(w, h, C)
    BY DEF Line, Ascends, Leads
<1>5. Ascends(longer, C)
    <2>. SUFFICES ASSUME NEW i \in 1 .. Len(longer), NEW j \in 1 .. Len(longer), i < j,
                         longer[i] # Shutdown, longer[j] # Shutdown
                  PROVE  <<longer[i], longer[j]>> \in C
        BY DEF Ascends
    <2>1. i \in 1 .. Len(q) /\ longer[i] = q[i] /\ (j \in 1 .. Len(q) \/ j = Len(q) + 1)
        BY <1>2
    <2>2. CASE j \in 1 .. Len(q)
        <3>1. longer[j] = q[j]
            BY <1>2, <2>2
        <3>2. <<q[i], q[j]>> \in B
            BY <2>1, <2>2, <3>1 DEF Line, Ascends
        <3>. QED BY <2>1, <3>1, <3>2
    <2>3. CASE j = Len(q) + 1
        <3>1. longer[i] \in M
            BY <1>1, <2>1 DEF Among
        <3>. QED BY <1>2, <2>3, <3>1
    <2>. QED BY <2>1, <2>2, <2>3
<1>6. ASSUME NEW s, Leads(s, q, B), Among(s, M)
      PROVE  Leads(s, longer, C)
    <2>. SUFFICES ASSUME NEW i \in 1 .. Len(s), NEW j \in 1 .. Len(longer),
                         s[i] # Shutdown, longer[j] # Shutdown
                  PROVE  <<s[i], longer[j]>> \in C
        BY DEF Leads
    <2>1. CASE j \in 1 .. Len(q)
        <3>1. longer[j] = q[j]
            BY <1>2, <2>1
        <3>2. <<s[i], q[j]>> \in B
            BY <1>6, <2>1, <3>1 DEF Leads
        <3>. QED BY <3>1, <3>2
    <2>2. CASE j = Len(q) + 1
        <3>1. s[i] \in M
            BY <1>6 DEF Among
        <3>. QED BY <1>2, <2>2, <3>1
    <2>3. j \in 1 .. Len(q) \/ j = Len(q) + 1
        BY <1>2
    <2>. QED BY <2>1, <2>2, <2>3
<1>7. Leads(w, longer, C) /\ Leads(h, longer, C)
    BY <1>1, <1>6 DEF Line
<1>. QED BY <1>2, <1>3, <1>4, <1>5, <1>7 DEF Line, longer

\* The sentinel behind all of them.
LEMMA LineAsksToStop ==
    ASSUME NEW w, NEW h, NEW q, NEW B, NEW M, Line(w, h, q, B, M)
    PROVE  Line(w, h, Append(q, Shutdown), B, M)
<1>. DEFINE longer == Append(q, Shutdown)
<1>1. q \in Queues
    BY DEF Line
<1>2. /\ longer \in Queues /\ Len(longer) = Len(q) + 1 /\ Len(q) \in Nat
      /\ \A i \in 1 .. Len(q) : longer[i] = q[i]
      /\ longer[Len(q) + 1] = Shutdown
    BY <1>1 DEF Queues
<1>. HIDE DEF longer
<1>3. \A i \in 1 .. Len(longer) : longer[i] # Shutdown => i \in 1 .. Len(q) /\ longer[i] = q[i]
    BY <1>2
<1>4. Among(longer, M)
    BY <1>3 DEF Line, Among
<1>5. Ascends(longer, B)
    BY <1>3 DEF Line, Ascends
<1>6. Leads(w, longer, B) /\ Leads(h, longer, B)
    BY <1>3 DEF Line, Leads
<1>. QED BY <1>2, <1>4, <1>5, <1>6 DEF Line, longer

\* The first of those waiting leaves them.
LEMMA LineSkips ==
    ASSUME NEW w, NEW h, NEW q, NEW B, NEW M, Line(w, h, q, B, M), q # <<>>
    PROVE  Line(w, h, Tail(q), B, M)
<1>1. q \in Queues
    BY DEF Line
<1>2. /\ Tail(q) \in Queues /\ Len(q) \in Nat /\ Len(Tail(q)) = Len(q) - 1
      /\ \A i \in 1 .. Len(Tail(q)) : Tail(q)[i] = q[i + 1]
    BY <1>1 DEF Queues
<1>3. \A i \in 1 .. Len(Tail(q)) : i + 1 \in 1 .. Len(q) /\ Tail(q)[i] = q[i + 1]
    BY <1>2
<1>4. Among(Tail(q), M)
    BY <1>3 DEF Line, Among
<1>5. Ascends(Tail(q), B)
    <2>1. \A i, j \in 1 .. Len(Tail(q)) : i < j => i + 1 < j + 1
        BY <1>2
    <2>. QED BY <1>3, <2>1 DEF Line, Ascends
<1>6. Leads(w, Tail(q), B) /\ Leads(h, Tail(q), B)
    BY <1>3 DEF Line, Leads
<1>. QED BY <1>2, <1>4, <1>5, <1>6 DEF Line

\* ... and goes into the writer's hands.
LEMMA LineTakes ==
    ASSUME NEW w, NEW h, NEW q, NEW B, NEW M, Line(w, h, q, B, M), q # <<>>, Head(q) # Shutdown
    PROVE  Line(w, Append(h, Head(q)), Tail(q), B, M)
<1>. DEFINE longer == Append(h, Head(q))
<1>0. Line(w, h, Tail(q), B, M)
    BY LineSkips
<1>1. q \in Queues /\ h \in Seq(LogEntries)
    BY DEF Line
<1>2. /\ Len(q) \in Nat /\ 1 \in 1 .. Len(q) /\ Head(q) = q[1] /\ Head(q) \in LogEntries
      /\ Len(Tail(q)) = Len(q) - 1
      /\ \A i \in 1 .. Len(Tail(q)) : i + 1 \in 1 .. Len(q) /\ Tail(q)[i] = q[i + 1] /\ 1 < i + 1
    BY <1>1 DEF Queues
<1>3. /\ longer \in Seq(LogEntries) /\ Len(longer) = Len(h) + 1 /\ Len(h) \in Nat
      /\ \A i \in 1 .. Len(h) : longer[i] = h[i]
      /\ longer[Len(h) + 1] = q[1]
    BY <1>1, <1>2
<1>. HIDE DEF longer
<1>4. \A i \in 1 .. Len(longer) : i \in 1 .. Len(h) \/ i = Len(h) + 1
    BY <1>3
<1>5. Among(longer, M)
    <2>1. q[1] \in M
        BY <1>2 DEF Line, Among
    <2>2. Among(h, M)
        BY DEF Line
    <2>. QED BY <1>3, <1>4, <2>1, <2>2 DEF Among
<1>6. Ascends(longer, B)
    <2>. SUFFICES ASSUME NEW i \in 1 .. Len(longer), NEW j \in 1 .. Len(longer), i < j,
                         longer[i] # Shutdown, longer[j] # Shutdown
                  PROVE  <<longer[i], longer[j]>> \in B
        BY DEF Ascends
    <2>1. i \in 1 .. Len(h) /\ longer[i] = h[i]
        BY <1>3
    <2>2. CASE j \in 1 .. Len(h)
        <3>1. longer[j] = h[j]
            BY <1>3, <2>2
        <3>. QED BY <2>1, <2>2, <3>1 DEF Line, Ascends
    <2>3. CASE j = Len(h) + 1
        <3>1. longer[j] = q[1] /\ q[1] # Shutdown
            BY <1>2, <1>3, <2>3
        <3>. QED BY <1>2, <2>1, <3>1 DEF Line, Leads
    <2>. QED BY <1>4, <2>2, <2>3
<1>7. Leads(w, longer, B)
    <2>. SUFFICES ASSUME NEW i \in 1 .. Len(w), NEW j \in 1 .. Len(longer),
                         w[i] # Shutdown, longer[j] # Shutdown
                  PROVE  <<w[i], longer[j]>> \in B
        BY DEF Leads
    <2>1. CASE j \in 1 .. Len(h)
        <3>1. longer[j] = h[j]
            BY <1>3, <2>1
        <3>. QED BY <2>1, <3>1 DEF Line, Leads
    <2>2. CASE j = Len(h) + 1
        <3>1. longer[j] = q[1] /\ q[1] # Shutdown
            BY <1>2, <1>3, <2>2
        <3>. QED BY <1>2, <3>1 DEF Line, Leads
    <2>. QED BY <1>4, <2>1, <2>2
<1>8. Leads(longer, Tail(q), B)
    <2>. SUFFICES ASSUME NEW i \in 1 .. Len(longer), NEW j \in 1 .. Len(Tail(q)),
                         longer[i] # Shutdown, Tail(q)[j] # Shutdown
                  PROVE  <<longer[i], Tail(q)[j]>> \in B
        BY DEF Leads
    <2>1. CASE i \in 1 .. Len(h)
        <3>1. longer[i] = h[i]
            BY <1>3, <2>1
        <3>. QED BY <1>0, <2>1, <3>1 DEF Line, Leads
    <2>2. CASE i = Len(h) + 1
        <3>1. longer[i] = q[1] /\ Tail(q)[j] = q[j + 1] /\ j + 1 \in 1 .. Len(q) /\ 1 < j + 1
            BY <1>2, <1>3, <2>2
        <3>. QED BY <1>2, <3>1 DEF Line, Ascends
    <2>. QED BY <1>4, <2>1, <2>2
<1>. QED BY <1>0, <1>3, <1>5, <1>6, <1>7, <1>8 DEF Line, longer

\* What was in hand is written.
LEMMA LineWrites ==
    ASSUME NEW w, NEW h, NEW q, NEW B, NEW M, Line(w, h, q, B, M)
    PROVE  Line(w \o h, <<>>, q, B, M)
<1>. DEFINE both == w \o h
            n == Len(w)
<1>1. w \in Seq(LogEntries) /\ h \in Seq(LogEntries)
    BY DEF Line
<1>2. /\ both \in Seq(LogEntries) /\ Len(both) = n + Len(h) /\ n \in Nat /\ Len(h) \in Nat
      /\ \A i \in 1 .. n : both[i] = w[i]
      /\ \A i \in 1 .. Len(h) : both[n + i] = h[i]
    BY <1>1
<1>. HIDE DEF both, n
<1>3. ASSUME NEW i \in 1 .. Len(both), ~(i \in 1 .. n)
      PROVE  i - n \in 1 .. Len(h) /\ both[i] = h[i - n]
    <2>1. i - n \in 1 .. Len(h) /\ n + (i - n) = i
        BY <1>2, <1>3
    <2>2. both[n + (i - n)] = h[i - n]
        BY <1>2, <2>1
    <2>. QED BY <2>1, <2>2
<1>4. Among(both, M)
    <2>. SUFFICES ASSUME NEW i \in 1 .. Len(both), both[i] # Shutdown PROVE both[i] \in M
        BY DEF Among
    <2>1. CASE i \in 1 .. n
        BY <1>2, <2>1 DEF Line, Among, n
    <2>2. CASE ~(i \in 1 .. n)
        BY <1>3, <2>2 DEF Line, Among
    <2>. QED BY <2>1, <2>2
<1>5. Ascends(both, B)
    <2>. SUFFICES ASSUME NEW i \in 1 .. Len(both), NEW j \in 1 .. Len(both), i < j,
                         both[i] # Shutdown, both[j] # Shutdown
                  PROVE  <<both[i], both[j]>> \in B
        BY DEF Ascends
    <2>1. CASE j \in 1 .. n
        <3>1. i \in 1 .. n /\ both[i] = w[i] /\ both[j] = w[j]
            BY <1>2, <2>1
        <3>. QED BY <2>1, <3>1 DEF Line, Ascends, n
    <2>2. CASE i \in 1 .. n /\ ~(j \in 1 .. n)
        <3>1. both[i] = w[i] /\ both[j] = h[j - n] /\ j - n \in 1 .. Len(h)
            BY <1>2, <1>3, <2>2
        <3>. QED BY <2>2, <3>1 DEF Line, Leads, n
    <2>3. CASE ~(i \in 1 .. n)
        <3>1. ~(j \in 1 .. n) /\ i - n < j - n
            BY <1>2, <2>3
        <3>2. /\ both[i] = h[i - n] /\ i - n \in 1 .. Len(h)
              /\ both[j] = h[j - n] /\ j - n \in 1 .. Len(h)
            BY <1>3, <2>3, <3>1
        <3>. QED BY <3>1, <3>2 DEF Line, Ascends
    <2>. QED BY <2>1, <2>2, <2>3
<1>6. Leads(both, q, B)
    <2>. SUFFICES ASSUME NEW i \in 1 .. Len(both), NEW j \in 1 .. Len(q),
                         both[i] # Shutdown, q[j] # Shutdown
                  PROVE  <<both[i], q[j]>> \in B
        BY DEF Leads
    <2>1. CASE i \in 1 .. n
        <3>1. both[i] = w[i]
            BY <1>2, <2>1
        <3>. QED BY <2>1, <3>1 DEF Line, Leads, n
    <2>2. CASE ~(i \in 1 .. n)
        BY <1>3, <2>2 DEF Line, Leads
    <2>. QED BY <2>1, <2>2
<1>. QED BY <1>2, <1>4, <1>5, <1>6, NothingInLine DEF Line, both


\* Without the sentinel, and without any other change.
LEMMA LineClears ==
    ASSUME NEW w, NEW h, NEW q, NEW B, NEW M, Line(w, h, q, B, M), OnlySentinel(q)
    PROVE  Line(w, h, EntriesOf(q), B, M) /\ EntriesOf(q) \in Seq(LogEntries)
<1>1. q \in Queues /\ Len(q) \in Nat /\ DOMAIN q = 1 .. Len(q)
    BY DEF Line, Queues
<1>2. \A i \in 1 .. Len(q) : q[i] \in LogEntries \union {Shutdown}
    BY <1>1 DEF Queues
<1>3. CASE Shutdown \notin ToSet(q)
    <2>1. EntriesOf(q) = q
        BY <1>3 DEF EntriesOf
    <2>2. \A i \in 1 .. Len(q) : q[i] # Shutdown
        BY <1>1, <1>3 DEF ToSet
    <2>3. q \in Seq(LogEntries)
        BY <1>1, <1>2, <2>2 DEF Queues
    <2>. QED BY <2>1, <2>3
<1>4. CASE Shutdown \in ToSet(q)
    <2>. DEFINE k == CHOOSE i \in DOMAIN q : q[i] = Shutdown
                front == SubSeq(q, 1, k - 1)
                back == SubSeq(q, k + 1, Len(q))
                rest == front \o back
                at(i) == IF i < k THEN i ELSE i + 1
    <2>1. EntriesOf(q) = rest
        BY <1>4 DEF EntriesOf, RemoveAt
    <2>2. k \in 1 .. Len(q) /\ q[k] = Shutdown
        BY <1>1, <1>4 DEF ToSet
    <2>. HIDE DEF k
    <2>3. \A i \in 1 .. Len(q) : i # k => q[i] \in LogEntries
        BY <1>2, <2>2 DEF OnlySentinel
    <2>4. /\ front \in Seq(LogEntries) /\ Len(front) = k - 1
          /\ \A i \in 1 .. k - 1 : front[i] = q[i]
        <3>1. \A i \in 1 .. k - 1 : q[i] \in LogEntries
            BY <1>1, <2>2, <2>3
        <3>2. k - 1 \in Int /\ 1 \in Int /\ k \in Int
            BY <1>1, <2>2
        <3>3. /\ front \in Seq(LogEntries)
              /\ Len(front) = IF 1 <= k - 1 THEN k - 1 - 1 + 1 ELSE 0
              /\ \A i \in 1 .. k - 1 - 1 + 1 : front[i] = q[1 + i - 1]
            BY <3>1, <3>2, SubSeqProperties
        <3>. HIDE DEF front
        <3>4. k - 1 - 1 + 1 = k - 1 /\ (1 <= k - 1 \/ k - 1 = 0)
            BY <1>1, <2>2, <3>2
        <3>5. \A i \in 1 .. k - 1 : 1 + i - 1 = i
            OBVIOUS
        <3>6. Len(front) = k - 1
            BY <3>3, <3>4
        <3>. QED BY <3>3, <3>4, <3>5, <3>6
    <2>5. /\ back \in Seq(LogEntries) /\ Len(back) = Len(q) - k
          /\ \A i \in 1 .. Len(q) - k : back[i] = q[k + i]
        <3>1. \A i \in k + 1 .. Len(q) : q[i] \in LogEntries
            BY <1>1, <2>2, <2>3
        <3>2. k + 1 \in Int /\ Len(q) \in Int /\ k \in Int
            BY <1>1, <2>2
        <3>3. /\ back \in Seq(LogEntries)
              /\ Len(back) = IF k + 1 <= Len(q) THEN Len(q) - (k + 1) + 1 ELSE 0
              /\ \A i \in 1 .. Len(q) - (k + 1) + 1 : back[i] = q[k + 1 + i - 1]
            BY <3>1, <3>2, SubSeqProperties
        <3>. HIDE DEF back
        <3>4. Len(q) - (k + 1) + 1 = Len(q) - k /\ (k + 1 <= Len(q) \/ Len(q) - k = 0)
            <4>1. k <= Len(q)
                BY <1>1, <2>2
            <4>. QED BY <3>2, <4>1
        <3>5. \A i \in 1 .. Len(q) - k : k + 1 + i - 1 = k + i
            BY <3>2
        <3>6. Len(back) = Len(q) - k
            BY <3>3, <3>4
        <3>. QED BY <3>3, <3>4, <3>5, <3>6
    <2>. HIDE DEF front, back
    <2>6. /\ rest \in Seq(LogEntries) /\ Len(rest) = Len(q) - 1
          /\ \A i \in 1 .. Len(q) - 1 :
                rest[i] = IF i <= k - 1 THEN front[i] ELSE back[i - (k - 1)]
        <3>1. /\ rest \in Seq(LogEntries) /\ Len(rest) = Len(front) + Len(back)
              /\ \A i \in 1 .. Len(front) + Len(back) :
                    rest[i] = IF i <= Len(front) THEN front[i] ELSE back[i - Len(front)]
            BY <2>4, <2>5, ConcatProperties
        <3>. HIDE DEF rest
        <3>2. Len(front) + Len(back) = Len(q) - 1
            BY <1>1, <2>2, <2>4, <2>5
        <3>. QED BY <2>4, <3>1, <3>2
    <2>. HIDE DEF rest
    <2>7. \A i \in 1 .. Len(rest) :
              at(i) \in 1 .. Len(q) /\ at(i) # k /\ rest[i] = q[at(i)]
        <3>. SUFFICES ASSUME NEW i \in 1 .. Len(rest)
                      PROVE  at(i) \in 1 .. Len(q) /\ at(i) # k /\ rest[i] = q[at(i)]
            OBVIOUS
        <3>1. CASE i < k
            <4>1. i \in 1 .. k - 1 /\ i \in 1 .. Len(q) - 1 /\ i <= k - 1 /\ at(i) = i
                BY <1>1, <2>2, <2>6, <3>1
            <4>. QED BY <1>1, <2>2, <2>4, <2>6, <3>1, <4>1
        <3>2. CASE ~(i < k)
            <4>1. /\ i - (k - 1) \in 1 .. Len(q) - k /\ i \in 1 .. Len(q) - 1 /\ ~(i <= k - 1)
                  /\ k + (i - (k - 1)) = i + 1 /\ i + 1 \in 1 .. Len(q) /\ i + 1 # k
                  /\ at(i) = i + 1
                BY <1>1, <2>2, <2>6, <3>2
            <4>2. rest[i] = back[i - (k - 1)]
                BY <2>6, <4>1
            <4>3. back[i - (k - 1)] = q[i + 1]
                BY <2>5, <4>1
            <4>. QED BY <4>1, <4>2, <4>3
        <3>. QED BY <3>1, <3>2
    <2>8. \A i, j \in 1 .. Len(rest) : i < j => at(i) < at(j)
        BY <1>1, <2>2, <2>6
    <2>. HIDE DEF at
    <2>9. Among(rest, M)
        BY <2>7 DEF Line, Among
    <2>10. Ascends(rest, B)
        BY <2>7, <2>8 DEF Line, Ascends
    <2>11. Leads(w, rest, B) /\ Leads(h, rest, B)
        BY <2>7 DEF Line, Leads
    <2>12. rest \in Queues
        BY <2>6 DEF Queues
    <2>. QED BY <2>1, <2>6, <2>9, <2>10, <2>11, <2>12 DEF Line
<1>. QED BY <1>3, <1>4

\* The final flush takes them into its own hands.
LEMMA LineFlushes ==
    ASSUME NEW w, NEW q, NEW B, NEW M, Line(w, <<>>, q, B, M), OnlySentinel(q)
    PROVE  Line(w, EntriesOf(q), <<>>, B, M) /\ EntriesOf(q) \in Seq(LogEntries)
<1>1. Line(w, <<>>, EntriesOf(q), B, M) /\ EntriesOf(q) \in Seq(LogEntries)
    BY LineClears
<1>. HIDE DEF EntriesOf
<1>. QED BY <1>1, NothingInLine DEF Line

\* The order in which entries were accepted, and where they are.
Order == {p \in LogEntries \X LogEntries : QueuedBefore(p[1], p[2])}
InLine == IF queue = Off THEN <<>> ELSE queue
InHand == IF tail = <<>> THEN batch ELSE tail

\* Where the writer and stop_db_writer stand tells which of them has entries.
PhaseInv ==
    /\ batch # <<>> => worker \in {"collecting", "inserting"}
    /\ tail # <<>> => stopper = "flushing"
    /\ stopper = "flushing" => worker = "ended"
    /\ startup = "preparing" => stopper = "idle"
    /\ queue = Off => stopper = "idle"

\* Inductive with them: no entry is accepted again, those on their way stand in the
\* order in which they were accepted, and a sentinel is there only for its writer.
LineInv ==
    /\ accepted \in Seq(LogEntries) /\ IsInjective(accepted)
    /\ ToSet(accepted) \subseteq recorded \ handed /\ handed \subseteq recorded
    /\ recorded \subseteq LogEntries
    /\ Line(table, InHand, InLine, Order, ToSet(accepted))
    /\ OnlySentinel(InLine)
    /\ stopper # "waiting" => \A i \in 1 .. Len(InLine) : InLine[i] # Shutdown

OrderInv == LifeInv /\ PhaseInv /\ LineInv

LEMMA Accepts ==
    ASSUME accepted \in Seq(LogEntries), IsInjective(accepted), NEW e \in LogEntries,
           e \notin ToSet(accepted), accepted' = Append(accepted, e)
    PROVE  /\ accepted' \in Seq(LogEntries) /\ IsInjective(accepted)'
           /\ ToSet(accepted') = ToSet(accepted) \union {e}
           /\ Order \subseteq Order'
           /\ \A d \in ToSet(accepted) : <<d, e>> \in Order'
<1>. DEFINE n == Len(accepted)
            longer == Append(accepted, e)
<1>1. /\ longer \in Seq(LogEntries) /\ Len(longer) = n + 1 /\ n \in Nat
      /\ DOMAIN accepted = 1 .. n /\ DOMAIN longer = 1 .. n + 1
      /\ \A i \in 1 .. n : longer[i] = accepted[i]
      /\ longer[n + 1] = e
    OBVIOUS
<1>2. accepted' = longer
    OBVIOUS
<1>. HIDE DEF longer, n
<1>3. \A i \in 1 .. n : accepted[i] # e /\ accepted[i] \in ToSet(accepted)
    BY <1>1 DEF ToSet
<1>4. \A i \in DOMAIN longer : i \in 1 .. n \/ i = n + 1
    BY <1>1
<1>5. IsInjective(longer)
    BY <1>1, <1>3, <1>4 DEF IsInjective
<1>6. ToSet(longer) = ToSet(accepted) \union {e}
    <2>1. ToSet(longer) \subseteq ToSet(accepted) \union {e}
        BY <1>1, <1>3, <1>4 DEF ToSet
    <2>2. n + 1 \in DOMAIN longer /\ 1 .. n \subseteq DOMAIN longer
        BY <1>1
    <2>3. ToSet(accepted) \subseteq ToSet(longer)
        BY <1>1, <2>2 DEF ToSet
    <2>4. e \in ToSet(longer)
        BY <1>1, <2>2 DEF ToSet
    <2>. QED BY <2>1, <2>3, <2>4
<1>7. ASSUME NEW p \in Order PROVE p \in Order'
    <2>1. p \in LogEntries \X LogEntries /\ QueuedBefore(p[1], p[2])
        BY <1>7 DEF Order
    <2>2. PICK k \in DOMAIN accepted, l \in DOMAIN accepted :
              k < l /\ accepted[k] = p[1] /\ accepted[l] = p[2]
        BY <2>1 DEF QueuedBefore
    <2>3. k \in DOMAIN longer /\ l \in DOMAIN longer /\ longer[k] = p[1] /\ longer[l] = p[2]
        BY <1>1, <2>2
    <2>4. QueuedBefore(p[1], p[2])'
        BY <1>2, <2>2, <2>3 DEF QueuedBefore
    <2>. QED BY <2>1, <2>4 DEF Order
<1>8. ASSUME NEW d \in ToSet(accepted) PROVE <<d, e>> \in Order'
    <2>1. PICK k \in DOMAIN accepted : accepted[k] = d
        BY DEF ToSet
    <2>2. /\ k \in DOMAIN longer /\ n + 1 \in DOMAIN longer /\ k < n + 1
          /\ longer[k] = d /\ longer[n + 1] = e /\ d \in LogEntries
        BY <1>1, <2>1
    <2>3. QueuedBefore(d, e)'
        BY <1>2, <2>2 DEF QueuedBefore
    <2>4. <<d, e>> \in LogEntries \X LogEntries /\ <<d, e>>[1] = d /\ <<d, e>>[2] = e
        BY <2>2
    <2>5. QueuedBefore(<<d, e>>[1], <<d, e>>[2])'
        BY <2>3, <2>4
    <2>. QED BY <2>4, <2>5 DEF Order
<1>. QED BY <1>1, <1>2, <1>5, <1>6, <1>7, <1>8

\* A step that leaves the log alone but for where its tasks stand.
LEMMA SameLine ==
    ASSUME LineInv, UNCHANGED <<accepted, recorded, handed, table, tail, batch, queue>>,
           stopper' # "waiting" => stopper # "waiting"
    PROVE  LineInv'
BY DEF LineInv, Order, QueuedBefore, InHand, InLine

\* A step that moves entries along and accepts none.
LEMMA LineMoves ==
    ASSUME LineInv, UNCHANGED <<accepted, recorded>>, handed' \subseteq handed,
           Line(table', InHand', InLine', Order, ToSet(accepted)), OnlySentinel(InLine'),
           stopper' # "waiting" => \A i \in 1 .. Len(InLine') : InLine'[i] # Shutdown
    PROVE  LineInv'
<1>1. Order' = Order
    BY DEF Order, QueuedBefore
<1>. QED BY <1>1 DEF LineInv

LEMMA EnqueueKeepsLine ==
    ASSUME LineInv, queue # Off, IsQueue(queue), NEW e \in LogEntries, e \notin ToSet(accepted),
           Enqueue(e), UNCHANGED <<batch, stopper, tail, table>>,
           handed' \subseteq recorded', recorded \subseteq recorded', recorded' \subseteq LogEntries,
           e \in recorded' \ handed', handed' \subseteq handed
    PROVE  LineInv'
<1>1. CASE Len(queue) < QueueMax
    <2>1. queue' = Append(queue, e) /\ accepted' = Append(accepted, e)
        BY <1>1 DEF Enqueue
    <2>2. IsQueue(queue')
        BY <1>1, <2>1, AppendQueue
    <2>3. InLine = queue /\ InLine' = queue' /\ InHand' = InHand
        BY <2>2 DEF InLine, InHand, IsQueue
    <2>4. /\ accepted' \in Seq(LogEntries) /\ IsInjective(accepted)'
          /\ ToSet(accepted') = ToSet(accepted) \union {e}
          /\ Order \subseteq Order'
          /\ \A d \in ToSet(accepted) : <<d, e>> \in Order'
        BY <2>1, Accepts DEF LineInv
    <2>5. Line(table, InHand, queue, Order, ToSet(accepted))
        BY <2>3 DEF LineInv
    <2>. HIDE DEF InHand, Order
    <2>6. Line(table, InHand, Append(queue, e), Order', ToSet(accepted) \union {e})
        BY <2>4, <2>5, LineGrows
    <2>7. Line(table', InHand', InLine', Order', ToSet(accepted'))
        BY <2>1, <2>3, <2>4, <2>6
    <2>8. /\ Len(queue') = Len(queue) + 1 /\ queue'[Len(queue) + 1] = e /\ Len(queue) \in Nat
          /\ \A i \in 1 .. Len(queue) : queue'[i] = queue[i]
        BY <2>1 DEF IsQueue, Queues
    <2>9. \A i \in 1 .. Len(queue') : queue'[i] = Shutdown => i \in 1 .. Len(queue) /\ queue[i] = Shutdown
        BY <2>8, SentinelIsNoEntry
    <2>10. OnlySentinel(InLine')
        BY <2>3, <2>9 DEF LineInv, OnlySentinel
    <2>11. stopper' # "waiting" => \A i \in 1 .. Len(InLine') : InLine'[i] # Shutdown
        BY <2>3, <2>9 DEF LineInv
    <2>12. ToSet(accepted') \subseteq recorded' \ handed'
        BY <2>4 DEF LineInv
    <2>. QED BY <2>4, <2>7, <2>10, <2>11, <2>12 DEF LineInv
<1>2. CASE ~(Len(queue) < QueueMax)
    <2>1. UNCHANGED <<queue, accepted>>
        BY <1>2 DEF Enqueue
    <2>2. Order' = Order /\ InLine' = InLine /\ InHand' = InHand
        BY <2>1 DEF Order, QueuedBefore, InLine, InHand
    <2>3. ToSet(accepted') \subseteq recorded' \ handed'
        BY <2>1 DEF LineInv
    <2>. QED BY <2>1, <2>2, <2>3 DEF LineInv
<1>. QED BY <1>1, <1>2

LEMMA QueueStays ==
    ASSUME QueueInv, queue # Off, NEW e \in LogEntries, Enqueue(e)
    PROVE  queue' # Off
<1>1. IsQueue(queue)
    BY DEF QueueInv
<1>2. CASE Len(queue) < QueueMax
    <2>1. IsQueue(Append(queue, e))
        BY <1>1, <1>2, AppendQueue
    <2>. QED BY <1>2, <2>1 DEF Enqueue, IsQueue
<1>. QED BY <1>2 DEF Enqueue

LEMMA RecordKeepsLine ==
    ASSUME OrderInv, RecordStep, UNCHANGED lifeVars
    PROVE  PhaseInv' /\ LineInv'
<1>. USE DEF OrderInv
<1>1. ASSUME NEW e \in LogEntries, Record(e) PROVE PhaseInv' /\ LineInv'
    <2>1. PhaseInv'
        <3>1. queue' = Off => queue = Off
            BY <1>1, QueueStays DEF Record, LifeInv
        <3>. QED BY <1>1, <3>1 DEF Record, PhaseInv, lifeVars
    <2>2. /\ recorded' = recorded \union {e} /\ e \notin ToSet(accepted) /\ e \notin handed
          /\ UNCHANGED <<handed, batch, stopper, tail, table>>
        BY <1>1 DEF Record, LineInv
    <2>3. CASE queue = Off
        <3>1. UNCHANGED <<queue, accepted>>
            BY <1>1, <2>3 DEF Record
        <3>2. Order' = Order /\ InLine' = InLine /\ InHand' = InHand
            BY <2>2, <3>1 DEF Order, QueuedBefore, InLine, InHand
        <3>. QED BY <2>1, <2>2, <3>1, <3>2 DEF LineInv
    <2>4. CASE queue # Off
        <3>1. Enqueue(e) /\ IsQueue(queue)
            BY <1>1, <2>4 DEF Record, LifeInv, QueueInv
        <3>2. /\ handed' \subseteq recorded' /\ recorded' \subseteq LogEntries
              /\ e \in recorded' \ handed'
            BY <2>2 DEF LineInv
        <3>. HIDE DEF OrderInv
        <3>3. LineInv
            BY DEF OrderInv
        <3>. QED BY <2>1, <2>2, <2>4, <3>1, <3>2, <3>3, EnqueueKeepsLine
    <2>. QED BY <2>3, <2>4
<1>2. ASSUME NEW e \in LogEntries, RecordInThread(e) PROVE PhaseInv' /\ LineInv'
    <2>1. PhaseInv'
        BY <1>2 DEF RecordInThread, PhaseInv, lifeVars
    <2>2. /\ recorded' = recorded \union {e} /\ handed' = handed \union {e}
          /\ e \notin ToSet(accepted)
          /\ UNCHANGED <<queue, batch, stopper, tail, accepted, table>>
        BY <1>2 DEF RecordInThread, LineInv
    <2>3. Order' = Order /\ InLine' = InLine /\ InHand' = InHand
        BY <2>2 DEF Order, QueuedBefore, InLine, InHand
    <2>. QED BY <2>1, <2>2, <2>3 DEF LineInv
<1>3. ASSUME NEW e \in LogEntries, RunCallback(e) PROVE PhaseInv' /\ LineInv'
    <2>1. PhaseInv'
        <3>1. queue' # Off
            BY <1>3, QueueStays DEF RunCallback, LifeInv
        <3>. QED BY <1>3, <3>1 DEF RunCallback, PhaseInv, lifeVars
    <2>2. /\ handed' = handed \ {e} /\ e \in handed /\ e \notin ToSet(accepted)
          /\ queue # Off /\ Enqueue(e)
          /\ UNCHANGED <<batch, stopper, tail, table, recorded>>
        BY <1>3 DEF RunCallback, LineInv
    <2>3. IsQueue(queue)
        BY <2>2 DEF LifeInv, QueueInv
    <2>4. /\ handed' \subseteq recorded' /\ recorded' \subseteq LogEntries
          /\ e \in recorded' \ handed' /\ handed' \subseteq handed /\ recorded \subseteq recorded'
        BY <2>2 DEF LineInv
    <2>5. LineInv
        OBVIOUS
    <2>. HIDE DEF OrderInv
    <2>. QED BY <2>1, <2>2, <2>3, <2>4, <2>5, EnqueueKeepsLine
<1>. QED BY <1>1, <1>2, <1>3 DEF RecordStep

\* The writer takes the first of the queue, or meets the sentinel.
LEMMA TakeKeepsLine ==
    ASSUME LineInv, IsQueue(queue), queue # Off, queue # <<>>, queue' = Tail(queue),
           UNCHANGED <<accepted, recorded, handed, table, tail, stopper>>, tail = <<>>,
           IF Head(queue) = Shutdown THEN UNCHANGED batch ELSE batch' = Append(batch, Head(queue))
    PROVE  LineInv'
<1>1. IsQueue(queue')
    BY TailQueue
<1>2. InLine = queue /\ InLine' = Tail(queue) /\ InHand = batch /\ InHand' = batch'
    BY <1>1 DEF InLine, InHand, IsQueue
<1>3. Line(table, batch, queue, Order, ToSet(accepted)) /\ OnlySentinel(queue)
    BY <1>2 DEF LineInv
<1>4. Line(table, batch', Tail(queue), Order, ToSet(accepted))
    <2>1. CASE Head(queue) = Shutdown
        BY <1>3, <2>1, LineSkips
    <2>2. CASE Head(queue) # Shutdown
        BY <1>3, <2>2, LineTakes
    <2>. QED BY <2>1, <2>2
<1>5. /\ Len(queue) \in Nat /\ Len(Tail(queue)) = Len(queue) - 1
      /\ \A i \in 1 .. Len(Tail(queue)) : i + 1 \in 1 .. Len(queue) /\ Tail(queue)[i] = queue[i + 1]
    BY DEF IsQueue, Queues
<1>6. OnlySentinel(Tail(queue))
    <2>1. \A i, j \in 1 .. Len(Tail(queue)) : i + 1 = j + 1 => i = j
        BY <1>5
    <2>. QED BY <1>3, <1>5, <2>1 DEF OnlySentinel
<1>7. stopper' # "waiting" => \A i \in 1 .. Len(InLine') : InLine'[i] # Shutdown
    BY <1>2, <1>5 DEF LineInv
<1>8. Line(table', InHand', InLine', Order, ToSet(accepted)) /\ OnlySentinel(InLine')
    BY <1>2, <1>4, <1>6
<1>. QED BY <1>7, <1>8, LineMoves

LEMMA WriterKeepsLine ==
    ASSUME OrderInv, WriterStep, UNCHANGED lifeVars
    PROVE  PhaseInv' /\ LineInv'
<1>0. LifeInv /\ PhaseInv /\ LineInv
    BY DEF OrderInv
<1>. USE <1>0
<1>1. CASE TakeFirst
    <2>1. PhaseInv'
        <3>1. queue' # Off
            <4>1. IsQueue(queue)
                BY <1>1 DEF TakeFirst, LifeInv, QueueInv
            <4>2. IsQueue(Tail(queue))
                BY <1>1, <4>1, TailQueue DEF TakeFirst
            <4>. QED BY <1>1, <4>2 DEF TakeFirst, IsQueue
        <3>. QED BY <1>1, <3>1 DEF TakeFirst, PhaseInv, lifeVars
    <2>2. /\ IsQueue(queue) /\ queue # Off /\ queue # <<>> /\ queue' = Tail(queue)
          /\ tail = <<>> /\ batch = <<>>
          /\ UNCHANGED <<accepted, recorded, handed, table, tail, stopper>>
        BY <1>1 DEF TakeFirst, LifeInv, QueueInv, PhaseInv
    <2>3. Append(batch, Head(queue)) = <<Head(queue)>>
        BY <2>2
    <2>4. IF Head(queue) = Shutdown THEN UNCHANGED batch ELSE batch' = Append(batch, Head(queue))
        BY <1>1, <2>3 DEF TakeFirst
    <2>. QED BY <2>1, <2>2, <2>4, TakeKeepsLine
<1>2. CASE TakeNext
    <2>1. PhaseInv'
        <3>1. queue' # Off
            <4>1. IsQueue(queue)
                BY <1>2 DEF TakeNext, LifeInv, QueueInv
            <4>2. IsQueue(Tail(queue))
                BY <1>2, <4>1, TailQueue DEF TakeNext
            <4>. QED BY <1>2, <4>2 DEF TakeNext, IsQueue
        <3>. QED BY <1>2, <3>1 DEF TakeNext, PhaseInv, lifeVars
    <2>2. /\ IsQueue(queue) /\ queue # Off /\ queue # <<>> /\ queue' = Tail(queue)
          /\ tail = <<>>
          /\ UNCHANGED <<accepted, recorded, handed, table, tail, stopper>>
        BY <1>2 DEF TakeNext, LifeInv, QueueInv, PhaseInv
    <2>3. IF Head(queue) = Shutdown THEN UNCHANGED batch ELSE batch' = Append(batch, Head(queue))
        BY <1>2 DEF TakeNext
    <2>. QED BY <2>1, <2>2, <2>3, TakeKeepsLine
<1>3. CASE CloseBatch
    <2>1. PhaseInv'
        BY <1>3 DEF CloseBatch, PhaseInv, lifeVars
    <2>. QED BY <1>3, <2>1, SameLine DEF CloseBatch
<1>4. CASE InsertBatch
    <2>1. PhaseInv'
        BY <1>4 DEF InsertBatch, PhaseInv, lifeVars
    <2>2. tail = <<>> /\ batch' = <<>> /\ table' \in {table \o batch, table}
          /\ UNCHANGED <<queue, handed, stopper, tail, accepted, recorded>>
        BY <1>4 DEF InsertBatch, PhaseInv
    <2>3. InHand = batch /\ InHand' = <<>> /\ InLine' = InLine
        BY <2>2 DEF InHand, InLine
    <2>4. Line(table, batch, InLine, Order, ToSet(accepted))
        BY <2>3 DEF LineInv
    <2>. HIDE DEF InHand, InLine
    <2>5. Line(table', InHand', InLine', Order, ToSet(accepted))
        BY <2>2, <2>3, <2>4, LineWrites, LineDrops
    <2>6. /\ OnlySentinel(InLine')
          /\ stopper' # "waiting" => \A i \in 1 .. Len(InLine') : InLine'[i] # Shutdown
        BY <2>2, <2>3 DEF LineInv
    <2>. QED BY <2>1, <2>2, <2>5, <2>6, LineMoves
<1>5. CASE EndPass
    <2>1. PhaseInv'
        BY <1>5 DEF EndPass, PhaseInv, lifeVars
    <2>. QED BY <1>5, <2>1, SameLine DEF EndPass
<1>. QED BY <1>1, <1>2, <1>3, <1>4, <1>5 DEF WriterStep, CollectStep, WriterAnswer

\* What the flush finds: nothing is in hand any more.
LEMMA FlushKeepsLine ==
    ASSUME LineInv, PhaseInv, QueueInv, queue # Off, Flush, stopper # "flushing",
           startup' = "preparing" => stopper' = "idle", batch' = <<>>,
           table' \in {table \o batch, table},
           UNCHANGED <<accepted, recorded>>
    PROVE  PhaseInv' /\ LineInv'
<1>1. tail = <<>> /\ InHand = batch /\ InLine = queue /\ queue \in Queues
    BY DEF PhaseInv, InHand, InLine, QueueInv, IsQueue
<1>2. Line(table, batch, queue, Order, ToSet(accepted)) /\ OnlySentinel(queue)
    BY <1>1 DEF LineInv
<1>3. Line(table', <<>>, queue, Order, ToSet(accepted))
    BY <1>2, LineWrites, LineDrops
<1>4. \A i \in 1 .. Len(<<>>) : <<>>[i] # Shutdown
    OBVIOUS
<1>5. OnlySentinel(<<>>)
    BY <1>4 DEF OnlySentinel
<1>6. CASE EntriesOf(queue) = <<>>
    <2>1. queue' = Off /\ handed' = {} /\ tail' = <<>> /\ stopper' = "idle"
        BY <1>6 DEF Flush, Forget
    <2>2. InHand' = <<>> /\ InLine' = <<>>
        BY <2>1 DEF InHand, InLine
    <2>3. Line(table', InHand', InLine', Order, ToSet(accepted))
        BY <1>3, <2>2, LineDrops
    <2>4. PhaseInv'
        BY <2>1 DEF PhaseInv
    <2>. QED BY <1>4, <1>5, <2>1, <2>2, <2>3, <2>4, LineMoves
<1>7. CASE EntriesOf(queue) # <<>>
    <2>1. /\ queue' = <<>> /\ tail' = EntriesOf(queue) /\ worker' = "ended"
          /\ stopper' = "flushing" /\ handed' = handed
        BY <1>7 DEF Flush
    <2>2. <<>> # Off
        BY EmptyQueue DEF IsQueue
    <2>. HIDE DEF EntriesOf
    <2>3. InHand' = EntriesOf(queue) /\ InLine' = <<>>
        BY <1>7, <2>1, <2>2 DEF InHand, InLine
    <2>4. Line(table', InHand', InLine', Order, ToSet(accepted))
        BY <1>2, <1>3, <2>3, LineFlushes
    <2>5. PhaseInv'
        BY <2>1, <2>2 DEF PhaseInv
    <2>. QED BY <1>4, <1>5, <2>1, <2>3, <2>4, <2>5, LineMoves
<1>. QED BY <1>6, <1>7

\* Cancelling a writer leaves nothing in its hands.
LEMMA CancelDrops ==
    ASSUME CancelWriter
    PROVE  batch' = <<>> /\ table' \in {table \o batch, table}
BY DEF CancelWriter

\* Without a writer there is nothing in its hands.
LEMMA IdleHandsAreEmpty ==
    ASSUME PhaseInv, ~Running
    PROVE  batch = <<>>
BY DEF PhaseInv

\* The final insert is over, and nothing is in hand.
LEMMA InsertKeepsLine ==
    ASSUME LineInv, PhaseInv, stopper = "flushing", table' \in {table \o tail, table},
           tail' = <<>>, batch' = batch, UNCHANGED <<accepted, recorded>>,
           handed' \subseteq handed, queue' \in {queue, Off}
    PROVE  LineInv'
<1>1. batch = <<>> /\ InHand = tail /\ InHand' = <<>>
    BY DEF PhaseInv, InHand
<1>2. InLine' \in {InLine, <<>>}
    BY DEF InLine
<1>3. Line(table, tail, InLine, Order, ToSet(accepted)) /\ OnlySentinel(InLine)
    BY <1>1 DEF LineInv
<1>4. Line(table', <<>>, InLine, Order, ToSet(accepted))
    BY <1>3, LineWrites, LineDrops
<1>5. Line(table', <<>>, InLine', Order, ToSet(accepted))
    BY <1>2, <1>4, LineDrops
<1>6. \A i \in 1 .. Len(InLine) : InLine[i] # Shutdown
    BY DEF LineInv
<1>7. Len(<<>>) = 0
    OBVIOUS
<1>8. \A i \in 1 .. Len(InLine') : InLine'[i] # Shutdown
    BY <1>2, <1>6, <1>7
<1>9. OnlySentinel(InLine')
    BY <1>8 DEF OnlySentinel
<1>. QED BY <1>1, <1>5, <1>8, <1>9, LineMoves

LEMMA StopKeepsLine ==
    ASSUME OrderInv, StopStep, UNCHANGED lifeVars
    PROVE  PhaseInv' /\ LineInv'
<1>0. QueueInv /\ PhaseInv /\ LineInv /\ (queue = Off => ~Running)
    BY DEF OrderInv, LifeInv
<1>1. startup' = "preparing" => startup = "preparing"
    BY DEF lifeVars
<1>2. CASE WriterEnded
    <2>1. /\ stopper = "waiting" /\ startup # "preparing" /\ queue # Off
          /\ batch' = batch /\ batch = <<>> /\ table' = table
        BY <1>0, <1>2 DEF WriterEnded, PhaseInv
    <2>. QED BY <1>0, <1>1, <1>2, <2>1, FlushKeepsLine DEF WriterEnded
<1>3. CASE StopTimesOut
    <2>1. stopper = "waiting" /\ startup # "preparing" /\ queue # Off
        BY <1>0, <1>3 DEF StopTimesOut, PhaseInv
    <2>2. batch' = <<>> /\ table' \in {table \o batch, table}
        BY <1>3, CancelDrops DEF StopTimesOut
    <2>. QED BY <1>0, <1>1, <1>3, <2>1, <2>2, FlushKeepsLine DEF StopTimesOut
<1>4. CASE EndStop
    <2>1. /\ queue' = Off /\ handed' = {} /\ tail' = <<>> /\ stopper' = "idle"
          /\ batch' = batch /\ batch = <<>>
        BY <1>0, <1>4 DEF EndStop, Forget, PhaseInv
    <2>2. PhaseInv'
        BY <2>1 DEF PhaseInv
    <2>. QED BY <1>0, <1>4, <2>1, <2>2, InsertKeepsLine DEF EndStop
<1>. QED BY <1>2, <1>3, <1>4 DEF StopStep, WaitStep

\* Telling the writer to stop, or doing its work when there is none.
LEMMA BeginStopKeepsLine ==
    ASSUME QueueInv, PhaseInv, LineInv, BeginStop, UNCHANGED recorded,
           startup' # "preparing"
    PROVE  PhaseInv' /\ LineInv'
<1>0. stopper = "idle" /\ queue # Off /\ IsQueue(queue) /\ UNCHANGED accepted
    BY DEF BeginStop, QueueInv
<1>1. CASE /\ Running /\ Len(queue) < QueueMax
           /\ queue' = Append(queue, Shutdown) /\ stopper' = "waiting"
           /\ UNCHANGED <<handed, worker, batch, stopping, table, tail>>
    <2>1. IsQueue(queue')
        BY <1>0, <1>1, AppendQueue
    <2>2. InLine = queue /\ InLine' = Append(queue, Shutdown) /\ InHand' = InHand
        BY <1>0, <1>1, <2>1 DEF InLine, InHand, IsQueue
    <2>3. Line(table, InHand, queue, Order, ToSet(accepted))
        BY <2>2 DEF LineInv
    <2>. HIDE DEF InHand
    <2>4. Line(table', InHand', InLine', Order, ToSet(accepted))
        BY <1>1, <2>2, <2>3, LineAsksToStop
    <2>5. \A i \in 1 .. Len(queue) : queue[i] # Shutdown
        BY <1>0, <2>2 DEF LineInv
    <2>6. /\ Len(InLine') = Len(queue) + 1 /\ Len(queue) \in Nat
          /\ \A i \in 1 .. Len(queue) : InLine'[i] = queue[i]
        BY <1>0, <2>2 DEF IsQueue, Queues
    <2>7. OnlySentinel(InLine')
        BY <2>5, <2>6 DEF OnlySentinel
    <2>8. PhaseInv'
        BY <1>0, <1>1, <2>1 DEF PhaseInv, IsQueue
    <2>. QED BY <1>0, <1>1, <2>4, <2>7, <2>8, LineMoves
<1>2. CASE Running /\ Len(queue) >= QueueMax /\ CancelWriter /\ Flush
    BY <1>0, <1>2, CancelDrops, FlushKeepsLine
<1>3. CASE ~Running /\ Flush /\ UNCHANGED <<batch, table>>
    <2>1. batch' = <<>>
        BY <1>3, IdleHandsAreEmpty
    <2>. QED BY <1>0, <1>3, <2>1, FlushKeepsLine
<1>. QED BY <1>1, <1>2, <1>3 DEF BeginStop

LEMMA StartupKeepsLine ==
    ASSUME OrderInv, Activate \/ PreparationFails \/ ActivationFails \/ Retry \/ JobsEnd
    PROVE  PhaseInv' /\ LineInv'
<1>0. PhaseInv /\ LineInv
    BY DEF OrderInv
<1>1. <<>> # Off /\ <<Shutdown>> # Off
    BY EmptyQueue, OneSentinel DEF IsQueue
<1>2. ASSUME startup = "preparing", batch' = <<>>, UNCHANGED <<tail, table>>
      PROVE  /\ tail = <<>> /\ InHand' = <<>>
             /\ Line(table', InHand', <<>>, Order, ToSet(accepted))
    <2>1. tail = <<>> /\ InHand' = <<>>
        BY <1>0, <1>2 DEF PhaseInv, InHand
    <2>2. Line(table, <<>>, <<>>, Order, ToSet(accepted))
        BY <1>0, LineDrops DEF LineInv
    <2>. QED BY <1>2, <2>1, <2>2
<1>3. CASE Activate
    <2>1. /\ startup = "preparing" /\ startup' = "done" /\ batch' = <<>> /\ queue' = <<>>
          /\ UNCHANGED <<handed, stopper, tail, accepted, table, recorded>>
        BY <1>3 DEF Activate, StartWriter
    <2>2. InLine' = <<>>
        BY <1>1, <2>1 DEF InLine
    <2>3. Line(table', InHand', InLine', Order, ToSet(accepted)) /\ tail = <<>>
        BY <1>2, <2>1, <2>2
    <2>4. \A i \in 1 .. Len(InLine') : InLine'[i] # Shutdown
        BY <2>2
    <2>5. OnlySentinel(InLine')
        BY <2>4 DEF OnlySentinel
    <2>6. PhaseInv'
        BY <1>0, <1>1, <2>1, <2>3 DEF PhaseInv
    <2>. QED BY <1>0, <2>1, <2>3, <2>4, <2>5, <2>6, LineMoves
<1>4. CASE PreparationFails
    <2>1. PhaseInv'
        BY <1>0, <1>4 DEF PreparationFails, logVars, PhaseInv
    <2>. QED BY <1>0, <1>4, <2>1, SameLine DEF PreparationFails, logVars
<1>5. CASE ActivationFails
    <2>1. /\ startup = "preparing" /\ startup' = "rolling back"
          /\ batch' = <<>> /\ queue' = <<Shutdown>> /\ stopper' = "waiting"
          /\ UNCHANGED <<handed, tail, accepted, table, recorded>>
        BY <1>5 DEF ActivationFails
    <2>2. InLine' = <<Shutdown>> /\ InLine' = Append(<<>>, Shutdown)
        <3>1. queue' # Off
            BY <1>1, <2>1
        <3>2. InLine' = queue'
            BY <3>1 DEF InLine
        <3>3. Append(<<>>, Shutdown) = <<Shutdown>>
            OBVIOUS
        <3>. QED BY <2>1, <3>2, <3>3
    <2>3. Line(table', InHand', <<>>, Order, ToSet(accepted)) /\ tail = <<>>
        BY <1>2, <2>1
    <2>4. Line(table', InHand', InLine', Order, ToSet(accepted))
        BY <2>2, <2>3, LineAsksToStop
    <2>5. OnlySentinel(InLine')
        BY <2>2 DEF OnlySentinel
    <2>6. PhaseInv'
        BY <1>0, <1>1, <2>1, <2>3 DEF PhaseInv
    <2>. QED BY <1>0, <2>1, <2>4, <2>5, <2>6, LineMoves
<1>6. CASE Retry
    <2>1. PhaseInv'
        BY <1>0, <1>6 DEF Retry, logVars, PhaseInv
    <2>. QED BY <1>0, <1>6, <2>1, SameLine DEF Retry, logVars
<1>7. CASE JobsEnd
    <2>1. PhaseInv'
        BY <1>0, <1>7 DEF JobsEnd, logVars, PhaseInv
    <2>. QED BY <1>0, <1>7, <2>1, SameLine DEF JobsEnd, logVars
<1>. QED BY <1>3, <1>4, <1>5, <1>6, <1>7

\* The cancellation of the start-up task, wherever it finds that task.
LEMMA CancelStartupKeepsLine ==
    ASSUME OrderInv, CancelStartup
    PROVE  PhaseInv' /\ LineInv'
<1>0. QueueInv /\ PhaseInv /\ LineInv /\ (queue = Off => ~Running)
    BY DEF OrderInv, LifeInv
<1>1. CASE /\ startup \in {"preparing", "rolling back"} /\ stopper = "idle"
           /\ startup' = "cancelled" /\ UNCHANGED logVars
    <2>1. PhaseInv'
        BY <1>0, <1>1 DEF logVars, PhaseInv
    <2>. QED BY <1>0, <1>1, <2>1, SameLine DEF logVars
<1>2. CASE startup = "rolling back" /\ StopCancelledWaiting /\ UNCHANGED startup
    <2>1. stopper = "waiting" /\ queue # Off /\ startup' # "preparing"
        BY <1>0, <1>2 DEF StopCancelledWaiting, PhaseInv
    <2>2. batch' = <<>> /\ table' \in {table \o batch, table}
        <3>1. CASE Running
            BY <1>2, <3>1, CancelDrops DEF StopCancelledWaiting
        <3>2. CASE ~Running
            BY <1>0, <1>2, <3>2, IdleHandsAreEmpty DEF StopCancelledWaiting
        <3>. QED BY <3>1, <3>2
    <2>. QED BY <1>0, <1>2, <2>1, <2>2, FlushKeepsLine DEF StopCancelledWaiting
<1>3. CASE startup = "rolling back" /\ StopCancelledFlushing /\ startup' = "cancelled"
    <2>1. PhaseInv'
        BY <1>0, <1>3 DEF StopCancelledFlushing, PhaseInv
    <2>. QED BY <1>0, <1>3, <2>1, InsertKeepsLine DEF StopCancelledFlushing
<1>4. CASE startup = "done" /\ UNCHANGED <<logVars, startup>>
    <2>1. PhaseInv'
        BY <1>0, <1>4 DEF logVars, PhaseInv
    <2>. QED BY <1>0, <1>4, <2>1, SameLine DEF logVars
<1>. QED BY <1>1, <1>2, <1>3, <1>4 DEF CancelStartup

LEMMA ShutdownKeepsLine ==
    ASSUME OrderInv, BeginShutdown \/ StopServices \/ Close \/ Closed
    PROVE  PhaseInv' /\ LineInv'
<1>0. QueueInv /\ PhaseInv /\ LineInv
    BY DEF OrderInv, LifeInv
<1>1. ASSUME UNCHANGED <<logVars, startup>> PROVE PhaseInv' /\ LineInv'
    <2>1. PhaseInv'
        BY <1>0, <1>1 DEF logVars, PhaseInv
    <2>. QED BY <1>0, <1>1, <2>1, SameLine DEF logVars
<1>2. CASE BeginShutdown
    BY <1>2, CancelStartupKeepsLine DEF BeginShutdown
<1>3. CASE StopServices
    <2>1. startup' # "preparing" /\ UNCHANGED startup
        BY <1>3 DEF StopServices
    <2>2. CASE queue = Off
        BY <1>1, <1>3, <2>1, <2>2 DEF StopServices
    <2>3. CASE queue # Off
        BY <1>0, <1>3, <2>1, <2>3, BeginStopKeepsLine DEF StopServices
    <2>. QED BY <2>2, <2>3
<1>4. CASE Close
    BY <1>1, <1>4 DEF Close
<1>5. CASE Closed
    BY <1>1, <1>5 DEF Closed, vars, logVars
<1>. QED BY <1>2, <1>3, <1>4, <1>5

LEMMA NothingIsInLine == Init => PhaseInv /\ LineInv
<1>. SUFFICES ASSUME Init PROVE PhaseInv /\ LineInv
    OBVIOUS
<1>1. /\ queue = Off /\ handed = {} /\ recorded = {} /\ accepted = <<>> /\ table = <<>>
      /\ batch = <<>> /\ tail = <<>> /\ stopper = "idle" /\ startup = "preparing"
    BY DEF Init, LogInit
<1>2. PhaseInv
    BY <1>1 DEF PhaseInv
<1>3. InLine = <<>> /\ InHand = <<>>
    BY <1>1 DEF InLine, InHand
<1>4. \A i \in 1 .. Len(<<>>) : <<>>[i] # Shutdown
    OBVIOUS
<1>5. OnlySentinel(<<>>)
    BY <1>4 DEF OnlySentinel
<1>6. ToSet(<<>>) = {} /\ IsInjective(<<>>) /\ <<>> \in Seq(LogEntries)
    BY DEF ToSet, IsInjective
<1>7. Line(<<>>, <<>>, <<>>, Order, {})
    BY NothingInLine DEF Line
<1>. QED BY <1>1, <1>2, <1>3, <1>4, <1>5, <1>6, <1>7 DEF LineInv

\* What stands in one line is in the order of the queue.
LEMMA OneLineIsInOrder ==
    ASSUME LineInv, PhaseInv
    PROVE  RowsInOrder
<1>. DEFINE unwritten == IF queue = Off THEN <<>> ELSE EntriesOf(queue)
            rows == table \o batch \o tail \o unwritten
            front == table \o InHand
            M == ToSet(accepted)
<1>1. Line(table, InHand, InLine, Order, M) /\ OnlySentinel(InLine)
    BY DEF LineInv
<1>2. Line(table, InHand, unwritten, Order, M) /\ unwritten \in Seq(LogEntries)
    <2>1. CASE queue = Off
        <3>1. unwritten = <<>>
            BY <2>1
        <3>2. Line(table, InHand, <<>>, Order, M)
            BY <1>1, LineDrops
        <3>. HIDE DEF unwritten, InHand, M
        <3>3. unwritten \in Seq(LogEntries)
            BY <3>1
        <3>. QED BY <3>1, <3>2, <3>3
    <2>2. CASE queue # Off
        <3>1. unwritten = EntriesOf(InLine)
            BY <2>2 DEF InLine
        <3>. HIDE DEF unwritten, InLine, InHand, M
        <3>. QED BY <1>1, <3>1, LineClears
    <2>. QED BY <2>1, <2>2
<1>. HIDE DEF unwritten, M, Order
<1>3. Line(front, <<>>, unwritten, Order, M)
    BY <1>2, LineWrites
<1>4. Line(front, unwritten, <<>>, Order, M)
    <2>. HIDE DEF front
    <2>. QED BY <1>2, <1>3, NothingInLine DEF Line
<1>5. Line(front \o unwritten, <<>>, <<>>, Order, M)
    BY <1>4, LineWrites
<1>6. rows = front \o unwritten
    <2>1. table \in Seq(LogEntries) /\ batch \o tail = InHand /\ (batch = <<>> \/ tail = <<>>)
        <3>1. table \in Seq(LogEntries) /\ InHand \in Seq(LogEntries)
            BY <1>2 DEF Line
        <3>2. CASE tail = <<>>
            BY <3>1, <3>2, ConcatEmptySeq DEF InHand
        <3>3. CASE tail # <<>>
            <4>1. batch = <<>> /\ InHand = tail
                BY <3>3 DEF PhaseInv, InHand
            <4>. QED BY <3>1, <4>1, ConcatEmptySeq
        <3>. QED BY <3>1, <3>2, <3>3
    <2>2. table \o batch \o tail = front
        <3>1. CASE tail = <<>>
            <4>1. InHand = batch /\ batch \in Seq(LogEntries)
                BY <1>2, <3>1 DEF InHand, Line
            <4>2. table \o batch \in Seq(LogEntries)
                BY <2>1, <4>1
            <4>. QED BY <3>1, <4>1, <4>2, ConcatEmptySeq
        <3>2. CASE batch = <<>>
            <4>1. InHand = tail
                BY <3>2 DEF InHand
            <4>2. table \o <<>> = table
                BY <2>1, ConcatEmptySeq
            <4>. QED BY <3>2, <4>1, <4>2
        <3>. QED BY <2>1, <3>1, <3>2
    <2>. QED BY <2>2
<1>. HIDE DEF rows, front
<1>7. rows \in Seq(LogEntries) /\ Among(rows, M) /\ Ascends(rows, Order)
    BY <1>5, <1>6 DEF Line
<1>8. \A i \in 1 .. Len(rows) : rows[i] \in LogEntries /\ rows[i] # Shutdown
    BY <1>7, SentinelIsNoEntry
<1>9. DOMAIN rows = 1 .. Len(rows)
    BY <1>7
<1>10. ToSet(rows) \subseteq ToSet(accepted)
    BY <1>7, <1>8, <1>9 DEF Among, ToSet, M
<1>11. ASSUME NEW i \in DOMAIN rows, NEW j \in DOMAIN rows, i < j
       PROVE  QueuedBefore(rows[i], rows[j])
    <2>. DEFINE p == <<rows[i], rows[j]>>
    <2>1. p \in Order
        BY <1>7, <1>8, <1>9, <1>11 DEF Ascends
    <2>2. QueuedBefore(p[1], p[2]) /\ p[1] = rows[i] /\ p[2] = rows[j]
        BY <2>1 DEF Order
    <2>. QED BY <2>2
<1>12. IsInjective(accepted)
    BY DEF LineInv
<1>. QED BY <1>10, <1>11, <1>12 DEF RowsInOrder, rows, unwritten

\* Rows reach the table in the order in which their entries were queued, each at most
\* once: whatever is recorded, from whatever thread, wherever the writer is cancelled
\* or told to stop, and however often the start-up is rolled back (_drain_queue,
\* stop_db_writer).
THEOREM EntriesKeepTheirOrder == Spec => []RowsInOrder
<1>1. Init => PhaseInv /\ LineInv
    BY NothingIsInLine
<1>2. LifeInv /\ PhaseInv /\ LineInv /\ [Next]_vars => (PhaseInv /\ LineInv)'
    <2>. SUFFICES ASSUME OrderInv, [Next]_vars PROVE PhaseInv' /\ LineInv'
        BY DEF OrderInv
    <2>1. CASE LogNext
        BY <2>1, RecordKeepsLine, WriterKeepsLine, StopKeepsLine DEF LogNext
    <2>2. CASE UNCHANGED vars
        <3>1. PhaseInv'
            BY <2>2 DEF vars, OrderInv, PhaseInv
        <3>. QED BY <2>2, <3>1, SameLine DEF vars, OrderInv
    <2>. QED BY <2>1, <2>2, StartupKeepsLine, ShutdownKeepsLine DEF Next
<1>3. PhaseInv /\ LineInv => RowsInOrder
    BY OneLineIsInOrder
<1>. QED BY <1>1, <1>2, <1>3, LifeIsInvariant, PTL DEF Spec
=============================================================================
