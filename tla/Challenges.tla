------------------------------ MODULE Challenges ------------------------------
(***************************************************************************)
(* One-time codes of one client and one member of staff:                   *)
(* src/app/modules/auth/otp.py, the pre-2FA token of tokens.py, and the    *)
(* operations of src/app/modules/auth/service.py that use them.            *)
(*                                                                         *)
(* A challenge is one Redis key per person and purpose.  A wrong code      *)
(* takes an attempt off the copy that was read, and the copy is written    *)
(* back with the life that the key has by then; nothing holds the key in   *)
(* between.                                                                *)
(***************************************************************************)
EXTENDS Integers, FiniteSets

CONSTANTS
    Codes,        \* generated codes, taken to be distinct
    Logins,       \* pre-2FA tokens, one per staff_login
    Blank,        \* nothing stored, nothing chosen
    Clerks,       \* requests of the API processes
    Verifiers,    \* those that may submit codes: with one, submissions do not overlap
    SmsNumber,    \* the staff profile has an SMS number (no operation enters one)
    Life,         \* otp_ttl_seconds, in ticks
    MaxAttempts,  \* otp_max_attempts
    Cooldown,     \* otp_resend_cooldown_seconds, in ticks
    MaxLosses     \* bound on requests lost to a crash

Purposes == {"client-verify", "staff-sms"}

ASSUME ChallengesAssumption ==
    /\ Blank \notin Codes \cup Logins
    /\ Verifiers \subseteq Clerks
    /\ SmsNumber \in BOOLEAN
    /\ Life \in Nat \ {0}
    /\ MaxAttempts \in Nat \ {0}
    /\ Cooldown \in Nat
    /\ MaxLosses \in Nat

VARIABLES
    challenge,  \* auth:otp:<person>:<purpose>, with its remaining life
    cool,       \* remaining life of auth:otp:resend:<person>
    drawn,      \* codes generated so far
    sent,       \* codes handed to the mail and SMS queue
    pre,        \* auth:pre2fa:<jti>
    clerk,      \* what each request has read and decided
    losses,
    wrongs,     \* history: wrong submissions judged against each code
    answers,    \* history: right submissions of each code
    lived,      \* history: ticks each code was stored for
    revived,    \* history: codes written over another code by a stale copy
    sessions    \* history: sessions issued for each log-in

otpVars == <<challenge, cool, drawn, sent, pre, clerk, losses, wrongs, answers, lived, revived, sessions>>
history == <<wrongs, answers, lived, revived, sessions>>

-----------------------------------------------------------------------------
NoChallenge == [code |-> Blank, left |-> 0, life |-> 0]
Challenge == [code : Codes, left : 1..MaxAttempts, life : 1..Life]

Clerk == [op      : {"none", "send", "resend", "verify", "factor"},
          pc      : {"idle", "cool", "create", "send", "token", "drop", "method",
                     "read", "judge", "time", "write", "accept"},
          purpose : Purposes \cup {Blank},
          guess   : Codes \cup {Blank},      \* Blank stands for a code never generated
          copy    : Challenge \cup {NoChallenge},
          login   : Logins \cup {Blank}]

AtRest == [op |-> "none", pc |-> "idle", purpose |-> Blank, guess |-> Blank,
           copy |-> NoChallenge, login |-> Blank]

Now(s, c) == clerk' = [clerk EXCEPT ![s] = c]
Resting(s) == clerk[s] = AtRest

ChallengesInit ==
    /\ challenge = [p \in Purposes |-> NoChallenge]
    /\ cool = 0
    /\ drawn = {}
    /\ sent = {}
    /\ pre = [l \in Logins |-> "none"]
    /\ clerk = [s \in Clerks |-> AtRest]
    /\ losses = 0
    /\ wrongs = [c \in Codes |-> 0]
    /\ answers = [c \in Codes |-> 0]
    /\ lived = [c \in Codes |-> 0]
    /\ revived = {}
    /\ sessions = [l \in Logins |-> 0]

-----------------------------------------------------------------------------
(* signup, login and staff_login send a code whatever was stored before; *)
(* resend_client_otp first looks at its cooldown.                        *)

SendCode(s, p) ==
    /\ Resting(s)
    /\ Now(s, [AtRest EXCEPT !.op = "send", !.pc = "create", !.purpose = p])
    /\ UNCHANGED <<challenge, cool, drawn, sent, pre, losses, history>>

ResendCode(s) ==
    /\ Resting(s)
    /\ cool = 0
    /\ Now(s, [AtRest EXCEPT !.op = "resend", !.pc = "cool", !.purpose = "client-verify"])
    /\ UNCHANGED <<challenge, cool, drawn, sent, pre, losses, history>>

StartCooldown(s) ==
    /\ clerk[s].pc = "cool"
    /\ cool' = Cooldown
    /\ Now(s, [clerk[s] EXCEPT !.pc = "create"])
    /\ UNCHANGED <<challenge, drawn, sent, pre, losses, history>>

CreateChallenge(s, c) ==
    LET new == [code |-> c, left |-> MaxAttempts, life |-> Life]
    IN  /\ clerk[s].pc = "create"
        /\ c \notin drawn
        /\ drawn' = drawn \cup {c}
        /\ challenge' = [challenge EXCEPT ![clerk[s].purpose] = new]
        /\ Now(s, [clerk[s] EXCEPT !.pc = "send", !.copy = new])
        /\ UNCHANGED <<cool, sent, pre, losses, history>>

\* _enqueue_otp_notification has nowhere to send to without a number.
EnqueueCode(s) ==
    LET t == clerk[s]
    IN  /\ t.pc = "send"
        /\ sent' = IF t.purpose = "staff-sms" /\ ~SmsNumber THEN sent ELSE sent \cup {t.copy.code}
        /\ Now(s, IF t.purpose = "staff-sms" THEN [t EXCEPT !.pc = "token"] ELSE AtRest)
        /\ UNCHANGED <<challenge, cool, drawn, pre, losses, history>>

\* staff_login ends with the pre-2FA token.
IssuePre2fa(s, l) ==
    /\ clerk[s].pc = "token"
    /\ pre[l] = "none"
    /\ pre' = [pre EXCEPT ![l] = "active"]
    /\ Now(s, AtRest)
    /\ UNCHANGED <<challenge, cool, drawn, sent, losses, history>>

-----------------------------------------------------------------------------
(* verify_client_otp and staff_two_factor *)

VerifyClientOtp(s, g) ==
    /\ Resting(s) /\ s \in Verifiers /\ g \in sent \cup {Blank}
    /\ Now(s, [AtRest EXCEPT !.op = "verify", !.pc = "read", !.purpose = "client-verify", !.guess = g])
    /\ UNCHANGED <<challenge, cool, drawn, sent, pre, losses, history>>

StaffTwoFactor(s, l, g) ==
    /\ Resting(s) /\ s \in Verifiers /\ g \in sent \cup {Blank}
    /\ pre[l] = "active"
    /\ Now(s, [AtRest EXCEPT !.op = "factor", !.pc = "drop", !.purpose = "staff-sms",
                             !.guess = g, !.login = l])
    /\ UNCHANGED <<challenge, cool, drawn, sent, pre, losses, history>>

\* Mutation: the token is read and not deleted.
KeptPre2fa(l) == pre

SpentPre2fa(l) == [pre EXCEPT ![l] = "spent"]

\* consume_pre_2fa_token, before the code has been looked at
DropPre2fa(s) ==
    /\ clerk[s].pc = "drop"
    /\ pre' = SpentPre2fa(clerk[s].login)
    /\ Now(s, [clerk[s] EXCEPT !.pc = "method"])
    /\ UNCHANGED <<challenge, cool, drawn, sent, losses, history>>

\* TOTP without a secret and backup codes that nobody has are refused; an SMS
\* code is judged.  No operation enters a secret or creates a backup code.
ChooseMethod(s) ==
    /\ clerk[s].pc = "method"
    /\ \/ Now(s, AtRest)
       \/ Now(s, [clerk[s] EXCEPT !.pc = "read"])
    /\ UNCHANGED <<challenge, cool, drawn, sent, pre, losses, history>>

ReadChallenge(s) ==
    LET t == clerk[s]
        found == challenge[t.purpose]
    IN  /\ t.pc = "read"
        /\ Now(s, IF found = NoChallenge THEN AtRest  \* OtpExpiredError
                  ELSE [t EXCEPT !.pc = "judge", !.copy = found])
        /\ UNCHANGED <<challenge, cool, drawn, sent, pre, losses, history>>

Erased(p) == [challenge EXCEPT ![p] = NoChallenge]

Answered(p) == Erased(p)

\* A right code is deleted, and the person verified or the session issued.
AcceptCode(s) ==
    LET t == clerk[s]
    IN  /\ t.pc = "judge" /\ t.guess = t.copy.code
        /\ challenge' = Answered(t.purpose)
        /\ answers' = [answers EXCEPT ![t.guess] = @ + 1]
        /\ Now(s, [t EXCEPT !.pc = "accept"])
        /\ UNCHANGED <<cool, drawn, sent, pre, losses, wrongs, lived, revived, sessions>>

\* user.is_email_verified, or the session bundle of the staff session
Accept(s) ==
    LET t == clerk[s]
    IN  /\ t.pc = "accept"
        /\ sessions' = IF t.op = "factor" THEN [sessions EXCEPT ![t.login] = @ + 1] ELSE sessions
        /\ Now(s, AtRest)
        /\ UNCHANGED <<challenge, cool, drawn, sent, pre, losses, wrongs, answers, lived, revived>>

\* Mutation: the last attempt still leaves one.
OneMore(copy) == copy.left - 1 < 0

Exhausted(copy) == copy.left - 1 <= 0

\* A wrong code counts against the copy; the last one deletes whatever is stored.
RejectCode(s) ==
    LET t == clerk[s]
    IN  /\ t.pc = "judge" /\ t.guess # t.copy.code
        /\ wrongs' = [wrongs EXCEPT ![t.copy.code] = @ + 1]
        /\ IF Exhausted(t.copy)
           THEN challenge' = Erased(t.purpose) /\ Now(s, AtRest)
           ELSE UNCHANGED challenge /\ Now(s, [t EXCEPT !.pc = "time"])
        /\ UNCHANGED <<cool, drawn, sent, pre, losses, answers, lived, revived, sessions>>

\* TTL answers -2 for a key that is gone.
Remaining(life) == IF life > 1 THEN life ELSE 1

ReadLife(s) ==
    LET t == clerk[s]
        life == Remaining(challenge[t.purpose].life)
    IN  /\ t.pc = "time"
        /\ Now(s, [t EXCEPT !.pc = "write", !.copy = [t.copy EXCEPT !.left = @ - 1, !.life = life]])
        /\ UNCHANGED <<challenge, cool, drawn, sent, pre, losses, history>>

WriteBack(s) ==
    LET t == clerk[s]
        over == challenge[t.purpose].code
    IN  /\ t.pc = "write"
        /\ challenge' = [challenge EXCEPT ![t.purpose] = t.copy]
        /\ revived' = IF over \in {Blank, t.copy.code} THEN revived ELSE revived \cup {t.copy.code}
        /\ Now(s, AtRest)
        /\ UNCHANGED <<cool, drawn, sent, pre, losses, wrongs, answers, lived, sessions>>

-----------------------------------------------------------------------------
Aged(ch) == IF ch.life > 1 THEN [ch EXCEPT !.life = @ - 1] ELSE NoChallenge

\* A tick, a good part of a code's life, does not pass between the reading of
\* the remaining life and the next call, which writes it back.
PassTime ==
    /\ \A s \in Clerks : clerk[s].pc # "write"
    /\ cool > 0 \/ \E p \in Purposes : challenge[p] # NoChallenge
    /\ challenge' = [p \in Purposes |-> Aged(challenge[p])]
    /\ cool' = IF cool > 0 THEN cool - 1 ELSE 0
    /\ lived' = [c \in Codes |-> IF \E p \in Purposes : challenge[p].code = c
                                 THEN lived[c] + 1 ELSE lived[c]]
    /\ UNCHANGED <<drawn, sent, pre, clerk, losses, wrongs, answers, revived, sessions>>

ExpirePre2fa(l) ==
    /\ pre[l] = "active"
    /\ pre' = [pre EXCEPT ![l] = "spent"]
    /\ UNCHANGED <<challenge, cool, drawn, sent, clerk, losses, history>>

Lose(s) ==
    /\ ~Resting(s) /\ losses < MaxLosses
    /\ losses' = losses + 1
    /\ Now(s, AtRest)
    /\ UNCHANGED <<challenge, cool, drawn, sent, pre, history>>

BeginAuth(s) ==
    \/ \E p \in Purposes : SendCode(s, p)
    \/ ResendCode(s)
    \/ \E g \in Codes \cup {Blank} : \/ VerifyClientOtp(s, g)
                                    \/ \E l \in Logins : StaffTwoFactor(s, l, g)

ResumeAuth(s) ==
    \/ StartCooldown(s)
    \/ \E c \in Codes : CreateChallenge(s, c)
    \/ EnqueueCode(s)
    \/ \E l \in Logins : IssuePre2fa(s, l)
    \/ DropPre2fa(s)
    \/ ChooseMethod(s)
    \/ ReadChallenge(s)
    \/ AcceptCode(s)
    \/ Accept(s)
    \/ RejectCode(s)
    \/ ReadLife(s)
    \/ WriteBack(s)

ChallengesNext ==
    \/ \E s \in Clerks : BeginAuth(s) \/ ResumeAuth(s) \/ Lose(s)
    \/ PassTime
    \/ \E l \in Logins : ExpirePre2fa(l)

ChallengesSpec == ChallengesInit /\ [][ChallengesNext]_otpVars

-----------------------------------------------------------------------------
(* Properties *)

ChallengesTypeOK ==
    /\ challenge \in [Purposes -> Challenge \cup {NoChallenge}]
    /\ cool \in Nat
    /\ sent \subseteq drawn /\ drawn \subseteq Codes
    /\ pre \in [Logins -> {"none", "active", "spent"}]
    /\ clerk \in [Clerks -> Clerk]
    /\ losses \in Nat
    /\ wrongs \in [Codes -> Nat]
    /\ answers \in [Codes -> Nat]
    /\ lived \in [Codes -> Nat]
    /\ revived \subseteq Codes
    /\ sessions \in [Logins -> Nat]

\* If submissions do not overlap, no code is tried more often than its attempts
\* allow, whatever codes are sent beside them and wherever its copy is written; a
\* request that dies before it writes the count back gives its attempt away.
GuessesBounded == \A c \in Codes : wrongs[c] <= MaxAttempts + losses

\* Submissions that do not overlap are accepted for a code once.
AnsweredOnce == \A c \in Codes : answers[c] <= 1

\* Writing a challenge back keeps the expiry it had, give or take the one tick
\* that max(ttl, 1) adds: only a code written over its successor lives longer.
LifeBounded ==
    \A c \in Codes \ revived : lived[c] <= Life + MaxAttempts - 1

\* Submissions that do not overlap keep a code to its attempts, its one answer and
\* its life.
CodesHold == ChallengesTypeOK /\ GuessesBounded /\ AnsweredOnce /\ LifeBounded

\* A log-in of staff ends in one session at most, if the submissions of its
\* second factor do not overlap, and also when a later log-in sent a new code.
OneSessionPerLogin == \A l \in Logins : sessions[l] <= 1
=============================================================================
