------------------------------ MODULE OtpChallenge ------------------------------
(***************************************************************************)
(* One-time codes for sign-in (backend/src/auth/auth.service.ts).          *)
(*                                                                         *)
(* A phone number, or an e-mail address for one purpose, has one challenge *)
(* row.  A request stores a new code in it and only then hands the code to *)
(* the delivery service; a verification compares a code with the row.      *)
(* Both work in a serializable transaction, retried up to three times, so  *)
(* a transaction is one step, or none when its tries are used up; but each *)
(* call reads the time before its transaction and keeps it over the tries. *)
(* The SMS flow (requestOtp, verifyOtp) and the e-mail flows               *)
(* (requestEmailOtp and four verifications) write the row alike; they      *)
(* differ in what may stop a correct code, see CorrectCode.                *)
(*                                                                         *)
(* Simplifications: one challenge row; a code is its own hash; the random  *)
(* generator does not hand one code to two requests under way at once; the *)
(* accounts that a sign-in creates or reads are left out.                  *)
(***************************************************************************)
EXTENDS Integers, FiniteSets

CONSTANTS
    Clients,     \* calls that run at the same time
    Codes,       \* six-digit codes
    NoCode,      \* no code
    Ttl,         \* OTP_TTL_MS, EMAIL_OTP_TTL_MS
    Window,      \* OTP_WINDOW_MS, EMAIL_OTP_WINDOW_MS
    MaxRequests, \* OTP_MAX_REQUESTS_PER_WINDOW
    MaxAttempts, \* OTP_MAX_ATTEMPTS
    Lag,         \* how old a time may be when its transaction commits
    LastTick     \* bound on the clock

ASSUME OtpAssumption ==
    /\ NoCode \notin Codes
    /\ Ttl \in Nat \ {0}
    /\ Window \in Nat \ {0}
    /\ MaxRequests \in Nat \ {0}
    /\ MaxAttempts \in Nat \ {0}
    /\ Lag \in Nat
    /\ Lag < Window
    /\ LastTick \in Nat

VARIABLES
    clock,     \* the time
    challenge, \* the OtpCode or EmailOtpChallenge row
    caller,    \* each call's place in its handler
    delivered, \* history: the delivery service took the code in the row
    withdrawn, \* history: codes reported as undelivered, not issued again since
    issuedAt,  \* history: when each code was issued last
    entered,   \* history: how often each code was accepted since
    misses,    \* history: wrong guesses compared with each code since
    sent       \* history: the codes issued, numbered at each time

history == <<delivered, withdrawn, issuedAt, entered, misses, sent>>
otpVars == <<clock, challenge, caller, history>>

-------------------------------------------------------------------------------
Time == 0..LastTick

\* No row yet: its code is NoCode.
Challenge == [code : Codes \cup {NoCode}, expires : Nat, consumed : BOOLEAN,
              attempts : 0..MaxAttempts, requests : 0..MaxRequests,
              windowStart : Nat]

NoChallenge == [code |-> NoCode, expires |-> 0, consumed |-> FALSE,
                attempts |-> 0, requests |-> 0, windowStart |-> 0]

\* How many codes were issued in a set of times.
SentIn(ts) == Cardinality({s \in sent : s.at \in ts})

AtRest == [pc |-> "idle", code |-> NoCode, now |-> 0]

OtpInit ==
    /\ clock = 0
    /\ challenge = NoChallenge
    /\ caller = [r \in Clients |-> AtRest]
    /\ delivered = FALSE
    /\ withdrawn = {}
    /\ issuedAt = [c \in Codes |-> 0]
    /\ entered = [c \in Codes |-> 0]
    /\ misses = [c \in Codes |-> 0]
    /\ sent = {}

Goto(r, pc) == caller' = [caller EXCEPT ![r].pc = pc]
Returns(r) == caller' = [caller EXCEPT ![r] = AtRest]

\* Neither consumed nor guessed out: a wrong code counts against it.
Guessable ==
    /\ challenge.code # NoCode
    /\ ~challenge.consumed
    /\ challenge.attempts < MaxAttempts

\* Mutant of Unexpired: the window is taken for the lifetime.
UnexpiredInWindow(now) == challenge.expires - Ttl + Window > now

Unexpired(now) == challenge.expires > now

\* The transaction commits within its timeouts.
InTime(r) == clock - caller[r].now <= Lag

-------------------------------------------------------------------------------
(***************************************************************************)
(* requestOtp and requestEmailOtp                                          *)
(***************************************************************************)
Requesting(r) == caller[r].pc \in {"store", "send", "withdraw"}

RequestStarts(r, c) ==
    /\ caller[r].pc = "idle"
    /\ \A q \in Clients : Requesting(q) => caller[q].code # c
    /\ caller' = [caller EXCEPT ![r] = [pc |-> "store", code |-> c, now |-> clock]]
    /\ UNCHANGED <<clock, challenge, history>>

InWindow(now) == challenge.code # NoCode /\ now - challenge.windowStart < Window

\* Mutant of RequestCount: a code that is done with clears the count.
RequestCountOfOpen(now) ==
    IF InWindow(now) /\ ~challenge.consumed THEN challenge.requests + 1 ELSE 1

RequestCount(now) == IF InWindow(now) THEN challenge.requests + 1 ELSE 1

\* More requests than the window allows: 429 by SMS, the usual answer by e-mail.
RequestRefused(r) ==
    /\ caller[r].pc = "store"
    /\ InTime(r)
    /\ RequestCount(caller[r].now) > MaxRequests
    /\ Returns(r)
    /\ UNCHANGED <<clock, challenge, history>>

StoreChallenge(r) ==
    LET now == caller[r].now
        c == caller[r].code
    IN  /\ caller[r].pc = "store"
        /\ InTime(r)
        /\ RequestCount(now) <= MaxRequests
        /\ challenge' = [code |-> c, expires |-> now + Ttl, consumed |-> FALSE,
                         attempts |-> 0, requests |-> RequestCount(now),
                         windowStart |-> IF InWindow(now)
                                         THEN challenge.windowStart ELSE now]
        /\ Goto(r, "send")
        /\ delivered' = FALSE
        /\ withdrawn' = withdrawn \ {c}
        /\ issuedAt' = [issuedAt EXCEPT ![c] = clock]
        /\ entered' = [entered EXCEPT ![c] = 0]
        /\ misses' = [misses EXCEPT ![c] = 0]
        /\ sent' = sent \cup {[at |-> clock, nth |-> SentIn({clock}) + 1]}
        /\ UNCHANGED clock

SendSucceeds(r) ==
    /\ caller[r].pc = "send"
    /\ Returns(r)
    /\ delivered' = (delivered \/ challenge.code = caller[r].code)
    /\ UNCHANGED <<clock, challenge, withdrawn, issuedAt, entered, misses, sent>>

\* An error or the timeout of the delivery service.
SendFails(r) ==
    /\ caller[r].pc = "send"
    /\ Goto(r, "withdraw")
    /\ UNCHANGED <<clock, challenge, history>>

\* Mutants of Endable: whatever code the row holds by now; only a code
\* nobody has tried yet.
EndableAny(c) == ~challenge.consumed

EndableUntried(c) ==
    challenge.code = c /\ ~challenge.consumed /\ challenge.attempts = 0

\* The where clause of the update after a failed delivery.
Endable(c) == challenge.code = c /\ ~challenge.consumed

\* The undelivered code is ended and the failure reported.
EndCode(r) ==
    LET c == caller[r].code
    IN  /\ caller[r].pc = "withdraw"
        /\ challenge' = IF Endable(c)
                        THEN [challenge EXCEPT !.consumed = TRUE] ELSE challenge
        /\ withdrawn' = withdrawn \cup {c}
        /\ Returns(r)
        /\ UNCHANGED <<clock, delivered, issuedAt, entered, misses, sent>>

-------------------------------------------------------------------------------
(***************************************************************************)
(* verifyOtp, consumePortalEmailOtp, verifyMobileEmailOtp,                 *)
(* verifyClientClaimEmailOtp                                               *)
(***************************************************************************)
VerifyStarts(r, c) ==
    /\ caller[r].pc = "idle"
    /\ caller' = [caller EXCEPT ![r] = [pc |-> "verify", code |-> c, now |-> clock]]
    /\ UNCHANGED <<clock, challenge, history>>

Matches(r) ==
    Guessable /\ Unexpired(caller[r].now) /\ challenge.code = caller[r].code

\* Mutant of CorrectCode: the code stays good until it expires.
CorrectCodeStays ==
    /\ entered' = [entered EXCEPT ![challenge.code] = @ + 1]
    /\ UNCHANGED challenge

\* The code is consumed: for a session, or in vain when the e-mail address
\* turns out to be a portal account's (verifyMobileEmailOtp).  Or the
\* transaction throws, which takes the consumption back (a claimed license).
CorrectCode ==
    \/ /\ challenge' = [challenge EXCEPT !.consumed = TRUE]
       /\ entered' = [entered EXCEPT ![challenge.code] = @ + 1]
    \/ UNCHANGED <<challenge, entered>>

VerifyMatches(r) ==
    /\ caller[r].pc = "verify"
    /\ InTime(r)
    /\ Matches(r)
    /\ CorrectCode
    /\ Returns(r)
    /\ UNCHANGED <<clock, delivered, withdrawn, issuedAt, misses, sent>>

\* Mutant of WrongCode: the error takes the transaction back.
WrongCodeThrows == UNCHANGED challenge

WrongCode ==
    challenge' = IF Guessable THEN [challenge EXCEPT !.attempts = @ + 1]
                 ELSE challenge

VerifyMisses(r) ==
    /\ caller[r].pc = "verify"
    /\ InTime(r)
    /\ ~Matches(r)
    /\ WrongCode
    /\ misses' = IF Guessable /\ Unexpired(caller[r].now)
                 THEN [misses EXCEPT ![challenge.code] = @ + 1] ELSE misses
    /\ Returns(r)
    /\ UNCHANGED <<clock, delivered, withdrawn, issuedAt, entered, sent>>

-------------------------------------------------------------------------------
\* The last try of a transaction fails, the update after a failed delivery
\* fails, or the replica stops: the call ends where it is.
CallEnds(r) ==
    /\ caller[r].pc # "idle"
    /\ Returns(r)
    /\ UNCHANGED <<clock, challenge, history>>

Tick ==
    /\ clock < LastTick
    /\ clock' = clock + 1
    /\ UNCHANGED <<challenge, caller, history>>

OtpCallStep(r) ==
    \/ \E c \in Codes : RequestStarts(r, c)
    \/ RequestRefused(r)
    \/ StoreChallenge(r)
    \/ SendSucceeds(r)
    \/ SendFails(r)
    \/ EndCode(r)
    \/ \E c \in Codes : VerifyStarts(r, c)
    \/ VerifyMatches(r)
    \/ VerifyMisses(r)
    \/ CallEnds(r)

OtpNext == (\E r \in Clients : OtpCallStep(r)) \/ Tick

OtpSpec == OtpInit /\ [][OtpNext]_otpVars

-------------------------------------------------------------------------------
(***************************************************************************)
(* Properties                                                              *)
(***************************************************************************)
OtpTypeOK ==
    /\ clock \in Time
    /\ challenge \in Challenge
    /\ caller \in [Clients ->
           [pc : {"idle", "store", "send", "withdraw", "verify"},
            code : Codes \cup {NoCode}, now : Nat]]
    /\ delivered \in BOOLEAN
    /\ withdrawn \subseteq Codes
    /\ issuedAt \in [Codes -> Time]
    /\ entered \in [Codes -> Nat]
    /\ misses \in [Codes -> Nat]
    /\ sent \subseteq [at : Time, nth : Nat \ {0}] /\ IsFiniteSet(sent)

\* A code is single-use: it is accepted once per issue, however many calls
\* enter it at the same time and whatever is requested meanwhile.
CodeWorksOnce == \A c \in Codes : entered[c] <= 1

\* An issued code stands up to MaxAttempts wrong guesses, whether they come one
\* after the other or at once.
GuessesAreLimited == \A c \in Codes : misses[c] <= MaxAttempts

\* A code whose delivery was reported as failed is not accepted any more,
\* unless it is issued again.
UndeliveredCodeIsDead ==
    \A c \in withdrawn : challenge.code = c => challenge.consumed

\* A delivered code that nobody has entered stays valid: the failing delivery
\* of an older code, which may end later, does not take it away.
DeliveredCodeStands ==
    delivered /\ challenge.consumed => entered[challenge.code] > 0

\* An hour sees parts of two windows at most, so it sees no more than twice the
\* codes of one.  (Less the time a transaction may lag behind the clock.)
SendsAreLimited ==
    \A t \in Time : SentIn(t..(t + Window - Lag)) <= 2 * MaxRequests

\* A code is accepted within its lifetime after it was issued, give or take the
\* time a transaction may lag behind the clock.
ExpiredCodeIsRefused ==
    [][\A c \in Codes :
          entered'[c] > entered[c] => clock < issuedAt[c] + Ttl + Lag]_otpVars

===============================================================================
