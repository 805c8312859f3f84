-------------------------- MODULE OtpChallenge_proofs --------------------------
(***************************************************************************)
(* Theorems about OtpChallenge, for any number of calls, codes, requests   *)
(* and guesses, and any lifetimes.                                         *)
(***************************************************************************)
EXTENDS OtpChallenge, FiniteSetTheorems, TLAPS

\* The fields of a call's place, and of the row.
CallerPlace == [pc : {"idle", "store", "send", "withdraw", "verify"},
                code : Codes \cup {NoCode}, now : Nat]

-------------------------------------------------------------------------------
\* A call that goes on, returns or starts is in a place there is.
LEMMA CallerTypes ==
    ASSUME OtpTypeOK, NEW r \in Clients
    PROVE  /\ Returns(r) => caller' \in [Clients -> CallerPlace]
           /\ \A pc \in {"send", "withdraw"} :
                  Goto(r, pc) => caller' \in [Clients -> CallerPlace]
           /\ \A pc \in {"store", "verify"}, c \in Codes :
                  caller' = [caller EXCEPT ![r] =
                                [pc |-> pc, code |-> c, now |-> clock]]
                  => caller' \in [Clients -> CallerPlace]
<1>1. caller \in [Clients -> CallerPlace] /\ clock \in Nat
  BY OtpAssumption DEF OtpTypeOK, CallerPlace, Time
<1>2. Returns(r) => caller' \in [Clients -> CallerPlace]
  BY <1>1, OtpAssumption DEF Returns, AtRest, CallerPlace
<1>3. ASSUME NEW pc \in {"send", "withdraw"}, Goto(r, pc)
      PROVE  caller' \in [Clients -> CallerPlace]
  BY <1>1, <1>3 DEF Goto, CallerPlace
<1>4. ASSUME NEW pc \in {"store", "verify"}, NEW c \in Codes,
             caller' = [caller EXCEPT ![r] = [pc |-> pc, code |-> c, now |-> clock]]
      PROVE  caller' \in [Clients -> CallerPlace]
  BY <1>1, <1>4 DEF CallerPlace
<1> QED BY <1>2, <1>3, <1>4

\* What is sent is counted by a natural number.
LEMMA SentIsCounted == ASSUME IsFiniteSet(sent), NEW ts PROVE SentIn(ts) \in Nat
<1>1. {s \in sent : s.at \in ts} \in SUBSET sent
  OBVIOUS
<1> QED BY <1>1, FS_Subset, FS_CardinalityType DEF SentIn

\* The initial state is well typed.
LEMMA InitTypes == OtpInit => OtpTypeOK
<1> SUFFICES ASSUME OtpInit PROVE OtpTypeOK
  OBVIOUS
<1>1. 0 \in Time
  BY OtpAssumption DEF Time
<1>2. challenge \in Challenge
  BY OtpAssumption DEF OtpInit, Challenge, NoChallenge
<1>3. caller \in [Clients -> CallerPlace]
  BY DEF OtpInit, AtRest, CallerPlace
<1> QED BY <1>1, <1>2, <1>3, FS_EmptySet DEF OtpInit, OtpTypeOK, CallerPlace

\* A new challenge is a row, and its request is on its way to delivery.
LEMMA StoreTypes ==
    ASSUME OtpTypeOK, NEW r \in Clients, StoreChallenge(r), caller[r].code \in Codes
    PROVE  OtpTypeOK'
<1>1. caller[r].now \in Nat /\ challenge \in Challenge /\ clock \in Time
  BY DEF OtpTypeOK
<1>2. RequestCount(caller[r].now) \in 0..MaxRequests
  BY <1>1, OtpAssumption DEF StoreChallenge, RequestCount, Challenge
<1>3. challenge' \in Challenge
  BY <1>1, <1>2, OtpAssumption DEF StoreChallenge, Challenge
<1>4. caller' \in [Clients -> CallerPlace]
  BY CallerTypes DEF StoreChallenge
<1>5. /\ withdrawn' \subseteq Codes
      /\ issuedAt' \in [Codes -> Time]
      /\ entered' \in [Codes -> Nat]
      /\ misses' \in [Codes -> Nat]
  BY <1>1 DEF StoreChallenge, OtpTypeOK
<1>6. sent' \subseteq [at : Time, nth : Nat \ {0}]
  BY <1>1, SentIsCounted DEF StoreChallenge, OtpTypeOK
<1>8. IsFiniteSet(sent)'
  BY FS_AddElement DEF StoreChallenge, OtpTypeOK
<1>7. delivered' \in BOOLEAN /\ clock' \in Time
  BY <1>1 DEF StoreChallenge
<1> QED BY <1>3, <1>4, <1>5, <1>6, <1>7, <1>8 DEF OtpTypeOK, CallerPlace

-------------------------------------------------------------------------------
(***************************************************************************)
(* The inductive invariant                                                 *)
(***************************************************************************)
\* A call under way has a code and a time that is not in the future.
CallsAreSound ==
    \A r \in Clients :
        caller[r].pc # "idle" => caller[r].code \in Codes /\ caller[r].now <= clock

\* Requests under way hold different codes.
RequestsDiffer ==
    \A r, q \in Clients :
        r # q /\ Requesting(r) /\ Requesting(q) => caller[r].code # caller[q].code

\* Past the store and before the answer, a code is not yet given up.
OnItsWay(r) == caller[r].pc \in {"send", "withdraw"}

SentCodesAreAlive ==
    \A r \in Clients : OnItsWay(r) => caller[r].code \notin withdrawn

\* A code that was not consumed was not entered; one that was consumed was
\* entered or withdrawn.
ConsumedForAReason ==
    challenge.code \in Codes =>
        /\ ~challenge.consumed => entered[challenge.code] = 0
        /\ challenge.consumed =>
               entered[challenge.code] > 0 \/ challenge.code \in withdrawn

\* The row counts every wrong guess.
GuessesAreCounted ==
    challenge.code \in Codes => misses[challenge.code] <= challenge.attempts

\* A delivered code is nobody's to withdraw.
DeliveryIsDone ==
    delivered =>
        /\ challenge.code \in Codes
        /\ challenge.code \notin withdrawn
        /\ \A r \in Clients : OnItsWay(r) => caller[r].code # challenge.code

\* The row expires in time.
ExpiresInTime ==
    challenge.code \in Codes =>
        challenge.expires <= issuedAt[challenge.code] + Ttl

IInv ==
    /\ OtpTypeOK
    /\ CallsAreSound
    /\ RequestsDiffer
    /\ SentCodesAreAlive
    /\ ConsumedForAReason
    /\ GuessesAreCounted
    /\ DeliveryIsDone
    /\ ExpiresInTime
    /\ CodeWorksOnce
    /\ GuessesAreLimited
    /\ UndeliveredCodeIsDead

\* Only the calls differ: all that concerns the row and its history is kept,
\* if a code that is on its way was on its way before.
LEMMA RowKept ==
    ASSUME IInv, UNCHANGED <<challenge, history>>,
           \A r \in Clients :
               OnItsWay(r)' => OnItsWay(r) /\ caller'[r].code = caller[r].code
    PROVE  /\ SentCodesAreAlive'
           /\ ConsumedForAReason'
           /\ GuessesAreCounted'
           /\ DeliveryIsDone'
           /\ ExpiresInTime'
           /\ CodeWorksOnce'
           /\ GuessesAreLimited'
           /\ UndeliveredCodeIsDead'
<1> USE DEF IInv, history
<1>1. SentCodesAreAlive'
  BY DEF SentCodesAreAlive
<1>2. ConsumedForAReason'
  BY DEF ConsumedForAReason
<1>3. GuessesAreCounted' /\ GuessesAreLimited'
  BY DEF GuessesAreCounted, GuessesAreLimited
<1>4. DeliveryIsDone'
  BY DEF DeliveryIsDone
<1>5. ExpiresInTime'
  BY DEF ExpiresInTime
<1>6. CodeWorksOnce' /\ UndeliveredCodeIsDead'
  BY DEF CodeWorksOnce, UndeliveredCodeIsDead
<1> QED BY <1>1, <1>2, <1>3, <1>4, <1>5, <1>6

\* A call that returns leaves the other calls as they are.
LEMMA ReturnKept ==
    ASSUME IInv, NEW r \in Clients, Returns(r), UNCHANGED clock
    PROVE  /\ caller'[r] = AtRest
           /\ \A q \in Clients : q # r => caller'[q] = caller[q]
           /\ \A q \in Clients :
                  OnItsWay(q)' => q # r /\ OnItsWay(q) /\ caller'[q] = caller[q]
           /\ CallsAreSound'
           /\ RequestsDiffer'
<1>1. caller \in [Clients -> CallerPlace]
  BY DEF IInv, OtpTypeOK, CallerPlace
<1>2. caller'[r] = AtRest /\ \A q \in Clients : q # r => caller'[q] = caller[q]
  BY <1>1 DEF Returns
<1>3. AtRest.pc = "idle"
  BY DEF AtRest
<1>4. \A q \in Clients :
          OnItsWay(q)' => q # r /\ OnItsWay(q) /\ caller'[q] = caller[q]
  BY <1>2, <1>3 DEF OnItsWay
<1>5. CallsAreSound'
  BY <1>2, <1>3 DEF CallsAreSound, IInv
<1>6. RequestsDiffer'
  BY <1>2, <1>3 DEF RequestsDiffer, Requesting, IInv
<1> QED BY <1>2, <1>4, <1>5, <1>6

-------------------------------------------------------------------------------
\* The start of a request or a verification.
LEMMA StartKeeps ==
    ASSUME IInv, NEW r \in Clients, NEW c \in Codes,
           RequestStarts(r, c) \/ VerifyStarts(r, c)
    PROVE  IInv'
<1>1. /\ caller \in [Clients -> CallerPlace]
      /\ clock \in Nat
      /\ UNCHANGED <<clock, challenge, history>>
  BY DEF IInv, OtpTypeOK, Time, CallerPlace, RequestStarts, VerifyStarts
<1>2. PICK pc \in {"store", "verify"} :
          /\ caller' = [caller EXCEPT ![r] = [pc |-> pc, code |-> c, now |-> clock]]
          /\ pc = "store" => \A q \in Clients : Requesting(q) => caller[q].code # c
  BY DEF RequestStarts, VerifyStarts
<1>3. /\ caller'[r] = [pc |-> pc, code |-> c, now |-> clock]
      /\ \A q \in Clients : q # r => caller'[q] = caller[q]
  BY <1>1, <1>2
<1>4. OtpTypeOK'
  BY <1>1, <1>2, CallerTypes DEF IInv, OtpTypeOK, CallerPlace, history
<1>5. CallsAreSound'
  BY <1>1, <1>3 DEF CallsAreSound, IInv
<1>6. RequestsDiffer'
  BY <1>2, <1>3 DEF RequestsDiffer, Requesting, IInv
<1>7. \A q \in Clients :
          OnItsWay(q)' => OnItsWay(q) /\ caller'[q].code = caller[q].code
  BY <1>3 DEF OnItsWay
<1> QED BY <1>1, <1>4, <1>5, <1>6, <1>7, RowKept DEF IInv

\* A call that ends without a write, or notices that its delivery failed.
LEMMA EndKeeps ==
    ASSUME IInv, NEW r \in Clients,
           RequestRefused(r) \/ CallEnds(r) \/ SendFails(r)
    PROVE  IInv'
<1>1. UNCHANGED <<clock, challenge, history>>
  BY DEF RequestRefused, CallEnds, SendFails
<1>2. caller \in [Clients -> CallerPlace]
  BY DEF IInv, OtpTypeOK, CallerPlace
<1>3. caller' \in [Clients -> CallerPlace]
  BY CallerTypes DEF RequestRefused, CallEnds, SendFails, IInv
<1>4. OtpTypeOK'
  BY <1>1, <1>3 DEF IInv, OtpTypeOK, CallerPlace, history
<1>5. CASE Returns(r)
  <2>1. CallsAreSound' /\ RequestsDiffer'
    BY <1>1, <1>5, ReturnKept
  <2>2. \A q \in Clients :
            OnItsWay(q)' => OnItsWay(q) /\ caller'[q].code = caller[q].code
    BY <1>1, <1>5, ReturnKept
  <2> QED BY <1>1, <1>4, <2>1, <2>2, RowKept DEF IInv
<1>6. CASE SendFails(r)
  <2>1. /\ caller[r].pc = "send"
        /\ caller'[r].pc = "withdraw"
        /\ \A q \in Clients : /\ caller'[q].code = caller[q].code
                              /\ caller'[q].now = caller[q].now
                              /\ q # r => caller'[q].pc = caller[q].pc
    BY <1>2, <1>6 DEF SendFails, Goto, CallerPlace
  <2>2. CallsAreSound'
    BY <1>1, <2>1 DEF CallsAreSound, IInv
  <2>3. RequestsDiffer'
    BY <2>1 DEF RequestsDiffer, Requesting, IInv
  <2>4. \A q \in Clients :
            OnItsWay(q)' => OnItsWay(q) /\ caller'[q].code = caller[q].code
    BY <2>1 DEF OnItsWay
  <2> QED BY <1>1, <1>4, <2>2, <2>3, <2>4, RowKept DEF IInv
<1> QED BY <1>5, <1>6 DEF RequestRefused, CallEnds

\* The clock moves on.
LEMMA TickKeeps == IInv /\ Tick => IInv'
<1> SUFFICES ASSUME IInv, Tick PROVE IInv'
  OBVIOUS
<1>1. UNCHANGED <<challenge, caller, history>> /\ clock \in Nat /\ clock' = clock + 1
  BY DEF Tick, IInv, OtpTypeOK, Time
<1>2. OtpTypeOK'
  BY <1>1, OtpAssumption DEF Tick, IInv, OtpTypeOK, Time, history
<1>3. CallsAreSound'
  <2> SUFFICES ASSUME NEW r \in Clients, caller[r].pc # "idle"
               PROVE  caller[r].code \in Codes /\ caller[r].now <= clock'
    BY <1>1 DEF CallsAreSound
  <2>1. caller[r].code \in Codes /\ caller[r].now <= clock /\ caller[r].now \in Nat
    BY DEF IInv, CallsAreSound, OtpTypeOK
  <2> QED BY <1>1, <2>1
<1>4. RequestsDiffer'
  BY <1>1 DEF RequestsDiffer, Requesting, IInv
<1>5. \A q \in Clients :
          OnItsWay(q)' => OnItsWay(q) /\ caller'[q].code = caller[q].code
  BY <1>1 DEF OnItsWay
<1> QED BY <1>1, <1>2, <1>3, <1>4, <1>5, RowKept DEF IInv

\* A new code replaces the one in the row.
LEMMA StoreKeeps ==
    ASSUME IInv, NEW r \in Clients, StoreChallenge(r)
    PROVE  IInv'
<1> DEFINE c == caller[r].code
<1>1. /\ caller \in [Clients -> CallerPlace]
      /\ caller[r].pc = "store"
      /\ c \in Codes
      /\ caller[r].now \in Nat
      /\ clock \in Nat
      /\ caller[r].now <= clock
  BY OtpAssumption
     DEF IInv, OtpTypeOK, Time, CallerPlace, CallsAreSound, StoreChallenge
<1>2. OtpTypeOK'
  BY <1>1, StoreTypes DEF IInv
<1>3. /\ caller'[r].pc = "send"
      /\ \A q \in Clients : /\ caller'[q].code = caller[q].code
                            /\ caller'[q].now = caller[q].now
                            /\ q # r => caller'[q].pc = caller[q].pc
  BY <1>1 DEF StoreChallenge, Goto, CallerPlace
<1>4. /\ challenge'.code = c /\ ~challenge'.consumed /\ challenge'.attempts = 0
      /\ challenge'.expires = caller[r].now + Ttl
      /\ ~delivered'
      /\ withdrawn' = withdrawn \ {c}
      /\ clock' = clock
  BY DEF StoreChallenge
<1>5. /\ \A d \in Codes : d # c => entered'[d] = entered[d] /\ misses'[d] = misses[d]
      /\ entered'[c] = 0 /\ misses'[c] = 0 /\ issuedAt'[c] = clock
  BY <1>1 DEF StoreChallenge, IInv, OtpTypeOK
<1>6. CallsAreSound'
  BY <1>1, <1>3, <1>4 DEF CallsAreSound, IInv
<1>7. RequestsDiffer'
  BY <1>1, <1>3 DEF RequestsDiffer, Requesting, IInv
<1>8. SentCodesAreAlive'
  BY <1>3, <1>4 DEF SentCodesAreAlive, OnItsWay, IInv
<1>9. ConsumedForAReason' /\ GuessesAreCounted' /\ DeliveryIsDone'
  BY <1>4, <1>5 DEF ConsumedForAReason, GuessesAreCounted, DeliveryIsDone
<1>10. ExpiresInTime'
  BY <1>1, <1>4, <1>5, OtpAssumption DEF ExpiresInTime
<1>11. CodeWorksOnce' /\ GuessesAreLimited'
  BY <1>5, OtpAssumption DEF CodeWorksOnce, GuessesAreLimited, IInv
<1>12. UndeliveredCodeIsDead'
  BY <1>4 DEF UndeliveredCodeIsDead
<1> QED BY <1>2, <1>6, <1>7, <1>8, <1>9, <1>10, <1>11, <1>12 DEF IInv

\* A code is delivered.
LEMMA SendKeeps ==
    ASSUME IInv, NEW r \in Clients, SendSucceeds(r)
    PROVE  IInv'
<1> DEFINE c == caller[r].code
<1>1. /\ caller[r].pc = "send" /\ OnItsWay(r) /\ Requesting(r)
      /\ c \in Codes /\ c \notin withdrawn
  BY DEF SendSucceeds, IInv, CallsAreSound, SentCodesAreAlive, OnItsWay, Requesting
<1>2. /\ UNCHANGED <<clock, challenge, withdrawn, issuedAt, entered, misses, sent>>
      /\ delivered' = (delivered \/ challenge.code = c)
      /\ Returns(r)
  BY DEF SendSucceeds
<1>3. OtpTypeOK'
  BY <1>2, CallerTypes DEF IInv, OtpTypeOK, CallerPlace
<1>4. CallsAreSound' /\ RequestsDiffer'
  BY <1>2, ReturnKept
<1>5. \A q \in Clients : OnItsWay(q)' => q # r /\ OnItsWay(q) /\ caller'[q] = caller[q]
  BY <1>2, ReturnKept
<1>6. SentCodesAreAlive'
  BY <1>2, <1>5 DEF SentCodesAreAlive, IInv
<1>7. ConsumedForAReason' /\ GuessesAreCounted' /\ ExpiresInTime'
  BY <1>2 DEF ConsumedForAReason, GuessesAreCounted, ExpiresInTime, IInv
<1>8. DeliveryIsDone'
  <2>1. CASE challenge.code = c
    <3>1. \A q \in Clients : OnItsWay(q)' => caller'[q].code # c
      BY <1>1, <1>5 DEF IInv, RequestsDiffer, OnItsWay, Requesting
    <3> QED BY <1>1, <1>2, <2>1, <3>1 DEF DeliveryIsDone
  <2>2. CASE challenge.code # c
    BY <1>2, <1>5, <2>2 DEF DeliveryIsDone, IInv
  <2> QED BY <2>1, <2>2
<1>9. CodeWorksOnce' /\ GuessesAreLimited' /\ UndeliveredCodeIsDead'
  BY <1>2 DEF CodeWorksOnce, GuessesAreLimited, UndeliveredCodeIsDead, IInv
<1> QED BY <1>3, <1>4, <1>6, <1>7, <1>8, <1>9 DEF IInv

\* An undelivered code is ended.
LEMMA WithdrawKeeps ==
    ASSUME IInv, NEW r \in Clients, EndCode(r)
    PROVE  IInv'
<1> DEFINE c == caller[r].code
<1>1. /\ caller[r].pc = "withdraw" /\ OnItsWay(r) /\ Requesting(r) /\ c \in Codes
  BY DEF EndCode, IInv, CallsAreSound, OnItsWay, Requesting
<1>2. /\ UNCHANGED <<clock, delivered, issuedAt, entered, misses, sent>>
      /\ withdrawn' = withdrawn \cup {c}
      /\ Returns(r)
  BY DEF EndCode
<1>3. /\ challenge' \in Challenge
      /\ challenge'.code = challenge.code
      /\ challenge'.attempts = challenge.attempts
      /\ challenge'.expires = challenge.expires
      /\ challenge.consumed => challenge'.consumed
      /\ challenge.code = c => challenge'.consumed
      /\ challenge.code # c => challenge'.consumed = challenge.consumed
  BY DEF EndCode, Endable, IInv, OtpTypeOK, Challenge
<1>4. OtpTypeOK'
  BY <1>1, <1>2, <1>3, CallerTypes DEF IInv, OtpTypeOK, CallerPlace
<1>5. CallsAreSound' /\ RequestsDiffer'
  BY <1>2, ReturnKept
<1>6. \A q \in Clients : OnItsWay(q)' => q # r /\ OnItsWay(q) /\ caller'[q] = caller[q]
  BY <1>2, ReturnKept
<1>7. SentCodesAreAlive'
  BY <1>1, <1>2, <1>6
     DEF SentCodesAreAlive, RequestsDiffer, OnItsWay, Requesting, IInv
<1>8. ConsumedForAReason'
  <2>1. CASE challenge.code = c
    BY <1>2, <1>3, <2>1 DEF ConsumedForAReason
  <2>2. CASE challenge.code # c
    BY <1>2, <1>3, <2>2 DEF ConsumedForAReason, IInv
  <2> QED BY <2>1, <2>2
<1>9. GuessesAreCounted' /\ ExpiresInTime'
  BY <1>2, <1>3 DEF GuessesAreCounted, ExpiresInTime, IInv
<1>10. DeliveryIsDone'
  BY <1>1, <1>2, <1>3, <1>6 DEF DeliveryIsDone, IInv
<1>11. CodeWorksOnce' /\ GuessesAreLimited'
  BY <1>2 DEF CodeWorksOnce, GuessesAreLimited, IInv
<1>12. UndeliveredCodeIsDead'
  BY <1>2, <1>3 DEF UndeliveredCodeIsDead, IInv
<1> QED BY <1>4, <1>5, <1>7, <1>8, <1>9, <1>10, <1>11, <1>12 DEF IInv

\* The code is entered.
LEMMA MatchKeeps ==
    ASSUME IInv, NEW r \in Clients, VerifyMatches(r)
    PROVE  IInv'
<1> DEFINE c == challenge.code
<1>1. c \in Codes /\ ~challenge.consumed
  BY OtpAssumption
     DEF VerifyMatches, Matches, Guessable, IInv, OtpTypeOK, Challenge
<1>2. /\ UNCHANGED <<clock, delivered, withdrawn, issuedAt, misses, sent>>
      /\ Returns(r)
  BY DEF VerifyMatches
<1>3. CallsAreSound' /\ RequestsDiffer'
  BY <1>2, ReturnKept
<1>4. \A q \in Clients : OnItsWay(q)' => q # r /\ OnItsWay(q) /\ caller'[q] = caller[q]
  BY <1>2, ReturnKept
<1>5. caller' \in [Clients -> CallerPlace]
  BY <1>2, CallerTypes DEF IInv
<1>6. CASE UNCHANGED <<challenge, entered>>
  <2>1. UNCHANGED <<challenge, history>>
    BY <1>2, <1>6 DEF history
  <2>2. OtpTypeOK'
    BY <1>2, <1>5, <1>6 DEF IInv, OtpTypeOK, CallerPlace
  <2> QED BY <1>3, <1>4, <2>1, <2>2, RowKept DEF IInv
<1>7. CASE /\ challenge' = [challenge EXCEPT !.consumed = TRUE]
           /\ entered' = [entered EXCEPT ![c] = @ + 1]
  <2>1. /\ challenge' \in Challenge /\ challenge'.consumed
        /\ challenge'.code = c
        /\ challenge'.attempts = challenge.attempts
        /\ challenge'.expires = challenge.expires
    BY <1>7 DEF IInv, OtpTypeOK, Challenge
  <2>2. /\ entered[c] = 0 /\ entered'[c] = 1
        /\ entered' \in [Codes -> Nat]
        /\ \A d \in Codes : d # c => entered'[d] = entered[d]
    BY <1>1, <1>7 DEF IInv, OtpTypeOK, ConsumedForAReason
  <2>3. OtpTypeOK'
    BY <1>2, <1>5, <2>1, <2>2 DEF IInv, OtpTypeOK, CallerPlace
  <2>4. SentCodesAreAlive'
    BY <1>2, <1>4 DEF SentCodesAreAlive, IInv
  <2>5. ConsumedForAReason'
    BY <1>2, <2>1, <2>2 DEF ConsumedForAReason
  <2>6. GuessesAreCounted' /\ GuessesAreLimited' /\ ExpiresInTime'
    BY <1>2, <2>1 DEF GuessesAreCounted, GuessesAreLimited, ExpiresInTime, IInv
  <2>7. DeliveryIsDone'
    BY <1>2, <1>4, <2>1 DEF DeliveryIsDone, IInv
  <2>8. CodeWorksOnce'
    BY <2>2 DEF CodeWorksOnce, IInv
  <2>9. UndeliveredCodeIsDead'
    BY <1>2, <2>1 DEF UndeliveredCodeIsDead
  <2> QED BY <1>3, <2>3, <2>4, <2>5, <2>6, <2>7, <2>8, <2>9 DEF IInv
<1> QED BY <1>6, <1>7 DEF VerifyMatches, CorrectCode

\* A wrong code is entered.
LEMMA MissKeeps ==
    ASSUME IInv, NEW r \in Clients, VerifyMisses(r)
    PROVE  IInv'
<1> DEFINE c == challenge.code
<1>1. /\ UNCHANGED <<clock, delivered, withdrawn, issuedAt, entered, sent>>
      /\ Returns(r)
  BY DEF VerifyMisses
<1>2. CallsAreSound' /\ RequestsDiffer'
  BY <1>1, ReturnKept
<1>3. \A q \in Clients : OnItsWay(q)' => q # r /\ OnItsWay(q) /\ caller'[q] = caller[q]
  BY <1>1, ReturnKept
<1>4. caller' \in [Clients -> CallerPlace]
  BY <1>1, CallerTypes DEF IInv
<1>5. /\ challenge \in Challenge /\ misses \in [Codes -> Nat]
      /\ MaxAttempts \in Nat
  BY OtpAssumption DEF IInv, OtpTypeOK
<1>6. /\ challenge'.code = c
      /\ challenge'.consumed = challenge.consumed
      /\ challenge'.expires = challenge.expires
  BY <1>5 DEF VerifyMisses, WrongCode, Challenge
<1>7. /\ challenge' \in Challenge
      /\ misses' \in [Codes -> Nat]
      /\ GuessesAreCounted'
      /\ GuessesAreLimited'
  <2>1. CASE Guessable
    <3>1. c \in Codes /\ challenge.attempts < MaxAttempts
      BY <1>5, <2>1 DEF Guessable, Challenge
    <3>2. challenge' \in Challenge /\ challenge'.attempts = challenge.attempts + 1
      BY <1>5, <2>1, <3>1 DEF VerifyMisses, WrongCode, Challenge
    <3>3. /\ misses' \in [Codes -> Nat]
          /\ misses'[c] <= misses[c] + 1
          /\ \A d \in Codes : d # c => misses'[d] = misses[d]
      BY <1>5, <3>1 DEF VerifyMisses
    <3>4. misses'[c] <= challenge.attempts + 1 /\ challenge.attempts \in Nat
      BY <1>5, <3>1, <3>3 DEF GuessesAreCounted, IInv, Challenge
    <3>5. GuessesAreCounted'
      BY <1>6, <3>2, <3>4 DEF GuessesAreCounted
    <3>6. GuessesAreLimited'
      BY <1>5, <3>1, <3>3, <3>4 DEF GuessesAreLimited, IInv
    <3> QED BY <3>2, <3>3, <3>5, <3>6
  <2>2. CASE ~Guessable
    <3>1. challenge' = challenge /\ misses' = misses
      BY <2>2 DEF VerifyMisses, WrongCode
    <3> QED BY <1>5, <3>1 DEF GuessesAreCounted, GuessesAreLimited, IInv
  <2> QED BY <2>1, <2>2
<1>8. OtpTypeOK'
  BY <1>1, <1>4, <1>7 DEF IInv, OtpTypeOK, CallerPlace
<1>9. SentCodesAreAlive'
  BY <1>1, <1>3 DEF SentCodesAreAlive, IInv
<1>10. ConsumedForAReason' /\ ExpiresInTime'
  BY <1>1, <1>6 DEF ConsumedForAReason, ExpiresInTime, IInv
<1>11. DeliveryIsDone'
  BY <1>1, <1>3, <1>6 DEF DeliveryIsDone, IInv
<1>12. CodeWorksOnce' /\ UndeliveredCodeIsDead'
  BY <1>1, <1>6 DEF CodeWorksOnce, UndeliveredCodeIsDead, IInv
<1> QED BY <1>2, <1>7, <1>8, <1>9, <1>10, <1>11, <1>12 DEF IInv

-------------------------------------------------------------------------------
LEMMA InitKeeps == OtpInit => IInv
<1> SUFFICES ASSUME OtpInit PROVE IInv
  OBVIOUS
<1>1. \A r \in Clients : caller[r].pc = "idle"
  BY DEF OtpInit, AtRest
<1>2. challenge.code \notin Codes /\ ~delivered /\ withdrawn = {}
  BY OtpAssumption DEF OtpInit, NoChallenge
<1>3. \A c \in Codes : entered[c] = 0 /\ misses[c] = 0
  BY DEF OtpInit
<1>4. CallsAreSound /\ RequestsDiffer /\ SentCodesAreAlive
  BY <1>1 DEF CallsAreSound, RequestsDiffer, Requesting, SentCodesAreAlive, OnItsWay
<1>5. ConsumedForAReason /\ GuessesAreCounted /\ DeliveryIsDone /\ ExpiresInTime
  BY <1>2 DEF ConsumedForAReason, GuessesAreCounted, DeliveryIsDone, ExpiresInTime
<1>6. CodeWorksOnce /\ GuessesAreLimited /\ UndeliveredCodeIsDead
  BY <1>2, <1>3, OtpAssumption
     DEF CodeWorksOnce, GuessesAreLimited, UndeliveredCodeIsDead
<1> QED BY <1>4, <1>5, <1>6, InitTypes DEF IInv

LEMMA StepKeeps == IInv /\ [OtpNext]_otpVars => IInv'
<1> SUFFICES ASSUME IInv, [OtpNext]_otpVars PROVE IInv'
  OBVIOUS
<1>1. ASSUME NEW r \in Clients, OtpCallStep(r)
      PROVE  IInv'
  BY <1>1, StartKeeps, EndKeeps, StoreKeeps, SendKeeps, WithdrawKeeps,
     MatchKeeps, MissKeeps
     DEF OtpCallStep
<1>2. CASE Tick
  BY <1>2, TickKeeps
<1>3. CASE UNCHANGED otpVars
  <2>1. UNCHANGED <<clock, challenge, caller, history>>
    BY <1>3 DEF otpVars
  <2>2. OtpTypeOK'
    BY <2>1 DEF IInv, OtpTypeOK, history
  <2>3. CallsAreSound' /\ RequestsDiffer'
    BY <2>1 DEF IInv, CallsAreSound, RequestsDiffer, Requesting
  <2>4. \A q \in Clients :
            OnItsWay(q)' => OnItsWay(q) /\ caller'[q].code = caller[q].code
    BY <2>1 DEF OnItsWay
  <2> QED BY <2>1, <2>2, <2>3, <2>4, RowKept DEF IInv
<1> QED BY <1>1, <1>2, <1>3 DEF OtpNext

\* The inductive invariant holds throughout.
THEOREM OtpInvariant == OtpSpec => []IInv
  BY InitKeeps, StepKeeps, PTL DEF OtpSpec

\* Every variable keeps to its type (the OtpCode and EmailOtpChallenge rows and
\* the calls in auth.service.ts), the attempts and requests to their limits.
THEOREM OtpTypes == OtpSpec => []OtpTypeOK
<1>1. IInv => OtpTypeOK
  BY DEF IInv
<1> QED BY <1>1, OtpInvariant, PTL

\* verifyOtp and its e-mail counterparts accept a code once per issue.
THEOREM SingleUse == OtpSpec => []CodeWorksOnce
<1>1. IInv => CodeWorksOnce
  BY DEF IInv
<1> QED BY <1>1, OtpInvariant, PTL

\* The attempt counter limits the wrong guesses compared with one issued code.
THEOREM GuessLimit == OtpSpec => []GuessesAreLimited
<1>1. IInv => GuessesAreLimited
  BY DEF IInv
<1> QED BY <1>1, OtpInvariant, PTL

\* After a failed delivery has been reported its code is dead, and only its.
THEOREM FailedDelivery == OtpSpec => [](UndeliveredCodeIsDead /\ DeliveredCodeStands)
<1>1. IInv => UndeliveredCodeIsDead
  BY DEF IInv
<1>2. IInv => DeliveredCodeStands
  BY DEF IInv, DeliveredCodeStands, DeliveryIsDone, ConsumedForAReason
<1> QED BY <1>1, <1>2, OtpInvariant, PTL

\* A code that has run out is refused, up to the lag of the transaction.
THEOREM Expiry == OtpSpec => ExpiredCodeIsRefused
<1> DEFINE P == \A c \in Codes :
                   entered'[c] > entered[c] => clock < issuedAt[c] + Ttl + Lag
<1>1. ASSUME IInv, NEW r \in Clients, OtpCallStep(r), NEW c \in Codes,
             entered'[c] > entered[c]
      PROVE  clock < issuedAt[c] + Ttl + Lag
  <2>1. entered \in [Codes -> Nat]
    BY <1>1 DEF IInv, OtpTypeOK
  <2>2. CASE VerifyMatches(r)
    <3>1. challenge.code = c
      BY <1>1, <2>1, <2>2 DEF VerifyMatches, CorrectCode
    <3>2. challenge.expires <= issuedAt[c] + Ttl
      BY <1>1, <3>1 DEF IInv, ExpiresInTime
    <3>3. challenge.expires > caller[r].now /\ clock - caller[r].now <= Lag
      BY <2>2 DEF VerifyMatches, Matches, Unexpired, InTime
    <3>4. /\ challenge.expires \in Nat /\ caller[r].now \in Nat /\ clock \in Nat
          /\ issuedAt[c] \in Nat /\ Ttl \in Nat /\ Lag \in Nat
      BY <1>1, OtpAssumption DEF IInv, OtpTypeOK, Challenge, Time
    <3> QED BY <3>2, <3>3, <3>4
  <2>3. CASE StoreChallenge(r)
    <3>1. entered'[c] \in {0, entered[c]}
      BY <1>1, <2>1, <2>3 DEF StoreChallenge
    <3>2. entered[c] \in Nat
      BY <2>1
    <3> QED BY <1>1, <3>1, <3>2
  <2>4. CASE entered' = entered
    BY <1>1, <2>1, <2>4
  <2> QED BY <1>1, <2>2, <2>3, <2>4
          DEF OtpCallStep, RequestStarts, RequestRefused, SendSucceeds, SendFails,
              EndCode, VerifyStarts, VerifyMisses, CallEnds, history
<1>2. ASSUME IInv, Tick \/ UNCHANGED otpVars PROVE P
  <2>1. entered' = entered /\ \A c \in Codes : entered[c] \in Nat
    BY <1>2 DEF Tick, otpVars, history, IInv, OtpTypeOK
  <2> QED BY <2>1
<1>3. IInv /\ [OtpNext]_otpVars => [P]_otpVars
  BY <1>1, <1>2 DEF OtpNext
<1>4. []IInv /\ [][OtpNext]_otpVars => [][P]_otpVars
  BY <1>3, PTL
<1> QED BY <1>4, OtpInvariant DEF OtpSpec, ExpiredCodeIsRefused

-------------------------------------------------------------------------------
(***************************************************************************)
(* How many codes are sent                                                 *)
(*                                                                         *)
(* The sends of the row's window are counted by the row and are no earlier *)
(* than the window.  The sends before them came in at most Lag late in it; *)
(* those that a span of an hour can see together with the window belonged  *)
(* to the window before.  Which send belongs to which window nobody        *)
(* records: the invariant says that there is such a division.              *)
(***************************************************************************)
\* The latest of the sends of earlier windows: not too far from the window w.
Recent(earlier, w) == {s \in earlier : s.at >= w - Window + Lag}

\* A division of sends: those of the window from w on, which are at most n, and earlier ones.
Divides(inWindow, sends, w, n) ==
    /\ inWindow \in SUBSET sends
    /\ Cardinality(inWindow) <= n
    /\ \A s \in inWindow : s.at >= w
    /\ \A s \in sends \ inWindow : s.at < w + Lag
    /\ Cardinality(Recent(sends \ inWindow, w)) <= MaxRequests

\* Every send came before the window's end, give or take the lag.
SendsAreDivided ==
    /\ \E inWindow : Divides(inWindow, sent, challenge.windowStart, challenge.requests)
    /\ \A s \in sent : s.at < challenge.windowStart + Window + Lag

\* The row's window does not start in the future.
WindowHasBegun == challenge.windowStart <= clock

NothingSentYet == challenge.code = NoCode => sent = {}

\* Sends of one time are numbered from one: a new send is no old one.
SendsAreNumbered == \A s \in sent : s.nth <= SentIn({s.at})

WInv ==
    /\ SendsAreDivided
    /\ WindowHasBegun
    /\ NothingSentYet
    /\ SendsAreNumbered
    /\ SendsAreLimited

\* The sends of a span that reaches the window are the window's and recent ones.
LEMMA SpanOfTwoWindows ==
    ASSUME NEW w \in Nat, NEW n \in 0..MaxRequests, NEW inWindow, NEW sends,
           IsFiniteSet(sends), sends \subseteq [at : Time, nth : Nat \ {0}],
           inWindow \in SUBSET sends, Cardinality(inWindow) <= n,
           Cardinality(Recent(sends \ inWindow, w)) <= MaxRequests,
           NEW t \in Nat, t + Window - Lag >= w
    PROVE  Cardinality({s \in sends : s.at \in t..(t + Window - Lag)}) <= 2 * MaxRequests
<1> DEFINE S == {s \in sends : s.at \in t..(t + Window - Lag)}
           R == Recent(sends \ inWindow, w)
<1>1. IsFiniteSet(inWindow) /\ Cardinality(inWindow) \in Nat
  BY FS_Subset, FS_CardinalityType
<1>2. IsFiniteSet(R) /\ Cardinality(R) \in Nat
  <2>1. R \in SUBSET sends
    BY DEF Recent
  <2> QED BY <2>1, FS_Subset, FS_CardinalityType
<1>3. S \in SUBSET (inWindow \cup R)
  <2> SUFFICES ASSUME NEW s \in S, s \notin inWindow PROVE s \in R
    OBVIOUS
  <2>1. s \in sends /\ s.at \in t..(t + Window - Lag) /\ s.at \in Nat
    BY DEF Time
  <2>2. s.at >= t
    BY <2>1, OtpAssumption DEF OtpAssumption
  <2>3. t >= w - Window + Lag
    BY OtpAssumption DEF OtpAssumption
  <2>4. s.at >= w - Window + Lag
    BY <2>1, <2>2, <2>3, OtpAssumption DEF OtpAssumption
  <2> QED BY <2>1, <2>4 DEF Recent
<1> HIDE DEF S, R
<1>4. /\ IsFiniteSet(inWindow \cup R)
      /\ Cardinality(inWindow \cup R)
            = Cardinality(inWindow) + Cardinality(R) - Cardinality(inWindow \cap R)
  BY <1>1, <1>2, FS_Union
<1>5. Cardinality(inWindow \cap R) \in Nat
  BY <1>1, FS_Intersection, FS_CardinalityType
<1>6. Cardinality(S) <= Cardinality(inWindow \cup R) /\ Cardinality(S) \in Nat
  BY <1>3, <1>4, FS_Subset, FS_CardinalityType
<1>7. Cardinality(R) <= MaxRequests
  BY DEF R
<1>8. Cardinality(S) <= 2 * MaxRequests
  BY <1>1, <1>2, <1>4, <1>5, <1>6, <1>7, OtpAssumption DEF OtpAssumption
<1> QED BY <1>8 DEF S

LEMMA WindowStarts == OtpInit => WInv
<1> SUFFICES ASSUME OtpInit PROVE WInv
  OBVIOUS
<1> USE OtpAssumption DEF OtpAssumption
<1>1. sent = {} /\ challenge.windowStart = 0 /\ challenge.requests = 0 /\ clock = 0
  BY DEF OtpInit, NoChallenge
<1>2. SendsAreDivided
  <2>1. Recent(sent \ {}, 0) = {} /\ Cardinality({}) = 0
    BY <1>1, FS_EmptySet DEF Recent
  <2>2. Divides({}, sent, 0, 0)
    BY <1>1, <2>1 DEF Divides
  <2> QED BY <1>1, <2>2 DEF SendsAreDivided
<1>3. SendsAreLimited
  <2>1. \A ts : SentIn(ts) = 0
    <3>1. \A ts : {s \in sent : s.at \in ts} = {}
      BY <1>1
    <3> QED BY <3>1, FS_EmptySet DEF SentIn
  <2> QED BY <2>1 DEF SendsAreLimited
<1> QED BY <1>1, <1>2, <1>3 DEF WInv, WindowHasBegun, NothingSentYet, SendsAreNumbered

\* A step that sends nothing and keeps the row's count and window.
LEMMA WindowKept ==
    ASSUME WInv, UNCHANGED sent,
           challenge'.windowStart = challenge.windowStart,
           challenge'.requests = challenge.requests, challenge'.code = challenge.code,
           clock' >= clock, clock \in Nat, clock' \in Nat, challenge.windowStart \in Nat
    PROVE  WInv'
<1>1. SendsAreDivided'
  BY DEF WInv, SendsAreDivided, Divides, Recent
<1>2. WindowHasBegun' /\ NothingSentYet'
  BY DEF WInv, WindowHasBegun, NothingSentYet
<1>3. SendsAreNumbered' /\ SendsAreLimited'
  BY DEF WInv, SendsAreNumbered, SendsAreLimited, SentIn
<1> QED BY <1>1, <1>2, <1>3 DEF WInv

\* A new code is a send of the row's window, or the first of a new one.
LEMMA StoreCounts ==
    ASSUME IInv, WInv, IInv', NEW r \in Clients, StoreChallenge(r)
    PROVE  WInv'
<1> USE OtpAssumption DEF OtpAssumption
<1> DEFINE now == caller[r].now
           w == challenge.windowStart
           row == [at |-> clock, nth |-> SentIn({clock}) + 1]
<1>1. /\ now \in Nat /\ now <= clock /\ clock <= now + Lag
      /\ clock \in Nat /\ w \in Nat /\ challenge.requests \in 0..MaxRequests
  <2>1. now \in Nat /\ clock \in Nat /\ challenge \in Challenge
    BY DEF IInv, OtpTypeOK, Time
  <2>2. now <= clock /\ clock - now <= Lag
    BY DEF StoreChallenge, IInv, CallsAreSound, InTime
  <2>3. clock <= now + Lag
    BY <2>1, <2>2
  <2> QED BY <2>1, <2>2, <2>3 DEF Challenge
<1>2. /\ sent' = sent \cup {row} /\ row.at = clock /\ row.nth = SentIn({clock}) + 1
      /\ clock' = clock
      /\ challenge'.requests = RequestCount(now)
      /\ challenge'.windowStart = IF InWindow(now) THEN w ELSE now
      /\ challenge'.code = caller[r].code
  BY DEF StoreChallenge
<1>3. /\ IsFiniteSet(sent) /\ sent \subseteq [at : Time, nth : Nat \ {0}]
      /\ IsFiniteSet(sent') /\ sent' \subseteq [at : Time, nth : Nat \ {0}]
      /\ challenge'.requests \in 0..MaxRequests /\ challenge'.windowStart \in Nat
  BY DEF IInv, OtpTypeOK, Challenge
<1>4. caller[r].code # NoCode
  BY DEF StoreChallenge, IInv, CallsAreSound
<1>5. PICK cur : Divides(cur, sent, w, challenge.requests)
  BY DEF WInv, SendsAreDivided
<1>6. IsFiniteSet(cur) /\ Cardinality(cur) \in Nat /\ \A s \in sent : s.at \in Nat
  BY <1>3, <1>5, FS_Subset, FS_CardinalityType DEF Divides, Time
<1> HIDE DEF now, w, row
<1>7. SendsAreDivided'
  <2>1. CASE InWindow(now)
    <3>1. challenge'.windowStart = w /\ challenge'.requests = challenge.requests + 1
          /\ now - w < Window
      BY <1>2, <2>1 DEF RequestCount, InWindow, w
    <3> DEFINE new == cur \cup {row}
    <3>2. new \in SUBSET sent'
      BY <1>2, <1>5 DEF Divides
    <3>3. Cardinality(new) <= challenge.requests + 1
      <4>1. Cardinality(new) \in {Cardinality(cur), Cardinality(cur) + 1}
        BY <1>6, FS_AddElement
      <4>2. Cardinality(cur) <= challenge.requests
        BY <1>5 DEF Divides
      <4> HIDE DEF new
      <4> QED BY <1>1, <1>6, <4>1, <4>2
    <3>4. \A s \in new : s.at >= w
      BY <1>1, <1>2, <1>5 DEF Divides, WInv, WindowHasBegun, w
    <3>5. sent' \ new \subseteq sent \ cur
      BY <1>2
    <3>6. \A s \in sent' \ new : s.at < w + Lag
      BY <1>5, <3>5 DEF Divides
    <3>7. Cardinality(Recent(sent' \ new, w)) <= MaxRequests
      <4>1. Recent(sent' \ new, w) \in SUBSET Recent(sent \ cur, w)
        BY <3>5 DEF Recent
      <4>2. Recent(sent \ cur, w) \in SUBSET sent
        BY DEF Recent
      <4>3. IsFiniteSet(Recent(sent \ cur, w))
        BY <1>3, <4>2, FS_Subset
      <4>4. /\ Cardinality(Recent(sent' \ new, w)) <= Cardinality(Recent(sent \ cur, w))
            /\ Cardinality(Recent(sent \ cur, w)) \in Nat
            /\ Cardinality(Recent(sent' \ new, w)) \in Nat
        BY <4>1, <4>3, FS_Subset, FS_CardinalityType
      <4> QED BY <1>5, <4>4 DEF Divides
    <3>8. \A s \in sent' : s.at < w + Window + Lag
      <4>1. clock < w + Window + Lag
        BY <1>1, <3>1
      <4> QED BY <1>2, <4>1 DEF WInv, SendsAreDivided, w
    <3> HIDE DEF new
    <3>9. Divides(new, sent', w, challenge.requests + 1)
      BY <1>2, <3>1, <3>2, <3>3, <3>4, <3>6, <3>7 DEF Divides, Recent
    <3> QED BY <3>1, <3>8, <3>9 DEF SendsAreDivided
  <2>2. CASE ~InWindow(now)
    <3>1. challenge'.windowStart = now /\ challenge'.requests = 1
      BY <1>2, <2>2 DEF RequestCount
    <3>2. sent # {} => now >= w + Window
      BY <1>1, <2>2 DEF InWindow, WInv, NothingSentYet, w
    <3>3. \A s \in sent : s.at < now + Lag
      <4>1. \A s \in sent : s.at < w + Window + Lag
        BY DEF WInv, SendsAreDivided, w
      <4> QED BY <1>1, <1>6, <3>2, <4>1
    <3>4. sent' \ {row} \subseteq sent
      BY <1>2
    <3>5. Cardinality(Recent(sent' \ {row}, now)) <= MaxRequests
      <4>1. Recent(sent' \ {row}, now) \in SUBSET cur
        <5> SUFFICES ASSUME NEW s \in sent, s.at >= now - Window + Lag, s \notin cur
                     PROVE  FALSE
          BY <3>4 DEF Recent
        <5>1. s.at < w + Lag
          BY <1>5 DEF Divides
        <5> QED BY <1>1, <1>6, <3>2, <5>1
      <4>2. /\ Cardinality(Recent(sent' \ {row}, now)) <= Cardinality(cur)
            /\ Cardinality(Recent(sent' \ {row}, now)) \in Nat
        BY <1>6, <4>1, FS_Subset, FS_CardinalityType
      <4> QED BY <1>1, <1>5, <1>6, <4>2 DEF Divides
    <3>6. Cardinality({row}) <= 1
      <4>1. \A x : Cardinality({x}) = 1
        BY FS_Singleton
      <4>2. Cardinality({row}) = 1
        BY ONLY <4>1
      <4> QED BY ONLY <4>2
    <3>7. Divides({row}, sent', now, 1)
      BY <1>1, <1>2, <3>3, <3>4, <3>5, <3>6 DEF Divides, Recent
    <3>8. \A s \in sent' : s.at < now + Window + Lag
      BY <1>1, <1>2, <1>6, <3>3
    <3> QED BY <3>1, <3>7, <3>8 DEF SendsAreDivided
  <2> QED BY <2>1, <2>2
<1>8. WindowHasBegun' /\ NothingSentYet'
  BY <1>1, <1>2, <1>4 DEF WInv, WindowHasBegun, NothingSentYet, w
<1>9. SendsAreNumbered'
  <2>1. \A ts : /\ SentIn(ts) \in Nat
                /\ SentIn(ts)' \in Nat
                /\ SentIn(ts) <= SentIn(ts)'
                /\ clock \in ts /\ row \notin sent => SentIn(ts)' = SentIn(ts) + 1
    <3> SUFFICES ASSUME NEW ts
                 PROVE  /\ SentIn(ts) \in Nat
                        /\ SentIn(ts)' \in Nat
                        /\ SentIn(ts) <= SentIn(ts)'
                        /\ clock \in ts /\ row \notin sent => SentIn(ts)' = SentIn(ts) + 1
      OBVIOUS
    <3> DEFINE A == {s \in sent : s.at \in ts}
               B == {s \in sent' : s.at \in ts}
    <3>1. A \in SUBSET B /\ B \in SUBSET sent'
      BY <1>2
    <3>2. IsFiniteSet(B)
      BY <1>3, <3>1, FS_Subset
    <3>3. IsFiniteSet(A) /\ Cardinality(A) <= Cardinality(B)
      BY <3>1, <3>2, FS_Subset
    <3>4. Cardinality(A) \in Nat /\ Cardinality(B) \in Nat
      BY <3>2, <3>3, FS_CardinalityType
    <3>5. ASSUME clock \in ts, row \notin sent PROVE Cardinality(B) = Cardinality(A) + 1
      <4>1. B = A \cup {row} /\ row \notin A
        BY <1>2, <3>5
      <4> HIDE DEF A, B
      <4> QED BY <3>3, <4>1, FS_AddElement
    <3> QED BY <3>3, <3>4, <3>5 DEF SentIn
  <2>2. row \notin sent
    <3> SUFFICES ASSUME row \in sent PROVE FALSE
      OBVIOUS
    <3>1. row.nth <= SentIn({row.at})
      BY DEF WInv, SendsAreNumbered
    <3> QED BY <1>2, <2>1, <3>1
  <2> SUFFICES ASSUME NEW s \in sent' PROVE s.nth <= SentIn({s.at})'
    BY DEF SendsAreNumbered
  <2>3. CASE s = row
    <3>1. s.at = clock /\ s.nth = SentIn({s.at}) + 1
      BY <1>2, <2>3
    <3>2. SentIn({s.at})' = SentIn({s.at}) + 1
      BY <2>1, <2>2, <3>1
    <3> QED BY <2>1, <3>1, <3>2
  <2>4. CASE s \in sent
    <3>1. s.nth <= SentIn({s.at}) /\ s.nth \in Nat
      BY <1>3, <2>4 DEF WInv, SendsAreNumbered
    <3> QED BY <2>1, <3>1
  <2> QED BY <1>2, <2>3, <2>4
<1>10. SendsAreLimited'
  <2> SUFFICES ASSUME NEW t \in Time
               PROVE  SentIn(t..(t + Window - Lag))' <= 2 * MaxRequests
    BY DEF SendsAreLimited
  <2>1. t \in Nat
    BY DEF Time
  <2>2. CASE clock \in t..(t + Window - Lag)
    <3>1. PICK in : Divides(in, sent', challenge'.windowStart, challenge'.requests)
      BY <1>7 DEF SendsAreDivided
    <3>2. t + Window - Lag >= challenge'.windowStart
      <4>1. challenge'.windowStart <= clock
        BY <1>2, <1>8 DEF WindowHasBegun
      <4>2. t + Window - Lag >= clock
        BY <1>1, <2>1, <2>2
      <4> QED BY <1>1, <1>3, <2>1, <4>1, <4>2
    <3> DEFINE w2 == challenge'.windowStart  n2 == challenge'.requests
    <3>3. /\ in \in SUBSET sent' /\ Cardinality(in) <= n2
          /\ Cardinality(Recent(sent' \ in, w2)) <= MaxRequests
      BY <3>1 DEF Divides, Recent
    <3>4. w2 \in Nat /\ n2 \in 0..MaxRequests
      BY <1>3
    <3> HIDE DEF w2, n2
    <3> QED BY <1>3, <2>1, <3>2, <3>3, <3>4, SpanOfTwoWindows DEF SentIn, w2
  <2>3. CASE clock \notin t..(t + Window - Lag)
    <3>1. {s \in sent' : s.at \in t..(t + Window - Lag)}
            = {s \in sent : s.at \in t..(t + Window - Lag)}
      BY <1>2, <2>3
    <3> QED BY <3>1 DEF WInv, SendsAreLimited, SentIn
  <2> QED BY <2>2, <2>3
<1> QED BY <1>7, <1>8, <1>9, <1>10 DEF WInv

LEMMA WindowMoves == IInv /\ IInv' /\ WInv /\ [OtpNext]_otpVars => WInv'
<1> SUFFICES ASSUME IInv, IInv', WInv, [OtpNext]_otpVars PROVE WInv'
  OBVIOUS
<1>1. clock \in Nat /\ clock' \in Nat /\ challenge \in Challenge
  BY DEF IInv, OtpTypeOK, Time
<1>2. challenge.windowStart \in Nat
  BY <1>1 DEF Challenge
<1>3. ASSUME NEW r \in Clients, OtpCallStep(r), ~StoreChallenge(r) PROVE WInv'
  <2>1. UNCHANGED <<clock, sent>>
    BY <1>3 DEF OtpCallStep, RequestStarts, RequestRefused, SendSucceeds, SendFails, EndCode,
                VerifyStarts, VerifyMatches, VerifyMisses, CallEnds, history
  <2>2. \/ UNCHANGED challenge
        \/ challenge' = [challenge EXCEPT !.consumed = TRUE]
        \/ challenge' = [challenge EXCEPT !.attempts = challenge.attempts + 1]
    BY <1>3 DEF OtpCallStep, RequestStarts, RequestRefused, SendSucceeds, SendFails, EndCode,
                VerifyStarts, VerifyMatches, VerifyMisses, CallEnds, CorrectCode, WrongCode
  <2>3. /\ challenge'.windowStart = challenge.windowStart
        /\ challenge'.requests = challenge.requests /\ challenge'.code = challenge.code
    BY <1>1, <2>2 DEF Challenge
  <2> QED BY <1>1, <1>2, <2>1, <2>3, WindowKept
<1>4. CASE Tick \/ UNCHANGED otpVars
  BY <1>1, <1>2, <1>4, WindowKept DEF Tick, otpVars, history
<1> QED BY <1>3, <1>4, StoreCounts DEF OtpNext

\* No span of an hour, less the lag of a transaction, sees more than twice the
\* requests a window allows, for every length of the window and the lag.
THEOREM SendLimit == OtpSpec => []SendsAreLimited
<1>1. WInv => SendsAreLimited
  BY DEF WInv
<1> QED BY <1>1, OtpInvariant, WindowStarts, WindowMoves, PTL DEF OtpSpec
===============================================================================
