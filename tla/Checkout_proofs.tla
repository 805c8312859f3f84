---------------------------- MODULE Checkout_proofs ----------------------------
(***************************************************************************)
(* Proofs about Checkout, for any number of requests, billing periods,     *)
(* calls of the payment service and released checkouts.                    *)
(*                                                                         *)
(* A request is charged once because the sessions that were handed to the  *)
(* applicant and have not expired are one session: the one the row has.    *)
(* PinsHold and HandedHold say so; CallsHold is what a call knows of its   *)
(* session between two awaits.                                             *)
(***************************************************************************)
EXTENDS Checkout, TLAPS

\* What a call has in hand at each of its steps.
CallHolds(c) ==
    /\ c.step \in {"retrieve", "release", "expire", "recheck", "activate"} =>
           /\ c.session \in handed
           /\ c.session.request = c.request
    /\ c.step \in {"release", "reread", "create", "attach"} => c.request \in Requests
    /\ c.op = "checkout" \/ c.step \in {"create", "attach"} => c.period \in Periods
    /\ c.step = "attach" =>
           /\ c.session \in Sessions /\ c.session.request = c.request
           /\ stripe[c.session] # "none"
    /\ c.step = "release" => stripe[c.session] = "expired"
    /\ c.step = "activate" => stripe[c.session] = "paid"

CallsHold == \A h \in Handlers : CallHolds(handler[h])

\* A request has its own session exactly while it is paid for or after.
PinsHold ==
    \A r \in Requests :
        /\ pinned[r] # Nothing =>
               /\ pinned[r] \in handed /\ pinned[r].request = r
               /\ status[r] \in {"PAYMENT_PENDING", "ACTIVE", "CANCELLED"}
        /\ status[r] = "PAYMENT_PENDING" => pinned[r] # Nothing

\* Sessions the applicant was given and that may still be paid, or were.
Live(s) == s \in handed /\ stripe[s] # "expired"

\* Only sessions that were handed out are paid; of a request one at most may be.
HandedHold ==
    /\ \A s \in Sessions : Charged(s) => s \in handed
    /\ \A s \in handed : stripe[s] # "none"
    /\ \A s \in Sessions :
           Live(s) /\ status[s.request] # "DELETED" => pinned[s.request] = s
    /\ \A s, z \in Sessions : s.request = z.request /\ Live(s) /\ Live(z) => s = z

\* An event says paid only of a session that is.
EventsHold == \A e \in webhooks : e.paid => stripe[e.session] = "paid"

CheckoutInv ==
    /\ CheckoutTypeOK /\ CallsHold /\ PinsHold /\ HandedHold /\ EventsHold
    /\ AccessIsPaid /\ OneOpenRequest

-------------------------------------------------------------------------------
LEMMA RestingCall == NoCall \in Handler
  BY CheckoutAssumption
     DEF CheckoutAssumption, NoCall, Handler, Operations, Steps, LinkAttempt

LEMMA CheckoutStarts == CheckoutInit => CheckoutInv
<1> SUFFICES ASSUME CheckoutInit PROVE CheckoutInv
  OBVIOUS
<1> USE CheckoutAssumption DEF CheckoutAssumption, CheckoutInit
<1>1. CheckoutTypeOK
  <2>1. NoCall \in Handler
    BY RestingCall
  <2>2. status \in [Requests -> Status]
    BY DEF Status, Open, Withdrawable, PendingReview
  <2>3. handler \in [Handlers -> Handler]
    BY <2>1
  <2>4. releases \in [Requests -> 0..MaxReleases]
    OBVIOUS
  <2>5. pinned \in [Requests -> Sessions \cup {Nothing}]
    OBVIOUS
  <2> QED BY <2>2, <2>3, <2>4, <2>5 DEF CheckoutTypeOK
<1>2. CallsHold /\ PinsHold
  BY DEF CallsHold, CallHolds, PinsHold, NoCall
<1>3. HandedHold /\ EventsHold
  BY DEF HandedHold, EventsHold, Charged, Live
<1>4. AccessIsPaid
  BY DEF AccessIsPaid
<1>5. OneOpenRequest
  BY DEF OneOpenRequest, Open, Withdrawable, PendingReview
<1> QED BY <1>1, <1>2, <1>3, <1>4, <1>5 DEF CheckoutInv

\* Review, withdrawal, filing and a licence that moves.
LEMMA ReviewKeeps ==
    ASSUME CheckoutInv, NEW r \in Requests, Review(r)
    PROVE  CheckoutInv'
<1> USE CheckoutAssumption
    DEF CheckoutAssumption, CheckoutInv, Review, Submit, StartReview, RequestMoreInfo,
        Approve, ResendApproval, Decline, Withdraw, AcceptAgreement, LicenceMoves,
        Becomes, LinkExpires, aside
<1>0. UNCHANGED <<pinned, releases, aside>>
  OBVIOUS
<1>1. CheckoutTypeOK'
  BY <1>0 DEF CheckoutTypeOK, Status, Deletable, Open, Withdrawable, PendingReview
<1>2. CallsHold' /\ EventsHold'
  BY <1>0 DEF CallsHold, CallHolds, EventsHold
<1>3. PinsHold'
  BY <1>0 DEF PinsHold, CheckoutTypeOK, Withdrawable, PendingReview
<1>4. HandedHold'
  <2>1. \A q \in Requests : status'[q] # "DELETED" => status[q] # "DELETED"
    BY DEF CheckoutTypeOK, Withdrawable, PendingReview
  <2>2. \A s \in Sessions : s.request \in Requests
    BY DEF Sessions
  <2> QED BY <1>0, <2>1, <2>2 DEF HandedHold, Live, Charged
<1>5. AccessIsPaid'
  BY <1>0 DEF AccessIsPaid, CheckoutTypeOK
<1>6. OneOpenRequest'
  BY <1>0 DEF OneOpenRequest, CheckoutTypeOK, NoOtherOpen, Open, Withdrawable, PendingReview
<1> QED BY <1>1, <1>2, <1>3, <1>4, <1>5, <1>6

\* A session that was made stays made, and an outcome stays.
OutcomesStay ==
    \A s \in Sessions :
        /\ stripe[s] # "none" => stripe'[s] # "none"
        /\ stripe[s] = "expired" => stripe'[s] = "expired"
        /\ stripe[s] = "paid" => stripe'[s] = "paid"

\* A step of one call leaves what the others have in hand.
LEMMA OtherCallKeeps ==
    ASSUME CheckoutTypeOK, CallsHold, NEW h \in Handlers, UNCHANGED handler[h],
           handed \subseteq handed', OutcomesStay
    PROVE  CallHolds(handler[h])'
<1>1. CallHolds(handler[h]) /\ handler[h] \in Handler
  BY DEF CallsHold, CheckoutTypeOK
<1>2. \A s \in handed : s \in Sessions
  BY DEF CheckoutTypeOK
<1> QED BY <1>1, <1>2 DEF CallHolds, OutcomesStay

LEMMA JoinKeeps == CheckoutInv /\ Join => CheckoutInv'
  BY DEF CheckoutInv, Join, CheckoutTypeOK, CallsHold, CallHolds, PinsHold,
         HandedHold, Live,
         Charged, EventsHold, AccessIsPaid, OneOpenRequest, aside

\* A session only ends: what was paid or has expired stays so.
LEMMA StripeKeeps ==
    ASSUME CheckoutInv, NEW s \in Sessions, Pays(s) \/ MoneyArrives(s) \/ SessionExpires(s)
    PROVE  CheckoutInv'
<1> USE DEF CheckoutInv, Pays, MoneyArrives, SessionExpires, StripeIs
<1>0. UNCHANGED <<row, handed, handler>>
  OBVIOUS
<1>1. CheckoutTypeOK'
  <2>1. webhooks' \subseteq Event
    <3>1. \A b \in BOOLEAN : [session |-> s, paid |-> b] \in Event
      BY DEF Event
    <3>2. webhooks' = webhooks \/ \E b \in BOOLEAN :
              webhooks' = webhooks \cup {[session |-> s, paid |-> b]}
      OBVIOUS
    <3> QED BY <3>1, <3>2 DEF CheckoutTypeOK
  <2>2. stripe' \in [Sessions -> {"none", "open", "expired", "processing", "paid"}]
    BY DEF CheckoutTypeOK
  <2> QED BY <1>0, <2>1, <2>2 DEF CheckoutTypeOK, row
<1>2. OutcomesStay /\ \A z \in Sessions : stripe[z] = "none" => stripe'[z] = "none"
  BY DEF CheckoutTypeOK, OutcomesStay
<1>3. \A z \in handed : z \in Sessions
  BY DEF CheckoutTypeOK
<1>4. CallsHold'
  BY <1>0, <1>2, OtherCallKeeps DEF CallsHold
<1>5. PinsHold'
  BY <1>0 DEF PinsHold, row
<1>6. HandedHold'
  <2>1. ASSUME NEW z \in Sessions, Live(z)'
        PROVE  Live(z)
    BY <1>0, <1>2, <2>1 DEF Live, OutcomesStay
  <2>2. ASSUME NEW z \in Sessions, Charged(z)'
        PROVE  z \in handed
    BY <2>2 DEF Charged, HandedHold, CheckoutTypeOK
  <2> QED BY <1>0, <1>2, <1>3, <2>1, <2>2 DEF HandedHold, row, OutcomesStay
<1>7. EventsHold'
  <2>1. \A e \in webhooks : e.session \in Sessions
    BY DEF CheckoutTypeOK, Event
  <2>2. \A e \in webhooks' : e \in webhooks \/ (e.session = s /\ (e.paid => stripe'[s] = "paid"))
    <3>1. CASE Pays(s)
      <4>1. PICK state \in {"paid", "processing"} :
                /\ StripeIs(s, state)
                /\ webhooks' = webhooks \cup {[session |-> s, paid |-> state = "paid"]}
        BY <3>1
      <4>2. stripe'[s] = state
        BY <4>1 DEF CheckoutTypeOK
      <4>3. ASSUME NEW e \in webhooks', e \notin webhooks
            PROVE  e.session = s /\ (e.paid <=> state = "paid")
        <5>1. e = [session |-> s, paid |-> state = "paid"]
          BY <4>1, <4>3
        <5> QED BY <5>1
      <4> QED BY <4>2, <4>3
    <3>2. CASE MoneyArrives(s)
      BY <3>2 DEF CheckoutTypeOK
    <3>3. CASE SessionExpires(s)
      BY <3>3
    <3> QED BY <3>1, <3>2, <3>3
  <2> QED BY <1>2, <2>1, <2>2 DEF EventsHold, OutcomesStay
<1>8. AccessIsPaid' /\ OneOpenRequest'
  BY <1>0, <1>2 DEF AccessIsPaid, OneOpenRequest, row, CheckoutTypeOK, OutcomesStay
<1> QED BY <1>1, <1>4, <1>5, <1>6, <1>7, <1>8

\* The licence is given to a request whose pinned session is paid.
LEMMA ActivationKeeps ==
    ASSUME CheckoutInv, NEW s \in Sessions, stripe[s] = "paid",
           Bound(s), Activated(s), UNCHANGED <<pinned, stripe, handed>>
    PROVE  /\ status' \in [Requests -> Status]
           /\ licence' \in [Requests -> {"none", "active", "lapsed"}]
           /\ PinsHold' /\ HandedHold' /\ AccessIsPaid' /\ OneOpenRequest'
<1> USE DEF CheckoutInv, Activated, Bound, Becomes
<1>0. s.request \in Requests /\ \A z \in Sessions : z.request \in Requests
  BY DEF Sessions
<1>1. status' \in [Requests -> Status] /\ licence' \in [Requests -> {"none", "active", "lapsed"}]
  BY <1>0 DEF CheckoutTypeOK, Status
<1>2. PinsHold'
  BY <1>0 DEF PinsHold, CheckoutTypeOK
<1>3. HandedHold'
  <2>1. \A q \in Requests : status'[q] # "DELETED" => status[q] # "DELETED"
    BY DEF CheckoutTypeOK
  <2> QED BY <1>0, <2>1 DEF HandedHold, Live, Charged
<1>4. AccessIsPaid'
  BY <1>0 DEF AccessIsPaid, PinsHold, CheckoutTypeOK
<1>5. OneOpenRequest'
  BY <1>0 DEF OneOpenRequest, CheckoutTypeOK, Open, Withdrawable, PendingReview
<1> QED BY <1>1, <1>2, <1>3, <1>4, <1>5

LEMMA WebhookKeeps ==
    ASSUME CheckoutInv, NEW e \in webhooks, Webhook(e)
    PROVE  CheckoutInv'
<1> USE DEF CheckoutInv, Webhook, Activates
<1>0. /\ UNCHANGED <<joined, pinned, releases, token, stripe, handed, handler>>
      /\ webhooks' \subseteq webhooks
  OBVIOUS
<1>1. e \in Event
  BY DEF CheckoutTypeOK
<1>2. CallsHold' /\ EventsHold'
  BY <1>0 DEF CallsHold, CallHolds, EventsHold
<1>3. CASE e.paid
  <2>1. e.session \in Sessions /\ stripe[e.session] = "paid"
    BY <1>1, <1>3 DEF Event, EventsHold
  <2>2. Bound(e.session) /\ Activated(e.session)
    BY <1>3
  <2>3. /\ status' \in [Requests -> Status]
        /\ licence' \in [Requests -> {"none", "active", "lapsed"}]
        /\ PinsHold' /\ HandedHold' /\ AccessIsPaid' /\ OneOpenRequest'
    BY <1>0, <2>1, <2>2, ActivationKeeps
  <2> QED BY <1>0, <1>2, <2>3 DEF CheckoutTypeOK
<1>4. CASE ~e.paid
  <2>1. UNCHANGED <<status, licence>>
    BY <1>4
  <2>2. CheckoutTypeOK'
    BY <1>0, <2>1 DEF CheckoutTypeOK
  <2>3. PinsHold' /\ HandedHold' /\ AccessIsPaid' /\ OneOpenRequest'
    BY <1>0, <2>1 DEF PinsHold, HandedHold, Live, Charged, AccessIsPaid, OneOpenRequest
  <2> QED BY <1>2, <2>2, <2>3
<1> QED BY <1>3, <1>4

LEMMA ReconcileKeeps ==
    ASSUME CheckoutInv, NEW s \in Sessions, Reconcile(s)
    PROVE  CheckoutInv'
<1> USE DEF CheckoutInv, Reconcile
<1>1. /\ status' \in [Requests -> Status]
      /\ licence' \in [Requests -> {"none", "active", "lapsed"}]
      /\ PinsHold' /\ HandedHold' /\ AccessIsPaid' /\ OneOpenRequest'
  BY ActivationKeeps
<1>2. CheckoutTypeOK' /\ CallsHold' /\ EventsHold'
  BY <1>1 DEF CheckoutTypeOK, CallsHold, CallHolds, EventsHold
<1> QED BY <1>1, <1>2

-------------------------------------------------------------------------------
\* A step that only moves one call: what the others hold, and all that is
\* about the rows, stays.
LEMMA QuietStep ==
    ASSUME CheckoutInv, NEW h \in Handlers, NEW c \in Handler,
           handler' = [handler EXCEPT ![h] = c], CallHolds(c),
           UNCHANGED <<row, stripe, handed, webhooks>>
    PROVE  CheckoutInv'
<1> USE DEF CheckoutInv
<1>1. CheckoutTypeOK'
  BY DEF CheckoutTypeOK, row
<1>2. CallsHold'
  BY DEF CallsHold, CallHolds, CheckoutTypeOK
<1>3. PinsHold' /\ HandedHold' /\ EventsHold' /\ AccessIsPaid' /\ OneOpenRequest'
  BY DEF PinsHold, HandedHold, Live, Charged, EventsHold, AccessIsPaid, OneOpenRequest, row
<1> QED BY <1>1, <1>2, <1>3

LEMMA Resting == CallHolds(NoCall)
  BY DEF CallHolds, NoCall

\* The calls that begin: what they take from the row is what the row has.
LEMMA StartKeeps ==
    ASSUME CheckoutInv, NEW h \in Handlers, NEW r \in Requests,
           \/ \E p \in Periods : StartCheckout(h, r, p)
           \/ StartCancel(h, r) \/ StartDelete(h, r)
    PROVE  CheckoutInv'
<1> USE DEF CheckoutInv
<1>1. pinned[r] \in Sessions \cup {Nothing} /\ releases[r] \in 0..LinkAttempt
  BY CheckoutAssumption DEF CheckoutAssumption, CheckoutTypeOK, LinkAttempt
<1>2. UNCHANGED <<row, stripe, handed, webhooks>>
  BY DEF StartCheckout, StartCancel, StartDelete
<1>3. ASSUME NEW p \in Periods, StartCheckout(h, r, p), status[r] = "PAYMENT_PENDING"
      PROVE  CheckoutInv'
  <2> DEFINE c == [NoCall EXCEPT !.op = "checkout", !.step = "retrieve", !.request = r,
                                  !.period = p, !.session = pinned[r]]
  <2>1. handler' = [handler EXCEPT ![h] = c]
    BY <1>3 DEF StartCheckout
  <2>2. c \in Handler
    BY <1>1, RestingCall DEF Handler, Operations, Steps
  <2>3. CallHolds(c)
    BY <1>3 DEF CallHolds, PinsHold, NoCall
  <2> QED BY <1>2, <2>1, <2>2, <2>3, QuietStep
<1>4. ASSUME NEW p \in Periods, StartCheckout(h, r, p), status[r] # "PAYMENT_PENDING"
      PROVE  CheckoutInv'
  <2> DEFINE c == [NoCall EXCEPT !.op = "checkout", !.step = "create", !.request = r,
                                  !.period = p, !.attempt = releases[r]]
  <2>1. handler' = [handler EXCEPT ![h] = c]
    BY <1>4 DEF StartCheckout, CreatesFrom
  <2>2. c \in Handler
    BY <1>1, RestingCall DEF Handler, Operations, Steps
  <2>3. CallHolds(c)
    BY DEF CallHolds, NoCall
  <2> QED BY <1>2, <2>1, <2>2, <2>3, QuietStep
<1>5. ASSUME NEW op \in {"cancel", "delete"}, Begins(h, op, r)
      PROVE  CheckoutInv'
  <2> DEFINE c == [NoCall EXCEPT !.op = op, !.request = r, !.session = pinned[r],
                       !.step = IF pinned[r] = Nothing THEN "commit" ELSE "retrieve"]
  <2>1. handler' = [handler EXCEPT ![h] = c]
    BY <1>5 DEF Begins
  <2>2. c \in Handler
    BY <1>1, RestingCall DEF Handler, Operations, Steps
  <2>3. CallHolds(c)
    BY DEF CallHolds, PinsHold, NoCall
  <2> QED BY <1>2, <2>1, <2>2, <2>3, QuietStep
<1> QED BY <1>3, <1>4, <1>5 DEF StartCancel, StartDelete

\* The steps of a call that only look: at the session, or at the row again.
LEMMA LookKeeps ==
    ASSUME CheckoutInv, NEW h \in Handlers,
           \/ RetrieveCheckout(h) \/ RereadCheckout(h) \/ RetrieveCancel(h)
           \/ RecheckCancel(h) \/ RetrieveDelete(h) \/ Crash(h)
    PROVE  CheckoutInv'
<1> DEFINE s == handler[h].session
<1> USE DEF CheckoutInv, At
<1>1. handler[h] \in Handler /\ CallHolds(handler[h])
  BY DEF CheckoutTypeOK, CallsHold
<1>2. UNCHANGED <<row, stripe, handed, webhooks>>
  BY <1>1 DEF RetrieveCheckout, RereadCheckout, RetrieveCancel, RecheckCancel,
              RetrieveDelete, Crash, CallHolds
<1>3. CASE CallReturns(h)
  BY <1>2, <1>3, QuietStep, RestingCall, Resting DEF CallReturns
<1>4. ASSUME NEW step, Continues(h, step),
             \/ step = "release" /\ At(h, "checkout", "retrieve") /\ stripe[s] = "expired"
             \/ step = "activate" /\ stripe[s] = "paid"
                   /\ handler[h].step \in {"retrieve", "recheck"} /\ handler[h].op = "cancel"
             \/ step = "expire" /\ handler[h].step = "retrieve" /\ handler[h].op # "checkout"
             \/ step = "commit" /\ handler[h].op # "checkout"
      PROVE  CheckoutInv'
  <2> DEFINE c == [handler[h] EXCEPT !.step = step]
  <2>1. handler' = [handler EXCEPT ![h] = c]
    BY <1>4 DEF Continues
  <2>2. c \in Handler
    BY <1>1, <1>4 DEF Handler, Steps
  <2>3. CallHolds(c)
    <3>1. s \in handed => s.request \in Requests
      BY DEF CheckoutTypeOK, Sessions
    <3> QED BY <1>1, <1>4, <3>1 DEF CallHolds, Handler
  <2> QED BY <1>2, <2>1, <2>2, <2>3, QuietStep
<1>5. CASE RetrieveCheckout(h)
  BY <1>3, <1>4, <1>5 DEF RetrieveCheckout
<1>6. CASE RereadCheckout(h)
  <2> DEFINE r == handler[h].request
             c == [NoCall EXCEPT !.op = "checkout", !.step = "create", !.request = r,
                       !.period = handler[h].period, !.attempt = releases[r]]
  <2>1. CASE handler' = [handler EXCEPT ![h] = c]
    <3>1. r \in Requests /\ handler[h].period \in Periods
      BY <1>1, <1>6 DEF RereadCheckout, CallHolds
    <3>2. releases[r] \in 0..LinkAttempt
      BY <3>1, CheckoutAssumption DEF CheckoutAssumption, CheckoutTypeOK, LinkAttempt
    <3>3. c \in Handler
      BY <3>1, <3>2, RestingCall DEF Handler, Operations, Steps
    <3>4. CallHolds(c)
      BY <3>1 DEF CallHolds, NoCall
    <3> QED BY <1>2, <2>1, <3>3, <3>4, QuietStep
  <2> QED BY <1>3, <1>6, <2>1 DEF RereadCheckout, CreatesFrom
<1>7. CASE RetrieveCancel(h)
  BY <1>4, <1>7 DEF RetrieveCancel, AfterRetrieve
<1>8. CASE RecheckCancel(h)
  BY <1>3, <1>4, <1>8 DEF RecheckCancel
<1>9. CASE RetrieveDelete(h)
  BY <1>3, <1>4, <1>9 DEF RetrieveDelete, AfterRetrieve
<1> QED BY <1>3, <1>5, <1>6, <1>7, <1>8, <1>9 DEF Crash

-------------------------------------------------------------------------------
\* The steps of a call that make a session or expire one.
LEMMA SessionStepKeeps ==
    ASSUME CheckoutInv, NEW h \in Handlers,
           CreateSession(h) \/ CreateFails(h) \/ ExpireCancel(h) \/ ExpireDelete(h)
    PROVE  CheckoutInv'
<1> DEFINE s == IF handler[h].step = "create" THEN SessionOf(h) ELSE handler[h].session
<1> USE DEF CheckoutInv, At, StripeIs
<1>1. handler[h] \in Handler /\ CallHolds(handler[h])
  BY DEF CheckoutTypeOK, CallsHold
<1>2. UNCHANGED <<row, handed, webhooks>>
  BY DEF CreateSession, CreateFails, ExpireCancel, ExpireDelete
<1>3. s \in Sessions
  BY <1>1 DEF CreateSession, CreateFails, ExpireCancel, ExpireDelete, SessionOf, Sessions,
              CallHolds, CheckoutTypeOK, Handler
<1>4. \/ UNCHANGED stripe
      \/ stripe[s] = "none" /\ stripe' = [stripe EXCEPT ![s] = "open"]
      \/ stripe[s] = "open" /\ stripe' = [stripe EXCEPT ![s] = "expired"]
  BY <1>1, <1>3 DEF CreateSession, CreateFails, ExpireCancel, ExpireDelete, CheckoutTypeOK
<1>5. OutcomesStay /\ \A z \in Sessions : Charged(z)' => Charged(z)
  BY <1>3, <1>4 DEF OutcomesStay, Charged, CheckoutTypeOK
<1>6. /\ handler' \in [Handlers -> Handler]
      /\ \A g \in Handlers \ {h} : handler'[g] = handler[g]
      /\ CallHolds(handler[h])'
  <2>1. CASE CallReturns(h)
    BY <2>1, RestingCall, Resting DEF CallReturns, CheckoutTypeOK, CallHolds, NoCall
  <2>2. CASE CreateSession(h)
    <3>1. /\ s = SessionOf(h) /\ stripe'[s] # "none"
          /\ handler' = [handler EXCEPT ![h].step = "attach", ![h].session = s]
      BY <1>3, <2>2 DEF CreateSession, CheckoutTypeOK
    <3>2. handler'[h].step = "attach" /\ handler'[h].session = s
          /\ handler'[h].request = handler[h].request /\ handler'[h].op = handler[h].op
          /\ handler'[h].period = handler[h].period
          /\ handler' \in [Handlers -> Handler]
      BY <1>1, <1>3, <3>1 DEF CheckoutTypeOK, Handler, Steps
    <3>3. s.request = handler[h].request
      BY <3>1 DEF SessionOf
    <3> QED BY <1>1, <1>3, <2>2, <3>1, <3>2, <3>3 DEF CallHolds, CreateSession, CheckoutTypeOK
  <2>3. ASSUME NEW step \in {"unreserve", "commit", "recheck"}, Continues(h, step),
               step # "unreserve" => handler[h].step = "expire",
               handler[h].op # "checkout"
        PROVE  /\ handler' \in [Handlers -> Handler]
               /\ \A g \in Handlers \ {h} : handler'[g] = handler[g]
               /\ CallHolds(handler[h])'
    <3> DEFINE c == [handler[h] EXCEPT !.step = step]
    <3>1. handler' = [handler EXCEPT ![h] = c]
      BY <2>3 DEF Continues
    <3>2. c \in Handler
      BY <1>1 DEF Handler, Steps
    <3>3. handler'[h] = c
      BY <3>1 DEF CheckoutTypeOK
    <3>4. CallHolds(handler[h])'
      BY <1>1, <1>2, <2>3, <3>3 DEF CallHolds, Handler
    <3> QED BY <3>1, <3>2, <3>4 DEF CheckoutTypeOK
  <2>4. CASE CreateFails(h)
    BY <2>1, <2>3, <2>4 DEF CreateFails, GivesUp
  <2>5. CASE ExpireCancel(h)
    BY <2>3, <2>5 DEF ExpireCancel
  <2>6. CASE ExpireDelete(h)
    BY <2>1, <2>3, <2>6 DEF ExpireDelete
  <2> QED BY <2>2, <2>4, <2>5, <2>6
<1>7. CheckoutTypeOK'
  <2>1. stripe' \in [Sessions -> {"none", "open", "expired", "processing", "paid"}]
    BY <1>4 DEF CheckoutTypeOK
  <2> QED BY <1>2, <1>6, <2>1 DEF CheckoutTypeOK, row
<1>8. CallsHold'
  BY <1>2, <1>5, <1>6, OtherCallKeeps DEF CallsHold
<1>9. PinsHold' /\ EventsHold' /\ AccessIsPaid' /\ OneOpenRequest'
  BY <1>2, <1>5 DEF PinsHold, EventsHold, Event, AccessIsPaid, OneOpenRequest, row, CheckoutTypeOK,
                    OutcomesStay
<1>10. HandedHold'
  <2>1. \A z \in Sessions : Live(z)' => Live(z)
    BY <1>2, <1>5 DEF Live, OutcomesStay
  <2> QED BY <1>2, <1>5, <2>1 DEF HandedHold, row, OutcomesStay, CheckoutTypeOK
<1> QED BY <1>7, <1>8, <1>9, <1>10

\* Only an expired checkout is released, so none is left that may be paid.
LEMMA ReleaseKeeps ==
    ASSUME CheckoutInv, NEW h \in Handlers, ReleaseCheckout(h)
    PROVE  CheckoutInv'
<1> DEFINE s == handler[h].session
           r == handler[h].request
           c == [handler[h] EXCEPT !.step = "reread"]
<1> USE DEF CheckoutInv
<1>1. /\ handler[h] \in Handler /\ CallHolds(handler[h])
      /\ handler[h].step = "release" /\ UNCHANGED <<joined, token, licence, stripe, handed, webhooks>>
      /\ releases[r] < MaxReleases
  BY DEF CheckoutTypeOK, CallsHold, ReleaseCheckout, At
<1>2. s \in Sessions /\ s.request = r /\ r \in Requests /\ stripe[s] = "expired"
  BY <1>1 DEF CallHolds, CheckoutTypeOK
<1>3. /\ handler' = [handler EXCEPT ![h] = c] /\ c \in Handler
      /\ handler'[h] = c
  BY <1>1 DEF ReleaseCheckout, Continues, Handler, Steps, CheckoutTypeOK
<1>4. CallsHold'
  <2>1. CallHolds(handler[h])'
    BY <1>1, <1>3 DEF CallHolds, Handler
  <2>2. \A g \in Handlers \ {h} : UNCHANGED handler[g]
    BY <1>3 DEF CheckoutTypeOK
  <2>3. OutcomesStay
    BY <1>1 DEF OutcomesStay
  <2> QED BY <1>1, <2>1, <2>2, <2>3, OtherCallKeeps DEF CallsHold
<1>5. CASE ~ReleasesFor(s)
  <2>1. UNCHANGED <<status, pinned, releases>>
    BY <1>5 DEF ReleaseCheckout
  <2>2. CheckoutTypeOK'
    BY <1>1, <1>3, <2>1 DEF CheckoutTypeOK
  <2>3. PinsHold' /\ HandedHold' /\ EventsHold' /\ AccessIsPaid' /\ OneOpenRequest'
    BY <1>1, <2>1
       DEF PinsHold, HandedHold, Live, Charged, EventsHold, AccessIsPaid, OneOpenRequest
  <2> QED BY <1>4, <2>2, <2>3
<1>6. CASE ReleasesFor(s)
  <2>1. /\ status[r] = "PAYMENT_PENDING" /\ pinned[r] = s
        /\ status' = [status EXCEPT ![r] = "AGREEMENT_ACCEPTED"]
        /\ pinned' = [pinned EXCEPT ![r] = Nothing]
        /\ releases' = [releases EXCEPT ![r] = @ + 1]
    BY <1>2, <1>6 DEF ReleaseCheckout, ReleasesFor, Becomes
  <2>2. CheckoutTypeOK'
    <3>1. releases' \in [Requests -> 0..MaxReleases]
      <4>1. releases[r] \in 0..MaxReleases /\ MaxReleases \in Nat
        BY <1>2, CheckoutAssumption DEF CheckoutTypeOK, CheckoutAssumption
      <4>2. releases[r] + 1 \in 0..MaxReleases
        BY <1>1, <4>1
      <4> QED BY <1>2, <2>1, <4>2 DEF CheckoutTypeOK
    <3>2. status' \in [Requests -> Status]
      BY <1>2, <2>1 DEF CheckoutTypeOK, Status, Open, Withdrawable
    <3> QED BY <1>1, <1>3, <2>1, <3>1, <3>2 DEF CheckoutTypeOK
  <2>3. PinsHold'
    BY <1>1, <1>2, <2>1 DEF PinsHold, CheckoutTypeOK
  <2>4. HandedHold'
    <3>1. \A z \in Sessions : z.request \in Requests
      BY DEF Sessions
    <3> QED BY <1>1, <1>2, <2>1, <3>1 DEF HandedHold, Live, Charged, CheckoutTypeOK
  <2>5. EventsHold' /\ AccessIsPaid'
    BY <1>1, <1>2, <2>1 DEF EventsHold, AccessIsPaid, CheckoutTypeOK
  <2>6. OneOpenRequest'
    BY <1>2, <2>1 DEF OneOpenRequest, Open, Withdrawable, CheckoutTypeOK
  <2> QED BY <1>4, <2>2, <2>3, <2>4, <2>5, <2>6
<1> QED BY <1>5, <1>6

\* A session is attached where there is none, so where none may be paid.
LEMMA AttachKeeps ==
    ASSUME CheckoutInv, NEW h \in Handlers, Attach(h)
    PROVE  CheckoutInv'
<1> DEFINE s == handler[h].session
           r == handler[h].request
<1> USE DEF CheckoutInv
<1>1. /\ handler[h] \in Handler /\ CallHolds(handler[h]) /\ handler[h].step = "attach"
      /\ UNCHANGED <<joined, releases, token, licence, stripe, webhooks>>
      /\ handed \subseteq handed'
  BY DEF CheckoutTypeOK, CallsHold, Attach
<1>2. s \in Sessions /\ s.request = r /\ r \in Requests /\ stripe[s] # "none"
  BY <1>1 DEF CallHolds
<1>3. /\ handler' \in [Handlers -> Handler] /\ CallHolds(handler[h])'
      /\ \A g \in Handlers \ {h} : UNCHANGED handler[g]
  <2>1. CASE CallReturns(h)
    BY <2>1, RestingCall DEF CallReturns, CheckoutTypeOK, CallHolds, NoCall
  <2>2. CASE Continues(h, "unreserve") /\ handler[h].op = "link"
    <3> DEFINE c == [handler[h] EXCEPT !.step = "unreserve"]
    <3>1. handler' = [handler EXCEPT ![h] = c] /\ c \in Handler /\ handler'[h] = c
      BY <1>1, <2>2 DEF Continues, Handler, Steps, CheckoutTypeOK
    <3>2. CallHolds(handler[h])'
      BY <1>1, <2>2, <3>1 DEF CallHolds, Handler
    <3> QED BY <3>1, <3>2 DEF CheckoutTypeOK
  <2> QED BY <2>1, <2>2 DEF Attach, GivesUp
<1>4. CallsHold'
  <2>1. OutcomesStay
    BY <1>1 DEF OutcomesStay
  <2> QED BY <1>1, <1>3, <2>1, OtherCallKeeps DEF CallsHold
<1>5. CASE ~Attachable(r)
  <2>1. UNCHANGED <<status, pinned, handed>>
    BY <1>5 DEF Attach
  <2>2. CheckoutTypeOK'
    BY <1>1, <1>3, <2>1 DEF CheckoutTypeOK
  <2>3. PinsHold' /\ HandedHold' /\ EventsHold' /\ AccessIsPaid' /\ OneOpenRequest'
    BY <1>1, <2>1
       DEF PinsHold, HandedHold, Live, Charged, EventsHold, AccessIsPaid, OneOpenRequest
  <2> QED BY <1>4, <2>2, <2>3
<1>6. CASE Attachable(r)
  <2>1. /\ status[r] = "AGREEMENT_ACCEPTED" /\ pinned[r] = Nothing
        /\ status' = [status EXCEPT ![r] = "PAYMENT_PENDING"]
        /\ pinned' = [pinned EXCEPT ![r] = s]
        /\ handed' = handed \cup {s}
    BY <1>6 DEF Attach, Attachable, Becomes
  <2>2. CheckoutTypeOK'
    <3>1. status' \in [Requests -> Status]
      BY <1>2, <2>1 DEF CheckoutTypeOK, Status, Open
    <3> QED BY <1>1, <1>2, <1>3, <2>1, <3>1 DEF CheckoutTypeOK
  <2>3. Nothing # s
    BY <1>2, NoSessionAssumption DEF NoSessionAssumption
  <2>4. PinsHold'
    BY <1>2, <2>1, <2>3 DEF PinsHold, CheckoutTypeOK
  <2>5. HandedHold'
    <3>1. \A z \in Sessions : z.request \in Requests
      BY DEF Sessions
    <3>2. \A z \in Sessions : z.request = r => ~Live(z)
      BY <2>1, <3>1, NoSessionAssumption DEF HandedHold, NoSessionAssumption
    <3> QED BY <1>1, <1>2, <2>1, <3>1, <3>2 DEF HandedHold, Live, Charged, CheckoutTypeOK
  <2>6. EventsHold' /\ AccessIsPaid'
    BY <1>1, <1>2, <2>1 DEF EventsHold, AccessIsPaid, CheckoutTypeOK
  <2>7. OneOpenRequest'
    BY <1>2, <2>1 DEF OneOpenRequest, Open, Withdrawable, CheckoutTypeOK
  <2> QED BY <1>4, <2>2, <2>4, <2>5, <2>6, <2>7
<1> QED BY <1>5, <1>6

\* Links: the token moves, and at most the call.
LEMMA LinkKeeps ==
    ASSUME CheckoutInv, NEW h \in Handlers,
           Unreserve(h) \/ \E r \in Requests, p \in Periods : StartLink(h, r, p)
    PROVE  CheckoutInv'
<1> USE DEF CheckoutInv
<1>1. UNCHANGED <<joined, status, pinned, releases, licence, stripe, handed, webhooks>>
  BY DEF Unreserve, StartLink
<1>2. token' \in [Requests -> {"none", "live", "used", "expired"}]
  BY DEF Unreserve, StartLink, CheckoutTypeOK
<1>3. /\ handler' \in [Handlers -> Handler] /\ CallHolds(handler[h])'
      /\ \A g \in Handlers \ {h} : UNCHANGED handler[g]
  <2>1. CASE Unreserve(h)
    BY <2>1, RestingCall DEF Unreserve, CallReturns, CheckoutTypeOK, CallHolds, NoCall
  <2>2. ASSUME NEW r \in Requests, NEW p \in Periods, StartLink(h, r, p)
        PROVE  /\ handler' \in [Handlers -> Handler]
               /\ \A g \in Handlers \ {h} : UNCHANGED handler[g]
               /\ handler'[h].op = "link" /\ handler'[h].request = r
               /\ \/ handler'[h].step = "unreserve"
                  \/ handler'[h].step = "create" /\ handler'[h].period = p
    <3> DEFINE create == [NoCall EXCEPT !.op = "link", !.step = "create", !.request = r,
                              !.period = p, !.attempt = LinkAttempt]
               give == [NoCall EXCEPT !.op = "link", !.step = "unreserve", !.request = r]
    <3>1. LinkAttempt \in 0..LinkAttempt
      BY CheckoutAssumption DEF CheckoutAssumption, LinkAttempt
    <3>2. CASE handler' = [handler EXCEPT ![h] = create]
      <4>1. create \in Handler
        BY <3>1, RestingCall DEF Handler, Operations, Steps
      <4>2. create.op = "link" /\ create.request = r /\ create.step = "create" /\ create.period = p
        BY DEF NoCall
      <4> QED BY <3>2, <4>1, <4>2 DEF CheckoutTypeOK
    <3>3. CASE handler' = [handler EXCEPT ![h] = give]
      <4>1. give \in Handler
        BY RestingCall DEF Handler, Operations, Steps
      <4>2. give.op = "link" /\ give.request = r /\ give.step = "unreserve"
        BY DEF NoCall
      <4> QED BY <3>3, <4>1, <4>2 DEF CheckoutTypeOK
    <3> QED BY <2>2, <3>2, <3>3 DEF StartLink, CreatesFrom
  <2>3. ASSUME NEW r \in Requests, NEW p \in Periods, StartLink(h, r, p)
        PROVE  /\ handler' \in [Handlers -> Handler] /\ CallHolds(handler[h])'
               /\ \A g \in Handlers \ {h} : UNCHANGED handler[g]
    BY <2>2, <2>3 DEF CheckoutTypeOK, CallHolds
  <2> QED BY <2>1, <2>3
<1>4. CheckoutTypeOK'
  BY <1>1, <1>2, <1>3 DEF CheckoutTypeOK
<1>5. CallsHold'
  <2>1. OutcomesStay
    BY <1>1 DEF OutcomesStay
  <2> QED BY <1>1, <1>3, <2>1, OtherCallKeeps DEF CallsHold
<1>6. PinsHold' /\ HandedHold' /\ EventsHold' /\ AccessIsPaid' /\ OneOpenRequest'
  BY <1>1
     DEF PinsHold, HandedHold, Live, Charged, EventsHold, AccessIsPaid, OneOpenRequest
<1> QED BY <1>4, <1>5, <1>6

\* The end of a cancellation or a deletion.
LEMMA EndKeeps ==
    ASSUME CheckoutInv, NEW h \in Handlers,
           ActivateCancel(h) \/ CommitCancel(h) \/ CommitDelete(h)
    PROVE  CheckoutInv'
<1> DEFINE s == handler[h].session
           r == handler[h].request
<1> USE DEF CheckoutInv
<1>1. /\ handler[h] \in Handler /\ CallHolds(handler[h])
      /\ UNCHANGED <<joined, releases, stripe, handed, webhooks>>
      /\ CallReturns(h)
  BY DEF CheckoutTypeOK, CallsHold, ActivateCancel, CommitCancel, CommitDelete
<1>2. handler' \in [Handlers -> Handler] /\ CallsHold' /\ EventsHold'
  BY <1>1, RestingCall
     DEF CallReturns, CallsHold, CallHolds, CheckoutTypeOK, NoCall, EventsHold
<1>3. ASSUME UNCHANGED <<status, licence, pinned, token>>
      PROVE  CheckoutInv'
  <2>1. CheckoutTypeOK'
    BY <1>1, <1>2, <1>3 DEF CheckoutTypeOK
  <2>2. PinsHold' /\ HandedHold' /\ AccessIsPaid' /\ OneOpenRequest'
    BY <1>1, <1>3 DEF PinsHold, HandedHold, Live, Charged, AccessIsPaid, OneOpenRequest
  <2> QED BY <1>2, <2>1, <2>2
<1>4. CASE ActivateCancel(h)
  <2>1. UNCHANGED <<pinned, token>> /\ s \in Sessions /\ stripe[s] = "paid"
    BY <1>1, <1>4 DEF ActivateCancel, At, CallHolds, CheckoutTypeOK
  <2>2. CASE Bound(s)
    <3>1. Activated(s)
      BY <1>4, <2>2 DEF ActivateCancel
    <3>2. /\ status' \in [Requests -> Status]
          /\ licence' \in [Requests -> {"none", "active", "lapsed"}]
          /\ PinsHold' /\ HandedHold' /\ AccessIsPaid' /\ OneOpenRequest'
      BY <1>1, <2>1, <2>2, <3>1, ActivationKeeps
    <3> QED BY <1>1, <1>2, <2>1, <3>2 DEF CheckoutTypeOK
  <2>3. CASE ~Bound(s)
    BY <1>3, <1>4, <2>1, <2>3 DEF ActivateCancel
  <2> QED BY <2>2, <2>3
<1>5. ASSUME status[r] \in Open, status' = [status EXCEPT ![r] = "CANCELLED"],
             LinkExpires(r), UNCHANGED <<licence, pinned>>
      PROVE  CheckoutInv'
  <2>1. CheckoutTypeOK'
    BY <1>1, <1>2, <1>5 DEF CheckoutTypeOK, LinkExpires, Status, Deletable
  <2>2. PinsHold' /\ AccessIsPaid'
    BY <1>1, <1>5 DEF PinsHold, AccessIsPaid, CheckoutTypeOK
  <2>3. HandedHold'
    <3>1. \A q \in Requests : status'[q] # "DELETED" => status[q] # "DELETED"
      BY <1>5 DEF CheckoutTypeOK, Open, Withdrawable, PendingReview
    <3>2. \A z \in Sessions : z.request \in Requests
      BY DEF Sessions
    <3> QED BY <1>1, <1>5, <3>1, <3>2 DEF HandedHold, Live, Charged
  <2>4. OneOpenRequest'
    BY <1>5 DEF OneOpenRequest, Open, Withdrawable, PendingReview, CheckoutTypeOK
  <2> QED BY <1>2, <2>1, <2>2, <2>3, <2>4
<1>6. CASE CommitCancel(h)
  BY <1>3, <1>5, <1>6 DEF CommitCancel, Becomes
<1>7. ASSUME status' = [status EXCEPT ![r] = "DELETED"],
             pinned' = [pinned EXCEPT ![r] = Nothing],
             token' = [token EXCEPT ![r] = "none"], UNCHANGED licence
      PROVE  CheckoutInv'
  <2>1. CheckoutTypeOK'
    BY <1>1, <1>2, <1>7 DEF CheckoutTypeOK, Status
  <2>2. PinsHold' /\ AccessIsPaid'
    BY <1>1, <1>7 DEF PinsHold, AccessIsPaid, CheckoutTypeOK
  <2>3. HandedHold'
    <3>1. \A z \in Sessions : z.request \in Requests
      BY DEF Sessions
    <3> QED BY <1>1, <1>7, <3>1 DEF HandedHold, Live, Charged, CheckoutTypeOK
  <2>4. OneOpenRequest'
    BY <1>7 DEF OneOpenRequest, Open, Withdrawable, PendingReview, CheckoutTypeOK
  <2> QED BY <1>2, <2>1, <2>2, <2>3, <2>4
<1>8. CASE CommitDelete(h)
  BY <1>3, <1>7, <1>8 DEF CommitDelete, Becomes
<1> QED BY <1>4, <1>6, <1>8

LEMMA CallKeeps ==
    ASSUME CheckoutInv, NEW h \in Handlers,
           Handles(h) \/ \E r \in Requests : Starts(h, r)
    PROVE  CheckoutInv'
<1>1. CASE Handles(h)
  BY <1>1, LookKeeps, ReleaseKeeps, SessionStepKeeps, AttachKeeps, LinkKeeps, EndKeeps
     DEF Handles
<1>2. ASSUME NEW r \in Requests, Starts(h, r)
      PROVE  CheckoutInv'
  BY <1>2, StartKeeps, LinkKeeps DEF Starts
<1> QED BY <1>1, <1>2

LEMMA CheckoutStepKeeps == CheckoutInv /\ [CheckoutNext]_checkoutVars => CheckoutInv'
<1> SUFFICES ASSUME CheckoutInv, [CheckoutNext]_checkoutVars
             PROVE  CheckoutInv'
  OBVIOUS
<1>1. CASE CheckoutNext
  BY <1>1, JoinKeeps, ReviewKeeps, StripeKeeps, ReconcileKeeps, WebhookKeeps, CallKeeps
     DEF CheckoutNext
<1>2. CASE UNCHANGED checkoutVars
  BY <1>2 DEF CheckoutInv, checkoutVars, row, CheckoutTypeOK, CallsHold, CallHolds, PinsHold,
              HandedHold, Live, Charged, EventsHold, AccessIsPaid, OneOpenRequest
<1> QED BY <1>1, <1>2

-------------------------------------------------------------------------------
LEMMA CheckoutInvariant == CheckoutSpec => []CheckoutInv
  BY CheckoutStarts, CheckoutStepKeeps, PTL DEF CheckoutSpec

\* Every variable keeps its type, whatever the calls, Stripe and the reviewers do.
THEOREM CheckoutTypes == CheckoutSpec => []CheckoutTypeOK
<1>1. CheckoutInv => CheckoutTypeOK
  BY DEF CheckoutInv
<1> QED BY <1>1, CheckoutInvariant, PTL

\* Access is given only for money that arrived on the request's own checkout.
THEOREM AccessPaid == CheckoutSpec => []AccessIsPaid
<1>1. CheckoutInv => AccessIsPaid
  BY DEF CheckoutInv
<1> QED BY <1>1, CheckoutInvariant, PTL

\* The applicant has one open request at a time.
THEOREM OneOpen == CheckoutSpec => []OneOpenRequest
<1>1. CheckoutInv => OneOpenRequest
  BY DEF CheckoutInv
<1> QED BY <1>1, CheckoutInvariant, PTL

\* No request is charged twice, however many calls overlap, retry and die: two
\* sessions that were paid were handed out and have not expired.
THEOREM ChargedOnce == CheckoutSpec => []NoDoubleCharge
<1>1. CheckoutInv => NoDoubleCharge
  BY DEF CheckoutInv, HandedHold, NoDoubleCharge, Live, Charged
<1> QED BY <1>1, CheckoutInvariant, PTL

\* A withdrawn request has no session that was paid, nor one that will be.
THEOREM WithdrawnUnpaid == CheckoutSpec => []WithdrawnIsUnpaid
<1>1. CheckoutInv => WithdrawnIsUnpaid
  <2> SUFFICES ASSUME CheckoutInv, NEW s \in Sessions, status[s.request] = "WITHDRAWN", Charged(s)
               PROVE  FALSE
    BY DEF WithdrawnIsUnpaid
  <2>1. s.request \in Requests
    BY DEF Sessions
  <2>2. pinned[s.request] = s
    BY DEF CheckoutInv, HandedHold, Live, Charged
  <2>3. s # Nothing
    BY NoSessionAssumption DEF NoSessionAssumption
  <2> QED BY <2>1, <2>2, <2>3 DEF CheckoutInv, PinsHold
<1> QED BY <1>1, CheckoutInvariant, PTL

===============================================================================
