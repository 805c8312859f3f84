------------------------------- MODULE Checkout -------------------------------
(***************************************************************************)
(* One applicant's access requests and their Stripe checkout               *)
(* (backend/src/access-requests, backend/src/payments).                    *)
(*                                                                         *)
(* Every change of a request is one conditional update, or a serializable  *)
(* transaction that is retried, so it is one step.  A handler that talks   *)
(* to Stripe takes one step per await: it reads the row, asks Stripe, and  *)
(* then acts on what it saw while reviewers, the applicant, Stripe and     *)
(* other handlers go on.  Stripe repeats an event until the answer is 2xx, *)
(* and at times after that.                                                *)
(*                                                                         *)
(* A session is named by its idempotency key.  The key of a signed-in      *)
(* checkout has the row's updatedAt, which while a request waits for its   *)
(* checkout only the release of an expired session moves: the attempt      *)
(* counts those.  The key of an approval link has no such part.            *)
(*                                                                         *)
(* Simplifications: one applicant, so one e-mail address; a request has at *)
(* most one approval link in its applicant's hands (sent before the        *)
(* account-first version, which mints links but sends none); the workspace *)
(* of a licence, legacy tiers, mails and the audit log are left out; what  *)
(* happens to a licence after activation is in Licence.                    *)
(***************************************************************************)
EXTENDS Naturals

CONSTANTS
    Requests,    \* the applicant's requests
    Legacy,      \* those filed through the retired anonymous form
    Periods,     \* BillingPeriod
    Handlers,    \* calls of PaymentsService that run at the same time
    MaxReleases, \* bound on the expired checkouts of a request that are released
    Nothing

ASSUME CheckoutAssumption ==
    /\ Legacy \subseteq Requests
    /\ \A r, q \in Legacy : r = q
    /\ MaxReleases \in Nat
    /\ Nothing \notin Requests

VARIABLES
    joined,   \* the applicant has an account
    status,   \* AccessRequestStatus of each request
    pinned,   \* stripeCheckoutSessionId
    releases, \* how often an expired session was released: updatedAt
    token,    \* the approval link of each request
    licence,  \* the licence of each request
    stripe,   \* Stripe's state of each session
    handed,   \* sessions whose URL a caller was given
    webhooks, \* events Stripe has not had acknowledged
    handler   \* each call's place

row == <<joined, status, pinned, releases, token, licence>>
checkoutVars == <<row, stripe, handed, webhooks, handler>>

-------------------------------------------------------------------------------
PendingReview == {"RECEIVED", "UNDER_REVIEW", "MORE_INFO_REQUIRED"}
Withdrawable == PendingReview \cup {"APPROVED", "AGREEMENT_ACCEPTED"}
Open == Withdrawable \cup {"PAYMENT_PENDING"}
Deletable == {"DECLINED", "CANCELLED"}

\* Not filed yet; deleted for good.
Status == Open \cup Deletable \cup {"UNFILED", "ACTIVE", "WITHDRAWN", "DELETED"}

LinkAttempt == MaxReleases + 1
Sessions == [request : Requests, period : Periods, attempt : 0..LinkAttempt]

ASSUME NoSessionAssumption == Nothing \notin Sessions

Event == [session : Sessions, paid : BOOLEAN]

Steps == {"idle", "retrieve", "release", "reread", "create", "attach", "unreserve",
          "expire", "recheck", "activate", "commit"}
Operations == {"none", "checkout", "link", "cancel", "delete"}

Handler == [op : Operations, step : Steps, request : Requests \cup {Nothing},
            period : Periods \cup {Nothing}, session : Sessions \cup {Nothing},
            attempt : 0..LinkAttempt]

NoCall == [op |-> "none", step |-> "idle", request |-> Nothing, period |-> Nothing,
            session |-> Nothing, attempt |-> 0]

CheckoutInit ==
    /\ joined = FALSE
    /\ status = [r \in Requests |-> IF r \in Legacy THEN "RECEIVED" ELSE "UNFILED"]
    /\ pinned = [r \in Requests |-> Nothing]
    /\ releases = [r \in Requests |-> 0]
    /\ token = [r \in Requests |-> "none"]
    /\ licence = [r \in Requests |-> "none"]
    /\ stripe = [s \in Sessions |-> "none"]
    /\ handed = {}
    /\ webhooks = {}
    /\ handler = [h \in Handlers |-> NoCall]

\* Mutant of NoOtherOpen: the request that is being paid does not count.
NoOtherReviewed(r) == \A q \in Requests \ {r} : status[q] \notin Withdrawable

\* assertNoOtherOpenRequest: account and address are the same applicant's.
NoOtherOpen(r) == \A q \in Requests \ {r} : status[q] \notin Open

Becomes(r, s) == status' = [status EXCEPT ![r] = s]

\* updateMany of the request's tokens with usedAt: null.
LinkExpires(r) == token' = [token EXCEPT ![r] = IF @ = "live" THEN "expired" ELSE @]

-------------------------------------------------------------------------------
(***************************************************************************)
(* Review and the applicant's own steps                                    *)
(***************************************************************************)
aside == <<stripe, handed, webhooks, handler>>

Submit(r) ==
    /\ joined
    /\ status[r] = "UNFILED"
    /\ NoOtherOpen(r)
    /\ \A q \in Requests : licence[q] # "active"
    /\ Becomes(r, "RECEIVED")
    /\ UNCHANGED <<joined, pinned, releases, token, licence, aside>>

StartReview(r) ==
    /\ status[r] \in {"RECEIVED", "MORE_INFO_REQUIRED"}
    /\ Becomes(r, "UNDER_REVIEW")
    /\ UNCHANGED <<joined, pinned, releases, token, licence, aside>>

RequestMoreInfo(r) ==
    /\ status[r] \in {"RECEIVED", "UNDER_REVIEW"}
    /\ Becomes(r, "MORE_INFO_REQUIRED")
    /\ UNCHANGED <<joined, pinned, releases, token, licence, aside>>

\* The link of a legacy request was sent; those minted since are not.
Approve(r) ==
    /\ status[r] \in PendingReview
    /\ NoOtherOpen(r)
    /\ Becomes(r, "APPROVED")
    /\ token' = [token EXCEPT ![r] = IF r \in Legacy /\ ~joined THEN "live" ELSE @]
    /\ UNCHANGED <<joined, pinned, releases, licence, aside>>

\* A new link replaces the one the applicant has.
ResendApproval(r) ==
    /\ status[r] = "APPROVED"
    /\ LinkExpires(r)
    /\ UNCHANGED <<joined, status, pinned, releases, licence, aside>>

Decline(r) ==
    /\ status[r] \in PendingReview
    /\ Becomes(r, "DECLINED")
    /\ LinkExpires(r)
    /\ UNCHANGED <<joined, pinned, releases, licence, aside>>

Withdraw(r) ==
    /\ joined
    /\ status[r] \in Withdrawable
    /\ Becomes(r, "WITHDRAWN")
    /\ LinkExpires(r)
    /\ UNCHANGED <<joined, pinned, releases, licence, aside>>

\* By the owner, or with an unused link.
AcceptAgreement(r) ==
    /\ joined \/ token[r] = "live"
    /\ status[r] = "APPROVED"
    /\ Becomes(r, "AGREEMENT_ACCEPTED")
    /\ UNCHANGED <<joined, pinned, releases, token, licence, aside>>

\* linkLegacyRequests when the applicant proves the address.
Join ==
    /\ ~joined
    /\ joined' = TRUE
    /\ UNCHANGED <<status, pinned, releases, token, licence, aside>>

\* Billing events and the expiry job, see Licence; active or suspended is one.
LicenceMoves(r) ==
    /\ licence[r] # "none"
    /\ licence' = [licence EXCEPT ![r] = IF @ = "active" THEN "lapsed" ELSE "active"]
    /\ UNCHANGED <<joined, status, pinned, releases, token, aside>>

-------------------------------------------------------------------------------
(***************************************************************************)
(* Stripe and its customer                                                 *)
(***************************************************************************)
StripeIs(s, state) == stripe' = [stripe EXCEPT ![s] = state]

\* The customer completes the form; some methods confirm the money later.
Pays(s) ==
    /\ s \in handed
    /\ stripe[s] = "open"
    /\ \E state \in {"paid", "processing"} :
        /\ StripeIs(s, state)
        /\ webhooks' = webhooks \cup {[session |-> s, paid |-> state = "paid"]}
    /\ UNCHANGED <<row, handed, handler>>

MoneyArrives(s) ==
    /\ stripe[s] = "processing"
    /\ StripeIs(s, "paid")
    /\ webhooks' = webhooks \cup {[session |-> s, paid |-> TRUE]}
    /\ UNCHANGED <<row, handed, handler>>

SessionExpires(s) ==
    /\ stripe[s] = "open"
    /\ StripeIs(s, "expired")
    /\ UNCHANGED <<row, handed, webhooks, handler>>

-------------------------------------------------------------------------------
(***************************************************************************)
(* activateFromWebhook                                                     *)
(***************************************************************************)
\* No request has the session: not found.
Bound(s) == pinned[s.request] = s

\* Only a request that waits for payment is activated; others answer 2xx.
Activated(s) ==
    IF status[s.request] = "PAYMENT_PENDING"
    THEN /\ Becomes(s.request, "ACTIVE")
         /\ licence' = [licence EXCEPT ![s.request] = "active"]
    ELSE UNCHANGED <<status, licence>>

\* Mutant of Activates: a completed session is taken for a paid one.
ActivatesCompleted(e) == TRUE

\* Mutant of Activates: only the event of a completed session is listened to.
ActivatesAtOnce(e) == e.paid /\ \A f \in webhooks : f.session = e.session => f = e

\* An unpaid session is acknowledged and otherwise ignored.
Activates(e) == e.paid

Webhook(e) ==
    /\ e \in webhooks
    /\ IF Activates(e)
       THEN Bound(e.session) /\ Activated(e.session)
       ELSE UNCHANGED <<status, licence>>
    /\ webhooks' \in {webhooks, webhooks \ {e}}
    /\ UNCHANGED <<joined, pinned, releases, token, stripe, handed, handler>>

\* reconcileTestCheckout, in Stripe's test mode: Stripe is asked instead.
Reconcile(s) ==
    /\ stripe[s] = "paid"
    /\ Bound(s)
    /\ Activated(s)
    /\ UNCHANGED <<joined, pinned, releases, token, stripe, handed, webhooks, handler>>

-------------------------------------------------------------------------------
(***************************************************************************)
(* Checkout: createCheckoutForUser and createCheckoutSession               *)
(***************************************************************************)
At(h, op, step) == handler[h].op = op /\ handler[h].step = step
Continues(h, step) == handler' = [handler EXCEPT ![h].step = step]
CallReturns(h) == handler' = [handler EXCEPT ![h] = NoCall]

CreatesFrom(h, op, r, p, attempt) ==
    handler' = [handler EXCEPT ![h] =
        [NoCall EXCEPT !.op = op, !.step = "create", !.request = r,
                        !.period = p, !.attempt = attempt]]

\* The owner asks: a session that is pinned is looked up first.
StartCheckout(h, r, p) ==
    /\ handler[h] = NoCall
    /\ joined
    /\ \/ /\ status[r] = "PAYMENT_PENDING"
          /\ handler' = [handler EXCEPT ![h] =
                 [NoCall EXCEPT !.op = "checkout", !.step = "retrieve", !.request = r,
                                 !.period = p, !.session = pinned[r]]]
       \/ /\ status[r] = "AGREEMENT_ACCEPTED"
          /\ CreatesFrom(h, "checkout", r, p, releases[r])
    /\ UNCHANGED <<row, stripe, handed, webhooks>>

\* Resume an open session, report a completed one, release an expired one.
RetrieveCheckout(h) ==
    LET s == handler[h].session IN
    /\ At(h, "checkout", "retrieve")
    /\ handed' = IF stripe[s] = "open" THEN handed \cup {s} ELSE handed
    /\ IF stripe[s] = "expired" THEN Continues(h, "release") ELSE CallReturns(h)
    /\ UNCHANGED <<row, stripe, webhooks>>

ReleasesFor(s) == status[s.request] = "PAYMENT_PENDING" /\ pinned[s.request] = s

ReleaseCheckout(h) ==
    LET s == handler[h].session r == handler[h].request IN
    /\ At(h, "checkout", "release")
    /\ releases[r] < MaxReleases
    /\ IF ReleasesFor(s)
       THEN /\ Becomes(r, "AGREEMENT_ACCEPTED")
            /\ pinned' = [pinned EXCEPT ![r] = Nothing]
            /\ releases' = [releases EXCEPT ![r] = @ + 1]
       ELSE UNCHANGED <<status, pinned, releases>>
    /\ Continues(h, "reread")
    /\ UNCHANGED <<joined, token, licence, stripe, handed, webhooks>>

RereadCheckout(h) ==
    LET r == handler[h].request IN
    /\ At(h, "checkout", "reread")
    /\ IF status[r] = "AGREEMENT_ACCEPTED"
       THEN CreatesFrom(h, "checkout", r, handler[h].period, releases[r])
       ELSE CallReturns(h)
    /\ UNCHANGED <<row, stripe, handed, webhooks>>

\* consumeApprovalToken; a request that is not at its checkout gives it back.
StartLink(h, r, p) ==
    /\ handler[h] = NoCall
    /\ token[r] = "live"
    /\ status[r] # "CANCELLED"
    /\ NoOtherOpen(r)
    /\ token' = [token EXCEPT ![r] = "used"]
    /\ IF status[r] = "AGREEMENT_ACCEPTED"
       THEN CreatesFrom(h, "link", r, p, LinkAttempt)
       ELSE handler' = [handler EXCEPT ![h] =
                [NoCall EXCEPT !.op = "link", !.step = "unreserve", !.request = r]]
    /\ UNCHANGED <<joined, status, pinned, releases, licence, stripe, handed, webhooks>>

SessionOf(h) ==
    [request |-> handler[h].request, period |-> handler[h].period,
     attempt |-> handler[h].attempt]

\* Stripe answers a key it knows with the session it made for it.
CreateSession(h) ==
    LET s == SessionOf(h) IN
    /\ handler[h].step = "create"
    /\ stripe' = [stripe EXCEPT ![s] = IF @ = "none" THEN "open" ELSE @]
    /\ handler' = [handler EXCEPT ![h].step = "attach", ![h].session = s]
    /\ UNCHANGED <<row, handed, webhooks>>

GivesUp(h) == IF handler[h].op = "link" THEN Continues(h, "unreserve") ELSE CallReturns(h)

\* Stripe is not reached, or its answer is lost: the call throws.
CreateFails(h) ==
    LET s == SessionOf(h) IN
    /\ handler[h].step = "create"
    /\ \/ UNCHANGED stripe
       \/ stripe[s] = "none" /\ StripeIs(s, "open")
    /\ GivesUp(h)
    /\ UNCHANGED <<row, handed, webhooks>>

\* Mutant of Attachable: a session may take the place of another.
AttachableAgain(r) == status[r] \in {"AGREEMENT_ACCEPTED", "PAYMENT_PENDING"}

Attachable(r) == status[r] = "AGREEMENT_ACCEPTED" /\ pinned[r] = Nothing

\* The caller gets the URL only of a session that was attached.
Attach(h) ==
    LET s == handler[h].session r == handler[h].request IN
    /\ handler[h].step = "attach"
    /\ IF Attachable(r)
       THEN /\ Becomes(r, "PAYMENT_PENDING")
            /\ pinned' = [pinned EXCEPT ![r] = s]
            /\ handed' = handed \cup {s}
            /\ CallReturns(h)
       ELSE /\ GivesUp(h)
            /\ UNCHANGED <<status, pinned, handed>>
    /\ UNCHANGED <<joined, releases, token, licence, stripe, webhooks>>

Unreserve(h) ==
    /\ At(h, "link", "unreserve")
    /\ token' = [token EXCEPT ![handler[h].request] = "live"]
    /\ CallReturns(h)
    /\ UNCHANGED <<joined, status, pinned, releases, licence, stripe, handed, webhooks>>

-------------------------------------------------------------------------------
(***************************************************************************)
(* cancelAccessRequest and deleteAccessRequest                             *)
(***************************************************************************)
Begins(h, op, r) ==
    handler' = [handler EXCEPT ![h] =
        [NoCall EXCEPT !.op = op, !.request = r, !.session = pinned[r],
                        !.step = IF pinned[r] = Nothing THEN "commit" ELSE "retrieve"]]

StartCancel(h, r) ==
    /\ handler[h] = NoCall
    /\ status[r] \notin {"UNFILED", "DELETED", "ACTIVE"}
    /\ Begins(h, "cancel", r)
    /\ UNCHANGED <<row, stripe, handed, webhooks>>

AfterRetrieve(s) ==
    CASE stripe[s] = "paid" -> "activate"
      [] stripe[s] = "open" -> "expire"
      [] OTHER -> "commit"

RetrieveCancel(h) ==
    /\ At(h, "cancel", "retrieve")
    /\ Continues(h, AfterRetrieve(handler[h].session))
    /\ UNCHANGED <<row, stripe, handed, webhooks>>

\* Stripe refuses to expire a session that is no longer open.
ExpireCancel(h) ==
    LET s == handler[h].session IN
    /\ At(h, "cancel", "expire")
    /\ IF stripe[s] = "open"
       THEN StripeIs(s, "expired") /\ Continues(h, "commit")
       ELSE UNCHANGED stripe /\ Continues(h, "recheck")
    /\ UNCHANGED <<row, handed, webhooks>>

RecheckCancel(h) ==
    /\ At(h, "cancel", "recheck")
    /\ IF stripe[handler[h].session] = "paid" THEN Continues(h, "activate") ELSE CallReturns(h)
    /\ UNCHANGED <<row, stripe, handed, webhooks>>

\* The payment wins; a session no request has makes the call throw.
ActivateCancel(h) ==
    /\ At(h, "cancel", "activate")
    /\ IF Bound(handler[h].session)
       THEN Activated(handler[h].session)
       ELSE UNCHANGED <<status, licence>>
    /\ CallReturns(h)
    /\ UNCHANGED <<joined, pinned, releases, token, stripe, handed, webhooks>>

\* cancelUnpaid
CommitCancel(h) ==
    LET r == handler[h].request IN
    /\ At(h, "cancel", "commit")
    /\ IF status[r] \in Open /\ licence[r] = "none"
       THEN Becomes(r, "CANCELLED") /\ LinkExpires(r)
       ELSE UNCHANGED <<status, token>>
    /\ CallReturns(h)
    /\ UNCHANGED <<joined, pinned, releases, licence, stripe, handed, webhooks>>

StartDelete(h, r) ==
    /\ handler[h] = NoCall
    /\ status[r] \notin {"UNFILED", "DELETED"}
    /\ Begins(h, "delete", r)
    /\ UNCHANGED <<row, stripe, handed, webhooks>>

RetrieveDelete(h) ==
    LET s == handler[h].session IN
    /\ At(h, "delete", "retrieve")
    /\ IF stripe[s] = "paid" THEN CallReturns(h) ELSE Continues(h, AfterRetrieve(s))
    /\ UNCHANGED <<row, stripe, handed, webhooks>>

\* Comes before the status is looked at: a refused deletion expires it too.
ExpireDelete(h) ==
    LET s == handler[h].session IN
    /\ At(h, "delete", "expire")
    /\ IF stripe[s] = "open"
       THEN StripeIs(s, "expired") /\ Continues(h, "commit")
       ELSE UNCHANGED stripe /\ CallReturns(h)
    /\ UNCHANGED <<row, handed, webhooks>>

\* deleteTerminal: not a request of an account, nor one with a licence.
CommitDelete(h) ==
    LET r == handler[h].request IN
    /\ At(h, "delete", "commit")
    /\ IF status[r] \in Deletable /\ licence[r] = "none" /\ ~joined
       THEN /\ Becomes(r, "DELETED")
            /\ pinned' = [pinned EXCEPT ![r] = Nothing]
            /\ token' = [token EXCEPT ![r] = "none"]
       ELSE UNCHANGED <<status, pinned, token>>
    /\ CallReturns(h)
    /\ UNCHANGED <<joined, releases, licence, stripe, handed, webhooks>>

\* The server restarts in the middle of a call.
Crash(h) ==
    /\ handler[h] # NoCall
    /\ CallReturns(h)
    /\ UNCHANGED <<row, stripe, handed, webhooks>>

-------------------------------------------------------------------------------
Review(r) ==
    \/ Submit(r) \/ StartReview(r) \/ RequestMoreInfo(r) \/ Approve(r)
    \/ ResendApproval(r) \/ Decline(r) \/ Withdraw(r) \/ AcceptAgreement(r)
    \/ LicenceMoves(r)

Handles(h) ==
    \/ RetrieveCheckout(h) \/ ReleaseCheckout(h) \/ RereadCheckout(h)
    \/ CreateSession(h) \/ CreateFails(h) \/ Attach(h) \/ Unreserve(h)
    \/ RetrieveCancel(h) \/ ExpireCancel(h) \/ RecheckCancel(h) \/ ActivateCancel(h)
    \/ CommitCancel(h) \/ RetrieveDelete(h) \/ ExpireDelete(h) \/ CommitDelete(h)
    \/ Crash(h)

Starts(h, r) ==
    \/ \E p \in Periods : StartCheckout(h, r, p) \/ StartLink(h, r, p)
    \/ StartCancel(h, r) \/ StartDelete(h, r)

CheckoutNext ==
    \/ Join
    \/ \E r \in Requests : Review(r)
    \/ \E s \in Sessions : Pays(s) \/ MoneyArrives(s) \/ SessionExpires(s)
                         \/ Reconcile(s)
    \/ \E e \in webhooks : Webhook(e)
    \/ \E h \in Handlers : Handles(h) \/ \E r \in Requests : Starts(h, r)

CheckoutSpec == CheckoutInit /\ [][CheckoutNext]_checkoutVars

\* Stripe repeats its events until they are acknowledged.
Acknowledged == \E e \in webhooks : Webhook(e) /\ webhooks' = webhooks \ {e}
CheckoutFairness == WF_checkoutVars(Acknowledged)
CheckoutFairSpec == CheckoutSpec /\ CheckoutFairness

-------------------------------------------------------------------------------
\* Every variable has its type.
CheckoutTypeOK ==
    /\ joined \in BOOLEAN
    /\ status \in [Requests -> Status]
    /\ pinned \in [Requests -> Sessions \cup {Nothing}]
    /\ releases \in [Requests -> 0..MaxReleases]
    /\ token \in [Requests -> {"none", "live", "used", "expired"}]
    /\ licence \in [Requests -> {"none", "active", "lapsed"}]
    /\ stripe \in [Sessions -> {"none", "open", "expired", "processing", "paid"}]
    /\ handed \subseteq Sessions
    /\ webhooks \subseteq Event
    /\ handler \in [Handlers -> Handler]

\* The applicant has at most one open request at a time, through whatever
\* interleaving of reviews, withdrawals, checkouts and links
\* (assertNoOtherOpenRequest is only asked when one is filed, approved or paid).
OneOpenRequest ==
    \A r, q \in Requests : status[r] \in Open /\ status[q] \in Open => r = q

\* Money was taken, or is on its way, for a session.
Charged(s) == stripe[s] \in {"paid", "processing"}

\* A request is never charged twice, though its calls retry, overlap and die
\* with sessions that were created and not attached, and expired checkouts are
\* replaced by new ones (attachCheckoutSession, releaseExpiredCheckout).
NoDoubleCharge ==
    \A s, z \in Sessions :
        s.request = z.request /\ Charged(s) /\ Charged(z) => s = z

\* Access is given only for money that arrived on the request's own checkout;
\* a completed session whose payment is still processing gives none.
AccessIsPaid ==
    \A r \in Requests :
        status[r] = "ACTIVE" => pinned[r] # Nothing /\ stripe[pinned[r]] = "paid"

\* An applicant who withdrew is not charged for the request afterwards
\* (WITHDRAWABLE_STATUSES ends where the Stripe checkout begins).
WithdrawnIsUnpaid ==
    \A s \in Sessions : status[s.request] = "WITHDRAWN" => ~Charged(s)

\* A request whose checkout was paid is not left waiting for its payment:
\* whichever of webhook, cancellation and release comes first, Stripe's
\* repeated event or the cancellation itself activates it.
PaidAndWaiting(r) ==
    status[r] = "PAYMENT_PENDING" /\ pinned[r] # Nothing /\ stripe[pinned[r]] = "paid"
PaidIsServed == \A r \in Requests : PaidAndWaiting(r) ~> ~PaidAndWaiting(r)

\* What the code promises of a withdrawal, application-rules.ts:30, asked of a
\* cancellation: it does not leave the customer charged without access.
PaidIsNotCancelled ==
    \A s \in Sessions : status[s.request] = "CANCELLED" => ~Charged(s)
===============================================================================
