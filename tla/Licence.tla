------------------------------- MODULE Licence --------------------------------
(***************************************************************************)
(* The licence of one Stripe subscription after its checkout: the billing  *)
(* events of the webhook (backend/src/payments, access-requests) and the   *)
(* hourly expiry job (license-expiry.service.ts).                          *)
(*                                                                         *)
(* A subscription event is handled at READ COMMITTED: it reads the row,  *)
(* compares the time of the last event, and then updates the row by its    *)
(* id, two steps between which another event or the job may move the row.  *)
(* Stripe delivers events in any order, repeats one until it is answered   *)
(* with 2xx, and at times after that.                                      *)
(*                                                                         *)
(* Simplifications: the clock counts in the units of Stripe's timestamps,  *)
(* bounded by MaxTime; a subscription changes at most MaxChanges times and *)
(* its period is one unit; every subscription event names the end of the   *)
(* period (the code would take the absence of current_period_end for a     *)
(* licence without an end); the review of a legacy contract is left out.   *)
(***************************************************************************)
EXTENDS Naturals

CONSTANTS
    WebhookCalls, \* webhook requests handled at the same time
    MaxTime,      \* bound on the clock
    MaxChanges,   \* bound on what happens to the subscription
    Never         \* no date

ASSUME LicenceAssumption ==
    /\ MaxTime \in Nat /\ MaxChanges \in Nat
    /\ Never \notin Nat

VARIABLES
    unixTime,     \* now, in seconds of Stripe's `created`
    subscription, \* Stripe's own record of the subscription
    changes,      \* how often it changed
    events,       \* events Stripe may still deliver
    licenseRow,   \* the License row
    handling,     \* each webhook call's place
    job           \* the `now` of a running expiry job that selected the row

licenceVars == <<unixTime, subscription, changes, events, licenseRow, handling, job>>

-------------------------------------------------------------------------------
Times == 0..MaxTime
Dates == 0..(MaxTime + 1)
LicenseStatus == {"none", "ACTIVE", "PAST_DUE", "CANCELLED", "EXPIRED", "SUSPENDED"}
StripeStatus == {"active", "past_due", "canceled", "paused"}

BillingEvent ==
    [kind : {"completed", "subscription", "payment_failed"}, created : Times,
     status : StripeStatus, until : Dates]

Ready == [step |-> "ready"]
Writing == [step : {"write"}, event : BillingEvent, status : LicenseStatus]

NoLicence == [status |-> "none", until |-> Never, last |-> Never]

LicenceInit ==
    /\ unixTime = 0
    /\ subscription = [status |-> "active", until |-> 1]
    /\ changes = 0
    /\ events = {[kind |-> "completed", created |-> 0, status |-> "active", until |-> 1]}
    /\ licenseRow = NoLicence
    /\ handling = [c \in WebhookCalls |-> Ready]
    /\ job = Never

-------------------------------------------------------------------------------
(***************************************************************************)
(* Stripe                                                                  *)
(***************************************************************************)
TimePasses ==
    /\ unixTime < MaxTime
    /\ unixTime' = unixTime + 1
    /\ UNCHANGED <<subscription, changes, events, licenseRow, handling, job>>

\* Events of one second have the same time, in whatever order they happened.
Announces(kinds) ==
    events' = events \cup
        {[kind |-> k, created |-> unixTime, status |-> subscription'.status,
          until |-> subscription'.until] : k \in kinds}

Changes(status, until, kinds) ==
    /\ changes < MaxChanges
    /\ changes' = changes + 1
    /\ subscription' = [status |-> status, until |-> until]
    /\ Announces(kinds)
    /\ UNCHANGED <<unixTime, licenseRow, handling, job>>

Lapsed == subscription.until <= unixTime

\* A new period begins whether or not it is paid.
Renews ==
    /\ subscription.status = "active" /\ Lapsed
    /\ Changes("active", unixTime + 1, {"subscription"})

PaymentFails ==
    /\ subscription.status = "active" /\ Lapsed
    /\ Changes("past_due", unixTime + 1, {"subscription", "payment_failed"})

PaymentRecovers ==
    /\ subscription.status \in {"past_due", "paused"}
    /\ Changes("active", subscription.until, {"subscription"})

Pauses ==
    /\ subscription.status = "active"
    /\ Changes("paused", subscription.until, {"subscription"})

IsCancelled ==
    /\ subscription.status # "canceled"
    /\ Changes("canceled", subscription.until, {"subscription"})

-------------------------------------------------------------------------------
(***************************************************************************)
(* handleWebhook and updateSubscriptionFromWebhook                         *)
(***************************************************************************)
\* mapSubscriptionStatus
Mapped(status) ==
    CASE status = "active" -> "ACTIVE"
      [] status = "past_due" -> "PAST_DUE"
      [] status = "canceled" -> "CANCELLED"
      [] status = "paused" -> "SUSPENDED"

\* Cancelling ends access at the end of the period that was paid for.
StatusOf(e) ==
    IF e.kind = "payment_failed" THEN "PAST_DUE"
    ELSE IF e.status = "canceled" /\ e.until > unixTime THEN "ACTIVE"
    ELSE Mapped(e.status)

Answered(e) == events' \in {events, events \ {e}}

\* activateFromWebhook is serializable; an administrator's or a test's
\* reconciliation has no event and leaves its time empty.
Completed(e) ==
    /\ e \in events
    /\ e.kind = "completed"
    /\ licenseRow' = IF licenseRow = NoLicence
              THEN [status |-> "ACTIVE", until |-> Never, last |-> e.created]
              ELSE licenseRow
    /\ Answered(e)
    /\ UNCHANGED <<unixTime, subscription, changes, handling, job>>

Reconciled ==
    /\ licenseRow = NoLicence
    /\ licenseRow' = [status |-> "ACTIVE", until |-> Never, last |-> Never]
    /\ UNCHANGED <<unixTime, subscription, changes, events, handling, job>>

Stale(e) == licenseRow.last # Never /\ licenseRow.last > e.created

\* No licence yet, or a later event was applied: answered and forgotten.
ReadLicence(c, e) ==
    /\ handling[c] = Ready
    /\ e \in events
    /\ e.kind # "completed"
    /\ IF licenseRow = NoLicence \/ Stale(e)
       THEN Answered(e) /\ UNCHANGED handling
       ELSE /\ handling' = [handling EXCEPT ![c] =
                   [step |-> "write", event |-> e, status |-> StatusOf(e)]]
            /\ UNCHANGED events
    /\ UNCHANGED <<unixTime, subscription, changes, licenseRow, job>>

\* A failed payment says nothing of the period.
PeriodAfter(e) == IF e.kind = "payment_failed" THEN licenseRow.until ELSE e.until

WriteLicence(c) ==
    /\ handling[c] # Ready
    /\ LET e == handling[c].event IN
        /\ licenseRow' = [status |-> handling[c].status, until |-> PeriodAfter(e),
                   last |-> e.created]
        /\ Answered(e)
    /\ handling' = [handling EXCEPT ![c] = Ready]
    /\ UNCHANGED <<unixTime, subscription, changes, job>>

\* The server restarts in the middle of a call.
CallDies(c) ==
    /\ handling[c] # Ready
    /\ handling' = [handling EXCEPT ![c] = Ready]
    /\ UNCHANGED <<unixTime, subscription, changes, events, licenseRow, job>>

-------------------------------------------------------------------------------
(***************************************************************************)
(* expireLapsedLicenses                                                    *)
(***************************************************************************)
\* Mutant of Expirable: what was selected is expired.
ExpirableOnce(now) == licenseRow.status = "ACTIVE"

\* Mutant of Expirable: the last moment is not over.
ExpirableAfter(now) == licenseRow.status = "ACTIVE" /\ licenseRow.until # Never /\ licenseRow.until < now

Expirable(now) == licenseRow.status = "ACTIVE" /\ licenseRow.until # Never /\ licenseRow.until <= now

SelectLapsed ==
    /\ job = Never
    /\ licenseRow.status = "ACTIVE" /\ licenseRow.until # Never /\ licenseRow.until <= unixTime
    /\ job' = unixTime
    /\ UNCHANGED <<unixTime, subscription, changes, events, licenseRow, handling>>

ExpireLapsed ==
    /\ job # Never
    /\ licenseRow' = IF Expirable(job) THEN [licenseRow EXCEPT !.status = "EXPIRED"] ELSE licenseRow
    /\ job' = Never
    /\ UNCHANGED <<unixTime, subscription, changes, events, handling>>

JobDies ==
    /\ job # Never
    /\ job' = Never
    /\ UNCHANGED <<unixTime, subscription, changes, events, licenseRow, handling>>

-------------------------------------------------------------------------------
StripeMoves ==
    TimePasses \/ Renews \/ PaymentFails \/ PaymentRecovers \/ Pauses \/ IsCancelled

LicenceNext ==
    \/ StripeMoves
    \/ Reconciled
    \/ \E e \in events : Completed(e) \/ \E c \in WebhookCalls : ReadLicence(c, e)
    \/ \E c \in WebhookCalls : WriteLicence(c) \/ CallDies(c)
    \/ SelectLapsed \/ ExpireLapsed \/ JobDies

LicenceSpec == LicenceInit /\ [][LicenceNext]_licenceVars

\* The job runs every hour, and a run that dies does not always die.
LicenceFairness == WF_licenceVars(SelectLapsed) /\ SF_licenceVars(ExpireLapsed)
LicenceFairSpec == LicenceSpec /\ LicenceFairness

-------------------------------------------------------------------------------
\* Every variable has its type.
LicenceTypeOK ==
    /\ unixTime \in Times
    /\ subscription \in [status : StripeStatus, until : Dates]
    /\ changes \in 0..MaxChanges
    /\ events \subseteq BillingEvent
    /\ licenseRow \in [status : LicenseStatus, until : Dates \cup {Never}, last : Times \cup {Never}]
    /\ handling \in [WebhookCalls -> Writing \cup {Ready}]
    /\ job \in Times \cup {Never}

\* Nobody loses time that was paid for: a licence is cancelled or expired only
\* with its period over, though a cancellation is decided on when the event is
\* read, the job chooses its licences before it expires them, and a renewal may
\* come between (handleWebhook, expireLapsedLicenses).
PaidTimeIsKept ==
    licenseRow.status \in {"CANCELLED", "EXPIRED"} => licenseRow.until # Never /\ licenseRow.until <= unixTime

\* The expiry job gets to every licence whose period is over: it does not stay
\* ACTIVE past its end when Stripe sends no event.
Overdue == licenseRow.status = "ACTIVE" /\ licenseRow.until # Never /\ licenseRow.until <= unixTime
LapseIsRecorded == Overdue ~> ~Overdue

===============================================================================
