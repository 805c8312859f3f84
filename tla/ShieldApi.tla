------------------------------ MODULE ShieldApi -------------------------------
(***************************************************************************)
(* The API keys of one Shield account and the guard in front of its routes *)
(* (backend/src/shield-api-keys).                                          *)
(*                                                                         *)
(* The guard takes one step per await: it reads the key, the limits and    *)
(* the licence, then the membership, then counts and records the request   *)
(* under a lock of the account.  Its clock is read once, at the start; the *)
(* record is stamped somewhere between that and its insertion.             *)
(*                                                                         *)
(* Simplifications: time passes in ticks, some to a minute and to a month; *)
(* scopes, names, secrets, a key's own expiry and the audit log are left   *)
(* out; whether the account has a licence and the key's creator is still   *)
(* an active member is left open at the point where it is asked.           *)
(***************************************************************************)
EXTENDS Naturals, FiniteSets

CONSTANTS
    ApiKeys,     \* API keys
    ApiCalls,    \* requests guarded at the same time
    Rotators,    \* rotations at the same time
    Limits,      \* limits an administrator may set
    MinuteTicks, \* how far back the sliding minute reaches
    MonthOf,     \* the calendar month of each tick
    MaxTick,     \* bound on the clock
    MaxPerTick,  \* bound on the requests of one tick
    NoKey

ASSUME ShieldAssumption ==
    /\ Limits \subseteq [perMinute : Nat, monthly : Nat]
    /\ MinuteTicks \in Nat \ {0}
    /\ MaxTick \in Nat /\ MaxPerTick \in Nat
    /\ MonthOf \in [0..MaxTick -> Nat]
    /\ \A t, u \in 0..MaxTick : t <= u => MonthOf[t] <= MonthOf[u]
    /\ NoKey \notin ApiKeys

VARIABLES
    tick,     \* now
    key,      \* ShieldApiKeyStatus of each key
    limits,   \* apiRateLimitPerMinute and apiMonthlyQuota
    requests, \* the ShieldApiRequest rows
    guard,    \* each guarded call's place
    rotation  \* each rotation's place

shieldVars == <<tick, key, limits, requests, guard, rotation>>

-------------------------------------------------------------------------------
Ticks == 0..MaxTick
KeyStatus == {"none", "ACTIVE", "REVOKED"}

\* A row of the key's requests of one tick, by its place among them.
RequestRow == [key : ApiKeys, at : Ticks, nth : 1..MaxPerTick]

Outside == [step |-> "outside", key |-> NoKey, now |-> 0, limits |-> [perMinute |-> 0, monthly |-> 0]]
GuardCall == {Outside} \cup [step : {"member", "lock", "record"}, key : ApiKeys,
                             now : Ticks, limits : Limits]

\* How many requests a set of keys has stamped in a set of ticks.
RequestsOf(ks, ts) == Cardinality({row \in requests : row.key \in ks /\ row.at \in ts})

ShieldInit ==
    /\ tick = 0
    /\ key = [k \in ApiKeys |-> "none"]
    /\ limits \in Limits
    /\ requests = {}
    /\ guard = [c \in ApiCalls |-> Outside]
    /\ rotation = [r \in Rotators |-> NoKey]

-------------------------------------------------------------------------------
(***************************************************************************)
(* Key management                                                          *)
(***************************************************************************)
CreateKey(k) ==
    /\ key[k] = "none"
    /\ key' = [key EXCEPT ![k] = "ACTIVE"]
    /\ UNCHANGED <<tick, limits, requests, guard, rotation>>

\* By the owner or by an administrator, whatever the key's status.
RevokeKey(k) ==
    /\ key[k] # "none"
    /\ key' = [key EXCEPT ![k] = "REVOKED"]
    /\ UNCHANGED <<tick, limits, requests, guard, rotation>>

\* A rotation reads an active key, and then revokes it and makes another.
StartRotation(r, k) ==
    /\ rotation[r] = NoKey
    /\ key[k] = "ACTIVE"
    /\ rotation' = [rotation EXCEPT ![r] = k]
    /\ UNCHANGED <<tick, key, limits, requests, guard>>

Rotate(r, new) ==
    /\ rotation[r] # NoKey
    /\ key[new] = "none"
    /\ key' = [key EXCEPT ![rotation[r]] = "REVOKED", ![new] = "ACTIVE"]
    /\ rotation' = [rotation EXCEPT ![r] = NoKey]
    /\ UNCHANGED <<tick, limits, requests, guard>>

UpdateLimits(l) ==
    /\ limits' = l
    /\ UNCHANGED <<tick, key, requests, guard, rotation>>

ClockTicks ==
    /\ tick < MaxTick
    /\ tick' = tick + 1
    /\ UNCHANGED <<key, limits, requests, guard, rotation>>

-------------------------------------------------------------------------------
(***************************************************************************)
(* canActivate                                                             *)
(***************************************************************************)
Proceeds(c, step) == guard' = [guard EXCEPT ![c].step = step]
Leaves(c) == guard' = [guard EXCEPT ![c] = Outside]

\* The key with its account's limits and licence, in one query; a call
\* whose account has no active licence is refused.
ReadKey(c, k) ==
    /\ guard[c] = Outside
    /\ key[k] = "ACTIVE"
    /\ guard' = [guard EXCEPT ![c] =
           [step |-> "member", key |-> k, now |-> tick, limits |-> limits]]
    /\ UNCHANGED <<tick, key, limits, requests, rotation>>

ReadMembership(c) ==
    /\ guard[c].step = "member"
    /\ Proceeds(c, "lock") \/ Leaves(c)
    /\ UNCHANGED <<tick, key, limits, requests, rotation>>

\* Mutant of SlidingMinute: the minute of the wall clock.
CurrentMinute(t) == {u \in Ticks : u \div MinuteTicks >= t \div MinuteTicks}

\* What is stamped since a minute before the call started, or in its month.
SlidingMinute(t) == {u \in Ticks : u + MinuteTicks >= t}
ThisMonth(t) == {u \in Ticks : MonthOf[u] >= MonthOf[t]}

Fits(g) ==
    /\ RequestsOf({g.key}, SlidingMinute(g.now)) < g.limits.perMinute
    /\ RequestsOf(ApiKeys, ThisMonth(g.now)) < g.limits.monthly

\* Mutant of LockIsFree: keys of one account do not wait for each other.
LockOfKeyIsFree(c) ==
    \A d \in ApiCalls : guard[d].step = "record" => guard[d].key # guard[c].key

\* pg_advisory_xact_lock of the account, held until the transaction ends.
LockIsFree(c) == \A d \in ApiCalls : guard[d].step # "record"

\* Nobody else counts or records until the transaction ends.
CountRequests(c) ==
    /\ guard[c].step = "lock"
    /\ LockIsFree(c)
    /\ IF Fits(guard[c]) THEN Proceeds(c, "record") ELSE Leaves(c)
    /\ UNCHANGED <<tick, key, limits, requests, rotation>>

RecordRequest(c) ==
    LET g == guard[c] IN
    /\ g.step = "record"
    /\ \E stamp \in g.now..tick :
        LET before == RequestsOf({g.key}, {stamp}) IN
        /\ before < MaxPerTick
        /\ requests' = requests \cup {[key |-> g.key, at |-> stamp, nth |-> before + 1]}
    /\ Leaves(c)
    /\ UNCHANGED <<tick, key, limits, rotation>>

-------------------------------------------------------------------------------
ShieldNext ==
    \/ \E k \in ApiKeys :
        \/ CreateKey(k) \/ RevokeKey(k)
        \/ \E r \in Rotators : StartRotation(r, k) \/ Rotate(r, k)
        \/ \E c \in ApiCalls : ReadKey(c, k)
    \/ \E l \in Limits \ {limits} : UpdateLimits(l)
    \/ ClockTicks
    \/ \E c \in ApiCalls : ReadMembership(c) \/ CountRequests(c) \/ RecordRequest(c)

ShieldSpec == ShieldInit /\ [][ShieldNext]_shieldVars

-------------------------------------------------------------------------------
\* Every variable has its type.
ShieldTypeOK ==
    /\ tick \in Ticks
    /\ key \in [ApiKeys -> KeyStatus]
    /\ limits \in Limits
    /\ requests \subseteq RequestRow
    /\ guard \in [ApiCalls -> GuardCall]
    /\ rotation \in [Rotators -> ApiKeys \cup {NoKey}]

\* No key gets more requests through in any minute, wherever it starts, than
\* the highest limit allows, though calls wait for the lock with the clock and the
\* limit they began with.
MinuteLimitHolds ==
    \A k \in ApiKeys, t \in Ticks : \E l \in Limits :
        RequestsOf({k}, t..(t + MinuteTicks)) <= l.perMinute

\* The keys of an account together stay within its monthly quota, with parallel
\* calls of several keys, rotations and revocations (the advisory lock's comment).
MonthlyQuotaHolds ==
    \A t \in Ticks : \E l \in Limits :
        RequestsOf(ApiKeys, {u \in Ticks : MonthOf[u] = MonthOf[t]}) <= l.monthly
===============================================================================
