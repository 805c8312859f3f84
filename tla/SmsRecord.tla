------------------------------ MODULE SmsRecord -------------------------------
(***************************************************************************)
(* What the server keeps about one SMS as far as verification is           *)
(* concerned: the message row with its trusted flag, the bucket of its     *)
(* classification, and its Alert rows counted by status.  The blocked flag *)
(* is the BlockedNumber row of the message's sender for the same user.     *)
(*                                                                         *)
(* The model's buckets are safe, unknown, spam and blocked; every decision *)
(* in the code asks only whether the bucket is "blocked", so the other     *)
(* three are one value.                                                    *)
(***************************************************************************)
EXTENDS Naturals

Buckets == {"blocked", "other"}

SmsRow == [life : {"new", "stored", "purged"},  \* of the SmsMessage row
           trusted : BOOLEAN,  \* its classification is the server model's
           bucket : Buckets \cup {"none"},
           blocked : BOOLEAN,  \* the user has blocked its sender
           pending : Nat, silenced : Nat, reported : Nat]
                               \* Alert rows: Pending, Blocked, Reported

AlertRows(row) == row.pending + row.silenced + row.reported

\* A snapshot of the Alert rows, as much of it as the handlers look at.
AlertsSeen(row) ==
    IF row.pending > 0 THEN "pending"
    ELSE IF row.silenced + row.reported > 0 THEN "acted" ELSE "none"

\* The alert rows after an authoritative verdict: `alarm` is whether it asks
\* for an alert, `seen` the snapshot the handler decides from, `blocked`
\* whether it takes the sender to be blocked.
PendingAfter(row, seen, alarm, blocked) ==
    IF alarm
    THEN IF ~blocked /\ seen = "none" THEN row.pending + 1 ELSE row.pending
    ELSE IF seen = "pending" THEN 0 ELSE row.pending

\* The worker's result commit on the message, its classification and alerts.
Judged(row, seen, b) ==
    [row EXCEPT !.trusted = TRUE, !.bucket = b,
                !.pending = PendingAfter(row, seen, b = "blocked", row.blocked)]

\* The retention purge removes the message with everything that hangs off it.
Purged(row) ==
    [row EXCEPT !.life = "purged", !.trusted = FALSE, !.bucket = "none",
                !.pending = 0, !.silenced = 0, !.reported = 0]

===============================================================================
