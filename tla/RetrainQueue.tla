------------------------------ MODULE RetrainQueue ------------------------------
(***************************************************************************)
(* The queue of the AI service that POST /retrain writes to: an            *)
(* append-only file read and extended under a lock file.  Threads of the   *)
(* service and the drain of scripts/retrain.py call it at the same time; a *)
(* process may die with the lock file in place.  A caller that waits too   *)
(* long goes on without the lock, and a lock file that is old enough is    *)
(* removed by whoever finds it.                                            *)
(*                                                                         *)
(* Time is counted in acquire timeouts (5 s); the few milliseconds a       *)
(* caller spends inside the lock take none.                                *)
(***************************************************************************)
EXTENDS Integers, FiniteSets, FiniteSetsExt

CONSTANTS
    Drainers,      \* threads and processes that use the queue
    Demands,       \* what a job is asked for: a trigger and a dataset version
    MaxQueuedJobs, \* MAX_QUEUED_JOBS
    StaleAfter,    \* stale_after, in acquire timeouts
    MaxCalls,      \* bound: calls in all, and so jobs
    LatestTime,    \* bound: the clock
    MaxDeaths,     \* bound: processes that die
    NoLock, NoDemand

ASSUME RetrainQueueAssumption ==
    /\ MaxQueuedJobs \in Nat \ {0} /\ StaleAfter \in Nat \ {0}
    /\ MaxCalls \in Nat /\ LatestTime \in Nat /\ MaxDeaths \in Nat
    /\ IsFiniteSet(Drainers) /\ NoLock \notin [by : Drainers, since : Nat]
    /\ NoDemand \notin Demands

VARIABLES
    jobs,     \* the file folded by job: what each job asks for, and its status
    lockFile, \* who created it, and when; or NoLock
    visit,    \* each caller's call
    clock,
    visits,   \* calls so far
    deaths,
    gaveUp    \* history: somebody went on without the lock

queueVars == <<jobs, lockFile, visit, clock, visits, deaths, gaveUp>>

JobIds == 1..MaxCalls

QueueRow == [asks : Demands \cup {NoDemand}, status : {"unwritten", "queued", "completed"}]
Unwritten == [asks |-> NoDemand, status |-> "unwritten"]

QueuedJobs == {j \in JobIds : jobs[j].status = "queued"}

Visit == [at : {"outside", "lock", "clear", "inside", "append", "leave"},
          what : {"enqueue", "complete", "drain"}, asks : Demands \cup {NoDemand},
          todo : SUBSET JobIds, owns : BOOLEAN, until : 0..LatestTime]
Away == [at |-> "outside", what |-> "enqueue", asks |-> NoDemand,
            todo |-> {}, owns |-> FALSE, until |-> 0]

QueueInit ==
    /\ jobs = [j \in JobIds |-> Unwritten]
    /\ lockFile = NoLock
    /\ visit = [d \in Drainers |-> Away]
    /\ clock = 0 /\ visits = 0 /\ deaths = 0
    /\ gaveUp = FALSE

\* A call arrives: enqueue a job, complete one by its id, or complete every job
\* of a dataset version; it may wait for the lock for one timeout.
Arrives(d, what, demand, todo) ==
    /\ visit[d].at = "outside"
    /\ visits < MaxCalls /\ clock < LatestTime
    /\ visits' = visits + 1
    /\ visit' = [visit EXCEPT ![d] =
           [at |-> "lock", what |-> what, asks |-> demand,
            todo |-> todo, owns |-> FALSE, until |-> clock + 1]]
    /\ UNCHANGED <<jobs, lockFile, clock, deaths, gaveUp>>

MovesTo(d, from, to) ==
    /\ visit[d].at = from
    /\ visit' = [visit EXCEPT ![d].at = to]

\* Mutant of CreatesLock: the lock file is opened, whether or not there is one.
OpensLock(d) ==
    /\ visit[d].at = "lock"
    /\ lockFile' = [by |-> d, since |-> clock]
    /\ visit' = [visit EXCEPT ![d].at = "inside", ![d].owns = TRUE]
    /\ UNCHANGED <<jobs, clock, visits, deaths, gaveUp>>

\* O_CREAT | O_EXCL: the file is created only where there is none.
CreatesLock(d) ==
    /\ visit[d].at = "lock"
    /\ lockFile = NoLock
    /\ lockFile' = [by |-> d, since |-> clock]
    /\ visit' = [visit EXCEPT ![d].at = "inside", ![d].owns = TRUE]
    /\ UNCHANGED <<jobs, clock, visits, deaths, gaveUp>>

\* Mutant of RetriesOrGivesUp: a caller never gives up.
RetriesForEver(d, from) ==
    /\ MovesTo(d, from, "lock")
    /\ gaveUp' = gaveUp

\* Before its deadline a caller tries again; after it, it goes on without a lock.
RetriesOrGivesUp(d, from) ==
    IF clock >= visit[d].until
    THEN MovesTo(d, from, "inside") /\ gaveUp' = TRUE
    ELSE MovesTo(d, from, "lock") /\ gaveUp' = gaveUp

\* The lock file is older than stale_after.
IsStale == lockFile # NoLock /\ clock - lockFile.since > StaleAfter

\* There is a lock file; _clear_if_stale reads its age, and only later removes it.
FindsLock(d) ==
    /\ lockFile # NoLock
    /\ IF IsStale THEN MovesTo(d, "lock", "clear") /\ gaveUp' = gaveUp
       ELSE RetriesOrGivesUp(d, "lock")
    /\ UNCHANGED <<jobs, lockFile, clock, visits, deaths>>

\* The lock file is removed, whoever created it by now.
ClearsLock(d) ==
    /\ RetriesOrGivesUp(d, "clear")
    /\ lockFile' = NoLock
    /\ UNCHANGED <<jobs, clock, visits, deaths>>

AskedAlready(d) == \E j \in QueuedJobs : jobs[j].asks = visit[d].asks

\* enqueue reads the file: a queued job of the same demand is the answer, and a
\* full queue refuses.
ReadsForNewJob(d) ==
    /\ visit[d].what = "enqueue"
    /\ IF AskedAlready(d) \/ Cardinality(QueuedJobs) >= MaxQueuedJobs
       THEN MovesTo(d, "inside", "leave")
       ELSE MovesTo(d, "inside", "append")
    /\ UNCHANGED <<jobs, lockFile, clock, visits, deaths, gaveUp>>

\* complete and complete_all_queued read which of their jobs are queued.
ReadsToComplete(d) ==
    /\ visit[d].what \in {"complete", "drain"}
    /\ visit[d].at = "inside"
    /\ visit' = [visit EXCEPT
           ![d].at = "append",
           ![d].todo = IF visit[d].what = "complete" THEN @ \cap QueuedJobs
                       ELSE {j \in QueuedJobs : jobs[j].asks = visit[d].asks}]
    /\ UNCHANGED <<jobs, lockFile, clock, visits, deaths, gaveUp>>

\* enqueue appends its job.
AppendsJob(d) ==
    /\ visit[d].what = "enqueue"
    /\ MovesTo(d, "append", "leave")
    /\ LET new == Min({j \in JobIds : jobs[j] = Unwritten})
       IN  jobs' = [jobs EXCEPT ![new] = [asks |-> visit[d].asks, status |-> "queued"]]
    /\ UNCHANGED <<lockFile, clock, visits, deaths, gaveUp>>

\* A completed row is appended for each job, one at a time.
AppendsCompletion(d) ==
    /\ visit[d].what \in {"complete", "drain"} /\ visit[d].at = "append"
    /\ IF visit[d].todo = {} THEN MovesTo(d, "append", "leave") /\ jobs' = jobs
       ELSE LET j == Min(visit[d].todo)
            IN  /\ jobs' = [jobs EXCEPT ![j].status = "completed"]
                /\ visit' = [visit EXCEPT ![d].todo = @ \ {j}]
    /\ UNCHANGED <<lockFile, clock, visits, deaths, gaveUp>>

\* __exit__: who created a lock file removes the one that is there.
LeavesLock(d) ==
    /\ visit[d].at = "leave"
    /\ visit' = [visit EXCEPT ![d] = Away]
    /\ lockFile' = IF visit[d].owns THEN NoLock ELSE lockFile
    /\ UNCHANGED <<jobs, clock, visits, deaths, gaveUp>>

\* The caller's process dies; its lock file stays.
Dies(d) ==
    /\ visit[d].at # "outside" /\ deaths < MaxDeaths
    /\ deaths' = deaths + 1
    /\ visit' = [visit EXCEPT ![d] = Away]
    /\ UNCHANGED <<jobs, lockFile, clock, visits, gaveUp>>

\* Time passes, but not for a caller inside; it is told while there is a caller or
\* a lock file, whose age it is.
LockAges ==
    /\ clock < LatestTime
    /\ lockFile # NoLock \/ \E d \in Drainers : visit[d].at # "outside"
    /\ \A d \in Drainers : visit[d].at \notin {"inside", "append", "leave"}
    /\ clock' = clock + 1
    /\ UNCHANGED <<jobs, lockFile, visit, visits, deaths, gaveUp>>

VisitStep(d) ==
    \/ CreatesLock(d) \/ FindsLock(d) \/ ClearsLock(d)
    \/ ReadsForNewJob(d) \/ ReadsToComplete(d)
    \/ AppendsJob(d) \/ AppendsCompletion(d) \/ LeavesLock(d)

QueueNext ==
    \/ \E d \in Drainers :
          \/ \E q \in Demands : Arrives(d, "enqueue", q, {}) \/ Arrives(d, "drain", q, {})
          \/ \E j \in QueuedJobs : Arrives(d, "complete", NoDemand, {j})
          \/ VisitStep(d) \/ Dies(d)
    \/ LockAges

\* A running caller's next step, and time, come.
QueueFairness ==
    /\ WF_queueVars(LockAges)
    /\ \A d \in Drainers : WF_queueVars(VisitStep(d))

QueueSpec == QueueInit /\ [][QueueNext]_queueVars /\ QueueFairness
--------------------------------------------------------------------------------
QueueTypeOK ==
    /\ jobs \in [JobIds -> QueueRow]
    /\ lockFile = NoLock \/ lockFile \in [by : Drainers, since : 0..clock]
    /\ visit \in [Drainers -> Visit]
    /\ clock \in 0..LatestTime /\ visits \in 0..MaxCalls /\ deaths \in 0..MaxDeaths
    /\ gaveUp \in BOOLEAN

\* As long as no process died and no caller lost patience, overlapping calls never
\* queue the same demand twice and the queue stays within its limit; otherwise it
\* outgrows the limit only by callers that were inside at the same time.
QueuedOnce ==
    /\ (deaths = 0 /\ ~gaveUp) =>
          /\ \A i, j \in QueuedJobs : jobs[i].asks = jobs[j].asks => i = j
          /\ Cardinality(QueuedJobs) <= MaxQueuedJobs
    /\ Cardinality(QueuedJobs) < MaxQueuedJobs + Cardinality(Drainers)

\* Every call comes to its end, whoever died with the lock file in place.
EveryVisitEnds ==
    \A d \in Drainers : visit[d].at # "outside" ~> visit[d].at = "outside"
=================================================================================
