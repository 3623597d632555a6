------------------------------ MODULE CronLease ------------------------------
(***************************************************************************)
(* The serverless job runner: run_due_jobs of app/workers/scheduler.py,    *)
(* driven by GET /cron/tick.  Any number of ticks overlap; each walks the  *)
(* jobs in order, reads the clock, tries to take the job's lease with one  *)
(* conditional upsert on scheduler_runs, runs the job, and releases the    *)
(* lease with one conditional update.  A tick can die at any point.        *)
(*                                                                         *)
(* Times are in abstract units of one clock shared by all instances.       *)
(***************************************************************************)
EXTENDS Integers

CONSTANTS
  NJobs,    \* number of jobs _tick_jobs returns (2 with RAG enabled)
  Every,    \* [Job -> the job's minimum interval]
  Lease,    \* _TICK_LEASE
  MaxTime,  \* bound on the clock
  Tick,     \* the requests to /cron/tick that can be in flight at once
  Token,    \* the lease tokens: a set of naturals, larger than Tick and Job need
  None      \* an absent field of a scheduler_runs document

Job  == 1..NJobs
Time == 0..MaxTime

\* The intervals and the lease are positive, None is no time and no token, and
\* tokens are naturals.
ASSUME CronAssumption ==
  /\ NJobs \in Nat \ {0} /\ MaxTime \in Nat
  /\ Every \in [Job -> Nat \ {0}]
  /\ Lease \in Nat \ {0}
  /\ Token \subseteq Nat
  /\ None \notin Int

VARIABLES
  clock,       \* real time
  \* the scheduler_runs collection, one document per job
  lastRunAt, leaseUntil, leaseToken,
  \* the local state of each tick
  pc,          \* "idle", "read" (before utcnow), "acquire", "run"
  pos,         \* the job its loop is at
  now,         \* its local now
  token        \* its local token, while it runs a job

store == <<lastRunAt, leaseUntil, leaseToken>>
local == <<pc, pos, now, token>>
vars  == <<clock, store, local>>

TypeOK ==
  /\ clock \in Time
  /\ lastRunAt \in [Job -> Time \cup {None}]
  /\ leaseUntil \in [Job -> Int \cup {None}]
  /\ leaseToken \in [Job -> Token \cup {None}]
  /\ pc \in [Tick -> {"idle", "read", "acquire", "run"}]
  /\ pos \in [Tick -> Job]
  /\ now \in [Tick -> Time]
  /\ token \in [Tick -> Token \cup {None}]

Init ==
  /\ clock = 0
  /\ lastRunAt = [j \in Job |-> None]
  /\ leaseUntil = [j \in Job |-> None]
  /\ leaseToken = [j \in Job |-> None]
  /\ pc = [t \in Tick |-> "idle"]
  /\ pos = [t \in Tick |-> 1]
  /\ now = [t \in Tick |-> 0]
  /\ token = [t \in Tick |-> None]

Running(t, j) == pc[t] = "run" /\ pos[t] = j

\* Tokens that a document or a running tick still carries.
InUse == {leaseToken[j] : j \in Job} \cup {token[t] : t \in Tick}

\* uuid4: a token nobody carries.  Which one is immaterial: the least stands for
\* them all.
Fresh(k) == k \notin InUse /\ \A m \in Token : m < k => m \in InUse

\* Mistakes a change of the filter could make: a due time one unit early, no
\* lease clause, a lease clause that forgets expiry.
DueEarly(j, n)      == lastRunAt[j] = None \/ lastRunAt[j] <= n + 1 - Every[j]
FreeUnchecked(j, n) == lastRunAt[j] = None \/ lastRunAt[j] <= n
FreeIfAbsent(j, n)  == leaseUntil[j] = None \/ leaseUntil[j] + n < 0

\* The two clauses of the find_one_and_update filter, at the tick's own now.
Due(j, n)  == lastRunAt[j] = None \/ lastRunAt[j] <= n - Every[j]
Free(j, n) == leaseUntil[j] = None \/ leaseUntil[j] <= n

\* A loop that forgets that the list of jobs ends.
AdvanceForever(t) ==
  /\ token' = [token EXCEPT ![t] = None]
  /\ pc' = [pc EXCEPT ![t] = "read"]
  /\ pos' = [pos EXCEPT ![t] = @ + 1]
  /\ now' = [now EXCEPT ![t] = 0]

\* The tick's loop goes on to the job after j, or the request is answered.
Advance(t) ==
  /\ token' = [token EXCEPT ![t] = None]
  /\ pc' = [pc EXCEPT ![t] = IF pos[t] < NJobs THEN "read" ELSE "idle"]
  /\ pos' = [pos EXCEPT ![t] = IF pos[t] < NJobs THEN pos[t] + 1 ELSE 1]
  /\ now' = [now EXCEPT ![t] = 0]

\* The tick is gone: frozen, timed out, or ended by an exception of the store.
Gone(t) ==
  /\ pc' = [pc EXCEPT ![t] = "idle"]
  /\ pos' = [pos EXCEPT ![t] = 1]
  /\ now' = [now EXCEPT ![t] = 0]
  /\ token' = [token EXCEPT ![t] = None]

-----------------------------------------------------------------------------

PassTime ==
  /\ clock < MaxTime
  /\ clock' = clock + 1
  /\ UNCHANGED <<store, local>>

\* GET /cron/tick reaches run_due_jobs.
Begin(t) ==
  /\ pc[t] = "idle"
  /\ pc' = [pc EXCEPT ![t] = "read"]
  /\ UNCHANGED <<clock, store, pos, now, token>>

\* now = datetime.now(UTC): read before the upsert, so possibly old when it runs.
ReadClock(t, j) ==
  /\ pc[t] = "read" /\ pos[t] = j
  /\ now' = [now EXCEPT ![t] = clock]
  /\ pc' = [pc EXCEPT ![t] = "acquire"]
  /\ UNCHANGED <<clock, store, pos, token>>

\* The conditional upsert matched (or inserted the missing document).
Grant(t, j, k) ==
  /\ leaseUntil' = [leaseUntil EXCEPT ![j] = now[t] + Lease]
  /\ leaseToken' = [leaseToken EXCEPT ![j] = k]
  /\ token' = [token EXCEPT ![t] = k]
  /\ pc' = [pc EXCEPT ![t] = "run"]
  /\ UNCHANGED <<clock, lastRunAt, pos, now>>

\* The document exists and is not due or is leased: the insert of the upsert
\* collides on _id, DuplicateKeyError, and the job is skipped.
Skip(t) == Advance(t) /\ UNCHANGED <<clock, store>>

Acquire(t, j) ==
  /\ pc[t] = "acquire" /\ pos[t] = j
  /\ IF Due(j, now[t]) /\ Free(j, now[t])
     THEN \E k \in Token : Fresh(k) /\ Grant(t, j, k)
     ELSE Skip(t)

\* A release that filters on _id alone.
RecordAnyRun(t, j) ==
  /\ lastRunAt' = [lastRunAt EXCEPT ![j] = now[t]]
  /\ leaseUntil' = [leaseUntil EXCEPT ![j] = None]
  /\ leaseToken' = [leaseToken EXCEPT ![j] = None]

\* The update_one of the finally block: it matches only the lease taken here.
RecordRun(t, j) ==
  IF leaseToken[j] = token[t]
  THEN /\ lastRunAt' = [lastRunAt EXCEPT ![j] = now[t]]
       /\ leaseUntil' = [leaseUntil EXCEPT ![j] = None]
       /\ leaseToken' = [leaseToken EXCEPT ![j] = None]
  ELSE UNCHANGED store

\* The job returned or raised: both are followed by the release.
Release(t, j) ==
  /\ Running(t, j)
  /\ RecordRun(t, j)
  /\ Advance(t)
  /\ UNCHANGED clock

\* The job's task is cancelled (server shutdown): the finally block still runs,
\* the jobs after it do not.
Cancel(t, j) ==
  /\ Running(t, j)
  /\ RecordRun(t, j)
  /\ Gone(t)
  /\ UNCHANGED clock

\* The instance dies, or a call of the store raises something else.
Die(t) ==
  /\ pc[t] # "idle"
  /\ Gone(t)
  /\ UNCHANGED <<clock, store>>

JobStep(t, j) == ReadClock(t, j) \/ Acquire(t, j) \/ Release(t, j) \/ Cancel(t, j)

Next ==
  \/ PassTime
  \/ \E t \in Tick : Begin(t) \/ Die(t) \/ \E j \in Job : JobStep(t, j)

\* Time passes; the uptime monitor keeps calling; a job that runs ends or is
\* killed by the platform's time limit; and ticks that keep reaching the same
\* line are not all killed there.
Fairness ==
  /\ WF_vars(PassTime)
  /\ WF_vars(\E t \in Tick : Begin(t))
  /\ \A j \in Job : SF_vars(\E t \in Tick : ReadClock(t, j))
  /\ \A j \in Job : SF_vars(\E t \in Tick : Acquire(t, j))
  /\ \A t \in Tick :
       WF_vars(pc[t] = "run" /\ (Die(t) \/ \E j \in Job : Release(t, j) \/ Cancel(t, j)))

Spec == Init /\ [][Next]_vars
FairSpec == Spec /\ Fairness

-----------------------------------------------------------------------------

\* Two executions of one job that are under way at the same time started at
\* least a lease apart: an overlap needs the older lease to have expired.
OverlapOnlyAfterExpiry ==
  \A t, u \in Tick, j \in Job :
    Running(t, j) /\ Running(u, j) /\ t # u =>
      now[t] + Lease <= now[u] \/ now[u] + Lease <= now[t]

\* While the lease that a running tick took has not expired, the document
\* still names that tick: nobody has taken the job over or released it.
UnexpiredLeaseIsHeld ==
  \A t \in Tick, j \in Job :
    Running(t, j) /\ clock < now[t] + Lease =>
      leaseToken[j] = token[t] /\ leaseUntil[j] = now[t] + Lease

\* Recorded runs of a job move forward by at least its interval, whichever
\* ticks record them and however late they finish.
RunsAreSpaced ==
  [][\A j \in Job : lastRunAt'[j] # lastRunAt[j] =>
       lastRunAt[j] = None \/ lastRunAt'[j] >= lastRunAt[j] + Every[j]]_vars

\* No tick, dead or stuck, blocks a job: one that falls due within the horizon,
\* with a lease that expires within it, is run (again).
DueWithinHorizon(j) ==
  /\ lastRunAt[j] = None \/ lastRunAt[j] + Every[j] <= MaxTime
  /\ leaseUntil[j] = None \/ leaseUntil[j] <= MaxTime
JobIsNeverBlocked ==
  \A j \in Job : DueWithinHorizon(j) ~> \E t \in Tick : Running(t, j)

\* The lease implements the promise: an execution is a running tick, known by
\* its start time, and the newest one is the one the lease was written by.
Cadence == INSTANCE JobCadence WITH
  recorded <- lastRunAt,
  granted  <- [j \in Job |-> IF leaseUntil[j] = None THEN None ELSE leaseUntil[j] - Lease],
  active   <- [j \in Job |-> {now[t] : t \in {u \in Tick : Running(u, j)}}]

KeepsCadence == Cadence!Spec
=============================================================================
