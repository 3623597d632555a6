--------------------------- MODULE CronLeaseProofs ---------------------------
(***************************************************************************)
(* Proofs about CronLease, for any number of jobs, ticks and tokens, any   *)
(* intervals and any lease length.  The inductive invariant says how the   *)
(* scheduler_runs documents relate to the ticks that run: a tick either    *)
(* still holds the lease it took, or whoever took over started (and, if    *)
(* the lease is gone, recorded itself) at least a lease later.             *)
(***************************************************************************)
EXTENDS CronLease, TLAPS

\* A tick carries a token exactly while it runs a job, no two ticks carry the
\* same one, and a time a tick has read is in the past.
TicksOK ==
  /\ \A t \in Tick : pc[t] # "run" <=> token[t] = None
  /\ \A t, u \in Tick : token[t] = token[u] /\ token[t] # None => t = u
  /\ \A t \in Tick : now[t] <= clock

\* A lease has both its fields, was granted in the past, and at least an
\* interval after the last recorded run.
DocumentsOK ==
  \A j \in Job :
    /\ leaseToken[j] = None <=> leaseUntil[j] = None
    /\ leaseUntil[j] # None => leaseUntil[j] <= clock + Lease
    /\ lastRunAt[j] # None => lastRunAt[j] <= clock
    /\ leaseUntil[j] # None /\ lastRunAt[j] # None =>
         lastRunAt[j] + Every[j] <= leaseUntil[j] - Lease

\* A running tick holds the lease it wrote ...
HoldsOwn(t, j) == leaseToken[j] = token[t] /\ leaseUntil[j] = now[t] + Lease

\* ... or its execution was overtaken by one that started a lease later.
Overtaken(t, j) ==
  /\ leaseToken[j] # token[t]
  /\ IF leaseUntil[j] = None
     THEN lastRunAt[j] # None /\ now[t] + Lease <= lastRunAt[j]
     ELSE now[t] + Lease <= leaseUntil[j] - Lease

HoldersOK ==
  \A t \in Tick, j \in Job : Running(t, j) => HoldsOwn(t, j) \/ Overtaken(t, j)

IInv == TypeOK /\ TicksOK /\ DocumentsOK /\ HoldersOK /\ OverlapOnlyAfterExpiry

-----------------------------------------------------------------------------

LEMMA InitIInv == Init => IInv
BY CronAssumption DEF Init, IInv, TypeOK, TicksOK, DocumentsOK, HoldersOK,
   OverlapOnlyAfterExpiry, Running, Job, Time

\* Time passing, a request arriving and a tick reading the clock.
LEMMA QuietIInv ==
  ASSUME IInv,
         \/ PassTime
         \/ \E t \in Tick : Begin(t) \/ \E j \in Job : ReadClock(t, j)
  PROVE  IInv'
<1> USE CronAssumption DEF IInv, TypeOK, Job, Time, store, local
<1>1. CASE PassTime
  BY <1>1 DEF PassTime, TicksOK, DocumentsOK, HoldersOK, HoldsOwn, Overtaken,
     OverlapOnlyAfterExpiry, Running
<1>2. ASSUME NEW t \in Tick, Begin(t) PROVE IInv'
  BY <1>2 DEF Begin, TicksOK, DocumentsOK, HoldersOK, HoldsOwn, Overtaken,
     OverlapOnlyAfterExpiry, Running
<1>3. ASSUME NEW t \in Tick, NEW j \in Job, ReadClock(t, j) PROVE IInv'
  BY <1>3 DEF ReadClock, TicksOK, DocumentsOK, HoldersOK, HoldsOwn, Overtaken,
     OverlapOnlyAfterExpiry, Running
<1>. QED
  BY <1>1, <1>2, <1>3

\* A tick that leaves a job without touching the documents.
LEMMA LeaveLocal ==
  ASSUME TypeOK, NEW t \in Tick, Advance(t) \/ Gone(t)
  PROVE  /\ pc' \in [Tick -> {"idle", "read", "acquire", "run"}]
         /\ pos' \in [Tick -> Job]
         /\ now' \in [Tick -> Time]
         /\ token' \in [Tick -> Token \cup {None}]
         /\ pc'[t] # "run" /\ token'[t] = None /\ now'[t] = 0
         /\ \A u \in Tick \ {t} : /\ pc'[u] = pc[u] /\ token'[u] = token[u]
                                  /\ now'[u] = now[u] /\ pos'[u] = pos[u]
<1> USE CronAssumption DEF TypeOK, Job, Time
<1>1. CASE Gone(t)
  BY <1>1 DEF Gone
<1>2. CASE Advance(t)
  <2>1. (IF pos[t] < NJobs THEN pos[t] + 1 ELSE 1) \in 1..NJobs
    OBVIOUS
  <2>. QED
    BY <1>2, <2>1 DEF Advance
<1>. QED
  BY <1>1, <1>2

LEMMA LeaveIInv ==
  ASSUME IInv, NEW t \in Tick, Advance(t) \/ Gone(t), UNCHANGED <<clock, store>>
  PROVE  IInv'
<1> USE CronAssumption DEF IInv
<1>1. /\ pc' \in [Tick -> {"idle", "read", "acquire", "run"}]
      /\ pos' \in [Tick -> Job]
      /\ now' \in [Tick -> Time]
      /\ token' \in [Tick -> Token \cup {None}]
      /\ pc'[t] # "run" /\ token'[t] = None /\ now'[t] = 0
      /\ \A u \in Tick \ {t} : /\ pc'[u] = pc[u] /\ token'[u] = token[u]
                               /\ now'[u] = now[u] /\ pos'[u] = pos[u]
  BY LeaveLocal
<1>2. TypeOK'
  BY <1>1 DEF TypeOK, store
<1>3. TicksOK'
  <2>1. \A u \in Tick : now'[u] <= clock'
    BY <1>1 DEF TicksOK, TypeOK, Time
  <2>. QED
    BY <1>1, <2>1 DEF TicksOK
<1>4. DocumentsOK'
  BY DEF DocumentsOK, store
<1>5. HoldersOK'
  <2> SUFFICES ASSUME NEW u \in Tick, NEW i \in Job, Running(u, i)'
               PROVE  HoldsOwn(u, i)' \/ Overtaken(u, i)'
    BY DEF HoldersOK
  <2>1. u # t /\ Running(u, i)
    BY <1>1 DEF Running
  <2>2. HoldsOwn(u, i) \/ Overtaken(u, i)
    BY <2>1 DEF HoldersOK
  <2>. QED
    BY <2>1, <2>2, <1>1 DEF HoldsOwn, Overtaken, store
<1>6. OverlapOnlyAfterExpiry'
  <2> SUFFICES ASSUME NEW u \in Tick, NEW v \in Tick, NEW i \in Job,
                      Running(u, i)', Running(v, i)', u # v
               PROVE  now'[u] + Lease <= now'[v] \/ now'[v] + Lease <= now'[u]
    BY DEF OverlapOnlyAfterExpiry
  <2>1. u # t /\ v # t /\ Running(u, i) /\ Running(v, i)
    BY <1>1 DEF Running
  <2>. QED
    BY <2>1, <1>1 DEF OverlapOnlyAfterExpiry
<1>. QED
  BY <1>2, <1>3, <1>4, <1>5, <1>6

\* A tick that was granted a lease started at least a lease after every other
\* execution of the job that is still under way.
LEMMA GrantIsSpaced ==
  ASSUME IInv, NEW t \in Tick, NEW u \in Tick, NEW j \in Job,
         Due(j, now[t]), Free(j, now[t]), Running(u, j)
  PROVE  now[u] + Lease <= now[t]
<1>1. HoldsOwn(u, j) \/ Overtaken(u, j)
  BY DEF IInv, HoldersOK
<1>2. /\ now[t] \in Int /\ now[u] \in Int /\ Every[j] \in Nat /\ Lease \in Nat
      /\ lastRunAt[j] \in Int \cup {None} /\ leaseUntil[j] \in Int \cup {None}
      /\ None \notin Int
  BY CronAssumption DEF IInv, TypeOK, Time
<1>. QED
  <2>1. CASE HoldsOwn(u, j)
    BY <2>1, <1>2 DEF HoldsOwn, Free
  <2>2. CASE Overtaken(u, j) /\ leaseUntil[j] = None
    BY <2>2, <1>2 DEF Overtaken, Due
  <2>3. CASE Overtaken(u, j) /\ leaseUntil[j] # None
    BY <2>3, <1>2 DEF Overtaken, Free
  <2>. QED
    BY <1>1, <2>1, <2>2, <2>3

LEMMA GrantIInv ==
  ASSUME IInv, NEW t \in Tick, NEW j \in Job, NEW k \in Token,
         pc[t] = "acquire", pos[t] = j, Due(j, now[t]), Free(j, now[t]),
         Fresh(k), Grant(t, j, k)
  PROVE  IInv'
<1> USE CronAssumption DEF IInv, TypeOK, Job, Time, store, Grant
<1>1. TypeOK'
  OBVIOUS
<1>2. k # None /\ (\A i \in Job : leaseToken[i] # k) /\ (\A u \in Tick : token[u] # k)
  <2>1. k \notin InUse
    BY DEF Fresh
  <2>. QED
    BY <2>1 DEF InUse
<1>3. /\ \A u \in Tick \ {t} : token'[u] = token[u] /\ pc'[u] = pc[u]
      /\ token'[t] = k /\ pc'[t] = "run"
      /\ \A i \in Job \ {j} : leaseToken'[i] = leaseToken[i] /\ leaseUntil'[i] = leaseUntil[i]
      /\ leaseToken'[j] = k /\ leaseUntil'[j] = now[t] + Lease
      /\ pos' = pos /\ now' = now /\ clock' = clock /\ lastRunAt' = lastRunAt
  OBVIOUS
<1>4. TicksOK'
  BY <1>2, <1>3 DEF TicksOK
<1>5. DocumentsOK'
  <2> SUFFICES ASSUME NEW i \in Job
               PROVE  /\ leaseToken'[i] = None <=> leaseUntil'[i] = None
                      /\ leaseUntil'[i] # None => leaseUntil'[i] <= clock + Lease
                      /\ lastRunAt[i] # None => lastRunAt[i] <= clock
                      /\ leaseUntil'[i] # None /\ lastRunAt[i] # None =>
                           lastRunAt[i] + Every[i] <= leaseUntil'[i] - Lease
    BY <1>3 DEF DocumentsOK
  <2>1. CASE i # j
    BY <2>1, <1>3 DEF DocumentsOK
  <2>2. CASE i = j
    BY <2>2, <1>2, <1>3 DEF DocumentsOK, TicksOK, Due
  <2>. QED
    BY <2>1, <2>2
<1>6. HoldersOK'
  <2> SUFFICES ASSUME NEW u \in Tick, NEW i \in Job, Running(u, i)'
               PROVE  HoldsOwn(u, i)' \/ Overtaken(u, i)'
    BY DEF HoldersOK
  <2>1. CASE u = t
    BY <2>1, <1>3 DEF Running, HoldsOwn
  <2>2. CASE u # t /\ i = j
    <3>1. Running(u, j)
      BY <2>2, <1>3 DEF Running
    <3>2. now[u] + Lease <= now[t]
      BY <3>1, GrantIsSpaced
    <3>. QED
      BY <2>2, <3>2, <1>2, <1>3 DEF Overtaken
  <2>3. CASE u # t /\ i # j
    BY <2>3, <1>3 DEF HoldersOK, HoldsOwn, Overtaken, Running
  <2>. QED
    BY <2>1, <2>2, <2>3
<1>7. OverlapOnlyAfterExpiry'
  <2> SUFFICES ASSUME NEW u \in Tick, NEW v \in Tick, NEW i \in Job,
                      Running(u, i)', Running(v, i)', u # v
               PROVE  now[u] + Lease <= now[v] \/ now[v] + Lease <= now[u]
    BY <1>3 DEF OverlapOnlyAfterExpiry
  <2>1. CASE u # t /\ v # t
    BY <2>1, <1>3 DEF OverlapOnlyAfterExpiry, Running
  <2>2. CASE u = t
    BY <2>2, <1>3, GrantIsSpaced DEF Running
  <2>3. CASE v = t
    BY <2>3, <1>3, GrantIsSpaced DEF Running
  <2>. QED
    BY <2>1, <2>2, <2>3
<1>. QED
  BY <1>1, <1>4, <1>5, <1>6, <1>7

LEMMA EndIInv ==
  ASSUME IInv, NEW t \in Tick, NEW j \in Job, Release(t, j) \/ Cancel(t, j)
  PROVE  IInv'
<1> USE CronAssumption DEF IInv, TypeOK, Job, Time, store
<1>1. CASE leaseToken[j] # token[t]
  BY <1>1, LeaveIInv DEF Release, Cancel, RecordRun
<1>2. CASE leaseToken[j] = token[t]
  <2>0. /\ Running(t, j) /\ clock' = clock /\ (Advance(t) \/ Gone(t))
        /\ lastRunAt' = [lastRunAt EXCEPT ![j] = now[t]]
        /\ leaseUntil' = [leaseUntil EXCEPT ![j] = None]
        /\ leaseToken' = [leaseToken EXCEPT ![j] = None]
    BY <1>2 DEF Release, Cancel, RecordRun
  <2>1. /\ Running(t, j) /\ clock' = clock
        /\ pc'[t] # "run" /\ token'[t] = None /\ now'[t] = 0
        /\ \A u \in Tick \ {t} : /\ pc'[u] = pc[u] /\ token'[u] = token[u]
                                 /\ now'[u] = now[u] /\ pos'[u] = pos[u]
        /\ lastRunAt' = [lastRunAt EXCEPT ![j] = now[t]]
        /\ leaseUntil' = [leaseUntil EXCEPT ![j] = None]
        /\ leaseToken' = [leaseToken EXCEPT ![j] = None]
    BY <2>0, LeaveLocal
  <2>2. TypeOK'
    BY <2>0, LeaveLocal
  <2>3. token[t] # None /\ leaseUntil[j] = now[t] + Lease
    BY <1>2, <2>1 DEF TicksOK, Running, HoldersOK, HoldsOwn, Overtaken
  <2>4. TicksOK'
    <3>1. \A u \in Tick : now'[u] <= clock'
      <4>1. clock' = clock /\ 0 <= clock /\ \A u \in Tick : now[u] <= clock
        BY <2>1 DEF TicksOK
      <4>2. now'[t] = 0 /\ \A u \in Tick \ {t} : now'[u] = now[u]
        BY <2>1
      <4>. QED
        BY <4>1, <4>2
    <3>2. \A u \in Tick : pc'[u] # "run" <=> token'[u] = None
      BY <2>1 DEF TicksOK
    <3>3. ASSUME NEW u \in Tick, NEW v \in Tick, token'[u] = token'[v], token'[u] # None
          PROVE  u = v
      <4>1. u # t /\ v # t
        BY <2>1, <3>3
      <4>. QED
        BY <4>1, <3>3, <2>1 DEF TicksOK
    <3>. QED
      BY <3>1, <3>2, <3>3 DEF TicksOK
  <2>5. DocumentsOK'
    BY <2>1 DEF DocumentsOK, TicksOK
  <2>6. HoldersOK'
    <3> SUFFICES ASSUME NEW u \in Tick, NEW i \in Job, Running(u, i)'
                 PROVE  HoldsOwn(u, i)' \/ Overtaken(u, i)'
      BY DEF HoldersOK
    <3>1. u # t /\ Running(u, i)
      BY <2>1 DEF Running
    <3>2. CASE i # j
      <4>1. /\ leaseToken'[i] = leaseToken[i] /\ leaseUntil'[i] = leaseUntil[i]
            /\ lastRunAt'[i] = lastRunAt[i]
        BY <3>2, <2>1
      <4>2. now'[u] = now[u] /\ token'[u] = token[u]
        BY <3>1, <2>1
      <4>3. HoldsOwn(u, i) \/ Overtaken(u, i)
        BY <3>1 DEF HoldersOK
      <4>. QED
        BY <4>1, <4>2, <4>3 DEF HoldsOwn, Overtaken
    <3>3. CASE i = j
      <4>1. leaseToken[j] # token[u]
        BY <3>1, <1>2, <2>3 DEF TicksOK
      <4>2. now[u] + Lease <= now[t]
        BY <4>1, <3>1, <3>3, <2>3 DEF HoldersOK, HoldsOwn, Overtaken
      <4>3. token[u] # None
        BY <3>1 DEF TicksOK, Running
      <4>. QED
        BY <4>2, <4>3, <3>1, <3>3, <2>1 DEF Overtaken
    <3>. QED
      BY <3>2, <3>3
  <2>7. OverlapOnlyAfterExpiry'
    BY <2>1 DEF OverlapOnlyAfterExpiry, Running
  <2>. QED
    BY <2>2, <2>4, <2>5, <2>6, <2>7
<1>. QED
  BY <1>1, <1>2

LEMMA NextIInv == IInv /\ [Next]_vars => IInv'
<1> SUFFICES ASSUME IInv, [Next]_vars PROVE IInv'
  OBVIOUS
<1>1. CASE PassTime
  BY <1>1, QuietIInv
<1>2. ASSUME NEW t \in Tick, Begin(t) PROVE IInv'
  BY <1>2, QuietIInv
<1>3. ASSUME NEW t \in Tick, Die(t) PROVE IInv'
  BY <1>3, LeaveIInv DEF Die
<1>4. ASSUME NEW t \in Tick, NEW j \in Job, ReadClock(t, j) PROVE IInv'
  BY <1>4, QuietIInv
<1>5. ASSUME NEW t \in Tick, NEW j \in Job, Acquire(t, j) PROVE IInv'
  <2>1. CASE Due(j, now[t]) /\ Free(j, now[t])
    BY <1>5, <2>1, GrantIInv DEF Acquire
  <2>2. CASE ~(Due(j, now[t]) /\ Free(j, now[t]))
    BY <1>5, <2>2, LeaveIInv DEF Acquire, Skip
  <2>. QED
    BY <2>1, <2>2
<1>6. ASSUME NEW t \in Tick, NEW j \in Job, Release(t, j) \/ Cancel(t, j) PROVE IInv'
  BY <1>6, EndIInv
<1>7. CASE UNCHANGED vars
  BY <1>7 DEF vars, store, local, IInv, TypeOK, TicksOK, DocumentsOK, HoldersOK,
     HoldsOwn, Overtaken, OverlapOnlyAfterExpiry, Running
<1>. QED
  BY <1>1, <1>2, <1>3, <1>4, <1>5, <1>6, <1>7 DEF Next, JobStep

THEOREM InvariantHolds == Spec => []IInv
BY InitIInv, NextIInv, PTL DEF Spec

-----------------------------------------------------------------------------

\* Every variable of the job runner keeps its type: run_due_jobs never writes
\* a document field or a local it could not have.
THEOREM TypeCorrect == Spec => []TypeOK
<1>1. IInv => TypeOK
  BY DEF IInv
<1>. QED
  BY <1>1, InvariantHolds, PTL

\* Two ticks run one job at the same time only if they started at least a
\* lease apart: overlapping calls of run_due_jobs never share a job's lease.
THEOREM ExclusiveLease == Spec => []OverlapOnlyAfterExpiry
<1>1. IInv => OverlapOnlyAfterExpiry
  BY DEF IInv
<1>. QED
  BY <1>1, InvariantHolds, PTL

\* Until its lease expires, a running tick is the one the document names: no
\* other tick of run_due_jobs takes over or releases a lease early.
THEOREM LeaseIsKept == Spec => []UnexpiredLeaseIsHeld
<1>1. IInv => UnexpiredLeaseIsHeld
  BY CronAssumption DEF IInv, TypeOK, Time, DocumentsOK, HoldersOK, HoldsOwn,
     Overtaken, UnexpiredLeaseIsHeld
<1>. QED
  BY <1>1, InvariantHolds, PTL

\* Only the holder of the lease records a run, and it started at least the
\* job's interval after the run recorded before it.
LEMMA RecordIsSpaced ==
  ASSUME IInv, NEW t \in Tick, NEW j \in Job, Release(t, j) \/ Cancel(t, j),
         NEW i \in Job, lastRunAt'[i] # lastRunAt[i]
  PROVE  /\ i = j /\ leaseToken[j] = token[t] /\ lastRunAt'[j] = now[t]
         /\ lastRunAt[j] = None \/ lastRunAt'[j] >= lastRunAt[j] + Every[j]
<1> USE CronAssumption DEF IInv, TypeOK, Job, Time
<1>1. i = j /\ leaseToken[j] = token[t] /\ lastRunAt'[j] = now[t] /\ Running(t, j)
  BY DEF Release, Cancel, RecordRun, store
<1>2. token[t] # None /\ leaseUntil[j] = now[t] + Lease
  BY <1>1 DEF TicksOK, Running, HoldersOK, HoldsOwn, Overtaken
<1>3. lastRunAt[j] # None => lastRunAt[j] + Every[j] <= leaseUntil[j] - Lease
  BY <1>2 DEF DocumentsOK
<1>. QED
  BY <1>1, <1>2, <1>3

\* Recorded runs of a job are at least its interval apart, however late the
\* ticks that ran them reach the finally block.
THEOREM CadenceOfRuns == Spec => RunsAreSpaced
<1>1. ASSUME IInv, [Next]_vars, NEW i \in Job, lastRunAt'[i] # lastRunAt[i]
      PROVE  lastRunAt[i] = None \/ lastRunAt'[i] >= lastRunAt[i] + Every[i]
  <2>1. PICK t \in Tick, j \in Job : Release(t, j) \/ Cancel(t, j)
    BY <1>1 DEF Next, PassTime, Begin, Die, JobStep, ReadClock, Acquire, Grant, Skip,
       store, local, vars
  <2>. QED
    BY <1>1, <2>1, RecordIsSpaced
<1>2. IInv /\ [Next]_vars =>
        [\A j \in Job : lastRunAt'[j] # lastRunAt[j] =>
           lastRunAt[j] = None \/ lastRunAt'[j] >= lastRunAt[j] + Every[j]]_vars
  BY <1>1
<1>. QED
  BY <1>2, InvariantHolds, PTL DEF Spec, RunsAreSpaced

-----------------------------------------------------------------------------

\* The image of the state under the refinement mapping.
Granted == [j \in Job |-> IF leaseUntil[j] = None THEN None ELSE leaseUntil[j] - Lease]
Active  == [j \in Job |-> {now[t] : t \in {u \in Tick : Running(u, j)}}]

LEMMA InitRefines == Init => Cadence!Init
BY DEF Init, Cadence!Init, Cadence!Job, Job, Running

\* Steps that start and end no execution leave the image alone.
LEMMA QuietRefines ==
  ASSUME NEW t \in Tick, TypeOK, pc[t] # "run", pc'[t] # "run",
         \A u \in Tick \ {t} : pc'[u] = pc[u] /\ pos'[u] = pos[u] /\ now'[u] = now[u],
         UNCHANGED <<clock, store>>
  PROVE  UNCHANGED Cadence!vars
<1>1. ASSUME NEW j \in Job
      PROVE  {now'[u] : u \in {v \in Tick : Running(v, j)'}}
               = {now[u] : u \in {v \in Tick : Running(v, j)}}
  <2>1. \A v \in Tick : (Running(v, j)' <=> Running(v, j)) /\ (Running(v, j) => now'[v] = now[v])
    BY DEF Running
  <2>. QED
    BY <2>1
<1>. QED
  BY <1>1 DEF Cadence!vars, store

\* A granted lease starts an execution at the time the tick read.
LEMMA GrantRefines ==
  ASSUME IInv, NEW t \in Tick, NEW j \in Job, NEW k \in Token,
         pc[t] = "acquire", pos[t] = j, Due(j, now[t]), Free(j, now[t]), Grant(t, j, k)
  PROVE  Cadence!Start(j, now[t])
<1> USE CronAssumption DEF IInv, TypeOK
<1>1. /\ now[t] \in Int /\ Every[j] \in Int /\ Lease \in Int
      /\ lastRunAt[j] \in Int \cup {None} /\ leaseUntil[j] \in Int \cup {None}
  BY DEF Time
<1>2. now[t] <= clock
  BY DEF TicksOK
<1>3. lastRunAt[j] = None \/ lastRunAt[j] + Every[j] <= now[t]
  BY <1>1 DEF Due
<1>4. Granted[j] = None \/ Granted[j] + Lease <= now[t]
  BY <1>1 DEF Free, Granted
<1>5. Granted' = [Granted EXCEPT ![j] = now[t]]
  <2>1. leaseUntil'[j] # None /\ leaseUntil'[j] - Lease = now[t]
    BY <1>1 DEF Grant
  <2>2. \A i \in Job \ {j} : leaseUntil'[i] = leaseUntil[i]
    BY DEF Grant
  <2>. QED
    BY <2>1, <2>2 DEF Granted
<1>6. Active' = [Active EXCEPT ![j] = @ \cup {now[t]}]
  <2>1. /\ pc'[t] = "run" /\ pos' = pos /\ now' = now
        /\ \A u \in Tick \ {t} : pc'[u] = pc[u]
    BY DEF Grant
  <2>2. ASSUME NEW i \in Job \ {j} PROVE Active'[i] = Active[i]
    BY <2>1 DEF Active, Running
  <2>3. Active'[j] = Active[j] \cup {now[t]}
    BY <2>1 DEF Active, Running
  <2>. QED
    BY <2>2, <2>3 DEF Active
<1>. QED
  BY <1>2, <1>3, <1>4, <1>5, <1>6 DEF Cadence!Start, Granted, Active, Grant

\* When a tick leaves its job, exactly its start time leaves the active ones:
\* no other execution of the job started at the same time.
LEMMA LeaveActive ==
  ASSUME IInv, NEW t \in Tick, NEW j \in Job, Running(t, j), Advance(t) \/ Gone(t)
  PROVE  now[t] \in Active[j] /\ Active' = [Active EXCEPT ![j] = @ \ {now[t]}]
<1> USE CronAssumption DEF IInv
<1>1. /\ pc'[t] # "run"
      /\ \A u \in Tick \ {t} : /\ pc'[u] = pc[u] /\ now'[u] = now[u] /\ pos'[u] = pos[u]
  BY LeaveLocal
<1>2. now[t] \in Active[j]
  BY DEF Active
<1>3. ASSUME NEW u \in Tick, u # t, Running(u, j)
      PROVE  now[u] # now[t]
  <2>1. now[u] \in Int /\ now[t] \in Int /\ Lease \in Int /\ Lease > 0
    BY DEF TypeOK, Time
  <2>. QED
    BY <1>3, <2>1 DEF OverlapOnlyAfterExpiry
<1>4. ASSUME NEW i \in Job \ {j} PROVE Active'[i] = Active[i]
  BY <1>1 DEF Active, Running
<1>5. Active'[j] = Active[j] \ {now[t]}
  BY <1>1, <1>3 DEF Active, Running
<1>. QED
  BY <1>2, <1>4, <1>5 DEF Active

\* An execution that ends records itself, or vanishes.
LEMMA EndRefines ==
  ASSUME IInv, NEW t \in Tick, NEW j \in Job, Release(t, j) \/ Cancel(t, j)
  PROVE  Cadence!Record(j, now[t]) \/ Cadence!Vanish(j, now[t])
<1> USE CronAssumption DEF IInv, TypeOK
<1>0. Running(t, j) /\ (Advance(t) \/ Gone(t)) /\ UNCHANGED clock /\ RecordRun(t, j)
  BY DEF Release, Cancel
<1>1. now[t] \in Active[j] /\ Active' = [Active EXCEPT ![j] = @ \ {now[t]}]
  BY <1>0, LeaveActive
<1>2. CASE leaseToken[j] # token[t]
  <2>1. UNCHANGED store
    BY <1>0, <1>2 DEF RecordRun
  <2>2. Granted' = Granted
    BY <2>1 DEF Granted, store
  <2>. QED
    BY <1>0, <1>1, <2>1, <2>2 DEF Cadence!Vanish, Granted, Active, store
<1>3. CASE leaseToken[j] = token[t]
  <2>1. leaseUntil[j] = now[t] + Lease
    BY <1>0, <1>3 DEF HoldersOK, HoldsOwn, Overtaken
  <2>2. /\ lastRunAt' = [lastRunAt EXCEPT ![j] = now[t]]
        /\ leaseUntil' = [leaseUntil EXCEPT ![j] = None]
    BY <1>0, <1>3 DEF RecordRun
  <2>3. Granted[j] = now[t]
    <3>1. now[t] \in Int /\ Lease \in Int /\ now[t] + Lease # None
      BY DEF Time
    <3>. QED
      BY <3>1, <2>1 DEF Granted
  <2>4. Granted' = [Granted EXCEPT ![j] = None]
    BY <2>2 DEF Granted
  <2>. QED
    BY <1>0, <1>1, <2>2, <2>3, <2>4 DEF Cadence!Record, Granted, Active
<1>. QED
  BY <1>2, <1>3

LEMMA DieRefines ==
  ASSUME IInv, NEW t \in Tick, Die(t)
  PROVE  UNCHANGED Cadence!vars \/ \E j \in Job : Cadence!Vanish(j, now[t])
<1> USE DEF IInv
<1>1. CASE pc[t] # "run"
  BY <1>1, LeaveLocal, QuietRefines DEF Die
<1>2. CASE pc[t] = "run"
  <2>1. PICK j \in Job : Running(t, j)
    BY <1>2 DEF TypeOK, Running
  <2>2. now[t] \in Active[j] /\ Active' = [Active EXCEPT ![j] = @ \ {now[t]}]
    BY <2>1, LeaveActive DEF Die
  <2>3. Granted' = Granted /\ UNCHANGED <<clock, store>>
    BY DEF Granted, Die, store
  <2>. QED
    BY <2>2, <2>3 DEF Cadence!Vanish, Granted, Active, store
<1>. QED
  BY <1>1, <1>2

LEMMA NextRefines == IInv /\ [Next]_vars => [Cadence!Next]_(Cadence!vars)
<1> SUFFICES ASSUME IInv, [Next]_vars PROVE [Cadence!Next]_(Cadence!vars)
  OBVIOUS
<1> USE DEF IInv, Cadence!Job, Cadence!Time, Job, Time
<1>1. CASE PassTime
  <2>1. Active' = Active /\ Granted' = Granted
    BY <1>1 DEF PassTime, store, local, Active, Granted, Running
  <2>. QED
    BY <1>1, <2>1 DEF PassTime, store, local, Cadence!Next, Cadence!PassTime, Active, Granted
<1>2. ASSUME NEW t \in Tick, Begin(t) PROVE UNCHANGED Cadence!vars
  BY <1>2, QuietRefines DEF Begin, TypeOK
<1>3. ASSUME NEW t \in Tick, NEW j \in Job, ReadClock(t, j) PROVE UNCHANGED Cadence!vars
  BY <1>3, QuietRefines DEF ReadClock, TypeOK
<1>4. ASSUME NEW t \in Tick, NEW j \in Job, Acquire(t, j)
      PROVE  UNCHANGED Cadence!vars \/ Cadence!Start(j, now[t])
  <2>1. CASE Due(j, now[t]) /\ Free(j, now[t])
    BY <1>4, <2>1, GrantRefines DEF Acquire
  <2>2. CASE ~(Due(j, now[t]) /\ Free(j, now[t]))
    BY <1>4, <2>2, LeaveLocal, QuietRefines DEF Acquire, Skip
  <2>. QED
    BY <2>1, <2>2
<1>5. CASE UNCHANGED vars
  <2>1. Active' = Active /\ Granted' = Granted
    BY <1>5 DEF vars, store, local, Active, Granted, Running
  <2>. QED
    BY <1>5, <2>1 DEF vars, store, local, Cadence!vars, Active, Granted
<1>6. ASSUME NEW t \in Tick, NEW j \in Job,
             \/ Cadence!Start(j, now[t]) \/ Cadence!Record(j, now[t])
             \/ Cadence!Vanish(j, now[t])
      PROVE  Cadence!Next
  <2>1. now[t] \in Cadence!Time
    BY DEF TypeOK
  <2>. QED
    BY <1>6, <2>1
    DEF Cadence!Next, Cadence!Start, Cadence!Record, Cadence!Vanish
<1>7. ASSUME NEW t \in Tick, NEW j \in Job, JobStep(t, j)
      PROVE  [Cadence!Next]_(Cadence!vars)
  BY <1>3, <1>4, <1>6, <1>7, EndRefines DEF JobStep
<1>8. ASSUME NEW t \in Tick, Die(t) PROVE [Cadence!Next]_(Cadence!vars)
  BY <1>6, <1>8, DieRefines
<1>. QED
  BY <1>1, <1>2, <1>5, <1>7, <1>8 DEF Next

\* The lease keeps the cadence: every behaviour of run_due_jobs over the
\* scheduler_runs collection is one the promise of JobCadence allows.
THEOREM LeaseRefinesCadence == Spec => KeepsCadence
BY InitRefines, NextRefines, InvariantHolds, PTL DEF Spec, KeepsCadence, Cadence!Spec
=============================================================================
