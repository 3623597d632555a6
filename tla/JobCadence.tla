----------------------------- MODULE JobCadence -----------------------------
(***************************************************************************)
(* What the cron service promises about each periodic job, whatever lease  *)
(* mechanism enforces it: executions of one job start at least Lease time  *)
(* units apart unless the earlier one was recorded, a recorded run is      *)
(* followed by a pause of Every, and only the newest execution may record  *)
(* itself.  An execution is identified by the time at which it started;    *)
(* there are no ticks, no tokens and no database here.                     *)
(***************************************************************************)
EXTENDS Integers

CONSTANTS
  NJobs,    \* number of periodic jobs
  Every,    \* [Job -> interval between recorded runs]
  Lease,    \* the time for which a started execution is protected
  MaxTime,  \* bound on the clock
  None      \* "no such time"

Job  == 1..NJobs
Time == 0..MaxTime

VARIABLES
  clock,     \* the current time
  recorded,  \* start time of the last execution of each job that was recorded
  granted,   \* start time of the newest execution, while it is not recorded
  active     \* start times of the executions of each job that are under way

vars == <<clock, recorded, granted, active>>

Init ==
  /\ clock = 0
  /\ recorded = [j \in Job |-> None]
  /\ granted = [j \in Job |-> None]
  /\ active = [j \in Job |-> {}]

\* An execution of j with start time s: the last recorded run is Every old and
\* the newest unrecorded one has lost its protection.
Start(j, s) ==
  /\ s <= clock
  /\ recorded[j] = None \/ recorded[j] + Every[j] <= s
  /\ granted[j] = None \/ granted[j] + Lease <= s
  /\ granted' = [granted EXCEPT ![j] = s]
  /\ active' = [active EXCEPT ![j] = @ \cup {s}]
  /\ UNCHANGED <<clock, recorded>>

\* The newest execution ends and becomes the recorded run.
Record(j, s) ==
  /\ s \in active[j]
  /\ granted[j] = s
  /\ recorded' = [recorded EXCEPT ![j] = s]
  /\ granted' = [granted EXCEPT ![j] = None]
  /\ active' = [active EXCEPT ![j] = @ \ {s}]
  /\ UNCHANGED clock

\* An execution ends without a trace: it was overtaken, or it died.
Vanish(j, s) ==
  /\ s \in active[j]
  /\ active' = [active EXCEPT ![j] = @ \ {s}]
  /\ UNCHANGED <<clock, recorded, granted>>

PassTime ==
  /\ clock < MaxTime
  /\ clock' = clock + 1
  /\ UNCHANGED <<recorded, granted, active>>

Next ==
  \/ PassTime
  \/ \E j \in Job, s \in Time : Start(j, s) \/ Record(j, s) \/ Vanish(j, s)

Spec == Init /\ [][Next]_vars
=============================================================================
