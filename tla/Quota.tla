-------------------------------- MODULE Quota --------------------------------
(***************************************************************************)
(* The daily call quota: app/services/quota.py over the usage_calls        *)
(* collection, which has a unique index on (user_id, day).  One user; each *)
(* turn makes one claim and may refund it.  consume() is up to three calls *)
(* of the store, and every one of them works out the day anew.             *)
(***************************************************************************)
EXTENDS Integers, FiniteSets, FiniteSetsExt

CONSTANTS
  Turn,         \* chat turns of the user
  Limit,        \* daily_call_limit; <= 0 disables the quota
  MaxDay,       \* bound on the days that pass
  MaxFailures,  \* bound on failed calls of the store
  None          \* no document for the day

Day == 0..MaxDay

ASSUME QuotaAssumption ==
  Limit \in Int /\ MaxDay \in Nat /\ MaxFailures \in Nat /\ None \notin Int

VARIABLES
  today,     \* the server's UTC day
  calls,     \* [Day -> calls of the day's document, or None]
  claim,     \* progress of each turn's consume()
  failures   \* calls of the store that have failed

quotaVars == <<today, calls, claim, failures>>

ClaimState == {"none", "upsert", "seed", "reread", "granted", "refused", "refunded"}

QuotaTypeOK ==
  /\ today \in Day
  /\ calls \in [Day -> Int \cup {None}]
  /\ claim \in [Turn -> ClaimState]
  /\ failures \in 0..MaxFailures

QuotaInit ==
  /\ today = 0
  /\ calls = [d \in Day |-> None]
  /\ claim = [t \in Turn |-> "none"]
  /\ failures = 0

NextDay ==
  /\ today < MaxDay
  /\ today' = today + 1
  /\ UNCHANGED <<calls, claim, failures>>

\* What a read of the day's document reports.
Used(d) == IF calls[d] = None THEN 0 ELSE calls[d]

\* A turn asks for a call: a limit that is not positive grants it at once.
Consume(t) ==
  /\ claim[t] = "none"
  /\ claim' = [claim EXCEPT ![t] = IF Limit <= 0 THEN "granted" ELSE "upsert"]
  /\ UNCHANGED <<today, calls, failures>>

\* A compare-and-increment that is not atomic with its comparison.
UpsertWithoutFilter(t) ==
  /\ claim[t] = "upsert"
  /\ IF calls[today] = None
     THEN /\ calls' = [calls EXCEPT ![today] = 1]
          /\ claim' = [claim EXCEPT ![t] = "seed"]
     ELSE /\ calls' = [calls EXCEPT ![today] = @ + 1]
          /\ claim' = [claim EXCEPT ![t] = "granted"]
  /\ UNCHANGED <<today, failures>>

\* The conditional upsert.  No document: one is inserted with calls = 1, and
\* modified_count is 0.  A document below the limit: incremented.  A document at
\* the limit: it does not match, so the upsert inserts a second one, the unique
\* index refuses it, and the DuplicateKeyError ends in the except clause.
Upsert(t) ==
  /\ claim[t] = "upsert"
  /\ \/ /\ calls[today] = None
        /\ calls' = [calls EXCEPT ![today] = 1]
        /\ claim' = [claim EXCEPT ![t] = "seed"]
     \/ /\ calls[today] # None
        /\ calls[today] < Limit
        /\ calls' = [calls EXCEPT ![today] = @ + 1]
        /\ claim' = [claim EXCEPT ![t] = "granted"]
     \/ /\ calls[today] # None
        /\ calls[today] >= Limit
        /\ claim' = [claim EXCEPT ![t] = "granted"]
        /\ UNCHANGED calls
  /\ UNCHANGED <<today, failures>>

\* A seed that increments: the first call of the day is billed twice.
SeedIncrements(t) ==
  /\ claim[t] = "seed"
  /\ calls' = [calls EXCEPT ![today] = IF @ = None THEN 1 ELSE @ + 1]
  /\ claim' = [claim EXCEPT ![t] = "reread"]
  /\ UNCHANGED <<today, failures>>

\* $setOnInsert: creates the day's document if there is none.
Seed(t) ==
  /\ claim[t] = "seed"
  /\ calls' = [calls EXCEPT ![today] = IF @ = None THEN 0 ELSE @]
  /\ claim' = [claim EXCEPT ![t] = "reread"]
  /\ UNCHANGED <<today, failures>>

Reread(t) ==
  /\ claim[t] = "reread"
  /\ claim' = [claim EXCEPT ![t] = IF Used(today) < Limit THEN "granted" ELSE "refused"]
  /\ UNCHANGED <<today, calls, failures>>

\* A call of the store raises: the quota fails open.
ConsumeFails(t) ==
  /\ claim[t] \in {"upsert", "seed", "reread"}
  /\ failures < MaxFailures
  /\ failures' = failures + 1
  /\ claim' = [claim EXCEPT ![t] = "granted"]
  /\ UNCHANGED <<today, calls>>

ConsumeStep(t) == Upsert(t) \/ Seed(t) \/ Reread(t) \/ ConsumeFails(t)

\* refund(): the decrement goes to the day it is made on, not to the day of the
\* claim, whether or not the claim was counted; no document, no effect.
Refund(t) ==
  /\ claim[t] = "granted"
  /\ calls' = [calls EXCEPT ![today] = IF @ = None THEN None ELSE @ - 1]
  /\ claim' = [claim EXCEPT ![t] = "refunded"]
  /\ UNCHANGED <<today, failures>>

\* refund() swallows a failure of the store: the call is not given back.
RefundFails(t) ==
  /\ claim[t] = "granted"
  /\ failures < MaxFailures
  /\ failures' = failures + 1
  /\ claim' = [claim EXCEPT ![t] = "refunded"]
  /\ UNCHANGED <<today, calls>>

\* The quota on its own: turns claim and refund in any order.
QuotaNext ==
  \/ NextDay
  \/ \E t \in Turn : Consume(t) \/ ConsumeStep(t) \/ Refund(t) \/ RefundFails(t)

QuotaSpec == QuotaInit /\ [][QuotaNext]_quotaVars

-----------------------------------------------------------------------------

\* The counter of a day never passes the limit, however many turns claim at
\* once: the increment is conditional on the value it increments.
CountWithinLimit == Limit > 0 => \A d \in Day : calls[d] # None => calls[d] <= Limit

\* A turn is billed at most once, over all days together, whatever the
\* interleaving of the three calls of its claim with other turns and midnight.
BilledAtMostOnce ==
  MapThenSumSet(Used, Day) <= Cardinality({t \in Turn : claim[t] \notin {"none", "upsert"}})

\* What the module promises of a user's calls in a day: no more than Limit of
\* them are granted (none of the failures below is involved: MaxFailures = 0).
GrantedWithinLimit ==
  (Limit > 0 /\ MaxDay = 0 /\ MaxFailures = 0) =>
    Cardinality({t \in Turn : claim[t] = "granted"}) <= Limit
=============================================================================
