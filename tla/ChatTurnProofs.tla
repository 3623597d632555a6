---------------------------- MODULE ChatTurnProofs ----------------------------
(***************************************************************************)
(* Proofs about ChatTurn, for any set of turns, any limit and budget and   *)
(* any number of days and failures: the day's counter of calls, the        *)
(* session's counter of messages, and the name the user gave the session.  *)
(***************************************************************************)
EXTENDS ChatTurn, FoldProofs, FunctionTheorems, TLAPS

\* What the counter of calls needs of the quota's documents.
QuotaInv ==
  /\ today \in Day
  /\ calls \in [Day -> Int \cup {None}]
  /\ CountWithinLimit

\* What the counter of messages needs: a turn about to write its count back has
\* counted no more messages than the live session holds, because messages are
\* only taken away once the session is deleted.
CountInv ==
  /\ session \in {"live", "deleted", "purged"}
  /\ IsFiniteSet(messages)
  /\ messageCount \in Nat
  /\ total \in [Turn -> Nat]
  /\ DOMAIN pc = Turn
  /\ MessageCountNeverAhead
  /\ session = "live" => \A t \in Turn : pc[t] = "update" => total[t] <= Cardinality(messages)

-----------------------------------------------------------------------------

LEMMA InitQuotaInv == Init => QuotaInv
BY QuotaAssumption DEF Init, QuotaInit, QuotaInv, CountWithinLimit, Day

\* One call of the store on behalf of consume() or refund().
LEMMA StoreCallQuotaInv ==
  ASSUME QuotaInv, NEW t \in Turn,
         Consume(t) \/ ConsumeStep(t) \/ Refund(t) \/ RefundFails(t)
  PROVE  QuotaInv'
<1> USE QuotaAssumption DEF QuotaInv, CountWithinLimit
<1>1. ASSUME NEW n \in Int \cup {None}, calls' = [calls EXCEPT ![today] = n],
             today' = today, Limit > 0 /\ n # None => n <= Limit
      PROVE  QuotaInv'
  BY <1>1
<1>2. /\ calls[today] \in Int \cup {None}
      /\ Limit > 0 /\ calls[today] # None => calls[today] <= Limit
  OBVIOUS
<1>3. CASE Consume(t) \/ Reread(t) \/ ConsumeFails(t) \/ RefundFails(t)
  BY <1>3 DEF Consume, Reread, ConsumeFails, RefundFails
<1>4. CASE Upsert(t)
  <2>1. CASE calls' = [calls EXCEPT ![today] = 1]
    BY <1>1, <1>4, <2>1 DEF Upsert
  <2>2. CASE calls[today] # None /\ calls[today] < Limit
             /\ calls' = [calls EXCEPT ![today] = @ + 1]
    <3>1. calls[today] + 1 \in Int /\ calls[today] + 1 <= Limit
      BY <1>2, <2>2
    <3>. QED
      BY <1>1, <1>4, <2>2, <3>1 DEF Upsert
  <2>3. CASE UNCHANGED calls
    BY <1>4, <2>3 DEF Upsert
  <2>. QED
    BY <1>4, <2>1, <2>2, <2>3 DEF Upsert
<1>5. CASE Seed(t)
  <2> DEFINE n == IF calls[today] = None THEN 0 ELSE calls[today]
  <2>1. n \in Int \cup {None} /\ (Limit > 0 /\ n # None => n <= Limit)
    BY <1>2
  <2>2. calls' = [calls EXCEPT ![today] = n] /\ today' = today
    BY <1>5 DEF Seed
  <2> HIDE DEF n
  <2>. QED
    BY <1>1, <2>1, <2>2
<1>6. CASE Refund(t)
  <2> DEFINE n == IF calls[today] = None THEN None ELSE calls[today] - 1
  <2>1. n \in Int \cup {None} /\ (Limit > 0 /\ n # None => n <= Limit)
    BY <1>2
  <2>2. calls' = [calls EXCEPT ![today] = n] /\ today' = today
    BY <1>6 DEF Refund
  <2> HIDE DEF n
  <2>. QED
    BY <1>1, <2>1, <2>2
<1>. QED
  BY <1>3, <1>4, <1>5, <1>6 DEF ConsumeStep

\* Only the steps of consume() and refund() write the day's documents.
LEMMA NextQuotaInv == QuotaInv /\ [Next]_vars => QuotaInv'
<1> SUFFICES ASSUME QuotaInv, [Next]_vars PROVE QuotaInv'
  OBVIOUS
<1>1. ASSUME UNCHANGED <<today, calls>> PROVE QuotaInv'
  BY <1>1 DEF QuotaInv, CountWithinLimit
<1>2. CASE Midnight
  BY <1>2, QuotaAssumption DEF Midnight, NextDay, QuotaInv, CountWithinLimit, Day
<1>3. ASSUME NEW t \in Turn, ClaimCall(t) \/ RefundCall(t) PROVE QuotaInv'
  BY <1>3, StoreCallQuotaInv DEF ClaimCall, RefundCall
<1>4. ASSUME NEW t \in Turn, TurnStep(t) \/ Abandon(t), ~ClaimCall(t), ~RefundCall(t)
      PROVE  UNCHANGED <<today, calls>>
  BY <1>4 DEF TurnStep, ReadSession, CheckBudget, ClaimAnswered, PersistUser, LoadPrior,
     AgentEnds, Govern, StampAssistant, PersistAssistant, CountMessages, UpdateSession, Respond, Abandon,
     quotaVars
<1>5. CASE Rename \/ DeleteSession \/ DeleteMessages \/ UNCHANGED vars
  BY <1>1, <1>5 DEF Rename, DeleteSession, DeleteMessages, vars, quotaVars
<1>. QED
  BY <1>1, <1>2, <1>3, <1>4, <1>5 DEF Next

\* No day's counter passes the limit: quota.py's conditional upsert.
THEOREM CallsWithinLimit == Spec => []CountWithinLimit
<1>1. QuotaInv => CountWithinLimit
  BY DEF QuotaInv
<1>. QED
  BY InitQuotaInv, NextQuotaInv, <1>1, PTL DEF Spec

-----------------------------------------------------------------------------

\* The bill of all days, as a sum over the documents c: what MapThenSumSet
\* computes, set of days by set of days.
PickedDay  == [s \in SUBSET Day |-> CHOOSE d \in s : TRUE]
UsedOf(c)  == [d \in Day |-> IF c[d] = None THEN 0 ELSE c[d]]
BillOf(c)  ==
  CHOOSE g : g = [s \in SUBSET Day |->
                    IF s = {} THEN 0
                    ELSE (IF c[CHOOSE d \in s : TRUE] = None THEN 0 ELSE c[CHOOSE d \in s : TRUE])
                           + g[s \ {CHOOSE d \in s : TRUE}]]

Claimed == {t \in Turn : claim[t] \notin {"none", "upsert"}}

BillInv ==
  /\ QuotaInv
  /\ claim \in [Turn -> ClaimState]
  /\ BillOf(calls)[Day] <= Cardinality(Claimed)

LEMMA DaysArePicked == IsFiniteSet(Day) /\ Picks(PickedDay, Day)
BY QuotaAssumption, FS_Interval DEF Day, PickedDay, Picks

LEMMA BillIsSum ==
  ASSUME NEW c \in [Day -> Int \cup {None}]
  PROVE  UsedOf(c) \in [Day -> Int] /\ SumsBy(BillOf(c), Day, PickedDay, UsedOf(c))
<1> DEFINE step == [p \in Day \X Int |-> UsedOf(c)[p[1]] + p[2]]
           Body(g) == [s \in SUBSET Day |->
                         IF s = {} THEN 0
                         ELSE (IF c[CHOOSE d \in s : TRUE] = None THEN 0 ELSE c[CHOOSE d \in s : TRUE])
                                + g[s \ {CHOOSE d \in s : TRUE}]]
<1>1. UsedOf(c) \in [Day -> Int]
  BY DEF UsedOf
<1>2. step \in [Day \X Int -> Int] /\ 0 \in Int
  BY <1>1
<1>3. PICK g \in [SUBSET Day -> Int] : FoldsBy(g, Day, 0, PickedDay, step)
  <2> HIDE DEF step
  <2>. QED
    BY <1>2, DaysArePicked, SubsetRecursion
<1>4. g = Body(g)
  BY <1>1, <1>3, DaysArePicked DEF FoldsBy, Picks, PickedDay, UsedOf
<1>5. BillOf(c) = Body(BillOf(c))
  <2>1. BillOf(c) = CHOOSE h : h = Body(h)
    BY DEF BillOf
  <2> HIDE DEF Body
  <2>. QED
    BY <1>4, <2>1
<1>6. SumsBy(Body(BillOf(c)), Day, PickedDay, UsedOf(c))
  <2> DEFINE b == BillOf(c)
  <2>1. b = Body(b)
    BY <1>5
  <2> HIDE DEF b
  <2>2. \A s \in SUBSET Day : s # {} => PickedDay[s] \in Day /\ PickedDay[s] = CHOOSE d \in s : TRUE
    BY DaysArePicked DEF Picks, PickedDay
  <2>3. \A s \in SUBSET Day : s \ {PickedDay[s]} \in SUBSET Day
    OBVIOUS
  <2>4. SumsBy(b, Day, PickedDay, UsedOf(c))
    BY <2>1, <2>2 DEF SumsBy, UsedOf
  <2>. QED
    BY <2>1, <2>4 DEF b
<1>. QED
  BY <1>1, <1>5, <1>6

LEMMA BillOfCalls ==
  /\ MapThenSumSet(Used, Day) = BillOf(calls)[Day]
BY DEF MapThenSumSet, MapThenFoldSet, Used, BillOf

\* A document that is written changes the bill by what it changes.
LEMMA BillChange ==
  ASSUME NEW c \in [Day -> Int \cup {None}], NEW d \in Day, NEW n \in Int \cup {None}
  PROVE  /\ BillOf(c)[Day] \in Int
         /\ BillOf([c EXCEPT ![d] = n])[Day] =
              BillOf(c)[Day] + ((IF n = None THEN 0 ELSE n) - (IF c[d] = None THEN 0 ELSE c[d]))
<1> DEFINE b == [c EXCEPT ![d] = n]
<1>1. b \in [Day -> Int \cup {None}]
  OBVIOUS
<1>2. /\ UsedOf(b)[d] = (IF n = None THEN 0 ELSE n)
      /\ UsedOf(c)[d] = (IF c[d] = None THEN 0 ELSE c[d])
      /\ \A x \in Day \ {d} : UsedOf(b)[x] = UsedOf(c)[x]
  BY DEF UsedOf
<1> HIDE DEF b
<1>3. BillOf(b)[Day] = BillOf(c)[Day] + (UsedOf(b)[d] - UsedOf(c)[d])
  BY <1>1, <1>2, BillIsSum, DaysArePicked, SumChange
<1>4. BillOf(c)[Day] \in Int
  BY BillIsSum, DaysArePicked, SumIsInt
<1>. QED
  BY <1>2, <1>3, <1>4 DEF b

LEMMA InitBill == Init => BillInv
<1> SUFFICES ASSUME Init PROVE BillInv
  OBVIOUS
<1>1. QuotaInv /\ claim = [t \in Turn |-> "none"] /\ calls = [d \in Day |-> None]
  BY InitQuotaInv DEF Init, QuotaInit
<1>2. Claimed = {} /\ claim \in [Turn -> ClaimState]
  BY <1>1 DEF Claimed, ClaimState
<1>3. calls \in [Day -> Int \cup {None}] /\ \A d \in Day : UsedOf(calls)[d] = 0
  BY <1>1 DEF UsedOf
<1>4. BillOf(calls)[Day] = 0
  BY <1>3, BillIsSum, DaysArePicked, SumOfZeros
<1>. QED
  BY <1>1, <1>2, <1>4, FS_EmptySet DEF BillInv

\* Every step of consume() and refund() keeps the bill within the claims made.
LEMMA StoreCallBill ==
  ASSUME BillInv, IsFiniteSet(Turn), NEW t \in Turn,
         Consume(t) \/ ConsumeStep(t) \/ Refund(t) \/ RefundFails(t)
  PROVE  BillInv'
<1> DEFINE Cost(n) == IF n = None THEN 0 ELSE n
<1>1. /\ today \in Day /\ calls \in [Day -> Int \cup {None}] /\ claim \in [Turn -> ClaimState]
      /\ BillOf(calls)[Day] <= Cardinality(Claimed)
      /\ BillOf(calls)[Day] \in Int
      /\ QuotaInv'
  <2>1. QuotaInv /\ QuotaInv'
    BY StoreCallQuotaInv DEF BillInv
  <2>2. calls \in [Day -> Int \cup {None}] /\ today \in Day
    BY <2>1 DEF QuotaInv
  <2>. QED
    BY <2>1, <2>2, BillChange DEF BillInv
<1>2. /\ IsFiniteSet(Claimed) /\ IsFiniteSet(Claimed \cup {t})
      /\ Cardinality(Claimed) \in Nat /\ Cardinality(Claimed \cup {t}) \in Nat
      /\ Cardinality(Claimed) <= Cardinality(Claimed \cup {t})
      /\ t \notin Claimed => Cardinality(Claimed \cup {t}) = Cardinality(Claimed) + 1
  <2>1. IsFiniteSet(Claimed) /\ Cardinality(Claimed) \in Nat
    BY FS_Subset, FS_CardinalityType DEF Claimed
  <2>2. t \in Claimed => Claimed \cup {t} = Claimed
    OBVIOUS
  <2>3. t \notin Claimed => /\ IsFiniteSet(Claimed \cup {t})
                            /\ Cardinality(Claimed \cup {t}) = Cardinality(Claimed) + 1
    BY <2>1, FS_AddElement
  <2>4. CASE t \in Claimed
    <3> DEFINE more == Claimed \cup {t}
    <3>1. more = Claimed
      BY <2>4
    <3> HIDE DEF more
    <3>2. /\ IsFiniteSet(more) /\ Cardinality(more) \in Nat
          /\ Cardinality(Claimed) <= Cardinality(more)
      BY <2>1, <3>1
    <3>. QED
      BY <2>1, <2>4, <3>2 DEF more
  <2>5. CASE t \notin Claimed
    BY <2>1, <2>3, <2>5
  <2>. QED
    BY <2>4, <2>5
<1>3. ASSUME NEW c \in ClaimState, claim' = [claim EXCEPT ![t] = c],
             NEW n \in Int \cup {None}, calls' = [calls EXCEPT ![today] = n],
             \/ Cost(n) <= Cost(calls[today]) /\ (c \in {"none", "upsert"} => claim[t] \in {"none", "upsert"})
             \/ /\ Cost(n) <= Cost(calls[today]) + 1
                /\ claim[t] = "upsert" /\ c \notin {"none", "upsert"}
      PROVE  BillInv'
  <2>1. Claimed' = IF c \in {"none", "upsert"} THEN Claimed \ {t} ELSE Claimed \cup {t}
    BY <1>1, <1>3 DEF Claimed
  <2>2. BillOf(calls')[Day] = BillOf(calls)[Day] + (Cost(n) - Cost(calls[today]))
    BY <1>1, <1>3, BillChange
  <2>3. Cost(n) \in Int /\ Cost(calls[today]) \in Int
    BY <1>1
  <2>4. claim[t] = "upsert" => t \notin Claimed
    BY DEF Claimed
  <2>5. c \in {"none", "upsert"} /\ claim[t] \in {"none", "upsert"} => Claimed' = Claimed
    BY <2>1 DEF Claimed
  <2>6. c \notin {"none", "upsert"} => Claimed' = Claimed \cup {t}
    BY <2>1
  <2> HIDE DEF Cost
  <2>7. BillOf(calls')[Day] <= Cardinality(Claimed')
    <3>1. CASE c \in {"none", "upsert"}
      BY <1>1, <1>2, <1>3, <2>2, <2>3, <2>5, <3>1
    <3>2. CASE c \notin {"none", "upsert"}
      <4>1. CASE Cost(n) <= Cost(calls[today])
        BY <1>1, <1>2, <2>2, <2>3, <2>6, <3>2, <4>1
      <4>2. CASE Cost(n) <= Cost(calls[today]) + 1 /\ claim[t] = "upsert"
        <5>1. Cardinality(Claimed') = Cardinality(Claimed) + 1
          BY <1>2, <2>4, <2>6, <3>2, <4>2
        <5>2. /\ BillOf(calls)[Day] \in Int /\ Cardinality(Claimed) \in Nat
              /\ BillOf(calls)[Day] <= Cardinality(Claimed)
          BY <1>1, <1>2
        <5>. QED
          BY <2>2, <2>3, <4>2, <5>1, <5>2
      <4>. QED
        BY <1>3, <4>1, <4>2
    <3>. QED
      BY <3>1, <3>2
  <2>8. claim' \in [Turn -> ClaimState]
    BY <1>1, <1>3
  <2>. QED
    BY <1>1, <2>7, <2>8 DEF BillInv
<1>4. calls = [calls EXCEPT ![today] = calls[today]] /\ calls[today] \in Int \cup {None}
  BY <1>1
<1> USE DEF ClaimState
<1>5. CASE Consume(t) \/ Reread(t) \/ ConsumeFails(t) \/ RefundFails(t)
  <2>1. PICK c \in ClaimState : /\ claim' = [claim EXCEPT ![t] = c]
                                /\ c \in {"none", "upsert"} => claim[t] \in {"none", "upsert"}
    BY <1>5 DEF Consume, Reread, ConsumeFails, RefundFails
  <2>2. calls' = [calls EXCEPT ![today] = calls[today]]
    BY <1>4, <1>5 DEF Consume, Reread, ConsumeFails, RefundFails
  <2>3. Cost(calls[today]) <= Cost(calls[today])
    BY <1>4
  <2> HIDE DEF Cost, ClaimState
  <2>. QED
    BY <1>3, <1>4, <2>1, <2>2, <2>3
<1>6. CASE Upsert(t)
  <2>1. /\ claim[t] = "upsert" /\ "seed" \in ClaimState /\ "granted" \in ClaimState
        /\ "seed" \notin {"none", "upsert"} /\ "granted" \notin {"none", "upsert"}
    BY <1>6 DEF Upsert
  <2>2. CASE calls[today] = None /\ calls' = [calls EXCEPT ![today] = 1]
             /\ claim' = [claim EXCEPT ![t] = "seed"]
    <3>1. 1 \in Int \cup {None} /\ Cost(1) <= Cost(calls[today]) + 1
      BY <2>2, QuotaAssumption
    <3> HIDE DEF Cost, ClaimState
    <3>. QED
      BY <1>3, <2>1, <2>2, <3>1
  <2>3. CASE calls[today] # None /\ calls' = [calls EXCEPT ![today] = @ + 1]
             /\ claim' = [claim EXCEPT ![t] = "granted"]
    <3> DEFINE n == calls[today] + 1
    <3>1. n \in Int \cup {None} /\ Cost(n) <= Cost(calls[today]) + 1
      BY <1>4, <2>3, QuotaAssumption
    <3>2. calls' = [calls EXCEPT ![today] = n]
      BY <2>3
    <3> HIDE DEF Cost, ClaimState, n
    <3>. QED
      BY <1>3, <2>1, <2>3, <3>1, <3>2
  <2>4. CASE calls' = calls /\ claim' = [claim EXCEPT ![t] = "granted"]
    <3>1. calls' = [calls EXCEPT ![today] = calls[today]] /\ Cost(calls[today]) <= Cost(calls[today])
      BY <1>4, <2>4
    <3> HIDE DEF Cost, ClaimState
    <3>. QED
      BY <1>3, <1>4, <2>1, <2>4, <3>1
  <2>. QED
    BY <1>6, <2>2, <2>3, <2>4 DEF Upsert
<1>7. CASE Seed(t)
  <2> DEFINE n == IF calls[today] = None THEN 0 ELSE calls[today]
  <2>1. n \in Int \cup {None} /\ Cost(n) <= Cost(calls[today])
    BY <1>4, QuotaAssumption
  <2>2. calls' = [calls EXCEPT ![today] = n] /\ claim' = [claim EXCEPT ![t] = "reread"]
    BY <1>7 DEF Seed
  <2>3. "reread" \in ClaimState /\ "reread" \notin {"none", "upsert"}
    OBVIOUS
  <2> HIDE DEF Cost, ClaimState, n
  <2>. QED
    BY <1>3, <2>1, <2>2, <2>3
<1>8. CASE Refund(t)
  <2> DEFINE n == IF calls[today] = None THEN None ELSE calls[today] - 1
  <2>1. n \in Int \cup {None} /\ Cost(n) <= Cost(calls[today])
    BY <1>4, QuotaAssumption
  <2>2. calls' = [calls EXCEPT ![today] = n] /\ claim' = [claim EXCEPT ![t] = "refunded"]
    BY <1>8 DEF Refund
  <2>3. "refunded" \in ClaimState /\ "refunded" \notin {"none", "upsert"}
    OBVIOUS
  <2> HIDE DEF Cost, ClaimState, n
  <2>. QED
    BY <1>3, <2>1, <2>2, <2>3
<1>. QED
  BY <1>5, <1>6, <1>7, <1>8 DEF ConsumeStep

LEMMA NextBill == ASSUME IsFiniteSet(Turn) PROVE BillInv /\ [Next]_vars => BillInv'
<1> SUFFICES ASSUME BillInv, [Next]_vars PROVE BillInv'
  OBVIOUS
<1>1. QuotaInv'
  BY NextQuotaInv DEF BillInv
<1>2. ASSUME UNCHANGED <<calls, claim>> PROVE BillInv'
  BY <1>1, <1>2 DEF BillInv, Claimed
<1>3. CASE Midnight \/ Rename \/ DeleteSession \/ DeleteMessages \/ UNCHANGED vars
  BY <1>2, <1>3 DEF Midnight, NextDay, Rename, DeleteSession, DeleteMessages, vars, quotaVars
<1>4. ASSUME NEW t \in Turn, ClaimCall(t) \/ RefundCall(t) PROVE BillInv'
  BY <1>4, StoreCallBill DEF ClaimCall, RefundCall
<1>5. ASSUME NEW t \in Turn, TurnStep(t) \/ Abandon(t), ~ClaimCall(t), ~RefundCall(t)
      PROVE  UNCHANGED <<calls, claim>>
  BY <1>5 DEF TurnStep, ReadSession, CheckBudget, ClaimAnswered, PersistUser, LoadPrior,
     AgentEnds, Govern, StampAssistant, PersistAssistant, CountMessages, UpdateSession, Respond, Abandon,
     quotaVars
<1>. QED
  BY <1>2, <1>3, <1>4, <1>5 DEF Next

\* Over all days together the user is billed no more calls than turns have made
\* a claim (quota.py's upsert, its $setOnInsert and refund), however the three
\* calls of a claim interleave with those of other turns and with midnight.
THEOREM TurnsBilledOnce == ASSUME IsFiniteSet(Turn) PROVE Spec => []BilledAtMostOnce
<1>1. BillInv => BilledAtMostOnce
  BY BillOfCalls DEF BillInv, BilledAtMostOnce, Claimed
<1>. QED
  BY InitBill, NextBill, <1>1, PTL DEF Spec

-----------------------------------------------------------------------------

LEMMA TwoElements ==
  ASSUME NEW a, NEW b, a # b PROVE IsFiniteSet({a, b}) /\ Cardinality({a, b}) = 2
<1>1. IsFiniteSet({a}) /\ Cardinality({a}) = 1 /\ b \notin {a}
  BY FS_Singleton
<1>2. IsFiniteSet({a} \cup {b}) /\ Cardinality({a} \cup {b}) = 2
  BY <1>1, FS_AddElement
<1>3. {a} \cup {b} = {a, b}
  OBVIOUS
<1>. QED
  BY <1>2, <1>3

LEMMA InitCountInv == Init => CountInv
<1> SUFFICES ASSUME Init PROVE CountInv
  OBVIOUS
<1> DEFINE q == Question(Earlier)
           r == Answer(Earlier)
<1>1. /\ session = "live" /\ messageCount = clock
      /\ pc = [t \in Turn |-> "idle"] /\ total = [t \in Turn |-> 0]
      /\ (messages = {} /\ clock = 0) \/ (messages = {q, r} /\ clock = 2)
  BY DEF Init, ChatInit
<1>2. q # r
  BY DEF Question, Answer
<1> HIDE DEF q, r
<1>3. IsFiniteSet(messages) /\ Cardinality(messages) = clock /\ clock \in Nat
  <2>1. IsFiniteSet({q, r}) /\ Cardinality({q, r}) = 2
    BY <1>2, TwoElements
  <2>2. CASE messages = {} /\ clock = 0
    BY <2>2, FS_EmptySet
  <2>3. CASE messages = {q, r} /\ clock = 2
    BY <2>1, <2>3
  <2>. QED
    BY <1>1, <2>2, <2>3
<1>. QED
  BY <1>1, <1>3 DEF CountInv, MessageCountNeverAhead

\* One more message, or none, in a finite collection.
LEMMA OneMore ==
  ASSUME NEW A, IsFiniteSet(A), NEW B, B = A \/ \E m : B = A \cup {m}
  PROVE  IsFiniteSet(B) /\ Cardinality(A) \in Nat /\ Cardinality(B) \in Nat
         /\ Cardinality(A) <= Cardinality(B)
<1>1. IsFiniteSet(B)
  BY FS_AddElement
<1>. QED
  BY <1>1, FS_Subset, FS_CardinalityType

\* A step that stores at most one more message and writes no counter.
LEMMA GrowCountInv ==
  ASSUME CountInv, NEW t \in Turn, NEW to,
         session' = session, messageCount' = messageCount,
         messages' = messages \/ \E m : messages' = messages \cup {m},
         total' = total \/ total' = [total EXCEPT ![t] = 0],
         pc' = [pc EXCEPT ![t] = to], to # "update"
  PROVE  CountInv'
<1>1. /\ IsFiniteSet(messages') /\ Cardinality(messages) <= Cardinality(messages')
      /\ Cardinality(messages) \in Nat /\ Cardinality(messages') \in Nat
  BY OneMore DEF CountInv
<1>2. total' \in [Turn -> Nat] /\ DOMAIN pc' = Turn
  BY DEF CountInv
<1>3. \A u \in Turn : pc'[u] = "update" => pc[u] = "update" /\ total'[u] = total[u]
  BY DEF CountInv
<1>. QED
  BY <1>1, <1>2, <1>3 DEF CountInv, MessageCountNeverAhead

LEMMA TurnCountInv ==
  ASSUME CountInv, NEW t \in Turn, TurnStep(t) \/ Abandon(t)
  PROVE  CountInv'
<1>1. Cardinality(messages) \in Nat
  BY FS_CardinalityType DEF CountInv
<1>2. CASE ReadSession(t)
  BY <1>2, GrowCountInv DEF ReadSession, Goto, chatStore
<1>3. CASE CheckBudget(t)
  BY <1>3, GrowCountInv DEF CheckBudget, Goto
<1>4. CASE ClaimCall(t)
  BY <1>4 DEF ClaimCall, chatStore, local, CountInv, MessageCountNeverAhead
<1>5. CASE ClaimAnswered(t)
  BY <1>5, GrowCountInv DEF ClaimAnswered, Goto
<1>6. CASE PersistUser(t)
  BY <1>6, GrowCountInv DEF PersistUser, Insert, Goto
<1>7. CASE LoadPrior(t) \/ AgentEnds(t)
  BY <1>7, GrowCountInv DEF LoadPrior, AgentEnds, Goto, chatStore
<1>8. CASE RefundCall(t)
  BY <1>8, GrowCountInv DEF RefundCall, Forget, Goto, chatStore
<1>9. CASE Govern(t) \/ StampAssistant(t)
  BY <1>9, GrowCountInv DEF Govern, StampAssistant, Goto
<1>10. CASE PersistAssistant(t)
  BY <1>10, GrowCountInv DEF PersistAssistant, Insert, Goto
<1>11. CASE CountMessages(t)
  <2>1. /\ pc' = [pc EXCEPT ![t] = "update"]
        /\ total' = [total EXCEPT ![t] = Cardinality(messages)]
        /\ UNCHANGED <<session, messageCount, messages>>
    BY <1>11 DEF CountMessages, Goto, chatStore
  <2>2. total' \in [Turn -> Nat] /\ DOMAIN pc' = Turn
    BY <1>1, <2>1 DEF CountInv
  <2>3. \A u \in Turn : pc'[u] = "update" =>
          total'[u] = Cardinality(messages) \/ (pc[u] = "update" /\ total'[u] = total[u])
    BY <2>1 DEF CountInv
  <2>. QED
    BY <1>1, <2>1, <2>2, <2>3 DEF CountInv, MessageCountNeverAhead
<1>12. CASE UpdateSession(t)
  <2>1. /\ pc[t] = "update" /\ pc' = [pc EXCEPT ![t] = "check"]
        /\ UNCHANGED <<session, messages, total>>
        /\ IF session = "live" THEN messageCount' = total[t] ELSE messageCount' = messageCount
    BY <1>12 DEF UpdateSession, Goto
  <2>2. \A u \in Turn : pc'[u] = "update" => pc[u] = "update"
    BY <2>1 DEF CountInv
  <2>3. DOMAIN pc' = Turn /\ total[t] \in Nat
    BY <2>1 DEF CountInv
  <2>. QED
    BY <2>1, <2>2, <2>3 DEF CountInv, MessageCountNeverAhead
<1>13. CASE Respond(t)
  BY <1>13, GrowCountInv DEF Respond, Forget, Goto, chatStore
<1>14. CASE Abandon(t)
  BY <1>14, GrowCountInv DEF Abandon, Forget, chatStore
<1>. QED
  BY <1>2, <1>3, <1>4, <1>5, <1>6, <1>7, <1>8, <1>9, <1>10, <1>11, <1>12, <1>13, <1>14
  DEF TurnStep

LEMMA NextCountInv == CountInv /\ [Next]_vars => CountInv'
<1> SUFFICES ASSUME CountInv, [Next]_vars PROVE CountInv'
  OBVIOUS
<1>1. CASE Rename \/ DeleteSession
  BY <1>1 DEF Rename, DeleteSession, local, CountInv, MessageCountNeverAhead
<1>2. CASE DeleteMessages
  BY <1>2, FS_EmptySet DEF DeleteMessages, local, CountInv, MessageCountNeverAhead
<1>3. CASE Midnight \/ UNCHANGED vars
  BY <1>3 DEF Midnight, vars, chatStore, local, CountInv, MessageCountNeverAhead
<1>. QED
  BY <1>1, <1>2, <1>3, TurnCountInv DEF Next

\* The message_count that _finalize_turn writes never runs ahead of the messages
\* of a live session.
THEOREM CounterNeverAhead == Spec => []MessageCountNeverAhead
<1>1. CountInv => MessageCountNeverAhead
  BY DEF CountInv
<1>. QED
  BY InitCountInv, NextCountInv, <1>1, PTL DEF Spec

-----------------------------------------------------------------------------

\* The steps of a turn by what it has sent to the store: nothing, its question,
\* its question and its answer.
Before   == {"idle", "budget", "consume"}
Asked    == {"prior", "run", "refund", "govern", "answered", "assistant"}
Answered == {"count", "update", "check", "done"}

\* No message is newer than the clock.
ClockInv ==
  /\ clock \in Nat
  /\ created \in [Message -> Nat]
  /\ \A m \in Message : created[m] <= clock

\* How far a turn has come says which of its two messages are stored, as long as
\* the messages of the session are not deleted, and in which order they are listed.
TurnStored(t) ==
  /\ pc[t] \in {"assistant"} \cup Answered => created[Question(t)] < created[Answer(t)]
  /\ session # "purged" /\ pc[t] \in Asked \cup Answered => Question(t) \in messages
  /\ session # "purged" /\ pc[t] \in Answered => Answer(t) \in messages

\* The count and the title that a turn writes when it has stored its answer.
TurnCounted(t) ==
  session = "live" =>
    /\ pc[t] = "update" => total[t] >= 2
    /\ pc[t] \in {"check", "done"} => messageCount >= 2 /\ title # "default"

StoredInv == ClockInv /\ \A t \in Turn : TurnStored(t) /\ TurnCounted(t)

LEMMA InitClock == Init => ClockInv
<1> SUFFICES ASSUME Init PROVE ClockInv
  OBVIOUS
<1>1. clock \in {0, 2} /\ (clock = 0 => messages = {})
      /\ created = [m \in Message |-> IF m \notin messages THEN 0
                                      ELSE IF m = Question(Earlier) THEN 1 ELSE 2]
  BY DEF Init, ChatInit
<1>2. created \in [Message -> Nat]
  BY <1>1
<1>3. ASSUME NEW m \in Message PROVE created[m] <= clock
  <2>1. created[m] = IF m \notin messages THEN 0 ELSE IF m = Question(Earlier) THEN 1 ELSE 2
    BY <1>1
  <2>2. CASE m \in messages
    BY <1>1, <2>1, <2>2
  <2>3. CASE m \notin messages
    BY <1>1, <2>1, <2>3
  <2>. QED
    BY <2>2, <2>3
<1>. QED
  BY <1>1, <1>2, <1>3 DEF ClockInv

LEMMA InitStoredInv == Init => StoredInv
<1> SUFFICES ASSUME Init PROVE StoredInv
  OBVIOUS
<1>1. ASSUME NEW t \in Turn PROVE pc[t] = "idle"
  BY DEF Init, ChatInit
<1>. QED
  BY <1>1, InitClock DEF StoredInv, TurnStored, TurnCounted, Asked, Answered

\* _persist_message takes the time: a later one than every message has.
LEMMA StampClock ==
  ASSUME ClockInv, NEW t \in Turn, NEW role \in {"user", "assistant"}, Stamp(t, role)
  PROVE  /\ ClockInv'
         /\ created'[<<t, role>>] = clock + 1
         /\ \A m \in Message : m # <<t, role>> => created'[m] = created[m]
<1> DEFINE new == <<t, role>>
<1>1. new \in Message
  BY DEF Message
<1>2. /\ clock' = clock + 1 /\ clock \in Nat /\ created \in [Message -> Nat]
      /\ created' = [created EXCEPT ![new] = clock + 1]
  BY DEF Stamp, ClockInv
<1> HIDE DEF new
<1>3. created' \in [Message -> Nat]
  <2>1. clock + 1 \in Nat
    BY <1>2
  <2>. QED
    BY <1>2, <2>1
<1>4. /\ created'[new] = clock + 1
      /\ \A m \in Message : m # new => created'[m] = created[m]
  BY <1>1, <1>2
<1>5. ASSUME NEW m \in Message PROVE created'[m] <= clock'
  <2>1. created[m] <= clock /\ created[m] \in Nat
    BY <1>2 DEF ClockInv
  <2>. QED
    BY <1>2, <1>4, <2>1
<1>. QED
  BY <1>2, <1>3, <1>4, <1>5 DEF ClockInv, new

\* A step of a turn t that takes no message away and no time back: what is known
\* of the other turns stays known; what is known of t is to be shown.
LEMMA OthersStored ==
  ASSUME CountInv, StoredInv, NEW t \in Turn, NEW to,
         pc' = [pc EXCEPT ![t] = to],
         session' = session, messages \subseteq messages',
         \A m \in Message : m[1] # t => created'[m] = created[m],
         NEW u \in Turn \ {t}
  PROVE  TurnStored(u)'
<1>1. pc'[u] = pc[u]
  BY DEF CountInv
<1>2. /\ Question(u)' = Question(u) /\ Answer(u)' = Answer(u)
      /\ created'[Question(u)] = created[Question(u)]
      /\ created'[Answer(u)] = created[Answer(u)]
  <2>1. Question(u) \in Message /\ Answer(u) \in Message
        /\ Question(u)[1] = u /\ Answer(u)[1] = u
    BY DEF Message, Question, Answer
  <2>. QED
    BY <2>1 DEF Question, Answer
<1>. QED
  BY <1>1, <1>2 DEF StoredInv, TurnStored

\* A step that writes neither counter nor title.
LEMMA KeepsCounted ==
  ASSUME CountInv, StoredInv, NEW t \in Turn, NEW to, pc' = [pc EXCEPT ![t] = to],
         to \notin {"update", "check", "done"} \/ to = pc[t],
         UNCHANGED <<session, messageCount, title>>,
         total' = total \/ total' = [total EXCEPT ![t] = 0],
         to = "update" => total' = total,
         NEW u \in Turn
  PROVE  TurnCounted(u)'
<1>1. DOMAIN pc = Turn /\ DOMAIN total = Turn /\ TurnCounted(u)
  BY DEF CountInv, StoredInv
<1>2. CASE u = t
  BY <1>1, <1>2 DEF TurnCounted
<1>3. CASE u # t
  BY <1>1, <1>3 DEF TurnCounted
<1>. QED
  BY <1>2, <1>3

\* The steps that stamp a message.
LEMMA StampStored ==
  ASSUME CountInv, StoredInv, NEW t \in Turn,
         \/ CheckBudget(t) /\ Stamp(t, "user")
         \/ ClaimAnswered(t)
         \/ StampAssistant(t)
  PROVE  StoredInv'
<1> USE DEF Asked, Answered
<1>1. PICK role \in {"user", "assistant"}, to \in {"user", "assistant"} :
        /\ Stamp(t, role) /\ pc' = [pc EXCEPT ![t] = to]
        /\ role = to
        /\ role = "assistant" => pc[t] = "answered"
  <2>1. CASE CheckBudget(t) /\ Stamp(t, "user")
    <3>1. pc' = [pc EXCEPT ![t] = "user"]
      <4>1. clock \in Nat /\ clock' = clock + 1
        BY <2>1 DEF Stamp, StoredInv, ClockInv
      <4>2. clock' # clock
        BY <4>1
      <4>. QED
        BY <2>1, <4>2 DEF CheckBudget, Goto
    <3>. QED
      BY <2>1, <3>1
  <2>2. CASE ClaimAnswered(t)
    BY <2>2 DEF ClaimAnswered, Goto
  <2>3. CASE StampAssistant(t)
    BY <2>3 DEF StampAssistant, Goto
  <2>. QED
    BY <2>1, <2>2, <2>3
<1>2. UNCHANGED <<session, messages, messageCount, title, total>>
  BY DEF CheckBudget, ClaimAnswered, StampAssistant
<1>3. /\ ClockInv' /\ created'[<<t, role>>] = clock + 1 /\ clock \in Nat
      /\ \A m \in Message : m # <<t, role>> => created'[m] = created[m]
  BY <1>1, StampClock DEF StoredInv, ClockInv
<1>4. \A m \in Message : m[1] # t => created'[m] = created[m]
  BY <1>3
<1>5. pc'[t] = to
  BY <1>1 DEF CountInv
<1>6. TurnStored(t)'
  <2>1. CASE to = "user"
    BY <1>5, <2>1 DEF TurnStored
  <2>2. CASE to = "assistant"
    <3>1. Question(t) \in Message /\ Question(t) # <<t, role>> /\ Answer(t) = <<t, role>>
      BY <1>1, <2>2 DEF Message, Question, Answer
    <3>2. created'[Question(t)] = created[Question(t)] /\ created[Question(t)] <= clock
          /\ created[Question(t)] \in Nat
      BY <1>3, <3>1 DEF StoredInv, ClockInv
    <3>3. created'[Question(t)] < created'[Answer(t)]
      BY <1>3, <3>1, <3>2
    <3>4. session # "purged" => Question(t) \in messages
      BY <1>1, <2>2 DEF StoredInv, TurnStored
    <3>. QED
      BY <1>2, <1>5, <2>2, <3>3, <3>4 DEF TurnStored, Question, Answer
  <2>. QED
    BY <2>1, <2>2
<1>7. \A u \in Turn \ {t} : TurnStored(u)'
  BY <1>1, <1>2, <1>4, OthersStored
<1>8. \A u \in Turn : TurnCounted(u)'
  BY <1>1, <1>2, KeepsCounted
<1>. QED
  BY <1>3, <1>6, <1>7, <1>8 DEF StoredInv

\* The steps that store a message.
LEMMA PersistStored ==
  ASSUME CountInv, StoredInv, NEW t \in Turn, PersistUser(t) \/ PersistAssistant(t)
  PROVE  StoredInv'
<1> USE DEF Asked, Answered
<1>1. PICK role \in {"user", "assistant"}, to \in {"prior", "answered", "count"} :
        /\ messages' = messages \cup {<<t, role>>} /\ pc' = [pc EXCEPT ![t] = to]
        /\ role = "user" => to # "count"
        /\ role = "assistant" => pc[t] = "assistant" /\ to = "count"
  BY DEF PersistUser, PersistAssistant, Insert, Goto
<1>2. UNCHANGED <<session, messageCount, title, total, created, clock>>
  BY DEF PersistUser, PersistAssistant, Insert
<1>3. pc'[t] = to
  BY <1>1 DEF CountInv
<1>4. TurnStored(t)'
  BY <1>1, <1>2, <1>3 DEF StoredInv, TurnStored, Question, Answer
<1>5. \A u \in Turn \ {t} : TurnStored(u)'
  BY <1>1, <1>2, OthersStored
<1>6. \A u \in Turn : TurnCounted(u)'
  BY <1>1, <1>2, KeepsCounted
<1>. QED
  BY <1>2, <1>4, <1>5, <1>6 DEF StoredInv, ClockInv

\* The steps of a turn that send no message.
LEMMA OtherStepStored ==
  ASSUME CountInv, StoredInv, NEW t \in Turn, TurnStep(t) \/ Abandon(t),
         ~(CheckBudget(t) /\ Stamp(t, "user")), ~ClaimAnswered(t), ~StampAssistant(t),
         ~PersistUser(t), ~PersistAssistant(t)
  PROVE  StoredInv'
<1> USE DEF Asked, Answered
<1>1. DOMAIN pc = Turn /\ DOMAIN total = Turn
  BY DEF CountInv
<1>2. CASE ClaimCall(t)
  BY <1>2 DEF ClaimCall, chatStore, local, StoredInv, ClockInv, TurnStored, TurnCounted,
     Question, Answer
<1>3. ASSUME NEW to, pc' = [pc EXCEPT ![t] = to],
             UNCHANGED <<session, messages, created, clock>>,
             to \in Asked => pc[t] \in Asked \ {"assistant"} /\ to # "assistant",
             to \in Answered => pc[t] \in Answered
      PROVE  ClockInv' /\ \A u \in Turn : TurnStored(u)'
  <2>1. TurnStored(t)'
    BY <1>1, <1>3 DEF StoredInv, TurnStored, Question, Answer
  <2>2. \A u \in Turn \ {t} : TurnStored(u)'
    BY <1>3, OthersStored
  <2>. QED
    BY <1>3, <2>1, <2>2 DEF StoredInv, ClockInv
<1>4. ASSUME NEW to, pc' = [pc EXCEPT ![t] = to],
             UNCHANGED <<session, messages, created, clock, messageCount, title>>,
             to \in Asked => pc[t] \in Asked \ {"assistant"} /\ to # "assistant",
             to \notin Answered,
             total' = total \/ total' = [total EXCEPT ![t] = 0]
      PROVE  StoredInv'
  <2>1. ClockInv' /\ \A u \in Turn : TurnStored(u)'
    BY <1>3, <1>4
  <2>2. \A u \in Turn : TurnCounted(u)'
    BY <1>4, KeepsCounted
  <2>. QED
    BY <2>1, <2>2 DEF StoredInv
<1>5. CASE ReadSession(t)
  BY <1>4, <1>5 DEF ReadSession, Goto, chatStore
<1>6. CASE CheckBudget(t)
  <2>1. pc' = [pc EXCEPT ![t] = "consume"] /\ UNCHANGED <<created, clock>>
    BY <1>6 DEF CheckBudget, Goto
  <2>. QED
    BY <1>4, <1>6, <2>1 DEF CheckBudget
<1>7. CASE LoadPrior(t) \/ AgentEnds(t)
  BY <1>4, <1>7 DEF LoadPrior, AgentEnds, Goto, chatStore
<1>8. CASE RefundCall(t)
  BY <1>4, <1>8 DEF RefundCall, Forget, Goto, chatStore
<1>9. CASE Govern(t)
  BY <1>4, <1>9 DEF Govern, Goto
<1>10. CASE Abandon(t)
  BY <1>4, <1>10 DEF Abandon, Forget, chatStore
<1>11. CASE CountMessages(t)
  <2>1. /\ pc[t] = "count" /\ pc' = [pc EXCEPT ![t] = "update"]
        /\ total' = [total EXCEPT ![t] = Cardinality(messages)]
        /\ UNCHANGED <<session, messages, created, clock, messageCount, title>>
    BY <1>11 DEF CountMessages, Goto, chatStore
  <2>2. ClockInv' /\ \A u \in Turn : TurnStored(u)'
    BY <1>3, <2>1
  <2>3. ASSUME session = "live" PROVE Cardinality(messages) >= 2
    <3>1. Question(t) \in messages /\ Answer(t) \in messages /\ Question(t) # Answer(t)
      BY <2>1, <2>3 DEF StoredInv, TurnStored, Question, Answer
    <3> DEFINE two == {Question(t), Answer(t)}
    <3>2. two \subseteq messages /\ Cardinality(two) = 2
      BY <3>1, TwoElements
    <3> HIDE DEF two
    <3>3. IsFiniteSet(messages)
      BY DEF CountInv
    <3>. QED
      BY <3>2, <3>3, FS_Subset, FS_CardinalityType
  <2>4. ASSUME NEW u \in Turn PROVE TurnCounted(u)'
    BY <1>1, <2>1, <2>3 DEF StoredInv, TurnCounted
  <2>. QED
    BY <2>2, <2>4 DEF StoredInv
<1>12. CASE UpdateSession(t)
  <2>1. /\ pc[t] = "update" /\ pc' = [pc EXCEPT ![t] = "check"]
        /\ UNCHANGED <<session, messages, created, clock, total>>
        /\ session = "live" => messageCount' = total[t] /\ title' # "default"
    BY <1>12 DEF UpdateSession, Goto, NewTitle, Placeholders
  <2>2. ClockInv' /\ \A u \in Turn : TurnStored(u)'
    BY <1>3, <2>1
  <2>3. ASSUME NEW u \in Turn PROVE TurnCounted(u)'
    BY <1>1, <2>1 DEF StoredInv, TurnCounted
  <2>. QED
    BY <2>2, <2>3 DEF StoredInv
<1>13. CASE Respond(t)
  <2>1. /\ pc[t] = "check"
        /\ pc' = [pc EXCEPT ![t] = IF session = "live" THEN "done" ELSE "error"]
        /\ total' = [total EXCEPT ![t] = 0]
        /\ UNCHANGED <<session, messages, created, clock, messageCount, title>>
    BY <1>13 DEF Respond, Forget, Goto, chatStore
  <2>2. ClockInv' /\ \A u \in Turn : TurnStored(u)'
    BY <1>3, <2>1
  <2>3. ASSUME NEW u \in Turn PROVE TurnCounted(u)'
    BY <1>1, <2>1 DEF StoredInv, TurnCounted
  <2>. QED
    BY <2>2, <2>3 DEF StoredInv
<1>. QED
  BY <1>2, <1>5, <1>6, <1>7, <1>8, <1>9, <1>10, <1>11, <1>12, <1>13 DEF TurnStep

LEMMA NextStoredInv == CountInv /\ StoredInv /\ [Next]_vars => StoredInv'
<1> SUFFICES ASSUME CountInv, StoredInv, [Next]_vars PROVE StoredInv'
  OBVIOUS
<1> USE DEF StoredInv, ClockInv, TurnStored, TurnCounted, Question, Answer
<1>1. CASE DeleteSession
  BY <1>1 DEF DeleteSession, local
<1>2. CASE DeleteMessages
  BY <1>2 DEF DeleteMessages, local
<1>3. CASE Rename
  BY <1>3, ChatAssumption DEF Rename, local, Named
<1>4. CASE Midnight \/ UNCHANGED vars
  BY <1>4 DEF Midnight, vars, chatStore, local
<1>. QED
  BY <1>1, <1>2, <1>3, <1>4, StampStored, PersistStored, OtherStepStored DEF Next

\* A turn that was answered (stream_message's last event, send_message's
\* response) has its question and then its answer in the session, is counted,
\* and the session has a title.
THEOREM AnsweredIsStored == Spec => []AnsweredTurnIsVisible
<1>1. StoredInv => AnsweredTurnIsVisible
  BY DEF StoredInv, TurnStored, TurnCounted, Answered, AnsweredTurnIsVisible
<1>. QED
  BY InitCountInv, NextCountInv, InitStoredInv, NextStoredInv, <1>1, PTL DEF Spec

-----------------------------------------------------------------------------

\* What a turn has of the past when its agent begins.
GivenThePast(t) ==
  /\ Older(Question(t)) \subseteq prior'[t]
  /\ (\A m \in messages : created[m] <= created[Question(t)]) =>
       prior'[t] = Older(Question(t))

\* list_messages(session_id)[:-1], when the turn's question is within the page.
LEMMA LoadPriorGives ==
  ASSUME CountInv, StoredInv, messages \subseteq Message, DOMAIN prior = Turn,
         NEW t \in Turn, LoadPrior(t), session # "purged",
         Cardinality(Older(Question(t))) < HistoryMax
  PROVE  GivenThePast(t)
<1>1. prior'[t] = {m \in Listed : \E k \in Listed : created[k] > created[m]}
  BY DEF LoadPrior
<1>2. Question(t) \in messages
  BY DEF LoadPrior, Goto, StoredInv, TurnStored, Asked
<1>3. \A m \in messages : created[m] \in Nat
  BY DEF StoredInv, ClockInv
<1>4. ASSUME NEW m \in Older(Question(t)) PROVE m \in Listed
  <2>1. m \in messages /\ created[m] < created[Question(t)]
    BY <1>4 DEF Older
  <2>2. Older(m) \subseteq Older(Question(t))
    <3>1. ASSUME NEW k \in messages, created[k] < created[m]
          PROVE  created[k] < created[Question(t)]
      BY <1>2, <1>3, <2>1, <3>1
    <3>. QED
      BY <3>1 DEF Older
  <2>3. IsFiniteSet(Older(Question(t)))
    <3>1. IsFiniteSet(messages) /\ Older(Question(t)) \subseteq messages
      BY DEF CountInv, Older
    <3>. QED
      BY <3>1, FS_Subset
  <2>4. /\ Cardinality(Older(m)) <= Cardinality(Older(Question(t)))
        /\ Cardinality(Older(m)) \in Nat /\ Cardinality(Older(Question(t))) \in Nat
    BY <2>2, <2>3, FS_Subset, FS_CardinalityType
  <2>5. Cardinality(Older(m)) < HistoryMax
    BY <2>4, ChatAssumption
  <2>. QED
    BY <2>1, <2>5 DEF Listed
<1>5. Question(t) \in Listed
  BY <1>2 DEF Listed
<1>6. Older(Question(t)) \subseteq prior'[t]
  <2>1. ASSUME NEW m \in Older(Question(t)) PROVE created[Question(t)] > created[m]
    BY <1>2, <1>3, <2>1 DEF Older
  <2>. QED
    BY <1>1, <1>4, <1>5, <2>1
<1>7. ASSUME \A m \in messages : created[m] <= created[Question(t)],
             NEW m \in prior'[t]
      PROVE  m \in Older(Question(t))
  <2>1. PICK k \in Listed : m \in Listed /\ created[k] > created[m]
    BY <1>1, <1>7
  <2>2. m \in messages /\ k \in messages
    BY <2>1 DEF Listed
  <2>3. created[m] < created[Question(t)]
    BY <1>2, <1>3, <1>7, <2>1, <2>2
  <2>. QED
    BY <2>2, <2>3 DEF Older
<1>. QED
  BY <1>6, <1>7 DEF GivenThePast

\* No other step takes a turn to its agent.
LEMMA OnlyLoadPriorRuns ==
  ASSUME CountInv, Next, NEW t \in Turn, pc[t] = "prior", pc'[t] = "run"
  PROVE  LoadPrior(t)
<1>1. DOMAIN pc = Turn
  BY DEF CountInv
<1>2. ASSUME NEW u \in Turn, TurnStep(u) \/ Abandon(u), u # t PROVE pc'[t] = pc[t]
  BY <1>1, <1>2 DEF TurnStep, ReadSession, CheckBudget, ClaimCall, ClaimAnswered, PersistUser,
     LoadPrior, AgentEnds, RefundCall, Govern, StampAssistant, PersistAssistant, CountMessages,
     UpdateSession, Respond, Abandon, Goto, local
<1>3. ASSUME TurnStep(t) \/ Abandon(t), ~LoadPrior(t) PROVE FALSE
  BY <1>1, <1>3 DEF TurnStep, ReadSession, CheckBudget, ClaimCall, ClaimAnswered, PersistUser,
     AgentEnds, RefundCall, Govern, StampAssistant, PersistAssistant, CountMessages,
     UpdateSession, Respond, Abandon, Goto, local
<1>4. ~(Rename \/ DeleteSession \/ DeleteMessages \/ Midnight)
  BY DEF Rename, DeleteSession, DeleteMessages, Midnight, local
<1>. QED
  BY <1>2, <1>3, <1>4 DEF Next

\* Two facts of the types that the history needs.
HistoryInv == messages \subseteq Message /\ DOMAIN prior = Turn

LEMMA InitHistory == Init => HistoryInv
BY DEF Init, ChatInit, HistoryInv, Message, Question, Answer

LEMMA NextHistory == HistoryInv /\ [Next]_vars => HistoryInv'
<1> SUFFICES ASSUME HistoryInv, [Next]_vars PROVE HistoryInv'
  OBVIOUS
<1> USE DEF HistoryInv
<1>1. ASSUME NEW t \in Turn, PersistUser(t) \/ PersistAssistant(t) PROVE HistoryInv'
  BY <1>1 DEF PersistUser, PersistAssistant, Insert, Message
<1>2. ASSUME NEW t \in Turn, TurnStep(t) \/ Abandon(t), ~PersistUser(t), ~PersistAssistant(t)
      PROVE  HistoryInv'
  BY <1>2 DEF TurnStep, ReadSession, CheckBudget, ClaimCall, ClaimAnswered, LoadPrior,
     AgentEnds, RefundCall, Govern, StampAssistant, CountMessages, UpdateSession, Respond,
     Abandon, Forget, chatStore, local
<1>3. CASE Rename \/ DeleteSession \/ DeleteMessages \/ Midnight \/ UNCHANGED vars
  BY <1>3 DEF Rename, DeleteSession, DeleteMessages, Midnight, vars, chatStore, local
<1>. QED
  BY <1>1, <1>2, <1>3 DEF Next

\* The history of a turn whose question is on the page of list_messages holds
\* all that was stored by then with an earlier created_at, and nothing else
\* unless a later message was stored already: list_messages(session_id)[:-1] of
\* chat.py.
THEOREM PastIsGiven ==
  Spec => [][\A t \in Turn : /\ pc[t] = "prior" /\ pc'[t] = "run" /\ session # "purged"
                             /\ Cardinality(Older(Question(t))) < HistoryMax
                             => GivenThePast(t)]_vars
<1>1. CountInv /\ StoredInv /\ HistoryInv /\ [Next]_vars =>
        [\A t \in Turn : /\ pc[t] = "prior" /\ pc'[t] = "run" /\ session # "purged"
                         /\ Cardinality(Older(Question(t))) < HistoryMax
                         => GivenThePast(t)]_vars
  BY OnlyLoadPriorRuns, LoadPriorGives DEF HistoryInv
<1>. QED
  BY InitCountInv, NextCountInv, InitStoredInv, NextStoredInv, InitHistory, NextHistory, <1>1,
     PTL DEF Spec

-----------------------------------------------------------------------------

\* A turn stamps its question once and its answer once: the times of a session
\* are bounded by the turns that have come so far.
HaveAsked    == {t \in Turn : pc[t] \notin Before}
HaveAnswered == {t \in Turn : pc[t] \in {"assistant"} \cup Answered \cup Ended}

SizeInv == clock <= 2 + Cardinality(HaveAsked) + Cardinality(HaveAnswered)

LEMMA SizesAreBounded ==
  ASSUME IsFiniteSet(Turn)
  PROVE  /\ IsFiniteSet(HaveAsked) /\ IsFiniteSet(HaveAnswered)
         /\ Cardinality(HaveAsked) \in Nat /\ Cardinality(HaveAnswered) \in Nat
         /\ Cardinality(HaveAsked) <= Cardinality(Turn)
         /\ Cardinality(HaveAnswered) <= Cardinality(Turn)
         /\ Cardinality(Turn) \in Nat
<1>1. HaveAsked \subseteq Turn /\ HaveAnswered \subseteq Turn
  BY DEF HaveAsked, HaveAnswered
<1>. QED
  BY <1>1, FS_Subset, FS_CardinalityType

\* Two messages for each turn.
LEMMA MessagesAreFinite ==
  ASSUME IsFiniteSet(Turn)
  PROVE  /\ IsFiniteSet(Message) /\ Cardinality(Message) = MostMessages /\ MostMessages \in Nat
         /\ MostMessages = 2 * (Cardinality(Turn) + 1)
<1>1. /\ IsFiniteSet(Turn \cup {Earlier}) /\ Cardinality(Turn \cup {Earlier}) = Cardinality(Turn) + 1
      /\ Cardinality(Turn) \in Nat
  BY FS_AddElement, FS_CardinalityType, ChatAssumption
<1>2. IsFiniteSet({"user", "assistant"}) /\ Cardinality({"user", "assistant"}) = 2
  BY TwoElements
<1>3. IsFiniteSet(Message) /\ Cardinality(Message) = (Cardinality(Turn) + 1) * 2
  <2> DEFINE A == Turn \cup {Earlier}
             B == {"user", "assistant"}
  <2>1. Message = A \X B
    BY DEF Message
  <2> HIDE DEF A, B
  <2>2. IsFiniteSet(A \X B) /\ Cardinality(A \X B) = Cardinality(A) * Cardinality(B)
    BY <1>1, <1>2, FS_Product DEF A, B
  <2>. QED
    BY <1>1, <1>2, <2>1, <2>2 DEF A, B
<1>. QED
  BY <1>1, <1>3 DEF MostMessages

\* Sets that grow, one of them by a turn that was not in it, grow in number.
LEMMA LargerSets ==
  ASSUME NEW A, NEW B, IsFiniteSet(B), A \subseteq B
  PROVE  /\ Cardinality(A) <= Cardinality(B)
         /\ \A t \in B : t \notin A => Cardinality(A) + 1 <= Cardinality(B)
<1>1. Cardinality(A) <= Cardinality(B) /\ IsFiniteSet(A) /\ Cardinality(B) \in Nat
  BY FS_Subset, FS_CardinalityType
<1>2. ASSUME NEW t \in B, t \notin A PROVE Cardinality(A) + 1 <= Cardinality(B)
  <2>1. Cardinality(A \cup {t}) = Cardinality(A) + 1
    BY <1>1, <1>2, FS_AddElement
  <2>2. A \cup {t} \subseteq B
    OBVIOUS
  <2> DEFINE C == A \cup {t}
  <2> HIDE DEF C
  <2>3. Cardinality(C) <= Cardinality(B)
    BY <2>2, FS_Subset DEF C
  <2>. QED
    BY <2>1, <2>3 DEF C
<1>. QED
  BY <1>1, <1>2

LEMMA InitTypeOK == ASSUME IsFiniteSet(Turn) PROVE Init => TypeOK /\ SizeInv
<1> SUFFICES ASSUME Init PROVE TypeOK /\ SizeInv
  OBVIOUS
<1>1. QuotaTypeOK
  BY QuotaAssumption DEF Init, QuotaInit, QuotaTypeOK, Day, ClaimState
<1>2. clock \in {0, 2} /\ messages \in SUBSET Message
  BY DEF Init, ChatInit, Message, Question, Answer
<1>3. 2 <= MostMessages /\ MostMessages \in Nat
  BY SizesAreBounded DEF MostMessages
<1>4. SizeInv
  BY <1>2, SizesAreBounded DEF SizeInv
<1>5. /\ session = "live" /\ title \in Titles /\ messageCount = clock
      /\ tokens \in [Day -> Nat] /\ pc \in [Turn -> {"idle"} \cup Steps \cup Ended]
      /\ kind \in [Turn -> {"answer", "notice"}] /\ snap \in [Turn -> Titles]
      /\ prior \in [Turn -> SUBSET Message]
  BY DEF Init, ChatInit, Titles, Placeholders
<1>6. 0 \in 0..MostMessages /\ 1 \in 0..MostMessages /\ 2 \in 0..MostMessages
  BY <1>3
<1>7. total \in [Turn -> 0..MostMessages] /\ created \in [Message -> 0..MostMessages]
  BY <1>6 DEF Init, ChatInit
<1>. QED
  BY <1>1, <1>2, <1>4, <1>5, <1>6, <1>7 DEF TypeOK

\* The quota's part of the type: the steps of consume(), refund() and the day.
LEMMA QuotaTypes ==
  ASSUME QuotaTypeOK, [Next]_vars PROVE QuotaTypeOK'
<1> USE QuotaAssumption DEF QuotaTypeOK
<1>1. CASE UNCHANGED quotaVars
  BY <1>1 DEF quotaVars
<1>2. CASE Midnight
  BY <1>2 DEF Midnight, NextDay, Day
<1>3. ASSUME NEW t \in Turn, ClaimCall(t) \/ RefundCall(t) PROVE QuotaTypeOK'
  <2>1. ASSUME NEW c \in ClaimState, claim' = [claim EXCEPT ![t] = c],
               NEW n \in Int \cup {None}, calls' = [calls EXCEPT ![today] = n], today' = today,
               failures' = failures \/ (failures < MaxFailures /\ failures' = failures + 1)
        PROVE  QuotaTypeOK'
    BY <2>1
  <2>2. calls = [calls EXCEPT ![today] = calls[today]] /\ calls[today] \in Int \cup {None}
    OBVIOUS
  <2>3. {"upsert", "seed", "reread", "granted", "refused", "refunded"} \subseteq ClaimState
    BY DEF ClaimState
  <2>4. CASE Consume(t) \/ Reread(t) \/ ConsumeFails(t) \/ RefundFails(t)
    BY <2>1, <2>2, <2>3, <2>4 DEF Consume, Reread, ConsumeFails, RefundFails
  <2>5. CASE Upsert(t)
    <3>1. calls[today] # None => calls[today] + 1 \in Int
      BY <2>2
    <3>. QED
      BY <2>1, <2>2, <2>3, <2>5, <3>1 DEF Upsert
  <2>6. CASE Seed(t)
    <3> DEFINE n == IF calls[today] = None THEN 0 ELSE calls[today]
    <3>1. n \in Int \cup {None} /\ calls' = [calls EXCEPT ![today] = n]
      BY <2>2, <2>6 DEF Seed
    <3> HIDE DEF n
    <3>. QED
      BY <2>1, <2>3, <2>6, <3>1 DEF Seed
  <2>7. CASE Refund(t)
    <3> DEFINE n == IF calls[today] = None THEN None ELSE calls[today] - 1
    <3>1. n \in Int \cup {None} /\ calls' = [calls EXCEPT ![today] = n]
      BY <2>2, <2>7 DEF Refund
    <3> HIDE DEF n
    <3>. QED
      BY <2>1, <2>3, <2>7, <3>1 DEF Refund
  <2>. QED
    BY <1>3, <2>4, <2>5, <2>6, <2>7 DEF ClaimCall, RefundCall, ConsumeStep
<1>4. ASSUME NEW t \in Turn, TurnStep(t) \/ Abandon(t), ~ClaimCall(t), ~RefundCall(t)
      PROVE  QuotaTypeOK'
  <2>1. CASE CheckBudget(t) \/ Govern(t)
    BY <2>1 DEF CheckBudget, Govern
  <2>2. CASE UNCHANGED quotaVars
    BY <1>1, <2>2
  <2>3. ASSUME ~ CheckBudget(t), ~ Govern(t) PROVE UNCHANGED quotaVars
    BY <1>4, <2>3 DEF TurnStep, ReadSession, ClaimAnswered, PersistUser, LoadPrior, AgentEnds,
       StampAssistant, PersistAssistant, CountMessages, UpdateSession, Respond, Abandon
  <2>. QED
    BY <2>1, <2>2, <2>3
<1>5. ASSUME NEW t \in Turn, TurnStep(t) \/ Abandon(t) PROVE QuotaTypeOK'
  BY <1>3, <1>4, <1>5
<1>6. CASE Rename \/ DeleteSession \/ DeleteMessages \/ UNCHANGED vars
  BY <1>1, <1>6 DEF Rename, DeleteSession, DeleteMessages, vars
<1>. QED
  BY <1>2, <1>5, <1>6 DEF Next

\* No step but those that stamp a message moves the clock, and a turn that stamps
\* one enters the set that pays for it.
LEMMA NextSize ==
  ASSUME IsFiniteSet(Turn), TypeOK, SizeInv, [Next]_vars PROVE SizeInv'
<1> USE DEF Before, Asked, Answered, Ended
<1>1. clock \in Nat
  BY DEF TypeOK
<1>2. /\ IsFiniteSet(HaveAsked') /\ IsFiniteSet(HaveAnswered')
      /\ Cardinality(HaveAsked') \in Nat /\ Cardinality(HaveAnswered') \in Nat
      /\ Cardinality(HaveAsked) \in Nat /\ Cardinality(HaveAnswered) \in Nat
  <2>1. HaveAsked' \subseteq Turn /\ HaveAnswered' \subseteq Turn
    BY DEF HaveAsked, HaveAnswered
  <2>. QED
    BY <2>1, SizesAreBounded, FS_Subset, FS_CardinalityType
<1>3. ASSUME HaveAsked \subseteq HaveAsked', HaveAnswered \subseteq HaveAnswered', clock' = clock
      PROVE  SizeInv'
  <2>1. /\ Cardinality(HaveAsked) <= Cardinality(HaveAsked')
        /\ Cardinality(HaveAnswered) <= Cardinality(HaveAnswered')
    BY <1>2, <1>3, LargerSets
  <2>. QED
    BY <1>1, <1>2, <1>3, <2>1 DEF SizeInv
<1>4. ASSUME NEW t \in Turn, clock' = clock + 1,
             \/ pc[t] \in Before /\ pc' = [pc EXCEPT ![t] = "user"]
             \/ pc[t] = "answered" /\ pc' = [pc EXCEPT ![t] = "assistant"]
      PROVE  SizeInv'
  <2>1. /\ HaveAsked \subseteq HaveAsked' /\ HaveAnswered \subseteq HaveAnswered'
        /\ \/ t \in HaveAsked' /\ t \notin HaveAsked
           \/ t \in HaveAnswered' /\ t \notin HaveAnswered
    BY <1>4 DEF HaveAsked, HaveAnswered, TypeOK
  <2>2. /\ Cardinality(HaveAsked) <= Cardinality(HaveAsked')
        /\ Cardinality(HaveAnswered) <= Cardinality(HaveAnswered')
        /\ \/ Cardinality(HaveAsked) + 1 <= Cardinality(HaveAsked')
           \/ Cardinality(HaveAnswered) + 1 <= Cardinality(HaveAnswered')
    BY <1>2, <2>1, LargerSets
  <2>. QED
    BY <1>1, <1>2, <1>4, <2>2 DEF SizeInv
<1>5. ASSUME NEW t \in Turn, NEW to, pc' = [pc EXCEPT ![t] = to],
             to \in Before => pc[t] \in Before,
             pc[t] \in {"assistant"} \cup Answered \cup Ended =>
               to \in {"assistant"} \cup Answered \cup Ended,
             clock' = clock
      PROVE  SizeInv'
  <2>1. \A u \in Turn : pc'[u] = IF u = t THEN to ELSE pc[u]
    BY <1>5 DEF TypeOK
  <2>2. HaveAsked \subseteq HaveAsked' /\ HaveAnswered \subseteq HaveAnswered'
    BY <1>5, <2>1 DEF HaveAsked, HaveAnswered
  <2>. QED
    BY <1>3, <1>5, <2>2
<1>6. ASSUME pc' = pc, clock' = clock PROVE SizeInv'
  BY <1>3, <1>6 DEF HaveAsked, HaveAnswered
<1>7. ASSUME NEW t \in Turn, CheckBudget(t) PROVE SizeInv'
  <2>1. CASE Goto(t, "budget", "user") /\ Stamp(t, "user")
    BY <1>4, <2>1 DEF Goto, Stamp
  <2>2. CASE Goto(t, "budget", "consume") /\ UNCHANGED clock
    BY <1>5, <2>2 DEF Goto
  <2>. QED
    BY <1>7, <2>1, <2>2 DEF CheckBudget
<1>8. ASSUME NEW t \in Turn, ClaimAnswered(t) \/ StampAssistant(t) PROVE SizeInv'
  BY <1>4, <1>8 DEF ClaimAnswered, StampAssistant, Goto, Stamp
<1>9. ASSUME NEW t \in Turn, PersistUser(t) PROVE SizeInv'
  <2>1. PICK to \in {"prior", "answered"} : pc' = [pc EXCEPT ![t] = to] /\ pc[t] = "user"
    BY <1>9 DEF PersistUser, Goto
  <2>. QED
    BY <1>5, <1>9, <2>1 DEF PersistUser, Insert
<1>10. ASSUME NEW t \in Turn, PersistAssistant(t) \/ LoadPrior(t) \/ ReadSession(t) PROVE SizeInv'
  BY <1>5, <1>10 DEF PersistAssistant, LoadPrior, ReadSession, Insert, Goto, chatStore
<1>11. ASSUME NEW t \in Turn, AgentEnds(t) \/ RefundCall(t) \/ Govern(t) \/ CountMessages(t)
      PROVE  SizeInv'
  BY <1>5, <1>11 DEF AgentEnds, RefundCall, Govern, CountMessages, Goto, chatStore
<1>12. ASSUME NEW t \in Turn, UpdateSession(t) \/ Respond(t) \/ Abandon(t) PROVE SizeInv'
  BY <1>5, <1>12 DEF UpdateSession, Respond, Abandon, Steps, Goto, chatStore
<1>13. ASSUME NEW t \in Turn, ClaimCall(t) PROVE SizeInv'
  BY <1>6, <1>13 DEF ClaimCall, chatStore, local
<1>14. CASE Rename \/ DeleteSession \/ DeleteMessages \/ Midnight \/ UNCHANGED vars
  BY <1>6, <1>14 DEF Rename, DeleteSession, DeleteMessages, Midnight, vars, chatStore, local
<1>. QED
  BY <1>7, <1>8, <1>9, <1>10, <1>11, <1>12, <1>13, <1>14 DEF Next, TurnStep

\* The session's document, its messages and the locals of a turn; the clock's
\* bound comes from SizeInv.
LEMMA ChatTypes ==
  ASSUME IsFiniteSet(Turn), TypeOK, NEW most \in Nat, most = MostMessages,
         clock' \in 0..most, [Next]_vars
  PROVE  /\ session' \in {"live", "deleted", "purged"} /\ title' \in Titles
         /\ messageCount' \in 0..most /\ tokens' \in [Day -> Nat]
         /\ messages' \in SUBSET Message /\ created' \in [Message -> 0..most]
         /\ pc' \in [Turn -> {"idle"} \cup Steps \cup Ended]
         /\ kind' \in [Turn -> {"answer", "notice"}] /\ snap' \in [Turn -> Titles]
         /\ prior' \in [Turn -> SUBSET Message] /\ total' \in [Turn -> 0..most]
<1> DEFINE P == /\ session' \in {"live", "deleted", "purged"} /\ title' \in Titles
                /\ messageCount' \in 0..most /\ tokens' \in [Day -> Nat]
                /\ messages' \in SUBSET Message /\ created' \in [Message -> 0..most]
                /\ pc' \in [Turn -> {"idle"} \cup Steps \cup Ended]
                /\ kind' \in [Turn -> {"answer", "notice"}] /\ snap' \in [Turn -> Titles]
                /\ prior' \in [Turn -> SUBSET Message] /\ total' \in [Turn -> 0..most]
<1>1. /\ session \in {"live", "deleted", "purged"} /\ title \in Titles
      /\ messageCount \in 0..most /\ tokens \in [Day -> Nat]
      /\ messages \in SUBSET Message /\ created \in [Message -> 0..most]
      /\ pc \in [Turn -> {"idle"} \cup Steps \cup Ended]
      /\ kind \in [Turn -> {"answer", "notice"}] /\ snap \in [Turn -> Titles]
      /\ prior \in [Turn -> SUBSET Message] /\ total \in [Turn -> 0..most] /\ today \in Day
  BY DEF TypeOK, QuotaTypeOK
<1>2. 0 \in 0..most /\ Cardinality(messages) \in 0..most
  <2>1. /\ Cardinality(messages) <= Cardinality(Message) /\ Cardinality(messages) \in Nat
        /\ Cardinality(Message) = most
    BY <1>1, MessagesAreFinite, FS_Subset, FS_CardinalityType
  <2>. QED
    BY <2>1
<1>3. ASSUME NEW t \in Turn, NEW role \in {"user", "assistant"}, Stamp(t, role)
      PROVE  created' \in [Message -> 0..most]
  <2>1. clock + 1 \in 0..most
    BY <1>3 DEF Stamp
  <2>. QED
    BY <1>1, <1>3, <2>1 DEF Stamp
<1> USE DEF Steps, Ended
<1>4. ASSUME NEW t \in Turn, ReadSession(t) \/ AgentEnds(t) \/ ClaimCall(t) PROVE P
  BY <1>1, <1>4 DEF ReadSession, AgentEnds, ClaimCall, Goto, chatStore, local
<1>5. ASSUME NEW t \in Turn, CheckBudget(t) PROVE P
  <2>1. created' \in [Message -> 0..most]
    BY <1>1, <1>3, <1>5 DEF CheckBudget
  <2>. QED
    BY <1>1, <1>5, <2>1 DEF CheckBudget, Goto
<1>6. ASSUME NEW t \in Turn, ClaimAnswered(t) \/ StampAssistant(t) PROVE P
  <2>1. created' \in [Message -> 0..most]
    BY <1>3, <1>6 DEF ClaimAnswered, StampAssistant
  <2>. QED
    BY <1>1, <1>6, <2>1 DEF ClaimAnswered, StampAssistant, Goto
<1>7. ASSUME NEW t \in Turn, PersistUser(t) \/ PersistAssistant(t) PROVE P
  <2>1. messages' \in SUBSET Message
    BY <1>1, <1>7 DEF PersistUser, PersistAssistant, Insert, Message
  <2>. QED
    BY <1>1, <1>7, <2>1 DEF PersistUser, PersistAssistant, Insert, Goto
<1>8. ASSUME NEW t \in Turn, LoadPrior(t) PROVE P
  <2>1. Listed \subseteq Message
    BY <1>1 DEF Listed
  <2>2. prior' \in [Turn -> SUBSET Message]
    BY <1>1, <1>8, <2>1 DEF LoadPrior
  <2>. QED
    BY <1>1, <1>8, <2>2 DEF LoadPrior, Goto, chatStore
<1>9. ASSUME NEW t \in Turn, RefundCall(t) \/ Respond(t) \/ Abandon(t) PROVE P
  <2>1. UNCHANGED chatStore /\ Forget(t)
        /\ \E to \in {"error", "done", "gone"} : pc' = [pc EXCEPT ![t] = to]
    BY <1>9 DEF RefundCall, Respond, Abandon, Goto
  <2>2. /\ kind' \in [Turn -> {"answer", "notice"}] /\ snap' \in [Turn -> Titles]
        /\ prior' \in [Turn -> SUBSET Message] /\ total' \in [Turn -> 0..most]
    BY <1>1, <1>2, <2>1 DEF Forget, Titles, Placeholders
  <2>. QED
    BY <1>1, <2>1, <2>2 DEF chatStore
<1>10. ASSUME NEW t \in Turn, Govern(t) \/ CountMessages(t) PROVE P
  BY <1>1, <1>2, <1>10 DEF Govern, CountMessages, Goto, chatStore
<1>11. ASSUME NEW t \in Turn, UpdateSession(t) PROVE P
  BY <1>1, <1>11 DEF UpdateSession, NewTitle, Titles, Goto
<1>12. CASE Rename \/ DeleteSession \/ DeleteMessages
  BY <1>1, <1>12, ChatAssumption DEF Rename, DeleteSession, DeleteMessages, Titles, local
<1>13. CASE Midnight \/ UNCHANGED vars
  BY <1>1, <1>13 DEF Midnight, vars, chatStore, local
<1>. QED
  BY <1>4, <1>5, <1>6, <1>7, <1>8, <1>9, <1>10, <1>11, <1>12, <1>13 DEF Next, TurnStep

LEMMA NextTypeOK ==
  ASSUME IsFiniteSet(Turn)
  PROVE  TypeOK /\ SizeInv /\ ClockInv /\ ClockInv' /\ [Next]_vars => TypeOK' /\ SizeInv'
<1> SUFFICES ASSUME TypeOK, SizeInv, ClockInv, ClockInv', [Next]_vars PROVE TypeOK' /\ SizeInv'
  OBVIOUS
<1>1. QuotaTypeOK'
  BY QuotaTypes DEF TypeOK
<1>2. SizeInv'
  BY NextSize
<1>3. MostMessages \in Nat /\ clock' \in 0..MostMessages
  <2>1. HaveAsked' \subseteq Turn /\ HaveAnswered' \subseteq Turn
    BY DEF HaveAsked, HaveAnswered
  <2>2. /\ Cardinality(HaveAsked') <= Cardinality(Turn) /\ Cardinality(HaveAsked') \in Nat
        /\ Cardinality(HaveAnswered') <= Cardinality(Turn) /\ Cardinality(HaveAnswered') \in Nat
        /\ Cardinality(Turn) \in Nat
    BY <2>1, FS_Subset, FS_CardinalityType
  <2>. QED
    BY <1>2, <2>2 DEF SizeInv, MostMessages, ClockInv
<1>4. /\ session' \in {"live", "deleted", "purged"} /\ title' \in Titles
      /\ messageCount' \in 0..MostMessages /\ tokens' \in [Day -> Nat]
      /\ messages' \in SUBSET Message /\ created' \in [Message -> 0..MostMessages]
      /\ pc' \in [Turn -> {"idle"} \cup Steps \cup Ended]
      /\ kind' \in [Turn -> {"answer", "notice"}] /\ snap' \in [Turn -> Titles]
      /\ prior' \in [Turn -> SUBSET Message] /\ total' \in [Turn -> 0..MostMessages]
  BY <1>3, ChatTypes
<1>. QED
  BY <1>1, <1>2, <1>3, <1>4 DEF TypeOK, MostMessages

\* The states are of their types; that no more times are taken than two for each
\* turn is a fact about the turns' steps, not about one assignment.
THEOREM ChatTypeOK == ASSUME IsFiniteSet(Turn) PROVE Spec => []TypeOK
<1>1. StoredInv => ClockInv
  BY DEF StoredInv
<1>. QED
  BY InitTypeOK, NextTypeOK, InitCountInv, NextCountInv, InitStoredInv, NextStoredInv, <1>1,
     PTL DEF Spec

\* In a session that fits a page of list_messages, the agent is given the whole
\* past of the turn, and its own question only if another turn has overtaken it.
THEOREM PriorIsThePast ==
  ASSUME IsFiniteSet(Turn), MostMessages <= HistoryMax PROVE Spec => PriorHasThePast
<1>1. ASSUME StoredInv, HistoryInv, NEW t \in Turn PROVE Cardinality(Older(Question(t))) < HistoryMax
  <2> DEFINE older == Older(Question(t))
  <2>1. Question(t) \in Message /\ Question(t) \notin older /\ older \subseteq Message
    <3>1. Question(t) \in Message /\ older \subseteq Message
      BY <1>1 DEF Older, HistoryInv, Message, Question
    <3>2. created[Question(t)] \in Nat
      BY <1>1, <3>1 DEF StoredInv, ClockInv
    <3>. QED
      BY <3>1, <3>2 DEF Older
  <2>2. IsFiniteSet(Message) /\ Cardinality(Message) = MostMessages /\ MostMessages \in Nat
    BY MessagesAreFinite
  <2> HIDE DEF older
  <2>3. Cardinality(older) + 1 <= Cardinality(Message) /\ Cardinality(older) \in Nat
    BY <2>1, <2>2, LargerSets, FS_Subset, FS_CardinalityType
  <2>. QED
    BY <2>2, <2>3, ChatAssumption DEF older
<1>2. CountInv /\ StoredInv /\ HistoryInv /\ [Next]_vars =>
        [\A t \in Turn : pc[t] = "prior" /\ pc'[t] = "run" /\ session # "purged" =>
           /\ Older(Question(t)) \subseteq prior'[t]
           /\ (\A m \in messages : created[m] <= created[Question(t)]) =>
                prior'[t] = Older(Question(t))]_vars
  BY <1>1, OnlyLoadPriorRuns, LoadPriorGives DEF HistoryInv, GivenThePast
<1>. QED
  BY InitCountInv, NextCountInv, InitStoredInv, NextStoredInv, InitHistory, NextHistory, <1>2,
     PTL DEF Spec, PriorHasThePast

-----------------------------------------------------------------------------

\* A name that is no placeholder is lost only to a turn that read the session
\* before it was given.
LEMMA NameStep ==
  ASSUME CountInv, Next, title = "named", title' # title
  PROVE  \E t \in Turn : pc[t] = "update" /\ pc'[t] = "check" /\ snap[t] # "named"
<1>1. ASSUME NEW t \in Turn, UpdateSession(t)
      PROVE  pc[t] = "update" /\ pc'[t] = "check" /\ snap[t] # "named"
  BY <1>1 DEF UpdateSession, Goto, NewTitle, Placeholders, CountInv
<1>2. ASSUME NEW t \in Turn, TurnStep(t) \/ Abandon(t), ~UpdateSession(t)
      PROVE  title' = title
  BY <1>2 DEF TurnStep, ReadSession, CheckBudget, ClaimCall, ClaimAnswered, PersistUser,
     LoadPrior, AgentEnds, RefundCall, Govern, StampAssistant, PersistAssistant,
     CountMessages, Respond, Abandon, chatStore
<1>3. ~(Rename \/ DeleteSession \/ DeleteMessages \/ Midnight)
  BY DEF Rename, DeleteSession, DeleteMessages, Midnight, Named, chatStore
<1>. QED
  BY <1>1, <1>2, <1>3 DEF Next

\* A name given by update_session that does not begin with "New chat" outlives
\* every turn that read the session after it was given; _finalize_turn takes the
\* other names for the placeholder.
THEOREM NameIsKept == Spec => NameOutlivesLaterTurns
<1>1. CountInv /\ [Next]_vars =>
        [title = "named" /\ title' # title =>
           \E t \in Turn : pc[t] = "update" /\ pc'[t] = "check" /\ snap[t] # "named"]_vars
  BY NameStep
<1>. QED
  BY InitCountInv, NextCountInv, <1>1, PTL DEF Spec, NameOutlivesLaterTurns
=============================================================================
