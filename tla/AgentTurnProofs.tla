-------------------------- MODULE AgentTurnProofs --------------------------
(***************************************************************************)
(* Proofs about AgentTurn and Delegation, for any tasks, caps, providers,  *)
(* retries and faults: what sub-agents may do in one turn, also when a     *)
(* broken stream starts the graph again, how many nodes a run enters, and  *)
(* a measure that every step of a turn lowers.                             *)
(***************************************************************************)
EXTENDS AgentTurn, FiniteSetTheorems, SequenceTheorems, TLAPS

\* Every tool a sub-agent ran was charged, and charged while there was room.
CapInv == toolCalls \in Nat /\ toolCalls <= ToolCap /\ subTools = toolCalls

\* The tasks worked on are those seen, each once, and as many as were counted.
OnceInv ==
  /\ used \in Nat /\ used <= MaxDelegations
  /\ seen \subseteq Task /\ IsFiniteSet(seen) /\ Cardinality(seen) = used
  /\ runs \in [Task -> Nat]
  /\ \A t \in Task : runs[t] = IF t \in seen THEN 1 ELSE 0

\* Two nodes for every finished round of tools, and those in hand.
StepsInv ==
  /\ steps \in Nat /\ toolTurns \in 0..MaxToolTurns
  /\ pc \in {"agent", "tools", "synthesize", "ended", "raised"}
  /\ pc = "agent" => steps = 2 * toolTurns + 2
  /\ pc = "tools" => steps = 2 * toolTurns + 3 /\ toolTurns < MaxToolTurns
  /\ pc = "synthesize" => steps = 2 * toolTurns + 3 /\ toolTurns = MaxToolTurns
  /\ pc \in {"ended", "raised"} => steps <= 2 * MaxToolTurns + 3

\* The calls of message i of m are answered within the first n messages.
CallsAnswered(m, i, n) ==
  \A k \in 1..m[i].calls : i + k <= n /\ m[i + k].kind = "result"

\* A sub-agent works on the call in hand.
HandInv ==
  /\ pending \in Seq(Call) /\ results \in Nat
  /\ sub # None => sub \in Task /\ pending # << >> /\ Head(pending) = sub

\* The last message asks for as many calls as are pending or have a result, or at
\* the cap for calls that get none; those before it are answered.
AnswersInv ==
  /\ HandInv
  /\ messages \in Seq(Message) /\ Len(messages) > 0
  /\ pc = "agent" => /\ pending = << >> /\ results = 0
                     /\ \A i \in 1..Len(messages) : CallsAnswered(messages, i, Len(messages))
  /\ pc = "tools" => /\ messages[Len(messages)].calls = Len(pending) + results
                     /\ \A i \in 1..(Len(messages) - 1) : CallsAnswered(messages, i, Len(messages) - 1)
  /\ pc = "synthesize" => /\ messages[Len(messages)].calls > 0
                          /\ \A i \in 1..(Len(messages) - 1) : CallsAnswered(messages, i, Len(messages) - 1)

\* A step of the chain is spent by a failure of its own or of its provider's.
Spent(i) ==
  \/ \E why \in {"empty", "error"} : <<i, why>> \in failed
  \/ \E j \in Step : ProviderOf(j) = ProviderOf(i) /\ <<j, "too large">> \in failed

\* The steps before the one in use are spent; all are when the run ends with the
\* message that no model is available.
ChainInv ==
  /\ pc \in {"agent", "tools", "synthesize", "ended", "raised"}
  /\ idx \in 1..(NSteps + 1)
  /\ \A i \in Step : i < idx => Spent(i)
  /\ ChainSpentOnlyIfAllFailed

-----------------------------------------------------------------------------

LEMMA InitCapInv == Init => CapInv
BY DelegationAssumption DEF Init, DelegationInit, CapInv

LEMMA InitOnceInv == Init => OnceInv
BY DelegationAssumption, FS_EmptySet DEF Init, DelegationInit, OnceInv

LEMMA InitStepsInv == Init => StepsInv
BY AgentAssumption DEF Init, StepsInv

\* What leaves the budget and its history alone.
LEMMA BudgetKept ==
  ASSUME [Next]_vars, ~ (pc = "tools" /\ (Delegate \/ SubTool))
  PROVE  UNCHANGED <<budget, runs, subTools>>
<1>1. CASE RunTools
  <2>1. RunTool \/ RefuseDelegation \/ SubAsks \/ RefuseSubTool \/ SubAnswers \/ SubTruncated \/ SubFails
    BY <1>1 DEF RunTools, ToolStep
  <2>. QED
    BY <2>1 DEF RunTool, RefuseDelegation, SubAsks, RefuseSubTool, SubAnswers, SubTruncated, SubFails, HandBack
<1>2. CASE ModelIsEmpty \/ ModelFails \/ ModelAsks \/ ModelAnswers \/ ChainSpent \/ ToolsDone
  BY <1>2 DEF ModelIsEmpty, ModelFails, ModelAsks, ModelAnswers, ChainSpent, ToolsDone, delegationVars
<1>3. CASE SynthesizeMisses \/ SynthesizeBreaks \/ SynthesizeAnswers \/ SynthesizeGivesUp
  BY <1>3 DEF SynthesizeMisses, SynthesizeBreaks, SynthesizeAnswers, SynthesizeGivesUp, delegationVars
<1>4. CASE Reinvoke \/ Raise
  BY <1>4 DEF Reinvoke, Raise, KeepBudget, delegationVars
<1>5. CASE UNCHANGED vars
  BY <1>5 DEF vars, delegationVars
<1>. QED
  BY <1>1, <1>2, <1>3, <1>4, <1>5 DEF Next, TurnStep

LEMMA NextCapInv ==
  ASSUME CapInv, [Next]_vars
  PROVE  CapInv'
<1>1. CASE SubTool
  BY <1>1, DelegationAssumption DEF SubTool, CapInv
<1>2. CASE Delegate
  BY <1>2 DEF Delegate, CapInv
<1>3. CASE UNCHANGED <<budget, runs, subTools>>
  BY <1>3 DEF budget, CapInv
<1>. QED
  BY <1>1, <1>2, <1>3, BudgetKept

LEMMA NextOnceInv ==
  ASSUME OnceInv, [Next]_vars
  PROVE  OnceInv'
<1>1. ASSUME Delegate
      PROVE  OnceInv'
  <2>1. PICK t \in Task : t = Head(pending)
    BY <1>1 DEF Delegate
  <2>2. /\ used < MaxDelegations /\ t \notin seen
        /\ used' = used + 1 /\ seen' = seen \cup {t}
        /\ runs' = [runs EXCEPT ![t] = @ + 1]
    BY <1>1, <2>1 DEF Delegate, CanDelegate
  <2>3. IsFiniteSet(seen') /\ Cardinality(seen') = used'
    BY <2>2, FS_AddElement DEF OnceInv
  <2>4. used' \in Nat /\ used' <= MaxDelegations
    BY <2>2, DelegationAssumption DEF OnceInv
  <2>5. runs' \in [Task -> Nat] /\ \A u \in Task : runs'[u] = IF u \in seen' THEN 1 ELSE 0
    BY <2>2 DEF OnceInv
  <2>. QED
    BY <2>2, <2>3, <2>4, <2>5 DEF OnceInv
<1>2. CASE SubTool
  BY <1>2 DEF SubTool, OnceInv
<1>3. CASE UNCHANGED <<budget, runs, subTools>>
  BY <1>3 DEF budget, OnceInv
<1>. QED
  BY <1>1, <1>2, <1>3, BudgetKept

LEMMA NextStepsInv ==
  ASSUME StepsInv, [Next]_vars
  PROVE  StepsInv'
<1> USE AgentAssumption DEF StepsInv
<1>1. CASE ModelIsEmpty \/ ModelFails
  BY <1>1 DEF ModelIsEmpty, ModelFails
<1>2. CASE ModelAsks
  <2>1. CASE toolTurns < MaxToolTurns
    BY <1>2, <2>1 DEF ModelAsks, Return
  <2>2. CASE ~ (toolTurns < MaxToolTurns)
    BY <1>2, <2>2 DEF ModelAsks, Return
  <2>. QED
    BY <2>1, <2>2
<1>3. CASE ModelAnswers \/ ChainSpent \/ SynthesizeAnswers \/ SynthesizeGivesUp
  <2>1. pc' = "ended" /\ steps' = steps /\ UNCHANGED toolTurns /\ pc \in {"agent", "synthesize"}
    BY <1>3 DEF ModelAnswers, ChainSpent, SynthesizeAnswers, SynthesizeGivesUp, Return
  <2>2. steps <= 2 * MaxToolTurns + 3
    BY <2>1
  <2>. QED
    BY <2>1, <2>2
<1>4. CASE RunTools
  BY <1>4 DEF RunTools, graph
<1>5. CASE ToolsDone
  BY <1>5 DEF ToolsDone
<1>6. CASE SynthesizeMisses \/ SynthesizeBreaks
  BY <1>6 DEF SynthesizeMisses, SynthesizeBreaks
<1>7. CASE Reinvoke
  BY <1>7 DEF Reinvoke
<1>8. CASE Raise
  BY <1>8 DEF Raise
<1>9. CASE UNCHANGED vars
  BY <1>9 DEF vars, graph
<1>. QED
  BY <1>1, <1>2, <1>3, <1>4, <1>5, <1>6, <1>7, <1>8, <1>9 DEF Next, TurnStep

-----------------------------------------------------------------------------

LEMMA FirstMessages ==
  ASSUME NEW p
  PROVE  /\ InitMessages(p) \in Seq(Message) /\ Len(InitMessages(p)) > 0
         /\ \A i \in 1..Len(InitMessages(p)) : InitMessages(p)[i].calls = 0
<1>1. Msg("old") \in Message /\ Msg("question") \in Message
  BY DelegationAssumption DEF Msg, Message, Kind
<1>2. Msg("old").calls = 0 /\ Msg("question").calls = 0
  BY DEF Msg
<1>3. CASE p
  BY <1>1, <1>2, <1>3 DEF InitMessages
<1>4. CASE ~ p
  BY <1>1, <1>2, <1>4 DEF InitMessages
<1>. QED
  BY <1>3, <1>4

LEMMA InitAnswersInv == Init => AnswersInv
<1> SUFFICES ASSUME Init PROVE AnswersInv
  OBVIOUS
<1>1. HandInv
  BY DEF Init, DelegationInit, HandInv
<1>2. /\ messages \in Seq(Message) /\ Len(messages) > 0
      /\ \A i \in 1..Len(messages) : messages[i].calls = 0
  BY FirstMessages DEF Init
<1>. QED
  BY <1>1, <1>2 DEF Init, DelegationInit, AnswersInv, CallsAnswered

\* A call is answered: one pending less, one result more.
LEMMA AnswerCall ==
  ASSUME HandInv, pending # << >>, Answer
  PROVE  /\ pending' \in Seq(Call) /\ results' \in Nat
         /\ Len(pending') + results' = Len(pending) + results
BY HeadTailProperties, LenProperties DEF HandInv, Answer

LEMMA ToolStepHand ==
  ASSUME HandInv, ToolStep
  PROVE  HandInv' /\ Len(pending') + results' = Len(pending) + results
<1>1. CASE RunTool \/ RefuseDelegation
  <2>1. pending # << >> /\ Answer /\ UNCHANGED sub
    BY <1>1 DEF RunTool, RefuseDelegation, loop
  <2>2. sub = None
    BY <1>1, DelegationAssumption DEF RunTool, RefuseDelegation, HandInv
  <2>. QED
    BY <2>1, <2>2, AnswerCall DEF HandInv
<1>2. CASE Delegate
  <2>1. UNCHANGED node /\ sub' \in Task /\ pending # << >> /\ Head(pending) = sub'
    BY <1>2 DEF Delegate
  <2>. QED
    BY <2>1 DEF HandInv, node
<1>3. CASE SubAsks \/ SubTool \/ RefuseSubTool
  <2>1. UNCHANGED <<node, sub>>
    BY <1>3 DEF SubAsks, SubTool, RefuseSubTool
  <2>. QED
    BY <2>1 DEF HandInv, node
<1>4. CASE SubAnswers \/ SubTruncated \/ SubFails
  <2>1. sub # None /\ Answer /\ sub' = None
    BY <1>4 DEF SubAnswers, SubTruncated, SubFails, HandBack, LoopEnds
  <2>2. pending # << >>
    BY <2>1 DEF HandInv
  <2>. QED
    BY <2>1, <2>2, AnswerCall DEF HandInv
<1>. QED
  BY <1>1, <1>2, <1>3, <1>4 DEF ToolStep

\* What answers a call stays where it is when messages are added.
LEMMA AddedMessages ==
  ASSUME NEW m \in Seq(Message), messages \in Seq(Message), messages' = messages \o m
  PROVE  /\ messages' \in Seq(Message) /\ Len(messages') = Len(messages) + Len(m)
         /\ \A i \in 1..Len(messages) : messages'[i] = messages[i]
         /\ \A i \in 1..Len(m) : messages'[Len(messages) + i] = m[i]
<1>1. messages \o m \in Seq(Message) /\ Len(messages \o m) = Len(messages) + Len(m)
  BY ConcatProperties
<1>2. Len(messages) \in Nat /\ Len(m) \in Nat
  BY LenProperties
<1>3. ASSUME NEW i \in 1..Len(messages)
      PROVE  messages'[i] = messages[i]
  BY <1>2, <1>3, ConcatProperties
<1>4. ASSUME NEW i \in 1..Len(m)
      PROVE  messages'[Len(messages) + i] = m[i]
  <2>1. /\ Len(messages) + i \in 1..(Len(messages) + Len(m))
        /\ ~ (Len(messages) + i <= Len(messages)) /\ (Len(messages) + i) - Len(messages) = i
    BY <1>2, <1>4
  <2>. QED
    BY <2>1, ConcatProperties
<1>. QED
  BY <1>1, <1>3, <1>4

LEMMA MessageCalls ==
  ASSUME messages \in Seq(Message), NEW i \in 1..Len(messages)
  PROVE  messages[i].calls \in Nat
<1>1. messages[i] \in Message
  BY ElementOfSeq
<1>. QED
  BY <1>1, DelegationAssumption DEF Message

\* The model's message is the last, and its calls are pending.
LEMMA AskAnswers ==
  ASSUME AnswersInv, ModelAsks
  PROVE  AnswersInv'
<1>1. PICK calls \in Calls :
        /\ pending' = IF toolTurns < MaxToolTurns THEN calls ELSE << >>
        /\ Return([kind |-> "calls", calls |-> Len(calls)],
                  IF toolTurns < MaxToolTurns THEN "tools" ELSE "synthesize")
  BY DEF ModelAsks
<1> DEFINE msg == [kind |-> "calls", calls |-> Len(calls)]
<1>2. calls \in Seq(Call) /\ Len(calls) \in 0..MaxCalls /\ calls # << >>
  BY DelegationAssumption DEF Calls
<1>3. msg \in Message /\ msg.calls = Len(calls)
  BY <1>2 DEF Message, Kind
<1>4. messages \in Seq(Message) /\ messages' = Append(messages, msg)
  BY <1>1 DEF Return, AnswersInv
<1> HIDE DEF msg
<1>5. /\ messages' \in Seq(Message) /\ Len(messages') = Len(messages) + 1
      /\ messages'[Len(messages')].calls = Len(calls)
      /\ \A i \in 1..Len(messages) : messages'[i] = messages[i]
  BY <1>3, <1>4, AppendProperties, LenProperties
<1>6. /\ pending = << >> /\ results = 0 /\ sub = None /\ sub' = None /\ results' = 0
      /\ \A i \in 1..Len(messages) : CallsAnswered(messages, i, Len(messages))
  BY DEF AnswersInv, HandInv, ModelAsks, loop
<1>7. HandInv'
  BY <1>1, <1>2, <1>6 DEF HandInv
<1>8. Len(messages) \in Nat /\ Len(messages) > 0
  BY <1>4, LenProperties DEF AnswersInv
<1>11. ASSUME NEW i \in 1..(Len(messages') - 1)
      PROVE  CallsAnswered(messages', i, Len(messages))
  <2>1. i \in 1..Len(messages) /\ messages'[i] = messages[i]
    BY <1>5, <1>8, <1>11
  <2>2. messages[i].calls \in Nat
    BY <1>4, <2>1, MessageCalls
  <2>3. CallsAnswered(messages, i, Len(messages))
    BY <1>6, <2>1
  <2>4. ASSUME NEW k \in 1..messages'[i].calls
        PROVE  i + k <= Len(messages) /\ messages'[i + k].kind = "result"
    <3>1. k \in 1..messages[i].calls
      BY <2>1, <2>4
    <3>2. i + k <= Len(messages) /\ messages[i + k].kind = "result"
      BY <2>3, <3>1 DEF CallsAnswered
    <3>3. i + k \in 1..Len(messages)
      BY <1>8, <2>1, <2>2, <3>1, <3>2
    <3>. QED
      BY <1>5, <3>2, <3>3
  <2>. QED
    BY <2>4 DEF CallsAnswered
<1>9. CASE toolTurns < MaxToolTurns
  <2>1. pc' = "tools" /\ pending' = calls
    BY <1>1, <1>9 DEF Return
  <2>2. messages'[Len(messages')].calls = Len(pending') + results'
    BY <1>2, <1>5, <1>6, <2>1
  <2>. QED
    BY <1>5, <1>7, <1>8, <1>11, <2>1, <2>2 DEF AnswersInv
<1>10. CASE ~ (toolTurns < MaxToolTurns)
  <2>1. pc' = "synthesize"
    BY <1>1, <1>10 DEF Return
  <2>2. Len(calls) > 0
    BY <1>2, EmptySeq, LenProperties
  <2>. QED
    BY <1>5, <1>7, <1>8, <1>11, <2>1, <2>2 DEF AnswersInv
<1>. QED
  BY <1>9, <1>10

\* The results of the round follow the message that asked for them.
LEMMA DoneAnswers ==
  ASSUME AnswersInv, ToolsDone
  PROVE  AnswersInv'
<1> DEFINE m == [i \in 1..results |-> Msg("result")]
           n == Len(messages)
<1>1. /\ pending = << >> /\ messages' = messages \o m /\ results' = 0
      /\ UNCHANGED <<pending, sub>> /\ pc' = "agent"
      /\ messages[n].calls = Len(pending) + results
      /\ \A i \in 1..(n - 1) : CallsAnswered(messages, i, n - 1)
  BY DEF ToolsDone, AnswersInv, loop
<1>2. messages \in Seq(Message) /\ n \in Nat /\ n > 0 /\ results \in Nat
  BY LenProperties DEF AnswersInv, HandInv
<1>3. m \in Seq(Message) /\ Len(m) = results /\ \A i \in 1..results : m[i].kind = "result" /\ m[i].calls = 0
  <2>1. Msg("result") \in Message /\ Msg("result").calls = 0 /\ Msg("result").kind = "result"
    BY DelegationAssumption DEF Msg, Message, Kind
  <2>. QED
    BY <1>2, <2>1
<1> HIDE DEF m
<1>4. /\ messages' \in Seq(Message) /\ Len(messages') = n + results
      /\ \A i \in 1..n : messages'[i] = messages[i]
      /\ \A i \in 1..results : messages'[n + i] = m[i]
  BY <1>1, <1>2, <1>3, AddedMessages
<1> HIDE DEF n
<1>5. messages[n].calls = results
  BY <1>1, <1>2
<1>6. ASSUME NEW i \in 1..(n + results)
      PROVE  CallsAnswered(messages', i, n + results)
  <2>1. CASE i \in 1..(n - 1)
    <3>1. messages'[i] = messages[i] /\ messages[i].calls \in Nat
      BY <1>2, <1>4, <2>1, MessageCalls DEF n
    <3>. QED
      BY <1>1, <1>2, <1>4, <2>1, <3>1 DEF CallsAnswered
  <2>2. CASE i = n
    <3>1. messages'[i].calls = results
      BY <1>2, <1>4, <1>5, <2>2
    <3>2. ASSUME NEW k \in 1..results
          PROVE  i + k <= n + results /\ messages'[i + k].kind = "result"
      <4>1. messages'[n + k] = m[k] /\ m[k].kind = "result"
        BY <1>3, <1>4, <3>2
      <4>. QED
        BY <1>2, <2>2, <3>2, <4>1
    <3>. QED
      BY <3>1, <3>2 DEF CallsAnswered
  <2>3. CASE i \in (n + 1)..(n + results)
    <3>1. i - n \in 1..results /\ i = n + (i - n)
      BY <1>2, <2>3
    <3>2. messages'[i].calls = 0
      BY <1>3, <1>4, <3>1
    <3>. QED
      BY <3>2 DEF CallsAnswered
  <2>. QED
    BY <1>2, <1>6, <2>1, <2>2, <2>3
<1>7. HandInv'
  BY <1>1, <1>2 DEF AnswersInv, HandInv
<1>8. Len(messages') > 0
  BY <1>2, <1>4
<1>. QED
  BY <1>1, <1>4, <1>6, <1>7, <1>8 DEF AnswersInv

LEMMA NextAnswersInv ==
  ASSUME AnswersInv, [Next]_vars
  PROVE  AnswersInv'
<1>1. CASE RunTools
  <2>1. ToolStep /\ UNCHANGED <<pc, messages>> /\ pc = "tools"
    BY <1>1 DEF RunTools, graph
  <2>2. HandInv' /\ Len(pending') + results' = Len(pending) + results
    BY <2>1, ToolStepHand DEF AnswersInv
  <2>. QED
    BY <2>1, <2>2 DEF AnswersInv
<1>2. CASE ModelIsEmpty \/ ModelFails \/ SynthesizeMisses \/ SynthesizeBreaks \/ UNCHANGED vars
  <2>1. UNCHANGED <<pending, results, sub, messages, pc>>
    BY <1>2 DEF ModelIsEmpty, ModelFails, SynthesizeMisses, SynthesizeBreaks, vars, graph,
                delegationVars, node, loop
  <2>. QED
    BY <2>1 DEF AnswersInv, HandInv
<1>3. CASE ModelAnswers \/ ChainSpent \/ SynthesizeAnswers \/ SynthesizeGivesUp
  <2>1. PICK msg \in Message : pc' = "ended" /\ messages' = Append(messages, msg)
    <3>1. /\ \A kind \in Kind : Msg(kind) \in Message
          /\ [kind |-> "answer and calls", calls |-> 1] \in Message
      BY DelegationAssumption DEF Msg, Message, Kind
    <3>. QED
      BY <1>3, <3>1 DEF ModelAnswers, ChainSpent, SynthesizeAnswers, SynthesizeGivesUp, Return, Kind
  <2>2. UNCHANGED <<pending, results, sub>>
    BY <1>3 DEF ModelAnswers, ChainSpent, SynthesizeAnswers, SynthesizeGivesUp, delegationVars, node, loop
  <2>3. messages' \in Seq(Message) /\ Len(messages') > 0
    BY <2>1, AppendProperties, LenProperties DEF AnswersInv
  <2>. QED
    BY <2>1, <2>2, <2>3 DEF AnswersInv, HandInv
<1>4. CASE Reinvoke
  <2>1. /\ pc' = "agent" /\ pending' = << >> /\ results' = 0 /\ sub' = None
        /\ messages' = InitMessages(prior)
    BY <1>4 DEF Reinvoke, LoopEnds
  <2>2. /\ messages' \in Seq(Message) /\ Len(messages') > 0
        /\ \A i \in 1..Len(messages') : messages'[i].calls = 0
    BY <2>1, FirstMessages
  <2>. QED
    BY <2>1, <2>2 DEF AnswersInv, HandInv, CallsAnswered
<1>5. CASE Raise
  BY <1>5 DEF Raise, AnswersInv, HandInv, delegationVars, node, loop
<1>. QED
  BY <1>1, <1>2, <1>3, <1>4, <1>5, AskAnswers, DoneAnswers DEF Next, TurnStep

-----------------------------------------------------------------------------

\* Whatever the models do, sub-agents run no more tools than the cap.
THEOREM CapHolds == Spec => []SubAgentsWithinCap
<1>1. CapInv => SubAgentsWithinCap
  BY DEF CapInv, SubAgentsWithinCap
<1>. QED
  BY InitCapInv, NextCapInv, <1>1, PTL DEF Spec

\* No task is delegated twice in a turn, and no more are than allowed, also when
\* the graph is started again.
THEOREM DelegationIsOnce == Spec => []DelegatedOnce
<1>1. OnceInv => DelegatedOnce
  <2> SUFFICES ASSUME OnceInv PROVE DelegatedOnce
    OBVIOUS
  <2>1. {t \in Task : runs[t] > 0} = seen
    BY DEF OnceInv
  <2>. QED
    BY <2>1 DEF OnceInv, DelegatedOnce
<1>. QED
  BY InitOnceInv, NextOnceInv, <1>1, PTL DEF Spec

\* No run of the graph enters more nodes than its recursion limit.
THEOREM StepsStayWithinLimit == Spec => []StepsWithinRecursionLimit
<1>1. StepsInv => StepsWithinRecursionLimit
  BY AgentAssumption DEF StepsInv, StepsWithinRecursionLimit
<1>. QED
  BY InitStepsInv, NextStepsInv, <1>1, PTL DEF Spec

\* Whenever the agent node asks a model, every tool call has its result after it;
\* when synthesize does, at the cap, only those of the last message have none.
THEOREM NoOtherCallDangles == Spec => []OnlyTheCapLeavesCallsOpen
<1>1. ASSUME AnswersInv, NEW i \in 1..Len(messages), NEW n \in Nat, n <= Len(messages),
             CallsAnswered(messages, i, n)
      PROVE  i \notin Unanswered
  <2>1. messages \in Seq(Message) /\ DOMAIN messages = 1..Len(messages) /\ Len(messages) \in Nat
    BY <1>1, LenProperties DEF AnswersInv
  <2>2. messages[i].calls \in Nat
    BY <1>1, <2>1, MessageCalls
  <2>3. ASSUME NEW k \in 1..messages[i].calls
        PROVE  i + k \in DOMAIN messages /\ messages[i + k].kind = "result"
    <3>1. i + k <= n /\ messages[i + k].kind = "result"
      BY <1>1, <2>3 DEF CallsAnswered
    <3>. QED
      BY <1>1, <2>1, <2>2, <2>3, <3>1
  <2>. QED
    BY <2>3 DEF Unanswered
<1>2. AnswersInv /\ StepsInv => OnlyTheCapLeavesCallsOpen
  <2> SUFFICES ASSUME AnswersInv, StepsInv PROVE OnlyTheCapLeavesCallsOpen
    OBVIOUS
  <2>1. /\ messages \in Seq(Message) /\ DOMAIN messages = 1..Len(messages)
        /\ Len(messages) \in Nat /\ Len(messages) > 0
    BY LenProperties DEF AnswersInv
  <2>2. Unanswered \subseteq 1..Len(messages)
    BY <2>1 DEF Unanswered
  <2>3. ASSUME pc = "agent" PROVE Unanswered = {}
    <3>1. \A i \in 1..Len(messages) : CallsAnswered(messages, i, Len(messages))
      BY <2>3 DEF AnswersInv
    <3>. QED
      BY <1>1, <2>1, <2>2, <3>1
  <2>4. ASSUME pc = "synthesize" PROVE Unanswered = {Len(messages)}
    <3>1. /\ messages[Len(messages)].calls > 0
          /\ \A i \in 1..(Len(messages) - 1) : CallsAnswered(messages, i, Len(messages) - 1)
      BY <2>4 DEF AnswersInv
    <3>2. ASSUME NEW i \in 1..Len(messages), i # Len(messages) PROVE i \notin Unanswered
      <4> DEFINE n == Len(messages)
      <4>1. n \in Nat /\ n > 0 /\ i \in 1..n /\ i # n
        BY <2>1, <3>2
      <4> HIDE DEF n
      <4>2. n - 1 \in Nat /\ n - 1 <= n /\ i \in 1..(n - 1)
        BY <4>1
      <4>. QED
        BY <1>1, <3>1, <3>2, <4>2 DEF n
    <3>3. Len(messages) \in Unanswered
      <4>1. messages[Len(messages)].calls \in Nat /\ 1 \in 1..messages[Len(messages)].calls
        BY <2>1, <3>1, MessageCalls
      <4>2. Len(messages) + 1 \notin DOMAIN messages /\ Len(messages) \in DOMAIN messages
        BY <2>1
      <4>. QED
        BY <4>1, <4>2 DEF Unanswered
    <3>. QED
      BY <2>2, <3>2, <3>3
  <2>5. pc = "synthesize" => toolTurns = MaxToolTurns
    BY DEF StepsInv
  <2>. QED
    BY <2>3, <2>4, <2>5 DEF OnlyTheCapLeavesCallsOpen
<1>. QED
  BY InitAnswersInv, NextAnswersInv, InitStepsInv, NextStepsInv, <1>2, PTL DEF Spec
-----------------------------------------------------------------------------

\* The next provider's first step is the step after the present one's last.
LEMMA NextProviderSkipsOnlyItsOwn ==
  ASSUME idx \in Step
  PROVE  /\ NextProvider \in 1..(NSteps + 1) /\ idx < NextProvider
         /\ \A i \in Step : idx <= i /\ i < NextProvider => ProviderOf(i) = ProviderOf(idx)
<1> DEFINE S == {i \in Step : ProviderOf(i) > ProviderOf(idx)} \cup {NSteps + 1}
<1> DEFINE n == 2 * ProviderOf(idx) + 1
<1>1. NSteps = 2 * NProviders /\ NProviders \in Nat \ {0} /\ idx \in 1..NSteps
  BY AgentAssumption DEF NSteps, Step
<1>2. ProviderOf(idx) \in 1..NProviders /\ 2 * ProviderOf(idx) >= idx
  BY <1>1 DEF ProviderOf
<1>3. \A i \in Step : i \in Nat /\ ProviderOf(i) \in Nat /\ (i >= n <=> ProviderOf(i) > ProviderOf(idx))
  BY <1>1, <1>2 DEF ProviderOf, Step
<1>4. n \in S
  <2>1. CASE n = NSteps + 1
    BY <2>1
  <2>2. CASE n # NSteps + 1
    <3>1. n \in Step
      BY <1>1, <1>2, <2>2 DEF Step
    <3>. QED
      BY <1>2, <1>3, <3>1
  <2>. QED
    BY <2>1, <2>2
<1>5. \A i \in S : i \in Int /\ n <= i
  BY <1>1, <1>2, <1>3
<1>6. Min(S) = n
  <2>1. Min(S) \in S /\ \A y \in S : Min(S) <= y
    BY <1>4, <1>5 DEF Min
  <2>. QED
    BY <1>2, <1>4, <1>5, <2>1
<1>7. n \in 1..(NSteps + 1) /\ idx < n
  BY <1>1, <1>2
<1>8. ASSUME NEW i \in Step, idx <= i, i < n
      PROVE  ProviderOf(i) = ProviderOf(idx)
  <2>1. ProviderOf(i) >= ProviderOf(idx)
    BY <1>1, <1>8 DEF ProviderOf, Step
  <2>. QED
    BY <1>2, <1>3, <1>8, <2>1
<1>. QED
  BY <1>6, <1>7, <1>8 DEF NextProvider

LEMMA InitChainInv == Init => ChainInv
<1> SUFFICES ASSUME Init PROVE ChainInv
  OBVIOUS
<1>1. pc = "agent" /\ idx = 1
  BY DEF Init
<1>2. NSteps \in Nat /\ NSteps >= 1
  BY AgentAssumption DEF NSteps
<1>. QED
  BY <1>1, <1>2 DEF ChainInv, ChainSpentOnlyIfAllFailed, Step

\* A step that ends the run with another message, or does not end it.
LEMMA ChainKept ==
  ASSUME ChainInv, failed \subseteq failed', idx' = idx,
         pc' \in {"agent", "tools", "synthesize", "ended", "raised"},
         \/ pc' # "ended"
         \/ Last(messages') # Msg("unavailable")
         \/ UNCHANGED <<pc, messages>>
  PROVE  ChainInv'
<1>1. \A i \in Step : Spent(i) => Spent(i)'
  BY DEF Spent
<1>2. \A i \in Step : i < idx' => Spent(i)'
  BY <1>1 DEF ChainInv
<1>3. ChainSpentOnlyIfAllFailed <=>
        (pc = "ended" /\ Last(messages) = Msg("unavailable") => \A i \in Step : Spent(i))
  BY DEF ChainSpentOnlyIfAllFailed, Spent
<1>4. ChainSpentOnlyIfAllFailed' <=>
        (pc' = "ended" /\ Last(messages)' = Msg("unavailable") => \A i \in Step : Spent(i)')
  BY DEF ChainSpentOnlyIfAllFailed, Spent
<1>5. ChainSpentOnlyIfAllFailed'
  BY <1>1, <1>3, <1>4 DEF ChainInv, Last
<1>. QED
  BY <1>2, <1>5 DEF ChainInv

LEMMA NextChainInv ==
  ASSUME AnswersInv, ChainInv, [Next]_vars
  PROVE  ChainInv'
<1> USE DEF ChainInv
<1>1. ASSUME NEW m, NEW q \in {"tools", "synthesize", "ended"}, Return(m, q),
             m.kind # "unavailable", UNCHANGED <<idx, failed>>
      PROVE  ChainInv'
  <2>1. messages' = Append(messages, m) /\ messages \in Seq(Message)
    BY <1>1 DEF Return, AnswersInv
  <2>2. Last(messages') = m
    BY <2>1 DEF Last
  <2>. QED
    BY <1>1, <2>2, ChainKept DEF Return, Msg
<1>2. CASE ModelIsEmpty \/ ModelFails
  <2>1. pc = "agent" /\ UNCHANGED pc /\ idx \in Step /\ failed \subseteq failed'
    BY <1>2 DEF ModelIsEmpty, ModelFails
  <2>2. ASSUME idx' \in 1..(NSteps + 1), \A i \in Step : idx <= i /\ i < idx' => Spent(i)'
        PROVE  ChainInv'
    <3>1. \A i \in Step : Spent(i) => Spent(i)'
      BY <2>1 DEF Spent
    <3>2. \A i \in Step : i < idx' => Spent(i)'
      BY <2>1, <2>2, <3>1, AgentAssumption DEF Step, NSteps
    <3>. QED
      BY <2>1, <2>2, <3>2 DEF ChainSpentOnlyIfAllFailed
  <2>3. CASE idx' = idx
    BY <2>1, <2>2, <2>3, AgentAssumption DEF Step, NSteps
  <2>4. CASE idx' = idx + 1 /\ \E why \in {"empty", "error"} : failed' = failed \cup {<<idx, why>>}
    <3>1. \A i \in Step : idx <= i /\ i < idx' => i = idx
      BY <2>1, <2>4, AgentAssumption DEF Step, NSteps
    <3>2. \A i \in Step : i = idx => Spent(i)'
      BY <2>4 DEF Spent
    <3>. QED
      BY <2>1, <2>2, <2>4, <3>1, <3>2, AgentAssumption DEF Step, NSteps
  <2>5. CASE idx' = NextProvider /\ failed' = failed \cup {<<idx, "too large">>}
    <3>1. \A i \in Step : idx <= i /\ i < idx' => ProviderOf(idx) = ProviderOf(i)
      BY <2>1, <2>5, NextProviderSkipsOnlyItsOwn
    <3>2. \A i \in Step : ProviderOf(idx) = ProviderOf(i) => Spent(i)'
      BY <2>1, <2>5 DEF Spent
    <3>. QED
      BY <2>1, <2>2, <2>5, <3>1, <3>2, NextProviderSkipsOnlyItsOwn
  <2>. QED
    BY <1>2, <2>3, <2>4, <2>5 DEF ModelIsEmpty, ModelFails
<1>3. CASE ModelAsks
  <2>1. PICK calls \in Calls :
          Return([kind |-> "calls", calls |-> Len(calls)],
                 IF toolTurns < MaxToolTurns THEN "tools" ELSE "synthesize")
    BY <1>3 DEF ModelAsks
  <2>. QED
    BY <1>1, <1>3, <2>1 DEF ModelAsks
<1>4. CASE ModelAnswers
  BY <1>1, <1>4 DEF ModelAnswers, Msg
<1>5. CASE ChainSpent
  <2>1. /\ \A i \in Step : Spent(i)
        /\ UNCHANGED failed /\ pc' = "ended" /\ idx' = NSteps
    BY <1>5, AgentAssumption DEF ChainSpent, Return, Step, NSteps
  <2>2. \A i \in Step : Spent(i)'
    BY <2>1 DEF Spent
  <2>3. idx' \in 1..(NSteps + 1)
    BY <2>1, AgentAssumption DEF NSteps
  <2>. QED
    BY <2>1, <2>2, <2>3 DEF ChainSpentOnlyIfAllFailed, Spent
<1>6. CASE RunTools
  BY <1>6, ChainKept DEF RunTools, graph
<1>7. CASE ToolsDone
  BY <1>7, ChainKept DEF ToolsDone
<1>8. CASE SynthesizeMisses \/ SynthesizeBreaks
  BY <1>8, ChainKept DEF SynthesizeMisses, SynthesizeBreaks
<1>9. CASE SynthesizeAnswers
  BY <1>1, <1>9 DEF SynthesizeAnswers, Msg
<1>10. CASE SynthesizeGivesUp
  BY <1>1, <1>10 DEF SynthesizeGivesUp, Msg
<1>11. CASE Reinvoke
  <2>1. pc' = "agent" /\ idx' = 1
    BY <1>11 DEF Reinvoke
  <2>2. idx' \in 1..(NSteps + 1) /\ \A i \in Step : ~ (i < idx')
    BY <2>1, AgentAssumption DEF Step, NSteps
  <2>3. ChainSpentOnlyIfAllFailed'
    BY <2>1 DEF ChainSpentOnlyIfAllFailed
  <2>. QED
    BY <2>1, <2>2, <2>3
<1>12. CASE Raise
  BY <1>12, ChainKept DEF Raise
<1>13. CASE UNCHANGED vars
  BY <1>13, ChainKept DEF vars, graph
<1>. QED
  BY <1>2, <1>3, <1>4, <1>5, <1>6, <1>7, <1>8, <1>9, <1>10, <1>11, <1>12, <1>13 DEF Next, TurnStep

\* The user is told that no model is available only after every one of them
\* failed in this run: no step of the chain is passed over.
THEOREM NoModelIsPassedOver == Spec => []ChainSpentOnlyIfAllFailed
<1>1. ChainInv => ChainSpentOnlyIfAllFailed
  BY DEF ChainInv
<1>2. Spec => []AnswersInv
  BY InitAnswersInv, NextAnswersInv, PTL DEF Spec
<1>3. AnswersInv /\ ChainInv /\ [Next]_vars => ChainInv'
  BY NextChainInv
<1>. QED
  BY InitChainInv, <1>1, <1>2, <1>3, PTL DEF Spec

-----------------------------------------------------------------------------

\* The sub-agent's loop and the round of tools are within their bounds.
LoopInv ==
  /\ subTurn \in 0..SubTurns /\ subPending \in 0..MaxCalls
  /\ subPending > 0 => sub # None
  /\ evidence \in Nat /\ executed \in 0..evidence
  /\ report \in Report \cup {None}
  /\ Len(pending) + results \in 0..MaxCalls

\* So are the retries, and synthesize's way round the chain.
StepInv ==
  /\ driver \in {"stream", "invoke"} /\ prior \in BOOLEAN
  /\ empties \in 0..EmptyRetries /\ position \in 0..NSteps
  /\ faults \in 0..MaxFaults

FailedInv == failed \subseteq Step \X {"empty", "error", "too large"}

LocalInv == LoopInv /\ StepInv /\ FailedInv

LEMMA InitLocalInv == Init => LocalInv
<1> SUFFICES ASSUME Init PROVE LocalInv
  OBVIOUS
<1>1. /\ sub = None /\ subTurn = 0 /\ subPending = 0 /\ evidence = 0 /\ executed = 0 /\ report = None
      /\ pending = << >> /\ results = 0 /\ idx = 1 /\ empties = 0 /\ position = 0 /\ failed = {} /\ faults = 0
      /\ driver \in {"stream", "invoke"} /\ prior \in BOOLEAN
  BY DEF Init, DelegationInit
<1>2. NSteps \in Nat
  BY AgentAssumption DEF NSteps
<1>. QED
  BY <1>1, <1>2, DelegationAssumption, AgentAssumption DEF LocalInv, LoopInv, StepInv, FailedInv

\* A step of the tools node keeps the sub-agent's loop in its bounds.
LEMMA ToolStepLoop ==
  ASSUME HandInv, LoopInv, ToolStep
  PROVE  LoopInv'
<1> USE DelegationAssumption DEF LoopInv
<1>1. Len(pending') + results' = Len(pending) + results
  BY ToolStepHand
<1>2. CASE RunTool \/ RefuseDelegation
  BY <1>1, <1>2 DEF RunTool, RefuseDelegation, loop
<1>3. CASE Delegate
  BY <1>1, <1>3 DEF Delegate
<1>4. CASE SubAsks
  BY <1>1, <1>4 DEF SubAsks
<1>5. CASE SubTool
  BY <1>1, <1>5 DEF SubTool
<1>6. CASE RefuseSubTool
  BY <1>1, <1>6 DEF RefuseSubTool
<1>7. ASSUME NEW partial \in BOOLEAN, sub # None, HandBack(partial)
      PROVE  LoopInv'
  <2>1. report' \in Report
    BY <1>7 DEF HandBack, Report, HandInv
  <2>. QED
    BY <1>1, <1>7, <2>1 DEF HandBack, LoopEnds
<1>8. CASE SubAnswers \/ SubTruncated
  BY <1>7, <1>8 DEF SubAnswers, SubTruncated
<1>9. CASE SubFails
  BY <1>1, <1>9 DEF SubFails, LoopEnds
<1>. QED
  BY <1>2, <1>3, <1>4, <1>5, <1>6, <1>8, <1>9 DEF ToolStep

LEMMA NextFailedInv ==
  ASSUME FailedInv, [Next]_vars
  PROVE  FailedInv'
<1>1. CASE ModelIsEmpty \/ ModelFails
  <2>1. \/ failed' = failed
        \/ idx \in Step /\ \E why \in {"empty", "error", "too large"} : failed' = failed \cup {<<idx, why>>}
    BY <1>1 DEF ModelIsEmpty, ModelFails
  <2>2. ASSUME idx \in Step, NEW why \in {"empty", "error", "too large"}, failed' = failed \cup {<<idx, why>>}
        PROVE  FailedInv'
    <3>1. <<idx, why>> \in Step \X {"empty", "error", "too large"}
      BY <2>2
    <3> HIDE DEF Step
    <3>. QED
      BY <2>2, <3>1 DEF FailedInv
  <2>. QED
    BY <2>1, <2>2 DEF FailedInv
<1>2. CASE Reinvoke
  BY <1>2 DEF Reinvoke, FailedInv
<1>3. CASE UNCHANGED failed
  BY <1>3 DEF FailedInv
<1>4. UNCHANGED failed \/ ModelIsEmpty \/ ModelFails \/ Reinvoke
  BY DEF Next, TurnStep, ModelAsks, ModelAnswers, ChainSpent, RunTools, ToolsDone, SynthesizeMisses,
         SynthesizeBreaks, SynthesizeAnswers, SynthesizeGivesUp, Raise, graph, vars
<1>. QED
  BY <1>1, <1>2, <1>3, <1>4

LEMMA NextLocalInv ==
  ASSUME AnswersInv, ChainInv, LocalInv, [Next]_vars
  PROVE  LocalInv'
<1>0. /\ NSteps \in Nat /\ NSteps >= 1 /\ EmptyRetries \in Nat /\ MaxFaults \in Nat /\ MaxCalls \in Nat \ {0}
      /\ LoopInv /\ StepInv /\ FailedInv'
  BY AgentAssumption, DelegationAssumption, NextFailedInv DEF NSteps, LocalInv
<1>1. CASE ModelIsEmpty
  <2>1. StepInv'
    BY <1>0, <1>1 DEF ModelIsEmpty, StepInv
  <2>2. LoopInv'
    BY <1>0, <1>1 DEF ModelIsEmpty, delegationVars, node, loop, LoopInv
  <2>. QED
    BY <1>0, <2>1, <2>2 DEF LocalInv
<1>2. CASE ModelFails
  <2>1. StepInv'
    <3>1. empties' = 0 /\ UNCHANGED <<driver, prior, position, faults>>
      BY <1>2 DEF ModelFails
    <3>. QED
      BY <1>0, <3>1 DEF StepInv
  <2>2. LoopInv'
    BY <1>0, <1>2 DEF ModelFails, delegationVars, node, loop, LoopInv
  <2>. QED
    BY <1>0, <2>1, <2>2 DEF LocalInv
<1>3. CASE ModelAsks
  <2>1. PICK calls \in Calls :
          /\ pending' = IF toolTurns < MaxToolTurns THEN calls ELSE << >>
          /\ \E m, q : Return(m, q)
    BY <1>3 DEF ModelAsks
  <2>2. Len(calls) \in 0..MaxCalls
    BY <1>0 DEF Calls
  <2>3. empties' = 0 /\ UNCHANGED <<driver, prior, position, failed, faults>>
    BY <1>3, <2>1 DEF ModelAsks, Return
  <2>4. StepInv'
    BY <1>0, <2>3 DEF StepInv
  <2>5. results = 0 /\ results' = 0 /\ UNCHANGED <<loop, report>>
    BY <1>3 DEF ModelAsks, AnswersInv
  <2>6. Len(pending') + results' \in 0..MaxCalls
    BY <1>0, <2>1, <2>2, <2>5
  <2>7. LoopInv'
    BY <1>0, <2>5, <2>6 DEF LoopInv, loop
  <2>. QED
    BY <1>0, <2>4, <2>7 DEF LocalInv
<1>4. CASE ModelAnswers \/ ChainSpent \/ SynthesizeAnswers \/ SynthesizeGivesUp
  <2>1. empties' = 0 /\ UNCHANGED <<delegationVars, driver, prior, position, failed, faults>>
    BY <1>4 DEF ModelAnswers, ChainSpent, SynthesizeAnswers, SynthesizeGivesUp, Return
  <2>. QED
    BY <1>0, <2>1 DEF LocalInv, LoopInv, StepInv, delegationVars, node, loop
<1>5. CASE RunTools
  <2>1. LoopInv'
    BY <1>0, <1>5, ToolStepLoop DEF RunTools, AnswersInv
  <2>2. StepInv'
    BY <1>0, <1>5 DEF RunTools, graph, StepInv
  <2>. QED
    BY <1>0, <2>1, <2>2 DEF LocalInv
<1>6. CASE ToolsDone
  <2>1. Len(pending) + results \in 0..MaxCalls /\ pending = << >> /\ UNCHANGED pending /\ results' = 0
    BY <1>0, <1>6 DEF ToolsDone, LoopInv
  <2>2. Len(pending') + results' \in 0..MaxCalls
    BY <1>0, <2>1
  <2>. QED
    BY <1>0, <1>6, <2>2 DEF ToolsDone, LocalInv, LoopInv, StepInv, loop
<1>7. CASE SynthesizeMisses \/ SynthesizeBreaks
  <2>1. StepInv'
    BY <1>0, <1>7 DEF SynthesizeMisses, SynthesizeBreaks, StepInv
  <2>2. UNCHANGED delegationVars
    BY <1>7 DEF SynthesizeMisses, SynthesizeBreaks
  <2>. QED
    BY <1>0, <2>1, <2>2 DEF LocalInv, LoopInv, delegationVars, node, loop
<1>8. CASE Reinvoke
  <2>1. StepInv'
    BY <1>0, <1>8 DEF Reinvoke, StepInv
  <2>2. /\ pending' = << >> /\ results' = 0 /\ subTurn' = 0 /\ subPending' = 0 /\ evidence' = 0 /\ executed' = 0
        /\ UNCHANGED report
    BY <1>8 DEF Reinvoke, LoopEnds
  <2>3. LoopInv'
    BY <1>0, <2>2, DelegationAssumption DEF LoopInv
  <2>. QED
    BY <1>0, <2>1, <2>3 DEF LocalInv
<1>9. CASE Raise
  BY <1>0, <1>9 DEF Raise, LocalInv, LoopInv, StepInv, delegationVars, node, loop
<1>10. CASE UNCHANGED vars
  BY <1>0, <1>10 DEF vars, graph, LocalInv, LoopInv, StepInv, delegationVars, node, loop
<1>. QED
  BY <1>1, <1>2, <1>3, <1>4, <1>5, <1>6, <1>7, <1>8, <1>9, <1>10 DEF Next, TurnStep

AllInv == CapInv /\ OnceInv /\ StepsInv /\ AnswersInv /\ ChainInv /\ LocalInv

LEMMA AllHold == Spec => []AllInv
<1>1. Init => AllInv
  BY InitCapInv, InitOnceInv, InitStepsInv, InitAnswersInv, InitChainInv, InitLocalInv DEF AllInv
<1>2. AllInv /\ [Next]_vars => AllInv'
  BY NextCapInv, NextOnceInv, NextStepsInv, NextAnswersInv, NextChainInv, NextLocalInv DEF AllInv
<1>. QED
  BY <1>1, <1>2, PTL DEF Spec

\* The states are of their types: the bounds of the counters, of the calls in
\* hand and of the sub-agent's loop are facts about the steps that lead to them.
THEOREM AgentTypes == Spec => []TypeOK
<1>1. AllInv => TypeOK
  <2> SUFFICES ASSUME AllInv PROVE TypeOK
    OBVIOUS
  <2>1. Len(pending) \in Nat /\ results \in Nat /\ pending \in Seq(Call) /\ sub \in Task \cup {None}
    BY LenProperties DEF AllInv, AnswersInv, HandInv
  <2>2. DelegationTypeOK
    BY <2>1, DelegationAssumption DEF AllInv, CapInv, OnceInv, LocalInv, LoopInv, DelegationTypeOK
  <2>. QED
    BY <2>2 DEF AllInv, StepsInv, AnswersInv, ChainInv, LocalInv, StepInv, FailedInv, TypeOK
<1>. QED
  BY <1>1, AllHold, PTL

-----------------------------------------------------------------------------
(* How long a turn can be: a measure that every step lowers.               *)

\* A call of the model, each of which is repeated when it returns nothing.
Tries == EmptyRetries + 1

\* What a tool call can take: a sub-agent's start, rounds and report.
CallCost == SubTurns * (MaxCalls + 1) + 2

\* What is left of the sub-agent at work, and of the round of tools.
SubLeft(turn, calls) == (SubTurns - turn) * (MaxCalls + 1) + calls + 1
RoundLeft ==
  IF sub = None THEN Len(pending) * CallCost
  ELSE (Len(pending) - 1) * CallCost + SubLeft(subTurn, subPending)

\* What a round of tools can take, and synthesize.
RoundCost     == MaxCalls * CallCost + Tries + 1
SynthesisCost == NSteps * Tries + Tries

\* What is left from the agent node on, after so many rounds, at this step of the
\* chain and after so many empty answers.
AgentLeft(rounds, step, tried) ==
  (MaxToolTurns - rounds) * RoundCost + (NSteps + 1 - step) * Tries + (Tries - tried) + SynthesisCost

RunCost == AgentLeft(0, 1, 0)

RunLeft ==
  CASE pc = "agent"      -> AgentLeft(toolTurns, idx, empties)
    [] pc = "tools"      -> AgentLeft(toolTurns + 1, idx, 0) + RoundLeft + 1
    [] pc = "synthesize" -> (NSteps - position) * Tries + (Tries - empties)
    [] OTHER             -> 0

\* A stream has a second run to fall back on.
TurnLeft == RunLeft + (IF driver = "stream" THEN RunCost ELSE 0)

LEMMA Fewer ==
  ASSUME NEW a \in Nat, NEW b \in Nat, a < b, NEW c \in Nat
  PROVE  a * c \in Nat /\ b * c \in Nat /\ a * c + c <= b * c
<1> DEFINE d == b - a - 1
<1>1. d \in Nat /\ b = a + 1 + d
  OBVIOUS
<1> HIDE DEF d
<1>2. a * c \in Nat /\ d * c \in Nat
  BY <1>1
<1>3. b * c = a * c + c + d * c
  BY <1>1
<1>. QED
  BY <1>2, <1>3

LEMMA NoMore ==
  ASSUME NEW a \in Nat, NEW b \in Nat, a <= b, NEW c \in Nat
  PROVE  a * c \in Nat /\ b * c \in Nat /\ a * c <= b * c
<1>1. CASE a = b
  BY <1>1
<1>2. CASE a < b
  BY <1>2, Fewer
<1>. QED
  BY <1>1, <1>2

LEMMA CostTypes ==
  /\ Tries \in Nat \ {0} /\ CallCost \in Nat /\ CallCost >= 2
  /\ RoundCost \in Nat /\ RoundCost = MaxCalls * CallCost + Tries + 1 /\ MaxCalls * CallCost \in Nat
  /\ NSteps \in Nat \ {0} /\ SynthesisCost \in Nat
  /\ SynthesisCost = NSteps * Tries + Tries /\ NSteps * Tries \in Nat
<1>1. Tries \in Nat \ {0} /\ NSteps \in Nat \ {0}
  BY AgentAssumption DEF Tries, NSteps
<1>2. MaxCalls + 1 \in Nat /\ SubTurns \in Nat /\ MaxCalls \in Nat
  BY DelegationAssumption
<1>3. SubTurns * (MaxCalls + 1) \in Nat
  BY <1>2
<1>4. CallCost \in Nat /\ CallCost >= 2
  BY <1>3 DEF CallCost
<1>5. MaxCalls * CallCost \in Nat /\ NSteps * Tries \in Nat
  BY <1>1, <1>2, <1>4
<1>. QED
  BY <1>1, <1>4, <1>5 DEF RoundCost, SynthesisCost

\* What is left of a run from the agent node on: it falls with a round, a step of
\* the chain and a try, and is more than synthesize can take.
LEMMA AgentLeftFalls ==
  ASSUME NEW n \in 0..MaxToolTurns, NEW i \in 1..(NSteps + 1), NEW e \in 0..EmptyRetries
  PROVE  /\ AgentLeft(n, i, e) \in Nat /\ AgentLeft(n, i, e) > SynthesisCost
         /\ \A f \in 0..EmptyRetries : f < e => AgentLeft(n, i, e) < AgentLeft(n, i, f)
         /\ \A j \in 1..(NSteps + 1), f \in 0..EmptyRetries : j < i => AgentLeft(n, i, e) < AgentLeft(n, j, f)
         /\ \A m \in 0..MaxToolTurns, f \in 0..EmptyRetries : m < n =>
              AgentLeft(n, i, e) + MaxCalls * CallCost + 1 < AgentLeft(m, i, f)
<1>1. /\ Tries \in Nat /\ Tries = EmptyRetries + 1 /\ RoundCost \in Nat /\ SynthesisCost \in Nat
      /\ NSteps \in Nat /\ MaxToolTurns \in Nat /\ EmptyRetries \in Nat
      /\ MaxCalls * CallCost \in Nat /\ RoundCost = MaxCalls * CallCost + Tries + 1
  BY CostTypes, AgentAssumption DEF Tries
<1> DEFINE R(k) == (MaxToolTurns - k) * RoundCost
           S(k) == (NSteps + 1 - k) * Tries
<1>2. ASSUME NEW k \in 0..MaxToolTurns PROVE R(k) \in Nat
  <2>1. MaxToolTurns - k \in Nat
    BY <1>1
  <2>. QED
    BY <1>1, <2>1
<1>3. ASSUME NEW k \in 1..(NSteps + 1) PROVE S(k) \in Nat
  <2>1. NSteps + 1 - k \in Nat
    BY <1>1
  <2>. QED
    BY <1>1, <2>1
<1>4. ASSUME NEW m \in 0..MaxToolTurns, m < n PROVE R(n) + RoundCost <= R(m)
  <2>1. MaxToolTurns - n \in Nat /\ MaxToolTurns - m \in Nat /\ MaxToolTurns - n < MaxToolTurns - m
    BY <1>1, <1>4
  <2>. QED
    BY <1>1, <2>1, Fewer
<1>5. ASSUME NEW j \in 1..(NSteps + 1), j < i PROVE S(i) + Tries <= S(j)
  <2>1. NSteps + 1 - i \in Nat /\ NSteps + 1 - j \in Nat /\ NSteps + 1 - i < NSteps + 1 - j
    BY <1>1, <1>5
  <2>. QED
    BY <1>1, <2>1, Fewer
<1>6. \A k, s, f : AgentLeft(k, s, f) = R(k) + S(s) + (Tries - f) + SynthesisCost
  BY DEF AgentLeft
<1> HIDE DEF R, S
<1>7. R(n) \in Nat /\ S(i) \in Nat
  BY <1>2, <1>3
<1>8. AgentLeft(n, i, e) \in Nat /\ AgentLeft(n, i, e) > SynthesisCost
  BY <1>1, <1>6, <1>7
<1>9. ASSUME NEW f \in 0..EmptyRetries, f < e PROVE AgentLeft(n, i, e) < AgentLeft(n, i, f)
  BY <1>1, <1>6, <1>7, <1>9
<1>10. ASSUME NEW j \in 1..(NSteps + 1), NEW f \in 0..EmptyRetries, j < i
       PROVE  AgentLeft(n, i, e) < AgentLeft(n, j, f)
  <2>1. S(j) \in Nat /\ S(i) + Tries <= S(j)
    BY <1>3, <1>5, <1>10
  <2>. QED
    BY <1>1, <1>6, <1>7, <2>1
<1>11. ASSUME NEW m \in 0..MaxToolTurns, NEW f \in 0..EmptyRetries, m < n
       PROVE  AgentLeft(n, i, e) + MaxCalls * CallCost + 1 < AgentLeft(m, i, f)
  <2>1. R(m) \in Nat /\ R(n) + RoundCost <= R(m)
    BY <1>2, <1>4, <1>11
  <2>. QED
    BY <1>1, <1>6, <1>7, <2>1
<1>. QED
  BY <1>8, <1>9, <1>10, <1>11

\* What is left of a sub-agent falls with its rounds and its calls, and is less
\* than a call costs.
LEMMA SubLeftFalls ==
  ASSUME NEW turn \in 0..SubTurns, NEW calls \in 0..MaxCalls
  PROVE  /\ SubLeft(turn, calls) \in Nat /\ SubLeft(turn, calls) >= 1
         /\ SubLeft(turn, 0) < CallCost
         /\ \A m \in 0..MaxCalls : m < calls => SubLeft(turn, m) < SubLeft(turn, calls)
         /\ \A m \in 0..MaxCalls : turn < SubTurns => SubLeft(turn + 1, m) < SubLeft(turn, 0)
<1> DEFINE M == MaxCalls + 1
           P(k) == (SubTurns - k) * M
<1>1. SubTurns \in Nat /\ MaxCalls \in Nat /\ M \in Nat /\ M = MaxCalls + 1
  BY DelegationAssumption
<1>2. P(turn) \in Nat /\ P(0) \in Nat /\ P(turn) <= P(0)
  <2>1. SubTurns - turn \in Nat /\ SubTurns - 0 \in Nat /\ SubTurns - turn <= SubTurns - 0
    BY <1>1
  <2>. QED
    BY <1>1, <2>1, NoMore
<1>3. ASSUME turn < SubTurns PROVE P(turn + 1) \in Nat /\ P(turn + 1) + M <= P(turn)
  <2>1. SubTurns - (turn + 1) \in Nat /\ SubTurns - turn \in Nat /\ SubTurns - (turn + 1) < SubTurns - turn
    BY <1>1, <1>3
  <2>. QED
    BY <1>1, <2>1, Fewer
<1>4. CallCost = P(0) + 2
  <2>1. SubTurns - 0 = SubTurns
    BY <1>1
  <2>. QED
    BY <2>1 DEF CallCost
<1>5. \A k, m : SubLeft(k, m) = P(k) + m + 1
  BY DEF SubLeft
<1> HIDE DEF P, M
<1>6. SubLeft(turn, calls) \in Nat /\ SubLeft(turn, calls) >= 1 /\ SubLeft(turn, 0) < CallCost
  BY <1>1, <1>2, <1>4, <1>5
<1>7. ASSUME NEW m \in 0..MaxCalls, m < calls PROVE SubLeft(turn, m) < SubLeft(turn, calls)
  BY <1>1, <1>2, <1>5, <1>7
<1>8. ASSUME NEW m \in 0..MaxCalls, turn < SubTurns PROVE SubLeft(turn + 1, m) < SubLeft(turn, 0)
  BY <1>1, <1>2, <1>3, <1>5, <1>8
<1>. QED
  BY <1>6, <1>7, <1>8

\* The calls that are pending, the one in hand taken apart.
LEMMA CallsCost ==
  ASSUME HandInv
  PROVE  /\ Len(pending) \in Nat /\ CallCost \in Nat /\ Len(pending) * CallCost \in Nat
         /\ pending # << >> =>
              /\ (Len(pending) - 1) * CallCost \in Nat
              /\ Len(pending) * CallCost = (Len(pending) - 1) * CallCost + CallCost
<1>1. Len(pending) \in Nat /\ CallCost \in Nat /\ pending \in Seq(Call)
  BY CostTypes, LenProperties DEF HandInv
<1>2. Len(pending) * CallCost \in Nat
  BY <1>1
<1>3. ASSUME pending # << >>
      PROVE  /\ (Len(pending) - 1) * CallCost \in Nat
             /\ Len(pending) * CallCost = (Len(pending) - 1) * CallCost + CallCost
  <2> DEFINE k == Len(pending) - 1
  <2>1. Len(pending) # 0
    BY <1>1, <1>3, EmptySeq
  <2>2. k \in Nat /\ Len(pending) = k + 1
    BY <1>1, <2>1
  <2> HIDE DEF k
  <2>3. k * CallCost \in Nat /\ (k + 1) * CallCost = k * CallCost + CallCost
    BY <1>1, <2>2
  <2>. QED
    BY <2>2, <2>3 DEF k
<1>. QED
  BY <1>1, <1>2, <1>3

LEMMA RoundLeftType ==
  ASSUME HandInv, LoopInv
  PROVE  RoundLeft \in Nat
<1>1. SubLeft(subTurn, subPending) \in Nat
  BY SubLeftFalls DEF LoopInv
<1>. QED
  BY <1>1, CallsCost DEF RoundLeft, HandInv

\* A step of the tools node lowers what is left of the round.
LEMMA ToolStepFalls ==
  ASSUME HandInv, LoopInv, ToolStep
  PROVE  RoundLeft' < RoundLeft
<1> DEFINE n == Len(pending)
           rest == (Len(pending) - 1) * CallCost
           left == SubLeft(subTurn, subPending)
<1>1. /\ n \in Nat /\ CallCost \in Nat /\ CallCost >= 2 /\ n * CallCost \in Nat
      /\ pending # << >> => rest \in Nat /\ n * CallCost = rest + CallCost
  BY CallsCost, CostTypes
<1>2. left \in Nat /\ left >= 1 /\ subTurn \in 0..SubTurns /\ subPending \in 0..MaxCalls
  BY SubLeftFalls DEF LoopInv
<1>3. RoundLeft = IF sub = None THEN n * CallCost ELSE rest + left
  BY DEF RoundLeft
<1>4. ASSUME pending # << >>, Answer, sub' = None
      PROVE  RoundLeft' = rest
  <2>1. Len(pending') = n - 1
    BY <1>4, HeadTailProperties DEF Answer, HandInv
  <2>. QED
    BY <1>4, <2>1 DEF RoundLeft
<1>5. CASE RunTool \/ RefuseDelegation
  <2>1. pending # << >> /\ Answer /\ UNCHANGED sub
    BY <1>5 DEF RunTool, RefuseDelegation, loop
  <2>2. sub = None
    BY <1>5, DelegationAssumption DEF RunTool, RefuseDelegation, HandInv
  <2>3. RoundLeft' = rest /\ RoundLeft = n * CallCost
    BY <1>3, <1>4, <2>1, <2>2
  <2>. QED
    BY <1>1, <2>1, <2>3
<1>6. CASE Delegate
  <2>1. pending # << >> /\ sub = None /\ sub' \in Task /\ UNCHANGED <<pending, subTurn, subPending>>
    BY <1>6 DEF Delegate, node
  <2>2. subPending = 0 /\ sub' # None
    BY <1>2, <2>1, DelegationAssumption DEF LoopInv
  <2>3. RoundLeft' = rest + SubLeft(subTurn, 0) /\ RoundLeft = rest + CallCost
    BY <1>1, <1>3, <2>1, <2>2 DEF RoundLeft
  <2>4. SubLeft(subTurn, 0) < CallCost /\ left = SubLeft(subTurn, 0)
    BY <1>2, <2>2, SubLeftFalls
  <2>. QED
    BY <1>1, <1>2, <2>1, <2>3, <2>4
<1>7. CASE SubAsks \/ SubTool \/ RefuseSubTool
  <2>1. sub # None /\ UNCHANGED <<pending, sub>>
    BY <1>2, <1>7 DEF SubAsks, SubTool, RefuseSubTool, node, LoopInv
  <2>2. pending # << >>
    BY <2>1 DEF HandInv
  <2>3. RoundLeft' = rest + SubLeft(subTurn', subPending') /\ RoundLeft = rest + left
    BY <1>3, <2>1 DEF RoundLeft
  <2>4. subTurn' \in 0..SubTurns /\ subPending' \in 0..MaxCalls
    BY ToolStepLoop DEF LoopInv
  <2>5. SubLeft(subTurn', subPending') < left /\ SubLeft(subTurn', subPending') \in Nat
    <3>1. SubLeft(subTurn', subPending') \in Nat
      BY <2>4, SubLeftFalls
    <3>2. CASE SubAsks
      <4>1. subPending = 0 /\ subTurn < SubTurns /\ subTurn' = subTurn + 1
        BY <3>2 DEF SubAsks
      <4>. QED
        BY <1>2, <2>4, <3>1, <4>1, SubLeftFalls
    <3>3. CASE SubTool \/ RefuseSubTool
      <4>1. subPending > 0 /\ subPending' = subPending - 1 /\ UNCHANGED subTurn
        BY <3>3 DEF SubTool, RefuseSubTool
      <4>2. subPending' < subPending
        BY <1>2, <4>1
      <4>. QED
        BY <1>2, <2>4, <3>1, <4>1, <4>2, SubLeftFalls
    <3>. QED
      BY <1>7, <3>2, <3>3
  <2>. QED
    BY <1>1, <1>2, <2>2, <2>3, <2>5
<1>8. CASE SubAnswers \/ SubTruncated \/ SubFails
  <2>1. sub # None /\ Answer /\ sub' = None
    BY <1>8 DEF SubAnswers, SubTruncated, SubFails, HandBack, LoopEnds
  <2>2. pending # << >>
    BY <2>1 DEF HandInv
  <2>3. RoundLeft' = rest /\ RoundLeft = rest + left
    BY <1>3, <1>4, <2>1, <2>2
  <2>. QED
    BY <1>1, <1>2, <2>2, <2>3
<1>. QED
  BY <1>5, <1>6, <1>7, <1>8 DEF ToolStep

\* What is left of a run, and that it is not nothing before the run ends.
LEMMA RunLeftType ==
  ASSUME StepsInv, AnswersInv, ChainInv, LocalInv
  PROVE  RunLeft \in Nat /\ (pc \in {"agent", "tools", "synthesize"} => RunLeft > 0)
<1>1. /\ toolTurns \in 0..MaxToolTurns /\ idx \in 1..(NSteps + 1) /\ empties \in 0..EmptyRetries
      /\ position \in 0..NSteps /\ HandInv /\ LoopInv /\ 0 \in 0..EmptyRetries
  <2>1. 0 \in 0..EmptyRetries
    BY AgentAssumption
  <2>. QED
    BY <2>1 DEF StepsInv, AnswersInv, ChainInv, LocalInv, StepInv
<1>2. SynthesisCost \in Nat /\ NSteps \in Nat /\ Tries \in Nat /\ Tries = EmptyRetries + 1 /\ EmptyRetries \in Nat
  BY CostTypes, AgentAssumption DEF Tries
<1>3. CASE pc = "agent"
  BY <1>1, <1>2, <1>3, AgentLeftFalls DEF RunLeft
<1>4. CASE pc = "tools"
  <2>1. toolTurns + 1 \in 0..MaxToolTurns
    BY <1>1, <1>4, AgentAssumption DEF StepsInv
  <2>2. AgentLeft(toolTurns + 1, idx, 0) \in Nat /\ RoundLeft \in Nat
    BY <1>1, <2>1, AgentLeftFalls, RoundLeftType
  <2>. QED
    BY <1>4, <2>2 DEF RunLeft
<1>5. CASE pc = "synthesize"
  <2>1. NSteps - position \in Nat
    BY <1>1, <1>2
  <2>2. (NSteps - position) * Tries \in Nat
    BY <1>2, <2>1
  <2>3. Tries - empties \in Nat /\ Tries - empties > 0
    BY <1>1, <1>2
  <2>. QED
    BY <1>5, <2>2, <2>3 DEF RunLeft
<1>6. CASE pc \in {"ended", "raised"}
  BY <1>6 DEF RunLeft
<1>. QED
  BY <1>3, <1>4, <1>5, <1>6 DEF StepsInv

\* The invariant, with the types of the measure.
LeftInv ==
  /\ AllInv
  /\ RoundLeft \in Nat
  /\ RunLeft \in Nat /\ (pc \in {"agent", "tools", "synthesize"} => RunLeft > 0)

LEMMA LeftHolds == Spec => []LeftInv
<1>1. AllInv => LeftInv
  BY RunLeftType, RoundLeftType DEF AllInv, LeftInv, AnswersInv, LocalInv
<1>. QED
  BY <1>1, AllHold, PTL

LEMMA RunCostType == RunCost \in Nat
<1>1. 0 \in 0..MaxToolTurns /\ 1 \in 1..(NSteps + 1) /\ 0 \in 0..EmptyRetries
  BY AgentAssumption, CostTypes
<1>. QED
  BY <1>1, AgentLeftFalls DEF RunCost

\* A step within a run lowers what is left of it.
LEMMA TurnStepFalls ==
  ASSUME LeftInv, LeftInv', TurnStep
  PROVE  RunLeft' < RunLeft
<1>1. /\ toolTurns \in 0..MaxToolTurns /\ idx \in 1..(NSteps + 1) /\ empties \in 0..EmptyRetries
      /\ position \in 0..NSteps /\ HandInv /\ LoopInv /\ 0 \in 0..EmptyRetries
      /\ StepsInv /\ AnswersInv /\ ChainInv /\ LocalInv
  <2>1. 0 \in 0..EmptyRetries
    BY AgentAssumption
  <2>2. StepsInv /\ AnswersInv /\ ChainInv /\ LocalInv
    BY DEF LeftInv, AllInv
  <2>. QED
    BY <2>1, <2>2 DEF StepsInv, AnswersInv, ChainInv, LocalInv, StepInv
<1>2. /\ toolTurns' \in 0..MaxToolTurns /\ idx' \in 1..(NSteps + 1) /\ empties' \in 0..EmptyRetries
      /\ position' \in 0..NSteps
  BY DEF LeftInv, AllInv, StepsInv, ChainInv, LocalInv, StepInv
<1>3. /\ SynthesisCost \in Nat /\ NSteps \in Nat /\ Tries \in Nat /\ Tries = EmptyRetries + 1
      /\ EmptyRetries \in Nat /\ MaxToolTurns \in Nat /\ CallCost \in Nat /\ NSteps * Tries \in Nat
      /\ SynthesisCost = NSteps * Tries + Tries /\ MaxCalls \in Nat /\ MaxCalls * CallCost \in Nat
  BY CostTypes, AgentAssumption, DelegationAssumption DEF Tries
<1>4. RunLeft \in Nat /\ (pc \in {"agent", "tools", "synthesize"} => RunLeft > 0)
  BY DEF LeftInv
<1>5. CASE ModelIsEmpty \/ ModelFails
  <2>1. pc = "agent" /\ pc' = "agent" /\ UNCHANGED toolTurns /\ idx \in Step
    BY <1>5 DEF ModelIsEmpty, ModelFails
  <2>2. (idx' = idx /\ empties' = empties + 1) \/ idx' > idx
    <3>1. CASE ModelIsEmpty
      BY <1>1, <1>3, <3>1 DEF ModelIsEmpty
    <3>2. CASE ModelFails
      <4>1. idx < NextProvider /\ NextProvider \in 1..(NSteps + 1)
        BY <2>1, NextProviderSkipsOnlyItsOwn
      <4>2. idx' = idx + 1 \/ idx' = NextProvider
        BY <3>2 DEF ModelFails
      <4>. QED
        BY <1>1, <1>3, <4>1, <4>2
    <3>. QED
      BY <1>5, <3>1, <3>2
  <2>3. RunLeft = AgentLeft(toolTurns, idx, empties) /\ RunLeft' = AgentLeft(toolTurns, idx', empties')
    BY <2>1 DEF RunLeft
  <2>4. CASE idx' = idx /\ empties' = empties + 1
    <3>1. empties < empties'
      BY <1>1, <2>4
    <3>. QED
      BY <1>1, <1>2, <2>3, <2>4, <3>1, AgentLeftFalls
  <2>5. CASE idx' > idx
    <3>1. idx < idx'
      BY <1>1, <1>2, <2>5
    <3>. QED
      BY <1>1, <1>2, <2>3, <3>1, AgentLeftFalls
  <2>. QED
    BY <2>2, <2>4, <2>5
<1>6. CASE ModelAsks
  <2>1. PICK calls \in Calls :
          /\ pending' = IF toolTurns < MaxToolTurns THEN calls ELSE << >>
          /\ Return([kind |-> "calls", calls |-> Len(calls)],
                    IF toolTurns < MaxToolTurns THEN "tools" ELSE "synthesize")
    BY <1>6 DEF ModelAsks
  <2>2. pc = "agent" /\ UNCHANGED <<toolTurns, idx, position, sub>> /\ empties' = 0
    BY <1>6, <2>1 DEF ModelAsks, Return, loop
  <2>3. RunLeft = AgentLeft(toolTurns, idx, empties)
    BY <2>2 DEF RunLeft
  <2>4. CASE toolTurns < MaxToolTurns
    <3>1. pc' = "tools" /\ pending' = calls
      BY <2>1, <2>4 DEF Return
    <3>2. sub' = None
      BY <1>1, <2>2 DEF AnswersInv, HandInv
    <3>3. RunLeft' = AgentLeft(toolTurns + 1, idx, 0) + Len(calls) * CallCost + 1
      BY <2>2, <3>1, <3>2 DEF RunLeft, RoundLeft
    <3>4. Len(calls) \in Nat /\ Len(calls) <= MaxCalls
      BY <1>3 DEF Calls
    <3>5. Len(calls) * CallCost \in Nat /\ Len(calls) * CallCost <= MaxCalls * CallCost
      BY <1>3, <3>4, NoMore
    <3>6. toolTurns + 1 \in 0..MaxToolTurns /\ toolTurns < toolTurns + 1
      BY <1>1, <1>3, <2>4
    <3>7. /\ AgentLeft(toolTurns + 1, idx, 0) \in Nat
          /\ AgentLeft(toolTurns + 1, idx, 0) + MaxCalls * CallCost + 1 < AgentLeft(toolTurns, idx, empties)
      BY <1>1, <3>6, AgentLeftFalls
    <3>. QED
      BY <1>3, <1>4, <2>3, <3>3, <3>5, <3>7
  <2>5. CASE ~ (toolTurns < MaxToolTurns)
    <3>1. pc' = "synthesize"
      BY <2>1, <2>5 DEF Return
    <3>2. RunLeft' = (NSteps - position) * Tries + Tries
      BY <1>3, <2>2, <3>1 DEF RunLeft
    <3>3. (NSteps - position) * Tries \in Nat /\ (NSteps - position) * Tries <= NSteps * Tries
      <4>1. NSteps - position \in Nat /\ NSteps - position <= NSteps
        BY <1>1, <1>3
      <4>. QED
        BY <1>3, <4>1, NoMore
    <3>4. RunLeft > SynthesisCost
      BY <1>1, <2>3, AgentLeftFalls
    <3>. QED
      BY <1>3, <1>4, <3>2, <3>3, <3>4
  <2>. QED
    BY <2>4, <2>5
<1>7. CASE ModelAnswers \/ ChainSpent \/ SynthesizeAnswers \/ SynthesizeGivesUp
  <2>1. pc \in {"agent", "synthesize"} /\ pc' = "ended"
    BY <1>7 DEF ModelAnswers, ChainSpent, SynthesizeAnswers, SynthesizeGivesUp, Return
  <2>2. RunLeft' = 0
    BY <2>1 DEF RunLeft
  <2>. QED
    BY <1>4, <2>1, <2>2
<1>8. CASE RunTools
  <2>1. ToolStep /\ pc = "tools" /\ UNCHANGED <<pc, toolTurns, idx>>
    BY <1>8 DEF RunTools, graph
  <2>2. RoundLeft' < RoundLeft
    BY <1>1, <2>1, ToolStepFalls
  <2>3. RoundLeft \in Nat /\ RoundLeft' \in Nat
    BY DEF LeftInv
  <2>4. toolTurns + 1 \in 0..MaxToolTurns
    BY <1>1, <1>3, <2>1 DEF StepsInv
  <2>5. AgentLeft(toolTurns + 1, idx, 0) \in Nat
    BY <1>1, <2>4, AgentLeftFalls
  <2>. QED
    BY <2>1, <2>2, <2>3, <2>5 DEF RunLeft
<1>9. CASE ToolsDone
  <2>1. pc = "tools" /\ pc' = "agent" /\ toolTurns' = toolTurns + 1 /\ UNCHANGED <<idx, empties>>
    BY <1>9 DEF ToolsDone
  <2>2. RunLeft = AgentLeft(toolTurns', idx, 0) + RoundLeft + 1 /\ RunLeft' = AgentLeft(toolTurns', idx, empties)
    BY <2>1 DEF RunLeft
  <2>3. RoundLeft \in Nat
    BY DEF LeftInv
  <2>4. AgentLeft(toolTurns', idx, 0) \in Nat /\ AgentLeft(toolTurns', idx, empties) \in Nat
        /\ (0 < empties => AgentLeft(toolTurns', idx, empties) < AgentLeft(toolTurns', idx, 0))
    BY <1>1, <1>2, AgentLeftFalls
  <2>5. empties = 0 \/ 0 < empties
    BY <1>1
  <2>. QED
    BY <2>2, <2>3, <2>4, <2>5
<1>10. CASE SynthesizeMisses \/ SynthesizeBreaks
  <2>1. pc = "synthesize" /\ UNCHANGED pc /\ position < NSteps
    BY <1>10 DEF SynthesizeMisses, SynthesizeBreaks
  <2>2. \/ position' = position /\ empties' = empties + 1
        \/ position' = position + 1 /\ empties' = 0
    BY <1>10 DEF SynthesizeMisses, SynthesizeBreaks
  <2> DEFINE p == (NSteps - position) * Tries
             q == (NSteps - position') * Tries
  <2>3. RunLeft = p + (Tries - empties) /\ RunLeft' = q + (Tries - empties')
    BY <2>1 DEF RunLeft
  <2>4. CASE position' = position /\ empties' = empties + 1
    <3>1. NSteps - position \in Nat /\ q = p
      BY <1>1, <1>3, <2>4
    <3>2. p \in Nat
      BY <1>3, <3>1
    <3> HIDE DEF p, q
    <3>. QED
      BY <1>1, <1>3, <2>3, <2>4, <3>1, <3>2
  <2>5. CASE position' = position + 1 /\ empties' = 0
    <3>1. NSteps - position \in Nat /\ NSteps - position' \in Nat /\ NSteps - position' < NSteps - position
      BY <1>1, <1>2, <1>3, <2>5
    <3>2. p \in Nat /\ q \in Nat /\ q + Tries <= p
      BY <1>3, <3>1, Fewer
    <3> HIDE DEF p, q
    <3>. QED
      BY <1>1, <1>3, <2>3, <2>5, <3>2
  <2>. QED
    BY <2>2, <2>4, <2>5
<1>. QED
  BY <1>5, <1>6, <1>7, <1>8, <1>9, <1>10 DEF TurnStep

\* Every step of a turn, also a restart, lowers TurnLeft, which begins at two runs
\* at most: no answers of the models and no failures make run_agent or
\* stream_agent go on for ever.
THEOREM TurnIsBounded ==
  Spec => /\ TurnLeft <= 2 * RunCost
          /\ [][TurnLeft' < TurnLeft /\ TurnLeft' \in Nat]_vars
<1>1. RunCost \in Nat
  BY RunCostType
<1>2. Init => TurnLeft <= 2 * RunCost
  <2> SUFFICES ASSUME Init PROVE TurnLeft <= 2 * RunCost
    OBVIOUS
  <2>1. RunLeft = RunCost
    BY DEF Init, RunLeft, RunCost
  <2>. QED
    BY <1>1, <2>1 DEF TurnLeft
<1>3. LeftInv /\ LeftInv' /\ [Next]_vars => [TurnLeft' < TurnLeft /\ TurnLeft' \in Nat]_vars
  <2> SUFFICES ASSUME LeftInv, LeftInv', Next
               PROVE  TurnLeft' < TurnLeft /\ TurnLeft' \in Nat
    OBVIOUS
  <2>1. RunLeft \in Nat /\ (pc \in {"agent", "tools", "synthesize"} => RunLeft > 0)
    BY DEF LeftInv
  <2>2. RunLeft' \in Nat
    BY DEF LeftInv
  <2>3. CASE TurnStep
    <3>1. UNCHANGED driver
      BY <2>3 DEF TurnStep, ModelIsEmpty, ModelFails, ModelAsks, ModelAnswers, ChainSpent, RunTools, graph,
                  ToolsDone, SynthesizeMisses, SynthesizeBreaks, SynthesizeAnswers, SynthesizeGivesUp
    <3>2. RunLeft' < RunLeft
      BY <2>3, TurnStepFalls
    <3>. QED
      <4>1. RunCost' = RunCost
        BY DEF RunCost, AgentLeft, RoundCost, SynthesisCost, CallCost, Tries, NSteps
      <4> DEFINE spare == IF driver = "stream" THEN RunCost ELSE 0
      <4>2. spare \in Nat
        BY <1>1
      <4>3. TurnLeft = RunLeft + spare
        BY DEF TurnLeft
      <4>4. TurnLeft' = RunLeft' + spare
        BY <3>1, <4>1 DEF TurnLeft
      <4> HIDE DEF spare
      <4>. QED
        <5>1. RunLeft \in Nat
          BY <2>1
        <5>2. \A a, b, c \in Nat : a < b => a + c < b + c /\ a + c \in Nat
          OBVIOUS
        <5>3. RunLeft' + spare < RunLeft + spare /\ RunLeft' + spare \in Nat
          BY <2>2, <3>2, <4>2, <5>1, <5>2
        <5>. QED
          BY <4>3, <4>4, <5>3
  <2>4. CASE Reinvoke
    <3>1. /\ pc \in {"agent", "tools", "synthesize"} /\ driver = "stream" /\ driver' = "invoke"
          /\ pc' = "agent" /\ idx' = 1 /\ empties' = 0 /\ toolTurns' = 0
      BY <2>4 DEF Reinvoke
    <3>2. RunLeft' = RunCost
      BY <3>1 DEF RunLeft, RunCost
    <3>3. TurnLeft = RunLeft + RunCost /\ TurnLeft' = RunCost
      BY <1>1, <3>1, <3>2 DEF TurnLeft
    <3>. QED
      BY <1>1, <2>1, <3>1, <3>3
  <2>5. CASE Raise
    <3>1. pc \in {"agent", "tools", "synthesize"} /\ pc' = "raised" /\ UNCHANGED driver
      BY <2>5 DEF Raise
    <3>2. RunLeft' = 0
      BY <3>1 DEF RunLeft
    <3>. QED
      BY <1>1, <2>1, <3>1, <3>2 DEF TurnLeft
  <2>. QED
    BY <2>3, <2>4, <2>5 DEF Next
<1>. QED
  BY <1>2, <1>3, LeftHolds, PTL DEF Spec
=============================================================================
