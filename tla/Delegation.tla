----------------------------- MODULE Delegation -----------------------------
(***************************************************************************)
(* One round of tool calls of the chat agent: run_tools_with_trace         *)
(* (app/agents/trace.py) runs the calls of a model's message one after the *)
(* other; a delegate_* call (app/agents/registry.py) runs a sub-agent's    *)
(* bounded loop (app/agents/base.py).  One DelegationBudget                *)
(* (app/agents/budget.py) and one trace (app/agents/tracing.py) serve the  *)
(* whole turn of the user.                                                 *)
(***************************************************************************)
EXTENDS Integers, FiniteSets, Sequences, SequencesExt

CONSTANTS
  Task,            \* what can be delegated: task_key, sub-agent and task text
  MaxCalls,        \* bound on the tool calls of one message
  MaxDelegations,  \* max_delegations
  ToolCap,         \* global_tool_cap
  SubTurns,        \* MAX_TOOL_TURNS of a sub-agent's loop
  None

ASSUME DelegationAssumption ==
  /\ MaxCalls \in Nat \ {0} /\ MaxDelegations \in Nat /\ ToolCap \in Nat /\ SubTurns \in Nat
  /\ "tool" \notin Task /\ None \notin Task

\* A call is of a delegate tool, named by its task, or of any other tool.
Call  == Task \cup {"tool"}
Calls == UNION {[1..n -> Call] : n \in 1..MaxCalls}

VARIABLES
  pending,     \* calls of the message not yet run
  results,     \* ToolMessages made so far
  \* the sub-agent at work
  sub,         \* its task, or None
  subTurn,     \* rounds of its loop begun
  subPending,  \* tool calls of its last message not yet run
  evidence,    \* rows with its label in the trace since it began
  executed,    \* tools it has really run
  \* the budget
  used, seen, toolCalls,
  \* history
  report,      \* what the last sub-agent handed back
  runs,        \* [Task -> times a sub-agent was set to it]
  subTools     \* tools run by all sub-agents together

node   == <<pending, results>>
loop   == <<sub, subTurn, subPending, evidence, executed>>
budget == <<used, seen, toolCalls>>
delegationVars == <<node, loop, budget, report, runs, subTools>>

Report == [task : Task, executed : Nat, unverified : BOOLEAN, partial : BOOLEAN]

DelegationTypeOK ==
  /\ pending \in Seq(Call) /\ Len(pending) <= MaxCalls
  /\ results \in 0..MaxCalls
  /\ sub \in Task \cup {None}
  /\ subTurn \in 0..SubTurns
  /\ subPending \in 0..MaxCalls
  /\ evidence \in Nat /\ executed \in 0..evidence
  /\ used \in 0..MaxDelegations /\ seen \subseteq Task /\ toolCalls \in 0..ToolCap
  /\ report \in Report \cup {None}
  /\ runs \in [Task -> Nat]
  /\ subTools \in Nat

DelegationInit ==
  /\ pending = << >> /\ results = 0
  /\ sub = None /\ subTurn = 0 /\ subPending = 0 /\ evidence = 0 /\ executed = 0
  /\ used = 0 /\ seen = {} /\ toolCalls = 0
  /\ report = None
  /\ runs = [t \in Task |-> 0]
  /\ subTools = 0

LoopEnds ==
  /\ sub' = None /\ subTurn' = 0 /\ subPending' = 0 /\ evidence' = 0 /\ executed' = 0

\* The call in hand is answered with a ToolMessage.
Answer == pending' = Tail(pending) /\ results' = results + 1

-----------------------------------------------------------------------------

\* Any tool but a delegate: its result, or its error, is the answer.  The budget
\* is not asked and not charged.
RunTool ==
  /\ pending # << >> /\ Head(pending) = "tool"
  /\ Answer
  /\ UNCHANGED <<loop, budget, report, runs, subTools>>

\* can_delegate.
CanDelegate(t) == used < MaxDelegations /\ t \notin seen

\* A refusal that the model is not told of.
RefuseSilently ==
  /\ sub = None /\ pending # << >>
  /\ Head(pending) \in Task /\ ~CanDelegate(Head(pending))
  /\ pending' = Tail(pending)
  /\ UNCHANGED <<results, loop, budget, report, runs, subTools>>

RefuseDelegation ==
  /\ sub = None /\ pending # << >>
  /\ Head(pending) \in Task /\ ~CanDelegate(Head(pending))
  /\ Answer
  /\ UNCHANGED <<loop, budget, report, runs, subTools>>

Delegate ==
  /\ sub = None /\ pending # << >>
  /\ Head(pending) \in Task /\ CanDelegate(Head(pending))
  /\ sub' = Head(pending)
  /\ used' = used + 1
  /\ seen' = seen \cup {Head(pending)}
  /\ runs' = [runs EXCEPT ![Head(pending)] = @ + 1]
  /\ UNCHANGED <<node, subTurn, subPending, evidence, executed, toolCalls, report, subTools>>

\* The next round of the loop: the model asks for tools ...
SubAsks ==
  /\ sub # None /\ subPending = 0 /\ subTurn < SubTurns
  /\ subTurn' = subTurn + 1
  /\ subPending' \in 1..MaxCalls
  /\ UNCHANGED <<node, sub, evidence, executed, budget, report, runs, subTools>>

\* A tool call that is not charged to the budget.
SubToolUncharged ==
  /\ subPending > 0 /\ toolCalls < ToolCap
  /\ executed' = executed + 1
  /\ subTools' = subTools + 1
  /\ evidence' = evidence + 1
  /\ subPending' = subPending - 1
  /\ UNCHANGED <<node, sub, subTurn, budget, report, runs>>

\* One of these calls: run while the budget has room, charged when it has ended.
SubTool ==
  /\ subPending > 0 /\ toolCalls < ToolCap
  /\ executed' = executed + 1
  /\ subTools' = subTools + 1
  /\ toolCalls' = toolCalls + 1
  /\ evidence' = evidence + 1
  /\ subPending' = subPending - 1
  /\ UNCHANGED <<node, sub, subTurn, used, seen, report, runs>>

\* One that the budget refuses leaves a row in the trace all the same.
RefuseSubTool ==
  /\ subPending > 0 /\ toolCalls >= ToolCap
  /\ evidence' = evidence + 1
  /\ subPending' = subPending - 1
  /\ UNCHANGED <<node, sub, subTurn, executed, budget, report, runs, subTools>>

\* _delegate's payload.
HandBack(partial) ==
  /\ report' = [task |-> sub, executed |-> executed,
                unverified |-> evidence = 0, partial |-> partial]
  /\ Answer
  /\ LoopEnds
  /\ UNCHANGED <<budget, runs, subTools>>

\* ... or answers without tools, and that ends it.
SubAnswers == sub # None /\ subPending = 0 /\ subTurn < SubTurns /\ HandBack(FALSE)

\* The rounds are used up: a last answer, marked as partial.
SubTruncated == sub # None /\ subPending = 0 /\ subTurn = SubTurns /\ HandBack(TRUE)

\* The sub-agent's model or set-up raises: subagent_failed.
SubFails ==
  /\ sub # None /\ subPending = 0 /\ subTurn < SubTurns
  /\ Answer
  /\ LoopEnds
  /\ UNCHANGED <<budget, report, runs, subTools>>

ToolStep ==
  \/ RunTool \/ RefuseDelegation \/ Delegate
  \/ SubAsks \/ SubTool \/ RefuseSubTool \/ SubAnswers \/ SubTruncated \/ SubFails

-----------------------------------------------------------------------------

\* The sub-agents of a turn run no more tools than the cap allows, however many
\* of them there are and however many calls one message asks for.
SubAgentsWithinCap == subTools <= ToolCap

\* No task is worked on twice in a turn, and no more tasks than allowed are,
\* even if the graph is started again after a stream broke.
DelegatedOnce ==
  /\ \A t \in Task : runs[t] <= 1
  /\ Cardinality({t \in Task : runs[t] > 0}) <= MaxDelegations
=============================================================================
