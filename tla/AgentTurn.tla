------------------------------ MODULE AgentTurn ------------------------------
(***************************************************************************)
(* One turn of the chat agent: the graph of app/agents/graph.py (prepare,  *)
(* agent, tools, synthesize) with its fallback chain of models, and its    *)
(* two drivers, run_agent and stream_agent.  The tools node is module      *)
(* Delegation.                                                             *)
(*                                                                         *)
(* The nudge node is left out: route_after_agent leads to it only from a   *)
(* message without text and calls, and the agent node returns none.        *)
(***************************************************************************)
EXTENDS Delegation, FiniteSetsExt

CONSTANTS
  NProviders,      \* enabled providers; each has a model and a fallback model
  EmptyRetries,    \* _EMPTY_RETRIES
  MaxToolTurns,    \* agent_max_tool_turns
  RecursionLimit,  \* recursion_limit of the graph
  MaxFaults        \* bound on the exceptions that end a run of the graph

ASSUME AgentAssumption ==
  /\ NProviders \in Nat \ {0} /\ EmptyRetries \in Nat /\ MaxToolTurns \in Nat /\ MaxFaults \in Nat
  /\ RecursionLimit \in Nat /\ RecursionLimit >= 2 * MaxToolTurns + 3

\* model_chain: <<provider 1, main>>, <<provider 1, fallback>>, <<provider 2, main>> ...
NSteps == 2 * NProviders
Step   == 1..NSteps
ProviderOf(i) == (i + 1) \div 2

VARIABLES
  pc,         \* "agent", "tools", "synthesize", "ended", "raised"
  driver,     \* "stream", or "invoke" (run_agent, or a stream's second attempt)
  prior,      \* is there an earlier answer in the history?
  messages,   \* state["messages"]
  idx,        \* provider_idx; NSteps + 1 once the chain is spent
  empties,    \* empty answers of the step in hand
  position,   \* steps of the chain that synthesize has given up
  toolTurns,
  steps,      \* history: nodes entered in this run of the graph
  failed,     \* history: steps of the chain the agent node gave up, and why
  faults

graph == <<pc, driver, prior, messages, idx, empties, position, toolTurns, steps, failed, faults>>
vars  == <<delegationVars, graph>>

Kind    == {"old", "question", "calls", "result", "answer", "answer and calls", "payload", "unavailable", "gave up"}
Message == [kind : Kind, calls : 0..MaxCalls]
Msg(kind) == [kind |-> kind, calls |-> 0]

TypeOK ==
  /\ DelegationTypeOK
  /\ pc \in {"agent", "tools", "synthesize", "ended", "raised"}
  /\ driver \in {"stream", "invoke"}
  /\ prior \in BOOLEAN
  /\ messages \in Seq(Message)
  /\ idx \in 1..(NSteps + 1)
  /\ empties \in 0..EmptyRetries
  /\ position \in 0..NSteps
  /\ toolTurns \in 0..MaxToolTurns
  /\ steps \in Nat
  /\ failed \subseteq Step \X {"empty", "error", "too large"}
  /\ faults \in 0..MaxFaults

\* init_state of _build_turn.
InitMessages(p) == IF p THEN <<Msg("old"), Msg("question")>> ELSE <<Msg("question")>>

Init ==
  /\ DelegationInit
  /\ pc = "agent" /\ driver \in {"stream", "invoke"}
  /\ prior \in BOOLEAN
  /\ messages = InitMessages(prior)
  /\ idx = 1 /\ empties = 0 /\ position = 0 /\ toolTurns = 0
  /\ steps = 2 /\ failed = {} /\ faults = 0

\* A node returns this message and the graph goes on to another.
Return(msg, next) ==
  /\ messages' = Append(messages, msg)
  /\ pc' = next
  /\ empties' = 0
  /\ steps' = IF next = "ended" THEN steps ELSE steps + 1

-----------------------------------------------------------------------------
(* The agent node *)

\* An empty answer is retried in place; then the step is given up.
ModelIsEmpty ==
  /\ pc = "agent" /\ idx \in Step
  /\ IF empties < EmptyRetries
     THEN empties' = empties + 1 /\ UNCHANGED <<idx, failed>>
     ELSE /\ empties' = 0
          /\ idx' = idx + 1
          /\ failed' = failed \cup {<<idx, "empty">>}
  /\ UNCHANGED <<delegationVars, pc, driver, prior, messages, position, toolTurns, steps, faults>>

\* A request too large for one provider taken for too large for all.
SkipChain == NSteps + 1

\* Its fallback model has the same ceiling: on to the next provider.
NextProvider == Min({i \in Step : ProviderOf(i) > ProviderOf(idx)} \cup {NSteps + 1})

ModelFails ==
  /\ pc = "agent" /\ idx \in Step
  /\ empties' = 0
  /\ \/ idx' = idx + 1      /\ failed' = failed \cup {<<idx, "error">>}
     \/ idx' = NextProvider /\ failed' = failed \cup {<<idx, "too large">>}
  /\ UNCHANGED <<delegationVars, pc, driver, prior, messages, position, toolTurns, steps, faults>>

\* The model asks for tools: they run, or, at the cap, synthesize takes over.
ModelAsks ==
  /\ pc = "agent" /\ idx \in Step
  /\ \E calls \in Calls :
       /\ pending' = IF toolTurns < MaxToolTurns THEN calls ELSE << >>
       /\ Return([kind |-> "calls", calls |-> Len(calls)],
                 IF toolTurns < MaxToolTurns THEN "tools" ELSE "synthesize")
  /\ UNCHANGED <<results, loop, budget, report, runs, subTools>>
  /\ UNCHANGED <<driver, prior, idx, position, toolTurns, failed, faults>>

\* It answers, or echoes a tool's result as text: both end the run.
ModelAnswers ==
  /\ pc = "agent" /\ idx \in Step
  /\ \E kind \in {"answer", "payload"} : Return(Msg(kind), "ended")
  /\ UNCHANGED <<delegationVars, driver, prior, idx, position, toolTurns, failed, faults>>

\* Every model is spent: a friendly message.
ChainSpent ==
  /\ pc = "agent" /\ idx = NSteps + 1
  /\ Return(Msg("unavailable"), "ended")
  /\ idx' = NSteps
  /\ UNCHANGED <<delegationVars, driver, prior, position, toolTurns, failed, faults>>

-----------------------------------------------------------------------------
(* The tools node *)

RunTools == pc = "tools" /\ ToolStep /\ UNCHANGED graph

\* A round that is not counted.
ToolsUncounted ==
  /\ pc = "tools" /\ pending = << >>
  /\ messages' = messages \o [i \in 1..results |-> Msg("result")]
  /\ results' = 0
  /\ pc' = "agent" /\ steps' = steps + 1
  /\ UNCHANGED <<pending, loop, budget, report, runs, subTools>>
  /\ UNCHANGED <<driver, prior, idx, empties, position, toolTurns, failed, faults>>

ToolsDone ==
  /\ pc = "tools" /\ pending = << >>
  /\ messages' = messages \o [i \in 1..results |-> Msg("result")]
  /\ results' = 0
  /\ toolTurns' = toolTurns + 1
  /\ pc' = "agent" /\ steps' = steps + 1
  /\ UNCHANGED <<pending, loop, budget, report, runs, subTools>>
  /\ UNCHANGED <<driver, prior, idx, empties, position, failed, faults>>

-----------------------------------------------------------------------------
(* The synthesize node: from the step in use, once round the chain.  The models *)
(* are alike here, so only their number matters.                                *)

\* A miss that is retried for ever.
MissForever ==
  /\ pc = "synthesize" /\ position < NSteps
  /\ empties' = IF empties < EmptyRetries THEN empties + 1 ELSE 0
  /\ UNCHANGED <<delegationVars, pc, driver, prior, messages, idx, position, toolTurns, steps, failed, faults>>

\* An empty answer, or a call without text, is retried in place.
SynthesizeMisses ==
  /\ pc = "synthesize" /\ position < NSteps
  /\ IF empties < EmptyRetries
     THEN empties' = empties + 1 /\ UNCHANGED position
     ELSE empties' = 0 /\ position' = position + 1
  /\ UNCHANGED <<delegationVars, pc, driver, prior, messages, idx, toolTurns, steps, failed, faults>>

\* An error or an echoed payload: on to the next model.
SynthesizeBreaks ==
  /\ pc = "synthesize" /\ position < NSteps
  /\ empties' = 0 /\ position' = position + 1
  /\ UNCHANGED <<delegationVars, pc, driver, prior, messages, idx, toolTurns, steps, failed, faults>>

\* Text is returned, with whatever calls come with it.
SynthesizeAnswers ==
  /\ pc = "synthesize" /\ position < NSteps
  /\ \/ Return(Msg("answer"), "ended")
     \/ Return([kind |-> "answer and calls", calls |-> 1], "ended")
  /\ UNCHANGED <<delegationVars, driver, prior, idx, position, toolTurns, failed, faults>>

SynthesizeGivesUp ==
  /\ pc = "synthesize" /\ position = NSteps
  /\ Return(Msg("gave up"), "ended")
  /\ UNCHANGED <<delegationVars, driver, prior, idx, position, toolTurns, failed, faults>>

-----------------------------------------------------------------------------
(* The drivers *)

\* A restart that comes with a budget of its own.
NewBudget == used' = 0 /\ seen' = {} /\ toolCalls' = 0

\* The graph, its tools and their budget are those of the first attempt.
KeepBudget == UNCHANGED budget

\* stream_agent: a run that raises is thrown away and the graph invoked again,
\* from init_state.
Reinvoke ==
  /\ pc \in {"agent", "tools", "synthesize"} /\ driver = "stream"
  /\ faults < MaxFaults /\ faults' = faults + 1
  /\ driver' = "invoke"
  /\ pc' = "agent" /\ messages' = InitMessages(prior)
  /\ idx' = 1 /\ empties' = 0 /\ position' = 0 /\ toolTurns' = 0
  /\ steps' = 2 /\ failed' = {}
  /\ pending' = << >> /\ results' = 0 /\ LoopEnds
  /\ KeepBudget
  /\ UNCHANGED <<prior, report, runs, subTools>>

\* run_agent lets the exception out, to the refund of module ChatTurn.
Raise ==
  /\ pc \in {"agent", "tools", "synthesize"} /\ driver = "invoke"
  /\ faults < MaxFaults /\ faults' = faults + 1
  /\ pc' = "raised"
  /\ UNCHANGED <<delegationVars, driver, prior, messages, idx, empties, position, toolTurns, steps, failed>>

TurnStep ==
  \/ ModelIsEmpty \/ ModelFails \/ ModelAsks \/ ModelAnswers \/ ChainSpent
  \/ RunTools \/ ToolsDone
  \/ SynthesizeMisses \/ SynthesizeBreaks \/ SynthesizeAnswers \/ SynthesizeGivesUp

Next == TurnStep \/ Reinvoke \/ Raise

\* A model that agent or synthesize asks answers, raises or runs into its timeout.
\* Nothing bounds the wait for a tool (run_tools_with_trace), nor that for the model
\* of a sub-agent and for its tools (run_subagent): no fairness for them.
Spec     == Init /\ [][Next]_vars
FairSpec == Spec /\ WF_vars(TurnStep /\ pc # "tools") /\ WF_vars(ToolsDone)

-----------------------------------------------------------------------------

\* The messages with a call that no result follows.
Unanswered ==
  {i \in DOMAIN messages :
     \E k \in 1..messages[i].calls : i + k \notin DOMAIN messages \/ messages[i + k].kind # "result"}

\* Whenever the agent node asks a model, every tool call in the conversation is
\* followed by its result.  At the cap it is not: route_after_agent hands a message
\* with calls to synthesize, which asks all models with that message as it is, with
\* "dangling tool_call_ids that providers (OpenAI/Anthropic) reject" (memory.py).
\* These are the only calls that no result follows when a model is asked.
OnlyTheCapLeavesCallsOpen ==
  /\ pc = "agent" => Unanswered = {}
  /\ pc = "synthesize" => toolTurns = MaxToolTurns /\ Unanswered = {Len(messages)}

\* The user is told that all models are unavailable only after each of them
\* failed in this run, or belongs to a provider that found the request too large.
ChainSpentOnlyIfAllFailed ==
  pc = "ended" /\ Last(messages) = Msg("unavailable") =>
    \A i \in Step :
      \/ \E why \in {"empty", "error"} : <<i, why>> \in failed
      \/ \E j \in Step : ProviderOf(j) = ProviderOf(i) /\ <<j, "too large">> \in failed

\* No sequence of tool rounds and synthesis reaches the limit at which the graph
\* would raise instead of answering.
StepsWithinRecursionLimit == steps <= RecursionLimit

\* A turn ends whatever its models do, unless it waits for ever for one tool or
\* sub-agent call: neither the fallback chain, nor the rounds of tools and of
\* sub-agents, nor the second attempt of a stream goes on without end.
TurnEnds == WF_vars(RunTools) => <>(pc \in {"ended", "raised"})
=============================================================================
