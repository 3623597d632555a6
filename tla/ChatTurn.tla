------------------------------ MODULE ChatTurn ------------------------------
(***************************************************************************)
(* A chat session and the turns sent to it: send_message and               *)
(* stream_message of app/services/chat.py, which share every step that     *)
(* touches the store, with the token budget of app/services/governance.py  *)
(* and the call quota of module Quota.  Turns of one session run at the    *)
(* same time (two tabs, a retry); between two calls of the store anything  *)
(* may happen: another turn, a rename, a deletion, midnight, the end of    *)
(* the request.                                                            *)
(***************************************************************************)
EXTENDS Quota

CONSTANTS
  Earlier,     \* the turn that an older session already holds
  HistoryMax,  \* the limit argument of list_messages (200)
  Budget,      \* daily_token_budget, in turns; <= 0 disables it
  Names        \* the names that the user gives the session, from Named

\* The titles that chat.py takes for the placeholder: '' and whatever begins with
\* "New chat", be it the default or a name that the user chose.  (No question
\* begins so: its slug would be a placeholder again.)
Placeholders == {"default", "named: New chat..."}
Named    == {"named", "named: New chat..."}
Titles   == Placeholders \cup Named \cup {"auto"}

ASSUME ChatAssumption ==
  /\ Earlier \notin Turn /\ HistoryMax \in Nat \ {0} /\ Budget \in Int
  /\ Names \subseteq Named

VARIABLES
  \* chat_sessions: the session's document
  session,       \* "live", "deleted" (its messages not yet), "purged"
  title,         \* "default"; "auto", the slug of a question; "named" by the user
  messageCount,
  \* chat_messages: the session's documents, as <<turn, role>>
  messages,
  created,       \* [Message -> created_at], 0 as long as there is none
  clock,         \* the latest created_at: one server clock, no two alike
  \* usage_daily: runs of the agent charged to each day
  tokens,
  \* the local state of each turn
  pc,
  kind,          \* "answer", or "notice" (budget or quota spent)
  snap,          \* session.title as get_session returned it
  prior,         \* the history handed to the agent, in the order of created
  total          \* the result of count_documents

chatStore == <<session, title, messageCount, messages, created, clock, tokens>>
local     == <<pc, kind, snap, prior, total>>
vars      == <<quotaVars, chatStore, local>>

Message  == (Turn \cup {Earlier}) \X {"user", "assistant"}
Question(t) == <<t, "user">>
Answer(t)   == <<t, "assistant">>
Ended    == {"done", "error", "gone"}
Steps    == {"budget", "consume", "user", "prior", "run", "refund", "govern",
             "answered", "assistant", "count", "update", "check"}
MostMessages == 2 * (Cardinality(Turn) + 1)

TypeOK ==
  /\ QuotaTypeOK
  /\ session \in {"live", "deleted", "purged"}
  /\ title \in Titles
  /\ messageCount \in 0..MostMessages
  /\ messages \in SUBSET Message
  /\ created \in [Message -> 0..MostMessages]
  /\ clock \in 0..MostMessages
  /\ tokens \in [Day -> Nat]
  /\ pc \in [Turn -> {"idle"} \cup Steps \cup Ended]
  /\ kind \in [Turn -> {"answer", "notice"}]
  /\ snap \in [Turn -> Titles]
  /\ prior \in [Turn -> SUBSET Message]
  /\ total \in [Turn -> 0..MostMessages]

\* A new session, or one with an earlier turn.  (Turns that end early make its
\* counter drift.)
ChatInit ==
  /\ session = "live"
  /\ \/ messages = {} /\ clock = 0 /\ title = "default"
     \/ messages = {Question(Earlier), Answer(Earlier)} /\ clock = 2 /\ title = "auto"
  /\ messageCount = clock
  /\ created = [m \in Message |-> IF m \notin messages THEN 0
                                 ELSE IF m = Question(Earlier) THEN 1 ELSE 2]
  /\ tokens = [d \in Day |-> 0]
  /\ pc = [t \in Turn |-> "idle"]
  /\ kind = [t \in Turn |-> "answer"]
  /\ snap = [t \in Turn |-> "default"]
  /\ prior = [t \in Turn |-> {}]
  /\ total = [t \in Turn |-> 0]

Init == QuotaInit /\ ChatInit

\* The turn has ended: its locals are gone.
Forget(t) ==
  /\ kind' = [kind EXCEPT ![t] = "answer"]
  /\ snap' = [snap EXCEPT ![t] = "default"]
  /\ prior' = [prior EXCEPT ![t] = {}]
  /\ total' = [total EXCEPT ![t] = 0]

Goto(t, from, to) == pc[t] = from /\ pc' = [pc EXCEPT ![t] = to]

-----------------------------------------------------------------------------

\* get_session: the turn keeps this copy of the document to its end.
ReadSession(t) ==
  /\ Goto(t, "idle", IF session = "live" THEN "budget" ELSE "error")
  /\ snap' = [snap EXCEPT ![t] = IF session = "live" THEN title ELSE @]
  /\ UNCHANGED <<quotaVars, chatStore, kind, prior, total>>

\* _persist_message, to its await: the document is made, with its created_at ...
Stamp(t, role) ==
  /\ clock' = clock + 1
  /\ created' = [created EXCEPT ![<<t, role>>] = clock + 1]

\* An insert that works out created_at once more.
InsertStamped(t, role) ==
  /\ messages' = messages \cup {<<t, role>>}
  /\ Stamp(t, role)

\* ... and from there: insert_one, at any later time.
Insert(t, role) ==
  /\ messages' = messages \cup {<<t, role>>}
  /\ UNCHANGED <<created, clock>>

\* check_budget: a spent budget leads to a notice, a failed read to a go-ahead.
CheckBudget(t) ==
  /\ \/ /\ Budget <= 0 \/ tokens[today] < Budget
        /\ Goto(t, "budget", "consume")
        /\ UNCHANGED <<failures, kind, created, clock>>
     \/ /\ Budget > 0 /\ tokens[today] >= Budget
        /\ Goto(t, "budget", "user")
        /\ kind' = [kind EXCEPT ![t] = "notice"]
        /\ Stamp(t, "user")
        /\ UNCHANGED failures
     \/ /\ Budget > 0 /\ failures < MaxFailures
        /\ Goto(t, "budget", "consume")
        /\ failures' = failures + 1
        /\ UNCHANGED <<kind, created, clock>>
  /\ UNCHANGED <<today, calls, claim, session, title, messageCount, messages, tokens,
                 snap, prior, total>>

\* The steps of quota.consume().
ClaimCall(t) ==
  /\ pc[t] = "consume"
  /\ Consume(t) \/ ConsumeStep(t)
  /\ UNCHANGED <<chatStore, local>>

\* consume() returned: a refused turn becomes a notice.
ClaimAnswered(t) ==
  /\ claim[t] \in {"granted", "refused"}
  /\ Goto(t, "consume", "user")
  /\ kind' = [kind EXCEPT ![t] = IF claim[t] = "granted" THEN "answer" ELSE "notice"]
  /\ Stamp(t, "user")
  /\ UNCHANGED <<quotaVars, session, title, messageCount, messages, tokens, snap, prior, total>>

PersistUser(t) ==
  /\ Goto(t, "user", IF kind[t] = "answer" THEN "prior" ELSE "answered")
  /\ Insert(t, "user")
  /\ UNCHANGED <<quotaVars, session, title, messageCount, tokens, kind, snap, prior, total>>

\* list_messages(session_id): the OLDEST HistoryMax messages, by created_at.
Older(m) == {k \in messages : created[k] < created[m]}
Listed   == {m \in messages : Cardinality(Older(m)) < HistoryMax}

\* A history with the question that the agent is going to append itself.
LoadPriorAll(t) ==
  /\ Goto(t, "prior", "run")
  /\ prior' = [prior EXCEPT ![t] = Listed]
  /\ UNCHANGED <<quotaVars, chatStore, kind, snap, total>>

\* prior = (await list_messages(session_id))[:-1]: all but the latest of them,
\* whoever's message that is.
LoadPrior(t) ==
  /\ Goto(t, "prior", "run")
  /\ prior' = [prior EXCEPT ![t] = {m \in Listed : \E k \in Listed : created[k] > created[m]}]
  /\ UNCHANGED <<quotaVars, chatStore, kind, snap, total>>

\* run_agent / stream_agent returns an answer or raises.
AgentEnds(t) ==
  /\ Goto(t, "run", "govern") \/ Goto(t, "run", "refund")
  /\ prior' = [prior EXCEPT ![t] = {}]
  /\ UNCHANGED <<quotaVars, chatStore, kind, snap, total>>

\* except Exception: quota.refund, then the error goes to the client.
RefundCall(t) ==
  /\ Goto(t, "refund", "error")
  /\ Refund(t) \/ RefundFails(t)
  /\ Forget(t)
  /\ UNCHANGED chatStore

\* _post_turn_governance: the tokens go to the day on which the run ended; the
\* failure of the store is swallowed.
Govern(t) ==
  /\ Goto(t, "govern", "answered")
  /\ \/ tokens' = [tokens EXCEPT ![today] = @ + 1] /\ UNCHANGED failures
     \/ failures < MaxFailures /\ failures' = failures + 1 /\ UNCHANGED tokens
  /\ UNCHANGED <<today, calls, claim, session, title, messageCount, messages, created,
                 clock, kind, snap, prior, total>>

\* The answer, or the notice, gets its created_at.
StampAssistant(t) ==
  /\ Goto(t, "answered", "assistant")
  /\ Stamp(t, "assistant")
  /\ UNCHANGED <<quotaVars, session, title, messageCount, messages, tokens, kind, snap, prior, total>>

PersistAssistant(t) ==
  /\ Goto(t, "assistant", "count")
  /\ Insert(t, "assistant")
  /\ UNCHANGED <<quotaVars, session, title, messageCount, tokens, kind, snap, prior, total>>

\* count_documents of _finalize_turn.
CountMessages(t) ==
  /\ Goto(t, "count", "update")
  /\ total' = [total EXCEPT ![t] = Cardinality(messages)]
  /\ UNCHANGED <<quotaVars, chatStore, kind, snap, prior>>

\* A title that is always made from the last question, and one never made.
RetitleAlways(t) == "auto"
RetitleNever(t)  == snap[t]

\* new_title, from the copy of the session read when the turn began: the slug of
\* the question, unless that copy had a title that is no placeholder.
NewTitle(t) == IF snap[t] \in Placeholders THEN "auto" ELSE snap[t]

\* update_one on the session's document: no document, no effect.
UpdateSession(t) ==
  /\ Goto(t, "update", "check")
  /\ IF session = "live"
     THEN title' = NewTitle(t) /\ messageCount' = total[t]
     ELSE UNCHANGED <<title, messageCount>>
  /\ UNCHANGED <<quotaVars, session, messages, created, clock, tokens, kind, snap, prior, total>>

\* get_session once more; assert updated is not None.
Respond(t) ==
  /\ Goto(t, "check", IF session = "live" THEN "done" ELSE "error")
  /\ Forget(t)
  /\ UNCHANGED <<quotaVars, chatStore>>

\* The request ends where it stands: the client of a stream disconnected, the
\* instance died, or a call of the store outside the fail-open parts raised.
\* Nothing is refunded.
Abandon(t) ==
  /\ pc[t] \in Steps
  /\ pc' = [pc EXCEPT ![t] = "gone"]
  /\ Forget(t)
  /\ UNCHANGED <<quotaVars, chatStore>>

TurnStep(t) ==
  \/ ReadSession(t)      \/ CheckBudget(t)   \/ ClaimCall(t)     \/ ClaimAnswered(t)
  \/ PersistUser(t)      \/ LoadPrior(t)     \/ AgentEnds(t)     \/ RefundCall(t)
  \/ Govern(t)           \/ StampAssistant(t)  \/ PersistAssistant(t)
  \/ CountMessages(t)    \/ UpdateSession(t) \/ Respond(t)

-----------------------------------------------------------------------------

\* update_session with a title: any name, one that begins with "New chat" too.
\* (Bound: the user does not replace one name by another.)
Rename ==
  /\ session = "live" /\ title \notin Named
  /\ title' \in Names
  /\ UNCHANGED <<quotaVars, session, messageCount, messages, created, clock, tokens, local>>

\* A deletion that removes the messages before it removes the session.
PurgeFirst ==
  /\ session = "live"
  /\ messages' = {}
  /\ UNCHANGED <<quotaVars, session, title, messageCount, created, clock, tokens, local>>

\* delete_session is two calls: the session's document, then its messages.
DeleteSession ==
  /\ session = "live"
  /\ session' = "deleted"
  /\ UNCHANGED <<quotaVars, title, messageCount, messages, created, clock, tokens, local>>

DeleteMessages ==
  /\ session = "deleted"
  /\ session' = "purged"
  /\ messages' = {}
  /\ UNCHANGED <<quotaVars, title, messageCount, created, clock, tokens, local>>

Midnight == NextDay /\ UNCHANGED <<chatStore, local>>

Next ==
  \/ \E t \in Turn : TurnStep(t) \/ Abandon(t)
  \/ Rename \/ DeleteSession \/ DeleteMessages
  \/ Midnight

Spec == Init /\ [][Next]_vars

-----------------------------------------------------------------------------

\* The counter shown for a live session never exceeds the messages it has,
\* although turns count and write back in two steps that interleave.
MessageCountNeverAhead == session = "live" => messageCount <= Cardinality(messages)

\* A turn answered with a response has, while its session lives, its question
\* and its answer stored, listed in this order, is counted, and has given the
\* session a title.
AnsweredTurnIsVisible ==
  \A t \in Turn : pc[t] = "done" /\ session = "live" =>
    /\ {Question(t), Answer(t)} \subseteq messages
    /\ created[Question(t)] < created[Answer(t)]
    /\ messageCount >= 2
    /\ title # "default"

\* The history that a turn loads: every message stored by then with an earlier
\* created_at than its question; and not the question itself, which the agent
\* appends, nor anything later, unless another turn of the session has overtaken
\* it (a later message is stored: [:-1] then drops that one, and the agent gets
\* its question twice).  (For sessions below HistoryMax.)
PriorHasThePast ==
  [][\A t \in Turn : pc[t] = "prior" /\ pc'[t] = "run" /\ session # "purged" =>
       /\ Older(Question(t)) \subseteq prior'[t]
       /\ (\A m \in messages : created[m] <= created[Question(t)]) =>
            prior'[t] = Older(Question(t))]_vars

\* A name that the user gives a session, and that does not look like the
\* placeholder, is taken away only by a turn that read the session before it had
\* the name; turns that read it later keep it.
NameOutlivesLaterTurns ==
  [][title = "named" /\ title' # title =>
       \E t \in Turn : pc[t] = "update" /\ pc'[t] = "check" /\ snap[t] # "named"]_vars
=============================================================================
