# Verification of dypol

TLA+ models of the backend of dypol (`src/backend/app`), model-checked with TLC
and, for the parts named in section 4, proved with TLAPS. dypol is a GitHub analytics
service with a chat agent: a FastAPI application over MongoDB, an index of the
code of connected repositories, a LangGraph agent with sub-agents, and a
Next.js client.

## 1. Inventory

| Component | State | Operations | Interacts with |
|---|---|---|---|
| Cron job runner (`workers/scheduler.py`, `routers/cron.py`) | `scheduler_runs`: last run, lease, token | tick, take lease, run, release | starts the reconciler and the index tick |
| Call quota (`services/quota.py`) | `usage_calls`, one counter per user and UTC day | `consume` (three requests), `refund`, `status` | called by chat turns |
| Chat turns (`services/chat.py`, `services/governance.py`, `routers/chat.py`) | `chat_sessions`, `chat_messages`, `usage_daily` | send, stream, rename, delete | quota, token budget, agent |
| Installations registry (`sync_installations`, `routers/webhooks.py`, `routers/workspaces.py`, `routers/auth.py`) | `installations` | reconcile, webhook created/deleted, add/remove public workspace | GitHub; run by the job runner and by login |
| Code index (`rag/ingest.py`, `rag/state.py`) | vectors, cursors, dirty queue | index tick, push webhook, teardown | GitHub; run by the job runner |
| Agent graph (`agents/graph.py`, `agents/providers.py`) | messages, position in the model chain, counters | prepare, agent, tools, synthesize; stream and invoke drivers | models; tools; called by chat turns |
| Delegation (`agents/registry.py`, `base.py`, `budget.py`, `trace.py`, `tracing.py`) | budget and trace of the turn, loop of a sub-agent | tool call, delegate, sub-agent's rounds, report | called by the tools node |
| User memory (`services/user_memory.py`) | `user_memory`, a list of facts | `add_memory` (read, then write), delete, clear | tool of the agent |
| Access (`auth/*`, `routers/auth.py`, token cache of `clients/github.py`) | session cookie, `users.orgs`, cache of verdicts, `install_tokens` | login, `/auth/me`, check membership, heal the snapshot, mint token | every request; uninstall webhook |
| Code retrieval (`rag/chunker.py`, `retriever.py`, `store.py`, `embeddings.py`) | the stored points | chunk, name, embed and store; vector pass, keyword pass, fusion | code index, agent |
| Chat tools (`services/chat_tools.py`) | none | window a file, slim and cut a list | agent; GitHub |
| Analytics and cache (`services/dashboard.py`, `repos.py`, `alerts.py`, `activity.py`, `leaderboard.py`, `digest.py`, `cache.py`) | cached reports | build a report from sections and other reports; count open pull requests | web client, agent tools |
| Model keys (`core/keypool.py`) | rotation index | next key | models |
| Web client (`src/web`) | query cache, chat view | load, send, stream, fall back | all routes |

What makes this system hard is that almost no operation is a transaction. A
request is a sequence of `await`s; between two of them any other request, a
webhook, a cron tick, midnight or the end of the process may come. Atomicity
comes only from single MongoDB calls (conditional updates, upserts under unique
indexes). Deliveries of webhooks are lost and reordered, lists of GitHub are old
when they are used, models answer nothing or nonsense, budgets run out in the
middle of a loop, and serverless instances die between two steps.

What each part owes its users:

* job runner: a job runs once per interval, two executions overlap only when the
  older one's lease has expired, a late one does no harm, a dead one blocks nothing;
* quota: no more calls than the limit, each turn billed once;
* chat turns: an answered turn is stored, counted, named; the agent sees the past;
* registry: it converges to GitHub's installations and never loses one to an old event,
  as long as GitHub lists them on one page; public workspaces in the same collection
  are the user's alone;
* index: what is skipped as up to date is up to date; every repository is reached;
* agent: every turn ends within its caps unless a tool call hangs, tool calls are
  answered before a model is asked (except at the cap on rounds), nothing is
  delegated twice;
* access: members get in without another login and are not locked out by a
  failure; who has left does not come back;
* retrieval: nothing of a file is lost between its chunks, chunks are told apart and meet
  again, the fusion keeps what both rankings agree on;
* tools: a file read by the hints is the file, a cut list is a prefix;
* memory: no fact twice, never more than the cap;
* analytics: a report is no older than its parts' ages add up to, holes left by
  an outage go away, counts are bounds.

`PROJECT.json` lists every hazard at its line, with the properties that cover it
or the reason why none does yet.

## 2. Modules

| Module | Models | Uses |
|---|---|---|
| `JobCadence` | abstract promise of the job runner: executions start an interval after the last recorded one and a lease after the newest unrecorded one | |
| `CronLease` | `run_due_jobs` | `INSTANCE JobCadence` |
| `Quota` | `consume`, `refund`, the day | |
| `ChatTurn` | `send_message` / `stream_message` over one session | EXTENDS `Quota` |
| `Installations` | registry, webhooks, both syncs, public workspaces | |
| `Access` | login, snapshot, `/auth/me`, membership checks, tokens | |
| `RagIndex` | index tick, queue, cursors, push and uninstall webhooks | |
| `Chunker` | `chunk_code`, `chunk_prose` as operators | |
| `IndexFile` | one document cut, named, embedded and stored, and again after an edit | EXTENDS `Chunker` |
| `HybridSearch` | `hybrid_search` | |
| `Delegation` | one round of tool calls with sub-agents | |
| `AgentTurn` | graph, chain of models, drivers | EXTENDS `Delegation` |
| `ToolResults` | file windows, cut lists | |
| `UserMemory` | the facts about a user | |
| `Analytics` | cached reports made of sections and of each other | |
| `RepoList` | repositories and their open pull requests | |
| `FoldProofs` | lemmas for the proofs: induction and recursion in set form, sums, sorting, what a fold computes | EXTENDS `TLAPS` and the library's theorem modules |
| `RagIndexProofs` | theorems about `RagIndex`, and about `Chunker` with `IndexFile` | EXTENDS them and `FoldProofs` |
| `ServicesProofs` | theorems about `UserMemory`, `ToolResults`, `Analytics`, `RepoList`, `HybridSearch` | EXTENDS them and `FoldProofs` |
| `AccessProofs`, `AgentTurnProofs`, `ChatTurnProofs`, `CronLeaseProofs`, `InstallationsProofs` | theorems about the module of that name | EXTENDS it and `TLAPS` |
| `MC...` | constants of the runs | EXTENDS its module |
| `MCServices` | one run for the parts that share no state | EXTENDS `IndexFile`, `ToolResults`, `HybridSearch`, `UserMemory`, `Analytics`, `RepoList` |

Variables have the names of the fields or locals they stand for; actions have
the names of the functions, or of what one `await` of a function does. A call of
the store, of GitHub or of a model is one step; the local code around it is part
of that step. `PROJECT.json` `map` gives the lines of every definition.
Operators such as `FreeUnchecked` or `PurgeFirst` that stand before the
definition they resemble are plausible mistakes; nothing uses them, they serve to
show that a property would notice.

### CronLease
A tick is at `read` (before `datetime.now`), `acquire` (before the conditional
upsert) or `run`, at job `pos`. `Acquire` is `Grant` when both clauses of the
filter hold, and `Skip` otherwise, for `DuplicateKeyError`. The clock may advance
between `ReadClock` and `Acquire`. `Release` is the `finally` clause, which
matches by token; `Cancel` is the same clause when the job is cancelled, `Die` a
tick that vanishes without it. Tokens are fresh numbers (uuid4 collisions are
excluded). The jobs' bodies are the other modules.

### Quota and ChatTurn
`Consume`/`Upsert`/`Seed`/`Reread` are the branches of `consume`; a failing store
(`ConsumeFails`, bounded by `MaxFailures`) allows the call, as the code does, and
so does the duplicate key that an upsert at the limit runs into. `today`
advances by `Midnight` between any two steps; a refund goes to the day it
happens on. A turn walks the steps of `send_message`; `stream_message` takes the
same ones, and `Abandon` ends a turn at any of them (client gone, exception of
the store). A message is its turn and role: the text does not matter to any
property. `_persist_message` is two steps: `Stamp` is what happens before its await,
where `created_at` is taken, `Insert` is the await, and other turns come in between.
`list_messages` sorts by `created_at` (`Older`, `Listed`), so that messages may be
listed in another order than they were stored. The clock is
one server's, and no two messages have the same time. A title is the
default, the slug of a question, or a name given by the user; `Placeholders` are the
titles that `_finalize_turn` replaces, a user's name that begins with `New chat`
among them. Assumed: no two messages of a session within a millisecond, and no
question that begins with `New chat`.

### Installations
GitHub gives a new id at every installation of an account. `docs` is the one
collection, of installations (with an `install_id`) and public workspaces (with a
`mode` and an owner). A sync takes one page of GitHub's list (`List`: all of it if it fits in
`PageSize`, else any full page), upserts its entries one by one (`Upsert`, which
stops the sync at a unique-key conflict), then prunes (`Prune`, by the filter
`NotListed`). One by the cron job and one by `/auth/me` may be under way together.
Webhooks are a set, so that they are unordered, and can be lost. `asked` is a history
variable: how old a list in hand is.

### Access
One user. GitHub's side is who is a member and which installation of the App an
organization has; an installation after a removal has another id, and a row (`rows`)
holds the id it was written with. The opportunistic sync is one step with the outcomes
of `Installations`: it makes the rows those of a page (`Synced`), stops at an old row
(`Stale`) or a failure with some of them written (`SyncedInPart`). The user's
organizations are snapshotted by a login (`StoreUser`), which may name fewer than
there are (`NamedOrgs`: one page, and no organizations that restrict OAuth apps).
`/auth/me` goes through the documents: `Check` is the part of `ensure_org_membership`
without a request (snapshot, cache), then come the token (`FindToken`, `Mint`,
`SaveToken`) of the installation in the row that the request has read (`Asker`), the
question to GitHub (`Ask`) and the repair of the snapshot (`Heal`), each an await of
its own, with logins, webhooks, expiry and other requests in between. A failure is
`FailOpen`. The clock's tick is the time a negative verdict is kept. `steady` is a
history variable: what was the user's all the time since the request began.

### RagIndex
One installation. A file's content is the number of the commit that last changed
it, so that "the index is current" is an equation. The tick drains the dirty
queue, fills its list with the repositories pushed to last, and per repository
reads the head, the files one at a time, and sets the cursor. `Unchunkable` are
the contents that `chunk_code` raises on: `RaiseInFile` ends the repository. The
uninstall webhook (four separate deletions) may run in the middle. `missed` is a
history variable: the files passed over since they were last stored. The budget is the
tick's: a tick begins with what the tenants before have left of it (`Drain`), and
`IndexProse` charges what the prose of a repository takes, after `index_repo` of a
repository that is up to date as well.

### Chunker and IndexFile
A line is its length, a file its lines and the top-level nodes that tree-sitter finds
in them (`IsTreeOf`): they follow each other and may share a row, and a definition may
have no symbol, as functions in C. `ChunkCode` follows the node walk and
`_merge_tiny`, or the windows of lines when there is no parse. `IndexFile` submits a
document, stores its chunks batch by batch under `_chunk_id`, any of which may fail,
and edits the file between two ticks. `Raises` stands for the exception on an
oversized definition.

### HybridSearch
The vector pass, the pool of the keyword pass and the fusion are steps of their
own, between which the index may change. Rankings are arbitrary; failures leave
them empty. `Score` is the sum of reciprocal ranks (in millionths) and the boost.

### ToolResults
A model reads a file window by window, with sizes of its choice, following the
hint, while the file may change. `Truncate` keeps items while they fit.

### UserMemory
`ReadMemories` and `WriteMemories` are the two calls of `add_memory`; several may
overlap. `Folded` says which texts are equal by lower case, `Ragged` which ones
the cut at 400 characters left with a blank at the end, which no comparison finds.

### Analytics and RepoList
`Waves` lists the sections and reports each report awaits together; a request is
a stack of calls. A report is abstracted to whether it has a hole and the age of
the oldest answer in it. `RepoList` pages through one search over the account
while pull requests come and go; it stops at a failed page or at its cap.

### Delegation and AgentTurn
A message is its kind and the number of its tool calls. A model may return
nothing, raise, raise "context too large", echo a payload, ask for tools, or
answer, in every state. `model_chain` is two steps per provider. A tool round
runs the calls in order; a `delegate_*` call is refused or opens a sub-agent's
loop, which has its own rounds and calls. `Reinvoke` is the second attempt of
`stream_agent` after an exception: a new graph state, the old budget and trace.

## 3. Runs

| Run | Shows | Bounds |
|---|---|---|
| `cron_lease` | the six properties of the lease and the refinement of `JobCadence` | 2 jobs with intervals of their own, 2 ticks, lease 2, clock to 4: a lease can expire, be taken over and expire again; 5 tokens are more than 2 documents and 2 ticks can hold |
| `chat_turn` | quota, session and history under two turns at once | limit 1, 2 days, one failing request of the store, earlier history present or not; history page longer than the session; one name of the user's, which is no placeholder (the theorems are for both kinds) |
| `installations` | convergence and no wrong removal | 2 accounts, 3 installations (a reinstall and a second account), pages of 1 installation, so that two do not fit, 2 deliveries under way, 1 failed sync, one account also public |
| `rag_index` | the cursor's meaning, and that every repository is reached | 2 repositories of 2 files, 1 push each beyond the first commit, budget of 2 files of 4, 1 failure; `MCNext` cuts the number of states: no behaviour has both a teardown and a push to the second repository, and pushes to the first change its first file |
| `agent_turn` | termination, caps, protocol | 2 providers (4 steps), 1 retry in place, 2 tool rounds of 2 calls, 1 delegation of 2 tasks, cap 2, 1 fault; the recursion limit is the least that the assumption `2 * MaxToolTurns + 3` permits |
| `access` | who gets in, who stays out | 1 organization, 1 request, positive verdicts and tokens kept 2 ticks, negative ones 1, 3 changes at GitHub (join, leave, install, uninstall: enough for a removal, a reinstallation and what makes either matter), pages of 1, 1 failure or lost webhook; the theorems of `AccessProofs` are for any number of organizations and requests |
| `services` | chunking and storing, results of tools, search, facts, reports, counts: each behaviour is one of one part | files of up to 3 segments (statements and definitions, on rows of their own or shared, with symbol or without), with a tree or without, chunks of 6 characters, 2 revisions, batches of 2; files of 4 lines in windows of up to 4, lists of 3 items; 4 points in 2 tenants, best 2 of pools of 3; 2 adders, 4 texts, 2 facts, 3 additions; 2 readers, 5 views, 1 outage; 3 repositories, 5 pull requests in pages of 2, 2 pages, 1 move |

The settings of the code (6 tool rounds, limit 50 of graph steps, page of 200
messages, 3 retries) are constants; what the properties need of them is their
order, which the small values keep. The step of a counter from below its limit
to the limit and past it, two actors at every pair of steps, and one failure
anywhere all occur within these bounds.

`CHECK_DEADLOCK FALSE` where the modelled system ends: turns end, pushes and
days are bounded. The job runner and the registry never stop.

Five runs show a statement of the repository that the code does not keep
(`PROJECT.json` `findings` quotes each):

* `quota_limit`: at the limit, the conditional upsert of `consume` collides with
  the unique index, the exception counts as an outage, the call is allowed.
* `history_window`: `list_messages` returns the oldest 200 messages, so beyond that
  the agent does not get the latest ones.
* `reconcile_blocked`: missed uninstall, then reinstall: every sync stops at the
  duplicate account before it prunes.
* `rag_resume`: the cursor is set to the head even if the budget ran out.
* `chunk_raises`: a definition longer than a chunk makes `chunk_code` raise.

### What the passing properties say

* `OverlapOnlyAfterExpiry`, `UnexpiredLeaseIsHeld`: exclusion by lease, although a
  tick's `now` may be old when its upsert runs.
* `RunsAreSpaced`: a late holder cannot overwrite a newer record.
* `JobIsNeverBlocked`: a job due within the clock's bound is run, whoever died.
* `KeepsCadence`: the whole protocol implements `JobCadence`.
* `CountWithinLimit`, `BilledAtMostOnce`: the stored count is right even while
  claims interleave with each other and with midnight.
* `MessageCountNeverAhead`, `AnsweredTurnIsVisible`, `PriorHasThePast`,
  `NameOutlivesLaterTurns`: the session's redundant fields against its messages.
  `PriorHasThePast` has two halves: a turn gets every stored message with an earlier
  time than its question, always; and nothing else, its own question included,
  unless another turn has stored a later message. `NameOutlivesLaterTurns` speaks of
  names that do not begin with `New chat`.
* `SyncSparesPublic`: nothing but the user's own request writes public workspaces.
  `OnlyStaleListRemovesLive`: the row of an installation GitHub has is removed only by a
  list that is older or a full page. `SettledUntilGitHubChanges`: agreement is stable while
  the page holds the list. `ReconciledUnlessBlocked`: it is reached, unless a duplicate
  account blocks it, GitHub's list is empty, or a page does not hold it.
* `UpToDateUnlessMissed`: no change that arrives while a repository is being read is
  hidden by the cursor. `EveryRepoCatchesUp`: if ticks come to the end of their lists
  again and again, every cursor is at the head at last, but for a repository with a file
  that `chunk_code` raises on.
* `SubAgentsWithinCap`, `DelegatedOnce`, `ChainSpentOnlyIfAllFailed`,
  `StepsWithinRecursionLimit`. `OnlyTheCapLeavesCallsOpen`: when the agent node asks a
  model every call before is answered; `synthesize` is entered at the cap only and then
  asks with exactly the last message's calls open. `TurnEnds`: a turn ends unless a tool
  or sub-agent call never returns, which is its premise. (With one delegation in the run,
  the set of tasks seen is not exercised there; the theorem `DelegationIsOnce` is for any
  number.)
* `MembersAreShown`: what was the user's during the whole request is in the list,
  whatever the snapshot says and whatever fails. `RevokedStaysRevoked`: nothing puts
  an organization back that the user has left. `MemberGetsIn`, `LeaverIsOut`: an
  organization joined after the login becomes usable, one left does not outlive
  the next login. The first excepts what the registry excepts: with an old row in
  the way (`Stale`) each sync stops there and each check asks with a dead id, and a
  second page is not read.
* `LinesCovered`: every top-level node is whole in a chunk, or without a tree every line
  that is not blank is in exactly one; chunks follow each other and share a row at
  most. `DefinitionsStandAlone`: chunks are runs of nodes, and every definition ends
  its run, named or not. `StoredUnlessLost`: ids neither collide in a file, except on
  one line under one symbol, nor keep what an earlier revision left under them.
* `PagedReadIsTheFile`, `SliceIsHonest`: what the model sees of long results.
* `FusionRespectsRanks`: the fused order against both rankings and the boosts.
* `FactsAreDistinct`: overlapping additions never duplicate a fact nor pass the cap
  (they may lose one).
* `ReportsAreYoung`, `HolesClose`, `CountsAreBounds`.

The type invariants of `Access`, `AgentTurn` and `RagIndex` are in no cfg; that of
`Access` is proved as part of `AccessInv`, that of `AgentTurn` as `AgentTypes`, and the
proofs about `RagIndex` rest on the types their own invariants state.

### Other disagreements with the text

Met while modelling; each is in the model as the code has it, and no run is
spent on it.

* With two turns of a session at once, `[:-1]` drops the other turn's message if
  that is the latest (`services/chat.py:348`), and the agent gets its own question twice,
  against the comment above the line.
* A name given by the user that begins with `New chat` is replaced by the slug of the
  next question (`services/chat.py:216`).
* `list_installations` promises "All installations of this App across orgs/users"
  (`clients/github.py:342`) and reads one page of 100. A sync prunes what is not on it: rows
  of installations beyond are deleted by every sync, although they are live.
* After a missed uninstall and a reinstallation the row keeps the dead id
  (`reconcile_blocked`), so that a token cannot be minted and members who are not in the
  snapshot are refused at every check (`auth/membership.py:64-72`).
* At the cap on rounds the graph hands `synthesize` a message with calls that are never
  answered (`agents/graph.py:341-344`), and every model of the chain is asked with it,
  although `agents/memory.py:8-9` knows that providers reject that; the turn then ends with
  `SynthesizeGivesUp`, or a model that does not mind.
* The comment at `agents/graph.py:53-57` says that every attempt is capped; a
  sub-agent's models (`agents/base.py:103,184`), `summarize` (`agents/general_tools.py:196`)
  and tools (`agents/trace.py:73`, `agents/base.py:151`) are awaited without a timeout.
* The global cap on tools is "across the orchestrator AND all sub-agents combined"
  (`agents/budget.py:14-15`); what the orchestrator runs itself is never charged.
* A repository's prose is embedded anew in every tick and charged to the budget of the
  tick (`rag/ingest.py:498-502`). Nothing rotates the lists
  of tenants and repositories, so those behind enough prose are not come to.
* A definition that moved gets a new id, because the id has its line, and the old chunk
  stays: `_chunk_id` is no "Stable id so re-indexing the same symbol overwrites in place"
  (`rag/ingest.py:167`). Two definitions of one name on one line share an id.
* "keeping every function/class as its own chunk" (`rag/chunker.py:331-334`): decorated
  and exported definitions are nodes of other kinds and are merged like statements;
  a definition takes the statements before it into its chunk if they fit.
* The final text of a turn is searched backwards through earlier turns as well:
  after an echoed payload an earlier answer is returned (`agents/graph.py:531-540`).
* Refused calls of a sub-agent count as evidence (`agents/registry.py:205`,
  `agents/base.py:132`).
* `status_code` promises that 4xx answers "are returned, not raised"
  (`clients/github.py:168-174`); `_request` raises them, and its caller branches on
  the exception.
* `/auth/me` lists workspaces that a failed check let through and suspended ones,
  which the request that opens them refuses. A login writes `users.orgs` over with
  one page of organizations; while a positive verdict is cached, what it dropped
  is listed and refused.
* The sweep over pull requests: a repository it did not reach shows zero, which
  `services/repos.py:119-121` takes for exact.
* `paginate` stops at an object, so a workspace's list holds its first 100
  repositories.
* `if cached :=` never serves an empty list from the cache.
* When an account is removed by a sync, its tokens and index stay.
* A search over both kinds with two embedding providers is a keyword search.
* All chunks of a prose card have one id, so that only the last is kept.
* A fact whose cut ends in a blank is never recognised as known.

### Fairness
Only what the platform gives. CronLease: time passes and the monitor keeps
calling; a running job ends or is killed; and (strong fairness) ticks that reach
a line again and again are not all killed there, which the death of single
ticks does not contradict. Installations: a delivery arrives or is lost, the
cron job comes round (that is `JobIsNeverBlocked`) and a sync that has begun goes
on; GitHub answers the cron job's request for the list. RagIndex: ticks come round and go on;
nothing says that a tick does not die, or that its budget is enough: that ticks come
to the end of their lists again and again is a premise of `EveryRepoCatchesUp`.
AgentTurn: a model asked by the agent node or `synthesize` answers, raises or times
out, and a round of tools that has its results goes on; nothing is assumed of the
calls of tools and sub-agents, which have no timeout: that they return is the
premise of `TurnEnds`, stated in it (`WF_vars(RunTools)`). Access:
time passes, webhooks that are not lost arrive, requests of `/auth/me` go on; that
the user asks again or logs in again is a premise of the properties. Analytics:
time passes and requests end, because GitHub is asked with timeouts. Failures
are never fair and are bounded by `MaxFailures` or `MaxFaults`. ChatTurn claims no
liveness: a turn may be abandoned at any step.

## 4. Proofs

`CronLeaseProofs` proves, for any number of jobs and ticks, any positive
intervals and lease, and any bound of the clock:

* `TypeCorrect`, `ExclusiveLease` (`OverlapOnlyAfterExpiry`), `LeaseIsKept`
  (`UnexpiredLeaseIsHeld`), `CadenceOfRuns` (`RunsAreSpaced`), and
* `LeaseRefinesCadence` (`KeepsCadence`): every step of the lease protocol is a step
  of `JobCadence` or a stutter.

The only assumption is `CronAssumption`. The exclusion property is not inductive:
to exclude a second execution one has to know that the document still names the
running tick, or that whoever replaced it started a lease later. The invariant
`IInv` says this (`HoldersOK`), with what the documents (`DocumentsOK`) and the
locals (`TicksOK`: no two ticks carry one token, no time read lies in the future)
add. `QuietIInv`, `GrantIInv`, `LeaveIInv` and `EndIInv` show its preservation action by
action; the properties and the refinement follow.

`ChatTurnProofs` proves, for any set of turns, any limit, budget, history page,
number of days and of failures, from `QuotaAssumption` and `ChatAssumption`:

* `CallsWithinLimit` (`CountWithinLimit`): no day's counter passes the limit. The
  property is inductive with the types of `calls` and `today` (`QuotaInv`): the
  lemma `StoreCallQuotaInv` goes through the calls of the store one by one.
* `CounterNeverAhead` (`MessageCountNeverAhead`): not inductive, because a turn
  writes back a count it made earlier. `CountInv` adds that no such count exceeds
  the messages of a live session; it is preserved because messages disappear only
  after the session's document.
* `AnsweredIsStored` (`AnsweredTurnIsVisible`): `StoredInv` says, stage by stage of a
  turn (`Before`, `Asked`, `Answered`), which of its two messages are stored, in which
  order their times are, and what the turn has counted. `StampStored` and
  `PersistStored` are the two steps of a message, `OtherStepStored` every other one;
  `ClockInv` says that no message is later than the clock.
* `NameIsKept` (`NameOutlivesLaterTurns`): an action property, from the one step
  that writes the title after a read of it, for names that are no placeholder.

`AccessProofs` proves, for any organizations, any number of overlapping requests of
`/auth/me` and any times to live, from `AccessAssumption`:

* `NobodyIsLockedOut` (`MembersAreShown`). What is missing from an answer was either
  never looked at or looked at and refused, so the invariant (`AccessInv`) follows
  the request: what was the user's all the time (`steady`) is shown already, still
  to be looked at, or in hand (`Owed`). The code lets an organization go in `Check`,
  for a cached negative verdict, and in `Mint` and `Ask`, for what GitHub says, which
  becomes such a verdict: `steady` excludes both. A failure shows it.
* `RevocationHolds` (`RevokedStaysRevoked`), an action property: the snapshot is
  written from a list that a login has read or by `Heal`, and in a revoked state
  neither holds the organization.

`InstallationsProofs`, from `InstallationsAssumption`, for any accounts,
installations, deliveries and failures: `TypesHold`; `LiveIsKept`
(`OnlyStaleListRemovesLive`), which needs `HooksInv` (a deletion under way is of no
live installation, because GitHub hands out an id once, `IdsInv`)
and `PagesInv` (a list that is not a full page has whatever GitHub then had and still
has); `AgreementIsStable` (`SettledUntilGitHubChanges`), which needs `ListsInv` (what a
running sync has still to write names the account GitHub names); `PublicIsSpared`
(`SyncSparesPublic`), write by write: all but the user's own go by `install_id`, which
a public workspace lacks (`PublicStep`).

`RagIndexProofs`, from `RagAssumption`, for any repositories, files, pushes, caps,
budgets and failures: `CursorHidesNothing` (`UpToDateUnlessMissed`). The property
speaks of cursors at the head only and is lost as soon as a push moves the head;
`CursorInv` speaks of every cursor: a file that was neither changed since the
cursor's commit nor passed over is indexed as it is. `DoneInv` says the same
of the commit in hand and the files the tick is done with, so that setting the cursor
keeps it, and `TextInv` covers the moment between reading a file and storing it:
the text is the file's, or the file was changed after both commits. `OrderInv` and
`TargetInv` (no commit read or remembered is ahead of the head) make a push later
than all of them. The claim ends where the teardown begins, and does not speak of files passed
over: of them `rag_resume` shows what becomes.

`AgentTurnProofs`, from `DelegationAssumption` and `AgentAssumption`, for any tasks,
caps, providers, retries and faults:

* `CapHolds` (`SubAgentsWithinCap`) and `DelegationIsOnce` (`DelegatedOnce`): the history of
  what ran equals what the budget counted (`CapInv`, `OnceInv`), also when the graph
  is started again, because the restart keeps the budget.
* `StepsStayWithinLimit` (`StepsWithinRecursionLimit`): two nodes for each counted round
  and those in hand (`StepsInv`). That the constant 50 is enough for the setting is an
  assumption (`AgentAssumption`): the default of 6 rounds needs 15.
* `NoOtherCallDangles` (`OnlyTheCapLeavesCallsOpen`): pending calls and results add up to
  the calls of the last message, and what is before it is answered (`AnswersInv`); that
  `synthesize` is reached at the cap only is part of `StepsInv`.
* `NoModelIsPassedOver` (`ChainSpentOnlyIfAllFailed`): all steps before the one in use
  are spent (`ChainInv`); `NextProviderSkipsOnlyItsOwn` is the arithmetic of the chain.
* `AgentTypes`: `TypeOK`, which no run spends a check on, from these invariants and the
  bounds of the loop (`LoopInv`) and of the retries (`StepInv`).
* `TurnIsBounded`: every step, a restart included, lowers `TurnLeft`, a natural number
  that begins at `2 * RunCost` at most. `TurnLeft` adds what a round of tools
  can cost (`RoundCost`), what the steps and retries of the chain can, what synthesize can
  (`SynthesisCost`), and a second run while a stream can still fall back. So a turn
  takes no more steps than that, whatever the models answer; that it does not stop
  before its end is what `TurnEnds` adds in TLC.

`ChatTurnProofs` also proves four theorems, of which the first three sum or count over
the turns and ask that `Turn` be finite (only finitely many requests are ever made):

* `TurnsBilledOnce` (`BilledAtMostOnce`). `BillInv` bounds the sum over the days by the
  number of turns that have claimed; `StoreCallBill` shows that one call of the store
  changes one day of the sum by at most one (`SumChange`), and only together with
  the turn's claim.
* `ChatTypeOK` (`TypeOK`). That a session holds no more messages than `MostMessages` is
  not the shape of an assignment: `SizeInv` bounds the times taken by the turns that have
  asked and those that have answered, and a turn that takes one enters one of
  these sets for the first time (`LargerSets`).
* `PriorIsThePast` (`PriorHasThePast`), where `MostMessages <= HistoryMax`, as in the
  `chat_turn` run. Without this the property is false, which is what
  `history_window` shows; what is true for every page is `PastIsGiven`: a question with
  fewer than `HistoryMax` older messages gets all of them (`LoadPriorGives`).

`ServicesProofs`, for each part's own specification:

* `NoFactTwice` (`FactsAreDistinct`), from `UserMemoryAssumption`. Writes put back
  lists that were read earlier, so `MemoryInv` demands of every list in hand what it
  demands of the stored one (`Sound`), and that the id about to be added is in
  neither (`Ready`).
* `PagingReadsTheFile` (`PagedReadIsTheFile`) and `CutListIsHonest` (`SliceIsHonest`), from
  `ToolAssumption`. `PagesInv` says that windows follow one another without a gap or an
  overlap and `ShaInv` that windows of one sha have seen one length. `KeptIsHonest` follows
  the loop of `_truncate` item by item: what is kept is a prefix that fits, and
  the loop stops only before an item that does not.
* `ReportsStayYoung` (`ReportsAreYoung`), from `AnalyticsAssumption`. A request is a stack
  of calls, each of which is a part of the next one; `YoungInv` bounds the age in every
  one of them by the time the request has taken and the oldest its parts can be
  (`CallOK`, `StackOK`).
* `CountsBound` (`CountsAreBounds`), from `RepoListAssumption`. `SweepInv`: while nothing
  moved, a sweep has counted the pull requests on the pages seen, all of them full,
  and the next page adds its own (`AmongPage`).
* `FusionKeepsOrder` (`FusionRespectsRanks`), from `SearchAssumption`, for all rankings:
  reciprocal ranks fall (`RrfFalls`), so a point that both rankings place higher has no
  smaller score (`ScoreIsNat`, `FusionOrders`), and sorting and cutting keep the better
  one (`FirstAreBest`).

`RagIndexProofs` also has the three properties of `IndexFile`, for `IndexSpec`, from
`ChunkerAssumption` and `IndexAssumption` (lines are not shorter than their newline,
a batch is not empty), for any segments, sizes of files, chunks, windows and batches:

* `FileIsCovered` (`LinesCovered`). A turn of `_merge_tiny` either adds a chunk behind
  all others or joins a node to the last one (`AddsChunk`, `JoinsChunk`, `MergeNodeStep`);
  `MadeOf` says after every turn which run of nodes each chunk is, the pending gap
  included (`AddsRun`, `JoinsRun`, `MergeTinyMakes`), and runs of nodes that follow each
  other enclose them. Without a parse, the windows cover the lines from the end
  backwards (`WindowsCover`).
* `DefinitionsKeepApart` (`DefinitionsStandAlone`): in the same `MadeOf` no run goes on
  behind a definition, because the pending gap never is one.
* `ChunksAreStored` (`StoredUnlessLost`). Ids of one document differ because its
  chunks begin at different lines, or on one line under different symbols, or have no
  symbol and differ by their ordinal; namesakes are excepted (`IdsDiffer`). So a batch
  leaves every chunk it stored under its id (`StoreBatchKeeps`); `CodeInv` says that
  those passed to the embedder are in the store or lost, and at the end so are the
  others.

The provers instantiate no operator, so the induction theorems of the library,
which take a predicate, are of no use to them. `FoldProofs` states induction over
sets instead: a set of naturals that holds 0 and with each member its successor is
`Nat` (from the least element of the complement), a set that holds the empty set and
grows by one element holds every finite subset. `SubsetRecursion` and `DescentExists`
give the recursive functions behind `MapThenFoldSet` and `ChunkLines`, `FoldInSteps` turns a
`FoldLeft` into the sequence of its intermediate results. A claim about a fold is then a
claim about a set of numbers.

Of the invariants and the action properties that the runs check, every one is proved.
Model-checked only is liveness (`JobIsNeverBlocked`, `ReconciledUnlessBlocked`,
`EveryRepoCatchesUp`, `TurnEnds`, `MemberGetsIn`, `LeaverIsOut`, `HolesClose`): proofs under
fairness and `ENABLED` are outside the prover's reach. So are the five violations,
which are counterexamples. The theorems about `Analytics` and `RepoList` are of
`Init /\ [][Next]_vars`, without the fairness, which safety does not need.

## 5. Plan

Order: the shared stores with races first, then the agent, then access and the
reports, then pure algorithms, then proofs.

1. Done: `CronLease` with `JobCadence`, `Quota` and `ChatTurn`, `Installations`,
   `RagIndex`, `Delegation`, `AgentTurn`, `Access`, `Chunker` with `IndexFile`,
   `HybridSearch`, `ToolResults`, `UserMemory`, `Analytics`, `RepoList`, and the proofs
   of section 4.
2. Left: `ChatClient` composed with `ChatTurn` (optimistic messages, broken stream and
   fallback request, change of the session); the in-process scheduler beside the
   leased one; the loop of the prose index.
3. Proofs left: such measures for the other components that end (a tick of the index, a
   sync, a request of `/auth/me`), and the types of `RagIndex` as a theorem of their
   own.

## 6. Not modelled

Texts, formatting, prompts, telemetry, HTML and CSS, startup and settings; the
numbers in the sections of reports; members and the detail of a pull request,
which are read and passed on; the audit log and redaction; the circuit breaker,
whose functions no caller uses; the allowlist of paths, the recovery of a wrong
branch and the GraphQL calls of the tools; key rotation, whose order matters to
nothing; the in-process scheduler, which runs the same jobs without a lease on
hosts that keep a process; the loop over the prose cards (their cutting and storing
is in `IndexFile`, what they charge in `RagIndex`); the `suspended` flag and the
repository list of an installation; signatures and expiry of cookies; the cut of an
oversized definition, whose result raises; the nudge node of the graph, which is
reached only from a message without text and calls, and the agent node returns none;
the web client.
