----------------------------- MODULE Analytics ------------------------------
(***************************************************************************)
(* The reports of the analytics services (app/services), each put together *)
(* from sections asked of GitHub and from other reports, and kept for a    *)
(* while in a cache of the process (services/cache.py).  A build awaits    *)
(* GitHub at every section, so builds of the same report overlap, and a    *)
(* section that fails leaves a hole in the report, which is kept with it.  *)
(* A report's content is abstracted to whether it has a hole and to the    *)
(* age of the oldest answer it was made of.  Alerts, events and            *)
(* leaderboards are cached per limit or period; there is one of each here, *)
(* that of the view, and the events are those of a workspace without       *)
(* webhook events.                                                         *)
(***************************************************************************)
EXTENDS Naturals, Sequences, FiniteSets

CONSTANTS
  Reader,      \* requests under way at once
  Views,       \* [Reader -> SUBSET Report]: in a behaviour each asks for its reports of one view
  TTL,         \* [Report -> ticks a report is kept]
  Patience,    \* ticks a request may take: timeouts and retries are bounded
  MaxOutages   \* bound on outages

Report   == {"repos", "alerts", "events", "dashboard", "leaderboard", "digest"}
Upstream == {"core", "search", "security"}

ASSUME AnalyticsAssumption ==
  /\ DOMAIN TTL = Report /\ \A p \in Report : TTL[p] \in Nat \ {0}
  /\ Views \subseteq [Reader -> SUBSET Report]
  /\ Patience \in Nat /\ MaxOutages \in Nat

VARIABLES
  asked,     \* the view
  status,    \* [Upstream -> "up", "refused" (GitHubError) or "dead" (no answer)]
  store,     \* [Report -> NoEntry, or [left, holed, age]]
  stack,     \* [Reader -> the calls under way, the innermost first]
  elapsed,   \* [Reader -> ticks since the request began]
  outages

analyticsVars == <<asked, status, store, stack, elapsed, outages>>

NoEntry == [left |-> 0, holed |-> FALSE, age |-> 0]

-----------------------------------------------------------------------------
(* What a report is made of: sections and reports, in the order they are awaited. *)

ReposWaves       == <<{"repositories"}, {"open_prs"}>>
AlertsWaves      == <<{"stuck_prs", "failing_checks", "dependabot", "code_scanning"}>>
EventsWaves      == <<{"timeline"}>>
DashboardWaves   == <<{"kpis"}, {"repos", "alerts", "events"}, {"contributors"}>>
LeaderboardWaves == <<{"repos"}, {"commits"}, {"merged"}>>
DigestWaves      == <<{"totals", "leaderboard", "repos"}>>

Waves ==
  [p \in Report |-> CASE p = "repos" -> ReposWaves
                    [] p = "alerts" -> AlertsWaves
                    [] p = "events" -> EventsWaves
                    [] p = "dashboard" -> DashboardWaves
                    [] p = "leaderboard" -> LeaderboardWaves
                    [] OTHER -> DigestWaves]

UpstreamOf(section) ==
  CASE section \in {"open_prs", "stuck_prs", "failing_checks", "kpis", "merged", "totals"} -> "search"
    [] section \in {"dependabot", "code_scanning"} -> "security"
    [] OTHER -> "core"

\* The failures a report has no answer to: list_org_repos raises what GitHub
\* raises, the leaderboard what list_org_repos raises, and _search_count
\* swallows GitHubError only.
Fatal(p, part, how) ==
  \/ p = "repos" /\ part = "repositories"
  \/ p = "leaderboard" /\ part = "repos"
  \/ p = "dashboard" /\ part = "kpis" /\ how = "dead"

\* A timeline that failed is answered with an empty list before the cache is set.
Keeps(p, holed) == p = "events" => ~ holed

-----------------------------------------------------------------------------
(* The cache. *)

\* An entry is good long after it expired.
LiveForever(p) == store[p] # NoEntry

Live(p) == store[p].left > 0

\* A read makes the entry good for another while.
RenewedByGet(p) == IF Live(p) THEN [store EXCEPT ![p].left = TTL[p]] ELSE [store EXCEPT ![p] = NoEntry]

\* An expired entry is popped.
AfterGet(p) == IF Live(p) THEN store ELSE [store EXCEPT ![p] = NoEntry]

SetEntry(p, holed, age) ==
  IF Keeps(p, holed) THEN [store EXCEPT ![p] = [left |-> TTL[p], holed |-> holed, age |-> age]]
  ELSE store

-----------------------------------------------------------------------------
(* Requests. *)

Call(p) == [report |-> p, wave |-> 1, todo |-> Waves[p][1], holed |-> FALSE, age |-> 0, failed |-> FALSE]

Older(a, b) == IF a > b THEN a ELSE b

\* Parts have come, with their holes and their age; the next wave starts when
\* the last part of this one has.
WithParts(call, parts, holed, age) ==
  LET left == call.todo \ parts
      next == left = {} /\ call.wave < Len(Waves[call.report])
  IN  [call EXCEPT !.todo = IF next THEN Waves[call.report][call.wave + 1] ELSE left,
                   !.wave = IF next THEN @ + 1 ELSE @,
                   !.holed = @ \/ holed, !.age = Older(@, age)]

OnTop(r, call) == stack' = [stack EXCEPT ![r] = <<call>> \o Tail(@)]

Ask(r, p) ==
  /\ p \in asked[r] /\ stack[r] = <<>>
  /\ store' = AfterGet(p)
  /\ stack' = IF Live(p) THEN stack ELSE [stack EXCEPT ![r] = <<Call(p)>>]
  /\ UNCHANGED <<asked, status, elapsed, outages>>

Under(r) == stack[r] # <<>> /\ ~ Head(stack[r]).failed

\* The sections of a wave are asked for together: _search_count,
\* _fetch_repo_commits, the four sources of alerts, collect ...  One that fails
\* leaves a hole, or ends the call.
TakeSections(r) ==
  /\ Under(r) /\ Head(stack[r]).todo \ Report # {}
  /\ LET call == Head(stack[r])
         sections == call.todo \ Report
         lost == {s \in sections : status[UpstreamOf(s)] # "up"}
     IN  OnTop(r, IF \E s \in lost : Fatal(call.report, s, status[UpstreamOf(s)])
                  THEN [call EXCEPT !.failed = TRUE]
                  ELSE WithParts(call, sections, lost # {}, 0))
  /\ UNCHANGED <<asked, status, store, elapsed, outages>>

TakeReport(r, p) ==
  /\ Under(r) /\ p \in Head(stack[r]).todo \cap Report
  /\ store' = AfterGet(p)
  /\ IF Live(p) THEN OnTop(r, WithParts(Head(stack[r]), {p}, store[p].holed, store[p].age))
     ELSE stack' = [stack EXCEPT ![r] = <<Call(p)>> \o @]
  /\ UNCHANGED <<asked, status, elapsed, outages>>

\* What the caller of a call makes of its end.
Resumed(caller, call) ==
  IF ~ call.failed THEN WithParts(caller, {call.report}, call.holed, call.age)
  ELSE IF Fatal(caller.report, call.report, "dead") THEN [caller EXCEPT !.failed = TRUE]
  ELSE WithParts(caller, {call.report}, TRUE, 0)

\* The report, which is kept, or the exception goes to the caller.
Return(r) ==
  /\ stack[r] # <<>>
  /\ LET call == Head(stack[r])
         rest == Tail(stack[r])
     IN  /\ call.failed \/ call.todo = {}
         /\ store' = IF call.failed THEN store ELSE SetEntry(call.report, call.holed, call.age)
         /\ stack' = [stack EXCEPT ![r] =
              IF rest = <<>> THEN <<>> ELSE <<Resumed(Head(rest), call)>> \o Tail(rest)]
         /\ elapsed' = [elapsed EXCEPT ![r] = IF rest = <<>> THEN 0 ELSE @]
  /\ UNCHANGED <<asked, status, outages>>

ReaderStep(r) == TakeSections(r) \/ Return(r) \/ \E p \in Report : TakeReport(r, p)

Outage(u, how) ==
  /\ status[u] = "up" /\ outages < MaxOutages
  /\ status' = [status EXCEPT ![u] = how] /\ outages' = outages + 1
  /\ UNCHANGED <<asked, store, stack, elapsed>>

Recovery(u) ==
  /\ status[u] # "up" /\ status' = [status EXCEPT ![u] = "up"]
  /\ UNCHANGED <<asked, store, stack, elapsed, outages>>

-----------------------------------------------------------------------------

\* How old what a report says may be, the last time it is served.
LeafHorizon(p)     == TTL[p] + Patience
LeaderboardHorizon == TTL["leaderboard"] + Patience + LeafHorizon("repos")
Horizon ==
  [p \in Report |->
     CASE p = "dashboard" -> TTL[p] + Patience + Older(LeafHorizon("repos"), Older(LeafHorizon("alerts"), LeafHorizon("events")))
       [] p = "leaderboard" -> LeaderboardHorizon
       [] p = "digest" -> TTL[p] + Patience + LeaderboardHorizon
       [] OTHER -> LeafHorizon(p)]

MaxAge == Horizon["digest"] + 1

Grown(age) == IF age < MaxAge THEN age + 1 ELSE age

Tick ==
  /\ \A r \in Reader : elapsed[r] < Patience \/ stack[r] = <<>>
  /\ \E p \in Report : store[p].left > 0
  /\ store' = [p \in Report |->
       IF store[p] = NoEntry THEN NoEntry
       ELSE [store[p] EXCEPT !.left = IF @ = 0 THEN 0 ELSE @ - 1, !.age = Grown(@)]]
  /\ stack' = [r \in Reader |-> [i \in DOMAIN stack[r] |-> [stack[r][i] EXCEPT !.age = Grown(@)]]]
  /\ elapsed' = [r \in Reader |-> IF stack[r] = <<>> THEN 0 ELSE elapsed[r] + 1]
  /\ UNCHANGED <<asked, status, outages>>

AnalyticsInit ==
  /\ asked \in Views
  /\ status = [u \in Upstream |-> "up"]
  /\ store = [p \in Report |-> NoEntry]
  /\ stack = [r \in Reader |-> <<>>]
  /\ elapsed = [r \in Reader |-> 0]
  /\ outages = 0

AnalyticsNext ==
  \/ \E r \in Reader : ReaderStep(r) \/ \E p \in Report : Ask(r, p)
  \/ \E u \in Upstream : Recovery(u) \/ \E how \in {"refused", "dead"} : Outage(u, how)
  \/ Tick

\* Time passes and a request goes on: GitHub is asked with a timeout.
AnalyticsFairness ==
  /\ WF_analyticsVars(Tick)
  /\ \A r \in Reader : WF_analyticsVars(ReaderStep(r))

-----------------------------------------------------------------------------

\* A report is made of reports that were kept, so ages add up; they add up to no
\* more than the times the reports are kept and the time the requests took.
ReportsAreYoung ==
  \A p \in Report : Live(p) => store[p].age + store[p].left <= Horizon[p]

\* Once GitHub is well again, reports with holes, and reports made of reports with
\* holes, go away, however often they are asked for.
HolesClose ==
  <>[](\A u \in Upstream : status[u] = "up") => <>[](\A p \in Report : Live(p) => ~ store[p].holed)
=============================================================================
