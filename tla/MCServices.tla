----------------------------- MODULE MCServices -----------------------------
(***************************************************************************)
(* Six parts that share no state; a behaviour is one of one of them, while *)
(* the others rest in their first state.                                   *)
(***************************************************************************)
EXTENDS IndexFile, ToolResults, HybridSearch, UserMemory, Analytics, RepoList

VARIABLE part
servicesVars == <<indexVars, toolVars, searchVars, memoryVars, analyticsVars, repoVars, part>>

\* Files are made of segments: a node, or blank lines (size 0), that begins on the
\* row the file ends on (shares) or on a new one.
Segment(lines, def, symbol, shares) == [lines |-> lines, def |-> def, symbol |-> symbol, shares |-> shares]
Segments ==
  {Segment(<<1>>, FALSE, NoSymbol, FALSE), Segment(<<2>>, FALSE, NoSymbol, FALSE),
   Segment(<<2>>, FALSE, NoSymbol, TRUE), Segment(<<4, 4>>, FALSE, NoSymbol, FALSE),
   Segment(<<2, 1, 2>>, TRUE, "f", FALSE), Segment(<<2>>, TRUE, "f", TRUE),
   Segment(<<3>>, TRUE, NoSymbol, FALSE), Segment(<<4, 3>>, TRUE, "g", FALSE)}

AddSegment(file, s) ==
  LET shares == s.shares /\ file.lines # << >>
      before == IF shares THEN Front(file.lines) ELSE file.lines
      lines  == before \o (IF shares THEN <<Last(file.lines) + s.lines[1]>> \o Tail(s.lines) ELSE s.lines)
      node   == [first |-> Len(before) + 1, last |-> Len(lines), size |-> Total(s.lines), def |-> s.def, symbol |-> s.symbol]
  IN  [lines |-> lines, tree |-> IF s.lines = <<1>> THEN file.tree ELSE Append(file.tree, node)]

FileOf(segs, parsed) ==
  LET file == FoldLeft(AddSegment, [lines |-> << >>, tree |-> << >>], segs)
  IN  IF parsed THEN file ELSE [file EXCEPT !.tree = << >>]

MCSources == {FileOf(segs, parsed) : segs \in SeqOf(Segments, 3), parsed \in BOOLEAN}

\* A blank line or a definition comes before a file, or its first line goes.
Moved(tree, n) == [i \in DOMAIN tree |-> [tree[i] EXCEPT !.first = @ + n, !.last = @ + n]]
Unnamed == [first |-> 1, last |-> 1, size |-> 3, def |-> TRUE, symbol |-> NoSymbol]
MCEdits(file) ==
  LET tree == file.tree
      rest == IF tree # << >> /\ tree[1].first = 1 THEN Tail(tree) ELSE tree IN
  MCSources \cap
    {[lines |-> <<1>> \o file.lines, tree |-> Moved(tree, 1)],
     [lines |-> <<3>> \o file.lines, tree |-> <<Unnamed>> \o Moved(tree, 1)],
     [lines |-> SubSeq(file.lines, 2, Len(file.lines)), tree |-> Moved(rest, -1)]}

MCPoint == {"a", "b", "c", "other"}
MCTenantOf == [p \in MCPoint |-> IF p = "other" THEN 2 ELSE 1]
MCRepoOf == [p \in MCPoint |-> IF p = "c" THEN "r2" ELSE "r1"]
MCKindOf == [p \in MCPoint |-> IF p = "b" THEN "prose" ELSE "code"]
MCAutoOrder == <<"gemini", "voyage">>
MCMatchOf == [p \in MCPoint |-> CASE p = "a" -> "symbol" [] p = "b" -> "path" [] OTHER -> "none"]

MCFolded == <<{"trunk", "Trunk"}, {"terse"}, {"long"}>>

\* Repositories are kept longer than the reports made of them.  Reader 2 overlaps
\* with reader 1 on the smaller reports only.
MCTTL == [p \in Report |-> IF p = "repos" THEN 2 ELSE 1]
MCViews ==
  {<<{"dashboard", "repos"}, {}>>, <<{"digest"}, {}>>,
   <<{}, {}>>, <<{"leaderboard"}, {"leaderboard", "repos"}>>, <<{"alerts", "events"}, {"alerts"}>>}

MCRepository == <<"old", "a", "b">>
MCPull == 1..5
MCRepoOfPull == [p \in MCPull |-> CASE p \in {1, 2, 3} -> "a" [] p = 4 -> "b" [] OTHER -> Elsewhere]

NoTool   == total = 0 /\ sha = 1 /\ pages = << >> /\ result = NoResult
NoSearch == search = "idle" /\ present = {} /\ usable = {} /\ setting["code"] = "none" /\ setting["prose"] = "none"
NoReports == asked = <<{}, {}>>
NoCounts == open = << >>

Init ==
  /\ part \in {"index", "tools", "search", "memory", "reports", "counts"}
  /\ IndexInit /\ MemoryInit
  /\ ToolInit /\ (part # "tools" => NoTool)
  /\ SearchInit /\ (part # "search" => NoSearch)
  /\ AnalyticsInit /\ (part # "reports" <=> NoReports)
  /\ RepoInit /\ (part # "counts" => NoCounts)

Next ==
  /\ UNCHANGED part
  /\ \/ part = "index" /\ IndexNext /\ UNCHANGED <<toolVars, searchVars, memoryVars, analyticsVars, repoVars>>
     \/ /\ part = "tools" /\ ToolNext /\ UNCHANGED <<indexVars, searchVars, memoryVars, analyticsVars, repoVars>>
        /\ result' # NoResult => total = 0 /\ sha = 1   \* no file beside a list
     \/ part = "search" /\ SearchNext /\ UNCHANGED <<indexVars, toolVars, memoryVars, analyticsVars, repoVars>>
     \/ part = "memory" /\ MemoryNext /\ UNCHANGED <<indexVars, toolVars, searchVars, analyticsVars, repoVars>>
     \/ part = "reports" /\ AnalyticsNext /\ UNCHANGED <<indexVars, toolVars, searchVars, memoryVars, repoVars>>
     \/ part = "counts" /\ RepoNext /\ UNCHANGED <<indexVars, toolVars, searchVars, memoryVars, analyticsVars>>

\* Fairness of the reports: time passes, and requests go on.
ReportsOnly(A) == part = "reports" /\ A /\ UNCHANGED <<indexVars, toolVars, searchVars, memoryVars, repoVars, part>>

Spec ==
  /\ Init /\ [][Next]_servicesVars
  /\ WF_servicesVars(ReportsOnly(Tick))
  /\ \A r \in Reader : WF_servicesVars(ReportsOnly(ReaderStep(r)))
=============================================================================
