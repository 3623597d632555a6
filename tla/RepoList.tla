------------------------------ MODULE RepoList ------------------------------
(***************************************************************************)
(* The list of an account's repositories with their open pull requests     *)
(* (app/services/repos.py).  The list is paged through GitHub's endpoints; *)
(* the counts come from one search over the account, page by page, while   *)
(* pull requests are opened and closed, and a page may fail.  What a page  *)
(* holds is up to GitHub's order, the newest first.                        *)
(***************************************************************************)
EXTENDS Naturals, Sequences, SequencesExt, FiniteSets

CONSTANTS
  Repository,   \* the account's repositories, as GitHub lists them
  Archived,     \* those that are archived
  Pull,         \* pull requests
  RepoOfPull,   \* [Pull -> repository, or Elsewhere]
  Elsewhere,    \* a fork in another account, which the search may name too
  PerPage,      \* 100
  RepoPages,    \* max_pages of the public listing
  CountPages,   \* _PR_COUNT_PAGES
  MaxMoves      \* bound on what is opened and closed

ASSUME RepoListAssumption ==
  /\ Repository \in Seq(Range(Repository)) /\ IsInjective(Repository)
  /\ Archived \subseteq Range(Repository)
  /\ RepoOfPull \in [Pull -> Range(Repository) \cup {Elsewhere}]
  /\ {PerPage, RepoPages, CountPages} \subseteq Nat \ {0}
  /\ MaxMoves \in Nat

VARIABLES
  open,     \* open pull requests at GitHub, the newest first
  moves,    \* pull requests opened and closed so far
  kept,     \* repositories of the list being built
  page,     \* the page of the search to be asked for, 0: no sweep
  counts,   \* [Repository -> pull requests counted]
  seen,     \* items of the search so far
  rows,     \* the list: repository -> [open_prs, approx]
  calm      \* history: nothing was opened or closed since the sweep began

repoVars == <<open, moves, kept, page, counts, seen, rows, calm>>

Nothing == [r \in Range(Repository) |-> 0]
NoRows  == [r \in {} |-> 0]

Orders == {q \in SeqOf(Pull, Cardinality(Pull)) : IsInjective(q)}

RepoInit ==
  /\ open \in Orders
  /\ moves = 0
  /\ kept = {} /\ page = 0 /\ counts = Nothing /\ seen = 0
  /\ rows = NoRows /\ calm = TRUE

PageOf(s, n) == SubSeq(s, (n - 1) * PerPage + 1, IF n * PerPage < Len(s) THEN n * PerPage ELSE Len(s))

\* What the installation's endpoint gives: its page is an object, at which
\* paginate stops, so max_pages is of no use there.
Installed == PageOf(Repository, 1)
Public    == SubSeq(Repository, 1, IF RepoPages * PerPage < Len(Repository) THEN RepoPages * PerPage ELSE Len(Repository))

\* list_org_repos up to the counts; one that fails has no list.
ListRepos ==
  /\ page = 0
  /\ \E raw \in {Installed, Public} : kept' = Range(raw) \ Archived
  /\ page' = IF kept' = {} THEN 0 ELSE 1
  /\ counts' = Nothing /\ seen' = 0 /\ calm' = TRUE
  /\ rows' = NoRows
  /\ UNCHANGED <<open, moves>>

\* The list, with counts of repositories that were seen marked when partial.
Publish(found, partial) ==
  /\ rows' = [r \in kept |-> [open_prs |-> found[r], approx |-> partial /\ found[r] > 0]]
  /\ page' = 0

Counted(items) == [r \in DOMAIN counts |-> counts[r] + Cardinality({i \in DOMAIN items : RepoOfPull[items[i]] = r})]

\* A page of the sweep; the last one is short, or the last that is asked for.
CountPage ==
  /\ page > 0
  /\ LET items == PageOf(open, page) IN
       /\ counts' = Counted(items)
       /\ seen' = seen + Len(items)
       /\ IF Len(items) < PerPage \/ page = CountPages
          THEN Publish(counts', seen' < Len(open))
          ELSE page' = page + 1 /\ UNCHANGED rows
  /\ UNCHANGED <<open, moves, kept, calm>>

\* A failure that is not told.
FailSilently ==
  /\ page > 0
  /\ Publish(counts, FALSE)
  /\ UNCHANGED <<open, moves, kept, counts, seen, calm>>

\* A page that fails ends the sweep with what it has.
FailPage ==
  /\ page > 0
  /\ Publish(counts, \E r \in DOMAIN counts : counts[r] > 0)
  /\ UNCHANGED <<open, moves, kept, counts, seen, calm>>

OpenPull(p) ==
  /\ moves < MaxMoves /\ moves' = moves + 1
  /\ ~ Contains(open, p)
  /\ open' = <<p>> \o open /\ calm' = FALSE
  /\ UNCHANGED <<kept, page, counts, seen, rows>>

ClosePull(p) ==
  /\ moves < MaxMoves /\ moves' = moves + 1
  /\ \E i \in DOMAIN open : open[i] = p /\ open' = RemoveAt(open, i)
  /\ calm' = FALSE
  /\ UNCHANGED <<kept, page, counts, seen, rows>>

RepoNext ==
  \/ ListRepos \/ CountPage \/ FailPage
  \/ \E p \in Pull : OpenPull(p) \/ ClosePull(p)

-----------------------------------------------------------------------------

OpenIn(r) == Cardinality({i \in DOMAIN open : RepoOfPull[open[i]] = r})

\* With no pull request opened or closed since the sweep began, a count is never
\* above the truth, and one that is neither zero nor marked is the truth,
\* wherever the sweep broke off (_open_pr_counts: "so nothing we did count is
\* presented as exact").
CountsAreBounds ==
  calm => \A r \in DOMAIN rows :
    /\ rows[r].open_prs <= OpenIn(r)
    /\ rows[r].open_prs > 0 /\ ~ rows[r].approx => rows[r].open_prs = OpenIn(r)
=============================================================================
