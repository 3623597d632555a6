------------------------------ MODULE RagIndex ------------------------------
(***************************************************************************)
(* The incremental code index of one installation: the dirty queue and the *)
(* cursors of app/rag/state.py, the tick of app/rag/ingest.py that the     *)
(* cron job runs (one at a time), the push webhook that feeds the queue,   *)
(* and the teardown by the uninstall webhook, which may run in the middle  *)
(* of a tick.                                                              *)
(*                                                                         *)
(* A file's content is the commit that last changed it; indexing a file is *)
(* fetching its content and storing its chunks, one unit of the budget     *)
(* (module IndexFile has the chunks).  The tick's budget also pays for the *)
(* tenants before this one and for the prose of every repository it comes  *)
(* to, indexed already or not.                                             *)
(***************************************************************************)
EXTENDS Integers, FiniteSets, Sequences, SequencesExt

CONSTANTS
  Repo,
  NFiles,       \* files of a repository, in the order of its tree
  MaxHead,      \* bound on the commits of a repository
  Cap,          \* rag_max_repos_per_tick
  MaxEmbeds,    \* IndexBudget.max_embeds, in files
  Unchunkable,  \* <<repo, file, commit>> whose content chunk_code raises on (IndexFile)
  MaxFailures,  \* bound on failed requests and dead ticks
  None

ASSUME RagAssumption ==
  /\ NFiles \in Nat \ {0} /\ MaxHead \in Nat \ {0} /\ Cap \in Nat \ {0} /\ MaxEmbeds \in Nat /\ MaxFailures \in Nat
  /\ None \notin Int \cup Repo
  /\ Unchunkable \subseteq Repo \X Nat \X Nat

Commit == 1..MaxHead
File   == 1..NFiles

VARIABLES
  \* GitHub
  head,     \* [Repo -> commit at the head of the default branch]
  rev,      \* [Repo -> [File -> commit that last changed it]]
  recent,   \* the repositories, newest push first
  hooks,    \* push deliveries under way: <<repo, sha>>
  \* teardown of the installation
  torn,     \* "no", then what the uninstall handler has deleted last:
            \* "row", "vectors", "cursors", "all"
  \* the store
  vectors,  \* [Repo -> [File -> commit whose content is indexed, or None]]
  cursor,   \* [Repo -> last_sha, or None]
  dirty,    \* the queue: <<repo, sha>>, oldest first
  \* the tick
  pc,       \* "idle", "drain", "repos", "files", "store"
  todo,     \* repos (in "drain": the entries found)
  target,   \* head_sha of the repository in hand; None when its read failed
  left,     \* its files still to be indexed
  text,     \* content of the file in hand
  embedded, \* charged to the budget
  failures,
  missed    \* history: files passed over since they were last stored

gitHub == <<head, rev, recent, hooks>>
store  == <<vectors, cursor, dirty>>
tick   == <<pc, todo, target, left, text, embedded>>
vars   == <<gitHub, torn, store, tick, failures, missed>>

TypeOK ==
  /\ head \in [Repo -> Commit]
  /\ rev \in [Repo -> [File -> Commit]]
  /\ recent \in Seq(Repo) /\ Range(recent) = Repo
  /\ hooks \subseteq Repo \X Commit
  /\ torn \in {"no", "row", "vectors", "cursors", "all"}
  /\ vectors \in [Repo -> [File -> Commit \cup {None}]]
  /\ cursor \in [Repo -> Commit \cup {None}]
  /\ dirty \in Seq(Repo \X Commit)
  /\ pc \in {"idle", "drain", "repos", "files", "store"}
  /\ todo \in Seq(Repo) /\ IsInjective(todo)
  /\ target \in Commit \cup {None}
  /\ left \subseteq File
  /\ text \in Commit \cup {None}
  /\ embedded \in 0..MaxEmbeds
  /\ failures \in 0..MaxFailures
  /\ missed \in [Repo -> SUBSET File]

Init ==
  /\ head = [r \in Repo |-> 1]
  /\ rev = [r \in Repo |-> [f \in File |-> 1]]
  /\ recent \in {q \in [1..Cardinality(Repo) -> Repo] : IsInjective(q)}
  /\ hooks = {}
  /\ torn = "no"
  /\ vectors = [r \in Repo |-> [f \in File |-> None]]
  /\ cursor = [r \in Repo |-> None]
  /\ dirty = << >>
  /\ pc = "idle" /\ todo = << >> /\ target = None /\ left = {} /\ text = None
  /\ embedded = 0
  /\ failures = 0
  /\ missed = [r \in Repo |-> {}]

-----------------------------------------------------------------------------
(* GitHub and its webhooks *)

Push(r) ==
  /\ torn = "no" /\ head[r] < MaxHead
  /\ \E f \in File :
       /\ head' = [head EXCEPT ![r] = @ + 1]
       /\ rev' = [rev EXCEPT ![r][f] = head[r] + 1]
  /\ recent' = <<r>> \o Remove(recent, r)
  /\ hooks' = hooks \cup {<<r, head[r] + 1>>}
  /\ UNCHANGED <<torn, store, tick, failures, missed>>

\* mark_dirty: an entry for the same tuple is refreshed and becomes the newest.
Deliver(h) ==
  /\ hooks' = hooks \ {h}
  /\ dirty' = Append(Remove(dirty, h), h)
  /\ UNCHANGED <<head, rev, recent, torn, vectors, cursor, tick, failures, missed>>

Lose(h) ==
  /\ hooks' = hooks \ {h}
  /\ UNCHANGED <<head, rev, recent, torn, store, tick, failures, missed>>

\* _on_installation, action "deleted": the document, then clear_tenant's three
\* deletions, each a call of its own.
Uninstall ==
  /\ \/ torn = "no" /\ torn' = "row" /\ UNCHANGED store
     \/ /\ torn = "row" /\ torn' = "vectors"
        /\ vectors' = [r \in Repo |-> [f \in File |-> None]]
        /\ UNCHANGED <<cursor, dirty>>
     \/ /\ torn = "vectors" /\ torn' = "cursors"
        /\ cursor' = [r \in Repo |-> None]
        /\ UNCHANGED <<vectors, dirty>>
     \/ /\ torn = "cursors" /\ torn' = "all"
        /\ dirty' = << >>
        /\ UNCHANGED <<vectors, cursor>>
  /\ UNCHANGED <<gitHub, tick, failures, missed>>

-----------------------------------------------------------------------------
(* run_index_tick *)

Failure == failures < MaxFailures /\ failures' = failures + 1

\* The locals between two ticks.
Rest ==
  /\ pc' = "idle" /\ todo' = << >> /\ target' = None /\ left' = {} /\ text' = None
  /\ embedded' = 0

\* The distinct repositories of a sequence of entries, in their order.
Repos(entries) ==
  FoldLeft(LAMBDA acc, e : IF Contains(acc, e[1]) THEN acc ELSE Append(acc, e[1]), << >>, entries)

\* drain_dirty's limit of cap * 4 entries.
Found == SubSeq(dirty, 1, Min({4 * Cap, Len(dirty)}))

\* _tenants_to_process finds the row, the tenants before it leave something of the
\* budget, drain_dirty reads the oldest entries ...
Drain ==
  /\ pc = "idle" /\ torn = "no"
  /\ pc' = "drain"
  /\ embedded' \in 0..(MaxEmbeds - 1)
  /\ todo' = Repos(Found)
  /\ UNCHANGED <<gitHub, torn, store, target, left, text, failures, missed>>

FirstOf(repos) == SubSeq(repos, 1, Min({Cap, Len(repos)}))

\* Only repositories that a webhook named.
PickDirtyOnly ==
  /\ pc = "drain"
  /\ dirty' = SelectSeq(dirty, LAMBDA e : ~Contains(todo, e[1]))
  /\ pc' = "repos"
  /\ todo' = FirstOf(todo)
  /\ UNCHANGED <<gitHub, torn, vectors, cursor, target, left, text, embedded, failures, missed>>

\* ... and deletes them; then the list is filled up with the repositories pushed
\* to last, unless their listing fails, and cut at Cap: drained entries beyond
\* it are gone.
Pick ==
  /\ pc = "drain"
  /\ dirty' = SelectSeq(dirty, LAMBDA e : ~Contains(todo, e[1]))
  /\ pc' = "repos"
  /\ \/ /\ todo' = FirstOf(todo \o SelectSeq(recent, LAMBDA r : ~Contains(todo, r)))
        /\ torn = "no" /\ UNCHANGED failures
     \/ todo' = FirstOf(todo) /\ torn # "no" /\ UNCHANGED failures
     \/ todo' = FirstOf(todo) /\ Failure
  /\ UNCHANGED <<gitHub, torn, vectors, cursor, target, left, text, embedded, missed>>

Exhausted == embedded = MaxEmbeds

\* The loop over the repositories ends.
EndTick ==
  /\ pc = "repos"
  /\ todo = << >> \/ Exhausted
  /\ Rest
  /\ UNCHANGED <<gitHub, torn, store, failures, missed>>

\* index_prose, for every repository that index_repo returned from, indexed or not,
\* unless the budget is exhausted: it embeds the recent discussion anew, and what it
\* embeds is charged.
IndexProse == embedded' \in embedded..MaxEmbeds

\* index_repo leaves the repository in hand without a new cursor: up to date, one of
\* its requests failed, or the installation is gone.
SkipRepo ==
  /\ pc = "repos" /\ todo # << >> /\ ~Exhausted
  /\ \/ (cursor[Head(todo)] = head[Head(todo)] \/ torn # "no") /\ UNCHANGED failures
     \/ Failure
  /\ todo' = Tail(todo)
  /\ IndexProse
  /\ UNCHANGED <<gitHub, torn, store, pc, target, left, text, missed>>

\* index_repo up to the tree: a failed read of the branch leaves head_sha None,
\* which no cursor matches.
OpenRepo ==
  /\ pc = "repos" /\ todo # << >> /\ ~Exhausted /\ torn = "no"
  /\ \/ /\ cursor[Head(todo)] # head[Head(todo)]
        /\ target' = head[Head(todo)] /\ UNCHANGED failures
     \/ target' = None /\ Failure
  /\ pc' = "files"
  /\ left' = File
  /\ UNCHANGED <<gitHub, torn, store, todo, text, embedded, missed>>

Raising(r, f, commit) == <<r, f, commit>> \in Unchunkable

InHand == Head(todo)
Entry  == Min(left)

\* _fetch_blob_text reads the file at the branch's head of this moment.
FetchFile ==
  /\ pc = "files" /\ left # {} /\ ~Exhausted /\ torn = "no"
  /\ text' = rev[InHand][Entry]
  /\ pc' = "store"
  /\ UNCHANGED <<gitHub, torn, store, todo, target, left, embedded, failures, missed>>

\* A file without text or without vectors is passed over, and so is the one in
\* hand when the budget is exhausted before its batch.
PassOver ==
  /\ pc \in {"files", "store"} /\ left # {}
  /\ IF pc = "files" THEN ~Exhausted ELSE ~Raising(InHand, Entry, text)
  /\ \/ pc = "files" /\ torn # "no" /\ UNCHANGED failures
     \/ pc = "store" /\ Exhausted /\ UNCHANGED failures
     \/ Failure
  /\ pc' = "files"
  /\ left' = left \ {Entry}
  /\ text' = None
  /\ missed' = [missed EXCEPT ![InHand] = @ \cup {Entry}]
  /\ UNCHANGED <<gitHub, torn, store, todo, target, embedded>>

\* chunk_code raises, and run_index_tick isolates the exception: the rest of the
\* repository is not indexed and its cursor stays.
RaiseInFile ==
  /\ pc = "store" /\ Raising(InHand, Entry, text)
  /\ missed' = [missed EXCEPT ![InHand] = @ \cup left]
  /\ todo' = Tail(todo)
  /\ pc' = "repos" /\ target' = None /\ left' = {} /\ text' = None
  /\ UNCHANGED <<gitHub, torn, store, embedded, failures>>

\* _embed_and_upsert.
StoreFile ==
  /\ pc = "store" /\ ~Exhausted /\ ~Raising(InHand, Entry, text)
  /\ vectors' = [vectors EXCEPT ![InHand][Entry] = text]
  /\ missed' = [missed EXCEPT ![InHand] = @ \ {Entry}]
  /\ left' = left \ {Entry}
  /\ text' = None
  /\ embedded' = embedded + 1
  /\ pc' = "files"
  /\ UNCHANGED <<gitHub, torn, cursor, dirty, todo, target, failures>>

\* A cursor at the branch's head of this moment.
CursorAtHead(r) == head[r]

CursorFor(r) == target

\* set_cursor, after the last file or as soon as the budget is exhausted.
CloseRepo ==
  /\ pc = "files" /\ (left = {} \/ Exhausted)
  /\ cursor' = [cursor EXCEPT ![InHand] = CursorFor(InHand)]
  /\ missed' = [missed EXCEPT ![InHand] = @ \cup left]
  /\ todo' = Tail(todo)
  /\ pc' = "repos" /\ target' = None /\ left' = {}
  /\ IndexProse
  /\ UNCHANGED <<gitHub, torn, vectors, dirty, text, failures>>

\* max_seconds are over.
TimeUp ==
  /\ pc # "idle" /\ ~Exhausted
  /\ embedded' = MaxEmbeds
  /\ UNCHANGED <<gitHub, torn, store, pc, todo, target, left, text, failures, missed>>

\* The instance dies in the middle of the tick: what was drained is gone.
Die ==
  /\ pc # "idle"
  /\ Failure
  /\ Rest
  /\ UNCHANGED <<gitHub, torn, store, missed>>

TickStep ==
  \/ Drain \/ Pick \/ EndTick \/ SkipRepo \/ OpenRepo
  \/ FetchFile \/ PassOver \/ RaiseInFile \/ StoreFile \/ CloseRepo

Next ==
  \/ \E r \in Repo : Push(r)
  \/ \E h \in hooks : Deliver(h) \/ Lose(h)
  \/ Uninstall
  \/ TickStep \/ TimeUp \/ Die

\* Ticks come round again and again, and go on.
Fairness == WF_vars(TickStep)

Spec == Init /\ [][Next]_vars
FairSpec == Spec /\ Fairness

-----------------------------------------------------------------------------

Indexing(r) == pc \in {"files", "store"} /\ InHand = r
UpToDate(r) == cursor[r] = head[r]

\* A repository whose cursor is at its head, so that later ticks will skip it,
\* has every file indexed with its present content, except files that were
\* passed over: whatever was pushed while the tick was reading.
UpToDateUnlessMissed ==
  torn = "no" => \A r \in Repo : UpToDate(r) =>
    \A f \in File \ missed[r] : vectors[r][f] = rev[r][f]

\* What the documentation of the cursors says: the scheduler resumes where it
\* left off, so a repository it will skip is indexed completely.
SkippedMeansIndexed ==
  torn = "no" => \A r \in Repo : UpToDate(r) /\ ~Indexing(r) =>
    \A f \in File : vectors[r][f] = rev[r][f]

\* The tick has come to every repository of its list.
ListDone == pc = "repos" /\ todo = << >>

\* With no more repositories than a tick takes, and a budget that lets tick after tick
\* come to the end of its list, lost deliveries and dead ticks leave no repository
\* behind: in the end every cursor is at the head, except that of a repository with a
\* file that raises as it is now.  (Nothing rotates the list: a repository behind
\* others whose prose takes the whole budget in every tick is not come to.)
EveryRepoCatchesUp ==
  []<>ListDone =>
    <>[](torn = "no" => \A r \in Repo : UpToDate(r) \/ \E f \in File : Raising(r, f, rev[r][f]))
=============================================================================
