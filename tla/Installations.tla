---------------------------- MODULE Installations ----------------------------
(***************************************************************************)
(* The registry of workspaces, the installations collection, and its two   *)
(* sources of truth: GitHub's webhooks (app/routers/webhooks.py) and the   *)
(* reconciler sync_installations (app/workers/scheduler.py), which the     *)
(* cron job runs and /auth/me may run at the same time                     *)
(* (_kick_install_sync).  Users add and remove public workspaces in the    *)
(* same collection.                                                        *)
(*                                                                         *)
(* GitHub: an account has at most one installation of the App; installing  *)
(* again gives it a new id.  Deliveries are unordered and can be lost.     *)
(* The reconciler asks for one page of the installations.                  *)
(***************************************************************************)
EXTENDS Integers, FiniteSets

CONSTANTS
  Account,      \* GitHub accounts
  PageSize,     \* per_page of list_installations (100 in the code)
  MaxInstalls,  \* bound on the installation ids GitHub hands out
  MaxHooks,     \* bound on the deliveries under way at once
  MaxFailures,  \* bound on failures of a sync (GitHub, the store, the process)
  Tracked,      \* accounts that the user may add as public workspaces
  None          \* a missing field, no installation

Id     == 1..MaxInstalls
Syncer == {"cron", "kick"}

ASSUME InstallationsAssumption ==
  /\ PageSize \in Nat \ {0}
  /\ MaxInstalls \in Nat /\ MaxHooks \in Nat /\ MaxFailures \in Nat
  /\ Tracked \subseteq Account
  /\ None \notin Account \cup Int /\ None # "public"

\* A document: an installation has an install_id and no mode, a public workspace
\* of the one user a mode and no install_id.
InstallDoc(i, a) == [install_id |-> i, account |-> a, mode |-> None]
PublicDoc(a)     == [install_id |-> None, account |-> a, mode |-> "public"]
InstallDocs == {InstallDoc(i, a) : i \in Id, a \in Account}
PublicDocs  == {PublicDoc(a) : a \in Tracked}

VARIABLES
  \* GitHub
  live,      \* [Account -> its installation's id, or None]
  nextId,
  hooks,     \* deliveries under way: [action, id, account]
  \* the installations collection
  docs,
  \* sync_installations, one run of each kind at a time
  pc,        \* "idle" or "running"
  todo,      \* what of the list is not yet upserted, as documents
  seen,      \* seen_ids
  asked,     \* (for the properties) nextId when GitHub gave the list
  failures

gitHub == <<live, nextId, hooks>>
sync   == <<pc, todo, seen, asked>>
vars   == <<gitHub, docs, sync, failures>>

Installed == {i \in Id : \E a \in Account : live[a] = i}
Hook      == [action : {"created", "deleted"}, id : Id, account : Account]

TypeOK ==
  /\ live \in [Account -> Id \cup {None}]
  /\ nextId \in 1..(MaxInstalls + 1)
  /\ hooks \subseteq Hook
  /\ docs \subseteq InstallDocs \cup PublicDocs
  /\ pc \in [Syncer -> {"idle", "running"}]
  /\ todo \in [Syncer -> SUBSET InstallDocs]
  /\ seen \in [Syncer -> SUBSET Id]
  /\ asked \in [Syncer -> 1..(MaxInstalls + 1)]
  /\ failures \in 0..MaxFailures

Init ==
  /\ live = [a \in Account |-> None]
  /\ nextId = 1
  /\ hooks = {}
  /\ docs = {}
  /\ pc = [s \in Syncer |-> "idle"]
  /\ todo = [s \in Syncer |-> {}]
  /\ seen = [s \in Syncer |-> {}]
  /\ asked = [s \in Syncer |-> 1]
  /\ failures = 0

-----------------------------------------------------------------------------
(* GitHub *)

Install(a) ==
  /\ live[a] = None /\ nextId <= MaxInstalls
  /\ Cardinality(hooks) < MaxHooks
  /\ live' = [live EXCEPT ![a] = nextId]
  /\ nextId' = nextId + 1
  /\ hooks' = hooks \cup {[action |-> "created", id |-> nextId, account |-> a]}
  /\ UNCHANGED <<docs, sync, failures>>

Uninstall(a) ==
  /\ live[a] # None /\ Cardinality(hooks) < MaxHooks
  /\ live' = [live EXCEPT ![a] = None]
  /\ hooks' = hooks \cup {[action |-> "deleted", id |-> live[a], account |-> a]}
  /\ UNCHANGED <<nextId, docs, sync, failures>>

LoseHook(h) ==
  /\ hooks' = hooks \ {h}
  /\ UNCHANGED <<live, nextId, docs, sync, failures>>

\* What GitHub may answer to GET /app/installations?per_page=100: everything if it
\* fits, else a full page, in an order of GitHub's own.
Fits  == Cardinality(Installed) <= PageSize
Pages == IF Fits THEN {Installed}
         ELSE {p \in SUBSET Installed : Cardinality(p) = PageSize}

-----------------------------------------------------------------------------
(* The collection *)

\* The unique index on (account_login, mode, owner_user_id): another installation
\* document of the account makes the upsert fail with DuplicateKeyError.
Conflict(i, a) == \E d \in docs : d.install_id # i /\ d.account = a /\ d.mode = None

\* update_one by install_id, upsert=True.
UpsertById(i, a) ==
  /\ ~Conflict(i, a)
  /\ docs' = {d \in docs : d.install_id # i} \cup {InstallDoc(i, a)}

\* An uninstall event that removes the account's document, whatever its id.
RemoveByAccount(h) == docs' = {d \in docs : d.mode = "public" \/ d.account # h.account}

\* delete_one by install_id.
Remove(h) == docs' = {d \in docs : d.install_id # h.id}

\* $nin without $exists: a missing field is in no list.
NotListedAnyField(s, d) == d.install_id \notin seen[s]

\* The filter with its list the wrong way round.
Listed(s, d) == d.install_id # None /\ d.install_id \in seen[s]

\* A filter that nothing matches.
NeverListed(s, d) == FALSE

\* The filter {"install_id": {"$exists": True, "$nin": list(seen_ids)}}.
NotListed(s, d) == d.install_id # None /\ d.install_id \notin seen[s]

-----------------------------------------------------------------------------
(* Webhooks *)

\* _on_installation.  An upsert that conflicts answers 500: the event is gone.
Deliver(h) ==
  /\ hooks' = hooks \ {h}
  /\ \/ h.action = "deleted" /\ Remove(h)
     \/ h.action = "created" /\ UpsertById(h.id, h.account)
     \/ h.action = "created" /\ Conflict(h.id, h.account) /\ UNCHANGED docs
  /\ UNCHANGED <<live, nextId, sync, failures>>

-----------------------------------------------------------------------------
(* sync_installations *)

\* A list that holds the accounts without an installation too.
ListNulls(s) ==
  /\ pc[s] = "idle"
  /\ pc' = [pc EXCEPT ![s] = "running"]
  /\ seen' = [seen EXCEPT ![s] = {live[a] : a \in Account}]
  /\ UNCHANGED <<gitHub, docs, todo, asked, failures>>

\* The cron job is due, or /auth/me finds no kicked sync running, and
\* live = await list_installations() succeeds.  (A list that fails changes
\* nothing: such a run never began.)
List(s) ==
  /\ pc[s] = "idle"
  /\ pc' = [pc EXCEPT ![s] = "running"]
  /\ \E page \in Pages :
       /\ seen' = [seen EXCEPT ![s] = page]
       /\ todo' = [todo EXCEPT ![s] = {InstallDoc(live[a], a) : a \in {b \in Account : live[b] \in page}}]
  /\ asked' = [asked EXCEPT ![s] = nextId]
  /\ UNCHANGED <<gitHub, docs, failures>>

\* The end of a sync, one way or the other.
Stop(s) ==
  /\ pc' = [pc EXCEPT ![s] = "idle"]
  /\ todo' = [todo EXCEPT ![s] = {}]
  /\ seen' = [seen EXCEPT ![s] = {}]
  /\ asked' = [asked EXCEPT ![s] = 1]

\* One turn of the loop.  The order of GitHub's list is any order.  A conflict
\* ends the sync with its DuplicateKeyError.
Upsert(s) ==
  /\ pc[s] = "running"
  /\ \E d \in todo[s] :
       \/ /\ UpsertById(d.install_id, d.account)
          /\ todo' = [todo EXCEPT ![s] = @ \ {d}]
          /\ UNCHANGED <<pc, seen, asked>>
       \/ /\ Conflict(d.install_id, d.account)
          /\ Stop(s)
          /\ UNCHANGED docs
  /\ UNCHANGED <<gitHub, failures>>

\* delete_many of what the list did not contain; an empty list prunes nothing.
Prune(s) ==
  /\ pc[s] = "running" /\ todo[s] = {}
  /\ docs' = {d \in docs : seen[s] = {} \/ ~NotListed(s, d)}
  /\ Stop(s)
  /\ UNCHANGED <<gitHub, failures>>

\* A call of the store raises, or the process dies.
Fail(s) ==
  /\ pc[s] = "running" /\ failures < MaxFailures
  /\ failures' = failures + 1
  /\ Stop(s)
  /\ UNCHANGED <<gitHub, docs>>

SyncStep(s) == Upsert(s) \/ Prune(s)

-----------------------------------------------------------------------------
(* Users *)

\* add_public_workspace, remove_public_workspace: filtered by mode and owner.
AddPublic(a) ==
  /\ docs' = docs \cup {PublicDoc(a)}
  /\ UNCHANGED <<gitHub, sync, failures>>

RemovePublic(a) ==
  /\ PublicDoc(a) \in docs
  /\ docs' = docs \ {PublicDoc(a)}
  /\ UNCHANGED <<gitHub, sync, failures>>

Next ==
  \/ \E a \in Account : Install(a) \/ Uninstall(a)
  \/ \E a \in Tracked : AddPublic(a) \/ RemovePublic(a)
  \/ \E h \in hooks : Deliver(h) \/ LoseHook(h)
  \/ \E s \in Syncer : List(s) \/ SyncStep(s) \/ Fail(s)

\* Every delivery arrives or is lost; the cron job comes round again and again
\* (CronLease: JobIsNeverBlocked) and GitHub answers it, and a sync goes on until it ends or fails.
Fairness ==
  /\ WF_vars(\E h \in hooks : Deliver(h) \/ LoseHook(h))
  /\ WF_vars(List("cron"))
  /\ \A s \in Syncer : WF_vars(SyncStep(s))

Spec == Init /\ [][Next]_vars
FairSpec == Spec /\ Fairness

-----------------------------------------------------------------------------

Public   == {d \in docs : d.mode = "public"}
Installs == docs \ Public

\* The collection has exactly GitHub's installations.
InAgreement ==
  Installs = {InstallDoc(live[a], a) : a \in {b \in Account : live[b] # None}}

\* Two kinds of document in one collection, often of the same account, and five
\* writers: only the user's own request touches a public workspace, and it touches
\* nothing else.  The sync never lists public workspaces, so its delete
\* would take them all but for the filter.
SyncSparesPublic == [][Public' # Public => UNCHANGED <<Installs, gitHub, sync>>]_vars

\* An installation that GitHub has loses its document only to a sync whose list
\* does not have it, and that list is older than the installation or a full page:
\* no uninstall event, however late or out of order, removes a newer
\* installation of the same account.
OldOrCutShort(s, i) ==
  pc[s] = "running" /\ i \notin seen[s] /\ (i >= asked[s] \/ Cardinality(seen[s]) = PageSize)
OnlyStaleListRemovesLive ==
  [][\A i \in Installed :
       (\E d \in docs : d.install_id = i) /\ ~(\E d \in docs' : d.install_id = i) =>
         \E s \in Syncer : OldOrCutShort(s, i)]_vars

\* Agreement is stable as long as GitHub's installations fit in a page: with no event
\* under way and every running sync working from the present list, only GitHub can
\* end it.
Settled ==
  /\ InAgreement /\ Fits /\ hooks = {}
  /\ \A s \in Syncer : pc[s] = "running" => seen[s] = Installed
SettledUntilGitHubChanges == [][Settled /\ UNCHANGED live => Settled']_vars

\* A document of an earlier installation stands in the way of the present one.
Blocked == \E a \in Account : live[a] # None /\ Conflict(live[a], a)

\* Whatever was lost or reordered, the collection ends up in agreement with GitHub,
\* unless an old document blocks it, GitHub's list is empty or it needs a second page.
ReconciledUnlessBlocked == <>[](InAgreement \/ Blocked \/ Installed = {} \/ ~Fits)

\* What the documentation says of the reconciler: it handles anything missed.
ReconcilesMissedEvents == <>[](InAgreement \/ Installed = {})
=============================================================================
