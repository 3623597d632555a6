------------------------------- MODULE Access -------------------------------
(***************************************************************************)
(* Which workspaces a user sees and may use: the snapshot of organizations *)
(* taken at login (app/routers/auth.py), its repair by membership checks   *)
(* (app/auth/membership.py) while /auth/me builds the list, the use of a   *)
(* workspace (app/auth/deps.py), and the installation tokens the checks    *)
(* are made with (app/clients/github.py), which the uninstall webhook      *)
(* deletes.  One user; public workspaces, which only their owner sees, and *)
(* the steps of a reconciliation are in module Installations, which also   *)
(* shows how an old installation's document can stay: a check is made with *)
(* the installation id of the document.                                    *)
(*                                                                         *)
(* A tick of the clock is as long as a negative verdict is kept.           *)
(***************************************************************************)
EXTENDS Integers, FiniteSets

CONSTANTS
  Org,
  Request,      \* requests of /auth/me under way at once
  PositiveTTL,  \* _POSITIVE_TTL, in ticks
  NegativeTTL,  \* _NEGATIVE_TTL, in ticks
  TokenTTL,     \* how long an installation token lives, in ticks
  PageSize,     \* per_page of list_installations (100 in the code)
  MaxChanges,   \* bound on what happens at GitHub
  MaxFailures,  \* bound on failed requests
  NoOrg

ASSUME AccessAssumption ==
  /\ {PositiveTTL, NegativeTTL, TokenTTL} \subseteq Nat \ {0}
  /\ PageSize \in Nat /\ MaxChanges \in Nat /\ MaxFailures \in Nat
  /\ NoOrg \notin Org

\* An organization's installations, 0: none.  Every installation has a new id.
Id   == 1..(MaxChanges + 1)
Inst == Id \cup {0}

VARIABLES
  \* GitHub
  member,     \* the user's organizations
  installed,  \* [Org -> its installation of the App]
  issued,     \* [Org -> its latest installation, still there or not]
  hook,       \* [Org -> the webhook under way, about its latest installation: "none",
              \*   "created", "deleted", "row" (a deletion half done)]
  \* the store
  rows,       \* [Org -> install_id of its document]: the unique index allows one
  tokens,     \* [Org -> [Id -> ticks its token in install_tokens is good for, 0: none]]
  orgs,       \* users.orgs
  \* the process
  cache,      \* [Org -> [member, left]], ticks the verdict is still good for
  \* the browser
  session,    \* a session cookie
  flow,       \* login: "none", "redirected", "listed" (GitHub has answered), "stored"
  listed,     \* organizations GitHub named in this login
  \* /auth/me
  pc,         \* "idle", "sync", "syncing", "check", "token", "mint", "save", "ask", "heal"
  mine,       \* user["orgs"] as this request holds it
  raw,        \* [Org -> install_id of its document], as this request read it
  todo,       \* organizations whose documents are still to be looked at
  at,         \* the organization in hand
  shown,      \* the list so far
  steady,     \* history: organizations that were Granted ever since the request began
  changes, failures

gitHub  == <<member, installed, issued, hook>>
browser == <<session, flow, listed>>
request == <<pc, mine, raw, todo, at, shown>>
vars    == <<gitHub, rows, tokens, orgs, cache, browser, request, steady, changes, failures>>

NoVerdict == [member |-> FALSE, left |-> 0]

TypeOK ==
  /\ member \subseteq Org /\ installed \in [Org -> Inst] /\ issued \in [Org -> Inst]
  /\ hook \in [Org -> {"none", "created", "deleted", "row"}]
  /\ rows \in [Org -> Inst]
  /\ tokens \in [Org -> [Id -> 0..TokenTTL]]
  /\ orgs \subseteq Org
  /\ cache \in [Org -> [member : BOOLEAN, left : Nat]]
  /\ session \in BOOLEAN
  /\ flow \in {"none", "redirected", "listed", "stored"}
  /\ listed \subseteq Org
  /\ pc \in [Request -> {"idle", "sync", "syncing", "check", "token", "mint", "save", "ask", "heal"}]
  /\ mine \in [Request -> SUBSET Org] /\ raw \in [Request -> [Org -> Inst]] /\ todo \in [Request -> SUBSET Org]
  /\ at \in [Request -> Org \cup {NoOrg}]
  /\ shown \in [Request -> SUBSET Org] /\ steady \in [Request -> SUBSET Org]
  /\ changes \in 0..MaxChanges /\ failures \in 0..MaxFailures

Init ==
  /\ member \in SUBSET Org
  /\ installed \in [Org -> {0, 1}] /\ issued = installed /\ hook = [o \in Org |-> "none"]
  /\ rows = installed /\ tokens = [o \in Org |-> [i \in Id |-> 0]] /\ orgs = {}
  /\ cache = [o \in Org |-> NoVerdict]
  /\ session = FALSE /\ flow = "none" /\ listed = {}
  /\ pc = [r \in Request |-> "idle"]
  /\ mine = [r \in Request |-> {}] /\ raw = [r \in Request |-> [o \in Org |-> 0]]
  /\ todo = [r \in Request |-> {}] /\ at = [r \in Request |-> NoOrg]
  /\ shown = [r \in Request |-> {}] /\ steady = [r \in Request |-> {}]
  /\ changes = 0 /\ failures = 0

-----------------------------------------------------------------------------
(* GitHub *)

Change == changes < MaxChanges /\ changes' = changes + 1

Join(o) ==
  /\ Change /\ o \notin member /\ member' = member \cup {o}
  /\ UNCHANGED <<installed, issued, hook, rows, tokens, orgs, cache, browser, request, failures>>

Leave(o) ==
  /\ Change /\ o \in member /\ member' = member \ {o}
  /\ UNCHANGED <<installed, issued, hook, rows, tokens, orgs, cache, browser, request, failures>>

Install(o) ==
  /\ Change /\ installed[o] = 0 /\ hook[o] = "none"
  /\ issued' = [issued EXCEPT ![o] = @ + 1]
  /\ installed' = [installed EXCEPT ![o] = issued[o] + 1]
  /\ hook' = [hook EXCEPT ![o] = "created"]
  /\ UNCHANGED <<member, rows, tokens, orgs, cache, browser, request, failures>>

Uninstall(o) ==
  /\ Change /\ installed[o] # 0 /\ hook[o] = "none"
  /\ installed' = [installed EXCEPT ![o] = 0]
  /\ hook' = [hook EXCEPT ![o] = "deleted"]
  /\ UNCHANGED <<member, issued, rows, tokens, orgs, cache, browser, request, failures>>

\* A document of an earlier installation: an upsert of the present one fails with
\* DuplicateKeyError (module Installations).
Stale(o) == installed[o] # 0 /\ rows[o] \notin {0, installed[o]}

\* _on_installation, by install_id: the document, and at an uninstall the token, in
\* a call of its own.  A creation that meets an old document answers 500.
Deliver(o) ==
  /\ \/ /\ hook[o] = "created"
        /\ rows' = [rows EXCEPT ![o] = IF @ = 0 THEN issued[o] ELSE @]
        /\ hook' = [hook EXCEPT ![o] = "none"] /\ UNCHANGED tokens
     \/ /\ hook[o] = "deleted"
        /\ rows' = [rows EXCEPT ![o] = IF @ = issued[o] THEN 0 ELSE @]
        /\ hook' = [hook EXCEPT ![o] = "row"] /\ UNCHANGED tokens
     \/ /\ hook[o] = "row"
        /\ tokens' = [tokens EXCEPT ![o] = [@ EXCEPT ![issued[o]] = 0]]
        /\ hook' = [hook EXCEPT ![o] = "none"] /\ UNCHANGED rows
  /\ UNCHANGED <<member, installed, issued, orgs, cache, browser, request, changes, failures>>

LoseHook(o) ==
  /\ hook[o] \in {"created", "deleted"}
  /\ failures < MaxFailures /\ failures' = failures + 1
  /\ hook' = [hook EXCEPT ![o] = "none"]
  /\ UNCHANGED <<member, installed, issued, rows, tokens, orgs, cache, browser, request, changes>>

\* Verdicts and tokens grow old.
Tick ==
  /\ \E o \in Org : cache[o].left > 0 \/ \E i \in Id : tokens[o][i] > 0
  /\ tokens' = [o \in Org |-> [i \in Id |-> IF tokens[o][i] > 0 THEN tokens[o][i] - 1 ELSE 0]]
  /\ cache' = [o \in Org |-> IF cache[o].left > 1 THEN [cache[o] EXCEPT !.left = @ - 1] ELSE NoVerdict]
  /\ UNCHANGED <<gitHub, rows, orgs, browser, request, changes, failures>>

-----------------------------------------------------------------------------
(* Login and logout *)

\* GET /auth/login: the state cookie.
Login ==
  /\ flow = "none"
  /\ flow' = "redirected"
  /\ UNCHANGED <<gitHub, rows, tokens, orgs, cache, session, listed, request, changes, failures>>

\* fetch_user_orgs: one page, and without organizations that restrict OAuth apps.
NamedOrgs == SUBSET member

\* /auth/callback up to the list of organizations.
ListOrgs ==
  /\ flow = "redirected"
  /\ flow' = "listed"
  /\ listed' \in NamedOrgs
  /\ UNCHANGED <<gitHub, rows, tokens, orgs, cache, session, request, changes, failures>>

\* A login that adds to the snapshot.
MergedOrgs == orgs \cup listed

StoredOrgs == listed

\* The user document is written over.
StoreUser ==
  /\ flow = "listed"
  /\ flow' = "stored"
  /\ orgs' = StoredOrgs /\ listed' = {}
  /\ UNCHANGED <<gitHub, rows, tokens, cache, session, request, changes, failures>>

\* /auth/set-session, or the login is given up before or after.
EndLogin ==
  /\ flow # "none"
  /\ session' = (session \/ flow = "stored")
  /\ flow' = "none" /\ listed' = {}
  /\ UNCHANGED <<gitHub, rows, tokens, orgs, cache, request, changes, failures>>

\* /auth/logout, or the cookie expires.
Logout ==
  /\ session /\ session' = FALSE
  /\ UNCHANGED <<gitHub, rows, tokens, orgs, cache, flow, listed, request, changes, failures>>

-----------------------------------------------------------------------------
(* GET /auth/me *)

Begin(r) ==
  /\ pc[r] = "idle" /\ session
  /\ pc' = [pc EXCEPT ![r] = "sync"]
  /\ mine' = [mine EXCEPT ![r] = orgs]
  /\ UNCHANGED <<gitHub, rows, tokens, orgs, cache, browser, raw, todo, at, shown, changes, failures>>

\* _kick_install_sync: not while another request's is under way ...
KickSync(r) ==
  /\ pc[r] = "sync" /\ \A q \in Request : pc[q] # "syncing"
  /\ pc' = [pc EXCEPT ![r] = "syncing"]
  /\ UNCHANGED <<gitHub, rows, tokens, orgs, cache, browser, mine, raw, todo, at, shown, changes, failures>>

\* What GitHub may answer: a page of its installations.
Installed == {o \in Org : installed[o] # 0}
Fits      == Cardinality(Installed) <= PageSize
Pages     == IF Fits THEN {Installed}
             ELSE {page \in SUBSET Installed : Cardinality(page) = PageSize}

\* A sync that ends: the page's installations have their documents, no others have.
Synced(page) ==
  /\ page # {} /\ ~ \E o \in page : Stale(o)
  /\ rows' = [o \in Org |-> IF o \in page THEN installed[o] ELSE 0]

\* A sync that stops in the loop, with some of the documents written.
SyncedInPart(page) ==
  \E done \in SUBSET {o \in page : ~ Stale(o)} :
    rows' = [o \in Org |-> IF o \in done THEN installed[o] ELSE rows[o]]

\* ... which ends, stops at an old document, or fails; the documents are read after it.
Sync(r) ==
  /\ pc[r] = "syncing"
  /\ \E page \in Pages :
       \/ Synced(page) /\ UNCHANGED failures
       \/ page = {} /\ UNCHANGED <<rows, failures>>
       \/ (\E o \in page : Stale(o)) /\ SyncedInPart(page) /\ UNCHANGED failures
       \/ SyncedInPart(page) /\ failures < MaxFailures /\ failures' = failures + 1
  /\ pc' = [pc EXCEPT ![r] = "check"]
  /\ raw' = [raw EXCEPT ![r] = rows'] /\ todo' = [todo EXCEPT ![r] = {o \in Org : rows'[o] # 0}]
  /\ UNCHANGED <<gitHub, tokens, orgs, cache, browser, mine, at, shown, changes>>

\* Within the minute of the last one, or beside another, there is no sync.
SkipSync(r) ==
  /\ pc[r] = "sync"
  /\ pc' = [pc EXCEPT ![r] = "check"]
  /\ raw' = [raw EXCEPT ![r] = rows] /\ todo' = [todo EXCEPT ![r] = {o \in Org : rows[o] # 0}]
  /\ UNCHANGED <<gitHub, rows, tokens, orgs, cache, browser, mine, at, shown, changes, failures>>

Show(r, o) == shown' = [shown EXCEPT ![r] = @ \cup {o}]

\* The next document, and the answers of ensure_org_membership that need no
\* request: the snapshot, then the cache.
Check(r, o) ==
  /\ pc[r] = "check" /\ o \in todo[r]
  /\ todo' = [todo EXCEPT ![r] = @ \ {o}]
  /\ CASE o \in mine[r] -> Show(r, o) /\ UNCHANGED <<pc, at>>
       [] o \notin mine[r] /\ cache[o].left > 0 ->
            /\ IF cache[o].member THEN Show(r, o) ELSE UNCHANGED shown
            /\ UNCHANGED <<pc, at>>
       [] OTHER ->
            /\ pc' = [pc EXCEPT ![r] = "token"] /\ at' = [at EXCEPT ![r] = o]
            /\ UNCHANGED shown
  /\ UNCHANGED <<gitHub, rows, tokens, orgs, cache, browser, mine, raw, changes, failures>>

\* The installation the request asks GitHub with: the one of the document it read.
Asker(r) == raw[r][at[r]]

\* get_installation_token: one with more than the margin left is used.
FindToken(r) ==
  /\ pc[r] = "token"
  /\ pc' = [pc EXCEPT ![r] = IF tokens[at[r]][Asker(r)] > 1 THEN "ask" ELSE "mint"]
  /\ UNCHANGED <<gitHub, rows, tokens, orgs, cache, browser, mine, raw, todo, at, shown, changes, failures>>

\* Back in the loop over the documents.
Onward(r) == pc' = [pc EXCEPT ![r] = "check"] /\ at' = [at EXCEPT ![r] = NoOrg]

Verdict(r, ok) ==
  cache' = [cache EXCEPT ![at[r]] = [member |-> ok, left |-> IF ok THEN PositiveTTL ELSE NegativeTTL]]

\* Any answer below 500 but 204 says that the user is no member, that of a
\* removed installation too.
Refuse(r) ==
  /\ Verdict(r, FALSE) /\ Onward(r)
  /\ UNCHANGED shown

\* _fetch_installation_token: 404 for an installation that is gone.
Mint(r) ==
  /\ pc[r] = "mint"
  /\ \/ /\ installed[at[r]] = Asker(r)
        /\ pc' = [pc EXCEPT ![r] = "save"] /\ UNCHANGED <<cache, at, shown>>
     \/ installed[at[r]] # Asker(r) /\ Refuse(r)
  /\ UNCHANGED <<gitHub, rows, tokens, orgs, browser, mine, raw, todo, changes, failures>>

SaveToken(r) ==
  /\ pc[r] = "save"
  /\ tokens' = [tokens EXCEPT ![at[r]] = [@ EXCEPT ![Asker(r)] = TokenTTL]]
  /\ pc' = [pc EXCEPT ![r] = "ask"]
  /\ UNCHANGED <<gitHub, rows, orgs, cache, browser, mine, raw, todo, at, shown, changes, failures>>

\* The verdict is kept, but the snapshot is not repaired.
AskOnly(r) ==
  /\ pc[r] = "ask"
  /\ \/ /\ at[r] \in member /\ installed[at[r]] = Asker(r)
        /\ Verdict(r, TRUE) /\ Onward(r) /\ Show(r, at[r])
     \/ ~ (at[r] \in member /\ installed[at[r]] = Asker(r)) /\ Refuse(r)
  /\ UNCHANGED <<gitHub, rows, tokens, orgs, browser, mine, raw, todo, changes, failures>>

\* GET /orgs/{org}/members/{user}, and the verdict is cached.
Ask(r) ==
  /\ pc[r] = "ask"
  /\ \/ /\ at[r] \in member /\ installed[at[r]] = Asker(r)
        /\ Verdict(r, TRUE) /\ pc' = [pc EXCEPT ![r] = "heal"]
        /\ UNCHANGED <<at, shown>>
     \/ ~ (at[r] \in member /\ installed[at[r]] = Asker(r)) /\ Refuse(r)
  /\ UNCHANGED <<gitHub, rows, tokens, orgs, browser, mine, raw, todo, changes, failures>>

\* A failure that is kept out of the cache but not out of the answer.
FailClosed(r) ==
  /\ pc[r] \in {"mint", "ask"}
  /\ failures < MaxFailures /\ failures' = failures + 1
  /\ Onward(r)
  /\ UNCHANGED <<gitHub, rows, tokens, orgs, cache, browser, mine, raw, todo, shown, changes>>

\* A failure taken for a confirmation, all the way to the snapshot.
FailAsMember(r) ==
  /\ pc[r] \in {"mint", "ask"}
  /\ failures < MaxFailures /\ failures' = failures + 1
  /\ pc' = [pc EXCEPT ![r] = "heal"]
  /\ UNCHANGED <<gitHub, rows, tokens, orgs, cache, browser, mine, raw, todo, at, shown, changes>>

\* The token or the check fails with 5xx or no answer: the workspace is shown
\* and nothing is cached.
FailOpen(r) ==
  /\ pc[r] \in {"mint", "ask"}
  /\ failures < MaxFailures /\ failures' = failures + 1
  /\ Show(r, at[r]) /\ Onward(r)
  /\ UNCHANGED <<gitHub, rows, tokens, orgs, cache, browser, mine, raw, todo, changes>>

\* The snapshot is repaired, with $addToSet and in the request's own copy.
Heal(r) ==
  /\ pc[r] = "heal"
  /\ orgs' = orgs \cup {at[r]}
  /\ mine' = [mine EXCEPT ![r] = @ \cup {at[r]}]
  /\ Show(r, at[r]) /\ Onward(r)
  /\ UNCHANGED <<gitHub, rows, tokens, cache, browser, raw, todo, changes, failures>>

Respond(r) ==
  /\ pc[r] = "check" /\ todo[r] = {}
  /\ pc' = [pc EXCEPT ![r] = "idle"]
  /\ mine' = [mine EXCEPT ![r] = {}]
  /\ raw' = [raw EXCEPT ![r] = [o \in Org |-> 0]]
  /\ shown' = [shown EXCEPT ![r] = {}]
  /\ UNCHANGED <<gitHub, rows, tokens, orgs, cache, browser, todo, at, changes, failures>>

MeStep(r) ==
  \/ KickSync(r) \/ Sync(r) \/ SkipSync(r) \/ \E o \in Org : Check(r, o)
  \/ FindToken(r) \/ Mint(r) \/ SaveToken(r) \/ Ask(r) \/ Heal(r) \/ Respond(r)

Step ==
  \/ \E o \in Org : Join(o) \/ Leave(o) \/ Install(o) \/ Uninstall(o) \/ Deliver(o) \/ LoseHook(o)
  \/ Tick
  \/ Login \/ ListOrgs \/ StoreUser \/ EndLogin \/ Logout
  \/ \E r \in Request : Begin(r) \/ MeStep(r) \/ FailOpen(r)

\* The user is a member, the App is installed, the document is that installation's,
\* and no verdict says otherwise.
Granted(o) ==
  /\ o \in member /\ installed[o] # 0 /\ rows[o] = installed[o]
  /\ ~ (cache[o].left > 0 /\ ~ cache[o].member)

Watch ==
  steady' = [r \in Request |->
    {o \in Org : /\ pc'[r] # "idle" /\ Granted(o)'
                 /\ IF pc[r] = "idle" THEN Granted(o) ELSE o \in steady[r]}]

Next == Step /\ Watch

\* Time passes, webhooks that are not lost arrive, and requests go on.
Fairness ==
  /\ WF_vars(Tick /\ Watch)
  /\ \A o \in Org : WF_vars(Deliver(o) /\ Watch)
  /\ \A r \in Request : WF_vars(MeStep(r) /\ Watch)

Spec == Init /\ [][Next]_vars
FairSpec == Spec /\ Fairness

-----------------------------------------------------------------------------

\* A workspace that is the user's from before a request of /auth/me to its end,
\* and of which no cached verdict says otherwise, is in the answer: whatever
\* the snapshot says, whatever fails, and whatever other requests and logins do
\* meanwhile ("locking real members out during an incident is worse").
MembersAreShown ==
  \A r \in Request : pc[r] = "check" /\ todo[r] = {} => steady[r] \subseteq shown[r]

\* _resolve_workspace and _can_access: the workspace opens by its document and
\* the snapshot.
CanAccess(o) == rows[o] # 0 /\ o \in orgs

\* The user is out, and nobody holds an earlier word of GitHub's to the contrary.
Revoked(o) ==
  /\ o \notin member /\ o \notin orgs /\ o \notin listed
  /\ \A r \in Request : ~ (pc[r] = "heal" /\ at[r] = o)

\* No cached verdict, failure, sync or old request puts an organization back in
\* the snapshot, by which a workspace opens, for a user who is not a member.
RevokedStaysRevoked ==
  [][\A o \in Org : Revoked(o) /\ o \notin member' => Revoked(o)']_vars

\* An organization joined, or installed, after the login becomes usable without
\* another login, if the dashboard goes on asking and syncing: a missed webhook is
\* made up for by a sync, negative verdicts run out, and a positive one is followed
\* by the repair of the snapshot.  The exceptions are those of the registry: an old
\* installation's document stops every sync, and its dead id fails every check; a
\* second page is never asked for.
MemberGetsIn ==
  \A o \in Org :
    /\ <>[](o \in member /\ installed[o] # 0 /\ flow = "none")
    /\ []<>(\E r \in Request : pc[r] = "syncing")
    => <>[](CanAccess(o) \/ (\E p \in Org : Stale(p)) \/ ~ Fits)

\* Who has left an organization and logs in again does not keep it.
LeaverIsOut ==
  \A o \in Org :
    <>[](o \notin member) /\ []<>(flow = "redirected") /\ []<>(flow = "stored")
    => <>[](~ CanAccess(o))
=============================================================================
