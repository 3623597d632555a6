---------------------------- MODULE AccessProofs ----------------------------
(***************************************************************************)
(* Proofs about Access, for any organizations, any number of overlapping   *)
(* requests of /auth/me and any times to live: nothing that is the user's  *)
(* during a whole request is missing from its answer, and nothing the user *)
(* has left comes back into the snapshot.                                  *)
(***************************************************************************)
EXTENDS Access, TLAPS

Asking == {"token", "mint", "save", "ask", "heal"}

\* What a request still owes: the organizations that were the user's all the
\* time are shown already, still to be looked at, or in hand.
Owed(r) ==
  /\ pc[r] = "check" => steady[r] \subseteq shown[r] \cup todo[r]
  /\ pc[r] \in Asking => at[r] \in Org /\ steady[r] \subseteq shown[r] \cup todo[r] \cup {at[r]}

NothingForgotten == \A r \in Request : Owed(r)

\* An organization's installations are as many as the changes at GitHub, and one.
IssuedBound == \A o \in Org : issued[o] <= changes + 1

AccessInv == TypeOK /\ IssuedBound /\ NothingForgotten

-----------------------------------------------------------------------------

LEMMA InitAccessInv == Init => AccessInv
<1> SUFFICES ASSUME Init PROVE AccessInv
  OBVIOUS
<1>1. cache \in [Org -> [member : BOOLEAN, left : Nat]]
  <2>1. NoVerdict \in [member : BOOLEAN, left : Nat]
    BY DEF NoVerdict
  <2>. QED
    BY <2>1 DEF Init
<1>2. changes \in 0..MaxChanges /\ failures \in 0..MaxFailures
  BY AccessAssumption DEF Init
<1>6. tokens \in [Org -> [Id -> 0..TokenTTL]]
  BY AccessAssumption DEF Init
<1>7. installed \in [Org -> Inst] /\ issued \in [Org -> Inst] /\ rows \in [Org -> Inst]
  <2>1. {0, 1} \subseteq Inst
    BY AccessAssumption DEF Inst, Id
  <2>. QED
    BY <2>1 DEF Init
<1>8. raw \in [Request -> [Org -> Inst]]
  BY DEF Init, Inst
<1>3. hook \in [Org -> {"none", "created", "deleted", "row"}]
  BY DEF Init
<1>4. TypeOK
  BY <1>1, <1>2, <1>3, <1>6, <1>7, <1>8 DEF Init, TypeOK
<1>5. NothingForgotten
  BY DEF Init, NothingForgotten, Owed, Asking
<1>9. IssuedBound
  BY DEF Init, IssuedBound
<1>. QED
  BY <1>4, <1>5, <1>9 DEF AccessInv

\* What GitHub, its webhooks and the clock do.
Outside ==
  \/ \E o \in Org : Join(o) \/ Leave(o) \/ Install(o) \/ Uninstall(o) \/ Deliver(o) \/ LoseHook(o)
  \/ Tick

\* What the browser does.
Browser == Login \/ ListOrgs \/ StoreUser \/ EndLogin \/ Logout

LEMMA StepCases ==
  ASSUME Step
  PROVE  \/ Outside \/ Browser
         \/ \E r \in Request : Begin(r) \/ MeStep(r) \/ FailOpen(r)
BY DEF Step, Outside, Browser

\* The history variable has its type by its definition.
LEMMA SteadyType ==
  ASSUME Watch
  PROVE  steady' \in [Request -> SUBSET Org]
BY DEF Watch

\* What the types say of everything but the history variable.
CoreTypes ==
  /\ member \subseteq Org /\ installed \in [Org -> Inst] /\ issued \in [Org -> Inst]
  /\ hook \in [Org -> {"none", "created", "deleted", "row"}]
  /\ rows \in [Org -> Inst]
  /\ tokens \in [Org -> [Id -> 0..TokenTTL]]
  /\ orgs \subseteq Org
  /\ cache \in [Org -> [member : BOOLEAN, left : Nat]]
  /\ session \in BOOLEAN
  /\ flow \in {"none", "redirected", "listed", "stored"}
  /\ listed \subseteq Org
  /\ pc \in [Request -> {"idle", "sync", "syncing", "check", "token", "mint", "save", "ask", "heal"}]
  /\ mine \in [Request -> SUBSET Org] /\ raw \in [Request -> [Org -> Inst]] /\ todo \in [Request -> SUBSET Org]
  /\ at \in [Request -> Org \cup {NoOrg}]
  /\ shown \in [Request -> SUBSET Org]
  /\ changes \in 0..MaxChanges /\ failures \in 0..MaxFailures

LEMMA TypesSplit == TypeOK <=> CoreTypes /\ steady \in [Request -> SUBSET Org]
BY DEF TypeOK, CoreTypes

\* A new installation is counted as a change.
LEMMA IssuedStep ==
  ASSUME CoreTypes, IssuedBound, [Step]_<<issued, changes>>
  PROVE  IssuedBound'
<1>1. changes \in Nat /\ \A o \in Org : issued[o] \in Nat
  BY AccessAssumption DEF CoreTypes, Inst, Id
<1>2. ASSUME NEW o \in Org, Install(o)
      PROVE  IssuedBound'
  BY <1>1, <1>2 DEF Install, Change, IssuedBound, CoreTypes
<1>3. ASSUME NEW o \in Org, Join(o) \/ Leave(o) \/ Uninstall(o)
      PROVE  IssuedBound'
  BY <1>1, <1>3 DEF Join, Leave, Uninstall, Change, IssuedBound
<1>4. CASE UNCHANGED <<issued, changes>>
  BY <1>4 DEF IssuedBound
<1>5. CASE Tick \/ Browser \/ \E o \in Org : Deliver(o) \/ LoseHook(o)
  BY <1>4, <1>5 DEF Tick, Browser, Login, ListOrgs, StoreUser, EndLogin, Logout, Deliver, LoseHook, gitHub
<1>6. CASE \E r \in Request : Begin(r) \/ MeStep(r) \/ FailOpen(r)
  BY <1>4, <1>6 DEF Begin, MeStep, FailOpen, KickSync, Sync, SkipSync, Check, FindToken, Mint, SaveToken,
                    Ask, Heal, Respond, gitHub
<1>. QED
  BY <1>2, <1>3, <1>4, <1>5, <1>6, StepCases DEF Outside

LEMMA OutsideTypes ==
  ASSUME CoreTypes, IssuedBound, Outside
  PROVE  CoreTypes'
<1> USE AccessAssumption DEF CoreTypes, request, browser
<1>1. ASSUME NEW o \in Org, Join(o) \/ Leave(o) \/ Install(o) \/ Uninstall(o)
      PROVE  CoreTypes'
  <2>1. changes' \in 0..MaxChanges
    BY <1>1 DEF Join, Leave, Install, Uninstall, Change
  <2>2. hook' \in [Org -> {"none", "created", "deleted", "row"}]
    BY <1>1 DEF Join, Leave, Install, Uninstall
  <2>3. member' \subseteq Org
    BY <1>1 DEF Join, Leave, Install, Uninstall
  <2>5. installed' \in [Org -> Inst] /\ issued' \in [Org -> Inst]
    <3>1. CASE Install(o)
      <4>1. issued[o] \in Nat /\ changes \in Nat /\ changes < MaxChanges /\ issued[o] <= changes + 1
        BY <3>1 DEF Install, Change, IssuedBound, Inst, Id
      <4>3. issued[o] + 1 \in Id
        BY <4>1 DEF Id
      <4>2. issued[o] + 1 \in Inst
        BY <4>3 DEF Inst
      <4>. QED
        BY <3>1, <4>2 DEF Install
    <3>2. CASE Uninstall(o)
      BY <3>2 DEF Uninstall, Inst
    <3>3. CASE Join(o) \/ Leave(o)
      BY <3>3 DEF Join, Leave
    <3>. QED
      BY <1>1, <3>1, <3>2, <3>3
  <2>4. UNCHANGED <<rows, tokens, orgs, cache, browser, request, failures>>
    BY <1>1 DEF Join, Leave, Install, Uninstall
  <2>. QED
    BY <2>1, <2>2, <2>3, <2>4, <2>5
<1>2. ASSUME NEW o \in Org, Deliver(o)
      PROVE  CoreTypes'
  <2>1. hook' \in [Org -> {"none", "created", "deleted", "row"}]
    BY <1>2 DEF Deliver
  <2>2. tokens' \in [Org -> [Id -> 0..TokenTTL]]
    <3>1. [tokens[o] EXCEPT ![issued[o]] = 0] \in [Id -> 0..TokenTTL]
      <4>1. tokens[o] \in [Id -> 0..TokenTTL] /\ 0 \in 0..TokenTTL
        BY AccessAssumption
      <4>. QED
        BY <4>1
    <3>2. tokens' = [tokens EXCEPT ![o] = [tokens[o] EXCEPT ![issued[o]] = 0]] \/ UNCHANGED tokens
      BY <1>2 DEF Deliver
    <3>. QED
      BY <3>1, <3>2
  <2>3. rows' \in [Org -> Inst]
    <3>1. PICK i \in Inst : rows' = [rows EXCEPT ![o] = i] \/ UNCHANGED rows
      BY <1>2 DEF Deliver, Inst
    <3>. QED
      BY <3>1
  <2>4. UNCHANGED <<member, installed, issued, orgs, cache, browser, request, changes, failures>>
    BY <1>2 DEF Deliver
  <2>. QED
    BY <2>1, <2>2, <2>3, <2>4
<1>3. ASSUME NEW o \in Org, LoseHook(o)
      PROVE  CoreTypes'
  BY <1>3 DEF LoseHook
<1>4. ASSUME Tick
      PROVE  CoreTypes'
  <2>1. tokens' \in [Org -> [Id -> 0..TokenTTL]]
    <3>1. ASSUME NEW o \in Org, NEW i \in Id
          PROVE  (IF tokens[o][i] > 0 THEN tokens[o][i] - 1 ELSE 0) \in 0..TokenTTL
      BY AccessAssumption
    <3>2. tokens' = [o \in Org |-> [i \in Id |-> IF tokens[o][i] > 0 THEN tokens[o][i] - 1 ELSE 0]]
      BY <1>4 DEF Tick
    <3>. QED
      BY <3>1, <3>2
  <2>2. cache' \in [Org -> [member : BOOLEAN, left : Nat]]
    <3>1. ASSUME NEW o \in Org
          PROVE  (IF cache[o].left > 1 THEN [cache[o] EXCEPT !.left = @ - 1] ELSE NoVerdict)
                   \in [member : BOOLEAN, left : Nat]
      <4>1. cache[o].member \in BOOLEAN /\ cache[o].left \in Nat
        OBVIOUS
      <4>2. NoVerdict \in [member : BOOLEAN, left : Nat]
        BY DEF NoVerdict
      <4>3. CASE cache[o].left > 1
        <5>1. cache[o].left - 1 \in Nat
          BY <4>1, <4>3
        <5>2. cache[o] \in [member : BOOLEAN, left : Nat]
          OBVIOUS
        <5> HIDE DEF CoreTypes
        <5>3. [cache[o] EXCEPT !.left = cache[o].left - 1] \in [member : BOOLEAN, left : Nat]
          BY <5>1, <5>2
        <5>. QED
          BY <4>3, <5>3
      <4>. QED
        BY <4>2, <4>3
    <3>2. cache' = [o \in Org |-> IF cache[o].left > 1 THEN [cache[o] EXCEPT !.left = @ - 1] ELSE NoVerdict]
      BY <1>4 DEF Tick
    <3>. QED
      BY <3>1, <3>2
  <2>. QED
    BY <1>4, <2>1, <2>2 DEF Tick, gitHub
<1>. QED
  BY <1>1, <1>2, <1>3, <1>4 DEF Outside

LEMMA BrowserTypes ==
  ASSUME CoreTypes, Browser
  PROVE  CoreTypes'
BY DEF CoreTypes, Browser, Login, ListOrgs, StoreUser, EndLogin, Logout, NamedOrgs, StoredOrgs,
       gitHub, request

\* A verdict is well formed whatever organization it is about.
LEMMA VerdictType ==
  ASSUME CoreTypes, NEW r \in Request, NEW ok \in BOOLEAN, Verdict(r, ok)
  PROVE  cache' \in [Org -> [member : BOOLEAN, left : Nat]]
<1> DEFINE verdict == [member |-> ok, left |-> IF ok THEN PositiveTTL ELSE NegativeTTL]
<1>1. verdict \in [member : BOOLEAN, left : Nat]
  BY AccessAssumption
<1>2. cache' = [cache EXCEPT ![at[r]] = verdict]
  BY DEF Verdict
<1> HIDE DEF verdict
<1>. QED
  BY <1>1, <1>2 DEF CoreTypes

\* A request that is asking about an organization has one in hand.
LEMMA RequestTypes ==
  ASSUME CoreTypes, NEW r \in Request, Owed(r), Begin(r) \/ MeStep(r) \/ FailOpen(r)
  PROVE  CoreTypes'
<1> USE DEF CoreTypes, gitHub, browser
<1>1. ASSUME Begin(r) \/ KickSync(r) \/ SkipSync(r) \/ Respond(r)
      PROVE  CoreTypes'
  <2>1. [o \in Org |-> 0] \in [Org -> Inst]
    BY DEF Inst
  <2>2. raw' \in [Request -> [Org -> Inst]]
    BY <1>1, <2>1 DEF Begin, KickSync, SkipSync, Respond
  <2>3. todo' \in [Request -> SUBSET Org]
    <3>1. CASE SkipSync(r)
      BY <3>1 DEF SkipSync
    <3>2. CASE Begin(r) \/ KickSync(r) \/ Respond(r)
      BY <3>2 DEF Begin, KickSync, Respond
    <3>. QED
      BY <1>1, <3>1, <3>2
  <2>6. pc' \in [Request -> {"idle", "sync", "syncing", "check", "token", "mint", "save", "ask", "heal"}]
    BY <1>1 DEF Begin, KickSync, SkipSync, Respond
  <2>4. mine' \in [Request -> SUBSET Org] /\ shown' \in [Request -> SUBSET Org]
    BY <1>1 DEF Begin, KickSync, SkipSync, Respond
  <2>5. UNCHANGED <<gitHub, rows, tokens, orgs, cache, browser, at, changes, failures>>
    BY <1>1 DEF Begin, KickSync, SkipSync, Respond
  <2>. QED
    BY <2>2, <2>3, <2>4, <2>5, <2>6
<1>2. ASSUME Sync(r)
      PROVE  CoreTypes'
  <2>1. rows' \in [Org -> Inst] /\ failures' \in 0..MaxFailures
    <3>1. failures' \in 0..MaxFailures
      BY <1>2, AccessAssumption DEF Sync
    <3>2. PICK f \in [Org -> Inst] : rows' = f
      BY <1>2 DEF Sync, Synced, SyncedInPart, Inst
    <3>. QED
      BY <3>1, <3>2
  <2>2. todo' \in [Request -> SUBSET Org]
    BY <1>2, <2>1 DEF Sync
  <2>. QED
    BY <1>2, <2>1, <2>2 DEF Sync
<1>3. ASSUME NEW o \in Org, Check(r, o)
      PROVE  CoreTypes'
  <2>1. todo' \in [Request -> SUBSET Org]
    BY <1>3 DEF Check
  <2>4. shown' \in [Request -> SUBSET Org]
    <3>1. Show(r, o) \/ UNCHANGED shown
      BY <1>3 DEF Check
    <3>2. CASE shown' = [shown EXCEPT ![r] = shown[r] \cup {o}]
      BY <3>2
    <3>. QED
      BY <3>1, <3>2 DEF Show
  <2>2. /\ pc' \in [Request -> {"idle", "sync", "syncing", "check", "token", "mint", "save", "ask", "heal"}]
        /\ at' \in [Request -> Org \cup {NoOrg}]
    <3>1. \/ UNCHANGED <<pc, at>>
          \/ pc' = [pc EXCEPT ![r] = "token"] /\ at' = [at EXCEPT ![r] = o]
      BY <1>3 DEF Check
    <3>. QED
      BY <3>1
  <2>3. UNCHANGED <<gitHub, rows, tokens, orgs, cache, browser, mine, raw, changes, failures>>
    BY <1>3 DEF Check
  <2>. QED
    BY <2>1, <2>2, <2>3, <2>4
<1>4. ASSUME FindToken(r)
      PROVE  CoreTypes'
  <2> DEFINE next == IF tokens[at[r]][Asker(r)] > 1 THEN "ask" ELSE "mint"
  <2>1. next \in {"ask", "mint"} /\ pc' = [pc EXCEPT ![r] = next]
    BY <1>4 DEF FindToken
  <2> HIDE DEF next
  <2>. QED
    BY <1>4, <2>1 DEF FindToken
<1>5. ASSUME Mint(r) \/ Ask(r)
      PROVE  CoreTypes'
  <2>1. cache' \in [Org -> [member : BOOLEAN, left : Nat]]
    <3>1. Verdict(r, TRUE) \/ Verdict(r, FALSE) \/ UNCHANGED cache
      BY <1>5 DEF Mint, Ask, Refuse
    <3>. QED
      BY <3>1, VerdictType
  <2>. QED
    BY <1>5, <2>1 DEF Mint, Ask, Refuse, Onward
<1>6. ASSUME SaveToken(r)
      PROVE  CoreTypes'
  <2>1. tokens' \in [Org -> [Id -> 0..TokenTTL]]
    <3>1. TokenTTL \in 0..TokenTTL /\ at[r] \in Org
      BY <1>6, AccessAssumption DEF SaveToken, Owed, Asking
    <3>2. [tokens[at[r]] EXCEPT ![Asker(r)] = TokenTTL] \in [Id -> 0..TokenTTL]
      BY <3>1
    <3>3. tokens' = [tokens EXCEPT ![at[r]] = [tokens[at[r]] EXCEPT ![Asker(r)] = TokenTTL]]
      BY <1>6 DEF SaveToken
    <3>. QED
      BY <3>2, <3>3
  <2>. QED
    BY <1>6, <2>1 DEF SaveToken
<1>7. ASSUME FailOpen(r)
      PROVE  CoreTypes'
  <2>1. at[r] \in Org
    BY <1>7 DEF FailOpen, Owed, Asking
  <2>. QED
    BY <1>7, <2>1, AccessAssumption DEF FailOpen, Show, Onward
<1>8. ASSUME Heal(r)
      PROVE  CoreTypes'
  <2>1. at[r] \in Org
    BY <1>8 DEF Heal, Owed, Asking
  <2>. QED
    BY <1>8, <2>1 DEF Heal, Show, Onward
<1>. QED
  BY <1>1, <1>2, <1>3, <1>4, <1>5, <1>6, <1>7, <1>8 DEF MeStep

-----------------------------------------------------------------------------

\* While a request is under way, what it may not forget only shrinks, and is the
\* user's now.
LEMMA SteadyShrinks ==
  ASSUME Watch, NEW q \in Request, pc[q] # "idle"
  PROVE  steady'[q] \subseteq steady[q]
BY DEF Watch

LEMMA SteadyGranted ==
  ASSUME Watch, NEW q \in Request, NEW o \in steady'[q]
  PROVE  o \in Org /\ Granted(o)'
BY DEF Watch

\* A request that does not move forgets nothing.
LEMMA KeepOwed ==
  ASSUME Watch, NEW q \in Request, Owed(q),
         pc'[q] = pc[q], todo'[q] = todo[q], at'[q] = at[q], shown'[q] = shown[q]
  PROVE  Owed(q)'
<1>1. pc[q] # "idle" => steady'[q] \subseteq steady[q]
  BY SteadyShrinks
<1>. QED
  BY <1>1 DEF Owed, Asking

\* The workspaces the request is about to look at are all there are.
LEMMA StartOwed ==
  ASSUME Watch, CoreTypes, NEW r \in Request, Sync(r) \/ SkipSync(r)
  PROVE  Owed(r)'
<1>1. pc'[r] = "check" /\ todo'[r] = {o \in Org : rows'[o] # 0}
  BY DEF CoreTypes, Sync, SkipSync
<1>2. steady'[r] \subseteq {o \in Org : rows'[o] # 0}
  BY SteadyGranted DEF Granted
<1>. QED
  BY <1>1, <1>2 DEF Owed, Asking

\* The organization in hand was refused: it is not the user's, or not any more.
LEMMA RefusedOwed ==
  ASSUME Watch, CoreTypes, NEW r \in Request, NEW o \in Org, at[r] = o,
         Owed(r), pc[r] \in Asking, Refuse(r), UNCHANGED todo
  PROVE  Owed(r)'
<1>1. pc'[r] = "check" /\ shown'[r] = shown[r] /\ todo'[r] = todo[r]
  BY DEF CoreTypes, Refuse, Onward
<1>2. steady[r] \subseteq shown[r] \cup todo[r] \cup {o}
  BY DEF Owed
<1>3. cache'[o].left = NegativeTTL /\ cache'[o].member = FALSE
  BY DEF CoreTypes, Refuse, Verdict
<1>4. o \notin steady'[r]
  BY <1>3, SteadyGranted, AccessAssumption DEF Granted
<1>5. steady'[r] \subseteq steady[r]
  BY SteadyShrinks DEF Asking
<1>. QED
  BY <1>1, <1>2, <1>4, <1>5 DEF Owed, Asking

\* The organization in hand is shown.
LEMMA ShownOwed ==
  ASSUME Watch, CoreTypes, NEW r \in Request, Owed(r), pc[r] \in Asking,
         Show(r, at[r]), Onward(r), UNCHANGED todo
  PROVE  Owed(r)'
<1>1. pc'[r] = "check" /\ shown'[r] = shown[r] \cup {at[r]} /\ todo'[r] = todo[r]
  BY DEF CoreTypes, Show, Onward
<1>2. steady'[r] \subseteq steady[r]
  BY SteadyShrinks DEF Asking
<1>. QED
  BY <1>1, <1>2 DEF Owed, Asking

\* The organization in hand goes from one await to the next.
LEMMA AskingOwed ==
  ASSUME Watch, NEW r \in Request, Owed(r), pc[r] \in Asking, pc'[r] \in Asking,
         at'[r] = at[r], todo'[r] = todo[r], shown'[r] = shown[r]
  PROVE  Owed(r)'
<1>1. steady'[r] \subseteq steady[r]
  BY SteadyShrinks DEF Asking
<1>. QED
  BY <1>1 DEF Owed, Asking

\* The next organization is shown, taken in hand, or refused by a verdict.
LEMMA CheckOwed ==
  ASSUME Watch, CoreTypes, NEW r \in Request, NEW o \in Org, Owed(r), Check(r, o)
  PROVE  Owed(r)'
<1>1. pc[r] = "check" /\ todo'[r] = todo[r] \ {o} /\ UNCHANGED cache
  BY DEF CoreTypes, Check
<1>2. steady'[r] \subseteq steady[r] /\ steady[r] \subseteq shown[r] \cup todo[r]
  BY <1>1, SteadyShrinks DEF Owed
<1>3. CASE o \in mine[r] \/ (cache[o].left > 0 /\ cache[o].member)
  <2>1. pc'[r] = "check" /\ o \in shown'[r] /\ shown[r] \subseteq shown'[r]
    BY <1>1, <1>3 DEF CoreTypes, Check, Show
  <2>. QED
    BY <1>1, <1>2, <2>1 DEF Owed, Asking
<1>4. CASE o \notin mine[r] /\ cache[o].left > 0 /\ ~ cache[o].member
  <2>1. pc'[r] = "check" /\ shown'[r] = shown[r]
    BY <1>1, <1>4 DEF CoreTypes, Check
  <2>2. o \notin steady'[r]
    BY <1>1, <1>4, SteadyGranted DEF Granted
  <2>. QED
    BY <1>1, <1>2, <2>1, <2>2 DEF Owed, Asking
<1>5. CASE o \notin mine[r] /\ ~ (cache[o].left > 0)
  <2>1. pc'[r] = "token" /\ at'[r] = o /\ shown'[r] = shown[r]
    BY <1>1, <1>5 DEF CoreTypes, Check
  <2>. QED
    BY <1>1, <1>2, <2>1 DEF Owed, Asking
<1>. QED
  BY <1>3, <1>4, <1>5

LEMMA RequestOwed ==
  ASSUME AccessInv, Watch, NEW r \in Request, Begin(r) \/ MeStep(r) \/ FailOpen(r)
  PROVE  NothingForgotten'
<1> SUFFICES ASSUME NEW q \in Request PROVE Owed(q)'
  BY DEF NothingForgotten
<1>1. CoreTypes /\ Owed(q) /\ Owed(r)
  BY TypesSplit DEF AccessInv, NothingForgotten
<1>2. CASE q # r
  <2>1. /\ pc'[q] = pc[q] /\ todo'[q] = todo[q]
        /\ at'[q] = at[q] /\ shown'[q] = shown[q]
    <3>1. CASE \E o \in Org : Check(r, o)
      BY <1>1, <1>2, <3>1 DEF CoreTypes, Check, Show
    <3>2. CASE Begin(r) \/ KickSync(r) \/ Sync(r) \/ SkipSync(r) \/ FindToken(r) \/ SaveToken(r)
      BY <1>1, <1>2, <3>2 DEF CoreTypes, Begin, KickSync, Sync, SkipSync, FindToken, SaveToken
    <3>3. CASE Mint(r) \/ Ask(r)
      BY <1>1, <1>2, <3>3 DEF CoreTypes, Mint, Ask, Refuse, Onward
    <3>4. CASE Heal(r) \/ FailOpen(r) \/ Respond(r)
      BY <1>1, <1>2, <3>4 DEF CoreTypes, Heal, FailOpen, Respond, Show, Onward
    <3>. QED
      BY <3>1, <3>2, <3>3, <3>4 DEF MeStep
  <2>. QED
    BY <1>1, <2>1, KeepOwed
<1>3. CASE q = r
  <2>1. CASE Begin(r) \/ KickSync(r) \/ Respond(r)
    BY <1>1, <1>3, <2>1 DEF CoreTypes, Owed, Asking, Begin, KickSync, Respond
  <2>2. CASE Sync(r) \/ SkipSync(r)
    BY <1>1, <1>3, <2>2, StartOwed
  <2>3. CASE \E o \in Org : Check(r, o)
    BY <1>1, <1>3, <2>3, CheckOwed
  <2>4. CASE FindToken(r) \/ SaveToken(r)
    <3>1. /\ pc[r] \in Asking /\ pc'[r] \in Asking
          /\ at'[r] = at[r] /\ todo'[r] = todo[r] /\ shown'[r] = shown[r]
      BY <1>1, <2>4 DEF CoreTypes, FindToken, SaveToken, Asking
    <3>. QED
      BY <1>1, <1>3, <3>1, AskingOwed
  <2>5. CASE Mint(r) \/ Ask(r)
    <3>1. pc[r] \in Asking /\ at[r] \in Org /\ UNCHANGED todo
      BY <1>1, <2>5 DEF Mint, Ask, Asking, Owed
    <3>2. CASE Refuse(r)
      BY <1>1, <1>3, <3>1, <3>2, RefusedOwed
    <3>3. CASE ~ Refuse(r)
      <4>1. pc'[r] \in Asking /\ at'[r] = at[r] /\ shown'[r] = shown[r]
        BY <1>1, <2>5, <3>3 DEF CoreTypes, Mint, Ask, Asking
      <4>. QED
        BY <1>1, <1>3, <3>1, <4>1, AskingOwed
    <3>. QED
      BY <3>2, <3>3
  <2>6. CASE Heal(r) \/ FailOpen(r)
    <3>1. pc[r] \in Asking /\ Show(r, at[r]) /\ Onward(r) /\ UNCHANGED todo
      BY <2>6 DEF Heal, FailOpen, Asking
    <3>. QED
      BY <1>1, <1>3, <3>1, ShownOwed
  <2>. QED
    BY <2>1, <2>2, <2>3, <2>4, <2>5, <2>6 DEF MeStep
<1>. QED
  BY <1>2, <1>3

LEMMA NextAccessInv ==
  ASSUME AccessInv, [Next]_vars
  PROVE  AccessInv'
<1>1. CASE UNCHANGED vars
  BY <1>1 DEF AccessInv, TypeOK, IssuedBound, NothingForgotten, Owed, Asking, vars, gitHub, browser, request
<1>2. ASSUME Step, Watch
      PROVE  AccessInv'
  <2>1. CoreTypes /\ IssuedBound /\ \A r \in Request : Owed(r)
    BY TypesSplit DEF AccessInv, NothingForgotten
  <2>4. IssuedBound'
    BY <1>2, <2>1, IssuedStep
  <2>2. CASE \E r \in Request : Begin(r) \/ MeStep(r) \/ FailOpen(r)
    <3>1. CoreTypes'
      BY <2>1, <2>2, RequestTypes
    <3>2. NothingForgotten'
      BY <1>2, <2>2, RequestOwed
    <3>. QED
      BY <1>2, <2>4, <3>1, <3>2, SteadyType DEF AccessInv, CoreTypes, TypeOK
  <2>3. CASE Outside \/ Browser
    <3>1. CoreTypes'
      BY <2>1, <2>3, OutsideTypes, BrowserTypes
    <3>2. UNCHANGED request
      BY <2>3 DEF Outside, Browser, Join, Leave, Install, Uninstall, Deliver, LoseHook, Tick,
                  Login, ListOrgs, StoreUser, EndLogin, Logout
    <3>3. \A q \in Request : Owed(q)'
      BY <1>2, <2>1, <3>2, KeepOwed DEF request
    <3>. QED
      BY <1>2, <2>4, <3>1, <3>3, SteadyType DEF AccessInv, CoreTypes, TypeOK, NothingForgotten
  <2>. QED
    BY <1>2, <2>2, <2>3, StepCases
<1>. QED
  BY <1>1, <1>2 DEF Next

\* For any organizations, requests and times: types, and what a request owes.
THEOREM AccessInvariant == Spec => []AccessInv
<1>1. AccessInv /\ [Next]_vars => AccessInv'
  BY NextAccessInv
<1>. QED
  BY InitAccessInv, <1>1, PTL DEF Spec

\* A workspace that is the user's during the whole request is in its answer.
THEOREM NobodyIsLockedOut == Spec => []MembersAreShown
<1>1. AccessInv => MembersAreShown
  BY DEF AccessInv, NothingForgotten, Owed, MembersAreShown
<1>. QED
  BY AccessInvariant, <1>1, PTL

-----------------------------------------------------------------------------

\* Only a member's organization goes to the repair of the snapshot.
LEMMA RevokedStep ==
  ASSUME AccessInv, Step, NEW o \in Org, Revoked(o), o \notin member'
  PROVE  Revoked(o)'
<1>1. CoreTypes /\ o \notin member /\ o \notin orgs /\ o \notin listed
  BY TypesSplit DEF AccessInv, Revoked
<1>2. \A r \in Request : ~ (pc[r] = "heal" /\ at[r] = o)
  BY DEF Revoked
<1>3. ASSUME NEW r \in Request, Begin(r) \/ MeStep(r) \/ FailOpen(r)
      PROVE  Revoked(o)'
  <2>1. o \notin listed' /\ o \notin orgs'
    <3>1. CASE Heal(r)
      BY <1>1, <1>2, <3>1 DEF Heal, browser
    <3>2. CASE Begin(r) \/ FailOpen(r) \/ (MeStep(r) /\ ~ Heal(r))
      BY <1>1, <3>2 DEF Begin, FailOpen, MeStep, KickSync, Sync, SkipSync, Check, FindToken, Mint,
                        SaveToken, Ask, Respond, browser
    <3>. QED
      BY <1>3, <3>1, <3>2
  <2>2. ASSUME NEW q \in Request, pc'[q] = "heal"
        PROVE  at'[q] # o
    <3>1. CASE Ask(r)
      <4>1. CASE at[r] \in member /\ pc' = [pc EXCEPT ![r] = "heal"] /\ UNCHANGED at
        BY <1>1, <1>2, <2>2, <4>1 DEF CoreTypes
      <4>2. CASE Refuse(r)
        BY <1>1, <1>2, <2>2, <4>2 DEF CoreTypes, Refuse, Onward
      <4>. QED
        BY <3>1, <4>1, <4>2 DEF Ask
    <3>2. CASE \E p \in Org : Check(r, p)
      BY <1>1, <1>2, <2>2, <3>2 DEF CoreTypes, Check
    <3>3. CASE Begin(r) \/ KickSync(r) \/ Sync(r) \/ SkipSync(r) \/ FindToken(r) \/ SaveToken(r)
      BY <1>1, <1>2, <2>2, <3>3 DEF CoreTypes, Begin, KickSync, Sync, SkipSync, FindToken, SaveToken
    <3>4. CASE Mint(r)
      BY <1>1, <1>2, <2>2, <3>4 DEF CoreTypes, Mint, Refuse, Onward
    <3>5. CASE Heal(r) \/ FailOpen(r) \/ Respond(r)
      BY <1>1, <1>2, <2>2, <3>5 DEF CoreTypes, Heal, FailOpen, Respond, Onward
    <3>. QED
      BY <1>3, <3>1, <3>2, <3>3, <3>4, <3>5 DEF MeStep
  <2>. QED
    BY <2>1, <2>2 DEF Revoked
<1>4. CASE Outside \/ Browser
  <2>1. o \notin listed' /\ o \notin orgs'
    BY <1>1, <1>4 DEF Outside, Browser, Join, Leave, Install, Uninstall, Deliver, LoseHook, Tick,
                      Login, ListOrgs, StoreUser, EndLogin, Logout, NamedOrgs, StoredOrgs, browser
  <2>2. UNCHANGED request
    BY <1>4 DEF Outside, Browser, Join, Leave, Install, Uninstall, Deliver, LoseHook, Tick,
                Login, ListOrgs, StoreUser, EndLogin, Logout
  <2>. QED
    BY <1>2, <2>1, <2>2 DEF Revoked, request
<1>. QED
  BY <1>3, <1>4, StepCases

\* Nothing puts back into the snapshot an organization the user has left.
THEOREM RevocationHolds == Spec => RevokedStaysRevoked
<1>1. AccessInv /\ [Next]_vars => [\A o \in Org : Revoked(o) /\ o \notin member' => Revoked(o)']_vars
  BY RevokedStep DEF Next
<1>. QED
  BY AccessInvariant, <1>1, PTL DEF Spec, RevokedStaysRevoked
=============================================================================
