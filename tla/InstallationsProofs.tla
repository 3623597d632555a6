------------------------ MODULE InstallationsProofs ------------------------
(***************************************************************************)
(* Proofs about Installations, for any accounts, any number of             *)
(* installations, deliveries and failures: who can remove a document, and  *)
(* that agreement with GitHub is kept.                                     *)
(***************************************************************************)
EXTENDS Installations, TLAPS

\* GitHub hands out an id once, to one account.
IdsInv == \A a \in Account : live[a] # None =>
  /\ live[a] < nextId
  /\ \A b \in Account : live[b] = live[a] => a = b

\* A deleted installation is gone for good.
HooksInv == \A h \in hooks : h.action = "deleted" =>
  h.id < nextId /\ \A a \in Account : live[a] # h.id

\* A running sync holds documents of its list, each with its account.
ListsInv == \A s \in Syncer : \A d \in todo[s] :
  /\ d.install_id \in seen[s] /\ d.install_id < nextId
  /\ \A a \in Account : live[a] = d.install_id => a = d.account

\* A list that is not a full page has every installation older than it that GitHub
\* still has.
PagesInv == \A s \in Syncer :
  /\ asked[s] <= nextId
  /\ pc[s] = "running" /\ Cardinality(seen[s]) # PageSize =>
       \A a \in Account : live[a] # None /\ live[a] < asked[s] => live[a] \in seen[s]

InstInv == TypeOK /\ IdsInv /\ HooksInv /\ ListsInv /\ PagesInv

-----------------------------------------------------------------------------

LEMMA InitInstInv == Init => InstInv
BY InstallationsAssumption DEF Init, InstInv, TypeOK, IdsInv, HooksInv, ListsInv, PagesInv, Id, Hook

LEMMA InstallKeeps ==
  ASSUME InstInv, NEW a \in Account, Install(a)
  PROVE  InstInv'
<1>1. /\ nextId \in Id /\ nextId \in Nat /\ nextId # None /\ live[a] = None
      /\ live' = [live EXCEPT ![a] = nextId] /\ nextId' = nextId + 1
      /\ hooks' = hooks \cup {[action |-> "created", id |-> nextId, account |-> a]}
      /\ UNCHANGED <<docs, pc, todo, seen, asked, failures>>
  BY InstallationsAssumption DEF Install, InstInv, TypeOK, Id, sync
<1>2. TypeOK'
  <2>1. live' \in [Account -> Id \cup {None}]
    BY <1>1 DEF InstInv, TypeOK
  <2>2. nextId' \in 1..(MaxInstalls + 1)
    BY <1>1, InstallationsAssumption DEF Id
  <2>3. hooks' \subseteq Hook
    BY <1>1 DEF InstInv, TypeOK, Hook
  <2>. QED
    BY <1>1, <2>1, <2>2, <2>3 DEF InstInv, TypeOK
<1>3. \A b \in Account : live'[b] = IF b = a THEN nextId ELSE live[b]
  BY <1>1 DEF InstInv, TypeOK
<1>4. \A b \in Account : live[b] # None => live[b] \in Nat /\ live[b] < nextId
  BY InstallationsAssumption DEF InstInv, TypeOK, IdsInv, Id
<1>5. IdsInv'
  <2> SUFFICES ASSUME NEW b \in Account, live'[b] # None
               PROVE  live'[b] < nextId' /\ \A c \in Account : live'[c] = live'[b] => b = c
    BY DEF IdsInv
  <2>1. live'[b] < nextId'
    BY <1>1, <1>3, <1>4
  <2>2. ASSUME NEW c \in Account, live'[c] = live'[b]
        PROVE  b = c
    <3>1. CASE b = a \/ c = a
      BY <1>1, <1>3, <1>4, <2>2, <3>1
    <3>2. CASE b # a /\ c # a
      BY <1>3, <2>2, <3>2 DEF InstInv, IdsInv
    <3>. QED
      BY <3>1, <3>2
  <2>. QED
    BY <2>1, <2>2
<1>6. HooksInv'
  <2> SUFFICES ASSUME NEW h \in hooks', h.action = "deleted"
               PROVE  h.id < nextId' /\ \A b \in Account : live'[b] # h.id
    BY DEF HooksInv
  <2>1. h \in hooks
    BY <1>1
  <2>2. h.id \in Nat /\ h.id < nextId /\ \A b \in Account : live[b] # h.id
    BY <2>1 DEF InstInv, TypeOK, HooksInv, Hook, Id
  <2>. QED
    BY <1>1, <1>3, <2>2
<1>7. ListsInv'
  <2> SUFFICES ASSUME NEW s \in Syncer, NEW d \in todo[s]
               PROVE  /\ d.install_id \in seen[s] /\ d.install_id < nextId'
                      /\ \A b \in Account : live'[b] = d.install_id => b = d.account
    BY <1>1 DEF ListsInv
  <2>1. /\ d.install_id \in seen[s] /\ d.install_id < nextId
        /\ \A b \in Account : live[b] = d.install_id => b = d.account
    BY DEF InstInv, ListsInv
  <2>2. d.install_id \in Nat
    BY <2>1 DEF InstInv, TypeOK, Id
  <2>. QED
    BY <1>1, <1>3, <2>1, <2>2
<1>8. PagesInv'
  <2>1. \A s \in Syncer : asked[s] \in Nat
    BY InstallationsAssumption DEF InstInv, TypeOK
  <2>. QED
    BY <1>1, <1>3, <2>1 DEF InstInv, PagesInv
<1>. QED
  BY <1>2, <1>5, <1>6, <1>7, <1>8 DEF InstInv

LEMMA UninstallKeeps ==
  ASSUME InstInv, NEW a \in Account, Uninstall(a)
  PROVE  InstInv'
<1>1. /\ live[a] # None /\ live[a] \in Id /\ live[a] < nextId
      /\ live' = [live EXCEPT ![a] = None]
      /\ hooks' = hooks \cup {[action |-> "deleted", id |-> live[a], account |-> a]}
      /\ UNCHANGED <<nextId, docs, pc, todo, seen, asked, failures>>
  BY DEF Uninstall, InstInv, TypeOK, IdsInv, sync
<1>2. TypeOK'
  <2>1. live' \in [Account -> Id \cup {None}]
    BY <1>1 DEF InstInv, TypeOK
  <2>2. hooks' \subseteq Hook
    BY <1>1 DEF InstInv, TypeOK, Hook
  <2>. QED
    BY <1>1, <2>1, <2>2 DEF InstInv, TypeOK
<1>3. \A b \in Account : live'[b] = IF b = a THEN None ELSE live[b]
  BY <1>1 DEF InstInv, TypeOK
<1>4. IdsInv'
  BY <1>1, <1>3 DEF InstInv, IdsInv
<1>5. HooksInv'
  <2> SUFFICES ASSUME NEW h \in hooks', h.action = "deleted"
               PROVE  h.id < nextId /\ \A b \in Account : live'[b] # h.id
    BY <1>1 DEF HooksInv
  <2>1. CASE h \in hooks
    <3>1. h.id \in Id /\ h.id < nextId /\ \A b \in Account : live[b] # h.id
      BY <2>1 DEF InstInv, TypeOK, HooksInv, Hook
    <3>2. None \notin Id
      BY InstallationsAssumption DEF Id
    <3>. QED
      BY <1>3, <3>1, <3>2
  <2>2. CASE h = [action |-> "deleted", id |-> live[a], account |-> a]
    <3>1. h.id = live[a]
      BY <2>2
    <3>. QED
      BY <1>1, <1>3, <3>1 DEF InstInv, IdsInv
  <2>. QED
    BY <1>1, <2>1, <2>2
<1>6. ListsInv'
  <2> SUFFICES ASSUME NEW s \in Syncer, NEW d \in todo[s]
               PROVE  /\ d.install_id \in seen[s] /\ d.install_id < nextId
                      /\ \A b \in Account : live'[b] = d.install_id => b = d.account
    BY <1>1 DEF ListsInv
  <2>1. d.install_id \in seen[s] /\ seen[s] \subseteq Id
    BY DEF InstInv, TypeOK, ListsInv
  <2>2. None \notin Id
    BY InstallationsAssumption DEF Id
  <2>. QED
    BY <1>3, <2>1, <2>2 DEF InstInv, ListsInv
<1>7. PagesInv'
  BY <1>1, <1>3 DEF InstInv, PagesInv
<1>. QED
  BY <1>2, <1>4, <1>5, <1>6, <1>7 DEF InstInv

LEMMA DocsKept ==
  ASSUME docs \subseteq InstallDocs \cup PublicDocs, NEW i \in Id, NEW a \in Account
  PROVE  UpsertById(i, a) => docs' \subseteq InstallDocs \cup PublicDocs
BY DEF UpsertById, InstallDocs

LEMMA HookKeeps ==
  ASSUME InstInv, NEW h \in hooks, Deliver(h) \/ LoseHook(h)
  PROVE  InstInv'
<1>1. /\ hooks' = hooks \ {h}
      /\ UNCHANGED <<live, nextId, pc, todo, seen, asked, failures>>
  BY DEF Deliver, LoseHook, sync
<1>2. docs' \subseteq InstallDocs \cup PublicDocs
  <2>1. h.id \in Id /\ h.account \in Account
    BY DEF InstInv, TypeOK, Hook
  <2>. QED
    BY <2>1, DocsKept DEF Deliver, LoseHook, Remove, InstInv, TypeOK
<1>. QED
  BY <1>1, <1>2 DEF InstInv, TypeOK, IdsInv, HooksInv, ListsInv, PagesInv

LEMMA SyncKeeps ==
  ASSUME InstInv, NEW s \in Syncer, List(s) \/ SyncStep(s) \/ Fail(s)
  PROVE  InstInv'
<1>1. UNCHANGED <<live, nextId, hooks>>
  BY DEF List, SyncStep, Upsert, Prune, Fail, gitHub
<1>2. docs' \subseteq InstallDocs \cup PublicDocs
  <2>1. CASE Upsert(s)
    <3>1. PICK d \in todo[s] : UpsertById(d.install_id, d.account) \/ UNCHANGED docs
      BY <2>1 DEF Upsert
    <3>2. d.install_id \in Id /\ d.account \in Account
      BY DEF InstInv, TypeOK, InstallDocs, InstallDoc
    <3>. QED
      BY <3>1, <3>2, DocsKept DEF InstInv, TypeOK
  <2>. QED
    BY <2>1 DEF List, SyncStep, Prune, Fail, InstInv, TypeOK
<1>3. failures' \in 0..MaxFailures
  BY InstallationsAssumption DEF List, SyncStep, Upsert, Prune, Fail, InstInv, TypeOK
<1>4. ASSUME TypeOK', ListsInv', PagesInv'
      PROVE  InstInv'
  BY <1>1, <1>4 DEF InstInv, IdsInv, HooksInv
<1>5. CASE Stop(s)
  <2>1. TypeOK' /\ ListsInv'
    BY <1>1, <1>2, <1>3, <1>5, InstallationsAssumption DEF Stop, InstInv, TypeOK, ListsInv
  <2>2. nextId \in Nat /\ 1 <= nextId
    BY InstallationsAssumption DEF InstInv, TypeOK
  <2>3. PagesInv'
    BY <1>1, <1>5, <2>2 DEF Stop, InstInv, TypeOK, PagesInv
  <2>. QED
    BY <1>4, <2>1, <2>3
<1>6. CASE List(s)
  <2>1. PICK page \in Pages :
          /\ seen' = [seen EXCEPT ![s] = page]
          /\ todo' = [todo EXCEPT ![s] = {InstallDoc(live[a], a) : a \in {b \in Account : live[b] \in page}}]
    BY <1>6 DEF List
  <2> DEFINE found == {InstallDoc(live[a], a) : a \in {b \in Account : live[b] \in page}}
  <2>2. pc' = [pc EXCEPT ![s] = "running"] /\ asked' = [asked EXCEPT ![s] = nextId]
    BY <1>6 DEF List
  <2>3. page \subseteq Installed /\ (page = Installed \/ Cardinality(page) = PageSize)
    BY DEF Pages
  <2>4. Installed \subseteq Id
    BY DEF Installed
  <2>5. found \subseteq InstallDocs
    BY <2>3, <2>4 DEF InstallDocs
  <2>6. ASSUME NEW d \in found
        PROVE  /\ d.install_id \in page /\ d.install_id < nextId
               /\ \A b \in Account : live[b] = d.install_id => b = d.account
    <3>1. PICK a \in Account : live[a] \in page /\ d = InstallDoc(live[a], a)
      BY <2>6
    <3>2. d.install_id = live[a] /\ d.account = a
      BY <3>1 DEF InstallDoc
    <3>3. live[a] # None
      BY <2>3, <2>4, <3>1, InstallationsAssumption DEF Id
    <3>. QED
      BY <3>1, <3>2, <3>3 DEF InstInv, IdsInv
  <2>7. todo' = [todo EXCEPT ![s] = found]
    BY <2>1
  <2> HIDE DEF found
  <2>8. TypeOK'
    BY <1>1, <1>2, <1>3, <2>1, <2>2, <2>3, <2>4, <2>5, <2>7 DEF InstInv, TypeOK
  <2>9. ListsInv'
    <3> SUFFICES ASSUME NEW q \in Syncer, NEW d \in todo'[q]
                 PROVE  /\ d.install_id \in seen'[q] /\ d.install_id < nextId
                        /\ \A b \in Account : live[b] = d.install_id => b = d.account
      BY <1>1 DEF ListsInv
    <3>1. CASE q = s
      BY <2>1, <2>6, <2>7, <3>1 DEF InstInv, TypeOK
    <3>2. CASE q # s
      BY <2>1, <2>7, <3>2 DEF InstInv, TypeOK, ListsInv
    <3>. QED
      BY <3>1, <3>2
  <2>10. PagesInv'
    <3> SUFFICES ASSUME NEW q \in Syncer
                 PROVE  /\ asked'[q] <= nextId
                        /\ pc'[q] = "running" /\ Cardinality(seen'[q]) # PageSize =>
                             \A a \in Account :
                               live[a] # None /\ live[a] < asked'[q] => live[a] \in seen'[q]
      BY <1>1, InstallationsAssumption DEF PagesInv
    <3>1. CASE q = s
      <4>1. asked'[q] = nextId /\ seen'[q] = page /\ nextId \in Nat
        BY <2>1, <2>2, <3>1 DEF InstInv, TypeOK
      <4>2. \A a \in Account : live[a] # None => live[a] \in Installed
        BY DEF InstInv, TypeOK, Installed
      <4>. QED
        BY <2>3, <4>1, <4>2
    <3>2. CASE q # s
      BY <2>1, <2>2, <3>2 DEF InstInv, TypeOK, PagesInv
    <3>. QED
      BY <3>1, <3>2
  <2>. QED
    BY <1>4, <2>8, <2>9, <2>10
<1>7. ASSUME NEW d \in todo[s], todo' = [todo EXCEPT ![s] = @ \ {d}], UNCHANGED <<pc, seen, asked>>
      PROVE  InstInv'
  <2>1. TypeOK' /\ ListsInv'
    BY <1>1, <1>2, <1>3, <1>7 DEF InstInv, TypeOK, ListsInv
  <2>2. PagesInv'
    BY <1>1, <1>7 DEF InstInv, PagesInv
  <2>. QED
    BY <1>4, <2>1, <2>2
<1>8. \/ Stop(s) \/ List(s)
      \/ \E d \in todo[s] : todo' = [todo EXCEPT ![s] = @ \ {d}] /\ UNCHANGED <<pc, seen, asked>>
  BY DEF SyncStep, Upsert, Prune, Fail
<1>. QED
  BY <1>5, <1>6, <1>7, <1>8

LEMMA NextInstInv ==
  ASSUME InstInv, [Next]_vars
  PROVE  InstInv'
<1>1. CASE \E a \in Tracked : AddPublic(a) \/ RemovePublic(a)
  <2>1. UNCHANGED <<live, nextId, hooks, pc, todo, seen, asked, failures>>
    BY <1>1 DEF AddPublic, RemovePublic, gitHub, sync
  <2>2. docs' \subseteq InstallDocs \cup PublicDocs
    BY <1>1 DEF AddPublic, RemovePublic, InstInv, TypeOK, PublicDocs
  <2>. QED
    BY <2>1, <2>2 DEF InstInv, TypeOK, IdsInv, HooksInv, ListsInv, PagesInv
<1>2. CASE UNCHANGED vars
  BY <1>2 DEF vars, gitHub, sync, InstInv, TypeOK, IdsInv, HooksInv, ListsInv, PagesInv
<1>. QED
  BY <1>1, <1>2, InstallKeeps, UninstallKeeps, HookKeeps, SyncKeeps DEF Next

\* Types, and what is known of ids, late events and lists under way.
THEOREM InstInvariant == Spec => []InstInv
BY InitInstInv, NextInstInv, PTL DEF Spec

\* Type correctness, for any accounts and bounds.
THEOREM TypesHold == Spec => []TypeOK
<1>1. InstInv => TypeOK
  BY DEF InstInv
<1>. QED
  BY InstInvariant, <1>1, PTL

-----------------------------------------------------------------------------

\* A document of a live installation disappears in no other step than the pruning
\* of a sync that does not know it.
LEMMA RemovalStep ==
  ASSUME InstInv, Next, NEW i \in Installed,
         \E d \in docs : d.install_id = i, ~ \E d \in docs' : d.install_id = i
  PROVE  \E s \in Syncer : OldOrCutShort(s, i)
<1>1. PICK d \in docs : d.install_id = i
  OBVIOUS
<1>2. PICK a \in Account : live[a] = i
  BY DEF Installed
<1>3. i \in Id /\ i # None /\ d \notin docs'
  BY <1>1, InstallationsAssumption DEF Installed, Id
<1>4. ASSUME NEW k \in Id, NEW b \in Account, UpsertById(k, b)
      PROVE  FALSE
  <2>1. InstallDoc(k, b).install_id = k /\ InstallDoc(k, b) \in docs'
    BY <1>4 DEF InstallDoc, UpsertById
  <2>2. k # i
    BY <2>1
  <2>. QED
    BY <1>1, <1>3, <1>4, <2>2 DEF UpsertById
<1>5. ASSUME NEW h \in hooks, Deliver(h)
      PROVE  FALSE
  <2>1. h.id \in Id /\ h.account \in Account
    BY DEF InstInv, TypeOK, Hook
  <2>2. CASE h.action = "deleted" /\ Remove(h)
    <3>1. h.id # i
      BY <1>2, <2>2 DEF InstInv, HooksInv
    <3>. QED
      BY <1>1, <1>3, <2>2, <3>1 DEF Remove
  <2>. QED
    BY <1>3, <1>4, <1>5, <2>1, <2>2 DEF Deliver
<1>6. ASSUME NEW s \in Syncer, Upsert(s)
      PROVE  FALSE
  <2>1. PICK e \in todo[s] : UpsertById(e.install_id, e.account) \/ UNCHANGED docs
    BY <1>6 DEF Upsert
  <2>2. e.install_id \in Id /\ e.account \in Account
    BY DEF InstInv, TypeOK, InstallDocs, InstallDoc
  <2>. QED
    BY <1>3, <1>4, <2>1, <2>2
<1>7. ASSUME NEW s \in Syncer, Prune(s)
      PROVE  OldOrCutShort(s, i)
  <2>1. pc[s] = "running" /\ NotListed(s, d)
    BY <1>3, <1>7 DEF Prune
  <2>2. i \notin seen[s]
    BY <1>1, <2>1 DEF NotListed
  <2>3. asked[s] \in Int /\ i \in Int
    BY <1>3 DEF InstInv, TypeOK, Id
  <2>4. i < asked[s] => Cardinality(seen[s]) = PageSize
    BY <1>2, <1>3, <2>1, <2>2 DEF InstInv, PagesInv
  <2>. QED
    BY <2>1, <2>2, <2>3, <2>4 DEF OldOrCutShort
<1>8. CASE \E b \in Tracked : AddPublic(b) \/ RemovePublic(b)
  <2>1. PICK b \in Tracked : docs' = docs \cup {PublicDoc(b)} \/ docs' = docs \ {PublicDoc(b)}
    BY <1>8 DEF AddPublic, RemovePublic
  <2>2. d # PublicDoc(b)
    BY <1>1, <1>3 DEF PublicDoc
  <2>. QED
    BY <1>3, <2>1, <2>2
<1>9. CASE \/ \E b \in Account : Install(b) \/ Uninstall(b)
           \/ \E h \in hooks : LoseHook(h)
           \/ \E s \in Syncer : List(s) \/ Fail(s)
  <2>1. UNCHANGED docs
    BY <1>9 DEF Install, Uninstall, LoseHook, List, Fail
  <2>. QED
    BY <1>3, <2>1
<1>. QED
  BY <1>5, <1>6, <1>7, <1>8, <1>9 DEF Next, SyncStep

\* No uninstall event, however late, and no sync whose list had room for it and was
\* not older removes the document of an installation GitHub has.
THEOREM LiveIsKept == Spec => OnlyStaleListRemovesLive
<1>1. InstInv /\ [Next]_vars =>
        [\A i \in Installed :
           (\E d \in docs : d.install_id = i) /\ ~(\E d \in docs' : d.install_id = i) =>
             \E s \in Syncer : OldOrCutShort(s, i)]_vars
  BY RemovalStep
<1>. QED
  BY InstInvariant, <1>1, PTL DEF Spec, OnlyStaleListRemovesLive

-----------------------------------------------------------------------------

\* In a settled state a sync writes what is there and prunes nothing.
LEMMA SettledSync ==
  ASSUME InstInv, Settled, NEW s \in Syncer, SyncStep(s)
  PROVE  docs' = docs
<1>1. pc[s] = "running" /\ seen[s] = Installed /\ InAgreement
  BY DEF Settled, SyncStep, Upsert, Prune
<1>2. \A d \in docs : \/ d.mode = "public" /\ d.install_id = None
                     \/ \E a \in Account : live[a] # None /\ d = InstallDoc(live[a], a)
  <2> SUFFICES ASSUME NEW d \in docs
               PROVE  \/ d.mode = "public" /\ d.install_id = None
                      \/ \E a \in Account : live[a] # None /\ d = InstallDoc(live[a], a)
    OBVIOUS
  <2>1. CASE d \in PublicDocs
    BY <2>1 DEF PublicDocs, PublicDoc
  <2>2. CASE d \notin PublicDocs
    <3>1. d.mode = None
      BY <2>2 DEF InstInv, TypeOK, InstallDocs, InstallDoc
    <3>2. d \in Installs
      BY <3>1, InstallationsAssumption DEF Installs, Public
    <3>. QED
      BY <1>1, <3>2 DEF InAgreement
  <2>. QED
    BY <2>1, <2>2
<1>3. \A a \in Account : live[a] # None => live[a] \in Installed /\ InstallDoc(live[a], a) \in docs
  BY <1>1 DEF InAgreement, Installs, InstInv, TypeOK, Installed
<1>4. CASE Upsert(s)
  <2>1. PICK e \in todo[s] : UpsertById(e.install_id, e.account) \/ UNCHANGED docs
    BY <1>4 DEF Upsert
  <2>2. e.install_id \in Installed /\ e.install_id # None
    <3>1. e.install_id \in Installed
      BY <1>1 DEF InstInv, ListsInv
    <3>. QED
      BY <3>1, InstallationsAssumption DEF Installed, Id
  <2>3. live[e.account] = e.install_id /\ e.account \in Account
    <3>1. PICK a \in Account : live[a] = e.install_id
      BY <2>2 DEF Installed
    <3>2. a = e.account
      BY <3>1 DEF InstInv, ListsInv
    <3>. QED
      BY <3>1, <3>2
  <2> DEFINE written == InstallDoc(e.install_id, e.account)
  <2>4. written \in docs
    BY <1>3, <2>2, <2>3
  <2>5. ASSUME NEW d \in docs, d.install_id = e.install_id
        PROVE  d = written
    <3>1. PICK a \in Account : live[a] # None /\ d = InstallDoc(live[a], a)
      BY <1>2, <2>2, <2>5
    <3>2. d.install_id = live[a]
      BY <3>1 DEF InstallDoc
    <3>3. a = e.account
      BY <2>3, <2>5, <3>1, <3>2 DEF InstInv, IdsInv
    <3>. QED
      BY <2>3, <3>1, <3>3
  <2> HIDE DEF written
  <2>6. docs = {d \in docs : d.install_id # e.install_id} \cup {written}
    BY <2>4, <2>5
  <2>. QED
    BY <2>1, <2>6 DEF UpsertById, written
<1>5. CASE Prune(s)
  <2>1. docs' = {d \in docs : seen[s] = {} \/ ~NotListed(s, d)}
    BY <1>5 DEF Prune
  <2>2. ASSUME NEW d \in docs
        PROVE  ~NotListed(s, d)
    <3>1. CASE d.install_id = None
      BY <3>1 DEF NotListed
    <3>2. CASE \E a \in Account : live[a] # None /\ d = InstallDoc(live[a], a)
      <4>1. PICK a \in Account : live[a] # None /\ d = InstallDoc(live[a], a)
        BY <3>2
      <4>2. d.install_id = live[a] /\ live[a] \in Installed
        BY <1>3, <4>1 DEF InstallDoc
      <4>. QED
        BY <1>1, <4>2 DEF NotListed
    <3>. QED
      BY <1>2, <3>1, <3>2
  <2>. QED
    BY <2>1, <2>2
<1>. QED
  BY <1>4, <1>5 DEF SyncStep

LEMMA SettledStep ==
  ASSUME InstInv, Settled, Next, UNCHANGED live
  PROVE  Settled'
<1>1. hooks = {} /\ Installed' = Installed /\ (Fits <=> Fits')
  BY DEF Settled, Installed, Fits
<1>2. ~ \E a \in Account : Install(a) \/ Uninstall(a)
  <2>1. ASSUME NEW a \in Account, Install(a)
        PROVE  FALSE
    BY <2>1, InstallationsAssumption DEF Install, InstInv, TypeOK
  <2>2. ASSUME NEW a \in Account, Uninstall(a)
        PROVE  FALSE
    BY <2>2 DEF Uninstall, InstInv, TypeOK
  <2>. QED
    BY <2>1, <2>2
<1>3. CASE \E a \in Tracked : AddPublic(a) \/ RemovePublic(a)
  <2>1. PICK a \in Tracked : docs' = docs \cup {PublicDoc(a)} \/ docs' = docs \ {PublicDoc(a)}
    BY <1>3 DEF AddPublic, RemovePublic
  <2>2. PublicDoc(a).mode = "public"
    BY DEF PublicDoc
  <2>3. Installs' = Installs
    BY <2>1, <2>2 DEF Installs, Public
  <2>4. UNCHANGED <<hooks, pc, seen>>
    BY <1>3 DEF AddPublic, RemovePublic, gitHub, sync
  <2>. QED
    BY <1>1, <2>3, <2>4 DEF Settled, InAgreement
<1>4. ASSUME NEW s \in Syncer, List(s) \/ SyncStep(s) \/ Fail(s)
      PROVE  Settled'
  <2>1. UNCHANGED docs /\ hooks' = {}
    BY <1>1, <1>4, SettledSync DEF List, SyncStep, Upsert, Prune, Fail, gitHub
  <2>2. InAgreement'
    BY <2>1 DEF Settled, InAgreement, Installs, Public
  <2>3. ASSUME NEW q \in Syncer, pc'[q] = "running"
        PROVE  seen'[q] = Installed
    <3>1. CASE List(s)
      <4>1. seen' = [seen EXCEPT ![s] = Installed] /\ pc' = [pc EXCEPT ![s] = "running"]
        BY <3>1 DEF List, Pages, Settled
      <4>. QED
        BY <2>3, <4>1 DEF Settled, InstInv, TypeOK
    <3>2. CASE Stop(s) \/ UNCHANGED <<pc, seen>>
      BY <2>3, <3>2 DEF Stop, Settled, InstInv, TypeOK
    <3>. QED
      BY <1>4, <3>1, <3>2 DEF SyncStep, Upsert, Prune, Fail
  <2>. QED
    BY <1>1, <2>1, <2>2, <2>3 DEF Settled
<1>. QED
  BY <1>1, <1>2, <1>3, <1>4 DEF Next

\* Once the collection agrees with GitHub and a page holds it all, only a change at
\* GitHub ends the agreement.
THEOREM AgreementIsStable == Spec => SettledUntilGitHubChanges
<1>1. InstInv /\ [Next]_vars => [Settled /\ UNCHANGED live => Settled']_vars
  BY SettledStep
<1>. QED
  BY InstInvariant, <1>1, PTL DEF Spec, SettledUntilGitHubChanges
-----------------------------------------------------------------------------

\* Every write but the user's own is by install_id, which a public workspace lacks.
LEMMA PublicStep ==
  ASSUME InstInv, Next, Public' # Public
  PROVE  UNCHANGED <<Installs, gitHub, sync>>
<1>1. \A d \in Public : d.install_id = None
  BY InstallationsAssumption DEF Public, InstInv, TypeOK, InstallDocs, PublicDocs, InstallDoc, PublicDoc
<1>2. None \notin Id
  BY InstallationsAssumption DEF Id
<1>3. ASSUME NEW i \in Id, NEW a \in Account, UpsertById(i, a)
      PROVE  FALSE
  <2>1. InstallDoc(i, a).mode # "public"
    BY InstallationsAssumption DEF InstallDoc
  <2>. QED
    BY <1>1, <1>2, <1>3, <2>1 DEF UpsertById, Public
<1>4. ASSUME NEW h \in hooks, Deliver(h)
      PROVE  FALSE
  <2>1. h.id \in Id /\ h.account \in Account
    BY DEF InstInv, TypeOK, Hook
  <2>2. CASE Remove(h)
    BY <1>1, <1>2, <2>1, <2>2 DEF Remove, Public
  <2>. QED
    BY <1>3, <1>4, <2>1, <2>2 DEF Deliver, Public
<1>5. ASSUME NEW s \in Syncer, Upsert(s)
      PROVE  FALSE
  <2>1. PICK d \in todo[s] : UpsertById(d.install_id, d.account) \/ UNCHANGED docs
    BY <1>5 DEF Upsert
  <2>2. d.install_id \in Id /\ d.account \in Account
    BY DEF InstInv, TypeOK, InstallDocs, InstallDoc
  <2>. QED
    BY <1>3, <2>1, <2>2 DEF Public
<1>6. ASSUME NEW s \in Syncer, Prune(s)
      PROVE  FALSE
  BY <1>1, <1>6 DEF Prune, NotListed, Public
<1>7. CASE \E a \in Tracked : AddPublic(a) \/ RemovePublic(a)
  <2>1. PICK a \in Tracked : docs' = docs \cup {PublicDoc(a)} \/ docs' = docs \ {PublicDoc(a)}
    BY <1>7 DEF AddPublic, RemovePublic
  <2>2. PublicDoc(a).mode = "public"
    BY DEF PublicDoc
  <2>3. Installs' = Installs
    BY <2>1, <2>2 DEF Installs, Public
  <2>. QED
    BY <1>7, <2>3 DEF AddPublic, RemovePublic
<1>8. CASE \/ \E a \in Account : Install(a) \/ Uninstall(a)
           \/ \E h \in hooks : LoseHook(h)
           \/ \E s \in Syncer : List(s) \/ Fail(s)
  BY <1>8 DEF Install, Uninstall, LoseHook, List, Fail, Public
<1>. QED
  BY <1>4, <1>5, <1>6, <1>7, <1>8 DEF Next, SyncStep

\* A sync, a webhook or a change at GitHub never touches a public workspace, however
\* old or short the list is.
THEOREM PublicIsSpared == Spec => SyncSparesPublic
<1>1. InstInv /\ [Next]_vars => [Public' # Public => UNCHANGED <<Installs, gitHub, sync>>]_vars
  BY PublicStep
<1>. QED
  BY InstInvariant, <1>1, PTL DEF Spec, SyncSparesPublic
=============================================================================
