---------------------------- MODULE HybridSearch ----------------------------
(***************************************************************************)
(* hybrid_search of app/rag/retriever.py, over the store of app/rag/store  *)
(* and the embedders of app/rag/embeddings: the vector pass, the pool for  *)
(* the keyword ranking, and the fusion of the two.  Each is a call in a    *)
(* thread of its own, between which the index may change.  What the two    *)
(* rankings look like is the models' business: any order is possible.      *)
(***************************************************************************)
EXTENDS Integers, Sequences, SequencesExt, FiniteSets, FiniteSetsExt

CONSTANTS
  Point,      \* ids of the store
  TenantOf,   \* [Point -> tenant]
  RepoOf,     \* [Point -> repository]
  KindOf,     \* [Point -> "code" or "prose"]
  MatchOf,    \* [Point -> what of the query its metadata has: "symbol", "path", "none"]
  AnyRepo,    \* no repo given
  AutoOrder,  \* _AUTO_ORDER
  NoProvider,
  TopK,       \* k
  HitLimit,   \* max(4 * top_k, _CANDIDATE_POOL // 4)
  PoolLimit   \* _CANDIDATE_POOL

ASSUME SearchAssumption ==
  /\ IsFiniteSet(Point)
  /\ {TopK, HitLimit, PoolLimit} \subseteq Nat \ {0} /\ TopK <= HitLimit

VARIABLES
  present,   \* the points in the store
  setting,   \* [kind -> "none", "auto" or a provider]: EMBED_..._PROVIDER
  usable,    \* the providers with a key and their library
  search,    \* "idle", "vectors", "pool", "rank", "done"
  query,     \* [tenant, repo, kind] of the search in hand
  hits,      \* vec_hits, best first
  ranks,     \* bm25_ranks, best first
  found      \* the result

searchVars == <<present, setting, usable, search, query, hits, ranks, found>>

NoQuery == [tenant |-> 0, repo |-> AnyRepo, kind |-> "any"]

SearchInit ==
  /\ present \in SUBSET Point
  /\ setting \in [{"code", "prose"} -> {"none", "auto"} \cup Range(AutoOrder)]
  /\ usable \in SUBSET Range(AutoOrder)
  /\ search = "idle" /\ query = NoQuery /\ hits = << >> /\ ranks = << >> /\ found = << >>

\* The filter every backend applies: its tenant, and what the query names.
Matching ==
  {p \in present :
     /\ TenantOf[p] = query.tenant
     /\ query.repo \in {AnyRepo, RepoOf[p]}
     /\ query.kind \in {"any", KindOf[p]}}

\* The rankings of up to limit points of a set, as many as there are.
Rankings(S, limit) ==
  UNION {{r \in [1..Cardinality(T) -> T] : IsInjective(r)} :
           T \in kSubset(IF Cardinality(S) < limit THEN Cardinality(S) ELSE limit, S)}

\* A provider is usable when it has its key and its library.
Available(p) == p \in usable

\* get_embedder: the provider of a kind of content.
Embedder(kind) ==
  LET candidates == SelectSeq(AutoOrder, LAMBDA p : Available(p) /\ setting[kind] \in {"auto", p})
  IN  IF candidates = << >> THEN NoProvider ELSE candidates[1]

\* The provider that embeds the query, of the other kind if there is none.
QueryEmbedder(asked) ==
  LET preferred == Embedder(IF asked = "code" THEN "code" ELSE "prose")
      others == SelectSeq(<<preferred, Embedder("prose"), Embedder("code")>>, LAMBDA p : p # NoProvider)
  IN  IF others = << >> THEN NoProvider ELSE others[1]

\* Without a provider the search ends empty; so it does when the query does not
\* embed or the store does not open.
AskQuery(q) ==
  /\ search = "idle"
  /\ query' = q
  /\ \/ QueryEmbedder(q.kind) # NoProvider /\ search' = "vectors"
     \/ search' = "done"
  /\ UNCHANGED <<present, setting, usable, hits, ranks, found>>

\* Vectors of two models have different dimensions, and a store that meets both
\* raises.
Comparable == \A p \in Matching : Embedder(KindOf[p]) = QueryEmbedder(query.kind)

\* store.query; a failure leaves no hits.
VectorHits == (IF Comparable THEN Rankings(Matching, HitLimit) ELSE {}) \cup {<< >>}

VectorPass ==
  /\ search = "vectors"
  /\ hits' \in VectorHits
  /\ search' = "pool"
  /\ UNCHANGED <<present, setting, usable, query, ranks, found>>

AllDocs == Rankings(Matching, PoolLimit)

\* _candidate_pool: documents of the store, or the hits when it has no all_docs
\* or the call fails.
Pools == AllDocs \cup {hits}

\* _bm25_rank, of the hits when the pool is empty; no ranking without the library.
KeywordPass ==
  /\ search = "pool"
  /\ \E pool \in Pools :
       IF pool = << >> /\ hits = << >>
       THEN search' = "done" /\ UNCHANGED ranks
       ELSE /\ search' = "rank"
            /\ ranks' \in Rankings(ToSet(IF pool = << >> THEN hits ELSE pool), PoolLimit) \cup {<< >>}
  /\ UNCHANGED <<present, setting, usable, query, hits, found>>

Ranked == ToSet(hits) \cup ToSet(ranks)
RankIn(r, p) == (CHOOSE i \in DOMAIN r : r[i] = p) - 1

\* Reciprocal ranks without the damping constant.
RrfUndamped(rank) == 1000000 \div (1 + rank)

\* _rrf, in millionths.
Rrf(rank) == 1000000 \div (60 + rank)

Boost(p) == CASE MatchOf[p] = "symbol" -> 500000 [] MatchOf[p] = "path" -> 150000 [] OTHER -> 0

Score(p) ==
  (IF p \in ToSet(hits) THEN Rrf(RankIn(hits, p)) ELSE 0)
    + (IF p \in ToSet(ranks) THEN Rrf(RankIn(ranks, p)) ELSE 0)
    + Boost(p)

\* The order in which the fused dict came to be: hits, then the rest.
Inserted(p) == IF p \in ToSet(hits) THEN RankIn(hits, p) ELSE Len(hits) + RankIn(ranks, p)

Before(p, q) == Score(p) > Score(q) \/ (Score(p) = Score(q) /\ Inserted(p) < Inserted(q))

Fuses(r) == ToSet(r) = Ranked /\ \A i, j \in DOMAIN r : i < j => Before(r[i], r[j])

Fused == CHOOSE r \in [1..Cardinality(Ranked) -> Ranked] : Fuses(r)

FirstK(s) == SubSeq(s, 1, IF Len(s) < TopK THEN Len(s) ELSE TopK)

Fuse ==
  /\ search = "rank"
  /\ found' = FirstK(Fused)
  /\ search' = "done"
  /\ UNCHANGED <<present, setting, usable, query, hits, ranks>>

\* The index tick stores a point, or an uninstall removes the tenant's.
Upserted(p) == p \notin present /\ present' = present \cup {p}

Reindex ==
  /\ search \in {"vectors", "pool"}
  /\ \/ \E p \in Point : Upserted(p)
     \/ present' = present \ {p \in present : TenantOf[p] = query.tenant}
  /\ UNCHANGED <<setting, usable, search, query, hits, ranks, found>>

SearchNext ==
  \/ \E t \in Range(TenantOf), r \in {AnyRepo} \cup Range(RepoOf), k \in {"any", "code", "prose"} :
       AskQuery([tenant |-> t, repo |-> r, kind |-> k])
  \/ VectorPass \/ KeywordPass \/ Fuse \/ Reindex

SearchSpec == SearchInit /\ [][SearchNext]_searchVars

-----------------------------------------------------------------------------

Class(p) == CASE MatchOf[p] = "symbol" -> 2 [] MatchOf[p] = "path" -> 1 [] OTHER -> 0

\* p is nowhere behind q: where q is ranked, p is ranked before it.
Ahead(p, q) ==
  \A r \in {hits, ranks} : q \in ToSet(r) => p \in ToSet(r) /\ RankIn(r, p) < RankIn(r, q)

\* The fusion keeps what both rankings agree on, and a match of the symbol
\* outweighs any rank, as a match of the path outweighs none: of two points one
\* of which is of a better class, or of the same class and ahead in both
\* rankings, the other is never first, and never there alone (hybrid_search's
\* "strong: exact symbol hit", "weaker: path token overlap").
FusionRespectsRanks ==
  /\ IsInjective(found)
  /\ \A p \in Ranked, q \in ToSet(found) :
       Class(p) > Class(q) \/ (Class(p) = Class(q) /\ p # q /\ Ahead(p, q)) =>
         p \in ToSet(found) /\ RankIn(found, p) < RankIn(found, q)
=============================================================================
