----------------------------- MODULE IndexFile -----------------------------
(***************************************************************************)
(* What becomes of one document of a repository when it is indexed, and    *)
(* indexed again after an edit: it is cut into chunks (module Chunker),    *)
(* which _embed_and_upsert of app/rag/ingest.py embeds and stores batch by *)
(* batch, each under the id _chunk_id gives it.  Tenant, repository and    *)
(* path are fixed; module RagIndex has the tick around it.                 *)
(***************************************************************************)
EXTENDS Chunker, FiniteSets

CONSTANTS
  Sources,      \* source files: records [lines, tree]
  Edits(_),     \* what a file may have become by the next tick
  Paragraphs,   \* lengths of the paragraphs of a card
  MaxParas,     \* bound on a card
  EmbedBatch,   \* rag_embed_batch
  MaxRevision,  \* bound on the revisions of the document
  NoDoc

VARIABLES
  doc,       \* the document in hand
  revision,  \* how often it was changed
  stage,     \* "idle", "embed", or "raised": the exception of chunk_code
  chunks,    \* the chunks of the document in hand
  at,        \* those already passed to the embedder
  lost,      \* those that were not stored
  points     \* the store: id -> [chunk, revision]

indexVars == <<doc, revision, stage, chunks, at, lost, points>>

Code(file) == [kind |-> "code", lines |-> file.lines, tree |-> file.tree]
Card(paras) == [kind |-> "prose", paras |-> paras]

Documents == {Code(file) : file \in Sources} \cup {Card(paras) : paras \in SeqOf(Paragraphs, MaxParas)}

Symbols == {NoSymbol} \cup UNION {{file.tree[i].symbol : i \in DOMAIN file.tree} : file \in Sources}

TreeNode == [first : Nat, last : Nat, size : Nat, def : BOOLEAN, symbol : Symbols]

ASSUME IndexAssumption ==
  /\ Sources \subseteq [lines : Seq(Nat \ {0}), tree : Seq(TreeNode)]
  /\ \A file \in Sources : IsTreeOf(file.tree, file.lines) /\ Edits(file) \subseteq Sources
  /\ EmbedBatch \in Nat \ {0}
  /\ NoDoc \notin Documents

NoPoint == [id \in {} |-> 0]

IndexInit ==
  /\ doc = NoDoc /\ revision = 0 /\ stage = "idle" /\ chunks = << >> /\ at = 0 /\ lost = {}
  /\ points = NoPoint

\* The id of a code chunk without its line.
IdWithoutLine(chunk, ordinal) ==
  IF doc.kind = "prose" THEN <<0, "card", 0>>
  ELSE <<0, chunk.symbol, IF chunk.symbol = NoSymbol THEN ordinal ELSE 0>>

\* _chunk_id.  All chunks of a card carry its symbol and no line.
Id(chunk, ordinal) ==
  IF doc.kind = "prose" THEN <<0, "card", 0>>
  ELSE <<chunk.first, chunk.symbol, IF chunk.symbol = NoSymbol THEN ordinal ELSE 0>>

ChunksOf(d) == IF d.kind = "code" THEN ChunkCode(d) ELSE ChunkProse(d.paras)

\* index_repo and index_prose hand a document over.  The exception of chunk_code
\* leaves the loop over the files of the repository.
Submit(d) ==
  /\ stage = "idle" /\ revision < MaxRevision
  /\ doc' = d /\ revision' = revision + 1
  /\ IF ChunksOf(d) = Raises
     THEN stage' = "raised" /\ chunks' = << >>
     ELSE stage' = "embed" /\ chunks' = ChunksOf(d)
  /\ at' = 0 /\ lost' = {}
  /\ UNCHANGED points

Edit == \E file \in Edits([lines |-> doc.lines, tree |-> doc.tree]) : Submit(Code(file))

BatchOf == (at + 1)..(IF at + EmbedBatch < Len(chunks) THEN at + EmbedBatch ELSE Len(chunks))

\* store.upsert of one chunk, which replaces the one with its id.
Upsert(pts, j) ==
  LET id == Id(chunks[j], j)
  IN  [i \in DOMAIN pts \cup {id} |->
         IF i = id THEN [chunk |-> chunks[j], revision |-> revision] ELSE pts[i]]

\* embed and store.upsert: within a batch the later chunk wins.
StoreBatch ==
  /\ stage = "embed" /\ at < Len(chunks)
  /\ points' = FoldLeft(Upsert, points, [k \in 1..Cardinality(BatchOf) |-> at + k])
  /\ at' = at + EmbedBatch
  /\ UNCHANGED <<doc, revision, stage, chunks, lost>>

\* The provider or the store fails, or returns too few vectors: the loop goes on
\* with the next batch.
PassOverBatch ==
  /\ stage = "embed" /\ at < Len(chunks)
  /\ lost' = lost \cup BatchOf
  /\ at' = at + EmbedBatch
  /\ UNCHANGED <<doc, revision, stage, chunks, points>>

\* The last batch is done, or the budget is exhausted before one.
EndDocument ==
  /\ stage = "embed"
  /\ stage' = "idle"
  /\ lost' = lost \cup {j \in DOMAIN chunks : j > at}
  /\ UNCHANGED <<doc, revision, chunks, at, points>>

IndexNext ==
  \/ doc = NoDoc /\ \E d \in Documents : Submit(d)
  \/ doc # NoDoc /\ doc.kind = "code" /\ Edit
  \/ StoreBatch
  \/ PassOverBatch
  \/ EndDocument

IndexSpec == IndexInit /\ [][IndexNext]_indexVars

-----------------------------------------------------------------------------

CodeCut == doc # NoDoc /\ doc.kind = "code" /\ stage # "raised"

Holding(line) == {j \in DOMAIN chunks : line \in chunks[j].first..chunks[j].last}

\* Every top-level node of a source file is whole in one of its chunks, and where
\* there is no tree every line that is not blank is in exactly one; the chunks
\* follow each other, so that two of them share a row at most, where one ends and
\* the other begins: nothing is lost on either way (app/rag/chunker.py).
LinesCovered ==
  CodeCut =>
    /\ \A i \in DOMAIN doc.tree : \E j \in DOMAIN chunks :
         chunks[j].first <= doc.tree[i].first /\ doc.tree[i].last <= chunks[j].last
    /\ doc.tree = << >> => \A n \in DOMAIN doc.lines : doc.lines[n] > 1 => Cardinality(Holding(n)) = 1
    /\ \A j, k \in DOMAIN chunks : j < k => chunks[j].last <= chunks[k].first

\* The chunks of a parsed file are its nodes in runs, and every definition ends its
\* run, with a symbol or without: a chunk holds one at most, to its last line and
\* under its symbol, with no more than the statements before it (_merge_tiny's
\* docstring; a decorated or exported definition is no definition to the code).
DefinitionsStandAlone ==
  CodeCut /\ doc.tree # << >> =>
    \E last \in [DOMAIN chunks -> DOMAIN doc.tree] :
      /\ \A j, k \in DOMAIN chunks : j < k => last[j] < last[k]
      /\ \A i \in DOMAIN doc.tree : doc.tree[i].def => \E j \in DOMAIN chunks : last[j] = i
      /\ \A j \in DOMAIN chunks :
           /\ chunks[j].first = doc.tree[IF j = 1 THEN 1 ELSE last[j - 1] + 1].first
           /\ chunks[j].last = doc.tree[last[j]].last
           /\ chunks[j].symbol = doc.tree[last[j]].symbol

\* Another chunk begins on the same line under the same symbol.
HasNamesake(j) ==
  /\ chunks[j].symbol # NoSymbol
  /\ \E k \in DOMAIN chunks \ {j} : chunks[k].first = chunks[j].first /\ chunks[k].symbol = chunks[j].symbol

\* After a file was indexed, for the first time or again, every one of its chunks
\* that was not passed over is in the store as it is in this revision, unless it has
\* a namesake: no two of them share an id, and what an earlier revision left under
\* it is overwritten.  That is all of "re-indexing the same symbol
\* overwrites in place" (_chunk_id's docstring) that holds: the id has the line, so
\* a definition that moved leaves its old chunk behind.
StoredUnlessLost ==
  CodeCut /\ stage = "idle" =>
    \A j \in DOMAIN chunks \ lost :
      /\ Id(chunks[j], j) \in DOMAIN points
      /\ ~HasNamesake(j) => points[Id(chunks[j], j)] = [chunk |-> chunks[j], revision |-> revision]

\* "This module NEVER raises" (app/rag/chunker.py:12-13).
NeverRaises == stage # "raised"
=============================================================================
