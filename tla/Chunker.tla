------------------------------ MODULE Chunker ------------------------------
(***************************************************************************)
(* app/rag/chunker.py: how a source file or a card of prose is cut into    *)
(* the pieces that are embedded and searched.                              *)
(*                                                                         *)
(* A line is its length, the newline included, so that a line of length 1  *)
(* is blank.  A file is its lines and what tree-sitter finds in them: the  *)
(* named children of the root that have any text, or nothing if there is   *)
(* no parser or the parser fails.  Such a node knows its rows, its length  *)
(* and whether its kind is one of _DEF_HINTS; its symbol is None also for  *)
(* definitions whose name is not found, as functions in C, and two nodes   *)
(* may share a row.  A decorated or exported definition is a node of       *)
(* another kind, and no definition here.  A paragraph of a card is its     *)
(* length.                                                                 *)
(***************************************************************************)
EXTENDS Integers, Sequences, SequencesExt

CONSTANTS
  MaxChars,      \* _MAX_CHUNK_CHARS
  LineWindow,    \* _LINE_WINDOW
  ProseChars,    \* _PROSE_CHARS
  ProseOverlap,  \* _PROSE_OVERLAP
  NoSymbol,
  Raises         \* the TypeError of _merge_tiny

ASSUME ChunkerAssumption ==
  /\ {MaxChars, LineWindow, ProseChars} \subseteq Nat \ {0}
  /\ ProseOverlap \in 0..(ProseChars - 1)

Total(sizes) == FoldLeft(LAMBDA sum, n : sum + n, 0, sizes)
Blank(lines) == \A i \in DOMAIN lines : lines[i] = 1

Least(S) == CHOOSE n \in S : \A m \in S : n <= m

\* A tree of the lines: its nodes follow each other, and the next may begin on
\* the row the last one ends on.  A node that ends with a newline ends on the
\* row behind it.
IsTreeOf(tree, lines) ==
  /\ tree # << >> => ~Blank(lines)
  /\ \A i \in DOMAIN tree :
       /\ 1 <= tree[i].first /\ tree[i].first <= tree[i].last /\ tree[i].last <= Len(lines) + 1
       /\ tree[i].def \/ tree[i].symbol = NoSymbol
  /\ \A i, j \in DOMAIN tree : i < j => tree[i].last <= tree[j].first

\* A chunk is its lines first..last, its length and the symbol it defines.
CodeChunk(first, lines, symbol) ==
  [first |-> first, last |-> first + Len(lines) - 1, size |-> Total(lines), symbol |-> symbol]

\* The window that begins at line i: it is closed by the line that fills it.
WindowEnd(lines, i) ==
  Least({j \in i..Len(lines) :
           \/ j = Len(lines)
           \/ j - i + 1 = LineWindow
           \/ Total(SubSeq(lines, i, j)) >= MaxChars})

\* _chunk_lines: consecutive windows, the blank ones dropped.
ChunkLines(lines) ==
  LET Rest[i \in 1..Len(lines) + 1] ==
        IF i > Len(lines) THEN << >>
        ELSE LET j == WindowEnd(lines, i)
                 window == SubSeq(lines, i, j)
             IN  (IF Blank(window) THEN << >> ELSE <<CodeChunk(i, window, NoSymbol)>>) \o Rest[j + 1]
  IN  Rest[1]

ChunkOf(node) == [first |-> node.first, last |-> node.last, size |-> node.size, symbol |-> node.symbol]

\* A definition above the budget is cut by _split_oversized into bare chunks,
\* where _merge_tiny expects pairs.
Oversized(node) == node.def /\ node.size > MaxChars

Fits(c, d) == c.size + d.size <= MaxChars

Join(c, d, symbol) == [first |-> c.first, last |-> d.last, size |-> c.size + d.size, symbol |-> symbol]

\* Definitions join the gap before them, and the gap them, like any statement.
MergeNodeGreedily(acc, node) ==
  LET c == ChunkOf(node)
      joins == acc.pending # << >> /\ Fits(acc.pending[1], c)
  IN  IF joins
      THEN [acc EXCEPT !.pending = <<Join(@[1], c, IF @[1].symbol = NoSymbol THEN c.symbol ELSE @[1].symbol)>>]
      ELSE [merged |-> acc.merged \o acc.pending, pending |-> <<c>>]

\* One turn of _merge_tiny's loop: pending is the gap of statements that waits
\* for a chunk to join.
MergeNode(acc, node) ==
  LET c == ChunkOf(node)
      joins == acc.pending # << >> /\ Fits(acc.pending[1], c)
  IN  CASE node.def /\ joins ->
             [merged |-> Append(acc.merged, Join(acc.pending[1], c, c.symbol)), pending |-> << >>]
        [] node.def /\ ~joins -> [merged |-> acc.merged \o acc.pending \o <<c>>, pending |-> << >>]
        [] ~node.def /\ joins -> [acc EXCEPT !.pending = <<Join(@[1], c, NoSymbol)>>]
        [] OTHER -> [merged |-> acc.merged \o acc.pending, pending |-> <<c>>]

\* The gap after the last definition is forgotten.
MergeTinyUnflushed(nodes) ==
  FoldLeft(MergeNode, [merged |-> << >>, pending |-> << >>], nodes).merged

\* _merge_tiny.
MergeTiny(nodes) ==
  LET end == FoldLeft(MergeNode, [merged |-> << >>, pending |-> << >>], nodes)
  IN  end.merged \o end.pending

\* chunk_code.
ChunkCode(file) ==
  CASE Blank(file.lines) -> << >>
    [] ~Blank(file.lines) /\ file.tree = << >> -> ChunkLines(file.lines)
    [] OTHER -> IF \E i \in DOMAIN file.tree : Oversized(file.tree[i]) THEN Raises ELSE MergeTiny(file.tree)

\* chunk_prose's units: a paragraph, or overlapping pieces of a long one.
Units(n) ==
  LET Rest[i \in 0..n + ProseChars] ==
        IF i >= n THEN << >>
        ELSE <<IF n - i < ProseChars THEN n - i ELSE ProseChars>> \o Rest[i + ProseChars - ProseOverlap]
  IN  IF n <= ProseChars THEN <<n>> ELSE Rest[0]

\* One unit packed: a buffer that would overflow becomes a chunk, and its tail
\* is carried into the next one.
Pack(acc, u) ==
  IF acc.buf > 0 /\ acc.buf + u + 2 > ProseChars
  THEN [out |-> Append(acc.out, acc.buf),
        buf |-> IF ProseOverlap = 0 THEN u
                ELSE (IF acc.buf < ProseOverlap THEN acc.buf ELSE ProseOverlap) + 2 + u]
  ELSE [acc EXCEPT !.buf = IF @ = 0 THEN u ELSE @ + 2 + u]

\* chunk_prose: chunks have a length and nothing else.
ChunkProse(paras) ==
  LET units == FlattenSeq([i \in DOMAIN paras |-> Units(paras[i])])
      end == FoldLeft(Pack, [out |-> << >>, buf |-> 0], units)
      sizes == IF end.buf > 0 THEN Append(end.out, end.buf) ELSE end.out
  IN  [i \in DOMAIN sizes |-> [size |-> sizes[i]]]
=============================================================================
