---------------------------- MODULE ToolResults ----------------------------
(***************************************************************************)
(* What the agent's GitHub tools hand back to the model                    *)
(* (app/services/chat_tools.py): a file in windows of lines that the model *)
(* pages through by the hints, while the file may change on GitHub; a list *)
(* slimmed to the fields that matter and, above the cap, cut to the items  *)
(* that fit.  An item is its size in bytes once slimmed; a list has what   *)
(* its JSON needs beside the items as its overhead.                        *)
(***************************************************************************)
EXTENDS Integers, Sequences, SequencesExt, FiniteSets

CONSTANTS
  MaxLines,    \* bound on the length of the file
  MaxSha,      \* bound on its revisions
  Default,     \* _FILE_WINDOW_LINES
  MaxWindow,   \* the largest window
  WindowArgs,  \* the max_lines a model passes
  StartArgs,   \* the start_line a model begins with
  Cap,         \* _MAX_RESPONSE_BYTES
  Slack,       \* what the envelope of a cut list may take
  Sizes,       \* of an item
  MaxItems,    \* bound on a list
  Absent       \* no such parameter, or none that int() accepts

ASSUME ToolAssumption ==
  /\ {MaxLines, MaxSha, Default, MaxWindow, Cap} \subseteq Nat \ {0}
  /\ Slack \in 0..Cap /\ Cap >= 4   \* an empty list is within the cap
  /\ Sizes \subseteq Nat /\ MaxItems \in Nat
  /\ Absent \notin Int
  /\ WindowArgs \cup StartArgs \subseteq Int \cup {Absent}

VARIABLES
  total,   \* lines of the file on GitHub
  sha,     \* its revision
  pages,   \* the windows read so far: [sha, total, first, last, more]
  result   \* what the last list became

toolVars == <<total, sha, pages, result>>

NoResult == [kind |-> "none", sizes |-> << >>, overhead |-> 0, kept |-> 0]

ToolInit == total \in 0..MaxLines /\ sha = 1 /\ pages = << >> /\ result = NoResult

AtLeastOne(n) == IF n < 1 THEN 1 ELSE n
AtMost(bound, n) == IF n > bound THEN bound ELSE n

Start(arg)  == IF arg = Absent THEN 1 ELSE AtLeastOne(arg)
Window(arg) == IF arg = Absent THEN Default ELSE AtMost(MaxWindow, AtLeastOne(arg))

\* _maybe_file_window: the lines first..last; more stands for the hint to go on
\* at last + 1.
Page(start, window) ==
  LET end == AtMost(total, start - 1 + window)
  IN  [sha |-> sha, total |-> total, first |-> start, last |-> end, more |-> end < total]

\* A read at the line where the last window ended.
NextStartOverlapping(page) == page.last

NextStart(page) == page.last + 1

\* github_get of a file, from the start or where the hint of the last window
\* says; every call may ask for another size.
ReadFile ==
  \E arg \in WindowArgs :
    /\ \/ /\ pages = << >>
          /\ \E s \in StartArgs : pages' = <<Page(Start(s), Window(arg))>>
       \/ /\ pages # << >> /\ Last(pages).more
          /\ pages' = Append(pages, Page(Start(NextStart(Last(pages))), Window(arg)))
    /\ UNCHANGED <<total, sha, result>>

\* Somebody pushes a new version of the file.
EditFile ==
  /\ pages # << >> /\ sha < MaxSha
  /\ sha' = sha + 1
  /\ total' \in 0..MaxLines
  /\ UNCHANGED <<pages, result>>

Bytes(overhead, sizes) == FoldLeft(LAMBDA sum, n : sum + n + 2, overhead, sizes)

\* The loop of _truncate that breaks at the first item too many.
KeptOf(overhead, sizes) ==
  LET end == FoldLeft(LAMBDA acc, n : IF acc.full \/ acc.bytes + n + 2 > Cap - Slack
                                      THEN [acc EXCEPT !.full = TRUE]
                                      ELSE [acc EXCEPT !.bytes = @ + n + 2, !.kept = @ + 1],
                      [bytes |-> overhead, kept |-> 0, full |-> FALSE], sizes)
  IN  end.kept

\* An item too many is left out, the smaller ones after it are not.
KeptSkipping(overhead, sizes) ==
  FoldLeft(LAMBDA acc, n : IF acc.bytes + n + 2 > Cap - Slack THEN acc
                           ELSE [bytes |-> acc.bytes + n + 2, kept |-> acc.kept + 1],
           [bytes |-> overhead, kept |-> 0], sizes).kept

\* Whether _truncate finds the items: a bare list (_slim_rest_list of commits,
\* pulls, issues) or the items of a search.  Repositories, bare or of the
\* installation, come from _slim_rest_list under the key "repositories", and
\* semantic_search answers under "results".
Sliceable(shape) == shape \in {"list", "search"}

TruncateBy(kept, shape, overhead, sizes) ==
  [kind |-> IF Bytes(overhead, sizes) <= Cap THEN "whole"
            ELSE IF Sliceable(shape) THEN "slice" ELSE "preview",
   sizes |-> sizes, overhead |-> overhead, kept |-> kept]

\* _truncate that goes on after an item that does not fit.
TruncateSkipping(shape, overhead, sizes) == TruncateBy(KeptSkipping(overhead, sizes), shape, overhead, sizes)

\* _truncate.
Truncate(shape, overhead, sizes) == TruncateBy(KeptOf(overhead, sizes), shape, overhead, sizes)

Lists == SeqOf(Sizes, MaxItems)

\* github_get of a list, github_search, semantic_search.
ReadList ==
  /\ pages = << >> /\ result = NoResult
  /\ \E shape \in {"list", "search", "repositories", "results"}, sizes \in Lists :
       result' = Truncate(shape, IF shape = "list" THEN 2 ELSE 4, sizes)
  /\ UNCHANGED <<total, sha, pages>>

\* The model asks for something else.
Forget ==
  /\ pages # << >> \/ result # NoResult
  /\ pages' = << >> /\ result' = NoResult
  /\ UNCHANGED <<total, sha>>

ToolNext == ReadFile \/ EditFile \/ ReadList \/ Forget

ToolSpec == ToolInit /\ [][ToolNext]_toolVars

-----------------------------------------------------------------------------

\* A model that reads a file by the hints to the end, and sees one sha on all
\* the windows, has read every line of it from where it began, each once and in
\* order, whatever sizes it asked for (_maybe_file_window's docstring).
PagedReadIsTheFile ==
  pages # << >> /\ ~Last(pages).more /\ (\A i \in DOMAIN pages : pages[i].sha = pages[1].sha) =>
    \A n \in pages[1].first..pages[1].total :
      Cardinality({i \in DOMAIN pages : n \in pages[i].first..pages[i].last}) = 1

\* A cut list holds the longest prefix of the items that leaves room for the
\* envelope, so that with the envelope it is within the cap, and no item after
\* one that was left out (_truncate's docstring).
SliceIsHonest ==
  result.kind = "slice" =>
    LET Room(k) == Bytes(result.overhead, SubSeq(result.sizes, 1, k)) <= Cap - Slack IN
    /\ result.kept < Len(result.sizes)
    /\ result.kept > 0 => Room(result.kept)
    /\ ~Room(result.kept + 1)
=============================================================================
