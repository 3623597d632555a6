----------------------------- MODULE UserMemory -----------------------------
(***************************************************************************)
(* The facts the agent remembers about a user in a workspace, across chats *)
(* (app/services/user_memory.py).  A fact is added by reading the list and *)
(* writing it back whole, in two calls to the store, so that calls of the  *)
(* tool `remember` in one round, or in two chats, overlap.  Nothing in     *)
(* src/ calls the operations that forget; they are one call each.          *)
(***************************************************************************)
EXTENDS Naturals, Sequences, SequencesExt

CONSTANTS
  Text,        \* what is remembered, as it is after strip and cut
  Folded,      \* Text by lower case: a sequence of sets of equal texts
  Ragged,      \* texts whose cut at MAX_ENTRY_CHARS left a blank at the end
  Adder,       \* calls of add_memory under way at once
  MaxEntries,  \* MAX_ENTRIES
  MaxAdds      \* bound on calls of add_memory

ASSUME UserMemoryAssumption ==
  /\ Ragged \subseteq Text /\ UNION ToSet(Folded) = Text
  /\ MaxEntries \in Nat \ {0} /\ MaxAdds \in Nat

VARIABLES
  entries,   \* the document's list: [id, text], newest first
  adding,    \* [Adder -> what it adds, and the list as it has read it, or Idle]
  lastId     \* uuids given out so far

memoryVars == <<entries, adding, lastId>>

Idle == [text |-> "none"]

MemoryInit ==
  /\ entries = <<>>
  /\ adding = [a \in Adder |-> Idle]
  /\ lastId = 0

Alike(t, u) == \E i \in DOMAIN Folded : {t, u} \subseteq Folded[i]

\* The entry is stripped before the comparison and the new text is not, so one
\* whose cut ends in a blank is like no entry, not even its own.
Known(read, t) == t \notin Ragged /\ \E i \in DOMAIN read : Alike(read[i].text, t)

\* get_memories.
ReadMemories(a, t) ==
  /\ adding[a] = Idle /\ lastId < MaxAdds
  /\ adding' = [adding EXCEPT ![a] = [text |-> t, id |-> lastId + 1, read |-> entries]]
  /\ lastId' = lastId + 1
  /\ UNCHANGED entries

FirstN(s, n) == SubSeq(s, 1, IF Len(s) < n THEN Len(s) ELSE n)

\* A push of the one entry, which undoes no other's.
PushedEntries(entry, read) == FirstN(<<entry>> \o entries, MaxEntries)

NewEntries(entry, read) == FirstN(<<entry>> \o read, MaxEntries)

\* The list is written over, unless the fact is known.
WriteMemories(a) ==
  /\ adding[a] # Idle
  /\ entries' = IF Known(adding[a].read, adding[a].text) THEN entries
                ELSE NewEntries([id |-> adding[a].id, text |-> adding[a].text], adding[a].read)
  /\ adding' = [adding EXCEPT ![a] = Idle]
  /\ UNCHANGED lastId

\* $pull of the entry with an id; no other has it.
DeleteMemory(i) ==
  /\ i \in DOMAIN entries
  /\ entries' = RemoveAt(entries, i)
  /\ UNCHANGED <<adding, lastId>>

ClearMemories ==
  /\ entries # <<>> /\ entries' = <<>>
  /\ UNCHANGED <<adding, lastId>>

MemoryNext ==
  \/ \E a \in Adder : WriteMemories(a) \/ \E t \in Text : ReadMemories(a, t)
  \/ \E i \in 1..MaxEntries : DeleteMemory(i)
  \/ ClearMemories

MemorySpec == MemoryInit /\ [][MemoryNext]_memoryVars

-----------------------------------------------------------------------------

\* However calls overlap, and whatever is forgotten meanwhile, no fact is in the
\* prompt twice and the list is within its cap: a writer puts back a list that
\* had no duplicates with a fact that was not in it.  What overlapping costs is
\* facts: the list of the last writer is the one kept.
FactsAreDistinct ==
  /\ Len(entries) <= MaxEntries
  /\ \A i, j \in DOMAIN entries :
       i # j => /\ entries[i].id # entries[j].id
                /\ \/ ~ Alike(entries[i].text, entries[j].text)
                   \/ {entries[i].text, entries[j].text} \cap Ragged # {}
=============================================================================
