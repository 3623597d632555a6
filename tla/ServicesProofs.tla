--------------------------- MODULE ServicesProofs ---------------------------
(***************************************************************************)
(* Proofs about the parts that share no state (MCServices): the user's     *)
(* facts, what the tools hand back, the cached reports, the pull request   *)
(* counts and the hybrid search.  Each theorem is about the part's own      *)
(* specification.                                                          *)
(***************************************************************************)
EXTENDS UserMemory, ToolResults, Analytics, RepoList, HybridSearch,
        FoldProofs, SequenceTheorems, TLAPS

-----------------------------------------------------------------------------
(* The user's facts (UserMemory).                                          *)

Entry == [id : Nat, text : Text]

\* Two entries of a list are told apart.
Apart(d, e) == d.id # e.id /\ (~ Alike(d.text, e.text) \/ {d.text, e.text} \cap Ragged # {})

Distinct(s) == \A i, j \in DOMAIN s : i # j => Apart(s[i], s[j])

\* A list that may be stored: its ids have been given out.
Sound(s) ==
  /\ s \in Seq(Entry) /\ Len(s) <= MaxEntries /\ Distinct(s)
  /\ \A i \in DOMAIN s : s[i].id <= lastId

\* A call under way holds a sound list, which the entry it may add is not in.
Ready(a) ==
  /\ adding[a].text \in Text
  /\ adding[a].id \in Nat /\ adding[a].id <= lastId
  /\ Sound(adding[a].read)
  /\ \A i \in DOMAIN adding[a].read : adding[a].read[i].id # adding[a].id

MemoryInv ==
  /\ lastId \in Nat
  /\ adding = [a \in Adder |-> adding[a]]
  /\ Sound(entries)
  /\ \A a \in Adder : adding[a] # Idle => Ready(a)

-----------------------------------------------------------------------------

LEMMA EmptySound == Sound(<<>>)
BY UserMemoryAssumption DEF Sound, Distinct

LEMMA InitMemoryInv == MemoryInit => MemoryInv
BY EmptySound DEF MemoryInit, MemoryInv, Idle

\* $pull.
LEMMA RemoveSound ==
  ASSUME NEW s, Sound(s), NEW n \in DOMAIN s, lastId \in Nat
  PROVE  Sound(RemoveAt(s, n))
<1> DEFINE t == RemoveAt(s, n)
           f == [i \in 1..Len(t) |-> IF i < n THEN i ELSE i + 1]
<1>1. s \in Seq(Entry) /\ n \in 1..Len(s) /\ Len(s) \in Nat
  BY LenProperties DEF Sound
<1>2. /\ t \in Seq(Entry) /\ Len(t) = Len(s) - 1
      /\ \A i \in 1..Len(t) : t[i] = IF i < n THEN s[i] ELSE s[i + 1]
  <2> DEFINE front == SubSeq(s, 1, n - 1)
             back == SubSeq(s, n + 1, Len(s))
  <2>1. front \in Seq(Entry) /\ Len(front) = n - 1 /\ \A i \in 1..(n - 1) : front[i] = s[i]
    BY <1>1
  <2>2. back \in Seq(Entry) /\ Len(back) = Len(s) - n /\ \A i \in 1..(Len(s) - n) : back[i] = s[n + i]
    BY <1>1
  <2>3. t = front \o back
    BY DEF RemoveAt
  <2> HIDE DEF front, back, t
  <2>4. t \in Seq(Entry) /\ Len(t) = Len(s) - 1
    BY <1>1, <2>1, <2>2, <2>3
  <2>5. ASSUME NEW i \in 1..Len(t), i < n
        PROVE  t[i] = s[i]
    <3>1. i \in 1..Len(front)
      BY <1>1, <2>1, <2>5
    <3>2. t[i] = front[i]
      BY <2>1, <2>2, <2>3, <3>1
    <3>. QED
      BY <2>1, <3>1, <3>2
  <2>6. ASSUME NEW i \in 1..Len(t), ~ (i < n)
        PROVE  t[i] = s[i + 1]
    <3>1. i \in (Len(front) + 1)..(Len(front) + Len(back)) /\ i - Len(front) \in 1..(Len(s) - n)
          /\ n + (i - Len(front)) = i + 1
      BY <1>1, <2>1, <2>2, <2>4, <2>6
    <3>2. i \in 1..(Len(front) + Len(back)) /\ ~ (i <= Len(front))
      BY <2>1, <2>2, <3>1
    <3>3. t[i] = back[i - Len(front)]
      BY <2>1, <2>2, <2>3, <3>2, ConcatProperties
    <3>4. back[i - Len(front)] = s[n + (i - Len(front))]
      BY <2>2, <3>1
    <3>. QED
      BY <3>1, <3>3, <3>4
  <2>. QED
    BY <2>4, <2>5, <2>6
<1> HIDE DEF t
<1>3. f \in [1..Len(t) -> 1..Len(s)]
  BY <1>1, <1>2
<1>4. \A i \in 1..Len(t) : t[i] = s[f[i]]
  BY <1>1, <1>2
<1>5. \A i, j \in 1..Len(t) : i # j => f[i] # f[j]
  BY <1>1, <1>2
<1> HIDE DEF f
<1>6. DOMAIN t = 1..Len(t) /\ DOMAIN s = 1..Len(s) /\ Len(t) <= MaxEntries
  BY <1>1, <1>2, UserMemoryAssumption DEF Sound
<1>7. Distinct(t)
  BY <1>3, <1>4, <1>5, <1>6 DEF Sound, Distinct
<1>8. \A i \in DOMAIN t : t[i].id <= lastId
  BY <1>3, <1>4, <1>6 DEF Sound
<1>9. Sound(t)
  BY <1>2, <1>6, <1>7, <1>8 DEF Sound
<1>. QED
  BY <1>9 DEF t

\* A fact that is not known is put before the others, and the list is cut.
LEMMA AddSound ==
  ASSUME NEW s, Sound(s), NEW e \in Entry, lastId \in Nat, e.id <= lastId,
         \A i \in DOMAIN s : s[i].id # e.id, ~ Known(s, e.text)
  PROVE  Sound(NewEntries(e, s))
<1> DEFINE all == <<e>> \o s
           n == IF Len(all) < MaxEntries THEN Len(all) ELSE MaxEntries
           t == SubSeq(all, 1, n)
<1>1. s \in Seq(Entry) /\ Len(s) \in Nat /\ MaxEntries \in Nat
  BY LenProperties, UserMemoryAssumption DEF Sound
<1>2. /\ all \in Seq(Entry) /\ Len(all) = Len(s) + 1 /\ all[1] = e
      /\ \A i \in 2..Len(all) : all[i] = s[i - 1]
  BY <1>1
<1> HIDE DEF all
<1>3. n \in Nat /\ n <= Len(all) /\ n <= MaxEntries
  BY <1>1, <1>2
<1> HIDE DEF n
<1>4. t \in Seq(Entry) /\ Len(t) = n /\ \A i \in 1..n : t[i] = all[i]
  BY <1>2, <1>3
<1> HIDE DEF t
<1>5. \A i \in DOMAIN s : Apart(e, s[i]) /\ Apart(s[i], e)
  BY DEF Known, Apart, Alike
<1>6. ASSUME NEW i \in 1..n, NEW j \in 1..n, i # j
      PROVE  Apart(t[i], t[j])
  <2>1. CASE i = 1
    <3>1. t[i] = e /\ t[j] = s[j - 1] /\ j - 1 \in DOMAIN s
      BY <1>1, <1>2, <1>3, <1>4, <1>6, <2>1
    <3>. QED
      BY <1>5, <3>1
  <2>2. CASE j = 1
    <3>1. t[j] = e /\ t[i] = s[i - 1] /\ i - 1 \in DOMAIN s
      BY <1>1, <1>2, <1>3, <1>4, <1>6, <2>2
    <3>. QED
      BY <1>5, <3>1
  <2>3. CASE i # 1 /\ j # 1
    <3>1. /\ t[i] = s[i - 1] /\ i - 1 \in DOMAIN s
          /\ t[j] = s[j - 1] /\ j - 1 \in DOMAIN s /\ i - 1 # j - 1
      BY <1>1, <1>2, <1>3, <1>4, <1>6, <2>3
    <3>. QED
      BY <3>1 DEF Sound, Distinct
  <2>. QED
    BY <2>1, <2>2, <2>3
<1>7. ASSUME NEW i \in 1..n
      PROVE  t[i].id <= lastId
  <2>1. t[i] = e \/ \E j \in DOMAIN s : t[i] = s[j]
    <3>1. CASE i = 1
      BY <1>2, <1>4, <3>1
    <3>2. CASE i # 1
      <4>1. t[i] = s[i - 1] /\ i - 1 \in DOMAIN s
        BY <1>1, <1>2, <1>3, <1>4, <1>7, <3>2
      <4>. QED
        BY <4>1
    <3>. QED
      BY <3>1, <3>2
  <2>. QED
    BY <2>1 DEF Sound
<1>8. DOMAIN t = 1..n
  BY <1>4
<1>9. Sound(t)
  BY <1>3, <1>4, <1>6, <1>7, <1>8 DEF Sound, Distinct
<1>. QED
  BY <1>9 DEF NewEntries, FirstN, t, n, all

-----------------------------------------------------------------------------

LEMMA SoundIds ==
  ASSUME NEW s, Sound(s), NEW i \in DOMAIN s
  PROVE  s[i].id \in Nat
<1>1. s \in Seq(Entry) /\ i \in 1..Len(s)
  BY LenProperties DEF Sound
<1>2. s[i] \in Entry
  BY <1>1, ElementOfSeq
<1>. QED
  BY <1>2 DEF Entry

\* A list stays sound when ids are given out.
LEMMA SoundLater ==
  ASSUME NEW s, Sound(s), lastId \in Nat, lastId' \in Nat, lastId <= lastId'
  PROVE  /\ s \in Seq(Entry) /\ Len(s) <= MaxEntries /\ Distinct(s)
         /\ \A i \in DOMAIN s : s[i].id <= lastId'
<1>1. \A i \in DOMAIN s : s[i].id \in Nat /\ s[i].id <= lastId
  BY SoundIds DEF Sound
<1>. QED
  BY <1>1 DEF Sound

LEMMA NextMemoryInv ==
  ASSUME MemoryInv, [MemoryNext]_memoryVars
  PROVE  MemoryInv'
<1> USE DEF MemoryInv
<1>1. ASSUME NEW a \in Adder, NEW t \in Text, ReadMemories(a, t)
      PROVE  MemoryInv'
  <2>1. lastId' = lastId + 1 /\ lastId' \in Nat /\ UNCHANGED entries
    BY <1>1 DEF ReadMemories
  <2>2. adding' = [adding EXCEPT ![a] = [text |-> t, id |-> lastId + 1, read |-> entries]]
    BY <1>1 DEF ReadMemories
  <2>3. Sound(entries)'
    BY <2>1, SoundLater DEF Sound
  <2>4. ASSUME NEW b \in Adder, adding'[b] # Idle
        PROVE  Ready(b)'
    <3>1. CASE b = a
      <4>1. adding'[b] = [text |-> t, id |-> lastId + 1, read |-> entries]
        BY <2>2, <3>1
      <4>2. \A i \in DOMAIN entries : entries[i].id \in Nat /\ entries[i].id <= lastId
        BY SoundIds DEF Sound
      <4>3. Sound(adding[b].read)'
        BY <2>1, <2>3, <4>1
      <4>. QED
        BY <2>1, <4>1, <4>2, <4>3 DEF Ready
    <3>2. CASE b # a
      <4>1. adding'[b] = adding[b] /\ Ready(b)
        BY <2>2, <2>4, <3>2
      <4>2. Sound(adding[b].read)'
        BY <2>1, <4>1, SoundLater DEF Ready, Sound
      <4>. QED
        BY <2>1, <4>1, <4>2 DEF Ready
    <3>. QED
      BY <3>1, <3>2
  <2>. QED
    BY <2>1, <2>2, <2>3, <2>4
<1>2. ASSUME UNCHANGED lastId,
             \A b \in Adder : adding'[b] \in {Idle, adding[b]},
             adding' = [b \in Adder |-> adding'[b]]
      PROVE  \A b \in Adder : adding'[b] # Idle => Ready(b)'
  <2> SUFFICES ASSUME NEW b \in Adder, adding'[b] # Idle PROVE Ready(b)'
    OBVIOUS
  <2>1. adding'[b] = adding[b] /\ Ready(b)
    BY <1>2
  <2>2. Sound(adding[b].read)'
    BY <1>2, <2>1 DEF Ready, Sound
  <2>. QED
    BY <1>2, <2>1, <2>2 DEF Ready
<1>3. ASSUME NEW a \in Adder, WriteMemories(a)
      PROVE  MemoryInv'
  <2>1. Ready(a) /\ UNCHANGED lastId /\ adding' = [adding EXCEPT ![a] = Idle]
    BY <1>3 DEF WriteMemories
  <2>2. Sound(entries')
    <3> DEFINE e == [id |-> adding[a].id, text |-> adding[a].text]
    <3>1. CASE Known(adding[a].read, adding[a].text)
      BY <1>3, <3>1 DEF WriteMemories
    <3>2. CASE ~ Known(adding[a].read, adding[a].text)
      <4>1. entries' = NewEntries(e, adding[a].read)
        BY <1>3, <3>2 DEF WriteMemories
      <4>2. e \in Entry /\ e.id = adding[a].id /\ e.text = adding[a].text
        BY <2>1 DEF Ready, Entry
      <4> HIDE DEF e
      <4>. QED
        BY <2>1, <3>2, <4>1, <4>2, AddSound DEF Ready
    <3>. QED
      BY <3>1, <3>2
  <2>3. Sound(entries)'
    BY <2>1, <2>2 DEF Sound
  <2>4. adding' = [b \in Adder |-> adding'[b]] /\ \A b \in Adder : adding'[b] \in {Idle, adding[b]}
    BY <2>1
  <2>. QED
    BY <1>2, <2>1, <2>3, <2>4
<1>4. ASSUME UNCHANGED <<adding, lastId>>, Sound(entries')
      PROVE  MemoryInv'
  <2>1. Sound(entries)'
    BY <1>4 DEF Sound
  <2>. QED
    BY <1>2, <1>4, <2>1
<1>5. CASE \E i \in 1..MaxEntries : DeleteMemory(i)
  BY <1>4, <1>5, RemoveSound DEF DeleteMemory
<1>6. CASE ClearMemories
  BY <1>4, <1>6, EmptySound DEF ClearMemories
<1>7. CASE UNCHANGED memoryVars
  BY <1>4, <1>7 DEF memoryVars
<1>. QED
  BY <1>1, <1>3, <1>5, <1>6, <1>7 DEF MemoryNext

\* The stored list and every list a call holds are sound.
THEOREM MemoryInvariant == MemorySpec => []MemoryInv
BY InitMemoryInv, NextMemoryInv, PTL DEF MemorySpec

\* No fact is stored twice and the list is within its cap, however calls overlap.
THEOREM NoFactTwice == MemorySpec => []FactsAreDistinct
<1>1. MemoryInv => FactsAreDistinct
  BY DEF MemoryInv, FactsAreDistinct, Sound, Distinct, Apart
<1>. QED
  BY MemoryInvariant, <1>1, PTL

-----------------------------------------------------------------------------
(* A file in windows (ToolResults).                                        *)

PageType == [sha : Nat, total : Nat, first : Nat \ {0}, last : Nat, more : BOOLEAN]

\* A window ends at the end of the file or says that there is more, and then it
\* has at least a line.
WindowOK(w) ==
  /\ w.last <= w.total
  /\ w.more <=> w.last < w.total
  /\ w.more => w.first <= w.last

\* The windows follow one another without a gap or an overlap.
InOrder(ps) ==
  /\ \A i, j \in 1..Len(ps) : i < j => ps[i].last < ps[j].first
  /\ Len(ps) > 0 =>
       \A n \in ps[1].first..ps[Len(ps)].last : \E i \in 1..Len(ps) : n \in ps[i].first..ps[i].last

\* A revision has one length.
ShaInv ==
  /\ total \in Nat /\ sha \in Nat
  /\ \A i \in 1..Len(pages) : pages[i].sha <= sha /\ (pages[i].sha = sha => pages[i].total = total)
  /\ \A i, j \in 1..Len(pages) : pages[i].sha = pages[j].sha => pages[i].total = pages[j].total

PagesInv ==
  /\ pages \in Seq(PageType)
  /\ \A i \in 1..Len(pages) : WindowOK(pages[i])
  /\ InOrder(pages)

ToolInv == ShaInv /\ PagesInv

-----------------------------------------------------------------------------

LEMMA PageFields ==
  \A p \in PageType : p.sha \in Nat /\ p.total \in Nat /\ p.first \in Nat /\ p.last \in Nat
BY DEF PageType

LEMMA NoPages ==
  ASSUME total \in Nat, sha \in Nat, pages = << >>
  PROVE  ToolInv
BY DEF ToolInv, ShaInv, PagesInv, InOrder

\* What the arguments come to.
LEMMA Arguments ==
  /\ \A a \in WindowArgs : Window(a) \in Nat \ {0}
  /\ \A a \in StartArgs : Start(a) \in Nat \ {0}
  /\ \A n \in Nat \ {0} : Start(n) = n
<1>1. /\ MaxWindow \in Nat \ {0} /\ Default \in Nat \ {0}
      /\ \A a \in WindowArgs \cup StartArgs : a = Absent \/ a \in Int
      /\ \A n \in Nat : n # Absent
  BY ToolAssumption
<1>. QED
  BY <1>1 DEF Window, Start, AtMost, AtLeastOne

LEMMA PageIsOK ==
  ASSUME total \in Nat, sha \in Nat, NEW start \in Nat \ {0}, NEW window \in Nat \ {0}
  PROVE  /\ Page(start, window) \in PageType
         /\ WindowOK(Page(start, window))
         /\ Page(start, window).first = start
         /\ Page(start, window).sha = sha /\ Page(start, window).total = total
<1> DEFINE end == AtMost(total, start - 1 + window)
<1>1. /\ end \in Nat /\ end <= total
      /\ end < total => start <= end
  BY DEF AtMost
<1>2. Page(start, window) = [sha |-> sha, total |-> total, first |-> start, last |-> end, more |-> end < total]
  BY DEF Page
<1>3. /\ Page(start, window) \in PageType
      /\ Page(start, window).first = start /\ Page(start, window).last = end
      /\ Page(start, window).more = (end < total)
      /\ Page(start, window).sha = sha /\ Page(start, window).total = total
  BY <1>1, <1>2 DEF PageType
<1>4. WindowOK(Page(start, window))
  BY <1>1, <1>3 DEF WindowOK
<1>. QED
  BY <1>3, <1>4

LEMMA FirstPage ==
  ASSUME ShaInv, NEW w \in PageType, WindowOK(w), w.sha = sha, w.total = total,
         pages' = <<w>>, UNCHANGED <<total, sha>>
  PROVE  ToolInv'
<1>1. Len(pages') = 1 /\ pages'[1] = w /\ pages' \in Seq(PageType)
  OBVIOUS
<1>2. \A i \in 1..Len(pages') : i = 1 /\ pages'[i] = w
  BY <1>1
<1>3. ShaInv'
  BY <1>1, <1>2 DEF ShaInv
<1>4. InOrder(pages')
  BY <1>1, <1>2 DEF InOrder
<1>. QED
  BY <1>1, <1>2, <1>3, <1>4 DEF ToolInv, PagesInv

LEMMA NextPage ==
  ASSUME ToolInv, NEW w \in PageType, WindowOK(w), w.sha = sha, w.total = total,
         pages # << >>, Last(pages).more, w.first = Last(pages).last + 1,
         pages' = Append(pages, w), UNCHANGED <<total, sha>>
  PROVE  ToolInv'
<1> DEFINE k == Len(pages)
<1>1. /\ k \in Nat \ {0} /\ pages \in Seq(PageType)
      /\ pages' \in Seq(PageType) /\ Len(pages') = k + 1 /\ pages'[k + 1] = w
      /\ \A i \in 1..k : pages'[i] = pages[i] /\ pages[i] \in PageType
  BY DEF ToolInv, PagesInv
<1>0. /\ \A i \in 1..k : pages[i].first \in Nat /\ pages[i].last \in Nat
      /\ w.first \in Nat /\ w.last \in Nat /\ pages'[1] = pages[1]
  BY <1>1, PageFields
<1>2. WindowOK(pages[k]) /\ pages[k].more /\ w.first = pages[k].last + 1 /\ InOrder(pages)
  BY <1>1 DEF ToolInv, PagesInv, Last
<1>3. \A i \in 1..Len(pages') : i = k + 1 \/ i \in 1..k
  BY <1>1
<1>4. ShaInv'
  BY <1>1, <1>3 DEF ToolInv, ShaInv
<1>5. \A i \in 1..Len(pages') : WindowOK(pages'[i])
  BY <1>1, <1>3 DEF ToolInv, PagesInv
<1>6. \A i, j \in 1..Len(pages') : i < j => pages'[i].last < pages'[j].first
  <2> SUFFICES ASSUME NEW i \in 1..Len(pages'), NEW j \in 1..Len(pages'), i < j
               PROVE  pages'[i].last < pages'[j].first
    OBVIOUS
  <2>1. CASE j \in 1..k
    BY <1>1, <1>2, <2>1 DEF InOrder
  <2>2. CASE j = k + 1
    <3>1. i \in 1..k /\ pages'[i] = pages[i]
      BY <1>1, <1>3, <2>2
    <3>2. pages[i].last <= pages[k].last
      <4>1. CASE i = k
        BY <1>0, <3>1, <4>1
      <4>2. CASE i < k
        <5>1. pages[i].last < pages[k].first /\ pages[k].first <= pages[k].last
          BY <1>0, <1>1, <1>2, <3>1, <4>2 DEF InOrder, WindowOK
        <5>. QED
          BY <1>0, <1>1, <3>1, <5>1
      <4>. QED
        BY <1>1, <3>1, <4>1, <4>2
    <3>. QED
      BY <1>0, <1>1, <1>2, <2>2, <3>1, <3>2
  <2>. QED
    BY <1>3, <2>1, <2>2
<1>7. ASSUME NEW n \in pages'[1].first..pages'[Len(pages')].last
      PROVE  \E i \in 1..Len(pages') : n \in pages'[i].first..pages'[i].last
  <2>1. n \in Int /\ n >= pages[1].first /\ n <= w.last
    BY <1>0, <1>1, <1>7
  <2>2. CASE n <= pages[k].last
    <3>1. PICK i \in 1..k : n \in pages[i].first..pages[i].last
      <4>1. n \in pages[1].first..pages[k].last
        BY <1>0, <1>1, <2>1, <2>2
      <4>. QED
        BY <1>1, <1>2, <4>1 DEF InOrder
    <3>. QED
      BY <1>1, <3>1
  <2>3. CASE n > pages[k].last
    <3>1. n \in w.first..w.last
      BY <1>0, <1>1, <1>2, <2>1, <2>3
    <3>. QED
      BY <1>1, <3>1
  <2>. QED
    BY <1>0, <1>1, <2>1, <2>2, <2>3
<1>8. InOrder(pages')
  BY <1>6, <1>7 DEF InOrder
<1>. QED
  BY <1>1, <1>4, <1>5, <1>8 DEF ToolInv, PagesInv

LEMMA NextToolInv == ToolInv /\ [ToolNext]_toolVars => ToolInv'
<1> SUFFICES ASSUME ToolInv, [ToolNext]_toolVars PROVE ToolInv'
  OBVIOUS
<1>1. total \in Nat /\ sha \in Nat /\ pages \in Seq(PageType)
  BY DEF ToolInv, ShaInv, PagesInv
<1>2. CASE ReadFile
  <2>1. PICK arg \in WindowArgs :
          \/ \E s \in StartArgs : pages' = <<Page(Start(s), Window(arg))>>
          \/ /\ pages # << >> /\ Last(pages).more
             /\ pages' = Append(pages, Page(Start(NextStart(Last(pages))), Window(arg)))
    BY <1>2 DEF ReadFile
  <2>2. UNCHANGED <<total, sha>> /\ Window(arg) \in Nat \ {0}
    BY <1>2, Arguments DEF ReadFile
  <2>3. ASSUME NEW s \in StartArgs, pages' = <<Page(Start(s), Window(arg))>>
        PROVE  ToolInv'
    <3>1. Start(s) \in Nat \ {0}
      BY Arguments
    <3>. QED
      BY <1>1, <2>2, <2>3, <3>1, PageIsOK, FirstPage DEF ToolInv
  <2>4. CASE /\ pages # << >> /\ Last(pages).more
             /\ pages' = Append(pages, Page(Start(NextStart(Last(pages))), Window(arg)))
    <3>1. Last(pages).last \in Nat
      <4>1. pages[Len(pages)] \in PageType
        BY <1>1, <2>4
      <4>. QED
        BY <4>1, PageFields DEF Last
    <3>2. /\ Last(pages).last + 1 \in Nat \ {0}
          /\ Start(NextStart(Last(pages))) = Last(pages).last + 1
      BY <3>1, Arguments DEF NextStart
    <3>. QED
      BY <1>1, <2>2, <2>4, <3>2, PageIsOK, NextPage
  <2>. QED
    BY <2>1, <2>3, <2>4
<1>3. CASE EditFile
  <2>1. total' \in Nat /\ sha' = sha + 1 /\ UNCHANGED pages
    BY <1>3, ToolAssumption DEF EditFile
  <2>2. \A i \in 1..Len(pages) : pages[i].sha \in Nat /\ pages[i].sha <= sha
    BY <1>1, PageFields DEF ToolInv, ShaInv
  <2>3. ShaInv'
    BY <1>1, <2>1, <2>2 DEF ToolInv, ShaInv
  <2>4. PagesInv'
    BY <2>1 DEF ToolInv, PagesInv
  <2>. QED
    BY <2>3, <2>4 DEF ToolInv
<1>4. CASE Forget
  BY <1>1, <1>4, NoPages DEF Forget, ToolInv, ShaInv, PagesInv, InOrder
<1>5. CASE ReadList \/ UNCHANGED toolVars
  <2>1. UNCHANGED <<total, sha, pages>>
    BY <1>5 DEF ReadList, toolVars
  <2>. QED
    BY <2>1 DEF ToolInv, ShaInv, PagesInv
<1>. QED
  BY <1>2, <1>3, <1>4, <1>5 DEF ToolNext

\* Windows follow one another, and a revision has one length.
THEOREM WindowsInvariant == ToolSpec => []ToolInv
<1>1. ToolInit => ToolInv
  BY NoPages, ToolAssumption DEF ToolInit
<1>. QED
  BY <1>1, NextToolInv, PTL DEF ToolSpec

\* A model that follows the hints to the end and sees one sha has read every line
\* once, whatever sizes it asked for.
THEOREM PagingReadsTheFile == ToolSpec => []PagedReadIsTheFile
<1>1. ToolInv => PagedReadIsTheFile
  <2> SUFFICES ASSUME ToolInv, pages # << >>, ~Last(pages).more,
                      \A i \in DOMAIN pages : pages[i].sha = pages[1].sha,
                      NEW n \in pages[1].first..pages[1].total
               PROVE  Cardinality({i \in DOMAIN pages : n \in pages[i].first..pages[i].last}) = 1
    BY DEF PagedReadIsTheFile
  <2> DEFINE k == Len(pages)
  <2>1. /\ k \in Nat \ {0} /\ DOMAIN pages = 1..k
        /\ \A i \in 1..k : pages[i] \in PageType
    BY DEF ToolInv, PagesInv
  <2>2. pages[k].last = pages[1].total
    <3>1. WindowOK(pages[k]) /\ ~pages[k].more
      BY <2>1 DEF ToolInv, PagesInv, Last
    <3>2. pages[k].total = pages[1].total
      BY <2>1 DEF ToolInv, ShaInv
    <3>. QED
      BY <2>1, <3>1, <3>2 DEF WindowOK, PageType
  <2>3. PICK i \in 1..k : n \in pages[i].first..pages[i].last
    BY <2>1, <2>2 DEF ToolInv, PagesInv, InOrder
  <2>4. ASSUME NEW j \in 1..k, n \in pages[j].first..pages[j].last
        PROVE  j = i
    <3>1. \A a \in 1..k : pages[a].first \in Nat /\ pages[a].last \in Nat
      BY <2>1, PageFields
    <3>2. \A a, b \in 1..k : a < b => pages[a].last < pages[b].first
      BY DEF ToolInv, PagesInv, InOrder
    <3>. QED
      BY <2>1, <2>3, <2>4, <3>1, <3>2
  <2>5. {j \in DOMAIN pages : n \in pages[j].first..pages[j].last} = {i}
    BY <2>1, <2>3, <2>4
  <2>. QED
    BY <2>5, FS_Singleton
<1>. QED
  BY <1>1, WindowsInvariant, PTL

-----------------------------------------------------------------------------
(* A list that is cut (ToolResults).                                       *)

\* The bytes of the items of a list that are in s, with its overhead; what
\* _truncate's loop made of them.
BytesIn(overhead, sizes) ==
  LET iter[s \in SUBSET (DOMAIN sizes)] ==
        IF s = {} THEN overhead
        ELSE LET x == Max(s) IN iter[s \ {x}] + sizes[x] + 2
  IN  iter

NoneTaken(overhead) == [bytes |-> overhead, kept |-> 0, full |-> FALSE]

Taken(acc, n) ==
  IF acc.full \/ acc.bytes + n + 2 > Cap - Slack THEN [acc EXCEPT !.full = TRUE]
  ELSE [acc EXCEPT !.bytes = @ + n + 2, !.kept = @ + 1]

TakenIn(overhead, sizes) ==
  LET iter[s \in SUBSET (DOMAIN sizes)] ==
        IF s = {} THEN NoneTaken(overhead)
        ELSE LET x == Max(s) IN Taken(iter[s \ {x}], sizes[x])
  IN  iter

AccType == [bytes : Nat, kept : Nat, full : BOOLEAN]

\* The same, prefix by prefix.
Grows(b, overhead, sizes) ==
  /\ b \in [0..Len(sizes) -> Nat]
  /\ b[0] = overhead
  /\ \A k \in 0..(Len(sizes) - 1) : b[k + 1] = b[k] + sizes[k + 1] + 2

Takes(a, overhead, sizes) ==
  /\ a \in [0..Len(sizes) -> AccType]
  /\ a[0] = NoneTaken(overhead)
  /\ \A k \in 0..(Len(sizes) - 1) : a[k + 1] = Taken(a[k], sizes[k + 1])

LEMMA BytesByFold == \A overhead, sizes : Bytes(overhead, sizes) = BytesIn(overhead, sizes)[DOMAIN sizes]
BY DEF Bytes, FoldLeft, MapThenFoldSet, BytesIn

LEMMA TakenByFold == \A overhead, sizes : KeptOf(overhead, sizes) = TakenIn(overhead, sizes)[DOMAIN sizes].kept
BY DEF KeptOf, FoldLeft, MapThenFoldSet, TakenIn, Taken, NoneTaken

LEMMA BytesGrow ==
  ASSUME NEW o \in Nat, NEW z \in Seq(Nat)
  PROVE  \E b : Grows(b, o, z) /\ Bytes(o, z) = b[Len(z)]
<1> DEFINE n == Len(z)
           step == [p \in (1..n) \X Nat |-> p[2] + z[p[1]] + 2]
           Body(g) == [s \in SUBSET (1..n) |->
                         IF s = {} THEN o ELSE g[s \ {Max(s)}] + z[Max(s)] + 2]
           f == BytesIn(o, z)
           b == [k \in 0..n |-> f[1..k]]
<1>1. n \in Nat /\ DOMAIN z = 1..n /\ \A i \in 1..n : z[i] \in Nat
  BY LenProperties, ElementOfSeq
<1> HIDE DEF n
<1>2. step \in [(1..n) \X Nat -> Nat]
  BY <1>1
<1>3. PICK g \in [SUBSET (1..n) -> Nat] : FoldsBy(g, 1..n, o, TopOf(n), step)
  <2> HIDE DEF step
  <2>. QED
    BY <1>1, <1>2, PrefixFold
<1>4. g = Body(g)
  <2>1. \A s \in SUBSET (1..n) : s # {} => TopOf(n)[s] = Max(s) /\ Max(s) \in 1..n
    BY <1>1, TopPicks DEF TopOf
  <2>2. \A s \in SUBSET (1..n) : g[s] = IF s = {} THEN o ELSE step[<<TopOf(n)[s], g[s \ {TopOf(n)[s]}]>>]
    <3> HIDE DEF step
    <3>. QED
      BY <1>3 DEF FoldsBy
  <2>3. \A s \in SUBSET (1..n) : g[s] = IF s = {} THEN o ELSE g[s \ {Max(s)}] + z[Max(s)] + 2
    BY <2>1, <2>2
  <2>. QED
    BY <2>3
<1>5. f = Body(f)
  <2>1. f = CHOOSE h : h = Body(h)
    BY <1>1 DEF BytesIn
  <2> HIDE DEF Body, f
  <2>. QED
    BY <1>4, <2>1
<1>6. \A s \in SUBSET (1..n) : f[s] = IF s = {} THEN o ELSE f[s \ {Max(s)}] + z[Max(s)] + 2
  <2> HIDE DEF f
  <2>. QED
    BY <1>5
<1> HIDE DEF f, step, Body
<1>7. f[1..0] = o
  <2>1. 1..0 = {} /\ {} \in SUBSET (1..n)
    OBVIOUS
  <2>. QED
    BY <1>6, <2>1
<1>8. \A k \in 0..(n - 1) : f[1..(k + 1)] = f[1..k] + z[k + 1] + 2
  <2> SUFFICES ASSUME NEW k \in 0..(n - 1) PROVE f[1..(k + 1)] = f[1..k] + z[k + 1] + 2
    OBVIOUS
  <2>1. /\ 1..(k + 1) \in SUBSET (1..n) /\ 1..(k + 1) # {}
        /\ Max(1..(k + 1)) = k + 1 /\ (1..(k + 1)) \ {k + 1} = 1..k
    BY <1>1, TopOfPrefix
  <2>. QED
    BY <1>6, <2>1
<1> DEFINE T == {k \in 0..n : f[1..k] \in Nat}
<1>9. \A k \in 0..n : k \in T
  <2>1. 0 \in T
    BY <1>1, <1>7
  <2>2. \A k \in 0..(n - 1) : k \in T => k + 1 \in T
    BY <1>1, <1>8
  <2> HIDE DEF T
  <2>. QED
    BY <1>1, <2>1, <2>2, IntervalInduction
<1>10. b \in [0..n -> Nat] /\ b[0] = o /\ b[n] = f[1..n]
  BY <1>1, <1>7, <1>9
<1>11. \A k \in 0..(n - 1) : b[k + 1] = b[k] + z[k + 1] + 2
  BY <1>1, <1>8
<1>12. Bytes(o, z) = b[n]
  BY <1>1, <1>10, BytesByFold DEF f
<1> HIDE DEF b
<1>. QED
  BY <1>10, <1>11, <1>12 DEF Grows, n

LEMMA TakenGrow ==
  ASSUME NEW o \in Nat, NEW z \in Seq(Nat)
  PROVE  \E a : Takes(a, o, z) /\ KeptOf(o, z) = a[Len(z)].kept
<1> DEFINE n == Len(z)
           step == [p \in (1..n) \X AccType |-> Taken(p[2], z[p[1]])]
           Body(g) == [s \in SUBSET (1..n) |->
                         IF s = {} THEN NoneTaken(o) ELSE Taken(g[s \ {Max(s)}], z[Max(s)])]
           f == TakenIn(o, z)
           b == [k \in 0..n |-> f[1..k]]
<1>1. n \in Nat /\ DOMAIN z = 1..n /\ \A i \in 1..n : z[i] \in Nat
  BY LenProperties, ElementOfSeq
<1>0. NoneTaken(o) \in AccType /\ \A acc \in AccType, m \in Nat : Taken(acc, m) \in AccType
  <2>1. NoneTaken(o) \in AccType
    BY DEF NoneTaken, AccType
  <2>2. ASSUME NEW acc \in AccType, NEW m \in Nat PROVE Taken(acc, m) \in AccType
    <3>1. acc.bytes + m + 2 \in Nat /\ acc.kept + 1 \in Nat
      BY DEF AccType
    <3>2. [acc EXCEPT !.full = TRUE] \in AccType
      BY DEF AccType
    <3>3. [acc EXCEPT !.bytes = acc.bytes + m + 2, !.kept = acc.kept + 1] \in AccType
      BY <3>1 DEF AccType
    <3>. QED
      BY <3>2, <3>3 DEF Taken
  <2>. QED
    BY <2>1, <2>2
<1> HIDE DEF n
<1>2. step \in [(1..n) \X AccType -> AccType]
  BY <1>0, <1>1
<1>3. PICK g \in [SUBSET (1..n) -> AccType] : FoldsBy(g, 1..n, NoneTaken(o), TopOf(n), step)
  <2> HIDE DEF step
  <2>. QED
    BY <1>0, <1>1, <1>2, PrefixFold
<1>4. g = Body(g)
  <2>1. \A s \in SUBSET (1..n) : s # {} => TopOf(n)[s] = Max(s) /\ Max(s) \in 1..n
    BY <1>1, TopPicks DEF TopOf
  <2>2. \A s \in SUBSET (1..n) :
          g[s] = IF s = {} THEN NoneTaken(o) ELSE step[<<TopOf(n)[s], g[s \ {TopOf(n)[s]}]>>]
    <3> HIDE DEF step
    <3>. QED
      BY <1>3 DEF FoldsBy
  <2>3. \A s \in SUBSET (1..n) :
          g[s] = IF s = {} THEN NoneTaken(o) ELSE Taken(g[s \ {Max(s)}], z[Max(s)])
    BY <2>1, <2>2
  <2>. QED
    BY <2>3
<1>5. f = Body(f)
  <2>1. f = CHOOSE h : h = Body(h)
    BY <1>1 DEF TakenIn
  <2> HIDE DEF Body, f
  <2>. QED
    BY <1>4, <2>1
<1>6. \A s \in SUBSET (1..n) : f[s] = IF s = {} THEN NoneTaken(o) ELSE Taken(f[s \ {Max(s)}], z[Max(s)])
  <2> HIDE DEF f
  <2>. QED
    BY <1>5
<1> HIDE DEF f, step, Body
<1>7. f[1..0] = NoneTaken(o)
  <2>1. 1..0 = {} /\ {} \in SUBSET (1..n)
    OBVIOUS
  <2>. QED
    BY <1>6, <2>1
<1>8. \A k \in 0..(n - 1) : f[1..(k + 1)] = Taken(f[1..k], z[k + 1])
  <2> SUFFICES ASSUME NEW k \in 0..(n - 1) PROVE f[1..(k + 1)] = Taken(f[1..k], z[k + 1])
    OBVIOUS
  <2>1. /\ 1..(k + 1) \in SUBSET (1..n) /\ 1..(k + 1) # {}
        /\ Max(1..(k + 1)) = k + 1 /\ (1..(k + 1)) \ {k + 1} = 1..k
    BY <1>1, TopOfPrefix
  <2>. QED
    BY <1>6, <2>1
<1> DEFINE T == {k \in 0..n : f[1..k] \in AccType}
<1>9. \A k \in 0..n : k \in T
  <2>1. 0 \in T
    BY <1>0, <1>1, <1>7
  <2>2. \A k \in 0..(n - 1) : k \in T => k + 1 \in T
    BY <1>0, <1>1, <1>8
  <2> HIDE DEF T
  <2>. QED
    BY <1>1, <2>1, <2>2, IntervalInduction
<1>10. b \in [0..n -> AccType] /\ b[0] = NoneTaken(o) /\ b[n] = f[1..n]
  BY <1>1, <1>7, <1>9
<1>11. \A k \in 0..(n - 1) : b[k + 1] = Taken(b[k], z[k + 1])
  BY <1>1, <1>8
<1>12. KeptOf(o, z) = b[n].kept
  BY <1>1, <1>10, TakenByFold DEF f
<1> HIDE DEF b
<1>. QED
  BY <1>10, <1>11, <1>12 DEF Takes, n

\* The bytes of a prefix.
LEMMA BytesOfPrefix ==
  ASSUME NEW o \in Nat, NEW z \in Seq(Nat), NEW b, Grows(b, o, z), NEW k \in 0..Len(z)
  PROVE  Bytes(o, SubSeq(z, 1, k)) = b[k]
<1> DEFINE y == SubSeq(z, 1, k)
<1>1. Len(z) \in Nat /\ \A i \in 1..Len(z) : z[i] \in Nat
  BY LenProperties, ElementOfSeq
<1>2. y \in Seq(Nat) /\ Len(y) = k /\ \A i \in 1..k : y[i] = z[i]
  <2>1. \A i \in 1..k : z[i] \in Nat
    BY <1>1
  <2>2. /\ y \in Seq(Nat) /\ Len(y) = IF 1 <= k THEN k - 1 + 1 ELSE 0
        /\ \A i \in 1..(k - 1 + 1) : y[i] = z[1 + i - 1]
    BY <1>1, <2>1, SubSeqProperties
  <2> HIDE DEF y
  <2>. QED
    BY <1>1, <2>2
<1> HIDE DEF y
<1>3. PICK c : Grows(c, o, y) /\ Bytes(o, y) = c[k]
  BY <1>2, BytesGrow
<1> DEFINE T == {j \in 0..k : c[j] = b[j]}
<1>4. \A j \in 0..k : j \in T
  <2>1. 0 \in T
    BY <1>1, <1>3 DEF Grows
  <2>2. ASSUME NEW j \in 0..(k - 1), j \in T PROVE j + 1 \in T
    <3>1. c[j + 1] = c[j] + y[j + 1] + 2
      BY <1>2, <1>3 DEF Grows
    <3>2. b[j + 1] = b[j] + z[j + 1] + 2
      BY <1>1 DEF Grows
    <3>3. y[j + 1] = z[j + 1] /\ c[j] = b[j]
      BY <1>2, <2>2
    <3>. QED
      BY <3>1, <3>2, <3>3
  <2>3. k \in Nat
    BY <1>1
  <2> HIDE DEF T
  <2>. QED
    BY <2>1, <2>2, <2>3, IntervalInduction
<1>. QED
  BY <1>3, <1>4 DEF y

\* The slice of a list that is above the cap.
LEMMA KeptIsHonest ==
  ASSUME NEW o \in 0..4, NEW z \in Seq(Nat), Bytes(o, z) > Cap
  PROVE  LET taken == KeptOf(o, z)
             Room(k) == Bytes(o, SubSeq(z, 1, k)) <= Cap - Slack
         IN  /\ taken < Len(z)
             /\ taken > 0 => Room(taken)
             /\ ~ Room(taken + 1)
<1> DEFINE n == Len(z)
<1>1. n \in Nat /\ \A i \in 1..n : z[i] \in Nat
  BY LenProperties, ElementOfSeq
<1>2. PICK b : Grows(b, o, z) /\ Bytes(o, z) = b[n]
  BY BytesGrow
<1>3. PICK a : Takes(a, o, z) /\ KeptOf(o, z) = a[n].kept
  BY TakenGrow
<1>4. \A k \in 0..n : Bytes(o, SubSeq(z, 1, k)) = b[k]
  BY <1>2, BytesOfPrefix
<1> HIDE DEF n
<1>5. /\ b \in [0..n -> Nat] /\ b[0] = o
      /\ \A k \in 0..(n - 1) : b[k + 1] = b[k] + z[k + 1] + 2
  BY <1>2 DEF Grows, n
<1>6. /\ a \in [0..n -> AccType] /\ a[0] = NoneTaken(o)
      /\ \A k \in 0..(n - 1) : a[k + 1] = Taken(a[k], z[k + 1])
  BY <1>3 DEF Takes, n
<1>7. Cap \in Nat /\ Slack \in Nat /\ Cap >= 4 /\ Slack <= Cap
  BY ToolAssumption
<1> DEFINE Honest(k) ==
             /\ a[k].kept \in 0..k
             /\ a[k].bytes = b[a[k].kept]
             /\ a[k].kept > 0 => b[a[k].kept] <= Cap - Slack
             /\ ~ a[k].full => a[k].kept = k
             /\ a[k].full => a[k].kept < k /\ b[a[k].kept + 1] > Cap - Slack
           T == {k \in 0..n : Honest(k)}
<1>8. \A k \in 0..n : k \in T
  <2>1. 0 \in T
    BY <1>1, <1>5, <1>6 DEF NoneTaken
  <2>2. ASSUME NEW k \in 0..(n - 1), k \in T PROVE k + 1 \in T
    <3> DEFINE acc == a[k]
               new == a[k + 1]
    <3>1. acc \in AccType /\ new = Taken(acc, z[k + 1]) /\ k \in Nat /\ k + 1 \in 0..n
      BY <1>1, <1>6
    <3>2. Honest(k) /\ z[k + 1] \in Nat /\ b[k + 1] = b[k] + z[k + 1] + 2
      BY <1>1, <1>5, <2>2
    <3>3. CASE acc.full
      <4>1. new = [acc EXCEPT !.full = TRUE]
        BY <3>1, <3>3 DEF Taken
      <4>2. new.full /\ new.bytes = acc.bytes /\ new.kept = acc.kept
        BY <3>1, <4>1 DEF AccType
      <4>. QED
        BY <3>1, <3>2, <3>3, <4>2
    <3>4. CASE ~ acc.full /\ acc.bytes + z[k + 1] + 2 > Cap - Slack
      <4>1. new = [acc EXCEPT !.full = TRUE]
        BY <3>1, <3>4 DEF Taken
      <4>2. new.full /\ new.bytes = acc.bytes /\ new.kept = acc.kept /\ acc.kept = k
        BY <3>1, <3>2, <3>4, <4>1 DEF AccType
      <4>. QED
        BY <3>1, <3>2, <3>4, <4>2
    <3>5. CASE ~ acc.full /\ ~ (acc.bytes + z[k + 1] + 2 > Cap - Slack)
      <4>1. new = [acc EXCEPT !.bytes = @ + z[k + 1] + 2, !.kept = @ + 1]
        BY <3>1, <3>5 DEF Taken
      <4>2. /\ ~ new.full /\ new.bytes = acc.bytes + z[k + 1] + 2 /\ new.kept = acc.kept + 1
            /\ acc.kept = k
        BY <3>1, <3>2, <3>5, <4>1 DEF AccType
      <4>3. acc.bytes = b[k] /\ acc.bytes \in Nat /\ new.bytes = b[k + 1] /\ new.kept = k + 1
        BY <3>1, <3>2, <4>2 DEF AccType
      <4>4. b[k + 1] <= Cap - Slack
        BY <1>7, <3>2, <3>5, <4>2, <4>3
      <4>5. k + 1 \in 0..(k + 1) /\ k + 1 > 0
        BY <3>1
      <4> HIDE DEF acc, new
      <4>6. /\ new.kept \in 0..(k + 1) /\ new.bytes = b[new.kept]
            /\ b[new.kept] <= Cap - Slack /\ ~ new.full /\ new.kept = k + 1
        BY <4>2, <4>3, <4>4, <4>5
      <4>. QED
        BY <3>1, <4>6 DEF new
    <3>. QED
      BY <3>3, <3>4, <3>5
  <2> HIDE DEF T
  <2>. QED
    BY <1>1, <2>1, <2>2, IntervalInduction
<1>9. Honest(n) /\ a[n] \in AccType
  BY <1>1, <1>6, <1>8
<1> DEFINE taken == a[n].kept
<1>10. taken \in 0..n /\ b[n] > Cap /\ b[n] \in Nat
  BY <1>1, <1>2, <1>5, <1>9
<1>11. a[n].full
  <2> SUFFICES ASSUME ~ a[n].full PROVE FALSE
    OBVIOUS
  <2>1. taken = n
    BY <1>9
  <2>2. CASE n = 0
    BY <1>5, <1>7, <1>10, <2>2
  <2>3. CASE n > 0
    BY <1>7, <1>9, <1>10, <2>1, <2>3
  <2>. QED
    BY <1>1, <2>2, <2>3
<1>12. taken < n /\ (taken > 0 => b[taken] <= Cap - Slack) /\ b[taken + 1] > Cap - Slack
  BY <1>9, <1>11
<1>13. taken \in 0..n /\ taken + 1 \in 0..n /\ b[taken + 1] \in Nat
  BY <1>1, <1>5, <1>10, <1>12
<1> HIDE DEF taken
<1>14. KeptOf(o, z) = taken
  BY <1>3 DEF taken, n
<1>. QED
  BY <1>4, <1>7, <1>12, <1>13, <1>14 DEF n

\* A list that is cut is cut as _truncate's docstring says: the longest prefix
\* that leaves room for the envelope (app/services/chat_tools.py).
THEOREM CutListIsHonest == ToolSpec => []SliceIsHonest
<1>1. ToolInit => SliceIsHonest
  BY DEF ToolInit, NoResult, SliceIsHonest
<1>2. SliceIsHonest /\ [ToolNext]_toolVars => SliceIsHonest'
  <2> SUFFICES ASSUME SliceIsHonest, [ToolNext]_toolVars PROVE SliceIsHonest'
    OBVIOUS
  <2>1. CASE result' = result
    BY <2>1 DEF SliceIsHonest
  <2>2. CASE result' = NoResult
    BY <2>2 DEF NoResult, SliceIsHonest
  <2>3. CASE ReadList
    <3>1. PICK shape \in {"list", "search", "repositories", "results"}, sizes \in Lists :
            result' = Truncate(shape, IF shape = "list" THEN 2 ELSE 4, sizes)
      BY <2>3 DEF ReadList
    <3> DEFINE o == IF shape = "list" THEN 2 ELSE 4
    <3>2. o \in 0..4
      OBVIOUS
    <3>3. sizes \in Seq(Nat)
      <4>1. PICK m \in 0..MaxItems : sizes \in [1..m -> Sizes]
        BY DEF Lists, SeqOf
      <4>2. m \in Nat
        BY <4>1, ToolAssumption
      <4>3. sizes \in [1..m -> Nat]
        BY <4>1, ToolAssumption
      <4>. QED
        BY <4>2, <4>3
    <3>4. /\ result'.kind = IF Bytes(o, sizes) <= Cap THEN "whole"
                            ELSE IF Sliceable(shape) THEN "slice" ELSE "preview"
          /\ result'.sizes = sizes /\ result'.overhead = o /\ result'.kept = KeptOf(o, sizes)
      BY <3>1 DEF Truncate, TruncateBy
    <3> HIDE DEF o
    <3>5. ASSUME result'.kind = "slice" PROVE Bytes(o, sizes) > Cap
      <4>1. ~ (Bytes(o, sizes) <= Cap)
        BY <3>4, <3>5
      <4>2. PICK b : Grows(b, o, sizes) /\ Bytes(o, sizes) = b[Len(sizes)]
        BY <3>2, <3>3, BytesGrow
      <4>3. Bytes(o, sizes) \in Nat
        BY <3>3, <4>2, LenProperties DEF Grows
      <4>. QED
        BY <4>1, <4>3, ToolAssumption
    <3>. QED
      BY <3>2, <3>3, <3>4, <3>5, KeptIsHonest DEF SliceIsHonest
  <2>. QED
    BY <2>1, <2>2, <2>3 DEF ToolNext, ReadFile, EditFile, Forget, toolVars
<1>. QED
  BY <1>1, <1>2, PTL DEF ToolSpec

-----------------------------------------------------------------------------
(* Cached reports (Analytics).                                             *)

\* The reports a report is made of, and how old they may be when it takes them in.
PartsOf(p) ==
  CASE p = "dashboard" -> {"repos", "alerts", "events"}
    [] p = "leaderboard" -> {"repos"}
    [] p = "digest" -> {"leaderboard", "repos"}
    [] OTHER -> {}

PartHorizon(p) ==
  CASE p = "dashboard" -> Older(LeafHorizon("repos"), Older(LeafHorizon("alerts"), LeafHorizon("events")))
    [] p = "leaderboard" -> LeafHorizon("repos")
    [] p = "digest" -> LeaderboardHorizon
    [] OTHER -> 0

\* All that reports are made of.
Part == UNION {UNION {Waves[p][w] : w \in Nat} : p \in Report}

EntryType == [left : Nat, holed : BOOLEAN, age : Nat]
CallType  == [report : Report, wave : Nat \ {0}, todo : SUBSET Part, holed : BOOLEAN,
              age : Nat, failed : BOOLEAN]

\* A call that has taken e ticks so far is no older than that and its oldest
\* part, and takes in only the parts of its report.
CallOK(call, e) ==
  /\ call \in CallType
  /\ call.age <= e + PartHorizon(call.report)
  /\ call.todo \cap Report \subseteq PartsOf(call.report)

\* The calls under way of one request: each is a part of the next.
StackOK(s, e) ==
  /\ s \in Seq(CallType)
  /\ \A i \in 1..Len(s) : CallOK(s[i], e)
  /\ \A i \in 1..(Len(s) - 1) : s[i].report \in PartsOf(s[i + 1].report)

YoungInv ==
  /\ store \in [Report -> EntryType]
  /\ elapsed \in [Reader -> 0..Patience]
  /\ DOMAIN stack = Reader
  /\ \A r \in Reader : StackOK(stack[r], elapsed[r])
  /\ ReportsAreYoung

-----------------------------------------------------------------------------

LEMMA HorizonParts ==
  \A p \in Report :
    /\ PartHorizon(p) \in Nat
    /\ Horizon[p] = TTL[p] + Patience + PartHorizon(p)
    /\ PartsOf(p) \subseteq Report
    /\ \A q \in PartsOf(p) : /\ Horizon[q] <= PartHorizon(p)
                             /\ PartHorizon(q) <= PartHorizon(p)
<1> SUFFICES ASSUME NEW p \in Report
             PROVE  /\ PartHorizon(p) \in Nat
                    /\ Horizon[p] = TTL[p] + Patience + PartHorizon(p)
                    /\ PartsOf(p) \subseteq Report
                    /\ \A q \in PartsOf(p) : /\ Horizon[q] <= PartHorizon(p)
                                             /\ PartHorizon(q) <= PartHorizon(p)
  OBVIOUS
<1>1. /\ Patience \in Nat /\ TTL["repos"] \in Nat /\ TTL["alerts"] \in Nat /\ TTL["events"] \in Nat
      /\ TTL["leaderboard"] \in Nat /\ TTL[p] \in Nat
  BY AnalyticsAssumption DEF Report
<1> USE DEF PartHorizon, PartsOf, Horizon, LeafHorizon, LeaderboardHorizon, Older, Report
<1>2. CASE p = "dashboard"
  BY <1>1, <1>2
<1>3. CASE p = "leaderboard"
  BY <1>1, <1>3
<1>4. CASE p = "digest"
  BY <1>1, <1>4
<1>5. CASE p \in {"repos", "alerts", "events"}
  BY <1>1, <1>5
<1>. QED
  BY <1>2, <1>3, <1>4, <1>5

LEMMA WavesLen == \A p \in Report : Len(Waves[p]) \in Nat \ {0}
BY DEF Waves, Report, ReposWaves, AlertsWaves, EventsWaves, DashboardWaves, LeaderboardWaves, DigestWaves

LEMMA WavesAreParts ==
  \A p \in Report : \A w \in 1..Len(Waves[p]) :
    Waves[p][w] \in SUBSET Part /\ Waves[p][w] \cap Report \subseteq PartsOf(p)
<1> SUFFICES ASSUME NEW p \in Report, NEW w \in 1..Len(Waves[p])
             PROVE  Waves[p][w] \in SUBSET Part /\ Waves[p][w] \cap Report \subseteq PartsOf(p)
  OBVIOUS
<1>1. Waves[p][w] \in SUBSET Part
  <2>1. w \in Nat
    BY WavesLen
  <2>. QED
    BY <2>1 DEF Part
<1>2. CASE p = "repos"
  <2>1. Waves[p] = ReposWaves
    BY <1>2 DEF Waves, Report
  <2>2. w = 1 \/ w = 2
    BY <2>1 DEF ReposWaves
  <2>3. CASE w = 1
    <3>1. Waves[p][w] = {"repositories"}
      BY <2>1, <2>3 DEF ReposWaves
    <3>. QED
      BY <1>1, <1>2, <3>1 DEF Report, PartsOf
  <2>4. CASE w = 2
    <3>1. Waves[p][w] = {"open_prs"}
      BY <2>1, <2>4 DEF ReposWaves
    <3>. QED
      BY <1>1, <1>2, <3>1 DEF Report, PartsOf
  <2>. QED
    BY <2>2, <2>3, <2>4
<1>3. CASE p = "alerts"
  <2>1. Waves[p] = AlertsWaves
    BY <1>3 DEF Waves, Report
  <2>2. w = 1
    BY <2>1 DEF AlertsWaves
  <2>3. CASE w = 1
    <3>1. Waves[p][w] = {"stuck_prs", "failing_checks", "dependabot", "code_scanning"}
      BY <2>1, <2>3 DEF AlertsWaves
    <3>. QED
      BY <1>1, <1>3, <3>1 DEF Report, PartsOf
  <2>. QED
    BY <2>2, <2>3
<1>4. CASE p = "events"
  <2>1. Waves[p] = EventsWaves
    BY <1>4 DEF Waves, Report
  <2>2. w = 1
    BY <2>1 DEF EventsWaves
  <2>3. CASE w = 1
    <3>1. Waves[p][w] = {"timeline"}
      BY <2>1, <2>3 DEF EventsWaves
    <3>. QED
      BY <1>1, <1>4, <3>1 DEF Report, PartsOf
  <2>. QED
    BY <2>2, <2>3
<1>5. CASE p = "dashboard"
  <2>1. Waves[p] = DashboardWaves
    BY <1>5 DEF Waves, Report
  <2>2. w = 1 \/ w = 2 \/ w = 3
    BY <2>1 DEF DashboardWaves
  <2>3. CASE w = 1
    <3>1. Waves[p][w] = {"kpis"}
      BY <2>1, <2>3 DEF DashboardWaves
    <3>. QED
      BY <1>1, <1>5, <3>1 DEF Report, PartsOf
  <2>4. CASE w = 2
    <3>1. Waves[p][w] = {"repos", "alerts", "events"}
      BY <2>1, <2>4 DEF DashboardWaves
    <3>. QED
      BY <1>1, <1>5, <3>1 DEF Report, PartsOf
  <2>5. CASE w = 3
    <3>1. Waves[p][w] = {"contributors"}
      BY <2>1, <2>5 DEF DashboardWaves
    <3>. QED
      BY <1>1, <1>5, <3>1 DEF Report, PartsOf
  <2>. QED
    BY <2>2, <2>3, <2>4, <2>5
<1>6. CASE p = "leaderboard"
  <2>1. Waves[p] = LeaderboardWaves
    BY <1>6 DEF Waves, Report
  <2>2. w = 1 \/ w = 2 \/ w = 3
    BY <2>1 DEF LeaderboardWaves
  <2>3. CASE w = 1
    <3>1. Waves[p][w] = {"repos"}
      BY <2>1, <2>3 DEF LeaderboardWaves
    <3>. QED
      BY <1>1, <1>6, <3>1 DEF Report, PartsOf
  <2>4. CASE w = 2
    <3>1. Waves[p][w] = {"commits"}
      BY <2>1, <2>4 DEF LeaderboardWaves
    <3>. QED
      BY <1>1, <1>6, <3>1 DEF Report, PartsOf
  <2>5. CASE w = 3
    <3>1. Waves[p][w] = {"merged"}
      BY <2>1, <2>5 DEF LeaderboardWaves
    <3>. QED
      BY <1>1, <1>6, <3>1 DEF Report, PartsOf
  <2>. QED
    BY <2>2, <2>3, <2>4, <2>5
<1>7. CASE p = "digest"
  <2>1. Waves[p] = DigestWaves
    BY <1>7 DEF Waves, Report
  <2>2. w = 1
    BY <2>1 DEF DigestWaves
  <2>3. CASE w = 1
    <3>1. Waves[p][w] = {"totals", "leaderboard", "repos"}
      BY <2>1, <2>3 DEF DigestWaves
    <3>. QED
      BY <1>1, <1>7, <3>1 DEF Report, PartsOf
  <2>. QED
    BY <2>2, <2>3
<1>. QED
  BY <1>2, <1>3, <1>4, <1>5, <1>6, <1>7 DEF Report

LEMMA CallIsOK ==
  ASSUME NEW p \in Report, NEW e \in Nat PROVE CallOK(Call(p), e)
<1>1. 1 \in 1..Len(Waves[p])
  BY WavesLen
<1>2. Waves[p][1] \in SUBSET Part /\ Waves[p][1] \cap Report \subseteq PartsOf(p)
  BY <1>1, WavesAreParts
<1>. QED
  BY <1>2, HorizonParts DEF CallOK, Call, CallType

LEMMA WithPartsIsOK ==
  ASSUME NEW e \in Nat, NEW call, CallOK(call, e), NEW parts, NEW holed \in BOOLEAN,
         NEW age \in Nat, age <= e + PartHorizon(call.report)
  PROVE  CallOK(WithParts(call, parts, holed, age), e)
         /\ WithParts(call, parts, holed, age).report = call.report
<1> DEFINE left == call.todo \ parts
           next == left = {} /\ call.wave < Len(Waves[call.report])
           more == Waves[call.report][call.wave + 1]
           c == WithParts(call, parts, holed, age)
<1>1. c = [call EXCEPT !.todo = IF next THEN more ELSE left,
                       !.wave = IF next THEN @ + 1 ELSE @,
                       !.holed = @ \/ holed, !.age = Older(@, age)]
  BY DEF WithParts
<1>2. /\ call \in CallType /\ call.report \in Report /\ call.wave \in Nat \ {0}
      /\ call.todo \in SUBSET Part /\ call.age \in Nat /\ call.holed \in BOOLEAN
      /\ call.age <= e + PartHorizon(call.report)
      /\ call.todo \cap Report \subseteq PartsOf(call.report)
  BY DEF CallOK, CallType
<1>3. next => more \in SUBSET Part /\ more \cap Report \subseteq PartsOf(call.report)
  <2> SUFFICES ASSUME next PROVE more \in SUBSET Part /\ more \cap Report \subseteq PartsOf(call.report)
    OBVIOUS
  <2>1. Len(Waves[call.report]) \in Nat
    BY <1>2, WavesLen
  <2>2. call.wave + 1 \in 1..Len(Waves[call.report])
    BY <1>2, <2>1
  <2>. QED
    BY <1>2, <2>2, WavesAreParts
<1>4. Older(call.age, age) \in Nat /\ Older(call.age, age) <= e + PartHorizon(call.report)
  BY <1>2 DEF Older
<1> HIDE DEF c, next, more, left
<1>5. left \in SUBSET Part /\ left \cap Report \subseteq PartsOf(call.report)
  BY <1>2 DEF left
<1>6. c \in CallType
  <2> DEFINE todo == IF next THEN more ELSE left
             wave == IF next THEN call.wave + 1 ELSE call.wave
             hole == call.holed \/ holed
             old  == Older(call.age, age)
  <2>1. todo \in SUBSET Part /\ wave \in Nat \ {0} /\ old \in Nat
    BY <1>2, <1>3, <1>4, <1>5
  <2>2. hole \in BOOLEAN
    OBVIOUS
  <2>3. c = [call EXCEPT !.todo = todo, !.wave = wave, !.holed = hole, !.age = old]
    BY <1>1
  <2> HIDE DEF todo, wave, hole, old
  <2>. QED
    BY <1>2, <2>1, <2>2, <2>3 DEF CallType
<1>7. /\ c.report = call.report /\ c.age = Older(call.age, age)
      /\ c.todo = IF next THEN more ELSE left
  BY <1>1, <1>2 DEF CallType
<1>8. CallOK(c, e)
  BY <1>3, <1>4, <1>5, <1>6, <1>7 DEF CallOK
<1>. QED
  BY <1>7, <1>8 DEF c

LEMMA FailedIsOK ==
  ASSUME NEW e \in Nat, NEW call, CallOK(call, e)
  PROVE  CallOK([call EXCEPT !.failed = TRUE], e) /\ [call EXCEPT !.failed = TRUE].report = call.report
BY DEF CallOK, CallType

\* A call is put on the stack, goes on, or goes away.
LEMMA PushIsOK ==
  ASSUME NEW e, NEW s, StackOK(s, e), NEW call, CallOK(call, e),
         s # << >> => call.report \in PartsOf(Head(s).report)
  PROVE  StackOK(<<call>> \o s, e)
<1> DEFINE t == <<call>> \o s
<1>1. s \in Seq(CallType) /\ Len(s) \in Nat /\ <<call>> \in Seq(CallType) /\ Len(<<call>>) = 1
      /\ <<call>>[1] = call
  BY LenProperties DEF StackOK, CallOK
<1>2. /\ t \in Seq(CallType) /\ Len(t) = Len(s) + 1 /\ t[1] = call
      /\ \A i \in 1..Len(s) : t[i + 1] = s[i]
  BY <1>1, ConcatProperties
<1>3. s # << >> => Head(s) = s[1]
  BY <1>1, HeadTailProperties
<1> HIDE DEF t
<1>4. ASSUME NEW i \in 1..Len(t) PROVE CallOK(t[i], e)
  <2>1. CASE i = 1
    BY <1>2, <2>1
  <2>2. CASE i # 1
    <3>1. i - 1 \in 1..Len(s) /\ (i - 1) + 1 = i
      BY <1>1, <1>2, <2>2
    <3>2. t[i] = s[i - 1]
      BY <1>2, <3>1
    <3>. QED
      BY <3>1, <3>2 DEF StackOK
  <2>. QED
    BY <2>1, <2>2
<1>5. ASSUME NEW i \in 1..(Len(t) - 1) PROVE t[i].report \in PartsOf(t[i + 1].report)
  <2>1. i \in 1..Len(s) /\ t[i + 1] = s[i]
    BY <1>1, <1>2
  <2>2. CASE i = 1
    <3>1. s # << >>
      BY <1>1, <2>1
    <3>. QED
      BY <1>2, <1>3, <2>1, <2>2, <3>1
  <2>3. CASE i # 1
    <3>1. i - 1 \in 1..(Len(s) - 1) /\ (i - 1) + 1 = i /\ i - 1 \in 1..Len(s)
      BY <1>1, <2>1, <2>3
    <3>2. t[i] = s[i - 1]
      BY <1>2, <3>1
    <3>. QED
      BY <2>1, <3>1, <3>2 DEF StackOK
  <2>. QED
    BY <2>2, <2>3
<1>. QED
  BY <1>2, <1>4, <1>5 DEF StackOK, t

LEMMA PopIsOK ==
  ASSUME NEW e, NEW s, StackOK(s, e), s # << >>
  PROVE  /\ StackOK(Tail(s), e) /\ CallOK(Head(s), e) /\ Head(s) \in CallType
         /\ Tail(s) # << >> => Head(s).report \in PartsOf(Head(Tail(s)).report)
<1>1. s \in Seq(CallType) /\ Len(s) \in Nat /\ Len(s) # 0
  BY LenProperties, EmptySeq DEF StackOK
<1>2. /\ Head(s) = s[1] /\ Tail(s) \in Seq(CallType) /\ Len(Tail(s)) = Len(s) - 1
      /\ \A i \in 1..Len(Tail(s)) : Tail(s)[i] = s[i + 1]
  BY <1>1, HeadTailProperties
<1>3. Tail(s) # << >> => Head(Tail(s)) = s[2] /\ Len(s) >= 2
  <2> SUFFICES ASSUME Tail(s) # << >> PROVE Head(Tail(s)) = s[2] /\ Len(s) >= 2
    OBVIOUS
  <2>1. Head(Tail(s)) = Tail(s)[1] /\ Len(Tail(s)) # 0
    BY <1>2, HeadTailProperties, EmptySeq
  <2>2. 1 \in 1..Len(Tail(s)) /\ Len(s) >= 2
    BY <1>1, <1>2, <2>1
  <2>. QED
    BY <1>2, <2>1, <2>2
<1>4. \A i \in 1..Len(Tail(s)) : i + 1 \in 1..Len(s)
  BY <1>1, <1>2
<1>5. \A i \in 1..(Len(Tail(s)) - 1) : i + 1 \in 1..(Len(s) - 1) /\ i \in 1..Len(Tail(s)) /\ i + 1 \in 1..Len(Tail(s))
  BY <1>1, <1>2
<1>6. CallOK(s[1], e) /\ (Len(s) >= 2 => s[1].report \in PartsOf(s[1 + 1].report))
  BY <1>1 DEF StackOK
<1>7. \A i \in 1..Len(Tail(s)) : CallOK(Tail(s)[i], e)
  BY <1>2, <1>4 DEF StackOK
<1>8. \A i \in 1..(Len(Tail(s)) - 1) : Tail(s)[i].report \in PartsOf(Tail(s)[i + 1].report)
  BY <1>2, <1>5 DEF StackOK
<1>. QED
  BY <1>2, <1>3, <1>6, <1>7, <1>8 DEF StackOK, CallOK

LEMMA TopIsOK ==
  ASSUME NEW e, NEW s, StackOK(s, e), s # << >>, NEW call, CallOK(call, e),
         call.report = Head(s).report
  PROVE  StackOK(<<call>> \o Tail(s), e)
BY PopIsOK, PushIsOK

LEMMA TickIsOK ==
  ASSUME NEW e \in Nat, NEW s, StackOK(s, e)
  PROVE  StackOK([i \in DOMAIN s |-> [s[i] EXCEPT !.age = Grown(@)]], e + 1)
<1> DEFINE t == [i \in DOMAIN s |-> [s[i] EXCEPT !.age = Grown(@)]]
<1>1. s \in Seq(CallType) /\ Len(s) \in Nat /\ DOMAIN s = 1..Len(s)
  BY LenProperties DEF StackOK
<1>2. ASSUME NEW i \in 1..Len(s)
      PROVE  CallOK(t[i], e + 1) /\ t[i].report = s[i].report
  <2> DEFINE c == s[i]
  <2>1. c \in CallType /\ c.age <= e + PartHorizon(c.report) /\ c.todo \cap Report \subseteq PartsOf(c.report)
    BY DEF StackOK, CallOK
  <2>2. t[i] = [c EXCEPT !.age = Grown(c.age)]
    BY <1>1
  <2> HIDE DEF c, t
  <2>3. c.age \in Nat /\ c.report \in Report
    BY <2>1 DEF CallType
  <2>4. Grown(c.age) \in Nat /\ Grown(c.age) <= c.age + 1
    BY <2>3 DEF Grown
  <2>5. PartHorizon(c.report) \in Nat
    BY <2>3, HorizonParts
  <2>6. /\ t[i] \in CallType /\ t[i].report = c.report /\ t[i].todo = c.todo
        /\ t[i].age = Grown(c.age)
    BY <2>1, <2>2, <2>4 DEF CallType
  <2>7. t[i].age <= (e + 1) + PartHorizon(c.report)
    BY <2>1, <2>3, <2>4, <2>5, <2>6
  <2>. QED
    BY <2>1, <2>6, <2>7 DEF CallOK, c
<1>3. t \in Seq(CallType) /\ Len(t) = Len(s)
  <2>1. \A i \in 1..Len(s) : t[i] \in CallType
    BY <1>2 DEF CallOK
  <2>2. t = [i \in 1..Len(s) |-> t[i]]
    BY <1>1
  <2> HIDE DEF t
  <2>. QED
    BY <1>1, <2>1, <2>2, IsASeq
<1> HIDE DEF t
<1>4. \A i \in 1..(Len(s) - 1) : i \in 1..Len(s) /\ i + 1 \in 1..Len(s)
  BY <1>1
<1>5. \A i \in 1..(Len(s) - 1) : t[i].report \in PartsOf(t[i + 1].report)
  BY <1>2, <1>4 DEF StackOK
<1>. QED
  BY <1>2, <1>3, <1>5 DEF StackOK, t

-----------------------------------------------------------------------------

LEMMA InitYoung == AnalyticsInit => YoungInv
BY AnalyticsAssumption DEF AnalyticsInit, YoungInv, StackOK, ReportsAreYoung, Live, NoEntry, EntryType

\* A read leaves no entry live that was not.
LEMMA GetIsYoung ==
  ASSUME YoungInv, NEW p \in Report, store' = AfterGet(p)
  PROVE  store' \in [Report -> EntryType] /\ ReportsAreYoung'
BY DEF YoungInv, AfterGet, ReportsAreYoung, Live, NoEntry, EntryType

\* A report that is done is kept with the age of its oldest part.
LEMMA SetIsYoung ==
  ASSUME YoungInv, NEW e \in 0..Patience, NEW call, CallOK(call, e),
         store' = SetEntry(call.report, call.holed, call.age)
  PROVE  store' \in [Report -> EntryType] /\ ReportsAreYoung'
<1> DEFINE p == call.report
           entry == [left |-> TTL[p], holed |-> call.holed, age |-> call.age]
<1>1. /\ p \in Report /\ call.holed \in BOOLEAN /\ call.age \in Nat
      /\ call.age <= e + PartHorizon(p)
  BY DEF CallOK, CallType
<1>2. /\ TTL[p] \in Nat /\ Patience \in Nat /\ PartHorizon(p) \in Nat
      /\ Horizon[p] = TTL[p] + Patience + PartHorizon(p)
  BY <1>1, AnalyticsAssumption, HorizonParts
<1>3. entry \in EntryType /\ entry.age + entry.left <= Horizon[p]
  BY <1>1, <1>2 DEF EntryType
<1>4. store' = store \/ store' = [store EXCEPT ![p] = entry]
  BY DEF SetEntry
<1> HIDE DEF p, entry
<1>5. store' \in [Report -> EntryType]
  BY <1>1, <1>3, <1>4 DEF YoungInv
<1>. QED
  BY <1>1, <1>3, <1>4, <1>5 DEF YoungInv, ReportsAreYoung, Live

\* A step of one request that keeps the time and the reports young.
LEMMA StackStep ==
  ASSUME YoungInv, NEW r \in Reader, NEW s, stack' = [stack EXCEPT ![r] = s],
         StackOK(s, elapsed[r]), elapsed' = elapsed,
         store' \in [Report -> EntryType], ReportsAreYoung'
  PROVE  YoungInv'
BY DEF YoungInv

LEMMA NextYoung == YoungInv /\ [AnalyticsNext]_analyticsVars => YoungInv'
<1> SUFFICES ASSUME YoungInv, [AnalyticsNext]_analyticsVars PROVE YoungInv'
  OBVIOUS
<1>1. \A r \in Reader : elapsed[r] \in Nat /\ elapsed[r] \in 0..Patience /\ StackOK(stack[r], elapsed[r])
  BY AnalyticsAssumption DEF YoungInv
<1>2. store \in [Report -> EntryType] /\ ReportsAreYoung /\ DOMAIN stack = Reader
  BY DEF YoungInv
<1>3. store' = store => ReportsAreYoung'
  BY <1>2 DEF ReportsAreYoung, Live
<1>4. ASSUME NEW r \in Reader, NEW p \in Report, Ask(r, p) PROVE YoungInv'
  <2>1. store' = AfterGet(p) /\ elapsed' = elapsed /\ stack[r] = << >>
        /\ (stack' = stack \/ stack' = [stack EXCEPT ![r] = <<Call(p)>>])
    BY <1>4 DEF Ask
  <2>2. store' \in [Report -> EntryType] /\ ReportsAreYoung'
    BY <2>1, GetIsYoung
  <2>3. StackOK(<<Call(p)>>, elapsed[r])
    <3>1. CallOK(Call(p), elapsed[r])
      BY <1>1, CallIsOK
    <3>2. <<Call(p)>> \in Seq(CallType) /\ Len(<<Call(p)>>) = 1 /\ <<Call(p)>>[1] = Call(p)
      BY <3>1 DEF CallOK
    <3>. QED
      BY <3>1, <3>2 DEF StackOK
  <2>4. CASE stack' = stack
    BY <2>1, <2>2, <2>4 DEF YoungInv
  <2>5. CASE stack' = [stack EXCEPT ![r] = <<Call(p)>>]
    BY <2>1, <2>2, <2>3, <2>5, StackStep
  <2>. QED
    BY <2>1, <2>4, <2>5
<1>5. ASSUME NEW r \in Reader, TakeSections(r) PROVE YoungInv'
  <2> DEFINE call == Head(stack[r])
             e == elapsed[r]
  <2>1. stack[r] # << >> /\ store' = store /\ elapsed' = elapsed
    BY <1>5 DEF TakeSections, Under
  <2>2. CallOK(call, e) /\ call.report \in Report
    BY <1>1, <2>1, PopIsOK DEF CallOK, CallType
  <2>3. PICK c : /\ OnTop(r, c)
                 /\ \/ c = [call EXCEPT !.failed = TRUE]
                    \/ \E parts : \E holed \in BOOLEAN : c = WithParts(call, parts, holed, 0)
    <3> DEFINE sections == call.todo \ Report
               missing == {s \in sections : status[UpstreamOf(s)] # "up"}
               fatal == \E s \in missing : Fatal(call.report, s, status[UpstreamOf(s)])
               taken == WithParts(call, sections, missing # {}, 0)
               failed == [call EXCEPT !.failed = TRUE]
    <3>1. OnTop(r, IF fatal THEN failed ELSE taken)
      BY <1>5 DEF TakeSections
    <3>2. \E parts : \E holed \in BOOLEAN : taken = WithParts(call, parts, holed, 0)
      <4>1. (missing # {}) \in BOOLEAN
        OBVIOUS
      <4>. QED
        BY <4>1
    <3> HIDE DEF fatal, taken
    <3>3. CASE fatal
      BY <3>1, <3>3
    <3>4. CASE ~ fatal
      BY <3>1, <3>2, <3>4
    <3>. QED
      BY <3>3, <3>4
  <2>4. 0 \in Nat /\ 0 <= e + PartHorizon(call.report)
    BY <1>1, <2>2, HorizonParts
  <2> HIDE DEF call, e
  <2>5. e \in Nat /\ StackOK(stack[r], e)
    BY <1>1 DEF e
  <2>6. CallOK(c, e) /\ c.report = call.report
    <3>1. CASE c = [call EXCEPT !.failed = TRUE]
      BY <2>2, <2>5, <3>1, FailedIsOK
    <3>2. ASSUME NEW parts, NEW holed \in BOOLEAN, c = WithParts(call, parts, holed, 0)
          PROVE  CallOK(c, e) /\ c.report = call.report
      BY <2>2, <2>4, <2>5, <3>2, WithPartsIsOK
    <3>. QED
      BY <2>3, <3>1, <3>2
  <2>7. StackOK(<<c>> \o Tail(stack[r]), e)
    BY <2>1, <2>5, <2>6, TopIsOK DEF call
  <2>8. stack' = [stack EXCEPT ![r] = <<c>> \o Tail(stack[r])]
    BY <2>3 DEF OnTop
  <2>. QED
    BY <1>2, <1>3, <2>1, <2>7, <2>8, StackStep DEF e
<1>6. ASSUME NEW r \in Reader, NEW p \in Report, TakeReport(r, p) PROVE YoungInv'
  <2> DEFINE call == Head(stack[r])
             e == elapsed[r]
  <2>1. /\ stack[r] # << >> /\ store' = AfterGet(p) /\ elapsed' = elapsed
        /\ p \in call.todo \cap Report
        /\ \/ Live(p) /\ OnTop(r, WithParts(call, {p}, store[p].holed, store[p].age))
           \/ stack' = [stack EXCEPT ![r] = <<Call(p)>> \o stack[r]]
    BY <1>6 DEF TakeReport, Under
  <2>2. CallOK(call, e) /\ call.report \in Report
    BY <1>1, <2>1, PopIsOK DEF CallOK, CallType
  <2>3. p \in PartsOf(call.report)
    BY <2>1, <2>2 DEF CallOK
  <2>4. store' \in [Report -> EntryType] /\ ReportsAreYoung'
    BY <2>1, GetIsYoung
  <2> HIDE DEF call, e
  <2>5. e \in Nat /\ StackOK(stack[r], e)
    BY <1>1 DEF e
  <2>6. CASE Live(p) /\ OnTop(r, WithParts(call, {p}, store[p].holed, store[p].age))
    <3>1. store[p].holed \in BOOLEAN /\ store[p].age \in Nat /\ store[p].left \in Nat
      BY <1>2 DEF EntryType
    <3>2. store[p].age + store[p].left <= Horizon[p]
      BY <1>2, <2>6 DEF ReportsAreYoung
    <3>3. Horizon[p] <= PartHorizon(call.report) /\ PartHorizon(call.report) \in Nat /\ Horizon[p] \in Nat
      BY <2>2, <2>3, HorizonParts, AnalyticsAssumption
    <3>4. store[p].age <= e + PartHorizon(call.report)
      BY <2>5, <3>1, <3>2, <3>3
    <3> DEFINE c == WithParts(call, {p}, store[p].holed, store[p].age)
    <3>5. CallOK(c, e) /\ c.report = call.report
      BY <2>2, <2>5, <3>1, <3>4, WithPartsIsOK
    <3>6. stack' = [stack EXCEPT ![r] = <<c>> \o Tail(stack[r])]
      BY <2>6 DEF OnTop
    <3> HIDE DEF c
    <3>7. StackOK(<<c>> \o Tail(stack[r]), e)
      BY <2>1, <2>5, <3>5, TopIsOK DEF call
    <3>. QED
      BY <2>1, <2>4, <3>6, <3>7, StackStep DEF e
  <2>7. CASE stack' = [stack EXCEPT ![r] = <<Call(p)>> \o stack[r]]
    <3>1. CallOK(Call(p), e) /\ Call(p).report = p
      BY <2>5, CallIsOK DEF Call
    <3>2. StackOK(<<Call(p)>> \o stack[r], e)
      BY <2>3, <2>5, <3>1, PushIsOK DEF call
    <3>. QED
      BY <2>1, <2>4, <2>7, <3>2, StackStep DEF e
  <2>. QED
    BY <2>1, <2>6, <2>7
<1>7. ASSUME NEW r \in Reader, Return(r) PROVE YoungInv'
  <2> DEFINE call == Head(stack[r])
             rest == Tail(stack[r])
             e == elapsed[r]
             s == IF rest = << >> THEN << >> ELSE <<Resumed(Head(rest), call)>> \o Tail(rest)
             next == IF rest = << >> THEN 0 ELSE e
  <2>1. /\ stack[r] # << >>
        /\ store' = store \/ store' = SetEntry(call.report, call.holed, call.age)
        /\ stack' = [stack EXCEPT ![r] = s]
        /\ elapsed' = [elapsed EXCEPT ![r] = next]
    BY <1>7 DEF Return
  <2>2. /\ CallOK(call, e) /\ call \in CallType /\ StackOK(rest, e)
        /\ rest # << >> => call.report \in PartsOf(Head(rest).report)
    BY <1>1, <2>1, PopIsOK
  <2>3. store' \in [Report -> EntryType] /\ ReportsAreYoung'
    <3>1. CASE store' = SetEntry(call.report, call.holed, call.age)
      <4> HIDE DEF call, e
      <4>1. e \in 0..Patience
        BY <1>1 DEF e
      <4>. QED
        BY <2>2, <3>1, <4>1, SetIsYoung
    <3>2. CASE store' = store
      BY <1>2, <1>3, <3>2
    <3>. QED
      BY <2>1, <3>1, <3>2
  <2>4. StackOK(s, next) /\ next \in 0..Patience
    <3>1. CASE rest = << >>
      BY <3>1, AnalyticsAssumption DEF StackOK
    <3>2. CASE rest # << >>
      <4> DEFINE caller == Head(rest)
                 c == Resumed(caller, call)
      <4>1. CallOK(caller, e) /\ caller.report \in Report /\ call.report \in PartsOf(caller.report)
        BY <2>2, <3>2, PopIsOK DEF CallOK, CallType
      <4>2. call.holed \in BOOLEAN /\ call.age \in Nat /\ call.age <= e + PartHorizon(call.report)
            /\ call.report \in Report
        BY <2>2 DEF CallOK, CallType
      <4>3. /\ PartHorizon(call.report) <= PartHorizon(caller.report)
            /\ PartHorizon(call.report) \in Nat /\ PartHorizon(caller.report) \in Nat
        BY <4>1, <4>2, HorizonParts
      <4>4. \/ c = WithParts(caller, {call.report}, call.holed, call.age)
            \/ c = [caller EXCEPT !.failed = TRUE]
            \/ c = WithParts(caller, {call.report}, TRUE, 0)
        BY DEF Resumed
      <4>5. e \in Nat /\ StackOK(rest, e)
        BY <1>1, <2>2
      <4> HIDE DEF caller, c, e, call, rest
      <4>6. call.age <= e + PartHorizon(caller.report) /\ 0 <= e + PartHorizon(caller.report)
            /\ 0 \in Nat /\ TRUE \in BOOLEAN
        BY <4>2, <4>3, <4>5
      <4>7. CallOK(c, e) /\ c.report = caller.report
        <5>1. CASE c = WithParts(caller, {call.report}, call.holed, call.age)
          BY <4>1, <4>2, <4>5, <4>6, <5>1, WithPartsIsOK
        <5>2. CASE c = [caller EXCEPT !.failed = TRUE]
          BY <4>1, <4>5, <5>2, FailedIsOK
        <5>3. CASE c = WithParts(caller, {call.report}, TRUE, 0)
          <6> DEFINE w == WithParts(caller, {call.report}, TRUE, 0)
          <6>1. \A h \in BOOLEAN : LET d == WithParts(caller, {call.report}, h, 0)
                                  IN  CallOK(d, e) /\ d.report = caller.report
            BY <4>1, <4>5, <4>6, WithPartsIsOK
          <6>2. CallOK(w, e) /\ w.report = caller.report
            BY <6>1
          <6>. QED
            BY <5>3, <6>2
        <5>. QED
          BY <4>4, <5>1, <5>2, <5>3
      <4>8. StackOK(<<c>> \o Tail(rest), e)
        BY <3>2, <4>5, <4>7, TopIsOK DEF caller
      <4>9. s = <<c>> \o Tail(rest) /\ next = e
        BY <3>2 DEF c, caller
      <4>10. e \in 0..Patience
        BY <1>1 DEF e
      <4> HIDE DEF s, next
      <4>. QED
        BY <4>8, <4>9, <4>10
    <3>. QED
      BY <3>1, <3>2
  <2> HIDE DEF s, next
  <2>. QED
    BY <2>1, <2>3, <2>4 DEF YoungInv
<1>8. ASSUME NEW u \in Upstream, NEW how, Recovery(u) \/ Outage(u, how) PROVE YoungInv'
  BY <1>2, <1>3, <1>8 DEF Recovery, Outage, YoungInv
<1>9. CASE Tick
  <2>1. /\ \A r \in Reader : elapsed[r] < Patience \/ stack[r] = << >>
        /\ store' = [p \in Report |->
             IF store[p] = NoEntry THEN NoEntry
             ELSE [store[p] EXCEPT !.left = IF @ = 0 THEN 0 ELSE @ - 1, !.age = Grown(@)]]
        /\ stack' = [r \in Reader |-> [i \in DOMAIN stack[r] |-> [stack[r][i] EXCEPT !.age = Grown(@)]]]
        /\ elapsed' = [r \in Reader |-> IF stack[r] = << >> THEN 0 ELSE elapsed[r] + 1]
    BY <1>9 DEF Tick
  <2>2. ASSUME NEW p \in Report
        PROVE  store'[p] \in EntryType /\ (store'[p].left > 0 => store'[p].age + store'[p].left <= Horizon[p])
    <3>1. CASE store[p] = NoEntry
      <4>1. store'[p] = NoEntry
        BY <2>1, <3>1
      <4>2. NoEntry \in EntryType /\ NoEntry.left = 0
        BY DEF NoEntry, EntryType
      <4>. QED
        BY <4>1, <4>2
    <3>2. CASE store[p] # NoEntry
      <4> DEFINE old == store[p]
                 left == IF old.left = 0 THEN 0 ELSE old.left - 1
      <4>1. store'[p] = [old EXCEPT !.left = left, !.age = Grown(old.age)]
        BY <2>1, <3>2
      <4>2. old \in EntryType /\ old.left \in Nat /\ old.age \in Nat
            /\ (old.left > 0 => old.age + old.left <= Horizon[p])
        BY <1>2 DEF EntryType, ReportsAreYoung, Live
      <4>3. Grown(old.age) \in Nat /\ Grown(old.age) <= old.age + 1
        BY <4>2 DEF Grown
      <4>4. left \in Nat /\ (left > 0 => left + 1 = old.left)
        BY <4>2
      <4>5. Horizon[p] \in Nat
        BY HorizonParts, AnalyticsAssumption
      <4> HIDE DEF old, left
      <4>6. store'[p] \in EntryType /\ store'[p].left = left /\ store'[p].age = Grown(old.age)
        BY <4>1, <4>2, <4>3, <4>4 DEF EntryType
      <4>. QED
        BY <4>2, <4>3, <4>4, <4>5, <4>6
    <3>. QED
      BY <3>1, <3>2
  <2>3. ASSUME NEW r \in Reader
        PROVE  elapsed'[r] \in 0..Patience /\ StackOK(stack'[r], elapsed'[r])
    <3>1. stack'[r] = [i \in DOMAIN stack[r] |-> [stack[r][i] EXCEPT !.age = Grown(@)]]
      BY <2>1
    <3>2. CASE stack[r] = << >>
      <4>1. elapsed'[r] = 0
        BY <2>1, <3>2
      <4>2. stack'[r] = << >>
        BY <3>1, <3>2
      <4>. QED
        BY <4>1, <4>2, AnalyticsAssumption DEF StackOK
    <3>3. CASE stack[r] # << >>
      <4>1. elapsed'[r] = elapsed[r] + 1 /\ elapsed[r] < Patience
        BY <2>1, <3>3
      <4>2. StackOK([i \in DOMAIN stack[r] |-> [stack[r][i] EXCEPT !.age = Grown(@)]], elapsed[r] + 1)
        BY <1>1, TickIsOK
      <4>3. StackOK(stack'[r], elapsed'[r])
        BY <3>1, <4>1, <4>2
      <4>. QED
        BY <1>1, <4>1, <4>3, AnalyticsAssumption
    <3>. QED
      BY <3>2, <3>3
  <2>4. store' \in [Report -> EntryType] /\ ReportsAreYoung'
    BY <2>1, <2>2 DEF ReportsAreYoung, Live
  <2>5. elapsed' \in [Reader -> 0..Patience] /\ DOMAIN stack' = Reader
    BY <2>1, <2>3
  <2>. QED
    BY <2>3, <2>4, <2>5 DEF YoungInv
<1>10. CASE UNCHANGED analyticsVars
  BY <1>2, <1>3, <1>10 DEF analyticsVars, YoungInv
<1>. QED
  BY <1>4, <1>5, <1>6, <1>7, <1>8, <1>9, <1>10 DEF AnalyticsNext, ReaderStep

\* What a report says is never older, when it is last served, than the time it
\* and its parts are kept and their requests took: services/cache.py under the
\* reports that are made of reports.
THEOREM ReportsStayYoung == AnalyticsInit /\ [][AnalyticsNext]_analyticsVars => []ReportsAreYoung
<1>1. YoungInv => ReportsAreYoung
  BY DEF YoungInv
<1>. QED
  BY InitYoung, NextYoung, <1>1, PTL

-----------------------------------------------------------------------------
(* Pull request counts (RepoList).                                         *)

CountUpTo(P, n)   == Cardinality({i \in 1..n : i \in P})
CountOnPage(P, n, k) == Cardinality({j \in 1..k : n + j \in P})

\* Positions n+1..n+k of a set are those that a page of k finds after n.
LEMMA CountInTwo ==
  ASSUME NEW P, NEW n \in Nat, NEW k \in Nat
  PROVE  /\ CountUpTo(P, n) \in Nat
         /\ CountUpTo(P, n + k) = CountUpTo(P, n) + CountOnPage(P, n, k)
<1> DEFINE A == {i \in 1..n : i \in P}
           B == {i \in (n + 1)..(n + k) : i \in P}
           C == {j \in 1..k : n + j \in P}
           D == {i \in 1..(n + k) : i \in P}
           f == [j \in C |-> n + j]
<1>1. IsFiniteSet(A) /\ IsFiniteSet(B) /\ IsFiniteSet(C)
  <2>1. IsFiniteSet(1..n) /\ IsFiniteSet((n + 1)..(n + k)) /\ IsFiniteSet(1..k)
    BY FS_Interval
  <2>. QED
    BY <2>1, FS_Subset
<1>2. Cardinality(B) = Cardinality(C)
  <2>1. f \in [C -> B]
    OBVIOUS
  <2>2. \A x, y \in C : f[x] = f[y] => x = y
    OBVIOUS
  <2>3. \A b \in B : \E c \in C : f[c] = b
    <3>1. \A b \in B : b - n \in C /\ f[b - n] = b
      OBVIOUS
    <3>. QED
      BY <3>1
  <2> HIDE DEF f, B, C
  <2>4. f \in Bijection(C, B)
    BY <2>1, <2>2, <2>3 DEF Bijection, Injection, Surjection, IsInjective
  <2>5. ExistsBijection(C, B)
    BY <2>4 DEF ExistsBijection
  <2>. QED
    BY <1>1, <2>5, FS_Bijection
<1>3. A \cup B = D /\ A \cap B = {}
  OBVIOUS
<1> HIDE DEF A, B, C, D
<1>4. Cardinality(D) = Cardinality(A) + Cardinality(B) - 0
  BY <1>1, <1>3, FS_Union, FS_EmptySet
<1>5. Cardinality(A) \in Nat /\ Cardinality(B) \in Nat
  BY <1>1, FS_CardinalityType
<1>6. Cardinality(D) = Cardinality(A) + Cardinality(C)
  BY <1>2, <1>4, <1>5
<1>. QED
  BY <1>5, <1>6 DEF A, C, D, CountUpTo, CountOnPage

-----------------------------------------------------------------------------

\* Open pull requests of r among the first n that the search gives.
PlacesOf(r) == {j \in DOMAIN open : RepoOfPull[open[j]] = r}

OpenAmong(r, n) == CountUpTo(PlacesOf(r), n)

\* While a sweep is under way and nothing moved, it has counted every pull
\* request of the pages it has seen, and all those pages were full.
SweepInv ==
  calm /\ page > 0 =>
    /\ seen = (page - 1) * PerPage /\ seen <= Len(open)
    /\ \A r \in Range(Repository) : counts[r] = OpenAmong(r, seen)

RepoInv ==
  /\ open \in Seq(Pull)
  /\ kept \subseteq Range(Repository)
  /\ page \in Nat /\ seen \in Nat
  /\ counts \in [Range(Repository) -> Nat]
  /\ calm \in BOOLEAN
  /\ DOMAIN rows \subseteq Range(Repository)
  /\ SweepInv
  /\ CountsAreBounds

LEMMA AmongAll ==
  ASSUME open \in Seq(Pull)
  PROVE  \A r : OpenIn(r) = OpenAmong(r, Len(open))
<1>1. DOMAIN open = 1..Len(open)
  BY LenProperties
<1>2. \A r : PlacesOf(r) = {i \in 1..Len(open) : i \in PlacesOf(r)}
  BY <1>1 DEF PlacesOf
<1>. QED
  BY <1>2 DEF OpenIn, OpenAmong, PlacesOf, CountUpTo

\* A page adds what it holds, and some may be left.
IsPage(items, n, k) == DOMAIN items = 1..k /\ \A j \in 1..k : items[j] = open[n + j]

LEMMA AmongPage ==
  ASSUME open \in Seq(Pull), NEW n \in Nat, NEW k \in Nat, n + k <= Len(open), NEW r,
         NEW items, IsPage(items, n, k)
  PROVE  /\ OpenAmong(r, n) \in Nat
         /\ OpenAmong(r, n + k) =
              OpenAmong(r, n) + Cardinality({j \in DOMAIN items : RepoOfPull[items[j]] = r})
         /\ OpenAmong(r, n) <= OpenIn(r)
         /\ OpenAmong(r, n + k) <= OpenIn(r)
<1>1. DOMAIN open = 1..Len(open) /\ Len(open) \in Nat
  BY LenProperties
<1>2. Cardinality({j \in DOMAIN items : RepoOfPull[items[j]] = r}) = CountOnPage(PlacesOf(r), n, k)
  <2>1. {j \in DOMAIN items : RepoOfPull[items[j]] = r} = {j \in 1..k : n + j \in PlacesOf(r)}
    BY <1>1 DEF IsPage, PlacesOf
  <2>. QED
    BY <2>1 DEF CountOnPage
<1>3. ASSUME NEW m \in Nat, m <= Len(open) PROVE OpenAmong(r, m) <= OpenIn(r)
  <2> DEFINE A == {i \in 1..m : i \in PlacesOf(r)}
             B == {i \in 1..Len(open) : i \in PlacesOf(r)}
  <2>1. IsFiniteSet(1..Len(open))
    BY <1>1, FS_Interval
  <2>2. A \subseteq B /\ B \subseteq 1..Len(open)
    BY <1>1, <1>3
  <2>3. OpenIn(r) = Cardinality(B) /\ OpenAmong(r, m) = Cardinality(A)
    BY AmongAll DEF OpenAmong, CountUpTo
  <2> HIDE DEF A, B
  <2>4. IsFiniteSet(B)
    BY <2>1, <2>2, FS_Subset
  <2>. QED
    BY <2>2, <2>3, <2>4, FS_Subset
<1>4. OpenAmong(r, n) <= OpenIn(r) /\ OpenAmong(r, n + k) <= OpenIn(r)
  BY <1>1, <1>3
<1>. QED
  BY <1>2, <1>4, CountInTwo DEF OpenAmong

LEMMA InitRepo == RepoInit => RepoInv
<1> SUFFICES ASSUME RepoInit PROVE RepoInv
  OBVIOUS
<1>1. open \in Seq(Pull)
  <2>1. PICK m \in 0..Cardinality(Pull) : open \in [1..m -> Pull]
    BY DEF RepoInit, Orders, SeqOf
  <2>. QED
    BY <2>1
<1>2. DOMAIN rows = {}
  BY DEF RepoInit, NoRows
<1>. QED
  BY <1>1, <1>2 DEF RepoInit, RepoInv, SweepInv, CountsAreBounds, Nothing

\* The list is made of what was counted; nothing moved, or the list says little.
LEMMA PublishBounds ==
  ASSUME open \in Seq(Pull), NEW K, K \subseteq Range(Repository), kept = K,
         NEW c \in [Range(Repository) -> Nat], NEW n \in 0..Len(open), NEW partial \in BOOLEAN,
         \A r \in Range(Repository) : c[r] = OpenAmong(r, n),
         \A r \in Range(Repository) : c[r] > 0 /\ ~partial => n = Len(open),
         Publish(c, partial), open' = open
  PROVE  CountsAreBounds'
<1>1. Len(open) \in Nat
  BY LenProperties
<1>2. rows' = [r \in K |-> [open_prs |-> c[r], approx |-> partial /\ c[r] > 0]]
  BY DEF Publish
<1>3. ASSUME NEW r \in K
      PROVE  /\ rows'[r].open_prs <= OpenIn(r)'
             /\ rows'[r].open_prs > 0 /\ ~ rows'[r].approx => rows'[r].open_prs = OpenIn(r)'
  <2>1. rows'[r].open_prs = c[r] /\ rows'[r].approx = (partial /\ c[r] > 0)
    BY <1>2
  <2>2. c[r] <= OpenIn(r)
    <3> DEFINE items == [j \in 1..0 |-> open[n + j]]
    <3>1. n \in Nat /\ 0 \in Nat /\ n + 0 <= Len(open) /\ IsPage(items, n, 0)
      BY <1>1 DEF IsPage
    <3> HIDE DEF items
    <3>. QED
      BY <3>1, AmongPage DEF items
  <2>3. c[r] > 0 /\ ~partial => c[r] = OpenIn(r)
    BY AmongAll
  <2>4. OpenIn(r)' = OpenIn(r)
    BY DEF OpenIn
  <2>. QED
    BY <2>1, <2>2, <2>3, <2>4
<1>. QED
  BY <1>2, <1>3 DEF CountsAreBounds

LEMMA NextRepo == RepoInv /\ [RepoNext]_repoVars => RepoInv'
<1> SUFFICES ASSUME RepoInv, [RepoNext]_repoVars PROVE RepoInv'
  OBVIOUS
<1>1. /\ PerPage \in Nat \ {0} /\ CountPages \in Nat \ {0} /\ RepoPages \in Nat \ {0}
      /\ Repository \in Seq(Range(Repository)) /\ Len(open) \in Nat
  BY RepoListAssumption, LenProperties DEF RepoInv
<1>2. CASE ListRepos
  <2>1. /\ \E raw \in {Installed, Public} : kept' = Range(raw) \ Archived
        /\ page' = IF kept' = {} THEN 0 ELSE 1
        /\ counts' = Nothing /\ seen' = 0 /\ calm' = TRUE /\ rows' = NoRows
        /\ open' = open
    BY <1>2 DEF ListRepos
  <2>2. kept' \subseteq Range(Repository)
    <3>1. ASSUME NEW m \in Int, NEW n \in Int, m >= 1, n <= Len(Repository)
          PROVE  Range(SubSeq(Repository, m, n)) \subseteq Range(Repository)
      <4>1. SubSeq(Repository, m, n) \in Seq(Range(Repository))
        BY <1>1, <3>1, SubSeqProperties
      <4>2. \A i \in DOMAIN SubSeq(Repository, m, n) : SubSeq(Repository, m, n)[i] \in Range(Repository)
        BY <4>1, ElementOfSeq, LenProperties
      <4>. QED
        BY <4>2 DEF Range
    <3>2. Len(Repository) \in Nat
      BY <1>1, LenProperties
    <3>3. Range(Installed) \subseteq Range(Repository)
      <4>1. (1 - 1) * PerPage + 1 = 1 /\ 1 * PerPage = PerPage
        BY <1>1
      <4>. QED
        BY <1>1, <3>1, <3>2, <4>1 DEF Installed, PageOf
    <3>4. Range(Public) \subseteq Range(Repository)
      <4>1. RepoPages * PerPage \in Int
        BY <1>1
      <4>. QED
        BY <3>1, <3>2, <4>1 DEF Public
    <3>. QED
      BY <2>1, <3>3, <3>4
  <2>3. SweepInv'
    <3>1. \A r : OpenAmong(r, 0)' = 0
      BY FS_EmptySet DEF OpenAmong, CountUpTo
    <3>2. \A r \in Range(Repository) : counts'[r] = 0
      BY <2>1 DEF Nothing
    <3>3. page' > 0 => seen' = (page' - 1) * PerPage /\ seen' <= Len(open')
      BY <1>1, <2>1
    <3>. QED
      BY <2>1, <3>1, <3>2, <3>3 DEF SweepInv
  <2>4. DOMAIN rows' = {}
    BY <2>1 DEF NoRows
  <2>5. counts' \in [Range(Repository) -> Nat]
    BY <2>1 DEF Nothing
  <2>. QED
    BY <2>1, <2>2, <2>3, <2>4, <2>5 DEF RepoInv, CountsAreBounds
<1>3. CASE CountPage
  <2> DEFINE items == PageOf(open, page)
             n == (page - 1) * PerPage
             more == Cardinality({i \in DOMAIN items : RepoOfPull[items[i]] = 1})
  <2>1. /\ page > 0 /\ counts' = Counted(items) /\ seen' = seen + Len(items)
        /\ UNCHANGED <<open, kept, calm>>
        /\ \/ Publish(counts', seen' < Len(open))
           \/ Len(items) >= PerPage /\ page' = page + 1 /\ UNCHANGED rows
    BY <1>1, <1>3 DEF CountPage
  <2>2. n \in Nat /\ page * PerPage = n + PerPage /\ ((page + 1) - 1) * PerPage = n + PerPage
    BY <1>1, <2>1 DEF RepoInv
  <2> HIDE DEF n
  <2>3. items = SubSeq(open, n + 1, IF n + PerPage < Len(open) THEN n + PerPage ELSE Len(open))
    BY <2>2 DEF PageOf, n
  <2>4. PICK k \in Nat : /\ Len(items) = k /\ DOMAIN items = 1..k /\ k <= PerPage
                         /\ n <= Len(open) => n + k <= Len(open)
                         /\ n <= Len(open) /\ k < PerPage => n + k = Len(open)
                         /\ \A j \in 1..k : items[j] = open[n + j]
                         /\ items \in Seq(Pull)
    <3> DEFINE hi == IF n + PerPage < Len(open) THEN n + PerPage ELSE Len(open)
    <3>1. hi \in Nat /\ hi <= Len(open) /\ hi <= n + PerPage
      BY <1>1, <2>2
    <3>2. hi = n + PerPage \/ hi = Len(open)
      OBVIOUS
    <3> HIDE DEF hi
    <3>3. /\ SubSeq(open, n + 1, hi) \in Seq(Pull)
          /\ Len(SubSeq(open, n + 1, hi)) = IF n + 1 <= hi THEN hi - (n + 1) + 1 ELSE 0
          /\ \A j \in 1..(hi - (n + 1) + 1) : SubSeq(open, n + 1, hi)[j] = open[(n + 1) + j - 1]
      BY <1>1, <2>2, <3>1, SubSeqProperties DEF RepoInv
    <3>4. items = SubSeq(open, n + 1, hi)
      BY <2>3 DEF hi
    <3> HIDE DEF items
    <3>5. Len(items) \in Nat /\ DOMAIN items = 1..Len(items)
      BY <3>3, <3>4, LenProperties
    <3>6. Len(items) = IF n + 1 <= hi THEN hi - n ELSE 0
      BY <2>2, <3>1, <3>3, <3>4
    <3>7. \A j \in 1..Len(items) : items[j] = open[n + j]
      BY <2>2, <3>1, <3>3, <3>4, <3>6
    <3>8. /\ Len(items) <= PerPage
          /\ n <= Len(open) => n + Len(items) <= Len(open)
          /\ n <= Len(open) /\ Len(items) < PerPage => n + Len(items) = Len(open)
      BY <1>1, <2>2, <3>1, <3>2, <3>6
    <3>. QED
      BY <3>3, <3>4, <3>5, <3>7, <3>8
  <2> HIDE DEF items
  <2>5. /\ seen' = seen + k /\ seen' \in Nat
        /\ counts' = [r \in Range(Repository) |-> counts[r] + Cardinality({i \in DOMAIN items : RepoOfPull[items[i]] = r})]
    BY <2>1, <2>4 DEF Counted, RepoInv
  <2>6. \A r : Cardinality({i \in DOMAIN items : RepoOfPull[items[i]] = r}) \in Nat
    <3>1. IsFiniteSet(DOMAIN items)
      BY <2>4, FS_Interval
    <3>2. \A r : {i \in DOMAIN items : RepoOfPull[items[i]] = r} \subseteq DOMAIN items
      OBVIOUS
    <3>. QED
      BY <3>1, <3>2, FS_Subset, FS_CardinalityType
  <2>7. counts' \in [Range(Repository) -> Nat]
    <3>1. \A r \in Range(Repository) : counts[r] \in Nat
      BY DEF RepoInv
    <3>. QED
      BY <2>5, <2>6, <3>1
  <2>8. calm => /\ seen = n /\ n + k <= Len(open)
                /\ \A r \in Range(Repository) : counts'[r] = OpenAmong(r, n + k)
    <3> SUFFICES ASSUME calm
                 PROVE  /\ seen = n /\ n + k <= Len(open)
                        /\ \A r \in Range(Repository) : counts'[r] = OpenAmong(r, n + k)
      OBVIOUS
    <3>1. seen = n /\ n <= Len(open) /\ \A r \in Range(Repository) : counts[r] = OpenAmong(r, n)
      BY <2>1 DEF RepoInv, SweepInv, n
    <3>2. n + k <= Len(open)
      BY <2>4, <3>1
    <3>3. ASSUME NEW r \in Range(Repository) PROVE counts'[r] = OpenAmong(r, n + k)
      <4>1. OpenAmong(r, n + k) = OpenAmong(r, n) + Cardinality({i \in DOMAIN items : RepoOfPull[items[i]] = r})
        <5>1. IsPage(items, n, k)
          BY <2>4 DEF IsPage
        <5>2. open \in Seq(Pull)
          BY DEF RepoInv
        <5>. QED
          BY <2>2, <2>4, <3>2, <5>1, <5>2, AmongPage
      <4>. QED
        BY <2>5, <3>1, <4>1
    <3>. QED
      BY <3>1, <3>2, <3>3
  <2>9. ASSUME NEW r, NEW m PROVE OpenAmong(r, m)' = OpenAmong(r, m)
    BY <2>1 DEF OpenAmong, PlacesOf
  <2>10. CASE Publish(counts', seen' < Len(open))
    <3>1. page' = 0 /\ DOMAIN rows' = kept
      BY <2>10 DEF Publish
    <3>2. calm' => CountsAreBounds'
      <4> SUFFICES ASSUME calm PROVE CountsAreBounds'
        BY <2>1
      <4> DEFINE c == counts'
                 partial == seen' < Len(open)
                 m == n + k
      <4>1. c \in [Range(Repository) -> Nat] /\ m \in 0..Len(open) /\ partial \in BOOLEAN
        BY <1>1, <2>2, <2>4, <2>7, <2>8
      <4>2. \A r \in Range(Repository) : c[r] = OpenAmong(r, m)
        BY <2>8
      <4>3. ~partial => m = Len(open)
        BY <1>1, <2>2, <2>4, <2>5, <2>8
      <4>4. Publish(c, partial) /\ open' = open
        BY <2>1, <2>10
      <4> HIDE DEF c, partial, m
      <4>. QED
        BY <4>1, <4>2, <4>3, <4>4, PublishBounds DEF RepoInv
    <3>3. CountsAreBounds'
      BY <3>2 DEF CountsAreBounds
    <3>. QED
      BY <2>1, <2>5, <2>7, <3>1, <3>3 DEF RepoInv, SweepInv
  <2>11. CASE Len(items) >= PerPage /\ page' = page + 1 /\ UNCHANGED rows
    <3>1. k = PerPage
      BY <1>1, <2>4, <2>11
    <3>2. SweepInv'
      <4> SUFFICES ASSUME calm
                   PROVE  /\ seen' = (page' - 1) * PerPage /\ seen' <= Len(open')
                          /\ \A r \in Range(Repository) : counts'[r] = OpenAmong(r, seen)'
        BY <2>1 DEF SweepInv
      <4>1. seen' = n + k /\ n + k <= Len(open)
        BY <2>5, <2>8
      <4>2. n + k = (page' - 1) * PerPage
        BY <2>2, <2>11, <3>1
      <4>3. ASSUME NEW r \in Range(Repository) PROVE counts'[r] = OpenAmong(r, seen)'
        <5>1. counts'[r] = OpenAmong(r, n + k)
          BY <2>8
        <5>. QED
          BY <2>1, <4>1, <5>1 DEF OpenAmong, PlacesOf
      <4>. QED
        BY <2>1, <4>1, <4>2, <4>3
    <3>3. CountsAreBounds'
      BY <2>1, <2>11 DEF RepoInv, CountsAreBounds, OpenIn
    <3>. QED
      BY <2>1, <2>5, <2>7, <2>11, <3>2, <3>3 DEF RepoInv
  <2>. QED
    BY <2>1, <2>10, <2>11
<1>4. CASE FailPage
  <2> DEFINE partial == \E r \in DOMAIN counts : counts[r] > 0
  <2>1. page > 0 /\ Publish(counts, partial) /\ UNCHANGED <<open, kept, counts, seen, calm>>
    BY <1>4 DEF FailPage
  <2>2. \A r \in Range(Repository) : counts[r] > 0 => partial
    BY DEF RepoInv
  <2>3. partial \in BOOLEAN
    OBVIOUS
  <2> HIDE DEF partial
  <2>4. page' = 0 /\ DOMAIN rows' = kept
    BY <2>1 DEF Publish
  <2>5. ASSUME calm PROVE CountsAreBounds'
    <3>1. seen \in 0..Len(open) /\ \A r \in Range(Repository) : counts[r] = OpenAmong(r, seen)
      BY <1>1, <2>1, <2>5 DEF RepoInv, SweepInv
    <3>. QED
      BY <2>1, <2>2, <2>3, <3>1, PublishBounds DEF RepoInv
  <2>6. CountsAreBounds'
    BY <2>1, <2>5 DEF CountsAreBounds
  <2>. QED
    BY <2>1, <2>4, <2>6 DEF RepoInv, SweepInv
<1>5. ASSUME NEW p \in Pull, OpenPull(p) \/ ClosePull(p) PROVE RepoInv'
  <2>1. calm' = FALSE /\ UNCHANGED <<kept, page, counts, seen, rows>>
    BY <1>5 DEF OpenPull, ClosePull
  <2>2. open' \in Seq(Pull)
    <3>1. CASE OpenPull(p)
      BY <3>1 DEF OpenPull, RepoInv
    <3>2. CASE ClosePull(p)
      <4>1. PICK i \in DOMAIN open : open' = SubSeq(open, 1, i - 1) \o SubSeq(open, i + 1, Len(open))
        BY <3>2 DEF ClosePull, RemoveAt
      <4>2. i \in 1..Len(open)
        BY <4>1, LenProperties DEF RepoInv
      <4>3. SubSeq(open, 1, i - 1) \in Seq(Pull) /\ SubSeq(open, i + 1, Len(open)) \in Seq(Pull)
        BY <1>1, <4>2, SubSeqProperties DEF RepoInv
      <4>. QED
        BY <4>1, <4>3, ConcatProperties
    <3>. QED
      BY <1>5, <3>1, <3>2
  <2>. QED
    BY <2>1, <2>2 DEF RepoInv, SweepInv, CountsAreBounds
<1>6. CASE UNCHANGED repoVars
  BY <1>6 DEF repoVars, RepoInv, SweepInv, CountsAreBounds, OpenAmong, PlacesOf, OpenIn
<1>. QED
  BY <1>2, <1>3, <1>4, <1>5, <1>6 DEF RepoNext

\* While no pull request is opened or closed, a count of the list is never above
\* the truth, and is the truth unless it is zero or marked: _open_pr_counts of
\* repos.py, wherever its sweep broke off.
THEOREM CountsBound == RepoInit /\ [][RepoNext]_repoVars => []CountsAreBounds
<1>1. RepoInv => CountsAreBounds
  BY DEF RepoInv
<1>. QED
  BY InitRepo, NextRepo, <1>1, PTL

-----------------------------------------------------------------------------
(* The fusion of two rankings (HybridSearch).                              *)

\* A ranking: points, each once.
Ranking(r) == r \in Seq(Point) /\ IsInjective(r)

\* What the result is made of: two rankings, and nothing before the fusion.
FusionInv ==
  /\ present \subseteq Point
  /\ Ranking(hits) /\ Ranking(ranks)
  /\ \/ found = << >>
     \/ search = "done" /\ found = FirstK(Fused)

-----------------------------------------------------------------------------
(* Scores. *)

LEMMA QuotientFalls ==
  ASSUME NEW n \in Nat, NEW a \in Nat \ {0}, NEW b \in Nat \ {0}, a <= b
  PROVE  n \div b \in Nat /\ n \div a \in Nat /\ n \div b <= n \div a
<1> DEFINE q == n \div b
           p == n \div a
<1>1. q \in Nat /\ b * q <= n
  OBVIOUS
<1>2. p \in Nat /\ n < a * (p + 1)
  OBVIOUS
<1> HIDE DEF p, q
<1>3. a * q <= b * q
  BY <1>1
<1>4. a * q < a * (p + 1)
  BY <1>1, <1>2, <1>3
<1>5. q < p + 1
  BY <1>1, <1>2, <1>4
<1>. QED
  BY <1>1, <1>2, <1>5 DEF p, q

LEMMA RrfFalls ==
  ASSUME NEW i \in Nat, NEW j \in Nat, i <= j
  PROVE  /\ Rrf(i) \in Nat /\ Rrf(j) \in Nat
         /\ Rrf(j) <= Rrf(i) /\ Rrf(i) <= 16666
<1> DEFINE n == 1000000
           a == 60 + i
           b == 60 + j
<1>1. n \in Nat /\ a \in Nat \ {0} /\ b \in Nat \ {0} /\ 60 \in Nat \ {0} /\ 60 <= a /\ a <= b
  OBVIOUS
<1>2. n \div 60 = 16666 /\ Rrf(i) = n \div a /\ Rrf(j) = n \div b
  BY DEF Rrf
<1> HIDE DEF n, a, b
<1>3. n \div a \in Nat /\ n \div a <= n \div 60
  BY <1>1, QuotientFalls
<1>4. n \div b \in Nat /\ n \div b <= n \div a
  BY <1>1, QuotientFalls
<1>. QED
  BY <1>2, <1>3, <1>4

\* The place of a point in a ranking.
LEMMA RankIsPlace ==
  ASSUME NEW r, Ranking(r)
  PROVE  /\ Len(r) \in Nat /\ ToSet(r) \subseteq Point
         /\ \A p \in ToSet(r) : RankIn(r, p) \in 0..(Len(r) - 1) /\ r[RankIn(r, p) + 1] = p
         /\ \A i \in 1..Len(r) : r[i] \in ToSet(r) /\ RankIn(r, r[i]) = i - 1
<1>1. r \in Seq(Point) /\ Len(r) \in Nat /\ DOMAIN r = 1..Len(r)
  BY LenProperties DEF Ranking
<1>2. ToSet(r) = {r[i] : i \in 1..Len(r)}
  BY <1>1 DEF ToSet
<1>3. ASSUME NEW p \in ToSet(r)
      PROVE  RankIn(r, p) \in 0..(Len(r) - 1) /\ r[RankIn(r, p) + 1] = p
  <2> DEFINE k == CHOOSE i \in DOMAIN r : r[i] = p
  <2>1. \E i \in DOMAIN r : r[i] = p
    BY <1>1, <1>2
  <2>2. k \in DOMAIN r /\ r[k] = p
    BY <2>1
  <2>3. RankIn(r, p) = k - 1
    BY DEF RankIn
  <2> HIDE DEF k
  <2>4. k \in 1..Len(r)
    BY <1>1, <2>2
  <2>5. RankIn(r, p) + 1 = k /\ RankIn(r, p) \in 0..(Len(r) - 1)
    BY <1>1, <2>3, <2>4
  <2>. QED
    BY <2>2, <2>5
<1>4. ASSUME NEW i \in 1..Len(r) PROVE r[i] \in ToSet(r) /\ RankIn(r, r[i]) = i - 1
  <2>1. r[i] \in ToSet(r)
    BY <1>2
  <2> DEFINE k == RankIn(r, r[i])
  <2>2. k \in 0..(Len(r) - 1) /\ r[k + 1] = r[i]
    BY <1>3, <2>1
  <2> HIDE DEF k
  <2>3. k + 1 \in 1..Len(r)
    BY <1>1, <2>2
  <2>4. k + 1 = i
    BY <1>1, <2>2, <2>3 DEF Ranking, IsInjective
  <2>. QED
    BY <2>1, <2>2, <2>4 DEF k
<1>5. ToSet(r) \subseteq Point
  BY <1>1, <1>2, ElementOfSeq
<1>. QED
  BY <1>1, <1>3, <1>4, <1>5

LEMMA SubsetRanking ==
  ASSUME NEW S \in SUBSET Point, NEW limit \in Nat, NEW r \in Rankings(S, limit)
  PROVE  Ranking(r)
<1> DEFINE k == IF Cardinality(S) < limit THEN Cardinality(S) ELSE limit
<1>1. PICK T \in kSubset(k, S) : r \in [1..Cardinality(T) -> T] /\ IsInjective(r)
  BY DEF Rankings
<1>2. T \subseteq Point /\ Cardinality(T) = k
  BY <1>1 DEF kSubset
<1>3. Cardinality(S) \in Nat
  BY SearchAssumption, FS_Subset, FS_CardinalityType
<1>4. k \in Nat
  BY <1>3
<1> HIDE DEF k
<1>5. r \in [1..k -> Point]
  BY <1>1, <1>2
<1>6. r \in Seq(Point)
  BY <1>4, <1>5
<1>. QED
  BY <1>1, <1>6 DEF Ranking

-----------------------------------------------------------------------------
(* The order of the fusion. *)

Compared == {pq \in Ranked \X Ranked : Before(pq[1], pq[2])}

LEMMA ScoreIsNat ==
  ASSUME Ranking(hits), Ranking(ranks), NEW p
  PROVE  /\ Score(p) \in Nat /\ Boost(p) \in Nat
         /\ Boost(p) <= Score(p) /\ Score(p) <= Boost(p) + 33332
<1>1. p \in ToSet(hits) => RankIn(hits, p) \in Nat
  BY RankIsPlace
<1>2. p \in ToSet(ranks) => RankIn(ranks, p) \in Nat
  BY RankIsPlace
<1>3. Boost(p) \in Nat
  BY DEF Boost
<1>4. \A i \in Nat : Rrf(i) \in Nat /\ Rrf(i) <= 16666
  BY RrfFalls
<1> HIDE DEF Rrf, Boost
<1>. QED
  BY <1>1, <1>2, <1>3, <1>4 DEF Score

LEMMA InsertedOnce ==
  ASSUME Ranking(hits), Ranking(ranks)
  PROVE  /\ \A p \in Ranked : Inserted(p) \in Nat
         /\ \A p, q \in Ranked : Inserted(p) = Inserted(q) => p = q
<1>1. \A p \in Ranked : p \in ToSet(hits) => Inserted(p) = RankIn(hits, p) /\ Inserted(p) \in 0..(Len(hits) - 1)
  BY RankIsPlace DEF Inserted
<1>2. \A p \in Ranked : p \notin ToSet(hits) => /\ p \in ToSet(ranks) /\ RankIn(ranks, p) \in Nat
                                               /\ Inserted(p) = Len(hits) + RankIn(ranks, p)
  BY RankIsPlace DEF Inserted, Ranked
<1>3. Len(hits) \in Nat
  BY RankIsPlace
<1>4. \A p \in Ranked : Inserted(p) \in Nat
  BY <1>1, <1>2, <1>3
<1>5. ASSUME NEW p \in Ranked, NEW q \in Ranked, Inserted(p) = Inserted(q) PROVE p = q
  <2>1. CASE p \in ToSet(hits)
    <3>1. q \in ToSet(hits)
      BY <1>1, <1>2, <1>3, <1>5, <2>1
    <3>2. RankIn(hits, p) = RankIn(hits, q)
      BY <1>1, <1>5, <2>1, <3>1
    <3>. QED
      BY <2>1, <3>1, <3>2, RankIsPlace
  <2>2. CASE p \notin ToSet(hits)
    <3>1. q \notin ToSet(hits)
      BY <1>1, <1>2, <1>3, <1>5, <2>2
    <3>2. RankIn(ranks, p) = RankIn(ranks, q)
      BY <1>2, <1>3, <1>5, <2>2, <3>1
    <3>. QED
      BY <1>2, <2>2, <3>1, <3>2, RankIsPlace
  <2>. QED
    BY <2>1, <2>2
<1>. QED
  BY <1>4, <1>5

LEMMA FusionOrders ==
  ASSUME Ranking(hits), Ranking(ranks)
  PROVE  OrderedBy(Compared, Ranked)
<1>1. \A p, q \in Ranked : <<p, q>> \in Compared <=> Before(p, q)
  BY DEF Compared
<1>2. \A p \in Ranked : Score(p) \in Nat /\ Inserted(p) \in Nat
  BY ScoreIsNat, InsertedOnce
<1>3. \A p, q \in Ranked : Inserted(p) = Inserted(q) => p = q
  BY InsertedOnce
<1>4. \A p, q, r \in Ranked : Before(p, q) /\ Before(q, r) => Before(p, r)
  BY <1>2 DEF Before
<1>5. \A p, q \in Ranked : p # q => Before(p, q) \/ Before(q, p)
  BY <1>2, <1>3 DEF Before
<1>. QED
  BY <1>1, <1>4, <1>5 DEF OrderedBy

\* The fused list holds every ranked point, once, in the order of the scores.
LEMMA FusedIsSorted ==
  ASSUME Ranking(hits), Ranking(ranks)
  PROVE  /\ Cardinality(Ranked) \in Nat
         /\ Fused \in [1..Cardinality(Ranked) -> Ranked]
         /\ \A p \in Ranked : \E i \in 1..Cardinality(Ranked) : Fused[i] = p
         /\ \A i, j \in 1..Cardinality(Ranked) : i < j => Before(Fused[i], Fused[j])
<1> DEFINE n == Cardinality(Ranked)
<1>1. IsFiniteSet(Ranked) /\ n \in Nat
  <2>1. Ranked \subseteq Point
    BY RankIsPlace DEF Ranked
  <2>. QED
    BY <2>1, SearchAssumption, FS_Subset, FS_CardinalityType
<1>2. PICK r : Sorts(r, Ranked, Compared)
  BY <1>1, FusionOrders, SortExists
<1>3. /\ r \in [1..n -> Ranked]
      /\ \A p \in Ranked : \E i \in 1..n : r[i] = p
      /\ \A i, j \in 1..n : i < j => Before(r[i], r[j])
  BY <1>2 DEF Sorts, Compared
<1>4. DOMAIN r = 1..n /\ ToSet(r) = Ranked
  BY <1>3 DEF ToSet
<1>5. Fuses(r)
  BY <1>3, <1>4 DEF Fuses
<1>6. Fused \in [1..n -> Ranked] /\ Fuses(Fused)
  BY <1>3, <1>5 DEF Fused
<1>7. DOMAIN Fused = 1..n
  BY <1>6
<1>. QED
  BY <1>1, <1>6, <1>7 DEF Fuses, ToSet

\* Of two points the fusion must not swap, the better comes before.
LEMMA BetterIsBefore ==
  ASSUME Ranking(hits), Ranking(ranks), NEW p \in Ranked, NEW q \in Ranked,
         Class(p) > Class(q) \/ (Class(p) = Class(q) /\ p # q /\ Ahead(p, q))
  PROVE  Before(p, q)
<1>1. /\ Score(p) \in Nat /\ Boost(p) \in Nat /\ Boost(p) <= Score(p)
      /\ Score(q) \in Nat /\ Boost(q) \in Nat /\ Score(q) <= Boost(q) + 33332
  BY ScoreIsNat
<1>2. CASE Class(p) > Class(q)
  <2>1. Boost(p) >= Boost(q) + 150000
    BY <1>2 DEF Class, Boost
  <2>. QED
    BY <1>1, <2>1 DEF Before
<1>3. CASE Class(p) = Class(q) /\ p # q /\ Ahead(p, q)
  <2>1. Boost(p) = Boost(q)
    BY <1>3 DEF Class, Boost
  <2>2. q \in ToSet(hits) => /\ p \in ToSet(hits) /\ RankIn(hits, p) < RankIn(hits, q)
                             /\ RankIn(hits, p) \in Nat /\ RankIn(hits, q) \in Nat
    BY <1>3, RankIsPlace DEF Ahead
  <2>3. q \in ToSet(ranks) => /\ p \in ToSet(ranks) /\ RankIn(ranks, p) < RankIn(ranks, q)
                              /\ RankIn(ranks, p) \in Nat /\ RankIn(ranks, q) \in Nat
    BY <1>3, RankIsPlace DEF Ahead
  <2> DEFINE H(x) == IF x \in ToSet(hits) THEN Rrf(RankIn(hits, x)) ELSE 0
             K(x) == IF x \in ToSet(ranks) THEN Rrf(RankIn(ranks, x)) ELSE 0
  <2>4. H(q) <= H(p) /\ H(p) \in Nat /\ H(q) \in Nat
    <3>1. CASE q \in ToSet(hits)
      BY <2>2, <3>1, RrfFalls
    <3>2. CASE q \notin ToSet(hits)
      <4>1. p \in ToSet(hits) => RankIn(hits, p) \in Nat
        BY RankIsPlace
      <4>. QED
        BY <3>2, <4>1, RrfFalls
    <3>. QED
      BY <3>1, <3>2
  <2>5. K(q) <= K(p) /\ K(p) \in Nat /\ K(q) \in Nat
    <3>1. CASE q \in ToSet(ranks)
      BY <2>3, <3>1, RrfFalls
    <3>2. CASE q \notin ToSet(ranks)
      <4>1. p \in ToSet(ranks) => RankIn(ranks, p) \in Nat
        BY RankIsPlace
      <4>. QED
        BY <3>2, <4>1, RrfFalls
    <3>. QED
      BY <3>1, <3>2
  <2>6. Score(p) = H(p) + K(p) + Boost(p) /\ Score(q) = H(q) + K(q) + Boost(q)
    BY DEF Score
  <2> HIDE DEF H, K
  <2>7. Score(p) >= Score(q)
    BY <1>1, <2>1, <2>4, <2>5, <2>6
  <2>8. Inserted(p) < Inserted(q)
    <3>1. Len(hits) \in Nat /\ (p \in ToSet(hits) => RankIn(hits, p) \in 0..(Len(hits) - 1))
      BY RankIsPlace
    <3>2. q \notin ToSet(hits) => q \in ToSet(ranks)
      BY DEF Ranked
    <3>. QED
      BY <2>2, <2>3, <3>1, <3>2 DEF Inserted
  <2>. QED
    BY <1>1, <2>7, <2>8 DEF Before
<1>. QED
  BY <1>2, <1>3

\* The first of the fused list are what the property asks for.
LEMMA FirstAreBest ==
  ASSUME Ranking(hits), Ranking(ranks), found = FirstK(Fused)
  PROVE  FusionRespectsRanks
<1> DEFINE n == Cardinality(Ranked)
           k == IF n < TopK THEN n ELSE TopK
<1>1. /\ n \in Nat /\ Fused \in [1..n -> Ranked]
      /\ \A p \in Ranked : \E i \in 1..n : Fused[i] = p
      /\ \A i, j \in 1..n : i < j => Before(Fused[i], Fused[j])
  BY FusedIsSorted
<1>2. \A p \in Ranked : p \in Point /\ Score(p) \in Nat /\ Inserted(p) \in Nat
  BY RankIsPlace, ScoreIsNat, InsertedOnce DEF Ranked
<1>3. \A p, q \in Ranked : ~ (Before(p, q) /\ Before(q, p))
  BY <1>2 DEF Before
<1>4. \A i, j \in 1..n : Fused[i] = Fused[j] => i = j
  <2> SUFFICES ASSUME NEW i \in 1..n, NEW j \in 1..n, i < j, Fused[i] = Fused[j] PROVE FALSE
    BY <1>1
  <2>. QED
    BY <1>1, <1>3
<1>5. Len(Fused) = n /\ k \in Nat /\ k <= n
  <2>1. Fused \in Seq(Ranked) /\ Len(Fused) = n
    BY <1>1
  <2>. QED
    BY <1>1, <2>1, SearchAssumption
<1>6. /\ found \in Seq(Point) /\ Len(found) = k
      /\ \A i \in 1..k : found[i] = Fused[i] /\ i \in 1..n
  <2>1. found = SubSeq(Fused, 1, k)
    BY <1>5 DEF FirstK
  <2> HIDE DEF k
  <2>2. \A i \in 1..k : Fused[i] \in Point
    BY <1>1, <1>2, <1>5
  <2>3. /\ SubSeq(Fused, 1, k) \in Seq(Point)
        /\ Len(SubSeq(Fused, 1, k)) = IF 1 <= k THEN k - 1 + 1 ELSE 0
        /\ \A i \in 1..(k - 1 + 1) : SubSeq(Fused, 1, k)[i] = Fused[1 + i - 1]
    BY <1>5, <2>2, SubSeqProperties
  <2>. QED
    BY <1>1, <1>5, <2>1, <2>3
<1> HIDE DEF n, k
<1>7. DOMAIN found = 1..k
  BY <1>6, LenProperties
<1>8. Ranking(found)
  BY <1>4, <1>6, <1>7 DEF Ranking, IsInjective
<1>9. ASSUME NEW p \in Ranked, NEW q \in ToSet(found),
             Class(p) > Class(q) \/ (Class(p) = Class(q) /\ p # q /\ Ahead(p, q))
      PROVE  p \in ToSet(found) /\ RankIn(found, p) < RankIn(found, q)
  <2>1. PICK j \in 1..k : q = found[j]
    BY <1>7 DEF ToSet
  <2>2. q = Fused[j] /\ j \in 1..n /\ q \in Ranked
    BY <1>1, <1>6, <2>1
  <2>3. PICK i \in 1..n : Fused[i] = p
    BY <1>1
  <2>4. Before(p, q)
    BY <1>9, <2>2, BetterIsBefore
  <2>5. i < j
    <3> SUFFICES ASSUME ~ (i < j) PROVE FALSE
      OBVIOUS
    <3>1. CASE i = j
      BY <1>3, <2>2, <2>3, <2>4, <3>1
    <3>2. CASE j < i
      <4>1. Before(q, p)
        BY <1>1, <2>2, <2>3, <3>2
      <4>. QED
        BY <1>3, <2>2, <2>4, <4>1
    <3>. QED
      BY <1>1, <2>2, <2>3, <3>1, <3>2
  <2>6. i \in 1..k /\ found[i] = p
    BY <1>5, <1>6, <2>1, <2>3, <2>5
  <2>7. p \in ToSet(found) /\ RankIn(found, p) = i - 1 /\ RankIn(found, q) = j - 1
    BY <1>6, <1>8, <2>1, <2>6, RankIsPlace
  <2>. QED
    BY <1>1, <2>2, <2>3, <2>5, <2>7
<1>. QED
  BY <1>8, <1>9 DEF FusionRespectsRanks, Ranking

-----------------------------------------------------------------------------

LEMMA EmptyRanking == Ranking(<< >>)
BY EmptySeq DEF Ranking, IsInjective

LEMMA FusionInit == SearchInit => FusionInv
BY EmptyRanking DEF SearchInit, FusionInv

\* The fusion is made of the two rankings and of nothing else.
LEMMA FusionOfRankings ==
  ASSUME hits' = hits, ranks' = ranks
  PROVE  (FirstK(Fused))' = FirstK(Fused)
BY DEF FirstK, Fused, Fuses, Ranked, Before, Score, Inserted, RankIn, Boost, Rrf

LEMMA FusionNext == FusionInv /\ [SearchNext]_searchVars => FusionInv'
<1> SUFFICES ASSUME FusionInv, [SearchNext]_searchVars PROVE FusionInv'
  OBVIOUS
<1>1. Ranking(hits) /\ Ranking(ranks)
  BY DEF FusionInv
<1>0. present' \subseteq Point
  BY DEF FusionInv, SearchNext, AskQuery, VectorPass, KeywordPass, Fuse, Reindex, Upserted, searchVars
<1>2. Matching \in SUBSET Point
  BY DEF Matching, FusionInv
<1>3. HitLimit \in Nat /\ PoolLimit \in Nat
  BY SearchAssumption
<1>4. ASSUME NEW q, AskQuery(q) PROVE FusionInv'
  BY <1>0, <1>4 DEF AskQuery, FusionInv, FirstK, Fused
<1>5. CASE VectorPass
  <2>1. hits' \in Rankings(Matching, HitLimit) \/ hits' = << >>
    BY <1>5 DEF VectorPass, VectorHits
  <2>2. Ranking(hits')
    BY <1>2, <1>3, <2>1, SubsetRanking, EmptyRanking
  <2>. QED
    BY <1>0, <1>1, <1>5, <2>2 DEF VectorPass, FusionInv
<1>6. CASE KeywordPass
  <2>1. found = << >> /\ found' = found /\ hits' = hits
    BY <1>6 DEF KeywordPass, FusionInv
  <2>2. PICK pool \in Pools :
          \/ ranks' = ranks
          \/ ranks' \in Rankings(ToSet(IF pool = << >> THEN hits ELSE pool), PoolLimit) \cup {<< >>}
    BY <1>6 DEF KeywordPass
  <2>3. Ranking(pool)
    BY <1>1, <1>2, <1>3, <2>2, SubsetRanking DEF Pools, AllDocs
  <2>4. ToSet(IF pool = << >> THEN hits ELSE pool) \in SUBSET Point
    BY <1>1, <2>3, RankIsPlace
  <2>5. Ranking(ranks')
    BY <1>1, <1>3, <2>2, <2>4, SubsetRanking, EmptyRanking
  <2>. QED
    BY <1>0, <1>1, <2>1, <2>5 DEF FusionInv
<1>7. CASE Fuse
  <2>1. hits' = hits /\ ranks' = ranks /\ search' = "done" /\ found' = FirstK(Fused)
    BY <1>7 DEF Fuse
  <2>2. (FirstK(Fused))' = FirstK(Fused)
    BY <2>1, FusionOfRankings
  <2>. QED
    BY <1>0, <1>1, <2>1, <2>2 DEF FusionInv
<1>8. CASE Reindex \/ UNCHANGED searchVars
  <2>1. hits' = hits /\ ranks' = ranks /\ search' = search /\ found' = found
    BY <1>8 DEF Reindex, searchVars
  <2>2. (FirstK(Fused))' = FirstK(Fused)
    BY <2>1, FusionOfRankings
  <2>. QED
    BY <1>0, <1>1, <2>1, <2>2 DEF FusionInv
<1>. QED
  BY <1>4, <1>5, <1>6, <1>7, <1>8 DEF SearchNext

\* The result of a search keeps what both rankings agree on, and puts an exact
\* symbol above a path and a path above the rest, whatever the rankings are:
\* hybrid_search of rag/retriever.py, lines 101-126.
THEOREM FusionKeepsOrder == SearchSpec => []FusionRespectsRanks
<1>1. FusionInv => FusionRespectsRanks
  <2>1. CASE found = << >>
    <3>1. ToSet(<< >>) = {} /\ IsInjective(<< >>)
      BY EmptyRanking DEF ToSet, Ranking
    <3>. QED
      BY <2>1, <3>1 DEF FusionRespectsRanks
  <2>. QED
    BY <2>1, FirstAreBest DEF FusionInv
<1>. QED
  BY FusionInit, FusionNext, <1>1, PTL DEF SearchSpec
=============================================================================
