--------------------------- MODULE RagIndexProofs ---------------------------
(***************************************************************************)
(* Proofs about the code index, for any repositories, files, pushes, caps, *)
(* budgets and failures.  RagIndex: while the installation stands, a       *)
(* cursor at the head hides no file but those that were passed over,       *)
(* whatever was pushed while the repository was being read.  Chunker and   *)
(* IndexFile: a file's chunks cover it, a definition ends its chunk, and   *)
(* every chunk that was not passed over is stored as it is, unless it has  *)
(* a namesake on its line.                                                 *)
(***************************************************************************)
EXTENDS RagIndex, IndexFile, FoldProofs, SequenceTheorems, TLAPS

ShapeInv ==
  /\ head \in [Repo -> Nat] /\ rev \in [Repo -> [File -> Nat]]
  /\ cursor \in [Repo -> Nat \cup {None}]
  /\ vectors = [r \in Repo |-> [f \in File |-> vectors[r][f]]]
  /\ missed = [r \in Repo |-> missed[r]]

\* Files and cursors are never ahead of the head.
OrderInv == \A r \in Repo :
  /\ \A f \in File : rev[r][f] <= head[r]
  /\ cursor[r] # None => cursor[r] <= head[r]

\* A file not changed since a commit, and not passed over, is indexed as it is.
CurrentAt(r, commit, files) ==
  commit # None => \A f \in files \ missed[r] : rev[r][f] <= commit => vectors[r][f] = rev[r][f]

CursorInv == torn = "no" => \A r \in Repo : CurrentAt(r, cursor[r], File)

Reading == pc \in {"files", "store"} /\ InHand \in Repo

\* The commit the tick has read for its repository is not ahead of the head.
TargetInv == Reading /\ target # None => target \in Nat /\ target <= head[InHand]

\* The files the tick is done with are current at that commit.
DoneInv == Reading /\ torn = "no" => CurrentAt(InHand, target, File \ left)

\* The text in hand is the file's, unless the file was changed after both the
\* commit that was read and the cursor.
TextInv == Reading /\ torn = "no" /\ pc = "store" /\ Entry \in File =>
  \/ text = rev[InHand][Entry]
  \/ /\ target # None => ~ (rev[InHand][Entry] <= target)
     /\ cursor[InHand] # None => ~ (rev[InHand][Entry] <= cursor[InHand])

IndexInv == ShapeInv /\ OrderInv /\ CursorInv /\ TargetInv /\ DoneInv /\ TextInv

-----------------------------------------------------------------------------

LEMMA InitIndexInv == Init => IndexInv
<1> SUFFICES ASSUME Init PROVE IndexInv
  OBVIOUS
<1>1. ShapeInv /\ OrderInv
  BY RagAssumption DEF Init, ShapeInv, OrderInv
<1>2. CursorInv /\ TargetInv /\ DoneInv /\ TextInv
  BY DEF Init, CursorInv, CurrentAt, TargetInv, DoneInv, TextInv, Reading
<1>. QED
  BY <1>1, <1>2 DEF IndexInv

\* What neither the index nor what it is compared with takes part in.
LEMMA IdleKeeps ==
  ASSUME IndexInv, UNCHANGED <<head, rev, vectors, cursor, missed>>,
         torn' = "no" => torn = "no",
         \/ pc' \notin {"files", "store"}
         \/ UNCHANGED <<pc, todo, target, left, text>>
  PROVE  IndexInv'
<1>1. ShapeInv' /\ OrderInv' /\ CursorInv'
  BY DEF IndexInv, ShapeInv, OrderInv, CursorInv, CurrentAt
<1>2. CASE pc' \notin {"files", "store"}
  BY <1>1, <1>2 DEF IndexInv, TargetInv, DoneInv, TextInv, Reading
<1>3. CASE UNCHANGED <<pc, todo, target, left, text>>
  BY <1>1, <1>3 DEF IndexInv, TargetInv, DoneInv, TextInv, Reading, CurrentAt, InHand, Entry
<1>. QED
  BY <1>2, <1>3

\* A push makes a commit that is later than every cursor and every commit read.
LEMMA PushKeeps ==
  ASSUME IndexInv, NEW r \in Repo, Push(r)
  PROVE  IndexInv'
<1>1. PICK f \in File : rev' = [rev EXCEPT ![r][f] = head[r] + 1]
  BY DEF Push
<1>2. /\ head' = [head EXCEPT ![r] = @ + 1]
      /\ UNCHANGED <<torn, vectors, cursor, missed, pc, todo, target, left, text>>
  BY DEF Push, store, tick
<1>3. /\ head \in [Repo -> Nat] /\ rev \in [Repo -> [File -> Nat]]
      /\ cursor \in [Repo -> Nat \cup {None}] /\ None \notin Int
  BY RagAssumption DEF IndexInv, ShapeInv
<1>4. \A q \in Repo : head'[q] = IF q = r THEN head[q] + 1 ELSE head[q]
  BY <1>2, <1>3
<1>5. \A q \in Repo : \A g \in File :
        rev'[q][g] = IF q = r /\ g = f THEN head[q] + 1 ELSE rev[q][g]
  BY <1>1, <1>3
<1>6. ShapeInv'
  <2>1. head' \in [Repo -> Nat] /\ rev' \in [Repo -> [File -> Nat]]
    BY <1>1, <1>2, <1>3
  <2>. QED
    BY <1>2, <2>1 DEF IndexInv, ShapeInv
<1>7. OrderInv'
  <2> SUFFICES ASSUME NEW q \in Repo
               PROVE  /\ \A g \in File : rev'[q][g] <= head'[q]
                      /\ cursor[q] # None => cursor[q] <= head'[q]
    BY <1>2 DEF OrderInv
  <2>1. head[q] \in Nat /\ cursor[q] \in Nat \cup {None} /\ \A g \in File : rev[q][g] \in Nat
    BY <1>3
  <2>2. /\ \A g \in File : rev[q][g] <= head[q]
        /\ cursor[q] # None => cursor[q] <= head[q]
    BY DEF IndexInv, OrderInv
  <2>. QED
    BY <1>3, <1>4, <1>5, <2>1, <2>2
<1>8. ASSUME NEW q \in Repo, NEW c, NEW files \in SUBSET File, CurrentAt(q, c, files),
             c # None => c \in Nat /\ c <= head[q]
      PROVE  c # None => \A g \in files \ missed[q] : rev'[q][g] <= c => vectors[q][g] = rev'[q][g]
  BY <1>3, <1>5, <1>8 DEF CurrentAt
<1>9. CursorInv'
  <2> SUFFICES ASSUME torn = "no", NEW q \in Repo
               PROVE  cursor[q] # None => \A g \in File \ missed[q] :
                        rev'[q][g] <= cursor[q] => vectors[q][g] = rev'[q][g]
    BY <1>2 DEF CursorInv, CurrentAt
  <2>1. CurrentAt(q, cursor[q], File)
    BY DEF IndexInv, CursorInv
  <2>2. cursor[q] # None => cursor[q] \in Nat /\ cursor[q] <= head[q]
    BY <1>3 DEF IndexInv, OrderInv
  <2>. QED
    BY <1>8, <2>1, <2>2
<1>10. TargetInv'
  BY <1>2, <1>3, <1>4 DEF IndexInv, TargetInv, Reading, InHand
<1>11. DoneInv'
  <2> SUFFICES ASSUME Reading, torn = "no"
               PROVE  target # None => \A g \in (File \ left) \ missed[InHand] :
                        rev'[InHand][g] <= target => vectors[InHand][g] = rev'[InHand][g]
    BY <1>2 DEF DoneInv, CurrentAt, Reading, InHand
  <2>1. CurrentAt(InHand, target, File \ left) /\ InHand \in Repo
    BY DEF IndexInv, DoneInv, Reading
  <2>2. target # None => target \in Nat /\ target <= head[InHand]
    BY DEF IndexInv, TargetInv
  <2>3. File \ left \in SUBSET File
    OBVIOUS
  <2>. QED
    BY <1>8, <2>1, <2>2, <2>3
<1>12. TextInv'
  <2> SUFFICES ASSUME Reading, torn = "no", pc = "store", Entry \in File
               PROVE  \/ text = rev'[InHand][Entry]
                      \/ /\ target # None => ~ (rev'[InHand][Entry] <= target)
                         /\ cursor[InHand] # None => ~ (rev'[InHand][Entry] <= cursor[InHand])
    BY <1>2 DEF TextInv, Reading, InHand, Entry
  <2>1. InHand \in Repo
    BY DEF Reading
  <2>2. CASE InHand = r /\ Entry = f
    <3>1. rev'[InHand][Entry] = head[InHand] + 1
      BY <1>5, <2>1, <2>2
    <3>2. target # None => target \in Nat /\ target <= head[InHand]
      BY DEF IndexInv, TargetInv
    <3>3. cursor[InHand] # None => cursor[InHand] \in Nat /\ cursor[InHand] <= head[InHand]
      BY <1>3, <2>1 DEF IndexInv, OrderInv
    <3>4. head[InHand] \in Nat
      BY <1>3, <2>1
    <3>. QED
      BY <3>1, <3>2, <3>3, <3>4
  <2>3. CASE ~ (InHand = r /\ Entry = f)
    <3>1. rev'[InHand][Entry] = rev[InHand][Entry]
      BY <1>5, <2>1, <2>3
    <3>. QED
      BY <3>1 DEF IndexInv, TextInv
  <2>. QED
    BY <2>2, <2>3
<1>. QED
  BY <1>6, <1>7, <1>9, <1>10, <1>11, <1>12 DEF IndexInv

\* The teardown empties the index; the claims end with its first step.
LEMMA UninstallKeepsIndex ==
  ASSUME IndexInv, Uninstall
  PROVE  IndexInv'
<1>1. UNCHANGED <<head, rev, missed, pc, todo, target, left, text>> /\ torn' # "no"
  BY DEF Uninstall, gitHub, tick
<1>2. ShapeInv' /\ OrderInv'
  BY <1>1 DEF Uninstall, store, IndexInv, ShapeInv, OrderInv
<1>. QED
  BY <1>1, <1>2 DEF IndexInv, CursorInv, TargetInv, DoneInv, TextInv, Reading, InHand

\* The tick turns to a repository: nothing of it is done yet.
LEMMA OpenRepoKeeps ==
  ASSUME IndexInv, OpenRepo
  PROVE  IndexInv'
<1>1. /\ UNCHANGED <<head, rev, torn, vectors, cursor, missed, todo, text>>
      /\ pc' = "files" /\ left' = File
      /\ target' = head[Head(todo)] \/ target' = None
  BY DEF OpenRepo, gitHub, store
<1>2. ShapeInv' /\ OrderInv' /\ CursorInv'
  BY <1>1 DEF IndexInv, ShapeInv, OrderInv, CursorInv, CurrentAt
<1>3. TargetInv'
  BY <1>1 DEF IndexInv, ShapeInv, TargetInv, Reading, InHand
<1>4. DoneInv' /\ TextInv'
  BY <1>1 DEF DoneInv, TextInv, CurrentAt
<1>. QED
  BY <1>2, <1>3, <1>4 DEF IndexInv

\* The text just fetched is the file's.
LEMMA FetchFileKeeps ==
  ASSUME IndexInv, FetchFile
  PROVE  IndexInv'
<1>1. /\ UNCHANGED <<head, rev, torn, vectors, cursor, missed, todo, target, left>>
      /\ pc = "files" /\ pc' = "store" /\ text' = rev[InHand][Entry]
  BY DEF FetchFile, gitHub, store
<1>2. ShapeInv' /\ OrderInv' /\ CursorInv'
  BY <1>1 DEF IndexInv, ShapeInv, OrderInv, CursorInv, CurrentAt
<1>3. TargetInv' /\ DoneInv' /\ TextInv'
  BY <1>1 DEF IndexInv, TargetInv, DoneInv, TextInv, CurrentAt, Reading, InHand, Entry
<1>. QED
  BY <1>2, <1>3 DEF IndexInv

\* Passing files over only takes them out of what is claimed.
LEMMA MissingKeeps ==
  ASSUME IndexInv, NEW gone,
         UNCHANGED <<head, rev, torn, vectors, cursor>>,
         missed' = [missed EXCEPT ![InHand] = @ \cup gone],
         \/ pc' = "repos"
         \/ /\ pc \in {"files", "store"} /\ pc' = "files" /\ left' = left \ gone
            /\ UNCHANGED <<todo, target>>
  PROVE  IndexInv'
<1>1. \A r \in Repo : missed[r] \subseteq missed'[r]
  BY DEF IndexInv, ShapeInv
<1>2. ShapeInv' /\ OrderInv'
  BY DEF IndexInv, ShapeInv, OrderInv
<1>3. CursorInv'
  BY <1>1 DEF IndexInv, CursorInv, CurrentAt
<1>4. CASE pc' = "repos"
  BY <1>2, <1>3, <1>4 DEF IndexInv, TargetInv, DoneInv, TextInv, Reading
<1>5. CASE /\ pc \in {"files", "store"} /\ pc' = "files" /\ left' = left \ gone
           /\ UNCHANGED <<todo, target>>
  <2>1. TargetInv' /\ TextInv'
    BY <1>5 DEF IndexInv, TargetInv, TextInv, Reading, InHand
  <2>2. Reading' => Reading /\ InHand' = InHand /\ missed'[InHand] = missed[InHand] \cup gone
    BY <1>5 DEF IndexInv, ShapeInv, Reading, InHand
  <2>3. DoneInv'
    BY <1>5, <2>2 DEF IndexInv, DoneInv, CurrentAt
  <2>. QED
    BY <1>2, <1>3, <2>1, <2>3 DEF IndexInv
<1>. QED
  BY <1>4, <1>5

\* What is stored is what the file was when it was fetched: as it is now, or
\* changed after the commit that the cursor is set to.
LEMMA StoreFileKeeps ==
  ASSUME IndexInv, StoreFile
  PROVE  IndexInv'
<1>1. /\ UNCHANGED <<head, rev, torn, cursor, todo, target>>
      /\ pc = "store" /\ pc' = "files" /\ left' = left \ {Entry}
      /\ vectors' = [vectors EXCEPT ![InHand][Entry] = text]
      /\ missed' = [missed EXCEPT ![InHand] = @ \ {Entry}]
  BY DEF StoreFile, gitHub
<1>2. ShapeInv' /\ OrderInv'
  <2>1. vectors' = [r \in Repo |-> [f \in File |-> vectors'[r][f]]]
    BY <1>1 DEF IndexInv, ShapeInv
  <2>. QED
    BY <1>1, <2>1 DEF IndexInv, ShapeInv, OrderInv
<1>3. \A r \in Repo : \A f \in File :
        vectors'[r][f] = IF r = InHand /\ f = Entry THEN text ELSE vectors[r][f]
  BY <1>1 DEF IndexInv, ShapeInv
<1>4. \A r \in Repo : missed'[r] = IF r = InHand THEN missed[r] \ {Entry} ELSE missed[r]
  BY <1>1 DEF IndexInv, ShapeInv
<1>5. ASSUME torn = "no", InHand \in Repo, Entry \in File
      PROVE  \/ text = rev[InHand][Entry]
             \/ /\ target # None => ~ (rev[InHand][Entry] <= target)
                /\ cursor[InHand] # None => ~ (rev[InHand][Entry] <= cursor[InHand])
  BY <1>1, <1>5 DEF IndexInv, TextInv, Reading
<1>6. CursorInv'
  <2> SUFFICES ASSUME torn = "no", NEW r \in Repo, cursor[r] # None,
                      NEW f \in File \ missed'[r], rev[r][f] <= cursor[r]
               PROVE  vectors'[r][f] = rev[r][f]
    BY <1>1 DEF CursorInv, CurrentAt
  <2>1. CASE r = InHand /\ f = Entry
    BY <1>3, <1>5, <2>1
  <2>2. CASE ~ (r = InHand /\ f = Entry)
    BY <1>3, <1>4, <2>2 DEF IndexInv, CursorInv, CurrentAt
  <2>. QED
    BY <2>1, <2>2
<1>7. DoneInv'
  <2> SUFFICES ASSUME torn = "no", InHand \in Repo, target # None,
                      NEW f \in (File \ left') \ missed'[InHand], rev[InHand][f] <= target
               PROVE  vectors'[InHand][f] = rev[InHand][f]
    BY <1>1 DEF DoneInv, CurrentAt, Reading, InHand
  <2>1. CASE f = Entry
    BY <1>3, <1>5, <2>1
  <2>2. CASE f # Entry
    BY <1>1, <1>3, <1>4, <2>2 DEF IndexInv, DoneInv, CurrentAt, Reading
  <2>. QED
    BY <2>1, <2>2
<1>8. TargetInv' /\ TextInv'
  BY <1>1 DEF IndexInv, TargetInv, TextInv, Reading, InHand
<1>. QED
  BY <1>2, <1>6, <1>7, <1>8 DEF IndexInv

\* The cursor is set to the commit that was read, and the files not reached
\* count as passed over.
LEMMA CloseRepoKeeps ==
  ASSUME IndexInv, CloseRepo, InHand \in Repo
  PROVE  IndexInv'
<1>1. /\ UNCHANGED <<head, rev, torn, vectors>>
      /\ pc = "files" /\ pc' = "repos"
      /\ cursor' = [cursor EXCEPT ![InHand] = target]
      /\ missed' = [missed EXCEPT ![InHand] = @ \cup left]
  BY DEF CloseRepo, CursorFor, gitHub
<1>2. target # None => target \in Nat /\ target <= head[InHand]
  BY <1>1 DEF IndexInv, TargetInv, Reading
<1>3. ShapeInv'
  BY <1>1, <1>2 DEF IndexInv, ShapeInv
<1>4. \A r \in Repo : cursor'[r] = IF r = InHand THEN target ELSE cursor[r]
  BY <1>1 DEF IndexInv, ShapeInv
<1>5. \A r \in Repo : missed'[r] = IF r = InHand THEN missed[r] \cup left ELSE missed[r]
  BY <1>1 DEF IndexInv, ShapeInv
<1>6. OrderInv'
  BY <1>1, <1>2, <1>4 DEF IndexInv, OrderInv
<1>7. CursorInv'
  <2> SUFFICES ASSUME torn = "no", NEW r \in Repo, cursor'[r] # None,
                      NEW f \in File \ missed'[r], rev[r][f] <= cursor'[r]
               PROVE  vectors[r][f] = rev[r][f]
    BY <1>1 DEF CursorInv, CurrentAt
  <2>1. CASE r = InHand
    <3>1. CurrentAt(r, target, File \ left)
      BY <1>1, <2>1 DEF IndexInv, DoneInv, Reading
    <3>. QED
      BY <1>4, <1>5, <2>1, <3>1 DEF CurrentAt
  <2>2. CASE r # InHand
    BY <1>4, <1>5, <2>2 DEF IndexInv, CursorInv, CurrentAt
  <2>. QED
    BY <2>1, <2>2
<1>8. TargetInv' /\ DoneInv' /\ TextInv'
  BY <1>1 DEF TargetInv, DoneInv, TextInv, Reading
<1>. QED
  BY <1>3, <1>6, <1>7, <1>8 DEF IndexInv

-----------------------------------------------------------------------------

LEMMA NextIndexInv == IndexInv /\ [Next]_vars => IndexInv'
<1> SUFFICES ASSUME IndexInv, [Next]_vars PROVE IndexInv'
  OBVIOUS
<1>1. ASSUME NEW r \in Repo, Push(r) PROVE IndexInv'
  BY <1>1, PushKeeps
<1>2. ASSUME NEW h \in hooks, Deliver(h) \/ Lose(h) PROVE IndexInv'
  BY <1>2, IdleKeeps DEF Deliver, Lose, store, tick
<1>3. CASE Uninstall
  BY <1>3, UninstallKeepsIndex
<1>4. CASE TickStep
  <2>1. CASE Drain \/ Pick \/ EndTick
    BY <2>1, IdleKeeps DEF Drain, Pick, EndTick, Rest, gitHub, store
  <2>2. CASE SkipRepo
    BY <2>2, IdleKeeps DEF SkipRepo, gitHub, store
  <2>3. CASE OpenRepo
    BY <2>3, OpenRepoKeeps
  <2>4. CASE FetchFile
    BY <2>4, FetchFileKeeps
  <2>5. CASE PassOver
    BY <2>5, MissingKeeps DEF PassOver, gitHub, store
  <2>6. CASE RaiseInFile
    BY <2>6, MissingKeeps DEF RaiseInFile, gitHub, store
  <2>7. CASE StoreFile
    BY <2>7, StoreFileKeeps
  <2>8. CASE CloseRepo /\ InHand \in Repo
    BY <2>8, CloseRepoKeeps
  <2>9. CASE CloseRepo /\ InHand \notin Repo
    <3>1. /\ UNCHANGED <<head, rev, torn, vectors, cursor, missed>>
          /\ pc' = "repos"
      BY <2>9 DEF CloseRepo, gitHub, IndexInv, ShapeInv
    <3>. QED
      BY <3>1, IdleKeeps
  <2>. QED
    BY <1>4, <2>1, <2>2, <2>3, <2>4, <2>5, <2>6, <2>7, <2>8, <2>9 DEF TickStep
<1>5. CASE TimeUp
  BY <1>5, IdleKeeps DEF TimeUp, gitHub, store
<1>6. CASE Die
  BY <1>6, IdleKeeps DEF Die, Rest, gitHub, store
<1>7. CASE UNCHANGED vars
  BY <1>7, IdleKeeps DEF vars, gitHub, store, tick
<1>. QED
  BY <1>1, <1>2, <1>3, <1>4, <1>5, <1>6, <1>7 DEF Next

\* The commit read first is what the cursor will say, and what is indexed is
\* never older than that.
THEOREM IndexInvariant == Spec => []IndexInv
<1>. QED
  BY InitIndexInv, NextIndexInv, PTL DEF Spec

\* While the installation stands, a repository that later ticks will skip has every
\* file indexed as it is, except those that a tick passed over since they were last
\* stored: whatever was pushed while it was being read, and whatever tick died. The
\* cursor that index_repo sets is the head it read before the tree.
THEOREM CursorHidesNothing == Spec => []UpToDateUnlessMissed
<1>1. IndexInv => UpToDateUnlessMissed
  <2> SUFFICES ASSUME IndexInv, torn = "no", NEW r \in Repo, cursor[r] = head[r],
                      NEW f \in File \ missed[r]
               PROVE  vectors[r][f] = rev[r][f]
    BY DEF UpToDateUnlessMissed, UpToDate
  <2>1. cursor[r] # None
    BY RagAssumption DEF IndexInv, ShapeInv
  <2>2. rev[r][f] <= cursor[r]
    BY DEF IndexInv, OrderInv
  <2>. QED
    BY <2>1, <2>2 DEF IndexInv, CursorInv, CurrentAt
<1>. QED
  BY <1>1, IndexInvariant, PTL

-----------------------------------------------------------------------------
(* What the folds of Chunker come to, step by step.                        *)

TotalIn(sizes) ==
  LET iter[s \in SUBSET (DOMAIN sizes)] ==
        IF s = {} THEN 0 ELSE LET x == Max(s) IN iter[s \ {x}] + sizes[x]
  IN  iter

LEMMA TotalByFold == \A sizes : Total(sizes) = TotalIn(sizes)[DOMAIN sizes]
BY DEF Total, FoldLeft, MapThenFoldSet, TotalIn

LEMMA TotalSteps ==
  ASSUME NEW z \in Seq(Nat)
  PROVE  \E p : /\ p \in [0..Len(z) -> Nat] /\ p[0] = 0
                /\ \A k \in 0..(Len(z) - 1) : p[k + 1] = p[k] + z[k + 1]
                /\ Total(z) = p[Len(z)]
<1> DEFINE n == Len(z)
           V == Nat
           step == [q \in (1..n) \X V |-> q[2] + z[q[1]]]
           Body(g) == [s \in SUBSET (1..n) |-> IF s = {} THEN 0 ELSE g[s \ {Max(s)}] + z[Max(s)]]
           f == TotalIn(z)
<1>1. n \in Nat /\ DOMAIN z = 1..n
  BY LenProperties
<1>2. 0 \in V /\ \A x \in V, i \in 1..n : x + z[i] \in V
  BY ElementOfSeq
<1> HIDE DEF n, V
<1>3. step \in [(1..n) \X V -> V]
  BY <1>2
<1>4. \A i \in 1..n, x \in V : step[<<i, x>>] = x + z[i]
  OBVIOUS
<1> HIDE DEF step
<1>5. PICK g \in [SUBSET (1..n) -> V] : FoldsBy(g, 1..n, 0, TopOf(n), step)
  BY <1>1, <1>2, <1>3, PrefixFold
<1>6. g = Body(g)
  <2>1. \A s \in SUBSET (1..n) : s # {} => TopOf(n)[s] = Max(s) /\ Max(s) \in 1..n
    BY <1>1, TopPicks DEF TopOf
  <2>2. \A s \in SUBSET (1..n) : g[s] = IF s = {} THEN 0 ELSE g[s \ {Max(s)}] + z[Max(s)]
    <3> SUFFICES ASSUME NEW s \in SUBSET (1..n)
                 PROVE  g[s] = IF s = {} THEN 0 ELSE g[s \ {Max(s)}] + z[Max(s)]
      OBVIOUS
    <3>1. CASE s = {}
      BY <1>5, <3>1 DEF FoldsBy
    <3>2. CASE s # {}
      <4>1. g[s] = step[<<Max(s), g[s \ {Max(s)}]>>]
        BY <1>5, <2>1, <3>2 DEF FoldsBy
      <4>2. Max(s) \in 1..n /\ g[s \ {Max(s)}] \in V
        BY <2>1, <3>2
      <4>. QED
        BY <1>4, <3>2, <4>1, <4>2
    <3>. QED
      BY <3>1, <3>2
  <2>. QED
    BY <2>2
<1>7. f = Body(f)
  <2>1. f = CHOOSE h : h = Body(h)
    BY <1>1 DEF TotalIn
  <2> HIDE DEF Body, f
  <2>. QED
    BY <1>6, <2>1
<1>8. \A s \in SUBSET (1..n) : f[s] = IF s = {} THEN 0 ELSE f[s \ {Max(s)}] + z[Max(s)]
  <2> HIDE DEF f
  <2>. QED
    BY <1>7
<1>9. Folds(f, n, V, 0, step)
  <2> HIDE DEF f
  <2>1. ASSUME NEW s \in SUBSET (1..n), s # {}, f[s \ {Max(s)}] \in V
        PROVE  f[s] = step[<<Max(s), f[s \ {Max(s)}]>>]
    <3>1. Max(s) \in 1..n
      BY <1>1, <2>1, TopPicks DEF TopOf
    <3>. QED
      BY <1>4, <1>8, <2>1, <3>1
  <2>2. f[{}] = 0
    BY <1>8
  <2>. QED
    BY <2>1, <2>2 DEF Folds
<1>10. PICK p : Stepwise(p, n, V, 0, step) /\ p[n] = f[1..n]
  <2> HIDE DEF f
  <2>1. InStepwise(f, n, V, 0, step)
    BY <1>1, <1>2, <1>3, <1>9, FoldInSteps
  <2>. QED
    BY <2>1 DEF InStepwise
<1>11. \A k \in 0..(n - 1) : p[k + 1] = p[k] + z[k + 1]
  <2> SUFFICES ASSUME NEW k \in 0..(n - 1) PROVE p[k + 1] = p[k] + z[k + 1]
    OBVIOUS
  <2>1. k \in 0..n /\ k + 1 \in 1..n
    BY <1>1
  <2>2. p[k] \in V /\ p[k + 1] = step[<<k + 1, p[k]>>]
    BY <1>10, <2>1 DEF Stepwise
  <2>. QED
    BY <1>4, <2>1, <2>2
<1>12. Total(z) = p[n]
  BY <1>1, <1>10, TotalByFold DEF f
<1>. QED
  BY <1>10, <1>11, <1>12 DEF Stepwise, n, V

LEMMA TotalIsNat ==
  ASSUME NEW z \in Seq(Nat \ {0})
  PROVE  Total(z) \in Nat
<1>1. Len(z) \in Nat /\ z \in Seq(Nat)
  BY LenProperties, SeqMonotonic
<1>. QED
  BY <1>1, TotalSteps

-----------------------------------------------------------------------------
(* The chunks made of the nodes of a tree (MergeTiny).                     *)

ChunkType == [first : Nat, last : Nat, size : Nat, symbol : Symbols]

NodeType == {node \in TreeNode : node.def \/ node.symbol = NoSymbol}

LEMMA ChunkOfNode ==
  ASSUME NEW node \in NodeType
  PROVE  /\ ChunkOf(node) \in ChunkType
         /\ ChunkOf(node).first = node.first /\ ChunkOf(node).last = node.last
         /\ ChunkOf(node).symbol = node.symbol
BY DEF ChunkOf, ChunkType, NodeType, TreeNode

\* The accumulator of _merge_tiny: a gap has no symbol.
Gaps == {<< >>} \cup {<<c>> : c \in {d \in ChunkType : d.symbol = NoSymbol}}

MergeType == [merged : Seq(ChunkType), pending : Gaps]

NoGap == [merged |-> << >>, pending |-> << >>]

Merged(acc) == acc.merged \o acc.pending

MergedIn(nodes) ==
  LET iter[s \in SUBSET (DOMAIN nodes)] ==
        IF s = {} THEN NoGap ELSE LET x == Max(s) IN MergeNode(iter[s \ {x}], nodes[x])
  IN  iter

LEMMA MergedByFold ==
  \A nodes : MergeTiny(nodes) = MergedIn(nodes)[DOMAIN nodes].merged \o MergedIn(nodes)[DOMAIN nodes].pending
BY DEF MergeTiny, FoldLeft, MapThenFoldSet, MergedIn, NoGap

\* S with the chunk c behind it.
Adds(S, c, Q) ==
  /\ Len(Q) = Len(S) + 1
  /\ \A i \in 1..Len(S) : Q[i] = S[i]
  /\ Q[Len(S) + 1] = c

\* S with its last chunk joined by c.
Joins(S, c, Q) ==
  /\ Len(S) > 0 /\ Len(Q) = Len(S)
  /\ \A i \in 1..(Len(S) - 1) : Q[i] = S[i]
  /\ Q[Len(S)].first = S[Len(S)].first /\ Q[Len(S)].last = c.last /\ Q[Len(S)].symbol = c.symbol

LEMMA NoGapType == NoGap \in MergeType /\ Merged(NoGap) = << >>
<1>1. << >> \in Seq(ChunkType)
  BY EmptySeq
<1>2. << >> \o << >> = << >>
  BY <1>1, ConcatEmptySeq
<1>. QED
  BY <1>1, <1>2 DEF NoGap, MergeType, Gaps, Merged

LEMMA GapIsSeq ==
  ASSUME NEW gap \in Gaps
  PROVE  /\ gap \in Seq(ChunkType)
         /\ gap # << >> => /\ gap = <<gap[1]>> /\ Len(gap) = 1
                           /\ gap[1] \in ChunkType /\ gap[1].symbol = NoSymbol
<1>1. CASE gap = << >>
  BY <1>1, EmptySeq
<1>2. ASSUME NEW c \in ChunkType, c.symbol = NoSymbol, gap = <<c>>
      PROVE  gap \in Seq(ChunkType) /\ gap = <<gap[1]>> /\ Len(gap) = 1 /\ gap[1] = c
  BY <1>2
<1>. QED
  BY <1>1, <1>2 DEF Gaps

LEMMA AddsChunk ==
  ASSUME NEW S \in Seq(ChunkType), NEW c \in ChunkType
  PROVE  S \o <<c>> \in Seq(ChunkType) /\ Adds(S, c, S \o <<c>>)
<1>1. <<c>> \in Seq(ChunkType) /\ Len(<<c>>) = 1 /\ <<c>>[1] = c
  OBVIOUS
<1>2. Len(S) \in Nat
  BY LenProperties
<1>3. /\ S \o <<c>> \in Seq(ChunkType) /\ Len(S \o <<c>>) = Len(S) + 1
      /\ \A i \in 1..(Len(S) + 1) : (S \o <<c>>)[i] = IF i <= Len(S) THEN S[i] ELSE <<c>>[i - Len(S)]
  BY <1>1, ConcatProperties
<1>4. (S \o <<c>>)[Len(S) + 1] = c
  <2>1. Len(S) + 1 \in 1..(Len(S) + 1) /\ ~ (Len(S) + 1 <= Len(S)) /\ (Len(S) + 1) - Len(S) = 1
    BY <1>2
  <2>. QED
    BY <1>1, <1>3, <2>1
<1>5. \A i \in 1..Len(S) : (S \o <<c>>)[i] = S[i]
  BY <1>2, <1>3
<1>. QED
  BY <1>3, <1>4, <1>5 DEF Adds

LEMMA JoinsChunk ==
  ASSUME NEW m \in Seq(ChunkType), NEW p \in ChunkType, p.symbol = NoSymbol,
         NEW c \in ChunkType, NEW d \in ChunkType,
         d.first = p.first, d.last = c.last, d.symbol = c.symbol
  PROVE  Joins(m \o <<p>>, c, m \o <<d>>)
<1>1. Adds(m, p, m \o <<p>>) /\ Adds(m, d, m \o <<d>>)
  BY AddsChunk
<1>2. Len(m) \in Nat
  BY LenProperties
<1> DEFINE S == m \o <<p>>
           Q == m \o <<d>>
<1>3. Len(S) = Len(m) + 1 /\ Len(Q) = Len(m) + 1 /\ S[Len(m) + 1] = p /\ Q[Len(m) + 1] = d
  BY <1>1 DEF Adds
<1>4. \A i \in 1..Len(m) : Q[i] = S[i]
  BY <1>1 DEF Adds
<1> HIDE DEF S, Q
<1>5. Joins(S, c, Q)
  BY <1>2, <1>3, <1>4 DEF Joins
<1>. QED
  BY <1>5 DEF S, Q

\* A chunk without a symbol is a chunk.
LEMMA NoSymbolIsOne == NoSymbol \in Symbols
<1> DEFINE named == UNION {{file.tree[i].symbol : i \in DOMAIN file.tree} : file \in Sources}
<1>1. Symbols = {NoSymbol} \cup named
  BY DEF Symbols
<1> HIDE DEF named
<1>. QED
  BY <1>1

\* One node is added, or joined to the gap; a gap ends with no definition.
LEMMA MergeNodeStep ==
  ASSUME NEW acc \in MergeType, NEW node \in NodeType
  PROVE  /\ MergeNode(acc, node) \in MergeType
         /\ \/ Adds(Merged(acc), ChunkOf(node), Merged(MergeNode(acc, node)))
            \/ acc.pending # << >> /\ Joins(Merged(acc), ChunkOf(node), Merged(MergeNode(acc, node)))
         /\ MergeNode(acc, node).pending # << >> => ~node.def
<1> DEFINE m == acc.merged
           gap == acc.pending
           c == ChunkOf(node)
           next == MergeNode(acc, node)
           joins == gap # << >> /\ Fits(gap[1], c)
<1>1. /\ m \in Seq(ChunkType) /\ gap \in Gaps /\ c \in ChunkType
      /\ node.def \in BOOLEAN /\ (node.def \/ c.symbol = NoSymbol)
  <2>1. c \in ChunkType /\ c.symbol = node.symbol
    BY ChunkOfNode
  <2>2. node.def \in BOOLEAN /\ (node.def \/ node.symbol = NoSymbol)
    BY DEF NodeType, TreeNode
  <2>. QED
    BY <2>1, <2>2 DEF MergeType
<1> HIDE DEF c
<1>2. gap \in Seq(ChunkType)
  BY <1>1, GapIsSeq
<1>3. gap # << >> => gap = <<gap[1]>> /\ gap[1] \in ChunkType /\ gap[1].symbol = NoSymbol
  BY <1>1, GapIsSeq
<1>4. m \o gap \in Seq(ChunkType)
  BY <1>1, <1>2, ConcatProperties
<1>0. << >> \in Gaps /\ (~node.def => <<c>> \in Gaps)
  BY <1>1 DEF Gaps
<1>5. ASSUME joins
      PROVE  /\ \A symbol \in Symbols : Join(gap[1], c, symbol) \in ChunkType
             /\ Join(gap[1], c, c.symbol).first = gap[1].first
             /\ Join(gap[1], c, c.symbol).last = c.last
             /\ Join(gap[1], c, c.symbol).symbol = c.symbol
             /\ c.symbol \in Symbols /\ NoSymbol \in Symbols
  <2> DEFINE g == gap[1]
  <2>1. g \in ChunkType /\ c \in ChunkType
    BY <1>1, <1>3, <1>5
  <2> HIDE DEF g, c, joins
  <2>2. /\ g.first \in Nat /\ g.size \in Nat /\ c.last \in Nat /\ c.size \in Nat /\ c.symbol \in Symbols
        /\ g.size + c.size \in Nat
    BY <2>1 DEF ChunkType
  <2>3. \A symbol \in Symbols : Join(g, c, symbol) \in ChunkType
    BY <2>2 DEF ChunkType, Join
  <2>4. \A symbol : /\ Join(g, c, symbol).first = g.first /\ Join(g, c, symbol).last = c.last
                    /\ Join(g, c, symbol).symbol = symbol
    BY DEF Join
  <2>5. NoSymbol \in Symbols
    BY NoSymbolIsOne
  <2>. QED
    BY <2>2, <2>3, <2>4, <2>5 DEF g, c
<1>6. CASE node.def /\ joins
  <2> DEFINE d == Join(gap[1], c, c.symbol)
  <2>1. next = [merged |-> Append(m, d), pending |-> << >>]
    BY <1>6 DEF MergeNode, c
  <2>2. d \in ChunkType /\ d.first = gap[1].first /\ d.last = c.last /\ d.symbol = c.symbol
    BY <1>5, <1>6
  <2> HIDE DEF d
  <2>3. Append(m, d) = m \o <<d>> /\ m \o <<d>> \in Seq(ChunkType)
    BY <1>1, <2>2, AppendIsConcat, AddsChunk
  <2>4. next \in MergeType
    BY <1>0, <2>1, <2>3 DEF MergeType
  <2>5. Merged(next) = m \o <<d>>
    <3>1. (m \o <<d>>) \o << >> = m \o <<d>>
      BY <2>3, ConcatEmptySeq
    <3>. QED
      BY <2>1, <2>3, <3>1 DEF Merged
  <2>6. Merged(acc) = m \o <<gap[1]>>
    BY <1>3, <1>6 DEF Merged
  <2>7. Joins(m \o <<gap[1]>>, c, m \o <<d>>)
    BY <1>1, <1>3, <1>6, <2>2, JoinsChunk
  <2>8. next.pending = << >>
    BY <2>1
  <2>9. Joins(Merged(acc), c, Merged(next))
    BY <2>5, <2>6, <2>7
  <2>10. gap # << >>
    BY <1>6
  <2> HIDE DEF next, joins
  <2>. QED
    BY <2>4, <2>8, <2>9, <2>10 DEF next, c
<1>7. CASE node.def /\ ~joins
  <2> DEFINE t == (m \o gap) \o <<c>>
  <2>1. next = [merged |-> t, pending |-> << >>]
    BY <1>7 DEF MergeNode, c
  <2>2. t \in Seq(ChunkType) /\ Adds(m \o gap, c, t)
    BY <1>1, <1>4, AddsChunk
  <2>3. t \o << >> = t
    BY <2>2, ConcatEmptySeq
  <2> HIDE DEF t, next
  <2>4. next \in MergeType
    BY <1>0, <2>1, <2>2 DEF MergeType
  <2>5. Merged(next) = t
    BY <2>1, <2>3 DEF Merged
  <2>. QED
    BY <2>1, <2>2, <2>4, <2>5 DEF Merged, next, c
<1>8. CASE ~node.def /\ joins
  <2> DEFINE d == Join(gap[1], c, NoSymbol)
  <2>0. c.symbol = NoSymbol
    BY <1>1, <1>8
  <2>1. next = [merged |-> m, pending |-> <<d>>]
    BY <1>8 DEF MergeNode, MergeType, c
  <2>2. d \in ChunkType /\ d.first = gap[1].first /\ d.last = c.last /\ d.symbol = c.symbol
    BY <1>5, <1>8, <2>0
  <2> HIDE DEF d
  <2>3. next \in MergeType
    BY <1>1, <2>0, <2>1, <2>2 DEF MergeType, Gaps
  <2>5. Merged(next) = m \o <<d>>
    BY <2>1 DEF Merged
  <2>6. Merged(acc) = m \o <<gap[1]>>
    BY <1>3, <1>8 DEF Merged
  <2>7. Joins(m \o <<gap[1]>>, c, m \o <<d>>)
    BY <1>1, <1>3, <1>8, <2>2, JoinsChunk
  <2>. QED
    BY <1>8, <2>3, <2>5, <2>6, <2>7 DEF c
<1>9. CASE ~node.def /\ ~joins
  <2> DEFINE t == m \o gap
  <2>1. next = [merged |-> t, pending |-> <<c>>]
    BY <1>9 DEF MergeNode, c
  <2>2. Merged(acc) = t
    BY DEF Merged
  <2>3. t \in Seq(ChunkType)
    BY <1>4
  <2> HIDE DEF t, next
  <2>4. Adds(t, c, t \o <<c>>)
    BY <1>1, <2>3, AddsChunk
  <2>5. next \in MergeType
    BY <1>0, <1>9, <2>1, <2>3 DEF MergeType
  <2>6. Merged(next) = t \o <<c>>
    BY <2>1 DEF Merged
  <2>. QED
    BY <1>9, <2>2, <2>4, <2>5, <2>6 DEF next, c
<1>. QED
  BY <1>1, <1>6, <1>7, <1>8, <1>9

LEMMA MergeSteps ==
  ASSUME NEW nodes \in Seq(NodeType)
  PROVE  \E p : /\ p \in [0..Len(nodes) -> MergeType] /\ p[0] = NoGap
                /\ \A k \in 0..(Len(nodes) - 1) : p[k + 1] = MergeNode(p[k], nodes[k + 1])
                /\ MergeTiny(nodes) = p[Len(nodes)].merged \o p[Len(nodes)].pending
<1> DEFINE n == Len(nodes)
           V == MergeType
           step == [q \in (1..n) \X V |-> MergeNode(q[2], nodes[q[1]])]
           Body(g) == [s \in SUBSET (1..n) |-> IF s = {} THEN NoGap ELSE MergeNode(g[s \ {Max(s)}], nodes[Max(s)])]
           f == MergedIn(nodes)
<1>1. n \in Nat /\ DOMAIN nodes = 1..n
  BY LenProperties
<1>2. NoGap \in V /\ \A x \in V, i \in 1..n : MergeNode(x, nodes[i]) \in V
  BY ElementOfSeq, NoGapType, MergeNodeStep
<1> HIDE DEF n, V
<1>3. step \in [(1..n) \X V -> V]
  BY <1>2
<1>4. \A i \in 1..n, x \in V : step[<<i, x>>] = MergeNode(x, nodes[i])
  OBVIOUS
<1> HIDE DEF step
<1>5. PICK g \in [SUBSET (1..n) -> V] : FoldsBy(g, 1..n, NoGap, TopOf(n), step)
  BY <1>1, <1>2, <1>3, PrefixFold
<1>6. g = Body(g)
  <2>1. \A s \in SUBSET (1..n) : s # {} => TopOf(n)[s] = Max(s) /\ Max(s) \in 1..n
    BY <1>1, TopPicks DEF TopOf
  <2>2. \A s \in SUBSET (1..n) : g[s] = IF s = {} THEN NoGap ELSE MergeNode(g[s \ {Max(s)}], nodes[Max(s)])
    <3> SUFFICES ASSUME NEW s \in SUBSET (1..n)
                 PROVE  g[s] = IF s = {} THEN NoGap ELSE MergeNode(g[s \ {Max(s)}], nodes[Max(s)])
      OBVIOUS
    <3>1. CASE s = {}
      BY <1>5, <3>1 DEF FoldsBy
    <3>2. CASE s # {}
      <4>1. g[s] = step[<<Max(s), g[s \ {Max(s)}]>>]
        BY <1>5, <2>1, <3>2 DEF FoldsBy
      <4>2. Max(s) \in 1..n /\ g[s \ {Max(s)}] \in V
        BY <2>1, <3>2
      <4>. QED
        BY <1>4, <3>2, <4>1, <4>2
    <3>. QED
      BY <3>1, <3>2
  <2>. QED
    BY <2>2
<1>7. f = Body(f)
  <2>1. f = CHOOSE h : h = Body(h)
    BY <1>1 DEF MergedIn
  <2> HIDE DEF Body, f
  <2>. QED
    BY <1>6, <2>1
<1>8. \A s \in SUBSET (1..n) : f[s] = IF s = {} THEN NoGap ELSE MergeNode(f[s \ {Max(s)}], nodes[Max(s)])
  <2> HIDE DEF f
  <2>. QED
    BY <1>7
<1>9. Folds(f, n, V, NoGap, step)
  <2> HIDE DEF f
  <2>1. ASSUME NEW s \in SUBSET (1..n), s # {}, f[s \ {Max(s)}] \in V
        PROVE  f[s] = step[<<Max(s), f[s \ {Max(s)}]>>]
    <3>1. Max(s) \in 1..n
      BY <1>1, <2>1, TopPicks DEF TopOf
    <3>. QED
      BY <1>4, <1>8, <2>1, <3>1
  <2>2. f[{}] = NoGap
    BY <1>8
  <2>. QED
    BY <2>1, <2>2 DEF Folds
<1>10. PICK p : Stepwise(p, n, V, NoGap, step) /\ p[n] = f[1..n]
  <2> HIDE DEF f
  <2>1. InStepwise(f, n, V, NoGap, step)
    BY <1>1, <1>2, <1>3, <1>9, FoldInSteps
  <2>. QED
    BY <2>1 DEF InStepwise
<1>11. \A k \in 0..(n - 1) : p[k + 1] = MergeNode(p[k], nodes[k + 1])
  <2> SUFFICES ASSUME NEW k \in 0..(n - 1) PROVE p[k + 1] = MergeNode(p[k], nodes[k + 1])
    OBVIOUS
  <2>1. k \in 0..n /\ k + 1 \in 1..n
    BY <1>1
  <2>2. p[k] \in V /\ p[k + 1] = step[<<k + 1, p[k]>>]
    BY <1>10, <2>1 DEF Stepwise
  <2>. QED
    BY <1>4, <2>1, <2>2
<1>12. MergeTiny(nodes) = p[n].merged \o p[n].pending
  BY <1>1, <1>10, MergedByFold DEF f
<1>. QED
  BY <1>10, <1>11, <1>12 DEF Stepwise, n, V

\* The nodes of a file follow each other.
InFile(nodes) ==
  /\ nodes \in Seq(NodeType)
  /\ \A j \in 1..Len(nodes) : nodes[j].first <= nodes[j].last
  /\ \A i, j \in 1..Len(nodes) : i < j => nodes[i].last <= nodes[j].first

Encloses(d, c) == d.first <= c.first /\ c.last <= d.last

FirstOfRun(last, j) == IF j = 1 THEN 1 ELSE last[j - 1] + 1

\* Chunk j of S is the run of nodes that ends with the one numbered last[j], and
\* the first k nodes are in runs; a definition ends its run.
InRuns(last, S, nodes, k) ==
  /\ last \in [1..Len(S) -> 1..k]
  /\ \A i, j \in 1..Len(S) : i < j => last[i] < last[j]
  /\ IF Len(S) = 0 THEN k = 0 ELSE last[Len(S)] = k
  /\ \A i \in 1..k : nodes[i].def => \E j \in 1..Len(S) : last[j] = i
  /\ \A j \in 1..Len(S) :
       /\ S[j].first = nodes[FirstOfRun(last, j)].first
       /\ S[j].last = nodes[last[j]].last
       /\ S[j].symbol = nodes[last[j]].symbol

\* The chunks S are made of the first k nodes.
MadeOf(S, nodes, k) ==
  /\ S \in Seq(ChunkType)
  /\ \A i \in 1..Len(S) : S[i].first <= S[i].last
  /\ \A i, j \in 1..Len(S) : i < j => S[i].last <= S[j].first
  /\ \A j \in 1..k : \E i \in 1..Len(S) : Encloses(S[i], nodes[j])
  /\ \E last : InRuns(last, S, nodes, k)

LEMMA NodeFacts ==
  ASSUME NEW nodes, InFile(nodes)
  PROVE  /\ Len(nodes) \in Nat
         /\ \A j \in 1..Len(nodes) :
              /\ nodes[j] \in NodeType
              /\ nodes[j].first \in Nat /\ nodes[j].last \in Nat /\ nodes[j].first <= nodes[j].last
              /\ ChunkOf(nodes[j]).first = nodes[j].first /\ ChunkOf(nodes[j]).last = nodes[j].last
              /\ ChunkOf(nodes[j]).symbol = nodes[j].symbol
         /\ \A i, j \in 1..Len(nodes) : i < j => nodes[i].last <= nodes[j].first
<1>1. Len(nodes) \in Nat
  BY LenProperties DEF InFile
<1>2. ASSUME NEW j \in 1..Len(nodes)
      PROVE  /\ nodes[j] \in NodeType
             /\ nodes[j].first \in Nat /\ nodes[j].last \in Nat /\ nodes[j].first <= nodes[j].last
             /\ ChunkOf(nodes[j]).first = nodes[j].first /\ ChunkOf(nodes[j]).last = nodes[j].last
             /\ ChunkOf(nodes[j]).symbol = nodes[j].symbol
  <2>1. nodes[j] \in NodeType
    BY ElementOfSeq DEF InFile
  <2>2. nodes[j].first <= nodes[j].last
    BY DEF InFile
  <2>3. nodes[j].first \in Nat /\ nodes[j].last \in Nat
    BY <2>1 DEF NodeType, TreeNode
  <2>. QED
    BY <2>1, <2>2, <2>3, ChunkOfNode
<1>. QED
  BY <1>1, <1>2 DEF InFile

\* A node behind the chunks begins a run.
LEMMA AddsRun ==
  ASSUME NEW nodes, InFile(nodes), NEW k \in 0..(Len(nodes) - 1),
         NEW S, MadeOf(S, nodes, k), NEW Q \in Seq(ChunkType), Adds(S, ChunkOf(nodes[k + 1]), Q)
  PROVE  MadeOf(Q, nodes, k + 1)
<1> DEFINE node == nodes[k + 1]
           L == Len(S)
<1>1. Len(nodes) \in Nat /\ L \in Nat /\ Len(Q) \in Nat /\ k \in Nat /\ k + 1 \in 1..Len(nodes)
  BY NodeFacts, LenProperties DEF MadeOf
<1>2. /\ node.first \in Nat /\ node.last \in Nat /\ node.first <= node.last
      /\ \A j \in 1..k : nodes[j].first \in Nat /\ nodes[j].last \in Nat /\ nodes[j].last <= node.first
  <2>1. \A j \in 1..k : j \in 1..Len(nodes) /\ j < k + 1
    BY <1>1
  <2>. QED
    BY <1>1, <2>1, NodeFacts
<1>3. /\ Len(Q) = L + 1
      /\ \A i \in 1..L : Q[i] = S[i]
      /\ Q[L + 1].first = node.first /\ Q[L + 1].last = node.last /\ Q[L + 1].symbol = node.symbol
  BY <1>1, NodeFacts DEF Adds
<1>4. /\ \A i \in 1..L : S[i].first <= S[i].last
      /\ \A i, j \in 1..L : i < j => S[i].last <= S[j].first
      /\ \A j \in 1..k : \E i \in 1..L : Encloses(S[i], nodes[j])
  BY DEF MadeOf
<1>5. PICK last : InRuns(last, S, nodes, k)
  BY DEF MadeOf
<1>6. /\ last \in [1..L -> 1..k]
      /\ \A i, j \in 1..L : i < j => last[i] < last[j]
      /\ IF L = 0 THEN k = 0 ELSE last[L] = k
      /\ \A i \in 1..k : nodes[i].def => \E j \in 1..L : last[j] = i
      /\ \A j \in 1..L :
           /\ S[j].first = nodes[FirstOfRun(last, j)].first
           /\ S[j].last = nodes[last[j]].last
           /\ S[j].symbol = nodes[last[j]].symbol
  BY <1>5 DEF InRuns
<1> HIDE DEF node, L
<1>7. \A i \in 1..Len(Q) : i \in 1..L \/ i = L + 1
  BY <1>1, <1>3
<1>8. L + 1 \in 1..Len(Q) /\ \A i \in 1..L : i \in 1..Len(Q) /\ i # L + 1
  BY <1>1, <1>3
<1>9. \A i \in 1..L : S[i].last <= node.first
  BY <1>2, <1>6
<1>10. \A i \in 1..Len(Q) : Q[i].first <= Q[i].last
  BY <1>2, <1>3, <1>4, <1>7
<1>11. \A i, j \in 1..Len(Q) : i < j => Q[i].last <= Q[j].first
  <2> SUFFICES ASSUME NEW i \in 1..Len(Q), NEW j \in 1..Len(Q), i < j
               PROVE  Q[i].last <= Q[j].first
    OBVIOUS
  <2>1. i \in 1..L
    BY <1>1, <1>3
  <2>2. CASE j \in 1..L
    BY <1>3, <1>4, <2>1, <2>2
  <2>3. CASE j = L + 1
    BY <1>3, <1>9, <2>1, <2>3
  <2>. QED
    BY <1>7, <2>2, <2>3
<1>12. ASSUME NEW j \in 1..(k + 1) PROVE \E i \in 1..Len(Q) : Encloses(Q[i], nodes[j])
  <2>1. CASE j \in 1..k
    BY <1>3, <1>4, <1>8, <2>1
  <2>2. CASE j = k + 1
    <3>1. Encloses(Q[L + 1], node)
      BY <1>2, <1>3 DEF Encloses
    <3>. QED
      BY <1>8, <2>2, <3>1 DEF node
  <2>. QED
    BY <1>1, <2>1, <2>2
<1> DEFINE new == [j \in 1..Len(Q) |-> IF j = L + 1 THEN k + 1 ELSE last[j]]
<1>13. /\ new[L + 1] = k + 1 /\ \A j \in 1..L : new[j] = last[j]
       /\ new \in [1..Len(Q) -> 1..(k + 1)]
  <2>1. \A j \in 1..L : last[j] \in 1..(k + 1)
    BY <1>1, <1>6
  <2>2. k + 1 \in 1..(k + 1)
    BY <1>1
  <2>. QED
    BY <1>7, <1>8, <2>1, <2>2
<1> HIDE DEF new
<1>14. InRuns(new, Q, nodes, k + 1)
  <2>1. \A i, j \in 1..Len(Q) : i < j => new[i] < new[j]
    <3> SUFFICES ASSUME NEW i \in 1..Len(Q), NEW j \in 1..Len(Q), i < j PROVE new[i] < new[j]
      OBVIOUS
    <3>1. i \in 1..L
      BY <1>1, <1>3
    <3>2. last[i] \in 1..k
      BY <1>6, <3>1
    <3>3. CASE j \in 1..L
      BY <1>6, <1>13, <3>1, <3>3
    <3>4. CASE j = L + 1
      BY <1>1, <1>13, <3>1, <3>2, <3>4
    <3>. QED
      BY <1>7, <3>3, <3>4
  <2>2. IF Len(Q) = 0 THEN k + 1 = 0 ELSE new[Len(Q)] = k + 1
    BY <1>1, <1>3, <1>13
  <2>3. ASSUME NEW i \in 1..(k + 1), nodes[i].def PROVE \E j \in 1..Len(Q) : new[j] = i
    <3>1. CASE i \in 1..k
      BY <1>6, <1>8, <1>13, <2>3, <3>1
    <3>2. CASE i = k + 1
      BY <1>8, <1>13, <3>2
    <3>. QED
      BY <1>1, <3>1, <3>2
  <2>4. ASSUME NEW j \in 1..Len(Q)
        PROVE  /\ Q[j].first = nodes[FirstOfRun(new, j)].first
               /\ Q[j].last = nodes[new[j]].last
               /\ Q[j].symbol = nodes[new[j]].symbol
    <3>1. CASE j \in 1..L
      <4>1. FirstOfRun(new, j) = FirstOfRun(last, j)
        <5>1. j # 1 => j - 1 \in 1..L
          BY <1>1, <3>1
        <5>. QED
          BY <1>13, <5>1 DEF FirstOfRun
      <4>. QED
        BY <1>3, <1>6, <1>13, <3>1, <4>1
    <3>2. CASE j = L + 1
      <4>1. FirstOfRun(new, j) = k + 1
        <5>1. CASE L = 0
          BY <1>6, <3>2, <5>1 DEF FirstOfRun
        <5>2. CASE L # 0
          <6>1. j # 1 /\ j - 1 = L /\ L \in 1..L
            BY <1>1, <3>2, <5>2
          <6>. QED
            BY <1>6, <1>13, <5>2, <6>1 DEF FirstOfRun
        <5>. QED
          BY <5>1, <5>2
      <4>. QED
        BY <1>3, <1>13, <3>2, <4>1 DEF node
    <3>. QED
      BY <1>7, <3>1, <3>2
  <2>. QED
    BY <1>13, <2>1, <2>2, <2>3, <2>4 DEF InRuns
<1>. QED
  BY <1>10, <1>11, <1>12, <1>14 DEF MadeOf

\* A node joined to the last chunk, which ends with no definition, ends its run.
LEMMA JoinsRun ==
  ASSUME NEW nodes, InFile(nodes), NEW k \in 0..(Len(nodes) - 1), k # 0 => ~nodes[k].def,
         NEW S, MadeOf(S, nodes, k), NEW Q \in Seq(ChunkType), Joins(S, ChunkOf(nodes[k + 1]), Q)
  PROVE  MadeOf(Q, nodes, k + 1)
<1> DEFINE node == nodes[k + 1]
           L == Len(S)
<1>1. Len(nodes) \in Nat /\ L \in Nat /\ k \in Nat /\ k + 1 \in 1..Len(nodes)
  BY NodeFacts, LenProperties DEF MadeOf
<1>2. /\ node.first \in Nat /\ node.last \in Nat /\ node.first <= node.last
      /\ \A j \in 1..k : nodes[j].first \in Nat /\ nodes[j].last \in Nat /\ nodes[j].last <= node.first
  <2>1. \A j \in 1..k : j \in 1..Len(nodes) /\ j < k + 1
    BY <1>1
  <2>. QED
    BY <1>1, <2>1, NodeFacts
<1>3. /\ L > 0 /\ Len(Q) = L
      /\ \A i \in 1..(L - 1) : Q[i] = S[i]
      /\ Q[L].first = S[L].first /\ Q[L].last = node.last /\ Q[L].symbol = node.symbol
  BY <1>1, NodeFacts DEF Joins
<1>4. /\ \A i \in 1..L : S[i].first <= S[i].last
      /\ \A i, j \in 1..L : i < j => S[i].last <= S[j].first
      /\ \A j \in 1..k : \E i \in 1..L : Encloses(S[i], nodes[j])
  BY DEF MadeOf
<1>5. PICK last : InRuns(last, S, nodes, k)
  BY DEF MadeOf
<1>6. /\ last \in [1..L -> 1..k]
      /\ \A i, j \in 1..L : i < j => last[i] < last[j]
      /\ IF L = 0 THEN k = 0 ELSE last[L] = k
      /\ \A i \in 1..k : nodes[i].def => \E j \in 1..L : last[j] = i
      /\ \A j \in 1..L :
           /\ S[j].first = nodes[FirstOfRun(last, j)].first
           /\ S[j].last = nodes[last[j]].last
           /\ S[j].symbol = nodes[last[j]].symbol
  BY <1>5 DEF InRuns
<1>0. \A i \in 1..L : S[i].first \in Nat /\ S[i].last \in Nat
  <2>1. \A i \in 1..L : S[i] \in ChunkType
    BY ElementOfSeq DEF MadeOf
  <2>. QED
    BY <2>1 DEF ChunkType
<1> HIDE DEF node, L
<1>7. \A i \in 1..L : i \in 1..(L - 1) \/ i = L
  BY <1>1
<1>8. L \in 1..L /\ \A i \in 1..(L - 1) : i \in 1..L /\ i # L
  BY <1>1, <1>3
<1>9. last[L] = k /\ k \in 1..k /\ ~nodes[k].def /\ S[L].last <= node.first
  <2>1. last[L] = k /\ last[L] \in 1..k
    BY <1>1, <1>3, <1>6, <1>8
  <2>2. k # 0
    BY <2>1
  <2>3. S[L].last = nodes[k].last
    BY <1>6, <1>8, <2>1
  <2>. QED
    BY <1>2, <2>1, <2>2, <2>3
<1>10. ASSUME NEW i \in 1..Len(Q) PROVE Q[i].first <= Q[i].last
  <2>1. CASE i \in 1..(L - 1)
    BY <1>3, <1>4, <1>8, <2>1
  <2>2. CASE i = L
    BY <1>0, <1>2, <1>3, <1>4, <1>8, <1>9, <2>2
  <2>. QED
    BY <1>3, <1>7, <2>1, <2>2
<1>11. \A i, j \in 1..Len(Q) : i < j => Q[i].last <= Q[j].first
  <2> SUFFICES ASSUME NEW i \in 1..L, NEW j \in 1..L, i < j
               PROVE  Q[i].last <= Q[j].first
    BY <1>3
  <2>1. i \in 1..(L - 1) /\ Q[i] = S[i]
    BY <1>1, <1>3
  <2>2. Q[j].first = S[j].first
    BY <1>3, <1>7
  <2>. QED
    BY <1>4, <2>1, <2>2
<1>12. ASSUME NEW j \in 1..(k + 1) PROVE \E i \in 1..Len(Q) : Encloses(Q[i], nodes[j])
  <2>1. CASE j \in 1..k
    <3>1. PICK i \in 1..L : Encloses(S[i], nodes[j])
      BY <1>4, <2>1
    <3>2. CASE i \in 1..(L - 1)
      BY <1>3, <3>1, <3>2
    <3>3. CASE i = L
      <4>1. S[L].first <= nodes[j].first /\ nodes[j].last <= node.first
        BY <1>2, <2>1, <3>1, <3>3 DEF Encloses
      <4>2. nodes[j].first \in Nat /\ nodes[j].last \in Nat
        BY <1>2, <2>1
      <4>3. Encloses(Q[L], nodes[j])
        BY <1>2, <1>3, <4>1, <4>2 DEF Encloses
      <4>. QED
        BY <1>3, <1>8, <4>3
    <3>. QED
      BY <1>7, <3>2, <3>3
  <2>2. CASE j = k + 1
    <3>1. Encloses(Q[L], node)
      BY <1>0, <1>2, <1>3, <1>4, <1>8, <1>9 DEF Encloses
    <3>. QED
      BY <1>3, <1>8, <2>2, <3>1 DEF node
  <2>. QED
    BY <1>1, <2>1, <2>2
<1> DEFINE new == [j \in 1..L |-> IF j = L THEN k + 1 ELSE last[j]]
<1>13. /\ new[L] = k + 1 /\ \A j \in 1..(L - 1) : new[j] = last[j]
       /\ new \in [1..L -> 1..(k + 1)]
  <2>1. \A j \in 1..L : last[j] \in 1..(k + 1)
    BY <1>1, <1>6
  <2>2. k + 1 \in 1..(k + 1)
    BY <1>1
  <2>. QED
    BY <1>8, <2>1, <2>2
<1> HIDE DEF new
<1>14. InRuns(new, Q, nodes, k + 1)
  <2>1. \A i, j \in 1..L : i < j => new[i] < new[j]
    <3> SUFFICES ASSUME NEW i \in 1..L, NEW j \in 1..L, i < j PROVE new[i] < new[j]
      OBVIOUS
    <3>1. i \in 1..(L - 1)
      BY <1>1
    <3>2. last[i] \in 1..k
      BY <1>6
    <3>3. CASE j \in 1..(L - 1)
      BY <1>6, <1>13, <3>1, <3>3
    <3>4. CASE j = L
      BY <1>1, <1>13, <3>1, <3>2, <3>4
    <3>. QED
      BY <1>7, <3>3, <3>4
  <2>2. IF Len(Q) = 0 THEN k + 1 = 0 ELSE new[Len(Q)] = k + 1
    BY <1>1, <1>3, <1>13
  <2>3. ASSUME NEW i \in 1..(k + 1), nodes[i].def PROVE \E j \in 1..L : new[j] = i
    <3>1. CASE i \in 1..k
      <4>1. PICK j \in 1..L : last[j] = i
        BY <1>6, <2>3, <3>1
      <4>2. j # L
        BY <1>9, <2>3, <4>1
      <4>. QED
        BY <1>7, <1>13, <4>1, <4>2
    <3>2. CASE i = k + 1
      BY <1>8, <1>13, <3>2
    <3>. QED
      BY <1>1, <3>1, <3>2
  <2>4. ASSUME NEW j \in 1..L
        PROVE  /\ Q[j].first = nodes[FirstOfRun(new, j)].first
               /\ Q[j].last = nodes[new[j]].last
               /\ Q[j].symbol = nodes[new[j]].symbol
    <3>1. FirstOfRun(new, j) = FirstOfRun(last, j)
      <4>1. j # 1 => j - 1 \in 1..(L - 1)
        BY <1>1
      <4>. QED
        BY <1>13, <4>1 DEF FirstOfRun
    <3>2. CASE j \in 1..(L - 1)
      BY <1>3, <1>6, <1>8, <1>13, <3>1, <3>2
    <3>3. CASE j = L
      <4>1. S[L].first = nodes[FirstOfRun(last, L)].first
        BY <1>6, <1>8
      <4>. QED
        BY <1>3, <1>13, <3>1, <3>3, <4>1 DEF node
    <3>. QED
      BY <1>7, <3>2, <3>3
  <2>. QED
    BY <1>3, <1>13, <2>1, <2>2, <2>3, <2>4 DEF InRuns
<1>. QED
  BY <1>10, <1>11, <1>12, <1>14 DEF MadeOf

\* _merge_tiny makes its chunks of all the nodes.
LEMMA MergeTinyMakes ==
  ASSUME NEW nodes, InFile(nodes)
  PROVE  MadeOf(MergeTiny(nodes), nodes, Len(nodes))
<1> DEFINE n == Len(nodes)
<1>1. nodes \in Seq(NodeType) /\ n \in Nat /\ \A j \in 1..n : nodes[j] \in NodeType
  BY LenProperties, ElementOfSeq DEF InFile
<1>2. PICK p : /\ p \in [0..n -> MergeType] /\ p[0] = NoGap
               /\ \A k \in 0..(n - 1) : p[k + 1] = MergeNode(p[k], nodes[k + 1])
               /\ MergeTiny(nodes) = p[n].merged \o p[n].pending
  BY <1>1, MergeSteps
<1> HIDE DEF n
<1> DEFINE T == {k \in 0..n : /\ MadeOf(Merged(p[k]), nodes, k)
                              /\ k # 0 /\ p[k].pending # << >> => ~nodes[k].def}
<1>3. 0 \in T
  <2>1. Merged(p[0]) = << >> /\ << >> \in Seq(ChunkType) /\ Len(<< >>) = 0 /\ 0 \in 0..n
    BY <1>1, <1>2, NoGapType, EmptySeq
  <2>2. InRuns([j \in {} |-> 0], << >>, nodes, 0)
    <3>1. 1..0 = {}
      OBVIOUS
    <3>. QED
      BY <2>1, <3>1 DEF InRuns
  <2>3. MadeOf(<< >>, nodes, 0)
    BY <2>1, <2>2 DEF MadeOf
  <2>. QED
    BY <2>1, <2>3
<1>4. ASSUME NEW k \in 0..(n - 1), k \in T PROVE k + 1 \in T
  <2>1. k \in 0..n /\ k + 1 \in 0..n /\ k + 1 \in 1..n
    BY <1>1
  <2>2. p[k] \in MergeType /\ p[k + 1] \in MergeType /\ p[k + 1] = MergeNode(p[k], nodes[k + 1])
    BY <1>2, <2>1
  <2>3. /\ \/ Adds(Merged(p[k]), ChunkOf(nodes[k + 1]), Merged(p[k + 1]))
           \/ p[k].pending # << >> /\ Joins(Merged(p[k]), ChunkOf(nodes[k + 1]), Merged(p[k + 1]))
        /\ p[k + 1].pending # << >> => ~nodes[k + 1].def
    BY <1>1, <2>1, <2>2, MergeNodeStep
  <2>4. Merged(p[k + 1]) \in Seq(ChunkType)
    BY <2>2, GapIsSeq, ConcatProperties DEF MergeType, Merged
  <2>5. MadeOf(Merged(p[k]), nodes, k) /\ (k # 0 /\ p[k].pending # << >> => ~nodes[k].def)
    BY <1>4
  <2>6. MadeOf(Merged(p[k + 1]), nodes, k + 1)
    BY <2>3, <2>4, <2>5, AddsRun, JoinsRun DEF n
  <2>. QED
    BY <2>1, <2>3, <2>6
<1>5. MadeOf(Merged(p[n]), nodes, n)
  <2> HIDE DEF T
  <2>1. \A k \in 0..n : k \in T
    BY <1>1, <1>3, <1>4, IntervalInduction
  <2>2. n \in 0..n
    BY <1>1
  <2>. QED
    BY <2>1, <2>2 DEF T
<1>. QED
  BY <1>2, <1>5 DEF Merged, n

-----------------------------------------------------------------------------
(* The windows of a file without a parser (ChunkLines).                    *)

LEMMA LeastIsMember ==
  ASSUME NEW S \in SUBSET Nat, S # {}
  PROVE  Least(S) \in S
<1> DEFINE R == OpToRel(<, Nat)
<1>1. IsWellFoundedOn(R, Nat)
  BY NatLessThanWellFounded
<1>2. \A x, y \in Nat : x < y => <<x, y>> \in R
  BY DEF OpToRel
<1> HIDE DEF R
<1>3. PICK n \in S : \A m \in S : ~ (<<m, n>> \in R)
  BY <1>1, WFMin
<1>4. ASSUME NEW m \in S PROVE n <= m
  <2>1. m \in Nat /\ n \in Nat
    OBVIOUS
  <2>2. ~ (m < n)
    BY <1>2, <1>3, <2>1
  <2>. QED
    BY <2>1, <2>2
<1>. QED
  BY <1>4 DEF Least

\* The chunks R are pieces of the lines from i on, in their order, and every
\* line that is not blank is in one.
Covers(R, i, lines) ==
  /\ R \in Seq(ChunkType)
  /\ \A a \in 1..Len(R) : i <= R[a].first /\ R[a].first <= R[a].last /\ R[a].last <= Len(lines)
  /\ \A a, b \in 1..Len(R) : a < b => R[a].last < R[b].first
  /\ \A m \in i..Len(lines) : lines[m] > 1 => \E a \in 1..Len(R) : m \in R[a].first..R[a].last

LEMMA WindowFits ==
  ASSUME NEW lines \in Seq(Nat \ {0}), NEW i \in 1..Len(lines)
  PROVE  LET j == WindowEnd(lines, i)
             window == SubSeq(lines, i, j)
         IN  /\ j \in i..Len(lines)
             /\ CodeChunk(i, window, NoSymbol) \in ChunkType
             /\ CodeChunk(i, window, NoSymbol).first = i
             /\ CodeChunk(i, window, NoSymbol).last = j
             /\ Blank(window) => \A m \in i..j : lines[m] = 1
<1> DEFINE n == Len(lines)
           full == {j \in i..n : j = n \/ j - i + 1 = LineWindow \/ Total(SubSeq(lines, i, j)) >= MaxChars}
           e == WindowEnd(lines, i)
           window == SubSeq(lines, i, e)
           chunk == CodeChunk(i, window, NoSymbol)
<1>1. n \in Nat /\ \A m \in 1..n : lines[m] \in Nat \ {0}
  BY LenProperties, ElementOfSeq
<1>2. e \in i..n
  <2>1. n \in full /\ full \in SUBSET Nat /\ full \subseteq i..n
    BY <1>1
  <2>2. e = Least(full)
    BY DEF WindowEnd
  <2> HIDE DEF full, e
  <2>3. Least(full) \in full
    BY <2>1, LeastIsMember
  <2>. QED
    BY <2>1, <2>2, <2>3
<1> HIDE DEF e, n
<1>3. /\ window \in Seq(Nat \ {0}) /\ Len(window) = e - i + 1
      /\ \A m \in 1..(e - i + 1) : window[m] = lines[i + m - 1]
  <2>1. \A m \in i..e : lines[m] \in Nat \ {0}
    BY <1>1, <1>2
  <2>2. i \in Int /\ e \in Int /\ i <= e
    BY <1>1, <1>2
  <2>. QED
    BY <2>1, <2>2, SubSeqProperties
<1>4. DOMAIN window = 1..(e - i + 1)
  BY <1>3, LenProperties
<1> HIDE DEF window
<1>5. Total(window) \in Nat
  BY <1>3, TotalIsNat
<1>6. chunk = [first |-> i, last |-> e, size |-> Total(window), symbol |-> NoSymbol]
  <2>1. i + (e - i + 1) - 1 = e
    BY <1>1, <1>2
  <2>. QED
    BY <1>3, <2>1 DEF CodeChunk
<1>7. chunk \in ChunkType /\ chunk.first = i /\ chunk.last = e
  <2>1. i \in Nat /\ e \in Nat
    BY <1>1, <1>2
  <2>. QED
    BY <1>5, <1>6, <2>1, NoSymbolIsOne DEF ChunkType
<1>8. ASSUME Blank(window), NEW m \in i..e PROVE lines[m] = 1
  <2>1. m - i + 1 \in 1..(e - i + 1) /\ i + (m - i + 1) - 1 = m
    BY <1>1, <1>2
  <2>2. window[m - i + 1] = 1
    BY <1>4, <1>8, <2>1 DEF Blank
  <2>. QED
    BY <1>3, <2>1, <2>2
<1>. QED
  BY <1>2, <1>7, <1>8 DEF e, n, window

\* A window is put before the chunks of what follows it.
LEMMA WindowCovers ==
  ASSUME NEW lines \in Seq(Nat \ {0}), NEW i \in 1..Len(lines), NEW R,
         Covers(R, WindowEnd(lines, i) + 1, lines)
  PROVE  LET window == SubSeq(lines, i, WindowEnd(lines, i))
         IN  Covers((IF Blank(window) THEN << >> ELSE <<CodeChunk(i, window, NoSymbol)>>) \o R, i, lines)
<1> DEFINE n == Len(lines)
           e == WindowEnd(lines, i)
           window == SubSeq(lines, i, e)
           c == CodeChunk(i, window, NoSymbol)
<1>1. n \in Nat /\ \A m \in 1..n : lines[m] \in Nat \ {0}
  BY LenProperties, ElementOfSeq
<1>2. /\ e \in i..n /\ c \in ChunkType /\ c.first = i /\ c.last = e
      /\ Blank(window) => \A m \in i..e : lines[m] = 1
  BY WindowFits
<1>3. /\ R \in Seq(ChunkType)
      /\ \A a \in 1..Len(R) : e + 1 <= R[a].first /\ R[a].first <= R[a].last /\ R[a].last <= n
      /\ \A a, b \in 1..Len(R) : a < b => R[a].last < R[b].first
      /\ \A m \in (e + 1)..n : lines[m] > 1 => \E a \in 1..Len(R) : m \in R[a].first..R[a].last
  BY DEF Covers
<1>4. Len(R) \in Nat /\ \A a \in 1..Len(R) : R[a].first \in Nat /\ R[a].last \in Nat
  <2>1. \A a \in 1..Len(R) : R[a] \in ChunkType
    BY <1>3, ElementOfSeq
  <2>. QED
    BY <1>3, <2>1, LenProperties DEF ChunkType
<1>5. \A m \in i..n : m \in i..e \/ m \in (e + 1)..n
  BY <1>1, <1>2
<1> HIDE DEF e, window, c, n
<1>6. CASE Blank(window)
  <2>1. << >> \o R = R
    BY <1>3, ConcatEmptySeq
  <2>2. \A a \in 1..Len(R) : i <= R[a].first
    BY <1>1, <1>2, <1>3, <1>4
  <2>3. \A m \in i..n : lines[m] > 1 => m \in (e + 1)..n
    BY <1>2, <1>5, <1>6
  <2>4. Covers(R, i, lines)
    BY <1>3, <2>2, <2>3 DEF Covers, n
  <2>. QED
    BY <1>6, <2>1, <2>4 DEF window, e
<1>7. CASE ~ Blank(window)
  <2> DEFINE Q == <<c>> \o R
  <2>1. /\ Q \in Seq(ChunkType) /\ Len(Q) = Len(R) + 1 /\ Q[1] = c
        /\ \A a \in 1..Len(R) : Q[a + 1] = R[a]
    <3>1. <<c>> \in Seq(ChunkType) /\ Len(<<c>>) = 1 /\ <<c>>[1] = c
      BY <1>2
    <3>2. /\ Q \in Seq(ChunkType) /\ Len(Q) = 1 + Len(R)
          /\ \A a \in 1..(1 + Len(R)) : Q[a] = IF a <= 1 THEN <<c>>[a] ELSE R[a - 1]
      BY <1>3, <3>1, ConcatProperties
    <3> HIDE DEF Q
    <3>3. Q[1] = c
      <4>1. 1 \in 1..(1 + Len(R))
        BY <1>4
      <4>. QED
        BY <3>1, <3>2, <4>1
    <3>4. ASSUME NEW a \in 1..Len(R) PROVE Q[a + 1] = R[a]
      <4>1. a + 1 \in 1..(1 + Len(R)) /\ ~ (a + 1 <= 1) /\ (a + 1) - 1 = a
        BY <1>4
      <4>. QED
        BY <3>2, <4>1
    <3>5. 1 + Len(R) = Len(R) + 1
      BY <1>4
    <3>6. Len(Q) = Len(R) + 1
      BY <3>2, <3>5
    <3>. QED
      BY <3>2, <3>3, <3>4, <3>6
  <2> HIDE DEF Q
  <2>2. ASSUME NEW a \in 1..Len(Q)
        PROVE  a = 1 \/ (a - 1 \in 1..Len(R) /\ Q[a] = R[a - 1])
    <3>1. CASE a # 1
      <4>1. a - 1 \in 1..Len(R) /\ (a - 1) + 1 = a
        BY <1>4, <2>1, <3>1
      <4>. QED
        BY <2>1, <4>1
    <3>. QED
      BY <3>1
  <2>3. \A a \in 1..Len(Q) : i <= Q[a].first /\ Q[a].first <= Q[a].last /\ Q[a].last <= n
    <3> SUFFICES ASSUME NEW a \in 1..Len(Q)
                 PROVE  i <= Q[a].first /\ Q[a].first <= Q[a].last /\ Q[a].last <= n
      OBVIOUS
    <3>1. CASE a = 1
      BY <1>1, <1>2, <2>1, <3>1
    <3>2. CASE a - 1 \in 1..Len(R) /\ Q[a] = R[a - 1]
      <4>1. /\ e + 1 <= R[a - 1].first /\ R[a - 1].first <= R[a - 1].last /\ R[a - 1].last <= n
            /\ R[a - 1].first \in Nat
        BY <1>3, <1>4, <3>2
      <4>. QED
        BY <1>1, <1>2, <3>2, <4>1
    <3>. QED
      BY <2>2, <3>1, <3>2
  <2>4. ASSUME NEW a \in 1..Len(Q), NEW b \in 1..Len(Q), a < b PROVE Q[a].last < Q[b].first
    <3>1. b - 1 \in 1..Len(R) /\ Q[b] = R[b - 1]
      BY <1>4, <2>1, <2>2, <2>4
    <3>2. CASE a = 1
      BY <1>2, <1>3, <1>4, <2>1, <3>1, <3>2
    <3>3. CASE a - 1 \in 1..Len(R) /\ Q[a] = R[a - 1]
      <4>1. a - 1 < b - 1
        BY <1>4, <2>1, <2>4
      <4>. QED
        BY <1>3, <3>1, <3>3, <4>1
    <3>. QED
      BY <2>2, <3>2, <3>3
  <2>5. ASSUME NEW m \in i..n, lines[m] > 1
        PROVE  \E a \in 1..Len(Q) : m \in Q[a].first..Q[a].last
    <3>1. CASE m \in i..e
      <4>1. 1 \in 1..Len(Q)
        BY <1>4, <2>1
      <4>. QED
        BY <1>2, <2>1, <3>1, <4>1
    <3>2. CASE m \in (e + 1)..n
      <4>1. PICK a \in 1..Len(R) : m \in R[a].first..R[a].last
        BY <1>3, <2>5, <3>2
      <4>2. a + 1 \in 1..Len(Q) /\ Q[a + 1] = R[a]
        BY <1>4, <2>1
      <4>. QED
        BY <4>1, <4>2
    <3>. QED
      BY <1>5, <3>1, <3>2
  <2>6. Covers(Q, i, lines)
    BY <2>1, <2>3, <2>4, <2>5 DEF Covers, n
  <2>. QED
    BY <1>7, <2>6 DEF Q, window, e, c
<1>. QED
  BY <1>6, <1>7

\* _chunk_lines covers a file.
LEMMA WindowsCover ==
  ASSUME NEW lines \in Seq(Nat \ {0})
  PROVE  Covers(ChunkLines(lines), 1, lines)
<1> DEFINE n == Len(lines)
           V == Seq(ChunkType)
           Piece(i) == LET window == SubSeq(lines, i, WindowEnd(lines, i))
                       IN  IF Blank(window) THEN << >> ELSE <<CodeChunk(i, window, NoSymbol)>>
           leap == [i \in 1..n |-> WindowEnd(lines, i) + 1]
           step == [q \in (1..n) \X V |-> Piece(q[1]) \o q[2]]
           Body(g) == [i \in 1..(n + 1) |->
                         IF i > n THEN << >> ELSE Piece(i) \o g[WindowEnd(lines, i) + 1]]
           f == CHOOSE g : g = Body(g)
<1>1. n \in Nat
  BY LenProperties
<1>2. ASSUME NEW i \in 1..n PROVE Piece(i) \in V /\ leap[i] \in (i + 1)..(n + 1) /\ leap[i] = WindowEnd(lines, i) + 1
  <2>1. WindowEnd(lines, i) \in i..n /\ CodeChunk(i, SubSeq(lines, i, WindowEnd(lines, i)), NoSymbol) \in ChunkType
    BY WindowFits
  <2>. QED
    BY <1>1, <2>1, EmptySeq
<1>3. ChunkLines(lines) = f[1]
  BY DEF ChunkLines
<1>4. << >> \in V
  BY EmptySeq
<1> HIDE DEF n, Piece
<1>5. step \in [(1..n) \X V -> V] /\ \A i \in 1..n, x \in V : step[<<i, x>>] = Piece(i) \o x
  BY <1>2, ConcatProperties
<1> HIDE DEF step, V
<1>6. PICK g \in [1..(n + 1) -> V] : Descends(g, n, << >>, leap, step)
  <2> HIDE DEF leap
  <2>. QED
    BY <1>1, <1>2, <1>4, <1>5, DescentExists
<1>7. g = Body(g)
  <2>1. ASSUME NEW i \in 1..(n + 1)
        PROVE  g[i] = IF i > n THEN << >> ELSE Piece(i) \o g[WindowEnd(lines, i) + 1]
    <3>1. CASE i > n
      <4>1. i = n + 1
        BY <1>1, <3>1
      <4>. QED
        BY <1>6, <3>1, <4>1 DEF Descends
    <3>2. CASE ~ (i > n)
      <4>1. i \in 1..n
        BY <1>1, <3>2
      <4>2. g[i] = step[<<i, g[leap[i]]>>]
        BY <1>6, <4>1 DEF Descends
      <4>3. leap[i] \in 1..(n + 1) /\ leap[i] = WindowEnd(lines, i) + 1
        BY <1>1, <1>2, <4>1
      <4>4. g[leap[i]] \in V
        BY <4>3
      <4>. QED
        BY <1>5, <3>2, <4>1, <4>2, <4>3, <4>4
    <3>. QED
      BY <3>1, <3>2
  <2>. QED
    BY <2>1
<1>8. f = Body(f)
  <2> HIDE DEF Body
  <2>. QED
    BY <1>7
<1>9. \A i \in 1..(n + 1) : f[i] = IF i > n THEN << >> ELSE Piece(i) \o f[WindowEnd(lines, i) + 1]
  <2> HIDE DEF f
  <2>. QED
    BY <1>8
<1> HIDE DEF f, Body, leap
<1> DEFINE T == {m \in 0..n : \A i \in (n + 1 - m)..(n + 1) : Covers(f[i], i, lines)}
<1>10. 0 \in T
  <2>1. Covers(<< >>, n + 1, lines)
    <3>1. << >> \in Seq(ChunkType) /\ Len(<< >>) = 0
      BY EmptySeq
    <3>2. (n + 1)..Len(lines) = {}
      BY <1>1 DEF n
    <3>. QED
      BY <3>1, <3>2 DEF Covers
  <2>2. n + 1 \in 1..(n + 1) /\ n + 1 > n
    BY <1>1
  <2>3. f[n + 1] = << >>
    BY <1>9, <2>2
  <2>4. \A i \in (n + 1 - 0)..(n + 1) : i = n + 1
    BY <1>1
  <2>5. 0 \in 0..n
    BY <1>1
  <2>. QED
    BY <2>1, <2>3, <2>4, <2>5
<1>11. ASSUME NEW m \in 0..(n - 1), m \in T PROVE m + 1 \in T
  <2>1. m + 1 \in 0..n /\ n - m \in 1..n
    BY <1>1
  <2>2. \A i \in (n + 1 - m)..(n + 1) : Covers(f[i], i, lines)
    BY <1>11
  <2>3. leap[n - m] \in (n - m + 1)..(n + 1) /\ leap[n - m] = WindowEnd(lines, n - m) + 1
    BY <1>2, <2>1
  <2>4. leap[n - m] \in (n + 1 - m)..(n + 1)
    BY <1>1, <2>3
  <2>5. Covers(f[WindowEnd(lines, n - m) + 1], WindowEnd(lines, n - m) + 1, lines)
    BY <2>2, <2>3, <2>4
  <2>6. f[n - m] = Piece(n - m) \o f[WindowEnd(lines, n - m) + 1]
    <3>1. n - m \in 1..(n + 1) /\ ~ (n - m > n)
      BY <1>1, <2>1
    <3>. QED
      BY <1>9, <3>1
  <2>7. Covers(f[n - m], n - m, lines)
    BY <2>1, <2>5, <2>6, WindowCovers DEF Piece, n
  <2>8. \A i \in (n + 1 - (m + 1))..(n + 1) : i = n - m \/ i \in (n + 1 - m)..(n + 1)
    BY <1>1
  <2>. QED
    BY <2>1, <2>2, <2>7, <2>8
<1>12. Covers(f[1], 1, lines)
  <2> HIDE DEF T
  <2>1. \A m \in 0..n : m \in T
    BY <1>1, <1>10, <1>11, IntervalInduction
  <2>2. n \in 0..n /\ 1 \in (n + 1 - n)..(n + 1)
    BY <1>1
  <2>. QED
    BY <2>1, <2>2 DEF T
<1>. QED
  BY <1>3, <1>12

-----------------------------------------------------------------------------
(* What chunk_code returns (ChunkCode).                                    *)

\* The chunks R are cut from the file: by its tree, or without one by windows.
Cut(R, file) ==
  /\ R \in Seq(ChunkType)
  /\ \A a, b \in 1..Len(R) : a < b => R[a].last <= R[b].first
  /\ file.tree = << >> => Covers(R, 1, file.lines)
  /\ file.tree # << >> => MadeOf(R, file.tree, Len(file.tree))

LEMMA TreeInFile ==
  ASSUME NEW tree \in Seq(TreeNode), NEW lines, IsTreeOf(tree, lines)
  PROVE  InFile(tree)
<1>1. Len(tree) \in Nat /\ DOMAIN tree = 1..Len(tree) /\ tree \in [1..Len(tree) -> TreeNode]
  BY LenProperties, ElementOfSeq
<1>2. \A j \in 1..Len(tree) : tree[j] \in NodeType
  BY <1>1 DEF IsTreeOf, NodeType
<1>3. tree \in [1..Len(tree) -> NodeType]
  BY <1>1, <1>2
<1>4. tree \in Seq(NodeType)
  BY <1>1, <1>3, SeqDef
<1>. QED
  BY <1>1, <1>4 DEF InFile, IsTreeOf

LEMMA CodeIsCut ==
  ASSUME NEW file, file.lines \in Seq(Nat \ {0}), file.tree \in Seq(TreeNode),
         IsTreeOf(file.tree, file.lines), ChunkCode(file) # Raises
  PROVE  Cut(ChunkCode(file), file)
<1> DEFINE lines == file.lines
           tree == file.tree
<1>1. Len(lines) \in Nat /\ DOMAIN lines = 1..Len(lines)
  BY LenProperties
<1>2. CASE Blank(lines)
  <2>1. ChunkCode(file) = << >> /\ tree = << >>
    BY <1>2 DEF ChunkCode, IsTreeOf
  <2>2. \A m \in 1..Len(lines) : lines[m] = 1
    BY <1>1, <1>2 DEF Blank
  <2> HIDE DEF lines
  <2>3. << >> \in Seq(ChunkType) /\ Len(<< >>) = 0
    BY EmptySeq
  <2>4. Covers(<< >>, 1, lines)
    BY <2>2, <2>3 DEF Covers
  <2>. QED
    BY <2>1, <2>3, <2>4 DEF Cut, lines
<1>3. CASE ~Blank(lines) /\ tree = << >>
  <2>1. ChunkCode(file) = ChunkLines(lines)
    BY <1>3 DEF ChunkCode
  <2>2. Covers(ChunkLines(lines), 1, lines)
    BY WindowsCover
  <2>3. ChunkLines(lines) \in Seq(ChunkType)
    BY <2>2 DEF Covers
  <2> DEFINE R == ChunkLines(lines)
  <2>4. ASSUME NEW a \in 1..Len(R), NEW b \in 1..Len(R), a < b PROVE R[a].last <= R[b].first
    <3>1. R[a].last < R[b].first
      BY <2>2, <2>4 DEF Covers
    <3>2. R[a] \in ChunkType /\ R[b] \in ChunkType
      BY <2>3, ElementOfSeq
    <3>. QED
      BY <3>1, <3>2 DEF ChunkType
  <2>. QED
    BY <1>3, <2>1, <2>2, <2>3, <2>4 DEF Cut
<1>4. CASE ~Blank(lines) /\ tree # << >>
  <2>1. ChunkCode(file) = MergeTiny(tree)
    BY <1>4 DEF ChunkCode
  <2>2. MadeOf(MergeTiny(tree), tree, Len(tree))
    BY TreeInFile, MergeTinyMakes
  <2>. QED
    BY <1>4, <2>1, <2>2 DEF Cut, MadeOf
<1>. QED
  BY <1>2, <1>3, <1>4

-----------------------------------------------------------------------------
(* The chunks of a document, embedded and stored (IndexFile).              *)

UpsertsIn(pts, z) ==
  LET iter[s \in SUBSET (DOMAIN z)] ==
        IF s = {} THEN pts ELSE LET x == Max(s) IN Upsert(iter[s \ {x}], z[x])
  IN  iter

LEMMA UpsertsByFold == \A pts, z : FoldLeft(Upsert, pts, z) = UpsertsIn(pts, z)[DOMAIN z]
BY DEF FoldLeft, MapThenFoldSet, UpsertsIn

LEMMA UpsertSteps ==
  ASSUME NEW z \in Seq(Nat), NEW pts, NEW V, pts \in V, \A x \in V, i \in 1..Len(z) : Upsert(x, z[i]) \in V
  PROVE  \E p : /\ p \in [0..Len(z) -> V] /\ p[0] = pts
                /\ \A k \in 0..(Len(z) - 1) : p[k + 1] = Upsert(p[k], z[k + 1])
                /\ UpsertsIn(pts, z)[DOMAIN z] = p[Len(z)]
<1> DEFINE n == Len(z)
           step == [q \in (1..n) \X V |-> Upsert(q[2], z[q[1]])]
           Body(g) == [s \in SUBSET (1..n) |-> IF s = {} THEN pts ELSE Upsert(g[s \ {Max(s)}], z[Max(s)])]
           f == UpsertsIn(pts, z)
<1>1. n \in Nat /\ DOMAIN z = 1..n
  BY LenProperties
<1>2. pts \in V /\ \A x \in V, i \in 1..n : Upsert(x, z[i]) \in V
  OBVIOUS
<1> HIDE DEF n
<1>3. step \in [(1..n) \X V -> V]
  BY <1>2
<1>4. \A i \in 1..n, x \in V : step[<<i, x>>] = Upsert(x, z[i])
  OBVIOUS
<1> HIDE DEF step
<1>5. PICK g \in [SUBSET (1..n) -> V] : FoldsBy(g, 1..n, pts, TopOf(n), step)
  BY <1>1, <1>2, <1>3, PrefixFold
<1>6. g = Body(g)
  <2>1. \A s \in SUBSET (1..n) : s # {} => TopOf(n)[s] = Max(s) /\ Max(s) \in 1..n
    BY <1>1, TopPicks DEF TopOf
  <2>2. \A s \in SUBSET (1..n) : g[s] = IF s = {} THEN pts ELSE Upsert(g[s \ {Max(s)}], z[Max(s)])
    <3> SUFFICES ASSUME NEW s \in SUBSET (1..n)
                 PROVE  g[s] = IF s = {} THEN pts ELSE Upsert(g[s \ {Max(s)}], z[Max(s)])
      OBVIOUS
    <3>1. CASE s = {}
      BY <1>5, <3>1 DEF FoldsBy
    <3>2. CASE s # {}
      <4>1. g[s] = step[<<Max(s), g[s \ {Max(s)}]>>]
        BY <1>5, <2>1, <3>2 DEF FoldsBy
      <4>2. Max(s) \in 1..n /\ g[s \ {Max(s)}] \in V
        BY <2>1, <3>2
      <4>. QED
        BY <1>4, <3>2, <4>1, <4>2
    <3>. QED
      BY <3>1, <3>2
  <2>. QED
    BY <2>2
<1>7. f = Body(f)
  <2>1. f = CHOOSE h : h = Body(h)
    BY <1>1 DEF UpsertsIn
  <2> HIDE DEF Body, f
  <2>. QED
    BY <1>6, <2>1
<1>8. \A s \in SUBSET (1..n) : f[s] = IF s = {} THEN pts ELSE Upsert(f[s \ {Max(s)}], z[Max(s)])
  <2> HIDE DEF f
  <2>. QED
    BY <1>7
<1>9. Folds(f, n, V, pts, step)
  <2> HIDE DEF f
  <2>1. ASSUME NEW s \in SUBSET (1..n), s # {}, f[s \ {Max(s)}] \in V
        PROVE  f[s] = step[<<Max(s), f[s \ {Max(s)}]>>]
    <3>1. Max(s) \in 1..n
      BY <1>1, <2>1, TopPicks DEF TopOf
    <3>. QED
      BY <1>4, <1>8, <2>1, <3>1
  <2>2. f[{}] = pts
    BY <1>8
  <2>. QED
    BY <2>1, <2>2 DEF Folds
<1>10. PICK p : Stepwise(p, n, V, pts, step) /\ p[n] = f[1..n]
  <2> HIDE DEF f
  <2>1. InStepwise(f, n, V, pts, step)
    BY <1>1, <1>2, <1>3, <1>9, FoldInSteps
  <2>. QED
    BY <2>1 DEF InStepwise
<1>11. \A k \in 0..(n - 1) : p[k + 1] = Upsert(p[k], z[k + 1])
  <2> SUFFICES ASSUME NEW k \in 0..(n - 1) PROVE p[k + 1] = Upsert(p[k], z[k + 1])
    OBVIOUS
  <2>1. k \in 0..n /\ k + 1 \in 1..n
    BY <1>1
  <2>2. p[k] \in V /\ p[k + 1] = step[<<k + 1, p[k]>>]
    BY <1>10, <2>1 DEF Stepwise
  <2>. QED
    BY <1>4, <2>1, <2>2
<1>12. UpsertsIn(pts, z)[DOMAIN z] = p[n]
  BY <1>1, <1>10, UpsertsByFold DEF f
<1>. QED
  BY <1>10, <1>11, <1>12 DEF Stepwise, n

CodeDocuments == {Code(file) : file \in Sources}

IsFunction(pts) == pts = [id \in DOMAIN pts |-> pts[id]]

InStore(pts, j) ==
  /\ Id(chunks[j], j) \in DOMAIN pts
  /\ ~HasNamesake(j) => pts[Id(chunks[j], j)] = [chunk |-> chunks[j], revision |-> revision]

\* The chunks of a source file are those of this revision; those passed to the
\* embedder are in the store or lost, and at the end so are the others.
CodeInv ==
  /\ doc \in CodeDocuments
  /\ IsFunction(points) /\ at \in Nat
  /\ stage # "raised" =>
       /\ chunks = ChunkCode(doc) /\ ChunkCode(doc) # Raises
       /\ \A j \in DOMAIN chunks : j <= at => j \in lost \/ InStore(points, j)
       /\ stage = "idle" => \A j \in DOMAIN chunks : j > at => j \in lost

DocumentInv ==
  \/ doc = NoDoc /\ stage = "idle" /\ IsFunction(points)
  \/ doc # NoDoc /\ doc.kind = "code" /\ CodeInv
  \/ doc # NoDoc /\ doc.kind = "prose"

LEMMA CodeDocument ==
  ASSUME NEW d \in CodeDocuments
  PROVE  /\ d \in Documents /\ d # NoDoc /\ d.kind = "code"
         /\ d.lines \in Seq(Nat \ {0}) /\ d.tree \in Seq(TreeNode) /\ IsTreeOf(d.tree, d.lines)
         /\ [lines |-> d.lines, tree |-> d.tree] \in Sources
<1>1. PICK file \in Sources : d = Code(file)
  BY DEF CodeDocuments
<1>2. d \in Documents
  BY DEF CodeDocuments, Documents
<1>3. d.lines = file.lines /\ d.tree = file.tree /\ d.kind = "code"
  BY <1>1 DEF Code
<1>4. /\ file \in [lines : Seq(Nat \ {0}), tree : Seq(TreeNode)]
      /\ IsTreeOf(file.tree, file.lines)
  BY IndexAssumption
<1>5. file = [lines |-> file.lines, tree |-> file.tree]
  BY <1>4
<1>. QED
  BY <1>2, <1>3, <1>4, <1>5, IndexAssumption

LEMMA DocumentKinds ==
  ASSUME NEW d \in Documents
  PROVE  d \in CodeDocuments \/ d.kind = "prose"
BY DEF Documents, CodeDocuments, Card

LEMMA CodeChunks ==
  ASSUME CodeInv, stage # "raised"
  PROVE  Cut(chunks, doc) /\ Len(chunks) \in Nat /\ DOMAIN chunks = 1..Len(chunks)
<1>1. /\ doc.lines \in Seq(Nat \ {0}) /\ doc.tree \in Seq(TreeNode) /\ IsTreeOf(doc.tree, doc.lines)
      /\ chunks = ChunkCode(doc) /\ ChunkCode(doc) # Raises
  BY CodeDocument DEF CodeInv
<1>2. Cut(chunks, doc)
  BY <1>1, CodeIsCut
<1>. QED
  BY <1>2, LenProperties DEF Cut

\* Two chunks of a source file have the same id only if they begin on one line
\* under one symbol.
LEMMA IdsDiffer ==
  ASSUME CodeInv, stage # "raised", NEW j \in DOMAIN chunks, NEW k \in DOMAIN chunks, j # k, ~HasNamesake(j)
  PROVE  Id(chunks[j], j) # Id(chunks[k], k)
<1>1. Len(chunks) \in Nat /\ DOMAIN chunks = 1..Len(chunks)
  BY CodeChunks
<1>2. doc.kind = "code"
  BY CodeDocument DEF CodeInv
<1> DEFINE same == chunks[k].first = chunks[j].first /\ chunks[k].symbol = chunks[j].symbol
<1>3. CASE ~same
  <2>1. \A i \in {j, k} : Id(chunks[i], i)[1] = chunks[i].first /\ Id(chunks[i], i)[2] = chunks[i].symbol
    BY <1>2 DEF Id
  <2>. QED
    BY <1>3, <2>1
<1>4. CASE same
  <2>1. chunks[j].symbol = NoSymbol /\ chunks[k].symbol = NoSymbol
    BY <1>4 DEF HasNamesake
  <2>2. Id(chunks[j], j)[3] = j /\ Id(chunks[k], k)[3] = k
    BY <1>2, <2>1 DEF Id
  <2>. QED
    BY <2>2
<1>. QED
  BY <1>3, <1>4

\* A submitted document has its own chunks, none of them passed on.
LEMMA SubmitKeeps ==
  ASSUME NEW d \in Documents, IsFunction(points), Submit(d)
  PROVE  DocumentInv'
<1>1. /\ doc' = d /\ at' = 0 /\ points' = points
      /\ \/ ChunksOf(d) = Raises /\ stage' = "raised"
         \/ ChunksOf(d) # Raises /\ stage' = "embed" /\ chunks' = ChunksOf(d)
  BY DEF Submit
<1>2. CASE d \in CodeDocuments
  <2>1. /\ d # NoDoc /\ d.kind = "code"
        /\ d.lines \in Seq(Nat \ {0}) /\ d.tree \in Seq(TreeNode) /\ IsTreeOf(d.tree, d.lines)
    BY <1>2, CodeDocument
  <2>2. ChunksOf(d) = ChunkCode(d)
    BY <2>1 DEF ChunksOf
  <2>3. IsFunction(points)'
    BY <1>1 DEF IsFunction
  <2>4. CASE stage' = "raised"
    <3>1. CodeInv'
      BY <1>1, <1>2, <2>3, <2>4 DEF CodeInv
    <3>. QED
      BY <1>1, <2>1, <3>1 DEF DocumentInv
  <2>5. CASE ChunksOf(d) # Raises /\ stage' = "embed" /\ chunks' = ChunksOf(d)
    <3>1. chunks' = ChunkCode(d) /\ ChunkCode(d) # Raises /\ (ChunkCode(doc))' = ChunkCode(d)
      BY <1>1, <2>2, <2>5
    <3>2. \A j \in DOMAIN (chunks') : j \in Nat /\ j > 0
      <4>1. Cut(ChunkCode(d), d)
        BY <2>1, <3>1, CodeIsCut
      <4>2. chunks' \in Seq(ChunkType)
        BY <3>1, <4>1 DEF Cut
      <4>3. DOMAIN (chunks') = 1..Len(chunks') /\ Len(chunks') \in Nat
        BY <4>2, LenProperties
      <4>. QED
        BY <4>3
    <3>3. CodeInv'
      BY <1>1, <1>2, <2>3, <2>5, <3>1, <3>2 DEF CodeInv
    <3>. QED
      BY <1>1, <2>1, <3>3 DEF DocumentInv
  <2>. QED
    BY <1>1, <2>4, <2>5
<1>3. CASE d.kind = "prose"
  <2>1. d # NoDoc
    BY IndexAssumption
  <2>. QED
    BY <1>1, <1>3, <2>1 DEF DocumentInv
<1>. QED
  BY <1>2, <1>3, DocumentKinds

LEMMA EditKeeps ==
  ASSUME CodeInv, Edit
  PROVE  DocumentInv'
<1>1. doc \in CodeDocuments /\ IsFunction(points)
  BY DEF CodeInv
<1>2. [lines |-> doc.lines, tree |-> doc.tree] \in Sources
  BY <1>1, CodeDocument
<1>3. PICK file \in Sources : Submit(Code(file))
  BY <1>2, IndexAssumption DEF Edit
<1>4. Code(file) \in Documents
  BY DEF Documents
<1>. QED
  BY <1>1, <1>3, <1>4, SubmitKeeps

\* The stores that a batch can make of points.
StoresOver(pts) ==
  UNION {[ids -> {pts[id] : id \in DOMAIN pts} \cup {[chunk |-> chunks[j], revision |-> revision] : j \in DOMAIN chunks}] :
           ids \in SUBSET (DOMAIN pts \cup {Id(chunks[j], j) : j \in DOMAIN chunks})}

LEMMA FunctionsAreStores ==
  ASSUME NEW pts, IsFunction(pts)
  PROVE  pts \in StoresOver(pts)
<1> DEFINE W == {pts[id] : id \in DOMAIN pts} \cup {[chunk |-> chunks[j], revision |-> revision] : j \in DOMAIN chunks}
<1>1. pts \in [DOMAIN pts -> W]
  <2>1. \A id \in DOMAIN pts : pts[id] \in W
    OBVIOUS
  <2> HIDE DEF W
  <2>. QED
    BY <2>1 DEF IsFunction
<1> HIDE DEF W
<1>2. DOMAIN pts \in SUBSET (DOMAIN pts \cup {Id(chunks[j], j) : j \in DOMAIN chunks})
  OBVIOUS
<1>. QED
  BY <1>1, <1>2 DEF StoresOver, W

\* A chunk is stored under its id and no other point is touched.
LEMMA UpsertStores ==
  ASSUME NEW pts, NEW x \in StoresOver(pts), NEW j \in DOMAIN chunks,
         \A k \in DOMAIN chunks : k # j /\ ~HasNamesake(k) => Id(chunks[k], k) # Id(chunks[j], j)
  PROVE  /\ Upsert(x, j) \in StoresOver(pts)
         /\ InStore(Upsert(x, j), j)
         /\ \A k \in DOMAIN chunks : InStore(x, k) => InStore(Upsert(x, j), k)
<1> DEFINE I == DOMAIN pts \cup {Id(chunks[k], k) : k \in DOMAIN chunks}
           W == {pts[id] : id \in DOMAIN pts} \cup {[chunk |-> chunks[k], revision |-> revision] : k \in DOMAIN chunks}
           new == Id(chunks[j], j)
           val == [chunk |-> chunks[j], revision |-> revision]
           y == [id \in DOMAIN x \cup {new} |-> IF id = new THEN val ELSE x[id]]
<1>1. PICK ids \in SUBSET I : x \in [ids -> W]
  BY DEF StoresOver
<1>2. new \in I /\ val \in W
  OBVIOUS
<1>3. Upsert(x, j) = y
  BY DEF Upsert
<1>4. \A k : InStore(x, k) <=> /\ Id(chunks[k], k) \in DOMAIN x
                               /\ ~HasNamesake(k) => x[Id(chunks[k], k)] = [chunk |-> chunks[k], revision |-> revision]
  BY DEF InStore
<1>5. \A k : InStore(y, k) <=> /\ Id(chunks[k], k) \in DOMAIN y
                               /\ ~HasNamesake(k) => y[Id(chunks[k], k)] = [chunk |-> chunks[k], revision |-> revision]
  BY DEF InStore
<1>0. \A k \in DOMAIN chunks : k # j /\ ~HasNamesake(k) => Id(chunks[k], k) # new
  OBVIOUS
<1> HIDE DEF I, W, new, val
<1>6. DOMAIN y = ids \cup {new} /\ \A id \in ids \cup {new} : y[id] = IF id = new THEN val ELSE x[id]
  BY <1>1
<1>7. y \in [(ids \cup {new}) -> W] /\ ids \cup {new} \in SUBSET I
  BY <1>1, <1>2
<1>8. y \in StoresOver(pts)
  BY <1>7 DEF StoresOver, I, W
<1> HIDE DEF y
<1>9. InStore(y, j)
  BY <1>5, <1>6 DEF new, val
<1>10. ASSUME NEW k \in DOMAIN chunks, InStore(x, k), k # j
       PROVE  InStore(y, k)
  <2>1. /\ Id(chunks[k], k) \in ids
        /\ ~HasNamesake(k) => x[Id(chunks[k], k)] = [chunk |-> chunks[k], revision |-> revision]
    BY <1>1, <1>4, <1>10
  <2>2. ~HasNamesake(k) => y[Id(chunks[k], k)] = x[Id(chunks[k], k)]
    BY <1>0, <1>6, <1>10, <2>1
  <2>. QED
    BY <1>5, <1>6, <2>1, <2>2
<1>. QED
  BY <1>3, <1>8, <1>9, <1>10 DEF new

LEMMA StoresAreFunctions ==
  ASSUME NEW pts, NEW x \in StoresOver(pts)
  PROVE  IsFunction(x)
BY DEF StoresOver, IsFunction

\* The batch that begins behind at: its chunks up to last.
LEMMA BatchIsInterval ==
  ASSUME at \in Nat, Len(chunks) \in Nat, at < Len(chunks)
  PROVE  \E last \in Nat : /\ at < last /\ last <= Len(chunks) /\ last <= at + EmbedBatch
                           /\ BatchOf = (at + 1)..last /\ Cardinality(BatchOf) = last - at
                           /\ \A j \in 1..Len(chunks) : j <= at + EmbedBatch => j <= last
<1> DEFINE last == IF at + EmbedBatch < Len(chunks) THEN at + EmbedBatch ELSE Len(chunks)
<1>1. EmbedBatch \in Nat \ {0}
  BY IndexAssumption
<1>2. last \in Nat /\ at < last /\ last <= Len(chunks) /\ last <= at + EmbedBatch
  BY <1>1
<1>3. BatchOf = (at + 1)..last
  BY DEF BatchOf
<1>4. \A j \in 1..Len(chunks) : j <= at + EmbedBatch => j <= last
  BY <1>1
<1> HIDE DEF last
<1>5. Cardinality((at + 1)..last) = last - at
  <2>1. at + 1 \in Int /\ last \in Int /\ ~ (at + 1 > last) /\ last - (at + 1) + 1 = last - at
    BY <1>2
  <2>. QED
    BY <2>1, FS_Interval
<1>. QED
  BY <1>2, <1>3, <1>4, <1>5

LEMMA StoreBatchKeeps ==
  ASSUME CodeInv, StoreBatch
  PROVE  CodeInv'
<1>1. /\ stage = "embed" /\ at < Len(chunks) /\ at' = at + EmbedBatch
      /\ points' = FoldLeft(Upsert, points, [k \in 1..Cardinality(BatchOf) |-> at + k])
      /\ doc' = doc /\ revision' = revision /\ stage' = stage /\ chunks' = chunks /\ lost' = lost
  BY DEF StoreBatch
<1>2. /\ doc \in CodeDocuments /\ IsFunction(points) /\ at \in Nat
      /\ chunks = ChunkCode(doc) /\ ChunkCode(doc) # Raises
      /\ \A j \in DOMAIN chunks : j <= at => j \in lost \/ InStore(points, j)
  BY <1>1 DEF CodeInv
<1>3. Len(chunks) \in Nat /\ DOMAIN chunks = 1..Len(chunks)
  BY <1>1, CodeChunks
<1>4. PICK last \in Nat : /\ at < last /\ last <= Len(chunks) /\ last <= at + EmbedBatch
                          /\ BatchOf = (at + 1)..last /\ Cardinality(BatchOf) = last - at
                          /\ \A j \in 1..Len(chunks) : j <= at + EmbedBatch => j <= last
  BY <1>1, <1>2, <1>3, BatchIsInterval
<1> DEFINE m == last - at
           z == [k \in 1..m |-> at + k]
           V == StoresOver(points)
<1>5. m \in Nat /\ \A k \in 1..m : at + k \in 1..Len(chunks)
  BY <1>2, <1>3, <1>4
<1>6. z \in Seq(Nat) /\ Len(z) = m /\ \A k \in 1..m : z[k] = at + k
  <2>1. z \in [1..m -> Nat]
    BY <1>2, <1>5
  <2>2. z \in Seq(Nat)
    BY <1>5, <2>1, SeqDef
  <2>. QED
    BY <1>5, <2>1, <2>2, LenProperties
<1>7. points' = UpsertsIn(points, z)[DOMAIN z]
  <2>1. points' = FoldLeft(Upsert, points, z)
    BY <1>1, <1>4
  <2>. QED
    BY <2>1, UpsertsByFold
<1>8. points \in V
  BY <1>2, FunctionsAreStores
<1> HIDE DEF m, z, V
<1>9. ASSUME NEW x \in V, NEW k \in 1..m
      PROVE  /\ Upsert(x, z[k]) \in V
             /\ InStore(Upsert(x, z[k]), at + k)
             /\ \A j \in DOMAIN chunks : InStore(x, j) => InStore(Upsert(x, z[k]), j)
  <2>1. z[k] = at + k /\ at + k \in DOMAIN chunks
    BY <1>3, <1>5, <1>6
  <2>2. \A j \in DOMAIN chunks : j # at + k /\ ~HasNamesake(j) => Id(chunks[j], j) # Id(chunks[at + k], at + k)
    BY <1>1, <2>1, IdsDiffer
  <2>. QED
    BY <2>1, <2>2, UpsertStores DEF V
<1>10. PICK p : /\ p \in [0..m -> V] /\ p[0] = points
                /\ \A k \in 0..(m - 1) : p[k + 1] = Upsert(p[k], z[k + 1])
                /\ UpsertsIn(points, z)[DOMAIN z] = p[m]
  <2>1. \A x \in V, k \in 1..Len(z) : Upsert(x, z[k]) \in V
    BY <1>6, <1>9
  <2>2. z \in Seq(Nat) /\ points \in V
    BY <1>6, <1>8
  <2>3. \E p : /\ p \in [0..Len(z) -> V] /\ p[0] = points
               /\ \A k \in 0..(Len(z) - 1) : p[k + 1] = Upsert(p[k], z[k + 1])
               /\ UpsertsIn(points, z)[DOMAIN z] = p[Len(z)]
    BY <2>1, <2>2, UpsertSteps
  <2>. QED
    BY <1>6, <2>3
<1> DEFINE T == {k \in 0..m : \A j \in DOMAIN chunks : j <= at + k => j \in lost \/ InStore(p[k], j)}
<1>11. 0 \in T
  BY <1>2, <1>3, <1>5, <1>10
<1>12. ASSUME NEW k \in 0..(m - 1), k \in T PROVE k + 1 \in T
  <2>1. k \in 0..m /\ k + 1 \in 0..m /\ k + 1 \in 1..m
    BY <1>5
  <2>2. p[k] \in V /\ p[k + 1] = Upsert(p[k], z[k + 1])
    BY <1>10, <2>1
  <2>3. /\ InStore(p[k + 1], at + (k + 1))
        /\ \A j \in DOMAIN chunks : InStore(p[k], j) => InStore(p[k + 1], j)
    BY <1>9, <2>1, <2>2
  <2>4. \A j \in DOMAIN chunks : j <= at + k => j \in lost \/ InStore(p[k], j)
    BY <1>12
  <2>5. ASSUME NEW j \in DOMAIN chunks, j <= at + (k + 1)
        PROVE  j \in lost \/ InStore(p[k + 1], j)
    <3>1. CASE j = at + (k + 1)
      BY <2>3, <3>1
    <3>2. CASE j # at + (k + 1)
      <4>1. j <= at + k
        BY <1>2, <1>3, <2>1, <2>5, <3>2
      <4>. QED
        BY <2>3, <2>4, <3>2, <4>1
    <3>. QED
      BY <3>1, <3>2
  <2>. QED
    BY <2>1, <2>5
<1>13. \A j \in DOMAIN chunks : j <= at + m => j \in lost \/ InStore(p[m], j)
  <2> HIDE DEF T
  <2>1. \A k \in 0..m : k \in T
    BY <1>5, <1>11, <1>12, IntervalInduction
  <2>2. m \in 0..m
    BY <1>5
  <2>. QED
    BY <2>1, <2>2 DEF T
<1>14. points' = p[m] /\ p[m] \in V
  BY <1>5, <1>7, <1>10
<1>15. \A j \in DOMAIN chunks : j <= at + EmbedBatch => j \in lost \/ InStore(points', j)
  <2>1. at + m = last
    BY <1>2, <1>4 DEF m
  <2>. QED
    BY <1>3, <1>4, <1>13, <1>14, <2>1
<1>16. \A j : (InStore(points, j))' <=> InStore(points', j)
  BY <1>1 DEF InStore, Id, HasNamesake
<1>17. IsFunction(points')
  BY <1>14, StoresAreFunctions DEF V
<1>18. at' \in Nat
  BY <1>1, <1>2, IndexAssumption
<1>. QED
  BY <1>1, <1>2, <1>15, <1>16, <1>17, <1>18 DEF CodeInv, IsFunction

LEMMA PassOverBatchKeeps ==
  ASSUME CodeInv, PassOverBatch
  PROVE  CodeInv'
<1>1. /\ stage = "embed" /\ at < Len(chunks) /\ at' = at + EmbedBatch
      /\ lost' = lost \cup BatchOf
      /\ doc' = doc /\ revision' = revision /\ stage' = stage /\ chunks' = chunks /\ points' = points
  BY DEF PassOverBatch
<1>2. /\ doc \in CodeDocuments /\ IsFunction(points) /\ at \in Nat
      /\ chunks = ChunkCode(doc) /\ ChunkCode(doc) # Raises
      /\ \A j \in DOMAIN chunks : j <= at => j \in lost \/ InStore(points, j)
  BY <1>1 DEF CodeInv
<1>3. Len(chunks) \in Nat /\ DOMAIN chunks = 1..Len(chunks)
  BY <1>1, CodeChunks
<1>4. PICK last \in Nat : /\ BatchOf = (at + 1)..last
                          /\ \A j \in 1..Len(chunks) : j <= at + EmbedBatch => j <= last
  BY <1>1, <1>2, <1>3, BatchIsInterval
<1>5. \A j \in DOMAIN chunks : j <= at + EmbedBatch => j <= at \/ j \in BatchOf
  BY <1>2, <1>3, <1>4
<1>6. \A j : (InStore(points, j))' <=> InStore(points, j)
  BY <1>1 DEF InStore, Id, HasNamesake
<1>7. at' \in Nat
  BY <1>1, <1>2, IndexAssumption
<1>8. IsFunction(points)'
  BY <1>1, <1>2 DEF IsFunction
<1>. QED
  BY <1>1, <1>2, <1>5, <1>6, <1>7, <1>8 DEF CodeInv

LEMMA EndDocumentKeeps ==
  ASSUME CodeInv, EndDocument
  PROVE  CodeInv'
<1>1. /\ stage = "embed" /\ stage' = "idle"
      /\ lost' = lost \cup {j \in DOMAIN chunks : j > at}
      /\ doc' = doc /\ revision' = revision /\ at' = at /\ chunks' = chunks /\ points' = points
  BY DEF EndDocument
<1>2. /\ doc \in CodeDocuments /\ IsFunction(points) /\ at \in Nat
      /\ chunks = ChunkCode(doc) /\ ChunkCode(doc) # Raises
      /\ \A j \in DOMAIN chunks : j <= at => j \in lost \/ InStore(points, j)
  BY <1>1 DEF CodeInv
<1>3. \A j : (InStore(points, j))' <=> InStore(points, j)
  BY <1>1 DEF InStore, Id, HasNamesake
<1>4. IsFunction(points)'
  BY <1>1, <1>2 DEF IsFunction
<1>. QED
  BY <1>1, <1>2, <1>3, <1>4 DEF CodeInv

LEMMA IndexStarts == IndexInit => DocumentInv
BY DEF IndexInit, DocumentInv, IsFunction, NoPoint

LEMMA IndexKeeps == DocumentInv /\ [IndexNext]_indexVars => DocumentInv'
<1> SUFFICES ASSUME DocumentInv, [IndexNext]_indexVars PROVE DocumentInv'
  OBVIOUS
<1>1. ASSUME NEW d \in Documents, doc = NoDoc, Submit(d) PROVE DocumentInv'
  <2>1. IsFunction(points)
    BY <1>1 DEF DocumentInv
  <2>. QED
    BY <1>1, <2>1, SubmitKeeps
<1>2. CASE doc # NoDoc /\ doc.kind = "code" /\ Edit
  <2>1. CodeInv
    BY <1>2 DEF DocumentInv
  <2>. QED
    BY <1>2, <2>1, EditKeeps
<1>3. CASE StoreBatch \/ PassOverBatch \/ EndDocument
  <2>1. doc' = doc /\ doc # NoDoc
    BY <1>3 DEF StoreBatch, PassOverBatch, EndDocument, DocumentInv
  <2>2. CASE doc.kind = "prose"
    BY <2>1, <2>2 DEF DocumentInv
  <2>3. CASE doc.kind = "code" /\ CodeInv
    <3>1. CodeInv'
      BY <1>3, <2>3, StoreBatchKeeps, PassOverBatchKeeps, EndDocumentKeeps
    <3>. QED
      BY <2>1, <2>3, <3>1 DEF DocumentInv
  <2>. QED
    BY <2>1, <2>2, <2>3 DEF DocumentInv
<1>4. CASE UNCHANGED indexVars
  <2>1. /\ doc' = doc /\ revision' = revision /\ stage' = stage /\ chunks' = chunks
        /\ at' = at /\ lost' = lost /\ points' = points
    BY <1>4 DEF indexVars
  <2>2. \A j : (InStore(points, j))' <=> InStore(points, j)
    BY <2>1 DEF InStore, Id, HasNamesake
  <2>3. IsFunction(points)' <=> IsFunction(points)
    BY <2>1 DEF IsFunction
  <2>. QED
    BY <2>1, <2>2, <2>3 DEF DocumentInv, CodeInv
<1>. QED
  BY <1>1, <1>2, <1>3, <1>4 DEF IndexNext

\* A top-level node is whole in one chunk, or without a tree a line that is not
\* blank in exactly one, and the chunks follow each other, whatever the file, the
\* budget and the window are: chunk_code of app/rag/chunker.py.
THEOREM FileIsCovered == IndexSpec => []LinesCovered
<1>1. DocumentInv => LinesCovered
  <2> SUFFICES ASSUME DocumentInv, CodeCut
               PROVE  /\ \A i \in DOMAIN doc.tree : \E j \in DOMAIN chunks :
                           chunks[j].first <= doc.tree[i].first /\ doc.tree[i].last <= chunks[j].last
                      /\ doc.tree = << >> => \A n \in DOMAIN doc.lines : doc.lines[n] > 1 => Cardinality(Holding(n)) = 1
                      /\ \A j, k \in DOMAIN chunks : j < k => chunks[j].last <= chunks[k].first
    BY DEF LinesCovered
  <2>1. CodeInv /\ stage # "raised"
    BY DEF DocumentInv, CodeCut
  <2>2. Cut(chunks, doc) /\ Len(chunks) \in Nat /\ DOMAIN chunks = 1..Len(chunks)
    BY <2>1, CodeChunks
  <2>3. doc.lines \in Seq(Nat \ {0}) /\ doc.tree \in Seq(TreeNode)
    BY <2>1, CodeDocument DEF CodeInv
  <2>4. DOMAIN doc.lines = 1..Len(doc.lines) /\ DOMAIN doc.tree = 1..Len(doc.tree)
    BY <2>3, LenProperties
  <2>5. \A j \in 1..Len(chunks) : chunks[j].first \in Nat /\ chunks[j].last \in Nat
    <3>1. \A j \in 1..Len(chunks) : chunks[j] \in ChunkType
      BY <2>2, ElementOfSeq DEF Cut
    <3>. QED
      BY <3>1 DEF ChunkType
  <2>6. ASSUME NEW i \in 1..Len(doc.tree)
        PROVE  \E j \in 1..Len(chunks) : chunks[j].first <= doc.tree[i].first /\ doc.tree[i].last <= chunks[j].last
    <3>1. doc.tree # << >>
      BY <2>6, EmptySeq
    <3>. QED
      BY <2>2, <3>1 DEF Cut, MadeOf, Encloses
  <2>7. ASSUME doc.tree = << >>, NEW n \in 1..Len(doc.lines), doc.lines[n] > 1
        PROVE  Cardinality(Holding(n)) = 1
    <3>0. Covers(chunks, 1, doc.lines)
      BY <2>2, <2>7 DEF Cut
    <3>1. PICK j \in 1..Len(chunks) : n \in chunks[j].first..chunks[j].last
      BY <2>7, <3>0 DEF Covers
    <3>2. ASSUME NEW k \in 1..Len(chunks), n \in chunks[k].first..chunks[k].last PROVE k = j
      <4> SUFFICES ASSUME k # j PROVE FALSE
        OBVIOUS
      <4>1. j < k \/ k < j
        BY <2>2
      <4>2. /\ j < k => chunks[j].last < chunks[k].first
            /\ k < j => chunks[k].last < chunks[j].first
        BY <3>0 DEF Covers
      <4>. QED
        BY <2>5, <3>1, <3>2, <4>1, <4>2
    <3>3. Holding(n) = {j}
      BY <2>2, <3>1, <3>2 DEF Holding
    <3>. QED
      BY <3>3, FS_Singleton
  <2>8. \A j, k \in 1..Len(chunks) : j < k => chunks[j].last <= chunks[k].first
    BY <2>2 DEF Cut
  <2>. QED
    BY <2>2, <2>4, <2>6, <2>7, <2>8
<1>. QED
  BY IndexStarts, IndexKeeps, <1>1, PTL DEF IndexSpec

\* The chunks of a parsed file are runs of its nodes, and every definition, named
\* or not, ends its run, whatever the gaps between them are: _merge_tiny of
\* app/rag/chunker.py.
THEOREM DefinitionsKeepApart == IndexSpec => []DefinitionsStandAlone
<1>1. DocumentInv => DefinitionsStandAlone
  <2> SUFFICES ASSUME DocumentInv, CodeCut, doc.tree # << >>
               PROVE  \E last \in [DOMAIN chunks -> DOMAIN doc.tree] :
                        /\ \A j, k \in DOMAIN chunks : j < k => last[j] < last[k]
                        /\ \A i \in DOMAIN doc.tree : doc.tree[i].def => \E j \in DOMAIN chunks : last[j] = i
                        /\ \A j \in DOMAIN chunks :
                             /\ chunks[j].first = doc.tree[IF j = 1 THEN 1 ELSE last[j - 1] + 1].first
                             /\ chunks[j].last = doc.tree[last[j]].last
                             /\ chunks[j].symbol = doc.tree[last[j]].symbol
    BY DEF DefinitionsStandAlone
  <2>1. CodeInv /\ stage # "raised"
    BY DEF DocumentInv, CodeCut
  <2>2. Cut(chunks, doc) /\ DOMAIN chunks = 1..Len(chunks)
    BY <2>1, CodeChunks
  <2>3. doc.tree \in Seq(TreeNode)
    BY <2>1, CodeDocument DEF CodeInv
  <2>4. DOMAIN doc.tree = 1..Len(doc.tree)
    BY <2>3, LenProperties
  <2>5. PICK last : InRuns(last, chunks, doc.tree, Len(doc.tree))
    BY <2>2 DEF Cut, MadeOf
  <2>6. last \in [1..Len(chunks) -> 1..Len(doc.tree)]
    BY <2>5 DEF InRuns
  <2>7. \A j, k \in 1..Len(chunks) : j < k => last[j] < last[k]
    BY <2>5 DEF InRuns
  <2>8. \A i \in 1..Len(doc.tree) : doc.tree[i].def => \E j \in 1..Len(chunks) : last[j] = i
    BY <2>5 DEF InRuns
  <2>9. \A j \in 1..Len(chunks) :
          /\ chunks[j].first = doc.tree[IF j = 1 THEN 1 ELSE last[j - 1] + 1].first
          /\ chunks[j].last = doc.tree[last[j]].last
          /\ chunks[j].symbol = doc.tree[last[j]].symbol
    BY <2>5 DEF InRuns, FirstOfRun
  <2> HIDE DEF InRuns
  <2> last \in [DOMAIN chunks -> DOMAIN doc.tree]
    BY <2>2, <2>4, <2>6
  <2> WITNESS last \in [DOMAIN chunks -> DOMAIN doc.tree]
  <2>. QED
    BY <2>2, <2>4, <2>7, <2>8, <2>9
<1>. QED
  BY IndexStarts, IndexKeeps, <1>1, PTL DEF IndexSpec

\* A chunk that was not passed over is in the store, and as it is in this revision
\* of its file unless another begins on its line under its symbol: _chunk_id and
\* _embed_and_upsert of app/rag/ingest.py.
THEOREM ChunksAreStored == IndexSpec => []StoredUnlessLost
<1>1. DocumentInv => StoredUnlessLost
  <2> SUFFICES ASSUME DocumentInv, CodeCut, stage = "idle", NEW j \in DOMAIN chunks \ lost
               PROVE  InStore(points, j)
    BY DEF StoredUnlessLost, InStore
  <2>1. CodeInv /\ stage # "raised"
    BY DEF DocumentInv, CodeCut
  <2>2. Len(chunks) \in Nat /\ DOMAIN chunks = 1..Len(chunks) /\ at \in Nat
    BY <2>1, CodeChunks DEF CodeInv
  <2>3. j <= at
    BY <2>1, <2>2 DEF CodeInv
  <2>. QED
    BY <2>1, <2>3 DEF CodeInv
<1>. QED
  BY IndexStarts, IndexKeeps, <1>1, PTL DEF IndexSpec
=============================================================================
