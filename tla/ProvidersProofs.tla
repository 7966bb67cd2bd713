-------------------------- MODULE ProvidersProofs --------------------------
(***************************************************************************)
(* What holds of Providers for all sessions, processes, texts and bounds.  *)
(***************************************************************************)
EXTENDS Providers, FiniteSetTheorems, WellFoundedInduction, TLAPS

-----------------------------------------------------------------------------
(* The inductive invariant *)

Transcripts == [ino : Nat \ {0}, lines : Seq(Lines), part : BOOLEAN]

\* Processes started before now, and registry files are claude's.
WorldOK ==
    /\ proc \in [Pids -> Processes \cup {None}]
    /\ \A p \in Pids : proc[p] # None => proc[p].start <= events
    /\ fg \in {p \in Pids : proc[p] # None} \cup {None}
    /\ registry \in [Pids -> Registered \cup {None}]
    /\ pane \in [row : 0..MaxRow, alternate : BOOLEAN]
    /\ file \in [Sessions -> Transcripts]
    /\ \A s \in Sessions : Len(file[s].lines) <= MaxLines
    /\ events \in Nat

\* A hook that has the lock has read the binding that is there.
HookOK(h) ==
    \/ hooks[h] = NoHook
    \/ hooks[h] \in EventType
    \/ hooks[h] \in [pc : {"locked"}, existing : {cache},
                     event : {e \in EventType : e.time \in Nat}]
HooksOK ==
    /\ hooks = [h \in Hooks |-> hooks[h]]
    /\ \A h \in Hooks : HookOK(h) /\ (hooks[h].pc = "locked" <=> lock = h)

\* Each generation is the work of a hook that was run and is no longer at it.
Busy == {h \in Hooks : hooks[h].pc # "idle"}
Counted ==
    /\ clock \in Nat /\ ran \in 0..MaxHooks
    /\ IsFiniteSet(Busy) /\ Generation(cache) + Cardinality(Busy) <= ran
BindingOK == cache \in Bindings \cup {None} /\ CacheOK(cache) /\ HooksOK /\ Counted

-----------------------------------------------------------------------------
(* Indexes *)

RecordType == [ordinal : Nat \ {0}, text : Texts, unsupported : BOOLEAN]
IndexType == [key : Sessions \X Nat, ino : Nat, offset : Nat, meta : BOOLEAN,
              records : SUBSET RecordType]

\* A record that the provider marks as unsupported is marked.
Marked(lines, r) == lines[r.ordinal].unsupported => r.unsupported
Plain(lines, i) == Record(lines, i, TRUE)

\* R are the last of the records in the first n of these lines.
Searched(R, lines, n) ==
    /\ \A r \in R : /\ r.ordinal \in 1..n /\ Records(lines[r.ordinal])
                    /\ r.text = lines[r.ordinal].text
                    /\ Marked(lines, r)
    /\ \A r, q \in R : r.ordinal = q.ordinal => r = q
    /\ \A i \in 1..n : Records(lines[i]) => \/ \E r \in R : r.ordinal = i
                                            \/ \A r \in R : r.ordinal > i

\* An index has seen its file or an earlier one.
Indexed(x, f) ==
    /\ x \in IndexType
    /\ IsFiniteSet(x.records) /\ Cardinality(x.records) <= MaxRecords
    /\ x.ino = 0 => x.records = {}
    /\ x.ino <= f.ino
    /\ x.ino = f.ino => x.offset <= Len(f.lines) /\ Searched(x.records, f.lines, x.offset)

IndexesAre(q) ==
    /\ q \in Seq(IndexType) /\ Len(q) <= MaxIndexes
    /\ \A i \in DOMAIN q : Indexed(q[i], file[q[i].key[1]])
    /\ \A i, j \in DOMAIN q : q[i].key[1] = q[j].key[1] => i = j
IndexesOK == IndexesAre(indexes)

-----------------------------------------------------------------------------
(* The selection *)

Working == {"detect", "load", "resolve", "open", "read", "rebind", "answer", "list",
            "openWorker", "readWorker", "recheck", "answerWorker"}
Listings == [session : Sessions, pid : Pids, start : Nat]
Bounds == [session : Sessions, pid : Pids, start : Nat, generation : Nat]
Fenced == [bound : Bounds, fence : Transcripts, looked : Nat]
Witnesses == [drawn : SUBSET RecordType, whole : BOOLEAN, live : BOOLEAN]
SelType ==
    [pc : Working, row : Nat, snap : [row : 0..MaxRow, alternate : BOOLEAN], hadCache : BOOLEAN,
     failed : BOOLEAN, cache : Bindings \cup {None}, bound : Bounds \cup {Unbound},
     fence : Transcripts \cup {NoFence}, workers : Seq(Listings), fences : Seq(Fenced),
     texts : SUBSET Texts, witness : (SUBSET Witnesses) \cup {None}]

\* f may have become g: another file, more lines, part of one.
Grew(f, g) ==
    \/ f.ino < g.ino
    \/ f.ino = g.ino /\ Len(f.lines) < Len(g.lines)
    \/ f.ino = g.ino /\ f.lines = g.lines /\ (f.part => g.part)

\* What a fence was put up for is complete, and a record at most is drawn so.
Lines0(f) == Latest(Parse(f.fence.lines, 0, TRUE), f.looked)
Alone(D) == IsFiniteSet(D) /\ Cardinality(D) <= 1 /\ \A r \in D : ~r.unsupported
FenceOK(b, fence) == ~fence.part /\ Grew(fence, file[b.session])
SearchOK(f) == FenceOK(f.bound, f.fence) /\ Alone(Drawn(Lines0(f)))

Searches == ToSet(sel.fences)
Told == {r.text : r \in UNION {Drawn(Lines0(f)) : f \in Searches}} = sel.texts

\* Where no transcript has changed since, the witness saw what was searched.
Witnessed ==
    (\A f \in Searches : Unchanged(f.bound.session, f.fence)) =>
        sel.witness = {[drawn |-> Drawn(Lines0(f)), whole |-> TRUE, live |-> TRUE] :
                          f \in Searches}

\* Nobody comes back: a process that has a worker's id started no earlier.
NoEarlier(b) == b.start <= events /\ (proc[b.pid] # None => proc[b.pid].start >= b.start)
ForWorker(b, w) == b.session = w.session /\ b.pid = w.pid /\ b.start >= w.start /\ NoEarlier(b)

AtWorkers ==
    /\ \A i \in DOMAIN sel.workers : NoEarlier(sel.workers[i])
    /\ Len(sel.fences) <= Len(sel.workers)
    /\ \A i \in DOMAIN sel.fences : ForWorker(sel.fences[i].bound, sel.workers[i])

\* What a selection has found out, and what is known where it is.
Basis ==
    /\ sel.hadCache => cache # None
    /\ \A f \in Searches : SearchOK(f)
    /\ Told
OfPane ==
    /\ sel.pc \in {"detect", "load", "resolve", "open", "read", "list"} => sel.fences = <<>>
    /\ sel.pc = "open" => sel.bound \in Bounds
    /\ sel.pc \in {"read", "readWorker"} => /\ sel.bound \in Bounds /\ sel.fence \in Transcripts
                                            /\ FenceOK(sel.bound, sel.fence)
    /\ sel.pc \in {"rebind", "answer"} =>
          /\ Len(sel.fences) = 1 /\ sel.bound \in Bounds
          /\ sel.fences[1].bound = sel.bound /\ sel.fences[1].fence = sel.fence
          /\ IsFiniteSet(sel.texts) /\ Cardinality(sel.texts) = 1
OfWorkers ==
    /\ sel.pc \in {"openWorker", "readWorker", "recheck"} => AtWorkers
    /\ sel.pc \in {"openWorker", "readWorker"} => Len(sel.fences) < Len(sel.workers)
    /\ sel.pc = "readWorker" => ForWorker(sel.bound, At)
    /\ sel.pc = "recheck" => Len(sel.fences) = Len(sel.workers)
    /\ sel.pc \in {"openWorker", "readWorker", "recheck", "answerWorker"} =>
          IsFiniteSet(sel.texts) /\ Cardinality(sel.texts) <= 1
    /\ sel.pc = "answerWorker" => sel.texts # {}
Found == Basis /\ OfPane /\ OfWorkers /\ (sel.pc \in {"answer", "answerWorker"} => Witnessed)

SelOK ==
    \/ sel = NoSel
    \/ sel \in SelType /\ Found
    \/ sel.pc = "done" /\ DecisionSound

KnownOK == asked \in Nat
IInv == WorldOK /\ BindingOK /\ IndexesOK /\ SelOK /\ KnownOK

-----------------------------------------------------------------------------
(* The records that are kept *)

LEMMA LeastNumber ==
    ASSUME NEW N \in SUBSET Nat, N # {}
    PROVE  \E m \in N : \A k \in N : m <= k
<1> DEFINE Less == {ss \in Nat \X Nat : ss[1] < ss[2]}
<1>1. IsWellFoundedOn(Less, Nat)
  BY NatLessThanWellFounded DEF OpToRel
<1>2. ASSUME NEW x \in Nat, NEW y \in Nat, <<y, x>> \notin Less PROVE x <= y
  BY <1>2
<1>3. PICK x \in N : \A y \in N : <<y, x>> \notin Less
  <2> HIDE DEF Less
  <2> QED
    BY <1>1, WFMin
<1> HIDE DEF Less
<1> QED
  BY <1>2, <1>3

\* Records of a finite set, told apart by their ordinals.
Ordered(S) == /\ IsFiniteSet(S) /\ S \subseteq RecordType
              /\ \A r, q \in S : r.ordinal = q.ordinal => r = q

\* The last n of a set are n at most.
LEMMA LatestAreFew ==
    ASSUME NEW S, Ordered(S), NEW n \in Nat
    PROVE  /\ Latest(S, n) \subseteq S /\ Ordered(Latest(S, n))
           /\ Cardinality(Latest(S, n)) <= n
<1> DEFINE N == Latest(S, n)
<1>1. N \subseteq S /\ IsFiniteSet(S)
  BY DEF Latest, Ordered
<1>2. IsFiniteSet(N)
  BY <1>1, FS_Subset
<1>3. Ordered(N)
  BY <1>1, <1>2 DEF Ordered
<1>4. CASE N = {}
  BY <1>1, <1>3, <1>4, FS_EmptySet
<1>5. CASE N # {}
  <2>1. {d.ordinal : d \in N} \in SUBSET Nat /\ {d.ordinal : d \in N} # {}
    BY <1>1, <1>5 DEF Ordered, RecordType
  <2>2. PICK k \in {d.ordinal : d \in N} : \A l \in {d.ordinal : d \in N} : k <= l
    BY <2>1, LeastNumber
  <2>3. PICK m \in N : \A d \in N : m.ordinal <= d.ordinal
    BY <2>2
  <2> DEFINE G == {d \in S : d.ordinal > m.ordinal}
  <2>4. Cardinality(G) < n /\ G \in SUBSET S
    BY <2>3 DEF Latest
  <2>5. N \ {m} \subseteq G
    BY <1>1, <2>3 DEF Ordered, RecordType
  <2>6. IsFiniteSet(G) /\ Cardinality(G) \in Nat
    BY <1>1, <2>4, FS_Subset, FS_CardinalityType
  <2>7. Cardinality(N \ {m}) <= Cardinality(G)
    BY <2>5, <2>6, FS_Subset
  <2>8. Cardinality(N \ {m}) = Cardinality(N) - 1 /\ Cardinality(N) \in Nat
    BY <1>2, <2>3, FS_RemoveElement, FS_CardinalityType
  <2> QED
    BY <1>1, <1>3, <2>4, <2>6, <2>7, <2>8
<1> QED
  BY <1>4, <1>5

\* Whoever is not among the last n comes before all that are.
LEMMA LatestAreLast ==
    ASSUME NEW S, Ordered(S), NEW n \in Nat, NEW r \in S, r \notin Latest(S, n),
           NEW q \in Latest(S, n)
    PROVE  q.ordinal > r.ordinal
<1> DEFINE A == {d \in S : d.ordinal > r.ordinal}
           B == {d \in S : d.ordinal > q.ordinal}
<1>1. q \in S /\ Cardinality(B) < n /\ ~(Cardinality(A) < n)
  BY DEF Latest
<1>2. IsFiniteSet(A) /\ IsFiniteSet(B) /\ Cardinality(A) \in Nat /\ Cardinality(B) \in Nat
  BY FS_Subset, FS_CardinalityType DEF Ordered
<1>3. SUFFICES ASSUME q.ordinal <= r.ordinal PROVE FALSE
  BY <1>1 DEF Ordered, RecordType
<1>4. A \subseteq B
  BY <1>1, <1>3 DEF Ordered, RecordType
<1>5. Cardinality(A) <= Cardinality(B)
  BY <1>2, <1>4, FS_Subset
<1> QED
  BY <1>1, <1>2, <1>5

\* A set with all that comes after one of its members is the last of its size.
LEMMA LatestOfSize ==
    ASSUME NEW S, Ordered(S), NEW Q \in SUBSET S,
           \A q \in Q, r \in S : r.ordinal > q.ordinal => r \in Q
    PROVE  Latest(S, Cardinality(Q)) = Q
<1>1. IsFiniteSet(Q) /\ Cardinality(Q) \in Nat
  BY FS_Subset, FS_CardinalityType DEF Ordered
<1>2. ASSUME NEW q \in Q PROVE q \in Latest(S, Cardinality(Q))
  <2> DEFINE G == {d \in S : d.ordinal > q.ordinal}
  <2>1. G \subseteq Q \ {q}
    BY DEF Ordered, RecordType
  <2>2. IsFiniteSet(Q \ {q}) /\ Cardinality(Q \ {q}) = Cardinality(Q) - 1
    BY <1>1, FS_RemoveElement
  <2>3. Cardinality(G) <= Cardinality(Q \ {q}) /\ IsFiniteSet(G)
    BY <2>1, <2>2, FS_Subset
  <2>4. Cardinality(G) \in Nat
    BY <2>3, FS_CardinalityType
  <2>5. Cardinality(G) < Cardinality(Q)
    BY <1>1, <2>2, <2>3, <2>4
  <2> QED
    BY <2>5 DEF Latest
<1>3. ASSUME NEW r \in S, r \notin Q PROVE r \notin Latest(S, Cardinality(Q))
  <2> DEFINE G == {d \in S : d.ordinal > r.ordinal}
  <2>1. Q \subseteq G
    BY <1>3 DEF Ordered, RecordType
  <2>2. IsFiniteSet(G) /\ Cardinality(G) \in Nat
    BY FS_Subset, FS_CardinalityType DEF Ordered
  <2>3. Cardinality(Q) <= Cardinality(G)
    BY <2>1, <2>2, FS_Subset
  <2> QED
    BY <1>1, <2>2, <2>3 DEF Latest
<1>4. Latest(S, Cardinality(Q)) \subseteq S
  BY DEF Latest
<1> QED
  BY <1>2, <1>3, <1>4

\* The records of some lines.
LEMMA ParsedRecords ==
    ASSUME NEW lines \in Seq(Lines), NEW from \in 0..Len(lines), NEW whole \in BOOLEAN
    PROVE  /\ Ordered(Parse(lines, from, whole))
           /\ \A r \in Parse(lines, from, whole) :
                 /\ r.ordinal \in (from + 1)..Len(lines) /\ Records(lines[r.ordinal])
                 /\ r.text = lines[r.ordinal].text
                 /\ Marked(lines, r)
                 /\ whole => r = Plain(lines, r.ordinal)
           /\ \A i \in (from + 1)..Len(lines) :
                 Records(lines[i]) => \E r \in Parse(lines, from, whole) : r.ordinal = i
<1> DEFINE seen(i) == whole \/ \E j \in (from + 1)..i : lines[j].kind \in {"user", "tool"}
           I == {i \in (from + 1)..Len(lines) : Records(lines[i])}
           P == Parse(lines, from, whole)
<1>1. P = {Record(lines, i, seen(i)) : i \in I}
  BY DEF Parse
<1>2. ASSUME NEW i \in I
      PROVE  /\ Record(lines, i, seen(i)) \in RecordType
             /\ Record(lines, i, seen(i)).ordinal = i
             /\ Record(lines, i, seen(i)).text = lines[i].text
             /\ Marked(lines, Record(lines, i, seen(i)))
             /\ whole => Record(lines, i, seen(i)) = Plain(lines, i)
  <2> DEFINE k == seen(i)
  <2>1. i \in 1..Len(lines) /\ lines[i] \in Lines /\ k \in BOOLEAN
    OBVIOUS
  <2>2. whole => k = TRUE
    OBVIOUS
  <2> HIDE DEF k
  <2> QED
    BY <2>1, <2>2 DEF Record, RecordType, Lines, Marked, Plain
<1> HIDE DEF seen
<1> DEFINE g == [i \in I |-> Record(lines, i, seen(i))]
<1>3. P = {g[i] : i \in I}
  BY <1>1
<1>4. /\ \A i \in I : g[i] \in RecordType /\ g[i].ordinal = i
      /\ g = [i \in I |-> g[i]]
  BY <1>2
<1>5a. \A i \in I : /\ g[i].text = lines[i].text
                    /\ Marked(lines, g[i])
                    /\ whole => g[i] = Plain(lines, i)
  BY <1>2
<1>5. I \subseteq (from + 1)..Len(lines) /\ \A i \in I : Records(lines[i])
  OBVIOUS
<1>6. \A i \in (from + 1)..Len(lines) : Records(lines[i]) => i \in I
  OBVIOUS
<1>7. IsFiniteSet(I)
  BY <1>5, FS_Interval, FS_Subset
<1> HIDE DEF g, I, P
<1>8. IsFiniteSet(P)
  <2>1. g \in Surjection(I, P)
    BY <1>3, <1>4 DEF Surjection
  <2> QED
    BY <1>7, <2>1, FS_Surjection
<1>9. \A r \in P : \E i \in I : r = g[i]
  BY <1>3
<1>10. \A r \in P : r.ordinal \in I /\ r = g[r.ordinal]
  BY <1>4, <1>9
<1>11. Ordered(P)
  BY <1>4, <1>8, <1>10 DEF Ordered
<1>12. \A i \in I : g[i] \in P
  BY <1>3
<1> QED
  BY <1>4, <1>5a, <1>5, <1>6, <1>10, <1>11, <1>12 DEF P

\* What an update makes of the records up to its offset.
LEMMA UpdatedRecords ==
    ASSUME NEW lines \in Seq(Lines), NEW from \in 0..Len(lines), NEW whole \in BOOLEAN,
           NEW R, Ordered(R), Searched(R, lines, from), NEW n \in Nat
    PROVE  LET S == Latest(R \cup Parse(lines, from, whole), n)
           IN  Ordered(S) /\ Cardinality(S) <= n /\ Searched(S, lines, Len(lines))
<1> DEFINE A == Parse(lines, from, whole)
           T == R \cup A
           S == Latest(T, n)
<1>1. Len(lines) \in Nat /\ from \in Nat /\ from <= Len(lines)
  OBVIOUS
<1>2. /\ Ordered(A)
      /\ \A r \in A : /\ r.ordinal \in (from + 1)..Len(lines) /\ Records(lines[r.ordinal])
                      /\ r.text = lines[r.ordinal].text
      /\ \A i \in (from + 1)..Len(lines) : Records(lines[i]) => \E r \in A : r.ordinal = i
  BY ParsedRecords
<1>3. \A r \in A : Marked(lines, r)
  BY ParsedRecords
<1>4. /\ \A r \in R : /\ r.ordinal \in 1..from /\ Records(lines[r.ordinal])
                      /\ r.text = lines[r.ordinal].text
      /\ \A i \in 1..from : Records(lines[i]) => \/ \E r \in R : r.ordinal = i
                                                 \/ \A r \in R : r.ordinal > i
  BY DEF Searched
<1>5. \A r \in R : Marked(lines, r)
  BY DEF Searched
<1> HIDE DEF A
<1>6. Ordered(T)
  <2>1. IsFiniteSet(T)
    BY <1>2, FS_Union DEF Ordered
  <2>2. ASSUME NEW r \in R, NEW q \in A PROVE r.ordinal < q.ordinal
    BY <1>1, <1>2, <1>4
  <2>3. \A r \in R, q \in A : r.ordinal # q.ordinal
    BY <1>1, <1>2, <1>4
  <2> QED
    BY <1>2, <2>1, <2>3 DEF Ordered
<1>7. \A r \in T : /\ r.ordinal \in 1..Len(lines) /\ Records(lines[r.ordinal])
                   /\ r.text = lines[r.ordinal].text
  BY <1>1, <1>2, <1>4
<1>8. \A r \in T : Marked(lines, r)
  BY <1>3, <1>5
<1>9. ASSUME NEW i \in 1..Len(lines), Records(lines[i]), \A r \in T : r.ordinal # i
      PROVE  \A r \in T : r.ordinal > i
  <2>1. i \in 1..from
    BY <1>1, <1>2, <1>9
  <2>2. \A r \in R : r.ordinal > i
    BY <1>4, <1>9, <2>1
  <2>3. \A r \in A : r.ordinal > i
    BY <1>1, <1>2, <2>1
  <2> QED
    BY <2>2, <2>3
<1> HIDE DEF T
<1>10. S \subseteq T /\ Ordered(S) /\ Cardinality(S) <= n
  BY <1>6, LatestAreFew
<1>11. ASSUME NEW i \in 1..Len(lines), Records(lines[i]), \A r \in S : r.ordinal # i
       PROVE  \A r \in S : r.ordinal > i
  <2>1. CASE \E r \in T : r.ordinal = i
    <3>1. PICK r \in T : r.ordinal = i
      BY <2>1
    <3> QED
      BY <1>6, <1>11, <3>1, LatestAreLast
  <2>2. CASE \A r \in T : r.ordinal # i
    BY <1>9, <1>10, <1>11, <2>2
  <2> QED
    BY <2>1, <2>2
<1> HIDE DEF S
<1>12. Searched(S, lines, Len(lines))
  <2>1. \A r \in S : Marked(lines, r)
    BY <1>8, <1>10
  <2>2. \A r \in S : /\ r.ordinal \in 1..Len(lines) /\ Records(lines[r.ordinal])
                     /\ r.text = lines[r.ordinal].text
    BY <1>7, <1>10
  <2>3. \A r, q \in S : r.ordinal = q.ordinal => r = q
    BY <1>10 DEF Ordered
  <2> QED
    BY <1>11, <2>1, <2>2, <2>3 DEF Searched
<1> QED
  BY <1>10, <1>12 DEF S, T, A

\* Records that are the last up to n are so for what the transcript becomes.
LEMMA StillSearched ==
    ASSUME NEW lines \in Seq(Lines), NEW more \in Seq(Lines), NEW n \in 0..Len(lines),
           \A i \in 1..Len(lines) : more[i] = lines[i],
           NEW R, Searched(R, lines, n)
    PROVE  Searched(R, more, n)
<1>1. \A i \in 1..n : more[i] = lines[i]
  OBVIOUS
<1>2. \A r \in R : r.ordinal \in 1..n
  BY DEF Searched
<1> QED
  BY <1>1, <1>2 DEF Searched, Marked

\* The records kept are the last of those the lines hold, as they are written.
AsWritten(R, lines) == {Plain(lines, r.ordinal) : r \in R}
Below(lines, n) == {r \in Parse(lines, 0, TRUE) : r.ordinal <= n}

LEMMA SearchedAreLatest ==
    ASSUME NEW lines \in Seq(Lines), NEW n \in 0..Len(lines),
           NEW R, Ordered(R), Searched(R, lines, n)
    PROVE  /\ Latest(Below(lines, n), Cardinality(R)) = AsWritten(R, lines)
           /\ Written(AsWritten(R, lines)) = Written(R)
<1> DEFINE P == Parse(lines, 0, TRUE)
           B == Below(lines, n)
           g == [r \in R |-> Plain(lines, r.ordinal)]
           Q == AsWritten(R, lines)
<1>1. Len(lines) \in Nat /\ n \in Nat /\ n <= Len(lines) /\ 0 \in 0..Len(lines)
  OBVIOUS
<1>2. /\ Ordered(P)
      /\ \A r \in P : r.ordinal \in 1..Len(lines) /\ Records(lines[r.ordinal])
      /\ \A i \in 1..Len(lines) : Records(lines[i]) => \E r \in P : r.ordinal = i
  <2>1. PICK z \in Nat : z = 0 /\ z + 1 = 1
    OBVIOUS
  <2>2. PICK w \in BOOLEAN : w = TRUE
    OBVIOUS
  <2>3. z \in 0..Len(lines)
    BY <1>1, <2>1
  <2>4. /\ Ordered(Parse(lines, z, w))
        /\ \A r \in Parse(lines, z, w) :
              r.ordinal \in (z + 1)..Len(lines) /\ Records(lines[r.ordinal])
        /\ \A i \in (z + 1)..Len(lines) :
              Records(lines[i]) => \E r \in Parse(lines, z, w) : r.ordinal = i
    BY <2>3, ParsedRecords
  <2>5. Parse(lines, z, w) = P
    BY <2>1, <2>2
  <2> QED
    BY <2>1, <2>4, <2>5
<1>3. \A r \in P : r = Plain(lines, r.ordinal)
  BY <1>1, ParsedRecords
<1>4. /\ \A r \in R : r.ordinal \in 1..n /\ Records(lines[r.ordinal])
      /\ \A r, q \in R : r.ordinal = q.ordinal => r = q
      /\ \A i \in 1..n : Records(lines[i]) => \/ \E r \in R : r.ordinal = i
                                              \/ \A r \in R : r.ordinal > i
  BY DEF Searched
<1>5. \A r \in R : r.text = lines[r.ordinal].text
  BY DEF Searched
<1>6. \A i : Plain(lines, i).ordinal = i /\ Plain(lines, i).text = lines[i].text
  BY DEF Plain, Record
<1>7. Q = {g[r] : r \in R} /\ \A r \in R : g[r].ordinal = r.ordinal /\ g[r].text = r.text
  BY <1>5, <1>6 DEF AsWritten
<1>8. \A r \in R : g[r] = Plain(lines, r.ordinal)
  OBVIOUS
<1>9. g = [r \in R |-> g[r]] /\ B = {r \in P : r.ordinal <= n}
  BY DEF Below
<1> HIDE DEF P, B, g, Q
<1>10. Ordered(B)
  BY <1>2, <1>9, FS_Subset DEF Ordered
<1>11. Q \subseteq B
  <2> SUFFICES ASSUME NEW r \in R PROVE g[r] \in B
    BY <1>7
  <2>1. r.ordinal \in 1..Len(lines) /\ r.ordinal \in 1..n /\ Records(lines[r.ordinal])
    BY <1>1, <1>4
  <2>2. PICK q \in P : q.ordinal = r.ordinal
    BY <1>2, <2>1
  <2>3. q = g[r]
    BY <1>3, <1>8, <2>2
  <2> QED
    BY <1>1, <1>9, <2>1, <2>2, <2>3
<1>12. ASSUME NEW q \in Q, NEW r \in B, r.ordinal > q.ordinal PROVE r \in Q
  <2>1. PICK d \in R : q = g[d] /\ q.ordinal = d.ordinal
    BY <1>7
  <2>2. r.ordinal \in 1..n /\ Records(lines[r.ordinal]) /\ r = Plain(lines, r.ordinal)
    BY <1>1, <1>2, <1>3, <1>9
  <2>3. d.ordinal \in 1..n
    BY <1>4
  <2>4. PICK e \in R : e.ordinal = r.ordinal
    BY <1>4, <1>12, <2>1, <2>2, <2>3
  <2> QED
    BY <1>7, <1>8, <2>2, <2>4
<1>13. Cardinality(Q) = Cardinality(R)
  <2>1. g \in Bijection(R, Q)
    <3>1. g \in [R -> Q]
      BY <1>7, <1>9
    <3>2. \A r, q \in R : g[r] = g[q] => r = q
      BY <1>4, <1>7
    <3> QED
      BY <1>7, <3>1, <3>2 DEF Bijection, Injection, Surjection, IsInjective
  <2> QED
    BY <2>1, FS_Bijection DEF Ordered, ExistsBijection
<1>14. Latest(B, Cardinality(Q)) = Q
  BY <1>10, <1>11, <1>12, LatestOfSize
<1>15. Written(Q) = Written(R)
  BY <1>7 DEF Written
<1> QED
  BY <1>13, <1>14, <1>15 DEF B, Q

-----------------------------------------------------------------------------
(* Sequences *)

LEMMA Cut ==
    ASSUME NEW S, NEW q \in Seq(S), NEW i \in 0..Len(q), NEW j \in 0..Len(q), i <= j
    PROVE  /\ SubSeq(q, i + 1, j) \in Seq(S) /\ Len(SubSeq(q, i + 1, j)) = j - i
           /\ \A k \in 1..(j - i) : SubSeq(q, i + 1, j)[k] = q[i + k]
<1>1. Len(q) \in Nat /\ i + 1 \in 1..(Len(q) + 1) /\ j - i \in Nat
      /\ \A k \in (i + 1)..j : k \in 1..Len(q)
  OBVIOUS
<1>2. SubSeq(q, i + 1, j) = [k \in 1..(j - i) |-> q[i + k]]
  BY <1>1
<1>3. \A k \in 1..(j - i) : i + k \in 1..Len(q)
  BY <1>1
<1>4. \A k \in 1..(j - i) : q[i + k] \in S
  BY <1>3
<1> QED
  BY <1>1, <1>2, <1>4

LEMMA Joined ==
    ASSUME NEW S, NEW a \in Seq(S), NEW b \in Seq(S)
    PROVE  /\ a \o b \in Seq(S) /\ Len(a \o b) = Len(a) + Len(b)
           /\ \A i \in 1..Len(a) : (a \o b)[i] = a[i]
           /\ \A i \in 1..Len(b) : (a \o b)[Len(a) + i] = b[i]
OBVIOUS

\* A tail of q: all of it but the first k.
Tailed(t, q, k) == Len(t) = Len(q) - k /\ \A i \in 1..Len(t) : t[i] = q[k + i]

LEMMA NewestIsTail ==
    ASSUME NEW S, NEW q \in Seq(S), NEW n \in Nat
    PROVE  /\ Newest(q, n) \in Seq(S) /\ Len(Newest(q, n)) <= n
           /\ \E k \in 0..Len(q) : Tailed(Newest(q, n), q, k)
           /\ q # <<>> /\ n # 0 => \E k \in 0..(Len(q) - 1) : Tailed(Newest(q, n), q, k)
<1>1. PICK l \in Nat : l = Len(q)
  OBVIOUS
<1>2. CASE l <= n
  <2>1. Newest(q, n) = q
    BY <1>1, <1>2 DEF Newest
  <2>2. Tailed(q, q, 0) /\ (q # <<>> => l # 0)
    BY <1>1 DEF Tailed
  <2> QED
    BY <1>1, <1>2, <2>1, <2>2
<1>3. CASE l > n
  <2>1. PICK k \in Nat : k = l - n
    <3>1. l - n \in Nat
      BY <1>1, <1>3
    <3> QED
      BY <3>1
  <2>2. l - n + 1 = k + 1 /\ l - k = n /\ k \in 0..l /\ l \in 0..l /\ k <= l
    BY <1>1, <1>3, <2>1
  <2>3. Newest(q, n) = SubSeq(q, k + 1, l)
    BY <1>1, <1>3, <2>2 DEF Newest
  <2>4. /\ SubSeq(q, k + 1, l) \in Seq(S) /\ Len(SubSeq(q, k + 1, l)) = l - k
        /\ \A i \in 1..(l - k) : SubSeq(q, k + 1, l)[i] = q[k + i]
    BY <1>1, <2>2, Cut
  <2>5. Tailed(Newest(q, n), q, k)
    BY <1>1, <2>2, <2>3, <2>4 DEF Tailed
  <2>6. n # 0 => k \in 0..(l - 1)
    BY <1>1, <2>1, <2>2
  <2> QED
    BY <1>1, <2>2, <2>3, <2>4, <2>5, <2>6
<1> QED
  BY <1>1, <1>2, <1>3

LEMMA Removed ==
    ASSUME NEW S, NEW q \in Seq(S), NEW i \in 1..Len(q)
    PROVE  /\ RemoveAt(q, i) \in Seq(S) /\ Len(RemoveAt(q, i)) = Len(q) - 1
           /\ \A j \in 1..(i - 1) : RemoveAt(q, i)[j] = q[j]
           /\ \A j \in i..(Len(q) - 1) : RemoveAt(q, i)[j] = q[j + 1]
<1>1. PICK n \in Nat : n = Len(q)
  OBVIOUS
<1>2. PICK z, h : z = 0 /\ h = i - 1
  OBVIOUS
<1>3. /\ z \in 0..n /\ h \in 0..n /\ z <= h /\ z + 1 = 1 /\ h - z = h
      /\ n \in 0..n /\ i \in 0..n /\ i <= n
  BY <1>1, <1>2
<1> DEFINE a == SubSeq(q, 1, i - 1)  b == SubSeq(q, i + 1, n)
<1>4. /\ SubSeq(q, z + 1, h) \in Seq(S) /\ Len(SubSeq(q, z + 1, h)) = h - z
      /\ \A j \in 1..(h - z) : SubSeq(q, z + 1, h)[j] = q[z + j]
  BY <1>1, <1>3, Cut
<1>5. a \in Seq(S) /\ Len(a) = h /\ \A j \in 1..h : a[j] = q[j]
  BY <1>2, <1>3, <1>4
<1>6. b \in Seq(S) /\ Len(b) = n - i /\ \A j \in 1..(n - i) : b[j] = q[i + j]
  BY <1>1, <1>3, Cut
<1>7. RemoveAt(q, i) = a \o b
  BY <1>1 DEF RemoveAt
<1> HIDE DEF a, b
<1>7a. a \in Seq(S) /\ b \in Seq(S)
  BY <1>5, <1>6
<1>8. /\ a \o b \in Seq(S) /\ Len(a \o b) = Len(a) + Len(b)
      /\ \A j \in 1..Len(a) : (a \o b)[j] = a[j]
      /\ \A j \in 1..Len(b) : (a \o b)[Len(a) + j] = b[j]
  BY ONLY <1>7a, Joined
<1>9. ASSUME NEW j \in i..(n - 1) PROVE (a \o b)[j] = q[j + 1]
  <2>1. PICK k \in 1..(n - i) : k = j - h /\ j = h + k /\ j + 1 = i + k
    BY <1>1, <1>2
  <2>2. (a \o b)[h + k] = b[k]
    BY <1>5, <1>6, <1>8
  <2> QED
    BY <1>6, <2>1, <2>2
<1>10. Len(a \o b) = n - 1
  BY <1>1, <1>2, <1>5, <1>6, <1>8
<1> QED
  BY <1>1, <1>2, <1>5, <1>7, <1>8, <1>9, <1>10

\* What an entry of t is in q.
Drawing(t, q, f) ==
    /\ f \in [1..Len(t) -> 1..Len(q)]
    /\ \A i \in 1..Len(t) : t[i] = q[f[i]]
    /\ \A i, j \in 1..Len(t) : f[i] = f[j] => i = j

LEMMA RemovedDraws ==
    ASSUME NEW S, NEW q \in Seq(S), NEW i \in 1..Len(q)
    PROVE  \E f : /\ Drawing(RemoveAt(q, i), q, f)
                  /\ \A j \in 1..Len(RemoveAt(q, i)) : f[j] # i
<1>1. PICK n \in Nat, m \in Int : n = Len(q) /\ m = n - 1
  OBVIOUS
<1> DEFINE f == [j \in 1..m |-> IF j < i THEN j ELSE j + 1]
           r == RemoveAt(q, i)
<1>2. /\ Len(r) = m
      /\ \A j \in 1..(i - 1) : r[j] = q[j]
      /\ \A j \in i..m : r[j] = q[j + 1]
  BY <1>1, Removed
<1>3. f \in [1..m -> 1..n] /\ \A j \in 1..m : f[j] # i
  BY <1>1
<1>4. \A j, k \in 1..m : f[j] = f[k] => j = k
  BY <1>1
<1>5. ASSUME NEW j \in 1..m PROVE r[j] = q[f[j]]
  <2>1. CASE j < i
    <3>1. j \in 1..(i - 1)
      BY <1>1, <2>1
    <3> QED
      BY <1>2, <2>1, <3>1
  <2>2. CASE ~(j < i)
    <3>1. j \in i..m
      BY <1>1, <2>2
    <3> QED
      BY <1>2, <2>2, <3>1
  <2> QED
    BY <2>1, <2>2
<1> HIDE DEF f, r
<1>6. Drawing(r, q, f)
  BY <1>1, <1>2, <1>3, <1>4, <1>5 DEF Drawing
<1> QED
  BY <1>2, <1>3, <1>6 DEF r

-----------------------------------------------------------------------------
(* Indexes *)

LEMMA IndexForOK ==
    ASSUME WorldOK, IndexesOK, NEW b \in Bounds
    PROVE  Indexed(IndexFor(b), file[b.session]) /\ IndexFor(b).key = Key(b)
<1>1. b.session \in Sessions /\ b.generation \in Nat /\ file[b.session] \in Transcripts
  BY DEF Bounds, WorldOK
<1>2. CASE Holds(b) = {}
  <2>1. IndexFor(b) = NewIndex(Key(b)) /\ Key(b) \in Sessions \X Nat
    BY <1>1, <1>2 DEF IndexFor, Key
  <2>2. NewIndex(Key(b)) \in IndexType
    BY <2>1 DEF NewIndex, IndexType
  <2>3. IsFiniteSet({}) /\ Cardinality({}) = 0 /\ 0 <= MaxRecords
    BY FS_EmptySet, LimitAssumption
  <2> QED
    BY <1>1, <2>1, <2>2, <2>3 DEF Indexed, NewIndex, Transcripts
<1>3. CASE Holds(b) # {}
  <2>1. PICK i \in Holds(b) : IndexFor(b) = indexes[i]
    BY <1>3 DEF IndexFor
  <2>2. i \in DOMAIN indexes /\ indexes[i].key = Key(b) /\ Key(b)[1] = b.session
    BY <2>1 DEF Holds, Key
  <2> QED
    BY <2>1, <2>2 DEF IndexesOK, IndexesAre
<1> QED
  BY <1>2, <1>3

LEMMA ScannedOK ==
    ASSUME NEW f \in Transcripts, NEW x, Indexed(x, f), NEW s \in Sessions,
           Scanned(x, s, f) # None
    PROVE  /\ Indexed(Scanned(x, s, f), f) /\ Scanned(x, s, f).key = x.key
           /\ Scanned(x, s, f).ino = f.ino /\ Scanned(x, s, f).offset = Len(f.lines)
<1> DEFINE first == x.ino = 0
           from == IF first THEN Bootstrap(f) ELSE x.offset
           whole == ~first \/ from = 0 \/ s \in Codex
           meta == x.meta \/ (from = 0 /\ HasMeta(f.lines)) \/ (first /\ HasMeta(f.lines))
           added == Parse(f.lines, from, whole)
           R == Latest(x.records \cup added, MaxRecords)
           y == [x EXCEPT !.ino = f.ino, !.offset = Len(f.lines), !.meta = meta, !.records = R]
<1>1. Scanned(x, s, f) = y /\ (~first => x.ino = f.ino) /\ ~(Len(f.lines) < from)
  BY DEF Scanned
<1>2. /\ x \in IndexType /\ IsFiniteSet(x.records)
      /\ x.ino = 0 => x.records = {}
      /\ x.ino = f.ino => x.offset <= Len(f.lines) /\ Searched(x.records, f.lines, x.offset)
  BY DEF Indexed
<1>3. f.lines \in Seq(Lines) /\ f.ino \in Nat \ {0} /\ Len(f.lines) \in Nat
  BY DEF Transcripts
<1>4. from \in 0..Len(f.lines) /\ Searched(x.records, f.lines, from)
  <2>1. CASE first
    <3>1. Bootstrap(f) \in 0..Len(f.lines)
      BY <1>3, LimitAssumption DEF Bootstrap
    <3>2. Searched({}, f.lines, Bootstrap(f))
      BY DEF Searched
    <3> QED
      BY <1>2, <2>1, <3>1, <3>2
  <2>2. CASE ~first
    <3>1. x.offset \in Nat
      BY <1>2 DEF IndexType
    <3> QED
      BY <1>1, <1>2, <1>3, <2>2, <3>1
  <2> QED
    BY <2>1, <2>2
<1>5. whole \in BOOLEAN /\ meta \in BOOLEAN
  <2>1. x.meta \in BOOLEAN
    BY <1>2 DEF IndexType
  <2> QED
    BY <2>1 DEF HasMeta
<1>6. Ordered(x.records)
  <2>1. x.records \subseteq RecordType
    BY <1>2 DEF IndexType
  <2> QED
    BY <1>2, <1>4, <2>1 DEF Ordered, Searched
<1> HIDE DEF first, from, whole, meta
<1>7. Ordered(R) /\ Cardinality(R) <= MaxRecords /\ Searched(R, f.lines, Len(f.lines))
  <2>1. MaxRecords \in Nat
    BY LimitAssumption
  <2> QED
    BY <1>3, <1>4, <1>5, <1>6, <2>1, UpdatedRecords
<1> HIDE DEF R
<1>8. y \in IndexType
  BY <1>2, <1>3, <1>5, <1>7 DEF IndexType, Ordered
<1>9. y.records = R /\ y.ino = f.ino /\ y.offset = Len(f.lines) /\ y.key = x.key
  BY <1>2 DEF IndexType
<1> HIDE DEF y
<1>10. Indexed(y, f)
  BY <1>3, <1>7, <1>8, <1>9 DEF Indexed, Ordered
<1> QED
  BY <1>1, <1>9, <1>10

LEMMA UpdatedOK ==
    ASSUME NEW s \in Sessions, file[s] \in Transcripts, NEW fence, NEW x, Indexed(x, file[s])
    PROVE  /\ Indexed(Updated(x, s, fence), file[s]) /\ Updated(x, s, fence).key = x.key
           /\ (Scanned(x, s, fence) # None /\ Unchanged(s, fence)) =>
                 /\ Updated(x, s, fence).ino = fence.ino
                 /\ Updated(x, s, fence).offset = Len(fence.lines)
<1>1. CASE Scanned(x, s, fence) = None \/ ~Unchanged(s, fence)
  BY <1>1 DEF Updated
<1>2. CASE Scanned(x, s, fence) # None /\ file[s] = fence
  <2>1. Updated(x, s, fence) = Scanned(x, s, fence)
    BY <1>2 DEF Updated, Unchanged
  <2> QED
    BY <1>2, <2>1, ScannedOK
<1> QED
  BY <1>1, <1>2 DEF Unchanged

\* The entries of t but the last come from q, no two from the same.
LEMMA OthersDrawn ==
    ASSUME IndexesOK, NEW s
    PROVE  /\ Others(s) \in Seq(IndexType)
           /\ \E f : /\ Drawing(Others(s), indexes, f)
                     /\ \A i \in 1..Len(Others(s)) : indexes[f[i]].key[1] # s
<1> DEFINE same == {i \in DOMAIN indexes : indexes[i].key[1] = s}
<1>1. indexes \in Seq(IndexType) /\ DOMAIN indexes = 1..Len(indexes)
      /\ \A i, j \in 1..Len(indexes) : indexes[i].key[1] = indexes[j].key[1] => i = j
  BY DEF IndexesOK, IndexesAre
<1>2. CASE same = {}
  <2> DEFINE f == [i \in 1..Len(indexes) |-> i]
  <2>1. Others(s) = indexes
    BY <1>2 DEF Others
  <2>2. Drawing(indexes, indexes, f)
    BY <1>1 DEF Drawing
  <2>3. \A i \in 1..Len(indexes) : f[i] = i /\ indexes[i].key[1] # s
    BY <1>1, <1>2
  <2> HIDE DEF f
  <2> QED
    BY <1>1, <2>1, <2>2, <2>3
<1>3. CASE same # {}
  <2>1. PICK k \in same : Others(s) = RemoveAt(indexes, k)
    BY <1>3 DEF Others
  <2>2. k \in 1..Len(indexes) /\ indexes[k].key[1] = s
    BY <1>1, <2>1
  <2>3. RemoveAt(indexes, k) \in Seq(IndexType)
    BY <1>1, <2>2, Removed
  <2>4. PICK f : /\ Drawing(RemoveAt(indexes, k), indexes, f)
                 /\ \A j \in 1..Len(RemoveAt(indexes, k)) : f[j] # k
    BY <1>1, <2>2, RemovedDraws
  <2>5. ASSUME NEW j \in 1..Len(RemoveAt(indexes, k)) PROVE indexes[f[j]].key[1] # s
    BY <1>1, <2>2, <2>4 DEF Drawing
  <2> QED
    BY <2>1, <2>3, <2>4, <2>5
<1> QED
  BY <1>2, <1>3

LEMMA StoredOK ==
    ASSUME IndexesOK, NEW x, Indexed(x, file[x.key[1]])
    PROVE  IndexesAre(Stored(x))
<1> DEFINE o == Others(x.key[1])  q == Append(o, x)  t == Newest(q, MaxIndexes)
<1>1. x \in IndexType /\ MaxIndexes \in Nat
  BY LimitAssumption DEF Indexed
<1>2. PICK f : Drawing(o, indexes, f) /\ \A i \in 1..Len(o) : indexes[f[i]].key[1] # x.key[1]
  BY OthersDrawn
<1>3. o \in Seq(IndexType)
  BY OthersDrawn
<1>4. /\ \A i \in 1..Len(indexes) : Indexed(indexes[i], file[indexes[i].key[1]])
      /\ \A i, j \in 1..Len(indexes) : indexes[i].key[1] = indexes[j].key[1] => i = j
  BY DEF IndexesOK, IndexesAre
<1>5. /\ \A i \in 1..Len(o) : f[i] \in 1..Len(indexes) /\ o[i] = indexes[f[i]]
      /\ \A i, j \in 1..Len(o) : f[i] = f[j] => i = j
  BY <1>2 DEF Drawing
<1>6. PICK n \in Nat : n = Len(o)
  BY <1>3
<1>7. /\ q \in Seq(IndexType) /\ Len(q) = n + 1 /\ q[n + 1] = x
      /\ \A i \in 1..n : q[i] = o[i]
  BY <1>1, <1>3, <1>6
<1>8. \A i \in 1..(n + 1) : i \in 1..n \/ i = n + 1
  OBVIOUS
<1> HIDE DEF o, q
<1>9. ASSUME NEW i \in 1..(n + 1) PROVE Indexed(q[i], file[q[i].key[1]])
  BY <1>4, <1>5, <1>6, <1>7, <1>8
<1>10. ASSUME NEW i \in 1..(n + 1), NEW j \in 1..(n + 1), q[i].key[1] = q[j].key[1]
       PROVE  i = j
  <2>1. CASE i \in 1..n /\ j \in 1..n
    <3>1. q[i] = indexes[f[i]] /\ q[j] = indexes[f[j]]
      BY <1>5, <1>6, <1>7, <2>1
    <3>2. f[i] \in 1..Len(indexes) /\ f[j] \in 1..Len(indexes)
      BY <1>5, <1>6, <2>1
    <3>3. f[i] = f[j]
      BY <1>4, <1>10, <3>1, <3>2
    <3> QED
      BY <1>5, <1>6, <2>1, <3>3
  <2>2. CASE i \in 1..n /\ j = n + 1
    BY <1>2, <1>5, <1>6, <1>7, <1>10, <2>2
  <2>3. CASE i = n + 1 /\ j \in 1..n
    BY <1>2, <1>5, <1>6, <1>7, <1>10, <2>3
  <2> QED
    BY <1>8, <2>1, <2>2, <2>3
<1>11. t \in Seq(IndexType) /\ Len(t) <= MaxIndexes
       /\ \E k \in 0..Len(q) : Tailed(t, q, k)
  BY <1>1, <1>7, NewestIsTail
<1> HIDE DEF t
<1>12. PICK k \in 0..(n + 1) : Len(t) = n + 1 - k /\ \A i \in 1..Len(t) : t[i] = q[k + i]
  BY <1>7, <1>11 DEF Tailed
<1>13. \A i \in 1..Len(t) : k + i \in 1..(n + 1)
  BY <1>12
<1>14. \A i \in 1..Len(t) : Indexed(t[i], file[t[i].key[1]])
  BY <1>9, <1>12, <1>13
<1>15. ASSUME NEW i \in 1..Len(t), NEW j \in 1..Len(t), t[i].key[1] = t[j].key[1] PROVE i = j
  <2>1. k + i = k + j
    BY <1>10, <1>12, <1>13, <1>15
  <2> QED
    BY <1>12, <2>1
<1>16. DOMAIN t = 1..Len(t)
  BY <1>11
<1>17. IndexesAre(t)
  BY <1>11, <1>14, <1>15, <1>16 DEF IndexesAre
<1> QED
  BY <1>17 DEF t, q, o, Stored

\* Another file, or more lines of the same.
Grows(f, g) ==
    /\ Grew(f, g) /\ g \in Transcripts
    /\ g.ino = f.ino => /\ Len(f.lines) <= Len(g.lines)
                       /\ \A i \in 1..Len(f.lines) : g.lines[i] = f.lines[i]
FilesGrow == \A s \in Sessions : Grows(file[s], file'[s])

LEMMA IndexedStays ==
    ASSUME NEW f \in Transcripts, NEW g, Grows(f, g), NEW x, Indexed(x, f)
    PROVE  Indexed(x, g)
<1>1. /\ x \in IndexType /\ x.ino <= f.ino /\ x.ino \in Nat /\ x.offset \in Nat
      /\ x.ino = f.ino => x.offset <= Len(f.lines) /\ Searched(x.records, f.lines, x.offset)
  BY DEF Indexed, IndexType
<1>2. /\ f.ino \in Nat /\ g.ino \in Nat /\ f.ino <= g.ino
      /\ f.lines \in Seq(Lines) /\ g.lines \in Seq(Lines)
  BY DEF Grows, Grew, Transcripts
<1>3. CASE x.ino = g.ino
  <2>1. /\ g.ino = f.ino /\ x.ino = f.ino /\ Len(f.lines) <= Len(g.lines)
        /\ \A i \in 1..Len(f.lines) : g.lines[i] = f.lines[i]
    BY <1>1, <1>2, <1>3 DEF Grows
  <2>2. x.offset \in 0..Len(f.lines) /\ x.offset <= Len(g.lines)
    BY <1>1, <1>2, <2>1
  <2>3. Searched(x.records, g.lines, x.offset)
    BY <1>1, <1>2, <2>1, <2>2, StillSearched
  <2> QED
    BY <1>1, <1>2, <2>2, <2>3 DEF Indexed
<1>4. CASE x.ino # g.ino
  BY <1>1, <1>2, <1>4 DEF Indexed
<1> QED
  BY <1>3, <1>4

LEMMA IndexesStay ==
    ASSUME WorldOK, IndexesOK, FilesGrow, UNCHANGED indexes
    PROVE  IndexesOK'
<1>1. /\ \A i \in DOMAIN indexes : Indexed(indexes[i], file[indexes[i].key[1]])
      /\ \A i \in DOMAIN indexes : indexes[i].key[1] \in Sessions
      /\ \A s \in Sessions : file[s] \in Transcripts
  <2>1. indexes \in Seq(IndexType)
        /\ \A i \in DOMAIN indexes : Indexed(indexes[i], file[indexes[i].key[1]])
    BY DEF IndexesOK, IndexesAre
  <2>2. \A i \in DOMAIN indexes : indexes[i] \in IndexType
    BY <2>1
  <2>3. \A x \in IndexType : x.key[1] \in Sessions
    BY DEF IndexType
  <2>4. \A s \in Sessions : file[s] \in Transcripts
    BY DEF WorldOK
  <2> QED
    BY <2>1, <2>2, <2>3, <2>4
<1>2. \A i \in DOMAIN indexes : Indexed(indexes[i], file'[indexes[i].key[1]])
  BY <1>1, IndexedStays DEF FilesGrow
<1> QED
  BY <1>2 DEF IndexesOK, IndexesAre

-----------------------------------------------------------------------------
(* The world outside *)

\* Who runs now ran before, or started since.
Later ==
    /\ events <= events'
    /\ \A p \in Pids : proc'[p] # None =>
          \/ proc[p] # None /\ proc'[p].start = proc[p].start
          \/ proc'[p].start > events
WorldStep == WorldOK' /\ FilesGrow /\ Later /\ events' \in Nat

LEMMA SameGrows == ASSUME NEW f \in Transcripts PROVE Grows(f, f)
BY DEF Grows, Grew, Transcripts

LEMMA SameFiles == WorldOK /\ UNCHANGED file => FilesGrow
<1> SUFFICES ASSUME WorldOK, UNCHANGED file, NEW s \in Sessions PROVE Grows(file[s], file'[s])
  BY DEF FilesGrow
<1>1. file[s] \in Transcripts
  BY DEF WorldOK
<1> QED
  BY <1>1, SameGrows

LEMMA WorldStays ==
    ASSUME WorldOK, UNCHANGED world, UNCHANGED events
    PROVE  WorldStep
<1>1. FilesGrow
  BY SameFiles DEF world
<1>2. WorldOK' /\ events' \in Nat
  BY DEF WorldOK, world
<1>3. \A p \in Pids : proc[p] # None => proc[p].start \in Nat
  BY DEF WorldOK, Processes
<1>4. Later
  BY DEF Later, WorldOK, world
<1> QED
  BY <1>1, <1>2, <1>4 DEF WorldStep

LEMMA StartKeeps ==
    ASSUME WorldOK, NEW p \in Pids, NEW kind, NEW s, Start(p, kind, s),
           [start |-> events + 1, kind |-> kind, session |-> s] \in Processes,
           registry' \in [Pids -> Registered \cup {None}],
           pane' \in [row : 0..MaxRow, alternate : BOOLEAN],
           fg' \in {fg, p}
    PROVE  WorldStep
<1> DEFINE q == [start |-> events + 1, kind |-> kind, session |-> s]
<1>1. proc' = [proc EXCEPT ![p] = q] /\ events' = events + 1 /\ file' = file
  BY DEF Start, Happens
<1>2. q \in Processes /\ q # None /\ q.start = events + 1 /\ events \in Nat
  BY NoneAssumption DEF WorldOK
<1> HIDE DEF q
<1>3. /\ proc' \in [Pids -> Processes \cup {None}]
      /\ proc'[p] = q /\ \A r \in Pids \ {p} : proc'[r] = proc[r]
  BY <1>1, <1>2 DEF WorldOK
<1>4. \A r \in Pids : proc[r] # None => proc[r].start \in Nat /\ proc[r].start <= events
  BY DEF WorldOK, Processes
<1>5. \A r \in Pids : proc'[r] # None => proc'[r].start <= events'
  BY <1>1, <1>2, <1>3, <1>4
<1>6. fg' \in {r \in Pids : proc'[r] # None} \cup {None}
  BY <1>2, <1>3 DEF WorldOK
<1>7. FilesGrow
  BY <1>1, SameFiles
<1>8. Later
  BY <1>1, <1>2, <1>3 DEF Later
<1>9. WorldOK'
  BY <1>1, <1>2, <1>3, <1>5, <1>6 DEF WorldOK
<1> QED
  BY <1>1, <1>2, <1>7, <1>8, <1>9 DEF WorldStep

LEMMA StartsKeep ==
    ASSUME WorldOK, NEW p \in Pids, NEW s,
           (s \in Sessions /\ (StartProvider(p, s) \/ StartWorker(p, s))) \/ StartViewer(p)
    PROVE  WorldStep /\ UNCHANGED <<binding, lookup>>
<1>1. events \in Nat /\ events + 1 \in Nat /\ pane \in [row : 0..MaxRow, alternate : BOOLEAN]
      /\ registry \in [Pids -> Registered \cup {None}]
  BY DEF WorldOK
<1>2. CASE s \in Sessions /\ StartProvider(p, s)
  <2>1. [start |-> events + 1, kind |-> "cli", session |-> s] \in Processes
    BY <1>1, <1>2 DEF Processes
  <2>2. PICK a \in BOOLEAN : pane' = [pane EXCEPT !.alternate = a]
    BY <1>2 DEF StartProvider
  <2>3. pane' \in [row : 0..MaxRow, alternate : BOOLEAN]
    BY <1>1, <2>2
  <2>4. \/ registry' = registry
        \/ /\ s \in Claude
           /\ registry' = [registry EXCEPT ![p] = [session |-> s, start |-> events + 1]]
    <3>1. PICK w \in IF s \in Claude THEN BOOLEAN ELSE {FALSE} :
             registry' = [registry EXCEPT ![p] = IF w THEN [session |-> s, start |-> events + 1]
                                                  ELSE @]
      BY <1>2 DEF StartProvider
    <3>2. CASE w
      BY <3>1, <3>2
    <3>3. CASE ~w
      <4>1. registry' = [registry EXCEPT ![p] = registry[p]]
        BY <3>1, <3>3
      <4> QED
        BY <1>1, <4>1
    <3> QED
      BY <3>2, <3>3
  <2>5. registry' \in [Pids -> Registered \cup {None}]
    <3>1. s \in Claude => [session |-> s, start |-> events + 1] \in Registered
      BY <1>1 DEF Registered
    <3> QED
      BY <1>1, <2>4, <3>1
  <2> QED
    BY <1>2, <2>1, <2>3, <2>5, StartKeeps DEF StartProvider, Start
<1>3. CASE StartViewer(p)
  <2>1. [start |-> events + 1, kind |-> "viewer", session |-> None] \in Processes
    BY <1>1 DEF Processes
  <2>2. pane' \in [row : 0..MaxRow, alternate : BOOLEAN] /\ registry' = registry
    BY <1>1, <1>3 DEF StartViewer
  <2> QED
    BY <1>1, <1>3, <2>1, <2>2, StartKeeps DEF StartViewer, Start
<1>4. CASE s \in Sessions /\ StartWorker(p, s)
  <2>1. [start |-> events + 1, kind |-> "worker", session |-> s] \in Processes
    BY <1>1, <1>4 DEF Processes
  <2> QED
    BY <1>1, <1>4, <2>1, StartKeeps DEF StartWorker, Start
<1> QED
  BY <1>2, <1>3, <1>4

LEMMA ChangeSessionKeeps ==
    ASSUME WorldOK, NEW s \in Sessions, ChangeSession(s)
    PROVE  WorldStep /\ UNCHANGED <<binding, lookup>>
<1>1. PICK p \in Pids : p = fg /\ proc[p] # None /\ proc[p].kind = "cli"
  BY NoneAssumption DEF WorldOK, ChangeSession
<1>2. proc[p] \in Processes /\ proc \in [Pids -> Processes \cup {None}]
  BY <1>1 DEF WorldOK
<1> DEFINE q == [proc[p] EXCEPT !.session = s]
<1>3. q \in Processes /\ q.start = proc[p].start /\ q # None
  BY <1>1, <1>2, NoneAssumption DEF Processes
<1>4. /\ proc' = [proc EXCEPT ![p] = q] /\ events' = events + 1 /\ events \in Nat
      /\ UNCHANGED <<fg, pane, file, binding, lookup>>
  BY <1>1 DEF ChangeSession, Happens, WorldOK
<1> HIDE DEF q
<1>5. /\ proc' \in [Pids -> Processes \cup {None}]
      /\ proc'[p] = q /\ \A r \in Pids \ {p} : proc'[r] = proc[r]
  BY <1>2, <1>3, <1>4
<1>6. \A r \in Pids : proc[r] # None => proc[r].start \in Nat /\ proc[r].start <= events
  BY DEF WorldOK, Processes
<1>7. \A r \in Pids : proc'[r] # None =>
         proc[r] # None /\ proc'[r].start = proc[r].start /\ proc'[r].start <= events'
  BY <1>1, <1>3, <1>4, <1>5, <1>6
<1>8. registry' \in [Pids -> Registered \cup {None}]
  <2>1. registry \in [Pids -> Registered \cup {None}]
    BY DEF WorldOK
  <2>2. CASE registry[p] = None \/ s \in Codex
    BY <1>1, <2>1, <2>2 DEF ChangeSession
  <2>3. CASE registry[p] # None /\ s \notin Codex
    <3>1. registry[p] \in Registered /\ s \in Claude
      BY <1>1, <2>1, <2>3 DEF Sessions
    <3>2. [registry[p] EXCEPT !.session = s] \in Registered
      BY <3>1 DEF Registered
    <3>3. registry' = [registry EXCEPT ![p] = [registry[p] EXCEPT !.session = s]]
      BY <1>1, <2>3 DEF ChangeSession
    <3> QED
      BY <2>1, <3>2, <3>3
  <2> QED
    BY <2>2, <2>3
<1>9. FilesGrow
  BY <1>4, SameFiles
<1>10. Later
  BY <1>4, <1>7 DEF Later
<1>11. fg' \in {r \in Pids : proc'[r] # None} \cup {None}
  BY <1>1, <1>3, <1>4, <1>5
<1>12. WorldOK'
  BY <1>4, <1>5, <1>7, <1>8, <1>11 DEF WorldOK
<1> QED
  BY <1>4, <1>9, <1>10, <1>12 DEF WorldStep

LEMMA ExitKeeps ==
    ASSUME WorldOK, NEW p \in Pids, Exit(p)
    PROVE  WorldStep /\ UNCHANGED <<binding, lookup>>
<1>1. /\ proc' = [proc EXCEPT ![p] = None] /\ events' = events + 1 /\ events \in Nat
      /\ UNCHANGED <<file, binding, lookup>>
      /\ proc \in [Pids -> Processes \cup {None}]
      /\ registry \in [Pids -> Registered \cup {None}]
      /\ pane \in [row : 0..MaxRow, alternate : BOOLEAN]
  BY DEF Exit, Happens, WorldOK
<1>2. /\ proc' \in [Pids -> Processes \cup {None}]
      /\ proc'[p] = None /\ \A r \in Pids \ {p} : proc'[r] = proc[r]
  BY <1>1
<1>3. \A r \in Pids : proc[r] # None => proc[r].start \in Nat /\ proc[r].start <= events
  BY DEF WorldOK, Processes
<1>4. \A r \in Pids : proc'[r] # None =>
         proc[r] # None /\ proc'[r].start = proc[r].start /\ proc'[r].start <= events'
  BY <1>1, <1>2, <1>3
<1>5. registry' \in [Pids -> Registered \cup {None}]
  <2>1. registry' = registry \/ registry' = [registry EXCEPT ![p] = None]
    BY DEF Exit
  <2> QED
    BY <1>1, <2>1
<1>6. pane' \in [row : 0..MaxRow, alternate : BOOLEAN]
  <2>1. pane' = pane \/ pane' = [pane EXCEPT !.alternate = FALSE]
    BY DEF Exit
  <2> QED
    BY <1>1, <2>1
<1>7. fg' \in {r \in Pids : proc'[r] # None} \cup {None}
  <2>1. (fg = p /\ fg' = None) \/ (fg # p /\ fg' = fg)
    BY DEF Exit
  <2> QED
    BY <1>2, <2>1 DEF WorldOK
<1>8. FilesGrow
  BY <1>1, SameFiles
<1>9. Later
  BY <1>1, <1>4 DEF Later
<1>10. WorldOK'
  BY <1>1, <1>2, <1>4, <1>5, <1>6, <1>7 DEF WorldOK
<1> QED
  BY <1>1, <1>8, <1>9, <1>10 DEF WorldStep

LEMMA RowsKeep ==
    ASSUME WorldOK, PrintRow \/ ClearHistory
    PROVE  WorldStep /\ UNCHANGED <<binding, lookup>>
<1>1. /\ UNCHANGED <<proc, fg, registry, file, binding, lookup>>
      /\ events' = events + 1 /\ events \in Nat
      /\ pane \in [row : 0..MaxRow, alternate : BOOLEAN] /\ pane.row \in Int /\ MaxRow \in Nat
  BY LimitAssumption DEF PrintRow, ClearHistory, Happens, WorldOK
<1>2. pane' \in [row : 0..MaxRow, alternate : BOOLEAN]
  <2>1. CASE PrintRow
    <3>1. pane' = [pane EXCEPT !.row = pane.row + 1] /\ pane.row + 1 \in 0..MaxRow
      BY <1>1, <2>1 DEF PrintRow
    <3> QED
      BY <1>1, <3>1
  <2>2. CASE ClearHistory
    BY <1>1, <2>2 DEF ClearHistory
  <2> QED
    BY <2>1, <2>2
<1>3. FilesGrow
  BY <1>1, SameFiles
<1>4. \A r \in Pids : proc[r] # None => proc[r].start \in Nat /\ proc[r].start <= events
  BY DEF WorldOK, Processes
<1>5. Later
  BY <1>1 DEF Later
<1>6. WorldOK'
  BY <1>1, <1>2, <1>4 DEF WorldOK
<1> QED
  BY <1>1, <1>3, <1>5, <1>6 DEF WorldStep

\* A transcript that changes alone.
LEMMA WritesKeep ==
    ASSUME WorldOK, NEW s \in Sessions, NEW g, Grows(file[s], g), Len(g.lines) <= MaxLines,
           file' = [file EXCEPT ![s] = g], events' = events + 1,
           UNCHANGED <<proc, fg, registry, pane, binding, lookup>>
    PROVE  WorldStep /\ UNCHANGED <<binding, lookup>>
<1>1. g \in Transcripts /\ file \in [Sessions -> Transcripts] /\ events \in Nat
      /\ \A r \in Sessions : Len(file[r].lines) <= MaxLines
  BY DEF Grows, WorldOK
<1>2. /\ file' \in [Sessions -> Transcripts]
      /\ file'[s] = g /\ \A r \in Sessions \ {s} : file'[r] = file[r]
  BY <1>1
<1>3. FilesGrow
  BY <1>1, <1>2, SameGrows DEF FilesGrow
<1>4. \A r \in Pids : proc[r] # None => proc[r].start \in Nat /\ proc[r].start <= events
  BY DEF WorldOK, Processes
<1>5. Later
  BY <1>1 DEF Later
<1>6. \A r \in Sessions : Len(file'[r].lines) <= MaxLines
  BY <1>1, <1>2
<1>7. WorldOK'
  BY <1>1, <1>2, <1>4, <1>6 DEF WorldOK
<1> QED
  BY <1>1, <1>3, <1>5, <1>7 DEF WorldStep

LEMMA AppendsKeep ==
    ASSUME WorldOK, NEW s \in Sessions,
           AppendPart(s) \/ \E line \in NewLines : AppendLine(s, line)
    PROVE  WorldStep /\ UNCHANGED <<binding, lookup>>
<1>1. PICK f \in Transcripts : f = file[s]
  BY DEF WorldOK
<1>2. f.lines \in Seq(Lines) /\ Len(f.lines) \in Nat /\ f.ino \in Nat /\ MaxLines \in Nat
      /\ Len(f.lines) <= MaxLines
  BY <1>1, LimitAssumption DEF Transcripts, WorldOK
<1>3. CASE AppendPart(s)
  <2> DEFINE g == [f EXCEPT !.part = TRUE]
  <2>1. g \in Transcripts /\ g.ino = f.ino /\ g.lines = f.lines /\ g.part
    BY DEF Transcripts
  <2>2. file' = [file EXCEPT ![s] = g] /\ events' = events + 1
        /\ UNCHANGED <<proc, fg, registry, pane, binding, lookup>>
    BY <1>1, <1>3 DEF AppendPart, Happens
  <2> HIDE DEF g
  <2>3. Grows(file[s], g)
    BY <1>1, <1>2, <2>1 DEF Grows, Grew
  <2> QED
    BY <1>2, <2>1, <2>2, <2>3, WritesKeep
<1>4. CASE \E line \in NewLines : AppendLine(s, line)
  <2>1. PICK line \in NewLines : AppendLine(s, line)
    BY <1>4
  <2> DEFINE g == [f EXCEPT !.lines = Append(f.lines, line), !.part = FALSE]
  <2>2. line \in Lines /\ Len(f.lines) < MaxLines
    BY <1>1, <2>1, ProviderAssumption DEF AppendLine
  <2>3. /\ Append(f.lines, line) \in Seq(Lines) /\ Len(Append(f.lines, line)) = Len(f.lines) + 1
        /\ \A i \in 1..Len(f.lines) : Append(f.lines, line)[i] = f.lines[i]
    BY <1>2, <2>2
  <2>4. g \in Transcripts /\ g.ino = f.ino /\ g.lines = Append(f.lines, line)
    BY <2>3 DEF Transcripts
  <2>5. file' = [file EXCEPT ![s] = g] /\ events' = events + 1
        /\ UNCHANGED <<proc, fg, registry, pane, binding, lookup>>
    BY <1>1, <2>1 DEF AppendLine, Happens
  <2> HIDE DEF g
  <2>6. Grows(file[s], g)
    BY <1>1, <1>2, <2>3, <2>4 DEF Grows, Grew
  <2>7. Len(g.lines) <= MaxLines
    BY <1>2, <2>2, <2>3, <2>4
  <2> QED
    BY <2>5, <2>6, <2>7, WritesKeep
<1> QED
  BY <1>3, <1>4

LEMMA RotateKeeps ==
    ASSUME WorldOK, NEW s \in Sessions, Rotate(s)
    PROVE  WorldStep /\ UNCHANGED <<binding, lookup>>
<1>1. PICK f \in Transcripts : f = file[s]
  BY DEF WorldOK
<1>2. PICK first \in FirstLines :
         file' = [file EXCEPT ![s] = [ino |-> @.ino + 1, lines |-> first[s], part |-> FALSE]]
  BY DEF Rotate
<1>3. first[s] \in Seq(Lines) /\ Len(first[s]) <= MaxLines /\ f.ino \in Nat
  BY ProviderAssumption DEF Transcripts
<1> DEFINE g == [ino |-> f.ino + 1, lines |-> first[s], part |-> FALSE]
<1>4. g \in Transcripts /\ g.ino = f.ino + 1 /\ g.lines = first[s]
  BY <1>3 DEF Transcripts
<1>5. file' = [file EXCEPT ![s] = g] /\ events' = events + 1
      /\ UNCHANGED <<proc, fg, registry, pane, binding, lookup>>
  BY <1>1, <1>2 DEF Rotate, Happens
<1> HIDE DEF g
<1>6. Grows(file[s], g)
  BY <1>1, <1>3, <1>4 DEF Grows, Grew
<1> QED
  BY <1>3, <1>4, <1>5, <1>6, WritesKeep

LEMMA WorldKeeps ==
    ASSUME WorldOK, World
    PROVE  WorldStep /\ UNCHANGED <<binding, lookup>>
<1>1. CASE \E p \in Pids, s \in Sessions : StartProvider(p, s) \/ StartWorker(p, s)
  BY <1>1, StartsKeep
<1>2. CASE \E p \in Pids : StartViewer(p)
  BY <1>2, StartsKeep
<1>3. CASE \E p \in Pids : Exit(p)
  BY <1>3, ExitKeeps
<1>4. CASE \E s \in Sessions : ChangeSession(s)
  BY <1>4, ChangeSessionKeeps
<1>5. CASE \E s \in Sessions : AppendPart(s) \/ \E line \in NewLines : AppendLine(s, line)
  BY <1>5, AppendsKeep
<1>6. CASE \E s \in Sessions : Rotate(s)
  BY <1>6, RotateKeeps
<1>7. CASE PrintRow \/ ClearHistory
  BY <1>7, RowsKeep
<1> QED
  BY <1>1, <1>2, <1>3, <1>4, <1>5, <1>6, <1>7 DEF World

-----------------------------------------------------------------------------
(* The binding file *)

LEMMA KeptOK ==
    ASSUME NEW rs \in Seq(Ranged), \A i \in 1..Len(rs) : rs[i].end = None => i = Len(rs)
    PROVE  Kept(rs) \in Seq(Ranged) /\ RangeOK(Kept(rs))
<1> DEFINE t == Newest(rs, MaxRanges)
<1>1. MaxRanges \in Nat
  BY LimitAssumption
<1>2. /\ t \in Seq(Ranged) /\ Len(t) <= MaxRanges
      /\ \E k \in 0..Len(rs) : Tailed(t, rs, k)
  BY <1>1, NewestIsTail
<1> HIDE DEF t
<1>3. PICK k \in 0..Len(rs) : Len(t) = Len(rs) - k /\ \A i \in 1..Len(t) : t[i] = rs[k + i]
  BY <1>2 DEF Tailed
<1>4. ASSUME NEW i \in 1..Len(t), t[i].end = None PROVE i = Len(t)
  <2>1. k + i \in 1..Len(rs) /\ rs[k + i].end = None
    BY <1>3, <1>4
  <2>2. k + i = Len(rs)
    BY <2>1
  <2> QED
    BY <1>3, <2>2
<1>5. \A i \in 1..Len(t) : t[i] \in Ranged
  BY <1>2
<1>6. \A r \in Ranged : r.start \in Nat /\ r.end \in Nat \cup {None} /\ r.session \in Codex
  BY DEF Ranged
<1>7. DOMAIN t = 1..Len(t)
  BY <1>2
<1>8. RangeOK(t)
  BY <1>2, <1>4, <1>5, <1>6, <1>7 DEF RangeOK
<1> QED
  BY <1>2, <1>8 DEF t, Kept

LEMMA CloseLastOK ==
    ASSUME NEW rs \in Seq(Ranged), \A i \in 1..Len(rs) : rs[i].end = None => i = Len(rs),
           NEW row \in Nat
    PROVE  /\ CloseLast(rs, row) \in Seq(Ranged) /\ Len(CloseLast(rs, row)) = Len(rs)
           /\ \A i \in 1..Len(rs) : CloseLast(rs, row)[i].end # None
<1>1. row # None
  BY NoneAssumption
<1>2. CASE rs # <<>> /\ Last(rs).end = None
  <2> DEFINE n == Len(rs)  r == [rs[n] EXCEPT !.end = row]  t == [rs EXCEPT ![n] = r]
  <2>1. n \in 1..Len(rs) /\ rs[n] \in Ranged
    BY <1>2
  <2>2. r \in Ranged /\ r.end = row
    BY <2>1 DEF Ranged
  <2>3. CloseLast(rs, row) = t
    BY <1>2 DEF CloseLast
  <2> HIDE DEF r
  <2>4. t \in Seq(Ranged) /\ Len(t) = n /\ t[n] = r /\ \A i \in 1..n : i # n => t[i] = rs[i]
    BY <2>1, <2>2
  <2>5. \A i \in 1..n : t[i].end # None
    BY <1>1, <2>2, <2>4
  <2> QED
    BY <2>3, <2>4, <2>5
<1>3. CASE ~(rs # <<>> /\ Last(rs).end = None)
  <2>1. CloseLast(rs, row) = rs
    BY <1>3 DEF CloseLast
  <2>2. ASSUME NEW i \in 1..Len(rs), rs[i].end = None PROVE FALSE
    <3>1. i = Len(rs) /\ rs # <<>>
      BY <2>2
    <3> QED
      BY <1>3, <2>2, <3>1 DEF Last
  <2> QED
    BY <2>1, <2>2
<1> QED
  BY <1>2, <1>3

LEMMA RangesOK ==
    ASSUME NEW c \in Bindings \cup {None}, CacheOK(c), NEW e \in EventType, e.session \in Codex
    PROVE  Ranges(c, e) \in Seq(Ranged) /\ RangeOK(Ranges(c, e))
<1> DEFINE OnlyLast(q) == \A i \in 1..Len(q) : q[i].end = None => i = Len(q)
           rs == IF c = None \/ c.session \notin Codex THEN <<>> ELSE Kept(c.ranges)
           opened == [session |-> e.session, start |-> e.at, end |-> None,
                      alternate |-> e.alternate, saturated |-> e.at >= HistoryLimit]
           t == Append(CloseLast(rs, e.at), opened)
<1>0. \A q \in Seq(Ranged) : RangeOK(q) => OnlyLast(q)
  BY DEF RangeOK
<1>1. rs \in Seq(Ranged) /\ RangeOK(rs) /\ OnlyLast(rs)
  <2>1. CASE c = None \/ c.session \notin Codex
    <3>1. rs = <<>>
      BY <2>1
    <3> HIDE DEF rs
    <3>2. <<>> \in Seq(Ranged) /\ RangeOK(<<>>) /\ OnlyLast(<<>>)
      BY LimitAssumption DEF RangeOK
    <3> QED
      BY <3>1, <3>2
  <2>2. CASE ~(c = None \/ c.session \notin Codex)
    <3>1. c.ranges \in Seq(Ranged) /\ RangeOK(c.ranges)
      BY <2>2 DEF Bindings, CacheOK
    <3>2. OnlyLast(c.ranges) /\ rs = Kept(c.ranges)
      BY <1>0, <2>2, <3>1
    <3> QED
      BY <1>0, <3>1, <3>2, KeptOK
  <2> QED
    BY <2>1, <2>2
<1> HIDE DEF rs
<1>2. /\ Ranges(c, e) \in {rs, Kept(t), CloseLast(rs, e.at)}
      /\ e.at = None => Ranges(c, e) = rs
  BY DEF Ranges, rs
<1>3. CASE e.at = None
  BY <1>1, <1>2, <1>3
<1>4. CASE e.at # None
  <2>1. e.at \in Nat /\ e.alternate \in BOOLEAN
    BY <1>4 DEF EventType
  <2>2. opened \in Ranged
    <3>1. (e.at >= HistoryLimit) \in BOOLEAN
      OBVIOUS
    <3> QED
      BY <2>1, <3>1 DEF Ranged
  <2> DEFINE u == CloseLast(rs, e.at)
  <2>3. u \in Seq(Ranged) /\ Len(u) = Len(rs) /\ \A i \in 1..Len(rs) : u[i].end # None
    BY <1>1, <2>1, CloseLastOK
  <2> HIDE DEF opened, u
  <2>4. OnlyLast(u) /\ Len(u) <= MaxRanges
    BY <1>1, <2>3 DEF RangeOK
  <2>5. /\ t = Append(u, opened) /\ t \in Seq(Ranged)
        /\ Len(t) = Len(u) + 1 /\ \A i \in 1..Len(u) : t[i] = u[i]
    BY <2>2, <2>3 DEF u
  <2>6. OnlyLast(t)
    BY <2>3, <2>5
  <2>7. RangeOK(u)
    <3>1. \A i \in 1..Len(u) : u[i] \in Ranged
      BY <2>3
    <3>2. \A r \in Ranged : r.start \in Nat /\ r.end \in Nat \cup {None} /\ r.session \in Codex
      BY DEF Ranged
    <3>3. DOMAIN u = 1..Len(u)
      BY <2>3
    <3> QED
      BY <2>4, <3>1, <3>2, <3>3 DEF RangeOK
  <2> HIDE DEF t
  <2>8. Kept(t) \in Seq(Ranged) /\ RangeOK(Kept(t))
    BY <2>5, <2>6, KeptOK
  <2> QED
    BY <1>1, <1>2, <2>3, <2>7, <2>8 DEF u
<1> QED
  BY <1>3, <1>4

\* What hooks keep: each generation a hook, each hook its own answer.
LEMMA EmptyBusy ==
    ASSUME hooks = [h \in Hooks |-> NoHook]
    PROVE  Busy = {}
BY DEF Busy, NoHook

LEMMA HookIs ==
    ASSUME HooksOK, NEW h \in Hooks
    PROVE  /\ hooks[h].pc \in {"idle", "waiting", "locked"}
           /\ hooks[h].pc = "idle" => hooks[h] = NoHook
           /\ hooks[h].pc = "waiting" => hooks[h] \in EventType
           /\ hooks[h].pc = "locked" => /\ hooks[h].existing = cache /\ lock = h
                                       /\ hooks[h].event \in EventType
                                       /\ hooks[h].event.time \in Nat
<1>1. HookOK(h) /\ (hooks[h].pc = "locked" <=> lock = h)
  BY DEF HooksOK
<1>2. NoHook.pc = "idle"
  BY DEF NoHook
<1>3. \A e \in EventType : e.pc = "waiting"
  BY DEF EventType
<1>4. CASE hooks[h] = NoHook
  BY <1>2, <1>4
<1>5. CASE hooks[h] \in EventType
  BY <1>3, <1>5
<1>6. CASE hooks[h] \in [pc : {"locked"}, existing : {cache},
                         event : {e \in EventType : e.time \in Nat}]
  BY <1>1, <1>6
<1> QED
  BY <1>1, <1>4, <1>5, <1>6 DEF HookOK

\* A hook goes from one state to another while the binding file stays.
LEMMA HookMoves ==
    ASSUME HooksOK, NEW h \in Hooks, NEW q, hooks' = [hooks EXCEPT ![h] = q],
           UNCHANGED cache,
           q = NoHook \/ q \in EventType
             \/ q \in [pc : {"locked"}, existing : {cache}, event : {e \in EventType : e.time \in Nat}],
           q.pc = "locked" <=> lock' = h,
           \A g \in Hooks \ {h} : lock' = g <=> lock = g
    PROVE  HooksOK'
<1>1. hooks' = [g \in Hooks |-> hooks'[g]]
      /\ hooks'[h] = q /\ \A g \in Hooks \ {h} : hooks'[g] = hooks[g]
  BY DEF HooksOK
<1>2. \A g \in Hooks \ {h} : HookOK(g)' /\ (hooks'[g].pc = "locked" <=> lock' = g)
  BY <1>1 DEF HooksOK, HookOK
<1>3. HookOK(h)'
  BY <1>1 DEF HookOK
<1> QED
  BY <1>1, <1>2, <1>3 DEF HooksOK

LEMMA BusyGrows ==
    ASSUME HooksOK, NEW h \in Hooks, NEW q, hooks' = [hooks EXCEPT ![h] = q], IsFiniteSet(Busy)
    PROVE  /\ IsFiniteSet(Busy') /\ Cardinality(Busy') \in Nat /\ Cardinality(Busy) \in Nat
           /\ Cardinality(Busy') <= Cardinality(Busy) + 1
           /\ hooks[h].pc # "idle" => Cardinality(Busy') <= Cardinality(Busy)
           /\ (hooks[h].pc # "idle" /\ q.pc = "idle") => Cardinality(Busy') = Cardinality(Busy) - 1
<1>1. hooks'[h] = q /\ \A g \in Hooks \ {h} : hooks'[g] = hooks[g]
  BY DEF HooksOK
<1>2. Busy' \subseteq Busy \cup {h}
  BY <1>1 DEF Busy
<1>3. IsFiniteSet(Busy \cup {h}) /\ Cardinality(Busy \cup {h}) <= Cardinality(Busy) + 1
  <2>1. Cardinality(Busy) \in Nat
    BY FS_CardinalityType
  <2>2. /\ IsFiniteSet(Busy \cup {h})
        /\ Cardinality(Busy \cup {h}) = IF h \in Busy THEN Cardinality(Busy) ELSE Cardinality(Busy) + 1
    BY FS_AddElement
  <2> QED
    BY <2>1, <2>2
<1>4. /\ IsFiniteSet(Busy') /\ Cardinality(Busy') \in Nat /\ Cardinality(Busy) \in Nat
      /\ Cardinality(Busy') <= Cardinality(Busy \cup {h}) /\ Cardinality(Busy \cup {h}) \in Nat
  BY <1>2, <1>3, FS_Subset, FS_CardinalityType
<1>5. ASSUME hooks[h].pc # "idle" PROVE Cardinality(Busy') <= Cardinality(Busy)
  <2>1. Busy' \subseteq Busy
    BY <1>2, <1>5 DEF Busy
  <2> QED
    BY <2>1, FS_Subset
<1>6. ASSUME hooks[h].pc # "idle", q.pc = "idle" PROVE Cardinality(Busy') = Cardinality(Busy) - 1
  <2>1. Busy' = Busy \ {h} /\ h \in Busy
    BY <1>1, <1>6 DEF Busy
  <2> QED
    BY <2>1, FS_RemoveElement
<1> QED
  BY <1>3, <1>4, <1>5, <1>6

\* What every step does to the binding file.
Advances ==
    cache' # cache => /\ Generation(cache') = Generation(cache) + 1
                      /\ EventTime(cache') > EventTime(cache)
                      /\ SameProcess(cache, cache') /\ ~cache.active => ~cache'.active
BindingStep == BindingOK' /\ Advances /\ (cache # None => cache' # None)

LEMMA BindingStays ==
    ASSUME BindingOK, UNCHANGED binding
    PROVE  BindingStep
<1>1. UNCHANGED <<cache, hooks, lock, ran, clock>>
  BY DEF binding
<1>2. HooksOK'
  BY <1>1 DEF BindingOK, HooksOK, HookOK
<1>3. Counted'
  BY <1>1 DEF BindingOK, Counted, Busy
<1> QED
  BY <1>1, <1>2, <1>3 DEF BindingStep, BindingOK, Advances

LEMMA HookProcessesOK ==
    ASSUME WorldOK, NEW p \in Pids, proc[p] # None, NEW who \in HookProcesses(p)
    PROVE  who.pid \in Pids /\ who.start \in Nat
<1>1. proc[p].start \in Nat
  BY DEF WorldOK, Processes
<1>2. \A q \in Pids : registry[q] # None => registry[q].start \in Nat
  BY DEF WorldOK, Registered
<1> DEFINE found == RegistryMatches(proc[p].session)
           own == [pid |-> p, start |-> proc[p].start]
<1>3. \A q \in found : q \in Pids /\ registry[q] # None
  BY DEF RegistryMatches
<1>4. \/ who = own
      \/ \E q \in found : who = [pid |-> q, start |-> registry[q].start]
  BY DEF HookProcesses
<1> HIDE DEF found
<1> QED
  BY <1>1, <1>2, <1>3, <1>4

LEMMA HookStartsKeeps ==
    ASSUME WorldOK, BindingOK, NEW h \in Hooks, HookStarts(h)
    PROVE  BindingStep
<1>1. /\ cache \in Bindings \cup {None} /\ CacheOK(cache) /\ HooksOK
      /\ clock \in Nat /\ ran \in 0..MaxHooks /\ MaxHooks \in Nat
      /\ IsFiniteSet(Busy) /\ Generation(cache) + Cardinality(Busy) <= ran
  BY LimitAssumption DEF BindingOK, Counted
<1>2. /\ hooks[h] = NoHook /\ ran < MaxHooks /\ clock' = clock + 1 /\ ran' = ran + 1
      /\ UNCHANGED <<cache, lock>>
  BY DEF HookStarts
<1>3. PICK p \in Pids : p = fg /\ proc[p] # None /\ proc[p].kind = "cli"
  BY NoneAssumption DEF HookStarts, WorldOK
<1>4. proc[p].session \in Sessions /\ pane.row \in Nat /\ pane.alternate \in BOOLEAN
  BY <1>3, LimitAssumption DEF WorldOK, Processes
<1>4a. PICK who \in HookProcesses(fg), ended \in BOOLEAN,
            at \in IF proc[fg].session \in Codex THEN {pane.row, None} ELSE {None} :
          hooks' = [hooks EXCEPT ![h] =
              [pc |-> "waiting", session |-> proc[fg].session, pid |-> who.pid,
               start |-> who.start, ended |-> ended, at |-> at, alternate |-> pane.alternate,
               time |-> IF proc[fg].session \in Stamped THEN clock + 1 ELSE None]]
  BY Zenon DEF HookStarts
<1>5. /\ who \in HookProcesses(p)
      /\ at \in IF proc[p].session \in Codex THEN {pane.row, None} ELSE {None}
      /\ hooks' = [hooks EXCEPT ![h] =
              [pc |-> "waiting", session |-> proc[p].session, pid |-> who.pid,
               start |-> who.start, ended |-> ended, at |-> at, alternate |-> pane.alternate,
               time |-> IF proc[p].session \in Stamped THEN clock + 1 ELSE None]]
  BY <1>3, <1>4a
<1>6. who.pid \in Pids /\ who.start \in Nat
  BY <1>3, HookProcessesOK
<1> DEFINE time == IF proc[p].session \in Stamped THEN clock + 1 ELSE None
           e == [pc |-> "waiting", session |-> proc[p].session, pid |-> who.pid,
                 start |-> who.start, ended |-> ended, at |-> at, alternate |-> pane.alternate,
                 time |-> time]
<1>7. at \in Nat \cup {None} /\ time \in Nat \cup {None}
  BY <1>1, <1>4
<1> HIDE DEF time
<1>8. e \in EventType /\ e.pc = "waiting"
  BY <1>4, <1>6, <1>7 DEF EventType
<1>9. hooks' = [hooks EXCEPT ![h] = e]
  BY <1>5 DEF time
<1> HIDE DEF e
<1>10. lock # h
  BY <1>1, <1>2 DEF HooksOK, NoHook
<1>11. HooksOK'
  BY <1>1, <1>2, <1>8, <1>9, <1>10, HookMoves
<1>12. /\ IsFiniteSet(Busy') /\ Cardinality(Busy') \in Nat /\ Cardinality(Busy) \in Nat
       /\ Cardinality(Busy') <= Cardinality(Busy) + 1
  BY <1>1, <1>9, BusyGrows
<1>13. Generation(cache) \in Nat
  BY <1>1 DEF Generation, Bindings
<1>14. Counted'
  BY <1>1, <1>2, <1>12, <1>13 DEF Counted
<1> QED
  BY <1>1, <1>2, <1>11, <1>14 DEF BindingStep, BindingOK, Advances

LEMMA HookLocksKeeps ==
    ASSUME BindingOK, NEW h \in Hooks, HookLocks(h)
    PROVE  BindingStep
<1>1. /\ cache \in Bindings \cup {None} /\ CacheOK(cache) /\ HooksOK
      /\ clock \in Nat /\ ran \in 0..MaxHooks
      /\ IsFiniteSet(Busy) /\ Generation(cache) + Cardinality(Busy) <= ran
  BY DEF BindingOK, Counted
<1>2. /\ hooks[h].pc = "waiting" /\ lock = None /\ lock' = h /\ clock' = clock + 1
      /\ UNCHANGED <<cache, ran>>
  BY DEF HookLocks, LockFree
<1> DEFINE e == [hooks[h] EXCEPT !.time = IF hooks[h].time = None THEN clock + 1 ELSE hooks[h].time]
           q == [pc |-> "locked", existing |-> cache, event |-> e]
<1>3. hooks' = [hooks EXCEPT ![h] = q]
  BY DEF HookLocks
<1>4. hooks[h] \in EventType
  BY <1>1, <1>2, HookIs
<1>5. e \in EventType /\ e.time \in Nat
  <2>1. (IF hooks[h].time = None THEN clock + 1 ELSE hooks[h].time) \in Nat
    BY <1>1, <1>4 DEF EventType
  <2> QED
    BY <1>4, <2>1 DEF EventType
<1> HIDE DEF e
<1>6. /\ q \in [pc : {"locked"}, existing : {cache}, event : {x \in EventType : x.time \in Nat}]
      /\ q.pc = "locked"
  BY <1>5
<1> HIDE DEF q
<1>7. \A g \in Hooks : lock # g
  BY <1>2, NoneAssumption
<1>8. HooksOK'
  BY <1>1, <1>2, <1>3, <1>6, <1>7, HookMoves
<1>9. /\ IsFiniteSet(Busy') /\ Cardinality(Busy') \in Nat /\ Cardinality(Busy) \in Nat
      /\ hooks[h].pc # "idle" => Cardinality(Busy') <= Cardinality(Busy)
  BY <1>1, <1>3, BusyGrows
<1>10. Generation(cache) \in Nat
  BY <1>1 DEF Generation, Bindings
<1>11. Counted'
  BY <1>1, <1>2, <1>9, <1>10 DEF Counted
<1> QED
  BY <1>1, <1>2, <1>8, <1>11 DEF BindingStep, BindingOK, Advances

LEMMA HookKilledKeeps ==
    ASSUME BindingOK, NEW h \in Hooks, HookKilled(h)
    PROVE  BindingStep
<1>1. /\ cache \in Bindings \cup {None} /\ CacheOK(cache) /\ HooksOK
      /\ clock \in Nat /\ ran \in 0..MaxHooks
      /\ IsFiniteSet(Busy) /\ Generation(cache) + Cardinality(Busy) <= ran
  BY DEF BindingOK, Counted
<1>2. /\ hooks[h].pc = "locked" /\ hooks' = [hooks EXCEPT ![h] = NoHook]
      /\ lock' = (IF lock = h THEN None ELSE lock)
      /\ UNCHANGED <<cache, ran, clock>>
  BY DEF HookKilled
<1>3. lock = h /\ lock' = None /\ None \notin Hooks
  BY <1>1, <1>2, HookIs, NoneAssumption
<1>4. NoHook.pc = "idle"
  BY DEF NoHook
<1>5. HooksOK'
  BY <1>1, <1>2, <1>3, <1>4, HookMoves
<1>6. /\ IsFiniteSet(Busy') /\ Cardinality(Busy') \in Nat /\ Cardinality(Busy) \in Nat
      /\ hooks[h].pc # "idle" => Cardinality(Busy') <= Cardinality(Busy)
  BY <1>1, <1>2, BusyGrows
<1>7. Generation(cache) \in Nat
  BY <1>1 DEF Generation, Bindings
<1>8. Counted'
  BY <1>1, <1>2, <1>6, <1>7 DEF Counted
<1> QED
  BY <1>1, <1>2, <1>5, <1>8 DEF BindingStep, BindingOK, Advances

LEMMA BoundOK ==
    ASSUME NEW c \in Bindings \cup {None}, CacheOK(c), NEW e \in EventType, e.time \in Nat,
           Generation(c) + 1 <= MaxHooks
    PROVE  /\ Bound(c, e) \in Bindings /\ Bound(c, e) # None /\ CacheOK(Bound(c, e))
           /\ Generation(Bound(c, e)) = Generation(c) + 1 /\ EventTime(Bound(c, e)) = e.time
           /\ Bound(c, e).session = e.session /\ Bound(c, e).pid = e.pid
           /\ Bound(c, e).start = e.start /\ Bound(c, e).active = ~e.ended
<1> DEFINE b == Bound(c, e)
           rs == IF e.session \in Codex THEN Ranges(c, e) ELSE <<>>
           un == e.session \in Codex /\ e.at = None
<1>1. Generation(c) \in Nat /\ MaxHooks \in Nat
  BY LimitAssumption DEF Generation, Bindings
<1>2. e.session \in Sessions /\ e.pid \in Pids /\ e.start \in Nat /\ e.ended \in BOOLEAN
  BY DEF EventType
<1>3. rs \in Seq(Ranged) /\ RangeOK(rs) /\ (e.session \notin Codex => rs = <<>>)
  <2>1. CASE e.session \in Codex
    BY <2>1, RangesOK
  <2>2. CASE e.session \notin Codex
    <3>1. <<>> \in Seq(Ranged) /\ RangeOK(<<>>)
      BY LimitAssumption DEF RangeOK
    <3> QED
      BY <2>2, <3>1
  <2> QED
    BY <2>1, <2>2
<1>4. un \in BOOLEAN /\ (e.session \notin Codex => ~un)
  OBVIOUS
<1>5. b = [session |-> e.session, pid |-> e.pid, start |-> e.start, active |-> ~e.ended,
           generation |-> Generation(c) + 1, time |-> e.time, unavailable |-> un, ranges |-> rs]
  BY DEF Bound
<1> HIDE DEF rs, un, b
<1>6. /\ b.session = e.session /\ b.pid = e.pid /\ b.start = e.start /\ b.active = ~e.ended
      /\ b.generation = Generation(c) + 1 /\ b.time = e.time /\ b.ranges = rs
      /\ b.unavailable = un
  BY <1>5
<1>7. b \in Bindings
  BY <1>1, <1>2, <1>3, <1>4, <1>5 DEF Bindings
<1>8. b # None
  BY <1>7, NoneAssumption
<1>9. CacheOK(b)
  <2>1. e.session \in Claude => e.session \notin Codex
    BY ProviderAssumption
  <2>2. b.session \in Claude => ~b.unavailable /\ b.ranges = <<>>
    BY <1>3, <1>4, <1>6, <2>1
  <2>3. b.generation \in 1..MaxHooks
    BY <1>1, <1>6
  <2> QED
    BY <1>2, <1>3, <1>6, <2>2, <2>3 DEF CacheOK
<1> QED
  BY <1>6, <1>7, <1>8, <1>9 DEF b, Generation, EventTime

LEMMA HookWritesKeeps ==
    ASSUME BindingOK, NEW h \in Hooks, HookWrites(h)
    PROVE  BindingStep
<1>1. /\ cache \in Bindings \cup {None} /\ CacheOK(cache) /\ HooksOK
      /\ clock \in Nat /\ ran \in 0..MaxHooks /\ MaxHooks \in Nat
      /\ IsFiniteSet(Busy) /\ Generation(cache) + Cardinality(Busy) <= ran
  BY LimitAssumption DEF BindingOK, Counted
<1>2. /\ hooks[h].pc = "locked" /\ hooks' = [hooks EXCEPT ![h] = NoHook]
      /\ lock' = (IF lock = h THEN None ELSE lock)
      /\ UNCHANGED <<ran, clock>>
  BY DEF HookWrites
<1>3. PICK e \in EventType : e = hooks[h].event /\ e.time \in Nat
  BY <1>1, <1>2, HookIs
<1>4. hooks[h].existing = cache /\ lock = h /\ lock' = None /\ None \notin Hooks
  BY <1>1, <1>2, HookIs, NoneAssumption
<1>5. cache' = IF Skipped(cache, e) THEN cache ELSE Bound(cache, e)
  BY <1>3, <1>4 DEF HookWrites
<1>6. NoHook.pc = "idle"
  BY DEF NoHook
<1>7. HooksOK'
  <2>1. hooks' = [g \in Hooks |-> hooks'[g]]
        /\ hooks'[h] = NoHook /\ \A g \in Hooks \ {h} : hooks'[g] = hooks[g]
    BY <1>1, <1>2 DEF HooksOK
  <2>2. ASSUME NEW g \in Hooks \ {h} PROVE HookOK(g)' /\ (hooks'[g].pc = "locked" <=> lock' = g)
    <3>1. hooks[g].pc # "locked" /\ (hooks[g] = NoHook \/ hooks[g] \in EventType)
      <4>1. lock # g
        BY <1>4
      <4>2. hooks[g].pc # "locked"
        BY <1>1, <4>1 DEF HooksOK
      <4> QED
        BY <1>1, <4>2, HookIs
    <3> QED
      BY <1>4, <2>1, <3>1 DEF HookOK
  <2>3. HookOK(h)' /\ (hooks'[h].pc = "locked" <=> lock' = h)
    BY <1>4, <1>6, <2>1 DEF HookOK
  <2> QED
    BY <2>1, <2>2, <2>3 DEF HooksOK
<1>8. /\ IsFiniteSet(Busy') /\ Cardinality(Busy') \in Nat /\ Cardinality(Busy) \in Nat
      /\ Cardinality(Busy') = Cardinality(Busy) - 1
  BY <1>1, <1>2, <1>6, BusyGrows
<1>9. Generation(cache) \in Nat
  BY <1>1 DEF Generation, Bindings
<1>10. CASE Skipped(cache, e)
  <2>1. Counted'
    BY <1>1, <1>2, <1>5, <1>8, <1>9, <1>10 DEF Counted
  <2> QED
    BY <1>1, <1>5, <1>7, <1>10, <2>1 DEF BindingStep, BindingOK, Advances
<1>11. CASE ~Skipped(cache, e)
  <2>1. cache' = Bound(cache, e) /\ Generation(cache) + 1 <= MaxHooks
    BY <1>1, <1>5, <1>8, <1>9, <1>11
  <2>2. /\ cache' \in Bindings /\ cache' # None /\ CacheOK(cache')
        /\ Generation(cache') = Generation(cache) + 1 /\ EventTime(cache') = e.time
        /\ cache'.session = e.session /\ cache'.pid = e.pid
        /\ cache'.start = e.start /\ cache'.active = ~e.ended
    BY <1>1, <1>3, <2>1, BoundOK
  <2>3. e.time > EventTime(cache)
    <3>1. EventTime(cache) \in Nat
      BY <1>1 DEF EventTime, Bindings
    <3>2. ~(e.time <= EventTime(cache))
      BY <1>11 DEF Skipped, StaleEvent
    <3> QED
      BY <1>3, <3>1, <3>2
  <2>4. SameProcess(cache, cache') /\ ~cache.active => ~cache'.active
    <3>1. SameProcess(cache, cache') => SameProcess(cache, e)
      BY <2>2 DEF SameProcess
    <3>2. e.ended \in BOOLEAN
      BY DEF EventType
    <3> QED
      BY <1>11, <2>2, <3>1, <3>2 DEF Skipped, SessionEnded
  <2>5. Advances
    BY <2>2, <2>3, <2>4 DEF Advances
  <2>6. Counted'
    BY <1>1, <1>2, <1>8, <1>9, <2>2 DEF Counted
  <2> QED
    BY <1>7, <2>2, <2>5, <2>6 DEF BindingStep, BindingOK
<1> QED
  BY <1>10, <1>11

LEMMA HookKeeps ==
    ASSUME WorldOK, BindingOK, Hook
    PROVE  BindingStep /\ UNCHANGED <<world, lookup, events>>
<1>1. PICK h \in Hooks : HookStarts(h) \/ HookLocks(h) \/ HookWrites(h) \/ HookKilled(h)
  BY DEF Hook
<1>2. BindingStep
  BY <1>1, HookStartsKeeps, HookLocksKeeps, HookWritesKeeps, HookKilledKeeps
<1>3. UNCHANGED <<world, lookup, events>>
  BY <1>1 DEF HookStarts, HookLocks, HookWrites, HookKilled
<1> QED
  BY <1>2, <1>3

-----------------------------------------------------------------------------
(* What a selection knows while everything else moves *)

LEMMA GrewOn ==
    ASSUME NEW f \in Transcripts, NEW g \in Transcripts, NEW h \in Transcripts,
           Grew(f, g), Grew(g, h)
    PROVE  Grew(f, h) /\ (h = f => g = f)
<1>1. /\ f.ino \in Nat /\ g.ino \in Nat /\ h.ino \in Nat
      /\ Len(f.lines) \in Nat /\ Len(g.lines) \in Nat /\ Len(h.lines) \in Nat
  BY DEF Transcripts
<1>2. Grew(f, h)
  BY <1>1 DEF Grew
<1>3. ASSUME h = f PROVE f.ino = g.ino /\ f.lines = g.lines /\ (f.part <=> g.part)
  BY <1>1, <1>3 DEF Grew
<1>4. ASSUME h = f PROVE g = f
  BY <1>3, <1>4 DEF Transcripts
<1> QED
  BY <1>2, <1>4

\* A fence that was right stays so, and one that is kept was kept before.
LEMMA FenceStays ==
    ASSUME WorldOK, FilesGrow, NEW b \in Bounds, NEW fence \in Transcripts, FenceOK(b, fence)
    PROVE  FenceOK(b, fence)' /\ (Unchanged(b.session, fence)' => Unchanged(b.session, fence))
<1>1. b.session \in Sessions
  BY DEF Bounds
<1>2. file[b.session] \in Transcripts /\ file'[b.session] \in Transcripts
  BY <1>1 DEF WorldOK, FilesGrow, Grows
<1>3. Grew(fence, file[b.session]) /\ Grew(file[b.session], file'[b.session]) /\ ~fence.part
  BY <1>1 DEF FenceOK, FilesGrow, Grows
<1>4. /\ Grew(fence, file'[b.session])
      /\ file'[b.session] = fence => file[b.session] = fence
  BY <1>2, <1>3, GrewOn
<1> QED
  BY <1>3, <1>4 DEF FenceOK, Unchanged

LEMMA NobodyComesBack ==
    ASSUME WorldOK, Later, events' \in Nat, WorldOK', NEW b, b.pid \in Pids, b.start \in Nat,
           NoEarlier(b)
    PROVE  NoEarlier(b)'
<1>1. b.start <= events /\ (proc[b.pid] # None => proc[b.pid].start >= b.start)
  BY DEF NoEarlier
<1>2. events \in Nat /\ events' \in Nat /\ events <= events'
  BY DEF WorldOK, Later
<1>3. \/ proc'[b.pid] = None
      \/ proc[b.pid] # None /\ proc'[b.pid].start = proc[b.pid].start
      \/ proc'[b.pid].start > events
  BY DEF Later
<1>4. proc'[b.pid] # None => proc'[b.pid].start >= b.start
  <2> HAVE proc'[b.pid] # None
  <2>1. proc'[b.pid].start \in Nat
    BY DEF WorldOK, Processes
  <2> QED
    BY <1>1, <1>2, <1>3, <2>1
<1> QED
  BY <1>1, <1>2, <1>4 DEF NoEarlier

LEMMA SearchTypes ==
    ASSUME sel \in SelType
    PROVE  /\ sel.fences \in Seq(Fenced) /\ sel.workers \in Seq(Listings)
           /\ Searches \subseteq Fenced
           /\ \A f \in Fenced : f.bound \in Bounds /\ f.fence \in Transcripts /\ f.looked \in Nat
           /\ \A b \in Bounds : b.session \in Sessions /\ b.pid \in Pids /\ b.start \in Nat
           /\ \A w \in Listings : w.session \in Sessions /\ w.pid \in Pids /\ w.start \in Nat
           /\ \A i \in DOMAIN sel.fences : sel.fences[i] \in Searches
<1>1. sel.fences \in Seq(Fenced) /\ sel.workers \in Seq(Listings)
  BY DEF SelType
<1>2. Searches \subseteq Fenced /\ \A i \in DOMAIN sel.fences : sel.fences[i] \in Searches
  BY <1>1 DEF Searches, ToSet
<1> QED
  BY <1>1, <1>2 DEF Fenced, Bounds, Listings

\* What rests on the transcripts, for any step of the world.
LEMMA SearchesStay ==
    ASSUME WorldOK, FilesGrow, sel \in SelType, \A f \in Searches : SearchOK(f)
    PROVE  /\ \A f \in Searches : SearchOK(f)'
           /\ \A f \in Searches :
                 Unchanged(f.bound.session, f.fence)' => Unchanged(f.bound.session, f.fence)
<1> SUFFICES ASSUME NEW f \in Searches
             PROVE  /\ SearchOK(f)'
                    /\ Unchanged(f.bound.session, f.fence)' => Unchanged(f.bound.session, f.fence)
  OBVIOUS
<1>1. f.bound \in Bounds /\ f.fence \in Transcripts /\ SearchOK(f)
  BY SearchTypes
<1>2. /\ FenceOK(f.bound, f.fence)'
      /\ Unchanged(f.bound.session, f.fence)' => Unchanged(f.bound.session, f.fence)
  BY <1>1, FenceStays DEF SearchOK
<1> QED
  BY <1>1, <1>2 DEF SearchOK

LEMMA AtWorkersStay ==
    ASSUME WorldOK, WorldStep, sel \in SelType, AtWorkers, UNCHANGED sel
    PROVE  /\ AtWorkers'
           /\ sel.bound \in Bounds /\ ForWorker(sel.bound, At) => ForWorker(sel.bound, At)'
<1>1. Later /\ events' \in Nat /\ WorldOK'
  BY DEF WorldStep
<1>2. \A i \in DOMAIN sel.workers : NoEarlier(sel.workers[i])'
  <2> TAKE i \in DOMAIN sel.workers
  <2>1. sel.workers[i] \in Listings
    BY SearchTypes
  <2>2. sel.workers[i].pid \in Pids /\ sel.workers[i].start \in Nat /\ NoEarlier(sel.workers[i])
    BY <2>1, SearchTypes DEF AtWorkers
  <2> DEFINE w == sel.workers[i]
  <2>3. NoEarlier(w)'
    BY <1>1, <2>2, NobodyComesBack
  <2> QED
    BY <2>3
<1>3. ASSUME NEW b \in Bounds, NEW w, ForWorker(b, w)
      PROVE  ForWorker(b, w)'
  <2>1. NoEarlier(b) /\ b.pid \in Pids /\ b.start \in Nat
    BY <1>3, SearchTypes DEF ForWorker
  <2>2. NoEarlier(b)'
    BY <1>1, <2>1, NobodyComesBack
  <2> QED
    BY <1>3, <2>2 DEF ForWorker
<1>4. \A i \in DOMAIN sel.fences : sel.fences[i].bound \in Bounds
  BY SearchTypes
<1>5. \A i \in DOMAIN sel.fences : ForWorker(sel.fences[i].bound, sel.workers[i])'
  BY <1>3, <1>4 DEF AtWorkers
<1>6. AtWorkers'
  BY <1>2, <1>5 DEF AtWorkers
<1> QED
  BY <1>3, <1>6 DEF At

LEMMA SelStays ==
    ASSUME WorldOK, WorldStep, SelOK, cache # None => cache' # None, UNCHANGED sel
    PROVE  SelOK'
<1>1. CASE sel = NoSel
  BY <1>1 DEF SelOK, NoSel
<1>2. CASE sel.pc = "done" /\ DecisionSound
  BY <1>2 DEF SelOK, DecisionSound
<1>3. CASE sel \in SelType /\ Found
  <2>1. FilesGrow /\ Basis /\ OfPane /\ OfWorkers
    BY <1>3 DEF WorldStep, Found
  <2>2. /\ \A f \in Searches : SearchOK(f)'
        /\ \A f \in Searches :
              Unchanged(f.bound.session, f.fence)' => Unchanged(f.bound.session, f.fence)
    BY <1>3, <2>1, SearchesStay DEF Basis
  <2>3. Searches' = Searches
    BY DEF Searches
  <2>4. Told'
    BY <2>1, <2>3 DEF Basis, Told
  <2>5. Basis'
    BY <2>1, <2>2, <2>3, <2>4 DEF Basis
  <2>6. sel.bound \in Bounds /\ sel.fence \in Transcripts /\ FenceOK(sel.bound, sel.fence)
           => FenceOK(sel.bound, sel.fence)'
    BY <2>1, FenceStays
  <2>7. OfPane'
    BY <2>1, <2>6 DEF OfPane
  <2>8. sel.pc \in {"openWorker", "readWorker", "recheck"} => AtWorkers'
    BY <1>3, <2>1, AtWorkersStay DEF OfWorkers
  <2>9. sel.pc = "readWorker" => ForWorker(sel.bound, At)'
    BY <1>3, <2>1, AtWorkersStay DEF OfWorkers, OfPane
  <2>10. OfWorkers'
    BY <2>1, <2>8, <2>9 DEF OfWorkers
  <2>11. sel.pc \in {"answer", "answerWorker"} => Witnessed'
    <3> HAVE sel.pc \in {"answer", "answerWorker"}
    <3>1. Witnessed
      BY <1>3 DEF Found
    <3> QED
      BY <2>2, <2>3, <3>1 DEF Witnessed
  <2> QED
    BY <1>3, <2>5, <2>7, <2>10, <2>11 DEF SelOK, Found
<1> QED
  BY <1>1, <1>2, <1>3 DEF SelOK

-----------------------------------------------------------------------------
(* The steps of a selection *)

\* The rest of the world stands still while a selection takes a step.
LEMMA StandsStill ==
    ASSUME UNCHANGED <<world, binding, events>>
    PROVE  /\ UNCHANGED <<proc, fg, registry, pane, file, cache, events>>
           /\ \A b, fence : FenceOK(b, fence)' <=> FenceOK(b, fence)
           /\ \A b : NoEarlier(b)' <=> NoEarlier(b)
           /\ \A b, w : ForWorker(b, w)' <=> ForWorker(b, w)
           /\ \A s, fence : Unchanged(s, fence)' <=> Unchanged(s, fence)
<1>1. UNCHANGED <<proc, fg, registry, pane, file, cache, events>>
  BY DEF world, binding
<1>2. \A b, fence : FenceOK(b, fence)' <=> FenceOK(b, fence)
  BY <1>1 DEF FenceOK
<1>3. \A b : NoEarlier(b)' <=> NoEarlier(b)
  BY <1>1 DEF NoEarlier
<1>4. \A s, fence : Unchanged(s, fence)' <=> Unchanged(s, fence)
  BY <1>1 DEF Unchanged
<1> QED
  BY <1>1, <1>2, <1>3, <1>4 DEF ForWorker

\* A selection that is given no text, and says nothing it may not say.
LEMMA FinishesOK ==
    ASSUME sel \in SelType, NEW d, NEW t, Finish(d, t), d # "matched",
           (sel.snap.alternate /\ sel.hadCache) => d # "unowned"
    PROVE  SelOK'
<1>1. sel'.pc = "done" /\ sel'.decision = d
  BY DEF Finish
<1>2. sel'.alternate = sel.snap.alternate /\ sel'.hadCache = sel.hadCache
  BY DEF Finish
<1>3. (sel'.alternate /\ sel'.hadCache) => sel'.decision # "unowned"
  BY <1>1, <1>2
<1>4. DecisionSound'
  BY <1>1, <1>3 DEF DecisionSound
<1> QED
  BY <1>1, <1>4 DEF SelOK

LEMMA RejectOK == sel \in SelType /\ Reject => SelOK'
<1> HAVE sel \in SelType /\ Reject
<1>1. "rejected" # "matched" /\ "rejected" # "unowned"
  OBVIOUS
<1> QED
  BY <1>1, FinishesOK DEF Reject

\* What was found stays found.
LEMMA BasisStays ==
    ASSUME Basis, UNCHANGED <<world, binding, events>>, sel'.fences = sel.fences,
           sel'.texts = sel.texts, sel'.hadCache = sel.hadCache
    PROVE  Basis'
<1>1. Searches' = Searches
  BY DEF Searches
<1>2. \A f \in Searches : SearchOK(f)'
  BY StandsStill DEF Basis, SearchOK
<1>3. Told'
  BY <1>1 DEF Basis, Told
<1> QED
  BY <1>1, <1>2, <1>3, StandsStill DEF Basis

LEMMA SelectKeeps ==
    ASSUME WorldOK, SelOK, KnownOK, NEW row \in Nat, Select(row)
    PROVE  SelOK' /\ KnownOK' /\ UNCHANGED <<world, binding, events, indexes>>
<1>1. sel' = [pc |-> "detect", row |-> row, snap |-> pane, hadCache |-> cache # None,
              failed |-> FALSE, cache |-> None, bound |-> Unbound, fence |-> NoFence,
              workers |-> <<>>, fences |-> <<>>, texts |-> {}, witness |-> None]
  BY DEF Select
<1>2. UNCHANGED <<world, binding, events, indexes>> /\ KnownOK'
  BY DEF Select, KnownOK
<1>3. <<>> \in Seq(Listings) /\ <<>> \in Seq(Fenced) /\ pane \in [row : 0..MaxRow, alternate : BOOLEAN]
  BY DEF WorldOK
<1>4. sel' \in SelType
  BY <1>1, <1>3 DEF SelType, Working
<1>5. Searches' = {}
  BY <1>1 DEF Searches, ToSet
<1>6. Told'
  BY <1>1, <1>5 DEF Told
<1>7. cache' = cache
  BY <1>2 DEF binding
<1>8. Basis'
  BY <1>1, <1>5, <1>6, <1>7 DEF Basis
<1>9. OfPane' /\ OfWorkers'
  BY <1>1 DEF OfPane, OfWorkers
<1> QED
  BY <1>1, <1>2, <1>4, <1>8, <1>9 DEF SelOK, Found

\* A step on the way to a transcript, before there is any.
LEMMA EarlyKeeps ==
    ASSUME sel \in SelType, Found, UNCHANGED <<world, binding, events>>,
           sel.pc \in {"detect", "load", "resolve", "list"}, NEW next \in SelType, sel' = next,
           next.fences = sel.fences, next.texts = sel.texts, next.hadCache = sel.hadCache,
           next.pc \in {"load", "resolve", "open", "list"},
           next.pc = "open" => next.bound \in Bounds
    PROVE  SelOK'
<1>1. Basis'
  BY BasisStays DEF Found
<1>2. OfPane' /\ OfWorkers'
  BY DEF Found, OfPane, OfWorkers
<1> QED
  BY <1>1, <1>2 DEF SelOK, Found

LEMMA DetectKeeps ==
    ASSUME sel \in SelType, Found, Detect \/ DetectFails
    PROVE  SelOK'
<1>1. UNCHANGED <<world, binding, events>> /\ sel.pc = "detect"
  BY DEF Detect, DetectFails, Unmoved
<1>2. CASE Reject
  BY <1>2, RejectOK
<1>3. CASE ~Reject
  <2>1. PICK p \in {"load", "list"}, failed \in BOOLEAN :
            sel' = [[sel EXCEPT !.pc = p] EXCEPT !.failed = failed]
    <3>1. CASE Detect
      <4>1. \/ sel' = [sel EXCEPT !.pc = "load"]
            \/ sel' = [sel EXCEPT !.pc = "list"]
        BY <3>1 DEF Detect, Step
      <4>2. sel.failed \in BOOLEAN /\ \A p : [sel EXCEPT !.pc = p] =
                                            [[sel EXCEPT !.pc = p] EXCEPT !.failed = sel.failed]
        BY DEF SelType
      <4> QED
        BY <4>1, <4>2
    <3>2. CASE DetectFails
      BY <1>3, <3>2 DEF DetectFails, Step
    <3> QED
      BY <3>1, <3>2
  <2> DEFINE next == [[sel EXCEPT !.pc = p] EXCEPT !.failed = failed]
  <2>2. /\ next \in SelType /\ next.pc \in {"load", "list"}
        /\ next.fences = sel.fences /\ next.texts = sel.texts /\ next.hadCache = sel.hadCache
    BY DEF SelType, Working
  <2>3. sel' = next
    BY <2>1
  <2> HIDE DEF next
  <2>4. sel.pc \in {"detect", "load", "resolve", "list"}
    BY <1>1
  <2> QED
    BY <1>1, <2>2, <2>3, <2>4, EarlyKeeps
<1> QED
  BY <1>2, <1>3

\* A lookup with a binding file finds a session or refuses.
LEMMA ResolveOK ==
    ASSUME WorldOK, NEW c \in Bindings \cup {None}
    PROVE  /\ Resolve(c) \in Bounds \cup {Unbound, None}
           /\ c # None => Resolve(c) \in Bounds \cup {None}
           /\ Unbound \notin Bounds
<1> DEFINE found == ClaudeFound(c)
<1>1. Generation(c) \in Nat
  BY DEF Generation, Bindings
<1>2. ASSUME NEW p \in Pids, registry[p] # None
      PROVE  [session |-> registry[p].session, pid |-> p, start |-> registry[p].start,
              generation |-> Generation(c)] \in Bounds
  <2>1. registry[p] \in Registered
    BY <1>2 DEF WorldOK
  <2> QED
    BY <1>1, <2>1 DEF Registered, Bounds, Sessions
<1>3. ASSUME c # None
      PROVE  [session |-> c.session, pid |-> c.pid, start |-> c.start,
              generation |-> c.generation] \in Bounds
  BY <1>3 DEF Bindings, Bounds
<1>4. found \subseteq Bounds
  BY <1>2, <1>3 DEF ClaudeFound
<1>5. ASSUME Cardinality(found) = 1 \/ (found # {} /\ ~(Cardinality(found) > 1))
      PROVE  (CHOOSE b \in found : TRUE) \in Bounds
  <2>1. found # {}
    BY <1>5, FS_EmptySet
  <2> QED
    BY <1>4, <2>1
<1> HIDE DEF found
<1>6. Unbound \notin Bounds
  BY NoneAssumption DEF Unbound, Bounds
<1> QED
  BY <1>3, <1>5, <1>6 DEF Resolve, found

\* No row of an alternate screen is known not to be the provider's.
LEMMA OwnedOnAlternate ==
    ASSUME NEW session, NEW c, NEW snap, snap.alternate, NEW row,
           c.ranges = <<>> \/ 1 \in DOMAIN c.ranges
    PROVE  Owned(session, c, snap, row) = None \/ Owned(session, c, snap, row)
<1>1. CASE session \in Claude
  BY <1>1 DEF Owned
<1>2. CASE session \notin Claude /\ (c = None \/ c.unavailable \/ c.ranges = <<>>)
  BY <1>2 DEF Owned
<1>3. CASE session \notin Claude /\ ~(c = None \/ c.unavailable \/ c.ranges = <<>>)
  <2>1. Owned(session, c, snap, row) = None
    BY <1>3 DEF Owned
  <2> QED
    BY <2>1
<1> QED
  BY <1>1, <1>2, <1>3

LEMMA RangesStart == ASSUME NEW c \in Bindings PROVE c.ranges = <<>> \/ 1 \in DOMAIN c.ranges
  BY DEF Bindings

LEMMA UnownedOK ==
    ASSUME sel \in SelType, Finish("unowned", None), ~(sel.snap.alternate /\ sel.hadCache)
    PROVE  SelOK'
<1>1. "unowned" # "matched"
  OBVIOUS
<1> QED
  BY <1>1, FinishesOK

LEMMA LoadKeeps ==
    ASSUME sel \in SelType, Found, cache \in Bindings \cup {None}, Load
    PROVE  SelOK'
<1>1. UNCHANGED <<world, binding, events>> /\ sel.pc = "load"
  BY DEF Load, Unmoved
<1>2. CASE Reject
  BY <1>2, RejectOK
<1>3. CASE sel' = [sel EXCEPT !.pc = "resolve", !.cache = cache]
  <2> DEFINE next == [sel EXCEPT !.pc = "resolve", !.cache = cache]
  <2>1. /\ next \in SelType /\ next.pc \in {"load", "resolve"} /\ next.pc # "open"
        /\ next.fences = sel.fences /\ next.texts = sel.texts /\ next.hadCache = sel.hadCache
    <3>1. [sel EXCEPT !.pc = "resolve"] \in SelType
      BY DEF SelType, Working
    <3>2. next \in SelType
      BY <3>1 DEF SelType
    <3>3. /\ next.pc = "resolve"
          /\ next.fences = sel.fences /\ next.texts = sel.texts /\ next.hadCache = sel.hadCache
      BY DEF SelType
    <3> QED
      BY <3>2, <3>3
  <2>2. sel' = next
    BY <1>3
  <2> HIDE DEF next
  <2> QED
    BY <1>1, <2>1, <2>2, EarlyKeeps
<1>4. CASE ~Reject /\ Finish("unowned", None)
  <2> DEFINE owned == Owned(cache.session, cache, sel.snap, sel.row)
  <2>1. CASE cache.session \in Claude
    <3>1. ~sel.snap.alternate \/ sel' = [sel EXCEPT !.pc = "resolve", !.cache = cache]
      BY <1>4, <2>1 DEF Load, Step
    <3> QED
      BY <1>3, <1>4, <3>1, UnownedOK
  <2>2. CASE cache.session \notin Claude
    <3>1. \/ ~(owned = None \/ owned)
          \/ sel' = [sel EXCEPT !.pc = "resolve", !.cache = cache]
      BY <1>4, <2>2 DEF Load, Step
    <3>2. cache # None => (sel.snap.alternate => owned = None \/ owned)
      BY RangesStart, OwnedOnAlternate
    <3>3. sel.hadCache => cache # None
      BY DEF Found, Basis
    <3> HIDE DEF owned
    <3> QED
      BY <1>3, <1>4, <3>1, <3>2, <3>3, UnownedOK
  <2> QED
    BY <2>1, <2>2
<1> QED
  BY <1>2, <1>3, <1>4 DEF Load, Step

LEMMA ResolveBindingKeeps ==
    ASSUME WorldOK, sel \in SelType, Found, cache \in Bindings \cup {None}, ResolveBinding
    PROVE  SelOK'
<1> DEFINE b == Resolve(cache)
           owned == Owned(b.session, cache, sel.snap, sel.row)
<1>1. UNCHANGED <<world, binding, events>> /\ sel.pc = "resolve"
  BY DEF ResolveBinding, Unmoved
<1>2. CASE Reject
  BY <1>2, RejectOK
<1>3. CASE /\ b # None /\ b # Unbound
           /\ sel' = [sel EXCEPT !.pc = "open", !.cache = cache, !.bound = b]
  <2>1. b \in Bounds
    BY <1>3, ResolveOK
  <2> HIDE DEF b
  <2> DEFINE next == [sel EXCEPT !.pc = "open", !.cache = cache, !.bound = b]
  <2>2. /\ next \in SelType /\ next.pc = "open" /\ next.bound \in Bounds
        /\ next.fences = sel.fences /\ next.texts = sel.texts /\ next.hadCache = sel.hadCache
    BY <2>1 DEF SelType, Working
  <2>3. sel' = next
    BY <1>3
  <2> HIDE DEF next
  <2> QED
    BY <1>1, <2>2, <2>3, EarlyKeeps
<1>4. CASE ~Reject /\ Finish("unowned", None)
  <2>1. sel.hadCache => cache # None
    BY DEF Found, Basis
  <2>2. cache # None => b \in Bounds \cup {None}
    BY ResolveOK
  <2>3. cache # None => (sel.snap.alternate => owned = None \/ owned)
    BY RangesStart, OwnedOnAlternate
  <2>4. \/ b = None /\ RawFloor(sel.cache, sel.snap)
        \/ b # None /\ b = Unbound
        \/ b # None /\ ~(owned = None \/ owned)
        \/ b # None /\ b # Unbound /\ sel' = [sel EXCEPT !.pc = "open", !.cache = cache, !.bound = b]
    BY <1>4 DEF ResolveBinding, Step
  <2> HIDE DEF owned, b
  <2>5. CASE b = None /\ RawFloor(sel.cache, sel.snap)
    BY <1>4, <2>5, UnownedOK DEF RawFloor
  <2>6. CASE b # None /\ b = Unbound
    BY <1>4, <2>1, <2>2, <2>6, ResolveOK, UnownedOK
  <2> QED
    BY <1>3, <1>4, <2>1, <2>3, <2>4, <2>5, <2>6, UnownedOK
<1> QED
  BY <1>2, <1>3, <1>4 DEF ResolveBinding, Step

LEMMA AllParsed ==
    ASSUME NEW lines \in Seq(Lines)
    PROVE  /\ Parse(lines, 0, TRUE) \subseteq RecordType
           /\ \A r \in Parse(lines, 0, TRUE) : r.ordinal <= Len(lines)
<1>1. PICK z \in Nat : z = 0 /\ z \in 0..Len(lines)
  OBVIOUS
<1>2. PICK y \in BOOLEAN : y = TRUE
  OBVIOUS
<1>3. /\ Parse(lines, z, y) \subseteq RecordType
      /\ \A r \in Parse(lines, z, y) : r.ordinal \in (z + 1)..Len(lines)
  <2>1. /\ Ordered(Parse(lines, z, y))
        /\ \A r \in Parse(lines, z, y) : r.ordinal \in (z + 1)..Len(lines)
    BY <1>1, ParsedRecords
  <2> QED
    BY <2>1 DEF Ordered
<1>4. \A r \in Parse(lines, z, y) : r.ordinal <= Len(lines)
  <2> TAKE r \in Parse(lines, z, y)
  <2>1. r.ordinal \in (z + 1)..Len(lines)
    BY <1>3
  <2> QED
    BY <1>1, <2>1
<1> QED
  BY <1>1, <1>2, <1>3, <1>4

\* What an index brought up to its fence is searched for, the lines hold.
LEMMA SearchFinds ==
    ASSUME NEW b, NEW fence \in Transcripts, NEW x, Indexed(x, fence), x.ino = fence.ino,
           x.offset = Len(fence.lines), NEW g,
           g = [bound |-> b, fence |-> fence, looked |-> Cardinality(x.records)]
    PROVE  /\ g.looked \in Nat
           /\ Match(x.records) = "matched" =>
                 /\ Alone(Drawn(Lines0(g))) /\ MatchedText(x.records) \in Texts
                 /\ {r.text : r \in Drawn(Lines0(g))} = {MatchedText(x.records)}
           /\ Match(x.records) = "nothing" => Drawn(Lines0(g)) = {}
<1> DEFINE lines == fence.lines
           R == x.records
<1>1. /\ lines \in Seq(Lines) /\ Len(lines) \in 0..Len(lines)
      /\ Searched(R, lines, Len(lines)) /\ IsFiniteSet(R) /\ R \subseteq RecordType
  BY DEF Indexed, IndexType, Transcripts
<1>2. Ordered(R)
  BY <1>1 DEF Ordered, Searched
<1>3. Below(lines, Len(lines)) = Parse(lines, 0, TRUE)
  BY <1>1, AllParsed DEF Below
<1>4. g.looked = Cardinality(R) /\ g.fence = fence
  OBVIOUS
<1>5. Lines0(g) = AsWritten(R, lines)
  <2>1. Latest(Below(lines, Len(lines)), Cardinality(R)) = AsWritten(R, lines)
    BY <1>1, <1>2, SearchedAreLatest
  <2> QED
    BY <1>3, <1>4, <2>1 DEF Lines0
<1> HIDE DEF lines, R
<1>6. \A r \in R : /\ r.ordinal \in 1..Len(lines) /\ lines[r.ordinal] \in Lines
                   /\ Plain(lines, r.ordinal).text = r.text
                   /\ ~r.unsupported => ~Plain(lines, r.ordinal).unsupported
  <2> TAKE r \in R
  <2>1. /\ r.ordinal \in 1..Len(lines) /\ r.text = lines[r.ordinal].text
        /\ lines[r.ordinal].unsupported => r.unsupported
    BY <1>1 DEF Searched, Marked
  <2>2. lines[r.ordinal] \in Lines
    BY <1>1, <2>1
  <2> QED
    BY <2>1, <2>2 DEF Plain, Record, Lines
<1>7. Drawn(Lines0(g)) = {Plain(lines, r.ordinal) : r \in Drawn(R)}
  BY <1>5, <1>6 DEF Drawn, AsWritten
<1>8. g.looked \in Nat
  BY <1>1, <1>4, FS_CardinalityType
<1>9. ASSUME Match(R) = "nothing" PROVE Drawn(Lines0(g)) = {}
  BY <1>7, <1>9 DEF Match
<1>10. ASSUME Match(R) = "matched"
       PROVE  /\ Alone(Drawn(Lines0(g))) /\ MatchedText(R) \in Texts
              /\ {r.text : r \in Drawn(Lines0(g))} = {MatchedText(R)}
  <2>1. /\ Drawn(R) # {} /\ ~(Cardinality(Drawn(R)) > 1)
        /\ \A r \in Drawn(R) : ~r.unsupported
    BY <1>10 DEF Match
  <2>2. Drawn(R) \subseteq R /\ IsFiniteSet(Drawn(R)) /\ Cardinality(Drawn(R)) \in Nat
    BY <1>1, FS_Subset, FS_CardinalityType DEF Drawn
  <2>3. Cardinality(Drawn(R)) # 0
    BY <2>1, <2>2, FS_EmptySet
  <2>4. Cardinality(Drawn(R)) = 1
    BY <2>1, <2>2, <2>3
  <2>5. PICK r : Drawn(R) = {r}
    BY <2>2, <2>4, FS_Singleton
  <2>6. r \in R /\ ~r.unsupported /\ (CHOOSE q \in Drawn(R) : TRUE) = r
    BY <2>1, <2>2, <2>5
  <2>7. Drawn(Lines0(g)) = {Plain(lines, r.ordinal)}
    BY <1>7, <2>5
  <2>8. /\ Plain(lines, r.ordinal).text = r.text /\ r.text \in Texts
        /\ ~Plain(lines, r.ordinal).unsupported
    BY <1>1, <1>6, <2>6 DEF RecordType
  <2>9. MatchedText(R) = r.text
    BY <2>6 DEF MatchedText
  <2>10. Alone(Drawn(Lines0(g)))
    <3>1. IsFiniteSet({Plain(lines, r.ordinal)}) /\ Cardinality({Plain(lines, r.ordinal)}) = 1
      BY FS_Singleton
    <3>2. Alone({Plain(lines, r.ordinal)})
      <4> DEFINE q == Plain(lines, r.ordinal)
      <4>1. IsFiniteSet({q}) /\ Cardinality({q}) <= 1
        BY <3>1
      <4>2. ~q.unsupported
        BY <2>8
      <4> HIDE DEF q
      <4>3. Alone({q})
        BY <4>1, <4>2 DEF Alone
      <4> QED
        BY <4>3 DEF q
    <3> QED
      BY <2>7, <3>2
  <2> QED
    BY <2>7, <2>8, <2>9, <2>10
<1> QED
  BY <1>8, <1>9, <1>10 DEF R

LEMMA SeenOK ==
    ASSUME WorldOK, NEW f \in Fenced, NEW live \in BOOLEAN
    PROVE  /\ Seen(f, live) \in Witnesses
           /\ (SearchOK(f) /\ Unchanged(f.bound.session, f.fence)) =>
                 Seen(f, live) = [drawn |-> Drawn(Lines0(f)), whole |-> TRUE, live |-> live]
<1> DEFINE s == f.bound.session
           P == Parse(file[s].lines, 0, TRUE)
<1>1. s \in Sessions /\ file[s] \in Transcripts
  BY DEF Fenced, Bounds, WorldOK
<1>2. P \subseteq RecordType
  BY <1>1, AllParsed DEF Transcripts
<1>3. Drawn(Latest(P, f.looked)) \subseteq RecordType
  BY <1>2 DEF Drawn, Latest
<1>4. Seen(f, live) = [drawn |-> Drawn(Latest(P, f.looked)), whole |-> ~file[s].part, live |-> live]
  BY DEF Seen
<1>5. Unchanged(s, f.fence) => Latest(P, f.looked) = Lines0(f) /\ file[s].part = f.fence.part
  BY DEF Unchanged, Lines0
<1>6. SearchOK(f) => ~f.fence.part
  BY DEF SearchOK, FenceOK
<1>7. f.fence \in Transcripts
  BY DEF Fenced
<1> HIDE DEF P, s
<1>8. (SearchOK(f) /\ Unchanged(s, f.fence)) =>
          Seen(f, live) = [drawn |-> Drawn(Lines0(f)), whole |-> TRUE, live |-> live]
  BY <1>4, <1>5, <1>6, <1>7 DEF Transcripts
<1> QED
  BY <1>1, <1>3, <1>4, <1>8 DEF Witnesses, Transcripts, s

\* Text is given where the witness saw what was searched.
LEMMA AnswersOK ==
    ASSUME sel \in SelType, Basis, Witnessed, Cardinality(sel.texts) = 1, IsFiniteSet(sel.texts),
           \A f \in Searches : Unchanged(f.bound.session, f.fence),
           Finish("matched", CHOOSE t \in sel.texts : TRUE)
    PROVE  SelOK'
<1>1. PICK t : sel.texts = {t}
  BY FS_Singleton
<1>2. (CHOOSE u \in sel.texts : TRUE) = t
  BY <1>1
<1>3. /\ sel'.pc = "done" /\ sel'.decision = "matched" /\ sel'.text = t
      /\ sel'.witness = sel.witness
  BY <1>2 DEF Finish
<1>4. sel.witness = {[drawn |-> Drawn(Lines0(f)), whole |-> TRUE, live |-> TRUE] : f \in Searches}
  BY DEF Witnessed
<1>5. \A f \in Searches : Alone(Drawn(Lines0(f)))
  BY DEF Basis, SearchOK
<1>6. \A w \in sel'.witness : /\ w.live /\ w.whole
                              /\ \E f \in Searches : w.drawn = Drawn(Lines0(f))
  BY <1>3, <1>4
<1>7. UNION {w.drawn : w \in sel'.witness} = UNION {Drawn(Lines0(f)) : f \in Searches}
  <2>1. ASSUME NEW f \in Searches PROVE \E w \in sel'.witness : w.drawn = Drawn(Lines0(f))
    <3> DEFINE w == [drawn |-> Drawn(Lines0(f)), whole |-> TRUE, live |-> TRUE]
    <3>1. w \in sel'.witness
      BY <1>3, <1>4
    <3>2. w.drawn = Drawn(Lines0(f))
      OBVIOUS
    <3> HIDE DEF w
    <3> QED
      BY <3>1, <3>2
  <2> QED
    BY <1>6, <2>1
<1>8. {r.text : r \in UNION {w.drawn : w \in sel'.witness}} = {sel'.text}
  BY <1>1, <1>3, <1>7 DEF Basis, Told
<1>9. \A r \in UNION {w.drawn : w \in sel'.witness} : ~r.unsupported
  BY <1>5, <1>7 DEF Alone
<1>10. \A w \in sel'.witness : w.live /\ w.whole /\ Cardinality(w.drawn) <= 1
  BY <1>5, <1>6 DEF Alone
<1>11. DecisionSound'
  BY <1>3, <1>8, <1>9, <1>10 DEF DecisionSound
<1> QED
  BY <1>3, <1>11 DEF SelOK

LEMMA StoresKeep ==
    ASSUME IndexesOK, NEW x, Indexed(x, file[x.key[1]]), indexes' = Stored(x),
           UNCHANGED <<world, binding, events>>
    PROVE  IndexesOK'
<1>1. IndexesAre(Stored(x))
  BY StoredOK
<1>2. file' = file
  BY StandsStill
<1> DEFINE q == Stored(x)
<1>3. IndexesAre(q)
  BY <1>1
<1>4. indexes' = q
  OBVIOUS
<1> HIDE DEF q
<1> QED
  BY <1>2, <1>3, <1>4 DEF IndexesOK, IndexesAre

LEMMA OpenKeeps ==
    ASSUME WorldOK, IndexesOK, sel \in SelType, Found, Open
    PROVE  IndexesOK' /\ SelOK'
<1> DEFINE b == sel.bound
           s == b.session
<1>1. UNCHANGED <<world, binding, events>> /\ sel.pc = "open" /\ indexes' = Stored(IndexFor(b))
  BY DEF Open, Unmoved
<1>2. b \in Bounds /\ s \in Sessions /\ sel.fences = <<>>
  BY <1>1 DEF Found, OfPane, Bounds
<1>3. IndexesOK'
  <2>1. Indexed(IndexFor(b), file[s]) /\ IndexFor(b).key = Key(b)
    BY <1>2, IndexForOK
  <2>2. IndexFor(b).key[1] = s
    BY <2>1 DEF Key
  <2> QED
    BY <1>1, <2>1, <2>2, StoresKeep
<1>4. CASE Reject
  BY <1>3, <1>4, RejectOK
<1>5. CASE Opens(s) /\ sel' = [sel EXCEPT !.pc = "read", !.fence = file[s]]
  <2>1. file[s] \in Transcripts /\ ~file[s].part
    BY <1>2, <1>5 DEF WorldOK, Opens
  <2>2. FenceOK(b, file[s])
    BY <2>1 DEF FenceOK, Grew
  <2>3. PICK fence \in Transcripts :
            FenceOK(b, fence) /\ sel' = [sel EXCEPT !.pc = "read", !.fence = fence]
    BY <1>5, <2>1, <2>2
  <2>4. /\ sel' \in SelType /\ sel'.pc = "read" /\ sel'.bound = b /\ sel'.fence = fence
        /\ sel'.fences = sel.fences /\ sel'.texts = sel.texts /\ sel'.hadCache = sel.hadCache
    BY <2>3 DEF SelType, Working
  <2>5. Basis'
    BY <1>1, <2>4, BasisStays DEF Found
  <2>6. PICK v : v = b
    OBVIOUS
  <2>7. FenceOK(v, fence)'
    BY <1>1, <2>3, <2>6, StandsStill
  <2>8. OfPane' /\ OfWorkers'
    BY <1>2, <2>3, <2>4, <2>6, <2>7 DEF OfPane, OfWorkers, FenceOK
  <2> QED
    BY <1>3, <2>4, <2>5, <2>8 DEF SelOK, Found
<1> QED
  BY <1>3, <1>4, <1>5 DEF Open, Step

\* An index brought up to a fence that still holds, and searched.
LEMMA ReadsOK ==
    ASSUME WorldOK, IndexesOK, sel \in SelType, sel.bound \in Bounds, sel.fence \in Transcripts,
           FenceOK(sel.bound, sel.fence), NEW x,
           x = Updated(IndexFor(sel.bound), sel.bound.session, sel.fence)
    PROVE  /\ Indexed(x, file[x.key[1]])
           /\ (/\ Scanned(IndexFor(sel.bound), sel.bound.session, sel.fence) # None
               /\ Unchanged(sel.bound.session, sel.fence)) =>
                 /\ Looked(sel.bound, x.records) \in Fenced
                 /\ Match(x.records) = "matched" =>
                       /\ SearchOK(Looked(sel.bound, x.records))
                       /\ MatchedText(x.records) \in Texts
                       /\ {r.text : r \in Drawn(Lines0(Looked(sel.bound, x.records)))}
                             = {MatchedText(x.records)}
                 /\ Match(x.records) = "nothing" =>
                       /\ SearchOK(Looked(sel.bound, x.records))
                       /\ Drawn(Lines0(Looked(sel.bound, x.records))) = {}
<1> DEFINE b == sel.bound
           s == b.session
           fence == sel.fence
           g == Looked(b, x.records)
<1>1. s \in Sessions /\ file[s] \in Transcripts
  BY DEF WorldOK, Bounds
<1>2. Indexed(IndexFor(b), file[s]) /\ IndexFor(b).key = Key(b)
  BY IndexForOK
<1>3. /\ Indexed(x, file[s]) /\ x.key = Key(b)
      /\ (Scanned(IndexFor(b), s, fence) # None /\ Unchanged(s, fence)) =>
            x.ino = fence.ino /\ x.offset = Len(fence.lines)
  BY <1>1, <1>2, UpdatedOK
<1>4. x.key[1] = s
  BY <1>3 DEF Key
<1>5. g = [bound |-> b, fence |-> fence, looked |-> Cardinality(x.records)]
  BY DEF Looked
<1>6. ASSUME Scanned(IndexFor(b), s, fence) # None, Unchanged(s, fence)
      PROVE  /\ g \in Fenced
             /\ Match(x.records) = "matched" =>
                   /\ SearchOK(g) /\ MatchedText(x.records) \in Texts
                   /\ {r.text : r \in Drawn(Lines0(g))} = {MatchedText(x.records)}
             /\ Match(x.records) = "nothing" => SearchOK(g) /\ Drawn(Lines0(g)) = {}
  <2>1. Indexed(x, fence) /\ x.ino = fence.ino /\ x.offset = Len(fence.lines)
    BY <1>3, <1>6 DEF Unchanged
  <2>2. fence \in Transcripts /\ b \in Bounds /\ FenceOK(b, fence)
    OBVIOUS
  <2> HIDE DEF b, fence, g
  <2>3. /\ g.looked \in Nat
        /\ Match(x.records) = "matched" =>
              /\ Alone(Drawn(Lines0(g))) /\ MatchedText(x.records) \in Texts
              /\ {r.text : r \in Drawn(Lines0(g))} = {MatchedText(x.records)}
        /\ Match(x.records) = "nothing" => Drawn(Lines0(g)) = {}
    BY <1>5, <2>1, <2>2, SearchFinds
  <2>4. g \in Fenced /\ g.bound = b /\ g.fence = fence
    BY <1>5, <2>2, <2>3 DEF Fenced
  <2>5. Alone({})
    BY FS_EmptySet DEF Alone
  <2>6. Match(x.records) = "nothing" => Alone(Drawn(Lines0(g)))
    BY <2>3, <2>5
  <2> QED
    BY <2>2, <2>3, <2>4, <2>6 DEF SearchOK
<1> QED
  BY <1>3, <1>4, <1>6

LEMMA ToSetOne == ASSUME NEW g PROVE ToSet(<<g>>) = {g}
<1>1. DOMAIN <<g>> = {1} /\ <<g>>[1] = g
  OBVIOUS
<1> QED
  BY <1>1 DEF ToSet

\* One more search: what it found and what was found before.
LEMMA OneSearch ==
    ASSUME NEW g, NEW t, {r.text : r \in Drawn(Lines0(g))} = {t}
    PROVE  {r.text : r \in UNION {Drawn(Lines0(f)) : f \in {g}}} = {t}
<1>1. UNION {Drawn(Lines0(f)) : f \in {g}} = Drawn(Lines0(g))
  OBVIOUS
<1> QED
  BY <1>1

LEMMA ReadKeeps ==
    ASSUME WorldOK, IndexesOK, sel \in SelType, Found, Read
    PROVE  IndexesOK' /\ SelOK'
<1>1. UNCHANGED <<world, binding, events>> /\ sel.pc = "read"
  BY DEF Read, Unmoved
<1>2. sel.bound \in Bounds /\ sel.fence \in Transcripts /\ FenceOK(sel.bound, sel.fence)
  BY <1>1 DEF Found, OfPane
<1>3. PICK x : x = Updated(IndexFor(sel.bound), sel.bound.session, sel.fence)
  OBVIOUS
<1>4. indexes' = Stored(x) /\ Indexed(x, file[x.key[1]])
  BY <1>2, <1>3, ReadsOK DEF Read
<1>5. IndexesOK'
  BY <1>1, <1>4, StoresKeep
<1>6. CASE Reject
  BY <1>5, <1>6, RejectOK
<1>7. CASE /\ Scanned(IndexFor(sel.bound), sel.bound.session, sel.fence) # None
           /\ Unchanged(sel.bound.session, sel.fence) /\ Match(x.records) = "matched"
           /\ sel' = [sel EXCEPT !.pc = "rebind", !.texts = {MatchedText(x.records)},
                                 !.fences = <<Looked(sel.bound, x.records)>>]
  <2>1. PICK g, t : g = Looked(sel.bound, x.records) /\ t = MatchedText(x.records)
    OBVIOUS
  <2>2. /\ g \in Fenced /\ SearchOK(g) /\ t \in Texts
        /\ {r.text : r \in Drawn(Lines0(g))} = {t}
    BY <1>2, <1>3, <1>7, <2>1, ReadsOK
  <2>3. sel' = [sel EXCEPT !.pc = "rebind", !.texts = {t}, !.fences = <<g>>]
    BY <1>7, <2>1
  <2>4. /\ sel' \in SelType /\ sel'.pc = "rebind" /\ sel'.bound = sel.bound
        /\ sel'.fence = sel.fence
        /\ sel'.fences = <<g>> /\ sel'.texts = {t} /\ sel'.hadCache = sel.hadCache
    <3>1. <<g>> \in Seq(Fenced) /\ {t} \in SUBSET Texts
      BY <2>2
    <3> QED
      BY <2>3, <3>1 DEF SelType, Working
  <2>5. Searches' = {g}
    BY <2>4, ToSetOne DEF Searches
  <2>6. SearchOK(g)'
    BY <1>1, <2>2, StandsStill DEF SearchOK
  <2>7. Told'
    BY <2>2, <2>4, <2>5, OneSearch DEF Told
  <2>8. Basis'
    BY <1>1, <2>4, <2>5, <2>6, <2>7, StandsStill DEF Basis, Found
  <2>9. g.bound = sel.bound /\ g.fence = sel.fence
    BY <2>1 DEF Looked
  <2>10. IsFiniteSet({t}) /\ Cardinality({t}) = 1 /\ Len(<<g>>) = 1 /\ <<g>>[1] = g
    BY FS_Singleton
  <2>11. OfPane' /\ OfWorkers'
    BY <1>2, <2>4, <2>9, <2>10 DEF OfPane, OfWorkers
  <2> QED
    BY <1>5, <2>4, <2>8, <2>11 DEF SelOK, Found
<1> QED
  BY <1>3, <1>5, <1>6, <1>7 DEF Read, Step

\* With every search goes what the witness saw, where it saw the same.
LEMMA WitnessOfOne ==
    ASSUME NEW f, NEW S, S = {f}
    PROVE  {[drawn |-> Drawn(Lines0(g)), whole |-> TRUE, live |-> TRUE] : g \in S}
              = {[drawn |-> Drawn(Lines0(f)), whole |-> TRUE, live |-> TRUE]}
OBVIOUS

LEMMA RebindKeeps ==
    ASSUME WorldOK, sel \in SelType, Found, Rebind
    PROVE  SelOK'
<1>1. UNCHANGED <<world, binding, events>> /\ sel.pc = "rebind"
  BY DEF Rebind, Unmoved
<1>2. CASE Reject
  BY <1>2, RejectOK
<1>3. CASE SameBinding(sel.bound) /\ ~Reject
  <2>1. /\ Len(sel.fences) = 1 /\ sel.bound \in Bounds
        /\ IsFiniteSet(sel.texts) /\ Cardinality(sel.texts) = 1
        /\ sel.fences[1].bound = sel.bound /\ sel.fences[1].fence = sel.fence
        /\ sel.fences \in Seq(Fenced)
    BY <1>1, SearchTypes DEF Found, OfPane
  <2>2. PICK f \in Fenced : sel.fences = <<f>>
    BY <2>1
  <2>3. PICK w \in Witnesses : w = Seen(f, TRUE)
    <3>1. PICK y \in BOOLEAN : y = TRUE
      OBVIOUS
    <3> QED
      BY <3>1, SeenOK
  <2>4. sel' = [sel EXCEPT !.pc = "answer", !.witness = {w}]
    <3>1. (Resolve(cache) = sel.bound) = TRUE
      BY <1>3 DEF SameBinding
    <3>2. Seen(sel.fences[1], Resolve(cache) = sel.bound) = w
      <4>1. sel.fences[1] = f
        BY <2>2
      <4> QED
        BY <2>3, <3>1, <4>1 DEF Seen
    <3> QED
      BY <1>3, <3>2 DEF Rebind, Step
  <2>5. /\ sel' \in SelType /\ sel'.pc = "answer" /\ sel'.bound = sel.bound
        /\ sel'.fence = sel.fence /\ sel'.witness = {w}
        /\ sel'.fences = sel.fences /\ sel'.texts = sel.texts /\ sel'.hadCache = sel.hadCache
    <3>1. [sel EXCEPT !.pc = "answer"] \in SelType
      BY DEF SelType, Working
    <3>2. sel' \in SelType
      BY <2>4, <3>1 DEF SelType
    <3>3. /\ sel'.pc = "answer" /\ sel'.bound = sel.bound
          /\ sel'.fence = sel.fence /\ sel'.witness = {w}
          /\ sel'.fences = sel.fences /\ sel'.texts = sel.texts /\ sel'.hadCache = sel.hadCache
      BY <2>4 DEF SelType
    <3> QED
      BY <3>2, <3>3
  <2>6. Basis'
    BY <1>1, <2>5, BasisStays DEF Found
  <2>7. OfPane' /\ OfWorkers'
    BY <2>1, <2>5 DEF OfPane, OfWorkers
  <2>8. Searches = {f} /\ Searches' = {f}
    BY <2>2, <2>5, ToSetOne DEF Searches
  <2>9. Witnessed'
    <3>1. Unchanged(f.bound.session, f.fence) =>
             w = [drawn |-> Drawn(Lines0(f)), whole |-> TRUE, live |-> TRUE]
      <4>1. SearchOK(f)
        BY <2>8 DEF Found, Basis
      <4>2. PICK y \in BOOLEAN : y = TRUE
        OBVIOUS
      <4> QED
        BY <2>3, <4>1, <4>2, SeenOK
    <3>2. Unchanged(f.bound.session, f.fence)' => Unchanged(f.bound.session, f.fence)
      BY <1>1, StandsStill
    <3> QED
      BY <2>5, <2>8, <3>1, <3>2, WitnessOfOne DEF Witnessed
  <2> QED
    BY <2>5, <2>6, <2>7, <2>9 DEF SelOK, Found
<1> QED
  BY <1>2, <1>3 DEF Rebind

LEMMA AnswerKeeps ==
    ASSUME sel \in SelType, Found, Answer
    PROVE  SelOK'
<1>1. sel.pc = "answer"
  BY DEF Answer
<1>2. CASE Reject
  BY <1>2, RejectOK
<1>3. CASE StillSo(sel.bound, sel.fence) /\ Finish("matched", CHOOSE t \in sel.texts : TRUE)
  <2>1. /\ Len(sel.fences) = 1 /\ sel.fences \in Seq(Fenced)
        /\ IsFiniteSet(sel.texts) /\ Cardinality(sel.texts) = 1
        /\ sel.fences[1].bound = sel.bound /\ sel.fences[1].fence = sel.fence
    BY <1>1, SearchTypes DEF Found, OfPane
  <2>2. PICK f \in Fenced : sel.fences = <<f>> /\ f.bound = sel.bound /\ f.fence = sel.fence
    BY <2>1
  <2>3. Searches = {f}
    BY <2>2, ToSetOne DEF Searches
  <2>4. Unchanged(f.bound.session, f.fence)
    BY <1>3, <2>2 DEF StillSo
  <2> QED
    BY <1>1, <1>3, <2>1, <2>3, <2>4, AnswersOK DEF Found
<1> QED
  BY <1>2, <1>3 DEF Answer

\* The agents' viewer: its workers, one after the other.
LEMMA ListingOK ==
    ASSUME WorldOK
    PROVE  /\ Listing \subseteq Listings /\ IsFiniteSet(Listing)
           /\ \A w \in Listing : /\ NoEarlier(w) /\ proc[w.pid] # None
                                 /\ proc[w.pid].start = w.start
<1>1. ASSUME NEW p \in Workers
      PROVE  /\ p \in Pids /\ proc[p] # None /\ proc[p].start \in Nat /\ proc[p].start <= events
             /\ proc[p].session \in Sessions
  <2>1. p \in Pids /\ proc[p] # None /\ proc[p].kind = "worker"
    BY DEF Workers
  <2>2. proc[p] \in Processes
    BY <2>1 DEF WorldOK
  <2> QED
    BY <2>1, <2>2 DEF WorldOK, Processes
<1> DEFINE g == [p \in Workers |-> [session |-> proc[p].session, pid |-> p, start |-> proc[p].start]]
<1>2. Listing = {g[p] : p \in Workers} /\ g = [p \in Workers |-> g[p]]
  BY DEF Listing
<1>3. IsFiniteSet(Workers)
  <2>1. Workers \subseteq Pids
    BY DEF Workers
  <2> QED
    BY <2>1, ProviderAssumption, FS_Subset
<1>4. \A p \in Workers : g[p] \in Listings /\ g[p].pid = p /\ g[p].start = proc[p].start
  BY <1>1 DEF Listings
<1> HIDE DEF g
<1>5. g \in Surjection(Workers, Listing)
  BY <1>2 DEF Surjection
<1>6. IsFiniteSet(Listing)
  BY <1>3, <1>5, FS_Surjection
<1>7. Listing \subseteq Listings
  BY <1>2, <1>4
<1>8. \A w \in Listing : NoEarlier(w) /\ proc[w.pid] # None /\ proc[w.pid].start = w.start
  <2> TAKE w \in Listing
  <2>1. PICK p \in Workers : w = g[p]
    BY <1>2
  <2>2. w.pid = p /\ w.start = proc[p].start
    BY <1>4, <2>1
  <2>3. proc[p] # None /\ proc[p].start \in Nat /\ proc[p].start <= events
    BY <1>1
  <2> QED
    BY <2>2, <2>3 DEF NoEarlier
<1> QED
  BY <1>6, <1>7, <1>8

LEMMA NothingTold == sel \in SelType /\ Told /\ sel.fences = <<>> => sel.texts = {}
<1> HAVE sel \in SelType /\ Told /\ sel.fences = <<>>
<1>1. Searches = {}
  BY DEF Searches, ToSet
<1> QED
  BY <1>1 DEF Told

LEMMA ListKeeps ==
    ASSUME WorldOK, sel \in SelType, Found, List
    PROVE  SelOK'
<1>1. UNCHANGED <<world, binding, events>> /\ sel.pc = "list"
  BY DEF List, Unmoved
<1>2. CASE Reject
  BY <1>2, RejectOK
<1>3. CASE ~Reject
  <2>1. PICK order \in SetToSeqs(Listing) :
            Listing # {} /\ sel' = [sel EXCEPT !.pc = "openWorker", !.workers = order]
    BY <1>3 DEF List, Step
  <2> DEFINE n == Cardinality(Listing)
  <2>2. n \in Nat /\ n # 0
    BY <2>1, ListingOK, FS_CardinalityType, FS_EmptySet
  <2>3. order \in [1..n -> Listing]
    BY DEF SetToSeqs
  <2> HIDE DEF n
  <2>4. order \in Seq(Listings) /\ Len(order) = n /\ \A i \in DOMAIN order : order[i] \in Listing
    BY <2>2, <2>3, ListingOK
  <2>5. \A i \in DOMAIN order : NoEarlier(order[i])
    BY <2>4, ListingOK
  <2>6. sel.fences = <<>>
    BY <1>1 DEF Found, OfPane
  <2>7. sel.texts = {}
    BY <2>6, NothingTold DEF Found, Basis
  <2>8. /\ sel' \in SelType /\ sel'.pc = "openWorker" /\ sel'.workers = order
        /\ sel'.fences = sel.fences /\ sel'.texts = sel.texts /\ sel'.hadCache = sel.hadCache
    BY <2>1, <2>4 DEF SelType, Working
  <2>9. Basis'
    BY <1>1, <2>8, BasisStays DEF Found
  <2>10. Len(sel'.fences) = 0 /\ DOMAIN sel'.fences = {}
    BY <2>6, <2>8
  <2>11. \A i \in DOMAIN order : NoEarlier(order[i])'
    BY <1>1, <2>5, StandsStill
  <2>12. AtWorkers'
    BY <2>2, <2>4, <2>8, <2>10, <2>11 DEF AtWorkers, NoEarlier
  <2>13. IsFiniteSet(sel'.texts) /\ Cardinality(sel'.texts) <= 1
    BY <2>7, <2>8, FS_EmptySet
  <2>14. OfPane' /\ OfWorkers'
    BY <2>2, <2>4, <2>8, <2>10, <2>12, <2>13 DEF OfPane, OfWorkers
  <2> QED
    BY <2>8, <2>9, <2>14 DEF SelOK, Found
<1> QED
  BY <1>2, <1>3

LEMMA OpenWorkerKeeps ==
    ASSUME WorldOK, sel \in SelType, Found, OpenWorker
    PROVE  SelOK'
<1>1. UNCHANGED <<world, binding, events>> /\ sel.pc = "openWorker"
  BY DEF OpenWorker, Unmoved
<1>2. CASE Reject
  BY <1>2, RejectOK
<1>3. CASE /\ proc[At.pid] # None /\ Opens(At.session)
           /\ sel' = [sel EXCEPT !.pc = "readWorker", !.bound = WorkerBinding(At),
                                 !.fence = file[At.session]]
  <2>1. AtWorkers /\ Len(sel.fences) < Len(sel.workers)
    BY <1>1 DEF Found, OfWorkers
  <2>2. sel.workers \in Seq(Listings) /\ sel.fences \in Seq(Fenced)
    BY SearchTypes
  <2>3. Len(sel.fences) + 1 \in DOMAIN sel.workers
    BY <2>1, <2>2
  <2>4. PICK w \in Listings : w = At /\ NoEarlier(w)
    BY <2>1, <2>2, <2>3 DEF At, AtWorkers
  <2>5. w.session \in Sessions /\ w.pid \in Pids /\ w.start \in Nat
    BY SearchTypes
  <2>6. proc[w.pid].start \in Nat /\ proc[w.pid].start <= events /\ proc[w.pid] # None
    <3>1. proc[w.pid] \in Processes
      BY <1>3, <2>4, <2>5 DEF WorldOK
    <3> QED
      BY <1>3, <2>4, <2>5, <3>1 DEF WorldOK, Processes
  <2>7. PICK b : b = WorkerBinding(w)
    OBVIOUS
  <2>8. /\ b \in Bounds /\ b.session = w.session /\ b.pid = w.pid
        /\ b.start = proc[w.pid].start
    BY <2>5, <2>6, <2>7 DEF WorkerBinding, Bounds
  <2>9. ForWorker(b, w)
    BY <2>4, <2>5, <2>6, <2>8 DEF ForWorker, NoEarlier
  <2>10. PICK fence \in Transcripts : fence = file[w.session] /\ FenceOK(b, fence)
    <3>1. file[w.session] \in Transcripts /\ ~file[w.session].part
      BY <1>3, <2>4, <2>5 DEF WorldOK, Opens
    <3>2. FenceOK(b, file[w.session])
      BY <2>8, <3>1 DEF FenceOK, Grew
    <3> QED
      BY <3>1, <3>2
  <2>11. sel' = [sel EXCEPT !.pc = "readWorker", !.bound = b, !.fence = fence]
    BY <1>3, <2>4, <2>7, <2>10
  <2>12. /\ sel' \in SelType /\ sel'.pc = "readWorker" /\ sel'.bound = b /\ sel'.fence = fence
         /\ sel'.workers = sel.workers
         /\ sel'.fences = sel.fences /\ sel'.texts = sel.texts /\ sel'.hadCache = sel.hadCache
    BY <2>8, <2>11 DEF SelType, Working
  <2>13. Basis'
    BY <1>1, <2>12, BasisStays DEF Found
  <2>14. FenceOK(b, fence)' /\ ForWorker(b, w)'
    BY <1>1, <2>9, <2>10, StandsStill
  <2>15. OfPane'
    BY <2>8, <2>12, <2>14 DEF OfPane, FenceOK
  <2>16. AtWorkers'
    BY <1>1, <2>1, <2>12, StandsStill DEF AtWorkers, ForWorker, NoEarlier
  <2>17. At' = w
    BY <2>4, <2>12 DEF At
  <2>18. ForWorker(sel.bound, At)'
    BY <2>12, <2>14, <2>17 DEF ForWorker, NoEarlier
  <2>19. OfWorkers'
    BY <1>1, <2>12, <2>16, <2>18 DEF OfWorkers, Found
  <2> QED
    BY <2>12, <2>13, <2>15, <2>19 DEF SelOK, Found
<1> QED
  BY <1>2, <1>3 DEF OpenWorker, Step

LEMMA Appended ==
    ASSUME NEW S, NEW q \in Seq(S), NEW x \in S
    PROVE  /\ Append(q, x) \in Seq(S) /\ Len(Append(q, x)) = Len(q) + 1
           /\ DOMAIN Append(q, x) = 1..(Len(q) + 1)
           /\ Append(q, x)[Len(q) + 1] = x
           /\ \A i \in DOMAIN q : Append(q, x)[i] = q[i]
           /\ ToSet(Append(q, x)) = ToSet(q) \cup {x}
<1>1. /\ Append(q, x) \in Seq(S) /\ Len(Append(q, x)) = Len(q) + 1
      /\ DOMAIN Append(q, x) = 1..(Len(q) + 1) /\ DOMAIN q = 1..Len(q)
      /\ Append(q, x)[Len(q) + 1] = x
      /\ \A i \in DOMAIN q : Append(q, x)[i] = q[i]
  OBVIOUS
<1>2. DOMAIN Append(q, x) = DOMAIN q \cup {Len(q) + 1}
  BY <1>1
<1> DEFINE a == Append(q, x)
<1>3. /\ DOMAIN a = DOMAIN q \cup {Len(q) + 1} /\ a[Len(q) + 1] = x
      /\ \A i \in DOMAIN q : a[i] = q[i]
  BY <1>1, <1>2
<1> HIDE DEF a
<1>4. ToSet(a) = ToSet(q) \cup {x}
  BY <1>3 DEF ToSet
<1> QED
  BY <1>1, <1>4 DEF a

\* What one more search of a worker's transcript adds.
LEMMA SearchesAdd ==
    ASSUME NEW F, NEW g, NEW old,
           {r.text : r \in UNION {Drawn(Lines0(f)) : f \in F}} = old
    PROVE  {r.text : r \in UNION {Drawn(Lines0(f)) : f \in F \cup {g}}}
              = old \cup {r.text : r \in Drawn(Lines0(g))}
<1>1. UNION {Drawn(Lines0(f)) : f \in F \cup {g}}
         = (UNION {Drawn(Lines0(f)) : f \in F}) \cup Drawn(Lines0(g))
  OBVIOUS
<1> QED
  BY <1>1

\* A worker's transcript that has been searched joins the others.
LEMMA SearchJoins ==
    ASSUME WorldOK, sel \in SelType, Found, UNCHANGED <<world, binding, events>>,
           sel.pc = "readWorker", NEW g \in Fenced, SearchOK(g), g.bound = sel.bound,
           NEW texts \in SUBSET Texts, texts = sel.texts \cup {r.text : r \in Drawn(Lines0(g))},
           IsFiniteSet(texts), Cardinality(texts) <= 1, NEW pc,
           pc = IF Len(sel.fences) + 1 < Len(sel.workers) THEN "openWorker" ELSE "recheck",
           sel' = [sel EXCEPT !.texts = texts, !.fences = Append(sel.fences, g), !.pc = pc]
    PROVE  SelOK'
<1>1. /\ AtWorkers /\ Len(sel.fences) < Len(sel.workers) /\ ForWorker(sel.bound, At)
      /\ sel.fences \in Seq(Fenced) /\ sel.workers \in Seq(Listings)
  BY SearchTypes DEF Found, OfWorkers
<1>2. PICK q \in Seq(Fenced) : q = Append(sel.fences, g)
  BY <1>1, Appended
<1>3. /\ Len(q) = Len(sel.fences) + 1 /\ DOMAIN q = 1..(Len(sel.fences) + 1)
      /\ q[Len(sel.fences) + 1] = g
      /\ \A i \in DOMAIN sel.fences : q[i] = sel.fences[i]
      /\ ToSet(q) = Searches \cup {g}
  BY <1>1, <1>2, Appended DEF Searches
<1>4. pc \in {"openWorker", "recheck"}
  OBVIOUS
<1>5. sel' = [sel EXCEPT !.texts = texts, !.fences = q, !.pc = pc]
  BY <1>2
<1>6. /\ sel' \in SelType /\ sel'.pc = pc /\ sel'.bound = sel.bound
      /\ sel'.workers = sel.workers /\ sel'.fences = q /\ sel'.texts = texts
      /\ sel'.hadCache = sel.hadCache
  BY <1>4, <1>5 DEF SelType, Working
<1>7. Searches' = Searches \cup {g}
  BY <1>3, <1>6 DEF Searches
<1>8. Told'
  <2> DEFINE old == sel.texts
  <2>1. {r.text : r \in UNION {Drawn(Lines0(f)) : f \in Searches}} = old
    BY DEF Found, Basis, Told
  <2> HIDE DEF old
  <2>2. {r.text : r \in UNION {Drawn(Lines0(f)) : f \in Searches \cup {g}}}
           = old \cup {r.text : r \in Drawn(Lines0(g))}
    BY <2>1, SearchesAdd
  <2> QED
    BY <1>6, <1>7, <2>2 DEF Told, old
<1>9. \A f \in Searches \cup {g} : SearchOK(f)'
  <2>1. \A f \in Searches \cup {g} : SearchOK(f)
    BY DEF Found, Basis
  <2> QED
    BY <2>1, StandsStill DEF SearchOK
<1>10. Basis'
  BY <1>6, <1>7, <1>8, <1>9, StandsStill DEF Basis, Found
<1>11. \A i \in DOMAIN q : ForWorker(q[i].bound, sel.workers[i])
  <2> TAKE i \in DOMAIN q
  <2>1. CASE i = Len(sel.fences) + 1
    BY <1>1, <1>3, <2>1 DEF At
  <2>2. CASE i # Len(sel.fences) + 1
    <3>1. i \in DOMAIN sel.fences
      BY <1>1, <1>3, <2>2
    <3> QED
      BY <1>1, <1>3, <3>1 DEF AtWorkers
  <2> QED
    BY <2>1, <2>2
<1>12. AtWorkers'
  <2>1. Len(q) <= Len(sel.workers)
    BY <1>1, <1>3
  <2>2. proc' = proc /\ events' = events
    BY StandsStill
  <2>3. \A i \in DOMAIN sel.workers : NoEarlier(sel.workers[i])'
    BY <1>1, <2>2 DEF AtWorkers, NoEarlier
  <2>4. \A i \in DOMAIN q : ForWorker(q[i].bound, sel.workers[i])'
    BY <1>6, <1>11, <2>2 DEF ForWorker, NoEarlier
  <2> QED
    BY <1>6, <2>1, <2>3, <2>4 DEF AtWorkers
<1>13. /\ pc = "openWorker" => Len(q) < Len(sel.workers)
       /\ pc = "recheck" => Len(q) = Len(sel.workers)
  BY <1>1, <1>3
<1>14. OfPane' /\ OfWorkers'
  BY <1>4, <1>6, <1>12, <1>13 DEF OfPane, OfWorkers
<1> QED
  BY <1>4, <1>6, <1>10, <1>14 DEF SelOK, Found

LEMMA ReadWorkerKeeps ==
    ASSUME WorldOK, IndexesOK, sel \in SelType, Found, ReadWorker
    PROVE  IndexesOK' /\ SelOK'
<1>1. UNCHANGED <<world, binding, events>> /\ sel.pc = "readWorker"
  BY DEF ReadWorker, Unmoved
<1>2. sel.bound \in Bounds /\ sel.fence \in Transcripts /\ FenceOK(sel.bound, sel.fence)
  BY <1>1 DEF Found, OfPane
<1>3. PICK x : x = Updated(IndexFor(sel.bound), sel.bound.session, sel.fence)
  OBVIOUS
<1>4. indexes' = Stored(x) /\ Indexed(x, file[x.key[1]])
  BY <1>2, <1>3, ReadsOK DEF ReadWorker
<1>5. IndexesOK'
  BY <1>1, <1>4, StoresKeep
<1>6. CASE Reject
  BY <1>5, <1>6, RejectOK
<1>7. CASE ~Reject
  <2>1. PICK g : g = Looked(sel.bound, x.records)
    OBVIOUS
  <2>2. PICK texts :
            texts = IF Match(x.records) = "matched" THEN sel.texts \cup {MatchedText(x.records)}
                    ELSE sel.texts
    OBVIOUS
  <2>3. PICK q : q = Append(sel.fences, g)
    OBVIOUS
  <2>4. PICK pc : pc = IF Len(q) < Len(sel.workers) THEN "openWorker" ELSE "recheck"
    OBVIOUS
  <2>5. /\ Scanned(IndexFor(sel.bound), sel.bound.session, sel.fence) # None
        /\ Unchanged(sel.bound.session, sel.fence)
        /\ Match(x.records) # "ambiguous" /\ ~(Cardinality(texts) > 1)
        /\ sel' = [sel EXCEPT !.texts = texts, !.fences = q, !.pc = pc]
    BY <1>3, <1>7, <2>1, <2>2, <2>3, <2>4 DEF ReadWorker, Step
  <2>6. Match(x.records) \in {"nothing", "matched"}
    BY <2>5 DEF Match
  <2>7. /\ g \in Fenced /\ SearchOK(g)
        /\ Match(x.records) = "matched" =>
              /\ MatchedText(x.records) \in Texts
              /\ {r.text : r \in Drawn(Lines0(g))} = {MatchedText(x.records)}
        /\ Match(x.records) = "nothing" => Drawn(Lines0(g)) = {}
    BY <1>2, <1>3, <2>1, <2>5, <2>6, ReadsOK
  <2>8. IsFiniteSet(sel.texts) /\ sel.texts \in SUBSET Texts /\ sel.fences \in Seq(Fenced)
    BY <1>1, SearchTypes DEF Found, OfWorkers, SelType
  <2>9. /\ texts = sel.texts \cup {r.text : r \in Drawn(Lines0(g))}
        /\ texts \in SUBSET Texts /\ IsFiniteSet(texts)
    <3>1. CASE Match(x.records) = "matched"
      BY <2>2, <2>7, <2>8, <3>1, FS_AddElement
    <3>2. CASE Match(x.records) = "nothing"
      BY <2>2, <2>7, <2>8, <3>2
    <3> QED
      BY <2>6, <3>1, <3>2
  <2>10. Cardinality(texts) <= 1
    BY <2>5, <2>9, FS_CardinalityType
  <2>11. Len(q) = Len(sel.fences) + 1
    BY <2>3, <2>7, <2>8
  <2>12. g.bound = sel.bound
    BY <2>1 DEF Looked
  <2>13. pc = IF Len(sel.fences) + 1 < Len(sel.workers) THEN "openWorker" ELSE "recheck"
    BY <2>4, <2>11
  <2>14. sel' = [sel EXCEPT !.texts = texts, !.fences = Append(sel.fences, g), !.pc = pc]
    BY <2>3, <2>5
  <2>15. SelOK'
    BY <1>1, <2>7, <2>9, <2>10, <2>12, <2>13, <2>14, SearchJoins
  <2> QED
    BY <1>5, <2>15
<1> QED
  BY <1>6, <1>7

\* Who was listed is who was asked, and still runs if the list is the same.
LEMMA RecheckKeeps ==
    ASSUME WorldOK, sel \in SelType, Found, Recheck
    PROVE  SelOK'
<1>1. UNCHANGED <<world, binding, events>> /\ sel.pc = "recheck"
  BY DEF Recheck, Unmoved
<1>2. CASE Reject
  BY <1>2, RejectOK
<1>3. CASE /\ sel.texts # {} /\ Listing = ToSet(sel.workers)
           /\ sel' = [sel EXCEPT !.pc = "answerWorker",
                                 !.witness = {Seen(f, Listed(f.bound) \in Listing) : f \in Searches}]
  <2>1. /\ AtWorkers /\ IsFiniteSet(sel.texts) /\ Cardinality(sel.texts) <= 1
        /\ Len(sel.fences) = Len(sel.workers)
    BY <1>1 DEF Found, OfWorkers
  <2>2. ASSUME NEW f \in Searches PROVE Listed(f.bound) \in Listing
    <3>1. PICK i \in DOMAIN sel.fences : f = sel.fences[i]
      BY DEF Searches, ToSet
    <3>2. i \in DOMAIN sel.workers
      BY <2>1, SearchTypes
    <3>3. PICK w \in Listings : w = sel.workers[i] /\ w \in Listing
      BY <1>3, <3>2, SearchTypes DEF ToSet
    <3>4. proc[w.pid] # None /\ proc[w.pid].start = w.start
      BY <3>3, ListingOK
    <3>5. /\ f.bound.session = w.session /\ f.bound.pid = w.pid /\ f.bound.start >= w.start
          /\ w.start >= f.bound.start
      BY <2>1, <3>1, <3>3, <3>4 DEF AtWorkers, ForWorker, NoEarlier
    <3>6. f.bound.start \in Nat /\ w.start \in Nat
      BY SearchTypes
    <3>7. f.bound.start = w.start
      BY <3>5, <3>6
    <3>8. Listed(f.bound) = w
      BY <3>5, <3>7 DEF Listed, Listings
    <3> QED
      BY <3>3, <3>8
  <2>3. PICK y \in BOOLEAN : y = TRUE
    OBVIOUS
  <2>4. \A f \in Searches : Seen(f, Listed(f.bound) \in Listing) = Seen(f, y)
    BY <2>2, <2>3 DEF Seen
  <2>5. PICK W : W = {Seen(f, y) : f \in Searches}
    OBVIOUS
  <2>6. W \subseteq Witnesses
    BY <2>5, SeenOK, SearchTypes
  <2>7. sel' = [sel EXCEPT !.pc = "answerWorker", !.witness = W]
    BY <1>3, <2>4, <2>5
  <2>8. /\ sel' \in SelType /\ sel'.pc = "answerWorker" /\ sel'.witness = W
        /\ sel'.fences = sel.fences /\ sel'.texts = sel.texts /\ sel'.hadCache = sel.hadCache
    BY <2>6, <2>7 DEF SelType, Working
  <2>9. Basis'
    BY <1>1, <2>8, BasisStays DEF Found
  <2>10. OfPane' /\ OfWorkers'
    BY <1>3, <2>1, <2>8 DEF OfPane, OfWorkers
  <2>11. Searches' = Searches
    BY <2>8 DEF Searches
  <2>12. Witnessed'
    <3>1. SUFFICES ASSUME \A f \in Searches : Unchanged(f.bound.session, f.fence)'
                   PROVE  W = {[drawn |-> Drawn(Lines0(f)), whole |-> TRUE, live |-> TRUE] :
                                  f \in Searches}
      BY <2>8, <2>11 DEF Witnessed
    <3>2. \A f \in Searches : Unchanged(f.bound.session, f.fence)
      BY <1>1, <3>1, StandsStill
    <3>3. \A f \in Searches :
              Seen(f, y) = [drawn |-> Drawn(Lines0(f)), whole |-> TRUE, live |-> TRUE]
      BY <2>3, <3>2, SeenOK, SearchTypes DEF Found, Basis
    <3> QED
      BY <2>5, <3>3
  <2> QED
    BY <2>8, <2>9, <2>10, <2>12 DEF SelOK, Found
<1> QED
  BY <1>2, <1>3 DEF Recheck, Step, Searches

LEMMA AnswerWorkerKeeps ==
    ASSUME sel \in SelType, Found, AnswerWorker
    PROVE  SelOK'
<1>1. sel.pc = "answerWorker"
  BY DEF AnswerWorker
<1>2. CASE Reject
  BY <1>2, RejectOK
<1>3. CASE FencesHold /\ Finish("matched", CHOOSE t \in sel.texts : TRUE)
  <2>1. IsFiniteSet(sel.texts) /\ Cardinality(sel.texts) <= 1 /\ sel.texts # {}
    BY <1>1 DEF Found, OfWorkers
  <2>2. Cardinality(sel.texts) \in Nat /\ Cardinality(sel.texts) # 0
    BY <2>1, FS_CardinalityType, FS_EmptySet
  <2>3. Cardinality(sel.texts) = 1
    BY <2>1, <2>2
  <2>4. \A f \in Searches : Unchanged(f.bound.session, f.fence)
    BY <1>3 DEF FencesHold, Searches
  <2> QED
    BY <1>1, <1>3, <2>1, <2>3, <2>4, AnswersOK DEF Found
<1> QED
  BY <1>2, <1>3 DEF AnswerWorker

\* A selection where it is not idle, done or rejected.
LEMMA Underway ==
    ASSUME SelOK, sel.pc \in Working
    PROVE  sel \in SelType /\ Found
BY DEF SelOK, NoSel, Working

SelStep == IndexesOK' /\ SelOK' /\ KnownOK' /\ UNCHANGED <<world, binding, events>>

LEMMA SelectionStays ==
    ASSUME IndexesOK, UNCHANGED indexes, UNCHANGED <<world, binding, events, asked>>, SelOK',
           KnownOK
    PROVE  SelStep
<1>1. file' = file
  BY StandsStill
<1> QED
  BY <1>1 DEF SelStep, IndexesOK, IndexesAre, KnownOK

LEMMA SelectionKeeps ==
    ASSUME WorldOK, BindingOK, IndexesOK, SelOK, KnownOK, Selection
    PROVE  SelStep
<1>1. cache \in Bindings \cup {None}
  BY DEF BindingOK
<1>2. ASSUME NEW row \in 0..MaxRow, Select(row) PROVE SelStep
  <2>1. row \in Nat
    BY LimitAssumption
  <2>2. SelOK' /\ KnownOK' /\ UNCHANGED <<world, binding, events, indexes>>
    BY <1>2, <2>1, SelectKeeps
  <2>3. file' = file
    BY <2>2, StandsStill
  <2> QED
    BY <2>2, <2>3 DEF SelStep, IndexesOK, IndexesAre
<1>3. CASE Detect \/ DetectFails
  <2>1. sel.pc \in Working /\ UNCHANGED <<indexes, world, binding, events, asked>>
    BY <1>3 DEF Detect, DetectFails, Working, Unmoved
  <2> QED
    BY <1>3, <2>1, Underway, DetectKeeps, SelectionStays
<1>4. CASE Load
  <2>1. sel.pc \in Working /\ UNCHANGED <<indexes, world, binding, events, asked>>
    BY <1>4 DEF Load, Working, Unmoved
  <2> QED
    BY <1>1, <1>4, <2>1, Underway, LoadKeeps, SelectionStays
<1>5. CASE ResolveBinding
  <2>1. sel.pc \in Working /\ UNCHANGED <<indexes, world, binding, events, asked>>
    BY <1>5 DEF ResolveBinding, Working, Unmoved
  <2> QED
    BY <1>1, <1>5, <2>1, Underway, ResolveBindingKeeps, SelectionStays
<1>6. CASE Open
  <2>1. sel.pc \in Working /\ UNCHANGED <<world, binding, events, asked>>
    BY <1>6 DEF Open, Working, Unmoved
  <2> QED
    BY <1>6, <2>1, Underway, OpenKeeps DEF SelStep, KnownOK
<1>7. CASE Read
  <2>1. sel.pc \in Working /\ UNCHANGED <<world, binding, events, asked>>
    BY <1>7 DEF Read, Working, Unmoved
  <2> QED
    BY <1>7, <2>1, Underway, ReadKeeps DEF SelStep, KnownOK
<1>8. CASE Rebind
  <2>1. sel.pc \in Working /\ UNCHANGED <<indexes, world, binding, events, asked>>
    BY <1>8 DEF Rebind, Working, Unmoved
  <2> QED
    BY <1>8, <2>1, Underway, RebindKeeps, SelectionStays
<1>9. CASE Answer
  <2>1. sel.pc \in Working /\ UNCHANGED <<indexes, world, binding, events, asked>>
    BY <1>9 DEF Answer, Working, Unmoved
  <2> QED
    BY <1>9, <2>1, Underway, AnswerKeeps, SelectionStays
<1>10. CASE List
  <2>1. sel.pc \in Working /\ UNCHANGED <<indexes, world, binding, events, asked>>
    BY <1>10 DEF List, Working, Unmoved
  <2> QED
    BY <1>10, <2>1, Underway, ListKeeps, SelectionStays
<1>11. CASE ListFails
  <2>1. sel.pc \in Working /\ UNCHANGED <<indexes, world, binding, events, asked>>
    BY <1>11 DEF ListFails, Working, Unmoved
  <2>2. Reject
    BY <1>11 DEF ListFails
  <2> QED
    BY <2>1, <2>2, Underway, RejectOK, SelectionStays
<1>12. CASE OpenWorker
  <2>1. sel.pc \in Working /\ UNCHANGED <<indexes, world, binding, events, asked>>
    BY <1>12 DEF OpenWorker, Working, Unmoved
  <2> QED
    BY <1>12, <2>1, Underway, OpenWorkerKeeps, SelectionStays
<1>13. CASE ReadWorker
  <2>1. sel.pc \in Working /\ UNCHANGED <<world, binding, events, asked>>
    BY <1>13 DEF ReadWorker, Working, Unmoved
  <2> QED
    BY <1>13, <2>1, Underway, ReadWorkerKeeps DEF SelStep, KnownOK
<1>14. CASE Recheck
  <2>1. sel.pc \in Working /\ UNCHANGED <<indexes, world, binding, events, asked>>
    BY <1>14 DEF Recheck, Working, Unmoved
  <2> QED
    BY <1>14, <2>1, Underway, RecheckKeeps, SelectionStays
<1>15. CASE AnswerWorker
  <2>1. sel.pc \in Working /\ UNCHANGED <<indexes, world, binding, events, asked>>
    BY <1>15 DEF AnswerWorker, Working, Unmoved
  <2> QED
    BY <1>15, <2>1, Underway, AnswerWorkerKeeps, SelectionStays
<1>16. CASE Release
  <2>1. sel' = NoSel /\ UNCHANGED <<indexes, world, binding, events, asked>>
    BY <1>16 DEF Release, Unmoved
  <2>2. SelOK'
    BY <2>1 DEF SelOK
  <2> QED
    BY <2>1, <2>2, SelectionStays
<1> QED
  BY <1>2, <1>3, <1>4, <1>5, <1>6, <1>7, <1>8, <1>9, <1>10, <1>11, <1>12, <1>13, <1>14, <1>15,
     <1>16 DEF Selection

-----------------------------------------------------------------------------
(* The theorems *)

LEMMA Initially == Init => IInv
<1> SUFFICES ASSUME Init PROVE IInv
  OBVIOUS
<1>1. PICK scene \in Scenes :
          /\ proc = scene.proc /\ fg = scene.fg /\ registry = scene.registry
          /\ pane = [row |-> 0, alternate |-> scene.alternate]
  BY DEF Init
<1>2. PICK first \in FirstLines :
          file = [s \in Sessions |-> [ino |-> 1, lines |-> first[s], part |-> FALSE]]
  BY DEF Init
<1>3. /\ cache = None /\ hooks = [h \in Hooks |-> NoHook] /\ lock = None
      /\ indexes = <<>> /\ known = None /\ sel = NoSel
      /\ clock = 0 /\ events = 0 /\ ran = 0 /\ asked = 0
  BY DEF Init
<1>4. /\ proc \in [Pids -> {q \in Processes : q.start = 0} \cup {None}]
      /\ registry \in [Pids -> {r \in Registered : r.start = 0} \cup {None}]
      /\ fg \in {p \in Pids : proc[p] # None} \cup {None}
      /\ scene.alternate \in BOOLEAN
  BY <1>1, SceneAssumption
<1>5. \A s \in Sessions : first[s] \in Seq(Lines) /\ Len(first[s]) <= MaxLines
  BY ProviderAssumption
<1>6. WorldOK
  <2>1. proc \in [Pids -> Processes \cup {None}] /\ registry \in [Pids -> Registered \cup {None}]
    BY <1>4
  <2>2. \A p \in Pids : proc[p] # None => proc[p].start <= events
    BY <1>3, <1>4
  <2>3. pane \in [row : 0..MaxRow, alternate : BOOLEAN]
    BY <1>1, <1>4, LimitAssumption
  <2>4. file \in [Sessions -> Transcripts] /\ \A s \in Sessions : Len(file[s].lines) <= MaxLines
    BY <1>2, <1>5 DEF Transcripts
  <2> QED
    BY <1>3, <1>4, <2>1, <2>2, <2>3, <2>4 DEF WorldOK
<1>7. BindingOK
  <2>1. Busy = {}
    BY <1>3, EmptyBusy
  <2>2. HooksOK
    BY <1>3, NoneAssumption DEF HooksOK, HookOK, NoHook
  <2>3. IsFiniteSet(Busy) /\ Cardinality(Busy) = 0
    BY <2>1, FS_EmptySet
  <2>4. Counted
    BY <1>3, <2>3, LimitAssumption DEF Counted, Generation
  <2> QED
    BY <1>3, <2>2, <2>4 DEF BindingOK, CacheOK
<1>8. IndexesOK
  BY <1>3, LimitAssumption DEF IndexesOK, IndexesAre
<1>9. SelOK /\ KnownOK
  BY <1>3 DEF SelOK, KnownOK
<1> QED
  BY <1>6, <1>7, <1>8, <1>9 DEF IInv

LEMMA NextKeeps == IInv /\ [Next]_vars => IInv' /\ Advances
<1> SUFFICES ASSUME IInv, [Next]_vars PROVE IInv' /\ Advances
  OBVIOUS
<1>1. WorldOK /\ BindingOK /\ IndexesOK /\ SelOK /\ KnownOK
  BY DEF IInv
<1>2. ASSUME WorldStep, BindingStep, UNCHANGED lookup
      PROVE  IInv' /\ Advances
  <2>1. UNCHANGED <<indexes, known, sel, asked>>
    BY <1>2 DEF lookup
  <2>2. IndexesOK'
    BY <1>1, <1>2, <2>1, IndexesStay DEF WorldStep
  <2>3. SelOK'
    BY <1>1, <1>2, <2>1, SelStays DEF BindingStep
  <2> QED
    BY <1>1, <1>2, <2>1, <2>2, <2>3 DEF IInv, WorldStep, BindingStep, KnownOK
<1>3. CASE World
  BY <1>1, <1>2, <1>3, WorldKeeps, BindingStays
<1>4. CASE Hook
  BY <1>1, <1>2, <1>4, HookKeeps, WorldStays
<1>5. CASE Selection
  <2>1. SelStep
    BY <1>1, <1>5, SelectionKeeps
  <2>2. WorldStep /\ BindingStep
    BY <1>1, <2>1, WorldStays, BindingStays DEF SelStep
  <2> QED
    BY <2>1, <2>2 DEF IInv, SelStep, WorldStep, BindingStep
<1>6. CASE UNCHANGED vars
  <2>1. UNCHANGED world /\ UNCHANGED binding /\ UNCHANGED lookup /\ UNCHANGED events
    BY <1>6 DEF vars
  <2> QED
    BY <1>1, <1>2, <2>1, WorldStays, BindingStays
<1> QED
  BY <1>3, <1>4, <1>5, <1>6 DEF Next

LEMMA InvariantHolds == Spec => []IInv
<1>1. IInv /\ [Next]_vars => IInv'
  BY NextKeeps
<1> QED
  BY <1>1, Initially, PTL DEF Spec

(* Whoever is killed, late or overtaken, the binding file has at most       *)
(* MaxRanges ranges and one open, the lock is its holder's, and the indexes *)
(* stay below their limits (provider_binding_hook, TranscriptIndex,         *)
(* _provider_index).                                                        *)
THEOREM ProvidersTypes == Spec => []TypeOK
<1>1. IInv => TypeOK
  <2> SUFFICES ASSUME IInv PROVE TypeOK
    OBVIOUS
  <2>1. WorldOK /\ CacheOK(cache) /\ HooksOK /\ IndexesOK
    BY DEF IInv, BindingOK
  <2>2. /\ DOMAIN proc = Pids /\ fg \in {p \in Pids : proc[p] # None} \cup {None}
        /\ pane \in [row : 0..MaxRow, alternate : BOOLEAN]
        /\ \A s \in Sessions : Len(file[s].lines) <= MaxLines
    BY <2>1 DEF WorldOK
  <2>3. \A h \in Hooks : hooks[h].pc = "locked" <=> lock = h
    BY <2>1 DEF HooksOK
  <2>4. \A h \in Hooks : CASE hooks[h].pc = "waiting" -> hooks[h] \in EventType
                           [] hooks[h].pc = "locked" -> hooks[h].event \in EventType
                           [] OTHER -> hooks[h] = NoHook
    BY <2>1, HookIs
  <2>5. /\ Len(indexes) <= MaxIndexes
        /\ \A i, j \in DOMAIN indexes : indexes[i].key[1] = indexes[j].key[1] => i = j
        /\ \A i \in DOMAIN indexes : Cardinality(indexes[i].records) <= MaxRecords
    BY <2>1 DEF IndexesOK, IndexesAre, Indexed
  <2> QED
    BY <2>1, <2>2, <2>3, <2>4, <2>5 DEF TypeOK
<1> QED
  BY <1>1, InvariantHolds, PTL

(* However many hooks run beside each other and however long one waits, a   *)
(* binding that is written follows the one it replaces by one generation,   *)
(* is of a later event, and revives no session that has ended               *)
(* (update_binding under flock).                                            *)
THEOREM BindingsOnlyAdvance == Spec => BindingsAdvance
<1>1. IInv /\ [Next]_vars =>
         (cache' # cache => /\ Generation(cache') = Generation(cache) + 1
                            /\ EventTime(cache') > EventTime(cache)
                            /\ SameProcess(cache, cache') /\ ~cache.active => ~cache'.active)
  BY NextKeeps DEF Advances
<1> QED
  BY <1>1, InvariantHolds, PTL DEF Spec, BindingsAdvance

(* However transcripts grow and are replaced while they are read, and       *)
(* whatever reads fail, an index that names a transcript's file holds the   *)
(* last of the records below its offset, as many as it keeps                *)
(* (TranscriptIndex.update).                                                *)
THEOREM IndexesExact == Spec => []IndexExact
<1>1. IInv => IndexExact
  <2> SUFFICES ASSUME IInv, NEW i \in DOMAIN indexes,
                      indexes[i].ino = file[indexes[i].key[1]].ino
               PROVE  Written(indexes[i].records) =
                          Written(Latest(Below(file[indexes[i].key[1]].lines, indexes[i].offset),
                                         Cardinality(indexes[i].records)))
    BY DEF IndexExact, Below
  <2>1. PICK x : x = indexes[i]
    OBVIOUS
  <2>2. x \in IndexType /\ Indexed(x, file[x.key[1]])
    BY <2>1 DEF IInv, IndexesOK, IndexesAre
  <2>3. x.key[1] \in Sessions
    BY <2>2 DEF IndexType
  <2>4. PICK f \in Transcripts : f = file[x.key[1]]
    BY <2>3 DEF IInv, WorldOK
  <2>5. /\ f.lines \in Seq(Lines) /\ x.offset \in 0..Len(f.lines)
        /\ Searched(x.records, f.lines, x.offset)
        /\ IsFiniteSet(x.records) /\ x.records \subseteq RecordType
    BY <2>1, <2>2, <2>4 DEF Indexed, IndexType, Transcripts
  <2>6. Ordered(x.records)
    BY <2>5 DEF Ordered, Searched
  <2>7. Written(Latest(Below(f.lines, x.offset), Cardinality(x.records))) = Written(x.records)
    BY <2>5, <2>6, SearchedAreLatest
  <2> QED
    BY <2>1, <2>4, <2>7
<1> QED
  BY <1>1, InvariantHolds, PTL

(* Whatever providers, hooks and the agents' viewer do between the steps of *)
(* a selection, its text was at one instant the text of the only record     *)
(* drawn so in each complete transcript searched, of live sessions that the *)
(* pane then showed; and rows of an alternate screen with a binding are     *)
(* never called ordinary output (_provider_selection_locked,                *)
(* authoritative_provider_match, _fleet_provider_match).                    *)
THEOREM DecisionsSound == Spec => []DecisionSound
<1>1. IInv => DecisionSound
  <2> SUFFICES ASSUME IInv, sel.pc = "done" PROVE DecisionSound
    BY DEF DecisionSound
  <2> QED
    BY DEF IInv, SelOK, NoSel, SelType, Working
<1> QED
  BY <1>1, InvariantHolds, PTL
=============================================================================
