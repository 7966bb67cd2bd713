--------------------------- MODULE ComposerProofs ---------------------------
(***************************************************************************)
(* Proofs about Composer: the shape of the records and queues; what        *)
(* becomes of a staged submission: entered once, acknowledged only when it *)
(* was entered, and entered as the text it is; that commands do not block  *)
(* one another; and what the records of accepted commands show.            *)
(***************************************************************************)
EXTENDS Composer, WellFoundedInduction, TLAPS

-----------------------------------------------------------------------------
(* Queues *)

In(x, queue) == \E i \in DOMAIN queue : queue[i] = x
Once(queue) == \A i, j \in DOMAIN queue : queue[i] = queue[j] => i = j

LEMMA QueuedOnce ==
    ASSUME NEW S, NEW q \in Seq(S), Once(q), NEW x \in S, ~In(x, q)
    PROVE  /\ Append(q, x) \in Seq(S) /\ Once(Append(q, x))
           /\ \A y : In(y, Append(q, x)) <=> In(y, q) \/ y = x
           /\ q # <<>> => Head(Append(q, x)) = Head(q)
           /\ q = <<>> => Head(Append(q, x)) = x
<1> DEFINE n == Len(q)  r == Append(q, x)
<1>1. /\ n \in Nat /\ r \in Seq(S) /\ Len(r) = n + 1 /\ r[n + 1] = x
      /\ \A i \in 1..n : r[i] = q[i]
      /\ DOMAIN q = 1..n /\ DOMAIN r = 1..(n + 1)
  OBVIOUS
<1>2. \A i \in 1..(n + 1) : i \in 1..n \/ i = n + 1
  BY <1>1
<1>3. 1..n \subseteq 1..(n + 1) /\ n + 1 \in 1..(n + 1) /\ n + 1 \notin 1..n
  BY <1>1
<1> HIDE DEF n, r
<1>4. Once(r)
  BY <1>1, <1>2, <1>3 DEF Once, In
<1>5. \A y : In(y, r) <=> In(y, q) \/ y = x
  BY <1>1, <1>2, <1>3 DEF In
<1>6. (q # <<>> => Head(r) = Head(q)) /\ (q = <<>> => Head(r) = x)
  BY DEF r
<1> QED
  BY <1>1, <1>4, <1>5, <1>6 DEF r

LEMMA ReleasedOnce ==
    ASSUME NEW S, NEW q \in Seq(S), Once(q), NEW x, In(x, q), Head(q) = x
    PROVE  /\ q # <<>> /\ Tail(q) \in Seq(S) /\ Once(Tail(q))
           /\ \A y : In(y, Tail(q)) <=> In(y, q) /\ y # x
<1> DEFINE n == Len(q)  r == Tail(q)
<1>1. q # <<>> /\ n \in Nat /\ n >= 1 /\ DOMAIN q = 1..n
  BY DEF In
<1>2. /\ r \in Seq(S) /\ Len(r) = n - 1 /\ DOMAIN r = 1..(n - 1)
      /\ \A i \in 1..(n - 1) : r[i] = q[i + 1]
      /\ q[1] = x
  BY <1>1
<1>3. /\ \A i \in 1..n : i = 1 \/ (i - 1 \in 1..(n - 1) /\ (i - 1) + 1 = i)
      /\ \A i \in 1..(n - 1) : i + 1 \in 1..n /\ i + 1 # 1
      /\ \A i, j \in 1..(n - 1) : i + 1 = j + 1 => i = j
      /\ 1 \in 1..n
  BY <1>1
<1> HIDE DEF n, r
<1>4. Once(r)
  <2> SUFFICES ASSUME NEW i \in 1..(n - 1), NEW j \in 1..(n - 1), r[i] = r[j]
               PROVE  i = j
    BY <1>2 DEF Once
  <2>1. q[i + 1] = q[j + 1] /\ i + 1 \in 1..n /\ j + 1 \in 1..n
    BY <1>2, <1>3
  <2>2. i + 1 = j + 1
    BY <1>1, <2>1 DEF Once
  <2> QED
    BY <1>3, <2>2
<1>5. \A y : In(y, r) => In(y, q) /\ y # x
  BY <1>1, <1>2, <1>3, SMTT(30) DEF Once, In
<1>6. \A y : In(y, q) /\ y # x => In(y, r)
  <2> SUFFICES ASSUME NEW y, In(y, q), y # x PROVE In(y, r)
    OBVIOUS
  <2>1. PICK i \in 1..n : q[i] = y
    BY <1>1 DEF In
  <2>2. i - 1 \in 1..(n - 1) /\ r[i - 1] = y
    BY <1>2, <1>3, <2>1
  <2> QED
    BY <1>2, <2>2 DEF In
<1> QED
  BY <1>1, <1>2, <1>4, <1>5, <1>6 DEF r

LEMMA Joined ==
    ASSUME NEW S, NEW a \in Seq(S), NEW b \in Seq(S)
    PROVE  /\ a \o b \in Seq(S) /\ Len(a \o b) = Len(a) + Len(b)
           /\ \A i \in 1..Len(a) : (a \o b)[i] = a[i]
           /\ \A i \in 1..Len(b) : (a \o b)[Len(a) + i] = b[i]
OBVIOUS

LEMMA Cut ==
    ASSUME NEW S, NEW q \in Seq(S), NEW i \in 0..Len(q), NEW j \in 0..Len(q), i <= j
    PROVE  /\ SubSeq(q, i + 1, j) \in Seq(S) /\ Len(SubSeq(q, i + 1, j)) = j - i
           /\ \A k \in 1..(j - i) : SubSeq(q, i + 1, j)[k] = q[i + k]
<1>1. Len(q) \in Nat /\ i + 1 \in 1..(Len(q) + 1) /\ j - i \in Nat
      /\ \A k \in (i + 1)..j : k \in 1..Len(q)
  OBVIOUS
<1>2. SubSeq(q, i + 1, j) = [k \in 1..(j - i) |-> q[i + k]]
  BY <1>1
<1>3. \A k \in 1..(j - i) : i + k \in 1..Len(q)
  BY <1>1
<1>4. \A k \in 1..(j - i) : q[i + k] \in S
  BY <1>3
<1> QED
  BY <1>1, <1>2, <1>4

LEMMA WithoutIs ==
    ASSUME NEW S, NEW q \in Seq(S), NEW x, In(x, q)
    PROVE  \E m \in 1..Len(q) :
              /\ q[m] = x
              /\ Without(q, x) \in Seq(S) /\ Len(Without(q, x)) = Len(q) - 1
              /\ \A i \in 1..(Len(q) - 1) :
                    Without(q, x)[i] = IF i < m THEN q[i] ELSE q[i + 1]
<1> DEFINE at == {i \in DOMAIN q : q[i] = x}  k == CHOOSE j \in at : TRUE
           r == SubSeq(q, 1, k - 1) \o SubSeq(q, k + 1, Len(q))
<1>0. at # {}
  BY DEF In
<1>1. k \in at
  BY <1>0
<1>2. Without(q, x) = r
  BY <1>0 DEF Without
<1>3. PICK n \in Nat : n = Len(q)
  OBVIOUS
<1>4. PICK m \in 1..n : m = k /\ q[m] = x /\ DOMAIN q = 1..n
  BY <1>1, <1>3
<1>5. PICK a \in Seq(S) : /\ a = SubSeq(q, 1, m - 1) /\ Len(a) = m - 1
                         /\ \A i \in 1..(m - 1) : a[i] = q[i]
  <2>1. PICK z, h : z = 0 /\ h = m - 1
    OBVIOUS
  <2>2. z \in 0..Len(q) /\ h \in 0..Len(q) /\ z <= h
    BY <1>3, <1>4, <2>1
  <2>3. /\ SubSeq(q, z + 1, h) \in Seq(S) /\ Len(SubSeq(q, z + 1, h)) = h - z
        /\ \A i \in 1..(h - z) : SubSeq(q, z + 1, h)[i] = q[z + i]
    BY <2>2, Cut
  <2>4. z + 1 = 1 /\ h - z = h /\ \A i \in 1..h : z + i = i
    BY <2>1, <2>2
  <2>5. /\ SubSeq(q, 1, h) \in Seq(S) /\ Len(SubSeq(q, 1, h)) = h
        /\ \A i \in 1..h : SubSeq(q, 1, h)[i] = q[i]
    BY <2>3, <2>4
  <2> QED
    BY <2>1, <2>5
<1>6. PICK b \in Seq(S) : /\ b = SubSeq(q, m + 1, n) /\ Len(b) = n - m
                         /\ \A i \in 1..(n - m) : b[i] = q[m + i]
  <2>1. m \in 0..Len(q) /\ n \in 0..Len(q) /\ m <= n
    BY <1>3, <1>4
  <2>2. /\ SubSeq(q, m + 1, n) \in Seq(S) /\ Len(SubSeq(q, m + 1, n)) = n - m
        /\ \A i \in 1..(n - m) : SubSeq(q, m + 1, n)[i] = q[m + i]
    BY <2>1, Cut
  <2> QED
    BY <2>2
<1>7. r = a \o b
  BY <1>3, <1>4, <1>5, <1>6
<1> HIDE DEF r, k, at
<1>8. /\ r \in Seq(S) /\ Len(r) = n - 1 /\ DOMAIN r = 1..(n - 1)
  <2>1. a \o b \in Seq(S) /\ Len(a \o b) = Len(a) + Len(b)
    BY Joined
  <2>2. r \in Seq(S) /\ Len(r) = Len(a) + Len(b)
    BY <1>7, <2>1
  <2>3. Len(r) = n - 1
    BY <1>3, <1>4, <1>5, <1>6, <2>2
  <2> QED
    BY <2>2, <2>3
<1>9. \A i \in 1..(n - 1) : r[i] = IF i < m THEN q[i] ELSE q[i + 1]
  <2> SUFFICES ASSUME NEW i \in 1..(n - 1)
               PROVE  r[i] = IF i < m THEN q[i] ELSE q[i + 1]
    OBVIOUS
  <2>3. /\ \A l \in 1..Len(a) : (a \o b)[l] = a[l]
        /\ \A l \in 1..Len(b) : (a \o b)[Len(a) + l] = b[l]
    BY Joined
  <2>4. /\ \A l \in 1..(m - 1) : r[l] = a[l]
        /\ \A l \in 1..(n - m) : r[(m - 1) + l] = b[l]
    BY <1>5, <1>6, <1>7, <2>3
  <2>1. CASE i < m
    <3>1. i \in 1..(m - 1)
      BY <1>4, <2>1
    <3> QED
      BY <1>5, <2>1, <2>4, <3>1
  <2>2. CASE ~(i < m)
    <3>1. PICK j \in 1..(n - m) : (m - 1) + j = i /\ m + j = i + 1
      <4>1. i - (m - 1) \in 1..(n - m)
        BY <1>3, <1>4, <2>2
      <4> QED
        BY <1>4, <4>1
    <3>2. r[(m - 1) + j] = b[j] /\ b[j] = q[m + j]
      BY <1>6, <2>4
    <3> QED
      BY <2>2, <3>1, <3>2
  <2> QED
    BY <2>1, <2>2
<1> QED
  BY <1>2, <1>3, <1>4, <1>8, <1>9

LEMMA WithoutOnce ==
    ASSUME NEW S, NEW q \in Seq(S), Once(q), NEW x
    PROVE  /\ Without(q, x) \in Seq(S) /\ Once(Without(q, x))
           /\ \A y : In(y, Without(q, x)) <=> In(y, q) /\ y # x
<1>1. CASE ~In(x, q)
  <2>1. {i \in DOMAIN q : q[i] = x} = {}
    BY <1>1 DEF In
  <2> QED
    BY <1>1, <2>1 DEF Without, In
<1>2. CASE In(x, q)
  <2>1. PICK n \in Nat : n = Len(q) /\ DOMAIN q = 1..n
    OBVIOUS
  <2>2. PICK r : r = Without(q, x)
    OBVIOUS
  <2>4. PICK m \in 1..n :
          /\ q[m] = x
          /\ r \in Seq(S) /\ Len(r) = n - 1
          /\ \A i \in 1..(n - 1) : r[i] = IF i < m THEN q[i] ELSE q[i + 1]
    <3>1. PICK m \in 1..Len(q) :
             /\ q[m] = x
             /\ Without(q, x) \in Seq(S) /\ Len(Without(q, x)) = Len(q) - 1
             /\ \A i \in 1..(Len(q) - 1) :
                   Without(q, x)[i] = IF i < m THEN q[i] ELSE q[i + 1]
      BY <1>2, WithoutIs
    <3> QED
      BY <2>1, <2>2, <3>1
  <2>8. r \in Seq(S) /\ DOMAIN r = 1..(n - 1)
    BY <2>4
  <2>9. \A i \in 1..(n - 1) : r[i] = IF i < m THEN q[i] ELSE q[i + 1]
    BY <2>4
  <2>10. /\ \A i \in 1..n : i # m => \E j \in 1..(n - 1) :
                                        r[j] = q[i]
    <3> SUFFICES ASSUME NEW i \in 1..n, i # m PROVE \E j \in 1..(n - 1) : r[j] = q[i]
      OBVIOUS
    <3>1. CASE i < m
      <4>1. i \in 1..(n - 1)
        BY <2>4, <3>1
      <4>2. r[i] = q[i]
        BY <2>9, <3>1, <4>1
      <4> QED
        BY <4>1, <4>2
    <3>2. CASE i > m
      <4>1. i - 1 \in 1..(n - 1) /\ ~(i - 1 < m) /\ (i - 1) + 1 = i
        BY <2>4, <3>2
      <4>2. r[i - 1] = q[i]
        BY <2>9, <4>1
      <4> QED
        BY <4>1, <4>2
    <3> QED
      BY <2>4, <3>1, <3>2
  <2>11. \A j \in 1..(n - 1) : \E i \in 1..n : i # m /\ r[j] = q[i]
    <3> SUFFICES ASSUME NEW j \in 1..(n - 1) PROVE \E i \in 1..n : i # m /\ r[j] = q[i]
      OBVIOUS
    <3>1. CASE j < m
      BY <2>4, <2>9, <3>1
    <3>2. CASE ~(j < m)
      <4>1. j + 1 \in 1..n /\ j + 1 # m
        BY <2>4, <3>2
      <4> QED
        BY <2>9, <3>2, <4>1
    <3> QED
      BY <3>1, <3>2
  <2>12. Once(r)
    <3> SUFFICES ASSUME NEW i \in 1..(n - 1), NEW j \in 1..(n - 1), r[i] = r[j]
                 PROVE  i = j
      BY <2>8 DEF Once
    <3> DEFINE old(l) == IF l < m THEN l ELSE l + 1
    <3>1. old(i) \in 1..n /\ old(j) \in 1..n /\ r[i] = q[old(i)] /\ r[j] = q[old(j)]
      BY <2>4, <2>9
    <3>2. old(i) = old(j)
      BY <2>1, <2>4, <3>1 DEF Once
    <3> QED
      BY <2>4, <3>2
  <2>13. \A y : In(y, r) <=> In(y, q) /\ y # x
    <3>1. \A i \in 1..n : q[i] = x => i = m
      BY <2>1, <2>4 DEF Once
    <3>2. \A y : In(y, r) => In(y, q) /\ y # x
      <4> SUFFICES ASSUME NEW j \in 1..(n - 1) PROVE In(r[j], q) /\ r[j] # x
        BY <2>8 DEF In
      <4>1. PICK i \in 1..n : i # m /\ r[j] = q[i]
        BY <2>11
      <4> QED
        BY <2>1, <3>1, <4>1 DEF In
    <3>3. \A y : In(y, q) /\ y # x => In(y, r)
      BY <2>1, <2>4, <2>8, <2>10 DEF In
    <3> QED
      BY <3>2, <3>3
  <2> QED
    BY <2>2, <2>8, <2>12, <2>13
<1> QED
  BY <1>1, <1>2

-----------------------------------------------------------------------------
(* The record of the session *)

\* The characters of texts, of a key, and of what somebody types in tmux.
Character == STRING \cup {"k", "x"}
Cell == [ch : Character, by : Conns \cup {Tmux}]
ActiveType ==
    [owner : Conns, name : Names, draft : Texts, revision : Nat, start : Nat,
     settled : BOOLEAN, cells : Seq(Cell)]
UnavailableType == [owner : Conns, name : Names, draft : Texts, revision : Nat]
\* n bounds the revisions: the commands begun so far.
SessionType(n) ==
    [name : Names, draft : Texts, revision : 0..n, tracked : BOOLEAN,
     synced : BOOLEAN, startAllowed : BOOLEAN, submitted : Seq(Requests),
     submitters : Seq(Conns), writers : Seq(Conns \cup {Fence}),
     current : SUBSET Conns, active : ActiveType \cup {None},
     unavailable : UnavailableType \cup {None},
     accepted : SUBSET [owner : Conns, draft : Texts, cells : Seq(Cell)],
     fence : {"none", "waiting", "queued"}, fenced : ActiveType \cup {None}]

SessionOK(s, n) ==
    /\ s \in SessionType(n)
    /\ Once(s.writers) /\ (In(Fence, s.writers) <=> s.fence = "queued")
    /\ s.active # None => s.unavailable = None
    /\ Len(s.submitted) <= MaxRemembered

\* t is what tracking made of s: the commands that wait, and what was submitted,
\* are the same.
Tracks(s, t, n) ==
    /\ SessionOK(t, n)
    /\ t.name = s.name /\ t.submitted = s.submitted /\ t.submitters = s.submitters
    /\ \A c \in Conns : In(c, t.writers) <=> In(c, s.writers)

LEMMA TracksOn ==
    ASSUME NEW n, NEW s, NEW t, NEW u, Tracks(s, t, n), Tracks(t, u, n)
    PROVE  Tracks(s, u, n)
BY DEF Tracks

LEMMA NoneIsNone ==
    /\ None \notin ActiveType /\ None \notin UnavailableType
    /\ Fence \notin Conns /\ <<>> \in Texts /\ NoRequest \notin Requests
    /\ NoStart \notin Nat /\ Texts \subseteq Seq(Character)
    /\ \A r \in Requests : TextOf[r] \in Texts
<1>1. \A a \in ActiveType : a.owner \in Conns
  BY DEF ActiveType
<1>2. \A a \in UnavailableType : a.owner \in Conns
  BY DEF UnavailableType
<1>3. None.owner = Tmux
  BY DEF None
<1>4. /\ Fence \notin Conns /\ <<>> \in Texts /\ NoRequest \notin Requests
      /\ NoStart \notin Nat /\ Tmux \notin Conns
  BY ConnAssumption, RequestAssumption DEF Fence, Texts, NoRequest, NoStart
<1>5. \A r \in Requests : TextOf[r] \in Texts /\ TextOf[r] \in Seq(Character)
  <2> SUFFICES ASSUME NEW r \in Requests
               PROVE  TextOf[r] \in Texts /\ TextOf[r] \in Seq(Character)
    OBVIOUS
  <2>1. TextOf[r] \in Seq(STRING)
    BY RequestAssumption
  <2> QED
    BY <2>1 DEF Texts, Character
<1>6. Texts \subseteq Seq(Character)
  <2> SUFFICES ASSUME NEW t \in Texts PROVE t \in Seq(Character)
    OBVIOUS
  <2>1. CASE t \in Drafts
    <3>1. t \in Seq(STRING)
      BY <2>1, DraftAssumption
    <3> QED
      BY <3>1 DEF Character
  <2>2. CASE t \in {TextOf[r] : r \in Requests}
    BY <2>2, <1>5
  <2>3. CASE t \in {<<>>}
    BY <2>3
  <2> QED
    BY <2>1, <2>2, <2>3 DEF Texts
<1> QED
  BY <1>1, <1>2, <1>3, <1>4, <1>5, <1>6

LEMMA CancelTracks ==
    ASSUME NEW n \in Nat, NEW s, SessionOK(s, n)
    PROVE  /\ Tracks(s, CancelFence(s), n) /\ CancelFence(s).draft = s.draft
           /\ CancelFence(s).active = s.active /\ CancelFence(s).fence = "none"
           /\ CancelFence(s).unavailable = s.unavailable
           /\ ~In(Fence, CancelFence(s).writers)
<1> DEFINE t == CancelFence(s)  w == Without(s.writers, Fence)
<1>1. s \in SessionType(n) /\ s.writers \in Seq(Conns \cup {Fence}) /\ Once(s.writers)
  BY DEF SessionOK, SessionType
<1>2. /\ w \in Seq(Conns \cup {Fence}) /\ Once(w)
      /\ \A y : In(y, w) <=> In(y, s.writers) /\ y # Fence
  BY <1>1, WithoutOnce
<1> HIDE DEF w
<1>3. t = [s EXCEPT !.fence = "none", !.fenced = None, !.writers = w]
  BY DEF CancelFence, w
<1> HIDE DEF t
<1>4. t \in SessionType(n)
  BY <1>1, <1>2, <1>3 DEF SessionType
<1>5. /\ t.fence = "none" /\ t.writers = w /\ t.active = s.active /\ t.draft = s.draft
      /\ t.unavailable = s.unavailable /\ t.name = s.name
      /\ t.submitted = s.submitted /\ t.submitters = s.submitters
  BY <1>1, <1>3 DEF SessionType
<1>6. SessionOK(t, n)
  BY <1>2, <1>4, <1>5 DEF SessionOK
<1>7. Tracks(s, t, n)
  BY <1>2, <1>5, <1>6, NoneIsNone DEF Tracks
<1> QED
  BY <1>2, <1>5, <1>7 DEF t

LEMMA MarkTracks ==
    ASSUME NEW n \in Nat, NEW s, SessionOK(s, n), NEW u \in UnavailableType
    PROVE  /\ Tracks(s, MarkUnavailable(s, u), n)
           /\ MarkUnavailable(s, u).draft = s.draft
<1> DEFINE t == CancelFence(s)  v == MarkUnavailable(s, u)
<1>1. Tracks(s, t, n) /\ t.draft = s.draft
  BY CancelTracks
<1>2. v = [t EXCEPT !.active = None, !.unavailable = u]
  BY DEF MarkUnavailable
<1> HIDE DEF t, v
<1>3. t \in SessionType(n) /\ SessionOK(t, n)
  BY <1>1 DEF Tracks, SessionOK
<1>4. v \in SessionType(n)
  BY <1>2, <1>3 DEF SessionType
<1>5. /\ v.active = None /\ v.writers = t.writers /\ v.fence = t.fence
      /\ v.draft = t.draft /\ v.name = t.name
      /\ v.submitted = t.submitted /\ v.submitters = t.submitters
  BY <1>2, <1>3 DEF SessionType
<1>6. SessionOK(v, n)
  BY <1>3, <1>4, <1>5 DEF SessionOK
<1> QED
  BY <1>1, <1>5, <1>6 DEF Tracks, v

LEMMA InvalidateTracks ==
    ASSUME NEW n \in Nat, NEW s, SessionOK(s, n)
    PROVE  /\ Tracks(s, InvalidateActive(s), n)
           /\ InvalidateActive(s).draft = s.draft
           /\ InvalidateActive(s).active = None
           /\ InvalidateActive(s).unavailable = None
<1> DEFINE t == CancelFence(s)  v == InvalidateActive(s)
<1>1. Tracks(s, t, n) /\ t.draft = s.draft
  BY CancelTracks
<1>2. v = [t EXCEPT !.current = {}, !.active = None, !.unavailable = None]
  BY DEF InvalidateActive
<1> HIDE DEF t, v
<1>3. t \in SessionType(n) /\ SessionOK(t, n)
  BY <1>1 DEF Tracks, SessionOK
<1>4. v \in SessionType(n)
  BY <1>2, <1>3 DEF SessionType
<1>5. /\ v.active = None /\ v.unavailable = None /\ v.writers = t.writers
      /\ v.fence = t.fence /\ v.draft = t.draft /\ v.name = t.name
      /\ v.submitted = t.submitted /\ v.submitters = t.submitters
  BY <1>2, <1>3 DEF SessionType
<1>6. SessionOK(v, n)
  BY <1>3, <1>4, <1>5 DEF SessionOK
<1> QED
  BY <1>1, <1>5, <1>6 DEF Tracks, v

LEMMA ReadTracks ==
    ASSUME NEW n \in Nat, NEW s, SessionOK(s, n), NEW c \in Conns
    PROVE  /\ Tracks(s, ReadGeneration(s, c), n)
           /\ ReadGeneration(s, c).draft = s.draft
           /\ ReadGeneration(s, c).active = s.active
           /\ ReadGeneration(s, c).unavailable = s.unavailable
           /\ Tracks(s, [s EXCEPT !.current = @ \ {c}], n)
           /\ [s EXCEPT !.current = @ \ {c}].draft = s.draft
<1> DEFINE t == ReadGeneration(s, c)  v == [s EXCEPT !.current = @ \ {c}]
<1>1. s \in SessionType(n) /\ SessionOK(s, n)
  BY DEF SessionOK
<1>2. t = [s EXCEPT !.current = @ \cup {c}]
  BY DEF ReadGeneration
<1> HIDE DEF t
<1>3. t \in SessionType(n) /\ v \in SessionType(n)
  BY <1>1, <1>2 DEF SessionType
<1>4. /\ t.active = s.active /\ t.unavailable = s.unavailable /\ t.writers = s.writers
      /\ t.fence = s.fence /\ t.draft = s.draft /\ t.name = s.name
      /\ t.submitted = s.submitted /\ t.submitters = s.submitters
  BY <1>1, <1>2 DEF SessionType
<1>5. /\ v.active = s.active /\ v.unavailable = s.unavailable /\ v.writers = s.writers
      /\ v.fence = s.fence /\ v.draft = s.draft /\ v.name = s.name
      /\ v.submitted = s.submitted /\ v.submitters = s.submitters
  BY <1>1 DEF SessionType
<1> HIDE DEF v
<1>6. SessionOK(t, n) /\ SessionOK(v, n)
  BY <1>1, <1>3, <1>4, <1>5 DEF SessionOK
<1>7. Tracks(s, t, n) /\ Tracks(s, v, n)
  BY <1>4, <1>5, <1>6 DEF Tracks
<1> QED
  BY <1>4, <1>5, <1>7 DEF t, v

LEMMA ScheduleTracks ==
    ASSUME NEW n \in Nat, NEW s, SessionOK(s, n)
    PROVE  Tracks(s, ScheduleFence(s), n) /\ ScheduleFence(s).draft = s.draft
<1> DEFINE t == CancelFence(s)  v == ScheduleFence(s)
<1>1. /\ Tracks(s, t, n) /\ t.draft = s.draft /\ t.active = s.active
      /\ ~In(Fence, t.writers)
  BY CancelTracks
<1>2. v = [t EXCEPT !.fence = "waiting", !.fenced = s.active]
  BY DEF ScheduleFence
<1> HIDE DEF t, v
<1>3. t \in SessionType(n) /\ SessionOK(t, n) /\ s.active \in ActiveType \cup {None}
  BY <1>1 DEF Tracks, SessionOK, SessionType
<1>4. v \in SessionType(n)
  BY <1>2, <1>3 DEF SessionType
<1>5. /\ v.active = t.active /\ v.unavailable = t.unavailable /\ v.writers = t.writers
      /\ v.draft = t.draft /\ v.name = t.name /\ v.fence = "waiting"
      /\ v.submitted = t.submitted /\ v.submitters = t.submitters
  BY <1>2, <1>3 DEF SessionType
<1>6. SessionOK(v, n)
  BY <1>1, <1>3, <1>4, <1>5 DEF SessionOK
<1> QED
  BY <1>1, <1>5, <1>6 DEF Tracks, v

\* The active command, or that it is unavailable, is set.
LEMMA SetTracks ==
    ASSUME NEW n \in Nat, NEW s, SessionOK(s, n),
           NEW a \in ActiveType \cup {None}, NEW u \in UnavailableType \cup {None},
           a # None => u = None,
           NEW t, t = [s EXCEPT !.active = a, !.unavailable = u]
    PROVE  Tracks(s, t, n) /\ t.draft = s.draft /\ t.active = a
<1>1. s \in SessionType(n) /\ SessionOK(s, n)
  BY DEF SessionOK
<1>2. t \in SessionType(n)
  BY <1>1 DEF SessionType
<1>3. /\ t.active = a /\ t.unavailable = u /\ t.writers = s.writers
      /\ t.fence = s.fence /\ t.draft = s.draft /\ t.name = s.name
      /\ t.submitted = s.submitted /\ t.submitters = s.submitters
  BY <1>1 DEF SessionType
<1>4. SessionOK(t, n)
  BY <1>1, <1>2, <1>3 DEF SessionOK
<1> QED
  BY <1>3, <1>4 DEF Tracks

LEMMA LaterTracks ==
    ASSUME NEW n \in Nat, NEW s, SessionOK(s, n), NEW revision \in 0..n
    PROVE  Tracks(s, Later(s, revision), n) /\ Later(s, revision).draft = s.draft
<1> DEFINE t == Later(s, revision)  k == IF s.revision < revision THEN revision ELSE s.revision
<1>1. s \in SessionType(n) /\ SessionOK(s, n) /\ s.revision \in 0..n
  BY DEF SessionOK, SessionType
<1>2. t = [s EXCEPT !.revision = k] /\ k \in 0..n
  BY <1>1 DEF Later
<1> HIDE DEF t, k
<1>3. t \in SessionType(n)
  BY <1>1, <1>2 DEF SessionType
<1>4. /\ t.active = s.active /\ t.unavailable = s.unavailable /\ t.writers = s.writers
      /\ t.fence = s.fence /\ t.draft = s.draft /\ t.name = s.name
      /\ t.submitted = s.submitted /\ t.submitters = s.submitters
  BY <1>1, <1>2 DEF SessionType
<1>5. SessionOK(t, n)
  BY <1>1, <1>3, <1>4 DEF SessionOK
<1> QED
  BY <1>4, <1>5 DEF Tracks, t

LEMMA ResetTracks ==
    ASSUME NEW n \in Nat, NEW s, SessionOK(s, n), NEW allowed \in BOOLEAN
    PROVE  /\ Tracks(s, ResetTracking(s, allowed), n)
           /\ ResetTracking(s, allowed).draft = <<>>
<1> DEFINE t == InvalidateActive(s)  v == ResetTracking(s, allowed)
<1>1. Tracks(s, t, n)
  BY InvalidateTracks
<1>2. v = [t EXCEPT !.draft = <<>>, !.tracked = FALSE, !.synced = FALSE,
                    !.startAllowed = allowed]
  BY DEF ResetTracking
<1> HIDE DEF t, v
<1>3. t \in SessionType(n) /\ SessionOK(t, n)
  BY <1>1 DEF Tracks, SessionOK
<1>4. v \in SessionType(n)
  BY <1>2, <1>3, NoneIsNone DEF SessionType
<1>5. /\ v.active = t.active /\ v.unavailable = t.unavailable /\ v.writers = t.writers
      /\ v.fence = t.fence /\ v.draft = <<>> /\ v.name = t.name
      /\ v.submitted = t.submitted /\ v.submitters = t.submitters
  BY <1>2, <1>3 DEF SessionType
<1>6. SessionOK(v, n)
  BY <1>3, <1>4, <1>5 DEF SessionOK
<1> QED
  BY <1>1, <1>5, <1>6 DEF Tracks, v

LEMMA StoredTracks ==
    ASSUME NEW n \in Nat, NEW s, SessionOK(s, n), NEW o, o.revision \in 0..n,
           o.text \in Texts
    PROVE  Tracks(s, StoredDraft(s, o), n) /\ StoredDraft(s, o).draft = o.text
<1> DEFINE t == Later(s, o.revision)  v == StoredDraft(s, o)
<1>1. Tracks(s, t, n)
  BY LaterTracks
<1>2. v = [t EXCEPT !.draft = o.text, !.tracked = TRUE, !.synced = TRUE,
                    !.startAllowed = FALSE]
  BY DEF StoredDraft
<1> HIDE DEF t, v
<1>3. t \in SessionType(n) /\ SessionOK(t, n)
  BY <1>1 DEF Tracks, SessionOK
<1>4. v \in SessionType(n)
  BY <1>2, <1>3 DEF SessionType
<1>5. /\ v.active = t.active /\ v.unavailable = t.unavailable /\ v.writers = t.writers
      /\ v.fence = t.fence /\ v.draft = o.text /\ v.name = t.name
      /\ v.submitted = t.submitted /\ v.submitters = t.submitters
  BY <1>2, <1>3 DEF SessionType
<1>6. SessionOK(v, n)
  BY <1>3, <1>4, <1>5 DEF SessionOK
<1> QED
  BY <1>1, <1>5, <1>6 DEF Tracks, v

-----------------------------------------------------------------------------
(* Commands *)

Places == {"idle", "submission", "fence", "seed", "write", "send", "reply"}
Kinds == {"none", "sync", "enter", "submit", "input", "clear", "rename"}
Steps == {"none", "sync", "commit", "raw", "clear", "rename"}
Modes == {"none", "start", "continue", "unavailable", "plain", "accept"}
CommandType(n) ==
    [at : Places, kind : Kinds, step : Steps, mode : Modes, name : Names,
     from : Texts, text : Texts \cup {<<"k">>}, revision : 0..n,
     request : Requests \cup {NoRequest}, active : ActiveType \cup {None},
     unavailable : UnavailableType \cup {None}, start : Nat \cup {NoStart},
     record : BOOLEAN]

\* Where a command holds the write lock, or waits for it.
Writing == {"write", "send", "reply"}
\* The step a command of each kind may be at, once it is past the locks.
Suits(o) ==
    \/ o.step = "sync" /\ o.kind \in {"sync", "submit"}
    \/ o.step = "commit" /\ o.kind \in {"enter", "submit"}
    \/ o.step = "raw" /\ o.kind = "input"
    \/ o.step = "clear" /\ o.kind = "clear"
    \/ o.step = "rename" /\ o.kind = "rename" /\ o.mode = "none"

\* What a command is, wherever it is.
Coherent(o) ==
    /\ o.kind = "submit" <=> o.request # NoRequest
    /\ o.kind = "submit" => o.text = TextOf[o.request]
    /\ o.kind # "input" => o.text \in Texts
    /\ o.mode \in {"continue", "accept"} => o.active # None
    /\ o.mode = "unavailable" => o.unavailable # None
CommandOK(o) ==
    /\ Coherent(o)
    /\ o.at = "idle" => o = NoCommand
    /\ o.at = "submission" => o.kind = "submit"
    /\ o.at = "fence" => o.kind \in {"submit", "enter"}
    /\ o.at \in {"seed", "write", "send", "reply"} => Suits(o)
    /\ o.at \in {"send", "reply"} => o.step # "rename"
    /\ o.at = "send" => Captures(o)

\* A command computes its keys from the draft and commits its own text.
InStep(s, o) ==
    /\ o.at \in {"seed", "write", "send"} /\ o.step = "sync" => o.from = s.draft
    /\ o.kind = "submit" /\ (\/ o.at = "fence"
                             \/ o.at \in {"seed", "write", "send"} /\ o.step = "commit")
         => s.draft = o.text

Aligned(p) == InStep(p.session, p.command)
Committable(s, o) == o.kind = "submit" => s.draft = o.text

\* Planning a command up to its next await moves nothing of the record but the
\* tracking, and queues the connection if it goes on to write.
Onward(s, c, o, p, n) ==
    /\ SessionOK(p.session, n)
    /\ p.command \in CommandType(n) /\ CommandOK(p.command)
    /\ p.session.name = s.name /\ p.session.draft = s.draft
    /\ p.session.submitted = s.submitted /\ p.session.submitters = s.submitters
    /\ \A d \in Conns : In(d, p.session.writers)
                          <=> In(d, s.writers) \/ (d = c /\ p.command.at \in Writing)
    /\ \/ p.command = NoCommand /\ o.kind # "submit"
       \/ /\ p.command.at \in {"fence", "seed", "write"}
          /\ p.command.kind = o.kind /\ p.command.request = o.request
          /\ p.command.text = o.text /\ p.command.name \in {o.name, s.name}

LEMMA NoCommandOK ==
    ASSUME NEW n \in Nat
    PROVE  NoCommand \in CommandType(n) /\ CommandOK(NoCommand)
<1>1. 0 \in 0..n /\ <<>> \in Texts /\ NoRequest \notin Requests
  BY NoneIsNone
<1>2. NoCommand \in CommandType(n)
  BY <1>1 DEF NoCommand, CommandType, Places, Kinds, Steps, Modes, Names
<1>3. /\ NoCommand.at = "idle" /\ NoCommand.kind = "none" /\ NoCommand.mode = "none"
      /\ NoCommand.request = NoRequest /\ NoCommand.text = <<>>
  BY DEF NoCommand
<1> QED
  BY <1>1, <1>2, <1>3 DEF CommandOK, Coherent

LEMMA SessionLater ==
    ASSUME NEW n \in Nat, NEW s, SessionOK(s, n)
    PROVE  SessionOK(s, n + 1)
<1>1. 0..n \subseteq 0..(n + 1)
  OBVIOUS
<1>2. s \in SessionType(n)
  BY DEF SessionOK
<1>3. s \in SessionType(n + 1)
  BY <1>1, <1>2 DEF SessionType
<1> QED
  BY <1>3 DEF SessionOK

LEMMA CommandLater ==
    ASSUME NEW n \in Nat, NEW o \in CommandType(n)
    PROVE  o \in CommandType(n + 1)
<1>1. 0..n \subseteq 0..(n + 1)
  OBVIOUS
<1> QED
  BY <1>1 DEF CommandType

\* A connection queues for the write lock, and the holder releases it.
LEMMA QueuedOK ==
    ASSUME NEW n \in Nat, NEW s, SessionOK(s, n), NEW c \in Conns, ~In(c, s.writers)
    PROVE  /\ SessionOK(Queued(s, c), n)
           /\ Queued(s, c).name = s.name /\ Queued(s, c).draft = s.draft
           /\ Queued(s, c).submitted = s.submitted
           /\ Queued(s, c).submitters = s.submitters
           /\ Queued(s, c).active = s.active
           /\ Queued(s, c).revision = s.revision
           /\ \A d \in Conns : In(d, Queued(s, c).writers) <=> In(d, s.writers) \/ d = c
<1> DEFINE t == Queued(s, c)  w == Append(s.writers, c)
<1>1. s \in SessionType(n) /\ s.writers \in Seq(Conns \cup {Fence}) /\ Once(s.writers)
  BY DEF SessionOK, SessionType
<1>2. /\ w \in Seq(Conns \cup {Fence}) /\ Once(w)
      /\ \A y : In(y, w) <=> In(y, s.writers) \/ y = c
  BY <1>1, QueuedOnce
<1>3. t = [s EXCEPT !.writers = w]
  BY DEF Queued
<1> HIDE DEF t, w
<1>4. t \in SessionType(n)
  BY <1>1, <1>2, <1>3 DEF SessionType
<1>5. /\ t.active = s.active /\ t.unavailable = s.unavailable /\ t.writers = w
      /\ t.fence = s.fence /\ t.draft = s.draft /\ t.name = s.name
      /\ t.submitted = s.submitted /\ t.submitters = s.submitters
      /\ t.revision = s.revision
  BY <1>1, <1>3 DEF SessionType
<1>6. SessionOK(t, n)
  BY <1>2, <1>4, <1>5, NoneIsNone DEF SessionOK
<1> QED
  BY <1>2, <1>5, <1>6 DEF t

LEMMA ReleasedOK ==
    ASSUME NEW n \in Nat, NEW s, SessionOK(s, n), NEW c \in Conns,
           In(c, s.writers), Head(s.writers) = c
    PROVE  /\ SessionOK(Released(s), n)
           /\ Released(s).name = s.name /\ Released(s).draft = s.draft
           /\ Released(s).submitted = s.submitted
           /\ Released(s).submitters = s.submitters
           /\ Released(s).active = s.active
           /\ \A d \in Conns : In(d, Released(s).writers) <=> In(d, s.writers) /\ d # c
<1> DEFINE t == Released(s)  w == Tail(s.writers)
<1>1. s \in SessionType(n) /\ s.writers \in Seq(Conns \cup {Fence}) /\ Once(s.writers)
  BY DEF SessionOK, SessionType
<1>2. /\ w \in Seq(Conns \cup {Fence}) /\ Once(w)
      /\ \A y : In(y, w) <=> In(y, s.writers) /\ y # c
  BY <1>1, ReleasedOnce
<1>3. t = [s EXCEPT !.writers = w]
  BY DEF Released
<1> HIDE DEF t, w
<1>4. t \in SessionType(n)
  BY <1>1, <1>2, <1>3 DEF SessionType
<1>5. /\ t.active = s.active /\ t.unavailable = s.unavailable /\ t.writers = w
      /\ t.fence = s.fence /\ t.draft = s.draft /\ t.name = s.name
      /\ t.submitted = s.submitted /\ t.submitters = s.submitters
  BY <1>1, <1>3 DEF SessionType
<1>6. SessionOK(t, n)
  <2>1. In(Fence, w) <=> In(Fence, s.writers)
    BY <1>2, ConnAssumption DEF Fence
  <2> QED
    BY <1>2, <1>4, <1>5, <2>1 DEF SessionOK
<1> QED
  BY <1>2, <1>5, <1>6 DEF t

LEMMA PlanCommitOnward ==
    ASSUME NEW n \in Nat, NEW s, SessionOK(s, n), NEW c \in Conns, ~In(c, s.writers),
           NEW o \in CommandType(n), Coherent(o), o.kind \in {"enter", "submit"}
    PROVE  /\ Onward(s, c, o, PlanCommit(s, c, o), n)
           /\ Committable(s, o) => Aligned(PlanCommit(s, c, o))
<1> DEFINE mayAccept == /\ s.active # None
                        /\ s.active.owner = c
                        /\ s.active.draft = s.draft
                        /\ s.active.revision = s.revision
                        /\ s.tracked /\ s.synced
                        /\ o.revision > s.active.revision
           t == IF mayAccept THEN s ELSE InvalidateActive(s)
           p == [o EXCEPT !.step = "commit", !.name = s.name, !.start = NoStart,
                          !.mode = IF mayAccept THEN "accept" ELSE "plain",
                          !.active = t.active, !.unavailable = s.unavailable]
           r == ReadGeneration(t, c)  v == Queued(t, c)
           q == PlanCommit(s, c, o)
<1>1. q = IF mayAccept THEN Plan(r, [p EXCEPT !.at = "seed"])
                       ELSE Plan(v, [p EXCEPT !.at = "write"])
  BY DEF PlanCommit
<1>2. PICK m \in BOOLEAN : (m <=> mayAccept) /\ (m => s.active # None)
  OBVIOUS
<1>3. t = IF m THEN s ELSE InvalidateActive(s)
  BY <1>2
<1>4. /\ SessionOK(t, n) /\ t.name = s.name /\ t.draft = s.draft
      /\ t.submitted = s.submitted /\ t.submitters = s.submitters
      /\ \A d \in Conns : In(d, t.writers) <=> In(d, s.writers)
      /\ m => t.active # None
  <2> HIDE DEF t
  <2>1. CASE m
    BY <1>2, <1>3, <2>1
  <2>2. CASE ~m
    <3>1. Tracks(s, InvalidateActive(s), n) /\ InvalidateActive(s).draft = s.draft
      BY InvalidateTracks
    <3> QED
      BY <1>3, <2>2, <3>1 DEF Tracks
  <2> QED
    BY <2>1, <2>2
<1>5. p = [o EXCEPT !.step = "commit", !.name = s.name, !.start = NoStart,
                    !.mode = IF m THEN "accept" ELSE "plain",
                    !.active = t.active, !.unavailable = s.unavailable]
  BY <1>2
<1>6. q = IF m THEN Plan(r, [p EXCEPT !.at = "seed"]) ELSE Plan(v, [p EXCEPT !.at = "write"])
  BY <1>1, <1>2
<1> HIDE DEF mayAccept, t, p, q
<1>7. /\ t.active \in ActiveType \cup {None} /\ s.unavailable \in UnavailableType \cup {None}
      /\ s.name \in Names
  BY <1>4 DEF SessionOK, SessionType
<1>8. p \in CommandType(n)
  <2>1. PICK x, y : x = (IF m THEN "accept" ELSE "plain") /\ y = "commit"
    OBVIOUS
  <2>2. x \in Modes /\ y \in Steps
    BY <2>1 DEF Modes, Steps
  <2>3. NoStart \in Nat \cup {NoStart}
    OBVIOUS
  <2>4. p = [o EXCEPT !.step = y, !.name = s.name, !.start = NoStart, !.mode = x,
                      !.active = t.active, !.unavailable = s.unavailable]
    BY <1>5, <2>1
  <2>5. PICK a, b, e : a = t.active /\ b = s.unavailable /\ e = s.name
    OBVIOUS
  <2>6. p = [o EXCEPT !.step = y, !.name = e, !.start = NoStart, !.mode = x,
                      !.active = a, !.unavailable = b]
    BY <2>4, <2>5
  <2>7. /\ a \in ActiveType \cup {None} /\ b \in UnavailableType \cup {None}
        /\ e \in Names
    BY <1>7, <2>5
  <2> QED
    BY <2>2, <2>3, <2>6, <2>7 DEF CommandType
<1>9. /\ p.step = "commit" /\ p.name = s.name /\ p.mode = (IF m THEN "accept" ELSE "plain")
      /\ p.active = t.active /\ p.kind = o.kind /\ p.request = o.request /\ p.text = o.text
  BY <1>5 DEF CommandType
<1> DEFINE x == IF m THEN r ELSE v  a == IF m THEN "seed" ELSE "write"
           y == [p EXCEPT !.at = a]
<1>10. q = Plan(x, y)
  BY <1>6
<1>11. q.session = x /\ q.command = y
  BY <1>10 DEF Plan
<1>12. a \in {"seed", "write"} /\ (a = "seed" <=> m) /\ a \in Places
  BY DEF Places
<1> HIDE DEF a
<1>13. /\ y \in CommandType(n) /\ y.at = a
       /\ y.step = "commit" /\ y.name = s.name /\ y.mode = (IF m THEN "accept" ELSE "plain")
       /\ y.active = t.active /\ y.kind = o.kind /\ y.request = o.request /\ y.text = o.text
  BY <1>8, <1>9, <1>12 DEF CommandType
<1>14. /\ SessionOK(x, n) /\ x.name = s.name /\ x.draft = s.draft
       /\ x.submitted = s.submitted /\ x.submitters = s.submitters
       /\ \A d \in Conns : In(d, x.writers) <=> In(d, s.writers) \/ (d = c /\ ~m)
  <2>1. CASE m
    <3>1. Tracks(t, r, n) /\ r.draft = t.draft
      BY <1>4, ReadTracks
    <3> QED
      BY <1>4, <2>1, <3>1 DEF Tracks
  <2>2. CASE ~m
    <3>1. ~In(c, t.writers)
      BY <1>4
    <3>2. /\ SessionOK(v, n) /\ v.name = t.name /\ v.draft = t.draft
          /\ v.submitted = t.submitted /\ v.submitters = t.submitters
          /\ \A d \in Conns : In(d, v.writers) <=> In(d, t.writers) \/ d = c
      BY <1>4, <3>1, QueuedOK
    <3> QED
      BY <1>4, <2>2, <3>2
  <2> QED
    BY <2>1, <2>2
<1> HIDE DEF x, y
<1>15. Coherent(y)
  BY <1>4, <1>13 DEF Coherent
<1>16. CommandOK(y)
  BY <1>12, <1>13, <1>15 DEF CommandOK, Suits
<1>17. Committable(s, o) => InStep(x, y)
  BY <1>13, <1>14 DEF InStep, Committable
<1>18. \A d \in Conns : In(d, x.writers) <=> In(d, s.writers) \/ (d = c /\ y.at \in Writing)
  BY <1>12, <1>13, <1>14 DEF Writing
<1>19. /\ y.name \in {o.name, s.name} /\ y.at \in {"fence", "seed", "write"}
  BY <1>12, <1>13
<1> QED
  BY <1>11, <1>13, <1>14, <1>16, <1>17, <1>18, <1>19 DEF Onward, Aligned, q

LEMMA SettleOnward ==
    ASSUME NEW n \in Nat, NEW s, SessionOK(s, n), NEW c \in Conns, ~In(c, s.writers),
           NEW o \in CommandType(n), Coherent(o), o.kind \in {"enter", "submit"}
    PROVE  /\ Onward(s, c, o, SettleThenCommit(s, c, o), n)
           /\ Committable(s, o) => Aligned(SettleThenCommit(s, c, o))
<1>1. CASE s.fence = "none"
  BY <1>1, PlanCommitOnward DEF SettleThenCommit
<1>2. CASE s.fence # "none"
  <2> DEFINE y == [o EXCEPT !.at = "fence"]  q == SettleThenCommit(s, c, o)
  <2>1. q.session = s /\ q.command = y
    BY <1>2 DEF SettleThenCommit, Plan
  <2>2. /\ y \in CommandType(n) /\ y.at = "fence" /\ y.kind = o.kind /\ y.request = o.request
        /\ y.text = o.text /\ y.name = o.name /\ y.mode = o.mode /\ y.active = o.active
        /\ y.unavailable = o.unavailable
    BY DEF CommandType, Places
  <2> HIDE DEF y
  <2>3. CommandOK(y)
    BY <2>2 DEF CommandOK, Coherent
  <2>4. Committable(s, o) => InStep(s, y)
    BY <2>2 DEF InStep, Committable
  <2>5. \A d \in Conns : In(d, s.writers) <=> In(d, s.writers) \/ (d = c /\ y.at \in Writing)
    BY <2>2 DEF Writing
  <2> HIDE DEF q
  <2> QED
    BY <2>1, <2>2, <2>3, <2>4, <2>5 DEF Onward, Aligned, q
<1> QED
  BY <1>1, <1>2

LEMMA DoneOK ==
    ASSUME NEW n \in Nat, NEW s, SessionOK(s, n), NEW c \in Conns
    PROVE  /\ Done(s, c).command = NoCommand
           /\ Tracks(s, Done(s, c).session, n) /\ Done(s, c).session.draft = s.draft
<1> DEFINE t == [s EXCEPT !.current = @ \ {c}]
<1>1. Done(s, c).command = NoCommand /\ Done(s, c).session = t
  BY DEF Done, Plan
<1>2. Tracks(s, t, n) /\ t.draft = s.draft
  BY ReadTracks
<1> QED
  BY <1>1, <1>2

LEMMA DoneOnward ==
    ASSUME NEW n \in Nat, NEW s, SessionOK(s, n), NEW c \in Conns,
           NEW o, o.kind # "submit"
    PROVE  Onward(s, c, o, Done(s, c), n) /\ Aligned(Done(s, c))
<1> DEFINE q == Done(s, c)
<1>1. q.command = NoCommand /\ Tracks(s, q.session, n) /\ q.session.draft = s.draft
  BY DoneOK
<1>2. NoCommand \in CommandType(n) /\ CommandOK(NoCommand)
  BY NoCommandOK
<1>3. NoCommand.at = "idle" /\ NoCommand.kind = "none"
  BY DEF NoCommand
<1> HIDE DEF q
<1>4. InStep(q.session, q.command)
  BY <1>1, <1>3 DEF InStep
<1>5. q.command.at \notin Writing
  BY <1>1, <1>3 DEF Writing
<1> QED
  BY <1>1, <1>2, <1>4, <1>5 DEF Onward, Tracks, Aligned, q

LEMMA AfterSyncOnward ==
    ASSUME NEW n \in Nat, NEW s, SessionOK(s, n), NEW c \in Conns, ~In(c, s.writers),
           NEW o \in CommandType(n), Coherent(o), o.kind \in {"sync", "submit"}
    PROVE  /\ Onward(StoredDraft(s, o), c, o, AfterSync(s, c, o), n) /\ Aligned(AfterSync(s, c, o))
           /\ Tracks(s, StoredDraft(s, o), n) /\ StoredDraft(s, o).draft = o.text
<1> DEFINE t == StoredDraft(s, o)
<1>1. o.revision \in 0..n /\ o.text \in Texts
  BY DEF CommandType, Coherent
<1>2. Tracks(s, t, n) /\ t.draft = o.text
  BY <1>1, StoredTracks
<1> HIDE DEF t
<1>3. SessionOK(t, n) /\ ~In(c, t.writers)
  BY <1>2 DEF Tracks
<1>4. CASE o.kind = "submit"
  <2>1. Onward(t, c, o, SettleThenCommit(t, c, o), n) /\ Aligned(SettleThenCommit(t, c, o))
    BY <1>2, <1>3, <1>4, SettleOnward DEF Committable
  <2>2. AfterSync(s, c, o) = SettleThenCommit(t, c, o)
    BY <1>4 DEF AfterSync, t
  <2> QED
    BY <1>2, <2>1, <2>2 DEF t
<1>5. CASE o.kind # "submit"
  <2>1. Onward(t, c, o, Done(t, c), n) /\ Aligned(Done(t, c))
    BY <1>3, <1>5, DoneOnward
  <2>2. AfterSync(s, c, o) = Done(t, c)
    BY <1>5 DEF AfterSync, t
  <2> QED
    BY <1>2, <2>1, <2>2 DEF t
<1> QED
  BY <1>4, <1>5

\* The write of a draft is planned.
LEMMA WriteOnward ==
    ASSUME NEW n \in Nat, NEW s, NEW c \in Conns, NEW o, NEW x, NEW p, NEW y, NEW a,
           SessionOK(x, n), x.name = s.name, x.draft = s.draft,
           x.submitted = s.submitted, x.submitters = s.submitters,
           a \in {"seed", "write"},
           \A d \in Conns : In(d, x.writers) <=> In(d, s.writers) \/ (d = c /\ a = "write"),
           p \in CommandType(n), Coherent(p), p.step = "sync", p.from = s.draft,
           p.kind \in {"sync", "submit"}, p.kind = o.kind, p.request = o.request,
           p.text = o.text, p.name = o.name, y = [p EXCEPT !.at = a]
    PROVE  Onward(s, c, o, Plan(x, y), n) /\ Aligned(Plan(x, y))
<1>1. a \in Places
  BY DEF Places
<1>2. /\ y \in CommandType(n) /\ y.at = a /\ y.step = "sync" /\ y.from = s.draft
      /\ y.kind = o.kind /\ y.request = o.request /\ y.text = o.text
      /\ y.name = o.name /\ y.mode = p.mode /\ y.active = p.active
      /\ y.unavailable = p.unavailable
  BY <1>1 DEF CommandType
<1>3. Coherent(y)
  BY <1>2 DEF Coherent
<1>4. CommandOK(y)
  BY <1>2, <1>3 DEF CommandOK, Suits
<1>5. InStep(x, y)
  BY <1>2 DEF InStep
<1>6. \A d \in Conns : In(d, x.writers) <=> In(d, s.writers) \/ (d = c /\ y.at \in Writing)
  BY <1>2 DEF Writing
<1>7. Plan(x, y).session = x /\ Plan(x, y).command = y
  BY DEF Plan
<1> DEFINE q == Plan(x, y)
<1> HIDE DEF q
<1>8. q.session = x /\ q.command = y
  BY <1>7 DEF q
<1>9. Onward(s, c, o, q, n) /\ Aligned(q)
  BY <1>2, <1>4, <1>5, <1>6, <1>8 DEF Onward, Aligned
<1> QED
  BY <1>9 DEF q

LEMMA PlanSyncOnward ==
    ASSUME NEW n \in Nat, NEW s, SessionOK(s, n), NEW c \in Conns, ~In(c, s.writers),
           NEW o \in CommandType(n), Coherent(o), o.kind \in {"sync", "submit"},
           NEW direct \in BOOLEAN
    PROVE  /\ Onward(s, c, o, PlanSync(s, c, o, direct), n)
           /\ Aligned(PlanSync(s, c, o, direct))
<1> DEFINE mode == IF direct /\ CanStart(s, o) THEN "start"
                   ELSE IF direct /\ CanContinue(s, c, o) THEN "continue"
                   ELSE IF direct /\ CanContinueUnavailable(s, c, o) THEN "unavailable"
                   ELSE "plain"
           unchanged == o.text = s.draft
           t == IF mode # "plain" THEN ReadGeneration(s, c)
                ELSE IF unchanged /\ s.unavailable # None THEN s
                ELSE InvalidateActive(s)
           p == [o EXCEPT !.step = "sync", !.mode = mode, !.from = s.draft,
                          !.active = IF mode = "continue" THEN s.active ELSE None,
                          !.unavailable = s.unavailable]
           q == PlanSync(s, c, o, direct)
<1>1. q = CASE mode = "start" -> Plan(t, [p EXCEPT !.at = "seed"])
            [] mode = "continue" ->
                   Plan(Queued(CancelFence(t), c), [p EXCEPT !.at = "write"])
            [] mode = "plain" /\ unchanged -> AfterSync(t, c, p)
            [] OTHER -> Plan(Queued(t, c), [p EXCEPT !.at = "write"])
  BY DEF PlanSync
<1>2. /\ mode \in {"start", "continue", "unavailable", "plain"}
      /\ mode = "continue" => s.active # None
      /\ mode = "unavailable" => s.unavailable # None
  BY DEF CanContinue, CanContinueUnavailable
<1> HIDE DEF mode
<1>3. PICK m : m = mode
  OBVIOUS
<1>4. Tracks(s, t, n) /\ t.draft = s.draft
  <2>1. Tracks(s, s, n)
    BY DEF Tracks
  <2>2. Tracks(s, ReadGeneration(s, c), n) /\ ReadGeneration(s, c).draft = s.draft
    BY ReadTracks
  <2>3. Tracks(s, InvalidateActive(s), n) /\ InvalidateActive(s).draft = s.draft
    BY InvalidateTracks
  <2> QED
    BY <2>1, <2>2, <2>3
<1> DEFINE a == IF mode = "continue" THEN s.active ELSE None
<1>5. /\ a \in ActiveType \cup {None} /\ s.unavailable \in UnavailableType \cup {None}
      /\ s.draft \in Texts /\ m \in Modes /\ "sync" \in Steps
      /\ m = "continue" => a # None
  BY <1>2, <1>3 DEF SessionOK, SessionType, Modes, Steps
<1>6. p = [o EXCEPT !.step = "sync", !.mode = m, !.from = s.draft,
                    !.active = a, !.unavailable = s.unavailable]
  BY <1>3
<1> HIDE DEF t, p, q, a
<1>7. p \in CommandType(n)
  BY <1>5, <1>6 DEF CommandType
<1>8. /\ p.step = "sync" /\ p.mode = m /\ p.from = s.draft /\ p.active = a
      /\ p.unavailable = s.unavailable /\ p.kind = o.kind /\ p.request = o.request
      /\ p.text = o.text /\ p.name = o.name
  BY <1>6 DEF CommandType
<1>9. Coherent(p)
  BY <1>2, <1>3, <1>5, <1>8 DEF Coherent
<1>10. SessionOK(t, n) /\ ~In(c, t.writers)
  BY <1>4 DEF Tracks
<1>11. CASE m = "start"
  <2>1. q = Plan(t, [p EXCEPT !.at = "seed"])
    BY <1>1, <1>3, <1>11
  <2>2. PICK y : y = [p EXCEPT !.at = "seed"]
    OBVIOUS
  <2>3. Onward(s, c, o, Plan(t, y), n) /\ Aligned(Plan(t, y))
    <3>1. PICK b : b = "seed"
      OBVIOUS
    <3>2. \A d \in Conns : In(d, t.writers) <=> In(d, s.writers) \/ (d = c /\ b = "write")
      BY <1>4, <3>1 DEF Tracks
    <3>3. y = [p EXCEPT !.at = b] /\ b \in {"seed", "write"}
      BY <2>2, <3>1
    <3>4. /\ t.name = s.name /\ t.draft = s.draft
          /\ t.submitted = s.submitted /\ t.submitters = s.submitters
      BY <1>4 DEF Tracks
    <3> QED
      BY <1>7, <1>8, <1>9, <1>10, <3>2, <3>3, <3>4, WriteOnward
  <2> QED
    BY <2>1, <2>2, <2>3 DEF q
<1> DEFINE u == IF m = "continue" THEN CancelFence(t) ELSE t
<1>12. CASE m = "plain" /\ unchanged
  <2>1. q = AfterSync(t, c, p)
    BY <1>1, <1>3, <1>12
  <2>2. p.kind \in {"sync", "submit"}
    BY <1>8
  <2>3. /\ Onward(StoredDraft(t, p), c, p, AfterSync(t, c, p), n)
        /\ Aligned(AfterSync(t, c, p))
        /\ Tracks(t, StoredDraft(t, p), n) /\ StoredDraft(t, p).draft = p.text
    BY <1>7, <1>9, <1>10, <2>2, AfterSyncOnward
  <2>4. PICK v : v = StoredDraft(t, p)
    OBVIOUS
  <2>5. Onward(v, c, p, q, n) /\ Aligned(q) /\ Tracks(t, v, n) /\ v.draft = s.draft
    BY <1>8, <1>12, <2>1, <2>3, <2>4
  <2>6. Tracks(s, v, n)
    BY <1>4, <2>5 DEF Tracks
  <2>7. Onward(s, c, o, q, n)
    BY <1>8, <2>5, <2>6 DEF Onward, Tracks
  <2> QED
    BY <2>5, <2>7 DEF q
<1>13. CASE m # "start" /\ ~(m = "plain" /\ unchanged)
  <2>1. q = Plan(Queued(u, c), [p EXCEPT !.at = "write"])
    BY <1>1, <1>3, <1>13
  <2>2. Tracks(s, u, n) /\ u.draft = s.draft
    <3>1. Tracks(t, CancelFence(t), n) /\ CancelFence(t).draft = t.draft
      BY <1>10, CancelTracks
    <3>2. Tracks(s, CancelFence(t), n)
      BY <1>4, <3>1 DEF Tracks
    <3> QED
      BY <1>4, <3>1, <3>2
  <2> HIDE DEF u
  <2>3. SessionOK(u, n) /\ ~In(c, u.writers)
    BY <2>2 DEF Tracks
  <2>4. PICK x : x = Queued(u, c)
    OBVIOUS
  <2>5. /\ SessionOK(x, n) /\ x.name = u.name /\ x.draft = u.draft
        /\ x.submitted = u.submitted /\ x.submitters = u.submitters
        /\ \A d \in Conns : In(d, x.writers) <=> In(d, u.writers) \/ d = c
    BY <2>3, <2>4, QueuedOK
  <2>6. PICK y, b : b = "write" /\ y = [p EXCEPT !.at = b]
    OBVIOUS
  <2>7. /\ x.name = s.name /\ x.draft = s.draft
        /\ x.submitted = s.submitted /\ x.submitters = s.submitters
        /\ \A d \in Conns : In(d, x.writers) <=> In(d, s.writers) \/ (d = c /\ b = "write")
    BY <2>2, <2>5, <2>6 DEF Tracks
  <2>8. b \in {"seed", "write"}
    BY <2>6
  <2>9. Onward(s, c, o, Plan(x, y), n) /\ Aligned(Plan(x, y))
    BY <1>7, <1>8, <1>9, <2>5, <2>6, <2>7, <2>8, WriteOnward
  <2> QED
    BY <2>1, <2>4, <2>6, <2>9 DEF q
<1> QED
  BY <1>11, <1>12, <1>13

-----------------------------------------------------------------------------
(* The reply of tmux *)

LEMMA SyncRepliedTracks ==
    ASSUME NEW n \in Nat, NEW s, SessionOK(s, n), NEW c \in Conns,
           NEW o \in CommandType(n), Coherent(o), o.kind # "input"
    PROVE  Tracks(s, SyncReplied(s, c, o), n)
<1> DEFINE same == c \in s.current
           started == Active(c, s.name, o.text, o.revision, o.start)
           continued == [o.active EXCEPT !.draft = o.text, !.revision = o.revision,
                                         !.settled = FALSE, !.cells = <<>>]
           known == [o.unavailable EXCEPT !.draft = o.text,
                           !.revision = IF @ < o.revision THEN o.revision ELSE @]
           startable == same /\ o.start # NoStart /\ s.active = None /\ s.unavailable = None
           k == IF o.unavailable.revision < o.revision THEN o.revision
                ELSE o.unavailable.revision
<1>1. SyncReplied(s, c, o) =
        CASE o.mode = "start" -> IF startable THEN ScheduleFence([s EXCEPT !.active = started])
                                 ELSE MarkUnavailable(s, Unknown(s, c, o))
          [] o.mode = "continue" -> IF same /\ s.active = o.active
                                    THEN ScheduleFence([s EXCEPT !.active = continued])
                                    ELSE MarkUnavailable(s, Unknown(s, c, o))
          [] o.mode = "unavailable" -> IF same /\ s.unavailable = o.unavailable
                                       THEN [s EXCEPT !.unavailable = known]
                                       ELSE MarkUnavailable(s, known)
          [] OTHER -> s
  BY DEF SyncReplied
<1>2. /\ o.text \in Texts /\ o.revision \in Nat /\ o.name \in Names
      /\ o.start # NoStart => o.start \in Nat
      /\ o.mode = "continue" => o.active \in ActiveType
      /\ o.mode = "unavailable" => o.unavailable \in UnavailableType
  BY DEF CommandType, Coherent
<1>3. s \in SessionType(n) /\ s.name \in Names
  BY DEF SessionOK, SessionType
<1> HIDE DEF started, continued, known, startable
<1>4. Unknown(s, c, o) \in UnavailableType
  BY <1>2 DEF Unknown, Unavailable, UnavailableType
<1>5. Tracks(s, MarkUnavailable(s, Unknown(s, c, o)), n)
  BY <1>4, MarkTracks
<1>6. Tracks(s, s, n)
  BY DEF Tracks
<1>7. ASSUME NEW a \in ActiveType, s.unavailable = None
      PROVE  Tracks(s, ScheduleFence([s EXCEPT !.active = a]), n)
  <2>1. PICK t : t = [s EXCEPT !.active = a]
    OBVIOUS
  <2>2. t = [s EXCEPT !.active = a, !.unavailable = None]
    BY <1>3, <1>7, <2>1 DEF SessionType
  <2>3. Tracks(s, t, n)
    BY <2>2, SetTracks
  <2>4. SessionOK(t, n)
    BY <2>3 DEF Tracks
  <2>5. Tracks(t, ScheduleFence(t), n)
    BY <2>4, ScheduleTracks
  <2> QED
    BY <2>1, <2>3, <2>5, TracksOn
<1>8. CASE o.mode = "start"
  <2>1. CASE startable
    <3>1. started \in ActiveType
      <4>1. o.start \in Nat /\ <<>> \in Seq(Cell)
        BY <1>2, <2>1 DEF startable
      <4> QED
        BY <1>2, <1>3, <4>1 DEF started, Active, ActiveType
    <3>2. s.unavailable = None
      BY <2>1 DEF startable
    <3> QED
      BY <1>1, <1>7, <1>8, <2>1, <3>1, <3>2
  <2> QED
    BY <1>1, <1>5, <1>8, <2>1
<1>9. CASE o.mode = "continue"
  <2>1. CASE same /\ s.active = o.active
    <3>1. <<>> \in Seq(Cell)
      OBVIOUS
    <3>2. continued \in ActiveType
      BY <1>2, <1>9, <3>1 DEF continued, ActiveType
    <3>3. s.unavailable = None
      BY <1>2, <1>9, <2>1, NoneIsNone DEF SessionOK
    <3> QED
      BY <1>1, <1>7, <1>9, <2>1, <3>2, <3>3
  <2> QED
    BY <1>1, <1>5, <1>9, <2>1
<1>10. CASE o.mode = "unavailable"
  <2>1. k \in Nat /\ known = [o.unavailable EXCEPT !.draft = o.text, !.revision = k]
    <3>1. o.unavailable.revision \in Nat
      BY <1>2, <1>10 DEF UnavailableType
    <3> QED
      BY <1>2, <1>10, <3>1 DEF known, UnavailableType
  <2> HIDE DEF k
  <2>2. known \in UnavailableType
    BY <1>2, <1>10, <2>1 DEF UnavailableType
  <2>3. Tracks(s, MarkUnavailable(s, known), n)
    BY <2>2, MarkTracks
  <2>4. CASE same /\ s.unavailable = o.unavailable
    <3>1. s.active = None
      BY <1>2, <1>10, <2>4, NoneIsNone DEF SessionOK
    <3>2. PICK t : t = [s EXCEPT !.unavailable = known]
      OBVIOUS
    <3>3. t = [s EXCEPT !.active = None, !.unavailable = known]
      BY <1>3, <3>1, <3>2 DEF SessionType
    <3>4. PICK a, u : a = None /\ u = known
      OBVIOUS
    <3>5. a \in ActiveType \cup {None} /\ u \in UnavailableType \cup {None} /\ (a # None => u = None)
          /\ t = [s EXCEPT !.active = a, !.unavailable = u]
      BY <2>2, <3>3, <3>4
    <3>6. Tracks(s, t, n)
      BY <3>5, SetTracks
    <3> QED
      BY <1>1, <1>10, <2>4, <3>2, <3>6
  <2> QED
    BY <1>1, <1>10, <2>3, <2>4
<1> QED
  BY <1>1, <1>6, <1>8, <1>9, <1>10

LEMMA EnterRepliedTracks ==
    ASSUME NEW n \in Nat, NEW s, SessionOK(s, n), NEW c \in Conns,
           NEW o \in CommandType(n), Coherent(o)
    PROVE  Tracks(s, EnterReplied(s, c, o), n)
<1>1. CASE o.mode # "accept" \/ s.active # o.active
  BY <1>1 DEF EnterReplied, Tracks
<1>2. CASE o.mode = "accept" /\ s.active = o.active
  <2> DEFINE e == [owner |-> c, draft |-> o.active.draft, cells |-> o.active.cells]
             x == IF o.record /\ c \in s.current THEN s.accepted \cup {e} ELSE s.accepted
             t == EnterReplied(s, c, o)
  <2>1. o.active \in ActiveType
    BY <1>2 DEF CommandType, Coherent
  <2>2. e \in [owner : Conns, draft : Texts, cells : Seq(Cell)]
    BY <2>1 DEF ActiveType
  <2>3. s \in SessionType(n)
    BY DEF SessionOK
  <2>4. t = [s EXCEPT !.active = None, !.accepted = x]
    BY <1>2 DEF EnterReplied
  <2>5. x \in SUBSET [owner : Conns, draft : Texts, cells : Seq(Cell)]
    BY <2>2, <2>3 DEF SessionType
  <2> HIDE DEF t, x
  <2>6. t \in SessionType(n)
    BY <2>3, <2>4, <2>5 DEF SessionType
  <2>7. /\ t.active = None /\ t.unavailable = s.unavailable /\ t.writers = s.writers
        /\ t.fence = s.fence /\ t.draft = s.draft /\ t.name = s.name
        /\ t.submitted = s.submitted /\ t.submitters = s.submitters
    BY <2>3, <2>4 DEF SessionType
  <2>8. SessionOK(t, n)
    BY <2>6, <2>7 DEF SessionOK
  <2> QED
    BY <2>7, <2>8 DEF Tracks, t
<1> QED
  BY <1>1, <1>2

LEMMA CommittedTracks ==
    ASSUME NEW n \in Nat, NEW s, SessionOK(s, n), NEW o \in CommandType(n)
    PROVE  /\ Tracks(s, Committed(s, o), n)
           /\ o.name = s.name => Committed(s, o).draft = <<>>
<1> DEFINE t == Later(s, o.revision)  u == ResetTracking(t, TRUE)
<1>1. o.revision \in 0..n
  BY DEF CommandType
<1>2. Tracks(s, t, n)
  BY <1>1, LaterTracks
<1>3. Committed(s, o) = ByName(o.name, t, u)
  BY DEF Committed
<1> HIDE DEF t
<1>4. SessionOK(t, n) /\ t.name = s.name
  BY <1>2 DEF Tracks
<1>5. Tracks(t, u, n) /\ u.draft = <<>>
  BY <1>4, ResetTracks
<1> HIDE DEF u
<1>6. Tracks(s, u, n)
  BY <1>2, <1>5, TracksOn
<1> QED
  BY <1>2, <1>3, <1>4, <1>5, <1>6 DEF ByName

LEMMA RememberedOne ==
    ASSUME NEW q \in Seq(Requests), NEW r \in Requests
    PROVE  /\ Remembered(q, r) \in Seq(Requests) /\ Len(Remembered(q, r)) <= MaxRemembered
           /\ In(r, Remembered(q, r))
           /\ \A y : In(y, Remembered(q, r)) => In(y, q) \/ y = r
<1> DEFINE all == Append(q, r)  t == Remembered(q, r)
<1>1. PICK m \in Nat : m = Len(q)
  OBVIOUS
<1>2. /\ all \in Seq(Requests) /\ Len(all) = m + 1 /\ all[m + 1] = r
      /\ \A i \in 1..m : all[i] = q[i]
      /\ DOMAIN q = 1..m
  BY <1>1
<1> HIDE DEF all
<1>3. PICK k \in 0..m : /\ k = (IF Len(all) > MaxRemembered THEN Len(all) - MaxRemembered ELSE 0)
                        /\ m + 1 - k <= MaxRemembered
  <2>1. MaxRemembered \in Nat /\ MaxRemembered >= 1
    BY MaxRememberedAssumption
  <2> QED
    BY <1>1, <1>2, <2>1
<1>4. t = SubSeq(all, k + 1, m + 1)
  <2>1. t = SubSeq(all, IF Len(all) > MaxRemembered
                        THEN Len(all) - MaxRemembered + 1 ELSE 1, Len(all))
    BY DEF Remembered, all
  <2>2. (IF Len(all) > MaxRemembered THEN Len(all) - MaxRemembered + 1 ELSE 1) = k + 1
    BY <1>2, <1>3, MaxRememberedAssumption
  <2> QED
    BY <1>2, <2>1, <2>2
<1>5. /\ SubSeq(all, k + 1, m + 1) \in Seq(Requests)
      /\ Len(SubSeq(all, k + 1, m + 1)) = m + 1 - k
      /\ \A i \in 1..(m + 1 - k) : SubSeq(all, k + 1, m + 1)[i] = all[k + i]
  <2>1. PICK l : l = m + 1
    OBVIOUS
  <2>2. k \in 0..Len(all) /\ l \in 0..Len(all) /\ k <= l
    BY <1>2, <2>1
  <2>3. /\ SubSeq(all, k + 1, l) \in Seq(Requests)
        /\ Len(SubSeq(all, k + 1, l)) = l - k
        /\ \A i \in 1..(l - k) : SubSeq(all, k + 1, l)[i] = all[k + i]
    BY <1>2, <2>2, Cut
  <2>4. PICK u : u = SubSeq(all, k + 1, l)
    OBVIOUS
  <2>5. u = SubSeq(all, k + 1, m + 1)
    BY <2>1, <2>4
  <2>6. u \in Seq(Requests) /\ Len(u) = m + 1 - k /\ \A i \in 1..(m + 1 - k) : u[i] = all[k + i]
    BY <2>1, <2>3, <2>4
  <2> QED
    BY <2>5, <2>6
<1> HIDE DEF t
<1>6. PICK l \in Nat : l = m + 1 - k /\ l >= 1 /\ l <= MaxRemembered /\ k + l = m + 1
  BY <1>3
<1>7. t \in Seq(Requests) /\ Len(t) = l /\ DOMAIN t = 1..l /\ \A i \in 1..l : t[i] = all[k + i]
  BY <1>4, <1>5, <1>6
<1>8. In(r, t)
  <2>1. l \in 1..l
    BY <1>6
  <2>2. t[l] = r
    BY <1>2, <1>6, <1>7, <2>1
  <2> QED
    BY <1>7, <2>1, <2>2 DEF In
<1>9. \A y : In(y, t) => In(y, q) \/ y = r
  <2> SUFFICES ASSUME NEW y, In(y, t) PROVE In(y, q) \/ y = r
    OBVIOUS
  <2>1. PICK i \in 1..l : t[i] = y
    BY <1>7 DEF In
  <2>2. k + i \in 1..m \/ k + i = m + 1
    BY <1>6
  <2> QED
    BY <1>2, <1>7, <2>1, <2>2 DEF In
<1> QED
  BY <1>6, <1>7, <1>8, <1>9 DEF t

LEMMA SubmittedOK ==
    ASSUME NEW n \in Nat, NEW s, SessionOK(s, n), NEW o, o.request \in Requests,
           s.submitters # <<>>
    PROVE  /\ SessionOK(Submitted(s, o), n)
           /\ Submitted(s, o).name = s.name /\ Submitted(s, o).draft = s.draft
           /\ Submitted(s, o).submitted = Remembered(s.submitted, o.request)
           /\ Submitted(s, o).submitters = Tail(s.submitters)
           /\ Submitted(s, o).writers = s.writers
<1> DEFINE t == Submitted(s, o)
<1>1. PICK x : x = Remembered(s.submitted, o.request)
  OBVIOUS
<1>2. PICK y : y = Tail(s.submitters)
  OBVIOUS
<1>3. s \in SessionType(n) /\ s.submitted \in Seq(Requests) /\ s.submitters \in Seq(Conns)
  BY DEF SessionOK, SessionType
<1>4. x \in Seq(Requests) /\ Len(x) <= MaxRemembered
  BY <1>1, <1>3, RememberedOne
<1>5. y \in Seq(Conns)
  BY <1>2, <1>3
<1>6. t = [s EXCEPT !.submitted = x, !.submitters = y]
  BY <1>1, <1>2 DEF Submitted
<1> HIDE DEF t
<1>7. t \in SessionType(n)
  BY <1>3, <1>4, <1>5, <1>6 DEF SessionType
<1>8. /\ t.active = s.active /\ t.unavailable = s.unavailable /\ t.writers = s.writers
      /\ t.fence = s.fence /\ t.draft = s.draft /\ t.name = s.name
      /\ t.submitted = x /\ t.submitters = y
  BY <1>3, <1>6 DEF SessionType
<1>9. SessionOK(t, n)
  BY <1>4, <1>7, <1>8 DEF SessionOK
<1> QED
  BY <1>1, <1>2, <1>8, <1>9 DEF t

-----------------------------------------------------------------------------
(* The inductive invariant *)

RecordsOK(s, f, n) == SessionOK(s, n) /\ f \in [Conns -> CommandType(n)]

\* A step begins one command at most.
Count(n, m) == n \in Nat /\ m \in Nat /\ (m = n \/ m = n + 1)
\* Is a command past the submission lock?
Staged(o) == o.kind = "submit" /\ o.at # "submission"
\* Who writes or waits to write is in the queue of the write lock; who submits
\* is in that of the submission lock, which its head alone has passed.
LocksOK(s, f) ==
    /\ \A c \in Conns : CommandOK(f[c])
    /\ \A c \in Conns : In(c, s.writers) <=> f[c].at \in Writing
    /\ Once(s.submitters)
    /\ \A c \in Conns : In(c, s.submitters) <=> f[c].kind = "submit"
    /\ \A c \in Conns : Staged(f[c]) => Head(s.submitters) = c

\* Does the pane have the Enter of the request, and the server no reply yet?
Entering(o, r) == o.at = "reply" /\ o.step = "commit" /\ o.request = r
\* A request counts as entered as long as it is remembered, or its Enter waits
\* for the reply; then no staged command has the request.
Counted(s, f, r) == r \in Known(s) \/ \E c \in Conns : Entering(f[c], r)
EntriesOK(s, f, lines, forgiven) ==
    /\ \A c \in Conns : Staged(f[c]) => f[c].request \notin Known(s)
    /\ \A r \in Requests :
          /\ Len(lines[r]) <= forgiven[r] + IF Counted(s, f, r) THEN 1 ELSE 0
          /\ Counted(s, f, r) => lines[r] # <<>>

IInv ==
    /\ line \in Seq(Cell)
    /\ commands \in 0..MaxCommands
    /\ entered \in [Requests -> Seq(Seq(Character))]
    /\ excused \in [Requests -> Nat]
    /\ acked \subseteq Requests
    /\ RecordsOK(session, conn, commands)
    /\ LocksOK(session, conn)
    /\ EntriesOK(session, conn, entered, excused)
    /\ AckedEntered

LEMMA KnownIn ==
    ASSUME NEW s, NEW r
    PROVE  r \in Known(s) <=> In(r, s.submitted)
BY DEF Known, In

\* The command of one connection moves on to o, and the queues follow.
Takes(s, f, t, g, c, o) ==
    /\ g = [f EXCEPT ![c] = o]
    /\ In(c, t.writers) <=> o.at \in Writing
    /\ \A d \in Conns \ {c} : In(d, t.writers) <=> In(d, s.writers)
    /\ Once(t.submitters)
    /\ In(c, t.submitters) <=> o.kind = "submit"
    /\ \A d \in Conns \ {c} : In(d, t.submitters) <=> In(d, s.submitters)
    /\ Staged(o) => Head(t.submitters) = c
    /\ \A d \in Conns \ {c} : Staged(f[d]) => Head(t.submitters) = d

LEMMA MovedOK ==
    ASSUME NEW n, NEW m, Count(n, m), NEW s, NEW f, NEW t, NEW g,
           RecordsOK(s, f, n), LocksOK(s, f), NEW c \in Conns, NEW o,
           SessionOK(t, m), o \in CommandType(m), CommandOK(o),
           Takes(s, f, t, g, c, o)
    PROVE  /\ RecordsOK(t, g, m) /\ LocksOK(t, g)
           /\ g[c] = o /\ \A d \in Conns \ {c} : g[d] = f[d]
<1>1. f \in [Conns -> CommandType(n)]
  BY DEF RecordsOK
<1>2. g[c] = o /\ DOMAIN g = Conns /\ \A d \in Conns \ {c} : g[d] = f[d]
  BY <1>1 DEF Takes
<1>3. \A d \in Conns : g[d] \in CommandType(m)
  <2>1. CommandType(n) \subseteq CommandType(m)
    BY CommandLater DEF Count
  <2> QED
    BY <1>1, <1>2, <2>1
<1>4. g \in [Conns -> CommandType(m)]
  <2>1. g = [d \in Conns |-> g[d]]
    BY <1>1 DEF Takes
  <2> QED
    BY <1>3, <2>1
<1>5. RecordsOK(t, g, m)
  BY <1>4 DEF RecordsOK
<1>6. LocksOK(t, g)
  <2>1. \A d \in Conns : CommandOK(g[d])
    BY <1>2 DEF LocksOK, Takes
  <2>2. \A d \in Conns : In(d, t.writers) <=> g[d].at \in Writing
    BY <1>2 DEF LocksOK, Takes
  <2>3. \A d \in Conns : In(d, t.submitters) <=> g[d].kind = "submit"
    BY <1>2 DEF LocksOK, Takes
  <2>4. \A d \in Conns : Staged(g[d]) => Head(t.submitters) = d
    BY <1>2 DEF Takes
  <2> QED
    BY <2>1, <2>2, <2>3, <2>4 DEF LocksOK, Takes
<1> QED
  BY <1>2, <1>5, <1>6

\* Commands stay where they are.
LEMMA KeptOK ==
    ASSUME NEW n, NEW m, Count(n, m), NEW s, NEW f, NEW t,
           RecordsOK(s, f, n), LocksOK(s, f), Tracks(s, t, m)
    PROVE  RecordsOK(t, f, m) /\ LocksOK(t, f) /\ Known(t) = Known(s)
<1>1. f \in [Conns -> CommandType(m)]
  <2>1. CommandType(n) \subseteq CommandType(m)
    BY CommandLater DEF Count
  <2> QED
    BY <2>1 DEF RecordsOK
<1>2. RecordsOK(t, f, m)
  BY <1>1 DEF RecordsOK, Tracks
<1>3. LocksOK(t, f)
  BY DEF LocksOK, Tracks
<1> QED
  BY <1>2, <1>3 DEF Known, Tracks

\* A command is planned up to its next await, or ends: v is the record it is
\* planned on.
Ready(s, f, v, c, o) ==
    /\ v.submitters = s.submitters /\ v.submitted = s.submitted /\ ~In(c, v.writers)
    /\ \A d \in Conns \ {c} : In(d, v.writers) <=> In(d, s.writers)
    /\ o.kind = "submit" <=> f[c].kind = "submit"
    /\ o.kind = "submit" => Head(s.submitters) = c
Advances(s, f, t, g, c, o) ==
    /\ Known(t) = Known(s)
    /\ \A d \in Conns \ {c} : g[d] = f[d]
    /\ \A r : ~Entering(g[c], r)
    /\ Staged(g[c]) => o.kind = "submit" /\ g[c].request = o.request

Gets(f, t, g, c, p) == t = p.session /\ g = [f EXCEPT ![c] = p.command]

LEMMA OnwardOK ==
    ASSUME NEW n, NEW m, Count(n, m), NEW s, NEW f, NEW t, NEW g,
           RecordsOK(s, f, n), LocksOK(s, f), NEW c \in Conns, NEW o, NEW v, NEW p,
           Onward(v, c, o, p, m), Gets(f, t, g, c, p), Ready(s, f, v, c, o)
    PROVE  /\ RecordsOK(t, g, m) /\ LocksOK(t, g) /\ Advances(s, f, t, g, c, o)
           /\ g[c] = p.command
<1>0. PICK q : q = p.command
  OBVIOUS
<1>1. /\ SessionOK(t, m) /\ q \in CommandType(m) /\ CommandOK(q)
      /\ t.submitters = s.submitters /\ t.submitted = s.submitted
      /\ \A d \in Conns : In(d, t.writers) <=> In(d, v.writers) \/ (d = c /\ q.at \in Writing)
      /\ \/ q = NoCommand /\ o.kind # "submit"
         \/ q.at \in {"fence", "seed", "write"} /\ q.kind = o.kind /\ q.request = o.request
  BY <1>0 DEF Onward, Ready, Gets
<1>2. NoCommand.at = "idle" /\ NoCommand.kind = "none"
  BY DEF NoCommand
<1>3. q.kind = "submit" <=> o.kind = "submit"
  BY <1>1, <1>2
<1>4. /\ In(c, t.writers) <=> q.at \in Writing
      /\ \A d \in Conns \ {c} : In(d, t.writers) <=> In(d, s.writers)
  BY <1>1 DEF Ready
<1>5. /\ Once(t.submitters)
      /\ In(c, t.submitters) <=> q.kind = "submit"
      /\ \A d \in Conns \ {c} : In(d, t.submitters) <=> In(d, s.submitters)
      /\ \A d \in Conns \ {c} : Staged(f[d]) => Head(t.submitters) = d
  BY <1>1, <1>3 DEF LocksOK, Ready
<1>6. Staged(q) => Head(t.submitters) = c
  BY <1>1, <1>3 DEF Staged, Ready
<1>7. Takes(s, f, t, g, c, q)
  BY <1>0, <1>4, <1>5, <1>6 DEF Takes, Gets
<1>8. RecordsOK(t, g, m) /\ LocksOK(t, g)
  BY <1>1, <1>7, MovedOK
<1>9. g[c] = q /\ \A d \in Conns \ {c} : g[d] = f[d]
  BY <1>0 DEF RecordsOK, Gets
<1>10. \A r : ~Entering(g[c], r)
  BY <1>1, <1>2, <1>9 DEF Entering
<1>11. Staged(g[c]) => o.kind = "submit" /\ g[c].request = o.request
  BY <1>1, <1>2, <1>9 DEF Staged
<1>12. Known(t) = Known(s)
  BY <1>1 DEF Known, Ready
<1> QED
  BY <1>9, <1>10, <1>11, <1>12, <1>8, <1>0 DEF Advances

\* Nothing is entered, and no Enter is answered.
LEMMA AdvancesEntries ==
    ASSUME NEW s, NEW f, NEW t, NEW g, NEW lines, NEW forgiven, NEW c \in Conns, NEW o,
           EntriesOK(s, f, lines, forgiven), Advances(s, f, t, g, c, o),
           \A r : ~Entering(f[c], r),
           Staged(g[c]) => o.request \notin Known(s)
    PROVE  EntriesOK(t, g, lines, forgiven)
<1>1. \A r \in Requests : Counted(t, g, r) <=> Counted(s, f, r)
  BY DEF Counted, Advances
<1>2. \A d \in Conns : Staged(g[d]) => g[d].request \notin Known(t)
  BY DEF EntriesOK, Advances
<1> QED
  BY <1>1, <1>2 DEF EntriesOK

\* What a connection starts.
LEMMA CommandIs ==
    ASSUME NEW m \in Nat, NEW n, SessionOK(session, n),
           NEW kind \in Kinds, NEW text \in Texts \cup {<<"k">>}, NEW revision \in 0..m,
           NEW o, o = Command(kind, text, revision)
    PROVE  /\ o \in CommandType(m) /\ o.at = "idle" /\ o.kind = kind /\ o.text = text
           /\ o.name = session.name /\ o.request = NoRequest /\ o.step = "none"
           /\ o.mode = "none" /\ o.revision = revision
           /\ kind # "submit" /\ (kind # "input" => text \in Texts) => Coherent(o)
<1>1. PICK s : s = session
  OBVIOUS
<1>2. s.name \in Names
  BY <1>1 DEF SessionOK, SessionType
<1>3. NoCommand \in CommandType(m) /\ CommandOK(NoCommand)
  BY NoCommandOK
<1>4. /\ NoCommand.at = "idle" /\ NoCommand.request = NoRequest
      /\ NoCommand.step = "none" /\ NoCommand.mode = "none"
  BY DEF NoCommand
<1>5. o = [NoCommand EXCEPT !.kind = kind, !.name = s.name, !.text = text,
                            !.revision = revision]
  BY <1>1 DEF Command
<1>6. /\ o \in CommandType(m) /\ o.at = "idle" /\ o.kind = kind /\ o.text = text
      /\ o.name = s.name /\ o.request = NoRequest /\ o.step = "none" /\ o.mode = "none"
      /\ o.revision = revision
  <2>1. PICK z, e : z = NoCommand /\ e = s.name
    OBVIOUS
  <2>2. z \in CommandType(m) /\ e \in Names
    BY <1>2, <1>3, <2>1
  <2>3. o = [z EXCEPT !.kind = kind, !.name = e, !.text = text, !.revision = revision]
    BY <1>5, <2>1
  <2>4. o \in CommandType(m)
    BY <2>2, <2>3 DEF CommandType
  <2>5. /\ o.at = z.at /\ o.kind = kind /\ o.text = text /\ o.name = e
        /\ o.request = z.request /\ o.step = z.step /\ o.mode = z.mode
        /\ o.revision = revision
    BY <2>2, <2>3 DEF CommandType
  <2> QED
    BY <1>4, <2>1, <2>4, <2>5
<1>7. kind # "submit" /\ (kind # "input" => text \in Texts) => Coherent(o)
  BY <1>6 DEF Coherent
<1> QED
  BY <1>1, <1>6, <1>7

LEMMA NextIInv ==
    ASSUME IInv, NEW t, NEW g, NEW m, session' = t, conn' = g, commands' = m,
           m \in 0..MaxCommands, RecordsOK(t, g, m), LocksOK(t, g),
           EntriesOK(t, g, entered, excused), UNCHANGED <<line, entered, excused, acked>>
    PROVE  IInv'
BY DEF IInv, AckedEntered

LEMMA BeginsOK ==
    ASSUME IInv, NEW c \in Conns, NEW kind, Begins(c, kind)
    PROVE  /\ commands \in Nat /\ commands' = commands + 1 /\ commands' \in 0..MaxCommands
           /\ conn[c] = NoCommand
           /\ Revisions \subseteq 0..(commands + 1) /\ NewRevision \in 0..(commands + 1)
           /\ UNCHANGED <<line, entered, excused, acked>>
<1>1. PICK s, f, n : s = session /\ f = conn /\ n = commands
  OBVIOUS
<1>2. n \in 0..MaxCommands /\ RecordsOK(s, f, n) /\ LocksOK(s, f) /\ MaxCommands \in Nat
  BY <1>1, BoundAssumption DEF IInv
<1>3. f[c] = NoCommand
  BY <1>1, <1>2 DEF Begins, InFlight, LocksOK, CommandOK
<1>4. s.revision \in 0..n
  BY <1>2 DEF RecordsOK, SessionOK, SessionType
<1>5. Revisions \subseteq 0..(n + 1) /\ NewRevision \in 0..(n + 1)
  BY <1>1, <1>2, <1>4 DEF Revisions, NewRevision
<1> QED
  BY <1>1, <1>2, <1>3, <1>5 DEF Begins

-----------------------------------------------------------------------------
(* Steps that begin a command *)

LEMMA SyncStep ==
    ASSUME IInv, NEW c \in Conns, Sync(c)
    PROVE  IInv'
<1>1. PICK s, f, n : s = session /\ f = conn /\ n = commands
  OBVIOUS
<1>2. PICK m, g, t : m = commands' /\ g = conn' /\ t = session'
  OBVIOUS
<1>3. /\ n \in Nat /\ m = n + 1 /\ m \in 0..MaxCommands /\ f[c] = NoCommand
      /\ Revisions \subseteq 0..m /\ UNCHANGED <<line, entered, excused, acked>>
  BY <1>1, <1>2, BeginsOK DEF Sync
<1>4. RecordsOK(s, f, n) /\ LocksOK(s, f) /\ EntriesOK(s, f, entered, excused)
  BY <1>1 DEF IInv
<1>5. PICK text \in Drafts, revision \in Revisions :
        Follows(c, PlanSync(session, c, Command("sync", text, revision), TRUE))
  BY DEF Sync
<1>6. PICK o : o = Command("sync", text, revision)
  OBVIOUS
<1>7. /\ o \in CommandType(m) /\ o.kind = "sync" /\ Coherent(o)
  <2>1. /\ "sync" \in Kinds /\ text \in Texts \cup {<<"k">>} /\ text \in Texts
        /\ revision \in 0..m
    BY <1>3 DEF Kinds, Texts
  <2>2. SessionOK(session, commands)
    BY <1>1, <1>4 DEF RecordsOK
  <2> QED
    BY <1>3, <1>6, <2>1, <2>2, CommandIs
<1>8. PICK p : p = PlanSync(s, c, o, TRUE)
  OBVIOUS
<1>9. Gets(f, t, g, c, p)
  BY <1>1, <1>2, <1>5, <1>6, <1>8 DEF Follows, Gets
<1>10. NoCommand.at = "idle" /\ NoCommand.kind = "none"
  BY DEF NoCommand
<1>11. SessionOK(s, m) /\ ~In(c, s.writers)
  BY <1>3, <1>4, <1>10, SessionLater DEF RecordsOK, LocksOK, Writing
<1>12. Onward(s, c, o, p, m)
  <2>1. m \in Nat /\ o.kind \in {"sync", "submit"}
    BY <1>3, <1>7
  <2>2. \A direct \in BOOLEAN : Onward(s, c, o, PlanSync(s, c, o, direct), m)
    BY <1>7, <1>11, <2>1, PlanSyncOnward
  <2> QED
    BY <1>8, <2>2
<1>13. RecordsOK(t, g, m) /\ LocksOK(t, g) /\ Advances(s, f, t, g, c, o)
  <2>1. Ready(s, f, s, c, o)
    BY <1>3, <1>7, <1>10, <1>11 DEF Ready
  <2>2. Count(n, m)
    BY <1>3 DEF Count
  <2> QED
    BY <1>4, <1>9, <1>12, <2>1, <2>2, OnwardOK
<1>14. EntriesOK(t, g, entered, excused)
  <2>0. \A r : ~Entering(f[c], r)
    BY <1>3, <1>10 DEF Entering
  <2>1. ~Staged(g[c])
    BY <1>7, <1>13 DEF Advances
  <2> QED
    BY <1>4, <1>13, <2>0, <2>1, AdvancesEntries
<1> QED
  BY <1>2, <1>3, <1>13, <1>14, NextIInv

LEMMA EnterStep ==
    ASSUME IInv, NEW c \in Conns, Enter(c)
    PROVE  IInv'
<1>1. PICK s, f, n : s = session /\ f = conn /\ n = commands
  OBVIOUS
<1>2. PICK m, g, t : m = commands' /\ g = conn' /\ t = session'
  OBVIOUS
<1>3. /\ n \in Nat /\ m = n + 1 /\ m \in 0..MaxCommands /\ f[c] = NoCommand
      /\ Revisions \subseteq 0..m /\ UNCHANGED <<line, entered, excused, acked>>
  BY <1>1, <1>2, BeginsOK DEF Enter
<1>4. RecordsOK(s, f, n) /\ LocksOK(s, f) /\ EntriesOK(s, f, entered, excused)
  BY <1>1 DEF IInv
<1>5. PICK revision \in Revisions :
        Follows(c, SettleThenCommit(session, c, Command("enter", <<>>, revision)))
  BY DEF Enter
<1>6. PICK o : o = Command("enter", <<>>, revision)
  OBVIOUS
<1>7. /\ o \in CommandType(m) /\ o.kind = "enter" /\ Coherent(o)
  <2>1. /\ "enter" \in Kinds /\ <<>> \in Texts \cup {<<"k">>} /\ <<>> \in Texts
        /\ revision \in 0..m
    BY <1>3, NoneIsNone DEF Kinds
  <2>2. SessionOK(session, commands)
    BY <1>1, <1>4 DEF RecordsOK
  <2> QED
    BY <1>3, <1>6, <2>1, <2>2, CommandIs
<1>8. PICK p : p = SettleThenCommit(s, c, o)
  OBVIOUS
<1>9. Gets(f, t, g, c, p)
  BY <1>1, <1>2, <1>5, <1>6, <1>8 DEF Follows, Gets
<1>10. NoCommand.at = "idle" /\ NoCommand.kind = "none"
  BY DEF NoCommand
<1>11. SessionOK(s, m) /\ ~In(c, s.writers)
  BY <1>3, <1>4, <1>10, SessionLater DEF RecordsOK, LocksOK, Writing
<1>12. Onward(s, c, o, p, m)
  <2>1. m \in Nat /\ o.kind \in {"enter", "submit"}
    BY <1>3, <1>7
  <2> QED
    BY <1>7, <1>8, <1>11, <2>1, SettleOnward
<1>13. RecordsOK(t, g, m) /\ LocksOK(t, g) /\ Advances(s, f, t, g, c, o)
  <2>1. Ready(s, f, s, c, o)
    BY <1>3, <1>7, <1>10, <1>11 DEF Ready
  <2>2. Count(n, m)
    BY <1>3 DEF Count
  <2> QED
    BY <1>4, <1>9, <1>12, <2>1, <2>2, OnwardOK
<1>14. EntriesOK(t, g, entered, excused)
  <2>1. \A r : ~Entering(f[c], r)
    BY <1>3, <1>10 DEF Entering
  <2>2. ~Staged(g[c])
    BY <1>7, <1>13 DEF Advances
  <2> QED
    BY <1>4, <1>13, <2>1, <2>2, AdvancesEntries
<1> QED
  BY <1>2, <1>3, <1>13, <1>14, NextIInv

\* A command stays on its side of the submission lock, and t has it in the
\* queue of the write lock when it writes.
Waits(s, f, t, g, c, o) ==
    /\ g = [f EXCEPT ![c] = o]
    /\ t.submitters = s.submitters /\ t.submitted = s.submitted
    /\ In(c, t.writers) <=> o.at \in Writing
    /\ \A d \in Conns \ {c} : In(d, t.writers) <=> In(d, s.writers)
    /\ o.kind = "submit" <=> f[c].kind = "submit"
    /\ o.kind = "submit" => Head(s.submitters) = c

LEMMA WaitsOK ==
    ASSUME NEW n, NEW m, Count(n, m), NEW s, NEW f, NEW t, NEW g, NEW c \in Conns, NEW o,
           RecordsOK(s, f, n), LocksOK(s, f), SessionOK(t, m), o \in CommandType(m),
           CommandOK(o), o.at # "reply", Waits(s, f, t, g, c, o)
    PROVE  RecordsOK(t, g, m) /\ LocksOK(t, g) /\ Advances(s, f, t, g, c, o)
<1>1. Takes(s, f, t, g, c, o)
  BY DEF Waits, Takes, LocksOK, Staged
<1>2. RecordsOK(t, g, m) /\ LocksOK(t, g)
  BY <1>1, MovedOK
<1>3. g[c] = o /\ \A d \in Conns \ {c} : g[d] = f[d]
  BY DEF RecordsOK, Waits
<1>4. Advances(s, f, t, g, c, o)
  BY <1>3 DEF Advances, Waits, Known, Entering, Staged
<1> QED
  BY <1>2, <1>4

\* A connection starts to write: the record u, with what tracking made of it.
LEMMA StartsToWrite ==
    ASSUME IInv, NEW c \in Conns, NEW u, NEW o, commands + 1 \in 0..MaxCommands,
           conn[c] = NoCommand, Tracks(session, u, commands + 1),
           o \in CommandType(commands + 1), CommandOK(o), o.at = "write",
           o.kind # "submit", commands' = commands + 1, session' = Queued(u, c),
           conn' = [conn EXCEPT ![c] = o], UNCHANGED <<line, entered, excused, acked>>
    PROVE  IInv'
<1>1. PICK s, f, n : s = session /\ f = conn /\ n = commands
  OBVIOUS
<1>2. PICK m, g, t : m = commands' /\ g = conn' /\ t = session'
  OBVIOUS
<1>3. RecordsOK(s, f, n) /\ LocksOK(s, f) /\ EntriesOK(s, f, entered, excused) /\ n \in Nat
  BY <1>1 DEF IInv
<1>4. /\ m = n + 1 /\ m \in Nat /\ m \in 0..MaxCommands /\ t = Queued(u, c)
      /\ g = [f EXCEPT ![c] = o] /\ Tracks(s, u, m) /\ f[c] = NoCommand
      /\ o \in CommandType(m)
  BY <1>1, <1>2, <1>3
<1>5. NoCommand.at = "idle" /\ NoCommand.kind = "none"
  BY DEF NoCommand
<1>6. ~In(c, u.writers) /\ SessionOK(u, m)
  BY <1>3, <1>4, <1>5 DEF Tracks, LocksOK, Writing
<1>7. /\ SessionOK(t, m) /\ t.submitted = u.submitted /\ t.submitters = u.submitters
      /\ \A d \in Conns : In(d, t.writers) <=> In(d, u.writers) \/ d = c
  BY <1>4, <1>6, QueuedOK
<1>8. Waits(s, f, t, g, c, o)
  BY <1>4, <1>5, <1>7 DEF Waits, Tracks, Writing
<1>9. Count(n, m) /\ o.at # "reply"
  BY <1>3, <1>4 DEF Count
<1>10. RecordsOK(t, g, m) /\ LocksOK(t, g) /\ Advances(s, f, t, g, c, o)
  BY <1>3, <1>4, <1>7, <1>8, <1>9, WaitsOK
<1>11. EntriesOK(t, g, entered, excused)
  <2>1. \A r : ~Entering(f[c], r)
    BY <1>4, <1>5 DEF Entering
  <2>2. ~Staged(g[c])
    BY <1>10 DEF Advances
  <2> QED
    BY <1>3, <1>10, <2>1, <2>2, AdvancesEntries
<1> QED
  BY <1>2, <1>4, <1>10, <1>11, NextIInv

\* The command that writes as soon as it has begun.
Writes(p, step, o) ==
    /\ \/ p.kind = "input" /\ step = "raw"
       \/ p.kind = "clear" /\ step = "clear"
       \/ p.kind = "rename" /\ step = "rename" /\ p.mode = "none"
    /\ o = [p EXCEPT !.at = "write", !.step = step]

LEMMA WriteCommand ==
    ASSUME NEW m \in Nat, NEW p \in CommandType(m), Coherent(p), NEW step, NEW o,
           Writes(p, step, o)
    PROVE  /\ o \in CommandType(m) /\ CommandOK(o) /\ o.at = "write" /\ o.kind = p.kind
           /\ o.step = step /\ o.name = p.name
<1>1. step \in Steps /\ "write" \in Places
  BY DEF Steps, Places, Writes
<1>2. /\ o \in CommandType(m) /\ o.at = "write" /\ o.step = step /\ o.kind = p.kind
      /\ o.text = p.text /\ o.request = p.request /\ o.mode = p.mode
      /\ o.active = p.active /\ o.unavailable = p.unavailable /\ o.name = p.name
  BY <1>1 DEF CommandType, Writes
<1>3. Coherent(o)
  BY <1>2 DEF Coherent
<1> QED
  BY <1>2, <1>3 DEF CommandOK, Suits, Writes

LEMMA InputStep ==
    ASSUME IInv, NEW c \in Conns, Input(c)
    PROVE  IInv'
<1>1. PICK s, n, m : s = session /\ n = commands /\ m = commands + 1
  OBVIOUS
<1>2. /\ n \in Nat /\ commands' = m /\ m \in 0..MaxCommands /\ conn[c] = NoCommand
      /\ UNCHANGED <<line, entered, excused, acked>>
  BY <1>1, BeginsOK DEF Input
<1>3. m \in Nat /\ SessionOK(s, n) /\ SessionOK(s, m) /\ 0 \in 0..m
  BY <1>1, <1>2, SessionLater DEF IInv, RecordsOK
<1>4. PICK u : u = ResetTracking(s, FALSE)
  OBVIOUS
<1>5. Tracks(s, u, m)
  BY <1>3, <1>4, ResetTracks
<1>6. PICK p, r, step : /\ p = Command("input", <<"k">>, r) /\ r = 0
                        /\ step = "raw"
  OBVIOUS
<1>7. PICK o : o = [p EXCEPT !.at = "write", !.step = step]
  OBVIOUS
<1>8. /\ o \in CommandType(m) /\ CommandOK(o) /\ o.at = "write" /\ o.kind = "input"
  <2>1. /\ "input" \in Kinds /\ "input" # "submit" /\ r \in 0..m
        /\ <<"k">> \in Texts \cup {<<"k">>}
    BY <1>2, <1>3, <1>6 DEF Kinds
  <2>2. SessionOK(session, n)
    BY <1>1, <1>3
  <2>3. p \in CommandType(m) /\ p.kind = "input" /\ Coherent(p)
    BY <1>3, <1>6, <2>1, <2>2, CommandIs
  <2>4. Writes(p, step, o)
    BY <1>6, <1>7, <2>3 DEF Writes
  <2> QED
    BY <1>3, <2>3, <2>4, WriteCommand
<1>9. session' = Queued(u, c) /\ conn' = [conn EXCEPT ![c] = o]
  BY <1>1, <1>4, <1>6, <1>7 DEF Input, Follows, Plan
<1> QED
  BY <1>1, <1>2, <1>5, <1>8, <1>9, StartsToWrite

LEMMA ForceClearStep ==
    ASSUME IInv, NEW c \in Conns, ForceClear(c)
    PROVE  IInv'
<1>1. PICK s, n, m : s = session /\ n = commands /\ m = commands + 1
  OBVIOUS
<1>2. /\ n \in Nat /\ commands' = m /\ m \in 0..MaxCommands /\ conn[c] = NoCommand
      /\ NewRevision \in 0..m /\ UNCHANGED <<line, entered, excused, acked>>
  BY <1>1, BeginsOK DEF ForceClear
<1>3. m \in Nat /\ SessionOK(s, n) /\ SessionOK(s, m) /\ <<>> \in Texts
  BY <1>1, <1>2, SessionLater, NoneIsNone DEF IInv, RecordsOK
<1>4. PICK u : u = InvalidateActive(s)
  OBVIOUS
<1>5. Tracks(s, u, m)
  BY <1>3, <1>4, InvalidateTracks
<1>6. PICK p, r, step : /\ p = Command("clear", <<>>, r) /\ r = NewRevision
                        /\ step = "clear"
  OBVIOUS
<1>7. PICK o : o = [p EXCEPT !.at = "write", !.step = step]
  OBVIOUS
<1>8. /\ o \in CommandType(m) /\ CommandOK(o) /\ o.at = "write" /\ o.kind = "clear"
  <2>1. /\ "clear" \in Kinds /\ "clear" # "submit" /\ r \in 0..m
        /\ <<>> \in Texts \cup {<<"k">>}
    BY <1>2, <1>3, <1>6 DEF Kinds
  <2>2. SessionOK(session, n)
    BY <1>1, <1>3
  <2>3. p \in CommandType(m) /\ p.kind = "clear" /\ Coherent(p)
    BY <1>3, <1>6, <2>1, <2>2, CommandIs
  <2>4. Writes(p, step, o)
    BY <1>6, <1>7, <2>3 DEF Writes
  <2> QED
    BY <1>3, <2>3, <2>4, WriteCommand
<1>9. session' = Queued(u, c) /\ conn' = [conn EXCEPT ![c] = o]
  BY <1>1, <1>4, <1>6, <1>7 DEF ForceClear, Follows, Plan
<1> QED
  BY <1>1, <1>2, <1>5, <1>8, <1>9, StartsToWrite

LEMMA RenameStep ==
    ASSUME IInv, NEW c \in Conns, Rename(c)
    PROVE  IInv'
<1>1. PICK s, n, m : s = session /\ n = commands /\ m = commands + 1
  OBVIOUS
<1>2. /\ n \in Nat /\ commands' = m /\ m \in 0..MaxCommands /\ conn[c] = NoCommand
      /\ UNCHANGED <<line, entered, excused, acked>>
  BY <1>1, BeginsOK DEF Rename
<1>3. /\ m \in Nat /\ SessionOK(s, n) /\ SessionOK(s, m) /\ <<>> \in Texts
      /\ 0 \in 0..m
  BY <1>1, <1>2, SessionLater, NoneIsNone DEF IInv, RecordsOK
<1>5. Tracks(s, s, m)
  BY <1>3 DEF Tracks
<1>6. PICK p, r, step : /\ p = Command("rename", <<>>, r) /\ r = 0
                        /\ step = "rename"
  OBVIOUS
<1>7. PICK o : o = [p EXCEPT !.at = "write", !.step = step]
  OBVIOUS
<1>8. /\ o \in CommandType(m) /\ CommandOK(o) /\ o.at = "write" /\ o.kind = "rename"
  <2>1. /\ "rename" \in Kinds /\ "rename" # "submit" /\ r \in 0..m
        /\ <<>> \in Texts \cup {<<"k">>}
    BY <1>2, <1>3, <1>6 DEF Kinds
  <2>2. SessionOK(session, n)
    BY <1>1, <1>3
  <2>3. p \in CommandType(m) /\ p.kind = "rename" /\ p.mode = "none" /\ Coherent(p)
    BY <1>3, <1>6, <2>1, <2>2, CommandIs
  <2>4. Writes(p, step, o)
    BY <1>6, <1>7, <2>3 DEF Writes
  <2> QED
    BY <1>3, <2>3, <2>4, WriteCommand
<1>9. session' = Queued(s, c) /\ conn' = [conn EXCEPT ![c] = o]
  BY <1>1, <1>6, <1>7 DEF Rename, Follows, Plan
<1> QED
  BY <1>1, <1>2, <1>5, <1>8, <1>9, StartsToWrite

LEMMA SubmitStep ==
    ASSUME IInv, NEW c \in Conns, Submit(c)
    PROVE  IInv'
<1>1. PICK s, f, n : s = session /\ f = conn /\ n = commands
  OBVIOUS
<1>2. PICK m, g, t : m = commands' /\ g = conn' /\ t = session'
  OBVIOUS
<1>3. /\ n \in Nat /\ m = n + 1 /\ m \in 0..MaxCommands /\ m \in Nat /\ f[c] = NoCommand
      /\ NewRevision \in 0..m /\ UNCHANGED <<line, entered, excused, acked>>
  BY <1>1, <1>2, BeginsOK DEF Submit
<1>4. RecordsOK(s, f, n) /\ LocksOK(s, f) /\ EntriesOK(s, f, entered, excused)
  BY <1>1 DEF IInv
<1>5. PICK request \in Requests \ acked :
        Follows(c, Plan([session EXCEPT !.submitters = Append(@, c)],
                        [Command("submit", TextOf[request], NewRevision)
                            EXCEPT !.at = "submission", !.request = request]))
  BY DEF Submit
<1>6. PICK p, r : r = NewRevision /\ p = Command("submit", TextOf[request], r)
  OBVIOUS
<1>7. PICK o : o = [p EXCEPT !.at = "submission", !.request = request]
  OBVIOUS
<1>8. TextOf[request] \in Texts /\ request # NoRequest
  BY NoneIsNone
<1>9. p \in CommandType(m) /\ p.kind = "submit" /\ p.text = TextOf[request] /\ p.mode = "none"
  <2>1. /\ "submit" \in Kinds /\ TextOf[request] \in Texts \cup {<<"k">>} /\ r \in 0..m
    BY <1>3, <1>6, <1>8 DEF Kinds
  <2>2. SessionOK(session, n)
    BY <1>1, <1>4 DEF RecordsOK
  <2>3. p \in CommandType(m) /\ p.kind = "submit" /\ p.text = TextOf[request]
    BY <1>3, <1>6, <2>1, <2>2, CommandIs
  <2>4. p.mode = "none"
    BY <1>6 DEF Command, NoCommand
  <2> QED
    BY <2>3, <2>4
<1>10. /\ o \in CommandType(m) /\ o.kind = "submit" /\ o.text = TextOf[request]
       /\ o.mode = "none" /\ o.at = "submission" /\ o.request = request
  <2>1. "submission" \in Places
    BY DEF Places
  <2> QED
    BY <1>7, <1>9, <2>1 DEF CommandType
<1>11. CommandOK(o)
  BY <1>8, <1>10 DEF CommandOK, Coherent
<1>12. NoCommand.at = "idle" /\ NoCommand.kind = "none"
  BY DEF NoCommand
<1>13. PICK w : w = Append(s.submitters, c)
  OBVIOUS
<1>14. s \in SessionType(m) /\ SessionOK(s, m) /\ s.submitters \in Seq(Conns)
  BY <1>3, <1>4, SessionLater DEF RecordsOK, SessionOK, SessionType
<1>15. Once(s.submitters) /\ ~In(c, s.submitters)
  BY <1>3, <1>4, <1>12 DEF LocksOK
<1>16. /\ w \in Seq(Conns) /\ Once(w) /\ \A y : In(y, w) <=> In(y, s.submitters) \/ y = c
       /\ s.submitters # <<>> => Head(w) = Head(s.submitters)
  BY <1>13, <1>14, <1>15, QueuedOnce
<1>17. t = [s EXCEPT !.submitters = w] /\ g = [f EXCEPT ![c] = o]
  BY <1>1, <1>2, <1>5, <1>6, <1>7, <1>13 DEF Follows, Plan
<1>18. t \in SessionType(m)
  BY <1>14, <1>16, <1>17 DEF SessionType
<1>19. /\ t.active = s.active /\ t.unavailable = s.unavailable /\ t.writers = s.writers
       /\ t.fence = s.fence /\ t.submitted = s.submitted /\ t.submitters = w
  BY <1>14, <1>17 DEF SessionType
<1>20. SessionOK(t, m)
  BY <1>14, <1>18, <1>19 DEF SessionOK
<1>21. \A d \in Conns \ {c} : Staged(f[d]) => Head(w) = d
  <2> SUFFICES ASSUME NEW d \in Conns \ {c}, Staged(f[d]) PROVE Head(w) = d
    OBVIOUS
  <2>1. In(d, s.submitters) /\ Head(s.submitters) = d
    BY <1>4 DEF LocksOK, Staged
  <2>2. s.submitters # <<>>
    BY <2>1 DEF In
  <2> QED
    BY <1>16, <2>1, <2>2
<1>22. Takes(s, f, t, g, c, o)
  <2>1. In(c, t.writers) <=> o.at \in Writing
    BY <1>3, <1>4, <1>10, <1>12, <1>19 DEF LocksOK, Writing
  <2> QED
    BY <1>10, <1>16, <1>17, <1>19, <1>21, <2>1 DEF Takes, Staged
<1>23. RecordsOK(t, g, m) /\ LocksOK(t, g)
  <2>1. Count(n, m)
    BY <1>3 DEF Count
  <2> QED
    BY <1>4, <1>10, <1>11, <1>20, <1>22, <2>1, MovedOK
<1>24. g[c] = o /\ \A d \in Conns \ {c} : g[d] = f[d]
  BY <1>4, <1>17 DEF RecordsOK
<1>25. Advances(s, f, t, g, c, o)
  BY <1>10, <1>19, <1>24 DEF Advances, Known, Entering, Staged
<1>26. EntriesOK(t, g, entered, excused)
  <2>1. \A r1 : ~Entering(f[c], r1)
    BY <1>3, <1>12 DEF Entering
  <2>2. ~Staged(g[c])
    BY <1>10, <1>24 DEF Staged
  <2> QED
    BY <1>4, <1>25, <2>1, <2>2, AdvancesEntries
<1> QED
  BY <1>2, <1>3, <1>23, <1>26, NextIInv

-----------------------------------------------------------------------------
(* Steps that leave every command where it is *)

LEMMA KeptStep ==
    ASSUME IInv, NEW u, NEW m, Count(commands, m), m \in 0..MaxCommands,
           Tracks(session, u, m), session' = u, commands' = m, conn' = conn,
           line' \in Seq(Cell), UNCHANGED <<entered, excused, acked>>
    PROVE  IInv'
<1>1. PICK s, f, n : s = session /\ f = conn /\ n = commands
  OBVIOUS
<1>2. RecordsOK(s, f, n) /\ LocksOK(s, f) /\ EntriesOK(s, f, entered, excused)
  BY <1>1 DEF IInv
<1>3. RecordsOK(u, f, m) /\ LocksOK(u, f) /\ Known(u) = Known(s)
  BY <1>1, <1>2, KeptOK
<1>4. EntriesOK(u, f, entered, excused)
  BY <1>2, <1>3 DEF EntriesOK, Counted
<1>5. line' \in Seq(Cell)
  OBVIOUS
<1> QED
  BY <1>1, <1>3, <1>4, <1>5 DEF IInv, AckedEntered

LEMMA ResetDraftStep ==
    ASSUME IInv, NEW c \in Conns, ResetDraft(c)
    PROVE  IInv'
<1>1. PICK s, n, m, r : s = session /\ n = commands /\ m = commands + 1 /\ r = NewRevision
  OBVIOUS
<1>2. /\ n \in 0..MaxCommands /\ m \in 0..MaxCommands /\ m \in Nat /\ n \in Nat
      /\ commands < MaxCommands /\ SessionOK(s, n) /\ line \in Seq(Cell)
  BY <1>1, BoundAssumption DEF IInv, RecordsOK, ResetDraft
<1>3. r \in 0..m
  <2>1. s.revision \in 0..n
    BY <1>2 DEF SessionOK, SessionType
  <2> QED
    BY <1>1, <1>2, <2>1 DEF NewRevision
<1>4. PICK v : v = Later(s, r)
  OBVIOUS
<1>5. Tracks(s, v, m)
  BY <1>1, <1>2, <1>3, <1>4, SessionLater, LaterTracks
<1>6. PICK u : u = ResetTracking(v, FALSE)
  OBVIOUS
<1>7. Tracks(v, u, m)
  <2>1. SessionOK(v, m)
    BY <1>5 DEF Tracks
  <2> QED
    BY <1>2, <1>6, <2>1, ResetTracks
<1>8. Tracks(s, u, m)
  BY <1>5, <1>7, TracksOn
<1>9. /\ session' = u /\ commands' = m /\ conn' = conn
      /\ UNCHANGED <<line, entered, excused, acked>>
  BY <1>1, <1>4, <1>6 DEF ResetDraft
<1>10. Count(commands, m)
  BY <1>1, <1>2 DEF Count
<1> QED
  BY <1>1, <1>2, <1>8, <1>9, <1>10, KeptStep

LEMMA DropStep ==
    ASSUME IInv, NEW c \in Conns, Drop(c)
    PROVE  IInv'
<1>1. PICK s, n : s = session /\ n = commands
  OBVIOUS
<1>2. Tracks(s, s, n)
  BY <1>1 DEF IInv, RecordsOK, Tracks
<1>3. /\ session' = s /\ commands' = n /\ conn' = conn
      /\ UNCHANGED <<line, entered, excused, acked>>
  BY <1>1 DEF Drop, ghosts
<1>4. n \in 0..MaxCommands /\ line \in Seq(Cell) /\ Count(commands, n)
  BY <1>1 DEF IInv, Count
<1> QED
  BY <1>1, <1>2, <1>3, <1>4, KeptStep

\* What the tracking does on its own.
LEMMA TrackingStep ==
    ASSUME IInv,
           \/ session' = InvalidateActive(session)
           \/ session' = CancelFence(session)
           \/ session' = session,
           line' \in Seq(Cell), UNCHANGED <<conn, commands, entered, excused, acked>>
    PROVE  IInv'
<1>1. PICK s, n, u : s = session /\ n = commands /\ u = session'
  OBVIOUS
<1>2. SessionOK(s, n) /\ n \in 0..MaxCommands /\ n \in Nat /\ Count(commands, n)
  BY <1>1 DEF IInv, RecordsOK, Count
<1>3. u = InvalidateActive(s) \/ u = CancelFence(s) \/ u = s
  BY <1>1
<1>4. Tracks(s, u, n)
  <2>1. Tracks(s, s, n)
    BY <1>2 DEF Tracks
  <2> QED
    BY <1>2, <1>3, <2>1, InvalidateTracks, CancelTracks
<1> QED
  BY <1>1, <1>2, <1>4, KeptStep

LEMMA CloseStep ==
    ASSUME IInv, NEW c \in Conns, Close(c)
    PROVE  IInv'
<1>1. /\ session' = InvalidateActive(session) \/ session' = session
      /\ UNCHANGED <<line, conn, commands, entered, excused, acked>>
  BY DEF Close, ghosts
<1>2. line' \in Seq(Cell)
  BY <1>1 DEF IInv
<1> QED
  BY <1>1, <1>2, TrackingStep

LEMMA ChangeLayoutStep ==
    ASSUME IInv, ChangeLayout
    PROVE  IInv'
<1>1. /\ session' = InvalidateActive(session)
      /\ UNCHANGED <<line, conn, commands, entered, excused, acked>>
  BY DEF ChangeLayout, ghosts
<1>2. line' \in Seq(Cell)
  BY <1>1 DEF IInv
<1> QED
  BY <1>1, <1>2, TrackingStep

LEMMA GiveUpFenceStep ==
    ASSUME IInv, GiveUpFence
    PROVE  IInv'
<1>1. /\ session' = CancelFence(session)
      /\ UNCHANGED <<line, conn, commands, entered, excused, acked>>
  BY DEF GiveUpFence, ghosts
<1>2. line' \in Seq(Cell)
  BY <1>1 DEF IInv
<1> QED
  BY <1>1, <1>2, TrackingStep

\* Who types a text is a connection, or somebody in tmux.
LEMMA TypedCells ==
    ASSUME NEW text \in Seq(Character), NEW by \in Conns \cup {Tmux}
    PROVE  Typed(text, by) \in Seq(Cell) /\ Len(Typed(text, by)) = Len(text)
<1>1. PICK n \in Nat : n = Len(text) /\ \A i \in 1..n : text[i] \in Character
  OBVIOUS
<1>2. Typed(text, by) = [i \in 1..n |-> [ch |-> text[i], by |-> by]]
  BY <1>1 DEF Typed
<1>3. \A i \in 1..n : [ch |-> text[i], by |-> by] \in Cell
  BY <1>1 DEF Cell
<1> QED
  BY <1>1, <1>2, <1>3

LEMMA TypeInTmuxStep ==
    ASSUME IInv, TypeInTmux
    PROVE  IInv'
<1>1. /\ session' = session /\ UNCHANGED <<conn, commands, entered, excused, acked>>
      /\ line' = line \o Typed(<<"x">>, Tmux)
  BY DEF TypeInTmux
<1>2. Typed(<<"x">>, Tmux) \in Seq(Cell) /\ line \in Seq(Cell)
  <2>1. PICK text, by : text = <<"x">> /\ by = Tmux
    OBVIOUS
  <2>2. text \in Seq(Character) /\ by \in Conns \cup {Tmux}
    <3>1. "x" \in Character
      BY DEF Character
    <3>2. <<"x">> \in Seq(Character)
      BY <3>1
    <3> QED
      BY <2>1, <3>2
  <2>3. Typed(text, by) \in Seq(Cell)
    BY <2>2, TypedCells
  <2> QED
    BY <2>1, <2>3 DEF IInv
<1>3. line' \in Seq(Cell)
  BY <1>1, <1>2
<1> QED
  BY <1>1, <1>3, TrackingStep

LEMMA QueueFenceStep ==
    ASSUME IInv, QueueFence
    PROVE  IInv'
<1>1. PICK s, n, u : s = session /\ n = commands /\ u = session'
  OBVIOUS
<1>2. SessionOK(s, n) /\ n \in 0..MaxCommands /\ Count(commands, n) /\ s.fence = "waiting"
  BY <1>1 DEF IInv, RecordsOK, Count, QueueFence
<1>3. PICK w : w = Append(s.writers, Fence)
  OBVIOUS
<1>4. /\ s \in SessionType(n) /\ s.writers \in Seq(Conns \cup {Fence}) /\ Once(s.writers)
      /\ ~In(Fence, s.writers)
  BY <1>2 DEF SessionOK, SessionType
<1>5. /\ w \in Seq(Conns \cup {Fence}) /\ Once(w)
      /\ \A y : In(y, w) <=> In(y, s.writers) \/ y = Fence
  BY <1>3, <1>4, QueuedOnce
<1>6. u = [s EXCEPT !.writers = w, !.fence = "queued"]
  BY <1>1, <1>3, <1>4 DEF QueueFence, Queued, SessionType
<1>7. u \in SessionType(n)
  BY <1>4, <1>5, <1>6 DEF SessionType
<1>8. /\ u.active = s.active /\ u.unavailable = s.unavailable /\ u.writers = w
      /\ u.fence = "queued" /\ u.name = s.name
      /\ u.submitted = s.submitted /\ u.submitters = s.submitters
  BY <1>4, <1>6 DEF SessionType
<1>9. SessionOK(u, n)
  BY <1>2, <1>5, <1>7, <1>8 DEF SessionOK
<1>10. Tracks(s, u, n)
  BY <1>5, <1>8, <1>9, NoneIsNone DEF Tracks
<1>11. /\ commands' = n /\ conn' = conn /\ line' \in Seq(Cell)
       /\ UNCHANGED <<entered, excused, acked>>
  BY <1>1 DEF QueueFence, ghosts, IInv
<1> QED
  BY <1>1, <1>2, <1>10, <1>11, KeptStep

LEMMA SettleFenceStep ==
    ASSUME IInv, SettleFence
    PROVE  IInv'
<1>1. PICK s, n, u : s = session /\ n = commands /\ u = session'
  OBVIOUS
<1>2. SessionOK(s, n) /\ n \in 0..MaxCommands /\ n \in Nat /\ Count(commands, n)
  BY <1>1 DEF IInv, RecordsOK, Count
<1>3. PICK x, z : x = SubSeq(line, s.active.start + 1, Len(line)) /\ z = CancelFence(s)
  OBVIOUS
<1>4. Tracks(s, z, n) /\ z.active = s.active
  BY <1>2, <1>3, CancelTracks
<1>5. z \in SessionType(n) /\ SessionOK(z, n)
  BY <1>4 DEF Tracks, SessionOK
<1>6. u = [z EXCEPT !.active.settled = TRUE, !.active.cells = x]
  BY <1>1, <1>3 DEF SettleFence
<1>7. PICK a : a = [z.active EXCEPT !.settled = TRUE, !.cells = x]
  OBVIOUS
<1>8. u = [z EXCEPT !.active = a]
  BY <1>5, <1>6, <1>7 DEF SessionType
<1>9. CASE z.active = None
  <2>1. a = None
    BY <1>7, <1>9 DEF None
  <2>2. u = [z EXCEPT !.active = a, !.unavailable = z.unavailable]
    BY <1>5, <1>8 DEF SessionType
  <2>3. z.unavailable \in UnavailableType \cup {None}
    BY <1>5 DEF SessionType
  <2>4. Tracks(z, u, n)
    <3>1. PICK w : w = z.unavailable
      OBVIOUS
    <3>2. /\ a \in ActiveType \cup {None} /\ w \in UnavailableType \cup {None}
          /\ (a # None => w = None) /\ u = [z EXCEPT !.active = a, !.unavailable = w]
      BY <2>1, <2>2, <2>3, <3>1
    <3>3. n \in Nat /\ SessionOK(z, n)
      BY <1>2, <1>5
    <3> QED
      BY <3>2, <3>3, SetTracks
  <2> QED
    BY <1>1, <1>2, <1>4, <2>4, TracksOn, KeptStep DEF SettleFence, ghosts, IInv
<1>10. CASE z.active # None
  <2>1. z.active \in ActiveType /\ s.active.start \in Nat /\ line \in Seq(Cell)
    BY <1>4, <1>5, <1>10 DEF SessionType, ActiveType, IInv
  <2>2. Len(line) > s.active.start
    BY <1>1 DEF SettleFence
  <2>3. x \in Seq(Cell)
    <3>1. PICK q \in Seq(Cell), i \in Int, j \in Int :
             q = line /\ i = s.active.start /\ j = Len(line)
      BY <2>1
    <3>2. i \in 0..Len(q) /\ j \in 0..Len(q) /\ i <= j
      BY <2>1, <2>2, <3>1
    <3>3. SubSeq(q, i + 1, j) \in Seq(Cell)
      BY <3>2, Cut
    <3> QED
      BY <1>3, <3>1, <3>3
  <2>4. a \in ActiveType
    BY <1>7, <2>1, <2>3 DEF ActiveType
  <2>5. z.unavailable = None
    BY <1>5, <1>10 DEF SessionOK
  <2>6. u = [z EXCEPT !.active = a, !.unavailable = None]
    BY <1>5, <1>8, <2>5 DEF SessionType
  <2>7. Tracks(z, u, n)
    BY <1>2, <1>5, <2>4, <2>6, SetTracks
  <2> QED
    BY <1>1, <1>2, <1>4, <2>7, TracksOn, KeptStep DEF SettleFence, ghosts, IInv
<1> QED
  BY <1>9, <1>10

-----------------------------------------------------------------------------
(* Steps of a command *)

\* What a command can count on, wherever it is.
Knows(n, s, f, c) ==
    /\ f[c] \in CommandType(n) /\ CommandOK(f[c]) /\ Coherent(f[c])
    /\ Staged(f[c]) => Head(s.submitters) = c /\ f[c].request \notin Known(s)
    /\ f[c].kind = "submit" => f[c].request \in Requests /\ In(c, s.submitters)
    /\ f[c].at # "reply" => \A r : ~Entering(f[c], r)
    /\ In(c, s.writers) <=> f[c].at \in Writing

LEMMA CommandKnows ==
    ASSUME NEW n, NEW s, NEW f, NEW lines, NEW forgiven, NEW c \in Conns,
           RecordsOK(s, f, n), LocksOK(s, f), EntriesOK(s, f, lines, forgiven)
    PROVE  Knows(n, s, f, c)
<1>1. f[c] \in CommandType(n) /\ CommandOK(f[c]) /\ Coherent(f[c])
  BY DEF RecordsOK, LocksOK, CommandOK
<1>2. f[c].kind = "submit" => f[c].request \in Requests
  BY <1>1 DEF CommandType, Coherent
<1> QED
  BY <1>1, <1>2 DEF Knows, LocksOK, EntriesOK, Entering

LEMMA FenceAwaitedStep ==
    ASSUME IInv, NEW c \in Conns, FenceAwaited(c)
    PROVE  IInv'
<1>1. PICK s, f, n : s = session /\ f = conn /\ n = commands
  OBVIOUS
<1>2. PICK g, t : g = conn' /\ t = session'
  OBVIOUS
<1>3. /\ n \in 0..MaxCommands /\ n \in Nat /\ Count(n, n)
      /\ RecordsOK(s, f, n) /\ LocksOK(s, f) /\ EntriesOK(s, f, entered, excused)
  BY <1>1 DEF IInv, Count
<1>4. PICK o, p : o = f[c] /\ p = PlanCommit(s, c, o)
  OBVIOUS
<1>5. /\ o.at = "fence" /\ Gets(f, t, g, c, p) /\ commands' = n
      /\ UNCHANGED <<line, entered, excused, acked>>
  BY <1>1, <1>2, <1>4 DEF FenceAwaited, Follows, Gets, ghosts
<1>6. /\ o \in CommandType(n) /\ CommandOK(o) /\ Coherent(o) /\ ~In(c, s.writers)
      /\ o.kind \in {"enter", "submit"} /\ (\A r : ~Entering(f[c], r))
      /\ o.kind = "submit" => Head(s.submitters) = c /\ o.request \notin Known(s)
  <2>1. Knows(n, s, f, c)
    BY <1>3, CommandKnows
  <2>2. CommandOK(o) /\ o.at \notin Writing /\ o.at # "submission" /\ o.at # "reply"
    BY <1>4, <1>5, <2>1 DEF Knows, Writing
  <2> QED
    BY <1>4, <1>5, <2>1, <2>2 DEF Knows, CommandOK, Staged
<1>7. Onward(s, c, o, p, n)
  BY <1>3, <1>4, <1>6, PlanCommitOnward DEF RecordsOK
<1>8. RecordsOK(t, g, n) /\ LocksOK(t, g) /\ Advances(s, f, t, g, c, o)
  <2>1. Ready(s, f, s, c, o)
    BY <1>4, <1>6 DEF Ready
  <2> QED
    BY <1>3, <1>5, <1>7, <2>1, OnwardOK
<1>9. EntriesOK(t, g, entered, excused)
  <2>1. Staged(g[c]) => o.request \notin Known(s)
    BY <1>6, <1>8 DEF Advances
  <2> QED
    BY <1>3, <1>6, <1>8, <2>1, AdvancesEntries
<1> QED
  BY <1>2, <1>3, <1>5, <1>8, <1>9, NextIInv

\* A command that waits for the write lock, or has it, and does not leave it.
LEMMA WaitsStep ==
    ASSUME IInv, NEW c \in Conns, NEW o, CommandOK(o), o \in CommandType(commands),
           o.at # "reply", o.kind = conn[c].kind, o.request = conn[c].request,
           conn[c].at \notin {"submission", "reply"}, conn' = [conn EXCEPT ![c] = o],
           \/ /\ session' = Queued(session, c)
              /\ conn[c].at \notin Writing /\ o.at \in Writing
           \/ /\ session' = session
              /\ conn[c].at \in Writing /\ o.at \in Writing,
           UNCHANGED <<line, commands, entered, excused, acked>>
    PROVE  IInv'
<1>1. PICK s, f, n : s = session /\ f = conn /\ n = commands
  OBVIOUS
<1>2. PICK g, t : g = conn' /\ t = session'
  OBVIOUS
<1>3. /\ n \in 0..MaxCommands /\ n \in Nat /\ Count(n, n)
      /\ RecordsOK(s, f, n) /\ LocksOK(s, f) /\ EntriesOK(s, f, entered, excused)
  BY <1>1 DEF IInv, Count
<1>4. /\ \A r : ~Entering(f[c], r)
      /\ o.kind = "submit" => Head(s.submitters) = c /\ o.request \notin Known(s)
      /\ f[c].at \notin Writing => ~In(c, s.writers)
      /\ f[c].at \in Writing => In(c, s.writers)
  <2>1. Knows(n, s, f, c)
    BY <1>3, CommandKnows
  <2> QED
    BY <1>1, <2>1 DEF Knows, Staged
<1>5. \/ t = Queued(s, c) /\ f[c].at \notin Writing /\ o.at \in Writing
      \/ t = s /\ f[c].at \in Writing /\ o.at \in Writing
  BY <1>1, <1>2
<1>6. SessionOK(s, n)
  BY <1>3 DEF RecordsOK
<1>7. /\ SessionOK(t, n) /\ t.submitted = s.submitted /\ t.submitters = s.submitters
      /\ \A d \in Conns \ {c} : In(d, t.writers) <=> In(d, s.writers)
      /\ In(c, t.writers)
  <2>1. CASE t = s /\ f[c].at \in Writing
    BY <1>4, <1>6, <2>1
  <2>2. CASE t = Queued(s, c) /\ f[c].at \notin Writing
    <3>1. /\ SessionOK(t, n) /\ t.submitted = s.submitted /\ t.submitters = s.submitters
          /\ \A d \in Conns : In(d, t.writers) <=> In(d, s.writers) \/ d = c
      BY <1>3, <1>4, <1>6, <2>2, QueuedOK
    <3> QED
      BY <3>1
  <2> QED
    BY <1>5, <2>1, <2>2
<1>8. Waits(s, f, t, g, c, o)
  BY <1>1, <1>2, <1>4, <1>5, <1>7 DEF Waits
<1>9. o \in CommandType(n) /\ commands' = n /\ UNCHANGED <<line, entered, excused, acked>>
  BY <1>1
<1>10. RecordsOK(t, g, n) /\ LocksOK(t, g) /\ Advances(s, f, t, g, c, o)
  BY <1>3, <1>7, <1>8, <1>9, WaitsOK
<1>11. EntriesOK(t, g, entered, excused)
  <2>1. Staged(g[c]) => o.request \notin Known(s)
    BY <1>4, <1>10 DEF Advances
  <2> QED
    BY <1>3, <1>4, <1>10, <2>1, AdvancesEntries
<1> QED
  BY <1>2, <1>3, <1>9, <1>10, <1>11, NextIInv

LEMMA TakeSeedLockStep ==
    ASSUME IInv, NEW c \in Conns, TakeSeedLock(c)
    PROVE  IInv'
<1>1. PICK n, p : n = commands /\ p = conn[c]
  OBVIOUS
<1>2. p \in CommandType(n) /\ CommandOK(p) /\ p.at = "seed"
  BY <1>1 DEF IInv, RecordsOK, LocksOK, TakeSeedLock
<1>3. PICK o : o = [p EXCEPT !.at = "write"]
  OBVIOUS
<1>4. /\ o \in CommandType(n) /\ o.at = "write" /\ o.kind = p.kind /\ o.text = p.text
      /\ o.request = p.request /\ o.mode = p.mode /\ o.active = p.active
      /\ o.unavailable = p.unavailable /\ o.step = p.step
  <2>1. "write" \in Places
    BY DEF Places
  <2> QED
    BY <1>2, <1>3, <2>1 DEF CommandType
<1>5. CommandOK(o)
  BY <1>2, <1>4 DEF CommandOK, Coherent, Suits
<1>6. /\ session' = Queued(session, c) /\ conn' = [conn EXCEPT ![c] = o]
      /\ UNCHANGED <<line, commands, entered, excused, acked>>
  BY <1>1, <1>3 DEF TakeSeedLock, Follows, Plan, ghosts
<1>7. /\ o.at # "reply" /\ o.at \in Writing /\ conn[c].at \notin Writing
      /\ conn[c].at \notin {"submission", "reply"}
  BY <1>1, <1>2, <1>4 DEF Writing
<1> QED
  BY <1>1, <1>4, <1>5, <1>6, <1>7, WaitsStep

LEMMA CaptureStep ==
    ASSUME IInv, NEW c \in Conns, Capture(c)
    PROVE  IInv'
<1>1. PICK n, p : n = commands /\ p = conn[c]
  OBVIOUS
<1>2. p \in CommandType(n) /\ CommandOK(p) /\ p.at = "write" /\ Captures(p)
  BY <1>1 DEF IInv, RecordsOK, LocksOK, Capture, HoldsWriteLock
<1>3. PICK got \in BOOLEAN :
        conn' = [conn EXCEPT
                    ![c].at = "send",
                    ![c].record = got /\ p.mode = "accept",
                    ![c].start = IF got /\ p.mode = "start" THEN Len(line) ELSE NoStart]
  BY <1>1 DEF Capture
<1>4. PICK b \in BOOLEAN, k \in Nat \cup {NoStart} :
        conn' = [conn EXCEPT ![c].at = "send", ![c].record = b, ![c].start = k]
  <2>1. Len(line) \in Nat
    BY DEF IInv
  <2>2. (IF got /\ p.mode = "start" THEN Len(line) ELSE NoStart) \in Nat \cup {NoStart}
    BY <2>1
  <2>3. (got /\ p.mode = "accept") \in BOOLEAN
    OBVIOUS
  <2> QED
    BY <1>3, <2>2, <2>3
<1>5. PICK o : o = [p EXCEPT !.at = "send", !.record = b, !.start = k]
  OBVIOUS
<1>6. /\ o \in CommandType(n) /\ o.at = "send" /\ o.kind = p.kind /\ o.text = p.text
      /\ o.request = p.request /\ o.mode = p.mode /\ o.active = p.active
      /\ o.unavailable = p.unavailable /\ o.step = p.step
  <2>1. "send" \in Places
    BY DEF Places
  <2> QED
    BY <1>2, <1>5, <2>1 DEF CommandType
<1>7. CommandOK(o)
  <2>1. Coherent(o) /\ Captures(o) /\ Suits(o)
    BY <1>2, <1>6 DEF CommandOK, Coherent, Captures, Suits
  <2>2. o.step # "rename"
    BY <2>1 DEF Captures, Suits
  <2> QED
    BY <1>6, <2>1, <2>2 DEF CommandOK
<1>8. /\ session' = session /\ conn' = [conn EXCEPT ![c] = o]
      /\ UNCHANGED <<line, commands, entered, excused, acked>>
  <2>1. conn \in [Conns -> CommandType(n)]
    BY <1>1 DEF IInv, RecordsOK
  <2>2. conn' = [conn EXCEPT ![c] = o]
    BY <1>1, <1>4, <1>5, <2>1 DEF CommandType
  <2> QED
    BY <2>2 DEF Capture, ghosts
<1>9. /\ o.at # "reply" /\ o.at \in Writing /\ conn[c].at \in Writing
      /\ conn[c].at \notin {"submission", "reply"}
  BY <1>1, <1>2, <1>6 DEF Writing
<1> QED
  BY <1>1, <1>6, <1>7, <1>8, <1>9, WaitsStep

-----------------------------------------------------------------------------
(* The keys that change the line *)

LEMMA LeastNumber ==
    ASSUME NEW N \in SUBSET Nat, N # {}
    PROVE  \E m \in N : \A k \in N : m <= k
<1> DEFINE Less == {ss \in Nat \X Nat : ss[1] < ss[2]}
<1>1. IsWellFoundedOn(Less, Nat)
  BY NatLessThanWellFounded DEF OpToRel
<1>2. ASSUME NEW x \in Nat, NEW y \in Nat, <<y, x>> \notin Less PROVE x <= y
  BY <1>2
<1>3. PICK x \in N : \A y \in N : <<y, x>> \notin Less
  <2> HIDE DEF Less
  <2> QED
    BY <1>1, WFMin
<1> HIDE DEF Less
<1> QED
  BY <1>2, <1>3

\* Numbers up to n have a largest one.
LEMMA LongestIs ==
    ASSUME NEW n \in Nat, NEW S \in SUBSET (0..n), S # {}
    PROVE  Longest(S) \in S
<1> DEFINE R == {n - m : m \in S}
<1>1. R \in SUBSET Nat /\ R # {}
  <2>1. \A m \in 0..n : n - m \in Nat
    OBVIOUS
  <2>2. \A m \in S : n - m \in Nat
    BY <2>1
  <2> QED
    BY <2>2
<1>2. PICK k \in R : \A l \in R : k <= l
  <2> HIDE DEF R
  <2> QED
    BY <1>1, LeastNumber
<1>3. PICK m \in S : k = n - m
  OBVIOUS
<1>4. \A l \in S : l <= m
  <2> SUFFICES ASSUME NEW l \in S PROVE l <= m
    OBVIOUS
  <2>1. n - l \in R
    OBVIOUS
  <2>2. n - m <= n - l
    <3> HIDE DEF R
    <3> QED
      BY <1>2, <1>3, <2>1
  <2>3. l \in 0..n /\ m \in 0..n
    OBVIOUS
  <2> QED
    BY <2>2, <2>3
<1> QED
  BY <1>4 DEF Longest

LEMMA ShorterIs ==
    ASSUME NEW m \in Nat, NEW n \in Nat
    PROVE  Shorter(m, n) \in 0..m /\ Shorter(m, n) \in 0..n
BY DEF Shorter

\* Two texts begin with the same p and end with the same q characters, which do
\* not overlap.
Agree(s, t, p, q) ==
    /\ p \in Nat /\ q \in Nat /\ p + q <= Len(s) /\ p + q <= Len(t)
    /\ \A i \in 1..p : s[i] = t[i]
    /\ \A i \in 0..(q - 1) : s[Len(s) - i] = t[Len(t) - i]
LEMMA CommonEnds ==
    ASSUME NEW s \in Seq(Character), NEW t \in Seq(Character),
           NEW p, p = CommonPrefix(s, t), NEW q, q = CommonSuffix(s, t, p)
    PROVE  Agree(s, t, p, q)
<1>1. PICK n \in Nat : n = Shorter(Len(s), Len(t)) /\ n <= Len(s) /\ n <= Len(t)
  BY ShorterIs
<1> DEFINE P == {k \in 0..n : \A i \in 1..k : s[i] = t[i]}
<1>2. p = Longest(P)
  BY <1>1 DEF CommonPrefix
<1>3. 0 \in P
  BY <1>1
<1>4. p \in P
  <2>1. P \in SUBSET (0..n) /\ P # {}
    BY <1>3
  <2> HIDE DEF P
  <2> QED
    BY <1>2, <2>1, LongestIs
<1>5. p \in 0..n /\ \A i \in 1..p : s[i] = t[i]
  BY <1>4
<1> DEFINE Q == {k \in 0..(n - p) : \A i \in 0..(k - 1) : s[Len(s) - i] = t[Len(t) - i]}
<1>6. q = Longest(Q)
  BY <1>1 DEF CommonSuffix
<1>7. 0 \in Q /\ n - p \in Nat
  BY <1>5
<1>8. q \in Q
  <2>1. Q \in SUBSET (0..(n - p)) /\ Q # {}
    BY <1>7
  <2> HIDE DEF Q
  <2> QED
    BY <1>6, <1>7, <2>1, LongestIs
<1>9. q \in 0..(n - p) /\ \A i \in 0..(q - 1) : s[Len(s) - i] = t[Len(t) - i]
  BY <1>8
<1> QED
  BY <1>1, <1>5, <1>9 DEF Agree

LEMMA CharsOf ==
    ASSUME NEW cells \in Seq(Cell)
    PROVE  /\ Chars(cells) \in Seq(Character) /\ Len(Chars(cells)) = Len(cells)
           /\ \A i \in 1..Len(cells) : Chars(cells)[i] = cells[i].ch
<1>1. PICK n \in Nat : n = Len(cells) /\ \A i \in 1..n : cells[i] \in Cell
  OBVIOUS
<1>2. \A i \in 1..n : cells[i].ch \in Character
  BY <1>1 DEF Cell
<1>3. Chars(cells) = [i \in 1..n |-> cells[i].ch]
  BY <1>1 DEF Chars
<1> QED
  BY <1>1, <1>2, <1>3

\* What the keys leave of the line: some cells up to start, what they type in
\* place of from, and the cells after at.
Spliced(cells, from, to, by, p, q, start, at, r) ==
    LET l == Len(cells)
        typed == Len(to) - q - p
    IN
    /\ p + q <= Len(from) /\ p + q <= Len(to) /\ start <= at
    /\ \A i \in 1..p : from[i] = to[i]
    /\ \A i \in 0..(q - 1) : from[Len(from) - i] = to[Len(to) - i]
    /\ Len(from) - p <= l => at = l - q /\ start = l - (Len(from) - p)
    /\ r \in Seq(Cell) /\ Len(r) = start + typed + (l - at)
    /\ \A i \in 1..start : r[i] = cells[i]
    /\ \A i \in 1..typed : r[start + i].by = by /\ r[start + i].ch = to[p + i]
    /\ \A i \in 1..(l - at) : r[start + typed + i] = cells[at + i]

LEMMA EditedParts ==
    ASSUME NEW cells \in Seq(Cell), NEW from \in Seq(Character), NEW to \in Seq(Character),
           NEW by \in Conns \cup {Tmux}
    PROVE  \E p \in Nat, q \in Nat, start \in 0..Len(cells), at \in 0..Len(cells) :
              Spliced(cells, from, to, by, p, q, start, at, Edited(cells, from, to, by))
<1>1. PICK p, q : p = CommonPrefix(from, to) /\ q = CommonSuffix(from, to, p)
  OBVIOUS
<1>2. PICK l \in Nat, m \in Nat, n \in Nat : l = Len(cells) /\ m = Len(from) /\ n = Len(to)
  OBVIOUS
<1>3. /\ p \in Nat /\ q \in Nat /\ p + q <= m /\ p + q <= n
      /\ \A i \in 1..p : from[i] = to[i]
      /\ \A i \in 0..(q - 1) : from[m - i] = to[n - i]
  <2>1. p = CommonPrefix(from, to)
    BY <1>1
  <2>2. q = CommonSuffix(from, to, p)
    BY <1>1
  <2>3. Agree(from, to, p, q)
    BY <2>1, <2>2, CommonEnds
  <2> QED
    BY <1>2, <2>3 DEF Agree
<1>4. PICK kept \in 0..l : kept = Shorter(q, l) /\ kept <= q /\ (q <= l => kept = q)
  BY <1>2, <1>3 DEF Shorter
<1>5. PICK at \in 0..l : at = l - kept
  BY <1>4
<1>6. PICK k \in Nat : k = m - p - q
  BY <1>3
<1>7. PICK d \in 0..at : d = Shorter(k, at) /\ (k <= at => d = k)
  BY <1>5, <1>6 DEF Shorter
<1>8. PICK start \in 0..at : start = at - d
  BY <1>7
<1>9. PICK e \in Nat : e = n - q /\ p <= e /\ e <= n
  BY <1>3
<1>10. PICK a : a = SubSeq(cells, 1, start)
  OBVIOUS
<1>11. PICK w : w = SubSeq(to, p + 1, e)
  OBVIOUS
<1>12. PICK b : b = Typed(w, by)
  OBVIOUS
<1>13. PICK z : z = SubSeq(cells, at + 1, l)
  OBVIOUS
<1>14. Edited(cells, from, to, by) = a \o b \o z
  BY <1>1, <1>2, <1>4, <1>5, <1>6, <1>7, <1>8, <1>9, <1>10, <1>11, <1>12, <1>13 DEF Edited
<1>15. /\ a \in Seq(Cell) /\ Len(a) = start
       /\ \A i \in 1..start : a[i] = cells[i]
  <2>1. PICK x : x = 0
    OBVIOUS
  <2>2. x \in 0..Len(cells) /\ start \in 0..Len(cells) /\ x <= start
    BY <1>2, <1>5, <1>8, <2>1
  <2>3. /\ SubSeq(cells, x + 1, start) \in Seq(Cell)
        /\ Len(SubSeq(cells, x + 1, start)) = start - x
        /\ \A i \in 1..(start - x) : SubSeq(cells, x + 1, start)[i] = cells[x + i]
    BY <2>2, Cut
  <2>4. x + 1 = 1 /\ start - x = start /\ \A i \in 1..start : x + i = i
    BY <2>1, <2>2
  <2> QED
    BY <1>10, <2>3, <2>4
<1>16. /\ w \in Seq(Character) /\ Len(w) = e - p
       /\ \A i \in 1..(e - p) : w[i] = to[p + i]
  <2>1. p \in 0..Len(to) /\ e \in 0..Len(to) /\ p <= e
    BY <1>2, <1>3, <1>9
  <2> QED
    BY <1>11, <2>1, Cut
<1>17. /\ b \in Seq(Cell) /\ Len(b) = e - p
       /\ \A i \in 1..(e - p) : b[i].ch = to[p + i] /\ b[i].by = by
  <2>1. b \in Seq(Cell) /\ Len(b) = e - p
    BY <1>12, <1>16, TypedCells
  <2>2. \A i \in 1..(e - p) : b[i].ch = w[i] /\ b[i].by = by
    BY <1>12, <1>16 DEF Typed
  <2> QED
    BY <1>16, <2>1, <2>2
<1>18. /\ z \in Seq(Cell) /\ Len(z) = l - at
       /\ \A i \in 1..(l - at) : z[i] = cells[at + i]
  <2>1. at \in 0..Len(cells) /\ l \in 0..Len(cells) /\ at <= l
    BY <1>2, <1>5
  <2> QED
    BY <1>13, <2>1, Cut
<1>19. PICK y : y = a \o b
  OBVIOUS
<1>20. /\ y \in Seq(Cell) /\ Len(y) = start + (e - p)
       /\ \A i \in 1..start : y[i] = a[i]
       /\ \A i \in 1..(e - p) : y[start + i] = b[i]
  <2>1. /\ y \in Seq(Cell) /\ Len(y) = Len(a) + Len(b)
        /\ \A i \in 1..Len(a) : y[i] = a[i]
        /\ \A i \in 1..Len(b) : y[Len(a) + i] = b[i]
    <3>1. a \in Seq(Cell) /\ b \in Seq(Cell)
      BY <1>15, <1>17
    <3>2. /\ a \o b \in Seq(Cell) /\ Len(a \o b) = Len(a) + Len(b)
          /\ \A i \in 1..Len(a) : (a \o b)[i] = a[i]
          /\ \A i \in 1..Len(b) : (a \o b)[Len(a) + i] = b[i]
      BY <3>1, Joined
    <3> QED
      BY <1>19, <3>2
  <2> QED
    BY <1>15, <1>17, <2>1
<1>21. PICK r : r = y \o z
  OBVIOUS
<1>22. /\ r \in Seq(Cell) /\ Len(r) = start + (e - p) + (l - at)
       /\ \A i \in 1..(start + (e - p)) : r[i] = y[i]
       /\ \A i \in 1..(l - at) : r[start + (e - p) + i] = z[i]
  <2>1. /\ r \in Seq(Cell) /\ Len(r) = Len(y) + Len(z)
        /\ \A i \in 1..Len(y) : r[i] = y[i]
        /\ \A i \in 1..Len(z) : r[Len(y) + i] = z[i]
    <3>1. y \in Seq(Cell) /\ z \in Seq(Cell)
      BY <1>18, <1>20
    <3>2. /\ y \o z \in Seq(Cell) /\ Len(y \o z) = Len(y) + Len(z)
          /\ \A i \in 1..Len(y) : (y \o z)[i] = y[i]
          /\ \A i \in 1..Len(z) : (y \o z)[Len(y) + i] = z[i]
      BY <3>1, Joined
    <3> QED
      BY <1>21, <3>2
  <2> QED
    BY <1>18, <1>20, <2>1
<1>23. Edited(cells, from, to, by) = r
  BY <1>14, <1>19, <1>21
<1>24. e - p = n - q - p /\ e - p \in Nat /\ l - at \in Nat /\ start \in 0..l
  BY <1>3, <1>5, <1>8, <1>9
<1>25. m - p <= l => at = l - q /\ start = l - (m - p)
  <2>1. SUFFICES ASSUME m - p <= l PROVE at = l - q /\ start = l - (m - p)
    OBVIOUS
  <2>2. q <= l /\ k <= l - q
    BY <1>3, <1>6, <2>1
  <2>3. kept = q
    BY <1>4, <2>2
  <2>4. at = l - q /\ d = k
    BY <1>5, <1>7, <2>2, <2>3
  <2>5. start = l - q - (m - p - q)
    BY <1>6, <1>8, <2>4
  <2> QED
    BY <1>3, <2>4, <2>5
<1>26. \A i \in 1..(e - p) : r[start + i] = b[i]
  <2> SUFFICES ASSUME NEW i \in 1..(e - p) PROVE r[start + i] = b[i]
    OBVIOUS
  <2>1. start + i \in 1..(start + (e - p))
    BY <1>24
  <2> QED
    BY <1>20, <1>22, <2>1
<1>27. \A i \in 1..start : r[i] = cells[i]
  <2>1. \A i \in 1..start : i \in 1..(start + (e - p))
    BY <1>24
  <2> QED
    BY <1>15, <1>20, <1>22, <2>1
<1>28. \A i \in 1..(l - at) : r[start + (e - p) + i] = cells[at + i]
  BY <1>18, <1>22
<1>29. Spliced(cells, from, to, by, p, q, start, at, r)
  <2>1. PICK x, i, j, h : x = e - p /\ i = Len(cells) /\ j = Len(from) /\ h = Len(to)
    OBVIOUS
  <2>2. x = h - q - p /\ i = l /\ j = m /\ h = n
    BY <1>2, <1>24, <2>1
  <2>3. /\ p + q <= j /\ p + q <= h /\ start <= at
        /\ \A a1 \in 1..p : from[a1] = to[a1]
        /\ \A a1 \in 0..(q - 1) : from[j - a1] = to[h - a1]
        /\ j - p <= i => at = i - q /\ start = i - (j - p)
    <3>1. p + q <= j /\ p + q <= h /\ start <= at
      BY <1>3, <1>8, <2>2
    <3>2. \A a1 \in 0..(q - 1) : from[j - a1] = to[h - a1]
      BY <1>3, <2>2
    <3>3. j - p <= i => at = i - q /\ start = i - (j - p)
      BY <1>25, <2>2
    <3> QED
      BY <1>3, <3>1, <3>2, <3>3
  <2>4. /\ r \in Seq(Cell) /\ Len(r) = start + x + (i - at)
        /\ \A a1 \in 1..start : r[a1] = cells[a1]
        /\ \A a1 \in 1..(i - at) : r[start + x + a1] = cells[at + a1]
    BY <1>22, <1>27, <1>28, <2>1, <2>2
  <2>5. \A a1 \in 1..x : r[start + a1].by = by /\ r[start + a1].ch = to[p + a1]
    BY <1>17, <1>26, <2>1
  <2> QED
    BY <2>1, <2>2, <2>3, <2>4, <2>5 DEF Spliced
<1> QED
  BY <1>2, <1>3, <1>5, <1>23, <1>24, <1>29

\* The draft stands on the line after b cells.
Stands(cells, b, draft) ==
    /\ Len(cells) = b + Len(draft)
    /\ \A i \in 1..Len(draft) : cells[b + i].ch = draft[i]

\* The keys computed from what the line holds make it hold the new text.
LEMMA EditedStands ==
    ASSUME NEW cells \in Seq(Cell), NEW from \in Seq(Character), NEW to \in Seq(Character),
           NEW by \in Conns \cup {Tmux}, NEW b \in Nat, Stands(cells, b, from)
    PROVE  Stands(Edited(cells, from, to, by), b, to)
<1>1. PICK r : r = Edited(cells, from, to, by)
  OBVIOUS
<1>2. PICK p \in Nat, q \in Nat, start \in 0..Len(cells), at \in 0..Len(cells) :
         Spliced(cells, from, to, by, p, q, start, at, r)
  BY <1>1, EditedParts
<1>3. PICK l \in Nat, m \in Nat, n \in Nat : l = Len(cells) /\ m = Len(from) /\ n = Len(to)
  OBVIOUS
<1>4. PICK e \in Int : e = n - q
  <2>1. n - q \in Int
    OBVIOUS
  <2> QED
    BY <2>1
<1>5. /\ p + q <= m /\ p + q <= n /\ p <= e /\ l = b + m
      /\ at = b + m - q /\ start = b + p /\ Len(r) = b + n
      /\ n - q - p = e - p /\ l - at = q
  <2>1. p + q <= m /\ p + q <= n /\ l = b + m
    BY <1>2, <1>3 DEF Spliced, Stands
  <2>2. m - p <= l
    BY <1>3, <2>1
  <2>3. at = l - q /\ start = l - (m - p)
    BY <1>2, <1>3, <2>2 DEF Spliced
  <2>4. Len(r) = start + (n - q - p) + (l - at)
    BY <1>2, <1>3 DEF Spliced
  <2> QED
    BY <1>3, <1>4, <2>1, <2>3, <2>4
<1>6. /\ \A i \in 1..p : from[i] = to[i]
      /\ \A i \in 0..(q - 1) : from[m - i] = to[n - i]
      /\ \A i \in 1..start : r[i] = cells[i]
      /\ \A i \in 1..(e - p) : r[start + i].ch = to[p + i]
      /\ \A i \in 1..q : r[start + (e - p) + i] = cells[at + i]
  BY <1>2, <1>3, <1>5 DEF Spliced
<1>7. \A i \in 1..m : cells[b + i].ch = from[i]
  BY <1>3 DEF Stands
<1>8. ASSUME NEW i \in 1..n PROVE r[b + i].ch = to[i]
  <2>1. CASE i <= p
    <3>1. i \in 1..p /\ b + i \in 1..start /\ i \in 1..m
      BY <1>5, <2>1
    <3> QED
      BY <1>6, <1>7, <3>1
  <2>2. CASE i > p /\ i <= e
    <3>1. PICK j \in 1..(e - p) : j = i - p
      BY <1>5, <2>2
    <3>2. start + j = b + i /\ p + j = i
      BY <1>5, <3>1
    <3>3. r[start + j].ch = to[p + j]
      BY <1>6
    <3> QED
      BY <3>2, <3>3
  <2>3. CASE i > e
    <3>1. PICK j \in 1..q : j = i - e
      BY <1>4, <2>3
    <3>2. /\ start + (e - p) + j = b + i
          /\ at + j = b + (m - q + j) /\ m - q + j \in 1..m
          /\ q - j \in 0..(q - 1) /\ m - (q - j) = m - q + j /\ n - (q - j) = i
      BY <1>4, <1>5, <3>1
    <3>3. PICK x \in 0..(q - 1), y \in 1..m : x = q - j /\ y = m - q + j
      BY <3>2
    <3>4. from[m - x] = to[n - x] /\ m - x = y /\ n - x = i
      BY <1>6, <3>2, <3>3
    <3>5. r[start + (e - p) + j] = cells[at + j] /\ at + j = b + y
      BY <1>6, <3>2, <3>3
    <3>6. cells[b + y].ch = from[y]
      BY <1>7
    <3> QED
      BY <3>2, <3>4, <3>5, <3>6
  <2> QED
    BY <1>4, <2>1, <2>2, <2>3
<1> QED
  BY <1>1, <1>3, <1>5, <1>8 DEF Stands

LEMMA StandsChars ==
    ASSUME NEW cells \in Seq(Cell), NEW text \in Seq(Character)
    PROVE  Chars(cells) = text <=> Stands(cells, 0, text)
<1>1. /\ Chars(cells) \in Seq(Character) /\ Len(Chars(cells)) = Len(cells)
      /\ \A i \in 1..Len(cells) : Chars(cells)[i] = cells[i].ch
  BY CharsOf
<1>2. \A i \in Nat : 0 + i = i
  OBVIOUS
<1> QED
  BY <1>1, <1>2 DEF Stands

LEMMA EditedIs ==
    ASSUME NEW cells \in Seq(Cell), NEW from \in Seq(Character), NEW to \in Seq(Character),
           NEW by \in Conns \cup {Tmux}
    PROVE  /\ Edited(cells, from, to, by) \in Seq(Cell)
           /\ Chars(cells) = from => Chars(Edited(cells, from, to, by)) = to
<1>1. PICK r : r = Edited(cells, from, to, by)
  OBVIOUS
<1>2. r \in Seq(Cell)
  BY <1>1, EditedParts DEF Spliced
<1>3. Stands(cells, 0, from) => Stands(r, 0, to)
  <2>1. PICK b : b = 0
    OBVIOUS
  <2>2. Stands(cells, b, from) => Stands(r, b, to)
    BY <1>1, <2>1, EditedStands
  <2> QED
    BY <2>1, <2>2
<1> QED
  BY <1>1, <1>2, <1>3, StandsChars

-----------------------------------------------------------------------------
(* Steps that end a command or enter a line *)

\* The command of c ends; a submission leaves the lock to the next one.
Ends(s, f, t, g, c) ==
    /\ g = [f EXCEPT ![c] = NoCommand]
    /\ ~In(c, t.writers)
    /\ \A d \in Conns \ {c} : In(d, t.writers) <=> In(d, s.writers)
    /\ t.submitters = IF f[c].kind = "submit" THEN Tail(s.submitters) ELSE s.submitters
    /\ f[c].kind = "submit" => Head(s.submitters) = c

LEMMA EndsOK ==
    ASSUME NEW n \in Nat, NEW s, NEW f, NEW t, NEW g, NEW c \in Conns,
           RecordsOK(s, f, n), LocksOK(s, f), SessionOK(t, n), Ends(s, f, t, g, c)
    PROVE  /\ RecordsOK(t, g, n) /\ LocksOK(t, g)
           /\ g[c] = NoCommand /\ \A d \in Conns \ {c} : g[d] = f[d]
<1>1. PICK o : o = NoCommand
  OBVIOUS
<1>2. o.at = "idle" /\ o.kind = "none" /\ ~(o.at \in Writing) /\ ~Staged(o)
  BY <1>1 DEF NoCommand, Writing, Staged
<1>3. o \in CommandType(n) /\ CommandOK(o)
  BY <1>1, NoCommandOK
<1>4. /\ Once(t.submitters) /\ ~In(c, t.submitters)
      /\ \A d \in Conns \ {c} : In(d, t.submitters) <=> In(d, s.submitters)
      /\ \A d \in Conns \ {c} : Staged(f[d]) => Head(t.submitters) = d
  <2>1. CASE f[c].kind = "submit"
    <3>1. PICK q : q = s.submitters
      OBVIOUS
    <3>2. In(c, q) /\ Once(q) /\ Head(q) = c /\ q \in Seq(Conns) /\ t.submitters = Tail(q)
      BY <2>1, <3>1 DEF Ends, LocksOK, RecordsOK, SessionOK, SessionType
    <3>3. Once(Tail(q)) /\ \A y : In(y, Tail(q)) <=> In(y, q) /\ y # c
      BY <3>2, ReleasedOnce
    <3>4. \A d \in Conns \ {c} : ~Staged(f[d])
      BY <3>1, <3>2 DEF LocksOK
    <3> QED
      BY <3>1, <3>2, <3>3, <3>4
  <2>2. CASE f[c].kind # "submit"
    <3>1. t.submitters = s.submitters
      BY <2>2 DEF Ends
    <3> QED
      BY <2>2, <3>1 DEF LocksOK
  <2> QED
    BY <2>1, <2>2
<1>5. Takes(s, f, t, g, c, o)
  BY <1>1, <1>2, <1>4 DEF Takes, Ends
<1>6. Count(n, n)
  BY DEF Count
<1> QED
  BY <1>1, <1>3, <1>5, <1>6, MovedOK

\* The request of an Enter that is answered is remembered or excused, and so is
\* an id that is forgotten.
Excuses(s, f, t, c, forgiven, pardoned) ==
    /\ \A r \in Requests : r \in Known(t) => r \in Known(s) \/ Entering(f[c], r)
    /\ \A r \in Requests : pardoned[r] \in {forgiven[r], forgiven[r] + 1}
    /\ \A r \in Requests : (r \in Known(s) \/ Entering(f[c], r)) /\ r \notin Known(t)
                              => pardoned[r] = forgiven[r] + 1

LEMMA EndsEntries ==
    ASSUME NEW n \in Nat, NEW s, NEW f, NEW t, NEW g, NEW c \in Conns,
           NEW lines \in [Requests -> Seq(Seq(Character))],
           NEW forgiven \in [Requests -> Nat], NEW pardoned,
           RecordsOK(s, f, n), LocksOK(s, f), EntriesOK(s, f, lines, forgiven),
           g[c] = NoCommand, \A d \in Conns \ {c} : g[d] = f[d],
           Excuses(s, f, t, c, forgiven, pardoned)
    PROVE  EntriesOK(t, g, lines, pardoned)
<1>1. ~Staged(g[c]) /\ \A r : ~Entering(g[c], r)
  BY DEF NoCommand, Staged, Entering
<1>2. ASSUME NEW d \in Conns, Staged(g[d]) PROVE g[d].request \notin Known(t)
  <2>1. d # c /\ g[d] = f[d]
    BY <1>1, <1>2
  <2>2. Knows(n, s, f, d) /\ Knows(n, s, f, c)
    BY CommandKnows
  <2>3. PICK r \in Requests : r = f[d].request /\ r \notin Known(s) /\ Head(s.submitters) = d
    BY <1>2, <2>1, <2>2 DEF Knows, Staged
  <2>4. ~Entering(f[c], r)
    <3> SUFFICES ASSUME Entering(f[c], r) PROVE FALSE
      OBVIOUS
    <3>1. f[c].kind = "submit" /\ f[c].at = "reply"
      BY <2>2, NoneIsNone DEF Entering, Knows, Coherent
    <3> QED
      BY <2>1, <2>2, <2>3, <3>1 DEF Knows, Staged
  <2> QED
    BY <2>1, <2>3, <2>4 DEF Excuses
<1>3. ASSUME NEW r \in Requests, Counted(t, g, r) PROVE Counted(s, f, r)
  BY <1>1, <1>3 DEF Counted, Excuses
<1>4. ASSUME NEW r \in Requests, Counted(s, f, r), ~Counted(t, g, r)
      PROVE  pardoned[r] = forgiven[r] + 1
  <2>1. r \notin Known(t) /\ \A d \in Conns \ {c} : ~Entering(f[d], r)
    BY <1>4 DEF Counted
  <2>2. r \in Known(s) \/ Entering(f[c], r)
    BY <1>4, <2>1 DEF Counted
  <2> QED
    BY <2>1, <2>2 DEF Excuses
<1>5. ASSUME NEW r \in Requests
      PROVE  Len(lines[r]) <= pardoned[r] + IF Counted(t, g, r) THEN 1 ELSE 0
  <2>1. PICK k, i, j : k = Len(lines[r]) /\ i = forgiven[r] /\ j = pardoned[r]
    OBVIOUS
  <2>2. k \in Nat /\ i \in Nat /\ j \in {i, i + 1}
    BY <2>1 DEF Excuses
  <2>3. k <= i + IF Counted(s, f, r) THEN 1 ELSE 0
    BY <2>1 DEF EntriesOK
  <2>4. CASE Counted(t, g, r)
    BY <1>3, <2>1, <2>2, <2>3, <2>4
  <2>5. CASE ~Counted(t, g, r) /\ Counted(s, f, r)
    BY <1>4, <2>1, <2>2, <2>3, <2>5
  <2>6. CASE ~Counted(t, g, r) /\ ~Counted(s, f, r)
    BY <2>1, <2>2, <2>3, <2>6
  <2> QED
    BY <2>4, <2>5, <2>6
<1>6. \A r \in Requests : Counted(t, g, r) => lines[r] # <<>>
  BY <1>3 DEF EntriesOK
<1> QED
  BY <1>2, <1>5, <1>6 DEF EntriesOK

LEMMA EndsIInv ==
    ASSUME IInv, NEW c \in Conns, NEW t, SessionOK(t, commands), session' = t,
           NEW pardoned \in [Requests -> Nat], excused' = pardoned,
           Ends(session, conn, t, conn', c),
           Excuses(session, conn, t, c, excused, pardoned),
           NEW told \in SUBSET Requests, acked' = told,
           \A r \in told : entered[r] # <<>>,
           UNCHANGED <<line, commands, entered>>
    PROVE  IInv'
<1>1. PICK s, f, n : s = session /\ f = conn /\ n = commands
  OBVIOUS
<1>2. PICK g : g = conn'
  OBVIOUS
<1>3. /\ n \in 0..MaxCommands /\ n \in Nat
      /\ RecordsOK(s, f, n) /\ LocksOK(s, f) /\ EntriesOK(s, f, entered, excused)
      /\ entered \in [Requests -> Seq(Seq(Character))] /\ excused \in [Requests -> Nat]
  BY <1>1 DEF IInv
<1>4. /\ RecordsOK(t, g, n) /\ LocksOK(t, g)
      /\ g[c] = NoCommand /\ \A d \in Conns \ {c} : g[d] = f[d]
  BY <1>1, <1>2, <1>3, EndsOK
<1>5. EntriesOK(t, g, entered, pardoned)
  BY <1>1, <1>3, <1>4, EndsEntries
<1> QED
  BY <1>1, <1>2, <1>3, <1>4, <1>5 DEF IInv, AckedEntered

LEMMA EnterSubmissionStep ==
    ASSUME IInv, NEW c \in Conns, EnterSubmission(c)
    PROVE  IInv'
<1>1. PICK s, f, n : s = session /\ f = conn /\ n = commands
  OBVIOUS
<1>2. PICK g, t : g = conn' /\ t = session'
  OBVIOUS
<1>3. /\ n \in 0..MaxCommands /\ n \in Nat /\ Count(n, n)
      /\ RecordsOK(s, f, n) /\ LocksOK(s, f) /\ EntriesOK(s, f, entered, excused)
  BY <1>1 DEF IInv, Count
<1>4. PICK o : o = f[c]
  OBVIOUS
<1>5. /\ o.at = "submission" /\ Head(s.submitters) = c /\ commands' = n
      /\ UNCHANGED <<line, entered, excused>>
  BY <1>1, <1>4 DEF EnterSubmission
<1>6. /\ o \in CommandType(n) /\ CommandOK(o) /\ Coherent(o) /\ ~In(c, s.writers)
      /\ o.kind = "submit" /\ (\A r : ~Entering(f[c], r)) /\ o.request \in Requests
  <2>1. Knows(n, s, f, c)
    BY <1>3, CommandKnows
  <2>2. CommandOK(o) /\ o.at \notin Writing /\ o.at # "reply"
    BY <1>4, <1>5, <2>1 DEF Knows, Writing
  <2> QED
    BY <1>4, <1>5, <2>1, <2>2 DEF Knows, CommandOK
<1>7. ASSUME NEW told, acked' = told, told = acked \/ told = acked \cup {o.request},
             o.request \in Known(s) \/ told = acked,
             Follows(c, Done([session EXCEPT !.submitters = Tail(@)], c))
      PROVE  IInv'
  <2>1. PICK u : u = [s EXCEPT !.submitters = Tail(@)]
    OBVIOUS
  <2>2. s \in SessionType(n) /\ s.submitters # <<>> /\ s.submitters \in Seq(Conns)
    <3>1. In(c, s.submitters)
      BY <1>4, <1>6, <1>3 DEF LocksOK
    <3> QED
      BY <1>3, <3>1 DEF RecordsOK, SessionOK, SessionType, In
  <2>3. /\ SessionOK(u, n) /\ u.submitters = Tail(s.submitters)
        /\ u.submitted = s.submitted /\ u.writers = s.writers
    <3>1. Tail(s.submitters) \in Seq(Conns)
      BY <2>2
    <3>2. u \in SessionType(n)
      BY <2>1, <2>2, <3>1 DEF SessionType
    <3>3. /\ u.submitters = Tail(s.submitters) /\ u.submitted = s.submitted
          /\ u.writers = s.writers /\ u.fence = s.fence /\ u.active = s.active
          /\ u.unavailable = s.unavailable
      BY <2>1, <2>2 DEF SessionType
    <3> QED
      BY <1>3, <3>2, <3>3 DEF RecordsOK, SessionOK
  <2>4. /\ t = Done(u, c).session /\ g = [f EXCEPT ![c] = NoCommand]
    BY <1>1, <1>2, <1>7, <2>1 DEF Follows, Done, Plan
  <2>5. Tracks(u, t, n)
    BY <1>3, <2>3, <2>4, DoneOK
  <2>6. SessionOK(t, n) /\ Known(t) = Known(s)
    BY <2>3, <2>5 DEF Tracks, Known
  <2>7. Ends(s, f, t, g, c)
    BY <1>4, <1>5, <1>6, <2>3, <2>4, <2>5 DEF Ends, Tracks
  <2>8. Excuses(s, f, t, c, excused, excused)
    BY <1>6, <2>6 DEF Excuses
  <2>9. /\ told \in SUBSET Requests /\ excused \in [Requests -> Nat]
        /\ \A r \in told : entered[r] # <<>>
    <3>1. o.request \in Known(s) => entered[o.request] # <<>>
      BY <1>3, <1>6 DEF EntriesOK, Counted
    <3> QED
      BY <1>6, <1>7, <3>1 DEF IInv, AckedEntered
  <2> QED
    BY <1>1, <1>2, <1>5, <1>7, <2>6, <2>7, <2>8, <2>9, EndsIInv
<1>8. CASE o.request \in Known(s)
  <2>1. /\ Follows(c, Done([session EXCEPT !.submitters = Tail(@)], c))
        /\ acked' = acked \/ acked' = acked \cup {o.request}
    BY <1>1, <1>4, <1>8 DEF EnterSubmission, Acknowledged
  <2> QED
    BY <1>7, <1>8, <2>1
<1>9. CASE /\ o.request \notin Known(s) /\ acked' = acked
           /\ Follows(c, Done([session EXCEPT !.submitters = Tail(@)], c))
  BY <1>7, <1>9
<1>10. ASSUME NEW direct \in BOOLEAN, o.request \notin Known(s), acked' = acked,
              Follows(c, PlanSync(session, c, o, direct))
       PROVE  IInv'
  <2>1. PICK p : p = PlanSync(s, c, o, direct)
    OBVIOUS
  <2>2. Gets(f, t, g, c, p)
    BY <1>1, <1>2, <1>10, <2>1 DEF Gets, Follows
  <2>3. Onward(s, c, o, p, n)
    BY <1>3, <1>6, <2>1, PlanSyncOnward DEF RecordsOK
  <2>4. Ready(s, f, s, c, o)
    BY <1>4, <1>5, <1>6 DEF Ready
  <2>5. RecordsOK(t, g, n) /\ LocksOK(t, g) /\ Advances(s, f, t, g, c, o)
    BY <1>3, <2>2, <2>3, <2>4, OnwardOK
  <2>6. EntriesOK(t, g, entered, excused)
    BY <1>3, <1>6, <1>10, <2>5, AdvancesEntries
  <2> QED
    BY <1>2, <1>3, <1>5, <1>10, <2>5, <2>6, NextIInv
<1>11. CASE /\ o.request \notin Known(s) /\ acked' = acked
            /\ Follows(c, PlanSync(session, c, o, FALSE))
  BY <1>10, <1>11
<1>12. \/ o.request \in Known(s)
       \/ /\ o.request \notin Known(s) /\ acked' = acked
          /\ \/ Follows(c, Done([session EXCEPT !.submitters = Tail(@)], c))
             \/ Follows(c, PlanSync(session, c, o, FALSE))
  BY <1>1, <1>4 DEF EnterSubmission
<1> QED
  BY <1>8, <1>9, <1>11, <1>12

\* tmux gets the keys of a command: if it commits a submission, the line is
\* entered for the request.
LEMMA LineAfterIs ==
    ASSUME IInv, NEW c \in Conns, NEW o \in CommandType(commands), CommandOK(o)
    PROVE  LineAfter(o, c) \in Seq(Cell)
<1>1. PICK cells : cells = line /\ cells \in Seq(Cell)
  BY DEF IInv
<1>2. o.from \in Texts /\ o.text \in Texts \cup {<<"k">>} /\ c \in Conns \cup {Tmux}
  BY DEF CommandType
<1>3. <<"k">> \in Seq(Character)
  <2>1. "k" \in Character
    BY DEF Character
  <2> QED
    BY <2>1
<1>4. o.from \in Seq(Character) /\ o.text \in Seq(Character)
  BY <1>2, <1>3, NoneIsNone
<1>5. Edited(cells, o.from, o.text, c) \in Seq(Cell)
  BY <1>1, <1>2, <1>4, EditedIs
<1>6. cells \o Typed(o.text, c) \in Seq(Cell)
  <2>1. Typed(o.text, c) \in Seq(Cell)
    BY <1>2, <1>4, TypedCells
  <2> QED
    BY <1>1, <2>1
<1>7. <<>> \in Seq(Cell)
  OBVIOUS
<1> QED
  BY <1>1, <1>5, <1>6, <1>7 DEF LineAfter

LEMMA Appended ==
    ASSUME NEW S, NEW q \in Seq(S), NEW x \in S
    PROVE  /\ Append(q, x) \in Seq(S) /\ Append(q, x) # <<>>
           /\ Len(Append(q, x)) = Len(q) + 1 /\ Append(q, x)[Len(q) + 1] = x
           /\ \A i \in 1..Len(q) : Append(q, x)[i] = q[i]
<1>1. /\ Append(q, x) \in Seq(S) /\ Len(Append(q, x)) = Len(q) + 1
      /\ Append(q, x)[Len(q) + 1] = x /\ \A i \in 1..Len(q) : Append(q, x)[i] = q[i]
  OBVIOUS
<1>2. Len(q) + 1 # 0 /\ Len(<<>>) = 0
  OBVIOUS
<1> QED
  BY <1>1, <1>2

LEMMA DeliverStep ==
    ASSUME IInv, NEW c \in Conns, Deliver(c)
    PROVE  IInv'
<1>1. PICK s, f, n : s = session /\ f = conn /\ n = commands
  OBVIOUS
<1>2. PICK g : g = conn'
  OBVIOUS
<1>3. /\ n \in 0..MaxCommands /\ n \in Nat /\ Count(n, n)
      /\ RecordsOK(s, f, n) /\ LocksOK(s, f) /\ EntriesOK(s, f, entered, excused)
      /\ line \in Seq(Cell)
  BY <1>1 DEF IInv, Count
<1>4. PICK p : p = f[c]
  OBVIOUS
<1>5. /\ p.at \in {"write", "send"} /\ p.step # "rename"
      /\ g = [f EXCEPT ![c].at = "reply"] /\ line' = LineAfter(p, c)
      /\ session' = s /\ commands' = n /\ UNCHANGED <<excused, acked>>
      /\ entered' = IF p.step = "commit" /\ p.request # NoRequest
                    THEN [entered EXCEPT ![p.request] = Append(@, Chars(line))]
                    ELSE entered
  BY <1>1, <1>2, <1>4 DEF Deliver, HoldsWriteLock
<1>6. Knows(n, s, f, c)
  BY <1>3, CommandKnows
<1>7. /\ p \in CommandType(n) /\ CommandOK(p) /\ Coherent(p)
      /\ (\A r : ~Entering(f[c], r)) /\ p.at \in Writing
  BY <1>4, <1>5, <1>6 DEF Knows, Writing
<1>8. PICK o : o = [p EXCEPT !.at = "reply"]
  OBVIOUS
<1>9. /\ o \in CommandType(n) /\ o.at = "reply" /\ o.kind = p.kind /\ o.text = p.text
      /\ o.request = p.request /\ o.mode = p.mode /\ o.active = p.active
      /\ o.unavailable = p.unavailable /\ o.step = p.step
  <2>1. "reply" \in Places
    BY DEF Places
  <2> QED
    BY <1>7, <1>8, <2>1 DEF CommandType
<1>10. CommandOK(o)
  BY <1>5, <1>7, <1>9 DEF CommandOK, Coherent, Suits
<1>11. Takes(s, f, s, g, c, o)
  <2>1. g = [f EXCEPT ![c] = o]
    BY <1>3, <1>4, <1>5, <1>8 DEF RecordsOK
  <2>2. o.at \in Writing
    BY <1>9 DEF Writing
  <2>3. In(c, s.writers) /\ Once(s.submitters)
    BY <1>3, <1>4, <1>7 DEF LocksOK
  <2>4. /\ In(c, s.submitters) <=> o.kind = "submit"
        /\ Staged(o) => Head(s.submitters) = c
    BY <1>3, <1>4, <1>5, <1>9 DEF LocksOK, Staged
  <2>5. \A d \in Conns \ {c} : Staged(f[d]) => Head(s.submitters) = d
    BY <1>3 DEF LocksOK
  <2> QED
    BY <2>1, <2>2, <2>3, <2>4, <2>5 DEF Takes
<1>12. /\ RecordsOK(s, g, n) /\ LocksOK(s, g)
       /\ g[c] = o /\ \A d \in Conns \ {c} : g[d] = f[d]
  BY <1>3, <1>9, <1>10, <1>11, MovedOK DEF RecordsOK
<1>13. \A d \in Conns : Staged(g[d]) => g[d].request \notin Known(s)
  <2>1. Staged(o) <=> Staged(p)
    BY <1>5, <1>9 DEF Staged
  <2> QED
    BY <1>3, <1>4, <1>9, <1>12, <2>1 DEF EntriesOK
<1>14. line' \in Seq(Cell)
  BY <1>1, <1>5, <1>7, LineAfterIs
<1>15. entered \in [Requests -> Seq(Seq(Character))] /\ excused \in [Requests -> Nat]
  BY DEF IInv
<1>16. CASE p.step = "commit" /\ p.request # NoRequest
  <2>1. PICK q \in Requests : q = p.request
    BY <1>7, <1>16 DEF CommandType
  <2>2. PICK text \in Seq(Character) : text = Chars(line)
    BY <1>3, CharsOf
  <2>3. PICK lines : lines = entered'
    OBVIOUS
  <2>4. lines = [entered EXCEPT ![q] = Append(@, text)]
    BY <1>5, <1>16, <2>1, <2>2, <2>3
  <2>5. lines \in [Requests -> Seq(Seq(Character))]
    BY <1>15, <2>1, <2>2, <2>4
  <2>6. /\ lines[q] # <<>> /\ Len(lines[q]) = Len(entered[q]) + 1
        /\ \A r \in Requests \ {q} : lines[r] = entered[r]
    <3>1. PICK old \in Seq(Seq(Character)) : old = entered[q]
      BY <1>15
    <3>2. Append(old, text) # <<>> /\ Len(Append(old, text)) = Len(old) + 1
      BY <3>1, Appended
    <3>3. lines[q] = Append(old, text) /\ \A r \in Requests \ {q} : lines[r] = entered[r]
      BY <1>15, <2>4, <3>1
    <3> QED
      BY <3>1, <3>2, <3>3
  <2>7. ~Counted(s, f, q)
    <3>1. p.kind = "submit" /\ Staged(p)
      BY <1>5, <1>7, <1>16 DEF Staged, Coherent
    <3>2. q \notin Known(s) /\ Head(s.submitters) = c
      BY <1>4, <1>6, <2>1, <3>1 DEF Knows
    <3>3. ASSUME NEW d \in Conns, Entering(f[d], q) PROVE FALSE
      <4>1. Knows(n, s, f, d)
        BY <1>3, CommandKnows
      <4>2. f[d].kind = "submit" /\ Staged(f[d])
        BY <1>16, <2>1, <3>3, <4>1 DEF Knows, Coherent, Entering, Staged
      <4>3. d = c
        BY <3>2, <4>1, <4>2 DEF Knows
      <4> QED
        BY <1>7, <3>3, <4>3
    <3> QED
      BY <3>2, <3>3 DEF Counted
  <2>8. Counted(s, g, q)
    BY <1>9, <1>12, <1>16, <2>1 DEF Counted, Entering
  <2>9. \A r \in Requests \ {q} : Counted(s, g, r) <=> Counted(s, f, r)
    <3>1. \A r \in Requests \ {q} : ~Entering(g[c], r) /\ ~Entering(f[c], r)
      BY <1>7, <1>9, <1>12, <2>1 DEF Entering
    <3> QED
      BY <1>12, <3>1 DEF Counted
  <2>10. Len(lines[q]) <= excused[q] + IF Counted(s, g, q) THEN 1 ELSE 0
    <3>1. PICK k, i : k = Len(entered[q]) /\ i = excused[q]
      OBVIOUS
    <3>2. k \in Nat /\ i \in Nat
      BY <1>15, <3>1
    <3>3. k <= i + IF Counted(s, f, q) THEN 1 ELSE 0
      BY <1>3, <3>1 DEF EntriesOK
    <3>4. k + 1 <= i + 1
      BY <2>7, <3>2, <3>3
    <3> QED
      BY <2>6, <2>8, <3>1, <3>4
  <2>11. EntriesOK(s, g, lines, excused)
    <3>1. \A r \in Requests \ {q} :
             /\ Len(lines[r]) <= excused[r] + IF Counted(s, g, r) THEN 1 ELSE 0
             /\ Counted(s, g, r) => lines[r] # <<>>
      BY <1>3, <2>6, <2>9 DEF EntriesOK
    <3> QED
      BY <1>13, <2>6, <2>10, <3>1 DEF EntriesOK
  <2>12. \A r \in acked : lines[r] # <<>>
    BY <2>6 DEF IInv, AckedEntered
  <2> QED
    BY <1>1, <1>2, <1>3, <1>5, <1>12, <1>14, <2>3, <2>5, <2>11, <2>12 DEF IInv, AckedEntered
<1>17. CASE ~(p.step = "commit" /\ p.request # NoRequest)
  <2>1. entered' = entered
    BY <1>5, <1>17
  <2>2. \A r \in Requests : ~Entering(g[c], r) /\ ~Entering(f[c], r)
    BY <1>7, <1>9, <1>12, <1>17, NoneIsNone DEF Entering
  <2>3. \A r \in Requests : Counted(s, g, r) <=> Counted(s, f, r)
    BY <1>12, <2>2 DEF Counted
  <2>4. EntriesOK(s, g, entered, excused)
    BY <1>3, <1>13, <2>3 DEF EntriesOK
  <2> QED
    BY <1>1, <1>2, <1>3, <1>5, <1>12, <1>14, <2>1, <2>4 DEF IInv, AckedEntered
<1> QED
  BY <1>16, <1>17

\* A command that has the write lock leaves it, and its submission lock; y is
\* the record it leaves.
Leaves(s, f, y, c) ==
    /\ \A d \in Conns : In(d, y.writers) <=> In(d, s.writers) /\ d # c
    /\ y.submitters = IF f[c].kind = "submit" THEN Tail(s.submitters) ELSE s.submitters

LEMMA LeavesIInv ==
    ASSUME IInv, NEW c \in Conns, conn[c].at \in Writing, NEW y, SessionOK(y, commands),
           Leaves(session, conn, y, c), Follows(c, Done(y, c)),
           NEW pardoned \in [Requests -> Nat], excused' = pardoned,
           Excuses(session, conn, y, c, excused, pardoned),
           NEW told \in SUBSET Requests, acked' = told,
           \A r \in told : entered[r] # <<>>,
           UNCHANGED <<line, commands, entered>>
    PROVE  IInv'
<1>1. PICK s, f, n : s = session /\ f = conn /\ n = commands
  OBVIOUS
<1>2. PICK g, t : g = conn' /\ t = session'
  OBVIOUS
<1>3. /\ n \in Nat /\ RecordsOK(s, f, n) /\ LocksOK(s, f)
      /\ EntriesOK(s, f, entered, excused) /\ f[c].at \in Writing
  BY <1>1 DEF IInv
<1>4. t = Done(y, c).session /\ g = [f EXCEPT ![c] = NoCommand]
  BY <1>1, <1>2 DEF Follows, Done, Plan
<1>5. Tracks(y, t, n)
  BY <1>1, <1>3, <1>4, DoneOK
<1>6. SessionOK(t, n) /\ Known(t) = Known(y)
  BY <1>5 DEF Tracks, Known
<1>7. f[c].kind = "submit" => Head(s.submitters) = c
  <2>1. Knows(n, s, f, c)
    BY <1>3, CommandKnows
  <2> QED
    BY <1>3, <2>1 DEF Knows, Staged, Writing
<1>8. Ends(s, f, t, g, c)
  BY <1>1, <1>4, <1>5, <1>7 DEF Ends, Leaves, Tracks
<1>9. Excuses(s, f, t, c, excused, pardoned)
  BY <1>1, <1>6 DEF Excuses
<1> QED
  BY <1>1, <1>2, <1>6, <1>8, <1>9, EndsIInv

\* What a connection that has the write lock knows, t is the record without it.
Releases(s, f, t, c) ==
    /\ \A d \in Conns : In(d, t.writers) <=> In(d, s.writers) /\ d # c
    /\ t.submitters = s.submitters /\ t.submitted = s.submitted /\ t.name = s.name
    /\ t.draft = s.draft /\ t.active = s.active

LEMMA LockReleased ==
    ASSUME NEW n \in Nat, NEW s, NEW f, NEW lines, NEW forgiven, NEW c \in Conns,
           RecordsOK(s, f, n), LocksOK(s, f), EntriesOK(s, f, lines, forgiven),
           f[c].at \in Writing, Head(s.writers) = c, NEW t, t = Released(s)
    PROVE  SessionOK(t, n) /\ Releases(s, f, t, c) /\ In(c, s.writers) /\ Knows(n, s, f, c)
<1>1. Knows(n, s, f, c)
  BY CommandKnows
<1>2. In(c, s.writers)
  BY <1>1 DEF Knows
<1> QED
  BY <1>1, <1>2, ReleasedOK DEF RecordsOK, Releases

\* A record that keeps the requests: nobody is excused.
LEMMA NobodyExcused ==
    ASSUME NEW s, NEW f, NEW y, NEW c \in Conns, Known(y) = Known(s),
           NEW forgiven, \A r \in Requests : ~Entering(f[c], r)
    PROVE  Excuses(s, f, y, c, forgiven, forgiven)
BY DEF Excuses

\* The record under its new name.
Renamed(t) ==
    LET renamed(p) == IF p = None THEN None ELSE [p EXCEPT !.name = "new"]
    IN [t EXCEPT !.name = "new", !.active = renamed(@), !.unavailable = renamed(@)]

LEMMA RenamedOK ==
    ASSUME NEW n, NEW t, SessionOK(t, n), NEW v, v = Renamed(t)
    PROVE  /\ SessionOK(v, n) /\ v.writers = t.writers /\ v.submitters = t.submitters
           /\ v.submitted = t.submitted /\ v.current = t.current /\ v.accepted = t.accepted
           /\ t.active = None => v.active = None
           /\ t.active # None =>
                 /\ v.active.owner = t.active.owner /\ v.active.start = t.active.start
                 /\ v.active.draft = t.active.draft /\ v.active.cells = t.active.cells
                 /\ v.active.settled = t.active.settled
<1> DEFINE renamed(p) == IF p = None THEN None ELSE [p EXCEPT !.name = "new"]
<1>1. v = [t EXCEPT !.name = "new", !.active = renamed(@), !.unavailable = renamed(@)]
  BY DEF Renamed
<1>2. t \in SessionType(n)
  BY DEF SessionOK
<1>3. PICK a, b : a = renamed(t.active) /\ b = renamed(t.unavailable)
  OBVIOUS
<1>4. "new" \in Names
  BY DEF Names
<1>5. a \in ActiveType \cup {None} /\ (a = None <=> t.active = None)
  <2>1. CASE t.active = None
    BY <1>3, <2>1
  <2>2. CASE t.active # None
    <3>1. t.active \in ActiveType
      BY <1>2, <2>2 DEF SessionType
    <3>2. [t.active EXCEPT !.name = "new"] \in ActiveType
      BY <1>4, <3>1 DEF ActiveType
    <3> QED
      BY <1>3, <2>2, <3>2, NoneIsNone
  <2> QED
    BY <2>1, <2>2
<1>6. b \in UnavailableType \cup {None} /\ (b = None <=> t.unavailable = None)
  <2>1. CASE t.unavailable = None
    BY <1>3, <2>1
  <2>2. CASE t.unavailable # None
    <3>1. t.unavailable \in UnavailableType
      BY <1>2, <2>2 DEF SessionType
    <3>2. [t.unavailable EXCEPT !.name = "new"] \in UnavailableType
      BY <1>4, <3>1 DEF UnavailableType
    <3> QED
      BY <1>3, <2>2, <3>2, NoneIsNone
  <2> QED
    BY <2>1, <2>2
<1>7. v = [t EXCEPT !.name = "new", !.active = a, !.unavailable = b]
  BY <1>1, <1>2, <1>3 DEF SessionType
<1>8. t.active # None =>
         /\ a.owner = t.active.owner /\ a.start = t.active.start /\ a.draft = t.active.draft
         /\ a.cells = t.active.cells /\ a.settled = t.active.settled
  <2> SUFFICES ASSUME t.active # None
               PROVE  /\ a.owner = t.active.owner /\ a.start = t.active.start
                      /\ a.draft = t.active.draft /\ a.cells = t.active.cells
                      /\ a.settled = t.active.settled
    OBVIOUS
  <2>1. a = [t.active EXCEPT !.name = "new"] /\ t.active \in ActiveType
    BY <1>2, <1>3 DEF SessionType
  <2> QED
    BY <2>1 DEF ActiveType
<1> HIDE DEF renamed
<1>9. v \in SessionType(n)
  BY <1>2, <1>4, <1>5, <1>6, <1>7 DEF SessionType
<1>10. /\ v.writers = t.writers /\ v.submitters = t.submitters /\ v.fence = t.fence
       /\ v.submitted = t.submitted /\ v.active = a /\ v.unavailable = b
       /\ v.current = t.current /\ v.accepted = t.accepted
  BY <1>2, <1>7 DEF SessionType
<1>11. SessionOK(v, n)
  BY <1>5, <1>6, <1>9, <1>10 DEF SessionOK
<1> QED
  BY <1>5, <1>8, <1>10, <1>11

LEMMA RenameRepliedStep ==
    ASSUME IInv, NEW c \in Conns, RenameReplied(c)
    PROVE  IInv'
<1>1. PICK s, f, n : s = session /\ f = conn /\ n = commands
  OBVIOUS
<1>2. /\ n \in Nat /\ RecordsOK(s, f, n) /\ LocksOK(s, f) /\ EntriesOK(s, f, entered, excused)
  BY <1>1 DEF IInv
<1>3. PICK o, t : o = f[c] /\ t = Released(s)
  OBVIOUS
<1>4. o.at = "write" /\ o.step = "rename" /\ Head(s.writers) = c
  BY <1>1, <1>3 DEF RenameReplied, HoldsWriteLock
<1>5. SessionOK(t, n) /\ Releases(s, f, t, c) /\ Knows(n, s, f, c)
  BY <1>2, <1>3, <1>4, LockReleased DEF Writing
<1>6. o.kind # "submit" /\ \A r : ~Entering(f[c], r)
  BY <1>3, <1>4, <1>5 DEF Knows, CommandOK, Suits
<1>7. PICK v : v = Renamed(t)
  OBVIOUS
<1>8. /\ SessionOK(v, n) /\ v.writers = t.writers /\ v.submitters = t.submitters
      /\ v.submitted = t.submitted
  BY <1>5, <1>7, RenamedOK
<1>9. PICK y : y = ByName(o.name, t, v)
  OBVIOUS
<1>10. y = t \/ y = v
  BY <1>9 DEF ByName
<1>11. Follows(c, Done(y, c)) /\ excused' = excused /\ acked' = acked
       /\ UNCHANGED <<line, commands, entered>>
  BY <1>1, <1>3, <1>7, <1>9 DEF RenameReplied, Renamed
<1>12. SessionOK(y, n) /\ Leaves(s, f, y, c)
  BY <1>3, <1>5, <1>6, <1>8, <1>10 DEF Leaves, Releases
<1>13. Known(y) = Known(s)
  BY <1>5, <1>8, <1>10 DEF Known, Releases
<1>14. Excuses(s, f, y, c, excused, excused)
  BY <1>6, <1>13, NobodyExcused
<1>15. /\ acked \in SUBSET Requests /\ excused \in [Requests -> Nat]
       /\ \A r \in acked : entered[r] # <<>>
  BY DEF IInv, AckedEntered
<1>16. f[c].at \in Writing
  BY <1>3, <1>4 DEF Writing
<1> QED
  BY <1>1, <1>11, <1>12, <1>14, <1>15, <1>16, LeavesIInv

LEMMA FailedTracks ==
    ASSUME NEW n \in Nat, NEW s, NEW c \in Conns, NEW t, t = Released(s), SessionOK(t, n),
           NEW o \in CommandType(n), CommandOK(o), o.at \in Writing,
           o.kind = "submit" => t.submitters # <<>>,
           NEW v, v = [t EXCEPT !.submitters = IF o.kind = "submit" THEN Tail(@) ELSE @]
    PROVE  /\ SessionOK(v, n) /\ v.writers = t.writers /\ v.submitted = t.submitted
           /\ v.submitters = IF o.kind = "submit" THEN Tail(t.submitters) ELSE t.submitters
           /\ v.current = t.current /\ v.accepted = t.accepted /\ v.active = t.active
           /\ v.name = t.name
           /\ Tracks(v, Failed(s, c, o), n)
<1>1. t \in SessionType(n) /\ t.submitters \in Seq(Conns)
  BY DEF SessionOK, SessionType
<1>2. PICK q : q = IF o.kind = "submit" THEN Tail(t.submitters) ELSE t.submitters
  OBVIOUS
<1>3. q \in Seq(Conns)
  BY <1>1, <1>2
<1>4. v = [t EXCEPT !.submitters = q]
  BY <1>2
<1>5. v \in SessionType(n)
  BY <1>1, <1>3, <1>4 DEF SessionType
<1>6. /\ v.writers = t.writers /\ v.submitters = q /\ v.fence = t.fence
      /\ v.submitted = t.submitted /\ v.active = t.active /\ v.unavailable = t.unavailable
      /\ v.current = t.current /\ v.accepted = t.accepted /\ v.name = t.name
  BY <1>1, <1>4 DEF SessionType
<1>7. SessionOK(v, n)
  BY <1>5, <1>6 DEF SessionOK
<1>8. PICK y : y = Failed(s, c, o)
  OBVIOUS
<1>9. /\ o.mode \in Modes /\ o.name \in Names /\ o.revision \in Nat
      /\ o.unavailable \in UnavailableType \cup {None}
  BY DEF CommandType
<1>10. Tracks(v, v, n) /\ Tracks(v, InvalidateActive(v), n)
  <2>1. Tracks(v, v, n)
    BY <1>7 DEF Tracks
  <2> QED
    BY <1>7, <2>1, InvalidateTracks
<1>11. CASE o.step = "sync" /\ o.mode # "plain"
  <2>1. o.kind # "input" /\ Coherent(o)
    BY <1>11 DEF CommandOK, Suits, Writing
  <2>2. Unknown(s, c, o) \in UnavailableType
    BY <1>9, <2>1 DEF CommandType, Unknown, Unavailable, UnavailableType, Coherent
  <2>3. PICK u \in UnavailableType : u = Unknown(s, c, o)
    BY <2>2
  <2>4. y = MarkUnavailable(v, u)
    BY <1>8, <1>11, <2>3 DEF Failed
  <2> QED
    BY <1>2, <1>6, <1>7, <1>8, <2>4, MarkTracks
<1>12. CASE ~(o.step = "sync" /\ o.mode # "plain")
  <2>1. \/ o.unavailable # None /\ y = MarkUnavailable(v, o.unavailable)
        \/ y = InvalidateActive(v)
        \/ y = v
    BY <1>8, <1>12 DEF Failed
  <2>2. ASSUME o.unavailable # None, y = MarkUnavailable(v, o.unavailable)
        PROVE  Tracks(v, y, n)
    BY <1>7, <1>9, <2>2, MarkTracks
  <2> QED
    BY <1>2, <1>6, <1>7, <1>8, <1>10, <2>1, <2>2
<1> QED
  BY <1>11, <1>12

LEMMA FailWriteStep ==
    ASSUME IInv, NEW c \in Conns, FailWrite(c)
    PROVE  IInv'
<1>1. PICK s, f, n : s = session /\ f = conn /\ n = commands
  OBVIOUS
<1>2. /\ n \in Nat /\ RecordsOK(s, f, n) /\ LocksOK(s, f) /\ EntriesOK(s, f, entered, excused)
      /\ excused \in [Requests -> Nat]
  BY <1>1 DEF IInv
<1>3. PICK o, t : o = f[c] /\ t = Released(s)
  OBVIOUS
<1>4. o.at \in Writing /\ o.step # "rename" /\ Head(s.writers) = c
  BY <1>1, <1>3 DEF FailWrite, HoldsWriteLock, Writing
<1>5. /\ SessionOK(t, n) /\ Releases(s, f, t, c) /\ Knows(n, s, f, c)
      /\ o \in CommandType(n) /\ CommandOK(o) /\ Coherent(o)
  <2>1. SessionOK(t, n) /\ Releases(s, f, t, c) /\ Knows(n, s, f, c)
    BY <1>2, <1>3, <1>4, LockReleased
  <2> QED
    BY <1>3, <2>1 DEF Knows
<1>6. PICK v : v = [t EXCEPT !.submitters = IF o.kind = "submit" THEN Tail(@) ELSE @]
  OBVIOUS
<1>7. PICK y : y = Failed(s, c, o)
  OBVIOUS
<1>8. o.kind = "submit" => t.submitters # <<>>
  BY <1>3, <1>5 DEF Knows, Releases, In
<1>9. /\ SessionOK(v, n) /\ v.writers = t.writers /\ v.submitted = t.submitted
      /\ v.submitters = IF o.kind = "submit" THEN Tail(t.submitters) ELSE t.submitters
      /\ Tracks(v, y, n)
  BY <1>2, <1>3, <1>4, <1>5, <1>6, <1>7, <1>8, FailedTracks
<1>10. SessionOK(y, n) /\ Known(y) = Known(s)
  BY <1>5, <1>9 DEF Tracks, Known, Releases
<1>11. Leaves(s, f, y, c)
  BY <1>3, <1>5, <1>9 DEF Tracks, Leaves, Releases
<1>12. Follows(c, Done(y, c)) /\ acked' = acked /\ UNCHANGED <<line, commands, entered>>
  BY <1>1, <1>3, <1>7 DEF FailWrite
<1>13. PICK pardoned : pardoned = excused'
  OBVIOUS
<1>14. pardoned \in [Requests -> Nat] /\ Excuses(s, f, y, c, excused, pardoned)
  <2>1. pardoned = IF o.at = "reply" /\ o.step = "commit" /\ o.request # NoRequest
                   THEN [excused EXCEPT ![o.request] = @ + 1] ELSE excused
    BY <1>1, <1>3, <1>13 DEF FailWrite
  <2>2. CASE o.at = "reply" /\ o.step = "commit" /\ o.request # NoRequest
    <3>1. PICK q \in Requests : q = o.request
      BY <1>5, <2>2 DEF CommandType
    <3>2. \A r : Entering(f[c], r) <=> r = q
      BY <1>3, <2>2, <3>1 DEF Entering
    <3>3. pardoned = [excused EXCEPT ![q] = excused[q] + 1]
      BY <2>1, <2>2, <3>1
    <3>4. /\ pardoned \in [Requests -> Nat] /\ pardoned[q] = excused[q] + 1
          /\ \A r \in Requests \ {q} : pardoned[r] = excused[r]
      BY <1>2, <3>1, <3>3
    <3> QED
      BY <1>10, <3>1, <3>2, <3>4 DEF Excuses
  <2>3. CASE ~(o.at = "reply" /\ o.step = "commit" /\ o.request # NoRequest)
    <3>1. pardoned = excused
      BY <2>1, <2>3
    <3>2. \A r \in Requests : ~Entering(f[c], r)
      BY <1>3, <2>3, NoneIsNone DEF Entering
    <3> QED
      BY <1>2, <1>10, <3>1, <3>2, NobodyExcused
  <2> QED
    BY <2>2, <2>3
<1>15. acked \in SUBSET Requests /\ \A r \in acked : entered[r] # <<>>
  BY DEF IInv, AckedEntered
<1>16. f[c].at \in Writing
  BY <1>3, <1>4
<1> QED
  BY <1>1, <1>10, <1>11, <1>12, <1>13, <1>14, <1>15, <1>16, LeavesIInv

\* tmux has replied to a sync: the draft is stored, and a submission goes on.
LEMMA SyncRepliedStep ==
    ASSUME IInv, NEW c \in Conns, Reply(c), conn[c].step = "sync"
    PROVE  IInv'
<1>1. PICK s, f, n : s = session /\ f = conn /\ n = commands
  OBVIOUS
<1>2. PICK g, t : g = conn' /\ t = session'
  OBVIOUS
<1>3. /\ n \in 0..MaxCommands /\ n \in Nat /\ Count(n, n)
      /\ RecordsOK(s, f, n) /\ LocksOK(s, f) /\ EntriesOK(s, f, entered, excused)
      /\ excused \in [Requests -> Nat]
  BY <1>1 DEF IInv, Count
<1>4. PICK o, x : o = f[c] /\ x = Released(s)
  OBVIOUS
<1>5. /\ o.at = "reply" /\ o.step = "sync" /\ Head(s.writers) = c
      /\ commands' = n /\ acked' = acked /\ UNCHANGED <<line, entered>>
  BY <1>1, <1>4 DEF Reply, HoldsWriteLock
<1>6. SessionOK(x, n) /\ Releases(s, f, x, c) /\ In(c, s.writers) /\ Knows(n, s, f, c)
  BY <1>3, <1>4, <1>5, LockReleased DEF Writing
<1>7. /\ o \in CommandType(n) /\ CommandOK(o) /\ Coherent(o) /\ o.kind \in {"sync", "submit"}
      /\ \A r : ~Entering(f[c], r)
      /\ o.kind = "submit" => Head(s.submitters) = c /\ o.request \notin Known(s)
  <2>1. o \in CommandType(n) /\ CommandOK(o) /\ Coherent(o)
    BY <1>4, <1>6 DEF Knows
  <2>2. o.kind \in {"sync", "submit"}
    BY <1>5, <2>1 DEF CommandOK, Suits
  <2>3. \A r : ~Entering(f[c], r)
    BY <1>4, <1>5 DEF Entering
  <2>4. o.kind = "submit" => Head(s.submitters) = c /\ o.request \notin Known(s)
    BY <1>4, <1>5, <1>6 DEF Knows, Staged
  <2> QED
    BY <2>1, <2>2, <2>3, <2>4
<1>8. PICK u : u = SyncReplied(x, c, o)
  OBVIOUS
<1>9. Tracks(x, u, n)
  BY <1>3, <1>6, <1>7, <1>8, SyncRepliedTracks
<1>10. PICK v, p : v = StoredDraft(u, o) /\ p = AfterSync(u, c, o)
  OBVIOUS
<1>11. Onward(v, c, o, p, n) /\ Tracks(u, v, n)
  <2>1. SessionOK(u, n) /\ ~In(c, u.writers)
    BY <1>6, <1>9 DEF Tracks, Releases
  <2> QED
    BY <1>3, <1>7, <1>10, <2>1, AfterSyncOnward
<1>12. Gets(f, t, g, c, p)
  <2>1. Replied(s, c, o) = p
    BY <1>4, <1>5, <1>8, <1>10 DEF Replied
  <2> QED
    BY <1>1, <1>2, <1>4, <2>1 DEF Reply, Follows, Gets
<1>13. Ready(s, f, v, c, o)
  BY <1>4, <1>6, <1>7, <1>9, <1>11 DEF Ready, Tracks, Releases
<1>14. RecordsOK(t, g, n) /\ LocksOK(t, g) /\ Advances(s, f, t, g, c, o)
  BY <1>3, <1>11, <1>12, <1>13, OnwardOK
<1>15. EntriesOK(t, g, entered, excused)
  <2>1. Staged(g[c]) => o.request \notin Known(s)
    BY <1>7, <1>14 DEF Advances
  <2> QED
    BY <1>3, <1>7, <1>14, <2>1, AdvancesEntries
<1>16. excused' = excused
  <2>1. Known(session') = Known(session)
    BY <1>1, <1>2, <1>14 DEF Advances
  <2>2. excused' = [r \in Requests |-> excused[r]]
    BY <2>1 DEF Reply
  <2> QED
    BY <1>3, <2>2
<1> QED
  BY <1>2, <1>3, <1>5, <1>14, <1>15, <1>16, NextIInv

\* tmux has replied to the Enter of a submission: its id is remembered, and an
\* older id may be forgotten.
LEMMA SubmissionRepliedStep ==
    ASSUME IInv, NEW c \in Conns, Reply(c), conn[c].step = "commit", conn[c].kind = "submit"
    PROVE  IInv'
<1>1. PICK s, f, n : s = session /\ f = conn /\ n = commands
  OBVIOUS
<1>2. /\ n \in Nat /\ RecordsOK(s, f, n) /\ LocksOK(s, f) /\ EntriesOK(s, f, entered, excused)
      /\ excused \in [Requests -> Nat]
  BY <1>1 DEF IInv
<1>3. PICK o, x : o = f[c] /\ x = Released(s)
  OBVIOUS
<1>4. /\ o.at = "reply" /\ o.step = "commit" /\ o.kind = "submit" /\ Head(s.writers) = c
      /\ UNCHANGED <<line, commands, entered>>
  BY <1>1, <1>3 DEF Reply, HoldsWriteLock
<1>5. SessionOK(x, n) /\ Releases(s, f, x, c) /\ Knows(n, s, f, c)
  BY <1>2, <1>3, <1>4, LockReleased DEF Writing
<1>6. /\ o \in CommandType(n) /\ CommandOK(o) /\ Coherent(o) /\ o.request \notin Known(s)
      /\ In(c, s.submitters)
  BY <1>3, <1>4, <1>5 DEF Knows, Staged
<1>7. PICK q \in Requests : q = o.request
  BY <1>3, <1>4, <1>5 DEF Knows
<1>8. PICK u : u = EnterReplied(x, c, o)
  OBVIOUS
<1>9. PICK v : v = Committed(u, o)
  OBVIOUS
<1>10. Tracks(x, u, n)
  BY <1>2, <1>5, <1>6, <1>8, EnterRepliedTracks
<1>11. Tracks(u, v, n)
  <2>1. SessionOK(u, n)
    BY <1>10 DEF Tracks
  <2> QED
    BY <1>2, <1>6, <1>9, <2>1, CommittedTracks
<1>12. /\ SessionOK(v, n) /\ v.submitters = s.submitters /\ v.submitted = s.submitted
       /\ \A d \in Conns : In(d, v.writers) <=> In(d, s.writers) /\ d # c
  BY <1>5, <1>10, <1>11 DEF Tracks, Releases
<1>13. PICK y : y = Submitted(v, o)
  OBVIOUS
<1>14. /\ SessionOK(y, n) /\ y.submitted = Remembered(s.submitted, q)
       /\ y.submitters = Tail(s.submitters) /\ y.writers = v.writers
  <2>1. v.submitters # <<>>
    BY <1>6, <1>12 DEF In
  <2> QED
    BY <1>2, <1>7, <1>12, <1>13, <2>1, SubmittedOK
<1>15. Leaves(s, f, y, c)
  BY <1>3, <1>4, <1>12, <1>14 DEF Leaves
<1>16. Follows(c, Done(y, c))
  <2>1. Replied(s, c, o) = Done(y, c)
    BY <1>3, <1>4, <1>8, <1>9, <1>13 DEF Replied
  <2> QED
    BY <1>1, <1>3, <2>1 DEF Reply
<1>17. Known(session') = Known(y)
  <2>1. session' = Done(y, c).session
    BY <1>16 DEF Follows
  <2>2. Tracks(y, session', n)
    BY <1>2, <1>14, <2>1, DoneOK
  <2> QED
    BY <2>2 DEF Tracks, Known
<1>18. q \in Known(y) /\ \A r \in Known(y) : r \in Known(s) \/ r = q
  <2>1. s.submitted \in Seq(Requests)
    BY <1>2 DEF RecordsOK, SessionOK, SessionType
  <2>2. /\ In(q, Remembered(s.submitted, q))
        /\ \A r : In(r, Remembered(s.submitted, q)) => In(r, s.submitted) \/ r = q
    BY <2>1, RememberedOne
  <2> QED
    BY <1>14, <2>2, KnownIn
<1>19. PICK pardoned : pardoned = excused'
  OBVIOUS
<1>20. pardoned \in [Requests -> Nat] /\ Excuses(s, f, y, c, excused, pardoned)
  <2>1. pardoned = [r \in Requests |->
                      IF r \in Known(s) \ Known(y) THEN excused[r] + 1 ELSE excused[r]]
    BY <1>1, <1>17, <1>19 DEF Reply
  <2>2. \A r : Entering(f[c], r) <=> r = q
    BY <1>3, <1>4, <1>7 DEF Entering
  <2>3. \A r \in Requests : pardoned[r] = IF r \in Known(s) /\ r \notin Known(y)
                                          THEN excused[r] + 1 ELSE excused[r]
    BY <2>1
  <2>4. Excuses(s, f, y, c, excused, pardoned)
    BY <1>18, <2>2, <2>3 DEF Excuses
  <2>5. \A r \in Requests : excused[r] \in Nat /\ excused[r] + 1 \in Nat
    BY <1>2
  <2>6. \A r \in Requests : pardoned[r] \in Nat
    BY <2>3, <2>5
  <2> QED
    BY <2>1, <2>4, <2>6
<1>21. PICK told : told = acked'
  OBVIOUS
<1>22. told \in SUBSET Requests /\ \A r \in told : entered[r] # <<>>
  <2>1. told = acked \/ told = acked \cup {q}
    BY <1>1, <1>3, <1>4, <1>7, <1>21 DEF Reply, Acknowledged
  <2>2. Counted(s, f, q)
    BY <1>3, <1>4, <1>7 DEF Counted, Entering
  <2>3. entered[q] # <<>>
    BY <1>2, <2>2 DEF EntriesOK
  <2>4. acked \in SUBSET Requests /\ \A r \in acked : entered[r] # <<>>
    BY DEF IInv, AckedEntered
  <2> QED
    BY <2>1, <2>3, <2>4
<1>23. f[c].at \in Writing
  BY <1>3, <1>4 DEF Writing
<1> QED
  BY <1>1, <1>4, <1>14, <1>15, <1>16, <1>19, <1>20, <1>21, <1>22, <1>23, LeavesIInv

\* tmux has replied to Enter without a submission, to keys or to a wiped line.
LEMMA OtherRepliedStep ==
    ASSUME IInv, NEW c \in Conns, Reply(c), conn[c].step # "sync",
           ~(conn[c].step = "commit" /\ conn[c].kind = "submit")
    PROVE  IInv'
<1>1. PICK s, f, n : s = session /\ f = conn /\ n = commands
  OBVIOUS
<1>2. /\ n \in Nat /\ RecordsOK(s, f, n) /\ LocksOK(s, f) /\ EntriesOK(s, f, entered, excused)
      /\ excused \in [Requests -> Nat]
  BY <1>1 DEF IInv
<1>3. PICK o, x : o = f[c] /\ x = Released(s)
  OBVIOUS
<1>4. /\ o.at = "reply" /\ o.step # "sync" /\ ~(o.step = "commit" /\ o.kind = "submit")
      /\ Head(s.writers) = c /\ acked' = acked /\ UNCHANGED <<line, commands, entered>>
  BY <1>1, <1>3 DEF Reply, HoldsWriteLock
<1>5. SessionOK(x, n) /\ Releases(s, f, x, c) /\ Knows(n, s, f, c)
  BY <1>2, <1>3, <1>4, LockReleased DEF Writing
<1>6. o \in CommandType(n) /\ CommandOK(o) /\ Coherent(o)
  BY <1>3, <1>5 DEF Knows
<1>7. o.kind # "submit" /\ o.step \in {"commit", "raw", "clear"}
  BY <1>4, <1>6 DEF CommandOK, Suits
<1>8. \A r \in Requests : ~Entering(f[c], r)
  BY <1>3, <1>6, <1>7, NoneIsNone DEF Entering, Coherent
<1>9. PICK y : /\ Tracks(x, y, n) /\ Replied(s, c, o) = Done(y, c)
  <2>1. CASE o.step = "commit"
    <3>1. PICK u, v : u = EnterReplied(x, c, o) /\ v = Committed(u, o)
      OBVIOUS
    <3>2. Tracks(x, u, n)
      BY <1>2, <1>5, <1>6, <3>1, EnterRepliedTracks
    <3>3. Tracks(u, v, n)
      <4>1. SessionOK(u, n)
        BY <3>2 DEF Tracks
      <4> QED
        BY <1>2, <1>6, <3>1, <4>1, CommittedTracks
    <3>4. Tracks(x, v, n)
      BY <3>2, <3>3, TracksOn
    <3>5. Replied(s, c, o) = Done(v, c)
      BY <1>3, <1>7, <2>1, <3>1 DEF Replied
    <3> QED
      BY <3>4, <3>5
  <2>2. CASE o.step = "raw"
    <3>1. PICK v : v = ByName(o.name, x, InvalidateActive(x))
      OBVIOUS
    <3>2. Tracks(x, x, n) /\ Tracks(x, InvalidateActive(x), n)
      BY <1>2, <1>5, InvalidateTracks DEF Tracks
    <3>3. Tracks(x, v, n)
      BY <3>1, <3>2 DEF ByName
    <3>4. Replied(s, c, o) = Done(v, c)
      BY <1>3, <2>2, <3>1 DEF Replied
    <3> QED
      BY <3>3, <3>4
  <2>3. CASE o.step = "clear"
    <3>1. PICK b, u : b = TRUE /\ u = ResetTracking(x, b)
      OBVIOUS
    <3>2. PICK v : v = Later(u, o.revision)
      OBVIOUS
    <3>3. Tracks(x, u, n)
      BY <1>2, <1>5, <3>1, ResetTracks
    <3>4. Tracks(u, v, n)
      <4>1. SessionOK(u, n) /\ o.revision \in 0..n
        BY <1>6, <3>3 DEF Tracks, CommandType
      <4> QED
        BY <1>2, <3>2, <4>1, LaterTracks
    <3>5. Tracks(x, v, n) /\ Tracks(x, x, n)
      BY <1>5, <3>3, <3>4, TracksOn DEF Tracks
    <3>6. PICK w : w = ByName(o.name, x, v)
      OBVIOUS
    <3>7. Tracks(x, w, n)
      BY <3>5, <3>6 DEF ByName
    <3>8. Replied(s, c, o) = Done(w, c)
      BY <1>3, <2>3, <3>1, <3>2, <3>6 DEF Replied
    <3> QED
      BY <3>7, <3>8
  <2> QED
    BY <1>7, <2>1, <2>2, <2>3
<1>10. SessionOK(y, n) /\ Known(y) = Known(s) /\ Leaves(s, f, y, c)
  BY <1>3, <1>5, <1>7, <1>9 DEF Tracks, Leaves, Releases, Known
<1>11. Follows(c, Done(y, c))
  BY <1>1, <1>3, <1>9 DEF Reply
<1>12. excused' = excused
  <2>1. session' = Done(y, c).session
    BY <1>11 DEF Follows
  <2>2. Tracks(y, session', n)
    BY <1>2, <1>10, <2>1, DoneOK
  <2>3. Known(session') = Known(session)
    BY <1>1, <1>10, <2>2 DEF Tracks, Known
  <2>4. excused' = [r \in Requests |-> excused[r]]
    BY <2>3 DEF Reply
  <2> QED
    BY <1>2, <2>4
<1>13. Excuses(s, f, y, c, excused, excused)
  BY <1>8, <1>10, NobodyExcused
<1>14. acked \in SUBSET Requests /\ \A r \in acked : entered[r] # <<>>
  BY DEF IInv, AckedEntered
<1>15. f[c].at \in Writing
  BY <1>3, <1>4 DEF Writing
<1> QED
  BY <1>1, <1>2, <1>4, <1>10, <1>11, <1>12, <1>13, <1>14, <1>15, LeavesIInv

LEMMA ReplyStep ==
    ASSUME IInv, NEW c \in Conns, Reply(c)
    PROVE  IInv'
BY SyncRepliedStep, SubmissionRepliedStep, OtherRepliedStep

-----------------------------------------------------------------------------
(* The invariant holds *)

LEMMA InitIInv == Init => IInv
<1> SUFFICES ASSUME Init PROVE IInv
  OBVIOUS
<1>1. PICK s, f, n : s = session /\ f = conn /\ n = 0
  OBVIOUS
<1>2. /\ n \in Nat /\ n \in 0..n /\ n \in 0..MaxCommands /\ commands = n
      /\ MaxRemembered \in Nat
  BY <1>1, BoundAssumption, MaxRememberedAssumption DEF Init
<1>3. s = [name |-> "old", draft |-> <<>>, revision |-> n,
           tracked |-> FALSE, synced |-> FALSE, startAllowed |-> TRUE,
           submitted |-> <<>>, submitters |-> <<>>, writers |-> <<>>,
           current |-> {}, active |-> None, unavailable |-> None,
           accepted |-> {}, fence |-> "none", fenced |-> None]
  BY <1>1 DEF Init
<1>4. SessionOK(s, n)
  <2>1. "old" \in Names /\ <<>> \in Texts /\ n \in 0..n
    BY <1>2, NoneIsNone DEF Names
  <2>2. <<>> \in Seq(Requests) /\ <<>> \in Seq(Conns) /\ <<>> \in Seq(Conns \cup {Fence})
    OBVIOUS
  <2>3. s \in SessionType(n)
    BY <1>3, <2>1, <2>2 DEF SessionType
  <2>4. /\ s.writers = <<>> /\ s.submitted = <<>> /\ s.active = None
        /\ s.unavailable = None /\ s.submitters = <<>> /\ s.fence = "none"
    BY <1>3
  <2>5. Once(<<>>) /\ ~In(Fence, <<>>) /\ Len(<<>>) <= MaxRemembered
    BY <1>2 DEF Once, In
  <2> QED
    BY <2>3, <2>4, <2>5 DEF SessionOK
<1>5. /\ s.writers = <<>> /\ s.submitted = <<>> /\ s.submitters = <<>>
  BY <1>3
<1>6. f = [c \in Conns |-> NoCommand]
  BY <1>1 DEF Init
<1>7. RecordsOK(s, f, n)
  BY <1>2, <1>4, <1>6, NoCommandOK DEF RecordsOK
<1>8. \A c \in Conns : /\ f[c] = NoCommand /\ f[c].at = "idle" /\ f[c].kind = "none"
                       /\ ~Staged(f[c]) /\ ~(f[c].at \in Writing)
  BY <1>6 DEF NoCommand, Staged, Writing
<1>9. LocksOK(s, f)
  <2>1. Once(<<>>) /\ \A x : ~In(x, <<>>)
    BY DEF Once, In
  <2>2. \A c \in Conns : CommandOK(f[c])
    BY <1>2, <1>8, NoCommandOK
  <2> QED
    BY <1>5, <1>8, <2>1, <2>2 DEF LocksOK
<1>10. \A r \in Requests : entered[r] = <<>> /\ excused[r] = n
  BY <1>1 DEF Init
<1>11. \A r \in Requests : ~Counted(s, f, r)
  <2>1. \A r : ~In(r, <<>>)
    BY DEF In
  <2>2. \A r : r \notin Known(s)
    BY <1>5, <2>1, KnownIn
  <2> QED
    BY <1>8, <2>2 DEF Counted, Entering
<1>12. EntriesOK(s, f, entered, excused)
  <2>1. Len(<<>>) = n
    BY <1>1
  <2> QED
    BY <1>2, <1>8, <1>10, <1>11, <2>1 DEF EntriesOK
<1>13. /\ line \in Seq(Cell) /\ acked \subseteq Requests
       /\ entered \in [Requests -> Seq(Seq(Character))] /\ excused \in [Requests -> Nat]
  BY DEF Init
<1>14. AckedEntered
  BY DEF Init, AckedEntered
<1> QED
  BY <1>1, <1>2, <1>7, <1>9, <1>12, <1>13, <1>14 DEF IInv

LEMMA StepIInv == IInv /\ [Next]_vars => IInv'
<1> SUFFICES ASSUME IInv, [Next]_vars PROVE IInv'
  OBVIOUS
<1>1. ASSUME NEW c \in Conns, Sync(c) \/ Enter(c) \/ Submit(c) \/ Input(c) PROVE IInv'
  BY <1>1, SyncStep, EnterStep, SubmitStep, InputStep
<1>2. ASSUME NEW c \in Conns, ForceClear(c) \/ ResetDraft(c) \/ Rename(c) PROVE IInv'
  BY <1>2, ForceClearStep, ResetDraftStep, RenameStep
<1>3. ASSUME NEW c \in Conns, Progress(c) PROVE IInv'
  BY <1>3, EnterSubmissionStep, FenceAwaitedStep, TakeSeedLockStep, CaptureStep,
     DeliverStep, ReplyStep, RenameRepliedStep DEF Progress
<1>4. ASSUME NEW c \in Conns, FailWrite(c) \/ Drop(c) \/ Close(c) PROVE IInv'
  BY <1>4, FailWriteStep, DropStep, CloseStep
<1>5. CASE FenceStep
  BY <1>5, QueueFenceStep, SettleFenceStep, GiveUpFenceStep DEF FenceStep
<1>6. CASE TypeInTmux \/ ChangeLayout
  BY <1>6, TypeInTmuxStep, ChangeLayoutStep
<1>7. CASE UNCHANGED vars
  BY <1>7 DEF vars, ghosts, IInv, AckedEntered
<1> QED
  BY <1>1, <1>2, <1>3, <1>4, <1>5, <1>6, <1>7 DEF Next

\* The lock queues, the records and the counts of lines entered fit together
\* in every state (BridgeSession, commit_mobile_composer).
THEOREM InvariantHolds == Spec => []IInv
<1>1. Init => IInv
  BY InitIInv
<1>2. IInv /\ [Next]_vars => IInv'
  BY StepIInv
<1> QED
  BY <1>1, <1>2, PTL DEF Spec

\* The state has its type: the queues of the locks hold each entry once, a
\* queued connection is writing or waits to write, and only the head of the
\* submission queue is past the submission lock (submission_lock, write_lock).
THEOREM ComposerTypes == Spec => []TypeOK
<1>1. IInv => TypeOK
  <2> SUFFICES ASSUME IInv PROVE TypeOK
    OBVIOUS
  <2>1. PICK s, f, n : s = session /\ f = conn /\ n = commands
    OBVIOUS
  <2>2. /\ n \in 0..MaxCommands /\ RecordsOK(s, f, n) /\ LocksOK(s, f)
        /\ line \in Seq(Cell)
    BY <2>1 DEF IInv
  <2>3. s \in SessionType(n) /\ SessionOK(s, n)
    BY <2>2 DEF RecordsOK, SessionOK
  <2>4. \A i \in DOMAIN line : line[i].by \in Conns \cup {Tmux}
    <3>1. PICK cells \in Seq(Cell) : cells = line
      BY <2>2
    <3>2. \A i \in DOMAIN cells : cells[i] \in Cell
      OBVIOUS
    <3> QED
      BY <3>1, <3>2 DEF Cell
  <2>5. s.name \in Names /\ s.draft \in Texts /\ s.revision \in 0..n
    BY <2>3 DEF SessionType
  <2>6. s.revision \in 0..MaxCommands
    BY <2>2, <2>5, BoundAssumption
  <2>7. Len(s.submitted) <= MaxRemembered
    BY <2>3 DEF SessionOK
  <2>8. \A i, j \in DOMAIN s.writers : s.writers[i] = s.writers[j] => i = j
    BY <2>3 DEF SessionOK, Once
  <2>9. ASSUME NEW i \in DOMAIN s.writers
        PROVE  IF s.writers[i] = Fence THEN s.fence = "queued"
               ELSE f[s.writers[i]].at \in {"write", "send", "reply"}
    <3>1. s.writers[i] \in Conns \cup {Fence}
      BY <2>3 DEF SessionType
    <3>2. In(s.writers[i], s.writers)
      BY DEF In
    <3>3. CASE s.writers[i] = Fence
      BY <2>3, <3>2, <3>3 DEF SessionOK
    <3>4. CASE s.writers[i] # Fence
      <4>1. PICK c \in Conns : c = s.writers[i]
        BY <3>1, <3>4
      <4>2. f[c].at \in {"write", "send", "reply"}
        BY <2>2, <3>2, <4>1 DEF LocksOK, Writing
      <4> QED
        BY <3>4, <4>1, <4>2
    <3> QED
      BY <3>3, <3>4
  <2>10. s.active # None => s.unavailable = None
    BY <2>3 DEF SessionOK
  <2>11. \A c \in Conns : f[c].kind = "submit" /\ f[c].at # "submission"
                            => Head(s.submitters) = c
    BY <2>2 DEF LocksOK, Staged
  <2> QED
    BY <2>1, <2>4, <2>5, <2>6, <2>7, <2>8, <2>9, <2>10, <2>11 DEF TypeOK
<1> QED
  BY <1>1, InvariantHolds, PTL

\* A staged submission is entered at most once, whatever is sent again over
\* whatever connection, except for an Enter whose write failed after tmux had
\* it and for an id that is no longer remembered (submittedRequests).
THEOREM SubmissionEnteredOnce == Spec => []EnteredOnce
<1>1. IInv => EnteredOnce
  <2> SUFFICES ASSUME IInv, NEW r \in Requests PROVE Len(entered[r]) <= 1 + excused[r]
    BY DEF EnteredOnce
  <2>1. PICK s, f, k, i : s = session /\ f = conn /\ k = Len(entered[r]) /\ i = excused[r]
    OBVIOUS
  <2>2. k \in Nat /\ i \in Nat
    BY <2>1 DEF IInv
  <2>3. k <= i + IF Counted(s, f, r) THEN 1 ELSE 0
    BY <2>1 DEF IInv, EntriesOK
  <2>4. k <= 1 + i
    BY <2>2, <2>3
  <2> QED
    BY <2>1, <2>4
<1> QED
  BY <1>1, InvariantHolds, PTL

\* The server acknowledges only submissions whose text was entered
\* (composer-submitted).
THEOREM AcknowledgedIsEntered == Spec => []AckedEntered
<1>1. IInv => AckedEntered
  BY DEF IInv
<1> QED
  BY <1>1, InvariantHolds, PTL

-----------------------------------------------------------------------------
(* Commands do not block one another: whoever is at the head of a queue can *)
(* go on, and the fence is in the queue of the write lock as long as it is  *)
(* queued, and no longer.                                                   *)

LEMMA HeadIn ==
    ASSUME NEW S, NEW q \in Seq(S), NEW x, In(x, q)
    PROVE  In(Head(q), q) /\ Head(q) \in S
<1>1. PICK i \in 1..Len(q) : q[i] = x
  BY DEF In
<1>2. 1 \in DOMAIN q /\ Head(q) = q[1] /\ q[1] \in S
  BY <1>1
<1> QED
  BY <1>2 DEF In

LEMMA WritersProceed ==
    ASSUME IInv, NEW c \in Conns, conn[c].at \in Writing, Head(session.writers) = c
    PROVE  MayProceed(c)
<1>1. PICK o : o = conn[c]
  OBVIOUS
<1>2. CommandOK(o) /\ o.at \in Writing
  BY <1>1 DEF IInv, LocksOK
<1>3. o.at = "send" => Captures(o) /\ o.step # "rename"
  BY <1>2 DEF CommandOK
<1>4. o.at = "reply" => o.step \in {"sync", "commit", "raw", "clear"}
  BY <1>2 DEF CommandOK, Suits
<1> QED
  BY <1>1, <1>2, <1>3, <1>4 DEF MayProceed, HoldsWriteLock, Writing

\* The head of the queue of the write lock goes on.
LEMMA HeadProceeds ==
    ASSUME IInv, NEW x, In(x, session.writers)
    PROVE  FenceMayProceed \/ \E c \in Conns : MayProceed(c)
<1>1. PICK s, n, h : s = session /\ n = commands /\ h = Head(s.writers)
  OBVIOUS
<1>2. SessionOK(s, n) /\ s.writers \in Seq(Conns \cup {Fence})
  BY <1>1 DEF IInv, RecordsOK, SessionOK, SessionType
<1>3. In(h, s.writers) /\ h \in Conns \cup {Fence}
  BY <1>1, <1>2, HeadIn
<1>4. CASE h = Fence
  BY <1>1, <1>2, <1>3, <1>4 DEF SessionOK, FenceMayProceed
<1>5. CASE h \in Conns
  <2>1. conn[h].at \in Writing
    BY <1>1, <1>3, <1>5 DEF IInv, LocksOK
  <2> QED
    BY <1>1, <1>5, <2>1, WritersProceed
<1> QED
  BY <1>3, <1>4, <1>5

\* Past the submission lock a command waits for the fence, which then can go
\* on or is queued, for its seed lock, or in the queue of the write lock.
LEMMA PastLockProceeds ==
    ASSUME IInv, NEW c \in Conns, conn[c].at \in {"fence", "seed"} \cup Writing
    PROVE  FenceMayProceed \/ \E d \in Conns : MayProceed(d)
<1>1. PICK s, n : s = session /\ n = commands
  OBVIOUS
<1>2. SessionOK(s, n) /\ s.fence \in {"none", "waiting", "queued"}
  BY <1>1 DEF IInv, RecordsOK, SessionOK, SessionType
<1>3. CASE conn[c].at = "fence"
  <2>1. CASE s.fence = "none"
    BY <1>1, <1>3, <2>1 DEF MayProceed
  <2>2. CASE s.fence = "waiting"
    BY <1>1, <2>2 DEF FenceMayProceed
  <2>3. CASE s.fence = "queued"
    <3>1. In(Fence, session.writers)
      BY <1>1, <1>2, <2>3 DEF SessionOK
    <3> QED
      BY <3>1, HeadProceeds
  <2> QED
    BY <1>2, <2>1, <2>2, <2>3
<1>4. CASE conn[c].at = "seed"
  BY <1>4 DEF MayProceed
<1>5. CASE conn[c].at \in Writing
  <2>1. In(c, session.writers)
    BY <1>5 DEF IInv, LocksOK
  <2> QED
    BY <2>1, HeadProceeds
<1> QED
  BY <1>3, <1>4, <1>5

LEMMA SubmittersProceed ==
    ASSUME IInv, NEW c \in Conns, conn[c].at = "submission"
    PROVE  FenceMayProceed \/ \E d \in Conns : MayProceed(d)
<1>1. PICK s, f, n, h : s = session /\ f = conn /\ n = commands /\ h = Head(s.submitters)
  OBVIOUS
<1>2. /\ s.submitters \in Seq(Conns) /\ LocksOK(s, f) /\ RecordsOK(s, f, n)
  BY <1>1 DEF IInv, RecordsOK, SessionOK, SessionType
<1>3. In(c, s.submitters)
  BY <1>1, <1>2 DEF LocksOK, CommandOK
<1>4. In(h, s.submitters) /\ h \in Conns
  BY <1>1, <1>2, <1>3, HeadIn
<1>5. f[h].kind = "submit" /\ CommandOK(f[h]) /\ f[h].at \in Places
  BY <1>2, <1>4 DEF LocksOK, RecordsOK, CommandType
<1>6. f[h].at # "idle"
  BY <1>5 DEF CommandOK, NoCommand
<1>7. CASE f[h].at = "submission"
  BY <1>1, <1>4, <1>7 DEF MayProceed
<1>8. CASE f[h].at \in {"fence", "seed"} \cup Writing
  BY <1>1, <1>4, <1>8, PastLockProceeds
<1> QED
  BY <1>5, <1>6, <1>7, <1>8 DEF Places, Writing

\* Commands, however many connections run them, never all wait for one another
\* on the submission lock, the prompt fence and the write lock: whatever fails,
\* is cancelled or is refused leaves every queue behind it moving.
THEOREM CommandsGoOn == Spec => []NobodyBlocked
<1>1. IInv => NobodyBlocked
  <2> SUFFICES ASSUME IInv, NEW c \in Conns, InFlight(c)
               PROVE  FenceMayProceed \/ \E d \in Conns : MayProceed(d)
    BY DEF NobodyBlocked
  <2>1. conn[c].at \in Places \ {"idle"}
    <3>1. PICK f, n : f = conn /\ n = commands
      OBVIOUS
    <3>2. f \in [Conns -> CommandType(n)]
      BY <3>1 DEF IInv, RecordsOK
    <3>3. f[c].at \in Places
      BY <3>2 DEF CommandType
    <3> QED
      BY <3>1, <3>3 DEF InFlight
  <2>2. conn[c].at = "submission" \/ conn[c].at \in {"fence", "seed"} \cup Writing
    BY <2>1 DEF Places, Writing
  <2> QED
    BY <2>2, SubmittersProceed, PastLockProceeds
<1> QED
  BY <1>1, InvariantHolds, PTL

-----------------------------------------------------------------------------
(* What is entered for a staged submission is its text.                    *)
(*                                                                         *)
(* While only composer commands reach the pane, one connection edits the   *)
(* draft at a time and no rename falls into a commit, the line holds the   *)
(* draft the server keeps, or what the command that waits for its reply    *)
(* has made of it.                                                         *)

\* A command that neither has edited the line nor computed what to do to it.
Quiet(o) == o.kind \in {"none", "rename"} \/ o.at = "submission"
\* What the line shows once tmux has the keys of the command.
Showing(o) == IF o.step = "sync" THEN o.text ELSE <<>>

\* Two commands that are not renames are both submissions.
Together(o, p) ==
    o.kind \in {"none", "rename"} \/ p.kind \in {"none", "rename"}
      \/ (o.kind = "submit" /\ p.kind = "submit")
Commits(kind) == kind \in {"submit", "enter", "clear"}
Apart(s, f) ==
    /\ \A c \in Conns : f[c].kind # "input"
    /\ \A c, d \in Conns : c # d => Together(f[c], f[d])
    /\ \A c \in Conns : Commits(f[c].kind) => f[c].name = s.name
\* The line shows what the command that waits for its reply has typed, or the
\* draft, from which every other command has computed its keys.
Shows(s, f, chars) ==
    /\ \A c \in Conns : InStep(s, f[c])
    /\ \A c \in Conns : f[c].at = "reply" => chars = Showing(f[c])
    /\ (\A c \in Conns : f[c].at # "reply") => chars = s.draft
Intact(s, f, chars) == Apart(s, f) /\ Shows(s, f, chars)
Verbatim(lines) ==
    \A r \in Requests : \A i \in DOMAIN lines[r] : lines[r][i] = TextOf[r]

Alone == clean /\ ~crossed
Whole == Intact(session, conn, Chars(line)) /\ Verbatim(entered)
VInv == IInv /\ (Alone => Whole)

-----------------------------------------------------------------------------
(* Commands that stand aside *)

LEMMA QuietInStep ==
    ASSUME NEW o, CommandOK(o), Quiet(o)
    PROVE  o.at # "reply" /\ \A s : InStep(s, o)
<1>1. o.at \in {"seed", "write", "send", "reply"} => o.step = "rename" /\ o.kind = "rename"
  BY DEF CommandOK, Quiet, Suits
<1>2. o.at = "fence" => o.kind \in {"submit", "enter"}
  BY DEF CommandOK
<1> QED
  BY <1>1, <1>2 DEF CommandOK, Quiet, InStep

\* Does everybody else stand aside?
Sole(f, c) == \A d \in Conns \ {c} : Quiet(f[d])

\* At most one command is past the locks of the others.
LEMMA OthersQuiet ==
    ASSUME NEW s, NEW f, LocksOK(s, f), Apart(s, f), NEW c \in Conns,
           ~Quiet(f[c]) \/ (f[c].at = "submission" /\ Head(s.submitters) = c)
    PROVE  Sole(f, c)
<1> SUFFICES ASSUME NEW d \in Conns \ {c}, ~Quiet(f[d]) PROVE FALSE
  BY DEF Sole
<1>1. f[c].at = "submission" => f[c].kind = "submit"
  BY DEF LocksOK, CommandOK
<1>2. f[c].kind = "submit" /\ f[d].kind = "submit"
  BY <1>1 DEF Apart, Together, Quiet
<1>3. Staged(f[d]) /\ (Staged(f[c]) \/ Head(s.submitters) = c)
  BY <1>2 DEF Quiet, Staged
<1> QED
  BY <1>3 DEF LocksOK

\* The record keeps its name and draft.
SameText(s, t) == t.name = s.name /\ t.draft = s.draft

LEMMA KeptIntact ==
    ASSUME NEW s, NEW f, NEW t, NEW chars, Intact(s, f, chars), SameText(s, t)
    PROVE  Intact(t, f, chars)
BY DEF Intact, Apart, Shows, SameText, InStep

\* The command of c becomes o, the others stay.
Becomes(f, g, c, o) == g[c] = o /\ \A d \in Conns \ {c} : g[d] = f[d]
\* It is as apart from the others as the old one, or there is none.
Joins(s, f, c, o) ==
    /\ o.kind # "input"
    /\ \A d \in Conns \ {c} : Together(f[d], o) /\ Together(o, f[d])
    /\ Commits(o.kind) => o.name = s.name

LEMMA StillApart ==
    ASSUME NEW s, NEW f, NEW t, NEW g, NEW c \in Conns, NEW o,
           Apart(s, f), t.name = s.name, Becomes(f, g, c, o), Joins(s, f, c, o)
    PROVE  Apart(t, g)
<1>1. \A d \in Conns : g[d].kind # "input"
  BY DEF Apart, Becomes, Joins
<1>2. ASSUME NEW d \in Conns, NEW e \in Conns, d # e PROVE Together(g[d], g[e])
  BY <1>2 DEF Apart, Becomes, Joins
<1>3. \A d \in Conns : Commits(g[d].kind) => g[d].name = t.name
  BY DEF Apart, Becomes, Joins
<1> QED
  BY <1>1, <1>2, <1>3 DEF Apart

LEMMA JoinsSame ==
    ASSUME NEW s, NEW f, Apart(s, f), NEW c \in Conns, NEW o, o.kind = f[c].kind,
           Commits(o.kind) => o.name \in {f[c].name, s.name}
    PROVE  Joins(s, f, c, o)
BY DEF Apart, Joins, Together

LEMMA JoinsNone ==
    ASSUME NEW s, NEW f, NEW c \in Conns
    PROVE  Joins(s, f, c, NoCommand)
BY DEF Joins, Together, NoCommand, Commits

\* One command among quiet ones moves on.
LEMMA SoleIntact ==
    ASSUME NEW s, NEW f, NEW t, NEW g, NEW c \in Conns, NEW o, NEW chars,
           Apart(s, f), t.name = s.name, Becomes(f, g, c, o), Joins(s, f, c, o),
           LocksOK(t, g), Sole(f, c), InStep(t, o),
           chars = IF o.at = "reply" THEN Showing(o) ELSE t.draft
    PROVE  Intact(t, g, chars)
<1>1. Apart(t, g)
  BY StillApart
<1>2. \A d \in Conns \ {c} : g[d].at # "reply" /\ InStep(t, g[d])
  <2> SUFFICES ASSUME NEW d \in Conns \ {c} PROVE g[d].at # "reply" /\ InStep(t, g[d])
    OBVIOUS
  <2>1. CommandOK(g[d]) /\ Quiet(g[d])
    BY DEF LocksOK, Becomes, Sole
  <2> QED
    BY <2>1, QuietInStep
<1>3. g[c] = o
  BY DEF Becomes
<1> QED
  BY <1>1, <1>2, <1>3 DEF Intact, Shows

\* A quiet command takes the place of a quiet one.
LEMMA QuietIntact ==
    ASSUME NEW s, NEW f, NEW t, NEW g, NEW c \in Conns, NEW o, NEW chars,
           Intact(s, f, chars), t.draft = s.draft, Becomes(f, g, c, o),
           LocksOK(s, f), LocksOK(t, g), Quiet(f[c]), Quiet(o), Apart(t, g)
    PROVE  Intact(t, g, chars)
<1>1. /\ f[c].at # "reply" /\ o.at # "reply" /\ InStep(t, o) /\ g[c] = o
  <2>1. CommandOK(f[c]) /\ CommandOK(g[c]) /\ g[c] = o
    BY DEF LocksOK, Becomes
  <2> QED
    BY <2>1, QuietInStep
<1>2. \A d \in Conns \ {c} : g[d] = f[d] /\ InStep(t, g[d])
  BY DEF Intact, Shows, Becomes, InStep
<1>3. (\A d \in Conns : g[d].at # "reply") => chars = t.draft
  BY <1>1, <1>2 DEF Intact, Shows
<1> QED
  BY <1>1, <1>2, <1>3 DEF Intact, Shows

\* The line when no other command has its reply to wait for.
LEMMA LineShows ==
    ASSUME NEW s, NEW f, NEW chars, Intact(s, f, chars), LocksOK(s, f), NEW c \in Conns,
           Sole(f, c)
    PROVE  chars = IF f[c].at = "reply" THEN Showing(f[c]) ELSE s.draft
<1>1. \A d \in Conns \ {c} : f[d].at # "reply"
  BY QuietInStep DEF LocksOK, Sole
<1> QED
  BY <1>1 DEF Intact, Shows

\* A command is planned from the record v up to its next await.
LEMMA PlannedIntact ==
    ASSUME NEW n, NEW m, NEW s, NEW f, NEW t, NEW g, NEW c \in Conns, NEW o, NEW v, NEW p,
           RecordsOK(s, f, n), LocksOK(t, g), Apart(s, f), Sole(f, c), Joins(s, f, c, o),
           v.name = s.name, Onward(v, c, o, p, m), Aligned(p), Gets(f, t, g, c, p)
    PROVE  Intact(t, g, v.draft)
<1>1. PICK q : q = p.command
  OBVIOUS
<1>2. Becomes(f, g, c, q)
  BY <1>1 DEF Becomes, Gets, RecordsOK
<1>3. /\ t.name = s.name /\ t.draft = v.draft /\ InStep(t, q)
      /\ \/ q = NoCommand
         \/ /\ q.at \in {"fence", "seed", "write"} /\ q.kind = o.kind
            /\ q.name \in {o.name, s.name}
  BY <1>1 DEF Onward, Gets, Aligned
<1>4. Joins(s, f, c, q)
  <2>1. CASE q = NoCommand
    BY <2>1, JoinsNone
  <2>2. CASE q.kind = o.kind /\ q.name \in {o.name, s.name}
    BY <2>2 DEF Joins, Together
  <2> QED
    BY <1>3, <2>1, <2>2
<1>5. q.at # "reply"
  BY <1>3 DEF NoCommand
<1> QED
  BY <1>2, <1>3, <1>4, <1>5, SoleIntact

\* The command that edits the draft starts when nobody else does.
LEMMA EditsAlone ==
    ASSUME IInv, Apart(session, conn), NEW c \in Conns, NEW kind, Begins(c, kind), clean',
           Edits(kind)
    PROVE  /\ conn[c] = NoCommand /\ Sole(conn, c)
           /\ \A o : o.kind = kind /\ o.name = session.name => Joins(session, conn, c, o)
<1>1. PICK s, f : s = session /\ f = conn
  OBVIOUS
<1>2. LocksOK(s, f)
  BY <1>1 DEF IInv
<1>3. \A d \in Conns \ {c} : f[d].at = "idle" \/ f[d].kind = "rename"
  BY <1>1 DEF Begins, Overlaps, InFlight, Edits
<1>4. \A d \in Conns \ {c} : f[d].kind \in {"none", "rename"}
  BY <1>2, <1>3 DEF LocksOK, CommandOK, NoCommand
<1>5. f[c] = NoCommand
  BY <1>1, <1>2 DEF Begins, InFlight, LocksOK, CommandOK
<1> QED
  BY <1>1, <1>4, <1>5 DEF Sole, Quiet, Joins, Together, Edits

LEMMA LineIsDraft ==
    ASSUME NEW s, NEW f, NEW chars, Intact(s, f, chars), LocksOK(s, f), NEW c \in Conns,
           Sole(f, c), f[c].at # "reply"
    PROVE  chars = s.draft
BY LineShows

-----------------------------------------------------------------------------
(* Steps that plan a command *)

LEMMA SyncWhole ==
    ASSUME IInv, IInv', Whole, NEW c \in Conns, Sync(c), clean'
    PROVE  Whole'
<1>1. PICK s, f, n : s = session /\ f = conn /\ n = commands
  OBVIOUS
<1>2. PICK m, g, t : m = commands' /\ g = conn' /\ t = session'
  OBVIOUS
<1>3. /\ n \in Nat /\ m = n + 1 /\ f[c] = NoCommand /\ Revisions \subseteq 0..m
      /\ UNCHANGED <<line, entered>>
  BY <1>1, <1>2, BeginsOK DEF Sync
<1>4. /\ RecordsOK(s, f, n) /\ LocksOK(s, f) /\ LocksOK(t, g)
      /\ Intact(s, f, Chars(line)) /\ Apart(s, f)
  BY <1>1, <1>2 DEF IInv, Whole, Intact
<1>5. PICK text \in Drafts, revision \in Revisions :
        Follows(c, PlanSync(session, c, Command("sync", text, revision), TRUE))
  BY DEF Sync
<1>6. PICK o : o = Command("sync", text, revision)
  OBVIOUS
<1>7. o \in CommandType(m) /\ o.kind = "sync" /\ Coherent(o) /\ o.name = s.name
  <2>1. /\ "sync" \in Kinds /\ text \in Texts \cup {<<"k">>} /\ text \in Texts
        /\ revision \in 0..m
    BY <1>3 DEF Kinds, Texts
  <2>2. SessionOK(session, commands) /\ m \in Nat
    BY <1>1, <1>3, <1>4 DEF RecordsOK
  <2> QED
    BY <1>1, <1>6, <2>1, <2>2, CommandIs
<1>8. PICK p : p = PlanSync(s, c, o, TRUE)
  OBVIOUS
<1>9. Gets(f, t, g, c, p)
  BY <1>1, <1>2, <1>5, <1>6, <1>8 DEF Follows, Gets
<1>10. SessionOK(s, m) /\ ~In(c, s.writers) /\ f[c].at # "reply"
  BY <1>3, <1>4, SessionLater DEF RecordsOK, LocksOK, Writing, NoCommand
<1>11. Onward(s, c, o, p, m) /\ Aligned(p)
  <2>1. m \in Nat /\ o.kind \in {"sync", "submit"}
    BY <1>3, <1>7
  <2>2. \A direct \in BOOLEAN : /\ Onward(s, c, o, PlanSync(s, c, o, direct), m)
                                /\ Aligned(PlanSync(s, c, o, direct))
    BY <1>7, <1>10, <2>1, PlanSyncOnward
  <2> QED
    BY <1>8, <2>2
<1>12. Sole(f, c) /\ Joins(s, f, c, o)
  <2>1. PICK kind : kind = "sync"
    OBVIOUS
  <2>2. Begins(c, kind) /\ Edits(kind)
    BY <2>1 DEF Sync, Edits
  <2>3. /\ Sole(conn, c)
        /\ \A x : x.kind = kind /\ x.name = session.name => Joins(session, conn, c, x)
    BY <1>1, <1>4, <2>2, EditsAlone
  <2> QED
    BY <1>1, <1>7, <2>1, <2>3
<1>13. Intact(t, g, s.draft)
  BY <1>4, <1>9, <1>11, <1>12, PlannedIntact
<1>14. Chars(line) = s.draft
  BY <1>4, <1>10, <1>12, LineIsDraft
<1> QED
  BY <1>2, <1>3, <1>13, <1>14 DEF Whole

LEMMA EnterWhole ==
    ASSUME IInv, IInv', Whole, NEW c \in Conns, Enter(c), clean'
    PROVE  Whole'
<1>1. PICK s, f, n : s = session /\ f = conn /\ n = commands
  OBVIOUS
<1>2. PICK m, g, t : m = commands' /\ g = conn' /\ t = session'
  OBVIOUS
<1>3. /\ n \in Nat /\ m = n + 1 /\ f[c] = NoCommand /\ Revisions \subseteq 0..m
      /\ UNCHANGED <<line, entered>>
  BY <1>1, <1>2, BeginsOK DEF Enter
<1>4. /\ RecordsOK(s, f, n) /\ LocksOK(s, f) /\ LocksOK(t, g)
      /\ Intact(s, f, Chars(line)) /\ Apart(s, f)
  BY <1>1, <1>2 DEF IInv, Whole, Intact
<1>5. PICK revision \in Revisions :
        Follows(c, SettleThenCommit(session, c, Command("enter", <<>>, revision)))
  BY DEF Enter
<1>6. PICK o : o = Command("enter", <<>>, revision)
  OBVIOUS
<1>7. o \in CommandType(m) /\ o.kind = "enter" /\ Coherent(o) /\ o.name = s.name
  <2>1. /\ "enter" \in Kinds /\ <<>> \in Texts \cup {<<"k">>} /\ <<>> \in Texts
        /\ revision \in 0..m
    BY <1>3, NoneIsNone DEF Kinds
  <2>2. SessionOK(session, commands) /\ m \in Nat
    BY <1>1, <1>3, <1>4 DEF RecordsOK
  <2> QED
    BY <1>1, <1>6, <2>1, <2>2, CommandIs
<1>8. PICK p : p = SettleThenCommit(s, c, o)
  OBVIOUS
<1>9. Gets(f, t, g, c, p)
  BY <1>1, <1>2, <1>5, <1>6, <1>8 DEF Follows, Gets
<1>10. SessionOK(s, m) /\ ~In(c, s.writers) /\ f[c].at # "reply"
  BY <1>3, <1>4, SessionLater DEF RecordsOK, LocksOK, Writing, NoCommand
<1>11. Onward(s, c, o, p, m) /\ Aligned(p)
  <2>1. m \in Nat /\ o.kind \in {"enter", "submit"} /\ Committable(s, o)
    BY <1>3, <1>7 DEF Committable
  <2> QED
    BY <1>7, <1>8, <1>10, <2>1, SettleOnward
<1>12. Sole(f, c) /\ Joins(s, f, c, o)
  <2>1. PICK kind : kind = "enter"
    OBVIOUS
  <2>2. Begins(c, kind) /\ Edits(kind)
    BY <2>1 DEF Enter, Edits
  <2>3. /\ Sole(conn, c)
        /\ \A x : x.kind = kind /\ x.name = session.name => Joins(session, conn, c, x)
    BY <1>1, <1>4, <2>2, EditsAlone
  <2> QED
    BY <1>1, <1>7, <2>1, <2>3
<1>13. Intact(t, g, s.draft)
  BY <1>4, <1>9, <1>11, <1>12, PlannedIntact
<1>14. Chars(line) = s.draft
  BY <1>4, <1>10, <1>12, LineIsDraft
<1> QED
  BY <1>2, <1>3, <1>13, <1>14 DEF Whole

\* A command that goes on stays as apart from the others as it was.
LEMMA GoesOn ==
    ASSUME NEW s, NEW f, Apart(s, f), LocksOK(s, f), NEW c \in Conns,
           ~Quiet(f[c]) \/ (f[c].at = "submission" /\ Head(s.submitters) = c)
    PROVE  Sole(f, c) /\ Joins(s, f, c, f[c])
<1>1. Sole(f, c)
  BY OthersQuiet
<1>2. Commits(f[c].kind) => f[c].name \in {f[c].name, s.name}
  OBVIOUS
<1>3. Joins(s, f, c, f[c])
  BY DEF Apart, Joins
<1> QED
  BY <1>1, <1>3

LEMMA FenceAwaitedWhole ==
    ASSUME IInv, IInv', Whole, NEW c \in Conns, FenceAwaited(c)
    PROVE  Whole'
<1>1. PICK s, f, n : s = session /\ f = conn /\ n = commands
  OBVIOUS
<1>2. PICK g, t : g = conn' /\ t = session'
  OBVIOUS
<1>3. /\ n \in Nat /\ RecordsOK(s, f, n) /\ LocksOK(s, f) /\ LocksOK(t, g)
      /\ EntriesOK(s, f, entered, excused)
      /\ Intact(s, f, Chars(line)) /\ Apart(s, f) /\ Shows(s, f, Chars(line))
  BY <1>1, <1>2 DEF IInv, Whole, Intact
<1>4. PICK o, p : o = f[c] /\ p = PlanCommit(s, c, o)
  OBVIOUS
<1>5. o.at = "fence" /\ Gets(f, t, g, c, p) /\ UNCHANGED <<line, entered>>
  BY <1>1, <1>2, <1>4 DEF FenceAwaited, Follows, Gets, ghosts
<1>6. /\ o \in CommandType(n) /\ CommandOK(o) /\ Coherent(o) /\ ~In(c, s.writers)
      /\ o.kind \in {"enter", "submit"}
  <2>1. Knows(n, s, f, c)
    BY <1>3, CommandKnows
  <2> QED
    BY <1>4, <1>5, <2>1 DEF Knows, CommandOK, Writing
<1>7. Committable(s, o)
  BY <1>3, <1>4, <1>5 DEF Shows, InStep, Committable
<1>8. Onward(s, c, o, p, n) /\ Aligned(p)
  BY <1>3, <1>4, <1>6, <1>7, PlanCommitOnward DEF RecordsOK
<1>9. Sole(f, c) /\ Joins(s, f, c, o)
  BY <1>3, <1>4, <1>5, <1>6, GoesOn DEF Quiet
<1>10. Intact(t, g, s.draft)
  BY <1>3, <1>5, <1>8, <1>9, PlannedIntact
<1>11. Chars(line) = s.draft
  BY <1>3, <1>4, <1>5, <1>9, LineIsDraft
<1> QED
  BY <1>2, <1>3, <1>5, <1>10, <1>11 DEF Whole

\* A command ends, and the line shows the draft.
LEMMA EndsIntact ==
    ASSUME NEW n, NEW s, NEW f, NEW t, NEW g, NEW c \in Conns, NEW y, NEW chars,
           RecordsOK(s, f, n), LocksOK(t, g), Apart(s, f), Sole(f, c),
           n \in Nat, SessionOK(y, n), y.name = s.name, chars = y.draft,
           Gets(f, t, g, c, Done(y, c))
    PROVE  Intact(t, g, chars)
<1>1. /\ t.name = s.name /\ t.draft = chars
      /\ Done(y, c).command = NoCommand
  BY DoneOK DEF Gets, Tracks
<1>2. PICK o : o = NoCommand
  OBVIOUS
<1>3. o.at # "reply" /\ Joins(s, f, c, o) /\ InStep(t, o)
  BY <1>2, JoinsNone DEF NoCommand, InStep
<1>4. Becomes(f, g, c, o)
  BY <1>1, <1>2 DEF Becomes, Gets, RecordsOK
<1> QED
  BY <1>1, <1>3, <1>4, SoleIntact

LEMMA EnterSubmissionWhole ==
    ASSUME IInv, IInv', Whole, NEW c \in Conns, EnterSubmission(c)
    PROVE  Whole'
<1>1. PICK s, f, n : s = session /\ f = conn /\ n = commands
  OBVIOUS
<1>2. PICK g, t : g = conn' /\ t = session'
  OBVIOUS
<1>3. /\ n \in Nat /\ RecordsOK(s, f, n) /\ LocksOK(s, f) /\ LocksOK(t, g)
      /\ EntriesOK(s, f, entered, excused)
      /\ Intact(s, f, Chars(line)) /\ Apart(s, f)
  BY <1>1, <1>2 DEF IInv, Whole, Intact
<1>4. PICK o : o = f[c]
  OBVIOUS
<1>5. o.at = "submission" /\ Head(s.submitters) = c /\ UNCHANGED <<line, entered>>
  BY <1>1, <1>4 DEF EnterSubmission
<1>6. /\ o \in CommandType(n) /\ CommandOK(o) /\ Coherent(o) /\ ~In(c, s.writers)
      /\ o.kind = "submit"
  <2>1. Knows(n, s, f, c)
    BY <1>3, CommandKnows
  <2> QED
    BY <1>4, <1>5, <2>1 DEF Knows, CommandOK, Writing
<1>7. Sole(f, c) /\ Joins(s, f, c, o)
  BY <1>3, <1>4, <1>5, GoesOn
<1>8. Chars(line) = s.draft
  BY <1>3, <1>4, <1>5, <1>7, LineIsDraft
<1>9. ASSUME NEW direct \in BOOLEAN, Follows(c, PlanSync(session, c, o, direct))
      PROVE  Whole'
  <2>1. PICK p : p = PlanSync(s, c, o, direct)
    OBVIOUS
  <2>2. Gets(f, t, g, c, p)
    BY <1>1, <1>2, <1>9, <2>1 DEF Gets, Follows
  <2>3. Onward(s, c, o, p, n) /\ Aligned(p)
    BY <1>3, <1>6, <2>1, PlanSyncOnward DEF RecordsOK
  <2>4. Intact(t, g, s.draft)
    BY <1>3, <1>7, <2>2, <2>3, PlannedIntact
  <2> QED
    BY <1>2, <1>3, <1>5, <1>8, <2>4 DEF Whole
<1>10. CASE Follows(c, PlanSync(session, c, o, FALSE))
  BY <1>9, <1>10
<1>11. CASE Follows(c, Done([session EXCEPT !.submitters = Tail(@)], c))
  <2>1. PICK y : y = [s EXCEPT !.submitters = Tail(@)]
    OBVIOUS
  <2>2. Gets(f, t, g, c, Done(y, c))
    BY <1>1, <1>2, <1>11, <2>1 DEF Gets, Follows
  <2>3. s \in SessionType(n) /\ s.submitters # <<>> /\ s.submitters \in Seq(Conns)
    <3>1. In(c, s.submitters)
      BY <1>3, <1>4, <1>6 DEF LocksOK
    <3> QED
      BY <1>3, <3>1 DEF RecordsOK, SessionOK, SessionType, In
  <2>4. SessionOK(y, n) /\ y.name = s.name /\ y.draft = s.draft
    <3>1. Tail(s.submitters) \in Seq(Conns)
      BY <2>3
    <3>2. y \in SessionType(n)
      BY <2>1, <2>3, <3>1 DEF SessionType
    <3>3. /\ y.submitted = s.submitted /\ y.name = s.name /\ y.draft = s.draft
          /\ y.writers = s.writers /\ y.fence = s.fence /\ y.active = s.active
          /\ y.unavailable = s.unavailable
      BY <2>1, <2>3 DEF SessionType
    <3> QED
      BY <1>3, <3>2, <3>3 DEF RecordsOK, SessionOK
  <2>5. Intact(t, g, Chars(line))
    BY <1>3, <1>7, <1>8, <2>2, <2>4, EndsIntact
  <2> QED
    BY <1>2, <1>3, <1>5, <2>5 DEF Whole
<1> QED
  BY <1>1, <1>4, <1>10, <1>11 DEF EnterSubmission

LEMMA SyncRepliedWhole ==
    ASSUME IInv, IInv', Whole, NEW c \in Conns, Reply(c), conn[c].step = "sync"
    PROVE  Whole'
<1>1. PICK s, f, n : s = session /\ f = conn /\ n = commands
  OBVIOUS
<1>2. PICK g, t : g = conn' /\ t = session'
  OBVIOUS
<1>3. /\ n \in Nat /\ RecordsOK(s, f, n) /\ LocksOK(s, f) /\ LocksOK(t, g)
      /\ EntriesOK(s, f, entered, excused)
      /\ Intact(s, f, Chars(line)) /\ Apart(s, f)
  BY <1>1, <1>2 DEF IInv, Whole, Intact
<1>4. PICK o, x : o = f[c] /\ x = Released(s)
  OBVIOUS
<1>5. /\ o.at = "reply" /\ o.step = "sync" /\ Head(s.writers) = c
      /\ UNCHANGED <<line, entered>>
  BY <1>1, <1>4 DEF Reply, HoldsWriteLock
<1>6. SessionOK(x, n) /\ Releases(s, f, x, c) /\ Knows(n, s, f, c)
  BY <1>3, <1>4, <1>5, LockReleased DEF Writing
<1>7. /\ o \in CommandType(n) /\ CommandOK(o) /\ Coherent(o) /\ o.kind \in {"sync", "submit"}
  BY <1>4, <1>5, <1>6 DEF Knows, CommandOK, Suits
<1>8. PICK u : u = SyncReplied(x, c, o)
  OBVIOUS
<1>9. Tracks(x, u, n)
  BY <1>3, <1>6, <1>7, <1>8, SyncRepliedTracks
<1>10. PICK v, p : v = StoredDraft(u, o) /\ p = AfterSync(u, c, o)
  OBVIOUS
<1>11. Onward(v, c, o, p, n) /\ Aligned(p) /\ Tracks(u, v, n) /\ v.draft = o.text
  <2>1. SessionOK(u, n) /\ ~In(c, u.writers)
    BY <1>6, <1>9 DEF Tracks, Releases
  <2> QED
    BY <1>3, <1>7, <1>10, <2>1, AfterSyncOnward
<1>12. Gets(f, t, g, c, p)
  <2>1. Replied(s, c, o) = p
    BY <1>4, <1>5, <1>8, <1>10 DEF Replied
  <2> QED
    BY <1>1, <1>2, <1>4, <2>1 DEF Reply, Follows, Gets
<1>13. Sole(f, c) /\ Joins(s, f, c, o)
  BY <1>3, <1>4, <1>5, <1>7, GoesOn DEF Quiet
<1>14. v.name = s.name
  BY <1>6, <1>9, <1>11 DEF Tracks, Releases
<1>15. Intact(t, g, v.draft)
  BY <1>3, <1>11, <1>12, <1>13, <1>14, PlannedIntact
<1>16. Chars(line) = v.draft
  BY <1>3, <1>4, <1>5, <1>11, <1>13, LineShows DEF Showing
<1> QED
  BY <1>2, <1>3, <1>5, <1>15, <1>16 DEF Whole

\* tmux has replied to Enter, or to the keys that wipe the line.
LEMMA OtherRepliedWhole ==
    ASSUME IInv, IInv', Whole, NEW c \in Conns, Reply(c), conn[c].step # "sync"
    PROVE  Whole'
<1>1. PICK s, f, n : s = session /\ f = conn /\ n = commands
  OBVIOUS
<1>2. PICK g, t : g = conn' /\ t = session'
  OBVIOUS
<1>3. /\ n \in Nat /\ RecordsOK(s, f, n) /\ LocksOK(s, f) /\ LocksOK(t, g)
      /\ EntriesOK(s, f, entered, excused)
      /\ Intact(s, f, Chars(line)) /\ Apart(s, f)
  BY <1>1, <1>2 DEF IInv, Whole, Intact
<1>4. PICK o, x : o = f[c] /\ x = Released(s)
  OBVIOUS
<1>5. /\ o.at = "reply" /\ o.step # "sync" /\ Head(s.writers) = c
      /\ UNCHANGED <<line, entered>>
  BY <1>1, <1>4 DEF Reply, HoldsWriteLock
<1>6. SessionOK(x, n) /\ Releases(s, f, x, c) /\ Knows(n, s, f, c)
  BY <1>3, <1>4, <1>5, LockReleased DEF Writing
<1>7. /\ o \in CommandType(n) /\ CommandOK(o) /\ Coherent(o)
      /\ o.kind \in {"enter", "submit", "clear"} /\ o.name = s.name
      /\ o.step = (IF o.kind = "clear" THEN "clear" ELSE "commit")
  <2>1. o \in CommandType(n) /\ CommandOK(o) /\ Coherent(o)
    BY <1>4, <1>6 DEF Knows
  <2>2. o.kind # "input"
    BY <1>3, <1>4 DEF Apart
  <2>3. /\ o.kind \in {"enter", "submit", "clear"}
        /\ o.step = (IF o.kind = "clear" THEN "clear" ELSE "commit")
    BY <1>5, <2>1, <2>2 DEF CommandOK, Suits
  <2>4. o.name = s.name
    BY <1>3, <1>4, <2>3 DEF Apart, Commits
  <2> QED
    BY <2>1, <2>3, <2>4
<1>8. PICK y : SessionOK(y, n) /\ y.name = s.name /\ y.draft = <<>> /\ Replied(s, c, o) = Done(y, c)
  <2>1. CASE o.step = "commit"
    <3>1. PICK u : u = EnterReplied(x, c, o)
      OBVIOUS
    <3>2. PICK v : v = Committed(u, o)
      OBVIOUS
    <3>3. Tracks(x, u, n)
      BY <1>3, <1>6, <1>7, <3>1, EnterRepliedTracks
    <3>4. SessionOK(u, n) /\ u.name = o.name
      BY <1>6, <1>7, <3>3 DEF Tracks, Releases
    <3>5. Tracks(u, v, n) /\ v.draft = <<>>
      BY <1>3, <1>7, <3>2, <3>4, CommittedTracks
    <3>6. SessionOK(v, n) /\ v.name = s.name /\ v.submitters = s.submitters
      BY <1>6, <3>3, <3>5 DEF Tracks, Releases
    <3>7. CASE o.kind = "submit"
      <4>1. PICK w : w = Submitted(v, o)
        OBVIOUS
      <4>2. o.request \in Requests /\ v.submitters # <<>>
        BY <1>4, <1>6, <3>6, <3>7 DEF Knows, In
      <4>3. SessionOK(w, n) /\ w.name = v.name /\ w.draft = v.draft
        BY <1>3, <3>6, <4>1, <4>2, SubmittedOK
      <4>4. Replied(s, c, o) = Done(w, c)
        BY <1>4, <2>1, <3>1, <3>2, <3>7, <4>1 DEF Replied
      <4> QED
        BY <3>5, <3>6, <4>3, <4>4
    <3>8. CASE o.kind # "submit"
      <4>1. Replied(s, c, o) = Done(v, c)
        BY <1>4, <2>1, <3>1, <3>2, <3>8 DEF Replied
      <4> QED
        BY <3>5, <3>6, <4>1
    <3> QED
      BY <3>7, <3>8
  <2>2. CASE o.step = "clear"
    <3>1. PICK b, u : b = TRUE /\ u = ResetTracking(x, b)
      OBVIOUS
    <3>2. PICK v : v = Later(u, o.revision)
      OBVIOUS
    <3>3. Tracks(x, u, n) /\ u.draft = <<>>
      BY <1>3, <1>6, <3>1, ResetTracks
    <3>4. Tracks(u, v, n) /\ v.draft = u.draft
      <4>1. SessionOK(u, n) /\ o.revision \in 0..n
        BY <1>7, <3>3 DEF Tracks, CommandType
      <4> QED
        BY <1>3, <3>2, <4>1, LaterTracks
    <3>5. ByName(o.name, x, v) = v
      BY <1>6, <1>7 DEF ByName, Releases
    <3>6. Replied(s, c, o) = Done(v, c)
      BY <1>4, <2>2, <3>1, <3>2, <3>5 DEF Replied
    <3>7. SessionOK(v, n) /\ v.name = s.name
      BY <1>6, <3>3, <3>4 DEF Tracks, Releases
    <3> QED
      BY <3>3, <3>4, <3>6, <3>7
  <2> QED
    BY <1>7, <2>1, <2>2
<1>9. Gets(f, t, g, c, Done(y, c))
  BY <1>1, <1>2, <1>4, <1>8 DEF Reply, Follows, Gets
<1>10. Sole(f, c)
  BY <1>3, <1>4, <1>5, <1>7, GoesOn DEF Quiet
<1>11. Chars(line) = y.draft
  BY <1>3, <1>4, <1>5, <1>8, <1>10, LineShows DEF Showing
<1>12. Intact(t, g, Chars(line))
  BY <1>3, <1>8, <1>9, <1>10, <1>11, EndsIntact
<1> QED
  BY <1>2, <1>3, <1>5, <1>12 DEF Whole

-----------------------------------------------------------------------------
(* Steps of a command with the write lock, or on the way to it *)

\* A command moves on to another place with the same text.
Moves(o, p) ==
    /\ o.kind = p.kind /\ o.step = p.step /\ o.text = p.text /\ o.name = p.name
    /\ o.from = p.from
    /\ p.at \in {"seed", "write"} /\ o.at \in {"write", "send"}

LEMMA MovesIntact ==
    ASSUME NEW s, NEW f, NEW t, NEW g, NEW c \in Conns, NEW o, NEW chars,
           Intact(s, f, chars), SameText(s, t), LocksOK(s, f), LocksOK(t, g),
           Becomes(f, g, c, o), Moves(o, f[c])
    PROVE  Intact(t, g, chars)
<1>1. InStep(t, o) /\ Apart(s, f)
  BY DEF Intact, Shows, InStep, Moves, SameText
<1>2. Joins(s, f, c, o)
  BY <1>1, JoinsSame DEF Moves
<1>3. t.name = s.name
  BY DEF SameText
<1>4. CASE Quiet(f[c])
  <2>1. Quiet(o)
    BY <1>4 DEF Quiet, Moves
  <2>2. Apart(t, g) /\ t.draft = s.draft
    BY <1>1, <1>2, <1>3, StillApart DEF SameText
  <2> QED
    BY <1>4, <2>1, <2>2, QuietIntact
<1>5. CASE ~Quiet(f[c])
  <2>1. Sole(f, c) /\ f[c].at # "reply" /\ o.at # "reply"
    BY <1>1, <1>5, OthersQuiet DEF Moves
  <2>2. chars = t.draft
    BY <2>1, LineIsDraft DEF SameText
  <2> QED
    BY <1>1, <1>2, <1>3, <2>1, <2>2, SoleIntact
<1> QED
  BY <1>4, <1>5

LEMMA TakeSeedLockWhole ==
    ASSUME IInv, IInv', Whole, NEW c \in Conns, TakeSeedLock(c)
    PROVE  Whole'
<1>1. PICK s, f, n : s = session /\ f = conn /\ n = commands
  OBVIOUS
<1>2. PICK g, t : g = conn' /\ t = session'
  OBVIOUS
<1>3. /\ n \in Nat /\ RecordsOK(s, f, n) /\ LocksOK(s, f) /\ LocksOK(t, g)
      /\ Intact(s, f, Chars(line))
  BY <1>1, <1>2 DEF IInv, Whole, Intact
<1>4. PICK p, o : p = f[c] /\ o = [p EXCEPT !.at = "write"]
  OBVIOUS
<1>5. /\ p.at = "seed" /\ t = Queued(s, c) /\ g = [f EXCEPT ![c] = o]
      /\ UNCHANGED <<line, entered>>
  BY <1>1, <1>2, <1>4 DEF TakeSeedLock, Follows, Plan, ghosts
<1>6. p \in CommandType(n) /\ ~In(c, s.writers)
  BY <1>3, <1>4, <1>5 DEF RecordsOK, LocksOK, Writing
<1>7. Moves(o, p)
  BY <1>4, <1>5, <1>6 DEF Moves, CommandType
<1>8. SameText(s, t)
  BY <1>3, <1>5, <1>6, QueuedOK DEF SameText, RecordsOK
<1>9. Becomes(f, g, c, o)
  BY <1>3, <1>5 DEF Becomes, RecordsOK
<1>10. Intact(t, g, Chars(line))
  BY <1>3, <1>4, <1>7, <1>8, <1>9, MovesIntact
<1> QED
  BY <1>2, <1>5, <1>10 DEF Whole

LEMMA CaptureWhole ==
    ASSUME IInv, IInv', Whole, NEW c \in Conns, Capture(c)
    PROVE  Whole'
<1>1. PICK s, f, n : s = session /\ f = conn /\ n = commands
  OBVIOUS
<1>2. PICK g : g = conn'
  OBVIOUS
<1>3. /\ n \in Nat /\ RecordsOK(s, f, n) /\ LocksOK(s, f) /\ session' = s
      /\ LocksOK(s, g) /\ Intact(s, f, Chars(line)) /\ UNCHANGED <<line, entered>>
  <2>1. session' = session
    BY DEF Capture
  <2> QED
    BY <1>1, <1>2, <2>1 DEF IInv, Whole, Capture, ghosts
<1>4. PICK p : p = f[c]
  OBVIOUS
<1>5. p.at = "write" /\ p \in CommandType(n)
  BY <1>1, <1>3, <1>4 DEF Capture, HoldsWriteLock, RecordsOK
<1>6. PICK got \in BOOLEAN :
        g = [f EXCEPT
               ![c].at = "send",
               ![c].record = got /\ p.mode = "accept",
               ![c].start = IF got /\ p.mode = "start" THEN Len(line) ELSE NoStart]
  BY <1>1, <1>2, <1>4 DEF Capture
<1>7. PICK b, k : g = [f EXCEPT ![c].at = "send", ![c].record = b, ![c].start = k]
  BY <1>6
<1>8. PICK o : o = [p EXCEPT !.at = "send", !.record = b, !.start = k]
  OBVIOUS
<1>9. Moves(o, p)
  BY <1>5, <1>8 DEF Moves, CommandType
<1>10. Becomes(f, g, c, o)
  BY <1>3, <1>4, <1>5, <1>7, <1>8 DEF Becomes, RecordsOK, CommandType
<1>11. SameText(s, s)
  BY DEF SameText
<1>12. Intact(s, g, Chars(line))
  BY <1>3, <1>4, <1>9, <1>10, <1>11, MovesIntact
<1> QED
  BY <1>2, <1>3, <1>12 DEF Whole

\* What tmux does to a line that shows the draft.
LEMMA LineAfterShows ==
    ASSUME NEW cells \in Seq(Cell), NEW n, NEW s, NEW o \in CommandType(n), CommandOK(o),
           NEW c \in Conns, InStep(s, o), Chars(cells) = s.draft, cells = line,
           o.at \in {"write", "send"}, o.step \notin {"rename", "raw"}
    PROVE  Chars(LineAfter(o, c)) = Showing(o)
<1>1. o.step \in {"sync", "commit", "clear"}
  BY DEF CommandOK, Suits
<1>2. CASE o.step = "sync"
  <2>1. o.from = s.draft /\ o.kind # "input"
    BY <1>2 DEF InStep, CommandOK, Suits
  <2>2. o.from \in Seq(Character) /\ o.text \in Seq(Character) /\ c \in Conns \cup {Tmux}
    BY <2>1, NoneIsNone DEF CommandType, CommandOK, Coherent
  <2>3. Chars(Edited(cells, o.from, o.text, c)) = o.text
    BY <2>1, <2>2, EditedIs
  <2>4. LineAfter(o, c) = Edited(cells, o.from, o.text, c)
    BY <1>2 DEF LineAfter
  <2> QED
    BY <1>2, <2>3, <2>4 DEF Showing
<1>3. CASE o.step \in {"commit", "clear"}
  <2>1. LineAfter(o, c) = <<>>
    BY <1>3 DEF LineAfter
  <2>2. Chars(<<>>) = <<>>
    BY DEF Chars
  <2> QED
    BY <1>3, <2>1, <2>2 DEF Showing
<1> QED
  BY <1>1, <1>2, <1>3

LEMMA DeliverWhole ==
    ASSUME IInv, IInv', Whole, NEW c \in Conns, Deliver(c)
    PROVE  Whole'
<1>1. PICK s, f, n : s = session /\ f = conn /\ n = commands
  OBVIOUS
<1>2. PICK g : g = conn'
  OBVIOUS
<1>3. /\ n \in Nat /\ RecordsOK(s, f, n) /\ LocksOK(s, f)
      /\ Intact(s, f, Chars(line)) /\ Apart(s, f) /\ Shows(s, f, Chars(line))
      /\ line \in Seq(Cell) /\ entered \in [Requests -> Seq(Seq(Character))]
  BY <1>1 DEF IInv, Whole, Intact
<1>4. PICK p : p = f[c]
  OBVIOUS
<1>5. /\ p.at \in {"write", "send"} /\ p.step # "rename"
      /\ g = [f EXCEPT ![c].at = "reply"] /\ line' = LineAfter(p, c)
      /\ session' = s
      /\ entered' = IF p.step = "commit" /\ p.request # NoRequest
                    THEN [entered EXCEPT ![p.request] = Append(@, Chars(line))]
                    ELSE entered
  BY <1>1, <1>2, <1>4 DEF Deliver, HoldsWriteLock
<1>6. LocksOK(s, g)
  BY <1>2, <1>5 DEF IInv
<1>7. p \in CommandType(n) /\ CommandOK(p) /\ InStep(s, p) /\ p.kind # "input"
  BY <1>3, <1>4 DEF RecordsOK, LocksOK, Apart, Shows
<1>8. ~Quiet(p) /\ p.step \notin {"rename", "raw"}
  BY <1>5, <1>7 DEF CommandOK, Suits, Quiet
<1>9. Sole(f, c) /\ Joins(s, f, c, p)
  BY <1>3, <1>4, <1>8, GoesOn
<1>10. Chars(line) = s.draft
  BY <1>3, <1>4, <1>5, <1>9, LineIsDraft
<1>11. PICK o : o = [p EXCEPT !.at = "reply"]
  OBVIOUS
<1>12. /\ o.at = "reply" /\ o.kind = p.kind /\ o.text = p.text /\ o.name = p.name
       /\ o.step = p.step
  BY <1>7, <1>11 DEF CommandType
<1>13. Becomes(f, g, c, o)
  BY <1>3, <1>4, <1>5, <1>11 DEF Becomes, RecordsOK
<1>14. Joins(s, f, c, o) /\ InStep(s, o)
  BY <1>9, <1>12 DEF Joins, Together, InStep
<1>15. Chars(line') = Showing(o)
  <2>1. Chars(LineAfter(p, c)) = Showing(p)
    BY <1>3, <1>5, <1>7, <1>8, <1>10, LineAfterShows
  <2> QED
    BY <1>5, <1>12, <2>1 DEF Showing
<1>16. Intact(s, g, Chars(line'))
  <2>1. PICK chars : chars = Chars(line')
    OBVIOUS
  <2>2. chars = IF o.at = "reply" THEN Showing(o) ELSE s.draft
    BY <1>12, <1>15, <2>1
  <2>3. Intact(s, g, chars)
    BY <1>3, <1>6, <1>9, <1>13, <1>14, <2>2, SoleIntact
  <2> QED
    BY <2>1, <2>3
<1>17. Verbatim(entered')
  <2>1. Verbatim(entered)
    BY DEF Whole
  <2>2. CASE p.step = "commit" /\ p.request # NoRequest
    <3>1. PICK q \in Requests : q = p.request
      BY <1>7, <2>2 DEF CommandType
    <3>2. Chars(line) = TextOf[q] /\ Chars(line) \in Seq(Character)
      <4>1. p.kind = "submit" /\ p.text = TextOf[q]
        BY <1>7, <2>2, <3>1 DEF CommandOK, Coherent
      <4>2. s.draft = p.text
        BY <1>5, <1>7, <2>2, <4>1 DEF InStep
      <4> QED
        BY <1>3, <1>10, <4>1, <4>2, CharsOf
    <3>3. PICK text \in Seq(Character) : text = TextOf[q] /\ text = Chars(line)
      BY <3>2
    <3>4. entered' = [entered EXCEPT ![q] = Append(entered[q], text)]
      BY <1>5, <2>2, <3>1, <3>3
    <3>5. PICK old \in Seq(Seq(Character)) : old = entered[q]
      BY <1>3
    <3>6. /\ entered'[q] = Append(old, text)
          /\ \A r \in Requests \ {q} : entered'[r] = entered[r]
      BY <1>3, <3>4, <3>5
    <3>7. \A i \in DOMAIN Append(old, text) : Append(old, text)[i] = text
      <4>1. PICK k \in Nat : k = Len(old) /\ DOMAIN old = 1..k
        OBVIOUS
      <4>2. /\ DOMAIN Append(old, text) = 1..(k + 1)
            /\ Append(old, text)[k + 1] = text
            /\ \A i \in 1..k : Append(old, text)[i] = old[i]
        BY <4>1, Appended
      <4>3. \A i \in 1..k : old[i] = text
        BY <2>1, <3>1, <3>3, <3>5, <4>1 DEF Verbatim
      <4>4. \A i \in 1..(k + 1) : i = k + 1 \/ i \in 1..k
        OBVIOUS
      <4> QED
        BY <4>2, <4>3, <4>4
    <3> QED
      BY <2>1, <3>3, <3>6, <3>7 DEF Verbatim
  <2>3. CASE ~(p.step = "commit" /\ p.request # NoRequest)
    BY <1>5, <2>1, <2>3
  <2> QED
    BY <2>2, <2>3
<1> QED
  BY <1>2, <1>5, <1>16, <1>17 DEF Whole

-----------------------------------------------------------------------------
(* Steps that begin a command *)

LEMMA ForceClearWhole ==
    ASSUME IInv, IInv', Whole, NEW c \in Conns, ForceClear(c), clean'
    PROVE  Whole'
<1>1. PICK s, f, n, m : s = session /\ f = conn /\ n = commands /\ m = n + 1
  OBVIOUS
<1>2. PICK g, t : g = conn' /\ t = session'
  OBVIOUS
<1>3. /\ n \in Nat /\ m \in Nat /\ RecordsOK(s, f, n) /\ LocksOK(s, f) /\ LocksOK(t, g)
      /\ Intact(s, f, Chars(line)) /\ Apart(s, f) /\ f[c] = NoCommand
      /\ NewRevision \in 0..m /\ UNCHANGED <<line, entered>>
  <2>1. /\ n \in Nat /\ f[c] = NoCommand /\ NewRevision \in 0..m
        /\ UNCHANGED <<line, entered>>
    BY <1>1, BeginsOK DEF ForceClear
  <2> QED
    BY <1>1, <1>2, <2>1 DEF IInv, Whole, Intact
<1>4. PICK kind, r, p : kind = "clear" /\ r = NewRevision /\ p = Command(kind, <<>>, r)
  OBVIOUS
<1>5. PICK u : u = InvalidateActive(s)
  OBVIOUS
<1>6. PICK o : o = [p EXCEPT !.at = "write", !.step = "clear"]
  OBVIOUS
<1>7. t = Queued(u, c) /\ g = [f EXCEPT ![c] = o]
  BY <1>1, <1>2, <1>4, <1>5, <1>6 DEF ForceClear, Follows, Plan
<1>8. p \in CommandType(m) /\ p.kind = kind /\ p.name = s.name
  <2>1. kind \in Kinds /\ <<>> \in Texts \cup {<<"k">>} /\ r \in 0..m
    BY <1>3, <1>4, NoneIsNone DEF Kinds
  <2>2. SessionOK(session, n)
    BY <1>1, <1>3 DEF RecordsOK
  <2> QED
    BY <1>1, <1>3, <1>4, <2>1, <2>2, CommandIs
<1>9. o.at = "write" /\ o.step = "clear" /\ o.kind = kind /\ o.name = s.name
  BY <1>6, <1>8 DEF CommandType
<1>10. SameText(s, t)
  <2>1. SessionOK(s, n) /\ ~In(c, s.writers)
    BY <1>3 DEF RecordsOK, LocksOK, Writing, NoCommand
  <2>2. Tracks(s, u, n) /\ u.draft = s.draft
    BY <1>3, <1>5, <2>1, InvalidateTracks
  <2>3. SessionOK(u, n) /\ ~In(c, u.writers) /\ u.name = s.name
    BY <2>1, <2>2 DEF Tracks
  <2> QED
    BY <1>3, <1>7, <2>2, <2>3, QueuedOK DEF SameText
<1>11. Sole(f, c) /\ Joins(s, f, c, o)
  <2>1. Begins(c, kind) /\ Edits(kind)
    BY <1>4 DEF ForceClear, Edits
  <2>2. /\ Sole(conn, c)
        /\ \A x : x.kind = kind /\ x.name = session.name => Joins(session, conn, c, x)
    BY <1>1, <1>3, <2>1, EditsAlone
  <2> QED
    BY <1>1, <1>9, <2>2
<1>12. InStep(t, o) /\ o.at # "reply"
  BY <1>4, <1>9 DEF InStep
<1>13. Becomes(f, g, c, o)
  BY <1>3, <1>7 DEF Becomes, RecordsOK
<1>14. Chars(line) = t.draft
  <2>1. f[c].at # "reply"
    BY <1>3 DEF NoCommand
  <2> QED
    BY <1>3, <1>10, <1>11, <2>1, LineIsDraft DEF SameText
<1>15. Intact(t, g, Chars(line))
  BY <1>3, <1>10, <1>11, <1>12, <1>13, <1>14, SoleIntact DEF SameText
<1> QED
  BY <1>2, <1>3, <1>15 DEF Whole
LEMMA QuietBegins ==
    ASSUME NEW s, NEW f, NEW t, NEW g, NEW c \in Conns, NEW o, NEW chars,
           Intact(s, f, chars), SameText(s, t), Becomes(f, g, c, o), LocksOK(s, f),
           LocksOK(t, g), f[c] = NoCommand, Quiet(o), Joins(s, f, c, o)
    PROVE  Intact(t, g, chars)
<1>1. Quiet(f[c]) /\ t.draft = s.draft
  BY DEF Quiet, NoCommand, SameText
<1>2. Apart(t, g)
  BY StillApart DEF Intact, SameText
<1> QED
  BY <1>1, <1>2, QuietIntact

\* Submissions wait for one another; nobody else edits meanwhile.
LEMMA SubmitWhole ==
    ASSUME IInv, IInv', Whole, NEW c \in Conns, Submit(c), clean'
    PROVE  Whole'
<1>1. PICK s, f, n, m : s = session /\ f = conn /\ n = commands /\ m = n + 1
  OBVIOUS
<1>2. PICK g, t : g = conn' /\ t = session'
  OBVIOUS
<1>3. /\ n \in Nat /\ m \in Nat /\ RecordsOK(s, f, n) /\ LocksOK(s, f) /\ LocksOK(t, g)
      /\ Intact(s, f, Chars(line)) /\ Apart(s, f) /\ f[c] = NoCommand
      /\ NewRevision \in 0..m /\ UNCHANGED <<line, entered>>
  <2>1. /\ n \in Nat /\ f[c] = NoCommand /\ NewRevision \in 0..m
        /\ UNCHANGED <<line, entered>>
    BY <1>1, BeginsOK DEF Submit
  <2> QED
    BY <1>1, <1>2, <2>1 DEF IInv, Whole, Intact
<1>4. PICK request \in Requests \ acked :
        Follows(c, Plan([session EXCEPT !.submitters = Append(@, c)],
                        [Command("submit", TextOf[request], NewRevision)
                            EXCEPT !.at = "submission", !.request = request]))
  BY DEF Submit
<1>5. PICK kind, r, p : kind = "submit" /\ r = NewRevision /\ p = Command(kind, TextOf[request], r)
  OBVIOUS
<1>6. PICK o, w : /\ o = [p EXCEPT !.at = "submission", !.request = request]
                  /\ w = Append(s.submitters, c)
  OBVIOUS
<1>7. t = [s EXCEPT !.submitters = w] /\ g = [f EXCEPT ![c] = o]
  BY <1>1, <1>2, <1>4, <1>5, <1>6 DEF Follows, Plan
<1>8. p \in CommandType(m) /\ p.kind = kind /\ p.name = s.name
  <2>1. kind \in Kinds /\ TextOf[request] \in Texts \cup {<<"k">>} /\ r \in 0..m
    BY <1>3, <1>5, NoneIsNone DEF Kinds
  <2>2. SessionOK(session, n)
    BY <1>1, <1>3 DEF RecordsOK
  <2> QED
    BY <1>1, <1>3, <1>5, <2>1, <2>2, CommandIs
<1>9. o.at = "submission" /\ o.kind = "submit" /\ o.name = s.name
  BY <1>5, <1>6, <1>8 DEF CommandType
<1>10. SameText(s, t)
  BY <1>3, <1>7 DEF SameText, RecordsOK, SessionOK, SessionType
<1>11. Joins(s, f, c, o)
  <2>1. ASSUME NEW d \in Conns \ {c} PROVE f[d].kind \in {"none", "rename", "submit"}
    <3>1. f[d].kind \in Kinds /\ f[d].kind # "input" /\ CommandOK(f[d])
      BY <1>3 DEF Apart, RecordsOK, LocksOK, CommandType
    <3>2. f[d].at = "idle" \/ f[d].kind = "rename" \/ ~Edits(f[d].kind)
      BY <1>1 DEF Submit, Begins, Overlaps, InFlight
    <3>3. f[d].at = "idle" => f[d].kind = "none"
      BY <3>1 DEF CommandOK, NoCommand
    <3> QED
      BY <3>1, <3>2, <3>3 DEF Edits, Kinds
  <2> QED
    BY <1>9, <2>1 DEF Joins, Together
<1>12. Becomes(f, g, c, o) /\ Quiet(o)
  BY <1>3, <1>7, <1>9 DEF Becomes, RecordsOK, Quiet
<1>13. Intact(t, g, Chars(line))
  BY <1>3, <1>10, <1>11, <1>12, QuietBegins
<1> QED
  BY <1>2, <1>3, <1>13 DEF Whole

LEMMA RenameWhole ==
    ASSUME IInv, IInv', Whole, NEW c \in Conns, Rename(c)
    PROVE  Whole'
<1>1. PICK s, f, n, m : s = session /\ f = conn /\ n = commands /\ m = n + 1
  OBVIOUS
<1>2. PICK g, t : g = conn' /\ t = session'
  OBVIOUS
<1>3. /\ n \in Nat /\ m \in Nat /\ RecordsOK(s, f, n) /\ LocksOK(s, f) /\ LocksOK(t, g)
      /\ Intact(s, f, Chars(line)) /\ f[c] = NoCommand /\ UNCHANGED <<line, entered>>
  <2>1. n \in Nat /\ f[c] = NoCommand /\ UNCHANGED <<line, entered>>
    BY <1>1, BeginsOK DEF Rename
  <2> QED
    BY <1>1, <1>2, <2>1 DEF IInv, Whole, Intact
<1>4. PICK kind, r, p : kind = "rename" /\ r = 0 /\ p = Command(kind, <<>>, r)
  OBVIOUS
<1>5. PICK o : o = [p EXCEPT !.at = "write", !.step = "rename"]
  OBVIOUS
<1>6. t = Queued(s, c) /\ g = [f EXCEPT ![c] = o]
  BY <1>1, <1>2, <1>4, <1>5 DEF Rename, Follows, Plan
<1>7. p \in CommandType(m) /\ p.kind = kind
  <2>1. kind \in Kinds /\ <<>> \in Texts \cup {<<"k">>} /\ r \in 0..m
    BY <1>3, <1>4, NoneIsNone DEF Kinds
  <2>2. SessionOK(session, n)
    BY <1>1, <1>3 DEF RecordsOK
  <2> QED
    BY <1>1, <1>3, <1>4, <2>1, <2>2, CommandIs
<1>8. o.kind = "rename"
  BY <1>4, <1>5, <1>7 DEF CommandType
<1>9. SameText(s, t)
  <2>1. SessionOK(s, n) /\ ~In(c, s.writers)
    BY <1>3 DEF RecordsOK, LocksOK, Writing, NoCommand
  <2> QED
    BY <1>3, <1>6, <2>1, QueuedOK DEF SameText
<1>10. Joins(s, f, c, o) /\ Quiet(o)
  BY <1>8 DEF Joins, Together, Commits, Quiet
<1>11. Becomes(f, g, c, o)
  BY <1>3, <1>6 DEF Becomes, RecordsOK
<1>12. Intact(t, g, Chars(line))
  BY <1>3, <1>9, <1>10, <1>11, QuietBegins
<1> QED
  BY <1>2, <1>3, <1>12 DEF Whole

-----------------------------------------------------------------------------
(* The rename takes effect, and steps that leave the commands alone *)

\* No commit is under way, so none is left with the old name.
LEMMA RenameRepliedWhole ==
    ASSUME IInv, IInv', Whole, NEW c \in Conns, RenameReplied(c), ~crossed'
    PROVE  Whole'
<1>1. PICK s, f, n : s = session /\ f = conn /\ n = commands
  OBVIOUS
<1>2. PICK g, t : g = conn' /\ t = session'
  OBVIOUS
<1>3. /\ n \in Nat /\ RecordsOK(s, f, n) /\ LocksOK(s, f) /\ LocksOK(t, g)
      /\ EntriesOK(s, f, entered, excused)
      /\ Intact(s, f, Chars(line)) /\ Apart(s, f)
  BY <1>1, <1>2 DEF IInv, Whole, Intact
<1>4. PICK o, x : o = f[c] /\ x = Released(s)
  OBVIOUS
<1>5. /\ o.at = "write" /\ o.step = "rename" /\ Head(s.writers) = c
      /\ UNCHANGED <<line, entered>>
      /\ \A d \in Conns : ~Commits(f[d].kind)
  BY <1>1, <1>4 DEF RenameReplied, HoldsWriteLock, Commits
<1>6. SessionOK(x, n) /\ Releases(s, f, x, c) /\ Knows(n, s, f, c)
  BY <1>3, <1>4, <1>5, LockReleased DEF Writing
<1>7. Quiet(o) /\ x.draft = s.draft
  BY <1>3, <1>4, <1>5, <1>6, ReleasedOK DEF Knows, CommandOK, Suits, Quiet, RecordsOK, Writing
<1> DEFINE renamed(p) == IF p = None THEN None ELSE [p EXCEPT !.name = "new"]
<1>8. PICK a, b : a = renamed(x.active) /\ b = renamed(x.unavailable)
  OBVIOUS
<1>9. PICK v : v = [x EXCEPT !.name = "new", !.active = a, !.unavailable = b]
  OBVIOUS
<1>10. PICK y : y = ByName(o.name, x, v)
  OBVIOUS
<1>11. x \in SessionType(n)
  BY <1>6 DEF SessionOK
<1>12. v = [x EXCEPT !.name = "new", !.active = renamed(@), !.unavailable = renamed(@)]
  BY <1>8, <1>9, <1>11 DEF SessionType
<1>13. t = Done(y, c).session /\ g = [f EXCEPT ![c] = NoCommand]
  BY <1>1, <1>2, <1>4, <1>10, <1>12 DEF RenameReplied, Follows, Done, Plan
<1> HIDE DEF renamed
<1>14. y \in {x, v} /\ v.draft = x.draft /\ v \in SessionType(n) \cup {v}
  BY <1>9, <1>10, <1>11 DEF ByName, SessionType
<1>15. t.draft = s.draft
  <2>1. PICK k : k = y.current \ {c}
    OBVIOUS
  <2>2. t = [y EXCEPT !.current = k]
    BY <1>13, <2>1 DEF Done, Plan
  <2>3. t.draft = y.draft
    BY <2>2
  <2> QED
    BY <1>7, <1>14, <2>3
<1>16. PICK q : q = NoCommand
  OBVIOUS
<1>17. Becomes(f, g, c, q) /\ Quiet(q)
  BY <1>3, <1>13, <1>16 DEF Becomes, RecordsOK, Quiet, NoCommand
<1>18. Apart(t, g)
  <2>1. \A d \in Conns : g[d] = f[d] \/ g[d] = NoCommand
    BY <1>16, <1>17 DEF Becomes
  <2>2. \A d \in Conns : g[d].kind # "input" /\ ~Commits(g[d].kind)
    BY <1>3, <1>5, <2>1 DEF Apart, NoCommand, Commits
  <2>3. ASSUME NEW d \in Conns, NEW e \in Conns, d # e PROVE Together(g[d], g[e])
    BY <1>3, <2>1, <2>3 DEF Apart, Together, NoCommand
  <2> QED
    BY <2>2, <2>3 DEF Apart
<1>19. Intact(t, g, Chars(line))
  BY <1>3, <1>4, <1>7, <1>15, <1>17, <1>18, QuietIntact
<1> QED
  BY <1>2, <1>3, <1>5, <1>19 DEF Whole

LEMMA KeptWhole ==
    ASSUME Whole, SameText(session, session'), UNCHANGED <<conn, line, entered>>
    PROVE  Whole'
<1>1. PICK s, f, t : s = session /\ f = conn /\ t = session'
  OBVIOUS
<1>2. Intact(t, f, Chars(line))
  BY <1>1, KeptIntact DEF Whole
<1> QED
  BY <1>1, <1>2 DEF Whole

\* Tracking and the fence touch neither the name nor the draft.
LEMMA TrackingWhole ==
    ASSUME IInv, Whole, UNCHANGED <<conn, line, entered>>,
           \/ session' = InvalidateActive(session)
           \/ session' = CancelFence(session)
           \/ session' = session
           \/ session' = [Queued(session, Fence) EXCEPT !.fence = "queued"]
    PROVE  Whole'
<1>1. PICK s, n, t : s = session /\ n = commands /\ t = session'
  OBVIOUS
<1>2. SessionOK(s, n) /\ n \in Nat /\ s \in SessionType(n)
  BY <1>1 DEF IInv, RecordsOK, SessionOK
<1>3. t = InvalidateActive(s) => SameText(s, t)
  BY <1>2, InvalidateTracks DEF SameText, Tracks
<1>4. t = CancelFence(s) => SameText(s, t)
  BY <1>2, CancelTracks DEF SameText, Tracks
<1>5. t = [Queued(s, Fence) EXCEPT !.fence = "queued"] => SameText(s, t)
  BY <1>2 DEF SameText, Queued, SessionType
<1>6. SameText(s, s)
  BY DEF SameText
<1> QED
  BY <1>1, <1>3, <1>4, <1>5, <1>6, KeptWhole

LEMMA SettleFenceWhole ==
    ASSUME IInv, Whole, SettleFence
    PROVE  Whole'
<1>1. PICK s, n, t : s = session /\ n = commands /\ t = session'
  OBVIOUS
<1>2. SessionOK(s, n) /\ n \in Nat
  BY <1>1 DEF IInv, RecordsOK
<1>3. PICK z : z = CancelFence(s)
  OBVIOUS
<1>4. Tracks(s, z, n) /\ z.draft = s.draft
  BY <1>2, <1>3, CancelTracks
<1>5. z \in SessionType(n) /\ z.name = s.name
  BY <1>4 DEF Tracks, SessionOK
<1>6. PICK x : x = SubSeq(line, s.active.start + 1, Len(line))
  OBVIOUS
<1>7. t = [z EXCEPT !.active.settled = TRUE, !.active.cells = x]
  BY <1>1, <1>3, <1>6 DEF SettleFence
<1>8. t.name = z.name /\ t.draft = z.draft
  BY <1>5, <1>7 DEF SessionType
<1>9. SameText(session, session')
  BY <1>1, <1>4, <1>5, <1>8 DEF SameText
<1> QED
  BY <1>9, KeptWhole DEF SettleFence, ghosts

-----------------------------------------------------------------------------
(* The invariant *)

LEMMA InitVInv == Init => VInv
<1> SUFFICES ASSUME Init PROVE Whole
  BY InitIInv DEF VInv
<1>1. PICK s, f : s = session /\ f = conn
  OBVIOUS
<1>2. s.draft = <<>> /\ f = [c \in Conns |-> NoCommand] /\ Chars(line) = <<>>
  BY <1>1 DEF Init, Chars
<1>3. \A c \in Conns : f[c].at = "idle" /\ f[c].kind = "none"
  BY <1>2 DEF NoCommand
<1>4. Apart(s, f)
  BY <1>3 DEF Apart, Together, Commits
<1>5. Shows(s, f, Chars(line))
  BY <1>2, <1>3 DEF Shows, InStep
<1>6. Verbatim(entered)
  BY DEF Verbatim, Init
<1> QED
  BY <1>1, <1>4, <1>5, <1>6 DEF Whole, Intact

LEMMA StepWhole ==
    ASSUME IInv, IInv', Whole, [Next]_vars, clean', ~crossed'
    PROVE  Whole'
<1>1. ASSUME NEW c \in Conns, Sync(c) \/ Enter(c) \/ Submit(c) \/ ForceClear(c) \/ Rename(c)
      PROVE  Whole'
  BY <1>1, SyncWhole, EnterWhole, SubmitWhole, ForceClearWhole, RenameWhole
<1>2. ASSUME NEW c \in Conns, Input(c) \/ ResetDraft(c) \/ FailWrite(c) PROVE Whole'
  \* No longer only composer commands: clean turns FALSE.
  BY <1>2 DEF Input, Begins, ResetDraft, FailWrite
<1>3. ASSUME NEW c \in Conns, Progress(c) PROVE Whole'
  BY <1>3, EnterSubmissionWhole, FenceAwaitedWhole, TakeSeedLockWhole, CaptureWhole,
     DeliverWhole, SyncRepliedWhole, OtherRepliedWhole, RenameRepliedWhole DEF Progress
<1>4. ASSUME NEW c \in Conns, Drop(c) \/ Close(c) PROVE Whole'
  BY <1>4, TrackingWhole DEF Drop, Close, ghosts
<1>5. CASE QueueFence \/ GiveUpFence \/ ChangeLayout
  BY <1>5, TrackingWhole DEF QueueFence, GiveUpFence, ChangeLayout, ghosts
<1>6. CASE SettleFence
  BY <1>6, SettleFenceWhole
<1>7. CASE TypeInTmux
  BY <1>7 DEF TypeInTmux
<1>8. CASE UNCHANGED vars
  BY <1>8, TrackingWhole DEF vars, ghosts
<1> QED
  BY <1>1, <1>2, <1>3, <1>4, <1>5, <1>6, <1>7, <1>8 DEF Next, FenceStep

\* Once something else has reached the pane, it has for good.
LEMMA AloneBefore ==
    ASSUME [Next]_vars, clean', ~crossed'
    PROVE  clean /\ ~crossed
<1>1. ASSUME NEW c \in Conns, NEW kind, Begins(c, kind) PROVE clean /\ ~crossed
  <2>1. clean' = (clean /\ kind # "input" /\ ~Overlaps(c, kind)) /\ crossed' = crossed
    BY <1>1 DEF Begins
  <2> QED
    BY <2>1
<1>2. ASSUME UNCHANGED ghosts PROVE clean /\ ~crossed
  BY <1>2 DEF ghosts
<1>3. ASSUME UNCHANGED <<clean, crossed>> PROVE clean /\ ~crossed
  BY <1>3
<1>4. ASSUME NEW c \in Conns,
             Sync(c) \/ Enter(c) \/ Submit(c) \/ Input(c) \/ ForceClear(c) \/ Rename(c)
      PROVE  \E k : Begins(c, k)
  <2>1. CASE Sync(c)
    BY <2>1 DEF Sync
  <2>2. CASE Enter(c)
    BY <2>2 DEF Enter
  <2>3. CASE Submit(c)
    BY <2>3 DEF Submit
  <2>4. CASE Input(c)
    BY <2>4 DEF Input
  <2>5. CASE ForceClear(c)
    BY <2>5 DEF ForceClear
  <2>6. CASE Rename(c)
    BY <2>6 DEF Rename
  <2> QED
    BY <1>4, <2>1, <2>2, <2>3, <2>4, <2>5, <2>6
<1>5. ASSUME NEW c \in Conns, ResetDraft(c) \/ FailWrite(c) PROVE FALSE
  <2>1. CASE ResetDraft(c)
    BY <2>1 DEF ResetDraft
  <2>2. CASE FailWrite(c)
    BY <2>2 DEF FailWrite
  <2> QED
    BY <1>5, <2>1, <2>2
<1>6. ASSUME NEW c \in Conns, Drop(c) \/ Close(c) PROVE UNCHANGED ghosts
  BY <1>6 DEF Drop, Close
<1>7. ASSUME NEW c \in Conns, Progress(c) PROVE clean /\ ~crossed
  <2>1. CASE EnterSubmission(c)
    BY <1>3, <2>1 DEF EnterSubmission
  <2>2. CASE FenceAwaited(c) \/ TakeSeedLock(c) \/ Capture(c)
    BY <1>2, <2>2 DEF FenceAwaited, TakeSeedLock, Capture
  <2>3. CASE Deliver(c)
    BY <1>3, <2>3 DEF Deliver
  <2>4. CASE Reply(c)
    BY <1>3, <2>4 DEF Reply
  <2>5. CASE RenameReplied(c)
    <3>1. /\ clean' = clean
          /\ crossed' = (crossed \/ \E d \in Conns :
                                       conn[d].kind \in {"submit", "enter", "clear"})
      BY <2>5 DEF RenameReplied
    <3> QED
      BY <3>1
  <2> QED
    BY <1>7, <2>1, <2>2, <2>3, <2>4, <2>5 DEF Progress
<1>8. CASE FenceStep
  BY <1>2, <1>8 DEF FenceStep, QueueFence, SettleFence, GiveUpFence
<1>9. CASE TypeInTmux
  BY <1>9 DEF TypeInTmux
<1>10. CASE ChangeLayout \/ UNCHANGED vars
  BY <1>2, <1>10 DEF ChangeLayout, vars
<1> QED
  BY <1>1, <1>2, <1>4, <1>5, <1>6, <1>7, <1>8, <1>9, <1>10 DEF Next

\* The line entered for a staged submission is its text, in every session that
\* only composer commands reach, one at a time and no rename into a commit
\* (commit_mobile_composer, sync_mobile_composer).
THEOREM SubmissionVerbatim == Spec => []SubmittedVerbatim
<1>1. Init => VInv
  BY InitVInv
<1>2. VInv /\ [Next]_vars => VInv'
  BY StepIInv, StepWhole, AloneBefore DEF VInv, Alone
<1>3. VInv => SubmittedVerbatim
  BY DEF VInv, Alone, Whole, Verbatim, SubmittedVerbatim
<1> QED
  BY <1>1, <1>2, <1>3, PTL DEF Spec

-----------------------------------------------------------------------------
(* What is kept for an accepted command is what its owner typed.           *)
(*                                                                         *)
(* While a command is active, the cells of the line behind its start are   *)
(* its owner's or came from another tmux client, and show its draft as     *)
(* long as nobody types there and no rename falls into a commit.  Whoever  *)
(* else changes the line has made the command inactive before, or is       *)
(* behind it in the queue of the write lock and finds its mark outdated.   *)

\* Behind the first k cells stands only what the owner typed, or somebody in tmux.
TypedBy(cells, k, owner) ==
    \A i \in 1..Len(cells) : i > k => cells[i].by \in {owner, Tmux}
\* A draft stands behind start; nobody else has typed there.
Stood(cells, owner, start, draft, exact) ==
    /\ \/ TypedBy(cells, 0, owner)
       \/ start + Len(draft) <= Len(cells) /\ TypedBy(cells, start, owner)
    /\ exact => Stands(cells, start, draft)
\* What was captured for a command is what its owner typed.
CellsTyped(a, exact) ==
    /\ TypedBy(a.cells, 0, a.owner)
    /\ exact => Chars(a.cells) = a.draft

\* The owner edits the draft where it stands.
LEMMA EditedStood ==
    ASSUME NEW cells \in Seq(Cell), NEW from \in Seq(Character), NEW to \in Seq(Character),
           NEW c \in Conns, NEW start \in Nat, NEW exact \in BOOLEAN,
           Stood(cells, c, start, from, exact)
    PROVE  Stood(Edited(cells, from, to, c), c, start, to, exact)
<1>1. PICK r : r = Edited(cells, from, to, c)
  OBVIOUS
<1>2. PICK p \in Nat, q \in Nat, k \in 0..Len(cells), at \in 0..Len(cells) :
         Spliced(cells, from, to, c, p, q, k, at, r)
  BY <1>1, EditedParts
<1>3. PICK l \in Nat, m \in Nat, n \in Nat : l = Len(cells) /\ m = Len(from) /\ n = Len(to)
  OBVIOUS
<1>4. PICK w \in Int, z \in Int : w = n - q - p /\ z = l - at
  <2>1. n - q - p \in Int /\ l - at \in Int
    OBVIOUS
  <2> QED
    BY <2>1
<1>5. /\ p + q <= m /\ w \in Nat /\ z \in Nat /\ k <= at
      /\ Len(r) = k + w + z
      /\ m - p <= l => at = l - q /\ k = l - (m - p)
  <2>1. p + q <= n
    BY <1>2, <1>3 DEF Spliced
  <2> QED
    BY <1>2, <1>3, <1>4, <2>1 DEF Spliced
<1>6. /\ \A i \in 1..k : r[i] = cells[i]
      /\ \A i \in 1..w : r[k + i].by = c
      /\ \A i \in 1..z : r[k + w + i] = cells[at + i]
  BY <1>2, <1>3, <1>4 DEF Spliced
\* A cell of the new line was there, not further ahead than the edit, or is typed by c.
<1>7. ASSUME NEW i \in 1..Len(r)
      PROVE  \/ r[i].by = c
             \/ i <= k /\ i \in 1..l /\ r[i] = cells[i]
             \/ \E j \in 1..l : j > k /\ r[i] = cells[j]
  <2>1. CASE i <= k
    <3>1. i \in 1..k /\ i \in 1..l
      BY <1>3, <1>5, <2>1
    <3> QED
      BY <1>6, <2>1, <3>1
  <2>2. CASE i > k /\ i <= k + w
    <3>1. PICK j \in 1..w : j = i - k
      BY <1>5, <2>2
    <3>2. k + j = i
      BY <3>1
    <3>3. r[k + j].by = c
      BY <1>6
    <3> QED
      BY <3>2, <3>3
  <2>3. CASE i > k + w
    <3>1. PICK j \in 1..z : j = i - (k + w)
      BY <1>5, <2>3
    <3>2. k + w + j = i /\ at + j \in 1..l /\ at + j > k
      BY <1>3, <1>4, <1>5, <3>1
    <3>3. r[k + w + j] = cells[at + j]
      BY <1>6
    <3> QED
      BY <3>2, <3>3
  <2> QED
    BY <1>5, <2>1, <2>2, <2>3
<1>8. ASSUME NEW b \in Nat, TypedBy(cells, b, c), b = 0 \/ b <= k
      PROVE  TypedBy(r, b, c)
  <2> SUFFICES ASSUME NEW i \in 1..Len(r), i > b PROVE r[i].by \in {c, Tmux}
    BY DEF TypedBy
  <2>1. \A j \in 1..l : j > b => cells[j].by \in {c, Tmux}
    BY <1>3, <1>8 DEF TypedBy
  <2>2. \A j \in 1..l : j > k => j > b
    BY <1>8
  <2> QED
    BY <1>7, <2>1, <2>2
<1>9. ASSUME start + m <= l PROVE start <= k /\ start + n <= Len(r)
  <2>1. at = l - q /\ k = l - (m - p)
    BY <1>5, <1>9
  <2>2. Len(r) = (l - (m - p)) + (n - q - p) + q
    BY <1>4, <1>5, <2>1
  <2> QED
    BY <1>5, <1>9, <2>1, <2>2
<1>10. \/ TypedBy(r, 0, c)
       \/ start + Len(to) <= Len(r) /\ TypedBy(r, start, c)
  <2>1. CASE TypedBy(cells, 0, c)
    <3>1. PICK b \in Nat : b = 0
      OBVIOUS
    <3> QED
      BY <1>8, <2>1, <3>1
  <2>2. CASE start + Len(from) <= Len(cells) /\ TypedBy(cells, start, c)
    BY <1>3, <1>8, <1>9, <2>2
  <2> QED
    BY <2>1, <2>2 DEF Stood
<1>11. exact => Stands(r, start, to)
  BY <1>1, EditedStands DEF Stood
<1> QED
  BY <1>1, <1>10, <1>11 DEF Stood

\* Cells typed at the end of the line.
LEMMA TypedOnEnd ==
    ASSUME NEW cells \in Seq(Cell), NEW text \in Seq(Character), NEW by \in Conns \cup {Tmux}
    PROVE  /\ cells \o Typed(text, by) \in Seq(Cell)
           /\ Len(cells \o Typed(text, by)) = Len(cells) + Len(text)
           /\ \A k \in Nat : \A owner : TypedBy(cells, k, owner) /\ by \in {owner, Tmux}
                                      => TypedBy(cells \o Typed(text, by), k, owner)
           /\ \A i \in 1..Len(text) : (cells \o Typed(text, by))[Len(cells) + i].ch = text[i]
<1>1. PICK l \in Nat, n \in Nat : l = Len(cells) /\ n = Len(text)
  OBVIOUS
<1>2. PICK z : z = Typed(text, by)
  OBVIOUS
<1>3. z \in Seq(Cell) /\ Len(z) = n /\ \A i \in 1..n : z[i].by = by /\ z[i].ch = text[i]
  <2>1. z \in Seq(Cell) /\ Len(z) = n
    BY <1>1, <1>2, TypedCells
  <2>2. \A i \in 1..n : z[i] = [ch |-> text[i], by |-> by]
    BY <1>1, <1>2 DEF Typed
  <2> QED
    BY <2>1, <2>2
<1>4. PICK r : r = cells \o z
  OBVIOUS
<1>5. /\ r \in Seq(Cell) /\ Len(r) = l + n
      /\ \A i \in 1..l : r[i] = cells[i]
      /\ \A i \in 1..n : r[l + i] = z[i]
  <2>1. /\ cells \o z \in Seq(Cell) /\ Len(cells \o z) = Len(cells) + Len(z)
        /\ \A i \in 1..Len(cells) : (cells \o z)[i] = cells[i]
        /\ \A i \in 1..Len(z) : (cells \o z)[Len(cells) + i] = z[i]
    BY <1>3, Joined
  <2> QED
    BY <1>1, <1>3, <1>4, <2>1
<1>6. ASSUME NEW k \in Nat, NEW owner, TypedBy(cells, k, owner), by \in {owner, Tmux}
      PROVE  TypedBy(r, k, owner)
  <2> SUFFICES ASSUME NEW i \in 1..(l + n), i > k PROVE r[i].by \in {owner, Tmux}
    BY <1>5 DEF TypedBy
  <2>1. CASE i <= l
    <3>1. i \in 1..l
      BY <2>1
    <3> QED
      BY <1>1, <1>5, <1>6, <3>1 DEF TypedBy
  <2>2. CASE i > l
    <3>1. PICK j \in 1..n : j = i - l
      BY <2>2
    <3>2. l + j = i
      BY <3>1
    <3>3. r[l + j].by = by
      BY <1>3, <1>5
    <3> QED
      BY <1>6, <3>2, <3>3
  <2> QED
    BY <2>1, <2>2
<1>7. \A i \in 1..n : r[l + i].ch = text[i]
  BY <1>3, <1>5
<1> QED
  BY <1>1, <1>2, <1>4, <1>5, <1>6, <1>7

-----------------------------------------------------------------------------
(* The order in which connections write *)

\* b is not ahead of a.
Before(q, a, b) == \A i, j \in 1..Len(q) : q[i] = a /\ q[j] = b => i < j
\* The connections but x stay in their order; the holder of the lock keeps it.
Ordered(q, r, x) == \A a, b \in Conns \ {x} : Before(q, a, b) => Before(r, a, b)
Held(q, r) == \A a \in Conns : In(a, q) /\ Head(q) = a => In(a, r) /\ Head(r) = a

LEMMA QueuedBehind ==
    ASSUME NEW S, NEW q \in Seq(S), NEW x \in S, ~In(x, q)
    PROVE  /\ \A a, b : a # x /\ b # x /\ Before(q, a, b) => Before(Append(q, x), a, b)
           /\ \A a : a # x => Before(Append(q, x), a, x)
           /\ Held(q, Append(q, x))
<1>1. PICK n, r : n = Len(q) /\ r = Append(q, x)
  OBVIOUS
<1>2. n \in Nat /\ Len(r) = n + 1 /\ r[n + 1] = x /\ (\A i \in 1..n : r[i] = q[i]) /\ DOMAIN q = 1..n
  BY <1>1
<1>3. \A i \in 1..(n + 1) : i = n + 1 \/ i \in 1..n
  BY <1>2
<1>4. \A a, b : a # x /\ b # x /\ Before(q, a, b) => Before(r, a, b)
  <2> SUFFICES ASSUME NEW a, NEW b, a # x, b # x, Before(q, a, b),
                      NEW i \in 1..(n + 1), NEW j \in 1..(n + 1), r[i] = a, r[j] = b
               PROVE  i < j
    BY <1>2 DEF Before
  <2>1. i \in 1..n /\ j \in 1..n
    BY <1>2, <1>3
  <2> QED
    BY <1>1, <1>2, <2>1 DEF Before
<1>5. \A a : a # x => Before(r, a, x)
  <2> SUFFICES ASSUME NEW a, a # x, NEW i \in 1..(n + 1), NEW j \in 1..(n + 1),
                      r[i] = a, r[j] = x
               PROVE  i < j
    BY <1>2 DEF Before
  <2>1. i \in 1..n /\ j = n + 1
    BY <1>2, <1>3 DEF In
  <2> QED
    BY <1>2, <2>1
<1>6. Held(q, r)
  <2> SUFFICES ASSUME NEW a, In(a, q), Head(q) = a PROVE In(a, r) /\ Head(r) = a
    BY DEF Held
  <2>1. PICK i \in 1..n : q[i] = a
    BY <1>2 DEF In
  <2>2. i \in DOMAIN r /\ r[i] = a
    BY <1>1, <1>2, <2>1
  <2>3. q # <<>>
    BY <1>2, <2>1
  <2> QED
    BY <1>1, <2>2, <2>3 DEF In
<1> QED
  BY <1>1, <1>4, <1>5, <1>6

LEMMA ReleasedOrder ==
    ASSUME NEW S, NEW q \in Seq(S), q # <<>>
    PROVE  \A a, b : Before(q, a, b) => Before(Tail(q), a, b)
<1>1. PICK n, r : n = Len(q) /\ r = Tail(q)
  OBVIOUS
<1>2. n \in Nat /\ n >= 1 /\ Len(r) = n - 1 /\ \A i \in 1..(n - 1) : r[i] = q[i + 1]
  BY <1>1
<1> SUFFICES ASSUME NEW a, NEW b, Before(q, a, b), NEW i \in 1..(n - 1), NEW j \in 1..(n - 1),
                    r[i] = a, r[j] = b
             PROVE  i < j
  BY <1>1, <1>2 DEF Before
<1>3. i + 1 \in 1..Len(q) /\ j + 1 \in 1..Len(q) /\ q[i + 1] = a /\ q[j + 1] = b
  BY <1>1, <1>2
<1>4. i + 1 < j + 1
  BY <1>3 DEF Before
<1> QED
  BY <1>2, <1>4

LEMMA WithoutOrder ==
    ASSUME NEW S, NEW q \in Seq(S), NEW x
    PROVE  /\ \A a, b : Before(q, a, b) => Before(Without(q, x), a, b)
           /\ \A a : a # x /\ In(a, q) /\ Head(q) = a => Head(Without(q, x)) = a
<1>1. CASE ~In(x, q)
  <2>1. {i \in DOMAIN q : q[i] = x} = {}
    BY <1>1 DEF In
  <2> QED
    BY <2>1 DEF Without
<1>2. CASE In(x, q)
  <2>1. PICK n \in Nat : n = Len(q)
    OBVIOUS
  <2>2. PICK r : r = Without(q, x)
    OBVIOUS
  <2>3. PICK m \in 1..n :
          /\ q[m] = x /\ r \in Seq(S) /\ Len(r) = n - 1
          /\ \A i \in 1..(n - 1) : r[i] = IF i < m THEN q[i] ELSE q[i + 1]
    <3>1. PICK m \in 1..Len(q) :
             /\ q[m] = x
             /\ Without(q, x) \in Seq(S) /\ Len(Without(q, x)) = Len(q) - 1
             /\ \A i \in 1..(Len(q) - 1) :
                   Without(q, x)[i] = IF i < m THEN q[i] ELSE q[i + 1]
      BY <1>2, WithoutIs
    <3> QED
      BY <2>1, <2>2, <3>1
  <2>4. ASSUME NEW a, NEW b, Before(q, a, b) PROVE Before(r, a, b)
    <3> DEFINE old(l) == IF l < m THEN l ELSE l + 1
    <3> SUFFICES ASSUME NEW i \in 1..(n - 1), NEW j \in 1..(n - 1), r[i] = a, r[j] = b
                 PROVE  i < j
      BY <2>3 DEF Before
    <3>1. old(i) \in 1..n /\ old(j) \in 1..n /\ q[old(i)] = a /\ q[old(j)] = b
      BY <2>3
    <3>2. old(i) < old(j)
      BY <2>1, <2>4, <3>1 DEF Before
    <3> QED
      BY <3>2
  <2>5. ASSUME NEW a, a # x, In(a, q), Head(q) = a PROVE Head(r) = a
    <3>1. q # <<>> /\ q[1] = a
      BY <2>5 DEF In
    <3>2. m > 1 /\ n > 1
      BY <2>1, <2>3, <2>5, <3>1
    <3>3. r[1] = q[1] /\ r # <<>>
      BY <2>3, <3>2
    <3> QED
      BY <3>1, <3>3
  <2> QED
    BY <2>2, <2>4, <2>5
<1> QED
  BY <1>1, <1>2

-----------------------------------------------------------------------------
(* What tracking leaves of the active command *)

\* The active command stays or is given up, what was accepted stays, nobody but
\* x reads the tracking generation, and nobody but x moves in the queue.
Fades(s, t, x) ==
    /\ t.name = s.name /\ t.accepted = s.accepted
    /\ t.active \in {s.active, None}
    /\ t.current \subseteq s.current \cup {x}
    /\ Ordered(s.writers, t.writers, x) /\ Held(s.writers, t.writers)

LEMMA FadesOn ==
    ASSUME NEW s, NEW t, NEW u, NEW x, Fades(s, t, x), Fades(t, u, x)
    PROVE  Fades(s, u, x)
<1>1. Ordered(s.writers, u.writers, x)
  BY DEF Fades, Ordered
<1>2. Held(s.writers, u.writers)
  BY DEF Fades, Held
<1>3. u.active \in {s.active, None} /\ u.current \subseteq s.current \cup {x}
  BY DEF Fades
<1> QED
  BY <1>1, <1>2, <1>3 DEF Fades

\* The queue stays as it is.
LEMMA SameQueueFades ==
    ASSUME NEW s, NEW t, NEW x, t.name = s.name, t.accepted = s.accepted,
           t.active \in {s.active, None}, t.current \subseteq s.current \cup {x},
           t.writers = s.writers
    PROVE  Fades(s, t, x)
BY DEF Fades, Ordered, Held

LEMMA CancelFades ==
    ASSUME NEW n, NEW s, SessionOK(s, n), NEW x
    PROVE  Fades(s, CancelFence(s), x) /\ CancelFence(s).current = s.current
<1>1. PICK q, t, w : q = s.writers /\ t = CancelFence(s) /\ w = Without(q, Fence)
  OBVIOUS
<1>2. s \in SessionType(n) /\ q \in Seq(Conns \cup {Fence}) /\ Once(q)
  BY <1>1 DEF SessionOK, SessionType
<1>3. /\ t.writers = w /\ t.name = s.name /\ t.accepted = s.accepted
      /\ t.active = s.active /\ t.current = s.current
  BY <1>1, <1>2 DEF CancelFence, SessionType
<1>4. /\ \A a, b : Before(q, a, b) => Before(w, a, b)
      /\ \A a : a # Fence /\ In(a, q) /\ Head(q) = a => Head(w) = a
      /\ \A a : a # Fence /\ In(a, q) => In(a, w)
  BY <1>1, <1>2, WithoutOrder, WithoutOnce
<1>5. Ordered(q, w, x) /\ Held(q, w)
  BY <1>4, NoneIsNone DEF Ordered, Held
<1> QED
  BY <1>1, <1>3, <1>5 DEF Fades

LEMMA InvalidateFades ==
    ASSUME NEW n \in Nat, NEW s, SessionOK(s, n), NEW x
    PROVE  Fades(s, InvalidateActive(s), x) /\ InvalidateActive(s).current = {}
<1>1. PICK t, v : t = CancelFence(s) /\ v = InvalidateActive(s)
  OBVIOUS
<1>2. Fades(s, t, x) /\ t \in SessionType(n)
  BY <1>1, CancelFades, CancelTracks DEF Tracks, SessionOK
<1>3. v = [t EXCEPT !.current = {}, !.active = None, !.unavailable = None]
  BY <1>1 DEF InvalidateActive
<1>4. /\ v.name = t.name /\ v.accepted = t.accepted /\ v.active = None
      /\ v.current = {} /\ v.writers = t.writers
  BY <1>2, <1>3 DEF SessionType
<1>5. Fades(t, v, x)
  BY <1>4, SameQueueFades
<1> QED
  BY <1>1, <1>2, <1>4, <1>5, FadesOn

LEMMA MarkFades ==
    ASSUME NEW n \in Nat, NEW s, SessionOK(s, n), NEW x, NEW u
    PROVE  /\ Fades(s, MarkUnavailable(s, u), x)
           /\ MarkUnavailable(s, u).active = None
           /\ MarkUnavailable(s, u).current = s.current
<1>1. PICK t, v : t = CancelFence(s) /\ v = MarkUnavailable(s, u)
  OBVIOUS
<1>2. Fades(s, t, x) /\ t \in SessionType(n) /\ t.current = s.current
  BY <1>1, CancelFades, CancelTracks DEF Tracks, SessionOK
<1>3. v = [t EXCEPT !.active = None, !.unavailable = u]
  BY <1>1 DEF MarkUnavailable
<1>4. /\ v.name = t.name /\ v.accepted = t.accepted /\ v.active = None
      /\ v.current = t.current /\ v.writers = t.writers
  BY <1>2, <1>3 DEF SessionType
<1>5. Fades(t, v, x)
  BY <1>4, SameQueueFades
<1> QED
  BY <1>1, <1>2, <1>4, <1>5, FadesOn

LEMMA ReadFades ==
    ASSUME NEW n, NEW s, SessionOK(s, n), NEW c
    PROVE  Fades(s, ReadGeneration(s, c), c)
<1>1. PICK t : t = ReadGeneration(s, c)
  OBVIOUS
<1>2. s \in SessionType(n)
  BY DEF SessionOK
<1>3. /\ t.name = s.name /\ t.accepted = s.accepted /\ t.active = s.active
      /\ t.current = s.current \cup {c} /\ t.writers = s.writers
  BY <1>1, <1>2 DEF ReadGeneration, SessionType
<1> QED
  BY <1>1, <1>3, SameQueueFades

LEMMA LaterFades ==
    ASSUME NEW n, NEW s, SessionOK(s, n), NEW x, NEW revision
    PROVE  Fades(s, Later(s, revision), x)
<1>1. PICK t : t = Later(s, revision)
  OBVIOUS
<1>2. s \in SessionType(n)
  BY DEF SessionOK
<1>3. /\ t.name = s.name /\ t.accepted = s.accepted /\ t.active = s.active
      /\ t.current = s.current /\ t.writers = s.writers
  BY <1>1, <1>2 DEF Later, SessionType
<1> QED
  BY <1>1, <1>3, SameQueueFades

LEMMA StoredFades ==
    ASSUME NEW n \in Nat, NEW s, SessionOK(s, n), NEW x, NEW o, o.revision \in 0..n
    PROVE  /\ Fades(s, StoredDraft(s, o), x) /\ StoredDraft(s, o).active = s.active
<1>1. PICK t, v : t = Later(s, o.revision) /\ v = StoredDraft(s, o)
  OBVIOUS
<1>2. Fades(s, t, x) /\ t \in SessionType(n)
  BY <1>1, LaterFades, LaterTracks DEF Tracks, SessionOK
<1>3. v = [t EXCEPT !.draft = o.text, !.tracked = TRUE, !.synced = TRUE,
                    !.startAllowed = FALSE]
  BY <1>1 DEF StoredDraft
<1>4. /\ v.name = t.name /\ v.accepted = t.accepted /\ v.active = t.active
      /\ v.current = t.current /\ v.writers = t.writers
  BY <1>2, <1>3 DEF SessionType
<1>5. Fades(t, v, x)
  BY <1>4, SameQueueFades
<1>6. t.active = s.active
  <2>1. s \in SessionType(n)
    BY DEF SessionOK
  <2> QED
    BY <1>1, <2>1 DEF Later, SessionType
<1> QED
  BY <1>1, <1>2, <1>4, <1>5, <1>6, FadesOn

LEMMA ResetFades ==
    ASSUME NEW n \in Nat, NEW s, SessionOK(s, n), NEW x, NEW allowed
    PROVE  /\ Fades(s, ResetTracking(s, allowed), x)
           /\ ResetTracking(s, allowed).active = None
           /\ ResetTracking(s, allowed).current = {}
<1>1. PICK t, v : t = InvalidateActive(s) /\ v = ResetTracking(s, allowed)
  OBVIOUS
<1>2. /\ Fades(s, t, x) /\ t.current = {} /\ t.active = None
      /\ t \in SessionType(n)
  BY <1>1, InvalidateFades, InvalidateTracks DEF Tracks, SessionOK
<1>3. v = [t EXCEPT !.draft = <<>>, !.tracked = FALSE, !.synced = FALSE,
                    !.startAllowed = allowed]
  BY <1>1 DEF ResetTracking
<1>4. /\ v.name = t.name /\ v.accepted = t.accepted /\ v.active = t.active
      /\ v.current = t.current /\ v.writers = t.writers
  BY <1>2, <1>3 DEF SessionType
<1>5. Fades(t, v, x)
  BY <1>4, SameQueueFades
<1> QED
  BY <1>1, <1>2, <1>4, <1>5, FadesOn

LEMMA QueuedFades ==
    ASSUME NEW n, NEW s, SessionOK(s, n), NEW c \in Conns, ~In(c, s.writers)
    PROVE  /\ Fades(s, Queued(s, c), c)
           /\ Queued(s, c).active = s.active /\ Queued(s, c).current = s.current
           /\ \A d \in Conns \ {c} : Before(Queued(s, c).writers, d, c)
<1>1. PICK q, t, w : q = s.writers /\ t = Queued(s, c) /\ w = Append(q, c)
  OBVIOUS
<1>2. s \in SessionType(n) /\ q \in Seq(Conns \cup {Fence}) /\ c \in Conns \cup {Fence}
  BY <1>1 DEF SessionOK, SessionType
<1>3. /\ t.writers = w /\ t.name = s.name /\ t.accepted = s.accepted
      /\ t.active = s.active /\ t.current = s.current
  BY <1>1, <1>2 DEF Queued, SessionType
<1>4. /\ \A a, b : a # c /\ b # c /\ Before(q, a, b) => Before(w, a, b)
      /\ \A a : a # c => Before(w, a, c)
      /\ Held(q, w)
  BY <1>1, <1>2, QueuedBehind
<1>5. Ordered(q, w, c)
  BY <1>4 DEF Ordered
<1> QED
  BY <1>1, <1>3, <1>4, <1>5 DEF Fades

-----------------------------------------------------------------------------
(* The invariant of the accepted records *)

\* A command that edits the line outside the active one.
Unowned(o) == o.mode = "plain" \/ o.step \in {"raw", "clear"}
Starting(o) == o.mode = "start" /\ o.at \in Writing
Holds(o) == o.at \in {"send", "reply"}

\* What a command knows of the draft it edits; exact says that nobody typed in
\* tmux and no rename fell into a commit.
CommandTyped(c, o, exact) ==
    /\ o.step = "sync" => o.mode \in {"start", "continue", "unavailable", "plain"}
    /\ o.step = "commit" => o.mode \in {"accept", "plain"}
    /\ o.mode = "start" => o.step = "sync" /\ o.from = <<>>
    /\ o.mode = "continue" => o.step = "sync" /\ o.active.owner = c /\ o.from = o.active.draft
    /\ o.mode = "accept" => o.step = "commit" /\ o.active.owner = c
    /\ o.record => o.mode = "accept" /\ Holds(o) /\ CellsTyped(o.active, exact)
    /\ o.at = "seed" => o.mode \in {"start", "accept"}
\* Who edits outside the active command made it inactive, and whoever starts one
\* on the same generation writes later.
ComesFirst(s, f, c) ==
    f[c].at \in Writing /\ Unowned(f[c]) =>
        /\ s.active = None
        /\ \A d \in s.current : Starting(f[d]) => Before(s.writers, c, d)
HasLock(s, f, c) == Holds(f[c]) => Head(s.writers) = c
\* What the holder of the lock has captured, and has typed.
StepTyped(s, c, o, cells, exact) ==
    /\ o.at = "send" /\ o.mode = "start" /\ o.start # NoStart =>
           /\ o.start <= Len(cells) /\ TypedBy(cells, o.start, Tmux)
           /\ exact => o.start = Len(cells)
    /\ o.at = "reply" /\ o.mode = "start" /\ o.start # NoStart =>
           Stood(cells, c, o.start, o.text, exact)
    /\ o.at = "reply" /\ o.mode = "continue" /\ s.active = o.active =>
           Stood(cells, c, o.active.start, o.text, exact)
    /\ o.at = "reply" /\ o.step = "commit" => TypedBy(cells, 0, Tmux)
Named(s, o, exact) == exact /\ Commits(o.kind) => o.name = s.name

ActiveStood(a, cells, exact) == a # None => Stood(cells, a.owner, a.start, a.draft, exact)
ActiveTyped(a, exact) == a # None /\ a.settled => CellsTyped(a, exact)
Unwritten(f) == \A c \in Conns : f[c].at # "reply"

TInv(s, f, cells, exact) ==
    /\ \A c \in Conns : /\ CommandTyped(c, f[c], exact) /\ ComesFirst(s, f, c)
                        /\ HasLock(s, f, c) /\ StepTyped(s, c, f[c], cells, exact)
                        /\ Named(s, f[c], exact)
    /\ ActiveTyped(s.active, exact)
    /\ Unwritten(f) => ActiveStood(s.active, cells, exact)
    /\ \A a \in s.accepted : CellsTyped(a, exact)

\* The queue of the write lock and the commands belong together.
Queues(s, f) ==
    \A c \in Conns : Coherent(f[c]) /\ (f[c].at \in Writing => In(c, s.writers))
LEMMA LocksQueue ==
    ASSUME NEW s, NEW f, LocksOK(s, f)
    PROVE  Queues(s, f)
BY DEF LocksOK, Queues, CommandOK

\* The command of c moves on to p, before it has written, and tracking follows.
LEMMA TypedOn ==
    ASSUME NEW s, NEW f, NEW t, NEW g, NEW cells, NEW exact, NEW c \in Conns, NEW p,
           TInv(s, f, cells, exact), Queues(s, f), Fades(s, t, c),
           g[c] = p, \A d \in Conns \ {c} : g[d] = f[d],
           f[c].at # "reply", ~Holds(p), CommandTyped(c, p, exact), Named(t, p, exact),
           p.at \in Writing /\ Unowned(p) => t.active = None /\ t.current = {},
           Starting(p) => \A d \in Conns \ {c} : Before(t.writers, d, c),
           s.current \subseteq Conns
    PROVE  TInv(t, g, cells, exact)
<1>1. /\ t.name = s.name /\ t.accepted = s.accepted /\ t.active \in {s.active, None}
      /\ t.current \subseteq s.current \cup {c}
      /\ Ordered(s.writers, t.writers, c) /\ Held(s.writers, t.writers)
  BY DEF Fades
<1>2. ASSUME NEW d \in Conns \ {c}
      PROVE  /\ CommandTyped(d, g[d], exact) /\ ComesFirst(t, g, d)
             /\ HasLock(t, g, d) /\ StepTyped(t, d, g[d], cells, exact)
             /\ Named(t, g[d], exact)
  <2>1. PICK o : o = f[d] /\ o = g[d]
    OBVIOUS
  <2>2. /\ CommandTyped(d, o, exact) /\ ComesFirst(s, f, d)
        /\ HasLock(s, f, d) /\ StepTyped(s, d, o, cells, exact)
        /\ Named(s, o, exact)
    BY <2>1 DEF TInv
  <2>3. Coherent(o) /\ (o.at \in Writing => In(d, s.writers))
    BY <2>1 DEF Queues
  <2>4. ComesFirst(t, g, d)
    <3> SUFFICES ASSUME o.at \in Writing, Unowned(o)
                 PROVE  /\ t.active = None
                        /\ \A x \in t.current : Starting(g[x]) => Before(t.writers, d, x)
      BY <2>1 DEF ComesFirst
    <3>1. /\ s.active = None
          /\ \A x \in s.current : Starting(f[x]) => Before(s.writers, d, x)
      BY <2>1, <2>2 DEF ComesFirst
    <3>2. ASSUME NEW x \in t.current, Starting(g[x]) PROVE Before(t.writers, d, x)
      <4>1. CASE x = c
        BY <3>2, <4>1
      <4>2. CASE x # c
        <5>1. x \in s.current /\ x \in Conns \ {c} /\ g[x] = f[x]
          BY <1>1, <4>2
        <5>2. Before(s.writers, d, x)
          BY <3>1, <3>2, <5>1
        <5> QED
          BY <1>1, <5>1, <5>2 DEF Ordered
      <4> QED
        BY <4>1, <4>2
    <3> QED
      BY <1>1, <3>1, <3>2
  <2>5. HasLock(t, g, d)
    BY <1>1, <2>1, <2>2, <2>3 DEF HasLock, Held, Holds, Writing
  <2>6. StepTyped(t, d, o, cells, exact)
    BY <1>1, <2>2, <2>3 DEF StepTyped, Coherent
  <2>7. Named(t, o, exact)
    BY <1>1, <2>2 DEF Named
  <2> QED
    BY <2>1, <2>2, <2>4, <2>5, <2>6, <2>7
<1>3. /\ ComesFirst(t, g, c) /\ HasLock(t, g, c) /\ StepTyped(t, c, p, cells, exact)
  BY DEF ComesFirst, HasLock, StepTyped, Holds
<1>4. ActiveTyped(t.active, exact)
  BY <1>1 DEF TInv, ActiveTyped
<1>5. ASSUME Unwritten(g) PROVE ActiveStood(t.active, cells, exact)
  <2>1. Unwritten(f)
    BY <1>5 DEF Unwritten
  <2> QED
    BY <1>1, <2>1 DEF TInv, ActiveStood
<1>6. \A a \in t.accepted : CellsTyped(a, exact)
  BY <1>1 DEF TInv
<1>7. \A d \in Conns : /\ CommandTyped(d, g[d], exact) /\ ComesFirst(t, g, d)
                       /\ HasLock(t, g, d) /\ StepTyped(t, d, g[d], cells, exact)
                       /\ Named(t, g[d], exact)
  BY <1>2, <1>3
<1> QED
  BY <1>4, <1>5, <1>6, <1>7 DEF TInv

\* Only tracking moves.
LEMMA TypedFades ==
    ASSUME NEW s, NEW f, NEW t, NEW cells, NEW exact,
           TInv(s, f, cells, exact), Queues(s, f), Fades(s, t, Fence),
           t.current \subseteq s.current, s.current \subseteq Conns
    PROVE  TInv(t, f, cells, exact)
<1>1. /\ t.name = s.name /\ t.accepted = s.accepted /\ t.active \in {s.active, None}
      /\ Ordered(s.writers, t.writers, Fence) /\ Held(s.writers, t.writers)
  BY DEF Fades
<1>2. ASSUME NEW d \in Conns
      PROVE  /\ CommandTyped(d, f[d], exact) /\ ComesFirst(t, f, d)
             /\ HasLock(t, f, d) /\ StepTyped(t, d, f[d], cells, exact)
             /\ Named(t, f[d], exact)
  <2>1. PICK o : o = f[d]
    OBVIOUS
  <2>2. /\ CommandTyped(d, o, exact) /\ ComesFirst(s, f, d)
        /\ HasLock(s, f, d) /\ StepTyped(s, d, o, cells, exact)
        /\ Named(s, o, exact)
    BY <2>1 DEF TInv
  <2>3. Coherent(o) /\ (o.at \in Writing => In(d, s.writers))
    BY <2>1 DEF Queues
  <2>4. ComesFirst(t, f, d)
    <3>1. \A a \in Conns : \A b \in Conns :
             Before(s.writers, a, b) => Before(t.writers, a, b)
      BY <1>1, NoneIsNone DEF Ordered
    <3> QED
      BY <1>1, <2>2, <3>1 DEF ComesFirst
  <2>5. HasLock(t, f, d)
    BY <1>1, <2>1, <2>2, <2>3 DEF HasLock, Held, Holds, Writing
  <2>6. StepTyped(t, d, o, cells, exact)
    BY <1>1, <2>2, <2>3 DEF StepTyped, Coherent
  <2>7. Named(t, o, exact)
    BY <1>1, <2>2 DEF Named
  <2> QED
    BY <2>1, <2>2, <2>4, <2>5, <2>6, <2>7
<1>3. ActiveTyped(t.active, exact)
  BY <1>1 DEF TInv, ActiveTyped
<1>4. Unwritten(f) => ActiveStood(t.active, cells, exact)
  BY <1>1 DEF TInv, ActiveStood
<1>5. \A a \in t.accepted : CellsTyped(a, exact)
  BY <1>1 DEF TInv
<1> QED
  BY <1>2, <1>3, <1>4, <1>5 DEF TInv

LEMMA LessExact ==
    ASSUME NEW exact \in BOOLEAN, NEW less \in BOOLEAN, less => exact
    PROVE  /\ \A a : CellsTyped(a, exact) => CellsTyped(a, less)
           /\ \A c, o : CommandTyped(c, o, exact) => CommandTyped(c, o, less)
           /\ \A cells, owner, start, draft :
                 Stood(cells, owner, start, draft, exact)
                     => Stood(cells, owner, start, draft, less)
<1>1. \A a : CellsTyped(a, exact) => CellsTyped(a, less)
  BY DEF CellsTyped
<1>2. \A c, o : CommandTyped(c, o, exact) => CommandTyped(c, o, less)
  BY <1>1 DEF CommandTyped
<1>3. \A cells, owner, start, draft :
         Stood(cells, owner, start, draft, exact) => Stood(cells, owner, start, draft, less)
  BY DEF Stood
<1> QED
  BY <1>1, <1>2, <1>3

-----------------------------------------------------------------------------
(* What a command plans *)

\* The plan q of connection c, made from the record s, gives nothing to another.
Fit(s, c, q, exact) ==
    /\ Fades(s, q.session, c)
    /\ ~Holds(q.command) /\ ~Starting(q.command) /\ CommandTyped(c, q.command, exact)
    /\ q.command.at \in Writing /\ Unowned(q.command)
          => q.session.active = None /\ q.session.current = {}

LEMMA FitOn ==
    ASSUME NEW s, NEW u, NEW c, NEW q, NEW exact, Fades(s, u, c), Fit(u, c, q, exact)
    PROVE  Fit(s, c, q, exact)
<1>1. Fades(s, q.session, c)
  BY FadesOn DEF Fit
<1> QED
  BY <1>1 DEF Fit

LEMMA OnwardTyped ==
    ASSUME NEW s, NEW f, NEW t, NEW g, NEW cells, NEW exact, NEW c \in Conns,
           NEW o, NEW v, NEW q, NEW n, NEW m,
           TInv(s, f, cells, exact), Queues(s, f), f \in [Conns -> CommandType(m)],
           s.current \subseteq Conns, f[c].at # "reply", Fit(s, c, q, exact),
           Onward(v, c, o, q, n), v.name = s.name, Named(s, o, exact),
           Gets(f, t, g, c, q)
    PROVE  TInv(t, g, cells, exact)
<1>1. PICK p : p = q.command
  OBVIOUS
<1>2. t = q.session /\ g[c] = p /\ \A d \in Conns \ {c} : g[d] = f[d]
  BY <1>1 DEF Gets
<1>3. Named(t, p, exact)
  <2>1. t.name = s.name
    BY <1>2 DEF Onward
  <2>2. CASE p = NoCommand
    BY <2>2 DEF Named, Commits, NoCommand
  <2>3. CASE p.kind = o.kind /\ p.name \in {o.name, v.name}
    BY <2>1, <2>3 DEF Named
  <2> QED
    BY <1>1, <2>2, <2>3 DEF Onward
<1>4. /\ Fades(s, t, c) /\ ~Holds(p) /\ ~Starting(p) /\ CommandTyped(c, p, exact)
      /\ p.at \in Writing /\ Unowned(p) => t.active = None /\ t.current = {}
  BY <1>1, <1>2 DEF Fit
<1> QED
  BY <1>2, <1>3, <1>4, TypedOn

LEMMA NoCommandTyped ==
    ASSUME NEW c, NEW exact
    PROVE  /\ CommandTyped(c, NoCommand, exact) /\ ~Holds(NoCommand)
           /\ ~Starting(NoCommand) /\ NoCommand.at \notin Writing
BY DEF CommandTyped, Holds, Starting, Writing, NoCommand

LEMMA DoneFit ==
    ASSUME NEW n \in Nat, NEW s, SessionOK(s, n), NEW c \in Conns, NEW exact
    PROVE  Fit(s, c, Done(s, c), exact)
<1>1. PICK t : t = [s EXCEPT !.current = @ \ {c}]
  OBVIOUS
<1>2. /\ t.name = s.name /\ t.accepted = s.accepted /\ t.active = s.active
      /\ t.current = s.current \ {c} /\ t.writers = s.writers
  BY <1>1 DEF SessionOK, SessionType
<1>3. Fades(s, t, c)
  BY <1>2, SameQueueFades
<1>4. Done(s, c).session = t /\ Done(s, c).command = NoCommand
  BY <1>1 DEF Done, Plan
<1> QED
  BY <1>3, <1>4, NoCommandTyped DEF Fit

LEMMA PlanCommitFit ==
    ASSUME NEW n \in Nat, NEW s, SessionOK(s, n), NEW c \in Conns, ~In(c, s.writers),
           NEW o \in CommandType(n), ~o.record, NEW exact
    PROVE  Fit(s, c, PlanCommit(s, c, o), exact)
<1> DEFINE mayAccept == /\ s.active # None
                        /\ s.active.owner = c
                        /\ s.active.draft = s.draft
                        /\ s.active.revision = s.revision
                        /\ s.tracked /\ s.synced
                        /\ o.revision > s.active.revision
           t == IF mayAccept THEN s ELSE InvalidateActive(s)
           p == [o EXCEPT !.step = "commit", !.name = s.name, !.start = NoStart,
                          !.mode = IF mayAccept THEN "accept" ELSE "plain",
                          !.active = t.active, !.unavailable = s.unavailable]
<1>1. PlanCommit(s, c, o) =
        IF mayAccept THEN Plan(ReadGeneration(t, c), [p EXCEPT !.at = "seed"])
                     ELSE Plan(Queued(t, c), [p EXCEPT !.at = "write"])
  BY DEF PlanCommit
<1>2. CASE mayAccept
  <2>1. PICK y : y = [p EXCEPT !.at = "seed"]
    OBVIOUS
  <2>2. /\ y.step = "commit" /\ y.mode = "accept" /\ y.active = s.active /\ ~y.record
        /\ y.at = "seed" /\ y.active.owner = c
    BY <1>2, <2>1 DEF CommandType
  <2>3. CommandTyped(c, y, exact) /\ ~Holds(y) /\ y.at \notin Writing
    BY <2>2 DEF CommandTyped, Holds, Writing
  <2>4. Fades(s, ReadGeneration(s, c), c)
    BY ReadFades
  <2>5. PlanCommit(s, c, o).session = ReadGeneration(s, c) /\ PlanCommit(s, c, o).command = y
    BY <1>1, <1>2, <2>1 DEF Plan
  <2> QED
    BY <2>3, <2>4, <2>5 DEF Fit, Starting
<1>3. CASE ~mayAccept
  <2>1. PICK y, x, v : y = [p EXCEPT !.at = "write"] /\ x = InvalidateActive(s) /\ v = Queued(x, c)
    OBVIOUS
  <2>2. y.step = "commit" /\ y.mode = "plain" /\ ~y.record /\ y.at = "write"
    BY <1>3, <2>1 DEF CommandType
  <2>3. CommandTyped(c, y, exact) /\ ~Holds(y) /\ ~Starting(y)
    BY <2>2 DEF CommandTyped, Holds, Starting
  <2>4. Fades(s, x, c) /\ x.current = {}
    BY <2>1, InvalidateFades
  <2>5. x.active = None /\ SessionOK(x, n) /\ ~In(c, x.writers)
    BY <2>1, InvalidateTracks DEF Tracks
  <2>6. Fades(x, v, c) /\ v.active = x.active /\ v.current = x.current
    BY <2>1, <2>5, QueuedFades
  <2>7. PlanCommit(s, c, o).session = v /\ PlanCommit(s, c, o).command = y
    BY <1>1, <1>3, <2>1 DEF Plan
  <2>8. Fades(s, v, c)
    BY <2>4, <2>6, FadesOn
  <2> QED
    BY <2>3, <2>4, <2>5, <2>6, <2>7, <2>8 DEF Fit
<1> QED
  BY <1>2, <1>3

LEMMA SettleFit ==
    ASSUME NEW n \in Nat, NEW s, SessionOK(s, n), NEW c \in Conns, ~In(c, s.writers),
           NEW o \in CommandType(n), ~o.record, NEW exact, CommandTyped(c, o, exact)
    PROVE  Fit(s, c, SettleThenCommit(s, c, o), exact)
<1>1. CASE s.fence = "none"
  <2>1. SettleThenCommit(s, c, o) = PlanCommit(s, c, o)
    BY <1>1 DEF SettleThenCommit
  <2> QED
    BY <2>1, PlanCommitFit
<1>2. CASE s.fence # "none"
  <2>1. PICK y : y = [o EXCEPT !.at = "fence"]
    OBVIOUS
  <2>2. /\ SettleThenCommit(s, c, o).session = s /\ SettleThenCommit(s, c, o).command = y
    BY <1>2, <2>1 DEF SettleThenCommit, Plan
  <2>3. /\ y.at = "fence" /\ y.step = o.step /\ y.mode = o.mode /\ y.active = o.active
        /\ y.from = o.from /\ ~y.record
    BY <2>1 DEF CommandType
  <2>4. CommandTyped(c, y, exact) /\ ~Holds(y) /\ y.at \notin Writing
    BY <2>3 DEF CommandTyped, Holds, Writing
  <2>5. Fades(s, s, c)
    BY SameQueueFades
  <2> QED
    BY <2>2, <2>4, <2>5 DEF Fit, Starting
<1> QED
  BY <1>1, <1>2

LEMMA AfterSyncFit ==
    ASSUME NEW n \in Nat, NEW s, SessionOK(s, n), NEW c \in Conns, ~In(c, s.writers),
           NEW o \in CommandType(n), o.text \in Texts, ~o.record, NEW exact,
           CommandTyped(c, o, exact)
    PROVE  Fit(s, c, AfterSync(s, c, o), exact)
<1>1. PICK u : u = StoredDraft(s, o)
  OBVIOUS
<1>2. o.revision \in 0..n
  BY DEF CommandType
<1>3. Fades(s, u, c)
  BY <1>1, <1>2, StoredFades
<1>4. SessionOK(u, n) /\ ~In(c, u.writers)
  BY <1>1, <1>2, StoredTracks DEF Tracks
<1>5. Fit(u, c, SettleThenCommit(u, c, o), exact) /\ Fit(u, c, Done(u, c), exact)
  BY <1>4, SettleFit, DoneFit
<1>6. Fit(u, c, AfterSync(s, c, o), exact)
  BY <1>1, <1>5 DEF AfterSync
<1> QED
  BY <1>3, <1>6, FitOn

\* A plan to queue for the write lock.
LEMMA QueuedFit ==
    ASSUME NEW n \in Nat, NEW s, NEW x, SessionOK(x, n), NEW c \in Conns, ~In(c, x.writers),
           NEW exact, Fades(s, x, c), NEW y, CommandTyped(c, y, exact), y.at = "write",
           y.mode # "start", Unowned(y) => x.active = None /\ x.current = {}
    PROVE  Fit(s, c, Plan(Queued(x, c), y), exact)
<1>1. PICK v : v = Queued(x, c)
  OBVIOUS
<1>2. Fades(x, v, c) /\ v.active = x.active /\ v.current = x.current
  BY <1>1, QueuedFades
<1>3. Fades(s, v, c)
  BY <1>2, FadesOn
<1>4. Plan(Queued(x, c), y).session = v /\ Plan(Queued(x, c), y).command = y
  BY <1>1 DEF Plan
<1> QED
  BY <1>2, <1>3, <1>4 DEF Fit, Holds, Starting

LEMMA PlanSyncFit ==
    ASSUME NEW n \in Nat, NEW s, SessionOK(s, n), NEW c \in Conns, ~In(c, s.writers),
           NEW o \in CommandType(n), o.text \in Texts, ~o.record, o.at # "seed", NEW exact,
           NEW direct \in BOOLEAN
    PROVE  Fit(s, c, PlanSync(s, c, o, direct), exact)
<1> DEFINE mode == IF direct /\ CanStart(s, o) THEN "start"
                   ELSE IF direct /\ CanContinue(s, c, o) THEN "continue"
                   ELSE IF direct /\ CanContinueUnavailable(s, c, o) THEN "unavailable"
                   ELSE "plain"
           unchanged == o.text = s.draft
           t == IF mode # "plain" THEN ReadGeneration(s, c)
                ELSE IF unchanged /\ s.unavailable # None THEN s
                ELSE InvalidateActive(s)
           p == [o EXCEPT !.step = "sync", !.mode = mode, !.from = s.draft,
                          !.active = IF mode = "continue" THEN s.active ELSE None,
                          !.unavailable = s.unavailable]
           q == PlanSync(s, c, o, direct)
<1>1. q = CASE mode = "start" -> Plan(t, [p EXCEPT !.at = "seed"])
            [] mode = "continue" ->
                   Plan(Queued(CancelFence(t), c), [p EXCEPT !.at = "write"])
            [] mode = "plain" /\ unchanged -> AfterSync(t, c, p)
            [] OTHER -> Plan(Queued(t, c), [p EXCEPT !.at = "write"])
  BY DEF PlanSync
<1>2. /\ mode \in {"start", "continue", "unavailable", "plain"}
      /\ mode = "start" => s.draft = <<>>
      /\ mode = "continue" => s.active # None /\ s.active.owner = c /\ s.active.draft = s.draft
  BY DEF CanStart, CanContinue
<1>3. PICK m : m = mode
  OBVIOUS
<1>4. PICK a : a = IF m = "continue" THEN s.active ELSE None
  OBVIOUS
<1>5. PICK e \in CommandType(n) :
        /\ e = p /\ e.step = "sync" /\ e.mode = m /\ e.from = s.draft /\ e.active = a
        /\ e.text = o.text /\ ~e.record /\ e.at # "seed"
  <2>1. /\ s.draft \in Texts /\ m \in Modes /\ a \in ActiveType \cup {None}
        /\ s.unavailable \in UnavailableType \cup {None} /\ "sync" \in Steps
    BY <1>2, <1>3, <1>4 DEF SessionOK, SessionType, Modes, Steps
  <2>2. PICK d, u : d = s.draft /\ u = s.unavailable
    OBVIOUS
  <2>3. p = [o EXCEPT !.step = "sync", !.mode = m, !.from = d, !.active = a, !.unavailable = u]
    BY <1>3, <1>4, <2>2
  <2> HIDE DEF p
  <2>4. p \in CommandType(n)
    BY <2>1, <2>2, <2>3 DEF CommandType
  <2>5. /\ p.step = "sync" /\ p.mode = m /\ p.from = d /\ p.active = a /\ p.text = o.text
        /\ p.record = o.record /\ p.at = o.at
    BY <2>3 DEF CommandType
  <2> QED
    BY <2>2, <2>4, <2>5
<1>6. /\ m \in {"start", "continue", "unavailable", "plain"}
      /\ m = "start" => e.from = <<>>
      /\ m = "continue" => e.active.owner = c /\ e.from = e.active.draft
  BY <1>2, <1>3, <1>4, <1>5
<1>7. PICK r, x : r = ReadGeneration(s, c) /\ x = t
  OBVIOUS
<1>8. Fades(s, r, c) /\ SessionOK(r, n) /\ ~In(c, r.writers)
  BY <1>7, ReadFades, ReadTracks DEF Tracks
<1>9. /\ m # "plain" => x = r
      /\ m = "plain" => \/ x = InvalidateActive(s)
                        \/ x = s /\ unchanged
  BY <1>3, <1>7
<1>10. /\ m = "start" => q = Plan(r, [e EXCEPT !.at = "seed"])
       /\ m = "continue" => q = Plan(Queued(CancelFence(r), c), [e EXCEPT !.at = "write"])
       /\ m = "unavailable" => q = Plan(Queued(r, c), [e EXCEPT !.at = "write"])
       /\ m = "plain" /\ unchanged => q = AfterSync(x, c, e)
       /\ m = "plain" /\ ~unchanged => q = Plan(Queued(x, c), [e EXCEPT !.at = "write"])
  BY <1>1, <1>3, <1>5, <1>7, <1>9
<1> HIDE DEF mode, t, p, q, unchanged
\* The command at a place where it does not write yet.
<1>11. ASSUME NEW b \in {"seed", "write"}, b = "seed" => m = "start", NEW y,
              y = [e EXCEPT !.at = b]
       PROVE  /\ y.at = b /\ y.mode = m /\ y.step = "sync" /\ CommandTyped(c, y, exact)
  <2>1. /\ y.at = b /\ y.mode = m /\ y.step = "sync" /\ y.from = e.from /\ y.active = e.active
        /\ ~y.record
    BY <1>5, <1>11 DEF CommandType
  <2> QED
    BY <1>6, <1>11, <2>1 DEF CommandTyped
<1>12. CASE m = "start"
  <2>1. PICK b, y : b = "seed" /\ y = [e EXCEPT !.at = b]
    OBVIOUS
  <2>2. y.at = "seed" /\ CommandTyped(c, y, exact)
    BY <1>11, <1>12, <2>1
  <2>3. q.session = r /\ q.command = y
    BY <1>10, <1>12, <2>1 DEF Plan
  <2> QED
    BY <1>8, <2>2, <2>3 DEF Fit, Holds, Starting, Writing, q
<1>13. CASE m # "start"
  <2>1. PICK b, y : b = "write" /\ y = [e EXCEPT !.at = b]
    OBVIOUS
  <2>2. y.at = "write" /\ y.mode = m /\ y.step = "sync" /\ CommandTyped(c, y, exact)
    BY <1>11, <2>1
  <2>3. CASE m = "continue"
    <3>1. PICK z : z = CancelFence(r)
      OBVIOUS
    <3>2. Fades(r, z, c) /\ SessionOK(z, n) /\ ~In(c, z.writers)
      BY <1>8, <3>1, CancelFades, CancelTracks DEF Tracks
    <3>3. Fades(s, z, c)
      BY <1>8, <3>2, FadesOn
    <3>4. q = Plan(Queued(z, c), y)
      BY <1>10, <2>1, <2>3, <3>1
    <3>5. ~Unowned(y)
      BY <2>2, <2>3 DEF Unowned
    <3> QED
      BY <2>2, <2>3, <3>2, <3>3, <3>4, <3>5, QueuedFit DEF q
  <2>4. CASE m = "unavailable"
    <3>1. q = Plan(Queued(r, c), y)
      BY <1>10, <2>1, <2>4
    <3>2. ~Unowned(y)
      BY <2>2, <2>4 DEF Unowned
    <3> QED
      BY <1>8, <2>2, <2>4, <3>1, <3>2, QueuedFit DEF q
  <2>5. CASE m = "plain"
    <3>1. /\ x = InvalidateActive(s) \/ x = s
      BY <1>9, <2>5
    <3>2. Fades(s, x, c) /\ SessionOK(x, n) /\ ~In(c, x.writers)
      BY <3>1, InvalidateFades, InvalidateTracks, SameQueueFades DEF Tracks
    <3>3. CASE unchanged
      <4>1. CommandTyped(c, e, exact)
        BY <1>5, <1>6, <2>5 DEF CommandTyped
      <4>2. Fit(x, c, AfterSync(x, c, e), exact)
        BY <1>5, <3>2, <4>1, AfterSyncFit
      <4> QED
        BY <1>10, <2>5, <3>2, <3>3, <4>2, FitOn DEF q
    <3>4. CASE ~unchanged
      <4>1. x = InvalidateActive(s)
        BY <1>9, <2>5, <3>4
      <4>2. x.active = None /\ x.current = {}
        BY <4>1, InvalidateTracks, InvalidateFades
      <4>3. q = Plan(Queued(x, c), y)
        BY <1>10, <2>1, <2>5, <3>4
      <4> QED
        BY <2>2, <2>5, <3>2, <4>2, <4>3, QueuedFit DEF q
    <3> QED
      BY <3>3, <3>4
  <2> QED
    BY <1>6, <1>13, <2>3, <2>4, <2>5
<1> QED
  BY <1>12, <1>13

LEMMA FitTyped ==
    ASSUME NEW s, NEW f, NEW t, NEW g, NEW cells, NEW exact, NEW c \in Conns,
           NEW q, NEW m, TInv(s, f, cells, exact), Queues(s, f),
           f \in [Conns -> CommandType(m)], s.current \subseteq Conns,
           f[c].at # "reply", Fit(s, c, q, exact), Named(q.session, q.command, exact),
           Gets(f, t, g, c, q)
    PROVE  TInv(t, g, cells, exact)
<1>1. PICK p : p = q.command
  OBVIOUS
<1>2. t = q.session /\ g[c] = p /\ \A d \in Conns \ {c} : g[d] = f[d]
  BY <1>1 DEF Gets
<1>3. /\ Fades(s, t, c) /\ ~Holds(p) /\ ~Starting(p) /\ CommandTyped(c, p, exact)
      /\ Named(t, p, exact)
      /\ p.at \in Writing /\ Unowned(p) => t.active = None /\ t.current = {}
  BY <1>1, <1>2 DEF Fit
<1> QED
  BY <1>2, <1>3, TypedOn

-----------------------------------------------------------------------------
(* Every step keeps it *)

Exact == ~outside /\ ~crossed
Accepts == TInv(session, conn, line, Exact)

\* What every step counts on.
Sound(s, f, n, cells, exact) ==
    /\ n \in Nat /\ RecordsOK(s, f, n) /\ LocksOK(s, f) /\ SessionOK(s, n)
    /\ SessionOK(s, n + 1) /\ s.current \subseteq Conns
    /\ f \in [Conns -> CommandType(n)] /\ Queues(s, f) /\ TInv(s, f, cells, exact)

LEMMA SoundNow ==
    ASSUME IInv, Accepts, NEW s, NEW f, NEW n, NEW cells, NEW e, s = session,
           f = conn, n = commands, cells = line, e = Exact
    PROVE  Sound(s, f, n, cells, e) /\ cells \in Seq(Cell) /\ e \in BOOLEAN
<1>1. n \in Nat /\ RecordsOK(s, f, n) /\ LocksOK(s, f) /\ cells \in Seq(Cell)
  BY DEF IInv
<1>2. SessionOK(s, n) /\ SessionOK(s, n + 1)
  BY <1>1, SessionLater DEF RecordsOK
<1>3. s.current \subseteq Conns
  BY <1>2 DEF SessionOK, SessionType
<1> QED
  BY <1>1, <1>2, <1>3, LocksQueue DEF Sound, RecordsOK, Accepts, Exact

\* A plan for a command that has not written.
LEMMA PlanTyped ==
    ASSUME IInv, Accepts, NEW c \in Conns, NEW o, NEW q, NEW k, conn[c].at # "reply",
           Fit(session, c, q, Exact), Onward(session, c, o, q, k), Follows(c, q),
           Named(session, o, Exact), UNCHANGED <<line, outside, crossed>>
    PROVE  Accepts'
<1>1. PICK s, f, n, cells, e : /\ s = session /\ f = conn /\ n = commands /\ cells = line
                               /\ e = Exact
  OBVIOUS
<1>2. PICK t, g : t = session' /\ g = conn'
  OBVIOUS
<1>3. Sound(s, f, n, cells, e)
  BY <1>1, SoundNow
<1>4. Gets(f, t, g, c, q)
  BY <1>1, <1>2 DEF Follows, Gets
<1>5. TInv(t, g, cells, e)
  <2>1. f[c].at # "reply" /\ Fit(s, c, q, e) /\ Onward(s, c, o, q, k) /\ Named(s, o, e)
    BY <1>1
  <2> QED
    BY <1>3, <1>4, <2>1, OnwardTyped DEF Sound
<1>6. line' = cells /\ Exact' = e
  BY <1>1 DEF Exact
<1> QED
  BY <1>2, <1>5, <1>6 DEF Accepts

\* A plan that the command of c starts to write, or to wait.
LEMMA StartTyped ==
    ASSUME IInv, Accepts, NEW c \in Conns, NEW q, conn[c].at # "reply",
           Fit(session, c, q, Exact), Follows(c, q),
           Named(q.session, q.command, Exact), UNCHANGED <<line, outside, crossed>>
    PROVE  Accepts'
<1>1. PICK s, f, n, cells, e : /\ s = session /\ f = conn /\ n = commands /\ cells = line
                               /\ e = Exact
  OBVIOUS
<1>2. PICK t, g : t = session' /\ g = conn'
  OBVIOUS
<1>3. Sound(s, f, n, cells, e)
  BY <1>1, SoundNow
<1>4. Gets(f, t, g, c, q)
  BY <1>1, <1>2 DEF Follows, Gets
<1>5. TInv(t, g, cells, e)
  <2>1. f[c].at # "reply" /\ Fit(s, c, q, e) /\ Named(q.session, q.command, e)
    BY <1>1
  <2> QED
    BY <1>3, <1>4, <2>1, FitTyped DEF Sound
<1>6. line' = cells /\ Exact' = e
  BY <1>1 DEF Exact
<1> QED
  BY <1>2, <1>5, <1>6 DEF Accepts

\* A new command has captured nothing.
LEMMA CommandFresh ==
    ASSUME NEW kind, NEW text, NEW revision, NEW o, o = Command(kind, text, revision)
    PROVE  /\ o.at = "idle" /\ o.step = "none" /\ o.mode = "none" /\ ~o.record
           /\ o.name = session.name /\ o.kind = kind
BY DEF Command, NoCommand

LEMMA BeginsTyped ==
    ASSUME IInv, Accepts, NEW c \in Conns, NEW kind, Begins(c, kind)
    PROVE  /\ conn[c].at # "reply" /\ UNCHANGED <<line, outside, crossed>>
           /\ commands + 1 \in Nat /\ SessionOK(session, commands + 1)
           /\ SessionOK(session, commands) /\ ~In(c, session.writers)
           /\ Revisions \subseteq 0..(commands + 1) /\ NewRevision \in 0..(commands + 1)
<1>1. PICK s, f, n, cells, e : /\ s = session /\ f = conn /\ n = commands /\ cells = line
                               /\ e = Exact
  OBVIOUS
<1>2. Sound(s, f, n, cells, e)
  BY <1>1, SoundNow
<1>3. /\ f[c] = NoCommand /\ n \in Nat
      /\ Revisions \subseteq 0..(n + 1) /\ NewRevision \in 0..(n + 1)
  BY <1>1, BeginsOK
<1>4. f[c].at \notin Writing /\ f[c].at # "reply"
  BY <1>3 DEF NoCommand, Writing
<1>5. ~In(c, s.writers)
  BY <1>2, <1>4 DEF Sound, LocksOK
<1>6. n + 1 \in Nat
  BY <1>3
<1> QED
  BY <1>1, <1>2, <1>3, <1>4, <1>5, <1>6 DEF Begins, Sound

LEMMA SyncTyped ==
    ASSUME IInv, Accepts, NEW c \in Conns, Sync(c)
    PROVE  Accepts'
<1>1. Begins(c, "sync")
  BY DEF Sync
<1>2. PICK text \in Drafts, revision \in Revisions :
        Follows(c, PlanSync(session, c, Command("sync", text, revision), TRUE))
  BY DEF Sync
<1>3. PICK s, m, e, o, b : /\ s = session /\ m = commands + 1 /\ e = Exact /\ b = TRUE
                           /\ o = Command("sync", text, revision)
  OBVIOUS
<1>4. m \in Nat /\ SessionOK(s, m) /\ ~In(c, s.writers) /\ revision \in 0..m
  BY <1>1, <1>3, BeginsTyped
<1>5. o.at = "idle" /\ o.step = "none" /\ o.mode = "none" /\ ~o.record /\ o.name = s.name
  BY <1>3, CommandFresh
<1>6. o \in CommandType(m) /\ o.kind = "sync" /\ Coherent(o) /\ o.text \in Texts
  <2>1. "sync" \in Kinds /\ text \in Texts \cup {<<"k">>} /\ text \in Texts
    BY DEF Kinds, Texts
  <2>2. SessionOK(session, m)
    BY <1>3, <1>4
  <2> QED
    BY <1>3, <1>4, <2>1, <2>2, CommandIs
<1>7. PICK q : q = PlanSync(s, c, o, b)
  OBVIOUS
<1>8. b \in BOOLEAN /\ o.kind \in {"sync", "submit"} /\ o.at # "seed"
  BY <1>3, <1>5, <1>6
<1>9. Onward(s, c, o, q, m)
  BY <1>4, <1>6, <1>7, <1>8, PlanSyncOnward
<1>10. Fit(s, c, q, e)
  BY <1>4, <1>5, <1>6, <1>7, <1>8, PlanSyncFit
<1>11. Named(s, o, e)
  BY <1>5 DEF Named
<1>12. Follows(c, q)
  BY <1>2, <1>3, <1>7
<1>13. conn[c].at # "reply" /\ UNCHANGED <<line, outside, crossed>>
  BY <1>1, BeginsTyped
<1> QED
  BY <1>3, <1>9, <1>10, <1>11, <1>12, <1>13, PlanTyped

LEMMA EnterTyped ==
    ASSUME IInv, Accepts, NEW c \in Conns, Enter(c)
    PROVE  Accepts'
<1>1. Begins(c, "enter")
  BY DEF Enter
<1>2. PICK revision \in Revisions :
        Follows(c, SettleThenCommit(session, c, Command("enter", <<>>, revision)))
  BY DEF Enter
<1>3. PICK s, m, e, o : /\ s = session /\ m = commands + 1 /\ e = Exact
                        /\ o = Command("enter", <<>>, revision)
  OBVIOUS
<1>4. m \in Nat /\ SessionOK(s, m) /\ ~In(c, s.writers) /\ revision \in 0..m
  BY <1>1, <1>3, BeginsTyped
<1>5. o.at = "idle" /\ o.step = "none" /\ o.mode = "none" /\ ~o.record /\ o.name = s.name
  BY <1>3, CommandFresh
<1>6. o \in CommandType(m) /\ o.kind = "enter" /\ Coherent(o)
  <2>1. /\ "enter" \in Kinds /\ <<>> \in Texts \cup {<<"k">>} /\ <<>> \in Texts
    BY NoneIsNone DEF Kinds
  <2>2. SessionOK(session, m)
    BY <1>3, <1>4
  <2> QED
    BY <1>3, <1>4, <2>1, <2>2, CommandIs
<1>7. PICK q : q = SettleThenCommit(s, c, o)
  OBVIOUS
<1>8. o.kind \in {"enter", "submit"} /\ CommandTyped(c, o, e)
  BY <1>5, <1>6 DEF CommandTyped
<1>9. Onward(s, c, o, q, m)
  BY <1>4, <1>6, <1>7, <1>8, SettleOnward
<1>10. Fit(s, c, q, e)
  BY <1>4, <1>5, <1>6, <1>7, <1>8, SettleFit
<1>11. Named(s, o, e)
  BY <1>5 DEF Named
<1>12. Follows(c, q)
  BY <1>2, <1>3, <1>7
<1>13. conn[c].at # "reply" /\ UNCHANGED <<line, outside, crossed>>
  BY <1>1, BeginsTyped
<1> QED
  BY <1>3, <1>9, <1>10, <1>11, <1>12, <1>13, PlanTyped

\* The command that writes as soon as it has begun.
LEMMA FirstTyped ==
    ASSUME NEW m \in Nat, NEW p \in CommandType(m), NEW step, NEW o, Writes(p, step, o),
           p.mode = "none", ~p.record, NEW c, NEW exact
    PROVE  /\ o.at = "write" /\ o.step = step /\ o.kind = p.kind /\ o.name = p.name
           /\ o.mode = "none" /\ CommandTyped(c, o, exact)
<1>1. step \notin {"sync", "commit"}
  BY DEF Writes
<1>2. /\ o.at = "write" /\ o.step = step /\ o.kind = p.kind /\ o.name = p.name
      /\ o.mode = p.mode /\ o.record = p.record
  BY DEF CommandType, Writes
<1> QED
  BY <1>1, <1>2 DEF CommandTyped

LEMMA InputTyped ==
    ASSUME IInv, Accepts, NEW c \in Conns, Input(c)
    PROVE  Accepts'
<1>1. Begins(c, "input")
  BY DEF Input
<1>2. PICK s, m, e, step, r, b : /\ s = session /\ m = commands + 1 /\ e = Exact
                                 /\ step = "raw" /\ r = 0 /\ b = FALSE
  OBVIOUS
<1>3. m \in Nat /\ SessionOK(s, m) /\ ~In(c, s.writers)
  BY <1>1, <1>2, BeginsTyped
<1>4. PICK p : p = Command("input", <<"k">>, r)
  OBVIOUS
<1>5. p \in CommandType(m)
  <2>1. "input" \in Kinds /\ <<"k">> \in Texts \cup {<<"k">>} /\ r \in 0..m
    BY <1>2, <1>3 DEF Kinds
  <2>2. SessionOK(session, m)
    BY <1>2, <1>3
  <2> QED
    BY <1>3, <1>4, <2>1, <2>2, CommandIs
<1>6. PICK o : o = [p EXCEPT !.at = "write", !.step = step]
  OBVIOUS
<1>7. /\ o.at = "write" /\ o.kind = "input" /\ o.mode = "none" /\ CommandTyped(c, o, e)
  <2>1. p.mode = "none" /\ ~p.record /\ p.name = s.name /\ p.kind = "input"
    BY <1>2, <1>4, CommandFresh
  <2>2. Writes(p, step, o)
    BY <1>2, <1>6, <2>1 DEF Writes
  <2> QED
    BY <1>3, <1>5, <2>1, <2>2, FirstTyped
<1>8. PICK x : x = ResetTracking(s, b)
  OBVIOUS
<1>9. Fades(s, x, c) /\ x.active = None /\ x.current = {}
  BY <1>3, <1>8, ResetFades
<1>10. SessionOK(x, m) /\ ~In(c, x.writers)
  BY <1>2, <1>3, <1>8, ResetTracks DEF Tracks
<1>11. PICK q : q = Plan(Queued(x, c), o)
  OBVIOUS
<1>12. Fit(s, c, q, e)
  BY <1>3, <1>7, <1>9, <1>10, <1>11, QueuedFit
<1>13. Named(q.session, q.command, e)
  BY <1>7, <1>11 DEF Named, Commits, Plan
<1>14. Follows(c, q)
  BY <1>2, <1>4, <1>6, <1>8, <1>11 DEF Input
<1>15. conn[c].at # "reply" /\ UNCHANGED <<line, outside, crossed>>
  BY <1>1, BeginsTyped
<1> QED
  BY <1>2, <1>12, <1>13, <1>14, <1>15, StartTyped

LEMMA ForceClearTyped ==
    ASSUME IInv, Accepts, NEW c \in Conns, ForceClear(c)
    PROVE  Accepts'
<1>1. Begins(c, "clear")
  BY DEF ForceClear
<1>2. PICK s, m, e, step, r : /\ s = session /\ m = commands + 1 /\ e = Exact
                              /\ step = "clear" /\ r = NewRevision
  OBVIOUS
<1>3. m \in Nat /\ SessionOK(s, m) /\ ~In(c, s.writers) /\ r \in 0..m
  BY <1>1, <1>2, BeginsTyped
<1>4. PICK p : p = Command("clear", <<>>, r)
  OBVIOUS
<1>5. p \in CommandType(m)
  <2>1. "clear" \in Kinds /\ <<>> \in Texts \cup {<<"k">>}
    BY NoneIsNone DEF Kinds
  <2>2. SessionOK(session, m)
    BY <1>2, <1>3
  <2> QED
    BY <1>3, <1>4, <2>1, <2>2, CommandIs
<1>6. PICK o : o = [p EXCEPT !.at = "write", !.step = step]
  OBVIOUS
<1>7. /\ o.at = "write" /\ o.mode = "none" /\ o.name = s.name /\ CommandTyped(c, o, e)
  <2>1. p.mode = "none" /\ ~p.record /\ p.name = s.name /\ p.kind = "clear"
    BY <1>2, <1>4, CommandFresh
  <2>2. Writes(p, step, o)
    BY <1>2, <1>6, <2>1 DEF Writes
  <2> QED
    BY <1>2, <1>3, <1>5, <2>1, <2>2, FirstTyped
<1>8. PICK x, y : x = InvalidateActive(s) /\ y = Queued(x, c)
  OBVIOUS
<1>9. Fades(s, x, c) /\ x.active = None /\ x.current = {}
  BY <1>3, <1>8, InvalidateFades, InvalidateTracks
<1>10. SessionOK(x, m) /\ ~In(c, x.writers)
  BY <1>3, <1>8, InvalidateTracks DEF Tracks
<1>11. PICK q : q = Plan(y, o)
  OBVIOUS
<1>12. Fit(s, c, q, e)
  BY <1>3, <1>7, <1>8, <1>9, <1>10, <1>11, QueuedFit
<1>13. Named(q.session, q.command, e)
  <2>1. y.name = s.name
    BY <1>3, <1>8, <1>9, <1>10, QueuedOK DEF Fades
  <2> QED
    BY <1>7, <1>11, <2>1 DEF Named, Plan
<1>14. Follows(c, q)
  BY <1>2, <1>4, <1>6, <1>8, <1>11 DEF ForceClear
<1>15. conn[c].at # "reply" /\ UNCHANGED <<line, outside, crossed>>
  BY <1>1, BeginsTyped
<1> QED
  BY <1>2, <1>12, <1>13, <1>14, <1>15, StartTyped

LEMMA RenameTyped ==
    ASSUME IInv, Accepts, NEW c \in Conns, Rename(c)
    PROVE  Accepts'
<1>1. Begins(c, "rename")
  BY DEF Rename
<1>2. PICK s, m, e, step, r : /\ s = session /\ m = commands + 1 /\ e = Exact
                              /\ step = "rename" /\ r = 0
  OBVIOUS
<1>3. m \in Nat /\ SessionOK(s, m) /\ ~In(c, s.writers) /\ r \in 0..m
  BY <1>1, <1>2, BeginsTyped
<1>4. PICK p : p = Command("rename", <<>>, r)
  OBVIOUS
<1>5. p \in CommandType(m)
  <2>1. "rename" \in Kinds /\ <<>> \in Texts \cup {<<"k">>}
    BY NoneIsNone DEF Kinds
  <2>2. SessionOK(session, m)
    BY <1>2, <1>3
  <2> QED
    BY <1>3, <1>4, <2>1, <2>2, CommandIs
<1>6. PICK o : o = [p EXCEPT !.at = "write", !.step = step]
  OBVIOUS
<1>7. /\ o.at = "write" /\ o.mode = "none" /\ o.step = step /\ o.kind = "rename"
      /\ CommandTyped(c, o, e)
  <2>1. p.mode = "none" /\ ~p.record /\ p.name = s.name /\ p.kind = "rename"
    BY <1>2, <1>4, CommandFresh
  <2>2. Writes(p, step, o)
    BY <1>2, <1>6, <2>1 DEF Writes
  <2> QED
    BY <1>2, <1>3, <1>5, <2>1, <2>2, FirstTyped
<1>8. ~Unowned(o) /\ Fades(s, s, c)
  BY <1>2, <1>7, SameQueueFades DEF Unowned
<1>9. PICK q : q = Plan(Queued(s, c), o)
  OBVIOUS
<1>10. Fit(s, c, q, e)
  BY <1>3, <1>7, <1>8, <1>9, QueuedFit
<1>11. Named(q.session, q.command, e)
  BY <1>7, <1>9 DEF Named, Commits, Plan
<1>12. Follows(c, q)
  BY <1>2, <1>4, <1>6, <1>9 DEF Rename
<1>13. conn[c].at # "reply" /\ UNCHANGED <<line, outside, crossed>>
  BY <1>1, BeginsTyped
<1> QED
  BY <1>2, <1>10, <1>11, <1>12, <1>13, StartTyped

LEMMA SubmitTyped ==
    ASSUME IInv, Accepts, NEW c \in Conns, Submit(c)
    PROVE  Accepts'
<1>1. Begins(c, "submit")
  BY DEF Submit
<1>2. PICK request \in Requests \ acked :
        Follows(c, Plan([session EXCEPT !.submitters = Append(@, c)],
                        [Command("submit", TextOf[request], NewRevision)
                            EXCEPT !.at = "submission", !.request = request]))
  BY DEF Submit
<1>3. PICK s, m, e, r : s = session /\ m = commands + 1 /\ e = Exact /\ r = NewRevision
  OBVIOUS
<1>4. m \in Nat /\ SessionOK(s, m) /\ r \in 0..m
  BY <1>1, <1>3, BeginsTyped
<1>5. PICK p : p = Command("submit", TextOf[request], r)
  OBVIOUS
<1>6. p \in CommandType(m)
  <2>1. "submit" \in Kinds /\ TextOf[request] \in Texts \cup {<<"k">>}
    BY NoneIsNone DEF Kinds
  <2>2. SessionOK(session, m)
    BY <1>3, <1>4
  <2> QED
    BY <1>4, <1>5, <2>1, <2>2, CommandIs
<1>7. PICK o : o = [p EXCEPT !.at = "submission", !.request = request]
  OBVIOUS
<1>8. /\ o.at = "submission" /\ o.name = s.name /\ CommandTyped(c, o, e)
  <2>1. p.step = "none" /\ p.mode = "none" /\ ~p.record /\ p.name = s.name
    BY <1>3, <1>5, CommandFresh
  <2>2. /\ o.at = "submission" /\ o.step = p.step /\ o.mode = p.mode /\ o.record = p.record
        /\ o.name = p.name
    BY <1>6, <1>7 DEF CommandType
  <2> QED
    BY <2>1, <2>2 DEF CommandTyped
<1>9. PICK y : y = [s EXCEPT !.submitters = Append(@, c)]
  OBVIOUS
<1>10. Fades(s, y, c) /\ y.name = s.name
  <2>1. /\ y.name = s.name /\ y.accepted = s.accepted /\ y.active = s.active
        /\ y.current = s.current /\ y.writers = s.writers
    BY <1>4, <1>9 DEF SessionOK, SessionType
  <2> QED
    BY <2>1, SameQueueFades
<1>11. PICK q : q = Plan(y, o)
  OBVIOUS
<1>12. Fit(s, c, q, e)
  BY <1>8, <1>10, <1>11 DEF Fit, Plan, Holds, Starting, Writing
<1>13. Named(q.session, q.command, e)
  BY <1>8, <1>10, <1>11 DEF Named, Plan
<1>14. Follows(c, q)
  BY <1>2, <1>3, <1>5, <1>7, <1>9, <1>11
<1>15. conn[c].at # "reply" /\ UNCHANGED <<line, outside, crossed>>
  BY <1>1, BeginsTyped
<1> QED
  BY <1>3, <1>12, <1>13, <1>14, <1>15, StartTyped

-----------------------------------------------------------------------------
(* The steps of a command that waits, or holds the lock *)

LEMMA NextSound ==
    ASSUME NEW t, NEW g, NEW cells, NEW e, t = session', g = conn', cells = line',
           e = Exact', TInv(t, g, cells, e)
    PROVE  Accepts'
BY DEF Accepts

\* What is known of a command that does not hold the lock.
LEMMA Waiting ==
    ASSUME NEW s, NEW f, NEW n, NEW cells, NEW e, Sound(s, f, n, cells, e), NEW c \in Conns,
           NEW o, o = f[c]
    PROVE  /\ o \in CommandType(n) /\ CommandOK(o) /\ Coherent(o)
           /\ CommandTyped(c, o, e) /\ Named(s, o, e)
           /\ o.at \in Writing <=> In(c, s.writers)
           /\ ~Holds(o) => ~o.record
           /\ StepTyped(s, c, o, cells, e)
<1>1. CommandTyped(c, o, e) /\ Named(s, o, e) /\ StepTyped(s, c, o, cells, e)
  BY DEF Sound, TInv
<1>2. o \in CommandType(n) /\ CommandOK(o) /\ Coherent(o) /\ (o.at \in Writing <=> In(c, s.writers))
  BY DEF Sound, LocksOK, CommandOK
<1> QED
  BY <1>1, <1>2 DEF CommandTyped

LEMMA FenceAwaitedTyped ==
    ASSUME IInv, Accepts, NEW c \in Conns, FenceAwaited(c)
    PROVE  Accepts'
<1>1. PICK s, f, n, cells, e, o : /\ s = session /\ f = conn /\ n = commands
                                  /\ cells = line /\ e = Exact /\ o = f[c]
  OBVIOUS
<1>2. Sound(s, f, n, cells, e)
  BY <1>1, SoundNow
<1>3. n \in Nat /\ SessionOK(s, n)
  BY <1>2 DEF Sound
<1>4. o.at = "fence" /\ Follows(c, PlanCommit(s, c, o)) /\ UNCHANGED <<line, outside, crossed>>
  BY <1>1 DEF FenceAwaited, ghosts
<1>5. /\ o \in CommandType(n) /\ CommandOK(o) /\ Coherent(o) /\ Named(s, o, e)
      /\ ~o.record /\ ~In(c, s.writers)
  BY <1>1, <1>2, <1>4, Waiting DEF Holds, Writing
<1>6. o.kind \in {"enter", "submit"}
  BY <1>4, <1>5 DEF CommandOK
<1>7. PICK q : q = PlanCommit(s, c, o)
  OBVIOUS
<1>8. Onward(s, c, o, q, n)
  BY <1>3, <1>5, <1>6, <1>7, PlanCommitOnward
<1>9. Fit(s, c, q, e)
  BY <1>3, <1>5, <1>7, PlanCommitFit
<1>10. Follows(c, q) /\ conn[c].at # "reply"
  BY <1>1, <1>4, <1>7
<1> QED
  BY <1>1, <1>4, <1>5, <1>8, <1>9, <1>10, PlanTyped

LEMMA EnterSubmissionTyped ==
    ASSUME IInv, Accepts, NEW c \in Conns, EnterSubmission(c)
    PROVE  Accepts'
<1>1. PICK s, f, n, cells, e, o : /\ s = session /\ f = conn /\ n = commands
                                  /\ cells = line /\ e = Exact /\ o = f[c]
  OBVIOUS
<1>2. Sound(s, f, n, cells, e)
  BY <1>1, SoundNow
<1>3. n \in Nat /\ SessionOK(s, n)
  BY <1>2 DEF Sound
<1>4. o.at = "submission" /\ UNCHANGED <<line, outside, crossed>>
  BY <1>1 DEF EnterSubmission
<1>5. \/ Follows(c, Done([s EXCEPT !.submitters = Tail(@)], c))
      \/ Follows(c, PlanSync(s, c, o, FALSE))
  BY <1>1 DEF EnterSubmission
<1>6. /\ o \in CommandType(n) /\ CommandOK(o) /\ Coherent(o) /\ Named(s, o, e)
      /\ ~o.record /\ ~In(c, s.writers)
  BY <1>1, <1>2, <1>4, Waiting DEF Holds, Writing
<1>7. conn[c].at # "reply"
  BY <1>1, <1>4
<1>8. CASE Follows(c, Done([s EXCEPT !.submitters = Tail(@)], c))
  <2>1. PICK u, t : u = [s EXCEPT !.submitters = Tail(@)] /\ t = [u EXCEPT !.current = @ \ {c}]
    OBVIOUS
  <2>2. /\ t.name = s.name /\ t.accepted = s.accepted /\ t.active = s.active
        /\ t.current = s.current \ {c} /\ t.writers = s.writers
    BY <1>3, <2>1 DEF SessionOK, SessionType
  <2>3. Fades(s, t, c)
    BY <2>2, SameQueueFades
  <2>4. PICK q : q = Done(u, c)
    OBVIOUS
  <2>5. q.session = t /\ q.command = NoCommand
    BY <2>1, <2>4 DEF Done, Plan
  <2>6. Fit(s, c, q, e)
    BY <2>3, <2>5, NoCommandTyped DEF Fit
  <2>7. Named(q.session, q.command, e)
    BY <2>5 DEF Named, Commits, NoCommand
  <2>8. Follows(c, q)
    BY <1>8, <2>1, <2>4
  <2> QED
    BY <1>1, <1>4, <1>7, <2>6, <2>7, <2>8, StartTyped
<1>9. CASE Follows(c, PlanSync(s, c, o, FALSE))
  <2>1. PICK b, q : b = FALSE /\ q = PlanSync(s, c, o, b)
    OBVIOUS
  <2>2. b \in BOOLEAN /\ o.kind \in {"sync", "submit"} /\ o.text \in Texts /\ o.at # "seed"
    BY <1>4, <1>6, <2>1 DEF CommandOK, Coherent
  <2>3. Onward(s, c, o, q, n)
    BY <1>3, <1>6, <2>1, <2>2, PlanSyncOnward
  <2>4. Fit(s, c, q, e)
    BY <1>3, <1>6, <2>1, <2>2, PlanSyncFit
  <2>5. Follows(c, q)
    BY <1>9, <2>1
  <2> QED
    BY <1>1, <1>4, <1>6, <1>7, <2>3, <2>4, <2>5, PlanTyped
<1> QED
  BY <1>5, <1>8, <1>9

LEMMA TakeSeedLockTyped ==
    ASSUME IInv, Accepts, NEW c \in Conns, TakeSeedLock(c)
    PROVE  Accepts'
<1>1. PICK s, f, n, cells, e, o : /\ s = session /\ f = conn /\ n = commands
                                  /\ cells = line /\ e = Exact /\ o = f[c]
  OBVIOUS
<1>2. PICK t, g, p : t = Queued(s, c) /\ g = conn' /\ p = [o EXCEPT !.at = "write"]
  OBVIOUS
<1>3. Sound(s, f, n, cells, e)
  BY <1>1, SoundNow
<1>4. n \in Nat /\ SessionOK(s, n) /\ f \in [Conns -> CommandType(n)]
  BY <1>3 DEF Sound
<1>5. /\ o.at = "seed" /\ t = session' /\ g = [f EXCEPT ![c] = p]
      /\ UNCHANGED <<line, outside, crossed>>
  BY <1>1, <1>2 DEF TakeSeedLock, Follows, Plan, ghosts
<1>6. /\ o \in CommandType(n) /\ CommandTyped(c, o, e) /\ Named(s, o, e)
      /\ ~o.record /\ ~In(c, s.writers)
  BY <1>1, <1>3, <1>5, Waiting DEF Holds, Writing
<1>7. /\ p.at = "write" /\ p.step = o.step /\ p.mode = o.mode /\ p.from = o.from
      /\ p.active = o.active /\ p.record = o.record /\ p.kind = o.kind /\ p.name = o.name
  BY <1>2, <1>6 DEF CommandType
<1>8. CommandTyped(c, p, e) /\ ~Unowned(p) /\ ~Holds(p)
  BY <1>5, <1>6, <1>7 DEF CommandTyped, Unowned, Holds
<1>9. Fades(s, t, c) /\ \A d \in Conns \ {c} : Before(t.writers, d, c)
  BY <1>2, <1>4, <1>6, QueuedFades
<1>10. Named(t, p, e)
  BY <1>6, <1>7, <1>9 DEF Named, Fades
<1>11. g[c] = p /\ (\A d \in Conns \ {c} : g[d] = f[d]) /\ f[c].at # "reply"
  BY <1>1, <1>4, <1>5
<1>12. TInv(t, g, cells, e)
  <2>1. TInv(s, f, cells, e) /\ Queues(s, f) /\ s.current \subseteq Conns
    BY <1>3 DEF Sound
  <2> QED
    BY <1>8, <1>9, <1>10, <1>11, <2>1, TypedOn
<1>13. cells = line' /\ e = Exact'
  BY <1>1, <1>5 DEF Exact
<1> QED
  BY <1>2, <1>5, <1>12, <1>13, NextSound

\* The holder of the lock moves on, nobody else has captured or typed anything.
LEMMA HolderTyped ==
    ASSUME NEW s, NEW f, NEW g, NEW cells, NEW after, NEW exact, NEW c \in Conns, NEW p,
           TInv(s, f, cells, exact), s.current \subseteq Conns, Head(s.writers) = c,
           g[c] = p, \A d \in Conns \ {c} : g[d] = f[d],
           Starting(p) => Starting(f[c]),
           p.at \in Writing /\ Unowned(p) => f[c].at \in Writing /\ Unowned(f[c]),
           CommandTyped(c, p, exact), StepTyped(s, c, p, after, exact), Named(s, p, exact),
           Unwritten(g) => ActiveStood(s.active, after, exact)
    PROVE  TInv(s, g, after, exact)
<1>1. \A d \in Conns : ComesFirst(s, f, d) => ComesFirst(s, g, d)
  <2>1. \A d \in Conns : Starting(g[d]) => Starting(f[d])
    OBVIOUS
  <2> SUFFICES ASSUME NEW d \in Conns, ComesFirst(s, f, d), g[d].at \in Writing, Unowned(g[d])
               PROVE  /\ s.active = None
                      /\ \A x \in s.current : Starting(g[x]) => Before(s.writers, d, x)
    BY DEF ComesFirst
  <2>2. f[d].at \in Writing /\ Unowned(f[d])
    OBVIOUS
  <2>3. /\ s.active = None
        /\ \A x \in s.current : Starting(f[x]) => Before(s.writers, d, x)
    BY <2>2 DEF ComesFirst
  <2> QED
    BY <2>1, <2>3
<1>2. ASSUME NEW d \in Conns \ {c}
      PROVE  /\ CommandTyped(d, g[d], exact) /\ HasLock(s, g, d)
             /\ StepTyped(s, d, g[d], after, exact) /\ Named(s, g[d], exact)
  <2>1. /\ CommandTyped(d, f[d], exact) /\ HasLock(s, f, d) /\ Named(s, f[d], exact)
    BY DEF TInv
  <2>2. ~Holds(f[d])
    BY <2>1 DEF HasLock
  <2> QED
    BY <2>1, <2>2 DEF HasLock, StepTyped, Holds
<1>3. HasLock(s, g, c)
  BY DEF HasLock
<1>4. \A d \in Conns : /\ CommandTyped(d, g[d], exact) /\ ComesFirst(s, g, d)
                       /\ HasLock(s, g, d) /\ StepTyped(s, d, g[d], after, exact)
                       /\ Named(s, g[d], exact)
  <2>1. \A d \in Conns : ComesFirst(s, f, d)
    BY DEF TInv
  <2> QED
    BY <1>1, <1>2, <1>3, <2>1
<1> QED
  BY <1>4 DEF TInv

LEMMA CaptureTyped ==
    ASSUME IInv, Accepts, NEW c \in Conns, Capture(c)
    PROVE  Accepts'
<1>1. PICK s, f, n, cells, e, o : /\ s = session /\ f = conn /\ n = commands
                                  /\ cells = line /\ e = Exact /\ o = f[c]
  OBVIOUS
<1>2. Sound(s, f, n, cells, e) /\ cells \in Seq(Cell)
  BY <1>1, SoundNow
<1>3. f \in [Conns -> CommandType(n)] /\ TInv(s, f, cells, e) /\ s.current \subseteq Conns
  BY <1>2 DEF Sound
<1>4. /\ o.at = "write" /\ Head(s.writers) = c /\ Captures(o)
      /\ session' = s /\ UNCHANGED <<line, outside, crossed>>
  BY <1>1 DEF Capture, HoldsWriteLock, ghosts
<1>5. PICK got \in IF o.mode = "start" \/ AsFenced(c, o) THEN BOOLEAN ELSE {FALSE} :
        conn' = [conn EXCEPT
                    ![c].at = "send",
                    ![c].record = got /\ o.mode = "accept",
                    ![c].start = IF got /\ o.mode = "start" THEN Len(line) ELSE NoStart]
  BY <1>1 DEF Capture
<1>6. /\ o \in CommandType(n) /\ Coherent(o) /\ CommandTyped(c, o, e) /\ Named(s, o, e)
      /\ ~o.record
  BY <1>1, <1>2, <1>4, Waiting DEF Holds
<1>7. PICK b, k : /\ b = (got /\ o.mode = "accept")
                  /\ k = IF got /\ o.mode = "start" THEN Len(cells) ELSE NoStart
  OBVIOUS
<1>8. PICK g, p : g = conn' /\ p = [o EXCEPT !.at = "send", !.record = b, !.start = k]
  OBVIOUS
<1>9. g = [f EXCEPT ![c] = p]
  <2>1. g = [f EXCEPT ![c].at = "send", ![c].record = b, ![c].start = k]
    BY <1>1, <1>5, <1>7, <1>8
  <2> QED
    BY <1>1, <1>3, <1>8, <2>1 DEF CommandType
<1>10. /\ p.at = "send" /\ p.step = o.step /\ p.mode = o.mode /\ p.from = o.from
       /\ p.active = o.active /\ p.record = b /\ p.kind = o.kind /\ p.name = o.name
       /\ p.start = k
  BY <1>6, <1>8 DEF CommandType
<1>11. b => o.mode = "accept" /\ CellsTyped(o.active, e)
  <2> SUFFICES ASSUME b PROVE o.mode = "accept" /\ CellsTyped(o.active, e)
    OBVIOUS
  <2>1. o.mode = "accept" /\ AsFenced(c, o)
    BY <1>5, <1>7
  <2>2. o.active.settled /\ s.active = o.active /\ o.active # None
    BY <1>1, <1>6, <2>1 DEF AsFenced, Coherent
  <2>3. ActiveTyped(s.active, e)
    BY <1>3 DEF TInv
  <2> QED
    BY <2>1, <2>2, <2>3 DEF ActiveTyped
<1>12. CommandTyped(c, p, e)
  BY <1>6, <1>10, <1>11 DEF CommandTyped, Holds
<1>13. StepTyped(s, c, p, cells, e)
  <2> SUFFICES ASSUME p.mode = "start", p.start # NoStart
               PROVE  /\ p.start <= Len(cells) /\ TypedBy(cells, p.start, Tmux)
                      /\ e => p.start = Len(cells)
    BY <1>10 DEF StepTyped
  <2>1. p.start = Len(cells) /\ Len(cells) \in Nat
    BY <1>2, <1>7, <1>10
  <2> QED
    BY <2>1 DEF TypedBy
<1>14. Named(s, p, e) /\ (Starting(p) => Starting(o)) /\ (Unowned(p) => Unowned(o))
       /\ o.at \in Writing
  BY <1>4, <1>6, <1>10 DEF Named, Starting, Unowned, Writing
<1>15. g[c] = p /\ (\A d \in Conns \ {c} : g[d] = f[d])
  BY <1>3, <1>9
<1>16. Unwritten(g) => ActiveStood(s.active, cells, e)
  <2>1. Unwritten(g) => Unwritten(f)
    BY <1>1, <1>4, <1>15 DEF Unwritten
  <2> QED
    BY <1>3, <2>1 DEF TInv
<1>17. TInv(s, g, cells, e)
  BY <1>1, <1>3, <1>4, <1>12, <1>13, <1>14, <1>15, <1>16, HolderTyped
<1>18. s = session' /\ cells = line' /\ e = Exact'
  BY <1>1, <1>4 DEF Exact
<1> QED
  BY <1>8, <1>17, <1>18, NextSound

\* A start knows that the command line was empty, a continuation that the draft
\* it edits stands on it.
LEMMA DeliverTyped ==
    ASSUME IInv, Accepts, NEW c \in Conns, Deliver(c)
    PROVE  Accepts'
<1>1. PICK s, f, n, cells, e, o : /\ s = session /\ f = conn /\ n = commands
                                  /\ cells = line /\ e = Exact /\ o = f[c]
  OBVIOUS
<1>2. Sound(s, f, n, cells, e) /\ cells \in Seq(Cell) /\ e \in BOOLEAN
  BY <1>1, SoundNow
<1>3. f \in [Conns -> CommandType(n)] /\ TInv(s, f, cells, e) /\ s.current \subseteq Conns
  BY <1>2 DEF Sound
<1>4. /\ o.at \in {"write", "send"} /\ (Captures(o) => o.at = "send")
      /\ Head(s.writers) = c /\ line' = LineAfter(o, c)
      /\ session' = s /\ conn' = [f EXCEPT ![c].at = "reply"] /\ UNCHANGED <<outside, crossed>>
  BY <1>1 DEF Deliver, HoldsWriteLock
<1>5. /\ o \in CommandType(n) /\ Coherent(o) /\ CommandTyped(c, o, e) /\ Named(s, o, e)
      /\ StepTyped(s, c, o, cells, e) /\ o.at \in Writing
  BY <1>1, <1>2, <1>4, Waiting DEF Writing
<1>6. PICK g, p, after : g = conn' /\ p = [o EXCEPT !.at = "reply"] /\ after = line'
  OBVIOUS
<1>7. /\ p.at = "reply" /\ p.step = o.step /\ p.mode = o.mode /\ p.from = o.from
      /\ p.active = o.active /\ p.record = o.record /\ p.kind = o.kind /\ p.name = o.name
      /\ p.start = o.start /\ p.text = o.text
  BY <1>5, <1>6 DEF CommandType
<1>8. g = [f EXCEPT ![c] = p]
  BY <1>1, <1>3, <1>4, <1>6
<1>9. CommandTyped(c, p, e)
  BY <1>5, <1>7 DEF CommandTyped, Holds
\* The keys of a draft that stands behind start.
<1>10. ASSUME NEW start \in Nat, NEW from \in Seq(Character), from = o.from,
              o.step = "sync", o.text \in Texts, Stood(cells, c, start, from, e)
       PROVE  Stood(after, c, start, o.text, e)
  <2>1. PICK to \in Seq(Character) : to = o.text
    BY <1>10, NoneIsNone
  <2>2. after = Edited(cells, from, to, c)
    BY <1>1, <1>4, <1>6, <1>10, <2>1 DEF LineAfter
  <2>3. Stood(Edited(cells, from, to, c), c, start, to, e)
    BY <1>2, <1>10, EditedStood
  <2> QED
    BY <2>1, <2>2, <2>3
<1>11. o.mode \in {"start", "continue"} => o.step = "sync" /\ o.text \in Texts /\ o.from \in Seq(Character)
  <2> SUFFICES ASSUME o.mode \in {"start", "continue"}
               PROVE  o.step = "sync" /\ o.text \in Texts /\ o.from \in Seq(Character)
    OBVIOUS
  <2>1. o.step = "sync"
    BY <1>5 DEF CommandTyped
  <2>2. o.kind # "input"
    <3>1. CommandOK(o)
      BY <1>1, <1>2 DEF Sound, LocksOK
    <3> QED
      BY <1>4, <2>1, <3>1 DEF CommandOK, Suits
  <2> QED
    BY <1>5, <2>1, <2>2, NoneIsNone DEF Coherent, CommandType
<1>12. ASSUME o.mode = "start", o.start # NoStart PROVE Stood(after, c, o.start, o.text, e)
  <2>1. PICK start, from : start = o.start /\ from = o.from
    OBVIOUS
  <2>2. start \in Nat /\ from = <<>> /\ Len(from) = 0
    BY <1>5, <1>12, <2>1 DEF CommandType, CommandTyped
  <2>3. /\ start <= Len(cells) /\ TypedBy(cells, start, Tmux)
        /\ e => start = Len(cells)
    BY <1>4, <1>5, <1>12, <2>1 DEF Captures, StepTyped
  <2>4. TypedBy(cells, start, c)
    BY <2>3 DEF TypedBy
  <2>5. e => Stands(cells, start, from)
    BY <2>2, <2>3 DEF Stands
  <2>6. Stood(cells, c, start, from, e)
    BY <2>2, <2>3, <2>4, <2>5 DEF Stood
  <2>7. from \in Seq(Character) /\ o.step = "sync" /\ o.text \in Texts
    BY <1>11, <1>12, <2>1
  <2> QED
    BY <1>10, <2>1, <2>2, <2>6, <2>7
<1>13. ASSUME o.mode = "continue", s.active = o.active
       PROVE  Stood(after, c, o.active.start, o.text, e)
  <2>1. PICK start, from : start = o.active.start /\ from = o.from
    OBVIOUS
  <2>2. o.active # None /\ o.active \in ActiveType /\ start \in Nat
    BY <1>5, <1>13, <2>1 DEF CommandType, Coherent, ActiveType
  <2>3. Unwritten(f)
    <3>1. \A d \in Conns \ {c} : HasLock(s, f, d)
      BY <1>3 DEF TInv
    <3> QED
      BY <1>1, <1>4, <3>1 DEF HasLock, Holds, Unwritten
  <2>4. ActiveStood(s.active, cells, e)
    BY <1>3, <2>3 DEF TInv
  <2>5. o.active.owner = c /\ from = o.active.draft
    BY <1>5, <1>13, <2>1 DEF CommandTyped
  <2>6. Stood(cells, c, start, from, e)
    BY <1>13, <2>1, <2>2, <2>4, <2>5 DEF ActiveStood
  <2>7. from \in Seq(Character) /\ o.step = "sync" /\ o.text \in Texts
    BY <1>11, <1>13, <2>1
  <2> QED
    BY <1>10, <2>1, <2>2, <2>6, <2>7
<1>14. ASSUME o.step = "commit" PROVE TypedBy(after, 0, Tmux)
  <2>1. after = <<>>
    BY <1>1, <1>4, <1>6, <1>14 DEF LineAfter
  <2> QED
    BY <2>1 DEF TypedBy
<1>15. StepTyped(s, c, p, after, e)
  BY <1>7, <1>12, <1>13, <1>14 DEF StepTyped
<1>16. /\ Named(s, p, e) /\ (Starting(p) => Starting(o)) /\ (Unowned(p) => Unowned(o))
  BY <1>5, <1>7 DEF Named, Starting, Unowned
<1>17. g[c] = p /\ (\A d \in Conns \ {c} : g[d] = f[d])
  BY <1>3, <1>8
<1>18. ~Unwritten(g)
  BY <1>7, <1>17 DEF Unwritten
<1>19. TInv(s, g, after, e)
  BY <1>1, <1>3, <1>4, <1>5, <1>9, <1>15, <1>16, <1>17, <1>18, HolderTyped
<1>20. s = session' /\ e = Exact'
  BY <1>1, <1>4 DEF Exact
<1> QED
  BY <1>6, <1>19, <1>20, NextSound

-----------------------------------------------------------------------------
(* Only tracking moves *)

\* A step that moves nothing but tracking.
LEMMA TrackingTyped ==
    ASSUME IInv, Accepts, Fades(session, session', Fence),
           session'.current \subseteq session.current, UNCHANGED <<line, conn, outside, crossed>>
    PROVE  Accepts'
<1>1. PICK s, f, n, cells, e, t : /\ s = session /\ f = conn /\ n = commands
                                  /\ cells = line /\ e = Exact /\ t = session'
  OBVIOUS
<1>2. Sound(s, f, n, cells, e)
  BY <1>1, SoundNow
<1>3. Fades(s, t, Fence) /\ t.current \subseteq s.current
  BY <1>1
<1>4. TInv(t, f, cells, e)
  BY <1>2, <1>3, TypedFades DEF Sound
<1>5. f = conn' /\ cells = line' /\ e = Exact'
  BY <1>1 DEF Exact
<1> QED
  BY <1>1, <1>4, <1>5, NextSound

LEMMA GiveUpFenceTyped ==
    ASSUME IInv, Accepts, GiveUpFence
    PROVE  Accepts'
<1>1. PICK s, n : s = session /\ n = commands
  OBVIOUS
<1>2. SessionOK(s, n)
  BY <1>1 DEF IInv, RecordsOK
<1>3. session' = CancelFence(s) /\ UNCHANGED <<line, conn, outside, crossed>>
  BY <1>1 DEF GiveUpFence, ghosts
<1>4. Fades(s, CancelFence(s), Fence) /\ CancelFence(s).current = s.current
  BY <1>2, CancelFades
<1> QED
  BY <1>1, <1>3, <1>4, TrackingTyped

LEMMA InvalidatedTyped ==
    ASSUME IInv, Accepts, session' \in {session, InvalidateActive(session)},
           UNCHANGED <<line, conn, outside, crossed>>
    PROVE  Accepts'
<1>1. PICK s, n : s = session /\ n = commands
  OBVIOUS
<1>2. SessionOK(s, n) /\ n \in Nat
  BY <1>1 DEF IInv, RecordsOK
<1>3. Fades(s, InvalidateActive(s), Fence) /\ InvalidateActive(s).current = {}
  BY <1>2, InvalidateFades
<1>4. Fades(s, s, Fence)
  BY SameQueueFades
<1>5. Fades(s, session', Fence) /\ session'.current \subseteq s.current
  BY <1>1, <1>3, <1>4
<1> QED
  BY <1>1, <1>5, TrackingTyped

LEMMA QueueFenceTyped ==
    ASSUME IInv, Accepts, QueueFence
    PROVE  Accepts'
<1>1. PICK s, n, u, w : /\ s = session /\ n = commands /\ u = session'
                        /\ w = Append(s.writers, Fence)
  OBVIOUS
<1>2. SessionOK(s, n) /\ s.fence = "waiting"
  BY <1>1 DEF IInv, RecordsOK, QueueFence
<1>3. /\ s \in SessionType(n) /\ s.writers \in Seq(Conns \cup {Fence})
      /\ ~In(Fence, s.writers)
  BY <1>2 DEF SessionOK, SessionType
<1>4. u = [s EXCEPT !.writers = w, !.fence = "queued"]
  BY <1>1, <1>3 DEF QueueFence, Queued, SessionType
<1>5. /\ u.name = s.name /\ u.accepted = s.accepted /\ u.active = s.active
      /\ u.current = s.current /\ u.writers = w
  BY <1>3, <1>4 DEF SessionType
<1>6. PICK q, x : q = s.writers /\ x = Fence
  OBVIOUS
<1>7. q \in Seq(Conns \cup {x}) /\ x \in Conns \cup {x} /\ ~In(x, q)
  BY <1>3, <1>6
<1>8. /\ \A a, b : a # x /\ b # x /\ Before(q, a, b) => Before(Append(q, x), a, b)
      /\ Held(q, Append(q, x))
  BY <1>7, QueuedBehind
<1>9. Ordered(q, w, x) /\ Held(q, w)
  BY <1>1, <1>6, <1>8, NoneIsNone DEF Ordered
<1>10. Fades(s, u, Fence)
  BY <1>5, <1>6, <1>9 DEF Fades
<1>11. UNCHANGED <<line, conn, outside, crossed>>
  BY DEF QueueFence, ghosts
<1> QED
  BY <1>1, <1>5, <1>10, <1>11, TrackingTyped

LEMMA ResetDraftTyped ==
    ASSUME IInv, Accepts, NEW c \in Conns, ResetDraft(c)
    PROVE  Accepts'
<1>1. PICK s, n, k, b : s = session /\ n = commands + 1 /\ k = NewRevision /\ b = FALSE
  OBVIOUS
<1>2. /\ session' = ResetTracking(Later(s, k), b)
      /\ UNCHANGED <<line, conn, outside, crossed>>
  BY <1>1 DEF ResetDraft
<1>3. n \in Nat /\ SessionOK(s, n) /\ k \in 0..n
  <2>1. PICK m : m = commands
    OBVIOUS
  <2>2. m \in Nat /\ SessionOK(s, m)
    BY <1>1, <2>1 DEF IInv, RecordsOK
  <2>3. n = m + 1 /\ m + 1 \in Nat /\ SessionOK(s, m + 1)
    BY <1>1, <2>1, <2>2, SessionLater
  <2>4. s.revision \in 0..m
    BY <2>2 DEF SessionOK, SessionType
  <2>5. k = s.revision + 1
    BY <1>1 DEF NewRevision
  <2> QED
    BY <2>2, <2>3, <2>4, <2>5
<1>4. PICK u, t : u = Later(s, k) /\ t = ResetTracking(u, b)
  OBVIOUS
<1>5. Fades(s, u, Fence) /\ SessionOK(u, n)
  <2>1. Fades(s, u, Fence)
    BY <1>3, <1>4, LaterFades
  <2>2. Tracks(s, u, n)
    BY <1>3, <1>4, LaterTracks
  <2> QED
    BY <2>1, <2>2 DEF Tracks
<1>6. Fades(u, t, Fence) /\ t.current = {}
  BY <1>3, <1>4, <1>5, ResetFades
<1>7. Fades(s, t, Fence)
  BY <1>5, <1>6, FadesOn
<1> QED
  BY <1>1, <1>2, <1>4, <1>6, <1>7, TrackingTyped

\* Somebody types in another tmux client: the cells may show what nobody sent.
LEMMA TypeInTmuxTyped ==
    ASSUME IInv, Accepts, TypeInTmux
    PROVE  Accepts'
<1>1. PICK s, f, n, cells, e, after, less :
         /\ s = session /\ f = conn /\ n = commands /\ cells = line /\ e = Exact
         /\ after = line' /\ less = Exact'
  OBVIOUS
<1>2. Sound(s, f, n, cells, e) /\ cells \in Seq(Cell) /\ e \in BOOLEAN
  BY <1>1, SoundNow
<1>3. /\ session' = s /\ conn' = f /\ ~less
      /\ after = cells \o Typed(<<"x">>, Tmux)
  BY <1>1 DEF TypeInTmux, Exact
<1>4. PICK text, by : text = <<"x">> /\ by = Tmux
  OBVIOUS
<1>5. text \in Seq(Character) /\ by \in Conns \cup {Tmux} /\ Len(text) = 1
  <2>1. "x" \in Character
    BY DEF Character
  <2>2. <<"x">> \in Seq(Character)
    BY <2>1
  <2> QED
    BY <1>4, <2>2
<1>6. PICK l \in Nat, m \in Nat : l = Len(cells) /\ m = Len(after)
  <2>1. after \in Seq(Cell)
    BY <1>2, <1>3, <1>4, <1>5, TypedOnEnd
  <2> QED
    BY <1>2, <2>1
<1>7. /\ m = l + 1
      /\ \A k \in Nat : \A owner : TypedBy(cells, k, owner) => TypedBy(after, k, owner)
  <2>1. PICK r : r = cells \o Typed(text, by)
    OBVIOUS
  <2>2. r = after
    BY <1>3, <1>4, <2>1
  <2>3. /\ Len(r) = l + 1
        /\ \A k \in Nat : \A owner : TypedBy(cells, k, owner) /\ by \in {owner, Tmux}
                                       => TypedBy(r, k, owner)
    <3>1. /\ Len(r) = Len(cells) + Len(text)
          /\ \A k \in Nat : \A owner : TypedBy(cells, k, owner) /\ by \in {owner, Tmux}
                                         => TypedBy(r, k, owner)
      <4>1. /\ Len(cells \o Typed(text, by)) = Len(cells) + Len(text)
            /\ \A k \in Nat : \A owner : TypedBy(cells, k, owner) /\ by \in {owner, Tmux}
                                   => TypedBy(cells \o Typed(text, by), k, owner)
        BY <1>2, <1>5, TypedOnEnd
      <4> QED
        BY <2>1, <4>1
    <3> QED
      BY <1>5, <1>6, <3>1
  <2> QED
    BY <1>4, <1>6, <2>2, <2>3
<1>8. less \in BOOLEAN /\ (less => e)
  BY <1>1, <1>3 DEF Exact
<1>9. ASSUME NEW owner, NEW start \in Nat, NEW draft, Len(draft) \in Nat,
             Stood(cells, owner, start, draft, e)
      PROVE  Stood(after, owner, start, draft, less)
  <2>1. start + Len(draft) <= l => start + Len(draft) <= m
    BY <1>7, <1>9
  <2>2. 0 \in Nat
    OBVIOUS
  <2> QED
    BY <1>3, <1>6, <1>7, <1>9, <2>1, <2>2 DEF Stood
<1>10. TInv(s, f, cells, e) /\ s \in SessionType(n) /\ f \in [Conns -> CommandType(n)]
  BY <1>2 DEF Sound, SessionOK
<1>11. \A d \in Conns : StepTyped(s, d, f[d], after, less)
  <2> SUFFICES ASSUME NEW d \in Conns PROVE StepTyped(s, d, f[d], after, less)
    OBVIOUS
  <2>1. PICK o : o = f[d]
    OBVIOUS
  <2>2. o \in CommandType(n) /\ Coherent(o) /\ StepTyped(s, d, o, cells, e)
    BY <1>2, <1>10, <2>1 DEF TInv, Sound, Queues
  <2>3. /\ o.start # NoStart => o.start \in Nat
        /\ o.text \in Seq(Character) /\ Len(o.text) \in Nat
    <3>1. <<"k">> \in Seq(Character)
      <4>1. "k" \in Character
        BY DEF Character
      <4> QED
        BY <4>1
    <3>2. o.text \in Texts \cup {<<"k">>} /\ (o.start # NoStart => o.start \in Nat)
      BY <2>2 DEF CommandType
    <3>3. o.text \in Seq(Character)
      BY <3>1, <3>2, NoneIsNone
    <3>4. PICK q \in Seq(Character) : q = o.text
      BY <3>3
    <3>5. Len(q) \in Nat
      OBVIOUS
    <3> QED
      BY <3>2, <3>4, <3>5
  <2>4. o.at = "send" /\ o.mode = "start" /\ o.start # NoStart =>
          /\ o.start <= Len(after) /\ TypedBy(after, o.start, Tmux)
          /\ less => o.start = Len(after)
    <3> SUFFICES ASSUME o.at = "send", o.mode = "start", o.start # NoStart
                 PROVE  o.start <= Len(after) /\ TypedBy(after, o.start, Tmux)
      BY <1>3
    <3>1. o.start <= l /\ TypedBy(cells, o.start, Tmux) /\ o.start \in Nat
      BY <1>6, <2>2, <2>3 DEF StepTyped
    <3>2. o.start <= m
      BY <1>7, <3>1
    <3> QED
      BY <1>6, <1>7, <3>1, <3>2
  <2>5. o.at = "reply" /\ o.mode = "start" /\ o.start # NoStart =>
           Stood(after, d, o.start, o.text, less)
    BY <1>9, <2>2, <2>3 DEF StepTyped
  <2>6. o.at = "reply" /\ o.mode = "continue" /\ s.active = o.active =>
           Stood(after, d, o.active.start, o.text, less)
    <3>1. o.mode = "continue" => o.active.start \in Nat
      BY <2>2 DEF Coherent, CommandType, ActiveType
    <3> QED
      BY <1>9, <2>2, <2>3, <3>1 DEF StepTyped
  <2>7. o.at = "reply" /\ o.step = "commit" => TypedBy(after, 0, Tmux)
    <3>1. 0 \in Nat
      OBVIOUS
    <3> QED
      BY <1>7, <2>2, <3>1 DEF StepTyped
  <2>8. StepTyped(s, d, o, after, less)
    BY <2>4, <2>5, <2>6, <2>7 DEF StepTyped
  <2> QED
    BY <2>1, <2>8
<1>12. \A d \in Conns : /\ CommandTyped(d, f[d], less) /\ ComesFirst(s, f, d)
                        /\ HasLock(s, f, d) /\ Named(s, f[d], less)
  <2>1. \A d \in Conns : /\ CommandTyped(d, f[d], e) /\ ComesFirst(s, f, d) /\ HasLock(s, f, d)
    BY <1>10 DEF TInv
  <2> QED
    BY <1>2, <1>3, <1>8, <2>1, LessExact DEF Named
<1>13. ActiveTyped(s.active, less) /\ \A a \in s.accepted : CellsTyped(a, less)
  BY <1>2, <1>8, <1>10, LessExact DEF TInv, ActiveTyped
<1>14. Unwritten(f) => ActiveStood(s.active, after, less)
  <2> SUFFICES ASSUME Unwritten(f), s.active # None
               PROVE  Stood(after, s.active.owner, s.active.start, s.active.draft, less)
    BY DEF ActiveStood
  <2>1. PICK a : a = s.active
    OBVIOUS
  <2>2. Stood(cells, a.owner, a.start, a.draft, e) /\ a \in ActiveType
    BY <1>10, <2>1 DEF TInv, ActiveStood, SessionType
  <2>3. a.start \in Nat /\ Len(a.draft) \in Nat
    <3>1. a.start \in Nat /\ a.draft \in Texts
      BY <2>2 DEF ActiveType
    <3>2. PICK q \in Seq(Character) : q = a.draft
      BY <3>1, NoneIsNone
    <3>3. Len(q) \in Nat
      OBVIOUS
    <3> QED
      BY <3>1, <3>2, <3>3
  <2> QED
    BY <1>9, <2>1, <2>2, <2>3
<1>15. TInv(s, f, after, less)
  BY <1>11, <1>12, <1>13, <1>14 DEF TInv
<1> QED
  BY <1>1, <1>3, <1>15, NextSound

-----------------------------------------------------------------------------
(* The holder of the lock is done *)

\* What the commands of the others count on.
Lends(s, f, t, exact, c) ==
    /\ t.current \subseteq s.current
    /\ \A a, b \in Conns : Before(s.writers, a, b) => Before(t.writers, a, b)
    /\ \A a \in t.accepted : CellsTyped(a, exact)
    /\ \A d \in Conns \ {c} : Named(t, f[d], exact)
\* The active command it leaves was there, or is one that it has started.
Carried(s, f, a, cells, exact, c) ==
    a # None => /\ ActiveStood(a, cells, exact) /\ ActiveTyped(a, exact)
                /\ s.active # None \/ (c \in s.current /\ Starting(f[c]))

LEMMA LendsOn ==
    ASSUME NEW s, NEW f, NEW t, NEW u, NEW exact, NEW c,
           Lends(s, f, t, exact, c), Fades(t, u, Fence), u.current \subseteq t.current
    PROVE  Lends(s, f, u, exact, c)
<1>1. \A a, b \in Conns : Before(t.writers, a, b) => Before(u.writers, a, b)
  BY NoneIsNone DEF Fades, Ordered
<1>2. u.name = t.name /\ u.accepted = t.accepted
  BY DEF Fades
<1> QED
  BY <1>1, <1>2 DEF Lends, Named

LEMMA ReleasedLends ==
    ASSUME NEW n, NEW s, NEW f, NEW cells, NEW exact, NEW c \in Conns, SessionOK(s, n),
           In(c, s.writers), TInv(s, f, cells, exact), NEW t, t = Released(s)
    PROVE  /\ Lends(s, f, t, exact, c) /\ t.current = s.current /\ t.active = s.active
           /\ t.name = s.name /\ t.accepted = s.accepted /\ t.unavailable = s.unavailable
<1>1. s \in SessionType(n)
  BY DEF SessionOK
<1>2. PICK q : q = s.writers
  OBVIOUS
<1>3. q \in Seq(Conns \cup {Fence}) /\ q # <<>>
  BY <1>1, <1>2 DEF SessionType, In
<1>4. t = [s EXCEPT !.writers = Tail(q)]
  BY <1>2 DEF Released
<1>5. /\ t.current = s.current /\ t.active = s.active /\ t.name = s.name
      /\ t.accepted = s.accepted /\ t.unavailable = s.unavailable /\ t.writers = Tail(q)
  BY <1>1, <1>4 DEF SessionType
<1>6. \A a, b \in Conns : Before(s.writers, a, b) => Before(t.writers, a, b)
  BY <1>2, <1>3, <1>5, ReleasedOrder
<1>7. /\ \A a \in s.accepted : CellsTyped(a, exact)
      /\ \A d \in Conns : Named(s, f[d], exact)
  BY DEF TInv
<1> QED
  BY <1>5, <1>6, <1>7 DEF Lends, Named

\* Its command is over, or goes on without the lock.
LEMMA QuitTyped ==
    ASSUME IInv, Accepts, NEW c \in Conns, Head(session.writers) = c,
           In(c, session.writers), NEW y, SessionOK(y, commands),
           \A d \in Conns \ {c} : In(d, y.writers) <=> In(d, session.writers),
           NEW less \in BOOLEAN, less => Exact, Lends(session, conn, y, less, c),
           Carried(session, conn, y.active, line, less, c),
           NEW h, h = [conn EXCEPT ![c] = NoCommand]
    PROVE  /\ TInv(y, h, line, less) /\ Queues(y, h)
           /\ h \in [Conns -> CommandType(commands)] /\ y.current \subseteq Conns
           /\ h[c].at # "reply"
<1>1. PICK s, f, n, cells, e : /\ s = session /\ f = conn /\ n = commands /\ cells = line
                               /\ e = Exact
  OBVIOUS
<1>2. Sound(s, f, n, cells, e) /\ e \in BOOLEAN
  BY <1>1, SoundNow
<1>3. /\ n \in Nat /\ f \in [Conns -> CommandType(n)] /\ TInv(s, f, cells, e)
      /\ Queues(s, f) /\ SessionOK(s, n)
  BY <1>2 DEF Sound
<1>4. PICK z : z = NoCommand
  OBVIOUS
<1>5. /\ z \in CommandType(n) /\ CommandOK(z) /\ CommandTyped(c, z, less) /\ ~Holds(z)
      /\ ~Starting(z) /\ z.at \notin Writing /\ z.kind = "none"
  BY <1>3, <1>4, NoCommandOK, NoCommandTyped DEF NoCommand
<1>6. /\ h \in [Conns -> CommandType(n)] /\ h[c] = z /\ \A d \in Conns \ {c} : h[d] = f[d]
  BY <1>1, <1>3, <1>4, <1>5
<1>7. Queues(y, h)
  BY <1>1, <1>3, <1>5, <1>6 DEF Queues, CommandOK
<1>8. y.current \subseteq Conns /\ h[c].at # "reply"
  BY <1>5, <1>6 DEF SessionOK, SessionType, Writing
<1>9. Lends(s, f, y, less, c) /\ Carried(s, f, y.active, cells, less, c)
  BY <1>1
\* Nobody is ahead of the holder of the lock.
<1>10. \A d \in Conns \ {c} : In(d, s.writers) => ~Before(s.writers, d, c)
  <2> SUFFICES ASSUME NEW d \in Conns \ {c}, In(d, s.writers), Before(s.writers, d, c)
               PROVE  FALSE
    OBVIOUS
  <2>1. PICK q : q = s.writers
    OBVIOUS
  <2>2. q \in Seq(Conns \cup {Fence}) /\ q[1] = c
    BY <1>1, <1>3, <2>1 DEF SessionOK, SessionType
  <2>3. PICK i \in 1..Len(q) : q[i] = d
    BY <2>1, <2>2 DEF In
  <2>4. 1 \in 1..Len(q) /\ ~(i < 1)
    BY <2>2, <2>3
  <2> QED
    BY <2>1, <2>2, <2>3, <2>4 DEF Before
<1>11. ASSUME NEW d \in Conns \ {c}
       PROVE  /\ CommandTyped(d, h[d], less) /\ ComesFirst(y, h, d)
              /\ HasLock(y, h, d) /\ StepTyped(y, d, h[d], cells, less)
              /\ Named(y, h[d], less)
  <2>1. /\ CommandTyped(d, f[d], e) /\ ComesFirst(s, f, d) /\ HasLock(s, f, d)
        /\ h[d] = f[d] /\ (f[d].at \in Writing => In(d, s.writers))
    BY <1>3, <1>6 DEF TInv, Queues
  <2>2. ~Holds(h[d])
    BY <1>1, <2>1 DEF HasLock
  <2>3. CommandTyped(d, h[d], less)
    BY <1>1, <1>2, <2>1, LessExact
  <2>4. ComesFirst(y, h, d)
    <3> SUFFICES ASSUME h[d].at \in Writing, Unowned(h[d])
                 PROVE  /\ y.active = None
                        /\ \A x \in y.current : Starting(h[x]) => Before(y.writers, d, x)
      BY DEF ComesFirst
    <3>1. /\ s.active = None /\ In(d, s.writers)
          /\ \A x \in s.current : Starting(f[x]) => Before(s.writers, d, x)
      BY <2>1 DEF ComesFirst
    <3>2. y.active = None
      BY <1>9, <1>10, <3>1 DEF Carried
    <3>3. ASSUME NEW x \in y.current, Starting(h[x]) PROVE Before(y.writers, d, x)
      <4>1. x # c /\ x \in Conns \ {c} /\ x \in s.current
        BY <1>5, <1>6, <1>8, <1>9, <3>3 DEF Lends
      <4>2. Before(s.writers, d, x)
        BY <1>6, <3>1, <3>3, <4>1
      <4> QED
        BY <1>9, <4>1, <4>2 DEF Lends
    <3> QED
      BY <3>2, <3>3
  <2>5. HasLock(y, h, d) /\ StepTyped(y, d, h[d], cells, less)
    BY <2>2 DEF HasLock, StepTyped, Holds
  <2>6. Named(y, h[d], less)
    BY <1>9, <2>1 DEF Lends
  <2> QED
    BY <2>3, <2>4, <2>5, <2>6
<1>12. /\ CommandTyped(c, z, less) /\ ComesFirst(y, h, c) /\ HasLock(y, h, c)
       /\ StepTyped(y, c, z, cells, less) /\ Named(y, z, less)
  BY <1>5, <1>6 DEF ComesFirst, HasLock, StepTyped, Holds, Named, Commits
<1>13. /\ ActiveTyped(y.active, less) /\ ActiveStood(y.active, cells, less)
       /\ \A a \in y.accepted : CellsTyped(a, less)
  BY <1>9 DEF Carried, ActiveTyped, ActiveStood, Lends
<1>14. \A d \in Conns : /\ CommandTyped(d, h[d], less) /\ ComesFirst(y, h, d)
                        /\ HasLock(y, h, d) /\ StepTyped(y, d, h[d], cells, less)
                        /\ Named(y, h[d], less)
  BY <1>6, <1>11, <1>12
<1>15. TInv(y, h, cells, less)
  BY <1>13, <1>14 DEF TInv
<1> QED
  BY <1>1, <1>6, <1>7, <1>8, <1>15

\* Its command is over.
LEMMA OverTyped ==
    ASSUME IInv, Accepts, NEW c \in Conns, Head(session.writers) = c,
           In(c, session.writers), NEW y, SessionOK(y, commands),
           \A d \in Conns \ {c} : In(d, y.writers) <=> In(d, session.writers),
           NEW less \in BOOLEAN, less => Exact, Lends(session, conn, y, less, c),
           Carried(session, conn, y.active, line, less, c),
           Follows(c, Done(y, c)), line' = line, Exact' = less
    PROVE  Accepts'
<1>1. PICK f, n, cells, h, z : /\ f = conn /\ n = commands /\ cells = line
                               /\ z = NoCommand /\ h = [conn EXCEPT ![c] = z]
  OBVIOUS
<1>2. /\ TInv(y, h, cells, less) /\ Queues(y, h) /\ h \in [Conns -> CommandType(n)]
      /\ y.current \subseteq Conns /\ h[c].at # "reply"
  <2>1. h = [conn EXCEPT ![c] = NoCommand]
    BY <1>1
  <2>2. /\ TInv(y, h, line, less) /\ Queues(y, h) /\ h \in [Conns -> CommandType(commands)]
        /\ y.current \subseteq Conns /\ h[c].at # "reply"
    BY <2>1, QuitTyped
  <2> QED
    BY <1>1, <2>2
<1>3. PICK q : q = Done(y, c)
  OBVIOUS
<1>4. n \in Nat /\ f \in [Conns -> CommandType(n)] /\ SessionOK(y, n)
  BY <1>1 DEF IInv, RecordsOK
<1>5. Fit(y, c, q, less) /\ q.command = z
  BY <1>1, <1>3, <1>4, DoneFit, DoneOK
<1>6. Named(q.session, q.command, less)
  BY <1>1, <1>5 DEF Named, Commits, NoCommand
<1>7. PICK t, g : t = session' /\ g = conn'
  OBVIOUS
<1>8. Gets(h, t, g, c, q)
  <2>1. t = q.session /\ g = [f EXCEPT ![c] = z]
    BY <1>1, <1>3, <1>5, <1>7 DEF Follows
  <2>2. h = [f EXCEPT ![c] = z] /\ [h EXCEPT ![c] = z] = h
    BY <1>1, <1>4
  <2> QED
    BY <1>5, <2>1, <2>2 DEF Gets
<1>9. TInv(t, g, cells, less)
  BY <1>2, <1>5, <1>6, <1>8, FitTyped
<1> QED
  BY <1>1, <1>7, <1>9, NextSound

\* What the holder of the lock knows; x is the record without its entry.
LEMMA HolderKnows ==
    ASSUME IInv, Accepts, NEW c \in Conns, NEW s, NEW f, NEW n, NEW cells, NEW e, NEW o, NEW x,
           s = session, f = conn, n = commands, cells = line, e = Exact, o = f[c],
           o.at \in Writing, Head(s.writers) = c, x = Released(s)
    PROVE  /\ n \in Nat /\ SessionOK(s, n) /\ SessionOK(x, n) /\ In(c, s.writers)
           /\ \A d \in Conns \ {c} : In(d, x.writers) <=> In(d, s.writers)
           /\ ~In(c, x.writers)
           /\ o.kind = "submit" => In(c, x.submitters)
           /\ o \in CommandType(n) /\ CommandOK(o) /\ Coherent(o)
           /\ CommandTyped(c, o, e) /\ Named(s, o, e) /\ StepTyped(s, c, o, cells, e)
           /\ Unowned(o) => s.active = None
           /\ Lends(s, f, x, e, c) /\ x.current = s.current /\ x.active = s.active
           /\ x.name = s.name /\ x.accepted = s.accepted /\ x.unavailable = s.unavailable
<1>1. Sound(s, f, n, cells, e) /\ e \in BOOLEAN
  BY SoundNow
<1>2. n \in Nat /\ SessionOK(s, n) /\ TInv(s, f, cells, e)
  BY <1>1 DEF Sound
<1>3. /\ o \in CommandType(n) /\ CommandOK(o) /\ Coherent(o) /\ CommandTyped(c, o, e)
      /\ Named(s, o, e) /\ StepTyped(s, c, o, cells, e) /\ In(c, s.writers)
  BY <1>1, Waiting
<1>4. /\ SessionOK(x, n) /\ x.submitters = s.submitters
      /\ \A d \in Conns : In(d, x.writers) <=> In(d, s.writers) /\ d # c
  BY <1>2, <1>3, ReleasedOK
<1>5. /\ Lends(s, f, x, e, c) /\ x.current = s.current /\ x.active = s.active
      /\ x.name = s.name /\ x.accepted = s.accepted /\ x.unavailable = s.unavailable
  BY <1>2, <1>3, ReleasedLends
<1>6. Unowned(o) => s.active = None
  BY <1>2 DEF TInv, ComesFirst
<1>7. o.kind = "submit" => In(c, x.submitters)
  BY <1>1, <1>4 DEF Sound, LocksOK
<1> QED
  BY <1>2, <1>3, <1>4, <1>5, <1>6, <1>7

LEMMA FailWriteTyped ==
    ASSUME IInv, Accepts, NEW c \in Conns, FailWrite(c)
    PROVE  Accepts'
<1>1. PICK s, f, n, cells, e, o, x :
         /\ s = session /\ f = conn /\ n = commands /\ cells = line /\ e = Exact
         /\ o = f[c] /\ x = Released(s)
  OBVIOUS
<1>2. o.at \in Writing /\ Head(s.writers) = c /\ o.step # "rename"
  BY <1>1 DEF FailWrite, HoldsWriteLock, Writing
<1>3. /\ n \in Nat /\ SessionOK(x, n) /\ In(c, s.writers)
      /\ \A d \in Conns \ {c} : In(d, x.writers) <=> In(d, s.writers)
      /\ o.kind = "submit" => In(c, x.submitters)
      /\ o \in CommandType(n) /\ CommandOK(o)
      /\ Unowned(o) => s.active = None
      /\ Lends(s, f, x, e, c) /\ x.active = s.active
  BY <1>1, <1>2, HolderKnows
<1>4. PICK v : v = [x EXCEPT !.submitters = IF o.kind = "submit" THEN Tail(@) ELSE @]
  OBVIOUS
<1>5. PICK y : y = Failed(s, c, o)
  OBVIOUS
<1>6. /\ SessionOK(v, n) /\ v.writers = x.writers /\ v.current = x.current
      /\ v.accepted = x.accepted /\ v.active = x.active /\ v.name = x.name
      /\ Tracks(v, y, n)
  <2>1. o.kind = "submit" => x.submitters # <<>>
    BY <1>3 DEF In
  <2> QED
    BY <1>1, <1>2, <1>3, <1>4, <1>5, <2>1, FailedTracks
<1>7. Lends(s, f, v, e, c)
  <2>1. Fades(x, v, Fence)
    BY <1>6, SameQueueFades
  <2> QED
    BY <1>3, <1>6, <2>1, LendsOn
<1>8. Lends(s, f, y, e, c) /\ y.active = None
  <2>1. CASE \E u : y = MarkUnavailable(v, u)
    <3>1. PICK u : y = MarkUnavailable(v, u)
      BY <2>1
    <3>2. Fades(v, y, Fence) /\ y.active = None /\ y.current \subseteq v.current
      BY <1>3, <1>6, <3>1, MarkFades
    <3> QED
      BY <1>7, <3>2, LendsOn
  <2>2. CASE y = InvalidateActive(v)
    <3>1. Fades(v, y, Fence) /\ y.current = {}
      BY <1>3, <1>6, <2>2, InvalidateFades
    <3>2. y.active = None
      BY <1>3, <1>6, <2>2, InvalidateTracks
    <3> QED
      BY <1>7, <3>1, <3>2, LendsOn
  <2>3. CASE o.step \notin {"sync", "commit"} /\ y = v
    <3>1. o.step \in {"raw", "clear"}
      BY <1>2, <1>3, <2>3 DEF CommandOK, Suits, Writing
    <3>2. s.active = None
      BY <1>3, <3>1 DEF Unowned
    <3> QED
      BY <1>3, <1>6, <1>7, <2>3, <3>2
  <2>4. \/ \E u : y = MarkUnavailable(v, u)
        \/ y = InvalidateActive(v)
        \/ o.step \notin {"sync", "commit"} /\ y = v
    BY <1>1, <1>4, <1>5 DEF Failed
  <2> QED
    BY <2>1, <2>2, <2>3, <2>4
<1>9. SessionOK(y, n) /\ \A d \in Conns \ {c} : In(d, y.writers) <=> In(d, s.writers)
  BY <1>3, <1>6 DEF Tracks
<1>10. Follows(c, Done(y, c)) /\ UNCHANGED <<line, outside, crossed>>
  BY <1>1, <1>5 DEF FailWrite
<1>11. Carried(s, f, y.active, cells, e, c)
  BY <1>8 DEF Carried
<1>12. e \in BOOLEAN /\ (e => Exact) /\ Exact' = e
  BY <1>1, <1>10 DEF Exact
<1> QED
  BY <1>1, <1>2, <1>3, <1>8, <1>9, <1>10, <1>11, <1>12, OverTyped

\* A rename gives the active command the new name; a command in flight has the old one.
LEMMA RenameRepliedTyped ==
    ASSUME IInv, Accepts, NEW c \in Conns, RenameReplied(c)
    PROVE  Accepts'
<1>1. PICK s, f, n, cells, e, less, o, x :
         /\ s = session /\ f = conn /\ n = commands /\ cells = line /\ e = Exact
         /\ less = Exact' /\ o = f[c] /\ x = Released(s)
  OBVIOUS
<1>2. o.at = "write" /\ Head(s.writers) = c /\ o.at \in Writing
  BY <1>1 DEF RenameReplied, HoldsWriteLock, Writing
<1>3. /\ n \in Nat /\ SessionOK(s, n) /\ SessionOK(x, n) /\ In(c, s.writers)
      /\ \A d \in Conns \ {c} : In(d, x.writers) <=> In(d, s.writers)
      /\ Lends(s, f, x, e, c) /\ x.current = s.current /\ x.active = s.active
      /\ x.name = s.name /\ x.accepted = s.accepted
  BY <1>1, <1>2, HolderKnows
<1>4. PICK v, y : v = Renamed(x) /\ y = ByName(o.name, x, v)
  OBVIOUS
<1>5. /\ SessionOK(v, n) /\ v.writers = x.writers /\ v.current = x.current
      /\ v.accepted = x.accepted
      /\ x.active = None => v.active = None
      /\ x.active # None =>
            /\ v.active.owner = x.active.owner /\ v.active.start = x.active.start
            /\ v.active.draft = x.active.draft /\ v.active.cells = x.active.cells
            /\ v.active.settled = x.active.settled
  BY <1>3, <1>4, RenamedOK
<1>6. /\ Follows(c, Done(y, c)) /\ line' = line
      /\ outside' = outside
      /\ crossed' = (crossed \/ \E d \in Conns : conn[d].kind \in {"submit", "enter", "clear"})
  BY <1>1, <1>4 DEF RenameReplied, Renamed
<1>7. /\ less \in BOOLEAN /\ e \in BOOLEAN /\ (less => e)
      /\ less => \A d \in Conns : ~Commits(f[d].kind)
  BY <1>1, <1>6 DEF Exact, Commits
<1>8. y = x \/ y = v
  BY <1>4 DEF ByName
<1>9. SessionOK(y, n) /\ \A d \in Conns \ {c} : In(d, y.writers) <=> In(d, s.writers)
  BY <1>3, <1>5, <1>8
<1>10. Lends(s, f, y, less, c)
  <2>1. /\ y.current = x.current /\ y.writers = x.writers /\ y.accepted = x.accepted
    BY <1>5, <1>8
  <2>2. \A a \in y.accepted : CellsTyped(a, less)
    BY <1>3, <1>7, <2>1, LessExact DEF Lends
  <2>3. \A d \in Conns \ {c} : Named(y, f[d], less)
    BY <1>7 DEF Named
  <2> QED
    BY <1>3, <2>1, <2>2, <2>3 DEF Lends
<1>11. Carried(s, f, y.active, cells, less, c)
  <2> SUFFICES ASSUME y.active # None
               PROVE  /\ ActiveStood(y.active, cells, less) /\ ActiveTyped(y.active, less)
                      /\ s.active # None
    BY DEF Carried
  <2>1. PICK a, b : a = s.active /\ b = y.active
    OBVIOUS
  <2>2. /\ a # None /\ b.owner = a.owner /\ b.start = a.start
        /\ b.draft = a.draft /\ b.cells = a.cells /\ b.settled = a.settled
    BY <1>3, <1>5, <1>8, <2>1
  <2>3. Sound(s, f, n, cells, e)
    BY <1>1, SoundNow
  <2>4. TInv(s, f, cells, e)
    BY <2>3 DEF Sound
  <2>5. Unwritten(f)
    <3>1. \A d \in Conns : HasLock(s, f, d)
      BY <2>4 DEF TInv
    <3> QED
      BY <1>1, <1>2, <3>1 DEF HasLock, Holds, Unwritten
  <2>6. ActiveStood(a, cells, e) /\ ActiveTyped(a, e)
    BY <2>1, <2>4, <2>5 DEF TInv
  <2>7. Stood(cells, b.owner, b.start, b.draft, less)
    BY <1>7, <2>2, <2>6, LessExact DEF ActiveStood
  <2>8. b.settled => CellsTyped(b, less)
    <3>1. b.settled => CellsTyped(a, less)
      BY <1>7, <2>2, <2>6, LessExact DEF ActiveTyped
    <3> QED
      BY <2>2, <3>1 DEF CellsTyped
  <2> QED
    BY <2>1, <2>2, <2>7, <2>8 DEF ActiveStood, ActiveTyped
<1> QED
  BY <1>1, <1>2, <1>3, <1>6, <1>7, <1>9, <1>10, <1>11, OverTyped

LEMMA SetActiveTracks ==
    ASSUME NEW n \in Nat, NEW s, SessionOK(s, n), s.unavailable = None, NEW a \in ActiveType,
           NEW t, t = [s EXCEPT !.active = a]
    PROVE  Tracks(s, t, n)
<1>1. s \in SessionType(n)
  BY DEF SessionOK
<1>2. /\ t.active = a /\ t.unavailable = s.unavailable /\ t.writers = s.writers
      /\ t.fence = s.fence /\ t.draft = s.draft /\ t.name = s.name
      /\ t.submitted = s.submitted /\ t.submitters = s.submitters /\ t \in SessionType(n)
  BY <1>1 DEF SessionType
<1>3. SessionOK(t, n)
  BY <1>2 DEF SessionOK
<1> QED
  BY <1>2, <1>3 DEF Tracks

\* A fence is scheduled for a new draft.
LEMMA ScheduledLends ==
    ASSUME NEW n \in Nat, NEW s, NEW f, NEW x, NEW exact, NEW c, SessionOK(x, n),
           x.unavailable = None, NEW a \in ActiveType, Lends(s, f, x, exact, c),
           NEW y, y = ScheduleFence([x EXCEPT !.active = a])
    PROVE  Lends(s, f, y, exact, c) /\ y.active = a
<1>1. PICK z : z = [x EXCEPT !.active = a]
  OBVIOUS
<1>2. x \in SessionType(n)
  BY DEF SessionOK
<1>3. /\ z.current = x.current /\ z.writers = x.writers /\ z.accepted = x.accepted
      /\ z.name = x.name /\ z.active = a
  BY <1>1, <1>2 DEF SessionType
<1>4. SessionOK(z, n)
  <2>1. Tracks(x, z, n)
    BY <1>1, SetActiveTracks
  <2> QED
    BY <2>1 DEF Tracks
<1>5. Lends(s, f, z, exact, c)
  BY <1>3 DEF Lends, Named
<1>6. PICK w : w = CancelFence(z)
  OBVIOUS
<1>7. Fades(z, w, Fence) /\ w.current = z.current
  BY <1>4, <1>6, CancelFades
<1>8. w.active = a /\ w \in SessionType(n)
  BY <1>3, <1>4, <1>6, CancelTracks DEF Tracks, SessionOK
<1>9. y = [w EXCEPT !.fence = "waiting", !.fenced = z.active]
  BY <1>1, <1>6 DEF ScheduleFence
<1>10. /\ y.current = w.current /\ y.writers = w.writers /\ y.accepted = w.accepted
       /\ y.name = w.name /\ y.active = w.active
  BY <1>8, <1>9 DEF SessionType
<1>11. Lends(s, f, w, exact, c)
  BY <1>5, <1>7, LendsOn
<1> QED
  BY <1>8, <1>10, <1>11 DEF Lends, Named

LEMMA MarkedLends ==
    ASSUME NEW n \in Nat, NEW s, NEW f, NEW x, NEW exact, NEW c, SessionOK(x, n),
           Lends(s, f, x, exact, c), NEW u, NEW y, y = MarkUnavailable(x, u)
    PROVE  Lends(s, f, y, exact, c) /\ y.active = None
<1>1. Fades(x, y, Fence) /\ y.active = None /\ y.current = x.current
  BY MarkFades
<1> QED
  BY <1>1, LendsOn

\* The text is typed: the command becomes active, goes on or is given up.
LEMMA SyncRepliedCarried ==
    ASSUME NEW n \in Nat, NEW s, NEW f, NEW cells, NEW e, NEW c \in Conns, NEW o, NEW x,
           o = f[c], o.at = "reply", o.step = "sync", SessionOK(s, n), SessionOK(x, n),
           o \in CommandType(n), Coherent(o), o.text \in Texts, CommandTyped(c, o, e),
           StepTyped(s, c, o, cells, e), Unowned(o) => s.active = None,
           Lends(s, f, x, e, c), x.current = s.current, x.active = s.active,
           x.unavailable = s.unavailable, NEW y, y = SyncReplied(x, c, o)
    PROVE  Lends(s, f, y, e, c) /\ Carried(s, f, y.active, cells, e, c)
<1>1. o.mode \in {"start", "continue", "unavailable", "plain"}
  BY DEF CommandTyped
<1>2. ASSUME NEW u, y = MarkUnavailable(x, u)
      PROVE  Lends(s, f, y, e, c) /\ Carried(s, f, y.active, cells, e, c)
  BY <1>2, MarkedLends DEF Carried
<1>3. CASE o.mode = "start"
  <2>1. CASE c \in x.current /\ o.start # NoStart /\ x.active = None /\ x.unavailable = None
    <3>1. PICK a : a = Active(c, x.name, o.text, o.revision, o.start)
      OBVIOUS
    <3>2. /\ a.owner = c /\ a.start = o.start /\ a.draft = o.text /\ ~a.settled
      BY <3>1 DEF Active
    <3>3. a \in ActiveType
      <4>1. /\ x.name \in Names /\ o.revision \in Nat /\ o.start \in Nat
            /\ <<>> \in Seq(Cell)
        BY <2>1 DEF SessionOK, SessionType, CommandType
      <4> QED
        BY <3>1, <4>1 DEF Active, ActiveType
    <3>4. y = ScheduleFence([x EXCEPT !.active = a])
      BY <1>3, <2>1, <3>1 DEF SyncReplied
    <3>5. Lends(s, f, y, e, c) /\ y.active = a
      BY <2>1, <3>3, <3>4, ScheduledLends
    <3>6. Stood(cells, c, o.start, o.text, e)
      BY <1>3, <2>1 DEF StepTyped
    <3>7. c \in s.current /\ Starting(f[c])
      BY <1>3, <2>1 DEF Starting, Writing
    <3> QED
      BY <3>2, <3>5, <3>6, <3>7 DEF Carried, ActiveStood, ActiveTyped
  <2>2. CASE ~(c \in x.current /\ o.start # NoStart /\ x.active = None /\ x.unavailable = None)
    <3>1. y = MarkUnavailable(x, Unknown(x, c, o))
      BY <1>3, <2>2 DEF SyncReplied
    <3> QED
      BY <1>2, <3>1
  <2> QED
    BY <2>1, <2>2
<1>4. CASE o.mode = "continue"
  <2>1. CASE c \in x.current /\ x.active = o.active
    <3>1. PICK b : b = o.active
      OBVIOUS
    <3>2. b # None /\ b \in ActiveType /\ b.owner = c
      BY <1>4, <3>1 DEF Coherent, CommandType, CommandTyped
    <3>3. PICK a : a = [b EXCEPT !.draft = o.text, !.revision = o.revision,
                                 !.settled = FALSE, !.cells = <<>>]
      OBVIOUS
    <3>4. /\ a.owner = c /\ a.start = b.start /\ a.draft = o.text /\ ~a.settled
          /\ a \in ActiveType
      <4>1. o.revision \in Nat /\ <<>> \in Seq(Cell)
        BY DEF CommandType
      <4> QED
        BY <3>2, <3>3, <4>1 DEF ActiveType
    <3>5. y = ScheduleFence([x EXCEPT !.active = a])
      BY <1>4, <2>1, <3>1, <3>3 DEF SyncReplied
    <3>6. x.unavailable = None
      BY <2>1, <3>1, <3>2 DEF SessionOK
    <3>7. Lends(s, f, y, e, c) /\ y.active = a
      BY <3>4, <3>5, <3>6, ScheduledLends
    <3>8. Stood(cells, c, b.start, o.text, e) /\ s.active # None
      BY <1>4, <2>1, <3>1, <3>2 DEF StepTyped
    <3> QED
      BY <3>4, <3>7, <3>8 DEF Carried, ActiveStood, ActiveTyped
  <2>2. CASE ~(c \in x.current /\ x.active = o.active)
    <3>1. y = MarkUnavailable(x, Unknown(x, c, o))
      BY <1>4, <2>2 DEF SyncReplied
    <3> QED
      BY <1>2, <3>1
  <2> QED
    BY <2>1, <2>2
<1>5. CASE o.mode = "unavailable"
  <2>1. PICK known :
          known = [o.unavailable EXCEPT !.draft = o.text,
                        !.revision = IF @ < o.revision THEN o.revision ELSE @]
    OBVIOUS
  <2>2. CASE c \in x.current /\ x.unavailable = o.unavailable
    <3>1. y = [x EXCEPT !.unavailable = known]
      BY <1>5, <2>1, <2>2 DEF SyncReplied
    <3>2. /\ y.current = x.current /\ y.writers = x.writers /\ y.accepted = x.accepted
          /\ y.name = x.name /\ y.active = x.active
      BY <3>1 DEF SessionOK, SessionType
    <3>3. x.active = None
      BY <1>5, <2>2 DEF SessionOK, Coherent
    <3> QED
      BY <3>2, <3>3 DEF Lends, Named, Carried
  <2>3. CASE ~(c \in x.current /\ x.unavailable = o.unavailable)
    <3>1. y = MarkUnavailable(x, known)
      BY <1>5, <2>1, <2>3 DEF SyncReplied
    <3> QED
      BY <1>2, <3>1
  <2> QED
    BY <2>2, <2>3
<1>6. CASE o.mode = "plain"
  <2>1. y = x
    BY <1>6 DEF SyncReplied
  <2>2. y.active = None
    BY <1>6, <2>1 DEF Unowned
  <2> QED
    BY <2>1, <2>2 DEF Carried
<1> QED
  BY <1>1, <1>3, <1>4, <1>5, <1>6

LEMMA SyncRepliedTyped ==
    ASSUME IInv, Accepts, NEW c \in Conns, Reply(c), conn[c].step = "sync"
    PROVE  Accepts'
<1>1. PICK s, f, n, cells, e, o, x :
         /\ s = session /\ f = conn /\ n = commands /\ cells = line /\ e = Exact
         /\ o = f[c] /\ x = Released(s)
  OBVIOUS
<1>2. /\ o.at = "reply" /\ o.step = "sync" /\ Head(s.writers) = c /\ o.at \in Writing
      /\ UNCHANGED <<line, outside, crossed>>
  BY <1>1 DEF Reply, HoldsWriteLock, Writing
<1>3. /\ n \in Nat /\ SessionOK(s, n) /\ SessionOK(x, n) /\ In(c, s.writers)
      /\ \A d \in Conns \ {c} : In(d, x.writers) <=> In(d, s.writers)
      /\ ~In(c, x.writers)
      /\ o \in CommandType(n) /\ CommandOK(o) /\ Coherent(o)
      /\ CommandTyped(c, o, e) /\ Named(s, o, e) /\ StepTyped(s, c, o, cells, e)
      /\ Unowned(o) => s.active = None
      /\ Lends(s, f, x, e, c) /\ x.current = s.current /\ x.active = s.active
      /\ x.name = s.name /\ x.unavailable = s.unavailable
  BY <1>1, <1>2, HolderKnows
<1>4. o.kind \in {"sync", "submit"} /\ o.kind # "input" /\ o.text \in Texts /\ ~o.record
  <2>1. o.kind \in {"sync", "submit"}
    BY <1>2, <1>3 DEF CommandOK, Suits
  <2>2. o.mode # "accept"
    BY <1>2, <1>3 DEF CommandTyped
  <2> QED
    BY <1>3, <2>1, <2>2 DEF Coherent, CommandTyped
<1>5. PICK y, q, v, h, z : /\ y = SyncReplied(x, c, o) /\ q = AfterSync(y, c, o)
                           /\ v = StoredDraft(y, o) /\ z = NoCommand
                           /\ h = [f EXCEPT ![c] = z]
  OBVIOUS
<1>6. Lends(s, f, y, e, c) /\ Carried(s, f, y.active, cells, e, c)
  BY <1>1, <1>2, <1>3, <1>4, <1>5, SyncRepliedCarried
<1>7. Tracks(x, y, n)
  BY <1>3, <1>4, <1>5, SyncRepliedTracks
<1>8. /\ SessionOK(y, n) /\ y.name = s.name /\ ~In(c, y.writers)
      /\ \A d \in Conns \ {c} : In(d, y.writers) <=> In(d, s.writers)
  BY <1>3, <1>7 DEF Tracks
<1>9. e \in BOOLEAN /\ (e => Exact) /\ Exact' = e
  BY <1>1, <1>2 DEF Exact
<1>10. /\ TInv(y, h, cells, e) /\ Queues(y, h) /\ h \in [Conns -> CommandType(n)]
       /\ y.current \subseteq Conns /\ h[c].at # "reply"
  <2>1. h = [conn EXCEPT ![c] = NoCommand]
    BY <1>1, <1>5
  <2>2. Lends(session, conn, y, e, c) /\ Carried(session, conn, y.active, line, e, c)
    BY <1>1, <1>6
  <2>3. /\ Head(session.writers) = c /\ In(c, session.writers) /\ SessionOK(y, commands)
        /\ \A d \in Conns \ {c} : In(d, y.writers) <=> In(d, session.writers)
        /\ e \in BOOLEAN /\ (e => Exact)
    BY <1>1, <1>2, <1>3, <1>8, <1>9
  <2>4. /\ TInv(y, h, line, e) /\ Queues(y, h) /\ h \in [Conns -> CommandType(commands)]
        /\ y.current \subseteq Conns /\ h[c].at # "reply"
    BY <2>1, <2>2, <2>3, QuitTyped
  <2> QED
    BY <1>1, <2>4
<1>11. Fit(y, c, q, e)
  BY <1>3, <1>4, <1>5, <1>8, AfterSyncFit
<1>12. Onward(v, c, o, q, n) /\ v.name = y.name
  BY <1>3, <1>4, <1>5, <1>8, AfterSyncOnward DEF Tracks
<1>13. PICK t, g : t = session' /\ g = conn'
  OBVIOUS
<1>14. Gets(h, t, g, c, q)
  <2>1. Replied(s, c, o) = q
    BY <1>1, <1>2, <1>5 DEF Replied
  <2>2. t = q.session /\ g = [f EXCEPT ![c] = q.command]
    BY <1>1, <1>13, <2>1 DEF Reply, Follows
  <2>3. f \in [Conns -> CommandType(n)]
    BY <1>1 DEF IInv, RecordsOK
  <2>4. PICK p : p = q.command
    OBVIOUS
  <2>5. [h EXCEPT ![c] = p] = [f EXCEPT ![c] = p]
    BY <1>5, <2>3
  <2> QED
    BY <2>2, <2>4, <2>5 DEF Gets
<1>15. Named(y, o, e)
  BY <1>3, <1>8 DEF Named
<1>16. TInv(t, g, cells, e)
  BY <1>10, <1>11, <1>12, <1>14, <1>15, OnwardTyped
<1> QED
  BY <1>1, <1>2, <1>9, <1>13, <1>16, NextSound

\* An accepted Enter leaves a record of what its owner typed.
LEMMA EnterRepliedLends ==
    ASSUME NEW n \in Nat, NEW s, NEW f, NEW e, NEW c \in Conns, NEW o \in CommandType(n),
           Coherent(o), CommandTyped(c, o, e), NEW x, SessionOK(x, n), Lends(s, f, x, e, c),
           NEW u, u = EnterReplied(x, c, o)
    PROVE  /\ Lends(s, f, u, e, c) /\ u.name = x.name /\ u.active \in {x.active, None}
           /\ o.mode = "accept" /\ x.active = o.active => u.active = None
<1>1. CASE o.mode # "accept" \/ x.active # o.active
  <2>1. u = x
    BY <1>1 DEF EnterReplied
  <2> QED
    BY <1>1, <2>1
<1>2. CASE o.mode = "accept" /\ x.active = o.active
  <2>1. PICK a, r : a = o.active /\ r = [owner |-> c, draft |-> a.draft, cells |-> a.cells]
    OBVIOUS
  <2>2. PICK z : z = IF o.record /\ c \in x.current THEN x.accepted \cup {r} ELSE x.accepted
    OBVIOUS
  <2>3. u = [x EXCEPT !.active = None, !.accepted = z]
    BY <1>2, <2>1, <2>2 DEF EnterReplied
  <2>4. /\ u.active = None /\ u.accepted = z /\ u.name = x.name
        /\ u.current = x.current /\ u.writers = x.writers
    BY <2>3 DEF SessionOK, SessionType
  <2>5. o.record => CellsTyped(r, e)
    <3>1. o.record => CellsTyped(a, e) /\ a.owner = c
      BY <2>1 DEF CommandTyped
    <3>2. r.owner = c /\ r.draft = a.draft /\ r.cells = a.cells
      BY <2>1
    <3> QED
      BY <3>1, <3>2 DEF CellsTyped
  <2>6. \A b \in u.accepted : CellsTyped(b, e)
    BY <2>2, <2>4, <2>5 DEF Lends
  <2>7. \A d \in Conns \ {c} : Named(u, f[d], e)
    BY <2>4 DEF Lends, Named
  <2>8. Lends(s, f, u, e, c)
    BY <2>4, <2>6, <2>7 DEF Lends
  <2> QED
    BY <2>4, <2>8
<1> QED
  BY <1>1, <1>2

\* Enter forgets the draft, and the command, of the session it was meant for.
LEMMA CommittedLends ==
    ASSUME NEW n \in Nat, NEW s, NEW f, NEW e, NEW c \in Conns, NEW o \in CommandType(n),
           NEW u, SessionOK(u, n), Lends(s, f, u, e, c), NEW v, v = Committed(u, o)
    PROVE  /\ Lends(s, f, v, e, c) /\ v.active \in {u.active, None}
           /\ o.name = u.name => v.active = None
<1>1. PICK k, b : k = o.revision /\ b = TRUE
  OBVIOUS
<1>2. PICK t, w : t = Later(u, k) /\ w = ResetTracking(t, b)
  OBVIOUS
<1>3. k \in 0..n
  BY <1>1 DEF CommandType
<1>4. Fades(u, t, Fence) /\ SessionOK(t, n) /\ t.name = u.name
  <2>1. Fades(u, t, Fence)
    BY <1>2, <1>3, LaterFades
  <2>2. Tracks(u, t, n)
    BY <1>2, <1>3, LaterTracks
  <2> QED
    BY <2>1, <2>2 DEF Tracks
<1>5. t.current = u.current
  BY <1>2 DEF Later, SessionOK, SessionType
<1>6. Fades(t, w, Fence) /\ w.active = None /\ w.current = {}
  BY <1>2, <1>4, ResetFades
<1>7. Lends(s, f, t, e, c)
  BY <1>4, <1>5, LendsOn
<1>8. Lends(s, f, w, e, c)
  BY <1>6, <1>7, LendsOn
<1>9. v = ByName(o.name, t, w)
  BY <1>1, <1>2 DEF Committed
<1>10. v = IF o.name = t.name THEN w ELSE t
  BY <1>9 DEF ByName
<1>11. t.active \in {u.active, None}
  BY <1>4 DEF Fades
<1> QED
  BY <1>4, <1>6, <1>7, <1>8, <1>10, <1>11

\* After Enter no command is active, unless a rename fell into the commit.
LEMMA CommitRepliedTyped ==
    ASSUME IInv, Accepts, NEW c \in Conns, Reply(c), conn[c].step = "commit"
    PROVE  Accepts'
<1>1. PICK s, f, n, cells, e, o, x :
         /\ s = session /\ f = conn /\ n = commands /\ cells = line /\ e = Exact
         /\ o = f[c] /\ x = Released(s)
  OBVIOUS
<1>2. /\ o.at = "reply" /\ o.step = "commit" /\ Head(s.writers) = c /\ o.at \in Writing
      /\ UNCHANGED <<line, outside, crossed>>
  BY <1>1 DEF Reply, HoldsWriteLock, Writing
<1>3. /\ n \in Nat /\ SessionOK(s, n) /\ SessionOK(x, n) /\ In(c, s.writers)
      /\ \A d \in Conns \ {c} : In(d, x.writers) <=> In(d, s.writers)
      /\ o.kind = "submit" => In(c, x.submitters)
      /\ o \in CommandType(n) /\ CommandOK(o) /\ Coherent(o)
      /\ CommandTyped(c, o, e) /\ Named(s, o, e) /\ StepTyped(s, c, o, cells, e)
      /\ Unowned(o) => s.active = None
      /\ Lends(s, f, x, e, c) /\ x.active = s.active /\ x.name = s.name
  BY <1>1, <1>2, HolderKnows
<1>4. PICK u, v, y : /\ u = EnterReplied(x, c, o) /\ v = Committed(u, o)
                     /\ y = IF o.kind = "submit" THEN Submitted(v, o) ELSE v
  OBVIOUS
<1>5. /\ Lends(s, f, u, e, c) /\ u.name = x.name /\ u.active \in {x.active, None}
      /\ o.mode = "accept" /\ x.active = o.active => u.active = None
  BY <1>3, <1>4, EnterRepliedLends
<1>6. Tracks(x, u, n)
  BY <1>3, <1>4, EnterRepliedTracks
<1>7. SessionOK(u, n)
  BY <1>6 DEF Tracks
<1>8. /\ Lends(s, f, v, e, c) /\ v.active \in {u.active, None}
      /\ o.name = u.name => v.active = None
  BY <1>3, <1>4, <1>5, <1>7, CommittedLends
<1>9. Tracks(u, v, n)
  BY <1>3, <1>4, <1>7, CommittedTracks
<1>10. SessionOK(v, n) /\ \A d \in Conns \ {c} : In(d, v.writers) <=> In(d, s.writers)
  BY <1>3, <1>6, <1>9 DEF Tracks
<1>11. /\ SessionOK(y, n) /\ y.writers = v.writers /\ y.active = v.active
       /\ y.current = v.current /\ y.accepted = v.accepted /\ y.name = v.name
  <2>1. CASE o.kind = "submit"
    <3>1. y = Submitted(v, o)
      BY <1>4, <2>1
    <3>2. v.submitters # <<>> /\ o.request \in Requests
      <4>1. In(c, v.submitters)
        BY <1>3, <1>6, <1>9, <2>1 DEF Tracks
      <4>2. o.request # NoRequest
        BY <1>3, <2>1 DEF Coherent
      <4> QED
        BY <1>3, <4>1, <4>2 DEF In, CommandType
    <3>3. SessionOK(y, n) /\ y.writers = v.writers
      BY <1>3, <1>10, <3>1, <3>2, SubmittedOK
    <3> QED
      BY <1>10, <3>1, <3>3 DEF Submitted, SessionOK, SessionType
  <2>2. CASE o.kind # "submit"
    BY <1>4, <1>10, <2>2
  <2> QED
    BY <2>1, <2>2
<1>12. Lends(s, f, y, e, c)
  BY <1>8, <1>11 DEF Lends, Named
<1>13. Carried(s, f, y.active, cells, e, c)
  <2> SUFFICES ASSUME y.active # None
               PROVE  /\ ActiveStood(y.active, cells, e) /\ ActiveTyped(y.active, e)
                      /\ s.active # None
    BY DEF Carried
  <2>1. PICK a : a = s.active
    OBVIOUS
  <2>2. y.active = a /\ a # None
    BY <1>3, <1>5, <1>8, <1>11, <2>1
  <2>3. ~e
    <3>1. o.name # s.name
      BY <1>3, <1>5, <1>8, <1>11
    <3>2. Commits(o.kind)
      BY <1>2, <1>3 DEF CommandOK, Suits, Commits
    <3> QED
      BY <1>3, <3>1, <3>2 DEF Named
  <2>4. TypedBy(cells, 0, Tmux)
    BY <1>2, <1>3 DEF StepTyped
  <2>5. Stood(cells, a.owner, a.start, a.draft, e)
    BY <2>3, <2>4 DEF Stood, TypedBy
  <2>6. ActiveTyped(a, e)
    BY <1>1, <2>1 DEF Accepts, TInv
  <2> QED
    BY <2>1, <2>2, <2>5, <2>6 DEF ActiveStood
<1>14. Follows(c, Done(y, c))
  <2>1. Replied(s, c, o) = Done(y, c)
    BY <1>1, <1>2, <1>4 DEF Replied
  <2> QED
    BY <1>1, <2>1 DEF Reply
<1>15. e \in BOOLEAN /\ (e => Exact) /\ Exact' = e
  BY <1>1, <1>2 DEF Exact
<1>16. SessionOK(y, n) /\ \A d \in Conns \ {c} : In(d, y.writers) <=> In(d, s.writers)
  BY <1>10, <1>11
<1> QED
  BY <1>1, <1>2, <1>3, <1>12, <1>13, <1>14, <1>15, <1>16, OverTyped

\* Keys, or a wiped line: nobody's command is active.
LEMMA OtherRepliedTyped ==
    ASSUME IInv, Accepts, NEW c \in Conns, Reply(c), conn[c].step \notin {"sync", "commit"}
    PROVE  Accepts'
<1>1. PICK s, f, n, cells, e, o, x :
         /\ s = session /\ f = conn /\ n = commands /\ cells = line /\ e = Exact
         /\ o = f[c] /\ x = Released(s)
  OBVIOUS
<1>2. /\ o.at = "reply" /\ o.step \notin {"sync", "commit"} /\ Head(s.writers) = c
      /\ o.at \in Writing /\ UNCHANGED <<line, outside, crossed>>
  BY <1>1 DEF Reply, HoldsWriteLock, Writing
<1>3. /\ n \in Nat /\ SessionOK(s, n) /\ SessionOK(x, n) /\ In(c, s.writers)
      /\ \A d \in Conns \ {c} : In(d, x.writers) <=> In(d, s.writers)
      /\ o \in CommandType(n) /\ CommandOK(o)
      /\ Unowned(o) => s.active = None
      /\ Lends(s, f, x, e, c) /\ x.active = s.active /\ x.name = s.name
  BY <1>1, <1>2, HolderKnows
<1>4. o.step \in {"raw", "clear"}
  BY <1>2, <1>3 DEF CommandOK, Suits
<1>5. s.active = None
  BY <1>3, <1>4 DEF Unowned
<1>6. PICK k, b : k = o.revision /\ b \in BOOLEAN /\ b = TRUE
  OBVIOUS
<1>7. PICK u, v, w : u = InvalidateActive(x) /\ v = ResetTracking(x, b) /\ w = Later(v, k)
  OBVIOUS
<1>8. /\ SessionOK(u, n) /\ (\A d \in Conns : In(d, u.writers) <=> In(d, x.writers))
      /\ u.active = None /\ Lends(s, f, u, e, c)
  <2>1. Fades(x, u, Fence) /\ u.current = {}
    BY <1>3, <1>7, InvalidateFades
  <2>2. Tracks(x, u, n) /\ u.active = None
    BY <1>3, <1>7, InvalidateTracks
  <2>3. Lends(s, f, u, e, c)
    BY <1>3, <2>1, LendsOn
  <2> QED
    BY <2>2, <2>3 DEF Tracks
<1>9. /\ SessionOK(w, n) /\ (\A d \in Conns : In(d, w.writers) <=> In(d, x.writers))
      /\ w.active = None /\ Lends(s, f, w, e, c)
  <2>1. Fades(x, v, Fence) /\ v.active = None /\ v.current = {}
    BY <1>3, <1>7, ResetFades
  <2>2. Tracks(x, v, n)
    BY <1>3, <1>6, <1>7, ResetTracks
  <2>3. SessionOK(v, n) /\ k \in 0..n
    BY <1>3, <1>6, <2>2 DEF Tracks, CommandType
  <2>4. Fades(v, w, Fence) /\ Tracks(v, w, n)
    BY <1>3, <1>7, <2>3, LaterFades, LaterTracks
  <2>5. w.current = v.current
    BY <1>7, <2>3 DEF Later, SessionOK, SessionType
  <2>6. Lends(s, f, v, e, c)
    BY <1>3, <2>1, LendsOn
  <2>7. Lends(s, f, w, e, c)
    BY <2>4, <2>5, <2>6, LendsOn
  <2>8. w.active = None
    BY <2>1, <2>4 DEF Fades
  <2> QED
    BY <2>2, <2>4, <2>7, <2>8 DEF Tracks
<1>10. PICK y : y \in {x, u, w} /\ Replied(s, c, o) = Done(y, c)
  <2>1. CASE o.step = "raw"
    <3>1. Replied(s, c, o) = Done(ByName(o.name, x, u), c)
      BY <1>1, <1>7, <2>1 DEF Replied
    <3> QED
      BY <3>1 DEF ByName
  <2>2. CASE o.step = "clear"
    <3>1. Replied(s, c, o) = Done(ByName(o.name, x, w), c)
      BY <1>1, <1>6, <1>7, <2>2 DEF Replied
    <3> QED
      BY <3>1 DEF ByName
  <2> QED
    BY <1>4, <2>1, <2>2
<1>11. /\ SessionOK(y, n) /\ (\A d \in Conns \ {c} : In(d, y.writers) <=> In(d, s.writers))
       /\ y.active = None /\ Lends(s, f, y, e, c)
  BY <1>3, <1>5, <1>8, <1>9, <1>10
<1>12. Carried(s, f, y.active, cells, e, c)
  BY <1>11 DEF Carried
<1>13. Follows(c, Done(y, c))
  BY <1>1, <1>10 DEF Reply
<1>14. e \in BOOLEAN /\ (e => Exact) /\ Exact' = e
  BY <1>1, <1>2 DEF Exact
<1> QED
  BY <1>1, <1>2, <1>3, <1>11, <1>12, <1>13, <1>14, OverTyped

LEMMA ReplyTyped ==
    ASSUME IInv, Accepts, NEW c \in Conns, Reply(c)
    PROVE  Accepts'
BY SyncRepliedTyped, CommitRepliedTyped, OtherRepliedTyped

\* The fence captures the line while nobody writes.
LEMMA SettleFenceTyped ==
    ASSUME IInv, Accepts, SettleFence
    PROVE  Accepts'
<1>1. PICK s, f, n, cells, e, t : /\ s = session /\ f = conn /\ n = commands
                                  /\ cells = line /\ e = Exact /\ t = session'
  OBVIOUS
<1>2. Sound(s, f, n, cells, e) /\ cells \in Seq(Cell)
  BY <1>1, SoundNow
<1>3. n \in Nat /\ SessionOK(s, n) /\ s \in SessionType(n) /\ TInv(s, f, cells, e)
  BY <1>2 DEF Sound, SessionOK
<1>4. Head(s.writers) = Fence /\ UNCHANGED <<line, conn, outside, crossed>>
  BY <1>1 DEF SettleFence, ghosts
<1>5. PICK w, z : w = SubSeq(cells, s.active.start + 1, Len(cells)) /\ z = CancelFence(s)
  OBVIOUS
<1>6. Fades(s, z, Fence) /\ z.current = s.current
  BY <1>3, <1>5, CancelFades
<1>7. Tracks(s, z, n) /\ z.active = s.active
  BY <1>3, <1>5, CancelTracks
<1>8. z \in SessionType(n)
  BY <1>7 DEF Tracks, SessionOK
<1>9. t = [z EXCEPT !.active.settled = TRUE, !.active.cells = w]
  BY <1>1, <1>5 DEF SettleFence
<1>10. PICK a, b : a = s.active /\ b = [a EXCEPT !.settled = TRUE, !.cells = w]
  OBVIOUS
<1>11. t = [z EXCEPT !.active = b]
  BY <1>7, <1>8, <1>9, <1>10 DEF SessionType
<1>12. /\ t.name = z.name /\ t.accepted = z.accepted /\ t.current = z.current
       /\ t.writers = z.writers /\ t.active = b
  BY <1>8, <1>11 DEF SessionType
<1>13. CASE a = None
  <2>1. b = None
    BY <1>10, <1>13 DEF None
  <2>2. Fades(s, t, Fence) /\ t.current \subseteq s.current
    BY <1>6, <1>12, <2>1 DEF Fades
  <2> QED
    BY <1>1, <1>4, <2>2, TrackingTyped
<1>14. CASE a # None
  <2>1. a \in ActiveType
    BY <1>3, <1>10, <1>14 DEF SessionType
  <2>2. /\ b.owner = a.owner /\ b.start = a.start /\ b.draft = a.draft
        /\ b.settled /\ b.cells = w
    BY <1>10, <2>1 DEF ActiveType
  <2>3. \A d \in Conns : ~Holds(f[d])
    <3>1. \A d \in Conns : HasLock(s, f, d)
      BY <1>3 DEF TInv
    <3> QED
      BY <1>4, <3>1, NoneIsNone DEF HasLock
  <2>4. Unwritten(f)
    BY <2>3 DEF Unwritten, Holds
  <2>5. Stood(cells, a.owner, a.start, a.draft, e)
    BY <1>3, <1>10, <1>14, <2>4 DEF TInv, ActiveStood
  <2>6. CellsTyped(b, e)
    <3>1. PICK start \in Nat, draft \in Seq(Character), l \in Nat, owner \in Conns :
            start = a.start /\ draft = a.draft /\ l = Len(cells) /\ owner = a.owner
      <4>1. a.start \in Nat /\ a.draft \in Texts /\ Len(cells) \in Nat /\ a.owner \in Conns
        BY <1>2, <2>1 DEF ActiveType
      <4> QED
        BY <4>1, NoneIsNone
    <3>2. start < l /\ start \in 0..l /\ l \in 0..l
      <4>1. Len(cells) > s.active.start
        BY <1>1 DEF SettleFence
      <4> QED
        BY <1>10, <3>1, <4>1
    <3>3. /\ w \in Seq(Cell) /\ Len(w) = l - start
          /\ \A k \in 1..(l - start) : w[k] = cells[start + k]
      <4>1. w = SubSeq(cells, start + 1, l)
        BY <1>5, <1>10, <3>1
      <4>2. start \in 0..Len(cells) /\ l \in 0..Len(cells) /\ start <= l
        BY <3>1, <3>2
      <4>3. /\ SubSeq(cells, start + 1, l) \in Seq(Cell)
            /\ Len(SubSeq(cells, start + 1, l)) = l - start
            /\ \A k \in 1..(l - start) : SubSeq(cells, start + 1, l)[k] = cells[start + k]
        BY <1>2, <4>2, Cut
      <4> QED
        BY <4>1, <4>3
    <3>4. TypedBy(w, 0, owner)
      <4> SUFFICES ASSUME NEW i \in 1..Len(w) PROVE w[i].by \in {owner, Tmux}
        BY DEF TypedBy
      <4>1. i \in 1..(l - start) /\ start + i \in 1..l /\ start + i > start /\ start + i > 0
        BY <3>2, <3>3
      <4>2. w[i] = cells[start + i]
        BY <3>3, <4>1
      <4>3. TypedBy(cells, 0, owner) \/ TypedBy(cells, start, owner)
        BY <2>5, <3>1 DEF Stood
      <4>4. cells[start + i].by \in {owner, Tmux}
        BY <3>1, <4>1, <4>3 DEF TypedBy
      <4> QED
        BY <4>2, <4>4
    <3>5. e => Chars(w) = draft
      <4> SUFFICES ASSUME e PROVE Chars(w) = draft
        OBVIOUS
      <4>1. Stands(cells, start, draft)
        BY <2>5, <3>1 DEF Stood
      <4>2. Len(draft) \in Nat /\ l = start + Len(draft) /\ Len(w) = Len(draft)
        BY <3>1, <3>3, <4>1 DEF Stands
      <4>3. \A i \in 1..Len(draft) : w[i].ch = draft[i]
        BY <3>3, <4>1, <4>2 DEF Stands
      <4>4. Len(w) = 0 + Len(draft) /\ \A i \in 1..Len(draft) : 0 + i = i
        BY <4>2
      <4>5. Stands(w, 0, draft)
        BY <4>3, <4>4 DEF Stands
      <4> QED
        BY <3>3, <4>5, StandsChars
    <3> QED
      BY <2>2, <3>1, <3>4, <3>5 DEF CellsTyped
  <2>7. \A d \in Conns : /\ CommandTyped(d, f[d], e) /\ ComesFirst(t, f, d)
                         /\ HasLock(t, f, d) /\ StepTyped(t, d, f[d], cells, e)
                         /\ Named(t, f[d], e)
    <3> SUFFICES ASSUME NEW d \in Conns
                 PROVE  /\ CommandTyped(d, f[d], e) /\ ComesFirst(t, f, d)
                        /\ HasLock(t, f, d) /\ StepTyped(t, d, f[d], cells, e)
                        /\ Named(t, f[d], e)
      OBVIOUS
    <3>1. CommandTyped(d, f[d], e) /\ ComesFirst(s, f, d) /\ Named(s, f[d], e)
      BY <1>3 DEF TInv
    <3>2. f[d].at \notin {"send", "reply"} /\ HasLock(t, f, d)
      BY <2>3 DEF HasLock, Holds
    <3>3. StepTyped(t, d, f[d], cells, e)
      BY <3>2 DEF StepTyped
    <3>4. ComesFirst(t, f, d)
      BY <1>10, <1>14, <3>1 DEF ComesFirst
    <3>5. Named(t, f[d], e)
      BY <1>6, <1>12, <3>1 DEF Named, Fades
    <3> QED
      BY <3>1, <3>2, <3>3, <3>4, <3>5
  <2>8. ActiveTyped(t.active, e) /\ ActiveStood(t.active, cells, e)
    BY <1>12, <2>2, <2>5, <2>6 DEF ActiveTyped, ActiveStood
  <2>9. \A r \in t.accepted : CellsTyped(r, e)
    BY <1>3, <1>6, <1>12 DEF TInv, Fades
  <2>10. TInv(t, f, cells, e)
    BY <2>7, <2>8, <2>9 DEF TInv
  <2>11. f = conn' /\ cells = line' /\ e = Exact'
    BY <1>1, <1>4 DEF Exact
  <2> QED
    BY <1>1, <2>10, <2>11, NextSound
<1> QED
  BY <1>13, <1>14

LEMMA DropTyped ==
    ASSUME IInv, Accepts, NEW c \in Conns, Drop(c)
    PROVE  Accepts'
BY InvalidatedTyped DEF Drop, ghosts

LEMMA CloseTyped ==
    ASSUME IInv, Accepts, NEW c \in Conns, Close(c)
    PROVE  Accepts'
<1>1. session' \in {session, InvalidateActive(session)} /\ UNCHANGED <<line, conn, outside, crossed>>
  BY DEF Close, ghosts
<1> QED
  BY <1>1, InvalidatedTyped

LEMMA ChangeLayoutTyped ==
    ASSUME IInv, Accepts, ChangeLayout
    PROVE  Accepts'
<1>1. session' \in {session, InvalidateActive(session)} /\ UNCHANGED <<line, conn, outside, crossed>>
  BY DEF ChangeLayout, ghosts
<1> QED
  BY <1>1, InvalidatedTyped

LEMMA StutterTyped ==
    ASSUME IInv, Accepts, UNCHANGED vars
    PROVE  Accepts'
<1>1. session' \in {session, InvalidateActive(session)} /\ UNCHANGED <<line, conn, outside, crossed>>
  BY DEF vars, ghosts
<1> QED
  BY <1>1, InvalidatedTyped

-----------------------------------------------------------------------------
(* What accepted records show *)

LEMMA InitAccepts == Init => Accepts
<1> SUFFICES ASSUME Init PROVE Accepts
  OBVIOUS
<1>1. PICK s, f, cells, e : s = session /\ f = conn /\ cells = line /\ e = Exact
  OBVIOUS
<1>2. /\ s.active = None /\ s.accepted = {} /\ s.current = {}
      /\ f = [c \in Conns |-> NoCommand]
  BY <1>1 DEF Init
<1>3. ASSUME NEW c \in Conns
      PROVE  /\ CommandTyped(c, f[c], e) /\ ComesFirst(s, f, c) /\ HasLock(s, f, c)
             /\ StepTyped(s, c, f[c], cells, e) /\ Named(s, f[c], e)
  <2>1. f[c] = NoCommand
    BY <1>2
  <2>2. /\ NoCommand.at = "idle" /\ NoCommand.kind = "none"
        /\ CommandTyped(c, NoCommand, e)
    BY NoCommandTyped DEF NoCommand
  <2>3. f[c].at = "idle" /\ f[c].kind = "none" /\ CommandTyped(c, f[c], e)
    BY <2>1, <2>2
  <2> QED
    BY <2>3 DEF ComesFirst, HasLock, Holds, StepTyped, Named, Writing, Commits
<1>4. ActiveTyped(s.active, e) /\ ActiveStood(s.active, cells, e)
  BY <1>2 DEF ActiveTyped, ActiveStood
<1>5. TInv(s, f, cells, e)
  BY <1>2, <1>3, <1>4 DEF TInv
<1> QED
  BY <1>1, <1>5 DEF Accepts

LEMMA StepAccepts ==
    ASSUME IInv, Accepts, [Next]_vars
    PROVE  Accepts'
<1>1. ASSUME NEW c \in Conns, Sync(c) \/ Enter(c) \/ Submit(c) \/ Input(c) PROVE Accepts'
  BY <1>1, SyncTyped, EnterTyped, SubmitTyped, InputTyped
<1>2. ASSUME NEW c \in Conns, ForceClear(c) \/ ResetDraft(c) \/ Rename(c) PROVE Accepts'
  BY <1>2, ForceClearTyped, ResetDraftTyped, RenameTyped
<1>3. ASSUME NEW c \in Conns, Progress(c) PROVE Accepts'
  BY <1>3, EnterSubmissionTyped, FenceAwaitedTyped, TakeSeedLockTyped, CaptureTyped,
     DeliverTyped, ReplyTyped, RenameRepliedTyped DEF Progress
<1>4. ASSUME NEW c \in Conns, FailWrite(c) \/ Drop(c) \/ Close(c) PROVE Accepts'
  BY <1>4, FailWriteTyped, DropTyped, CloseTyped
<1>5. CASE FenceStep
  BY <1>5, QueueFenceTyped, SettleFenceTyped, GiveUpFenceTyped DEF FenceStep
<1>6. CASE TypeInTmux \/ ChangeLayout
  BY <1>6, TypeInTmuxTyped, ChangeLayoutTyped
<1>7. CASE UNCHANGED vars
  BY <1>7, StutterTyped
<1> QED
  BY <1>1, <1>2, <1>3, <1>4, <1>5, <1>6, <1>7 DEF Next

\* Whatever two browsers, renames, failures and other tmux clients do to one
\* line, the record of an accepted command shows cells that its owner typed or
\* that came from tmux, and its draft as long as nobody types there and no
\* rename falls into a commit (CommandProvenance, schedule_active_provenance_fence).
THEOREM AcceptedTyped == Spec => []AcceptedIsTyped
<1>1. Init => IInv /\ Accepts
  BY InitIInv, InitAccepts
<1>2. (IInv /\ Accepts) /\ [Next]_vars => (IInv /\ Accepts)'
  BY StepIInv, StepAccepts
<1>3. IInv /\ Accepts => AcceptedIsTyped
  <2> SUFFICES ASSUME Accepts, IInv, NEW a \in session.accepted
               PROVE  /\ {a.cells[i].by : i \in DOMAIN a.cells} \subseteq {a.owner, Tmux}
                      /\ ~outside /\ ~crossed => Chars(a.cells) = a.draft
    BY DEF AcceptedIsTyped
  <2>1. CellsTyped(a, Exact)
    BY DEF Accepts, TInv
  <2>2. a.cells \in Seq(Cell)
    <3>1. PICK s, n : s = session /\ n = commands
      OBVIOUS
    <3>2. s \in SessionType(n)
      BY <3>1 DEF IInv, RecordsOK, SessionOK
    <3>3. s.accepted \in SUBSET [owner : Conns, draft : Texts, cells : Seq(Cell)]
      BY <3>2 DEF SessionType
    <3> QED
      BY <3>1, <3>3
  <2>3. PICK q \in Seq(Cell) : q = a.cells
    BY <2>2
  <2>4. \A i \in DOMAIN q : q[i].by \in {a.owner, Tmux}
    <3>1. \A i \in DOMAIN q : i \in 1..Len(q) /\ i > 0
      OBVIOUS
    <3> QED
      BY <2>1, <2>3, <3>1 DEF CellsTyped, TypedBy
  <2>5. {a.cells[i].by : i \in DOMAIN a.cells} \subseteq {a.owner, Tmux}
    BY <2>3, <2>4
  <2>6. ~outside /\ ~crossed => Chars(a.cells) = a.draft
    BY <2>1 DEF CellsTyped, Exact
  <2> QED
    BY <2>5, <2>6
<1> QED
  BY <1>1, <1>2, <1>3, PTL DEF Spec
=============================================================================
